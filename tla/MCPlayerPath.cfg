SPECIFICATION FairPathSpec
CONSTANTS
  Chunks = {1, 2}
  Request = 0
PROPERTIES FrontAsAlone ReachesGame PlayerLeaves
CHECK_DEADLOCK FALSE
