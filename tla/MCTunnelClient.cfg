SPECIFICATION FairSpec
CONSTANTS
  Conns = {c1, c2}
  Streams = {s1, s2}
  None = None
INVARIANTS SupervisedControl NothingOutOfReach
PROPERTIES BackoffLadder NothingStartsAfterClose NeverGivesUp RefinesLinkSupervisor
CHECK_DEADLOCK FALSE
