SPECIFICATION FairSpec
CONSTANTS
  Hosts = {h1, h2}
  Ports = {p1}
  Other = Other
  None = None
  Conns = {k1}
PROPERTY StopStops
