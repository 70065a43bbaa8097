SPECIFICATION FairSpec
CONSTANTS
  Hosts = {h1, h2}
  Ports = {p1, p2}
  Other = Other
  None = None
  Conns = {k1}
INVARIANTS NoOrphanChild
PROPERTIES StartSettles StopWaitsOnlyForClients RefinesHostService
