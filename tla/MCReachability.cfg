SPECIFICATION FairSpec
CONSTANTS
  Home = {h1}
  Private = {p1, p2}
  Weak = {w1}
  Public = {x1}
  Global6 = {g1}
  Subnets = {{h1}, {p1, p2}, {w1}, {x1}}
  None = None
  EchoUrl = TRUE
  ManualUrl = m
  MaxChanges = 3
INVARIANT Advertised
PROPERTY FollowsNetwork
CHECK_DEADLOCK FALSE
