SPECIFICATION Spec
CONSTANTS
  Hosts = {h1}
  Boot = Boot
  Clicks = {c1, c2, c3}
  Starts = {}
  Stops = {}
  Closings = {w}
  Sessions = {s1, s2, s3}
  None = None
  Overrides = {"unset", "off"}
SYMMETRY Symmetry
INVARIANT OneSession
CHECK_DEADLOCK FALSE
