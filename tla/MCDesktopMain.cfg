SPECIFICATION FairSpec
CONSTANTS
  Hosts = {h1, h2}
  Boot = Boot
  Clicks = {c1}
  Starts = {i}
  Stops = {x}
  Closings = {w}
  Sessions = {s1, s2}
  Overrides = {"unset", "off"}
  None = None
INVARIANTS SessionsIntact UnregisteredOnce SerialOneSession SerialOptOut SerialHostKept EveryAwaitIsAnswered ClosedIsEnding
PROPERTIES ClickSettles BootSettles CloseEndsApp
CHECK_DEADLOCK FALSE
