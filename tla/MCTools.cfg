CONSTANTS
  None = None
  Requests = {1, 2, 3, 4, 5}
  Modes = {TRUE, FALSE}
  Limit = 2
  Window = 2
  MaxTime = 5
  MaxInFlight = 2
  Devs = {"d1", "d2"}
  Contents = {"a", "b"}
  Operators = {"o1", "o2"}
  MaxMain = 3
  MaxPulls = 2
  Terminals = {"t1", "t2"}
  MaxOrigin = 2

SPECIFICATION ToolsSpec

INVARIANTS ToolsTypeOK BurstBound NamedIsThere
PROPERTIES
  RetryAfterIsEnough MovesForAReason
