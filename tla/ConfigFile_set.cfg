CONSTANTS
  Terminals = {"t1"}
  None = None

SPECIFICATION Spec
INVARIANT AcceptedIsUsable
