CONSTANTS
  Repos = {"a"}
  None = None
  MaxIssued = 2

SPECIFICATION Spec
PROPERTY ClaimsOnce
