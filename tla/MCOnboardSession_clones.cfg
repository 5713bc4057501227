CONSTANTS
  k1 = k1
  k2 = k2
  p = p
  q = q
  Targets <- MCTargets
  Credentials <- MCCredentials
  None = None
  MaxSessions = 2

SPECIFICATION Spec
SYMMETRY MCSymmetry

PROPERTIES RollbackRemovesOnlyClones
