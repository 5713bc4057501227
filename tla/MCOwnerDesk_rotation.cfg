CONSTANTS
  alice = alice
  bob = bob
  p1 = p1
  p2 = p2
  p3 = p3
  Emails <- MCEmails
  Procs <- MCProcs
  InviteIds <- MCInvites
  MaxSecrets = 2
  NoOwner = NoOwner

SPECIFICATION Spec
CHECK_DEADLOCK FALSE

INVARIANTS RotationInvalidates
