CONSTANTS
  Uids = {u1, u2, u3}
  Emails = {a1, a2}
  Credentials = {k1, k2, k3, k4}
  First = 10
  Last = 10
  None = None
  NoChallenge = NoChallenge
  NoOwner = NoOwner
  Requests = {"r1", "r2"}
  GrantIds = {1}
  OtpIds = {2}
  WrongSix = 6
  WrongEight = 8
  MaxGuesses = 2
  PublicChallenges = TRUE
  Allowlist = {a1}
  Procs = {"p1", "p2", "p3"}
  InviteIds = {1, 2}
  MaxSecrets = 2
  Checks = {"build", "test"}
  MaxHead = 2
  PollInterval = 1
  RegisterWindow = 2
  RegisterGap = 0
  MaxTime = 2
  GateOptions <- MCOptions
  MaxCommits = 4

SPECIFICATION PartsSpec
CHECK_DEADLOCK FALSE

INVARIANTS
  NoResidue AddressesDistinct IndexSound
  PartsTypeOK CodesPayOnce ReportsHold MergedForAReason
PROPERTIES ImplementsDirectory WaitsEnd
