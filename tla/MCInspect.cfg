CONSTANTS
  alice = alice
  bob = bob
  t1 = t1
  t2 = t2
  Emails <- MCEmails
  GrantIds <- MCIds
  NoGrant = NoGrant
  MaxAttempts = 3
  TTLs <- MCTTLs
  MaxTime = 3
  MaxComparisons = 3
  AuditRepos = {"a", "b"}
  Shared = "all"
  RuleSets <- MCRules
  AuditChanges = 1
  Runs <- MCRuns
  DoctorChanges = 1
  Terminals <- MCTerminals
  Dirs = {"api"}
  Scope = {"handbook"}
  Handbook = "handbook"
  Links = {"rules"}
  MaxEdits = 1

SPECIFICATION InspectSpec
CHECK_DEADLOCK FALSE
SYMMETRY MCSymmetry

INVARIANTS InspectTypeOK GoodOnceNewestFirst AnswersAreEvidence
PROPERTIES ImplementsUnlimitedCodes HandsOff
