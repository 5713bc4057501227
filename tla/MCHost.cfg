CONSTANTS
  None = None
  BasePortOffset = 1
  BlockSize = 3
  DynamicSlotStart = 1
  MaxPort = 5
  Projects = {0, 1, 2}
  Repos = {"a", "b"}
  MaxIssued = 2
  MaxRetries = 2
  MaxCalls = 3
  Terminals = {"t1", "t2"}
  Count = 2
  MaxRuns = 2
  MaxRelease = 2
  CIRepos <- MCRepos
  CISecrets <- MCSecrets
  DeployKeySecret = "DEPLOY_SSH_KEY"
  MaxTurns = 1
  Servers = {"s1", "s2"}
  Main = 0
  MaxRepos = 2
  MaxEdits = 2
  CoreServices = {"caddy", "postgres"}
  WithFallback = {"caddy"}
  MaxChanges = 2

SPECIFICATION HostSpec
CHECK_DEADLOCK FALSE

INVARIANTS HostTypeOK OneCommandAtATime SuccessIsSo SuggestionIsLowest
PROPERTIES CredentialKept CallsEnd DoneForAReason
