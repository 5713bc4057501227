CONSTANTS
  alice = alice
  bob = bob
  Emails <- MCEmails
  ChallengeIds <- MCIds
  NoChallenge = NoChallenge
  MaxAttempts = 2
  TTL = 2
  MaxTime = 3

SPECIFICATION Spec
SYMMETRY MCSymmetry

INVARIANTS TypeOK GuessBudget SingleRedemption NewestIsCompared
PROPERTIES LockoutCoversOlderCodes ImplementsOneTimeCodes
