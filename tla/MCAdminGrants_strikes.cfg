CONSTANTS
  alice = alice
  bob = bob
  Emails = {alice}
  GrantIds = {1}
  NoGrant = NoGrant
  MaxAttempts = 3
  TTLs <- MCTTLs
  MaxTime = 3
  MaxComparisons = 4

SPECIFICATION Spec


INVARIANTS ThreeStrikes
