CONSTANTS
  r1 = r1
  r2 = r2
  r3 = r3
  m1 = m1
  m2 = m2
  k1 = k1
  k2 = k2
  k3 = k3
  Requests <- MCRequests
  Invites <- MCInvites
  Machines <- MCMachines
  Headers <- MCHeaders
  Uids <- MCUids
  Emails <- MCEmails
  EmailOf <- MCEmailOf
  UidOf <- MCUidOf
  Credentials <- MCCredentials
  NoAccount = NoAccount
  MaxRevoked = 1

SPECIFICATION Spec
SYMMETRY MCSymmetry

INVARIANTS TypeOK OneCredentialPerPerson CacheIsLive
