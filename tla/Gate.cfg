\* Three requests, one nullifier under two scopes: concurrent requests, retries,
\* crashes.
SPECIFICATION Spec
CONSTANTS
  Requests = {r1, r2, r3}
  Scopes = {s1, s2}
  Nullifiers = {n1}
INVARIANT TypeOK
PROPERTIES
  NoVerificationOnceAccepted
  EveryRequestSettles
CHECK_DEADLOCK FALSE
