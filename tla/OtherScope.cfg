\* One nullifier, two scopes, one request after the other.
SPECIFICATION Spec
CONSTANTS
  Requests = {r1, r2}
  Scopes = {s1, s2}
  Nullifiers = {n1}
PROPERTY UsedNullifierRefused
CHECK_DEADLOCK FALSE
