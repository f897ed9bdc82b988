\* Two concurrent requests with one scope and one nullifier.
SPECIFICATION Spec
CONSTANTS
  Requests = {r1, r2}
  Scopes = {s1}
  Nullifiers = {n1}
INVARIANT NoDoubleUse
CHECK_DEADLOCK FALSE
