\* Proofs made off-chain race with changes of the subgroups they are made for:
\* members leave, return and move between three subgroups.
SPECIFICATION Spec
CONSTANTS
  Keys = {k1, k2}
  Others <- AHashOfTwo
  Accounts = {a1}
  NoAddress = NoAddress
  TreeSizes = {1, 2}
  MaxGroups = 1
  MaxTrees = 2
  Scopes = {s1}
  Messages = {m1}
  Durations = {1}
  OneHour = 1
  Depths = {1, 33}
  MaxBatch = 0
  MaxProofs = 2
VIEW WithoutEvents
INVARIANTS
  OneSignalPerScope
  ProofFitsOneSubgroup
PROPERTY AcceptedSignerIsMember
