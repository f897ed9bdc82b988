\* One device that is run twice, and another member; two groups, of the server
\* and of another account, each free to be the first, both with subgroups of
\* one leaf, or both with subgroups of two; and one more change by one of their
\* admins. The contract's log of events is read by no step and no property.
SPECIFICATION TwoGroupsSpec
CONSTANTS
  Keys = {d1, c1}
  Others = {}
  Devices <- TheDevice
  Accounts = {server, other}
  Server = server
  NoAddress = NoAddress
  Nobody = Nobody
  Torn = Torn
  TreeSizes = {1, 2}
  MaxGroups = 2
  MaxTrees = 2
  MaxRuns = 2
  MaxOtherOps = 1
VIEW WithoutEvents
INVARIANTS
  TypeOK
  CredentialNamesSavedHolder
  DeviceHoldsOnePlace
  TakenSubgroupWasOwn
  JoinProofAccepted
  WaitIsAnswered
PROPERTY RunEnds
CHECK_DEADLOCK FALSE
