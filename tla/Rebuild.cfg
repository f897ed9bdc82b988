\* new Group over the snapshot of a subgroup that has lost a member.
SPECIFICATION HarnessSpec
CONSTANTS
  Keys = {k1, k2, k3}
  Others = {}
  Accounts = {a1}
  NoAddress = NoAddress
  TreeSizes = {2}
  MaxGroups = 1
  MaxTrees = 2
  Scopes = {}
  Messages = {}
  Durations = {1}
  OneHour = 1
  Depths = {}
  MaxBatch = 2
  MaxProofs = 0
SYMMETRY Symmetry
INVARIANT SnapshotRebuilds
CHECK_DEADLOCK FALSE
