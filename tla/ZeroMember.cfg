\* The flag of 0 after a member has been replaced by 0.
SPECIFICATION Spec
CONSTANTS
  Keys = {k1, k2, k3}
  Others = {}
  Accounts = {a1, a2}
  NoAddress = NoAddress
  TreeSizes = {2}
  MaxGroups = 1
  MaxTrees = 3
  Scopes = {}
  Messages = {}
  Durations = {1}
  OneHour = 1
  Depths = {}
  MaxBatch = 3
  MaxProofs = 0
SYMMETRY Symmetry
INVARIANT FlaggedIsInSomeTree
