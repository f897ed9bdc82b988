\* The global root after a second subgroup has been opened.
SPECIFICATION Spec
CONSTANTS
  Keys = {k1, k2, k3}
  Others = {}
  Accounts = {a1, a2}
  NoAddress = NoAddress
  TreeSizes = {2}
  MaxGroups = 1
  MaxTrees = 3
  Scopes = {}
  Messages = {}
  Durations = {1}
  OneHour = 1
  Depths = {}
  MaxBatch = 3
  MaxProofs = 0
SYMMETRY Symmetry
INVARIANT GlobalRootCoversForest
