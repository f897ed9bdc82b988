\* One group: additions one by one and in batches, updates and removals, over
\* a forest of up to three subgroups of capacity 0 to 3, and a Group beside
\* each subgroup that is given the contract's events.
SPECIFICATION HarnessSpec
CONSTANTS
  Keys = {k1, k2, k3}
  Others = {}
  Accounts = {a1, a2}
  NoAddress = NoAddress
  TreeSizes = {0, 1, 2, 3}
  MaxGroups = 1
  MaxTrees = 3
  Scopes = {}
  Messages = {}
  Durations = {1}
  OneHour = 1
  Depths = {}
  MaxBatch = 3
  MaxProofs = 0
SYMMETRY Symmetry
INVARIANTS
  TypeOK
  GroupRootIsOnChain
  GroupNeverThrows
  PlacesAreUnique
  SnapshotMatchesTree
  ForestShape
PROPERTY EventsTellMembers
