\* Two groups with different admins contend for the same commitments.
SPECIFICATION Spec
CONSTANTS
  Keys = {k1, k2}
  Others = {}
  Accounts = {a1, a2}
  NoAddress = NoAddress
  TreeSizes = {1}
  MaxGroups = 2
  MaxTrees = 2
  Scopes = {}
  Messages = {}
  Durations = {1}
  OneHour = 1
  Depths = {}
  MaxBatch = 2
  MaxProofs = 0
SYMMETRY Symmetry
INVARIANTS
  GlobalMembersExact
  NoDuplicateMember
  GlobalRootCurrent
  OrphanGroupsStayEmpty
PROPERTIES
  ImplementsRegistry
