SPECIFICATION Spec
CONSTANTS
  h1 = h1
  h2 = h2
  Handlers <- MCHandlers
  MaxStores = 2
  MaxReloads = 2
  Faults = {"io", "frama"}
SYMMETRY MCSymmetry
INVARIANTS
  TypeOK
  OrderIsTheServers
  FileFollowsMemory
