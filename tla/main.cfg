SPECIFICATION Spec
CONSTANTS
  h1 = h1
  h2 = h2
  NoHandler = NoHandler
  Handlers <- MCHandlers
  Queries = {"wp"}
  MaxCalls = 3
  MaxSpawns = 3
  MaxFlips = 1
  Faults = {"crash", "fail"}
SYMMETRY HandlerSymmetry
INVARIANTS
  TypeOK
  NothingIsLeftBehind
PROPERTIES
  SoloReloadIsFresh
  LockFreezesOnceQuiet
