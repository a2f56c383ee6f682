SPECIFICATION Spec
CONSTANTS
  h1 = h1
  h2 = h2
  f1 = f1
  f2 = f2
  Handlers <- MCOneHandler
  Functions <- MCOneFunction
  Updates <- OneUpdate
  Tools = {"store"}
  MaxUpdates = 2
  MaxRestarts = 1
  Faults = {}
INVARIANT RestartRestores
