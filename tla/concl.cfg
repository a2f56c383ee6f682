SPECIFICATION Spec
CONSTANTS
  h1 = h1
  h2 = h2
  f1 = f1
  f2 = f2
  Handlers <- MCHandlers
  Functions <- MCFunctions
  Updates <- SomeUpdates
  Tools = {"store", "created", "added", "deleted"}
  MaxUpdates = 3
  MaxRestarts = 2
  Faults = {"io"}
SYMMETRY MCSymmetry
INVARIANTS
  TypeOK
  VerifiedHasNoEvidence
  AcknowledgedSurvives
  DiskIsEarlierMemory
  MergeUndoesNoCall
