SPECIFICATION Spec
CONSTANTS
  h1 = h1
  h2 = h2
  e1 = e1
  e2 = e2
  Handlers <- MCHandlers
  Ids <- MCTwoIds
  FunctionOf <- MCFunctionOf
  NoFunction = NoFunction
  MaxSandboxes = 2
  MaxCalls = 4
  Ops = {"create", "reset", "delete", "add"}
  Faults = {"crash", "fail"}
SYMMETRY HandlerSymmetry
INVARIANTS
  TypeOK
  Ownership
  CleanMeansUnannotated
PROPERTIES
  SoloCallsEndClean
