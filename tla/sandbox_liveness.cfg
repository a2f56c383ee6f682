SPECIFICATION FairSpec
CONSTANTS
  h1 = h1
  h2 = h2
  e1 = e1
  e2 = e2
  Handlers <- MCHandlers
  Ids <- MCTwoIds
  FunctionOf <- MCFunctionOf
  NoFunction = NoFunction
  MaxSandboxes = 1
  MaxCalls = 3
  Ops = {"create", "reset", "delete", "add"}
  Faults = {"crash"}
INVARIANT LiveSandboxesBounded
PROPERTY EverySandboxCallReturns
