SPECIFICATION Spec
CONSTANTS
  h1 = h1
  h2 = h2
  f1 = f1
  f2 = f2
  f3 = f3
  f4 = f4
  Handlers <- MCHandlers
  Program <- MCProgram
  Unknown = f4
  Extracted = f2
  Runs <- MCRuns
  Tools = {"resolve", "list", "refresh", "goals", "wp"}
  PageSize = 2
  MaxCalls = 3
  Faults = {"fail"}
SYMMETRY MCSymmetry
INVARIANTS
  WpRunsAsAsked
PROPERTIES
  FetchIsComplete
  FunctionsAreFound
CHECK_DEADLOCK FALSE
