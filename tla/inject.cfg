SPECIFICATION Spec
CONSTANTS
  h1 = h1
  h2 = h2
  Handlers <- MCHandlers
  Submissions <- MCSubmissions
  SandboxBody <- MCSandboxBody
  MainBodies <- MCMainBodies
  MaxCalls = 2
  MaxChanges = 1
  Faults = {"fail"}
SYMMETRY MCSymmetry
INVARIANTS
  AnswerMatchesAst
  MergeIsWhatWasVerified
  CleanSandboxIsUnannotated
CHECK_DEADLOCK FALSE
