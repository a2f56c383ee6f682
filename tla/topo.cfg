SPECIFICATION FairSpec
CONSTANTS
  Functions <- MCFunctions
  Programs <- MCPrograms
  MaxFailures = 1
INVARIANTS
  LevelsAreTight
  SeedIsAVerificationOrder
  OldAnswersHold
  StuckOnlyOnLibrary
PROPERTIES
  EverythingIsVerified
