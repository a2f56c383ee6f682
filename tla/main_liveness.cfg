SPECIFICATION FairSpec
CONSTANTS
  h1 = h1
  h2 = h2
  NoHandler = NoHandler
  Handlers <- MCHandlers
  Queries = {"wp"}
  MaxCalls = 2
  MaxSpawns = 3
  MaxFlips = 0
  Faults = {"crash"}
PROPERTY EveryToolReturns
