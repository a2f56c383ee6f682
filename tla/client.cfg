\* Two handlers and a peer that may die, hang, stay silent, or send frames that
\* do not decode.  (No symmetry: EveryCallReturns is a liveness property.)
SPECIFICATION FairSpec
CONSTANTS
  c1 = c1
  c2 = c2
  Callers <- Two
  NoCaller = none
  MaxRequests = 2
  MaxRounds = 1
  Faults = {"crash", "badjson", "badframe"}
  Base = 2
  Digits <- MCDigits
  PayloadLengths = {0, 1, 2, 3, 4, 5, 7, 8, 9}
INVARIANTS TypeOK ReplyIsForThisCall AbandonedIsKilled FramesSurvive
PROPERTIES OwnAnswerNeverSkipped ImplementsRequestReply EveryCallReturns
