CONSTANTS
  q1 = q1 q2 = q2 a1 = a1 a2 = a2 r1 = r1 r2 = r2 r3 = r3
  NULL = NULL
  Requesters = {q1, q2}
  Responders = {a1}
  Threads <- AllThreads
  Events = {r1, r2}
  MaxCookie = 2
  MaxAnswers = 1
SPECIFICATION FairSpec
CHECK_DEADLOCK FALSE
INVARIANTS TypeOK NoUseAfterFree RefExact RightAnswer NoStrayAnswer NoLostCompletion
PROPERTIES ForcedReturns
