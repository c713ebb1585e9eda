\* Two callers, two clients, three calls with tokens of their own.
CONSTANTS
  Callers = {t1, t2}
  Server = server
  Clients = {c1, c2}
  TokenMod = 4
  StartToken = 2
  Kinds = {"RESULT", "GRAB", "STC"}
  MaxCalls = 3
SPECIFICATION Spec
INVARIANTS TypeOK NoDanglingFuture AnswerMatches OwnCallNeverAnswered
PROPERTY CallsReturn
\* The model stops when its calls are used up.
CHECK_DEADLOCK FALSE
