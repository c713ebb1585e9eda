\* Two threads ask for the STC, the client may go away.
CONSTANTS
  Callers = {t1, t2}
  Server = server
  Clients = {c1}
  TokenMod = 4
  StartToken = 2
  Kinds = {"STC"}
  MaxCalls = 2
SPECIFICATION Spec
PROPERTY StcReturns
CHECK_DEADLOCK FALSE
