----------------------------- MODULE ServerRpc -----------------------------
(***************************************************************************)
(* Synchronous calls over the control connections (cXinelibServer,         *)
(* frontend_svr.c; cFuture, tools/future.h).  Threads of VDR post a        *)
(* command to every client and wait on a future, with a timeout; the       *)
(* server thread reads the clients' replies and sets the future, found by  *)
(* the token that went with the command.  GetSTC() has no token: all its   *)
(* callers share one future.  When a client has sent CONFIG while a media  *)
(* file is played, the server thread itself is a caller.                   *)
(*                                                                         *)
(* cXinelibServer's lock is held from the allocation of the token to the   *)
(* end of the command, and while a reply is handled; no thread waits       *)
(* inside of it, so each such section is one step.                         *)
(***************************************************************************)
EXTENDS Integers, Sequences, FiniteSets

CONSTANTS Callers,    \* VDR's threads
          Server,     \* the server thread
          Clients,    \* remote clients
          TokenMod,   \* tokens are counted modulo 0x10000
          StartToken, \* the last token of the calls made before
          Kinds,      \* the calls that are made
          MaxCalls    \* model bound: calls made

ASSUME RpcAssumption ==
  /\ Server \notin Callers
  /\ TokenMod \in Nat /\ StartToken \in 0 .. TokenMod - 1
  /\ MaxCalls \in Nat /\ MaxCalls < TokenMod
  /\ Kinds \subseteq {"RESULT", "GRAB", "STC"}

Threads == Callers \cup {Server}
NoValue == 0     \* m_Ready is false; values are numbers of calls, from 1

VARIABLES
  m_Token,     \* last token
  m_Futures,   \* registered futures: [token, thread]
  call,        \* each thread's call: where it is, its kind, token and number
  value,       \* each thread's own future
  stcValue,    \* m_StcFuture
  toClient,    \* commands on their way to each client
  toServer,    \* replies on their way back
  connected,   \* fd_control open and m_bConfigOk
  grabbing,    \* the reply whose image the server thread is reading
  calls        \* number of calls so far

rpcVars == <<m_Token, m_Futures, calls>>
netVars == <<toClient, toServer, connected>>
vars == <<rpcVars, netVars, call, value, stcValue, grabbing>>

Idle    == [pc |-> "idle", kind |-> "none", token |-> 0, id |-> 0]
NoReply == [kind |-> "none", token |-> 0, id |-> 0, client |-> Server]

HasClients == connected # {}

(* Wrong variant: replies are handled while the server thread waits.       *)
ServerAlwaysFree == grabbing = NoReply

(* The server thread handles messages: it is in no call and no read.       *)
ServerFree == call[Server].pc = "idle" /\ grabbing = NoReply

Init == /\ m_Token = StartToken
        /\ m_Futures = {}
        /\ call = [t \in Threads |-> Idle]
        /\ value = [t \in Threads |-> NoValue]
        /\ stcValue = NoValue
        /\ toClient = [c \in Clients |-> <<>>]
        /\ toServer = [c \in Clients |-> <<>>]
        /\ connected = Clients
        /\ grabbing = NoReply
        /\ calls = 0

-----------------------------------------------------------------------------
(* The callers.                                                            *)

(* Wrong variant, for the sensitivity checks: the token is not advanced.   *)
SameToken == m_Token

(* Wrong variant: the mask is forgotten.                                   *)
UnmaskedToken == m_Token + 1

(* AllocToken()                                                            *)
AllocToken == (m_Token + 1) % TokenMod

(* Xine_Control(): the command goes to every configured client.            *)
Post(message) ==
  toClient' = [c \in Clients |-> IF c \in connected THEN Append(toClient[c], message)
                                 ELSE toClient[c]]

MayCall(t) == call[t].pc = "idle" /\ calls < MaxCalls

(* Xine_Control_Result(), GrabImage(): register a future for a new token   *)
(* and send TOKEN and the command.                                         *)
Register(t, kind) ==
  /\ m_Token' = AllocToken
  /\ m_Futures' = m_Futures \cup {[token |-> AllocToken, thread |-> t]}
  /\ value' = [value EXCEPT ![t] = NoValue]
  /\ call' = [call EXCEPT ![t] = [pc |-> "wait", kind |-> kind, token |-> AllocToken,
                                  id |-> calls + 1]]
  /\ Post([kind |-> kind, token |-> AllocToken, id |-> calls + 1])
  /\ calls' = calls + 1
  /\ UNCHANGED <<toServer, connected, stcValue, grabbing>>

(* Xine_Control_Result() looks for clients before it takes the lock: they  *)
(* may be gone when it posts.  GrabImage() looks with the lock.            *)
CallResult(t) == /\ "RESULT" \in Kinds
                 /\ t \in Callers
                 /\ MayCall(t)
                 /\ Register(t, "RESULT")

CallGrab(t)   == /\ "GRAB" \in Kinds
                 /\ t \in Callers
                 /\ MayCall(t) /\ HasClients
                 /\ Register(t, "GRAB")

(* GetSTC(): reset the common future and ask.                              *)
CallStc(t) ==
  /\ "STC" \in Kinds
  /\ t \in Callers
  /\ MayCall(t) /\ HasClients
  /\ stcValue' = NoValue
  /\ call' = [call EXCEPT ![t] = [pc |-> "wait", kind |-> "STC", token |-> 0,
                                  id |-> calls + 1]]
  /\ Post([kind |-> "STC", token |-> 0, id |-> calls + 1])
  /\ calls' = calls + 1
  /\ UNCHANGED <<m_Token, m_Futures, value, toServer, connected, grabbing>>

FutureOf(t) == IF call[t].kind = "STC" THEN stcValue ELSE value[t]

(* cFuture::Wait() returns true, or gives up while the value is not there. *)
WaitReady(t) ==
  /\ call[t].pc = "wait"
  /\ FutureOf(t) # NoValue
  /\ call' = [call EXCEPT ![t].pc = "ready"]
  /\ UNCHANGED <<rpcVars, netVars, value, stcValue, grabbing>>

(* Wrong variant: only GetSTC() has a timeout.                             *)
WaitTimeoutStc(t) ==
  /\ call[t].pc = "wait"
  /\ call[t].kind = "STC"
  /\ FutureOf(t) = NoValue
  /\ call' = [call EXCEPT ![t].pc = "timeout"]
  /\ UNCHANGED <<rpcVars, netVars, value, stcValue, grabbing>>

WaitTimeout(t) ==
  /\ call[t].pc = "wait"
  /\ FutureOf(t) = NoValue
  /\ call' = [call EXCEPT ![t].pc = "timeout"]
  /\ UNCHANGED <<rpcVars, netVars, value, stcValue, grabbing>>

(* Wrong variant: the registration outlives the call.                      *)
StillRegistered(t) == m_Futures

(* m_Futures->Del(): harmless when the reply has removed it already.       *)
Deregistered(t) ==
  m_Futures \ {[token |-> call[t].token, thread |-> t]}

(* The end of a call with a future of its own.                             *)
Return(t) ==
  /\ call[t].pc \in {"ready", "timeout"}
  /\ call[t].kind \in {"RESULT", "GRAB"}
  /\ m_Futures' = Deregistered(t)
  /\ call' = [call EXCEPT ![t] = Idle]
  /\ value' = [value EXCEPT ![t] = NoValue]
  /\ UNCHANGED <<m_Token, calls, netVars, stcValue, grabbing>>

(* The end of GetSTC(): Value() waits again, without a timeout, in case    *)
(* another caller has reset the future since Wait() returned.              *)
ReturnStc(t) ==
  /\ call[t].kind = "STC"
  /\ call[t].pc = "timeout" \/ (call[t].pc = "ready" /\ stcValue # NoValue)
  /\ call' = [call EXCEPT ![t] = Idle]
  /\ UNCHANGED <<rpcVars, netVars, value, stcValue, grabbing>>

-----------------------------------------------------------------------------
(* The clients and their connections.                                      *)

(* The client's control thread executes a command and replies.             *)
Execute(c) ==
  /\ c \in connected
  /\ toClient[c] # <<>>
  /\ toServer' = [toServer EXCEPT ![c] = Append(@, Head(toClient[c]))]
  /\ toClient' = [toClient EXCEPT ![c] = Tail(@)]
  /\ UNCHANGED <<rpcVars, call, value, stcValue, connected, grabbing>>

(* CloseConnection()                                                       *)
Close(c) ==
  /\ connected' = connected \ {c}
  /\ toClient' = [toClient EXCEPT ![c] = <<>>]
  /\ toServer' = [toServer EXCEPT ![c] = <<>>]

(* The client closes, or a write to it fails.                              *)
Disconnect(c) ==
  /\ c \in connected
  /\ Close(c)
  /\ UNCHANGED <<rpcVars, call, value, stcValue, grabbing>>

-----------------------------------------------------------------------------
(* The server thread.                                                      *)

(* The future registered for a token is removed and set.                   *)
SetFuture(reply) ==
  LET found == {f \in m_Futures : f.token = reply.token} IN
  IF found = {}
    THEN UNCHANGED <<m_Futures, value>>
    ELSE \E f \in found :
           /\ m_Futures' = m_Futures \ {f}
           /\ value' = [value EXCEPT ![f.thread] = reply.id]

NextReply(c, kind) ==
  ServerFree /\ toServer[c] # <<>> /\ Head(toServer[c]).kind = kind

Consume(c) == toServer' = [toServer EXCEPT ![c] = Tail(@)]

(* "RESULT <token> <value>"                                                *)
HandleResult(c) ==
  /\ NextReply(c, "RESULT")
  /\ SetFuture(Head(toServer[c]))
  /\ Consume(c)
  /\ UNCHANGED <<m_Token, calls, call, stcValue, toClient, connected, grabbing>>

(* "STC <value>"                                                           *)
HandleStc(c) ==
  /\ NextReply(c, "STC")
  /\ stcValue' = Head(toServer[c]).id
  /\ Consume(c)
  /\ UNCHANGED <<rpcVars, call, value, toClient, connected, grabbing>>

(* "GRAB <token> <size>": the lock is released while the image is read.    *)
HandleGrab(c) ==
  /\ NextReply(c, "GRAB")
  /\ LET r == Head(toServer[c]) IN
       grabbing' = [kind |-> r.kind, token |-> r.token, id |-> r.id, client |-> c]
  /\ Consume(c)
  /\ UNCHANGED <<rpcVars, call, value, stcValue, toClient, connected>>

(* "GRAB <token> 0": the client could not grab.                            *)
HandleGrabFailed(c) ==
  /\ NextReply(c, "GRAB")
  /\ SetFuture(Head(toServer[c]))
  /\ Consume(c)
  /\ UNCHANGED <<m_Token, calls, call, stcValue, toClient, connected, grabbing>>

(* The image is complete: hand it over, or free it when nobody waits.      *)
GrabRead ==
  /\ grabbing # NoReply
  /\ SetFuture(grabbing)
  /\ grabbing' = NoReply
  /\ UNCHANGED <<m_Token, calls, call, stcValue, netVars>>

(* It is not: the client is dropped.                                       *)
GrabReadFailed ==
  /\ grabbing # NoReply
  /\ Close(grabbing.client)
  /\ grabbing' = NoReply
  /\ UNCHANGED <<rpcVars, call, value, stcValue>>

(* CONFIG while a file is being played: "GETPOS" is asked from the server  *)
(* thread, the lock released.                                              *)
HandleConfig ==
  /\ "RESULT" \in Kinds
  /\ ServerFree
  /\ MayCall(Server)
  /\ Register(Server, "RESULT")

-----------------------------------------------------------------------------
Caller(t) == CallResult(t) \/ CallGrab(t) \/ CallStc(t)
Waiter(t) == WaitReady(t) \/ WaitTimeout(t) \/ Return(t) \/ ReturnStc(t)
Reading   == GrabRead \/ GrabReadFailed
             \/ \E c \in Clients : \/ HandleResult(c) \/ HandleStc(c)
                                   \/ HandleGrab(c) \/ HandleGrabFailed(c)

Next == \/ \E t \in Threads : Caller(t) \/ Waiter(t)
        \/ \E c \in Clients : Execute(c) \/ Disconnect(c)
        \/ Reading \/ HandleConfig

(* Every wait has a timeout, and the server thread and the clients run.    *)
Spec == /\ Init /\ [][Next]_vars
        /\ \A t \in Threads : WF_vars(Waiter(t))
        /\ \A c \in Clients : WF_vars(Execute(c))
        /\ WF_vars(Reading)

-----------------------------------------------------------------------------
TypeOK ==
  /\ m_Token \in 0 .. TokenMod - 1
  /\ m_Futures \subseteq [token : 0 .. TokenMod - 1, thread : Threads]
  /\ \A t \in Threads : call[t].pc \in {"idle", "wait", "ready", "timeout"}
  /\ value \in [Threads -> 0 .. MaxCalls] /\ stcValue \in 0 .. MaxCalls
  /\ connected \subseteq Clients

(* A registered future is on the stack of a call in progress: a late reply *)
(* never finds the future of a call that has returned.                     *)
NoDanglingFuture ==
  \A f \in m_Futures : /\ call[f.thread].pc # "idle"
                       /\ call[f.thread].token = f.token
                       /\ call[f.thread].kind # "STC"

(* A call gets the answer to its own command, whichever client answers,    *)
(* how late ever the answers to earlier calls come in.                     *)
AnswerMatches ==
  \A t \in Threads : value[t] # NoValue => value[t] = call[t].id

(* The position asked for by the server thread itself never arrives: the   *)
(* thread that would set the future is the one that waits for it, so       *)
(* CONFIG always costs the timeout and the file is started from 0.         *)
OwnCallNeverAnswered == value[Server] = NoValue

(* A call ends, answered or not, also when every client is gone.           *)
CallsReturn ==
  \A t \in Threads : (call[t].kind \in {"RESULT", "GRAB"}) ~> (call[t].kind \notin {"RESULT", "GRAB"})

(* REMOTE_STC_TIMEOUT is 300 ms: a GetSTC() ends.                          *)
StcReturns == \A t \in Callers : (call[t].kind = "STC") ~> (call[t].kind # "STC")
=============================================================================
