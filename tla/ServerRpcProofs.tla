-------------------------- MODULE ServerRpcProofs --------------------------
(***************************************************************************)
(* Proofs about ServerRpc, for every set of callers and clients and every  *)
(* number of tokens larger than the number of calls.                       *)
(***************************************************************************)
EXTENDS ServerRpc, TLAPS

-----------------------------------------------------------------------------
(* How many tokens have been handed out up to and including token k.       *)
Age(k) == IF k >= StartToken THEN k - StartToken ELSE k - StartToken + TokenMod

Tokens == 0 .. TokenMod - 1

(* Until all tokens are used up, AllocToken() yields one that is younger   *)
(* than all the others, also over the wrap.                                *)
LEMMA NextToken ==
  ASSUME NEW k \in Tokens, Age(k) < TokenMod - 1
  PROVE  /\ (k + 1) % TokenMod \in Tokens
         /\ Age((k + 1) % TokenMod) = Age(k) + 1
<1>1. (k + 1) % TokenMod = IF k = TokenMod - 1 THEN 0 ELSE k + 1
  BY RpcAssumption DEF Tokens
<1> QED
  BY <1>1, RpcAssumption DEF Tokens, Age

LEMMA AgeNat == \A k \in Tokens : Age(k) \in Nat
  BY RpcAssumption DEF Tokens, Age

LEMMA FirstAge == StartToken \in Tokens /\ Age(StartToken) = 0
  BY RpcAssumption DEF Tokens, Age

LEMMA SeqMonotone ==
  ASSUME NEW S, NEW T, S \subseteq T
  PROVE  Seq(S) \subseteq Seq(T)
  OBVIOUS

-----------------------------------------------------------------------------
(* The inductive invariant.                                                *)

AllKinds == {"RESULT", "GRAB", "STC"}
Message  == [kind : AllKinds, token : Tokens, id : 1 .. MaxCalls]
Call     == [pc : {"idle", "wait", "ready", "timeout"}, kind : AllKinds \cup {"none"},
             token : Tokens, id : 0 .. MaxCalls]

StateTypes ==
  /\ m_Token \in Tokens
  /\ m_Futures \subseteq [token : Tokens, thread : Threads]
  /\ call \in [Threads -> Call]
  /\ value \in [Threads -> 0 .. MaxCalls]
  /\ stcValue \in 0 .. MaxCalls
  /\ connected \subseteq Clients
  /\ calls \in 0 .. MaxCalls
  /\ Age(m_Token) <= calls

(* Messages that may be under way: an answer with the token of a           *)
(* registered future is an answer to that future's call.                   *)
Sound ==
  {m \in Message : m.kind # "STC" =>
     /\ Age(m.token) <= Age(m_Token)
     /\ \A f \in m_Futures : f.token = m.token => call[f.thread].id = m.id}

FuturesOld == \A f \in m_Futures : Age(f.token) <= Age(m_Token)

QueuesSound == /\ toClient \in [Clients -> Seq(Sound)]
               /\ toServer \in [Clients -> Seq(Sound)]

(* The server thread is not in a call of its own while it reads an image.  *)
GrabSound ==
  grabbing # NoReply =>
     /\ call[Server].pc = "idle"
     /\ grabbing.client \in Clients
     /\ grabbing.kind = "GRAB"
     /\ [kind |-> "GRAB", token |-> grabbing.token, id |-> grabbing.id] \in Sound

(* The value of a thread's own future belongs to a call that has one.      *)
IdleNoValue ==
  \A t \in Threads : call[t].pc = "idle" \/ call[t].kind = "STC" => value[t] = NoValue

RpcInv == /\ StateTypes
          /\ NoDanglingFuture
          /\ IdleNoValue
          /\ AnswerMatches
          /\ OwnCallNeverAnswered
          /\ FuturesOld
          /\ QueuesSound
          /\ GrabSound

LEMMA RpcInvInit == Init => RpcInv
<1> SUFFICES ASSUME Init PROVE RpcInv
  OBVIOUS
<1>1. StateTypes
  BY FirstAge, RpcAssumption
  DEF Init, StateTypes, Call, Idle, Tokens, NoValue, Threads
<1>2. /\ NoDanglingFuture /\ AnswerMatches /\ OwnCallNeverAnswered
      /\ IdleNoValue /\ FuturesOld
  BY DEF Init, NoDanglingFuture, IdleNoValue, AnswerMatches, OwnCallNeverAnswered, FuturesOld, Threads
<1>3. QueuesSound /\ GrabSound
  BY DEF Init, QueuesSound, GrabSound
<1> QED
  BY <1>1, <1>2, <1>3 DEF RpcInv

(* A step after which every sound message is still sound, and which moves  *)
(* no message, keeps the part of the invariant that is about messages.     *)
LEMMA QueuesKept ==
  ASSUME QueuesSound, Sound \subseteq Sound', UNCHANGED <<toClient, toServer>>
  PROVE  QueuesSound'
<1>1. Seq(Sound) \subseteq Seq(Sound')
  BY SeqMonotone
<1> QED
  BY <1>1 DEF QueuesSound

(* Xine_Control_Result() and GrabImage(): the new token is the token of no *)
(* message under way and of no other future.                               *)
LEMMA RegisterKeeps ==
  ASSUME RpcInv, NEW t \in Threads, NEW kind \in {"RESULT", "GRAB"},
         call[t].pc = "idle", calls < MaxCalls, Register(t, kind),
         grabbing = NoReply \/ t # Server
  PROVE  RpcInv'
<1> DEFINE new == AllocToken
           msg == [kind |-> kind, token |-> new, id |-> calls + 1]
           future == [token |-> new, thread |-> t]
<1>0. /\ m_Token \in Tokens /\ Age(m_Token) \in Nat /\ Age(m_Token) < TokenMod - 1
      /\ calls \in Nat /\ calls + 1 \in 1 .. MaxCalls /\ Age(m_Token) <= calls
  BY AgeNat, RpcAssumption DEF RpcInv, StateTypes
<1>1. new \in Tokens /\ Age(new) = Age(m_Token) + 1
  BY <1>0, NextToken DEF AllocToken
<1> HIDE DEF new
<1>a. m_Token' = new /\ calls' = calls + 1
  BY DEF Register, new
<1>2. StateTypes'
  <2>1. m_Token' \in Tokens /\ calls' \in 0 .. MaxCalls /\ Age(m_Token)' <= calls'
    <3>1. Age(m_Token)' = Age(new)
      BY <1>a DEF Age
    <3> QED
      BY <3>1, <1>a, <1>1, <1>0
  <2>2. m_Futures' \subseteq [token : Tokens, thread : Threads]
    BY <1>1 DEF RpcInv, StateTypes, Register, new
  <2>3. call' \in [Threads -> Call]
    <3>1. [pc |-> "wait", kind |-> kind, token |-> new, id |-> calls + 1] \in Call
      BY <1>0, <1>1 DEF Call, AllKinds
    <3> QED
      BY <3>1 DEF RpcInv, StateTypes, Register, new
  <2>4. value' \in [Threads -> 0 .. MaxCalls]
    BY RpcAssumption DEF RpcInv, StateTypes, Register, NoValue
  <2> QED
    BY <2>1, <2>2, <2>3, <2>4 DEF RpcInv, StateTypes, Register
<1>3. \A f \in m_Futures : f.thread # t /\ f.token # new
  <2> TAKE f \in m_Futures
  <2>1. f.token \in Tokens /\ Age(f.token) <= Age(m_Token) /\ call[f.thread].pc # "idle"
    BY DEF RpcInv, NoDanglingFuture, FuturesOld, StateTypes
  <2>2. f.thread # t
    BY <2>1
  <2>3. f.token # new
    BY <2>1, <1>1, <1>0
  <2> QED
    BY <2>2, <2>3
<1>4. NoDanglingFuture'
  BY <1>3 DEF RpcInv, StateTypes, NoDanglingFuture, Register, new
<1>5. AnswerMatches' /\ OwnCallNeverAnswered' /\ IdleNoValue'
  BY DEF RpcInv, StateTypes, AnswerMatches, OwnCallNeverAnswered, IdleNoValue, Register, Threads
<1>b. Age(m_Token') = Age(m_Token) + 1
  BY <1>a, <1>1
<1>6. FuturesOld'
  <2>1. ASSUME NEW f \in m_Futures' PROVE Age(f.token) <= Age(m_Token')
    <3>1. f \in m_Futures \/ f.token = new
      BY DEF Register, new
    <3>2. CASE f \in m_Futures
      <4>1. f.token \in Tokens /\ Age(f.token) <= Age(m_Token)
        BY <3>2 DEF RpcInv, FuturesOld, StateTypes
      <4> QED
        BY <4>1, <1>b, <1>0, AgeNat
    <3>3. CASE f.token = new
      BY <3>3, <1>b, <1>1, <1>0
    <3> QED
      BY <3>1, <3>2, <3>3
  <2> QED
    BY <2>1 DEF FuturesOld, Age
<1>7. Sound \subseteq Sound'
  <2> SUFFICES ASSUME NEW m \in Sound PROVE m \in Sound'
    OBVIOUS
  <2> SUFFICES ASSUME m.kind # "STC"
               PROVE  /\ Age(m.token) <= Age(m_Token')
                      /\ \A f \in m_Futures' : f.token = m.token => call'[f.thread].id = m.id
    BY DEF Sound, Age
  <2>1. m.token \in Tokens /\ Age(m.token) <= Age(m_Token) /\ m.token # new
    <3>1. m.token \in Tokens /\ Age(m.token) <= Age(m_Token)
      BY DEF Sound, Message
    <3> QED
      BY <3>1, <1>1, <1>0
  <2>2. Age(m.token) <= Age(m_Token')
    BY <1>b, <1>0, <2>1, AgeNat
  <2>3. ASSUME NEW f \in m_Futures', f.token = m.token
        PROVE  call'[f.thread].id = m.id
    BY <2>1, <2>3, <1>3 DEF Register, Sound, RpcInv, StateTypes, new
  <2> QED
    BY <2>2, <2>3
<1>8. msg \in Sound'
  <2>1. msg \in Message
    BY <1>1, RpcAssumption DEF Message, AllKinds, RpcInv, StateTypes
  <2>2. \A f \in m_Futures' : f.token = new => call'[f.thread].id = calls + 1
    BY <1>3 DEF Register, RpcInv, StateTypes, new
  <2>3. Age(new) <= Age(m_Token')
    BY <1>1, <1>b, <1>0
  <2> QED
    BY <2>1, <2>2, <2>3 DEF Sound, Age
<1>9. QueuesSound'
  <2>1. Seq(Sound) \subseteq Seq(Sound')
    BY <1>7, SeqMonotone
  <2>2. toServer' \in [Clients -> Seq(Sound')] /\ toClient \in [Clients -> Seq(Sound')]
    BY <2>1 DEF RpcInv, QueuesSound, Register
  <2>3. \A c \in Clients : Append(toClient[c], msg) \in Seq(Sound')
    BY <2>2, <1>8
  <2>4. toClient' = [c \in Clients |-> IF c \in connected THEN Append(toClient[c], msg)
                                       ELSE toClient[c]]
    BY DEF Register, Post, new
  <2>5. toClient' \in [Clients -> Seq(Sound')]
    BY <2>2, <2>3, <2>4
  <2> QED
    BY <2>2, <2>5 DEF QueuesSound
<1>10. GrabSound'
  BY <1>7 DEF RpcInv, GrabSound, Register, StateTypes, NoReply
<1> QED
  BY <1>2, <1>4, <1>5, <1>6, <1>9, <1>10 DEF RpcInv

-----------------------------------------------------------------------------
(* As long as no token is handed out and the calls with a future keep      *)
(* their numbers, a message that is sound stays so.                        *)
LEMMA SoundKept ==
  ASSUME RpcInv, m_Token' = m_Token, m_Futures' \subseteq m_Futures,
         \A f \in m_Futures' : call'[f.thread].id = call[f.thread].id
  PROVE  Sound \subseteq Sound' /\ FuturesOld'
<1>1. Sound \subseteq Sound'
  <2> SUFFICES ASSUME NEW m \in Sound PROVE m \in Sound'
    OBVIOUS
  <2>1. m.kind # "STC" => Age(m.token) <= Age(m_Token')
    BY DEF Sound
  <2>2. m.kind # "STC" => \A f \in m_Futures' : f.token = m.token => call'[f.thread].id = m.id
    BY DEF Sound
  <2> QED
    BY <2>1, <2>2 DEF Sound, Age
<1>2. FuturesOld'
  BY DEF RpcInv, FuturesOld, Age
<1> QED
  BY <1>1, <1>2

(* RESULT and GRAB: a reply sets at most the future of the call it answers *)
(* and never one of the server thread, which is not in a call.             *)
LEMMA ReplyKeeps ==
  ASSUME RpcInv, call[Server].pc = "idle", NEW reply,
         reply.id \in 0 .. MaxCalls,
         \A f \in m_Futures : f.token = reply.token => call[f.thread].id = reply.id,
         SetFuture(reply), UNCHANGED <<m_Token, calls, call, stcValue>>,
         connected' \subseteq connected
  PROVE  /\ StateTypes' /\ NoDanglingFuture' /\ AnswerMatches' /\ OwnCallNeverAnswered'
         /\ IdleNoValue' /\ FuturesOld' /\ Sound \subseteq Sound'
<1>1. m_Futures' \subseteq m_Futures
  BY DEF SetFuture
<1>2. FuturesOld' /\ Sound \subseteq Sound'
  BY <1>1, SoundKept
<1>3. NoDanglingFuture'
  BY <1>1 DEF RpcInv, NoDanglingFuture
<1>4. \/ UNCHANGED value
      \/ \E f \in m_Futures : /\ f.token = reply.token
                              /\ value' = [value EXCEPT ![f.thread] = reply.id]
  BY DEF SetFuture
<1>5. CASE UNCHANGED value
  <2>1. StateTypes'
    BY <1>1, <1>5 DEF RpcInv, StateTypes, Age
  <2>2. AnswerMatches' /\ OwnCallNeverAnswered' /\ IdleNoValue'
    BY <1>5 DEF RpcInv, AnswerMatches, OwnCallNeverAnswered, IdleNoValue
  <2> QED
    BY <1>2, <1>3, <2>1, <2>2
<1>6. CASE \E f \in m_Futures : /\ f.token = reply.token
                                /\ value' = [value EXCEPT ![f.thread] = reply.id]
  <2>1. PICK f \in m_Futures : /\ f.token = reply.token
                               /\ value' = [value EXCEPT ![f.thread] = reply.id]
    BY <1>6
  <2>2. /\ f.thread \in Threads
        /\ f.thread # Server
        /\ call[f.thread].id = reply.id
        /\ call[f.thread].pc # "idle" /\ call[f.thread].kind # "STC"
    BY <2>1 DEF RpcInv, StateTypes, NoDanglingFuture
  <2>3. value' \in [Threads -> 0 .. MaxCalls]
    BY <2>1 DEF RpcInv, StateTypes
  <2>4. StateTypes'
    BY <1>1, <2>3 DEF RpcInv, StateTypes, Age
  <2>5. AnswerMatches'
    BY <2>1, <2>2 DEF RpcInv, StateTypes, AnswerMatches
  <2>6. OwnCallNeverAnswered' /\ IdleNoValue'
    BY <2>1, <2>2 DEF RpcInv, StateTypes, OwnCallNeverAnswered, IdleNoValue, Threads
  <2> QED
    BY <1>2, <1>3, <2>4, <2>5, <2>6
<1> QED
  BY <1>4, <1>5, <1>6

(* The next reply of a client.                                             *)
LEMMA HeadSound ==
  ASSUME RpcInv, NEW c \in Clients, toServer[c] # <<>>
  PROVE  Head(toServer[c]) \in Sound /\ Tail(toServer[c]) \in Seq(Sound)
<1>1. toServer[c] \in Seq(Sound)
  BY DEF RpcInv, QueuesSound
<1> QED
  BY <1>1

LEMMA ConsumeKeeps ==
  ASSUME RpcInv, NEW c \in Clients, toServer[c] # <<>>, Consume(c),
         UNCHANGED toClient, Sound \subseteq Sound'
  PROVE  QueuesSound'
<1>1. Seq(Sound) \subseteq Seq(Sound')
  BY SeqMonotone
<1>2. toServer' \in [Clients -> Seq(Sound')]
  BY <1>1, HeadSound DEF Consume, RpcInv, QueuesSound
<1> QED
  BY <1>1, <1>2 DEF RpcInv, QueuesSound

(* A thread gives up or finds its answer: nothing but its own call moves.  *)
LEMMA WaitKeeps ==
  ASSUME RpcInv, NEW t \in Threads, NEW pc \in {"ready", "timeout"},
         call[t].pc = "wait", call' = [call EXCEPT ![t].pc = pc],
         UNCHANGED <<rpcVars, netVars, value, stcValue, grabbing>>
  PROVE  RpcInv'
<1>1. call' \in [Threads -> Call]
  BY DEF RpcInv, StateTypes, Call
<1>2. \A u \in Threads : /\ call'[u].id = call[u].id
                         /\ call'[u].token = call[u].token
                         /\ call'[u].kind = call[u].kind
                         /\ call[u].pc # "idle" => call'[u].pc # "idle"
                         /\ call[u].pc = "idle" => call'[u].pc = "idle"
  BY DEF RpcInv, StateTypes, Call
<1>3. \A f \in m_Futures : f.thread \in Threads
  BY DEF RpcInv, StateTypes
<1>4. StateTypes'
  BY <1>1 DEF RpcInv, StateTypes, rpcVars, netVars, Age
<1>5. NoDanglingFuture' /\ AnswerMatches' /\ OwnCallNeverAnswered' /\ IdleNoValue'
  BY <1>2, <1>3 DEF RpcInv, NoDanglingFuture, IdleNoValue, AnswerMatches, OwnCallNeverAnswered, rpcVars
<1>6. FuturesOld' /\ Sound \subseteq Sound'
  BY <1>2, <1>3, SoundKept DEF rpcVars
<1>7. QueuesSound'
  BY <1>6, QueuesKept DEF netVars, RpcInv
<1>8. GrabSound'
  BY <1>6, <1>2 DEF RpcInv, GrabSound, Threads, NoReply
<1> QED
  BY <1>4, <1>5, <1>6, <1>7, <1>8 DEF RpcInv

(* The end of Xine_Control_Result() or GrabImage(): m_Futures->Del() takes *)
(* away the only future of the thread.                                     *)
LEMMA ReturnKeeps ==
  ASSUME RpcInv, NEW t \in Threads, Return(t)
  PROVE  RpcInv'
<1>1. Idle \in Call
  BY RpcAssumption DEF Idle, Call, Tokens
<1>2. \A f \in m_Futures' : f \in m_Futures /\ f.thread # t /\ f.thread \in Threads
  BY DEF Return, Deregistered, RpcInv, StateTypes, NoDanglingFuture
<1>3. StateTypes'
  BY <1>1, <1>2, RpcAssumption DEF Return, netVars, RpcInv, StateTypes, NoValue, Age
<1>4. NoDanglingFuture'
  BY <1>2 DEF Return, RpcInv, StateTypes, NoDanglingFuture
<1>5. AnswerMatches' /\ OwnCallNeverAnswered' /\ IdleNoValue'
  BY DEF Return, RpcInv, StateTypes, AnswerMatches, OwnCallNeverAnswered, IdleNoValue, Threads
<1>6. FuturesOld' /\ Sound \subseteq Sound'
  <2>1. m_Futures' \subseteq m_Futures /\ m_Token' = m_Token
    BY <1>2 DEF Return
  <2>2. \A f \in m_Futures' : call'[f.thread].id = call[f.thread].id
    BY <1>2 DEF Return, RpcInv, StateTypes
  <2> QED
    BY <2>1, <2>2, SoundKept
<1>7. QueuesSound'
  BY <1>6, QueuesKept DEF Return, netVars, RpcInv
<1>8. GrabSound'
  <2>1. call[Server].pc = "idle" => call'[Server].pc = "idle"
    BY DEF Return, RpcInv, StateTypes, Threads, Idle
  <2> QED
    BY <1>6, <2>1 DEF Return, RpcInv, GrabSound, NoReply
<1> QED
  BY <1>3, <1>4, <1>5, <1>6, <1>7, <1>8 DEF RpcInv

(* GetSTC() begins or ends: no future with a token is concerned.           *)
LEMMA CallStcKeeps ==
  ASSUME RpcInv, NEW t \in Threads, CallStc(t)
  PROVE  RpcInv'
<1> DEFINE msg == [kind |-> "STC", token |-> 0, id |-> calls + 1]
<1>0. call[t].pc = "idle" /\ t # Server /\ calls + 1 \in 1 .. MaxCalls /\ 0 \in Tokens
  BY RpcAssumption DEF CallStc, MayCall, RpcInv, StateTypes, Tokens
<1>1. \A f \in m_Futures : f.thread \in Threads /\ f.thread # t
  BY <1>0 DEF RpcInv, StateTypes, NoDanglingFuture
<1>2. StateTypes'
  <2>1. [pc |-> "wait", kind |-> "STC", token |-> 0, id |-> calls + 1] \in Call
    BY <1>0 DEF Call, AllKinds
  <2>2. call' \in [Threads -> Call]
    BY <2>1 DEF CallStc, RpcInv, StateTypes
  <2>3. calls' \in 0 .. MaxCalls /\ Age(m_Token)' <= calls'
    <3>1. Age(m_Token)' = Age(m_Token) /\ Age(m_Token) \in Nat /\ Age(m_Token) <= calls
      BY AgeNat DEF CallStc, Age, RpcInv, StateTypes
    <3>2. calls' = calls + 1 /\ calls \in Nat
      BY DEF CallStc, RpcInv, StateTypes
    <3> QED
      BY <3>1, <3>2, <1>0
  <2> QED
    BY <2>2, <2>3, RpcAssumption DEF CallStc, RpcInv, StateTypes, NoValue
<1>3. NoDanglingFuture' /\ OwnCallNeverAnswered'
  BY <1>1 DEF CallStc, RpcInv, StateTypes, NoDanglingFuture, OwnCallNeverAnswered
<1>4. AnswerMatches' /\ IdleNoValue'
  BY <1>0 DEF CallStc, RpcInv, StateTypes, AnswerMatches, IdleNoValue
<1>5. FuturesOld' /\ Sound \subseteq Sound'
  BY <1>1, SoundKept DEF CallStc, RpcInv, StateTypes
<1>6. msg \in Sound'
  BY <1>0 DEF Sound, Message, AllKinds
<1>7. QueuesSound'
  <2>1. Seq(Sound) \subseteq Seq(Sound')
    BY <1>5, SeqMonotone
  <2>2. toServer' \in [Clients -> Seq(Sound')] /\ toClient \in [Clients -> Seq(Sound')]
    BY <2>1 DEF RpcInv, QueuesSound, CallStc
  <2>3. \A c \in Clients : Append(toClient[c], msg) \in Seq(Sound')
    BY <2>2, <1>6
  <2>4. toClient' = [c \in Clients |-> IF c \in connected THEN Append(toClient[c], msg)
                                       ELSE toClient[c]]
    BY DEF CallStc, Post
  <2> QED
    BY <2>2, <2>3, <2>4 DEF QueuesSound
<1>8. GrabSound'
  BY <1>0, <1>5 DEF CallStc, RpcInv, GrabSound, StateTypes, NoReply
<1> QED
  BY <1>2, <1>3, <1>4, <1>5, <1>7, <1>8 DEF RpcInv

LEMMA ReturnStcKeeps ==
  ASSUME RpcInv, NEW t \in Threads, ReturnStc(t)
  PROVE  RpcInv'
<1>1. Idle \in Call
  BY RpcAssumption DEF Idle, Call, Tokens
<1>2. \A f \in m_Futures : f.thread # t /\ f.thread \in Threads
  BY DEF ReturnStc, RpcInv, StateTypes, NoDanglingFuture
<1>3. StateTypes'
  BY <1>1 DEF ReturnStc, rpcVars, netVars, RpcInv, StateTypes, Age
<1>4. NoDanglingFuture'
  BY <1>2 DEF ReturnStc, rpcVars, RpcInv, StateTypes, NoDanglingFuture
<1>5. AnswerMatches' /\ OwnCallNeverAnswered' /\ IdleNoValue'
  BY DEF ReturnStc, RpcInv, StateTypes, AnswerMatches, OwnCallNeverAnswered, IdleNoValue
<1>6. FuturesOld' /\ Sound \subseteq Sound'
  BY <1>2, SoundKept DEF ReturnStc, rpcVars, RpcInv, StateTypes
<1>7. QueuesSound'
  BY <1>6, QueuesKept DEF ReturnStc, netVars, RpcInv
<1>8. GrabSound'
  <2>1. call[Server].pc = "idle" => call'[Server].pc = "idle"
    BY DEF ReturnStc, RpcInv, StateTypes, Threads, Idle
  <2> QED
    BY <1>6, <2>1 DEF ReturnStc, RpcInv, GrabSound, NoReply
<1> QED
  BY <1>3, <1>4, <1>5, <1>6, <1>7, <1>8 DEF RpcInv

(* Steps that leave calls, futures and values alone.                       *)
LEMMA MessagesKeep ==
  ASSUME RpcInv, UNCHANGED <<rpcVars, call, value>>,
         stcValue' \in 0 .. MaxCalls, connected' \subseteq Clients,
         toClient' \in [Clients -> Seq(Sound)],
         toServer' \in [Clients -> Seq(Sound)],
         UNCHANGED grabbing \/ grabbing' = NoReply
  PROVE  RpcInv'
<1>1. StateTypes'
  BY DEF rpcVars, RpcInv, StateTypes, Age
<1>2. NoDanglingFuture' /\ AnswerMatches' /\ OwnCallNeverAnswered' /\ IdleNoValue'
  BY DEF rpcVars, RpcInv, NoDanglingFuture, AnswerMatches, OwnCallNeverAnswered, IdleNoValue
<1>3. FuturesOld' /\ Sound \subseteq Sound'
  BY SoundKept DEF rpcVars
<1>4. QueuesSound'
  BY <1>3, SeqMonotone DEF QueuesSound
<1>5. GrabSound'
  BY <1>3 DEF RpcInv, GrabSound, NoReply
<1> QED
  BY <1>1, <1>2, <1>3, <1>4, <1>5 DEF RpcInv

LEMMA CloseKeeps ==
  ASSUME RpcInv, NEW c \in Clients, Close(c), UNCHANGED <<rpcVars, call, value, stcValue>>,
         UNCHANGED grabbing \/ grabbing' = NoReply
  PROVE  RpcInv'
<1>1. /\ toClient' \in [Clients -> Seq(Sound)]
      /\ toServer' \in [Clients -> Seq(Sound)]
  BY DEF Close, RpcInv, QueuesSound
<1> QED
  BY <1>1, MessagesKeep DEF Close, RpcInv, StateTypes

LEMMA HandleReplyKeeps ==
  ASSUME RpcInv, NEW c \in Clients, NEW kind \in {"RESULT", "GRAB"}, NextReply(c, kind),
         SetFuture(Head(toServer[c])), Consume(c),
         UNCHANGED <<m_Token, calls, call, stcValue, toClient, connected, grabbing>>
  PROVE  RpcInv'
<1> DEFINE reply == Head(toServer[c])
<1>1. reply \in Sound /\ reply.kind # "STC"
  BY HeadSound DEF NextReply
<1>2. /\ reply.id \in 0 .. MaxCalls
      /\ \A f \in m_Futures : f.token = reply.token => call[f.thread].id = reply.id
  BY <1>1 DEF Sound, Message
<1>3. call[Server].pc = "idle" /\ toServer[c] # <<>>
  BY DEF NextReply, ServerFree
<1>4. /\ StateTypes' /\ NoDanglingFuture' /\ AnswerMatches' /\ OwnCallNeverAnswered'
      /\ IdleNoValue' /\ FuturesOld' /\ Sound \subseteq Sound'
  BY <1>2, <1>3, ReplyKeeps
<1>5. QueuesSound'
  BY <1>3, <1>4, ConsumeKeeps
<1>6. GrabSound'
  BY <1>4 DEF RpcInv, GrabSound, NoReply
<1> QED
  BY <1>4, <1>5, <1>6 DEF RpcInv

LEMMA GrabReadKeeps ==
  ASSUME RpcInv, GrabRead
  PROVE  RpcInv'
<1>1. [kind |-> "GRAB", token |-> grabbing.token, id |-> grabbing.id] \in Sound
  BY DEF RpcInv, GrabSound, GrabRead
<1>2. /\ grabbing.id \in 0 .. MaxCalls
      /\ \A f \in m_Futures : f.token = grabbing.token => call[f.thread].id = grabbing.id
      /\ call[Server].pc = "idle"
  BY <1>1 DEF Sound, Message, RpcInv, GrabSound, GrabRead
<1>3. /\ StateTypes' /\ NoDanglingFuture' /\ AnswerMatches' /\ OwnCallNeverAnswered'
      /\ IdleNoValue' /\ FuturesOld' /\ Sound \subseteq Sound'
  BY <1>2, ReplyKeeps DEF GrabRead, netVars
<1>4. QueuesSound'
  BY <1>3, QueuesKept DEF RpcInv, GrabRead, netVars
<1>5. GrabSound'
  BY DEF GrabSound, GrabRead, NoReply
<1> QED
  BY <1>3, <1>4, <1>5 DEF RpcInv

LEMMA HandleGrabKeeps ==
  ASSUME RpcInv, NEW c \in Clients, HandleGrab(c)
  PROVE  RpcInv'
<1> DEFINE reply == Head(toServer[c])
<1>1. reply \in Sound /\ reply.kind = "GRAB" /\ toServer[c] # <<>>
  BY HeadSound DEF HandleGrab, NextReply
<1>2. FuturesOld' /\ Sound \subseteq Sound'
  BY SoundKept DEF HandleGrab, rpcVars
<1>3. QueuesSound'
  BY <1>1, <1>2, ConsumeKeeps DEF HandleGrab
<1>4. StateTypes'
  BY DEF HandleGrab, rpcVars, RpcInv, StateTypes, Age
<1>5. NoDanglingFuture' /\ AnswerMatches' /\ OwnCallNeverAnswered' /\ IdleNoValue'
  BY DEF HandleGrab, rpcVars, RpcInv, NoDanglingFuture, AnswerMatches,
         OwnCallNeverAnswered, IdleNoValue
<1>6. GrabSound'
  <2>1. [kind |-> "GRAB", token |-> reply.token, id |-> reply.id] = reply
    BY <1>1 DEF Sound, Message
  <2>2. grabbing' = [kind |-> reply.kind, token |-> reply.token, id |-> reply.id, client |-> c]
    BY DEF HandleGrab
  <2>3. /\ grabbing'.kind = "GRAB" /\ grabbing'.token = reply.token
        /\ grabbing'.id = reply.id /\ grabbing'.client = c
    BY <2>2, <1>1
  <2>4. call'[Server].pc = "idle"
    BY DEF HandleGrab, NextReply, ServerFree
  <2> QED
    BY <1>1, <1>2, <2>1, <2>3, <2>4 DEF GrabSound
<1> QED
  BY <1>2, <1>3, <1>4, <1>5, <1>6 DEF RpcInv

LEMMA ExecuteKeeps ==
  ASSUME RpcInv, NEW c \in Clients, Execute(c)
  PROVE  RpcInv'
<1>1. toClient[c] \in Seq(Sound) /\ toClient[c] # <<>>
  BY DEF RpcInv, QueuesSound, Execute
<1>2. Head(toClient[c]) \in Sound /\ Tail(toClient[c]) \in Seq(Sound)
  BY <1>1
<1>3. /\ toClient' \in [Clients -> Seq(Sound)]
      /\ toServer' \in [Clients -> Seq(Sound)]
  BY <1>2 DEF RpcInv, QueuesSound, Execute
<1> QED
  BY <1>3, MessagesKeep DEF Execute, RpcInv, StateTypes

LEMMA HandleStcKeeps ==
  ASSUME RpcInv, NEW c \in Clients, HandleStc(c)
  PROVE  RpcInv'
<1>1. Head(toServer[c]) \in Sound /\ Tail(toServer[c]) \in Seq(Sound)
  BY HeadSound DEF HandleStc, NextReply
<1>2. Head(toServer[c]).id \in 0 .. MaxCalls
  BY <1>1 DEF Sound, Message
<1>3. /\ toClient' \in [Clients -> Seq(Sound)]
      /\ toServer' \in [Clients -> Seq(Sound)]
  BY <1>1 DEF RpcInv, QueuesSound, HandleStc, Consume
<1> QED
  BY <1>2, <1>3, MessagesKeep DEF HandleStc, RpcInv, StateTypes

LEMMA RpcInvNext == RpcInv /\ [Next]_vars => RpcInv'
<1> SUFFICES ASSUME RpcInv, [Next]_vars PROVE RpcInv'
  OBVIOUS
<1>1. ASSUME NEW t \in Threads, CallResult(t) PROVE RpcInv'
  BY <1>1, RegisterKeeps, RpcAssumption DEF CallResult, MayCall
<1>2. ASSUME NEW t \in Threads, CallGrab(t) PROVE RpcInv'
  BY <1>2, RegisterKeeps, RpcAssumption DEF CallGrab, MayCall
<1>3. ASSUME NEW t \in Threads, CallStc(t) PROVE RpcInv'
  BY <1>3, CallStcKeeps
<1>4. ASSUME NEW t \in Threads, WaitReady(t) PROVE RpcInv'
  BY <1>4, WaitKeeps DEF WaitReady
<1>5. ASSUME NEW t \in Threads, WaitTimeout(t) PROVE RpcInv'
  BY <1>5, WaitKeeps DEF WaitTimeout
<1>6. ASSUME NEW t \in Threads, Return(t) PROVE RpcInv'
  BY <1>6, ReturnKeeps
<1>7. ASSUME NEW t \in Threads, ReturnStc(t) PROVE RpcInv'
  BY <1>7, ReturnStcKeeps
<1>8. ASSUME NEW c \in Clients, Execute(c) PROVE RpcInv'
  BY <1>8, ExecuteKeeps
<1>9. ASSUME NEW c \in Clients, Disconnect(c) PROVE RpcInv'
  BY <1>9, CloseKeeps DEF Disconnect
<1>10. ASSUME NEW c \in Clients, HandleResult(c) PROVE RpcInv'
  BY <1>10, HandleReplyKeeps DEF HandleResult
<1>11. ASSUME NEW c \in Clients, HandleStc(c) PROVE RpcInv'
  BY <1>11, HandleStcKeeps
<1>12. ASSUME NEW c \in Clients, HandleGrab(c) PROVE RpcInv'
  BY <1>12, HandleGrabKeeps
<1>13. ASSUME NEW c \in Clients, HandleGrabFailed(c) PROVE RpcInv'
  BY <1>13, HandleReplyKeeps DEF HandleGrabFailed
<1>14. CASE GrabRead
  BY <1>14, GrabReadKeeps
<1>15. CASE GrabReadFailed
  <2>1. grabbing.client \in Clients
    BY <1>15 DEF GrabReadFailed, RpcInv, GrabSound
  <2> QED
    BY <1>15, <2>1, CloseKeeps DEF GrabReadFailed
<1>16. CASE HandleConfig
  BY <1>16, RegisterKeeps DEF HandleConfig, MayCall, ServerFree, Threads
<1>17. CASE UNCHANGED vars
  BY <1>17, MessagesKeep DEF vars, netVars, RpcInv, StateTypes, QueuesSound
<1> QED
  BY <1>1, <1>2, <1>3, <1>4, <1>5, <1>6, <1>7, <1>8, <1>9, <1>10, <1>11, <1>12, <1>13,
     <1>14, <1>15, <1>16, <1>17 DEF Next, Caller, Waiter, Reading

-----------------------------------------------------------------------------
(* m_Futures never holds a pointer to the stack of a call that has         *)
(* returned: Xine_Control_Result() and GrabImage() against late replies.   *)
THEOREM NoFutureDangles == Spec => []NoDanglingFuture
<1>1. RpcInv => NoDanglingFuture
  BY DEF RpcInv
<1> QED
  BY <1>1, RpcInvInit, RpcInvNext, PTL DEF Spec

(* Handle_Control() sets a future only with the reply to that future's own *)
(* command, as long as fewer calls are made than there are tokens.         *)
THEOREM AnswersMatch == Spec => []AnswerMatches
<1>1. RpcInv => AnswerMatches
  BY DEF RpcInv
<1> QED
  BY <1>1, RpcInvInit, RpcInvNext, PTL DEF Spec

(* Handle_Control_CONFIG()'s own question is never answered.               *)
THEOREM OwnCallUnanswered == Spec => []OwnCallNeverAnswered
<1>1. RpcInv => OwnCallNeverAnswered
  BY DEF RpcInv
<1> QED
  BY <1>1, RpcInvInit, RpcInvNext, PTL DEF Spec

(* The wrapping token counter, the table of registered futures and the     *)
(* values the callers wait for keep their types.                           *)
THEOREM TypeCorrect == Spec => []TypeOK
<1>1. RpcInv => TypeOK
  BY DEF RpcInv, StateTypes, TypeOK, Call, Tokens
<1> QED
  BY <1>1, RpcInvInit, RpcInvNext, PTL DEF Spec
=============================================================================
