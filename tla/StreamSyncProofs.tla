-------------------------- MODULE StreamSyncProofs --------------------------
(***************************************************************************)
(* Proofs about StreamSync, for streams of any length and any number of    *)
(* messages under way on the two connections.                              *)
(***************************************************************************)
EXTENDS StreamSync, SequenceTheorems, TLAPS

-----------------------------------------------------------------------------
(* The inductive invariant.                                                *)

DataMessage == [kind : {"frame", "DISCARD"}, pos : Nat]
CtrlMessage == [kind : {"DISCARD", "FLUSH"}, pos : Nat]

Positions ==
  /\ m_StreamPos \in Nat
  /\ data \in Seq(DataMessage) /\ ctrl \in Seq(CtrlMessage)
  /\ discard_index \in Nat /\ discard_index_ds \in Nat
  /\ curpos \in 0 .. m_StreamPos
  /\ hand \in -1 .. m_StreamPos - 1
  /\ decoder \subseteq 0 .. m_StreamPos - 1
  /\ ctl \in {"idle", "seek", "flushed"} /\ ctlIndex \in Nat

IsFrame(i)   == data[i].kind = "frame"
IsDiscard(i) == data[i].kind = "DISCARD"

(* In the data stream every frame lies in front of the clear position of   *)
(* each DISCARD behind it, and is older than the server's position.        *)
DataOrdered ==
  /\ \A i \in 1 .. Len(data) : IsFrame(i) => data[i].pos < m_StreamPos
  /\ \A i, j \in 1 .. Len(data) :
        i < j /\ IsFrame(i) /\ IsDiscard(j) => data[i].pos < data[j].pos

(* The control thread has a DISCARD to position p still to complete.       *)
OnControl(p) == \E i \in 1 .. Len(ctrl) : ctrl[i] = DiscardMsg(p)
InHand(p)    == ctl # "idle" /\ ctlIndex = p
Pending(p)   == p > discard_index /\ (OnControl(p) \/ InHand(p))

(* Its twin stops the reader, or is still to be read.                      *)
TwinAhead(p) == discard_index_ds >= p \/ \E k \in 1 .. Len(data) : data[k] = DiscardMsg(p)

(* The reader has taken nothing from behind position p.                    *)
NotPassed(p) == curpos <= p /\ hand < p /\ \A q \in decoder : q < p

Guarded == \A p \in Nat : Pending(p) => TwinAhead(p) /\ NotPassed(p)

SeekAhead == ctl # "idle" => discard_index < ctlIndex

SyncInv == Positions /\ DataOrdered /\ Guarded /\ SeekAhead

-----------------------------------------------------------------------------
(* Sequences.                                                              *)

LEMMA TailFacts ==
  ASSUME NEW S, NEW s \in Seq(S), s # <<>>
  PROVE  /\ Tail(s) \in Seq(S) /\ Len(Tail(s)) = Len(s) - 1 /\ Len(s) \in Nat \ {0}
         /\ \A i \in 1 .. Len(s) - 1 : Tail(s)[i] = s[i + 1]
         /\ Head(s) = s[1] /\ Head(s) \in S
  OBVIOUS

LEMMA AppendFacts ==
  ASSUME NEW S, NEW s \in Seq(S), NEW e \in S
  PROVE  /\ Append(s, e) \in Seq(S) /\ Len(Append(s, e)) = Len(s) + 1 /\ Len(s) \in Nat
         /\ \A i \in 1 .. Len(s) : Append(s, e)[i] = s[i]
         /\ Append(s, e)[Len(s) + 1] = e
  OBVIOUS

LEMMA RemoveAtFacts ==
  ASSUME NEW S, NEW s \in Seq(S), NEW i \in 1 .. Len(s)
  PROVE  /\ RemoveAt(s, i) \in Seq(S) /\ Len(RemoveAt(s, i)) = Len(s) - 1 /\ Len(s) \in Nat
         /\ \A j \in 1 .. Len(s) - 1 : RemoveAt(s, i)[j] = IF j < i THEN s[j] ELSE s[j + 1]
<1> DEFINE a == SubSeq(s, 1, i - 1)
           b == SubSeq(s, i + 1, Len(s))
<1>1. /\ a \in Seq(S) /\ Len(a) = i - 1 /\ Len(s) \in Nat
      /\ \A j \in 1 .. i - 1 : a[j] = s[j]
  OBVIOUS
<1>2. /\ b \in Seq(S) /\ Len(b) = Len(s) - i
      /\ \A j \in 1 .. Len(s) - i : b[j] = s[i + j]
  OBVIOUS
<1> HIDE DEF a, b
<1>3. /\ a \o b \in Seq(S) /\ Len(a \o b) = Len(a) + Len(b)
      /\ \A j \in 1 .. Len(a) + Len(b) : (a \o b)[j] = IF j <= Len(a) THEN a[j] ELSE b[j - Len(a)]
  BY <1>1, <1>2, ConcatProperties
<1>4. \A j \in 1 .. Len(s) - 1 : (a \o b)[j] = IF j < i THEN s[j] ELSE s[j + 1]
  BY <1>1, <1>2, <1>3
<1>5. RemoveAt(s, i) = a \o b
  BY DEF RemoveAt, a, b
<1>6. Len(a) + Len(b) = Len(s) - 1
  BY <1>1, <1>2
<1> HIDE DEF a, b
<1> QED
  BY <1>1, <1>3, <1>4, <1>5, <1>6

LEMMA SyncInvInit == Init => SyncInv
<1> SUFFICES ASSUME Init PROVE SyncInv
  OBVIOUS
<1>0. data \in Seq(DataMessage) /\ ctrl \in Seq(CtrlMessage)
  <2>1. FrameMsg(0) \in DataMessage
    BY DEF FrameMsg, DataMessage
  <2>2. <<>> \in Seq(DataMessage) /\ <<FrameMsg(0)>> \in Seq(DataMessage)
    BY <2>1
  <2>3. data \in Seq(DataMessage)
    <3>1. CASE data = <<>>
      BY <3>1, <2>2
    <3>2. CASE data = <<FrameMsg(0)>>
      BY <3>2, <2>2
    <3> QED
      BY <3>1, <3>2 DEF Init
  <2>4. ctrl \in Seq(CtrlMessage)
    BY DEF Init
  <2> QED
    BY <2>3, <2>4
<1>1. Positions
  BY <1>0, SyncAssumption DEF Init, Positions
<1>2. DataOrdered
  BY SyncAssumption DEF Init, DataOrdered, FrameMsg, IsFrame, IsDiscard
<1>3. Guarded /\ SeekAhead
  BY DEF Init, Guarded, Pending, OnControl, InHand, SeekAhead
<1> QED
  BY <1>1, <1>2, <1>3 DEF SyncInv

-----------------------------------------------------------------------------
(* The server.                                                             *)

(* A frame is played at the server's position, behind every DISCARD.       *)
LEMMA PlayKeeps == ASSUME SyncInv, Play PROVE SyncInv'
<1>1. FrameMsg(m_StreamPos) \in DataMessage
  BY DEF SyncInv, Positions, FrameMsg, DataMessage
<1>2. /\ data' \in Seq(DataMessage) /\ Len(data') = Len(data) + 1 /\ Len(data) \in Nat
      /\ \A i \in 1 .. Len(data) : data'[i] = data[i]
      /\ data'[Len(data) + 1] = FrameMsg(m_StreamPos)
  BY <1>1, AppendFacts DEF SyncInv, Positions, Play
<1>3. m_StreamPos \in Nat /\ m_StreamPos' = m_StreamPos + 1
  BY DEF SyncInv, Positions, Play
<1>4. Positions'
  BY <1>2, <1>3 DEF SyncInv, Positions, Play, clientVars, threadVars
<1>5. DataOrdered'
  <2>1. \A i \in 1 .. Len(data) : data[i].pos \in Nat
    <3>1. \A i \in 1 .. Len(data) : data[i] \in DataMessage
      BY DEF SyncInv, Positions
    <3> QED
      BY <3>1 DEF DataMessage
  <2>2. ASSUME NEW i \in 1 .. Len(data'), data'[i].kind = "frame"
        PROVE  data'[i].pos < m_StreamPos'
    BY <1>2, <1>3, <2>1, <2>2 DEF SyncInv, DataOrdered, IsFrame, FrameMsg
  <2>3. ASSUME NEW i \in 1 .. Len(data'), NEW j \in 1 .. Len(data'),
               i < j, data'[i].kind = "frame", data'[j].kind = "DISCARD"
        PROVE  data'[i].pos < data'[j].pos
    BY <1>2, <2>3 DEF SyncInv, DataOrdered, IsFrame, IsDiscard, FrameMsg
  <2> QED
    BY <2>2, <2>3 DEF DataOrdered, IsFrame, IsDiscard
<1>6. Guarded'
  <2> SUFFICES ASSUME NEW p \in Nat, Pending(p)' PROVE TwinAhead(p)' /\ NotPassed(p)'
    BY DEF Guarded
  <2>1. TwinAhead(p) /\ NotPassed(p)
    BY DEF SyncInv, Guarded, Pending, OnControl, InHand, Play, clientVars, threadVars
  <2>2. TwinAhead(p)'
    BY <2>1, <1>2 DEF TwinAhead, Play, clientVars
  <2> QED
    BY <2>1, <2>2 DEF NotPassed, Play, clientVars, threadVars
<1>7. SeekAhead'
  BY DEF SyncInv, SeekAhead, Play, clientVars, threadVars
<1> QED
  BY <1>4, <1>5, <1>6, <1>7 DEF SyncInv

(* Everything that has been played lies in front of a new clear position.  *)
LEMMA ClearKeeps == ASSUME SyncInv, Clear PROVE SyncInv'
<1> DEFINE msg == DiscardMsg(m_StreamPos)
<1>1. /\ msg \in DataMessage /\ msg \in CtrlMessage
      /\ msg.kind = "DISCARD" /\ msg.pos = m_StreamPos
  BY DEF SyncInv, Positions, DiscardMsg, DataMessage, CtrlMessage
<1>2. /\ data' \in Seq(DataMessage) /\ Len(data') = Len(data) + 1 /\ Len(data) \in Nat
      /\ \A i \in 1 .. Len(data) : data'[i] = data[i]
      /\ data'[Len(data) + 1] = msg
  BY <1>1, AppendFacts DEF SyncInv, Positions, Clear
<1>3. /\ ctrl' \in Seq(CtrlMessage) /\ Len(ctrl') = Len(ctrl) + 1 /\ Len(ctrl) \in Nat
      /\ \A i \in 1 .. Len(ctrl) : ctrl'[i] = ctrl[i]
      /\ ctrl'[Len(ctrl) + 1] = msg
  BY <1>1, AppendFacts DEF SyncInv, Positions, Clear
<1>4. Positions'
  BY <1>2, <1>3 DEF SyncInv, Positions, Clear, clientVars, threadVars
<1>5. DataOrdered'
  <2>2. ASSUME NEW i \in 1 .. Len(data'), data'[i].kind = "frame"
        PROVE  data'[i].pos < m_StreamPos'
    BY <1>1, <1>2, <2>2 DEF SyncInv, DataOrdered, IsFrame, Clear
  <2>3. ASSUME NEW i \in 1 .. Len(data'), NEW j \in 1 .. Len(data'),
               i < j, data'[i].kind = "frame", data'[j].kind = "DISCARD"
        PROVE  data'[i].pos < data'[j].pos
    <3>1. CASE j = Len(data) + 1
      BY <1>1, <1>2, <2>3, <3>1 DEF SyncInv, DataOrdered, IsFrame
    <3>2. CASE j # Len(data) + 1
      BY <1>2, <2>3, <3>2 DEF SyncInv, DataOrdered, IsFrame, IsDiscard
    <3> QED
      BY <3>1, <3>2
  <2> QED
    BY <2>2, <2>3 DEF DataOrdered, IsFrame, IsDiscard
<1>6. Guarded'
  <2> SUFFICES ASSUME NEW p \in Nat, Pending(p)' PROVE TwinAhead(p)' /\ NotPassed(p)'
    BY DEF Guarded
  <2>1. CASE p = m_StreamPos
    <3>1. TwinAhead(p)'
      BY <2>1, <1>2 DEF TwinAhead, DiscardMsg
    <3>2. NotPassed(p)'
      BY <2>1 DEF NotPassed, SyncInv, Positions, Clear, clientVars, threadVars
    <3> QED
      BY <3>1, <3>2
  <2>2. CASE p # m_StreamPos
    <3>1. OnControl(p)' => OnControl(p)
      <4> SUFFICES ASSUME NEW i \in 1 .. Len(ctrl'), ctrl'[i] = DiscardMsg(p)
                   PROVE  OnControl(p)
        BY DEF OnControl, DiscardMsg
      <4>1. i # Len(ctrl) + 1
        BY <1>1, <1>3, <2>2 DEF DiscardMsg
      <4> QED
        BY <4>1, <1>3 DEF OnControl
    <3>2. TwinAhead(p) /\ NotPassed(p)
      BY <3>1 DEF SyncInv, Guarded, Pending, InHand, Clear, clientVars, threadVars
    <3>3. TwinAhead(p)'
      BY <3>2, <1>2 DEF TwinAhead, Clear, clientVars, DiscardMsg
    <3> QED
      BY <3>2, <3>3 DEF NotPassed, Clear, clientVars, threadVars
  <2> QED
    BY <2>1, <2>2
<1>7. SeekAhead'
  BY DEF SyncInv, SeekAhead, Clear, clientVars, threadVars
<1> QED
  BY <1>4, <1>5, <1>6, <1>7 DEF SyncInv

(* The writer drops frames only: every DISCARD stays, and the order.       *)
LEMMA WriterDropKeeps ==
  ASSUME SyncInv, NEW d \in DOMAIN data, WriterDrop(d) PROVE SyncInv'
<1> DEFINE old(j) == IF j < d THEN j ELSE j + 1
<1>1. d \in 1 .. Len(data) /\ data \in Seq(DataMessage)
  BY DEF SyncInv, Positions
<1>2. /\ data' \in Seq(DataMessage) /\ Len(data') = Len(data) - 1 /\ Len(data) \in Nat
      /\ \A j \in 1 .. Len(data') : data'[j] = data[old(j)] /\ old(j) \in 1 .. Len(data)
      /\ \A i, j \in 1 .. Len(data') : i < j => old(i) < old(j)
  <2>1. /\ data' \in Seq(DataMessage) /\ Len(data') = Len(data) - 1 /\ Len(data) \in Nat
        /\ \A j \in 1 .. Len(data) - 1 : data'[j] = IF j < d THEN data[j] ELSE data[j + 1]
    BY <1>1, RemoveAtFacts DEF WriterDrop
  <2> QED
    BY <1>1, <2>1
<1>3. Positions'
  BY <1>2 DEF SyncInv, Positions, WriterDrop, serverVars, clientVars, threadVars
<1>4. DataOrdered'
  <2>1. ASSUME NEW i \in 1 .. Len(data'), data'[i].kind = "frame"
        PROVE  data'[i].pos < m_StreamPos'
    BY <1>2, <2>1 DEF SyncInv, DataOrdered, IsFrame, WriterDrop, serverVars
  <2>2. ASSUME NEW i \in 1 .. Len(data'), NEW j \in 1 .. Len(data'),
               i < j, data'[i].kind = "frame", data'[j].kind = "DISCARD"
        PROVE  data'[i].pos < data'[j].pos
    BY <1>2, <2>2 DEF SyncInv, DataOrdered, IsFrame, IsDiscard
  <2> QED
    BY <2>1, <2>2 DEF DataOrdered, IsFrame, IsDiscard
<1>5. Guarded'
  <2> SUFFICES ASSUME NEW p \in Nat, Pending(p)' PROVE TwinAhead(p)' /\ NotPassed(p)'
    BY DEF Guarded
  <2>1. TwinAhead(p) /\ NotPassed(p)
    BY DEF SyncInv, Guarded, Pending, OnControl, InHand, WriterDrop, clientVars, threadVars
  <2>2. ASSUME NEW k \in 1 .. Len(data), data[k] = DiscardMsg(p)
        PROVE  \E j \in 1 .. Len(data') : data'[j] = DiscardMsg(p)
    <3>1. k # d
      BY <2>2 DEF WriterDrop, DiscardMsg
    <3>2. CASE k < d
      <4>1. k \in 1 .. Len(data') /\ old(k) = k
        BY <3>2, <1>1, <1>2
      <4> QED
        BY <4>1, <1>2, <2>2
    <3>3. CASE k > d
      <4>1. k - 1 \in 1 .. Len(data') /\ old(k - 1) = k
        BY <3>3, <1>1, <1>2
      <4> QED
        BY <4>1, <1>2, <2>2
    <3> QED
      BY <3>1, <3>2, <3>3, <1>1
  <2>3. TwinAhead(p)'
    BY <2>1, <2>2 DEF TwinAhead, WriterDrop, clientVars, DiscardMsg
  <2> QED
    BY <2>1, <2>3 DEF NotPassed, WriterDrop, clientVars, threadVars
<1>6. SeekAhead'
  BY DEF SyncInv, SeekAhead, WriterDrop, clientVars, threadVars
<1> QED
  BY <1>3, <1>4, <1>5, <1>6 DEF SyncInv

(* Steps that leave the data stream and the reader alone, complete no      *)
(* DISCARD backwards and announce no new one.                              *)
LEMMA ControlKeeps ==
  ASSUME SyncInv, UNCHANGED <<m_StreamPos, data, discard_index_ds, curpos, hand>>,
         ctrl' \in Seq(CtrlMessage), discard_index' \in Nat, ctlIndex' \in Nat,
         ctl' \in {"idle", "seek", "flushed"}, decoder' \subseteq decoder,
         \A p \in Nat : Pending(p)' => Pending(p), SeekAhead'
  PROVE  SyncInv'
<1>1. Positions'
  BY DEF SyncInv, Positions
<1>2. DataOrdered'
  BY DEF SyncInv, DataOrdered, IsFrame, IsDiscard
<1>3. Guarded'
  BY DEF SyncInv, Guarded, TwinAhead, NotPassed, DiscardMsg
<1> QED
  BY <1>1, <1>2, <1>3 DEF SyncInv

LEMMA FlushKeeps == ASSUME SyncInv, Flush PROVE SyncInv'
<1> DEFINE msg == FlushMsg(m_StreamPos)
<1>1. msg \in CtrlMessage /\ msg.kind = "FLUSH"
  BY DEF SyncInv, Positions, FlushMsg, CtrlMessage
<1>2. /\ ctrl' \in Seq(CtrlMessage) /\ Len(ctrl') = Len(ctrl) + 1 /\ Len(ctrl) \in Nat
      /\ \A i \in 1 .. Len(ctrl) : ctrl'[i] = ctrl[i]
      /\ ctrl'[Len(ctrl) + 1] = msg
  BY <1>1, AppendFacts DEF SyncInv, Positions, Flush
<1>3. ASSUME NEW p \in Nat, Pending(p)' PROVE Pending(p)
  <2>1. OnControl(p)' => OnControl(p)
    <3> SUFFICES ASSUME NEW i \in 1 .. Len(ctrl'), ctrl'[i] = DiscardMsg(p)
                 PROVE  OnControl(p)
      BY DEF OnControl, DiscardMsg
    <3>1. i # Len(ctrl) + 1
      BY <1>1, <1>2 DEF DiscardMsg
    <3> QED
      BY <3>1, <1>2 DEF OnControl
  <2> QED
    BY <2>1, <1>3 DEF Pending, InHand, Flush, clientVars, threadVars
<1> QED
  BY <1>2, <1>3, ControlKeeps DEF SyncInv, Positions, SeekAhead, Flush, serverVars,
     clientVars, threadVars

-----------------------------------------------------------------------------
(* The client's control thread.                                            *)

(* The message at the head of the control connection is taken off.         *)
LEMMA CtrlTail ==
  ASSUME SyncInv, ctrl # <<>>, ctrl' = Tail(ctrl)
  PROVE  /\ ctrl' \in Seq(CtrlMessage) /\ Head(ctrl).pos \in Nat
         /\ \A p \in Nat : OnControl(p)' => OnControl(p)
         /\ Head(ctrl).kind = "DISCARD" => OnControl(Head(ctrl).pos)
<1>1. /\ Tail(ctrl) \in Seq(CtrlMessage) /\ Len(Tail(ctrl)) = Len(ctrl) - 1
      /\ Len(ctrl) \in Nat \ {0}
      /\ \A i \in 1 .. Len(ctrl) - 1 : Tail(ctrl)[i] = ctrl[i + 1]
      /\ Head(ctrl) = ctrl[1] /\ Head(ctrl) \in CtrlMessage
  BY TailFacts DEF SyncInv, Positions
<1>2. Head(ctrl).pos \in Nat
  BY <1>1 DEF CtrlMessage
<1>3. ASSUME NEW p \in Nat, NEW i \in 1 .. Len(ctrl'), ctrl'[i] = DiscardMsg(p)
      PROVE  OnControl(p)
  <2>1. i + 1 \in 1 .. Len(ctrl) /\ ctrl[i + 1] = DiscardMsg(p)
    BY <1>1, <1>3
  <2> QED
    BY <2>1 DEF OnControl
<1>4. ASSUME Head(ctrl).kind = "DISCARD" PROVE OnControl(Head(ctrl).pos)
  <2>1. Head(ctrl) = DiscardMsg(Head(ctrl).pos)
    BY <1>1, <1>4 DEF CtrlMessage, DiscardMsg
  <2> QED
    BY <2>1, <1>1 DEF OnControl
<1>5. ASSUME NEW p \in Nat, OnControl(p)' PROVE OnControl(p)
  BY <1>3, <1>5 DEF OnControl, DiscardMsg
<1> QED
  BY <1>1, <1>2, <1>4, <1>5

LEMMA ControlDiscardKeeps == ASSUME SyncInv, ControlDiscard PROVE SyncInv'
<1> DEFINE index == Head(ctrl).pos
<1>1. /\ ctrl' \in Seq(CtrlMessage) /\ index \in Nat /\ OnControl(index)
      /\ \A p \in Nat : OnControl(p)' => OnControl(p)
  BY CtrlTail DEF ControlDiscard, NextIs
<1>2. /\ ctl = "idle" /\ discard_index \in Nat /\ ctlIndex \in Nat
      /\ UNCHANGED <<m_StreamPos, data, discard_index_ds, curpos, hand, decoder>>
  BY DEF SyncInv, Positions, ControlDiscard, NextIs, serverVars
<1> HIDE DEF index
<1>3. CASE UNCHANGED <<ctl, ctlIndex, discard_index>>
  <2>1. \A p \in Nat : Pending(p)' => Pending(p)
    BY <1>1, <1>2, <1>3 DEF Pending, InHand
  <2>2. SeekAhead' /\ ctl' \in {"idle", "seek", "flushed"} /\ decoder' \subseteq decoder
    BY <1>2, <1>3 DEF SeekAhead
  <2> QED
    BY <1>1, <1>2, <1>3, <2>1, <2>2, ControlKeeps
<1>4. CASE discard_index < index /\ discard_index' = index /\ UNCHANGED <<ctl, ctlIndex>>
  <2>1. \A p \in Nat : Pending(p)' => Pending(p)
    BY <1>1, <1>2, <1>4 DEF Pending, InHand
  <2>2. SeekAhead' /\ ctl' \in {"idle", "seek", "flushed"} /\ decoder' \subseteq decoder
    BY <1>2, <1>4 DEF SeekAhead
  <2> QED
    BY <1>1, <1>2, <1>4, <2>1, <2>2, ControlKeeps
<1>5. CASE /\ discard_index < index /\ ctl' = "seek" /\ ctlIndex' = index
           /\ UNCHANGED discard_index
  <2>1. \A p \in Nat : Pending(p)' => Pending(p)
    BY <1>1, <1>2, <1>5 DEF Pending, InHand
  <2>2. SeekAhead' /\ ctl' \in {"idle", "seek", "flushed"} /\ decoder' \subseteq decoder
    BY <1>2, <1>5 DEF SeekAhead
  <2> QED
    BY <1>1, <1>2, <1>5, <2>1, <2>2, ControlKeeps
<1> QED
  BY <1>1, <1>2, <1>3, <1>4, <1>5 DEF ControlDiscard, index

LEMMA DemuxSeekKeeps == ASSUME SyncInv, DemuxSeek PROVE SyncInv'
<1>1. \A p \in Nat : Pending(p)' => Pending(p)
  BY DEF Pending, OnControl, InHand, DemuxSeek, DiscardMsg, clientVars
<1> QED
  BY <1>1, ControlKeeps DEF SyncInv, Positions, SeekAhead, DemuxSeek, serverVars, clientVars

(* The DISCARD is complete: fewer positions are pending.                   *)
LEMMA ControlDiscardedKeeps == ASSUME SyncInv, ControlDiscarded PROVE SyncInv'
<1>1. discard_index < ctlIndex /\ discard_index \in Nat /\ ctlIndex \in Nat
  BY DEF SyncInv, Positions, SeekAhead, ControlDiscarded
<1>2. \A p \in Nat : Pending(p)' => Pending(p)
  BY <1>1 DEF Pending, OnControl, InHand, ControlDiscarded, DiscardMsg
<1> QED
  BY <1>1, <1>2, ControlKeeps DEF SyncInv, Positions, SeekAhead, ControlDiscarded, serverVars

LEMMA ControlFlushKeeps == ASSUME SyncInv, ControlFlush PROVE SyncInv'
<1>1. ctrl' \in Seq(CtrlMessage) /\ \A p \in Nat : OnControl(p)' => OnControl(p)
  BY CtrlTail DEF ControlFlush, NextIs
<1>2. \A p \in Nat : Pending(p)' => Pending(p)
  BY <1>1 DEF Pending, InHand, ControlFlush, threadVars
<1> QED
  BY <1>1, <1>2, ControlKeeps DEF SyncInv, Positions, SeekAhead, ControlFlush, serverVars,
     threadVars

-----------------------------------------------------------------------------
(* The demuxer's thread.                                                   *)

(* The head of the data stream is taken off.                               *)
LEMMA DataTail ==
  ASSUME SyncInv, data # <<>>, data' = Tail(data), UNCHANGED m_StreamPos
  PROVE  /\ data' \in Seq(DataMessage) /\ Len(data') = Len(data) - 1
         /\ Len(data) \in Nat \ {0}
         /\ \A i \in 1 .. Len(data') : data'[i] = data[i + 1]
         /\ Head(data) = data[1] /\ Head(data) \in DataMessage /\ Head(data).pos \in Nat
         /\ DataOrdered'
<1>1. /\ data' \in Seq(DataMessage) /\ Len(data') = Len(data) - 1
      /\ Len(data) \in Nat \ {0}
      /\ \A i \in 1 .. Len(data') : data'[i] = data[i + 1]
      /\ Head(data) = data[1] /\ Head(data) \in DataMessage
  BY TailFacts DEF SyncInv, Positions
<1>2. Head(data).pos \in Nat
  BY <1>1 DEF DataMessage
<1>3. ASSUME NEW i \in 1 .. Len(data'), data'[i].kind = "frame"
      PROVE  data'[i].pos < m_StreamPos'
  BY <1>1, <1>3 DEF SyncInv, DataOrdered, IsFrame
<1>4. ASSUME NEW i \in 1 .. Len(data'), NEW j \in 1 .. Len(data'),
             i < j, data'[i].kind = "frame", data'[j].kind = "DISCARD"
      PROVE  data'[i].pos < data'[j].pos
  BY <1>1, <1>4 DEF SyncInv, DataOrdered, IsFrame, IsDiscard
<1> QED
  BY <1>1, <1>2, <1>3, <1>4 DEF DataOrdered, IsFrame, IsDiscard

(* Where the reader may read, a pending DISCARD's twin is still to come.   *)
LEMMA TwinToCome ==
  ASSUME SyncInv, StreamsInSync, NEW p \in Nat, Pending(p)
  PROVE  \E k \in 1 .. Len(data) : data[k] = DiscardMsg(p)
BY DEF SyncInv, Positions, Guarded, Pending, TwinAhead, StreamsInSync

LEMMA ReadFrameKeeps == ASSUME SyncInv, ReadFrame PROVE SyncInv'
<1>1. /\ data' \in Seq(DataMessage) /\ Len(data') = Len(data) - 1
      /\ Len(data) \in Nat \ {0}
      /\ \A i \in 1 .. Len(data') : data'[i] = data[i + 1]
      /\ Head(data) = data[1] /\ Head(data).pos \in Nat
      /\ data[1].kind = "frame" /\ hand' = data[1].pos
      /\ DataOrdered'
  BY DataTail DEF ReadFrame, NextData, serverVars
<1>2. data[1].pos < m_StreamPos
  BY <1>1 DEF SyncInv, DataOrdered, IsFrame
<1>3. Positions'
  BY <1>1, <1>2 DEF SyncInv, Positions, ReadFrame, serverVars, clientVars
<1>4. Guarded'
  <2> SUFFICES ASSUME NEW p \in Nat, Pending(p)' PROVE TwinAhead(p)' /\ NotPassed(p)'
    BY DEF Guarded
  <2>1. Pending(p)
    BY DEF Pending, OnControl, InHand, ReadFrame, clientVars, DiscardMsg
  <2>2. PICK k \in 1 .. Len(data) : data[k] = DiscardMsg(p)
    BY <2>1, TwinToCome DEF ReadFrame, NextData
  <2>3. k # 1 /\ data[k].kind = "DISCARD" /\ data[k].pos = p
    BY <1>1, <2>2 DEF DiscardMsg
  <2>4. k - 1 \in 1 .. Len(data') /\ data'[k - 1] = DiscardMsg(p)
    BY <1>1, <2>2, <2>3
  <2>5. data[1].pos < p
    BY <1>1, <2>3 DEF SyncInv, DataOrdered, IsFrame, IsDiscard
  <2>6. TwinAhead(p)'
    BY <2>4 DEF TwinAhead, DiscardMsg
  <2>7. NotPassed(p)
    BY <2>1 DEF SyncInv, Guarded
  <2> QED
    BY <1>1, <2>5, <2>6, <2>7 DEF NotPassed, ReadFrame, clientVars
<1>5. SeekAhead'
  BY DEF SyncInv, SeekAhead, ReadFrame, clientVars
<1> QED
  BY <1>1, <1>3, <1>4, <1>5 DEF SyncInv

LEMMA DataDiscardKeeps == ASSUME SyncInv, DataDiscard PROVE SyncInv'
<1>1. /\ data' \in Seq(DataMessage) /\ Len(data') = Len(data) - 1
      /\ Len(data) \in Nat \ {0}
      /\ \A i \in 1 .. Len(data') : data'[i] = data[i + 1]
      /\ Head(data) = data[1] /\ Head(data).pos \in Nat
      /\ discard_index_ds' = data[1].pos
      /\ DataOrdered'
  BY DataTail DEF DataDiscard, NextData, serverVars
<1>2. Positions'
  BY <1>1 DEF SyncInv, Positions, DataDiscard, serverVars, threadVars
<1>3. Guarded'
  <2> SUFFICES ASSUME NEW p \in Nat, Pending(p)' PROVE TwinAhead(p)' /\ NotPassed(p)'
    BY DEF Guarded
  <2>1. Pending(p)
    BY DEF Pending, OnControl, InHand, DataDiscard, threadVars, DiscardMsg
  <2>2. PICK k \in 1 .. Len(data) : data[k] = DiscardMsg(p)
    BY <2>1, TwinToCome DEF DataDiscard, NextData
  <2>3. TwinAhead(p)'
    <3>1. CASE k = 1
      BY <1>1, <2>2, <3>1 DEF TwinAhead, DiscardMsg
    <3>2. CASE k # 1
      <4>1. k - 1 \in 1 .. Len(data') /\ data'[k - 1] = DiscardMsg(p)
        BY <1>1, <2>2, <3>2
      <4> QED
        BY <4>1 DEF TwinAhead, DiscardMsg
    <3> QED
      BY <3>1, <3>2
  <2>4. NotPassed(p)
    BY <2>1 DEF SyncInv, Guarded
  <2> QED
    BY <2>3, <2>4 DEF NotPassed, DataDiscard, threadVars
<1>4. SeekAhead'
  BY DEF SyncInv, SeekAhead, DataDiscard, threadVars
<1> QED
  BY <1>1, <1>2, <1>3, <1>4 DEF SyncInv

LEMMA PreprocessBufKeeps == ASSUME SyncInv, PreprocessBuf PROVE SyncInv'
<1>1. /\ hand \in 0 .. m_StreamPos - 1 /\ m_StreamPos \in Nat /\ m_StreamPos' = m_StreamPos
      /\ curpos' \in {hand, hand + 1} /\ hand' = -1
      /\ decoder' \subseteq decoder \cup {hand}
  BY DEF SyncInv, Positions, PreprocessBuf, serverVars
<1>2. Positions'
  BY <1>1 DEF SyncInv, Positions, PreprocessBuf, serverVars
<1>3. DataOrdered'
  BY <1>1 DEF SyncInv, DataOrdered, IsFrame, IsDiscard, PreprocessBuf
<1>4. Guarded'
  <2> SUFFICES ASSUME NEW p \in Nat, Pending(p)' PROVE TwinAhead(p)' /\ NotPassed(p)'
    BY DEF Guarded
  <2>1. TwinAhead(p) /\ NotPassed(p)
    BY DEF SyncInv, Guarded, Pending, OnControl, InHand, PreprocessBuf, DiscardMsg
  <2>2. TwinAhead(p)'
    BY <2>1 DEF TwinAhead, PreprocessBuf, DiscardMsg
  <2>3. NotPassed(p)'
    BY <1>1, <2>1 DEF NotPassed
  <2> QED
    BY <2>2, <2>3
<1>5. SeekAhead'
  BY DEF SyncInv, SeekAhead, PreprocessBuf
<1> QED
  BY <1>2, <1>3, <1>4, <1>5 DEF SyncInv

-----------------------------------------------------------------------------
LEMMA SyncInvNext == SyncInv /\ [Next]_vars => SyncInv'
<1> SUFFICES ASSUME SyncInv, [Next]_vars PROVE SyncInv'
  OBVIOUS
<1>1. CASE UNCHANGED vars
  BY <1>1 DEF vars, serverVars, clientVars, threadVars, SyncInv, Positions, DataOrdered, IsFrame,
     IsDiscard, Guarded, Pending, OnControl, InHand, TwinAhead, NotPassed, SeekAhead, DiscardMsg
<1>2. CASE Device
  BY <1>2, PlayKeeps, FlushKeeps, ClearKeeps DEF Device
<1>3. CASE Writer
  BY <1>3, WriterDropKeeps DEF Writer
<1>4. CASE Control
  BY <1>4, ControlDiscardKeeps, DemuxSeekKeeps, ControlDiscardedKeeps, ControlFlushKeeps
  DEF Control
<1>5. CASE Reader
  BY <1>5, ReadFrameKeeps, DataDiscardKeeps, PreprocessBufKeeps DEF Reader
<1> QED
  BY <1>1, <1>2, <1>3, <1>4, <1>5 DEF Next

LEMMA SyncInvHolds == Spec => []SyncInv
BY SyncInvInit, SyncInvNext, PTL DEF Spec

(* A Clear() loses nothing that was played after it: the engine flush that *)
(* vdr_flush_engine() runs with the lock released finds only frames in     *)
(* front of the clear position, and preprocess_buf() drops only such       *)
(* frames, however the two connections are delayed against each other.     *)
THEOREM ClearKeepsNewData == Spec => NewDataKept
<1> DEFINE Kept == /\ ctl = "seek" /\ ctl' = "flushed" => \A p \in decoder : p < ctlIndex
                   /\ hand # -1 /\ hand' = -1 /\ hand \notin decoder' => hand < discard_index
<1>1. SyncInv /\ [Next]_vars => [Kept]_vars
  <2> SUFFICES ASSUME SyncInv, Next PROVE Kept
    OBVIOUS
  <2>1. ASSUME ctl = "seek" PROVE \A p \in decoder : p < ctlIndex
    <3>1. Pending(ctlIndex) /\ ctlIndex \in Nat
      BY <2>1 DEF SyncInv, Positions, SeekAhead, Pending, InHand
    <3> QED
      BY <3>1 DEF SyncInv, Guarded, NotPassed
  <2>2. ASSUME hand # -1, hand' = -1, hand \notin decoder' PROVE hand < discard_index
    <3>1. PreprocessBuf
      BY <2>2 DEF Next, Device, Writer, Control, Reader, Play, Flush, Clear, WriterDrop,
         ControlDiscard, DemuxSeek, ControlDiscarded, ControlFlush, ReadFrame, DataDiscard,
         NextData, threadVars
    <3>2. Discards(hand)
      BY <2>2, <3>1 DEF PreprocessBuf
    <3> QED
      BY <3>2 DEF Discards, SyncInv, Positions
  <2> QED
    BY <2>1, <2>2
<1> QED
  BY <1>1, SyncInvHolds, PTL DEF Spec, NewDataKept

(* The engine flush is never skipped because the data stream has overtaken *)
(* the control stream: when vdr_flush_engine() skips it and discard_index  *)
(* moves all the same, the reader is not behind the clear position.        *)
THEOREM FlushNeverLate == Spec => FlushNotSkippedLate
<1> DEFINE InTime == /\ ctl = "idle" /\ ctl' = "idle" /\ discard_index' > discard_index
                     => curpos <= discard_index'
<1>1. SyncInv /\ [Next]_vars => [InTime]_vars
  <2> SUFFICES ASSUME SyncInv, Next, ctl = "idle", ctl' = "idle",
                      discard_index' > discard_index
               PROVE  curpos <= discard_index'
    OBVIOUS
  <2>1. ControlDiscard
    BY DEF Next, Device, Writer, Control, Reader, Play, Flush, Clear, WriterDrop,
       DemuxSeek, ControlDiscarded, ControlFlush, ReadFrame, DataDiscard, PreprocessBuf,
       clientVars, SyncInv, Positions
  <2>2. discard_index' = Head(ctrl).pos
    BY <2>1 DEF ControlDiscard, SyncInv, Positions
  <2>3. OnControl(Head(ctrl).pos) /\ Head(ctrl).pos \in Nat
    BY <2>1, CtrlTail DEF ControlDiscard, NextIs
  <2>4. Pending(Head(ctrl).pos)
    BY <2>2, <2>3 DEF Pending
  <2> QED
    BY <2>2, <2>3, <2>4 DEF SyncInv, Guarded, NotPassed
<1> QED
  BY <1>1, SyncInvHolds, PTL DEF Spec, FlushNotSkippedLate

-----------------------------------------------------------------------------
(* The types: no position of the client is ahead of the server.            *)

(* The messages that can be under way in the present state.                *)
DataSent == {m \in DataMessage : m.kind = "DISCARD" => m.pos <= m_LastClearPos}
CtrlSent == {m \in CtrlMessage : /\ m.pos <= m_StreamPos
                                 /\ m.kind = "DISCARD" => m.pos <= m_LastClearPos}

NothingAhead ==
  /\ m_LastClearPos \in 0 .. m_StreamPos
  /\ data \in Seq(DataSent) /\ ctrl \in Seq(CtrlSent)
  /\ discard_index \in 0 .. m_LastClearPos /\ discard_index_ds \in 0 .. m_LastClearPos
  /\ guard_index \in 0 .. m_StreamPos
  /\ ctl # "idle" => ctlIndex <= m_LastClearPos
  /\ stream_start \in BOOLEAN

LEMMA LargerSeq ==
  ASSUME NEW S, NEW T, S \subseteq T, NEW s \in Seq(S)
  PROVE  s \in Seq(T)
  OBVIOUS

(* What is under way stays so while the server goes on.                    *)
LEMMA SentGrows ==
  ASSUME SyncInv, NothingAhead, m_StreamPos' >= m_StreamPos, m_LastClearPos' >= m_LastClearPos,
         m_StreamPos' \in Nat, m_LastClearPos' \in Nat
  PROVE  data \in Seq(DataSent') /\ ctrl \in Seq(CtrlSent')
<1>1. DataSent \subseteq DataSent'
  BY DEF DataSent, DataMessage, NothingAhead, SyncInv, Positions
<1>2. CtrlSent \subseteq CtrlSent'
  BY DEF CtrlSent, CtrlMessage, NothingAhead, SyncInv, Positions
<1> QED
  BY <1>1, <1>2, LargerSeq DEF NothingAhead

LEMMA NothingAheadNext == SyncInv /\ NothingAhead /\ [Next]_vars => NothingAhead'
<1> SUFFICES ASSUME SyncInv, NothingAhead, [Next]_vars PROVE NothingAhead'
  OBVIOUS
<1>0. /\ m_StreamPos \in Nat /\ m_LastClearPos \in 0 .. m_StreamPos
      /\ data \in Seq(DataSent) /\ ctrl \in Seq(CtrlSent)
      /\ discard_index \in 0 .. m_LastClearPos /\ discard_index_ds \in 0 .. m_LastClearPos
      /\ ctlIndex \in Nat
  BY DEF NothingAhead, SyncInv, Positions
<1>1. CASE Play
  <2>1. m_StreamPos' = m_StreamPos + 1 /\ m_LastClearPos' = m_LastClearPos /\ ctrl' = ctrl
    BY <1>1 DEF Play
  <2>2. data \in Seq(DataSent') /\ ctrl' \in Seq(CtrlSent')
    BY <2>1, <1>0, SentGrows
  <2>3. FrameMsg(m_StreamPos) \in DataSent'
    BY <1>0 DEF DataSent, DataMessage, FrameMsg
  <2>4. data' \in Seq(DataSent')
    BY <1>1, <2>2, <2>3, AppendFacts DEF Play
  <2> QED
    BY <1>1, <2>1, <2>2, <2>4, <1>0 DEF Play, NothingAhead, clientVars, threadVars
<1>2. CASE Clear
  <2>1. m_StreamPos' = m_StreamPos /\ m_LastClearPos' = m_StreamPos
    BY <1>2 DEF Clear
  <2>2. data \in Seq(DataSent') /\ ctrl \in Seq(CtrlSent')
    BY <2>1, <1>0, SentGrows
  <2>3. DiscardMsg(m_StreamPos) \in DataSent' /\ DiscardMsg(m_StreamPos) \in CtrlSent'
    BY <2>1, <1>0 DEF DataSent, CtrlSent, DataMessage, CtrlMessage, DiscardMsg
  <2>4. data' \in Seq(DataSent') /\ ctrl' \in Seq(CtrlSent')
    BY <1>2, <2>2, <2>3, AppendFacts DEF Clear
  <2> QED
    BY <1>2, <2>1, <2>4, <1>0 DEF Clear, NothingAhead, clientVars, threadVars
<1> DEFINE Same == UNCHANGED serverVars
<1>3. ASSUME Same PROVE DataSent' = DataSent /\ CtrlSent' = CtrlSent
  BY <1>3 DEF DataSent, CtrlSent, serverVars
<1>4. ASSUME NEW i \in DOMAIN data, WriterDrop(i) PROVE NothingAhead'
  <2>1. data' \in Seq(DataSent)
    BY <1>4, <1>0, RemoveAtFacts DEF WriterDrop
  <2> QED
    BY <1>4, <2>1, <1>3, <1>0 DEF WriterDrop, NothingAhead, serverVars, clientVars, threadVars
<1>5. CASE Flush
  <2>1. FlushMsg(m_StreamPos) \in CtrlSent
    BY <1>0 DEF CtrlSent, CtrlMessage, FlushMsg
  <2>2. ctrl' \in Seq(CtrlSent)
    BY <1>5, <2>1, <1>0, AppendFacts DEF Flush
  <2> QED
    BY <1>5, <2>2, <1>3, <1>0 DEF Flush, NothingAhead, serverVars, clientVars, threadVars
<1>6. ASSUME ControlDiscard \/ ControlFlush
      PROVE  /\ Head(ctrl) \in CtrlSent /\ ctrl' \in Seq(CtrlSent)
             /\ Same /\ UNCHANGED <<data, discard_index_ds, stream_start>>
  <2>1. ctrl # <<>> /\ ctrl' = Tail(ctrl)
    BY <1>6 DEF ControlDiscard, ControlFlush, NextIs
  <2>2. Head(ctrl) \in CtrlSent /\ ctrl' \in Seq(CtrlSent)
    BY <2>1, <1>0, TailFacts
  <2> QED
    BY <1>6, <2>2 DEF ControlDiscard, ControlFlush
<1>7. CASE ControlDiscard
  <2>1. Head(ctrl).pos \in Nat /\ Head(ctrl).pos <= m_LastClearPos
    BY <1>6, <1>7 DEF ControlDiscard, NextIs, CtrlSent, CtrlMessage
  <2>2. /\ discard_index' \in {discard_index, Head(ctrl).pos}
        /\ ctl' # "idle" => ctlIndex' = Head(ctrl).pos
    BY <1>7 DEF ControlDiscard, NextIs
  <2> QED
    BY <1>6, <1>7, <2>1, <2>2, <1>3, <1>0 DEF ControlDiscard, NothingAhead, serverVars
<1>8. CASE ControlFlush
  <2>1. Head(ctrl).pos \in Nat /\ Head(ctrl).pos <= m_StreamPos
    BY <1>6, <1>8 DEF CtrlSent, CtrlMessage
  <2> QED
    BY <1>6, <1>8, <2>1, <1>3, <1>0
       DEF ControlFlush, NothingAhead, serverVars, clientVars, threadVars
<1>9. CASE DemuxSeek \/ UNCHANGED vars
  BY <1>9, <1>3, <1>0 DEF DemuxSeek, vars, NothingAhead, serverVars, clientVars, threadVars
<1>11. CASE ControlDiscarded
  BY <1>11, <1>3, <1>0 DEF ControlDiscarded, NothingAhead, serverVars
<1>12. CASE PreprocessBuf
  <2>1. /\ UNCHANGED <<serverVars, data, ctrl, discard_index, discard_index_ds, guard_index,
                      ctl, ctlIndex>>
        /\ stream_start' \in BOOLEAN
    BY <1>12 DEF PreprocessBuf, NothingAhead
  <2> QED
    BY <2>1, <1>3, <1>0 DEF NothingAhead, serverVars
<1>10. CASE ReadFrame \/ DataDiscard
  <2>1. data # <<>> /\ data' = Tail(data)
    BY <1>10 DEF ReadFrame, DataDiscard, NextData
  <2>2. Head(data) \in DataSent /\ data' \in Seq(DataSent)
    BY <2>1, <1>0, TailFacts
  <2>3. discard_index_ds' \in 0 .. m_LastClearPos
    BY <1>10, <2>2, <1>0
       DEF ReadFrame, DataDiscard, NextData, DataSent, DataMessage, clientVars
  <2> QED
    BY <1>10, <2>2, <2>3, <1>3, <1>0
       DEF ReadFrame, DataDiscard, NothingAhead, serverVars, clientVars, threadVars
<1> QED
  BY <1>1, <1>2, <1>4, <1>5, <1>7, <1>8, <1>9, <1>10, <1>11, <1>12
     DEF Next, Device, Writer, Control, Reader

(* No position of the client, neither what it has read nor what it is to   *)
(* discard or to wait for, is ahead of the server's, however much is under *)
(* way on the two connections.                                             *)
THEOREM TypeCorrect == Spec => []TypeOK
<1>1. Init => NothingAhead
  <2> SUFFICES ASSUME Init PROVE NothingAhead
    OBVIOUS
  <2>1. FrameMsg(0) \in DataSent
    BY DEF FrameMsg, DataSent, DataMessage
  <2>2. data \in Seq(DataSent) /\ ctrl \in Seq(CtrlSent)
    <3>1. <<>> \in Seq(DataSent) /\ <<FrameMsg(0)>> \in Seq(DataSent)
      BY <2>1
    <3>2. CASE data = <<>>
      BY <3>1, <3>2 DEF Init
    <3>3. CASE data = <<FrameMsg(0)>>
      BY <3>1, <3>3 DEF Init
    <3> QED
      BY <3>2, <3>3 DEF Init
  <2> QED
    BY <2>2, SyncAssumption DEF Init, NothingAhead
<1>2. SyncInv /\ NothingAhead => TypeOK
  BY DEF SyncInv, Positions, NothingAhead, TypeOK
<1> QED
  BY <1>1, <1>2, NothingAheadNext, SyncInvHolds, PTL DEF Spec
=============================================================================
