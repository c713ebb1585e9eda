------------------------- MODULE UdpSchedulerProofs -------------------------
(***************************************************************************)
(* Proofs about UdpScheduler, for every ring size, queue limit and set of  *)
(* sockets the assumptions allow (256, 64 and 124 in the code).            *)
(***************************************************************************)
EXTENDS UdpScheduler, Sequences, TLAPS

-----------------------------------------------------------------------------
(* Arithmetic of sequence numbers.  Everything below is reduced to sums    *)
(* smaller than twice the ring size.                                       *)

(* A sum of two slot numbers wraps at most once. *)
LEMMA ModSplit ==
  \A a \in 0 .. 2 * SeqSize - 1 :
    a % SeqSize = IF a < SeqSize THEN a ELSE a - SeqSize
  BY SeqSizeAssumption

LEMMA ModInSlots == \A a \in Int : a % SeqSize \in Slots
  BY SeqSizeAssumption DEF Slots

(* Frames less than a ring apart have different slots. *)
LEMMA ModDistinct ==
  ASSUME NEW s \in Slots, NEW j \in Slots, NEW k \in Slots, j # k
  PROVE  (s + j) % SeqSize # (s + k) % SeqSize
  BY SeqSizeAssumption, ModSplit DEF Slots

(* The number after the one k places behind s. *)
LEMMA ModNext ==
  ASSUME NEW s \in Slots, NEW k \in Slots
  PROVE  NextSeq((s + k) % SeqSize) = (s + (k + 1)) % SeqSize
  BY SeqSizeAssumption, ModSplit DEF Slots, NextSeq

(* Counting from the next slot is counting one more. *)
LEMMA ModShift ==
  ASSUME NEW s \in Slots, NEW k \in Slots
  PROVE  (NextSeq(s) + k) % SeqSize = (s + (k + 1)) % SeqSize
  BY SeqSizeAssumption, ModSplit DEF Slots, NextSeq

(* Clear(): giving the pending numbers back leads to the queue's head. *)
LEMMA ModClear ==
  ASSUME NEW s \in Slots, NEW k \in Slots
  PROVE  ClearLast((s + k) % SeqSize, k) = s
  BY SeqSizeAssumption, ModSplit DEF Slots, ClearLast

(* The slot in front of the queue's head is reached only a whole ring      *)
(* later.                                                                  *)
LEMMA ModBehind ==
  ASSUME NEW s \in Slots, NEW k \in Slots, k # SeqSize - 1
  PROVE  (NextSeq(s) + k) % SeqSize # s
  BY SeqSizeAssumption, ModSplit DEF Slots, NextSeq

LEMMA ModZero == \A s \in Slots : (s + 0) % SeqSize = s
  BY SeqSizeAssumption, ModSplit DEF Slots

(* NoFrame is not a frame, and padding is one. *)
LEMMA NoFrameNotFrame == NoFrame \notin Frame
  BY DEF NoFrame, Frame, Streams

LEMMA PaddingIsFrame ==
  ASSUME NEW buffer \in [Slots -> Frame \cup {NoFrame}], NEW next \in Slots
  PROVE  PaddingFrame(buffer, next) \in Frame
<1>1. PrevSeq(next) \in Slots
  <2>1. next + SeqSize - 1 \in Int
    BY SeqSizeAssumption DEF Slots
  <2> QED
    BY <2>1, ModInSlots DEF PrevSeq
<1>2. buffer[PrevSeq(next)] \in Frame \cup {NoFrame}
  BY <1>1
<1>3. /\ buffer[PrevSeq(next)].pos \in Int
      /\ buffer[PrevSeq(next)].len \in Nat
  BY <1>2 DEF Frame, NoFrame
<1> QED
  BY <1>3, PadLenAssumption DEF PaddingFrame, Frame, Streams

-----------------------------------------------------------------------------
(* What makes the two safety invariants inductive: the frame in flight is  *)
(* the one just in front of the queue's head, and a removal that waits for *)
(* the delete mutex has already emptied the queue.                         *)
InFlightBeforeHead ==
  DeleteMutexHeld /\ LockFree => m_QueueNextSeq = NextSeq(frameSeq)

EmptyWhileRemoving ==
  ~LockFree => m_QueueNextSeq = 0 /\ m_QueuePending = 0

QueueInv == /\ TypeOK
            /\ NumberingConsistent
            /\ FrameInFlightIntact
            /\ InFlightBeforeHead
            /\ EmptyWhileRemoving

(* Appending a frame keeps the queue's part of the invariant, as long as   *)
(* there is room: the one fact the limits of Queue() and QueuePadding()    *)
(* are for.                                                                *)
LEMMA EnqueueKeeps ==
  ASSUME QueueInv, NEW frame \in Frame, Enqueue(frame), LockFree,
         m_QueuePending < MaxLiveQueue
  PROVE  /\ m_QueuePending' \in 0 .. MaxLiveQueue
         /\ m_UdpBuffer' \in [Slots -> Frame \cup {NoFrame}]
         /\ m_SeqNo' \in Slots
         /\ m_SeqNo' = (m_QueueNextSeq' + m_QueuePending') % SeqSize
         /\ \A k \in 0 .. m_QueuePending' - 1 :
              m_UdpBuffer'[(m_QueueNextSeq' + k) % SeqSize] # NoFrame
         /\ DeleteMutexHeld => m_UdpBuffer'[frameSeq] = m_UdpBuffer[frameSeq]
<1> DEFINE p == m_QueuePending
           n == m_QueueNextSeq
<1>1. /\ n \in Slots /\ m_SeqNo \in Slots /\ frameSeq \in Slots
      /\ p \in Slots /\ p + 1 \in Slots /\ p # SeqSize - 1 /\ p + 1 \in 0 .. MaxLiveQueue
      /\ m_UdpBuffer \in [Slots -> Frame \cup {NoFrame}]
  BY QueueAssumption, SeqSizeAssumption DEF QueueInv, TypeOK, Slots
<1>2. /\ m_SeqNo = (n + p) % SeqSize
      /\ \A k \in 0 .. p - 1 : m_UdpBuffer[(n + k) % SeqSize] # NoFrame
  BY DEF QueueInv, NumberingConsistent, QueueSlot
<1>3. /\ m_UdpBuffer' = [m_UdpBuffer EXCEPT ![m_SeqNo] = frame]
      /\ m_SeqNo' = NextSeq(m_SeqNo)
      /\ m_QueuePending' = p + 1
      /\ m_QueueNextSeq' = n
  BY DEF Enqueue, MakeFrame
<1>4. m_UdpBuffer' \in [Slots -> Frame \cup {NoFrame}]
  BY <1>1, <1>3
<1>5. m_SeqNo' = (n + (p + 1)) % SeqSize
  BY <1>1, <1>2, <1>3, ModNext
<1>6. m_SeqNo' \in Slots
  BY <1>1, <1>5, ModInSlots DEF Slots
<1>7. ASSUME NEW k \in 0 .. p
      PROVE  m_UdpBuffer'[(n + k) % SeqSize] # NoFrame
  <2>1. k \in Slots /\ (n + k) % SeqSize \in Slots
    <3>1. k \in Slots /\ n + k \in Int
      BY <1>1, SeqSizeAssumption DEF Slots
    <3> QED
      BY <3>1, ModInSlots
  <2>2. CASE k = p
    BY <2>1, <2>2, <1>1, <1>2, <1>3, NoFrameNotFrame
  <2>3. CASE k # p
    <3>1. (n + k) % SeqSize # m_SeqNo
      BY <2>1, <2>3, <1>1, <1>2, ModDistinct
    <3>2. k \in 0 .. p - 1
      BY <2>3, <1>1 DEF Slots
    <3> QED
      BY <3>1, <3>2, <2>1, <1>1, <1>2, <1>3
  <2> QED
    BY <2>2, <2>3
<1>8. ASSUME DeleteMutexHeld
      PROVE  m_UdpBuffer'[frameSeq] = m_UdpBuffer[frameSeq]
  <2>1. n = NextSeq(frameSeq)
    BY <1>8 DEF QueueInv, InFlightBeforeHead
  <2>2. frameSeq # m_SeqNo
    BY <2>1, <1>1, <1>2, ModBehind
  <2> QED
    BY <2>2, <1>1, <1>3
<1>9. (p + 1) - 1 = p
  BY <1>1 DEF Slots
<1> QED
  BY <1>1, <1>3, <1>4, <1>5, <1>6, <1>7, <1>8, <1>9

-----------------------------------------------------------------------------
(* The constructor establishes the invariant. *)
LEMMA QueueInvInit == Init => QueueInv
<1> SUFFICES ASSUME Init PROVE QueueInv
  OBVIOUS
<1>1. 0 \in Slots
  BY SeqSizeAssumption DEF Slots
<1>2. TypeOK
  <2>1. m_UdpBuffer \in [Slots -> Frame \cup {NoFrame}]
    BY DEF Init, EmptyBuffer
  <2>2. m_QueuePending \in 0 .. MaxLiveQueue /\ handleIdx \in 0 .. MaxHandles
    BY QueueAssumption, HandlesAssumption DEF Init
  <2> QED
    BY <1>1, <2>1, <2>2 DEF Init, TypeOK
<1>3. NumberingConsistent
  BY <1>1, ModZero DEF Init, NumberingConsistent, QueueSlot
<1> QED
  BY <1>2, <1>3 DEF Init, QueueInv, FrameInFlightIntact, DeleteMutexHeld,
                    InFlightBeforeHead, EmptyWhileRemoving, LockFree

(* An operation that appends a frame and moves neither the scheduler       *)
(* thread's pointer nor m_Lock.                                            *)
LEMMA AppendKeeps ==
  ASSUME QueueInv, NEW frame \in Frame, Enqueue(frame), LockFree,
         m_QueuePending < MaxLiveQueue,
         UNCHANGED <<m_Handles, m_Lock, frameSeq, handleIdx, taken>>,
         m_Master' \in BOOLEAN, m_Paused' \in BOOLEAN, m_StreamPos' \in Nat,
         schedPc' \in {"top", "wait", "taken", "delay", "send"},
         DeleteMutexHeld' = DeleteMutexHeld
  PROVE  QueueInv'
<1>1. m_QueueNextSeq' = m_QueueNextSeq
  BY DEF Enqueue
<1>2. TypeOK'
  BY EnqueueKeeps, <1>1 DEF QueueInv, TypeOK
<1>3. NumberingConsistent'
  BY EnqueueKeeps DEF NumberingConsistent, QueueSlot
<1>4. FrameInFlightIntact'
  BY EnqueueKeeps DEF QueueInv, FrameInFlightIntact
<1>5. InFlightBeforeHead' /\ EmptyWhileRemoving'
  BY <1>1 DEF QueueInv, InFlightBeforeHead, EmptyWhileRemoving, LockFree
<1> QED
  BY <1>2, <1>3, <1>4, <1>5 DEF QueueInv

(* A step that leaves the queue and the frame in flight alone.             *)
LEMMA QuietKeeps ==
  ASSUME QueueInv, UNCHANGED <<queueVars, m_Lock, frameSeq>>,
         m_Handles' \in [Entries -> Fds \cup {NoFd}],
         m_Master' \in BOOLEAN, m_Paused' \in BOOLEAN, m_StreamPos' \in Nat,
         schedPc' \in {"top", "wait", "taken", "delay", "send"},
         handleIdx' \in 0 .. MaxHandles,
         DeleteMutexHeld' => DeleteMutexHeld /\ taken' = taken,
         taken' \in Frame \cup {NoFrame}
  PROVE  QueueInv'
<1> USE DEF QueueInv, queueVars
<1>1. TypeOK'
  BY DEF TypeOK
<1>2. NumberingConsistent'
  BY DEF NumberingConsistent, QueueSlot, LockFree
<1>3. FrameInFlightIntact' /\ InFlightBeforeHead' /\ EmptyWhileRemoving'
  BY DEF FrameInFlightIntact, InFlightBeforeHead, EmptyWhileRemoving, LockFree
<1> QED
  BY <1>1, <1>2, <1>3

-----------------------------------------------------------------------------
(* One step per operation. *)
LEMMA QueueInvNext == QueueInv /\ [Next]_vars => QueueInv'
<1> SUFFICES ASSUME QueueInv, [Next]_vars PROVE QueueInv'
  OBVIOUS
<1> USE DEF queueVars, callerVars, schedVars
<1>0. /\ TypeOK
      /\ m_QueuePending \in Nat /\ m_QueueNextSeq \in Slots
      /\ m_UdpBuffer \in [Slots -> Frame \cup {NoFrame}]
      /\ PaddingFrame(m_UdpBuffer, m_QueueNextSeq) \in Frame
  BY PaddingIsFrame DEF QueueInv, TypeOK
<1>a. Limit \in Nat /\ Limit <= MaxLiveQueue /\ PadThreshold < MaxLiveQueue /\ 0 < MaxLiveQueue
  BY QueueAssumption DEF Limit
<1>1. CASE Play
  <2>1. m_StreamPos' \in Nat
    BY <1>1, <1>0, LengthAssumption DEF Play, TypeOK
  <2>2. CASE m_QueuePending < Limit
    <3> DEFINE frame == [stream |-> "sidVdr", pos |-> m_StreamPos, len |-> FrameLen]
    <3>1. frame \in Frame
      BY <1>0, LengthAssumption DEF TypeOK, Frame, Streams
    <3>2. Enqueue(frame) /\ LockFree
      BY <1>1, <2>2 DEF Play
    <3>3. m_QueuePending < MaxLiveQueue
      BY <2>2, <1>0, <1>a, QueueAssumption
    <3>4. UNCHANGED <<m_Handles, m_Lock, m_Master, m_Paused, schedVars>>
      BY <1>1 DEF Play
    <3> QED
      BY <3>1, <3>2, <3>3, <3>4, <2>1, <1>0, AppendKeeps DEF TypeOK, DeleteMutexHeld
  <2>3. CASE ~(m_QueuePending < Limit)
    BY <1>1, <2>1, <2>3, <1>0, QuietKeeps DEF Play, TypeOK, DeleteMutexHeld
  <2> QED
    BY <2>2, <2>3
<1>2. CASE QueueControl
  <2> DEFINE frame == [stream |-> "sidControl", pos |-> -1, len |-> FrameLen]
  <2>1. frame \in Frame
    BY LengthAssumption DEF Frame, Streams
  <2>2. m_QueuePending < MaxLiveQueue
    BY <1>2, <1>0, <1>a, QueueAssumption DEF QueueControl
  <2>3. /\ Enqueue(frame) /\ LockFree
        /\ UNCHANGED <<m_Handles, m_Lock, callerVars, schedVars>>
    BY <1>2 DEF QueueControl
  <2> QED
    BY <2>1, <2>2, <2>3, <1>0, AppendKeeps DEF TypeOK, DeleteMutexHeld
<1>3. CASE Clear
  <2>1. /\ m_SeqNo' = m_QueueNextSeq
        /\ m_QueuePending' = 0
        /\ m_QueueNextSeq' = m_QueueNextSeq
    <3>1. m_SeqNo = (m_QueueNextSeq + m_QueuePending) % SeqSize
      BY <1>3 DEF Clear, QueueInv, NumberingConsistent, QueueSlot
    <3>2. m_QueuePending \in Slots
      BY <1>0, QueueAssumption, SeqSizeAssumption DEF TypeOK, Slots
    <3> QED
      BY <3>1, <3>2, <1>3, <1>0, ModClear DEF Clear
  <2>2. TypeOK'
    BY <2>1, <1>3, <1>0, QueueAssumption DEF Clear, TypeOK
  <2>3. NumberingConsistent'
    BY <2>1, <1>0, ModZero DEF NumberingConsistent, QueueSlot
  <2>4. FrameInFlightIntact' /\ InFlightBeforeHead' /\ EmptyWhileRemoving'
    BY <2>1, <1>3 DEF Clear, QueueInv, FrameInFlightIntact, DeleteMutexHeld,
                      InFlightBeforeHead, EmptyWhileRemoving, LockFree
  <2> QED
    BY <2>2, <2>3, <2>4 DEF QueueInv
<1>4. ASSUME NEW b \in BOOLEAN, Poll(b) \/ Pause(b) PROVE QueueInv'
  BY <1>4, <1>0, QuietKeeps DEF Poll, Pause, TypeOK, DeleteMutexHeld
<1>5. ASSUME NEW fd \in Fds, AddHandle(fd) PROVE QueueInv'
  BY <1>5, <1>0, QuietKeeps DEF AddHandle, TypeOK, DeleteMutexHeld
<1>6. ASSUME NEW fd \in Fds, RemoveHandle(fd) PROVE QueueInv'
  <2>1. m_Handles' \in [Entries -> Fds \cup {NoFd}]
    <3>1. PICK i \in Entries : m_Handles' = WithoutEntry(i)
      BY <1>6 DEF RemoveHandle
    <3>2. \A j \in Entries : j # MaxHandles - 1 => j + 1 \in Entries
      BY HandlesAssumption DEF Entries
    <3> QED
      BY <3>1, <3>2, <1>0 DEF WithoutEntry, TypeOK
  <2>2. CASE m_Handles'[0] # NoFd
    BY <2>1, <2>2, <1>6, <1>0, QuietKeeps DEF RemoveHandle, TypeOK, DeleteMutexHeld
  <2>3. CASE m_Handles'[0] = NoFd
    <3>1. /\ m_Lock' = "remove" /\ m_QueueNextSeq' = 0 /\ m_QueuePending' = 0
          /\ UNCHANGED <<m_UdpBuffer, m_SeqNo, callerVars, schedVars>>
      BY <2>3, <1>6 DEF RemoveHandle
    <3>2. TypeOK'
      BY <3>1, <2>1, <1>0, QueueAssumption, SeqSizeAssumption DEF TypeOK, Slots
    <3> QED
      BY <3>1, <3>2 DEF QueueInv, NumberingConsistent, FrameInFlightIntact, DeleteMutexHeld,
                        InFlightBeforeHead, EmptyWhileRemoving, LockFree
  <2> QED
    BY <2>2, <2>3
<1>7. CASE RemoveHandleFlush
  <2>1. /\ m_QueueNextSeq' = 0 /\ m_QueuePending' = 0 /\ m_SeqNo' = 0
        /\ m_UdpBuffer' = EmptyBuffer /\ ~DeleteMutexHeld' /\ m_Lock' = "free"
    BY <1>7 DEF RemoveHandleFlush, QueueInv, EmptyWhileRemoving, LockFree, DeleteMutexHeld
  <2>2. 0 \in Slots
    BY SeqSizeAssumption DEF Slots
  <2>3. TypeOK'
    BY <2>1, <2>2, <1>7, <1>0 DEF RemoveHandleFlush, TypeOK, EmptyBuffer
  <2>4. NumberingConsistent'
    BY <2>1, <2>2, ModZero DEF NumberingConsistent, QueueSlot
  <2> QED
    BY <2>1, <2>3, <2>4 DEF QueueInv, FrameInFlightIntact, InFlightBeforeHead,
                            EmptyWhileRemoving, LockFree
<1>8. CASE QueuePadding
  <2>1. m_QueuePending < MaxLiveQueue
    BY <1>8, <1>0, <1>a, QueueAssumption DEF QueuePadding
  <2>2. /\ Enqueue(PaddingFrame(m_UdpBuffer, m_QueueNextSeq)) /\ LockFree
        /\ UNCHANGED <<m_Handles, m_Lock, callerVars, schedVars>>
    BY <1>8 DEF QueuePadding
  <2> QED
    BY <2>1, <2>2, <1>0, AppendKeeps DEF TypeOK, DeleteMutexHeld
<1>9. CASE SchedWait
  BY <1>9, <1>0, QuietKeeps DEF SchedWait, TypeOK, DeleteMutexHeld
<1>10. CASE SchedWake
  <2>1. /\ schedPc' = "top" /\ schedPc = "wait" /\ LockFree
        /\ UNCHANGED <<m_Handles, m_Lock, callerVars, frameSeq, handleIdx, taken>>
    BY <1>10 DEF SchedWake
  <2>2. CASE m_QueuePending = 0
    <3>1. Enqueue(PaddingFrame(m_UdpBuffer, m_QueueNextSeq)) /\ m_QueuePending < MaxLiveQueue
      BY <2>2, <1>10, <1>a DEF SchedWake
    <3> QED
      BY <2>1, <3>1, <1>0, AppendKeeps DEF TypeOK, DeleteMutexHeld
  <2>3. CASE m_QueuePending # 0
    BY <2>1, <2>3, <1>10, <1>0, QuietKeeps DEF SchedWake, TypeOK, DeleteMutexHeld
  <2> QED
    BY <2>2, <2>3
<1>11. CASE SchedTake
  <2> DEFINE n == m_QueueNextSeq
             p == m_QueuePending
  <2>1. /\ p > 0 /\ p \in Slots /\ p - 1 \in Slots /\ p - 1 \in 0 .. MaxLiveQueue
        /\ LockFree /\ LockFree' /\ n \in Slots
    BY <1>11, <1>0, QueueAssumption, SeqSizeAssumption DEF SchedTake, TypeOK, Slots, LockFree
  <2>2. /\ n' = NextSeq(n) /\ p' = p - 1 /\ frameSeq' = n
        /\ taken' = m_UdpBuffer[n] /\ m_UdpBuffer' = m_UdpBuffer /\ m_SeqNo' = m_SeqNo
    BY <1>11 DEF SchedTake
  <2>3. NextSeq(n) \in Slots
    <3>1. n + 1 \in Int
      BY <2>1 DEF Slots
    <3> QED
      BY <3>1, ModInSlots DEF NextSeq
  <2>4. m_UdpBuffer[n] # NoFrame
    <3>1. 0 \in 0 .. p - 1
      BY <2>1 DEF Slots
    <3> QED
      BY <3>1, <2>1, ModZero DEF QueueInv, NumberingConsistent, QueueSlot
  <2>5. TypeOK'
    BY <2>1, <2>2, <2>3, <1>11, <1>0 DEF SchedTake, TypeOK
  <2>6. NumberingConsistent'
    <3>1. m_SeqNo' = (n' + p') % SeqSize
      <4>1. (NextSeq(n) + (p - 1)) % SeqSize = (n + p) % SeqSize
        <5>1. (p - 1) + 1 = p
          BY <2>1 DEF Slots
        <5> QED
          BY <5>1, <2>1, ModShift
      <4> QED
        BY <4>1, <2>1, <2>2 DEF QueueInv, NumberingConsistent, QueueSlot
    <3>2. ASSUME NEW k \in 0 .. p' - 1
          PROVE  m_UdpBuffer'[(n' + k) % SeqSize] # NoFrame
      <4>1. k \in Slots /\ k + 1 \in 0 .. p - 1
        <5>1. k \in 0 .. (p - 1) - 1
          BY <2>2
        <5> QED
          BY <5>1, <2>1, SeqSizeAssumption DEF Slots
      <4>2. (NextSeq(n) + k) % SeqSize = (n + (k + 1)) % SeqSize
        BY <4>1, <2>1, ModShift
      <4> QED
        BY <4>1, <4>2, <2>1, <2>2 DEF QueueInv, NumberingConsistent, QueueSlot
    <3> QED
      BY <3>1, <3>2 DEF NumberingConsistent, QueueSlot
  <2>7. FrameInFlightIntact' /\ InFlightBeforeHead' /\ EmptyWhileRemoving'
    BY <2>1, <2>2, <2>4 DEF FrameInFlightIntact, InFlightBeforeHead, EmptyWhileRemoving
  <2> QED
    BY <2>5, <2>6, <2>7 DEF QueueInv
<1>12. CASE SchedSchedule
  BY <1>12, <1>0, QuietKeeps DEF SchedSchedule, TypeOK, DeleteMutexHeld
<1>13. CASE SchedDue
  BY <1>13, <1>0, QuietKeeps DEF SchedDue, TypeOK, DeleteMutexHeld
<1>14. CASE SchedSend
  <2>1. handleIdx' \in 0 .. MaxHandles
    BY <1>14, <1>0, HandlesAssumption DEF SchedSend, MoreSockets, TypeOK
  <2> QED
    BY <2>1, <1>14, <1>0, QuietKeeps DEF SchedSend, TypeOK, DeleteMutexHeld
<1>15. CASE SchedDone
  <2>1. handleIdx' \in 0 .. MaxHandles
    BY <1>15, HandlesAssumption DEF SchedDone
  <2> QED
    BY <2>1, <1>15, <1>0, QuietKeeps DEF SchedDone, TypeOK, DeleteMutexHeld
<1>16. CASE UNCHANGED vars
  BY <1>16, <1>0, QuietKeeps DEF vars, TypeOK, DeleteMutexHeld
<1> QED
  BY <1>1, <1>2, <1>3, <1>4, <1>5, <1>6, <1>7, <1>8, <1>9, <1>10, <1>11, <1>12,
     <1>13, <1>14, <1>15, <1>16 DEF Next, Scheduler, Device, Server

(* cUdpScheduler keeps its counters, its ring and its socket table within  *)
(* their types: in particular never more than MAX_LIVE_QUEUE_SIZE frames.  *)
THEOREM TypeCorrect == Spec => []TypeOK
<1>1. QueueInv => TypeOK
  BY DEF QueueInv
<1> QED
  BY <1>1, QueueInvInit, QueueInvNext, PTL DEF Spec

(* Queue(), Clear(), RemoveHandle() and Action() keep m_SeqNo equal to     *)
(* m_QueueNextSeq plus m_QueuePending, modulo the ring, whenever m_Lock is *)
(* free, and every slot in between holds a frame.                          *)
THEOREM NumberingHolds == Spec => []NumberingConsistent
<1>1. QueueInv => NumberingConsistent
  BY DEF QueueInv
<1> QED
  BY <1>1, QueueInvInit, QueueInvNext, PTL DEF Spec

(* The frame that Action() delays and sends without m_Lock is neither      *)
(* overwritten nor deleted meanwhile.                                      *)
THEOREM FrameInFlightSafe == Spec => []FrameInFlightIntact
<1>1. QueueInv => FrameInFlightIntact
  BY DEF QueueInv
<1> QED
  BY <1>1, QueueInvInit, QueueInvNext, PTL DEF Spec

-----------------------------------------------------------------------------
(* The socket table.                                                       *)

(* A free entry has only free entries behind it.                           *)
LEMMA FreeBehind ==
  ASSUME HandlesDense, NEW i \in Entries, NEW j \in Entries, i < j, m_Handles[i] = NoFd
  PROVE  m_Handles[j] = NoFd
  BY DEF HandlesDense

(* AddHandle() fills the first free entry, or does nothing.                *)
LEMMA AddKeepsDense ==
  ASSUME TypeOK, HandlesDense, NEW fd \in Fds, AddHandle(fd)
  PROVE  HandlesDense'
<1>1. PICK i \in Entries :
        /\ m_Handles[i] \in {NoFd, fd}
        /\ \A j \in Entries : j < i => m_Handles[j] \notin {NoFd, fd}
        /\ m_Handles' = [m_Handles EXCEPT ![i] = fd]
  BY DEF AddHandle
<1>2. m_Handles \in [Entries -> Fds \cup {NoFd}] /\ fd # NoFd
  BY HandlesAssumption DEF TypeOK
<1>3. CASE m_Handles[i] = fd
  <2>1. m_Handles' = m_Handles
    BY <1>1, <1>2, <1>3
  <2> QED
    BY <2>1 DEF HandlesDense
<1>4. CASE m_Handles[i] = NoFd
  <2> SUFFICES ASSUME NEW j \in Entries, NEW k \in Entries, j < k, m_Handles'[k] # NoFd
               PROVE  m_Handles'[j] # NoFd /\ m_Handles'[j] # m_Handles'[k]
    BY DEF HandlesDense
  <2>1. i \in Int /\ j \in Int /\ k \in Int
    BY HandlesAssumption DEF Entries
  <2>2. k <= i
    <3>1. i < k => m_Handles[k] = NoFd
      BY <1>4, FreeBehind
    <3>2. k # i => m_Handles'[k] = m_Handles[k]
      BY <1>1, <1>2
    <3> QED
      BY <3>1, <3>2, <2>1
  <2>3. j < i /\ m_Handles'[j] = m_Handles[j] /\ m_Handles[j] \notin {NoFd, fd}
    BY <2>1, <2>2, <1>1, <1>2
  <2>4. CASE k = i
    BY <2>3, <2>4, <1>1, <1>2
  <2>5. CASE k # i
    <3>1. m_Handles'[k] = m_Handles[k]
      BY <2>5, <1>1, <1>2
    <3> QED
      BY <3>1, <2>3 DEF HandlesDense
  <2> QED
    BY <2>4, <2>5
<1> QED
  BY <1>1, <1>3, <1>4

(* RemoveHandle() moves every entry behind the removed one up.             *)
LEMMA RemoveKeepsDense ==
  ASSUME TypeOK, HandlesDense, NEW fd \in Fds, RemoveHandle(fd)
  PROVE  HandlesDense'
<1>1. PICK i \in Entries : m_Handles' = WithoutEntry(i)
  BY DEF RemoveHandle
<1> DEFINE from(j) == IF j >= i THEN j + 1 ELSE j
<1>2. ASSUME NEW j \in Entries
      PROVE  m_Handles'[j] = IF j = MaxHandles - 1 THEN NoFd ELSE m_Handles[from(j)]
  BY <1>1 DEF WithoutEntry
<1>3. ASSUME NEW j \in Entries, j # MaxHandles - 1
      PROVE  from(j) \in Entries
  BY <1>3, HandlesAssumption DEF Entries
<1> SUFFICES ASSUME NEW j \in Entries, NEW k \in Entries, j < k, m_Handles'[k] # NoFd
             PROVE  m_Handles'[j] # NoFd /\ m_Handles'[j] # m_Handles'[k]
  BY DEF HandlesDense
<1>4. i \in Int /\ j \in Int /\ k \in Int /\ k <= MaxHandles - 1
  BY HandlesAssumption DEF Entries
<1>5. k # MaxHandles - 1 /\ j # MaxHandles - 1
  BY <1>2, <1>4, HandlesAssumption
<1>6. m_Handles'[j] = m_Handles[from(j)] /\ m_Handles'[k] = m_Handles[from(k)]
  BY <1>2, <1>5
<1>7. from(j) \in Entries /\ from(k) \in Entries /\ from(j) < from(k)
  BY <1>3, <1>4, <1>5
<1> HIDE DEF from
<1> QED
  BY <1>6, <1>7 DEF HandlesDense

LEMMA DenseNext == TypeOK /\ HandlesDense /\ [Next]_vars => HandlesDense'
<1> SUFFICES ASSUME TypeOK, HandlesDense, [Next]_vars PROVE HandlesDense'
  OBVIOUS
<1>1. CASE \E fd \in Fds : AddHandle(fd) \/ RemoveHandle(fd)
  BY <1>1, AddKeepsDense, RemoveKeepsDense
<1>2. CASE Scheduler \/ Device \/ RemoveHandleFlush \/ QueuePadding \/ UNCHANGED vars
  <2>1. m_Handles' = m_Handles
    BY <1>2 DEF Scheduler, SchedWait, SchedWake, SchedTake, SchedSchedule, SchedDue, SchedSend,
                SchedDone, Device, Play, QueueControl, Clear, Poll, Pause, RemoveHandleFlush,
                QueuePadding, vars
  <2> QED
    BY <2>1 DEF HandlesDense
<1> QED
  BY <1>1, <1>2 DEF Next, Server

(* AddHandle() and RemoveHandle() leave neither holes nor duplicates, for  *)
(* any number of sockets: "m_Handles[0] < 0" means that nobody listens,    *)
(* and the delivery loop, which stops at the first free entry, sends to    *)
(* all of them.                                                            *)
THEOREM NoHoles == Spec => []HandlesDense
<1>1. Init => HandlesDense
  BY DEF Init, HandlesDense
<1> QED
  BY <1>1, DenseNext, TypeCorrect, PTL DEF Spec

-----------------------------------------------------------------------------
(* The refinement: ring and counters are the queue of FrameQueue.          *)

AnyFrame    == Frame \cup {NoFrame}
RingQueue   == [k \in 1 .. m_QueuePending |-> m_UdpBuffer[QueueSlot(k - 1)]]
RingSending == IF DeleteMutexHeld THEN m_UdpBuffer[frameSeq] ELSE NoFrame

(* Sequences by their elements.                                            *)
LEMMA SameSeq ==
  ASSUME NEW S, NEW s \in Seq(S), NEW t \in Seq(S), Len(t) = Len(s),
         \A i \in 1 .. Len(s) : t[i] = s[i]
  PROVE  t = s
  OBVIOUS

LEMMA AppendByElements ==
  ASSUME NEW S, NEW s \in Seq(S), NEW t \in Seq(S), Len(t) = Len(s) + 1,
         \A i \in 1 .. Len(s) : t[i] = s[i]
  PROVE  t = Append(s, t[Len(t)])
<1>1. Append(s, t[Len(t)]) \in Seq(S) /\ Len(Append(s, t[Len(t)])) = Len(t)
  OBVIOUS
<1>2. \A i \in 1 .. Len(t) : Append(s, t[Len(t)])[i] = t[i]
  OBVIOUS
<1> QED
  BY <1>1, <1>2, SameSeq

LEMMA TailByElements ==
  ASSUME NEW S, NEW s \in Seq(S), s # <<>>, NEW t \in Seq(S), Len(t) = Len(s) - 1,
         \A i \in 1 .. Len(t) : t[i] = s[i + 1]
  PROVE  t = Tail(s)
<1>1. Tail(s) \in Seq(S) /\ Len(Tail(s)) = Len(t)
  OBVIOUS
<1>2. \A i \in 1 .. Len(t) : Tail(s)[i] = t[i]
  OBVIOUS
<1> QED
  BY <1>1, <1>2, SameSeq

(* The queue that the ring stands for.                                     *)
LEMMA RingQueueFacts ==
  QueueInv => /\ RingQueue \in Seq(AnyFrame)
              /\ Len(RingQueue) = m_QueuePending
              /\ m_QueuePending = 0 => RingQueue = <<>>
<1> SUFFICES ASSUME QueueInv
             PROVE  /\ RingQueue \in Seq(AnyFrame) /\ Len(RingQueue) = m_QueuePending
                    /\ m_QueuePending = 0 => RingQueue = <<>>
  OBVIOUS
<1>1. /\ m_QueuePending \in Nat /\ m_QueueNextSeq \in Int
      /\ m_UdpBuffer \in [Slots -> AnyFrame]
  BY QueueAssumption DEF QueueInv, TypeOK, AnyFrame, Slots
<1>2. ASSUME NEW i \in 1 .. m_QueuePending
      PROVE  m_UdpBuffer[QueueSlot(i - 1)] \in AnyFrame
  <2>1. QueueSlot(i - 1) \in Slots
    BY <1>1, ModInSlots DEF QueueSlot
  <2> QED
    BY <2>1, <1>1
<1>3. RingQueue \in [1 .. m_QueuePending -> AnyFrame]
  BY <1>2 DEF RingQueue
<1>4. RingQueue \in Seq(AnyFrame) /\ Len(RingQueue) = m_QueuePending
  BY <1>1, <1>3
<1> QED
  BY <1>4

(* ... and after the step.                                                 *)
LEMMA RingQueueFactsNext ==
  QueueInv' => /\ RingQueue' \in Seq(AnyFrame)
               /\ Len(RingQueue') = m_QueuePending'
               /\ m_QueuePending' = 0 => RingQueue' = <<>>
<1>1. (QueueInv => /\ RingQueue \in Seq(AnyFrame)
                   /\ Len(RingQueue) = m_QueuePending
                   /\ m_QueuePending = 0 => RingQueue = <<>>)'
  BY RingQueueFacts, PTL
<1> QED
  BY <1>1 DEF AnyFrame

(* An operation that appends one frame, and nothing else.                  *)
LEMMA EnqueuePuts ==
  ASSUME QueueInv, QueueInv', NEW frame \in Frame, Enqueue(frame), LockFree,
         m_QueuePending < MaxLiveQueue,
         UNCHANGED frameSeq, DeleteMutexHeld' = DeleteMutexHeld
  PROVE  Abstract!Put
<1> DEFINE p == m_QueuePending
           n == m_QueueNextSeq
<1>1. /\ n \in Slots /\ p \in Slots /\ p + 1 \in Slots
      /\ m_UdpBuffer \in [Slots -> AnyFrame] /\ m_SeqNo \in Slots
      /\ m_SeqNo = (n + p) % SeqSize
  BY QueueAssumption, SeqSizeAssumption
     DEF QueueInv, TypeOK, Slots, AnyFrame, NumberingConsistent, QueueSlot
<1>2. /\ m_UdpBuffer' = [m_UdpBuffer EXCEPT ![m_SeqNo] = frame]
      /\ m_QueuePending' = p + 1
      /\ m_QueueNextSeq' = n
  BY DEF Enqueue, MakeFrame
<1>3. ASSUME NEW i \in 1 .. p
      PROVE  RingQueue'[i] = RingQueue[i]
  <2>1. i - 1 \in Slots /\ i - 1 # p /\ n + (i - 1) \in Int /\ i \in 1 .. p + 1
    BY <1>1, SeqSizeAssumption DEF Slots
  <2>2. (n + (i - 1)) % SeqSize # m_SeqNo /\ (n + (i - 1)) % SeqSize \in Slots
    BY <2>1, <1>1, ModDistinct, ModInSlots
  <2>3. m_UdpBuffer'[(n + (i - 1)) % SeqSize] = m_UdpBuffer[(n + (i - 1)) % SeqSize]
    BY <2>2, <1>1, <1>2
  <2> QED
    BY <2>1, <2>3, <1>2 DEF RingQueue, QueueSlot
<1>4. RingQueue'[p + 1] \in Frame
  <2>1. p + 1 \in 1 .. m_QueuePending' /\ (p + 1) - 1 = p
    BY <1>1, <1>2 DEF Slots
  <2>2. RingQueue'[p + 1] = m_UdpBuffer'[(n + p) % SeqSize]
    BY <2>1, <1>2 DEF RingQueue, QueueSlot
  <2> QED
    BY <2>2, <1>1, <1>2
<1>5. /\ RingQueue \in Seq(AnyFrame) /\ Len(RingQueue) = p
      /\ RingQueue' \in Seq(AnyFrame) /\ Len(RingQueue') = p + 1
  BY RingQueueFacts, RingQueueFactsNext, <1>2
<1>6. RingQueue' = Append(RingQueue, RingQueue'[Len(RingQueue')])
  <2>1. \A i \in 1 .. Len(RingQueue) : RingQueue'[i] = RingQueue[i]
    BY <1>3, <1>5
  <2> QED
    BY <2>1, <1>5, AppendByElements
<1>7. RingSending' = RingSending
  BY EnqueueKeeps DEF RingSending
<1> QED
  BY <1>4, <1>5, <1>6, <1>7 DEF Abstract!Put, RingQueue, RingSending

(* A step that moves neither the queue nor the frame in flight.            *)
LEMMA QuietStutters ==
  ASSUME UNCHANGED <<m_QueueNextSeq, m_QueuePending, m_UdpBuffer, frameSeq>>,
         DeleteMutexHeld' = DeleteMutexHeld
  PROVE  UNCHANGED Abstract!vars
  BY DEF Abstract!vars, QueueSlot

(* A step that empties the queue and leaves the ring alone.                *)
LEMMA EmptyingDrops ==
  ASSUME QueueInv', m_QueuePending' = 0, UNCHANGED <<m_UdpBuffer, frameSeq, schedPc>>
  PROVE  Abstract!Drop
<1>1. RingQueue' = <<>>
  BY RingQueueFactsNext
<1>2. RingSending' = RingSending
  BY DEF RingSending, DeleteMutexHeld
<1> QED
  BY <1>1, <1>2 DEF Abstract!Drop, RingQueue, RingSending

(* SchedTake: the frame at the head leaves the queue and is on the wire.   *)
LEMMA TakeStarts ==
  ASSUME QueueInv, QueueInv', SchedTake
  PROVE  Abstract!StartSending
<1> DEFINE p == m_QueuePending
           n == m_QueueNextSeq
<1>1. /\ p > 0 /\ p \in Slots /\ n \in Slots /\ ~DeleteMutexHeld /\ DeleteMutexHeld'
      /\ n' = NextSeq(n) /\ p' = p - 1 /\ frameSeq' = n /\ m_UdpBuffer' = m_UdpBuffer
  BY QueueAssumption, SeqSizeAssumption
     DEF SchedTake, QueueInv, TypeOK, Slots, DeleteMutexHeld
<1>2. /\ RingQueue \in Seq(AnyFrame) /\ Len(RingQueue) = p
      /\ RingQueue' \in Seq(AnyFrame) /\ Len(RingQueue') = p - 1
  BY RingQueueFacts, RingQueueFactsNext, <1>1
<1>3. RingQueue # <<>> /\ Head(RingQueue) = RingQueue[1]
  BY <1>1, <1>2 DEF Slots
<1>4. RingQueue[1] = m_UdpBuffer[n]
  <2>1. 1 \in 1 .. p /\ 1 - 1 = 0
    BY <1>1 DEF Slots
  <2>2. RingQueue[1] = m_UdpBuffer[(n + 0) % SeqSize]
    BY <2>1 DEF RingQueue, QueueSlot
  <2> QED
    BY <2>2, <1>1, ModZero
<1>5. ASSUME NEW i \in 1 .. p - 1
      PROVE  RingQueue'[i] = RingQueue[i + 1]
  <2>1. i \in 1 .. p /\ i + 1 \in 1 .. p /\ (i + 1) - 1 = (i - 1) + 1 /\ i - 1 \in Slots
    BY <1>1, SeqSizeAssumption DEF Slots
  <2>2. (NextSeq(n) + (i - 1)) % SeqSize = (n + ((i - 1) + 1)) % SeqSize
    BY <2>1, <1>1, ModShift
  <2>3. RingQueue'[i] = m_UdpBuffer[(NextSeq(n) + (i - 1)) % SeqSize]
    BY <1>1 DEF RingQueue, QueueSlot
  <2>4. RingQueue[i + 1] = m_UdpBuffer[(n + ((i - 1) + 1)) % SeqSize]
    BY <2>1 DEF RingQueue, QueueSlot
  <2> QED
    BY <2>2, <2>3, <2>4
<1>6. RingQueue' = Tail(RingQueue)
  BY <1>2, <1>3, <1>5, TailByElements
<1>7. RingSending = NoFrame /\ RingSending' = Head(RingQueue)
  BY <1>1, <1>3, <1>4 DEF RingSending
<1> QED
  BY <1>3, <1>6, <1>7 DEF Abstract!StartSending, RingQueue, RingSending

(* SchedDone: the frame that was on the wire is done with.                 *)
LEMMA DoneEnds ==
  ASSUME QueueInv, SchedDone
  PROVE  Abstract!EndSending
<1>1. RingSending # NoFrame /\ RingSending' = NoFrame
  BY DEF SchedDone, RingSending, DeleteMutexHeld, QueueInv, FrameInFlightIntact
<1>2. RingQueue' = RingQueue
  BY DEF SchedDone, queueVars, RingQueue, QueueSlot
<1> QED
  BY <1>1, <1>2 DEF Abstract!EndSending, RingQueue, RingSending

(* Every step of the transmitter is a step of the queue, or none.          *)
LEMMA StepsRefine == QueueInv /\ QueueInv' /\ [Next]_vars => [Abstract!Next]_(Abstract!vars)
<1> SUFFICES ASSUME QueueInv, QueueInv', [Next]_vars
             PROVE  Abstract!Next \/ UNCHANGED Abstract!vars
  OBVIOUS
<1> USE DEF queueVars, callerVars, schedVars
<1>0. /\ m_QueuePending \in Nat
      /\ PaddingFrame(m_UdpBuffer, m_QueueNextSeq) \in Frame
      /\ Limit <= MaxLiveQueue /\ Limit \in Nat /\ MaxLiveQueue \in Nat /\ PadThreshold \in Nat
      /\ PadThreshold < MaxLiveQueue
  BY PaddingIsFrame, QueueAssumption DEF QueueInv, TypeOK, Limit
<1>1. CASE Play
  <2>1. CASE m_QueuePending < Limit
    <3> DEFINE frame == [stream |-> "sidVdr", pos |-> m_StreamPos, len |-> FrameLen]
    <3>1. frame \in Frame /\ m_QueuePending < MaxLiveQueue
      BY <2>1, <1>0, LengthAssumption DEF QueueInv, TypeOK, Frame, Streams
    <3>2. Enqueue(frame) /\ LockFree /\ UNCHANGED frameSeq /\ DeleteMutexHeld' = DeleteMutexHeld
      BY <1>1, <2>1 DEF Play, DeleteMutexHeld
    <3> QED
      BY <3>1, <3>2, EnqueuePuts DEF Abstract!Next
  <2>2. CASE ~(m_QueuePending < Limit)
    BY <1>1, <2>2, QuietStutters DEF Play, DeleteMutexHeld
  <2> QED
    BY <2>1, <2>2
<1>2. CASE QueueControl
  <2> DEFINE frame == [stream |-> "sidControl", pos |-> -1, len |-> FrameLen]
  <2>1. frame \in Frame /\ m_QueuePending < MaxLiveQueue
    BY <1>2, <1>0, LengthAssumption DEF QueueControl, Frame, Streams
  <2>2. Enqueue(frame) /\ LockFree /\ UNCHANGED frameSeq /\ DeleteMutexHeld' = DeleteMutexHeld
    BY <1>2 DEF QueueControl, DeleteMutexHeld
  <2> QED
    BY <2>1, <2>2, EnqueuePuts DEF Abstract!Next
<1>3. CASE QueuePadding
  <2>1. /\ Enqueue(PaddingFrame(m_UdpBuffer, m_QueueNextSeq)) /\ m_QueuePending < MaxLiveQueue
        /\ LockFree /\ UNCHANGED frameSeq /\ DeleteMutexHeld' = DeleteMutexHeld
    BY <1>3, <1>0 DEF QueuePadding, DeleteMutexHeld
  <2> QED
    BY <2>1, <1>0, EnqueuePuts DEF Abstract!Next
<1>4. CASE SchedWake
  <2>1. LockFree /\ UNCHANGED frameSeq /\ DeleteMutexHeld' = DeleteMutexHeld
    BY <1>4 DEF SchedWake, DeleteMutexHeld
  <2>2. CASE m_QueuePending = 0
    <3>1. Enqueue(PaddingFrame(m_UdpBuffer, m_QueueNextSeq)) /\ m_QueuePending < MaxLiveQueue
      BY <1>4, <2>2, <1>0 DEF SchedWake
    <3> QED
      BY <3>1, <2>1, <1>0, EnqueuePuts DEF Abstract!Next
  <2>3. CASE m_QueuePending # 0
    BY <1>4, <2>1, <2>3, QuietStutters DEF SchedWake
  <2> QED
    BY <2>2, <2>3
<1>5. CASE Clear
  BY <1>5, EmptyingDrops DEF Clear, Abstract!Next
<1>6. ASSUME NEW fd \in Fds, RemoveHandle(fd) PROVE Abstract!Next \/ UNCHANGED Abstract!vars
  <2>1. CASE m_Handles'[0] = NoFd
    BY <1>6, <2>1, EmptyingDrops DEF RemoveHandle, Abstract!Next
  <2>2. CASE m_Handles'[0] # NoFd
    BY <1>6, <2>2, QuietStutters DEF RemoveHandle, DeleteMutexHeld
  <2> QED
    BY <2>1, <2>2
<1>7. CASE RemoveHandleFlush
  <2>1. /\ m_QueuePending = 0 /\ m_QueuePending' = 0 /\ ~DeleteMutexHeld /\ ~DeleteMutexHeld'
    BY <1>7 DEF RemoveHandleFlush, DeleteMutexHeld, QueueInv, EmptyWhileRemoving, LockFree
  <2>2. RingQueue = <<>> /\ RingQueue' = <<>>
    BY <2>1, RingQueueFacts, RingQueueFactsNext
  <2>3. RingSending' = RingSending
    BY <2>1 DEF RingSending
  <2> QED
    BY <2>2, <2>3 DEF Abstract!vars, RingQueue, RingSending
<1>8. CASE SchedTake
  BY <1>8, TakeStarts DEF Abstract!Next
<1>9. CASE SchedDone
  BY <1>9, DoneEnds DEF Abstract!Next
<1>10. CASE SchedWait \/ SchedSchedule \/ SchedDue \/ SchedSend
  BY <1>10, QuietStutters DEF SchedWait, SchedSchedule, SchedDue, SchedSend, DeleteMutexHeld
<1>11. CASE \E b \in BOOLEAN : Poll(b) \/ Pause(b)
  BY <1>11, QuietStutters DEF Poll, Pause, DeleteMutexHeld
<1>12. ASSUME NEW fd \in Fds, AddHandle(fd) PROVE UNCHANGED Abstract!vars
  BY <1>12, QuietStutters DEF AddHandle, DeleteMutexHeld
<1>13. CASE UNCHANGED vars
  BY <1>13, QuietStutters DEF vars, DeleteMutexHeld
<1> QED
  BY <1>1, <1>2, <1>3, <1>4, <1>5, <1>6, <1>7, <1>8, <1>9, <1>10, <1>11, <1>12, <1>13
     DEF Next, Scheduler, Device, Server

(* cUdpScheduler is the queue its callers take it for: frames leave in the *)
(* order in which they were queued, unchanged, none is lost but by a clear *)
(* of the whole queue or the last client's removal, and the frame on the   *)
(* wire is the head that was taken, whatever the ring, the numbers that    *)
(* wrap and the two mutexes do.                                            *)
THEOREM RefinesFrameQueue == Spec => ImplementsFrameQueue
<1>1. Init => Abstract!Init
  <2> SUFFICES ASSUME Init PROVE Abstract!Init
    OBVIOUS
  <2>1. RingQueue = <<>>
    BY QueueInvInit, RingQueueFacts DEF Init
  <2>2. RingSending = NoFrame
    BY DEF Init, RingSending, DeleteMutexHeld
  <2> QED
    BY <2>1, <2>2 DEF Abstract!Init, RingQueue, RingSending
<1> QED
  BY <1>1, QueueInvInit, QueueInvNext, StepsRefine, PTL
     DEF Spec, ImplementsFrameQueue, Abstract!Spec
=============================================================================
