---------------------------- MODULE UdpScheduler ----------------------------
(***************************************************************************)
(* The server's UDP/RTP transmitter (class cUdpScheduler,                  *)
(* tools/udp_pes_scheduler.c).  The VDR device thread queues frames, polls *)
(* for room, clears and pauses; the server thread adds and removes client  *)
(* sockets; the scheduler thread takes one frame at a time, waits until it *)
(* is due and sends it to every socket.                                    *)
(*                                                                         *)
(* Two mutexes.  m_Lock protects everything; an operation that keeps it    *)
(* from beginning to end is one step, and only RemoveHandle() can be       *)
(* caught holding it, waiting for m_BackLogDeleteMutex.  The scheduler     *)
(* thread holds m_BackLogDeleteMutex, but not m_Lock, while it delays and  *)
(* sends a frame: there it reads m_Handles, m_Master and the frame itself  *)
(* while the other threads run.                                            *)
(***************************************************************************)
EXTENDS UdpBackLog, FiniteSets

CONSTANTS Fds,           \* client sockets (the RTP multicast socket is one)
          NoFd,          \* -1, a free entry of m_Handles
          MaxHandles,    \* MAX_UDP_HANDLES
          MaxQueue,      \* MAX_QUEUE_SIZE: limit when the scheduler is master
          MaxLiveQueue,  \* MAX_LIVE_QUEUE_SIZE: limit otherwise
          PadThreshold,  \* QueuePadding() does nothing above this (2)
          FrameLen,      \* payload length of a stream frame
          MaxPos         \* bound on the stream position (model bound)

ASSUME HandlesAssumption ==
  /\ NoFd \notin Fds
  /\ IsFiniteSet(Fds)
  /\ MaxHandles \in Nat \ {0}
  /\ Cardinality(Fds) <= MaxHandles
ASSUME QueueAssumption ==
  /\ MaxQueue \in Nat
  /\ MaxLiveQueue \in Nat
  /\ PadThreshold \in Nat
  /\ PadThreshold < MaxQueue /\ MaxQueue <= MaxLiveQueue /\ MaxLiveQueue < SeqSize
ASSUME LengthAssumption == FrameLen \in Nat /\ MaxPos \in Nat

VARIABLES
  m_Handles,      \* socket table: [Entries -> Fds \cup {NoFd}]
  m_QueueNextSeq, \* sequence number of the next frame to send
  m_QueuePending, \* number of frames queued and not yet taken
  m_UdpBuffer,    \* m_BackLog's slots
  m_SeqNo,        \* m_BackLog's next sequence number
  m_Master,       \* the scheduler is the timing source (replay)
  m_Paused,       \* m_MasterClock is paused
  m_StreamPos,    \* the server's stream position (cXinelibThread)
  m_Lock,         \* "free", or "remove" inside RemoveHandle()
  schedPc,        \* where the scheduler thread is
  frameSeq,       \* slot of the frame it points to
  handleIdx,      \* its index in the delivery loop
  taken           \* history: the frame as it was when it was taken

queueVars  == <<m_QueueNextSeq, m_QueuePending, m_UdpBuffer, m_SeqNo>>
callerVars == <<m_Master, m_Paused, m_StreamPos>>
schedVars  == <<schedPc, frameSeq, handleIdx, taken>>
vars == <<m_Handles, m_Lock, queueVars, callerVars, schedVars>>

Entries == 0 .. MaxHandles - 1

LockFree   == m_Lock = "free"
HasClients == m_Handles[0] # NoFd
(* Wrong variant: one frame too many.                                      *)
LimitOffByOne == IF m_Master THEN MaxQueue ELSE MaxLiveQueue + 1
Limit      == IF m_Master THEN MaxQueue ELSE MaxLiveQueue

(* The scheduler thread is between the take of a frame and the release of  *)
(* m_BackLogDeleteMutex.                                                   *)
DeleteMutexHeld == schedPc \in {"taken", "delay", "send"}

-----------------------------------------------------------------------------
(* cUdpScheduler(): an empty ring, no sockets, the thread at its loop.     *)
Init == /\ m_Handles = [i \in Entries |-> NoFd]
        /\ m_QueueNextSeq = 0
        /\ m_QueuePending = 0
        /\ m_UdpBuffer = EmptyBuffer
        /\ m_SeqNo = 0
        /\ m_Master = FALSE
        /\ m_Paused = FALSE
        /\ m_StreamPos = 0
        /\ m_Lock = "free"
        /\ schedPc = "top"
        /\ frameSeq = 0
        /\ handleIdx = 0
        /\ taken = NoFrame

(* The part of Queue() and QueuePaddingInternal() that appends a frame.    *)
Enqueue(frame) ==
  /\ m_UdpBuffer' = MakeFrame(m_UdpBuffer, m_SeqNo, frame)
  /\ m_SeqNo' = NextSeq(m_SeqNo)
  /\ m_QueuePending' = m_QueuePending + 1
  /\ UNCHANGED m_QueueNextSeq

-----------------------------------------------------------------------------
(* The VDR device thread.                                                  *)

(* cXinelibServer::Play(): the position advances although Queue() may have *)
(* refused the frame (no room, the overflow is only logged).               *)
Play == /\ LockFree
        /\ HasClients
        /\ m_StreamPos < MaxPos
        /\ m_StreamPos' = m_StreamPos + FrameLen
        /\ IF m_QueuePending < Limit
             THEN Enqueue([stream |-> "sidVdr", pos |-> m_StreamPos, len |-> FrameLen])
             ELSE UNCHANGED queueVars
        /\ UNCHANGED <<m_Handles, m_Lock, m_Master, m_Paused, schedVars>>

(* Xine_Control_Sync(): a control message in the data stream, position -1. *)
QueueControl ==
  /\ LockFree
  /\ HasClients
  /\ m_QueuePending < Limit
  /\ Enqueue([stream |-> "sidControl", pos |-> -1, len |-> FrameLen])
  /\ UNCHANGED <<m_Handles, m_Lock, callerVars, schedVars>>

(* Poll() selects the limit; waiting for room changes nothing.             *)
Poll(master) == /\ LockFree
                /\ m_Master' = master
                /\ UNCHANGED <<m_Handles, m_Lock, queueVars, m_Paused, m_StreamPos, schedVars>>

(* Clear() gives the numbers of the unsent frames back.                    *)
Clear == /\ LockFree
         /\ m_SeqNo' = ClearLast(m_SeqNo, m_QueuePending)
         /\ m_QueuePending' = 0
         /\ UNCHANGED <<m_QueueNextSeq, m_UdpBuffer, m_Handles, m_Lock, callerVars, schedVars>>

(* Pause(On) stops or restarts the master clock.                           *)
Pause(on) == /\ LockFree
             /\ m_Paused' = on
             /\ UNCHANGED <<m_Handles, m_Lock, queueVars, m_Master, m_StreamPos, schedVars>>

-----------------------------------------------------------------------------
(* The server thread.                                                      *)

(* AddHandle(): the first entry that is free or already holds the socket.  *)
AddHandle(fd) ==
  /\ LockFree
  /\ \E i \in Entries :
       /\ m_Handles[i] \in {NoFd, fd}
       /\ \A j \in Entries : j < i => m_Handles[j] \notin {NoFd, fd}
       /\ m_Handles' = [m_Handles EXCEPT ![i] = fd]
  /\ UNCHANGED <<m_Lock, queueVars, callerVars, schedVars>>

(* Wrong variant: the removed entry becomes a hole.                        *)
WithoutEntryHole(i) == [m_Handles EXCEPT ![i] = NoFd]

(* RemoveHandle()'s shift of the entries behind the removed one.           *)
WithoutEntry(i) ==
  [j \in Entries |-> IF j = MaxHandles - 1 THEN NoFd
                     ELSE IF j >= i THEN m_Handles[j + 1] ELSE m_Handles[j]]

(* RemoveHandle(): without clients the queue is reset and, still holding   *)
(* m_Lock, the thread waits for m_BackLogDeleteMutex (RemoveHandleFlush).  *)
RemoveHandle(fd) ==
  /\ LockFree
  /\ \E i \in Entries :
       /\ m_Handles[i] = fd
       /\ \A j \in Entries : j < i => m_Handles[j] # fd
       /\ m_Handles' = WithoutEntry(i)
  /\ IF m_Handles'[0] = NoFd
       THEN /\ m_Lock' = "remove"
            /\ m_QueueNextSeq' = 0
            /\ m_QueuePending' = 0
       ELSE UNCHANGED <<m_Lock, m_QueueNextSeq, m_QueuePending>>
  /\ UNCHANGED <<m_UdpBuffer, m_SeqNo, callerVars, schedVars>>

(* Wrong variant: the buffers are freed without m_BackLogDeleteMutex.      *)
RemoveHandleFlushUnlocked ==
  /\ m_Lock = "remove"
  /\ m_UdpBuffer' = EmptyBuffer
  /\ m_SeqNo' = 0
  /\ m_Lock' = "free"
  /\ UNCHANGED <<m_Handles, m_QueueNextSeq, m_QueuePending, callerVars, schedVars>>

RemoveHandleFlush ==
  /\ m_Lock = "remove"
  /\ ~DeleteMutexHeld
  /\ m_UdpBuffer' = EmptyBuffer
  /\ m_SeqNo' = 0
  /\ m_Lock' = "free"
  /\ UNCHANGED <<m_Handles, m_QueueNextSeq, m_QueuePending, callerVars, schedVars>>

(* QueuePadding(), called when a client has just joined.                   *)
QueuePadding ==
  /\ LockFree
  /\ HasClients
  /\ m_QueuePending <= PadThreshold
  /\ Enqueue(PaddingFrame(m_UdpBuffer, m_QueueNextSeq))
  /\ UNCHANGED <<m_Handles, m_Lock, callerVars, schedVars>>

-----------------------------------------------------------------------------
(* The scheduler thread, Action().                                         *)

(* Nothing queued: wait up to 100 ms for data, m_Lock released.            *)
SchedWait == /\ schedPc = "top"
             /\ LockFree
             /\ HasClients
             /\ m_QueuePending = 0
             /\ schedPc' = "wait"
             /\ UNCHANGED <<m_Handles, m_Lock, queueVars, callerVars,
                            frameSeq, handleIdx, taken>>

(* Wrong variant: the wait ends only if nothing has been queued meanwhile. *)
SchedWakeLost ==
  /\ schedPc = "wait"
  /\ LockFree
  /\ m_QueuePending = 0
  /\ Enqueue(PaddingFrame(m_UdpBuffer, m_QueueNextSeq))
  /\ schedPc' = "top"
  /\ UNCHANGED <<m_Handles, m_Lock, callerVars, frameSeq, handleIdx, taken>>

(* Awake again: still nothing queued means a padding frame, whether or not *)
(* the clients are still there.                                            *)
SchedWake == /\ schedPc = "wait"
             /\ LockFree
             /\ IF m_QueuePending = 0
                  THEN Enqueue(PaddingFrame(m_UdpBuffer, m_QueueNextSeq))
                  ELSE UNCHANGED queueVars
             /\ schedPc' = "top"
             /\ UNCHANGED <<m_Handles, m_Lock, callerVars,
                            frameSeq, handleIdx, taken>>

(* Take the next frame; m_BackLogDeleteMutex replaces m_Lock.              *)
SchedTake == /\ schedPc = "top"
             /\ LockFree
             /\ HasClients
             /\ m_QueuePending > 0
             /\ frameSeq' = m_QueueNextSeq
             /\ m_QueueNextSeq' = NextSeq(m_QueueNextSeq)
             /\ m_QueuePending' = m_QueuePending - 1
             /\ schedPc' = "taken"
             /\ taken' = m_UdpBuffer[m_QueueNextSeq]
             /\ UNCHANGED <<m_Handles, m_Lock, m_UdpBuffer, m_SeqNo, callerVars,
                            handleIdx>>

(* Schedule(): as timing source, a stream frame may not be due yet.        *)
SchedSchedule ==
  /\ schedPc = "taken"
  /\ schedPc' \in (IF m_Master /\ m_UdpBuffer[frameSeq].stream = "sidVdr"
                     THEN {"delay", "send"} ELSE {"send"})
  /\ UNCHANGED <<m_Handles, m_Lock, queueVars, callerVars,
                 frameSeq, handleIdx, taken>>

(* The delay loop ends when the clock has reached the frame's time: never  *)
(* while the clock is paused.                                              *)
SchedDue == /\ schedPc = "delay"
            /\ ~m_Paused
            /\ schedPc' = "send"
            /\ UNCHANGED <<m_Handles, m_Lock, queueVars, callerVars,
                           frameSeq, handleIdx, taken>>

MoreSockets == handleIdx < MaxHandles /\ m_Handles[handleIdx] # NoFd

(* One round of "deliver to all active sockets".                           *)
SchedSend == /\ schedPc = "send"
             /\ MoreSockets
             /\ handleIdx' = handleIdx + 1
             /\ UNCHANGED <<m_Handles, m_Lock, queueVars, callerVars,
                            schedPc, frameSeq, taken>>

(* The loop has ended: release m_BackLogDeleteMutex and go for m_Lock.     *)
SchedDone == /\ schedPc = "send"
             /\ ~MoreSockets
             /\ schedPc' = "top"
             /\ handleIdx' = 0
             /\ taken' = NoFrame
             /\ UNCHANGED <<m_Handles, m_Lock, queueVars, callerVars, frameSeq>>

-----------------------------------------------------------------------------
Scheduler == SchedWait \/ SchedWake \/ SchedTake \/ SchedSchedule
             \/ SchedDue \/ SchedSend \/ SchedDone

Device == Play \/ QueueControl \/ Clear
          \/ \E b \in BOOLEAN : Poll(b) \/ Pause(b)

Server == RemoveHandleFlush \/ QueuePadding
          \/ \E fd \in Fds : AddHandle(fd) \/ RemoveHandle(fd)

Next == Scheduler \/ Device \/ Server

(* The threads that hold a lock or sleep on a timeout go on: the scheduler *)
(* thread, and RemoveHandle() once the mutex it waits for is released.     *)
Spec == /\ Init /\ [][Next]_vars
        /\ WF_vars(Scheduler)
        /\ WF_vars(RemoveHandleFlush)

-----------------------------------------------------------------------------
TypeOK ==
  /\ m_Handles \in [Entries -> Fds \cup {NoFd}]
  /\ m_QueueNextSeq \in Slots
  /\ m_QueuePending \in 0 .. MaxLiveQueue
  /\ m_UdpBuffer \in [Slots -> Frame \cup {NoFrame}]
  /\ m_SeqNo \in Slots
  /\ m_Master \in BOOLEAN
  /\ m_Paused \in BOOLEAN
  /\ m_StreamPos \in Nat
  /\ m_Lock \in {"free", "remove"}
  /\ schedPc \in {"top", "wait", "taken", "delay", "send"}
  /\ frameSeq \in Slots
  /\ handleIdx \in 0 .. MaxHandles
  /\ taken \in Frame \cup {NoFrame}

(* The slot k places behind the head of the queue.                         *)
QueueSlot(k) == (m_QueueNextSeq + k) % SeqSize

(* The three counters agree whenever m_Lock is free: the number of the     *)
(* next frame to be made is the number of the next frame to be sent plus   *)
(* the frames in between, and each of those slots holds a frame.  Queue(), *)
(* Clear(), RemoveHandle() and the scheduler thread each update two of the *)
(* three by their own rule.                                                *)
NumberingConsistent ==
  LockFree => /\ m_SeqNo = QueueSlot(m_QueuePending)
              /\ \A k \in 0 .. m_QueuePending - 1 : m_UdpBuffer[QueueSlot(k)] # NoFrame

(* The frame the scheduler thread points to without holding m_Lock is the  *)
(* frame it took: not overwritten by Queue() after a wrap or a Clear(),    *)
(* not deleted by RemoveHandle().                                          *)
FrameInFlightIntact ==
  DeleteMutexHeld => taken # NoFrame /\ m_UdpBuffer[frameSeq] = taken

(* m_Handles has no holes and no socket twice: "m_Handles[0] < 0" really   *)
(* means no clients, and the delivery loop may stop at the first -1.       *)
HandlesDense ==
  \A i, j \in Entries : i < j /\ m_Handles[j] # NoFd =>
      m_Handles[i] # NoFd /\ m_Handles[i] # m_Handles[j]

(* The ring with its counters is a FIFO queue of frames (FrameQueue).      *)
Abstract == INSTANCE FrameQueue WITH
  MaxLen  <- MaxLiveQueue,
  queue   <- [k \in 1 .. m_QueuePending |-> m_UdpBuffer[QueueSlot(k - 1)]],
  sending <- IF DeleteMutexHeld THEN m_UdpBuffer[frameSeq] ELSE NoFrame

ImplementsFrameQueue == Abstract!Spec

(* A queued frame does not stay queued: unless the clock stays paused, its *)
(* slot is sent, cleared or flushed in the end.                            *)
IsPending(s) == \E k \in 0 .. m_QueuePending - 1 : QueueSlot(k) = s
EveryFrameLeaves ==
  (<>[] ~m_Paused) => \A s \in Slots : (IsPending(s) /\ HasClients) ~> ~(IsPending(s) /\ HasClients)

(* RemoveHandle(): "No clients left ... Flush all buffers": a removal that *)
(* has begun to flush completes.                                           *)
RemovalCompletes == (m_Lock = "remove") ~> (m_Lock = "free")
=============================================================================
