----------------------------- MODULE TcpWriter -----------------------------
(***************************************************************************)
(* The buffered writer of one TCP or HTTP client (cTcpWriter, cRawWriter,  *)
(* tools/backgroundwriter.c): producers append frames to a ring buffer, a  *)
(* thread takes them out and writes them to the socket, and Clear() asks   *)
(* that thread to drop what was put before it.  Nothing marks the frames   *)
(* in the ring: the thread has to keep the boundaries by counting, over    *)
(* partial writes and dropped frames.                                      *)
(*                                                                         *)
(* A byte is its position in the stream of all bytes ever put, a frame an  *)
(* interval of positions; m_RingBuffer is the interval between its tail    *)
(* and its head.  The thread mutex serialises producers, Clear() and the   *)
(* read of m_DiscardEnd; the ring buffer itself is used without it.        *)
(***************************************************************************)
EXTENDS Integers, Sequences, FiniteSetsExt

CONSTANTS HeaderLen,     \* sizeof(stream_tcp_header_t), the tcp ring's margin
          RawMargin,     \* margin of the raw writer's ring (6)
          Size,          \* capacity of the ring buffer
          MaxOverflows,  \* MAX_OVERFLOWS_BEFORE_DISCONNECT
          Lengths,       \* payload lengths
          MaxFrames,     \* model bound: frames put
          MaxClears      \* model bound: calls of Clear()

ASSUME WriterAssumption ==
  /\ HeaderLen \in Nat \ {0} /\ RawMargin \in Nat \ {0}
  /\ Size \in Nat /\ MaxOverflows \in Nat
  /\ \A l \in Lengths : l \in Nat /\ l >= RawMargin

VARIABLES
  kind,              \* which writer: "tcp" or "raw"
  frames,            \* history: the frames put, [stream, first, len]
  head, tail,        \* m_RingBuffer: end and begin of the bytes it holds
  putting,           \* payload still to be put by the producer that holds the
                     \* mutex (0: the mutex is free)
  m_PutPos, m_DiscardEnd, m_BufferOverflows,
  running,           \* Running()
  pc,                \* where Action() is
  GetPos, NextHeaderPos, Count, StartPos, CorkReq,   \* its variables
  wrote,             \* history: positions written to the socket
  corked,            \* history: control bytes the kernel may still hold back
  clears             \* model counter

putVars   == <<frames, head, putting, m_PutPos, m_BufferOverflows>>
clearVars == <<m_DiscardEnd, clears>>
localVars == <<GetPos, NextHeaderPos, Count, StartPos, CorkReq>>
wireVars  == <<wrote, corked>>
vars == <<kind, tail, running, pc, putVars, clearVars, localVars, wireVars>>

Available == head - tail
(* Wrong variant: the bytes in the buffer are not counted.                 *)
FreeOfEmpty == Size
Free      == Size - Available
Margin    == IF kind = "tcp" THEN HeaderLen ELSE RawMargin
Overhead  == IF kind = "tcp" THEN HeaderLen ELSE 0
Unlocked  == putting = 0

Bytes(i) == frames[i].first .. frames[i].first + frames[i].len - 1

(* The frame whose header the thread reads at a position.  Anywhere else   *)
(* than at the start of a frame it would read payload bytes as a header.   *)
Garbage == [stream |-> "garbage", first |-> 0, len |-> 1]
HeaderAt(pos) ==
  IF \E i \in DOMAIN frames : frames[i].first = pos
    THEN frames[CHOOSE i \in DOMAIN frames : frames[i].first = pos]
    ELSE Garbage

Init == /\ kind \in {"tcp", "raw"}
        /\ frames = <<>>
        /\ head = 0 /\ tail = 0
        /\ putting = 0
        /\ m_PutPos = 0 /\ m_DiscardEnd = 0 /\ m_BufferOverflows = 0
        /\ running = TRUE
        /\ pc = "top"
        /\ GetPos = 0 /\ NextHeaderPos = 0 /\ Count = 0 /\ StartPos = 0
        /\ CorkReq = FALSE
        /\ wrote = {} /\ corked = FALSE
        /\ clears = 0

-----------------------------------------------------------------------------
(* The producers: Play(), Xine_Control_Sync(), Clear().                    *)

CanPut == running /\ Unlocked /\ Len(frames) < MaxFrames

NewFrame(stream, len) ==
  [stream |-> stream, first |-> head, len |-> Overhead + len]

(* cTcpWriter::Put(): header and payload go to the ring one after the      *)
(* other, the mutex held.                                                  *)
PutHeader(stream, len) ==
  /\ kind = "tcp"
  /\ CanPut
  /\ Free >= Overhead + len
  /\ frames' = Append(frames, NewFrame(stream, len))
  /\ head' = head + Overhead
  /\ putting' = len
  /\ UNCHANGED <<kind, tail, running, pc, m_PutPos, m_BufferOverflows,
                 clearVars, localVars, wireVars>>

PutPayload ==
  /\ putting > 0
  /\ head' = head + putting
  /\ m_PutPos' = m_PutPos + Overhead + putting
  /\ m_BufferOverflows' = 0
  /\ putting' = 0
  /\ UNCHANGED <<kind, frames, tail, running, pc, clearVars, localVars, wireVars>>

(* cRawWriter::Put(): one call, no header, only stream data (of which a    *)
(* part may be no valid PES or TS).                                        *)
PutRaw(stream, len) ==
  /\ kind = "raw"
  /\ CanPut
  /\ Free >= len
  /\ frames' = Append(frames, NewFrame(stream, len))
  /\ head' = head + len
  /\ m_PutPos' = m_PutPos + len
  /\ m_BufferOverflows' = 0
  /\ UNCHANGED <<kind, putting, tail, running, pc, clearVars, localVars, wireVars>>

(* No room.  After too many refusals in a row the buffer is emptied and    *)
(* the thread told to end.                                                 *)
PutRefused(len) ==
  /\ CanPut
  /\ Free < Overhead + len
  /\ m_BufferOverflows' = m_BufferOverflows + 1
  /\ IF m_BufferOverflows > MaxOverflows
       THEN tail' = head /\ running' = FALSE
       ELSE UNCHANGED <<tail, running>>
  /\ UNCHANGED <<kind, frames, head, putting, m_PutPos, pc, clearVars,
                 localVars, wireVars>>

(* Clear(): "can't just drop buffer contents or PES frames will be broken" *)
Clear == /\ Unlocked
         /\ clears < MaxClears
         /\ m_DiscardEnd' = m_PutPos
         /\ clears' = clears + 1
         /\ UNCHANGED <<kind, tail, running, pc, putVars, localVars, wireVars>>

(* The connection is closed: ~cBackgroundWriterI() ends the thread.        *)
Cancel == /\ running
          /\ Unlocked
          /\ running' = FALSE
          /\ UNCHANGED <<kind, tail, pc, putVars, clearVars, localVars, wireVars>>

-----------------------------------------------------------------------------
(* The thread, Action().                                                   *)

(* Wrong variant: the request is never granted.                            *)
CorkNever == /\ pc = "top"
             /\ running
             /\ CorkReq
             /\ Available < 0
             /\ CorkReq' = FALSE
             /\ corked' = FALSE
             /\ UNCHANGED <<kind, tail, running, pc, putVars, clearVars,
                            GetPos, NextHeaderPos, Count, StartPos, wrote>>

(* Everything has been written: push out what the kernel holds back.       *)
Cork == /\ pc = "top"
        /\ running
        /\ CorkReq
        /\ Available <= 0
        /\ CorkReq' = FALSE
        /\ corked' = FALSE
        /\ UNCHANGED <<kind, tail, running, pc, putVars, clearVars,
                       GetPos, NextHeaderPos, Count, StartPos, wrote>>

(* Wrong variant: more than the margin has to be there.                    *)
GetBeyondMargin ==
  /\ pc = "top"
  /\ running
  /\ Count' \in Margin + 1 .. Available
  /\ pc' = "got"
  /\ UNCHANGED <<kind, tail, running, putVars, clearVars,
                 GetPos, NextHeaderPos, StartPos, CorkReq, wireVars>>

(* m_RingBuffer.Get(): a contiguous piece of at least the margin; how long *)
(* it is depends on where the ring's end is.                               *)
Get == /\ pc = "top"
       /\ running
       /\ Count' \in Margin .. Available
       /\ pc' = "got"
       /\ UNCHANGED <<kind, tail, running, putVars, clearVars,
                      GetPos, NextHeaderPos, StartPos, CorkReq, wireVars>>

(* StartPos is read with the mutex, after the data was fetched.            *)
ReadDiscard ==
  /\ pc = "got"
  /\ Unlocked
  /\ StartPos' = m_DiscardEnd
  /\ pc' = "decide"
  /\ UNCHANGED <<kind, tail, running, putVars, clearVars,
                 GetPos, NextHeaderPos, Count, CorkReq, wireVars>>

(* Wrong variant: the middle of a frame is taken for a boundary.           *)
AlwaysAtBoundary == TRUE
AtBoundary == NextHeaderPos = GetPos

(* "next frame starts before the discard point"                            *)
MayDrop == AtBoundary /\ GetPos < StartPos

(* Wrong variant: control messages are dropped too.                        *)
DroppableAnyStream == LET n == Min({Count, StartPos - GetPos})
                          f == HeaderAt(GetPos)
  IN CASE MayDrop /\ kind = "raw" -> n
       [] MayDrop /\ kind = "tcp" /\ n >= f.len -> f.len
       [] OTHER -> 0

(* How many bytes to drop: the raw writer drops whatever it has before     *)
(* StartPos, the tcp writer one complete data frame at a time.             *)
Droppable == LET n == Min({Count, StartPos - GetPos})
                 f == HeaderAt(GetPos)
  IN CASE MayDrop /\ kind = "raw" -> n
       [] MayDrop /\ kind = "tcp" /\ f.stream = "sidVdr" /\ n >= f.len -> f.len
       [] OTHER -> 0

Drop == /\ pc = "decide"
        /\ Droppable > 0
        /\ tail' = tail + Droppable
        /\ GetPos' = GetPos + Droppable
        /\ NextHeaderPos' = GetPos'
        /\ CorkReq' = (CorkReq \/ kind = "tcp")
        /\ pc' = "top"
        /\ UNCHANGED <<kind, running, putVars, clearVars, Count, StartPos, wireVars>>

(* The raw writer meets something that is no packet: drop everything.      *)
DropGarbage ==
  /\ pc = "decide"
  /\ kind = "raw"
  /\ AtBoundary
  /\ Droppable = 0
  /\ HeaderAt(GetPos).stream = "garbage"
  /\ Unlocked
  /\ m_DiscardEnd' = m_PutPos
  /\ pc' = "top"
  /\ UNCHANGED <<kind, tail, running, putVars, clears, localVars, wireVars>>

(* A new frame: remember where it ends, and do not write beyond.           *)
BeginFrame ==
  LET f == HeaderAt(GetPos) IN
  /\ pc = "decide"
  /\ AtBoundary
  /\ Droppable = 0
  /\ kind = "raw" => f.stream # "garbage"
  /\ Count' = Min({Count, f.len})
  /\ NextHeaderPos' = GetPos + f.len
  /\ CorkReq' = (CorkReq \/ (kind = "tcp" /\ f.stream = "sidControl"))
  /\ pc' = "write"
  /\ UNCHANGED <<kind, tail, running, putVars, clearVars, GetPos, StartPos, wireVars>>

(* The rest of a frame whose beginning has been written.                   *)
ContinueFrame ==
  /\ pc = "decide"
  /\ ~AtBoundary
  /\ Count' = Min({Count, NextHeaderPos - GetPos})
  /\ pc' = "write"
  /\ UNCHANGED <<kind, tail, running, putVars, clearVars,
                 GetPos, NextHeaderPos, StartPos, CorkReq, wireVars>>

(* write() takes n of the Count bytes.                                     *)
WriteSome(n) ==
  /\ pc = "write"
  /\ n <= Count
  /\ wrote' = wrote \cup (GetPos .. GetPos + n - 1)
  /\ corked' = (corked \/ \E i \in DOMAIN frames :
                             frames[i].stream = "sidControl" /\ GetPos \in Bytes(i))
  /\ GetPos' = GetPos + n
  /\ tail' = tail + n
  /\ pc' = "top"
  /\ UNCHANGED <<kind, running, putVars, clearVars,
                 NextHeaderPos, Count, StartPos, CorkReq>>

(* EINTR, EWOULDBLOCK: from the top; the frame's end stays remembered.     *)
WriteAgain ==
  /\ pc = "write"
  /\ pc' = "top"
  /\ UNCHANGED <<kind, tail, running, putVars, clearVars, localVars, wireVars>>

(* The peer is gone, or the loop's condition fails.                        *)
Leave == /\ pc = "write" \/ (pc = "top" /\ ~running)
         /\ pc' = "exit"
         /\ UNCHANGED <<kind, tail, running, putVars, clearVars, localVars, wireVars>>

(* Empty the buffer and end the thread.                                    *)
Exit == /\ pc = "exit"
        /\ tail' = head
        /\ running' = FALSE
        /\ pc' = "ended"
        /\ UNCHANGED <<kind, putVars, clearVars, localVars, wireVars>>

-----------------------------------------------------------------------------
Producer == PutPayload \/ Clear \/ Cancel
            \/ \E l \in Lengths :
                  \/ \E s \in {"sidVdr", "sidControl"} : PutHeader(s, l)
                  \/ \E s \in {"sidVdr", "garbage"} : PutRaw(s, l)
                  \/ PutRefused(l)

WriteAny == \E n \in 1 .. HeaderLen + Max(Lengths) : WriteSome(n)

Thread == Cork \/ Get \/ ReadDiscard \/ Drop \/ DropGarbage \/ BeginFrame
          \/ ContinueFrame \/ WriteAny \/ WriteAgain \/ Leave \/ Exit

Next == Producer \/ Thread

(* A producer that holds the mutex goes on, the thread goes on, and a      *)
(* socket that is polled writable for ever takes data in the end.          *)
Spec == /\ Init /\ [][Next]_vars
        /\ WF_vars(PutPayload)
        /\ WF_vars(Thread)
        /\ SF_vars(WriteAny)

-----------------------------------------------------------------------------
TypeOK ==
  /\ kind \in {"tcp", "raw"}
  /\ head \in Nat /\ tail \in Nat /\ putting \in Lengths \cup {0}
  /\ m_PutPos \in 0 .. head /\ m_DiscardEnd \in 0 .. m_PutPos
  /\ running \in BOOLEAN /\ CorkReq \in BOOLEAN /\ corked \in BOOLEAN
  /\ pc \in {"top", "got", "decide", "write", "exit", "ended"}
  /\ GetPos \in 0 .. head
  /\ Available <= Size

(* The client sees whole frames: what has been written of a frame is a     *)
(* prefix of it, and the whole of it once a byte of a later frame has been *)
(* written.  Clear() in the middle of a frame, a partial write, EAGAIN     *)
(* right behind a boundary and a producer between header and payload must  *)
(* not break this.                                                         *)
WholeFrames ==
  \A i \in DOMAIN frames :
    LET w == Bytes(i) \cap wrote IN
    w # {} => /\ w = frames[i].first .. Max(w)
              /\ w = Bytes(i) \/ \A j \in i + 1 .. Len(frames) : Bytes(j) \cap wrote = {}

(* "Drop all data (only complete frames)": a byte that left the buffer of  *)
(* a running writer was written or belongs to a frame of stream data, put  *)
(* completely before a Clear(); a control message is never dropped.        *)
OnlyClearedDropped ==
  running => \A i \in DOMAIN frames : \A p \in Bytes(i) :
                p < tail /\ p \notin wrote =>
                   /\ p < m_DiscardEnd
                   /\ frames[i].stream # "sidControl"
                   /\ Bytes(i) \cap wrote = {}

(* A complete frame does not wait in the buffer for ever: its turn comes,  *)
(* to be written or dropped.  (Its last bytes may stay: the ring buffer    *)
(* hands out nothing below its margin.)                                    *)
Waiting(i) == i \in DOMAIN frames /\ running /\ frames[i].first >= GetPos
FramesMove == \A i \in 1 .. MaxFrames : Waiting(i) ~> ~Waiting(i)

(* "Force TCP packet to avoid delaying control messages": when nothing     *)
(* follows a written control message, it is pushed out.                    *)
ControlPushed == corked /\ running ~> (~corked \/ Available > 0 \/ ~running)
=============================================================================
