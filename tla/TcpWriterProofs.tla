-------------------------- MODULE TcpWriterProofs --------------------------
(***************************************************************************)
(* Proofs about TcpWriter, for both writers, buffers of any size, payloads *)
(* of any length and any number of frames and calls of Clear().            *)
(***************************************************************************)
EXTENDS TcpWriter, TLAPS

-----------------------------------------------------------------------------
(* The inductive invariant.                                                *)

FrameType == [stream : {"sidVdr", "sidControl", "garbage"}, first : Nat, len : Nat \ {0}]

End(i) == frames[i].first + frames[i].len

(* Where a frame begins, or will begin.                                    *)
Boundary(p) == p = head + putting \/ \E i \in DOMAIN frames : frames[i].first = p

Types ==
  /\ kind \in {"tcp", "raw"}
  /\ frames \in Seq(FrameType)
  /\ head \in Nat /\ tail \in Nat /\ putting \in Lengths \cup {0}
  /\ m_PutPos \in Nat /\ m_DiscardEnd \in Nat
  /\ running \in BOOLEAN /\ CorkReq \in BOOLEAN /\ corked \in BOOLEAN
  /\ pc \in {"top", "got", "decide", "write", "exit", "ended"}
  /\ GetPos \in Nat /\ NextHeaderPos \in Nat /\ Count \in Nat /\ StartPos \in Nat
  /\ wrote \subseteq Nat

(* The frames lie one behind the other, without gaps, up to the head.      *)
Contiguous ==
  /\ \A i \in DOMAIN frames : End(i) <= head + putting
  /\ \A i, j \in DOMAIN frames : i < j => End(i) <= frames[j].first
  /\ \A i \in DOMAIN frames : Boundary(End(i))

(* Put() between header and payload: m_PutPos is still in front of both.   *)
PutAtBoundary ==
  /\ m_PutPos <= head /\ Boundary(m_PutPos)
  /\ m_PutPos = IF putting = 0 THEN head ELSE head - HeaderLen
  /\ putting # 0 => kind = "tcp"

(* What may be dropped ends where a frame ends.                            *)
DiscardAtBoundary ==
  /\ m_DiscardEnd <= m_PutPos /\ Boundary(m_DiscardEnd)
  /\ StartPos <= m_DiscardEnd /\ Boundary(StartPos)

(* The ring holds what the thread has not taken, as long as it runs.       *)
Buffered ==
  /\ running => tail = GetPos
  /\ GetPos <= head
  /\ head + putting - tail <= Size /\ putting <= Size
  /\ pc \in {"got", "decide", "write"} => Count >= 1 /\ GetPos + Count <= head

(* The thread's place in the stream: at the beginning of a frame, within   *)
(* stream data the raw writer drops, or within a frame whose bytes so far  *)
(* have all been written.                                                  *)
InFrame(k) ==
  /\ frames[k].first <= GetPos /\ GetPos < NextHeaderPos /\ NextHeaderPos = End(k)
  /\ \A p \in Nat : frames[k].first <= p /\ p < GetPos => p \in wrote

Place ==
  /\ NextHeaderPos = GetPos =>
        \/ Boundary(GetPos)
        \/ kind = "raw" /\ GetPos < m_DiscardEnd /\ (pc = "decide" => GetPos < StartPos)
  /\ NextHeaderPos # GetPos => \E k \in DOMAIN frames : InFrame(k)
  /\ pc = "write" => NextHeaderPos # GetPos /\ GetPos + Count <= NextHeaderPos

(* Of each frame nothing, everything or, of the frame being written, the   *)
(* part in front of GetPos is on the wire.                                 *)
NothingOf(i)    == \A p \in Bytes(i) : p \notin wrote
AllOf(i)        == \A p \in Bytes(i) : p \in wrote
BeginningOf(i)  == /\ frames[i].first < GetPos /\ GetPos < End(i) /\ NextHeaderPos = End(i)
                   /\ \A p \in Bytes(i) : p \in wrote <=> p < GetPos

OnWire ==
  /\ \A p \in wrote : p < GetPos
  /\ \A i \in DOMAIN frames : NothingOf(i) \/ AllOf(i) \/ BeginningOf(i)

(* A byte the thread has passed without writing it.                        *)
Dropped ==
  /\ \A i \in DOMAIN frames : \A p \in Bytes(i) :
       p < GetPos /\ p \notin wrote =>
          p < m_DiscardEnd /\ frames[i].stream # "sidControl" /\ NothingOf(i)
  /\ kind = "raw" => \A i \in DOMAIN frames : frames[i].stream # "sidControl"

WriterInv == /\ Types /\ Contiguous /\ PutAtBoundary /\ DiscardAtBoundary /\ Buffered
             /\ Place /\ OnWire /\ Dropped

-----------------------------------------------------------------------------
(* Lemmas about the operators.                                             *)

LEMMA MinOfTwo ==
  ASSUME NEW a \in Int, NEW b \in Int
  PROVE  Min({a, b}) \in {a, b} /\ Min({a, b}) <= a /\ Min({a, b}) <= b
<1>1. \E x \in {a, b} : \A y \in {a, b} : x <= y
  <2>1. CASE a <= b
    BY <2>1
  <2>2. CASE ~(a <= b)
    BY <2>2
  <2> QED
    BY <2>1, <2>2
<1> QED
  BY <1>1 DEF Min

LEMMA WriteLength ==
  ASSUME NEW n \in 1 .. HeaderLen + Max(Lengths)
  PROVE  n \in Nat /\ n >= 1
OBVIOUS

LEMMA Constants ==
  /\ HeaderLen \in Nat /\ HeaderLen >= 1 /\ RawMargin \in Nat /\ RawMargin >= 1 /\ Size \in Nat
  /\ \A l \in Lengths : l \in Nat /\ l >= 1
  BY WriterAssumption

LEMMA FrameFacts ==
  ASSUME Types
  PROVE  /\ DOMAIN frames = 1 .. Len(frames) /\ Len(frames) \in Nat
         /\ \A i \in DOMAIN frames :
              /\ frames[i] \in FrameType
              /\ frames[i].first \in Nat /\ frames[i].len \in Nat /\ frames[i].len >= 1
              /\ End(i) \in Nat /\ frames[i].first < End(i)
              /\ \A p : p \in Bytes(i) <=> p \in Nat /\ frames[i].first <= p /\ p < End(i)
<1>1. DOMAIN frames = 1 .. Len(frames) /\ Len(frames) \in Nat
  BY DEF Types
<1>2. ASSUME NEW i \in DOMAIN frames
      PROVE  frames[i] \in FrameType
  BY DEF Types
<1>3. ASSUME NEW i \in DOMAIN frames
      PROVE  /\ frames[i].first \in Nat /\ frames[i].len \in Nat /\ frames[i].len >= 1
  BY <1>2 DEF FrameType
<1>4. ASSUME NEW i \in DOMAIN frames
      PROVE  /\ End(i) \in Nat /\ frames[i].first < End(i)
             /\ \A p : p \in Bytes(i) <=> p \in Nat /\ frames[i].first <= p /\ p < End(i)
  BY <1>3 DEF End, Bytes
<1> QED
  BY <1>1, <1>2, <1>3, <1>4

(* A position belongs to one frame.                                        *)
LEMMA OneFrame ==
  ASSUME Types, Contiguous, NEW i \in DOMAIN frames, NEW j \in DOMAIN frames,
         NEW p \in Nat, frames[i].first <= p, p < End(i), frames[j].first <= p, p < End(j)
  PROVE  i = j
<1>1. CASE i < j
  BY <1>1, FrameFacts DEF Contiguous
<1>2. CASE j < i
  BY <1>2, FrameFacts DEF Contiguous
<1> QED
  BY <1>1, <1>2, FrameFacts

(* No frame reaches over the beginning of another one.                     *)
LEMMA NotAcross ==
  ASSUME Types, Contiguous, NEW p \in Nat, Boundary(p), NEW i \in DOMAIN frames,
         frames[i].first < p, p < End(i)
  PROVE  FALSE
<1>1. CASE p = head + putting
  BY <1>1, FrameFacts, Constants DEF Contiguous, Types
<1>2. ASSUME NEW j \in DOMAIN frames, frames[j].first = p PROVE FALSE
  <2>1. i = j
    BY <1>2, FrameFacts, OneFrame
  <2> QED
    BY <2>1, <1>2
<1> QED
  BY <1>1, <1>2 DEF Boundary

(* The thread reads a header where a frame begins.                         *)
LEMMA HeaderRead ==
  ASSUME Types, Contiguous, NEW p \in Nat, Boundary(p), p < head
  PROVE  \E k \in DOMAIN frames : frames[k].first = p /\ HeaderAt(p) = frames[k]
<1>1. putting \in Nat /\ head \in Nat
  BY Constants DEF Types
<1>2. PICK k \in DOMAIN frames : frames[k].first = p
  BY <1>1 DEF Boundary
<1>3. ASSUME NEW i \in DOMAIN frames, frames[i].first = p PROVE i = k
  BY <1>2, <1>3, FrameFacts, OneFrame
<1> QED
  BY <1>2, <1>3 DEF HeaderAt

-----------------------------------------------------------------------------
LEMMA WriterInvInit == Init => WriterInv
<1> SUFFICES ASSUME Init PROVE WriterInv
  OBVIOUS
<1>1. DOMAIN frames = {}
  BY DEF Init
<1>2. Types
  <2>1. frames \in Seq(FrameType)
    BY DEF Init
  <2> QED
    BY <2>1 DEF Init, Types
<1>3. Contiguous /\ PutAtBoundary /\ DiscardAtBoundary
  BY <1>1 DEF Init, Contiguous, PutAtBoundary, DiscardAtBoundary, Boundary
<1>4. Buffered /\ Place /\ OnWire /\ Dropped
  BY <1>1, Constants DEF Init, Buffered, Place, Boundary, OnWire, Dropped
<1> QED
  BY <1>2, <1>3, <1>4 DEF WriterInv

-----------------------------------------------------------------------------
(* The producers.                                                          *)

(* A frame is put behind all the others.                                   *)
LEMMA FrameAppended ==
  ASSUME WriterInv, NEW f \in FrameType, f.first = head, Unlocked,
         frames' = Append(frames, f),
         head' \in Nat, putting' \in Nat, head' + putting' = head + f.len
  PROVE  /\ frames' \in Seq(FrameType)
         /\ \E n \in Nat : /\ DOMAIN frames' = DOMAIN frames \cup {n}
                         /\ frames'[n] = f
                         /\ \A i \in DOMAIN frames : frames'[i] = frames[i] /\ i < n
         /\ \A p \in Nat : Boundary(p) => Boundary(p)'
         /\ Contiguous'
<1>0. Types /\ Contiguous /\ putting = 0 /\ head \in Nat
  BY DEF WriterInv, Types, Unlocked
<1>1. PICK n \in Nat : /\ frames' \in Seq(FrameType)
                       /\ DOMAIN frames' = DOMAIN frames \cup {n}
                       /\ frames'[n] = f
                       /\ \A i \in DOMAIN frames : frames'[i] = frames[i] /\ i < n
  <2> WITNESS Len(frames) + 1 \in Nat
  <2> QED
    BY <1>0 DEF Types
<1>2. ASSUME NEW p \in Nat, Boundary(p) PROVE Boundary(p)'
  <2>1. CASE p = head + putting
    <3>1. n \in DOMAIN frames' /\ frames'[n].first = p
      BY <2>1, <1>0, <1>1
    <3> QED
      BY <3>1 DEF Boundary
  <2>2. ASSUME NEW i \in DOMAIN frames, frames[i].first = p PROVE Boundary(p)'
    BY <2>2, <1>1 DEF Boundary
  <2> QED
    BY <1>2, <2>1, <2>2 DEF Boundary
<1>3. f.len \in Nat /\ f.len >= 1
  BY DEF FrameType
<1>4. End(n)' = head' + putting' /\ frames'[n].first = head
  BY <1>1 DEF End
<1>5. ASSUME NEW i \in DOMAIN frames
      PROVE  /\ End(i)' = End(i) /\ frames'[i].first = frames[i].first
             /\ End(i) <= head /\ End(i) \in Nat /\ Boundary(End(i)) /\ i \in Nat /\ n > i
  <2>1. End(i)' = End(i) /\ frames'[i].first = frames[i].first
    BY <1>1 DEF End
  <2> QED
    BY <2>1, <1>0, <1>1, FrameFacts DEF Contiguous
<1>6. Contiguous'
  <2>1. ASSUME NEW i \in DOMAIN frames'
        PROVE  End(i)' <= head' + putting'
    <3>1. CASE i \in DOMAIN frames
      <4>1. End(i)' = End(i) /\ End(i) <= head /\ End(i) \in Nat
        BY <3>1, <1>5
      <4> QED
        BY <4>1, <1>0, <1>1, <1>3
    <3>2. CASE i = n
      <4>1. frames'[i].first + frames'[i].len = head' + putting'
        BY <3>2, <1>1
      <4> QED
        BY <4>1, <1>0, <1>3 DEF End
    <3> QED
      BY <3>1, <3>2, <1>1
  <2>2. ASSUME NEW i \in DOMAIN frames', NEW j \in DOMAIN frames', i < j
        PROVE  End(i)' <= frames'[j].first
    <3>1. CASE i \in DOMAIN frames /\ j \in DOMAIN frames
      BY <3>1, <2>2, <1>0, <1>5 DEF Contiguous
    <3>2. CASE i \in DOMAIN frames /\ j = n
      BY <3>2, <1>4, <1>5
    <3>3. CASE i = n
      BY <3>3, <2>2, <1>1, <1>5
    <3> QED
      BY <3>1, <3>2, <3>3, <1>1
  <2>3. ASSUME NEW i \in DOMAIN frames' PROVE Boundary(End(i))'
    <3>1. CASE i \in DOMAIN frames
      <4>1. Boundary(End(i)) /\ End(i) \in Nat /\ End(i)' = End(i)
        BY <3>1, <1>5
      <4>2. CASE End(i) = head + putting
        <5>1. n \in DOMAIN frames' /\ frames'[n].first = End(i)'
          BY <4>1, <4>2, <1>0, <1>1, <1>4
        <5> QED
          BY <5>1 DEF Boundary
      <4>3. ASSUME NEW j \in DOMAIN frames, frames[j].first = End(i)
            PROVE  Boundary(End(i))'
        BY <4>1, <4>3, <1>1 DEF Boundary
      <4> QED
        BY <4>1, <4>2, <4>3 DEF Boundary
    <3>2. CASE i = n
      BY <3>2, <1>4 DEF Boundary
    <3> QED
      BY <3>1, <3>2, <1>1
  <2> QED
    BY <2>1, <2>2, <2>3 DEF Contiguous
<1> QED
  BY <1>1, <1>2, <1>6

(* The thread does not notice a frame that is put.                         *)
LEMMA PutBehindThread ==
  ASSUME WriterInv, NEW f \in FrameType, f.first = head, Unlocked,
         kind = "raw" => f.stream # "sidControl",
         frames' = Append(frames, f),
         head' \in Nat, putting' \in Nat, head' + putting' = head + f.len, head' >= head,
         m_PutPos' \in Nat, m_PutPos' >= m_PutPos,
         UNCHANGED <<kind, tail, running, pc, clearVars, localVars, wireVars>>
  PROVE  Contiguous' /\ DiscardAtBoundary' /\ Place' /\ OnWire' /\ Dropped'
<1>1. PICK n \in Nat : /\ Contiguous'
                       /\ DOMAIN frames' = DOMAIN frames \cup {n}
                       /\ frames'[n] = f
                       /\ \A i \in DOMAIN frames : frames'[i] = frames[i]
                       /\ \A p \in Nat : Boundary(p) => Boundary(p)'
  BY FrameAppended
<1>2. Types /\ Contiguous /\ DiscardAtBoundary /\ Buffered /\ Place /\ OnWire /\ Dropped
  BY DEF WriterInv
<1>3. /\ UNCHANGED <<kind, pc, m_DiscardEnd, GetPos, NextHeaderPos, Count, StartPos, wrote>>
      /\ m_DiscardEnd \in Nat /\ StartPos \in Nat /\ GetPos \in Nat /\ GetPos <= head
      /\ head \in Nat /\ m_PutPos \in Nat
  BY <1>2 DEF clearVars, localVars, wireVars, Types, Buffered
<1>4. DiscardAtBoundary'
  <2>1. Boundary(m_DiscardEnd)'
    BY <1>1, <1>2, <1>3 DEF DiscardAtBoundary, Boundary
  <2>2. Boundary(StartPos)'
    BY <1>1, <1>2, <1>3 DEF DiscardAtBoundary, Boundary
  <2> QED
    BY <2>1, <2>2, <1>2, <1>3 DEF DiscardAtBoundary
<1>5. ASSUME NEW i \in DOMAIN frames
      PROVE  /\ End(i)' = End(i) /\ Bytes(i)' = Bytes(i)
             /\ frames'[i].first = frames[i].first /\ frames'[i].stream = frames[i].stream
  BY <1>1 DEF End, Bytes
<1>6. Place'
  <2>1. Boundary(GetPos) => Boundary(GetPos)'
    BY <1>1, <1>3 DEF Boundary
  <2>2. ASSUME NEW k \in DOMAIN frames, InFrame(k) PROVE k \in DOMAIN frames' /\ InFrame(k)'
    BY <2>2, <1>1, <1>3, <1>5 DEF InFrame
  <2> QED
    BY <2>1, <2>2, <1>2, <1>3 DEF Place
<1>7. ASSUME NEW p, p \in Bytes(n)'
      PROVE  p \in Nat /\ p >= GetPos /\ p \notin wrote
  <2>1. p \in Nat /\ p >= head
    BY <1>7, <1>1, <1>3 DEF Bytes, FrameType
  <2> QED
    BY <2>1, <1>2, <1>3 DEF OnWire
<1>8. ASSUME NEW i \in DOMAIN frames
      PROVE  /\ NothingOf(i)' <=> NothingOf(i) 
             /\ AllOf(i)' <=> AllOf(i)
             /\ BeginningOf(i)' <=> BeginningOf(i)
  BY <1>3, <1>5 DEF NothingOf, AllOf, BeginningOf
<1>9. NothingOf(n)'
  BY <1>7, <1>3 DEF NothingOf
<1>10. OnWire'
  BY <1>1, <1>2, <1>3, <1>8, <1>9 DEF OnWire
<1>11. Dropped'
  <2>1. ASSUME NEW i \in DOMAIN frames', NEW p \in Bytes(i)', p < GetPos', p \notin wrote'
        PROVE  p < m_DiscardEnd' /\ frames'[i].stream # "sidControl" /\ NothingOf(i)'
    <3>1. CASE i \in DOMAIN frames
      BY <3>1, <2>1, <1>2, <1>3, <1>5, <1>8 DEF Dropped
    <3>2. CASE i = n
      BY <3>2, <2>1, <1>3, <1>7
    <3> QED
      BY <3>1, <3>2, <1>1
  <2>2. kind' = "raw" => \A i \in DOMAIN frames' : frames'[i].stream # "sidControl"
    BY <1>1, <1>2, <1>3, <1>5 DEF Dropped
  <2> QED
    BY <2>1, <2>2 DEF Dropped
<1> QED
  BY <1>1, <1>4, <1>6, <1>10, <1>11

(* The parts of the invariant under steps that put no frame.               *)
LEMMA FramesKept ==
  ASSUME Types, Contiguous, frames' = frames, head' + putting' = head + putting
  PROVE  /\ Contiguous'
         /\ \A p \in Nat : Boundary(p)' <=> Boundary(p)
<1>1. \A p \in Nat : Boundary(p)' <=> Boundary(p)
  BY DEF Boundary
<1>2. ASSUME NEW i \in DOMAIN frames
      PROVE  End(i)' = End(i) /\ End(i) \in Nat
  BY FrameFacts DEF End
<1>3. ASSUME NEW i \in DOMAIN frames PROVE Boundary(End(i))'
  BY <1>2 DEF Contiguous, Boundary
<1>4. Contiguous'
  BY <1>2, <1>3 DEF Contiguous
<1> QED
  BY <1>1, <1>4

LEMMA DiscardKept ==
  ASSUME WriterInv, frames' = frames, head' + putting' = head + putting,
         m_PutPos' \in Nat, m_PutPos' >= m_PutPos,
         m_DiscardEnd' = m_DiscardEnd, StartPos' = StartPos
  PROVE  DiscardAtBoundary'
<1>1. /\ DiscardAtBoundary /\ \A p \in Nat : Boundary(p)' <=> Boundary(p)
      /\ m_DiscardEnd \in Nat /\ StartPos \in Nat /\ m_PutPos \in Nat
  BY FramesKept DEF WriterInv, Types
<1>2. Boundary(m_DiscardEnd)'
  BY <1>1 DEF DiscardAtBoundary, Boundary
<1>3. Boundary(StartPos)'
  BY <1>1 DEF DiscardAtBoundary, Boundary
<1> QED
  BY <1>1, <1>2, <1>3 DEF DiscardAtBoundary

LEMMA PlaceKept ==
  ASSUME WriterInv, frames' = frames, head' + putting' = head + putting,
         UNCHANGED <<kind, GetPos, NextHeaderPos, wrote>>,
         m_DiscardEnd' \in Nat, m_DiscardEnd' >= m_DiscardEnd,
         pc' = "decide" => StartPos' = m_DiscardEnd' \/ (pc = "decide" /\ StartPos' = StartPos),
         pc' = "write" => pc = "write" /\ Count' = Count
  PROVE  Place'
<1>1. /\ Place /\ \A p \in Nat : Boundary(p)' <=> Boundary(p)
      /\ m_DiscardEnd \in Nat /\ GetPos \in Nat
  BY FramesKept DEF WriterInv, Types
<1>2. Boundary(GetPos) => Boundary(GetPos)'
  BY <1>1 DEF Boundary
<1>3. \A k \in DOMAIN frames : InFrame(k) => InFrame(k)'
  BY DEF InFrame, End
<1> QED
  BY <1>1, <1>2, <1>3 DEF Place

LEMMA WireKept ==
  ASSUME WriterInv, frames' = frames,
         UNCHANGED <<kind, GetPos, NextHeaderPos, wrote>>,
         m_DiscardEnd' \in Nat, m_DiscardEnd' >= m_DiscardEnd
  PROVE  OnWire' /\ Dropped'
<1>1. Types /\ OnWire /\ Dropped /\ m_DiscardEnd \in Nat
  BY DEF WriterInv, Types
<1>2. ASSUME NEW i \in DOMAIN frames
      PROVE  /\ Bytes(i)' = Bytes(i) /\ frames'[i].stream = frames[i].stream
             /\ NothingOf(i)' <=> NothingOf(i)
             /\ AllOf(i)' <=> AllOf(i)
             /\ BeginningOf(i)' <=> BeginningOf(i)
             /\ \A p \in Bytes(i) : p \in Nat
  BY <1>1, FrameFacts DEF NothingOf, AllOf, BeginningOf, Bytes, End
<1>3. OnWire'
  BY <1>1, <1>2 DEF OnWire
<1>4. Dropped'
  BY <1>1, <1>2 DEF Dropped
<1> QED
  BY <1>3, <1>4

LEMMA PutHeaderKeeps ==
  ASSUME WriterInv, NEW s \in {"sidVdr", "sidControl"}, NEW l \in Lengths, PutHeader(s, l)
  PROVE  WriterInv'
<1> DEFINE f == NewFrame(s, l)
<1>1. /\ Types /\ Contiguous /\ PutAtBoundary /\ Buffered
      /\ head \in Nat /\ putting = 0 /\ m_PutPos = head /\ l \in Nat /\ l >= 1 /\ HeaderLen \in Nat
      /\ HeaderLen >= 1 /\ Overhead = HeaderLen /\ kind = "tcp" /\ running /\ tail = GetPos
      /\ GetPos \in Nat /\ GetPos <= head /\ Size \in Nat
  BY Constants DEF WriterInv, Types, PutAtBoundary, Buffered, PutHeader, CanPut, Unlocked, Overhead
<1>2. f \in FrameType /\ f.first = head /\ f.len = HeaderLen + l
  BY <1>1 DEF NewFrame, FrameType
<1>3. /\ frames' = Append(frames, f) /\ head' = head + HeaderLen /\ putting' = l
      /\ head + HeaderLen + l - tail <= Size
      /\ UNCHANGED <<kind, tail, running, pc, m_PutPos, m_BufferOverflows, clearVars, localVars,
                     wireVars>>
  BY <1>1 DEF PutHeader, Free, Available
<1> HIDE DEF f
<1>4. Contiguous' /\ DiscardAtBoundary' /\ Place' /\ OnWire' /\ Dropped'
  BY <1>1, <1>2, <1>3, PutBehindThread DEF Unlocked
<1>5. frames' \in Seq(FrameType) /\ Boundary(m_PutPos)'
  <2>1. PICK n \in Nat : n \in DOMAIN frames' /\ frames'[n] = f /\ frames' \in Seq(FrameType)
    BY <1>1, <1>2, <1>3, FrameAppended DEF Unlocked
  <2>2. frames'[n].first = m_PutPos'
    BY <2>1, <1>1, <1>2, <1>3
  <2> QED
    BY <2>1, <2>2 DEF Boundary
<1>6. PutAtBoundary'
  BY <1>1, <1>3, <1>5 DEF PutAtBoundary
<1>8. Buffered'
  <2>1. UNCHANGED <<tail, running, pc, GetPos, Count>> /\ Count \in Nat
    BY <1>1, <1>3 DEF localVars, Types
  <2> QED
    BY <2>1, <1>1, <1>3 DEF Buffered
<1>7. Types'
  BY <1>1, <1>3, <1>5 DEF Types, clearVars, localVars, wireVars
<1> QED
  BY <1>4, <1>6, <1>7, <1>8 DEF WriterInv

LEMMA PutRawKeeps ==
  ASSUME WriterInv, NEW s \in {"sidVdr", "garbage"}, NEW l \in Lengths, PutRaw(s, l)
  PROVE  WriterInv'
<1> DEFINE f == NewFrame(s, l)
<1>1. /\ Types /\ Contiguous /\ PutAtBoundary /\ Buffered
      /\ head \in Nat /\ putting = 0 /\ m_PutPos = head /\ l \in Nat /\ l >= 1
      /\ Overhead = 0 /\ kind = "raw" /\ running /\ tail = GetPos
      /\ GetPos \in Nat /\ GetPos <= head /\ Size \in Nat
  BY Constants DEF WriterInv, Types, PutAtBoundary, Buffered, PutRaw, CanPut, Unlocked, Overhead
<1>2. f \in FrameType /\ f.first = head /\ f.len = l /\ f.stream # "sidControl"
  BY <1>1 DEF NewFrame, FrameType
<1>3. /\ frames' = Append(frames, f) /\ head' = head + l /\ putting' = 0
      /\ m_PutPos' = head + l /\ head + l - tail <= Size
      /\ UNCHANGED <<kind, tail, running, pc, clearVars, localVars, wireVars>>
  BY <1>1 DEF PutRaw, Free, Available
<1> HIDE DEF f
<1>4. Contiguous' /\ DiscardAtBoundary' /\ Place' /\ OnWire' /\ Dropped'
  BY <1>1, <1>2, <1>3, PutBehindThread DEF Unlocked
<1>5. frames' \in Seq(FrameType)
  BY <1>1, <1>2, <1>3, FrameAppended DEF Unlocked
<1>6. PutAtBoundary'
  BY <1>1, <1>3, <1>5 DEF PutAtBoundary, Boundary
<1>8. Buffered'
  <2>1. UNCHANGED <<tail, running, pc, GetPos, Count>> /\ Count \in Nat
    BY <1>1, <1>3 DEF localVars, Types
  <2> QED
    BY <2>1, <1>1, <1>3 DEF Buffered
<1>7. Types'
  BY <1>1, <1>3, <1>5 DEF Types, clearVars, localVars, wireVars
<1> QED
  BY <1>4, <1>6, <1>7, <1>8 DEF WriterInv

LEMMA PutPayloadKeeps ==
  ASSUME WriterInv, PutPayload
  PROVE  WriterInv'
<1>1. /\ Types /\ Contiguous /\ PutAtBoundary /\ Buffered
      /\ head \in Nat /\ putting \in Nat /\ putting > 0 /\ m_PutPos = head - HeaderLen
      /\ HeaderLen \in Nat /\ Overhead = HeaderLen /\ m_PutPos \in Nat /\ m_DiscardEnd \in Nat
      /\ GetPos \in Nat /\ Size \in Nat
  BY Constants DEF WriterInv, Types, PutAtBoundary, PutPayload, Overhead
<1>2. /\ frames' = frames /\ head' = head + putting /\ putting' = 0 /\ m_PutPos' = head + putting
      /\ UNCHANGED <<kind, tail, running, pc, clearVars, localVars, wireVars>>
  BY <1>1 DEF PutPayload
<1>3. head' + putting' = head + putting
  BY <1>1, <1>2
<1>4. Contiguous'
  BY <1>1, <1>2, <1>3, FramesKept
<1>5. DiscardAtBoundary' /\ Place'
  BY <1>1, <1>2, <1>3, DiscardKept, PlaceKept DEF clearVars, localVars, wireVars
<1>6. OnWire' /\ Dropped'
  BY <1>1, <1>2, WireKept DEF clearVars, localVars, wireVars
<1>7. PutAtBoundary'
  BY <1>1, <1>2 DEF PutAtBoundary, Boundary
<1>9. Buffered'
  <2>1. UNCHANGED <<tail, running, pc, GetPos, Count>> /\ Count \in Nat /\ tail \in Nat
    BY <1>1, <1>2 DEF localVars, Types
  <2> QED
    BY <2>1, <1>1, <1>2 DEF Buffered
<1>8. Types'
  BY <1>1, <1>2 DEF Types, clearVars, localVars, wireVars
<1> QED
  BY <1>4, <1>5, <1>6, <1>7, <1>8, <1>9 DEF WriterInv

(* A step that moves neither the producers nor the thread's position.      *)
LEMMA QuietKeeps ==
  ASSUME WriterInv,
         UNCHANGED <<kind, frames, head, putting, m_PutPos, m_DiscardEnd, StartPos, GetPos,
                     NextHeaderPos, wrote>>,
         pc' = "decide" => pc = "decide",
         pc' = "write" => pc = "write" /\ Count' = Count,
         Types', Buffered'
  PROVE  WriterInv'
<1>1. /\ Types /\ Contiguous /\ PutAtBoundary /\ m_PutPos \in Nat /\ m_DiscardEnd \in Nat
      /\ \A p \in Nat : Boundary(p)' <=> Boundary(p)
  BY FramesKept DEF WriterInv, Types
<1>2. Contiguous' /\ DiscardAtBoundary' /\ Place'
  BY <1>1, FramesKept, DiscardKept, PlaceKept
<1>3. OnWire' /\ Dropped'
  BY <1>1, WireKept
<1>4. PutAtBoundary'
  BY <1>1 DEF PutAtBoundary, Boundary
<1> QED
  BY <1>2, <1>3, <1>4 DEF WriterInv

LEMMA PutRefusedKeeps ==
  ASSUME WriterInv, NEW l \in Lengths, PutRefused(l)
  PROVE  WriterInv'
<1>1. /\ Types /\ Buffered /\ head \in Nat /\ tail \in Nat /\ Size \in Nat /\ putting = 0
  BY Constants DEF WriterInv, Types, PutRefused, CanPut, Unlocked
<1>2. /\ UNCHANGED <<kind, frames, head, putting, m_PutPos, m_DiscardEnd, StartPos, GetPos,
                     NextHeaderPos, Count, CorkReq, pc, wrote, corked>>
      /\ (tail' = head /\ running' = FALSE) \/ UNCHANGED <<tail, running>>
  BY DEF PutRefused, clearVars, localVars, wireVars
<1>3. Types'
  BY <1>1, <1>2 DEF Types
<1>4. Buffered'
  BY <1>1, <1>2 DEF Buffered
<1> QED
  BY <1>2, <1>3, <1>4, QuietKeeps

(* Clear(), and the raw writer's own decision to drop everything.          *)
LEMMA ClearKeeps ==
  ASSUME WriterInv, Clear \/ DropGarbage
  PROVE  WriterInv'
<1>1. /\ Types /\ Contiguous /\ PutAtBoundary /\ DiscardAtBoundary /\ Buffered
      /\ m_PutPos \in Nat /\ m_DiscardEnd \in Nat /\ StartPos \in Nat
      /\ \A p \in Nat : Boundary(p)' <=> Boundary(p)
  BY FramesKept DEF WriterInv, Types, Clear, DropGarbage, putVars
<1>2. /\ UNCHANGED <<kind, frames, head, putting, m_PutPos, StartPos, GetPos, tail, running,
                     NextHeaderPos, Count, CorkReq, wrote, corked>>
      /\ m_DiscardEnd' = m_PutPos /\ m_PutPos >= m_DiscardEnd
      /\ pc' = pc \/ pc' = "top"
  BY <1>1 DEF Clear, DropGarbage, putVars, localVars, wireVars, DiscardAtBoundary
<1>3. Types'
  BY <1>1, <1>2 DEF Types
<1>4. Buffered'
  BY <1>1, <1>2 DEF Buffered
<1>5. PutAtBoundary'
  BY <1>1, <1>2 DEF PutAtBoundary, Boundary
<1>6. DiscardAtBoundary'
  <2>1. Boundary(m_DiscardEnd)'
    BY <1>1, <1>2 DEF PutAtBoundary, Boundary
  <2>2. Boundary(StartPos)'
    BY <1>1, <1>2 DEF DiscardAtBoundary, Boundary
  <2> QED
    BY <2>1, <2>2, <1>1, <1>2 DEF DiscardAtBoundary
<1>7. Contiguous' /\ Place'
  BY <1>1, <1>2, FramesKept, PlaceKept
<1>8. OnWire' /\ Dropped'
  BY <1>1, <1>2, WireKept
<1> QED
  BY <1>3, <1>4, <1>5, <1>6, <1>7, <1>8 DEF WriterInv

LEMMA CancelKeeps ==
  ASSUME WriterInv, Cancel
  PROVE  WriterInv'
<1>1. Types /\ Buffered
  BY DEF WriterInv
<1>2. /\ UNCHANGED <<kind, frames, head, putting, m_PutPos, m_DiscardEnd, StartPos, GetPos,
                     NextHeaderPos, Count, CorkReq, pc, wrote, corked, tail>>
      /\ running' = FALSE
  BY DEF Cancel, putVars, clearVars, localVars, wireVars
<1>3. Types'
  BY <1>1, <1>2 DEF Types
<1>4. Buffered'
  BY <1>1, <1>2 DEF Buffered
<1> QED
  BY <1>2, <1>3, <1>4, QuietKeeps

-----------------------------------------------------------------------------
(* The thread, outside of the frames.                                      *)

LEMMA CorkKeeps ==
  ASSUME WriterInv, Cork
  PROVE  WriterInv'
<1>1. Types /\ Buffered
  BY DEF WriterInv
<1>2. /\ UNCHANGED <<kind, frames, head, putting, m_PutPos, m_DiscardEnd, StartPos, GetPos,
                     NextHeaderPos, Count, pc, wrote, tail, running>>
      /\ CorkReq' = FALSE /\ corked' = FALSE
  BY DEF Cork, putVars, clearVars
<1>3. Types'
  BY <1>1, <1>2 DEF Types
<1>4. Buffered'
  BY <1>1, <1>2 DEF Buffered
<1> QED
  BY <1>2, <1>3, <1>4, QuietKeeps

LEMMA PieceFits ==
  ASSUME NEW m \in Nat, m >= 1, NEW h \in Nat, NEW t \in Nat, NEW c \in m .. (h - t)
  PROVE  c \in Nat /\ c >= 1 /\ t + c <= h
OBVIOUS

LEMMA GetKeeps ==
  ASSUME WriterInv, Get
  PROVE  WriterInv'
<1>1. /\ Types /\ Buffered /\ head \in Nat /\ tail \in Nat /\ tail = GetPos
      /\ Margin \in Nat /\ Margin >= 1
  BY Constants DEF WriterInv, Get, Types, Buffered, Margin
<1>2. /\ UNCHANGED <<kind, frames, head, putting, m_PutPos, m_DiscardEnd, StartPos, GetPos,
                     NextHeaderPos, CorkReq, wrote, corked, tail, running>>
      /\ pc' = "got" /\ Count' \in Margin .. Available
  BY DEF Get, putVars, clearVars, wireVars
<1>5. Count' \in Nat /\ Count' >= 1 /\ tail + Count' <= head
  <2>1. Count' \in Margin .. (head - tail)
    BY <1>2 DEF Available
  <2> QED
    BY <2>1, <1>1, PieceFits
<1>3. Types'
  BY <1>1, <1>2, <1>5 DEF Types
<1>4. Buffered'
  BY <1>1, <1>2, <1>5 DEF Buffered
<1> QED
  BY <1>2, <1>3, <1>4, QuietKeeps

LEMMA ReadDiscardKeeps ==
  ASSUME WriterInv, ReadDiscard
  PROVE  WriterInv'
<1>1. /\ Types /\ Contiguous /\ PutAtBoundary /\ DiscardAtBoundary /\ Buffered
      /\ m_DiscardEnd \in Nat /\ \A p \in Nat : Boundary(p)' <=> Boundary(p)
  BY FramesKept DEF WriterInv, Types, ReadDiscard, putVars
<1>2. /\ UNCHANGED <<kind, frames, head, putting, m_PutPos, m_DiscardEnd, GetPos,
                     NextHeaderPos, Count, CorkReq, wrote, corked, tail, running>>
      /\ pc = "got" /\ pc' = "decide" /\ StartPos' = m_DiscardEnd
  BY DEF ReadDiscard, putVars, clearVars, wireVars
<1>3. Types'
  BY <1>1, <1>2 DEF Types
<1>4. Buffered'
  BY <1>1, <1>2 DEF Buffered
<1>5. PutAtBoundary'
  BY <1>1, <1>2 DEF PutAtBoundary, Boundary, Types
<1>6. DiscardAtBoundary'
  <2>1. Boundary(m_DiscardEnd)' /\ Boundary(StartPos)'
    BY <1>1, <1>2 DEF DiscardAtBoundary, Boundary
  <2> QED
    BY <2>1, <1>1, <1>2 DEF DiscardAtBoundary
<1>7. Contiguous' /\ Place'
  BY <1>1, <1>2, FramesKept, PlaceKept
<1>8. OnWire' /\ Dropped'
  BY <1>1, <1>2, WireKept
<1> QED
  BY <1>3, <1>4, <1>5, <1>6, <1>7, <1>8 DEF WriterInv

(* WriteAgain, Leave, Exit: nothing is taken out to be written.            *)
LEMMA LeaveKeeps ==
  ASSUME WriterInv, WriteAgain \/ Leave \/ Exit
  PROVE  WriterInv'
<1>1. /\ Types /\ Buffered /\ head \in Nat /\ Size \in Nat /\ putting \in Nat
  BY Constants DEF WriterInv, Types
<1>2. /\ UNCHANGED <<kind, frames, head, putting, m_PutPos, m_DiscardEnd, StartPos, GetPos,
                     NextHeaderPos, Count, CorkReq, wrote, corked>>
      /\ pc' \in {"top", "exit", "ended"}
      /\ (tail' = head /\ running' = FALSE) \/ UNCHANGED <<tail, running>>
  BY DEF WriteAgain, Leave, Exit, putVars, clearVars, localVars, wireVars
<1>3. Types'
  BY <1>1, <1>2 DEF Types
<1>4. Buffered'
  BY <1>1, <1>2 DEF Buffered
<1> QED
  BY <1>2, <1>3, <1>4, QuietKeeps

-----------------------------------------------------------------------------
(* The thread, within the frames.                                          *)

LEMMA FrameOfHeader ==
  ASSUME WriterInv, pc = "decide", Boundary(GetPos)
  PROVE  \E k \in DOMAIN frames : frames[k].first = GetPos /\ HeaderAt(GetPos) = frames[k]
<1>1. GetPos \in Nat /\ head \in Nat /\ GetPos < head
  BY DEF WriterInv, Types, Buffered
<1> QED
  BY <1>1, HeaderRead DEF WriterInv

(* At the beginning of a frame nothing of the frames behind is written.    *)
LEMMA NothingFromHere ==
  ASSUME WriterInv, AtBoundary, NEW i \in DOMAIN frames, NEW p \in Bytes(i), p >= GetPos
  PROVE  NothingOf(i)
<1>1. /\ p \in Nat /\ GetPos \in Nat /\ p \notin wrote
      /\ NothingOf(i) \/ AllOf(i) \/ BeginningOf(i)
  BY FrameFacts DEF WriterInv, Types, OnWire
<1>2. ~ AllOf(i)
  BY <1>1 DEF AllOf
<1>3. ~ BeginningOf(i)
  BY <1>1 DEF BeginningOf, AtBoundary
<1> QED
  BY <1>1, <1>2, <1>3

(* "drop only complete packets", or all the stream data in front of the    *)
(* discard point.                                                          *)
LEMMA DropFacts ==
  ASSUME WriterInv, pc = "decide"
  PROVE  /\ Droppable \in Nat
         /\ Droppable = 0 /\ AtBoundary => Boundary(GetPos)
         /\ Droppable > 0 =>
              /\ AtBoundary
              /\ Droppable <= Count /\ GetPos + Droppable <= StartPos
              /\ Boundary(GetPos + Droppable) \/ (kind = "raw" /\ GetPos + Droppable < StartPos)
              /\ \A i \in DOMAIN frames : \A p \in Bytes(i) :
                   GetPos <= p /\ p < GetPos + Droppable => frames[i].stream # "sidControl"
<1> DEFINE n == Min({Count, StartPos - GetPos})
           f == HeaderAt(GetPos)
<1>0. /\ Types /\ Contiguous /\ GetPos \in Nat /\ StartPos \in Nat /\ Count \in Nat
      /\ Count >= 1 /\ kind \in {"tcp", "raw"} /\ Place /\ Dropped
  BY DEF WriterInv, Types, Buffered
<1>1. n \in Int /\ n <= Count /\ n <= StartPos - GetPos /\ n \in {Count, StartPos - GetPos}
  BY <1>0, MinOfTwo
<1>2. MayDrop => n \in Nat /\ n >= 1
  BY <1>0, <1>1 DEF MayDrop
<1>3. Droppable = CASE MayDrop /\ kind = "raw" -> n
                    [] MayDrop /\ kind = "tcp" /\ f.stream = "sidVdr" /\ n >= f.len -> f.len
                    [] OTHER -> 0
  BY DEF Droppable
<1> HIDE DEF n
<1>4. AtBoundary /\ ~ (MayDrop /\ kind = "raw") => Boundary(GetPos)
  BY <1>0 DEF Place, AtBoundary, MayDrop
<1>5. CASE MayDrop /\ kind = "raw"
  <2>1. Droppable = n /\ n \in Nat /\ n >= 1 /\ AtBoundary
    BY <1>2, <1>3, <1>5 DEF MayDrop
  <2>2. Boundary(GetPos + n) \/ GetPos + n < StartPos
    <3>1. CASE n = StartPos - GetPos
      <4>1. GetPos + n = StartPos
        BY <3>1, <1>0
      <4> QED
        BY <4>1 DEF WriterInv, DiscardAtBoundary
    <3>2. CASE n # StartPos - GetPos
      BY <3>2, <1>0, <1>1
    <3> QED
      BY <3>1, <3>2
  <2>3. n <= Count /\ GetPos + n <= StartPos
    BY <2>1, <1>0, <1>1
  <2>4. \A i \in DOMAIN frames : frames[i].stream # "sidControl"
    BY <1>0, <1>5 DEF Dropped
  <2> QED
    <3>1. Droppable \in Nat /\ Droppable > 0 /\ AtBoundary
      BY <2>1
    <3>2. Droppable <= Count /\ GetPos + Droppable <= StartPos
      BY <2>1, <2>3
    <3>3. Boundary(GetPos + Droppable) \/ (kind = "raw" /\ GetPos + Droppable < StartPos)
      BY <2>1, <2>2, <1>5
    <3> QED
      BY <3>1, <3>2, <3>3, <2>4
<1>6. CASE MayDrop /\ kind = "tcp" /\ f.stream = "sidVdr" /\ n >= f.len
  <2>1. PICK k \in DOMAIN frames : frames[k].first = GetPos /\ f = frames[k]
    BY <1>4, <1>6, FrameOfHeader DEF MayDrop
  <2>2. /\ Droppable = frames[k].len /\ frames[k].len \in Nat /\ frames[k].len >= 1
        /\ GetPos + frames[k].len = End(k) /\ AtBoundary /\ frames[k].stream = "sidVdr"
        /\ n >= frames[k].len /\ Boundary(End(k)) /\ End(k) \in Nat
    BY <2>1, <1>0, <1>3, <1>6, FrameFacts DEF End, MayDrop, Contiguous
  <2>3. ASSUME NEW i \in DOMAIN frames, NEW p \in Bytes(i), GetPos <= p, p < End(k)
        PROVE  frames[i].stream # "sidControl"
    <3>1. i = k
      BY <2>1, <2>3, <1>0, FrameFacts, OneFrame
    <3> QED
      BY <3>1, <2>2
  <2> QED
    <3>1. GetPos + Droppable = End(k) /\ Droppable \in Nat /\ Droppable > 0
      BY <2>2
    <3>2. Droppable <= Count /\ End(k) <= StartPos
      BY <2>2, <1>0, <1>1, <1>6
    <3> QED
      BY <2>2, <2>3, <3>1, <3>2 DEF Bytes
<1>7. CASE ~ (MayDrop /\ kind = "raw")
           /\ ~ (MayDrop /\ kind = "tcp" /\ f.stream = "sidVdr" /\ n >= f.len)
  BY <1>3, <1>4, <1>7
<1> QED
  BY <1>5, <1>6, <1>7

LEMMA DropKeeps ==
  ASSUME WriterInv, Drop
  PROVE  WriterInv'
<1> DEFINE d == Droppable
<1>1. /\ Types /\ Contiguous /\ PutAtBoundary /\ DiscardAtBoundary /\ Buffered /\ Place
      /\ OnWire /\ Dropped
      /\ GetPos \in Nat /\ StartPos \in Nat /\ Count \in Nat /\ head \in Nat /\ tail \in Nat
      /\ putting \in Nat /\ Size \in Nat /\ m_PutPos \in Nat /\ m_DiscardEnd \in Nat
      /\ StartPos <= m_DiscardEnd /\ GetPos + Count <= head /\ wrote \subseteq Nat
      /\ kind \in {"tcp", "raw"}
  BY Constants DEF WriterInv, Types, DiscardAtBoundary, Buffered, Drop
<1>2. /\ d \in Nat /\ d > 0 /\ AtBoundary /\ d <= Count /\ GetPos + d <= StartPos
      /\ Boundary(GetPos + d) \/ (kind = "raw" /\ GetPos + d < StartPos)
      /\ \A i \in DOMAIN frames : \A p \in Bytes(i) :
           GetPos <= p /\ p < GetPos + d => frames[i].stream # "sidControl"
  BY DropFacts DEF Drop
<1>3. /\ UNCHANGED <<kind, frames, head, putting, m_PutPos, StartPos, running, m_DiscardEnd, Count,
                     wrote, corked>>
      /\ tail' = tail + d /\ GetPos' = GetPos + d /\ NextHeaderPos' = GetPos + d
      /\ CorkReq' \in BOOLEAN /\ pc' = "top"
  BY <1>1 DEF Drop, putVars, clearVars, wireVars, Types
<1> HIDE DEF d
<1>4. Contiguous' /\ DiscardAtBoundary' /\ \A p \in Nat : Boundary(p)' <=> Boundary(p)
  BY <1>1, <1>3, FramesKept, DiscardKept
<1>5. PutAtBoundary'
  BY <1>1, <1>3 DEF PutAtBoundary, Boundary
<1>6. Types'
  BY <1>1, <1>2, <1>3 DEF Types
<1>7. Buffered'
  BY <1>1, <1>2, <1>3 DEF Buffered
<1>8. Place'
  <2>1. Boundary(GetPos + d) => Boundary(GetPos)'
    BY <1>3 DEF Boundary
  <2> QED
    BY <2>1, <1>1, <1>2, <1>3 DEF Place
<1>9. ASSUME NEW i \in DOMAIN frames
      PROVE  /\ Bytes(i)' = Bytes(i)
             /\ NothingOf(i)' <=> NothingOf(i)
             /\ AllOf(i)' <=> AllOf(i)
             /\ ~ BeginningOf(i)
             /\ \A p \in Bytes(i) : p \in Nat
  <2>1. Bytes(i)' = Bytes(i)
    BY <1>3 DEF Bytes
  <2>2. \A p \in Bytes(i) : p \in Nat
    BY <1>1, FrameFacts
  <2>3. ~ BeginningOf(i)
    BY <1>1, <1>2, FrameFacts DEF BeginningOf, AtBoundary
  <2>4. NothingOf(i)' <=> NothingOf(i)
    BY <2>1, <1>3 DEF NothingOf
  <2>5. AllOf(i)' <=> AllOf(i)
    BY <2>1, <1>3 DEF AllOf
  <2> QED
    BY <2>1, <2>2, <2>3, <2>4, <2>5
<1>10. OnWire'
  <2>1. ASSUME NEW p \in wrote PROVE p < GetPos + d
    <3>1. p \in Nat /\ p < GetPos
      BY <1>1 DEF OnWire
    <3>2. GetPos \in Nat /\ d \in Nat
      BY <1>1, <1>2
    <3> QED
      BY <3>1, <3>2
  <2>2. \A i \in DOMAIN frames : NothingOf(i)' \/ AllOf(i)'
    BY <1>1, <1>9 DEF OnWire
  <2> QED
    BY <2>1, <2>2, <1>3 DEF OnWire
<1>11. Dropped'
  <2>1. ASSUME NEW i \in DOMAIN frames, NEW p \in Bytes(i), p < GetPos + d, p \notin wrote
        PROVE  p < m_DiscardEnd /\ frames[i].stream # "sidControl" /\ NothingOf(i)
    <3>1. CASE p < GetPos
      BY <3>1, <2>1, <1>1 DEF Dropped
    <3>2. CASE p >= GetPos
      BY <3>2, <2>1, <1>1, <1>2, <1>9, NothingFromHere
    <3> QED
      BY <3>1, <3>2, <1>1, <1>9
  <2> QED
    BY <2>1, <1>1, <1>3, <1>9 DEF Dropped
<1> QED
  BY <1>4, <1>5, <1>6, <1>7, <1>8, <1>10, <1>11 DEF WriterInv

LEMMA BeginFrameKeeps ==
  ASSUME WriterInv, BeginFrame
  PROVE  WriterInv'
<1>1. /\ Types /\ Contiguous /\ PutAtBoundary /\ DiscardAtBoundary /\ Buffered /\ Place
      /\ OnWire /\ Dropped /\ AtBoundary /\ Boundary(GetPos)
      /\ GetPos \in Nat /\ Count \in Nat /\ Count >= 1 /\ head \in Nat
      /\ GetPos + Count <= head /\ m_PutPos \in Nat
      /\ \A p \in Nat : Boundary(p)' <=> Boundary(p)
  <2>1. Boundary(GetPos)
    BY DropFacts DEF BeginFrame
  <2>2. head' + putting' = head + putting /\ frames' = frames
    BY DEF BeginFrame, putVars
  <2> QED
    BY <2>1, <2>2, FramesKept DEF WriterInv, Types, Buffered, BeginFrame
<1>2. PICK k \in DOMAIN frames : frames[k].first = GetPos /\ HeaderAt(GetPos) = frames[k]
  BY <1>1, FrameOfHeader DEF BeginFrame
<1>3. frames[k].len \in Nat /\ frames[k].len >= 1 /\ End(k) = GetPos + frames[k].len
  BY <1>1, <1>2, FrameFacts DEF End
<1>4. /\ UNCHANGED <<kind, frames, head, putting, m_PutPos, StartPos, running, m_DiscardEnd, tail,
                     GetPos, wrote, corked>>
      /\ Count' = Min({Count, frames[k].len}) /\ NextHeaderPos' = GetPos + frames[k].len
      /\ CorkReq' \in BOOLEAN /\ pc' = "write"
  BY <1>1, <1>2 DEF BeginFrame, putVars, clearVars, wireVars, Types
<1>5. Count' \in Nat /\ Count' >= 1 /\ Count' <= Count /\ Count' <= frames[k].len
  <2>1. Count \in Int /\ frames[k].len \in Int
    BY <1>1, <1>3
  <2>2. Count' \in {Count, frames[k].len} /\ Count' <= Count /\ Count' <= frames[k].len
    BY <2>1, <1>4, MinOfTwo
  <2> QED
    BY <2>2, <1>1, <1>3
<1>6. Types'
  BY <1>1, <1>3, <1>4, <1>5 DEF Types
<1>7. Buffered'
  BY <1>1, <1>4, <1>5 DEF Buffered
<1>8. Contiguous' /\ DiscardAtBoundary'
  BY <1>1, <1>4, FramesKept, DiscardKept
<1>9. PutAtBoundary'
  BY <1>1, <1>4 DEF PutAtBoundary, Boundary
<1>10. Place'
  <2>1. InFrame(k)'
    BY <1>1, <1>2, <1>3, <1>4 DEF InFrame, End
  <2> QED
    BY <2>1, <1>1, <1>3, <1>4, <1>5 DEF Place
<1>11. ASSUME NEW i \in DOMAIN frames
      PROVE  /\ Bytes(i)' = Bytes(i)
             /\ NothingOf(i)' <=> NothingOf(i)
             /\ AllOf(i)' <=> AllOf(i)
             /\ ~ BeginningOf(i)
  <2>1. Bytes(i)' = Bytes(i)
    BY <1>4 DEF Bytes
  <2>2. ~ BeginningOf(i)
    BY <1>1, FrameFacts DEF BeginningOf, AtBoundary
  <2>3. NothingOf(i)' <=> NothingOf(i)
    BY <2>1, <1>4 DEF NothingOf
  <2>4. AllOf(i)' <=> AllOf(i)
    BY <2>1, <1>4 DEF AllOf
  <2> QED
    BY <2>1, <2>2, <2>3, <2>4
<1>12. OnWire'
  BY <1>1, <1>4, <1>11 DEF OnWire
<1>13. Dropped'
  BY <1>1, <1>4, <1>11 DEF Dropped
<1> QED
  BY <1>6, <1>7, <1>8, <1>9, <1>10, <1>12, <1>13 DEF WriterInv

LEMMA ContinueFrameKeeps ==
  ASSUME WriterInv, ContinueFrame
  PROVE  WriterInv'
<1>1. /\ Types /\ Contiguous /\ PutAtBoundary /\ Buffered /\ Place
      /\ GetPos \in Nat /\ NextHeaderPos \in Nat /\ Count \in Nat /\ Count >= 1
      /\ GetPos + Count <= head /\ m_PutPos \in Nat /\ m_DiscardEnd \in Nat /\ head \in Nat
  BY DEF WriterInv, Types, Buffered, ContinueFrame
<1>2. PICK k \in DOMAIN frames : InFrame(k)
  BY <1>1 DEF Place, ContinueFrame, AtBoundary
<1>3. /\ UNCHANGED <<kind, frames, head, putting, m_PutPos, StartPos, running, m_DiscardEnd, tail,
                     GetPos, NextHeaderPos, CorkReq, wrote, corked>>
      /\ Count' = Min({Count, NextHeaderPos - GetPos}) /\ pc' = "write"
  BY DEF ContinueFrame, putVars, clearVars, wireVars
<1>4. GetPos < NextHeaderPos
  BY <1>2 DEF InFrame
<1>5. Count' \in Nat /\ Count' >= 1 /\ Count' <= Count /\ Count' <= NextHeaderPos - GetPos
  BY <1>1, <1>3, <1>4, MinOfTwo
<1>6. Types'
  BY <1>1, <1>3, <1>5 DEF Types
<1>7. Buffered'
  BY <1>1, <1>3, <1>5 DEF Buffered
<1>8. Contiguous' /\ DiscardAtBoundary'
  BY <1>1, <1>3, FramesKept, DiscardKept
<1>9. PutAtBoundary'
  BY <1>1, <1>3 DEF PutAtBoundary, Boundary
<1>10. Place'
  <2>1. InFrame(k)'
    BY <1>2, <1>3 DEF InFrame, End
  <2> QED
    BY <2>1, <1>1, <1>3, <1>4, <1>5 DEF Place
<1>11. OnWire' /\ Dropped'
  BY <1>1, <1>3, WireKept
<1> QED
  BY <1>6, <1>7, <1>8, <1>9, <1>10, <1>11 DEF WriterInv

LEMMA WriteSomeKeeps ==
  ASSUME WriterInv, NEW n \in Nat, n >= 1, WriteSome(n)
  PROVE  WriterInv'
<1>1. /\ Types /\ Contiguous /\ PutAtBoundary /\ Buffered /\ Place /\ OnWire /\ Dropped
      /\ GetPos \in Nat /\ NextHeaderPos \in Nat /\ Count \in Nat /\ tail \in Nat
      /\ GetPos + Count <= head /\ m_PutPos \in Nat /\ m_DiscardEnd \in Nat /\ head \in Nat
      /\ GetPos + Count <= NextHeaderPos /\ NextHeaderPos # GetPos
      /\ putting \in Nat /\ Size \in Nat /\ wrote \subseteq Nat
      /\ \A p \in wrote : p < GetPos
  BY Constants DEF WriterInv, Types, Buffered, Place, OnWire, WriteSome
<1>2. PICK k \in DOMAIN frames : InFrame(k)
  BY <1>1 DEF Place
<1> DEFINE new == GetPos .. GetPos + n - 1
<1>3. /\ UNCHANGED <<kind, frames, head, putting, m_PutPos, StartPos, running, m_DiscardEnd,
                     NextHeaderPos, Count, CorkReq>>
      /\ wrote' = wrote \cup new /\ corked' \in BOOLEAN
      /\ GetPos' = GetPos + n /\ tail' = tail + n /\ pc' = "top" /\ n <= Count
  BY <1>1 DEF WriteSome, putVars, clearVars, Types
<1>4. \A p : p \in new <=> p \in Nat /\ GetPos <= p /\ p < GetPos + n
  BY <1>1
<1> HIDE DEF new
<1>5. /\ frames[k].first \in Nat /\ frames[k].first <= GetPos /\ GetPos < End(k)
      /\ NextHeaderPos = End(k) /\ End(k) \in Nat /\ GetPos + n <= End(k) /\ Boundary(End(k))
      /\ \A p \in Nat : frames[k].first <= p /\ p < GetPos => p \in wrote
  BY <1>1, <1>2, <1>3, FrameFacts DEF InFrame, Contiguous
<1>6. Types'
  <2>1. wrote' \subseteq Nat
    BY <1>1, <1>3, <1>4
  <2>2. GetPos' \in Nat /\ tail' \in Nat
    BY <1>1, <1>3
  <2> QED
    BY <2>1, <2>2, <1>1, <1>3 DEF Types
<1>7. Buffered'
  BY <1>1, <1>3 DEF Buffered
<1>8. Contiguous' /\ DiscardAtBoundary'
  BY <1>1, <1>3, FramesKept, DiscardKept
<1>9. PutAtBoundary'
  BY <1>1, <1>3 DEF PutAtBoundary, Boundary
<1>10. \A p \in Nat : frames[k].first <= p /\ p < GetPos + n => p \in wrote'
  BY <1>1, <1>3, <1>4, <1>5
<1>11. Place'
  <2>1. CASE GetPos + n = NextHeaderPos
    <3>1. Boundary(GetPos)'
      BY <2>1, <1>3, <1>5 DEF Boundary
    <3> QED
      BY <3>1, <2>1, <1>3 DEF Place
  <2>2. CASE GetPos + n # NextHeaderPos
    <3>1. InFrame(k)'
      BY <2>2, <1>1, <1>3, <1>5, <1>10 DEF InFrame, End
    <3> QED
      BY <3>1, <2>2, <1>3 DEF Place
  <2> QED
    BY <2>1, <2>2
<1>12. ASSUME NEW i \in DOMAIN frames
       PROVE  /\ Bytes(i)' = Bytes(i) /\ End(i)' = End(i)
              /\ \A p : p \in Bytes(i) <=> p \in Nat /\ frames[i].first <= p /\ p < End(i)
  BY <1>1, <1>3, FrameFacts DEF Bytes, End
<1>13. ASSUME NEW i \in DOMAIN frames, i # k
       PROVE  \A p \in Bytes(i) : p \in wrote' <=> p \in wrote
  <2>1. ASSUME NEW p \in Bytes(i), p \in new PROVE FALSE
    BY <2>1, <1>1, <1>4, <1>5, <1>12, <1>13, OneFrame
  <2> QED
    BY <2>1, <1>3
<1>14. ASSUME NEW i \in DOMAIN frames, i # k
       PROVE  NothingOf(i)' \/ AllOf(i)'
  <2>1. ~ BeginningOf(i)
    BY <1>1, <1>5, <1>12, <1>14, OneFrame, FrameFacts DEF BeginningOf
  <2>2. NothingOf(i) => NothingOf(i)'
    BY <1>12, <1>13, <1>14 DEF NothingOf
  <2>3. AllOf(i) => AllOf(i)'
    BY <1>12, <1>13, <1>14 DEF AllOf
  <2> QED
    BY <2>1, <2>2, <2>3, <1>1 DEF OnWire
<1>15. AllOf(k)' \/ BeginningOf(k)'
  <2>1. CASE GetPos + n = End(k)
    BY <2>1, <1>10, <1>12 DEF AllOf
  <2>2. CASE GetPos + n # End(k)
    <3>1. \A p \in wrote' : p < GetPos + n
      BY <1>1, <1>3, <1>4
    <3> QED
      BY <2>2, <3>1, <1>1, <1>3, <1>5, <1>10, <1>12 DEF BeginningOf
  <2> QED
    BY <2>1, <2>2
<1>16. OnWire'
  <2>1. \A p \in wrote' : p < GetPos'
    BY <1>1, <1>3, <1>4
  <2> QED
    BY <2>1, <1>3, <1>14, <1>15 DEF OnWire
<1>17. Dropped'
  <2>1. ASSUME NEW i \in DOMAIN frames, NEW p \in Bytes(i), p < GetPos + n, p \notin wrote'
        PROVE  p < m_DiscardEnd /\ frames[i].stream # "sidControl" /\ NothingOf(i)'
    <3>1. p \in Nat /\ p < GetPos /\ p \notin wrote
      BY <2>1, <1>1, <1>3, <1>4, <1>12
    <3>2. i # k
      BY <3>1, <1>5, <1>12
    <3>3. p < m_DiscardEnd /\ frames[i].stream # "sidControl" /\ NothingOf(i)
      BY <3>1, <1>1 DEF Dropped
    <3> QED
      BY <3>2, <3>3, <1>12, <1>13 DEF NothingOf
  <2> QED
    BY <2>1, <1>1, <1>3, <1>12 DEF Dropped
<1> QED
  BY <1>6, <1>7, <1>8, <1>9, <1>11, <1>16, <1>17 DEF WriterInv

-----------------------------------------------------------------------------
LEMMA WriterInvNext == WriterInv /\ [Next]_vars => WriterInv'
<1> SUFFICES ASSUME WriterInv, [Next]_vars PROVE WriterInv'
  OBVIOUS
<1>1. ASSUME NEW l \in Lengths, NEW s \in {"sidVdr", "sidControl"}, PutHeader(s, l)
      PROVE  WriterInv'
  BY <1>1, PutHeaderKeeps
<1>2. ASSUME NEW l \in Lengths, NEW s \in {"sidVdr", "garbage"}, PutRaw(s, l) PROVE WriterInv'
  BY <1>2, PutRawKeeps
<1>3. ASSUME NEW l \in Lengths, PutRefused(l) PROVE WriterInv'
  BY <1>3, PutRefusedKeeps
<1>4. CASE PutPayload
  BY <1>4, PutPayloadKeeps
<1>5. CASE Clear \/ DropGarbage
  BY <1>5, ClearKeeps
<1>6. CASE Cancel
  BY <1>6, CancelKeeps
<1>7. CASE Cork
  BY <1>7, CorkKeeps
<1>8. CASE Get
  BY <1>8, GetKeeps
<1>9. CASE ReadDiscard
  BY <1>9, ReadDiscardKeeps
<1>10. CASE Drop
  BY <1>10, DropKeeps
<1>11. CASE BeginFrame
  BY <1>11, BeginFrameKeeps
<1>12. CASE ContinueFrame
  BY <1>12, ContinueFrameKeeps
<1>13. CASE WriteAny
  BY <1>13, WriteLength, WriteSomeKeeps DEF WriteAny
<1>14. CASE WriteAgain \/ Leave \/ Exit
  BY <1>14, LeaveKeeps
<1>15. CASE UNCHANGED vars
  <2>1. /\ UNCHANGED <<kind, frames, head, putting, m_PutPos, m_DiscardEnd, StartPos, GetPos,
                       NextHeaderPos, Count, CorkReq, wrote, corked, pc, tail, running>>
        /\ Types /\ Buffered
    BY <1>15 DEF vars, putVars, clearVars, localVars, wireVars, WriterInv
  <2>2. Types'
    BY <2>1 DEF Types
  <2>3. Buffered'
    BY <2>1 DEF Buffered
  <2> QED
    BY <2>1, <2>2, <2>3, QuietKeeps
<1> QED
  BY <1>1, <1>2, <1>3, <1>4, <1>5, <1>6, <1>7, <1>8, <1>9, <1>10, <1>11, <1>12, <1>13, <1>14,
     <1>15 DEF Next, Producer, Thread

LEMMA WriterInvHolds == Spec => []WriterInv
BY WriterInvInit, WriterInvNext, PTL DEF Spec

-----------------------------------------------------------------------------
(* The counters of the writer keep their order: nothing is taken that has  *)
(* not been put, and what is put behind the margin check fits the buffer.  *)
THEOREM TypeCorrect == Spec => []TypeOK
<1>1. WriterInv => TypeOK
  <2> SUFFICES ASSUME WriterInv PROVE TypeOK
    OBVIOUS
  <2>1. /\ Types /\ Buffered /\ head \in Nat /\ tail \in Nat /\ putting \in Nat
        /\ m_PutPos \in 0 .. head /\ m_DiscardEnd \in 0 .. m_PutPos /\ Size \in Nat
        /\ GetPos \in 0 .. head
    BY Constants DEF WriterInv, Types, PutAtBoundary, DiscardAtBoundary, Buffered
  <2>2. Available <= Size
    BY <2>1 DEF Available, Buffered
  <2> QED
    BY <2>1, <2>2 DEF TypeOK, Types
<1> QED
  BY <1>1, WriterInvHolds, PTL

(* What cTcpWriter and cRawWriter send is a sequence of frames, each of    *)
(* them whole but the one being sent and the one the connection ended in.  *)
THEOREM FramesStayWhole == Spec => []WholeFrames
<1>1. WriterInv => WholeFrames
  <2> SUFFICES ASSUME WriterInv, NEW i \in DOMAIN frames, Bytes(i) \cap wrote # {}
               PROVE  /\ Bytes(i) \cap wrote = frames[i].first .. Max(Bytes(i) \cap wrote)
                      /\ \/ Bytes(i) \cap wrote = Bytes(i)
                         \/ \A j \in i + 1 .. Len(frames) : Bytes(j) \cap wrote = {}
    BY DEF WholeFrames
  <2> DEFINE w == Bytes(i) \cap wrote
  <2>1. /\ Types /\ Contiguous /\ OnWire /\ GetPos \in Nat /\ frames[i].first \in Nat
        /\ End(i) \in Nat /\ frames[i].first < End(i)
        /\ \A p : p \in Bytes(i) <=> p \in Nat /\ frames[i].first <= p /\ p < End(i)
    BY FrameFacts DEF WriterInv, Types
  <2>2. AllOf(i) \/ BeginningOf(i)
    BY <2>1 DEF OnWire, NothingOf
  <2>3. ASSUME NEW e \in Nat, frames[i].first < e,
               \A p : p \in w <=> p \in Nat /\ frames[i].first <= p /\ p < e
        PROVE  w = frames[i].first .. Max(w)
    <3>1. e - 1 \in w /\ \A y \in w : e - 1 >= y
      BY <2>1, <2>3
    <3> HIDE DEF w
    <3>2. Max(w) \in w /\ \A y \in w : Max(w) >= y
      BY <3>1 DEF Max
    <3>3. Max(w) = e - 1
      BY <3>1, <3>2, <2>3, <2>1
    <3> QED
      <4>1. \A p : p \in frames[i].first .. (e - 1) <=> p \in Nat /\ frames[i].first <= p /\ p < e
        BY <2>1, <2>3
      <4>2. w = frames[i].first .. (e - 1)
        BY <4>1, <2>3
      <4> QED
        BY <4>2, <3>3
  <2>4. CASE AllOf(i)
    <3>1. w = Bytes(i)
      BY <2>4 DEF AllOf
    <3> QED
      BY <3>1, <2>1, <2>3
  <2>5. CASE BeginningOf(i)
    <3>1. \A p : p \in w <=> p \in Nat /\ frames[i].first <= p /\ p < GetPos
      BY <2>1, <2>5 DEF BeginningOf
    <3>2. w = frames[i].first .. Max(w)
      BY <3>1, <2>1, <2>3, <2>5 DEF BeginningOf
    <3>3. ASSUME NEW j \in i + 1 .. Len(frames), NEW p \in Bytes(j), p \in wrote PROVE FALSE
      <4>1. j \in DOMAIN frames /\ i < j
        BY <2>1, FrameFacts
      <4>2. p \in Nat /\ p >= End(i) /\ p < GetPos
        BY <4>1, <3>3, <2>1, FrameFacts DEF Contiguous, OnWire
      <4> QED
        BY <4>2, <2>1, <2>5 DEF BeginningOf
    <3> QED
      BY <3>2, <3>3
  <2> QED
    BY <2>2, <2>4, <2>5
<1> QED
  BY <1>1, WriterInvHolds, PTL

(* As long as the writer runs, only whole frames of stream data that were  *)
(* put before a Clear() leave the buffer without being sent.               *)
THEOREM OnlyClearedAreDropped == Spec => []OnlyClearedDropped
<1>1. WriterInv => OnlyClearedDropped
  <2> SUFFICES ASSUME WriterInv, running, NEW i \in DOMAIN frames, NEW p \in Bytes(i),
                      p < tail, p \notin wrote
               PROVE  /\ p < m_DiscardEnd
                      /\ frames[i].stream # "sidControl"
                      /\ Bytes(i) \cap wrote = {}
    BY DEF OnlyClearedDropped
  <2>1. p < m_DiscardEnd /\ frames[i].stream # "sidControl" /\ NothingOf(i)
    BY DEF WriterInv, Dropped, Buffered
  <2> QED
    BY <2>1 DEF NothingOf
<1> QED
  BY <1>1, WriterInvHolds, PTL
=============================================================================
