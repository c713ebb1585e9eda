--------------------------- MODULE UdpLinkProofs ---------------------------
(***************************************************************************)
(* Proofs about UdpLink, for rings of any size, payloads of any length, a  *)
(* network that loses and reorders any number of packets, and any limits   *)
(* of the re-transmission.                                                 *)
(***************************************************************************)
EXTENDS UdpLink, FiniteSetTheorems, SequenceTheorems, WellFoundedInduction, TLAPS

-----------------------------------------------------------------------------
(* Arithmetic of sequence numbers, and the least element of a set.         *)

LEMMA ModInSlots == \A a \in Int : a % SeqSize \in Slots
  BY SeqSizeAssumption DEF Slots

LEMMA NextSeqInSlots == \A s \in Slots : NextSeq(s) \in Slots
<1> TAKE s \in Slots
<1>1. s + 1 \in Int
  BY DEF Slots
<1>2. (s + 1) % SeqSize \in Slots
  BY ONLY <1>1, ModInSlots
<1> QED
  BY ONLY <1>2 DEF NextSeq

LEMMA AddSeqInSlots == \A s \in Slots, n \in Int : AddSeq(s, n) \in Slots
  BY ModInSlots, SeqSizeAssumption DEF AddSeq, Slots

(* A sum of three slot numbers wraps at most twice.                        *)
LEMMA ModSplit ==
  \A a \in 0 .. 3 * SeqSize - 1 :
    a % SeqSize = IF a < SeqSize THEN a
                  ELSE IF a < 2 * SeqSize THEN a - SeqSize ELSE a - 2 * SeqSize
  BY SeqSizeAssumption

LEMMA AddZero == \A s \in Slots : AddSeq(s, 0) = s
  BY ModSplit, SeqSizeAssumption DEF AddSeq, Slots

(* Every slot is reached from every other one.                             *)
LEMMA AllReached ==
  ASSUME NEW s \in Slots, NEW t \in Slots
  PROVE  \E k \in Slots : AddSeq(s, k) = t
<1>1. CASE t >= s
  <2>1. t - s \in Slots /\ AddSeq(s, t - s) = t
    BY <1>1, ModSplit, SeqSizeAssumption DEF AddSeq, Slots
  <2> QED
    BY <2>1
<1>2. CASE t < s
  <2>1. t - s + SeqSize \in Slots /\ AddSeq(s, t - s + SeqSize) = t
    BY <1>2, ModSplit, SeqSizeAssumption DEF AddSeq, Slots
  <2> QED
    BY <2>1
<1> QED
  BY <1>1, <1>2 DEF Slots

LEMMA LeastOfNat ==
  ASSUME NEW S \in SUBSET Nat, S # {}
  PROVE  Min(S) \in S /\ \A y \in S : Min(S) <= y
<1>1. IsWellFoundedOn(OpToRel(<, Nat), Nat)
  BY NatLessThanWellFounded
<1>2. PICK x \in S : \A y \in S : ~ (<<y, x>> \in OpToRel(<, Nat))
  BY <1>1, WFMin
<1>3. \A y \in S : ~ (y < x)
  BY <1>2 DEF OpToRel
<1>4. \A y \in S : x <= y
  BY <1>3
<1> QED
  BY <1>4 DEF Min

-----------------------------------------------------------------------------
(* The client's queue.                                                     *)

Markers == [stream : {"missing"}, pos : Int, len : {0}]

(* A client whose queue holds frames of F.                                 *)
Udp(F) == [queue : [Slots -> F \cup {NoFrame}], queue_input_pos : Int, queued : Nat,
           next_seq : Slots, current_seq : Slots, is_padding : BOOLEAN, started : BOOLEAN,
           resend_requested : Slots]

Counted(u) == u.queued = Cardinality(Occupied(u))

(* What arrives: a frame, or the marker of a report.                       *)
Arriving == Frame \cup Markers

LEMMA NotEmpty == NoFrame \notin Arriving
  BY DEF Arriving, NoFrame, Frame, Streams, Markers

LEMMA ArrivingFields ==
  ASSUME NEW f \in Arriving
  PROVE  f.pos \in Int /\ f.len \in Nat
  BY DEF Arriving, Frame, Markers

LEMMA LinkConstants ==
  /\ SeqSize \in Nat /\ SeqSize >= 2 /\ PadLen \in Nat /\ PadLen >= 1 /\ FrameLen \in Nat
  /\ CtrlLen \in Nat /\ MaxReq \in Nat /\ StartSeq \in Slots /\ Window \in Nat
  /\ HalfRange \in Nat /\ 0 \in Slots
  BY LinkAssumption, SeqSizeAssumption, PadLenAssumption DEF Window, HalfRange, Slots

LEMMA OccupiedFinite ==
  ASSUME NEW u
  PROVE  /\ Occupied(u) \subseteq Slots /\ IsFiniteSet(Occupied(u))
         /\ Cardinality(Occupied(u)) \in Nat
<1>1. IsFiniteSet(Slots)
  BY FS_Interval, LinkConstants DEF Slots
<1>2. Occupied(u) \in SUBSET Slots
  BY DEF Occupied
<1> QED
  BY <1>1, <1>2, FS_Subset, FS_CardinalityType

(* The loops that skip missing frames end, at a frame.                     *)
LEMMA SomewhereAhead ==
  ASSUME NEW u, NEW s \in Slots, Occupied(u) # {}
  PROVE  /\ DistanceToFrame(u, s) \in Slots
         /\ u.queue[AddSeq(s, DistanceToFrame(u, s))] # NoFrame
         /\ u.queue[s] # NoFrame => DistanceToFrame(u, s) = 0
<1> DEFINE S == {k \in Slots : u.queue[AddSeq(s, k)] # NoFrame}
<1>1. PICK t \in Slots : u.queue[t] # NoFrame
  BY DEF Occupied
<1>2. S \in SUBSET Nat /\ S # {}
  <2>1. PICK k \in Slots : AddSeq(s, k) = t
    BY AllReached
  <2>2. k \in S
    BY <1>1, <2>1
  <2> QED
    BY <2>2, LinkConstants DEF Slots
<1>3. Min(S) \in S /\ \A y \in S : Min(S) <= y
  BY <1>2, LeastOfNat
<1>4. DistanceToFrame(u, s) = Min(S)
  BY DEF DistanceToFrame
<1>5. u.queue[s] # NoFrame => Min(S) = 0
  <2>1. u.queue[s] # NoFrame => 0 \in S
    BY AddZero, LinkConstants
  <2> HIDE DEF S
  <2>2. Min(S) \in Nat
    BY <1>2, <1>3
  <2> QED
    BY <2>1, <2>2, <1>3
<1> QED
  BY <1>3, <1>4, <1>5

LEMMA QueuedSomewhere ==
  ASSUME NEW F, NEW u \in Udp(F), Counted(u), u.queued > 0
  PROVE  Occupied(u) # {}
  BY FS_EmptySet DEF Counted, Udp

LEMMA QueuedAtAll ==
  ASSUME NEW F, NEW u \in Udp(F), Counted(u), NEW s \in Slots, u.queue[s] # NoFrame
  PROVE  u.queued > 0
<1>1. Occupied(u) # {}
  BY DEF Occupied
<1>2. IsFiniteSet(Occupied(u)) /\ Cardinality(Occupied(u)) \in Nat
  BY OccupiedFinite
<1>3. Cardinality(Occupied(u)) # 0
  BY <1>1, <1>2, FS_EmptySet
<1> QED
  BY <1>2, <1>3 DEF Counted

(* Skipping moves next_seq only, and not when it is at a frame.            *)
Skipped(u, v) ==
  /\ v.queue = u.queue /\ v.queued = u.queued
  /\ v.queued > 0 /\ u.queue[u.next_seq] # NoFrame => v.next_seq = u.next_seq

LEMMA SkipFacts ==
  ASSUME NEW F, NEW u \in Udp(F), Counted(u), u.queued > 0
  PROVE  /\ SkipMissing(u) \in Udp(F) /\ Counted(SkipMissing(u)) /\ Skipped(u, SkipMissing(u))
<1> DEFINE v == SkipMissing(u)
<1>1. u.next_seq \in Slots
  BY DEF Udp
<1>2. /\ DistanceToFrame(u, u.next_seq) \in Slots
      /\ u.queue[u.next_seq] # NoFrame => DistanceToFrame(u, u.next_seq) = 0
  BY <1>1, QueuedSomewhere, SomewhereAhead
<1>3. AddSeq(u.next_seq, DistanceToFrame(u, u.next_seq)) \in Slots
  BY <1>1, <1>2, AddSeqInSlots DEF Slots
<1>4. v = [u EXCEPT !.next_seq = AddSeq(u.next_seq, DistanceToFrame(u, u.next_seq))]
  BY DEF SkipMissing
<1> HIDE DEF v
<1>5. /\ v \in Udp(F) /\ v.queue = u.queue /\ v.queued = u.queued
      /\ v.next_seq = AddSeq(u.next_seq, DistanceToFrame(u, u.next_seq))
  BY <1>3, <1>4 DEF Udp
<1>6. Counted(v)
  BY <1>5 DEF Counted, Occupied
<1>7. Skipped(u, v)
  BY <1>1, <1>2, <1>5, AddZero DEF Skipped
<1> QED
  BY <1>5, <1>6, <1>7 DEF v

LEMMA PaddingFacts ==
  ASSUME NEW F, NEW u \in Udp(F), Counted(u)
  PROVE  /\ FlushOnPadding(u) \in Udp(F) /\ Counted(FlushOnPadding(u))
         /\ Skipped(u, FlushOnPadding(u))
<1>1. CASE u.is_padding /\ u.queued > 0
  BY <1>1, SkipFacts DEF FlushOnPadding
<1>2. CASE ~ (u.is_padding /\ u.queued > 0)
  BY <1>2 DEF FlushOnPadding, Skipped
<1> QED
  BY <1>1, <1>2

(* A frame is taken out of the queue and of the count.                     *)
LEMMA TakeFacts ==
  ASSUME NEW F, F \subseteq Arriving, NEW u \in Udp(F), Counted(u), u.queue[u.next_seq] # NoFrame
  PROVE  /\ TakeHead(u) \in Udp(F) /\ Counted(TakeHead(u))
         /\ TakeHead(u).queue = [u.queue EXCEPT ![u.next_seq] = NoFrame]
<1> DEFINE s == u.next_seq
           f == u.queue[s]
           left == IF u.resend_requested > 0 THEN u.resend_requested - 1 ELSE 0
           q == [u.queue EXCEPT ![s] = NoFrame]
           v == [u EXCEPT !.queue[u.next_seq]  = NoFrame,
                          !.queue_input_pos    = f.pos + f.len,
                          !.queued             = @ - 1,
                          !.next_seq           = NextSeq(@),
                          !.resend_requested   = IF @ > 0 THEN @ - 1 ELSE 0]
<1>1. /\ s \in Slots /\ f \in F /\ f.pos + f.len \in Int
      /\ u.queued \in Nat /\ u.queued > 0 /\ q \in [Slots -> F \cup {NoFrame}]
  BY ArrivingFields, QueuedAtAll DEF Udp
<1>2. NextSeq(s) \in Slots
  BY ONLY <1>1, NextSeqInSlots
<1>3. left \in Slots
  BY LinkConstants DEF Slots, Udp
<1>4. /\ v.queue = q /\ v.queued = u.queued - 1
      /\ v \in Udp(F)
  <2> DEFINE v1 == [u EXCEPT !.queue = q]
             v2 == [v1 EXCEPT !.queue_input_pos = f.pos + f.len]
             v3 == [v2 EXCEPT !.queued = u.queued - 1]
             v4 == [v3 EXCEPT !.next_seq = NextSeq(s)]
             v5 == [v4 EXCEPT !.resend_requested = left]
  <2>1. v = v5
    BY DEF Udp
  <2> HIDE DEF v, q, f, left, s
  <2>2. v1 \in Udp(F) /\ v1.queue = q
    BY <1>1 DEF Udp
  <2> HIDE DEF v1
  <2>3. v2 \in Udp(F) /\ v2.queue = q
    BY <2>2, <1>1 DEF Udp
  <2> HIDE DEF v2
  <2>4. v3 \in Udp(F) /\ v3.queue = q /\ v3.queued = u.queued - 1
    BY <2>3, <1>1 DEF Udp
  <2> HIDE DEF v3
  <2>5. v4 \in Udp(F) /\ v4.queue = q /\ v4.queued = u.queued - 1
    BY <2>4, <1>2 DEF Udp
  <2> HIDE DEF v4
  <2>6. v5 \in Udp(F) /\ v5.queue = q /\ v5.queued = u.queued - 1
    BY <2>5, <1>3 DEF Udp
  <2> QED
    BY <2>1, <2>6
<1>5. Occupied(v) = Occupied(u) \ {s} /\ s \in Occupied(u)
  BY <1>1, <1>4 DEF Occupied, Udp
<1>6. Counted(v)
  BY <1>4, <1>5, OccupiedFinite, FS_RemoveElement DEF Counted
<1>7. TakeHead(u) = FlushOnPadding(v)
  BY DEF TakeHead
<1> HIDE DEF v
<1> QED
  BY <1>4, <1>6, <1>7, PaddingFacts DEF Skipped

LEMMA EnterFacts ==
  ASSUME NEW F, NEW u \in Udp(F), Counted(u)
  PROVE  /\ EnterQueue(u) \in Udp(F) /\ Counted(EnterQueue(u)) /\ Skipped(u, EnterQueue(u))
<1> DEFINE v == [SkipMissing(u) EXCEPT !.resend_requested = 0]
<1>1. CASE u.queued > Window
  <2>1. u.queued > 0
    BY <1>1, LinkConstants DEF Udp
  <2>2. /\ SkipMissing(u) \in Udp(F) /\ Counted(SkipMissing(u)) /\ Skipped(u, SkipMissing(u))
    BY <2>1, SkipFacts
  <2>3. /\ v \in Udp(F) /\ v.queue = SkipMissing(u).queue /\ v.queued = SkipMissing(u).queued
        /\ v.next_seq = SkipMissing(u).next_seq
    BY <2>2, LinkConstants DEF Udp
  <2>4. Counted(v) /\ Skipped(u, v)
    BY <2>2, <2>3 DEF Counted, Occupied, Skipped
  <2>5. EnterQueue(u) = FlushOnPadding(v)
    BY <1>1 DEF EnterQueue
  <2> HIDE DEF v
  <2> QED
    BY <2>3, <2>4, <2>5, PaddingFacts DEF Skipped
<1>2. CASE ~ (u.queued > Window)
  BY <1>2, PaddingFacts DEF EnterQueue
<1> QED
  BY <1>1, <1>2

(* udp_process_queue() only takes frames out, and the one at next_seq      *)
(* first.                                                                  *)
LEMMA ProcessFacts ==
  ASSUME NEW F, F \subseteq Arriving, NEW u \in Udp(F), Counted(u)
  PROVE  LET v == ProcessQueue(u).udp IN
         /\ v \in Udp(F) /\ Counted(v)
         /\ \A s \in Slots : v.queue[s] \in {u.queue[s], NoFrame}
         /\ v.queue[u.next_seq] = NoFrame
<1> DEFINE u1 == EnterQueue(u)
           f1 == HeadFrame(u1)
           u2 == TakeHead(u1)
           f2 == HeadFrame(u2)
           v == ProcessQueue(u).udp
<1>1. /\ u1 \in Udp(F) /\ Counted(u1) /\ u1.queue = u.queue /\ u1.queued = u.queued
      /\ u1.queued > 0 /\ u.queue[u.next_seq] # NoFrame => u1.next_seq = u.next_seq
  BY EnterFacts DEF Skipped
<1>2. f1 # NoFrame => /\ u1.queue[u1.next_seq] # NoFrame
                      /\ f1 = u1.queue[u1.next_seq]
  BY DEF HeadFrame
<1>3. f1 = NoFrame => u.queue[u.next_seq] = NoFrame
  <2> SUFFICES ASSUME u.queue[u.next_seq] # NoFrame PROVE f1 # NoFrame
    OBVIOUS
  <2>1. u.queued > 0
    BY QueuedAtAll DEF Udp
  <2> QED
    BY <2>1, <1>1 DEF HeadFrame
<1>4. f1 # NoFrame =>
        /\ u2 \in Udp(F) /\ Counted(u2)
        /\ u2.queue = [u1.queue EXCEPT ![u1.next_seq] = NoFrame]
  BY <1>1, <1>2, TakeFacts
<1>5. f1 # NoFrame /\ f2 # NoFrame =>
        /\ TakeHead(u2) \in Udp(F) /\ Counted(TakeHead(u2))
        /\ TakeHead(u2).queue = [u2.queue EXCEPT ![u2.next_seq] = NoFrame]
  BY <1>4, TakeFacts DEF HeadFrame
<1>6. f1 # NoFrame => f1.len \in Nat
  BY <1>1, <1>2, ArrivingFields DEF Udp
<1>7. \/ f1 = NoFrame /\ v = u1
      \/ f1 # NoFrame /\ v = u2
      \/ f1 # NoFrame /\ f2 # NoFrame /\ v = TakeHead(u2)
  <2>1. NoFrame.len = 0
    BY DEF NoFrame
  <2>2. CASE f1 = NoFrame
    BY <2>1, <2>2 DEF ProcessQueue, IsMarker
  <2>3. CASE f1 # NoFrame /\ f1.len > 0
    BY <2>1, <2>3 DEF ProcessQueue, IsMarker
  <2>4. CASE f1 # NoFrame /\ f1.len = 0
    BY <2>1, <2>4 DEF ProcessQueue, IsMarker
  <2> QED
    BY <2>2, <2>3, <2>4, <1>6
<1> HIDE DEF u1, f1, u2, f2, v
<1>8. CASE f1 = NoFrame /\ v = u1
  BY <1>1, <1>3, <1>8 DEF v
<1>9. ASSUME f1 # NoFrame
      PROVE  /\ \A s \in Slots : u2.queue[s] \in {u.queue[s], NoFrame}
             /\ u2.queue[u.next_seq] = NoFrame
  <2>1. \A s \in Slots : u2.queue[s] = IF s = u1.next_seq THEN NoFrame ELSE u.queue[s]
    BY <1>1, <1>4, <1>9 DEF Udp
  <2>2. u1.next_seq = u.next_seq \/ u.queue[u.next_seq] = NoFrame
    <3>1. u1.queue[u1.next_seq] # NoFrame /\ u1.next_seq \in Slots
      BY <1>1, <1>2, <1>9 DEF Udp
    <3>2. u1.queued > 0
      BY <3>1, <1>1, QueuedAtAll
    <3> QED
      BY <3>2, <1>1 DEF Udp
  <2>3. u.next_seq \in Slots
    BY DEF Udp
  <2> QED
    BY <2>1, <2>2, <2>3
<1>10. CASE f1 # NoFrame /\ v = u2
  BY <1>4, <1>9, <1>10 DEF v
<1>11. CASE f1 # NoFrame /\ f2 # NoFrame /\ v = TakeHead(u2)
  <2>1. \A s \in Slots : TakeHead(u2).queue[s] \in {u2.queue[s], NoFrame}
    BY <1>4, <1>5, <1>11 DEF Udp
  <2>2. u.next_seq \in Slots
    BY DEF Udp
  <2> QED
    BY <2>1, <2>2, <1>5, <1>9, <1>11 DEF v
<1> QED
  BY <1>7, <1>8, <1>10, <1>11

LEMMA InsertFacts ==
  ASSUME NEW u \in Udp(Frame), Counted(u), NEW seq \in Slots, NEW frame \in Arriving
  PROVE  LET v == Insert(u, seq, frame) IN
         /\ v \in Udp(Arriving) /\ Counted(v)
         /\ v.queue = [u.queue EXCEPT ![seq] = frame] /\ v.next_seq = u.next_seq
<1> DEFINE q == [u.queue EXCEPT ![seq] = frame]
           n == IF u.queue[seq] = NoFrame THEN u.queued + 1 ELSE u.queued
           v1 == [u EXCEPT !.queue = q]
           v2 == [v1 EXCEPT !.is_padding = (frame.stream = "sidPadding")]
           v3 == [v2 EXCEPT !.queued = n]
           v == Insert(u, seq, frame)
<1>1. v = v3
  BY DEF Insert, Udp
<1>2. q \in [Slots -> Arriving \cup {NoFrame}] /\ n \in Nat /\ u \in Udp(Arriving)
  BY DEF Udp, Arriving
<1>3. Occupied(u) \cup {seq} = {s \in Slots : q[s] # NoFrame}
  BY NotEmpty DEF Occupied, Udp
<1>4. n = Cardinality(Occupied(u) \cup {seq})
  <2>1. u.queue[seq] = NoFrame <=> seq \notin Occupied(u)
    BY DEF Occupied
  <2> QED
    BY <2>1, OccupiedFinite, FS_AddElement DEF Counted
<1> HIDE DEF v, q, n
<1>5. v1 \in Udp(Arriving) /\ v1.queue = q /\ v1.next_seq = u.next_seq
  BY <1>2 DEF Udp
<1> HIDE DEF v1
<1>6. v2 \in Udp(Arriving) /\ v2.queue = q /\ v2.next_seq = u.next_seq
  BY <1>5 DEF Udp
<1> HIDE DEF v2
<1>7. v3 \in Udp(Arriving) /\ v3.queue = q /\ v3.next_seq = u.next_seq /\ v3.queued = n
  BY <1>2, <1>6 DEF Udp
<1>8. Counted(v3)
  BY <1>3, <1>4, <1>7 DEF Counted, Occupied
<1> QED
  BY <1>1, <1>7, <1>8 DEF v, q

LEMMA SequencedFacts ==
  ASSUME NEW u \in Udp(Frame), Counted(u), NEW seq \in Slots
  PROVE  LET v == Sequenced(u, seq) IN
         /\ v \in Udp(Frame) /\ Counted(v) /\ v.queue = u.queue
         /\ v.next_seq \in {u.next_seq, seq}
<1> DEFINE v1 == [u EXCEPT !.current_seq = seq]
           v2 == [v1 EXCEPT !.next_seq = IF u.started THEN u.next_seq ELSE seq]
           v3 == [v2 EXCEPT !.started = TRUE]
           v == Sequenced(u, seq)
<1>1. v = v3
  BY DEF Sequenced, Udp
<1> HIDE DEF v
<1>2. v1 \in Udp(Frame) /\ v1.queue = u.queue /\ v1.queued = u.queued
  BY DEF Udp
<1> HIDE DEF v1
<1>3. /\ v2 \in Udp(Frame) /\ v2.queue = u.queue /\ v2.queued = u.queued
      /\ v2.next_seq \in {u.next_seq, seq}
  BY <1>2 DEF Udp
<1> HIDE DEF v2
<1>4. /\ v3 \in Udp(Frame) /\ v3.queue = u.queue /\ v3.queued = u.queued
      /\ v3.next_seq \in {u.next_seq, seq}
  BY <1>3 DEF Udp
<1> QED
  BY <1>1, <1>4 DEF v, Counted, Occupied

-----------------------------------------------------------------------------
(* The inductive invariant.                                                *)

Packets == [kind : {"frame"}, seq : Slots, frame : Frame, late : Nat]
           \cup [kind : {"missing"}, seq1 : Nat, seq2 : Slots, pos : Int, late : Nat]
Requests == [seq1 : Slots, seq2 : Slots, pos : Int]

ServerTypes ==
  /\ m_UdpBuffer \in [Slots -> Frame]
  /\ m_SeqNo \in Slots /\ m_StreamPos \in Nat
  /\ resend \in [next : Nat, last : Int, pos : Int]

LinkInv == /\ ServerTypes
           /\ net \in Seq(Packets) /\ ctrl \in Seq(Requests)
           /\ udp \in Udp(Frame) /\ Counted(udp)

LEMMA InitClient == InitUdpData \in Udp(Frame) /\ Counted(InitUdpData)
<1>1. InitUdpData \in Udp(Frame)
  BY LinkConstants DEF InitUdpData, Udp, EmptyBuffer
<1>2. Occupied(InitUdpData) = {}
  BY DEF Occupied, InitUdpData, EmptyBuffer
<1>3. InitUdpData.queued = 0
  BY DEF InitUdpData
<1> QED
  BY <1>1, <1>2, <1>3, FS_EmptySet DEF Counted

LEMMA LinkInvInit == Init => LinkInv
<1> SUFFICES ASSUME Init PROVE LinkInv
  OBVIOUS
<1>1. StartPos \in Nat
  BY LinkConstants DEF StartPos
<1>2. ASSUME NEW s \in Slots PROVE OldFrame(s) \in Frame
  <2>1. (StartSeq + SeqSize - 1 - s) % SeqSize \in Int
    BY LinkConstants, ModInSlots DEF Slots
  <2>2. FrameLen * (1 + ((StartSeq + SeqSize - 1 - s) % SeqSize)) \in Int
    BY <2>1, LinkConstants
  <2> QED
    BY <1>1, <2>2, LinkConstants DEF OldFrame, Frame, Streams
<1>3. m_UdpBuffer \in [Slots -> Frame]
  BY <1>2 DEF Init
<1>4. ServerTypes
  BY <1>1, <1>3, LinkConstants DEF ServerTypes, Init, NoResend
<1>5. net \in Seq(Packets) /\ ctrl \in Seq(Requests)
  BY DEF Init
<1> QED
  BY <1>4, <1>5, InitClient DEF LinkInv, Init

-----------------------------------------------------------------------------
(* The client: requests, and the frames it queues.                         *)

LEMMA MinOfTwo ==
  ASSUME NEW a \in Int, NEW b \in Int
  PROVE  Min({a, b}) \in {a, b}
<1>1. \E x \in {a, b} : \A y \in {a, b} : x <= y
  <2>1. CASE a <= b
    BY <2>1
  <2>2. CASE ~ (a <= b)
    BY <2>2
  <2> QED
    BY <2>1, <2>2
<1> QED
  BY <1>1 DEF Min

LEMMA RequestFacts ==
  ASSUME NEW u \in Udp(Frame), Counted(u), MustRequest(u)
  PROVE  Requested(u) \in Udp(Frame) /\ Counted(Requested(u)) /\ ResendRequest(u) \in Requests
<1> DEFINE d == DistanceToFrame(u, u.current_seq)
           s == FindReceived(u)
           r == AddSeq(s, -u.next_seq)
           v1 == [u EXCEPT !.current_seq = s]
           v2 == [v1 EXCEPT !.resend_requested = r]
<1>1. u.current_seq \in Slots /\ u.next_seq \in Slots /\ u.queue_input_pos \in Int /\ u.queued > 0
  BY DEF Udp, MustRequest
<1>2. d \in Slots
  BY <1>1, QueuedSomewhere, SomewhereAhead
<1>3. Min({d, MaxReq - 1}) \in Int
  <2> HIDE DEF d
  <2>1. d \in Int /\ MaxReq - 1 \in Int
    BY <1>2, LinkConstants DEF Slots
  <2> QED
    BY <2>1, MinOfTwo
<1>4. s \in Slots
  BY <1>1, <1>3, AddSeqInSlots DEF FindReceived
<1> HIDE DEF s
<1>5. r \in Slots /\ PrevSeq(s) \in Slots
  <2>1. PICK n \in Slots : n = u.next_seq
    BY <1>1
  <2>2. -n \in Int /\ s + SeqSize - 1 \in Int
    BY <1>4, LinkConstants DEF Slots
  <2>3. r \in Slots
    BY <1>4, <2>1, <2>2, AddSeqInSlots
  <2>4. PrevSeq(s) \in Slots
    BY <2>2, ModInSlots DEF PrevSeq
  <2> QED
    BY <2>3, <2>4
<1>6. Requested(u) = v2
  BY DEF Requested, s, Udp
<1> HIDE DEF r
<1>7. v1 \in Udp(Frame) /\ v1.queue = u.queue /\ v1.queued = u.queued
  BY <1>4 DEF Udp
<1> HIDE DEF v1
<1>8. v2 \in Udp(Frame) /\ v2.queue = u.queue /\ v2.queued = u.queued
  BY <1>5, <1>7 DEF Udp
<1>9. Counted(v2)
  BY <1>8 DEF Counted, Occupied
<1>10. ResendRequest(u) \in Requests
  BY <1>1, <1>5 DEF ResendRequest, Requests, s
<1> QED
  BY <1>6, <1>8, <1>9, <1>10

(* A marker goes to the slot next_seq waits for and is consumed at once:   *)
(* the queue that is kept holds frames only.                               *)
LEMMA QueueFacts ==
  ASSUME NEW u \in Udp(Frame), Counted(u), NEW seq \in Slots, NEW frame \in Arriving,
         frame \in Markers => u.next_seq = seq,
         ctrl \in Seq(Requests), NEW over, QueueFrame(u, seq, frame, over)
  PROVE  udp' \in Udp(Frame) /\ Counted(udp') /\ ctrl' \in Seq(Requests)
<1> DEFINE u1 == Sequenced(u, seq)
           w  == Insert(u1, seq, frame)
           u2 == ProcessQueue(w).udp
<1>1. /\ u1 \in Udp(Frame) /\ Counted(u1) /\ u1.queue = u.queue
      /\ u1.next_seq \in {u.next_seq, seq}
  BY SequencedFacts
<1> HIDE DEF u1
<1>2. /\ w \in Udp(Arriving) /\ Counted(w)
      /\ w.queue = [u1.queue EXCEPT ![seq] = frame] /\ w.next_seq = u1.next_seq
  BY <1>1, InsertFacts
<1> HIDE DEF w
<1>3. /\ u2 \in Udp(Arriving) /\ Counted(u2)
      /\ \A s \in Slots : u2.queue[s] \in {w.queue[s], NoFrame}
      /\ u2.queue[w.next_seq] = NoFrame
  BY <1>2, ProcessFacts
<1> HIDE DEF u2
<1>4. ASSUME NEW s \in Slots PROVE u2.queue[s] \in Frame \cup {NoFrame}
  <2>1. CASE s # seq \/ frame \in Frame
    <3>1. w.queue[s] \in Frame \cup {NoFrame}
      BY <1>1, <1>2, <2>1 DEF Udp
    <3> QED
      BY <1>3, <3>1
  <2>2. CASE s = seq /\ frame \in Markers
    BY <1>1, <1>2, <1>3, <2>2
  <2> QED
    BY <2>1, <2>2 DEF Arriving
<1>5. u2 \in Udp(Frame)
  <2>1. u2.queue \in [Slots -> Frame \cup {NoFrame}]
    BY <1>3, <1>4 DEF Udp
  <2> QED
    BY <1>3, <2>1 DEF Udp
<1>6. \/ udp' = InitUdpData /\ ctrl' = ctrl
      \/ udp' = u2 /\ ctrl' = ctrl
      \/ MustRequest(u2) /\ udp' = Requested(u2) /\ ctrl' = Append(ctrl, ResendRequest(u2))
  BY DEF QueueFrame, u2, w, u1
<1>7. CASE udp' = InitUdpData /\ ctrl' = ctrl
  BY <1>7, InitClient
<1>8. CASE udp' = u2 /\ ctrl' = ctrl
  BY <1>3, <1>5, <1>8
<1>9. CASE MustRequest(u2) /\ udp' = Requested(u2) /\ ctrl' = Append(ctrl, ResendRequest(u2))
  BY <1>3, <1>5, <1>9, RequestFacts
<1> QED
  BY <1>6, <1>7, <1>8, <1>9

-----------------------------------------------------------------------------
(* The steps.                                                              *)

LEMMA RemoveAtIn ==
  ASSUME NEW S, NEW s \in Seq(S), NEW i \in 1 .. Len(s)
  PROVE  RemoveAt(s, i) \in Seq(S)
<1> DEFINE a == SubSeq(s, 1, i - 1)
           b == SubSeq(s, i + 1, Len(s))
<1>1. a \in Seq(S) /\ b \in Seq(S)
  OBVIOUS
<1> HIDE DEF a, b
<1>2. a \o b \in Seq(S)
  BY <1>1
<1> QED
  BY <1>2 DEF RemoveAt, a, b

LEMMA AppendIn ==
  ASSUME NEW S, NEW s \in Seq(S), NEW e \in S
  PROVE  Append(s, e) \in Seq(S)
  OBVIOUS

(* The numbered frame replaces the oldest one of the ring.                 *)
LEMMA SendFrameKeeps ==
  ASSUME LinkInv, NEW frame \in Frame, SendFrame(frame), m_StreamPos' \in Nat
  PROVE  LinkInv'
<1>1. Packet(m_SeqNo, frame) \in Packets
  BY DEF Packet, Packets, LinkInv, ServerTypes
<1>2. net' \in Seq(Packets)
  BY <1>1, AppendIn DEF LinkInv, SendFrame
<1>3. m_UdpBuffer' \in [Slots -> Frame]
  BY DEF SendFrame, MakeFrame, LinkInv, ServerTypes
<1>4. m_SeqNo' \in Slots
  BY NextSeqInSlots DEF SendFrame, LinkInv, ServerTypes
<1>5. UNCHANGED <<resend, ctrl, udp>>
  BY DEF SendFrame
<1>6. ServerTypes'
  BY <1>3, <1>4, <1>5 DEF LinkInv, ServerTypes
<1> QED
  BY <1>2, <1>5, <1>6 DEF LinkInv, Counted, Occupied

LEMMA SendKeeps == ASSUME LinkInv, Send PROVE LinkInv'
<1>1. CASE SendData
  <2>1. [stream |-> "sidVdr", pos |-> m_StreamPos, len |-> FrameLen] \in Frame
    BY LinkConstants DEF Frame, Streams, LinkInv, ServerTypes
  <2>2. m_StreamPos' \in Nat
    BY <1>1, LinkConstants DEF SendData, LinkInv, ServerTypes
  <2> QED
    BY <1>1, <2>1, <2>2, SendFrameKeeps DEF SendData
<1>2. CASE SendControl
  <2>1. [stream |-> "sidControl", pos |-> -1, len |-> CtrlLen] \in Frame
    BY LinkConstants DEF Frame, Streams
  <2>2. m_StreamPos' \in Nat
    BY <1>2 DEF SendControl, LinkInv, ServerTypes
  <2> QED
    BY <1>2, <2>1, <2>2, SendFrameKeeps DEF SendControl
<1>3. CASE SendPadding
  <2> DEFINE prev == m_UdpBuffer[PrevSeq(m_SeqNo)]
             start == IF prev = NoFrame THEN 0 ELSE prev.pos + prev.len - PadLen
  <2>1. PrevSeq(m_SeqNo) \in Slots
    <3>1. m_SeqNo + SeqSize - 1 \in Int
      BY LinkConstants DEF LinkInv, ServerTypes, Slots
    <3> QED
      BY <3>1, ModInSlots DEF PrevSeq
  <2>2. prev \in Frame
    BY <2>1 DEF LinkInv, ServerTypes
  <2>3. start \in Int
    BY <2>2, LinkConstants DEF Frame
  <2>4. PaddingFrame(m_UdpBuffer, m_SeqNo)
          = [stream |-> "sidPadding", pos |-> start, len |-> PadLen]
    BY DEF PaddingFrame
  <2>5. PaddingFrame(m_UdpBuffer, m_SeqNo) \in Frame
    BY <2>3, <2>4, LinkConstants DEF Frame, Streams
  <2>6. m_StreamPos' \in Nat
    BY <1>3 DEF SendPadding, LinkInv, ServerTypes
  <2> QED
    BY <1>3, <2>5, <2>6, SendFrameKeeps DEF SendPadding
<1> QED
  BY <1>1, <1>2, <1>3 DEF Send

LEMMA HandleResendKeeps == ASSUME LinkInv, HandleResend PROVE LinkInv'
<1> DEFINE req == Head(ctrl)
           seq2 == IF req.seq1 > req.seq2 THEN req.seq2 + SeqSize ELSE req.seq2
<1>1. req \in Requests /\ Tail(ctrl) \in Seq(Requests)
  BY DEF LinkInv, HandleResend
<1>2. req.seq1 \in Nat /\ req.pos \in Int /\ seq2 \in Nat
  BY <1>1, LinkConstants DEF Requests, Slots
<1>3. \/ UNCHANGED <<resend, net>>
      \/ net' = Append(net, Missing(req.seq1, seq2 % SeqSize, req.pos)) /\ UNCHANGED resend
      \/ resend' = [next |-> req.seq1, last |-> seq2, pos |-> req.pos] /\ UNCHANGED net
  BY DEF HandleResend
<1>4. ctrl' = Tail(ctrl) /\ UNCHANGED <<serverVars, udp>>
  BY DEF HandleResend
<1> HIDE DEF req, seq2
<1>5. Missing(req.seq1, seq2 % SeqSize, req.pos) \in Packets
  BY <1>2, ModInSlots DEF Missing, Packets
<1>6. net' \in Seq(Packets)
  BY <1>3, <1>5, AppendIn DEF LinkInv
<1>7. resend' \in [next : Nat, last : Int, pos : Int]
  BY <1>2, <1>3 DEF LinkInv, ServerTypes
<1>8. ServerTypes'
  BY <1>4, <1>7 DEF LinkInv, ServerTypes, serverVars
<1> QED
  BY <1>1, <1>4, <1>6, <1>8 DEF LinkInv, Counted, Occupied

(* The loop of ReSend() reports a run that ends within its range.          *)
LEMMA ReSendStepKeeps == ASSUME LinkInv, ReSendStep PROVE LinkInv'
<1> DEFINE n == resend.next
           frame == InRing(n)
           last == LastMissing(n, resend.pos)
<1>1. n \in Nat /\ resend.last \in Int /\ resend.pos \in Int /\ n <= resend.last
  BY DEF LinkInv, ServerTypes, ReSendStep, Resending
<1>2. n % SeqSize \in Slots
  BY <1>1, ModInSlots
<1>3. frame \in Frame /\ frame.pos + frame.len \in Int
  <2>1. frame \in Frame
    BY <1>2 DEF InRing, LinkInv, ServerTypes
  <2> QED
    BY <2>1 DEF Frame
<1>4. last \in Nat
  <2> DEFINE S == {k \in n .. resend.last :
                     k = resend.last \/ IsNear(InRing(k + 1), resend.pos)}
  <2>1. S \in SUBSET Nat /\ resend.last \in S
    BY <1>1
  <2>2. last = Min(S)
    BY DEF LastMissing
  <2> HIDE DEF S
  <2>3. Min(S) \in S
    BY <2>1, LeastOfNat
  <2> QED
    BY <2>1, <2>2, <2>3
<1>5. \/ /\ net' = Append(net, Packet(n % SeqSize, frame))
         /\ resend' = [resend EXCEPT !.next = n + 1, !.pos = frame.pos + frame.len]
      \/ /\ net' = Append(net, Missing(n, last % SeqSize, resend.pos))
         /\ resend' = [resend EXCEPT !.next = last + 1]
  BY DEF ReSendStep
<1>6. UNCHANGED <<serverVars, ctrl, udp>>
  BY DEF ReSendStep
<1> HIDE DEF frame, last
<1>7. Packet(n % SeqSize, frame) \in Packets
  BY <1>2, <1>3 DEF Packet, Packets
<1>8. Missing(n, last % SeqSize, resend.pos) \in Packets
  BY <1>1, <1>4, ModInSlots DEF Missing, Packets
<1>9. net' \in Seq(Packets)
  BY <1>5, <1>7, <1>8, AppendIn DEF LinkInv
<1>10. resend' \in [next : Nat, last : Int, pos : Int]
  <2> DEFINE end == frame.pos + frame.len
             r1 == [resend EXCEPT !.next = n + 1, !.pos = end]
             r2 == [resend EXCEPT !.next = last + 1]
  <2>1. n + 1 \in Nat /\ end \in Int /\ last + 1 \in Nat
    BY <1>1, <1>3, <1>4
  <2>2. resend' = r1 \/ resend' = r2
    BY <1>5
  <2>3. resend \in [next : Nat, last : Int, pos : Int]
    BY DEF LinkInv, ServerTypes
  <2> HIDE DEF end
  <2>4. r1 \in [next : Nat, last : Int, pos : Int]
    BY <2>1, <2>3
  <2>5. r2 \in [next : Nat, last : Int, pos : Int]
    BY <2>1, <2>3
  <2> QED
    BY <2>2, <2>4, <2>5
<1>11. ServerTypes'
  BY <1>6, <1>10 DEF LinkInv, ServerTypes, serverVars
<1> QED
  BY <1>6, <1>9, <1>11 DEF LinkInv, Counted, Occupied

LEMMA NetworkKeeps == ASSUME LinkInv, Network PROVE LinkInv'
<1>1. PICK i \in DOMAIN net : Lose(i)
  BY DEF Network
<1>2. net' \in Seq(Packets)
  BY <1>1, RemoveAtIn DEF Lose, LinkInv
<1>3. UNCHANGED <<serverVars, resend, ctrl, udp>>
  BY <1>1 DEF Lose
<1> QED
  BY <1>2, <1>3 DEF LinkInv, ServerTypes, serverVars, Counted, Occupied

LEMMA DeliverKeeps == ASSUME LinkInv, Deliver PROVE LinkInv'
<1>1. udp' = ProcessQueue(udp).udp /\ UNCHANGED <<serverVars, resend, net, ctrl>>
  BY DEF Deliver
<1>2. udp' \in Udp(Frame) /\ Counted(udp')
  BY <1>1, ProcessFacts DEF LinkInv, Arriving
<1>3. ServerTypes'
  BY <1>1 DEF LinkInv, ServerTypes, serverVars
<1> QED
  BY <1>1, <1>2, <1>3 DEF LinkInv, Counted, Occupied

LEMMA ReceiveKeeps ==
  ASSUME LinkInv, NEW i \in DOMAIN net \cap {1, 2}, Receive(i)
  PROVE  LinkInv'
<1>1. net \in Seq(Packets) /\ i \in 1 .. Len(net) /\ net[i] \in Packets /\ 1 \in 1 .. Len(net)
  BY DEF LinkInv
<1>2. net' \in Seq(Packets)
  <2> DEFINE late == [net EXCEPT ![1].late = @ + 1]
  <2>1. net[1] \in Packets
    BY <1>1
  <2>2. [net[1] EXCEPT !.late = @ + 1] \in Packets
    BY <2>1 DEF Packets
  <2>3. late = [net EXCEPT ![1] = [net[1] EXCEPT !.late = @ + 1]]
    OBVIOUS
  <2>4. late \in Seq(Packets) /\ Len(late) = Len(net)
    BY <1>1, <2>2, <2>3
  <2>5. net' = RemoveAt(IF i = 2 THEN late ELSE net, i)
    BY DEF Receive
  <2> HIDE DEF late
  <2> QED
    BY <1>1, <2>4, <2>5, RemoveAtIn
<1>3. udp' \in Udp(Frame) /\ Counted(udp') /\ ctrl' \in Seq(Requests)
  <2>1. CASE UNCHANGED <<udp, ctrl>>
    BY <2>1 DEF LinkInv, Counted, Occupied
  <2>2. CASE net[i].kind = "missing" /\ Accepts(udp, net[i])
    <3> DEFINE p == net[i]
               u == [udp EXCEPT !.next_seq = p.seq2]
    <3>1. p.seq2 \in Slots /\ p.pos \in Int
      BY <1>1, <2>2 DEF Packets
    <3>2. u \in Udp(Frame) /\ u.next_seq = p.seq2 /\ u.queue = udp.queue /\ u.queued = udp.queued
      BY <3>1 DEF Udp, LinkInv
    <3>3. Counted(u)
      BY <3>2 DEF Counted, Occupied, LinkInv
    <3>4. Marker(p) \in Markers
      BY <3>1 DEF Marker, Markers
    <3>5. QueueFrame(u, p.seq2, Marker(p), passed \cup PassedOver(udp, p))
      BY <2>2 DEF Receive, ReceiveMissing
    <3> HIDE DEF u
    <3> QED
      BY <3>1, <3>2, <3>3, <3>4, <3>5, QueueFacts DEF LinkInv, Arriving
  <2>3. CASE net[i].kind = "frame" /\ net[i].frame.pos # -1
    <3> DEFINE p == net[i]
    <3>1. p.seq \in Slots /\ p.frame \in Frame
      BY <1>1, <2>3 DEF Packets
    <3>2. p.frame \notin Markers
      BY <3>1 DEF Frame, Streams, Markers
    <3>3. QueueFrame(udp, p.seq, p.frame, passed)
      BY <2>3 DEF Receive, ReceiveFrame
    <3> QED
      BY <3>1, <3>2, <3>3, QueueFacts DEF LinkInv, Arriving
  <2>4. net[i].kind \in {"missing", "frame"}
    BY <1>1 DEF Packets
  <2>5. \/ UNCHANGED <<udp, ctrl>>
        \/ net[i].kind = "missing" /\ Accepts(udp, net[i])
        \/ net[i].kind = "frame" /\ net[i].frame.pos # -1
    BY <2>4 DEF Receive, ReceiveMissing, ReceiveFrame
  <2> QED
    BY <2>1, <2>2, <2>3, <2>5
<1>4. UNCHANGED <<serverVars, resend>>
  BY DEF Receive
<1>5. ServerTypes'
  BY <1>4 DEF LinkInv, ServerTypes, serverVars
<1> QED
  BY <1>2, <1>3, <1>5 DEF LinkInv, Counted, Occupied

LEMMA LinkInvNext == LinkInv /\ [Next]_vars => LinkInv'
<1> SUFFICES ASSUME LinkInv, [Next]_vars PROVE LinkInv'
  OBVIOUS
<1>1. CASE UNCHANGED vars
  BY <1>1 DEF LinkInv, ServerTypes, Counted, Occupied, vars, serverVars
<1>2. CASE Client
  BY <1>2, DeliverKeeps, ReceiveKeeps DEF Client
<1> QED
  BY <1>1, <1>2, SendKeeps, HandleResendKeeps, ReSendStepKeeps, NetworkKeeps DEF Next

-----------------------------------------------------------------------------
(* Whatever is lost, overtaken, refused or reset, the client's numbers     *)
(* stay slots of the ring and its slots hold frames: the marker of a       *)
(* MISSING report never stays in the queue.                                *)
THEOREM TypeCorrect == Spec => []TypeOK
<1>1. LinkInv => TypeOK
  BY DEF LinkInv, ServerTypes, Udp, TypeOK
<1> QED
  BY <1>1, LinkInvInit, LinkInvNext, PTL DEF Spec

(* "queued" is the number of occupied slots in every reachable state: the  *)
(* loops of udp_process_queue() and udp_process_resend() that look for the *)
(* next frame while "queued" is positive always find one.                  *)
THEOREM CountIsRight == Spec => []QueuedCount
<1>1. LinkInv => QueuedCount
  BY DEF LinkInv, Counted, QueuedCount
<1> QED
  BY <1>1, LinkInvInit, LinkInvNext, PTL DEF Spec
=============================================================================
