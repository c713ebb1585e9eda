----------------------------- MODULE UdpBackLog -----------------------------
(***************************************************************************)
(* The ring of already numbered UDP frames (class cUdpBackLog,             *)
(* tools/udp_buffer.h): frames waiting to be sent and frames kept for      *)
(* re-transmission share one array, indexed by the 8-bit sequence number.  *)
(* The operators work on the ring's two pieces of state, m_UdpBuffer (here *)
(* a function from slots to frames) and m_SeqNo (next outgoing number).    *)
(***************************************************************************)
EXTENDS Integers

CONSTANTS SeqSize,  \* UDP_BUFFER_SIZE == UDP_SEQ_MASK + 1 (256 in the code)
          PadLen    \* payload length of the idle padding frame (8 bytes)

ASSUME SeqSizeAssumption == SeqSize \in Nat /\ SeqSize >= 2
ASSUME PadLenAssumption  == PadLen \in Nat /\ PadLen >= 1

Slots == 0 .. SeqSize - 1

Streams == {"sidVdr", "sidControl", "sidPadding"}

(* A frame: its stream id, its stream position and its payload length.  A  *)
(* position is unsigned 64 bit in the code; -1 is the position of control  *)
(* messages, so positions are integers here and unsigned comparisons are   *)
(* written out where the code makes them.                                  *)
Frame == [stream : Streams, pos : Int, len : Nat]

(* An empty slot: the NULL pointer. *)
NoFrame == [stream |-> "none", pos |-> 0, len |-> 0]

EmptyBuffer == [s \in Slots |-> NoFrame]

(* Wrong variant, for the sensitivity checks: the mask is forgotten.       *)
NextSeqUnmasked(s) == s + 1
NextSeq(s) == (s + 1) % SeqSize

PrevSeq(s) == (s + SeqSize - 1) % SeqSize

(* Wrong variant: the last frame is replaced, not followed.                *)
MakeFrameInPlace(buffer, seqNo, frame) == [buffer EXCEPT ![PrevSeq(seqNo)] = frame]

(* MakeFrame(): the frame is written to the slot of the next sequence      *)
(* number (the caller advances the number with NextSeq).                   *)
MakeFrame(buffer, seqNo, frame) == [buffer EXCEPT ![seqNo] = frame]

(* Wrong variant: the numbers are not handed out again.                    *)
ClearLastForgets(seqNo, n) == seqNo

(* Clear(n): the n last numbers are handed out again, nothing is freed.    *)
ClearLast(seqNo, n) == (seqNo + SeqSize - n) % SeqSize

(* The idle padding frame: it ends where the frame in front of "next" ends *)
PaddingFrame(buffer, next) ==
  LET prev == buffer[PrevSeq(next)] IN
  [stream |-> "sidPadding",
   pos    |-> IF prev = NoFrame THEN 0 ELSE prev.pos + prev.len - PadLen,
   len    |-> PadLen]

=============================================================================
