------------------------------ MODULE UdpLink ------------------------------
(***************************************************************************)
(* One UDP client and its server: the server's ring of sent frames         *)
(* (UdpBackLog) with cUdpScheduler::ReSend(), a network that loses and     *)
(* reorders data packets, the reliable control connection that carries     *)
(* "UDP RESEND" requests, and the client's re-ordering queue (udp_data_t   *)
(* and vdr_plugin_read_block_udp() with its helpers, xine_input_vdr.c).    *)
(*                                                                         *)
(* Frames are put on the wire as soon as they are numbered (the queue in   *)
(* front of the wire is module UdpScheduler).  The client is one thread;   *)
(* each step is one pass of its read loop.                                 *)
(***************************************************************************)
EXTENDS UdpBackLog, Sequences, SequencesExt, FiniteSets, FiniteSetsExt

CONSTANTS FrameLen,    \* payload length of a stream frame
          CtrlLen,     \* payload length of a control message
          ResendRange, \* ReSend() refuses longer ranges (64)
          ResendSpan,  \* ReSend() believes positions this close (100000)
          MaxReq,      \* search limit of udp_process_resend() (20)
          StartSeq,    \* first number this client can see: the server has
                       \* been sending to other clients before
          MaxFrames,   \* model bound: frames sent
          MaxLoss,     \* model bound: packets lost
          MaxNet,      \* model bound: packets in flight
          Reorder      \* model bound: a packet overtakes so many others

ASSUME LinkAssumption ==
  /\ FrameLen \in Nat /\ CtrlLen \in Nat /\ FrameLen >= PadLen /\ CtrlLen > PadLen
  /\ StartSeq \in Slots
  /\ SeqSize % 4 = 0
  /\ ResendRange \in Nat /\ ResendSpan \in Nat /\ MaxReq \in Nat

VARIABLES
  m_UdpBuffer, m_SeqNo,  \* the server's ring and its next number
  m_StreamPos,           \* the server's stream position
  resend,                \* what is left of the ReSend() being executed
  net,                   \* data packets in flight
  ctrl,                  \* "UDP RESEND" requests in flight
  udp,                   \* the client's udp_data_t
  lastPos,               \* history: position of the last stream frame handed on
                         \* since the link was set up or reset
  passed,                \* history: slots whose frame an accepted MISSING report has
                         \* moved next_seq over
  sent, lost             \* model counters

serverVars == <<m_UdpBuffer, m_SeqNo, m_StreamPos>>
vars == <<serverVars, resend, net, ctrl, udp, lastPos, passed, sent, lost>>

Window     == SeqSize \div 4   \* (UDP_SEQ_MASK+1) >> 2
HalfRange  == SeqSize \div 2   \* (UDP_SEQ_MASK+1) >> 1

AddSeq(s, n) == (s + SeqSize + n) % SeqSize

(* Packets.  The first number of a MISSING range is printed unmasked.      *)
(* "late" counts how often a packet has been overtaken.                    *)
Packet(seq, frame) == [kind |-> "frame", seq |-> seq, frame |-> frame, late |-> 0]
Missing(seq1, seq2, pos) ==
  [kind |-> "missing", seq1 |-> seq1, seq2 |-> seq2, pos |-> pos, late |-> 0]

NoResend == [next |-> 0, last |-> -1, pos |-> 0]

(* init_udp_data() *)
InitUdpData == [queue |-> EmptyBuffer, queue_input_pos |-> 0, queued |-> 0,
                next_seq |-> 0, current_seq |-> 0, is_padding |-> FALSE,
                started |-> FALSE, resend_requested |-> 0]

(* The server has filled its ring once already. *)
StartPos == SeqSize * FrameLen
OldFrame(s) ==
  [stream |-> "sidVdr",
   pos |-> StartPos - FrameLen * (1 + ((StartSeq + SeqSize - 1 - s) % SeqSize)),
   len |-> FrameLen]

Init == /\ m_UdpBuffer = [s \in Slots |-> OldFrame(s)]
        /\ m_SeqNo = StartSeq
        /\ m_StreamPos = StartPos
        /\ resend = NoResend
        /\ net = <<>>
        /\ ctrl = <<>>
        /\ udp = InitUdpData
        /\ lastPos = -1
        /\ passed = {}
        /\ sent = 0
        /\ lost = 0

-----------------------------------------------------------------------------
(* The server.                                                             *)

Resending == resend.next <= resend.last

(* Number a frame, keep it in the ring and put it on the wire.             *)
SendFrame(frame) ==
  /\ ~Resending                      \* ReSend() holds m_Lock
  /\ sent < MaxFrames
  /\ Len(net) < MaxNet
  /\ m_UdpBuffer' = MakeFrame(m_UdpBuffer, m_SeqNo, frame)
  /\ m_SeqNo' = NextSeq(m_SeqNo)
  /\ net' = Append(net, Packet(m_SeqNo, frame))
  /\ sent' = sent + 1
  /\ UNCHANGED <<resend, ctrl, udp, lastPos, passed, lost>>

SendData == /\ SendFrame([stream |-> "sidVdr", pos |-> m_StreamPos, len |-> FrameLen])
            /\ m_StreamPos' = m_StreamPos + FrameLen

SendControl == /\ SendFrame([stream |-> "sidControl", pos |-> -1, len |-> CtrlLen])
               /\ UNCHANGED m_StreamPos

(* Idle padding, made when nothing is pending.                             *)
SendPadding == /\ SendFrame(PaddingFrame(m_UdpBuffer, m_SeqNo))
               /\ UNCHANGED m_StreamPos

(* Handle_Control_UDP_RESEND() and the head of ReSend(): an inverted range *)
(* has wrapped, a long one is refused as a whole.                          *)
HandleResend ==
  /\ ~Resending
  /\ ctrl # <<>>
  /\ LET req  == Head(ctrl)
         seq2 == IF req.seq1 > req.seq2 THEN req.seq2 + SeqSize ELSE req.seq2
     IN  IF req.pos > m_StreamPos
           THEN UNCHANGED <<resend, net>>
           ELSE IF seq2 - req.seq1 > ResendRange
             THEN /\ net' = Append(net, Missing(req.seq1, seq2 % SeqSize, req.pos))
                  /\ UNCHANGED resend
             ELSE /\ resend' = [next |-> req.seq1, last |-> seq2, pos |-> req.pos]
                  /\ UNCHANGED net
  /\ ctrl' = Tail(ctrl)
  /\ UNCHANGED <<serverVars, udp, lastPos, passed, sent, lost>>

InRing(n) == m_UdpBuffer[n % SeqSize]

(* The unsigned difference of the positions is below ResendSpan.           *)
IsNear(frame, pos) ==
  frame # NoFrame /\ frame.pos - pos \in 0 .. ResendSpan - 1

(* The last number of the run of lost frames that begins at n.             *)
LastMissing(n, pos) ==
  Min({k \in n .. resend.last : k = resend.last \/ IsNear(InRing(k + 1), pos)})

(* One round of ReSend()'s loop: a frame, or the report of a lost run.     *)
ReSendStep ==
  /\ Resending
  /\ LET n     == resend.next
         frame == InRing(n)
         last  == LastMissing(n, resend.pos)
     IN  IF IsNear(frame, resend.pos)
           THEN /\ net' = Append(net, Packet(n % SeqSize, frame))
                /\ resend' = [resend EXCEPT !.next = n + 1, !.pos = frame.pos + frame.len]
           ELSE /\ net' = Append(net, Missing(n, last % SeqSize, resend.pos))
                /\ resend' = [resend EXCEPT !.next = last + 1]
  /\ UNCHANGED <<serverVars, ctrl, udp, lastPos, passed, sent, lost>>

-----------------------------------------------------------------------------
(* The network.                                                            *)

Lose(i) == /\ lost < MaxLoss
           /\ net' = RemoveAt(net, i)
           /\ lost' = lost + 1
           /\ UNCHANGED <<serverVars, resend, ctrl, udp, lastPos, passed, sent>>

-----------------------------------------------------------------------------
(* The client.                                                             *)

Occupied(u) == {s \in Slots : u.queue[s] # NoFrame}

(* Distance from a slot to the first occupied slot.  With an empty queue   *)
(* the code's loops would not end; QueuedCount excludes it.                *)
DistanceToFrame(u, s) == Min({k \in Slots : u.queue[AddSeq(s, k)] # NoFrame})

SkipMissing(u) == [u EXCEPT !.next_seq = AddSeq(@, DistanceToFrame(u, @))]

FlushOnPadding(u) == IF u.is_padding /\ u.queued > 0 THEN SkipMissing(u) ELSE u

HeadFrame(u) == IF u.queued > 0 THEN u.queue[u.next_seq] ELSE NoFrame

TakeHead(u) ==
  LET f == u.queue[u.next_seq] IN
  FlushOnPadding(
    [u EXCEPT !.queue[u.next_seq]  = NoFrame,
              !.queue_input_pos    = f.pos + f.len,
              !.queued             = @ - 1,
              !.next_seq           = NextSeq(@),
              !.resend_requested   = IF @ > 0 THEN @ - 1 ELSE 0])

(* udp_process_queue(): skip what is missing when the window is exceeded   *)
(* or on padding, then hand out the head of the queue.  An empty frame     *)
(* (the marker of a MISSING report) is consumed and its successor tried.   *)
EnterQueue(u) ==
  FlushOnPadding(IF u.queued > Window
                   THEN [SkipMissing(u) EXCEPT !.resend_requested = 0] ELSE u)

IsMarker(frame) == frame # NoFrame /\ frame.len = 0

ProcessQueue(u) ==
  LET u1 == EnterQueue(u)
      f1 == HeadFrame(u1)
      u2 == TakeHead(u1)
      f2 == HeadFrame(u2)
  IN CASE f1 = NoFrame                      -> [udp |-> u1, out |-> NoFrame]
       [] f1.len > 0                        -> [udp |-> u2, out |-> f1]
       [] IsMarker(f1) /\ f2 # NoFrame      -> [udp |-> TakeHead(u2), out |-> f2]
       [] IsMarker(f1) /\ f2 = NoFrame      -> [udp |-> u2, out |-> NoFrame]

(* udp_process_resend(): the request, if any, and its bookkeeping.         *)
MustRequest(u) ==
  u.resend_requested = 0 /\ NextSeq(u.current_seq) # u.next_seq /\ u.queued > 0

FindReceived(u) ==
  AddSeq(u.current_seq, Min({DistanceToFrame(u, u.current_seq), MaxReq - 1}))

Requested(u) == LET s == FindReceived(u) IN
  [u EXCEPT !.current_seq = s, !.resend_requested = AddSeq(s, -u.next_seq)]

ResendRequest(u) ==
  [seq1 |-> u.next_seq, seq2 |-> PrevSeq(FindReceived(u)), pos |-> u.queue_input_pos]

(* The rest of the read loop for a frame that has a sequence number: the   *)
(* first one starts the numbering, one from outside the window resets the  *)
(* link, any other goes to its slot (replacing a duplicate).               *)
Sequenced(u, seq) == [u EXCEPT !.current_seq = seq,
                               !.next_seq = IF u.started THEN @ ELSE seq,
                               !.started = TRUE]

(* Wrong variant: a duplicate is counted again.                            *)
InsertRecounts(u, seq, frame) ==
  [u EXCEPT !.queue[seq]  = frame,
            !.is_padding  = (frame.stream = "sidPadding"),
            !.queued      = @ + 1]

Insert(u, seq, frame) ==
  [u EXCEPT !.queue[seq]  = frame,
            !.is_padding  = (frame.stream = "sidPadding"),
            !.queued      = IF u.queue[seq] = NoFrame THEN @ + 1 ELSE @]

HandOn(u, frame, over) ==
  /\ lastPos' = IF frame.stream = "sidVdr" THEN frame.pos ELSE lastPos
  /\ passed' = over \cap Occupied(u)

QueueFrame(u, seq, frame, over) ==
  LET u1     == Sequenced(u, seq)
      result == ProcessQueue(Insert(u1, seq, frame))
      u2     == result.udp
  IN IF AddSeq(seq, -u1.next_seq) > HalfRange
       THEN udp' = InitUdpData /\ lastPos' = -1 /\ passed' = {} /\ UNCHANGED ctrl
       ELSE /\ HandOn(u2, result.out, over)
            /\ IF result.out = NoFrame /\ MustRequest(u2)
                 THEN udp' = Requested(u2) /\ ctrl' = Append(ctrl, ResendRequest(u2))
                 ELSE udp' = u2 /\ UNCHANGED ctrl

(* Wrong variant: every report is believed.                                *)
AcceptsAny(u, packet) == TRUE

(* udp_parse_control(): a MISSING report is accepted when it begins with   *)
(* the number that is waited for; the marker takes the range's last slot.  *)
Accepts(u, packet) == packet.seq1 = u.next_seq

Marker(packet) == [stream |-> "missing", pos |-> packet.pos, len |-> 0]

(* The frames of the reported range that have arrived meanwhile, but the   *)
(* one whose slot the marker takes.                                        *)
PassedOver(u, packet) ==
  {s \in Occupied(u) : AddSeq(s, -packet.seq1) < AddSeq(packet.seq2, -packet.seq1)}

ReceiveMissing(packet) ==
  IF Accepts(udp, packet)
    THEN QueueFrame([udp EXCEPT !.next_seq = packet.seq2], packet.seq2, Marker(packet),
                    passed \cup PassedOver(udp, packet))
    ELSE UNCHANGED <<udp, ctrl, lastPos, passed>>

(* A control message is executed where it arrives; its number is not       *)
(* looked at.                                                              *)
ReceiveFrame(packet) ==
  IF packet.frame.pos = -1
    THEN UNCHANGED <<udp, ctrl, lastPos, passed>>
    ELSE QueueFrame(udp, packet.seq, packet.frame, passed)

(* The queue has nothing to hand out: read the first packet in flight, or  *)
(* the second when it has overtaken the first.                             *)
Receive(i) ==
  /\ i = 2 => net[1].late < Reorder
  /\ ProcessQueue(udp).out = NoFrame
  /\ IF net[i].kind = "missing" THEN ReceiveMissing(net[i]) ELSE ReceiveFrame(net[i])
  /\ net' = RemoveAt(IF i = 2 THEN [net EXCEPT ![1].late = @ + 1] ELSE net, i)
  /\ UNCHANGED <<serverVars, resend, sent, lost>>

(* The queue's head can be handed to the caller.                           *)
Deliver == LET result == ProcessQueue(udp) IN
  /\ result.out # NoFrame
  /\ udp' = result.udp
  /\ HandOn(result.udp, result.out, passed)
  /\ UNCHANGED <<serverVars, resend, net, ctrl, sent, lost>>

-----------------------------------------------------------------------------
Send    == SendData \/ SendControl \/ SendPadding
Client  == Deliver \/ \E i \in DOMAIN net \cap {1, 2} : Receive(i)
Network == \E i \in DOMAIN net : Lose(i)

Next == Send \/ HandleResend \/ ReSendStep \/ Network \/ Client

Spec == Init /\ [][Next]_vars

-----------------------------------------------------------------------------
TypeOK ==
  /\ m_UdpBuffer \in [Slots -> Frame]
  /\ m_SeqNo \in Slots /\ m_StreamPos \in Nat
  /\ udp.queue \in [Slots -> Frame \cup {NoFrame}]
  /\ udp.queued \in Nat /\ udp.next_seq \in Slots /\ udp.current_seq \in Slots
  /\ udp.resend_requested \in Slots

(* "queued" counts the frames in the queue: the loops that skip missing    *)
(* frames only look at "queued" and would never end if no slot were        *)
(* occupied.                                                               *)
QueuedCount == udp.queued = Cardinality(Occupied(udp))

(* No frame of the queue stays behind next_seq until the numbers wrap, to   *)
(* be handed on in a later round, but one that arrived within the range of  *)
(* an accepted MISSING report: udp_parse_control() moves next_seq to the    *)
(* end of the range without looking at the slots between.                   *)
NothingBehind ==
  \A s \in Occupied(udp) \ passed : AddSeq(s, -udp.next_seq) <= HalfRange

(* Stream frames are handed on in stream order, none twice, until the link  *)
(* is reset, whatever is lost, repeated or overtaken.  Only a frame such a  *)
(* report has passed over takes the stream back, to its own position, when  *)
(* a flush on padding finds it.                                             *)
InOrder ==
  [][\/ lastPos' = -1 \/ lastPos' > lastPos
     \/ \E s \in passed : lastPos' = udp.queue[s].pos]_lastPos

(* A MISSING report for the frame that is waited for is accepted by        *)
(* udp_parse_control(), so that the client goes on behind the lost range.  *)
MissingUnderstood ==
  \A i \in DOMAIN net :
    net[i].kind = "missing" /\ net[i].seq1 % SeqSize = udp.next_seq => Accepts(udp, net[i])
=============================================================================
