----------------------------- MODULE StreamSync -----------------------------
(***************************************************************************)
(* Clearing the stream of a remote client.  The server announces a Clear() *)
(* on two connections, the control connection and the data stream          *)
(* ("DISCARD <position>", cXinelibThread::Clear()).  In the client         *)
(* (xine_input_vdr.c) the control thread flushes the engine and moves      *)
(* discard_index, while the demuxer's thread reads the data stream, drops  *)
(* frames in front of discard_index, and stops reading when the data       *)
(* stream is ahead of the control stream.                                  *)
(*                                                                         *)
(* The two connections are reliable and ordered, but not with respect to   *)
(* each other.  A frame is its position; every frame has length one.  The  *)
(* demuxer's thread is inside vdr_plugin_read_block() while "hand" holds a *)
(* frame; _x_demux_seek() (external, xine-lib) waits for it to come out.   *)
(***************************************************************************)
EXTENDS Integers, Sequences, SequencesExt

CONSTANTS StartPos,   \* the server's position when the client connects
          MaxPos,     \* model bound on the position
          MaxMsgs     \* model bound: messages in flight per connection

ASSUME SyncAssumption == StartPos \in Nat \ {0} /\ MaxPos \in Nat /\ MaxMsgs \in Nat

VARIABLES
  m_StreamPos, m_LastClearPos,           \* the server (cXinelibThread)
  ctrl,              \* control connection: DISCARD and FLUSH messages
  data,              \* data connection: frames and DISCARD messages
  discard_index, discard_index_ds, guard_index, curpos, stream_start,
  ctl,               \* control thread: "idle", "seek" (lock released, engine
                     \* not flushed yet) or "flushed"
  ctlIndex,          \* the position of the DISCARD it executes
  hand,              \* frame read and not yet preprocessed, or -1
  decoder            \* history: frames handed to the demuxer since the last flush

serverVars == <<m_StreamPos, m_LastClearPos>>
clientVars == <<discard_index, discard_index_ds, guard_index, curpos, stream_start>>
threadVars == <<ctl, ctlIndex, hand>>
vars == <<serverVars, ctrl, data, clientVars, threadVars, decoder>>

FrameMsg(pos)   == [kind |-> "frame", pos |-> pos]
(* Wrong variant: the position behind the next byte.                       *)
DiscardMsgNext(pos) == [kind |-> "DISCARD", pos |-> pos + 1]
DiscardMsg(pos) == [kind |-> "DISCARD", pos |-> pos]
FlushMsg(pos)   == [kind |-> "FLUSH", pos |-> pos]

(* A client that has just connected; the server sends it the saved start   *)
(* of the stream, if it has one, as position 0.                            *)
Init == /\ m_StreamPos = StartPos
        /\ m_LastClearPos = 0
        /\ ctrl = <<>>
        /\ data \in {<<>>, <<FrameMsg(0)>>}
        /\ discard_index = 0 /\ discard_index_ds = 0 /\ guard_index = 0
        /\ curpos = 0
        /\ stream_start = TRUE
        /\ ctl = "idle" /\ ctlIndex = 0 /\ hand = -1
        /\ decoder = {}

-----------------------------------------------------------------------------
(* The server's device thread.                                             *)

Play == /\ m_StreamPos < MaxPos
        /\ Len(data) < MaxMsgs
        /\ data' = Append(data, FrameMsg(m_StreamPos))
        /\ m_StreamPos' = m_StreamPos + 1
        /\ UNCHANGED <<m_LastClearPos, ctrl, clientVars, threadVars, decoder>>

(* cXinelibServer::Clear(): the message goes to both connections.  A       *)
(* second Clear() at the same position sends nothing.                      *)
Clear ==
  /\ m_StreamPos # m_LastClearPos
  /\ Len(data) < MaxMsgs /\ Len(ctrl) < MaxMsgs
  /\ ctrl' = Append(ctrl, DiscardMsg(m_StreamPos))
  /\ data' = Append(data, DiscardMsg(m_StreamPos))
  /\ m_LastClearPos' = m_StreamPos
  /\ UNCHANGED <<m_StreamPos, clientVars, threadVars, decoder>>

(* The client's writer drops, after a Clear(), what it has not written by  *)
(* then: any frame in front of the clear position, never a message.        *)
WriterDrop(i) ==
  /\ data[i].kind = "frame"
  /\ data[i].pos < m_LastClearPos
  /\ data' = RemoveAt(data, i)
  /\ UNCHANGED <<serverVars, ctrl, clientVars, threadVars, decoder>>

(* cXinelibServer::Flush(): the answer is waited for with a timeout.       *)
Flush == /\ Len(ctrl) < MaxMsgs
         /\ ctrl' = Append(ctrl, FlushMsg(m_StreamPos))
         /\ UNCHANGED <<serverVars, data, clientVars, threadVars, decoder>>

-----------------------------------------------------------------------------
(* The client's control thread.                                            *)

NextIs(kind) == ctl = "idle" /\ ctrl # <<>> /\ Head(ctrl).kind = kind

(* vdr_flush_engine() has nothing to flush, or comes too late.             *)
FlushSkipped(index) == stream_start \/ curpos > index

(* Wrong variant: without an engine flush discard_index stays.             *)
ControlDiscardIgnored ==
  /\ NextIs("DISCARD")
  /\ LET index == Head(ctrl).pos IN
       IF discard_index >= index \/ FlushSkipped(index)
         THEN UNCHANGED <<ctl, ctlIndex>>
         ELSE ctl' = "seek" /\ ctlIndex' = index
  /\ ctrl' = Tail(ctrl)
  /\ UNCHANGED <<serverVars, data, clientVars, hand, decoder>>

(* DISCARD: a delayed one is ignored; otherwise flush the engine, which    *)
(* releases the lock, and then move discard_index.                         *)
ControlDiscard ==
  /\ NextIs("DISCARD")
  /\ LET index == Head(ctrl).pos IN
       CASE discard_index >= index -> UNCHANGED <<ctl, ctlIndex, discard_index>>
         [] discard_index < index /\ FlushSkipped(index) ->
              discard_index' = index /\ UNCHANGED <<ctl, ctlIndex>>
         [] OTHER ->
              ctl' = "seek" /\ ctlIndex' = index /\ UNCHANGED discard_index
  /\ ctrl' = Tail(ctrl)
  /\ UNCHANGED <<serverVars, data, discard_index_ds, guard_index, curpos,
                 stream_start, hand, decoder>>

(* _x_demux_seek(): with the demuxer stopped, everything in the engine's   *)
(* buffers and decoders is thrown away.                                    *)
DemuxSeek == /\ ctl = "seek"
             /\ hand = -1
             /\ decoder' = {}
             /\ ctl' = "flushed"
             /\ UNCHANGED <<serverVars, ctrl, data, clientVars, ctlIndex, hand>>

(* The lock is taken again.                                                *)
ControlDiscarded ==
  /\ ctl = "flushed"
  /\ stream_start' = TRUE
  /\ discard_index' = ctlIndex
  /\ ctl' = "idle"
  /\ UNCHANGED <<serverVars, ctrl, data, discard_index_ds, guard_index, curpos,
                 ctlIndex, hand, decoder>>

(* vdr_plugin_flush_remote(): wait for the data, at most for the timeout.  *)
ControlFlush ==
  /\ NextIs("FLUSH")
  /\ guard_index' = Head(ctrl).pos
  /\ ctrl' = Tail(ctrl)
  /\ UNCHANGED <<serverVars, data, discard_index, discard_index_ds, curpos,
                 stream_start, threadVars, decoder>>

-----------------------------------------------------------------------------
(* The demuxer's thread, vdr_plugin_read_block().                          *)

(* Wrong variant: the data stream is read on.                              *)
NeverWait == TRUE

(* The data stream is ahead of the control stream: nothing is read.        *)
StreamsInSync == discard_index >= discard_index_ds

(* vdr_plugin_read_block_tcp(): the next message of the data stream, when  *)
(* the reader is not to wait and has nothing in its hands.                 *)
NextData(kind) ==
  StreamsInSync /\ hand = -1 /\ data # <<>> /\ Head(data).kind = kind

ReadFrame ==
  /\ NextData("frame")
  /\ hand' = Head(data).pos
  /\ data' = Tail(data)
  /\ UNCHANGED <<serverVars, ctrl, clientVars, ctl, ctlIndex, decoder>>

(* data_stream_parse_control(): the reader waits from here on, a second in *)
(* wait_stream_sync(), and again in each following call.                   *)
DataDiscard ==
  /\ NextData("DISCARD")
  /\ discard_index_ds' = Head(data).pos
  /\ data' = Tail(data)
  /\ UNCHANGED <<serverVars, ctrl, discard_index, guard_index, curpos,
                 stream_start, threadVars, decoder>>

(* preprocess_buf()'s decision.                                            *)
Discards(pos) == discard_index > pos /\ guard_index < pos

PreprocessBuf ==
  /\ hand # -1
  /\ IF Discards(hand)
       THEN /\ curpos' = hand
            /\ UNCHANGED <<stream_start, decoder>>
       ELSE /\ curpos' = hand + 1
            /\ stream_start' = FALSE
            /\ decoder' = decoder \cup {hand}
  /\ hand' = -1
  /\ UNCHANGED <<serverVars, ctrl, data, discard_index, discard_index_ds,
                 guard_index, ctl, ctlIndex>>

-----------------------------------------------------------------------------
Device  == Play \/ Flush \/ Clear
Writer  == \E i \in DOMAIN data : WriterDrop(i)
Control == ControlDiscard \/ DemuxSeek \/ ControlDiscarded \/ ControlFlush
Reader  == ReadFrame \/ DataDiscard \/ PreprocessBuf

Next == Device \/ Writer \/ Control \/ Reader

(* Both connections deliver and both client threads run; the demuxer lets  *)
(* a waiting seek in after each block (demux_action_pending).              *)
Spec == /\ Init /\ [][Next]_vars
        /\ WF_vars(Control)
        /\ SF_vars(DemuxSeek)
        /\ WF_vars(Reader)

-----------------------------------------------------------------------------
TypeOK ==
  /\ m_StreamPos \in Nat /\ m_LastClearPos \in 0 .. m_StreamPos
  /\ discard_index \in 0 .. m_LastClearPos
  /\ discard_index_ds \in 0 .. m_LastClearPos
  /\ guard_index \in 0 .. m_StreamPos /\ curpos \in 0 .. m_StreamPos
  /\ stream_start \in BOOLEAN
  /\ ctl \in {"idle", "seek", "flushed"}
  /\ hand \in -1 .. m_StreamPos
  /\ decoder \subseteq 0 .. m_StreamPos

(* A Clear() loses nothing that was played after it: neither does the      *)
(* engine flush throw such a frame away, nor does preprocess_buf() drop    *)
(* it.  Frames behind the clear position must not reach the demuxer while  *)
(* the flush for that position is still to come, although the control      *)
(* thread gives up the lock for it.                                        *)
NewDataKept ==
  [][ /\ ctl = "seek" /\ ctl' = "flushed" => \A p \in decoder : p < ctlIndex
      /\ hand # -1 /\ hand' = -1 /\ hand \notin decoder' => hand < discard_index ]_vars

(* "Send to control stream and data stream.  If message is sent only to    *)
(* control stream, and it is delayed, engine flush will be skipped."  With *)
(* both messages the flush is never skipped because the data stream has    *)
(* passed the clear position already.                                      *)
FlushNotSkippedLate ==
  [][ /\ ctl = "idle" /\ ctl' = "idle" /\ discard_index' > discard_index
      => curpos <= discard_index' ]_vars

(* The two streams meet again: the reader does not wait for ever.          *)
ReaderResumes == ~StreamsInSync ~> StreamsInSync
=============================================================================
