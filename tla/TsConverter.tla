---------------------------- MODULE TsConverter ----------------------------
(***************************************************************************)
(* The client's demuxer takes transport streams apart (demux_xvdr.c,       *)
(* demux_xvdr_tsdata.c, ts2es.c): a converter per stream collects the      *)
(* payload of TS packets in buffers, and tells the decoder the end of each *)
(* frame.  One step handles one TS packet, or one call of the demuxer.     *)
(*                                                                         *)
(* A payload unit (PES packet) is one frame.  Units of a stream are        *)
(* numbered modulo 2, enough to tell a frame from the next; lengths are    *)
(* counted in TS packets.  "decoder" is what the fifo's other end has got. *)
(***************************************************************************)
EXTENDS Integers

CONSTANTS AudioTracks,   \* model bound: tracks 0..AudioTracks-1 in a PMT
          BufferPackets, \* TS packets a buffer takes before it is passed on
          MaxUnit        \* model bound: TS packets per payload unit

VARIABLES
  demux,    \* this->ts_data, audio_type, and what runs in the demuxer
  decoder   \* history, per stream: see NothingSeen

tsVars == <<demux, decoder>>

Tracks == 0 .. AudioTracks - 1
Video == -1
BadHeader == -1
Pids == {Video} \cup Tracks
NoTrack == -1

(* ts2es_t.  n: TS packets in this->buf (0: no buffer).  The last three    *)
(* are history: the number of the unit, the length its header announced,   *)
(* and how many packets of it were kept.                                   *)
Ts2Es == [n |-> 0, pes_len |-> 0, first_pusi_seen |-> FALSE, frame_end_sent |-> FALSE,
          pes_error |-> FALSE, unit |-> 0, announced |-> BadHeader, kept |-> 0]
NoTs2Es == [n |-> -1]
Present(pid) == demux.es[pid] # NoTs2Es

(* units: the numbers of the units in the frame that has not ended yet;    *)
(* n: packets of the last unit; whole: no packet of a good frame was kept from it.      *)
NothingSeen == [units |-> {}, n |-> 0, whole |-> TRUE]

-----------------------------------------------------------------------------
(* A buffer goes to the decoder: c is its converter as it was when the     *)
(* buffer was complete.  A flushed frame may be incomplete.                *)
Put(d, c, frameEnd, flushed) ==
  LET units == IF c.n > 0 THEN d.units \cup {c.unit} ELSE d.units
      n     == d.n + c.n
  IN  [units |-> IF frameEnd THEN {} ELSE units,
       n     |-> IF frameEnd /\ ~flushed THEN 0 ELSE n,
       whole |-> d.whole /\ (frameEnd /\ n > 0 /\ ~flushed => n = c.kept)]

(* ts2es_put(): a new payload unit ends the frame before it, with an empty *)
(* buffer if none is at hand.                                              *)
PusiEnds(c) == c.first_pusi_seen /\ (c.n > 0 \/ ~c.frame_end_sent)
NewUnit(c, header) ==
  [c EXCEPT !.n = 0, !.first_pusi_seen = TRUE, !.frame_end_sent = FALSE,
            !.unit = 1 - @, !.announced = header, !.kept = 0]
(* A buffer that is full is passed on before more is added.                *)
Full(c) == c.n >= BufferPackets
Split(c) == IF Full(c) THEN [c EXCEPT !.n = 0] ELSE c

Added(c) == [c EXCEPT !.n = @ + 1, !.kept = @ + 1]

(* ts2es_parse_pes(): "header" is the number of packets the PES header     *)
(* announces, 0 when it announces none, or BadHeader, which leaves pes_len *)
(* alone.                                                                  *)
(* Wrong variant, for the sensitivity checks: the length of a frame whose  *)
(* end was lost is left over when none is announced.                       *)
ParsePesKeepsLen(c, header) ==
  IF header = BadHeader THEN [c EXCEPT !.pes_error = TRUE]
  ELSE [c EXCEPT !.pes_error = FALSE, !.pes_len = IF header > 0 THEN header ELSE @]
ParsePes(c, header) ==
  IF header = BadHeader THEN [c EXCEPT !.pes_error = TRUE]
  ELSE [c EXCEPT !.pes_error = FALSE, !.pes_len = header]

(* The packet's bytes complete the unit: it goes out, and what the stream  *)
(* sends until the next unit is dropped.                                   *)
Completes(c) == c.pes_len = 1
Counted(c) ==
  IF Completes(c) THEN [c EXCEPT !.n = 0, !.pes_len = 0, !.pes_error = TRUE, !.frame_end_sent = TRUE]
  ELSE [c EXCEPT !.pes_len = IF @ > 0 THEN @ - 1 ELSE 0]

(* The converter behind ts2es_put() and what its buffers (at most two)     *)
(* tell the decoder.                                                       *)
PutStart(c, d, header) ==
  LET ended  == NewUnit(c, header)
      d1     == IF PusiEnds(c) THEN Put(d, c, TRUE, FALSE) ELSE d
      parsed == ParsePes(Added(ended), header)
  IN  [es |-> Counted(parsed), puts |-> PusiEnds(c) \/ Completes(parsed),
       decoder |-> IF Completes(parsed) THEN Put(d1, parsed, TRUE, FALSE) ELSE d1]

(* The unit is a good one, and not all of it has come.                     *)
Missing(c) == c.announced = 0 \/ c.announced > c.kept

PutMore(c, d) ==
  IF c.pes_error
  THEN [es |-> [c EXCEPT !.n = 0], puts |-> FALSE,    \* broken, or behind its end
        decoder |-> [d EXCEPT !.whole = @ /\ ~Missing(c)]]
  ELSE IF ~c.first_pusi_seen
  THEN [es |-> c, puts |-> FALSE, decoder |-> d]
  ELSE LET d1   == IF Full(c) THEN Put(d, c, FALSE, FALSE) ELSE d
           more == Added(Split(c))
       IN  [es |-> Counted(more), puts |-> Full(c) \/ Completes(more),
            decoder |-> IF Completes(more) THEN Put(d1, more, TRUE, FALSE) ELSE d1]

-----------------------------------------------------------------------------
(* ts_data_t.                                                              *)
NoData == [pid \in Pids |-> NoTs2Es]

(* ts_data_ts2es_init(): all converters are new.  The decoder keeps what   *)
(* it got of the frame: its history starts anew with the converter.        *)
Initialised(n) == [pid \in Pids |-> IF pid < n THEN Ts2Es ELSE NoTs2Es]

(* ts_data_reset_audio().                                                  *)
ResetAudio(es, n, keep) ==
  [pid \in Pids |-> IF pid = Video \/ pid = keep THEN es[pid]
                    ELSE IF pid < n THEN Ts2Es ELSE NoTs2Es]

(* ts2es_flush() of every converter: the buffer goes out as a whole frame. *)
FlushEs(c) == IF c # NoTs2Es /\ c.n > 0 THEN [c EXCEPT !.n = 0] ELSE c
FlushPut(c, d) == IF c # NoTs2Es /\ c.n > 0 THEN Put(d, c, TRUE, TRUE) ELSE d

FlushedEs == [pid \in Pids |-> FlushEs(demux.es[pid])]
FlushedDecoder == [pid \in Pids |-> FlushPut(demux.es[pid], decoder[pid])]
Anew == [pid \in Pids |-> [decoder[pid] EXCEPT !.units = {}, !.n = 0]]

-----------------------------------------------------------------------------
(* A packet of a stream: the first of a unit, or a later one.  Lost        *)
(* packets, packets with an error and those without payload change         *)
(* nothing.  A stream is put into the fifo as it comes; the first buffer   *)
(* of another audio track resets the converters of the others.             *)
Tracked(pid, r) ==
  LET es == [demux.es EXCEPT ![pid] = r.es]
      changes == pid # Video /\ r.puts /\ demux.audio_type # pid
  IN  /\ demux' = [demux EXCEPT !.es = IF changes THEN ResetAudio(es, demux.tracks, pid) ELSE es,
                                !.audio_type = IF changes THEN pid ELSE @]
      /\ decoder' = [p \in Pids |->
           IF p = pid THEN r.decoder
           ELSE IF changes /\ p # Video THEN Anew[p] ELSE decoder[p]]

UnitStarts ==
  \E pid \in Pids, header \in 0 .. MaxUnit \cup {BadHeader} :
    /\ Present(pid)
    /\ Tracked(pid, PutStart(demux.es[pid], decoder[pid], header))

UnitGoesOn ==
  \E pid \in Pids :
    /\ Present(pid)
    /\ demux.es[pid].kept < MaxUnit      \* bounds the model
    /\ Tracked(pid, PutMore(demux.es[pid], decoder[pid]))

(* A PMT with other streams; a video stream of an unknown type has none.   *)
PmtChanges ==
  \E n \in 0 .. AudioTracks :
    /\ demux' = [demux EXCEPT !.es = Initialised(n), !.tracks = n]
    /\ decoder' = Anew

(* A PAT with another program, a control buffer in the stream, or a read   *)
(* that was interrupted or timed out, flushes the converters.              *)
DemuxFlush ==
  /\ demux' = [demux EXCEPT !.es = FlushedEs]
  /\ decoder' = FlushedDecoder

(* The stream changes to PES packets: ts_data is flushed and freed.        *)
PesPacket ==
  /\ demux' = [demux EXCEPT !.es = NoData, !.tracks = 0]
  /\ decoder' = [pid \in Pids |-> [FlushedDecoder[pid] EXCEPT !.units = {}, !.n = 0]]

(* demux_xvdr_seek(), or the end of the stream.                            *)
DemuxSeek ==
  /\ demux' = [es |-> NoData, tracks |-> 0, audio_type |-> NoTrack]
  /\ decoder' = Anew

TsInit == /\ demux = [es |-> NoData, tracks |-> 0, audio_type |-> NoTrack]
          /\ decoder = [pid \in Pids |-> NothingSeen]

TsNext == UnitStarts \/ UnitGoesOn \/ PmtChanges \/ DemuxFlush \/ PesPacket \/ DemuxSeek

-----------------------------------------------------------------------------
(* Type invariant.                                                         *)
TsTypeOK ==
  /\ \A pid \in Pids : Present(pid) =>
       /\ demux.es[pid].n \in 0 .. BufferPackets
       /\ demux.es[pid].pes_len \in 0 .. MaxUnit
       /\ demux.es[pid].unit \in {0, 1}
  /\ demux.tracks \in 0 .. AudioTracks /\ demux.audio_type \in Tracks \cup {NoTrack}

(* The decoder gets frames one by one and whole: no frame has data of two  *)
(* payload units, and every packet of a frame whose header is good reaches *)
(* it before the end of the frame: whatever mix of known and unknown       *)
(* lengths, lost packets, broken headers, flushes and track changes        *)
(* ts2es_put() and track_audio_stream_change() see.                        *)
FramesWhole ==
  \A pid \in Pids : decoder[pid].whole /\ decoder[pid].units \in {{}, {0}, {1}}
=============================================================================
