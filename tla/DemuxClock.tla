----------------------------- MODULE DemuxClock -----------------------------
(***************************************************************************)
(* The client's demuxer watches the timestamps of what it passes to the    *)
(* decoders (check_newpts(), pts_wrap_workaround() and demux_xvdr_seek()   *)
(* of demux_xvdr.c) and announces a new timestamp base where the stream    *)
(* starts or jumps (_x_demux_control_newpts()).  Timestamps wrap: here     *)
(* they are 1..PtsMax, 0 is "no timestamp".  The thresholds of the code    *)
(* are constants, scaled with PtsMax.                                      *)
(*                                                                         *)
(* The stream advances continuously except where VDR switches it; the      *)
(* video is sent ahead of the audio, and its B frames out of order.        *)
(***************************************************************************)
EXTENDS Integers

CONSTANTS PtsMax,        \* the largest timestamp (0x1ffffffff)
          WrapThreshold, \* 4 seconds
          GopWindow,     \* 14400: a wrap within a GOP
          AudioHigh,     \* 0x40400000
          VideoLow,      \* 0x40000000
          MaxLead,       \* how far the video is ahead of the audio
          MaxBack,       \* how far a B frame is behind the frames around it
          MaxPos         \* model bound: how far a stream gets

(* The thresholds are large against the disorder of a stream, and small     *)
(* against the range of the timestamps.                                     *)
ASSUME ClockAssumption ==
  /\ {PtsMax, WrapThreshold, GopWindow, AudioHigh, VideoLow} \subseteq Nat \ {0}
  /\ MaxLead \in Nat \ {0} /\ MaxBack \in Nat /\ MaxPos \in Nat
  /\ MaxLead < WrapThreshold /\ MaxBack < WrapThreshold
  /\ MaxBack < GopWindow /\ 2 * GopWindow + MaxBack < PtsMax
  /\ MaxLead <= VideoLow /\ VideoLow + MaxBack <= AudioHigh /\ AudioHigh + MaxLead <= PtsMax

VARIABLES
  clk,      \* the demuxer's fields and what the metronom's options are
  av        \* the stream, and what was announced: see AvStart

clockVars == <<clk, av>>

PTS_AUDIO == 0
PTS_VIDEO == 1

Timestamp(pos) == ((pos - 1) % PtsMax) + 1
AbsDiff(a, b) == IF a < b THEN b - a ELSE a - b

-----------------------------------------------------------------------------
(* Wrong variant, for the sensitivity checks: only the video is looked at. *)
PtsWrapWorkaroundVideo(c, pts, video) ==
  IF /\ video = PTS_VIDEO /\ c.last_vpts < GopWindow /\ c.last_vpts > 0
     /\ pts > PtsMax - GopWindow /\ ~c.send_newpts
  THEN 0 ELSE pts

(* The pts with which a buffer goes on, 0 when it is hidden.               *)
PtsWrapWorkaround(c, pts, video) ==
  IF video = PTS_VIDEO
  THEN IF /\ c.last_vpts < GopWindow /\ c.last_vpts > 0
          /\ pts > PtsMax - GopWindow /\ ~c.send_newpts
       THEN 0 ELSE pts
  ELSE IF pts > AudioHigh /\ c.last_vpts < VideoLow /\ c.last_vpts > 0
       THEN 0 ELSE pts

Skipped(c, video) == video = PTS_VIDEO /\ (c.still_mode \/ c.trick_speed)

Announces(c, pts, video) ==
  \/ c.send_newpts
  \/ c.last_pts[video] # 0 /\ AbsDiff(pts, c.last_pts[video]) > WrapThreshold

Larger(a, b) == IF a < b THEN b ELSE a

(* How often the timestamps wrapped up to a place in the stream, and since  *)
(* the stream started.                                                      *)
Epoch(pos) == (pos - 1) \div PtsMax
Wraps(a) == Epoch(Larger(a.start + 1, Larger(a.v, a.a))) - Epoch(a.start + 1)

(* A buffer with a timestamp comes by.                                     *)
CheckNewPts(c, a, pts, video) ==
  LET shown == PtsWrapWorkaround(c, pts, video)
      seen  == IF video = PTS_VIDEO /\ shown # 0 THEN [c EXCEPT !.last_vpts = pts] ELSE c
      newpts == shown # 0 /\ Announces(c, shown, video)
  IN  /\ clk' = IF shown = 0 THEN seen
                ELSE [seen EXCEPT !.last_pts = [v \in {PTS_AUDIO, PTS_VIDEO} |-> shown],
                                  !.send_newpts = @ /\ ~newpts,
                                  !.buf_flag_seek = @ /\ ~newpts]
      /\ av' = IF shown = 0 THEN [a EXCEPT !.hidden = @ \/ Wraps(a) = 0]
               ELSE [a EXCEPT !.newpts = IF newpts THEN @ + 1 ELSE @,
                              !.seekflags = IF newpts /\ c.buf_flag_seek THEN @ + 1 ELSE @,
                              !.base = IF newpts THEN shown ELSE @,
                              !.last = shown]

-----------------------------------------------------------------------------
(* The stream.  base: the announced timestamp; last: the timestamp the     *)
(* decoders got last; newpts, seekflags: how many announcements there were *)
(* since the stream started or jumped, and how many of a seek; hidden: a   *)
(* timestamp was hidden though the stream did not wrap.                    *)
AvStart(pos) == [v |-> pos, a |-> pos, start |-> pos, base |-> 0, last |-> 0,
                 newpts |-> 0, seekflags |-> 0, hidden |-> FALSE]

VideoAt(pos, a) ==
  IF Skipped(clk, PTS_VIDEO) THEN clk' = clk /\ av' = a
  ELSE CheckNewPts(clk, a, Timestamp(pos), PTS_VIDEO)

VideoFrame ==
  \/ /\ av.v <= MaxPos /\ av.v < av.a + MaxLead
     /\ VideoAt(av.v + 1, [av EXCEPT !.v = @ + 1])
  \/ \E back \in 0 .. MaxBack :               \* a B frame
       av.v - back > av.start /\ VideoAt(av.v - back, av)

AudioFrame ==
  /\ av.a < av.v \/ av.v = av.start          \* after a seek, either comes first
  /\ av.a <= av.v /\ av.a <= MaxPos
  /\ ~(clk.still_mode \/ clk.trick_speed)   \* cXinelibDevice::AcceptAudioPacket()
  /\ CheckNewPts(clk, [av EXCEPT !.a = @ + 1], Timestamp(av.a + 1), PTS_AUDIO)

(* Wrong variant: the last video timestamp is from before the seek.        *)
ClockSeekKeepsVpts(c, playing) ==
  IF playing
  THEN [c EXCEPT !.send_newpts = TRUE, !.buf_flag_seek = TRUE]
  ELSE [c EXCEPT !.send_newpts = TRUE, !.buf_flag_seek = FALSE,
                 !.last_pts = [v \in {PTS_AUDIO, PTS_VIDEO} |-> 0]]

(* demux_xvdr_seek(): the stream starts, or the engine is flushed and what *)
(* comes then is another part of it.                                       *)
ClockSeek(c, playing) ==
  IF playing
  THEN [c EXCEPT !.send_newpts = TRUE, !.buf_flag_seek = TRUE, !.last_vpts = -1]
  ELSE [c EXCEPT !.send_newpts = TRUE, !.buf_flag_seek = FALSE,
                 !.last_pts = [v \in {PTS_AUDIO, PTS_VIDEO} |-> 0]]

Opened == [last_pts |-> [v \in {PTS_AUDIO, PTS_VIDEO} |-> 0], last_vpts |-> 0,
           send_newpts |-> FALSE, buf_flag_seek |-> FALSE,
           still_mode |-> FALSE, trick_speed |-> FALSE]
(* A demuxer is opened for each connection, and sought with playing =      *)
(* FALSE only then (fe_xine_play()).                                       *)
Play == ClockSeek(Opened, FALSE)

Seek ==
  \E pos \in 0 .. MaxPos :
    /\ clk' \in {Play, [ClockSeek(clk, TRUE) EXCEPT !.still_mode = FALSE, !.trick_speed = FALSE]}
    /\ av' = AvStart(pos)

(* set_still_mode() and set_trick_speed() set the metronom's options; VDR  *)
(* clears the device when it leaves these modes (cXinelibDevice::Clear()), *)
(* and the engine is flushed.                                              *)
MetronomOptions ==
  /\ clk' \in {[clk EXCEPT !.still_mode = TRUE], [clk EXCEPT !.trick_speed = TRUE]}
  /\ UNCHANGED av

ClockInit ==
  /\ clk = Play
  /\ \E pos \in 0 .. MaxPos : av = AvStart(pos)

ClockNext == VideoFrame \/ AudioFrame \/ Seek \/ MetronomOptions

-----------------------------------------------------------------------------
(* Type invariant.                                                         *)
ClockTypeOK ==
  /\ clk.last_vpts \in -1 .. PtsMax
  /\ \A v \in {PTS_AUDIO, PTS_VIDEO} : clk.last_pts[v] \in 0 .. PtsMax
  /\ av.base \in 0 .. PtsMax /\ av.last \in 0 .. PtsMax

(* The timestamp base is announced before the first timestamp of a stream, *)
(* and again only where the stream wraps: once for each wrap, whichever of  *)
(* the late audio and the reordered video comes across; nothing is hidden of *)
(* a stream that does not wrap (pts_wrap_workaround(), demux_xvdr_seek()). *)
OneBase ==
  /\ av.last # 0 => av.base # 0
  /\ av.newpts <= 1 + Wraps(av)
  /\ av.seekflags <= 1
  /\ ~av.hidden
=============================================================================
