---- MODULE Metronom ----
(***************************************************************************)
(* The client's own metronom, put before the one of xine's stream while    *)
(* the input plugin is there (xvdr_metronom.c), and the hook of the video  *)
(* driver that tells it the timestamp of each frame shown (vo_lastpts.c):  *)
(* what GETSTC answers with.  The stream outlives the input plugin, the    *)
(* hook outlives both; the decoder, the output and the control thread run  *)
(* side by side, frames wait between the first two.                        *)
(*                                                                         *)
(* Buffering at the start of live streams is not modelled: nobody enables  *)
(* it (XVDR_METRONOM_LIVE_BUFFERING).                                      *)
(***************************************************************************)
EXTENDS Naturals, Sequences

CONSTANTS FramePts,      \* timestamps of frames, 0 for none
          MaxFrames,     \* bound: frames between decoder and output
          MaxMetronoms   \* bound: input plugins opened one after the other

VideoStreams == {"main", "slave"}
NoStream == "none"
Original == 0            \* xine's own metronom

VARIABLES mtr,     \* stream->metronom of the main stream, and its fields
          hook,    \* lastpts_hook_t
          video    \* frames on their way to the output, and the last one shown

mtrVars == <<mtr, hook, video>>

\* metronoms are numbered; the slave stream has xine's own
StreamMetronom(m, stream) == IF stream = "main" THEN m.metronom ELSE Original

MtrInit ==
  /\ mtr = [metronom |-> Original, made |-> 0, trickspeed |-> FALSE, still_mode |-> FALSE, last_vo_pts |-> 0]
  /\ hook = [prev_stream |-> NoStream, xvdr_stream |-> NoStream, xvdr_metronom |-> Original]
  /\ video = [queue |-> <<>>, shown |-> 0]

\* xvdr_metronom_init(): a new one for each input plugin, wired at once
MetronomInit ==
  /\ mtr.metronom = Original /\ mtr.made < MaxMetronoms
  /\ mtr' = [metronom |-> mtr.made + 1, made |-> mtr.made + 1,
             trickspeed |-> FALSE, still_mode |-> FALSE, last_vo_pts |-> 0]
  /\ video' = [video EXCEPT !.shown = 0]
  /\ UNCHANGED hook

\* where frames of the slave stream wait
SlaveFrames == {i \in 1 .. Len(video.queue) : video.queue[i].stream # "main"}

\* xvdr_metronom_dispose() of the input plugin; the engine has discarded the
\* stream's frames when it stopped; the others keep their order
MetronomDispose ==
  /\ mtr.metronom # Original
  /\ mtr' = [mtr EXCEPT !.metronom = Original]
  /\ \E n \in 0 .. Len(video.queue) : \E from \in [1 .. n -> SlaveFrames] :
       /\ \A i, j \in 1 .. n : i < j => from[i] < from[j]
       /\ \A k \in SlaveFrames : \E i \in 1 .. n : from[i] = k
       /\ video' = [video EXCEPT !.queue = [i \in 1 .. n |-> video.queue[from[i]]]]
  /\ UNCHANGED hook

\* set_option() by the control thread
SetStillMode == \E on \in BOOLEAN : mtr' = [mtr EXCEPT !.still_mode = on] /\ UNCHANGED <<hook, video>>
SetTrickSpeed == \E on \in BOOLEAN : mtr' = [mtr EXCEPT !.trickspeed = on] /\ UNCHANGED <<hook, video>>
MetronomOption == mtr.metronom # Original /\ (SetStillMode \/ SetTrickSpeed)

\* got_video_frame(): xine's metronom times the frame by `timed`, the frame keeps its pts
Timed(pts) == IF mtr.still_mode \/ mtr.trickspeed THEN 0 ELSE pts
GotVideoFrame(pts) == [stream |-> "main", pts |-> pts, timed |-> Timed(pts)]

FrameDecoded ==
  /\ Len(video.queue) < MaxFrames
  /\ \E pts \in FramePts :
       \/ /\ mtr.metronom # Original
          /\ video' = [video EXCEPT !.queue = Append(@, GotVideoFrame(pts))]
       \/ video' = [video EXCEPT !.queue = Append(@, [stream |-> "slave", pts |-> pts, timed |-> pts])]
  /\ UNCHANGED <<mtr, hook>>

\* detect_xvdr_metronom()
Detect(h, stream) ==
  IF StreamMetronom(mtr, stream) # Original
  THEN [h EXCEPT !.xvdr_metronom = StreamMetronom(mtr, stream), !.xvdr_stream = stream]
  ELSE h

\* Wrong variant, for the sensitivity checks: the hook is content with
\* the stream it knows
DetectedOnce(stream) ==
  IF stream # hook.prev_stream THEN Detect([hook EXCEPT !.prev_stream = stream], stream) ELSE hook

\* lastpts_display_frame(): what the hook knows when it has seen the frame's stream
Detected(stream) ==
  LET changed == IF stream # hook.prev_stream
                 THEN Detect([hook EXCEPT !.prev_stream = stream], stream) ELSE hook
  IN  IF stream = changed.xvdr_stream /\ changed.xvdr_metronom # StreamMetronom(mtr, stream)
      THEN Detect([changed EXCEPT !.xvdr_metronom = Original], stream) ELSE changed

\* frames without a timestamp and anonymous ones pass
FrameShown ==
  /\ video.queue # <<>>
  /\ LET frame == Head(video.queue)
         h == Detected(frame.stream)
         told == frame.pts > 0 /\ frame.stream = h.xvdr_stream /\ h.xvdr_metronom # Original
     IN  /\ hook' = IF frame.pts > 0 THEN h ELSE hook
         /\ mtr' = IF told /\ h.xvdr_metronom = mtr.metronom
                   THEN [mtr EXCEPT !.last_vo_pts = frame.pts] ELSE mtr
         /\ video' = [queue |-> Tail(video.queue),
                      shown |-> IF frame.stream = "main" /\ frame.pts > 0 /\ mtr.metronom # Original
                                THEN frame.pts ELSE video.shown]

MtrNext == MetronomInit \/ MetronomDispose \/ MetronomOption \/ FrameDecoded \/ FrameShown

---------------------------------------------------------------------------
MtrTypeOK ==
  /\ mtr.metronom \in 0 .. MaxMetronoms /\ mtr.last_vo_pts \in FramePts
  /\ hook.prev_stream \in VideoStreams \cup {NoStream} /\ hook.xvdr_metronom \in 0 .. MaxMetronoms
  /\ Len(video.queue) <= MaxFrames

\* The time the frontend reports is that of the frame of VDR's stream shown last,
\* also when streams alternate, when the input plugin and its metronom were
\* replaced while the hook stayed, and in trick speed, where xine itself is not
\* told the timestamp: got_video_frame() gives it back, lastpts_display_frame()
\* finds the metronom of today.
LastPtsCurrent == mtr.metronom # Original => mtr.last_vo_pts = video.shown
====
