---- MODULE Autocrop ----
(***************************************************************************)
(* The autocrop post plugin (xine_post_autocrop.c) crops the black bars of *)
(* letterboxed frames.  Every few frames the bars are looked for; what is  *)
(* found has to stay for a while before the crop follows it, and a         *)
(* subtitle in the bottom bar keeps the bar from being cropped for the     *)
(* time of height_limit_timer.  The decoder's thread calls                 *)
(* autocrop_get_frame() and autocrop_draw(), frames may be ahead of their  *)
(* drawing; another thread calls autocrop_set_parameters().                *)
(*                                                                         *)
(* Lines are counted in 1/32 of a frame's height (of the larger format),   *)
(* times in frames that are analysed.  What a frame looks like, and which  *)
(* frames are analysed, is left open.  "stabilize" is on, as by default.   *)
(***************************************************************************)
EXTENDS Integers, Sequences

CONSTANTS Heights,       \* of 4:3 frames, one after the other
          Tops, Bottoms, \* where the picture may begin and end in a frame of the first height
          SmallBar,      \* 10 lines
          Near,          \* 5 lines
          SoftStep,      \* soft_start_step
          StabilizeTime, SubsLifetime, SubsStabilizeTime,
          MaxAhead       \* bound: frames the decoder has got and not drawn

VARIABLES crop,    \* autocrop_post_plugin_t
          ahead,   \* the heights of the frames that are not drawn yet
          shown,   \* history: the height of the last frame drawn
          switched \* history: the detection was switched on while a crop was active,
                   \* and that crop has not ended

cropVars == <<crop, ahead, shown, switched>>

Abs(n) == IF n < 0 THEN -n ELSE n
Even(n) == n - (n % 2)
Clamp(n, low, high) == IF n < low THEN low ELSE IF n > high THEN high ELSE n

CropInit ==
  /\ crop \in [autodetect : BOOLEAN, subs_detect : BOOLEAN, soft_start : BOOLEAN,
               cropping_active : {FALSE}, start_line : {0}, end_line : {0},
               stabilized_start_line : {0}, stabilized_end_line : {0}, stabilize_timer : {0},
               detected_end_line : {0}, prev_detected_end_line : {0}, end_line_stabilize_timer : {0},
               height_limit_active : {FALSE}, height_limit : {0}, height_limit_timer : {0},
               prev_height : {0}]
  /\ ahead = <<>> /\ shown = 0 /\ switched = FALSE

---------------------------------------------------------------------------
(* analyze_frame(): the bars found are taken for those of 14:9, 16:9 or    *)
(* 20:9.                                                                   *)
Wide(bottom, h) == LET bar == h - bottom
                   IN  IF bar < (h * 3) \div 32 THEN 0 ELSE IF bar < (h * 3) \div 16 THEN 1 ELSE 2
CropStart(top, bottom, h) ==
  IF top < h \div 32 THEN 0
  ELSE IF top < (h * 3) \div 32 THEN h \div 16
  ELSE IF top < (h * 3) \div 16 \/ Wide(bottom, h) > 0 THEN h \div 8 ELSE h \div 4
CropEnd(bottom, h) ==
  CASE Wide(bottom, h) = 0 -> IF h - bottom < h \div 32 THEN h - 1 ELSE (h * 15) \div 16 - 1
    [] Wide(bottom, h) = 1 -> (h * 7) \div 8 - 1
    [] Wide(bottom, h) = 2 -> Clamp((h * 3) \div 4 - 1 + h \div 8, 0, h - 1)
Analysed(top, bottom, h) == [start |-> Even(CropStart(top, bottom, h)), end |-> Even(CropEnd(bottom, h) + 1)]

---------------------------------------------------------------------------
(* autocrop_draw(), part by part: c is the plugin, l the lines start_line  *)
(* and end_line of the call.                                               *)

\* the timestamp has jumped by more than 30 s, or 30 min
Jumped(c, jump) ==
  IF ~c.cropping_active \/ jump = "none" THEN c
  ELSE [c EXCEPT !.height_limit_timer = IF c.height_limit_active THEN SubsLifetime \div 2 ELSE @,
                 !.cropping_active = jump # "long"]
Lines(c, h) == IF c.cropping_active THEN [start |-> c.stabilized_start_line, end |-> c.stabilized_end_line]
               ELSE [start |-> 0, end |-> h]

\* Wrong variant, for the sensitivity checks: the lines of another format are kept
ActivatedKeeps(c, l, h) ==
  IF ~c.cropping_active /\ (l.start > SmallBar \/ l.end < h - SmallBar)
  THEN [c EXCEPT !.cropping_active = TRUE, !.stabilize_timer = StabilizeTime,
                 !.height_limit_active = FALSE, !.end_line_stabilize_timer = SubsStabilizeTime]
  ELSE c

Activated(c, l, h) ==
  IF ~c.cropping_active /\ (l.start > SmallBar \/ l.end < h - SmallBar)
  THEN [c EXCEPT !.cropping_active = TRUE, !.stabilized_start_line = 0, !.start_line = 0,
                 !.stabilized_end_line = h, !.end_line = h, !.detected_end_line = h,
                 !.prev_detected_end_line = h, !.stabilize_timer = StabilizeTime,
                 !.height_limit_active = FALSE, !.end_line_stabilize_timer = SubsStabilizeTime]
  ELSE c
Subtitled(c) == c.cropping_active /\ c.subs_detect

\* Wrong variant, for the sensitivity checks: the timer runs on past its end
DetectedOnAndOn(c, l) ==
  IF ~Subtitled(c) THEN c
  ELSE LET differs == Abs(c.detected_end_line - l.end) > Near
           lifetime == c.height_limit_timer - 1
       IN  [c EXCEPT !.detected_end_line = IF differs /\ c.end_line_stabilize_timer <= 1 THEN l.end ELSE @,
                     !.end_line_stabilize_timer = IF differs THEN @ - 1 ELSE SubsStabilizeTime,
                     !.height_limit_timer = IF c.height_limit_active THEN lifetime ELSE @,
                     !.height_limit_active = @ /\ lifetime > 0]

\* the end line counts as detected when it has been another for a while; the limit runs out
Detected(c, l) ==
  IF ~Subtitled(c) THEN c
  ELSE LET differs == Abs(c.detected_end_line - l.end) > Near
           due == differs /\ c.end_line_stabilize_timer <= 1
           lifetime == c.height_limit_timer - 1
       IN  [c EXCEPT !.detected_end_line = IF due THEN l.end ELSE @,
                     !.end_line_stabilize_timer = IF differs /\ ~due THEN @ - 1 ELSE SubsStabilizeTime,
                     !.height_limit_timer = IF c.height_limit_active THEN lifetime ELSE @,
                     !.height_limit_active = @ /\ lifetime > 0]

\* Wrong variant, for the sensitivity checks: the limit is applied when
\* the picture is analysed for the first time only
LimitedNot(c, l) == l

Limited(c, l) ==
  IF Subtitled(c) /\ c.height_limit_active /\ l.end < c.height_limit
  THEN [l EXCEPT !.end = c.height_limit] ELSE l
Differs(c, l) == Abs(l.start - c.stabilized_start_line) > Near \/ Abs(l.end - c.stabilized_end_line) > Near
Waits(c, l) == ~Differs(c, l) \/ c.stabilize_timer > 1
Stabilized(c, l, h) ==
  IF Differs(c, l) /\ Waits(c, l) THEN [c EXCEPT !.stabilize_timer = @ - 1]
  ELSE [c EXCEPT !.stabilize_timer = StabilizeTime,
                 !.cropping_active = @ /\ (Waits(c, l) \/ l.start > SmallBar \/ l.end < h - SmallBar)]
StableLines(c, l) ==
  IF Waits(c, l) THEN [start |-> c.stabilized_start_line, end |-> c.stabilized_end_line] ELSE l
\* subtitles: "seen" is the end line of this frame
TopMoved(c, l) == Subtitled(c) /\ c.height_limit_active /\ Abs(c.stabilized_start_line - l.start) > Near
Subtitles(c, l, seen) ==
  LET larger == c.detected_end_line > c.prev_detected_end_line + Near
      limits == larger /\ (~c.height_limit_active \/ c.height_limit < c.detected_end_line)
      keeps  == larger /\ ~limits /\ c.height_limit_timer < SubsLifetime \div 4
  IN  IF ~Subtitled(c) THEN c
      ELSE IF TopMoved(c, l)
      THEN [c EXCEPT !.height_limit_active = FALSE, !.detected_end_line = seen, !.prev_detected_end_line = seen]
      ELSE [c EXCEPT !.height_limit = IF limits THEN c.detected_end_line ELSE @,
                     !.height_limit_timer = IF limits THEN SubsLifetime
                                            ELSE IF keeps THEN SubsLifetime \div 2 ELSE @,
                     !.height_limit_active = @ \/ limits,
                     !.prev_detected_end_line = c.detected_end_line]

\* the whole analysis of a frame in which `found` are the lines
Examined(before, found, h) ==
  LET c1 == Activated(before, found, h)
      c2 == Detected(c1, found)
      l2 == Limited(c2, found)
      c3 == Stabilized(c2, l2, h)
      l3 == StableLines(c2, l2)
      c4 == Subtitles(c3, l3, found.end)
      end == IF TopMoved(c3, l3) THEN found.end ELSE l3.end
  IN  [c4 EXCEPT !.stabilized_start_line = l3.start, !.stabilized_end_line = end]

\* "soft start"
Towards(old, new) == old + Clamp(new - old, -SoftStep, SoftStep)
Moved(c, l, h) ==
  LET soft == c.cropping_active /\ c.soft_start
  IN  [c EXCEPT !.start_line = IF soft THEN Towards(@, l.start) ELSE l.start,
                !.end_line = IF soft THEN Towards(@, l.end) ELSE l.end,
                !.prev_height = h]

\* without detection, the middle of the frame is shown
Fixed(c, h) == [c EXCEPT !.cropping_active = TRUE, !.start_line = h \div 8, !.end_line = (h * 7) \div 8]

Drawn(c, h) ==
  \/ crop' = Moved(c, Lines(c, h), h)         \* not analysed, or a bad frame
  \/ LET e == Examined(c, Lines(c, h), h)     \* black
     IN  crop' = Moved(e, [start |-> e.stabilized_start_line, end |-> e.stabilized_end_line], h)
  \/ \E top \in Tops, bottom \in Bottoms :
       LET e == Examined(c, Analysed(top, bottom, h), h)
       IN  /\ top < bottom /\ bottom <= h
           /\ crop' = Moved(e, [start |-> e.stabilized_start_line, end |-> e.stabilized_end_line], h)

Draw ==
  /\ ahead # <<>> /\ ahead' = Tail(ahead) /\ shown' = Head(ahead)
  /\ \/ /\ ~crop.autodetect
        /\ crop' = Fixed(crop, Head(ahead)) /\ switched' = FALSE
     \/ \E jump \in {"none", "short", "long"} :
          LET c == Jumped(crop, jump)
          IN  /\ crop.autodetect /\ Drawn(c, Head(ahead))
              /\ switched' = (switched /\ c.cropping_active /\ crop'.cropping_active)

\* autocrop_get_frame(): the decoder has drawn all frames of one size before it gets
\* one of another; 0 is a frame that is not cropped (HDTV, 16:9) and not intercepted
GetFrame ==
  /\ Len(ahead) < MaxAhead
  /\ \E h \in Heights \cup {0} :
       /\ \A i \in DOMAIN ahead : ahead[i] = h
       /\ crop' = [crop EXCEPT !.cropping_active = @ /\ h # 0 /\ (crop.autodetect => h = crop.prev_height)]
       /\ ahead' = IF h = 0 THEN ahead ELSE Append(ahead, h)
  /\ switched' = (switched /\ crop'.cropping_active)
  /\ UNCHANGED shown

\* autocrop_video_close()
VideoClose == /\ crop' = [crop EXCEPT !.cropping_active = FALSE] /\ ahead' = <<>>
              /\ switched' = FALSE /\ UNCHANGED shown

SetParameters ==
  /\ \E subs, soft, auto \in BOOLEAN :
       /\ crop' = [crop EXCEPT !.subs_detect = subs, !.soft_start = soft, !.autodetect = auto]
       /\ switched' = (switched \/ (auto /\ ~crop.autodetect /\ crop.cropping_active))
  /\ UNCHANGED <<ahead, shown>>

CropNext == GetFrame \/ Draw \/ VideoClose \/ SetParameters

CropSpec == CropInit /\ [][CropNext]_cropVars

---------------------------------------------------------------------------
\* Type invariant.
CropTypeOK ==
  /\ crop.stabilize_timer \in -1 .. StabilizeTime /\ crop.height_limit_timer \in 0 .. SubsLifetime
  /\ crop.end_line_stabilize_timer \in 0 .. SubsStabilizeTime
  /\ crop.prev_height \in Heights \cup {0} /\ Len(ahead) <= MaxAhead

\* What autocrop_draw() copies (crop_copy_yv12(), crop_copy_yuy2()) is a part of
\* the frame and not empty, although the lines were stabilized over frames that
\* came before, perhaps of another size, and the soft start is still on its way.
CropsWithin ==
  crop.cropping_active /\ ~switched => 0 <= crop.start_line /\ crop.start_line < crop.end_line /\ crop.end_line <= shown

\* Where a subtitle has been seen in the bottom bar and the crop has made room for
\* it, the room stays until height_limit_timer has run out or the top bar has moved,
\* also while no subtitle is shown.
SubtitlesKept ==
  [][ (/\ ~switched /\ crop.autodetect /\ crop.subs_detect /\ crop.cropping_active /\ crop'.cropping_active
       /\ crop.height_limit_active /\ crop'.height_limit_active /\ crop'.height_limit = crop.height_limit
       /\ crop.stabilized_end_line >= crop.height_limit)
      => crop'.stabilized_end_line >= crop.height_limit ]_cropVars

---------------------------------------------------------------------------
====
