---- MODULE HudOsd ----
(***************************************************************************)
(* The Head Up Display of the X11 frontend (xine_sxfe_frontend.c, --hud):  *)
(* the OSD drawn into a window of its own above the video.  The control    *)
(* thread brings VDR's commands (hud_osd_command()), the main loop follows *)
(* the focus and the size of the video window, xine's output thread places *)
(* the video into the OSD's video window (hud_frame_output_cb()).  The     *)
(* first two hold the display lock for a whole command or event.           *)
(*                                                                         *)
(* Of a picture only its place is told apart.  VDR sends OSD_Size before   *)
(* the first picture and after OSD_Close (OsdProvider).                    *)
(***************************************************************************)
EXTENDS Naturals

CONSTANTS Areas,        \* places of pictures; a picture in one of them may be transparent
          HudMax,       \* HUD_MAX_WIDTH, HUD_MAX_HEIGHT
          HudSizes      \* OSD sizes VDR asks for

VARIABLES hud,      \* sxfe_t: the OSD, and the video window in it
          surf,     \* what is drawn: in memory, in the back image, in the window
          place     \* xine's output thread in hud_frame_output_cb(), and where it put the last frame

hudVars == <<hud, surf, place>>

Full == 0    \* the video fills its window; other values are video windows of an OSD

HudInit ==   \* hud_osd_open()
  /\ \E x \in BOOLEAN : hud = [xshape |-> x, visible |-> FALSE, size |-> HudMax, layered |-> FALSE,
                               active |-> FALSE, changed |-> FALSE, win |-> Full]
  /\ surf = [mapped |-> FALSE, mask |-> {}, back |-> {}, shown |-> {}]
  /\ place = [at |-> "idle", dest |-> Full]

---------------------------------------------------------------------------
(* hud_osd_command()                                                       *)

Unsupported(size) == size > HudMax

\* hud_osd_show(): the shape is nothing yet
Shown(h, s) ==
  IF h.visible THEN [h |-> h, s |-> s]
  ELSE [h |-> [h EXCEPT !.visible = TRUE, !.active = FALSE],
        s |-> IF h.xshape THEN [s EXCEPT !.back = {}, !.mask = {}, !.mapped = TRUE] ELSE s]

OsdSize(size) ==
  /\ LET h == [hud EXCEPT !.size = size]
         r == IF Unsupported(size) THEN [h |-> h, s |-> surf] ELSE Shown(h, surf)
     IN  hud' = [r.h EXCEPT !.layered = TRUE] /\ surf' = r.s
  /\ UNCHANGED place

\* hud_osd_draw(): with XShape by the back image, and the mask grows or shrinks
\* with the picture; what is drawn into a window that is not mapped may be lost
Painted(places, a, transparent) == IF transparent THEN places \ {a} ELSE places \cup {a}
Kept(s, drawn) == IF s.mapped THEN {drawn} ELSE {drawn, s.shown}

\* Wrong variant, for the sensitivity checks: a hidden OSD is drawn to
OsdSetHidden(a, transparent) ==
  /\ hud.layered /\ ~Unsupported(hud.size)
  /\ surf' = [surf EXCEPT !.mask = IF hud.xshape THEN Painted(@, a, transparent) ELSE @,
                          !.shown = Painted(@, a, transparent)]
  /\ UNCHANGED <<hud, place>>

OsdSet(a, transparent) ==
  /\ hud.layered /\ hud.visible
  /\ ~Unsupported(hud.size)
  /\ \E shown \in Kept(surf, Painted(surf.shown, a, transparent)) :
       surf' = [surf EXCEPT !.back = IF hud.xshape THEN Painted(@, a, transparent) ELSE @,
                            !.mask = IF hud.xshape THEN Painted(@, a, transparent) ELSE @,
                            !.shown = shown]
  /\ UNCHANGED <<hud, place>>

\* osd_set_video_window()
OsdVideoWindow(w) ==
  /\ hud.layered
  /\ hud' = [hud EXCEPT !.changed = @ \/ w # hud.win, !.win = w, !.active = TRUE]
  /\ UNCHANGED <<surf, place>>

\* hud_osd_hide()
Hidden(s, xshape) ==
  [s EXCEPT !.mapped = @ /\ ~xshape, !.mask = {}, !.shown = {}]

OsdClose ==
  /\ hud.layered
  /\ \/ /\ ~hud.visible \/ Unsupported(hud.size)
        /\ hud' = [hud EXCEPT !.layered = FALSE]
        /\ UNCHANGED surf
     \/ /\ hud.visible /\ ~Unsupported(hud.size)
        /\ hud' = [hud EXCEPT !.layered = FALSE, !.visible = FALSE, !.active = FALSE]
        /\ surf' = Hidden(surf, hud.xshape)
  /\ UNCHANGED place

---------------------------------------------------------------------------
(* sxfe_run(): hud_osd_focus()                                             *)

FocusIn ==
  /\ ~surf.mapped
  /\ surf' = [surf EXCEPT !.mapped = TRUE]
  /\ UNCHANGED <<hud, place>>

FocusOut ==
  /\ surf.mapped
  /\ surf' = [surf EXCEPT !.mapped = FALSE]
  /\ UNCHANGED <<hud, place>>

---------------------------------------------------------------------------
(* hud_frame_output_cb(): video_win_active is read before the lock         *)

FrameOutput ==
  /\ place.at = "idle"
  /\ place' = IF hud.active THEN [place EXCEPT !.at = "active"] ELSE [place EXCEPT !.dest = Full]
  /\ UNCHANGED <<hud, surf>>

FramePlaced ==
  /\ place.at = "active"
  /\ place' = [at |-> "idle", dest |-> hud.win]
  /\ hud' = [hud EXCEPT !.changed = FALSE]
  /\ UNCHANGED surf

HudNext ==
  \/ \E size \in HudSizes : OsdSize(size)
  \/ \E a \in Areas, transparent \in BOOLEAN : OsdSet(a, transparent)
  \/ \E w \in Areas : OsdVideoWindow(w)
  \/ OsdClose
  \/ FocusIn \/ FocusOut
  \/ FrameOutput \/ FramePlaced

---------------------------------------------------------------------------

HudTypeOK ==
  /\ hud.win \in Areas \cup {Full} /\ place.dest \in Areas \cup {Full}
  /\ surf.mask \subseteq Areas /\ surf.back \subseteq Areas /\ surf.shown \subseteq Areas

\* Nothing of a closed OSD is left above the video, whatever the focus does.
HiddenShowsNothing == ~hud.visible => surf.shown = {} /\ surf.mask = {}
====
