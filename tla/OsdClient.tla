----------------------------- MODULE OsdClient -----------------------------
(***************************************************************************)
(* The OSD on the player's side: the window table that turns VDR's OSD     *)
(* commands into events of xine's overlay manager (xine/osd_manager.c),    *)
(* and the video output hook that scales overlays when a frame is drawn    *)
(* (xine/vo_osdscaler.c).  Commands come from the input plugin's threads,  *)
(* size changes from xine's event thread; the table's lock makes each one  *)
(* step.  What an overlay is drawn from is cached in both places, and the  *)
(* caches have to follow the size of the video.                            *)
(*                                                                         *)
(* Sizes are "small" (below 95 % of the OSD), "osd" and "large" (above     *)
(* 110 %); a picture is the number of the command that drew it.            *)
(***************************************************************************)
EXTENDS Integers, FiniteSets

CONSTANTS Wnds,         \* window handles of VDR
          Pictures      \* model bound: different pictures

Sizes == {"small", "osd", "large"}
Empty == 0              \* no picture, no stored data

VARIABLES
  wnd,        \* per window: the overlay handle, the stored command, what is shown
  screen,     \* the video size, what the output can do, whether ARGB is supported
  scaler      \* the hook: the overlays it has scaled, for which output

ocVars == <<wnd, screen, scaler>>

(* How a window may be drawn unscaled, over the scaled video.              *)
Flags == {"none", "OSDFLAG_UNSCALED", "OSDFLAG_UNSCALED_LOWRES"}

Closed == [handle |-> FALSE, stored |-> Empty, scaling |-> FALSE, argb |-> FALSE,
           flag |-> "none", shown |-> Empty, shownFor |-> "osd"]

-----------------------------------------------------------------------------
(* Overlays.  The scaled copy of an overlay is dropped when the overlay    *)
(* manager changes anything (overlay_begin()).                             *)

OverlayChanged == scaler' = [scaler EXCEPT !.active = [w \in Wnds |-> "none"]]

(* Drawn over the scaled picture: when it is asked for, or, for a small   *)
(* video, instead of shrinking the OSD.                                    *)
Unscaled(s, flag) == \/ flag = "OSDFLAG_UNSCALED"
                     \/ flag = "OSDFLAG_UNSCALED_LOWRES" /\ s.video = "small"

(* Is an RLE window scaled here?  Not when the output scales, nor when it  *)
(* is about as large as the video, or as the output window.                *)
Rescales(s, scaling, flag) ==
  /\ ~s.vo_scaling /\ scaling
  /\ (IF Unscaled(s, flag) THEN s.window ELSE s.video) # "osd"

(* exec_osd_set_rle() with the overlay manager at hand: the data goes to   *)
(* the overlay manager, a copy of the original is stored for rescaling.    *)
(* osdcmd_scale() always scales to the video.                              *)
SetRle(w, s, picture, scaling, flag) ==
  [w EXCEPT !.handle = TRUE, !.stored = picture, !.scaling = scaling,
            !.flag = flag, !.argb = FALSE, !.shown = picture,
            !.shownFor = IF Rescales(s, scaling, flag) THEN s.video ELSE "osd"]

(* Without a ticket (_x_lock_port_rewiring() times out) there is no        *)
(* overlay manager, and nothing of an OSD_Set_RLE, OSD_Set_ARGB or         *)
(* OSD_Close happens.                                                      *)
TicketFails == UNCHANGED ocVars

(* exec_osd_command(): OSD_Set_RLE and OSD_Set_LUT8 (compressed first).    *)
OcSetRle ==
  \E w \in Wnds, p \in Pictures, scaling \in BOOLEAN, flag \in Flags :
    /\ wnd' = [wnd EXCEPT ![w] = SetRle(@, screen, p, scaling, flag)]
    /\ scaler' = [scaler EXCEPT !.active = [v \in Wnds |-> "none"],
                                !.enable = IF screen.vo_scaling THEN scaling ELSE @]
    /\ UNCHANGED screen

(* OSD_Set_ARGB: the picture is blended into the window's buffer; it is    *)
(* never scaled here, and the stored command of an RLE window is dropped.  *)
OcSetArgb ==
  /\ screen.argb
  /\ \E w \in Wnds, p \in Pictures :
       wnd' = [wnd EXCEPT ![w].handle = TRUE, ![w].stored = Empty,
                          ![w].argb = TRUE, ![w].shown = p, ![w].shownFor = "osd"]
  /\ OverlayChanged
  /\ UNCHANGED screen

(* OSD_Size drops the ARGB buffer, which has the old size; the overlay     *)
(* keeps its own reference until it is shown anew.                         *)
OcSize ==
  /\ \E w \in Wnds : wnd' = [wnd EXCEPT ![w].argb = FALSE]
  /\ UNCHANGED <<screen, scaler>>

(* Wrong variant, for the sensitivity checks: the window is closed, what   *)
(* was stored for it stays.                                                *)
OcCloseKeepsStored ==
  \E w \in Wnds :
    /\ wnd[w].handle
    /\ wnd' = [wnd EXCEPT ![w].handle = FALSE] /\ OverlayChanged /\ UNCHANGED screen

(* OSD_Close; a refresh (OSDFLAG_REFRESH) does not close.                  *)
OcClose ==
  \E w \in Wnds :
    /\ wnd[w].handle
    /\ wnd' = [wnd EXCEPT ![w] = Closed] /\ OverlayChanged /\ UNCHANGED screen

(* Wrong variant, for the sensitivity checks: the windows stay as they     *)
(* were drawn for the old size.                                            *)
KeepRescaled(w, s, ok) == w

(* A stored window is shown again for the new size, from its original      *)
(* data.  The stored command is taken out first: without a ticket it is    *)
(* lost, and the window stays as it is.                                    *)
Rescaled(w, s, ok) ==
  IF ~(w.handle /\ w.stored # Empty /\ w.scaling) THEN w
  ELSE IF ok THEN SetRle(w, s, w.stored, TRUE, w.flag)
  ELSE [w EXCEPT !.stored = Empty]

(* video_size_changed().                                                   *)
VideoSizeChanged ==
  \E size \in Sizes \ {screen.video}, ok \in BOOLEAN :
    LET s == [screen EXCEPT !.video = size]
    IN /\ screen' = s
       /\ wnd' = IF s.vo_scaling THEN wnd
                 ELSE [w \in Wnds |-> Rescaled(wnd[w], s, ok)]
       /\ IF wnd' = wnd THEN UNCHANGED scaler ELSE OverlayChanged

-----------------------------------------------------------------------------
(* The hook, for every overlay of every frame: a scaled copy is made once  *)
(* for an output size and used until the overlay or the size changes.      *)

(* Wrong variant: a copy made for another output is drawn.                 *)
CopyAtHand(w, output) == scaler.active[w] # "none"

CopyFits(w, output) == scaler.active[w] = output

OverlayBlend ==
  \E w \in Wnds, output \in Sizes :
    /\ wnd[w].handle /\ wnd[w].shown # Empty
    /\ LET scales == /\ scaler.enable /\ ~wnd[w].argb
                     /\ wnd[w].scaling /\ output # "osd"
           copy == IF CopyFits(w, output) THEN scaler.active[w] ELSE output
       IN scaler' = IF scales
                    THEN [scaler EXCEPT !.active[w] = copy,
                                        !.drawn = [for |-> copy, output |-> output]]
                    ELSE [scaler EXCEPT !.drawn = [for |-> "as is", output |-> output]]
    /\ UNCHANGED <<wnd, screen>>

(* init_osd_manager(); the capabilities are those of the video driver.     *)
OcInit ==
  /\ wnd = [w \in Wnds |-> Closed]
  /\ screen \in [video : {"osd"}, window : {"osd", "large"}, vo_scaling : BOOLEAN, argb : BOOLEAN]
  /\ scaler = [enable |-> FALSE, active |-> [w \in Wnds |-> "none"],
               drawn |-> [for |-> "as is", output |-> "osd"]]

OcNext == \/ TicketFails \/ OcSetRle \/ OcSetArgb \/ OcSize \/ OcClose
          \/ VideoSizeChanged \/ OverlayBlend

-----------------------------------------------------------------------------
(* Type invariant.                                                         *)
OcTypeOK ==
  /\ \A w \in Wnds : /\ wnd[w].shown \in Pictures \cup {Empty}
                     /\ wnd[w].shownFor \in Sizes
                     /\ ~wnd[w].handle => wnd[w] = [Closed EXCEPT !.argb = wnd[w].argb]
  /\ screen.video \in Sizes
  /\ \A w \in Wnds : scaler.active[w] \in Sizes \cup {"none"}

(* No window is drawn from a stale copy.  A window whose original is kept  *)
(* for rescaling shows that picture, in the scale the video has now        *)
(* (video_size_changed() redraws every one of them, a copy per window);    *)
(* and the hook draws a scaled copy only at the output it was made for,    *)
(* although it keeps copies over frames of changing size.                  *)
NoStaleScale ==
  /\ \A w \in Wnds :
       wnd[w].stored # Empty =>
         /\ wnd[w].handle /\ wnd[w].shown = wnd[w].stored
         /\ wnd[w].shownFor = IF Rescales(screen, wnd[w].scaling, wnd[w].flag)
                              THEN screen.video ELSE "osd"
  /\ scaler.drawn.for \in {"as is", scaler.drawn.output}
=============================================================================
