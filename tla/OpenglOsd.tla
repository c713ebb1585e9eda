---- MODULE OpenglOsd ----
(***************************************************************************)
(* The OpenGL drawing thread of the X11 frontend (xine_sxfe_frontend.c,    *)
(* --opengl and --hud=opengl).  xine's output thread asks for a drawing    *)
(* with every frame and waits for it; the OSD is opened and closed by      *)
(* another thread at any time, the window is moved by a third.  While the  *)
(* OSD is shown xine draws into a pixmap, which the thread copies to a     *)
(* window of its own together with the OSD; else xine draws into the       *)
(* frontend's window (with --opengl always into the pixmap).               *)
(*                                                                         *)
(* The thread reads osd_visible several times while it serves a request;   *)
(* what it does between two of the readings that matter is a step here.    *)
(***************************************************************************)
EXTENDS Integers

CONSTANTS OpenglAlways,   \* --opengl, not --hud=opengl
          AlphaSteps,     \* drawings that fade the OSD in (5 in the code)
          MaxMoves,       \* bound: moves of the window
          MaxBehind       \* bound: steps the fading is behind when an OSD is opened

VARIABLES gl,     \* the locals of opengl_draw_frame_thread()
          osd,    \* osd_visible and the texture image, shared with the OSD's thread
          out,    \* xine: its drawable, and the request it waits for
          win     \* the frontend's window was moved; how often yet

glVars == <<gl, osd, out, win>>

GlInit ==   \* opengl_start()
  /\ gl = [at |-> "wait", alpha |-> 0, keep_osd_open |-> FALSE, draw_frame |-> FALSE, count |-> 0,
           window_mapped |-> FALSE, prev_osd_visible |-> FALSE, first_frame |-> TRUE, force_redirect |-> FALSE]
  /\ osd = [visible |-> FALSE, img_updated |-> FALSE]
  /\ out = [drawable |-> "window", requested |-> FALSE, stopped |-> FALSE]
  /\ win = [moved |-> TRUE, moves |-> 0]   \* win_x = -1

---------------------------------------------------------------------------
(* xine's output thread: opengl_frame_output_cb() triggers and waits       *)

FrameOutput ==
  /\ ~out.requested /\ ~out.stopped
  /\ out' = [out EXCEPT !.requested = TRUE]
  /\ UNCHANGED <<gl, osd, win>>

\* opengl_stop(): after xine_exit(), no frame is output any more
OpenglStop ==
  /\ ~out.requested /\ ~out.stopped
  /\ out' = [out EXCEPT !.stopped = TRUE]
  /\ UNCHANGED <<gl, osd, win>>

---------------------------------------------------------------------------
(* the OSD's thread: opengl_osd_command()                                  *)

\* OSD_Size: opengl_osd_show()
OsdShow ==
  /\ ~osd.visible /\ gl.alpha > -MaxBehind
  /\ osd' = [visible |-> TRUE, img_updated |-> TRUE]
  /\ UNCHANGED <<gl, out, win>>

\* OSD_Set_*: opengl_osd_draw()
OsdDraw ==
  /\ osd.visible
  /\ osd' = [osd EXCEPT !.img_updated = TRUE]
  /\ UNCHANGED <<gl, out, win>>

\* OSD_Close: opengl_osd_hide()
OsdHide ==
  /\ osd.visible
  /\ osd' = [osd EXCEPT !.visible = FALSE]
  /\ UNCHANGED <<gl, out, win>>

WindowMoved ==
  /\ win.moves < MaxMoves
  /\ win' = [moved |-> TRUE, moves |-> win.moves + 1]
  /\ UNCHANGED <<gl, osd, out>>

---------------------------------------------------------------------------
(* the drawing thread serves a request                                     *)

Faded == IF osd.visible THEN IF gl.alpha < AlphaSteps THEN gl.alpha + 1 ELSE gl.alpha
         ELSE IF gl.alpha > 0 THEN gl.alpha - 1 ELSE gl.alpha

\* where the video goes: 2 steps of the fading are taken back for the first frame
Decide ==
  /\ gl.at = "wait" /\ out.requested
  /\ LET force == win.moved
         keep == ~osd.visible /\ gl.alpha > 0
         toPixmap == \/ ~OpenglAlways /\ osd.visible /\ (~gl.prev_osd_visible \/ force)
                     \/ OpenglAlways /\ (gl.first_frame \/ force)
         toWindow == ~OpenglAlways /\ ~osd.visible /\ gl.prev_osd_visible /\ ~keep
     IN  /\ gl' = [gl EXCEPT !.at = "draw", !.keep_osd_open = keep, !.force_redirect = force,
                             !.alpha = IF toPixmap THEN Faded - 2 ELSE Faded,
                             !.count = IF toPixmap \/ toWindow THEN 0 ELSE @,
                             !.draw_frame = ~toPixmap /\ (osd.visible \/ gl.window_mapped \/ OpenglAlways)]
         /\ out' = [out EXCEPT !.drawable = IF toPixmap THEN "pixmap" ELSE IF toWindow THEN "window" ELSE @]
  /\ win' = [win EXCEPT !.moved = FALSE]
  /\ UNCHANGED osd

\* the drawing; then the window is mapped or unmapped.  Only 2 and 3 of the
\* drawings counted are told apart.
Counted == IF gl.draw_frame /\ gl.count < 4 THEN gl.count + 1 ELSE gl.count

Draw ==
  /\ gl.at = "draw"
  /\ LET map == \/ osd.visible /\ Counted = 2 /\ ~gl.window_mapped
                \/ gl.first_frame /\ OpenglAlways
                \/ gl.force_redirect
         unmap == /\ ~osd.visible /\ Counted = 3 /\ (map \/ gl.window_mapped)
                  /\ ~gl.keep_osd_open /\ ~OpenglAlways
     IN  gl' = [gl EXCEPT !.at = "finish", !.count = Counted,
                          !.window_mapped = (@ \/ map) /\ ~unmap]
  /\ osd' = [osd EXCEPT !.img_updated = @ /\ ~(gl.draw_frame /\ (osd.visible \/ gl.keep_osd_open))]
  /\ UNCHANGED <<out, win>>

Finish ==
  /\ gl.at = "finish"
  /\ gl' = [gl EXCEPT !.at = "wait", !.first_frame = FALSE, !.force_redirect = FALSE,
                      !.prev_osd_visible = IF gl.keep_osd_open THEN @ ELSE osd.visible]
  /\ out' = [out EXCEPT !.requested = FALSE]
  /\ UNCHANGED <<osd, win>>

GlThread == Decide \/ Draw \/ Finish

GlNext ==
  \/ FrameOutput \/ OpenglStop
  \/ OsdShow \/ OsdDraw \/ OsdHide
  \/ WindowMoved
  \/ GlThread

---------------------------------------------------------------------------

GlTypeOK ==
  /\ gl.at \in {"wait", "draw", "finish"} /\ gl.count \in 0..4
  /\ gl.alpha <= AlphaSteps /\ gl.alpha >= -(MaxBehind + MaxMoves + 2)
  /\ out.drawable \in {"window", "pixmap"}

\* Between two requests xine draws into the pixmap only as long as the thread
\* has what it needs to notice that the OSD was closed.  It does not hold: an
\* OSD that is opened and closed while one frame is drawn is forgotten, and the
\* video stays in a pixmap nobody shows.
VideoFindsBack ==
  ~OpenglAlways /\ gl.at = "wait" /\ out.drawable = "pixmap" => gl.prev_osd_visible

\* opengl_frame_output_cb() always comes back: every frame xine outputs is let
\* through once the thread has drawn.
FrameServed == out.requested ~> ~out.requested
====
