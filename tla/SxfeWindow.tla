---- MODULE SxfeWindow ----
(***************************************************************************)
(* The windows of the X11 frontend (xine_sxfe_frontend.c): window 0 is the *)
(* one a user moves and resizes, window 1 covers the screen; one of them   *)
(* is mapped, and xine draws into the one it was told of last.             *)
(*                                                                         *)
(* sxfe_run() handles X events on the main loop's thread.  A second thread *)
(* (VDR's setup with a local frontend, lirc or the control connection with *)
(* a remote one) may configure the windows or toggle fullscreen meanwhile. *)
(* Both take the display lock for their X calls only: what is done under   *)
(* the lock is one step, and what is read of sxfe_t before or after it is  *)
(* a step of its own; joined are only the neighbouring accesses to         *)
(* fullscreen_state_forced, and to the size in ConfigSize.  Sizes and      *)
(* places have one coordinate each.                                        *)
(***************************************************************************)
EXTENDS Naturals, Sequences

CONSTANTS Widths,         \* sizes of window 0 a user or the setup asks for
          ScreenWidth,    \* of the display when it was opened
          Places,         \* where window 0 is put; 0, the corner, is where window 1 is
          MaxEvents       \* bound: while so many ConfigureNotify events wait, nobody asks for more

(* Sizes and places are numbers.                                           *)
ASSUME WindowAssumption ==
  Widths \subseteq Nat /\ ScreenWidth \in Nat /\ Places \subseteq Nat

VARIABLES sxfe,     \* sxfe_t
          config,   \* of each thread: its place in a function, and its local variables
          x11       \* the X server and the window manager; drawable: the one xine uses

sxVars == <<sxfe, config, x11>>

Threads == {"sxfe_run", "other"}

\* window: the one the thread is about to name to xine.  stale is history: the
\* other thread has switched windows since this one read which is shown
Out == [at |-> "out", width |-> 0, fullscreen |-> FALSE, toggle |-> FALSE, force |-> FALSE,
        window |-> 0, stale |-> FALSE]

Current(s) == IF s.fullscreen THEN 1 ELSE 0

SxInit ==   \* sxfe_display_open()
  \E full \in BOOLEAN, w \in Widths, p \in Places :
    /\ sxfe = [open |-> TRUE, fullscreen |-> full, forced |-> FALSE,
               width |-> IF full THEN ScreenWidth ELSE w, xpos |-> p, origwidth |-> w, origxpos |-> 0,
               check_move |-> FALSE, dragging |-> FALSE, stay_above |-> FALSE, no_border |-> FALSE]
    /\ config = [t \in Threads |-> Out]
    \* late is history: "drawable" or "place" if it was set last by a thread that had
    \* not seen the other's switch, or the place from an event about window 1
    /\ x11 = [mapped |-> {IF full THEN 1 ELSE 0}, width |-> w,
              xpos |-> [i \in 0..1 |-> IF i = 0 THEN p ELSE 0], drawable |-> IF full THEN 1 ELSE 0,
              above |-> FALSE, events |-> <<>>, late |-> {}]

At(t, place) == config[t].at = place
Go(t, place) == config' = [config EXCEPT ![t].at = place]

---------------------------------------------------------------------------
(* X: a request to move or resize a window is answered by a                *)
(* ConfigureNotify, a synthetic one if nothing changed (ICCCM 4.1.5)       *)

\* what users and callers do waits for room, so that what is begun can end
Room == Len(x11.events) < MaxEvents

Configure(x, i, w, p) ==
  [x EXCEPT !.width = IF i = 0 THEN w ELSE @, !.xpos[i] = p,
            !.events = Append(@, [window |-> i, width |-> w, xpos |-> p])]

\* history: thread t writes "what" (the place or the drawable) from what it read
Written(x, t, what) ==
  [x EXCEPT !.late = IF config[t].stale THEN @ \cup {what} ELSE @ \ {what}]

\* the window manager forgets the state of a window that is unmapped
Unmap(x, i) == [x EXCEPT !.mapped = @ \ {i}, !.above = @ /\ i # 0]
MapRaised(x, i) == [x EXCEPT !.mapped = @ \cup {i}]

\* set_above(): a message about a window the window manager does not manage is lost
SetAbove(x, above) == [x EXCEPT !.above = IF 0 \in x.mapped THEN above ELSE @]

UserMoves(w, p) ==
  /\ sxfe.open /\ 0 \in x11.mapped /\ Room
  /\ w # x11.width \/ p # x11.xpos[0]
  /\ x11' = Configure(x11, 0, w, p)
  /\ UNCHANGED <<sxfe, config>>

RootResized(w) ==
  /\ sxfe.open /\ Room
  /\ x11' = [x11 EXCEPT !.events = Append(@, [window |-> 2, width |-> w, xpos |-> 0])]
  /\ UNCHANGED <<sxfe, config>>

---------------------------------------------------------------------------
(* sxfe_toggle_fullscreen()                                                *)

ToggleFullscreen(t) ==
  /\ sxfe.open /\ At(t, "out") /\ Room
  /\ sxfe' = [sxfe EXCEPT !.forced = FALSE]
  /\ config' = [config EXCEPT ![t] = [Out EXCEPT !.at = "toggle", !.toggle = TRUE, !.force = sxfe.forced]]
  /\ UNCHANGED x11

ToggleLook(t) ==
  /\ At(t, "toggle")
  /\ Go(t, IF sxfe.fullscreen THEN "restore" ELSE "save")
  /\ UNCHANGED <<sxfe, x11>>

ToggleSave(t) ==
  /\ At(t, "save")
  /\ sxfe' = [sxfe EXCEPT !.origwidth = sxfe.width, !.origxpos = sxfe.xpos]
  /\ Go(t, "decide")
  /\ UNCHANGED x11

ToggleRestore(t) ==
  /\ At(t, "restore")
  /\ sxfe' = [sxfe EXCEPT !.xpos = sxfe.origxpos]
  /\ x11' = Written(x11, t, "place")
  /\ Go(t, "decide")

\* the control connection may ask for a state; a key or the mouse asks for the other one
ToggleDecide(t, full) ==
  /\ At(t, "decide")
  /\ t = "sxfe_run" => full = ~sxfe.fullscreen
  /\ config' = [config EXCEPT ![t].at = "size", ![t].width = sxfe.origwidth, ![t].fullscreen = full]
  /\ UNCHANGED <<sxfe, x11>>

---------------------------------------------------------------------------
(* sxfe_display_config()                                                   *)

Config(t, w, full) ==
  /\ sxfe.open /\ At(t, "out") /\ Room
  /\ config' = [config EXCEPT ![t] = [Out EXCEPT !.at = "size", !.width = w, !.fullscreen = full]]
  /\ UNCHANGED <<sxfe, x11>>

\* the size of window 0, or with update_screen_size() that of the screen
ConfigSize(t) ==
  /\ At(t, "size")
  /\ LET full == IF sxfe.forced THEN sxfe.fullscreen ELSE config[t].fullscreen
         w == IF full THEN ScreenWidth ELSE config[t].width
     IN  /\ sxfe' = [sxfe EXCEPT !.width = w]
         /\ config' = [config EXCEPT ![t].fullscreen = full, ![t].width = 0,
                                     ![t].at = IF ~full /\ w # sxfe.width THEN "resize" ELSE "switch"]
  /\ UNCHANGED x11

\* under the display lock
ConfigResize(t) ==
  /\ At(t, "resize")
  /\ x11' = Configure(x11, 0, sxfe.width, x11.xpos[0])
  /\ Go(t, "check")
  /\ UNCHANGED sxfe

\* after it: xine is to be told, if window 0 is the one on the screen
ConfigCheck(t) ==
  /\ At(t, "check")
  /\ \/ sxfe.fullscreen /\ Go(t, "switch")
     \/ /\ ~sxfe.fullscreen
        /\ config' = [config EXCEPT ![t].at = "tell", ![t].window = 0, ![t].stale = FALSE]
  /\ UNCHANGED <<sxfe, x11>>

\* the function returns; its local variables are gone, a toggle's are not
Finish(t) ==
  config' = [config EXCEPT ![t] = [Out EXCEPT !.at = "done", !.toggle = config[t].toggle,
                                              !.force = config[t].force]]

\* XINE_GUI_SEND_DRAWABLE_CHANGED
SendDrawable(t) == x11' = [Written(x11, t, "drawable") EXCEPT !.drawable = config[t].window]

ConfigTell(t) ==
  /\ At(t, "tell") /\ SendDrawable(t)
  /\ Go(t, "switch")
  /\ UNCHANGED sxfe

ConfigSwitch(t) ==
  /\ At(t, "switch")
  /\ IF config[t].fullscreen # sxfe.fullscreen THEN Go(t, "swap") ELSE Finish(t)
  /\ UNCHANGED <<sxfe, x11>>

\* Wrong variant, for the sensitivity checks: the window manager is
\* not told again to keep the window above the others
SwappedForgetsAbove(x, s, full) ==
  LET shown == MapRaised(Unmap(x, Current(s)), IF full THEN 1 ELSE 0)
  IN  Configure(shown, IF full THEN 1 ELSE 0, s.width, IF full THEN 0 ELSE s.xpos)

\* one window for the other
Swapped(x, s, full) ==
  LET shown == MapRaised(Unmap(x, Current(s)), IF full THEN 1 ELSE 0)
  IN  IF full THEN Configure(shown, 1, s.width, 0)
      ELSE SetAbove(Configure(shown, 0, s.width, s.xpos), s.stay_above)

\* under the display lock, and with no second look at the fullscreen of before
ConfigSwap(t) ==
  /\ At(t, "swap")
  /\ LET full == config[t].fullscreen
         x == Swapped(x11, sxfe, full)
     IN  /\ x11' = [x EXCEPT !.late = {}]
         /\ sxfe' = [sxfe EXCEPT !.fullscreen = full, !.check_move = @ \/ ~full,
                                 !.xpos = x.xpos[IF full THEN 1 ELSE 0]]
  /\ config' = [u \in Threads |->
                  IF u = t THEN [config[t] EXCEPT !.at = "pick"]
                  ELSE [config[u] EXCEPT !.stale = config[u].at \in {"restore", "tell", "send"}]]

\* after the display lock is given up, the argument first and then the call
ConfigPick(t) ==
  /\ At(t, "pick")
  /\ config' = [config EXCEPT ![t].at = "send", ![t].window = Current(sxfe), ![t].stale = FALSE]
  /\ UNCHANGED <<sxfe, x11>>

ConfigSend(t) ==
  /\ At(t, "send") /\ SendDrawable(t)
  /\ Finish(t)
  /\ UNCHANGED sxfe

ConfigDone(t) ==
  /\ At(t, "done")
  /\ config' = [config EXCEPT ![t] = Out]
  /\ sxfe' = IF config[t].toggle THEN [sxfe EXCEPT !.forced = ~config[t].force] ELSE sxfe
  /\ UNCHANGED x11

---------------------------------------------------------------------------
(* XConfigureEvent_handler() of sxfe_run(): the size of the current window, *)
(* the place of any.  The event stays at the head of the queue until it is  *)
(* handled: nobody else looks there.                                        *)

Running == sxfe.open /\ At("sxfe_run", "out")
Event == Head(x11.events)
Handled(x) == [x EXCEPT !.events = Tail(@)]

XConfigureEvent ==
  /\ Running /\ x11.events # <<>>
  /\ \/ /\ Event.window = 2 /\ sxfe.fullscreen
        /\ Go("sxfe_run", "screen")
        /\ UNCHANGED x11
     \/ /\ Event.window = 2 /\ ~sxfe.fullscreen
        /\ x11' = Handled(x11)
        /\ UNCHANGED config
     \/ /\ Event.window # 2
        /\ Go("sxfe_run", IF Event.width # sxfe.width THEN "ours" ELSE "moved")
        /\ UNCHANGED x11
  /\ UNCHANGED sxfe

EventScreen ==
  /\ At("sxfe_run", "screen")
  /\ \/ /\ Event.width # sxfe.width /\ Go("sxfe_run", "root")
        /\ UNCHANGED x11
     \/ /\ Event.width = sxfe.width /\ Go("sxfe_run", "out")
        /\ x11' = Handled(x11)
  /\ UNCHANGED sxfe

RootEvent ==
  /\ At("sxfe_run", "root")
  /\ x11' = Handled(Configure(x11, 1, Event.width, 0))
  /\ Go("sxfe_run", "out")
  /\ UNCHANGED sxfe

EventOurs ==
  /\ At("sxfe_run", "ours")
  /\ Go("sxfe_run", IF Event.window = Current(sxfe) THEN "width" ELSE "moved")
  /\ UNCHANGED <<sxfe, x11>>

EventWidth ==
  /\ At("sxfe_run", "width")
  /\ sxfe' = [sxfe EXCEPT !.width = Event.width]
  /\ Go("sxfe_run", "moved")
  /\ UNCHANGED x11

\* the first place the window manager gives to a window shown again is taken
EventMoved ==
  /\ At("sxfe_run", "moved")
  /\ Go("sxfe_run", IF Event.window = 0 /\ sxfe.check_move THEN "check_move" ELSE "place")
  /\ UNCHANGED <<sxfe, x11>>

EventCheckMove ==
  /\ At("sxfe_run", "check_move")
  /\ sxfe' = [sxfe EXCEPT !.check_move = FALSE]
  /\ Go("sxfe_run", "compare")
  /\ UNCHANGED x11

EventCompare ==
  /\ At("sxfe_run", "compare")
  /\ Go("sxfe_run", IF sxfe.xpos # Event.xpos THEN "move" ELSE "place")
  /\ UNCHANGED <<sxfe, x11>>

EventMove ==
  /\ At("sxfe_run", "move")
  /\ x11' = Configure(x11, 0, x11.width, Event.xpos)
  /\ Go("sxfe_run", "place")
  /\ UNCHANGED sxfe

EventPlace ==
  /\ At("sxfe_run", "place")
  /\ \/ ~sxfe.fullscreen /\ Go("sxfe_run", "put") /\ UNCHANGED x11
     \/ sxfe.fullscreen /\ Go("sxfe_run", "out") /\ x11' = Handled(x11)
  /\ UNCHANGED sxfe

\* 0 is asked for again, with XTranslateCoordinates() under the display lock
EventPut ==
  /\ At("sxfe_run", "put")
  /\ sxfe' = [sxfe EXCEPT !.xpos = IF Event.xpos = 0 THEN x11.xpos[Event.window] ELSE Event.xpos]
  /\ x11' = [Handled(x11) EXCEPT !.late = IF Event.window = 0 THEN @ \ {"place"} ELSE @ \cup {"place"}]
  /\ Go("sxfe_run", "out")

---------------------------------------------------------------------------
(* The mouse, on the same thread; a double click is ToggleFullscreen()     *)

\* XMotionEvent_handler() while Button1 is held
XMotionEvent ==
  /\ Running /\ sxfe.dragging /\ ~sxfe.fullscreen /\ Room
  /\ Go("sxfe_run", "drag")
  /\ UNCHANGED <<sxfe, x11>>

\* Wrong variant, for the sensitivity checks: where the mouse is is added to
\* the place, not how far it went
DragAdds(p) ==
  /\ At("sxfe_run", "drag")
  /\ sxfe' = [sxfe EXCEPT !.xpos = @ + p]
  /\ x11' = [Configure(x11, 0, x11.width, sxfe.xpos + p) EXCEPT !.late = @ \ {"place"}]
  /\ Go("sxfe_run", "out")

Drag(p) ==
  /\ At("sxfe_run", "drag")
  /\ sxfe' = [sxfe EXCEPT !.xpos = p]
  /\ x11' = [Configure(x11, 0, x11.width, p) EXCEPT !.late = @ \ {"place"}]
  /\ Go("sxfe_run", "out")

\* XButtonEvent_handler()
Button1 ==
  /\ Running /\ ~sxfe.fullscreen /\ sxfe.no_border /\ ~sxfe.dragging
  /\ sxfe' = [sxfe EXCEPT !.dragging = TRUE]
  /\ UNCHANGED <<config, x11>>

ButtonRelease ==
  /\ Running /\ sxfe.dragging
  /\ sxfe' = [sxfe EXCEPT !.dragging = FALSE]
  /\ UNCHANGED <<config, x11>>

Button3 ==
  /\ Running /\ ~sxfe.fullscreen
  /\ \/ /\ ~sxfe.stay_above
        /\ sxfe' = [sxfe EXCEPT !.stay_above = TRUE]
        /\ Go("sxfe_run", "above")
        /\ UNCHANGED x11
     \/ /\ sxfe.stay_above /\ ~sxfe.no_border
        /\ sxfe' = [sxfe EXCEPT !.no_border = TRUE]
        /\ UNCHANGED <<config, x11>>
     \/ /\ sxfe.stay_above /\ sxfe.no_border
        /\ sxfe' = [sxfe EXCEPT !.no_border = FALSE, !.stay_above = FALSE]
        /\ Go("sxfe_run", "above")
        /\ UNCHANGED x11

\* set_above(): stay_above is set, then the window manager is told
Button3Above ==
  /\ At("sxfe_run", "above")
  /\ x11' = SetAbove(x11, sxfe.stay_above)
  /\ Go("sxfe_run", "out")
  /\ UNCHANGED sxfe

---------------------------------------------------------------------------

\* sxfe_display_close(): after xine_exit(), nobody else is inside
DisplayClose ==
  /\ sxfe.open /\ \A t \in Threads : At(t, "out")
  /\ sxfe' = [sxfe EXCEPT !.open = FALSE]
  /\ x11' = [x11 EXCEPT !.mapped = {}, !.events = <<>>]
  /\ UNCHANGED config

SxNext ==
  \/ \E w \in Widths, p \in Places : UserMoves(w, p)
  \/ \E w \in Widths : RootResized(w)
  \/ \E w \in Widths, full \in BOOLEAN : Config("other", w, full)
  \/ \E t \in Threads :
       \/ ToggleFullscreen(t) \/ ToggleLook(t) \/ ToggleSave(t) \/ ToggleRestore(t)
       \/ \E full \in BOOLEAN : ToggleDecide(t, full)
       \/ ConfigSize(t) \/ ConfigResize(t) \/ ConfigCheck(t) \/ ConfigTell(t)
       \/ ConfigSwitch(t) \/ ConfigSwap(t) \/ ConfigPick(t) \/ ConfigSend(t) \/ ConfigDone(t)
  \/ XConfigureEvent \/ EventScreen \/ RootEvent \/ EventOurs \/ EventWidth \/ EventMoved \/ EventCheckMove
  \/ EventCompare \/ EventMove \/ EventPlace \/ EventPut
  \/ XMotionEvent
  \/ \E p \in Places : Drag(p)
  \/ Button1 \/ ButtonRelease \/ Button3 \/ Button3Above
  \/ DisplayClose
  \/ ~sxfe.open /\ UNCHANGED sxVars

SxSpec == SxInit /\ [][SxNext]_sxVars

---------------------------------------------------------------------------

SxTypeOK ==
  /\ sxfe.width \in Widths \cup {ScreenWidth} /\ sxfe.xpos \in Places \cup {0}
  /\ \A t \in Threads :
       config[t].at \in {"out", "toggle", "save", "restore", "decide", "size", "resize", "check", "tell",
                         "switch", "swap", "pick", "send", "done", "screen", "root", "ours", "width",
                         "moved", "check_move", "compare", "move", "place", "put", "drag", "above"}
  /\ x11.mapped \subseteq 0..1 /\ x11.drawable \in 0..1 /\ Len(x11.events) <= MaxEvents + 5

\* One window is on the screen.  Once the threads and the events have settled,
\* xine draws into that one unless it was told last by a thread that had not
\* seen the other thread's switch; the size, the place and the stacking of
\* window 0 are what sxfe_t has them for, the place with the same exception.
WindowAgrees ==
  sxfe.open =>
    /\ x11.mapped = {Current(sxfe)}
    /\ (x11.events = <<>> /\ \A t \in Threads : At(t, "out")) =>
         /\ "drawable" \notin x11.late => x11.drawable = Current(sxfe)
         /\ ~sxfe.fullscreen => /\ sxfe.width = x11.width
                                 /\ "place" \notin x11.late => sxfe.xpos = x11.xpos[0]
                                 /\ sxfe.stay_above = x11.above
====
