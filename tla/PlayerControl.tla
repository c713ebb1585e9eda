--------------------------- MODULE PlayerControl ---------------------------
(***************************************************************************)
(* The player controls of the media player (media_player.c): files and     *)
(* music (cXinelibPlayerControl), discs (cXinelibDvdPlayerControl,         *)
(* cXinelibBdPlayerControl), images (cXinelibImagesControl), and how they  *)
(* are launched (cPlayerFactory).  All of it runs in VDR's main thread; a  *)
(* key is one action.  What the list does is in Playlist; here a file is   *)
(* one of several, or the last.                                            *)
(*                                                                         *)
(* The player of a control is a static member of the class, shared by all  *)
(* controls of that class; VDR has one control at a time.                  *)
(***************************************************************************)
EXTENDS Integers

CONSTANT MayRelaunch    \* a file is launched while a player is open (SVDRP)

VARIABLES
  ctl,       \* the control: its kind, displays and speed
  player,    \* which of the static players exist
  resume     \* the .resume file of the file that plays exists

ctlVars == <<ctl, player, resume>>

Kinds == {"Files", "Music", "Dvd", "BluRay"}
Discs == {"Dvd", "BluRay"}

(* The display of the control, and the menus, each draws an OSD.           *)
NoControl == [kind |-> "none", speed |-> 1, replay |-> FALSE, modeOnly |-> TRUE,
              list |-> FALSE, disc |-> FALSE, autoShow |-> FALSE,
              useResume |-> FALSE, random |-> FALSE]

PlayerOf(kind) == IF kind = "Images" THEN "image" ELSE "xinelib"

-----------------------------------------------------------------------------
(* Show() and Hide().  An OSD that is open (the list menu's) keeps the     *)
(* replay display away; a disc's menu hides it.                            *)

Hide(c) == [c EXCEPT !.replay = FALSE, !.list = FALSE, !.disc = FALSE]

(* Wrong variant, for the sensitivity checks: Show() does not ask VDR      *)
(* whether an OSD is open.                                                 *)
ShowAlways(c) == IF c.disc THEN [c EXCEPT !.replay = FALSE, !.list = FALSE]
                 ELSE [c EXCEPT !.replay = TRUE]

Show(c) == IF c.disc THEN [c EXCEPT !.replay = FALSE, !.list = FALSE]
           ELSE IF c.list /\ ~c.replay THEN c
           ELSE [c EXCEPT !.replay = TRUE]

-----------------------------------------------------------------------------
(* Speeds.  SetSpeed() knows -4 to 4 but -1; the tables of the keys step   *)
(* through them, slow ones backwards.                                      *)

Speeds == {-4, -3, -2, 0, 1, 2, 3, 4}
SetSpeed(c, s) == [c EXCEPT !.speed = IF s \in Speeds THEN s ELSE 1]

Faster == [s \in -4 .. 4 |-> <<-3, -2, 1, 2, -4, 2, 3, 4, 4>>[s + 5]]
Slower == [s \in -4 .. 4 |-> <<0, -4, -3, -2, 0, -2, 1, 2, 3>>[s + 5]]

FastFwd(c) == LET t == SetSpeed(c, Faster[c.speed])
              IN IF t.speed # 1 THEN Show(t) ELSE Hide(t)
FastRew(c) == LET t == SetSpeed(c, Slower[c.speed])
              IN IF t.speed # 1 \/ ~t.modeOnly THEN Show(t) ELSE Hide(t)

-----------------------------------------------------------------------------
(* Activate(): the position is kept only in the middle of a file; where    *)
(* the player stopped is up to the file.                                   *)
ActivateOff(c) ==
  IF c.useResume THEN resume' \in BOOLEAN ELSE UNCHANGED resume

(* Close() deletes the player of the class.                                *)
Close(c) == player' = player \ {PlayerOf(c.kind)} /\ ActivateOff(c)

(* The control is over; its destructor closes what is open.                *)
Ended == ctl' = NoControl /\ Close(ctl)

(* cPlayerFactory::Launch(): the new control is created first and takes    *)
(* the player that is there, or opens one; then the old control is shut    *)
(* down, and its destructor deletes the player of its class.               *)
Launch ==
  /\ ctl.kind = "none" \/ MayRelaunch
  /\ \E kind \in Kinds \cup {"Images"}, enabled \in BOOLEAN :
       LET opened == player \cup {PlayerOf(kind)}
           old == IF ctl.kind = "none" THEN {} ELSE {PlayerOf(ctl.kind)}
       IN /\ player' = opened \ old
          /\ ctl' = [NoControl EXCEPT
                       !.kind = kind,
                       !.autoShow = kind # "Images",
                       !.speed = IF kind = "Images" THEN 0 ELSE 1,
                       !.modeOnly = kind # "Images",
                       !.useResume = enabled /\ kind \notin {"Music", "Images"}]
          /\ IF ctl.kind = "none" THEN UNCHANGED resume ELSE ActivateOff(ctl)

(* SVDRP's QMSC and the menu queue a file: without a player one is opened, *)
(* and a control for it launched.                                          *)
QueueFile ==
  IF "xinelib" \in player THEN UNCHANGED ctlVars
  ELSE /\ player' = {"xinelib"}
       /\ ctl' = [NoControl EXCEPT !.kind = "Music", !.autoShow = TRUE]
       /\ UNCHANGED resume

-----------------------------------------------------------------------------
(* cXinelibPlayerControl::ProcessKey(), from its parts: what every call    *)
(* does first and last, and one operator for the key.                      *)

(* The next file was chosen: the display is to be shown for a while.       *)
NextShown(c) == IF c.replay THEN c ELSE [c EXCEPT !.autoShow = TRUE]

(* At the end of every call: a display shown for a while goes; one that is *)
(* due comes.                                                              *)
AutoShow(c, elapsed) ==
  LET t == IF c.replay /\ c.autoShow /\ elapsed
           THEN Hide([c EXCEPT !.autoShow = FALSE]) ELSE c
  IN IF ~t.replay /\ t.autoShow THEN Show([t EXCEPT !.modeOnly = FALSE]) ELSE t

PauseKey(c) ==
  IF c.speed # 0
  THEN Show([SetSpeed(c, 0) EXCEPT !.modeOnly = IF c.replay THEN @ ELSE TRUE])
  ELSE LET t == SetSpeed(c, 1)
       IN [IF t.modeOnly /\ t.replay THEN Hide(t)
           ELSE IF t.replay THEN Show(t) ELSE t EXCEPT !.modeOnly = FALSE]

PlayKey(c) == PauseKey([c EXCEPT !.speed = 0])

OkKey(c) ==
  LET t == [c EXCEPT !.autoShow = FALSE]
  IN IF t.speed # 1 THEN Show([Hide(t) EXCEPT !.modeOnly = ~@])
     ELSE IF t.replay THEN Hide([t EXCEPT !.modeOnly = TRUE])
     ELSE Show([Hide(t) EXCEPT !.modeOnly = FALSE])

RedKey(c, several) ==
  IF several \/ c.kind = "Music"
  THEN [Hide(c) EXCEPT !.list = TRUE, !.autoShow = FALSE] ELSE c

BackKey(c) == Hide(c)      \* and back to the menu; the file plays on

(* Keys the list menu leaves to the control while it is open; the others   *)
(* are its own, and end the call.                                          *)
NotForMenu == {"Pause", "Play", "FastFwd", "FastRew", "User7", "Seek", "Next", "None"}

Key(c, key, several) ==
  CASE key = "Pause" -> PauseKey(c)
    [] key = "Play" -> PlayKey(c)
    [] key = "FastFwd" -> FastFwd(c)
    [] key = "FastRew" -> FastRew(c)
    [] key = "Ok" -> OkKey(c)
    [] key = "Red" -> RedKey(c, several)
    [] key = "Back" -> BackKey(c)
    [] key = "Next" /\ c.kind = "Music" -> NextShown(c)
    [] key = "Right" /\ c.kind = "Files" -> FastFwd(c)
    [] key = "Left" /\ c.kind = "Files" -> FastRew(c)
    [] key = "User7" -> [c EXCEPT !.random = IF several THEN ~@ ELSE @]
    [] OTHER -> c        \* seek, subtitles, a number that is typed

Keys == NotForMenu \cup {"Ok", "Red", "Back", "Left", "Right"}

(* While a file plays.  An open display is refreshed first; with the list  *)
(* open the menu sees the key before the control does.                     *)
PlayerKey ==
  /\ ctl.kind \in {"Files", "Music"} /\ "xinelib" \in player
  /\ \E key \in Keys, several, elapsed, menuQuits \in BOOLEAN :
       LET c == IF ctl.list THEN [ctl EXCEPT !.autoShow = FALSE] ELSE ctl
       IN ctl' = IF ctl.list /\ key \notin NotForMenu
                 THEN IF menuQuits THEN Hide(c) ELSE c
                 ELSE AutoShow(Key(IF c.replay THEN Show(c) ELSE c, key, several),
                               elapsed)
  /\ UNCHANGED <<player, resume>>

(* The end of a file is found at the next key (or none): the next one      *)
(* plays, or the control ends; a single song is repeated.                  *)
EndOfFile ==
  /\ ctl.kind \in {"Files", "Music"} /\ "xinelib" \in player
  /\ \/ /\ ctl' = LET t == NextShown(ctl)
                  IN IF ctl.list THEN [t EXCEPT !.autoShow = FALSE]
                     ELSE AutoShow(t, FALSE)
        /\ UNCHANGED <<player, resume>>
     \/ ctl.kind = "Music" /\ UNCHANGED ctlVars
     \/ Ended

(* Stop, also with the list open, and Blue.                                *)
StopKey == ctl.kind \in Kinds \cup {"Images"} /\ PlayerOf(ctl.kind) \in player /\ Ended

-----------------------------------------------------------------------------
(* Discs.  In a menu of the disc the arrow keys are the disc's, and the    *)
(* display goes; else they control playback.                               *)
DiscKey ==
  /\ ctl.kind \in Discs /\ "xinelib" \in player
  /\ \E key \in {"None", "Red", "Ok", "Info", "Pause", "Play", "FastFwd", "FastRew"},
        menuDomain, entryChosen \in BOOLEAN :
       ctl' = LET c == IF ctl.replay THEN Show(ctl) ELSE ctl
                  d == IF menuDomain THEN Hide(c) ELSE c
                  shown == [Hide(d) EXCEPT !.modeOnly = FALSE]
              IN CASE ctl.disc -> IF key = "Red" \/ entryChosen THEN Hide(ctl) ELSE ctl
                   [] ~ctl.disc /\ key = "Red" -> [Hide(d) EXCEPT !.disc = TRUE]
                   [] ~ctl.disc /\ key = "Ok" /\ ~menuDomain ->
                        IF d.speed # 1 THEN Show([Hide(d) EXCEPT !.modeOnly = ~@])
                        ELSE IF d.replay THEN [Hide(d) EXCEPT !.modeOnly = TRUE]
                        ELSE Show(shown)
                   [] ~ctl.disc /\ key = "Info" ->
                        \* not in a menu: hidden, shown again, and so hidden
                        IF menuDomain THEN Show([d EXCEPT !.modeOnly = FALSE])
                        ELSE Hide(shown)
                   [] ~ctl.disc /\ key = "Pause" /\ d.speed # 0 ->
                        Show([SetSpeed(d, 0) EXCEPT !.modeOnly = FALSE])
                   [] ~ctl.disc /\ key \in {"Pause", "Play"} /\ (key = "Play" \/ d.speed = 0) ->
                        [Hide(SetSpeed(d, 1)) EXCEPT !.modeOnly = TRUE]
                   [] ~ctl.disc /\ key = "FastFwd" -> FastFwd(d)
                   [] ~ctl.disc /\ key = "FastRew" -> FastRew(d)
                   [] OTHER -> d
  /\ UNCHANGED <<player, resume>>

(* The end of the disc, or Back outside of its menus.                      *)
DiscEnd == ctl.kind \in Discs /\ "xinelib" \in player /\ Ended

-----------------------------------------------------------------------------
(* Images: a slide show has a speed of its own, -3 to 3.                   *)
ImageKey ==
  /\ ctl.kind = "Images" /\ "image" \in player
  /\ \E key \in {"Pause", "Play", "FastFwd", "FastRew", "Ok", "Seek", "Yellow"} :
       LET c == CASE key = "Pause" -> [ctl EXCEPT !.speed = 0]
                  [] key = "Play" -> [ctl EXCEPT !.speed = 2]
                  [] key = "FastFwd" /\ ctl.speed < 3 -> [ctl EXCEPT !.speed = @ + 1]
                  [] key = "FastRew" /\ ctl.speed > -3 -> [ctl EXCEPT !.speed = @ - 1]
                  [] key = "Ok" /\ ctl.replay /\ ctl.modeOnly ->
                       Show([Hide(ctl) EXCEPT !.modeOnly = FALSE])
                  [] key = "Ok" /\ ctl.replay /\ ~ctl.modeOnly -> Hide(ctl)
                  [] key = "Ok" /\ ~ctl.replay -> Show([ctl EXCEPT !.modeOnly = TRUE])
                  [] OTHER -> ctl        \* an image is shown, or deleted
       IN ctl' = IF c.replay THEN Show(c) ELSE c
  /\ UNCHANGED <<player, resume>>

CtlInit == ctl = NoControl /\ player = {} /\ resume = FALSE

CtlNext == \/ Launch \/ QueueFile \/ PlayerKey \/ EndOfFile \/ StopKey
           \/ DiscKey \/ DiscEnd \/ ImageKey

-----------------------------------------------------------------------------
(* Type invariant; the key tables only lead to speeds SetSpeed() knows.    *)
CtlTypeOK ==
  /\ ctl.kind \in Kinds \cup {"Images", "none"}
  /\ player \subseteq {"xinelib", "image"}
  /\ IF ctl.kind = "Images" THEN ctl.speed \in -3 .. 3 ELSE ctl.speed \in Speeds
  /\ resume \in BOOLEAN

(* Only one OSD of the player is open: the replay display, the playlist    *)
(* menu or a disc's menu.  Keys a menu does not use reach the control,     *)
(* and the display that is due after a file ended (m_AutoShowStart) asks   *)
(* to be shown over whatever is open.                                      *)
OneOsd == \A o, p \in {"replay", "list", "disc"} : ctl[o] /\ ctl[p] => o = p

(* Playing a file (SVDRP: "PMDA <file>", "Play media file.") leaves a      *)
(* control with a player: the one it was created with still exists.        *)
PlayerAlive == ctl.kind # "none" => PlayerOf(ctl.kind) \in player
=============================================================================
