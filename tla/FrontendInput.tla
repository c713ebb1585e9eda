---- MODULE FrontendInput ----
(***************************************************************************)
(* The threads of a frontend that read keys and send them to VDR: the      *)
(* remote control by lircd (xine_frontend_lirc.c), the console or the      *)
(* slave mode commands (xine_frontend_kbd.c), and HDMI-CEC                 *)
(* (xine_frontend_cec.c).  They start after the first connection and are   *)
(* cancelled and joined before the frontend is freed.                      *)
(*                                                                         *)
(* lircd repeats a key that is held with a growing count and says nothing  *)
(* when it is let go: the thread makes up the release by a timeout.  Time  *)
(* is counted in units of REPEATFREQ (100 ms).                             *)
(***************************************************************************)
EXTENDS Naturals, FiniteSets

CONSTANTS LircKeys,        \* keys of the remote control
          HotKeys,         \* those the frontend acts on itself
          RepeatDelay,     \* REPEATDELAY: 3.5 units
          RepeatTimeout,   \* REPEATTIMEOUT: 5 units
          MaxCount         \* bound: lircd's count

REPEATFREQ == 1
NoKey == "none"
LongAgo == RepeatTimeout   \* elapsed times are counted up to this

VARIABLES lirc,    \* lirc_receiver_thread()'s variables; "waited": units in _select()
          remote,  \* the key held and its count, and whether a key's start was missed
          down,    \* the keys VDR takes for held: repeated, not released
          input    \* the other threads, and what they asked of the frontend

inVars == <<lirc, remote, down, input>>

InInit ==
  /\ lirc \in [running : {TRUE}, LastKeyName : {NoKey}, repeat : {FALSE}, first : {0}, last : {0},
               timed : {FALSE}, waited : {0}, repeat_emu : BOOLEAN, gui_hotkeys : BOOLEAN]
  /\ remote = [key |-> NoKey, count |-> 0, missed |-> FALSE]
  /\ down = {}
  /\ input = [kbd |-> "reads", cec |-> "INIT", last_key |-> NoKey, finished |-> FALSE]

---------------------------------------------------------------------------
(* lirc                                                                    *)

AllIn(key) == IF key \in HotKeys /\ lirc.gui_hotkeys THEN down ELSE down \cup {key}
Finished == input.finished

\* a count of 0, or one that the repeat emulation makes of it
Counted(key, count) ==
  IF lirc.repeat_emu /\ key = lirc.LastKeyName /\ lirc.last < RepeatDelay THEN 1 ELSE count

\* Wrong variant, for the sensitivity checks: a key follows a repeated
\* one without its release
NewKeyUnreleased(key) ==
  IF key = lirc.LastKeyName /\ lirc.first < RepeatDelay
  THEN lirc' = [lirc EXCEPT !.waited = 0] /\ UNCHANGED down
  ELSE /\ UNCHANGED down
       /\ lirc' = [lirc EXCEPT !.LastKeyName = key, !.repeat = FALSE, !.first = 0, !.last = 0,
                               !.timed = FALSE, !.waited = 0]

\* the first of a key: the one before it is released
NewKey(key) ==
  IF key = lirc.LastKeyName /\ lirc.first < RepeatDelay
  THEN lirc' = [lirc EXCEPT !.waited = 0] /\ UNCHANGED down
  ELSE /\ down' = IF lirc.repeat THEN down \ {lirc.LastKeyName} ELSE down
       /\ lirc' = [lirc EXCEPT !.LastKeyName = key, !.repeat = FALSE, !.first = 0, !.last = 0,
                               !.timed = FALSE, !.waited = 0]

RepeatedKey(key) ==
  IF lirc.last < REPEATFREQ
  THEN lirc' = [lirc EXCEPT !.waited = 0] /\ UNCHANGED down
  ELSE IF lirc.first < RepeatDelay
  THEN /\ lirc' = [lirc EXCEPT !.last = IF lirc.repeat_emu THEN 0 ELSE @, !.waited = 0]
       /\ UNCHANGED down
  ELSE /\ lirc' = [lirc EXCEPT !.repeat = TRUE, !.timed = TRUE, !.last = 0, !.waited = 0]
       /\ down' = AllIn(key)

LircLine(key, count) ==
  IF Counted(key, count) = 0 THEN NewKey(key) ELSE RepeatedKey(key)

\* a key is pressed, or held: with the emulation lircd sends no counts
PressKey ==
  /\ lirc.running /\ ~Finished
  /\ \E key \in LircKeys :
       /\ remote' = [remote EXCEPT !.key = key, !.count = 0]
       /\ LircLine(key, 0)
  /\ UNCHANGED input
HoldKey ==
  /\ lirc.running /\ ~Finished /\ remote.key # NoKey
  /\ LET count == IF lirc.repeat_emu THEN 0 ELSE IF remote.count < MaxCount THEN remote.count + 1 ELSE MaxCount
     IN  remote' = [remote EXCEPT !.count = count] /\ LircLine(remote.key, count)
  /\ UNCHANGED input
LetGo == /\ remote.key # NoKey
         /\ remote' = [remote EXCEPT !.key = NoKey, !.count = 0]
         /\ UNCHANGED <<lirc, down, input>>

\* lircd_connect() until it works: what the remote control sent meanwhile is lost
Reconnected ==
  /\ lirc.running
  /\ \E key \in LircKeys \cup {NoKey} :
       remote' = [key |-> key, count |-> 0, missed |-> key # NoKey \/ remote.missed]
  /\ lirc' = [lirc EXCEPT !.waited = 0]
  /\ UNCHANGED <<down, input>>

\* _select() returns without a key; the last one was a repeat: a release is made up
SelectTimeout ==
  /\ lirc.running /\ lirc.timed /\ lirc.waited >= RepeatDelay
  /\ IF lirc.repeat /\ lirc.last >= RepeatTimeout
     THEN /\ down' = down \ {lirc.LastKeyName}
          /\ lirc' = [lirc EXCEPT !.repeat = FALSE, !.LastKeyName = NoKey, !.timed = FALSE, !.waited = 0]
     ELSE lirc' = [lirc EXCEPT !.waited = 0] /\ UNCHANGED down
  /\ UNCHANGED <<remote, input>>

\* lircd repeats a key that is held before REPEATTIMEOUT
Later(t) == IF t < LongAgo THEN t + 1 ELSE t
UnitPasses ==
  /\ lirc.running /\ ~(lirc.timed /\ lirc.waited >= RepeatDelay)
  /\ lirc.repeat /\ remote.key # NoKey => lirc.last < RepeatTimeout - 1
  /\ lirc' = [lirc EXCEPT !.first = Later(@), !.last = Later(@), !.waited = IF lirc.timed THEN Later(@) ELSE 0]
  /\ UNCHANGED <<remote, down, input>>

\* the thread sees that the frontend has finished when a key wakes it, or is cancelled
LircEnds ==
  /\ lirc.running /\ Finished
  /\ lirc' = [lirc EXCEPT !.running = FALSE] /\ down' = {}
  /\ UNCHANGED <<remote, input>>

---------------------------------------------------------------------------
(* console, slave mode and CEC                                             *)

\* kbd_receiver_thread(): Esc, a hotkey or any other key; nothing; an error
KbdReads ==
  /\ input.kbd = "reads"
  /\ \/ input' = [input EXCEPT !.kbd = "ended", !.finished = TRUE]      \* Esc: QUIT
     \/ input' = [input EXCEPT !.kbd = "ended"]                         \* stdin is gone
     \/ ~Finished /\ UNCHANGED input                                    \* sent on
     \/ Finished /\ input' = [input EXCEPT !.kbd = "ended"]
  /\ UNCHANGED <<lirc, remote, down>>

\* _cec_receiver_thread()
CecState ==
  /\ input.cec # "ended"
  /\ input' = [input EXCEPT !.cec =
       CASE Finished -> "ended"
         [] ~Finished /\ @ = "INIT" -> "WAIT_DEVICE"
         [] ~Finished /\ @ = "WAIT_DEVICE" -> "RUNNING"
         [] ~Finished /\ @ = "RUNNING" -> "WAIT_DEVICE"]
  /\ UNCHANGED <<lirc, remote, down>>
CecFails == /\ input.cec = "INIT" /\ input' = [input EXCEPT !.cec = "ended"]
            /\ UNCHANGED <<lirc, remote, down>>

\* _cec4_keypress_cb(): the end of the key that was sent at its start is not sent again
CecKeypress ==
  /\ input.cec = "RUNNING"
  /\ \E key \in LircKeys, released \in BOOLEAN :
       /\ ~(key = input.last_key /\ released)
       /\ input' = [input EXCEPT !.last_key = IF released THEN NoKey ELSE key]
  /\ UNCHANGED <<lirc, remote, down>>

\* kbd_stop(), lirc_stop(), cec_stop(): all of them have been joined
InputStopped == ~lirc.running /\ input.kbd = "ended" /\ input.cec = "ended" /\ UNCHANGED inVars

InTimers == SelectTimeout \/ UnitPasses
InNext ==
  \/ PressKey \/ HoldKey \/ LetGo \/ Reconnected \/ SelectTimeout \/ UnitPasses \/ LircEnds
  \/ KbdReads \/ CecState \/ CecFails \/ CecKeypress \/ InputStopped

---------------------------------------------------------------------------
InTypeOK ==
  /\ lirc.LastKeyName \in LircKeys \cup {NoKey} /\ lirc.first \in 0 .. LongAgo /\ lirc.last \in 0 .. LongAgo
  /\ remote.key \in LircKeys \cup {NoKey} /\ down \subseteq LircKeys
  /\ input.kbd \in {"reads", "ended"} /\ input.cec \in {"INIT", "WAIT_DEVICE", "RUNNING", "ended"}

\* VDR takes at most one key for held, the one lirc_receiver_thread() will release,
\* however keys follow each other and whatever the repeat emulation makes of them;
\* unless the start of the key held was lost with the connection to lircd, when the
\* key before it is released in its place.
OneKeyHeld == (~remote.missed /\ down # {}) => down = {lirc.LastKeyName} /\ lirc.repeat
====
