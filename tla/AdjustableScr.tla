--------------------------- MODULE AdjustableScr ----------------------------
(***************************************************************************)
(* The clock the client gives to xine (adjustable_scr.c).  It is a pivot,  *)
(* a pair of a moment and the clock's value then, and a factor: the value  *)
(* now is computed from them.  Every change of the factor takes a pivot    *)
(* first.  xine's engine sets the speed, the reader of the stream fine     *)
(* tunes it (set_speed_tuning()), the control connection sets the base     *)
(* ("SCR NotLive"), the metronom stops the clock while it buffers, and a   *)
(* receiver whose fifo is full jumps forward: all of them threads of their *)
(* own, under the clock's lock.                                            *)
(*                                                                         *)
(* Speed, tuning and base are small integers, their product the factor.    *)
(***************************************************************************)
EXTENDS Integers

CONSTANTS ScrFactors,  \* values of xine_speed, of scr_speed_base and of speed_tuning
          MaxNow,      \* model bound: moments
          MaxJumps     \* model bound: jumps and adjustments

ASSUME ScrAssumption == ScrFactors \subseteq Nat

VARIABLES now, scr, jumps
scrVars == <<now, scr, jumps>>

SpeedFactor(s) == s.xine_speed * s.scr_speed_base * s.speed_tuning

(* scr_get_current().                                                      *)
GetCurrent(s, t) ==
  IF s.buffering THEN s.cur_pts ELSE s.cur_pts + (t - s.cur_time) * SpeedFactor(s)

(* Wrong variant, for the sensitivity checks: no new moment while the      *)
(* clock stands.                                                           *)
SetPivotUnlessBuffering(s) ==
  IF s.buffering THEN s ELSE [s EXCEPT !.cur_pts = GetCurrent(s, now), !.cur_time = now]

SetPivot(s) == [s EXCEPT !.cur_pts = GetCurrent(s, now), !.cur_time = now]

SetFineSpeed == \E f \in ScrFactors \cup {0} : scr' = [SetPivot(scr) EXCEPT !.xine_speed = f]
SpeedTuning  == \E f \in ScrFactors : scr' = [SetPivot(scr) EXCEPT !.speed_tuning = f]
SpeedBase    == \E f \in ScrFactors : scr' = [SetPivot(scr) EXCEPT !.scr_speed_base = f]

SetBuffering ==
  \E on \in BOOLEAN :
    scr' = IF on = scr.buffering THEN scr ELSE [SetPivot(scr) EXCEPT !.buffering = on]

(* The clock is moved on purpose.                                          *)
ScrJump == /\ jumps < MaxJumps /\ jumps' = jumps + 1
           /\ scr' = [SetPivot(scr) EXCEPT !.cur_pts = @ + 1]
ScrAdjust == /\ jumps < MaxJumps /\ jumps' = jumps + 1
             /\ \E vpts \in 0 .. 1 : scr' = [scr EXCEPT !.cur_time = now, !.cur_pts = vpts]
(* scr_start(): xine starts the clock it has been given.                   *)
ScrStart == /\ jumps < MaxJumps /\ jumps' = jumps + 1
            /\ \E vpts \in 0 .. 1 :
                 scr' = [scr EXCEPT !.cur_time = now, !.cur_pts = vpts, !.xine_speed = 1]

Tick == now < MaxNow /\ now' = now + 1 /\ UNCHANGED <<scr, jumps>>

ScrInit == /\ now = 0 /\ jumps = 0
           /\ scr = [cur_time |-> 0, cur_pts |-> 0, xine_speed |-> 1, scr_speed_base |-> 1,
                     speed_tuning |-> 1, buffering |-> FALSE]

ScrNext == \/ Tick
           \/ (SetFineSpeed \/ SpeedTuning \/ SpeedBase \/ SetBuffering) /\ UNCHANGED <<now, jumps>>
           \/ (ScrJump \/ ScrAdjust \/ ScrStart) /\ UNCHANGED now

-----------------------------------------------------------------------------
(* Type invariant.                                                         *)
ScrTypeOK == /\ scr.cur_time \in 0 .. now /\ scr.cur_pts \in Nat
             /\ SpeedFactor(scr) \in Nat /\ scr.buffering \in BOOLEAN

(* Whoever changes the speed, stops or continues the clock, in whatever    *)
(* order, the clock shows the same time before and after; and it runs      *)
(* backwards never, and not at all while buffering (set_pivot()).          *)
ClockSteady ==
  [][ \/ jumps' # jumps
      \/ LET before == GetCurrent(scr, now)
             after  == GetCurrent(scr', now')
         IN  IF now' = now THEN after = before
             ELSE after = before + (IF scr.buffering THEN 0 ELSE SpeedFactor(scr)) ]_scrVars
=============================================================================
