------------------------------ MODULE UdpPacer ------------------------------
(***************************************************************************)
(* The pace of the transmitter: its clock (cTimePts of tools/time_pts.c),  *)
(* and Schedule() of tools/udp_pes_scheduler.c, which holds a frame back   *)
(* until its timestamp is due.  Replay at another speed or a pause set the *)
(* clock from VDR's threads while the scheduler thread reads it without a  *)
(* lock.  Timestamps and the clock wrap at PtsMax + 1 (2^33 in the         *)
(* program).                                                               *)
(***************************************************************************)
EXTENDS Integers

CONSTANTS PtsWrap,      \* timestamps are 0 .. PtsWrap - 1
          Stamps,       \* model bound: timestamps of the frames
          FrameKinds,   \* "video", "audio" (PES) and "pcr" (TS)
          JumpLimit,    \* JUMP_LIMIT_TIME
          Burst,        \* INITIAL_BURST_TIME
          MinDelay,     \* SCHEDULER_MIN_DELAY_MS, in ticks
          Multipliers,  \* speeds of the clock, in halves of normal speed
          MaxElapsed    \* model bound: ticks between two settings of the clock

VARIABLES
  clk,     \* cTimePts: begin, ticks since then, m_Paused, m_Multiplier
  pace,    \* m_CurrentVideoVtime, ..AudioVtime, m_CurrentPcr, m_TrickSpeed
  hold,    \* the frame that is held back: its SendTime; "plain" if the clock
           \* was set when it was read and has not wrapped since
  setter   \* the speed a thread is setting, 0 if none

pacerVars == <<clk, pace, hold, setter>>

NoFrame == [waits |-> FALSE, SendTime |-> 0, plain |-> FALSE]
Pause == -1

-----------------------------------------------------------------------------
(* cTimePts.                                                               *)

Now(c) == IF c.paused THEN c.begin
          ELSE (c.begin + (c.elapsed * c.mult) \div 2) % PtsWrap

SetTo(c, pts) == [c EXCEPT !.begin = pts, !.elapsed = 0]

(* Time goes on; a wrap of the clock is noted for the frame held back.     *)
Tick ==
  /\ clk.elapsed < MaxElapsed /\ setter = 0
  /\ clk' = [clk EXCEPT !.elapsed = @ + 1]
  /\ hold' = [hold EXCEPT !.plain = @ /\ Now(clk') >= Now(clk)]
  /\ UNCHANGED <<pace, setter>>

(* cTimePts::Resume(); and as Begun the wrong variant of it, for the       *)
(* sensitivity checks: the clock is not set before its speed changes.      *)
Halted(c) == IF c.paused THEN [SetTo(c, c.begin) EXCEPT !.paused = FALSE] ELSE c

(* The clock goes on if it was paused, and is set to what it shows: first  *)
(* "begin", then "tbegin".                                                 *)
Begun(c) == [Halted(c) EXCEPT !.begin = Now(Halted(c))]

(* cXinelibServer::TrickSpeed(): Pause(true), or Pause(false) and          *)
(* TrickSpeed().  Half set, the clock runs ahead for the scheduler thread, *)
(* which reads it without m_Lock.                                          *)
SpeedBegin ==
  /\ setter = 0
  /\ setter' \in Multipliers \cup {Pause}
  /\ clk' = IF setter' = Pause THEN [clk EXCEPT !.begin = Now(clk)] ELSE Begun(clk)
  /\ pace' = [pace EXCEPT !.m_TrickSpeed = FALSE]
  /\ UNCHANGED hold

SpeedSet ==
  /\ setter # 0 /\ setter' = 0
  /\ clk' = [clk EXCEPT !.elapsed = 0, !.paused = setter = Pause,
                        !.mult = IF setter = Pause THEN @ ELSE setter]
  /\ pace' = [pace EXCEPT !.m_TrickSpeed = setter \notin {Pause, 2}]
  /\ UNCHANGED hold

-----------------------------------------------------------------------------
(* CalcElapsedVtime(): a jump in the timestamps is followed; video does so *)
(* for the clock only in trick speeds.                                     *)
Jumps(kind, pts) ==
  LET diff == pts - pace[kind]
  IN diff > JumpLimit \/ (kind # "pcr" /\ -diff > JumpLimit) \/ (kind = "pcr" /\ diff < 0)

(* Is the frame paced?  Video that is sent out of order is not.            *)
Elapses(kind, pts) ==
  /\ ~Jumps(kind, pts)
  /\ IF kind = "audio" THEN pts # pace.audio ELSE pts > pace[kind]

Followed(kind, pts) ==
  IF kind = "video" /\ ~Jumps(kind, pts) /\ pts < pace.video THEN pace
  ELSE [pace EXCEPT ![kind] = pts]

SetsClock(kind, pts) == Jumps(kind, pts) /\ (kind = "video" => pace.m_TrickSpeed)

(* The scheduler thread takes a frame with a timestamp: Schedule() up to   *)
(* its delay loop.                                                         *)
Schedule ==
  /\ ~hold.waits
  /\ \E kind \in FrameKinds, pts \in Stamps :
       LET SendTime == Followed(kind, pts)[kind]
           now == Now(clk)
           off == now - SendTime > JumpLimit \/ SendTime - now > JumpLimit
       IN /\ pace' = Followed(kind, pts)
          /\ IF SetsClock(kind, pts) \/ (Elapses(kind, pts) /\ off)
             THEN clk' = SetTo(clk, SendTime + Burst) /\ UNCHANGED hold
             ELSE /\ UNCHANGED clk
                  /\ hold' = IF Elapses(kind, pts) /\ SendTime - now >= MinDelay
                             THEN [waits |-> TRUE, SendTime |-> SendTime, plain |-> setter = 0]
                             ELSE hold
  /\ UNCHANGED setter

(* The delay loop ends.                                                    *)
Due ==
  /\ hold.waits /\ hold.SendTime - Now(clk) < MinDelay
  /\ hold' = NoFrame
  /\ UNCHANGED <<clk, pace, setter>>

-----------------------------------------------------------------------------
PacerInit ==
  /\ clk = [begin |-> 0, elapsed |-> 0, paused |-> FALSE, mult |-> 2]
  /\ pace = [video |-> 0, audio |-> 0, pcr |-> 0, m_TrickSpeed |-> FALSE]
  /\ hold = NoFrame /\ setter = 0

PacerNext == Tick \/ SpeedBegin \/ SpeedSet \/ Schedule \/ Due

(* Type invariant.                                                         *)
PacerTypeOK ==
  /\ clk.begin \in 0 .. PtsWrap - 1 + Burst /\ clk.elapsed \in 0 .. MaxElapsed
  /\ clk.mult \in Multipliers \cup {2} /\ clk.paused \in BOOLEAN
  /\ pace \in [video : Stamps \cup {0}, audio : Stamps \cup {0}, pcr : Stamps \cup {0},
               m_TrickSpeed : BOOLEAN]
  /\ setter \in Multipliers \cup {0, Pause}
  /\ hold \in [waits : BOOLEAN, SendTime : Stamps \cup {0}, plain : BOOLEAN]

(* The scheduler thread holds no frame back for longer than                *)
(* JUMP_LIMIT_TIME of its clock, over jumps of the timestamps, pauses and  *)
(* changes of the speed (Schedule()).  The clock's own wrap while it waits *)
(* is the exception: then the frame is due almost a whole period later.    *)
HeldWithinLimit ==
  hold.waits /\ hold.plain /\ setter = 0 => hold.SendTime - Now(clk) <= JumpLimit
=============================================================================
