---------------------------- MODULE ClientProofs ----------------------------
(***************************************************************************)
(* Proofs about components of the frontend.                                *)
(***************************************************************************)
EXTENDS MCClientComponents, TLAPS

-----------------------------------------------------------------------------
(* The reserve of the input plugin's video fifo is kept for every size of  *)
(* the pools.  ControlHasRoom is not inductive: whether a block may take a *)
(* buffer is decided by how many are free, and against a limit that was    *)
(* set for another pool, perhaps.  BufInv adds that every buffer of the    *)
(* fifo is either free or queued, and that no limit is below the reserve.  *)

BufSpec == BufInit /\ [][BufNext]_bufVars

Queues == Pools \cup {"control"}

(* The variables are records of numbers.                                   *)
BufShape ==
  /\ lim \in [hd_stream : BOOLEAN, no_video : BOOLEAN, live_mode : BOOLEAN, reserved : Int]
  /\ pool \in [Pools -> Int]
  /\ queued \in [Queues -> Nat]

\* set_buffer_limits() leaves Reserve buffers or more, whatever the stream is.
ReserveLeft == lim.reserved >= Reserve

\* Every buffer of the video fifo's pool is free or waits.
SdAccounted == pool["sd"] + queued["sd"] + queued["control"] = PoolSize

BufInv == BufShape /\ ReserveLeft /\ SdAccounted /\ ControlHasRoom

-----------------------------------------------------------------------------
(* set_buffer_limits() keeps the shape, and the reserve also for radio.    *)
LEMMA LimitsReserve ==
  ASSUME NEW l \in [hd_stream : BOOLEAN, no_video : BOOLEAN, live_mode : BOOLEAN, reserved : Int]
  PROVE  /\ SetBufferLimits(l) \in [hd_stream : BOOLEAN, no_video : BOOLEAN,
                                    live_mode : BOOLEAN, reserved : Int]
         /\ SetBufferLimits(l).reserved >= Reserve
<1> DEFINE capacity == IF l.hd_stream THEN HdSize ELSE PoolSize
           quarter == IF ~l.live_mode /\ ~BufRemote THEN capacity \div 4 ELSE 0
<1>1. capacity \in Nat /\ capacity - RadioMax >= Reserve
  BY BufAssumption
<1>2. quarter \in Nat
  <2>1. capacity \div 4 \in Nat
    BY <1>1
  <2> QED BY <2>1
<1>3. SetBufferLimits(l) = [l EXCEPT !.reserved = IF l.no_video THEN capacity - RadioMax
                                                  ELSE Reserve + quarter]
  BY DEF SetBufferLimits
<1> HIDE DEF capacity, quarter
<1> QED BY <1>1, <1>2, <1>3, BufAssumption

(* A stream block gets a buffer of the video fifo only above the reserve.  *)
LEMMA BlocksAboveReserve ==
  ASSUME BufInv, NEW size \in PacketSizes, GetBufElement(size) = "sd"
  PROVE  pool["sd"] >= Reserve
<1>1. pool["sd"] \in Int /\ lim.reserved \in Int
  BY DEF BufInv, BufShape, Pools
<1>2. ~(pool["sd"] < lim.reserved)
  BY DEF GetBufElement
<1> QED BY <1>1, <1>2, BufAssumption DEF BufInv, ReserveLeft

(* GetBufElement() names a pool or none.                                   *)
LEMMA ElementPool ==
  ASSUME NEW size \in PacketSizes, GetBufElement(size) # "none"
  PROVE  GetBufElement(size) \in Pools
  BY DEF GetBufElement, Fallback, Pools

-----------------------------------------------------------------------------
LEMMA BufInitInv == BufInit => BufInv
  BY BufAssumption
  DEF BufInit, BufInv, BufShape, ReserveLeft, SdAccounted, ControlHasRoom, Capacity, Pools, Queues

LEMMA LimitsInv ==
  ASSUME BufInv, HDMODE \/ NOVIDEO \/ LiveMode
  PROVE  BufInv'
<1>1. /\ lim' \in [hd_stream : BOOLEAN, no_video : BOOLEAN, live_mode : BOOLEAN, reserved : Int]
      /\ lim'.reserved >= Reserve
  <2>1. PICK l \in [hd_stream : BOOLEAN, no_video : BOOLEAN, live_mode : BOOLEAN, reserved : Int] :
          lim' = SetBufferLimits(l)
    BY DEF HDMODE, NOVIDEO, LiveMode, BufInv, BufShape
  <2> QED BY <2>1, LimitsReserve
<1>2. UNCHANGED <<pool, queued>>
  BY DEF HDMODE, NOVIDEO, LiveMode
<1> QED BY <1>1, <1>2 DEF BufInv, BufShape, ReserveLeft, SdAccounted, ControlHasRoom

LEMMA WriteInv ==
  ASSUME BufInv, BufWrite
  PROVE  BufInv'
<1>1. PICK size \in PacketSizes :
        LET p == GetBufElement(size)
        IN /\ p # "none"
           /\ pool' = [pool EXCEPT ![p] = @ - 1]
           /\ queued' = [queued EXCEPT ![p] = @ + 1]
           /\ UNCHANGED <<lim, poll>>
  BY DEF BufWrite
<1> DEFINE p == GetBufElement(size)
<1>2. p \in Pools
  BY <1>1, ElementPool
<1>3. p = "sd" => pool["sd"] >= Reserve
  BY BlocksAboveReserve
<1>4. /\ pool' = [pool EXCEPT ![p] = @ - 1] /\ queued' = [queued EXCEPT ![p] = @ + 1]
      /\ lim' = lim
  BY <1>1
<1> HIDE DEF p
<1>5. BufShape'
  BY <1>2, <1>4 DEF BufInv, BufShape, Pools, Queues
<1>6. SdAccounted' /\ ControlHasRoom'
  BY <1>2, <1>3, <1>4, BufAssumption
  DEF BufInv, BufShape, SdAccounted, ControlHasRoom, Pools, Queues
<1> QED BY <1>4, <1>5, <1>6 DEF BufInv, ReserveLeft

LEMMA PutControlInv ==
  ASSUME BufInv, PutControlBuf
  PROVE  BufInv'
<1>1. BufShape'
  BY DEF PutControlBuf, BufInv, BufShape, Pools, Queues
<1> QED BY <1>1, BufAssumption
        DEF PutControlBuf, BufInv, BufShape, ReserveLeft, SdAccounted, ControlHasRoom, Pools, Queues

LEMMA ReadInv ==
  ASSUME BufInv, BufRead
  PROVE  BufInv'
<1>1. CASE /\ queued.control > 0
           /\ queued' = [queued EXCEPT !.control = @ - 1]
           /\ pool' = [pool EXCEPT !["sd"] = @ + 1]
           /\ UNCHANGED <<lim, poll>>
  BY <1>1, BufAssumption
  DEF BufInv, BufShape, ReserveLeft, SdAccounted, ControlHasRoom, Pools, Queues
<1>2. CASE \E p \in Pools : /\ queued[p] > 0
                            /\ queued' = [queued EXCEPT ![p] = @ - 1]
                            /\ pool' = [pool EXCEPT ![p] = @ + 1]
                            /\ UNCHANGED <<lim, poll>>
  <2>1. PICK p \in Pools : /\ queued[p] > 0
                           /\ queued' = [queued EXCEPT ![p] = @ - 1]
                           /\ pool' = [pool EXCEPT ![p] = @ + 1]
                           /\ UNCHANGED <<lim, poll>>
    BY <1>2
  <2> QED BY <2>1, BufAssumption
          DEF BufInv, BufShape, ReserveLeft, SdAccounted, ControlHasRoom, Pools, Queues
<1> QED BY <1>1, <1>2 DEF BufRead

LEMMA FlushInv ==
  ASSUME BufInv, FlushAllFifos
  PROVE  BufInv'
<1>1. /\ pool'["sd"] = pool["sd"] + queued["sd"] + queued["control"]
      /\ queued'["sd"] = 0 /\ queued'["control"] = 0 /\ lim' = lim
  BY DEF FlushAllFifos, BufInv, BufShape, Pools, Queues
<1>2. BufShape'
  BY DEF FlushAllFifos, BufInv, BufShape, Pools, Queues
<1> QED BY <1>1, <1>2, BufAssumption
        DEF BufInv, BufShape, ReserveLeft, SdAccounted, ControlHasRoom, Pools, Queues

LEMMA BufStep == BufInv /\ [BufNext]_bufVars => BufInv'
<1> SUFFICES ASSUME BufInv, [BufNext]_bufVars PROVE BufInv'
  OBVIOUS
<1>1. CASE HDMODE \/ NOVIDEO \/ LiveMode BY <1>1, LimitsInv
<1>2. CASE BufWrite BY <1>2, WriteInv
<1>3. CASE PutControlBuf BY <1>3, PutControlInv
<1>4. CASE BufRead BY <1>4, ReadInv
<1>5. CASE FlushAllFifos BY <1>5, FlushInv
<1>6. CASE BufPoll \/ BufPollEnds
  BY <1>6 DEF BufPoll, BufPollEnds, BufInv, BufShape, ReserveLeft, SdAccounted, ControlHasRoom
<1>7. CASE UNCHANGED bufVars
  BY <1>7 DEF bufVars, BufInv, BufShape, ReserveLeft, SdAccounted, ControlHasRoom
<1> QED BY <1>1, <1>2, <1>3, <1>4, <1>5, <1>6, <1>7 DEF BufNext

(* Stream data never takes the buffers that are reserved for control       *)
(* messages, whatever HDMODE, NOVIDEO and LIVE do to the limits while data  *)
(* is queued (set_buffer_limits(), get_buf_element()), for every size of   *)
(* the pools that holds the reserve.                                       *)
THEOREM ControlRoomKept == BufSpec => []ControlHasRoom
<1>1. BufInv => ControlHasRoom
  BY DEF BufInv
<1> QED BY <1>1, BufInitInv, BufStep, PTL DEF BufSpec

-----------------------------------------------------------------------------
(* The player's clock is steady for every set of speeds, tunings and       *)
(* bases, and for a clock that runs for ever.  The clock's value is        *)
(* computed when it is asked for; only that cur_pts and cur_time are taken *)
(* together keeps it, so the proof is about one step, and the invariant it *)
(* rests on says of what kind the fields are.                              *)

ScrSpec == ScrInit /\ [][ScrNext]_scrVars

ScrFields == [cur_time : Int, cur_pts : Int, xine_speed : Int, scr_speed_base : Int,
              speed_tuning : Int, buffering : BOOLEAN]

ScrInv == now \in Nat /\ jumps \in Nat /\ scr \in ScrFields

-----------------------------------------------------------------------------
LEMMA FactorInt ==
  ASSUME NEW s \in ScrFields
  PROVE  SpeedFactor(s) \in Int
  BY DEF SpeedFactor, ScrFields

LEMMA CurrentInt ==
  ASSUME NEW s \in ScrFields, NEW t \in Int
  PROVE  GetCurrent(s, t) \in Int
<1>1. SpeedFactor(s) \in Int
  BY FactorInt
<1> QED BY <1>1 DEF GetCurrent, ScrFields

LEMMA RunningShows ==
  ASSUME NEW s, NEW t, ~ s.buffering
  PROVE  GetCurrent(s, t) = s.cur_pts + (t - s.cur_time) * SpeedFactor(s)
  BY DEF GetCurrent

(* One unit of time moves the clock by its factor.                         *)
LEMMA OneUnit ==
  ASSUME NEW t \in Int, NEW next \in Int, NEW t0 \in Int, NEW f \in Int, next = t + 1
  PROVE  (next - t0) * f = (t - t0) * f + f
  BY SMT

(* A new pair of moment and value leaves the speeds and "buffering".       *)
LEMMA NewPair ==
  ASSUME NEW s \in ScrFields, NEW pts \in Int, NEW t \in Int
  PROVE  /\ [s EXCEPT !.cur_pts = pts, !.cur_time = t] \in ScrFields
         /\ [s EXCEPT !.cur_time = t, !.cur_pts = pts] \in ScrFields
         /\ [s EXCEPT !.cur_pts = pts, !.cur_time = t].cur_time = t
         /\ [s EXCEPT !.cur_pts = pts, !.cur_time = t].cur_pts = pts
         /\ [s EXCEPT !.cur_pts = pts, !.cur_time = t].buffering = s.buffering
  BY DEF ScrFields

(* A pivot taken now shows what the clock shows, and keeps the fields.     *)
LEMMA PivotShows ==
  ASSUME ScrInv
  PROVE  /\ SetPivot(scr) \in ScrFields
         /\ SetPivot(scr).cur_time = now
         /\ SetPivot(scr).cur_pts = GetCurrent(scr, now)
         /\ SetPivot(scr).buffering = scr.buffering
<1>1. GetCurrent(scr, now) \in Int
  BY CurrentInt DEF ScrInv
<1>2. scr \in ScrFields /\ now \in Int
  BY DEF ScrInv
<1> DEFINE pts == GetCurrent(scr, now)
<1>3. SetPivot(scr) = [scr EXCEPT !.cur_pts = pts, !.cur_time = now]
  BY DEF SetPivot
<1>4. pts \in Int
  BY <1>1
<1> HIDE DEF pts
<1>5. /\ [scr EXCEPT !.cur_pts = pts, !.cur_time = now] \in ScrFields
      /\ [scr EXCEPT !.cur_pts = pts, !.cur_time = now].cur_time = now
      /\ [scr EXCEPT !.cur_pts = pts, !.cur_time = now].cur_pts = pts
      /\ [scr EXCEPT !.cur_pts = pts, !.cur_time = now].buffering = scr.buffering
  BY <1>2, <1>4 DEF ScrFields
<1>6. pts = GetCurrent(scr, now)
  BY DEF pts
<1> QED BY <1>3, <1>5, <1>6

(* A clock whose pivot is of this moment shows the pivot's value, whatever *)
(* its factor is.                                                          *)
LEMMA AtPivot ==
  ASSUME NEW s \in ScrFields, NEW t \in Int, s.cur_time = t
  PROVE  GetCurrent(s, t) = s.cur_pts
<1>1. SpeedFactor(s) \in Int
  BY FactorInt
<1>2. (t - t) * SpeedFactor(s) = 0
  BY <1>1
<1>3. s.cur_pts \in Int
  BY DEF ScrFields
<1> QED BY <1>2, <1>3 DEF GetCurrent

(* The operations that change the speed or stop the clock.                 *)
LEMMA TuningSteady ==
  ASSUME ScrInv, SetFineSpeed \/ SpeedTuning \/ SpeedBase \/ SetBuffering
  PROVE  scr' \in ScrFields /\ GetCurrent(scr', now) = GetCurrent(scr, now)
<1> DEFINE pivot == SetPivot(scr)
<1>1. /\ pivot \in ScrFields /\ pivot.cur_time = now
      /\ pivot.cur_pts = GetCurrent(scr, now)
  BY PivotShows
<1>2. CASE scr' = scr
  BY <1>2 DEF ScrInv
<1>3. CASE scr' # scr
  <2>1. /\ scr' \in ScrFields
        /\ scr'.cur_time = pivot.cur_time /\ scr'.cur_pts = pivot.cur_pts
    <3>1. \/ \E f \in ScrFactors \cup {0} : scr' = [pivot EXCEPT !.xine_speed = f]
          \/ \E f \in ScrFactors : scr' = [pivot EXCEPT !.speed_tuning = f]
          \/ \E f \in ScrFactors : scr' = [pivot EXCEPT !.scr_speed_base = f]
          \/ \E on \in BOOLEAN : scr' = [pivot EXCEPT !.buffering = on]
      BY <1>3 DEF SetFineSpeed, SpeedTuning, SpeedBase, SetBuffering
    <3> HIDE DEF pivot
    <3> QED BY <3>1, <1>1, ScrAssumption DEF ScrFields
  <2>2. GetCurrent(scr', now) = scr'.cur_pts
    BY <2>1, <1>1, AtPivot DEF ScrInv
  <2> QED BY <2>1, <2>2, <1>1
<1> QED BY <1>2, <1>3

-----------------------------------------------------------------------------
LEMMA ScrInitInv == ScrInit => ScrInv
  BY DEF ScrInit, ScrInv, ScrFields

LEMMA MovedInv ==
  ASSUME ScrInv, ScrJump \/ ScrAdjust \/ ScrStart
  PROVE  scr' \in ScrFields
<1>1. SetPivot(scr) \in ScrFields
  BY PivotShows
<1>2. CASE ScrJump
  BY <1>1, <1>2 DEF ScrJump, ScrFields
<1>3. CASE ScrAdjust \/ ScrStart
  <2>1. PICK vpts \in 0 .. 1 :
          \/ scr' = [scr EXCEPT !.cur_time = now, !.cur_pts = vpts]
          \/ scr' = [scr EXCEPT !.cur_time = now, !.cur_pts = vpts, !.xine_speed = 1]
    BY <1>3 DEF ScrAdjust, ScrStart
  <2>2. vpts \in Int /\ now \in Int /\ scr \in ScrFields
    BY DEF ScrInv
  <2>3. CASE scr' = [scr EXCEPT !.cur_time = now, !.cur_pts = vpts]
    BY <2>2, <2>3 DEF ScrFields
  <2>4. CASE scr' = [scr EXCEPT !.cur_time = now, !.cur_pts = vpts, !.xine_speed = 1]
    <3> DEFINE set == [scr EXCEPT !.cur_time = now, !.cur_pts = vpts]
    <3>1. set \in ScrFields
      BY <2>2 DEF ScrFields
    <3>2. scr' = [set EXCEPT !.xine_speed = 1]
      BY <2>4
    <3> HIDE DEF set
    <3> QED BY <3>1, <3>2 DEF ScrFields
  <2> QED BY <2>1, <2>3, <2>4
<1> QED BY <1>2, <1>3

LEMMA ScrStep == ScrInv /\ [ScrNext]_scrVars => ScrInv'
<1> SUFFICES ASSUME ScrInv, [ScrNext]_scrVars PROVE ScrInv'
  OBVIOUS
<1>1. CASE Tick
  BY <1>1 DEF Tick, ScrInv
<1>2. CASE (SetFineSpeed \/ SpeedTuning \/ SpeedBase \/ SetBuffering) /\ UNCHANGED <<now, jumps>>
  BY <1>2, TuningSteady DEF ScrInv
<1>3. CASE (ScrJump \/ ScrAdjust \/ ScrStart) /\ UNCHANGED now
  <2>1. jumps' = jumps + 1
    BY <1>3 DEF ScrJump, ScrAdjust, ScrStart
  <2>2. scr' \in ScrFields
    BY <1>3, MovedInv
  <2> QED BY <2>1, <2>2, <1>3 DEF ScrInv
<1>4. CASE UNCHANGED scrVars
  BY <1>4 DEF scrVars, ScrInv
<1> QED BY <1>1, <1>2, <1>3, <1>4 DEF ScrNext

(* What a step may do to the clock, from any state of the invariant.       *)
SteadyStep ==
  \/ jumps' # jumps
  \/ LET before == GetCurrent(scr, now)
         after  == GetCurrent(scr', now')
     IN  IF now' = now THEN after = before
         ELSE after = before + (IF scr.buffering THEN 0 ELSE SpeedFactor(scr))

LEMMA StepSteady ==
  ASSUME ScrInv, ScrNext
  PROVE  SteadyStep
<1>1. CASE Tick
  <2>1. now' = now + 1 /\ now' # now /\ scr' = scr
    BY <1>1 DEF Tick, ScrInv
  <2>2. SpeedFactor(scr) \in Int
    BY FactorInt DEF ScrInv
  <2>3. /\ now \in Int /\ now' \in Int /\ scr.cur_time \in Int /\ scr.cur_pts \in Int
        /\ (now' - scr.cur_time) * SpeedFactor(scr)
             = (now - scr.cur_time) * SpeedFactor(scr) + SpeedFactor(scr)
    BY <2>1, <2>2, OneUnit DEF ScrInv, ScrFields
  <2>4. (now - scr.cur_time) * SpeedFactor(scr) \in Int
    BY <2>2, <2>3
  <2>5. GetCurrent(scr, now')
          = GetCurrent(scr, now) + (IF scr.buffering THEN 0 ELSE SpeedFactor(scr))
    <3>1. CASE scr.buffering
      BY <3>1, <2>3 DEF GetCurrent
    <3>2. CASE ~ scr.buffering
      <4>1. GetCurrent(scr, now) = scr.cur_pts + (now - scr.cur_time) * SpeedFactor(scr)
        BY <3>2, RunningShows
      <4>2. GetCurrent(scr, now') = scr.cur_pts + (now' - scr.cur_time) * SpeedFactor(scr)
        BY <3>2, RunningShows
      <4> DEFINE f    == SpeedFactor(scr)
                 past == (now - scr.cur_time) * SpeedFactor(scr)
                 next == (now' - scr.cur_time) * SpeedFactor(scr)
      <4>3. past \in Int /\ f \in Int /\ next = past + f
        BY <2>2, <2>3, <2>4
      <4>4. GetCurrent(scr, now) = scr.cur_pts + past
        BY <4>1
      <4>5. GetCurrent(scr, now') = scr.cur_pts + next
        BY <4>2
      <4> HIDE DEF f, past, next
      <4>6. GetCurrent(scr, now') = GetCurrent(scr, now) + f
        BY <4>3, <4>4, <4>5, <2>3
      <4> QED BY <3>2, <4>6 DEF f
    <3> QED BY <3>1, <3>2
  <2> QED BY <2>1, <2>5 DEF SteadyStep
<1>2. CASE (SetFineSpeed \/ SpeedTuning \/ SpeedBase \/ SetBuffering) /\ UNCHANGED <<now, jumps>>
  BY <1>2, TuningSteady DEF SteadyStep
<1>3. CASE (ScrJump \/ ScrAdjust \/ ScrStart) /\ UNCHANGED now
  <2>1. jumps' = jumps + 1
    BY <1>3 DEF ScrJump, ScrAdjust, ScrStart
  <2> QED BY <2>1 DEF SteadyStep
<1> QED BY <1>1, <1>2, <1>3 DEF ScrNext

(* Whatever is done to the clock's speed, tuning, base and buffering, by   *)
(* any thread and in any order, the clock shows the same time before and   *)
(* after, and only time itself moves it (adjustable_scr.c).                *)
THEOREM ClockIsSteady == ScrSpec => ClockSteady
<1>1. ScrInv /\ [ScrNext]_scrVars => [SteadyStep]_scrVars
  BY StepSteady
<1>2. ClockSteady <=> [][SteadyStep]_scrVars
  BY DEF ClockSteady, SteadyStep
<1> QED BY <1>1, <1>2, ScrInitInv, ScrStep, PTL DEF ScrSpec

-----------------------------------------------------------------------------
(* Transport streams.  The property is about each converter and what the   *)
(* decoder has got of its stream: TsInv relates the two.                   *)

Converters == [n : Nat, pes_len : Nat, first_pusi_seen : BOOLEAN, frame_end_sent : BOOLEAN,
               pes_error : BOOLEAN, unit : {0, 1}, announced : Int, kept : Nat]
Decoders == [units : SUBSET {0, 1}, n : Nat, whole : BOOLEAN]

\* Every packet kept of the unit is in the buffer or has been put; or the
\* unit is over, or a broken one that was dropped.
AllPut(c, d) ==
  \/ c.kept = d.n + c.n /\ (c.pes_error = TRUE => c.n = 0 \/ d.n = 0)
  \/ c.pes_error = TRUE /\ c.n = 0 /\ d.n = 0

\* Nothing is begun: the first unit is waited for, or the last has been ended.
Idle(c, d) == c.first_pusi_seen = FALSE \/ c.frame_end_sent = TRUE =>
                c.n = 0 /\ d.n = 0 /\ d.units = {}

\* What pes_len still waits for; what is dropped is broken, or behind the end.
Awaits(c) ==
  /\ c.frame_end_sent = TRUE => c.pes_error = TRUE
  /\ IF c.pes_error = TRUE THEN ~Ts!Missing(c)
     ELSE IF c.announced > 0 THEN c.pes_len = c.announced - c.kept /\ c.pes_len > 0
     ELSE c.pes_len = 0

Collects(c, d) == c \in Converters /\ d.units \subseteq {c.unit} /\ AllPut(c, d) /\ Idle(c, d) /\ Awaits(c)

\* A converter and what its decoder has got.
Matches(c, d) ==
  /\ d \in Decoders /\ d.whole = TRUE
  /\ IF c = Ts!NoTs2Es THEN d.units = {} /\ d.n = 0 ELSE Collects(c, d)

Present == Converters \cup {Ts!NoTs2Es}

TsInv == /\ demux \in [es : [Ts!Pids -> Present], tracks : Int, audio_type : Int]
         /\ decoder \in [Ts!Pids -> Decoders]
         /\ \A pid \in Ts!Pids : Matches(demux.es[pid], decoder[pid])

LEMMA AbsentDiffers == \A c \in Converters : c # Ts!NoTs2Es
BY DEF Converters, Ts!NoTs2Es

\* The end of a frame, a full buffer, and a flush.
LEMMA PutEnds ==
  ASSUME NEW c \in Converters, NEW d \in Decoders, d.whole = TRUE,
         d.n + c.n \in {0, c.kept}, NEW t, t = Ts!Put(d, c, TRUE, FALSE)
  PROVE  t \in Decoders /\ t.whole = TRUE /\ t.units = {} /\ t.n = 0
<1>1. d.n + c.n > 0 => d.n + c.n = c.kept
  OBVIOUS
<1>2. t = [units |-> {}, n |-> 0, whole |-> TRUE]
  BY <1>1 DEF Ts!Put
<1> QED
  BY ONLY <1>2 DEF Decoders

LEMMA PutOn ==
  ASSUME NEW c \in Converters, NEW d \in Decoders, d.whole = TRUE, d.units \subseteq {c.unit},
         NEW t, t = Ts!Put(d, c, FALSE, FALSE)
  PROVE  t \in Decoders /\ t.whole = TRUE /\ t.units \subseteq {c.unit} /\ t.n = d.n + c.n
<1> PICK u : u = IF c.n > 0 THEN d.units \cup {c.unit} ELSE d.units
  OBVIOUS
<1> PICK n : n = d.n + c.n
  OBVIOUS
<1>1. n \in Nat /\ u \subseteq {c.unit} /\ u \subseteq {0, 1}
  BY DEF Converters, Decoders
<1>2. t = [units |-> u, n |-> n, whole |-> TRUE]
  BY DEF Ts!Put
<1>3. t \in Decoders /\ t.whole = TRUE /\ t.units = u /\ t.n = n
  BY ONLY <1>1, <1>2 DEF Decoders
<1> QED
  BY <1>1, <1>3

LEMMA PutFlushed ==
  ASSUME NEW c \in Converters, NEW d \in Decoders, d.whole = TRUE,
         NEW t, t = Ts!Put(d, c, TRUE, TRUE)
  PROVE  t \in Decoders /\ t.whole = TRUE /\ t.units = {} /\ t.n = d.n + c.n
<1> PICK n : n = d.n + c.n
  OBVIOUS
<1>1. n \in Nat
  BY DEF Converters, Decoders
<1>2. t = [units |-> {}, n |-> n, whole |-> TRUE]
  BY DEF Ts!Put
<1>3. t \in Decoders /\ t.whole = TRUE /\ t.units = {} /\ t.n = n
  BY ONLY <1>1, <1>2 DEF Decoders
<1> QED
  BY <1>3

LEMMA AddedFacts ==
  ASSUME NEW c \in Converters, NEW t, t = Ts!Added(c)
  PROVE  /\ t \in Converters /\ t.n = c.n + 1 /\ t.kept = c.kept + 1
         /\ t.announced = c.announced /\ t.unit = c.unit
         /\ t.pes_error = c.pes_error /\ t.pes_len = c.pes_len
         /\ t.first_pusi_seen = c.first_pusi_seen /\ t.frame_end_sent = c.frame_end_sent
<1> PICK n : n = c.n + 1
  OBVIOUS
<1> PICK k : k = c.kept + 1
  OBVIOUS
<1>1. n \in Nat /\ k \in Nat
  BY DEF Converters
<1>2. t = [c EXCEPT !.n = n, !.kept = k]
  BY DEF Ts!Added
<1>3. t \in Converters
  BY ONLY <1>1, <1>2, c \in Converters DEF Converters
<1>4. /\ t.n = n /\ t.kept = k /\ t.announced = c.announced /\ t.unit = c.unit
      /\ t.pes_error = c.pes_error /\ t.pes_len = c.pes_len
      /\ t.first_pusi_seen = c.first_pusi_seen /\ t.frame_end_sent = c.frame_end_sent
  BY ONLY <1>2, c \in Converters DEF Converters
<1> QED
  BY <1>3, <1>4

\* The first packet of a unit is in the buffer; its header is read, or not.
Begun(c, header) ==
  /\ c \in Converters /\ c.n = 1 /\ c.kept = 1 /\ c.announced = header
  /\ c.first_pusi_seen = TRUE /\ c.frame_end_sent = FALSE
Read(c, header) ==
  IF header = -1 THEN c.pes_error = TRUE ELSE c.pes_error = FALSE /\ c.pes_len = header

LEMMA NewUnitFacts ==
  ASSUME NEW c \in Converters, NEW header \in Nat \cup {-1},
         NEW t, t = Ts!Added(Ts!NewUnit(c, header))
  PROVE  Begun(t, header)
<1> PICK u : u = 1 - c.unit
  OBVIOUS
<1>1. u \in {0, 1} /\ header \in Int
  BY DEF Converters
<1> PICK s : s = [c EXCEPT !.n = 0, !.first_pusi_seen = TRUE, !.frame_end_sent = FALSE,
                           !.unit = u, !.announced = header, !.kept = 0]
  OBVIOUS
<1>2. s = Ts!NewUnit(c, header)
  BY DEF Ts!NewUnit
<1>3. s = [c EXCEPT !.n = 0, !.first_pusi_seen = TRUE, !.frame_end_sent = FALSE,
                    !.unit = u, !.announced = header, !.kept = 0]
  OBVIOUS
<1>4. s \in Converters
  BY ONLY <1>1, <1>3, c \in Converters DEF Converters
<1>5. s.n = 0 /\ s.kept = 0 /\ s.announced = header
      /\ s.first_pusi_seen = TRUE /\ s.frame_end_sent = FALSE
  BY ONLY <1>3, c \in Converters DEF Converters
<1>6. t = Ts!Added(s)
  BY <1>2
<1>7. /\ t \in Converters /\ t.n = s.n + 1 /\ t.kept = s.kept + 1 /\ t.announced = s.announced
      /\ t.first_pusi_seen = s.first_pusi_seen /\ t.frame_end_sent = s.frame_end_sent
  BY <1>4, <1>6, AddedFacts
<1> QED
  BY <1>5, <1>7 DEF Begun

LEMMA ParseFacts ==
  ASSUME NEW c, NEW header \in Nat \cup {-1}, Begun(c, header), NEW t, t = Ts!ParsePes(c, header)
  PROVE  Begun(t, header) /\ Read(t, header)
BY DEF Begun, Read, Converters, Ts!ParsePes, Ts!BadHeader

LEMMA CountedFacts ==
  ASSUME NEW c \in Converters, NEW t, t = Ts!Counted(c)
  PROVE  /\ t \in Converters /\ t.kept = c.kept /\ t.announced = c.announced
         /\ t.first_pusi_seen = c.first_pusi_seen /\ t.unit = c.unit
         /\ IF c.pes_len = 1
            THEN t.n = 0 /\ t.pes_len = 0 /\ t.pes_error = TRUE /\ t.frame_end_sent = TRUE
            ELSE /\ t.n = c.n /\ t.pes_error = c.pes_error /\ t.frame_end_sent = c.frame_end_sent
                 /\ t.pes_len = IF c.pes_len > 0 THEN c.pes_len - 1 ELSE 0
<1> PICK m : m = IF c.pes_len > 0 THEN c.pes_len - 1 ELSE 0
  OBVIOUS
<1>1. m \in Nat
  BY DEF Converters
<1>2. t = IF c.pes_len = 1
          THEN [c EXCEPT !.n = 0, !.pes_len = 0, !.pes_error = TRUE, !.frame_end_sent = TRUE]
          ELSE [c EXCEPT !.pes_len = m]
  BY DEF Ts!Counted, Ts!Completes
<1>3. CASE c.pes_len = 1
  <2>1. t = [c EXCEPT !.n = 0, !.pes_len = 0, !.pes_error = TRUE, !.frame_end_sent = TRUE]
    BY <1>2, <1>3
  <2>2. t \in Converters
    BY ONLY <2>1, c \in Converters DEF Converters
  <2>3. /\ t.kept = c.kept /\ t.announced = c.announced /\ t.first_pusi_seen = c.first_pusi_seen
        /\ t.unit = c.unit /\ t.n = 0 /\ t.pes_len = 0 /\ t.pes_error = TRUE
        /\ t.frame_end_sent = TRUE
    BY ONLY <2>1, c \in Converters DEF Converters
  <2> QED
    BY <1>3, <2>2, <2>3
<1>4. CASE c.pes_len # 1
  <2>1. t = [c EXCEPT !.pes_len = m]
    BY <1>2, <1>4
  <2>2. t \in Converters /\ t.pes_len = m
    BY ONLY <1>1, <2>1, c \in Converters DEF Converters
  <2>3. /\ t.kept = c.kept /\ t.announced = c.announced /\ t.first_pusi_seen = c.first_pusi_seen
        /\ t.unit = c.unit /\ t.n = c.n /\ t.pes_error = c.pes_error
        /\ t.frame_end_sent = c.frame_end_sent
    BY ONLY <2>1, c \in Converters DEF Converters
  <2> QED
    BY <1>4, <2>2, <2>3
<1> QED
  BY <1>3, <1>4

\* The payload of a packet is added, and may complete the unit.
LEMMA AddedKeeps ==
  ASSUME NEW c \in Converters, NEW d \in Decoders, d.units \subseteq {c.unit}, d.whole = TRUE,
         c.kept = d.n + c.n, c.first_pusi_seen = TRUE, c.frame_end_sent = FALSE, c.kept > 0,
         IF c.pes_error = TRUE THEN c.announced = -1 /\ d.n = 0
         ELSE IF c.announced > 0 THEN c.pes_len = c.announced - c.kept + 1 /\ c.pes_len > 0
         ELSE c.pes_len = 0,
         NEW t, t = Ts!Counted(c),
         NEW e, e = IF Ts!Completes(c) THEN Ts!Put(d, c, TRUE, FALSE) ELSE d
  PROVE  Matches(t, e) /\ t \in Converters
<1>1. CASE c.pes_len = 1
  <2>1. e = Ts!Put(d, c, TRUE, FALSE)
    BY <1>1 DEF Ts!Completes
  <2>2. e \in Decoders /\ e.whole = TRUE /\ e.units = {} /\ e.n = 0
    BY <2>1, PutEnds
  <2>3. t \in Converters /\ t.kept = c.kept /\ t.announced = c.announced
        /\ t.n = 0 /\ t.pes_error = TRUE /\ t.frame_end_sent = TRUE
    BY <1>1, CountedFacts
  <2>4. c.announced # 0 /\ c.announced <= c.kept
    BY <1>1 DEF Converters
  <2>5. AllPut(t, e) /\ Idle(t, e)
    BY <2>2, <2>3 DEF AllPut, Idle
  <2>6. Awaits(t)
    BY <2>3, <2>4 DEF Awaits, Ts!Missing, Converters
  <2>7. Collects(t, e)
    BY <2>2, <2>3, <2>5, <2>6 DEF Collects
  <2> QED
    BY <2>2, <2>3, <2>7, AbsentDiffers DEF Matches
<1>2. CASE c.pes_len # 1
  <2>1. e = d
    BY <1>2 DEF Ts!Completes
  <2>2. t \in Converters /\ t.kept = c.kept /\ t.announced = c.announced /\ t.unit = c.unit
        /\ t.first_pusi_seen = TRUE /\ t.n = c.n /\ t.pes_error = c.pes_error
        /\ t.frame_end_sent = FALSE /\ t.pes_len = IF c.pes_len > 0 THEN c.pes_len - 1 ELSE 0
    BY <1>2, CountedFacts
  <2>3. AllPut(t, e) /\ Idle(t, e)
    BY <2>1, <2>2 DEF AllPut, Idle
  <2>4. Awaits(t)
    BY <1>2, <2>2 DEF Awaits, Ts!Missing, Converters
  <2>5. Collects(t, e)
    BY <2>1, <2>2, <2>3, <2>4 DEF Collects
  <2> QED
    BY <2>1, <2>2, <2>5, AbsentDiffers DEF Matches
<1> QED
  BY <1>1, <1>2

LEMMA StartKeeps ==
  ASSUME NEW c \in Converters, NEW d, Matches(c, d), NEW header \in Nat \cup {-1},
         NEW r, r = Ts!PutStart(c, d, header)
  PROVE  Matches(r.es, r.decoder) /\ r.es \in Converters
<1>1. c # Ts!NoTs2Es
  BY AbsentDiffers
<1>2. d \in Decoders /\ d.whole = TRUE /\ Collects(c, d)
  BY <1>1 DEF Matches
<1> PICK d1 : d1 = IF Ts!PusiEnds(c) THEN Ts!Put(d, c, TRUE, FALSE) ELSE d
  OBVIOUS
<1>3. d1 \in Decoders /\ d1.whole = TRUE /\ d1.units = {} /\ d1.n = 0
  <2>1. CASE Ts!PusiEnds(c)
    <3>1. d1 = Ts!Put(d, c, TRUE, FALSE)
      BY <2>1
    <3>2. d.n + c.n \in {0, c.kept}
      BY <1>2 DEF Collects, AllPut, Converters, Decoders
    <3> QED
      BY <1>2, <3>1, <3>2, PutEnds
  <2>2. CASE ~Ts!PusiEnds(c)
    <3>1. c.first_pusi_seen = FALSE \/ c.frame_end_sent = TRUE
      BY <2>2 DEF Ts!PusiEnds, Converters
    <3> QED
      BY <1>2, <2>2, <3>1 DEF Collects, Idle
  <2> QED
    BY <2>1, <2>2
<1> PICK a : a = Ts!Added(Ts!NewUnit(c, header))
  OBVIOUS
<1>4. Begun(a, header)
  BY NewUnitFacts
<1> PICK p : p = Ts!ParsePes(a, header)
  OBVIOUS
<1>5. Begun(p, header) /\ Read(p, header)
  BY <1>4, ParseFacts
<1> PICK t : t = Ts!Counted(p)
  OBVIOUS
<1> PICK e : e = IF Ts!Completes(p) THEN Ts!Put(d1, p, TRUE, FALSE) ELSE d1
  OBVIOUS
<1>6. r.es = t /\ r.decoder = e
  BY DEF Ts!PutStart
<1>7. p.kept = d1.n + p.n
  <2>1. p.kept = 1 /\ p.n = 1 /\ d1.n = 0
    BY <1>3, <1>5 DEF Begun
  <2> QED
    BY ONLY <2>1
<1>8. IF p.pes_error = TRUE THEN p.announced = -1 /\ d1.n = 0
      ELSE IF p.announced > 0 THEN p.pes_len = p.announced - p.kept + 1 /\ p.pes_len > 0
      ELSE p.pes_len = 0
  <2>1. p.kept = 1 /\ p.announced = header /\ d1.n = 0 /\ Read(p, header)
    BY <1>3, <1>5 DEF Begun
  <2>2. CASE header = -1
    BY ONLY <2>1, <2>2 DEF Read
  <2>3. CASE header \in Nat
    <3>1. p.pes_error = FALSE /\ p.pes_len = header
      BY ONLY <2>1, <2>3 DEF Read
    <3>2. header - 1 + 1 = header
      BY ONLY <2>3
    <3> QED
      BY ONLY <2>1, <2>3, <3>1, <3>2
  <2> QED
    BY <2>2, <2>3
<1>9. d1.units \subseteq {p.unit}
  BY <1>3
<1>10. p.kept > 0
  BY <1>5 DEF Begun
<1>11. Matches(t, e) /\ t \in Converters
  BY <1>3, <1>5, <1>7, <1>8, <1>9, <1>10, AddedKeeps DEF Begun
<1> QED
  BY <1>6, <1>11

LEMMA MoreKeeps ==
  ASSUME NEW c \in Converters, NEW d, Matches(c, d), NEW r, r = Ts!PutMore(c, d)
  PROVE  Matches(r.es, r.decoder) /\ r.es \in Converters
<1>1. c # Ts!NoTs2Es
  BY AbsentDiffers
<1>2. d \in Decoders /\ d.whole = TRUE /\ Collects(c, d)
  BY <1>1 DEF Matches
<1>3. CASE c.pes_error = TRUE
  <2> PICK t : t = [c EXCEPT !.n = 0]
    OBVIOUS
  <2> PICK e : e = [d EXCEPT !.whole = @ /\ ~Ts!Missing(c)]
    OBVIOUS
  <2>1. r.es = t /\ r.decoder = e
    BY <1>3 DEF Ts!PutMore
  <2>2. ~Ts!Missing(c)
    BY <1>2, <1>3 DEF Collects, Awaits
  <2>3. e = d
    BY <1>2, <2>2 DEF Decoders
  <2>4. /\ t \in Converters /\ t.n = 0 /\ t.pes_error = TRUE /\ t.kept = c.kept
        /\ t.unit = c.unit /\ t.announced = c.announced /\ t.first_pusi_seen = c.first_pusi_seen
        /\ t.frame_end_sent = c.frame_end_sent
    BY <1>3 DEF Converters
  <2>5. AllPut(t, d)
    BY <1>2, <1>3, <2>4 DEF Collects, AllPut, Converters, Decoders
  <2>6. Idle(t, d)
    BY <1>2, <2>4 DEF Collects, Idle
  <2>7. Awaits(t)
    BY <1>2, <2>2, <2>4 DEF Collects, Awaits, Ts!Missing
  <2>8. Collects(t, d)
    BY <1>2, <2>4, <2>5, <2>6, <2>7 DEF Collects
  <2> QED
    BY <1>2, <2>1, <2>3, <2>4, <2>8, AbsentDiffers DEF Matches
<1>4. CASE c.pes_error = FALSE /\ c.first_pusi_seen = FALSE
  BY <1>4 DEF Ts!PutMore
<1>5. CASE c.pes_error = FALSE /\ c.first_pusi_seen = TRUE
  <2>1. c.kept = d.n + c.n /\ c.frame_end_sent = FALSE
    BY <1>2, <1>5 DEF Collects, AllPut, Awaits, Converters
  <2> PICK d1 : d1 = IF Ts!Full(c) THEN Ts!Put(d, c, FALSE, FALSE) ELSE d
    OBVIOUS
  <2> PICK s : s = Ts!Split(c)
    OBVIOUS
  <2> PICK m : m = Ts!Added(s)
    OBVIOUS
  <2>2. /\ d1 \in Decoders /\ d1.whole = TRUE /\ d1.units \subseteq {c.unit}
        /\ d1.n = d.n + (IF Ts!Full(c) THEN c.n ELSE 0)
    <3>1. CASE Ts!Full(c)
      <4>1. d1 = Ts!Put(d, c, FALSE, FALSE)
        BY <3>1
      <4>2. d1 \in Decoders /\ d1.whole = TRUE /\ d1.units \subseteq {c.unit} /\ d1.n = d.n + c.n
        BY <1>2, <4>1, PutOn DEF Collects
      <4> QED
        BY <3>1, <4>2
    <3>2. CASE ~Ts!Full(c)
      BY <1>2, <3>2 DEF Collects, Decoders
    <3> QED
      BY <3>1, <3>2
  <2>3. s = IF Ts!Full(c) THEN [c EXCEPT !.n = 0] ELSE c
    BY DEF Ts!Split
  <2>4. /\ s \in Converters /\ s.n = (IF Ts!Full(c) THEN 0 ELSE c.n) /\ s.kept = c.kept
        /\ s.unit = c.unit /\ s.announced = c.announced /\ s.pes_len = c.pes_len
        /\ s.first_pusi_seen = TRUE /\ s.frame_end_sent = FALSE /\ s.pes_error = FALSE
    BY <1>5, <2>1, <2>3 DEF Converters
  <2>5. /\ m \in Converters /\ m.n = s.n + 1 /\ m.kept = s.kept + 1
        /\ m.announced = s.announced /\ m.unit = s.unit
        /\ m.pes_error = s.pes_error /\ m.pes_len = s.pes_len
        /\ m.first_pusi_seen = s.first_pusi_seen /\ m.frame_end_sent = s.frame_end_sent
    BY <2>4, AddedFacts
  <2>6. m.kept = d1.n + m.n /\ m.kept > 0
    <3>1. d.n \in Nat /\ c.n \in Nat /\ c.kept \in Nat
      BY <1>2 DEF Converters, Decoders
    <3>2. m.kept = c.kept + 1 /\ m.n = (IF Ts!Full(c) THEN 0 ELSE c.n) + 1
      BY ONLY <2>4, <2>5
    <3>3. d1.n = d.n + (IF Ts!Full(c) THEN c.n ELSE 0)
      BY <2>2
    <3>4. d1.n + m.n = d.n + c.n + 1
      BY ONLY <3>1, <3>2, <3>3
    <3> QED
      BY ONLY <2>1, <3>1, <3>2, <3>4
  <2>7. m.pes_error = FALSE /\ IF m.announced > 0
                               THEN m.pes_len = m.announced - m.kept + 1 /\ m.pes_len > 0
                               ELSE m.pes_len = 0
    BY <1>2, <1>5, <2>4, <2>5 DEF Collects, Awaits, Converters
  <2> PICK t : t = Ts!Counted(m)
    OBVIOUS
  <2> PICK e : e = IF Ts!Completes(m) THEN Ts!Put(d1, m, TRUE, FALSE) ELSE d1
    OBVIOUS
  <2>8. r.es = t /\ r.decoder = e
    BY <1>5 DEF Ts!PutMore
  <2>9. d1.units \subseteq {m.unit} /\ m.first_pusi_seen = TRUE /\ m.frame_end_sent = FALSE
    BY <2>2, <2>4, <2>5
  <2>10. Matches(t, e) /\ t \in Converters
    BY <2>2, <2>5, <2>6, <2>7, <2>9, AddedKeeps
  <2> QED
    BY <2>8, <2>10
<1> QED
  BY <1>3, <1>4, <1>5 DEF Converters

LEMMA FlushKeeps ==
  ASSUME NEW c, NEW d, Matches(c, d)
  PROVE  Matches(Ts!FlushEs(c), Ts!FlushPut(c, d))
         /\ (c \in Converters => Ts!FlushEs(c) \in Converters)
<1>1. CASE c # Ts!NoTs2Es /\ c.n > 0
  <2>1. d \in Decoders /\ d.whole = TRUE /\ Collects(c, d) /\ c \in Converters
    BY <1>1 DEF Matches, Collects
  <2> PICK t : t = [c EXCEPT !.n = 0]
    OBVIOUS
  <2> PICK e : e = Ts!Put(d, c, TRUE, TRUE)
    OBVIOUS
  <2>2. Ts!FlushEs(c) = t /\ Ts!FlushPut(c, d) = e
    BY <1>1 DEF Ts!FlushEs, Ts!FlushPut
  <2>3. e \in Decoders /\ e.whole = TRUE /\ e.units = {} /\ e.n = d.n + c.n
    BY <2>1, PutFlushed
  <2>4. /\ t \in Converters /\ t.n = 0 /\ t.pes_error = c.pes_error /\ t.kept = c.kept
        /\ t.announced = c.announced /\ t.first_pusi_seen = c.first_pusi_seen
        /\ t.frame_end_sent = c.frame_end_sent /\ t.pes_len = c.pes_len
    BY <2>1 DEF Converters
  <2>5. c.n # 0 /\ c.n \in Nat /\ d.n \in Nat
    BY <1>1, <2>1 DEF Converters, Decoders
  <2>6. c.kept = d.n + c.n /\ c.first_pusi_seen = TRUE /\ c.frame_end_sent = FALSE
    BY <2>1, <2>5 DEF Collects, AllPut, Idle, Converters
  <2>7. AllPut(t, e) /\ Idle(t, e)
    <3>1. t.kept = e.n + t.n
      BY ONLY <2>3, <2>4, <2>5, <2>6
    <3> QED
      BY <2>4, <2>6, <3>1 DEF AllPut, Idle
  <2>8. Awaits(t)
    BY <2>1, <2>4 DEF Collects, Awaits, Ts!Missing
  <2>9. Collects(t, e)
    BY <2>3, <2>4, <2>7, <2>8 DEF Collects
  <2> QED
    BY <2>2, <2>3, <2>4, <2>9, AbsentDiffers DEF Matches
<1>2. CASE ~(c # Ts!NoTs2Es /\ c.n > 0)
  BY <1>2 DEF Ts!FlushEs, Ts!FlushPut
<1> QED
  BY <1>1, <1>2

\* A new converter, or none, with a history that starts anew.
LEMMA AnewMatches ==
  ASSUME NEW d \in Decoders, d.whole = TRUE,
         NEW c2 \in {Ts!Ts2Es, Ts!NoTs2Es}, NEW e, e = [d EXCEPT !.units = {}, !.n = 0]
  PROVE  Matches(c2, e) /\ (c2 = Ts!Ts2Es => c2 \in Converters)
<1>1. e \in Decoders /\ e.whole = TRUE /\ e.units = {} /\ e.n = 0
  BY DEF Decoders
<1>2. CASE c2 = Ts!NoTs2Es
  <2>1. c2 # Ts!Ts2Es
    BY ONLY <1>2 DEF Ts!NoTs2Es, Ts!Ts2Es
  <2> QED
    BY <1>1, <1>2, <2>1 DEF Matches
<1>3. CASE c2 = Ts!Ts2Es
  <2>1. c2 \in Converters /\ c2.n = 0 /\ c2.kept = 0 /\ c2.first_pusi_seen = FALSE
        /\ c2.frame_end_sent = FALSE /\ c2.pes_error = FALSE /\ c2.announced = -1 /\ c2.pes_len = 0
    BY ONLY <1>3 DEF Ts!Ts2Es, Ts!BadHeader, Converters
  <2>2. AllPut(c2, e) /\ Idle(c2, e) /\ Awaits(c2)
    BY <1>1, <2>1 DEF AllPut, Idle, Awaits
  <2>3. Collects(c2, e)
    BY <1>1, <2>1, <2>2 DEF Collects
  <2> QED
    BY <1>1, <2>1, <2>3, AbsentDiffers DEF Matches
<1> QED
  BY <1>2, <1>3

LEMMA TsPrimed ==
  ASSUME NEW es \in [Ts!Pids -> Present], NEW n \in Int, NEW k \in Int,
         NEW dd \in [Ts!Pids -> Decoders], \A pid \in Ts!Pids : Matches(es[pid], dd[pid]),
         demux' = [es |-> es, tracks |-> n, audio_type |-> k], decoder' = dd
  PROVE  TsInv'
<1>1. demux' \in [es : [Ts!Pids -> Present], tracks : Int, audio_type : Int] /\ demux'.es = es
  OBVIOUS
<1> QED
  BY <1>1 DEF TsInv

LEMMA PidsAreInts == Ts!Pids \subseteq Int /\ Ts!Video \in Ts!Pids
BY DEF Ts!Pids, Ts!Video, Ts!Tracks

\* The decoders' histories start anew, with whichever converters are new.
LEMMA AllAnew ==
  ASSUME TsInv
  PROVE  /\ Ts!Anew \in [Ts!Pids -> Decoders]
         /\ \A pid \in Ts!Pids : \A c \in {Ts!Ts2Es, Ts!NoTs2Es} :
              Matches(c, Ts!Anew[pid]) /\ c \in Present
<1> SUFFICES ASSUME NEW pid \in Ts!Pids
             PROVE  /\ Ts!Anew[pid] \in Decoders
                    /\ \A c \in {Ts!Ts2Es, Ts!NoTs2Es} : Matches(c, Ts!Anew[pid]) /\ c \in Present
  BY DEF Ts!Anew
<1> PICK d : d = decoder[pid]
  OBVIOUS
<1>1. d \in Decoders /\ d.whole = TRUE
  BY DEF TsInv, Matches
<1> PICK e : e = [d EXCEPT !.units = {}, !.n = 0]
  OBVIOUS
<1>2. Ts!Anew[pid] = e
  BY DEF Ts!Anew
<1>3. e \in Decoders
  BY <1>1 DEF Decoders
<1>4. \A c \in {Ts!Ts2Es, Ts!NoTs2Es} : Matches(c, e) /\ (c = Ts!Ts2Es => c \in Converters)
  BY <1>1, AnewMatches
<1> QED
  BY <1>2, <1>3, <1>4 DEF Present

LEMMA TrackedKeeps ==
  ASSUME TsInv, NEW pid \in Ts!Pids, NEW r, r.es \in Converters, Matches(r.es, r.decoder),
         Ts!Tracked(pid, r)
  PROVE  TsInv'
<1> PICK es : es = [demux.es EXCEPT ![pid] = r.es]
  OBVIOUS
<1> DEFINE changes == pid # Ts!Video /\ r.puts /\ demux.audio_type # pid
           es2 == IF changes THEN Ts!ResetAudio(es, demux.tracks, pid) ELSE es
           k2 == IF changes THEN pid ELSE demux.audio_type
           dd == [p \in Ts!Pids |-> IF p = pid THEN r.decoder
                                    ELSE IF changes /\ p # Ts!Video THEN Ts!Anew[p] ELSE decoder[p]]
<1>1. demux' = [demux EXCEPT !.es = es2, !.audio_type = k2] /\ decoder' = dd
  BY DEF Ts!Tracked
<1>2. es \in [Ts!Pids -> Present] /\ es[pid] = r.es
      /\ \A p \in Ts!Pids : p # pid => es[p] = demux.es[p]
  BY DEF TsInv, Present
<1>3. ASSUME NEW p \in Ts!Pids
      PROVE  es2[p] \in Present /\ dd[p] \in Decoders /\ Matches(es2[p], dd[p])
  <2>1. CASE p = pid
    <3>1. es2[p] = r.es /\ dd[p] = r.decoder
      BY <1>2, <2>1 DEF Ts!ResetAudio
    <3>2. r.decoder \in Decoders
      BY DEF Matches
    <3> QED
      BY <3>1, <3>2 DEF Present
  <2>2. CASE p # pid /\ changes /\ p # Ts!Video
    <3>1. es2[p] \in {Ts!Ts2Es, Ts!NoTs2Es}
      BY <2>2 DEF Ts!ResetAudio
    <3>2. dd[p] = Ts!Anew[p]
      BY <2>2
    <3> QED
      BY <3>1, <3>2, AllAnew
  <2>3. CASE p # pid /\ ~(changes /\ p # Ts!Video)
    <3>1. es2[p] = demux.es[p] /\ dd[p] = decoder[p]
      BY <1>2, <2>3 DEF Ts!ResetAudio
    <3> QED
      BY <3>1 DEF TsInv
  <2> QED
    BY <2>1, <2>2, <2>3
<1>4. es2 \in [Ts!Pids -> Present] /\ dd \in [Ts!Pids -> Decoders]
  BY <1>2, <1>3 DEF Ts!ResetAudio
<1>5. k2 \in Int /\ demux.tracks \in Int
  BY PidsAreInts DEF TsInv
<1> HIDE DEF es2, k2, dd, changes
<1>6. demux' = [es |-> es2, tracks |-> demux.tracks, audio_type |-> k2]
  BY <1>1 DEF TsInv
<1> QED
  BY <1>1, <1>3, <1>4, <1>5, <1>6, TsPrimed

LEMMA UnitStartsKeeps == ASSUME TsInv, Ts!UnitStarts PROVE TsInv'
<1> PICK pid \in Ts!Pids, header \in 0 .. MaxUnit \cup {Ts!BadHeader} :
      Ts!Present(pid) /\ Ts!Tracked(pid, Ts!PutStart(demux.es[pid], decoder[pid], header))
  BY DEF Ts!UnitStarts
<1> PICK c : c = demux.es[pid]
  OBVIOUS
<1> PICK d : d = decoder[pid]
  OBVIOUS
<1>1. Matches(c, d) /\ c \in Converters
  BY DEF TsInv, Present, Ts!Present
<1>2. header \in Nat \cup {-1}
  BY DEF Ts!BadHeader
<1> PICK r : r = Ts!PutStart(c, d, header)
  OBVIOUS
<1>3. Matches(r.es, r.decoder) /\ r.es \in Converters
  BY <1>1, <1>2, StartKeeps
<1>4. Ts!Tracked(pid, r)
  OBVIOUS
<1> QED
  BY <1>3, <1>4, TrackedKeeps

LEMMA UnitGoesOnKeeps == ASSUME TsInv, Ts!UnitGoesOn PROVE TsInv'
<1> PICK pid \in Ts!Pids :
      Ts!Present(pid) /\ Ts!Tracked(pid, Ts!PutMore(demux.es[pid], decoder[pid]))
  BY DEF Ts!UnitGoesOn
<1> PICK c : c = demux.es[pid]
  OBVIOUS
<1> PICK d : d = decoder[pid]
  OBVIOUS
<1>1. Matches(c, d) /\ c \in Converters
  BY DEF TsInv, Present, Ts!Present
<1> PICK r : r = Ts!PutMore(c, d)
  OBVIOUS
<1>2. Matches(r.es, r.decoder) /\ r.es \in Converters
  BY <1>1, MoreKeeps
<1>3. Ts!Tracked(pid, r)
  OBVIOUS
<1> QED
  BY <1>2, <1>3, TrackedKeeps

LEMMA PmtKeeps == ASSUME TsInv, Ts!PmtChanges PROVE TsInv'
<1> PICK n \in 0 .. AudioTracks :
      demux' = [demux EXCEPT !.es = Ts!Initialised(n), !.tracks = n] /\ decoder' = Ts!Anew
  BY DEF Ts!PmtChanges
<1>1. \A pid \in Ts!Pids : Ts!Initialised(n)[pid] \in {Ts!Ts2Es, Ts!NoTs2Es}
  BY DEF Ts!Initialised
<1>2. Ts!Initialised(n) \in [Ts!Pids -> Present]
  BY <1>1, AllAnew DEF Ts!Initialised
<1>3. \A pid \in Ts!Pids : Matches(Ts!Initialised(n)[pid], Ts!Anew[pid])
  BY <1>1, AllAnew
<1>4. demux' = [es |-> Ts!Initialised(n), tracks |-> n, audio_type |-> demux.audio_type]
      /\ demux.audio_type \in Int
  BY DEF TsInv
<1>5. n \in Int /\ Ts!Anew \in [Ts!Pids -> Decoders] /\ decoder' = Ts!Anew
  BY AllAnew
<1> QED
  BY ONLY <1>2, <1>3, <1>4, <1>5, TsPrimed

LEMMA AllFlushed ==
  ASSUME TsInv
  PROVE  /\ Ts!FlushedEs \in [Ts!Pids -> Present] /\ Ts!FlushedDecoder \in [Ts!Pids -> Decoders]
         /\ \A pid \in Ts!Pids : Matches(Ts!FlushedEs[pid], Ts!FlushedDecoder[pid])
<1> SUFFICES ASSUME NEW pid \in Ts!Pids
             PROVE  /\ Ts!FlushedEs[pid] \in Present /\ Ts!FlushedDecoder[pid] \in Decoders
                    /\ Matches(Ts!FlushedEs[pid], Ts!FlushedDecoder[pid])
  BY DEF Ts!FlushedEs, Ts!FlushedDecoder
<1> PICK c : c = demux.es[pid]
  OBVIOUS
<1> PICK d : d = decoder[pid]
  OBVIOUS
<1>1. Matches(c, d) /\ c \in Present
  BY DEF TsInv
<1>2. Ts!FlushedEs[pid] = Ts!FlushEs(c) /\ Ts!FlushedDecoder[pid] = Ts!FlushPut(c, d)
  BY DEF Ts!FlushedEs, Ts!FlushedDecoder
<1>3. Matches(Ts!FlushEs(c), Ts!FlushPut(c, d))
      /\ (c \in Converters => Ts!FlushEs(c) \in Converters)
  BY <1>1, FlushKeeps
<1>4. Ts!FlushEs(c) \in Present
  BY <1>1, <1>3 DEF Present, Ts!FlushEs
<1> QED
  BY <1>2, <1>3, <1>4 DEF Matches

LEMMA FlushStepKeeps == ASSUME TsInv, Ts!DemuxFlush PROVE TsInv'
<1>1. demux' = [es |-> Ts!FlushedEs, tracks |-> demux.tracks, audio_type |-> demux.audio_type]
      /\ demux.audio_type \in Int /\ demux.tracks \in Int /\ decoder' = Ts!FlushedDecoder
  BY DEF Ts!DemuxFlush, TsInv
<1> QED
  BY <1>1, AllFlushed, TsPrimed

\* Without converters the histories are empty.
LEMMA NoDataMatches ==
  ASSUME NEW dd \in [Ts!Pids -> Decoders], \A pid \in Ts!Pids : dd[pid].whole = TRUE,
         NEW ee, ee = [pid \in Ts!Pids |-> [dd[pid] EXCEPT !.units = {}, !.n = 0]]
  PROVE  /\ Ts!NoData \in [Ts!Pids -> Present] /\ ee \in [Ts!Pids -> Decoders]
         /\ \A pid \in Ts!Pids : Matches(Ts!NoData[pid], ee[pid])
<1> SUFFICES ASSUME NEW pid \in Ts!Pids
             PROVE  /\ Ts!NoData[pid] \in Present /\ ee[pid] \in Decoders
                    /\ Matches(Ts!NoData[pid], ee[pid])
  BY DEF Ts!NoData
<1> PICK d : d = dd[pid]
  OBVIOUS
<1> PICK e : e = [d EXCEPT !.units = {}, !.n = 0]
  OBVIOUS
<1>1. d \in Decoders /\ d.whole = TRUE /\ ee[pid] = e /\ Ts!NoData[pid] = Ts!NoTs2Es
  BY DEF Ts!NoData
<1>2. Matches(Ts!NoTs2Es, e)
  BY <1>1, AnewMatches
<1> QED
  BY <1>1, <1>2 DEF Matches, Present

LEMMA PesKeeps == ASSUME TsInv, Ts!PesPacket PROVE TsInv'
<1>1. demux' = [es |-> Ts!NoData, tracks |-> 0, audio_type |-> demux.audio_type]
      /\ demux.audio_type \in Int
  BY DEF Ts!PesPacket, TsInv
<1>2. \A pid \in Ts!Pids : Ts!FlushedDecoder[pid].whole = TRUE
  BY AllFlushed DEF Matches
<1> PICK ee : ee = [pid \in Ts!Pids |-> [Ts!FlushedDecoder[pid] EXCEPT !.units = {}, !.n = 0]]
  OBVIOUS
<1>3. decoder' = ee
  BY DEF Ts!PesPacket
<1>4. /\ Ts!NoData \in [Ts!Pids -> Present] /\ ee \in [Ts!Pids -> Decoders]
      /\ \A pid \in Ts!Pids : Matches(Ts!NoData[pid], ee[pid])
  BY <1>2, AllFlushed, NoDataMatches
<1> QED
  BY ONLY <1>1, <1>3, <1>4, TsPrimed

LEMMA SeekKeeps == ASSUME TsInv, Ts!DemuxSeek PROVE TsInv'
<1>1. demux' = [es |-> Ts!NoData, tracks |-> 0, audio_type |-> -1] /\ decoder' = Ts!Anew
  BY DEF Ts!DemuxSeek, Ts!NoTrack
<1>2. Ts!NoData \in [Ts!Pids -> Present]
      /\ \A pid \in Ts!Pids : Matches(Ts!NoData[pid], Ts!Anew[pid])
  BY AllAnew DEF Ts!NoData, Present
<1> QED
  BY <1>1, <1>2, AllAnew, TsPrimed

LEMMA TsInvInit == Ts!TsInit => TsInv
<1> SUFFICES ASSUME Ts!TsInit PROVE TsInv
  OBVIOUS
<1>1. demux = [es |-> Ts!NoData, tracks |-> 0, audio_type |-> -1]
      /\ decoder = [pid \in Ts!Pids |-> Ts!NothingSeen]
  BY DEF Ts!TsInit, Ts!NoTrack
<1>2. Ts!NothingSeen \in Decoders /\ Matches(Ts!NoTs2Es, Ts!NothingSeen)
  BY DEF Ts!NothingSeen, Decoders, Matches
<1>3. Ts!NoData \in [Ts!Pids -> Present] /\ \A pid \in Ts!Pids : Ts!NoData[pid] = Ts!NoTs2Es
  BY DEF Ts!NoData, Present
<1> QED
  BY <1>1, <1>2, <1>3 DEF TsInv

LEMMA TsInvNext == ASSUME TsInv, [Next]_vars PROVE TsInv'
<1>1. CASE Ts!TsNext
  BY <1>1, UnitStartsKeeps, UnitGoesOnKeeps, PmtKeeps, FlushStepKeeps, PesKeeps, SeekKeeps DEF Ts!TsNext
<1>2. CASE UNCHANGED tsVars
  BY <1>2 DEF TsInv, tsVars
<1> QED
  BY <1>1, <1>2 DEF Next, Step, OthersStay, Stopped, vars

LEMMA TsInvWhole == TsInv => Ts!FramesWhole
<1> SUFFICES ASSUME TsInv, NEW pid \in Ts!Pids
             PROVE  decoder[pid].whole /\ decoder[pid].units \in {{}, {0}, {1}}
  BY DEF Ts!FramesWhole
<1> PICK d : d = decoder[pid]
  OBVIOUS
<1> PICK c : c = demux.es[pid]
  OBVIOUS
<1>1. Matches(c, d)
  BY DEF TsInv
<1>2. d.units = {} \/ (c.unit \in {0, 1} /\ d.units \subseteq {c.unit})
  BY <1>1 DEF Matches, Collects, Converters
<1>3. d.units \in {{}, {0}, {1}}
  BY <1>2
<1> QED
  BY <1>1, <1>3 DEF Matches

-----------------------------------------------------------------------------
(* Timestamp bases.  The places of a stream are numbered from 1; Epoch()   *)
(* counts the wraps in front of one.                                       *)

Places == Nat \ {0}

LEMMA Divided ==
  ASSUME NEW x \in Nat, NEW m \in Nat \ {0}
  PROVE  x = m * (x \div m) + (x % m) /\ x % m \in 0 .. m - 1 /\ x \div m \in Nat
BY SMT

LEMMA EpochSplit ==
  \A p \in Places : \E r \in 0 .. PtsMax - 1 :
    Epoch(p) \in Nat /\ p - 1 = PtsMax * Epoch(p) + r /\ Timestamp(p) = r + 1
<1> TAKE p \in Places
<1> PICK x \in Nat : x = p - 1
  BY DEF Places
<1> PICK e : e = x \div PtsMax
  OBVIOUS
<1> PICK r : r = x % PtsMax
  OBVIOUS
<1>1. PtsMax \in Nat \ {0}
  BY ClockAssumption
<1>2. x = PtsMax * e + r /\ r \in 0 .. PtsMax - 1 /\ e \in Nat
  BY <1>1, Divided
<1>3. Epoch(p) = e /\ Timestamp(p) = r + 1
  BY DEF Epoch, Timestamp
<1> QED
  BY <1>2, <1>3

\* The timestamps of two places differ as the places do, but for the wraps.
LEMMA EpochFacts ==
  ASSUME NEW p \in Places, NEW q \in Places, p <= q
  PROVE  /\ Epoch(p) \in Nat /\ Epoch(q) \in Nat /\ Epoch(p) <= Epoch(q)
         /\ Timestamp(p) \in 1 .. PtsMax /\ Timestamp(q) \in 1 .. PtsMax
         /\ Epoch(p) = Epoch(q) => Timestamp(q) - Timestamp(p) = q - p
         /\ q - p <= PtsMax /\ Epoch(p) # Epoch(q) =>
              Epoch(q) = Epoch(p) + 1 /\ Timestamp(q) - Timestamp(p) = q - p - PtsMax
<1> PICK r \in 0 .. PtsMax - 1 :
      Epoch(p) \in Nat /\ p - 1 = PtsMax * Epoch(p) + r /\ Timestamp(p) = r + 1
  BY EpochSplit
<1> PICK s \in 0 .. PtsMax - 1 :
      Epoch(q) \in Nat /\ q - 1 = PtsMax * Epoch(q) + s /\ Timestamp(q) = s + 1
  BY EpochSplit
<1> PICK m \in Nat : m = Epoch(p)
  OBVIOUS
<1> PICK n \in Nat : n = Epoch(q)
  OBVIOUS
<1>1. PtsMax \in Nat /\ PtsMax > 0 /\ p \in Int /\ q \in Int
  BY ClockAssumption DEF Places
<1>2. p - 1 = PtsMax * m + r /\ q - 1 = PtsMax * n + s
  OBVIOUS
<1>3. m <= n
  <2> SUFFICES ASSUME n + 1 <= m PROVE FALSE
    OBVIOUS
  <2>1. PtsMax * (n + 1) <= PtsMax * m
    BY <1>1
  <2>2. PtsMax * (n + 1) = PtsMax * n + PtsMax
    BY <1>1
  <2> QED
    BY <1>1, <1>2, <2>1, <2>2
<1>4. m = n => s - r = q - p
  BY <1>1, <1>2
<1>5. ASSUME q - p <= PtsMax, m # n PROVE n = m + 1 /\ s - r = q - p - PtsMax
  <2>1. n < m + 2
    <3> SUFFICES ASSUME m + 2 <= n PROVE FALSE
      OBVIOUS
    <3>1. PtsMax * (m + 2) <= PtsMax * n
      BY <1>1
    <3>2. PtsMax * (m + 2) = PtsMax * m + 2 * PtsMax
      BY <1>1
    <3> QED
      BY <1>1, <1>2, <1>5, <3>1, <3>2
  <2>2. n = m + 1
    BY <1>3, <1>5, <2>1
  <2>3. PtsMax * n = PtsMax * m + PtsMax
    BY <1>1, <2>2
  <2> QED
    BY <1>1, <1>2, <2>2, <2>3
<1> QED
  BY <1>1, <1>3, <1>4, <1>5

-----------------------------------------------------------------------------
\* What the assumptions say of the code's thresholds.
LEMMA Thresholds ==
  /\ PtsMax \in Nat /\ WrapThreshold \in Nat /\ GopWindow \in Nat /\ AudioHigh \in Nat
  /\ VideoLow \in Nat /\ MaxLead \in Nat /\ MaxBack \in Nat /\ MaxPos \in Nat
  /\ PtsMax > 0 /\ MaxLead > 0
  /\ MaxLead < WrapThreshold /\ MaxBack < WrapThreshold
  /\ MaxBack < GopWindow /\ 2 * GopWindow + MaxBack < PtsMax
  /\ MaxLead <= VideoLow /\ VideoLow + MaxBack <= AudioHigh /\ AudioHigh + MaxLead <= PtsMax
BY ClockAssumption

\* The video goes back over a wrap.
Back(t, u) == u < GopWindow /\ t > PtsMax - GopWindow
\* The audio is still in front of one.
Late(t, u) == t > AudioHigh /\ u < VideoLow

\* A picture near the last one shown is from before the wrap if it looks so.
LEMMA BackIsEarlier ==
  ASSUME NEW p \in Places, NEW w \in Places, p - w <= MaxBack + 1, w - p <= MaxBack
  PROVE  Back(Timestamp(p), Timestamp(w)) <=> Epoch(p) < Epoch(w)
<1>1. p \in Int /\ w \in Int
  BY DEF Places
<1> PICK t : t = Timestamp(p)
  OBVIOUS
<1> PICK u : u = Timestamp(w)
  OBVIOUS
<1>2. CASE p <= w
  <2>1. /\ Epoch(p) \in Nat /\ Epoch(w) \in Nat /\ Epoch(p) <= Epoch(w)
        /\ t \in 1 .. PtsMax /\ u \in 1 .. PtsMax
        /\ Epoch(p) = Epoch(w) => u - t = w - p
        /\ Epoch(p) # Epoch(w) => u - t = w - p - PtsMax
    <3>1. w - p <= PtsMax
      BY <1>1, Thresholds
    <3> QED
      BY <1>2, <3>1, EpochFacts
  <2> QED
    BY <1>1, <1>2, <2>1, Thresholds DEF Back
<1>3. CASE w < p
  <2>1. /\ Epoch(p) \in Nat /\ Epoch(w) \in Nat /\ Epoch(w) <= Epoch(p)
        /\ t \in 1 .. PtsMax /\ u \in 1 .. PtsMax
        /\ Epoch(p) = Epoch(w) => t - u = p - w
        /\ Epoch(p) # Epoch(w) => t - u = p - w - PtsMax
    <3>1. p - w <= PtsMax /\ w <= p
      BY <1>1, <1>3, Thresholds
    <3> QED
      BY <3>1, EpochFacts
  <2> QED
    BY <1>1, <1>3, <2>1, Thresholds DEF Back
<1> QED
  BY <1>1, <1>2, <1>3

\* Audio that is not ahead of the video is from before the wrap if it looks so.
LEMMA LateIsEarlier ==
  ASSUME NEW p \in Places, NEW w \in Places, p - w <= MaxBack, w - p < MaxLead, Epoch(p) <= Epoch(w)
  PROVE  Late(Timestamp(p), Timestamp(w)) <=> Epoch(p) < Epoch(w)
<1>1. p \in Int /\ w \in Int
  BY DEF Places
<1> PICK t : t = Timestamp(p)
  OBVIOUS
<1> PICK u : u = Timestamp(w)
  OBVIOUS
<1>2. CASE p <= w
  <2>1. /\ Epoch(p) \in Nat /\ Epoch(w) \in Nat /\ Epoch(p) <= Epoch(w)
        /\ t \in 1 .. PtsMax /\ u \in 1 .. PtsMax
        /\ Epoch(p) = Epoch(w) => u - t = w - p
        /\ Epoch(p) # Epoch(w) => u - t = w - p - PtsMax
    <3>1. w - p <= PtsMax
      BY <1>1, Thresholds
    <3> QED
      BY <1>2, <3>1, EpochFacts
  <2> QED
    BY <1>1, <1>2, <2>1, Thresholds DEF Late
<1>3. CASE w < p
  <2>1. /\ Epoch(p) \in Nat /\ Epoch(w) \in Nat /\ Epoch(w) <= Epoch(p)
        /\ t \in 1 .. PtsMax /\ u \in 1 .. PtsMax
        /\ Epoch(p) = Epoch(w) => t - u = p - w
    <3>1. w <= p
      BY <1>1, <1>3
    <3> QED
      BY <3>1, EpochFacts
  <2> QED
    BY <1>1, <1>3, <2>1, Thresholds DEF Late
<1> QED
  BY <1>1, <1>2, <1>3

\* Neighbours without a wrap between them are not taken for a jump.
LEMMA NearIsNoJump ==
  ASSUME NEW p \in Places, NEW q \in Places, Epoch(p) = Epoch(q),
         p - q <= WrapThreshold, q - p <= WrapThreshold
  PROVE  ~(AbsDiff(Timestamp(p), Timestamp(q)) > WrapThreshold)
<1>1. p \in Int /\ q \in Int
  BY DEF Places
<1> PICK t : t = Timestamp(p)
  OBVIOUS
<1> PICK u : u = Timestamp(q)
  OBVIOUS
<1>2. t \in Int /\ u \in Int /\ t - u = p - q
  <2>1. CASE p <= q
    BY <1>1, <2>1, EpochFacts
  <2>2. CASE q <= p
    BY <1>1, <2>2, EpochFacts
  <2> QED
    BY <1>1, <2>1, <2>2
<1> QED
  BY <1>1, <1>2, Thresholds DEF AbsDiff

-----------------------------------------------------------------------------
Clocks == [last_pts : [{0, 1} -> Nat], last_vpts : Int, send_newpts : BOOLEAN,
           buf_flag_seek : BOOLEAN, still_mode : BOOLEAN, trick_speed : BOOLEAN]
AvStreams == [v : Nat, a : Nat, start : Nat, base : Nat, last : Nat, newpts : Nat,
              seekflags : Nat, hidden : BOOLEAN]

Passes(c) == c.still_mode = FALSE /\ c.trick_speed = FALSE
Reached(a) == Larger(a.start + 1, Larger(a.v, a.a))

\* The place whose timestamp was passed on last is behind the last wrap.
ShownAt(c, a, q) ==
  /\ q \in Places /\ q > a.start /\ q <= Reached(a) /\ Epoch(q) = Epoch(Reached(a))
  /\ q = a.a \/ q >= a.v - MaxBack
  /\ c.last_pts[0] = Timestamp(q) /\ c.last_pts[1] = Timestamp(q)

\* So is that of the last picture.
SeenAt(c, a, w) ==
  /\ w \in Places /\ w > a.start /\ w <= a.v /\ w >= a.v - MaxBack
  /\ Epoch(w) = Epoch(a.v) /\ c.last_vpts = Timestamp(w)

Follows(c, a) ==
  /\ \E q : ShownAt(c, a, q)
  /\ IF a.v = a.start THEN c.last_vpts <= 0 /\ a.a = a.start + 1 ELSE \E w : SeenAt(c, a, w)

\* The video is ahead of the audio, but for the first frame.
Paced(a) == /\ a \in AvStreams /\ a.hidden = FALSE
            /\ a.start <= a.a /\ a.start <= a.v /\ a.v <= a.a + MaxLead
            /\ a.a <= a.v \/ (a.v = a.start /\ a.a = a.start + 1)

Unannounced(c, a) ==
  /\ c.send_newpts = TRUE /\ a.newpts = 0 /\ a.seekflags = 0 /\ a.base = 0 /\ a.last = 0
  /\ Passes(c) => a.a = a.start /\ a.v = a.start /\ c.last_vpts <= 0

Announced(c, a) ==
  /\ c.send_newpts = FALSE /\ c.buf_flag_seek = FALSE /\ a.base # 0 /\ a.seekflags <= 1
  /\ a.newpts <= 1 + Wraps(a)
  /\ Passes(c) => Follows(c, a)

ClkSound(c, a) == c \in Clocks /\ Paced(a) /\ (Unannounced(c, a) \/ Announced(c, a))
ClockInv == ClkSound(clk, av)

LEMMA ReachedFacts ==
  ASSUME NEW a, Paced(a)
  PROVE  /\ Reached(a) \in Places /\ a.start + 1 \in Places /\ a.start + 1 <= Reached(a)
         /\ a.v > a.start => Reached(a) = a.v
         /\ a.v = a.start => Reached(a) = a.start + 1
         /\ Wraps(a) \in Nat /\ Wraps(a) = Epoch(Reached(a)) - Epoch(a.start + 1)
<1>1. a.start \in Nat /\ a.v \in Nat /\ a.a \in Nat
  BY DEF Paced, AvStreams
<1>2. /\ Reached(a) \in Places /\ a.start + 1 \in Places /\ a.start + 1 <= Reached(a)
      /\ a.v > a.start => Reached(a) = a.v
      /\ a.v = a.start => Reached(a) = a.start + 1
  BY <1>1 DEF Paced, Reached, Larger, Places
<1>3. Wraps(a) = Epoch(Reached(a)) - Epoch(a.start + 1)
  BY DEF Wraps, Reached
<1>4. Epoch(a.start + 1) \in Nat /\ Epoch(Reached(a)) \in Nat /\ Epoch(a.start + 1) <= Epoch(Reached(a))
  BY <1>2, EpochFacts
<1> QED
  BY <1>2, <1>3, <1>4

\* A timestamp is passed on, with an announcement or without one.
Shown(t, b, c, a, pts, kind, announces) ==
  /\ t \in Clocks /\ b \in AvStreams
  /\ t.last_pts[0] = pts /\ t.last_pts[1] = pts
  /\ t.last_vpts = IF kind = 1 THEN pts ELSE c.last_vpts
  /\ t.still_mode = c.still_mode /\ t.trick_speed = c.trick_speed
  /\ b.v = a.v /\ b.a = a.a /\ b.start = a.start /\ b.hidden = a.hidden /\ b.last = pts
  /\ IF announces = TRUE
     THEN /\ t.send_newpts = FALSE /\ t.buf_flag_seek = FALSE /\ b.base = pts
          /\ b.newpts = a.newpts + 1
          /\ b.seekflags = IF c.buf_flag_seek = TRUE THEN a.seekflags + 1 ELSE a.seekflags
     ELSE /\ t.send_newpts = c.send_newpts /\ t.buf_flag_seek = c.buf_flag_seek
          /\ b.base = a.base /\ b.newpts = a.newpts /\ b.seekflags = a.seekflags

LEMMA ShownFacts ==
  ASSUME NEW c \in Clocks, NEW a \in AvStreams, NEW pts \in Nat, pts # 0, NEW kind \in {0, 1},
         PtsWrapWorkaround(c, pts, kind) = pts, CheckNewPts(c, a, pts, kind),
         NEW announces \in BOOLEAN, announces = Announces(c, pts, kind)
  PROVE  Shown(clk', av', c, a, pts, kind, announces)
<1> PICK seen : seen = IF kind = 1 THEN [c EXCEPT !.last_vpts = pts] ELSE c
  OBVIOUS
<1> PICK u \in Int : u = IF kind = 1 THEN pts ELSE c.last_vpts
  BY DEF Clocks
<1>1. seen \in Clocks /\ seen.last_vpts = u /\ seen.send_newpts = c.send_newpts
      /\ seen.buf_flag_seek = c.buf_flag_seek /\ seen.still_mode = c.still_mode
      /\ seen.trick_speed = c.trick_speed
  BY DEF Clocks
<1> PICK l \in [{0, 1} -> Nat] : l = [x \in {0, 1} |-> pts]
  OBVIOUS
<1>2. /\ clk' = [seen EXCEPT !.last_pts = l, !.send_newpts = @ /\ ~announces,
                              !.buf_flag_seek = @ /\ ~announces]
      /\ av' = [a EXCEPT !.newpts = IF announces THEN @ + 1 ELSE @,
                         !.seekflags = IF announces /\ c.buf_flag_seek THEN @ + 1 ELSE @,
                         !.base = IF announces THEN pts ELSE @,
                         !.last = pts]
  BY DEF CheckNewPts, PTS_AUDIO, PTS_VIDEO
<1>3. CASE announces = TRUE
  <2> PICK n \in Nat : n = a.newpts + 1
    BY DEF AvStreams
  <2> PICK k \in Nat : k = IF c.buf_flag_seek = TRUE THEN a.seekflags + 1 ELSE a.seekflags
    BY DEF AvStreams
  <2>1. clk' = [seen EXCEPT !.last_pts = l, !.send_newpts = FALSE, !.buf_flag_seek = FALSE]
    BY <1>2, <1>3
  <2>2. av' = [a EXCEPT !.newpts = n, !.seekflags = k, !.base = pts, !.last = pts]
    BY <1>2, <1>3 DEF Clocks
  <2>3. clk' \in Clocks /\ clk'.last_pts = l /\ clk'.send_newpts = FALSE /\ clk'.buf_flag_seek = FALSE
        /\ clk'.last_vpts = u /\ clk'.still_mode = c.still_mode /\ clk'.trick_speed = c.trick_speed
    BY <1>1, <2>1 DEF Clocks
  <2>4. av' \in AvStreams /\ av'.newpts = n /\ av'.seekflags = k /\ av'.base = pts /\ av'.last = pts
        /\ av'.v = a.v /\ av'.a = a.a /\ av'.start = a.start /\ av'.hidden = a.hidden
    BY <2>2 DEF AvStreams
  <2>5. clk'.last_pts[0] = pts /\ clk'.last_pts[1] = pts
    BY <2>3
  <2> QED
    BY <1>3, <2>3, <2>4, <2>5 DEF Shown
<1>4. CASE announces = FALSE
  <2>1. clk' = [seen EXCEPT !.last_pts = l, !.send_newpts = c.send_newpts,
                            !.buf_flag_seek = c.buf_flag_seek]
    BY <1>1, <1>2, <1>4 DEF Clocks
  <2>2. av' = [a EXCEPT !.last = pts]
    BY <1>2, <1>4 DEF AvStreams
  <2>3. clk' \in Clocks /\ clk'.last_pts = l /\ clk'.send_newpts = c.send_newpts
        /\ clk'.buf_flag_seek = c.buf_flag_seek
        /\ clk'.last_vpts = u /\ clk'.still_mode = c.still_mode /\ clk'.trick_speed = c.trick_speed
    BY <1>1, <2>1 DEF Clocks
  <2>4. av' \in AvStreams /\ av'.newpts = a.newpts /\ av'.seekflags = a.seekflags
        /\ av'.base = a.base /\ av'.last = pts
        /\ av'.v = a.v /\ av'.a = a.a /\ av'.start = a.start /\ av'.hidden = a.hidden
    BY <2>2 DEF AvStreams
  <2>5. clk'.last_pts[0] = pts /\ clk'.last_pts[1] = pts
    BY <2>3
  <2> QED
    BY <1>4, <2>3, <2>4, <2>5 DEF Shown
<1> QED
  BY <1>3, <1>4

\* A timestamp from before a wrap is hidden.
LEMMA HiddenFacts ==
  ASSUME NEW c, NEW a \in AvStreams, NEW pts \in Nat, pts # 0, NEW kind \in {0, 1},
         PtsWrapWorkaround(c, pts, kind) = 0, CheckNewPts(c, a, pts, kind), Wraps(a) # 0
  PROVE  clk' = c /\ av' = a
<1>1. clk' = c /\ av' = [a EXCEPT !.hidden = @ \/ Wraps(a) = 0]
  BY DEF CheckNewPts, PTS_AUDIO, PTS_VIDEO
<1>2. (a.hidden \/ Wraps(a) = 0) = a.hidden
  BY DEF AvStreams
<1>3. av' = [a EXCEPT !.hidden = a.hidden]
  BY <1>1, <1>2
<1> QED
  BY <1>1, <1>3 DEF AvStreams

LEMMA ClkPrimed ==
  ASSUME NEW t, NEW b, ClkSound(t, b), clk' = t, av' = b
  PROVE  ClockInv'
BY DEF ClockInv

SameCounts(b, a) == /\ b.start = a.start /\ b.newpts = a.newpts /\ b.seekflags = a.seekflags
                    /\ b.base = a.base /\ b.last = a.last

\* The first frame of a stream announces the base.
LEMMA FirstKeeps ==
  ASSUME ClkSound(clk, av), Passes(clk), Unannounced(clk, av),
         NEW b, b \in AvStreams, SameCounts(b, av), b.hidden = FALSE, NEW kind \in {0, 1},
         \/ kind = 1 /\ b.v = b.start + 1 /\ b.a = b.start
         \/ kind = 0 /\ b.v = b.start /\ b.a = b.start + 1,
         CheckNewPts(clk, b, Timestamp(b.start + 1), kind)
  PROVE  ClockInv'
<1> PICK c : c = clk
  OBVIOUS
<1> PICK p : p = b.start + 1
  OBVIOUS
<1> PICK pts : pts = Timestamp(p)
  OBVIOUS
<1>1. p \in Places /\ b.start \in Nat /\ c \in Clocks
  BY DEF AvStreams, Places, ClkSound
<1>2. pts \in Nat /\ pts # 0 /\ Epoch(p) \in Nat
  BY <1>1, EpochFacts
<1>3. c.send_newpts = TRUE /\ c.last_vpts <= 0
  BY DEF Unannounced
<1>4. PtsWrapWorkaround(c, pts, kind) = pts
  BY <1>1, <1>3 DEF PtsWrapWorkaround, Clocks
<1> PICK announces \in BOOLEAN : announces = Announces(c, pts, kind)
  BY <1>1 DEF Announces, Clocks
<1>5. announces = TRUE
  BY <1>3 DEF Announces
<1>6. Shown(clk', av', c, b, pts, kind, announces)
  BY <1>1, <1>2, <1>4, ShownFacts
<1> PICK t : t = clk'
  OBVIOUS
<1> PICK e : e = av'
  OBVIOUS
<1>7. /\ t \in Clocks /\ e \in AvStreams /\ t.last_pts[0] = pts /\ t.last_pts[1] = pts
      /\ t.last_vpts = (IF kind = 1 THEN pts ELSE c.last_vpts)
      /\ e.v = b.v /\ e.a = b.a /\ e.start = b.start /\ e.hidden = FALSE
      /\ t.send_newpts = FALSE /\ t.buf_flag_seek = FALSE /\ e.base = pts
      /\ e.newpts = b.newpts + 1 /\ e.seekflags \in {b.seekflags, b.seekflags + 1}
  BY <1>5, <1>6 DEF Shown
<1>8. b.newpts = 0 /\ b.seekflags = 0
  BY DEF SameCounts, Unannounced
<1>9. Paced(e)
  BY <1>1, <1>7, Thresholds DEF Paced
<1>10. Reached(e) = p /\ Wraps(e) \in Nat
  BY <1>1, <1>7, <1>9, ReachedFacts DEF Reached, Larger
<1>11. ShownAt(t, e, p)
  BY <1>1, <1>7, <1>10, Thresholds DEF ShownAt
<1>12. Follows(t, e)
  <2>1. CASE kind = 1
    <3>1. SeenAt(t, e, p)
      BY <1>1, <1>7, <2>1, Thresholds DEF SeenAt
    <3>2. e.v # e.start
      BY <1>1, <1>7, <2>1
    <3> QED
      BY <1>11, <3>1, <3>2 DEF Follows
  <2>2. CASE kind = 0
    BY <1>3, <1>7, <1>11, <2>2 DEF Follows
  <2> QED
    BY <2>1, <2>2
<1>13. Announced(t, e)
  BY <1>2, <1>7, <1>8, <1>10, <1>12 DEF Announced
<1>14. ClkSound(t, e)
  BY <1>7, <1>9, <1>13 DEF ClkSound
<1> QED
  BY <1>14, ClkPrimed

\* What holds of the place p of a later frame that is passed on.
Admitted(c, a, b, p, q, kind) ==
  /\ Paced(b) /\ SameCounts(b, a) /\ Reached(a) <= Reached(b) /\ b.v # b.start
  /\ p \in Places /\ p > b.start /\ p <= Reached(b) /\ Epoch(p) = Epoch(Reached(b))
  /\ p = b.a \/ p >= b.v - MaxBack
  /\ IF kind = 1 THEN p <= b.v /\ p >= b.v - MaxBack ELSE \E w : SeenAt(c, b, w)
  /\ ShownAt(c, a, q) /\ p - q <= WrapThreshold /\ q - p <= WrapThreshold

\* A later frame that is passed on announces a base only behind a wrap.
LEMMA ShownKeeps ==
  ASSUME NEW c, NEW a, c \in Clocks, Passes(c), Paced(a), Announced(c, a),
         NEW b, NEW p, NEW q, NEW kind \in {0, 1}, Admitted(c, a, b, p, q, kind),
         NEW pts, pts = Timestamp(p),
         NEW announces \in BOOLEAN, announces = Announces(c, pts, kind),
         NEW t, NEW e, Shown(t, e, c, b, pts, kind, announces)
  PROVE  ClkSound(t, e)
<1> /\ Paced(b) /\ SameCounts(b, a) /\ Reached(a) <= Reached(b) /\ b.v # b.start
    /\ p \in Places /\ p > b.start /\ p <= Reached(b) /\ Epoch(p) = Epoch(Reached(b))
    /\ p = b.a \/ p >= b.v - MaxBack
    /\ kind = 1 => p <= b.v /\ p >= b.v - MaxBack
    /\ kind = 0 => \E w : SeenAt(c, b, w)
    /\ ShownAt(c, a, q) /\ p - q <= WrapThreshold /\ q - p <= WrapThreshold
  BY DEF Admitted
<1>1. pts \in Nat /\ pts # 0 /\ Epoch(p) \in Nat
  BY EpochFacts, Thresholds DEF Places
<1>2. /\ t \in Clocks /\ e \in AvStreams /\ t.last_pts[0] = pts /\ t.last_pts[1] = pts
      /\ t.last_vpts = (IF kind = 1 THEN pts ELSE c.last_vpts)
      /\ e.v = b.v /\ e.a = b.a /\ e.start = b.start /\ e.hidden = b.hidden
  BY DEF Shown
<1>3. Paced(e) /\ b.v > b.start
  BY <1>2 DEF Paced, AvStreams
<1>4. Reached(e) = Reached(b) /\ Wraps(e) = Wraps(b)
  BY <1>2 DEF Reached, Wraps
<1>5. ShownAt(t, e, p)
  BY <1>2, <1>4 DEF ShownAt
<1>6. \E w : SeenAt(t, e, w)
  <2>1. CASE kind = 1
    <3>1. Reached(b) = b.v
      BY <1>3, ReachedFacts
    <3>2. SeenAt(t, e, p)
      BY <1>2, <2>1, <3>1 DEF SeenAt
    <3> QED
      BY <3>2
  <2>2. CASE kind = 0
    <3> PICK w : SeenAt(c, b, w)
      BY <2>2
    <3>1. SeenAt(t, e, w)
      BY <1>2, <2>2 DEF SeenAt
    <3> QED
      BY <3>1
  <2> QED
    BY <2>1, <2>2
<1>7. Follows(t, e)
  BY <1>2, <1>5, <1>6 DEF Follows
<1>8. t.send_newpts = FALSE /\ t.buf_flag_seek = FALSE /\ e.base # 0 /\ e.seekflags <= 1
  BY <1>1 DEF Shown, Announced, SameCounts
<1>9. e.newpts <= 1 + Wraps(e)
  <2>1. /\ Wraps(a) \in Nat /\ Wraps(b) \in Nat
        /\ Wraps(a) = Epoch(Reached(a)) - Epoch(a.start + 1)
        /\ Wraps(b) = Epoch(Reached(b)) - Epoch(a.start + 1)
        /\ Reached(a) \in Places /\ Reached(b) \in Places /\ a.start + 1 \in Places
        /\ a.start + 1 <= Reached(a)
    BY ReachedFacts DEF SameCounts
  <2>2. Epoch(Reached(a)) \in Nat /\ Epoch(Reached(b)) \in Nat /\ Epoch(a.start + 1) \in Nat
        /\ Epoch(Reached(a)) <= Epoch(Reached(b))
    BY <2>1, EpochFacts
  <2>3. a.newpts \in Nat /\ a.newpts <= 1 + Wraps(a) /\ b.newpts = a.newpts
    BY DEF Announced, SameCounts, Paced, AvStreams
  <2>4. CASE announces = FALSE
    <3>1. e.newpts = a.newpts
      BY <2>3, <2>4 DEF Shown
    <3> QED
      BY <1>4, <2>1, <2>2, <2>3, <3>1
  <2>5. CASE announces = TRUE
    <3>1. e.newpts = a.newpts + 1
      BY <2>3, <2>5 DEF Shown
    <3>2. q \in Places /\ c.last_pts[kind] = Timestamp(q) /\ Epoch(q) = Epoch(Reached(a))
      BY DEF ShownAt
    <3>3. AbsDiff(Timestamp(p), Timestamp(q)) > WrapThreshold
      BY <2>5, <3>2 DEF Announces, Announced
    <3>4. Epoch(p) # Epoch(q)
      BY <3>2, <3>3, NearIsNoJump
    <3>5. Epoch(Reached(a)) # Epoch(Reached(b))
      BY <3>2, <3>4
    <3> QED
      BY <1>4, <2>1, <2>2, <2>3, <3>1, <3>5
  <2> QED
    BY <2>4, <2>5
<1> QED
  BY <1>2, <1>3, <1>7, <1>8, <1>9 DEF ClkSound, Announced

\* Nothing is passed on: the timestamp was hidden.
LEMMA HiddenKeeps ==
  ASSUME NEW c, NEW a, c \in Clocks, Passes(c), Paced(a), Announced(c, a), a.v > a.start,
         NEW b, Paced(b), SameCounts(b, a), b.v = a.v, b.a = a.a \/ b.a = a.a + 1,
         NEW p \in Places, p = b.a \/ b.a = a.a, Epoch(p) < Epoch(a.v)
  PROVE  ClkSound(c, b)
<1> PICK q : ShownAt(c, a, q)
  BY DEF Announced, Follows
<1> PICK w : SeenAt(c, a, w)
  BY DEF Announced, Follows, Paced, AvStreams
<1>1. a.v \in Nat /\ a.a \in Nat /\ a.start \in Nat /\ b.start = a.start
  BY DEF Paced, AvStreams, SameCounts
<1>2. Reached(a) = a.v /\ Reached(b) = a.v /\ Wraps(b) = Wraps(a)
  BY <1>1, ReachedFacts
<1>3. q \in Places /\ Epoch(q) = Epoch(a.v)
  BY <1>2 DEF ShownAt
<1>4. q = b.a \/ q >= b.v - MaxBack
  <2>1. CASE b.a = a.a
    BY <2>1 DEF ShownAt
  <2>2. CASE b.a = a.a + 1
    <3>1. p = a.a + 1
      BY <1>1, <2>2
    <3>2. q # a.a
      <4> SUFFICES ASSUME q = a.a PROVE FALSE
        OBVIOUS
      <4>1. q <= p
        BY <1>1, <3>1
      <4>2. Epoch(q) <= Epoch(p) /\ Epoch(p) \in Nat /\ Epoch(q) \in Nat
        BY <1>3, <4>1, EpochFacts
      <4> QED
        BY <1>3, <4>2
    <3> QED
      BY <3>2 DEF ShownAt
  <2> QED
    BY <2>1, <2>2
<1>5. ShownAt(c, b, q)
  BY <1>1, <1>2, <1>4 DEF ShownAt
<1>6. SeenAt(c, b, w)
  BY <1>1 DEF SeenAt
<1>7. Follows(c, b)
  BY <1>1, <1>5, <1>6 DEF Follows
<1>8. b.base # 0 /\ b.seekflags <= 1 /\ b.newpts <= 1 + Wraps(b)
  BY <1>2 DEF Announced, SameCounts
<1> QED
  BY <1>7, <1>8 DEF ClkSound, Announced

\* Where the last picture and the last timestamp passed on were, for a stream
\* that has begun; and for each of the frames that come next.
LEMMA BFrameKeeps ==
  ASSUME ClkSound(clk, av), Passes(clk), NEW back \in 0 .. MaxBack, av.v - back > av.start,
         VideoAt(av.v - back, av)
  PROVE  ClockInv'
<1> PICK c : c = clk
  OBVIOUS
<1> PICK a : a = av
  OBVIOUS
<1>1. c \in Clocks /\ Paced(a) /\ a.v \in Nat /\ a.a \in Nat /\ a.start \in Nat /\ a \in AvStreams
  BY DEF ClkSound, Paced, AvStreams
<1> PICK p : p = a.v - back
  OBVIOUS
<1>2. p \in Places /\ p > a.start /\ p <= a.v /\ p >= a.v - MaxBack /\ a.v > a.start /\ p \in Int
  BY <1>1, Thresholds DEF Places
<1>3. Announced(c, a) /\ Follows(c, a)
  BY <1>1, <1>2 DEF ClkSound, Unannounced, Announced
<1> PICK q : ShownAt(c, a, q)
  BY <1>3 DEF Follows
<1> PICK w : SeenAt(c, a, w)
  BY <1>1, <1>2, <1>3 DEF Follows
<1> PICK pts : pts = Timestamp(p)
  OBVIOUS
<1>4. pts \in Nat /\ pts # 0 /\ pts \in 1 .. PtsMax
  BY <1>2, EpochFacts, Thresholds
<1>5. CheckNewPts(c, a, pts, 1)
  BY DEF VideoAt, Skipped, Passes, PTS_VIDEO
<1>6. w \in Places /\ w \in Int /\ p - w <= MaxBack /\ w - p <= MaxBack
      /\ c.last_vpts = Timestamp(w) /\ Epoch(w) = Epoch(a.v) /\ a.v \in Places
  BY <1>1, <1>2, Thresholds DEF SeenAt, Places
<1>7. Timestamp(w) \in 1 .. PtsMax
  BY <1>6, EpochFacts
<1>8. Epoch(p) \in Nat /\ Epoch(a.v) \in Nat /\ Epoch(p) <= Epoch(a.v)
  BY <1>2, <1>6, EpochFacts
<1>9. Back(pts, c.last_vpts) <=> Epoch(p) < Epoch(a.v)
  BY <1>2, <1>6, BackIsEarlier, Thresholds
<1>10. PtsWrapWorkaround(c, pts, 1) = IF Back(pts, c.last_vpts) THEN 0 ELSE pts
  BY <1>3, <1>6, <1>7 DEF PtsWrapWorkaround, Back, PTS_VIDEO, Announced
<1>11. Reached(a) = a.v /\ a.start + 1 \in Places
  BY <1>1, <1>2, ReachedFacts
<1>12. CASE Epoch(p) < Epoch(a.v)
  <2>1. PtsWrapWorkaround(c, pts, 1) = 0
    BY <1>9, <1>10, <1>12
  <2>2. Wraps(a) # 0
    <3>1. Epoch(a.start + 1) <= Epoch(p) /\ Epoch(a.start + 1) \in Nat
      <4>1. a.start + 1 <= p
        BY <1>1, <1>2
      <4> QED
        BY <1>2, <1>11, <4>1, EpochFacts
    <3>2. Wraps(a) = Epoch(a.v) - Epoch(a.start + 1)
      BY <1>1, <1>11, ReachedFacts
    <3> QED
      BY <1>8, <1>12, <3>1, <3>2
  <2>3. clk' = c /\ av' = a
    BY <1>1, <1>4, <1>5, <2>1, <2>2, HiddenFacts
  <2> QED
    BY <2>3, ClkPrimed
<1>13. CASE ~(Epoch(p) < Epoch(a.v))
  <2>1. PtsWrapWorkaround(c, pts, 1) = pts
    BY <1>9, <1>10, <1>13
  <2> PICK announces \in BOOLEAN : announces = Announces(c, pts, 1)
    BY <1>1 DEF Announces, Clocks
  <2>2. Shown(clk', av', c, a, pts, 1, announces)
    BY <1>1, <1>4, <1>5, <2>1, ShownFacts
  <2>3. Epoch(p) = Epoch(Reached(a)) /\ p <= Reached(a) /\ Reached(a) <= Reached(a)
    BY <1>1, <1>2, <1>8, <1>11, <1>13
  <2>4. p - q <= WrapThreshold /\ q - p <= WrapThreshold
    BY <1>1, <1>2, <1>11, Thresholds DEF ShownAt, Places, Paced
  <2>5. SameCounts(a, a) /\ a.v # a.start
    BY <1>1, <1>2 DEF SameCounts
  <2> PICK t : t = clk'
    OBVIOUS
  <2> PICK e : e = av'
    OBVIOUS
  <2>6. ClkSound(t, e)
    <3>1. Admitted(c, a, a, p, q, 1)
      BY <1>1, <1>2, <2>3, <2>4, <2>5 DEF Admitted
    <3> QED
      BY <1>1, <1>3, <2>2, <3>1, ShownKeeps
  <2> QED
    BY <2>6, ClkPrimed
<1> QED
  BY <1>12, <1>13

LEMMA NextVideoKeeps ==
  ASSUME ClkSound(clk, av), Passes(clk), av.v < av.a + MaxLead,
         VideoAt(av.v + 1, [av EXCEPT !.v = @ + 1])
  PROVE  ClockInv'
<1> PICK c : c = clk
  OBVIOUS
<1> PICK a : a = av
  OBVIOUS
<1>1. c \in Clocks /\ Paced(a) /\ a.v \in Nat /\ a.a \in Nat /\ a.start \in Nat /\ a \in AvStreams
  BY DEF ClkSound, Paced, AvStreams
<1> PICK p : p = a.v + 1
  OBVIOUS
<1> PICK b : b = [a EXCEPT !.v = p]
  OBVIOUS
<1>2. p \in Places /\ p > a.start /\ p \in Int
  BY <1>1 DEF Places, Paced
<1>3. b \in AvStreams /\ b.v = a.v + 1 /\ b.a = a.a /\ b.hidden = FALSE /\ SameCounts(b, a)
  BY <1>1, <1>2 DEF AvStreams, Paced, Places, SameCounts
<1>4. Paced(b)
  BY <1>1, <1>3, Thresholds DEF Paced, SameCounts
<1> PICK pts : pts = Timestamp(p)
  OBVIOUS
<1>5. pts \in Nat /\ pts # 0 /\ pts \in 1 .. PtsMax
  BY <1>2, EpochFacts, Thresholds
<1>6. CheckNewPts(c, b, pts, 1)
  BY DEF VideoAt, Skipped, Passes, PTS_VIDEO
<1>7. CASE Unannounced(c, a)
  <2>1. a.v = a.start /\ a.a = a.start
    BY <1>7 DEF Unannounced
  <2>2. b.v = b.start + 1 /\ b.a = b.start /\ p = b.start + 1
    BY <1>3, <2>1 DEF SameCounts
  <2>3. CheckNewPts(clk, b, Timestamp(b.start + 1), 1)
    BY <1>6, <2>2
  <2> QED
    BY <1>3, <1>7, <2>2, <2>3, FirstKeeps
<1>8. CASE Announced(c, a)
  <2> PICK q : ShownAt(c, a, q)
    BY <1>8 DEF Announced, Follows
  <2>1. PtsWrapWorkaround(c, pts, 1) = pts
    <3>1. CASE a.v = a.start
      <4>1. c.last_vpts <= 0 /\ c.last_vpts \in Int
        BY <1>1, <1>8, <3>1 DEF Announced, Follows, Clocks
      <4> QED
        BY <4>1 DEF PtsWrapWorkaround, PTS_VIDEO
    <3>2. CASE a.v # a.start
      <4> PICK w : SeenAt(c, a, w)
        BY <1>8, <3>2 DEF Announced, Follows
      <4>1. w \in Places /\ w \in Int /\ p - w <= MaxBack + 1 /\ w - p <= MaxBack /\ w <= p
            /\ c.last_vpts = Timestamp(w)
        BY <1>1, <1>2, Thresholds DEF SeenAt, Places
      <4>2. ~(Epoch(p) < Epoch(w))
        BY <1>2, <4>1, EpochFacts
      <4>3. ~Back(pts, c.last_vpts)
        BY <1>2, <4>1, <4>2, BackIsEarlier
      <4> QED
        BY <4>3 DEF PtsWrapWorkaround, PTS_VIDEO, Back
    <3> QED
      BY <3>1, <3>2
  <2> PICK announces \in BOOLEAN : announces = Announces(c, pts, 1)
    BY <1>1 DEF Announces, Clocks
  <2>2. Shown(clk', av', c, b, pts, 1, announces)
    BY <1>1, <1>3, <1>5, <1>6, <2>1, ShownFacts
  <2>3. b.start = a.start /\ b.v # b.start /\ b.v > b.start
    BY <1>1, <1>3 DEF SameCounts, Paced
  <2>4. Reached(b) = p
    BY <1>3, <1>4, <2>3, ReachedFacts
  <2>5. Reached(a) <= p /\ Reached(a) \in Nat
    <3>1. CASE a.v > a.start
      BY <1>1, <3>1, ReachedFacts
    <3>2. CASE a.v = a.start
      BY <1>1, <3>2, ReachedFacts
    <3> QED
      BY <1>1, <3>1, <3>2 DEF Paced
  <2>6. p - q <= WrapThreshold /\ q - p <= WrapThreshold
    BY <1>1, <1>2, <2>5, Thresholds DEF ShownAt, Places
  <2>7. p > b.start /\ p <= Reached(b) /\ Epoch(p) = Epoch(Reached(b)) /\ Reached(a) <= Reached(b)
        /\ p <= b.v /\ p >= b.v - MaxBack
    BY <1>1, <1>2, <1>3, <2>3, <2>4, <2>5, Thresholds
  <2> PICK t : t = clk'
    OBVIOUS
  <2> PICK e : e = av'
    OBVIOUS
  <2>8. ClkSound(t, e)
    <3>1. Admitted(c, a, b, p, q, 1)
      BY <1>2, <1>3, <1>4, <2>3, <2>6, <2>7 DEF Admitted
    <3> QED
      BY <1>1, <1>8, <2>2, <3>1, ShownKeeps
  <2> QED
    BY <2>8, ClkPrimed
<1> QED
  BY <1>7, <1>8 DEF ClkSound

LEMMA AudioKeeps ==
  ASSUME ClkSound(clk, av), AudioFrame
  PROVE  ClockInv'
<1> PICK c : c = clk
  OBVIOUS
<1> PICK a : a = av
  OBVIOUS
<1>1. c \in Clocks /\ Paced(a) /\ a.v \in Nat /\ a.a \in Nat /\ a.start \in Nat /\ a \in AvStreams
  BY DEF ClkSound, Paced, AvStreams
<1> PICK p : p = a.a + 1
  OBVIOUS
<1> PICK b : b = [a EXCEPT !.a = p]
  OBVIOUS
<1> PICK pts : pts = Timestamp(p)
  OBVIOUS
<1>2. /\ Passes(c) /\ a.a <= a.v /\ (a.a < a.v \/ a.v = a.start)
      /\ CheckNewPts(c, b, pts, 0)
  BY <1>1 DEF AudioFrame, Passes, Clocks, PTS_AUDIO
<1>3. p \in Places /\ p > a.start /\ p \in Int
  BY <1>1 DEF Places, Paced
<1>4. b \in AvStreams /\ b.v = a.v /\ b.a = p /\ b.hidden = FALSE /\ SameCounts(b, a)
  BY <1>1, <1>3 DEF AvStreams, Paced, Places, SameCounts
<1>5. pts \in Nat /\ pts # 0 /\ pts \in 1 .. PtsMax
  BY <1>3, EpochFacts, Thresholds
<1>6. CASE Unannounced(c, a)
  <2>1. a.v = a.start /\ a.a = a.start
    BY <1>2, <1>6 DEF Unannounced
  <2>2. b.v = b.start /\ b.a = b.start + 1 /\ p = b.start + 1
    BY <1>4, <2>1 DEF SameCounts
  <2>3. CheckNewPts(clk, b, Timestamp(b.start + 1), 0)
    BY <1>2, <2>2
  <2> QED
    BY <1>2, <1>4, <1>6, <2>2, <2>3, FirstKeeps
<1>7. CASE Announced(c, a)
  <2>1. a.v > a.start /\ a.a < a.v /\ Follows(c, a)
    BY <1>1, <1>2, <1>7 DEF Announced, Follows, Paced
  <2> PICK q : ShownAt(c, a, q)
    BY <2>1 DEF Follows
  <2> PICK w : SeenAt(c, a, w)
    BY <1>1, <2>1 DEF Follows
  <2>2. Paced(b)
    BY <1>1, <1>3, <1>4, <2>1, Thresholds DEF Paced, SameCounts
  <2>3. b.start = a.start /\ b.v > b.start /\ b.v # b.start
    BY <1>1, <1>4, <2>1 DEF SameCounts
  <2>4. Reached(a) = a.v /\ Reached(b) = a.v /\ Wraps(b) = Epoch(a.v) - Epoch(a.start + 1)
        /\ a.start + 1 \in Places
    BY <1>1, <1>4, <2>1, <2>2, <2>3, ReachedFacts
  <2>5. w \in Places /\ w \in Int /\ p - w <= MaxBack /\ w - p < MaxLead
        /\ c.last_vpts = Timestamp(w) /\ Epoch(w) = Epoch(a.v) /\ a.v \in Places /\ p <= a.v
    BY <1>1, <1>3, <2>1, Thresholds DEF SeenAt, Places, Paced
  <2>6. Timestamp(w) \in 1 .. PtsMax
    BY <2>5, EpochFacts
  <2>7. Epoch(p) \in Nat /\ Epoch(a.v) \in Nat /\ Epoch(p) <= Epoch(a.v)
    BY <1>3, <2>5, EpochFacts
  <2>8. Late(pts, c.last_vpts) <=> Epoch(p) < Epoch(a.v)
    BY <1>3, <2>5, <2>7, LateIsEarlier
  <2>9. PtsWrapWorkaround(c, pts, 0) = IF Late(pts, c.last_vpts) THEN 0 ELSE pts
    BY <2>5, <2>6 DEF PtsWrapWorkaround, Late, PTS_VIDEO
  <2>10. CASE Epoch(p) < Epoch(a.v)
    <3>1. PtsWrapWorkaround(c, pts, 0) = 0
      BY <2>8, <2>9, <2>10
    <3>2. Epoch(a.start + 1) <= Epoch(p) /\ Epoch(a.start + 1) \in Nat
      <4>1. a.start + 1 <= p
        BY <1>1, <1>3
      <4> QED
        BY <1>3, <2>4, <4>1, EpochFacts
    <3>3. Wraps(b) # 0
      BY <2>4, <2>7, <2>10, <3>2
    <3>4. clk' = c /\ av' = b
      BY <1>2, <1>4, <1>5, <3>1, <3>3, HiddenFacts
    <3>5. ClkSound(c, b)
      BY <1>1, <1>2, <1>3, <1>4, <1>7, <2>1, <2>2, <2>10, HiddenKeeps
    <3> QED
      BY <3>4, <3>5, ClkPrimed
  <2>11. CASE ~(Epoch(p) < Epoch(a.v))
    <3>1. PtsWrapWorkaround(c, pts, 0) = pts
      BY <2>8, <2>9, <2>11
    <3> PICK announces \in BOOLEAN : announces = Announces(c, pts, 0)
      BY <1>1 DEF Announces, Clocks
    <3>2. Shown(clk', av', c, b, pts, 0, announces)
      BY <1>1, <1>2, <1>4, <1>5, <3>1, ShownFacts
    <3>3. p > b.start /\ p <= Reached(b) /\ Epoch(p) = Epoch(Reached(b)) /\ Reached(a) <= Reached(b)
          /\ p = b.a
      BY <1>1, <1>3, <1>4, <2>3, <2>4, <2>5, <2>7, <2>11
    <3>4. p - q <= WrapThreshold /\ q - p <= WrapThreshold
      BY <1>1, <1>3, <2>1, <2>4, Thresholds DEF ShownAt, Places, Paced
    <3>5. SeenAt(c, b, w)
      BY <1>4, <2>3 DEF SeenAt
    <3> PICK t : t = clk'
      OBVIOUS
    <3> PICK e : e = av'
      OBVIOUS
    <3>6. ClkSound(t, e)
      <4>1. Admitted(c, a, b, p, q, 0)
        BY <1>3, <1>4, <2>2, <2>3, <3>3, <3>4, <3>5 DEF Admitted
      <4> QED
        BY <1>1, <1>2, <1>7, <3>2, <4>1, ShownKeeps
    <3> QED
      BY <3>6, ClkPrimed
  <2> QED
    BY <2>10, <2>11
<1> QED
  BY <1>6, <1>7 DEF ClkSound

\* In still mode and trick speed the timestamps of the video are left alone.
LEMMA SkippedKeeps ==
  ASSUME ClkSound(clk, av), ~Passes(clk), av.v <= av.a + MaxLead,
         NEW b \in {av, [av EXCEPT !.v = @ + 1]}, b = av \/ av.v < av.a + MaxLead,
         NEW p, VideoAt(p, b)
  PROVE  ClockInv'
<1> PICK c : c = clk
  OBVIOUS
<1> PICK a : a = av
  OBVIOUS
<1>1. c \in Clocks /\ Paced(a) /\ a.v \in Nat /\ a.a \in Nat /\ a.start \in Nat /\ a \in AvStreams
  BY DEF ClkSound, Paced, AvStreams
<1>2. clk' = c /\ av' = b
  BY <1>1 DEF VideoAt, Skipped, Passes, Clocks, PTS_VIDEO
<1>3. CASE b = a
  BY <1>2, <1>3, ClkPrimed
<1>4. CASE b # a
  <2>1. a.v < a.a + MaxLead
    BY <1>4
  <2> PICK v \in Nat : v = a.v + 1
    BY <1>1
  <2>2. b = [a EXCEPT !.v = v]
    BY <1>4
  <2>3. b \in AvStreams /\ b.v = a.v + 1 /\ b.a = a.a /\ b.hidden = FALSE /\ SameCounts(b, a)
    BY <1>1, <2>2 DEF AvStreams, Paced, SameCounts
  <2>4. Paced(b)
    BY <1>1, <2>1, <2>3, Thresholds DEF Paced, SameCounts
  <2>5. Reached(a) <= Reached(b) /\ b.start = a.start
    BY <1>1, <2>3 DEF Reached, Larger, SameCounts
  <2>6. Wraps(a) \in Nat /\ Wraps(b) \in Nat /\ Wraps(a) <= Wraps(b)
    <3>1. Epoch(Reached(a)) <= Epoch(Reached(b)) /\ Epoch(Reached(a)) \in Nat /\ Epoch(Reached(b)) \in Nat
      BY <1>1, <2>4, <2>5, ReachedFacts, EpochFacts
    <3>2. Epoch(a.start + 1) \in Nat
      BY <1>1, ReachedFacts, EpochFacts
    <3> QED
      BY <1>1, <2>4, <2>5, <3>1, <3>2, ReachedFacts
  <2>7. a.newpts \in Nat
    BY <1>1 DEF AvStreams
  <2>8. Unannounced(c, a) => Unannounced(c, b)
    BY <2>3 DEF Unannounced, SameCounts
  <2>9. Announced(c, a) => Announced(c, b)
    BY <2>3, <2>6, <2>7 DEF Announced, SameCounts
  <2>10. ClkSound(c, b)
    BY <1>1, <2>3, <2>4, <2>8, <2>9 DEF ClkSound, Unannounced, SameCounts
  <2> QED
    BY <1>2, <2>10, ClkPrimed
<1> QED
  BY <1>3, <1>4

LEMMA VideoKeeps == ASSUME ClkSound(clk, av), VideoFrame PROVE ClockInv'
<1>1. Paced(av) /\ av.v <= av.a + MaxLead
  BY DEF ClkSound, Paced
<1>2. CASE Passes(clk)
  BY <1>2, NextVideoKeeps, BFrameKeeps DEF VideoFrame
<1>3. CASE ~Passes(clk)
  BY <1>1, <1>3, SkippedKeeps DEF VideoFrame
<1> QED
  BY <1>2, <1>3

\* A stream starts: nothing was announced, and no picture seen.
LEMMA StartSound ==
  ASSUME NEW c \in Clocks, c.send_newpts = TRUE, c.last_vpts <= 0, NEW pos \in Nat
  PROVE  ClkSound(c, AvStart(pos))
<1> PICK a : a = AvStart(pos)
  OBVIOUS
<1>1. a = [v |-> pos, a |-> pos, start |-> pos, base |-> 0, last |-> 0,
           newpts |-> 0, seekflags |-> 0, hidden |-> FALSE]
  BY DEF AvStart
<1>2. a \in AvStreams /\ a.v = pos /\ a.a = pos /\ a.start = pos /\ a.base = 0 /\ a.last = 0
      /\ a.newpts = 0 /\ a.seekflags = 0 /\ a.hidden = FALSE
  BY ONLY <1>1, pos \in Nat DEF AvStreams
<1> QED
  BY <1>2, Thresholds DEF ClkSound, Paced, Unannounced

LEMMA PlayFacts == Play \in Clocks /\ Play.send_newpts = TRUE /\ Play.last_vpts <= 0
<1> PICK l \in [{0, 1} -> Nat] : l = [x \in {0, 1} |-> 0]
  OBVIOUS
<1> PICK o : o = Opened
  OBVIOUS
<1>1. o = [last_pts |-> l, last_vpts |-> 0, send_newpts |-> FALSE, buf_flag_seek |-> FALSE,
           still_mode |-> FALSE, trick_speed |-> FALSE]
  BY DEF Opened, PTS_AUDIO, PTS_VIDEO
<1>2. Play = [o EXCEPT !.send_newpts = TRUE, !.buf_flag_seek = FALSE, !.last_pts = l]
  BY DEF Play, ClockSeek, PTS_AUDIO, PTS_VIDEO
<1>3. o \in Clocks /\ o.last_vpts = 0
  BY <1>1 DEF Clocks
<1>4. l \in [{0, 1} -> Nat]
  OBVIOUS
<1> PICK t : t = Play
  OBVIOUS
<1>5. t = [o EXCEPT !.send_newpts = TRUE, !.buf_flag_seek = FALSE, !.last_pts = l]
  BY <1>2
<1>6. t \in Clocks
  BY ONLY <1>3, <1>4, <1>5 DEF Clocks
<1>7. t.send_newpts = TRUE /\ t.last_vpts = o.last_vpts
  BY ONLY <1>3, <1>5 DEF Clocks
<1> QED
  BY <1>3, <1>6, <1>7

LEMMA ClockSeekKeeps == ASSUME ClkSound(clk, av), Seek PROVE ClockInv'
<1> PICK pos \in 0 .. MaxPos :
      /\ clk' \in {Play, [ClockSeek(clk, TRUE) EXCEPT !.still_mode = FALSE, !.trick_speed = FALSE]}
      /\ av' = AvStart(pos)
  BY DEF Seek
<1> PICK t : t = clk'
  OBVIOUS
<1> PICK c : c = clk
  OBVIOUS
<1> PICK s : s = [c EXCEPT !.send_newpts = TRUE, !.buf_flag_seek = TRUE, !.last_vpts = -1]
  OBVIOUS
<1>1. c \in Clocks
  BY DEF ClkSound
<1> PICK m \in Int : m = -1
  OBVIOUS
<1>0. s = [c EXCEPT !.send_newpts = TRUE, !.buf_flag_seek = TRUE, !.last_vpts = m]
  OBVIOUS
<1>2. s \in Clocks /\ s.send_newpts = TRUE /\ s.last_vpts = m
  BY ONLY <1>0, <1>1, m \in Int DEF Clocks
<1>3. t = Play \/ t = [s EXCEPT !.still_mode = FALSE, !.trick_speed = FALSE]
  BY DEF ClockSeek
<1>4. t \in Clocks /\ t.send_newpts = TRUE /\ t.last_vpts <= 0
  <2>1. CASE t = Play
    BY <2>1, PlayFacts
  <2>2. CASE t = [s EXCEPT !.still_mode = FALSE, !.trick_speed = FALSE]
    <3>1. t \in Clocks /\ t.send_newpts = s.send_newpts /\ t.last_vpts = s.last_vpts
      BY ONLY <1>2, <2>2 DEF Clocks
    <3> QED
      BY <1>2, <3>1
  <2> QED
    BY <1>3, <2>1, <2>2
<1>5. ClkSound(t, AvStart(pos))
  <2>1. pos \in Nat
    BY Thresholds
  <2> QED
    BY <1>4, <2>1, StartSound
<1> QED
  BY <1>5, ClkPrimed

LEMMA OptionsKeep == ASSUME ClkSound(clk, av), MetronomOptions PROVE ClockInv'
<1> PICK c : c = clk
  OBVIOUS
<1> PICK t : t = clk'
  OBVIOUS
<1>1. c \in Clocks
  BY DEF ClkSound
<1>2. t \in {[c EXCEPT !.still_mode = TRUE], [c EXCEPT !.trick_speed = TRUE]} /\ av' = av
  BY DEF MetronomOptions
<1>3. t \in Clocks /\ ~Passes(t) /\ t.send_newpts = c.send_newpts /\ t.buf_flag_seek = c.buf_flag_seek
  BY <1>1, <1>2 DEF Clocks, Passes
<1>4. ClkSound(t, av)
  BY <1>3 DEF ClkSound, Unannounced, Announced
<1> QED
  BY <1>2, <1>4, ClkPrimed

LEMMA ClockInvInit == ClockInit => ClockInv
<1> SUFFICES ASSUME ClockInit PROVE ClockInv
  OBVIOUS
<1> PICK pos \in 0 .. MaxPos : av = AvStart(pos)
  BY DEF ClockInit
<1>1. pos \in Nat
  BY Thresholds
<1> PICK c : c = Play
  OBVIOUS
<1>2. ClkSound(c, AvStart(pos))
  BY <1>1, PlayFacts, StartSound
<1> QED
  BY <1>2 DEF ClockInit, ClockInv

LEMMA ClockInvNext == ASSUME ClockInv, [Next]_vars PROVE ClockInv'
<1>1. CASE ClockNext
  BY <1>1, VideoKeeps, AudioKeeps, ClockSeekKeeps, OptionsKeep DEF ClockNext, ClockInv
<1>2. CASE UNCHANGED clockVars
  BY <1>2 DEF ClockInv, clockVars
<1> QED
  BY <1>1, <1>2 DEF Next, Step, OthersStay, Stopped, vars, bufVars

LEMMA ClockInvOneBase == ClockInv => OneBase
<1> SUFFICES ASSUME ClockInv PROVE OneBase
  OBVIOUS
<1>1. Wraps(av) \in Nat /\ av.hidden = FALSE
  BY ReachedFacts DEF ClockInv, ClkSound, Paced
<1> QED
  BY <1>1 DEF ClockInv, ClkSound, Unannounced, Announced, OneBase

-----------------------------------------------------------------------------
(* Whatever packets are lost and however streams, tracks and headers       *)
(* change, the decoder gets frames one by one and whole (ts2es.c,          *)
(* demux_xvdr.c); and the timestamp base is announced once per stream and  *)
(* wrap, whichever of video, B frames and audio comes first, and nothing   *)
(* is hidden of a stream that does not wrap (check_newpts()).              *)
THEOREM StreamStaysWhole == Spec => []StreamWhole
<1> DEFINE Inv == TsInv /\ ClockInv
<1>1. Init => Inv
  BY TsInvInit, ClockInvInit DEF Init
<1>2. Inv /\ [Next]_vars => Inv'
  BY TsInvNext, ClockInvNext
<1>3. Inv => StreamWhole
  BY TsInvWhole, ClockInvOneBase DEF StreamWhole
<1> QED
  BY <1>1, <1>2, <1>3, PTL DEF Spec

-----------------------------------------------------------------------------
(* The keys of the remote control (xine_frontend_lirc.c): OneKeyHeld, that *)
(* lircd's keys are held one at a time and only while the remote control   *)
(* repeats them, is not inductive.  KeysInv adds that the key of the remote*)
(* control is the last one the thread has read, which has not waited longer*)
(* than lircd leaves between two repeats: a release is made up in time,    *)
(* unless a line of lircd was missed.                                      *)

LircFields == [running : BOOLEAN, LastKeyName : LircKeys \cup {Keys!NoKey}, repeat : BOOLEAN,
               first : Nat, last : Nat, timed : BOOLEAN, waited : Nat,
               repeat_emu : BOOLEAN, gui_hotkeys : BOOLEAN]
RemoteFields == [key : LircKeys \cup {Keys!NoKey}, count : Nat, missed : BOOLEAN]

\* The times since the key was pressed and since its last repeat; a repeated key is
\* not held for longer than lircd leaves between two repeats.
Timely(l) == l \in LircFields /\ l.last <= l.first /\ l.first <= RepeatTimeout
FollowsHeld(l, r) == r.key # Keys!NoKey =>
                       l.LastKeyName = r.key /\ (l.repeat = TRUE => l.last < RepeatTimeout)
HeldAlone(l, held) == held = {} \/ (held = {l.LastKeyName} /\ l.repeat = TRUE)
KeysSound(l, r, held) ==
  /\ Timely(l) /\ r \in RemoteFields
  /\ r.missed = FALSE => FollowsHeld(l, r) /\ HeldAlone(l, held)
KeysInv == KeysSound(lirc, remote, down)

LEMMA KeysPrimed ==
  ASSUME NEW l, NEW r, NEW held, KeysSound(l, r, held), lirc' = l, remote' = r, down' = held
  PROVE  KeysInv'
BY DEF KeysInv

\* A line of lircd: afterwards its key is the last one, and the only one held.
LEMMA LineKeeps ==
  ASSUME KeysInv, NEW key \in LircKeys, NEW count \in Nat, Keys!LircLine(key, count),
         count = 0 \/ remote.missed = TRUE \/ key = lirc.LastKeyName
  PROVE  /\ Timely(lirc')
         /\ remote.missed = FALSE =>
              /\ lirc'.LastKeyName = key
              /\ lirc'.repeat = TRUE => lirc'.last < RepeatTimeout
              /\ HeldAlone(lirc', down')
<1> PICK l : l = lirc
  OBVIOUS
<1>1. Timely(l) /\ (remote.missed = FALSE => HeldAlone(l, down))
  BY DEF KeysInv, KeysSound
<1>2. CASE Keys!NewKey(key) /\ key = l.LastKeyName /\ l.first < RepeatDelay
  <2>1. lirc' = [l EXCEPT !.waited = 0] /\ down' = down
    BY <1>2 DEF Keys!NewKey
  <2> QED
    BY <1>1, <1>2, <2>1, KeysAssumption DEF Timely, LircFields, HeldAlone
<1>3. CASE Keys!NewKey(key) /\ ~(key = l.LastKeyName /\ l.first < RepeatDelay)
  <2>1. lirc' = [l EXCEPT !.LastKeyName = key, !.repeat = FALSE, !.first = 0, !.last = 0,
                          !.timed = FALSE, !.waited = 0]
    BY <1>3 DEF Keys!NewKey
  <2>2. down' = IF l.repeat = TRUE THEN down \ {l.LastKeyName} ELSE down
    BY <1>1, <1>3 DEF Keys!NewKey, Timely, LircFields
  <2>3. remote.missed = FALSE => down' = {}
    BY <1>1, <2>2 DEF HeldAlone
  <2>4. l \in LircFields /\ key \in LircKeys
    BY <1>1 DEF Timely
  <2>5. lirc' \in LircFields
    BY ONLY <2>1, <2>4 DEF LircFields
  <2>6. lirc'.LastKeyName = key /\ lirc'.repeat = FALSE /\ lirc'.first = 0 /\ lirc'.last = 0
    BY ONLY <2>1, <2>4 DEF LircFields
  <2>7. Timely(lirc')
    BY <2>5, <2>6, KeysAssumption DEF Timely
  <2> QED
    BY <2>3, <2>6, <2>7 DEF HeldAlone
<1>4. CASE Keys!RepeatedKey(key) /\ (remote.missed = FALSE => key = l.LastKeyName)
  <2>1. CASE l.last < 1
    <3>1. lirc' = [l EXCEPT !.waited = 0] /\ down' = down
      BY <1>4, <2>1 DEF Keys!RepeatedKey, Keys!REPEATFREQ
    <3> QED
      BY <1>1, <1>4, <2>1, <3>1, KeysAssumption DEF Timely, LircFields, HeldAlone
  <2>2. CASE ~(l.last < 1) /\ l.first < RepeatDelay
    <3> PICK t : t = IF l.repeat_emu THEN 0 ELSE l.last
      OBVIOUS
    <3>1. lirc' = [l EXCEPT !.last = t, !.waited = 0] /\ down' = down
      BY <1>4, <2>2 DEF Keys!RepeatedKey, Keys!REPEATFREQ
    <3>2. t \in Nat /\ t <= l.last /\ t < RepeatTimeout
      BY <1>1, <2>2, KeysAssumption DEF Timely, LircFields
    <3>3. l \in LircFields
      BY <1>1 DEF Timely
    <3>4. lirc' \in LircFields
      BY ONLY <3>1, <3>2, <3>3 DEF LircFields
    <3>5. lirc'.LastKeyName = l.LastKeyName /\ lirc'.repeat = l.repeat /\ lirc'.first = l.first
          /\ lirc'.last = t
      BY ONLY <3>1, <3>3 DEF LircFields
    <3>6. Timely(lirc')
      BY <1>1, <3>2, <3>3, <3>4, <3>5 DEF Timely, LircFields
    <3> QED
      BY <1>1, <1>4, <3>1, <3>2, <3>5, <3>6 DEF HeldAlone
  <2>3. CASE ~(l.last < 1) /\ ~(l.first < RepeatDelay)
    <3>1. lirc' = [l EXCEPT !.repeat = TRUE, !.timed = TRUE, !.last = 0, !.waited = 0]
          /\ down' = Keys!AllIn(key)
      BY <1>4, <2>3 DEF Keys!RepeatedKey, Keys!REPEATFREQ
    <3>2. down' = down \/ down' = down \cup {key}
      BY <3>1 DEF Keys!AllIn
    <3>5. l \in LircFields
      BY <1>1 DEF Timely
    <3>6. lirc' \in LircFields
      BY ONLY <3>1, <3>5 DEF LircFields
    <3>7. lirc'.LastKeyName = l.LastKeyName /\ lirc'.repeat = TRUE /\ lirc'.first = l.first /\ lirc'.last = 0
      BY ONLY <3>1, <3>5 DEF LircFields
    <3>3. Timely(lirc') /\ lirc'.LastKeyName = l.LastKeyName /\ lirc'.repeat = TRUE /\ lirc'.last = 0
      BY <1>1, <3>5, <3>6, <3>7 DEF Timely, LircFields
    <3>4. remote.missed = FALSE => HeldAlone(lirc', down')
      BY <1>1, <1>4, <3>2, <3>3 DEF HeldAlone
    <3> QED
      BY <1>4, <3>3, <3>4, KeysAssumption
  <2> QED
    BY <2>1, <2>2, <2>3
<1>5. Keys!NewKey(key) \/ (Keys!RepeatedKey(key) /\ (count # 0 \/ key = l.LastKeyName))
  BY DEF Keys!LircLine, Keys!Counted
<1> QED
  BY <1>2, <1>3, <1>4, <1>5

LEMMA PressKeeps == ASSUME KeysInv, Keys!PressKey PROVE KeysInv'
<1> PICK key \in LircKeys : remote' = [remote EXCEPT !.key = key, !.count = 0] /\ Keys!LircLine(key, 0)
  BY DEF Keys!PressKey
<1>1. remote \in RemoteFields
  BY DEF KeysInv, KeysSound
<1>2. remote' \in RemoteFields /\ remote'.key = key /\ remote'.missed = remote.missed
  BY <1>1 DEF RemoteFields
<1>3. /\ Timely(lirc')
      /\ remote.missed = FALSE =>
           /\ lirc'.LastKeyName = key
           /\ lirc'.repeat = TRUE => lirc'.last < RepeatTimeout
           /\ HeldAlone(lirc', down')
  BY LineKeeps
<1>4. KeysSound(lirc', remote', down')
  BY <1>2, <1>3 DEF KeysSound, FollowsHeld
<1> QED
  BY <1>4, KeysPrimed

LEMMA HoldKeeps == ASSUME KeysInv, Keys!HoldKey PROVE KeysInv'
<1> PICK count : /\ count = IF lirc.repeat_emu THEN 0
                            ELSE IF remote.count < MaxCount THEN remote.count + 1 ELSE MaxCount
  OBVIOUS
<1> PICK key : key = remote.key
  OBVIOUS
<1>1. remote' = [remote EXCEPT !.count = count] /\ Keys!LircLine(key, count)
  BY DEF Keys!HoldKey
<1>2. remote \in RemoteFields /\ key \in LircKeys
  BY DEF KeysInv, KeysSound, RemoteFields, Keys!HoldKey
<1>3. count \in Nat
  BY <1>2, KeysAssumption DEF RemoteFields
<1>4. remote.missed = FALSE => key = lirc.LastKeyName
  BY <1>2 DEF KeysInv, KeysSound, FollowsHeld, Keys!HoldKey
<1>5. remote' \in RemoteFields /\ remote'.key = key /\ remote'.missed = remote.missed
  BY <1>1, <1>2, <1>3 DEF RemoteFields
<1>6. /\ Timely(lirc')
      /\ remote.missed = FALSE =>
           /\ lirc'.LastKeyName = key
           /\ lirc'.repeat = TRUE => lirc'.last < RepeatTimeout
           /\ HeldAlone(lirc', down')
  BY <1>1, <1>2, <1>3, <1>4, LineKeeps DEF RemoteFields
<1>7. KeysSound(lirc', remote', down')
  BY <1>5, <1>6 DEF KeysSound, FollowsHeld
<1> QED
  BY <1>7, KeysPrimed

LEMMA LetGoKeeps == ASSUME KeysInv, Keys!LetGo \/ Keys!Reconnected \/ Keys!LircEnds PROVE KeysInv'
<1> PICK l : l = lirc
  OBVIOUS
<1> PICK r : r = remote
  OBVIOUS
<1>1. Timely(l) /\ r \in RemoteFields /\ (r.missed = FALSE => FollowsHeld(l, r) /\ HeldAlone(l, down))
  BY DEF KeysInv, KeysSound
<1>2. CASE Keys!LetGo
  <2>1. remote' = [r EXCEPT !.key = Keys!NoKey, !.count = 0] /\ lirc' = l /\ down' = down
    BY <1>2 DEF Keys!LetGo
  <2>2. remote' \in RemoteFields /\ remote'.key = Keys!NoKey /\ remote'.missed = r.missed
    BY <1>1, <2>1 DEF RemoteFields
  <2> QED
    BY <1>1, <2>1, <2>2, KeysPrimed DEF KeysSound, FollowsHeld
<1>3. CASE Keys!Reconnected
  <2> PICK key \in LircKeys \cup {Keys!NoKey} :
         remote' = [key |-> key, count |-> 0, missed |-> key # Keys!NoKey \/ remote.missed]
    BY <1>3 DEF Keys!Reconnected
  <2>1. lirc' = [l EXCEPT !.waited = 0] /\ down' = down
    BY <1>3 DEF Keys!Reconnected
  <2>2. remote' \in RemoteFields /\ (remote'.missed = FALSE => remote'.key = Keys!NoKey /\ r.missed = FALSE)
    BY <1>1 DEF RemoteFields
  <2>3. Timely(lirc') /\ (HeldAlone(l, down) => HeldAlone(lirc', down'))
    BY <1>1, <2>1 DEF Timely, LircFields, HeldAlone
  <2>4. KeysSound(lirc', remote', down')
    BY <1>1, <2>2, <2>3 DEF KeysSound, FollowsHeld
  <2> QED
    BY <2>4, KeysPrimed
<1>4. CASE Keys!LircEnds
  <2>1. lirc' = [l EXCEPT !.running = FALSE] /\ down' = {} /\ remote' = r
    BY <1>4 DEF Keys!LircEnds
  <2>2. Timely(lirc') /\ lirc'.LastKeyName = l.LastKeyName /\ lirc'.repeat = l.repeat /\ lirc'.last = l.last
    BY <1>1, <2>1 DEF Timely, LircFields
  <2>3. KeysSound(lirc', remote', down')
    BY <1>1, <2>1, <2>2 DEF KeysSound, FollowsHeld, HeldAlone
  <2> QED
    BY <2>3, KeysPrimed
<1> QED
  BY <1>2, <1>3, <1>4

LEMMA TimersKeep == ASSUME KeysInv, Keys!InTimers PROVE KeysInv'
<1> PICK l : l = lirc
  OBVIOUS
<1> PICK r : r = remote
  OBVIOUS
<1>1. Timely(l) /\ r \in RemoteFields /\ (r.missed = FALSE => FollowsHeld(l, r) /\ HeldAlone(l, down))
  BY DEF KeysInv, KeysSound
<1>2. CASE Keys!SelectTimeout /\ l.repeat = TRUE /\ l.last >= RepeatTimeout
  <2>1. lirc' = [l EXCEPT !.repeat = FALSE, !.LastKeyName = Keys!NoKey, !.timed = FALSE, !.waited = 0]
        /\ down' = down \ {l.LastKeyName} /\ remote' = r
    BY <1>2 DEF Keys!SelectTimeout
  <2>2. r.missed = FALSE => r.key = Keys!NoKey /\ down' = {}
    BY <1>1, <1>2, <2>1, KeysAssumption DEF FollowsHeld, HeldAlone, Timely, LircFields
  <2>3. Timely(lirc')
    BY <1>1, <2>1 DEF Timely, LircFields
  <2>4. KeysSound(lirc', remote', down')
    BY <1>1, <2>1, <2>2, <2>3 DEF KeysSound, FollowsHeld, HeldAlone
  <2> QED
    BY <2>4, KeysPrimed
<1>3. CASE Keys!SelectTimeout /\ ~(l.repeat = TRUE /\ l.last >= RepeatTimeout)
  <2>1. lirc' = [l EXCEPT !.waited = 0] /\ down' = down /\ remote' = r
    BY <1>1, <1>3 DEF Keys!SelectTimeout, Timely, LircFields
  <2>2. Timely(lirc') /\ lirc'.LastKeyName = l.LastKeyName /\ lirc'.repeat = l.repeat /\ lirc'.last = l.last
    BY <1>1, <2>1 DEF Timely, LircFields
  <2>3. KeysSound(lirc', remote', down')
    BY <1>1, <2>1, <2>2 DEF KeysSound, FollowsHeld, HeldAlone
  <2> QED
    BY <2>3, KeysPrimed
<1>4. CASE Keys!UnitPasses
  <2> PICK f : f = Keys!Later(l.first)
    OBVIOUS
  <2> PICK t : t = Keys!Later(l.last)
    OBVIOUS
  <2> PICK w : w = IF l.timed THEN Keys!Later(l.waited) ELSE 0
    OBVIOUS
  <2>1. lirc' = [l EXCEPT !.first = f, !.last = t, !.waited = w] /\ down' = down /\ remote' = r
    BY <1>4 DEF Keys!UnitPasses
  <2>2. f \in Nat /\ t \in Nat /\ w \in Nat /\ t <= f /\ f <= RepeatTimeout /\ t <= l.last + 1
    BY <1>1, KeysAssumption DEF Timely, LircFields, Keys!Later, Keys!LongAgo
  <2>3. Timely(lirc') /\ lirc'.LastKeyName = l.LastKeyName /\ lirc'.repeat = l.repeat /\ lirc'.last = t
    BY <1>1, <2>1, <2>2 DEF Timely, LircFields
  <2>4. l.repeat = TRUE /\ r.key # Keys!NoKey => l.last < RepeatTimeout - 1
    BY <1>4 DEF Keys!UnitPasses
  <2>5. l.repeat = TRUE /\ r.key # Keys!NoKey => t < RepeatTimeout
    BY <1>1, <2>2, <2>4, KeysAssumption DEF Timely, LircFields
  <2>6. KeysSound(lirc', remote', down')
    BY <1>1, <2>1, <2>3, <2>5 DEF KeysSound, FollowsHeld, HeldAlone
  <2> QED
    BY <2>6, KeysPrimed
<1> QED
  BY <1>2, <1>3, <1>4 DEF Keys!InTimers

LEMMA KeysInvInit == Keys!InInit => KeysInv
<1> SUFFICES ASSUME Keys!InInit PROVE KeysInv
  OBVIOUS
<1>1. lirc \in LircFields /\ lirc.first = 0 /\ lirc.last = 0
  <2> PICK b \in BOOLEAN, g \in BOOLEAN :
         lirc = [running |-> TRUE, LastKeyName |-> Keys!NoKey, repeat |-> FALSE, first |-> 0,
                 last |-> 0, timed |-> FALSE, waited |-> 0, repeat_emu |-> b, gui_hotkeys |-> g]
    <3>1. lirc \in [running : {TRUE}, LastKeyName : {Keys!NoKey}, repeat : {FALSE}, first : {0},
                    last : {0}, timed : {FALSE}, waited : {0}, repeat_emu : BOOLEAN,
                    gui_hotkeys : BOOLEAN]
      BY DEF Keys!InInit
    <3> QED
      BY ONLY <3>1
  <2> QED
    BY DEF LircFields
<1>2. remote \in RemoteFields /\ remote.key = Keys!NoKey /\ down = {}
  BY DEF Keys!InInit, RemoteFields
<1> QED
  BY <1>1, <1>2, KeysAssumption DEF KeysInv, KeysSound, Timely, FollowsHeld, HeldAlone

LEMMA KeysInvNext == ASSUME KeysInv, [Next]_vars PROVE KeysInv'
<1>1. CASE Keys!PressKey \/ Keys!HoldKey \/ Keys!LetGo \/ Keys!Reconnected \/ Keys!LircEnds
           \/ Keys!SelectTimeout \/ Keys!UnitPasses
  BY <1>1, PressKeeps, HoldKeeps, LetGoKeeps, TimersKeep DEF Keys!InTimers
<1>2. CASE UNCHANGED <<lirc, remote, down>>
  BY <1>2 DEF KeysInv
<1>3. CASE Keys!KbdReads \/ Keys!CecState \/ Keys!CecFails \/ Keys!CecKeypress \/ Keys!InputStopped
  BY <1>2, <1>3 DEF Keys!KbdReads, Keys!CecState, Keys!CecFails, Keys!CecKeypress, Keys!InputStopped, Keys!inVars
<1>4. CASE Keys!InNext
  BY <1>1, <1>3, <1>4 DEF Keys!InNext
<1> QED
  BY <1>2, <1>4 DEF Next, Step, OthersStay, Stopped, vars, keysVars

LEMMA KeysInvOneKey == KeysInv => Keys!OneKeyHeld
BY DEF KeysInv, KeysSound, HeldAlone, Timely, LircFields, RemoteFields, Keys!OneKeyHeld

-----------------------------------------------------------------------------
(* The last frame of the stream (xvdr_metronom.c, xine_frontend_main.c):   *)
(* MtrInv adds that no frame of the main stream waits for output while the *)
(* client has no metronom, and that the output hook knows that stream once *)
(* it has seen it.                                                         *)

Frames == [stream : {"main", "slave"}, pts : Nat, timed : Nat]
MtrFields == [metronom : Nat, made : Nat, trickspeed : BOOLEAN, still_mode : BOOLEAN, last_vo_pts : Nat]
HookFields == [prev_stream : {"main", "slave", "none"}, xvdr_stream : {"main", "none"}, xvdr_metronom : Nat]

\* Frames of the main stream are under way only while it has the client's metronom.
QueueFits(q, m) == q \in Seq(Frames) /\ (m.metronom = 0 => \A i \in 1 .. Len(q) : q[i].stream # "main")
\* The hook knows the stream of the client's metronom when it has seen it last.
HookKnows(h) == h \in HookFields /\ (h.prev_stream = "main" => h.xvdr_stream = "main")
MtrSound(m, h, q, n) ==
  /\ m \in MtrFields /\ HookKnows(h) /\ QueueFits(q, m) /\ n \in Nat
  /\ m.metronom # 0 => m.last_vo_pts = n
MtrInv == MtrSound(mtr, hook, video.queue, video.shown) /\ video = [queue |-> video.queue, shown |-> video.shown]

LEMMA MtrPrimed ==
  ASSUME NEW m, NEW h, NEW q, NEW n, MtrSound(m, h, q, n),
         mtr' = m, hook' = h, video' = [queue |-> q, shown |-> n]
  PROVE  MtrInv'
<1>1. video'.queue = q /\ video'.shown = n
  OBVIOUS
<1> QED
  BY <1>1 DEF MtrInv

LEMMA MetronomInitKeeps == ASSUME MtrInv, Mtr!MetronomInit PROVE MtrInv'
<1> PICK q : q = video.queue
  OBVIOUS
<1> PICK n : n = mtr.made + 1
  OBVIOUS
<1> PICK m : m = [metronom |-> n, made |-> n, trickspeed |-> FALSE, still_mode |-> FALSE, last_vo_pts |-> 0]
  OBVIOUS
<1>1. mtr' = m /\ hook' = hook /\ video' = [queue |-> q, shown |-> 0] /\ mtr.metronom = 0
  BY DEF Mtr!MetronomInit, MtrInv, Mtr!Original
<1>2. n \in Nat /\ n # 0
  BY DEF MtrInv, MtrSound, MtrFields
<1>3. m \in MtrFields /\ m.metronom = n /\ m.last_vo_pts = 0
  BY <1>2 DEF MtrFields
<1>4. MtrSound(m, hook, q, 0)
  BY <1>2, <1>3 DEF MtrInv, MtrSound, QueueFits
<1> QED
  BY <1>1, <1>4, MtrPrimed

LEMMA MetronomDisposeKeeps == ASSUME MtrInv, Mtr!MetronomDispose PROVE MtrInv'
<1> PICK q : q = video.queue
  OBVIOUS
<1> PICK shownPts : shownPts = video.shown
  OBVIOUS
<1> PICK n \in 0 .. Len(video.queue) : \E from \in [1 .. n -> Mtr!SlaveFrames] :
         /\ \A i, j \in 1 .. n : i < j => from[i] < from[j]
         /\ \A k \in Mtr!SlaveFrames : \E i \in 1 .. n : from[i] = k
         /\ video' = [video EXCEPT !.queue = [i \in 1 .. n |-> video.queue[from[i]]]]
  BY DEF Mtr!MetronomDispose
<1> PICK from \in [1 .. n -> Mtr!SlaveFrames] :
         video' = [video EXCEPT !.queue = [i \in 1 .. n |-> video.queue[from[i]]]]
  OBVIOUS
<1> PICK r : r = [i \in 1 .. n |-> q[from[i]]]
  OBVIOUS
<1> PICK m : m = [mtr EXCEPT !.metronom = 0]
  OBVIOUS
<1>0. video = [queue |-> q, shown |-> shownPts]
  BY DEF MtrInv
<1>1. mtr' = m /\ hook' = hook /\ video' = [queue |-> r, shown |-> shownPts]
  <2>1. mtr' = m /\ hook' = hook
    BY DEF Mtr!MetronomDispose, Mtr!Original
  <2>2. video' = [video EXCEPT !.queue = r]
    OBVIOUS
  <2> QED
    BY ONLY <1>0, <2>1, <2>2
<1>2. m \in MtrFields /\ m.metronom = 0
  BY DEF MtrInv, MtrSound, MtrFields
<1>3. q \in Seq(Frames) /\ n \in Nat
  BY DEF MtrInv, MtrSound, QueueFits
<1>4. \A i \in 1 .. n : r[i] \in Frames /\ r[i].stream # "main"
  BY SMTT(30), <1>3 DEF Mtr!SlaveFrames
<1>5. r \in Seq(Frames) /\ Len(r) = n
  <2>1. r \in [1 .. n -> Frames]
    BY <1>4
  <2> QED
    BY ONLY <1>3, <2>1
<1>6. MtrSound(m, hook, r, shownPts)
  BY <1>2, <1>4, <1>5 DEF MtrInv, MtrSound, QueueFits
<1> QED
  BY <1>1, <1>6, MtrPrimed

LEMMA MetronomOptionKeeps == ASSUME MtrInv, Mtr!MetronomOption PROVE MtrInv'
<1> PICK on \in BOOLEAN : /\ mtr' \in {[mtr EXCEPT !.still_mode = on], [mtr EXCEPT !.trickspeed = on]}
                          /\ UNCHANGED <<hook, video>>
  BY DEF Mtr!MetronomOption, Mtr!SetStillMode, Mtr!SetTrickSpeed
<1>1. mtr' \in MtrFields /\ mtr'.metronom = mtr.metronom /\ mtr'.last_vo_pts = mtr.last_vo_pts
  BY DEF MtrInv, MtrSound, MtrFields
<1>2. MtrSound(mtr', hook', video'.queue, video'.shown)
  BY <1>1 DEF MtrInv, MtrSound, QueueFits
<1> QED
  BY <1>2 DEF MtrInv

LEMMA FrameDecodedKeeps == ASSUME MtrInv, Mtr!FrameDecoded PROVE MtrInv'
<1> PICK q : q = video.queue
  OBVIOUS
<1> PICK shownPts : shownPts = video.shown
  OBVIOUS
<1> PICK frame : /\ video' = [video EXCEPT !.queue = Append(q, frame)]
                 /\ \/ mtr.metronom # 0 /\ \E pts \in FramePts : frame = Mtr!GotVideoFrame(pts)
                    \/ \E pts \in FramePts : frame = [stream |-> "slave", pts |-> pts, timed |-> pts]
  BY DEF Mtr!FrameDecoded, Mtr!Original
<1>1. frame \in Frames /\ (mtr.metronom = 0 => frame.stream # "main")
  BY MetronomAssumption DEF Mtr!GotVideoFrame, Mtr!Timed, Frames
<1> PICK r : r = Append(q, frame)
  OBVIOUS
<1>2. mtr' = mtr /\ hook' = hook /\ video' = [queue |-> r, shown |-> shownPts]
  BY DEF Mtr!FrameDecoded, MtrInv
<1>3. QueueFits(r, mtr)
  BY <1>1 DEF MtrInv, MtrSound, QueueFits
<1>4. MtrSound(mtr, hook, r, shownPts)
  BY <1>3 DEF MtrInv, MtrSound
<1> QED
  BY <1>2, <1>4, MtrPrimed

\* What the hook knows when it has seen a frame: of the main stream's, today's metronom.
LEMMA DetectedFacts ==
  ASSUME MtrInv, NEW stream \in {"main", "slave"}, stream = "main" => mtr.metronom # 0,
         NEW h, h = Mtr!Detected(stream)
  PROVE  /\ HookKnows(h)
         /\ stream = "main" => h.xvdr_stream = "main" /\ h.xvdr_metronom = mtr.metronom
<1> PICK g : g = hook
  OBVIOUS
<1> PICK m : m = mtr.metronom
  OBVIOUS
<1>1. g \in HookFields /\ m \in Nat /\ (g.prev_stream = "main" => g.xvdr_stream = "main")
  BY DEF MtrInv, MtrSound, HookKnows, MtrFields
<1>2. CASE stream = "slave"
  <2> PICK c : c = IF stream # g.prev_stream THEN [g EXCEPT !.prev_stream = stream] ELSE g
    OBVIOUS
  <2>1. Mtr!StreamMetronom(mtr, stream) = 0
    BY <1>2 DEF Mtr!StreamMetronom, Mtr!Original
  <2>2. c \in HookFields /\ c.prev_stream = "slave"
    BY <1>1, <1>2 DEF HookFields
  <2>3. h = c
    BY <1>2, <2>1, <2>2 DEF Mtr!Detected, Mtr!Detect, Mtr!Original, HookFields
  <2> QED
    BY <1>2, <2>2, <2>3 DEF HookKnows
<1>3. CASE stream = "main"
  <2>1. Mtr!StreamMetronom(mtr, stream) = m /\ m # 0
    BY <1>3 DEF Mtr!StreamMetronom
  <2>2. CASE g.prev_stream # "main"
    <3> PICK p : p = [g EXCEPT !.prev_stream = "main"]
      OBVIOUS
    <3> PICK c : c = [p EXCEPT !.xvdr_metronom = m, !.xvdr_stream = "main"]
      OBVIOUS
    <3>1. p \in HookFields /\ p.prev_stream = "main"
      BY <1>1 DEF HookFields
    <3>2. c \in HookFields /\ c.xvdr_stream = "main" /\ c.xvdr_metronom = m
      BY <1>1, <3>1, <2>1 DEF HookFields
    <3>3. h = c
      BY <1>3, <2>1, <2>2, <3>2 DEF Mtr!Detected, Mtr!Detect, Mtr!Original
    <3> QED
      BY <3>2, <3>3 DEF HookKnows
  <2>3. CASE g.prev_stream = "main" /\ g.xvdr_metronom # m
    <3> PICK p : p = [g EXCEPT !.xvdr_metronom = 0]
      OBVIOUS
    <3> PICK c : c = [p EXCEPT !.xvdr_metronom = m, !.xvdr_stream = "main"]
      OBVIOUS
    <3>1. p \in HookFields
      BY <1>1 DEF HookFields
    <3>2. c \in HookFields /\ c.xvdr_stream = "main" /\ c.xvdr_metronom = m
      BY <1>1, <3>1, <2>1 DEF HookFields
    <3>3. h = c
      BY <1>1, <1>3, <2>1, <2>3 DEF Mtr!Detected, Mtr!Detect, Mtr!Original
    <3> QED
      BY <3>2, <3>3 DEF HookKnows
  <2>4. CASE g.prev_stream = "main" /\ g.xvdr_metronom = m
    <3>1. h = g
      BY <1>1, <1>3, <2>1, <2>4 DEF Mtr!Detected
    <3> QED
      BY <1>1, <2>4, <3>1 DEF HookKnows
  <2> QED
    BY <2>2, <2>3, <2>4
<1> QED
  BY <1>2, <1>3

LEMMA FrameShownKeeps == ASSUME MtrInv, Mtr!FrameShown PROVE MtrInv'
<1> PICK q : q = video.queue
  OBVIOUS
<1> PICK frame : frame = Head(q)
  OBVIOUS
<1> PICK h : h = Mtr!Detected(frame.stream)
  OBVIOUS
<1>1. q \in Seq(Frames) /\ q # <<>> /\ (mtr.metronom = 0 => \A i \in 1 .. Len(q) : q[i].stream # "main")
  BY DEF MtrInv, MtrSound, QueueFits, Mtr!FrameShown
<1>2. frame \in Frames /\ (frame.stream = "main" => mtr.metronom # 0)
  BY <1>1
<1>3. frame.stream \in {"main", "slave"} /\ frame.pts \in Nat
  BY <1>2 DEF Frames
<1>4. /\ HookKnows(h)
      /\ frame.stream = "main" => h.xvdr_stream = "main" /\ h.xvdr_metronom = mtr.metronom
  BY <1>2, <1>3, DetectedFacts
<1> PICK n : n = IF frame.stream = "main" /\ frame.pts > 0 /\ mtr.metronom # 0 THEN frame.pts ELSE video.shown
  OBVIOUS
<1> PICK k : k = IF frame.pts > 0 THEN h ELSE hook
  OBVIOUS
<1> DEFINE told == /\ frame.pts > 0 /\ frame.stream = h.xvdr_stream /\ h.xvdr_metronom # 0
                   /\ h.xvdr_metronom = mtr.metronom
<1> PICK m : m = IF told THEN [mtr EXCEPT !.last_vo_pts = frame.pts] ELSE mtr
  OBVIOUS
<1>5. mtr' = m /\ hook' = k /\ video' = [queue |-> Tail(q), shown |-> n]
  BY DEF Mtr!FrameShown, Mtr!Original
<1>6. HookKnows(k)
  BY <1>4 DEF MtrInv, MtrSound
<1>7. mtr \in MtrFields /\ (mtr.metronom # 0 => mtr.last_vo_pts = video.shown) /\ video.shown \in Nat
  BY DEF MtrInv, MtrSound
<1>8. m \in MtrFields /\ m.metronom = mtr.metronom
      /\ m.last_vo_pts = IF told THEN frame.pts ELSE mtr.last_vo_pts
  BY <1>3, <1>7 DEF MtrFields
<1>9. told <=> frame.stream = "main" /\ frame.pts > 0 /\ mtr.metronom # 0
  BY <1>2, <1>3, <1>4 DEF HookKnows, HookFields
<1>10. m.metronom # 0 => m.last_vo_pts = n
  BY <1>7, <1>8, <1>9
<1>11. QueueFits(Tail(q), m)
  BY <1>1, <1>8 DEF QueueFits
<1>12. n \in Nat
  BY <1>3, <1>7
<1> HIDE DEF told
<1> PICK r : r = Tail(q)
  OBVIOUS
<1>13. MtrSound(m, k, r, n)
  BY <1>6, <1>8, <1>10, <1>11, <1>12 DEF MtrSound
<1> QED
  BY <1>5, <1>13, MtrPrimed

LEMMA MtrInvInit == Mtr!MtrInit => MtrInv
<1> SUFFICES ASSUME Mtr!MtrInit PROVE MtrInv
  OBVIOUS
<1>1. mtr \in MtrFields /\ mtr.metronom = 0
  BY DEF Mtr!MtrInit, MtrFields, Mtr!Original
<1>2. HookKnows(hook)
  BY DEF Mtr!MtrInit, HookKnows, HookFields, Mtr!Original, Mtr!NoStream
<1>3. video.queue = <<>> /\ video.shown = 0 /\ video = [queue |-> video.queue, shown |-> video.shown]
  BY DEF Mtr!MtrInit
<1> QED
  BY <1>1, <1>2, <1>3 DEF MtrInv, MtrSound, QueueFits

LEMMA MtrInvNext == ASSUME MtrInv, [Next]_vars PROVE MtrInv'
<1>1. CASE Mtr!MtrNext
  BY <1>1, MetronomInitKeeps, MetronomDisposeKeeps, MetronomOptionKeeps, FrameDecodedKeeps, FrameShownKeeps
     DEF Mtr!MtrNext
<1>2. CASE UNCHANGED mtrVars
  BY <1>2 DEF MtrInv, mtrVars
<1> QED
  BY <1>1, <1>2 DEF Next, Step, OthersStay, Stopped, vars

LEMMA MtrInvLastPts == MtrInv => Mtr!LastPtsCurrent
BY DEF MtrInv, MtrSound, Mtr!LastPtsCurrent, Mtr!Original

-----------------------------------------------------------------------------
(* The transport of a connection (xine_input_vdr.c, frontend_svr.c):       *)
(* NetInv names, for every stage of the client's fall-back from pipe to RTP,*)
(* UDP and TCP, the requests and answers that can be under way; what is    *)
(* left of a transport the client has given up cannot move the server away *)
(* from the one it plays.                                                  *)

Ways == {"pipe", "rtp", "udp", "tcp"}
Asks == {"PIPE", "PIPE OPEN", "RTP", "UDP"}
Replies == {"PIPE /", "PIPE OK", "RTP", "UDP OK", "disabled"}
Stages == {"idle", "pipe", "pipe open", "rtp", "rtp data", "udp", "udp data", "tcp", "ready", "run"}
Peers == [at : Stages, tries : Nat, data : Ways \cup {"none"}, running : BOOLEAN, slave : BOOLEAN]
Wires == [up : Seq(Asks), down : Seq(Replies),
          data : {"none", "asked", "DATA", "disabled", "closed", "used"}]
SlotStates == [open : BOOLEAN, via : Ways \cup {"none"}, pipe : BOOLEAN, can : SUBSET Ways]

Only(s, S) == \A i \in 1 .. Len(s) : s[i] \in S
\* UDP is asked for after the other transports.
UdpLast(s) == \A i, j \in 1 .. Len(s) : i < j /\ s[i] = "UDP" => s[j] = "UDP"

\* What the server does is possible, and over UDP nothing else is asked of it.
Possible(v, up) ==
  /\ v.pipe = TRUE => v.via = "none"
  /\ v.via = "rtp" => "rtp" \in v.can
  /\ v.via = "udp" => "udp" \in v.can /\ Only(up, {"UDP"})

\* Each stage of the fall-back has its own requests and answers under way.
Stage(c, w, v) ==
  /\ c.at = "pipe" => /\ (w.up = <<"PIPE">> /\ w.down = <<>>) \/ w.up = <<>>
                      /\ Only(w.down, {"PIPE /", "disabled"}) /\ v.via = "none"
  /\ c.at = "pipe open" => /\ w.up = <<"PIPE OPEN">> \/ w.up = <<>>
                           /\ Only(w.down, {"PIPE /", "disabled"}) \/ v.via = "pipe"
  /\ c.at \in {"rtp", "rtp data"} => Only(w.up, {"RTP"}) /\ v.via # "udp"
  /\ c.at \in {"pipe", "pipe open", "rtp", "rtp data", "udp", "udp data"} => w.data = "none"
  /\ w.data = "DATA" => w.up = <<>> /\ v.via = "tcp" /\ v.pipe = FALSE

\* A client that plays is served, and what is still asked for is what it has.
Plays(c, w, v) ==
  c.at \in {"ready", "run"} =>
    /\ w.data \in {"none", "used"} /\ v.via = c.data
    /\ \/ c.data = "pipe" /\ Only(w.up, {"PIPE OPEN"})
       \/ c.data = "rtp" /\ Only(w.up, {"RTP"})
       \/ c.data = "udp" /\ Only(w.up, {"UDP"})
       \/ c.data = "tcp" /\ w.up = <<>>

Linked(c, w, v) == Possible(v, w.up) /\ UdpLast(w.up) /\ Stage(c, w, v) /\ Plays(c, w, v)
NetSound(c, w, v) ==
  /\ c \in Peers /\ w \in Wires /\ v \in SlotStates
  /\ c.at # "idle" /\ v.open = TRUE => Linked(c, w, v)
NetInv == NetSound(cli, wire, srv)

LEMMA NetPrimed ==
  ASSUME NEW c, NEW w, NEW v, NetSound(c, w, v), cli' = c, wire' = w, srv' = v
  PROVE  NetInv'
BY DEF NetInv

LEMMA TailFacts ==
  ASSUME NEW A, NEW s \in Seq(A), s # <<>>
  PROVE  /\ Tail(s) \in Seq(A) /\ Head(s) \in A
         /\ \A S : Only(s, S) => Only(Tail(s), S) /\ Head(s) \in S
         /\ UdpLast(s) => UdpLast(Tail(s)) /\ (Head(s) = "UDP" => Only(Tail(s), {"UDP"}))
<1> PICK t : t = Tail(s)
  OBVIOUS
<1>1. t \in Seq(A) /\ Len(t) = Len(s) - 1 /\ Len(s) \in Nat \ {0} /\ Head(s) = s[1]
      /\ \A i \in 1 .. Len(t) : t[i] = s[i + 1] /\ i + 1 \in 1 .. Len(s)
  OBVIOUS
<1>2. 1 \in 1 .. Len(s) /\ s[1] \in A
  BY <1>1
<1>3. \A S : Only(s, S) => Only(t, S) /\ Head(s) \in S
  BY <1>1, <1>2 DEF Only
<1>4. UdpLast(s) => UdpLast(t)
  BY <1>1 DEF UdpLast
<1>5. UdpLast(s) /\ Head(s) = "UDP" => Only(t, {"UDP"})
  BY <1>1, <1>2 DEF UdpLast, Only
<1> QED
  BY <1>1, <1>2, <1>3, <1>4, <1>5

LEMMA AppendFacts ==
  ASSUME NEW A, NEW s \in Seq(A), NEW x \in A
  PROVE  /\ Append(s, x) \in Seq(A)
         /\ \A S : Only(s, S) /\ x \in S => Only(Append(s, x), S)
         /\ UdpLast(s) /\ (x = "UDP" \/ \E S : "UDP" \notin S /\ Only(s, S)) => UdpLast(Append(s, x))
<1> PICK t : t = Append(s, x)
  OBVIOUS
<1>1. t \in Seq(A) /\ Len(t) = Len(s) + 1 /\ t[Len(t)] = x /\ Len(s) \in Nat
      /\ \A i \in 1 .. Len(t) : i # Len(t) => t[i] = s[i] /\ i \in 1 .. Len(s)
  OBVIOUS
<1>2. \A S : Only(s, S) /\ x \in S => Only(t, S)
  BY <1>1 DEF Only
<1>3. UdpLast(s) /\ (x = "UDP" \/ \E S : "UDP" \notin S /\ Only(s, S)) => UdpLast(t)
  <2> SUFFICES ASSUME UdpLast(s), x = "UDP" \/ \E S : "UDP" \notin S /\ Only(s, S),
                      NEW i \in 1 .. Len(t), NEW j \in 1 .. Len(t), i < j, t[i] = "UDP"
               PROVE  t[j] = "UDP"
    BY DEF UdpLast
  <2>1. i \in 1 .. Len(s) /\ s[i] = "UDP"
    BY <1>1
  <2>2. CASE x = "UDP"
    BY <1>1, <2>1, <2>2 DEF UdpLast
  <2>3. CASE \E S : "UDP" \notin S /\ Only(s, S)
    BY <2>1, <2>3 DEF Only
  <2> QED
    BY <2>2, <2>3
<1> QED
  BY <1>1, <1>2, <1>3

LEMMA NoneLeft ==
  \A S : Only(<<>>, S) /\ UdpLast(<<>>)
BY DEF Only, UdpLast

LEMMA OneLeft ==
  ASSUME NEW x
  PROVE  /\ UdpLast(<<x>>) /\ \A S : x \in S <=> Only(<<x>>, S)
         /\ Tail(<<x>>) = <<>> /\ Head(<<x>>) = x /\ Append(<<>>, x) = <<x>>
BY DEF Only, UdpLast
-----------------------------------------------------------------------------
(* The server's steps.                                                      *)

LEMMA ServerLineKeeps == ASSUME NetInv, Net!ServerHandlesLine PROVE NetInv'
<1> PICK c : c = cli
  OBVIOUS
<1> PICK w : w = wire
  OBVIOUS
<1> PICK v : v = srv
  OBVIOUS
<1> PICK r : r = Head(w.up)
  OBVIOUS
<1> PICK u : u = Tail(w.up)
  OBVIOUS
<1>1. c \in Peers /\ w \in Wires /\ v \in SlotStates /\ (c.at # "idle" => Linked(c, w, v))
      /\ v.open = TRUE /\ v.pipe = FALSE /\ w.up # <<>>
  BY DEF NetInv, NetSound, Net!ServerHandlesLine, SlotStates
<1>2. /\ u \in Seq(Asks) /\ r \in Asks
      /\ \A S : Only(w.up, S) => Only(u, S) /\ r \in S
      /\ UdpLast(w.up) => UdpLast(u) /\ (r = "UDP" => Only(u, {"UDP"}))
  <2>1. w.up \in Seq(Asks)
    BY <1>1 DEF Wires
  <2> QED
    BY <1>1, <2>1, TailFacts
<1>3. /\ w.up = <<"PIPE">> => u = <<>> /\ r = "PIPE"
      /\ w.up = <<"PIPE OPEN">> => u = <<>> /\ r = "PIPE OPEN"
  BY OneLeft
<1>4. CASE r = "PIPE OPEN"
  <2>1. wire' = [w EXCEPT !.up = u] /\ srv' = v /\ cli' = c
    BY <1>4 DEF Net!ServerHandlesLine
  <2>2. wire' \in Wires /\ wire'.up = u /\ wire'.down = w.down /\ wire'.data = w.data
    BY <1>1, <1>2, <2>1 DEF Wires
  <2>3. ASSUME Linked(c, w, v) PROVE Linked(c, wire', v)
    <3>1. UdpLast(u) /\ Possible(v, u)
      BY <1>2, <2>3 DEF Linked, Possible
    <3>2. c.at # "pipe" /\ (c.at = "pipe open" => u = <<>>) /\ w.data # "DATA"
      BY <1>1, <1>3, <1>4, <2>3 DEF Linked, Stage
    <3>3. Stage(c, wire', v)
      BY <1>2, <2>2, <2>3, <3>2 DEF Linked, Stage
    <3>4. Plays(c, wire', v)
      BY <1>1, <1>2, <2>2, <2>3 DEF Linked, Plays
    <3> QED
      BY <2>2, <3>1, <3>3, <3>4 DEF Linked
  <2>4. NetSound(c, wire', v)
    BY <1>1, <2>2, <2>3 DEF NetSound
  <2> QED
    BY <2>1, <2>4, NetPrimed
<1>5. CASE r # "PIPE OPEN"
  <2> PICK a : a = Net!Answered(r)
    OBVIOUS
  <2> PICK line : line = a.line
    OBVIOUS
  <2> PICK slot : slot = a.slot
    OBVIOUS
  <2> PICK d : d = Append(w.down, line)
    OBVIOUS
  <2>1. wire' = [w EXCEPT !.up = u, !.down = d] /\ srv' = slot /\ cli' = c
    BY <1>5 DEF Net!ServerHandlesLine
  <2>2. /\ line \in Replies /\ slot \in SlotStates /\ slot.open = TRUE /\ slot.can = v.can
        /\ r = "PIPE" => slot.via = "none" /\ line \in {"PIPE /", "disabled"}
        /\ r = "RTP" => slot.pipe = FALSE /\ slot.via = IF "rtp" \in v.can THEN "rtp" ELSE "none"
        /\ r = "UDP" => slot.pipe = FALSE /\ slot.via = IF "udp" \in v.can THEN "udp" ELSE "none"
    <3>1. CASE r = "PIPE"
      <4>1. slot = [v EXCEPT !.via = "none", !.pipe = "pipe" \in v.can]
            /\ line = IF "pipe" \in v.can THEN "PIPE /" ELSE "disabled"
        BY <3>1 DEF Net!Answered
      <4> PICK b : b = ("pipe" \in v.can)
        OBVIOUS
      <4>2. b = TRUE \/ b = FALSE
        <5>1. b \in BOOLEAN
          OBVIOUS
        <5> QED
          BY ONLY <5>1
      <4>3. slot = [v EXCEPT !.via = "none", !.pipe = b]
        BY <4>1, Zenon
      <4>4. slot \in SlotStates /\ slot.open = TRUE /\ slot.can = v.can /\ slot.via = "none"
        <5>1. CASE b = TRUE
          <6>1. slot = [v EXCEPT !.via = "none", !.pipe = TRUE]
            BY <4>3, <5>1, Zenon
          <6> QED
            BY ONLY <1>1, <6>1 DEF SlotStates, Ways
        <5>2. CASE b = FALSE
          <6>1. slot = [v EXCEPT !.via = "none", !.pipe = FALSE]
            BY <4>3, <5>2, Zenon
          <6> QED
            BY ONLY <1>1, <6>1 DEF SlotStates, Ways
        <5> QED
          BY <4>2, <5>1, <5>2
      <4> QED
        BY <3>1, <4>1, <4>4 DEF Replies
    <3>2. CASE r = "RTP"
      <4>1. slot = [v EXCEPT !.via = IF "rtp" \in v.can THEN "rtp" ELSE "none"]
            /\ line = IF "rtp" \in v.can THEN "RTP" ELSE "disabled"
        BY <3>2 DEF Net!Answered
      <4> QED
        BY <1>1, <3>2, <4>1 DEF Replies, SlotStates, Ways
    <3>3. CASE r = "UDP"
      <4>1. slot = [v EXCEPT !.via = IF "udp" \in v.can THEN "udp" ELSE "none"]
            /\ line = IF "udp" \in v.can THEN "UDP OK" ELSE "disabled"
        BY <3>3 DEF Net!Answered
      <4> QED
        BY <1>1, <3>3, <4>1 DEF Replies, SlotStates, Ways
    <3> QED
      BY <1>2, <1>5, <3>1, <3>2, <3>3 DEF Asks
  <2>3. d \in Seq(Replies) /\ \A S : Only(w.down, S) /\ line \in S => Only(d, S)
    BY <1>1, <2>2, AppendFacts DEF Wires
  <2>4. wire' \in Wires /\ wire'.up = u /\ wire'.down = d /\ wire'.data = w.data
    BY <1>1, <1>2, <2>1, <2>3 DEF Wires
  <2>5. ASSUME Linked(c, w, v) PROVE Linked(c, wire', slot)
    <3>1. UdpLast(u) /\ (r = "UDP" => Only(u, {"UDP"}))
      BY <1>2, <2>5 DEF Linked
    <3>2. Possible(slot, u)
      BY <1>2, <1>5, <2>2, <3>1 DEF Possible, Asks
    <3>3. w.data # "DATA"
      BY <1>1, <2>5 DEF Linked, Stage
    <3>4. c.at = "pipe open" => FALSE
      BY <1>3, <1>5, <2>5, OneLeft, <1>1 DEF Linked, Stage
    <3>5. c.at = "pipe" => u = <<>> /\ r = "PIPE" /\ Only(d, {"PIPE /", "disabled"})
      BY <1>3, <1>1, <1>5, <2>2, <2>3, <2>5 DEF Linked, Stage
    <3>6. Stage(c, wire', slot)
      BY <1>2, <2>2, <2>4, <2>5, <3>3, <3>4, <3>5 DEF Linked, Stage
    <3>7. Plays(c, wire', slot)
      BY <1>1, <1>2, <1>5, <2>2, <2>4, <2>5 DEF Linked, Possible, Plays
    <3> QED
      BY <2>4, <3>1, <3>2, <3>6, <3>7 DEF Linked
  <2>6. NetSound(c, wire', slot)
    BY <1>1, <2>2, <2>4, <2>5 DEF NetSound
  <2> QED
    BY <2>1, <2>6, NetPrimed
<1> QED
  BY <1>4, <1>5

LEMMA ServerPipeKeeps == ASSUME NetInv, Net!ServerOpensPipe PROVE NetInv'
<1> PICK c : c = cli
  OBVIOUS
<1> PICK w : w = wire
  OBVIOUS
<1> PICK v : v = srv
  OBVIOUS
<1>1. c \in Peers /\ w \in Wires /\ v \in SlotStates /\ (c.at # "idle" => Linked(c, w, v))
      /\ v.open = TRUE /\ v.pipe = TRUE
  BY DEF NetInv, NetSound, Net!ServerOpensPipe, SlotStates
<1>2. CASE c.at = "pipe open"
  <2> PICK d : d = Append(w.down, "PIPE OK")
    OBVIOUS
  <2>1. wire' = [w EXCEPT !.down = d] /\ srv' = [v EXCEPT !.pipe = FALSE, !.via = "pipe"] /\ cli' = c
    BY <1>2 DEF Net!ServerOpensPipe
  <2>2. d \in Seq(Replies)
    BY <1>1, AppendFacts DEF Wires, Replies
  <2>3. wire' \in Wires /\ wire'.up = w.up /\ wire'.data = w.data
    BY <1>1, <2>1, <2>2 DEF Wires
  <2>4. srv' \in SlotStates /\ srv'.open = TRUE /\ srv'.pipe = FALSE /\ srv'.via = "pipe"
    BY ONLY <1>1, <2>1 DEF SlotStates, Ways
  <2>5. Linked(c, wire', srv')
    BY <1>1, <1>2, <2>3, <2>4 DEF Linked, Possible, Stage, Plays
  <2>6. NetSound(c, wire', srv')
    BY <1>1, <2>3, <2>4, <2>5 DEF NetSound
  <2> QED
    BY <2>1, <2>6, NetPrimed
<1>3. CASE c.at # "pipe open"
  <2>1. wire' = w /\ srv' = [v EXCEPT !.pipe = FALSE] /\ cli' = c
    BY <1>3 DEF Net!ServerOpensPipe
  <2>2. srv' \in SlotStates /\ srv'.open = TRUE /\ srv'.pipe = FALSE /\ srv'.via = v.via /\ srv'.can = v.can
    BY <1>1, <2>1 DEF SlotStates
  <2>3. ASSUME Linked(c, w, v) PROVE Linked(c, w, srv')
    BY <2>2, <2>3 DEF Linked, Possible, Stage, Plays
  <2>4. NetSound(c, w, srv')
    BY <1>1, <2>2, <2>3 DEF NetSound
  <2> QED
    BY <2>1, <2>4, NetPrimed
<1> QED
  BY <1>2, <1>3

LEMMA ServerDataKeeps == ASSUME NetInv, Net!ServerAttachesData PROVE NetInv'
<1> PICK c : c = cli
  OBVIOUS
<1> PICK w : w = wire
  OBVIOUS
<1> PICK v : v = srv
  OBVIOUS
<1>1. c \in Peers /\ w \in Wires /\ v \in SlotStates /\ (c.at # "idle" => Linked(c, w, v))
      /\ v.open = TRUE /\ v.pipe = FALSE /\ w.data = "asked" /\ w.up = <<>>
  BY DEF NetInv, NetSound, Net!ServerAttachesData, SlotStates
<1>2. CASE "tcp" \in v.can
  <2>1. wire' = [w EXCEPT !.data = "DATA"] /\ srv' = [v EXCEPT !.via = "tcp"] /\ cli' = c
    BY <1>2 DEF Net!ServerAttachesData
  <2>2. wire' \in Wires /\ wire'.up = <<>> /\ wire'.data = "DATA"
    BY <1>1, <2>1 DEF Wires
  <2>3. srv' \in SlotStates /\ srv'.open = TRUE /\ srv'.pipe = FALSE /\ srv'.via = "tcp"
    BY <1>1, <2>1 DEF SlotStates, Ways
  <2>4. ASSUME Linked(c, w, v) PROVE Linked(c, wire', srv')
    BY <1>1, <2>2, <2>3, <2>4, NoneLeft DEF Linked, Possible, Stage, Plays
  <2>5. NetSound(c, wire', srv')
    BY <1>1, <2>2, <2>3, <2>4 DEF NetSound
  <2> QED
    BY <2>1, <2>5, NetPrimed
<1>3. CASE "tcp" \notin v.can
  <2>1. wire' = [w EXCEPT !.data = "disabled"] /\ srv' = v /\ cli' = c
    BY <1>3 DEF Net!ServerAttachesData
  <2>2. wire' \in Wires /\ wire'.up = <<>> /\ wire'.data = "disabled" /\ wire'.down = w.down
    BY <1>1, <2>1 DEF Wires
  <2>3. ASSUME Linked(c, w, v) PROVE Linked(c, wire', v)
    BY <1>1, <2>2, <2>3 DEF Linked, Possible, Stage, Plays
  <2>4. NetSound(c, wire', v)
    BY <1>1, <2>2, <2>3 DEF NetSound
  <2> QED
    BY <2>1, <2>4, NetPrimed
<1> QED
  BY <1>2, <1>3

\* A connection the server does not have, or the client does not: nothing to agree on.
LEMMA Apart ==
  ASSUME cli' \in Peers, wire' \in Wires, srv' \in SlotStates, cli'.at = "idle" \/ srv'.open = FALSE
  PROVE  NetInv'
BY DEF NetInv, NetSound

LEMMA QuietWires == \A d \in {"none", "asked", "DATA", "disabled", "closed", "used"} :
                      [Net!Quiet EXCEPT !.data = d] \in Wires /\ Net!Quiet \in Wires
<1>1. <<>> \in Seq(Asks) /\ <<>> \in Seq(Replies)
  OBVIOUS
<1>2. Net!Quiet \in Wires
  BY <1>1 DEF Net!Quiet, Wires
<1> QED
  BY <1>2 DEF Wires

LEMMA HungUpFacts == ASSUME NetInv, Net!HungUp PROVE wire' \in Wires /\ srv' \in SlotStates /\ srv'.open = FALSE
<1>1. srv \in SlotStates
  BY DEF NetInv, NetSound
<1>2. srv' = [srv EXCEPT !.open = FALSE, !.via = "none", !.pipe = FALSE] /\ wire' = Net!Quiet
  BY DEF Net!HungUp
<1>3. srv' \in SlotStates /\ srv'.open = FALSE
  BY ONLY <1>1, <1>2 DEF SlotStates, Ways
<1> QED
  BY <1>2, <1>3, QuietWires

LEMMA NoneIsPeer == Net!NoConnection \in Peers /\ Net!NoConnection.at = "idle"
BY DEF Net!NoConnection, Peers, Stages

LEMMA EndsKeep ==
  ASSUME NetInv, Net!ServerCloses \/ Net!NoControl \/ Net!TcpFails \/ Net!CloseAndDecide
  PROVE  NetInv'
<1>1. cli \in Peers /\ wire \in Wires /\ srv \in SlotStates
  BY DEF NetInv, NetSound
<1>2. CASE Net!ServerCloses
  <2>1. srv' = [srv EXCEPT !.open = FALSE, !.via = "none", !.pipe = FALSE] /\ cli' = cli
    BY <1>2 DEF Net!ServerCloses
  <2>2. srv' \in SlotStates /\ srv'.open = FALSE
    BY ONLY <1>1, <2>1 DEF SlotStates, Ways
  <2>3. wire' \in Wires
    BY <1>2, QuietWires DEF Net!ServerCloses
  <2> QED
    BY <1>1, <2>1, <2>2, <2>3, Apart
<1>3. CASE Net!NoControl
  <2>1. cli' = Net!NoConnection /\ wire' = wire /\ srv' = srv
    BY <1>3 DEF Net!NoControl
  <2> QED
    BY <1>1, <2>1, NoneIsPeer, Apart
<1>4. CASE Net!TcpFails \/ Net!CloseAndDecide
  <2>1. cli' = Net!NoConnection /\ Net!HungUp
    BY <1>4 DEF Net!TcpFails, Net!CloseAndDecide
  <2> QED
    BY <2>1, HungUpFacts, NoneIsPeer, Apart
<1> QED
  BY <1>2, <1>3, <1>4
-----------------------------------------------------------------------------
(* The client's steps.                                                      *)

\* What NetInv says of a step of the client, which leaves the server alone.
LEMMA ClientKeeps ==
  ASSUME NetInv, NEW c \in Peers, NEW w \in Wires, cli' = c, wire' = w, srv' = srv,
         Linked(cli, wire, srv) /\ cli.at # "idle" /\ srv.open = TRUE => Linked(c, w, srv), cli.at # "idle"
  PROVE  NetInv'
<1>1. NetSound(c, w, srv)
  BY DEF NetInv, NetSound
<1> QED
  BY <1>1, NetPrimed

\* What is sent while the server is there joins what is under way.
Asked(w, v, line, t) == t = [w EXCEPT !.up = IF v.open THEN Append(w.up, line) ELSE w.up]
Sent(w, v, line, t) ==
  /\ t \in Wires /\ t.down = w.down /\ t.data = w.data
  /\ v.open = TRUE => /\ t.up = Append(w.up, line)
                      /\ \A S : Only(w.up, S) /\ line \in S => Only(t.up, S)
                      /\ UdpLast(w.up) /\ line = "UDP" => UdpLast(t.up)
                      /\ UdpLast(w.up) /\ Only(w.up, {"RTP"}) => UdpLast(t.up)

LEMMA AskFacts ==
  ASSUME NEW w \in Wires, NEW v, NEW line \in Asks, NEW t, Asked(w, v, line, t)
  PROVE  Sent(w, v, line, t)
<1> PICK u : u = IF v.open THEN Append(w.up, line) ELSE w.up
  OBVIOUS
<1>1. w.up \in Seq(Asks)
  BY DEF Wires
<1>2. u \in Seq(Asks) /\ (v.open = TRUE => u = Append(w.up, line))
  BY <1>1, AppendFacts
<1>3. t = [w EXCEPT !.up = u]
  BY DEF Asked
<1>4. t \in Wires /\ t.up = u /\ t.down = w.down /\ t.data = w.data
  BY <1>2, <1>3 DEF Wires
<1>5. ASSUME v.open = TRUE
      PROVE  /\ \A S : Only(w.up, S) /\ line \in S => Only(u, S)
             /\ UdpLast(w.up) /\ line = "UDP" => UdpLast(u)
             /\ UdpLast(w.up) /\ Only(w.up, {"RTP"}) => UdpLast(u)
  <2>1. u = Append(w.up, line)
    BY <1>2, <1>5
  <2>2. "UDP" \notin {"RTP"}
    OBVIOUS
  <2> QED
    BY <1>1, <2>1, <2>2, AppendFacts
<1> QED
  BY <1>2, <1>4, <1>5 DEF Sent

LEMMA RestIsSeq ==
  ASSUME NEW A, NEW s \in Seq(A), NEW n \in 0 .. Len(s)
  PROVE  SubSeq(s, n + 1, Len(s)) \in Seq(A)
OBVIOUS

\* Falling back to UDP from a stage that has not asked for it.
LEMMA TryUdpKeeps ==
  ASSUME NetInv, NEW w \in Wires, Net!TryUdp(w), srv' = srv,
         cli.at \in {"pipe", "pipe open", "rtp", "rtp data"}, w.up = wire.up, w.data = wire.data
  PROVE  NetInv'
<1> PICK arrived \in 0 .. Len(w.down) :
      LET flushed == [w EXCEPT !.down = SubSeq(@, arrived + 1, Len(@))]
      IN  /\ cli' = [cli EXCEPT !.at = "udp", !.tries = 0, !.data = "none"]
          /\ wire' = [flushed EXCEPT !.up = IF srv.open THEN Append(@, "UDP") ELSE @]
  BY DEF Net!TryUdp
<1> PICK d : d = SubSeq(w.down, arrived + 1, Len(w.down))
  OBVIOUS
<1> PICK f : f = [w EXCEPT !.down = d]
  OBVIOUS
<1> PICK c : c = cli'
  OBVIOUS
<1> PICK t : t = wire'
  OBVIOUS
<1>1. cli \in Peers /\ wire \in Wires /\ srv \in SlotStates
  BY DEF NetInv, NetSound
<1>2. d \in Seq(Replies)
  <2>1. w.down \in Seq(Replies)
    BY DEF Wires
  <2> QED
    BY <2>1, RestIsSeq
<1>3. f \in Wires /\ f.up = w.up /\ f.data = w.data
  BY <1>2 DEF Wires
<1>4. Asked(f, srv, "UDP", t) /\ "UDP" \in Asks
  BY DEF Asked, Asks
<1>5. Sent(f, srv, "UDP", t)
  BY <1>3, <1>4, AskFacts
<1>9. t \in Wires /\ t.data = w.data
  BY <1>3, <1>5 DEF Sent
<1>6. c = [cli EXCEPT !.at = "udp", !.tries = 0, !.data = "none"]
  OBVIOUS
<1>7. c \in Peers /\ c.at = "udp"
  BY ONLY <1>1, <1>6 DEF Peers, Stages
<1>8. ASSUME Linked(cli, wire, srv), srv.open = TRUE PROVE Linked(c, t, srv)
  <2> PICK u : u = t.up
    OBVIOUS
  <2>2. /\ Only(w.up, {"UDP"}) => Only(u, {"UDP"})
        /\ UdpLast(w.up) => UdpLast(u)
    BY <1>3, <1>5, <1>8 DEF Sent
  <2>3. UdpLast(u) /\ Possible(srv, u)
    BY <1>8, <2>2 DEF Linked, Possible
  <2>4. t.data = "none"
    BY <1>8, <1>9 DEF Linked, Stage
  <2>5. Stage(c, t, srv) /\ Plays(c, t, srv)
    BY <1>7, <2>4 DEF Stage, Plays
  <2> QED
    BY <1>8, <2>3, <2>5 DEF Linked
<1> QED
  BY <1>7, <1>8, <1>9, ClientKeeps

LEMMA TryTcpKeeps ==
  ASSUME NetInv, Net!TryTcp, srv' = srv, cli.at \in {"udp", "udp data"}
  PROVE  NetInv'
<1> PICK c : c = cli'
  OBVIOUS
<1> PICK t : t = wire'
  OBVIOUS
<1>1. cli \in Peers /\ wire \in Wires /\ srv \in SlotStates
  BY DEF NetInv, NetSound
<1>2. c \in Peers /\ c.at = "tcp"
  BY <1>1 DEF Net!TryTcp, Peers, Stages
<1>3. t \in Wires /\ t.up = wire.up /\ t.down = wire.down /\ t.data \in {"asked", "closed"}
  BY <1>1 DEF Net!TryTcp, Wires
<1>4. ASSUME Linked(cli, wire, srv) PROVE Linked(c, t, srv)
  BY <1>2, <1>3, <1>4 DEF Linked, Stage, Plays
<1> QED
  BY <1>2, <1>3, <1>4, ClientKeeps

\* The first of what has arrived is taken.
LEMMA TakenFacts ==
  ASSUME NEW w \in Wires, w.down # <<>>, NEW t, t = [w EXCEPT !.down = Tail(w.down)]
  PROVE  /\ t \in Wires /\ t.up = w.up /\ t.data = w.data /\ t.down = Tail(w.down)
         /\ \A S : Only(w.down, S) => Only(t.down, S) /\ Head(w.down) \in S
<1> PICK d : d = Tail(w.down)
  OBVIOUS
<1>1. w.down \in Seq(Replies)
  BY DEF Wires
<1>2. d \in Seq(Replies) /\ \A S : Only(w.down, S) => Only(d, S) /\ Head(w.down) \in S
  BY <1>1, TailFacts
<1>3. t = [w EXCEPT !.down = d]
  OBVIOUS
<1> QED
  BY <1>2, <1>3 DEF Wires

LEMMA ConnectKeeps == ASSUME NetInv, Net!ConnectControl PROVE NetInv'
<1>1. srv \in SlotStates
  BY DEF NetInv, NetSound
<1>2. srv' = [srv EXCEPT !.open = TRUE, !.via = "none", !.pipe = FALSE]
  BY DEF Net!ConnectControl
<1>3. srv' \in SlotStates /\ srv'.via = "none" /\ srv'.pipe = FALSE
  BY ONLY <1>1, <1>2 DEF SlotStates, Ways
<1>4. /\ \A at \in Stages : [Net!NoConnection EXCEPT !.at = at] \in Peers
                            /\ [Net!NoConnection EXCEPT !.at = at].at = at
  BY DEF Net!NoConnection, Peers
<1>5. \A line \in Asks : <<line>> \in Seq(Asks) /\ UdpLast(<<line>>) /\ Only(<<line>>, {line})
  <2> SUFFICES ASSUME NEW line \in Asks
               PROVE  <<line>> \in Seq(Asks) /\ UdpLast(<<line>>) /\ Only(<<line>>, {line})
    OBVIOUS
  <2>1. <<line>> \in Seq(Asks) /\ line \in {line}
    OBVIOUS
  <2> QED
    BY <2>1, OneLeft
<1>6. <<>> \in Seq(Asks) /\ <<>> \in Seq(Replies) /\ UdpLast(<<>>) /\ \A S : Only(<<>>, S)
  BY NoneLeft
<1>7. Net!Quiet = [up |-> <<>>, down |-> <<>>, data |-> "none"]
  BY DEF Net!Quiet
<1>8. CASE cli' = [Net!NoConnection EXCEPT !.at = "tcp"] /\ wire' = [Net!Quiet EXCEPT !.data = "asked"]
  <2>1. wire' \in Wires /\ wire'.up = <<>> /\ wire'.data = "asked"
    BY <1>6, <1>7, <1>8 DEF Wires
  <2>2. cli' \in Peers /\ cli'.at = "tcp"
    BY <1>4, <1>8 DEF Stages
  <2>3. Linked(cli', wire', srv')
    BY <1>3, <1>6, <2>1, <2>2 DEF Linked, Possible, Stage, Plays
  <2> QED
    BY <1>3, <2>1, <2>2, <2>3 DEF NetInv, NetSound
<1>9. ASSUME NEW at \in {"udp", "rtp", "pipe"}, NEW line \in Asks,
             at = "udp" => line = "UDP", at = "rtp" => line = "RTP", at = "pipe" => line = "PIPE",
             cli' = [Net!NoConnection EXCEPT !.at = at], wire' = [Net!Quiet EXCEPT !.up = <<line>>]
      PROVE  NetInv'
  <2>1. wire' \in Wires /\ wire'.up = <<line>> /\ wire'.down = <<>> /\ wire'.data = "none"
    <3>1. wire' = [up |-> <<line>>, down |-> <<>>, data |-> "none"]
      BY <1>7, <1>9
    <3> QED
      BY <1>5, <1>6, <3>1 DEF Wires
  <2>2. cli' \in Peers /\ cli'.at = at
    BY <1>4, <1>9 DEF Stages
  <2>3. Linked(cli', wire', srv')
    BY <1>3, <1>5, <1>6, <1>9, <2>1, <2>2 DEF Linked, Possible, Stage, Plays
  <2> QED
    BY <1>3, <2>1, <2>2, <2>3 DEF NetInv, NetSound
<1> QED
  BY <1>8, <1>9 DEF Net!ConnectControl, Asks

LEMMA PipePathKeeps == ASSUME NetInv, Net!PipePath PROVE NetInv'
<1> PICK rest : rest = [wire EXCEPT !.down = Tail(wire.down)]
  OBVIOUS
<1>1. cli \in Peers /\ wire \in Wires /\ srv \in SlotStates /\ cli.at = "pipe" /\ wire.down # <<>> /\ srv' = srv
  BY DEF NetInv, NetSound, Net!PipePath
<1>2. rest \in Wires /\ rest.up = wire.up /\ rest.data = wire.data
      /\ \A S : Only(wire.down, S) => Only(rest.down, S)
  BY <1>1, TakenFacts
<1>3. CASE Net!TryUdp(rest)
  BY <1>1, <1>2, <1>3, TryUdpKeeps
<1>4. CASE /\ cli' = [cli EXCEPT !.at = "pipe open"]
           /\ wire' = [rest EXCEPT !.up = IF srv.open THEN Append(@, "PIPE OPEN") ELSE @]
  <2> PICK c : c = cli'
    OBVIOUS
  <2> PICK t : t = wire'
    OBVIOUS
  <2>1. c \in Peers /\ c.at = "pipe open"
    BY <1>1, <1>4 DEF Peers, Stages
  <2>2. Asked(rest, srv, "PIPE OPEN", t) /\ "PIPE OPEN" \in Asks
    BY <1>4 DEF Asked, Asks
  <2>3. Sent(rest, srv, "PIPE OPEN", t)
    BY <1>2, <2>2, AskFacts
  <2>5. t \in Wires
    BY <2>3 DEF Sent
  <2>4. ASSUME Linked(cli, wire, srv), srv.open = TRUE PROVE Linked(c, t, srv)
    <3>1. wire.up = <<>> /\ wire.data = "none" /\ Only(wire.down, {"PIPE /", "disabled"}) /\ srv.via = "none"
      BY <1>1, <2>4 DEF Linked, Stage
    <3>2. t.up = <<"PIPE OPEN">> /\ t.data = "none" /\ Only(t.down, {"PIPE /", "disabled"})
      <4>1. t.down = rest.down /\ t.data = wire.data /\ t.up = Append(<<>>, "PIPE OPEN")
        BY <1>2, <2>3, <2>4, <3>1 DEF Sent
      <4> QED
        BY <1>2, <3>1, <4>1, OneLeft
    <3>3. UdpLast(t.up)
      BY <3>2, OneLeft
    <3> QED
      BY <2>1, <2>4, <3>1, <3>2, <3>3 DEF Linked, Possible, Stage, Plays
  <2> QED
    BY <1>1, <2>1, <2>4, <2>5, ClientKeeps
<1> QED
  BY <1>3, <1>4 DEF Net!PipePath

LEMMA PipeOkKeeps == ASSUME NetInv, Net!PipeOk PROVE NetInv'
<1> PICK rest : rest = [wire EXCEPT !.down = Tail(wire.down)]
  OBVIOUS
<1>1. cli \in Peers /\ wire \in Wires /\ srv \in SlotStates /\ cli.at = "pipe open" /\ wire.down # <<>> /\ srv' = srv
  BY DEF NetInv, NetSound, Net!PipeOk
<1>2. rest \in Wires /\ rest.up = wire.up /\ rest.data = wire.data
      /\ \A S : Only(wire.down, S) => Head(wire.down) \in S
  BY <1>1, TakenFacts
<1>3. CASE Head(wire.down) # "PIPE OK"
  BY <1>1, <1>2, <1>3, TryUdpKeeps DEF Net!PipeOk
<1>4. CASE Head(wire.down) = "PIPE OK"
  <2> PICK c : c = cli'
    OBVIOUS
  <2>1. c = [cli EXCEPT !.at = "ready", !.data = "pipe"] /\ wire' = rest
    BY <1>4 DEF Net!PipeOk
  <2>2. c \in Peers /\ c.at = "ready" /\ c.data = "pipe"
    BY ONLY <1>1, <2>1 DEF Peers, Stages, Ways
  <2>3. ASSUME Linked(cli, wire, srv) PROVE Linked(c, rest, srv)
    <3>1. srv.via = "pipe" /\ wire.data = "none" /\ (wire.up = <<"PIPE OPEN">> \/ wire.up = <<>>)
      BY <1>1, <1>2, <1>4, <2>3 DEF Linked, Stage
    <3>2. Only(wire.up, {"PIPE OPEN"})
      BY <3>1, OneLeft, NoneLeft
    <3> QED
      BY <1>2, <2>2, <2>3, <3>1, <3>2 DEF Linked, Possible, Stage, Plays
  <2> QED
    BY <1>1, <1>2, <2>1, <2>2, <2>3, ClientKeeps
<1> QED
  BY <1>3, <1>4

LEMMA RtpAddressKeeps == ASSUME NetInv, Net!RtpAddress PROVE NetInv'
<1> PICK rest : rest = [wire EXCEPT !.down = Tail(wire.down)]
  OBVIOUS
<1>1. cli \in Peers /\ wire \in Wires /\ srv \in SlotStates /\ cli.at = "rtp" /\ wire.down # <<>> /\ srv' = srv
  BY DEF NetInv, NetSound, Net!RtpAddress
<1>2. rest \in Wires /\ rest.up = wire.up /\ rest.data = wire.data
  BY <1>1, TakenFacts
<1>3. CASE Net!TryUdp(rest)
  BY <1>1, <1>2, <1>3, TryUdpKeeps
<1>4. CASE cli' = [cli EXCEPT !.at = "rtp data", !.tries = 0] /\ wire' = rest
  <2> PICK c : c = cli'
    OBVIOUS
  <2>1. c = [cli EXCEPT !.at = "rtp data", !.tries = 0]
    BY <1>4
  <2>2. c \in Peers /\ c.at = "rtp data"
    BY ONLY <1>1, <2>1 DEF Peers, Stages
  <2>3. ASSUME Linked(cli, wire, srv) PROVE Linked(c, rest, srv)
    BY <1>1, <1>2, <2>2, <2>3 DEF Linked, Stage, Plays
  <2> QED
    BY <1>1, <1>2, <1>4, <2>2, <2>3, ClientKeeps
<1> QED
  BY <1>3, <1>4 DEF Net!RtpAddress

LEMMA RtpAgainKeeps == ASSUME NetInv, Net!RtpAgain PROVE NetInv'
<1>1. cli \in Peers /\ wire \in Wires /\ srv \in SlotStates /\ cli.at = "rtp data" /\ srv' = srv
  BY DEF NetInv, NetSound, Net!RtpAgain
<1>2. CASE Net!TryUdp(wire)
  BY <1>1, <1>2, TryUdpKeeps
<1>3. CASE cli' = [cli EXCEPT !.tries = @ + 1] /\ wire' = Net!Ask("RTP")
  <2> PICK c : c = cli'
    OBVIOUS
  <2> PICK t : t = wire'
    OBVIOUS
  <2> PICK n : n = cli.tries + 1
    OBVIOUS
  <2>6. n \in Nat
    <3>1. cli.tries \in Nat
      BY ONLY <1>1 DEF Peers
    <3> QED
      BY <3>1
  <2>7. c = [cli EXCEPT !.tries = n]
    BY <1>3
  <2>1. c \in Peers /\ c.at = "rtp data"
    BY <1>1, <2>6, <2>7 DEF Peers
  <2>2. Asked(wire, srv, "RTP", t) /\ "RTP" \in Asks
    BY <1>3 DEF Net!Ask, Asked, Asks
  <2>3. Sent(wire, srv, "RTP", t)
    BY <1>1, <2>2, AskFacts
  <2>5. t \in Wires /\ t.data = wire.data
    BY <2>3 DEF Sent
  <2>4. ASSUME Linked(cli, wire, srv), srv.open = TRUE PROVE Linked(c, t, srv)
    <3>1. wire.up \in Seq(Asks) /\ Only(wire.up, {"RTP"}) /\ UdpLast(wire.up) /\ wire.data = "none"
      BY <1>1, <2>4 DEF Linked, Stage, Wires
    <3>2. Only(t.up, {"RTP"}) /\ UdpLast(t.up)
      BY <2>3, <2>4, <3>1 DEF Sent
    <3>3. srv.via # "udp"
      BY <1>1, <2>4 DEF Linked, Stage
    <3> QED
      BY <2>1, <2>4, <2>5, <3>1, <3>2, <3>3 DEF Linked, Possible, Stage, Plays
  <2> QED
    BY <1>1, <2>1, <2>4, <2>5, ClientKeeps
<1> QED
  BY <1>2, <1>3 DEF Net!RtpAgain

LEMMA UdpReplyKeeps == ASSUME NetInv, Net!UdpReply PROVE NetInv'
<1> PICK t : t = wire'
  OBVIOUS
<1> PICK c : c = cli'
  OBVIOUS
<1> PICK d : d = Tail(wire.down)
  OBVIOUS
<1>1. cli \in Peers /\ wire \in Wires /\ srv \in SlotStates /\ cli.at = "udp" /\ wire.down # <<>> /\ srv' = srv
  BY DEF NetInv, NetSound, Net!UdpReply
<1>2. d \in Seq(Replies)
  BY <1>1, TailFacts DEF Wires
<1>3. \/ c = [cli EXCEPT !.at = "udp data"] /\ t = [wire EXCEPT !.down = d]
      \/ \E asked \in {"asked", "closed"} :
           c = [cli EXCEPT !.at = "tcp"] /\ t = [wire EXCEPT !.down = d, !.data = asked]
  BY DEF Net!UdpReply
<1>4. c \in Peers /\ c.at \in {"udp data", "tcp"}
  BY <1>1, <1>3 DEF Peers, Stages
<1>5. t \in Wires /\ t.up = wire.up /\ (t.data = wire.data \/ (c.at = "tcp" /\ t.data \in {"asked", "closed"}))
  <2>1. CASE c = [cli EXCEPT !.at = "udp data"] /\ t = [wire EXCEPT !.down = d]
    <3>1. t \in Wires
      BY <1>1, <1>2, <2>1 DEF Wires
    <3>2. t.up = wire.up /\ t.data = wire.data
      BY <1>1, <2>1 DEF Wires
    <3> QED
      BY <3>1, <3>2
  <2>2. ASSUME NEW asked \in {"asked", "closed"}, c = [cli EXCEPT !.at = "tcp"],
               t = [wire EXCEPT !.down = d, !.data = asked]
        PROVE  t \in Wires /\ t.up = wire.up /\ c.at = "tcp" /\ t.data \in {"asked", "closed"}
    <3>1. t \in Wires /\ t.up = wire.up /\ t.data = asked
      BY ONLY <1>1, <1>2, <2>2 DEF Wires
    <3>2. c.at = "tcp"
      BY <1>1, <2>2 DEF Peers
    <3> QED
      BY <3>1, <3>2
  <2> QED
    BY <1>3, <2>1, <2>2
<1>6. ASSUME Linked(cli, wire, srv) PROVE Linked(c, t, srv)
  BY <1>1, <1>4, <1>5, <1>6 DEF Linked, Stage, Plays
<1> QED
  BY <1>1, <1>4, <1>5, <1>6, ClientKeeps

LEMMA UdpAgainKeeps == ASSUME NetInv, Net!UdpAgain PROVE NetInv'
<1>1. cli \in Peers /\ wire \in Wires /\ srv \in SlotStates /\ cli.at = "udp data" /\ srv' = srv
  BY DEF NetInv, NetSound, Net!UdpAgain
<1>2. CASE Net!TryTcp
  BY <1>1, <1>2, TryTcpKeeps
<1>3. CASE cli' = [cli EXCEPT !.at = "udp", !.tries = @ + 1] /\ wire' = Net!Ask("UDP")
  <2> PICK c : c = cli'
    OBVIOUS
  <2> PICK t : t = wire'
    OBVIOUS
  <2> PICK n : n = cli.tries + 1
    OBVIOUS
  <2>6. n \in Nat
    <3>1. cli.tries \in Nat
      BY ONLY <1>1 DEF Peers
    <3> QED
      BY <3>1
  <2>1. c = [cli EXCEPT !.at = "udp", !.tries = n]
    BY <1>3
  <2>2. c \in Peers /\ c.at = "udp"
    BY ONLY <1>1, <2>1, <2>6 DEF Peers, Stages
  <2>3. Asked(wire, srv, "UDP", t) /\ "UDP" \in Asks
    BY <1>3 DEF Net!Ask, Asked, Asks
  <2>7. Sent(wire, srv, "UDP", t)
    BY <1>1, <2>3, AskFacts
  <2>4. t \in Wires /\ t.data = wire.data
    BY <2>7 DEF Sent
  <2>5. ASSUME Linked(cli, wire, srv), srv.open = TRUE PROVE Linked(c, t, srv)
    <3>1. wire.up \in Seq(Asks) /\ UdpLast(wire.up) /\ wire.data = "none"
      BY <1>1, <2>5 DEF Linked, Stage, Wires
    <3>2. UdpLast(t.up) /\ (Only(wire.up, {"UDP"}) => Only(t.up, {"UDP"}))
      BY <2>5, <2>7, <3>1 DEF Sent
    <3> QED
      BY <2>2, <2>4, <2>5, <3>1, <3>2 DEF Linked, Possible, Stage, Plays
  <2> QED
    BY <1>1, <2>2, <2>4, <2>5, ClientKeeps
<1> QED
  BY <1>2, <1>3 DEF Net!UdpAgain

LEMMA StrangersKeep == ASSUME NetInv, Net!StrangersPacket PROVE NetInv'
<1>1. cli \in Peers /\ wire \in Wires /\ srv \in SlotStates /\ cli.at \in {"rtp data", "udp data"} /\ srv' = srv
  BY DEF NetInv, NetSound, Net!StrangersPacket
<1>2. CASE cli.at = "rtp data" /\ Net!TryUdp(wire)
  BY <1>1, <1>2, TryUdpKeeps
<1>3. CASE cli.at = "udp data" /\ Net!TryTcp
  BY <1>1, <1>3, TryTcpKeeps
<1>4. CASE cli' = [cli EXCEPT !.tries = @ + 1] /\ wire' = wire
  <2> PICK c : c = cli'
    OBVIOUS
  <2> PICK n : n = cli.tries + 1
    OBVIOUS
  <2>3. n \in Nat
    <3>1. cli.tries \in Nat
      BY ONLY <1>1 DEF Peers
    <3> QED
      BY <3>1
  <2>4. c = [cli EXCEPT !.tries = n]
    BY <1>4
  <2>1. c \in Peers /\ c.at = cli.at /\ c.data = cli.data
    BY <1>1, <2>3, <2>4 DEF Peers
  <2>2. ASSUME Linked(cli, wire, srv) PROVE Linked(c, wire, srv)
    BY <2>1, <2>2 DEF Linked, Stage, Plays
  <2> QED
    BY <1>1, <1>4, <2>1, <2>2, ClientKeeps
<1> QED
  BY <1>1, <1>2, <1>3, <1>4 DEF Net!StrangersPacket

LEMMA FirstPacketKeeps == ASSUME NetInv, Net!FirstPacket PROVE NetInv'
<1> PICK c : c = cli'
  OBVIOUS
<1> PICK d : d = srv.via
  OBVIOUS
<1>1. cli \in Peers /\ wire \in Wires /\ wire' = wire /\ srv' = srv
  BY DEF NetInv, NetSound, Net!FirstPacket
<1>5. c = [cli EXCEPT !.at = "ready", !.data = d]
  BY DEF Net!FirstPacket
<1>2. (cli.at = "rtp data" /\ d = "rtp") \/ (cli.at = "udp data" /\ d = "udp")
  BY DEF Net!FirstPacket
<1>6. d \in Ways
  BY <1>2 DEF Ways
<1>3. c \in Peers /\ c.at = "ready" /\ c.data = d
  BY ONLY <1>1, <1>5, <1>6 DEF Peers, Stages
<1>4. ASSUME Linked(cli, wire, srv) PROVE Linked(c, wire, srv)
  BY <1>2, <1>3, <1>4 DEF Linked, Possible, Stage, Plays
<1> QED
  BY <1>1, <1>2, <1>3, <1>4, ClientKeeps

LEMMA ReadTimeoutKeeps == ASSUME NetInv, Net!ReadTimeout PROVE NetInv'
<1>1. wire \in Wires /\ srv' = srv
  BY DEF NetInv, NetSound, Net!ReadTimeout
<1>2. CASE cli.at \in {"pipe", "pipe open", "rtp"} /\ Net!TryUdp(wire)
  BY <1>1, <1>2, TryUdpKeeps
<1>3. CASE cli.at = "udp" /\ Net!TryTcp
  BY <1>1, <1>3, TryTcpKeeps
<1> QED
  BY <1>2, <1>3 DEF Net!ReadTimeout

LEMMA TcpAckKeeps == ASSUME NetInv, Net!TcpAck PROVE NetInv'
<1> PICK c : c = cli'
  OBVIOUS
<1> PICK t : t = wire'
  OBVIOUS
<1>1. cli \in Peers /\ wire \in Wires /\ srv' = srv /\ cli.at = "tcp" /\ wire.data = "DATA"
      /\ c = [cli EXCEPT !.at = "ready", !.data = "tcp"] /\ t = [wire EXCEPT !.data = "used"]
  BY DEF NetInv, NetSound, Net!TcpAck
<1>2. c \in Peers /\ c.at = "ready" /\ c.data = "tcp"
  BY <1>1 DEF Peers, Stages, Ways
<1>3. t \in Wires /\ t.up = wire.up /\ t.data = "used"
  BY <1>1 DEF Wires
<1>4. ASSUME Linked(cli, wire, srv) PROVE Linked(c, t, srv)
  BY <1>1, <1>2, <1>3, <1>4 DEF Linked, Stage, Plays
<1> QED
  BY <1>1, <1>2, <1>3, <1>4, ClientKeeps

\* Steps that leave the stage where it is, or only begin to play.
LEMMA PlayingKeeps ==
  ASSUME NetInv, \/ Net!StartPlay \/ Net!UnknownMessage \/ Net!ConnectionLost \/ Net!PlayFile
  PROVE  NetInv'
<1> PICK c : c = cli'
  OBVIOUS
<1> PICK t : t = wire'
  OBVIOUS
<1>1. cli \in Peers /\ wire \in Wires /\ srv' = srv /\ cli.at \in {"ready", "run"}
  BY DEF NetInv, NetSound, Net!StartPlay, Net!UnknownMessage, Net!ConnectionLost, Net!PlayFile
<1>2. c \in Peers /\ c.at \in {"ready", "run"} /\ c.data = cli.data
  <2>1. \/ c = cli
        \/ c = [cli EXCEPT !.at = "run", !.running = TRUE]
        \/ c = [cli EXCEPT !.running = FALSE]
        \/ c = [cli EXCEPT !.slave = ~cli.slave]
    BY DEF Net!StartPlay, Net!UnknownMessage, Net!ConnectionLost, Net!PlayFile
  <2>2. CASE c = [cli EXCEPT !.at = "run", !.running = TRUE]
    BY ONLY <1>1, <2>2 DEF Peers, Stages
  <2> QED
    BY <1>1, <2>1, <2>2 DEF Peers
<1>3. t \in Wires /\ t.up = wire.up /\ t.data = wire.data
  BY <1>1, TakenFacts DEF Net!StartPlay, Net!UnknownMessage, Net!ConnectionLost, Net!PlayFile
<1>4. ASSUME Linked(cli, wire, srv) PROVE Linked(c, t, srv)
  BY <1>1, <1>2, <1>3, <1>4 DEF Linked, Stage, Plays
<1> QED
  BY <1>1, <1>2, <1>3, <1>4, ClientKeeps

LEMMA NetInvInit == Net!NetInit => NetInv
<1> SUFFICES ASSUME Net!NetInit PROVE NetInv
  OBVIOUS
<1>1. cli \in Peers /\ cli.at = "idle"
  BY NoneIsPeer DEF Net!NetInit
<1>2. wire \in Wires
  BY QuietWires DEF Net!NetInit
<1>3. srv \in SlotStates
  BY DEF Net!NetInit, SlotStates, Ways, Net!Transports
<1> QED
  BY <1>1, <1>2, <1>3 DEF NetInv, NetSound

LEMMA NetInvNext == ASSUME NetInv, [Next]_vars PROVE NetInv'
<1>1. CASE \/ Net!ServerHandlesLine \/ Net!ServerOpensPipe \/ Net!ServerAttachesData \/ Net!ServerCloses
  BY <1>1, ServerLineKeeps, ServerPipeKeeps, ServerDataKeeps, EndsKeep
<1>2. CASE \/ Net!PipePath \/ Net!PipeOk \/ Net!RtpAddress \/ Net!RtpAgain \/ Net!UdpReply \/ Net!UdpAgain
           \/ Net!FirstPacket \/ Net!ReadTimeout \/ Net!TcpAck \/ Net!StrangersPacket
  BY <1>2, PipePathKeeps, PipeOkKeeps, RtpAddressKeeps, RtpAgainKeeps, UdpReplyKeeps, UdpAgainKeeps,
     FirstPacketKeeps, ReadTimeoutKeeps, TcpAckKeeps, StrangersKeep
<1>3. CASE \/ Net!TcpFails \/ Net!ConnectControl \/ Net!NoControl \/ Net!StartPlay \/ Net!UnknownMessage
           \/ Net!ConnectionLost \/ Net!PlayFile \/ Net!CloseAndDecide
  BY <1>3, EndsKeep, ConnectKeeps, PlayingKeeps
<1>4. CASE UNCHANGED <<cli, wire, srv>>
  BY <1>4 DEF NetInv
<1>5. CASE \/ Net!PlaybackFinished \/ Net!TerminateKey \/ Net!Ended
           \/ \E sig \in {"HUP", "TERM"} : Net!Signalled(sig)
  BY <1>4, <1>5 DEF Net!PlaybackFinished, Net!TerminateKey, Net!Ended, Net!Signalled, Net!netVars
<1>6. CASE Net!NetNext
  BY <1>1, <1>2, <1>3, <1>5, <1>6 DEF Net!NetNext, Net!NetSteps
<1> QED
  BY <1>4, <1>6 DEF Next, Step, OthersStay, Stopped, vars, netVars

LEMMA NetInvAgrees == NetInv => Net!TransportAgrees
<1> SUFFICES ASSUME NetInv, cli.at \in {"ready", "run"}, srv.open PROVE srv.via = cli.data
  BY DEF Net!TransportAgrees
<1>1. srv.open = TRUE
  BY DEF NetInv, NetSound, SlotStates
<1> QED
  BY <1>1 DEF NetInv, NetSound, Linked, Plays

-----------------------------------------------------------------------------
(* The modes of the input plugin (xine_input_vdr.c): ModesAgree speaks only*)
(* of the time when no command of the device is left.  PbInv says of every *)
(* state that whatever is not as the device wishes is still to be asked    *)
(* for, by a command that can be carried out then (Fits, Agrees): CHECK_FALSE()*)
(* drops a still picture in live mode, and resetting the tuning does nothing*)
(* while paused, so what decides is the order of some commands (InOrder).  *)

Commands == [cmd : {"LIVE", "STILL", "TRICKSPEED", "DISCARD", "BLANK", "FLUSH", "PLAYFILE"},
             arg : BOOLEAN \cup {0, 1, 2, -2}]
Modes == [live_mode : BOOLEAN, still_mode : BOOLEAN, is_paused : BOOLEAN, is_trickspeed : BOOLEAN,
          tuning : {"off", "faster", "slower", "SCR_TUNING_PAUSED"}, speed : {0, 1, 2, -2},
          stream_start : BOOLEAN]
Controls == [todo : Seq(Commands), pc : {"idle", "seek", "flush", "opened", "resting"}, live : BOOLEAN]
Wishes == [m_bLiveMode : BOOLEAN, m_TrickSpeed : {0, 1, 2, -2}, still : BOOLEAN, speed : {0, 1, 2, -2}]
Slaves == [open : BOOLEAN, shown : BOOLEAN, background : BOOLEAN]

Pending(s) == {s[i] : i \in 1 .. Len(s)}
StillOff == [cmd |-> "STILL", arg |-> FALSE]
AnyOf(P, cmd) == \E x \in P : x.cmd = cmd

\* In a script a still picture comes after the speed, and live mode after the
\* end of a still picture.
Precedes(x, y) ==
  \/ x.cmd = "TRICKSPEED" /\ y.cmd = "STILL" /\ y.arg = TRUE
  \/ x = StillOff /\ y.cmd = "LIVE" /\ y.arg = TRUE
InOrder(s) == \A i, j \in 1 .. Len(s) : Precedes(s[j], s[i]) => j < i

\* The commands P ask for what the device wishes.
Fits(P, v) ==
  \A x \in P :
    /\ x.cmd = "LIVE" => x.arg = v.m_bLiveMode
    /\ x.cmd = "TRICKSPEED" => /\ x.arg = v.speed
                               /\ v.speed \in {2, -2} => v.m_bLiveMode = FALSE /\ ~AnyOf(P, "LIVE")
    /\ x.cmd = "STILL" => x.arg = FALSE \/ (x.arg = TRUE /\ v.still = TRUE /\ v.speed = 1)
    /\ x.cmd = "DISCARD" => v.speed = 1
    /\ x.cmd = "PLAYFILE" => v.m_bLiveMode = FALSE /\ \A y \in P : y.cmd = "PLAYFILE"

Wished(v) ==
  /\ v \in Wishes /\ (v.m_TrickSpeed = 1 => v.speed = 1)
  /\ v.m_bLiveMode = TRUE => v.still = FALSE

\* What is not as the device wishes it is yet to be asked for; on is the live mode
\* that is in force, or comes back.
Agrees(p, on, P, v) ==
  /\ AnyOf(P, "LIVE") \/ on = v.m_bLiveMode
  /\ p.live_mode = TRUE \/ on = TRUE => p.still_mode = FALSE
  /\ p.still_mode = TRUE /\ v.still = FALSE => StillOff \in P
  /\ \/ AnyOf(P, "TRICKSPEED")
     \/ /\ p.is_paused = TRUE <=> v.speed = 0
        /\ p.is_trickspeed = TRUE <=> v.speed \in {2, -2}
        /\ p.tuning # "SCR_TUNING_PAUSED" => p.speed = v.speed
  /\ p.tuning = "SCR_TUNING_PAUSED" => p.speed \in {0, 1} /\ p.still_mode = FALSE /\ p.is_trickspeed = FALSE

\* Where the control thread is, and what of the slave stream.
Handles(c, sl) ==
  /\ c.pc # "idle" => c.todo # <<>>
  /\ c.pc = "seek" => Head(c.todo).cmd = "DISCARD"
  /\ c.pc = "flush" => Head(c.todo).cmd = "FLUSH"
  /\ IF c.pc \in {"opened", "resting"} THEN Head(c.todo).cmd = "PLAYFILE" /\ sl.open = TRUE
     ELSE sl.shown = sl.open

LiveNow(p, c) == IF c.pc = "flush" THEN c.live ELSE p.live_mode

PbSound(p, sl, c, v) ==
  /\ p \in Modes /\ sl \in Slaves /\ c \in Controls /\ Wished(v)
  /\ Fits(Pending(c.todo), v) /\ InOrder(c.todo) /\ Agrees(p, LiveNow(p, c), Pending(c.todo), v)
  /\ Handles(c, sl)
PbInv == PbSound(ip, slave, ctl, vdr)

LEMMA PbPrimed ==
  ASSUME NEW p, NEW sl, NEW c, NEW v, PbSound(p, sl, c, v), ip' = p, slave' = sl, ctl' = c, vdr' = v
  PROVE  PbInv'
BY DEF PbInv

-----------------------------------------------------------------------------
(* Scripts.                                                                 *)

LEMMA NothingPending == <<>> \in Seq(Commands) /\ Pending(<<>>) = {} /\ InOrder(<<>>)
BY DEF Pending, InOrder

LEMMA OnePending ==
  ASSUME NEW x \in Commands
  PROVE  <<x>> \in Seq(Commands) /\ Pending(<<x>>) = {x} /\ InOrder(<<x>>)
<1>1. <<x>> \in Seq(Commands) /\ Pending(<<x>>) = {x}
  BY DEF Pending
<1>2. ~Precedes(x, x)
  BY DEF Precedes, StillOff
<1>3. \A i \in 1 .. Len(<<x>>) : i = 1 /\ <<x>>[i] = x
  OBVIOUS
<1>4. InOrder(<<x>>)
  BY <1>2, <1>3 DEF InOrder
<1> QED
  BY <1>1, <1>4

LEMMA PendingSet ==
  ASSUME NEW s, NEW S, NEW T, \A i \in 1 .. Len(s) : s[i] \in S \cup T,
         \A x \in S : x \in Pending(s), \A x \in T : x \in Pending(s)
  PROVE  Pending(s) = S \cup T
<1>1. \A x \in Pending(s) : x \in S \cup T
  BY DEF Pending
<1> QED
  BY <1>1

LEMMA BothPending ==
  ASSUME NEW s \in Seq(Commands), NEW t \in Seq(Commands)
  PROVE  /\ s \o t \in Seq(Commands)
         /\ Pending(s \o t) = Pending(s) \cup Pending(t)
         /\ InOrder(s) /\ InOrder(t) /\ (\A y \in Pending(s), x \in Pending(t) : ~Precedes(x, y))
              => InOrder(s \o t)
<1> PICK r : r = s \o t
  OBVIOUS
<1> PICK m : m = Len(s)
  OBVIOUS
<1> PICK n : n = Len(t)
  OBVIOUS
<1>1. /\ r \in Seq(Commands) /\ m \in Nat /\ n \in Nat /\ Len(r) = m + n
      /\ \A i \in 1 .. m + n : r[i] = IF i <= m THEN s[i] ELSE t[i - m]
  OBVIOUS
<1>2. Pending(r) = Pending(s) \cup Pending(t)
  <2>1. \A i \in 1 .. m + n : r[i] \in Pending(s) \cup Pending(t)
    <3> SUFFICES ASSUME NEW i \in 1 .. m + n PROVE r[i] \in Pending(s) \cup Pending(t)
      OBVIOUS
    <3>1. CASE i <= m
      BY <1>1, <3>1 DEF Pending
    <3>2. CASE ~(i <= m)
      <4>1. i - m \in 1 .. n /\ r[i] = t[i - m]
        BY <1>1, <3>2
      <4> QED
        BY <4>1 DEF Pending
    <3> QED
      BY <3>1, <3>2
  <2>2. \A x \in Pending(s) : x \in Pending(r)
    <3>1. \A i \in 1 .. m : i \in 1 .. m + n /\ r[i] = s[i]
      BY <1>1
    <3> QED
      BY <1>1, <3>1 DEF Pending
  <2>3. \A x \in Pending(t) : x \in Pending(r)
    <3> SUFFICES ASSUME NEW i \in 1 .. n PROVE t[i] \in Pending(r)
      BY DEF Pending
    <3>1. m + i \in 1 .. m + n /\ ~(m + i <= m) /\ (m + i) - m = i
      BY <1>1
    <3>2. r[m + i] = t[i]
      BY <1>1, <3>1
    <3> QED
      BY <1>1, <3>1, <3>2 DEF Pending
  <2>4. \A i \in 1 .. Len(r) : r[i] \in Pending(s) \cup Pending(t)
    BY <1>1, <2>1
  <2> PICK S : S = Pending(s)
    OBVIOUS
  <2> PICK T : T = Pending(t)
    OBVIOUS
  <2>5. Pending(r) = S \cup T
    BY ONLY <2>2, <2>3, <2>4, S = Pending(s), T = Pending(t), PendingSet
  <2> QED
    BY <2>5
<1>3. ASSUME InOrder(s), InOrder(t), \A y \in Pending(s), x \in Pending(t) : ~Precedes(x, y)
      PROVE  InOrder(r)
  <2> SUFFICES ASSUME NEW i \in 1 .. m + n, NEW j \in 1 .. m + n, Precedes(r[j], r[i])
               PROVE  j < i
    BY <1>1 DEF InOrder
  <2>1. CASE i <= m /\ j <= m
    BY <1>1, <1>3, <2>1 DEF InOrder
  <2>2. CASE i <= m /\ ~(j <= m)
    <3>1. r[i] = s[i] /\ r[j] = t[j - m] /\ i \in 1 .. m /\ j - m \in 1 .. n
      BY <1>1, <2>2
    <3>2. r[i] \in Pending(s) /\ r[j] \in Pending(t)
      BY <3>1 DEF Pending
    <3> QED
      BY <1>3, <3>2
  <2>3. CASE ~(i <= m) /\ ~(j <= m)
    <3>1. r[i] = t[i - m] /\ r[j] = t[j - m] /\ i - m \in 1 .. n /\ j - m \in 1 .. n
      BY <1>1, <2>3
    <3>2. j - m < i - m
      BY <1>3, <3>1 DEF InOrder
    <3> QED
      BY <1>1, <3>2
  <2>4. CASE ~(i <= m) /\ j <= m
    BY <1>1, <2>4
  <2> QED
    BY <2>1, <2>2, <2>3, <2>4
<1> QED
  BY <1>1, <1>2, <1>3

LEMMA LessPending ==
  ASSUME NEW s \in Seq(Commands), s # <<>>
  PROVE  /\ Tail(s) \in Seq(Commands) /\ Head(s) \in Commands
         /\ Pending(s) = {Head(s)} \cup Pending(Tail(s))
         /\ InOrder(s) => InOrder(Tail(s)) /\ \A x \in Pending(Tail(s)) : ~Precedes(x, Head(s))
<1> PICK t : t = Tail(s)
  OBVIOUS
<1> PICK n : n = Len(t)
  OBVIOUS
<1>1. /\ t \in Seq(Commands) /\ n \in Nat /\ Len(s) = n + 1 /\ Head(s) = s[1]
      /\ \A i \in 1 .. n : t[i] = s[i + 1]
  OBVIOUS
<1>2. Head(s) \in Commands
  BY <1>1
<1>3. Pending(s) = {s[1]} \cup Pending(t)
  <2>1. \A i \in 1 .. n + 1 : s[i] \in {s[1]} \cup Pending(t)
    <3> SUFFICES ASSUME NEW i \in 1 .. n + 1, i # 1 PROVE s[i] \in Pending(t)
      OBVIOUS
    <3>1. i - 1 \in 1 .. n /\ (i - 1) + 1 = i
      BY <1>1
    <3>2. t[i - 1] = s[i]
      BY <1>1, <3>1
    <3> QED
      BY <3>1, <3>2 DEF Pending
  <2>2. \A x \in Pending(t) : x \in Pending(s)
    <3>1. \A i \in 1 .. n : i + 1 \in 1 .. n + 1
      BY <1>1
    <3> QED
      BY <1>1, <3>1 DEF Pending
  <2>3. \A x \in {s[1]} : x \in Pending(s)
    BY <1>1 DEF Pending
  <2>4. \A i \in 1 .. Len(s) : s[i] \in {s[1]} \cup Pending(t)
    BY <1>1, <2>1
  <2> PICK S : S = {s[1]}
    OBVIOUS
  <2> PICK T : T = Pending(t)
    OBVIOUS
  <2>5. (\A x \in S : x \in Pending(s)) /\ (\A x \in T : x \in Pending(s))
    BY <2>2, <2>3
  <2>6. \A i \in 1 .. Len(s) : s[i] \in S \cup T
    BY <2>4
  <2>7. Pending(s) = S \cup T
    BY ONLY <2>5, <2>6, PendingSet
  <2> QED
    BY <2>7
<1>4. InOrder(s) => InOrder(t)
  BY <1>1 DEF InOrder
<1>5. ASSUME InOrder(s), NEW x \in Pending(t) PROVE ~Precedes(x, s[1])
  <2> PICK i \in 1 .. n : x = t[i]
    BY DEF Pending
  <2>1. i + 1 \in 1 .. Len(s) /\ 1 \in 1 .. Len(s) /\ s[i + 1] = x /\ ~(i + 1 < 1)
    BY <1>1
  <2> QED
    BY <1>5, <2>1 DEF InOrder
<1> QED
  BY <1>1, <1>2, <1>3, <1>4, <1>5

LEMMA PlainInOrder ==
  ASSUME NEW s, \A y \in Pending(s) : y.cmd \in {"LIVE", "STILL"} => y.arg = FALSE
  PROVE  InOrder(s)
<1>1. \A i \in 1 .. Len(s) : s[i] \in Pending(s)
  BY DEF Pending
<1>2. \A x, y : Precedes(x, y) => y.cmd \in {"LIVE", "STILL"} /\ y.arg = TRUE
  BY DEF Precedes
<1> QED
  BY <1>1, <1>2 DEF InOrder

-----------------------------------------------------------------------------
(* The setters.                                                             *)

Kept(p, q) ==
  /\ q \in Modes /\ q.live_mode = p.live_mode /\ q.still_mode = p.still_mode
  /\ q.is_paused = p.is_paused /\ q.is_trickspeed = p.is_trickspeed

Cleared(p, q) ==
  \/ /\ p.tuning = "off" \/ p.is_trickspeed = TRUE \/ p.is_paused = TRUE
     /\ q.tuning = p.tuning /\ q.speed = p.speed
  \/ /\ p.is_trickspeed = FALSE /\ p.is_paused = FALSE
     /\ q.tuning = "off" /\ q.speed = 1

LEMMA ResetFacts ==
  ASSUME NEW p \in Modes, NEW q, q = Playback!ResetTuning(p)
  PROVE  Kept(p, q) /\ Cleared(p, q)
<1>1. CASE p.tuning = "off" \/ p.is_trickspeed \/ p.is_paused
  <2>1. q = p
    BY <1>1 DEF Playback!ResetTuning
  <2> QED
    BY <1>1, <2>1 DEF Kept, Cleared, Modes
<1>2. CASE ~(p.tuning = "off" \/ p.is_trickspeed \/ p.is_paused)
  <2>1. q = [p EXCEPT !.tuning = "off", !.speed = 1]
    BY <1>2 DEF Playback!ResetTuning
  <2> QED
    BY <1>2, <2>1 DEF Kept, Cleared, Modes
<1> QED
  BY <1>1, <1>2

LEMMA ResetKeeps ==
  ASSUME NEW p \in Modes, NEW on, NEW P, NEW v, Wished(v), Agrees(p, on, P, v),
         NEW q, q = Playback!ResetTuning(p)
  PROVE  q \in Modes /\ Agrees(q, on, P, v)
<1>1. Kept(p, q) /\ Cleared(p, q)
  BY ResetFacts
<1>2. v.speed \in {0, 1, 2, -2}
  BY DEF Wished, Wishes
<1> QED
  BY <1>1, <1>2 DEF Kept, Cleared, Agrees

LEMMA PausedKeeps ==
  ASSUME NEW p \in Modes, NEW on, NEW P, NEW v, Wished(v), Agrees(p, on, P, v),
         NEW sl, NEW q, q = Playback!SetTuningPaused(p, sl)
  PROVE  q \in Modes /\ q.live_mode = p.live_mode /\ Agrees(q, on, P, v)
<1>1. CASE p.is_trickspeed \/ p.is_paused \/ sl.open \/ p.still_mode
  <2>1. q = p
    BY <1>1 DEF Playback!SetTuningPaused
  <2> QED
    BY <2>1
<1>2. CASE ~(p.is_trickspeed \/ p.is_paused \/ sl.open \/ p.still_mode)
  <2>1. q = [p EXCEPT !.tuning = "SCR_TUNING_PAUSED", !.speed = 0]
    BY <1>2 DEF Playback!SetTuningPaused
  <2>2. /\ Kept(p, q) /\ q.tuning = "SCR_TUNING_PAUSED" /\ q.speed = 0
        /\ p.is_trickspeed = FALSE /\ p.still_mode = FALSE
    BY <1>2, <2>1 DEF Kept, Modes
  <2> QED
    BY <2>2 DEF Kept, Agrees
<1> QED
  BY <1>1, <1>2

LEMMA AdjustedKeeps ==
  ASSUME NEW p \in Modes, NEW on, NEW P, NEW v, Wished(v), Agrees(p, on, P, v),
         NEW sl, NEW q \in Playback!Adjusted(p, sl)
  PROVE  q \in Modes /\ q.live_mode = p.live_mode /\ Agrees(q, on, P, v)
<1>1. \/ q = p \/ q = Playback!SetTuningPaused(p, sl) \/ q = Playback!ResetTuning(p)
      \/ /\ p.tuning # "SCR_TUNING_PAUSED" /\ p.speed = 1
         /\ \E t \in {"off", "faster", "slower"} : q = [p EXCEPT !.tuning = t]
  BY DEF Playback!Adjusted
<1>2. CASE q = Playback!ResetTuning(p)
  BY <1>2, ResetFacts, ResetKeeps DEF Kept
<1>3. CASE /\ p.tuning # "SCR_TUNING_PAUSED" /\ p.speed = 1
           /\ \E t \in {"off", "faster", "slower"} : q = [p EXCEPT !.tuning = t]
  <2> PICK t \in {"off", "faster", "slower"} : q = [p EXCEPT !.tuning = t]
    BY <1>3
  <2>1. Kept(p, q) /\ q.tuning = t /\ q.speed = p.speed
    BY DEF Kept, Modes
  <2> QED
    BY <1>3, <2>1 DEF Kept, Agrees
<1> QED
  BY <1>1, <1>2, <1>3, PausedKeeps

\* Live mode and a still picture exclude each other: no end of one is dropped.
LEMMA StillOffFacts ==
  ASSUME NEW p \in Modes, ~(p.still_mode = TRUE /\ p.live_mode = TRUE),
         NEW q, q = Playback!IpSetStillMode(p, FALSE)
  PROVE  /\ q \in Modes /\ q.live_mode = p.live_mode /\ q.still_mode = FALSE
         /\ q.is_paused = p.is_paused /\ q.is_trickspeed = p.is_trickspeed
         /\ q.tuning = p.tuning /\ q.speed = p.speed
<1>1. q = [p EXCEPT !.still_mode = FALSE]
  BY DEF Playback!IpSetStillMode, Modes
<1> QED
  BY <1>1 DEF Modes

LEMMA StillOffKeeps ==
  ASSUME NEW p \in Modes, NEW on, NEW P, NEW v, Agrees(p, on, P, v),
         NEW q, q = Playback!IpSetStillMode(p, FALSE)
  PROVE  /\ q \in Modes /\ q.live_mode = p.live_mode /\ Agrees(q, on, P, v)
         /\ q.still_mode = FALSE
<1>1. ~(p.still_mode = TRUE /\ p.live_mode = TRUE)
  BY DEF Agrees
<1>2. /\ q \in Modes /\ q.live_mode = p.live_mode /\ q.still_mode = FALSE
      /\ q.is_paused = p.is_paused /\ q.is_trickspeed = p.is_trickspeed
      /\ q.tuning = p.tuning /\ q.speed = p.speed
  BY <1>1, StillOffFacts
<1> QED
  BY <1>2 DEF Agrees

AtSpeed(p, n, q) ==
  /\ q \in Modes /\ q.live_mode = p.live_mode
  /\ q.is_paused = TRUE <=> n = 0
  /\ q.is_trickspeed = TRUE <=> n \in {2, -2}
  /\ q.still_mode = (IF n = 0 THEN p.still_mode ELSE FALSE)
  /\ \/ q.tuning = "SCR_TUNING_PAUSED" /\ p.tuning = "SCR_TUNING_PAUSED"
        /\ q.speed = p.speed /\ n \in {0, 1}
     \/ q.tuning # "SCR_TUNING_PAUSED" /\ q.speed = n

\* set_trick_speed() outside live mode, or at a speed that is no trick.
LEMMA TrickFacts ==
  ASSUME NEW p \in Modes, ~(p.still_mode = TRUE /\ p.live_mode = TRUE), NEW n \in {0, 1, 2, -2},
         n \in {2, -2} => p.live_mode = FALSE,
         p.tuning = "SCR_TUNING_PAUSED" => p.is_trickspeed = FALSE,
         NEW q, q = Playback!IpSetTrickSpeed(p, n)
  PROVE  AtSpeed(p, n, q)
<1> USE DEF AtSpeed
<1> PICK b \in BOOLEAN : b = (n = 0)
  OBVIOUS
<1> PICK a : a = [p EXCEPT !.is_paused = b]
  OBVIOUS
<1>1. /\ a \in Modes /\ a.live_mode = p.live_mode /\ a.still_mode = p.still_mode
      /\ a.is_paused = b /\ a.is_trickspeed = p.is_trickspeed
      /\ a.tuning = p.tuning /\ a.speed = p.speed
  BY DEF Modes
<1>2. a = [p EXCEPT !.is_paused = n = 0]
  OBVIOUS
<1> PICK r : r = IF n = 0 THEN a ELSE Playback!IpSetStillMode(a, FALSE)
  OBVIOUS
<1>3. /\ r \in Modes /\ r.live_mode = p.live_mode /\ r.is_paused = b
      /\ r.is_trickspeed = p.is_trickspeed /\ r.tuning = p.tuning /\ r.speed = p.speed
      /\ r.still_mode = IF n = 0 THEN p.still_mode ELSE FALSE
  BY <1>1, StillOffFacts
<1>4. CASE n \notin {2, -2}
  <2> PICK c : c = [r EXCEPT !.is_trickspeed = FALSE]
    OBVIOUS
  <2>1. /\ c \in Modes /\ c.live_mode = p.live_mode /\ c.is_paused = b /\ c.still_mode = r.still_mode
        /\ c.is_trickspeed = FALSE /\ c.tuning = p.tuning /\ c.speed = p.speed
    BY ZenonT(30), <1>3 DEF Modes
  <2>2. q = Playback!ToSpeed(c, n)
    BY <1>2, <1>4 DEF Playback!IpSetTrickSpeed, Playback!Trick
  <2>3. n \in {0, 1}
    BY <1>4
  <2>4. CASE c.tuning = "SCR_TUNING_PAUSED"
    <3>1. q = c
      BY <2>2, <2>4 DEF Playback!ToSpeed
    <3> QED
      BY ZenonT(30), <1>3, <1>4, <2>1, <2>3, <2>4, <3>1
  <2>5. CASE c.tuning # "SCR_TUNING_PAUSED"
    <3>1. q = [c EXCEPT !.speed = n]
      BY <2>2, <2>5 DEF Playback!ToSpeed
    <3>2. /\ q \in Modes /\ q.live_mode = c.live_mode /\ q.is_paused = b /\ q.still_mode = c.still_mode
          /\ q.is_trickspeed = FALSE /\ q.tuning = c.tuning /\ q.speed = n
      <4>1. c \in Modes /\ n \in {0, 1, 2, -2}
        BY <2>1
      <4>2. q \in Modes
        BY ONLY <3>1, <4>1 DEF Modes
      <4>3. /\ q.live_mode = c.live_mode /\ q.is_paused = c.is_paused /\ q.still_mode = c.still_mode
            /\ q.is_trickspeed = c.is_trickspeed /\ q.tuning = c.tuning /\ q.speed = n
        BY ONLY <3>1, <4>1 DEF Modes
      <4> QED
        BY ONLY <2>1, <4>2, <4>3
    <3> QED
      BY <1>3, <1>4, <2>1, <2>3, <2>5, <3>2
  <2> QED
    BY <2>4, <2>5
<1>5. CASE n \in {2, -2}
  <2> PICK g : g = Playback!ResetTuning(r)
    OBVIOUS
  <2>1. Kept(r, g) /\ Cleared(r, g)
    BY <1>3, ResetFacts
  <2>2. g.tuning # "SCR_TUNING_PAUSED"
    <3>1. n # 0
      BY <1>5
    <3>2. r.is_paused = FALSE
      BY <1>3, <3>1
    <3>3. r.tuning # "SCR_TUNING_PAUSED" \/ r.is_trickspeed = FALSE
      BY <1>3
    <3>4. r.is_trickspeed \in BOOLEAN
      BY <1>3 DEF Modes
    <3> QED
      BY <2>1, <3>2, <3>3, <3>4 DEF Cleared
  <2> PICK c : c = [g EXCEPT !.is_trickspeed = TRUE]
    OBVIOUS
  <2>3. /\ c \in Modes /\ c.live_mode = p.live_mode /\ c.is_paused = b /\ c.still_mode = r.still_mode
        /\ c.is_trickspeed = TRUE /\ c.tuning = g.tuning
    <3>1. /\ g \in Modes /\ g.live_mode = p.live_mode /\ g.still_mode = r.still_mode /\ g.is_paused = b
      BY <1>3, <2>1 DEF Kept
    <3>2. /\ c \in Modes /\ c.live_mode = g.live_mode /\ c.is_paused = g.is_paused
          /\ c.still_mode = g.still_mode /\ c.is_trickspeed = TRUE /\ c.tuning = g.tuning
      BY ZenonT(30), <3>1 DEF Modes
    <3> QED
      BY <3>1, <3>2
  <2>4. q = Playback!ToSpeed(c, n)
    BY <1>2, <1>5 DEF Playback!IpSetTrickSpeed, Playback!Trick, Modes
  <2>5. q = [c EXCEPT !.speed = n]
    BY <2>2, <2>3, <2>4 DEF Playback!ToSpeed
  <2>6. /\ q \in Modes /\ q.live_mode = c.live_mode /\ q.is_paused = b /\ q.still_mode = c.still_mode
        /\ q.is_trickspeed = TRUE /\ q.tuning = c.tuning /\ q.speed = n
    <3>1. c \in Modes /\ n \in {0, 1, 2, -2}
      BY <2>3
    <3>2. q \in Modes
      BY ONLY <2>5, <3>1 DEF Modes
    <3>3. /\ q.live_mode = c.live_mode /\ q.is_paused = c.is_paused /\ q.still_mode = c.still_mode
          /\ q.is_trickspeed = c.is_trickspeed /\ q.tuning = c.tuning /\ q.speed = n
      BY ONLY <2>5, <3>1 DEF Modes
    <3> QED
      BY ONLY <2>3, <3>2, <3>3
  <2> QED
    BY <1>3, <1>5, <2>2, <2>3, <2>6
<1> QED
  BY <1>4, <1>5

LEMMA LiveFacts ==
  ASSUME NEW p \in Modes, NEW b \in BOOLEAN, b = TRUE => p.still_mode = FALSE,
         NEW q, q = Playback!IpSetLiveMode(p, b)
  PROVE  /\ q \in Modes /\ q.live_mode = b /\ q.still_mode = FALSE
         /\ q.is_paused = p.is_paused /\ q.is_trickspeed = p.is_trickspeed
         /\ Cleared(p, q) \/ (q.tuning = p.tuning /\ q.speed = p.speed)
<1> PICK a : a = [p EXCEPT !.live_mode = b]
  OBVIOUS
<1>1. /\ a \in Modes /\ a.live_mode = b /\ a.still_mode = p.still_mode
      /\ a.is_paused = p.is_paused /\ a.is_trickspeed = p.is_trickspeed
      /\ a.tuning = p.tuning /\ a.speed = p.speed
  BY DEF Modes
<1> PICK r : r = Playback!IpSetStillMode(a, FALSE)
  OBVIOUS
<1>2. /\ r \in Modes /\ r.live_mode = b /\ r.still_mode = FALSE
      /\ r.is_paused = p.is_paused /\ r.is_trickspeed = p.is_trickspeed
      /\ r.tuning = p.tuning /\ r.speed = p.speed
  <2>1. ~(a.still_mode = TRUE /\ a.live_mode = TRUE)
    BY <1>1
  <2> QED
    BY <1>1, <2>1, StillOffFacts
<1>3. CASE b = TRUE
  <2>1. q = r
    BY <1>3 DEF Playback!IpSetLiveMode
  <2> QED
    BY <1>2, <2>1
<1>4. CASE b = FALSE
  <2>1. q = Playback!ResetTuning(r)
    BY <1>4 DEF Playback!IpSetLiveMode
  <2>2. Kept(r, q) /\ Cleared(r, q)
    BY <1>2, <2>1, ResetFacts
  <2> QED
    BY <1>2, <2>2 DEF Kept, Cleared
<1> QED
  BY <1>3, <1>4

-----------------------------------------------------------------------------
(* The commands: x is the next one, P are those that follow.                *)

LeadsAll(x, P) == \A y \in P : ~Precedes(y, x)

LEMMA LiveKeeps ==
  ASSUME NEW p \in Modes, NEW v, Wished(v), NEW x \in Commands, x.cmd = "LIVE", NEW P,
         Fits({x} \cup P, v), LeadsAll(x, P), Agrees(p, p.live_mode, {x} \cup P, v),
         NEW q, q = Playback!IpSetLiveMode(p, x.arg)
  PROVE  q \in Modes /\ Agrees(q, q.live_mode, P, v)
<1> PICK b : b = x.arg
  OBVIOUS
<1>1. b = v.m_bLiveMode /\ b \in BOOLEAN /\ v.speed \in {0, 1, 2, -2}
  BY DEF Fits, Wished, Wishes
<1>2. b = TRUE => p.still_mode = FALSE
  <2> SUFFICES ASSUME b = TRUE, p.still_mode # FALSE PROVE FALSE
    OBVIOUS
  <2>1. p.still_mode = TRUE /\ v.still = FALSE
    BY <1>1 DEF Modes, Wished
  <2>2. StillOff \in {x} \cup P
    BY <2>1 DEF Agrees
  <2>3. StillOff.cmd = "STILL"
    BY DEF StillOff
  <2>4. StillOff \in P
    BY <2>2, <2>3
  <2> QED
    BY <2>4 DEF LeadsAll, Precedes
<1>3. /\ q \in Modes /\ q.live_mode = b /\ q.still_mode = FALSE
      /\ q.is_paused = p.is_paused /\ q.is_trickspeed = p.is_trickspeed
      /\ Cleared(p, q) \/ (q.tuning = p.tuning /\ q.speed = p.speed)
  <2>1. b \in BOOLEAN /\ q = Playback!IpSetLiveMode(p, b) /\ p \in Modes
    BY <1>1
  <2> QED
    BY ONLY ZenonT(30), <2>1, <1>2, LiveFacts
<1>4. AnyOf({x} \cup P, "TRICKSPEED") => AnyOf(P, "TRICKSPEED")
  BY DEF AnyOf
<1> QED
  BY <1>1, <1>3, <1>4 DEF Agrees, Cleared

LEMMA StillKeeps ==
  ASSUME NEW p \in Modes, NEW v, Wished(v), NEW x \in Commands, x.cmd = "STILL", NEW P,
         Fits({x} \cup P, v), LeadsAll(x, P), Agrees(p, p.live_mode, {x} \cup P, v),
         NEW q, q = Playback!IpSetStillMode(p, x.arg)
  PROVE  q \in Modes /\ q.live_mode = p.live_mode /\ Agrees(q, q.live_mode, P, v)
<1>1. /\ x.arg = FALSE \/ (x.arg = TRUE /\ v.still = TRUE /\ v.speed = 1)
      /\ v.speed \in {0, 1, 2, -2}
  BY DEF Fits, Wished, Wishes
<1>2. /\ AnyOf({x} \cup P, "TRICKSPEED") => AnyOf(P, "TRICKSPEED")
      /\ AnyOf({x} \cup P, "LIVE") => AnyOf(P, "LIVE")
  BY DEF AnyOf
<1>3. CASE x.arg = FALSE
  <2>1. /\ q \in Modes /\ q.live_mode = p.live_mode /\ Agrees(q, p.live_mode, {x} \cup P, v)
        /\ q.still_mode = FALSE
    BY ZenonT(30), <1>3, StillOffKeeps
  <2> QED
    BY <1>2, <2>1 DEF Agrees
<1>4. CASE x.arg = TRUE
  <2>1. v.still = TRUE /\ v.speed = 1
    BY <1>1, <1>4
  <2>2. CASE p.live_mode = TRUE
    <3>1. q = p
      BY <1>4, <2>2 DEF Playback!IpSetStillMode
    <3> QED
      BY <1>2, <2>1, <3>1 DEF Agrees
  <2>3. CASE p.live_mode = FALSE
    <3>1. ~AnyOf({x} \cup P, "TRICKSPEED")
      BY <1>4 DEF AnyOf, LeadsAll, Precedes
    <3>2. /\ p.is_paused = FALSE /\ p.is_trickspeed = FALSE
      BY <2>1, <3>1 DEF Agrees, Modes
    <3> PICK a : a = [p EXCEPT !.still_mode = TRUE]
      OBVIOUS
    <3>3. /\ a \in Modes /\ a.live_mode = FALSE /\ a.still_mode = TRUE
          /\ a.is_paused = FALSE /\ a.is_trickspeed = FALSE
          /\ a.tuning = p.tuning /\ a.speed = p.speed
      BY <2>3, <3>2 DEF Modes
    <3>4. q = Playback!ResetTuning(a)
      BY <1>4, <2>3 DEF Playback!IpSetStillMode
    <3>5. Kept(a, q) /\ Cleared(a, q)
      BY <3>3, <3>4, ResetFacts
    <3>6. (q.tuning = "off" /\ q.speed = 1) \/ (q.tuning = p.tuning /\ p.tuning = "off" /\ q.speed = p.speed)
      BY <3>3, <3>5 DEF Cleared
    <3>7. p.tuning # "SCR_TUNING_PAUSED" => p.speed = 1
      BY <2>1, <3>1 DEF Agrees
    <3>8. q.tuning = "off" /\ q.speed = 1
      BY <3>6, <3>7
    <3>9. /\ q \in Modes /\ q.live_mode = FALSE /\ q.still_mode = TRUE
          /\ q.is_paused = FALSE /\ q.is_trickspeed = FALSE
      BY <3>3, <3>5 DEF Kept
    <3>10. AnyOf(P, "LIVE") \/ FALSE = v.m_bLiveMode
      BY <1>2, <2>3 DEF Agrees
    <3> QED
      <4>1. q.is_paused = TRUE <=> v.speed = 0
        BY <2>1, <3>9
      <4>2. q.is_trickspeed = TRUE <=> v.speed \in {2, -2}
        BY <2>1, <3>9
      <4>3. AnyOf(P, "LIVE") \/ q.live_mode = v.m_bLiveMode
        BY <3>9, <3>10
      <4> QED
        BY ONLY <2>1, <2>3, <3>8, <3>9, <4>1, <4>2, <4>3 DEF Agrees
  <2> QED
    BY <2>2, <2>3 DEF Modes
<1> QED
  BY <1>1, <1>3, <1>4

LEMMA TrickKeeps ==
  ASSUME NEW p \in Modes, NEW v, Wished(v), NEW x \in Commands, x.cmd = "TRICKSPEED", NEW P,
         Fits({x} \cup P, v), Agrees(p, p.live_mode, {x} \cup P, v),
         NEW q, q = Playback!IpSetTrickSpeed(p, x.arg)
  PROVE  q \in Modes /\ q.live_mode = p.live_mode /\ Agrees(q, q.live_mode, P, v)
<1> PICK n : n = x.arg
  OBVIOUS
<1>1. /\ n = v.speed /\ n \in {0, 1, 2, -2}
      /\ n \in {2, -2} => v.m_bLiveMode = FALSE /\ ~AnyOf({x} \cup P, "LIVE")
  BY DEF Fits, Wished, Wishes
<1>2. /\ ~(p.still_mode = TRUE /\ p.live_mode = TRUE)
      /\ n \in {2, -2} => p.live_mode = FALSE
      /\ p.tuning = "SCR_TUNING_PAUSED" => p.is_trickspeed = FALSE /\ p.still_mode = FALSE /\ p.speed \in {0, 1}
  BY <1>1 DEF Agrees
<1>3. /\ q \in Modes /\ q.live_mode = p.live_mode
      /\ q.is_paused = TRUE <=> n = 0
      /\ q.is_trickspeed = TRUE <=> n \in {2, -2}
      /\ q.still_mode = (IF n = 0 THEN p.still_mode ELSE FALSE)
      /\ \/ q.tuning = "SCR_TUNING_PAUSED" /\ p.tuning = "SCR_TUNING_PAUSED"
            /\ q.speed = p.speed /\ n \in {0, 1}
         \/ q.tuning # "SCR_TUNING_PAUSED" /\ q.speed = n
  <2>1. n \in {0, 1, 2, -2} /\ q = Playback!IpSetTrickSpeed(p, n) /\ p \in Modes
    BY <1>1
  <2>2. AtSpeed(p, n, q)
    BY ONLY <2>1, <1>2, TrickFacts
  <2> QED
    BY <2>2 DEF AtSpeed
<1>4. AnyOf({x} \cup P, "LIVE") => AnyOf(P, "LIVE")
  BY DEF AnyOf
<1>5. StillOff \in {x} \cup P => StillOff \in P
  BY DEF StillOff
<1>6. AnyOf(P, "LIVE") \/ q.live_mode = v.m_bLiveMode
  BY <1>3, <1>4 DEF Agrees
<1>7. q.live_mode = TRUE => q.still_mode = FALSE
  BY <1>3 DEF Agrees
<1>8. q.still_mode = TRUE /\ v.still = FALSE => StillOff \in P
  BY <1>3, <1>5 DEF Agrees
<1>9. q.tuning = "SCR_TUNING_PAUSED" => q.speed \in {0, 1} /\ q.still_mode = FALSE /\ q.is_trickspeed = FALSE
  <2> SUFFICES ASSUME q.tuning = "SCR_TUNING_PAUSED"
               PROVE  q.speed \in {0, 1} /\ q.still_mode = FALSE /\ q.is_trickspeed = FALSE
    OBVIOUS
  <2>1. n \in {0, 1} /\ p.tuning = "SCR_TUNING_PAUSED" /\ q.speed = p.speed
    BY <1>3
  <2>2. q.is_trickspeed \in BOOLEAN /\ q.is_trickspeed # TRUE
    <3>1. q \in Modes /\ (q.is_trickspeed = TRUE => n \in {2, -2})
      BY <1>3
    <3>2. n \notin {2, -2}
      BY <2>1
    <3> QED
      BY ONLY <3>1, <3>2 DEF Modes
  <2> QED
    BY <1>2, <1>3, <2>1, <2>2
<1> QED
  BY <1>1, <1>3, <1>6, <1>7, <1>8, <1>9 DEF Agrees

\* DISCARD, BLANK, FLUSH and PLAYFILE ask for no mode.
LEMMA ModelessKeeps ==
  ASSUME NEW p, NEW on, NEW v, NEW x, x.cmd \notin {"LIVE", "STILL", "TRICKSPEED"}, NEW P,
         Agrees(p, on, {x} \cup P, v)
  PROVE  Agrees(p, on, P, v)
<1>1. /\ AnyOf({x} \cup P, "TRICKSPEED") => AnyOf(P, "TRICKSPEED")
      /\ AnyOf({x} \cup P, "LIVE") => AnyOf(P, "LIVE")
  BY DEF AnyOf
<1>2. StillOff \in {x} \cup P => StillOff \in P
  BY DEF StillOff
<1> QED
  BY <1>1, <1>2 DEF Agrees

-----------------------------------------------------------------------------
(* The threads.                                                             *)

LEMMA FewerFit ==
  ASSUME NEW P, NEW Q, Q \subseteq P, NEW v, Fits(P, v)
  PROVE  Fits(Q, v)
<1>1. AnyOf(Q, "LIVE") => AnyOf(P, "LIVE")
  BY DEF AnyOf
<1> QED
  BY <1>1 DEF Fits

\* The next command x of a control thread that is where it takes one, or at
\* the end of one.
LEMMA NextFacts ==
  ASSUME PbInv, ctl.todo # <<>>,
         NEW x, x = Head(ctl.todo), NEW P, P = Pending(Tail(ctl.todo))
  PROVE  /\ x \in Commands /\ Tail(ctl.todo) \in Seq(Commands)
         /\ Fits({x} \cup P, vdr) /\ Fits(P, vdr) /\ LeadsAll(x, P)
         /\ InOrder(Tail(ctl.todo)) /\ Wished(vdr)
         /\ Agrees(ip, LiveNow(ip, ctl), {x} \cup P, vdr)
         /\ ip \in Modes /\ ctl \in Controls /\ slave \in Slaves
<1>1. /\ ctl.todo \in Seq(Commands) /\ InOrder(ctl.todo)
  BY DEF PbInv, PbSound, Controls
<1>2. /\ Tail(ctl.todo) \in Seq(Commands) /\ x \in Commands
      /\ Pending(ctl.todo) = {x} \cup P
      /\ InOrder(Tail(ctl.todo)) /\ LeadsAll(x, P)
  BY <1>1, LessPending DEF LeadsAll
<1>3. Fits({x} \cup P, vdr) /\ Agrees(ip, LiveNow(ip, ctl), {x} \cup P, vdr)
  BY <1>2 DEF PbInv, PbSound
<1>4. Fits(P, vdr)
  BY <1>3, FewerFit
<1> QED
  BY <1>2, <1>3, <1>4 DEF PbInv, PbSound

LEMMA HandledKeeps ==
  ASSUME PbInv, ctl.todo # <<>>, Playback!Handled, UNCHANGED vdr,
         ip' \in Modes, slave' \in Slaves, slave'.shown = slave'.open,
         Agrees(ip', ip'.live_mode, Pending(Tail(ctl.todo)), vdr)
  PROVE  PbInv'
<1> PICK c : c = ctl'
  OBVIOUS
<1> PICK p : p = ip'
  OBVIOUS
<1> PICK sl : sl = slave'
  OBVIOUS
<1> PICK t : t = Tail(ctl.todo)
  OBVIOUS
<1>1. /\ t \in Seq(Commands) /\ Fits(Pending(t), vdr) /\ InOrder(t) /\ Wished(vdr)
      /\ ctl \in Controls
  BY NextFacts
<1>2. c = [ctl EXCEPT !.todo = t, !.pc = "idle"]
  BY DEF Playback!Handled
<1>3. c \in Controls /\ c.todo = t /\ c.pc = "idle"
  BY <1>1, <1>2 DEF Controls
<1>4. Agrees(p, LiveNow(p, c), Pending(c.todo), vdr)
  BY <1>3 DEF LiveNow
<1>5. Handles(c, sl)
  BY <1>3 DEF Handles
<1>6. PbSound(p, sl, c, vdr)
  BY <1>1, <1>3, <1>4, <1>5 DEF PbSound
<1> QED
  BY <1>6, PbPrimed

\* Steps of the demuxer thread, which leave live mode alone.
LEMMA ModesKeep ==
  ASSUME PbInv, UNCHANGED <<slave, ctl, vdr>>, ip' \in Modes, ip'.live_mode = ip.live_mode,
         Agrees(ip', LiveNow(ip, ctl), Pending(ctl.todo), vdr)
  PROVE  PbInv'
<1> PICK p : p = ip'
  OBVIOUS
<1>1. LiveNow(p, ctl) = LiveNow(ip, ctl)
  BY DEF LiveNow
<1>2. PbSound(p, slave, ctl, vdr)
  BY <1>1 DEF PbInv, PbSound
<1> QED
  BY <1>2, PbPrimed

LEMMA HandleModeKeeps == ASSUME PbInv, Playback!HandleMode PROVE PbInv'
<1> PICK p : p = ip'
  OBVIOUS
<1> PICK x : x = Head(ctl.todo)
  OBVIOUS
<1> PICK P : P = Pending(Tail(ctl.todo))
  OBVIOUS
<1>1. /\ ctl.pc = "idle" /\ ctl.todo # <<>> /\ Playback!Handled /\ UNCHANGED <<slave, vdr>>
      /\ \/ x.cmd = "LIVE" /\ p = Playback!IpSetLiveMode(ip, x.arg)
         \/ x.cmd = "STILL" /\ p = Playback!IpSetStillMode(ip, x.arg)
         \/ x.cmd = "TRICKSPEED" /\ p = Playback!IpSetTrickSpeed(ip, x.arg)
  BY DEF Playback!HandleMode, Playback!IsNext, Playback!Arg
<1>2. /\ x \in Commands /\ Fits({x} \cup P, vdr) /\ LeadsAll(x, P) /\ Wished(vdr)
      /\ Agrees(ip, LiveNow(ip, ctl), {x} \cup P, vdr)
      /\ ip \in Modes /\ slave \in Slaves
  BY <1>1, NextFacts
<1>3. Agrees(ip, ip.live_mode, {x} \cup P, vdr)
  BY <1>1, <1>2 DEF LiveNow
<1>4. p \in Modes /\ Agrees(p, p.live_mode, P, vdr)
  BY ZenonT(30), <1>1, <1>2, <1>3, LiveKeeps, StillKeeps, TrickKeeps
<1>5. slave.shown = slave.open
  BY <1>1 DEF PbInv, PbSound, Handles
<1> QED
  BY <1>1, <1>2, <1>4, <1>5, HandledKeeps

LEMMA HandleDiscardKeeps == ASSUME PbInv, Playback!HandleDiscard PROVE PbInv'
<1> PICK p : p = ip'
  OBVIOUS
<1> PICK x : x = Head(ctl.todo)
  OBVIOUS
<1> PICK P : P = Pending(Tail(ctl.todo))
  OBVIOUS
<1>1. ctl.pc = "idle" /\ ctl.todo # <<>> /\ x.cmd = "DISCARD" /\ UNCHANGED <<slave, vdr>>
  BY DEF Playback!HandleDiscard, Playback!IsNext
<1>2. /\ x \in Commands /\ Fits({x} \cup P, vdr) /\ Wished(vdr)
      /\ Agrees(ip, LiveNow(ip, ctl), {x} \cup P, vdr)
      /\ ip \in Modes /\ slave \in Slaves /\ ctl \in Controls
  BY <1>1, NextFacts
<1>3. Agrees(ip, ip.live_mode, {x} \cup P, vdr)
  BY <1>1, <1>2 DEF LiveNow
<1>4. slave.shown = slave.open
  BY <1>1 DEF PbInv, PbSound, Handles
<1>5. CASE Playback!Handled /\ UNCHANGED ip
  <2>1. Agrees(ip, ip.live_mode, P, vdr)
    BY <1>1, <1>3, ModelessKeeps
  <2> QED
    BY <1>1, <1>2, <1>4, <1>5, <2>1, HandledKeeps
<1>6. CASE ~(Playback!Handled /\ UNCHANGED ip)
  <2> PICK r : r = Playback!ResetTuning(ip)
    OBVIOUS
  <2>1. /\ p = IF r.speed = 0 THEN [r EXCEPT !.speed = 1] ELSE r
        /\ ctl' = [ctl EXCEPT !.pc = "seek"]
    BY <1>6 DEF Playback!HandleDiscard
  <2>2. r \in Modes /\ Agrees(r, ip.live_mode, {x} \cup P, vdr) /\ r.live_mode = ip.live_mode
    BY <1>2, <1>3, ResetFacts, ResetKeeps DEF Kept
  <2>3. vdr.speed = 1
    BY <1>1, <1>2 DEF Fits
  <2>4. p \in Modes /\ p.live_mode = ip.live_mode /\ Agrees(p, ip.live_mode, {x} \cup P, vdr)
    <3>1. CASE r.speed = 0
      <4>1. p = [r EXCEPT !.speed = 1]
        BY <2>1, <3>1
      <4>2. Kept(r, p) /\ p.tuning = r.tuning /\ p.speed = 1
        BY <2>2, <4>1 DEF Kept, Modes
      <4> QED
        BY <2>2, <2>3, <4>2 DEF Agrees, Kept
    <3>2. CASE r.speed # 0
      BY <2>1, <2>2, <3>2
    <3> QED
      BY <3>1, <3>2
  <2> PICK c : c = ctl'
    OBVIOUS
  <2>5. c \in Controls /\ c.todo = ctl.todo /\ c.pc = "seek"
    BY <1>2, <2>1 DEF Controls
  <2>6. Pending(ctl.todo) = {x} \cup P
    BY <1>1, LessPending DEF PbInv, PbSound, Controls
  <2>7. Agrees(p, LiveNow(p, c), Pending(c.todo), vdr)
    BY <2>4, <2>5, <2>6 DEF LiveNow
  <2>8. Handles(c, slave)
    BY <1>1, <1>4, <2>5 DEF Handles
  <2>9. PbSound(p, slave, c, vdr)
    BY <2>4, <2>5, <2>7, <2>8 DEF PbInv, PbSound
  <2> QED
    BY <1>1, <2>9, PbPrimed
<1> QED
  BY <1>5, <1>6

LEMMA SeekDoneKeeps == ASSUME PbInv, Playback!HandleSeekDone PROVE PbInv'
<1> PICK p : p = ip'
  OBVIOUS
<1> PICK x : x = Head(ctl.todo)
  OBVIOUS
<1> PICK P : P = Pending(Tail(ctl.todo))
  OBVIOUS
<1> PICK r : r = Playback!ResetTuning(ip)
  OBVIOUS
<1>1. /\ ctl.pc = "seek" /\ p = [r EXCEPT !.stream_start = TRUE]
      /\ Playback!Handled /\ UNCHANGED <<slave, vdr>>
  BY DEF Playback!HandleSeekDone
<1>2. ctl.todo # <<>> /\ x.cmd = "DISCARD" /\ slave.shown = slave.open
  BY <1>1 DEF PbInv, PbSound, Handles
<1>3. /\ Wished(vdr) /\ Agrees(ip, LiveNow(ip, ctl), {x} \cup P, vdr)
      /\ ip \in Modes /\ slave \in Slaves
  BY <1>2, NextFacts
<1>4. Agrees(ip, ip.live_mode, P, vdr)
  <2>1. LiveNow(ip, ctl) = ip.live_mode
    BY <1>1 DEF LiveNow
  <2> QED
    BY <1>2, <1>3, <2>1, ModelessKeeps
<1>5. r \in Modes /\ r.live_mode = ip.live_mode /\ Agrees(r, ip.live_mode, P, vdr)
  BY <1>3, <1>4, ResetFacts, ResetKeeps DEF Kept
<1>6. Kept(r, p) /\ p.tuning = r.tuning /\ p.speed = r.speed
  BY <1>1, <1>5 DEF Kept, Modes
<1>7. p \in Modes /\ Agrees(p, p.live_mode, P, vdr)
  BY <1>5, <1>6 DEF Kept, Agrees
<1> QED
  BY <1>1, <1>2, <1>3, <1>7, HandledKeeps

LEMMA HandleBlankKeeps == ASSUME PbInv, Playback!HandleBlank PROVE PbInv'
<1> PICK x : x = Head(ctl.todo)
  OBVIOUS
<1> PICK P : P = Pending(Tail(ctl.todo))
  OBVIOUS
<1>1. /\ ctl.pc = "idle" /\ ctl.todo # <<>> /\ x.cmd = "BLANK"
      /\ Playback!Handled /\ UNCHANGED <<ip, slave, vdr>>
  BY DEF Playback!HandleBlank, Playback!IsNext
<1>2. /\ Agrees(ip, LiveNow(ip, ctl), {x} \cup P, vdr) /\ ip \in Modes /\ slave \in Slaves
  BY <1>1, NextFacts
<1>3. LiveNow(ip, ctl) = ip.live_mode /\ slave.shown = slave.open
  BY <1>1 DEF LiveNow, PbInv, PbSound, Handles
<1>4. Agrees(ip, ip.live_mode, P, vdr)
  BY <1>1, <1>2, <1>3, ModelessKeeps
<1> QED
  BY <1>1, <1>2, <1>3, <1>4, HandledKeeps

LEMMA HandleFlushKeeps == ASSUME PbInv, Playback!HandleFlush PROVE PbInv'
<1> PICK x : x = Head(ctl.todo)
  OBVIOUS
<1> PICK P : P = Pending(Tail(ctl.todo))
  OBVIOUS
<1>1. ctl.pc = "idle" /\ ctl.todo # <<>> /\ x.cmd = "FLUSH" /\ UNCHANGED <<slave, vdr>>
  BY DEF Playback!HandleFlush, Playback!IsNext
<1>2. /\ Agrees(ip, LiveNow(ip, ctl), {x} \cup P, vdr) /\ ip \in Modes /\ slave \in Slaves
      /\ Wished(vdr) /\ ctl \in Controls
  BY <1>1, NextFacts
<1>3. LiveNow(ip, ctl) = ip.live_mode /\ slave.shown = slave.open
  BY <1>1 DEF LiveNow, PbInv, PbSound, Handles
<1>4. CASE PlayRemote
  <2> PICK a : a = [ip EXCEPT !.live_mode = FALSE]
    OBVIOUS
  <2> PICK p : p = ip'
    OBVIOUS
  <2> PICK l : l = ip.live_mode
    OBVIOUS
  <2> PICK c : c = ctl'
    OBVIOUS
  <2>1. p = Playback!ResetTuning(a) /\ c = [ctl EXCEPT !.pc = "flush", !.live = l]
    BY <1>4 DEF Playback!HandleFlush
  <2>2. /\ a \in Modes /\ a.live_mode = FALSE /\ a.still_mode = ip.still_mode
        /\ a.is_paused = ip.is_paused /\ a.is_trickspeed = ip.is_trickspeed
        /\ a.tuning = ip.tuning /\ a.speed = ip.speed
    BY <1>2 DEF Modes
  <2>3. Agrees(a, l, {x} \cup P, vdr)
    BY <1>2, <1>3, <2>2 DEF Agrees
  <2>4. p \in Modes /\ Agrees(p, l, {x} \cup P, vdr)
    BY <1>2, <2>1, <2>2, <2>3, ResetKeeps
  <2>5. l \in BOOLEAN
    BY <1>2 DEF Modes
  <2>6. c \in Controls /\ c.todo = ctl.todo /\ c.pc = "flush" /\ c.live = l
    BY <1>2, <2>1, <2>5 DEF Controls
  <2>7. Pending(ctl.todo) = {x} \cup P
    BY <1>1, LessPending DEF PbInv, PbSound, Controls
  <2>8. Agrees(p, LiveNow(p, c), Pending(c.todo), vdr)
    BY <2>4, <2>6, <2>7 DEF LiveNow
  <2>9. Handles(c, slave)
    BY <1>1, <1>3, <2>6 DEF Handles
  <2>10. PbSound(p, slave, c, vdr)
    BY <2>4, <2>6, <2>8, <2>9 DEF PbInv, PbSound
  <2> QED
    BY <1>1, <2>10, PbPrimed
<1>5. CASE ~PlayRemote
  <2>1. Playback!Handled /\ UNCHANGED ip
    BY <1>5 DEF Playback!HandleFlush
  <2>2. Agrees(ip, ip.live_mode, P, vdr)
    BY <1>1, <1>2, <1>3, ModelessKeeps
  <2> QED
    BY <1>1, <1>2, <1>3, <2>1, <2>2, HandledKeeps
<1> QED
  BY <1>4, <1>5

LEMMA FlushDoneKeeps == ASSUME PbInv, Playback!FlushDone PROVE PbInv'
<1> PICK p : p = ip'
  OBVIOUS
<1> PICK x : x = Head(ctl.todo)
  OBVIOUS
<1> PICK P : P = Pending(Tail(ctl.todo))
  OBVIOUS
<1> PICK r : r = Playback!ResetTuning(ip)
  OBVIOUS
<1> PICK l : l = ctl.live
  OBVIOUS
<1>1. /\ ctl.pc = "flush" /\ p = [r EXCEPT !.live_mode = l]
      /\ Playback!Handled /\ UNCHANGED <<slave, vdr>>
  BY DEF Playback!FlushDone
<1>2. ctl.todo # <<>> /\ x.cmd = "FLUSH" /\ slave.shown = slave.open
  BY <1>1 DEF PbInv, PbSound, Handles
<1>3. /\ Wished(vdr) /\ Agrees(ip, LiveNow(ip, ctl), {x} \cup P, vdr)
      /\ ip \in Modes /\ slave \in Slaves /\ l \in BOOLEAN
  BY <1>2, NextFacts DEF Controls
<1>4. Agrees(ip, l, P, vdr)
  <2>1. LiveNow(ip, ctl) = l
    BY <1>1 DEF LiveNow
  <2> QED
    BY <1>2, <1>3, <2>1, ModelessKeeps
<1>5. r \in Modes /\ Agrees(r, l, P, vdr)
  BY <1>3, <1>4, ResetFacts, ResetKeeps DEF Kept
<1>6. /\ p \in Modes /\ p.live_mode = l /\ p.still_mode = r.still_mode
      /\ p.is_paused = r.is_paused /\ p.is_trickspeed = r.is_trickspeed
      /\ p.tuning = r.tuning /\ p.speed = r.speed
  BY <1>1, <1>3, <1>5 DEF Modes
<1>7. Agrees(p, p.live_mode, P, vdr)
  BY <1>5, <1>6 DEF Agrees
<1> QED
  BY <1>1, <1>2, <1>3, <1>6, <1>7, HandledKeeps

LEMMA ClosedIsSlave == Playback!ClosedSlave \in Slaves /\ Playback!ClosedSlave.shown = Playback!ClosedSlave.open
BY DEF Playback!ClosedSlave, Slaves

LEMMA HandlePlayFileKeeps == ASSUME PbInv, Playback!HandlePlayFile PROVE PbInv'
<1> PICK x : x = Head(ctl.todo)
  OBVIOUS
<1> PICK P : P = Pending(Tail(ctl.todo))
  OBVIOUS
<1>1. ctl.pc = "idle" /\ ctl.todo # <<>> /\ x.cmd = "PLAYFILE" /\ UNCHANGED <<ip, vdr>>
  BY DEF Playback!HandlePlayFile, Playback!IsNext
<1>2. /\ Agrees(ip, LiveNow(ip, ctl), {x} \cup P, vdr) /\ ip \in Modes /\ ctl \in Controls
  BY <1>1, NextFacts
<1>3. LiveNow(ip, ctl) = ip.live_mode
  BY <1>1 DEF LiveNow
<1>4. CASE Playback!Arg
  <2> PICK sl : sl = slave'
    OBVIOUS
  <2> PICK c : c = ctl'
    OBVIOUS
  <2>1. sl = [Playback!ClosedSlave EXCEPT !.open = TRUE] /\ c = [ctl EXCEPT !.pc = "opened"]
    BY <1>4 DEF Playback!HandlePlayFile
  <2>2. sl \in Slaves /\ sl.open = TRUE
    BY <2>1 DEF Slaves, Playback!ClosedSlave
  <2>3. c \in Controls /\ c.todo = ctl.todo /\ c.pc = "opened"
    BY <1>2, <2>1 DEF Controls
  <2>4. LiveNow(ip, c) = LiveNow(ip, ctl)
    BY <1>1, <2>3 DEF LiveNow
  <2>5. Handles(c, sl)
    BY <1>1, <2>2, <2>3 DEF Handles
  <2>6. PbSound(ip, sl, c, vdr)
    BY <2>2, <2>3, <2>4, <2>5 DEF PbInv, PbSound
  <2> QED
    BY <1>1, <2>6, PbPrimed
<1>5. CASE ~Playback!Arg
  <2>1. Playback!Handled /\ slave' = Playback!ClosedSlave
    BY <1>5 DEF Playback!HandlePlayFile
  <2>2. Agrees(ip, ip.live_mode, P, vdr)
    BY <1>1, <1>2, <1>3, ModelessKeeps
  <2> QED
    BY <1>1, <1>2, <2>1, <2>2, HandledKeeps, ClosedIsSlave
<1> QED
  BY <1>4, <1>5

LEMMA PlayFileEndsKeeps == ASSUME PbInv, Playback!PlayFileFails \/ Playback!PlayFilePlays PROVE PbInv'
<1> PICK x : x = Head(ctl.todo)
  OBVIOUS
<1> PICK P : P = Pending(Tail(ctl.todo))
  OBVIOUS
<1>1. /\ ctl.pc \in {"opened", "resting"} /\ Playback!Handled /\ UNCHANGED <<ip, vdr>>
      /\ \/ slave' = Playback!ClosedSlave
         \/ \E image \in BOOLEAN : slave' = [slave EXCEPT !.shown = TRUE, !.background = image]
  BY DEF Playback!PlayFileFails, Playback!PlayFilePlays
<1>2. ctl.todo # <<>> /\ x.cmd = "PLAYFILE" /\ slave.open = TRUE
  BY <1>1 DEF PbInv, PbSound, Handles
<1>3. /\ Agrees(ip, LiveNow(ip, ctl), {x} \cup P, vdr) /\ ip \in Modes /\ slave \in Slaves
  BY <1>2, NextFacts
<1>4. LiveNow(ip, ctl) = ip.live_mode
  BY <1>1 DEF LiveNow
<1>5. Agrees(ip, ip.live_mode, P, vdr)
  BY <1>2, <1>3, <1>4, ModelessKeeps
<1> PICK sl : sl = slave'
  OBVIOUS
<1>6. sl \in Slaves /\ sl.shown = sl.open
  <2>1. CASE sl = Playback!ClosedSlave
    BY <2>1, ClosedIsSlave
  <2>2. ASSUME NEW image \in BOOLEAN, sl = [slave EXCEPT !.shown = TRUE, !.background = image]
        PROVE  sl \in Slaves /\ sl.shown = TRUE /\ sl.open = TRUE
    BY <1>2, <1>3, <2>2 DEF Slaves
  <2> QED
    BY <1>1, <2>1, <2>2
<1> QED
  BY <1>1, <1>2, <1>3, <1>5, <1>6, HandledKeeps

\* handle_control_playfile() leaves the main stream at normal speed.
AtRest(q) == /\ q \in Modes /\ q.live_mode = FALSE /\ q.still_mode = FALSE /\ q.is_paused = FALSE
             /\ q.is_trickspeed = FALSE /\ q.tuning = "off" /\ q.speed = 1

LEMMA NormalFacts ==
  ASSUME NEW p, NEW q, AtSpeed(p, 1, q)
  PROVE  /\ q \in Modes /\ q.live_mode = p.live_mode /\ q.still_mode = FALSE
         /\ q.is_paused = FALSE /\ q.is_trickspeed = FALSE
         /\ q.tuning # "SCR_TUNING_PAUSED" => q.speed = 1
<1> PICK n : n = 1
  OBVIOUS
<1>1. n # 0 /\ n \notin {2, -2}
  OBVIOUS
<1>2. AtSpeed(p, n, q)
  OBVIOUS
<1>3. /\ q \in Modes /\ q.live_mode = p.live_mode
      /\ q.is_paused # TRUE /\ q.is_trickspeed # TRUE
      /\ q.tuning # "SCR_TUNING_PAUSED" => q.speed = n
      /\ q.still_mode = FALSE
  BY <1>1, <1>2 DEF AtSpeed
<1>4. q.is_paused \in BOOLEAN /\ q.is_trickspeed \in BOOLEAN
  BY <1>3 DEF Modes
<1> QED
  BY <1>3, <1>4

LEMMA RestFacts ==
  ASSUME NEW p \in Modes, p.live_mode = FALSE,
         p.tuning = "SCR_TUNING_PAUSED" => p.is_trickspeed = FALSE,
         NEW t, t = Playback!IpSetTrickSpeed(p, 1),
         NEW l, l = Playback!IpSetLiveMode([t EXCEPT !.live_mode = TRUE], FALSE),
         NEW q, q = Playback!ResetTuning(Playback!IpSetTrickSpeed(l, 1))
  PROVE  AtRest(q)
<1>1. AtSpeed(p, 1, t)
  BY TrickFacts
<1>2. t \in Modes /\ t.still_mode = FALSE /\ t.is_paused = FALSE /\ t.is_trickspeed = FALSE
  BY <1>1, NormalFacts
<1> PICK a : a = [t EXCEPT !.live_mode = TRUE]
  OBVIOUS
<1>3. a \in Modes /\ a.still_mode = FALSE /\ a.is_paused = FALSE /\ a.is_trickspeed = FALSE
  BY <1>2 DEF Modes
<1>4. /\ l \in Modes /\ l.live_mode = FALSE /\ l.still_mode = FALSE
      /\ l.is_paused = FALSE /\ l.is_trickspeed = FALSE
  <2>1. l = Playback!IpSetLiveMode(a, FALSE) /\ FALSE \in BOOLEAN
    OBVIOUS
  <2> QED
    BY ZenonT(30), <1>3, <2>1, LiveFacts
<1> PICK u : u = Playback!IpSetTrickSpeed(l, 1)
  OBVIOUS
<1>5. AtSpeed(l, 1, u)
  BY <1>4, TrickFacts
<1>6. u \in Modes /\ u.live_mode = FALSE /\ u.still_mode = FALSE /\ u.is_paused = FALSE /\ u.is_trickspeed = FALSE
  BY <1>4, <1>5, NormalFacts
<1>7. Kept(u, q) /\ Cleared(u, q)
  BY <1>6, ResetFacts
<1>8. u.tuning = "off" => u.speed = 1
  BY <1>5, NormalFacts
<1> QED
  BY <1>6, <1>7, <1>8 DEF Kept, Cleared, AtRest

LEMMA PlayFileRestsKeeps == ASSUME PbInv, Playback!PlayFileRests PROVE PbInv'
<1> PICK p : p = ip'
  OBVIOUS
<1> PICK c : c = ctl'
  OBVIOUS
<1> PICK v : v = vdr'
  OBVIOUS
<1> PICK x : x = Head(ctl.todo)
  OBVIOUS
<1> PICK P : P = Pending(Tail(ctl.todo))
  OBVIOUS
<1> PICK t : t = Playback!IpSetTrickSpeed(ip, 1)
  OBVIOUS
<1> PICK l : l = Playback!IpSetLiveMode([t EXCEPT !.live_mode = TRUE], FALSE)
  OBVIOUS
<1>1. /\ ctl.pc = "opened" /\ c = [ctl EXCEPT !.pc = "resting"] /\ UNCHANGED slave
      /\ p = Playback!ResetTuning(Playback!IpSetTrickSpeed(l, 1))
      /\ v = [vdr EXCEPT !.still = FALSE, !.speed = 1]
  BY DEF Playback!PlayFileRests
<1>2. ctl.todo # <<>> /\ x.cmd = "PLAYFILE" /\ slave.open = TRUE
  BY <1>1 DEF PbInv, PbSound, Handles
<1>3. /\ Agrees(ip, LiveNow(ip, ctl), {x} \cup P, vdr) /\ ip \in Modes /\ ctl \in Controls
      /\ Fits({x} \cup P, vdr) /\ Wished(vdr)
  BY <1>2, NextFacts
<1>4. vdr.m_bLiveMode = FALSE /\ \A y \in {x} \cup P : y.cmd = "PLAYFILE"
  BY <1>2, <1>3 DEF Fits
<1>5. /\ ip.live_mode = FALSE
      /\ ip.tuning = "SCR_TUNING_PAUSED" => ip.is_trickspeed = FALSE
  <2>1. LiveNow(ip, ctl) = ip.live_mode /\ ~AnyOf({x} \cup P, "LIVE")
    BY <1>1, <1>4 DEF LiveNow, AnyOf
  <2> QED
    BY <1>3, <1>4, <2>1 DEF Agrees
<1>6. AtRest(p)
  BY <1>1, <1>3, <1>5, RestFacts
<1>7. c \in Controls /\ c.todo = ctl.todo /\ c.pc = "resting"
  BY <1>1, <1>3 DEF Controls
<1>8. /\ v \in Wishes /\ v.m_bLiveMode = FALSE /\ v.still = FALSE /\ v.speed = 1
  BY <1>1, <1>3, <1>4 DEF Wishes, Wished
<1>9. Wished(v)
  BY <1>8 DEF Wished
<1>10. Pending(ctl.todo) = {x} \cup P
  BY <1>2, LessPending DEF PbInv, PbSound, Controls
<1>11. Fits({x} \cup P, v)
  BY <1>4, <1>8 DEF Fits
<1>12. Agrees(p, FALSE, {x} \cup P, v)
  BY <1>6, <1>8 DEF AtRest, Agrees
<1>13. LiveNow(p, c) = FALSE
  BY <1>6, <1>7 DEF LiveNow, AtRest
<1>14. Handles(c, slave)
  BY <1>2, <1>7 DEF Handles
<1>15. PbSound(p, slave, c, v)
  BY <1>6, <1>7, <1>9, <1>10, <1>11, <1>12, <1>13, <1>14 DEF AtRest, PbInv, PbSound
<1> QED
  BY <1>1, <1>15, PbPrimed

LEMMA ResetsKeep ==
  ASSUME PbInv, UNCHANGED <<slave, ctl, vdr>>, ip' = Playback!ResetTuning(ip)
  PROVE  PbInv'
<1> PICK p : p = ip'
  OBVIOUS
<1>1. /\ ip \in Modes /\ Wished(vdr) /\ Agrees(ip, LiveNow(ip, ctl), Pending(ctl.todo), vdr)
  BY DEF PbInv, PbSound
<1>2. p \in Modes /\ p.live_mode = ip.live_mode /\ Agrees(p, LiveNow(ip, ctl), Pending(ctl.todo), vdr)
  BY <1>1, ResetFacts, ResetKeeps DEF Kept
<1> QED
  BY <1>2, ModesKeep

LEMMA ReadAdjustsKeeps == ASSUME PbInv, Playback!ReadAdjusts PROVE PbInv'
<1>1. /\ UNCHANGED <<slave, ctl, vdr>>
      /\ ip' = Playback!ResetTuning(ip) \/ ip' \in Playback!Adjusted(ip, slave)
  BY DEF Playback!ReadAdjusts
<1>2. CASE ip' \in Playback!Adjusted(ip, slave)
  <2> PICK p : p = ip'
    OBVIOUS
  <2>1. /\ ip \in Modes /\ Wished(vdr) /\ Agrees(ip, LiveNow(ip, ctl), Pending(ctl.todo), vdr)
    BY DEF PbInv, PbSound
  <2>2. p \in Modes /\ p.live_mode = ip.live_mode /\ Agrees(p, LiveNow(ip, ctl), Pending(ctl.todo), vdr)
    BY <1>2, <2>1, AdjustedKeeps
  <2> QED
    BY <1>1, <2>2, ModesKeep
<1> QED
  BY <1>1, <1>2, ResetsKeep

LEMMA ReadPreprocessesKeeps == ASSUME PbInv, Playback!ReadPreprocesses PROVE PbInv'
<1> PICK p : p = ip'
  OBVIOUS
<1>1. /\ UNCHANGED <<slave, ctl, vdr>>
      /\ p = ip \/ p = Playback!QueueBlank(ip) \/ p = [ip EXCEPT !.stream_start = FALSE]
  BY DEF Playback!ReadPreprocesses
<1>2. /\ ip \in Modes /\ Wished(vdr) /\ Agrees(ip, LiveNow(ip, ctl), Pending(ctl.todo), vdr)
  BY DEF PbInv, PbSound
<1>3. CASE p = Playback!QueueBlank(ip)
  <2> PICK r : r = Playback!IpSetStillMode(ip, FALSE)
    OBVIOUS
  <2>1. r \in Modes /\ r.live_mode = ip.live_mode /\ Agrees(r, LiveNow(ip, ctl), Pending(ctl.todo), vdr)
    BY <1>2, StillOffKeeps
  <2>2. p = Playback!ResetTuning(r)
    BY <1>3 DEF Playback!QueueBlank
  <2>3. p \in Modes /\ p.live_mode = ip.live_mode /\ Agrees(p, LiveNow(ip, ctl), Pending(ctl.todo), vdr)
    BY <1>2, <2>1, <2>2, ResetFacts, ResetKeeps DEF Kept
  <2> QED
    BY <1>1, <2>3, ModesKeep
<1>4. CASE p = [ip EXCEPT !.stream_start = FALSE]
  <2>1. Kept(ip, p) /\ p.tuning = ip.tuning /\ p.speed = ip.speed
    BY <1>2, <1>4 DEF Kept, Modes
  <2>2. Agrees(p, LiveNow(ip, ctl), Pending(ctl.todo), vdr)
    BY <1>2, <2>1 DEF Kept, Agrees
  <2> QED
    BY <1>1, <2>1, <2>2, ModesKeep DEF Kept
<1>5. CASE p = ip
  BY <1>1, <1>2, <1>5, ModesKeep
<1> QED
  BY <1>1, <1>3, <1>4, <1>5

LEMMA ReadPostprocessesKeeps == ASSUME PbInv, Playback!ReadPostprocesses PROVE PbInv'
<1> PICK p : p = ip'
  OBVIOUS
<1>1. /\ UNCHANGED <<slave, ctl, vdr>>
      /\ p = ip \/ p = Playback!SetTuningPaused(ip, slave)
  BY DEF Playback!ReadPostprocesses
<1>2. /\ ip \in Modes /\ Wished(vdr) /\ Agrees(ip, LiveNow(ip, ctl), Pending(ctl.todo), vdr)
  BY DEF PbInv, PbSound
<1>3. p \in Modes /\ p.live_mode = ip.live_mode /\ Agrees(p, LiveNow(ip, ctl), Pending(ctl.todo), vdr)
  BY <1>1, <1>2, PausedKeeps
<1> QED
  BY <1>1, <1>3, ModesKeep

-----------------------------------------------------------------------------
(* The device's operations.                                                 *)

\* A script of the commands P, in order.
Script(s, P) == s \in Seq(Commands) /\ Pending(s) = P /\ InOrder(s)

\* What is remembered of a wish is asked for, or is so already.
AsksFor(P, v) ==
  /\ AnyOf(P, "LIVE") \/ vdr.m_bLiveMode = v.m_bLiveMode
  /\ StillOff \in P \/ v.still = vdr.still \/ v.still = TRUE
  /\ AnyOf(P, "TRICKSPEED") \/ v.speed = vdr.speed

LEMMA SendsKeep ==
  ASSUME PbInv, NEW s, NEW P, Script(s, P), NEW v, Wished(v), Fits(P, v), AsksFor(P, v),
         ctl.todo = <<>>, ctl.pc = "idle", ctl' = [ctl EXCEPT !.todo = s], vdr' = v,
         UNCHANGED <<ip, slave>>
  PROVE  PbInv'
<1> PICK c : c = ctl'
  OBVIOUS
<1>1. /\ ip \in Modes /\ slave \in Slaves /\ ctl \in Controls
      /\ Agrees(ip, LiveNow(ip, ctl), Pending(ctl.todo), vdr) /\ Handles(ctl, slave)
  BY DEF PbInv, PbSound
<1>2. c \in Controls /\ c.todo = s /\ c.pc = "idle"
  BY <1>1 DEF Controls, Script
<1>3. Agrees(ip, ip.live_mode, {}, vdr)
  BY <1>1, NothingPending DEF LiveNow
<1>4. LiveNow(ip, c) = ip.live_mode
  BY <1>2 DEF LiveNow
<1>5. Agrees(ip, ip.live_mode, P, v)
  <2>1. ~AnyOf({}, "LIVE") /\ ~AnyOf({}, "TRICKSPEED") /\ StillOff \notin {}
    BY DEF AnyOf
  <2> QED
    BY <1>3, <2>1 DEF Agrees, AsksFor
<1>6. Handles(c, slave)
  BY <1>1, <1>2 DEF Handles
<1>7. PbSound(ip, slave, c, v)
  BY <1>1, <1>2, <1>4, <1>5, <1>6 DEF PbSound, Script
<1> QED
  BY <1>7, PbPrimed

LEMMA Joined ==
  ASSUME NEW s, NEW P, Script(s, P), NEW t, NEW Q, Script(t, Q),
         \A y \in P, x \in Q : ~Precedes(x, y)
  PROVE  Script(s \o t, P \cup Q)
BY BothPending DEF Script

LEMMA Single ==
  ASSUME NEW x \in Commands
  PROVE  Script(<<x>>, {x})
BY OnePending DEF Script

LEMMA Nothing == Script(<<>>, {})
BY NothingPending DEF Script

\* The commands, and which of them must keep their order.
AskLive(on) == [cmd |-> "LIVE", arg |-> on]
AskStill(on) == [cmd |-> "STILL", arg |-> on]
AskSpeed(n) == [cmd |-> "TRICKSPEED", arg |-> n]
AskPlain(cmd) == [cmd |-> cmd, arg |-> 0]
AskFile(on) == [cmd |-> "PLAYFILE", arg |-> on]

LEMMA Scripts ==
  /\ \A on \in BOOLEAN : Script(Playback!LIVE(on), {AskLive(on)})
  /\ \A on \in BOOLEAN : Script(Playback!STILL(on), {AskStill(on)})
  /\ \A n \in {0, 1, 2, -2} : Script(Playback!TRICKSPEED(n), {AskSpeed(n)})
  /\ Script(Playback!DISCARD, {AskPlain("DISCARD")})
  /\ Script(Playback!BLANK, {AskPlain("BLANK")})
  /\ Script(Playback!FLUSH, {AskPlain("FLUSH")})
  /\ \A on \in BOOLEAN : Script(<<[cmd |-> "PLAYFILE", arg |-> on]>>, {AskFile(on)})
<1>1. ASSUME NEW on \in BOOLEAN
      PROVE  AskLive(on) \in Commands /\ AskStill(on) \in Commands /\ AskFile(on) \in Commands
  BY DEF AskLive, AskStill, AskFile, Commands
<1>2. ASSUME NEW n \in {0, 1, 2, -2} PROVE AskSpeed(n) \in Commands
  BY DEF AskSpeed, Commands
<1>3. \A cmd \in {"DISCARD", "BLANK", "FLUSH"} : AskPlain(cmd) \in Commands
  BY DEF AskPlain, Commands
<1>4. ASSUME NEW on \in BOOLEAN
      PROVE  /\ Script(Playback!LIVE(on), {AskLive(on)}) /\ Script(Playback!STILL(on), {AskStill(on)})
             /\ Script(<<[cmd |-> "PLAYFILE", arg |-> on]>>, {AskFile(on)})
  <2>1. /\ Playback!LIVE(on) = <<AskLive(on)>> /\ Playback!STILL(on) = <<AskStill(on)>>
        /\ <<[cmd |-> "PLAYFILE", arg |-> on]>> = <<AskFile(on)>>
    BY DEF AskLive, AskStill, AskFile, Playback!LIVE, Playback!STILL
  <2> QED
    BY <1>1, <2>1, Single
<1>5. ASSUME NEW n \in {0, 1, 2, -2} PROVE Script(Playback!TRICKSPEED(n), {AskSpeed(n)})
  <2>1. Playback!TRICKSPEED(n) = <<AskSpeed(n)>>
    BY DEF AskSpeed, Playback!TRICKSPEED
  <2> QED
    BY <1>2, <2>1, Single
<1>6. /\ Script(Playback!DISCARD, {AskPlain("DISCARD")})
      /\ Script(Playback!BLANK, {AskPlain("BLANK")})
      /\ Script(Playback!FLUSH, {AskPlain("FLUSH")})
  <2>1. /\ Playback!DISCARD = <<AskPlain("DISCARD")>> /\ Playback!BLANK = <<AskPlain("BLANK")>>
        /\ Playback!FLUSH = <<AskPlain("FLUSH")>>
    BY DEF AskPlain, Playback!DISCARD, Playback!BLANK, Playback!FLUSH
  <2> QED
    BY <1>3, <2>1, Single
<1> QED
  BY <1>4, <1>5, <1>6

\* Before commands that neither start live mode nor a still picture anything
\* may come but live mode, or a still picture before a speed.
LEMMA NoneFirst ==
  ASSUME NEW P, \A y \in P : y.cmd \in {"LIVE", "STILL"} => y.arg = FALSE
  PROVE  \A y \in P : \A x : ~Precedes(x, y)
BY DEF Precedes

\* LiveIfChanged() and SpeedIfChanged().
LEMMA IfChanged ==
  /\ \A on \in BOOLEAN : \E Q \in {{}, {AskLive(on)}} :
       /\ Script(Playback!LiveIfChanged(on), Q)
       /\ Q = {} => vdr.m_bLiveMode = on
  /\ \A n \in {0, 1, 2, -2} : \E Q \in {{}, {AskSpeed(n)}} :
       /\ Script(Playback!SpeedIfChanged(n), Q)
       /\ Q = {} => vdr.m_TrickSpeed = n
<1>1. ASSUME NEW on \in BOOLEAN
      PROVE  \E Q \in {{}, {AskLive(on)}} :
               Script(Playback!LiveIfChanged(on), Q) /\ (Q = {} => vdr.m_bLiveMode = on)
  <2>1. CASE vdr.m_bLiveMode = on
    <3>1. Playback!LiveIfChanged(on) = <<>>
      BY <2>1 DEF Playback!LiveIfChanged
    <3> QED
      BY <2>1, <3>1, Nothing
  <2>2. CASE vdr.m_bLiveMode # on
    <3>1. Playback!LiveIfChanged(on) = Playback!LIVE(on)
      BY <2>2 DEF Playback!LiveIfChanged
    <3> QED
      BY <3>1, Scripts
  <2> QED
    BY <2>1, <2>2
<1>2. ASSUME NEW n \in {0, 1, 2, -2}
      PROVE  \E Q \in {{}, {AskSpeed(n)}} :
               Script(Playback!SpeedIfChanged(n), Q) /\ (Q = {} => vdr.m_TrickSpeed = n)
  <2>1. CASE vdr.m_TrickSpeed = n
    <3>1. Playback!SpeedIfChanged(n) = <<>>
      BY <2>1 DEF Playback!SpeedIfChanged
    <3> QED
      BY <2>1, <3>1, Nothing
  <2>2. CASE vdr.m_TrickSpeed # n
    <3>1. Playback!SpeedIfChanged(n) = Playback!TRICKSPEED(n)
      BY <2>2 DEF Playback!SpeedIfChanged
    <3> QED
      BY <3>1, Scripts
  <2> QED
    BY <2>1, <2>2
<1> QED
  BY <1>1, <1>2

\* Commands that end live mode, stills and tricks, in any order.
Endings == {AskLive(FALSE), AskStill(FALSE), AskSpeed(1), AskPlain("DISCARD"), AskPlain("BLANK"),
            AskPlain("FLUSH")}

LEMMA CommandFacts ==
  /\ \A on : AskLive(on).cmd = "LIVE" /\ AskLive(on).arg = on
  /\ \A on : AskStill(on).cmd = "STILL" /\ AskStill(on).arg = on
  /\ \A n : AskSpeed(n).cmd = "TRICKSPEED" /\ AskSpeed(n).arg = n
  /\ \A cmd : AskPlain(cmd).cmd = cmd
  /\ \A on : AskFile(on).cmd = "PLAYFILE" /\ AskFile(on).arg = on
  /\ AskStill(FALSE) = StillOff
BY DEF AskLive, AskStill, AskSpeed, AskPlain, AskFile, StillOff

LEMMA EndingFacts ==
  \A y \in Endings : /\ y.cmd \in {"LIVE", "STILL", "TRICKSPEED", "DISCARD", "BLANK", "FLUSH"}
                     /\ y.cmd \in {"LIVE", "STILL"} => y.arg = FALSE
                     /\ y.cmd = "TRICKSPEED" => y.arg = 1
<1> SUFFICES ASSUME NEW y \in Endings
             PROVE  /\ y.cmd \in {"LIVE", "STILL", "TRICKSPEED", "DISCARD", "BLANK", "FLUSH"}
                    /\ y.cmd \in {"LIVE", "STILL"} => y.arg = FALSE
                    /\ y.cmd = "TRICKSPEED" => y.arg = 1
  OBVIOUS
<1>1. CASE y = AskLive(FALSE)
  BY <1>1 DEF AskLive
<1>2. CASE y = AskStill(FALSE)
  BY <1>2 DEF AskStill
<1>3. CASE y = AskSpeed(1)
  BY <1>3 DEF AskSpeed
<1>4. CASE y = AskPlain("DISCARD")
  BY <1>4 DEF AskPlain
<1>5. CASE y = AskPlain("BLANK")
  BY <1>5 DEF AskPlain
<1>6. CASE y = AskPlain("FLUSH")
  BY <1>6 DEF AskPlain
<1> QED
  BY <1>1, <1>2, <1>3, <1>4, <1>5, <1>6 DEF Endings

LEMMA EndingsJoined ==
  ASSUME NEW s, NEW P, Script(s, P), P \subseteq Endings, NEW t, NEW Q, Script(t, Q)
  PROVE  Script(s \o t, P \cup Q)
<1>1. \A y \in P : \A x : ~Precedes(x, y)
  BY EndingFacts, NoneFirst
<1> QED
  BY <1>1, Joined

LEMMA EndingsFit ==
  ASSUME NEW P, P \subseteq Endings, NEW v, v.m_bLiveMode = FALSE, v.speed = 1
  PROVE  Fits(P, v)
<1> SUFFICES ASSUME NEW x \in P
             PROVE  /\ x.cmd = "LIVE" => x.arg = v.m_bLiveMode
                    /\ x.cmd = "TRICKSPEED" => x.arg = v.speed
                    /\ v.speed \notin {2, -2}
                    /\ x.cmd = "STILL" => x.arg = FALSE
                    /\ x.cmd = "DISCARD" => v.speed = 1
                    /\ x.cmd # "PLAYFILE"
  BY DEF Fits
<1>1. /\ x.cmd \in {"LIVE", "STILL", "TRICKSPEED", "DISCARD", "BLANK", "FLUSH"}
      /\ x.cmd \in {"LIVE", "STILL"} => x.arg = FALSE
      /\ x.cmd = "TRICKSPEED" => x.arg = 1
  BY EndingFacts
<1>2. v.speed \notin {2, -2}
  OBVIOUS
<1>3. x.cmd = "LIVE" => x.arg = v.m_bLiveMode
  BY <1>1
<1> QED
  BY <1>1, <1>2, <1>3

\* An operation that leaves VDR in replay at normal speed, as its commands end
\* whatever was before.
LEMMA EndingSent ==
  ASSUME PbInv, NEW s, NEW P, Script(s, P), P \subseteq Endings,
         AskLive(FALSE) \in P \/ vdr.m_bLiveMode = FALSE,
         AskSpeed(1) \in P \/ vdr.speed = 1,
         NEW still \in BOOLEAN, StillOff \in P \/ still = vdr.still,
         Playback!Sends(s, FALSE, 1, still, 1)
  PROVE  PbInv'
<1> PICK v : v = [m_bLiveMode |-> FALSE, m_TrickSpeed |-> 1, still |-> still, speed |-> 1]
  OBVIOUS
<1>1. /\ v \in Wishes /\ v.m_bLiveMode = FALSE /\ v.m_TrickSpeed = 1 /\ v.still = still /\ v.speed = 1
  BY DEF Wishes
<1>2. Wished(v)
  BY <1>1 DEF Wished
<1>3. Fits(P, v)
  BY <1>1, EndingsFit
<1>4. AsksFor(P, v)
  <2>1. AskLive(FALSE) \in P => AnyOf(P, "LIVE")
    BY CommandFacts DEF AnyOf
  <2>2. AskSpeed(1) \in P => AnyOf(P, "TRICKSPEED")
    BY CommandFacts DEF AnyOf
  <2> QED
    BY <1>1, <2>1, <2>2 DEF AsksFor
<1>5. /\ ctl.todo = <<>> /\ ctl.pc = "idle" /\ ctl' = [ctl EXCEPT !.todo = s] /\ vdr' = v
      /\ UNCHANGED <<ip, slave>>
  BY DEF Playback!Sends
<1> QED
  BY <1>2, <1>3, <1>4, <1>5, SendsKeep

LEMMA WishFacts == PbInv => Wished(vdr) /\ vdr \in Wishes /\ (vdr.m_TrickSpeed = 1 => vdr.speed = 1)
                            /\ vdr.still \in BOOLEAN /\ vdr.m_bLiveMode \in BOOLEAN
BY DEF PbInv, PbSound, Wished, Wishes

LEMMA SetReplayModeKeeps == ASSUME PbInv, Playback!IpSetReplayMode PROVE PbInv'
<1> PICK b \in {<<>>, Playback!BLANK \o Playback!FLUSH} :
           Playback!Sends(Playback!LiveIfChanged(FALSE) \o Playback!DISCARD \o Playback!STILL(FALSE)
                            \o b \o Playback!TRICKSPEED(1), FALSE, 1, FALSE, 1)
  BY DEF Playback!IpSetReplayMode
<1> PICK Q \in {{}, {AskLive(FALSE)}} :
           Script(Playback!LiveIfChanged(FALSE), Q) /\ (Q = {} => vdr.m_bLiveMode = FALSE)
  BY IfChanged
<1> PICK B \in {{}, {AskPlain("BLANK"), AskPlain("FLUSH")}} : Script(b, B)
  <2>1. Script(Playback!BLANK \o Playback!FLUSH, {AskPlain("BLANK")} \cup {AskPlain("FLUSH")})
    BY Scripts, EndingsJoined DEF Endings
  <2>2. {AskPlain("BLANK")} \cup {AskPlain("FLUSH")} = {AskPlain("BLANK"), AskPlain("FLUSH")}
    OBVIOUS
  <2> QED
    BY <2>1, <2>2, Nothing
<1> PICK s1 : s1 = Playback!LiveIfChanged(FALSE) \o Playback!DISCARD
  OBVIOUS
<1> PICK s2 : s2 = s1 \o Playback!STILL(FALSE)
  OBVIOUS
<1> PICK s3 : s3 = s2 \o b
  OBVIOUS
<1> PICK s4 : s4 = s3 \o Playback!TRICKSPEED(1)
  OBVIOUS
<1> PICK P1 : P1 = Q \cup {AskPlain("DISCARD")}
  OBVIOUS
<1> PICK P2 : P2 = P1 \cup {AskStill(FALSE)}
  OBVIOUS
<1> PICK P3 : P3 = P2 \cup B
  OBVIOUS
<1> PICK P4 : P4 = P3 \cup {AskSpeed(1)}
  OBVIOUS
<1>1. Script(s1, P1) /\ P1 \subseteq Endings
  BY Scripts, EndingsJoined DEF Endings
<1>2. Script(s2, P2) /\ P2 \subseteq Endings
  BY <1>1, Scripts, EndingsJoined DEF Endings
<1>3. Script(s3, P3) /\ P3 \subseteq Endings
  BY <1>2, EndingsJoined DEF Endings
<1>4. Script(s4, P4) /\ P4 \subseteq Endings
  BY <1>3, Scripts, EndingsJoined DEF Endings
<1>5. /\ AskLive(FALSE) \in P4 \/ vdr.m_bLiveMode = FALSE
      /\ AskSpeed(1) \in P4 /\ StillOff \in P4
  BY CommandFacts
<1>6. Playback!Sends(s4, FALSE, 1, FALSE, 1)
  OBVIOUS
<1> QED
  BY <1>4, <1>5, <1>6, EndingSent

LEMMA StopOutputKeeps == ASSUME PbInv, Playback!IpStopOutput PROVE PbInv'
<1> PICK n : n = IF vdr.m_TrickSpeed = 1 THEN vdr.speed ELSE 1
  OBVIOUS
<1>1. n = 1
  BY WishFacts
<1> PICK Q \in {{}, {AskLive(FALSE)}} :
           Script(Playback!LiveIfChanged(FALSE), Q) /\ (Q = {} => vdr.m_bLiveMode = FALSE)
  BY IfChanged
<1> PICK T \in {{}, {AskSpeed(1)}} :
           Script(Playback!SpeedIfChanged(1), T) /\ (T = {} => vdr.m_TrickSpeed = 1)
  BY IfChanged
<1> PICK s1 : s1 = Playback!LiveIfChanged(FALSE) \o Playback!SpeedIfChanged(1)
  OBVIOUS
<1> PICK s2 : s2 = s1 \o Playback!DISCARD
  OBVIOUS
<1> PICK s3 : s3 = s2 \o Playback!STILL(FALSE)
  OBVIOUS
<1> PICK s4 : s4 = s3 \o Playback!BLANK
  OBVIOUS
<1> PICK P1 : P1 = Q \cup T
  OBVIOUS
<1> PICK P2 : P2 = P1 \cup {AskPlain("DISCARD")}
  OBVIOUS
<1> PICK P3 : P3 = P2 \cup {AskStill(FALSE)}
  OBVIOUS
<1> PICK P4 : P4 = P3 \cup {AskPlain("BLANK")}
  OBVIOUS
<1>2. Script(s1, P1) /\ P1 \subseteq Endings
  BY EndingsJoined DEF Endings
<1>3. Script(s2, P2) /\ P2 \subseteq Endings
  BY <1>2, Scripts, EndingsJoined DEF Endings
<1>4. Script(s3, P3) /\ P3 \subseteq Endings
  BY <1>3, Scripts, EndingsJoined DEF Endings
<1>5. Script(s4, P4) /\ P4 \subseteq Endings
  BY <1>4, Scripts, EndingsJoined DEF Endings
<1>6. /\ AskLive(FALSE) \in P4 \/ vdr.m_bLiveMode = FALSE
      /\ AskSpeed(1) \in P4 \/ vdr.speed = 1
      /\ StillOff \in P4
  BY CommandFacts, WishFacts
<1>7. Playback!Sends(s4, FALSE, 1, FALSE, n)
  BY DEF Playback!IpStopOutput
<1> QED
  BY <1>1, <1>5, <1>6, <1>7, EndingSent

LEMMA PlayKeeps == ASSUME PbInv, Playback!IpPlay PROVE PbInv'
<1> PICK n : n = IF vdr.m_TrickSpeed = 1 THEN vdr.speed ELSE 1
  OBVIOUS
<1>1. n = 1
  BY WishFacts
<1> PICK Q \in {{}, {AskLive(FALSE)}} :
           Script(Playback!LiveIfChanged(FALSE), Q) /\ (Q = {} => vdr.m_bLiveMode = FALSE)
  BY IfChanged
<1> PICK T \in {{}, {AskSpeed(1)}} :
           Script(Playback!SpeedIfChanged(1), T) /\ (T = {} => vdr.m_TrickSpeed = 1)
  BY IfChanged
<1> PICK s1 : s1 = Playback!LiveIfChanged(FALSE) \o Playback!STILL(FALSE)
  OBVIOUS
<1> PICK s2 : s2 = s1 \o Playback!SpeedIfChanged(1)
  OBVIOUS
<1> PICK P1 : P1 = Q \cup {AskStill(FALSE)}
  OBVIOUS
<1> PICK P2 : P2 = P1 \cup T
  OBVIOUS
<1>2. Script(s1, P1) /\ P1 \subseteq Endings
  BY Scripts, EndingsJoined DEF Endings
<1>3. Script(s2, P2) /\ P2 \subseteq Endings
  BY <1>2, EndingsJoined DEF Endings
<1>4. /\ AskLive(FALSE) \in P2 \/ vdr.m_bLiveMode = FALSE
      /\ AskSpeed(1) \in P2 \/ vdr.speed = 1
      /\ StillOff \in P2
  BY CommandFacts, WishFacts
<1>5. Playback!Sends(s2, FALSE, 1, FALSE, n)
  BY DEF Playback!IpPlay
<1> QED
  BY <1>1, <1>3, <1>4, <1>5, EndingSent

LEMMA ClearKeeps == ASSUME PbInv, Playback!IpClear PROVE PbInv'
<1> PICK n : n = IF vdr.m_TrickSpeed = 1 THEN vdr.speed ELSE 1
  OBVIOUS
<1>1. n = 1
  BY WishFacts
<1> PICK T \in {{}, {AskSpeed(1)}} :
           Script(Playback!SpeedIfChanged(1), T) /\ (T = {} => vdr.m_TrickSpeed = 1)
  BY IfChanged
<1> PICK s1 : s1 = Playback!SpeedIfChanged(1) \o Playback!DISCARD
  OBVIOUS
<1> PICK s2 : s2 = s1 \o Playback!STILL(FALSE)
  OBVIOUS
<1> PICK P1 : P1 = T \cup {AskPlain("DISCARD")}
  OBVIOUS
<1> PICK P2 : P2 = P1 \cup {AskStill(FALSE)}
  OBVIOUS
<1>2. Script(s1, P1) /\ P1 \subseteq Endings
  BY Scripts, EndingsJoined DEF Endings
<1>3. Script(s2, P2) /\ P2 \subseteq Endings
  BY <1>2, Scripts, EndingsJoined DEF Endings
<1>4. /\ vdr.m_bLiveMode = FALSE
      /\ AskSpeed(1) \in P2 \/ vdr.speed = 1
      /\ StillOff \in P2
  BY CommandFacts, WishFacts DEF Playback!IpClear
<1>5. Playback!Sends(s2, FALSE, 1, FALSE, n)
  BY DEF Playback!IpClear
<1> QED
  BY <1>1, <1>3, <1>4, <1>5, EndingSent

LEMMA FlushOpKeeps == ASSUME PbInv, Playback!IpFlush PROVE PbInv'
<1>1. CASE vdr.m_TrickSpeed = 0
  <2> PICK Q \in {{}, {AskLive(FALSE)}} :
             Script(Playback!LiveIfChanged(FALSE), Q) /\ (Q = {} => vdr.m_bLiveMode = FALSE)
    BY IfChanged
  <2> PICK s1 : s1 = Playback!LiveIfChanged(FALSE) \o Playback!TRICKSPEED(1)
    OBVIOUS
  <2> PICK s2 : s2 = s1 \o Playback!FLUSH
    OBVIOUS
  <2> PICK P1 : P1 = Q \cup {AskSpeed(1)}
    OBVIOUS
  <2> PICK P2 : P2 = P1 \cup {AskPlain("FLUSH")}
    OBVIOUS
  <2> PICK still \in BOOLEAN : still = vdr.still
    BY WishFacts
  <2>1. Script(s1, P1) /\ P1 \subseteq Endings
    BY Scripts, EndingsJoined DEF Endings
  <2>2. Script(s2, P2) /\ P2 \subseteq Endings
    BY <2>1, Scripts, EndingsJoined DEF Endings
  <2>3. /\ AskLive(FALSE) \in P2 \/ vdr.m_bLiveMode = FALSE
        /\ AskSpeed(1) \in P2
    OBVIOUS
  <2>4. Playback!Sends(s2, FALSE, 1, still, 1)
    BY <1>1 DEF Playback!IpFlush
  <2> QED
    BY <2>2, <2>3, <2>4, EndingSent
<1>2. CASE vdr.m_TrickSpeed # 0
  <2>1. Playback!Sends(Playback!FLUSH, vdr.m_bLiveMode, vdr.m_TrickSpeed, vdr.still, vdr.speed)
    BY <1>2 DEF Playback!IpFlush
  <2> PICK v : v = [m_bLiveMode |-> vdr.m_bLiveMode, m_TrickSpeed |-> vdr.m_TrickSpeed,
                    still |-> vdr.still, speed |-> vdr.speed]
    OBVIOUS
  <2>2. v = vdr
    BY WishFacts DEF Wishes
  <2> PICK P : P = {AskPlain("FLUSH")}
    OBVIOUS
  <2>3. Script(Playback!FLUSH, P) /\ Wished(v) /\ AsksFor(P, v)
    BY <2>2, Scripts, WishFacts DEF AsksFor
  <2>4. Fits(P, v)
    BY CommandFacts DEF Fits
  <2>5. /\ ctl.todo = <<>> /\ ctl.pc = "idle" /\ ctl' = [ctl EXCEPT !.todo = Playback!FLUSH] /\ vdr' = v
        /\ UNCHANGED <<ip, slave>>
    BY <2>1 DEF Playback!Sends
  <2> QED
    BY <2>3, <2>4, <2>5, SendsKeep
<1> QED
  BY <1>1, <1>2

LEMMA TrickSpeedKeeps == ASSUME PbInv, Playback!IpTrickSpeed PROVE PbInv'
<1> PICK n \in {0, 1, 2, -2} :
           /\ vdr.m_bLiveMode = FALSE
           /\ Playback!Sends(Playback!TRICKSPEED(n), FALSE, n, vdr.still, n)
  BY WishFacts DEF Playback!IpTrickSpeed, Playback!IpSpeeds
<1> PICK v : v = [m_bLiveMode |-> FALSE, m_TrickSpeed |-> n, still |-> vdr.still, speed |-> n]
  OBVIOUS
<1> PICK P : P = {AskSpeed(n)}
  OBVIOUS
<1>1. /\ v \in Wishes /\ v.m_bLiveMode = FALSE /\ v.m_TrickSpeed = n /\ v.still = vdr.still /\ v.speed = n
  BY WishFacts DEF Wishes
<1>2. Wished(v)
  BY <1>1 DEF Wished
<1>3. \A x \in P : x.cmd = "TRICKSPEED" /\ x.arg = n
  BY CommandFacts
<1>4. ~AnyOf(P, "LIVE") /\ AnyOf(P, "TRICKSPEED")
  BY <1>3 DEF AnyOf
<1>5. Fits(P, v)
  BY <1>1, <1>3, <1>4 DEF Fits
<1>6. AsksFor(P, v)
  BY <1>1, <1>4 DEF AsksFor
<1>7. Script(Playback!TRICKSPEED(n), P)
  BY Scripts
<1>8. /\ ctl.todo = <<>> /\ ctl.pc = "idle" /\ ctl' = [ctl EXCEPT !.todo = Playback!TRICKSPEED(n)] /\ vdr' = v
      /\ UNCHANGED <<ip, slave>>
  BY DEF Playback!Sends
<1> QED
  BY <1>2, <1>5, <1>6, <1>7, <1>8, SendsKeep

LEMMA PlayFileOpKeeps == ASSUME PbInv, Playback!IpPlayFile PROVE PbInv'
<1> PICK on \in BOOLEAN :
           /\ vdr.m_bLiveMode = FALSE
           /\ Playback!Sends(<<[cmd |-> "PLAYFILE", arg |-> on]>>, FALSE, vdr.m_TrickSpeed, vdr.still, vdr.speed)
  BY WishFacts DEF Playback!IpPlayFile
<1> PICK s : s = <<[cmd |-> "PLAYFILE", arg |-> on]>>
  OBVIOUS
<1> PICK v : v = [m_bLiveMode |-> FALSE, m_TrickSpeed |-> vdr.m_TrickSpeed, still |-> vdr.still,
                  speed |-> vdr.speed]
  OBVIOUS
<1> PICK P : P = {AskFile(on)}
  OBVIOUS
<1>1. /\ v \in Wishes /\ v.m_bLiveMode = FALSE /\ v.m_TrickSpeed = vdr.m_TrickSpeed
      /\ v.still = vdr.still /\ v.speed = vdr.speed
  BY WishFacts DEF Wishes
<1>2. Wished(v)
  BY <1>1, WishFacts DEF Wished
<1>3. \A x \in P : x.cmd = "PLAYFILE"
  BY CommandFacts
<1>4. Fits(P, v)
  BY <1>1, <1>3 DEF Fits
<1>5. AsksFor(P, v)
  BY <1>1 DEF AsksFor
<1>6. Script(s, P)
  BY Scripts
<1>7. /\ ctl.todo = <<>> /\ ctl.pc = "idle" /\ ctl' = [ctl EXCEPT !.todo = s] /\ vdr' = v
      /\ UNCHANGED <<ip, slave>>
  BY DEF Playback!Sends
<1> QED
  BY <1>2, <1>4, <1>5, <1>6, <1>7, SendsKeep

\* The still picture is ended before live mode is asked for.
LEMMA SetTvModeKeeps == ASSUME PbInv, Playback!IpSetTvMode PROVE PbInv'
<1> PICK Q \in {{}, {AskLive(TRUE)}} :
           Script(Playback!LiveIfChanged(TRUE), Q) /\ (Q = {} => vdr.m_bLiveMode = TRUE)
  BY IfChanged
<1> PICK s1 : s1 = Playback!DISCARD \o Playback!STILL(FALSE)
  OBVIOUS
<1> PICK s2 : s2 = s1 \o Playback!LiveIfChanged(TRUE)
  OBVIOUS
<1> PICK s3 : s3 = s2 \o Playback!TRICKSPEED(1)
  OBVIOUS
<1> PICK P1 : P1 = {AskPlain("DISCARD")} \cup {AskStill(FALSE)}
  OBVIOUS
<1> PICK P2 : P2 = P1 \cup Q
  OBVIOUS
<1> PICK P3 : P3 = P2 \cup {AskSpeed(1)}
  OBVIOUS
<1> PICK v : v = [m_bLiveMode |-> TRUE, m_TrickSpeed |-> 1, still |-> FALSE, speed |-> 1]
  OBVIOUS
<1>1. Script(s1, P1) /\ P1 \subseteq Endings
  BY Scripts, EndingsJoined DEF Endings
<1>2. Script(s2, P2)
  BY <1>1, EndingsJoined
<1>3. Script(s3, P3)
  <2>1. Script(Playback!TRICKSPEED(1), {AskSpeed(1)})
    BY Scripts
  <2>2. \A y \in P2 : y.cmd = "STILL" => y.arg = FALSE
    <3> SUFFICES ASSUME NEW y \in P2 PROVE y.cmd = "STILL" => y.arg = FALSE
      OBVIOUS
    <3>1. CASE y \in P1
      BY <1>1, <3>1, EndingFacts
    <3>2. CASE y = AskLive(TRUE)
      BY <3>2 DEF AskLive
    <3> QED
      BY <3>1, <3>2
  <2>3. \A y \in P2, x \in {AskSpeed(1)} : ~Precedes(x, y)
    <3> PICK x : x = AskSpeed(1)
      OBVIOUS
    <3>1. x.cmd = "TRICKSPEED"
      BY DEF AskSpeed
    <3>2. x # StillOff
      BY <3>1 DEF StillOff
    <3>3. \A y \in P2 : ~(y.cmd = "STILL" /\ y.arg = TRUE)
      BY <2>2
    <3> QED
      BY <3>2, <3>3 DEF Precedes
  <2> QED
    BY <1>2, <2>1, <2>3, Joined
<1>4. /\ v \in Wishes /\ v.m_bLiveMode = TRUE /\ v.m_TrickSpeed = 1 /\ v.still = FALSE /\ v.speed = 1
  BY DEF Wishes
<1>5. Wished(v)
  BY <1>4 DEF Wished
<1>6. \A x \in P3 : x \in {AskPlain("DISCARD"), AskStill(FALSE), AskLive(TRUE), AskSpeed(1)}
  OBVIOUS
<1>7. Fits(P3, v)
  <2> SUFFICES ASSUME NEW x \in P3
               PROVE  /\ x.cmd = "LIVE" => x.arg = v.m_bLiveMode
                      /\ x.cmd = "TRICKSPEED" => x.arg = v.speed
                      /\ v.speed \notin {2, -2}
                      /\ x.cmd = "STILL" => x.arg = FALSE
                      /\ x.cmd # "PLAYFILE"
    BY <1>4 DEF Fits
  <2>1. CASE x = AskPlain("DISCARD")
    BY <1>4, <2>1 DEF AskPlain
  <2>2. CASE x = AskStill(FALSE)
    BY <1>4, <2>2 DEF AskStill
  <2>3. CASE x = AskLive(TRUE)
    BY <1>4, <2>3 DEF AskLive
  <2>4. CASE x = AskSpeed(1)
    BY <1>4, <2>4 DEF AskSpeed
  <2> QED
    BY <1>6, <2>1, <2>2, <2>3, <2>4
<1>8. AsksFor(P3, v)
  <2>1. AskLive(TRUE) \in P3 => AnyOf(P3, "LIVE")
    BY CommandFacts DEF AnyOf
  <2>2. AskSpeed(1) \in P3 /\ StillOff \in P3
    BY CommandFacts
  <2>3. AnyOf(P3, "TRICKSPEED")
    BY <2>2, CommandFacts DEF AnyOf
  <2>4. AskLive(TRUE) \in P3 \/ vdr.m_bLiveMode = TRUE
    OBVIOUS
  <2> QED
    BY <1>4, <2>1, <2>2, <2>3, <2>4 DEF AsksFor
<1>9. /\ ctl.todo = <<>> /\ ctl.pc = "idle" /\ ctl' = [ctl EXCEPT !.todo = s3] /\ vdr' = v
      /\ UNCHANGED <<ip, slave>>
  BY DEF Playback!IpSetTvMode, Playback!Sends
<1> QED
  BY <1>3, <1>5, <1>7, <1>8, <1>9, SendsKeep

\* The still picture is asked for after the speed.
LEMMA StillPictureKeeps == ASSUME PbInv, Playback!IpStillPicture PROVE PbInv'
<1> PICK Q \in {{}, {AskLive(FALSE)}} :
           Script(Playback!LiveIfChanged(FALSE), Q) /\ (Q = {} => vdr.m_bLiveMode = FALSE)
  BY IfChanged
<1> PICK s1 : s1 = Playback!DISCARD \o Playback!LiveIfChanged(FALSE)
  OBVIOUS
<1> PICK s2 : s2 = s1 \o Playback!TRICKSPEED(1)
  OBVIOUS
<1> PICK s3 : s3 = s2 \o Playback!STILL(TRUE)
  OBVIOUS
<1> PICK s4 : s4 = s3 \o Playback!FLUSH
  OBVIOUS
<1> PICK P1 : P1 = {AskPlain("DISCARD")} \cup Q
  OBVIOUS
<1> PICK P2 : P2 = P1 \cup {AskSpeed(1)}
  OBVIOUS
<1> PICK P3 : P3 = P2 \cup {AskStill(TRUE)}
  OBVIOUS
<1> PICK P4 : P4 = P3 \cup {AskPlain("FLUSH")}
  OBVIOUS
<1> PICK v : v = [m_bLiveMode |-> FALSE, m_TrickSpeed |-> 0, still |-> TRUE, speed |-> 1]
  OBVIOUS
<1>1. Script(s1, P1) /\ P1 \subseteq Endings
  BY Scripts, EndingsJoined DEF Endings
<1>2. Script(s2, P2) /\ P2 \subseteq Endings
  BY <1>1, Scripts, EndingsJoined DEF Endings
<1>3. Script(s3, P3)
  BY <1>2, Scripts, EndingsJoined
<1>4. Script(s4, P4)
  <2>1. Script(Playback!FLUSH, {AskPlain("FLUSH")})
    BY Scripts
  <2>2. \A y \in P3, x \in {AskPlain("FLUSH")} : ~Precedes(x, y)
    BY DEF Precedes, StillOff, AskPlain
  <2> QED
    BY <1>3, <2>1, <2>2, Joined
<1>5. /\ v \in Wishes /\ v.m_bLiveMode = FALSE /\ v.m_TrickSpeed = 0 /\ v.still = TRUE /\ v.speed = 1
  BY DEF Wishes
<1>6. Wished(v)
  BY <1>5 DEF Wished
<1>7. \A x \in P4 : x \in P2 \/ x = AskStill(TRUE) \/ x = AskPlain("FLUSH")
  OBVIOUS
<1>8. Fits(P4, v)
  <2> SUFFICES ASSUME NEW x \in P4
               PROVE  /\ x.cmd = "LIVE" => x.arg = v.m_bLiveMode
                      /\ x.cmd = "TRICKSPEED" => x.arg = v.speed
                      /\ v.speed \notin {2, -2}
                      /\ x.cmd = "STILL" => x.arg = FALSE \/ x.arg = TRUE
                      /\ x.cmd # "PLAYFILE"
    BY <1>5 DEF Fits
  <2>1. CASE x \in P2
    <3>1. /\ x.cmd \in {"LIVE", "STILL", "TRICKSPEED", "DISCARD", "BLANK", "FLUSH"}
          /\ x.cmd \in {"LIVE", "STILL"} => x.arg = FALSE
          /\ x.cmd = "TRICKSPEED" => x.arg = 1
      BY <1>2, <2>1, EndingFacts
    <3>2. x.cmd = "LIVE" => x.arg = v.m_bLiveMode
      BY <1>5, <3>1
    <3>3. v.speed \notin {2, -2}
      BY <1>5
    <3> QED
      BY <1>5, <3>1, <3>2, <3>3
  <2>2. CASE x = AskStill(TRUE)
    BY <1>5, <2>2 DEF AskStill
  <2>3. CASE x = AskPlain("FLUSH")
    BY <1>5, <2>3 DEF AskPlain
  <2> QED
    BY <1>7, <2>1, <2>2, <2>3
<1>9. AsksFor(P4, v)
  <2>1. AskLive(FALSE) \in P4 => AnyOf(P4, "LIVE")
    BY CommandFacts DEF AnyOf
  <2>2. AskSpeed(1) \in P4
    OBVIOUS
  <2>3. AnyOf(P4, "TRICKSPEED")
    BY <2>2, CommandFacts DEF AnyOf
  <2>4. AskLive(FALSE) \in P4 \/ vdr.m_bLiveMode = FALSE
    OBVIOUS
  <2> QED
    BY <1>5, <2>1, <2>3, <2>4 DEF AsksFor
<1>10. /\ ctl.todo = <<>> /\ ctl.pc = "idle" /\ ctl' = [ctl EXCEPT !.todo = s4] /\ vdr' = v
       /\ UNCHANGED <<ip, slave>>
  BY DEF Playback!IpStillPicture, Playback!Sends
<1> QED
  BY <1>4, <1>6, <1>8, <1>9, <1>10, SendsKeep

-----------------------------------------------------------------------------
LEMMA PbInvInit == Playback!IpInit => PbInv
<1> SUFFICES ASSUME Playback!IpInit PROVE PbInv
  OBVIOUS
<1>1. /\ ip \in Modes /\ ip.live_mode = FALSE /\ ip.still_mode = FALSE /\ ip.is_paused = FALSE
      /\ ip.is_trickspeed = FALSE /\ ip.tuning = "off" /\ ip.speed = 1
  BY DEF Playback!IpInit, Modes
<1>2. slave \in Slaves /\ slave.shown = slave.open
  BY ClosedIsSlave DEF Playback!IpInit
<1>3. ctl \in Controls /\ ctl.todo = <<>> /\ ctl.pc = "idle"
  BY NothingPending DEF Playback!IpInit, Controls
<1>4. /\ vdr \in Wishes /\ vdr.m_bLiveMode = FALSE /\ vdr.m_TrickSpeed = 1 /\ vdr.still = FALSE
      /\ vdr.speed = 1
  BY DEF Playback!IpInit, Wishes
<1>5. Wished(vdr)
  BY <1>4 DEF Wished
<1>6. Pending(ctl.todo) = {} /\ InOrder(ctl.todo)
  BY <1>3, NothingPending
<1>7. LiveNow(ip, ctl) = FALSE
  BY <1>1, <1>3 DEF LiveNow
<1>8. Fits({}, vdr) /\ Agrees(ip, FALSE, {}, vdr)
  BY <1>1, <1>4 DEF Fits, Agrees
<1>9. Handles(ctl, slave)
  BY <1>2, <1>3 DEF Handles
<1> QED
  BY <1>1, <1>2, <1>3, <1>5, <1>6, <1>7, <1>8, <1>9 DEF PbInv, PbSound

LEMMA PbInvNext == ASSUME PbInv, [Next]_vars PROVE PbInv'
<1>1. CASE Playback!IpNext
  <2>1. CASE \/ Playback!IpSetTvMode \/ Playback!IpSetReplayMode \/ Playback!IpStopOutput
             \/ Playback!IpTrickSpeed \/ Playback!IpPlay \/ Playback!IpClear \/ Playback!IpFlush
             \/ Playback!IpStillPicture \/ Playback!IpPlayFile
    BY <2>1, SetTvModeKeeps, SetReplayModeKeeps, StopOutputKeeps, TrickSpeedKeeps, PlayKeeps,
       ClearKeeps, FlushOpKeeps, StillPictureKeeps, PlayFileOpKeeps
  <2>2. CASE \/ Playback!HandleMode \/ Playback!HandleDiscard \/ Playback!HandleSeekDone
             \/ Playback!HandleBlank \/ Playback!HandleFlush \/ Playback!FlushDone
             \/ Playback!HandlePlayFile \/ Playback!PlayFileFails \/ Playback!PlayFileRests
             \/ Playback!PlayFilePlays
    BY <2>2, HandleModeKeeps, HandleDiscardKeeps, SeekDoneKeeps, HandleBlankKeeps,
       HandleFlushKeeps, FlushDoneKeeps, HandlePlayFileKeeps, PlayFileEndsKeeps, PlayFileRestsKeeps
  <2>3. CASE Playback!PollResets
    BY <2>3, ResetsKeep DEF Playback!PollResets
  <2> QED
    BY <1>1, <2>1, <2>2, <2>3, ReadAdjustsKeeps, ReadPreprocessesKeeps, ReadPostprocessesKeeps
       DEF Playback!IpNext
<1>2. CASE UNCHANGED playbackVars
  BY <1>2 DEF PbInv, playbackVars
<1> QED
  BY <1>1, <1>2 DEF Next, Step, OthersStay, Stopped, vars

LEMMA PbInvModes == PbInv => Playback!ModesAgree
<1> SUFFICES ASSUME PbInv, ctl.todo = <<>>
             PROVE  /\ ip.live_mode = vdr.m_bLiveMode
                    /\ ip.still_mode => vdr.still
                    /\ ip.is_paused <=> vdr.speed = 0
                    /\ ip.is_trickspeed <=> vdr.speed \in {2, -2}
                    /\ ip.tuning = "SCR_TUNING_PAUSED" =>
                         ip.speed \in {0, 1} /\ ~ip.still_mode /\ ~ip.is_trickspeed
                    /\ ip.tuning # "SCR_TUNING_PAUSED" => ip.speed = vdr.speed
                    /\ slave.shown = slave.open
  BY DEF Playback!ModesAgree, Playback!Trick
<1>1. /\ ip \in Modes /\ Wished(vdr) /\ Agrees(ip, LiveNow(ip, ctl), {}, vdr) /\ Handles(ctl, slave)
  BY NothingPending DEF PbInv, PbSound
<1>2. ctl.pc = "idle" /\ slave.shown = slave.open
  BY <1>1 DEF Handles
<1>3. LiveNow(ip, ctl) = ip.live_mode
  BY <1>2 DEF LiveNow
<1>4. ~AnyOf({}, "LIVE") /\ ~AnyOf({}, "TRICKSPEED") /\ StillOff \notin {}
  BY DEF AnyOf
<1>5. /\ ip.live_mode = vdr.m_bLiveMode
      /\ ip.still_mode = TRUE => vdr.still # FALSE
      /\ ip.is_paused = TRUE <=> vdr.speed = 0
      /\ ip.is_trickspeed = TRUE <=> vdr.speed \in {2, -2}
      /\ ip.tuning = "SCR_TUNING_PAUSED" => ip.speed \in {0, 1} /\ ip.still_mode = FALSE /\ ip.is_trickspeed = FALSE
      /\ ip.tuning # "SCR_TUNING_PAUSED" => ip.speed = vdr.speed
  BY <1>1, <1>3, <1>4 DEF Agrees
<1>6. /\ ip.still_mode \in BOOLEAN /\ ip.is_paused \in BOOLEAN /\ ip.is_trickspeed \in BOOLEAN
      /\ vdr.still \in BOOLEAN
  BY <1>1 DEF Modes, Wished, Wishes
<1> QED
  BY <1>2, <1>5, <1>6

-----------------------------------------------------------------------------
LEMMA BufInvNext == ASSUME BufInv, [Next]_vars PROVE BufInv'
<1>1. [BufNext]_bufVars
  BY DEF Next, Step, OthersStay, Stopped, vars
<1> QED
  BY <1>1, BufStep

(* However the commands of the device, the demuxer thread, the buffers, the *)
(* network and the remote control interleave: after the commands the plugin *)
(* plays in the mode and at the speed VDR asked for (xine_input_vdr.c), a   *)
(* control message finds a buffer, the server sends on the transport the    *)
(* client reads (frontend_svr.c), one key of the remote control is held at  *)
(* most (xine_frontend_lirc.c), and the last frame shown is the one of the  *)
(* client's stream (xvdr_metronom.c, xine_frontend_main.c).                 *)
THEOREM InputIsKept == Spec => []InputKept
<1> DEFINE Inv == PbInv /\ BufInv /\ NetInv /\ KeysInv /\ MtrInv
<1>1. Init => Inv
  BY PbInvInit, BufInitInv, NetInvInit, KeysInvInit, MtrInvInit DEF Init
<1>2. Inv /\ [Next]_vars => Inv'
  BY PbInvNext, BufInvNext, NetInvNext, KeysInvNext, MtrInvNext
<1>3. Inv => InputKept
  BY PbInvModes, NetInvAgrees, KeysInvOneKey, MtrInvLastPts DEF InputKept, BufInv
<1> QED
  BY <1>1, <1>2, <1>3, PTL DEF Spec

-----------------------------------------------------------------------------
(* The crop of black bars (xine_post_autocrop.c).  SubtitlesKept is about    *)
(* one step, and needs to know that the end line which is detected has been *)
(* compared with the one before when the next frame is looked at.           *)

CropFields == [autodetect : BOOLEAN, subs_detect : BOOLEAN, soft_start : BOOLEAN, cropping_active : BOOLEAN,
               start_line : Int, end_line : Int, stabilized_start_line : Int, stabilized_end_line : Int,
               stabilize_timer : Int, detected_end_line : Int, prev_detected_end_line : Int,
               end_line_stabilize_timer : Int, height_limit_active : BOOLEAN, height_limit : Int,
               height_limit_timer : Int, prev_height : Int]
LineFields == [start : Int, end : Int]

\* A crop that follows the picture has compared the last end line it detected.
Compared(c) == c.cropping_active = TRUE => c.detected_end_line = c.prev_detected_end_line
\* So has one the detection has followed from its start.
CropSound(c, a, s) ==
  /\ c \in CropFields /\ a \in Seq(Nat) /\ s \in BOOLEAN
  /\ c.autodetect = TRUE /\ s = FALSE => Compared(c)
CropInv == CropSound(crop, ahead, switched)

\* The fields no part of autocrop_draw() touches, and those of the subtitle's limit.
SameWishes(c, q) == q \in CropFields /\ q.autodetect = c.autodetect /\ q.subs_detect = c.subs_detect
SameLimit(c, q) == q.height_limit_active = c.height_limit_active /\ q.height_limit = c.height_limit
SameStable(c, q) == /\ q.stabilized_start_line = c.stabilized_start_line
                    /\ q.stabilized_end_line = c.stabilized_end_line
SameShown(c, q) == q.start_line = c.start_line /\ q.end_line = c.end_line
SameEnds(c, q) == /\ q.detected_end_line = c.detected_end_line
                  /\ q.prev_detected_end_line = c.prev_detected_end_line

\* A crop, or its lines, within a frame of h lines; the halves do not overlap.
StartIn(n, h) == 0 <= n /\ 4 * n <= h
EndIn(n, h)   == h <= 2 * n /\ n <= h
LinesIn(l, h) == StartIn(l.start, h) /\ EndIn(l.end, h)
InFrame(c, h) ==
  /\ StartIn(c.start_line, h) /\ EndIn(c.end_line, h)
  /\ StartIn(c.stabilized_start_line, h) /\ EndIn(c.stabilized_end_line, h)
  /\ c.detected_end_line <= h /\ (c.height_limit_active = TRUE => c.height_limit <= h)
CropIn(c, h) == 16 <= h /\ (c.cropping_active = TRUE => InFrame(c, h))

LEMMA CropNumbers ==
  /\ SmallBar \in Nat /\ Near \in Nat /\ SoftStep \in Nat /\ StabilizeTime \in Nat
  /\ SubsLifetime \in Nat /\ SubsStabilizeTime \in Nat
  /\ SubsLifetime \div 2 \in Int /\ SubsLifetime \div 4 \in Int
  /\ \A h \in Heights : h \in Nat
  /\ \A n \in Tops : n \in Nat
  /\ \A n \in Bottoms : n \in Nat
<1>1. SubsLifetime \in Nat
  BY CropAssumption
<1>2. SubsLifetime \div 2 \in Int /\ SubsLifetime \div 4 \in Int
  BY <1>1
<1> QED
  BY <1>2, CropAssumption

LEMMA ClampFacts ==
  ASSUME NEW n \in Int, NEW low \in Int, NEW high \in Int
  PROVE  Crop!Clamp(n, low, high) \in Int /\ (low <= high => Crop!Clamp(n, low, high) <= high)
BY DEF Crop!Clamp

LEMMA EvenFacts ==
  ASSUME NEW n \in Int
  PROVE  Crop!Even(n) \in Int /\ Crop!Even(n) <= n /\ n - 1 <= Crop!Even(n) /\ (0 <= n => 0 <= Crop!Even(n))
<1>1. n % 2 \in {0, 1} /\ (n = 0 => n % 2 = 0)
  OBVIOUS
<1> QED
  BY <1>1 DEF Crop!Even

LEMMA AbsFacts == ASSUME NEW n \in Int PROVE Crop!Abs(n) \in Nat
BY DEF Crop!Abs

\* The lines that are found are within the frame.
LEMMA AnalysedFacts ==
  ASSUME NEW top \in Nat, NEW h \in Nat, NEW bottom \in Nat, top < bottom, bottom <= h,
         NEW l, l = Crop!Analysed(top, bottom, h)
  PROVE  l \in LineFields /\ l.end <= h /\ (16 <= h => LinesIn(l, h))
<1>1. PICK s : s = Crop!CropStart(top, bottom, h)
  OBVIOUS
<1>2. PICK e : e = Crop!CropEnd(bottom, h)
  OBVIOUS
<1>3. s \in Int /\ 0 <= s /\ 4 * s <= h
  <2>1. s \in {0, h \div 16, h \div 8, h \div 4}
    BY <1>1 DEF Crop!CropStart
  <2> QED
    BY ONLY <2>1, h \in Nat
<1>4. Crop!Wide(bottom, h) \in {0, 1, 2}
  BY DEF Crop!Wide
<1>5. e \in Int /\ e <= h - 1 /\ (16 <= h => h <= 2 * e)
  <2>1. CASE Crop!Wide(bottom, h) = 0
    <3>1. e = h - 1 \/ e = (h * 15) \div 16 - 1
      BY <1>2, <2>1 DEF Crop!CropEnd
    <3>2. PICK n : n = (h * 15) \div 16
      OBVIOUS
    <3>3. n \in Int /\ n <= h /\ h * 15 <= 16 * n + 15
      BY <3>2
    <3> QED
      BY ONLY <3>1, <3>2, <3>3, h \in Nat
  <2>2. CASE Crop!Wide(bottom, h) = 1
    <3>1. e = (h * 7) \div 8 - 1
      BY <1>2, <2>2 DEF Crop!CropEnd
    <3>2. PICK n : n = (h * 7) \div 8
      OBVIOUS
    <3>3. n \in Int /\ n <= h /\ h * 7 <= 8 * n + 7
      BY <3>2
    <3> QED
      BY ONLY <3>1, <3>2, <3>3, h \in Nat
  <2>3. CASE Crop!Wide(bottom, h) = 2
    <3>1. PICK n : n = (h * 3) \div 4 - 1 + h \div 8
      OBVIOUS
    <3>2. e = Crop!Clamp(n, 0, h - 1)
      BY <1>2, <2>3, <3>1 DEF Crop!CropEnd
    <3>3. e = IF n < 0 THEN 0 ELSE IF n > h - 1 THEN h - 1 ELSE n
      BY <3>2 DEF Crop!Clamp
    <3>4. PICK a, b : a = (h * 3) \div 4 /\ b = h \div 8
      OBVIOUS
    <3>5. a \in Int /\ b \in Int /\ h * 3 <= 4 * a + 3 /\ h <= 8 * b + 7
      BY <3>4
    <3>6. n = a - 1 + b
      BY <3>1, <3>4
    <3>7. h >= 1
      OBVIOUS
    <3> QED
      BY ONLY <3>3, <3>5, <3>6, <3>7, h \in Nat
  <2> QED
    BY <1>4, <2>1, <2>2, <2>3
<1>6. l = [start |-> Crop!Even(s), end |-> Crop!Even(e + 1)]
  BY <1>1, <1>2 DEF Crop!Analysed
<1>7. PICK first, last : first = Crop!Even(s) /\ last = Crop!Even(e + 1)
  OBVIOUS
<1>8. first \in Int /\ first <= s /\ 0 <= first /\ last \in Int /\ last <= e + 1 /\ e <= last
  BY <1>3, <1>5, <1>7, EvenFacts
<1>9. 16 <= h => StartIn(first, h) /\ EndIn(last, h)
  BY ONLY <1>3, <1>5, <1>8, h \in Nat DEF StartIn, EndIn
<1>10. last <= h
  BY ONLY <1>5, <1>8, h \in Nat
<1> QED
  BY <1>6, <1>7, <1>8, <1>9, <1>10 DEF LineFields, LinesIn

-----------------------------------------------------------------------------
(* The parts of autocrop_draw().                                            *)

LEMMA JumpedFacts ==
  ASSUME NEW c \in CropFields, NEW jump, NEW q, q = Crop!Jumped(c, jump)
  PROVE  /\ SameWishes(c, q) /\ SameLimit(c, q) /\ SameStable(c, q) /\ SameShown(c, q) /\ SameEnds(c, q)
         /\ q.cropping_active = TRUE => c.cropping_active = TRUE
<1>1. CASE ~c.cropping_active \/ jump = "none"
  <2>1. q = c
    BY <1>1 DEF Crop!Jumped
  <2> QED
    BY <2>1 DEF SameWishes, SameLimit, SameStable, SameShown, SameEnds, CropFields
<1>2. CASE ~(~c.cropping_active \/ jump = "none")
  <2> PICK n : n = IF c.height_limit_active THEN SubsLifetime \div 2 ELSE c.height_limit_timer
    OBVIOUS
  <2> PICK b \in BOOLEAN : b = (jump # "long")
    OBVIOUS
  <2>1. n \in Int
    BY CropNumbers DEF CropFields
  <2>2. q = [c EXCEPT !.height_limit_timer = n, !.cropping_active = b]
    BY <1>2 DEF Crop!Jumped
  <2> QED
    BY <1>2, <2>1, <2>2 DEF SameWishes, SameLimit, SameStable, SameShown, SameEnds, CropFields
<1> QED
  BY <1>1, <1>2

LEMMA LinesFacts ==
  ASSUME NEW c \in CropFields, NEW h \in Nat, NEW l, l = Crop!Lines(c, h)
  PROVE  /\ l \in LineFields
         /\ c.cropping_active = FALSE => l.end <= h
         /\ CropIn(c, h) => LinesIn(l, h)
<1>1. CASE c.cropping_active = TRUE
  <2>1. l = [start |-> c.stabilized_start_line, end |-> c.stabilized_end_line]
    BY <1>1 DEF Crop!Lines
  <2> QED
    BY <1>1, <2>1 DEF LineFields, CropFields, CropIn, InFrame, LinesIn
<1>2. CASE c.cropping_active = FALSE
  <2>1. l = [start |-> 0, end |-> h]
    BY <1>2 DEF Crop!Lines
  <2>2. 16 <= h => StartIn(0, h) /\ EndIn(h, h)
    BY DEF StartIn, EndIn
  <2> QED
    BY <1>2, <2>1, <2>2 DEF LineFields, CropIn, LinesIn
<1> QED
  BY <1>1, <1>2 DEF CropFields

\* A crop that begins has nothing to compare, and no room for a subtitle.
Begins(c, q, h) ==
  /\ c.cropping_active = FALSE
  /\ SameWishes(c, q) /\ q.cropping_active = TRUE /\ q.height_limit_active = FALSE
  /\ q.detected_end_line = h /\ q.prev_detected_end_line = h
  /\ q.start_line = 0 /\ q.end_line = h /\ q.stabilized_start_line = 0 /\ q.stabilized_end_line = h

LEMMA ActivatedFacts ==
  ASSUME NEW c \in CropFields, NEW l, NEW h \in Nat, NEW q, q = Crop!Activated(c, l, h)
  PROVE  q = c \/ Begins(c, q, h)
<1>1. CASE ~c.cropping_active /\ (l.start > SmallBar \/ l.end < h - SmallBar)
  <2>1. q = [c EXCEPT !.cropping_active = TRUE, !.stabilized_start_line = 0, !.start_line = 0,
                 !.stabilized_end_line = h, !.end_line = h, !.detected_end_line = h,
                 !.prev_detected_end_line = h, !.stabilize_timer = StabilizeTime,
                 !.height_limit_active = FALSE, !.end_line_stabilize_timer = SubsStabilizeTime]
    BY <1>1 DEF Crop!Activated
  <2> QED
    <3>1. c.cropping_active = FALSE
      BY <1>1 DEF CropFields
    <3>4. StabilizeTime \in Int /\ SubsStabilizeTime \in Int /\ h \in Int /\ 0 \in Int
      BY CropNumbers
    <3>2. q \in CropFields
      BY ONLY <2>1, <3>4, c \in CropFields DEF CropFields
    <3>3. /\ SameWishes(c, q) /\ q.cropping_active = TRUE /\ q.height_limit_active = FALSE
          /\ q.detected_end_line = h /\ q.prev_detected_end_line = h
          /\ q.start_line = 0 /\ q.end_line = h /\ q.stabilized_start_line = 0 /\ q.stabilized_end_line = h
      BY ONLY <2>1, <3>2, c \in CropFields DEF SameWishes, CropFields
    <3> QED
      BY ONLY <3>1, <3>3 DEF Begins
<1>2. CASE ~(~c.cropping_active /\ (l.start > SmallBar \/ l.end < h - SmallBar))
  BY <1>2 DEF Crop!Activated
<1> QED
  BY <1>1, <1>2

\* The end line that is detected is the old one, or the one of this frame; the limit
\* only runs out.
EndLineFollows(c, l, q) ==
  /\ SameWishes(c, q) /\ SameStable(c, q) /\ SameShown(c, q) /\ q.cropping_active = c.cropping_active
  /\ q.height_limit = c.height_limit
  /\ q.height_limit_active = TRUE => c.height_limit_active = TRUE
  /\ q.prev_detected_end_line = c.prev_detected_end_line
  /\ q.detected_end_line = c.detected_end_line
       \/ (c.subs_detect = TRUE /\ q.detected_end_line = l.end)

LEMMA DetectedFactsOf ==
  ASSUME NEW c \in CropFields, NEW l \in LineFields, NEW q, q = Crop!Detected(c, l)
  PROVE  EndLineFollows(c, l, q)
<1>1. CASE ~Crop!Subtitled(c)
  <2>1. q = c
    BY <1>1 DEF Crop!Detected
  <2> QED
    BY <2>1 DEF EndLineFollows, SameWishes, SameStable, SameShown, CropFields
<1>2. CASE Crop!Subtitled(c)
  <2> PICK differs : differs = (Crop!Abs(c.detected_end_line - l.end) > Near)
    OBVIOUS
  <2> PICK n1 : n1 = IF differs /\ c.end_line_stabilize_timer <= 1 THEN l.end ELSE c.detected_end_line
    OBVIOUS
  <2> PICK n2 : n2 = IF differs /\ ~(differs /\ c.end_line_stabilize_timer <= 1)
                     THEN c.end_line_stabilize_timer - 1 ELSE SubsStabilizeTime
    OBVIOUS
  <2> PICK n3 : n3 = IF c.height_limit_active THEN c.height_limit_timer - 1 ELSE c.height_limit_timer
    OBVIOUS
  <2> PICK b \in BOOLEAN : b = (c.height_limit_active /\ c.height_limit_timer - 1 > 0)
    OBVIOUS
  <2>1. n1 \in Int /\ n2 \in Int /\ n3 \in Int
    BY CropNumbers DEF CropFields, LineFields
  <2>2. q = [c EXCEPT !.detected_end_line = n1, !.end_line_stabilize_timer = n2,
                      !.height_limit_timer = n3, !.height_limit_active = b]
    BY <1>2 DEF Crop!Detected
  <2>3. b = TRUE => c.height_limit_active = TRUE
    BY DEF CropFields
  <2>4. n1 = c.detected_end_line \/ n1 = l.end
    OBVIOUS
  <2>5. q \in CropFields
    BY ONLY <2>1, <2>2, b \in BOOLEAN, c \in CropFields DEF CropFields
  <2>6. /\ SameWishes(c, q) /\ SameStable(c, q) /\ SameShown(c, q)
        /\ q.cropping_active = c.cropping_active
        /\ q.height_limit = c.height_limit /\ q.height_limit_active = b
        /\ q.prev_detected_end_line = c.prev_detected_end_line
        /\ q.detected_end_line = n1
    BY ONLY <2>2, <2>5, c \in CropFields DEF CropFields, SameWishes, SameStable, SameShown
  <2>7. c.subs_detect = TRUE
    BY <1>2 DEF Crop!Subtitled, CropFields
  <2> QED
    BY ONLY <2>3, <2>4, <2>6, <2>7 DEF EndLineFollows
<1> QED
  BY <1>1, <1>2

\* The end of the lines is put off to the limit.
PutOff(c, l, m) ==
  /\ m \in LineFields
  /\ \/ m = l /\ ~(c.cropping_active = TRUE /\ c.subs_detect = TRUE /\ c.height_limit_active = TRUE)
     \/ m.end >= c.height_limit
  /\ \/ m = l
     \/ /\ m.start = l.start /\ m.end = c.height_limit /\ l.end <= c.height_limit
        /\ c.height_limit_active = TRUE

LEMMA LimitedFacts ==
  ASSUME NEW c \in CropFields, NEW l \in LineFields, NEW m, m = Crop!Limited(c, l)
  PROVE  PutOff(c, l, m)
<1>1. CASE Crop!Subtitled(c) /\ c.height_limit_active /\ l.end < c.height_limit
  <2>1. m = [l EXCEPT !.end = c.height_limit]
    BY <1>1 DEF Crop!Limited
  <2>2. c.height_limit \in Int
    BY DEF CropFields
  <2>3. c.height_limit_active = TRUE /\ l.end < c.height_limit
    BY <1>1 DEF CropFields
  <2>4. m \in LineFields /\ m.start = l.start /\ m.end = c.height_limit
    BY <2>1, <2>2 DEF LineFields
  <2>5. l.end \in Int
    BY DEF LineFields
  <2> QED
    BY ONLY <2>2, <2>3, <2>4, <2>5 DEF PutOff
<1>2. CASE ~(Crop!Subtitled(c) /\ c.height_limit_active /\ l.end < c.height_limit)
  <2>1. m = l
    BY <1>2 DEF Crop!Limited
  <2>2. l.end \in Int /\ c.height_limit \in Int
    BY DEF LineFields, CropFields
  <2> QED
    BY <1>2, <2>1, <2>2 DEF Crop!Subtitled, PutOff
<1> QED
  BY <1>1, <1>2

LEMMA StabilizedFacts ==
  ASSUME NEW c \in CropFields, NEW l, NEW h, NEW q, q = Crop!Stabilized(c, l, h)
  PROVE  /\ SameWishes(c, q) /\ SameLimit(c, q) /\ SameStable(c, q) /\ SameShown(c, q) /\ SameEnds(c, q)
         /\ q.cropping_active = TRUE => c.cropping_active = TRUE
<1>1. CASE Crop!Differs(c, l) /\ Crop!Waits(c, l)
  <2> PICK n : n = c.stabilize_timer - 1
    OBVIOUS
  <2>1. q = [c EXCEPT !.stabilize_timer = n] /\ n \in Int
    BY <1>1 DEF Crop!Stabilized, CropFields
  <2> QED
    BY <2>1 DEF SameWishes, SameLimit, SameStable, SameShown, SameEnds, CropFields
<1>2. CASE ~(Crop!Differs(c, l) /\ Crop!Waits(c, l))
  <2> PICK b \in BOOLEAN :
             b = (c.cropping_active /\ (Crop!Waits(c, l) \/ l.start > SmallBar \/ l.end < h - SmallBar))
    OBVIOUS
  <2>1. q = [c EXCEPT !.stabilize_timer = StabilizeTime, !.cropping_active = b]
    BY <1>2 DEF Crop!Stabilized
  <2>2. b = TRUE => c.cropping_active = TRUE
    BY DEF CropFields
  <2>6. StabilizeTime \in Int
    BY CropNumbers
  <2>3. q \in CropFields
    BY ONLY <2>1, <2>6, b \in BOOLEAN, c \in CropFields DEF CropFields
  <2>4. q.cropping_active = b
    BY ONLY <2>1, c \in CropFields DEF CropFields
  <2>5. /\ SameWishes(c, q) /\ SameLimit(c, q) /\ SameStable(c, q) /\ SameShown(c, q) /\ SameEnds(c, q)
    BY ONLY <2>1, <2>3, c \in CropFields DEF CropFields, SameWishes, SameLimit, SameStable, SameShown, SameEnds
  <2> QED
    BY <2>2, <2>4, <2>5
<1> QED
  BY <1>1, <1>2

LEMMA StableLinesFacts ==
  ASSUME NEW c \in CropFields, NEW l \in LineFields, NEW m, m = Crop!StableLines(c, l)
  PROVE  /\ m \in LineFields /\ (m.end = c.stabilized_end_line \/ m.end = l.end)
         /\ (m.start = c.stabilized_start_line /\ m.end = c.stabilized_end_line) \/ m = l
<1>1. CASE Crop!Waits(c, l)
  <2>1. m = [start |-> c.stabilized_start_line, end |-> c.stabilized_end_line]
    BY <1>1 DEF Crop!StableLines
  <2> QED
    BY <2>1 DEF LineFields, CropFields
<1>2. CASE ~Crop!Waits(c, l)
  BY <1>2 DEF Crop!StableLines
<1> QED
  BY <1>1, <1>2

\* The limit rises, or is set when the end line that is detected has become larger.
Raised(c, q) ==
  /\ q.detected_end_line = c.detected_end_line /\ q.prev_detected_end_line = c.detected_end_line
  /\ q.height_limit_active = TRUE /\ c.height_limit_active = FALSE =>
       /\ c.detected_end_line > c.prev_detected_end_line + Near
       /\ q.height_limit = c.detected_end_line
  /\ q.height_limit_active = TRUE =>
       q.height_limit = c.detected_end_line \/ (c.height_limit_active = TRUE /\ q.height_limit = c.height_limit)

Marked(c, l, seen, q) ==
  /\ SameWishes(c, q) /\ SameStable(c, q) /\ SameShown(c, q) /\ q.cropping_active = c.cropping_active
  /\ \/ ~Crop!Subtitled(c) /\ q = c
     \/ /\ Crop!Subtitled(c) /\ Crop!TopMoved(c, l) /\ q.height_limit_active = FALSE
        /\ q.detected_end_line = q.prev_detected_end_line /\ q.detected_end_line = seen
     \/ Crop!Subtitled(c) /\ ~Crop!TopMoved(c, l) /\ Raised(c, q)

LEMMA SubtitlesFacts ==
  ASSUME NEW c \in CropFields, NEW l, NEW seen \in Int, NEW q, q = Crop!Subtitles(c, l, seen)
  PROVE  Marked(c, l, seen, q)
<1>1. CASE ~Crop!Subtitled(c)
  <2>1. q = c
    BY <1>1 DEF Crop!Subtitles
  <2> QED
    BY <1>1, <2>1 DEF Marked, SameWishes, SameStable, SameShown, CropFields
<1>2. CASE Crop!Subtitled(c) /\ Crop!TopMoved(c, l)
  <2>1. q = [c EXCEPT !.height_limit_active = FALSE, !.detected_end_line = seen, !.prev_detected_end_line = seen]
    BY <1>2 DEF Crop!Subtitles
  <2>2. q \in CropFields
    BY ONLY <2>1, seen \in Int, c \in CropFields DEF CropFields
  <2>3. /\ SameWishes(c, q) /\ SameStable(c, q) /\ SameShown(c, q) /\ q.cropping_active = c.cropping_active
        /\ q.height_limit_active = FALSE /\ q.detected_end_line = q.prev_detected_end_line
        /\ q.detected_end_line = seen
    BY ONLY <2>1, <2>2, c \in CropFields DEF CropFields, SameWishes, SameStable, SameShown
  <2> QED
    BY ONLY <1>2, <2>3 DEF Marked
<1>3. CASE Crop!Subtitled(c) /\ ~Crop!TopMoved(c, l)
  <2> PICK limits \in BOOLEAN :
             limits = (/\ c.detected_end_line > c.prev_detected_end_line + Near
                       /\ ~c.height_limit_active \/ c.height_limit < c.detected_end_line)
    OBVIOUS
  <2> PICK n1 : n1 = IF limits THEN c.detected_end_line ELSE c.height_limit
    OBVIOUS
  <2> PICK n2 : n2 = IF limits THEN SubsLifetime
                     ELSE IF (c.detected_end_line > c.prev_detected_end_line + Near) /\ ~limits
                             /\ c.height_limit_timer < SubsLifetime \div 4
                     THEN SubsLifetime \div 2 ELSE c.height_limit_timer
    OBVIOUS
  <2> PICK b \in BOOLEAN : b = (c.height_limit_active \/ limits)
    OBVIOUS
  <2> PICK n3 : n3 = c.detected_end_line
    OBVIOUS
  <2>1. n1 \in Int /\ n2 \in Int /\ n3 \in Int
    BY CropNumbers DEF CropFields
  <2>2. q = [c EXCEPT !.height_limit = n1, !.height_limit_timer = n2, !.height_limit_active = b,
                      !.prev_detected_end_line = n3]
    BY <1>3 DEF Crop!Subtitles
  <2>3. q \in CropFields
    BY ONLY <2>1, <2>2, b \in BOOLEAN, c \in CropFields DEF CropFields
  <2>4. /\ SameWishes(c, q) /\ SameStable(c, q) /\ SameShown(c, q) /\ q.cropping_active = c.cropping_active
        /\ q.height_limit_active = b /\ q.height_limit = n1
        /\ q.detected_end_line = c.detected_end_line /\ q.prev_detected_end_line = n3
    BY ONLY <2>2, <2>3, c \in CropFields DEF CropFields, SameWishes, SameStable, SameShown
  <2>5. b = TRUE /\ c.height_limit_active = FALSE => limits = TRUE
    OBVIOUS
  <2>6. limits = TRUE => n1 = c.detected_end_line /\ c.detected_end_line > c.prev_detected_end_line + Near
    OBVIOUS
  <2>8. b = TRUE => n1 = c.detected_end_line \/ (c.height_limit_active = TRUE /\ n1 = c.height_limit)
    BY DEF CropFields
  <2>7. Raised(c, q)
    BY ONLY <2>4, <2>5, <2>6, <2>8, n3 = c.detected_end_line DEF Raised
  <2> QED
    BY ONLY <1>3, <2>4, <2>7 DEF Marked
<1> QED
  BY <1>1, <1>2, <1>3

\* The room that the crop made for a subtitle.
Room(c, e) ==
  (/\ c.subs_detect = TRUE /\ c.height_limit_active = TRUE /\ c.stabilized_end_line >= c.height_limit
   /\ e.cropping_active = TRUE /\ e.height_limit_active = TRUE /\ e.height_limit = c.height_limit)
  => e.stabilized_end_line >= c.height_limit

\* The limit an analysis leaves is the old one, and applied, or it has just been raised to
\* the end line of this frame; a crop that begins sets none.
LEMMA ExaminedFacts ==
  ASSUME NEW c \in CropFields, NEW l \in LineFields, NEW h \in Nat,
         c.cropping_active = FALSE => l.end <= h,
         NEW e, e = Crop!Examined(c, l, h)
  PROVE  /\ SameWishes(c, e)
         /\ Compared(c) => Compared(e) /\ Room(c, e)
         /\ CropIn(c, h) /\ LinesIn(l, h) => CropIn(e, h)
<1>a1. PICK c1 : c1 = Crop!Activated(c, l, h)
  OBVIOUS
<1>a2. PICK c2 : c2 = Crop!Detected(c1, l)
  OBVIOUS
<1>a3. PICK l2 : l2 = Crop!Limited(c2, l)
  OBVIOUS
<1>a4. PICK c3 : c3 = Crop!Stabilized(c2, l2, h)
  OBVIOUS
<1>a5. PICK l3 : l3 = Crop!StableLines(c2, l2)
  OBVIOUS
<1>a6. PICK c4 : c4 = Crop!Subtitles(c3, l3, l.end)
  OBVIOUS
<1> PICK last : last = IF Crop!TopMoved(c3, l3) THEN l.end ELSE l3.end
  OBVIOUS
<1> PICK first : first = l3.start
  OBVIOUS
<1>1. c1 \in CropFields /\ SameWishes(c, c1) /\ (c1 = c \/ Begins(c, c1, h))
  <2>1. c1 = c \/ Begins(c, c1, h)
    BY ONLY c \in CropFields, h \in Nat, <1>a1, ActivatedFacts
  <2>2. SameWishes(c, c)
    BY DEF SameWishes
  <2>3. SameWishes(c, c1)
    BY ONLY <2>1, <2>2 DEF Begins
  <2> QED
    BY ONLY <2>1, <2>3 DEF SameWishes
<1>2. /\ c2 \in CropFields /\ SameWishes(c1, c2) /\ SameStable(c1, c2) /\ SameShown(c1, c2)
      /\ c2.cropping_active = c1.cropping_active
      /\ c2.height_limit = c1.height_limit
      /\ c2.height_limit_active = TRUE => c1.height_limit_active = TRUE
      /\ c2.prev_detected_end_line = c1.prev_detected_end_line
      /\ c2.detected_end_line = c1.detected_end_line
           \/ (c1.subs_detect = TRUE /\ c2.detected_end_line = l.end)
  <2>1. c1 \in CropFields
    BY <1>1
  <2>2. EndLineFollows(c1, l, c2)
    BY ONLY <2>1, l \in LineFields, <1>a2, DetectedFactsOf
  <2>3. c2 \in CropFields
    BY ONLY <2>2 DEF EndLineFollows, SameWishes
  <2> QED
    BY ONLY <2>2, <2>3 DEF EndLineFollows
<1>3. /\ l2 \in LineFields
      /\ \/ l2 = l /\ ~(c2.cropping_active = TRUE /\ c2.subs_detect = TRUE /\ c2.height_limit_active = TRUE)
         \/ l2.end >= c2.height_limit
      /\ \/ l2 = l
         \/ /\ l2.start = l.start /\ l2.end = c2.height_limit /\ l.end <= c2.height_limit
            /\ c2.height_limit_active = TRUE
  <2>1. PutOff(c2, l, l2)
    BY <1>a3, <1>2, LimitedFacts
  <2> QED
    BY ONLY <2>1 DEF PutOff
<1>4. /\ c3 \in CropFields /\ SameWishes(c2, c3) /\ SameLimit(c2, c3) /\ SameStable(c2, c3)
      /\ SameShown(c2, c3) /\ SameEnds(c2, c3)
      /\ c3.cropping_active = TRUE => c2.cropping_active = TRUE
  BY <1>a4, <1>2, StabilizedFacts DEF SameWishes
<1>5. /\ l3 \in LineFields /\ (l3.end = c2.stabilized_end_line \/ l3.end = l2.end)
      /\ (l3.start = c2.stabilized_start_line /\ l3.end = c2.stabilized_end_line) \/ l3 = l2
  BY <1>a5, <1>2, <1>3, StableLinesFacts
<1>6. /\ c4 \in CropFields /\ SameWishes(c3, c4) /\ SameStable(c3, c4) /\ SameShown(c3, c4)
      /\ c4.cropping_active = c3.cropping_active
      /\ \/ ~Crop!Subtitled(c3) /\ c4 = c3
         \/ /\ Crop!Subtitled(c3) /\ Crop!TopMoved(c3, l3) /\ c4.height_limit_active = FALSE
            /\ c4.detected_end_line = c4.prev_detected_end_line /\ c4.detected_end_line = l.end
         \/ Crop!Subtitled(c3) /\ ~Crop!TopMoved(c3, l3) /\ Raised(c3, c4)
  <2>1. l.end \in Int
    BY DEF LineFields
  <2>2. c3 \in CropFields
    BY <1>4
  <2>3. Marked(c3, l3, l.end, c4)
    BY ONLY <2>1, <2>2, <1>a6, SubtitlesFacts
  <2>4. c4 \in CropFields
    BY ONLY <2>3 DEF Marked, SameWishes
  <2> QED
    BY ONLY <2>3, <2>4 DEF Marked
<1>7. e = [c4 EXCEPT !.stabilized_start_line = first, !.stabilized_end_line = last]
  BY <1>a1, <1>a2, <1>a3, <1>a4, <1>a5, <1>a6 DEF Crop!Examined
<1>8. first \in Int /\ last \in Int
  BY <1>5 DEF LineFields
<1>9. e \in CropFields
  BY ONLY <1>6, <1>7, <1>8 DEF CropFields
<1>10. /\ SameWishes(c4, e) /\ SameLimit(c4, e) /\ SameEnds(c4, e)
       /\ e.cropping_active = c4.cropping_active /\ e.stabilized_end_line = last
       /\ SameShown(c4, e) /\ e.stabilized_start_line = first
  BY ONLY <1>6, <1>7, <1>9 DEF CropFields, SameWishes, SameLimit, SameEnds, SameShown
<1>11. SameWishes(c, e)
  BY ONLY <1>1, <1>2, <1>4, <1>6, <1>9, <1>10 DEF SameWishes
<1>12. c3.subs_detect = c.subs_detect
  BY ONLY <1>1, <1>2, <1>4 DEF SameWishes
<1>13. Crop!Subtitled(c3) <=> c3.cropping_active = TRUE /\ c.subs_detect = TRUE
  BY <1>4, <1>12 DEF Crop!Subtitled, CropFields
<1>14. Compared(c) => (c1.cropping_active = TRUE => c1.detected_end_line = c1.prev_detected_end_line)
  BY ONLY <1>1 DEF Compared, Begins
<1>15. Compared(c) => Compared(e)
  <2> SUFFICES ASSUME Compared(c), e.cropping_active = TRUE
               PROVE  e.detected_end_line = e.prev_detected_end_line
    BY DEF Compared
  <2>1. c4.cropping_active = TRUE /\ c3.cropping_active = TRUE /\ c1.cropping_active = TRUE
    BY ONLY <1>2, <1>4, <1>6, <1>10, e.cropping_active = TRUE
  <2>2. SUFFICES c4.detected_end_line = c4.prev_detected_end_line
    BY <1>10 DEF SameEnds
  <2>3. CASE ~Crop!Subtitled(c3)
    <3>1. c4 = c3 /\ c1.subs_detect # TRUE
      BY ONLY <2>1, <2>3, <1>1, <1>6, <1>13 DEF SameWishes
    <3>2. c2.detected_end_line = c2.prev_detected_end_line
      BY ONLY <2>1, <3>1, <1>2, <1>14, Compared(c)
    <3> QED
      BY ONLY <3>1, <3>2, <1>4 DEF SameEnds
  <2>4. CASE Crop!Subtitled(c3)
    BY ONLY <2>4, <1>6 DEF Raised
  <2> QED
    BY <2>3, <2>4
<1>16. Compared(c) => Room(c, e)
  <2> SUFFICES ASSUME Compared(c), c.subs_detect = TRUE, c.height_limit_active = TRUE,
                      c.stabilized_end_line >= c.height_limit,
                      e.cropping_active = TRUE, e.height_limit_active = TRUE,
                      e.height_limit = c.height_limit
               PROVE  last >= c.height_limit
    BY <1>10 DEF Room
  <2>1. /\ c4.cropping_active = TRUE /\ c3.cropping_active = TRUE /\ c2.cropping_active = TRUE
        /\ c1.cropping_active = TRUE
        /\ c4.height_limit_active = TRUE /\ c4.height_limit = c.height_limit
    BY ONLY <1>2, <1>4, <1>6, <1>10, e.cropping_active = TRUE, e.height_limit_active = TRUE,
            e.height_limit = c.height_limit DEF SameLimit
  <2>2. Crop!Subtitled(c3) /\ ~Crop!TopMoved(c3, l3) /\ Raised(c3, c4)
    BY ONLY <2>1, <1>6, <1>13, c.subs_detect = TRUE
  <2>3. last = l3.end /\ c3.height_limit_active = c2.height_limit_active
    BY <2>2, <1>4 DEF SameLimit
  <2>4. /\ c.height_limit \in Int /\ c.stabilized_end_line \in Int /\ l.end \in Int /\ l2.end \in Int
        /\ c3.detected_end_line \in Int /\ c3.prev_detected_end_line \in Int /\ Near \in Nat
        /\ c3.height_limit_active \in BOOLEAN
    BY <1>3, <1>4, CropNumbers DEF CropFields, LineFields
  <2>5. CASE c1 = c
    <3>1. c2.stabilized_end_line = c.stabilized_end_line /\ c2.height_limit = c.height_limit
      BY ONLY <2>5, <1>2 DEF SameStable
    <3>2. CASE c2.height_limit_active = TRUE
      <4>1. l2.end >= c.height_limit
        BY ONLY <3>1, <3>2, <2>1, <1>1, <1>2, <1>3, c.subs_detect = TRUE DEF SameWishes
      <4> QED
        BY ONLY <4>1, <3>1, <2>3, <1>5, c.stabilized_end_line >= c.height_limit
    <3>3. CASE c2.height_limit_active # TRUE
      <4>1. c3.height_limit_active = FALSE
        BY ONLY <3>3, <2>3, <2>4
      <4>2. /\ c3.detected_end_line > c3.prev_detected_end_line + Near
            /\ c.height_limit = c3.detected_end_line
        BY ONLY <4>1, <2>1, <2>2 DEF Raised
      <4>3. c3.detected_end_line # c3.prev_detected_end_line
        BY ONLY <4>2, <2>4
      <4>4. c3.detected_end_line = c2.detected_end_line /\ c3.prev_detected_end_line = c2.prev_detected_end_line
        BY ONLY <1>4 DEF SameEnds
      <4>5. c2.detected_end_line = l.end
        BY ONLY <4>3, <4>4, <1>2, <1>14, <2>1, Compared(c)
      <4>6. l2 = l \/ l2.end >= c.height_limit
        BY ONLY <1>3, <3>1
      <4>7. l2.end >= c.height_limit
        BY ONLY <4>2, <4>4, <4>5, <4>6, <2>4
      <4> QED
        BY ONLY <4>7, <3>1, <2>3, <1>5, c.stabilized_end_line >= c.height_limit
    <3> QED
      BY <3>2, <3>3
  <2>6. CASE Begins(c, c1, h)
    <3>1. /\ l.end <= h /\ c1.height_limit_active = FALSE
          /\ c1.detected_end_line = h /\ c1.prev_detected_end_line = h
      BY <2>6 DEF Begins
    <3>2. /\ c3.height_limit_active = FALSE
          /\ c3.prev_detected_end_line = h
          /\ c3.detected_end_line = h \/ c3.detected_end_line = l.end
      BY ONLY <3>1, <2>3, <2>4, <1>2, <1>4 DEF SameEnds
    <3>3. c3.detected_end_line > c3.prev_detected_end_line + Near
      BY ONLY <3>2, <2>1, <2>2 DEF Raised
    <3>4. ~(c3.detected_end_line > c3.prev_detected_end_line + Near)
      BY ONLY <3>1, <3>2, <2>4, h \in Nat
    <3> QED
      BY <3>3, <3>4
  <2> QED
    BY <1>1, <2>5, <2>6
<1>17. CropIn(c, h) /\ LinesIn(l, h) => CropIn(e, h)
  <2> SUFFICES ASSUME CropIn(c, h), LinesIn(l, h), e.cropping_active = TRUE
               PROVE  InFrame(e, h)
    BY DEF CropIn
  <2>1. c4.cropping_active = TRUE /\ c3.cropping_active = TRUE /\ c1.cropping_active = TRUE
    BY ONLY <1>2, <1>4, <1>6, <1>10, e.cropping_active = TRUE
  <2>2. InFrame(c1, h)
    <3>1. CASE c1 = c
      BY ONLY <3>1, <2>1, CropIn(c, h) DEF CropIn
    <3>2. CASE Begins(c, c1, h)
      <4>1. StartIn(0, h) /\ EndIn(h, h) /\ h <= h
        BY h \in Nat, CropIn(c, h) DEF CropIn, StartIn, EndIn
      <4> QED
        BY ONLY <3>2, <4>1 DEF Begins, InFrame
    <3> QED
      BY ONLY <3>1, <3>2, <1>1
  <2>3. StartIn(l.start, h) /\ EndIn(l.end, h) /\ l.end <= h
    BY ONLY LinesIn(l, h) DEF LinesIn, EndIn
  <2>4. InFrame(c2, h)
    BY ONLY <1>2, <2>2, <2>3 DEF InFrame, SameStable, SameShown
  <2>5. LinesIn(l2, h)
    <3>1. CASE l2 = l
      BY ONLY <3>1, LinesIn(l, h)
    <3>2. CASE /\ l2.start = l.start /\ l2.end = c2.height_limit /\ l.end <= c2.height_limit
               /\ c2.height_limit_active = TRUE
      <4>1. c2.height_limit <= h
        BY ONLY <3>2, <2>4 DEF InFrame
      <4>2. c2.height_limit \in Int /\ l.end \in Int /\ h \in Int
        BY <1>2 DEF CropFields, LineFields
      <4>3. EndIn(c2.height_limit, h)
        BY ONLY <2>3, <3>2, <4>1, <4>2 DEF EndIn
      <4> QED
        BY ONLY <2>3, <3>2, <4>3 DEF LinesIn
    <3> QED
      BY ONLY <3>1, <3>2, <1>3
  <2>6. InFrame(c3, h)
    BY ONLY <1>4, <2>4 DEF InFrame, SameStable, SameShown, SameLimit, SameEnds
  <2>7. LinesIn(l3, h)
    BY ONLY <1>5, <2>4, <2>5 DEF InFrame, LinesIn
  <2>8. InFrame(c4, h)
    <3>1. /\ StartIn(c4.start_line, h) /\ EndIn(c4.end_line, h)
          /\ StartIn(c4.stabilized_start_line, h) /\ EndIn(c4.stabilized_end_line, h)
      BY ONLY <1>6, <2>6 DEF InFrame, SameStable, SameShown
    <3>2. c4.detected_end_line <= h /\ (c4.height_limit_active = TRUE => c4.height_limit <= h)
      BY ONLY <1>6, <2>3, <2>6 DEF InFrame, Raised
    <3> QED
      BY ONLY <3>1, <3>2 DEF InFrame
  <2>9. StartIn(first, h) /\ EndIn(last, h)
    BY <2>3, <2>7 DEF LinesIn
  <2> QED
    BY ONLY <1>10, <2>8, <2>9 DEF InFrame, SameShown, SameLimit, SameEnds
<1> QED
  BY <1>11, <1>15, <1>16, <1>17

-----------------------------------------------------------------------------
(* The steps of the plugin.                                                 *)

\* Where the lines on the screen move to changes nothing else.
KeptBut(c, q) ==
  /\ SameWishes(c, q) /\ SameLimit(c, q) /\ SameStable(c, q) /\ SameEnds(c, q)
  /\ q.cropping_active = c.cropping_active

\* They stay within a frame when they move from lines to lines within it.
MovesIn(c, l, h, q) ==
  /\ q.prev_height = h
  /\ CropIn(c, h) /\ (c.cropping_active = TRUE => LinesIn(l, h)) => CropIn(q, h)

LEMMA TowardsFacts ==
  ASSUME NEW old \in Int, NEW new \in Int
  PROVE  /\ Crop!Towards(old, new) \in Int
         /\ \/ old <= Crop!Towards(old, new) /\ Crop!Towards(old, new) <= new
            \/ new <= Crop!Towards(old, new) /\ Crop!Towards(old, new) <= old
<1>1. PICK step : step = SoftStep
  OBVIOUS
<1>2. step \in Nat
  BY <1>1, CropNumbers
<1>3. Crop!Towards(old, new) = old + (IF new - old < -step THEN -step ELSE IF new - old > step THEN step ELSE new - old)
  BY <1>1 DEF Crop!Towards, Crop!Clamp
<1> QED
  BY ONLY <1>2, <1>3, old \in Int, new \in Int

LEMMA BetweenIn ==
  ASSUME NEW old \in Int, NEW new \in Int, NEW n \in Int, NEW h \in Nat,
         (old <= n /\ n <= new) \/ (new <= n /\ n <= old)
  PROVE  /\ StartIn(old, h) /\ StartIn(new, h) => StartIn(n, h)
         /\ EndIn(old, h) /\ EndIn(new, h) => EndIn(n, h)
BY DEF StartIn, EndIn

LEMMA MovedFacts ==
  ASSUME NEW c \in CropFields, NEW l \in LineFields, NEW h \in Nat, NEW q, q = Crop!Moved(c, l, h)
  PROVE  KeptBut(c, q) /\ MovesIn(c, l, h, q)
<1> DEFINE soft == c.cropping_active /\ c.soft_start
<1>1. PICK n1 : n1 = IF soft THEN Crop!Towards(c.start_line, l.start) ELSE l.start
  OBVIOUS
<1>2. PICK n2 : n2 = IF soft THEN Crop!Towards(c.end_line, l.end) ELSE l.end
  OBVIOUS
<1>4. n1 \in Int /\ n2 \in Int
  <2>1. c.start_line \in Int /\ c.end_line \in Int /\ l.start \in Int /\ l.end \in Int
    BY DEF CropFields, LineFields
  <2> QED
    BY ONLY <2>1, <1>1, <1>2, TowardsFacts
<1>5. q = [c EXCEPT !.start_line = n1, !.end_line = n2, !.prev_height = h]
  BY <1>1, <1>2 DEF Crop!Moved
<1>7. h \in Int
  OBVIOUS
<1>6. q \in CropFields
  BY ONLY <1>4, <1>5, <1>7, c \in CropFields DEF CropFields
<1>8. KeptBut(c, q)
  BY ONLY <1>5, <1>6, c \in CropFields
     DEF CropFields, KeptBut, SameWishes, SameLimit, SameStable, SameEnds
<1>9. q.prev_height = h /\ q.start_line = n1 /\ q.end_line = n2
  BY ONLY <1>4, <1>5, <1>7, c \in CropFields DEF CropFields
<1>10. ASSUME CropIn(c, h), LinesIn(l, h), c.cropping_active = TRUE
       PROVE  InFrame(q, h)
  <2>1. InFrame(c, h) /\ StartIn(l.start, h) /\ EndIn(l.end, h)
    BY <1>10 DEF CropIn, LinesIn
  <2>2. StartIn(c.start_line, h) /\ EndIn(c.end_line, h)
    BY <2>1 DEF InFrame
  <2>3. c.start_line \in Int /\ c.end_line \in Int /\ l.start \in Int /\ l.end \in Int
    BY DEF CropFields, LineFields
  <2>4. StartIn(n1, h)
    <3>1. CASE n1 = l.start
      BY <3>1, <2>1
    <3>2. CASE n1 = Crop!Towards(c.start_line, l.start)
      <4>1. (c.start_line <= n1 /\ n1 <= l.start) \/ (l.start <= n1 /\ n1 <= c.start_line)
        BY ONLY <3>2, <2>3, TowardsFacts
      <4> QED
        BY ONLY <4>1, <2>1, <2>2, <2>3, <1>4, h \in Nat, BetweenIn
    <3> QED
      BY <3>1, <3>2, <1>1
  <2>5. EndIn(n2, h)
    <3>1. CASE n2 = l.end
      BY <3>1, <2>1
    <3>2. CASE n2 = Crop!Towards(c.end_line, l.end)
      <4>1. (c.end_line <= n2 /\ n2 <= l.end) \/ (l.end <= n2 /\ n2 <= c.end_line)
        BY ONLY <3>2, <2>3, TowardsFacts
      <4> QED
        BY ONLY <4>1, <2>1, <2>2, <2>3, <1>4, h \in Nat, BetweenIn
    <3> QED
      BY <3>1, <3>2, <1>2
  <2> QED
    BY ONLY <1>8, <1>9, <2>1, <2>4, <2>5 DEF InFrame, KeptBut, SameLimit, SameStable, SameEnds
<1>11. MovesIn(c, l, h, q)
  <2> SUFFICES ASSUME CropIn(c, h), c.cropping_active = TRUE => LinesIn(l, h)
               PROVE  CropIn(q, h)
    BY <1>9 DEF MovesIn
  <2>1. q.cropping_active = c.cropping_active /\ 16 <= h
    BY ONLY <1>8, CropIn(c, h) DEF KeptBut, CropIn
  <2> QED
    BY <2>1, <1>10 DEF CropIn
<1> QED
  BY <1>8, <1>11

\* What SubtitlesKept says of one step.
RoomKept(c, q) ==
  (/\ c.autodetect /\ c.subs_detect /\ c.cropping_active /\ q.cropping_active
   /\ c.height_limit_active /\ q.height_limit_active /\ q.height_limit = c.height_limit
   /\ c.stabilized_end_line >= c.height_limit)
  => q.stabilized_end_line >= c.height_limit

\* A step that ends in q, from c.
Follow(c, q) ==
  /\ q \in CropFields /\ q.autodetect = c.autodetect
  /\ c.autodetect = TRUE /\ Compared(c) => Compared(q) /\ RoomKept(c, q)

\* A frame of h lines is drawn: what is on the screen stays within.
Shows(c, q, h) == q.prev_height = h /\ (CropIn(c, h) => CropIn(q, h))

LEMMA JumpedIn ==
  ASSUME NEW c \in CropFields, NEW jump, NEW q, q = Crop!Jumped(c, jump), NEW h, CropIn(c, h)
  PROVE  CropIn(q, h)
<1>1. /\ SameLimit(c, q) /\ SameStable(c, q) /\ SameShown(c, q) /\ SameEnds(c, q)
      /\ q.cropping_active = TRUE => c.cropping_active = TRUE
  BY JumpedFacts
<1> QED
  BY ONLY <1>1, CropIn(c, h) DEF CropIn, InFrame, SameLimit, SameStable, SameShown, SameEnds

\* A frame that is not analysed.
LEMMA PassedFacts ==
  ASSUME NEW o \in CropFields, NEW jump, NEW c, c = Crop!Jumped(o, jump),
         NEW h \in Nat, NEW l, l = Crop!Lines(c, h), NEW q, q = Crop!Moved(c, l, h)
  PROVE  Follow(o, q) /\ Shows(o, q, h)
<1>1. /\ SameWishes(o, c) /\ SameLimit(o, c) /\ SameStable(o, c) /\ SameEnds(o, c)
      /\ c.cropping_active = TRUE => o.cropping_active = TRUE
  BY JumpedFacts
<1>2. c \in CropFields
  BY ONLY <1>1 DEF SameWishes
<1>3. l \in LineFields /\ (CropIn(c, h) => LinesIn(l, h))
  BY <1>2, LinesFacts
<1>4. KeptBut(c, q) /\ MovesIn(c, l, h, q)
  BY ONLY <1>2, <1>3, h \in Nat, q = Crop!Moved(c, l, h), MovedFacts
<1>5. q \in CropFields /\ q.autodetect = o.autodetect
  BY ONLY <1>1, <1>4 DEF KeptBut, SameWishes
<1>6. Compared(o) => Compared(q)
  BY ONLY <1>1, <1>4 DEF Compared, KeptBut, SameEnds
<1>7. q.stabilized_end_line = o.stabilized_end_line
  BY ONLY <1>1, <1>4 DEF KeptBut, SameStable
<1>8. RoomKept(o, q)
  BY ONLY <1>7 DEF RoomKept
<1>9. CropIn(o, h) => CropIn(c, h)
  BY JumpedIn
<1>10. Shows(o, q, h)
  BY ONLY <1>3, <1>4, <1>9 DEF MovesIn, Shows
<1> QED
  BY ONLY <1>5, <1>6, <1>8, <1>10 DEF Follow

\* A frame that is.
LEMMA FrameFacts ==
  ASSUME NEW o \in CropFields, NEW jump, NEW c, c = Crop!Jumped(o, jump),
         NEW h \in Nat, NEW l \in LineFields, c.cropping_active = FALSE => l.end <= h,
         CropIn(c, h) => LinesIn(l, h),
         NEW e, e = Crop!Examined(c, l, h), NEW m \in LineFields,
         m.start = e.stabilized_start_line, m.end = e.stabilized_end_line,
         NEW q, q = Crop!Moved(e, m, h)
  PROVE  Follow(o, q) /\ Shows(o, q, h)
<1>1. /\ SameWishes(o, c) /\ SameLimit(o, c) /\ SameStable(o, c) /\ SameEnds(o, c)
      /\ c.cropping_active = TRUE => o.cropping_active = TRUE
  BY JumpedFacts
<1>2. c \in CropFields /\ (Compared(o) => Compared(c))
  BY ONLY <1>1 DEF SameWishes, SameEnds, Compared
<1>3. /\ SameWishes(c, e)
      /\ Compared(c) => Compared(e) /\ Room(c, e)
      /\ CropIn(c, h) /\ LinesIn(l, h) => CropIn(e, h)
  BY ONLY <1>2, l \in LineFields, h \in Nat, c.cropping_active = FALSE => l.end <= h,
          e = Crop!Examined(c, l, h), ExaminedFacts
<1>4. e \in CropFields
  BY ONLY <1>3 DEF SameWishes
<1>5. KeptBut(e, q) /\ MovesIn(e, m, h, q)
  BY ONLY <1>4, m \in LineFields, h \in Nat, q = Crop!Moved(e, m, h), MovedFacts
<1>6. q \in CropFields /\ q.autodetect = o.autodetect
  BY ONLY <1>1, <1>3, <1>5 DEF KeptBut, SameWishes
<1>7. Compared(o) => Compared(q)
  BY ONLY <1>2, <1>3, <1>5 DEF KeptBut, SameEnds, Compared
<1>8. Compared(o) => RoomKept(o, q)
  <2> SUFFICES ASSUME Compared(o), o.autodetect, o.subs_detect, o.cropping_active, q.cropping_active,
                      o.height_limit_active, q.height_limit_active, q.height_limit = o.height_limit,
                      o.stabilized_end_line >= o.height_limit
               PROVE  q.stabilized_end_line >= o.height_limit
    BY DEF RoomKept
  <2>1. /\ o.subs_detect = TRUE /\ o.height_limit_active = TRUE
        /\ q.cropping_active = TRUE /\ q.height_limit_active = TRUE
    BY <1>6 DEF CropFields
  <2>2. /\ c.subs_detect = TRUE /\ c.height_limit_active = TRUE /\ c.height_limit = o.height_limit
        /\ c.stabilized_end_line = o.stabilized_end_line
    BY ONLY <2>1, <1>1 DEF SameWishes, SameLimit, SameStable
  <2>3. /\ e.cropping_active = TRUE /\ e.height_limit_active = TRUE /\ e.height_limit = q.height_limit
        /\ q.stabilized_end_line = e.stabilized_end_line
    BY ONLY <2>1, <1>5 DEF KeptBut, SameLimit, SameStable
  <2>4. e.stabilized_end_line >= c.height_limit
    BY ONLY <2>2, <2>3, <1>2, <1>3, Compared(o), q.height_limit = o.height_limit,
            o.stabilized_end_line >= o.height_limit DEF Room
  <2> QED
    BY ONLY <2>2, <2>3, <2>4
<1>9. CropIn(o, h) => CropIn(c, h)
  BY JumpedIn
<1>10. CropIn(o, h) => CropIn(e, h)
  BY ONLY <1>3, <1>9, CropIn(c, h) => LinesIn(l, h)
<1>11. CropIn(e, h) /\ e.cropping_active = TRUE => LinesIn(m, h)
  BY ONLY m.start = e.stabilized_start_line, m.end = e.stabilized_end_line DEF CropIn, InFrame, LinesIn
<1>12. Shows(o, q, h)
  BY ONLY <1>5, <1>10, <1>11 DEF MovesIn, Shows
<1> QED
  BY ONLY <1>6, <1>7, <1>8, <1>12 DEF Follow

\* Without detection nothing is compared; the lines are those of the frame.
Fills(q, h) == 16 <= h => StartIn(q.start_line, h) /\ EndIn(q.end_line, h)

LEMMA FixedFacts ==
  ASSUME NEW o \in CropFields, o.autodetect = FALSE, NEW h \in Nat, NEW q, q = Crop!Fixed(o, h)
  PROVE  Follow(o, q) /\ Fills(q, h)
<1>1. PICK n1 : n1 = h \div 8
  OBVIOUS
<1>2. PICK n2 : n2 = (h * 7) \div 8
  OBVIOUS
<1>3. n1 \in Int /\ n2 \in Int
  BY <1>1, <1>2
<1>4. q = [o EXCEPT !.cropping_active = TRUE, !.start_line = n1, !.end_line = n2]
  BY <1>1, <1>2 DEF Crop!Fixed
<1>5. q \in CropFields
  BY ONLY <1>3, <1>4, o \in CropFields DEF CropFields
<1>6. q.autodetect = o.autodetect /\ q.start_line = n1 /\ q.end_line = n2
  BY ONLY <1>3, <1>4, o \in CropFields DEF CropFields
<1>7. 16 <= h => StartIn(n1, h) /\ EndIn(n2, h)
  BY ONLY <1>1, <1>2, <1>3, h \in Nat DEF StartIn, EndIn
<1> QED
  BY ONLY <1>5, <1>6, <1>7, o.autodetect = FALSE DEF Follow, Fills

\* The detection follows a crop from its start, or there is none.
Starts(q, h) == Compared(q) /\ (16 <= h => CropIn(q, h))

\* s and t: the detection did not, and does not, know the crop's start.
Drawn(c, q, h, s, t) ==
  /\ Follow(c, q) /\ t \in BOOLEAN
  /\ c.autodetect = TRUE => /\ Shows(c, q, h) /\ (t = FALSE => s = FALSE \/ Starts(q, h))
  /\ c.autodetect = FALSE => Fills(q, h)

\* A crop that ends when the timestamps jump leaves nothing to be followed, ...
LEMMA StartsAfterJump ==
  ASSUME NEW c, NEW q, NEW h, c.cropping_active = FALSE, c.autodetect = TRUE, Follow(c, q), Shows(c, q, h)
  PROVE  Starts(q, h)
<1>1. Compared(c) /\ (16 <= h => CropIn(c, h))
  BY DEF Compared, CropIn
<1> QED
  BY <1>1 DEF Starts, Follow, Shows

\* ... nor does one that ends with this frame.
LEMMA StartsAtEnd ==
  ASSUME NEW q, NEW h, q.cropping_active = FALSE
  PROVE  Starts(q, h)
BY DEF Starts, Compared, CropIn

LEMMA JumpedNone == ASSUME NEW c PROVE c = Crop!Jumped(c, "none")
BY DEF Crop!Jumped

\* What has been followed before and after the jump is drawn.
LEMMA DrawnOf ==
  ASSUME NEW o \in CropFields, o.autodetect = TRUE, NEW c, SameWishes(o, c), NEW q, NEW h,
         Follow(o, q), Shows(o, q, h), Follow(c, q), Shows(c, q, h),
         NEW s \in BOOLEAN, NEW t, t = (s /\ c.cropping_active /\ q.cropping_active)
  PROVE  Drawn(o, q, h, s, t)
<1>1. c \in CropFields /\ c.autodetect = TRUE
  BY ONLY SameWishes(o, c), o.autodetect = TRUE DEF SameWishes
<1>2. c.cropping_active \in BOOLEAN /\ q.cropping_active \in BOOLEAN
  BY <1>1 DEF Follow, CropFields
<1>3. t \in BOOLEAN /\ (t = FALSE => s = FALSE \/ c.cropping_active = FALSE \/ q.cropping_active = FALSE)
  BY <1>2
<1>4. t = FALSE => s = FALSE \/ Starts(q, h)
  BY ONLY <1>1, <1>3, Follow(c, q), Shows(c, q, h), StartsAfterJump, StartsAtEnd
<1> QED
  BY ONLY <1>3, <1>4, Follow(o, q), Shows(o, q, h), o.autodetect = TRUE DEF Drawn

LEMMA DrawFollows ==
  ASSUME CropInv, Crop!Draw
  PROVE  Drawn(crop, crop', Head(ahead), switched, switched') /\ ahead' \in Seq(Nat)
<1>1. crop \in CropFields /\ ahead \in Seq(Nat) /\ ahead # <<>> /\ switched \in BOOLEAN
  BY DEF CropInv, CropSound, Crop!Draw
<1>2. PICK h : h = Head(ahead)
  OBVIOUS
<1>3. h \in Nat /\ ahead' \in Seq(Nat)
  <2>1. Head(ahead) \in Nat /\ Tail(ahead) \in Seq(Nat)
    BY ONLY <1>1
  <2>2. ahead' = Tail(ahead)
    BY DEF Crop!Draw
  <2> QED
    BY <1>2, <2>1, <2>2
<1>4. PICK q, t : q = crop' /\ t = switched'
  OBVIOUS
<1>5. CASE ~crop.autodetect
  <2>1. q = Crop!Fixed(crop, h) /\ t = FALSE
    BY <1>2, <1>4, <1>5 DEF Crop!Draw
  <2>2. crop.autodetect = FALSE
    BY <1>1, <1>5 DEF CropFields
  <2>3. Follow(crop, q) /\ Fills(q, h)
    BY <2>1, <2>2, <1>1, <1>3, FixedFacts
  <2>4. Drawn(crop, q, h, switched, t)
    BY ONLY <2>1, <2>2, <2>3 DEF Drawn
  <2> QED
    BY ONLY <2>4, <1>2, <1>3, <1>4
<1>6. CASE crop.autodetect
  <2>1. PICK jump \in {"none", "short", "long"} :
          LET c == Crop!Jumped(crop, jump)
          IN  /\ Crop!Drawn(c, h)
              /\ switched' = (switched /\ c.cropping_active /\ crop'.cropping_active)
    BY <1>2, <1>6 DEF Crop!Draw
  <2>2. PICK c : c = Crop!Jumped(crop, jump)
    OBVIOUS
  <2>3. /\ \/ q = Crop!Moved(c, Crop!Lines(c, h), h)
           \/ LET e == Crop!Examined(c, Crop!Lines(c, h), h)
              IN  q = Crop!Moved(e, [start |-> e.stabilized_start_line, end |-> e.stabilized_end_line], h)
           \/ \E top \in Tops, bottom \in Bottoms :
                LET e == Crop!Examined(c, Crop!Analysed(top, bottom, h), h)
                IN  /\ top < bottom /\ bottom <= h
                    /\ q = Crop!Moved(e, [start |-> e.stabilized_start_line, end |-> e.stabilized_end_line], h)
        /\ t = (switched /\ c.cropping_active /\ q.cropping_active)
    BY <2>1, <2>2, <1>4 DEF Crop!Drawn
  <2>4. c \in CropFields /\ SameWishes(crop, c) /\ c = Crop!Jumped(c, "none")
    BY <1>1, <2>2, JumpedFacts, JumpedNone DEF SameWishes
  <2>9. crop.autodetect = TRUE
    BY <1>1, <1>6 DEF CropFields
  <2>11. ASSUME Follow(crop, q), Shows(crop, q, h), Follow(c, q), Shows(c, q, h)
         PROVE  Drawn(crop, q, h, switched, t)
    BY ONLY <1>1, <2>3, <2>4, <2>9, <2>11, DrawnOf
  <2>5. ASSUME q = Crop!Moved(c, Crop!Lines(c, h), h)
        PROVE  Drawn(crop, q, h, switched, t)
    <3>1. Follow(crop, q) /\ Shows(crop, q, h)
      BY <2>5, <2>2, <1>1, <1>3, PassedFacts
    <3>2. Follow(c, q) /\ Shows(c, q, h)
      BY <2>5, <2>4, <1>3, PassedFacts
    <3> QED
      BY ONLY <3>1, <3>2, <2>11
  <2>6. ASSUME NEW l \in LineFields, c.cropping_active = FALSE => l.end <= h,
               CropIn(c, h) => LinesIn(l, h),
               NEW e, e = Crop!Examined(c, l, h),
               q = Crop!Moved(e, [start |-> e.stabilized_start_line, end |-> e.stabilized_end_line], h)
        PROVE  Drawn(crop, q, h, switched, t)
    <3>2. SameWishes(c, e)
      BY ONLY <2>4, <2>6, <1>3, ExaminedFacts
    <3>3. PICK m : m = [start |-> e.stabilized_start_line, end |-> e.stabilized_end_line]
      OBVIOUS
    <3>4. m \in LineFields
      BY ONLY <3>2, <3>3 DEF SameWishes, CropFields, LineFields
    <3>6. m.start = e.stabilized_start_line /\ m.end = e.stabilized_end_line
      BY <3>3
    <3>5. q = Crop!Moved(e, m, h)
      BY <2>6, <3>3
    <3>7. Follow(crop, q) /\ Shows(crop, q, h)
      BY ONLY <1>1, <1>3, <2>2, <2>6, <3>4, <3>5, <3>6, FrameFacts
    <3>8. Follow(c, q) /\ Shows(c, q, h)
      BY ONLY <2>4, <1>3, <2>6, <3>4, <3>5, <3>6, FrameFacts
    <3> QED
      BY ONLY <3>7, <3>8, <2>11
  <2>7. ASSUME LET e == Crop!Examined(c, Crop!Lines(c, h), h)
               IN  q = Crop!Moved(e, [start |-> e.stabilized_start_line, end |-> e.stabilized_end_line], h)
        PROVE  Drawn(crop, q, h, switched, t)
    <3>1. PICK l : l = Crop!Lines(c, h)
      OBVIOUS
    <3>2. PICK e : e = Crop!Examined(c, l, h)
      OBVIOUS
    <3>3. l \in LineFields /\ (c.cropping_active = FALSE => l.end <= h) /\ (CropIn(c, h) => LinesIn(l, h))
      BY <3>1, <2>4, <1>3, LinesFacts
    <3>4. q = Crop!Moved(e, [start |-> e.stabilized_start_line, end |-> e.stabilized_end_line], h)
      BY <2>7, <3>1, <3>2
    <3> QED
      BY <3>2, <3>3, <3>4, <2>6
  <2>8. ASSUME NEW top \in Tops, NEW bottom \in Bottoms, top < bottom, bottom <= h,
               LET e == Crop!Examined(c, Crop!Analysed(top, bottom, h), h)
               IN  q = Crop!Moved(e, [start |-> e.stabilized_start_line, end |-> e.stabilized_end_line], h)
        PROVE  Drawn(crop, q, h, switched, t)
    <3>1. PICK l : l = Crop!Analysed(top, bottom, h)
      OBVIOUS
    <3>2. PICK e : e = Crop!Examined(c, l, h)
      OBVIOUS
    <3>3. l \in LineFields /\ l.end <= h /\ (CropIn(c, h) => LinesIn(l, h))
      BY <3>1, <2>8, <1>3, CropNumbers, AnalysedFacts DEF CropIn
    <3>4. q = Crop!Moved(e, [start |-> e.stabilized_start_line, end |-> e.stabilized_end_line], h)
      BY <2>8, <3>1, <3>2
    <3> QED
      BY <3>2, <3>3, <3>4, <2>6
  <2>10. Drawn(crop, q, h, switched, t)
    BY <2>3, <2>5, <2>7, <2>8
  <2> QED
    BY ONLY <2>10, <1>2, <1>3, <1>4
<1> QED
  BY <1>3, <1>5, <1>6

\* A step that draws nothing lets the crop end, and leaves the lines where they are;
\* the detection that is switched on follows no crop that is active.
Rests(c, q, s, t) ==
  /\ SameLimit(c, q) /\ SameStable(c, q) /\ SameShown(c, q) /\ SameEnds(c, q)
  /\ q \in CropFields /\ t \in BOOLEAN /\ q.prev_height = c.prev_height
  /\ q.cropping_active = TRUE =>
       /\ c.cropping_active = TRUE
       /\ t = FALSE => s = FALSE /\ (q.autodetect = TRUE => c.autodetect = TRUE)

\* The frame the decoder asks for, of h lines; 0 is one that is not intercepted.
Gets(c, a, q, b, h) ==
  /\ \A i \in DOMAIN a : a[i] = h
  /\ b = IF h = 0 THEN a ELSE Append(a, h)
  /\ q.autodetect = c.autodetect
  /\ q.cropping_active = TRUE => h # 0 /\ (c.autodetect = TRUE => h = c.prev_height)

LEMMA GetFrameFollows ==
  ASSUME CropInv, Crop!GetFrame
  PROVE  /\ Rests(crop, crop', switched, switched') /\ ahead' \in Seq(Nat)
         /\ \E h \in Heights \cup {0} : Gets(crop, ahead, crop', ahead', h)
<1>1. crop \in CropFields /\ ahead \in Seq(Nat) /\ switched \in BOOLEAN
  BY DEF CropInv, CropSound
<1>2. PICK h \in Heights \cup {0} :
        /\ \A i \in DOMAIN ahead : ahead[i] = h
        /\ crop' = [crop EXCEPT !.cropping_active = @ /\ h # 0 /\ (crop.autodetect => h = crop.prev_height)]
        /\ ahead' = IF h = 0 THEN ahead ELSE Append(ahead, h)
  BY DEF Crop!GetFrame
<1>3. ahead' \in Seq(Nat)
  <2>1. h \in Nat
    BY CropNumbers
  <2>2. Append(ahead, h) \in Seq(Nat)
    BY ONLY <2>1, <1>1
  <2> QED
    BY <1>1, <1>2, <2>2
<1>4. PICK q, t : q = crop' /\ t = switched'
  OBVIOUS
<1> PICK b \in BOOLEAN : b = (crop.cropping_active /\ h # 0 /\ (crop.autodetect => h = crop.prev_height))
  OBVIOUS
<1>5. /\ q = [crop EXCEPT !.cropping_active = b]
      /\ b = TRUE => /\ crop.cropping_active = TRUE /\ h # 0
                     /\ crop.autodetect = TRUE => h = crop.prev_height
  BY <1>1, <1>2, <1>4 DEF CropFields
<1>6. q \in CropFields
  BY ONLY <1>1, <1>5, b \in BOOLEAN DEF CropFields
<1>7. /\ q.cropping_active = b /\ q.autodetect = crop.autodetect /\ q.prev_height = crop.prev_height
      /\ SameEnds(crop, q) /\ SameStable(crop, q) /\ SameLimit(crop, q) /\ SameShown(crop, q)
  BY ONLY <1>1, <1>5, <1>6 DEF CropFields, SameEnds, SameStable, SameLimit, SameShown
<1>8. t = (switched /\ q.cropping_active)
  BY <1>4 DEF Crop!GetFrame
<1>9. t \in BOOLEAN /\ (b = TRUE /\ t = FALSE => switched = FALSE)
  BY <1>1, <1>7, <1>8
<1>11. Rests(crop, q, switched, t)
  BY ONLY <1>5, <1>6, <1>7, <1>9 DEF Rests
<1>12. Gets(crop, ahead, q, ahead', h)
  <2>1. (\A i \in DOMAIN ahead : ahead[i] = h) /\ ahead' = IF h = 0 THEN ahead ELSE Append(ahead, h)
    BY <1>2
  <2> QED
    BY ONLY <2>1, <1>5, <1>7 DEF Gets
<1> QED
  BY ONLY <1>3, <1>4, <1>11, <1>12, h \in Heights \cup {0}

LEMMA VideoCloseFollows ==
  ASSUME CropInv, Crop!VideoClose
  PROVE  Rests(crop, crop', switched, switched') /\ ahead' = <<>>
<1>1. crop \in CropFields
  BY DEF CropInv, CropSound
<1>2. PICK q, t : q = crop' /\ t = switched'
  OBVIOUS
<1>3. q = [crop EXCEPT !.cropping_active = FALSE] /\ ahead' = <<>> /\ t = FALSE
  BY <1>2 DEF Crop!VideoClose
<1>4. q \in CropFields
  BY ONLY <1>1, <1>3 DEF CropFields
<1>5. /\ q.autodetect = crop.autodetect /\ q.cropping_active = FALSE /\ q.prev_height = crop.prev_height
      /\ SameEnds(crop, q) /\ SameStable(crop, q) /\ SameLimit(crop, q) /\ SameShown(crop, q)
  BY ONLY <1>1, <1>3, <1>4 DEF CropFields, SameEnds, SameStable, SameLimit, SameShown
<1>6. Rests(crop, q, switched, t)
  BY ONLY <1>3, <1>4, <1>5 DEF Rests
<1> QED
  BY ONLY <1>2, <1>3, <1>6

LEMMA SetParametersFollows ==
  ASSUME CropInv, Crop!SetParameters
  PROVE  Rests(crop, crop', switched, switched') /\ ahead' = ahead /\ ahead' \in Seq(Nat)
<1>1. crop \in CropFields /\ ahead \in Seq(Nat) /\ switched \in BOOLEAN
  BY DEF CropInv, CropSound
<1>2. PICK subs \in BOOLEAN, soft \in BOOLEAN, auto \in BOOLEAN :
        /\ crop' = [crop EXCEPT !.subs_detect = subs, !.soft_start = soft, !.autodetect = auto]
        /\ switched' = (switched \/ (auto /\ ~crop.autodetect /\ crop.cropping_active))
  BY DEF Crop!SetParameters
<1>3. PICK q, t : q = crop' /\ t = switched'
  OBVIOUS
<1>4. q = [crop EXCEPT !.subs_detect = subs, !.soft_start = soft, !.autodetect = auto]
  BY <1>2, <1>3
<1>5. q \in CropFields
  BY ONLY <1>1, <1>4, subs \in BOOLEAN, soft \in BOOLEAN, auto \in BOOLEAN DEF CropFields
<1>6. /\ q.autodetect = auto /\ q.cropping_active = crop.cropping_active /\ q.prev_height = crop.prev_height
      /\ SameEnds(crop, q) /\ SameStable(crop, q) /\ SameLimit(crop, q) /\ SameShown(crop, q)
  BY ONLY <1>1, <1>4, <1>5 DEF CropFields, SameEnds, SameStable, SameLimit, SameShown
<1>7. t = (switched \/ (auto /\ ~crop.autodetect /\ crop.cropping_active))
  BY <1>2, <1>3
<1>8. /\ t \in BOOLEAN
      /\ crop.cropping_active = TRUE /\ t = FALSE => switched = FALSE /\ (auto = TRUE => crop.autodetect = TRUE)
  <2>1. crop.autodetect \in BOOLEAN
    BY <1>1 DEF CropFields
  <2> QED
    BY <1>1, <1>7, <2>1
<1>9. ahead' = ahead
  BY DEF Crop!SetParameters
<1>10. Rests(crop, q, switched, t)
  BY ONLY <1>5, <1>6, <1>8 DEF Rests
<1> QED
  BY ONLY <1>1, <1>3, <1>9, <1>10

\* What SubtitlesKept says of one step, with the detection that followed the crop from its start.
RoomStep(c, q, s) ==
  (/\ ~s /\ c.autodetect /\ c.subs_detect /\ c.cropping_active /\ q.cropping_active
   /\ c.height_limit_active /\ q.height_limit_active /\ q.height_limit = c.height_limit
   /\ c.stabilized_end_line >= c.height_limit)
  => q.stabilized_end_line >= c.height_limit

LEMMA RestsSound ==
  ASSUME NEW c, NEW a, NEW s, CropSound(c, a, s), NEW q, NEW b \in Seq(Nat), NEW t, Rests(c, q, s, t)
  PROVE  CropSound(q, b, t) /\ RoomStep(c, q, s)
<1>1. q.autodetect = TRUE /\ t = FALSE => Compared(q)
  <2> SUFFICES ASSUME q.autodetect = TRUE, t = FALSE, q.cropping_active = TRUE
               PROVE  q.detected_end_line = q.prev_detected_end_line
    BY DEF Compared
  <2>1. c.cropping_active = TRUE /\ s = FALSE /\ c.autodetect = TRUE
    BY DEF Rests
  <2>2. c.detected_end_line = c.prev_detected_end_line
    BY <2>1 DEF CropSound, Compared
  <2> QED
    BY <2>2 DEF Rests, SameEnds
<1>2. q.stabilized_end_line = c.stabilized_end_line /\ q \in CropFields /\ t \in BOOLEAN
  BY DEF Rests, SameStable
<1>3. RoomStep(c, q, s)
  BY ONLY <1>2 DEF RoomStep
<1> QED
  BY ONLY <1>1, <1>2, <1>3, b \in Seq(Nat) DEF CropSound

LEMMA DrawnSound ==
  ASSUME NEW c, NEW a, NEW s, CropSound(c, a, s), NEW q, NEW b \in Seq(Nat), NEW h, NEW t, Drawn(c, q, h, s, t)
  PROVE  CropSound(q, b, t) /\ RoomStep(c, q, s)
<1>1. q \in CropFields /\ t \in BOOLEAN /\ q.autodetect = c.autodetect
  BY DEF Drawn, Follow
<1>2. c \in CropFields /\ s \in BOOLEAN /\ (c.autodetect = TRUE /\ s = FALSE => Compared(c))
  BY DEF CropSound
<1>3. c.autodetect = TRUE /\ s = FALSE => Compared(q) /\ RoomKept(c, q)
  BY <1>2 DEF Drawn, Follow
<1>4. c.autodetect = TRUE /\ t = FALSE => Compared(q)
  BY <1>3 DEF Drawn, Starts
<1>5. RoomStep(c, q, s)
  <2>1. ~s /\ c.autodetect => RoomKept(c, q)
    BY <1>2, <1>3 DEF CropFields
  <2> QED
    BY ONLY <2>1 DEF RoomKept, RoomStep
<1> QED
  BY ONLY <1>1, <1>4, <1>5, b \in Seq(Nat) DEF CropSound

LEMMA CropInvInit == Crop!CropInit => CropInv
<1> SUFFICES ASSUME Crop!CropInit PROVE CropInv
  OBVIOUS
<1>1. crop \in CropFields /\ crop.detected_end_line = crop.prev_detected_end_line /\ ahead = <<>>
      /\ switched = FALSE
  <2>1. crop \in CropFields
    <3>1. crop = [autodetect |-> crop.autodetect, subs_detect |-> crop.subs_detect,
                  soft_start |-> crop.soft_start, cropping_active |-> crop.cropping_active,
                  start_line |-> crop.start_line, end_line |-> crop.end_line,
                  stabilized_start_line |-> crop.stabilized_start_line, stabilized_end_line |-> crop.stabilized_end_line,
                  stabilize_timer |-> crop.stabilize_timer, detected_end_line |-> crop.detected_end_line,
                  prev_detected_end_line |-> crop.prev_detected_end_line, end_line_stabilize_timer |-> crop.end_line_stabilize_timer,
                  height_limit_active |-> crop.height_limit_active, height_limit |-> crop.height_limit,
                  height_limit_timer |-> crop.height_limit_timer, prev_height |-> crop.prev_height]
      BY DEF Crop!CropInit
    <3>2. /\ {crop.autodetect, crop.subs_detect, crop.soft_start} \subseteq BOOLEAN
          /\ {crop.cropping_active, crop.height_limit_active} = {FALSE}
          /\ {crop.start_line, crop.end_line, crop.stabilized_start_line, crop.stabilized_end_line,
              crop.stabilize_timer, crop.detected_end_line, crop.prev_detected_end_line,
              crop.end_line_stabilize_timer, crop.height_limit, crop.height_limit_timer,
              crop.prev_height} = {0}
      BY DEF Crop!CropInit
    <3>3. PICK auto \in BOOLEAN, subs \in BOOLEAN, soft \in BOOLEAN :
            auto = crop.autodetect /\ subs = crop.subs_detect /\ soft = crop.soft_start
      BY <3>2
    <3>4. crop = [autodetect |-> auto, subs_detect |-> subs, soft_start |-> soft, cropping_active |-> FALSE,
                  start_line |-> 0, end_line |-> 0, stabilized_start_line |-> 0, stabilized_end_line |-> 0,
                  stabilize_timer |-> 0, detected_end_line |-> 0, prev_detected_end_line |-> 0, end_line_stabilize_timer |-> 0,
                  height_limit_active |-> FALSE, height_limit |-> 0, height_limit_timer |-> 0, prev_height |-> 0]
      BY ONLY <3>1, <3>2, <3>3
    <3> QED
      BY ONLY <3>4, auto \in BOOLEAN, subs \in BOOLEAN, soft \in BOOLEAN DEF CropFields
  <2>2. crop.detected_end_line = 0 /\ crop.prev_detected_end_line = 0
    BY DEF Crop!CropInit
  <2> QED
    BY <2>1, <2>2 DEF Crop!CropInit
<1>2. ahead \in Seq(Nat) /\ switched \in BOOLEAN
  <2>1. ahead = <<>> /\ <<>> \in Seq(Nat)
    BY <1>1
  <2>2. switched = FALSE
    BY <1>1
  <2>3. switched \in BOOLEAN
    BY ONLY <2>2
  <2> QED
    BY ONLY <2>1, <2>3
<1>3. Compared(crop)
  BY <1>1 DEF Compared
<1> QED
  BY ONLY <1>1, <1>2, <1>3 DEF CropInv, CropSound

LEMMA CropInvNext ==
  ASSUME CropInv, [Next]_vars
  PROVE  CropInv' /\ (RoomStep(crop, crop', switched) \/ UNCHANGED cropVars)
<1>1. CASE Crop!CropNext
  <2>0. CropSound(crop, ahead, switched)
    BY DEF CropInv
  <2>1. CropSound(crop', ahead', switched') /\ RoomStep(crop, crop', switched)
    <3>1. CASE Crop!Draw
      <4>1. PICK h : h = Head(ahead)
        OBVIOUS
      <4>2. Drawn(crop, crop', h, switched, switched') /\ ahead' \in Seq(Nat)
        BY <3>1, <4>1, DrawFollows
      <4> QED
        BY ONLY <2>0, <4>2, DrawnSound
    <3>2. CASE Crop!GetFrame
      <4>1. Rests(crop, crop', switched, switched') /\ ahead' \in Seq(Nat)
        BY <3>2, GetFrameFollows
      <4> QED
        BY ONLY <2>0, <4>1, RestsSound
    <3>3. CASE Crop!VideoClose
      <4>1. Rests(crop, crop', switched, switched') /\ ahead' \in Seq(Nat)
        BY <3>3, VideoCloseFollows
      <4> QED
        BY ONLY <2>0, <4>1, RestsSound
    <3>4. CASE Crop!SetParameters
      <4>1. Rests(crop, crop', switched, switched') /\ ahead' \in Seq(Nat)
        BY <3>4, SetParametersFollows
      <4> QED
        BY ONLY <2>0, <4>1, RestsSound
    <3> QED
      BY <1>1, <3>1, <3>2, <3>3, <3>4 DEF Crop!CropNext
  <2> QED
    BY <2>1 DEF CropInv
<1>2. CASE UNCHANGED cropVars
  BY <1>2 DEF CropInv, cropVars
<1> QED
  BY <1>1, <1>2 DEF Next, Step, OthersStay, Stopped, vars

LEMMA ScrInvNext ==
  ASSUME ScrInv, [Next]_vars
  PROVE  ScrInv' /\ (SteadyStep \/ UNCHANGED scrVars)
<1>1. [ScrNext]_scrVars
  BY DEF Next, Step, OthersStay, Stopped, vars
<1> QED
  BY <1>1, ScrStep, StepSteady

(* Whoever changes the speed, the tuning or the buffering, the clock does   *)
(* not jump; and where a subtitle was seen in the bottom bar, and the crop  *)
(* has made room for it, the room stays until the limit has run out,        *)
(* whatever the frames show, are they analysed or not, and whenever the     *)
(* parameters change or the decoder begins anew; when the detection is      *)
(* switched on with a crop active, from the end of that crop on             *)
(* (adjustable_scr.c, autocrop_draw() in xine_post_autocrop.c).             *)
THEOREM OutputIsSteady == Spec => SteadyOutput
<1> DEFINE Inv == ScrInv /\ CropInv
<1>1. Init => Inv
  BY ScrInitInv, CropInvInit DEF Init
<1>2. Inv /\ [Next]_vars => Inv'
  BY CropInvNext, ScrInvNext
<1>3. Inv /\ [Next]_vars => [SteadyStep]_scrVars
  BY ScrInvNext
<1>4. Inv /\ [Next]_vars => [RoomStep(crop, crop', switched)]_cropVars
  BY CropInvNext
<1>5. ClockSteady <=> [][SteadyStep]_scrVars
  BY DEF ClockSteady, SteadyStep
<1>6. Crop!SubtitlesKept <=> [][RoomStep(crop, crop', switched)]_cropVars
  BY DEF Crop!SubtitlesKept, RoomStep, Crop!cropVars, cropVars
<1> QED
  BY <1>1, <1>2, <1>3, <1>4, <1>5, <1>6, PTL DEF Spec, SteadyOutput

-----------------------------------------------------------------------------
(* The crop is within the frame.  CropsWithin needs to know that the lines  *)
(* have been found on frames of the height of the one that is shown: a crop *)
(* that follows the picture ends when the decoder gets a frame of another   *)
(* height, and the frames it has drawn ahead are all of one.                *)

Framed(c, a, n, s) ==
  /\ \A i \in DOMAIN a : a[i] \in Heights /\ a[i] = a[1]
  /\ c.cropping_active = TRUE /\ s = FALSE =>
       /\ n \in Heights /\ StartIn(c.start_line, n) /\ EndIn(c.end_line, n)
       /\ c.autodetect = TRUE => InFrame(c, n) /\ c.prev_height = n /\ \A i \in DOMAIN a : a[i] = n

LEMMA FramedInit == Crop!CropInit => Framed(crop, ahead, shown, switched)
<1> SUFFICES ASSUME Crop!CropInit PROVE Framed(crop, ahead, shown, switched)
  OBVIOUS
<1>1. crop.cropping_active = FALSE /\ ahead = <<>>
  BY DEF Crop!CropInit
<1> QED
  BY ONLY <1>1 DEF Framed

LEMMA DrawFramed ==
  ASSUME CropInv, Framed(crop, ahead, shown, switched), Crop!Draw
  PROVE  Framed(crop', ahead', shown', switched')
<1>1. crop \in CropFields /\ ahead \in Seq(Nat) /\ ahead # <<>> /\ ahead' = Tail(ahead) /\ shown' = Head(ahead)
  BY DEF CropInv, CropSound, Crop!Draw
<1>2. PICK a, h, q, t : a = Tail(ahead) /\ h = Head(ahead) /\ q = crop' /\ t = switched'
  OBVIOUS
<1>3. 1 \in DOMAIN ahead /\ h = ahead[1]
  BY ONLY <1>1, <1>2
<1>4. \A i \in DOMAIN a : a[i] = h
  <2> SUFFICES ASSUME NEW i \in DOMAIN a PROVE a[i] = h
    OBVIOUS
  <2>1. i + 1 \in DOMAIN ahead /\ a[i] = ahead[i + 1]
    BY ONLY <1>1, <1>2, i \in DOMAIN a
  <2> QED
    BY ONLY <2>1, <1>3, Framed(crop, ahead, shown, switched) DEF Framed
<1>5. h \in Heights
  BY ONLY <1>3, Framed(crop, ahead, shown, switched) DEF Framed
<1>6. h \in Nat /\ 16 <= h
  BY <1>5, CropAssumption
<1>7. Drawn(crop, q, h, switched, t)
  BY <1>2, DrawFollows
<1>8. q.autodetect = crop.autodetect
  BY ONLY <1>7 DEF Drawn, Follow
<1>9. \A i \in DOMAIN a : a[i] \in Heights /\ a[i] = a[1]
  <2>1. a \in Seq(Nat)
    BY ONLY <1>1, <1>2
  <2> SUFFICES ASSUME NEW i \in DOMAIN a PROVE a[i] \in Heights /\ a[i] = a[1]
    OBVIOUS
  <2>2. 1 \in DOMAIN a
    BY ONLY <2>1, i \in DOMAIN a
  <2> QED
    BY ONLY <2>2, <1>4, <1>5, i \in DOMAIN a
<1>10. CASE crop.autodetect = TRUE
  <2>1. switched = FALSE => CropIn(crop, h)
    BY ONLY <1>3, <1>6, <1>10, Framed(crop, ahead, shown, switched) DEF Framed, CropIn
  <2>2. q.prev_height = h /\ (t = FALSE => CropIn(q, h))
    BY ONLY <2>1, <1>6, <1>7, <1>10 DEF Drawn, Shows, Starts
  <2>3. q.cropping_active = TRUE /\ t = FALSE =>
          InFrame(q, h) /\ StartIn(q.start_line, h) /\ EndIn(q.end_line, h)
    BY ONLY <2>2 DEF CropIn, InFrame
  <2>4. Framed(q, a, h, t)
    BY ONLY <2>2, <2>3, <1>4, <1>5, <1>9 DEF Framed
  <2> QED
    BY ONLY <2>4, <1>1, <1>2
<1>11. CASE crop.autodetect = FALSE
  <2>1. StartIn(q.start_line, h) /\ EndIn(q.end_line, h)
    BY ONLY <1>6, <1>7, <1>11 DEF Drawn, Fills
  <2>2. Framed(q, a, h, t)
    BY ONLY <2>1, <1>5, <1>8, <1>9, <1>11 DEF Framed
  <2> QED
    BY ONLY <2>2, <1>1, <1>2
<1> QED
  BY ONLY <1>1, <1>10, <1>11 DEF CropFields

LEMMA RestsFramed ==
  ASSUME NEW c, NEW a, NEW n, NEW q, NEW s, NEW t, Framed(c, a, n, s), Rests(c, q, s, t)
  PROVE  Framed(q, a, n, t) /\ Framed(q, <<>>, n, t)
<1>1. /\ q.start_line = c.start_line /\ q.end_line = c.end_line /\ q.prev_height = c.prev_height
      /\ q.cropping_active = TRUE =>
           /\ c.cropping_active = TRUE
           /\ t = FALSE => s = FALSE /\ (q.autodetect = TRUE => c.autodetect = TRUE)
  BY ONLY Rests(c, q, s, t) DEF Rests, SameShown
<1>2. InFrame(c, n) => InFrame(q, n)
  BY ONLY Rests(c, q, s, t) DEF Rests, SameLimit, SameStable, SameShown, SameEnds, InFrame
<1>3. DOMAIN <<>> = {}
  OBVIOUS
<1> QED
  BY ONLY <1>1, <1>2, <1>3, Framed(c, a, n, s) DEF Framed

LEMMA GetFrameFramed ==
  ASSUME CropInv, Framed(crop, ahead, shown, switched), Crop!GetFrame
  PROVE  Framed(crop', ahead', shown', switched')
<1>1. ahead \in Seq(Nat) /\ shown' = shown
  BY DEF CropInv, CropSound, Crop!GetFrame
<1>2. PICK q, b, t : q = crop' /\ b = ahead' /\ t = switched'
  OBVIOUS
<1>3. PICK h \in Heights \cup {0} : Gets(crop, ahead, q, b, h)
  BY <1>2, GetFrameFollows
<1>4. Rests(crop, q, switched, t)
  BY <1>2, GetFrameFollows
<1>5. Framed(q, ahead, shown, t)
  BY ONLY <1>4, Framed(crop, ahead, shown, switched), RestsFramed
<1>6. CASE h = 0
  <2>1. b = ahead
    BY ONLY <1>3, <1>6 DEF Gets
  <2> QED
    BY ONLY <2>1, <1>1, <1>2, <1>5
<1>7. CASE h # 0
  <2>1. h \in Heights /\ h \in Nat
    BY <1>7, CropNumbers
  <2>2. b = Append(ahead, h) /\ \A i \in DOMAIN ahead : ahead[i] = h
    BY ONLY <1>3, <1>7 DEF Gets
  <2>3. 1 \in DOMAIN b /\ \A i \in DOMAIN b : b[i] = h
    <3>1. DOMAIN b = 1 .. Len(ahead) + 1 /\ DOMAIN ahead = 1 .. Len(ahead) /\ Len(ahead) \in Nat
      BY ONLY <2>1, <2>2, <1>1
    <3>2. b[Len(ahead) + 1] = h /\ \A i \in DOMAIN ahead : b[i] = ahead[i]
      BY ONLY <2>1, <2>2, <1>1
    <3> QED
      BY ONLY <3>1, <3>2, <2>2
  <2>4. q.cropping_active = TRUE /\ t = FALSE /\ q.autodetect = TRUE => h = shown
    <3> SUFFICES ASSUME q.cropping_active = TRUE, t = FALSE, q.autodetect = TRUE PROVE h = shown
      OBVIOUS
    <3>1. crop.autodetect = TRUE /\ q.prev_height = crop.prev_height
      BY ONLY <1>3, <1>4, q.autodetect = TRUE DEF Rests, Gets
    <3>2. h = crop.prev_height
      BY ONLY <3>1, <1>3, q.cropping_active = TRUE DEF Gets
    <3> QED
      BY ONLY <3>1, <3>2, <1>5, q.cropping_active = TRUE, t = FALSE, q.autodetect = TRUE DEF Framed
  <2>5. Framed(q, b, shown, t)
    BY ONLY <2>1, <2>3, <2>4, <1>5 DEF Framed
  <2> QED
    BY ONLY <2>5, <1>1, <1>2
<1> QED
  BY <1>6, <1>7

LEMMA FramedNext ==
  ASSUME CropInv, Framed(crop, ahead, shown, switched), [Next]_vars
  PROVE  Framed(crop, ahead, shown, switched)'
<1>1. CASE Crop!CropNext
  <2>1. CASE Crop!Draw
    BY <2>1, DrawFramed
  <2>2. CASE Crop!GetFrame
    BY <2>2, GetFrameFramed
  <2>3. CASE Crop!VideoClose
    <3>1. Rests(crop, crop', switched, switched') /\ ahead' = <<>> /\ shown' = shown
      BY <2>3, VideoCloseFollows DEF Crop!VideoClose
    <3> QED
      BY ONLY <3>1, Framed(crop, ahead, shown, switched), RestsFramed
  <2>4. CASE Crop!SetParameters
    <3>1. Rests(crop, crop', switched, switched') /\ ahead' = ahead /\ shown' = shown
      BY <2>4, SetParametersFollows DEF Crop!SetParameters
    <3> QED
      BY ONLY <3>1, Framed(crop, ahead, shown, switched), RestsFramed
  <2> QED
    BY <1>1, <2>1, <2>2, <2>3, <2>4 DEF Crop!CropNext
<1>2. CASE UNCHANGED cropVars
  BY <1>2 DEF cropVars
<1> QED
  BY <1>1, <1>2 DEF Next, Step, OthersStay, Stopped, vars

LEMMA FramedWithin ==
  ASSUME CropInv, Framed(crop, ahead, shown, switched)
  PROVE  Crop!CropsWithin
<1> SUFFICES ASSUME crop.cropping_active, ~switched
             PROVE  0 <= crop.start_line /\ crop.start_line < crop.end_line /\ crop.end_line <= shown
  BY DEF Crop!CropsWithin
<1>1. crop.cropping_active = TRUE /\ switched = FALSE /\ crop.start_line \in Int /\ crop.end_line \in Int
  BY DEF CropInv, CropSound, CropFields
<1>2. shown \in Heights /\ StartIn(crop.start_line, shown) /\ EndIn(crop.end_line, shown)
  BY ONLY <1>1, Framed(crop, ahead, shown, switched) DEF Framed
<1>3. shown \in Nat /\ 16 <= shown
  BY <1>2, CropAssumption
<1> QED
  BY ONLY <1>1, <1>2, <1>3 DEF StartIn, EndIn

-----------------------------------------------------------------------------
(* The OSD window above the video (xine_sxfe_frontend.c).                   *)

HudFields == [xshape : BOOLEAN, visible : BOOLEAN, size : HudSizes \cup {HudMax}, layered : BOOLEAN,
              active : BOOLEAN, changed : BOOLEAN, win : Areas \cup {Hud!Full}]
SurfFields == [mapped : BOOLEAN, mask : SUBSET Areas, back : SUBSET Areas, shown : SUBSET Areas]

\* Nothing is shown of a hidden OSD.
HudSound(h, s) == h \in HudFields /\ s \in SurfFields /\ (h.visible = FALSE => s.shown = {} /\ s.mask = {})
HudInv == HudSound(hud, surf)

LEMMA HudSizeKeeps ==
  ASSUME HudInv, NEW size \in HudSizes, Hud!OsdSize(size)
  PROVE  HudInv'
<1>1. hud \in HudFields /\ surf \in SurfFields /\ (hud.visible = FALSE => surf.shown = {} /\ surf.mask = {})
  BY DEF HudInv, HudSound
<1>2. PICK h : h = [hud EXCEPT !.size = size]
  OBVIOUS
<1>3. h \in HudFields /\ h.visible = hud.visible /\ h.xshape = hud.xshape
  BY <1>1, <1>2 DEF HudFields
<1>4. PICK r : r = IF Hud!Unsupported(size) THEN [h |-> h, s |-> surf] ELSE Hud!Shown(h, surf)
  OBVIOUS
<1>5. PICK g, s : g = r.h /\ s = r.s
  OBVIOUS
<1>6. HudSound(g, s)
  <2>1. CASE Hud!Unsupported(size) \/ h.visible = TRUE
    <3>1. g = h /\ s = surf
      BY <2>1, <1>4, <1>5 DEF Hud!Shown
    <3> QED
      BY <3>1, <1>1, <1>3 DEF HudSound
  <2>2. CASE ~Hud!Unsupported(size) /\ h.visible = FALSE
    <3>1. /\ g = [h EXCEPT !.visible = TRUE, !.active = FALSE]
          /\ s = IF h.xshape THEN [surf EXCEPT !.back = {}, !.mask = {}, !.mapped = TRUE] ELSE surf
      BY <2>2, <1>4, <1>5 DEF Hud!Shown
    <3>2. g \in HudFields /\ g.visible = TRUE
      BY <3>1, <1>3 DEF HudFields
    <3>3. s \in SurfFields
      BY <3>1, <1>1 DEF SurfFields
    <3> QED
      BY <3>2, <3>3 DEF HudSound
  <2> QED
    BY <1>3, <2>1, <2>2 DEF HudFields
<1>7. hud' = [g EXCEPT !.layered = TRUE] /\ surf' = s
  BY <1>2, <1>4, <1>5 DEF Hud!OsdSize
<1> QED
  BY <1>6, <1>7 DEF HudInv, HudSound, HudFields

LEMMA HudSetKeeps ==
  ASSUME HudInv, NEW a \in Areas, NEW transparent \in BOOLEAN, Hud!OsdSet(a, transparent)
  PROVE  HudInv'
<1>1. hud \in HudFields /\ surf \in SurfFields /\ hud.visible = TRUE /\ hud' = hud
  BY DEF HudInv, HudSound, Hud!OsdSet, HudFields
<1>2. ASSUME NEW places \in SUBSET Areas
      PROVE  Hud!Painted(places, a, transparent) \in SUBSET Areas
  BY DEF Hud!Painted
<1>3. surf.shown \in SUBSET Areas /\ surf.back \in SUBSET Areas /\ surf.mask \in SUBSET Areas
  BY <1>1 DEF SurfFields
<1>4. PICK shows \in Hud!Kept(surf, Hud!Painted(surf.shown, a, transparent)) :
        surf' = [surf EXCEPT !.back = IF hud.xshape THEN Hud!Painted(@, a, transparent) ELSE @,
                             !.mask = IF hud.xshape THEN Hud!Painted(@, a, transparent) ELSE @,
                             !.shown = shows]
  BY DEF Hud!OsdSet
<1>5. shows \in SUBSET Areas
  BY <1>2, <1>3, <1>4 DEF Hud!Kept
<1>6. PICK back : back = IF hud.xshape THEN Hud!Painted(surf.back, a, transparent) ELSE surf.back
  OBVIOUS
<1>7. PICK mask : mask = IF hud.xshape THEN Hud!Painted(surf.mask, a, transparent) ELSE surf.mask
  OBVIOUS
<1>8. back \in SUBSET Areas /\ mask \in SUBSET Areas
  BY <1>2, <1>3, <1>6, <1>7
<1>9. surf' = [surf EXCEPT !.back = back, !.mask = mask, !.shown = shows]
  BY <1>4, <1>6, <1>7
<1>10. surf' \in SurfFields
  BY ONLY <1>1, <1>5, <1>8, <1>9 DEF SurfFields
<1> QED
  BY <1>1, <1>10 DEF HudInv, HudSound

LEMMA HudCloseKeeps ==
  ASSUME HudInv, Hud!OsdClose
  PROVE  HudInv'
<1>1. hud \in HudFields /\ surf \in SurfFields /\ (hud.visible = FALSE => surf.shown = {} /\ surf.mask = {})
  BY DEF HudInv, HudSound
<1>2. CASE hud' = [hud EXCEPT !.layered = FALSE] /\ surf' = surf
  BY <1>1, <1>2 DEF HudInv, HudSound, HudFields
<1>3. CASE /\ hud' = [hud EXCEPT !.layered = FALSE, !.visible = FALSE, !.active = FALSE]
           /\ surf' = Hud!Hidden(surf, hud.xshape)
  <2>1. PICK b \in BOOLEAN : b = (surf.mapped /\ ~hud.xshape)
    OBVIOUS
  <2>2. surf' = [surf EXCEPT !.mapped = b, !.mask = {}, !.shown = {}]
    BY <2>1, <1>3 DEF Hud!Hidden
  <2>3. surf' \in SurfFields /\ surf'.shown = {} /\ surf'.mask = {}
    BY ONLY <1>1, <2>2, b \in BOOLEAN DEF SurfFields
  <2>4. hud' \in HudFields
    BY ONLY <1>1, <1>3 DEF HudFields
  <2> QED
    BY <2>3, <2>4 DEF HudInv, HudSound
<1> QED
  BY <1>2, <1>3 DEF Hud!OsdClose

LEMMA HudInvNext ==
  ASSUME HudInv, [Next]_vars
  PROVE  HudInv'
<1>1. hud \in HudFields /\ surf \in SurfFields /\ (hud.visible = FALSE => surf.shown = {} /\ surf.mask = {})
  BY DEF HudInv, HudSound
<1>2. CASE Hud!HudNext
  <2>1. ASSUME NEW w \in Areas, Hud!OsdVideoWindow(w) PROVE HudInv'
    <3>1. PICK b \in BOOLEAN : b = (hud.changed \/ w # hud.win)
      OBVIOUS
    <3>2. hud' = [hud EXCEPT !.changed = b, !.win = w, !.active = TRUE] /\ surf' = surf
      BY <2>1, <3>1 DEF Hud!OsdVideoWindow
    <3>3. hud' \in HudFields /\ hud'.visible = hud.visible
      BY ONLY <1>1, <3>2, b \in BOOLEAN, w \in Areas DEF HudFields
    <3> QED
      BY <1>1, <3>2, <3>3 DEF HudInv, HudSound
  <2>2. CASE Hud!FocusIn \/ Hud!FocusOut
    <3>1. PICK b \in BOOLEAN : surf' = [surf EXCEPT !.mapped = b] /\ hud' = hud
      BY <2>2 DEF Hud!FocusIn, Hud!FocusOut
    <3>2. surf' \in SurfFields /\ surf'.shown = surf.shown /\ surf'.mask = surf.mask
      BY ONLY <1>1, <3>1 DEF SurfFields
    <3> QED
      BY <1>1, <3>1, <3>2 DEF HudInv, HudSound
  <2>3. CASE Hud!FrameOutput
    BY <2>3, <1>1 DEF HudInv, HudSound, Hud!FrameOutput
  <2>4. CASE Hud!FramePlaced
    <3>1. hud' = [hud EXCEPT !.changed = FALSE] /\ surf' = surf
      BY <2>4 DEF Hud!FramePlaced
    <3>2. hud' \in HudFields /\ hud'.visible = hud.visible
      BY ONLY <1>1, <3>1 DEF HudFields
    <3> QED
      BY <1>1, <3>1, <3>2 DEF HudInv, HudSound
  <2> QED
    BY <1>2, <2>1, <2>2, <2>3, <2>4, HudSizeKeeps, HudSetKeeps, HudCloseKeeps DEF Hud!HudNext
<1>3. CASE UNCHANGED hudVars
  BY <1>3 DEF HudInv, hudVars
<1> QED
  BY <1>2, <1>3 DEF Next, Step, OthersStay, Stopped, vars

LEMMA HudInvInit == Hud!HudInit => HudInv
<1> SUFFICES ASSUME Hud!HudInit PROVE HudInv
  OBVIOUS
<1>1. PICK x \in BOOLEAN : hud = [xshape |-> x, visible |-> FALSE, size |-> HudMax, layered |-> FALSE,
                                  active |-> FALSE, changed |-> FALSE, win |-> Hud!Full]
  BY DEF Hud!HudInit
<1>2. surf = [mapped |-> FALSE, mask |-> {}, back |-> {}, shown |-> {}]
  BY DEF Hud!HudInit
<1> QED
  BY <1>1, <1>2 DEF HudInv, HudSound, HudFields, SurfFields

-----------------------------------------------------------------------------
(* The OSD's windows and their copies (osd_manager.c, vo_osdscaler.c).      *)

WndFields == [handle : BOOLEAN, stored : Pictures \cup {Osd!Empty}, scaling : BOOLEAN, argb : BOOLEAN,
              flag : Osd!Flags, shown : Pictures \cup {Osd!Empty}, shownFor : Osd!Sizes]
ScreenFields == [video : Osd!Sizes, window : Osd!Sizes, vo_scaling : BOOLEAN, argb : BOOLEAN]
Outputs == Osd!Sizes \cup {"none", "as is"}
DrawnFields == [for : Outputs, output : Osd!Sizes]
ScalerFields == [enable : BOOLEAN, active : [Wnds -> Outputs], drawn : DrawnFields]

\* What is stored for a window is what it shows, in the scale of screen s.
FitsScreen(w, s) ==
  w.stored # Osd!Empty =>
    /\ w.handle = TRUE /\ w.shown = w.stored
    /\ w.shownFor = IF Osd!Rescales(s, w.scaling, w.flag) THEN s.video ELSE "osd"

OsdInv ==
  /\ wnd \in [Wnds -> WndFields] /\ screen \in ScreenFields /\ scaler \in ScalerFields
  /\ \A w \in Wnds : FitsScreen(wnd[w], screen)
  /\ scaler.drawn.for \in {"as is", scaler.drawn.output}

LEMMA SetRleFits ==
  ASSUME NEW w \in WndFields, NEW s \in ScreenFields, NEW p \in Pictures \cup {Osd!Empty},
         NEW scaling \in BOOLEAN, NEW flag \in Osd!Flags, NEW v, v = Osd!SetRle(w, s, p, scaling, flag)
  PROVE  v \in WndFields /\ FitsScreen(v, s)
<1>1. PICK for : for = IF Osd!Rescales(s, scaling, flag) THEN s.video ELSE "osd"
  OBVIOUS
<1>2. for \in Osd!Sizes
  BY <1>1 DEF ScreenFields, Osd!Sizes
<1>3. v = [w EXCEPT !.handle = TRUE, !.stored = p, !.scaling = scaling,
                    !.flag = flag, !.argb = FALSE, !.shown = p, !.shownFor = for]
  BY <1>1 DEF Osd!SetRle
<1>4. v \in WndFields
  BY ONLY <1>2, <1>3, w \in WndFields, p \in Pictures \cup {Osd!Empty}, scaling \in BOOLEAN,
          flag \in Osd!Flags DEF WndFields
<1>5. /\ v.handle = TRUE /\ v.stored = p /\ v.scaling = scaling /\ v.flag = flag /\ v.shown = p
      /\ v.shownFor = for
  BY ONLY <1>3, w \in WndFields DEF WndFields
<1> QED
  BY <1>1, <1>4, <1>5 DEF FitsScreen

LEMMA RescaledFits ==
  ASSUME NEW w \in WndFields, NEW s \in ScreenFields, NEW t \in ScreenFields, FitsScreen(w, t),
         s.vo_scaling = FALSE, NEW ok \in BOOLEAN, NEW v, v = Osd!Rescaled(w, s, ok)
  PROVE  v \in WndFields /\ FitsScreen(v, s)
<1>1. CASE ~(w.handle /\ w.stored # Osd!Empty /\ w.scaling)
  <2>1. v = w
    BY <1>1 DEF Osd!Rescaled
  <2>2. ASSUME w.stored # Osd!Empty PROVE w.handle = TRUE /\ w.shown = w.stored /\ w.scaling = FALSE
    BY <1>1, <2>2 DEF FitsScreen, WndFields
  <2>3. ASSUME w.stored # Osd!Empty PROVE w.shownFor = "osd"
    BY <2>2, <2>3 DEF FitsScreen, Osd!Rescales
  <2> QED
    BY <2>1, <2>2, <2>3 DEF FitsScreen, Osd!Rescales
<1>2. CASE w.handle /\ w.stored # Osd!Empty /\ w.scaling /\ ok
  <2>1. v = Osd!SetRle(w, s, w.stored, TRUE, w.flag)
    BY <1>2 DEF Osd!Rescaled
  <2>2. w.stored \in Pictures \cup {Osd!Empty} /\ w.flag \in Osd!Flags
    BY DEF WndFields
  <2> QED
    BY <2>1, <2>2, SetRleFits
<1>3. CASE w.handle /\ w.stored # Osd!Empty /\ w.scaling /\ ~ok
  <2>1. v = [w EXCEPT !.stored = Osd!Empty]
    BY <1>3 DEF Osd!Rescaled
  <2>2. v \in WndFields /\ v.stored = Osd!Empty
    BY <2>1 DEF WndFields
  <2> QED
    BY <2>2 DEF FitsScreen
<1> QED
  BY <1>1, <1>2, <1>3

\* The copies are dropped, what was drawn was drawn.
LEMMA CopiesDropped ==
  ASSUME OsdInv, Osd!OverlayChanged
  PROVE  scaler' \in ScalerFields /\ scaler'.drawn = scaler.drawn
<1>1. PICK none \in [Wnds -> Outputs] : none = [w \in Wnds |-> "none"]
  BY DEF Outputs
<1>2. scaler' = [scaler EXCEPT !.active = none]
  BY <1>1 DEF Osd!OverlayChanged
<1>3. scaler \in ScalerFields
  BY DEF OsdInv
<1> QED
  BY ONLY <1>2, <1>3, none \in [Wnds -> Outputs] DEF ScalerFields

LEMMA OcSetRleKeeps ==
  ASSUME OsdInv, Osd!OcSetRle
  PROVE  OsdInv'
<1>1. /\ wnd \in [Wnds -> WndFields] /\ screen \in ScreenFields /\ scaler \in ScalerFields
      /\ \A w \in Wnds : FitsScreen(wnd[w], screen)
      /\ scaler.drawn.for \in {"as is", scaler.drawn.output}
  BY DEF OsdInv
<1>2. PICK w \in Wnds, p \in Pictures, scaling \in BOOLEAN, flag \in Osd!Flags :
        /\ wnd' = [wnd EXCEPT ![w] = Osd!SetRle(@, screen, p, scaling, flag)]
        /\ scaler' = [scaler EXCEPT !.active = [v \in Wnds |-> "none"],
                                    !.enable = IF screen.vo_scaling THEN scaling ELSE @]
        /\ screen' = screen
  BY DEF Osd!OcSetRle
<1>3. PICK v : v = Osd!SetRle(wnd[w], screen, p, scaling, flag)
  OBVIOUS
<1>4. v \in WndFields /\ FitsScreen(v, screen)
  BY <1>1, <1>3, SetRleFits
<1>5. wnd' \in [Wnds -> WndFields] /\ \A x \in Wnds : FitsScreen(wnd'[x], screen)
  BY <1>1, <1>2, <1>3, <1>4
<1>6. PICK none \in [Wnds -> Outputs] : none = [x \in Wnds |-> "none"]
  BY DEF Outputs
<1>7. PICK enable : enable = IF screen.vo_scaling THEN scaling ELSE scaler.enable
  OBVIOUS
<1>8. enable \in BOOLEAN
  BY <1>1, <1>7 DEF ScalerFields
<1>9. scaler' = [scaler EXCEPT !.active = none, !.enable = enable]
  BY <1>2, <1>6, <1>7
<1>10. scaler' \in ScalerFields /\ scaler'.drawn = scaler.drawn
  BY ONLY <1>1, <1>8, <1>9, none \in [Wnds -> Outputs] DEF ScalerFields
<1> QED
  BY <1>1, <1>2, <1>5, <1>10 DEF OsdInv

LEMMA OcSetArgbKeeps ==
  ASSUME OsdInv, Osd!OcSetArgb
  PROVE  OsdInv'
<1>1. /\ wnd \in [Wnds -> WndFields] /\ screen \in ScreenFields /\ scaler \in ScalerFields
      /\ \A w \in Wnds : FitsScreen(wnd[w], screen)
      /\ scaler.drawn.for \in {"as is", scaler.drawn.output}
  BY DEF OsdInv
<1>2. PICK w \in Wnds, p \in Pictures :
        wnd' = [wnd EXCEPT ![w].handle = TRUE, ![w].stored = Osd!Empty,
                           ![w].argb = TRUE, ![w].shown = p, ![w].shownFor = "osd"]
  BY DEF Osd!OcSetArgb
<1>3. PICK v : v = [wnd[w] EXCEPT !.handle = TRUE, !.stored = Osd!Empty,
                                  !.argb = TRUE, !.shown = p, !.shownFor = "osd"]
  OBVIOUS
<1>4. v \in WndFields /\ v.stored = Osd!Empty
  <2>1. "osd" \in Osd!Sizes /\ wnd[w] \in WndFields
    BY <1>1 DEF Osd!Sizes
  <2>2. v \in WndFields
    BY ONLY <2>1, <1>3, p \in Pictures DEF WndFields
  <2>3. v.stored = Osd!Empty
    BY ONLY <2>1, <1>3 DEF WndFields
  <2> QED
    BY <2>2, <2>3
<1>5. wnd' = [wnd EXCEPT ![w] = v]
  BY <1>1, <1>2, <1>3 DEF WndFields
<1>6. wnd' \in [Wnds -> WndFields] /\ \A x \in Wnds : FitsScreen(wnd'[x], screen)
  BY <1>1, <1>4, <1>5 DEF FitsScreen
<1>7. screen' = screen /\ scaler' \in ScalerFields /\ scaler'.drawn = scaler.drawn
  BY CopiesDropped DEF Osd!OcSetArgb
<1> QED
  BY <1>1, <1>6, <1>7 DEF OsdInv

LEMMA OcSizeKeeps ==
  ASSUME OsdInv, Osd!OcSize
  PROVE  OsdInv'
<1>1. /\ wnd \in [Wnds -> WndFields] /\ screen \in ScreenFields /\ scaler \in ScalerFields
      /\ \A w \in Wnds : FitsScreen(wnd[w], screen)
      /\ scaler.drawn.for \in {"as is", scaler.drawn.output}
  BY DEF OsdInv
<1>2. PICK w \in Wnds : wnd' = [wnd EXCEPT ![w].argb = FALSE]
  BY DEF Osd!OcSize
<1>3. PICK v : v = [wnd[w] EXCEPT !.argb = FALSE]
  OBVIOUS
<1>4. wnd[w] \in WndFields
  BY <1>1
<1>5. v \in WndFields
  BY ONLY <1>3, <1>4 DEF WndFields
<1>6. /\ v.handle = wnd[w].handle /\ v.stored = wnd[w].stored /\ v.shown = wnd[w].shown
      /\ v.scaling = wnd[w].scaling /\ v.flag = wnd[w].flag /\ v.shownFor = wnd[w].shownFor
  BY ONLY <1>3, <1>4 DEF WndFields
<1>7. wnd' = [wnd EXCEPT ![w] = v]
  BY <1>2, <1>3
<1>8. FitsScreen(v, screen)
  BY ONLY <1>1, <1>6 DEF FitsScreen
<1>9. wnd' \in [Wnds -> WndFields] /\ \A x \in Wnds : FitsScreen(wnd'[x], screen)
  BY ONLY <1>1, <1>5, <1>7, <1>8
<1>10. screen' = screen /\ scaler' = scaler
  BY DEF Osd!OcSize
<1> QED
  BY <1>1, <1>9, <1>10 DEF OsdInv

LEMMA OcCloseKeeps ==
  ASSUME OsdInv, Osd!OcClose
  PROVE  OsdInv'
<1>1. /\ wnd \in [Wnds -> WndFields] /\ screen \in ScreenFields /\ scaler \in ScalerFields
      /\ \A w \in Wnds : FitsScreen(wnd[w], screen)
      /\ scaler.drawn.for \in {"as is", scaler.drawn.output}
  BY DEF OsdInv
<1>2. PICK w \in Wnds : wnd' = [wnd EXCEPT ![w] = Osd!Closed]
  BY DEF Osd!OcClose
<1>3. Osd!Closed \in WndFields /\ FitsScreen(Osd!Closed, screen)
  BY DEF Osd!Closed, WndFields, Osd!Flags, Osd!Sizes, FitsScreen
<1>4. wnd' \in [Wnds -> WndFields] /\ \A x \in Wnds : FitsScreen(wnd'[x], screen)
  BY ONLY <1>1, <1>2, <1>3
<1>5. screen' = screen /\ scaler' \in ScalerFields /\ scaler'.drawn = scaler.drawn
  BY CopiesDropped DEF Osd!OcClose
<1> QED
  BY <1>1, <1>4, <1>5 DEF OsdInv

LEMMA SizeChangedKeeps ==
  ASSUME OsdInv, Osd!VideoSizeChanged
  PROVE  OsdInv'
<1>1. /\ wnd \in [Wnds -> WndFields] /\ screen \in ScreenFields /\ scaler \in ScalerFields
      /\ \A w \in Wnds : FitsScreen(wnd[w], screen)
      /\ scaler.drawn.for \in {"as is", scaler.drawn.output}
  BY DEF OsdInv
<1>2. PICK size \in Osd!Sizes, ok \in BOOLEAN :
        LET s == [screen EXCEPT !.video = size]
        IN /\ screen' = s
           /\ wnd' = IF s.vo_scaling THEN wnd ELSE [w \in Wnds |-> Osd!Rescaled(wnd[w], s, ok)]
           /\ IF wnd' = wnd THEN UNCHANGED scaler ELSE Osd!OverlayChanged
  BY DEF Osd!VideoSizeChanged
<1>3. PICK s : s = [screen EXCEPT !.video = size]
  OBVIOUS
<1>4. s \in ScreenFields /\ s.vo_scaling = screen.vo_scaling
  BY <1>1, <1>3 DEF ScreenFields
<1>5. /\ screen' = s
      /\ wnd' = IF s.vo_scaling THEN wnd ELSE [w \in Wnds |-> Osd!Rescaled(wnd[w], s, ok)]
      /\ IF wnd' = wnd THEN UNCHANGED scaler ELSE Osd!OverlayChanged
  BY ONLY <1>2, <1>3
<1>6. wnd' \in [Wnds -> WndFields] /\ \A w \in Wnds : FitsScreen(wnd'[w], s)
  <2>1. CASE s.vo_scaling
    <3>1. wnd' = wnd
      BY <2>1, <1>5
    <3>2. \A w \in Wnds : ~Osd!Rescales(s, wnd[w].scaling, wnd[w].flag)
                          /\ ~Osd!Rescales(screen, wnd[w].scaling, wnd[w].flag)
      BY <2>1, <1>4 DEF Osd!Rescales
    <3> QED
      BY <3>1, <3>2, <1>1 DEF FitsScreen
  <2>2. CASE ~s.vo_scaling
    <3>1. wnd' = [w \in Wnds |-> Osd!Rescaled(wnd[w], s, ok)]
      BY <2>2, <1>5
    <3>2. s.vo_scaling = FALSE
      BY <2>2, <1>4 DEF ScreenFields
    <3>3. ASSUME NEW w \in Wnds
          PROVE  Osd!Rescaled(wnd[w], s, ok) \in WndFields /\ FitsScreen(Osd!Rescaled(wnd[w], s, ok), s)
      <4>1. wnd[w] \in WndFields /\ FitsScreen(wnd[w], screen)
        BY <1>1
      <4> QED
        BY <4>1, <3>2, <1>1, <1>4, RescaledFits
    <3> QED
      BY <3>1, <3>3
  <2> QED
    BY <2>1, <2>2
<1>7. scaler' \in ScalerFields /\ scaler'.drawn = scaler.drawn
  BY <1>1, <1>5, CopiesDropped
<1> QED
  BY <1>1, <1>4, <1>5, <1>6, <1>7 DEF OsdInv

LEMMA BlendKeeps ==
  ASSUME OsdInv, Osd!OverlayBlend
  PROVE  OsdInv'
<1>1. /\ wnd \in [Wnds -> WndFields] /\ screen \in ScreenFields /\ scaler \in ScalerFields
      /\ \A w \in Wnds : FitsScreen(wnd[w], screen)
  BY DEF OsdInv
<1>2. PICK w \in Wnds, output \in Osd!Sizes :
        LET scales == scaler.enable /\ ~wnd[w].argb /\ wnd[w].scaling /\ output # "osd"
            copy == IF Osd!CopyFits(w, output) THEN scaler.active[w] ELSE output
        IN scaler' = IF scales
                     THEN [scaler EXCEPT !.active[w] = copy,
                                         !.drawn = [for |-> copy, output |-> output]]
                     ELSE [scaler EXCEPT !.drawn = [for |-> "as is", output |-> output]]
  BY DEF Osd!OverlayBlend
<1>3. (IF Osd!CopyFits(w, output) THEN scaler.active[w] ELSE output) = output
  BY DEF Osd!CopyFits
<1>4. \/ scaler' = [scaler EXCEPT !.active[w] = output, !.drawn = [for |-> output, output |-> output]]
      \/ scaler' = [scaler EXCEPT !.drawn = [for |-> "as is", output |-> output]]
  BY ONLY <1>2, <1>3
<1>5. output \in Outputs /\ "as is" \in Outputs
  BY DEF Outputs
<1>6. PICK copies \in [Wnds -> Outputs] : copies = [scaler.active EXCEPT ![w] = output]
  BY <1>1, <1>5 DEF ScalerFields
<1>7. PICK d1 : d1 = [for |-> output, output |-> output]
  OBVIOUS
<1>8. PICK d2 : d2 = [for |-> "as is", output |-> output]
  OBVIOUS
<1>9. /\ d1 \in DrawnFields /\ d1.for \in {"as is", d1.output}
      /\ d2 \in DrawnFields /\ d2.for \in {"as is", d2.output}
  BY <1>5, <1>7, <1>8 DEF DrawnFields
<1>10. \/ scaler' = [scaler EXCEPT !.active = copies, !.drawn = d1]
       \/ scaler' = [scaler EXCEPT !.drawn = d2]
  BY ONLY <1>1, <1>4, <1>6, <1>7, <1>8 DEF ScalerFields
<1>11. scaler' \in ScalerFields /\ (scaler'.drawn = d1 \/ scaler'.drawn = d2)
  BY ONLY <1>1, <1>9, <1>10, copies \in [Wnds -> Outputs] DEF ScalerFields
<1>12. wnd' = wnd /\ screen' = screen
  BY DEF Osd!OverlayBlend
<1> QED
  BY <1>1, <1>9, <1>11, <1>12 DEF OsdInv

LEMMA OsdInvNext ==
  ASSUME OsdInv, [Next]_vars
  PROVE  OsdInv'
<1>1. CASE Osd!OcNext
  <2>1. CASE Osd!TicketFails
    BY <2>1 DEF OsdInv, Osd!TicketFails, Osd!ocVars
  <2> QED
    BY <1>1, <2>1, OcSetRleKeeps, OcSetArgbKeeps, OcSizeKeeps, OcCloseKeeps, SizeChangedKeeps,
       BlendKeeps DEF Osd!OcNext
<1>2. CASE UNCHANGED osdVars
  BY <1>2 DEF OsdInv, osdVars
<1> QED
  BY <1>1, <1>2 DEF Next, Step, OthersStay, Stopped, vars

LEMMA OsdInvInit == Osd!OcInit => OsdInv
<1> SUFFICES ASSUME Osd!OcInit PROVE OsdInv
  OBVIOUS
<1>1. wnd = [w \in Wnds |-> Osd!Closed]
  BY DEF Osd!OcInit
<1>2. Osd!Closed \in WndFields /\ FitsScreen(Osd!Closed, screen)
  BY DEF Osd!Closed, WndFields, Osd!Flags, Osd!Sizes, FitsScreen
<1>3. screen \in ScreenFields
  <2>1. screen \in [video : {"osd"}, window : {"osd", "large"}, vo_scaling : BOOLEAN, argb : BOOLEAN]
    BY DEF Osd!OcInit
  <2>2. "osd" \in Osd!Sizes /\ "large" \in Osd!Sizes
    BY DEF Osd!Sizes
  <2> QED
    BY ONLY <2>1, <2>2 DEF ScreenFields
<1>4. PICK none \in [Wnds -> Outputs] : none = [x \in Wnds |-> "none"]
  BY DEF Outputs
<1>5. PICK d : d = [for |-> "as is", output |-> "osd"]
  OBVIOUS
<1>8. d \in DrawnFields /\ d.for = "as is"
  BY <1>5 DEF DrawnFields, Outputs, Osd!Sizes
<1>6. scaler = [enable |-> FALSE, active |-> none, drawn |-> d]
  BY <1>4, <1>5 DEF Osd!OcInit
<1>7. scaler \in ScalerFields /\ scaler.drawn = d
  BY ONLY <1>6, <1>8, none \in [Wnds -> Outputs] DEF ScalerFields
<1> QED
  BY <1>1, <1>2, <1>3, <1>7, <1>8 DEF OsdInv

LEMMA OsdInvKept == OsdInv => Osd!NoStaleScale
BY DEF OsdInv, FitsScreen, Osd!NoStaleScale, ScalerFields

-----------------------------------------------------------------------------
(* What a frontend owns of xine's engine (xine_frontend.c).                 *)

Things == Engine!Owned \cup Engine!Streams
FeoFields == [at : {"created", "ready", "opened", "playing", "run", "freed"}, has : SUBSET Things,
              input_plugin : Nat, fetching : BOOLEAN, playback_finished : BOOLEAN,
              slave_playback_finished : BOOLEAN, terminate_key_pressed : BOOLEAN]
ObjFields == [alive : SUBSET Things, twice : SUBSET Things, plugin : Nat, control : BOOLEAN, made : Nat]

\* The pointers show what is there, but for the slave stream.
OwnedAlive(has, alive, twice) ==
  has \ {"slave_stream"} = alive \ {"slave_stream"} /\ twice \subseteq {"slave_stream"}

\* What is there at each place of the main loop; only a plugin that plays opens streams.
Placed(at, alive, control) ==
  /\ at = "created" => alive \subseteq {"xine"}
  /\ at = "freed" => alive = {}
  /\ at \in {"ready", "opened", "playing", "run"} => Engine!Owned \ {"audio_port"} \subseteq alive
  /\ at # "run" => control = FALSE /\ "slave_stream" \notin alive

EngineTyped(f, o) == f \in FeoFields /\ o \in ObjFields /\ OwnedAlive(f.has, o.alive, o.twice)
EngineSound(f, o) == EngineTyped(f, o) /\ Placed(f.at, o.alive, o.control)
EngineInv == EngineSound(feo, objs)

\* Closing takes at most the slave stream.
Closes(f, o, g, u) ==
  /\ EngineTyped(g, u) /\ g.at = f.at
  /\ g.has \ {"slave_stream"} = f.has \ {"slave_stream"}
  /\ u.alive \subseteq o.alive /\ u.alive \ {"slave_stream"} = o.alive \ {"slave_stream"}
  /\ u.made = o.made
  /\ "stream" \in f.has => u.control = FALSE /\ u.alive = o.alive \ {"slave_stream"}
  /\ o.control = FALSE => u.control = FALSE

LEMMA PluginClosedFacts ==
  ASSUME NEW f, NEW o, EngineTyped(f, o), NEW r, r = Engine!PluginClosed(f, o)
  PROVE  Closes(f, o, r.f, r.o) /\ r.o.control = FALSE /\ "slave_stream" \notin r.o.alive
<1>1. f \in FeoFields /\ o \in ObjFields /\ OwnedAlive(f.has, o.alive, o.twice)
  BY DEF EngineTyped
<1>2. PICK g : g = IF o.control /\ "slave_stream" \in o.alive THEN [f EXCEPT !.has = @ \ {"slave_stream"}] ELSE f
  OBVIOUS
<1>3. PICK alive : alive = o.alive \ {"slave_stream"}
  OBVIOUS
<1>4. PICK u : u = [o EXCEPT !.plugin = 0, !.control = FALSE, !.alive = alive]
  OBVIOUS
<1>5. r.f = g /\ r.o = u
  BY <1>2, <1>3, <1>4 DEF Engine!PluginClosed
<1>6. g \in FeoFields /\ g.at = f.at /\ g.has \ {"slave_stream"} = f.has \ {"slave_stream"}
  <2>1. PICK has : has = f.has \ {"slave_stream"}
    OBVIOUS
  <2>2. has \in SUBSET Things /\ f.has \in SUBSET Things
    BY <1>1, <2>1 DEF FeoFields
  <2>3. g = f \/ g = [f EXCEPT !.has = has]
    BY <1>2, <2>1
  <2>4. g = [f EXCEPT !.has = has] => g \in FeoFields /\ g.at = f.at /\ g.has = has
    BY ONLY <1>1, <2>2 DEF FeoFields
  <2> QED
    BY ONLY <1>1, <2>1, <2>3, <2>4
<1>7. /\ u \in ObjFields /\ u.alive = alive /\ u.twice = o.twice /\ u.control = FALSE /\ u.made = o.made
  <2>1. alive \in SUBSET Things
    BY <1>1, <1>3 DEF ObjFields
  <2>2. u \in ObjFields
    BY ONLY <1>1, <1>4, <2>1 DEF ObjFields
  <2> QED
    BY ONLY <1>1, <1>4, <2>2 DEF ObjFields
<1>8. OwnedAlive(g.has, u.alive, u.twice)
  BY ONLY <1>1, <1>3, <1>6, <1>7 DEF OwnedAlive
<1>9. Closes(f, o, g, u)
  BY ONLY <1>3, <1>6, <1>7, <1>8 DEF Closes, EngineTyped
<1> QED
  BY ONLY <1>3, <1>5, <1>7, <1>9

LEMMA ClosedFacts ==
  ASSUME NEW f, NEW o, EngineTyped(f, o), NEW r, r = Engine!Closed(f, o)
  PROVE  Closes(f, o, r.f, r.o)
<1>1. f \in FeoFields /\ o \in ObjFields /\ OwnedAlive(f.has, o.alive, o.twice)
  BY DEF EngineTyped
<1>2. PICK silent : silent = IF f.input_plugin # 0
                             THEN [o EXCEPT !.control = @ /\ f.input_plugin # o.plugin] ELSE o
  OBVIOUS
<1>3. /\ silent \in ObjFields /\ silent.alive = o.alive /\ silent.twice = o.twice /\ silent.made = o.made
      /\ o.control = FALSE => silent.control = FALSE
  <2>1. PICK b \in BOOLEAN : b = (o.control /\ f.input_plugin # o.plugin)
    OBVIOUS
  <2>2. silent = o \/ silent = [o EXCEPT !.control = b]
    BY <1>2, <2>1
  <2>3. o.control = FALSE => b = FALSE
    BY <2>1
  <2>4. silent = [o EXCEPT !.control = b] =>
          /\ silent \in ObjFields /\ silent.alive = o.alive /\ silent.twice = o.twice /\ silent.made = o.made
          /\ silent.control = b
    BY ONLY <1>1, b \in BOOLEAN DEF ObjFields
  <2> QED
    BY ONLY <1>1, <2>2, <2>3, <2>4
<1>4. EngineTyped(f, silent)
  BY ONLY <1>1, <1>3 DEF EngineTyped
<1>5. CASE "stream" \notin f.has
  <2>1. r.f = f /\ r.o = silent
    BY <1>2, <1>5 DEF Engine!Closed
  <2>2. Closes(f, o, f, silent)
    BY ONLY <1>3, <1>4, <1>5 DEF Closes
  <2> QED
    BY ONLY <2>1, <2>2
<1>6. CASE "stream" \in f.has
  <2>1. PICK g : g = Engine!Stopped(f)
    OBVIOUS
  <2>2. g = [f EXCEPT !.input_plugin = 0, !.playback_finished = TRUE]
    BY <2>1 DEF Engine!Stopped
  <2>3. g \in FeoFields /\ g.at = f.at /\ g.has = f.has
    BY ONLY <1>1, <2>2 DEF FeoFields
  <2>4. EngineTyped(g, silent)
    BY ONLY <1>4, <2>3 DEF EngineTyped
  <2>5. r = Engine!PluginClosed(g, silent)
    BY <1>2, <1>6, <2>1 DEF Engine!Closed
  <2>6. PICK h, u : h = r.f /\ u = r.o
    OBVIOUS
  <2>7. Closes(g, silent, h, u)
    BY <2>4, <2>5, <2>6, PluginClosedFacts
  <2>8. Closes(f, o, h, u)
    BY ONLY <1>3, <1>6, <2>3, <2>7 DEF Closes
  <2> QED
    BY <2>6, <2>8
<1> QED
  BY <1>5, <1>6

\* After fe_xine_exit() nothing is left, when no slave stream was open.
Exits(f, o, g, u) ==
  /\ EngineTyped(g, u) /\ g.at = f.at
  /\ "xine" \in f.has => u.alive = {}
  /\ "xine" \notin f.has => u = o
  /\ o.control = FALSE => u.control = FALSE

LEMMA ExitedFacts ==
  ASSUME NEW f, NEW o, EngineTyped(f, o), NEW r, r = Engine!Exited(f, o), "slave_stream" \notin o.alive
  PROVE  Exits(f, o, r.f, r.o)
<1>1. CASE "xine" \notin f.has
  <2>1. r.f = f /\ r.o = o
    BY <1>1 DEF Engine!Exited
  <2> QED
    BY <1>1, <2>1 DEF Exits
<1>2. CASE "xine" \in f.has
  <2>1. PICK c : c = IF f.input_plugin # 0 \/ ~f.playback_finished THEN Engine!Closed(f, o) ELSE [f |-> f, o |-> o]
    OBVIOUS
  <2>2. PICK g, u : g = c.f /\ u = c.o
    OBVIOUS
  <2>3. EngineTyped(g, u) /\ g.at = f.at /\ u.alive \subseteq o.alive /\ u.made = o.made
        /\ (o.control = FALSE => u.control = FALSE)
    <3>1. CASE c = Engine!Closed(f, o)
      <4>1. Closes(f, o, g, u)
        BY <3>1, <2>2, ClosedFacts
      <4> QED
        BY ONLY <4>1 DEF Closes
    <3>2. CASE c = [f |-> f, o |-> o]
      BY <3>2, <2>2
    <3> QED
      BY <2>1, <3>1, <3>2
  <2>4. /\ g \in FeoFields /\ u \in ObjFields /\ OwnedAlive(g.has, u.alive, u.twice)
        /\ "slave_stream" \notin u.alive
    BY <2>3 DEF EngineTyped
  <2>5. PICK alive, twice : alive = u.alive \ g.has /\ twice = u.twice \cup (g.has \ u.alive)
    OBVIOUS
  <2>6. alive = {} /\ twice \subseteq {"slave_stream"}
    BY ONLY <2>4, <2>5 DEF OwnedAlive
  <2>7. r.f = [g EXCEPT !.has = {}] /\ r.o = [u EXCEPT !.alive = alive, !.twice = twice]
    BY <1>2, <2>1, <2>2, <2>5 DEF Engine!Exited, Engine!Disposed
  <2>8. PICK h, v : h = r.f /\ v = r.o
    OBVIOUS
  <2>9. h \in FeoFields /\ h.at = g.at /\ h.has = {}
    BY ONLY <2>4, <2>7, <2>8 DEF FeoFields
  <2>10. v \in ObjFields /\ v.alive = alive /\ v.twice = twice /\ v.made = u.made /\ v.control = u.control
    <3>1. alive \in SUBSET Things /\ twice \in SUBSET Things
      BY <2>6 DEF Things, Engine!Streams
    <3>2. v = [u EXCEPT !.alive = alive, !.twice = twice]
      BY <2>7, <2>8
    <3>3. v \in ObjFields
      BY ONLY <2>4, <3>1, <3>2 DEF ObjFields
    <3> QED
      BY ONLY <2>4, <3>2, <3>3 DEF ObjFields
  <2>11. EngineTyped(h, v)
    BY ONLY <2>6, <2>9, <2>10 DEF EngineTyped, OwnedAlive
  <2>12. Exits(f, o, h, v)
    BY ONLY <1>2, <2>3, <2>6, <2>9, <2>10, <2>11 DEF Exits
  <2> QED
    BY <2>8, <2>12
<1> QED
  BY <1>1, <1>2

\* What fe_xine_init() has made.
Made(r, alive) ==
  EngineTyped(r.f, r.o) /\ r.f.at = "created" /\ r.o.alive = alive /\ r.o.control = FALSE

LEMMA GotMade ==
  ASSUME NEW r, NEW alive, Made(r, alive), NEW things \in SUBSET Engine!Owned,
         NEW q, q = Engine!Got(r, things)
  PROVE  Made(q, alive \cup things) /\ q = [f |-> q.f, o |-> q.o]
<1>1. PICK f, o : f = r.f /\ o = r.o
  OBVIOUS
<1>2. /\ f \in FeoFields /\ o \in ObjFields /\ OwnedAlive(f.has, o.alive, o.twice)
      /\ f.at = "created" /\ o.alive = alive /\ o.control = FALSE
  BY <1>1 DEF Made, EngineTyped
<1>3. PICK has, more : has = f.has \cup things /\ more = o.alive \cup things
  OBVIOUS
<1>4. has \in SUBSET Things /\ more \in SUBSET Things
  BY <1>2, <1>3 DEF FeoFields, ObjFields, Things
<1>5. PICK g : g = [f EXCEPT !.has = has]
  OBVIOUS
<1>6. PICK u : u = [o EXCEPT !.alive = more]
  OBVIOUS
<1>7. q = [f |-> g, o |-> u]
  BY <1>1, <1>3, <1>5, <1>6 DEF Engine!Got
<1>8. g \in FeoFields /\ g.at = f.at /\ g.has = has
  BY ONLY <1>2, <1>4, <1>5 DEF FeoFields
<1>9. u \in ObjFields /\ u.alive = more /\ u.twice = o.twice /\ u.control = o.control
  BY ONLY <1>2, <1>4, <1>6 DEF ObjFields
<1>10. OwnedAlive(has, more, o.twice)
  <2>1. "slave_stream" \notin things
    BY DEF Engine!Owned
  <2> QED
    BY ONLY <2>1, <1>2, <1>3 DEF OwnedAlive
<1>11. EngineTyped(g, u)
  BY ONLY <1>8, <1>9, <1>10 DEF EngineTyped
<1>12. q.f = g /\ q.o = u
  BY <1>7
<1> QED
  BY <1>2, <1>3, <1>7, <1>8, <1>9, <1>11, <1>12 DEF Made

\* A failure leaves nothing.
LEMMA ExitedMade ==
  ASSUME NEW r, NEW alive, Made(r, alive), "xine" \in alive, "slave_stream" \notin alive,
         NEW e, e = Engine!Exited(r.f, r.o)
  PROVE  EngineSound(e.f, e.o)
<1>1. PICK f, o : f = r.f /\ o = r.o
  OBVIOUS
<1>2. EngineTyped(f, o) /\ f.at = "created" /\ o.alive = alive /\ o.control = FALSE
  BY <1>1 DEF Made
<1>3. "xine" \in f.has
  BY ONLY <1>2, "xine" \in alive DEF EngineTyped, OwnedAlive
<1>4. PICK g, u : g = e.f /\ u = e.o
  OBVIOUS
<1>5. EngineTyped(g, u) /\ g.at = "created" /\ u.alive = {} /\ u.control = FALSE
  <2>1. Exits(f, o, g, u)
    BY <1>1, <1>2, <1>4, ExitedFacts
  <2> QED
    BY ONLY <1>2, <1>3, <2>1 DEF Exits
<1>6. EngineSound(g, u)
  BY ONLY <1>5 DEF EngineSound, Placed
<1> QED
  BY <1>4, <1>6

LEMMA InitKeeps ==
  ASSUME EngineInv, Engine!FeXineInit
  PROVE  EngineInv'
<1>1. EngineTyped(feo, objs) /\ feo.at = "created" /\ objs.alive \subseteq {"xine"} /\ objs.control = FALSE
  BY DEF EngineInv, EngineSound, Placed, Engine!FeXineInit
<1>2. PICK x : x = Engine!Exited(feo, objs)
  OBVIOUS
<1>3. PICK g, u : g = x.f /\ u = x.o
  OBVIOUS
<1>4. EngineTyped(g, u) /\ g.at = "created" /\ u.alive = {} /\ u.control = FALSE
  <2>1. /\ EngineTyped(g, u) /\ g.at = feo.at
        /\ "xine" \in feo.has => u.alive = {}
        /\ "xine" \notin feo.has => u = objs
        /\ objs.control = FALSE => u.control = FALSE
    <3>1. Exits(feo, objs, g, u)
      BY <1>1, <1>2, <1>3, ExitedFacts
    <3> QED
      BY ONLY <3>1 DEF Exits
  <2>2. "xine" \notin feo.has => objs.alive = {}
    BY ONLY <1>1 DEF EngineTyped, OwnedAlive
  <2> QED
    BY ONLY <1>1, <2>1, <2>2
<1>5. PICK g0 : g0 = [g EXCEPT !.input_plugin = 0]
  OBVIOUS
<1>6. g0 \in FeoFields /\ g0.at = g.at /\ g0.has = g.has
  <2>1. g \in FeoFields
    BY <1>4 DEF EngineTyped
  <2> QED
    BY ONLY <1>5, <2>1 DEF FeoFields
<1>7. PICK r : r = Engine!Renewed(feo, objs)
  OBVIOUS
<1>8. r = [f |-> g0, o |-> u]
  BY <1>2, <1>3, <1>5, <1>7 DEF Engine!Renewed
<1>9. Made(r, {})
  <2>1. EngineTyped(g0, u)
    BY ONLY <1>4, <1>6 DEF EngineTyped
  <2>2. r.f = g0 /\ r.o = u
    BY <1>8
  <2> QED
    BY <2>1, <2>2, <1>4, <1>6 DEF Made
<1>10. PICK engine : engine = Engine!Got(r, {"xine"})
  OBVIOUS
<1>11. Made(engine, {"xine"}) /\ engine = [f |-> engine.f, o |-> engine.o]
  BY <1>9, <1>10, GotMade DEF Engine!Owned
<1>12. PICK running : running = [engine EXCEPT !.f.playback_finished = FALSE]
  OBVIOUS
<1>13. Made(running, {"xine"})
  <2>1. PICK g1, u1 : g1 = engine.f /\ u1 = engine.o
    OBVIOUS
  <2>2. EngineTyped(g1, u1) /\ g1.at = "created" /\ u1.alive = {"xine"} /\ u1.control = FALSE
    BY <1>11, <2>1 DEF Made
  <2>3. PICK g2 : g2 = [g1 EXCEPT !.playback_finished = FALSE]
    OBVIOUS
  <2>4. running = [f |-> g2, o |-> u1]
    BY <1>11, <1>12, <2>1, <2>3
  <2>5. g1 \in FeoFields
    BY <2>2 DEF EngineTyped
  <2>6. g2 \in FeoFields /\ g2.at = g1.at /\ g2.has = g1.has
    BY ONLY <2>3, <2>5 DEF FeoFields
  <2>7. EngineTyped(g2, u1)
    BY ONLY <2>2, <2>6 DEF EngineTyped
  <2>8. running.f = g2 /\ running.o = u1
    BY <2>4
  <2> QED
    BY <2>2, <2>6, <2>7, <2>8 DEF Made
<1>14. PICK ported : ported = Engine!Got(running, {"video_port"})
  OBVIOUS
<1>15. Made(ported, {"xine", "video_port"})
  <2>1. {"xine"} \cup {"video_port"} = {"xine", "video_port"} /\ {"video_port"} \in SUBSET Engine!Owned
    BY DEF Engine!Owned
  <2>2. Made(ported, {"xine"} \cup {"video_port"})
    BY <1>13, <1>14, <2>1, GotMade
  <2> QED
    BY <2>1, <2>2
<1>16. CASE feo' = engine.f /\ objs' = engine.o
  <2>1. EngineSound(engine.f, engine.o)
    BY <1>11 DEF Made, EngineSound, Placed
  <2> QED
    BY <1>16, <2>1 DEF EngineInv
<1>17. CASE LET e == Engine!Exited(running.f, running.o) IN feo' = e.f /\ objs' = e.o
  <2>1. PICK e : e = Engine!Exited(running.f, running.o)
    OBVIOUS
  <2>2. EngineSound(e.f, e.o)
    BY <2>1, <1>13, ExitedMade
  <2> QED
    BY <1>17, <2>1, <2>2 DEF EngineInv
<1>18. ASSUME NEW audio \in {{}, {"audio_port"}},
              LET ports == Engine!Got(ported, audio)
                  all   == Engine!Got(ports, {"stream", "event_queue", "postplugins"})
              IN  \/ LET e == Engine!Exited(ports.f, ports.o) IN feo' = e.f /\ objs' = e.o
                  \/ feo' = [all.f EXCEPT !.at = "ready"] /\ objs' = all.o
       PROVE  EngineInv'
  <2>1. PICK ports : ports = Engine!Got(ported, audio)
    OBVIOUS
  <2>2. PICK all : all = Engine!Got(ports, {"stream", "event_queue", "postplugins"})
    OBVIOUS
  <2>3. PICK there : there = {"xine", "video_port"} \cup audio
    OBVIOUS
  <2>4. PICK more : more = there \cup {"stream", "event_queue", "postplugins"}
    OBVIOUS
  <2>5. audio \in SUBSET Engine!Owned /\ {"stream", "event_queue", "postplugins"} \in SUBSET Engine!Owned
    BY DEF Engine!Owned
  <2>6. Made(ports, there)
    BY <1>15, <2>1, <2>3, <2>5, GotMade
  <2>7. Made(all, more)
    BY <2>2, <2>4, <2>5, <2>6, GotMade
  <2>8. CASE LET e == Engine!Exited(ports.f, ports.o) IN feo' = e.f /\ objs' = e.o
    <3>1. PICK e : e = Engine!Exited(ports.f, ports.o)
      OBVIOUS
    <3>2. "xine" \in there /\ "slave_stream" \notin there
      BY <2>3
    <3>3. EngineSound(e.f, e.o)
      BY <3>1, <3>2, <2>6, ExitedMade
    <3> QED
      BY <2>8, <3>1, <3>3 DEF EngineInv
  <2>9. CASE feo' = [all.f EXCEPT !.at = "ready"] /\ objs' = all.o
    <3>1. PICK g1, u1 : g1 = all.f /\ u1 = all.o
      OBVIOUS
    <3>2. EngineTyped(g1, u1) /\ u1.alive = more /\ u1.control = FALSE
      BY <2>7, <3>1 DEF Made
    <3>3. PICK g2 : g2 = [g1 EXCEPT !.at = "ready"]
      OBVIOUS
    <3>4. g1 \in FeoFields
      BY <3>2 DEF EngineTyped
    <3>5. g2 \in FeoFields /\ g2.at = "ready" /\ g2.has = g1.has
      BY ONLY <3>3, <3>4 DEF FeoFields
    <3>6. EngineTyped(g2, u1)
      BY ONLY <3>2, <3>5 DEF EngineTyped
    <3>7. Engine!Owned \ {"audio_port"} \subseteq more /\ "slave_stream" \notin more
      BY <2>3, <2>4 DEF Engine!Owned
    <3>8. EngineSound(g2, u1)
      BY ONLY <3>2, <3>5, <3>6, <3>7 DEF EngineSound, Placed
    <3> QED
      BY <2>9, <3>1, <3>3, <3>8 DEF EngineInv
  <2> QED
    BY <1>18, <2>1, <2>2, <2>8, <2>9
<1> QED
  BY <1>7, <1>10, <1>12, <1>14, <1>16, <1>17, <1>18 DEF Engine!FeXineInit

LEMMA OpenKeeps ==
  ASSUME EngineInv, Engine!FeXineOpen
  PROVE  EngineInv'
<1>1. /\ EngineTyped(feo, objs) /\ feo.at = "ready" /\ objs.control = FALSE
      /\ Engine!Owned \ {"audio_port"} \subseteq objs.alive
  BY DEF EngineInv, EngineSound, Placed, Engine!FeXineOpen
<1>2. PICK c : c = Engine!PluginClosed(feo, objs)
  OBVIOUS
<1>3. PICK g, u : g = c.f /\ u = c.o
  OBVIOUS
<1>4. Closes(feo, objs, g, u) /\ u.control = FALSE /\ "slave_stream" \notin u.alive
  BY <1>1, <1>2, <1>3, PluginClosedFacts
<1>5. /\ g \in FeoFields /\ u \in ObjFields /\ OwnedAlive(g.has, u.alive, u.twice) /\ g.at = "ready"
      /\ Engine!Owned \ {"audio_port"} \subseteq u.alive
  <2>1. "slave_stream" \notin Engine!Owned
    BY DEF Engine!Owned
  <2> QED
    BY ONLY <2>1, <1>1, <1>4 DEF Closes, EngineTyped
<1>6. PICK opened : opened = [g EXCEPT !.input_plugin = 0, !.playback_finished = TRUE,
                                       !.terminate_key_pressed = FALSE]
  OBVIOUS
<1>7. opened \in FeoFields /\ opened.at = g.at /\ opened.has = g.has
  BY ONLY <1>5, <1>6 DEF FeoFields
<1>8. CASE feo' = opened /\ objs' = u
  <2>1. EngineSound(opened, u)
    BY ONLY <1>4, <1>5, <1>7 DEF EngineSound, EngineTyped, Placed
  <2> QED
    BY <1>8, <2>1 DEF EngineInv
<1>9. CASE feo' = [opened EXCEPT !.at = "opened"] /\ objs' = [u EXCEPT !.plugin = u.made + 1, !.made = @ + 1]
  <2>1. PICK h : h = [opened EXCEPT !.at = "opened"]
    OBVIOUS
  <2>2. h \in FeoFields /\ h.at = "opened" /\ h.has = opened.has
    BY ONLY <1>7, <2>1 DEF FeoFields
  <2>3. PICK n \in Nat : n = u.made + 1
    BY <1>5 DEF ObjFields
  <2>4. PICK v : v = [u EXCEPT !.plugin = n, !.made = n]
    OBVIOUS
  <2>5. v \in ObjFields
    BY ONLY <1>5, <2>4, n \in Nat DEF ObjFields
  <2>6. v.alive = u.alive /\ v.twice = u.twice /\ v.control = u.control
    BY ONLY <1>5, <2>4 DEF ObjFields
  <2>7. EngineSound(h, v)
    BY ONLY <1>4, <1>5, <1>7, <2>2, <2>5, <2>6 DEF EngineSound, EngineTyped, Placed
  <2>8. feo' = h /\ objs' = v
    BY <1>9, <2>1, <2>3, <2>4
  <2> QED
    BY <2>7, <2>8 DEF EngineInv
<1> QED
  BY <1>2, <1>3, <1>6, <1>8, <1>9 DEF Engine!FeXineOpen

LEMMA EnginePlayKeeps ==
  ASSUME EngineInv, Engine!FeXinePlay \/ Engine!FeXinePlayed
  PROVE  EngineInv'
<1>1. feo \in FeoFields /\ objs \in ObjFields /\ EngineTyped(feo, objs) /\ Placed(feo.at, objs.alive, objs.control)
  BY DEF EngineInv, EngineSound, EngineTyped
<1>2. CASE Engine!FeXinePlay
  <2>1. PICK b \in BOOLEAN :
          feo' = [feo EXCEPT !.at = "playing", !.playback_finished = b, !.input_plugin = 0]
    BY <1>2 DEF Engine!FeXinePlay
  <2>2. objs' = objs /\ feo.at = "opened"
    BY <1>2 DEF Engine!FeXinePlay
  <2>3. PICK g : g = feo'
    OBVIOUS
  <2>4. g = [feo EXCEPT !.at = "playing", !.playback_finished = b, !.input_plugin = 0]
    BY <2>1, <2>3
  <2>5. g \in FeoFields
    BY ONLY <1>1, <2>4, b \in BOOLEAN DEF FeoFields
  <2>6. g.at = "playing" /\ g.has = feo.has
    BY ONLY <1>1, <2>4 DEF FeoFields
  <2>7. EngineSound(g, objs)
    BY ONLY <1>1, <2>2, <2>5, <2>6 DEF EngineSound, EngineTyped, Placed
  <2> QED
    BY <2>2, <2>3, <2>7 DEF EngineInv
<1>3. CASE Engine!FeXinePlayed
  <2>1. PICK b \in BOOLEAN : b = (feo.input_plugin # 0 \/ ~feo.playback_finished)
    OBVIOUS
  <2>2. PICK n : n = IF b /\ feo.input_plugin = 0 THEN objs.plugin ELSE feo.input_plugin
    OBVIOUS
  <2>3. n \in Nat
    BY <1>1, <2>2 DEF FeoFields, ObjFields
  <2>4. PICK g, u : g = feo' /\ u = objs'
    OBVIOUS
  <2>5. g = [feo EXCEPT !.at = "run", !.input_plugin = n] /\ u = [objs EXCEPT !.control = b] /\ feo.at = "playing"
    BY <1>3, <2>1, <2>2, <2>4 DEF Engine!FeXinePlayed
  <2>6. g \in FeoFields /\ g.at = "run" /\ g.has = feo.has
    BY ONLY <1>1, <2>3, <2>5 DEF FeoFields
  <2>7. u \in ObjFields
    BY ONLY <1>1, <2>5, b \in BOOLEAN DEF ObjFields
  <2>8. u.alive = objs.alive /\ u.twice = objs.twice
    BY ONLY <1>1, <2>5 DEF ObjFields
  <2>9. EngineSound(g, u)
    BY ONLY <1>1, <2>5, <2>6, <2>7, <2>8 DEF EngineSound, EngineTyped, Placed
  <2> QED
    BY <2>4, <2>9 DEF EngineInv
<1> QED
  BY <1>2, <1>3

LEMMA CloseKeeps ==
  ASSUME EngineInv, Engine!FeXineClose
  PROVE  EngineInv'
<1>1. EngineTyped(feo, objs) /\ Engine!Owned \ {"audio_port"} \subseteq objs.alive
  BY DEF EngineInv, EngineSound, Placed, Engine!FeXineClose
<1>2. PICK c : c = Engine!Closed(feo, objs)
  OBVIOUS
<1>3. PICK g, u : g = c.f /\ u = c.o
  OBVIOUS
<1>4. Closes(feo, objs, g, u)
  BY <1>1, <1>2, <1>3, ClosedFacts
<1>5. "stream" \in Engine!Owned \ {"audio_port"} /\ "slave_stream" \notin Engine!Owned
  BY DEF Engine!Owned
<1>6. "stream" \in feo.has
  BY ONLY <1>1, <1>5 DEF EngineTyped, OwnedAlive
<1>7. /\ g \in FeoFields /\ u \in ObjFields /\ OwnedAlive(g.has, u.alive, u.twice)
      /\ u.control = FALSE /\ "slave_stream" \notin u.alive
      /\ Engine!Owned \ {"audio_port"} \subseteq u.alive
  BY ONLY <1>1, <1>4, <1>5, <1>6 DEF Closes, EngineTyped
<1>8. PICK h : h = [g EXCEPT !.at = "ready"]
  OBVIOUS
<1>9. h \in FeoFields /\ h.at = "ready" /\ h.has = g.has
  BY ONLY <1>7, <1>8 DEF FeoFields
<1>10. EngineSound(h, u)
  BY ONLY <1>7, <1>9 DEF EngineSound, EngineTyped, Placed
<1>11. feo' = h /\ objs' = u
  BY <1>2, <1>3, <1>8 DEF Engine!FeXineClose
<1> QED
  BY <1>10, <1>11 DEF EngineInv

LEMMA ExitKeeps ==
  ASSUME EngineInv, Engine!FeXineExit
  PROVE  EngineInv'
<1>1. /\ EngineTyped(feo, objs) /\ objs.control = FALSE /\ "slave_stream" \notin objs.alive
      /\ "xine" \in objs.alive \/ objs.alive = {}
  BY DEF EngineInv, EngineSound, Placed, Engine!FeXineExit, Engine!Owned
<1>2. PICK e : e = Engine!Exited(feo, objs)
  OBVIOUS
<1>3. PICK g, u : g = e.f /\ u = e.o
  OBVIOUS
<1>4. Exits(feo, objs, g, u)
  BY <1>1, <1>2, <1>3, ExitedFacts
<1>5. /\ g \in FeoFields /\ u \in ObjFields /\ OwnedAlive(g.has, u.alive, u.twice)
      /\ u.control = FALSE /\ u.alive = {}
  <2>1. "xine" \in feo.has \/ objs.alive = {}
    BY ONLY <1>1 DEF EngineTyped, OwnedAlive
  <2>2. "xine" \notin feo.has => u = objs
    BY ONLY <1>4 DEF Exits
  <2>3. "xine" \in feo.has => u.alive = {}
    BY ONLY <1>4 DEF Exits
  <2>4. u.alive = {}
    BY ONLY <2>1, <2>2, <2>3
  <2> QED
    BY ONLY <1>1, <1>4, <2>4 DEF Exits, EngineTyped
<1>6. PICK at \in {"created", "freed"} : feo' = [g EXCEPT !.at = at]
  BY <1>2, <1>3 DEF Engine!FeXineExit
<1>7. PICK h : h = [g EXCEPT !.at = at]
  OBVIOUS
<1>8. h \in FeoFields /\ h.at = at /\ h.has = g.has
  BY ONLY <1>5, <1>7, at \in {"created", "freed"} DEF FeoFields
<1>9. EngineSound(h, u)
  BY ONLY <1>5, <1>8, at \in {"created", "freed"} DEF EngineSound, EngineTyped, Placed
<1>10. feo' = h /\ objs' = u
  BY <1>2, <1>3, <1>6, <1>7 DEF Engine!FeXineExit
<1> QED
  BY <1>9, <1>10 DEF EngineInv

\* Steps that change neither the place, the objects nor the pointers.
LEMMA QuietKeeps ==
  ASSUME EngineInv, feo' \in FeoFields, feo'.at = feo.at, feo'.has = feo.has, objs' = objs
  PROVE  EngineInv'
<1>1. PICK g : g = feo'
  OBVIOUS
<1>2. g \in FeoFields /\ g.at = feo.at /\ g.has = feo.has
  BY <1>1
<1>3. EngineSound(feo, objs)
  BY DEF EngineInv
<1>4. EngineSound(g, objs)
  BY ONLY <1>2, <1>3 DEF EngineSound, EngineTyped
<1> QED
  BY <1>1, <1>4 DEF EngineInv

LEMMA OthersKeep ==
  ASSUME EngineInv,
         \/ Engine!PlaybackFinished \/ Engine!TerminateKey \/ Engine!FindTests \/ Engine!FindFetches
         \/ Engine!EndOfStream \/ Engine!FeFreed
  PROVE  EngineInv'
<1>1. feo \in FeoFields /\ objs \in ObjFields
  BY DEF EngineInv, EngineSound, EngineTyped
<1>2. objs.plugin \in Nat
  BY <1>1 DEF ObjFields
<1>3. PICK n \in Nat : n = objs.plugin
  BY <1>2
<1>4. /\ \/ feo' = [feo EXCEPT !.playback_finished = TRUE]
         \/ feo' = [feo EXCEPT !.terminate_key_pressed = TRUE]
         \/ feo' = [feo EXCEPT !.fetching = TRUE]
         \/ feo' = [feo EXCEPT !.fetching = FALSE, !.input_plugin = n]
         \/ feo' = [feo EXCEPT !.slave_playback_finished = TRUE]
         \/ feo' = feo
      /\ objs' = objs
  BY <1>3 DEF Engine!PlaybackFinished, Engine!TerminateKey, Engine!FindTests, Engine!FindFetches,
              Engine!EndOfStream, Engine!FeFreed, Engine!feVars
<1>5. feo' \in FeoFields
  BY ONLY <1>1, <1>4, n \in Nat DEF FeoFields
<1>6. feo'.at = feo.at /\ feo'.has = feo.has
  BY ONLY <1>1, <1>4 DEF FeoFields
<1> QED
  BY <1>4, <1>5, <1>6, QuietKeeps

\* fe_control() opens or closes a stream, while the plugin plays.
LEMMA StreamKeeps ==
  ASSUME EngineInv, objs.control,
         \/ Engine!SlaveOpens \/ Engine!SlaveCloses \/ Engine!PipOpens \/ Engine!PipCloses
  PROVE  EngineInv'
<1>1. /\ feo \in FeoFields /\ objs \in ObjFields /\ OwnedAlive(feo.has, objs.alive, objs.twice)
      /\ Placed(feo.at, objs.alive, objs.control)
  BY DEF EngineInv, EngineSound, EngineTyped
<1>2. feo.at = "run" /\ Engine!Owned \ {"audio_port"} \subseteq objs.alive
  <2>1. feo.at = "run"
    BY <1>1 DEF Placed
  <2> QED
    BY <1>1, <2>1 DEF Placed
<1>3. "slave_stream" \notin Engine!Owned /\ "pip_stream" \notin Engine!Owned
  BY DEF Engine!Owned
<1>4. CASE Engine!SlaveOpens
  <2>1. PICK has : has = feo.has \cup {"slave_stream"}
    OBVIOUS
  <2>2. PICK alive : alive = objs.alive \cup {"slave_stream"}
    OBVIOUS
  <2>4. PICK g, u : g = feo' /\ u = objs'
    OBVIOUS
  <2>5. g = [feo EXCEPT !.has = has, !.slave_playback_finished = FALSE] /\ u = [objs EXCEPT !.alive = alive]
    BY <1>4, <2>1, <2>2, <2>4 DEF Engine!SlaveOpens
  <2>6. has \in SUBSET Things /\ alive \in SUBSET Things
    BY <1>1, <2>1, <2>2 DEF FeoFields, ObjFields, Things, Engine!Streams
  <2>7. g \in FeoFields /\ g.at = feo.at /\ g.has = has
    BY ONLY <1>1, <2>5, <2>6 DEF FeoFields
  <2>8. u \in ObjFields
    BY ONLY <1>1, <2>5, <2>6 DEF ObjFields
  <2>9. u.alive = alive /\ u.twice = objs.twice /\ u.control = objs.control
    BY ONLY <1>1, <2>5, <2>8 DEF ObjFields
  <2>10. OwnedAlive(has, alive, objs.twice) /\ Engine!Owned \ {"audio_port"} \subseteq alive
    BY ONLY <1>1, <1>2, <1>3, <2>1, <2>2 DEF OwnedAlive
  <2>11. EngineSound(g, u)
    BY ONLY <1>2, <2>7, <2>8, <2>9, <2>10 DEF EngineSound, EngineTyped, Placed
  <2> QED
    BY <2>4, <2>11 DEF EngineInv
<1>5. CASE Engine!SlaveCloses
  <2>1. PICK has : has = feo.has \ {"slave_stream"}
    OBVIOUS
  <2>2. PICK alive : alive = objs.alive \ {"slave_stream"}
    OBVIOUS
  <2>3. PICK twice : twice = objs.twice \cup ({"slave_stream"} \ objs.alive)
    OBVIOUS
  <2>4. PICK g, u : g = feo' /\ u = objs'
    OBVIOUS
  <2>5. g = [feo EXCEPT !.has = has, !.slave_playback_finished = TRUE] /\ u = [objs EXCEPT !.alive = alive, !.twice = twice]
    BY <1>5, <2>1, <2>2, <2>3, <2>4 DEF Engine!SlaveCloses, Engine!Disposed
  <2>6. has \in SUBSET Things /\ alive \in SUBSET Things /\ twice \in SUBSET Things
    BY <1>1, <2>1, <2>2, <2>3 DEF FeoFields, ObjFields, Things, Engine!Streams
  <2>7. g \in FeoFields /\ g.at = feo.at /\ g.has = has
    BY ONLY <1>1, <2>5, <2>6 DEF FeoFields
  <2>8. u \in ObjFields
    BY ONLY <1>1, <2>5, <2>6 DEF ObjFields
  <2>9. u.alive = alive /\ u.twice = twice /\ u.control = objs.control
    BY ONLY <1>1, <2>5, <2>8 DEF ObjFields
  <2>10. OwnedAlive(has, alive, twice) /\ Engine!Owned \ {"audio_port"} \subseteq alive
    BY ONLY <1>1, <1>2, <1>3, <2>1, <2>2, <2>3 DEF OwnedAlive
  <2>11. EngineSound(g, u)
    BY ONLY <1>2, <2>7, <2>8, <2>9, <2>10 DEF EngineSound, EngineTyped, Placed
  <2> QED
    BY <2>4, <2>11 DEF EngineInv
<1>6. CASE Engine!PipOpens
  <2>1. PICK has : has = feo.has \cup {"pip_stream"}
    OBVIOUS
  <2>2. PICK alive : alive = IF "pip_stream" \in feo.has THEN objs.alive ELSE objs.alive \cup {"pip_stream"}
    OBVIOUS
  <2>4. PICK g, u : g = feo' /\ u = objs'
    OBVIOUS
  <2>5. g = [feo EXCEPT !.has = has] /\ u = [objs EXCEPT !.alive = alive]
    BY <1>6, <2>1, <2>2, <2>4 DEF Engine!PipOpens
  <2>6. has \in SUBSET Things /\ alive \in SUBSET Things
    BY <1>1, <2>1, <2>2 DEF FeoFields, ObjFields, Things, Engine!Streams
  <2>7. g \in FeoFields /\ g.at = feo.at /\ g.has = has
    BY ONLY <1>1, <2>5, <2>6 DEF FeoFields
  <2>8. u \in ObjFields
    BY ONLY <1>1, <2>5, <2>6 DEF ObjFields
  <2>9. u.alive = alive /\ u.twice = objs.twice /\ u.control = objs.control
    BY ONLY <1>1, <2>5, <2>8 DEF ObjFields
  <2>10. OwnedAlive(has, alive, objs.twice) /\ Engine!Owned \ {"audio_port"} \subseteq alive
    BY ONLY <1>1, <1>2, <1>3, <2>1, <2>2 DEF OwnedAlive
  <2>11. EngineSound(g, u)
    BY ONLY <1>2, <2>7, <2>8, <2>9, <2>10 DEF EngineSound, EngineTyped, Placed
  <2> QED
    BY <2>4, <2>11 DEF EngineInv
<1>7. CASE Engine!PipCloses
  <2>1. PICK has : has = feo.has \ {"pip_stream"}
    OBVIOUS
  <2>2. PICK alive : alive = objs.alive \ {"pip_stream"}
    OBVIOUS
  <2>3. PICK twice : twice = objs.twice \cup ({"pip_stream"} \ objs.alive)
    OBVIOUS
  <2>4. PICK g, u : g = feo' /\ u = objs'
    OBVIOUS
  <2>5. g = [feo EXCEPT !.has = has] /\ u = [objs EXCEPT !.alive = alive, !.twice = twice]
    BY <1>7, <2>1, <2>2, <2>3, <2>4 DEF Engine!PipCloses, Engine!Disposed
  <2>6. has \in SUBSET Things /\ alive \in SUBSET Things /\ twice \in SUBSET Things
    BY <1>1, <2>1, <2>2, <2>3 DEF FeoFields, ObjFields, Things, Engine!Streams
  <2>7. g \in FeoFields /\ g.at = feo.at /\ g.has = has
    BY ONLY <1>1, <2>5, <2>6 DEF FeoFields
  <2>8. u \in ObjFields
    BY ONLY <1>1, <2>5, <2>6 DEF ObjFields
  <2>9. u.alive = alive /\ u.twice = twice /\ u.control = objs.control
    BY ONLY <1>1, <2>5, <2>8 DEF ObjFields
  <2>10. OwnedAlive(has, alive, twice) /\ Engine!Owned \ {"audio_port"} \subseteq alive
    <3>1. "pip_stream" \in feo.has
      BY <1>7 DEF Engine!PipCloses
    <3> QED
      BY ONLY <3>1, <1>1, <1>2, <1>3, <2>1, <2>2, <2>3 DEF OwnedAlive
  <2>11. EngineSound(g, u)
    BY ONLY <1>2, <2>7, <2>8, <2>9, <2>10 DEF EngineSound, EngineTyped, Placed
  <2> QED
    BY <2>4, <2>11 DEF EngineInv
<1> QED
  BY <1>4, <1>5, <1>6, <1>7

LEMMA EngineInvNext ==
  ASSUME EngineInv, [Next]_vars
  PROVE  EngineInv'
<1>1. CASE Engine!FeNext
  <2>1. Engine!SlaveOpens \/ Engine!SlaveCloses \/ Engine!PipOpens \/ Engine!PipCloses => EngineInv'
    <3>1. Engine!SlaveOpens \/ Engine!SlaveCloses \/ Engine!PipOpens \/ Engine!PipCloses => objs.control
      BY DEF Engine!SlaveOpens, Engine!SlaveCloses, Engine!PipOpens, Engine!PipCloses
    <3> QED
      BY <3>1, StreamKeeps
  <2> QED
    BY <1>1, <2>1, InitKeeps, OpenKeeps, EnginePlayKeeps, CloseKeeps, ExitKeeps, OthersKeep DEF Engine!FeNext
<1>2. CASE UNCHANGED engineVars
  BY <1>2 DEF EngineInv, engineVars
<1> QED
  BY <1>1, <1>2 DEF Next, Step, OthersStay, Stopped, vars

LEMMA EngineInvInit == Engine!FeInit => EngineInv
<1> SUFFICES ASSUME Engine!FeInit PROVE EngineInv
  OBVIOUS
<1>1. feo \in FeoFields /\ feo.at = "created" /\ feo.has = {}
  BY DEF Engine!FeInit, FeoFields
<1>2. objs \in ObjFields /\ objs.alive = {} /\ objs.twice = {} /\ objs.control = FALSE
  BY DEF Engine!FeInit, ObjFields
<1> QED
  BY <1>1, <1>2 DEF EngineInv, EngineSound, EngineTyped, OwnedAlive, Placed

LEMMA EngineInvKept == EngineInv => Engine!OwnedOnce
<1> SUFFICES ASSUME EngineInv PROVE Engine!OwnedOnce
  OBVIOUS
<1>1. feo \in FeoFields /\ objs \in ObjFields /\ OwnedAlive(feo.has, objs.alive, objs.twice)
  BY DEF EngineInv, EngineSound, EngineTyped
<1>2. Placed(feo.at, objs.alive, objs.control)
  BY DEF EngineInv, EngineSound
<1>3. objs.alive \subseteq {"xine"} \/ {"xine", "video_port", "stream"} \subseteq objs.alive
  BY <1>1, <1>2 DEF Placed, FeoFields, Engine!Owned
<1>4. ASSUME NEW thing \in DOMAIN Engine!Needs, thing \in objs.alive
      PROVE  Engine!Needs[thing] \subseteq objs.alive
  <2>1. thing \in {"stream", "event_queue", "pip_stream", "video_port", "audio_port"}
    BY <1>4 DEF Engine!Needs
  <2>2. Engine!Needs[thing] \subseteq {"xine", "video_port", "stream"}
    BY <2>1 DEF Engine!Needs
  <2>3. thing # "xine"
    BY <2>1
  <2> QED
    BY ONLY <2>2, <2>3, <1>3, <1>4
<1> QED
  BY <1>1, <1>2, <1>4 DEF Engine!OwnedOnce, OwnedAlive, Placed

LEMMA HudInvKept == HudInv => Hud!HiddenShowsNothing
<1> SUFFICES ASSUME HudInv PROVE Hud!HiddenShowsNothing
  OBVIOUS
<1>1. hud.visible = FALSE => surf.shown = {} /\ surf.mask = {}
  BY DEF HudInv, HudSound
<1>2. hud.visible \in BOOLEAN
  BY DEF HudInv, HudSound, HudFields
<1> QED
  BY ONLY <1>1, <1>2 DEF Hud!HiddenShowsNothing

(* Whatever is drawn, scaled, shown and closed, and in whatever order: an  *)
(* OSD window shows its picture in the scale the video has now, and a      *)
(* scaled copy is drawn at the output it was made for only (osd_manager.c, *)
(* vo_osdscaler.c); what is copied of a frame is a part of it and not      *)
(* empty, also where the lines were found on frames that came before; when *)
(* the detection is switched on with a crop active, from the end of that   *)
(* crop on (autocrop_draw() in xine_post_autocrop.c); a hidden OSD shows   *)
(* nothing (hud_osd_hide() in xine_sxfe_frontend.c); and what the frontend *)
(* owns of the engine is disposed of once and before what it needs         *)
(* (xine_frontend.c).                                                      *)
THEOREM OutputIsKept == Spec => []OutputKept
<1> DEFINE IInv == OsdInv /\ CropInv /\ Framed(crop, ahead, shown, switched) /\ HudInv /\ EngineInv
<1>1. Init => IInv
  BY OsdInvInit, CropInvInit, FramedInit, HudInvInit, EngineInvInit DEF Init
<1>2. IInv /\ [Next]_vars => IInv'
  BY OsdInvNext, CropInvNext, FramedNext, HudInvNext, EngineInvNext
<1>3. IInv => OutputKept
  BY OsdInvKept, FramedWithin, HudInvKept, EngineInvKept DEF OutputKept
<1> QED
  BY <1>1, <1>2, <1>3, PTL DEF Spec
=============================================================================
