--------------------------- MODULE PlaybackProofs ---------------------------
(***************************************************************************)
(* Proofs about what plays and shows media in the VDR process: the pace of *)
(* the transmitter, the file streamer, the player's controls and its list; *)
(* the device, the stack of OSDs and the windows of the local frontend.    *)
(* Each has an invariant of its own, kept by its own steps, and by those   *)
(* of the other components, which leave its variables alone.               *)
(***************************************************************************)
EXTENDS MCServerComponents, SxfeWindow, FiniteSetTheorems, SequenceTheorems, TLAPS

-----------------------------------------------------------------------------
(* The pace of the transmitter.  A frame is only held back when it is due   *)
(* soon; while it waits, the clock is set, in two halves, to what it shows. *)

PaceInv ==
  /\ clk \in [begin : Nat, elapsed : Int, paused : BOOLEAN, mult : Int]
  /\ pace \in [video : 0 .. PtsWrap - 1, audio : 0 .. PtsWrap - 1, pcr : 0 .. PtsWrap - 1,
               m_TrickSpeed : BOOLEAN]
  /\ setter \in Int
  /\ hold \in [waits : BOOLEAN, SendTime : 0 .. PtsWrap - 1, plain : BOOLEAN]
  \* half set, the clock has its new begin already
  /\ hold.waits /\ hold.plain =>
       hold.SendTime - (IF setter = 0 THEN Pacer!Now(clk) ELSE clk.begin) <= JumpLimit
  \* only a clock that was set ahead while it was paused can be behind the wrap
  /\ hold.waits /\ hold.plain /\ (clk.paused \/ setter # 0) => clk.begin \in 0 .. PtsWrap - 1

LEMMA PaceInvInit == Pacer!PacerInit => PaceInv
  BY PacerAssumption DEF Pacer!PacerInit, Pacer!NoFrame, PaceInv, Pacer!Now

LEMMA NowInts ==
  ASSUME NEW c \in [begin : Nat, elapsed : Int, paused : BOOLEAN, mult : Int]
  PROVE  /\ Pacer!Now(c) \in Nat
         /\ ~c.paused => Pacer!Now(c) \in 0 .. PtsWrap - 1
         /\ c.elapsed = 0 /\ c.begin \in 0 .. PtsWrap - 1 => Pacer!Now(c) = c.begin
<1>1. (c.elapsed * c.mult) \in Int
  OBVIOUS
<1> DEFINE p == c.elapsed * c.mult
<1>2. c.elapsed = 0 => p = 0
  OBVIOUS
<1> HIDE DEF p
<1>3. p \in Int
  BY <1>1 DEF p
<1>4. p \div 2 \in Int /\ (p = 0 => p \div 2 = 0)
  BY <1>3
<1> DEFINE d == p \div 2
<1> HIDE DEF d
<1>5. d \in Int /\ (p = 0 => d = 0)
  BY <1>4 DEF d
<1>6. Pacer!Now(c) = IF c.paused THEN c.begin ELSE (c.begin + d) % PtsWrap
  BY DEF Pacer!Now, d, p
<1>7. c.begin \in Int
  OBVIOUS
<1>8. (c.begin + d) % PtsWrap \in 0 .. PtsWrap - 1
  BY <1>5, <1>7, PacerAssumption
<1>9. c.begin \in 0 .. PtsWrap - 1 => c.begin % PtsWrap = c.begin
  BY PacerAssumption
<1>10. c.begin \in 0 .. PtsWrap - 1 /\ d = 0 => (c.begin + d) % PtsWrap = c.begin
  BY <1>9
<1> QED
  BY <1>2, <1>5, <1>6, <1>7, <1>8, <1>10, PacerAssumption

LEMMA TickKeeps == PaceInv /\ Pacer!Tick => PaceInv'
<1> SUFFICES ASSUME PaceInv, Pacer!Tick PROVE PaceInv'
  OBVIOUS
<1> PICK c : c = [clk EXCEPT !.elapsed = @ + 1]
  OBVIOUS
<1>1. /\ c \in [begin : Nat, elapsed : Int, paused : BOOLEAN, mult : Int]
      /\ c.begin = clk.begin /\ c.paused = clk.paused
  BY DEF PaceInv
<1>2. Pacer!Now(c) \in Int /\ Pacer!Now(clk) \in Int
  BY <1>1, NowInts DEF PaceInv
<1>3. clk' = c /\ setter' = setter /\ pace' = pace /\ setter = 0
  BY DEF Pacer!Tick
<1>4. hold' = [hold EXCEPT !.plain = @ /\ Pacer!Now(c) >= Pacer!Now(clk)]
  BY <1>3 DEF Pacer!Tick
<1>5. /\ hold' \in [waits : BOOLEAN, SendTime : 0 .. PtsWrap - 1, plain : BOOLEAN]
      /\ hold'.waits = hold.waits /\ hold'.SendTime = hold.SendTime
      /\ hold'.plain <=> hold.plain /\ Pacer!Now(c) >= Pacer!Now(clk)
  BY <1>4 DEF PaceInv
<1>6. hold'.waits /\ hold'.plain => hold.SendTime - Pacer!Now(c) <= JumpLimit
  BY <1>5, <1>2, <1>3, PacerAssumption DEF PaceInv
<1>7. Pacer!Now(c) = (IF setter' = 0 THEN Pacer!Now(clk)' ELSE clk'.begin)
  BY <1>3 DEF Pacer!Now
<1> QED
  BY <1>1, <1>3, <1>5, <1>6, <1>7 DEF PaceInv

LEMMA SpeedBeginKeeps == PaceInv /\ Pacer!SpeedBegin => PaceInv'
<1> SUFFICES ASSUME PaceInv, Pacer!SpeedBegin PROVE PaceInv'
  OBVIOUS
<1>0. clk \in [begin : Nat, elapsed : Int, paused : BOOLEAN, mult : Int]
  BY DEF PaceInv
<1>1. /\ setter' \in Int /\ setter' # 0 /\ hold' = hold
      /\ pace' \in [video : 0 .. PtsWrap - 1, audio : 0 .. PtsWrap - 1, pcr : 0 .. PtsWrap - 1,
                    m_TrickSpeed : BOOLEAN]
  <2>1. setter' \in Multipliers \cup {-1} /\ hold' = hold
    BY DEF Pacer!SpeedBegin, Pacer!Pause
  <2>2. pace' = [pace EXCEPT !.m_TrickSpeed = FALSE]
    BY DEF Pacer!SpeedBegin
  <2>3. setter' \in Int /\ setter' # 0
    BY <2>1, PacerAssumption
  <2> QED
    BY <2>1, <2>2, <2>3 DEF PaceInv
<1>2. Pacer!Now(clk) \in Nat /\ (~clk.paused => Pacer!Now(clk) \in 0 .. PtsWrap - 1)
  BY <1>0, NowInts
<1>3. clk.paused => Pacer!Now(clk) = clk.begin
  BY DEF Pacer!Now
<1>4. CASE setter' = Pacer!Pause
  <2>1. clk' = [clk EXCEPT !.begin = Pacer!Now(clk)]
    BY <1>4 DEF Pacer!SpeedBegin
  <2>2. /\ clk' \in [begin : Nat, elapsed : Int, paused : BOOLEAN, mult : Int]
        /\ clk'.begin = Pacer!Now(clk)
    BY <2>1, <1>0, <1>2
  <2>3. setter = 0
    BY DEF Pacer!SpeedBegin
  <2> QED
    BY <2>2, <2>3, <1>1, <1>2, <1>3 DEF PaceInv
<1>5. CASE setter' # Pacer!Pause
  <2> DEFINE h == Pacer!Halted(clk)
  <2>1. clk' = [h EXCEPT !.begin = Pacer!Now(h)]
    BY <1>5 DEF Pacer!SpeedBegin, Pacer!Begun
  <2>2. /\ h \in [begin : Nat, elapsed : Int, paused : BOOLEAN, mult : Int]
        /\ ~h.paused /\ h.begin = clk.begin
        /\ clk.paused => h.elapsed = 0
        /\ ~clk.paused => h = clk
    <3>1. CASE clk.paused
      <4>0. clk = [clk EXCEPT !.begin = clk.begin]
        BY <1>0
      <4> DEFINE h1 == [clk EXCEPT !.elapsed = 0]
      <4>1. h = [h1 EXCEPT !.paused = FALSE]
        BY <4>0, <3>1, <1>0 DEF Pacer!Halted, Pacer!SetTo
      <4>2. /\ h1 \in [begin : Nat, elapsed : Int, paused : BOOLEAN, mult : Int]
            /\ h1.begin = clk.begin /\ h1.elapsed = 0
        BY <1>0
      <4> HIDE DEF h1, h
      <4> QED
        BY <4>1, <4>2, <3>1
    <3>2. CASE ~clk.paused
      BY <3>2, <1>0 DEF Pacer!Halted
    <3> QED
      BY <3>1, <3>2
  <2> HIDE DEF h
  <2>3. /\ Pacer!Now(h) \in 0 .. PtsWrap - 1
        /\ clk.paused /\ clk.begin \in 0 .. PtsWrap - 1 => Pacer!Now(h) = clk.begin
    BY <2>2, NowInts
  <2>4. /\ clk' \in [begin : Nat, elapsed : Int, paused : BOOLEAN, mult : Int]
        /\ clk'.begin = Pacer!Now(h)
    BY <2>1, <2>2, <2>3
  <2>5. setter = 0
    BY DEF Pacer!SpeedBegin
  <2>6. hold.waits /\ hold.plain => Pacer!Now(h) = Pacer!Now(clk)
    BY <2>2, <2>3, <1>3 DEF PaceInv
  <2> QED
    BY <2>3, <2>4, <2>5, <2>6, <1>1 DEF PaceInv
<1> QED
  BY <1>4, <1>5

LEMMA SpeedSetKeeps == PaceInv /\ Pacer!SpeedSet => PaceInv'
<1> SUFFICES ASSUME PaceInv, Pacer!SpeedSet PROVE PaceInv'
  OBVIOUS
<1>1. /\ setter # 0 /\ setter' = 0 /\ hold' = hold
      /\ pace' \in [video : 0 .. PtsWrap - 1, audio : 0 .. PtsWrap - 1, pcr : 0 .. PtsWrap - 1,
                    m_TrickSpeed : BOOLEAN]
  BY DEF Pacer!SpeedSet, PaceInv
<1> PICK c : c = [clk EXCEPT !.elapsed = 0, !.paused = setter = Pacer!Pause,
                             !.mult = IF setter = Pacer!Pause THEN @ ELSE setter]
  OBVIOUS
<1>2. clk' = c
  BY DEF Pacer!SpeedSet
<1>3. /\ c \in [begin : Nat, elapsed : Int, paused : BOOLEAN, mult : Int]
      /\ c.begin = clk.begin /\ c.elapsed = 0
  <2> PICK m \in Int : m = IF setter = Pacer!Pause THEN clk.mult ELSE setter
    BY DEF PaceInv
  <2> PICK b \in BOOLEAN : b = (setter = Pacer!Pause)
    OBVIOUS
  <2> DEFINE c1 == [clk EXCEPT !.elapsed = 0]
             c2 == [c1 EXCEPT !.paused = b]
  <2>1. c = [c2 EXCEPT !.mult = m]
    BY DEF PaceInv
  <2>2. /\ c1 \in [begin : Nat, elapsed : Int, paused : BOOLEAN, mult : Int]
        /\ c1.begin = clk.begin /\ c1.elapsed = 0
    BY DEF PaceInv
  <2> HIDE DEF c1
  <2>3. /\ c2 \in [begin : Nat, elapsed : Int, paused : BOOLEAN, mult : Int]
        /\ c2.begin = clk.begin /\ c2.elapsed = 0
    BY <2>2
  <2> HIDE DEF c2
  <2> QED
    BY <2>1, <2>3
<1>4. c.begin \in 0 .. PtsWrap - 1 => Pacer!Now(c) = c.begin
  BY <1>3, NowInts
<1>5. Pacer!Now(clk)' = Pacer!Now(c)
  BY <1>2 DEF Pacer!Now
<1> QED
  BY <1>1, <1>2, <1>3, <1>4, <1>5 DEF PaceInv

LEMMA ScheduleKeeps == PaceInv /\ Pacer!Schedule => PaceInv'
<1> SUFFICES ASSUME PaceInv, Pacer!Schedule PROVE PaceInv'
  OBVIOUS
<1> PICK kind \in FrameKinds, pts \in Stamps :
      LET SendTime == Pacer!Followed(kind, pts)[kind]
          now == Pacer!Now(clk)
          off == now - SendTime > JumpLimit \/ SendTime - now > JumpLimit
      IN /\ pace' = Pacer!Followed(kind, pts)
         /\ IF Pacer!SetsClock(kind, pts) \/ (Pacer!Elapses(kind, pts) /\ off)
            THEN clk' = Pacer!SetTo(clk, SendTime + Burst) /\ UNCHANGED hold
            ELSE /\ UNCHANGED clk
                 /\ hold' = IF Pacer!Elapses(kind, pts) /\ SendTime - now >= MinDelay
                            THEN [waits |-> TRUE, SendTime |-> SendTime, plain |-> setter = 0]
                            ELSE hold
  BY DEF Pacer!Schedule
<1> DEFINE SendTime == pace'[kind]
           now == Pacer!Now(clk)
<1>1. ~hold.waits /\ setter' = setter
  BY DEF Pacer!Schedule
<1>2. pace' \in [video : 0 .. PtsWrap - 1, audio : 0 .. PtsWrap - 1, pcr : 0 .. PtsWrap - 1,
                 m_TrickSpeed : BOOLEAN]
  BY PacerAssumption DEF Pacer!Followed, PaceInv
<1>3. SendTime \in 0 .. PtsWrap - 1
  BY <1>2, PacerAssumption
<1>4. CASE clk' = Pacer!SetTo(clk, SendTime + Burst) /\ UNCHANGED hold
  <2>1. clk' \in [begin : Nat, elapsed : Int, paused : BOOLEAN, mult : Int]
    <3> PICK t \in Nat : t = SendTime + Burst
      BY <1>3, PacerAssumption
    <3> DEFINE c1 == [clk EXCEPT !.begin = t]
    <3>1. clk' = [c1 EXCEPT !.elapsed = 0]
      BY <1>4 DEF Pacer!SetTo, PaceInv
    <3>2. c1 \in [begin : Nat, elapsed : Int, paused : BOOLEAN, mult : Int]
      BY DEF PaceInv
    <3> HIDE DEF c1
    <3> QED
      BY <3>1, <3>2
  <2> QED
    BY <2>1, <1>1, <1>2, <1>4 DEF PaceInv
<1>5. CASE /\ UNCHANGED clk /\ Pacer!Elapses(kind, pts)
           /\ hold' = [waits |-> TRUE, SendTime |-> SendTime, plain |-> setter = 0]
           /\ SendTime - now >= MinDelay /\ ~(SendTime - now > JumpLimit)
  <2>1. now \in Int /\ (~clk.paused => now \in 0 .. PtsWrap - 1) /\ (clk.paused => now = clk.begin)
    BY NowInts DEF PaceInv, Pacer!Now
  <2>2. Pacer!Now(clk)' = now
    BY <1>5 DEF Pacer!Now
  <2>3. /\ hold' \in [waits : BOOLEAN, SendTime : 0 .. PtsWrap - 1, plain : BOOLEAN]
        /\ hold'.SendTime = SendTime /\ (hold'.plain <=> setter = 0)
    BY <1>5, <1>3
  <2>4. SendTime - now <= JumpLimit
    BY <2>1, <1>3, <1>5, PacerAssumption
  <2>5. clk.paused => clk.begin \in 0 .. PtsWrap - 1
    BY <2>1, <1>3, <1>5, PacerAssumption DEF PaceInv
  <2>6. clk' = clk
    BY <1>5
  <2> QED
    BY <2>2, <2>3, <2>4, <2>5, <2>6, <1>1, <1>2 DEF PaceInv
<1>6. CASE UNCHANGED clk /\ UNCHANGED hold
  BY <1>6, <1>1, <1>2 DEF PaceInv
<1> QED
  BY <1>4, <1>5, <1>6

LEMMA DueKeeps == PaceInv /\ Pacer!Due => PaceInv'
  BY PacerAssumption DEF PaceInv, Pacer!Due, Pacer!NoFrame, Pacer!Now

LEMMA PaceInvNext == PaceInv /\ [Next]_vars => PaceInv'
<1>1. PaceInv /\ UNCHANGED pacerVars => PaceInv'
  BY DEF PaceInv, pacerVars, Pacer!Now
<1>2. [Next]_vars => Pacer!PacerNext \/ UNCHANGED pacerVars
  BY DEF Next, Step, OthersStay, Stopped, vars
<1> QED
  BY <1>1, <1>2, TickKeeps, SpeedBeginKeeps, SpeedSetKeeps, ScheduleKeeps, DueKeeps
     DEF Pacer!PacerNext

LEMMA PaceInvHeld == PaceInv => Pacer!HeldWithinLimit
<1> SUFFICES ASSUME PaceInv PROVE Pacer!HeldWithinLimit
  OBVIOUS
<1>1. Pacer!Now(clk) \in Int
  BY NowInts DEF PaceInv
<1> QED
  BY <1>1 DEF PaceInv, Pacer!HeldWithinLimit

-----------------------------------------------------------------------------
(* The HTTP streamer.  While it sends the first reply's body, it is as far  *)
(* in the file as it has sent bytes behind the start of the range.          *)

HttpFields == [at : {"request", "send", "wait", "close", "finished"},
               m_Start : 0 .. FileSize, m_End : -1 .. FileSize, m_KeepOpen : BOOLEAN,
               open : BOOLEAN, start : Nat, replies : 0 .. 2, length : Int, sent : Nat, wait : Int]

HttpInv ==
  /\ http \in HttpFields
  /\ http.at \in {"send", "wait"} => http.replies > 0
  /\ http.at \in {"send", "wait"} /\ http.replies = 1 =>
       /\ http.start = http.m_Start + http.sent /\ http.start <= FileSize
       /\ http.length = (IF http.m_End >= 0 THEN http.m_End + 1 ELSE FileSize) - http.m_Start
       /\ Streamer!ProperRange => http.sent <= http.length
       /\ Streamer!ProperRange /\ http.at = "wait" => http.sent = http.length

NewRequest == [at |-> "request", m_Start |-> 0, m_End |-> -1, m_KeepOpen |-> TRUE, open |-> FALSE,
               start |-> 0, replies |-> 0, length |-> 0, sent |-> 0, wait |-> 0]

LEMMA NewRequestInv == http = NewRequest => HttpInv
  BY StreamerAssumption DEF NewRequest, HttpInv, HttpFields

LEMMA NewRequestNext == http' = NewRequest => HttpInv'
  BY StreamerAssumption DEF NewRequest, HttpInv, HttpFields

LEMMA ParsedFields ==
  ASSUME NEW h \in HttpFields, NEW range \in Streamer!RangeHeaders, NEW keep \in BOOLEAN
  PROVE  /\ Streamer!Parsed(h, range, keep) \in HttpFields
         /\ Streamer!Parsed(h, range, keep).replies = h.replies
<1>1. CASE range = <<>>
  <2>1. Streamer!Parsed(h, range, keep) = [h EXCEPT !.m_KeepOpen = keep]
    BY <1>1 DEF Streamer!Parsed
  <2> QED
    BY <2>1 DEF HttpFields
<1>2. CASE range # <<>>
  <2>1. PICK r \in Streamer!Ranges : range = <<r>>
    BY <1>2 DEF Streamer!RangeHeaders
  <2> DEFINE h1 == [h EXCEPT !.m_Start = r.from]
             h2 == [h1 EXCEPT !.m_End = r.to]
  <2>2. Streamer!Parsed(h, range, keep) = [h2 EXCEPT !.m_KeepOpen = keep]
    BY <1>2, <2>1 DEF Streamer!Parsed, HttpFields
  <2>3. r.from \in 0 .. FileSize /\ r.to \in -1 .. FileSize
    BY DEF Streamer!Ranges
  <2>4. h1 \in HttpFields /\ h1.replies = h.replies
    BY <2>3 DEF HttpFields
  <2> HIDE DEF h1
  <2>5. h2 \in HttpFields /\ h2.replies = h.replies
    BY <2>3, <2>4 DEF HttpFields
  <2> HIDE DEF h2
  <2> QED
    BY <2>2, <2>5 DEF HttpFields
<1> QED
  BY <1>1, <1>2

(* Seek() and the reply's header.                                           *)
LEMMA RepliedFields ==
  ASSUME NEW h \in HttpFields, Streamer!Satisfiable(h)
  PROVE  LET r == Streamer!Replied(h)
         IN  /\ r \in HttpFields
             /\ r.replies = IF h.replies < 2 THEN h.replies + 1 ELSE h.replies
             /\ r.sent = 0 /\ r.m_Start = h.m_Start /\ r.at = h.at /\ r.m_KeepOpen = h.m_KeepOpen
             /\ r.length = (IF r.m_End >= 0 THEN r.m_End + 1 ELSE FileSize) - r.m_Start
<1> PICK e \in Int : e = IF h.m_Start > 0 /\ (h.m_End >= FileSize \/ h.m_End < 0)
                         THEN FileSize - 1 ELSE h.m_End
  BY StreamerAssumption DEF HttpFields
<1> PICK k \in Int : k = (IF e >= 0 THEN e + 1 ELSE FileSize) - h.m_Start
  BY StreamerAssumption DEF HttpFields
<1> PICK n \in 0 .. 2 : n = IF h.replies < 2 THEN h.replies + 1 ELSE h.replies
  BY DEF HttpFields
<1> DEFINE h1 == [h EXCEPT !.m_End = e]
           h2 == [h1 EXCEPT !.open = TRUE]
           h3 == [h2 EXCEPT !.replies = n]
           h4 == [h3 EXCEPT !.length = k]
           r == [h4 EXCEPT !.sent = 0]
           Same(x, y) == x.m_Start = y.m_Start /\ x.at = y.at /\ x.m_KeepOpen = y.m_KeepOpen
<1>1. Streamer!Replied(h) = r
  BY DEF Streamer!Replied, HttpFields
<1>2. e \in -1 .. FileSize
  BY StreamerAssumption DEF HttpFields, Streamer!Satisfiable
<1>3. h1 \in HttpFields /\ h1.m_End = e /\ Same(h1, h)
  BY <1>2 DEF HttpFields
<1> HIDE DEF h1
<1>4. h2 \in HttpFields /\ h2.m_End = e /\ Same(h2, h)
  BY <1>3 DEF HttpFields
<1> HIDE DEF h2
<1>5. h3 \in HttpFields /\ h3.m_End = e /\ h3.replies = n /\ Same(h3, h)
  BY <1>4 DEF HttpFields
<1> HIDE DEF h3
<1>6. h4 \in HttpFields /\ h4.m_End = e /\ h4.replies = n /\ h4.length = k /\ Same(h4, h)
  BY <1>5 DEF HttpFields
<1> HIDE DEF h4
<1>7. /\ r \in HttpFields /\ r.m_End = e /\ r.replies = n /\ r.length = k /\ r.sent = 0
      /\ Same(r, h)
  BY <1>6 DEF HttpFields
<1> HIDE DEF r
<1> QED
  BY <1>1, <1>7

LEMMA FirstRequestKeeps == HttpInv /\ Streamer!FirstRequest => HttpInv'
<1> SUFFICES ASSUME HttpInv, Streamer!FirstRequest PROVE HttpInv'
  OBVIOUS
<1>1. PICK range \in Streamer!RangeHeaders, keep \in BOOLEAN :
        LET h == Streamer!Parsed(http, range, keep)
        IN  http' = IF Streamer!Satisfiable(h)
                    THEN [Streamer!Replied(h) EXCEPT !.at = "send", !.start = h.m_Start]
                    ELSE [h EXCEPT !.at = "close"]
  BY DEF Streamer!FirstRequest
<1> PICK h : h = Streamer!Parsed(http, range, keep)
  OBVIOUS
<1>2. h \in HttpFields /\ h.replies = http.replies
  BY ParsedFields DEF HttpInv
<1>3. CASE ~Streamer!Satisfiable(h)
  <2>1. http' = [h EXCEPT !.at = "close"]
    BY <1>1, <1>3
  <2> QED
    BY <2>1, <1>2 DEF HttpInv, HttpFields
<1>4. CASE Streamer!Satisfiable(h)
  <2> PICK r : r = Streamer!Replied(h)
    OBVIOUS
  <2>1. /\ r \in HttpFields /\ r.replies = IF h.replies < 2 THEN h.replies + 1 ELSE h.replies
        /\ r.sent = 0 /\ r.m_Start = h.m_Start
        /\ r.length = (IF r.m_End >= 0 THEN r.m_End + 1 ELSE FileSize) - r.m_Start
    BY <1>2, <1>4, RepliedFields
  <2>2. h.m_Start \in 0 .. FileSize
    BY <1>2 DEF HttpFields
  <2> PICK s \in 0 .. FileSize : s = h.m_Start
    BY <2>2
  <2> DEFINE r1 == [r EXCEPT !.at = "send"]
  <2>3. http' = [r1 EXCEPT !.start = s]
    BY <1>1, <1>4, <2>1 DEF HttpFields
  <2>4. /\ r1 \in HttpFields /\ r1.replies = r.replies /\ r1.sent = 0 /\ r1.m_Start = s
        /\ r1.m_End = r.m_End /\ r1.length = r.length /\ r1.at = "send"
    BY <2>1 DEF HttpFields
  <2> HIDE DEF r1
  <2>5. /\ http' \in HttpFields /\ http'.replies = r.replies /\ http'.sent = 0
        /\ http'.m_Start = s /\ http'.start = s
        /\ http'.m_End = r.m_End /\ http'.length = r.length /\ http'.at = "send"
    BY <2>3, <2>4 DEF HttpFields
  <2>6. h.replies \in 0 .. 2 /\ r.m_End \in -1 .. FileSize
    BY <1>2, <2>1 DEF HttpFields
  <2> QED
    BY <2>1, <2>5, <2>6, StreamerAssumption DEF HttpInv, Streamer!ProperRange
<1> QED
  BY <1>3, <1>4

LEMMA SendSomeKeeps == HttpInv /\ Streamer!SendSome => HttpInv'
<1> SUFFICES ASSUME HttpInv, Streamer!SendSome PROVE HttpInv'
  OBVIOUS
<1>0. http \in HttpFields /\ http.at = "send" /\ Streamer!Left > 0
  BY DEF HttpInv, Streamer!SendSome
<1>1. ASSUME NEW n \in 1 .. Streamer!Left, http.start + n <= FileSize,
             http' = [http EXCEPT !.start = @ + n, !.sent = @ + n]
      PROVE  HttpInv'
  <2>1. /\ http.start \in Nat /\ http.sent \in Nat /\ http.m_Start \in 0 .. FileSize
        /\ http.m_End \in -1 .. FileSize
    BY <1>0 DEF HttpFields
  <2>2. Streamer!Left \in Int /\ n \in Nat /\ n <= Streamer!Left
    BY <2>1, <1>0, StreamerAssumption DEF Streamer!Left
  <2> PICK a \in Nat : a = http.start + n
    BY <2>1, <2>2
  <2> PICK b \in Nat : b = http.sent + n
    BY <2>1, <2>2
  <2> DEFINE h1 == [http EXCEPT !.start = a]
  <2>3. http' = [h1 EXCEPT !.sent = b]
    BY <1>1, <1>0 DEF HttpFields
  <2>4. /\ h1 \in HttpFields /\ h1.start = a /\ h1.at = "send" /\ h1.replies = http.replies
        /\ h1.m_Start = http.m_Start /\ h1.m_End = http.m_End /\ h1.length = http.length
    BY <1>0 DEF HttpFields
  <2> HIDE DEF h1
  <2>5. /\ http' \in HttpFields /\ http'.start = a /\ http'.sent = b /\ http'.at = "send"
        /\ http'.replies = http.replies
        /\ http'.m_Start = http.m_Start /\ http'.m_End = http.m_End /\ http'.length = http.length
    BY <2>3, <2>4 DEF HttpFields
  <2>6. CASE http.replies = 1
    <3>1. /\ http.start = http.m_Start + http.sent
          /\ http.length = (IF http.m_End >= 0 THEN http.m_End + 1 ELSE FileSize) - http.m_Start
      BY <2>6, <1>0 DEF HttpInv
    <3>2. a = http.m_Start + b /\ a <= FileSize
      BY <3>1, <2>1, <2>2, <1>1
    <3>3. http.m_End = -1 => b <= FileSize - http.m_Start
      BY <3>2, <2>1, StreamerAssumption
    <3>4. http.m_End > 0 => b <= http.m_End + 1 - http.m_Start
      BY <3>2, <2>1, <2>2, StreamerAssumption DEF Streamer!Left
    <3>5. Streamer!ProperRange' => b <= http.length
      BY <2>5, <3>1, <3>3, <3>4, <2>1 DEF Streamer!ProperRange
    <3> QED
      BY <2>5, <2>6, <3>1, <3>2, <3>5 DEF HttpInv
  <2> QED
    BY <2>5, <2>6, <1>0 DEF HttpInv
<1>2. CASE http' = [http EXCEPT !.at = "close"]
  BY <1>0, <1>2 DEF HttpInv, HttpFields
<1> QED
  BY <1>1, <1>2 DEF Streamer!SendSome

LEMMA RangeDoneKeeps == HttpInv /\ Streamer!RangeDone => HttpInv'
<1> SUFFICES ASSUME HttpInv, Streamer!RangeDone PROVE HttpInv'
  OBVIOUS
<1>0. http \in HttpFields /\ http.at = "send" /\ Streamer!Left <= 0
  BY DEF HttpInv, Streamer!RangeDone
<1>1. CASE http' = [http EXCEPT !.at = "close"]
  BY <1>0, <1>1 DEF HttpInv, HttpFields
<1>2. CASE http' = [http EXCEPT !.at = "wait", !.wait = WaitSeconds]
  <2>1. /\ http.start \in Nat /\ http.sent \in Nat /\ http.m_Start \in 0 .. FileSize
        /\ http.m_End \in -1 .. FileSize /\ http.length \in Int
    BY <1>0 DEF HttpFields
  <2> DEFINE h1 == [http EXCEPT !.at = "wait"]
  <2>2. http' = [h1 EXCEPT !.wait = WaitSeconds]
    BY <1>2, <1>0 DEF HttpFields
  <2>3. /\ h1 \in HttpFields /\ h1.at = "wait" /\ h1.replies = http.replies
        /\ h1.start = http.start /\ h1.sent = http.sent
        /\ h1.m_Start = http.m_Start /\ h1.m_End = http.m_End /\ h1.length = http.length
    BY <1>0 DEF HttpFields
  <2> HIDE DEF h1
  <2>4. /\ http' \in HttpFields /\ http'.at = "wait" /\ http'.replies = http.replies
        /\ http'.start = http.start /\ http'.sent = http.sent
        /\ http'.m_Start = http.m_Start /\ http'.m_End = http.m_End /\ http'.length = http.length
    BY <2>2, <2>3, StreamerAssumption DEF HttpFields
  <2>5. http.replies = 1 /\ Streamer!ProperRange => http.sent = http.length
    BY <1>0, <2>1, StreamerAssumption DEF HttpInv, Streamer!ProperRange, Streamer!Left
  <2> QED
    BY <2>4, <2>5, <1>0 DEF HttpInv, Streamer!ProperRange
<1> QED
  BY <1>1, <1>2 DEF Streamer!RangeDone

(* One turn of the waiting loop.                                            *)
LEMMA CountedFields ==
  ASSUME NEW h \in HttpFields
  PROVE  LET c == Streamer!Counted(h)
         IN  /\ c \in HttpFields /\ c.at \in {h.at, "close"} /\ c.replies = h.replies
             /\ c.start = h.start /\ c.sent = h.sent /\ c.m_Start = h.m_Start
             /\ c.m_End = h.m_End /\ c.length = h.length
<1>1. CASE h.wait # 1
  <2>1. Streamer!Counted(h) = [h EXCEPT !.wait = h.wait - 1]
    BY <1>1 DEF Streamer!Counted, HttpFields
  <2>2. h.wait - 1 \in Int
    BY DEF HttpFields
  <2> QED
    BY <2>1, <2>2 DEF HttpFields
<1>2. CASE h.wait = 1
  <2> DEFINE h1 == [h EXCEPT !.at = "close"]
  <2>1. Streamer!Counted(h) = [h1 EXCEPT !.wait = 0]
    BY <1>2 DEF Streamer!Counted, HttpFields
  <2>2. /\ h1 \in HttpFields /\ h1.at = "close" /\ h1.replies = h.replies
        /\ h1.start = h.start /\ h1.sent = h.sent /\ h1.m_Start = h.m_Start
        /\ h1.m_End = h.m_End /\ h1.length = h.length
    BY DEF HttpFields
  <2> HIDE DEF h1
  <2> QED
    BY <2>1, <2>2 DEF HttpFields
<1> QED
  BY <1>1, <1>2

LEMMA WaitSecondKeeps == HttpInv /\ Streamer!WaitSecond => HttpInv'
<1> SUFFICES ASSUME HttpInv, Streamer!WaitSecond PROVE HttpInv'
  OBVIOUS
<1>1. /\ http' \in HttpFields /\ http'.at \in {http.at, "close"} /\ http'.replies = http.replies
      /\ http'.start = http.start /\ http'.sent = http.sent /\ http'.m_Start = http.m_Start
      /\ http'.m_End = http.m_End /\ http'.length = http.length
  BY CountedFields DEF HttpInv, Streamer!WaitSecond
<1> QED
  BY <1>1 DEF HttpInv, Streamer!ProperRange

LEMMA PipelinedRequestKeeps == HttpInv /\ Streamer!PipelinedRequest => HttpInv'
<1> SUFFICES ASSUME HttpInv, Streamer!PipelinedRequest PROVE HttpInv'
  OBVIOUS
<1>1. PICK range \in Streamer!RangeHeaders, keep \in BOOLEAN :
        LET h == Streamer!Parsed(http, range, keep)
        IN  http' = IF Streamer!Satisfiable(h) THEN Streamer!Counted(Streamer!Replied(h))
                    ELSE [h EXCEPT !.at = "close"]
  BY DEF Streamer!PipelinedRequest
<1> PICK h : h = Streamer!Parsed(http, range, keep)
  OBVIOUS
<1>2. h \in HttpFields /\ h.replies = http.replies
  BY ParsedFields DEF HttpInv
<1>3. http.replies \in {1, 2}
  BY DEF HttpInv, HttpFields, Streamer!PipelinedRequest
<1>4. CASE ~Streamer!Satisfiable(h)
  <2>1. http' = [h EXCEPT !.at = "close"]
    BY <1>1, <1>4
  <2> QED
    BY <2>1, <1>2 DEF HttpInv, HttpFields
<1>5. CASE Streamer!Satisfiable(h)
  <2> PICK r : r = Streamer!Replied(h)
    OBVIOUS
  <2>1. r \in HttpFields /\ r.replies = 2
    BY <1>2, <1>3, <1>5, RepliedFields
  <2>2. http' = Streamer!Counted(r)
    BY <1>1, <1>5
  <2>3. http' \in HttpFields /\ http'.replies = 2
    BY <2>1, <2>2, CountedFields
  <2> QED
    BY <2>3 DEF HttpInv
<1> QED
  BY <1>4, <1>5

LEMMA HttpInvNext == HttpInv /\ [Next]_vars => HttpInv'
<1> SUFFICES ASSUME HttpInv, [Next]_vars PROVE HttpInv'
  OBVIOUS
<1>1. CASE http' = http
  BY <1>1 DEF HttpInv, Streamer!ProperRange
<1>2. CASE Streamer!HttpGone
  BY <1>2 DEF HttpInv, HttpFields, Streamer!HttpGone
<1>3. CASE Streamer!CloseFiles
  <2> DEFINE h1 == [http EXCEPT !.at = "finished"]
  <2>1. http' = [h1 EXCEPT !.open = FALSE]
    BY <1>3 DEF HttpInv, HttpFields, Streamer!CloseFiles
  <2>2. h1 \in HttpFields /\ h1.at = "finished"
    BY DEF HttpInv, HttpFields
  <2> HIDE DEF h1
  <2>3. http' \in HttpFields /\ http'.at = "finished"
    BY <2>1, <2>2 DEF HttpFields
  <2> QED
    BY <2>3 DEF HttpInv
<1>4. CASE Streamer!NextStreamer
  BY <1>4, NewRequestNext DEF Streamer!NextStreamer, NewRequest
<1>5. Streamer!HttpNext \/ http' = http
  BY DEF Next, Step, OthersStay, Stopped, vars, streamerVars
<1>6. Streamer!OtherEnds => http' = http
  BY DEF Streamer!OtherEnds
<1> QED
  BY <1>1, <1>2, <1>3, <1>4, <1>5, <1>6, FirstRequestKeeps, SendSomeKeeps, RangeDoneKeeps,
     WaitSecondKeeps, PipelinedRequestKeeps DEF Streamer!HttpNext

LEMMA HttpInvAnnounced == HttpInv => Streamer!BodyAsAnnounced
  BY DEF HttpInv, Streamer!BodyAsAnnounced

LEMMA HttpInvInit == Streamer!HttpInit => HttpInv
  BY NewRequestInv DEF Streamer!HttpInit, NewRequest

-----------------------------------------------------------------------------
(* The player controls.  Every handler hides the display and the menus      *)
(* before it opens one, or opens none but the display, where Show() gives   *)
(* way to what is open.                                                     *)

Controls == [kind : Player!Kinds \cup {"Images", "none"}, speed : Int, replay : BOOLEAN,
             modeOnly : BOOLEAN, list : BOOLEAN, disc : BOOLEAN, autoShow : BOOLEAN,
             useResume : BOOLEAN, random : BOOLEAN]

Solo(c) == ~(c.replay /\ c.list) /\ ~(c.replay /\ c.disc) /\ ~(c.list /\ c.disc)

(* A control with at most one OSD, that of a disc only for a disc.          *)
ControlKept(c) == c \in Controls /\ Solo(c)

ControlInv == ControlKept(ctl)

LEMMA HideKeeps ==
  ASSUME NEW c \in Controls
  PROVE  /\ ControlKept(Player!Hide(c))
         /\ ~Player!Hide(c).replay /\ ~Player!Hide(c).list /\ ~Player!Hide(c).disc
         /\ Player!Hide(c).speed = c.speed
<1> DEFINE c1 == [c EXCEPT !.replay = FALSE]
           c2 == [c1 EXCEPT !.list = FALSE]
           c3 == [c2 EXCEPT !.disc = FALSE]
<1>1. Player!Hide(c) = c3
  BY DEF Player!Hide, Controls
<1>2. c1 \in Controls /\ ~c1.replay /\ c1.speed = c.speed
  BY DEF Controls
<1> HIDE DEF c1
<1>3. c2 \in Controls /\ ~c2.replay /\ ~c2.list /\ c2.speed = c.speed
  BY <1>2 DEF Controls
<1> HIDE DEF c2
<1>4. c3 \in Controls /\ ~c3.replay /\ ~c3.list /\ ~c3.disc /\ c3.speed = c.speed
  BY <1>3 DEF Controls
<1> QED
  BY <1>1, <1>4 DEF ControlKept, Solo

LEMMA ShowKeeps == ASSUME NEW c, ControlKept(c) PROVE ControlKept(Player!Show(c))
<1>1. CASE c.disc
  <2> DEFINE c1 == [c EXCEPT !.replay = FALSE]
  <2>1. Player!Show(c) = [c1 EXCEPT !.list = FALSE]
    BY <1>1 DEF Player!Show, ControlKept, Controls
  <2>2. c1 \in Controls /\ ~c1.replay
    BY DEF ControlKept, Controls
  <2> HIDE DEF c1
  <2> QED
    BY <2>1, <2>2 DEF ControlKept, Controls, Solo
<1>2. CASE ~c.disc /\ c.list /\ ~c.replay
  BY <1>2 DEF Player!Show
<1>3. CASE ~c.disc /\ ~(c.list /\ ~c.replay)
  <2>1. Player!Show(c) = [c EXCEPT !.replay = TRUE]
    BY <1>3 DEF Player!Show
  <2> QED
    BY <2>1, <1>3 DEF ControlKept, Controls, Solo
<1> QED
  BY <1>1, <1>2, <1>3

LEMMA SetSpeedKeeps ==
  ASSUME NEW c, ControlKept(c), NEW s PROVE ControlKept(Player!SetSpeed(c, s))
<1> PICK t \in Int : t = IF s \in Player!Speeds THEN s ELSE 1
  BY DEF Player!Speeds
<1>1. Player!SetSpeed(c, s) = [c EXCEPT !.speed = t]
  BY DEF Player!SetSpeed, ControlKept, Controls
<1> QED
  BY <1>1 DEF ControlKept, Controls, Solo

LEMMA FastKeeps ==
  ASSUME NEW c, ControlKept(c)
  PROVE  ControlKept(Player!FastFwd(c)) /\ ControlKept(Player!FastRew(c))
<1>1. /\ ControlKept(Player!SetSpeed(c, Player!Faster[c.speed]))
      /\ ControlKept(Player!SetSpeed(c, Player!Slower[c.speed]))
  BY SetSpeedKeeps
<1> QED
  BY <1>1, ShowKeeps, HideKeeps DEF Player!FastFwd, Player!FastRew, ControlKept

LEMMA NextShownKeeps == ASSUME NEW c, ControlKept(c) PROVE ControlKept(Player!NextShown(c))
  BY DEF Player!NextShown, ControlKept, Controls, Solo

LEMMA AutoShowKeeps ==
  ASSUME NEW c, ControlKept(c), NEW elapsed \in BOOLEAN
  PROVE  ControlKept(Player!AutoShow(c, elapsed))
<1> DEFINE t == IF c.replay /\ c.autoShow /\ elapsed
                THEN Player!Hide([c EXCEPT !.autoShow = FALSE]) ELSE c
<1>1. ControlKept([c EXCEPT !.autoShow = FALSE])
  BY DEF ControlKept, Controls, Solo
<1>2. ControlKept(Player!Hide([c EXCEPT !.autoShow = FALSE]))
  BY <1>1, HideKeeps DEF ControlKept
<1>3. ControlKept(t)
  BY <1>2
<1>4. Player!AutoShow(c, elapsed) = IF ~t.replay /\ t.autoShow
                                    THEN Player!Show([t EXCEPT !.modeOnly = FALSE]) ELSE t
  BY DEF Player!AutoShow
<1> HIDE DEF t
<1>5. ControlKept([t EXCEPT !.modeOnly = FALSE])
  BY <1>3 DEF ControlKept, Controls, Solo
<1>6. ControlKept(Player!Show([t EXCEPT !.modeOnly = FALSE]))
  BY <1>5, ShowKeeps
<1> QED
  BY <1>3, <1>4, <1>6

LEMMA PauseKeeps == ASSUME NEW c, ControlKept(c) PROVE ControlKept(Player!PauseKey(c))
<1>1. CASE c.speed # 0
  <2> DEFINE t == Player!SetSpeed(c, 0)
             u == [t EXCEPT !.modeOnly = IF c.replay THEN @ ELSE TRUE]
  <2>1. Player!PauseKey(c) = Player!Show(u)
    BY <1>1 DEF Player!PauseKey
  <2>2. ControlKept(t)
    BY SetSpeedKeeps
  <2> HIDE DEF t
  <2>3. ControlKept(u)
    <3>1. CASE c.replay
      <4>1. u = t
        BY <2>2, <3>1 DEF ControlKept, Controls
      <4> QED
        BY <2>2, <4>1
    <3>2. CASE ~c.replay
      <4>1. u = [t EXCEPT !.modeOnly = TRUE]
        BY <3>2
      <4> HIDE DEF u
      <4> QED
        BY <2>2, <4>1 DEF ControlKept, Controls, Solo
    <3> QED
      BY <3>1, <3>2
  <2> HIDE DEF u
  <2> QED
    BY <2>1, <2>3, ShowKeeps
<1>2. CASE c.speed = 0
  <2> DEFINE t == Player!SetSpeed(c, 1)
             u == IF t.modeOnly /\ t.replay THEN Player!Hide(t)
                  ELSE IF t.replay THEN Player!Show(t) ELSE t
  <2>1. Player!PauseKey(c) = [u EXCEPT !.modeOnly = FALSE]
    BY <1>2 DEF Player!PauseKey
  <2>2. ControlKept(t)
    BY SetSpeedKeeps
  <2> HIDE DEF t
  <2>3. ControlKept(u)
    BY <2>2, HideKeeps, ShowKeeps DEF ControlKept
  <2> HIDE DEF u
  <2> QED
    BY <2>1, <2>3 DEF ControlKept, Controls, Solo
<1> QED
  BY <1>1, <1>2

LEMMA PlayKeeps == ASSUME NEW c, ControlKept(c) PROVE ControlKept(Player!PlayKey(c))
<1>1. ControlKept([c EXCEPT !.speed = 0])
  BY DEF ControlKept, Controls, Solo
<1> QED
  BY <1>1, PauseKeeps DEF Player!PlayKey

LEMMA OkKeeps == ASSUME NEW c, ControlKept(c) PROVE ControlKept(Player!OkKey(c))
<1> DEFINE t == [c EXCEPT !.autoShow = FALSE]
           h == Player!Hide(t)
<1>1. ControlKept(t)
  BY DEF ControlKept, Controls, Solo
<1>2. Player!OkKey(c) = IF t.speed # 1 THEN Player!Show([h EXCEPT !.modeOnly = ~@])
                        ELSE IF t.replay THEN Player!Hide([t EXCEPT !.modeOnly = TRUE])
                        ELSE Player!Show([h EXCEPT !.modeOnly = FALSE])
  BY DEF Player!OkKey
<1> HIDE DEF t
<1>3. ControlKept(h)
  BY <1>1, HideKeeps DEF ControlKept
<1> HIDE DEF h
<1>4. ControlKept([h EXCEPT !.modeOnly = ~@]) /\ ControlKept([h EXCEPT !.modeOnly = FALSE])
  BY <1>3 DEF ControlKept, Controls, Solo
<1>5. /\ ControlKept(Player!Show([h EXCEPT !.modeOnly = ~@]))
      /\ ControlKept(Player!Show([h EXCEPT !.modeOnly = FALSE]))
  BY <1>4, ShowKeeps
<1>6. ControlKept([t EXCEPT !.modeOnly = TRUE])
  BY <1>1 DEF ControlKept, Controls, Solo
<1>7. ControlKept(Player!Hide([t EXCEPT !.modeOnly = TRUE]))
  BY <1>6, HideKeeps DEF ControlKept
<1> QED
  BY <1>2, <1>5, <1>7

(* A menu is opened on a control whose OSDs are hidden.                     *)
LEMMA MenuOpened ==
  ASSUME NEW c \in Controls
  PROVE  /\ ControlKept([Player!Hide(c) EXCEPT !.list = TRUE, !.autoShow = FALSE])
         /\ ControlKept([Player!Hide(c) EXCEPT !.disc = TRUE])
<1> DEFINE h == Player!Hide(c)
           h1 == [h EXCEPT !.list = TRUE]
<1>1. ControlKept(h) /\ ~h.replay /\ ~h.list /\ ~h.disc
  BY HideKeeps
<1> HIDE DEF h
<1>2. ControlKept(h1)
  BY <1>1 DEF ControlKept, Controls, Solo
<1>3. [h EXCEPT !.list = TRUE, !.autoShow = FALSE] = [h1 EXCEPT !.autoShow = FALSE]
  BY <1>1 DEF ControlKept, Controls
<1> HIDE DEF h1
<1>4. ControlKept([h EXCEPT !.list = TRUE, !.autoShow = FALSE])
  BY <1>2, <1>3 DEF ControlKept, Controls, Solo
<1>5. ControlKept([h EXCEPT !.disc = TRUE])
  BY <1>1 DEF ControlKept, Controls, Solo
<1> QED
  BY <1>4, <1>5 DEF h

LEMMA KeyKeeps ==
  ASSUME NEW c, ControlKept(c), NEW key \in Player!Keys, NEW several \in BOOLEAN
  PROVE  ControlKept(Player!Key(c, key, several))
<1>1. /\ ControlKept(Player!PauseKey(c)) /\ ControlKept(Player!PlayKey(c))
      /\ ControlKept(Player!FastFwd(c)) /\ ControlKept(Player!FastRew(c))
      /\ ControlKept(Player!OkKey(c)) /\ ControlKept(Player!NextShown(c))
  BY PauseKeeps, PlayKeeps, FastKeeps, OkKeeps, NextShownKeeps
<1>2. ControlKept(Player!RedKey(c, several)) /\ ControlKept(Player!BackKey(c))
  BY MenuOpened, HideKeeps DEF ControlKept, Player!RedKey, Player!BackKey
<1>3. ControlKept([c EXCEPT !.random = IF several THEN ~@ ELSE @])
  <2>1. CASE several
    <3>1. ControlKept([c EXCEPT !.random = ~@])
      BY DEF ControlKept, Controls, Solo
    <3> QED
      BY <2>1, <3>1
  <2>2. CASE ~several
    <3>1. c = [c EXCEPT !.random = @]
      BY DEF ControlKept, Controls
    <3> QED
      BY <2>2, <3>1
  <2> QED
    BY <2>1, <2>2
<1> HIDE DEF ControlKept
<1> QED
  BY <1>1, <1>2, <1>3 DEF Player!Key, Player!Keys, Player!NotForMenu

LEMMA PlayerKeyKeeps == ControlInv /\ Player!PlayerKey => ControlInv'
<1> SUFFICES ASSUME ControlInv, Player!PlayerKey PROVE ControlKept(ctl')
  BY DEF ControlInv
<1>1. PICK key \in Player!Keys, several \in BOOLEAN, elapsed \in BOOLEAN, menuQuits \in BOOLEAN :
        LET c == IF ctl.list THEN [ctl EXCEPT !.autoShow = FALSE] ELSE ctl
        IN  ctl' = IF ctl.list /\ key \notin Player!NotForMenu
                   THEN IF menuQuits THEN Player!Hide(c) ELSE c
                   ELSE Player!AutoShow(
                          Player!Key(IF c.replay THEN Player!Show(c) ELSE c, key, several), elapsed)
  BY DEF Player!PlayerKey
<1> PICK c : c = IF ctl.list THEN [ctl EXCEPT !.autoShow = FALSE] ELSE ctl
  OBVIOUS
<1> PICK d : d = IF c.replay THEN Player!Show(c) ELSE c
  OBVIOUS
<1>2. ControlKept(c)
  BY DEF ControlInv, ControlKept, Controls, Solo
<1>3. ControlKept(d) /\ ControlKept(Player!Hide(c))
  BY <1>2, ShowKeeps, HideKeeps DEF ControlKept
<1>4. ControlKept(Player!AutoShow(Player!Key(d, key, several), elapsed))
  BY <1>3, KeyKeeps, AutoShowKeeps
<1> QED
  BY <1>1, <1>2, <1>3, <1>4

LEMMA EndOfFileKeeps == ControlInv /\ Player!EndOfFile => ControlInv'
<1> SUFFICES ASSUME ControlInv, Player!EndOfFile PROVE ControlKept(ctl')
  BY DEF ControlInv
<1> DEFINE t == Player!NextShown(ctl)
<1>1. CASE ctl' = IF ctl.list THEN [t EXCEPT !.autoShow = FALSE] ELSE Player!AutoShow(t, FALSE)
  <2>1. ControlKept(t)
    BY NextShownKeeps DEF ControlInv
  <2> HIDE DEF t
  <2>2. ControlKept([t EXCEPT !.autoShow = FALSE])
    BY <2>1 DEF ControlKept, Controls, Solo
  <2>3. ControlKept(Player!AutoShow(t, FALSE))
    BY <2>1, AutoShowKeeps
  <2> QED
    BY <2>2, <2>3, <1>1
<1>2. CASE ctl' = ctl
  BY <1>2 DEF ControlInv
<1>3. CASE Player!Ended
  BY <1>3 DEF Player!Ended, Player!NoControl, ControlKept, Controls, Solo
<1> QED
  BY <1>1, <1>2, <1>3 DEF Player!EndOfFile, Player!ctlVars

LEMMA DiscKeyKeeps == ControlInv /\ Player!DiscKey => ControlInv'
<1> SUFFICES ASSUME ControlInv, Player!DiscKey PROVE ControlKept(ctl')
  BY DEF ControlInv
<1> DEFINE c == IF ctl.replay THEN Player!Show(ctl) ELSE ctl
           D(menuDomain) == IF menuDomain THEN Player!Hide(c) ELSE c
           Shown(d) == [Player!Hide(d) EXCEPT !.modeOnly = FALSE]
<1>1. PICK key \in {"None", "Red", "Ok", "Info", "Pause", "Play", "FastFwd", "FastRew"},
           menuDomain \in BOOLEAN, entryChosen \in BOOLEAN :
        ctl' = LET d == D(menuDomain)
                   shown == Shown(d)
               IN CASE ctl.disc -> IF key = "Red" \/ entryChosen THEN Player!Hide(ctl) ELSE ctl
                    [] ~ctl.disc /\ key = "Red" -> [Player!Hide(d) EXCEPT !.disc = TRUE]
                    [] ~ctl.disc /\ key = "Ok" /\ ~menuDomain ->
                         IF d.speed # 1 THEN Player!Show([Player!Hide(d) EXCEPT !.modeOnly = ~@])
                         ELSE IF d.replay THEN [Player!Hide(d) EXCEPT !.modeOnly = TRUE]
                         ELSE Player!Show(shown)
                    [] ~ctl.disc /\ key = "Info" ->
                         IF menuDomain THEN Player!Show([d EXCEPT !.modeOnly = FALSE])
                         ELSE Player!Hide(shown)
                    [] ~ctl.disc /\ key = "Pause" /\ d.speed # 0 ->
                         Player!Show([Player!SetSpeed(d, 0) EXCEPT !.modeOnly = FALSE])
                    [] ~ctl.disc /\ key \in {"Pause", "Play"} /\ (key = "Play" \/ d.speed = 0) ->
                         [Player!Hide(Player!SetSpeed(d, 1)) EXCEPT !.modeOnly = TRUE]
                    [] ~ctl.disc /\ key = "FastFwd" -> Player!FastFwd(d)
                    [] ~ctl.disc /\ key = "FastRew" -> Player!FastRew(d)
                    [] OTHER -> d
  BY DEF Player!DiscKey
<1>2. ControlKept(ctl) /\ ControlKept(Player!Hide(ctl))
  BY HideKeeps DEF ControlInv, ControlKept
<1>3. ControlKept(c)
  BY <1>2, ShowKeeps
<1> HIDE DEF c
<1> DEFINE d == D(menuDomain)
<1>4. ControlKept(d)
  BY <1>3, HideKeeps DEF ControlKept
<1> HIDE DEF D, d
<1> DEFINE h == Player!Hide(d)
           f == Player!SetSpeed(d, 0)
           p == Player!Hide(Player!SetSpeed(d, 1))
<1>5. ControlKept(h) /\ ControlKept(f) /\ ControlKept(Player!SetSpeed(d, 1))
  BY <1>4, HideKeeps, SetSpeedKeeps DEF ControlKept
<1>6. ControlKept(p)
  BY <1>5, HideKeeps DEF ControlKept
<1>7. ControlKept([h EXCEPT !.disc = TRUE])
  BY <1>4, MenuOpened DEF ControlKept
<1> HIDE DEF h, f, p
<1>8. /\ ControlKept([h EXCEPT !.modeOnly = ~@]) /\ ControlKept([h EXCEPT !.modeOnly = TRUE])
      /\ ControlKept([h EXCEPT !.modeOnly = FALSE])
      /\ ControlKept([d EXCEPT !.modeOnly = FALSE])
      /\ ControlKept([f EXCEPT !.modeOnly = FALSE]) /\ ControlKept([p EXCEPT !.modeOnly = TRUE])
  <2>1. /\ ControlKept([h EXCEPT !.modeOnly = ~@]) /\ ControlKept([h EXCEPT !.modeOnly = TRUE])
        /\ ControlKept([h EXCEPT !.modeOnly = FALSE])
    BY <1>5 DEF ControlKept, Controls, Solo
  <2>2. ControlKept([d EXCEPT !.modeOnly = FALSE])
    BY <1>4 DEF ControlKept, Controls, Solo
  <2>3. ControlKept([f EXCEPT !.modeOnly = FALSE])
    BY <1>5 DEF ControlKept, Controls, Solo
  <2>4. ControlKept([p EXCEPT !.modeOnly = TRUE])
    BY <1>6 DEF ControlKept, Controls, Solo
  <2> QED
    BY <2>1, <2>2, <2>3, <2>4
<1>9. /\ ControlKept(Player!Show([h EXCEPT !.modeOnly = ~@]))
      /\ ControlKept(Player!Show([h EXCEPT !.modeOnly = FALSE]))
      /\ ControlKept(Player!Show([d EXCEPT !.modeOnly = FALSE]))
      /\ ControlKept(Player!Show([f EXCEPT !.modeOnly = FALSE]))
  BY <1>8, ShowKeeps
<1>10. ControlKept(Player!Hide([h EXCEPT !.modeOnly = FALSE]))
  BY <1>8, HideKeeps DEF ControlKept
<1>11. ControlKept(Player!FastFwd(d)) /\ ControlKept(Player!FastRew(d))
  BY <1>4, FastKeeps
<1>12. CASE ctl.disc
  BY <1>1, <1>2, <1>12
<1>13. CASE ~ctl.disc
  <2>1. CASE key = "Red"
    <3>1. ctl' = [h EXCEPT !.disc = TRUE]
      BY <1>1, <1>13, <2>1 DEF d, h
    <3> QED
      BY <3>1, <1>7
  <2>2. CASE key = "Ok" /\ ~menuDomain
    <3>1. ctl' = IF d.speed # 1 THEN Player!Show([h EXCEPT !.modeOnly = ~@])
                 ELSE IF d.replay THEN [h EXCEPT !.modeOnly = TRUE]
                 ELSE Player!Show([h EXCEPT !.modeOnly = FALSE])
      BY <1>1, <1>13, <2>2 DEF d, h
    <3> QED
      BY <3>1, <1>8, <1>9
  <2>3. CASE key = "Info"
    <3>1. ctl' = IF menuDomain THEN Player!Show([d EXCEPT !.modeOnly = FALSE])
                 ELSE Player!Hide([h EXCEPT !.modeOnly = FALSE])
      BY <1>1, <1>13, <2>3 DEF d, h
    <3> QED
      BY <3>1, <1>9, <1>10
  <2>4. CASE key = "Pause" /\ d.speed # 0
    <3>1. ctl' = Player!Show([f EXCEPT !.modeOnly = FALSE])
      BY <1>1, <1>13, <2>4 DEF d, f
    <3> QED
      BY <3>1, <1>9
  <2>5. CASE key \in {"Pause", "Play"} /\ (key = "Play" \/ d.speed = 0)
    <3>1. ctl' = [p EXCEPT !.modeOnly = TRUE]
      BY <1>1, <1>13, <2>5 DEF d, p
    <3> QED
      BY <3>1, <1>8
  <2>6. CASE key = "FastFwd"
    BY <1>1, <1>11, <1>13, <2>6 DEF d
  <2>7. CASE key = "FastRew"
    BY <1>1, <1>11, <1>13, <2>7 DEF d
  <2>8. CASE key = "None" \/ (key = "Ok" /\ menuDomain)
    <3>1. ctl' = d
      BY <1>1, <1>13, <2>8 DEF d
    <3> QED
      BY <3>1, <1>4
  <2> QED
    BY <2>1, <2>2, <2>3, <2>4, <2>5, <2>6, <2>7, <2>8
<1> QED
  BY <1>12, <1>13

LEMMA ImageKeyKeeps == ControlInv /\ Player!ImageKey => ControlInv'
<1> SUFFICES ASSUME ControlInv, Player!ImageKey PROVE ControlKept(ctl')
  BY DEF ControlInv
<1> DEFINE C(key) ==
      CASE key = "Pause" -> [ctl EXCEPT !.speed = 0]
        [] key = "Play" -> [ctl EXCEPT !.speed = 2]
        [] key = "FastFwd" /\ ctl.speed < 3 -> [ctl EXCEPT !.speed = @ + 1]
        [] key = "FastRew" /\ ctl.speed > -3 -> [ctl EXCEPT !.speed = @ - 1]
        [] key = "Ok" /\ ctl.replay /\ ctl.modeOnly ->
             Player!Show([Player!Hide(ctl) EXCEPT !.modeOnly = FALSE])
        [] key = "Ok" /\ ctl.replay /\ ~ctl.modeOnly -> Player!Hide(ctl)
        [] key = "Ok" /\ ~ctl.replay -> Player!Show([ctl EXCEPT !.modeOnly = TRUE])
        [] OTHER -> ctl
<1>1. PICK key \in {"Pause", "Play", "FastFwd", "FastRew", "Ok", "Seek", "Yellow"} :
        ctl' = IF C(key).replay THEN Player!Show(C(key)) ELSE C(key)
  BY DEF Player!ImageKey
<1>2. ControlKept(ctl) /\ ctl.speed \in Int
  BY DEF ControlInv, ControlKept, Controls
<1> DEFINE h == Player!Hide(ctl)
<1>3. ControlKept(h)
  BY <1>2, HideKeeps DEF ControlKept
<1> HIDE DEF h
<1>4. ControlKept([h EXCEPT !.modeOnly = FALSE]) /\ ControlKept([ctl EXCEPT !.modeOnly = TRUE])
  BY <1>2, <1>3 DEF ControlKept, Controls, Solo
<1>5. /\ ControlKept(Player!Show([h EXCEPT !.modeOnly = FALSE]))
      /\ ControlKept(Player!Show([ctl EXCEPT !.modeOnly = TRUE]))
  BY <1>4, ShowKeeps
<1>6. /\ ControlKept([ctl EXCEPT !.speed = 0]) /\ ControlKept([ctl EXCEPT !.speed = 2])
      /\ ControlKept([ctl EXCEPT !.speed = @ + 1]) /\ ControlKept([ctl EXCEPT !.speed = @ - 1])
  BY <1>2 DEF ControlKept, Controls, Solo
<1> HIDE DEF ControlKept
<1>7. ControlKept(C(key))
  <2>1. CASE key = "FastFwd"
    <3>1. C(key) = IF ctl.speed < 3 THEN [ctl EXCEPT !.speed = @ + 1] ELSE ctl
      BY <2>1
    <3> HIDE DEF C
    <3> QED
      BY <3>1, <1>2, <1>6
  <2>2. CASE key = "FastRew"
    <3>1. C(key) = IF ctl.speed > -3 THEN [ctl EXCEPT !.speed = @ - 1] ELSE ctl
      BY <2>2
    <3> HIDE DEF C
    <3> QED
      BY <3>1, <1>2, <1>6
  <2>3. CASE key \in {"Pause", "Play", "Seek", "Yellow"}
    <3>1. C(key) = IF key = "Pause" THEN [ctl EXCEPT !.speed = 0]
                   ELSE IF key = "Play" THEN [ctl EXCEPT !.speed = 2] ELSE ctl
      BY <2>3
    <3> HIDE DEF C
    <3> QED
      BY <3>1, <1>2, <1>6
  <2>4. CASE key = "Ok"
    <3>1. C(key) = IF ctl.replay
                   THEN IF ctl.modeOnly THEN Player!Show([h EXCEPT !.modeOnly = FALSE]) ELSE h
                   ELSE Player!Show([ctl EXCEPT !.modeOnly = TRUE])
      BY <2>4 DEF h
    <3> HIDE DEF C
    <3> QED
      BY <3>1, <1>3, <1>5
  <2> QED
    BY <2>1, <2>2, <2>3, <2>4
<1> HIDE DEF C
<1>8. ControlKept(Player!Show(C(key)))
  BY <1>7, ShowKeeps
<1> QED
  BY <1>1, <1>7, <1>8

(* A control that is created has no OSD open, one that ended neither.       *)
LEMMA NoControlKept == ControlKept(Player!NoControl)
  BY DEF Player!NoControl, ControlKept, Controls, Solo

LEMMA LaunchKeeps == ControlInv /\ Player!Launch => ControlInv'
<1> SUFFICES ASSUME Player!Launch PROVE ControlKept(ctl')
  BY DEF ControlInv
<1>1. PICK kind \in Player!Kinds \cup {"Images"}, enabled \in BOOLEAN :
        ctl' = [Player!NoControl EXCEPT
                  !.kind = kind,
                  !.autoShow = kind # "Images",
                  !.speed = IF kind = "Images" THEN 0 ELSE 1,
                  !.modeOnly = kind # "Images",
                  !.useResume = enabled /\ kind \notin {"Music", "Images"}]
  BY DEF Player!Launch
<1> PICK a \in BOOLEAN : a = (kind # "Images")
  OBVIOUS
<1> PICK s \in Int : s = IF kind = "Images" THEN 0 ELSE 1
  OBVIOUS
<1> PICK u \in BOOLEAN : u = (enabled /\ kind \notin {"Music", "Images"})
  OBVIOUS
<1>2. ctl' = [kind |-> kind, speed |-> s, replay |-> FALSE, modeOnly |-> a,
              list |-> FALSE, disc |-> FALSE, autoShow |-> a,
              useResume |-> u, random |-> FALSE]
  BY <1>1 DEF Player!NoControl
<1> QED
  BY <1>2 DEF ControlKept, Controls, Solo

LEMMA ControlInvNext == ControlInv /\ [Next]_vars => ControlInv'
<1> SUFFICES ASSUME ControlInv, [Next]_vars PROVE ControlInv'
  OBVIOUS
<1>1. CASE ctl' = ctl
  BY <1>1 DEF ControlInv, ControlKept, Solo
<1>2. CASE Player!QueueFile
  <2>1. CASE ctl' = [Player!NoControl EXCEPT !.kind = "Music", !.autoShow = TRUE]
    <3>1. ctl' = [kind |-> "Music", speed |-> 1, replay |-> FALSE, modeOnly |-> TRUE,
                  list |-> FALSE, disc |-> FALSE, autoShow |-> TRUE,
                  useResume |-> FALSE, random |-> FALSE]
      BY <2>1 DEF Player!NoControl
    <3>2. ControlKept(ctl')
      BY <3>1 DEF ControlKept, Controls, Player!Kinds, Solo
    <3> QED
      BY <3>2 DEF ControlInv
  <2> QED
    BY <2>1, <1>1, <1>2 DEF Player!QueueFile, Player!ctlVars
<1>3. CASE Player!Ended
  BY <1>3, NoControlKept DEF Player!Ended, ControlInv
<1>4. Player!CtlNext \/ ctl' = ctl
  BY DEF Next, Step, OthersStay, Stopped, vars, ctlVars
<1> QED
  BY <1>1, <1>2, <1>3, <1>4, LaunchKeeps, PlayerKeyKeeps, EndOfFileKeeps, DiscKeyKeeps,
     ImageKeyKeeps DEF Player!CtlNext, Player!StopKey, Player!DiscEnd

LEMMA ControlInvInit == Player!CtlInit => ControlInv
  BY NoControlKept DEF Player!CtlInit, ControlInv

LEMMA ControlInvOneOsd == ControlInv => Player!OneOsd
  BY DEF ControlInv, ControlKept, Solo, Player!OneOsd

-----------------------------------------------------------------------------
(* The playlist.  First what the list's operations do to a list without     *)
(* repetitions.                                                             *)

Listing(s) == s \in Seq(Items) /\ \A i, j \in 1 .. Len(s) : s[i] = s[j] => i = j
Holds(s, x) == \E i \in 1 .. Len(s) : s[i] = x

LEMMA RangeHolds == ASSUME NEW s \in Seq(Items), NEW x PROVE x \in List!Range(s) <=> Holds(s, x)
  BY DEF List!Range, Holds

LEMMA SameCardinality == ASSUME NEW S PROVE List!Cardinality(S) = Cardinality(S)
  BY DEF List!Cardinality, Cardinality

LEMMA ListingFinite ==
  ASSUME NEW s, Listing(s)
  PROVE  IsFiniteSet(List!Range(s)) /\ Cardinality(List!Range(s)) = Len(s)
<1> DEFINE f == [i \in 1 .. Len(s) |-> s[i]]
           S == List!Range(s)
<1>1. s \in Seq(Items) /\ Len(s) \in Nat /\ DOMAIN s = 1 .. Len(s)
  BY DEF Listing
<1>2. f \in Surjection(1 .. Len(s), S) /\ f \in Injection(1 .. Len(s), S)
  BY <1>1 DEF List!Range, Listing, Surjection, Injection, IsInjective
<1>3. IsFiniteSet(1 .. Len(s)) /\ Cardinality(1 .. Len(s)) = Len(s)
  BY <1>1, FS_Interval
<1> HIDE DEF f, S
<1>4. /\ IsFiniteSet(S)
      /\ Cardinality(S) = Cardinality(1 .. Len(s)) <=> f \in Injection(1 .. Len(s), S)
  BY <1>2, <1>3, FS_Surjection
<1> QED
  BY <1>2, <1>3, <1>4 DEF S

(* The sequences that hold each element of a finite set once.               *)
LEMMA SeqsOfSet ==
  ASSUME NEW S, IsFiniteSet(S), S \subseteq Items, NEW s \in List!SetToSeqs(S)
  PROVE  /\ Listing(s) /\ Len(s) = Cardinality(S)
         /\ \A x : x \in S <=> Holds(s, x)
<1> DEFINE n == Cardinality(S)
<1>1. n \in Nat
  BY FS_CardinalityType
<1>2. s \in [1 .. n -> S] /\ \A i, j \in 1 .. n : i # j => s[i] # s[j]
  BY SameCardinality DEF List!SetToSeqs
<1>3. IsFiniteSet(1 .. n) /\ Cardinality(1 .. n) = n
  BY <1>1, FS_Interval
<1> HIDE DEF n
<1>4. s \in Injection(1 .. n, S)
  BY <1>2 DEF Injection, IsInjective
<1>5. s \in Surjection(1 .. n, S)
  BY <1>3, <1>4, FS_Injection DEF n
<1>6. s \in Seq(Items) /\ Len(s) = n
  BY <1>1, <1>2
<1> QED
  BY <1>2, <1>5, <1>6 DEF Listing, Holds, Surjection, n

(* A finite set of numbers can be listed in their order: at each place the  *)
(* number that has so many up to it.                                        *)
LEMMA InOrder ==
  ASSUME NEW S, IsFiniteSet(S), S \subseteq Items
  PROVE  \E s \in List!SetToSeqs(S) : \A i, j \in 1 .. Len(s) : i < j => s[i] < s[j]
<1> DEFINE n == Cardinality(S)
           UpTo(x) == {y \in S : y <= x}
           rank == [x \in S |-> Cardinality(UpTo(x))]
<1>1. n \in Nat /\ S \subseteq Int
  BY FS_CardinalityType, ListAssumption
<1>2. ASSUME NEW x \in S
      PROVE  IsFiniteSet(UpTo(x)) /\ Cardinality(UpTo(x)) \in 1 .. n
  <2>1. UpTo(x) \in SUBSET S
    OBVIOUS
  <2>2. IsFiniteSet(UpTo(x)) /\ Cardinality(UpTo(x)) <= n
    BY <2>1, FS_Subset
  <2>3. x \in UpTo(x)
    BY <1>1
  <2>4. Cardinality(UpTo(x)) \in Nat /\ Cardinality(UpTo(x)) # 0
    BY <2>2, <2>3, FS_EmptySet, FS_CardinalityType
  <2> QED
    BY <2>2, <2>4, <1>1
<1>3. ASSUME NEW x \in S, NEW y \in S, x < y
      PROVE  Cardinality(UpTo(x)) < Cardinality(UpTo(y))
  <2>1. UpTo(x) \in SUBSET UpTo(y) /\ y \in UpTo(y) /\ y \notin UpTo(x)
    <3>1. x \in Int /\ y \in Int
      BY <1>1
    <3>2. ASSUME NEW z \in UpTo(x) PROVE z \in UpTo(y)
      BY <3>1, <1>1, <1>3
    <3>3. y \in UpTo(y) /\ y \notin UpTo(x)
      BY <3>1, <1>3
    <3> QED
      BY <3>2, <3>3
  <2>2. IsFiniteSet(UpTo(y))
    BY <1>2
  <2> HIDE DEF UpTo
  <2>3. Cardinality(UpTo(x)) <= Cardinality(UpTo(y)) /\ Cardinality(UpTo(x)) # Cardinality(UpTo(y))
    BY <2>1, <2>2, FS_Subset
  <2>4. Cardinality(UpTo(x)) \in Nat /\ Cardinality(UpTo(y)) \in Nat
    BY <1>2
  <2> QED
    BY <2>3, <2>4
<1> HIDE DEF UpTo, n
<1>4. rank \in Injection(S, 1 .. n)
  <2>1. ASSUME NEW x \in S, NEW y \in S, rank[x] = rank[y] PROVE x = y
    <3>1. Cardinality(UpTo(x)) = Cardinality(UpTo(y))
      BY <2>1
    <3>2. ~(x < y) /\ ~(y < x)
      BY <3>1, <1>2, <1>3
    <3> QED
      BY <3>2, <1>1
  <2>2. rank \in [S -> 1 .. n]
    BY <1>2
  <2> QED
    BY <2>1, <2>2 DEF Injection, IsInjective
<1>5. IsFiniteSet(1 .. n) /\ Cardinality(1 .. n) = n
  BY <1>1, FS_Interval
<1>6. rank \in Surjection(S, 1 .. n)
  BY <1>4, <1>5, FS_Injection DEF n
<1> DEFINE s == [i \in 1 .. n |-> CHOOSE x \in S : rank[x] = i]
<1>7. ASSUME NEW i \in 1 .. n PROVE s[i] \in S /\ rank[s[i]] = i
  BY <1>6 DEF Surjection
<1>8. ASSUME NEW i \in 1 .. n, NEW j \in 1 .. n, i < j PROVE s[i] < s[j]
  <2>1. s[i] \in S /\ s[j] \in S /\ rank[s[i]] = i /\ rank[s[j]] = j
    BY <1>7
  <2> PICK x \in S, y \in S : x = s[i] /\ y = s[j]
    BY <2>1
  <2>2. Cardinality(UpTo(x)) = i /\ Cardinality(UpTo(y)) = j
    BY <2>1
  <2> HIDE DEF s
  <2>3. x # y /\ ~(y < x)
    BY <2>2, <1>3, <1>8, <1>2
  <2> QED
    BY <2>3, <1>1
<1>9. s \in [1 .. n -> S]
  BY <1>7
<1> HIDE DEF s
<1>10. \A i, j \in 1 .. n : i # j => s[i] # s[j]
  BY <1>7
<1>11. s \in List!SetToSeqs(S)
  BY <1>9, <1>10, SameCardinality DEF List!SetToSeqs, n
<1>12. Len(s) = n
  BY <1>1, <1>9
<1> QED
  BY <1>8, <1>11, <1>12

LEMMA SortedKeeps ==
  ASSUME NEW s, Listing(s)
  PROVE  LET t == List!Sorted(s)
         IN  Listing(t) /\ Len(t) = Len(s) /\ \A x : Holds(t, x) <=> Holds(s, x)
<1> DEFINE t == List!Sorted(s)
           S == List!Range(s)
<1>1. IsFiniteSet(S) /\ Cardinality(S) = Len(s) /\ s \in Seq(Items)
  BY ListingFinite DEF Listing
<1>2. S \subseteq Items
  BY <1>1 DEF List!Range
<1>3. \A x : x \in S <=> Holds(s, x)
  BY <1>1, RangeHolds
<1>4. t = CHOOSE r \in List!SetToSeqs(S) : \A i, j \in 1 .. Len(r) : i < j => r[i] < r[j]
  BY DEF List!Sorted
<1> HIDE DEF S, t
<1>5. t \in List!SetToSeqs(S)
  BY <1>1, <1>2, <1>4, InOrder
<1>6. /\ Listing(t) /\ Len(t) = Cardinality(S)
      /\ \A x : x \in S <=> Holds(t, x)
  BY <1>1, <1>2, <1>5, SeqsOfSet
<1> QED
  BY <1>1, <1>3, <1>6 DEF t

LEMMA RemoveAtKeeps ==
  ASSUME NEW s, Listing(s), NEW k \in 1 .. Len(s)
  PROVE  LET t == List!RemoveAt(s, k)
         IN  /\ Listing(t) /\ Len(t) = Len(s) - 1
             /\ \A i \in 1 .. Len(t) : t[i] = IF i < k THEN s[i] ELSE s[i + 1]
             /\ \A x : Holds(t, x) <=> Holds(s, x) /\ x # s[k]
<1> DEFINE t == List!RemoveAt(s, k)
           a == SubSeq(s, 1, k - 1)
           b == SubSeq(s, k + 1, Len(s))
<1>1. s \in Seq(Items) /\ Len(s) \in Nat
  BY DEF Listing
<1>2. a \in Seq(Items) /\ Len(a) = k - 1 /\ \A i \in 1 .. k - 1 : a[i] = s[i]
  BY <1>1
<1>3. b \in Seq(Items) /\ Len(b) = Len(s) - k /\ \A i \in 1 .. Len(s) - k : b[i] = s[k + i]
  BY <1>1
<1>4. t = a \o b
  BY DEF List!RemoveAt
<1> HIDE DEF a, b, t
<1>5. t \in Seq(Items) /\ Len(t) = Len(s) - 1
  BY <1>1, <1>2, <1>3, <1>4
<1>6. ASSUME NEW i \in 1 .. Len(t) PROVE t[i] = IF i < k THEN s[i] ELSE s[i + 1]
  <2>1. t[i] = IF i <= k - 1 THEN a[i] ELSE b[i - (k - 1)]
    BY <1>1, <1>2, <1>3, <1>4, <1>5
  <2>2. CASE i < k
    BY <2>1, <2>2, <1>1, <1>2
  <2>3. CASE i >= k
    <3>1. i - (k - 1) \in 1 .. Len(s) - k /\ k + (i - (k - 1)) = i + 1
      BY <2>3, <1>1, <1>5
    <3> QED
      BY <2>1, <2>3, <3>1, <1>3
  <2> QED
    BY <2>2, <2>3, <1>1, <1>5
<1>7. ASSUME NEW i \in 1 .. Len(t), NEW j \in 1 .. Len(t), t[i] = t[j] PROVE i = j
  <2> DEFINE p == IF i < k THEN i ELSE i + 1
             q == IF j < k THEN j ELSE j + 1
  <2>1. t[i] = s[p] /\ t[j] = s[q]
    BY <1>6
  <2>2. p \in 1 .. Len(s) /\ q \in 1 .. Len(s)
    BY <1>1, <1>5
  <2>3. p = q
    BY <2>1, <2>2, <1>7 DEF Listing
  <2> QED
    BY <2>3, <1>1, <1>5
<1>8. Listing(t)
  BY <1>5, <1>7 DEF Listing
<1>9. ASSUME NEW x, Holds(t, x) PROVE Holds(s, x) /\ x # s[k]
  <2> PICK i \in 1 .. Len(t) : t[i] = x
    BY <1>9 DEF Holds
  <2> DEFINE p == IF i < k THEN i ELSE i + 1
  <2>1. p \in 1 .. Len(s) /\ p # k /\ s[p] = x
    BY <1>1, <1>5, <1>6
  <2> QED
    BY <2>1 DEF Holds, Listing
<1>10. ASSUME NEW x, Holds(s, x), x # s[k] PROVE Holds(t, x)
  <2> PICK p \in 1 .. Len(s) : s[p] = x
    BY <1>10 DEF Holds
  <2> DEFINE i == IF p < k THEN p ELSE p - 1
  <2>1. p # k
    BY <1>10
  <2>2. i \in 1 .. Len(t)
    BY <2>1, <1>1, <1>5
  <2>3. t[i] = s[p]
    BY <2>1, <2>2, <1>1, <1>6
  <2> QED
    BY <2>2, <2>3 DEF Holds
<1> QED
  BY <1>5, <1>6, <1>8, <1>9, <1>10 DEF t

LEMMA InsertAtKeeps ==
  ASSUME NEW s, Listing(s), NEW e \in Items, ~Holds(s, e), NEW k \in 1 .. Len(s) + 1
  PROVE  LET t == List!InsertAt(s, k, e)
         IN  /\ Listing(t) /\ Len(t) = Len(s) + 1
             /\ \A x : Holds(t, x) <=> Holds(s, x) \/ x = e
<1> DEFINE t == List!InsertAt(s, k, e)
           a == SubSeq(s, 1, k - 1)
           b == SubSeq(s, k, Len(s))
           ae == Append(a, e)
<1>1. s \in Seq(Items) /\ Len(s) \in Nat
  BY DEF Listing
<1>2. a \in Seq(Items) /\ Len(a) = k - 1 /\ \A i \in 1 .. k - 1 : a[i] = s[i]
  BY <1>1
<1>3. b \in Seq(Items) /\ Len(b) = Len(s) - k + 1 /\ \A i \in 1 .. Len(s) - k + 1 : b[i] = s[k + i - 1]
  BY <1>1
<1>4. t = (a \o <<e>>) \o b
  BY DEF List!InsertAt
<1> HIDE DEF a, b, t
<1>5. a \o <<e>> = ae
  BY <1>2
<1>6. /\ ae \in Seq(Items) /\ Len(ae) = k /\ ae[k] = e
      /\ \A i \in 1 .. k - 1 : ae[i] = s[i]
  BY <1>2
<1> HIDE DEF ae
<1>7. t \in Seq(Items) /\ Len(t) = Len(s) + 1
  <2>1. t = ae \o b
    BY <1>4, <1>5
  <2>2. ae \in Seq(Items) /\ b \in Seq(Items) /\ Len(ae) = k
    BY <1>3, <1>6
  <2>3. t \in Seq(Items) /\ Len(t) = Len(ae) + Len(b)
    BY <2>1, <2>2, ConcatProperties
  <2> QED
    BY <2>2, <2>3, <1>1, <1>3
<1>8. ASSUME NEW i \in 1 .. Len(t)
      PROVE  t[i] = IF i < k THEN s[i] ELSE IF i = k THEN e ELSE s[i - 1]
  <2>1. t[i] = IF i <= k THEN ae[i] ELSE b[i - k]
    BY <1>1, <1>3, <1>4, <1>5, <1>6, <1>7
  <2>2. CASE i <= k
    BY <2>1, <2>2, <1>6
  <2>3. CASE i > k
    <3>1. i - k \in 1 .. Len(s) - k + 1 /\ k + (i - k) - 1 = i - 1
      BY <2>3, <1>1, <1>7
    <3> QED
      BY <2>1, <2>3, <3>1, <1>3
  <2> QED
    BY <2>2, <2>3
<1>9. ASSUME NEW i \in 1 .. Len(t), NEW j \in 1 .. Len(t), t[i] = t[j] PROVE i = j
  <2> DEFINE p == IF i < k THEN i ELSE i - 1
             q == IF j < k THEN j ELSE j - 1
  <2>1. (i # k => t[i] = s[p] /\ p \in 1 .. Len(s)) /\ (i = k => t[i] = e)
    BY <1>1, <1>7, <1>8
  <2>2. (j # k => t[j] = s[q] /\ q \in 1 .. Len(s)) /\ (j = k => t[j] = e)
    BY <1>1, <1>7, <1>8
  <2>3. i = k <=> j = k
    BY <2>1, <2>2, <1>9 DEF Holds
  <2>4. i # k => p = q
    BY <2>1, <2>2, <2>3, <1>9 DEF Listing
  <2> QED
    BY <2>3, <2>4, <1>1, <1>7
<1>10. Listing(t)
  BY <1>7, <1>9 DEF Listing
<1>11. ASSUME NEW x, Holds(t, x) PROVE Holds(s, x) \/ x = e
  <2> PICK i \in 1 .. Len(t) : t[i] = x
    BY <1>11 DEF Holds
  <2> DEFINE p == IF i < k THEN i ELSE i - 1
  <2>1. i = k \/ (p \in 1 .. Len(s) /\ s[p] = x)
    BY <1>1, <1>7, <1>8
  <2> QED
    BY <2>1, <1>8 DEF Holds
<1>12. ASSUME NEW x, Holds(s, x) PROVE Holds(t, x)
  <2> PICK p \in 1 .. Len(s) : s[p] = x
    BY <1>12 DEF Holds
  <2> DEFINE i == IF p < k THEN p ELSE p + 1
  <2>1. i \in 1 .. Len(t) /\ i # k /\ (p < k => i = p) /\ (~(p < k) => i - 1 = p /\ i > k)
    BY <1>1, <1>7
  <2>2. t[i] = s[p]
    BY <2>1, <1>8, <1>1
  <2> QED
    BY <2>1, <2>2 DEF Holds
<1>13. Holds(t, e)
  <2>1. k \in 1 .. Len(t)
    BY <1>1, <1>7
  <2> QED
    BY <2>1, <1>8 DEF Holds
<1> QED
  BY <1>7, <1>10, <1>11, <1>12, <1>13 DEF t

LEMMA AppendKeeps ==
  ASSUME NEW s, Listing(s), NEW e \in Items, ~Holds(s, e)
  PROVE  /\ Listing(Append(s, e)) /\ Len(Append(s, e)) = Len(s) + 1
         /\ \A x : Holds(s, x) => Holds(Append(s, e), x)
<1> DEFINE t == Append(s, e)
<1>1. s \in Seq(Items) /\ Len(s) \in Nat
  BY DEF Listing
<1>2. /\ t \in Seq(Items) /\ Len(t) = Len(s) + 1 /\ t[Len(s) + 1] = e
      /\ \A i \in 1 .. Len(s) : t[i] = s[i]
  BY <1>1
<1> HIDE DEF t
<1>3. ASSUME NEW i \in 1 .. Len(t), NEW j \in 1 .. Len(t), t[i] = t[j] PROVE i = j
  <2>1. (i = Len(s) + 1) <=> (j = Len(s) + 1)
    BY <1>1, <1>2, <1>3 DEF Holds
  <2> QED
    BY <2>1, <1>1, <1>2, <1>3 DEF Listing
<1>4. Listing(t)
  BY <1>2, <1>3 DEF Listing
<1>5. \A x : Holds(s, x) => Holds(t, x)
  BY <1>1, <1>2 DEF Holds
<1> QED
  BY <1>2, <1>4, <1>5 DEF t

LEMMA IndexOf ==
  ASSUME NEW l, Listing(l.items), NEW x, Holds(l.items, x)
  PROVE  List!ListIndex(l, x) \in 0 .. Len(l.items) - 1 /\ l.items[List!ListIndex(l, x) + 1] = x
<1> DEFINE c == CHOOSE i \in 1 .. Len(l.items) : l.items[i] = x
<1>1. c \in 1 .. Len(l.items) /\ l.items[c] = x
  BY DEF Holds
<1>2. List!ListIndex(l, x) = c - 1
  BY DEF List!ListIndex
<1>3. Len(l.items) \in Nat
  BY DEF Listing
<1> HIDE DEF c
<1> QED
  BY <1>1, <1>2, <1>3

(* An open list, as the handlers leave it.                                  *)
PlayerList == [open : BOOLEAN, items : Seq(Items), m_Current : Items \cup {PlsNone},
               m_File : Items \cup {PlsNone}]

Sound(l) == /\ l \in PlayerList /\ Listing(l.items)
            /\ l.open => l.items # <<>>
            /\ l.m_Current # PlsNone => Holds(l.items, l.m_Current)

Scanned(l, sc) == sc.run = "scan" /\ ~sc.stale => Holds(l.items, sc.item)

OnList(l, m) == m.open => /\ l.open /\ m.at \in 0 .. Len(l.items) - 1
                          /\ m.marked \in -1 .. Len(l.items) - 1

Scans == [run : {"off", "scan", "sort"}, item : Items \cup {PlsNone}, stale : BOOLEAN]
MenuFields == [open : BOOLEAN, at : Int, marked : Int, m_NeedsUpdate : BOOLEAN]

ListInv ==
  /\ Sound(pls) /\ (pls.open /\ pls.m_Current # PlsNone => pls.m_File = pls.m_Current)
  /\ scan \in Scans /\ Scanned(pls, scan)
  /\ plsMenu \in MenuFields /\ OnList(pls, plsMenu)

LEMMA CurrentHeld ==
  ASSUME NEW l, Sound(l), l.open
  PROVE  /\ List!Current(l) \in Items /\ Holds(l.items, List!Current(l))
         /\ List!CurrentFile(l) \in 0 .. Len(l.items) - 1
         /\ l.items[List!CurrentFile(l) + 1] = List!Current(l)
         /\ l.m_Current # PlsNone => List!Current(l) = l.m_Current
<1>1. l.items \in Seq(Items) /\ l.items # <<>> /\ Len(l.items) \in Nat
  BY DEF Sound, PlayerList
<1>2. Head(l.items) = l.items[1] /\ 1 \in 1 .. Len(l.items) /\ Head(l.items) \in Items
  BY <1>1
<1>3. Holds(l.items, List!Current(l))
  BY <1>2 DEF Sound, Holds, List!Current
<1>4. List!Current(l) \in Items
  BY <1>1, <1>2 DEF Sound, PlayerList, List!Current
<1> QED
  BY <1>3, <1>4, IndexOf DEF Sound, List!CurrentFile, List!Current

(* Next(), Prev() and Seek() by any number of items, and the file played.   *)
LEMMA NextFileKeeps ==
  ASSUME NEW l, Sound(l), l.open, NEW step \in Int
  PROVE  LET t == List!NextFile(l, step)
         IN  /\ Sound(t) /\ t.open /\ t.items = l.items
             /\ t.m_Current # PlsNone => t.m_File = t.m_Current
             /\ List!CurrentFile(t) \in 0 .. Len(l.items) - 1
<1> DEFINE w == List!Wrapped(l, step)
           n == Len(l.items)
           k == (List!CurrentFile(l) + step) % n
<1>1. /\ l.items \in Seq(Items) /\ n \in Nat /\ n # 0
      /\ l.m_Current \in Items \cup {PlsNone}
  BY DEF Sound, PlayerList
<1>2. List!CurrentFile(l) \in Int
  BY <1>1, CurrentHeld
<1>3. k \in 0 .. n - 1
  <2> PICK c \in Int : c = List!CurrentFile(l) + step
    BY <1>2
  <2> QED
    BY <1>1
<1> HIDE DEF k
<1> PICK e : e = IF step = 0 THEN l.m_Current ELSE l.items[k + 1]
  OBVIOUS
<1>4. w = [l EXCEPT !.m_Current = e]
  BY DEF List!Wrapped, k, Sound, PlayerList
<1>5. k + 1 \in 1 .. n /\ l.items[k + 1] \in Items
  BY <1>1, <1>3
<1>6. e \in Items \cup {PlsNone} /\ (e # PlsNone => Holds(l.items, e))
  BY <1>1, <1>5 DEF Sound, Holds
<1>7. /\ w \in PlayerList /\ w.open /\ w.items = l.items /\ w.m_Current = e
  BY <1>4, <1>6 DEF Sound, PlayerList
<1> HIDE DEF w
<1>8. Sound(w)
  BY <1>6, <1>7 DEF Sound
<1>9. /\ List!Current(w) \in Items /\ (e # PlsNone => List!Current(w) = e)
  BY <1>7, <1>8, CurrentHeld
<1> DEFINE t == List!NextFile(l, step)
<1> PICK f : f = List!Current(w)
  OBVIOUS
<1>10. t = [w EXCEPT !.m_File = f]
  BY DEF List!NextFile, w
<1>11. /\ t \in PlayerList /\ t.open /\ t.items = l.items /\ t.m_Current = e /\ t.m_File = f
  BY <1>7, <1>9, <1>10 DEF PlayerList
<1> HIDE DEF t
<1>12. Sound(t)
  BY <1>8, <1>7, <1>11 DEF Sound
<1>13. List!CurrentFile(t) \in 0 .. Len(t.items) - 1
  BY <1>11, <1>12, CurrentHeld
<1> QED
  BY <1>9, <1>11, <1>12, <1>13 DEF t

(* Del() of a line of the menu; what was current and goes is replaced.      *)
LEMMA DelKeeps ==
  ASSUME NEW l, Sound(l), l.open, Len(l.items) > 1, NEW at \in 0 .. Len(l.items) - 1
  PROVE  LET t == List!Del(l, l.items[at + 1])
         IN  /\ Sound(t) /\ t.open /\ Len(t.items) = Len(l.items) - 1 /\ t.m_File = l.m_File
             /\ l.m_Current # l.items[at + 1] => t.m_Current = l.m_Current
<1> DEFINE s == l.items
           x == s[at + 1]
           n == Len(s)
           r == List!RemoveAt(s, at + 1)
<1>1. Listing(s) /\ s \in Seq(Items) /\ n \in Nat /\ n > 1
  BY DEF Sound, Listing
<1>2. x \in Items /\ Holds(s, x) /\ at + 1 \in 1 .. n
  BY <1>1 DEF Holds
<1>3. List!ListIndex(l, x) = at
  <2> PICK j : j = List!ListIndex(l, x)
    OBVIOUS
  <2>1. j \in 0 .. n - 1 /\ s[j + 1] = x
    BY <1>1, <1>2, IndexOf
  <2>2. j + 1 \in 1 .. n
    BY <2>1, <1>1
  <2>3. j + 1 = at + 1
    BY <2>1, <2>2, <1>1, <1>2 DEF Listing
  <2> QED
    BY <2>1, <2>3, <1>1
<1>4. /\ Listing(r) /\ Len(r) = n - 1
      /\ \A y : Holds(r, y) <=> Holds(s, y) /\ y # x
  BY <1>1, <1>2, RemoveAtKeeps
<1> PICK k \in Int : k = (IF at < n - 1 THEN at + 1 ELSE at - 1) + 1
  BY <1>1
<1>5. k \in 1 .. n /\ k # at + 1
  BY <1>1
<1>6. s[k] \in Items /\ Holds(s, s[k]) /\ s[k] # x
  BY <1>1, <1>2, <1>5 DEF Holds, Listing
<1> PICK c : c = IF l.m_Current # x THEN l.m_Current ELSE s[k]
  OBVIOUS
<1>7. c \in Items \cup {PlsNone} /\ (c # PlsNone => Holds(r, c))
  BY <1>4, <1>6 DEF Sound, PlayerList
<1> DEFINE l1 == [l EXCEPT !.m_Current = c]
           t == List!Del(l, x)
<1>8. t = [l1 EXCEPT !.items = r]
  BY <1>3 DEF List!Del, Sound, PlayerList
<1>9. l1 \in PlayerList /\ l1.open /\ l1.m_Current = c /\ l1.m_File = l.m_File
  BY <1>7 DEF Sound, PlayerList
<1>10. r \in Seq(Items)
  BY <1>4 DEF Listing
<1> HIDE DEF l1, r
<1>11. t \in PlayerList /\ t.open /\ t.m_Current = c /\ t.m_File = l.m_File /\ t.items = r
  BY <1>8, <1>9, <1>10 DEF PlayerList
<1> HIDE DEF t
<1>12. r # <<>>
  BY <1>1, <1>4, <1>10
<1>13. Sound(t)
  BY <1>4, <1>7, <1>11, <1>12 DEF Sound
<1> QED
  BY <1>4, <1>11, <1>13 DEF t

LEMMA MoveKeeps ==
  ASSUME NEW s, Listing(s), NEW from \in 0 .. Len(s) - 1, NEW to \in 0 .. Len(s) - 1
  PROVE  LET t == List!InsertAt(List!RemoveAt(s, from + 1), to + 1, s[from + 1])
         IN  Listing(t) /\ Len(t) = Len(s) /\ \A x : Holds(s, x) => Holds(t, x)
<1> DEFINE x == s[from + 1]
           r == List!RemoveAt(s, from + 1)
           t == List!InsertAt(r, to + 1, x)
<1>1. s \in Seq(Items) /\ Len(s) \in Nat /\ from + 1 \in 1 .. Len(s) /\ x \in Items
  BY DEF Listing
<1> HIDE DEF x
<1>2. Listing(r) /\ Len(r) = Len(s) - 1 /\ \A y : Holds(r, y) <=> Holds(s, y) /\ y # x
  BY <1>1, RemoveAtKeeps DEF x
<1> HIDE DEF r
<1>3. to + 1 \in 1 .. Len(r) + 1
  BY <1>1, <1>2
<1>4. Listing(t) /\ Len(t) = Len(r) + 1 /\ \A y : Holds(t, y) <=> Holds(r, y) \/ y = x
  BY <1>1, <1>2, <1>3, InsertAtKeeps
<1> HIDE DEF t
<1> QED
  BY <1>1, <1>2, <1>4 DEF t, r, x

-----------------------------------------------------------------------------
LEMMA ListInvInit == List!PlsInit => ListInv
<1> SUFFICES ASSUME List!PlsInit PROVE ListInv
  OBVIOUS
<1>1. /\ pls = [open |-> FALSE, items |-> <<>>, m_Current |-> PlsNone, m_File |-> PlsNone]
      /\ scan = [run |-> "off", item |-> PlsNone, stale |-> FALSE]
      /\ plsMenu = [open |-> FALSE, at |-> 0, marked |-> -1, m_NeedsUpdate |-> FALSE]
  BY DEF List!PlsInit, List!NoList, List!NoScan, List!NoMenu
<1>2. Sound(pls)
  BY <1>1 DEF Sound, PlayerList, Listing
<1> QED
  BY <1>1, <1>2 DEF ListInv, Scans, Scanned, MenuFields, OnList

(* The parts of the invariant in the next state.                            *)
LEMMA ListInvNow ==
  ASSUME Sound(pls)', (pls.open /\ pls.m_Current # PlsNone => pls.m_File = pls.m_Current)',
         scan' \in Scans, Scanned(pls, scan)', plsMenu' \in MenuFields, OnList(pls, plsMenu)'
  PROVE  ListInv'
BY DEF ListInv

LEMMA SoundPrimed ==
  ASSUME NEW l, Sound(l), pls' = l PROVE Sound(pls)'
BY DEF Sound, PlayerList, Listing, Holds

(* A scanner that has to start over keeps no item.                          *)
LEMMA ChangedKeeps ==
  ASSUME ListInv, List!Changed PROVE scan' \in Scans /\ Scanned(pls, scan)'
BY DEF ListInv, List!Changed, Scans, Scanned

LEMMA ScannerStartsKeeps ==
  ASSUME scan' \in List!ScannerStarts PROVE scan' \in Scans /\ Scanned(pls, scan)'
<1>1. \/ scan' = [run |-> "off", item |-> PlsNone, stale |-> FALSE]
      \/ scan' = [run |-> "scan", item |-> PlsNone, stale |-> TRUE]
  BY DEF List!ScannerStarts, List!NoScan
<1>2. CASE scan' = [run |-> "off", item |-> PlsNone, stale |-> FALSE]
  BY <1>2 DEF Scans, Scanned
<1>3. CASE scan' = [run |-> "scan", item |-> PlsNone, stale |-> TRUE]
  <2>1. scan' \in Scans /\ scan'.stale
    BY <1>3 DEF Scans
  <2> QED
    BY <2>1 DEF Scanned
<1> QED
  BY <1>1, <1>2, <1>3

(* A redraw of the menu.                                                    *)
LEMMA MenuDrawn ==
  ASSUME NEW m \in MenuFields, NEW at \in Int
  PROVE  LET t == [m EXCEPT !.at = at, !.m_NeedsUpdate = FALSE]
         IN  t \in MenuFields /\ t.open = m.open /\ t.at = at /\ t.marked = m.marked
<1> DEFINE h == [m EXCEPT !.at = at]
           t == [h EXCEPT !.m_NeedsUpdate = FALSE]
<1>1. h \in MenuFields /\ h.open = m.open /\ h.at = at /\ h.marked = m.marked
  BY DEF MenuFields
<1> HIDE DEF h
<1>2. t \in MenuFields /\ t.open = h.open /\ t.at = h.at /\ t.marked = h.marked
  BY <1>1 DEF MenuFields
<1>3. t = [m EXCEPT !.at = at, !.m_NeedsUpdate = FALSE]
  BY DEF h
<1> QED
  BY <1>1, <1>2, <1>3

LEMMA MenuUnmarked ==
  ASSUME NEW m \in MenuFields, NEW at \in Int
  PROVE  LET t == [m EXCEPT !.at = at, !.m_NeedsUpdate = FALSE, !.marked = -1]
         IN  t \in MenuFields /\ t.open = m.open /\ t.at = at /\ t.marked = -1
<1> DEFINE h == [m EXCEPT !.at = at, !.m_NeedsUpdate = FALSE]
           t == [h EXCEPT !.marked = -1]
<1>1. h \in MenuFields /\ h.open = m.open /\ h.at = at
  BY MenuDrawn
<1> HIDE DEF h
<1>2. t \in MenuFields /\ t.open = h.open /\ t.at = h.at /\ t.marked = -1
  BY <1>1 DEF MenuFields
<1>3. t = [m EXCEPT !.at = at, !.m_NeedsUpdate = FALSE, !.marked = -1]
  BY DEF h
<1> QED
  BY <1>1, <1>2, <1>3

LEMMA PlsOpenKeeps == ASSUME ListInv, List!PlsOpen PROVE ListInv'
<1> PICK found \in (SUBSET Items) \ {{}} : \E read \in List!SetToSeqs(found), disc \in BOOLEAN :
       pls' = [open |-> TRUE, items |-> read, m_Current |-> PlsNone,
               m_File |-> IF disc THEN PlsNone ELSE Head(read)]
  BY DEF List!PlsOpen
<1> PICK read \in List!SetToSeqs(found), disc \in BOOLEAN :
       pls' = [open |-> TRUE, items |-> read, m_Current |-> PlsNone,
               m_File |-> IF disc THEN PlsNone ELSE Head(read)]
  OBVIOUS
<1>1. scan' \in List!ScannerStarts /\ UNCHANGED plsMenu /\ ~pls.open
  BY DEF List!PlsOpen
<1>2. IsFiniteSet(found) /\ found # {}
  BY FS_Subset, ListAssumption
<1>3. Listing(read) /\ Len(read) = Cardinality(found) /\ \A x : x \in found <=> Holds(read, x)
  BY <1>2, SeqsOfSet
<1>4. read \in Seq(Items) /\ read # <<>> /\ Head(read) \in Items
  <2>1. read \in Seq(Items) /\ Len(read) \in Nat
    BY <1>3 DEF Listing
  <2>2. read # <<>>
    BY <2>1, <1>2, <1>3 DEF Holds
  <2> QED
    BY <2>1, <2>2
<1>5. Sound(pls)' /\ pls'.m_Current = PlsNone
  BY <1>3, <1>4 DEF Sound, PlayerList, Listing
<1>6. plsMenu' \in MenuFields /\ OnList(pls, plsMenu)'
  BY <1>1 DEF ListInv, OnList
<1> QED
  BY <1>1, <1>5, <1>6, ScannerStartsKeeps, ListInvNow

LEMMA PlsCloseKeeps == ASSUME ListInv, List!PlsClose PROVE ListInv'
<1>1. /\ pls' = [open |-> FALSE, items |-> <<>>, m_Current |-> PlsNone, m_File |-> PlsNone]
      /\ scan' = [run |-> "off", item |-> PlsNone, stale |-> FALSE]
      /\ plsMenu' = [open |-> FALSE, at |-> 0, marked |-> -1, m_NeedsUpdate |-> FALSE]
  BY DEF List!PlsClose, List!NoList, List!NoScan, List!NoMenu
<1>2. Sound(pls)'
  BY <1>1 DEF Sound, PlayerList, Listing
<1> QED
  BY <1>1, <1>2 DEF ListInv, Scans, Scanned, MenuFields, OnList

(* The current item and the cursor of a list that keeps its items.          *)
LEMMA MorePlsKeeps ==
  ASSUME ListInv, pls.open, NEW s, Listing(s), Len(s) >= Len(pls.items),
         \A x : Holds(pls.items, x) => Holds(s, x), pls' = [pls EXCEPT !.items = s]
  PROVE  /\ Sound(pls)' /\ (pls.open /\ pls.m_Current # PlsNone => pls.m_File = pls.m_Current)'
         /\ pls'.open /\ pls'.items = s
<1>1. pls \in PlayerList /\ s \in Seq(Items) /\ pls.items \in Seq(Items) /\ pls.items # <<>>
  BY DEF ListInv, Sound, Listing, PlayerList
<1>2. /\ pls' \in PlayerList /\ pls'.items = s /\ pls'.open
      /\ pls'.m_Current = pls.m_Current /\ pls'.m_File = pls.m_File
  BY <1>1 DEF PlayerList
<1>3. s # <<>>
  <2>1. Len(pls.items) \in Nat /\ Len(pls.items) # 0 /\ Len(s) \in Nat
    BY <1>1
  <2>2. Len(s) # 0
    BY <2>1
  <2> QED
    BY <2>2
<1>4. Sound(pls')
  BY <1>2, <1>3 DEF ListInv, Sound
<1> QED
  BY <1>2, <1>4 DEF ListInv, Sound, Listing, Holds

LEMMA QueueKeeps == ASSUME ListInv, List!Queue PROVE ListInv'
<1> PICK item \in Items \ List!Range(pls.items), folder \in BOOLEAN :
       pls' = [pls EXCEPT !.items = IF folder THEN List!Sorted(Append(pls.items, item))
                                    ELSE Append(pls.items, item)]
  BY DEF List!Queue
<1> DEFINE more == Append(pls.items, item)
           s == IF folder THEN List!Sorted(more) ELSE more
<1>1. pls.open /\ UNCHANGED plsMenu /\ Listing(pls.items) /\ pls.items \in Seq(Items)
  BY DEF List!Queue, ListInv, Sound, Listing
<1>2. ~Holds(pls.items, item)
  BY <1>1, RangeHolds
<1>3. /\ Listing(more) /\ Len(more) = Len(pls.items) + 1
      /\ \A x : Holds(pls.items, x) => Holds(more, x)
  BY <1>1, <1>2, AppendKeeps
<1> HIDE DEF more
<1>4. /\ Listing(s) /\ Len(s) = Len(more)
      /\ \A x : Holds(more, x) => Holds(s, x)
  BY <1>3, SortedKeeps
<1>5. pls' = [pls EXCEPT !.items = s]
  BY DEF more
<1> HIDE DEF s
<1>6. Len(s) >= Len(pls.items)
  BY <1>1, <1>3, <1>4
<1>7. /\ Sound(pls)' /\ (pls.open /\ pls.m_Current # PlsNone => pls.m_File = pls.m_Current)'
      /\ pls'.open /\ pls'.items = s
  BY <1>1, <1>3, <1>4, <1>5, <1>6, MorePlsKeeps
<1>8. scan' \in Scans /\ Scanned(pls, scan)'
  BY ChangedKeeps, ScannerStartsKeeps DEF List!Queue
<1>9. plsMenu' \in MenuFields /\ OnList(pls, plsMenu)'
  <2>1. plsMenu \in MenuFields /\ OnList(pls, plsMenu) /\ Len(s) \in Nat /\ Len(pls.items) \in Nat
    BY <1>1, <1>4 DEF ListInv, Listing
  <2> QED
    BY <2>1, <1>1, <1>6, <1>7 DEF OnList, MenuFields
<1> QED
  BY <1>7, <1>8, <1>9, ListInvNow

(* The menu's line of the file played, or the menu as it was.               *)
LEMMA PlsNextFileKeeps == ASSUME ListInv, List!PlsNextFile PROVE ListInv'
<1>1. pls.open /\ UNCHANGED scan /\ Sound(pls) /\ Listing(pls.items) /\ Len(pls.items) \in Nat
  BY DEF List!PlsNextFile, ListInv, Sound, Listing
<1>2. List!CurrentFile(pls) \in 0 .. Len(pls.items) - 1
  BY <1>1, CurrentHeld
<1> PICK step \in {0, 1, -1} \cup {j - List!CurrentFile(pls) : j \in 0 .. Len(pls.items) - 1} :
       pls' = List!NextFile(pls, step)
  BY DEF List!PlsNextFile
<1>3. step \in Int
  BY <1>1, <1>2
<1> PICK t : t = List!NextFile(pls, step)
  OBVIOUS
<1>4. /\ Sound(t) /\ t.open /\ t.items = pls.items
      /\ t.m_Current # PlsNone => t.m_File = t.m_Current
      /\ List!CurrentFile(t) \in 0 .. Len(pls.items) - 1
  BY <1>1, <1>3, NextFileKeeps
<1>5. pls' = t
  OBVIOUS
<1>6. Sound(pls)' /\ (pls.open /\ pls.m_Current # PlsNone => pls.m_File = pls.m_Current)'
  BY <1>4, <1>5, SoundPrimed
<1>7. scan' \in Scans /\ Scanned(pls, scan)'
  BY <1>1, <1>4, <1>5 DEF ListInv, Scanned, Holds
<1> PICK at : at = List!CurrentFile(t)
  OBVIOUS
<1>8. plsMenu' = IF plsMenu.open THEN [plsMenu EXCEPT !.at = at, !.m_NeedsUpdate = FALSE]
                 ELSE plsMenu
  BY <1>5 DEF List!PlsNextFile, List!CurrentFile, List!Current, List!ListIndex
<1>9. plsMenu' \in MenuFields /\ OnList(pls, plsMenu)'
  <2>1. plsMenu \in MenuFields /\ OnList(pls, plsMenu) /\ at \in 0 .. Len(pls.items) - 1
    BY <1>4 DEF ListInv
  <2> at \in Int
    BY <2>1, <1>1
  <2>2. plsMenu' \in MenuFields /\ plsMenu'.open = plsMenu.open /\ plsMenu'.marked = plsMenu.marked
    BY <1>8, <2>1, MenuDrawn
  <2>3. plsMenu.open => plsMenu'.at = at
    BY <1>8, <2>1, MenuDrawn
  <2> QED
    BY <2>1, <2>2, <2>3, <1>4, <1>5 DEF OnList
<1> QED
  BY <1>6, <1>7, <1>9, ListInvNow

(* The menu moves its cursor: the list and the scanner stay.                *)
LEMMA ListStays ==
  ASSUME ListInv, UNCHANGED <<pls, scan>>, plsMenu' \in MenuFields, OnList(pls, plsMenu)'
  PROVE  ListInv'
BY DEF ListInv, Sound, Listing, Holds, Scanned, PlayerList

LEMMA MenuOpenKeeps == ASSUME ListInv, List!MenuOpen PROVE ListInv'
<1> PICK at : at = List!CurrentFile(pls)
  OBVIOUS
<1>1. pls.open /\ UNCHANGED <<pls, scan>> /\ at \in 0 .. Len(pls.items) - 1 /\ Len(pls.items) \in Nat
  BY CurrentHeld DEF List!MenuOpen, ListInv, Sound, Listing
<1>2. plsMenu' = [open |-> TRUE, at |-> at, marked |-> -1, m_NeedsUpdate |-> FALSE]
  BY DEF List!MenuOpen, List!NoMenu
<1>3. plsMenu' \in MenuFields /\ OnList(pls, plsMenu)'
  BY <1>1, <1>2 DEF MenuFields, OnList
<1> QED
  BY <1>1, <1>3, ListStays

LEMMA MenuCursorKeeps == ASSUME ListInv, List!MenuCursor PROVE ListInv'
<1> PICK at \in 0 .. Len(pls.items) - 1 :
       plsMenu' = [plsMenu EXCEPT !.at = at, !.m_NeedsUpdate = FALSE]
  BY DEF List!MenuCursor
<1>1. /\ UNCHANGED <<pls, scan>> /\ plsMenu.open /\ pls.open /\ plsMenu \in MenuFields
      /\ OnList(pls, plsMenu) /\ Len(pls.items) \in Nat
  BY DEF List!MenuCursor, List!MenuKey, ListInv, Sound, Listing
<1> at \in Int
  BY <1>1
<1>2. /\ plsMenu' \in MenuFields /\ plsMenu'.at = at /\ plsMenu'.marked = plsMenu.marked
  BY <1>1, MenuDrawn
<1>3. OnList(pls, plsMenu)'
  BY <1>1, <1>2 DEF OnList
<1> QED
  BY <1>1, <1>2, <1>3, ListStays

LEMMA MenuMarkKeeps == ASSUME ListInv, List!MenuMark PROVE ListInv'
<1>1. /\ UNCHANGED <<pls, scan>> /\ plsMenu.open /\ pls.open /\ plsMenu \in MenuFields
      /\ OnList(pls, plsMenu) /\ Len(pls.items) \in Nat
      /\ plsMenu' = [plsMenu EXCEPT !.marked = plsMenu.at, !.m_NeedsUpdate = FALSE]
  BY DEF List!MenuMark, List!MenuKey, ListInv, Sound, Listing
<1>2. /\ plsMenu' \in MenuFields /\ plsMenu'.at = plsMenu.at /\ plsMenu'.marked = plsMenu.at
  BY <1>1 DEF MenuFields
<1>3. OnList(pls, plsMenu)'
  BY <1>1, <1>2 DEF OnList
<1> QED
  BY <1>1, <1>2, <1>3, ListStays

LEMMA MenuCloseKeeps == ASSUME ListInv, List!MenuClose PROVE ListInv'
<1>1. UNCHANGED <<pls, scan>>
      /\ plsMenu' = [open |-> FALSE, at |-> 0, marked |-> -1, m_NeedsUpdate |-> FALSE]
  BY DEF List!MenuClose, List!NoMenu
<1>2. plsMenu' \in MenuFields /\ OnList(pls, plsMenu)'
  BY <1>1 DEF MenuFields, OnList
<1> QED
  BY <1>1, <1>2, ListStays

(* A redraw with the cursor on the list, nothing marked.                    *)
LEMMA RedrawnKeeps ==
  ASSUME ListInv, NEW at, List!Redrawn(at), pls'.open, plsMenu.open,
         at \in 0 .. Len(pls'.items) - 1, Len(pls'.items) \in Nat
  PROVE  plsMenu' \in MenuFields /\ OnList(pls, plsMenu)'
<1>1. plsMenu \in MenuFields
      /\ plsMenu' = [plsMenu EXCEPT !.at = at, !.m_NeedsUpdate = FALSE, !.marked = -1]
  BY DEF ListInv, List!Redrawn
<1> at \in Int
  OBVIOUS
<1>2. plsMenu' \in MenuFields /\ plsMenu'.at = at /\ plsMenu'.marked = -1
  BY <1>1, MenuUnmarked
<1> QED
  BY <1>2 DEF OnList

LEMMA MenuMoveKeeps == ASSUME ListInv, List!MenuMove PROVE ListInv'
<1> DEFINE from == plsMenu.marked
           to == plsMenu.at
           s == pls.items
           moved == List!InsertAt(List!RemoveAt(s, from + 1), to + 1, s[from + 1])
<1>1. /\ pls.open /\ plsMenu.open /\ Listing(s) /\ Len(s) \in Nat
      /\ from \in 0 .. Len(s) - 1 /\ to \in 0 .. Len(s) - 1
      /\ List!Redrawn(to)
  BY DEF List!MenuMove, List!MenuKey, ListInv, Sound, Listing, OnList, MenuFields
<1>2. CASE Len(s) < 3
  <2>1. UNCHANGED <<pls, scan>>
    BY <1>2 DEF List!MenuMove
  <2>2. plsMenu' \in MenuFields /\ OnList(pls, plsMenu)'
    BY <1>1, <2>1, RedrawnKeeps
  <2> QED
    BY <2>1, <2>2, ListStays
<1>3. CASE ~(Len(s) < 3)
  <2>1. pls' = [pls EXCEPT !.items = moved] /\ List!Changed
    BY <1>3 DEF List!MenuMove, List!PlsMove
  <2>2. Listing(moved) /\ Len(moved) = Len(s) /\ \A x : Holds(s, x) => Holds(moved, x)
    BY <1>1, MoveKeeps
  <2> HIDE DEF moved
  <2>3. Len(moved) >= Len(s)
    BY <2>2, <1>1
  <2>4. /\ Sound(pls)' /\ (pls.open /\ pls.m_Current # PlsNone => pls.m_File = pls.m_Current)'
        /\ pls'.open /\ pls'.items = moved
    BY <1>1, <2>1, <2>2, <2>3, MorePlsKeeps
  <2>5. plsMenu' \in MenuFields /\ OnList(pls, plsMenu)'
    BY <1>1, <2>2, <2>4, RedrawnKeeps
  <2> QED
    BY <2>1, <2>4, <2>5, ChangedKeeps, ListInvNow
<1> QED
  BY <1>2, <1>3

LEMMA MenuSortKeeps == ASSUME ListInv, List!MenuSort PROVE ListInv'
<1> DEFINE s == pls.items
           sorted == List!Sorted(s)
           at == plsMenu.at
<1>1. /\ pls.open /\ plsMenu.open /\ Listing(s) /\ Len(s) \in Nat
      /\ at \in 0 .. Len(s) - 1 /\ List!Redrawn(at) /\ List!Changed
      /\ pls' = [pls EXCEPT !.items = sorted]
  BY DEF List!MenuSort, List!MenuKey, ListInv, Sound, Listing, OnList
<1>2. Listing(sorted) /\ Len(sorted) = Len(s) /\ \A x : Holds(s, x) => Holds(sorted, x)
  BY <1>1, SortedKeeps
<1> HIDE DEF sorted
<1>3. Len(sorted) >= Len(s)
  BY <1>1, <1>2
<1>4. /\ Sound(pls)' /\ (pls.open /\ pls.m_Current # PlsNone => pls.m_File = pls.m_Current)'
      /\ pls'.open /\ pls'.items = sorted
  BY <1>1, <1>2, <1>3, MorePlsKeeps
<1>5. plsMenu' \in MenuFields /\ OnList(pls, plsMenu)'
  BY <1>1, <1>2, <1>4, RedrawnKeeps
<1> QED
  BY <1>1, <1>4, <1>5, ChangedKeeps, ListInvNow

(* The line that plays is replaced by the one the control jumps to; another *)
(* line leaves the current item alone.                                      *)
LEMMA MenuRemoveKeeps == ASSUME ListInv, List!MenuRemove PROVE ListInv'
<1> DEFINE s == pls.items
           at == plsMenu.at
           last == Len(s) - 1
<1>1. /\ pls.open /\ plsMenu.open /\ Sound(pls) /\ Listing(s) /\ Len(s) \in Nat /\ Len(s) > 1
      /\ at \in 0 .. last
  BY DEF List!MenuRemove, List!MenuKey, ListInv, Sound, Listing, OnList
<1> PICK l : l = List!Del(pls, s[at + 1])
  OBVIOUS
<1>2. /\ Sound(l) /\ l.open /\ Len(l.items) = Len(s) - 1 /\ l.m_File = pls.m_File
      /\ pls.m_Current # s[at + 1] => l.m_Current = pls.m_Current
  BY <1>1, DelKeeps
<1> PICK current : current = List!CurrentFile(pls)
  OBVIOUS
<1> PICK where : where = List!CurrentFile(l)
  OBVIOUS
<1>3. current \in 0 .. last /\ s[current + 1] = List!Current(pls) /\ current \in Int
      /\ (pls.m_Current # PlsNone => List!Current(pls) = pls.m_Current)
  BY <1>1, CurrentHeld
<1>4. where \in 0 .. Len(l.items) - 1 /\ where \in Int /\ Len(l.items) \in Nat
  BY <1>1, <1>2, CurrentHeld
<1>5. scan' \in Scans /\ Scanned(pls, scan)'
  BY ChangedKeeps DEF List!MenuRemove, List!DelChanges
<1> PICK jump \in Int : jump = IF current < last THEN current ELSE current - 1
  BY <1>3
<1>6. CASE current = at
  <2> PICK t : t = List!NextFile(l, jump - where)
    OBVIOUS
  <2>0. pls' = t /\ List!Redrawn(List!CurrentFile(pls'))
    BY <1>6 DEF List!MenuRemove
  <2>1. pls' = t /\ List!Redrawn(List!CurrentFile(t))
    BY <2>0
  <2>2. jump - where \in Int
    BY <1>4
  <2>3. /\ Sound(t) /\ t.open /\ t.items = l.items
        /\ t.m_Current # PlsNone => t.m_File = t.m_Current
        /\ List!CurrentFile(t) \in 0 .. Len(l.items) - 1
    BY ZenonT(30), <1>2, <2>2, NextFileKeeps
  <2> PICK new : new = List!CurrentFile(t)
    OBVIOUS
  <2>4. plsMenu' \in MenuFields /\ OnList(pls, plsMenu)'
    BY <1>1, <1>4, <2>1, <2>3, RedrawnKeeps
  <2>5. Sound(pls)' /\ (pls.open /\ pls.m_Current # PlsNone => pls.m_File = pls.m_Current)'
    BY <2>1, <2>3, SoundPrimed
  <2> QED
    BY <1>5, <2>4, <2>5, ListInvNow
<1>7. CASE current # at
  <2>1. pls' = l /\ List!Redrawn(IF at = last THEN at - 1 ELSE at)
    BY <1>7 DEF List!MenuRemove
  <2>2. pls.m_Current # PlsNone => s[at + 1] # pls.m_Current
    <3>1. at + 1 \in 1 .. Len(s) /\ current + 1 \in 1 .. Len(s) /\ at + 1 # current + 1
      BY <1>1, <1>3, <1>7
    <3>2. s[at + 1] # s[current + 1]
      BY <1>1, <3>1 DEF Listing
    <3> QED
      BY <1>3, <3>2
  <2>3. s[at + 1] \in Items
    BY <1>1 DEF Listing
  <2>4. l.m_Current = pls.m_Current
    BY <1>2, <2>2, <2>3, ListAssumption
  <2>5. Sound(pls)' /\ (pls.open /\ pls.m_Current # PlsNone => pls.m_File = pls.m_Current)'
    BY <1>1, <1>2, <2>1, <2>4, SoundPrimed DEF ListInv
  <2> PICK new \in Int : new = IF at = last THEN at - 1 ELSE at
    BY <1>1
  <2>6. new \in 0 .. Len(l.items) - 1
    BY <1>1, <1>2
  <2>7. plsMenu' \in MenuFields /\ OnList(pls, plsMenu)'
    BY <1>1, <1>2, <1>4, <2>1, <2>6, RedrawnKeeps
  <2> QED
    BY <1>5, <2>5, <2>7, ListInvNow
<1> QED
  BY <1>6, <1>7

(* A step of the scanner takes its next item from the list it has locked.   *)
LEMMA ScanStepKeeps == ASSUME ListInv, List!ScanStep PROVE ListInv'
<1> PICK at : at = IF scan.stale \/ scan.item = PlsNone THEN 0 ELSE List!ListIndex(pls, scan.item) + 1
  OBVIOUS
<1>1. /\ UNCHANGED <<pls, plsMenu>> /\ scan.run = "scan" /\ scan \in Scans /\ Listing(pls.items)
      /\ pls.items \in Seq(Items) /\ Len(pls.items) \in Nat /\ Scanned(pls, scan)
  BY DEF List!ScanStep, ListInv, Sound, Listing
<1>2. at \in Nat
  <2>1. CASE scan.stale \/ scan.item = PlsNone
    BY <2>1
  <2>2. CASE ~(scan.stale \/ scan.item = PlsNone)
    <3>1. Holds(pls.items, scan.item)
      BY <1>1, <2>2 DEF Scanned, Scans
    <3>2. List!ListIndex(pls, scan.item) \in 0 .. Len(pls.items) - 1
      BY <1>1, <3>1, IndexOf
    <3> QED
      BY <2>2, <3>2
  <2> QED
    BY <2>1, <2>2
<1>3. scan' = IF at < Len(pls.items)
              THEN [run |-> "scan", item |-> pls.items[at + 1], stale |-> FALSE]
              ELSE [run |-> "sort", item |-> PlsNone, stale |-> FALSE]
  BY DEF List!ScanStep
<1>4. CASE at < Len(pls.items)
  <2>1. pls.items[at + 1] \in Items /\ Holds(pls.items, pls.items[at + 1])
    BY <1>1, <1>2, <1>4 DEF Holds
  <2>2. scan' \in Scans /\ scan'.item = pls.items[at + 1]
    BY <1>3, <1>4, <2>1 DEF Scans
  <2>3. Scanned(pls, scan)'
    BY <1>1, <2>1, <2>2 DEF Scanned, Holds
  <2> QED
    BY <1>1, <2>2, <2>3, SoundPrimed, ListInvNow DEF ListInv, OnList
<1>5. CASE ~(at < Len(pls.items))
  <2>1. scan' \in Scans /\ scan'.run = "sort"
    BY <1>3, <1>5 DEF Scans
  <2>2. Scanned(pls, scan)'
    BY <2>1 DEF Scanned
  <2> QED
    BY <1>1, <2>1, <2>2, SoundPrimed, ListInvNow DEF ListInv, OnList
<1> QED
  BY <1>4, <1>5

LEMMA PlaylistChangedKeeps == ASSUME ListInv, List!PlaylistChanged PROVE ListInv'
<1> DEFINE s == pls.items
           sorted == List!Sorted(s)
<1>1. /\ Sound(pls) /\ pls \in PlayerList /\ Listing(s) /\ s \in Seq(Items)
      /\ pls' = [pls EXCEPT !.items = sorted] /\ Len(s) \in Nat
      /\ scan' = [run |-> "off", item |-> PlsNone, stale |-> FALSE]
      /\ plsMenu \in MenuFields /\ OnList(pls, plsMenu)
      /\ plsMenu' = [plsMenu EXCEPT !.m_NeedsUpdate = plsMenu.open]
  BY DEF List!PlaylistChanged, List!NoScan, ListInv, Sound, Listing
<1>2. Listing(sorted) /\ Len(sorted) = Len(s) /\ \A x : Holds(s, x) => Holds(sorted, x)
  BY <1>1, SortedKeeps
<1>3. sorted \in Seq(Items)
  BY <1>2 DEF Listing
<1> HIDE DEF sorted
<1>4. /\ pls' \in PlayerList /\ pls'.items = sorted /\ pls'.open = pls.open
      /\ pls'.m_Current = pls.m_Current /\ pls'.m_File = pls.m_File
  BY <1>1, <1>3 DEF PlayerList
<1>5. s # <<>> => sorted # <<>>
  BY <1>1, <1>2, <1>3
<1>6. Sound(pls')
  BY <1>1, <1>2, <1>4, <1>5 DEF Sound
<1>7. Sound(pls)' /\ (pls.open /\ pls.m_Current # PlsNone => pls.m_File = pls.m_Current)'
  BY <1>4, <1>6, SoundPrimed DEF ListInv
<1>8. scan' \in Scans /\ Scanned(pls, scan)'
  BY <1>1 DEF Scans, Scanned
<1>9. /\ plsMenu' \in MenuFields /\ plsMenu'.open = plsMenu.open
      /\ plsMenu'.at = plsMenu.at /\ plsMenu'.marked = plsMenu.marked
  BY <1>1 DEF MenuFields
<1>10. OnList(pls, plsMenu)'
  BY <1>1, <1>2, <1>4, <1>9 DEF OnList
<1> QED
  BY <1>7, <1>8, <1>9, <1>10, ListInvNow

LEMMA ListInvNext == ListInv /\ [Next]_vars => ListInv'
<1>1. ListInv /\ UNCHANGED plsVars => ListInv'
  BY DEF ListInv, Sound, Listing, Holds, PlayerList, Scans, Scanned, MenuFields, OnList, plsVars
<1>2. [Next]_vars => List!PlsNext \/ UNCHANGED plsVars
  BY DEF Next, Step, OthersStay, Stopped, vars
<1> QED
  BY <1>1, <1>2, PlsOpenKeeps, PlsCloseKeeps, QueueKeeps, PlsNextFileKeeps, MenuOpenKeeps,
     MenuCursorKeeps, MenuMarkKeeps, MenuMoveKeeps, MenuSortKeeps, MenuRemoveKeeps,
     MenuCloseKeeps, ScanStepKeeps, PlaylistChangedKeeps DEF List!PlsNext

LEMMA ListInvAlive == ListInv => List!ItemsAlive
<1> SUFFICES ASSUME ListInv PROVE List!ItemsAlive
  OBVIOUS
<1>1. pls.items \in Seq(Items)
  BY DEF ListInv, Sound, Listing
<1>2. pls.m_Current # PlsNone => pls.m_Current \in List!Range(pls.items)
  BY <1>1, RangeHolds DEF ListInv, Sound
<1>3. scan.run = "scan" /\ ~scan.stale => scan.item \in List!Range(pls.items)
  BY <1>1, RangeHolds DEF ListInv, Scanned
<1> QED
  BY <1>2, <1>3 DEF ListInv, List!ItemsAlive

-----------------------------------------------------------------------------
(* However the menu, the keys, a queued file and the scanner of the        *)
(* metadata interleave: nobody keeps an item that Del() removed, because   *)
(* every change of the list counts m_Version up, and the current item is   *)
(* the one that plays (playlist.c); a control's handlers never leave two   *)
(* OSDs open (Hide() and Show() of media_player.c); the body of an HTTP    *)
(* reply is as long as its header says, wherever Seek() and Action() are   *)
(* in the file (http.c); and Schedule() never waits for a frame longer     *)
(* than a jump of the timestamps would be, although the speed is set in    *)
(* two halves that it may see between: before them and after them, if the  *)
(* clock has not wrapped meanwhile (udp_pes_scheduler.c).                  *)
THEOREM PlaybackIsKept == Spec => []PlaybackKept
<1> DEFINE Inv == PaceInv /\ HttpInv /\ ControlInv /\ ListInv
<1>1. Init => Inv
  BY PaceInvInit, HttpInvInit, ControlInvInit, ListInvInit DEF Init
<1>2. Inv /\ [Next]_vars => Inv'
  BY PaceInvNext, HttpInvNext, ControlInvNext, ListInvNext
<1>3. Inv => PlaybackKept
  BY PaceInvHeld, HttpInvAnnounced, ControlInvOneOsd, ListInvAlive DEF PlaybackKept
<1> QED
  BY <1>1, <1>2, <1>3, PTL DEF Spec
-----------------------------------------------------------------------------
(* The device.  What says whether a picture is shown is spread over the    *)
(* play mode, the file, the guess of a radio channel and the frontend; a   *)
(* handler is followed field by field.                                     *)

Flags == {"I_frames", "IPB_frames", "Backward", "NoAudio"}

Frontends == [m_bLiveMode : BOOLEAN, m_bNoVideo : BOOLEAN, still : BOOLEAN, m_TrickSpeed : Int,
              m_bTrickSpeedBack : BOOLEAN]

Devices == [m_PlayMode : Xinelib!PlayModes, m_liveMode : BOOLEAN, m_TrickSpeed : DevSpeeds \cup {-1, 0},
            m_TrickSpeedMode : SUBSET Flags, m_SkipAudio : BOOLEAN, m_PlayingFile : Xinelib!PlayModes,
            m_StreamStart : BOOLEAN, m_RadioStream : BOOLEAN, m_AudioCount : 0 .. AudioPackets,
            m_FreeBufs : Int, m_TsBuf : 0 .. TsPackets, fe : Frontends]

(* Where video may be fed and is not taken for radio, the frontends show   *)
(* it.                                                                     *)
PictureOn(d) ==
  d.m_PlayMode \notin {"None", "AudioOnlyBlack"} /\ d.m_PlayingFile \notin {"AudioVideo", "VideoOnly"}
  /\ ~d.m_RadioStream => ~d.fe.m_bNoVideo

Silent(d) ==
  /\ d.fe.m_bTrickSpeedBack <=> "Backward" \in d.m_TrickSpeedMode
  /\ d.fe.m_bTrickSpeedBack <=> "NoAudio" \in d.m_TrickSpeedMode

DevInv == dev \in Devices /\ PictureOn(dev) /\ Silent(dev) /\ videoSeen \in BOOLEAN /\ Xinelib!VideoShown

(* The fields the invariant is about, but the frontend's picture.          *)
SameShow(t, d) == t.m_PlayMode = d.m_PlayMode /\ t.m_PlayingFile = d.m_PlayingFile
                  /\ t.m_RadioStream = d.m_RadioStream
SameSpeed(t, d) == t.m_TrickSpeedMode = d.m_TrickSpeedMode
                   /\ t.fe.m_bTrickSpeedBack = d.fe.m_bTrickSpeedBack
SameLook(t, d) == SameShow(t, d) /\ t.fe.m_bNoVideo = d.fe.m_bNoVideo

LEMMA SetterFacts ==
  ASSUME NEW d \in Devices, NEW b \in BOOLEAN, NEW t
  PROVE  /\ t = Xinelib!SetLiveMode(d, b) => t \in Devices /\ SameLook(t, d) /\ SameSpeed(t, d)
         /\ t = Xinelib!SetStillMode(d, b) => t \in Devices /\ SameLook(t, d) /\ SameSpeed(t, d)
         /\ t = Xinelib!SetNoVideo(d, b) => t \in Devices /\ SameShow(t, d) /\ SameSpeed(t, d)
                                            /\ t.fe.m_bNoVideo = b
BY DEF Devices, Frontends, Xinelib!SetLiveMode, Xinelib!SetStillMode, Xinelib!SetNoVideo,
       SameLook, SameShow, SameSpeed

LEMMA FeSpeedFacts ==
  ASSUME NEW d \in Devices, NEW speed \in Int, NEW back \in BOOLEAN,
         NEW t, t = Xinelib!FeTrickSpeed(d, speed, back)
  PROVE  t \in Devices /\ SameLook(t, d) /\ t.m_TrickSpeedMode = d.m_TrickSpeedMode
         /\ t.fe.m_bTrickSpeedBack = back
BY DEF Devices, Frontends, Xinelib!FeTrickSpeed, SameLook, SameShow

LEMMA SpeedStep ==
  ASSUME NEW d \in Devices, NEW u \in Devices, SameLook(u, d), NEW real \in Int, NEW back \in BOOLEAN,
         back <=> "Backward" \in u.m_TrickSpeedMode, back <=> "NoAudio" \in u.m_TrickSpeedMode,
         NEW t, t = Xinelib!FeTrickSpeed(u, real, back)
  PROVE  t \in Devices /\ SameLook(t, d) /\ Silent(t)
<1>1. t \in Devices /\ SameLook(t, u) /\ t.m_TrickSpeedMode = u.m_TrickSpeedMode
      /\ t.fe.m_bTrickSpeedBack = back
  BY FeSpeedFacts
<1> QED
  BY <1>1 DEF SameLook, SameShow, Silent

LEMMA TrickSpeedFacts ==
  ASSUME NEW d \in Devices, Silent(d), NEW speed \in DevSpeeds \cup {-1, 0},
         NEW t, t = Xinelib!DevTrickSpeed(d, speed)
  PROVE  t \in Devices /\ SameLook(t, d) /\ Silent(t)
<1>1. speed \in Int /\ d.m_TrickSpeedMode \in SUBSET Flags
  BY DeviceAssumption DEF Devices
<1> PICK v : v = [d EXCEPT !.m_TrickSpeed = speed]
  OBVIOUS
<1>2. v \in Devices /\ SameLook(v, d) /\ v.m_TrickSpeedMode = d.m_TrickSpeedMode
  BY DEF Devices, SameLook, SameShow
<1>3. ASSUME NEW u \in Devices, SameLook(u, v), NEW real \in Int, NEW back \in BOOLEAN,
             back <=> "Backward" \in u.m_TrickSpeedMode, back <=> "NoAudio" \in u.m_TrickSpeedMode,
             t = Xinelib!FeTrickSpeed(u, real, back)
      PROVE  t \in Devices /\ SameLook(t, d) /\ Silent(t)
  <2>1. SameLook(u, d)
    BY <1>2, <1>3 DEF SameLook, SameShow
  <2> QED
    BY <1>3, <2>1, SpeedStep
<1>4. CASE d.m_TrickSpeed = speed
  <2>1. t = d
    BY <1>4 DEF Xinelib!DevTrickSpeed
  <2> QED
    BY <2>1 DEF SameLook, SameShow
<1>5. CASE d.m_TrickSpeed # speed
  <2> PICK real \in Int : real = (IF speed < 0 THEN -speed ELSE speed)
    BY <1>1
  <2> PICK slow \in Int : slow = (speed + 11) \div 12
    BY <1>1
  <2>1. CASE speed \in Xinelib!SlowForward
    <3>0. speed \notin Xinelib!SlowBackward /\ speed \notin Xinelib!Fast /\ speed \notin {-1, 0}
      BY <2>1 DEF Xinelib!SlowForward, Xinelib!SlowBackward, Xinelib!Fast
      <3> PICK u : u = [v EXCEPT !.m_TrickSpeedMode = {"IPB_frames"}]
        OBVIOUS
      <3>1. t = Xinelib!FeTrickSpeed(u, real, FALSE)
        BY <1>5, <2>1, <3>0 DEF Xinelib!DevTrickSpeed
      <3>2. u \in Devices /\ SameLook(u, v) /\ u.m_TrickSpeedMode = {"IPB_frames"}
        BY <1>1, <1>2 DEF Devices, Flags, SameLook, SameShow
      <3>3. (FALSE <=> "Backward" \in u.m_TrickSpeedMode) /\ (FALSE <=> "NoAudio" \in u.m_TrickSpeedMode)
        BY <3>2
      <3> QED
        BY <1>3, <3>1, <3>2, <3>3
  <2>2. CASE speed \in Xinelib!SlowBackward
    <3>0. speed \notin Xinelib!SlowForward /\ speed \notin Xinelib!Fast /\ speed \notin {-1, 0}
      BY <2>2 DEF Xinelib!SlowForward, Xinelib!SlowBackward, Xinelib!Fast
      <3> PICK u : u = [v EXCEPT !.m_TrickSpeedMode = {"I_frames", "Backward", "NoAudio"}]
        OBVIOUS
      <3>1. t = Xinelib!FeTrickSpeed(u, slow, TRUE)
        BY <1>5, <2>2, <3>0 DEF Xinelib!DevTrickSpeed
      <3>2. u \in Devices /\ SameLook(u, v) /\ u.m_TrickSpeedMode = {"I_frames", "Backward", "NoAudio"}
        BY <1>1, <1>2 DEF Devices, Flags, SameLook, SameShow
      <3>3. (TRUE <=> "Backward" \in u.m_TrickSpeedMode) /\ (TRUE <=> "NoAudio" \in u.m_TrickSpeedMode)
        BY <3>2
      <3> QED
        BY <1>3, <3>1, <3>2, <3>3
  <2>3. CASE speed \in Xinelib!Fast
    <3>0. speed \notin Xinelib!SlowForward /\ speed \notin Xinelib!SlowBackward /\ speed \notin {-1, 0}
      BY <2>3 DEF Xinelib!SlowForward, Xinelib!SlowBackward, Xinelib!Fast
    <3> PICK fast \in Int : fast = -(12 \div speed)
      BY <2>3 DEF Xinelib!Fast
    <3>1. CASE d.m_StreamStart \/ "Backward" \in d.m_TrickSpeedMode
        <4> PICK u : u = [v EXCEPT !.m_TrickSpeedMode = @ \cup {"I_frames", "Backward", "NoAudio"}]
          OBVIOUS
        <4>1. t = Xinelib!FeTrickSpeed(u, fast, TRUE)
          BY <1>5, <2>3, <3>0, <3>1 DEF Xinelib!DevTrickSpeed
        <4>2. u \in Devices /\ SameLook(u, v) /\ u.m_TrickSpeedMode = d.m_TrickSpeedMode \cup {"I_frames", "Backward", "NoAudio"}
          BY <1>1, <1>2 DEF Devices, Flags, SameLook, SameShow
        <4>3. (TRUE <=> "Backward" \in u.m_TrickSpeedMode) /\ (TRUE <=> "NoAudio" \in u.m_TrickSpeedMode)
          BY <4>2
        <4> QED
          BY <1>3, <4>1, <4>2, <4>3
    <3>2. CASE ~(d.m_StreamStart \/ "Backward" \in d.m_TrickSpeedMode)
        <4>4. "Backward" \notin d.m_TrickSpeedMode /\ "NoAudio" \notin d.m_TrickSpeedMode
      BY <3>2 DEF Silent
    <4> PICK u : u = [v EXCEPT !.m_TrickSpeedMode = @ \cup {"IPB_frames"}]
          OBVIOUS
        <4>1. t = Xinelib!FeTrickSpeed(u, fast, FALSE)
          BY <1>5, <2>3, <3>0, <3>2 DEF Xinelib!DevTrickSpeed
        <4>2. u \in Devices /\ SameLook(u, v) /\ u.m_TrickSpeedMode = d.m_TrickSpeedMode \cup {"IPB_frames"}
          BY <1>1, <1>2 DEF Devices, Flags, SameLook, SameShow
        <4>3. (FALSE <=> "Backward" \in u.m_TrickSpeedMode) /\ (FALSE <=> "NoAudio" \in u.m_TrickSpeedMode)
          BY <4>4, <4>2
        <4> QED
          BY <1>3, <4>1, <4>2, <4>3
    <3> QED
      BY <3>1, <3>2
  <2>4. CASE speed \in {-1, 0}
    <3>0. speed \notin Xinelib!SlowForward /\ speed \notin Xinelib!SlowBackward /\ speed \notin Xinelib!Fast
      BY <2>4 DEF Xinelib!SlowForward, Xinelib!SlowBackward, Xinelib!Fast
      <3> PICK u : u = [v EXCEPT !.m_TrickSpeedMode = {}]
        OBVIOUS
      <3>1. t = Xinelib!FeTrickSpeed(u, real, FALSE)
        BY <1>5, <2>4, <3>0 DEF Xinelib!DevTrickSpeed
      <3>2. u \in Devices /\ SameLook(u, v) /\ u.m_TrickSpeedMode = {}
        BY <1>1, <1>2 DEF Devices, Flags, SameLook, SameShow
      <3>3. (FALSE <=> "Backward" \in u.m_TrickSpeedMode) /\ (FALSE <=> "NoAudio" \in u.m_TrickSpeedMode)
        BY <3>2
      <3> QED
        BY <1>3, <3>1, <3>2, <3>3
  <2>5. CASE speed \notin Xinelib!SlowForward /\ speed \notin Xinelib!SlowBackward /\ speed \notin Xinelib!Fast /\ speed \notin {-1, 0}
    <3> PICK play \in Int : play = -1
      OBVIOUS
      <3> PICK u : u = [v EXCEPT !.m_TrickSpeedMode = {}, !.m_TrickSpeed = -1]
        OBVIOUS
      <3>1. t = Xinelib!FeTrickSpeed(u, play, FALSE)
        BY <1>5, <2>5 DEF Xinelib!DevTrickSpeed
      <3>2. u \in Devices /\ SameLook(u, v) /\ u.m_TrickSpeedMode = {}
        BY <1>1, <1>2 DEF Devices, Flags, SameLook, SameShow
      <3>3. (FALSE <=> "Backward" \in u.m_TrickSpeedMode) /\ (FALSE <=> "NoAudio" \in u.m_TrickSpeedMode)
        BY <3>2
      <3> QED
        BY <1>3, <3>1, <3>2, <3>3
  <2> QED
    BY <2>1, <2>2, <2>3, <2>4, <2>5
<1> QED
  BY <1>4, <1>5

LEMMA ClearFacts ==
  ASSUME NEW d \in Devices, Silent(d), NEW t, t = Xinelib!DevClear(d)
  PROVE  t \in Devices /\ SameLook(t, d) /\ Silent(t)
<1> PICK zero \in 0 .. TsPackets : zero = 0
  BY DeviceAssumption
<1> PICK u : u = [d EXCEPT !.m_TsBuf = zero, !.m_StreamStart = TRUE, !.m_FreeBufs = 0]
  OBVIOUS
<1>1. u \in Devices /\ SameLook(u, d) /\ SameSpeed(u, d)
  <2> PICK a : a = [d EXCEPT !.m_TsBuf = zero]
    OBVIOUS
  <2> PICK b : b = [a EXCEPT !.m_StreamStart = TRUE]
    OBVIOUS
  <2>1. a \in Devices
    BY DEF Devices
  <2>2. b \in Devices
    BY <2>1 DEF Devices
  <2>3. u = [b EXCEPT !.m_FreeBufs = 0]
    BY DEF Devices
  <2>4. u \in Devices
    BY ONLY <2>2, <2>3 DEF Devices
  <2> QED
    BY <2>4 DEF Devices, SameLook, SameShow, SameSpeed
<1>2. Silent(u)
  BY <1>1 DEF Silent, SameSpeed
<1> PICK v : v = Xinelib!DevTrickSpeed(u, -1)
  OBVIOUS
<1>3. v \in Devices /\ SameLook(v, u) /\ Silent(v)
  BY <1>1, <1>2, TrickSpeedFacts
<1>4. t = Xinelib!SetStillMode(v, FALSE)
  BY DEF Xinelib!DevClear
<1>5. t \in Devices /\ SameLook(t, v) /\ SameSpeed(t, v)
  BY <1>3, <1>4, SetterFacts
<1> QED
  BY <1>1, <1>3, <1>5 DEF SameLook, SameShow, SameSpeed, Silent

LEMMA PollFacts ==
  ASSUME NEW d \in Devices, NEW free \in Int, NEW t, t = Xinelib!DevPoll(d, free)
  PROVE  t \in Devices /\ SameLook(t, d) /\ SameSpeed(t, d)
<1>1. CASE t = d
  BY <1>1 DEF SameLook, SameShow, SameSpeed
<1>2. CASE t = [d EXCEPT !.m_FreeBufs = free]
  BY ONLY <1>2, d \in Devices, free \in Int DEF Devices, SameLook, SameShow, SameSpeed
<1> QED
  BY <1>1, <1>2 DEF Xinelib!DevPoll

LEMMA PlayAnyFacts ==
  ASSUME NEW d \in Devices, NEW free \in Int, NEW t, t = Xinelib!PlayAny(d, free)
  PROVE  t \in Devices /\ SameLook(t, d) /\ SameSpeed(t, d)
<1> PICK u : u = IF d.m_FreeBufs > 0 THEN d ELSE Xinelib!DevPoll(d, free)
  OBVIOUS
<1>1. u \in Devices /\ SameLook(u, d) /\ SameSpeed(u, d)
  BY PollFacts DEF SameLook, SameShow, SameSpeed
<1> PICK left : left = IF u.m_FreeBufs > -1 THEN u.m_FreeBufs - 1 ELSE u.m_FreeBufs
  OBVIOUS
<1>2. left \in Int
  BY <1>1 DEF Devices
<1>3. t = [u EXCEPT !.m_FreeBufs = left]
  BY DEF Xinelib!PlayAny
<1>4. t \in Devices /\ SameLook(t, u) /\ SameSpeed(t, u)
  BY ONLY <1>1, <1>2, <1>3 DEF Devices, SameLook, SameShow, SameSpeed
<1> QED
  BY <1>1, <1>4 DEF SameLook, SameShow, SameSpeed

LEMMA TsFlushFacts ==
  ASSUME NEW d \in Devices, NEW free \in Int, NEW t, t = Xinelib!TsBufferFlush(d, free)
  PROVE  t \in Devices /\ SameLook(t, d) /\ SameSpeed(t, d)
<1> PICK zero \in 0 .. TsPackets : zero = 0
  BY DeviceAssumption
<1> PICK u : u = Xinelib!PlayAny(d, free)
  OBVIOUS
<1>1. u \in Devices /\ SameLook(u, d) /\ SameSpeed(u, d)
  BY PlayAnyFacts
<1>2. CASE t = [u EXCEPT !.m_TsBuf = zero]
  <2>1. t \in Devices /\ SameLook(t, u) /\ SameSpeed(t, u)
    BY ONLY <1>1, <1>2, zero \in 0 .. TsPackets DEF Devices, SameLook, SameShow, SameSpeed
  <2> QED
    BY <1>1, <2>1 DEF SameLook, SameShow, SameSpeed
<1>3. CASE t = Xinelib!DevPoll(d, free)
  BY <1>3, PollFacts
<1>4. CASE t = d
  BY <1>4 DEF SameLook, SameShow, SameSpeed
<1> QED
  BY <1>2, <1>3, <1>4 DEF Xinelib!TsBufferFlush

LEMMA PlayTsFacts ==
  ASSUME NEW d \in Devices, NEW free \in Int, NEW r, r = Xinelib!PlayTsAny(d, free)
  PROVE  r \in Devices /\ SameLook(r, d) /\ SameSpeed(r, d)
<1> PICK t : t = IF d.m_TsBuf >= TsPackets THEN Xinelib!TsBufferFlush(d, free) ELSE d
  OBVIOUS
<1>1. t \in Devices /\ SameLook(t, d) /\ SameSpeed(t, d)
  BY TsFlushFacts DEF SameLook, SameShow, SameSpeed
<1>2. CASE t.m_TsBuf >= TsPackets
  <2>1. r = t
    BY <1>2 DEF Xinelib!PlayTsAny
  <2> QED
    BY <1>1, <2>1
<1>3. CASE ~(t.m_TsBuf >= TsPackets)
  <2>1. t.m_TsBuf + 1 \in 0 .. TsPackets
    BY <1>1, <1>3, DeviceAssumption DEF Devices
  <2> PICK full \in 0 .. TsPackets : full = t.m_TsBuf + 1
    BY <2>1
  <2> PICK u : u = [t EXCEPT !.m_TsBuf = full]
    OBVIOUS
  <2>2. u \in Devices /\ SameLook(u, t) /\ SameSpeed(u, t)
    BY ONLY <1>1, full \in 0 .. TsPackets, u = [t EXCEPT !.m_TsBuf = full]
       DEF Devices, SameLook, SameShow, SameSpeed
  <2>3. r = u \/ r = Xinelib!TsBufferFlush(u, free)
    BY <1>3 DEF Xinelib!PlayTsAny
  <2>4. CASE r = u
    BY <1>1, <2>2, <2>4 DEF SameLook, SameShow, SameSpeed
  <2>5. CASE r = Xinelib!TsBufferFlush(u, free)
    <3>1. r \in Devices /\ SameLook(r, u) /\ SameSpeed(r, u)
      BY <2>2, <2>5, TsFlushFacts
    <3> QED
      BY <1>1, <2>2, <3>1 DEF SameLook, SameShow, SameSpeed
  <2> QED
    BY <2>3, <2>4, <2>5
<1> QED
  BY <1>2, <1>3

(* What a change of the mode leaves: nothing but radio is without video.   *)
RadioOnly(d) == d.fe.m_bNoVideo => d.m_RadioStream

LEMMA StopOutputFacts ==
  ASSUME NEW d \in Devices, Silent(d), NEW t, t = Xinelib!StopOutput(d)
  PROVE  t \in Devices /\ RadioOnly(t) /\ Silent(t)
<1> PICK zero \in 0 .. AudioPackets : zero = 0
  BY DeviceAssumption
<1> PICK z : z = [d EXCEPT !.m_RadioStream = FALSE]
  OBVIOUS
<1>1. z \in Devices /\ SameSpeed(z, d) /\ ~z.m_RadioStream
  BY DEF Devices, SameSpeed
<1> PICK a : a = [z EXCEPT !.m_AudioCount = zero]
  OBVIOUS
<1>2. a \in Devices /\ SameSpeed(a, z) /\ ~a.m_RadioStream
  BY ONLY <1>1, zero \in 0 .. AudioPackets, a = [z EXCEPT !.m_AudioCount = zero] DEF Devices, SameSpeed
<1>3. a = [d EXCEPT !.m_RadioStream = FALSE, !.m_AudioCount = 0]
  BY DEF Devices
<1> PICK b : b = Xinelib!SetLiveMode(a, FALSE)
  OBVIOUS
<1>4. b \in Devices /\ SameLook(b, a) /\ SameSpeed(b, a)
  BY <1>2, SetterFacts
<1>5. Silent(b)
  BY <1>1, <1>2, <1>4 DEF Silent, SameSpeed
<1> PICK c : c = Xinelib!DevClear(b)
  OBVIOUS
<1>6. c \in Devices /\ SameLook(c, b) /\ Silent(c)
  BY <1>4, <1>5, ClearFacts
<1>7. t = Xinelib!SetNoVideo(c, FALSE)
  BY <1>3 DEF Xinelib!StopOutput
<1>8. t \in Devices /\ SameSpeed(t, c) /\ ~t.fe.m_bNoVideo
  BY <1>6, <1>7, SetterFacts
<1> QED
  BY <1>6, <1>8 DEF Silent, SameSpeed, RadioOnly

LEMMA TvModeFacts ==
  ASSUME NEW d \in Devices, Silent(d), NEW chan \in BOOLEAN, NEW t, t = Xinelib!SetTvMode(d, chan)
  PROVE  t \in Devices /\ RadioOnly(t) /\ Silent(t)
<1> PICK zero \in 0 .. AudioPackets : zero = 0
  BY DeviceAssumption
<1> PICK radio \in BOOLEAN : radio = (chan \/ d.m_PlayMode = "AudioOnlyBlack")
  OBVIOUS
<1> PICK u1 : u1 = [d EXCEPT !.m_RadioStream = radio]
  OBVIOUS
<1> PICK u2 : u2 = [u1 EXCEPT !.m_StreamStart = TRUE]
  OBVIOUS
<1> PICK u3 : u3 = [u2 EXCEPT !.m_liveMode = TRUE]
  OBVIOUS
<1> PICK speed \in DevSpeeds \cup {-1, 0} : speed = -1
  OBVIOUS
<1> PICK u4 : u4 = [u3 EXCEPT !.m_TrickSpeed = speed]
  OBVIOUS
<1> PICK u5 : u5 = [u4 EXCEPT !.m_SkipAudio = FALSE]
  OBVIOUS
<1> PICK u : u = [u5 EXCEPT !.m_AudioCount = zero]
  OBVIOUS
<1>1. u1 \in Devices /\ SameSpeed(u1, d) /\ u1.m_RadioStream = radio
  BY ONLY d \in Devices, radio \in BOOLEAN, u1 = [d EXCEPT !.m_RadioStream = radio] DEF Devices, SameSpeed
<1>2. u2 \in Devices /\ SameSpeed(u2, u1) /\ u2.m_RadioStream = radio
  BY ONLY <1>1, u2 = [u1 EXCEPT !.m_StreamStart = TRUE] DEF Devices, SameSpeed
<1>3. u3 \in Devices /\ SameSpeed(u3, u2) /\ u3.m_RadioStream = radio
  BY ONLY <1>2, u3 = [u2 EXCEPT !.m_liveMode = TRUE] DEF Devices, SameSpeed
<1>4. u4 \in Devices /\ SameSpeed(u4, u3) /\ u4.m_RadioStream = radio
  BY ONLY <1>3, speed \in DevSpeeds \cup {-1, 0}, u4 = [u3 EXCEPT !.m_TrickSpeed = speed] DEF Devices, SameSpeed
<1>5. u5 \in Devices /\ SameSpeed(u5, u4) /\ u5.m_RadioStream = radio
  BY ONLY <1>4, u5 = [u4 EXCEPT !.m_SkipAudio = FALSE] DEF Devices, SameSpeed
<1>6. u \in Devices /\ SameSpeed(u, u5) /\ u.m_RadioStream = radio
  BY ONLY <1>5, zero \in 0 .. AudioPackets, u = [u5 EXCEPT !.m_AudioCount = zero] DEF Devices, SameSpeed
<1>7. Silent(u)
  BY <1>1, <1>2, <1>3, <1>4, <1>5, <1>6 DEF Silent, SameSpeed
<1> PICK v : v = [d EXCEPT !.m_RadioStream = radio, !.m_StreamStart = TRUE, !.m_liveMode = TRUE,
                           !.m_TrickSpeed = -1, !.m_SkipAudio = FALSE, !.m_AudioCount = 0]
  OBVIOUS
<1>8. v = u
  BY DEF Devices
<1> PICK c : c = Xinelib!DevClear(v)
  OBVIOUS
<1>9. c \in Devices /\ SameLook(c, u) /\ Silent(c)
  BY <1>6, <1>7, <1>8, ClearFacts
<1> PICK e : e = Xinelib!SetNoVideo(c, radio)
  OBVIOUS
<1>10. e \in Devices /\ SameShow(e, c) /\ SameSpeed(e, c) /\ e.fe.m_bNoVideo = radio
  BY <1>9, SetterFacts
<1>11. t = Xinelib!SetLiveMode(e, TRUE)
  BY DEF Xinelib!SetTvMode
<1>12. t \in Devices /\ SameLook(t, e) /\ SameSpeed(t, e)
  BY <1>10, <1>11, SetterFacts
<1> QED
  BY <1>6, <1>9, <1>10, <1>12 DEF SameLook, SameShow, Silent, SameSpeed, RadioOnly

LEMMA ReplayModeFacts ==
  ASSUME NEW d \in Devices, Silent(d), NEW t, t = Xinelib!SetReplayMode(d)
  PROVE  t \in Devices /\ RadioOnly(t) /\ Silent(t)
<1> PICK some \in 0 .. AudioPackets : some = AudioPackets
  BY DeviceAssumption
<1> PICK speed \in DevSpeeds \cup {-1, 0} : speed = -1
  OBVIOUS
<1> PICK u1 : u1 = [d EXCEPT !.m_RadioStream = TRUE]
  OBVIOUS
<1> PICK u2 : u2 = [u1 EXCEPT !.m_AudioCount = some]
  OBVIOUS
<1> PICK u3 : u3 = [u2 EXCEPT !.m_StreamStart = TRUE]
  OBVIOUS
<1> PICK u : u = [u3 EXCEPT !.m_TrickSpeed = speed]
  OBVIOUS
<1>1. u1 \in Devices /\ SameSpeed(u1, d)
  BY ONLY d \in Devices, u1 = [d EXCEPT !.m_RadioStream = TRUE] DEF Devices, SameSpeed
<1>2. u2 \in Devices /\ SameSpeed(u2, u1)
  BY ONLY <1>1, some \in 0 .. AudioPackets, u2 = [u1 EXCEPT !.m_AudioCount = some] DEF Devices, SameSpeed
<1>3. u3 \in Devices /\ SameSpeed(u3, u2)
  BY ONLY <1>2, u3 = [u2 EXCEPT !.m_StreamStart = TRUE] DEF Devices, SameSpeed
<1>4. u \in Devices /\ SameSpeed(u, u3)
  BY ONLY <1>3, speed \in DevSpeeds \cup {-1, 0}, u = [u3 EXCEPT !.m_TrickSpeed = speed] DEF Devices, SameSpeed
<1> PICK v : v = [d EXCEPT !.m_RadioStream = TRUE, !.m_AudioCount = AudioPackets,
                           !.m_StreamStart = TRUE, !.m_TrickSpeed = -1]
  OBVIOUS
<1>5. v = u
  BY DEF Devices
<1> PICK b : b = Xinelib!SetLiveMode(v, FALSE)
  OBVIOUS
<1>6. b \in Devices /\ SameSpeed(b, u)
  BY <1>4, <1>5, SetterFacts
<1>7. Silent(b)
  BY <1>1, <1>2, <1>3, <1>4, <1>6 DEF Silent, SameSpeed
<1> PICK c : c = Xinelib!DevClear(b)
  OBVIOUS
<1>8. c \in Devices /\ Silent(c)
  BY <1>6, <1>7, ClearFacts
<1> PICK e : e = Xinelib!SetNoVideo(c, FALSE)
  OBVIOUS
<1>9. e \in Devices /\ SameSpeed(e, c) /\ e.fe.m_bNoVideo = FALSE
  BY <1>8, SetterFacts
<1>10. t = [e EXCEPT !.m_liveMode = FALSE]
  BY DEF Xinelib!SetReplayMode
<1>11. t \in Devices /\ SameLook(t, e) /\ SameSpeed(t, e)
  BY ONLY <1>9, <1>10 DEF Devices, SameLook, SameShow, SameSpeed
<1> QED
  BY <1>8, <1>9, <1>11 DEF SameLook, Silent, SameSpeed, RadioOnly

LEMMA PlayModeFacts ==
  ASSUME NEW d \in Devices, Silent(d), NEW mode \in Xinelib!PlayModes, NEW r, r = Xinelib!SetPlayMode(d, mode)
  PROVE  r \in Devices /\ PictureOn(r) /\ Silent(r)
<1> PICK a : a = [d EXCEPT !.m_PlayMode = mode]
  OBVIOUS
<1>1. a \in Devices /\ SameSpeed(a, d) /\ a.m_PlayMode = mode /\ a.m_RadioStream = d.m_RadioStream
  BY ONLY d \in Devices, mode \in Xinelib!PlayModes, a = [d EXCEPT !.m_PlayMode = mode] DEF Devices, SameSpeed
<1>2. Silent(a)
  BY <1>1 DEF Silent, SameSpeed
<1> PICK t : t = Xinelib!DevTrickSpeed(a, -1)
  OBVIOUS
<1>3. t \in Devices /\ SameLook(t, a) /\ Silent(t)
  BY <1>1, <1>2, TrickSpeedFacts
<1>4. CASE mode = "AudioOnlyBlack"
  <2>1. r = Xinelib!SetNoVideo(t, TRUE)
    BY <1>4 DEF Xinelib!SetPlayMode
  <2>2. r \in Devices /\ SameShow(r, t) /\ SameSpeed(r, t)
    BY <1>3, <2>1, SetterFacts
  <2> QED
    BY <1>1, <1>3, <1>4, <2>2 DEF SameLook, SameShow, Silent, SameSpeed, PictureOn
<1>5. CASE mode # "AudioOnlyBlack"
  <2> PICK silent \in BOOLEAN : silent = (d.m_RadioStream /\ (d.m_liveMode \/ d.m_AudioCount < 1))
    OBVIOUS
  <2> PICK b : b = Xinelib!SetNoVideo(t, silent)
    OBVIOUS
  <2>1. b \in Devices /\ SameShow(b, t) /\ SameSpeed(b, t) /\ b.fe.m_bNoVideo = silent
    BY <1>3, SetterFacts
  <2>2. Silent(b)
    BY <1>3, <2>1 DEF Silent, SameSpeed
  <2>3. r = Xinelib!DevClear(b)
    BY <1>5 DEF Xinelib!SetPlayMode
  <2>4. r \in Devices /\ SameLook(r, b) /\ Silent(r)
    BY <2>1, <2>2, <2>3, ClearFacts
  <2> QED
    BY <1>1, <1>3, <2>1, <2>4 DEF SameLook, SameShow, PictureOn
<1> QED
  BY <1>4, <1>5

LEMMA ToldKeeps ==
  ASSUME NEW t \in Devices, PictureOn(t), Silent(t), Xinelib!Told(t)
  PROVE  DevInv'
<1>1. dev' = t /\ videoSeen' = FALSE
  BY DEF Xinelib!Told
<1> QED
  BY ONLY t \in Devices, PictureOn(t), Silent(t), <1>1 DEF DevInv, PictureOn, Silent, Xinelib!VideoShown

LEMMA LookKeeps ==
  ASSUME NEW d \in Devices, NEW t \in Devices, SameLook(t, d)
  PROVE  /\ PictureOn(d) => PictureOn(t)
         /\ RadioOnly(d) => RadioOnly(t)
         /\ RadioOnly(d) => PictureOn(d)
         /\ SameSpeed(t, d) /\ Silent(d) => Silent(t)
BY DEF SameLook, SameShow, PictureOn, RadioOnly, SameSpeed, Silent

LEMMA ModeKeeps == ASSUME DevInv, Xinelib!DevMode PROVE DevInv'
<1>0. dev \in Devices /\ Silent(dev)
  BY DEF DevInv
<1>1. ASSUME NEW mode \in Xinelib!PlayModes, Xinelib!Told(Xinelib!SetPlayMode(dev, mode)) PROVE DevInv'
  <2> PICK t : t = Xinelib!SetPlayMode(dev, mode)
    OBVIOUS
  <2>1. t \in Devices /\ PictureOn(t) /\ Silent(t)
    BY <1>0, PlayModeFacts
  <2> QED
    BY <1>1, <2>1, ToldKeeps
<1>2. ASSUME NEW t, t \in Devices /\ RadioOnly(t) /\ Silent(t), Xinelib!Told(t) PROVE DevInv'
  <2>1. PictureOn(t)
    BY <1>2 DEF PictureOn, RadioOnly
  <2> QED
    BY <1>2, <2>1, ToldKeeps
<1>3. ASSUME NEW radio \in BOOLEAN, Xinelib!Told(Xinelib!SetTvMode(dev, radio)) PROVE DevInv'
  <2> PICK t : t = Xinelib!SetTvMode(dev, radio)
    OBVIOUS
  <2>1. t \in Devices /\ RadioOnly(t) /\ Silent(t)
    BY <1>0, TvModeFacts
  <2> QED
    BY <1>2, <1>3, <2>1
<1>4. CASE Xinelib!Told(Xinelib!SetReplayMode(dev))
  <2> PICK t : t = Xinelib!SetReplayMode(dev)
    OBVIOUS
  <2>1. t \in Devices /\ RadioOnly(t) /\ Silent(t)
    BY <1>0, ReplayModeFacts
  <2> QED
    BY <1>2, <1>4, <2>1
<1>5. CASE Xinelib!Told(Xinelib!StopOutput(dev))
  <2> PICK t : t = Xinelib!StopOutput(dev)
    OBVIOUS
  <2>1. t \in Devices /\ RadioOnly(t) /\ Silent(t)
    BY <1>0, StopOutputFacts
  <2> QED
    BY <1>2, <1>5, <2>1
<1> QED
  BY <1>1, <1>3, <1>4, <1>5 DEF Xinelib!DevMode

LEMMA SpeedKeeps == ASSUME DevInv, Xinelib!DevSpeed \/ Xinelib!DevPlay PROVE DevInv'
<1>0. dev \in Devices /\ PictureOn(dev) /\ Silent(dev)
  BY DEF DevInv
<1>1. ASSUME NEW t, t \in Devices /\ SameLook(t, dev) /\ Silent(t), Xinelib!Told(t) PROVE DevInv'
  <2>1. PictureOn(t)
    BY <1>0, <1>1, LookKeeps
  <2> QED
    BY <1>1, <2>1, ToldKeeps
<1>2. ASSUME NEW speed \in DevSpeeds, Xinelib!Told(Xinelib!DevTrickSpeed(dev, speed)) PROVE DevInv'
  <2> PICK t : t = Xinelib!DevTrickSpeed(dev, speed)
    OBVIOUS
  <2>1. t \in Devices /\ SameLook(t, dev) /\ Silent(t)
    BY <1>0, TrickSpeedFacts
  <2> QED
    BY <1>1, <1>2, <2>1
<1>3. CASE Xinelib!Told(Xinelib!DevClear(dev))
  <2> PICK t : t = Xinelib!DevClear(dev)
    OBVIOUS
  <2>1. t \in Devices /\ SameLook(t, dev) /\ Silent(t)
    BY <1>0, ClearFacts
  <2> QED
    BY <1>1, <1>3, <2>1
<1>4. CASE Xinelib!DevPlay
  <2> PICK a : a = [dev EXCEPT !.m_SkipAudio = FALSE]
    OBVIOUS
  <2>1. a \in Devices /\ SameLook(a, dev) /\ SameSpeed(a, dev)
    BY ONLY <1>0, a = [dev EXCEPT !.m_SkipAudio = FALSE] DEF Devices, SameLook, SameShow, SameSpeed
  <2> PICK b : b = Xinelib!SetLiveMode(a, FALSE)
    OBVIOUS
  <2>2. b \in Devices /\ SameLook(b, a) /\ SameSpeed(b, a)
    BY <2>1, SetterFacts
  <2> PICK c : c = Xinelib!SetStillMode(b, FALSE)
    OBVIOUS
  <2>3. c \in Devices /\ SameLook(c, b) /\ SameSpeed(c, b)
    BY <2>2, SetterFacts
  <2>4. SameLook(c, dev) /\ Silent(c)
    BY <1>0, <2>1, <2>2, <2>3 DEF SameLook, SameShow, SameSpeed, Silent
  <2> PICK t : t = Xinelib!DevTrickSpeed(c, -1)
    OBVIOUS
  <2>5. t \in Devices /\ SameLook(t, c) /\ Silent(t)
    BY <2>3, <2>4, TrickSpeedFacts
  <2>6. SameLook(t, dev)
    BY <2>4, <2>5 DEF SameLook, SameShow
  <2>7. Xinelib!Told(t)
    BY <1>4 DEF Xinelib!DevPlay
  <2> QED
    BY <1>1, <2>5, <2>6, <2>7
<1> QED
  BY <1>2, <1>3, <1>4 DEF Xinelib!DevSpeed

LEMMA FreezeKeeps == ASSUME DevInv, Xinelib!DevFreeze \/ Xinelib!DevFlush PROVE DevInv'
<1>0. dev \in Devices /\ PictureOn(dev) /\ Silent(dev)
  BY DEF DevInv
<1>1. PICK free \in 0 .. DevFree :
        \/ Xinelib!Told(Xinelib!DevTrickSpeed(Xinelib!TsBufferFlush(dev, free), 0))
        \/ LET t == Xinelib!TsBufferFlush(dev, free)
           IN Xinelib!Told(IF t.m_TrickSpeed = 0
                           THEN Xinelib!DevTrickSpeed(Xinelib!SetLiveMode(t, FALSE), -1) ELSE t)
  BY DEF Xinelib!DevFreeze, Xinelib!DevFlush
<1> PICK a : a = Xinelib!TsBufferFlush(dev, free)
  OBVIOUS
<1>2. a \in Devices /\ SameLook(a, dev) /\ SameSpeed(a, dev)
  BY <1>0, TsFlushFacts
<1>3. Silent(a) /\ PictureOn(a)
  BY <1>0, <1>2, LookKeeps
<1> PICK b : b = Xinelib!SetLiveMode(a, FALSE)
  OBVIOUS
<1>4. b \in Devices /\ SameLook(b, a) /\ SameSpeed(b, a)
  BY <1>2, SetterFacts
<1>5. Silent(b) /\ PictureOn(b)
  BY <1>2, <1>3, <1>4, LookKeeps
<1>6. ASSUME NEW u \in Devices, Silent(u), PictureOn(u), NEW s \in {-1, 0},
             Xinelib!Told(Xinelib!DevTrickSpeed(u, s))
      PROVE  DevInv'
  <2> PICK t : t = Xinelib!DevTrickSpeed(u, s)
    OBVIOUS
  <2>1. t \in Devices /\ SameLook(t, u) /\ Silent(t)
    BY <1>6, TrickSpeedFacts
  <2>2. PictureOn(t)
    BY <1>6, <2>1, LookKeeps
  <2> QED
    BY <1>6, <2>1, <2>2, ToldKeeps
<1>7. \/ Xinelib!Told(Xinelib!DevTrickSpeed(a, 0))
      \/ Xinelib!Told(Xinelib!DevTrickSpeed(b, -1))
      \/ Xinelib!Told(a)
  BY <1>1
<1> QED
  BY <1>2, <1>3, <1>4, <1>5, <1>6, <1>7, ToldKeeps

LEMMA StillKeeps == ASSUME DevInv, Xinelib!StillPicture PROVE DevInv'
<1>0. dev \in Devices /\ Silent(dev)
  BY DEF DevInv
<1>1. PICK free \in 0 .. DevFree :
        LET t == Xinelib!SetStillMode(Xinelib!SetLiveMode(Xinelib!SetNoVideo(
                   Xinelib!TsBufferFlush(dev, free), FALSE), FALSE), TRUE)
            fed == [t EXCEPT !.m_TrickSpeed = -1, !.m_SkipAudio = TRUE]
        IN Xinelib!Told([Xinelib!TsBufferFlush(fed, free) EXCEPT !.m_TrickSpeed = 0, !.m_SkipAudio = FALSE])
  BY DEF Xinelib!StillPicture
<1> PICK a : a = Xinelib!TsBufferFlush(dev, free)
  OBVIOUS
<1>2. a \in Devices /\ SameSpeed(a, dev)
  BY <1>0, TsFlushFacts
<1> PICK b : b = Xinelib!SetNoVideo(a, FALSE)
  OBVIOUS
<1>3. b \in Devices /\ SameSpeed(b, a) /\ b.fe.m_bNoVideo = FALSE
  BY <1>2, SetterFacts
<1> PICK c : c = Xinelib!SetLiveMode(b, FALSE)
  OBVIOUS
<1>4. c \in Devices /\ SameLook(c, b) /\ SameSpeed(c, b)
  BY <1>3, SetterFacts
<1> PICK t : t = Xinelib!SetStillMode(c, TRUE)
  OBVIOUS
<1>5. t \in Devices /\ SameLook(t, c) /\ SameSpeed(t, c)
  BY <1>4, SetterFacts
<1> PICK play \in DevSpeeds \cup {-1, 0} : play = -1
  OBVIOUS
<1> PICK fed1 : fed1 = [t EXCEPT !.m_TrickSpeed = play]
  OBVIOUS
<1>6. fed1 \in Devices /\ SameLook(fed1, t) /\ SameSpeed(fed1, t)
  BY ONLY <1>5, play \in DevSpeeds \cup {-1, 0}, fed1 = [t EXCEPT !.m_TrickSpeed = play]
     DEF Devices, SameLook, SameShow, SameSpeed
<1> PICK fed : fed = [fed1 EXCEPT !.m_SkipAudio = TRUE]
  OBVIOUS
<1>7. fed \in Devices /\ SameLook(fed, fed1) /\ SameSpeed(fed, fed1)
  BY ONLY <1>6, fed = [fed1 EXCEPT !.m_SkipAudio = TRUE] DEF Devices, SameLook, SameShow, SameSpeed
<1>8. fed = [t EXCEPT !.m_TrickSpeed = -1, !.m_SkipAudio = TRUE]
  BY ONLY <1>5, play = -1, fed1 = [t EXCEPT !.m_TrickSpeed = play],
          fed = [fed1 EXCEPT !.m_SkipAudio = TRUE] DEF Devices
<1> PICK u : u = Xinelib!TsBufferFlush(fed, free)
  OBVIOUS
<1>9. u \in Devices /\ SameLook(u, fed) /\ SameSpeed(u, fed)
  BY <1>7, TsFlushFacts
<1> PICK pause \in DevSpeeds \cup {-1, 0} : pause = 0
  OBVIOUS
<1> PICK w1 : w1 = [u EXCEPT !.m_TrickSpeed = pause]
  OBVIOUS
<1>10. w1 \in Devices /\ SameLook(w1, u) /\ SameSpeed(w1, u)
  BY ONLY <1>9, pause \in DevSpeeds \cup {-1, 0}, w1 = [u EXCEPT !.m_TrickSpeed = pause]
     DEF Devices, SameLook, SameShow, SameSpeed
<1> PICK w : w = [w1 EXCEPT !.m_SkipAudio = FALSE]
  OBVIOUS
<1>11. w \in Devices /\ SameLook(w, w1) /\ SameSpeed(w, w1)
  BY ONLY <1>10, w = [w1 EXCEPT !.m_SkipAudio = FALSE] DEF Devices, SameLook, SameShow, SameSpeed
<1>12. w = [u EXCEPT !.m_TrickSpeed = 0, !.m_SkipAudio = FALSE]
  BY ONLY <1>9, pause = 0, w1 = [u EXCEPT !.m_TrickSpeed = pause],
          w = [w1 EXCEPT !.m_SkipAudio = FALSE] DEF Devices
<1>13. w.fe.m_bNoVideo = FALSE
  BY <1>3, <1>4, <1>5, <1>6, <1>7, <1>9, <1>10, <1>11 DEF SameLook
<1>14. SameSpeed(w, dev)
  <2>1. SameSpeed(t, dev)
    BY <1>2, <1>3, <1>4, <1>5 DEF SameSpeed
  <2>2. SameSpeed(w, t)
    BY <1>6, <1>7, <1>9, <1>10, <1>11 DEF SameSpeed
  <2> QED
    BY <2>1, <2>2 DEF SameSpeed
<1>15. PictureOn(w) /\ Silent(w)
  BY <1>0, <1>13, <1>14 DEF PictureOn, Silent, SameSpeed
<1>16. Xinelib!Told(w)
  BY <1>1, <1>8, <1>12
<1> QED
  BY <1>11, <1>15, <1>16, ToldKeeps

LEMMA FileKeeps == ASSUME DevInv, Xinelib!DevPlayFile \/ Xinelib!DevStopFile PROVE DevInv'
<1>0. dev \in Devices /\ PictureOn(dev) /\ Silent(dev)
  BY DEF DevInv
<1>1. CASE Xinelib!DevPlayFile
  <2>1. dev.m_PlayingFile = "None"
    BY <1>1 DEF Xinelib!DevPlayFile
  <2>2. PICK mode \in Xinelib!PlayModes \ {"None"}, image \in BOOLEAN :
          LET t == [dev EXCEPT !.m_PlayingFile = mode]
          IN Xinelib!Told(IF image THEN t ELSE Xinelib!StopOutput(t))
    BY <1>1 DEF Xinelib!DevPlayFile
  <2> PICK t : t = [dev EXCEPT !.m_PlayingFile = mode]
    OBVIOUS
  <2>3. t \in Devices /\ SameSpeed(t, dev) /\ t.m_PlayMode = dev.m_PlayMode
        /\ t.m_RadioStream = dev.m_RadioStream /\ t.fe.m_bNoVideo = dev.fe.m_bNoVideo
    BY ONLY <1>0, mode \in Xinelib!PlayModes \ {"None"}, t = [dev EXCEPT !.m_PlayingFile = mode]
       DEF Devices, SameSpeed
  <2>4. PictureOn(t) /\ Silent(t)
    BY <1>0, <2>1, <2>3 DEF PictureOn, Silent, SameSpeed
  <2> PICK s : s = Xinelib!StopOutput(t)
    OBVIOUS
  <2>5. s \in Devices /\ RadioOnly(s) /\ Silent(s)
    BY <2>3, <2>4, StopOutputFacts
  <2>6. PictureOn(s)
    BY <2>5 DEF PictureOn, RadioOnly
  <2>7. Xinelib!Told(t) \/ Xinelib!Told(s)
    BY <2>2
  <2> QED
    BY <2>3, <2>4, <2>5, <2>6, <2>7, ToldKeeps
<1>2. CASE Xinelib!DevStopFile
  <2>1. PICK radio \in BOOLEAN :
          Xinelib!Told([IF dev.m_liveMode THEN Xinelib!SetTvMode(dev, radio) ELSE Xinelib!SetReplayMode(dev)
                        EXCEPT !.m_PlayingFile = "None"])
    BY <1>2 DEF Xinelib!DevStopFile
  <2> PICK tv : tv = Xinelib!SetTvMode(dev, radio)
    OBVIOUS
  <2>2. tv \in Devices /\ RadioOnly(tv) /\ Silent(tv)
    BY <1>0, TvModeFacts
  <2> PICK replay : replay = Xinelib!SetReplayMode(dev)
    OBVIOUS
  <2>3. replay \in Devices /\ RadioOnly(replay) /\ Silent(replay)
    BY <1>0, ReplayModeFacts
  <2> PICK d : d = IF dev.m_liveMode THEN tv ELSE replay
    OBVIOUS
  <2>4. d \in Devices /\ RadioOnly(d) /\ Silent(d)
    BY <2>2, <2>3
  <2> PICK t : t = [d EXCEPT !.m_PlayingFile = "None"]
    OBVIOUS
  <2>5. t \in Devices /\ SameSpeed(t, d) /\ t.m_RadioStream = d.m_RadioStream
        /\ t.fe.m_bNoVideo = d.fe.m_bNoVideo
    BY ONLY <2>4, t = [d EXCEPT !.m_PlayingFile = "None"] DEF Devices, SameSpeed, Xinelib!PlayModes
  <2>6. PictureOn(t) /\ Silent(t)
    BY <2>4, <2>5 DEF PictureOn, RadioOnly, Silent, SameSpeed
  <2>7. Xinelib!Told(t)
    BY <2>1
  <2> QED
    BY <2>5, <2>6, <2>7, ToldKeeps
<1> QED
  BY <1>1, <1>2

(* However a packet is passed on, the look stays.                          *)
LEMMA PassFacts ==
  ASSUME NEW d \in Devices, NEW free \in Int, NEW ts \in BOOLEAN, NEW t,
         t = IF ts THEN Xinelib!PlayTsAny(d, free)
             ELSE IF Xinelib!PlayAnyOk(d, free) THEN Xinelib!PlayAny(d, free)
             ELSE Xinelib!DevPoll(d, free)
  PROVE  t \in Devices /\ SameLook(t, d) /\ SameSpeed(t, d)
<1>1. CASE t = Xinelib!PlayTsAny(d, free)
  BY <1>1, PlayTsFacts
<1>2. CASE t = Xinelib!PlayAny(d, free)
  BY <1>2, PlayAnyFacts
<1>3. CASE t = Xinelib!DevPoll(d, free)
  BY <1>3, PollFacts
<1> QED
  BY <1>1, <1>2, <1>3

LEMMA VideoKeeps == ASSUME DevInv, Xinelib!DevPlayVideo PROVE DevInv'
<1>0. dev \in Devices /\ PictureOn(dev) /\ Silent(dev)
  BY DEF DevInv
<1>1. CASE UNCHANGED Xinelib!devVars
  BY <1>1 DEF DevInv, PictureOn, Silent, Xinelib!VideoShown, Xinelib!devVars
<1>2. CASE ~UNCHANGED Xinelib!devVars
  <2>1. dev.m_PlayMode # "None" /\ Xinelib!AcceptsVideo(dev)
    BY <1>2 DEF Xinelib!DevPlayVideo
  <2>2. PICK free \in 0 .. DevFree, sizeFound, ts \in BOOLEAN :
          LET t == Xinelib!AcceptVideoPacket(dev)
              u == IF sizeFound THEN [t EXCEPT !.m_StreamStart = FALSE] ELSE t
          IN /\ dev' = IF ts THEN Xinelib!PlayTsAny(u, free)
                       ELSE IF Xinelib!PlayAnyOk(u, free) THEN Xinelib!PlayAny(u, free)
                       ELSE Xinelib!DevPoll(u, free)
             /\ videoSeen' = TRUE
    BY <1>2, <2>1 DEF Xinelib!DevPlayVideo
  <2> PICK zero \in 0 .. AudioPackets : zero = 0
    BY DeviceAssumption
  <2> PICK t : t = Xinelib!AcceptVideoPacket(dev)
    OBVIOUS
  <2>3. t \in Devices /\ SameSpeed(t, dev) /\ t.fe.m_bNoVideo = FALSE
    <3>1. CASE dev.m_RadioStream
      <4> PICK a : a = [dev EXCEPT !.m_RadioStream = FALSE]
        OBVIOUS
      <4>1. a \in Devices /\ SameSpeed(a, dev)
        BY ONLY <1>0, a = [dev EXCEPT !.m_RadioStream = FALSE] DEF Devices, SameSpeed
      <4> PICK b : b = [a EXCEPT !.m_AudioCount = zero]
        OBVIOUS
      <4>2. b \in Devices /\ SameSpeed(b, a)
        BY ONLY <4>1, zero \in 0 .. AudioPackets, b = [a EXCEPT !.m_AudioCount = zero] DEF Devices, SameSpeed
      <4>3. b = [dev EXCEPT !.m_RadioStream = FALSE, !.m_AudioCount = 0]
        BY ONLY <1>0, zero = 0, a = [dev EXCEPT !.m_RadioStream = FALSE], b = [a EXCEPT !.m_AudioCount = zero]
           DEF Devices
      <4>4. t = Xinelib!SetNoVideo(b, FALSE)
        BY <3>1, <4>3 DEF Xinelib!AcceptVideoPacket
      <4>5. t \in Devices /\ SameSpeed(t, b) /\ t.fe.m_bNoVideo = FALSE
        BY <4>2, <4>4, SetterFacts
      <4> QED
        BY <4>1, <4>2, <4>5 DEF SameSpeed
    <3>2. CASE ~dev.m_RadioStream
      <4>1. t = dev
        BY <3>2 DEF Xinelib!AcceptVideoPacket
      <4>2. dev.fe.m_bNoVideo = FALSE
        BY <1>0, <2>1, <3>2 DEF PictureOn, Xinelib!AcceptsVideo, Devices, Frontends
      <4> QED
        BY <1>0, <4>1, <4>2 DEF SameSpeed
    <3> QED
      BY <3>1, <3>2
  <2> PICK u : u = IF sizeFound THEN [t EXCEPT !.m_StreamStart = FALSE] ELSE t
    OBVIOUS
  <2>4. u \in Devices /\ SameLook(u, t) /\ SameSpeed(u, t)
    BY ONLY <2>3, u = (IF sizeFound THEN [t EXCEPT !.m_StreamStart = FALSE] ELSE t)
       DEF Devices, SameLook, SameShow, SameSpeed
  <2> PICK w : w = IF ts THEN Xinelib!PlayTsAny(u, free)
                   ELSE IF Xinelib!PlayAnyOk(u, free) THEN Xinelib!PlayAny(u, free)
                   ELSE Xinelib!DevPoll(u, free)
    OBVIOUS
  <2>5. w \in Devices /\ SameLook(w, u) /\ SameSpeed(w, u)
    BY <2>4, PassFacts
  <2>6. w.fe.m_bNoVideo = FALSE /\ Silent(w)
    BY <1>0, <2>3, <2>4, <2>5 DEF SameLook, SameSpeed, Silent
  <2>7. dev' = w /\ videoSeen' = TRUE
    BY <2>2
  <2> QED
    BY ONLY <2>5, <2>6, <2>7 DEF DevInv, PictureOn, Silent, Xinelib!VideoShown
<1> QED
  BY <1>1, <1>2

LEMMA AudioKeeps == ASSUME DevInv, Xinelib!DevPlayAudio PROVE DevInv'
<1>0. dev \in Devices /\ PictureOn(dev) /\ Silent(dev)
  BY DEF DevInv
<1>1. CASE UNCHANGED Xinelib!devVars
  BY <1>1 DEF DevInv, PictureOn, Silent, Xinelib!VideoShown, Xinelib!devVars
<1>2. CASE ~UNCHANGED Xinelib!devVars
  <2>1. PICK free \in 0 .. DevFree, ts \in BOOLEAN :
          LET t == Xinelib!AcceptAudioPacket(dev)
          IN /\ dev' = IF ts THEN Xinelib!PlayTsAny(t, free)
                       ELSE IF Xinelib!PlayAnyOk(t, free) THEN Xinelib!PlayAny(t, free)
                       ELSE Xinelib!DevPoll(t, free)
             /\ videoSeen' = FALSE
    BY <1>2 DEF Xinelib!DevPlayAudio
  <2> PICK t : t = Xinelib!AcceptAudioPacket(dev)
    OBVIOUS
  <2>2. t \in Devices /\ PictureOn(t) /\ Silent(t)
    <3>1. CASE dev.m_RadioStream /\ dev.m_AudioCount > 0
      <4>1. dev.m_AudioCount - 1 \in 0 .. AudioPackets
        BY <1>0, <3>1, DeviceAssumption DEF Devices
      <4> PICK left \in 0 .. AudioPackets : left = dev.m_AudioCount - 1
        BY <4>1
      <4> PICK a : a = [dev EXCEPT !.m_AudioCount = left]
        OBVIOUS
      <4>2. a \in Devices /\ SameLook(a, dev) /\ SameSpeed(a, dev)
        BY ONLY <1>0, left \in 0 .. AudioPackets, a = [dev EXCEPT !.m_AudioCount = left]
           DEF Devices, SameLook, SameShow, SameSpeed
      <4>3. t = a \/ t = Xinelib!SetNoVideo(a, TRUE)
        BY <3>1 DEF Xinelib!AcceptAudioPacket
      <4>4. CASE t = a
        BY <1>0, <4>2, <4>4, LookKeeps
      <4>5. CASE t = Xinelib!SetNoVideo(a, TRUE)
        <5>1. t \in Devices /\ SameShow(t, a) /\ SameSpeed(t, a)
          BY <4>2, <4>5, SetterFacts
        <5>2. t.m_RadioStream
          BY <3>1, <4>2, <5>1 DEF SameLook, SameShow
        <5> QED
          BY <1>0, <4>2, <5>1, <5>2 DEF PictureOn, Silent, SameSpeed
      <4> QED
        BY <4>3, <4>4, <4>5
    <3>2. CASE ~(dev.m_RadioStream /\ dev.m_AudioCount > 0)
      BY <1>0, <3>2 DEF Xinelib!AcceptAudioPacket
    <3> QED
      BY <3>1, <3>2
  <2> PICK w : w = IF ts THEN Xinelib!PlayTsAny(t, free)
                   ELSE IF Xinelib!PlayAnyOk(t, free) THEN Xinelib!PlayAny(t, free)
                   ELSE Xinelib!DevPoll(t, free)
    OBVIOUS
  <2>3. w \in Devices /\ SameLook(w, t) /\ SameSpeed(w, t)
    BY <2>2, PassFacts
  <2>4. PictureOn(w) /\ Silent(w)
    BY <2>2, <2>3, LookKeeps
  <2>5. Xinelib!Told(w)
    BY <2>1 DEF Xinelib!Told
  <2> QED
    BY <2>3, <2>4, <2>5, ToldKeeps
<1> QED
  BY <1>1, <1>2

LEMMA PmtKeeps == ASSUME DevInv, Xinelib!DevPlayPmt PROVE DevInv'
<1>0. dev \in Devices /\ PictureOn(dev) /\ Silent(dev)
  BY DEF DevInv
<1>1. PICK free \in 0 .. DevFree, radio \in BOOLEAN :
        LET t == Xinelib!TsBufferFlush(Xinelib!PlayTsAny(dev, free), free)
        IN Xinelib!Told(IF radio
                        THEN Xinelib!SetNoVideo([t EXCEPT !.m_RadioStream = TRUE, !.m_AudioCount = 0], TRUE)
                        ELSE t)
  BY DEF Xinelib!DevPlayPmt
<1> PICK zero \in 0 .. AudioPackets : zero = 0
  BY DeviceAssumption
<1> PICK s : s = Xinelib!PlayTsAny(dev, free)
  OBVIOUS
<1>2. s \in Devices /\ SameLook(s, dev) /\ SameSpeed(s, dev)
  BY <1>0, PlayTsFacts
<1> PICK t : t = Xinelib!TsBufferFlush(s, free)
  OBVIOUS
<1>3. t \in Devices /\ SameLook(t, s) /\ SameSpeed(t, s)
  BY <1>2, TsFlushFacts
<1>4. SameLook(t, dev) /\ SameSpeed(t, dev)
  BY <1>2, <1>3 DEF SameLook, SameShow, SameSpeed
<1>5. PictureOn(t) /\ Silent(t)
  BY <1>0, <1>3, <1>4, LookKeeps
<1> PICK a : a = [t EXCEPT !.m_RadioStream = TRUE]
  OBVIOUS
<1>6. a \in Devices /\ SameSpeed(a, t) /\ a.m_RadioStream
  BY ONLY <1>3, a = [t EXCEPT !.m_RadioStream = TRUE] DEF Devices, SameSpeed
<1> PICK b : b = [a EXCEPT !.m_AudioCount = zero]
  OBVIOUS
<1>7. b \in Devices /\ SameSpeed(b, a) /\ b.m_RadioStream
  BY ONLY <1>6, zero \in 0 .. AudioPackets, b = [a EXCEPT !.m_AudioCount = zero] DEF Devices, SameSpeed
<1>8. b = [t EXCEPT !.m_RadioStream = TRUE, !.m_AudioCount = 0]
  BY ONLY <1>3, zero = 0, a = [t EXCEPT !.m_RadioStream = TRUE], b = [a EXCEPT !.m_AudioCount = zero]
     DEF Devices
<1> PICK c : c = Xinelib!SetNoVideo(b, TRUE)
  OBVIOUS
<1>9. c \in Devices /\ SameShow(c, b) /\ SameSpeed(c, b)
  BY <1>7, SetterFacts
<1>10. PictureOn(c) /\ Silent(c)
  BY <1>5, <1>6, <1>7, <1>9 DEF SameShow, PictureOn, Silent, SameSpeed
<1>11. Xinelib!Told(t) \/ Xinelib!Told(c)
  BY <1>1, <1>8
<1> QED
  BY <1>3, <1>5, <1>9, <1>10, <1>11, ToldKeeps

LEMMA DeviceBegins == ASSUME Xinelib!DevInit PROVE DevInv
<1>1. 0 \in 0 .. AudioPackets /\ 0 \in 0 .. TsPackets
  BY DeviceAssumption
<1>2. dev \in Devices
  BY <1>1 DEF Xinelib!DevInit, Devices, Frontends, Flags, Xinelib!PlayModes
<1>3. PictureOn(dev) /\ Silent(dev) /\ videoSeen = FALSE
  BY DEF Xinelib!DevInit, PictureOn, Silent
<1> QED
  BY <1>2, <1>3 DEF DevInv, Xinelib!VideoShown

LEMMA DevInvNext == ASSUME DevInv, [Next]_vars PROVE DevInv'
<1>1. CASE Xinelib!DevNext
  BY <1>1, ModeKeeps, SpeedKeeps, FreezeKeeps, StillKeeps, FileKeeps, VideoKeeps, AudioKeeps, PmtKeeps
     DEF Xinelib!DevNext
<1>2. CASE UNCHANGED devVars
  BY <1>2 DEF DevInv, PictureOn, Silent, Xinelib!VideoShown, devVars
<1> QED
  BY <1>1, <1>2 DEF Next, Step, OthersStay, Stopped, vars, devVars

LEMMA DevInvKept == DevInv => Xinelib!VideoShown /\ Xinelib!ReverseIsSilent
  BY DEF DevInv, Silent, Xinelib!ReverseIsSilent

-----------------------------------------------------------------------------
(* The OSDs.  An operation is followed by what it leaves of the windows    *)
(* that are open: those of visible OSDs with a device, and no others.      *)

Provider(s) == s = [m_OsdStack |-> s.m_OsdStack, m_Layer |-> s.m_Layer, m_IsVisible |-> s.m_IsVisible,
                    m_WindowHandles |-> s.m_WindowHandles, m_HandlesBitmap |-> s.m_HandlesBitmap,
                    alive |-> s.alive, attached |-> s.attached, windows |-> s.windows]

Live(s) == s.m_IsVisible \cap s.attached

HandlesDiffer(s) == \A o, p \in Osds : o # p => s.m_WindowHandles[o] \cap s.m_WindowHandles[p] = {}

OsdSound(s) ==
  /\ Provider(s)
  /\ s.alive \subseteq Osds /\ s.attached \subseteq Osds
  /\ s.m_WindowHandles \in [Osds -> SUBSET Handles]
  /\ HandlesDiffer(s)
  /\ s.m_HandlesBitmap = UNION {s.m_WindowHandles[o] : o \in Osds}
  /\ s.windows \subseteq OsdStack!WindowsOf(s, Live(s))

HeadShown(s) == s.m_OsdStack # <<>> => Head(s.m_OsdStack) \in s.m_IsVisible

(* Nothing but the windows differs.                                        *)
SameOsds(t, s) ==
  /\ Provider(t)
  /\ t.m_OsdStack = s.m_OsdStack /\ t.m_IsVisible = s.m_IsVisible
  /\ t.m_WindowHandles = s.m_WindowHandles /\ t.m_HandlesBitmap = s.m_HandlesBitmap
  /\ t.alive = s.alive /\ t.attached = s.attached

SameStack(t, s) == t.m_OsdStack = s.m_OsdStack /\ t.m_IsVisible = s.m_IsVisible

LEMMA CloseFacts ==
  ASSUME NEW s, OsdSound(s), NEW osds, NEW t, t = OsdStack!CloseWindows(s, osds)
  PROVE  /\ OsdSound(t) /\ SameOsds(t, s)
         /\ t.windows \subseteq OsdStack!WindowsOf(s, Live(s) \ osds)
<1>1. Provider(s)
  BY DEF OsdSound
<1>2. SameOsds(t, s) /\ t.windows = s.windows \ OsdStack!Shown(s, osds)
  BY <1>1 DEF OsdStack!CloseWindows, Provider, SameOsds
<1>3. t.windows \subseteq OsdStack!WindowsOf(s, Live(s) \ osds)
  BY <1>2 DEF OsdSound, OsdStack!WindowsOf, OsdStack!Shown, Live
<1>4. OsdStack!WindowsOf(s, Live(s)) = OsdStack!WindowsOf(t, Live(t))
  BY <1>2 DEF OsdStack!WindowsOf, SameOsds, Live
<1>5. OsdSound(t)
  BY <1>2, <1>4 DEF OsdSound, SameOsds, HandlesDiffer
<1> QED
  BY <1>2, <1>3, <1>5

LEMMA OsdFlushFacts ==
  ASSUME NEW s, OsdSound(s), NEW osds, NEW dirty, NEW t, t = OsdStack!OsdFlush(s, osds, dirty)
  PROVE  OsdSound(t) /\ SameOsds(t, s)
<1>1. Provider(s)
  BY DEF OsdSound
<1>2. SameOsds(t, s) /\ t.windows = s.windows \cup (OsdStack!Shown(s, osds) \cap dirty)
  BY <1>1 DEF OsdStack!OsdFlush, Provider, SameOsds
<1>3. t.windows \subseteq OsdStack!WindowsOf(s, Live(s))
  BY <1>2 DEF OsdSound, OsdStack!WindowsOf, OsdStack!Shown, Live
<1>4. OsdStack!WindowsOf(s, Live(s)) = OsdStack!WindowsOf(t, Live(t))
  BY <1>2 DEF OsdStack!WindowsOf, SameOsds, Live
<1> QED
  BY <1>2, <1>3, <1>4 DEF OsdSound, SameOsds, HandlesDiffer

LEMMA RefreshFacts ==
  ASSUME NEW s, OsdSound(s), NEW osds, NEW t, t = OsdStack!Refresh(s, osds)
  PROVE  OsdSound(t) /\ SameOsds(t, s)
<1> PICK c : c = OsdStack!CloseWindows(s, osds)
  OBVIOUS
<1>1. OsdSound(c) /\ SameOsds(c, s)
  BY CloseFacts
<1>2. t = OsdStack!OsdFlush(c, osds, Handles)
  BY DEF OsdStack!Refresh
<1>3. OsdSound(t) /\ SameOsds(t, c)
  BY <1>1, <1>2, OsdFlushFacts
<1> QED
  BY <1>1, <1>3 DEF SameOsds

LEMMA ShowFacts ==
  ASSUME NEW s, OsdSound(s), NEW osds, NEW t, t = OsdStack!Show(s, osds)
  PROVE  OsdSound(t) /\ t.m_OsdStack = s.m_OsdStack /\ t.m_IsVisible = s.m_IsVisible \cup osds
<1> PICK v : v = [s EXCEPT !.m_IsVisible = @ \cup osds]
  OBVIOUS
<1>1. Provider(s)
  BY DEF OsdSound
<1>2. /\ Provider(v)
      /\ v.m_OsdStack = s.m_OsdStack /\ v.m_IsVisible = s.m_IsVisible \cup osds
      /\ v.m_WindowHandles = s.m_WindowHandles /\ v.m_HandlesBitmap = s.m_HandlesBitmap
      /\ v.alive = s.alive /\ v.attached = s.attached /\ v.windows = s.windows
  BY <1>1 DEF Provider
<1>3. v.windows \subseteq OsdStack!WindowsOf(v, Live(v))
  BY <1>2 DEF OsdSound, OsdStack!WindowsOf, Live
<1>4. OsdSound(v)
  BY <1>2, <1>3 DEF OsdSound, HandlesDiffer
<1>5. t = OsdStack!Refresh(v, osds)
  BY DEF OsdStack!Show
<1>6. OsdSound(t) /\ SameOsds(t, v)
  BY <1>4, <1>5, RefreshFacts
<1> QED
  BY <1>2, <1>6 DEF SameOsds

LEMMA OsdHideFacts ==
  ASSUME NEW s, OsdSound(s), NEW osds, NEW t, t = OsdStack!Hide(s, osds)
  PROVE  /\ OsdSound(t) /\ t.m_OsdStack = s.m_OsdStack /\ t.m_IsVisible = s.m_IsVisible \ osds
         /\ t.attached = s.attached /\ Live(t) \cap osds = {}
<1> PICK c : c = OsdStack!CloseWindows(s, osds)
  OBVIOUS
<1>1. OsdSound(c) /\ SameOsds(c, s) /\ c.windows \subseteq OsdStack!WindowsOf(s, Live(s) \ osds)
  BY CloseFacts
<1>2. t = [c EXCEPT !.m_IsVisible = @ \ osds] /\ Provider(c)
  BY <1>1 DEF OsdStack!Hide, SameOsds
<1>3. /\ Provider(t)
      /\ t.m_OsdStack = c.m_OsdStack /\ t.m_IsVisible = c.m_IsVisible \ osds
      /\ t.m_WindowHandles = c.m_WindowHandles /\ t.m_HandlesBitmap = c.m_HandlesBitmap
      /\ t.alive = c.alive /\ t.attached = c.attached /\ t.windows = c.windows
  BY <1>2 DEF Provider
<1>4. t.windows \subseteq OsdStack!WindowsOf(t, Live(t))
  BY <1>1, <1>3 DEF SameOsds, OsdStack!WindowsOf, Live
<1>5. OsdSound(t)
  BY <1>1, <1>3, <1>4 DEF OsdSound, HandlesDiffer
<1> QED
  BY <1>1, <1>3, <1>5 DEF SameOsds, Live

LEMMA FreeFacts ==
  ASSUME NEW s, OsdSound(s), NEW o \in Osds, s.windows \subseteq OsdStack!WindowsOf(s, Live(s) \ {o}),
         NEW t, t = OsdStack!FreeWindowHandles(s, o)
  PROVE  /\ OsdSound(t) /\ SameStack(t, s) /\ t.m_WindowHandles[o] = {}
         /\ t.windows \subseteq OsdStack!WindowsOf(t, Live(t) \ {o})
<1>1. Provider(s) /\ s.m_WindowHandles \in [Osds -> SUBSET Handles] /\ s.attached \subseteq Osds
  BY DEF OsdSound
<1> PICK handles : handles = [s.m_WindowHandles EXCEPT ![o] = {}]
  OBVIOUS
<1>2. /\ handles \in [Osds -> SUBSET Handles] /\ handles[o] = {}
      /\ \A p \in Osds : p # o => handles[p] = s.m_WindowHandles[p]
  BY <1>1
<1>3. t = [s EXCEPT !.m_HandlesBitmap = @ \ s.m_WindowHandles[o], !.m_WindowHandles = handles]
  BY <1>1 DEF OsdStack!FreeWindowHandles, Provider
<1>4. /\ Provider(t)
      /\ t.m_OsdStack = s.m_OsdStack /\ t.m_IsVisible = s.m_IsVisible
      /\ t.m_WindowHandles = handles /\ t.m_HandlesBitmap = s.m_HandlesBitmap \ s.m_WindowHandles[o]
      /\ t.alive = s.alive /\ t.attached = s.attached /\ t.windows = s.windows
  BY <1>1, <1>3 DEF Provider
<1>5. HandlesDiffer(t)
  BY <1>2, <1>4 DEF OsdSound, HandlesDiffer
<1>6. t.m_HandlesBitmap = UNION {t.m_WindowHandles[p] : p \in Osds}
  <2>1. ASSUME NEW h, h \in t.m_HandlesBitmap PROVE \E p \in Osds : h \in handles[p]
    BY <1>2, <1>4, <2>1 DEF OsdSound
  <2>2. ASSUME NEW p \in Osds, NEW h \in handles[p] PROVE h \in t.m_HandlesBitmap
    <3>1. p # o /\ h \in s.m_WindowHandles[p] /\ h \in s.m_HandlesBitmap
      BY <1>2 DEF OsdSound
    <3>2. h \notin s.m_WindowHandles[o]
      BY <3>1 DEF OsdSound, HandlesDiffer
    <3> QED
      BY <1>4, <3>1, <3>2
  <2> QED
    BY <1>4, <2>1, <2>2
<1>7. t.windows \subseteq OsdStack!WindowsOf(t, Live(t) \ {o})
  BY <1>1, <1>2, <1>4 DEF OsdStack!WindowsOf, Live
<1>8. t.windows \subseteq OsdStack!WindowsOf(t, Live(t))
  BY <1>7 DEF OsdStack!WindowsOf
<1>9. OsdSound(t)
  BY <1>2, <1>4, <1>5, <1>6, <1>8 DEF OsdSound
<1> QED
  BY <1>2, <1>4, <1>7, <1>9 DEF SameStack

LEMMA AllocFacts ==
  ASSUME NEW s, OsdSound(s), NEW o \in Osds, s.m_WindowHandles[o] = {}, NEW n,
         NEW t, t = OsdStack!AllocWindowHandles(s, o, n)
  PROVE  OsdSound(t) /\ t.m_OsdStack = s.m_OsdStack /\ t.m_IsVisible = s.m_IsVisible
<1>1. Provider(s) /\ s.m_WindowHandles \in [Osds -> SUBSET Handles] /\ s.attached \subseteq Osds
      /\ s.m_HandlesBitmap = UNION {s.m_WindowHandles[p] : p \in Osds}
  BY DEF OsdSound
<1>2. CASE t = s
  BY <1>2
<1>3. ASSUME NEW got, got \subseteq Handles \ s.m_HandlesBitmap,
             t = [s EXCEPT !.m_HandlesBitmap = @ \cup got, !.m_WindowHandles[o] = got]
      PROVE  OsdSound(t) /\ t.m_OsdStack = s.m_OsdStack /\ t.m_IsVisible = s.m_IsVisible
  <2> PICK handles : handles = [s.m_WindowHandles EXCEPT ![o] = got]
    OBVIOUS
  <2>1. /\ handles \in [Osds -> SUBSET Handles] /\ handles[o] = got
        /\ \A p \in Osds : p # o => handles[p] = s.m_WindowHandles[p]
    BY <1>1, <1>3
  <2>2. t = [s EXCEPT !.m_HandlesBitmap = @ \cup got, !.m_WindowHandles = handles]
    BY <1>1, <1>3 DEF Provider
  <2>3. /\ Provider(t)
        /\ t.m_OsdStack = s.m_OsdStack /\ t.m_IsVisible = s.m_IsVisible
        /\ t.m_WindowHandles = handles /\ t.m_HandlesBitmap = s.m_HandlesBitmap \cup got
        /\ t.alive = s.alive /\ t.attached = s.attached /\ t.windows = s.windows
    BY <1>1, <2>2 DEF Provider
  <2>4. \A p \in Osds : p # o => got \cap s.m_WindowHandles[p] = {}
    BY <1>1, <1>3
  <2>5. HandlesDiffer(t)
    BY <2>1, <2>3, <2>4 DEF OsdSound, HandlesDiffer
  <2>6. t.m_HandlesBitmap = UNION {t.m_WindowHandles[p] : p \in Osds}
    <3>1. ASSUME NEW h, h \in t.m_HandlesBitmap PROVE \E p \in Osds : h \in handles[p]
      BY <1>1, <2>1, <2>3, <3>1
    <3>2. ASSUME NEW p \in Osds, NEW h \in handles[p] PROVE h \in t.m_HandlesBitmap
      BY <1>1, <2>1, <2>3
    <3> QED
      BY <2>3, <3>1, <3>2
  <2>7. t.windows \subseteq OsdStack!WindowsOf(t, Live(t))
    BY <1>1, <2>1, <2>3 DEF OsdSound, OsdStack!WindowsOf, Live
  <2> QED
    BY <2>1, <2>3, <2>5, <2>6, <2>7 DEF OsdSound
<1> QED
  BY <1>2, <1>3 DEF OsdStack!AllocWindowHandles

LEMMA SetAreasFacts ==
  ASSUME NEW s, OsdSound(s), NEW o \in Osds, NEW n, NEW t, t = OsdStack!SetAreas(s, o, n)
  PROVE  OsdSound(t) /\ t.m_OsdStack = s.m_OsdStack /\ t.m_IsVisible = s.m_IsVisible
<1> PICK c : c = OsdStack!CloseWindows(s, {o})
  OBVIOUS
<1>1. OsdSound(c) /\ SameOsds(c, s) /\ c.windows \subseteq OsdStack!WindowsOf(s, Live(s) \ {o})
  BY CloseFacts
<1>2. OsdStack!WindowsOf(s, Live(s) \ {o}) = OsdStack!WindowsOf(c, Live(c) \ {o})
  BY <1>1 DEF SameOsds, OsdStack!WindowsOf, Live
<1> PICK f : f = OsdStack!FreeWindowHandles(c, o)
  OBVIOUS
<1>3. /\ OsdSound(f) /\ f.m_OsdStack = c.m_OsdStack /\ f.m_IsVisible = c.m_IsVisible
      /\ f.m_WindowHandles[o] = {}
  <2>1. c.windows \subseteq OsdStack!WindowsOf(c, Live(c) \ {o})
    BY <1>1, <1>2
  <2>2. OsdSound(f) /\ f.m_WindowHandles[o] = {}
    BY ONLY <1>1, <2>1, o \in Osds, f = OsdStack!FreeWindowHandles(c, o), FreeFacts
  <2>3. SameStack(f, c)
    BY ONLY <1>1, <2>1, o \in Osds, f = OsdStack!FreeWindowHandles(c, o), FreeFacts
  <2> QED
    BY <2>2, <2>3 DEF SameStack
<1>4. t = OsdStack!AllocWindowHandles(f, o, n)
  BY DEF OsdStack!SetAreas
<1>5. OsdSound(t) /\ t.m_OsdStack = f.m_OsdStack /\ t.m_IsVisible = f.m_IsVisible
  BY <1>3, <1>4, AllocFacts
<1> QED
  BY <1>1, <1>3, <1>5 DEF SameOsds

LEMMA DeleteOsdFacts ==
  ASSUME NEW s, OsdSound(s), NEW o \in Osds, NEW r, r = OsdStack!DeleteOsd(s, o)
  PROVE  OsdSound(r) /\ HeadShown(r)
<1> PICK c : c = OsdStack!CloseWindows(s, {o})
  OBVIOUS
<1>1. OsdSound(c) /\ SameOsds(c, s) /\ c.windows \subseteq OsdStack!WindowsOf(s, Live(s) \ {o})
  BY CloseFacts
<1>2. OsdStack!WindowsOf(s, Live(s) \ {o}) = OsdStack!WindowsOf(c, Live(c) \ {o})
  BY <1>1 DEF SameOsds, OsdStack!WindowsOf, Live
<1> PICK f : f = OsdStack!FreeWindowHandles(c, o)
  OBVIOUS
<1>3. OsdSound(f) /\ f.windows \subseteq OsdStack!WindowsOf(f, Live(f) \ {o})
  BY <1>1, <1>2, FreeFacts
<1> PICK stack : stack = OsdStack!TakenOff(f.m_OsdStack, o)
  OBVIOUS
<1> PICK t : t = [f EXCEPT !.m_OsdStack = stack, !.m_IsVisible = @ \ {o}, !.alive = @ \ {o},
                           !.attached = @ \ {o}]
  OBVIOUS
<1>4. Provider(f)
  BY <1>3 DEF OsdSound
<1>5. /\ Provider(t)
      /\ t.m_OsdStack = stack /\ t.m_IsVisible = f.m_IsVisible \ {o}
      /\ t.m_WindowHandles = f.m_WindowHandles /\ t.m_HandlesBitmap = f.m_HandlesBitmap
      /\ t.alive = f.alive \ {o} /\ t.attached = f.attached \ {o} /\ t.windows = f.windows
  BY <1>4 DEF Provider
<1>6. t.windows \subseteq OsdStack!WindowsOf(t, Live(t))
  BY <1>3, <1>5 DEF OsdStack!WindowsOf, Live
<1>7. OsdSound(t)
  <2>1. HandlesDiffer(t)
    BY <1>3, <1>5 DEF OsdSound, HandlesDiffer
  <2>3. t.m_HandlesBitmap = UNION {t.m_WindowHandles[p] : p \in Osds}
    <3>1. f.m_HandlesBitmap = UNION {f.m_WindowHandles[p] : p \in Osds}
      BY <1>3 DEF OsdSound
    <3> QED
      BY ONLY <3>1, <1>5
  <2>2. t.alive \subseteq Osds /\ t.attached \subseteq Osds /\ t.m_WindowHandles \in [Osds -> SUBSET Handles]
    BY <1>3, <1>5 DEF OsdSound
  <2> QED
    BY <1>5, <1>6, <2>1, <2>2, <2>3 DEF OsdSound
<1>8. t = [f EXCEPT !.m_OsdStack = OsdStack!TakenOff(@, o), !.m_IsVisible = @ \ {o}, !.alive = @ \ {o},
                    !.attached = @ \ {o}]
  BY <1>4 DEF Provider
<1>9. r = IF t.m_OsdStack = <<>> THEN t ELSE OsdStack!Show(t, {Head(t.m_OsdStack)})
  BY <1>8 DEF OsdStack!DeleteOsd
<1>10. CASE t.m_OsdStack = <<>>
  BY <1>7, <1>9, <1>10 DEF HeadShown
<1>11. CASE t.m_OsdStack # <<>>
  <2> PICK first : first = {Head(t.m_OsdStack)}
    OBVIOUS
  <2>0. r = OsdStack!Show(t, first)
    BY <1>9, <1>11
  <2>1. OsdSound(r) /\ r.m_OsdStack = t.m_OsdStack /\ r.m_IsVisible = t.m_IsVisible \cup first
    BY ONLY <1>7, <2>0, ShowFacts
  <2> QED
    BY <2>1 DEF HeadShown
<1> QED
  BY <1>10, <1>11

LEMMA CreateOsdFacts ==
  ASSUME NEW s, OsdSound(s), NEW o \in Osds, NEW layer, NEW mixer \in BOOLEAN,
         NEW r, r = OsdStack!CreateOsd(s, o, layer, mixer)
  PROVE  OsdSound(r) /\ HeadShown(r)
<1> PICK t : t = OsdStack!SortedInsert(s, o, layer)
  OBVIOUS
<1>1. Provider(s)
  BY DEF OsdSound
<1>2. PICK stack, layers :
        t = [s EXCEPT !.m_Layer = layers, !.alive = @ \cup {o}, !.attached = @ \cup {o},
                      !.m_IsVisible = @ \cup {o}, !.m_OsdStack = stack]
  <2>1. PICK place : t = [s EXCEPT !.m_Layer[o] = layer, !.alive = @ \cup {o}, !.attached = @ \cup {o},
                                   !.m_IsVisible = @ \cup {o}, !.m_OsdStack = place]
    BY DEF OsdStack!SortedInsert
  <2> PICK layers : layers = [s.m_Layer EXCEPT ![o] = layer]
    OBVIOUS
  <2> QED
    BY <1>1, <2>1 DEF Provider
<1>3. /\ Provider(t)
      /\ t.m_OsdStack = stack /\ t.m_IsVisible = s.m_IsVisible \cup {o}
      /\ t.m_WindowHandles = s.m_WindowHandles /\ t.m_HandlesBitmap = s.m_HandlesBitmap
      /\ t.alive = s.alive \cup {o} /\ t.attached = s.attached \cup {o} /\ t.windows = s.windows
  BY <1>1, <1>2 DEF Provider
<1>4. t.windows \subseteq OsdStack!WindowsOf(t, Live(t))
  BY <1>3 DEF OsdSound, OsdStack!WindowsOf, Live
<1>5. OsdSound(t)
  BY <1>3, <1>4 DEF OsdSound, HandlesDiffer
<1> PICK first : first = {Head(t.m_OsdStack)}
  OBVIOUS
<1> PICK rest : rest = OsdStack!ToSet(t.m_OsdStack) \ first
  OBVIOUS
<1> PICK shown : shown = OsdStack!Show(t, rest)
  OBVIOUS
<1>6. OsdSound(shown) /\ shown.m_OsdStack = t.m_OsdStack
  BY <1>5, ShowFacts
<1> PICK hidden : hidden = OsdStack!Hide(t, rest)
  OBVIOUS
<1>7. OsdSound(hidden) /\ hidden.m_OsdStack = t.m_OsdStack
  BY <1>5, OsdHideFacts
<1> PICK u : u = IF mixer THEN shown ELSE hidden
  OBVIOUS
<1>8. OsdSound(u) /\ u.m_OsdStack = t.m_OsdStack
  BY <1>6, <1>7
<1>9. r = OsdStack!Show(u, first)
  BY DEF OsdStack!CreateOsd
<1>10. OsdSound(r) /\ r.m_OsdStack = u.m_OsdStack /\ r.m_IsVisible = u.m_IsVisible \cup first
  BY ONLY <1>8, <1>9, ShowFacts
<1> QED
  BY <1>8, <1>10 DEF HeadShown

LEMMA ShutDownFacts ==
  ASSUME NEW s, OsdSound(s), NEW t, t = OsdStack!ShutDown(s)
  PROVE  OsdSound(t) /\ HeadShown(t)
<1> PICK osds : osds = OsdStack!ToSet(s.m_OsdStack)
  OBVIOUS
<1> PICK h : h = OsdStack!Hide(s, osds)
  OBVIOUS
<1>1. OsdSound(h) /\ Live(h) \cap osds = {}
  BY OsdHideFacts
<1>2. Provider(h)
  BY <1>1 DEF OsdSound
<1>3. t = [h EXCEPT !.m_OsdStack = <<>>, !.attached = @ \ osds]
  BY DEF OsdStack!ShutDown
<1>4. /\ Provider(t)
      /\ t.m_OsdStack = <<>> /\ t.m_IsVisible = h.m_IsVisible
      /\ t.m_WindowHandles = h.m_WindowHandles /\ t.m_HandlesBitmap = h.m_HandlesBitmap
      /\ t.alive = h.alive /\ t.attached = h.attached \ osds /\ t.windows = h.windows
  BY <1>2, <1>3 DEF Provider
<1>5. Live(t) = Live(h)
  BY <1>1, <1>4 DEF Live
<1>6. t.windows \subseteq OsdStack!WindowsOf(t, Live(t))
  BY <1>1, <1>4, <1>5 DEF OsdSound, OsdStack!WindowsOf
<1>7. OsdSound(t)
  BY <1>1, <1>4, <1>6 DEF OsdSound, HandlesDiffer
<1> QED
  BY <1>4, <1>7 DEF HeadShown

OsdPlaces == {"idle", "locked", "handling", "refresh", "refreshing", "refreshed"}

OsdInv ==
  /\ OsdSound(osd) /\ HeadShown(osd)
  /\ osdMixer \in BOOLEAN
  /\ osdPc \in [{"main", "server"} -> OsdPlaces]
  \* the server's lock was given up for the refresh
  /\ osdPc["server"] = "refresh" => srvLock # "server"

(* What the invariant says of osd, after a step that sets it.              *)
LEMMA OsdPrimed ==
  ASSUME NEW t, OsdSound(t), HeadShown(t), osd' = t
  PROVE  OsdSound(osd)' /\ HeadShown(osd)'
BY DEF OsdSound, HeadShown, Provider, HandlesDiffer, OsdStack!WindowsOf, Live

LEMMA OsdStays ==
  ASSUME OsdSound(osd), HeadShown(osd), osd' = osd
  PROVE  OsdSound(osd)' /\ HeadShown(osd)'
BY DEF OsdSound, HeadShown, Provider, HandlesDiffer, OsdStack!WindowsOf, Live

LEMMA MainDoneKeeps ==
  ASSUME OsdInv, NEW t, OsdSound(t), HeadShown(t), OsdStack!MainDone(t)
  PROVE  OsdInv'
<1>1. osd' = t /\ osdMixer' = osdMixer /\ srvLock' = srvLock
      /\ osdPc' = [osdPc EXCEPT !["main"] = "idle"]
  BY DEF OsdStack!MainDone, OsdStack!Goto
<1>2. OsdSound(osd)' /\ HeadShown(osd)'
  BY <1>1, OsdPrimed
<1>3. osdPc' \in [{"main", "server"} -> OsdPlaces] /\ osdPc'["server"] = osdPc["server"]
  BY <1>1 DEF OsdPlaces, OsdInv
<1> QED
  BY <1>1, <1>2, <1>3 DEF OsdInv

LEMMA MainKeeps ==
  ASSUME OsdInv,
         OsdStack!MainCreates \/ OsdStack!MainDeletes \/ OsdStack!MainSetsAreas \/ OsdStack!MainFlushes
           \/ OsdStack!MainShutsDown
  PROVE  OsdInv'
<1>0. /\ OsdSound(osd) /\ HeadShown(osd) /\ osdMixer \in BOOLEAN
      /\ osd.alive \subseteq Osds /\ osd.attached \subseteq Osds
  BY DEF OsdInv, OsdSound
<1>1. CASE OsdStack!MainCreates
  <2> PICK o \in Osds \ osd.alive, layer \in OsdStack!Layers :
             OsdStack!MainDone(OsdStack!CreateOsd(osd, o, layer, osdMixer))
    BY <1>1 DEF OsdStack!MainCreates
  <2> PICK t : t = OsdStack!CreateOsd(osd, o, layer, osdMixer)
    OBVIOUS
  <2>1. OsdSound(t) /\ HeadShown(t)
    BY <1>0, CreateOsdFacts
  <2> QED
    BY <2>1, MainDoneKeeps
<1>2. CASE OsdStack!MainDeletes
  <2> PICK o \in osd.alive : OsdStack!MainDone(OsdStack!DeleteOsd(osd, o))
    BY <1>2 DEF OsdStack!MainDeletes
  <2> PICK t : t = OsdStack!DeleteOsd(osd, o)
    OBVIOUS
  <2>1. OsdSound(t) /\ HeadShown(t)
    BY <1>0, DeleteOsdFacts
  <2> QED
    BY <2>1, MainDoneKeeps
<1>3. CASE OsdStack!MainSetsAreas
  <2> PICK o \in osd.attached, n \in 0 .. MaxAreas : OsdStack!MainDone(OsdStack!SetAreas(osd, o, n))
    BY <1>3 DEF OsdStack!MainSetsAreas
  <2> PICK t : t = OsdStack!SetAreas(osd, o, n)
    OBVIOUS
  <2>1. OsdSound(t) /\ t.m_OsdStack = osd.m_OsdStack /\ t.m_IsVisible = osd.m_IsVisible
    BY <1>0, SetAreasFacts
  <2>2. HeadShown(t)
    BY <1>0, <2>1 DEF HeadShown
  <2> QED
    BY <2>1, <2>2, MainDoneKeeps
<1>4. CASE OsdStack!MainFlushes
  <2> PICK o \in osd.alive, dirty \in SUBSET Handles : OsdStack!MainDone(OsdStack!OsdFlush(osd, {o}, dirty))
    BY <1>4 DEF OsdStack!MainFlushes
  <2> PICK t : t = OsdStack!OsdFlush(osd, {o}, dirty)
    OBVIOUS
  <2>1. OsdSound(t) /\ SameOsds(t, osd)
    BY <1>0, OsdFlushFacts
  <2>2. HeadShown(t)
    BY <1>0, <2>1 DEF HeadShown, SameOsds
  <2> QED
    BY <2>1, <2>2, MainDoneKeeps
<1>5. CASE OsdStack!MainShutsDown
  <2> PICK t : t = OsdStack!ShutDown(osd)
    OBVIOUS
  <2>1. OsdSound(t) /\ HeadShown(t)
    BY <1>0, ShutDownFacts
  <2>2. OsdStack!MainDone(t)
    BY <1>5 DEF OsdStack!MainShutsDown
  <2> QED
    BY <2>1, <2>2, MainDoneKeeps
<1> QED
  BY <1>1, <1>2, <1>3, <1>4, <1>5

LEMMA ServerRefreshesKeeps == ASSUME OsdInv, OsdStack!ServerRefreshes PROVE OsdInv'
<1>0. OsdSound(osd) /\ HeadShown(osd)
  BY DEF OsdInv
<1> PICK t : t = OsdStack!RefreshOsd(osd)
  OBVIOUS
<1>1. OsdSound(t) /\ SameOsds(t, osd)
  BY <1>0, RefreshFacts DEF OsdStack!RefreshOsd
<1>2. HeadShown(t)
  BY <1>0, <1>1 DEF HeadShown, SameOsds
<1>3. osd' = t /\ osdMixer' = osdMixer /\ osdPc' = [osdPc EXCEPT !["server"] = "refreshed"]
  BY DEF OsdStack!ServerRefreshes, OsdStack!Goto
<1>4. OsdSound(osd)' /\ HeadShown(osd)'
  BY <1>1, <1>2, <1>3, OsdPrimed
<1>5. osdPc' \in [{"main", "server"} -> OsdPlaces] /\ osdPc'["server"] # "refresh"
  BY <1>3 DEF OsdPlaces, OsdInv
<1> QED
  BY <1>3, <1>4, <1>5 DEF OsdInv

LEMMA ThreadsKeep ==
  ASSUME OsdInv,
         OsdStack!MainEnters \/ OsdStack!SetMixer \/ OsdStack!ServerReads \/ OsdStack!ServerConfigured
           \/ OsdStack!ServerEntersRefresh \/ OsdStack!ServerLocksAgain \/ OsdStack!ServerHandled
  PROVE  OsdInv'
<1>1. osd' = osd /\ osdMixer' \in BOOLEAN
  BY DEF OsdInv, OsdStack!MainEnters, OsdStack!SetMixer, OsdStack!ServerReads, OsdStack!ServerConfigured,
         OsdStack!ServerEntersRefresh, OsdStack!ServerLocksAgain, OsdStack!ServerHandled
<1>2. OsdSound(osd)' /\ HeadShown(osd)'
  BY <1>1, OsdStays DEF OsdInv
<1>3. osdPc' \in [{"main", "server"} -> OsdPlaces]
  BY DEF OsdPlaces, OsdInv, OsdStack!MainEnters, OsdStack!SetMixer, OsdStack!ServerReads, OsdStack!ServerConfigured,
         OsdStack!ServerEntersRefresh, OsdStack!ServerLocksAgain, OsdStack!ServerHandled, OsdStack!Goto
<1>4. osdPc'["server"] = "refresh" => srvLock' # "server"
  BY DEF OsdInv, OsdStack!MainEnters, OsdStack!SetMixer, OsdStack!ServerReads, OsdStack!ServerConfigured,
         OsdStack!ServerEntersRefresh, OsdStack!ServerLocksAgain, OsdStack!ServerHandled, OsdStack!Goto,
         OsdStack!UnlockForRefresh, OsdStack!Nobody
<1> QED
  BY <1>1, <1>2, <1>3, <1>4 DEF OsdInv

LEMMA OsdInvInit == ASSUME OsdStack!OsdInit PROVE OsdInv
<1>1. Provider(osd) /\ osd.m_OsdStack = <<>> /\ osd.alive = {} /\ osd.attached = {} /\ osd.windows = {}
      /\ osd.m_HandlesBitmap = {} /\ osd.m_WindowHandles = [o \in Osds |-> {}]
  BY DEF OsdStack!OsdInit, Provider
<1>2. OsdSound(osd) /\ HeadShown(osd)
  BY <1>1 DEF OsdSound, HeadShown, HandlesDiffer
<1>3. osdMixer \in BOOLEAN /\ osdPc \in [{"main", "server"} -> OsdPlaces] /\ osdPc["server"] = "idle"
  BY DEF OsdPlaces, OsdStack!OsdInit
<1> QED
  BY <1>2, <1>3 DEF OsdInv

LEMMA OsdInvNext == ASSUME OsdInv, [Next]_vars PROVE OsdInv'
<1>1. CASE OsdStack!OsdNext
  BY <1>1, MainKeeps, ServerRefreshesKeeps, ThreadsKeep DEF OsdStack!OsdNext
<1>2. CASE UNCHANGED osdVars
  <2>1. OsdSound(osd)' /\ HeadShown(osd)'
    BY <1>2, OsdStays DEF OsdInv, osdVars
  <2> QED
    BY <1>2, <2>1 DEF OsdInv, osdVars
<1> QED
  BY <1>1, <1>2 DEF Next, Step, OthersStay, Stopped, vars, osdVars

LEMMA OsdInvKept == OsdInv => OsdStack!NoGhostWindow /\ OsdStack!LocksNeverCross
<1> SUFFICES ASSUME OsdInv PROVE OsdStack!NoGhostWindow /\ OsdStack!LocksNeverCross
  OBVIOUS
<1>1. osd.windows \subseteq UNION {osd.m_WindowHandles[o] : o \in osd.m_IsVisible}
  BY DEF OsdInv, OsdSound, OsdStack!WindowsOf, Live
<1>2. OsdStack!NoGhostWindow
  BY <1>1 DEF OsdInv, OsdSound, HandlesDiffer, HeadShown, OsdStack!NoGhostWindow
<1>3. OsdStack!LocksNeverCross
  BY DEF OsdInv, OsdStack!LocksNeverCross
<1> QED
  BY <1>2, <1>3

-----------------------------------------------------------------------------
(* The windows of the local frontend.  The last word about window 0 is in  *)
(* the last event about it, or in sxfe_t if none is on its way.            *)

Events == [window : 0 .. 2, width : Nat, xpos : Nat]

WindowStates == [open : BOOLEAN, fullscreen : BOOLEAN, forced : BOOLEAN, width : Nat, xpos : Nat,
                 origwidth : Nat, origxpos : Nat, check_move : BOOLEAN, dragging : BOOLEAN,
                 stay_above : BOOLEAN, no_border : BOOLEAN]

(* XConfigureEvent_handler() before and after it has looked at the size.   *)
Unsized == {"screen", "root", "ours", "width"}
Sized == {"moved", "check_move", "compare", "move", "place", "put"}

Spots == {"out", "toggle", "save", "restore", "decide", "size", "resize", "check", "tell", "switch", "swap", "pick",
          "send", "done", "drag", "above"} \cup Unsized \cup Sized

ConfigStates == [at : Spots, width : Nat, fullscreen : BOOLEAN, toggle : BOOLEAN, force : BOOLEAN,
                 window : 0 .. 1, stale : BOOLEAN]

Displays == [mapped : SUBSET (0 .. 1), width : Nat, xpos : [0 .. 1 -> Nat], drawable : 0 .. 1,
             above : BOOLEAN, events : Seq(Events), late : SUBSET {"drawable", "place"}]

(* About window 0: no event, and what the last one says.                   *)
Quiet(s) == \A i \in 1 .. Len(s) : s[i].window # 0
LastSays(s, w, p) ==
  \A i \in 1 .. Len(s) : s[i].window = 0 /\ (\A j \in i + 1 .. Len(s) : s[j].window # 0)
                           => s[i].width = w /\ s[i].xpos = p

LEMMA AppendSays ==
  ASSUME NEW s \in Seq(Events), NEW e \in Events, NEW t, t = Append(s, e)
  PROVE  /\ t \in Seq(Events) /\ t # <<>>
         /\ e.window = 0 => LastSays(t, e.width, e.xpos)
         /\ e.window # 0 => \A w, p : LastSays(s, w, p) => LastSays(t, w, p)
         /\ Quiet(t) => Quiet(s) /\ e.window # 0
<1>1. /\ t \in Seq(Events) /\ Len(t) = Len(s) + 1 /\ Len(s) \in Nat /\ t[Len(s) + 1] = e
      /\ \A i \in 1 .. Len(s) : t[i] = s[i]
  OBVIOUS
<1>2. Len(s) + 1 \in 1 .. Len(t) /\ t # <<>>
  BY <1>1
<1>3. ASSUME e.window = 0, NEW i \in 1 .. Len(t), t[i].window = 0,
             \A j \in i + 1 .. Len(t) : t[j].window # 0
      PROVE  t[i] = e
  <2>1. i = Len(s) + 1
    BY <1>1, <1>3
  <2> QED
    BY <1>1, <2>1
<1>4. ASSUME e.window # 0, NEW w, NEW p, LastSays(s, w, p), NEW i \in 1 .. Len(t), t[i].window = 0,
             \A j \in i + 1 .. Len(t) : t[j].window # 0
      PROVE  t[i].width = w /\ t[i].xpos = p
  <2>1. i \in 1 .. Len(s)
    BY <1>1, <1>4
  <2>2. \A j \in i + 1 .. Len(s) : s[j].window # 0
    <3> TAKE j \in i + 1 .. Len(s)
    <3>1. j \in i + 1 .. Len(t) /\ j \in 1 .. Len(s)
      BY <1>1, <2>1
    <3> QED
      BY <1>1, <1>4, <3>1
  <2> QED
    BY <1>1, <1>4, <2>1, <2>2 DEF LastSays
<1>5. Quiet(t) => Quiet(s) /\ e.window # 0
  <2>1. \A i \in 1 .. Len(s) : i \in 1 .. Len(t)
    BY <1>1
  <2> QED
    BY <1>1, <1>2, <2>1 DEF Quiet
<1>6. e.window = 0 => LastSays(t, e.width, e.xpos)
  BY <1>3 DEF LastSays
<1>7. e.window # 0 => \A w, p : LastSays(s, w, p) => LastSays(t, w, p)
  BY <1>4 DEF LastSays
<1> QED
  BY <1>1, <1>2, <1>5, <1>6, <1>7

LEMMA AppendBehind ==
  ASSUME NEW s \in Seq(Events), NEW e \in Events, s # <<>>, NEW t, t = Append(s, e)
  PROVE  /\ Head(t) = Head(s) /\ Tail(t) = Append(Tail(s), e)
         /\ Quiet(Tail(t)) => Quiet(Tail(s)) /\ e.window # 0
<1>1. Head(t) = Head(s) /\ Tail(t) = Append(Tail(s), e) /\ Tail(s) \in Seq(Events)
  OBVIOUS
<1> PICK r \in Seq(Events) : r = Tail(s)
  BY <1>1
<1>2. Quiet(Append(r, e)) => Quiet(r) /\ e.window # 0
  BY AppendSays
<1> QED
  BY <1>1, <1>2

LEMMA TailSays ==
  ASSUME NEW s \in Seq(Events), s # <<>>, NEW t, t = Tail(s)
  PROVE  /\ t \in Seq(Events) /\ Head(s) \in Events
         /\ \A w, p : LastSays(s, w, p) => LastSays(t, w, p)
         /\ Quiet(t) /\ Head(s).window # 0 => Quiet(s)
         /\ Quiet(s) => Head(s).window # 0
         /\ \A w, p : LastSays(s, w, p) /\ Quiet(t) /\ Head(s).window = 0
                        => Head(s).width = w /\ Head(s).xpos = p
<1>1. /\ t \in Seq(Events) /\ Len(s) \in Nat \ {0} /\ Len(t) = Len(s) - 1
      /\ Head(s) = s[1] /\ Head(s) \in Events
      /\ \A i \in 1 .. Len(t) : t[i] = s[i + 1]
  OBVIOUS
<1>2. \A i \in 2 .. Len(s) : i - 1 \in 1 .. Len(t) /\ t[i - 1] = s[i]
  <2> TAKE i \in 2 .. Len(s)
  <2> PICK k \in 1 .. Len(t) : k = i - 1
    BY <1>1
  <2>1. t[k] = s[k + 1] /\ k + 1 = i
    BY <1>1
  <2> QED
    BY <2>1
<1>3. ASSUME NEW w, NEW p, LastSays(s, w, p) PROVE LastSays(t, w, p)
  <2> SUFFICES ASSUME NEW i \in 1 .. Len(t), t[i].window = 0,
                      \A j \in i + 1 .. Len(t) : t[j].window # 0
               PROVE  t[i].width = w /\ t[i].xpos = p
    BY DEF LastSays
  <2> PICK k \in 1 .. Len(s) : k = i + 1
    BY <1>1
  <2>1. t[i] = s[k]
    BY <1>1
  <2>2. \A j \in k + 1 .. Len(s) : s[j].window # 0
    <3> TAKE j \in k + 1 .. Len(s)
    <3>1. j \in 2 .. Len(s) /\ j - 1 \in i + 1 .. Len(t)
      BY <1>1
    <3> QED
      BY <1>2, <3>1
  <2> QED
    BY <1>3, <2>1, <2>2 DEF LastSays
<1>5. ASSUME Quiet(t), NEW i \in 2 .. Len(s) PROVE s[i].window # 0
  BY <1>2, <1>5 DEF Quiet
<1>6. ASSUME Quiet(t), Head(s).window # 0, NEW i \in 1 .. Len(s) PROVE s[i].window # 0
  <2>1. i = 1 \/ i \in 2 .. Len(s)
    OBVIOUS
  <2> QED
    BY <1>1, <1>5, <1>6, <2>1
<1>7. ASSUME NEW w, NEW p, LastSays(s, w, p), Quiet(t), Head(s).window = 0
      PROVE  Head(s).width = w /\ Head(s).xpos = p
  <2>1. 1 \in 1 .. Len(s)
    BY <1>1
  <2>2. \A j \in 1 + 1 .. Len(s) : s[j].window # 0
    BY <1>5, <1>7
  <2> QED
    BY <1>1, <1>7, <2>1, <2>2 DEF LastSays
<1>8. Quiet(s) => Head(s).window # 0
  <2>1. 1 \in 1 .. Len(s)
    BY <1>1
  <2> QED
    BY <1>1, <2>1 DEF Quiet
<1>9. \A w, p : LastSays(s, w, p) => LastSays(t, w, p)
  BY <1>3
<1>11. Quiet(t) /\ Head(s).window # 0 => Quiet(s)
  BY <1>6 DEF Quiet
<1> QED
  BY <1>1, <1>7, <1>8, <1>9, <1>11

Loop == config["sxfe_run"].at
Unseen(s, at) == IF at \in Sized THEN Tail(s) ELSE s
Naming == \E t \in Threads : config[t].at \in {"pick", "send"}
Sizing(c) == c.at = "resize" \/ (c.at \in {"switch", "swap"} /\ c.fullscreen)

(* A thread names the window on the screen to xine, and restores the place *)
(* of a window 0 that is not on it, unless the other one has switched.     *)
NamesCurrent(c, s) ==
  /\ c.at \in {"tell", "send"} => c.stale \/ c.window = Current(s)
  /\ c.at = "restore" => c.stale \/ s.fullscreen

WindowTypes ==
  sxfe \in WindowStates /\ config \in [Threads -> ConfigStates] /\ x11 \in Displays

(* A display whose windows are as they were, but for sizes and places.     *)
SameWindows(y, x) ==
  y \in Displays /\ y.mapped = x.mapped /\ y.drawable = x.drawable /\ y.above = x.above /\ y.late = x.late
SaysZero(y) == LastSays(y.events, y.width, y.xpos[0])

(* The event that is handled is there, and is the one that was looked at.  *)
HandledIsHead(at, s, full) ==
  /\ at \in Unsized \cup Sized => s # <<>> /\ (at \in {"screen", "root"} <=> Head(s).window = 2)
  /\ at = "width" /\ Quiet(s) => full

WindowInv ==
  /\ WindowTypes
  /\ IF sxfe.open THEN x11.mapped = {Current(sxfe)} ELSE \A t \in Threads : config[t].at = "out"
  /\ \A t \in Threads : NamesCurrent(config[t], sxfe)
  /\ x11.drawable = Current(sxfe) \/ "drawable" \in x11.late \/ Naming
  /\ sxfe.open /\ ~sxfe.fullscreen /\ Loop # "above" => x11.above = sxfe.stay_above
  /\ SaysZero(x11)
  /\ HandledIsHead(Loop, x11.events, sxfe.fullscreen)
  /\ sxfe.open /\ ~sxfe.fullscreen /\ Quiet(x11.events) =>
       "place" \in x11.late \/ sxfe.xpos = x11.xpos[0]
  \* a thread on its way to fullscreen has set the width of the screen already
  /\ sxfe.open /\ ~sxfe.fullscreen /\ Quiet(Unseen(x11.events, Loop)) =>
       (\E t \in Threads : Sizing(config[t])) \/ sxfe.width = x11.width

(* What of sxfe_t says which window is on the screen, and how.             *)
SameView(t, s) == t \in WindowStates /\ t.open = s.open /\ t.fullscreen = s.fullscreen
                  /\ t.stay_above = s.stay_above

LEMMA ConfigureFacts ==
  ASSUME NEW x \in Displays, NEW i \in 0 .. 1, NEW w \in Nat, NEW p \in Nat,
         NEW y, y = Configure(x, i, w, p)
  PROVE  /\ SameWindows(y, x)
         /\ y.width = IF i = 0 THEN w ELSE x.width
         /\ y.xpos[i] = p /\ \A j \in 0 .. 1 : j # i => y.xpos[j] = x.xpos[j]
         /\ y.events = Append(x.events, [window |-> i, width |-> w, xpos |-> p])
<1> PICK k \in 0 .. 2 : k = i
  OBVIOUS
<1> PICK e \in Events : e = [window |-> k, width |-> w, xpos |-> p]
  BY DEF Events
<1>1. x.width \in Nat /\ x.xpos \in [0 .. 1 -> Nat] /\ x.events \in Seq(Events)
  BY DEF Displays
<1> PICK ww \in Nat : ww = IF i = 0 THEN w ELSE x.width
  BY <1>1
<1> PICK pp : pp = [x.xpos EXCEPT ![i] = p]
  OBVIOUS
<1> PICK ee : ee = Append(x.events, e)
  OBVIOUS
<1>3. pp \in [0 .. 1 -> Nat] /\ pp[i] = p /\ \A j \in 0 .. 1 : j # i => pp[j] = x.xpos[j]
  BY <1>1
<1>4. ee \in Seq(Events)
  BY <1>1
<1>5. y = [x EXCEPT !.width = ww, !.xpos = pp, !.events = ee]
  BY DEF Configure, Displays
<1>6. y \in Displays /\ y.mapped = x.mapped /\ y.drawable = x.drawable /\ y.above = x.above
      /\ y.late = x.late /\ y.width = ww /\ y.xpos = pp /\ y.events = ee
  BY ONLY x \in Displays, ww \in Nat, <1>3, <1>4, <1>5 DEF Displays
<1> QED
  BY <1>3, <1>6 DEF SameWindows

(* A window 0 that was configured is what the last event says.             *)
Behind(t, s) ==
  /\ t # <<>>
  /\ s # <<>> => Head(t) = Head(s)
  /\ Quiet(t) => Quiet(s)
  /\ s # <<>> /\ Quiet(Tail(t)) => Quiet(Tail(s))
ZeroBehind(t, s) ==
  Behind(t, s) /\ ~Quiet(t) /\ (s # <<>> => ~Quiet(Tail(t)))

LEMMA ConfigureZero ==
  ASSUME NEW x \in Displays, NEW w \in Nat, NEW p \in Nat, NEW y, y = Configure(x, 0, w, p)
  PROVE  /\ SameWindows(y, x) /\ SaysZero(y) /\ ZeroBehind(y.events, x.events)
         /\ y.width = w /\ y.xpos[0] = p
<1>0. 0 \in 0 .. 1 /\ x.events \in Seq(Events)
  BY DEF Displays
<1>1. /\ SameWindows(y, x) /\ y.width = w /\ y.xpos[0] = p
      /\ y.events = Append(x.events, [window |-> 0, width |-> w, xpos |-> p])
  BY <1>0, ConfigureFacts
<1> PICK k \in 0 .. 2 : k = 0
  OBVIOUS
<1> PICK e \in Events : e = [window |-> k, width |-> w, xpos |-> p]
  BY DEF Events
<1>2. e.window = 0 /\ e.width = w /\ e.xpos = p
  OBVIOUS
<1> PICK s \in Seq(Events) : s = x.events
  BY <1>0
<1> PICK ee : ee = Append(s, e)
  OBVIOUS
<1>3. ee # <<>> /\ LastSays(ee, w, p) /\ ~Quiet(ee)
  BY <1>2, AppendSays
<1>4. s # <<>> => Head(ee) = Head(s) /\ ~Quiet(Tail(ee))
  BY <1>2, AppendBehind
<1>5. y.events = ee
  BY <1>1
<1> QED
  BY <1>1, <1>3, <1>4, <1>5 DEF SaysZero, ZeroBehind, Behind

LEMMA OtherBehind ==
  ASSUME NEW s \in Seq(Events), NEW e \in Events, e.window # 0, NEW ee, ee = Append(s, e)
  PROVE  /\ ee \in Seq(Events) /\ Behind(ee, s)
         /\ \A w, p : LastSays(s, w, p) => LastSays(ee, w, p)
<1>1. /\ ee \in Seq(Events) /\ ee # <<>> /\ (Quiet(ee) => Quiet(s))
      /\ \A w, p : LastSays(s, w, p) => LastSays(ee, w, p)
  BY AppendSays
<1>2. s # <<>> => Head(ee) = Head(s) /\ (Quiet(Tail(ee)) => Quiet(Tail(s)))
  BY AppendBehind
<1> QED
  BY <1>1, <1>2 DEF Behind

LEMMA ConfigureOne ==
  ASSUME NEW x \in Displays, NEW w \in Nat, NEW p \in Nat, NEW y, y = Configure(x, 1, w, p)
  PROVE  /\ SameWindows(y, x) /\ (SaysZero(x) => SaysZero(y)) /\ Behind(y.events, x.events)
         /\ y.width = x.width /\ y.xpos[0] = x.xpos[0]
<1>0. 1 \in 0 .. 1 /\ 0 \in 0 .. 1 /\ x.events \in Seq(Events)
  BY DEF Displays
<1>1. /\ SameWindows(y, x) /\ y.width = x.width /\ y.xpos[0] = x.xpos[0]
      /\ y.events = Append(x.events, [window |-> 1, width |-> w, xpos |-> p])
  BY SMTT(30), <1>0, ConfigureFacts
<1> PICK k \in 0 .. 2 : k = 1
  OBVIOUS
<1> PICK e \in Events : e = [window |-> k, width |-> w, xpos |-> p]
  BY DEF Events
<1>2. e.window # 0
  OBVIOUS
<1> PICK s \in Seq(Events) : s = x.events
  BY <1>0
<1> PICK ee : ee = Append(s, e)
  OBVIOUS
<1>3. Behind(ee, s) /\ \A ww, pp : LastSays(s, ww, pp) => LastSays(ee, ww, pp)
  BY <1>2, OtherBehind
<1>4. y.events = ee
  BY <1>1
<1> QED
  BY <1>1, <1>3, <1>4 DEF SaysZero

(* One thread goes on.                                                     *)
LEMMA ThreadGoes ==
  ASSUME config \in [Threads -> ConfigStates], NEW t \in Threads, NEW c \in ConfigStates,
         config' = [config EXCEPT ![t] = c]
  PROVE  /\ config' \in [Threads -> ConfigStates]
         /\ config'[t] = c /\ \A u \in Threads \ {t} : config'[u] = config[u]
         /\ Loop' = IF t = "sxfe_run" THEN c.at ELSE Loop
         /\ Naming /\ (config[t].at \in {"pick", "send"} => c.at \in {"pick", "send"}) => Naming'
         /\ (\E u \in Threads : Sizing(config[u])) =>
              (\E u \in Threads : Sizing(config'[u])) \/ (Sizing(config[t]) /\ ~Sizing(c))
<1>1. config' \in [Threads -> ConfigStates] /\ config'[t] = c
      /\ \A u \in Threads \ {t} : config'[u] = config[u]
  OBVIOUS
<1>2. Loop' = IF t = "sxfe_run" THEN c.at ELSE Loop
  BY <1>1 DEF Loop, Threads
<1>3. Naming /\ (config[t].at \in {"pick", "send"} => c.at \in {"pick", "send"}) => Naming'
  BY <1>1 DEF Naming
<1>4. ASSUME NEW u \in Threads, Sizing(config[u])
      PROVE  (\E v \in Threads : Sizing(config'[v])) \/ (Sizing(config[t]) /\ ~Sizing(c))
  <2>1. CASE u = t
    BY <1>1, <1>4, <2>1
  <2>2. CASE u # t
    BY <1>1, <1>4, <2>2
  <2> QED
    BY <2>1, <2>2
<1> QED
  BY <1>1, <1>2, <1>3, <1>4

LEMMA GoFacts ==
  ASSUME config \in [Threads -> ConfigStates], NEW t \in Threads, NEW place \in Spots, Go(t, place)
  PROVE  \E c \in ConfigStates :
           /\ config' = [config EXCEPT ![t] = c]
           /\ c.at = place /\ c.fullscreen = config[t].fullscreen /\ c.window = config[t].window
           /\ c.stale = config[t].stale
<1> PICK d \in ConfigStates : d = config[t]
  OBVIOUS
<1> PICK c : c = [d EXCEPT !.at = place]
  OBVIOUS
<1>1. c \in ConfigStates /\ c.at = place /\ c.fullscreen = d.fullscreen /\ c.window = d.window
      /\ c.stale = d.stale
  BY DEF ConfigStates
<1>2. config' = [config EXCEPT ![t] = c]
  BY DEF Go
<1> QED
  BY <1>1, <1>2

LEMMA OutFields ==
  /\ Out \in ConfigStates /\ Out.at = "out" /\ Out.stale = FALSE
  /\ \A w \in Nat, full \in BOOLEAN :
       \E c \in ConfigStates : c = [Out EXCEPT !.at = "size", !.width = w, !.fullscreen = full] /\ c.at = "size"
  /\ \A place \in Spots, toggle \in BOOLEAN, force \in BOOLEAN :
       \E c \in ConfigStates : c = [Out EXCEPT !.at = place, !.toggle = toggle, !.force = force] /\ c.at = place
<1>1. Out \in ConfigStates /\ Out.at = "out" /\ Out.stale = FALSE /\ "size" \in Spots
  BY DEF Out, ConfigStates, Spots
<1>2. ASSUME NEW w \in Nat, NEW full \in BOOLEAN
      PROVE  \E c \in ConfigStates :
               c = [Out EXCEPT !.at = "size", !.width = w, !.fullscreen = full] /\ c.at = "size"
  <2> PICK c : c = [Out EXCEPT !.at = "size", !.width = w, !.fullscreen = full]
    OBVIOUS
  <2>1. c \in ConfigStates
    BY <1>1 DEF ConfigStates
  <2>2. c.at = "size"
    BY <1>1 DEF ConfigStates
  <2> QED
    BY <2>1, <2>2
<1>3. ASSUME NEW place \in Spots, NEW toggle \in BOOLEAN, NEW force \in BOOLEAN
      PROVE  \E c \in ConfigStates :
               c = [Out EXCEPT !.at = place, !.toggle = toggle, !.force = force] /\ c.at = place
  <2> PICK c : c = [Out EXCEPT !.at = place, !.toggle = toggle, !.force = force]
    OBVIOUS
  <2>1. c \in ConfigStates
    BY <1>1 DEF ConfigStates
  <2>2. c.at = place
    BY <1>1 DEF ConfigStates
  <2> QED
    BY <2>1, <2>2
<1> QED
  BY <1>1, <1>2, <1>3

(* A step of one thread that moves no window and takes no event.  What it   *)
(* writes is as it has to be, or stays as it was.                           *)
LoopAfter(t, d) == IF t = "sxfe_run" THEN d.at ELSE Loop

SameFrame(y, x) ==
  y \in Displays /\ y.mapped = x.mapped /\ y.above = x.above /\ y.width = x.width /\ y.xpos = x.xpos
  /\ y.events = x.events

DrawableGoes(c, d, y, x, s) ==
  \/ y.drawable = Current(s) \/ "drawable" \in y.late
  \/ y.drawable = x.drawable /\ "drawable" \notin x.late /\ (c.at \in {"pick", "send"} => d.at \in {"pick", "send"})

PlaceGoes(p, y, s) ==
  ~s.fullscreen /\ Quiet(y.events) => "place" \in y.late \/ p = y.xpos[0]

WidthGoes(c, d, w, before, after, y, s) ==
  ~s.fullscreen /\ Quiet(Unseen(y.events, after)) =>
    \/ w = y.width \/ Sizing(d)
    \/ Quiet(Unseen(y.events, before)) /\ w = s.width /\ (Sizing(c) => Sizing(d))

LEMMA LocalStep ==
  ASSUME WindowInv, NEW t \in Threads, NEW d \in ConfigStates, config' = [config EXCEPT ![t] = d],
         NamesCurrent(d, sxfe), sxfe.open, SameFrame(x11', x11), SameView(sxfe', sxfe),
         DrawableGoes(config[t], d, x11', x11, sxfe), PlaceGoes(sxfe'.xpos, x11', sxfe),
         WidthGoes(config[t], d, sxfe'.width, Loop, LoopAfter(t, d), x11, sxfe),
         HandledIsHead(LoopAfter(t, d), x11.events, sxfe.fullscreen),
         t = "sxfe_run" => config[t].at # "above"
  PROVE  WindowInv'
<1>0. config \in [Threads -> ConfigStates] /\ x11 \in Displays /\ sxfe \in WindowStates
  BY DEF WindowInv, WindowTypes
<1>1. /\ config' \in [Threads -> ConfigStates] /\ config'[t] = d
      /\ \A u \in Threads \ {t} : config'[u] = config[u]
      /\ Loop' = LoopAfter(t, d)
  BY <1>0, ThreadGoes DEF LoopAfter
<1>2. Naming /\ (config[t].at \in {"pick", "send"} => d.at \in {"pick", "send"}) => Naming'
  BY <1>0, ThreadGoes
<1>3. (\E u \in Threads : Sizing(config[u])) =>
        (\E u \in Threads : Sizing(config'[u])) \/ (Sizing(config[t]) /\ ~Sizing(d))
  BY <1>0, ThreadGoes
<1>4. Current(sxfe)' = Current(sxfe)
  BY DEF SameView, Current
<1>5. \A u \in Threads : NamesCurrent(config'[u], sxfe')
  <2> TAKE u \in Threads
  <2>1. NamesCurrent(config[u], sxfe) /\ NamesCurrent(d, sxfe)
    BY DEF WindowInv
  <2>2. config'[u] = config[u] \/ config'[u] = d
    BY <1>1
  <2> QED
    BY <1>4, <2>1, <2>2 DEF NamesCurrent, SameView
<1>6. WindowTypes'
  BY <1>0, <1>1 DEF WindowTypes, SameView, SameFrame
<1>7. x11'.drawable = Current(sxfe)' \/ "drawable" \in x11'.late \/ Naming'
  BY <1>2, <1>4 DEF WindowInv, DrawableGoes
<1>8. sxfe'.open /\ x11'.mapped = {Current(sxfe)'} /\ SaysZero(x11)'
  BY <1>4 DEF WindowInv, SameView, SameFrame, SaysZero
<1>9. ~sxfe'.fullscreen /\ Loop' # "above" => x11'.above = sxfe'.stay_above
  <2>1. Loop' # "above" => Loop # "above"
    BY <1>1 DEF LoopAfter, Loop
  <2> QED
    BY <2>1 DEF WindowInv, SameView, SameFrame
<1>10. ~sxfe'.fullscreen /\ Quiet(x11'.events) => "place" \in x11'.late \/ sxfe'.xpos = x11'.xpos[0]
  BY DEF PlaceGoes, SameView
<1>11. ~sxfe'.fullscreen /\ Quiet(Unseen(x11'.events, Loop')) =>
         (\E u \in Threads : Sizing(config'[u])) \/ sxfe'.width = x11'.width
  <2>1. Sizing(d) => \E u \in Threads : Sizing(config'[u])
    BY <1>1
  <2>2. ~sxfe.fullscreen /\ Quiet(Unseen(x11.events, Loop)) =>
          (\E u \in Threads : Sizing(config[u])) \/ sxfe.width = x11.width
    BY DEF WindowInv
  <2> QED
    BY <1>1, <1>3, <2>1, <2>2 DEF SameView, SameFrame, WidthGoes
<1>12. HandledIsHead(Loop', x11'.events, sxfe'.fullscreen)
  BY <1>1 DEF SameView, SameFrame
<1> QED
  BY <1>5, <1>6, <1>7, <1>8, <1>9, <1>10, <1>11, <1>12 DEF WindowInv

(* A step that only looks.                                                 *)
Quietly(c, d, s) ==
  /\ NamesCurrent(d, s)
  /\ c.at \in {"pick", "send"} => d.at \in {"pick", "send"}
  /\ Sizing(c) => Sizing(d) \/ s.fullscreen

LEMMA QuietStep ==
  ASSUME WindowInv, NEW t \in Threads, NEW d \in ConfigStates, config' = [config EXCEPT ![t] = d],
         Quietly(config[t], d, sxfe), sxfe.open, x11' = x11,
         SameView(sxfe', sxfe), sxfe'.width = sxfe.width, sxfe'.xpos = sxfe.xpos,
         t = "sxfe_run" => \/ config[t].at \in Sized /\ d.at \in Sized
                           \/ config[t].at \notin Sized \cup {"above"} /\ d.at \notin Unsized \cup Sized
  PROVE  WindowInv'
<1> PICK after : after = LoopAfter(t, d)
  OBVIOUS
<1>1. HandledIsHead(after, x11.events, sxfe.fullscreen) /\ Unseen(x11.events, after) = Unseen(x11.events, Loop)
  <2>1. HandledIsHead(Loop, x11.events, sxfe.fullscreen)
    BY DEF WindowInv
  <2>2. after = Loop \/ (Loop \in Sized /\ after \in Sized)
          \/ (Loop \notin Sized \cup {"above"} /\ after \notin Unsized \cup Sized)
    BY DEF Loop, LoopAfter
  <2>3. Loop \in Sized /\ after \in Sized => Loop \notin {"screen", "root"} /\ after # "width" /\ after \notin {"screen", "root"}
    BY DEF Sized
  <2>4. after \notin Unsized \cup Sized => after # "width"
    BY DEF Unsized
  <2>5. CASE after = Loop
    BY <2>1, <2>5
  <2>6. CASE Loop \in Sized /\ after \in Sized
    BY <2>1, <2>3, <2>6 DEF HandledIsHead, Unseen
  <2>7. CASE Loop \notin Sized \cup {"above"} /\ after \notin Unsized \cup Sized
    BY <2>4, <2>7 DEF HandledIsHead, Unseen
  <2> QED
    BY <2>2, <2>5, <2>6, <2>7
<1>2. SameFrame(x11', x11) /\ x11'.late = x11.late /\ x11'.drawable = x11.drawable
  BY DEF SameFrame, WindowInv, WindowTypes
<1>3. DrawableGoes(config[t], d, x11', x11, sxfe)
  BY DEF DrawableGoes, Quietly
<1>4. PlaceGoes(sxfe'.xpos, x11', sxfe)
  BY DEF PlaceGoes, WindowInv
<1>5. WidthGoes(config[t], d, sxfe'.width, Loop, after, x11, sxfe)
  BY <1>1 DEF WidthGoes, Quietly
<1>6. t = "sxfe_run" => config[t].at # "above"
  BY DEF Sized
<1>7. NamesCurrent(d, sxfe)
  BY DEF Quietly
<1> QED
  BY <1>1, <1>2, <1>3, <1>4, <1>5, <1>6, <1>7, LocalStep

Plain == {"out", "toggle", "save", "restore", "decide", "size", "resize", "check", "tell", "switch", "swap", "pick",
          "send", "done", "drag"}

LEMMA PlainSpots ==
  /\ \A p \in Plain : p \in Spots /\ p \notin Unsized \cup Sized \cup {"above"}
  /\ \A p \in Sized : p \in Spots /\ p \notin Plain
BY DEF Plain, Spots, Unsized, Sized

(* A step inside sxfe_display_config() and sxfe_toggle_fullscreen().       *)
LEMMA PlainStep ==
  ASSUME WindowInv, NEW t \in Threads, NEW d \in ConfigStates, config' = [config EXCEPT ![t] = d],
         config[t].at \in Plain \ {"pick", "send"}, d.at \in Plain \/ d.at = "above",
         NamesCurrent(d, sxfe), Sizing(config[t]) => Sizing(d) \/ sxfe.fullscreen, sxfe.open, x11' = x11,
         SameView(sxfe', sxfe), sxfe'.width = sxfe.width, sxfe'.xpos = sxfe.xpos
  PROVE  WindowInv'
<1>1. Quietly(config[t], d, sxfe)
  BY DEF Quietly
<1>2. config[t].at \notin Sized \cup {"above"} /\ d.at \notin Unsized \cup Sized
  <2>1. "above" \notin Unsized \cup Sized
    BY DEF Unsized, Sized
  <2> QED
    BY <2>1, PlainSpots
<1> QED
  BY <1>1, <1>2, QuietStep

LEMMA InsideIsOpen ==
  ASSUME WindowInv, NEW t \in Threads, config[t].at # "out"
  PROVE  sxfe.open /\ x11.mapped = {Current(sxfe)}
BY DEF WindowInv

LEMMA ConfigKeeps ==
  ASSUME WindowInv, NEW t \in Threads, NEW w \in Widths, NEW full \in BOOLEAN, Config(t, w, full)
  PROVE  WindowInv'
<1>1. sxfe' = sxfe /\ x11' = x11 /\ sxfe.open /\ config[t].at = "out" /\ sxfe \in WindowStates
  BY DEF Config, At, WindowInv, WindowTypes
<1> w \in Nat
  BY WindowAssumption
<1> PICK d \in ConfigStates : d = [Out EXCEPT !.at = "size", !.width = w, !.fullscreen = full] /\ d.at = "size"
  BY ONLY ZenonT(30), w \in Nat, full \in BOOLEAN, OutFields
<1>3. config' = [config EXCEPT ![t] = d]
  BY DEF Config
<1>4. NamesCurrent(d, sxfe) /\ ~Sizing(config[t]) /\ config[t].at \in Plain \ {"pick", "send"} /\ d.at \in Plain
  BY <1>1 DEF NamesCurrent, Sizing, Plain
<1>5. SameView(sxfe', sxfe) /\ sxfe'.width = sxfe.width /\ sxfe'.xpos = sxfe.xpos
  BY <1>1 DEF SameView
<1> QED
  BY <1>1, <1>3, <1>4, <1>5, PlainStep

LEMMA ToggleKeeps ==
  ASSUME WindowInv, NEW t \in Threads, ToggleFullscreen(t)
  PROVE  WindowInv'
<1>1. x11' = x11 /\ sxfe.open /\ config[t].at = "out" /\ sxfe \in WindowStates
      /\ sxfe' = [sxfe EXCEPT !.forced = FALSE]
  BY DEF ToggleFullscreen, At, WindowInv, WindowTypes
<1>2. sxfe.forced \in BOOLEAN
  BY <1>1 DEF WindowStates
<1>3. "toggle" \in Plain /\ "toggle" \in Spots
  BY PlainSpots DEF Plain
<1> PICK force \in BOOLEAN : force = sxfe.forced
  BY <1>2
<1> PICK d \in ConfigStates : d = [Out EXCEPT !.at = "toggle", !.toggle = TRUE, !.force = force] /\ d.at = "toggle"
  BY ONLY ZenonT(30), <1>3, force \in BOOLEAN, OutFields
<1>4. config' = [config EXCEPT ![t] = d]
  BY DEF ToggleFullscreen
<1>5. NamesCurrent(d, sxfe) /\ ~Sizing(config[t]) /\ config[t].at \in Plain \ {"pick", "send"} /\ d.at \in Plain
  BY <1>1, <1>3 DEF NamesCurrent, Sizing, Plain
<1>6. SameView(sxfe', sxfe) /\ sxfe'.width = sxfe.width /\ sxfe'.xpos = sxfe.xpos
  BY <1>1 DEF SameView, WindowStates
<1> QED
  BY <1>1, <1>4, <1>5, <1>6, PlainStep

LEMMA ToggleLookKeeps ==
  ASSUME WindowInv, NEW t \in Threads, ToggleLook(t)
  PROVE  WindowInv'
<1>1. x11' = x11 /\ sxfe' = sxfe /\ config[t].at = "toggle" /\ sxfe \in WindowStates
      /\ config \in [Threads -> ConfigStates]
  BY DEF ToggleLook, At, WindowInv, WindowTypes
<1>2. sxfe.open
  BY <1>1, InsideIsOpen
<1> PICK place : place = IF sxfe.fullscreen THEN "restore" ELSE "save"
  OBVIOUS
<1>3. place \in Plain /\ place \in Spots
  BY PlainSpots DEF Plain
<1>4. Go(t, place)
  BY DEF ToggleLook
<1> PICK d \in ConfigStates : config' = [config EXCEPT ![t] = d] /\ d.at = place
  BY <1>1, <1>3, <1>4, GoFacts
<1>5. NamesCurrent(d, sxfe) /\ ~Sizing(config[t]) /\ config[t].at \in Plain \ {"pick", "send"} /\ d.at \in Plain
  BY <1>1, <1>3 DEF NamesCurrent, Sizing, Plain
<1>6. SameView(sxfe', sxfe) /\ sxfe'.width = sxfe.width /\ sxfe'.xpos = sxfe.xpos
  BY <1>1 DEF SameView
<1> QED
  BY <1>1, <1>2, <1>5, <1>6, PlainStep

LEMMA SaveKeeps ==
  ASSUME WindowInv, NEW t \in Threads, ToggleSave(t)
  PROVE  WindowInv'
<1>1. x11' = x11 /\ config[t].at = "save" /\ sxfe \in WindowStates
      /\ sxfe' = [sxfe EXCEPT !.origwidth = sxfe.width, !.origxpos = sxfe.xpos]
      /\ config \in [Threads -> ConfigStates]
  BY DEF ToggleSave, At, WindowInv, WindowTypes
<1>2. sxfe.open
  BY <1>1, InsideIsOpen
<1>3. "decide" \in Spots /\ Go(t, "decide")
  BY DEF Spots, ToggleSave
<1> PICK d \in ConfigStates : config' = [config EXCEPT ![t] = d] /\ d.at = "decide"
  BY <1>1, <1>3, GoFacts
<1>5. NamesCurrent(d, sxfe) /\ ~Sizing(config[t]) /\ config[t].at \in Plain \ {"pick", "send"} /\ d.at \in Plain
  BY <1>1 DEF NamesCurrent, Sizing, Plain
<1>6. SameView(sxfe', sxfe) /\ sxfe'.width = sxfe.width /\ sxfe'.xpos = sxfe.xpos
  BY <1>1 DEF SameView, WindowStates
<1> QED
  BY <1>1, <1>2, <1>5, <1>6, PlainStep

LEMMA DecideKeeps ==
  ASSUME WindowInv, NEW t \in Threads, NEW full \in BOOLEAN, ToggleDecide(t, full)
  PROVE  WindowInv'
<1>1. x11' = x11 /\ sxfe' = sxfe /\ config[t].at = "decide" /\ sxfe \in WindowStates
      /\ config \in [Threads -> ConfigStates]
  BY DEF ToggleDecide, At, WindowInv, WindowTypes
<1>2. sxfe.open
  BY <1>1, InsideIsOpen
<1> PICK w \in Nat : w = sxfe.origwidth
  BY <1>1 DEF WindowStates
<1> PICK c \in ConfigStates : c = config[t]
  BY <1>1
<1> PICK d : d = [c EXCEPT !.at = "size", !.width = w, !.fullscreen = full]
  OBVIOUS
<1>3. d \in ConfigStates /\ d.at = "size"
  BY DEF ConfigStates, Spots
<1>4. config' = [config EXCEPT ![t] = d]
  <2>1. config' = [config EXCEPT ![t].at = "size", ![t].width = w, ![t].fullscreen = full]
    BY DEF ToggleDecide
  <2> QED
    BY <1>1, <2>1
<1>5. NamesCurrent(d, sxfe) /\ ~Sizing(config[t]) /\ config[t].at \in Plain \ {"pick", "send"} /\ d.at \in Plain
  BY <1>1, <1>3 DEF NamesCurrent, Sizing, Plain
<1>6. SameView(sxfe', sxfe) /\ sxfe'.width = sxfe.width /\ sxfe'.xpos = sxfe.xpos
  BY <1>1 DEF SameView
<1> QED
  BY <1>1, <1>2, <1>3, <1>4, <1>5, <1>6, PlainStep

LEMMA CheckKeeps ==
  ASSUME WindowInv, NEW t \in Threads, ConfigCheck(t)
  PROVE  WindowInv'
<1>1. x11' = x11 /\ sxfe' = sxfe /\ config[t].at = "check" /\ sxfe \in WindowStates
      /\ config \in [Threads -> ConfigStates]
  BY DEF ConfigCheck, At, WindowInv, WindowTypes
<1>2. sxfe.open
  BY <1>1, InsideIsOpen
<1>3. ~Sizing(config[t]) /\ config[t].at \in Plain \ {"pick", "send"}
  BY <1>1 DEF Sizing, Plain
<1>4. SameView(sxfe', sxfe) /\ sxfe'.width = sxfe.width /\ sxfe'.xpos = sxfe.xpos
  BY <1>1 DEF SameView
<1>5. ASSUME Go(t, "switch") PROVE WindowInv'
  <2>1. "switch" \in Spots
    BY DEF Spots
  <2> PICK d \in ConfigStates : config' = [config EXCEPT ![t] = d] /\ d.at = "switch"
    BY <1>1, <1>5, <2>1, GoFacts
  <2>2. NamesCurrent(d, sxfe) /\ d.at \in Plain
    BY DEF NamesCurrent, Plain
  <2> QED
    BY <1>1, <1>2, <1>3, <1>4, <2>2, PlainStep
<1>6. ASSUME ~sxfe.fullscreen,
             config' = [config EXCEPT ![t].at = "tell", ![t].window = 0, ![t].stale = FALSE]
      PROVE  WindowInv'
  <2> PICK c \in ConfigStates : c = config[t]
    BY <1>1
  <2> PICK zero \in 0 .. 1 : zero = 0
    OBVIOUS
  <2> PICK d : d = [c EXCEPT !.at = "tell", !.window = zero, !.stale = FALSE]
    OBVIOUS
  <2>1. d \in ConfigStates /\ d.at = "tell" /\ d.window = zero
    BY DEF ConfigStates, Spots
  <2>2. config' = [config EXCEPT ![t] = d]
    BY <1>1, <1>6
  <2>3. NamesCurrent(d, sxfe) /\ d.at \in Plain
    BY <1>6, <2>1 DEF NamesCurrent, Plain, Current
  <2> QED
    BY <1>1, <1>2, <1>3, <1>4, <2>1, <2>2, <2>3, PlainStep
<1> QED
  BY <1>5, <1>6 DEF ConfigCheck

LEMMA FinishFacts ==
  ASSUME config \in [Threads -> ConfigStates], NEW t \in Threads, Finish(t)
  PROVE  \E d \in ConfigStates : config' = [config EXCEPT ![t] = d] /\ d.at = "done"
<1> PICK c \in ConfigStates : c = config[t]
  OBVIOUS
<1>1. "done" \in Spots /\ c.toggle \in BOOLEAN /\ c.force \in BOOLEAN
  BY DEF Spots, ConfigStates
<1> PICK toggle \in BOOLEAN : toggle = c.toggle
  BY <1>1
<1> PICK force \in BOOLEAN : force = c.force
  BY <1>1
<1> PICK place \in Spots : place = "done"
  BY <1>1
<1> PICK d : d = [Out EXCEPT !.at = place, !.toggle = toggle, !.force = force]
  OBVIOUS
<1>2. d \in ConfigStates /\ d.at = place
  <2>1. Out \in ConfigStates
    BY OutFields
  <2> QED
    BY <2>1 DEF ConfigStates
<1>3. config' = [config EXCEPT ![t] = d]
  BY DEF Finish
<1> QED
  BY <1>2, <1>3

LEMMA SwitchKeeps ==
  ASSUME WindowInv, NEW t \in Threads, ConfigSwitch(t)
  PROVE  WindowInv'
<1>1. x11' = x11 /\ sxfe' = sxfe /\ config[t].at = "switch" /\ sxfe \in WindowStates
      /\ config \in [Threads -> ConfigStates]
  BY DEF ConfigSwitch, At, WindowInv, WindowTypes
<1>2. sxfe.open
  BY <1>1, InsideIsOpen
<1>3. config[t].at \in Plain \ {"pick", "send"}
  BY <1>1 DEF Plain
<1>4. SameView(sxfe', sxfe) /\ sxfe'.width = sxfe.width /\ sxfe'.xpos = sxfe.xpos
  BY <1>1 DEF SameView
<1>5. ASSUME Go(t, "swap") PROVE WindowInv'
  <2>1. "swap" \in Spots
    BY DEF Spots
  <2> PICK d \in ConfigStates :
        config' = [config EXCEPT ![t] = d] /\ d.at = "swap" /\ d.fullscreen = config[t].fullscreen
    BY <1>1, <1>5, <2>1, GoFacts
  <2>2. NamesCurrent(d, sxfe) /\ d.at \in Plain /\ (Sizing(config[t]) => Sizing(d))
    BY <1>1 DEF NamesCurrent, Plain, Sizing
  <2> QED
    BY <1>1, <1>2, <1>3, <1>4, <2>2, PlainStep
<1>6. ASSUME config[t].fullscreen = sxfe.fullscreen, Finish(t) PROVE WindowInv'
  <2> PICK d \in ConfigStates : config' = [config EXCEPT ![t] = d] /\ d.at = "done"
    BY <1>1, <1>6, FinishFacts
  <2>1. NamesCurrent(d, sxfe) /\ d.at \in Plain /\ (Sizing(config[t]) => sxfe.fullscreen)
    BY <1>1, <1>6 DEF NamesCurrent, Plain, Sizing
  <2> QED
    BY <1>1, <1>2, <1>3, <1>4, <2>1, PlainStep
<1> QED
  BY <1>5, <1>6 DEF ConfigSwitch

LEMMA PickKeeps ==
  ASSUME WindowInv, NEW t \in Threads, ConfigPick(t)
  PROVE  WindowInv'
<1>1. x11' = x11 /\ sxfe' = sxfe /\ config[t].at = "pick" /\ sxfe \in WindowStates
      /\ config \in [Threads -> ConfigStates]
  BY DEF ConfigPick, At, WindowInv, WindowTypes
<1>2. sxfe.open
  BY <1>1, InsideIsOpen
<1> PICK c \in ConfigStates : c = config[t]
  BY <1>1
<1> PICK k \in 0 .. 1 : k = Current(sxfe)
  BY DEF Current
<1> PICK d : d = [c EXCEPT !.at = "send", !.window = k, !.stale = FALSE]
  OBVIOUS
<1>3. d \in ConfigStates /\ d.at = "send" /\ d.window = k
  BY DEF ConfigStates, Spots
<1>4. config' = [config EXCEPT ![t] = d]
  <2>1. config' = [config EXCEPT ![t].at = "send", ![t].window = k, ![t].stale = FALSE]
    BY DEF ConfigPick
  <2> QED
    BY <1>1, <2>1
<1>5. Quietly(config[t], d, sxfe)
  BY <1>1, <1>3 DEF Quietly, NamesCurrent, Sizing
<1>6. SameView(sxfe', sxfe) /\ sxfe'.width = sxfe.width /\ sxfe'.xpos = sxfe.xpos
  BY <1>1 DEF SameView
<1>7. config[t].at \notin Sized \cup {"above"} /\ d.at \notin Unsized \cup Sized
  BY <1>1, <1>3 DEF Sized, Unsized
<1> QED
  BY <1>1, <1>2, <1>3, <1>4, <1>5, <1>6, <1>7, QuietStep

LEMMA DoneKeeps ==
  ASSUME WindowInv, NEW t \in Threads, ConfigDone(t)
  PROVE  WindowInv'
<1>1. x11' = x11 /\ config[t].at = "done" /\ sxfe \in WindowStates /\ config[t] \in ConfigStates
      /\ config' = [config EXCEPT ![t] = Out]
  BY DEF ConfigDone, At, WindowInv, WindowTypes
<1>2. sxfe.open
  BY <1>1, InsideIsOpen
<1> PICK b \in BOOLEAN : b = ~config[t].force
  BY <1>1 DEF ConfigStates
<1>3. sxfe' = [sxfe EXCEPT !.forced = b] \/ sxfe' = sxfe
  BY DEF ConfigDone
<1>4. SameView(sxfe', sxfe) /\ sxfe'.width = sxfe.width /\ sxfe'.xpos = sxfe.xpos
  BY ONLY <1>1, <1>3, b \in BOOLEAN DEF WindowStates, SameView
<1> PICK d \in ConfigStates : d = Out /\ d.at = "out"
  BY OutFields
<1>5. NamesCurrent(d, sxfe) /\ ~Sizing(config[t]) /\ config[t].at \in Plain \ {"pick", "send"} /\ d.at \in Plain
  BY <1>1 DEF NamesCurrent, Sizing, Plain
<1>6. config' = [config EXCEPT ![t] = d]
  BY <1>1
<1> QED
  BY <1>1, <1>2, <1>4, <1>5, <1>6, PlainStep

LEMMA LoopFacts ==
  ASSUME WindowInv, Loop \in Unsized \cup Sized \cup {"drag", "above"}
  PROVE  /\ "sxfe_run" \in Threads /\ config["sxfe_run"].at = Loop /\ Loop # "out"
         /\ sxfe.open /\ x11.mapped = {Current(sxfe)} /\ ~Sizing(config["sxfe_run"])
<1>1. "sxfe_run" \in Threads /\ config["sxfe_run"].at = Loop
  BY DEF Threads, Loop
<1>2. Loop # "out" /\ Loop # "resize" /\ Loop \notin {"switch", "swap"}
  BY DEF Unsized, Sized
<1> QED
  BY <1>1, <1>2, InsideIsOpen DEF Sizing

(* The rest of XConfigureEvent_handler() that writes nothing to X.         *)
LEMMA SizedStep ==
  ASSUME WindowInv, Loop \in Sized, NEW place \in Sized, Go("sxfe_run", place), x11' = x11,
         SameView(sxfe', sxfe), sxfe'.width = sxfe.width, sxfe'.xpos = sxfe.xpos
  PROVE  WindowInv'
<1>1. "sxfe_run" \in Threads /\ config["sxfe_run"].at = Loop /\ sxfe.open /\ ~Sizing(config["sxfe_run"])
  BY LoopFacts
<1>2. place \in Spots /\ config \in [Threads -> ConfigStates]
  BY PlainSpots DEF WindowInv, WindowTypes
<1> PICK d \in ConfigStates : config' = [config EXCEPT !["sxfe_run"] = d] /\ d.at = place
  BY <1>1, <1>2, GoFacts
<1>3. Quietly(config["sxfe_run"], d, sxfe)
  <2>1. Loop \notin {"pick", "send"} /\ d.at \notin {"tell", "send", "restore"}
    BY DEF Sized
  <2> QED
    BY <1>1, <2>1 DEF Quietly, NamesCurrent
<1> QED
  BY <1>1, <1>3, QuietStep

LEMMA EventLooksKeep ==
  ASSUME WindowInv, EventMoved \/ EventCheckMove \/ EventCompare
  PROVE  WindowInv'
<1>0. sxfe \in WindowStates
  BY DEF WindowInv, WindowTypes
<1>1. Loop \in Sized /\ x11' = x11 /\ (sxfe' = sxfe \/ sxfe' = [sxfe EXCEPT !.check_move = FALSE])
  BY DEF EventMoved, EventCheckMove, EventCompare, At, Loop, Sized
<1>2. \E place \in Sized : Go("sxfe_run", place)
  BY DEF EventMoved, EventCheckMove, EventCompare, Sized
<1>3. SameView(sxfe', sxfe) /\ sxfe'.width = sxfe.width /\ sxfe'.xpos = sxfe.xpos
  BY ONLY <1>0, <1>1 DEF WindowStates, SameView
<1> QED
  BY <1>1, <1>2, <1>3, SizedStep

(* The loop begins something: out of its main loop, nothing is handled.    *)
LEMMA LoopBegins ==
  ASSUME WindowInv, Running, NEW d \in ConfigStates, config' = [config EXCEPT !["sxfe_run"] = d],
         d.at \in {"out", "drag", "above"}, x11' = x11, sxfe' \in WindowStates, sxfe'.open = sxfe.open,
         sxfe'.fullscreen = sxfe.fullscreen, sxfe'.width = sxfe.width, sxfe'.xpos = sxfe.xpos,
         d.at = "above" \/ sxfe'.stay_above = sxfe.stay_above
  PROVE  WindowInv'
<1>0. config \in [Threads -> ConfigStates] /\ sxfe.open /\ config["sxfe_run"].at = "out"
      /\ "sxfe_run" \in Threads
  BY DEF WindowInv, WindowTypes, Running, At, Threads
<1>1. /\ config' \in [Threads -> ConfigStates] /\ config'["sxfe_run"] = d
      /\ \A u \in Threads \ {"sxfe_run"} : config'[u] = config[u]
      /\ Loop' = d.at /\ Loop = "out"
  BY <1>0, ThreadGoes DEF Loop
<1>2. Naming => Naming'
  BY <1>0, ThreadGoes
<1>3. ~Sizing(config["sxfe_run"])
  BY <1>0 DEF Sizing
<1>4. (\E u \in Threads : Sizing(config[u])) => \E u \in Threads : Sizing(config'[u])
  BY <1>0, <1>3, ThreadGoes
<1>5. \A u \in Threads : NamesCurrent(config'[u], sxfe')
  BY <1>1 DEF WindowInv, NamesCurrent, Current
<1>6. Unseen(x11.events, Loop') = Unseen(x11.events, Loop) /\ HandledIsHead(Loop', x11.events, sxfe.fullscreen)
  BY <1>1 DEF Unseen, HandledIsHead, Sized, Unsized
<1>7. WindowTypes'
  BY <1>1 DEF WindowInv, WindowTypes
<1>8. Current(sxfe)' = Current(sxfe)
  BY DEF Current
<1>9. /\ sxfe'.open /\ x11'.mapped = {Current(sxfe)'} /\ SaysZero(x11)'
      /\ x11'.drawable = Current(sxfe)' \/ "drawable" \in x11'.late \/ Naming'
      /\ ~sxfe'.fullscreen /\ Loop' # "above" => x11'.above = sxfe'.stay_above
  BY <1>0, <1>1, <1>2, <1>8 DEF WindowInv, SaysZero
<1>10. /\ ~sxfe'.fullscreen /\ Quiet(x11'.events) => "place" \in x11'.late \/ sxfe'.xpos = x11'.xpos[0]
       /\ ~sxfe'.fullscreen /\ Quiet(Unseen(x11'.events, Loop')) =>
            (\E u \in Threads : Sizing(config'[u])) \/ sxfe'.width = x11'.width
       /\ HandledIsHead(Loop', x11'.events, sxfe'.fullscreen)
  BY <1>0, <1>4, <1>6 DEF WindowInv
<1> QED
  BY <1>5, <1>7, <1>9, <1>10 DEF WindowInv

LEMMA MouseKeeps ==
  ASSUME WindowInv, XMotionEvent \/ Button1 \/ ButtonRelease \/ Button3
  PROVE  WindowInv'
<1>0. sxfe \in WindowStates /\ config \in [Threads -> ConfigStates] /\ "sxfe_run" \in Threads
      /\ config["sxfe_run"] \in ConfigStates
  BY DEF WindowInv, WindowTypes, Threads
<1>1. Running /\ x11' = x11
  BY DEF XMotionEvent, Button1, ButtonRelease, Button3
<1>2. \/ sxfe' = sxfe \/ \E b \in BOOLEAN : sxfe' = [sxfe EXCEPT !.dragging = b]
      \/ sxfe' = [sxfe EXCEPT !.no_border = TRUE]
      \/ sxfe' = [sxfe EXCEPT !.stay_above = TRUE] /\ Go("sxfe_run", "above")
      \/ sxfe' = [sxfe EXCEPT !.no_border = FALSE, !.stay_above = FALSE] /\ Go("sxfe_run", "above")
  BY DEF XMotionEvent, Button1, ButtonRelease, Button3
<1>3. /\ sxfe' \in WindowStates /\ sxfe'.open = sxfe.open /\ sxfe'.fullscreen = sxfe.fullscreen
      /\ sxfe'.width = sxfe.width /\ sxfe'.xpos = sxfe.xpos
      /\ Go("sxfe_run", "above") \/ sxfe'.stay_above = sxfe.stay_above
  BY ONLY <1>0, <1>2 DEF WindowStates
<1>4. config' = config \/ Go("sxfe_run", "drag") \/ Go("sxfe_run", "above")
  BY DEF XMotionEvent, Button1, ButtonRelease, Button3
<1>5. ASSUME Go("sxfe_run", "above") PROVE WindowInv'
  <2>1. "above" \in Spots
    BY DEF Spots
  <2> PICK d \in ConfigStates : config' = [config EXCEPT !["sxfe_run"] = d] /\ d.at = "above"
    BY <1>0, <1>5, <2>1, GoFacts
  <2> QED
    BY <1>1, <1>3, LoopBegins
<1>6. ASSUME ~Go("sxfe_run", "above"), Go("sxfe_run", "drag") PROVE WindowInv'
  <2>1. "drag" \in Spots
    BY DEF Spots
  <2> PICK d \in ConfigStates : config' = [config EXCEPT !["sxfe_run"] = d] /\ d.at = "drag"
    BY <1>0, <1>6, <2>1, GoFacts
  <2> QED
    BY <1>1, <1>3, <1>6, LoopBegins
<1>7. ASSUME ~Go("sxfe_run", "above"), config' = config PROVE WindowInv'
  <2> PICK d \in ConfigStates : d = config["sxfe_run"]
    BY <1>0
  <2>1. config' = [config EXCEPT !["sxfe_run"] = d] /\ d.at = "out"
    BY <1>0, <1>1, <1>7 DEF Running, At
  <2> QED
    BY <1>1, <1>3, <1>7, <2>1, LoopBegins
<1> QED
  BY <1>4, <1>5, <1>6, <1>7


LEMMA WrittenFacts ==
  ASSUME NEW x \in Displays, NEW t \in Threads, NEW what \in {"drawable", "place"},
         NEW y, y = Written(x, t, what)
  PROVE  /\ SameFrame(y, x) /\ y.drawable = x.drawable
         /\ config[t].stale => what \in y.late
         /\ what = "place" => ("drawable" \in y.late <=> "drawable" \in x.late)
         /\ what = "drawable" => ("place" \in y.late <=> "place" \in x.late)
<1> PICK late : late = IF config[t].stale THEN x.late \cup {what} ELSE x.late \ {what}
  OBVIOUS
<1>1. x.late \subseteq {"drawable", "place"}
  BY DEF Displays
<1>2. late \in SUBSET {"drawable", "place"}
  BY <1>1
<1>3. y = [x EXCEPT !.late = late]
  BY DEF Written
<1>4. y \in Displays /\ y.mapped = x.mapped /\ y.above = x.above /\ y.width = x.width /\ y.xpos = x.xpos
      /\ y.events = x.events /\ y.drawable = x.drawable /\ y.late = late
  BY ONLY x \in Displays, <1>2, <1>3 DEF Displays
<1> QED
  BY <1>4 DEF SameFrame

LEMMA DrawnFacts ==
  ASSUME NEW y \in Displays, NEW i \in 0 .. 1, NEW z, z = [y EXCEPT !.drawable = i]
  PROVE  SameFrame(z, y) /\ z.drawable = i /\ z.late = y.late
<1>1. z \in Displays
  BY DEF Displays
<1>2. z.mapped = y.mapped /\ z.above = y.above /\ z.width = y.width /\ z.xpos = y.xpos
      /\ z.events = y.events /\ z.drawable = i /\ z.late = y.late
  BY DEF Displays
<1> QED
  BY <1>1, <1>2 DEF SameFrame

(* Where the loop is matters only while it handles an event.               *)
LEMMA PlainLook ==
  ASSUME WindowInv, NEW t \in Threads, NEW d, config[t].at \in Plain, d.at \in Plain,
         NEW after, after = LoopAfter(t, d)
  PROVE  /\ HandledIsHead(after, x11.events, sxfe.fullscreen)
         /\ Unseen(x11.events, after) = Unseen(x11.events, Loop)
         /\ config[t].at # "above"
<1>1. HandledIsHead(Loop, x11.events, sxfe.fullscreen)
  BY DEF WindowInv
<1>2. after = Loop \/ (after \in Plain /\ Loop \in Plain)
  BY DEF LoopAfter, Loop
<1>3. \A p \in Plain : p \notin Unsized \cup Sized \cup {"above"} /\ p # "width"
  BY PlainSpots DEF Unsized
<1> QED
  BY <1>1, <1>2, <1>3 DEF HandledIsHead, Unseen

LEMMA RestoreKeeps ==
  ASSUME WindowInv, NEW t \in Threads, ToggleRestore(t)
  PROVE  WindowInv'
<1>1. config[t].at = "restore" /\ sxfe \in WindowStates /\ x11 \in Displays
      /\ config \in [Threads -> ConfigStates]
      /\ sxfe' = [sxfe EXCEPT !.xpos = sxfe.origxpos] /\ x11' = Written(x11, t, "place")
  BY DEF ToggleRestore, At, WindowInv, WindowTypes
<1>2. sxfe.open
  BY <1>1, InsideIsOpen
<1>3. "decide" \in Spots /\ Go(t, "decide")
  BY DEF Spots, ToggleRestore
<1> PICK d \in ConfigStates : config' = [config EXCEPT ![t] = d] /\ d.at = "decide"
  BY <1>1, <1>3, GoFacts
<1>4. NamesCurrent(d, sxfe) /\ ~Sizing(config[t]) /\ config[t].at \in Plain /\ d.at \in Plain
  BY <1>1 DEF NamesCurrent, Sizing, Plain
<1> PICK w \in Nat : w = sxfe.origxpos
  BY <1>1 DEF WindowStates
<1>5. SameView(sxfe', sxfe) /\ sxfe'.width = sxfe.width
  <2>1. sxfe' = [sxfe EXCEPT !.xpos = w]
    BY <1>1
  <2> QED
    BY ONLY <1>1, <2>1, w \in Nat DEF WindowStates, SameView
<1> PICK y : y = Written(x11, t, "place")
  OBVIOUS
<1>6. /\ SameFrame(y, x11) /\ y.drawable = x11.drawable /\ (config[t].stale => "place" \in y.late)
      /\ ("drawable" \in y.late <=> "drawable" \in x11.late)
  BY <1>1, WrittenFacts
<1>7. DrawableGoes(config[t], d, y, x11, sxfe)
  BY <1>1, <1>6 DEF DrawableGoes
<1>8. PlaceGoes(sxfe'.xpos, y, sxfe)
  BY <1>1, <1>6 DEF PlaceGoes, WindowInv, NamesCurrent
<1> PICK after : after = LoopAfter(t, d)
  OBVIOUS
<1>9. /\ HandledIsHead(after, x11.events, sxfe.fullscreen) /\ config[t].at # "above"
      /\ Unseen(x11.events, after) = Unseen(x11.events, Loop)
  BY <1>4, PlainLook
<1>10. WidthGoes(config[t], d, sxfe'.width, Loop, after, x11, sxfe)
  BY <1>4, <1>5, <1>9 DEF WidthGoes
<1>11. x11' = y
  BY <1>1
<1> QED
  BY <1>2, <1>4, <1>5, <1>6, <1>7, <1>8, <1>9, <1>10, <1>11, LocalStep

LEMMA SizeKeeps ==
  ASSUME WindowInv, NEW t \in Threads, ConfigSize(t)
  PROVE  WindowInv'
<1>1. config[t].at = "size" /\ sxfe \in WindowStates /\ x11 \in Displays /\ x11' = x11
      /\ config \in [Threads -> ConfigStates]
  BY DEF ConfigSize, At, WindowInv, WindowTypes
<1>2. sxfe.open
  BY <1>1, InsideIsOpen
<1> PICK c \in ConfigStates : c = config[t]
  BY <1>1
<1>3. c.fullscreen \in BOOLEAN /\ sxfe.fullscreen \in BOOLEAN /\ c.width \in Nat /\ ScreenWidth \in Nat
  BY <1>1, WindowAssumption DEF ConfigStates, WindowStates
<1> PICK full \in BOOLEAN : full = IF sxfe.forced THEN sxfe.fullscreen ELSE c.fullscreen
  BY <1>3
<1> PICK w \in Nat : w = IF full THEN ScreenWidth ELSE c.width
  BY <1>3
<1> PICK place \in {"resize", "switch"} : place = IF ~full /\ w # sxfe.width THEN "resize" ELSE "switch"
  OBVIOUS
<1> PICK zero \in Nat : zero = 0
  OBVIOUS
<1> PICK d : d = [c EXCEPT !.fullscreen = full, !.width = zero, !.at = place]
  OBVIOUS
<1>4. d \in ConfigStates /\ d.at = place /\ d.fullscreen = full
  BY DEF ConfigStates, Spots
<1>5. sxfe' = [sxfe EXCEPT !.width = w] /\ config' = [config EXCEPT ![t] = d]
  <2>1. /\ sxfe' = [sxfe EXCEPT !.width = w]
        /\ config' = [config EXCEPT ![t].fullscreen = full, ![t].width = 0, ![t].at = place]
    BY DEF ConfigSize
  <2> QED
    BY <1>1, <2>1
<1>6. NamesCurrent(d, sxfe) /\ ~Sizing(config[t]) /\ config[t].at \in Plain /\ d.at \in Plain
  BY <1>1, <1>4 DEF NamesCurrent, Sizing, Plain
<1>7. SameView(sxfe', sxfe) /\ sxfe'.width = w /\ sxfe'.xpos = sxfe.xpos
  BY ONLY <1>1, <1>5, w \in Nat DEF WindowStates, SameView
<1>8. Sizing(d) \/ w = sxfe.width
  BY <1>4 DEF Sizing
<1> PICK after : after = LoopAfter(t, d)
  OBVIOUS
<1>9. /\ HandledIsHead(after, x11.events, sxfe.fullscreen) /\ config[t].at # "above"
      /\ Unseen(x11.events, after) = Unseen(x11.events, Loop)
  BY <1>6, PlainLook
<1>10. WidthGoes(config[t], d, sxfe'.width, Loop, after, x11, sxfe)
  BY <1>6, <1>7, <1>8, <1>9 DEF WidthGoes
<1>11. SameFrame(x11', x11) /\ DrawableGoes(config[t], d, x11', x11, sxfe)
  BY <1>1 DEF SameFrame, DrawableGoes
<1>12. PlaceGoes(sxfe'.xpos, x11', sxfe)
  BY <1>1, <1>2, <1>7 DEF PlaceGoes, WindowInv
<1>13. t \in Threads /\ d \in ConfigStates /\ config' = [config EXCEPT ![t] = d]
  BY <1>4, <1>5
<1>14. NamesCurrent(d, sxfe) /\ SameView(sxfe', sxfe)
  BY <1>6, <1>7
<1>15. /\ WidthGoes(config[t], d, sxfe'.width, Loop, LoopAfter(t, d), x11, sxfe)
       /\ HandledIsHead(LoopAfter(t, d), x11.events, sxfe.fullscreen)
  BY <1>9, <1>10
<1> QED
  BY ONLY WindowInv, <1>2, <1>9, <1>11, <1>12, <1>13, <1>14, <1>15, LocalStep

LEMMA SendKeeps ==
  ASSUME WindowInv, NEW t \in Threads, config[t].at \in {"tell", "send"}, SendDrawable(t), sxfe' = sxfe,
         NEW d \in ConfigStates, config' = [config EXCEPT ![t] = d], d.at \in {"switch", "done"}
  PROVE  WindowInv'
<1>1. sxfe \in WindowStates /\ x11 \in Displays /\ config \in [Threads -> ConfigStates]
      /\ x11' = [Written(x11, t, "drawable") EXCEPT !.drawable = config[t].window]
  BY DEF SendDrawable, WindowInv, WindowTypes
<1>2. sxfe.open
  BY InsideIsOpen
<1> PICK i \in 0 .. 1 : i = config[t].window
  BY <1>1 DEF ConfigStates
<1> PICK y : y = Written(x11, t, "drawable")
  OBVIOUS
<1>3. /\ SameFrame(y, x11) /\ (config[t].stale => "drawable" \in y.late)
      /\ ("place" \in y.late <=> "place" \in x11.late)
  BY <1>1, WrittenFacts
<1> PICK z : z = [y EXCEPT !.drawable = i]
  OBVIOUS
<1>4. SameFrame(z, y) /\ z.drawable = i /\ z.late = y.late
  BY <1>3, DrawnFacts DEF SameFrame
<1>5. SameFrame(z, x11)
  BY <1>3, <1>4 DEF SameFrame
<1>6. x11' = z
  BY <1>1
<1>7. DrawableGoes(config[t], d, z, x11, sxfe)
  BY <1>3, <1>4 DEF DrawableGoes, WindowInv, NamesCurrent
<1>8. NamesCurrent(d, sxfe) /\ ~Sizing(config[t]) /\ config[t].at \in Plain /\ d.at \in Plain
  BY DEF NamesCurrent, Sizing, Plain
<1> PICK after : after = LoopAfter(t, d)
  OBVIOUS
<1>9. /\ HandledIsHead(after, x11.events, sxfe.fullscreen) /\ config[t].at # "above"
      /\ Unseen(x11.events, after) = Unseen(x11.events, Loop)
  BY <1>8, PlainLook
<1>10. SameView(sxfe', sxfe) /\ WidthGoes(config[t], d, sxfe'.width, Loop, after, x11, sxfe)
  BY <1>1, <1>8, <1>9 DEF WidthGoes, SameView
<1>11. PlaceGoes(sxfe'.xpos, z, sxfe)
  BY <1>2, <1>3, <1>4, <1>5 DEF PlaceGoes, WindowInv, SameFrame
<1> QED
  BY <1>2, <1>5, <1>6, <1>7, <1>8, <1>9, <1>10, <1>11, LocalStep

LEMMA TellsKeep ==
  ASSUME WindowInv, NEW t \in Threads, ConfigTell(t) \/ ConfigSend(t)
  PROVE  WindowInv'
<1>1. config[t].at \in {"tell", "send"} /\ SendDrawable(t) /\ sxfe' = sxfe
      /\ config \in [Threads -> ConfigStates] /\ "switch" \in Spots
  BY DEF ConfigTell, ConfigSend, At, WindowInv, WindowTypes, Spots
<1>2. Go(t, "switch") \/ Finish(t)
  BY DEF ConfigTell, ConfigSend
<1>3. \E d \in ConfigStates : config' = [config EXCEPT ![t] = d] /\ d.at \in {"switch", "done"}
  BY <1>1, <1>2, GoFacts, FinishFacts
<1> QED
  BY <1>1, <1>3, SendKeeps

(* XConfigureEvent_handler() has taken an event to handle.                 *)
LEMMA EntryStep ==
  ASSUME WindowInv, sxfe.open, x11' = x11, sxfe' \in WindowStates, SameView(sxfe', sxfe), sxfe'.xpos = sxfe.xpos,
         config["sxfe_run"].at \in {"out", "screen", "ours", "width"}, NEW place \in Unsized \cup Sized, Go("sxfe_run", place),
         HandledIsHead(place, x11.events, sxfe.fullscreen),
         ~sxfe.fullscreen /\ Quiet(Unseen(x11.events, place)) =>
           sxfe'.width = x11.width \/ (Quiet(x11.events) /\ sxfe'.width = sxfe.width)
  PROVE  WindowInv'
<1> PICK t \in Threads : t = "sxfe_run"
  BY DEF Threads
<1>1. place \in Spots /\ config \in [Threads -> ConfigStates] /\ x11 \in Displays
  BY DEF Spots, WindowInv, WindowTypes
<1> PICK d \in ConfigStates : config' = [config EXCEPT ![t] = d] /\ d.at = place
  BY <1>1, GoFacts
<1>2. NamesCurrent(d, sxfe) /\ ~Sizing(config[t]) /\ config[t].at \notin {"pick", "send", "above"}
  BY DEF NamesCurrent, Sizing, Unsized, Sized
<1>3. LoopAfter(t, d) = place
  BY DEF LoopAfter
<1>4. SameFrame(x11', x11) /\ DrawableGoes(config[t], d, x11', x11, sxfe)
  BY <1>1, <1>2 DEF SameFrame, DrawableGoes
<1>5. PlaceGoes(sxfe'.xpos, x11', sxfe)
  BY DEF PlaceGoes, WindowInv
<1>6. Unseen(x11.events, Loop) = x11.events
  BY DEF Unseen, Loop, Sized
<1>7. WidthGoes(config[t], d, sxfe'.width, Loop, LoopAfter(t, d), x11, sxfe)
  BY <1>2, <1>3, <1>6 DEF WidthGoes
<1>8. HandledIsHead(LoopAfter(t, d), x11.events, sxfe.fullscreen)
  BY <1>3
<1> QED
  BY ONLY WindowInv, t \in Threads, d \in ConfigStates, config' = [config EXCEPT ![t] = d], sxfe.open,
          SameView(sxfe', sxfe), <1>2, <1>4, <1>5, <1>7, <1>8, LocalStep

(* The size that is taken over from an event about window 0.               *)
LEMMA HeadFacts ==
  ASSUME WindowInv, x11.events # <<>>
  PROVE  /\ Event \in Events /\ Tail(x11.events) \in Seq(Events)
         /\ LastSays(Tail(x11.events), x11.width, x11.xpos[0])
         /\ Quiet(Tail(x11.events)) /\ Event.window # 0 => Quiet(x11.events)
         /\ Quiet(x11.events) => Event.window # 0
         /\ Quiet(Tail(x11.events)) /\ Event.window = 0 =>
              Event.width = x11.width /\ Event.xpos = x11.xpos[0]
<1> PICK s \in Seq(Events) : s = x11.events
  BY DEF WindowInv, WindowTypes, Displays
<1>1. LastSays(s, x11.width, x11.xpos[0])
  BY DEF WindowInv, SaysZero
<1> PICK r : r = Tail(s)
  OBVIOUS
<1>2. /\ r \in Seq(Events) /\ Head(s) \in Events
      /\ \A w, p : LastSays(s, w, p) => LastSays(r, w, p)
      /\ Quiet(r) /\ Head(s).window # 0 => Quiet(s)
      /\ Quiet(s) => Head(s).window # 0
      /\ \A w, p : LastSays(s, w, p) /\ Quiet(r) /\ Head(s).window = 0
                     => Head(s).width = w /\ Head(s).xpos = p
  BY TailSays
<1> QED
  BY <1>1, <1>2 DEF Event

LEMMA WidthKeeps ==
  ASSUME WindowInv, EventWidth
  PROVE  WindowInv'
<1>1. config["sxfe_run"].at = "width" /\ Loop = "width" /\ sxfe \in WindowStates /\ x11' = x11
      /\ Go("sxfe_run", "moved") /\ sxfe' = [sxfe EXCEPT !.width = Event.width] /\ "sxfe_run" \in Threads
  BY DEF EventWidth, At, Loop, WindowInv, WindowTypes, Threads
<1>2. sxfe.open
  BY <1>1, InsideIsOpen
<1>3. HandledIsHead("width", x11.events, sxfe.fullscreen)
  BY <1>1 DEF WindowInv
<1>4. x11.events # <<>> /\ Head(x11.events).window # 2 /\ (Quiet(x11.events) => sxfe.fullscreen)
  BY <1>3 DEF HandledIsHead, Unsized
<1>5. Event \in Events
  BY <1>4, HeadFacts
<1> PICK w \in Nat : w = Event.width
  BY <1>5 DEF Events
<1>6. sxfe' \in WindowStates /\ SameView(sxfe', sxfe) /\ sxfe'.width = w /\ sxfe'.xpos = sxfe.xpos
  <2>1. sxfe' = [sxfe EXCEPT !.width = w]
    BY <1>1
  <2> QED
    BY ONLY <1>1, <2>1, w \in Nat DEF WindowStates, SameView
<1>7. HandledIsHead("moved", x11.events, sxfe.fullscreen)
  BY <1>4 DEF HandledIsHead
<1>8. ~sxfe.fullscreen /\ Quiet(Unseen(x11.events, "moved")) => w = x11.width
  BY <1>4, HeadFacts DEF Unseen, Sized
<1>9. "moved" \in Unsized \cup Sized
  BY DEF Sized
<1> QED
  BY <1>1, <1>2, <1>6, <1>7, <1>8, <1>9, EntryStep

LEMMA EntryKeeps ==
  ASSUME WindowInv, XConfigureEvent, x11' = x11
  PROVE  WindowInv'
<1>1. /\ sxfe.open /\ config["sxfe_run"].at = "out" /\ x11.events # <<>> /\ sxfe' = sxfe
      /\ sxfe \in WindowStates /\ SameView(sxfe', sxfe)
  BY DEF XConfigureEvent, Running, At, WindowInv, WindowTypes, SameView
<1>2. Event \in Events /\ Event = Head(x11.events)
  BY <1>1, HeadFacts DEF Event
<1>3. ASSUME Event.window = 2, Go("sxfe_run", "screen") PROVE WindowInv'
  <2>1. HandledIsHead("screen", x11.events, sxfe.fullscreen) /\ "screen" \in Unsized \cup Sized
    BY <1>1, <1>2, <1>3 DEF HandledIsHead, Unsized
  <2>2. Unseen(x11.events, "screen") = x11.events
    BY DEF Unseen, Sized
  <2> QED
    BY <1>1, <1>3, <2>1, <2>2, EntryStep
<1>4. ASSUME Event.window # 2, Go("sxfe_run", "ours") PROVE WindowInv'
  <2>1. HandledIsHead("ours", x11.events, sxfe.fullscreen) /\ "ours" \in Unsized \cup Sized
    BY <1>1, <1>2, <1>4 DEF HandledIsHead, Unsized
  <2>2. Unseen(x11.events, "ours") = x11.events
    BY DEF Unseen, Sized
  <2> QED
    BY <1>1, <1>4, <2>1, <2>2, EntryStep
<1>5. ASSUME Event.window # 2, Event.width = sxfe.width, Go("sxfe_run", "moved")
      PROVE  WindowInv'
  <2>1. HandledIsHead("moved", x11.events, sxfe.fullscreen) /\ "moved" \in Unsized \cup Sized
    BY <1>1, <1>2, <1>5 DEF HandledIsHead, Sized
  <2>2. Unseen(x11.events, "moved") = Tail(x11.events)
    BY DEF Unseen, Sized
  <2>3. ~sxfe.fullscreen /\ Quiet(Tail(x11.events)) =>
          sxfe'.width = x11.width \/ (Quiet(x11.events) /\ sxfe'.width = sxfe.width)
    <3>1. CASE Event.window = 0
      BY <1>1, <1>5, <3>1, HeadFacts
    <3>2. CASE Event.window # 0
      BY <1>1, <3>2, HeadFacts
    <3> QED
      BY <3>1, <3>2
  <2> QED
    BY <1>1, <1>5, <2>1, <2>2, <2>3, EntryStep
<1>6. ASSUME x11' = Handled(x11) PROVE FALSE
  <2>1. x11 \in Displays /\ x11'.events = Tail(x11.events)
    BY <1>6 DEF WindowInv, WindowTypes, Handled, Displays
  <2>2. x11.events \in Seq(Events)
    BY <2>1 DEF Displays
  <2>3. Len(Tail(x11.events)) # Len(x11.events)
    BY <1>1, <2>2
  <2> QED
    BY <2>1, <2>3
<1>7. \/ Event.window = 2 /\ Go("sxfe_run", "screen")
      \/ x11' = Handled(x11)
      \/ Event.window # 2 /\ Go("sxfe_run", "ours")
      \/ Event.window # 2 /\ Event.width = sxfe.width /\ Go("sxfe_run", "moved")
  BY DEF XConfigureEvent
<1> QED
  BY <1>3, <1>4, <1>5, <1>6, <1>7

LEMMA OursKeeps ==
  ASSUME WindowInv, EventOurs
  PROVE  WindowInv'
<1>1. /\ config["sxfe_run"].at = "ours" /\ Loop = "ours" /\ sxfe' = sxfe /\ x11' = x11
      /\ sxfe \in WindowStates /\ SameView(sxfe', sxfe) /\ "sxfe_run" \in Threads
  BY DEF EventOurs, At, Loop, WindowInv, WindowTypes, SameView, Threads
<1>2. sxfe.open
  BY <1>1, InsideIsOpen
<1>3. HandledIsHead("ours", x11.events, sxfe.fullscreen)
  BY <1>1 DEF WindowInv
<1>4. x11.events # <<>> /\ Head(x11.events).window # 2
  BY <1>3 DEF HandledIsHead, Unsized
<1>5. Event \in Events /\ Event = Head(x11.events)
  BY <1>4, HeadFacts DEF Event
<1>6. ASSUME Event.window = Current(sxfe), Go("sxfe_run", "width") PROVE WindowInv'
  <2>1. Quiet(x11.events) => sxfe.fullscreen
    BY <1>4, <1>6, HeadFacts DEF Current
  <2>2. HandledIsHead("width", x11.events, sxfe.fullscreen) /\ "width" \in Unsized \cup Sized
    BY <1>4, <2>1 DEF HandledIsHead, Unsized
  <2>3. Unseen(x11.events, "width") = x11.events
    BY DEF Unseen, Sized
  <2> QED
    BY <1>1, <1>2, <1>6, <2>2, <2>3, EntryStep
<1>7. ASSUME Event.window # Current(sxfe), Go("sxfe_run", "moved") PROVE WindowInv'
  <2>1. HandledIsHead("moved", x11.events, sxfe.fullscreen) /\ "moved" \in Unsized \cup Sized
    BY <1>4 DEF HandledIsHead, Sized
  <2>2. Unseen(x11.events, "moved") = Tail(x11.events)
    BY DEF Unseen, Sized
  <2>3. ~sxfe.fullscreen /\ Quiet(Tail(x11.events)) => Quiet(x11.events) /\ sxfe'.width = sxfe.width
    BY <1>1, <1>4, <1>7, HeadFacts DEF Current
  <2> QED
    BY <1>1, <1>2, <1>7, <2>1, <2>2, <2>3, EntryStep
<1> QED
  BY <1>6, <1>7 DEF EventOurs

(* An event has been handled.                                              *)
SameDisplay(y, x) ==
  y.mapped = x.mapped /\ y.drawable = x.drawable /\ y.above = x.above /\ y.width = x.width
  /\ y.xpos = x.xpos /\ ("drawable" \in y.late <=> "drawable" \in x.late)

LEMMA HandledStep ==
  ASSUME WindowInv, sxfe.open, Loop \in {"out", "screen", "root", "place", "put"},
         NEW y, SameWindows(y, x11), SaysZero(y), y.width = x11.width, y.xpos[0] = x11.xpos[0], y.events # <<>>,
         Quiet(Tail(y.events)) => Quiet(Unseen(x11.events, Loop)),
         x11' \in Displays, SameDisplay(x11', y), x11'.events = Tail(y.events),
         NEW d \in ConfigStates, config' = [config EXCEPT !["sxfe_run"] = d], d.at = "out",
         SameView(sxfe', sxfe), sxfe'.width = sxfe.width,
         PlaceGoes(sxfe'.xpos, x11', sxfe)
  PROVE  WindowInv'
<1>0. config \in [Threads -> ConfigStates] /\ "sxfe_run" \in Threads /\ sxfe \in WindowStates
      /\ config["sxfe_run"].at = Loop
  BY DEF WindowInv, WindowTypes, Threads, Loop
<1>1. config["sxfe_run"].at \notin {"pick", "send", "above"} /\ ~Sizing(config["sxfe_run"])
  BY <1>0 DEF Sizing
<1>2. /\ config' \in [Threads -> ConfigStates] /\ config'["sxfe_run"] = d
      /\ \A u \in Threads \ {"sxfe_run"} : config'[u] = config[u]
      /\ Loop' = "out"
  BY <1>0, ThreadGoes
<1>3. Naming => Naming'
  BY <1>0, <1>1, ThreadGoes
<1>4. (\E u \in Threads : Sizing(config[u])) => \E u \in Threads : Sizing(config'[u])
  BY <1>0, <1>1, ThreadGoes
<1>5. \A u \in Threads : NamesCurrent(config'[u], sxfe')
  BY <1>2 DEF WindowInv, NamesCurrent, Current, SameView
<1>6. WindowTypes'
  BY <1>2 DEF WindowTypes, SameView
<1>7. y \in Displays /\ y.events \in Seq(Events)
  BY DEF SameWindows, Displays
<1>8. SaysZero(x11)'
  <2> PICK s \in Seq(Events) : s = y.events
    BY <1>7
  <2> PICK r : r = Tail(s)
    OBVIOUS
  <2>1. \A w, p : LastSays(s, w, p) => LastSays(r, w, p)
    BY TailSays
  <2>2. LastSays(s, y.width, y.xpos[0])
    BY DEF SaysZero
  <2>3. LastSays(r, y.width, y.xpos[0])
    BY <2>1, <2>2
  <2>4. x11'.width = y.width /\ x11'.xpos[0] = y.xpos[0] /\ x11'.events = r
    BY DEF SameDisplay
  <2> QED
    BY <2>3, <2>4 DEF SaysZero
<1>9. Current(sxfe)' = Current(sxfe)
  BY DEF Current, SameView
<1>10. sxfe'.open /\ x11'.mapped = {Current(sxfe)'}
  BY <1>9 DEF WindowInv, SameView, SameDisplay, SameWindows
<1>11. x11'.drawable = Current(sxfe)' \/ "drawable" \in x11'.late \/ Naming'
  BY <1>3, <1>9 DEF WindowInv, SameDisplay, SameWindows
<1>12. ~sxfe'.fullscreen /\ Loop' # "above" => x11'.above = sxfe'.stay_above
  <2>1. Loop # "above"
    OBVIOUS
  <2> QED
    BY <2>1 DEF WindowInv, SameView, SameDisplay, SameWindows
<1>13. HandledIsHead(Loop', x11'.events, sxfe'.fullscreen)
  <2>1. "out" \notin Unsized \cup Sized
    BY DEF Unsized, Sized
  <2> QED
    BY <1>2, <2>1 DEF HandledIsHead
<1>14. ~sxfe'.fullscreen /\ Quiet(x11'.events) => "place" \in x11'.late \/ sxfe'.xpos = x11'.xpos[0]
  BY DEF PlaceGoes, SameView
<1>15. ~sxfe'.fullscreen /\ Quiet(Unseen(x11'.events, Loop')) =>
         (\E u \in Threads : Sizing(config'[u])) \/ sxfe'.width = x11'.width
  <2>1. Unseen(x11'.events, Loop') = Tail(y.events)
    BY <1>2 DEF Unseen, Sized
  <2>2. ~sxfe.fullscreen /\ Quiet(Unseen(x11.events, Loop)) =>
          (\E u \in Threads : Sizing(config[u])) \/ sxfe.width = x11.width
    BY DEF WindowInv
  <2> QED
    BY <1>4, <2>1, <2>2 DEF SameView, SameDisplay
<1> QED
  BY <1>5, <1>6, <1>8, <1>10, <1>11, <1>12, <1>13, <1>14, <1>15 DEF WindowInv

LEMMA HandledFacts ==
  ASSUME NEW y \in Displays, y.events # <<>>, NEW z, z = Handled(y)
  PROVE  z \in Displays /\ SameDisplay(z, y) /\ z.events = Tail(y.events) /\ z.late = y.late
<1> PICK r : r = Tail(y.events)
  OBVIOUS
<1>1. r \in Seq(Events)
  BY DEF Displays
<1>2. z = [y EXCEPT !.events = r]
  BY DEF Handled
<1>3. z \in Displays /\ z.mapped = y.mapped /\ z.above = y.above /\ z.width = y.width /\ z.xpos = y.xpos
      /\ z.events = r /\ z.drawable = y.drawable /\ z.late = y.late
  BY ONLY y \in Displays, <1>1, <1>2 DEF Displays
<1> QED
  BY <1>3 DEF SameDisplay

LEMMA DroppedKeeps ==
  ASSUME WindowInv, sxfe.open, Loop \in {"out", "screen"}, x11.events # <<>>, Event.window = 2,
         sxfe' = sxfe, x11' = Handled(x11),
         NEW d \in ConfigStates, config' = [config EXCEPT !["sxfe_run"] = d], d.at = "out"
  PROVE  WindowInv'
<1>1. sxfe \in WindowStates /\ x11 \in Displays
  BY DEF WindowInv, WindowTypes
<1>2. x11' \in Displays /\ SameDisplay(x11', x11) /\ x11'.events = Tail(x11.events) /\ x11'.late = x11.late
  BY <1>1, HandledFacts
<1>3. Quiet(Tail(x11.events)) => Quiet(x11.events)
  BY HeadFacts
<1>4. Unseen(x11.events, Loop) = x11.events
  BY DEF Unseen, Sized
<1>5. PlaceGoes(sxfe'.xpos, x11', sxfe)
  BY <1>2, <1>3 DEF PlaceGoes, WindowInv, SameDisplay
<1> PICK y : y = x11
  OBVIOUS
<1>6. SameWindows(y, x11) /\ SaysZero(y) /\ SameView(sxfe', sxfe)
  BY <1>1 DEF SameWindows, SameView, WindowInv
<1> QED
  BY <1>2, <1>3, <1>4, <1>5, <1>6, HandledStep

LEMMA HandledRootKeeps ==
  ASSUME WindowInv, XConfigureEvent, config' = config, x11' = Handled(x11), Event.window = 2
  PROVE  WindowInv'
<1>1. /\ sxfe.open /\ config["sxfe_run"].at = "out" /\ x11.events # <<>> /\ sxfe' = sxfe /\ Loop = "out"
      /\ config \in [Threads -> ConfigStates] /\ "sxfe_run" \in Threads
  BY DEF XConfigureEvent, Running, At, WindowInv, WindowTypes, Threads, Loop
<1> PICK d \in ConfigStates : d = config["sxfe_run"]
  BY <1>1
<1>2. config' = [config EXCEPT !["sxfe_run"] = d] /\ d.at = "out"
  BY <1>1
<1> QED
  BY <1>1, <1>2, DroppedKeeps

LEMMA ScreenKeeps ==
  ASSUME WindowInv, EventScreen
  PROVE  WindowInv'
<1>1. /\ config["sxfe_run"].at = "screen" /\ Loop = "screen" /\ sxfe' = sxfe /\ "sxfe_run" \in Threads
      /\ sxfe \in WindowStates /\ SameView(sxfe', sxfe)
      /\ config \in [Threads -> ConfigStates] /\ "out" \in Spots
  BY DEF EventScreen, At, Loop, WindowInv, WindowTypes, Threads, Spots, SameView
<1>2. sxfe.open
  BY <1>1, InsideIsOpen
<1>3. x11.events # <<>> /\ Head(x11.events).window = 2
  BY <1>1 DEF WindowInv, HandledIsHead, Unsized
<1>4. ASSUME Go("sxfe_run", "root"), x11' = x11 PROVE WindowInv'
  <2>1. HandledIsHead("root", x11.events, sxfe.fullscreen) /\ "root" \in Unsized \cup Sized
    BY <1>3 DEF HandledIsHead, Unsized
  <2>2. Unseen(x11.events, "root") = x11.events
    BY DEF Unseen, Sized
  <2>3. ~sxfe.fullscreen /\ Quiet(x11.events) => Quiet(x11.events) /\ sxfe'.width = sxfe.width
    BY <1>1
  <2> QED
    BY <1>1, <1>2, <1>4, <2>1, <2>2, <2>3, EntryStep
<1>5. ASSUME Go("sxfe_run", "out"), x11' = Handled(x11) PROVE WindowInv'
  <2> PICK d \in ConfigStates : config' = [config EXCEPT !["sxfe_run"] = d] /\ d.at = "out"
    BY <1>1, <1>5, GoFacts
  <2>1. Event.window = 2
    BY <1>3 DEF Event
  <2> QED
    BY <1>1, <1>2, <1>3, <1>5, <2>1, DroppedKeeps
<1> QED
  BY <1>4, <1>5 DEF EventScreen

LEMMA RootKeeps ==
  ASSUME WindowInv, RootEvent
  PROVE  WindowInv'
<1>1. /\ config["sxfe_run"].at = "root" /\ Loop = "root" /\ sxfe' = sxfe /\ Go("sxfe_run", "out")
      /\ sxfe \in WindowStates /\ x11 \in Displays /\ "sxfe_run" \in Threads
      /\ x11' = Handled(Configure(x11, 1, Event.width, 0))
      /\ config \in [Threads -> ConfigStates] /\ "out" \in Spots
  BY DEF RootEvent, At, WindowInv, WindowTypes, Threads, Loop, Spots
<1>2. sxfe.open
  BY <1>1, InsideIsOpen
<1>3. x11.events # <<>> /\ Head(x11.events).window = 2
  BY <1>1 DEF WindowInv, HandledIsHead, Unsized
<1>4. Event \in Events /\ Event.window # 0 /\ (Quiet(Tail(x11.events)) => Quiet(x11.events))
  BY <1>3, HeadFacts DEF Event
<1> PICK d \in ConfigStates : config' = [config EXCEPT !["sxfe_run"] = d] /\ d.at = "out"
  BY <1>1, GoFacts
<1> PICK w \in Nat : w = Event.width
  BY <1>4 DEF Events
<1> PICK zero \in Nat : zero = 0
  OBVIOUS
<1> PICK y : y = Configure(x11, 1, w, zero)
  OBVIOUS
<1>5. /\ SameWindows(y, x11) /\ (SaysZero(x11) => SaysZero(y)) /\ Behind(y.events, x11.events)
      /\ y.width = x11.width /\ y.xpos[0] = x11.xpos[0]
  BY <1>1, ConfigureOne
<1>6. SaysZero(y) /\ y \in Displays /\ y.events # <<>> /\ (Quiet(Tail(y.events)) => Quiet(x11.events))
  BY <1>3, <1>4, <1>5 DEF WindowInv, Behind, SameWindows
<1>7. x11' = Handled(y)
  BY <1>1
<1>8. x11' \in Displays /\ SameDisplay(x11', y) /\ x11'.events = Tail(y.events) /\ x11'.late = y.late
  BY <1>6, <1>7, HandledFacts
<1>9. Unseen(x11.events, Loop) = x11.events
  BY <1>1 DEF Unseen, Sized
<1>10. PlaceGoes(sxfe'.xpos, x11', sxfe)
  BY <1>1, <1>2, <1>5, <1>6, <1>8 DEF PlaceGoes, WindowInv, SameDisplay, SameWindows
<1>11. SameView(sxfe', sxfe) /\ sxfe'.width = sxfe.width /\ Loop \in {"out", "screen", "root", "place", "put"}
  BY <1>1 DEF SameView
<1> QED
  BY <1>2, <1>5, <1>6, <1>8, <1>9, <1>10, <1>11, HandledStep

LEMMA PlaceKeeps ==
  ASSUME WindowInv, EventPlace
  PROVE  WindowInv'
<1>1. /\ config["sxfe_run"].at = "place" /\ Loop = "place" /\ sxfe' = sxfe
      /\ sxfe \in WindowStates /\ x11 \in Displays /\ "sxfe_run" \in Threads
      /\ config \in [Threads -> ConfigStates] /\ "out" \in Spots /\ Loop \in Sized /\ "put" \in Sized
      /\ SameView(sxfe', sxfe)
  BY DEF EventPlace, At, WindowInv, WindowTypes, Threads, Loop, Spots, Sized, SameView
<1>2. sxfe.open
  BY <1>1, InsideIsOpen
<1>3. ASSUME Go("sxfe_run", "put"), x11' = x11 PROVE WindowInv'
  BY <1>1, <1>3, SizedStep
<1>4. ASSUME sxfe.fullscreen, Go("sxfe_run", "out"), x11' = Handled(x11) PROVE WindowInv'
  <2> PICK d \in ConfigStates : config' = [config EXCEPT !["sxfe_run"] = d] /\ d.at = "out"
    BY <1>1, <1>4, GoFacts
  <2>1. x11.events # <<>>
    BY <1>1 DEF WindowInv, HandledIsHead
  <2> PICK y : y = x11
    OBVIOUS
  <2>2. x11' \in Displays /\ SameDisplay(x11', y) /\ x11'.events = Tail(y.events)
    BY <1>1, <1>4, <2>1, HandledFacts
  <2>3. SameWindows(y, x11) /\ SaysZero(y) /\ PlaceGoes(sxfe'.xpos, x11', sxfe)
    BY <1>1, <1>4 DEF SameWindows, WindowInv, PlaceGoes
  <2>4. Unseen(x11.events, Loop) = Tail(y.events)
    BY <1>1 DEF Unseen
  <2>5. Loop \in {"out", "screen", "root", "place", "put"} /\ y.width = x11.width /\ y.xpos[0] = x11.xpos[0] /\ y.events # <<>>
        /\ (Quiet(Tail(y.events)) => Quiet(Unseen(x11.events, Loop))) /\ sxfe'.width = sxfe.width
    BY <1>1, <2>1, <2>4
  <2> QED
    BY ONLY WindowInv, d \in ConfigStates, config' = [config EXCEPT !["sxfe_run"] = d], d.at = "out", <1>1,
            <1>2, <2>2, <2>3, <2>5, HandledStep
<1> QED
  BY <1>3, <1>4 DEF EventPlace

LEMMA PutKeeps ==
  ASSUME WindowInv, EventPut
  PROVE  WindowInv'
<1>1. /\ config["sxfe_run"].at = "put" /\ Loop = "put" /\ Go("sxfe_run", "out")
      /\ sxfe \in WindowStates /\ x11 \in Displays /\ "sxfe_run" \in Threads
      /\ config \in [Threads -> ConfigStates] /\ "out" \in Spots /\ Loop \in Sized
  BY DEF EventPut, At, WindowInv, WindowTypes, Threads, Loop, Spots, Sized
<1>2. sxfe.open
  BY <1>1, InsideIsOpen
<1>3. x11.events # <<>> /\ Head(x11.events).window # 2
  BY <1>1 DEF WindowInv, HandledIsHead
<1>4. /\ Event \in Events /\ Event.window \in 0 .. 1
      /\ Quiet(Tail(x11.events)) /\ Event.window = 0 => Event.xpos = x11.xpos[0]
  BY <1>3, HeadFacts DEF Events, Event
<1> PICK d \in ConfigStates : config' = [config EXCEPT !["sxfe_run"] = d] /\ d.at = "out"
  BY <1>1, GoFacts
<1>5. Event.xpos \in Nat /\ x11.xpos[Event.window] \in Nat
  BY <1>1, <1>4 DEF Events, Displays
<1> PICK p \in Nat : p = IF Event.xpos = 0 THEN x11.xpos[Event.window] ELSE Event.xpos
  BY <1>5
<1>6. sxfe' = [sxfe EXCEPT !.xpos = p]
  BY DEF EventPut
<1>7. SameView(sxfe', sxfe) /\ sxfe'.width = sxfe.width /\ sxfe'.xpos = p
  BY ONLY <1>1, <1>6, p \in Nat DEF WindowStates, SameView
<1> PICK y : y = x11
  OBVIOUS
<1> PICK z : z = Handled(y)
  OBVIOUS
<1>8. z \in Displays /\ SameDisplay(z, y) /\ z.events = Tail(y.events)
  BY <1>1, <1>3, HandledFacts
<1> PICK late : late = IF Event.window = 0 THEN z.late \ {"place"} ELSE z.late \cup {"place"}
  OBVIOUS
<1>9. late \in SUBSET {"drawable", "place"} /\ ("drawable" \in late <=> "drawable" \in z.late)
      /\ (Event.window # 0 => "place" \in late)
  BY <1>8 DEF Displays
<1>10. x11' = [z EXCEPT !.late = late]
  BY DEF EventPut
<1>11. x11' \in Displays /\ x11'.mapped = z.mapped /\ x11'.above = z.above /\ x11'.width = z.width
       /\ x11'.xpos = z.xpos /\ x11'.events = z.events /\ x11'.drawable = z.drawable /\ x11'.late = late
  BY ONLY <1>8, <1>9, <1>10 DEF Displays
<1>12. SameDisplay(x11', y) /\ x11'.events = Tail(y.events) /\ x11'.xpos = y.xpos
  BY <1>8, <1>9, <1>11 DEF SameDisplay
<1>13. PlaceGoes(sxfe'.xpos, x11', sxfe)
  <2>1. CASE Event.window = 0
    <3>1. Quiet(Tail(y.events)) => p = x11.xpos[0]
      BY <1>4, <2>1
    <3> QED
      BY <1>7, <1>12, <3>1 DEF PlaceGoes
  <2>2. CASE Event.window # 0
    BY <1>9, <1>11, <2>2 DEF PlaceGoes
  <2> QED
    BY <2>1, <2>2
<1>14. SameWindows(y, x11) /\ SaysZero(y)
  BY <1>1 DEF SameWindows, WindowInv
<1>15. Unseen(x11.events, Loop) = Tail(y.events)
  BY <1>1 DEF Unseen
<1>16. Loop \in {"out", "screen", "root", "place", "put"} /\ y.width = x11.width /\ y.xpos[0] = x11.xpos[0] /\ y.events # <<>>
       /\ (Quiet(Tail(y.events)) => Quiet(Unseen(x11.events, Loop)))
  BY <1>1, <1>3, <1>15
<1>17. x11' \in Displays
  BY <1>11
<1> QED
  BY ONLY WindowInv, d \in ConfigStates, config' = [config EXCEPT !["sxfe_run"] = d], d.at = "out",
          <1>2, <1>7, <1>12, <1>13, <1>14, <1>16, <1>17, HandledStep

(* Window 0 is configured: an event about it is on its way.                *)
LEMMA ZeroStep ==
  ASSUME WindowInv, sxfe.open, NEW t \in Threads, NEW d \in ConfigStates, config' = [config EXCEPT ![t] = d],
         NamesCurrent(d, sxfe), config[t].at \in {"pick", "send"} => d.at \in {"pick", "send"},
         t = "sxfe_run" => config[t].at # "above",
         HandledIsHead(LoopAfter(t, d), x11.events, sxfe.fullscreen),
         NEW y, SameWindows(y, x11), SaysZero(y), ZeroBehind(y.events, x11.events),
         x11' \in Displays, SameDisplay(x11', y), x11'.events = y.events,
         SameView(sxfe', sxfe)
  PROVE  WindowInv'
<1>0. config \in [Threads -> ConfigStates]
  BY DEF WindowInv, WindowTypes
<1>1. /\ config' \in [Threads -> ConfigStates] /\ config'[t] = d
      /\ \A u \in Threads \ {t} : config'[u] = config[u]
      /\ Loop' = LoopAfter(t, d)
  BY <1>0, ThreadGoes DEF LoopAfter
<1>2. Naming => Naming'
  BY <1>0, ThreadGoes
<1>3. Current(sxfe)' = Current(sxfe)
  BY DEF SameView, Current
<1>4. \A u \in Threads : NamesCurrent(config'[u], sxfe')
  <2> TAKE u \in Threads
  <2>1. NamesCurrent(config[u], sxfe)
    BY DEF WindowInv
  <2>2. config'[u] = config[u] \/ config'[u] = d
    BY <1>1
  <2> QED
    BY <1>3, <2>1, <2>2 DEF NamesCurrent, SameView
<1>5. WindowTypes'
  BY <1>1 DEF WindowTypes, SameView
<1>6. x11'.drawable = Current(sxfe)' \/ "drawable" \in x11'.late \/ Naming'
  BY <1>2, <1>3 DEF WindowInv, SameDisplay, SameWindows
<1>7. sxfe'.open /\ x11'.mapped = {Current(sxfe)'} /\ SaysZero(x11)'
  BY <1>3 DEF WindowInv, SameView, SameDisplay, SameWindows, SaysZero
<1>8. ~sxfe'.fullscreen /\ Loop' # "above" => x11'.above = sxfe'.stay_above
  <2>1. Loop' # "above" => Loop # "above"
    BY <1>1 DEF LoopAfter, Loop
  <2> QED
    BY <2>1 DEF WindowInv, SameView, SameDisplay, SameWindows
<1>9. ~Quiet(x11'.events) /\ x11'.events # <<>>
      /\ (x11.events # <<>> => Head(x11'.events) = Head(x11.events) /\ ~Quiet(Tail(x11'.events)))
  BY DEF ZeroBehind, Behind
<1>10. HandledIsHead(Loop', x11'.events, sxfe'.fullscreen)
  <2>1. HandledIsHead(Loop', x11.events, sxfe.fullscreen)
    BY <1>1
  <2> QED
    BY <1>9, <2>1 DEF HandledIsHead
<1>11. ~Quiet(Unseen(x11'.events, Loop'))
  <2>1. Loop' \in Sized => x11.events # <<>>
    BY <1>1 DEF HandledIsHead
  <2> QED
    BY <1>9, <2>1 DEF Unseen
<1> QED
  BY <1>4, <1>5, <1>6, <1>7, <1>8, <1>9, <1>10, <1>11 DEF WindowInv

(* Window 0 is configured, and nothing of sxfe_t but the place changes.    *)
LEMMA ZeroKeeps ==
  ASSUME WindowInv, sxfe.open, NEW t \in Threads, NEW place \in Spots,
         config[t].at \notin {"pick", "send", "above"}, place \notin {"tell", "send", "restore"},
         Go(t, place), HandledIsHead(IF t = "sxfe_run" THEN place ELSE Loop, x11.events, sxfe.fullscreen),
         NEW w \in Nat, NEW p \in Nat, NEW y, y = Configure(x11, 0, w, p),
         x11' \in Displays, SameDisplay(x11', y), x11'.events = y.events, SameView(sxfe', sxfe)
  PROVE  WindowInv'
<1>1. config \in [Threads -> ConfigStates] /\ x11 \in Displays
  BY DEF WindowInv, WindowTypes
<1> PICK d \in ConfigStates : config' = [config EXCEPT ![t] = d] /\ d.at = place
  BY <1>1, GoFacts
<1>2. SameWindows(y, x11) /\ SaysZero(y) /\ ZeroBehind(y.events, x11.events)
  BY <1>1, ConfigureZero
<1>3. NamesCurrent(d, sxfe)
  BY DEF NamesCurrent
<1>4. HandledIsHead(LoopAfter(t, d), x11.events, sxfe.fullscreen)
  BY DEF LoopAfter
<1> QED
  BY <1>2, <1>3, <1>4, ZeroStep

LEMMA SameFacts ==
  ASSUME NEW x \in Displays
  PROVE  SameDisplay(x, x) /\ \A late \in SUBSET {"drawable", "place"} :
           ("drawable" \in late <=> "drawable" \in x.late) =>
             LET z == [x EXCEPT !.late = late] IN z \in Displays /\ SameDisplay(z, x) /\ z.events = x.events
<1>1. SameDisplay(x, x)
  BY DEF SameDisplay
<1>2. ASSUME NEW late \in SUBSET {"drawable", "place"}, "drawable" \in late <=> "drawable" \in x.late,
             NEW z, z = [x EXCEPT !.late = late]
      PROVE  z \in Displays /\ SameDisplay(z, x) /\ z.events = x.events
  <2>1. z \in Displays /\ z.mapped = x.mapped /\ z.above = x.above /\ z.width = x.width /\ z.xpos = x.xpos
        /\ z.events = x.events /\ z.drawable = x.drawable /\ z.late = late
    BY ONLY x \in Displays, late \in SUBSET {"drawable", "place"}, z = [x EXCEPT !.late = late] DEF Displays
  <2> QED
    BY <1>2, <2>1 DEF SameDisplay
<1> QED
  BY <1>1, <1>2

LEMMA UserMovesKeeps ==
  ASSUME WindowInv, NEW w \in Widths, NEW p \in Places, UserMoves(w, p)
  PROVE  WindowInv'
<1>1. w \in Nat /\ p \in Nat
  BY WindowAssumption
<1>2. /\ sxfe.open /\ sxfe' = sxfe /\ config' = config /\ x11' = Configure(x11, 0, w, p)
      /\ x11 \in Displays /\ sxfe \in WindowStates /\ config \in [Threads -> ConfigStates]
  BY DEF UserMoves, WindowInv, WindowTypes
<1> PICK t \in Threads : t = "other"
  BY DEF Threads
<1> PICK d \in ConfigStates : d = config[t]
  BY <1>2
<1>3. config' = [config EXCEPT ![t] = d]
  BY <1>2
<1> PICK y : y = Configure(x11, 0, w, p)
  OBVIOUS
<1>4. SameWindows(y, x11) /\ SaysZero(y) /\ ZeroBehind(y.events, x11.events) /\ x11' = y
  BY <1>1, <1>2, ConfigureZero
<1>5. x11' \in Displays /\ SameDisplay(x11', y)
  BY <1>4, SameFacts DEF SameWindows
<1>6. NamesCurrent(d, sxfe) /\ HandledIsHead(LoopAfter(t, d), x11.events, sxfe.fullscreen)
  BY DEF WindowInv, LoopAfter
<1>7. SameView(sxfe', sxfe)
  BY <1>2 DEF SameView
<1>8. (config[t].at \in {"pick", "send"} => d.at \in {"pick", "send"}) /\ (t = "sxfe_run" => config[t].at # "above")
  OBVIOUS
<1>9. x11'.events = y.events
  BY <1>4
<1> QED
  BY ONLY WindowInv, t \in Threads, d \in ConfigStates, <1>2, <1>3, <1>4, <1>5, <1>6, <1>7, <1>8, <1>9, ZeroStep

LEMMA ResizeKeeps ==
  ASSUME WindowInv, NEW t \in Threads, ConfigResize(t)
  PROVE  WindowInv'
<1>1. /\ config[t].at = "resize" /\ sxfe' = sxfe /\ Go(t, "check") /\ "check" \in Spots
      /\ x11 \in Displays /\ sxfe \in WindowStates
  BY DEF ConfigResize, At, WindowInv, WindowTypes, Spots
<1>2. sxfe.open
  BY <1>1, InsideIsOpen
<1> PICK w \in Nat : w = sxfe.width
  BY <1>1 DEF WindowStates
<1> PICK p \in Nat : p = x11.xpos[0]
  BY <1>1 DEF Displays
<1> PICK y : y = Configure(x11, 0, w, p)
  OBVIOUS
<1>3. SameWindows(y, x11) /\ x11' = y
  BY <1>1, ConfigureZero DEF ConfigResize
<1>4. x11' \in Displays /\ SameDisplay(x11', y) /\ x11'.events = y.events
  BY <1>3, SameFacts DEF SameWindows
<1>5. SameView(sxfe', sxfe)
  BY <1>1 DEF SameView
<1>6. HandledIsHead(IF t = "sxfe_run" THEN "check" ELSE Loop, x11.events, sxfe.fullscreen)
  <2>1. "check" \notin Unsized \cup Sized
    BY DEF Unsized, Sized
  <2> QED
    BY <2>1 DEF WindowInv, HandledIsHead
<1> PICK place \in Spots : place = "check"
  BY <1>1
<1>7. config[t].at \notin {"pick", "send", "above"} /\ place \notin {"tell", "send", "restore"} /\ Go(t, place)
      /\ HandledIsHead(IF t = "sxfe_run" THEN place ELSE Loop, x11.events, sxfe.fullscreen)
  BY <1>1, <1>6
<1> QED
  BY ONLY WindowInv, t \in Threads, place \in Spots, w \in Nat, p \in Nat, y = Configure(x11, 0, w, p),
          <1>2, <1>4, <1>5, <1>7, ZeroKeeps

LEMMA EventMoveKeeps ==
  ASSUME WindowInv, EventMove
  PROVE  WindowInv'
<1>1. /\ config["sxfe_run"].at = "move" /\ Loop = "move" /\ sxfe' = sxfe /\ Go("sxfe_run", "place")
      /\ x11 \in Displays /\ sxfe \in WindowStates /\ "place" \in Spots
  BY DEF EventMove, At, WindowInv, WindowTypes, Spots, Sized, Loop
<1> PICK t \in Threads : t = "sxfe_run"
  BY DEF Threads
<1>2. sxfe.open
  BY <1>1, InsideIsOpen
<1>3. x11.events # <<>> /\ Head(x11.events).window # 2
  BY <1>1 DEF WindowInv, HandledIsHead, Sized
<1> PICK w \in Nat : w = x11.width
  BY <1>1 DEF Displays
<1> PICK p \in Nat : p = Event.xpos
  BY <1>3, HeadFacts DEF Events
<1> PICK y : y = Configure(x11, 0, w, p)
  OBVIOUS
<1>4. SameWindows(y, x11) /\ x11' = y
  BY <1>1, ConfigureZero DEF EventMove
<1>5. x11' \in Displays /\ SameDisplay(x11', y) /\ x11'.events = y.events
  BY <1>4, SameFacts DEF SameWindows
<1>6. SameView(sxfe', sxfe)
  BY <1>1 DEF SameView
<1> PICK place \in Spots : place = "place"
  BY <1>1
<1>7. config[t].at \notin {"pick", "send", "above"} /\ place \notin {"tell", "send", "restore"} /\ Go(t, place)
      /\ HandledIsHead(IF t = "sxfe_run" THEN place ELSE Loop, x11.events, sxfe.fullscreen)
  BY <1>1, <1>3 DEF HandledIsHead
<1> QED
  BY ONLY WindowInv, t \in Threads, place \in Spots, w \in Nat, p \in Nat, y = Configure(x11, 0, w, p),
          <1>2, <1>5, <1>6, <1>7, ZeroKeeps

LEMMA DragKeeps ==
  ASSUME WindowInv, NEW p \in Places, Drag(p)
  PROVE  WindowInv'
<1>1. /\ config["sxfe_run"].at = "drag" /\ Go("sxfe_run", "out") /\ sxfe' = [sxfe EXCEPT !.xpos = p]
      /\ x11' = [Configure(x11, 0, x11.width, p) EXCEPT !.late = @ \ {"place"}]
      /\ x11 \in Displays /\ sxfe \in WindowStates /\ "out" \in Spots /\ p \in Nat
  BY WindowAssumption DEF Drag, At, WindowInv, WindowTypes, Spots
<1> PICK t \in Threads : t = "sxfe_run"
  BY DEF Threads
<1>2. sxfe.open
  BY <1>1, InsideIsOpen
<1> PICK w \in Nat : w = x11.width
  BY <1>1 DEF Displays
<1> PICK y : y = Configure(x11, 0, w, p)
  OBVIOUS
<1>3. y \in Displays
  BY <1>1, ConfigureZero DEF SameWindows
<1> PICK late \in SUBSET {"drawable", "place"} : late = y.late \ {"place"}
  BY <1>3 DEF Displays
<1>4. x11' = [y EXCEPT !.late = late] /\ ("drawable" \in late <=> "drawable" \in y.late)
  BY <1>1
<1>5. x11' \in Displays /\ SameDisplay(x11', y) /\ x11'.events = y.events
  BY <1>3, <1>4, SameFacts
<1>6. SameView(sxfe', sxfe)
  BY ONLY <1>1 DEF SameView, WindowStates
<1> PICK place \in Spots : place = "out"
  BY <1>1
<1>7. config[t].at \notin {"pick", "send", "above"} /\ place \notin {"tell", "send", "restore"} /\ Go(t, place)
      /\ HandledIsHead(IF t = "sxfe_run" THEN place ELSE Loop, x11.events, sxfe.fullscreen)
  BY <1>1 DEF HandledIsHead, Unsized, Sized
<1>8. p \in Nat
  BY <1>1
<1> QED
  BY ONLY WindowInv, t \in Threads, place \in Spots, w \in Nat, y = Configure(x11, 0, w, p),
          <1>2, <1>5, <1>6, <1>7, <1>8, ZeroKeeps

LEMMA RootResizedKeeps ==
  ASSUME WindowInv, NEW w \in Widths, RootResized(w)
  PROVE  WindowInv'
<1>1. /\ sxfe.open /\ sxfe' = sxfe /\ config' = config /\ x11 \in Displays
      /\ x11' = [x11 EXCEPT !.events = Append(x11.events, [window |-> 2, width |-> w, xpos |-> 0])]
  BY DEF RootResized, WindowInv, WindowTypes
<1> PICK k \in 0 .. 2 : k = 2
  OBVIOUS
<1> PICK zero \in Nat : zero = 0
  OBVIOUS
<1> PICK e \in Events : e = [window |-> k, width |-> w, xpos |-> zero]
  BY WindowAssumption DEF Events
<1>2. e.window # 0
  OBVIOUS
<1> PICK s \in Seq(Events) : s = x11.events
  BY <1>1 DEF Displays
<1> PICK ee : ee = Append(s, e)
  OBVIOUS
<1>3. ee \in Seq(Events) /\ Behind(ee, s) /\ \A ww, pp : LastSays(s, ww, pp) => LastSays(ee, ww, pp)
  BY <1>2, OtherBehind
<1>4. x11' = [x11 EXCEPT !.events = ee]
  BY <1>1
<1>5. x11' \in Displays /\ x11'.mapped = x11.mapped /\ x11'.above = x11.above /\ x11'.width = x11.width
      /\ x11'.xpos = x11.xpos /\ x11'.events = ee /\ x11'.drawable = x11.drawable /\ x11'.late = x11.late
  BY ONLY <1>1, <1>3, <1>4 DEF Displays
<1>6. SaysZero(x11)'
  BY <1>3, <1>5 DEF WindowInv, SaysZero
<1>7. Loop' = Loop /\ Current(sxfe)' = Current(sxfe) /\ (Naming => Naming') /\ WindowTypes'
  BY <1>1, <1>5 DEF Loop, Current, Naming, WindowInv, WindowTypes
<1>8. HandledIsHead(Loop, x11.events, sxfe.fullscreen)
  BY DEF WindowInv
<1>9. HandledIsHead(Loop', x11'.events, sxfe'.fullscreen)
  BY <1>1, <1>3, <1>5, <1>7, <1>8 DEF HandledIsHead, Behind
<1>10. Quiet(x11'.events) => Quiet(x11.events)
  BY <1>3, <1>5 DEF Behind
<1>11. Quiet(Unseen(x11'.events, Loop')) => Quiet(Unseen(x11.events, Loop))
  BY <1>3, <1>5, <1>7, <1>8 DEF Behind, HandledIsHead, Unseen
<1>12. (\E t \in Threads : Sizing(config[t])) => \E t \in Threads : Sizing(config'[t])
  BY <1>1
<1> QED
  BY <1>1, <1>5, <1>6, <1>7, <1>9, <1>10, <1>11, <1>12 DEF WindowInv

LEMMA ShownFacts ==
  ASSUME NEW x \in Displays, NEW i \in 0 .. 1, NEW j \in 0 .. 1, x.mapped = {i},
         NEW y, y = MapRaised(Unmap(x, i), j)
  PROVE  /\ y \in Displays /\ y.mapped = {j} /\ y.drawable = x.drawable
         /\ y.width = x.width /\ y.xpos = x.xpos /\ y.events = x.events
<1> PICK a \in BOOLEAN : a = (x.above /\ i # 0)
  OBVIOUS
<1> PICK none \in SUBSET (0 .. 1) : none = x.mapped \ {i}
  OBVIOUS
<1> PICK u : u = [x EXCEPT !.mapped = none, !.above = a]
  OBVIOUS
<1>1. u \in Displays /\ u.mapped = none /\ u.drawable = x.drawable
      /\ u.width = x.width /\ u.xpos = x.xpos /\ u.events = x.events
  BY DEF Displays
<1> PICK m \in SUBSET (0 .. 1) : m = none \cup {j}
  OBVIOUS
<1>2. m = {j}
  OBVIOUS
<1>3. y = [u EXCEPT !.mapped = m]
  BY <1>1 DEF MapRaised, Unmap, Displays
<1>4. y \in Displays /\ y.mapped = m /\ y.drawable = u.drawable
      /\ y.width = u.width /\ y.xpos = u.xpos /\ y.events = u.events
  BY ONLY <1>1, <1>3, m \in SUBSET (0 .. 1) DEF Displays
<1> QED
  BY <1>1, <1>2, <1>4

LEMMA AboveFacts ==
  ASSUME NEW x \in Displays, NEW above \in BOOLEAN, NEW y, y = SetAbove(x, above)
  PROVE  /\ y \in Displays /\ y.mapped = x.mapped /\ y.drawable = x.drawable /\ y.width = x.width
         /\ y.xpos = x.xpos /\ y.events = x.events /\ y.late = x.late
         /\ 0 \in x.mapped => y.above = above
<1>1. x.above \in BOOLEAN
  BY DEF Displays
<1> PICK a \in BOOLEAN : a = IF 0 \in x.mapped THEN above ELSE x.above
  BY <1>1
<1>2. y = [x EXCEPT !.above = a]
  BY DEF SetAbove, Displays
<1>3. /\ y \in Displays /\ y.mapped = x.mapped /\ y.drawable = x.drawable /\ y.width = x.width
      /\ y.xpos = x.xpos /\ y.events = x.events /\ y.late = x.late /\ y.above = a
  BY ONLY x \in Displays, a \in BOOLEAN, <1>2 DEF Displays
<1> QED
  BY <1>3

(* What sxfe_display_config() leaves of the display: the other window, an  *)
(* event about it, and a window 0 that is where and how sxfe_t has it.     *)
LEMMA SwappedFacts ==
  ASSUME NEW x \in Displays, NEW s \in WindowStates, x.mapped = {Current(s)}, SaysZero(x), NEW full \in BOOLEAN,
         NEW y, y = Swapped(x, s, full)
  PROVE  /\ y \in Displays /\ y.mapped = {IF full THEN 1 ELSE 0} /\ SaysZero(y) /\ Behind(y.events, x.events)
         /\ ~full => /\ ZeroBehind(y.events, x.events) /\ y.above = s.stay_above
                     /\ y.xpos[0] = s.xpos
<1> PICK i \in 0 .. 1 : i = Current(s)
  BY DEF Current
<1> PICK j \in 0 .. 1 : j = IF full THEN 1 ELSE 0
  OBVIOUS
<1> PICK shown : shown = MapRaised(Unmap(x, i), j)
  OBVIOUS
<1>1. /\ shown \in Displays /\ shown.mapped = {j} /\ shown.drawable = x.drawable
      /\ shown.width = x.width /\ shown.xpos = x.xpos /\ shown.events = x.events
  BY ShownFacts
<1>2. SaysZero(shown)
  BY <1>1 DEF SaysZero
<1> PICK w \in Nat : w = s.width
  BY DEF WindowStates
<1> PICK p \in Nat : p = s.xpos
  BY DEF WindowStates
<1> PICK above \in BOOLEAN : above = s.stay_above
  BY DEF WindowStates
<1> PICK zero \in Nat : zero = 0
  OBVIOUS
<1>3. CASE full
  <2>1. y = Configure(shown, 1, w, zero)
    BY <1>3 DEF Swapped
  <2>2. SameWindows(y, shown) /\ (SaysZero(shown) => SaysZero(y)) /\ Behind(y.events, shown.events)
    BY <1>1, <2>1, ConfigureOne
  <2> QED
    BY <1>1, <1>2, <1>3, <2>2 DEF SameWindows
<1>4. CASE ~full
  <2> PICK z : z = Configure(shown, 0, w, p)
    OBVIOUS
  <2>1. y = SetAbove(z, above)
    BY <1>4 DEF Swapped
  <2>2. SameWindows(z, shown) /\ SaysZero(z) /\ ZeroBehind(z.events, shown.events) /\ z.xpos[0] = p
    BY <1>1, ConfigureZero
  <2>3. z \in Displays /\ z.mapped = {0}
    BY <1>1, <1>4, <2>2 DEF SameWindows
  <2>4. /\ y \in Displays /\ y.mapped = z.mapped /\ y.drawable = z.drawable /\ y.width = z.width
        /\ y.xpos = z.xpos /\ y.events = z.events /\ y.above = above
    BY <2>1, <2>3, AboveFacts
  <2> QED
    BY <1>1, <1>4, <2>2, <2>3, <2>4 DEF SaysZero, ZeroBehind
<1> QED
  BY <1>3, <1>4

LEMMA SwapKeeps ==
  ASSUME WindowInv, NEW t \in Threads, ConfigSwap(t)
  PROVE  WindowInv'
<1>0. /\ config \in [Threads -> ConfigStates] /\ x11 \in Displays /\ sxfe \in WindowStates
      /\ config[t].at = "swap" /\ SaysZero(x11)
  BY DEF WindowInv, WindowTypes, ConfigSwap, At
<1>1. sxfe.open /\ x11.mapped = {Current(sxfe)}
  BY <1>0, InsideIsOpen
<1> PICK full \in BOOLEAN : full = config[t].fullscreen
  BY <1>0 DEF ConfigStates
<1> PICK x : x = Swapped(x11, sxfe, full)
  OBVIOUS
<1>2. /\ x \in Displays /\ x.mapped = {IF full THEN 1 ELSE 0} /\ SaysZero(x) /\ Behind(x.events, x11.events)
      /\ ~full => ZeroBehind(x.events, x11.events) /\ x.above = sxfe.stay_above /\ x.xpos[0] = sxfe.xpos
  BY <1>0, <1>1, SwappedFacts
<1> PICK late \in SUBSET {"drawable", "place"} : late = {}
  OBVIOUS
<1>3. x11' = [x EXCEPT !.late = late]
  BY DEF ConfigSwap
<1>4. x11' \in Displays /\ x11'.mapped = x.mapped /\ x11'.above = x.above /\ x11'.width = x.width
      /\ x11'.xpos = x.xpos /\ x11'.events = x.events /\ x11'.drawable = x.drawable
  BY ONLY <1>2, <1>3, late \in SUBSET {"drawable", "place"} DEF Displays
<1> PICK move \in BOOLEAN : move = (sxfe.check_move \/ ~full)
  OBVIOUS
<1>5. x.xpos[IF full THEN 1 ELSE 0] \in Nat
  BY <1>2 DEF Displays
<1> PICK p \in Nat : p = x.xpos[IF full THEN 1 ELSE 0]
  BY <1>5
<1>6. sxfe' = [sxfe EXCEPT !.fullscreen = full, !.check_move = move, !.xpos = p]
  BY DEF ConfigSwap
<1>7. sxfe' \in WindowStates /\ sxfe'.open = sxfe.open /\ sxfe'.fullscreen = full
      /\ sxfe'.stay_above = sxfe.stay_above /\ sxfe'.xpos = p
  BY ONLY <1>0, <1>6, full \in BOOLEAN, move \in BOOLEAN, p \in Nat DEF WindowStates
<1>8. config' = [u \in Threads |->
                   IF u = t THEN [config[t] EXCEPT !.at = "pick"]
                   ELSE [config[u] EXCEPT !.stale = config[u].at \in {"restore", "tell", "send"}]]
  BY DEF ConfigSwap
<1>9. ASSUME NEW u \in Threads
      PROVE  /\ config'[u] \in ConfigStates
             /\ u = t => config'[u].at = "pick"
             /\ u # t => /\ config'[u].at = config[u].at
                         /\ config[u].at \in {"restore", "tell", "send"} => config'[u].stale
  <2> PICK c \in ConfigStates : c = config[u]
    BY <1>0
  <2> PICK place \in Spots : place = "pick"
    BY DEF Spots
  <2>0. (c.at \in {"restore", "tell", "send"}) \in BOOLEAN
    OBVIOUS
  <2> PICK stale \in BOOLEAN : stale = (c.at \in {"restore", "tell", "send"})
    BY ONLY <2>0, Zenon
  <2>1. CASE u = t
    <3> PICK d : d = [c EXCEPT !.at = place]
      OBVIOUS
    <3>1. d \in ConfigStates /\ d.at = place
      BY DEF ConfigStates
    <3>2. config'[u] = d
      BY <1>8, <2>1
    <3> QED
      BY <2>1, <3>1, <3>2
  <2>2. CASE u # t
    <3> PICK d : d = [c EXCEPT !.stale = stale]
      OBVIOUS
    <3>1. d \in ConfigStates /\ d.at = c.at /\ d.stale = stale
      BY DEF ConfigStates
    <3>2. config'[u] = d
      BY <1>8, <2>2
    <3> QED
      BY <2>2, <3>1, <3>2
  <2> QED
    BY <2>1, <2>2
<1>10. config' \in [Threads -> ConfigStates]
  BY <1>8, <1>9
<1>11. Naming'
  BY <1>9 DEF Naming
<1>12. \A u \in Threads : NamesCurrent(config'[u], sxfe')
  <2> TAKE u \in Threads
  <2>1. CASE u = t
    <3>1. config'[u].at = "pick"
      BY <1>9, <2>1
    <3> QED
      BY <3>1 DEF NamesCurrent
  <2>2. CASE u # t
    <3>1. config'[u].at = config[u].at /\ (config[u].at \in {"restore", "tell", "send"} => config'[u].stale)
      BY <1>9, <2>2
    <3> QED
      BY <3>1 DEF NamesCurrent
  <2> QED
    BY <2>1, <2>2
<1>13. Loop' = "pick" \/ Loop' = Loop
  BY <1>9 DEF Loop, Threads
<1>14. HandledIsHead(Loop, x11.events, sxfe.fullscreen)
  BY DEF WindowInv
<1>15. HandledIsHead(Loop', x11'.events, sxfe'.fullscreen)
  <2>1. "pick" \notin Unsized \cup Sized
    BY DEF Unsized, Sized
  <2>2. Quiet(x11'.events) => full
    BY <1>2, <1>4 DEF ZeroBehind
  <2>3. x11'.events # <<>> /\ (x11.events # <<>> => Head(x11'.events) = Head(x11.events))
    BY <1>2, <1>4 DEF Behind
  <2>4. CASE Loop' = "pick"
    BY <2>1, <2>4 DEF HandledIsHead
  <2>5. CASE Loop' = Loop
    BY <1>7, <1>14, <2>2, <2>3, <2>5 DEF HandledIsHead
  <2> QED
    BY <1>13, <2>4, <2>5
<1>16. SaysZero(x11)' /\ Current(sxfe)' = IF full THEN 1 ELSE 0
  BY <1>2, <1>4, <1>7 DEF SaysZero, Current
<1>17. WindowTypes' /\ sxfe'.open /\ x11'.mapped = {Current(sxfe)'}
  BY <1>1, <1>2, <1>4, <1>7, <1>10, <1>16 DEF WindowTypes
<1>18. ~sxfe'.fullscreen => /\ x11'.above = sxfe'.stay_above
                            /\ ~Quiet(x11'.events) /\ ~Quiet(Unseen(x11'.events, Loop'))
  <2> SUFFICES ASSUME ~full PROVE /\ x11'.above = sxfe'.stay_above
                                  /\ ~Quiet(x11'.events) /\ ~Quiet(Unseen(x11'.events, Loop'))
    BY <1>7
  <2>1. x11'.above = sxfe'.stay_above /\ ~Quiet(x11'.events)
        /\ (x11.events # <<>> => ~Quiet(Tail(x11'.events)))
    BY <1>2, <1>4, <1>7 DEF ZeroBehind
  <2>2. Loop' \in Sized => x11.events # <<>>
    BY <1>13, <1>14 DEF HandledIsHead, Sized
  <2> QED
    BY <2>1, <2>2 DEF Unseen
<1> QED
  BY <1>11, <1>12, <1>15, <1>16, <1>17, <1>18 DEF WindowInv

LEMMA AboveKeeps ==
  ASSUME WindowInv, Button3Above
  PROVE  WindowInv'
<1>1. /\ config["sxfe_run"].at = "above" /\ Loop = "above" /\ sxfe' = sxfe /\ Go("sxfe_run", "out")
      /\ x11 \in Displays /\ sxfe \in WindowStates /\ "out" \in Spots /\ "sxfe_run" \in Threads
      /\ x11' = SetAbove(x11, sxfe.stay_above) /\ config \in [Threads -> ConfigStates]
  BY DEF Button3Above, At, WindowInv, WindowTypes, Spots, Loop, Threads
<1>2. sxfe.open /\ x11.mapped = {Current(sxfe)}
  BY <1>1, InsideIsOpen
<1> PICK above \in BOOLEAN : above = sxfe.stay_above
  BY <1>1 DEF WindowStates
<1>3. /\ x11' \in Displays /\ x11'.mapped = x11.mapped /\ x11'.drawable = x11.drawable /\ x11'.width = x11.width
      /\ x11'.xpos = x11.xpos /\ x11'.events = x11.events /\ x11'.late = x11.late
      /\ 0 \in x11.mapped => x11'.above = above
  BY <1>1, AboveFacts
<1> PICK d \in ConfigStates : config' = [config EXCEPT !["sxfe_run"] = d] /\ d.at = "out"
  BY <1>1, GoFacts
<1>4. /\ config' \in [Threads -> ConfigStates] /\ config'["sxfe_run"] = d
      /\ \A u \in Threads \ {"sxfe_run"} : config'[u] = config[u]
      /\ Loop' = "out"
  BY <1>1, ThreadGoes
<1>5. Naming => Naming'
  BY <1>1, ThreadGoes
<1>6. ~Sizing(config["sxfe_run"])
  BY <1>1 DEF Sizing
<1>7. (\E u \in Threads : Sizing(config[u])) => \E u \in Threads : Sizing(config'[u])
  BY <1>1, <1>6, ThreadGoes
<1>8. \A u \in Threads : NamesCurrent(config'[u], sxfe')
  BY <1>1, <1>4 DEF WindowInv, NamesCurrent
<1>9. Current(sxfe)' = Current(sxfe) /\ SaysZero(x11)'
  BY <1>1, <1>3 DEF Current, SaysZero, WindowInv
<1>10. ~sxfe.fullscreen => x11'.above = sxfe'.stay_above
  BY <1>1, <1>2, <1>3 DEF Current
<1>11. Unseen(x11'.events, Loop') = Unseen(x11.events, Loop) /\ HandledIsHead(Loop', x11'.events, sxfe'.fullscreen)
  BY <1>1, <1>3, <1>4 DEF Unseen, HandledIsHead, Sized, Unsized
<1>12. WindowTypes'
  BY <1>1, <1>3, <1>4 DEF WindowTypes
<1> QED
  BY <1>1, <1>2, <1>3, <1>5, <1>7, <1>8, <1>9, <1>10, <1>11, <1>12 DEF WindowInv

LEMMA CloseKeeps ==
  ASSUME WindowInv, DisplayClose
  PROVE  WindowInv'
<1>0. x11 \in Displays /\ sxfe \in WindowStates
  BY DEF WindowInv, WindowTypes
<1>1. /\ \A t \in Threads : config[t].at = "out"
      /\ config' = config
      /\ sxfe' = [sxfe EXCEPT !.open = FALSE]
      /\ x11' = [x11 EXCEPT !.mapped = {}, !.events = <<>>]
  BY DEF DisplayClose, At
<1> PICK none \in SUBSET (0 .. 1) : none = {}
  OBVIOUS
<1>2. <<>> \in Seq(Events)
  OBVIOUS
<1> PICK empty \in Seq(Events) : empty = <<>>
  BY <1>2
<1>3. x11' = [x11 EXCEPT !.mapped = none, !.events = empty]
  BY <1>1
<1>4. x11' \in Displays /\ x11'.drawable = x11.drawable /\ x11'.events = empty /\ x11'.late = x11.late
  BY ONLY <1>0, <1>3, none \in SUBSET (0 .. 1), empty \in Seq(Events) DEF Displays
<1>5. sxfe' \in WindowStates /\ ~sxfe'.open /\ sxfe'.fullscreen = sxfe.fullscreen
  BY ONLY <1>0, <1>1 DEF WindowStates
<1>6. SaysZero(x11)'
  BY <1>4 DEF SaysZero, LastSays
<1>7. Loop' = "out" /\ "out" \notin Unsized \cup Sized
  BY <1>1 DEF Loop, Threads, Unsized, Sized
<1>8. HandledIsHead(Loop', x11'.events, sxfe'.fullscreen)
  BY <1>7 DEF HandledIsHead
<1>9. x11'.drawable = Current(sxfe)' \/ "drawable" \in x11'.late
  BY <1>1, <1>4, <1>5 DEF WindowInv, Naming, Current
<1>10. WindowTypes' /\ \A u \in Threads : NamesCurrent(config'[u], sxfe') /\ config'[u].at = "out"
  BY <1>1, <1>4, <1>5 DEF WindowInv, WindowTypes, NamesCurrent, Current
<1> QED
  BY <1>5, <1>6, <1>8, <1>9, <1>10 DEF WindowInv

LEMMA WindowInvInit == ASSUME SxInit PROVE WindowInv
<1>1. PICK full \in BOOLEAN, w \in Widths, p \in Places :
        /\ sxfe = [open |-> TRUE, fullscreen |-> full, forced |-> FALSE,
                   width |-> IF full THEN ScreenWidth ELSE w, xpos |-> p, origwidth |-> w, origxpos |-> 0,
                   check_move |-> FALSE, dragging |-> FALSE, stay_above |-> FALSE, no_border |-> FALSE]
        /\ config = [t \in Threads |-> Out]
        /\ x11 = [mapped |-> {IF full THEN 1 ELSE 0}, width |-> w,
                  xpos |-> [i \in 0..1 |-> IF i = 0 THEN p ELSE 0], drawable |-> IF full THEN 1 ELSE 0,
                  above |-> FALSE, events |-> <<>>, late |-> {}]
  BY DEF SxInit
<1>2. w \in Nat /\ p \in Nat /\ ScreenWidth \in Nat
  BY WindowAssumption
<1>3. sxfe \in WindowStates /\ sxfe.open /\ sxfe.fullscreen = full /\ sxfe.stay_above = FALSE
      /\ (~full => sxfe.width = w) /\ sxfe.xpos = p
  BY <1>1, <1>2 DEF WindowStates
<1>4. config \in [Threads -> ConfigStates] /\ \A t \in Threads : config[t].at = "out"
  BY <1>1, OutFields
<1> PICK pp : pp = [i \in 0..1 |-> IF i = 0 THEN p ELSE 0]
  OBVIOUS
<1>5. pp \in [0 .. 1 -> Nat] /\ pp[0] = p
  BY <1>2
<1>6. x11 = [mapped |-> {IF full THEN 1 ELSE 0}, width |-> w, xpos |-> pp,
             drawable |-> IF full THEN 1 ELSE 0, above |-> FALSE, events |-> <<>>, late |-> {}]
  BY <1>1
<1>7. x11 \in Displays /\ x11.width = w /\ x11.xpos = pp /\ x11.events = <<>> /\ x11.above = FALSE
      /\ x11.mapped = {IF full THEN 1 ELSE 0} /\ x11.drawable = IF full THEN 1 ELSE 0
  BY <1>2, <1>5, <1>6 DEF Displays
<1>8. SaysZero(x11)
  BY <1>7 DEF SaysZero, LastSays
<1>9. Current(sxfe) = IF full THEN 1 ELSE 0
  BY <1>3 DEF Current
<1>10. WindowTypes
  BY <1>3, <1>4, <1>7 DEF WindowTypes
<1>11. Loop = "out" /\ "out" \notin Unsized \cup Sized
  BY <1>4 DEF Loop, Threads, Unsized, Sized
<1>12. HandledIsHead(Loop, x11.events, sxfe.fullscreen)
  BY <1>11 DEF HandledIsHead
<1>13. \A t \in Threads : NamesCurrent(config[t], sxfe)
  BY <1>4 DEF NamesCurrent
<1> QED
  BY <1>3, <1>5, <1>7, <1>8, <1>9, <1>10, <1>12, <1>13 DEF WindowInv

LEMMA ThreadKeeps ==
  ASSUME WindowInv, NEW t \in Threads,
         \/ ToggleFullscreen(t) \/ ToggleLook(t) \/ ToggleSave(t) \/ ToggleRestore(t)
         \/ \E full \in BOOLEAN : ToggleDecide(t, full)
         \/ ConfigSize(t) \/ ConfigResize(t) \/ ConfigCheck(t) \/ ConfigTell(t)
         \/ ConfigSwitch(t) \/ ConfigSwap(t) \/ ConfigPick(t) \/ ConfigSend(t) \/ ConfigDone(t)
  PROVE  WindowInv'
<1>1. CASE \/ ToggleFullscreen(t) \/ ToggleLook(t) \/ ToggleSave(t) \/ ToggleRestore(t)
            \/ \E full \in BOOLEAN : ToggleDecide(t, full)
  BY <1>1, ToggleKeeps, ToggleLookKeeps, SaveKeeps, RestoreKeeps, DecideKeeps
<1>2. CASE ConfigSize(t) \/ ConfigResize(t) \/ ConfigCheck(t) \/ ConfigTell(t)
  BY <1>2, SizeKeeps, ResizeKeeps, CheckKeeps, TellsKeep
<1>3. CASE ConfigSwitch(t) \/ ConfigSwap(t) \/ ConfigPick(t) \/ ConfigSend(t) \/ ConfigDone(t)
  BY <1>3, SwitchKeeps, SwapKeeps, PickKeeps, TellsKeep, DoneKeeps
<1> QED
  BY <1>1, <1>2, <1>3

LEMMA EventKeeps ==
  ASSUME WindowInv,
         \/ XConfigureEvent \/ EventScreen \/ RootEvent \/ EventOurs \/ EventWidth \/ EventMoved \/ EventCheckMove
         \/ EventCompare \/ EventMove \/ EventPlace \/ EventPut
  PROVE  WindowInv'
<1>1. ASSUME XConfigureEvent PROVE WindowInv'
  <2>1. x11' = x11 \/ (config' = config /\ x11' = Handled(x11) /\ Event.window = 2)
    BY <1>1 DEF XConfigureEvent
  <2> QED
    BY <1>1, <2>1, EntryKeeps, HandledRootKeeps
<1> QED
  BY <1>1, ScreenKeeps, RootKeeps, OursKeeps, WidthKeeps, EventLooksKeep, EventMoveKeeps, PlaceKeeps, PutKeeps

LEMMA WindowInvNext == ASSUME WindowInv, [SxNext]_sxVars PROVE WindowInv'
<1>1. CASE UNCHANGED sxVars
  BY <1>1 DEF sxVars, WindowInv, WindowTypes, SaysZero, Naming, Loop, Current
<1>2. CASE \E w \in Widths, full \in BOOLEAN : Config("other", w, full)
  <2>1. "other" \in Threads
    BY DEF Threads
  <2> QED
    BY <1>2, <2>1, ConfigKeeps
<1>3. CASE SxNext
  BY <1>1, <1>2, <1>3, UserMovesKeeps, RootResizedKeeps, ThreadKeeps, EventKeeps, MouseKeeps, DragKeeps,
     AboveKeeps, CloseKeeps DEF SxNext
<1> QED
  BY <1>1, <1>3

LEMMA WindowInvAgrees == WindowInv => WindowAgrees
<1> SUFFICES ASSUME WindowInv, sxfe.open PROVE WindowAgrees
  BY DEF WindowAgrees
<1>1. x11.mapped = {Current(sxfe)}
  BY DEF WindowInv
<1>2. ASSUME x11.events = <<>>, \A t \in Threads : config[t].at = "out"
      PROVE  /\ "drawable" \notin x11.late => x11.drawable = Current(sxfe)
             /\ ~sxfe.fullscreen => /\ sxfe.width = x11.width
                                     /\ "place" \notin x11.late => sxfe.xpos = x11.xpos[0]
                                     /\ sxfe.stay_above = x11.above
  <2>1. Quiet(x11.events) /\ ~Naming /\ ~(\E t \in Threads : Sizing(config[t]))
    BY <1>2 DEF Quiet, Naming, Sizing
  <2>2. Loop = "out" /\ Unseen(x11.events, Loop) = x11.events
    BY <1>2 DEF Loop, Threads, Unseen, Sized
  <2> QED
    BY <2>1, <2>2 DEF WindowInv
<1> QED
  BY <1>1, <1>2 DEF WindowAgrees, At

-----------------------------------------------------------------------------
(* However play modes, files, still pictures and radio guesses follow each  *)
(* other, a video packet that is accepted finds the frontends with their    *)
(* video on, and reverse play is silent (cXinelibDevice, device.c); and     *)
(* however OSDs are created, given areas, hidden and deleted, or lose their *)
(* provider, no window is shown that belongs to none that is visible, and   *)
(* no thread waits for the server's lock inside the OSD lock while the      *)
(* other waits the other way round (osd.c).                                 *)
THEOREM DeviceIsKept == Spec => []DeviceKept
<1> DEFINE Inv == DevInv /\ OsdInv
<1>1. Init => Inv
  BY DeviceBegins, OsdInvInit DEF Init
<1>2. Inv /\ [Next]_vars => Inv'
  BY DevInvNext, OsdInvNext
<1>3. Inv => DeviceKept
  BY DevInvKept, OsdInvKept DEF DeviceKept
<1> QED
  BY <1>1, <1>2, <1>3, PTL DEF Spec

(* However X events, the user, the mouse, toggles and settings of two       *)
(* threads interleave, also between a look at this->fullscreen and what is  *)
(* done about it, one window of the local frontend is on the screen; once   *)
(* all have settled its size and stacking are those of sxfe_t, and unless   *)
(* a thread that had not seen the other's switch wrote last, xine draws     *)
(* into it and its place is that of sxfe_t (xine_sxfe_frontend.c).          *)
THEOREM WindowIsKept == SxSpec => []WindowAgrees
<1>1. WindowInv /\ [SxNext]_sxVars => WindowInv'
  BY WindowInvNext
<1> QED
  BY <1>1, WindowInvInit, WindowInvAgrees, PTL DEF SxSpec
=============================================================================
