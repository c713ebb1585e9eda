--------------------------- MODULE InputPlayback ---------------------------
(***************************************************************************)
(* How the xine input plugin plays (xine_input_vdr.c): live, still, trick  *)
(* speed and pause as VDR asks for them, the tuning of the clock, and the  *)
(* slave stream that plays files.  VDR's commands come one at a time from  *)
(* the control thread (local mode: from VDR's own), each takes the lock    *)
(* for itself; xine's demuxer thread adjusts the clock between two blocks  *)
(* and again, under a new lock, when it has a block.  Both move the one    *)
(* speed of the stream.                                                    *)
(*                                                                         *)
(* CHECK_FALSE() returns from a function whose caller should not have      *)
(* called it now: a change asked for in the wrong order is dropped.  The   *)
(* orders are those of cXinelibDevice (device.c).                          *)
(*                                                                         *)
(* Speeds: 0 paused, 1 normal, 2 slow, -2 fast; what the fill of the       *)
(* buffers decides is nondeterministic.                                    *)
(***************************************************************************)
EXTENDS Integers, Sequences

CONSTANT PlayRemote     \* the plugin plays over the network (fd_control >= 0)

VARIABLES
  ip,       \* the plugin's modes and the stream's speed
  slave,    \* the slave stream: open, shown by the frontend, with background
  dmx,      \* demuxer thread: where it is, need_pause
  ctl,      \* control thread: commands of the running operation, where it is
  vdr,      \* what the device thinks it is doing, what it has asked for
  blank     \* a BLANK is queued in the stream

ipVars == <<ip, slave, dmx, ctl, vdr, blank>>

IpSpeeds == {0, 1, 2, -2}
Trick == {2, -2}
Tunings == {"off", "faster", "slower", "SCR_TUNING_PAUSED"}

-----------------------------------------------------------------------------
(* The setters; the caller holds the lock.                                 *)

(* reset_scr_tuning().                                                     *)
ResetTuning(p) ==
  IF p.tuning = "off" \/ p.is_trickspeed \/ p.is_paused THEN p
  ELSE [p EXCEPT !.tuning = "off", !.speed = 1]

(* scr_tuning_set_paused(); s is the slave stream.                         *)
SetTuningPaused(p, s) ==
  IF p.is_trickspeed \/ p.is_paused \/ s.open \/ p.still_mode THEN p
  ELSE [p EXCEPT !.tuning = "SCR_TUNING_PAUSED", !.speed = 0]

IpSetStillMode(p, on) ==
  LET q == [p EXCEPT !.still_mode = on]
  IN IF (on \/ p.still_mode) /\ p.live_mode THEN p
     ELSE IF on THEN ResetTuning(q) ELSE q

IpSetLiveMode(p, on) ==
  LET q == IpSetStillMode([p EXCEPT !.live_mode = on], FALSE)
  IN IF on THEN q ELSE ResetTuning(q)

(* The end of set_trick_speed(): a stream that the tuning has paused keeps *)
(* standing still until there is data.                                     *)
ToSpeed(p, n) == IF p.tuning = "SCR_TUNING_PAUSED" THEN p ELSE [p EXCEPT !.speed = n]

(* Wrong variant, for the sensitivity checks: trick speed without          *)
(* resetting the tuning first.                                             *)
IpSetTrickSpeedTuned(p, n) ==
  LET q == [p EXCEPT !.is_paused = n = 0]
      r == IF n = 0 THEN q ELSE IpSetStillMode(q, FALSE)
  IN IF n \notin Trick THEN ToSpeed([r EXCEPT !.is_trickspeed = FALSE], n)
     ELSE IF p.live_mode THEN r
     ELSE ToSpeed([r EXCEPT !.is_trickspeed = TRUE], n)

IpSetTrickSpeed(p, n) ==
  LET q == [p EXCEPT !.is_paused = n = 0]
      r == IF n = 0 THEN q ELSE IpSetStillMode(q, FALSE)
  IN IF n \notin Trick THEN ToSpeed([r EXCEPT !.is_trickspeed = FALSE], n)
     ELSE IF p.live_mode THEN r
     ELSE ToSpeed([ResetTuning(r) EXCEPT !.is_trickspeed = TRUE], n)

(* set_still_mode(0) and reset_scr_tuning() of queue_blank_yv12().         *)
QueueBlank(p) == ResetTuning(IpSetStillMode(p, FALSE))

-----------------------------------------------------------------------------
(* The device's operations, as the commands they send.  A command is sent  *)
(* only when it changes what the frontend's object remembers (LIVE), or    *)
(* the device's speed (TrickSpeed()).                                      *)

LIVE(on) == <<[cmd |-> "LIVE", arg |-> on]>>
STILL(on) == <<[cmd |-> "STILL", arg |-> on]>>
TRICKSPEED(n) == <<[cmd |-> "TRICKSPEED", arg |-> n]>>
DISCARD == <<[cmd |-> "DISCARD", arg |-> 0]>>
BLANK == <<[cmd |-> "BLANK", arg |-> 0]>>
FLUSH == <<[cmd |-> "FLUSH", arg |-> 0]>>

LiveIfChanged(on) == IF vdr.m_bLiveMode = on THEN <<>> ELSE LIVE(on)
SpeedIfChanged(n) == IF vdr.m_TrickSpeed = n THEN <<>> ELSE TRICKSPEED(n)

Sends(commands, live, m_TrickSpeed, still, speed) ==
  /\ ctl.todo = <<>> /\ ctl.pc = "idle"
  /\ ctl' = [ctl EXCEPT !.todo = commands]
  /\ vdr' = [m_bLiveMode |-> live, m_TrickSpeed |-> m_TrickSpeed,
             still |-> still, speed |-> speed]
  /\ UNCHANGED <<ip, slave, dmx, blank>>

(* SetTvMode(): the speed is set before Clear() looks at it.               *)
IpSetTvMode ==
  /\ ~slave.open
  /\ Sends(DISCARD \o STILL(FALSE) \o LiveIfChanged(TRUE) \o TRICKSPEED(1),
           TRUE, 1, FALSE, 1)

(* SetReplayMode(), with a display that is blanked when it was no TV.      *)
IpSetReplayMode ==
  \E b \in {<<>>, BLANK \o FLUSH} :
    /\ ~slave.open
    /\ Sends(LiveIfChanged(FALSE) \o DISCARD \o STILL(FALSE) \o b \o TRICKSPEED(1),
             FALSE, 1, FALSE, 1)

(* StopOutput().                                                           *)
IpStopOutput ==
  /\ ~slave.open
  /\ Sends(LiveIfChanged(FALSE) \o SpeedIfChanged(1) \o DISCARD \o STILL(FALSE) \o BLANK,
           FALSE, 1, FALSE, IF vdr.m_TrickSpeed = 1 THEN vdr.speed ELSE 1)

(* TrickSpeed() and Freeze(), which a replay uses.                         *)
IpTrickSpeed ==
  \E n \in IpSpeeds \ {vdr.m_TrickSpeed} :
    /\ ~vdr.m_bLiveMode
    /\ Sends(TRICKSPEED(n), FALSE, n, vdr.still, n)

(* Play().                                                                 *)
IpPlay ==
  Sends(LiveIfChanged(FALSE) \o STILL(FALSE) \o SpeedIfChanged(1),
        FALSE, 1, FALSE, IF vdr.m_TrickSpeed = 1 THEN vdr.speed ELSE 1)

(* Clear() of a replay (a jump), and Flush() at its end.                   *)
IpClear ==
  /\ ~vdr.m_bLiveMode
  /\ Sends(SpeedIfChanged(1) \o DISCARD \o STILL(FALSE),
           FALSE, 1, FALSE, IF vdr.m_TrickSpeed = 1 THEN vdr.speed ELSE 1)

IpFlush ==
  /\ ~slave.open
  /\ IF vdr.m_TrickSpeed = 0
     THEN Sends(LiveIfChanged(FALSE) \o TRICKSPEED(1) \o FLUSH, FALSE, 1, vdr.still, 1)
     ELSE Sends(FLUSH, vdr.m_bLiveMode, vdr.m_TrickSpeed, vdr.still, vdr.speed)

(* StillPicture(): the device's speed is left at 0, so that the next       *)
(* Play() sends a speed, which ends the still mode.                        *)
IpStillPicture ==
  /\ ~slave.open
  /\ Sends(DISCARD \o LiveIfChanged(FALSE) \o TRICKSPEED(1) \o STILL(TRUE) \o FLUSH,
           FALSE, 0, TRUE, 1)

(* PlayFile() with a file, and without: SetReplayMode() follows (the file  *)
(* was started from a replay), which this model lets VDR do.               *)
IpPlayFile ==
  \E on \in BOOLEAN :
    /\ ~vdr.m_bLiveMode /\ (on \/ slave.open)
    /\ Sends(<<[cmd |-> "PLAYFILE", arg |-> on]>>, FALSE, vdr.m_TrickSpeed,
             vdr.still, vdr.speed)

-----------------------------------------------------------------------------
(* vdr_plugin_parse_control(): the next command.                           *)

IsNext(cmd) == ctl.pc = "idle" /\ ctl.todo # <<>> /\ Head(ctl.todo).cmd = cmd
Arg == Head(ctl.todo).arg
Handled == ctl' = [ctl EXCEPT !.todo = Tail(@), !.pc = "idle"]

HandleMode ==
  /\ \/ IsNext("LIVE") /\ ip' = IpSetLiveMode(ip, Arg)
     \/ IsNext("STILL") /\ ip' = IpSetStillMode(ip, Arg)
     \/ IsNext("TRICKSPEED") /\ ip' = IpSetTrickSpeed(ip, Arg)
  /\ Handled /\ UNCHANGED <<slave, dmx, vdr, blank>>

(* DISCARD of a new position: vdr_flush_engine() gives up the lock for     *)
(* _x_demux_seek().  A position that was discarded before, or a stream at  *)
(* its start, is not flushed.                                              *)
HandleDiscard ==
  /\ IsNext("DISCARD")
  /\ \/ Handled /\ UNCHANGED ip
     \/ /\ ~ip.stream_start
        /\ ip' = LET r == ResetTuning(ip)
                 IN IF r.speed = 0 THEN [r EXCEPT !.speed = 1] ELSE r
        /\ ctl' = [ctl EXCEPT !.pc = "seek"]
  /\ UNCHANGED <<slave, dmx, vdr, blank>>

HandleSeekDone ==
  /\ ctl.pc = "seek"
  /\ ip' = [ResetTuning(ip) EXCEPT !.stream_start = TRUE]
  /\ Handled /\ UNCHANGED <<slave, dmx, vdr, blank>>

(* BLANK goes through the data stream.                                     *)
HandleBlank ==
  /\ IsNext("BLANK")
  /\ blank' = TRUE /\ Handled /\ UNCHANGED <<ip, slave, dmx, vdr>>

(* FLUSH.  Over the network vdr_plugin_flush_remote() turns live mode off  *)
(* while it waits, and back on.                                            *)
HandleFlush ==
  /\ IsNext("FLUSH")
  /\ IF PlayRemote
     THEN /\ ip' = ResetTuning([ip EXCEPT !.live_mode = FALSE])
          /\ ctl' = [ctl EXCEPT !.pc = "flush", !.live = ip.live_mode]
     ELSE Handled /\ UNCHANGED ip
  /\ UNCHANGED <<slave, dmx, vdr, blank>>

FlushDone ==
  /\ ctl.pc = "flush"
  /\ ip' = [ResetTuning(ip) EXCEPT !.live_mode = ctl.live]
  /\ Handled /\ UNCHANGED <<slave, dmx, vdr, blank>>

(* handle_control_playfile(): an open slave stream is closed, a new one    *)
(* opened, then the main stream is brought to rest: a file starts at       *)
(* normal speed.  A file that cannot be opened or played closes the slave  *)
(* stream again.                                                           *)
ClosedSlave == [open |-> FALSE, shown |-> FALSE, background |-> FALSE]

HandlePlayFile ==
  /\ IsNext("PLAYFILE")
  /\ IF Arg
     THEN /\ slave' = [ClosedSlave EXCEPT !.open = TRUE]
          /\ ctl' = [ctl EXCEPT !.pc = "opened"]
     ELSE slave' = ClosedSlave /\ Handled
  /\ UNCHANGED <<ip, dmx, vdr, blank>>

PlayFileFails ==
  /\ ctl.pc \in {"opened", "resting"}
  /\ slave' = ClosedSlave
  /\ Handled /\ UNCHANGED <<ip, dmx, vdr, blank>>

PlayFileRests ==
  /\ ctl.pc = "opened"
  /\ LET t == IpSetTrickSpeed(ip, 1)
         l == IpSetLiveMode([t EXCEPT !.live_mode = TRUE], FALSE)
     IN ip' = ResetTuning(IpSetTrickSpeed(l, 1))
  /\ ctl' = [ctl EXCEPT !.pc = "resting"]
  /\ vdr' = [vdr EXCEPT !.still = FALSE, !.speed = 1]
  /\ UNCHANGED <<slave, dmx, blank>>

PlayFilePlays ==
  /\ ctl.pc = "resting"
  /\ \E image \in BOOLEAN :
       slave' = [slave EXCEPT !.shown = TRUE, !.background = image]
  /\ Handled /\ UNCHANGED <<ip, dmx, vdr, blank>>

(* POLL while the buffers are full: a paused clock would never empty them. *)
PollResets ==
  /\ ctl.pc = "idle" /\ ~slave.open
  /\ ip.tuning = "SCR_TUNING_PAUSED"
  /\ ip' = ResetTuning(ip)
  /\ UNCHANGED <<slave, dmx, ctl, vdr, blank>>

-----------------------------------------------------------------------------
(* vdr_plugin_read_block().                                                *)

(* vdr_adjust_realtime_speed().                                            *)
Adjusted(p, s) ==
  IF p.still_mode \/ p.is_trickspeed \/ p.is_paused THEN {p}
  ELSE {p, SetTuningPaused(p, s)}          \* the buffers are empty, or not
       \cup (CASE p.tuning = "SCR_TUNING_PAUSED" -> {ResetTuning(p)}   \* enough data
               [] p.tuning # "SCR_TUNING_PAUSED" /\ p.speed = 1 ->
                    {[p EXCEPT !.tuning = t] : t \in {"off", "faster", "slower"}}
               [] OTHER -> {ResetTuning(p)})

(* adjust_scr_speed(); MASTER (fixed_scr) is nondeterministic.             *)
ReadAdjusts ==
  /\ dmx.pc = "idle" /\ ~slave.open
  /\ \E fixed \in BOOLEAN :
       IF (~ip.live_mode /\ (~PlayRemote \/ fixed)) \/ slave.open
       THEN ip' = ResetTuning(ip) /\ dmx' = [pc |-> "get", need_pause |-> FALSE]
       ELSE IF ip.stream_start
       THEN ip' = ResetTuning(ip) /\ dmx' = [pc |-> "get", need_pause |-> TRUE]
       ELSE /\ ip' \in Adjusted(ip, slave)
            /\ dmx' = [pc |-> "get", need_pause |-> FALSE]
  /\ UNCHANGED <<slave, ctl, vdr, blank>>

(* preprocess_buf(): a BLANK is executed only at the start of a stream; a  *)
(* block ends the start.                                                   *)
ReadPreprocesses ==
  /\ dmx.pc = "get"
  /\ \/ dmx' = [dmx EXCEPT !.pc = "idle"] /\ UNCHANGED <<ip, blank>>   \* no data
     \/ /\ blank /\ blank' = FALSE
        /\ ip' = IF ip.stream_start THEN QueueBlank(ip) ELSE ip
        /\ dmx' = [dmx EXCEPT !.pc = "idle"]
     \/ /\ ip' = [ip EXCEPT !.stream_start = FALSE]
        /\ dmx' = [dmx EXCEPT !.pc = "post"]
        /\ UNCHANGED blank
  /\ UNCHANGED <<slave, ctl, vdr>>

(* postprocess_buf().                                                      *)
ReadPostprocesses ==
  /\ dmx.pc = "post"
  /\ ip' = IF dmx.need_pause THEN SetTuningPaused(ip, slave) ELSE ip
  /\ dmx' = [pc |-> "idle", need_pause |-> FALSE]
  /\ UNCHANGED <<slave, ctl, vdr, blank>>

IpInit ==
  /\ ip = [live_mode |-> FALSE, still_mode |-> FALSE, is_paused |-> FALSE,
           is_trickspeed |-> FALSE, tuning |-> "off", speed |-> 1, stream_start |-> TRUE]
  /\ slave = ClosedSlave
  /\ dmx = [pc |-> "idle", need_pause |-> FALSE]
  /\ ctl = [todo |-> <<>>, pc |-> "idle", live |-> FALSE]
  /\ vdr = [m_bLiveMode |-> FALSE, m_TrickSpeed |-> 1, still |-> FALSE, speed |-> 1]
  /\ blank = FALSE

IpNext == \/ IpSetTvMode \/ IpSetReplayMode \/ IpStopOutput \/ IpTrickSpeed
          \/ IpPlay \/ IpClear \/ IpFlush \/ IpStillPicture \/ IpPlayFile
          \/ HandleMode \/ HandleDiscard \/ HandleSeekDone \/ HandleBlank
          \/ HandleFlush \/ FlushDone \/ HandlePlayFile \/ PlayFileFails
          \/ PlayFileRests \/ PlayFilePlays \/ PollResets
          \/ ReadAdjusts \/ ReadPreprocesses \/ ReadPostprocesses

-----------------------------------------------------------------------------
(* Type invariant.                                                         *)
IpTypeOK ==
  /\ ip.tuning \in Tunings /\ ip.speed \in IpSpeeds
  /\ vdr.m_TrickSpeed \in IpSpeeds /\ vdr.speed \in IpSpeeds
  /\ dmx.pc \in {"idle", "get", "post"}
  /\ ctl.pc \in {"idle", "seek", "flush", "opened", "resting"}
  /\ Len(ctl.todo) <= 6

(* The plugin plays the way VDR asked for.  Although CHECK_FALSE() drops   *)
(* what comes at the wrong moment, and the demuxer thread pauses and       *)
(* resumes the clock between any two commands, after the commands of an    *)
(* operation of the device the plugin has VDR's live mode, is paused or in *)
(* trick mode exactly when VDR is, runs at that speed unless the tuning    *)
(* waits for data, and shows no still picture VDR has left.  (A BLANK that *)
(* was queued before may still end a still picture early.)                 *)
ModesAgree ==
  ctl.todo = <<>> =>
    /\ ip.live_mode = vdr.m_bLiveMode
    /\ ip.still_mode => vdr.still
    /\ ip.is_paused <=> vdr.speed = 0
    /\ ip.is_trickspeed <=> vdr.speed \in Trick
    /\ ip.tuning = "SCR_TUNING_PAUSED" => ip.speed \in {0, 1} /\ ~ip.still_mode /\ ~ip.is_trickspeed
    /\ ip.tuning # "SCR_TUNING_PAUSED" => ip.speed = vdr.speed
    /\ slave.shown = slave.open
=============================================================================
