------------------------------ MODULE Device -------------------------------
(***************************************************************************)
(* cXinelibDevice (device.c) and the state of its frontends that it steers *)
(* (cXinelibThread, frontend.c).  VDR's main thread switches channels,     *)
(* play modes and speeds; a player or receiver thread feeds data.  The     *)
(* device keeps its own idea of the mode and tells the frontends changes   *)
(* only, so both must not drift apart; several fields are set past the     *)
(* functions that would tell the frontends.                                *)
(*                                                                         *)
(* ForEach() calls both frontends alike, so one stands for them.  A        *)
(* handler is an operator on the device; the actions apply it.             *)
(***************************************************************************)
EXTENDS Integers, FiniteSets

CONSTANTS AudioPackets,   \* packets until a replay counts as radio (15)
          TsPackets,      \* packets that fit into the TS buffer (11)
          DevSpeeds,      \* the arguments of TrickSpeed() that are tried
          DevFree         \* model bound: frames a frontend accepts per Poll

VARIABLES
  dev,        \* the device's fields, and its frontend's (fe)
  videoSeen   \* the last packet was video, and was accepted

devVars == <<dev, videoSeen>>

PlayModes == {"None", "AudioVideo", "AudioOnly", "AudioOnlyBlack", "VideoOnly"}

SlowForward == {8, 4, 2}
SlowBackward == {63, 48, 24}
Fast == {6, 3, 1}

-----------------------------------------------------------------------------
(* cXinelibThread's setters: a value that is set already is not sent.      *)

SetLiveMode(d, on) == [d EXCEPT !.fe.m_bLiveMode = on]
SetStillMode(d, on) == [d EXCEPT !.fe.still = on]
SetNoVideo(d, b) == [d EXCEPT !.fe.m_bNoVideo = b]
FeTrickSpeed(d, speed, back) ==
  [d EXCEPT !.fe.m_TrickSpeed = speed, !.fe.m_bTrickSpeedBack = back]

-----------------------------------------------------------------------------
(* Speed.                                                                  *)

(* Wrong variant, for the sensitivity checks: the flags of the old mode    *)
(* stay when playback is resumed.                                          *)
DevTrickSpeedKeepsFlags(d, speed) ==
  LET t == [d EXCEPT !.m_TrickSpeed = speed]
      real == IF speed < 0 THEN -speed ELSE speed
      back == d.m_StreamStart \/ "Backward" \in d.m_TrickSpeedMode
  IN CASE d.m_TrickSpeed = speed -> d
       [] d.m_TrickSpeed # speed /\ speed \in SlowBackward ->
            FeTrickSpeed([t EXCEPT !.m_TrickSpeedMode =
                            {"I_frames", "Backward", "NoAudio"}], (speed + 11) \div 12, TRUE)
       [] d.m_TrickSpeed # speed /\ speed \in Fast /\ back ->
            FeTrickSpeed([t EXCEPT !.m_TrickSpeedMode =
                            @ \cup {"I_frames", "Backward", "NoAudio"}], -(12 \div speed), TRUE)
       [] OTHER -> FeTrickSpeed(t, real, FALSE)

(* TrickSpeed().  The direction of a fast mode is guessed: backwards at    *)
(* the start of a stream, or when it was backwards before.                 *)
DevTrickSpeed(d, speed) ==
  LET t == [d EXCEPT !.m_TrickSpeed = speed]
      real == IF speed < 0 THEN -speed ELSE speed
      back == d.m_StreamStart \/ "Backward" \in d.m_TrickSpeedMode
  IN CASE d.m_TrickSpeed = speed -> d
       [] d.m_TrickSpeed # speed /\ speed \in SlowForward ->
            FeTrickSpeed([t EXCEPT !.m_TrickSpeedMode = {"IPB_frames"}], real, FALSE)
       [] d.m_TrickSpeed # speed /\ speed \in SlowBackward ->
            FeTrickSpeed([t EXCEPT !.m_TrickSpeedMode =
                            {"I_frames", "Backward", "NoAudio"}], (speed + 11) \div 12, TRUE)
       [] d.m_TrickSpeed # speed /\ speed \in Fast /\ back ->
            FeTrickSpeed([t EXCEPT !.m_TrickSpeedMode =
                            @ \cup {"I_frames", "Backward", "NoAudio"}], -(12 \div speed), TRUE)
       [] d.m_TrickSpeed # speed /\ speed \in Fast /\ ~back ->
            FeTrickSpeed([t EXCEPT !.m_TrickSpeedMode = @ \cup {"IPB_frames"}],
                         -(12 \div speed), FALSE)
       [] d.m_TrickSpeed # speed /\ speed \in {-1, 0} ->
            FeTrickSpeed([t EXCEPT !.m_TrickSpeedMode = {}], real, FALSE)
       [] OTHER ->     \* an unknown speed
            FeTrickSpeed([t EXCEPT !.m_TrickSpeedMode = {}, !.m_TrickSpeed = -1], -1, FALSE)

DevClear(d) ==
  SetStillMode(DevTrickSpeed(
    [d EXCEPT !.m_TsBuf = 0, !.m_StreamStart = TRUE, !.m_FreeBufs = 0], -1), FALSE)

-----------------------------------------------------------------------------
(* Play modes.  The frontend is told about a picture or none.              *)

StopOutput(d) ==
  SetNoVideo(DevClear(SetLiveMode(
    [d EXCEPT !.m_RadioStream = FALSE, !.m_AudioCount = 0], FALSE)), FALSE)

SetTvMode(d, isRadioChannel) ==
  LET radio == isRadioChannel \/ d.m_PlayMode = "AudioOnlyBlack"
      t == [d EXCEPT !.m_RadioStream = radio, !.m_StreamStart = TRUE,
                     !.m_liveMode = TRUE, !.m_TrickSpeed = -1,
                     !.m_SkipAudio = FALSE, !.m_AudioCount = 0]
  IN SetLiveMode(SetNoVideo(DevClear(t), radio), TRUE)

SetReplayMode(d) ==
  LET t == [d EXCEPT !.m_RadioStream = TRUE, !.m_AudioCount = AudioPackets,
                     !.m_StreamStart = TRUE, !.m_TrickSpeed = -1]
  IN [SetNoVideo(DevClear(SetLiveMode(t, FALSE)), FALSE) EXCEPT !.m_liveMode = FALSE]

(* Wrong variant: the picture stays off when the black mode ends.          *)
SetPlayModeStaysBlack(d, mode) ==
  LET t == DevTrickSpeed([d EXCEPT !.m_PlayMode = mode], -1)
  IN IF mode = "AudioOnlyBlack" THEN SetNoVideo(t, TRUE) ELSE DevClear(t)

SetPlayMode(d, mode) ==
  LET t == DevTrickSpeed([d EXCEPT !.m_PlayMode = mode], -1)
      silent == d.m_RadioStream /\ (d.m_liveMode \/ d.m_AudioCount < 1)
  IN IF mode = "AudioOnlyBlack" THEN SetNoVideo(t, TRUE)
     ELSE DevClear(SetNoVideo(t, silent))

-----------------------------------------------------------------------------
(* Data.                                                                   *)

(* Poll(): the credit a frontend gave, or a new one.                       *)
DevPoll(d, free) ==
  IF d.m_PlayingFile = "AudioVideo" THEN d
  ELSE IF d.m_TrickSpeed = 0 \/ d.m_FreeBufs > 0 THEN d
  ELSE [d EXCEPT !.m_FreeBufs = free]

PollOk(d) == d.m_PlayingFile = "AudioVideo" \/ (d.m_TrickSpeed # 0 /\ d.m_FreeBufs > 0)

(* PlayAny(): a frame needs a credit, and takes one.  While a file plays   *)
(* none is needed; the count is not followed below -1 (model bound).       *)
PlayAnyOk(d, free) == d.m_FreeBufs > 0 \/ PollOk(DevPoll(d, free))
PlayAny(d, free) ==
  LET t == IF d.m_FreeBufs > 0 THEN d ELSE DevPoll(d, free)
  IN [t EXCEPT !.m_FreeBufs = IF @ > -1 THEN @ - 1 ELSE @]

TsBufferFlush(d, free) ==
  IF d.m_TsBuf > 0 /\ PlayAnyOk(d, free)
  THEN [PlayAny(d, free) EXCEPT !.m_TsBuf = 0]
  ELSE IF d.m_TsBuf > 0 THEN DevPoll(d, free) ELSE d

(* PlayTsAny(): the packet is cached; the cache is flushed when it is one  *)
(* packet short of full, and has to be when it is full.                    *)
PlayTsAny(d, free) ==
  LET t == IF d.m_TsBuf >= TsPackets THEN TsBufferFlush(d, free) ELSE d
      u == [t EXCEPT !.m_TsBuf = @ + 1]
  IN IF t.m_TsBuf >= TsPackets THEN t
     ELSE IF u.m_TsBuf >= TsPackets - 1 THEN TsBufferFlush(u, free) ELSE u

AcceptsVideo(d) == /\ d.m_PlayMode # "AudioOnlyBlack"
                   /\ d.m_PlayingFile \notin {"AudioVideo", "VideoOnly"}

(* The first picture of what was taken for radio turns the video on.       *)
AcceptVideoPacket(d) ==
  IF d.m_RadioStream
  THEN SetNoVideo([d EXCEPT !.m_RadioStream = FALSE, !.m_AudioCount = 0], FALSE)
  ELSE d

AcceptsAudio(d) == /\ d.m_PlayingFile \notin {"AudioVideo", "AudioOnly"}
                   /\ ~d.m_SkipAudio /\ "NoAudio" \notin d.m_TrickSpeedMode

(* So many audio packets without a picture: a radio stream.                *)
AcceptAudioPacket(d) ==
  IF d.m_RadioStream /\ d.m_AudioCount > 0
  THEN LET t == [d EXCEPT !.m_AudioCount = @ - 1]
       IN IF t.m_AudioCount = 0 THEN SetNoVideo(t, TRUE) ELSE t
  ELSE d

-----------------------------------------------------------------------------
(* Calls of VDR.                                                           *)

Told(d) == dev' = d /\ videoSeen' = FALSE

DevMode ==
  \/ \E mode \in PlayModes : Told(SetPlayMode(dev, mode))
  \/ \E radio \in BOOLEAN : Told(SetTvMode(dev, radio))
  \/ Told(SetReplayMode(dev))
  \/ Told(StopOutput(dev))

DevSpeed ==
  \/ \E speed \in DevSpeeds : Told(DevTrickSpeed(dev, speed))
  \/ Told(DevClear(dev))

DevPlay == Told(DevTrickSpeed(SetStillMode(SetLiveMode(
                  [dev EXCEPT !.m_SkipAudio = FALSE], FALSE), FALSE), -1))

DevFreeze == \E free \in 0 .. DevFree :
               Told(DevTrickSpeed(TsBufferFlush(dev, free), 0))

DevFlush ==
  \E free \in 0 .. DevFree :
    LET t == TsBufferFlush(dev, free)
    IN Told(IF t.m_TrickSpeed = 0 THEN DevTrickSpeed(SetLiveMode(t, FALSE), -1) ELSE t)

(* StillPicture(): m_TrickSpeed is set without telling the frontend, so    *)
(* that the picture can be fed and the next Play() is a change.            *)
StillPicture ==
  /\ dev.m_PlayingFile \notin {"AudioVideo", "VideoOnly"}
  /\ \E free \in 0 .. DevFree :
       LET t == SetStillMode(SetLiveMode(SetNoVideo(
                  TsBufferFlush(dev, free), FALSE), FALSE), TRUE)
           fed == [t EXCEPT !.m_TrickSpeed = -1, !.m_SkipAudio = TRUE]
       IN Told([TsBufferFlush(fed, free) EXCEPT !.m_TrickSpeed = 0,
                                                !.m_SkipAudio = FALSE])

(* PlayFile(): the first file stops the output (unless it is an image),    *)
(* the end of files brings replay or TV back.                              *)
DevPlayFile ==
  /\ dev.m_PlayingFile = "None"     \* later files change nothing here
  /\ \E mode \in PlayModes \ {"None"}, image \in BOOLEAN :
       LET t == [dev EXCEPT !.m_PlayingFile = mode]
       IN Told(IF image THEN t ELSE StopOutput(t))

DevStopFile ==
  /\ dev.m_PlayingFile # "None"
  /\ \E radio \in BOOLEAN :
       Told([IF dev.m_liveMode THEN SetTvMode(dev, radio) ELSE SetReplayMode(dev)
             EXCEPT !.m_PlayingFile = "None"])

(* The player feeds; VDR sets a play mode before it does.                  *)
DevPlayVideo ==
  /\ dev.m_PlayMode # "None"
  /\ \E free \in 0 .. DevFree, sizeFound, ts \in BOOLEAN :
       IF AcceptsVideo(dev)
       THEN LET t == AcceptVideoPacket(dev)
                u == IF sizeFound THEN [t EXCEPT !.m_StreamStart = FALSE] ELSE t
            IN /\ dev' = IF ts THEN PlayTsAny(u, free)
                         ELSE IF PlayAnyOk(u, free) THEN PlayAny(u, free)
                         ELSE DevPoll(u, free)
               /\ videoSeen' = TRUE
       ELSE UNCHANGED devVars

DevPlayAudio ==
  /\ dev.m_PlayMode # "None"
  /\ \E free \in 0 .. DevFree, ts \in BOOLEAN :
       IF AcceptsAudio(dev)
       THEN LET t == AcceptAudioPacket(dev)
            IN /\ dev' = IF ts THEN PlayTsAny(t, free)
                         ELSE IF PlayAnyOk(t, free) THEN PlayAny(t, free)
                         ELSE DevPoll(t, free)
               /\ videoSeen' = FALSE
       ELSE UNCHANGED devVars

(* PAT and PMT are passed on at once; a PMT without video is radio.        *)
DevPlayPmt ==
  /\ dev.m_PlayMode # "None"
  /\ \E free \in 0 .. DevFree, radio \in BOOLEAN :
       LET t == TsBufferFlush(PlayTsAny(dev, free), free)
       IN Told(IF radio
               THEN SetNoVideo([t EXCEPT !.m_RadioStream = TRUE, !.m_AudioCount = 0], TRUE)
               ELSE t)

DevInit ==
  /\ dev = [m_PlayMode |-> "None", m_liveMode |-> TRUE, m_TrickSpeed |-> -1,
            m_TrickSpeedMode |-> {}, m_SkipAudio |-> FALSE,
            m_PlayingFile |-> "None", m_StreamStart |-> TRUE,
            m_RadioStream |-> FALSE, m_AudioCount |-> 0, m_FreeBufs |-> 0,
            m_TsBuf |-> 0,
            fe |-> [m_bLiveMode |-> TRUE, m_bNoVideo |-> TRUE, still |-> FALSE,
                    m_TrickSpeed |-> -1, m_bTrickSpeedBack |-> FALSE]]
  /\ videoSeen = FALSE

DevNext == \/ DevMode \/ DevSpeed \/ DevPlay \/ DevFreeze \/ DevFlush
           \/ StillPicture \/ DevPlayFile \/ DevStopFile
           \/ DevPlayVideo \/ DevPlayAudio \/ DevPlayPmt

-----------------------------------------------------------------------------
(* Type invariant; the TS buffer holds no more than fits.                  *)
DevTypeOK ==
  /\ dev.m_PlayMode \in PlayModes /\ dev.m_PlayingFile \in PlayModes
  /\ dev.m_TrickSpeed \in DevSpeeds \cup {-1, 0}
  /\ dev.m_TrickSpeedMode \subseteq {"I_frames", "IPB_frames", "Backward", "NoAudio"}
  /\ dev.m_AudioCount \in 0 .. AudioPackets
  /\ dev.m_TsBuf \in 0 .. TsPackets
  /\ videoSeen \in BOOLEAN

(* A picture is seen when pictures are played: whatever play modes, files, *)
(* still pictures and radio guesses came before, a video packet that was   *)
(* accepted (AcceptVideoPacket()) finds every frontend with its video on,  *)
(* although SetNoVideo() is called from eight places with five different   *)
(* conditions.                                                             *)
VideoShown == videoSeen => ~dev.fe.m_bNoVideo

(* The device strips the audio exactly while the frontends play backwards: *)
(* trs_NoAudio and trs_Backward agree with the last TRICKSPEED command,    *)
(* although StillPicture(), SetTvMode() and SetReplayMode() change         *)
(* m_TrickSpeed without telling anyone.                                    *)
ReverseIsSilent ==
  /\ dev.fe.m_bTrickSpeedBack <=> "Backward" \in dev.m_TrickSpeedMode
  /\ dev.fe.m_bTrickSpeedBack <=> "NoAudio" \in dev.m_TrickSpeedMode
=============================================================================
