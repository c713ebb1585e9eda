------------------------ MODULE MCServerComponents ------------------------
(* The components of the VDR process that share no state in their models,   *)
(* explored in one run: "focus" is the one of this behaviour, the others    *)
(* stay where they begin.                                                   *)
EXTENDS Integers, Sequences, FiniteSets

CONSTANTS Clients, Fds, MaxConnects, Lines, UseRtp, RtpAlwaysOn,
          AudioPackets, TsPackets, DevSpeeds, DevFree,
          Osds, Handles, MaxAreas, Items, PlsNone, MayRelaunch,
          FileSize, MaxStreamers, WaitSeconds, Edited,
          PtsWrap, Stamps, FrameKinds, JumpLimit, Burst, MinDelay, Multipliers, MaxElapsed

(* Slots and descriptors are numbers; -1 is none.                           *)
ASSUME TableAssumption ==
  /\ Clients \subseteq Nat /\ IsFiniteSet(Clients) /\ Fds \subseteq Nat
  /\ UseRtp \in BOOLEAN /\ RtpAlwaysOn \in BOOLEAN

(* Packets are counted, and speeds are numbers.                             *)
ASSUME DeviceAssumption ==
  /\ AudioPackets \in Nat /\ TsPackets \in Nat /\ DevFree \in Nat /\ DevSpeeds \subseteq Int

(* Timestamps wrap above their largest one, a frame that is not due yet     *)
(* waits at least a tick, and speeds are whole numbers of halves.           *)
ASSUME PacerAssumption ==
  /\ PtsWrap \in Nat \ {0} /\ Stamps \subseteq 0 .. PtsWrap - 1
  /\ FrameKinds \subseteq {"video", "audio", "pcr"}
  /\ JumpLimit \in Nat /\ Burst \in Nat /\ MinDelay \in Nat \ {0}
  /\ Multipliers \subseteq Nat \ {0} /\ MaxElapsed \in Nat

(* A file has a length; a kept connection waits for whole seconds.          *)
ASSUME StreamerAssumption == FileSize \in Nat /\ WaitSeconds \in Nat

(* Items are the places of the files in the order of their names.           *)
ASSUME ListAssumption == Items \subseteq Int /\ IsFiniteSet(Items) /\ PlsNone \notin Items

VARIABLES focus,
          srv, thread, connects, refused,         \* ServerClients
          dev, videoSeen,                         \* Device
          osd, osdMixer, osdLock, srvLock, osdPc, \* OsdProvider
          pls, scan, plsMenu,                     \* Playlist
          ctl, player, resume,                    \* PlayerControl
          lf, lfPc, lfCall,                       \* LocalFrontend
          streamers, http,                        \* HttpStreamer
          menu, xc, played, conf,                 \* SetupMenus
          clk, pace, hold, setter                 \* UdpPacer

Table    == INSTANCE ServerClients
Xinelib  == INSTANCE Device
OsdStack == INSTANCE OsdProvider
List     == INSTANCE Playlist
Player   == INSTANCE PlayerControl
Local    == INSTANCE LocalFrontend
Streamer == INSTANCE HttpStreamer
Menus    == INSTANCE SetupMenus
Pacer    == INSTANCE UdpPacer

tableVars    == <<srv, thread, connects, refused>>
devVars      == <<dev, videoSeen>>
osdVars      == <<osd, osdMixer, osdLock, srvLock, osdPc>>
plsVars      == <<pls, scan, plsMenu>>
ctlVars      == <<ctl, player, resume>>
lfVars       == <<lf, lfPc, lfCall>>
streamerVars == <<streamers, http>>
menuVars     == <<menu, xc, played, conf>>
pacerVars    == <<clk, pace, hold, setter>>
vars == <<focus, tableVars, devVars, osdVars, plsVars, ctlVars, lfVars, streamerVars, menuVars,
          pacerVars>>

Init ==
  /\ focus \in {"table", "device", "osd", "playlist", "player", "local", "streamer", "menus",
                "pacer"}
  /\ Table!SrvInit /\ Xinelib!DevInit /\ OsdStack!OsdInit /\ List!PlsInit
  /\ Player!CtlInit /\ Local!LfInit /\ Streamer!HttpInit /\ Menus!SetupInit
  /\ Pacer!PacerInit
  \* one initial state will do for a component that stays there
  /\ focus # "osd" => osdMixer
  /\ focus # "streamer" => Len(streamers) = 1

Step ==
  \/ focus = "table" /\ Table!SrvNext
  \/ focus = "device" /\ Xinelib!DevNext
  \/ focus = "osd" /\ OsdStack!OsdNext
  \/ focus = "playlist" /\ List!PlsNext
  \/ focus = "player" /\ Player!CtlNext
  \/ focus = "local" /\ Local!LfNext
  \/ focus = "streamer" /\ Streamer!HttpNext
  \/ focus = "menus" /\ Menus!SetupNext
  \/ focus = "pacer" /\ Pacer!PacerNext

OthersStay ==
  /\ UNCHANGED focus
  /\ focus # "table" => UNCHANGED tableVars
  /\ focus # "device" => UNCHANGED devVars
  /\ focus # "osd" => UNCHANGED osdVars
  /\ focus # "playlist" => UNCHANGED plsVars
  /\ focus # "player" => UNCHANGED ctlVars
  /\ focus # "local" => UNCHANGED lfVars
  /\ focus # "streamer" => UNCHANGED streamerVars
  /\ focus # "menus" => UNCHANGED menuVars
  /\ focus # "pacer" => UNCHANGED pacerVars

\* Bounded or ended: these may stop; the others may not deadlock.
Stopped == focus \in {"table", "device", "playlist", "player", "local"} /\ UNCHANGED vars

Next == (Step /\ OthersStay) \/ Stopped

Spec == Init /\ [][Next]_vars
-----------------------------------------------------------------------------
Slots == 0 .. 1
FdNumbers == 0 .. 5
TrickSpeeds == {8, 24, 6, -1, 0, 5}
WindowHandles == 0 .. 2
Files == 1 .. 3

(* Type invariant.                                                          *)
ServerTypeOK ==
  /\ Table!SrvTypeOK /\ Xinelib!DevTypeOK /\ OsdStack!OsdTypeOK /\ List!PlsTypeOK
  /\ Player!CtlTypeOK /\ Local!LfTypeOK /\ Streamer!HttpTypeOK /\ Menus!SetupTypeOK
  /\ Pacer!PacerTypeOK

(* Every descriptor of cXinelibServer is some slot's or streamer's and no   *)
(* slot keeps one that is closed; the scheduler, the masks and the writers  *)
(* agree with the slots; the primary device is forced once per client, on   *)
(* every order of requests, hang-ups and calls (CloseConnection()).         *)
ConnectionsAccounted ==
  Table!DescriptorsOwned /\ Table!TransportsMatch /\ Table!PrimaryHeld

(* cXinelibDevice shows video after it has come, and reverse play has no    *)
(* sound; VDR's windows show nothing of an OSD that was left or deleted,    *)
(* and the OSD lock and the server's lock are never waited for crosswise.   *)
DeviceKept ==
  Xinelib!VideoShown /\ Xinelib!ReverseIsSilent /\ OsdStack!NoGhostWindow /\ OsdStack!LocksNeverCross

(* The list never loses the item being played to its scanner, a control has *)
(* one OSD at a time, a file streamer sends as many bytes as its header     *)
(* says, and the transmitter holds no frame back for longer than a jump of  *)
(* the timestamps would be (cPlaylist, cXinelibPlayerControl,               *)
(* cHttpStreamer, cUdpScheduler::Schedule()).                               *)
PlaybackKept ==
  /\ List!ItemsAlive /\ Player!OneOsd /\ Streamer!BodyAsAnnounced
  /\ Pacer!HeldWithinLimit

(* Outside the setup menus the frontends play with the stored settings.     *)
SettingsPlayed == Menus!DeviceAsConfigured
=============================================================================
