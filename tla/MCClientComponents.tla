------------------------ MODULE MCClientComponents ------------------------
(* The components of the frontend that share no state in their models,      *)
(* explored in one run: "focus" is the one of this behaviour, the others    *)
(* stay where they begin.                                                   *)
EXTENDS InputBuffers, DemuxClock, AdjustableScr, Sequences

CONSTANTS Wnds, Pictures, PlayRemote, AudioTracks, BufferPackets, MaxUnit,
          Mrls, Reconnects, RtpTries, UdpTries, MaxSessions, MaxSignals,
          VideoPosts, AudioPosts, VisPosts, Statics, MaxPlugins,
          FramePts, MaxFrames, MaxMetronoms,
          LircKeys, HotKeys, RepeatDelay, RepeatTimeout, MaxCount,
          Heights, Tops, Bottoms, SmallBar, Near, SoftStep, StabilizeTime,
          SubsLifetime, SubsStabilizeTime, MaxAhead,
          OpenglAlways, AlphaSteps, MaxMoves, MaxBehind,
          Areas, HudMax, HudSizes,
          Byte, Pixels, PictureSizes, ScaledSizes

(* Times of the remote control are numbers; a repeat is expected before     *)
(* the release of a key is made up.                                         *)
ASSUME KeysAssumption ==
  /\ RepeatDelay \in Nat \ {0} /\ RepeatTimeout \in Nat /\ RepeatDelay <= RepeatTimeout
  /\ MaxCount \in Nat /\ "none" \notin LircKeys

(* A timestamp is a number, 0 for none.                                     *)
ASSUME MetronomAssumption == FramePts \subseteq Nat

(* Lines, sizes and times are numbers; a frame that is intercepted has at   *)
(* least 16 lines (the code's have 288 to 576).                             *)
ASSUME CropAssumption ==
  /\ Heights \subseteq Nat \ 0 .. 15 /\ Tops \subseteq Nat /\ Bottoms \subseteq Nat
  /\ {SmallBar, Near, SoftStep, StabilizeTime, SubsLifetime, SubsStabilizeTime} \subseteq Nat

VARIABLES focus,
          wnd, screen, scaler,                   \* OsdClient
          ip, slave, dmx, ctl, vdr, blank,       \* InputPlayback
          demux, decoder,                        \* TsConverter
          fe, cli, wire, srv,                    \* NetConnect
          posts, wires,                          \* PostChain
          feo, objs,                             \* XineFrontend
          mtr, hook, video,                      \* Metronom
          lirc, remote, down, input,             \* FrontendInput
          crop, ahead, shown, switched,          \* Autocrop
          gl, osd, out, win,                     \* OpenglOsd
          hud, surf, place,                      \* HudOsd
          drawn, code, surface, elems, scaled    \* Rle

Osd      == INSTANCE OsdClient
Playback == INSTANCE InputPlayback
Ts       == INSTANCE TsConverter
Net      == INSTANCE NetConnect
Post     == INSTANCE PostChain
Engine   == INSTANCE XineFrontend
Mtr      == INSTANCE Metronom
Keys     == INSTANCE FrontendInput
Crop     == INSTANCE Autocrop
Gl       == INSTANCE OpenglOsd
Hud      == INSTANCE HudOsd
Packed   == INSTANCE Rle

osdVars      == <<wnd, screen, scaler>>
playbackVars == <<ip, slave, dmx, ctl, vdr, blank>>
tsVars       == <<demux, decoder>>
netVars      == <<fe, cli, wire, srv>>
postVars     == <<posts, wires>>
engineVars   == <<feo, objs>>
mtrVars      == <<mtr, hook, video>>
keysVars     == <<lirc, remote, down, input>>
cropVars     == <<crop, ahead, shown, switched>>
glVars       == <<gl, osd, out, win>>
hudVars      == <<hud, surf, place>>
rleVars      == <<drawn, code, surface, elems, scaled>>
vars == <<focus, bufVars, clockVars, osdVars, playbackVars, tsVars, scrVars, netVars, postVars,
          engineVars, mtrVars, keysVars, cropVars, glVars, hudVars, rleVars>>

\* Each component begins in any of its initial states if it is in focus, and
\* in one of them if it is not.
Init ==
  /\ focus \in {"buffers", "clock", "osd", "playback", "ts", "scr", "net", "post",
                "engine", "metronom", "keys", "crop", "gl", "hud", "rle"}
  /\ BufInit
  /\ ClockInit /\ (focus # "clock" => av = AvStart(0))
  /\ Osd!OcInit /\ screen.argb  \* an output without ARGB only lacks OcSetArgb
  /\ focus # "osd" => screen.window = "osd" /\ ~screen.vo_scaling
  /\ Playback!IpInit /\ Ts!TsInit /\ ScrInit
  /\ Net!NetInit /\ (focus # "net" => fe.mrl = "tcp" /\ fe.reconnect /\ ~fe.waitvdr /\ srv.can = {})
  /\ Post!PostInit /\ Engine!FeInit /\ Mtr!MtrInit
  /\ Keys!InInit /\ (focus # "keys" => lirc.repeat_emu /\ lirc.gui_hotkeys)
  /\ Crop!CropInit /\ (focus # "crop" => crop.autodetect /\ crop.subs_detect /\ crop.soft_start)
  /\ Gl!GlInit
  /\ Hud!HudInit /\ (focus # "hud" => hud.xshape)
  /\ Packed!RleInit

Step ==
  \/ focus = "buffers" /\ BufNext
  \/ focus = "clock" /\ ClockNext
  \/ focus = "osd" /\ Osd!OcNext
  \/ focus = "playback" /\ Playback!IpNext
  \/ focus = "ts" /\ Ts!TsNext
  \/ focus = "scr" /\ ScrNext
  \/ focus = "net" /\ Net!NetNext
  \/ focus = "post" /\ Post!PostNext
  \/ focus = "engine" /\ Engine!FeNext
  \/ focus = "metronom" /\ Mtr!MtrNext
  \/ focus = "keys" /\ Keys!InNext
  \/ focus = "crop" /\ Crop!CropNext
  \/ focus = "gl" /\ Gl!GlNext
  \/ focus = "hud" /\ Hud!HudNext
  \/ focus = "rle" /\ Packed!RleNext

OthersStay ==
  /\ UNCHANGED focus
  /\ focus # "buffers" => UNCHANGED bufVars
  /\ focus # "clock" => UNCHANGED clockVars
  /\ focus # "osd" => UNCHANGED osdVars
  /\ focus # "playback" => UNCHANGED playbackVars
  /\ focus # "ts" => UNCHANGED tsVars
  /\ focus # "scr" => UNCHANGED scrVars
  /\ focus # "net" => UNCHANGED netVars
  /\ focus # "post" => UNCHANGED postVars
  /\ focus # "engine" => UNCHANGED engineVars
  /\ focus # "metronom" => UNCHANGED mtrVars
  /\ focus # "keys" => UNCHANGED keysVars
  /\ focus # "crop" => UNCHANGED cropVars
  /\ focus # "gl" => UNCHANGED glVars
  /\ focus # "hud" => UNCHANGED hudVars
  /\ focus # "rle" => UNCHANGED rleVars

\* Bounded or ended: these may stop; the others may not deadlock.
Stopped == focus \in {"buffers", "osd", "playback", "crop", "gl", "hud", "rle"} /\ UNCHANGED vars

Next == (Step /\ OthersStay) \/ Stopped

\* The threads of the connection and the drawing thread go on when they can.
NetGoesOn == focus = "net" /\ Net!NetSteps /\ OthersStay
GlGoesOn == focus = "gl" /\ Gl!GlThread /\ OthersStay

Spec == Init /\ [][Next]_vars /\ WF_vars(NetGoesOn) /\ WF_vars(GlGoesOn)
-----------------------------------------------------------------------------
OsdSizes == {<<4, 1>>, <<3, 1>>, <<2, 2>>, <<1, 4>>}
VideoSizes == {<<1, 1>>, <<3, 3>>, <<6, 6>>, <<4, 5>>, <<3, 2>>}

(* Type invariant.                                                          *)
ClientTypeOK ==
  /\ BufTypeOK /\ ClockTypeOK /\ Osd!OcTypeOK /\ Playback!IpTypeOK /\ Ts!TsTypeOK
  /\ ScrTypeOK /\ Net!NetTypeOK /\ Post!PostTypeOK /\ Engine!FeTypeOK /\ Mtr!MtrTypeOK
  /\ Keys!InTypeOK /\ Crop!CropTypeOK /\ Gl!GlTypeOK /\ Hud!HudTypeOK
  /\ Packed!RleTypeOK

(* What is put out is what was asked for: no overlay scaled for another     *)
(* output, a crop within the frame, nothing left of a hidden OSD; and the   *)
(* engine's objects are disposed of once (osd_manager.c, vo_osdscaler.c,    *)
(* xine_post_autocrop.c, xine_sxfe_frontend.c, xine_frontend.c).            *)
OutputKept ==
  Osd!NoStaleScale /\ Crop!CropsWithin /\ Hud!HiddenShowsNothing /\ Engine!OwnedOnce

(* Pictures of the OSD are put out as VDR has drawn them, and frames pass   *)
(* the plugins that are enabled (rle.c, post.c).                            *)
PicturesKept == Packed!ShownAsDrawn /\ Packed!ScaledInOrder /\ Post!WiredAsEnabled

(* The input plugin's threads agree on the modes, control messages find a   *)
(* buffer, the transport the server sends on is the one the client reads,   *)
(* one remote key is held at a time, and STILLFRAME and STREAMPOS see the   *)
(* last frame of their stream (xine_input_vdr.c, xvdr_metronom.c,           *)
(* xine_frontend_lirc.c).                                                   *)
InputKept ==
  /\ Playback!ModesAgree /\ ControlHasRoom /\ Net!TransportAgrees
  /\ Keys!OneKeyHeld /\ Mtr!LastPtsCurrent

(* Decoders get whole frames, and audio and video one base of time, over    *)
(* changes of the tracks, seeks and a wrap (ts2es.c, demux_xvdr.c).         *)
StreamWhole == Ts!FramesWhole /\ OneBase

(* The clock neither jumps nor runs back, and the crop leaves subtitles     *)
(* alone that it has made room for (adjustable_scr.c, xine_post_autocrop.c).*)
SteadyOutput == ClockSteady /\ Crop!SubtitlesKept

(* A frontend told to end ends, and every frame xine puts out through       *)
(* OpenGL is let through (xine_frontend_main.c, opengl_frame_output_cb()):  *)
(* TermEnds of NetConnect and FrameServed of OpenglOsd in one formula.      *)
Progress ==
  \/ focus = "net" /\ fe.signal = "TERM"
  \/ focus = "gl" /\ out.requested
  ~>
  \/ focus = "net" /\ (fe.at = "exit" \/ fe.signal = "HUP")
  \/ focus = "gl" /\ ~out.requested
=============================================================================
