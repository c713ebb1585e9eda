SPECIFICATION Spec
CONSTANTS
  \* ServerClients
  Clients <- Slots
  Fds <- FdNumbers
  MaxConnects = 2
  Lines = {"EOF", "PIPE", "RTP", "UDP", "DATA", "OSD", "CONFIG", "GRAB",
           "GET /PLAYFILE", "OPTIONS", "PLAY"}
  UseRtp = TRUE
  RtpAlwaysOn = FALSE
  \* Device
  AudioPackets = 2
  TsPackets = 3
  DevSpeeds <- TrickSpeeds
  DevFree = 1
  \* OsdProvider
  Osds = {a, b}
  Handles <- WindowHandles
  MaxAreas = 2
  \* Playlist, PlayerControl
  Items <- Files
  PlsNone = 0
  MayRelaunch = FALSE
  \* HttpStreamer
  FileSize = 3
  MaxStreamers = 2
  WaitSeconds = 2
  \* SetupMenus
  Edited = {"compression", "equalizer", "deinterlace", "surround", "upmix", "picture",
            "aspect", "buffers", "remote", "alpha", "extsub", "osd_auto"}
  \* UdpPacer
  PtsWrap = 12
  Stamps = {2, 4, 11}
  FrameKinds = {"video", "audio", "pcr"}
  JumpLimit = 3
  Burst = 1
  MinDelay = 1
  Multipliers = {1, 2}
  MaxElapsed = 3
INVARIANTS
  ServerTypeOK
  ConnectionsAccounted
  DeviceKept
  PlaybackKept
  SettingsPlayed
