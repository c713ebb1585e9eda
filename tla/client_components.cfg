SPECIFICATION Spec
CONSTANTS
  \* InputBuffers
  PoolSize = 6
  HdSize = 7
  RadioMax = 2
  Reserve = 3
  BufRemote = FALSE
  \* DemuxClock
  PtsMax = 12
  WrapThreshold = 3
  GopWindow = 3
  AudioHigh = 7
  VideoLow = 5
  MaxLead = 2
  MaxBack = 2
  MaxPos = 16
  \* OsdClient
  Wnds = {w1, w2}
  Pictures = {1}
  \* InputPlayback
  PlayRemote = TRUE
  \* TsConverter
  AudioTracks = 2
  BufferPackets = 1
  MaxUnit = 2
  \* AdjustableScr
  ScrFactors = {1, 2}
  MaxNow = 3
  MaxJumps = 1
  \* NetConnect
  Mrls = {"pipe", "rtp", "udp", "tcp"}
  Reconnects = {TRUE, FALSE}
  RtpTries = 2
  UdpTries = 2
  MaxSessions = 1
  MaxSignals = 2
  \* PostChain
  VideoPosts = {"denoise", "autocrop"}
  AudioPosts = {"upmix"}
  VisPosts = {"goom", "oscope"}
  Statics = {"denoise"}
  \* XineFrontend
  MaxPlugins = 2
  \* Metronom
  FramePts = {0, 1, 2}
  MaxFrames = 2
  MaxMetronoms = 2
  \* FrontendInput
  LircKeys = {"Ok", "Fullscreen"}
  HotKeys = {"Fullscreen"}
  RepeatDelay = 4
  RepeatTimeout = 5
  MaxCount = 1
  \* Autocrop
  Heights = {32, 16}
  Tops = {0}
  Bottoms = {32, 26}
  SmallBar = 1
  Near = 1
  SoftStep = 8
  StabilizeTime = 2
  SubsLifetime = 2
  SubsStabilizeTime = 1
  MaxAhead = 1
  \* OpenglOsd
  OpenglAlways = FALSE
  AlphaSteps = 5
  MaxMoves = 2
  MaxBehind = 2
  \* HudOsd
  Areas = {1, 2}
  HudMax = 2
  HudSizes = {1, 2, 3}
  \* Rle
  Byte = 8
  Pixels = {0, 1, 2, 3}
  PictureSizes <- OsdSizes
  ScaledSizes <- VideoSizes
INVARIANTS
  ClientTypeOK
  OutputKept
  PicturesKept
  InputKept
  StreamWhole
PROPERTIES
  SteadyOutput
  Progress
