\* Two sockets, a ring of four slots; queue limits two (master) and three.
CONSTANTS
  SeqSize = 4
  PadLen = 1
  Fds = {s1, s2}
  NoFd = NoFd
  MaxHandles = 2
  MaxQueue = 2
  MaxLiveQueue = 3
  PadThreshold = 1
  FrameLen = 1
  MaxPos = 1
SPECIFICATION Spec
INVARIANTS TypeOK NumberingConsistent FrameInFlightIntact HandlesDense
PROPERTIES ImplementsFrameQueue EveryFrameLeaves
\* A paused clock can stop every thread: see udp_removal.cfg.
CHECK_DEADLOCK FALSE
