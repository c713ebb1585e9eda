\* One client, replay: can a removal that has begun be held up for ever?
CONSTANTS
  SeqSize = 4
  PadLen = 1
  Fds = {s1}
  NoFd = NoFd
  MaxHandles = 1
  MaxQueue = 2
  MaxLiveQueue = 3
  PadThreshold = 1
  FrameLen = 1
  MaxPos = 1
SPECIFICATION Spec
PROPERTY RemovalCompletes
CHECK_DEADLOCK FALSE
