\* A ring of 16 numbers that wraps after two frames; a network that
\* may lose two packets (frames, repeated frames or MISSING reports), and where
\* a packet may overtake one other.
CONSTANTS
  SeqSize = 16
  PadLen = 1
  FrameLen = 1
  CtrlLen = 2
  ResendRange = 4
  ResendSpan = 4
  MaxReq = 4
  StartSeq = 14
  MaxFrames = 7
  MaxLoss = 2
  MaxNet = 4
  Reorder = 1
SPECIFICATION Spec
INVARIANTS TypeOK QueuedCount NothingBehind
PROPERTY InOrder
\* The model stops when its bounds on frames and losses are used up.
CHECK_DEADLOCK FALSE
