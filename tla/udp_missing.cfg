\* As udp_link.cfg, on an in-order network: what a MISSING report means after the numbers wrap.

CONSTANTS
  SeqSize = 16
  PadLen = 1
  FrameLen = 1
  CtrlLen = 2
  ResendRange = 4
  ResendSpan = 4
  MaxReq = 4
  StartSeq = 14
  MaxFrames = 7
  MaxLoss = 2
  MaxNet = 4
  Reorder = 0
SPECIFICATION Spec
INVARIANT MissingUnderstood
\* The model stops when its bounds on frames and losses are used up.
CHECK_DEADLOCK FALSE
