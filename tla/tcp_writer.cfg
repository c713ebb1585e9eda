\* Three frames of four bytes (two without header) through a buffer that holds two.
CONSTANTS
  HeaderLen = 2
  RawMargin = 2
  Size = 8
  MaxOverflows = 0
  Lengths = {2}
  MaxFrames = 3
  MaxClears = 2
SPECIFICATION Spec
INVARIANTS TypeOK WholeFrames OnlyClearedDropped
PROPERTIES FramesMove ControlPushed
\* The thread ends when the connection is closed.
CHECK_DEADLOCK FALSE
