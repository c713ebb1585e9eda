SPECIFICATION SxSpec
CONSTANTS
  Widths = {1}
  ScreenWidth = 2
  Places = {1}
  MaxEvents = 1
INVARIANTS
  SxTypeOK
  WindowAgrees
