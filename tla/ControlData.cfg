SPECIFICATION ControlSpec
CONSTANTS
  CmsgBuf = 1024
  MaxControl = 512
  Controls = {0, 12, 600}
  Lengths = {16, 28}
  Digits = {3, 10}
INVARIANT
  GuardsEveryPiece
CHECK_DEADLOCK FALSE
