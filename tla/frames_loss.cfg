CONSTANTS
  Nal <- Units
  Block = 6
  PesRest = 1
  PesWide = 10
  RecvMax = 24
  MaxNal = 4
  MaxFaults = 2
SPECIFICATION Spec
INVARIANTS TypeOK FramesArriveWhole UndisturbedFrameArrives
CHECK_DEADLOCK FALSE
