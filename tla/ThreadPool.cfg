CONSTANTS
  N = 3
  Requests <- MCRequests
  Shapes <- MCShapes
  Chunks = 8
  MaxGraphs = 2
SPECIFICATION Spec
INVARIANTS TypeOK PhasesAgree EachChunkOnce QuietPool
PROPERTIES FreeReturns GraphComputeSpec
CHECK_DEADLOCK FALSE
