SPECIFICATION Spec
CONSTANTS
  Node <- MCThree
  MaxConns = 3
  MaxSends = 1
INVARIANTS
  ReportsFindNode
  OneLoopPerPair
CONSTRAINT TwoWhileSending
CHECK_DEADLOCK FALSE
