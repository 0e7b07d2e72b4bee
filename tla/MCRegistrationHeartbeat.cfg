SPECIFICATION Spec
CONSTANTS
  Node <- MCTwo
  MaxConns = 3
  MaxSends = 1
INVARIANTS
  HeartbeatsFindNode
CHECK_DEADLOCK FALSE
