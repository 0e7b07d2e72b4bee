\* The loop, its heartbeat and a third coroutine; two connections.
CONSTANTS
  Loop = loop
  beat = beat
  other = other
  Caller = {loop, beat, other}
  None = None
  MaxConn = 2
  MaxFailures = 1
SPECIFICATION Spec
INVARIANTS
  AnswersMatch
PROPERTIES
  CallsEnd
  RegistersAgain
