\* A client that lets more answers be open than fit in the socket.
SPECIFICATION Spec
CONSTANTS
  BufSize = 2
  WireSize = 2
  Commands = {"other", "R"}
  OutSize = 2
  MaxOutstanding = 3
INVARIANTS AnswersMatch
CHECK_DEADLOCK FALSE
