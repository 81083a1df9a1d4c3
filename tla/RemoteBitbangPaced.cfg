\* A client that lets no more answers be open than fit in the socket.
SPECIFICATION Spec
CONSTANTS
  BufSize = 2
  WireSize = 2
  Commands = {"rti", "other", "R", "Q"}
  OutSize = 2
  MaxOutstanding = 2
INVARIANTS CommandsInOrder AnswersMatch AbortOnlyOnHangUp
PROPERTIES TickEnds CommandsRun
CHECK_DEADLOCK FALSE
