\* Any use of the UART, another device, set-up at any time, one handler.
SPECIFICATION WiredSpec
CONSTANTS
  NContexts = 1
  NDev = 2
  MaxPrio = 1
  Owner <- MCOwner
  QueueSize = 2
  MaxBackoff = 2
  LcrWrites <- MCLcr
INVARIANTS LineMatchesContext LevelTriggered ByteInterrupts
PROPERTIES ByteIsServed
