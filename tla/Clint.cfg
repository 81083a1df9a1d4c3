\* One hart with M, HS, VS and their user modes, its timer and one IPI.
SPECIFICATION Spec
CONSTANTS
  Boots <- MCBoots
  Exceptions = {"ecall"}
  MaxNest = 1
  TimeWrap = 2
INVARIANTS TimerCurrent
PROPERTIES InterruptsObeyDelegation TrapsGoUp ReturnResumes IpiServed WaitEnds
