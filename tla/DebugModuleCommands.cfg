\* Two harts, every abstract command, disciplined debugger.
SPECIFICATION DisciplinedSpec
CONSTANTS
  NProcs = 2
  Groups = {0}
  Commands = {"access", "custom", "badreg"}
  DmcontrolWrites <- MCRunControlAndReset
  HartMasks <- MCNone
  AvailabilityWrites <- MCNone
  AutoexecWrites = {TRUE}
  SupportHasel = FALSE
  SupportHaltgroups = FALSE
  RequireAuth = TRUE
  AbstractRti = 1
INVARIANTS OneCommandAtATime BusyIsServed
PROPERTIES StartsOnlyWhenClean BusyUntilCompleted CommandProtocol
