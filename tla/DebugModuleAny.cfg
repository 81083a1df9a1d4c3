\* Two harts, any debugger: halt groups, masks, availability, resets.
SPECIFICATION Spec
CONSTANTS
  NProcs = 2
  Groups = {0, 1}
  Commands = {"custom"}
  DmcontrolWrites <- MCMaskedRunControl
  HartMasks <- MCTwoMasks
  AvailabilityWrites <- MCAvailability
  AutoexecWrites = {}
  SupportHasel = TRUE
  SupportHaltgroups = TRUE
  RequireAuth = TRUE
  AbstractRti = 0
INVARIANTS HaltedTracksHart NoAckWhileResumePending
PROPERTIES GroupHaltSpreads HaltRequestKept
