------------------------ MODULE DebugModule_proofs ------------------------
(***************************************************************************)
(* What holds of the debug module for every number of harts, every set of  *)
(* debugger inputs and every configuration.                                *)
(***************************************************************************)
EXTENDS DebugModule, TLAPS

\* The values a debugger writes to dmcontrol select an existing hart.
LEMMA ClampedHartselIsHart ==
  ASSUME NEW w \in DmcontrolWrites
  PROVE  ClampedHartsel(w.hartsel) \in Harts
<1>1. w.hartsel \in Nat
  BY ConfigAssumption DEF DmcontrolValues
<1>2. NProcs \in Nat /\ NProcs # 0
  BY ConfigAssumption
<1>. QED
  BY <1>1, <1>2 DEF ClampedHartsel, Harts

\* cmderr &= ~mask keeps cmderr an error code of cmderr_t.
LEMMA ClearedBitsAreErrors ==
  ASSUME NEW e \in CmdErrs
  PROVE  WithBitsCleared(e) \subseteq CmdErrs
BY DEF CmdErrs, WithBitsCleared, ErrNone, ErrBusy, ErrNotsup, ErrException,
       ErrHaltresume

\* The disciplined debugger is one of the debuggers of Next.
LEMMA DisciplinedNextIsNext == DisciplinedNext => Next
BY DEF DisciplinedNext, Next

\* perform_abstract_command keeps the types of what it changes.
LEMMA PerformType ==
  ASSUME TypeOK, NEW c \in Commands, perform_abstract_command(c)
  PROVE  /\ cmderr' \in CmdErrs
         /\ go' \in [Harts -> BOOLEAN]
         /\ rti_remaining' \in 0 .. AbstractRti
         /\ abstract_command_completed' \in BOOLEAN
         /\ busy' \in BOOLEAN
<1>1. cmderr' \in CmdErrs
  BY DEF TypeOK, perform_abstract_command, CommandError, CmdErrs, ErrNone,
         ErrBusy, ErrNotsup, ErrHaltresume
<1>2. CASE StartsOnHart(c)
  <2>1. AbstractRti \in 0 .. AbstractRti
    BY ConfigAssumption
  <2>. QED
    BY <1>1, <1>2, <2>1 DEF TypeOK, perform_abstract_command
<1>3. CASE ~StartsOnHart(c)
  BY <1>1, <1>3 DEF TypeOK, perform_abstract_command
<1>. QED
  BY <1>2, <1>3

\* TypeOK: the hart steps.
LEMMA HartStepType ==
  ASSUME TypeOK, NEW h \in Harts, HartStep(h)
  PROVE  TypeOK'
<1>. USE DEF TypeOK, debuggerVars, hartVars, flagVars, controlVars,
             selectionVars, RomPlaces
<1>1. CASE TakeHaltRequest(h)
  BY <1>1 DEF TakeHaltRequest
<1>2. CASE HaltByItself(h)
  BY <1>2 DEF HaltByItself
<1>3. CASE StoreHalted(h)
  BY <1>3 DEF StoreHalted
<1>4. CASE LoadGo(h)
  BY <1>4 DEF LoadGo, Goes
<1>5. CASE LoadResume(h)
  BY <1>5 DEF LoadResume
<1>6. CASE StoreGoing(h)
  BY <1>6 DEF StoreGoing
<1>7. CASE LeaveAbstract(h)
  BY <1>7 DEF LeaveAbstract
<1>8. CASE StoreException(h)
  BY <1>8 DEF StoreException, CmdErrs, ErrException
<1>9. CASE StoreResuming(h)
  BY <1>9 DEF StoreResuming
<1>10. CASE Dret(h)
  BY <1>10 DEF Dret
<1>. QED
  BY <1>1, <1>2, <1>3, <1>4, <1>5, <1>6, <1>7, <1>8, <1>9, <1>10 DEF HartStep

\* TypeOK: the accesses to the abstract command registers.
LEMMA CommandAccessType ==
  ASSUME TypeOK, CommandAccess
  PROVE  TypeOK'
<1>. USE DEF hartVars, flagVars, controlVars, selectionVars
<1>1. CASE WriteCommand
  <2>1. PICK c \in Commands : command' = c /\ perform_abstract_command(c)
    BY <1>1 DEF WriteCommand
  <2>. QED
    BY <2>1, PerformType DEF TypeOK, perform_abstract_command
<1>2. ASSUME NEW isWrite \in BOOLEAN, AccessData(isWrite)
      PROVE  TypeOK'
  <2>1. CASE busy
    BY <1>2, <2>1 DEF TypeOK, AccessData, CmdErrs, ErrBusy
  <2>2. CASE ~busy
    BY <1>2, <2>2, PerformType DEF TypeOK, AccessData, perform_abstract_command
  <2>. QED
    BY <2>1, <2>2
<1>3. CASE WriteAbstractcs
  BY <1>3, ClearedBitsAreErrors DEF TypeOK, WriteAbstractcs
<1>4. CASE WriteAbstractauto
  BY <1>4, ConfigAssumption DEF TypeOK, WriteAbstractauto
<1>5. CASE run_test_idle
  <2>1. RtiLeft \in 0 .. AbstractRti
    BY ConfigAssumption DEF TypeOK, RtiLeft
  <2>. QED
    BY <1>5, <2>1 DEF TypeOK, run_test_idle
<1>. QED
  BY <1>1, <1>2, <1>3, <1>4, <1>5 DEF CommandAccess

\* TypeOK: hart array mask, authentication, halt groups and availability.
LEMMA ControlAccessType ==
  ASSUME TypeOK, ControlAccess
  PROVE  TypeOK'
<1>. USE ConfigAssumption DEF TypeOK, hartVars, flagVars, controlVars,
         selectionVars, commandVars
<1>1. CASE WriteHawindow
  BY <1>1 DEF WriteHawindow
<1>2. CASE WriteAuthdata
  BY <1>2 DEF WriteAuthdata
<1>3. CASE WriteDmcs2
  BY <1>3 DEF WriteDmcs2
<1>4. CASE WriteCustom
  BY <1>4 DEF WriteCustom
<1>. QED
  BY <1>1, <1>2, <1>3, <1>4 DEF ControlAccess

\* TypeOK: dmcontrol.
LEMMA WriteDmcontrolType ==
  ASSUME TypeOK, NEW w \in DmcontrolWrites, WriteDmcontrol(w)
  PROVE  TypeOK'
<1>. USE ConfigAssumption DEF hartVars, flagVars, controlVars, selectionVars,
         commandVars
<1>1. w.dmactive \in BOOLEAN /\ w.hasel \in BOOLEAN
  BY DEF DmcontrolValues
<1>2. 0 \in Harts
  BY DEF Harts
<1>3. CASE WriteDmcontrolActivateOnly(w)
  BY <1>2, <1>3 DEF TypeOK, WriteDmcontrolActivateOnly, reset, ResetRegisters,
     SurvivesReset, CmdErrs
<1>4. CASE WriteDmcontrolEarlyReturn(w)
  BY <1>1, <1>4 DEF TypeOK, WriteDmcontrolEarlyReturn
<1>5. CASE WriteDmcontrolFull(w)
  <2>1. /\ hartsel' \in Harts /\ hasel' \in BOOLEAN
        /\ halt_request' \in [Harts -> {"none", "regular", "group"}]
        /\ resume' \in [Harts -> BOOLEAN]
        /\ resumeack' \in [Harts -> BOOLEAN]
        /\ havereset' \in [Harts -> BOOLEAN]
        /\ halted' \in [Harts -> BOOLEAN]
        /\ haltgroup' \in [Harts -> Groups]
        /\ pc' \in [Harts -> RomPlaces \cup {"run"}]
    BY <1>1, <1>5, ClampedHartselIsHart
       DEF TypeOK, WriteDmcontrolFull, ApplyDmcontrol, HaltedAfter,
       HaltRequestsAfter, AcksLost
  <2>2. /\ dmactive' \in BOOLEAN /\ authenticated' \in BOOLEAN
        /\ busy' \in BOOLEAN /\ cmderr' \in CmdErrs /\ autoexec' \in BOOLEAN
    BY <1>5 DEF TypeOK, WriteDmcontrolFull, ResetRegisters, CmdErrs
  <2>3. UNCHANGED <<hart_array_mask, available, go, abstract_command_completed,
                    rti_remaining, command>>
    BY <1>5 DEF WriteDmcontrolFull
  <2>. QED
    BY <2>1, <2>2, <2>3 DEF TypeOK
<1>. QED
  BY <1>3, <1>4, <1>5 DEF WriteDmcontrol

\* Every state of the debug module is well typed.
THEOREM Typing == Spec => []TypeOK
<1>1. Init => TypeOK
  <2>1. 0 \in Harts /\ 0 \in 0 .. AbstractRti /\ 0 \in Groups
    BY ConfigAssumption DEF Harts
  <2>2. Init => authenticated \in BOOLEAN
    BY ConfigAssumption DEF Init
  <2>3. Init => command \in Commands /\ abstract_command_completed \in BOOLEAN
    BY DEF Init
  <2>4. Init => /\ halted \in [Harts -> BOOLEAN]
                /\ resumeack \in [Harts -> BOOLEAN]
                /\ havereset \in [Harts -> BOOLEAN]
                /\ haltgroup \in [Harts -> Groups]
                /\ go \in [Harts -> BOOLEAN]
                /\ resume \in [Harts -> BOOLEAN]
                /\ halt_request \in [Harts -> {"none", "regular", "group"}]
                /\ pc \in [Harts -> RomPlaces \cup {"run"}]
    BY <2>1 DEF Init
  <2>5. Init => /\ dmactive \in BOOLEAN /\ hartsel \in Harts
                /\ hasel \in BOOLEAN
                /\ hart_array_mask \in [Harts -> BOOLEAN]
                /\ available \in [AvailabilityIds -> BOOLEAN]
                /\ busy \in BOOLEAN /\ cmderr \in CmdErrs
                /\ rti_remaining \in 0 .. AbstractRti
                /\ autoexec \in BOOLEAN
    BY <2>1 DEF Init, CmdErrs
  <2>. QED
    BY <2>2, <2>3, <2>4, <2>5 DEF TypeOK
<1>2. TypeOK /\ [Next]_vars => TypeOK'
  <2>1. CASE Next
    BY <2>1, HartStepType, CommandAccessType, ControlAccessType,
       WriteDmcontrolType DEF Next
  <2>2. CASE UNCHANGED vars
    BY <2>2 DEF TypeOK, vars, selectionVars, controlVars, hartVars, flagVars,
       commandVars
  <2>. QED
    BY <2>1, <2>2
<1>. QED
  BY <1>1, <1>2, PTL DEF Spec

----------------------------------------------------------------------------
\* An access to the command registers leaves the harts, and the module's
\* picture of them, alone.
LEMMA CommandAccessFrame ==
  ASSUME CommandAccess
  PROVE  UNCHANGED <<halted, resumeack, resume, pc, hartsel, halt_request>>
BY DEF CommandAccess, WriteCommand, AccessData, WriteAbstractcs,
       WriteAbstractauto, run_test_idle, perform_abstract_command, hartVars,
       flagVars, selectionVars

\* The other registers but dmcontrol leave alone all that run control and
\* commands are made of.
LEMMA ControlAccessFrame ==
  ASSUME ControlAccess
  PROVE  UNCHANGED <<halted, resumeack, go, resume, pc, hartsel, busy, cmderr,
                     abstract_command_completed, halt_request>>
BY DEF ControlAccess, WriteHawindow, WriteAuthdata, WriteDmcs2, WriteCustom,
       hartVars, flagVars, selectionVars, commandVars

\* The module's picture of a hart agrees with the hart (hart_state.halted).
THEOREM HaltedAgrees == Spec => []HaltedTracksHart
<1>1. Init => HaltedTracksHart
  BY DEF Init, HaltedTracksHart
<1>2. TypeOK /\ HaltedTracksHart /\ [Next]_vars => HaltedTracksHart'
  <2>. SUFFICES ASSUME TypeOK, HaltedTracksHart, [Next]_vars
                PROVE  HaltedTracksHart'
    OBVIOUS
  <2>. USE DEF HaltedTracksHart, TypeOK
  <2>1. ASSUME NEW h \in Harts, HartStep(h)
        PROVE  HaltedTracksHart'
    <3>. USE DEF hartVars, DebugMode
    <3>1. CASE TakeHaltRequest(h)
      BY <3>1 DEF TakeHaltRequest
    <3>2. CASE HaltByItself(h)
      BY <3>2 DEF HaltByItself
    <3>3. CASE StoreHalted(h)
      BY <3>3 DEF StoreHalted
    <3>4. CASE LoadGo(h)
      BY <3>4 DEF LoadGo, Goes
    <3>5. CASE LoadResume(h)
      BY <3>5 DEF LoadResume
    <3>6. CASE StoreGoing(h)
      BY <3>6 DEF StoreGoing
    <3>7. CASE LeaveAbstract(h)
      BY <3>7 DEF LeaveAbstract
    <3>8. CASE StoreException(h)
      BY <3>8 DEF StoreException
    <3>9. CASE StoreResuming(h)
      BY <3>9 DEF StoreResuming
    <3>10. CASE Dret(h)
      BY <3>10 DEF Dret
    <3>. QED
      BY <2>1, <3>1, <3>2, <3>3, <3>4, <3>5, <3>6, <3>7, <3>8, <3>9, <3>10
         DEF HartStep
  <2>2. CASE CommandAccess
    BY <2>2, CommandAccessFrame
  <2>3. CASE ControlAccess
    BY <2>3, ControlAccessFrame
  <2>4. ASSUME NEW w \in DmcontrolWrites, WriteDmcontrol(w)
        PROVE  HaltedTracksHart'
    <3>1. CASE WriteDmcontrolActivateOnly(w)
      BY <3>1 DEF WriteDmcontrolActivateOnly, SurvivesReset, hartVars
    <3>2. CASE WriteDmcontrolEarlyReturn(w)
      BY <3>2 DEF WriteDmcontrolEarlyReturn, hartVars
    <3>3. CASE WriteDmcontrolFull(w)
      BY <3>3 DEF WriteDmcontrolFull, ApplyDmcontrol, HaltedAfter,
       HaltRequestsAfter, AcksLost
    <3>. QED
      BY <2>4, <3>1, <3>2, <3>3 DEF WriteDmcontrol
  <2>5. CASE UNCHANGED vars
    BY <2>5 DEF vars, hartVars
  <2>. QED
    BY <2>1, <2>2, <2>3, <2>4, <2>5 DEF Next
<1>. QED
  BY <1>1, <1>2, Typing, PTL DEF Spec

\* A hart never acknowledges a resume it has still to make (resumeack against
\* the RESUME bit of debug_rom_flags).
THEOREM AckIsHonest == Spec => []NoAckWhileResumePending
<1>1. Init => NoAckWhileResumePending
  BY DEF Init, NoAckWhileResumePending
<1>2. TypeOK /\ NoAckWhileResumePending /\ [Next]_vars
      => NoAckWhileResumePending'
  <2>. SUFFICES ASSUME TypeOK, NoAckWhileResumePending, [Next]_vars
                PROVE  NoAckWhileResumePending'
    OBVIOUS
  <2>. USE DEF NoAckWhileResumePending, TypeOK
  <2>1. ASSUME NEW h \in Harts, HartStep(h)
        PROVE  NoAckWhileResumePending'
    <3>1. CASE StoreResuming(h)
      BY <3>1 DEF StoreResuming
    <3>2. CASE ~StoreResuming(h)
      <4>1. UNCHANGED <<resume, resumeack>>
        BY <2>1, <3>2 DEF HartStep, TakeHaltRequest, HaltByItself, StoreHalted,
           LoadGo, LoadResume, StoreGoing, LeaveAbstract, StoreException, Dret,
           hartVars, flagVars
      <4>. QED
        BY <4>1
    <3>. QED
      BY <3>1, <3>2
  <2>2. CASE CommandAccess
    BY <2>2, CommandAccessFrame
  <2>3. CASE ControlAccess
    BY <2>3, ControlAccessFrame
  <2>4. ASSUME NEW w \in DmcontrolWrites, WriteDmcontrol(w)
        PROVE  NoAckWhileResumePending'
    <3>1. CASE WriteDmcontrolActivateOnly(w)
      BY <3>1 DEF WriteDmcontrolActivateOnly, SurvivesReset, hartVars, flagVars
    <3>2. CASE WriteDmcontrolEarlyReturn(w)
      BY <3>2 DEF WriteDmcontrolEarlyReturn, hartVars, flagVars
    <3>3. CASE WriteDmcontrolFull(w)
      BY <3>3 DEF WriteDmcontrolFull, ApplyDmcontrol, HaltedAfter,
       HaltRequestsAfter, AcksLost
    <3>. QED
      BY <2>4, <3>1, <3>2, <3>3 DEF WriteDmcontrol
  <2>5. CASE UNCHANGED vars
    BY <2>5 DEF vars, hartVars, flagVars
  <2>. QED
    BY <2>1, <2>2, <2>3, <2>4, <2>5 DEF Next
<1>. QED
  BY <1>1, <1>2, Typing, PTL DEF Spec

----------------------------------------------------------------------------
(***************************************************************************)
(* Halt groups, halt requests and errors, for any debugger.                *)
(***************************************************************************)

\* A hart is seen halted for the first time in its HALTED store.
LEMMA HaltedRises ==
  ASSUME TypeOK, [Next]_vars, NEW h \in Harts, ~halted[h], halted'[h]
  PROVE  StoreHalted(h)
<1>. USE DEF TypeOK
<1>1. ASSUME NEW k \in Harts, HartStep(k)
      PROVE  StoreHalted(h)
  <2>1. CASE StoreHalted(k)
    BY <2>1 DEF StoreHalted
  <2>2. CASE StoreResuming(k)
    BY <2>2 DEF StoreResuming
  <2>3. CASE ~StoreHalted(k) /\ ~StoreResuming(k)
    BY <1>1, <2>3 DEF HartStep, TakeHaltRequest, HaltByItself, LoadGo, LoadResume,
       StoreGoing, LeaveAbstract, StoreException, Dret, hartVars
  <2>. QED
    BY <2>1, <2>2, <2>3
<1>2. ~CommandAccess /\ ~ControlAccess
  BY CommandAccessFrame, ControlAccessFrame
<1>3. ASSUME NEW w \in DmcontrolWrites, WriteDmcontrol(w)
      PROVE  FALSE
  BY <1>3 DEF WriteDmcontrol, WriteDmcontrolActivateOnly, SurvivesReset, hartVars,
     WriteDmcontrolEarlyReturn, WriteDmcontrolFull, ApplyDmcontrol, HaltedAfter
<1>4. ~UNCHANGED vars
  BY DEF vars, hartVars
<1>. QED
  BY <1>1, <1>2, <1>3, <1>4 DEF Next

\* A group halt reaches every available member: the store that shows the first
\* of them halted posts a request to all that are not (the loop over the
\* halt group in debug_module_t::store).
THEOREM GroupsHalt == Spec => GroupHaltSpreads
<1>1. ASSUME TypeOK, [Next]_vars
      PROVE  [\A h, k \in Harts :
                /\ ~halted[h] /\ halted'[h]
                /\ haltgroup[h] # 0 /\ haltgroup[k] = haltgroup[h]
                /\ hart_available(k)
                => halted'[k] \/ halt_request'[k] # "none"]_vars
  <2>. SUFFICES ASSUME NEW h \in Harts, NEW k \in Harts,
                       ~halted[h], halted'[h], haltgroup[h] # 0,
                       haltgroup[k] = haltgroup[h], hart_available(k),
                       ~halted'[k]
                PROVE  halt_request'[k] = "group"
    OBVIOUS
  <2>1. StoreHalted(h)
    BY <1>1, HaltedRises
  <2>2. k # h /\ ~halted[k]
    BY <2>1, <1>1 DEF StoreHalted, TypeOK
  <2>3. k \in HaltedAlong(h)
    BY <2>2 DEF HaltedAlong
  <2>. QED
    BY <2>1, <2>3 DEF StoreHalted
<1>. QED
  BY <1>1, Typing, PTL DEF Spec, GroupHaltSpreads

\* A posted halt request is dropped by two kinds of writes to dmcontrol only:
\* one that selects the hart, and one that activates the module.
THEOREM RequestsStay == Spec => HaltRequestKept
<1>1. ASSUME TypeOK, [Next]_vars
      PROVE  [\A h \in Harts :
                halt_request[h] # "none" /\ halt_request'[h] = "none"
                => hart_selected(h)' \/ (~dmactive /\ dmactive')]_vars
  <2>. SUFFICES ASSUME NEW h \in Harts,
                       halt_request[h] # "none", halt_request'[h] = "none"
                PROVE  hart_selected(h)' \/ (~dmactive /\ dmactive')
    OBVIOUS
  <2>. USE DEF TypeOK
  <2>1. ASSUME NEW k \in Harts, HartStep(k)
        PROVE  FALSE
    <3>1. CASE StoreHalted(k)
      BY <3>1 DEF StoreHalted
    <3>2. CASE ~StoreHalted(k)
      BY <2>1, <3>2 DEF HartStep, TakeHaltRequest, HaltByItself, LoadGo,
         LoadResume, StoreGoing, LeaveAbstract, StoreException, StoreResuming,
         Dret
    <3>. QED
      BY <3>1, <3>2
  <2>2. ~CommandAccess /\ ~ControlAccess
    BY CommandAccessFrame, ControlAccessFrame
  <2>3. ASSUME NEW w \in DmcontrolWrites, WriteDmcontrol(w)
        PROVE  hart_selected(h)' \/ (~dmactive /\ dmactive')
    <3>1. CASE WriteDmcontrolActivateOnly(w)
      BY <3>1 DEF WriteDmcontrolActivateOnly
    <3>2. CASE WriteDmcontrolEarlyReturn(w)
      BY <3>2 DEF WriteDmcontrolEarlyReturn
    <3>3. CASE WriteDmcontrolFull(w)
      <4>1. CASE h \in SelectedBy(w)
        BY <3>3, <4>1 DEF WriteDmcontrolFull, ApplyDmcontrol, SelectedBy,
           hart_selected, selected_hart_id
      <4>2. CASE h \notin SelectedBy(w)
        BY <3>3, <4>2 DEF WriteDmcontrolFull, ApplyDmcontrol, HaltRequestsAfter
      <4>. QED
        BY <4>1, <4>2
    <3>. QED
      BY <2>3, <3>1, <3>2, <3>3 DEF WriteDmcontrol
  <2>4. ~UNCHANGED vars
    BY DEF vars
  <2>. QED
    BY <1>1, <2>1, <2>2, <2>3, <2>4 DEF Next
<1>. QED
  BY <1>1, Typing, PTL DEF Spec, HaltRequestKept

\* A command is handed to a hart only while no other is busy and no error of
\* an earlier one is left, by a write of command as well as by autoexec.
THEOREM StartsAreClean == Spec => StartsOnlyWhenClean
<1>1. ASSUME TypeOK, [Next]_vars
      PROVE  [\A h \in Harts : ~go[h] /\ go'[h] => ~busy /\ cmderr = ErrNone]_vars
  <2>. SUFFICES ASSUME NEW h \in Harts, ~go[h], go'[h]
                PROVE  ~busy /\ cmderr = ErrNone
    OBVIOUS
  <2>. USE DEF TypeOK
  <2>1. ASSUME NEW k \in Harts, HartStep(k)
        PROVE  FALSE
    <3>1. CASE StoreGoing(k)
      BY <3>1 DEF StoreGoing
    <3>2. CASE ~StoreGoing(k)
      BY <2>1, <3>2 DEF HartStep, TakeHaltRequest, HaltByItself, LoadGo,
         LoadResume, StoreHalted, LeaveAbstract, StoreException, StoreResuming,
         Dret, flagVars
    <3>. QED
      BY <3>1, <3>2
  <2>2. ASSUME NEW c, perform_abstract_command(c)
        PROVE  ~busy /\ cmderr = ErrNone
    <3>1. StartsOnHart(c)
      BY <2>2 DEF perform_abstract_command
    <3>. QED
      BY <3>1 DEF StartsOnHart, CommandError, ErrNone, ErrBusy
  <2>3. CASE CommandAccess
    <3>1. CASE WriteCommand
      BY <2>2, <3>1 DEF WriteCommand
    <3>2. ASSUME NEW isWrite \in BOOLEAN, AccessData(isWrite)
          PROVE  ~busy /\ cmderr = ErrNone
      <4>1. CASE busy
        BY <3>2, <4>1 DEF AccessData, flagVars
      <4>2. CASE perform_abstract_command(command)
        BY <2>2, <4>2
      <4>. QED
        BY <3>2, <4>1, <4>2 DEF AccessData
    <3>3. CASE WriteAbstractcs \/ WriteAbstractauto \/ run_test_idle
      BY <3>3 DEF WriteAbstractcs, WriteAbstractauto, run_test_idle, flagVars
    <3>. QED
      BY <2>3, <3>1, <3>2, <3>3 DEF CommandAccess
  <2>4. ~ControlAccess
    BY ControlAccessFrame
  <2>5. ASSUME NEW w \in DmcontrolWrites, WriteDmcontrol(w)
        PROVE  FALSE
    BY <2>5 DEF WriteDmcontrol, WriteDmcontrolActivateOnly, SurvivesReset,
       WriteDmcontrolEarlyReturn, WriteDmcontrolFull, flagVars
  <2>6. ~UNCHANGED vars
    BY DEF vars, flagVars
  <2>. QED
    BY <1>1, <2>1, <2>3, <2>4, <2>5, <2>6 DEF Next
<1>. QED
  BY <1>1, Typing, PTL DEF Spec, StartsOnlyWhenClean

----------------------------------------------------------------------------
(***************************************************************************)
(* Abstract commands under the disciplined debugger. OneCommandAtATime is  *)
(* not inductive alone: a hart about to store GOING must be known to have  *)
(* its GO flag (FlagsCoverRom), and one inside the command to have none.   *)
(***************************************************************************)
TakenOnce == \A h \in Harts : Executing(h) => ~go[h]
CommandInv == /\ FlagsCoverRom /\ OneCommandAtATime /\ BusyIsServed
              /\ TakenOnce

LEMMA PerformKeepsCommandInv ==
  ASSUME TypeOK, CommandInv, NEW c \in Commands, perform_abstract_command(c)
  PROVE  CommandInv'
<1>. USE DEF CommandInv, FlagsCoverRom, OneCommandAtATime, BusyIsServed,
         TakenOnce, Executing, selected_hart_id, selectionVars, TypeOK
<1>1. CASE StartsOnHart(c)
  <2>1. ~busy
    BY <1>1 DEF StartsOnHart, CommandError, ErrBusy, ErrNone
  <2>. QED
    BY <1>1, <2>1 DEF perform_abstract_command
<1>2. CASE ~StartsOnHart(c)
  BY <1>2 DEF perform_abstract_command
<1>. QED
  BY <1>1, <1>2

LEMMA CommandAccessKeepsCommandInv ==
  ASSUME TypeOK, CommandInv, CommandAccess
  PROVE  CommandInv'
<1>1. CASE \E c \in Commands : perform_abstract_command(c)
  BY <1>1, PerformKeepsCommandInv
<1>2. CASE run_test_idle
  BY <1>2 DEF CommandInv, FlagsCoverRom, OneCommandAtATime, BusyIsServed,
     TakenOnce, Executing, selected_hart_id, selectionVars, flagVars, TypeOK,
     run_test_idle
<1>3. CASE UNCHANGED <<go, resume, pc, busy, hartsel,
                       abstract_command_completed>>
  BY <1>3 DEF CommandInv, FlagsCoverRom, OneCommandAtATime, BusyIsServed,
     TakenOnce, Executing, selected_hart_id
<1>. QED
  BY <1>1, <1>2, <1>3
     DEF CommandAccess, WriteCommand, AccessData, WriteAbstractcs,
         WriteAbstractauto, flagVars, selectionVars, TypeOK

LEMMA HartStepKeepsCommandInv ==
  ASSUME TypeOK, CommandInv, NEW h \in Harts, HartStep(h)
  PROVE  CommandInv'
<1>. USE DEF CommandInv, FlagsCoverRom, OneCommandAtATime, BusyIsServed,
         TakenOnce, Executing, selected_hart_id, selectionVars, debuggerVars, flagVars,
         TypeOK
<1>1. CASE TakeHaltRequest(h)
  BY <1>1 DEF TakeHaltRequest, DebugMode
<1>2. CASE HaltByItself(h)
  BY <1>2 DEF HaltByItself, DebugMode
<1>3. CASE StoreHalted(h)
  BY <1>3 DEF StoreHalted, CompletesCommand
<1>4. CASE LoadGo(h)
  BY <1>4 DEF LoadGo, Goes
<1>5. CASE LoadResume(h)
  BY <1>5 DEF LoadResume
<1>6. CASE StoreGoing(h)
  BY <1>6 DEF StoreGoing
<1>7. CASE LeaveAbstract(h)
  BY <1>7 DEF LeaveAbstract
<1>8. CASE StoreException(h)
  BY <1>8 DEF StoreException
<1>9. CASE StoreResuming(h)
  BY <1>9 DEF StoreResuming
<1>10. CASE Dret(h)
  BY <1>10 DEF Dret
<1>. QED
  BY <1>1, <1>2, <1>3, <1>4, <1>5, <1>6, <1>7, <1>8, <1>9, <1>10 DEF HartStep

LEMMA DmcontrolKeepsCommandInv ==
  ASSUME TypeOK, CommandInv, NEW w \in DmcontrolWrites, Disciplined(w),
         WriteDmcontrol(w)
  PROVE  CommandInv'
<1>. USE DEF CommandInv, FlagsCoverRom, OneCommandAtATime, BusyIsServed,
         TakenOnce, Executing, selected_hart_id, TypeOK, Disciplined
<1>1. CASE WriteDmcontrolActivateOnly(w)
  BY <1>1 DEF WriteDmcontrolActivateOnly, reset, ResetRegisters,
     SurvivesReset, flagVars
<1>2. CASE WriteDmcontrolEarlyReturn(w)
  BY <1>2 DEF WriteDmcontrolEarlyReturn, selectionVars, flagVars, commandVars
<1>3. CASE WriteDmcontrolFull(w)
  <2>1. CASE busy
    BY <1>3, <2>1 DEF WriteDmcontrolFull, ApplyDmcontrol, HartsReset, HaltedAfter
  <2>2. CASE ~busy
    BY <1>3, <2>2 DEF WriteDmcontrolFull, ApplyDmcontrol, ResetRegisters
  <2>. QED
    BY <2>1, <2>2
<1>. QED
  BY <1>1, <1>2, <1>3 DEF WriteDmcontrol

\* One step of the disciplined debugger and the harts keeps CommandInv.
LEMMA DisciplinedKeepsCommandInv ==
  ASSUME TypeOK, CommandInv, [DisciplinedNext]_vars
  PROVE  CommandInv'
<1>1. CASE ControlAccess
  BY <1>1, ControlAccessFrame DEF CommandInv, FlagsCoverRom,
     OneCommandAtATime, BusyIsServed, TakenOnce, Executing,
     selected_hart_id
<1>2. CASE UNCHANGED vars
  BY <1>2 DEF CommandInv, FlagsCoverRom, OneCommandAtATime, BusyIsServed,
     TakenOnce, Executing, selected_hart_id, vars, flagVars, selectionVars, commandVars
<1>. QED
  BY <1>1, <1>2, HartStepKeepsCommandInv, CommandAccessKeepsCommandInv,
     DmcontrolKeepsCommandInv DEF DisciplinedNext

\* Every state the disciplined debugger reaches is well typed.
LEMMA DisciplinedTyping == DisciplinedSpec => []TypeOK
<1>1. DisciplinedSpec => Spec
  <2>1. [DisciplinedNext]_vars => [Next]_vars
    BY DisciplinedNextIsNext
  <2>. QED
    BY <2>1, PTL DEF DisciplinedSpec, Spec
<1>. QED
  BY <1>1, Typing, PTL

LEMMA CommandInvariance == DisciplinedSpec => []CommandInv
<1>1. Init => CommandInv
  BY DEF Init, CommandInv, FlagsCoverRom, OneCommandAtATime, BusyIsServed,
     TakenOnce, Executing
<1>2. TypeOK /\ CommandInv /\ [DisciplinedNext]_vars => CommandInv'
  BY DisciplinedKeepsCommandInv
<1>. QED
  BY <1>1, <1>2, DisciplinedTyping, PTL DEF DisciplinedSpec

\* At most one hart has or runs a command; it is the selected one and the
\* module is busy with it.
THEOREM CommandsAreExclusive == DisciplinedSpec => []OneCommandAtATime
<1>1. CommandInv => OneCommandAtATime
  BY DEF CommandInv
<1>. QED
  BY <1>1, CommandInvariance, PTL

\* A busy module never waits for nobody.
THEOREM BusyHasServer == DisciplinedSpec => []BusyIsServed
<1>1. CommandInv => BusyIsServed
  BY DEF CommandInv
<1>. QED
  BY <1>1, CommandInvariance, PTL

\* busy falls only when no hart has or runs a command.
THEOREM BusyFallsLast == DisciplinedSpec => BusyUntilCompleted
<1>1. /\ TypeOK /\ CommandInv /\ [DisciplinedNext]_vars /\ busy /\ ~busy'
      => \A h \in Harts : ~go[h] /\ ~Executing(h)
  <2>. SUFFICES ASSUME TypeOK, CommandInv, [DisciplinedNext]_vars, busy,
                       ~busy'
                PROVE  abstract_command_completed
    BY DEF CommandInv, OneCommandAtATime
  <2>. USE DEF TypeOK
  <2>1. CASE CommandAccess
    BY <2>1 DEF CommandAccess, WriteCommand, AccessData, WriteAbstractcs,
       WriteAbstractauto, run_test_idle, perform_abstract_command
  <2>2. CASE ControlAccess
    BY <2>2, ControlAccessFrame
  <2>3. ASSUME NEW h \in Harts, HartStep(h)
        PROVE  FALSE
    BY <2>3 DEF HartStep, TakeHaltRequest, HaltByItself, StoreHalted, LoadGo,
       LoadResume, StoreGoing, LeaveAbstract, StoreException, StoreResuming,
       Dret, debuggerVars
  <2>4. ASSUME NEW w \in DmcontrolWrites, Disciplined(w), WriteDmcontrol(w)
        PROVE  FALSE
    BY <2>4 DEF Disciplined, WriteDmcontrol, WriteDmcontrolActivateOnly,
       WriteDmcontrolEarlyReturn, WriteDmcontrolFull, commandVars
  <2>5. CASE UNCHANGED vars
    BY <2>5 DEF vars, commandVars
  <2>. QED
    BY <2>1, <2>2, <2>3, <2>4, <2>5 DEF DisciplinedNext
<1>2. /\ TypeOK /\ CommandInv /\ [DisciplinedNext]_vars
      => [busy /\ ~busy' => \A h \in Harts : ~go[h] /\ ~Executing(h)]_vars
  BY <1>1
<1>. QED
  BY <1>2, DisciplinedTyping, CommandInvariance, PTL
     DEF DisciplinedSpec, BusyUntilCompleted

----------------------------------------------------------------------------
(***************************************************************************)
(* The module implements the promise of AbstractCommand.                   *)
(***************************************************************************)
runningHarts == {h \in Harts : Executing(h)}
commandState == <<commandPhase, selected_hart_id, runningHarts>>

\* Nobody runs a command unless the module waits for it to end.
LEMMA NoRunners ==
  ASSUME CommandInv, busy => abstract_command_completed
  PROVE  runningHarts = {}
BY DEF CommandInv, OneCommandAtATime, runningHarts

\* An access to the command registers posts, reports, or is invisible.
LEMMA CommandAccessImplements ==
  ASSUME TypeOK, CommandInv, CommandAccess
  PROVE  Command!Next \/ UNCHANGED commandState
<1>. USE DEF TypeOK, selected_hart_id
<1>1. UNCHANGED <<pc, hartsel>>
  BY CommandAccessFrame
<1>2. runningHarts' = runningHarts
  BY <1>1 DEF runningHarts, Executing
<1>3. ASSUME NEW c \in Commands, perform_abstract_command(c)
      PROVE  Command!Next \/ UNCHANGED commandState
  <2>1. CASE StartsOnHart(c)
    <3>1. ~busy
      BY <2>1 DEF StartsOnHart, CommandError, ErrBusy, ErrNone
    <3>2. commandPhase = "idle" /\ commandPhase' = "posted"
      BY <1>1, <1>3, <2>1, <3>1 DEF commandPhase, perform_abstract_command
    <3>. QED
      BY <1>1, <1>2, <3>2
         DEF Command!Next, Command!Post, runningHarts
  <2>2. CASE ~StartsOnHart(c)
    <3>1. commandPhase' = commandPhase
      BY <1>1, <1>3, <2>2 DEF commandPhase, perform_abstract_command
    <3>. QED
      BY <1>1, <1>2, <3>1 DEF commandState
  <2>. QED
    BY <2>1, <2>2
<1>4. CASE run_test_idle
  <2>1. CASE busy /\ ~busy'
    <3>1. abstract_command_completed
      BY <1>4, <2>1 DEF run_test_idle
    <3>2. commandPhase = "finished" /\ commandPhase' = "idle"
      BY <2>1, <3>1 DEF commandPhase
    <3>. QED
      BY <1>1, <1>2, <3>1, <3>2, NoRunners
         DEF Command!Next, Command!Report, runningHarts
  <2>2. CASE busy' = busy
    <3>1. commandPhase' = commandPhase
      BY <1>1, <1>4, <2>2 DEF commandPhase, run_test_idle, flagVars
    <3>. QED
      BY <1>1, <1>2, <3>1 DEF commandState
  <2>. QED
    BY <1>4, <2>1, <2>2 DEF run_test_idle
<1>5. CASE UNCHANGED <<go, busy, abstract_command_completed>>
  <2>1. commandPhase' = commandPhase
    BY <1>1, <1>5 DEF commandPhase
  <2>. QED
    BY <1>1, <1>2, <2>1 DEF commandState
<1>. QED
  BY <1>3, <1>4, <1>5
     DEF CommandAccess, WriteCommand, AccessData, WriteAbstractcs,
         WriteAbstractauto, flagVars

\* A hart takes, leaves or finishes a command, or its step is invisible.
LEMMA HartStepImplements ==
  ASSUME TypeOK, CommandInv, NEW h \in Harts, HartStep(h)
  PROVE  Command!Next \/ UNCHANGED commandState
<1>. USE DEF TypeOK, selected_hart_id, debuggerVars, selectionVars, flagVars
<1>1. busy' = busy /\ hartsel' = hartsel
  BY DEF HartStep, TakeHaltRequest, HaltByItself, StoreHalted, LoadGo,
     LoadResume, StoreGoing, LeaveAbstract, StoreException, StoreResuming,
     Dret
<1>2. CASE StoreHalted(h)
  <2>1. runningHarts' = runningHarts
    BY <1>2 DEF StoreHalted, runningHarts, Executing
  <2>2. CASE busy /\ ~abstract_command_completed /\ CompletesCommand(h)
    <3>1. commandPhase = "taken" /\ commandPhase' = "finished"
      <4>1. ~go[hartsel]
        BY <2>2 DEF CompletesCommand
      <4>2. abstract_command_completed' = TRUE
        BY <1>2, <2>2 DEF StoreHalted
      <4>. QED
        BY <1>1, <2>2, <4>1, <4>2 DEF commandPhase
    <3>2. h = hartsel /\ ~Executing(h)
      <4>1. pc[h] = "store_halted"
        BY <1>2 DEF StoreHalted
      <4>. QED
        BY <2>2, <4>1 DEF CompletesCommand, Executing
    <3>3. runningHarts = {}
      BY <3>2 DEF CommandInv, OneCommandAtATime, runningHarts
    <3>. QED
      BY <1>1, <2>1, <3>1, <3>3 DEF Command!Next, Command!Finish, runningHarts
  <2>3. CASE ~(busy /\ ~abstract_command_completed /\ CompletesCommand(h))
    <3>1. commandPhase' = commandPhase
      BY <1>1, <1>2, <2>3 DEF commandPhase, StoreHalted
    <3>. QED
      BY <1>1, <2>1, <3>1 DEF commandState
  <2>. QED
    BY <2>2, <2>3
<1>3. CASE StoreGoing(h)
  <2>1. h = hartsel /\ busy /\ ~abstract_command_completed /\ go[h]
    BY <1>3 DEF StoreGoing, CommandInv, FlagsCoverRom, OneCommandAtATime
  <2>2. commandPhase = "posted" /\ commandPhase' = "taken"
    BY <1>1, <1>3, <2>1 DEF commandPhase, StoreGoing
  <2>3. runningHarts = {} /\ runningHarts' = {h}
    BY <1>3, <2>1 DEF StoreGoing, CommandInv, OneCommandAtATime,
       runningHarts, Executing
  <2>. QED
    BY <1>1, <2>1, <2>2, <2>3 DEF Command!Next, Command!Take, runningHarts
<1>4. CASE (LeaveAbstract(h) \/ StoreException(h)) /\ pc'[h] = "store_halted"
  <2>1. Executing(h)
    BY <1>4 DEF LeaveAbstract, StoreException, Executing
  <2>2. h = hartsel /\ busy /\ ~abstract_command_completed /\ ~go[h]
    BY <2>1 DEF CommandInv, OneCommandAtATime, TakenOnce
  <2>3. commandPhase = "taken" /\ commandPhase' = "taken"
    BY <1>1, <1>4, <2>2 DEF commandPhase, LeaveAbstract, StoreException
  <2>4. runningHarts = {h}
    BY <2>1, <2>2 DEF runningHarts, CommandInv, OneCommandAtATime
  <2>5. runningHarts' = {}
    <3>1. \A k \in Harts : k # h => pc'[k] = pc[k]
      BY <1>4 DEF LeaveAbstract, StoreException
    <3>2. \A k \in Harts : ~Executing(k)'
      BY <1>4, <2>4, <3>1 DEF runningHarts, Executing
    <3>. QED
      BY <3>2 DEF runningHarts
  <2>. QED
    BY <1>1, <2>2, <2>3, <2>4, <2>5
       DEF Command!Next, Command!Leave, runningHarts
<1>5. CASE LeaveAbstract(h) /\ pc'[h] # "store_halted"
  BY <1>1, <1>5 DEF LeaveAbstract, commandState, commandPhase, runningHarts,
     Executing
<1>6. CASE StoreException(h)
  BY <1>4, <1>6 DEF StoreException
<1>7. CASE TakeHaltRequest(h) \/ HaltByItself(h)
  BY <1>1, <1>7 DEF TakeHaltRequest, HaltByItself, DebugMode, commandState,
     commandPhase, runningHarts, Executing
<1>8. CASE LoadGo(h) \/ LoadResume(h)
  BY <1>1, <1>8 DEF LoadGo, LoadResume, commandState, commandPhase,
     runningHarts, Executing
<1>9. CASE StoreResuming(h) \/ Dret(h)
  BY <1>1, <1>9 DEF StoreResuming, Dret, commandState, commandPhase,
     runningHarts, Executing
<1>. QED
  BY <1>2, <1>3, <1>4, <1>5, <1>6, <1>7, <1>8, <1>9 DEF HartStep

\* dmcontrol chooses a hart, or is invisible.
LEMMA DmcontrolImplements ==
  ASSUME TypeOK, TypeOK', CommandInv, CommandInv', NEW w \in DmcontrolWrites,
         Disciplined(w), WriteDmcontrol(w)
  PROVE  Command!Next \/ UNCHANGED commandState
<1>. USE DEF TypeOK, selected_hart_id
<1>1. CASE busy
  <2>1. CASE WriteDmcontrolEarlyReturn(w)
    BY <2>1 DEF WriteDmcontrolEarlyReturn, selectionVars, flagVars,
       commandVars, commandState, commandPhase, runningHarts, Executing
  <2>2. CASE WriteDmcontrolFull(w)
    <3>1. dmactive /\ HartsReset(w) = {} /\ hartsel' = hartsel
      BY <1>1, <2>2 DEF Disciplined, WriteDmcontrolFull, ApplyDmcontrol,
         HartsReset
    <3>2. \A h \in Harts : pc'[h] = pc[h]
      BY <2>2, <3>1 DEF WriteDmcontrolFull, ApplyDmcontrol, HaltedAfter,
       HaltRequestsAfter, AcksLost
    <3>3. UNCHANGED <<busy, go, abstract_command_completed>>
      BY <2>2, <3>1 DEF WriteDmcontrolFull
    <3>. QED
      BY <3>1, <3>2, <3>3 DEF commandState, commandPhase, runningHarts,
         Executing
  <2>. QED
    BY <1>1, <2>1, <2>2 DEF Disciplined, WriteDmcontrol,
       WriteDmcontrolActivateOnly
<1>2. CASE ~busy
  <2>1. ~busy'
    BY <1>2 DEF WriteDmcontrol, WriteDmcontrolActivateOnly, reset,
       ResetRegisters, WriteDmcontrolEarlyReturn, WriteDmcontrolFull,
       commandVars
  <2>2. commandPhase = "idle" /\ commandPhase' = "idle"
    BY <1>2, <2>1 DEF commandPhase
  <2>3. runningHarts = {} /\ runningHarts' = {}
    BY <1>2, <2>1 DEF runningHarts, CommandInv, OneCommandAtATime
  <2>4. hartsel' \in Harts
    OBVIOUS
  <2>5. Command!Choose(hartsel')
    BY <2>2, <2>3 DEF Command!Choose, runningHarts
  <2>. QED
    BY <2>4, <2>5 DEF Command!Next
<1>. QED
  BY <1>1, <1>2

\* The module keeps the promise of AbstractCommand for every number of harts:
\* a command is posted, taken once by its hart, left, finished and reported.
THEOREM CommandsRefine == DisciplinedSpec => CommandProtocol
<1>1. Init => Command!Init
  <2>. SUFFICES ASSUME Init PROVE Command!Init
    OBVIOUS
  <2>1. commandPhase = "idle"
    BY DEF Init, commandPhase
  <2>2. selected_hart_id \in Harts
    BY ConfigAssumption DEF Init, Harts, selected_hart_id
  <2>3. {h \in Harts : Executing(h)} = {}
    BY DEF Init, Executing
  <2>. QED
    BY <2>1, <2>2, <2>3 DEF Command!Init
<1>2. /\ TypeOK /\ TypeOK' /\ CommandInv /\ CommandInv'
      /\ [DisciplinedNext]_vars
      => [Command!Next]_(Command!vars)
  <2>. SUFFICES ASSUME TypeOK, TypeOK', CommandInv, CommandInv',
                       [DisciplinedNext]_vars
                PROVE  Command!Next \/ UNCHANGED commandState
    BY DEF Command!vars, commandState, runningHarts
  <2>1. CASE ControlAccess
    BY <2>1, ControlAccessFrame DEF commandState, commandPhase, runningHarts,
       Executing, selected_hart_id
  <2>2. CASE UNCHANGED vars
    BY <2>2 DEF vars, selectionVars, flagVars, commandVars, commandState,
       commandPhase, runningHarts, Executing, selected_hart_id
  <2>. QED
    BY <2>1, <2>2, CommandAccessImplements, HartStepImplements,
       DmcontrolImplements DEF DisciplinedNext
<1>. QED
  BY <1>1, <1>2, DisciplinedTyping, CommandInvariance, PTL
     DEF DisciplinedSpec, CommandProtocol, Command!Spec
=============================================================================
