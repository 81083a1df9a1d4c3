--------------------------- MODULE DebugModule ---------------------------
(***************************************************************************)
(* The debug module of riscv/debug_module.{h,cc}, the debugger on its DMI  *)
(* side and the harts on its memory side.                                  *)
(*                                                                         *)
(* A debugger access (dmi_read, dmi_write, run_test_idle) is one action,   *)
(* because the simulator is single threaded and an access runs to its end. *)
(* A hart is modelled by its place in debug_rom/debug_rom.S: every load    *)
(* from and store to the debug module is a step of its own, so debugger    *)
(* accesses come between any two of them, as they do when remote_bitbang   *)
(* runs between two calls of processor_t::step.                            *)
(*                                                                         *)
(* The program forces cfg.hartids to 0, 1, ... (spike_main/spike.cc), so   *)
(* the index written to hartsel and the hart id are the same number.       *)
(* An operator marked "Faulty" is used by no action: it is a wrong variant *)
(* of the operator after it, and the properties tell the two apart.        *)
(*                                                                         *)
(* System bus access, which shares only reset() and run_test_idle() with   *)
(* this part, is the module SystemBusAccess.                               *)
(***************************************************************************)
EXTENDS Naturals

CONSTANTS
  NProcs,             \* cfg.nprocs()
  Groups,             \* halt groups a debugger uses; 0 is "no group"
  Commands,           \* command words a debugger uses, a subset of AllCommands
  DmcontrolWrites,    \* values a debugger writes to DMCONTROL
  HartMasks,          \* values it writes to the hart array mask (HAWINDOW)
  AvailabilityWrites, \* values it writes to DM_CUSTOM
  AutoexecWrites,     \* whether it writes autoexec bits to ABSTRACTAUTO
  SupportHasel,       \* config.support_hasel
  SupportHaltgroups,  \* config.support_haltgroups
  RequireAuth,        \* config.require_authentication
  AbstractRti         \* config.abstract_rti

Harts == 0 .. NProcs - 1

\* hart_available_state[2]: only the first two harts can become unavailable.
AvailabilityIds == {0, 1}

\* "access": register access that is run by the hart; "custom": odd custom
\* register, done by the module at once; "badreg": unsupported size or
\* register; "othertype": a command type other than 0.
AllCommands == {"access", "custom", "badreg", "othertype"}

DmcontrolValues ==
  [hartsel : Nat, hasel : BOOLEAN, haltreq : BOOLEAN, resumereq : BOOLEAN,
   ackhavereset : BOOLEAN, hartreset : BOOLEAN, ndmreset : BOOLEAN,
   dmactive : BOOLEAN]

ASSUME ConfigAssumption ==
  /\ NProcs \in Nat \ {0}
  /\ Groups \subseteq Nat /\ 0 \in Groups
  /\ Commands \subseteq AllCommands /\ Commands # {}
  /\ DmcontrolWrites \subseteq DmcontrolValues
  /\ HartMasks \subseteq [Harts -> BOOLEAN]
  /\ AvailabilityWrites \subseteq [AvailabilityIds -> BOOLEAN]
  /\ AutoexecWrites \subseteq BOOLEAN
  /\ SupportHasel \in BOOLEAN /\ SupportHaltgroups \in BOOLEAN
  /\ RequireAuth \in BOOLEAN
  /\ AbstractRti \in Nat

VARIABLES
  \* dmcontrol, dmstatus, hart array mask
  dmactive, authenticated, hartsel, hasel, hart_array_mask, available,
  \* hart_state[] and debug_rom_flags[]
  halted, resumeack, havereset, haltgroup, go, resume,
  \* abstract commands
  busy, cmderr, abstract_command_completed, rti_remaining, command, autoexec,
  \* the harts: request posted by the module, place in the debug ROM
  halt_request, pc

selectionVars == <<hartsel, hasel, hart_array_mask>>
controlVars   == <<dmactive, authenticated, available>>
hartVars      == <<halted, resumeack, havereset, haltgroup>>
flagVars      == <<go, resume>>
commandVars   == <<busy, cmderr, abstract_command_completed, rti_remaining,
                   command, autoexec>>
vars == <<selectionVars, controlVars, hartVars, flagVars, commandVars,
          halt_request, pc>>

----------------------------------------------------------------------------
\* cmderr_t
ErrNone == 0
ErrBusy == 1
ErrNotsup == 2
ErrException == 3
ErrHaltresume == 4
CmdErrs == {ErrNone, ErrBusy, ErrNotsup, ErrException, ErrHaltresume}

\* The values of e & ~m over all masks m: the subsets of the bits of e.
WithBitsCleared(e) == IF e = 3 THEN {0, 1, 2, 3} ELSE {0, e}

\* Places of a hart: "run" is outside debug mode; the others name the next
\* access the hart makes to the debug module from the debug ROM.
RomPlaces == {"store_halted", "load_go", "load_resume", "store_going",
              "abstract", "store_exception", "store_resuming", "dret"}
DebugMode(h) == pc[h] # "run"

selected_hart_id == hartsel
hart_selected(h) == h = selected_hart_id \/ (hasel /\ hart_array_mask[h])
hart_available(h) == h \in AvailabilityIds => available[h]

Executing(h) == pc[h] \in {"abstract", "store_exception"}

----------------------------------------------------------------------------
TypeOK ==
  /\ dmactive \in BOOLEAN /\ authenticated \in BOOLEAN
  /\ hartsel \in Harts /\ hasel \in BOOLEAN
  /\ hart_array_mask \in [Harts -> BOOLEAN]
  /\ available \in [AvailabilityIds -> BOOLEAN]
  /\ halted \in [Harts -> BOOLEAN]
  /\ resumeack \in [Harts -> BOOLEAN]
  /\ havereset \in [Harts -> BOOLEAN]
  /\ haltgroup \in [Harts -> Groups]
  /\ go \in [Harts -> BOOLEAN]
  /\ resume \in [Harts -> BOOLEAN]
  /\ busy \in BOOLEAN /\ cmderr \in CmdErrs
  /\ abstract_command_completed \in BOOLEAN
  /\ rti_remaining \in 0 .. AbstractRti
  /\ command \in Commands /\ autoexec \in BOOLEAN
  /\ halt_request \in [Harts -> {"none", "regular", "group"}]
  /\ pc \in [Harts -> RomPlaces \cup {"run"}]

\* The constructor leaves command and abstract_command_completed
\* uninitialized, so they may hold anything. proc_reset has run for every
\* hart when its processor_t was built (havereset).
Init ==
  /\ dmactive = FALSE /\ authenticated = ~RequireAuth
  /\ hartsel = 0 /\ hasel = FALSE
  /\ hart_array_mask = [h \in Harts |-> FALSE]
  /\ available = [i \in AvailabilityIds |-> TRUE]
  /\ halted = [h \in Harts |-> FALSE]
  /\ resumeack = [h \in Harts |-> FALSE]
  /\ havereset = [h \in Harts |-> TRUE]
  /\ haltgroup = [h \in Harts |-> 0]
  /\ go = [h \in Harts |-> FALSE]
  /\ resume = [h \in Harts |-> FALSE]
  /\ busy = FALSE /\ cmderr = ErrNone
  /\ abstract_command_completed \in BOOLEAN
  /\ rti_remaining = 0
  /\ command \in Commands /\ autoexec = FALSE
  /\ halt_request = [h \in Harts |-> "none"]
  /\ pc = [h \in Harts |-> "run"]

----------------------------------------------------------------------------
(***************************************************************************)
(* Abstract commands.                                                      *)
(***************************************************************************)

\* The error perform_abstract_command stores for command word c, or ErrNone.
CommandError(c) ==
  IF busy THEN ErrBusy
  ELSE IF ~hart_available(hartsel) THEN ErrHaltresume
  ELSE IF c = "othertype" THEN ErrNotsup
  ELSE IF ~halted[selected_hart_id] THEN ErrHaltresume
  ELSE IF c = "badreg" THEN ErrNotsup
  ELSE ErrNone

\* Faulty: cmderr is not looked at.
StartsInSpiteOfError(c) == CommandError(c) = ErrNone /\ c = "access"
\* The command is handed to the selected hart through its GO flag.
StartsOnHart(c) ==
  cmderr = ErrNone /\ CommandError(c) = ErrNone /\ c = "access"

perform_abstract_command(c) ==
  /\ cmderr' = IF cmderr = ErrNone THEN CommandError(c) ELSE cmderr
  /\ \/ /\ StartsOnHart(c)
        /\ go' = [go EXCEPT ![selected_hart_id] = TRUE]
        /\ rti_remaining' = AbstractRti
        /\ abstract_command_completed' = FALSE
        /\ busy' = TRUE
     \/ /\ ~StartsOnHart(c)
        /\ UNCHANGED <<go, rti_remaining, abstract_command_completed, busy>>
  /\ UNCHANGED <<selectionVars, controlVars, hartVars, resume, autoexec,
                 halt_request, pc>>

\* dmi_write(DM_COMMAND)
WriteCommand ==
  /\ authenticated
  /\ \E c \in Commands : command' = c /\ perform_abstract_command(c)

\* dmi_read and dmi_write of DATA: refused with cmderr = busy while a command
\* runs, and the trigger of command when abstractauto says so.
AccessData(isWrite) ==
  /\ isWrite => authenticated
  /\ \/ /\ busy
        /\ cmderr' = IF cmderr = ErrNone THEN ErrBusy ELSE cmderr
        /\ UNCHANGED <<selectionVars, controlVars, hartVars, flagVars, busy,
             abstract_command_completed, rti_remaining, command, autoexec,
             halt_request, pc>>
     \/ ~busy /\ autoexec /\ perform_abstract_command(command)
                          /\ UNCHANGED command

\* dmi_write(DM_ABSTRACTCS): write-1-to-clear of cmderr, whatever busy is.
WriteAbstractcs ==
  /\ authenticated
  /\ cmderr' \in WithBitsCleared(cmderr)
  /\ UNCHANGED <<selectionVars, controlVars, hartVars, flagVars, busy,
       abstract_command_completed, rti_remaining, command, autoexec,
       halt_request, pc>>

\* dmi_write(DM_ABSTRACTAUTO)
WriteAbstractauto ==
  /\ authenticated
  /\ autoexec' \in AutoexecWrites
  /\ UNCHANGED <<selectionVars, controlVars, hartVars, flagVars, busy, cmderr,
       abstract_command_completed, rti_remaining, command, halt_request, pc>>

\* run_test_idle(), called once per TCK cycle the DTM spends in Run-Test/Idle.
\* busy falls only here.
RtiLeft == IF rti_remaining > 0 THEN rti_remaining - 1 ELSE 0
run_test_idle ==
  /\ rti_remaining' = RtiLeft
  /\ busy' = (busy /\ ~(RtiLeft = 0 /\ abstract_command_completed))
  /\ UNCHANGED <<selectionVars, controlVars, hartVars, flagVars, cmderr,
       abstract_command_completed, command, autoexec, halt_request, pc>>

----------------------------------------------------------------------------
(***************************************************************************)
(* dmcontrol and the other registers a debugger writes.                    *)
(***************************************************************************)

\* What reset() forgets. Everything else (debug_rom_flags, hart_state,
\* hart_array_mask, abstract_command_completed, rti_remaining) survives it.
ResetRegisters ==
  /\ authenticated' = ~RequireAuth
  /\ busy' = FALSE /\ cmderr' = ErrNone /\ autoexec' = FALSE
reset ==
  /\ halt_request' = [h \in Harts |-> "none"]
  /\ hartsel' = 0 /\ hasel' = FALSE
  /\ ResetRegisters

SurvivesReset ==
  <<hart_array_mask, available, hartVars, flagVars,
    abstract_command_completed, rti_remaining, command, pc>>

\* dmi_write(DM_DMCONTROL) that activates the module but ends there, because
\* reset() dropped the authentication.
WriteDmcontrolActivateOnly(w) ==
  /\ ~dmactive /\ w.dmactive /\ RequireAuth
  /\ reset
  /\ dmactive' = TRUE
  /\ UNCHANGED SurvivesReset

\* dmi_write(DM_DMCONTROL) that takes the early return: deactivation, or an
\* unauthenticated debugger.
WriteDmcontrolEarlyReturn(w) ==
  /\ ~(~dmactive /\ w.dmactive)
  /\ ~authenticated \/ ~w.dmactive
  /\ dmactive' = w.dmactive
  /\ UNCHANGED <<authenticated, available, selectionVars, hartVars, flagVars,
                 commandVars, halt_request, pc>>

\* std::min(hartsel, nprocs - 1)
ClampedHartsel(n) == IF n < NProcs THEN n ELSE NProcs - 1

\* The harts a write applies to: hart_selected with the new hartsel and hasel.
SelectedBy(w) ==
  {h \in Harts : \/ h = ClampedHartsel(w.hartsel)
                 \/ SupportHasel /\ w.hasel /\ hart_array_mask[h]}

\* processor_t::reset() of these harts: out of debug mode, and proc_reset()
\* forgets halted and haltgroup and notes havereset.
HartsReset(w) ==
  {h \in Harts : \/ w.ndmreset
                 \/ w.hartreset /\ h \in SelectedBy(w) /\ hart_available(h)}
ResumedBy(w) == {h \in SelectedBy(w) : w.resumereq /\ hart_available(h)}

\* Faulty: the resume ack is cleared for halted harts only.
AcksLostIfHalted(w) == {h \in ResumedBy(w) : halted[h]}
\* The harts whose resumeack the write clears.
AcksLost(w) == ResumedBy(w)

\* Faulty: proc_reset forgets to clear halted.
HaltedAcrossReset(w) == halted
HaltedAfter(w) == [h \in Harts |-> halted[h] /\ h \notin HartsReset(w)]

\* Faulty: the harts that are not selected lose their requests too.
HaltRequestsOfSelected(w) ==
  [h \in Harts |-> IF h \in SelectedBy(w) /\ w.haltreq /\ hart_available(h)
                   THEN "regular" ELSE "none"]
\* Writing haltreq = 0 withdraws the request of a selected hart, also one that
\* came from its halt group; an activation withdraws every request.
HaltRequestsAfter(w) ==
  [h \in Harts |->
     IF h \notin SelectedBy(w)
     THEN IF ~dmactive THEN "none" ELSE halt_request[h]
     ELSE IF w.haltreq /\ hart_available(h) THEN "regular" ELSE "none"]

\* The loop over the selected harts and the resets that follow it.
ApplyDmcontrol(w) ==
  /\ hartsel' = ClampedHartsel(w.hartsel)
  /\ hasel' = (SupportHasel /\ w.hasel)
  /\ halt_request' = HaltRequestsAfter(w)
  /\ resume' = [h \in Harts |-> resume[h] \/ h \in ResumedBy(w)]
  /\ resumeack' = [h \in Harts |-> resumeack[h] /\ h \notin AcksLost(w)]
  /\ havereset' = [h \in Harts |->
       \/ h \in HartsReset(w)
       \/ havereset[h] /\ ~(w.ackhavereset /\ h \in SelectedBy(w))]
  /\ halted' = HaltedAfter(w)
  /\ haltgroup' = [h \in Harts |->
       IF h \in HartsReset(w) THEN 0 ELSE haltgroup[h]]
  /\ pc' = [h \in Harts |-> IF h \in HartsReset(w) THEN "run" ELSE pc[h]]

\* dmi_write(DM_DMCONTROL) of an active, authenticated debugger; it resets the
\* module first when it was inactive.
WriteDmcontrolFull(w) ==
  /\ w.dmactive
  /\ IF dmactive THEN authenticated ELSE ~RequireAuth
  /\ dmactive' = TRUE
  /\ ApplyDmcontrol(w)
  /\ \/ dmactive /\ UNCHANGED <<authenticated, busy, cmderr, autoexec>>
     \/ ~dmactive /\ ResetRegisters
  /\ UNCHANGED <<hart_array_mask, available, go, abstract_command_completed,
                 rti_remaining, command>>

WriteDmcontrol(w) ==
  \/ WriteDmcontrolActivateOnly(w)
  \/ WriteDmcontrolEarlyReturn(w)
  \/ WriteDmcontrolFull(w)

\* dmi_write(DM_HAWINDOW); 32 harts per window, so one window is all of them.
WriteHawindow ==
  /\ authenticated
  /\ hart_array_mask' \in HartMasks
  /\ UNCHANGED <<hartsel, hasel, controlVars, hartVars, flagVars, commandVars,
                 halt_request, pc>>

\* dmi_write(DM_AUTHDATA): the right response authenticates, a wrong one
\* takes authentication away.
WriteAuthdata ==
  /\ RequireAuth
  /\ authenticated' \in BOOLEAN
  /\ UNCHANGED <<dmactive, available, selectionVars, hartVars, flagVars,
                 commandVars, halt_request, pc>>

\* dmi_write(DM_DMCS2): put the selected hart into a halt group.
WriteDmcs2 ==
  /\ authenticated /\ SupportHaltgroups
  /\ \E g \in Groups : haltgroup' = [haltgroup EXCEPT ![selected_hart_id] = g]
  /\ UNCHANGED <<selectionVars, controlVars, halted, resumeack, havereset,
                 flagVars, commandVars, halt_request, pc>>

\* dmi_write(DM_CUSTOM): which of the first two harts are available.
WriteCustom ==
  /\ authenticated
  /\ available' \in AvailabilityWrites
  /\ UNCHANGED <<dmactive, authenticated, selectionVars, hartVars, flagVars,
                 commandVars, halt_request, pc>>

----------------------------------------------------------------------------
(***************************************************************************)
(* The harts.                                                              *)
(***************************************************************************)
debuggerVars == <<selectionVars, controlVars, command, autoexec, busy,
                  rti_remaining>>

\* processor_t::step finds a halt request outside debug mode.
TakeHaltRequest(h) ==
  /\ ~DebugMode(h) /\ halt_request[h] # "none"
  /\ pc' = [pc EXCEPT ![h] = "store_halted"]
  /\ UNCHANGED <<debuggerVars, hartVars, flagVars, cmderr,
                 abstract_command_completed, halt_request>>

\* enter_debug_mode for a reason of the hart's own: ebreak, a trigger, a single
\* step, halt_on_reset.
HaltByItself(h) ==
  /\ ~DebugMode(h) /\ halt_request[h] = "none"
  /\ pc' = [pc EXCEPT ![h] = "store_halted"]
  /\ UNCHANGED <<debuggerVars, hartVars, flagVars, cmderr,
                 abstract_command_completed, halt_request>>

\* Faulty: the availability of the wrong hart.
HaltedAlongIfAvailable(h) ==
  {k \in Harts : /\ ~halted[h] /\ haltgroup[h] # 0
                 /\ k # h /\ ~halted[k]
                 /\ haltgroup[k] = haltgroup[h]
                 /\ hart_available(h)}
\* The harts that the first HALTED store of h asks to halt.
HaltedAlong(h) ==
  {k \in Harts : /\ ~halted[h] /\ haltgroup[h] # 0
                 /\ k # h /\ ~halted[k]
                 /\ haltgroup[k] = haltgroup[h]
                 /\ hart_available(k)}

\* Faulty: the GO flag is not looked at.
CompletesBeforeGoing(h) == h = selected_hart_id
\* Faulty: only the store that changes halted counts.
CompletesOnFirstHalt(h) == h = selected_hart_id /\ ~go[h] /\ ~halted[h]
\* The HALTED store of the selected hart ends the abstract command, unless
\* its GO flag says that the command has not begun.
CompletesCommand(h) == h = selected_hart_id /\ ~go[h]

\* sw DEBUG_ROM_HALTED
StoreHalted(h) ==
  /\ pc[h] = "store_halted"
  /\ halted' = [halted EXCEPT ![h] = TRUE]
  /\ halt_request' = [k \in Harts |->
       IF k \in HaltedAlong(h) THEN "group" ELSE halt_request[k]]
  /\ abstract_command_completed' =
       (abstract_command_completed \/ CompletesCommand(h))
  /\ pc' = [pc EXCEPT ![h] = "load_go"]
  /\ UNCHANGED <<debuggerVars, resumeack, havereset, haltgroup, flagVars,
                 cmderr>>

Goes(h) == go[h]
\* lbu DEBUG_ROM_FLAGS, the GO bit
LoadGo(h) ==
  /\ pc[h] = "load_go"
  /\ pc' = [pc EXCEPT ![h] = IF Goes(h) THEN "store_going" ELSE "load_resume"]
  /\ UNCHANGED <<debuggerVars, hartVars, flagVars, cmderr,
                 abstract_command_completed, halt_request>>

\* lbu DEBUG_ROM_FLAGS, the RESUME bit; wfi is a nop in debug mode.
LoadResume(h) ==
  /\ pc[h] = "load_resume"
  /\ pc' = [pc EXCEPT ![h] =
              IF resume[h] THEN "store_resuming" ELSE "store_halted"]
  /\ UNCHANGED <<debuggerVars, hartVars, flagVars, cmderr,
                 abstract_command_completed, halt_request>>

\* sw DEBUG_ROM_GOING, then the jump into the abstract command.
StoreGoing(h) ==
  /\ pc[h] = "store_going"
  /\ go' = [go EXCEPT ![h] = FALSE]
  /\ pc' = [pc EXCEPT ![h] = "abstract"]
  /\ UNCHANGED <<debuggerVars, hartVars, resume, cmderr,
                 abstract_command_completed, halt_request>>

\* The abstract command and its program buffer run into an ebreak, which takes
\* the hart back to the entry of the ROM, or trap to its exception entry.
LeaveAbstract(h) ==
  /\ pc[h] = "abstract"
  /\ \E place \in {"store_halted", "store_exception"} :
       pc' = [pc EXCEPT ![h] = place]
  /\ UNCHANGED <<debuggerVars, hartVars, flagVars, cmderr,
                 abstract_command_completed, halt_request>>

\* sw DEBUG_ROM_EXCEPTION; ebreak
StoreException(h) ==
  /\ pc[h] = "store_exception"
  /\ cmderr' = IF cmderr = ErrNone THEN ErrException ELSE cmderr
  /\ pc' = [pc EXCEPT ![h] = "store_halted"]
  /\ UNCHANGED <<debuggerVars, hartVars, flagVars,
                 abstract_command_completed, halt_request>>

\* sw DEBUG_ROM_RESUMING
StoreResuming(h) ==
  /\ pc[h] = "store_resuming"
  /\ halted' = [halted EXCEPT ![h] = FALSE]
  /\ resumeack' = [resumeack EXCEPT ![h] = TRUE]
  /\ resume' = [resume EXCEPT ![h] = FALSE]
  /\ pc' = [pc EXCEPT ![h] = "dret"]
  /\ UNCHANGED <<debuggerVars, havereset, haltgroup, go, cmderr,
                 abstract_command_completed, halt_request>>

\* dret
Dret(h) ==
  /\ pc[h] = "dret"
  /\ pc' = [pc EXCEPT ![h] = "run"]
  /\ UNCHANGED <<debuggerVars, hartVars, flagVars, cmderr,
                 abstract_command_completed, halt_request>>

HartStep(h) ==
  \/ TakeHaltRequest(h) \/ HaltByItself(h)
  \/ StoreHalted(h) \/ LoadGo(h) \/ LoadResume(h)
  \/ StoreGoing(h) \/ LeaveAbstract(h) \/ StoreException(h)
  \/ StoreResuming(h) \/ Dret(h)

CommandAccess ==
  \/ WriteCommand
  \/ \E isWrite \in BOOLEAN : AccessData(isWrite)
  \/ WriteAbstractcs
  \/ WriteAbstractauto
  \/ run_test_idle

ControlAccess ==
  \/ WriteHawindow \/ WriteAuthdata \/ WriteDmcs2 \/ WriteCustom

\* A debugger that writes any register at any time.
Next ==
  \/ \E h \in Harts : HartStep(h)
  \/ CommandAccess
  \/ ControlAccess
  \/ \E w \in DmcontrolWrites : WriteDmcontrol(w)

Spec == Init /\ [][Next]_vars

\* What the debug specification asks of a debugger: while busy is high it does
\* not change hartsel, reset a hart or deactivate the module.
Disciplined(w) ==
  busy => /\ dmactive /\ w.dmactive
          /\ ClampedHartsel(w.hartsel) = hartsel
          /\ ~w.hartreset /\ ~w.ndmreset

DisciplinedNext ==
  \/ \E h \in Harts : HartStep(h)
  \/ CommandAccess
  \/ ControlAccess
  \/ \E w \in DmcontrolWrites : Disciplined(w) /\ WriteDmcontrol(w)

DisciplinedSpec == Init /\ [][DisciplinedNext]_vars

----------------------------------------------------------------------------
(***************************************************************************)
(* Properties.                                                             *)
(***************************************************************************)

\* The module's picture of a hart (hart_state.halted) agrees with the hart: a
\* hart it reports halted is in debug mode and not on its way out, and a hart
\* past its HALTED store is reported halted until it resumes or is reset.
HaltedTracksHart ==
  \A h \in Harts :
    /\ halted[h] => pc[h] \notin {"run", "dret"}
    /\ pc[h] \notin {"run", "dret", "store_halted"} => halted[h]

\* A hart never acknowledges a resume it has still to make: while the RESUME
\* flag is posted resumeack is down, across coalesced requests and resets.
NoAckWhileResumePending == \A h \in Harts : resume[h] => ~resumeack[h]

\* A hart on its way into an abstract command or out of debug mode is covered
\* by the flag that sent it there.
FlagsCoverRom ==
  \A h \in Harts :
    /\ pc[h] = "store_going" => go[h]
    /\ pc[h] = "store_resuming" => resume[h]

\* debug_defines.h, cmderr: no abstract command is started until the value is
\* reset to 0, and none while another one is busy.
StartsOnlyWhenClean ==
  [][\A h \in Harts : ~go[h] /\ go'[h] => ~busy /\ cmderr = ErrNone]_vars

\* When a hart of a halt group is first seen halted, every available member
\* is halted already or has a request that will halt it.
GroupHaltSpreads ==
  [][\A h, k \in Harts :
       /\ ~halted[h] /\ halted'[h]
       /\ haltgroup[h] # 0 /\ haltgroup[k] = haltgroup[h]
       /\ hart_available(k)
       => halted'[k] \/ halt_request'[k] # "none"]_vars

\* A running hart that is asked to halt does halt, unless the debugger writes
\* dmcontrol with that hart selected, or activates the module.
HaltRequestKept ==
  [][\A h \in Harts :
       halt_request[h] # "none" /\ halt_request'[h] = "none"
       => hart_selected(h)' \/ (~dmactive /\ dmactive')]_vars

\* At most one hart has or runs an abstract command; the module is busy with
\* it, and it is the selected hart. Holds for the disciplined debugger.
OneCommandAtATime ==
  \A h \in Harts :
    go[h] \/ Executing(h)
    => h = selected_hart_id /\ busy /\ ~abstract_command_completed

\* A busy module never waits for nobody: an uncompleted command is posted to
\* the selected hart, runs on it, or is about to be reported by it.
BusyIsServed ==
  busy /\ ~abstract_command_completed =>
    \/ go[selected_hart_id]
    \/ Executing(selected_hart_id)
    \/ pc[selected_hart_id] = "store_halted"

\* debug_defines.h, abstractcs.busy: not cleared until the command has
\* completed, that is, no hart has it posted or runs it.
BusyUntilCompleted ==
  [][busy /\ ~busy' => \A h \in Harts : ~go[h] /\ ~Executing(h)]_vars

----------------------------------------------------------------------------
(***************************************************************************)
(* The module implements AbstractCommand for the disciplined debugger.     *)
(***************************************************************************)
commandPhase ==
  IF ~busy THEN "idle"
  ELSE IF abstract_command_completed THEN "finished"
  ELSE IF go[selected_hart_id] THEN "posted" ELSE "taken"

Command == INSTANCE AbstractCommand WITH
  phase <- commandPhase,
  owner <- selected_hart_id,
  runners <- {h \in Harts : Executing(h)}

\* Every step of a command that the debugger and the harts take is a step of
\* the promise: posted, taken once, left, finished, reported, in that order.
CommandProtocol == Command!Spec
=============================================================================
