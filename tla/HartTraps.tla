----------------------------- MODULE HartTraps -----------------------------
(***************************************************************************)
(* Interrupts, traps and returns of one hart, riscv/processor.cc and       *)
(* riscv/insns, with the hypervisor extension: the selection of an         *)
(* interrupt, its delegation, and the stack of one level that the status   *)
(* registers are.                                                          *)
(*                                                                         *)
(* Software is disciplined as handlers are: a handler that allows traps to *)
(* its own mode saves the status first, and restores it before it returns; *)
(* "frames" records what was interrupted, for the properties. One id       *)
(* stands for the interrupts of a level where they differ in priority      *)
(* only. Debug mode, Smrnmi and the double-trap extensions are left out.   *)
(* An operator marked "Faulty" is used by no action.                       *)
(***************************************************************************)
EXTENDS Naturals, Sequences

CONSTANTS
  Boots,       \* mideleg, hideleg, medeleg, hedeleg and mie after boot
  Exceptions,  \* causes of exceptions
  MaxNest      \* a handler allows traps if fewer frames are open

Priority == <<"MSI", "MTI", "SSI", "VSSI">>   \* highest first
Ints == {Priority[k] : k \in DOMAIN Priority}
Modes == {"U", "S", "M"}
Levels == {"M", "HS", "VS"}      \* that handle traps

ASSUME HartAssumption ==
  /\ Boots \subseteq [mi : SUBSET {"SSI"}, hi : SUBSET {"VSSI"},
                      me : SUBSET Exceptions, he : SUBSET Exceptions,
                      mie : SUBSET Ints]
  /\ Exceptions \cap Ints = {}   \* the top bit of a cause
  /\ MaxNest \in Nat

VARIABLES
  prv, v,
  mstatus,     \* of HS-mode too: sstatus is a view of it
  vsstatus, spv,
  mip,
  boot,        \* the registers firmware and hypervisor have written
  in_wfi,
  frames       \* the traps being handled, the last one on top

statusVars == <<mstatus, vsstatus, spv>>
hartVars == <<prv, v, statusVars, mip, boot, in_wfi, frames>>

mideleg == boot.mi \cup {"VSSI"}    \* MIDELEG_FORCED_MASK
hideleg == boot.hi \cap mideleg

HartInit ==
  /\ prv \in {"U", "S"} /\ v \in BOOLEAN
  /\ \E m \in BOOLEAN, s \in BOOLEAN :
       mstatus = [MIE |-> m, MPIE |-> TRUE, MPP |-> "U", MPV |-> FALSE,
                  SIE |-> s, SPIE |-> FALSE, SPP |-> "U"]
  /\ vsstatus = [SIE |-> FALSE, SPIE |-> FALSE, SPP |-> "U"]
  /\ spv = FALSE /\ boot \in Boots
  /\ in_wfi = FALSE /\ frames = <<>>

----------------------------------------------------------------------------
\* take_interrupt.
pending == mip \cap boot.mie
sie == IF v THEN vsstatus.SIE ELSE mstatus.SIE   \* sstatus reads vsstatus

\* Faulty: a lower mode can hold off the interrupts of M-mode.
MEnabledMieOnly == mstatus.MIE
MEnabled == prv # "M" \/ mstatus.MIE
HsEnabled == v \/ prv = "U" \/ (prv = "S" /\ sie)
VsEnabled == v /\ (prv = "U" \/ (prv = "S" /\ sie))

ForM == IF MEnabled THEN pending \ mideleg ELSE {}
ForHs == IF HsEnabled THEN pending \cap (mideleg \ hideleg) ELSE {}
ForVs == IF VsEnabled THEN pending \cap hideleg ELSE {}
enabled_interrupts ==
  IF ForM # {} THEN ForM ELSE IF ForHs # {} THEN ForHs ELSE ForVs

Selected == LET best == CHOOSE k \in DOMAIN Priority :
                          /\ Priority[k] \in enabled_interrupts
                          /\ \A n \in 1 .. k - 1 :
                               Priority[n] \notin enabled_interrupts
            IN Priority[best]

----------------------------------------------------------------------------
\* take_trap.
Vsdeleg(cause) == v /\ prv # "M" /\
  cause \in IF cause \in Ints THEN hideleg ELSE boot.me \cap boot.he
Delegated(cause) == cause \in IF cause \in Ints THEN mideleg ELSE boot.me
\* Faulty: what is delegated is delegated from M-mode too.
HsdelegAnyMode(cause) == Delegated(cause)
Hsdeleg(cause) == prv # "M" /\ Delegated(cause)

set_privilege(p, virt) == prv' = p /\ v' = (virt /\ p # "M")

Target(cause) == IF Vsdeleg(cause) THEN "VS"
                 ELSE IF Hsdeleg(cause) THEN "HS" ELSE "M"

TrapToVs == /\ vsstatus' = [SPIE |-> vsstatus.SIE, SPP |-> prv, SIE |-> FALSE]
            /\ set_privilege("S", TRUE)
            /\ UNCHANGED <<mstatus, spv>>
\* Faulty: SPV keeps the value of an earlier trap.
SpvOnTrapOld == spv
SpvOnTrap == v
TrapToHs == /\ mstatus' = [mstatus EXCEPT !.SPIE = mstatus.SIE,
                                          !.SPP = prv, !.SIE = FALSE]
            /\ spv' = SpvOnTrap
            /\ set_privilege("S", FALSE)
            /\ UNCHANGED vsstatus
TrapToM == /\ mstatus' = [mstatus EXCEPT !.MPIE = mstatus.MIE, !.MPP = prv,
                                         !.MIE = FALSE, !.MPV = v]
           /\ set_privilege("M", FALSE)
           /\ UNCHANGED <<vsstatus, spv>>

\* What is interrupted, and how far the handler is.
Frame(cause) ==
  [cause |-> cause, level |-> Target(cause), prv |-> prv, v |-> v,
   ie |-> <<mstatus.MIE, mstatus.SIE, vsstatus.SIE>>,
   stage |-> "fresh", saved |-> <<>>]

take_trap(cause) ==
  /\ \/ Target(cause) = "VS" /\ TrapToVs
     \/ Target(cause) = "HS" /\ TrapToHs
     \/ Target(cause) = "M" /\ TrapToM
  /\ frames' = Append(frames, Frame(cause))
  /\ UNCHANGED <<mip, boot>>

----------------------------------------------------------------------------
\* The mode the hart is in, if it is one that handles traps.
Level == IF prv = "M" THEN "M"
         ELSE IF prv = "S" /\ v THEN "VS" ELSE IF prv = "S" THEN "HS" ELSE "U"
Handling == frames # <<>>
Top == frames[Len(frames)]
SetTop(stage, saved) ==
  frames' = [frames EXCEPT ![Len(frames)].stage = stage,
                           ![Len(frames)].saved = saved]

\* Begin of a step: a pending interrupt ends a WFI, an enabled one is taken.
TakeInterrupt ==
  /\ enabled_interrupts # {}
  /\ take_trap(Selected) /\ in_wfi' = FALSE
\* Faulty: only an interrupt that is taken ends the wait.
WakesIfTaken == FALSE
Wakes == pending # {}
WakeUp ==
  /\ in_wfi /\ Wakes /\ enabled_interrupts = {}
  /\ in_wfi' = FALSE
  /\ UNCHANGED <<prv, v, statusVars, mip, boot, frames>>

\* Otherwise an instruction is executed.
Executes == ~in_wfi /\ enabled_interrupts = {}

Exception(cause) ==
  /\ Executes
  /\ Handling => Top.stage = "saved" \/ Target(cause) # Level
  /\ Len(frames) <= MaxNest
  /\ take_trap(cause) /\ UNCHANGED in_wfi

\* Only without handler: handlers do not wait.
Wfi == /\ Executes /\ Level # "U" /\ ~Handling
       /\ in_wfi' = TRUE
       /\ UNCHANGED <<prv, v, statusVars, mip, boot, frames>>

\* A write of the interrupt enable of the current mode.
WriteIe(ie) ==
  /\ Executes /\ Level # "U"
  /\ Handling => Top.stage = "saved"
  /\ \/ Level = "M" /\ mstatus' = [mstatus EXCEPT !.MIE = ie]
                    /\ UNCHANGED vsstatus
     \/ Level = "HS" /\ mstatus' = [mstatus EXCEPT !.SIE = ie]
                     /\ UNCHANGED vsstatus
     \/ Level = "VS" /\ vsstatus' = [vsstatus EXCEPT !.SIE = ie]
                     /\ UNCHANGED mstatus
  /\ UNCHANGED <<prv, v, spv, mip, boot, in_wfi, frames>>

\* The handler keeps the status of the trap in memory, puts it back later.
Save ==
  /\ Executes /\ Handling /\ Top.stage = "fresh" /\ Len(frames) <= MaxNest
  /\ SetTop("saved", <<mstatus, vsstatus, spv>>)
  /\ UNCHANGED <<prv, v, statusVars, mip, boot, in_wfi>>

Restore ==
  /\ Executes /\ Handling /\ Top.stage = "saved"
  /\ LET m == Top.saved[1] IN
       \/ /\ Level = "M"
          /\ mstatus' = [mstatus EXCEPT !.MIE = m.MIE, !.MPIE = m.MPIE,
                                        !.MPP = m.MPP, !.MPV = m.MPV]
          /\ UNCHANGED <<vsstatus, spv>>
       \/ /\ Level = "HS"
          /\ mstatus' = [mstatus EXCEPT !.SIE = m.SIE, !.SPIE = m.SPIE,
                                        !.SPP = m.SPP]
          /\ spv' = Top.saved[3] /\ UNCHANGED vsstatus
       \/ /\ Level = "VS"
          /\ vsstatus' = Top.saved[2] /\ UNCHANGED <<mstatus, spv>>
  /\ SetTop("leaving", <<>>)
  /\ UNCHANGED <<prv, v, mip, boot, in_wfi>>

mret == /\ mstatus' = [mstatus EXCEPT !.MIE = mstatus.MPIE, !.MPIE = TRUE,
                                      !.MPP = "U", !.MPV = FALSE]
        /\ set_privilege(mstatus.MPP, mstatus.MPV)
        /\ UNCHANGED <<vsstatus, spv>>
\* Faulty: a return in VS-mode leaves virtual mode as one in HS-mode may.
SretVirtFromHs == spv
SretVirt == IF v THEN TRUE ELSE spv
sret == /\ set_privilege(IF v THEN vsstatus.SPP ELSE mstatus.SPP, SretVirt)
        /\ IF v THEN /\ vsstatus' = [SIE |-> vsstatus.SPIE, SPIE |-> TRUE,
                                     SPP |-> "U"]
                     /\ UNCHANGED <<mstatus, spv>>
                ELSE /\ mstatus' = [mstatus EXCEPT !.SIE = mstatus.SPIE,
                                      !.SPIE = TRUE, !.SPP = "U"]
                     /\ spv' = FALSE /\ UNCHANGED vsstatus

Return ==
  /\ Executes /\ Handling /\ Top.stage # "saved"
  /\ IF Level = "M" THEN mret ELSE sret
  /\ frames' = SubSeq(frames, 1, Len(frames) - 1)
  /\ UNCHANGED <<mip, boot, in_wfi>>

\* A bit of mip that software writes: SSIP, or VSSIP by way of hvip.
SetSoftware(i, on) ==
  /\ mip' = IF on THEN mip \cup {i} ELSE mip \ {i}
  /\ UNCHANGED <<prv, v, statusVars, boot, in_wfi, frames>>

\* The handler acknowledges the software interrupt it was called for, if its
\* mode may write the bit.
Acknowledge ==
  /\ Executes /\ Handling /\ Top.cause \in {"SSI", "VSSI"}
  /\ SetSoftware(Top.cause, FALSE)

HartStep == \/ TakeInterrupt \/ WakeUp \/ Wfi \/ Save \/ Restore \/ Return
            \/ Acknowledge
            \/ \E cause \in Exceptions : Exception(cause)
            \/ \E ie \in BOOLEAN : WriteIe(ie)

----------------------------------------------------------------------------
HartTypeOK ==
  /\ prv \in Modes /\ v \in BOOLEAN /\ (prv = "M" => ~v)
  /\ mstatus \in [MIE : BOOLEAN, MPIE : BOOLEAN, MPP : Modes, MPV : BOOLEAN,
                  SIE : BOOLEAN, SPIE : BOOLEAN, SPP : {"U", "S"}]
  /\ vsstatus \in [SIE : BOOLEAN, SPIE : BOOLEAN, SPP : {"U", "S"}]
  /\ spv \in BOOLEAN /\ mip \subseteq Ints /\ boot \in Boots
  /\ in_wfi \in BOOLEAN

\* Where an interrupt belongs, and whether it may be taken now, as the
\* privileged architecture has it: modes below are always interruptible,
\* the mode itself if its enable is set, modes above never.
Home(i) == IF i \notin mideleg THEN "M" ELSE IF i \notin hideleg THEN "HS"
           ELSE "VS"
Rank(level) == CASE level = "M" -> 3 [] level = "HS" -> 2 [] OTHER -> 1
CurrentRank == IF prv = "M" THEN 3 ELSE IF prv = "S" /\ ~v THEN 2
               ELSE IF prv = "S" THEN 1 ELSE 0
EnableOf(level) == CASE level = "M" -> mstatus.MIE
                     [] level = "HS" -> mstatus.SIE
                     [] level = "VS" -> vsstatus.SIE
Takeable(i) ==
  /\ i \in mip \cap boot.mie
  /\ Home(i) = "VS" => v
  /\ \/ Rank(Home(i)) > CurrentRank
     \/ Rank(Home(i)) = CurrentRank /\ EnableOf(Home(i))

Trapped == Len(frames') > Len(frames)

\* The two independent computations of the code, which interrupt is enabled
\* and where the trap goes, agree with the architecture and each other: an
\* interrupt that is taken may be taken, arrives where it belongs, and none
\* that belongs higher is passed over; an instruction is executed only if
\* none may be taken.
InterruptsObeyDelegation ==
  [][/\ Trapped /\ (Top.cause)' \in Ints =>
          LET i == (Top.cause)' IN
          /\ Takeable(i) /\ Level' = Home(i)
          /\ \A j \in Ints : Takeable(j) => Rank(Home(j)) <= Rank(Home(i))
     /\ Trapped /\ (Top.cause)' \in Exceptions =>
          \A j \in Ints : ~Takeable(j)]_hartVars

\* A trap never goes to a less privileged mode, nor from the hypervisor to
\* its guest.
TrapsGoUp == [][Trapped => (CurrentRank' >= CurrentRank)]_hartVars

\* A return continues what was interrupted: its mode, virtual or not, and
\* the interrupt enables of every mode, through nested traps to the same and
\* to other modes.
ReturnResumes ==
  [][Len(frames') < Len(frames) =>
       /\ prv' = Top.prv /\ v' = Top.v
       /\ <<mstatus.MIE, mstatus.SIE, vsstatus.SIE>>' = Top.ie]_hartVars
=============================================================================
