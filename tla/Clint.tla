------------------------------- MODULE Clint -------------------------------
(***************************************************************************)
(* The core-local interruptor, riscv/clint.cc, and the hart it interrupts. *)
(* A store to a register of the CLINT ends with tick(0), which compares    *)
(* the time with the deadline of every hart; the main loop ticks with the  *)
(* time that has passed. Software interrupts are bits of mip and nothing   *)
(* else. Time from the host's clock is left out.                           *)
(***************************************************************************)
EXTENDS HartTraps

CONSTANT TimeWrap   \* time is counted modulo 2^64

ASSUME ClintAssumption == TimeWrap \in Nat \ {0}

Times == 0 .. TimeWrap - 1

VARIABLES mtime, mtimecmp

clintVars == <<mtime, mtimecmp>>
allVars == <<hartVars, clintVars>>

\* The deadline is zero at first, so the timer interrupt is pending.
Init == HartInit /\ mtime = 0 /\ mtimecmp = 0 /\ mip = {"MTI"}

hartRest == <<prv, v, statusVars, boot, in_wfi, frames>>

\* Faulty: the interrupt is raised in time and never taken back.
MtipKept(lines) == IF mtime' >= mtimecmp' THEN lines \cup {"MTI"} ELSE lines
\* With the values of after the change.
Mtip(lines) == IF mtime' >= mtimecmp' THEN lines \cup {"MTI"}
                                      ELSE lines \ {"MTI"}

StoreMtimecmp(t) == /\ mtimecmp' = t /\ UNCHANGED mtime
                    /\ mip' = Mtip(mip) /\ UNCHANGED hartRest
StoreMtime(t) == /\ mtime' = t /\ UNCHANGED mtimecmp
                 /\ mip' = Mtip(mip) /\ UNCHANGED hartRest
StoreMsip(on) ==
  /\ UNCHANGED clintVars
  /\ mip' = Mtip(IF on THEN mip \cup {"MSI"} ELSE mip \ {"MSI"})
  /\ UNCHANGED hartRest

tick(ticks) == /\ mtime' = (mtime + ticks) % TimeWrap /\ UNCHANGED mtimecmp
               /\ mip' = Mtip(mip) /\ UNCHANGED hartRest

----------------------------------------------------------------------------
\* Handlers in M-mode write the deadline or clear the bit.
AcknowledgeMsi == /\ Executes /\ Handling /\ Top.cause = "MSI"
                  /\ Level = "M" /\ StoreMsip(FALSE)
AcknowledgeMti == /\ Executes /\ Handling /\ Top.cause = "MTI"
                  /\ Level = "M" /\ \E t \in Times : StoreMtimecmp(t)

\* Other harts, and time.
Others == \/ StoreMsip(TRUE) \/ tick(1)
          \/ \E t \in Times : StoreMtime(t)
          \/ \E i \in {"SSI", "VSSI"} : SetSoftware(i, TRUE) /\ UNCHANGED clintVars

Next == (HartStep /\ UNCHANGED clintVars) \/ AcknowledgeMsi \/ AcknowledgeMti
        \/ Others

\* The hart runs on. Handlers come to their end, however often they are
\* interrupted, and acknowledge before that.
Spec == /\ Init /\ [][Next]_allVars
        /\ WF_allVars((TakeInterrupt \/ WakeUp \/ Return) /\ UNCHANGED clintVars)
        /\ SF_allVars(Restore /\ UNCHANGED clintVars)

----------------------------------------------------------------------------
\* Whenever anybody can look, the timer interrupt of the hart is what time
\* and deadline say, across stores to either and the wrap of time.
TimerCurrent == "MTI" \in mip <=> mtime >= mtimecmp

\* An interrupt from another hart reaches its handler, whatever the hart is
\* doing: in a lower mode, waiting, or in nested handlers.
IpiServed == "MSI" \in mip ~>
  \E k \in DOMAIN frames : frames[k].cause = "MSI"

\* A hart that waits goes on when an interrupt stays pending, also one that
\* it does not allow.
WaitEnds == (in_wfi /\ pending # {}) ~> (~in_wfi \/ pending = {})
=============================================================================
