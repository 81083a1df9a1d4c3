------------------------------ MODULE SimLoop ------------------------------
(***************************************************************************)
(* The main loop of the simulator, riscv/sim.cc: idle() and step(n), the   *)
(* only place where harts run and devices get time. A call of a hart's     *)
(* step is one action; what it executes is left out, except that it can    *)
(* suspend the hart (the two exceptions that step catches) or wake those   *)
(* that wait at a barrier. The interactive mode and the end of the         *)
(* simulation (done()) are left out.                                       *)
(***************************************************************************)
EXTENDS Naturals

CONSTANTS
  NProcs,       \* procs.size()
  INTERLEAVE,   \* the n of step, positive: 5000
  SizeWrap      \* size_t counts modulo 2^64, above INTERLEAVE

Procs == 0 .. NProcs - 1

VARIABLES
  pc,          \* "idle", "outer", "inner", "devices", "bitbang"
  i, j,        \* the counters of the two loops
  suspended    \* sm_sched_suspend of each hart

vars == <<pc, i, j, suspended>>

Init == /\ pc = "idle" /\ i = 0 /\ j = 0
        /\ suspended = [p \in Procs |-> FALSE]

Next_i == (i + 1) % SizeWrap

Idle == pc = "idle" /\ pc' = "outer" /\ i' = 0 /\ UNCHANGED <<j, suspended>>

Outer ==
  /\ pc = "outer"
  /\ IF i < INTERLEAVE THEN pc' = "inner" /\ j' = 0
                       ELSE pc' = "devices" /\ UNCHANGED j
  /\ UNCHANGED <<i, suspended>>

\* The body of the inner loop, then its increment.
StepHart ==
  /\ pc = "inner" /\ j < NProcs
  /\ \/ UNCHANGED suspended
     \/ /\ ~suspended[j]     \* sm_npucore_exit_t or sm_npucore_barrier_t
        /\ suspended' = [suspended EXCEPT ![j] = TRUE]
     \/ /\ ~suspended[j]     \* the last arrival at a barrier
        /\ suspended' = [p \in Procs |-> FALSE]
  /\ i' = Next_i
  /\ UNCHANGED <<pc, j>>

EndInner ==
  /\ pc = "inner" /\ j >= NProcs
  /\ pc' = "outer" /\ i' = Next_i
  /\ UNCHANGED <<j, suspended>>

TickDevices == pc = "devices" /\ pc' = "bitbang" /\ UNCHANGED <<i, j, suspended>>
TickBitbang == pc = "bitbang" /\ pc' = "idle" /\ UNCHANGED <<i, j, suspended>>

Next == Idle \/ Outer \/ StepHart \/ EndInner \/ TickDevices \/ TickBitbang
\* The simulator's thread runs on.
Spec == Init /\ [][Next]_vars /\ WF_vars(Next)

\* Claimed by the comment at sim.cc:311: htif_t::run() calls idle() again
\* and again, "each invocation of which will advance target time", that is,
\* gives the devices their ticks.
IdleAdvancesTime == pc = "outer" ~> pc = "devices"
=============================================================================
