-------------------------------- MODULE Npu --------------------------------
(***************************************************************************)
(* The dispatcher of the NPU cores, smart/sm_dispatch.cc, their barrier,   *)
(* smart/sm_barrier.cc, and the part of sim_t::step that suspends them,    *)
(* with the program of riscv_test/barrier/barrier.c: a control core starts *)
(* all cores and polls STATUS; every core meets the others at one barrier  *)
(* and then stores its exit code. The queues of the engines are empty, and *)
(* arguments, stacks and other barrier ids are left out. Cores are stepped *)
(* in any order.                                                           *)
(***************************************************************************)
EXTENDS Naturals, FiniteSets

CONSTANTS
  Cores,        \* SM_NPU_CORES: four
  info          \* per core, the fields of its barrier instruction: intra,
                \* core_num and main_flag

VARIABLES
  Busys, Exit_codes, sm_sched_suspend,   \* of sm_dispatch_t and the cores
  Waits, sync_num, sync_curr,            \* of the barrier
  pc,        \* cores: "off", "barrier", "ecode", "end"
  control    \* of the control core: "start", "poll", "end"

dispatchVars == <<Busys, Exit_codes>>
barrierVars == <<Waits, sync_num, sync_curr>>
vars == <<dispatchVars, sm_sched_suspend, barrierVars, pc, control>>

Init == /\ Busys = {} /\ Exit_codes = [c \in Cores |-> 0]
        /\ sm_sched_suspend = Cores
        /\ Waits = {} /\ sync_num = 0 /\ sync_curr = 0
        /\ pc = [c \in Cores |-> "off"] /\ control = "start"

STATUS == Busys

\* A store to START is refused while a core is busy.
Start == /\ control = "start" /\ control' = "poll"
         /\ Busys = {}
         /\ Busys' = Cores /\ Exit_codes' = [c \in Cores |-> 0]
         /\ sm_sched_suspend' = {}
         /\ pc' = [c \in Cores |-> "barrier"]
         /\ UNCHANGED barrierVars

Poll == /\ control = "poll" /\ STATUS = {} /\ control' = "end"
        /\ UNCHANGED <<dispatchVars, sm_sched_suspend, barrierVars, pc>>

Runs(c, place) == c \notin sm_sched_suspend /\ pc[c] = place
GoesOn(c) == pc' = [pc EXCEPT ![c] = "ecode"]

----------------------------------------------------------------------------
\* barrier(p, info) and what step does with its exception.

\* Returns at once: refused, or nobody to wait for.
Passable(c) == \/ info[c].intra = 0
               \/ info[c].core_num = 0 \/ info[c].core_num > 4
               \/ info[c].core_num = 1 /\ Waits = {}

BarrierPasses(c) ==
  /\ Runs(c, "barrier") /\ Passable(c)
  /\ GoesOn(c) /\ UNCHANGED <<sm_sched_suspend, barrierVars>>

\* The first to wait sets the count anew; a number that differs is logged.
NewNum(c) == IF Waits = {} THEN info[c].core_num ELSE sync_num
NewCurr == IF Waits = {} THEN 1 ELSE sync_curr + 1
Counts(c) == /\ Runs(c, "barrier") /\ ~Passable(c)
             /\ sync_num' = NewNum(c) /\ sync_curr' = NewCurr

BarrierReleases(c) ==
  /\ Counts(c) /\ NewCurr = NewNum(c)
  /\ sm_sched_suspend' = sm_sched_suspend \ Waits
  /\ Waits' = {} /\ GoesOn(c)

BarrierSignals(c) ==
  /\ Counts(c) /\ NewCurr # NewNum(c) /\ info[c].main_flag = 0
  /\ GoesOn(c) /\ UNCHANGED <<sm_sched_suspend, Waits>>

\* The core throws, and step suspends it without advancing its pc.
BarrierWaits(c) ==
  /\ Counts(c) /\ NewCurr # NewNum(c) /\ info[c].main_flag = 1
  /\ Waits' = Waits \cup {c}
  /\ sm_sched_suspend' = sm_sched_suspend \cup {c}
  /\ UNCHANGED pc

Barrier(c) == /\ BarrierPasses(c) \/ BarrierReleases(c)
                 \/ BarrierSignals(c) \/ BarrierWaits(c)
              /\ UNCHANGED <<dispatchVars, control>>

\* The store of a busy core to its ECODE returns without an effect: neither
\* the code nor the busy bit changes, and the core is not suspended.
StoreEcode(c) == /\ Runs(c, "ecode") /\ c \in Busys
                 /\ pc' = [pc EXCEPT ![c] = "end"]
                 /\ UNCHANGED <<dispatchVars, sm_sched_suspend, barrierVars, control>>

CoreStep(c) == Barrier(c) \/ StoreEcode(c)
Next == Start \/ Poll \/ \E c \in Cores : CoreStep(c)
\* The main loop steps every core that is not suspended.
Spec == /\ Init /\ [][Next]_vars /\ WF_vars(Start \/ Poll)
        /\ \A c \in Cores : WF_vars(CoreStep(c))

\* Claimed by riscv_test/barrier/barrier.c:72, which prints "after main
\* barrier": a core that waits for the others goes on when all have come.
MainPasses ==
  \A c \in Cores : pc[c] = "barrier" ~> pc[c] # "barrier"
=============================================================================
