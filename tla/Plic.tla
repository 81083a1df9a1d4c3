------------------------------ MODULE Plic ------------------------------
(***************************************************************************)
(* The platform-level interrupt controller of riscv/plic.cc.               *)
(*                                                                         *)
(* The bit words of a context are sets of interrupt ids; the ids of a      *)
(* model fit in one word, so a store to an enable register writes the      *)
(* whole set. Every operation is atomic: a store or load of a hart, or a   *)
(* call of set_interrupt_level by a device, runs to its end. An operator   *)
(* marked "Faulty" is used by no action.                                   *)
(***************************************************************************)
EXTENDS Naturals

CONSTANTS
  NContexts,   \* contexts.size(): M-mode and S-mode of every hart
  NDev,        \* ndev: interrupt ids are 1 .. NDev
  MaxPrio,     \* max_prio
  Owner        \* the context a disciplined driver enables an id in

Contexts == 0 .. NContexts - 1
Ids == 1 .. NDev
Priorities == 0 .. MaxPrio
Values == 0 .. MaxPrio + 1   \* what software stores, one value too large

ASSUME PlicAssumption ==
  /\ NContexts \in Nat \ {0} /\ NDev \in Nat /\ MaxPrio \in Nat
  /\ Owner \in [Ids -> Contexts]

VARIABLES
  priority, level,
  priority_threshold, enable, pending, pending_priority, claimed, \* contexts
  mip          \* the MEIP or SEIP bit of the context's hart

contextVars == <<enable, pending, pending_priority, claimed>>
plicVars == <<priority, level, priority_threshold, contextVars, mip>>

PlicInit ==
  /\ priority = [i \in Ids |-> 0] /\ level = {}
  /\ priority_threshold = [c \in Contexts |-> 0]
  /\ enable = [c \in Contexts |-> {}]
  /\ pending = [c \in Contexts |-> {}]
  /\ pending_priority = [c \in Contexts |-> [i \in Ids |-> 0]]
  /\ claimed = [c \in Contexts |-> {}]
  /\ mip = [c \in Contexts |-> FALSE]

----------------------------------------------------------------------------
\* What context c would signal: pending, not claimed, above its threshold.
Signalled(c) ==
  {i \in pending[c] \ claimed[c] :
     pending_priority[c][i] > priority_threshold[c]}

\* The highest priority wins, then the lowest id; 0 when there is none.
context_best_pending(c) ==
  LET beats(i, j) ==
        \/ pending_priority[c][i] > pending_priority[c][j]
        \/ pending_priority[c][i] = pending_priority[c][j] /\ i <= j
      best == {i \in Signalled(c) : \A j \in Signalled(c) : beats(i, j)}
  IN IF best = {} THEN 0 ELSE CHOOSE i \in best : TRUE

\* Ends every change of a context, with the values of after the change.
context_update(c) == mip' = [mip EXCEPT ![c] = (Signalled(c) # {})']

Field(v) == v % (MaxPrio + 1)   \* PLIC_PRIO_BITS bits

\* Load of CLAIM.
context_claim(c) ==
  /\ claimed' = [claimed EXCEPT ![c] =
                   @ \cup ({context_best_pending(c)} \ {0})]
  /\ UNCHANGED <<priority, level, priority_threshold, enable, pending,
                 pending_priority>>
  /\ context_update(c)

\* Takes effect when the interrupt becomes pending again: neither
\* pending_priority nor the line is updated.
priority_write(i, v) ==
  /\ priority' = [priority EXCEPT ![i] = Field(v)]
  /\ UNCHANGED <<level, priority_threshold, contextVars, mip>>

\* Faulty: a disabled interrupt stays claimed.
ClaimedAfterEnableAll(c, on) == claimed[c]
ClaimedAfterEnable(c, on) == claimed[c] \cap on

context_enable_write(c, on) ==
  LET raised == (on \ enable[c]) \cap level
      lowered == enable[c] \ on
  IN /\ enable' = [enable EXCEPT ![c] = on]
     /\ pending' = [pending EXCEPT ![c] = (@ \cup raised) \ lowered]
     /\ pending_priority' = [pending_priority EXCEPT ![c] = [i \in Ids |->
          IF i \in raised THEN priority[i]
          ELSE IF i \in lowered THEN 0 ELSE @[i]]]
     /\ claimed' = [claimed EXCEPT ![c] = ClaimedAfterEnable(c, on)]
     /\ UNCHANGED <<priority, level, priority_threshold>>
     /\ context_update(c)

\* Faulty: the line is left as it was.
ThresholdUpdateNone(c) == UNCHANGED mip
ThresholdUpdate(c) == context_update(c)

WriteThreshold(c, v) ==
  /\ priority_threshold' = [priority_threshold EXCEPT ![c] = Field(v)]
  /\ UNCHANGED <<priority, level, contextVars>>
  /\ ThresholdUpdate(c)

Completes(c, i) == i \in enable[c]

\* Store to CLAIM: completion of an enabled interrupt.
Complete(c, i) ==
  /\ UNCHANGED <<priority, level, priority_threshold, enable, pending,
                 pending_priority>>
  /\ IF Completes(c, i)
     THEN /\ claimed' = [claimed EXCEPT ![c] = @ \ {i}]
          /\ context_update(c)
     ELSE UNCHANGED <<claimed, mip>>

\* Only the first context that enables the id is told.
Told(i) == {c \in Contexts : /\ i \in enable[c]
                             /\ \A d \in 0 .. c - 1 : i \notin enable[d]}

\* Faulty: an interrupt that is being served does not go away.
WithdrawnUnlessClaimed(c, i) == i \notin claimed[c]
Withdrawn(c, i) == TRUE

set_interrupt_level(i, lvl) ==
  /\ level' = IF lvl THEN level \cup {i} ELSE level \ {i}
  /\ pending' = [c \in Contexts |->
       IF c \notin Told(i) THEN pending[c]
       ELSE IF lvl THEN pending[c] \cup {i}
       ELSE IF Withdrawn(c, i) THEN pending[c] \ {i} ELSE pending[c]]
  /\ pending_priority' = [c \in Contexts |->
       IF c \notin Told(i) THEN pending_priority[c]
       ELSE [pending_priority[c] EXCEPT ![i] =
              IF lvl THEN priority[i] ELSE IF Withdrawn(c, i) THEN 0 ELSE @]]
  /\ claimed' = [c \in Contexts |->
       IF c \in Told(i) /\ ~lvl THEN claimed[c] \ {i} ELSE claimed[c]]
  /\ UNCHANGED <<priority, priority_threshold, enable>>
  /\ mip' = [c \in Contexts |->
       IF c \in Told(i) THEN (Signalled(c) # {})' ELSE mip[c]]

----------------------------------------------------------------------------
HartAccess ==
  \/ \E c \in Contexts : \/ context_claim(c)
                         \/ \E v \in Values : WriteThreshold(c, v)
                         \/ \E i \in Ids : Complete(c, i)
  \/ \E i \in Ids, lvl \in BOOLEAN : set_interrupt_level(i, lvl)

AnySetup ==
  \/ \E c \in Contexts, on \in SUBSET Ids : context_enable_write(c, on)
  \/ \E i \in Ids, v \in Values : priority_write(i, v)

\* Software that enables an id in one context, and changes its priority
\* only while it is disabled.
Owned(c) == {i \in Ids : Owner[i] = c}
DriverSetup ==
  \/ \E c \in Contexts : \E on \in SUBSET Owned(c) : context_enable_write(c, on)
  \/ \E i \in Ids, v \in Values :
       /\ \A c \in Contexts : i \notin enable[c]
       /\ priority_write(i, v)

PlicNext == HartAccess \/ AnySetup
PlicSpec == PlicInit /\ [][PlicNext]_plicVars
DriverNext == HartAccess \/ DriverSetup
DriverSpec == PlicInit /\ [][DriverNext]_plicVars

----------------------------------------------------------------------------
PlicTypeOK ==
  /\ priority \in [Ids -> Priorities] /\ level \in SUBSET Ids
  /\ priority_threshold \in [Contexts -> Priorities]
  /\ enable \in [Contexts -> SUBSET Ids]
  /\ pending \in [Contexts -> SUBSET Ids]
  /\ pending_priority \in [Contexts -> [Ids -> Priorities]]
  /\ claimed \in [Contexts -> SUBSET Ids]
  /\ mip \in [Contexts -> BOOLEAN]

\* No context keeps an interrupt in service that is not pending in it any
\* more, or pending that it has disabled (context_enable_write and
\* set_interrupt_level clear the three words together); such a bit would
\* mask the interrupt for ever.
ServiceIsCurrent ==
  \A c \in Contexts : claimed[c] \subseteq pending[c]
                      /\ pending[c] \subseteq enable[c]

\* The interrupt bit of a hart is what its context signals, after every
\* access and whatever device and software do in between.
LineMatchesContext ==
  \A c \in Contexts : mip[c] <=> context_best_pending(c) # 0

\* With disciplined software the controller is level triggered: a hart is
\* interrupted exactly while an enabled line above the threshold is high and
\* not in service, through every order of level changes, claims,
\* completions and enable writes.
LevelTriggered ==
  \A c \in Contexts :
    mip[c] <=> \E i \in enable[c] \cap level :
                 i \notin claimed[c] /\ priority[i] > priority_threshold[c]
=============================================================================
