----------------------- MODULE UartInterrupts_proofs -----------------------
(***************************************************************************)
(* Proofs about the interrupt controller, for any number of contexts, ids  *)
(* and priorities; about the UART, for any queue size; and about the two   *)
(* wired together. Each behaves there as its own specification says, so    *)
(* what is proved of it alone holds of the composition.                    *)
(***************************************************************************)
EXTENDS UartInterrupts, WellFoundedInduction, TLAPS

(***************************************************************************)
(* A set of naturals has a smallest element.                               *)
(***************************************************************************)
LEMMA NatMin == ASSUME NEW T \in SUBSET Nat, T # {}
                PROVE  \E x \in T : \A y \in T : x <= y
<1>1. PICK x \in T : \A y \in T : ~ (<<y, x>> \in OpToRel(<, Nat))
  BY NatLessThanWellFounded, WFMin
<1>2. ASSUME NEW y \in T PROVE x <= y
  <2>1. <<y, x>> \notin OpToRel(<, Nat)  BY <1>1
  <2>2. <<y, x>> \in Nat \X Nat  OBVIOUS
  <2>3. ~ (y < x)  BY <2>1, <2>2 DEF OpToRel
  <2>4. QED  BY <2>3
<1>3. QED  BY <1>2

(***************************************************************************)
(* context_best_pending finds an id exactly if there is one to find: the   *)
(* priorities of the signalled ids have a largest element, and the ids     *)
(* that have it a smallest.                                                *)
(***************************************************************************)
LEMMA BestIsSignalled ==
  ASSUME NEW c, 0 \notin Signalled(c), context_best_pending(c) # 0
  PROVE  context_best_pending(c) \in Signalled(c)
BY DEF context_best_pending

LEMMA FindsBest ==
  ASSUME PlicTypeOK, NEW c \in Contexts
  PROVE  context_best_pending(c) # 0 <=> Signalled(c) # {}
<1> DEFINE S == Signalled(c)
           prio(i) == pending_priority[c][i]
<1>1. S \subseteq Ids /\ \A i \in S : prio(i) \in Priorities
  BY DEF Signalled, PlicTypeOK
<1>2. MaxPrio \in Nat /\ Ids \subseteq Nat \ {0} /\ Priorities \subseteq Nat
  BY PlicAssumption DEF Ids, Priorities
<1>3. ASSUME S # {} PROVE context_best_pending(c) # 0
  <2> DEFINE gaps == {MaxPrio - prio(i) : i \in S}
  <2>1. gaps \in SUBSET Nat /\ gaps # {}
    <3>1. \A i \in S : MaxPrio - prio(i) \in Nat
      BY <1>1, <1>2 DEF Priorities
    <3>2. QED  BY <3>1, <1>3
  <2>2. PICK gap \in gaps : \A y \in gaps : gap <= y
    <3> HIDE DEF gaps
    <3>1. QED  BY <2>1, NatMin
  <2>3. PICK m \in S : gap = MaxPrio - prio(m)  BY <2>2
  <2>4. \A i \in S : prio(m) >= prio(i)
    <3>1. \A i \in S : MaxPrio - prio(m) <= MaxPrio - prio(i)
      BY <2>2, <2>3
    <3>2. QED  BY <3>1, <1>1, <1>2 DEF Priorities
  <2> DEFINE top == {i \in S : prio(i) = prio(m)}
  <2>5. top \in SUBSET Nat /\ top # {}  BY <2>3, <1>1, <1>2
  <2>6. PICK b \in top : \A y \in top : b <= y
    <3> HIDE DEF top
    <3>1. QED  BY <2>5, NatMin
  <2>7. \A i \in S : \/ prio(b) > prio(i)
                     \/ prio(b) = prio(i) /\ b <= i
    <3> SUFFICES ASSUME NEW i \in S
                 PROVE  prio(b) > prio(i) \/ (prio(b) = prio(i) /\ b <= i)
      OBVIOUS
    <3>1. CASE prio(i) = prio(m)  BY <3>1, <2>6
    <3>2. CASE prio(i) # prio(m)
      <4>1. prio(b) = prio(m) /\ prio(b) >= prio(i) /\ prio(b) # prio(i)
        BY <3>2, <2>6, <2>4
      <4>2. prio(b) \in Nat /\ prio(i) \in Nat  BY <1>1, <1>2, <2>6
      <4>3. QED  BY <4>1, <4>2
    <3>3. QED  BY <3>1, <3>2
  <2> DEFINE best == {i \in S : \A j \in S :
                        \/ prio(i) > prio(j)
                        \/ prio(i) = prio(j) /\ i <= j}
  <2>8. b \in best  BY <2>6, <2>7
  <2>9. context_best_pending(c) = CHOOSE i \in best : TRUE
    BY <2>8 DEF context_best_pending
  <2>10. (CHOOSE i \in best : TRUE) \in best  BY <2>8
  <2>11. QED  BY <2>9, <2>10, <1>1, <1>2
<1>4. ASSUME S = {} PROVE context_best_pending(c) = 0
  BY <1>4 DEF context_best_pending
<1>5. QED  BY <1>3, <1>4

----------------------------------------------------------------------------
(***************************************************************************)
(* The inductive invariant of any software. LineMatchesContext is proved   *)
(* in the form of a set that is not empty: every handler ends with         *)
(* context_update of the contexts it has changed, and context_best_pending *)
(* is needed only to know which id a claim takes.                          *)
(***************************************************************************)
LineOfContext == \A c \in Contexts : mip[c] <=> Signalled(c) # {}
PlicInv == PlicTypeOK /\ ServiceIsCurrent /\ LineOfContext

LEMMA InitInv == PlicInit => PlicInv
<1> SUFFICES ASSUME PlicInit PROVE PlicInv  OBVIOUS
<1>1. 0 \in Priorities  BY PlicAssumption DEF Priorities
<1>2. PlicTypeOK  BY <1>1 DEF PlicInit, PlicTypeOK
<1>3. ServiceIsCurrent  BY DEF PlicInit, ServiceIsCurrent
<1>4. LineOfContext  BY DEF PlicInit, LineOfContext, Signalled
<1>5. QED  BY <1>2, <1>3, <1>4 DEF PlicInv

(***************************************************************************)
(* A stored value is cut to the bits of the field (priority_write and      *)
(* context_write).                                                         *)
(***************************************************************************)
LEMMA FieldType == ASSUME NEW v \in Values PROVE Field(v) \in Priorities
BY PlicAssumption DEF Values, Field, Priorities

LEMMA ZeroPriority == 0 \in Priorities
BY PlicAssumption DEF Priorities

LEMMA ClaimInv ==
  ASSUME PlicInv, NEW c \in Contexts, context_claim(c) PROVE PlicInv'
<1> USE DEF PlicInv
<1> DEFINE taken == {context_best_pending(c)} \ {0}
<1>1. taken \subseteq Signalled(c)
  <2>1. 0 \notin Signalled(c)
    BY DEF Signalled, PlicTypeOK, Ids
  <2>2. QED  BY <2>1, BestIsSignalled
<1>2. taken \subseteq Ids /\ taken \subseteq pending[c]
  BY <1>1 DEF Signalled, PlicTypeOK
<1>3. claimed' = [claimed EXCEPT ![c] = @ \cup taken]
  BY DEF context_claim
<1> HIDE DEF taken
<1>4. claimed' \in [Contexts -> SUBSET Ids]
  BY <1>2, <1>3 DEF PlicTypeOK
<1>5. mip' \in [Contexts -> BOOLEAN]
  BY DEF context_claim, context_update, PlicTypeOK
<1>6. PlicTypeOK'  BY <1>4, <1>5 DEF context_claim, PlicTypeOK
<1>7. ServiceIsCurrent'
  BY <1>2, <1>3 DEF context_claim, ServiceIsCurrent, PlicTypeOK
<1>8. LineOfContext'
  BY <1>3 DEF context_claim, context_update, LineOfContext, Signalled,
              PlicTypeOK
<1>9. QED  BY <1>6, <1>7, <1>8

LEMMA ThresholdInv ==
  ASSUME PlicInv, NEW c \in Contexts, NEW v \in Values, WriteThreshold(c, v)
  PROVE  PlicInv'
<1> USE DEF PlicInv, WriteThreshold, ThresholdUpdate, context_update,
            contextVars
<1>1. PlicTypeOK'
  <2>1. priority_threshold' \in [Contexts -> Priorities]
    BY FieldType DEF PlicTypeOK
  <2>2. mip' \in [Contexts -> BOOLEAN]  BY DEF PlicTypeOK
  <2>3. QED  BY <2>1, <2>2 DEF PlicTypeOK
<1>2. ServiceIsCurrent'  BY DEF ServiceIsCurrent
<1>3. LineOfContext'
  BY DEF LineOfContext, Signalled, PlicTypeOK
<1>4. QED  BY <1>1, <1>2, <1>3

LEMMA CompleteInv ==
  ASSUME PlicInv, NEW c \in Contexts, NEW i \in Ids, Complete(c, i)
  PROVE  PlicInv'
<1> USE DEF PlicInv, Complete, Completes
<1>1. CASE Completes(c, i)
  <2>1. /\ claimed' = [claimed EXCEPT ![c] = @ \ {i}]
        /\ mip' = [mip EXCEPT ![c] = (Signalled(c) # {})']
    BY <1>1 DEF context_update
  <2>2. claimed' \in [Contexts -> SUBSET Ids]  BY <2>1 DEF PlicTypeOK
  <2>3. mip' \in [Contexts -> BOOLEAN]  BY <2>1 DEF PlicTypeOK
  <2>4. PlicTypeOK'  BY <2>2, <2>3 DEF PlicTypeOK
  <2>5. ServiceIsCurrent'  BY <2>1 DEF ServiceIsCurrent, PlicTypeOK
  <2>6. ASSUME NEW d \in Contexts PROVE mip'[d] <=> (Signalled(d) # {})'
    <3>1. CASE d = c  BY <2>1, <3>1 DEF PlicTypeOK
    <3>2. CASE d # c
      BY <2>1, <3>2 DEF LineOfContext, Signalled, PlicTypeOK
    <3>3. QED  BY <3>1, <3>2
  <2>7. LineOfContext'  BY <2>6 DEF LineOfContext
  <2>8. QED  BY <2>4, <2>5, <2>7
<1>2. CASE ~Completes(c, i)
  BY <1>2 DEF PlicTypeOK, ServiceIsCurrent, LineOfContext, Signalled
<1>3. QED  BY <1>1, <1>2

LEMMA LevelInv ==
  ASSUME PlicInv, NEW i \in Ids, NEW lvl \in BOOLEAN,
         set_interrupt_level(i, lvl)
  PROVE  PlicInv'
<1> USE DEF PlicInv, set_interrupt_level, Withdrawn
<1>1. PlicTypeOK'
  <2>1. level' \in SUBSET Ids  BY DEF PlicTypeOK
  <2>2. pending' \in [Contexts -> SUBSET Ids]  BY DEF PlicTypeOK
  <2>3. pending_priority' \in [Contexts -> [Ids -> Priorities]]
    BY ZeroPriority DEF PlicTypeOK
  <2>4. claimed' \in [Contexts -> SUBSET Ids]  BY DEF PlicTypeOK
  <2>5. mip' \in [Contexts -> BOOLEAN]  BY DEF PlicTypeOK
  <2>6. QED  BY <2>1, <2>2, <2>3, <2>4, <2>5 DEF PlicTypeOK
<1>2. ServiceIsCurrent'
  <2> SUFFICES ASSUME NEW c \in Contexts
               PROVE  claimed'[c] \subseteq pending'[c]
                      /\ pending'[c] \subseteq enable'[c]
    BY DEF ServiceIsCurrent
  <2>1. CASE c \in Told(i)
    <3>1. i \in enable[c]  BY <2>1 DEF Told
    <3>2. QED  BY <2>1, <3>1 DEF ServiceIsCurrent, PlicTypeOK
  <2>2. CASE c \notin Told(i)  BY <2>2 DEF ServiceIsCurrent, PlicTypeOK
  <2>3. QED  BY <2>1, <2>2
<1>3. LineOfContext'
  <2> SUFFICES ASSUME NEW c \in Contexts
               PROVE  mip'[c] <=> (Signalled(c) # {})'
    BY DEF LineOfContext
  <2>1. CASE c \in Told(i)  BY <2>1
  <2>2. CASE c \notin Told(i)
    BY <2>2 DEF LineOfContext, Signalled, PlicTypeOK
  <2>3. QED  BY <2>1, <2>2
<1>4. QED  BY <1>1, <1>2, <1>3

LEMMA EnableInv ==
  ASSUME PlicInv, NEW c \in Contexts, NEW on \in SUBSET Ids,
         context_enable_write(c, on)
  PROVE  PlicInv'
<1> USE DEF PlicInv, context_enable_write, ClaimedAfterEnable,
            context_update
<1>1. PlicTypeOK'
  <2>1. enable' \in [Contexts -> SUBSET Ids]  BY DEF PlicTypeOK
  <2>2. pending' \in [Contexts -> SUBSET Ids]  BY DEF PlicTypeOK
  <2>3. pending_priority' \in [Contexts -> [Ids -> Priorities]]
    BY ZeroPriority DEF PlicTypeOK
  <2>4. claimed' \in [Contexts -> SUBSET Ids]  BY DEF PlicTypeOK
  <2>5. mip' \in [Contexts -> BOOLEAN]  BY DEF PlicTypeOK
  <2>6. QED  BY <2>1, <2>2, <2>3, <2>4, <2>5 DEF PlicTypeOK
<1>2. ServiceIsCurrent'  BY DEF ServiceIsCurrent, PlicTypeOK
<1>3. LineOfContext'
  BY DEF LineOfContext, Signalled, PlicTypeOK
<1>4. QED  BY <1>1, <1>2, <1>3

LEMMA PriorityInv ==
  ASSUME PlicInv, NEW i \in Ids, NEW v \in Values, priority_write(i, v)
  PROVE  PlicInv'
<1> USE DEF PlicInv, priority_write, contextVars
<1>1. PlicTypeOK'  BY FieldType DEF PlicTypeOK
<1>2. ServiceIsCurrent'  BY DEF ServiceIsCurrent
<1>3. LineOfContext'  BY DEF LineOfContext, Signalled
<1>4. QED  BY <1>1, <1>2, <1>3

LEMMA NextInv == PlicInv /\ [PlicNext]_plicVars => PlicInv'
<1> SUFFICES ASSUME PlicInv, [PlicNext]_plicVars PROVE PlicInv'  OBVIOUS
<1>1. CASE HartAccess
  BY <1>1, ClaimInv, ThresholdInv, CompleteInv, LevelInv DEF HartAccess
<1>2. CASE AnySetup  BY <1>2, EnableInv, PriorityInv DEF AnySetup
<1>3. CASE UNCHANGED plicVars
  BY <1>3 DEF plicVars, contextVars, PlicInv, PlicTypeOK, ServiceIsCurrent,
              LineOfContext, Signalled
<1>4. QED  BY <1>1, <1>2, <1>3 DEF PlicNext

LEMMA Invariant == PlicSpec => []PlicInv
<1>1. QED  BY InitInv, NextInv, PTL DEF PlicSpec

(***************************************************************************)
(* The state stays well typed whatever software and devices do: stored     *)
(* values are cut to their fields and claims take ids only.                *)
(***************************************************************************)
THEOREM PlicTyping == PlicSpec => []PlicTypeOK
<1>1. PlicInv => PlicTypeOK  BY DEF PlicInv
<1>2. QED  BY <1>1, Invariant, PTL

(***************************************************************************)
(* No context keeps a service bit that set_interrupt_level or              *)
(* context_enable_write should have cleared.                               *)
(***************************************************************************)
THEOREM ServiceStaysCurrent == PlicSpec => []ServiceIsCurrent
<1>1. PlicInv => ServiceIsCurrent  BY DEF PlicInv
<1>2. QED  BY <1>1, Invariant, PTL

(***************************************************************************)
(* The interrupt bit of a hart is up to date with what context_best_pending*)
(* would find, after every access.                                         *)
(***************************************************************************)
THEOREM LineIsCurrent == PlicSpec => []LineMatchesContext
<1>1. PlicInv => LineMatchesContext
  BY FindsBest DEF PlicInv, LineOfContext, LineMatchesContext
<1>2. QED  BY <1>1, Invariant, PTL

----------------------------------------------------------------------------
(***************************************************************************)
(* Disciplined software: each context is the only one that enables its     *)
(* ids, so Told(i), where set_interrupt_level stops, is every context that *)
(* enables i; and the priorities that were copied are still the current    *)
(* ones. Without either conjunct pending and level come apart.             *)
(***************************************************************************)
OneOwner == \A c \in Contexts : \A i \in enable[c] : Owner[i] = c
PendingIsLevel == \A c \in Contexts : pending[c] = enable[c] \cap level
CopiesCurrent ==
  \A c \in Contexts : \A i \in pending[c] : pending_priority[c][i] = priority[i]
DriverInv == PlicInv /\ OneOwner /\ PendingIsLevel /\ CopiesCurrent

LEMMA DriverInit == PlicInit => DriverInv
<1> SUFFICES ASSUME PlicInit PROVE DriverInv  OBVIOUS
<1>1. OneOwner /\ PendingIsLevel /\ CopiesCurrent
  BY DEF PlicInit, OneOwner, PendingIsLevel, CopiesCurrent
<1>2. QED  BY <1>1, InitInv DEF DriverInv

LEMMA ToldIsOwner ==
  ASSUME PlicTypeOK, OneOwner, NEW i \in Ids
  PROVE  Told(i) = {c \in Contexts : i \in enable[c]}
<1> SUFFICES ASSUME NEW c \in Contexts, i \in enable[c], NEW d \in 0 .. c - 1
             PROVE  i \notin enable[d]
  BY DEF Told
<1>1. d \in Contexts /\ d # c
  BY PlicAssumption DEF Contexts
<1>2. QED  BY <1>1 DEF OneOwner

LEMMA DriverLevel ==
  ASSUME DriverInv, NEW i \in Ids, NEW lvl \in BOOLEAN,
         set_interrupt_level(i, lvl)
  PROVE  OneOwner' /\ PendingIsLevel' /\ CopiesCurrent'
<1> USE DEF DriverInv, PlicInv
<1>1. OneOwner'  BY DEF set_interrupt_level, OneOwner
<1>2. \A c \in Contexts : c \in Told(i) <=> i \in enable[c]
  BY ToldIsOwner
<1>3. PendingIsLevel'
  <2> SUFFICES ASSUME NEW c \in Contexts
               PROVE  pending'[c] = enable'[c] \cap level'
    BY DEF PendingIsLevel
  <2>1. CASE c \in Told(i)
    <3>1. pending'[c] = IF lvl THEN pending[c] \cup {i} ELSE pending[c] \ {i}
      BY <2>1 DEF set_interrupt_level, Withdrawn
    <3>2. i \in enable[c]  BY <1>2, <2>1
    <3>3. QED  BY <3>1, <3>2 DEF set_interrupt_level, PendingIsLevel
  <2>2. CASE c \notin Told(i)
    <3>1. i \notin enable[c]  BY <1>2, <2>2
    <3>2. QED  BY <2>2, <3>1 DEF set_interrupt_level, PendingIsLevel
  <2>3. QED  BY <2>1, <2>2
<1>4. CopiesCurrent'
  <2> SUFFICES ASSUME NEW c \in Contexts, NEW k \in pending'[c]
               PROVE  pending_priority'[c][k] = priority'[k]
    BY DEF CopiesCurrent
  <2>1. CASE c \in Told(i)
    <3>1. CASE k = i
      BY <2>1, <3>1 DEF set_interrupt_level, Withdrawn, PlicTypeOK
    <3>2. CASE k # i
      BY <2>1, <3>2 DEF set_interrupt_level, Withdrawn, CopiesCurrent, PlicTypeOK
    <3>3. QED  BY <3>1, <3>2
  <2>2. CASE c \notin Told(i)
    BY <2>2 DEF set_interrupt_level, CopiesCurrent
  <2>3. QED  BY <2>1, <2>2
<1>5. QED  BY <1>1, <1>3, <1>4

LEMMA DriverEnable ==
  ASSUME DriverInv, NEW c \in Contexts,
         NEW on \in SUBSET Owned(c),
         context_enable_write(c, on)
  PROVE  OneOwner' /\ PendingIsLevel' /\ CopiesCurrent'
<1> USE DEF DriverInv, PlicInv, context_enable_write
<1>1. OneOwner'  BY DEF OneOwner, Owned, PlicTypeOK
<1>2. PendingIsLevel'
  <2> SUFFICES ASSUME NEW d \in Contexts
               PROVE  pending'[d] = enable'[d] \cap level'
    BY DEF PendingIsLevel
  <2>1. CASE d = c  BY <2>1 DEF PendingIsLevel, PlicTypeOK
  <2>2. CASE d # c  BY <2>2 DEF PendingIsLevel, PlicTypeOK
  <2>3. QED  BY <2>1, <2>2
<1>3. CopiesCurrent'
  <2> SUFFICES ASSUME NEW d \in Contexts, NEW k \in pending'[d]
               PROVE  pending_priority'[d][k] = priority'[k]
    BY DEF CopiesCurrent
  <2>1. CASE d = c  BY <2>1 DEF CopiesCurrent, PlicTypeOK
  <2>2. CASE d # c  BY <2>2 DEF CopiesCurrent, PlicTypeOK
  <2>3. QED  BY <2>1, <2>2
<1>4. QED  BY <1>1, <1>2, <1>3

LEMMA DriverNextInv == DriverInv /\ [DriverNext]_plicVars => DriverInv'
<1> SUFFICES ASSUME DriverInv, [DriverNext]_plicVars PROVE DriverInv'  OBVIOUS
<1>1. PlicInv'
  <2>1. ASSUME NEW c \in Contexts,
               NEW on \in SUBSET Owned(c),
               context_enable_write(c, on)
        PROVE  AnySetup
    <3>1. on \in SUBSET Ids  BY DEF Owned
    <3>2. QED  BY <2>1, <3>1 DEF AnySetup
  <2>2. ASSUME NEW i \in Ids, NEW v \in Values, priority_write(i, v)
        PROVE  AnySetup
    BY <2>2 DEF AnySetup
  <2>3. DriverSetup => AnySetup  BY <2>1, <2>2 DEF DriverSetup
  <2>4. QED  BY <2>3, NextInv DEF DriverInv, DriverNext, PlicNext
<1>2. ASSUME UNCHANGED <<priority, level, enable, pending, pending_priority>>
      PROVE  OneOwner' /\ PendingIsLevel' /\ CopiesCurrent'
  BY <1>2 DEF DriverInv, OneOwner, PendingIsLevel, CopiesCurrent
<1>3. ASSUME NEW c \in Contexts, context_claim(c)
      PROVE  OneOwner' /\ PendingIsLevel' /\ CopiesCurrent'
  BY <1>2, <1>3 DEF context_claim
<1>4. ASSUME NEW c \in Contexts, NEW v \in Values, WriteThreshold(c, v)
      PROVE  OneOwner' /\ PendingIsLevel' /\ CopiesCurrent'
  BY <1>2, <1>4 DEF WriteThreshold, contextVars
<1>5. ASSUME NEW c \in Contexts, NEW i \in Ids, Complete(c, i)
      PROVE  OneOwner' /\ PendingIsLevel' /\ CopiesCurrent'
  BY <1>2, <1>5 DEF Complete
<1>6. ASSUME NEW i \in Ids, NEW v \in Values,
             \A c \in Contexts : i \notin enable[c], priority_write(i, v)
      PROVE  OneOwner' /\ PendingIsLevel' /\ CopiesCurrent'
  <2>1. OneOwner' /\ PendingIsLevel'
    BY <1>6 DEF priority_write, contextVars, DriverInv, OneOwner,
                PendingIsLevel
  <2>2. CopiesCurrent'
    BY <1>6 DEF priority_write, contextVars, DriverInv, PlicInv,
                ServiceIsCurrent, CopiesCurrent, PlicTypeOK
  <2>3. QED  BY <2>1, <2>2
<1>7. ASSUME UNCHANGED plicVars
      PROVE  OneOwner' /\ PendingIsLevel' /\ CopiesCurrent'
  BY <1>2, <1>7 DEF plicVars, contextVars
<1>8. ASSUME HartAccess PROVE OneOwner' /\ PendingIsLevel' /\ CopiesCurrent'
  BY <1>8, <1>3, <1>4, <1>5, DriverLevel DEF HartAccess
<1>9. ASSUME DriverSetup PROVE OneOwner' /\ PendingIsLevel' /\ CopiesCurrent'
  BY <1>9, <1>6, DriverEnable DEF DriverSetup
<1>10. OneOwner' /\ PendingIsLevel' /\ CopiesCurrent'
  BY <1>7, <1>8, <1>9 DEF DriverNext
<1>11. QED  BY <1>1, <1>10 DEF DriverInv

(***************************************************************************)
(* With disciplined software the controller is level triggered, whatever   *)
(* the order of level changes, claims, completions and enable writes.      *)
(***************************************************************************)
THEOREM DriverSeesLevels == DriverSpec => []LevelTriggered
<1>1. DriverInv => LevelTriggered
  <2> SUFFICES ASSUME DriverInv, NEW c \in Contexts
               PROVE  mip[c] <=> \E i \in enable[c] \cap level :
                        i \notin claimed[c] /\ priority[i] > priority_threshold[c]
    BY DEF LevelTriggered
  <2>1. mip[c] <=> Signalled(c) # {}
    BY DEF DriverInv, PlicInv, LineOfContext
  <2>2. Signalled(c) = {i \in enable[c] \cap level :
                          i \notin claimed[c] /\ priority[i] > priority_threshold[c]}
    BY DEF DriverInv, PendingIsLevel, CopiesCurrent, Signalled
  <2>3. QED  BY <2>1, <2>2
<1>2. DriverSpec => []DriverInv
  BY DriverInit, DriverNextInv, PTL DEF DriverSpec
<1>3. QED  BY <1>1, <1>2, PTL

----------------------------------------------------------------------------
(***************************************************************************)
(* The UART, for any software.                                             *)
(***************************************************************************)

(***************************************************************************)
(* The inductive invariant. The line is stated with the ready bit, which   *)
(* is what update_interrupt looks at; ReadyMatchesQueue ties it to the     *)
(* queue.                                                                  *)
(***************************************************************************)
LineOfBits == line <=> ("THRI" \in ier \/ ("RDI" \in ier /\ data_ready))
UartInv == UartTypeOK /\ ReadyMatchesQueue /\ LineOfBits

LEMMA UartInitInv == UartInit => UartInv
<1> SUFFICES ASSUME UartInit PROVE UartInv  OBVIOUS
<1>1. rx \in 0 .. QueueSize /\ backoff \in 0 .. MaxBackoff
  BY UartAssumption DEF UartInit
<1>2. UartTypeOK
  BY <1>1 DEF UartInit, UartTypeOK, NoLcr, LcrValues, Sources
<1>3. ReadyMatchesQueue  BY DEF UartInit, ReadyMatchesQueue
<1>4. LineOfBits  BY DEF UartInit, LineOfBits
<1>5. QED  BY <1>2, <1>3, <1>4 DEF UartInv

(***************************************************************************)
(* The part of the invariant that update_interrupt establishes, from a     *)
(* queue length, a ready bit that matches it, enables and a line format.   *)
(***************************************************************************)
Updated ==
  /\ rx \in 0 .. QueueSize /\ data_ready \in BOOLEAN
  /\ ier \in SUBSET Sources /\ iir \in SUBSET Sources
  /\ lcr \in LcrValues /\ line \in BOOLEAN
  /\ ReadyMatchesQueue /\ LineOfBits

LEMMA UpdateEstablishes ==
  ASSUME NEW q \in 0 .. QueueSize, NEW d \in BOOLEAN, d <=> q > 0,
         NEW e \in SUBSET Sources, NEW l \in LcrValues,
         update_interrupt(q, d, e, l)
  PROVE  Updated'
<1> USE UartAssumption
<1> DEFINE ready == ReadyAfterClear(l, d)
           interrupts == {s \in e : s = "RDI" => ready}
<1>1. /\ rx' = IF l.clear_rcvr THEN 0 ELSE q
      /\ data_ready' = ready /\ ier' = e
      /\ lcr' = [l EXCEPT !.clear_rcvr = FALSE, !.clear_xmit = FALSE]
      /\ iir' = interrupts /\ line' = (interrupts # {})
  BY DEF update_interrupt
<1>2. l.clear_rcvr \in BOOLEAN  BY DEF LcrValues
<1>3. /\ rx' \in 0 .. QueueSize /\ data_ready' \in BOOLEAN
      /\ data_ready' <=> rx' > 0
  <2>1. CASE l.clear_rcvr
    <3>1. rx' = 0 /\ data_ready' = FALSE
      BY <1>1, <2>1 DEF ReadyAfterClear
    <3>2. ~ (0 > 0)  OBVIOUS
    <3>3. data_ready' <=> rx' > 0  BY <3>1, <3>2, Zenon
    <3>4. 0 \in 0 .. QueueSize  OBVIOUS
    <3>5. QED  BY <3>1, <3>3, <3>4, Zenon
  <2>2. CASE ~l.clear_rcvr
    <3>1. rx' = q /\ data_ready' = d
      BY <1>1, <2>2 DEF ReadyAfterClear
    <3>2. data_ready' <=> rx' > 0  BY <3>1, Zenon
    <3>3. rx' \in 0 .. QueueSize /\ data_ready' \in BOOLEAN  BY <3>1
    <3>4. QED  BY <3>2, <3>3, Zenon
  <2>3. QED  BY <1>2, <2>1, <2>2, Zenon
<1>4. ReadyMatchesQueue'  BY <1>3 DEF ReadyMatchesQueue
<1>5. lcr' \in LcrValues  BY <1>1 DEF LcrValues
<1>6. LineOfBits'
  <2>1. line' <=> \E s \in e : s = "RDI" => data_ready'
    BY <1>1
  <2>2. \A s \in e : s \in {"RDI", "THRI"}  BY DEF Sources
  <2>3. line' <=> ("THRI" \in e \/ ("RDI" \in e /\ data_ready'))
    BY <2>1, <2>2
  <2>4. QED  BY <2>3, <1>1 DEF LineOfBits
<1>7. ier' \in SUBSET Sources /\ iir' \in SUBSET Sources /\ line' \in BOOLEAN
  BY <1>1
<1>8. QED  BY <1>3, <1>4, <1>5, <1>6, <1>7 DEF Updated

LEMMA UartNextInv == UartInv /\ [UartNext]_uartVars => UartInv'
<1> SUFFICES ASSUME UartInv, [UartNext]_uartVars PROVE UartInv'  OBVIOUS
<1> USE UartAssumption DEF UartInv
<1>1. rx \in 0 .. QueueSize /\ data_ready \in BOOLEAN /\ ier \in SUBSET Sources
      /\ lcr \in LcrValues
  BY DEF UartTypeOK
<1>2. data_ready <=> rx > 0  BY DEF ReadyMatchesQueue
<1>3. ASSUME update_interrupt(rx, data_ready, ier, lcr) PROVE Updated'
  BY <1>1, <1>2, <1>3, UpdateEstablishes
<1>4. ASSUME UNCHANGED <<rx, data_ready, ier, iir, lcr, line>> PROVE Updated'
  BY <1>4 DEF UartTypeOK, ReadyMatchesQueue, LineOfBits, Updated
<1>5. ASSUME Updated', fifo' \in BOOLEAN, fcr_clear' \in BOOLEAN,
             loop' \in BOOLEAN, backoff' \in 0 .. MaxBackoff
      PROVE  UartInv'
  BY <1>5 DEF Updated, UartTypeOK
<1>6. fifo \in BOOLEAN /\ fcr_clear \in BOOLEAN /\ loop \in BOOLEAN
      /\ backoff \in 0 .. MaxBackoff
  BY DEF UartTypeOK
<1>7. CASE LoadRx
  <2>1. Updated'
    <3>1. CASE lcr.dlab  BY <1>3, <1>7, <3>1 DEF LoadRx
    <3>2. CASE ~lcr.dlab
      <4> DEFINE q == IF rx > 0 THEN rx - 1 ELSE 0
      <4>1. q \in 0 .. QueueSize  BY <1>1
      <4>2. q > 0 <=> rx > 1  BY <1>1
      <4>3. rx > 1 => rx > 0  BY <1>1
      <4>4. update_interrupt(q, ReadyAfterRead, ier, lcr)
        BY <1>7, <3>2 DEF LoadRx
      <4> HIDE DEF q
      <4>5. ReadyAfterRead <=> q > 0
        BY <1>2, <4>2, <4>3, Zenon DEF ReadyAfterRead
      <4>6. ReadyAfterRead \in BOOLEAN  BY DEF ReadyAfterRead
      <4>7. QED  BY <1>1, <4>1, <4>4, <4>5, <4>6, UpdateEstablishes
    <3>3. QED  BY <3>1, <3>2
  <2>2. QED  BY <1>5, <1>6, <1>7, <2>1 DEF LoadRx
<1>8. ASSUME update_interrupt(rx + 1, TRUE, ier, lcr), rx < QueueSize
      PROVE  Updated'
  <2>1. rx + 1 \in 0 .. QueueSize /\ rx + 1 > 0  BY <1>1, <1>8
  <2>2. QED  BY <1>1, <1>8, <2>1, UpdateEstablishes
<1>9. CASE StoreTx
  <2>1. Updated'
    <3>1. CASE ~lcr.dlab /\ loop /\ HasRoom
      BY <1>8, <1>9, <3>1 DEF StoreTx, HasRoom
    <3>2. CASE ~(~lcr.dlab /\ loop /\ HasRoom)
      BY <1>3, <1>9, <3>2 DEF StoreTx
    <3>3. QED  BY <3>1, <3>2
  <2>2. QED  BY <1>5, <1>6, <1>9, <2>1 DEF StoreTx
<1>10. ASSUME NEW e \in SUBSET Sources, StoreIer(e) PROVE UartInv'
  <2>1. Updated'
    <3> DEFINE f == IF lcr.dlab THEN ier ELSE e
    <3>1. f \in SUBSET Sources  BY <1>1
    <3>2. update_interrupt(rx, data_ready, f, lcr)  BY <1>10 DEF StoreIer
    <3> HIDE DEF f
    <3>3. QED  BY <1>1, <1>2, <3>1, <3>2, UpdateEstablishes
  <2>2. QED  BY <1>5, <1>6, <1>10, <2>1 DEF StoreIer
<1>11. ASSUME NEW on \in BOOLEAN, NEW clear \in BOOLEAN, StoreFcr(on, clear)
       PROVE  UartInv'
  BY <1>3, <1>5, <1>6, <1>11 DEF StoreFcr
<1>12. ASSUME NEW l \in LcrWrites, StoreLcr(l) PROVE UartInv'
  <2>1. Updated'
    BY <1>1, <1>2, <1>12, UpdateEstablishes DEF StoreLcr
  <2>2. QED  BY <1>5, <1>6, <1>12, <2>1 DEF StoreLcr
<1>13. ASSUME NEW on \in BOOLEAN, StoreMcr(on) PROVE UartInv'
  BY <1>3, <1>5, <1>6, <1>13 DEF StoreMcr
<1>14. ASSUME NEW available \in BOOLEAN, tick(available) PROVE UartInv'
  <2> DEFINE waits == backoff > 0 /\ backoff < MaxBackoff
  <2>1. CASE waits /\ backoff' = backoff + 1
             /\ UNCHANGED <<rx, data_ready, ier, iir, lcr, line>>
    <3>1. backoff' \in 0 .. MaxBackoff  BY <1>6, <2>1
    <3>2. QED  BY <1>4, <1>5, <1>6, <1>14, <2>1, <3>1 DEF tick
  <2>2. CASE backoff' = 1
             /\ UNCHANGED <<rx, data_ready, ier, iir, lcr, line>>
    <3>1. backoff' \in 0 .. MaxBackoff  BY <2>2
    <3>2. QED  BY <1>4, <1>5, <1>6, <1>14, <2>2, <3>1 DEF tick
  <2>3. CASE backoff' = 0 /\ update_interrupt(rx + 1, TRUE, ier, lcr)
    <3>1. Updated'  BY <1>8, <1>14, <2>3 DEF tick
    <3>2. QED  BY <1>5, <1>6, <1>14, <2>3, <3>1 DEF tick
  <2>4. QED  BY <1>14, <2>1, <2>2, <2>3 DEF tick
<1>15. CASE UNCHANGED uartVars
  BY <1>4, <1>5, <1>6, <1>15 DEF uartVars
<1>16. QED
  BY <1>7, <1>9, <1>10, <1>11, <1>12, <1>13, <1>14, <1>15
     DEF UartNext, UartAccess

LEMMA UartInvariant == UartSpec => []UartInv
<1>1. QED  BY UartInitInv, UartNextInv, PTL DEF UartSpec

(***************************************************************************)
(* The queue never exceeds UART_QUEUE_SIZE, and every register keeps its   *)
(* type, whatever software and terminal do.                                *)
(***************************************************************************)
THEOREM UartTyping == UartSpec => []UartTypeOK
<1>1. UartInv => UartTypeOK  BY DEF UartInv
<1>2. QED  BY <1>1, UartInvariant, PTL

(***************************************************************************)
(* The ready bit of LSR says whether rx_queue has a byte.                  *)
(***************************************************************************)
THEOREM ReadyIsExact == UartSpec => []ReadyMatchesQueue
<1>1. UartInv => ReadyMatchesQueue  BY DEF UartInv
<1>2. QED  BY <1>1, UartInvariant, PTL

(***************************************************************************)
(* The level given to the controller is the one the registers ask for.     *)
(***************************************************************************)
THEOREM LineIsExact == UartSpec => []LineMatchesRegisters
<1>1. UartInv => LineMatchesRegisters
  <2> SUFFICES ASSUME UartInv PROVE LineMatchesRegisters  OBVIOUS
  <2>1. data_ready <=> rx > 0  BY DEF UartInv, ReadyMatchesQueue
  <2>2. QED  BY <2>1, Zenon DEF UartInv, LineOfBits, LineMatchesRegisters
<1>2. QED  BY <1>1, UartInvariant, PTL

----------------------------------------------------------------------------
(***************************************************************************)
(* The two wired together; the wire is the only thing to add.              *)
(***************************************************************************)

\* The wire: the controller has the level the UART last gave it.
Wired == UartId \in level <=> line

LEMMA WiringTypes == 0 \in Contexts /\ UartId \in Ids /\ OtherId \in Ids
BY PlicAssumption, WiringAssumption DEF Contexts

(***************************************************************************)
(* A step of the composition is a step of the UART, for any use of it, or  *)
(* leaves the UART alone.                                                  *)
(***************************************************************************)
LEMMA UartStep == [WiredNext]_allVars => [UartNext]_uartVars
<1> SUFFICES ASSUME [WiredNext]_allVars PROVE [UartNext]_uartVars
  OBVIOUS
<1>1. CASE Handler
  <2>1. CASE ReadByte
    BY <2>1 DEF ReadByte, UartNext, UartAccess
  <2>2. CASE Claim \/ QuietOther \/ Finish
    BY <2>2 DEF Claim, QuietOther, Finish
  <2>. QED
    BY <1>1, <2>1, <2>2 DEF Handler
<1>2. CASE OtherUse
  BY <1>2 DEF OtherUse, UartNext
<1>3. CASE Tick
  BY <1>3 DEF Tick, UartNext
<1>4. CASE OtherDevice \/ SetUp
  BY <1>4 DEF OtherDevice, SetUp
<1>5. CASE UNCHANGED allVars
  BY <1>5 DEF allVars
<1>. QED
  BY <1>1, <1>2, <1>3, <1>4, <1>5 DEF WiredNext

(***************************************************************************)
(* What a step does to the controller. The UART drives its line in every   *)
(* access and in every tick that changes its queue; a tick that does not   *)
(* leaves the line as it was.                                              *)
(***************************************************************************)
SetsUp == DriverSetup \/ \E v \in Values : WriteThreshold(0, v)
Serves == context_claim(0) \/ \E i \in Ids : Complete(0, i)
OtherDrives == \E lvl \in BOOLEAN : set_interrupt_level(OtherId, lvl)

LEMMA ControllerStep ==
  ASSUME UartInv, UartInv', [WiredNext]_allVars
  PROVE  \/ Drive
         \/ UNCHANGED line /\ (OtherDrives \/ Serves \/ SetsUp)
         \/ UNCHANGED line /\ UNCHANGED plicVars
<1>1. CASE Handler
  <2>1. CASE Claim
    BY <2>1 DEF Claim, Serves, uartVars
  <2>2. CASE ReadByte
    BY <2>2 DEF ReadByte
  <2>3. CASE QuietOther
    BY <2>3 DEF QuietOther, OtherDrives, uartVars
  <2>4. CASE Finish
    BY <2>4, WiringTypes DEF Finish, Serves, uartVars
  <2>. QED
    BY <1>1, <2>1, <2>2, <2>3, <2>4 DEF Handler
<1>2. CASE OtherUse
  BY <1>2 DEF OtherUse
<1>3. CASE Tick
  <2>1. CASE UNCHANGED <<rx, data_ready>>
    <3>1. UNCHANGED plicVars
      BY <1>3, <2>1 DEF Tick
    <3>2. ier' = ier
      BY <1>3 DEF Tick, tick, update_interrupt
    <3>3. line \in BOOLEAN /\ line' \in BOOLEAN
      BY DEF UartInv, UartTypeOK
    <3>4. data_ready' = data_ready
      BY <2>1
    <3>5. line' <=> line
      BY <3>2, <3>4, Zenon DEF UartInv, LineOfBits
    <3>6. line' = line
      BY <3>3, <3>5
    <3>. QED
      BY <3>1, <3>6
  <2>2. CASE ~UNCHANGED <<rx, data_ready>>
    BY <1>3, <2>2 DEF Tick
  <2>. QED
    BY <2>1, <2>2
<1>4. CASE OtherDevice
  BY <1>4 DEF OtherDevice, OtherDrives, uartVars
<1>5. CASE SetUp
  BY <1>5 DEF SetUp, SetsUp, uartVars
<1>6. CASE UNCHANGED allVars
  BY <1>6 DEF allVars, uartVars
<1>. QED
  BY <1>1, <1>2, <1>3, <1>4, <1>5, <1>6 DEF WiredNext

(***************************************************************************)
(* A step of the composition is one that disciplined software and devices  *)
(* may make of the controller.                                             *)
(***************************************************************************)
LEMMA DriverStep ==
  ASSUME UartInv, UartInv', [WiredNext]_allVars
  PROVE  [DriverNext]_plicVars
<1>1. ASSUME Drive PROVE DriverNext
  <2>1. line' \in BOOLEAN
    BY DEF UartInv, UartTypeOK
  <2>. QED
    BY <1>1, <2>1, WiringTypes DEF Drive, DriverNext, HartAccess
<1>2. ASSUME OtherDrives PROVE DriverNext
  BY <1>2, WiringTypes DEF OtherDrives, DriverNext, HartAccess
<1>3. ASSUME Serves PROVE DriverNext
  BY <1>3, WiringTypes DEF Serves, DriverNext, HartAccess
<1>4. ASSUME SetsUp PROVE DriverNext
  BY <1>4, WiringTypes DEF SetsUp, DriverNext, HartAccess
<1>. QED
  BY <1>1, <1>2, <1>3, <1>4, ControllerStep

LEMMA NextWired ==
  ASSUME UartInv, UartInv', Wired, [WiredNext]_allVars
  PROVE  Wired'
<1>1. CASE Drive
  <2>1. level' = IF line' THEN level \cup {UartId} ELSE level \ {UartId}
    BY <1>1 DEF Drive, set_interrupt_level
  <2>2. CASE line'
    BY <2>1, <2>2 DEF Wired
  <2>3. CASE ~line'
    BY <2>1, <2>3 DEF Wired
  <2>. QED
    BY <2>2, <2>3
<1>2. ASSUME UNCHANGED line, UartId \in level' <=> UartId \in level
      PROVE  Wired'
  BY <1>2, Zenon DEF Wired
<1>3. ASSUME OtherDrives PROVE UartId \in level' <=> UartId \in level
  <2>1. PICK lvl \in BOOLEAN : set_interrupt_level(OtherId, lvl)
    BY <1>3 DEF OtherDrives
  <2>2. level' = IF lvl THEN level \cup {OtherId} ELSE level \ {OtherId}
    BY <2>1 DEF set_interrupt_level
  <2>. QED
    BY <2>2 DEF UartId, OtherId
<1>4. ASSUME Serves \/ SetsUp \/ UNCHANGED plicVars PROVE level' = level
  BY <1>4 DEF Serves, SetsUp, DriverSetup, context_claim, Complete,
     WriteThreshold, context_enable_write, priority_write, plicVars
<1>. QED
  BY <1>1, <1>2, <1>3, <1>4, ControllerStep

(***************************************************************************)
(* The composition: the UART behaves as UartSpec, the controller as the    *)
(* specification of one used with discipline.                              *)
(***************************************************************************)
THEOREM UartWithinWiring == WiredSpec => UartSpec
<1>1. WiredInit => UartInit
  BY DEF WiredInit
<1>. QED
  BY <1>1, UartStep, PTL DEF WiredSpec, UartSpec

THEOREM PlicWithinWiring == WiredSpec => DriverSpec
<1>1. WiredInit => PlicInit
  BY DEF WiredInit
<1>2. WiredSpec => []UartInv
  BY UartWithinWiring, UartInvariant, PTL
<1>. QED
  BY <1>1, <1>2, DriverStep, PTL DEF WiredSpec, DriverSpec

LEMMA StaysWired == WiredSpec => []Wired
<1>1. WiredInit => Wired
  BY DEF WiredInit, UartInit, PlicInit, Wired
<1>2. WiredSpec => []UartInv
  BY UartWithinWiring, UartInvariant, PTL
<1>. QED
  BY <1>1, <1>2, NextWired, PTL DEF WiredSpec

\* A hart is interrupted as long as there is a byte it is not serving, if
\* the interrupt is enabled in the UART and in the controller.
THEOREM BytesInterrupt == WiredSpec => []ByteInterrupts
<1>1. UartInv /\ LevelTriggered /\ Wired => ByteInterrupts
  <2>. SUFFICES ASSUME UartInv, LevelTriggered, Wired, rx > 0, Enabled,
                       UartId \notin claimed[0]
                PROVE  mip[0]
    BY DEF ByteInterrupts
  <2>1. data_ready
    BY Zenon DEF UartInv, ReadyMatchesQueue
  <2>2. line
    BY <2>1, Zenon DEF UartInv, LineOfBits, Enabled
  <2>3. UartId \in enable[0] \cap level
    BY <2>2, Zenon DEF Wired, Enabled
  <2>4. priority[UartId] > priority_threshold[0]
    BY DEF Enabled
  <2>. QED
    BY <2>3, <2>4, WiringTypes, Zenon DEF LevelTriggered
<1>2. WiredSpec => []UartInv
  BY UartWithinWiring, UartInvariant, PTL
<1>3. WiredSpec => []LevelTriggered
  BY PlicWithinWiring, DriverSeesLevels, PTL
<1>. QED
  BY <1>1, <1>2, <1>3, StaysWired, PTL
============================================================================
