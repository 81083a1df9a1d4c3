-------------------------------- MODULE Mmu --------------------------------
(***************************************************************************)
(* The translation of one hart, riscv/mmu.cc and mmu.h: the TLB (a data    *)
(* array shared by three arrays of tags), the instruction cache, the       *)
(* page-table walk with PMP behind it, and every operation that flushes.   *)
(*                                                                         *)
(* An access is one step; it lies in one page (the code splits those that  *)
(* do not). A walk is reduced to the leaf entry it ends at, which lies in  *)
(* memory that PMP protects too. A trigger that fires ends an access       *)
(* before it changes anything. The hypervisor extension, debug mode,       *)
(* Smrnmi, shadow stacks, pointer masking, misaligned accesses and memory  *)
(* tracers are left out. Software fences its own page-table stores. An     *)
(* operator marked "Faulty" is used by no action.                          *)
(***************************************************************************)
EXTENDS Pmp, Integers

CONSTANTS
  NVpns,        \* virtual pages are 0 .. NVpns - 1
  TLB_ENTRIES,
  RamPages,     \* pages that addr_to_mem finds; the others are devices
  PteSector,    \* where the leaf entry of each virtual page is stored
  PteWrites,    \* leaf entries that software stores for a virtual page
  Adue,         \* menvcfg.ADUE: the walk sets A and D
  StatusWrites, \* values of the fields of mstatus used here
  TriggerSets   \* sets of access types that some trigger watches

Vpns == 0 .. NVpns - 1
Indexes == 0 .. TLB_ENTRIES - 1
Offsets == 0 .. PageSectors - 1
Ptes == [ppn : Pages, V : BOOLEAN, R : BOOLEAN, W : BOOLEAN, X : BOOLEAN,
         U : BOOLEAN, A : BOOLEAN, D : BOOLEAN]
Statuses == [mprv : BOOLEAN, mpp : Modes, sum : BOOLEAN, mxr : BOOLEAN]

ASSUME MmuAssumption ==
  /\ NVpns \in Nat \ {0} /\ TLB_ENTRIES \in Nat \ {0}
  /\ Vpns \subseteq Pages /\ RamPages \subseteq Pages
  /\ PteSector \in [Vpns -> Sectors] /\ PteWrites \in [Vpns -> SUBSET Ptes]
  /\ Adue \in BOOLEAN /\ StatusWrites \subseteq Statuses
  /\ TriggerSets \subseteq SUBSET Types

VARIABLES
  prv, mstatus,
  paging,          \* satp: an address space, or off
  pte,             \* the leaf entry of each virtual page, in memory
  check_triggers,  \* check_triggers_load, _store and _fetch
  tlb_tag,         \* tlb_load_tag, tlb_store_tag and tlb_insn_tag
  tlb_data,        \* by how many pages physical is above virtual
  icache           \* what is decoded, for each offset in a page, and (an
                   \* observer) whether fetch triggers were looked at then

cpuVars == <<prv, mstatus, paging>>
tlbVars == <<tlb_tag, tlb_data, icache>>
mmuVars == <<pmpVars, cpuVars, pte, check_triggers, tlbVars>>

NoTag == [vpn |-> -1, check |-> FALSE]
Codes == [vpn : Vpns, ppn : Pages, watched : BOOLEAN]
NoCode == [vpn |-> -1, ppn |-> 0, watched |-> FALSE]
Tags == {NoTag} \cup [vpn : Vpns, check : BOOLEAN]

MmuInit ==
  /\ PmpInit
  /\ prv = "M" /\ paging = FALSE /\ check_triggers = {}
  /\ mstatus = [mprv |-> FALSE, mpp |-> "U", sum |-> FALSE, mxr |-> FALSE]
  /\ pte \in {f \in [Vpns -> UNION {PteWrites[v] : v \in Vpns}] :
               \A v \in Vpns : f[v] \in PteWrites[v]}
  /\ tlb_tag = [t \in Types |-> [x \in Indexes |-> NoTag]]
  /\ tlb_data = [x \in Indexes |-> 0]
  /\ icache = [o \in Offsets |-> NoCode]

----------------------------------------------------------------------------
in_mprv == mstatus.mprv

EffectivePrv(type) == IF type # "FETCH" /\ in_mprv THEN mstatus.mpp ELSE prv

Bare(type) == ~paging \/ EffectivePrv(type) = "M"

PageRights(e, type) ==
  /\ e.V /\ ~(e.W /\ ~e.R)
  /\ IF e.U THEN EffectivePrv(type) = "S" => type # "FETCH" /\ mstatus.sum
            ELSE EffectivePrv(type) = "S"
  /\ CASE type = "FETCH" -> e.X
       [] type = "LOAD" -> e.R \/ (mstatus.mxr /\ e.X)
       [] type = "STORE" -> e.W

Touched(e, type) == [e EXCEPT !.A = TRUE, !.D = e.D \/ type = "STORE"]

\* The walk ends at a leaf that permits the access; A and D are set, if
\* they have to be, by a store of the supervisor.
WalkOk(vpn, type) ==
  \/ Bare(type)
  \/ LET e == pte[vpn]
     IN /\ pmp_ok({PteSector[vpn]}, "LOAD", "S")
        /\ PageRights(e, type)
        /\ Touched(e, type) # e =>
             Adue /\ pmp_ok({PteSector[vpn]}, "STORE", "S")

Ppn(vpn, type) == IF Bare(type) THEN vpn ELSE pte[vpn].ppn

Physical(ppn, offsets) == {ppn * PageSectors + o : o \in offsets}

Permitted(vpn, type, offsets) ==
  /\ WalkOk(vpn, type)
  /\ pmp_ok(Physical(Ppn(vpn, type), offsets), type, EffectivePrv(type))

----------------------------------------------------------------------------
\* Faulty: decoded instructions are forgotten by fence.i only.
FlushedIcacheKept == icache
FlushedIcache == [o \in Offsets |-> NoCode]

flush_tlb ==
  /\ tlb_tag' = [t \in Types |-> [x \in Indexes |-> NoTag]]
  /\ icache' = FlushedIcache
  /\ UNCHANGED tlb_data

Hit(vpn, type) == tlb_tag[type][vpn % TLB_ENTRIES].vpn = vpn
FastHit(vpn, type) == Hit(vpn, type)
                      /\ ~tlb_tag[type][vpn % TLB_ENTRIES].check
HitPpn(vpn) == vpn + tlb_data[vpn % TLB_ENTRIES]

\* A load or store finds its entry in either path; the slow path of a fetch
\* looks for the checked tag only, after the fast path looked for the other.
TlbHit(vpn, type) == Hit(vpn, type)

\* Faulty: the tags of another page keep the data that replaces theirs.
TagsOfOthersKept(x, vpn) == tlb_tag
TagsOfOthersDropped(x, vpn) ==
  [t \in Types |-> [tlb_tag[t] EXCEPT ![x] = IF @.vpn = vpn THEN @ ELSE NoTag]]

refill_tlb(vpn, ppn, type) ==
  LET x == vpn % TLB_ENTRIES
      tag == [vpn |-> vpn, check |-> type \in check_triggers]
  IN IF in_mprv THEN UNCHANGED <<tlb_tag, tlb_data>>
     ELSE /\ tlb_tag' = IF pmp_homogeneous(ppn)
                        THEN [TagsOfOthersDropped(x, vpn)
                                EXCEPT ![type][x] = tag]
                        ELSE TagsOfOthersDropped(x, vpn)
          /\ tlb_data' = [tlb_data EXCEPT ![x] = ppn - vpn]

\* A and D are set as soon as the walk permits, also if PMP then refuses.
SetAD(vpn, type) ==
  pte' = IF WalkOk(vpn, type) /\ ~Bare(type)
         THEN [pte EXCEPT ![vpn] = Touched(@, type)] ELSE pte

\* An access that misses; devices are not entered in the TLB.
SlowPath(vpn, type, offsets) ==
  /\ SetAD(vpn, type)
  /\ IF Permitted(vpn, type, offsets) /\ Ppn(vpn, type) \in RamPages
     THEN refill_tlb(vpn, Ppn(vpn, type), type)
     ELSE UNCHANGED <<tlb_tag, tlb_data>>

\* load_slow_path_intrapage and store_slow_path_intrapage.
DataAccess(vpn, type, offsets) ==
  /\ type # "FETCH" /\ ~TlbHit(vpn, type)
  /\ SlowPath(vpn, type, offsets)
  /\ UNCHANGED <<pmpVars, cpuVars, check_triggers, icache>>

\* load_reserved never uses the TLB; store_conditional and amo ask for the
\* rights of a store first, without one.
SpecialAccess(vpn, type) ==
  /\ type # "FETCH"
  /\ SetAD(vpn, type)
  /\ UNCHANGED <<pmpVars, cpuVars, check_triggers, tlbVars>>

\* access_icache: an instruction that is not decoded yet is fetched, and
\* decoded if it may be executed.
FetchDecode(vpn, o) ==
  LET ppn == IF TlbHit(vpn, "FETCH") THEN HitPpn(vpn) ELSE Ppn(vpn, "FETCH")
      code == [vpn |-> vpn, ppn |-> ppn,
               watched |-> "FETCH" \in check_triggers /\ ~FastHit(vpn, "FETCH")]
  IN /\ icache[o].vpn # vpn
     /\ icache' = IF TlbHit(vpn, "FETCH") \/ Permitted(vpn, "FETCH", {o})
                  THEN [icache EXCEPT ![o] = code]
                  ELSE icache
     /\ IF TlbHit(vpn, "FETCH") THEN UNCHANGED <<pte, tlb_tag, tlb_data>>
                                ELSE SlowPath(vpn, "FETCH", {o})
     /\ UNCHANGED <<pmpVars, cpuVars, check_triggers>>

Access ==
  \E vpn \in Vpns :
    \/ \E type \in Types, offsets \in {{o} : o \in Offsets} \cup {Offsets} :
         DataAccess(vpn, type, offsets)
    \/ \E type \in Types : SpecialAccess(vpn, type)
    \/ \E o \in Offsets : FetchDecode(vpn, o)

----------------------------------------------------------------------------
\* set_privilege, in a trap or a return, which also change mstatus.
SetPrivilege ==
  /\ prv' \in Modes /\ mstatus' \in StatusWrites
  /\ flush_tlb
  /\ UNCHANGED <<pmpVars, paging, pte, check_triggers>>

\* Faulty: SUM matters to the supervisor only.
StatusFlushesNotSum(new) == [mstatus EXCEPT !.sum = new.sum] # new
StatusFlushes(new) == mstatus # new

\* mstatus, or the SUM and MXR of sstatus.
StatusWrite(new) ==
  /\ prv = "M" \/ (prv = "S" /\ [new EXCEPT !.sum = mstatus.sum,
                                            !.mxr = mstatus.mxr] = mstatus)
  /\ mstatus' = new
  /\ IF StatusFlushes(new) THEN flush_tlb ELSE UNCHANGED tlbVars
  /\ UNCHANGED <<pmpVars, prv, paging, pte, check_triggers>>

SatpWrite ==
  /\ prv # "U"
  /\ paging' = ~paging
  /\ flush_tlb
  /\ UNCHANGED <<pmpVars, prv, mstatus, pte, check_triggers>>

\* fence.i, and a trigger that fires after its instruction.
FlushIcache ==
  /\ icache' = FlushedIcache
  /\ UNCHANGED <<pmpVars, cpuVars, pte, check_triggers, tlb_tag, tlb_data>>

\* A store to a page table, with the sfence.vma it calls for.
PteWrite(vpn, e) ==
  /\ prv # "U"
  /\ pte' = [pte EXCEPT ![vpn] = e]
  /\ flush_tlb
  /\ UNCHANGED <<pmpVars, cpuVars, check_triggers>>

PmpWrite ==
  /\ prv = "M"
  /\ PmpNext
  /\ flush_tlb
  /\ UNCHANGED <<cpuVars, pte, check_triggers>>

\* Faulty: what is in the TLB already stays unchecked.
TriggerFlushNone == UNCHANGED tlbVars
TriggerFlush == flush_tlb

trigger_updated(watched) ==
  /\ check_triggers' = watched
  /\ TriggerFlush
  /\ UNCHANGED <<pmpVars, cpuVars, pte>>

MmuNext ==
  \/ Access \/ SetPrivilege \/ SatpWrite \/ PmpWrite \/ FlushIcache
  \/ \E new \in StatusWrites : StatusWrite(new)
  \/ \E vpn \in Vpns : \E e \in PteWrites[vpn] : PteWrite(vpn, e)
  \/ \E watched \in TriggerSets : trigger_updated(watched)

MmuSpec == MmuInit /\ [][MmuNext]_mmuVars

----------------------------------------------------------------------------
MmuTypeOK ==
  /\ prv \in Modes /\ mstatus \in Statuses /\ paging \in BOOLEAN
  /\ pte \in [Vpns -> Ptes] /\ check_triggers \in SUBSET Types
  /\ tlb_tag \in [Types -> [Indexes -> Tags]]
  /\ tlb_data \in [Indexes -> Int]
  /\ icache \in [Offsets -> {NoCode} \cup Codes]

\* The TLB changes nothing but time: every access that hits would be
\* permitted, at the same physical page, by a walk and a PMP check of the
\* present state, for every offset of the page and whatever privilege,
\* mstatus, satp, page tables and PMP went through since the entry was made.
HitMatchesWalk ==
  \A vpn \in Vpns, type \in Types : Hit(vpn, type) =>
    /\ HitPpn(vpn) = Ppn(vpn, type)
    /\ Ppn(vpn, type) \in RamPages
    /\ \A offsets \in {{o} : o \in Offsets} \cup {Offsets} :
         Permitted(vpn, type, offsets)

\* Code that was decoded may still be fetched, from where it was.
DecodedMayRun ==
  \A o \in Offsets : LET c == icache[o] IN c # NoCode =>
    /\ Permitted(c.vpn, "FETCH", {o})
    /\ Ppn(c.vpn, "FETCH") = c.ppn

\* The fast path, which looks at no trigger, is open only to kinds of access
\* that no trigger watches; and while a trigger watches fetches, nothing is run
\* from the instruction cache that was decoded without looking at it.
CodeWatched ==
  "FETCH" \in check_triggers =>
    \A o \in Offsets : icache[o] # NoCode => icache[o].watched
TriggersNotSkipped ==
  /\ \A vpn \in Vpns, type \in check_triggers : ~FastHit(vpn, type)
  /\ CodeWatched
=============================================================================
