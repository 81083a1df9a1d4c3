----------------------------- MODULE Mmu_proofs -----------------------------
(***************************************************************************)
(* What holds of PMP and of the TLB for every number of entries and pages, *)
(* every memory map and everything software may write.                     *)
(***************************************************************************)
EXTENDS Mmu, WellFoundedInduction, TLAPS

\* reset() leaves legal registers.
LEMMA PmpInitTyped == PmpInit => PmpTypeOK
<1>1. MaxSector \in Sectors /\ 0 \in Sectors
  BY PmpAssumption DEF Sectors
<1>. QED
  BY <1>1 DEF PmpInit, PmpTypeOK, AllRights, Off, Cfgs, Seccfgs

\* The field that a write of pmpcfg leaves is a legal one.
LEMMA CfgFieldTyped ==
  ASSUME NEW c \in Cfgs, mseccfg \in Seccfgs
  PROVE  CfgField(c) \in Cfgs
BY DEF CfgField, Cfgs, Seccfgs

\* The three registers stay legal.
LEMMA PmpStepTyped ==
  ASSUME PmpTypeOK, PmpNext
  PROVE  PmpTypeOK'
<1>1. ASSUME NEW i \in Entries, NEW x \in AddrWrites[i], pmpaddr_write(i, x)
      PROVE  PmpTypeOK'
  <2>1. x \in Sectors
    BY PmpAssumption
  <2>. QED
    BY <1>1, <2>1 DEF PmpTypeOK, pmpaddr_write
<1>2. ASSUME NEW new \in CfgWrites, pmpcfg_write(new)
      PROVE  PmpTypeOK'
  <2>1. new \in [Entries -> Cfgs]
    BY PmpAssumption
  <2>2. \A i \in Entries : CfgField(new[i]) \in Cfgs
    BY <2>1, CfgFieldTyped DEF PmpTypeOK
  <2>. QED
    BY <1>2, <2>2 DEF PmpTypeOK, pmpcfg_write
<1>3. ASSUME NEW new \in SeccfgWrites, mseccfg_write(new)
      PROVE  PmpTypeOK'
  BY <1>3, PmpAssumption DEF PmpTypeOK, mseccfg_write, Seccfgs,
     pmplock_recorded
<1>. QED
  BY <1>1, <1>2, <1>3 DEF PmpNext

\* One write of a register keeps what is locked. The base of a locked range
\* is the address of the entry below, which next_locked_and_tor protects.
LEMMA PmpStepKeepsLocked ==
  ASSUME PmpTypeOK, PmpNext, NEW i \in Entries, Locked(i)
  PROVE  /\ Locked(i)'
         /\ pmpcfg'[i] = pmpcfg[i]
         /\ pmpaddr'[i] = pmpaddr[i]
         /\ pmpcfg[i].A = "TOR" => tor_base(i)' = tor_base(i)
<1>1. ASSUME NEW k \in Entries, NEW x \in AddrWrites[k], pmpaddr_write(k, x)
      PROVE  /\ UNCHANGED <<pmpcfg, mseccfg>>
             /\ pmpaddr'[i] = pmpaddr[i]
             /\ pmpcfg[i].A = "TOR" => tor_base(i)' = tor_base(i)
  <2>1. k # i
    BY <1>1 DEF pmpaddr_write
  <2>2. i \in Nat /\ k \in Nat
    BY PmpAssumption DEF Entries
  <2>3. pmpcfg[i].A = "TOR" => k + 1 # i
    BY <1>1 DEF pmpaddr_write, next_locked_and_tor
  <2>4. i # 0 => i - 1 \in Entries
    BY <2>2, PmpAssumption DEF Entries
  <2>5. pmpcfg[i].A = "TOR" => k # i - 1
    BY <2>2, <2>3
  <2>. QED
    BY <1>1, <2>1, <2>4, <2>5 DEF pmpaddr_write, PmpTypeOK, tor_base
<1>2. ASSUME NEW new \in CfgWrites, pmpcfg_write(new)
      PROVE  /\ UNCHANGED <<pmpaddr, mseccfg>>
             /\ pmpcfg'[i] = pmpcfg[i]
  BY <1>2 DEF pmpcfg_write, CfgIgnored, Locked
<1>3. ASSUME NEW new \in SeccfgWrites, mseccfg_write(new)
      PROVE  UNCHANGED <<pmpaddr, pmpcfg>> /\ ~mseccfg'.rlb
  BY <1>3 DEF mseccfg_write, pmplock_recorded, Locked
<1>. QED
  BY <1>1, <1>2, <1>3 DEF PmpNext, Locked, tor_base

\* Of everything a hart does, only PmpWrite writes the three registers.
LEMMA PmpPart == [MmuNext]_mmuVars => [PmpNext]_pmpVars
<1>. SUFFICES ASSUME [MmuNext]_mmuVars, ~UNCHANGED mmuVars
              PROVE  PmpNext \/ UNCHANGED pmpVars
  BY DEF mmuVars
<1>1. CASE Access
  BY <1>1 DEF Access, DataAccess, SpecialAccess, FetchDecode
<1>2. CASE SetPrivilege \/ SatpWrite \/ FlushIcache
  BY <1>2 DEF SetPrivilege, SatpWrite, FlushIcache
<1>3. CASE PmpWrite
  BY <1>3 DEF PmpWrite
<1>4. ASSUME NEW new \in StatusWrites, StatusWrite(new)
      PROVE  UNCHANGED pmpVars
  BY <1>4 DEF StatusWrite
<1>5. ASSUME NEW vpn \in Vpns, NEW e \in PteWrites[vpn], PteWrite(vpn, e)
      PROVE  UNCHANGED pmpVars
  BY <1>5 DEF PteWrite
<1>6. ASSUME NEW watched \in TriggerSets, trigger_updated(watched)
      PROVE  UNCHANGED pmpVars
  BY <1>6 DEF trigger_updated
<1>. QED
  BY <1>1, <1>2, <1>3, <1>4, <1>5, <1>6 DEF MmuNext

\* A PMP entry that is locked keeps its lock, rights and range until reset,
\* for any sequence of writes to pmpaddr, pmpcfg and mseccfg.
THEOREM LocksHold == MmuSpec => LockedForever
<1>1. MmuInit => PmpTypeOK
  BY PmpInitTyped DEF MmuInit
<1>2. PmpTypeOK /\ [MmuNext]_mmuVars => PmpTypeOK'
  BY PmpPart, PmpStepTyped DEF PmpTypeOK, pmpVars
<1>3. ASSUME PmpTypeOK, [MmuNext]_mmuVars
      PROVE  [\A i \in Entries : Locked(i) =>
                /\ Locked(i)'
                /\ pmpcfg'[i] = pmpcfg[i]
                /\ pmpaddr'[i] = pmpaddr[i]
                /\ pmpcfg[i].A = "TOR" => tor_base(i)' = tor_base(i)]_pmpVars
  BY <1>3, PmpPart, PmpStepKeepsLocked
<1>. QED
  BY <1>1, <1>2, <1>3, PTL DEF MmuSpec, LockedForever

----------------------------------------------------------------------------
\* Types of the TLB and the translation registers.
Typed == PmpTypeOK /\ MmuTypeOK

\* Every page has an index in the TLB.
LEMMA IndexOfPage ==
  ASSUME NEW vpn \in Vpns
  PROVE  vpn % TLB_ENTRIES \in Indexes
<1>1. vpn \in Nat /\ TLB_ENTRIES \in Nat /\ TLB_ENTRIES > 0
  BY MmuAssumption DEF Vpns
<1>2. vpn % TLB_ENTRIES \in 0 .. TLB_ENTRIES - 1
  BY <1>1
<1>. QED
  BY <1>2 DEF Indexes

LEMMA PteTyped ==
  ASSUME NEW vpn \in Vpns, NEW e \in PteWrites[vpn]
  PROVE  e \in Ptes
BY MmuAssumption

\* A walk ends in a page of memory.
LEMMA PpnTyped ==
  ASSUME MmuTypeOK, NEW vpn \in Vpns, NEW type \in Types
  PROVE  Ppn(vpn, type) \in Pages
BY MmuAssumption DEF Ppn, MmuTypeOK, Ptes

LEMMA TouchedTyped ==
  ASSUME NEW e \in Ptes, NEW type \in Types
  PROVE  Touched(e, type) \in Ptes
<1>1. (e.D \/ type = "STORE") \in BOOLEAN
  BY DEF Ptes
<1>. QED
  BY <1>1 DEF Touched, Ptes

LEMMA MmuInitTyped == MmuInit => Typed
<1>. SUFFICES ASSUME MmuInit PROVE MmuTypeOK
  BY PmpInitTyped DEF MmuInit, Typed
<1>1. pte \in [Vpns -> Ptes]
  BY PteTyped DEF MmuInit
<1>2. NoTag \in Tags
  BY DEF Tags
<1>3. tlb_tag \in [Types -> [Indexes -> Tags]]
  BY <1>2 DEF MmuInit
<1>4. mstatus \in Statuses /\ prv \in Modes
  BY DEF MmuInit, Modes, Statuses
<1>5. paging \in BOOLEAN /\ check_triggers \in SUBSET Types
  BY DEF MmuInit
<1>6. tlb_data \in [Indexes -> Int]
  BY DEF MmuInit
<1>7. icache \in [Offsets -> {NoCode} \cup Codes]
  BY DEF MmuInit
<1>. QED
  BY <1>1, <1>3, <1>4, <1>5, <1>6, <1>7 DEF MmuTypeOK

\* The three ways in which the TLB changes.
LEMMA FlushTyped ==
  ASSUME MmuTypeOK, flush_tlb
  PROVE  /\ tlb_tag' \in [Types -> [Indexes -> Tags]]
         /\ tlb_data' \in [Indexes -> Int]
         /\ icache' \in [Offsets -> {NoCode} \cup Codes]
<1>1. NoTag \in Tags
  BY DEF Tags
<1>. QED
  BY <1>1 DEF MmuTypeOK, flush_tlb, FlushedIcache

\* After a refill the entry has no tag of another page.
LEMMA DropTyped ==
  ASSUME MmuTypeOK, NEW x \in Indexes, NEW vpn \in Vpns
  PROVE  /\ TagsOfOthersDropped(x, vpn) \in [Types -> [Indexes -> Tags]]
         /\ \A t \in Types : \A y \in Indexes :
              TagsOfOthersDropped(x, vpn)[t][y] =
                IF y = x /\ tlb_tag[t][x].vpn # vpn THEN NoTag
                                                    ELSE tlb_tag[t][y]
<1>1. NoTag \in Tags
  BY DEF Tags
<1>. QED
  BY <1>1 DEF MmuTypeOK, TagsOfOthersDropped

\* What an access that misses does to the TLB: nothing, or it puts the page
\* it found, of RAM, in the place of whatever was there.
LEMMA SlowPathEffect ==
  ASSUME MmuTypeOK, NEW vpn \in Vpns, NEW type \in Types,
         NEW offsets, SlowPath(vpn, type, offsets)
  PROVE  LET x == vpn % TLB_ENTRIES
             ppn == Ppn(vpn, type)
             kept == TagsOfOthersDropped(x, vpn)
             tag == [vpn |-> vpn, check |-> type \in check_triggers]
         IN /\ pte' \in [Vpns -> Ptes]
            /\ \/ UNCHANGED <<tlb_tag, tlb_data>>
               \/ /\ ppn \in RamPages
                  /\ tlb_data' = [tlb_data EXCEPT ![x] = ppn - vpn]
                  /\ \/ tlb_tag' = kept
                     \/ tlb_tag' = [kept EXCEPT ![type][x] = tag]
<1>1. pte[vpn] \in Ptes
  BY DEF MmuTypeOK
<1>2. pte' \in [Vpns -> Ptes]
  BY <1>1, TouchedTyped DEF SlowPath, SetAD, MmuTypeOK
<1>. QED
  BY <1>2 DEF SlowPath, refill_tlb

\* Every entry that can be hit leads to RAM, and is marked to be checked if
\* a trigger watches accesses of its kind.
EntriesSound ==
  \A vpn \in Vpns, type \in Types : Hit(vpn, type) =>
    /\ HitPpn(vpn) \in RamPages
    /\ type \in check_triggers => ~FastHit(vpn, type)

LEMMA SlowPathSound ==
  ASSUME MmuTypeOK, EntriesSound, NEW vpn \in Vpns, NEW type \in Types,
         NEW offsets, SlowPath(vpn, type, offsets), UNCHANGED check_triggers
  PROVE  /\ tlb_tag' \in [Types -> [Indexes -> Tags]]
         /\ tlb_data' \in [Indexes -> Int]
         /\ pte' \in [Vpns -> Ptes]
         /\ EntriesSound'
<1>. DEFINE x == vpn % TLB_ENTRIES
            ppn == Ppn(vpn, type)
            kept == TagsOfOthersDropped(x, vpn)
            tag == [vpn |-> vpn, check |-> type \in check_triggers]
<1>1. x \in Indexes
  BY IndexOfPage
<1>2. /\ kept \in [Types -> [Indexes -> Tags]]
      /\ \A t \in Types : \A y \in Indexes :
           kept[t][y] = IF y = x /\ tlb_tag[t][x].vpn # vpn
                        THEN NoTag ELSE tlb_tag[t][y]
  BY <1>1, DropTyped
<1>3. ppn \in Pages /\ ppn \in Int /\ vpn \in Int /\ ppn - vpn \in Int
  BY PpnTyped DEF Pages, Vpns
<1>4. /\ tag \in Tags /\ tag.vpn = vpn
      /\ tag.check = (type \in check_triggers)
  <2>1. (type \in check_triggers) \in BOOLEAN
    OBVIOUS
  <2>2. tag \in Tags
    BY <2>1 DEF Tags
  <2>3. tag.vpn = vpn /\ tag.check = (type \in check_triggers)
    BY Zenon
  <2>. QED
    BY <2>2, <2>3
<1>5. \A v \in Vpns : v \in Int /\ v # -1 /\ v % TLB_ENTRIES \in Indexes
  BY IndexOfPage DEF Vpns
<1>6. /\ pte' \in [Vpns -> Ptes]
      /\ \/ UNCHANGED <<tlb_tag, tlb_data>>
         \/ /\ ppn \in RamPages
            /\ tlb_data' = [tlb_data EXCEPT ![x] = ppn - vpn]
            /\ \/ tlb_tag' = kept
               \/ tlb_tag' = [kept EXCEPT ![type][x] = tag]
  BY SlowPathEffect
<1>7. CASE UNCHANGED <<tlb_tag, tlb_data>>
  BY <1>6, <1>7 DEF MmuTypeOK, EntriesSound, Hit, HitPpn, FastHit
<1>. HIDE DEF x, ppn, kept, tag
<1>8. CASE /\ ppn \in RamPages
           /\ tlb_data' = [tlb_data EXCEPT ![x] = ppn - vpn]
           /\ \/ tlb_tag' = kept
              \/ tlb_tag' = [kept EXCEPT ![type][x] = tag]
  <2>1. tlb_data' \in [Indexes -> Int]
    BY <1>1, <1>3, <1>8 DEF MmuTypeOK
  <2>2. tlb_tag' \in [Types -> [Indexes -> Tags]]
    BY <1>1, <1>2, <1>4, <1>8
  <2>3. ASSUME NEW v \in Vpns, NEW t \in Types, Hit(v, t)'
        PROVE  /\ HitPpn(v)' \in RamPages
               /\ t \in check_triggers => ~FastHit(v, t)'
    <3>. DEFINE y == v % TLB_ENTRIES
    <3>1. y \in Indexes /\ v # -1 /\ v \in Int
      BY <1>5
    <3>2. tlb_tag'[t][y].vpn = v
      BY <2>3 DEF Hit
    <3>. HIDE DEF y
    <3>3. \/ y = x /\ t = type /\ tlb_tag'[t][y] = tag
          \/ tlb_tag'[t][y] = kept[t][y]
      BY <1>1, <1>2, <1>8, <3>1
    <3>4. CASE y = x /\ t = type /\ tlb_tag'[t][y] = tag
      <4>1. v = vpn /\ tlb_data'[y] = ppn - vpn
        BY <1>1, <1>4, <1>8, <3>2, <3>4 DEF MmuTypeOK
      <4>2. v + tlb_data'[y] \in RamPages
        BY <4>1, <1>3, <1>8
      <4>. QED
        BY <4>2, <3>4, <1>4 DEF HitPpn, FastHit, y
    <3>5. CASE tlb_tag'[t][y] = kept[t][y]
      <4>1. kept[t][y].vpn = v
        BY <3>2, <3>5
      <4>2. tlb_tag[t][y] = kept[t][y]
        BY <4>1, <1>2, <3>1 DEF NoTag
      <4>3. Hit(v, t)
        BY <4>1, <4>2 DEF Hit, y
      <4>4. y = x => v = vpn
        BY <4>1, <4>2, <1>2, <3>1 DEF NoTag
      <4>5. v + tlb_data'[y] \in RamPages
        <5>1. CASE y = x
          <6>1. tlb_data'[y] = ppn - vpn
            BY <5>1, <1>1, <1>8 DEF MmuTypeOK
          <6>. QED
            BY <6>1, <5>1, <4>4, <1>3, <1>8
        <5>2. CASE y # x
          <6>1. tlb_data'[y] = tlb_data[y]
            BY <5>2, <1>1, <1>8, <3>1 DEF MmuTypeOK
          <6>. QED
            BY <6>1, <4>3 DEF EntriesSound, HitPpn, y
        <5>. QED
          BY <5>1, <5>2
      <4>6. t \in check_triggers => tlb_tag'[t][y].check
        BY <4>2, <4>3, <3>5 DEF EntriesSound, FastHit, y
      <4>. QED
        BY <4>5, <4>6 DEF HitPpn, FastHit, y
    <3>. QED
      BY <3>3, <3>4, <3>5
  <2>. QED
    BY <1>6, <2>1, <2>2, <2>3 DEF EntriesSound
<1>. QED
  BY <1>6, <1>7, <1>8

TlbInv == Typed /\ EntriesSound

LEMMA AccessKeepsTlbInv ==
  ASSUME TlbInv, Access
  PROVE  MmuTypeOK' /\ EntriesSound'
<1>. USE DEF cpuVars, tlbVars
<1>1. ASSUME NEW vpn \in Vpns, NEW type \in Types, NEW offsets,
             DataAccess(vpn, type, offsets)
      PROVE  MmuTypeOK' /\ EntriesSound'
  BY <1>1, SlowPathSound DEF TlbInv, Typed, MmuTypeOK, DataAccess
<1>2. ASSUME NEW vpn \in Vpns, NEW type \in Types, SpecialAccess(vpn, type)
      PROVE  MmuTypeOK' /\ EntriesSound'
  <2>1. pte' \in [Vpns -> Ptes]
    BY <1>2, TouchedTyped DEF SpecialAccess, SetAD, TlbInv, Typed, MmuTypeOK
  <2>. QED
    BY <1>2, <2>1 DEF TlbInv, Typed, MmuTypeOK, SpecialAccess, EntriesSound,
       Hit, HitPpn, FastHit
<1>3. ASSUME NEW vpn \in Vpns, NEW o \in Offsets, FetchDecode(vpn, o)
      PROVE  MmuTypeOK' /\ EntriesSound'
  <2>. "FETCH" \in Types
    BY DEF Types
  <2>1. UNCHANGED check_triggers
    BY <1>3 DEF FetchDecode
  <2>2. /\ pte' \in [Vpns -> Ptes]
        /\ tlb_tag' \in [Types -> [Indexes -> Tags]]
        /\ tlb_data' \in [Indexes -> Int]
        /\ EntriesSound'
    <3>1. CASE TlbHit(vpn, "FETCH")
      BY <1>3, <2>1, <3>1 DEF FetchDecode, TlbInv, Typed, MmuTypeOK,
         EntriesSound, Hit, HitPpn, FastHit
    <3>2. CASE ~TlbHit(vpn, "FETCH")
      BY <1>3, <2>1, <3>2, SlowPathSound DEF FetchDecode, TlbInv, Typed
    <3>. QED
      BY <3>1, <3>2
  <2>3. (IF TlbHit(vpn, "FETCH") THEN HitPpn(vpn) ELSE Ppn(vpn, "FETCH"))
           \in Pages
    BY PpnTyped, MmuAssumption DEF TlbInv, Typed, EntriesSound, TlbHit
  <2>. DEFINE ppn == IF TlbHit(vpn, "FETCH") THEN HitPpn(vpn)
                                             ELSE Ppn(vpn, "FETCH")
              seen == "FETCH" \in check_triggers /\ ~FastHit(vpn, "FETCH")
              code == [vpn |-> vpn, ppn |-> ppn, watched |-> seen]
  <2>4. icache' \in [Offsets -> {NoCode} \cup Codes]
    <3>1. ppn \in Pages /\ seen \in BOOLEAN
      BY <2>3
    <3>2. icache' = icache \/ icache' = [icache EXCEPT ![o] = code]
      BY <1>3 DEF FetchDecode
    <3>. HIDE DEF ppn, seen
    <3>3. code \in Codes
      BY <3>1 DEF Codes
    <3>. HIDE DEF code
    <3>4. QED
      BY <3>2, <3>3 DEF TlbInv, Typed, MmuTypeOK
  <2>. QED
    BY <1>3, <2>2, <2>4 DEF TlbInv, Typed, MmuTypeOK, FetchDecode
<1>. QED
  BY <1>1, <1>2, <1>3 DEF Access

\* Nothing can be hit after a flush.
LEMMA FlushSound ==
  ASSUME MmuTypeOK, flush_tlb
  PROVE  EntriesSound'
<1>1. \A vpn \in Vpns : vpn # -1 /\ vpn % TLB_ENTRIES \in Indexes
  BY IndexOfPage DEF Vpns
<1>. QED
  BY <1>1 DEF flush_tlb, EntriesSound, Hit, NoTag

LEMMA StepKeepsTlbInv ==
  ASSUME TlbInv, [MmuNext]_mmuVars
  PROVE  MmuTypeOK' /\ EntriesSound'
<1>. USE DEF TlbInv, Typed
<1>1. CASE Access
  BY <1>1, AccessKeepsTlbInv
<1>2. CASE SetPrivilege
  <2>1. mstatus' \in Statuses
    BY <1>2, MmuAssumption DEF SetPrivilege
  <2>. QED
    BY <1>2, <2>1, FlushTyped, FlushSound DEF SetPrivilege, MmuTypeOK
<1>3. CASE SatpWrite
  BY <1>3, FlushTyped, FlushSound DEF SatpWrite, MmuTypeOK
<1>4. CASE PmpWrite
  BY <1>4, FlushTyped, FlushSound DEF PmpWrite, MmuTypeOK, cpuVars
<1>5. CASE FlushIcache
  BY <1>5 DEF FlushIcache, FlushedIcache, MmuTypeOK, EntriesSound, Hit,
     FastHit, HitPpn, cpuVars
<1>6. ASSUME NEW new \in StatusWrites, StatusWrite(new)
      PROVE  MmuTypeOK' /\ EntriesSound'
  <2>1. mstatus' \in Statuses
    BY <1>6, MmuAssumption DEF StatusWrite
  <2>2. CASE flush_tlb
    BY <1>6, <2>1, <2>2, FlushTyped, FlushSound DEF StatusWrite, MmuTypeOK
  <2>3. CASE UNCHANGED tlbVars
    BY <1>6, <2>1, <2>3 DEF StatusWrite, MmuTypeOK, tlbVars, EntriesSound,
       Hit, FastHit, HitPpn
  <2>. QED
    BY <1>6, <2>2, <2>3 DEF StatusWrite
<1>7. ASSUME NEW vpn \in Vpns, NEW e \in PteWrites[vpn], PteWrite(vpn, e)
      PROVE  MmuTypeOK' /\ EntriesSound'
  <2>1. pte' \in [Vpns -> Ptes]
    BY <1>7, PteTyped DEF PteWrite, MmuTypeOK
  <2>. QED
    BY <1>7, <2>1, FlushTyped, FlushSound DEF PteWrite, MmuTypeOK, cpuVars
<1>8. ASSUME NEW watched \in TriggerSets, trigger_updated(watched)
      PROVE  MmuTypeOK' /\ EntriesSound'
  <2>1. check_triggers' \in SUBSET Types
    BY <1>8, MmuAssumption DEF trigger_updated
  <2>. QED
    BY <1>8, <2>1, FlushTyped, FlushSound DEF trigger_updated, TriggerFlush,
       MmuTypeOK, cpuVars
<1>9. CASE UNCHANGED mmuVars
  BY <1>9 DEF mmuVars, cpuVars, tlbVars, MmuTypeOK, EntriesSound, Hit,
     FastHit, HitPpn
<1>. QED
  BY <1>1, <1>2, <1>3, <1>4, <1>5, <1>6, <1>7, <1>8, <1>9 DEF MmuNext

LEMMA TlbInvariance == MmuSpec => []TlbInv
<1>1. MmuInit => TlbInv
  <2>1. \A vpn \in Vpns : vpn # -1 /\ vpn % TLB_ENTRIES \in Indexes
    BY IndexOfPage DEF Vpns
  <2>2. MmuInit => EntriesSound
    BY <2>1 DEF MmuInit, EntriesSound, Hit, NoTag
  <2>. QED
    BY <2>2, MmuInitTyped DEF TlbInv
<1>2. TlbInv /\ [MmuNext]_mmuVars => TlbInv'
  <2>1. TlbInv /\ [MmuNext]_mmuVars => PmpTypeOK'
    BY PmpPart, PmpStepTyped DEF PmpTypeOK, pmpVars, TlbInv, Typed
  <2>. QED
    BY <2>1, StepKeepsTlbInv DEF TlbInv, Typed
<1>. QED
  BY <1>1, <1>2, PTL DEF MmuSpec

\* The registers, the TLB and the instruction cache keep their types; that a
\* decoded instruction is in memory needs that entries lead to RAM.
THEOREM Typing == MmuSpec => [](PmpTypeOK /\ MmuTypeOK)
<1>1. TlbInv => PmpTypeOK /\ MmuTypeOK
  BY DEF TlbInv, Typed
<1>. QED
  BY <1>1, TlbInvariance, PTL

(***************************************************************************)
(* Triggers and what is decoded. While a trigger watches fetches the fast  *)
(* path is closed to them, so decoding looks at it; and a trigger that is  *)
(* set empties the instruction cache.                                      *)
(***************************************************************************)
LEMMA FastClosed ==
  TlbInv => \A vpn \in Vpns, type \in check_triggers : ~FastHit(vpn, type)
BY DEF TlbInv, Typed, MmuTypeOK, EntriesSound, FastHit

LEMMA DecodeIsWatched ==
  ASSUME TlbInv, CodeWatched, NEW vpn \in Vpns, NEW o \in Offsets,
         FetchDecode(vpn, o)
  PROVE  CodeWatched'
<1>1. UNCHANGED check_triggers
  BY DEF FetchDecode
<1>2. SUFFICES ASSUME "FETCH" \in check_triggers,
                      NEW k \in Offsets, icache'[k] # NoCode
               PROVE  icache'[k].watched
  BY <1>1 DEF CodeWatched
<1>3. CASE icache'[k] = icache[k]
  BY <1>2, <1>3 DEF CodeWatched
<1>4. CASE icache'[k] # icache[k]
  <2>. DEFINE ppn == IF TlbHit(vpn, "FETCH") THEN HitPpn(vpn)
                                             ELSE Ppn(vpn, "FETCH")
              seen == "FETCH" \in check_triggers /\ ~FastHit(vpn, "FETCH")
  <2>1. icache'[k] = [vpn |-> vpn, ppn |-> ppn, watched |-> seen]
    BY <1>4 DEF FetchDecode, TlbInv, Typed, MmuTypeOK
  <2>2. seen
    BY <1>2, FastClosed
  <2>. HIDE DEF ppn, seen
  <2>. QED
    BY <2>1, <2>2
<1>. QED
  BY <1>3, <1>4

LEMMA StepKeepsCodeWatched ==
  ASSUME TlbInv, CodeWatched, [MmuNext]_mmuVars
  PROVE  CodeWatched'
<1>1. ASSUME icache' = FlushedIcache PROVE CodeWatched'
  BY <1>1 DEF FlushedIcache, CodeWatched
<1>2. ASSUME UNCHANGED <<check_triggers, icache>> PROVE CodeWatched'
  BY <1>2 DEF CodeWatched
<1>3. CASE Access
  BY <1>2, <1>3, DecodeIsWatched
  DEF Access, DataAccess, SpecialAccess, tlbVars
<1>4. CASE SetPrivilege \/ SatpWrite \/ PmpWrite \/ FlushIcache
  BY <1>1, <1>4 DEF SetPrivilege, SatpWrite, PmpWrite, FlushIcache, flush_tlb
<1>5. ASSUME NEW new \in StatusWrites, StatusWrite(new) PROVE CodeWatched'
  BY <1>1, <1>2, <1>5 DEF StatusWrite, flush_tlb, tlbVars
<1>6. ASSUME NEW vpn \in Vpns, NEW e \in PteWrites[vpn], PteWrite(vpn, e)
      PROVE  CodeWatched'
  BY <1>1, <1>6 DEF PteWrite, flush_tlb
<1>7. ASSUME NEW watched \in TriggerSets, trigger_updated(watched)
      PROVE  CodeWatched'
  BY <1>1, <1>7 DEF trigger_updated, TriggerFlush, flush_tlb
<1>8. CASE UNCHANGED mmuVars
  BY <1>2, <1>8 DEF mmuVars, tlbVars
<1>. QED
  BY <1>3, <1>4, <1>5, <1>6, <1>7, <1>8 DEF MmuNext

\* An access that a trigger watches never takes the path that looks at no
\* trigger, though its page was in the TLB before the trigger was set; nor is
\* an instruction run that was decoded before.
THEOREM TriggersSee == MmuSpec => []TriggersNotSkipped
<1>1. MmuInit => CodeWatched
  BY DEF MmuInit, CodeWatched
<1>2. TlbInv /\ CodeWatched => TriggersNotSkipped
  BY FastClosed DEF TriggersNotSkipped
<1>3. TlbInv /\ CodeWatched /\ [MmuNext]_mmuVars => CodeWatched'
  BY StepKeepsCodeWatched
<1>. QED
  BY <1>1, <1>2, <1>3, TlbInvariance, PTL DEF MmuSpec

----------------------------------------------------------------------------
(***************************************************************************)
(* A set of naturals has a smallest element.                               *)
(***************************************************************************)
LEMMA NatMin == ASSUME NEW T \in SUBSET Nat, T # {}
                PROVE  \E x \in T : \A y \in T : x <= y
<1>1. PICK x \in T : \A y \in T : ~ (<<y, x>> \in OpToRel(<, Nat))
  BY NatLessThanWellFounded, WFMin
<1>2. ASSUME NEW y \in T PROVE x <= y
  <2>1. <<y, x>> \notin OpToRel(<, Nat)  BY <1>1
  <2>2. <<y, x>> \in Nat \X Nat  OBVIOUS
  <2>3. ~ (y < x)  BY <2>1, <2>2 DEF OpToRel
  <2>4. QED  BY <2>3
<1>3. QED  BY <1>2

(***************************************************************************)
(* Division by a number that is not a constant.                            *)
(***************************************************************************)
LEMMA Quotient ==
  ASSUME NEW a \in Nat, NEW b \in Nat, b # 0
  PROVE  /\ a \div b \in Nat /\ a % b \in 0 .. b - 1
         /\ a = b * (a \div b) + (a % b)
<1>1. a \div b \in Nat /\ a % b \in 0 .. b - 1
  OBVIOUS
<1>. QED
  BY <1>1

LEMMA Smaller ==
  ASSUME NEW b \in Nat, NEW p \in Int, NEW q \in Int, p < q
  PROVE  b * p + b <= b * q
<1>. DEFINE k == q - p - 1
<1>1. k \in Nat /\ q = p + 1 + k
  OBVIOUS
<1>2. b * k \in Nat
  BY <1>1
<1>3. b * q = b * p + b + b * k
  BY <1>1
<1>. QED
  BY <1>2, <1>3

LEMMA QuotientIs ==
  ASSUME NEW a \in Nat, NEW b \in Nat, b # 0, NEW q \in Nat, 
         NEW r \in 0 .. b - 1, a = b * q + r
  PROVE  a \div b = q /\ a % b = r
<1>. DEFINE p == a \div b
            s == a % b
<1>1. p \in Nat /\ s \in 0 .. b - 1 /\ a = b * p + s
  BY Quotient
<1>. HIDE DEF p, s
<1>2. ~ p < q
  <2>1. p < q => b * p + b <= b * q
    BY <1>1, Smaller
  <2>2. b * p \in Int /\ b * q \in Int
    BY <1>1
  <2>. QED
    BY <1>1, <2>1, <2>2
<1>3. ~ q < p
  <2>1. q < p => b * q + b <= b * p
    BY <1>1, Smaller
  <2>2. b * p \in Int /\ b * q \in Int
    BY <1>1
  <2>. QED
    BY <1>1, <2>1, <2>2
<1>4. p = q
  BY <1>1, <1>2, <1>3
<1>5. s = r
  BY <1>1, <1>4
<1>. QED
  BY <1>4, <1>5 DEF p, s

LEMMA Divides ==
  ASSUME NEW a \in Nat, NEW b \in Nat, b # 0
  PROVE  a % b = 0 <=> \E q \in Nat : a = b * q
<1>1. ASSUME a % b = 0 PROVE \E q \in Nat : a = b * q
  <2>. DEFINE q == a \div b
              r == a % b
  <2>1. q \in Nat /\ r = 0 /\ a = b * q + r
    BY <1>1, Quotient
  <2>. HIDE DEF q, r
  <2>2. b * q \in Int
    BY <2>1
  <2>. QED
    BY <2>1, <2>2
<1>2. ASSUME NEW q \in Nat, a = b * q PROVE a % b = 0
  <2>1. b * q \in Int /\ 0 \in 0 .. b - 1
    OBVIOUS
  <2>2. a = b * q + 0
    BY <1>2, <2>1
  <2>. QED
    BY <2>1, <2>2, QuotientIs
<1>. QED
  BY <1>1, <1>2

(***************************************************************************)
(* Half of a power of two is one, and so is twice.                         *)
(***************************************************************************)
LEMMA Half ==
  ASSUME NEW n \in Nat, PowerOfTwo(n), n >= 2
  PROVE  /\ n \div 2 \in Nat /\ n \div 2 >= 1 /\ n = 2 * (n \div 2)
         /\ PowerOfTwo(n \div 2)
<1>. DEFINE h == n \div 2
<1>1. n % n = 0
  <2>1. n = n * 1 + 0
    OBVIOUS
  <2>. QED
    BY <2>1, QuotientIs
<1>2. n % 2 = 0
  BY <1>1 DEF PowerOfTwo
<1>3. h \in Nat /\ h >= 1 /\ n = 2 * h
  BY <1>2
<1>. HIDE DEF h
<1>4. ASSUME NEW d \in 2 .. h, h % d = 0 PROVE d % 2 = 0
  <2>1. d \in Nat /\ d # 0
    BY <1>3
  <2>2. PICK q \in Nat : h = d * q
    BY <1>3, <1>4, <2>1, Divides
  <2>3. n = d * (2 * q)
    BY <1>3, <2>1, <2>2
  <2>4. n % d = 0
    BY <2>1, <2>3, Divides
  <2>. QED
    BY <1>3, <2>4 DEF PowerOfTwo
<1>. QED
  BY <1>3, <1>4 DEF PowerOfTwo, h

LEMMA Twice ==
  ASSUME NEW n \in Nat, n # 0, PowerOfTwo(n)
  PROVE  PowerOfTwo(2 * n)
<1>. SUFFICES ASSUME NEW d \in 2 .. 2 * n, (2 * n) % d = 0, d % 2 # 0
              PROVE  FALSE
  BY DEF PowerOfTwo
<1>1. d \in Nat /\ d # 0 /\ d >= 2
  OBVIOUS
<1>2. PICK e \in Nat : d = 2 * e + 1
  <2>1. d \div 2 \in Nat /\ d % 2 = 1 /\ d = 2 * (d \div 2) + (d % 2)
    BY <1>1
  <2>. QED
    BY <2>1
<1>3. PICK q \in Nat : 2 * n = d * q
  BY <1>1, Divides
<1>4. 2 * n = 2 * (e * q) + q
  BY <1>2, <1>3
<1>5. e * q \in Int /\ n - e * q \in Int /\ q = 2 * (n - e * q)
  BY <1>2, <1>4
<1>6. PICK p \in Nat : q = 2 * p
  <2>. DEFINE p == n - e * q
  <2>1. p \in Int /\ q = 2 * p
    BY <1>5
  <2>2. p \in Nat
    BY <2>1
  <2>. QED
    BY <2>1, <2>2
<1>7. n = d * p
  BY <1>1, <1>3, <1>6
<1>8. n % d = 0
  BY <1>1, <1>7, Divides
<1>9. d <= n
  <2>1. p # 0
    BY <1>7, <1>1
  <2>2. d * 0 + d <= d * p
    BY <2>1, <1>1, Smaller
  <2>. QED
    BY <2>2, <1>1, <1>7
<1>. QED
  BY <1>1, <1>8, <1>9 DEF PowerOfTwo

(***************************************************************************)
(* Of two powers of two the smaller divides the larger.                    *)
(***************************************************************************)
Uneven == {n \in Nat : /\ PowerOfTwo(n) /\ n # 0
                       /\ \E m \in 1 .. n : PowerOfTwo(m) /\ n % m # 0}

LEMMA PowersDivide ==
  ASSUME NEW m \in Nat, NEW n \in Nat, m # 0, m <= n,
         PowerOfTwo(m), PowerOfTwo(n)
  PROVE  n % m = 0
<1>. SUFFICES ASSUME Uneven # {} PROVE FALSE
  BY DEF Uneven
<1>1. PICK x \in Uneven : \A y \in Uneven : x <= y
  BY NatMin DEF Uneven
<1>2. PICK k \in 1 .. x : PowerOfTwo(k) /\ x % k # 0
  BY DEF Uneven
<1>3. x \in Nat /\ x # 0 /\ k \in Nat /\ PowerOfTwo(x)
  BY DEF Uneven
<1>4. k >= 2
  <2>1. x = 1 * x + 0
    BY <1>3
  <2>2. x % 1 = 0
    BY <1>3, <2>1, QuotientIs
  <2>. QED
    BY <1>2, <1>3, <2>2
<1>. DEFINE a == x \div 2
            b == k \div 2
<1>5. /\ a \in Nat /\ a >= 1 /\ x = 2 * a /\ PowerOfTwo(a)
      /\ b \in Nat /\ b >= 1 /\ k = 2 * b /\ PowerOfTwo(b)
  BY <1>2, <1>3, <1>4, Half
<1>. HIDE DEF a, b
<1>6. a \notin Uneven /\ b \in 1 .. a
  BY <1>1, <1>2, <1>5
<1>7. a % b = 0 /\ b # 0
  BY <1>5, <1>6 DEF Uneven
<1>8. PICK q \in Nat : a = b * q
  BY <1>5, <1>7, Divides
<1>9. x = k * q
  BY <1>5, <1>8
<1>. QED
  BY <1>2, <1>3, <1>9, Divides

(***************************************************************************)
(* Every address says the size of a region.                                *)
(***************************************************************************)
Says(v, n) == PowerOfTwo(n) /\ v % n = n \div 2 - 1
Unsaid == {v \in Nat : ~ \E n \in 2 .. 2 * (v + 1) : Says(v, n)}

LEMMA TwoIsPower == PowerOfTwo(1) /\ PowerOfTwo(2)
BY DEF PowerOfTwo

LEMMA SizeIsSaid ==
  ASSUME NEW v \in Nat
  PROVE  \E n \in 2 .. 2 * (v + 1) : Says(v, n)
<1>. SUFFICES ASSUME Unsaid # {} PROVE FALSE
  BY DEF Unsaid
<1>1. PICK x \in Unsaid : \A y \in Unsaid : x <= y
  BY NatMin DEF Unsaid
<1>2. x \in Nat
  BY DEF Unsaid
<1>3. CASE x % 2 = 0
  <2>1. Says(x, 2)
    BY <1>3, TwoIsPower DEF Says
  <2>. QED
    BY <1>2, <2>1 DEF Unsaid
<1>4. CASE x % 2 # 0
  <2>. DEFINE w == x \div 2
  <2>1. w \in Nat /\ x = 2 * w + 1 /\ w < x
    BY <1>2, <1>4
  <2>. HIDE DEF w
  <2>2. w \notin Unsaid
    BY <1>1, <1>2, <2>1
  <2>3. PICK n \in 2 .. 2 * (w + 1) : Says(w, n)
    BY <2>1, <2>2 DEF Unsaid
  <2>4. n \in Nat /\ n # 0 /\ PowerOfTwo(n) /\ PowerOfTwo(2 * n)
    BY <2>1, <2>3, Twice DEF Says
  <2>. DEFINE h == n \div 2
  <2>5. h \in Nat /\ h >= 1 /\ n = 2 * h
    BY <2>3, <2>4, Half
  <2>6. (2 * n) \div 2 = n
    BY <2>4
  <2>. HIDE DEF h
  <2>7. PICK q \in Nat : w = n * q + (h - 1)
    <3>1. w % n = h - 1
      BY <2>3 DEF Says, h
    <3>2. w \div n \in Nat /\ w = n * (w \div n) + (w % n)
      BY <2>1, <2>4, Quotient
    <3>. QED
      BY <3>1, <3>2
  <2>8. x = (2 * n) * q + (n - 1)
    BY <2>1, <2>4, <2>5, <2>7
  <2>9. 2 * n \in Nat /\ 2 * n # 0 /\ n - 1 \in 0 .. 2 * n - 1
    BY <2>4
  <2>10. x % (2 * n) = n - 1
    BY <1>2, <2>8, <2>9, QuotientIs
  <2>11. Says(x, 2 * n)
    BY <2>4, <2>6, <2>10 DEF Says
  <2>12. 2 * n \in 2 .. 2 * (x + 1)
    BY <2>1, <2>3, <2>4
  <2>. QED
    BY <1>2, <2>11, <2>12 DEF Unsaid
<1>. QED
  BY <1>3, <1>4

LEMMA RegionSizeIsPower ==
  ASSUME PmpTypeOK, NEW i \in Entries
  PROVE  RegionSize(i) \in Nat /\ RegionSize(i) # 0 /\ PowerOfTwo(RegionSize(i))
<1>1. CASE pmpcfg[i].A = "NA4"
  BY <1>1, TwoIsPower DEF RegionSize
<1>2. CASE pmpcfg[i].A # "NA4"
  <2>. DEFINE v == pmpaddr[i]
  <2>1. v \in Nat /\ v <= MaxSector /\ MaxSector \in Nat
    BY PmpAssumption DEF PmpTypeOK, Sectors
  <2>. HIDE DEF v
  <2>2. PICK n \in 2 .. 2 * (v + 1) : Says(v, n)
    BY <2>1, SizeIsSaid
  <2>3. n \in RegionSizes /\ v % n = n \div 2 - 1
    BY <2>1, <2>2 DEF Says, RegionSizes
  <2>4. RegionSize(i) \in RegionSizes
    BY <1>2, <2>3 DEF RegionSize, v
  <2>. QED
    BY <2>1, <2>4 DEF RegionSizes
<1>. QED
  BY <1>1, <1>2

(***************************************************************************)
(* A page that an entry does not cut in two is inside the range of the     *)
(* entry or outside.                                                       *)
(***************************************************************************)
InPage(page) == Physical(page, Offsets)

LEMMA SectorInPage ==
  ASSUME NEW page \in Nat, NEW s \in InPage(page)
  PROVE  /\ s \in Nat /\ s \div PageSectors = page
         /\ page * PageSectors <= s
         /\ s < (page + 1) * PageSectors
<1>1. PageSectors \in Nat /\ PageSectors # 0
  BY PmpAssumption
<1>2. PICK o \in 0 .. PageSectors - 1 : s = page * PageSectors + o
  BY DEF InPage, Physical, Offsets
<1>3. page * PageSectors \in Nat /\ page * PageSectors = PageSectors * page
  BY <1>1
<1>4. s \in Nat
  BY <1>1, <1>2, <1>3
<1>5. s \div PageSectors = page
  BY <1>1, <1>2, <1>3, <1>4, QuotientIs
<1>6. (page + 1) * PageSectors = page * PageSectors + PageSectors
  BY <1>1
<1>. QED
  BY <1>1, <1>2, <1>3, <1>4, <1>5, <1>6

\* A page lies in one of the larger regions. Where sizes are no powers of
\* two it may lie in two.
LEMMA PageInRegion ==
  ASSUME NEW r \in Nat, r # 0, PowerOfTwo(r), r >= PageSectors,
         NEW page \in Nat
  PROVE  \E q \in Nat : \A s \in InPage(page) : s \div r = q
<1>1. PageSectors \in Nat /\ PageSectors # 0 /\ PowerOfTwo(PageSectors)
  BY PmpAssumption
<1>2. PICK m \in Nat : r = PageSectors * m
  BY <1>1, PowersDivide, Divides
<1>3. m # 0
  BY <1>1, <1>2
<1>. DEFINE q == page \div m
            t == page % m
<1>4. q \in Nat /\ t \in 0 .. m - 1 /\ page = m * q + t
  BY <1>3, Quotient
<1>. HIDE DEF q, t
<1>5. ASSUME NEW s \in InPage(page) PROVE s \div r = q
  <2>1. PICK o \in 0 .. PageSectors - 1 : s = page * PageSectors + o
    BY DEF InPage, Physical, Offsets
  <2>. DEFINE e == t * PageSectors + o
  <2>2. s = r * q + e
    BY <1>1, <1>2, <1>4, <2>1
  <2>3. PageSectors * t + PageSectors <= PageSectors * m
    BY <1>1, <1>3, <1>4, Smaller
  <2>4. t * PageSectors \in Nat /\ t * PageSectors = PageSectors * t
    BY <1>1, <1>4, <1>3
  <2>5. e \in 0 .. r - 1
    BY <1>1, <1>2, <2>1, <2>3, <2>4
  <2>6. s \in Nat
    BY SectorInPage
  <2>. HIDE DEF e
  <2>. QED
    BY <1>4, <2>2, <2>5, <2>6, QuotientIs
<1>. QED
  BY <1>4, <1>5

\* A smaller region lies in one page.
LEMMA RegionInPage ==
  ASSUME NEW r \in Nat, r # 0, PowerOfTwo(r), r < PageSectors,
         NEW s \in Nat, NEW v \in Nat, s \div r = v \div r
  PROVE  s \div PageSectors = v \div PageSectors
<1>1. PageSectors \in Nat /\ PageSectors # 0 /\ PowerOfTwo(PageSectors)
  BY PmpAssumption
<1>2. PICK m \in Nat : PageSectors = r * m
  BY <1>1, PowersDivide, Divides
<1>3. m # 0
  BY <1>1, <1>2
<1>. DEFINE u == s \div r
            q == u \div m
            t == u % m
<1>4. u \in Nat
  BY Quotient
<1>5. q \in Nat /\ t \in 0 .. m - 1 /\ u = m * q + t
  BY <1>3, <1>4, Quotient
<1>6. ASSUME NEW a \in Nat, a \div r = u PROVE a \div PageSectors = q
  <2>. DEFINE o == a % r
              e == r * t + o
  <2>1. o \in 0 .. r - 1 /\ a = r * u + o
    BY <1>6, Quotient
  <2>. HIDE DEF o, u, q, t
  <2>2. a = PageSectors * q + e
    BY <1>2, <1>5, <2>1
  <2>3. r * t + r <= r * m
    BY <1>3, <1>5, Smaller
  <2>4. r * t \in Nat
    BY <1>3, <1>5
  <2>5. e \in 0 .. PageSectors - 1
    BY <1>2, <2>1, <2>3, <2>4
  <2>. HIDE DEF e
  <2>. QED
    BY <1>1, <1>5, <2>2, <2>5, QuotientIs
<1>. QED
  BY <1>6

LEMMA PageOfIs ==
  ASSUME NEW a \in Nat, NEW page \in Nat
  PROVE  /\ page < PageOf(a) => (page + 1) * PageSectors <= a
         /\ PageOf(a) \in Nat
<1>1. PageSectors \in Nat /\ PageSectors # 0
  BY PmpAssumption
<1>. DEFINE q == a \div PageSectors
            o == a % PageSectors
<1>2. q \in Nat /\ o \in Nat /\ a = PageSectors * q + o
  BY <1>1, Quotient
<1>. HIDE DEF q, o
<1>3. ASSUME page < q PROVE (page + 1) * PageSectors <= a
  <2>1. PageSectors * page + PageSectors <= PageSectors * q
    BY <1>1, <1>2, <1>3, Smaller
  <2>2. (page + 1) * PageSectors = PageSectors * page + PageSectors
    BY <1>1
  <2>3. PageSectors * page \in Int /\ PageSectors * q \in Int
    BY <1>1, <1>2
  <2>. QED
    BY <1>1, <1>2, <2>1, <2>2, <2>3
<1>. QED
  BY <1>2, <1>3 DEF PageOf, q

LEMMA WholePage ==
  ASSUME PmpTypeOK, NEW page \in Nat, NEW i \in Entries, ~subset_match(i, page)
  PROVE  \A s, u \in InPage(page) : match4(i, s) => match4(i, u)
<1>. SUFFICES ASSUME NEW s \in InPage(page), NEW u \in InPage(page),
                     match4(i, s)
              PROVE  match4(i, u)
  OBVIOUS
<1>. DEFINE start == page * PageSectors
            end == (page + 1) * PageSectors
            base == tor_base(i)
            top == pmpaddr[i]
<1>1. /\ s \in Nat /\ start <= s /\ s < end /\ s \div PageSectors = page
      /\ u \in Nat /\ start <= u /\ u < end /\ u \div PageSectors = page
  BY SectorInPage
<1>2. /\ base \in Nat /\ top \in Nat
  <2>1. i \in Nat /\ (i # 0 => i - 1 \in Entries)
    BY PmpAssumption DEF Entries
  <2>. QED
    BY <2>1 DEF PmpTypeOK, Sectors, tor_base
<1>3. start \in Nat /\ end \in Nat
  BY PmpAssumption
<1>4. CASE pmpcfg[i].A = "TOR"
  <2>1. base <= s /\ s < top
    BY <1>4 DEF match4
  <2>2. page < PageOf(base) => end <= base
    BY <1>2, PageOfIs
  <2>3. page < PageOf(top) => end <= top
    BY <1>2, PageOfIs
  <2>. HIDE DEF start, end, base, top
  <2>4. start >= base /\ end <= top
    <3>1. \/ page < PageOf(base)
          \/ start >= top
          \/ start >= base /\ page < PageOf(top)
      BY <1>4 DEF subset_match, EndsBeforeUpper, start, base, top
    <3>. QED
      BY <3>1, <2>1, <2>2, <2>3, <1>1, <1>2, <1>3
  <2>5. base <= u /\ u < top
    BY <2>4, <1>1, <1>2, <1>3
  <2>. QED
    BY <2>5, <1>4 DEF match4, base, top
<1>5. CASE pmpcfg[i].A # "TOR"
  <2>. DEFINE r == RegionSize(i)
  <2>1. r \in Nat /\ r # 0 /\ PowerOfTwo(r)
    BY RegionSizeIsPower
  <2>2. pmpcfg[i].A \in {"NA4", "NAPOT"} /\ s \div r = top \div r
    BY <1>5 DEF match4
  <2>3. r >= PageSectors \/ page # PageOf(top)
    BY <1>5, <2>2 DEF subset_match
  <2>4. PageSectors \in Nat
    BY PmpAssumption
  <2>. HIDE DEF start, end, base, top, r
  <2>5. CASE r >= PageSectors
    <3>1. s \div r = u \div r
      BY <2>1, <2>5, PageInRegion
    <3>. QED
      BY <2>2, <3>1 DEF match4, r, top
  <2>6. CASE r < PageSectors
    <3>1. s \div PageSectors = top \div PageSectors
      BY <1>1, <1>2, <2>1, <2>2, <2>6, RegionInPage
    <3>. QED
      BY <1>1, <2>1, <2>3, <2>4, <2>6, <3>1 DEF PageOf
  <2>. QED
    BY <2>1, <2>4, <2>5, <2>6
<1>. QED
  BY <1>4, <1>5

(***************************************************************************)
(* So PMP says the same of all accesses to a page that no entry cuts.      *)
(***************************************************************************)
LEMMA HomogeneousAgrees ==
  ASSUME PmpTypeOK, NEW page \in Nat, pmp_homogeneous(page),
         NEW a \in SUBSET InPage(page), a # {},
         NEW b \in SUBSET InPage(page), b # {},
         NEW type, NEW mode, pmp_ok(a, type, mode)
  PROVE  pmp_ok(b, type, mode)
<1>. DEFINE m(access) == {i \in Entries : \E s \in access : match4(i, s)}
            first(access) == CHOOSE i \in m(access) : \A j \in m(access) : i <= j
<1>1. \A i \in Entries : \A s, u \in InPage(page) : match4(i, s) => match4(i, u)
  BY WholePage DEF pmp_homogeneous
<1>2. m(a) = m(b)
  BY <1>1
<1>3. \A i \in m(b) : \A s \in b : match4(i, s)
  BY <1>1
<1>4. m(b) # {} => first(b) \in m(b)
  <2>1. m(b) \in SUBSET Nat
    BY PmpAssumption DEF Entries
  <2>. HIDE DEF m
  <2>. QED
    BY <2>1, NatMin
<1>5. first(a) = first(b)
  BY <1>2
<1>6. IF m(a) = {}
      THEN mode = "M" /\ ~mseccfg.mmwp /\ (mseccfg.mml => type # "FETCH")
      ELSE (\A s \in a : match4(first(a), s)) /\ access_ok(first(a), type, mode)
  BY DEF pmp_ok
<1>. HIDE DEF m, first
<1>7. IF m(b) = {}
      THEN mode = "M" /\ ~mseccfg.mmwp /\ (mseccfg.mml => type # "FETCH")
      ELSE (\A s \in b : match4(first(b), s)) /\ access_ok(first(b), type, mode)
  BY <1>2, <1>3, <1>4, <1>5, <1>6
<1>. QED
  BY <1>7 DEF pmp_ok, m, first

----------------------------------------------------------------------------
(***************************************************************************)
(* What permits an access does not change while the registers stay: a walk *)
(* only sets A and D of a leaf.                                            *)
(***************************************************************************)
LEMMA PmpSame ==
  ASSUME UNCHANGED pmpVars, NEW access, NEW type, NEW mode
  PROVE  pmp_ok(access, type, mode)' = pmp_ok(access, type, mode)
BY DEF pmp_ok, match4, access_ok, tor_base, RegionSize, pmpVars

OnlyTouched == \/ UNCHANGED pte
               \/ \E vpn \in Vpns, type \in Types : SetAD(vpn, type)

LEMMA TouchKeeps ==
  ASSUME MmuTypeOK, OnlyTouched,
         UNCHANGED <<pmpVars, cpuVars>>, NEW v \in Vpns, NEW t \in Types
  PROVE  Ppn(v, t)' = Ppn(v, t) /\ (WalkOk(v, t) => WalkOk(v, t)')
<1>. DEFINE e == pte[v]
            f == pte'[v]
<1>1. e \in Ptes /\ (f = e \/ \E type \in Types : f = Touched(e, type))
  BY DEF OnlyTouched, SetAD, MmuTypeOK
<1>2. /\ f.ppn = e.ppn /\ f.V = e.V /\ f.R = e.R /\ f.W = e.W /\ f.X = e.X
      /\ f.U = e.U
  BY <1>1 DEF Touched, Ptes
<1>3. EffectivePrv(t)' = EffectivePrv(t) /\ Bare(t)' = Bare(t)
  BY DEF EffectivePrv, Bare, cpuVars, in_mprv
<1>4. PageRights(e, t) => PageRights(e, t)'
  <2>1. e' = f
    OBVIOUS
  <2>. QED
    BY <1>2, <1>3, <2>1 DEF PageRights, cpuVars
<1>5. Touched(e, t) = e => Touched(f, t) = f
  <2>. SUFFICES ASSUME Touched(e, t) = e,
                       NEW type \in Types, f = Touched(e, type)
                PROVE  Touched(f, t) = f
    BY <1>1
  <2>1. e.A = TRUE /\ e.D = (e.D \/ t = "STORE")
    BY <1>1 DEF Touched, Ptes
  <2>2. f \in Ptes
    BY <1>1, TouchedTyped
  <2>3. f.A = TRUE /\ f.D = (e.D \/ type = "STORE")
    BY <1>1 DEF Touched, Ptes
  <2>4. t = "STORE" => f.D
    BY <2>1, <2>3
  <2>5. f.D \in BOOLEAN
    BY <2>2 DEF Ptes
  <2>6. (f.D \/ t = "STORE") = f.D
    BY <2>4, <2>5
  <2>. QED
    BY <2>2, <2>3, <2>6 DEF Touched, Ptes
<1>6. pmp_ok({PteSector[v]}, "LOAD", "S")' = pmp_ok({PteSector[v]}, "LOAD", "S")
  BY PmpSame
<1>7. pmp_ok({PteSector[v]}, "STORE", "S")' = pmp_ok({PteSector[v]}, "STORE", "S")
  BY PmpSame
<1>8. Ppn(v, t)' = Ppn(v, t)
  BY <1>2, <1>3 DEF Ppn
<1>9. ASSUME WalkOk(v, t) PROVE WalkOk(v, t)'
  BY <1>3, <1>4, <1>5, <1>6, <1>7, <1>9 DEF WalkOk
<1>. QED
  BY <1>8, <1>9

LEMMA PermittedStays ==
  ASSUME MmuTypeOK, OnlyTouched, UNCHANGED <<pmpVars, cpuVars>>,
         NEW v \in Vpns, NEW t \in Types, NEW offsets, Permitted(v, t, offsets)
  PROVE  Permitted(v, t, offsets)'
<1>. DEFINE a == Physical(Ppn(v, t), offsets)
            m == EffectivePrv(t)
<1>1. Ppn(v, t)' = Ppn(v, t) /\ WalkOk(v, t)'
  BY TouchKeeps DEF Permitted
<1>2. PICK b, n : b = a /\ n = m
  OBVIOUS
<1>3. m' = m
  BY DEF EffectivePrv, cpuVars, in_mprv
<1>4. a' = a
  BY <1>1 DEF Physical
<1>5. pmp_ok(b, t, n)
  BY <1>2 DEF Permitted
<1>6. pmp_ok(b, t, n)'
  BY <1>5, PmpSame
<1>. QED
  BY <1>1, <1>2, <1>3, <1>4, <1>6 DEF Permitted

(***************************************************************************)
(* What is entered in the TLB for one access is permitted for the page.    *)
(***************************************************************************)
OffsetSets == {{o} : o \in Offsets} \cup {Offsets}

LEMMA PagePermitted ==
  ASSUME Typed, NEW v \in Vpns, NEW t \in Types, NEW some \in OffsetSets,
         Permitted(v, t, some), pmp_homogeneous(Ppn(v, t)),
         NEW offsets \in OffsetSets
  PROVE  Permitted(v, t, offsets)
<1>1. PICK page \in Nat : page = Ppn(v, t)
  BY PpnTyped DEF Typed, Pages
<1>2. 0 \in Offsets
  BY PmpAssumption DEF Offsets
<1>3. \A set \in OffsetSets :
         Physical(page, set) \in SUBSET InPage(page) /\ Physical(page, set) # {}
  BY <1>2 DEF OffsetSets, Physical, InPage
<1>4. pmp_ok(Physical(page, some), t, EffectivePrv(t))
  BY <1>1 DEF Permitted
<1>5. pmp_ok(Physical(page, offsets), t, EffectivePrv(t))
  BY <1>1, <1>3, <1>4, HomogeneousAgrees DEF Typed
<1>. QED
  BY <1>1, <1>5 DEF Permitted

(***************************************************************************)
(* What can be hit after an access that missed.                            *)
(***************************************************************************)
LEMMA SlowPathHits ==
  ASSUME MmuTypeOK, NEW vpn \in Vpns, NEW type \in Types, NEW offsets,
         SlowPath(vpn, type, offsets),
         NEW v \in Vpns, NEW t \in Types, Hit(v, t)'
  PROVE  \/ Hit(v, t) /\ HitPpn(v)' = HitPpn(v)
         \/ /\ v = vpn /\ ~in_mprv
            /\ HitPpn(v)' = Ppn(vpn, type) /\ Ppn(vpn, type) \in RamPages
            /\ Permitted(vpn, type, offsets)
            /\ Hit(v, t) \/ (t = type /\ pmp_homogeneous(Ppn(vpn, type)))
<1>. DEFINE x == vpn % TLB_ENTRIES
            y == v % TLB_ENTRIES
            ppn == Ppn(vpn, type)
            kept == TagsOfOthersDropped(x, vpn)
            tag == [vpn |-> vpn, check |-> type \in check_triggers]
            refilled == /\ ~in_mprv /\ Permitted(vpn, type, offsets)
                        /\ ppn \in RamPages
            entered == refilled /\ pmp_homogeneous(ppn)
<1>1. x \in Indexes /\ y \in Indexes /\ v # -1 /\ v \in Int /\ vpn \in Int
  BY IndexOfPage DEF Vpns
<1>2. /\ kept \in [Types -> [Indexes -> Tags]]
      /\ \A u \in Types : \A z \in Indexes :
           kept[u][z] = IF z = x /\ tlb_tag[u][x].vpn # vpn
                        THEN NoTag ELSE tlb_tag[u][z]
  BY <1>1, DropTyped
<1>3. ppn \in Int
  BY PpnTyped DEF Pages
<1>4. \/ UNCHANGED <<tlb_tag, tlb_data>>
      \/ /\ refilled /\ tlb_data' = [tlb_data EXCEPT ![x] = ppn - vpn]
         /\ \/ tlb_tag' = kept
            \/ entered /\ tlb_tag' = [kept EXCEPT ![type][x] = tag]
  BY DEF SlowPath, refill_tlb
<1>5. tlb_tag'[t][y].vpn = v
  BY DEF Hit
<1>6. Hit(v, t) <=> tlb_tag[t][y].vpn = v
  BY DEF Hit
<1>7. HitPpn(v) = v + tlb_data[y] /\ HitPpn(v)' = v + tlb_data'[y]
  BY DEF HitPpn
<1>8. tag.vpn = vpn
  BY Zenon
<1>9. NoTag.vpn = -1
  BY DEF NoTag
<1>. HIDE DEF x, y, ppn, kept, tag, refilled, entered
<1>10. CASE UNCHANGED <<tlb_tag, tlb_data>>
  BY <1>5, <1>6, <1>7, <1>10
<1>11. CASE /\ refilled /\ tlb_data' = [tlb_data EXCEPT ![x] = ppn - vpn]
            /\ \/ tlb_tag' = kept
               \/ entered /\ tlb_tag' = [kept EXCEPT ![type][x] = tag]
  <2>1. \/ entered /\ y = x /\ t = type /\ tlb_tag'[t][y] = tag
        \/ tlb_tag'[t][y] = kept[t][y]
    BY <1>1, <1>2, <1>11
  <2>2. CASE tlb_tag'[t][y] = kept[t][y]
    <3>1. Hit(v, t) /\ (y = x => v = vpn)
      BY <1>1, <1>2, <1>5, <1>6, <1>9, <2>2
    <3>2. CASE y = x
      <4>1. tlb_data'[y] = ppn - vpn
        BY <1>1, <1>11, <3>2 DEF MmuTypeOK
      <4>. QED
        BY <1>1, <1>3, <1>7, <1>11, <3>1, <3>2, <4>1 DEF refilled, ppn
    <3>3. CASE y # x
      <4>1. tlb_data'[y] = tlb_data[y]
        BY <1>1, <1>11, <3>3 DEF MmuTypeOK
      <4>. QED
        BY <1>7, <3>1, <4>1
    <3>. QED
      BY <3>2, <3>3
  <2>3. CASE entered /\ y = x /\ t = type /\ tlb_tag'[t][y] = tag
    <3>1. v = vpn
      BY <1>5, <1>8, <2>3
    <3>2. tlb_data'[y] = ppn - vpn
      BY <1>1, <1>11, <2>3 DEF MmuTypeOK
    <3>. QED
      BY <1>1, <1>3, <1>7, <2>3, <3>1, <3>2 DEF entered, refilled, ppn
  <2>. QED
    BY <2>1, <2>2, <2>3
<1>. QED
  BY <1>4, <1>10, <1>11

(***************************************************************************)
(* Both invariants are inductive. The registers they depend on change only *)
(* with a flush, so an access is all that has to be looked at.             *)
(***************************************************************************)
LEMMA SlowPathKeepsHits ==
  ASSUME Typed, HitMatchesWalk, NEW vpn \in Vpns, NEW type \in Types,
         NEW offsets \in OffsetSets, SlowPath(vpn, type, offsets),
         UNCHANGED <<pmpVars, cpuVars>>
  PROVE  HitMatchesWalk'
<1>. SUFFICES ASSUME NEW v \in Vpns, NEW t \in Types, Hit(v, t)'
              PROVE  /\ HitPpn(v)' = Ppn(v, t)'
                     /\ Ppn(v, t)' \in RamPages
                     /\ \A set \in OffsetSets : Permitted(v, t, set)'
  BY DEF HitMatchesWalk, OffsetSets
<1>1. OnlyTouched /\ MmuTypeOK
  BY DEF SlowPath, OnlyTouched, Typed
<1>2. Ppn(v, t)' = Ppn(v, t)
  BY <1>1, TouchKeeps
<1>3. SUFFICES /\ HitPpn(v)' = Ppn(v, t)
               /\ Ppn(v, t) \in RamPages
               /\ \A set \in OffsetSets : Permitted(v, t, set)
  BY <1>1, <1>2, PermittedStays
<1>4. Hit(v, t) => /\ HitPpn(v) = Ppn(v, t) /\ Ppn(v, t) \in RamPages
                   /\ \A set \in OffsetSets : Permitted(v, t, set)
  BY DEF HitMatchesWalk, OffsetSets
<1>5. CASE Hit(v, t) /\ HitPpn(v)' = HitPpn(v)
  BY <1>4, <1>5
<1>6. CASE /\ v = vpn /\ ~in_mprv
           /\ HitPpn(v)' = Ppn(vpn, type) /\ Ppn(vpn, type) \in RamPages
           /\ Permitted(vpn, type, offsets)
           /\ Hit(v, t) \/ (t = type /\ pmp_homogeneous(Ppn(vpn, type)))
  <2>1. Ppn(v, t) = Ppn(vpn, type)
    BY <1>6 DEF Ppn, Bare, EffectivePrv
  <2>2. CASE Hit(v, t)
    BY <1>4, <1>6, <2>1, <2>2
  <2>3. CASE t = type /\ pmp_homogeneous(Ppn(vpn, type))
    BY <1>6, <2>1, <2>3, PagePermitted
  <2>. QED
    BY <1>6, <2>2, <2>3
<1>. QED
  BY <1>1, <1>5, <1>6, SlowPathHits

LEMMA UntouchedKeepsHits ==
  ASSUME Typed, HitMatchesWalk, OnlyTouched,
         UNCHANGED <<pmpVars, cpuVars, tlb_tag, tlb_data>>
  PROVE  HitMatchesWalk'
<1>. SUFFICES ASSUME NEW v \in Vpns, NEW t \in Types, Hit(v, t)'
              PROVE  /\ HitPpn(v)' = Ppn(v, t)'
                     /\ Ppn(v, t)' \in RamPages
                     /\ \A set \in OffsetSets : Permitted(v, t, set)'
  BY DEF HitMatchesWalk, OffsetSets
<1>1. Hit(v, t) /\ HitPpn(v)' = HitPpn(v)
  BY DEF Hit, HitPpn
<1>2. Ppn(v, t)' = Ppn(v, t)
  BY TouchKeeps DEF Typed
<1>3. \A set \in OffsetSets : Permitted(v, t, set)
  BY <1>1 DEF HitMatchesWalk, OffsetSets
<1>4. \A set \in OffsetSets : Permitted(v, t, set)'
  BY <1>3, PermittedStays DEF Typed
<1>. QED
  BY <1>1, <1>2, <1>4 DEF HitMatchesWalk

LEMMA AccessKeepsHits ==
  ASSUME Typed, HitMatchesWalk, Access
  PROVE  HitMatchesWalk'
<1>1. ASSUME NEW vpn \in Vpns, NEW type \in Types, NEW offsets \in OffsetSets,
             DataAccess(vpn, type, offsets)
      PROVE  HitMatchesWalk'
  BY <1>1, SlowPathKeepsHits DEF DataAccess
<1>2. ASSUME NEW vpn \in Vpns, NEW type \in Types, SpecialAccess(vpn, type)
      PROVE  HitMatchesWalk'
  <2>1. OnlyTouched
    BY <1>2 DEF SpecialAccess, OnlyTouched
  <2>. QED
    BY <1>2, <2>1, UntouchedKeepsHits DEF SpecialAccess, tlbVars
<1>3. ASSUME NEW vpn \in Vpns, NEW o \in Offsets, FetchDecode(vpn, o)
      PROVE  HitMatchesWalk'
  <2>1. {o} \in OffsetSets /\ "FETCH" \in Types
    BY DEF OffsetSets, Types
  <2>2. CASE TlbHit(vpn, "FETCH")
    BY <1>3, <2>2, UntouchedKeepsHits DEF FetchDecode, OnlyTouched
  <2>3. CASE ~TlbHit(vpn, "FETCH")
    BY <1>3, <2>1, <2>3, SlowPathKeepsHits DEF FetchDecode
  <2>. QED
    BY <2>2, <2>3
<1>. QED
  BY <1>1, <1>2, <1>3 DEF Access, OffsetSets

\* A decoded instruction, at an offset.
MayRun(c, o) == /\ Permitted(c.vpn, "FETCH", {o})
                /\ Ppn(c.vpn, "FETCH") = c.ppn

LEMMA CodeStays ==
  ASSUME MmuTypeOK, OnlyTouched, UNCHANGED <<pmpVars, cpuVars>>,
         NEW c \in Codes, NEW o, MayRun(c, o)
  PROVE  MayRun(c, o)'
<1>1. c.vpn \in Vpns /\ "FETCH" \in Types
  BY DEF Types, Codes
<1>2. Ppn(c.vpn, "FETCH")' = Ppn(c.vpn, "FETCH")
  BY <1>1, TouchKeeps
<1>3. Permitted(c.vpn, "FETCH", {o})'
  BY <1>1, PermittedStays DEF MayRun
<1>. QED
  BY <1>2, <1>3 DEF MayRun

LEMMA AccessKeepsCode ==
  ASSUME TlbInv, HitMatchesWalk, DecodedMayRun, Access
  PROVE  DecodedMayRun'
<1>. "FETCH" \in Types
  BY DEF Types
<1>1. OnlyTouched /\ UNCHANGED <<pmpVars, cpuVars>> /\ MmuTypeOK
  BY DEF Access, DataAccess, SpecialAccess, FetchDecode, SlowPath, OnlyTouched,
     TlbInv, Typed
<1>2. SUFFICES ASSUME NEW k \in Offsets, NEW c, c = icache'[k], c # NoCode
               PROVE  MayRun(c, k)'
  BY DEF DecodedMayRun, MayRun
<1>3. CASE icache'[k] = icache[k]
  <2>1. c = icache[k]
    BY <1>2, <1>3
  <2>2. c \in Codes /\ MayRun(c, k)
    BY <1>1, <1>2, <2>1 DEF MmuTypeOK, DecodedMayRun, MayRun
  <2>. QED
    BY <1>1, <2>2, CodeStays
<1>4. CASE icache'[k] # icache[k]
  <2>1. PICK vpn \in Vpns, o \in Offsets : FetchDecode(vpn, o)
    BY <1>4 DEF Access, DataAccess, SpecialAccess, tlbVars
  <2>2. k = o
    BY <1>1, <1>4, <2>1 DEF FetchDecode, MmuTypeOK
  <2>. DEFINE ppn == IF TlbHit(vpn, "FETCH") THEN HitPpn(vpn)
                                             ELSE Ppn(vpn, "FETCH")
  <2>3. \E w \in BOOLEAN : c = [vpn |-> vpn, ppn |-> ppn, watched |-> w]
    BY <1>1, <1>2, <1>4, <2>1, <2>2 DEF FetchDecode, MmuTypeOK
  <2>4. TlbHit(vpn, "FETCH") => /\ HitPpn(vpn) = Ppn(vpn, "FETCH")
                                /\ Permitted(vpn, "FETCH", {o})
    BY DEF TlbHit, HitMatchesWalk
  <2>5. TlbHit(vpn, "FETCH") \/ Permitted(vpn, "FETCH", {o})
    BY <1>4, <2>1 DEF FetchDecode
  <2>6. ppn = Ppn(vpn, "FETCH") /\ ppn \in Pages
    BY <1>1, <2>4, PpnTyped
  <2>7. Permitted(vpn, "FETCH", {o})
    BY <2>4, <2>5
  <2>. HIDE DEF ppn
  <2>8. /\ c \in Codes /\ c.vpn = vpn
        /\ c.ppn = Ppn(vpn, "FETCH")
    BY <2>3, <2>6 DEF Codes
  <2>9. MayRun(c, k)
    BY <2>2, <2>7, <2>8 DEF MayRun
  <2>. QED
    BY <1>1, <2>8, <2>9, CodeStays
<1>. QED
  BY <1>3, <1>4

\* Nothing can be hit or run after a flush.
LEMMA FlushForgets ==
  ASSUME flush_tlb
  PROVE  HitMatchesWalk' /\ DecodedMayRun'
<1>1. \A vpn \in Vpns : vpn # -1 /\ vpn % TLB_ENTRIES \in Indexes
  BY IndexOfPage DEF Vpns
<1>2. \A vpn \in Vpns, type \in Types : ~Hit(vpn, type)'
  BY <1>1 DEF flush_tlb, Hit, NoTag
<1>3. \A o \in Offsets : icache'[o] = NoCode
  BY DEF flush_tlb, FlushedIcache
<1>. QED
  BY <1>2, <1>3 DEF HitMatchesWalk, DecodedMayRun

WalkInv == TlbInv /\ HitMatchesWalk /\ DecodedMayRun

LEMMA StepKeepsWalkInv ==
  ASSUME WalkInv, [MmuNext]_mmuVars
  PROVE  HitMatchesWalk' /\ DecodedMayRun'
<1>. USE DEF WalkInv
<1>1. CASE Access
  BY <1>1, AccessKeepsHits, AccessKeepsCode DEF TlbInv
<1>2. ASSUME UNCHANGED <<pmpVars, cpuVars, pte, tlb_tag, tlb_data>>,
             icache' = icache \/ icache' = FlushedIcache
      PROVE  HitMatchesWalk' /\ DecodedMayRun'
  <2>1. OnlyTouched
    BY <1>2 DEF OnlyTouched
  <2>2. HitMatchesWalk'
    BY <1>2, <2>1, UntouchedKeepsHits DEF TlbInv
  <2>3. CASE icache' = FlushedIcache
    BY <2>2, <2>3 DEF DecodedMayRun, FlushedIcache
  <2>4. CASE icache' = icache
    <3>. SUFFICES ASSUME NEW k \in Offsets, NEW c, c = icache[k], c # NoCode
                  PROVE  MayRun(c, k)'
      BY <2>2, <2>4 DEF DecodedMayRun, MayRun
    <3>1. c \in Codes /\ MayRun(c, k)
      BY DEF TlbInv, Typed, MmuTypeOK, DecodedMayRun, MayRun
    <3>. QED
      BY <1>2, <2>1, <3>1, CodeStays DEF TlbInv, Typed
  <2>. QED
    BY <1>2, <2>2, <2>3, <2>4
<1>3. CASE SetPrivilege \/ SatpWrite \/ PmpWrite
  BY <1>3, FlushForgets DEF SetPrivilege, SatpWrite, PmpWrite
<1>4. CASE FlushIcache
  BY <1>2, <1>4 DEF FlushIcache
<1>5. ASSUME NEW new \in StatusWrites, StatusWrite(new)
      PROVE  HitMatchesWalk' /\ DecodedMayRun'
  <2>1. CASE mstatus # new
    BY <1>5, <2>1, FlushForgets DEF StatusWrite, StatusFlushes
  <2>2. CASE mstatus = new
    BY <1>2, <1>5, <2>2 DEF StatusWrite, StatusFlushes, cpuVars, tlbVars
  <2>. QED
    BY <2>1, <2>2
<1>6. ASSUME NEW vpn \in Vpns, NEW e \in PteWrites[vpn], PteWrite(vpn, e)
      PROVE  HitMatchesWalk' /\ DecodedMayRun'
  BY <1>6, FlushForgets DEF PteWrite
<1>7. ASSUME NEW watched \in TriggerSets, trigger_updated(watched)
      PROVE  HitMatchesWalk' /\ DecodedMayRun'
  BY <1>7, FlushForgets DEF trigger_updated, TriggerFlush
<1>8. CASE UNCHANGED mmuVars
  BY <1>2, <1>8 DEF mmuVars, tlbVars
<1>. QED
  BY <1>1, <1>3, <1>4, <1>5, <1>6, <1>7, <1>8 DEF MmuNext

LEMMA WalkInvariance == MmuSpec => []WalkInv
<1>1. MmuInit => HitMatchesWalk /\ DecodedMayRun
  <2>1. \A vpn \in Vpns : vpn # -1 /\ vpn % TLB_ENTRIES \in Indexes
    BY IndexOfPage DEF Vpns
  <2>. QED
    BY <2>1 DEF MmuInit, HitMatchesWalk, DecodedMayRun, Hit, NoTag
<1>2. WalkInv /\ [MmuNext]_mmuVars => HitMatchesWalk' /\ DecodedMayRun'
  BY StepKeepsWalkInv
<1>. QED
  BY <1>1, <1>2, TlbInvariance, PTL DEF MmuSpec, WalkInv

\* An access that hits in the TLB would be permitted by a walk and a PMP
\* check of the present state, at the same physical page, whatever privilege,
\* mstatus, satp, page tables and PMP went through since the entry was made:
\* every path that changes what permitted it calls flush_tlb, and refill_tlb
\* enters a tag only for a page that no PMP entry cuts in two.
THEOREM HitsAreCurrent == MmuSpec => []HitMatchesWalk
<1>. QED
  BY WalkInvariance, PTL DEF WalkInv

\* An instruction that was decoded, through a walk or a hit in the TLB, may
\* still be fetched from the page it came from.
THEOREM CodeIsCurrent == MmuSpec => []DecodedMayRun
<1>. QED
  BY WalkInvariance, PTL DEF WalkInv
=============================================================================
