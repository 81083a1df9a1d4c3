-------------------------------- MODULE Pmp --------------------------------
(***************************************************************************)
(* Physical memory protection: the CSRs pmpaddr, pmpcfg and mseccfg of     *)
(* riscv/csrs.cc and the check of an access in riscv/mmu.cc.               *)
(*                                                                         *)
(* Memory is counted in sectors of four bytes, the granularity of the      *)
(* default configuration; an access is a set of sectors. One CSR holds all *)
(* the pmpcfg fields of a model. An operator marked "Faulty" is used by no *)
(* action.                                                                 *)
(***************************************************************************)
EXTENDS Naturals

CONSTANTS
  NPmp,         \* n_pmp, not zero
  MaxSector,    \* sectors are 0 .. MaxSector
  PageSectors,  \* PGSIZE, in sectors
  AddrWrites,   \* what software stores to pmpaddr: a set per entry
  CfgWrites,    \* and to pmpcfg: functions from entries to fields
  SeccfgWrites  \* and to mseccfg

Entries == 0 .. NPmp - 1
Sectors == 0 .. MaxSector
Pages == 0 .. MaxSector \div PageSectors
Types == {"LOAD", "STORE", "FETCH"}
Modes == {"U", "S", "M"}
Cfgs == [A : {"OFF", "TOR", "NA4", "NAPOT"},
         R : BOOLEAN, W : BOOLEAN, X : BOOLEAN, L : BOOLEAN]
Seccfgs == [rlb : BOOLEAN, mml : BOOLEAN, mmwp : BOOLEAN]

\* All its divisors are even.
PowerOfTwo(n) == \A d \in 2 .. n : n % d = 0 => d % 2 = 0

ASSUME PmpAssumption ==
  /\ NPmp \in Nat \ {0} /\ MaxSector \in Nat
  /\ PageSectors \in Nat \ {0} /\ PowerOfTwo(PageSectors)
  /\ AddrWrites \in [Entries -> SUBSET Sectors]
  /\ CfgWrites \subseteq [Entries -> Cfgs]
  /\ SeccfgWrites \subseteq Seccfgs

VARIABLES
  pmpaddr,   \* val of each entry, in sectors
  pmpcfg,    \* cfg of each entry
  mseccfg

pmpVars == <<pmpaddr, pmpcfg, mseccfg>>

AllRights == [A |-> "NAPOT", R |-> TRUE, W |-> TRUE, X |-> TRUE, L |-> FALSE]
Off == [A |-> "OFF", R |-> FALSE, W |-> FALSE, X |-> FALSE, L |-> FALSE]

\* reset() opens all of memory.
PmpInit ==
  /\ pmpaddr = [i \in Entries |-> IF i = 0 THEN MaxSector ELSE 0]
  /\ pmpcfg = [i \in Entries |-> IF i = 0 THEN AllRights ELSE Off]
  /\ mseccfg = [rlb |-> FALSE, mml |-> FALSE, mmwp |-> FALSE]

----------------------------------------------------------------------------
Locked(i) == pmpcfg[i].L /\ ~mseccfg.rlb

\* Faulty: the base of a locked range is an entry like any other.
NextLockedNever(i) == FALSE
next_locked_and_tor(i) ==
  i + 1 \in Entries /\ Locked(i + 1) /\ pmpcfg[i + 1].A = "TOR"

pmpaddr_write(i, v) ==
  /\ ~Locked(i) /\ ~next_locked_and_tor(i)
  /\ pmpaddr' = [pmpaddr EXCEPT ![i] = v]
  /\ UNCHANGED <<pmpcfg, mseccfg>>

\* W without R is reserved unless MML gives it a meaning.
CfgField(c) == [c EXCEPT !.W = c.W /\ (mseccfg.mml \/ c.R)]

\* With MML no code that only M-mode runs, or shared code, can be added.
AddsMachineCode(c) ==
  /\ mseccfg.mml /\ c.L
  /\ ~(c.R /\ c.W /\ c.X)
  /\ c.X \/ (c.W /\ ~c.R)

\* Fields that are locked, or would add such code, are left as they are.
CfgIgnored(i, c) == ~mseccfg.rlb /\ (pmpcfg[i].L \/ AddsMachineCode(c))

pmpcfg_write(new) ==
  /\ pmpcfg' = [i \in Entries |->
       IF CfgIgnored(i, CfgField(new[i])) THEN pmpcfg[i]
                                          ELSE CfgField(new[i])]
  /\ UNCHANGED <<pmpaddr, mseccfg>>

pmplock_recorded == \E i \in Entries : pmpcfg[i].L

mseccfg_write(new) ==
  /\ mseccfg' = [rlb |-> IF pmplock_recorded /\ ~mseccfg.rlb
                         THEN FALSE ELSE new.rlb,
                 mml |-> mseccfg.mml \/ new.mml,
                 mmwp |-> mseccfg.mmwp \/ new.mmwp]
  /\ UNCHANGED <<pmpaddr, pmpcfg>>

PmpNext ==
  \/ \E i \in Entries : \E v \in AddrWrites[i] : pmpaddr_write(i, v)
  \/ \E new \in CfgWrites : pmpcfg_write(new)
  \/ \E new \in SeccfgWrites : mseccfg_write(new)

PmpSpec == PmpInit /\ [][PmpNext]_pmpVars

----------------------------------------------------------------------------
tor_base(i) == IF i = 0 THEN 0 ELSE pmpaddr[i - 1]

\* napot_mask: the address of a region ends in a zero and then ones; the
\* zero says half of its size.
RegionSizes == {n \in 2 .. 2 * (MaxSector + 1) : PowerOfTwo(n)}
RegionSize(i) ==
  IF pmpcfg[i].A = "NA4" THEN 1
  ELSE CHOOSE n \in RegionSizes : pmpaddr[i] % n = n \div 2 - 1

match4(i, s) ==
  \/ pmpcfg[i].A = "TOR" /\ tor_base(i) <= s /\ s < pmpaddr[i]
  \/ /\ pmpcfg[i].A \in {"NA4", "NAPOT"}
     /\ s \div RegionSize(i) = pmpaddr[i] \div RegionSize(i)

access_ok(i, type, mode) ==
  LET c == pmpcfg[i]
      machine == mode = "M"
      normal == \/ type = "LOAD" /\ c.R
                \/ type = "STORE" /\ c.W
                \/ type = "FETCH" /\ c.X
      shared == \/ ~c.L /\ type = "LOAD"
                \/ ~c.L /\ type = "STORE" /\ (c.X \/ machine)
                \/ c.L /\ type = "FETCH"
                \/ c.L /\ type = "LOAD" /\ c.X /\ machine
  IN IF ~mseccfg.mml THEN (machine /\ ~c.L) \/ normal
     ELSE \/ c.R /\ c.W /\ c.X /\ c.L /\ type = "LOAD"
          \/ ~c.R /\ c.W /\ shared
          \/ /\ (c.R \/ ~c.W) /\ ~(c.R /\ c.W /\ c.X /\ c.L)
             /\ machine = c.L /\ normal

\* The first entry that matches a part of the access decides. An access is
\* the set of its sectors, as those of the MMU are aligned; the code looks at
\* addr, addr + 4, ..., so it would miss the last sector of one that is not.
pmp_ok(access, type, mode) ==
  LET matching == {i \in Entries : \E s \in access : match4(i, s)}
      first == CHOOSE i \in matching : \A j \in matching : i <= j
  IN IF matching = {}
     THEN mode = "M" /\ ~mseccfg.mmwp /\ (mseccfg.mml => type # "FETCH")
     ELSE (\A s \in access : match4(first, s)) /\ access_ok(first, type, mode)

\* Does the entry cut the page in two?  In pages of the same size:
PageOf(s) == s \div PageSectors

\* Faulty: a range that ends in the page is taken to end behind it.
EndsBeforeUpperLoose(page, top) == page <= PageOf(top)
EndsBeforeUpper(page, top) == page < PageOf(top)

subset_match(i, page) ==
  LET start == page * PageSectors
      base == tor_base(i)
      top == pmpaddr[i]
      torHomogeneous ==
        \/ page < PageOf(base)
        \/ start >= top
        \/ start >= base /\ EndsBeforeUpper(page, top)
      napotHomogeneous ==
        RegionSize(i) >= PageSectors \/ page # PageOf(pmpaddr[i])
  IN /\ pmpcfg[i].A # "OFF"
     /\ IF pmpcfg[i].A = "TOR" THEN ~torHomogeneous ELSE ~napotHomogeneous

pmp_homogeneous(page) == \A i \in Entries : ~subset_match(i, page)

----------------------------------------------------------------------------
PmpTypeOK ==
  /\ pmpaddr \in [Entries -> Sectors]
  /\ pmpcfg \in [Entries -> Cfgs]
  /\ mseccfg \in Seccfgs

\* A locked entry keeps its rights and its range until reset, whatever
\* software writes to its own registers, to the entry below it that is the
\* base of its range, or to mseccfg to lift the lock.
LockedForever ==
  [][\A i \in Entries : Locked(i) =>
       /\ Locked(i)'
       /\ pmpcfg'[i] = pmpcfg[i]
       /\ pmpaddr'[i] = pmpaddr[i]
       /\ pmpcfg[i].A = "TOR" => tor_base(i)' = tor_base(i)]_pmpVars
=============================================================================
