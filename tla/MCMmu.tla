------------------------------- MODULE MCMmu -------------------------------
(***************************************************************************)
(* Instances of Mmu for TLC: pages of two sectors. Pages 0 and 1 are RAM,  *)
(* the page tables are in page 2, page 3 is a device.                      *)
(***************************************************************************)
EXTENDS Mmu

\* Ranges that end in the middle of page 1, between pages, or nowhere.
MCAddrWrites == [i \in Entries |-> IF i = 0 THEN {3, 7} ELSE {7}]

Field(a, r, w, x, l) == [A |-> a, R |-> r, W |-> w, X |-> x, L |-> l]
Pair(first, second) ==
  [i \in Entries |-> IF i = 0 THEN first ELSE
                     IF i = 1 THEN second ELSE Off]
\* A range on a background that is open, or a locked range on a base.
MCCfgWrites ==
  {Pair(Field("NAPOT", TRUE, FALSE, FALSE, FALSE), AllRights),
   Pair(Field("TOR", FALSE, FALSE, TRUE, FALSE), AllRights),
   Pair(Off, Field("TOR", TRUE, TRUE, TRUE, TRUE))}

MCSeccfgWrites ==
  {[rlb |-> r, mml |-> FALSE, mmwp |-> w] : r \in BOOLEAN, w \in {FALSE}}

MCPteSector == [v \in Vpns |-> 4]
Leaf(ppn, w, x, u) == [ppn |-> ppn, V |-> TRUE, R |-> TRUE, W |-> w, X |-> x,
                       U |-> u, A |-> TRUE, D |-> FALSE]
MCPteWrites == [v \in Vpns |->
  IF v = 0 THEN {Leaf(1, TRUE, FALSE, TRUE), Leaf(0, FALSE, TRUE, FALSE)}
           ELSE {Leaf(1, TRUE, TRUE, FALSE)}]

Status(mprv, mpp, sum) ==
  [mprv |-> mprv, mpp |-> mpp, sum |-> sum, mxr |-> FALSE]
MCStatusWrites ==
  {Status(FALSE, "U", FALSE), Status(TRUE, "S", FALSE),
   Status(FALSE, "U", TRUE)}
MCTriggerSets == {{}, {"LOAD", "FETCH"}}
=============================================================================
