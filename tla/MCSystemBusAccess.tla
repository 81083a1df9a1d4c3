------------------------ MODULE MCSystemBusAccess ------------------------
(***************************************************************************)
(* Instances of SystemBusAccess for TLC: words of one byte, addresses of   *)
(* two words of four values, three bytes of memory on both sides of the    *)
(* boundary of the low word, accesses of 1 and 2 bytes supported.          *)
(***************************************************************************)
EXTENDS SystemBusAccess

MCCells == {3, 4, 5}

\* Every trigger, with a supported size of each kind and one that is not.
MCModes == {[readonaddr |-> r, readondata |-> r, autoincrement |-> i,
             sbaccess |-> n] : r \in BOOLEAN, i \in BOOLEAN, n \in 0 .. 2}
MCFewModes == {m \in MCModes : m.readonaddr = m.autoincrement}
=============================================================================
