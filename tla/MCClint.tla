------------------------------ MODULE MCClint ------------------------------
(***************************************************************************)
(* Instances of Clint for TLC: no hypervisor; one that handles its guest's *)
(* exceptions, without software interrupts of its own; and one that        *)
(* delegates everything.                                                   *)
(***************************************************************************)
EXTENDS Clint

MCBoots ==
  {[mi |-> {"SSI"}, hi |-> {}, me |-> {}, he |-> {}, mie |-> Ints],
   [mi |-> {"SSI"}, hi |-> {"VSSI"}, me |-> Exceptions, he |-> {},
    mie |-> Ints \ {"SSI"}],
   [mi |-> {"SSI"}, hi |-> {"VSSI"}, me |-> Exceptions, he |-> Exceptions,
    mie |-> Ints]}
=============================================================================
