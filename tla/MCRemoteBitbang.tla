------------------------- MODULE MCRemoteBitbang -------------------------
(***************************************************************************)
(* Instances of RemoteBitbang for TLC: all constants are numbers, given in *)
(* the .cfg.                                                               *)
(***************************************************************************)
EXTENDS RemoteBitbang
=============================================================================
