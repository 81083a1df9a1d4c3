------------------------------- MODULE MCNpu -------------------------------
(***************************************************************************)
(* The instance of Npu that barrier.c runs: four cores, of which the first *)
(* waits for the others.                                                   *)
(***************************************************************************)
EXTENDS Npu

MCInfo == [c \in Cores |-> [intra |-> 1, core_num |-> 4,
                            main_flag |-> IF c = 0 THEN 1 ELSE 0]]
=============================================================================
