------------------------ MODULE MCUartInterrupts ------------------------
(***************************************************************************)
(* Instances of UartInterrupts for TLC: 8 data bits and one stop bit is    *)
(* the value 3 of LCR, whose bit 1 is clear_rcvr; two stop bits is         *)
(* clear_xmit.                                                             *)
(***************************************************************************)
EXTENDS UartInterrupts

MCOwner == [i \in Ids |-> 0]
MCLcr == {NoLcr, [NoLcr EXCEPT !.clear_rcvr = TRUE],
          [NoLcr EXCEPT !.dlab = TRUE], [NoLcr EXCEPT !.clear_xmit = TRUE]}
=============================================================================
