-------------------------- MODULE UartInterrupts --------------------------
(***************************************************************************)
(* The UART wired to the interrupt controller, and a hart that serves it.  *)
(* Every update_interrupt calls set_interrupt_level, also when the level   *)
(* is as before; an access of the UART and that call are one step.         *)
(*                                                                         *)
(* The hart is a driver in the usual form: it claims, reads one byte or    *)
(* has the other device take its line down, and completes. Meanwhile other *)
(* software enables and disables the interrupts of the hart's context,     *)
(* moves its threshold and changes priorities of disabled interrupts.      *)
(***************************************************************************)
EXTENDS Plic, Ns16550

UartId == 1    \* interrupt_id
OtherId == 2   \* of another device, with a line of its own
ASSUME WiringAssumption == {UartId, OtherId} \subseteq Ids

VARIABLE hart  \* "idle", or what the handler does next

allVars == <<plicVars, uartVars, hart>>

WiredInit == UartInit /\ PlicInit /\ hart = "idle"

Drive == set_interrupt_level(UartId, line')

\* The handler, with interrupts off from the claim to the completion.
Claim ==
  /\ hart = "idle" /\ mip[0]
  /\ hart' = IF context_best_pending(0) = UartId THEN "read" ELSE "quiet other"
  /\ context_claim(0)
  /\ UNCHANGED uartVars
ReadByte == hart = "read" /\ hart' = "complete" /\ LoadRx /\ Drive
QuietOther == /\ hart = "quiet other" /\ hart' = "complete other"
              /\ set_interrupt_level(OtherId, FALSE)
              /\ UNCHANGED uartVars
Finish == /\ hart \in {"complete", "complete other"} /\ hart' = "idle"
          /\ Complete(0, IF hart = "complete" THEN UartId ELSE OtherId)
          /\ UNCHANGED uartVars
Handler == Claim \/ ReadByte \/ QuietOther \/ Finish

\* Software on other harts uses the UART in any way at any moment.
OtherUse == UartAccess /\ Drive /\ UNCHANGED hart

Tick ==
  /\ \E available \in BOOLEAN : tick(available)
  /\ IF UNCHANGED <<rx, data_ready>> THEN UNCHANGED plicVars ELSE Drive
  /\ UNCHANGED hart

OtherDevice == /\ \E lvl \in BOOLEAN : set_interrupt_level(OtherId, lvl)
               /\ UNCHANGED <<uartVars, hart>>

SetUp == /\ \/ DriverSetup
            \/ \E v \in Values : WriteThreshold(0, v)
         /\ UNCHANGED <<uartVars, hart>>

WiredNext == Handler \/ OtherUse \/ Tick \/ OtherDevice \/ SetUp
\* The hart runs on; nothing is assumed of the terminal, of the other device
\* and of other harts.
WiredSpec == WiredInit /\ [][WiredNext]_allVars /\ WF_allVars(Handler)

----------------------------------------------------------------------------
\* The receive interrupt is on in the UART and in the controller.
Enabled == /\ "RDI" \in ier /\ UartId \in enable[0]
           /\ priority[UartId] > priority_threshold[0]

\* The hart is interrupted as long as there is a byte to read that it is not
\* serving, also when a byte comes between the last read and completion, or
\* before the interrupt was enabled.
ByteInterrupts ==
  rx > 0 /\ Enabled => mip[0] \/ UartId \in claimed[0]

\* A received byte brings the handler to its read, one interrupt per byte,
\* unless others empty the queue or turn the interrupt off: the level brings
\* the interrupt back although the queue never has to run empty, and another
\* device of the same priority does not keep it away.
ByteIsServed ==
  (rx > 0 /\ Enabled) ~> (hart = "complete" \/ rx = 0 \/ ~Enabled)
=============================================================================
