----------------------------- MODULE Ns16550 -----------------------------
(***************************************************************************)
(* The UART of riscv/ns16550.cc: receive queue, line status and interrupt  *)
(* line. Of the queue only its length is kept; the transmitter is always   *)
(* empty, as tx_byte hands every byte to the terminal at once. The scratch *)
(* and divisor registers have no effect and are left out; so is the break  *)
(* bit of LSR, which nothing sets. An operator marked "Faulty" is used by  *)
(* no action.                                                              *)
(***************************************************************************)
EXTENDS Integers

CONSTANTS
  QueueSize,    \* UART_QUEUE_SIZE, 64
  MaxBackoff,   \* MAX_BACKOFF, 16
  LcrWrites     \* what software writes to LCR

\* Interrupt sources; the values of IER and IIR are sets of them.
Sources == {"RDI", "THRI"}

\* The bits of LCR (and FCR) that update_interrupt and the decoder look at.
LcrValues == [clear_rcvr : BOOLEAN, clear_xmit : BOOLEAN, dlab : BOOLEAN]

ASSUME UartAssumption ==
  /\ QueueSize \in Nat \ {0} /\ MaxBackoff \in Nat \ {0}
  /\ LcrWrites \subseteq LcrValues

VARIABLES
  rx,                \* rx_queue.size()
  data_ready,        \* UART_LSR_DR
  ier, iir,          \* iir = {} is UART_IIR_NO_INT
  fifo, fcr_clear,   \* fcr: ENABLE_FIFO, CLEAR_RCVR
  lcr, loop,         \* loop: UART_MCR_LOOP
  backoff,
  line               \* the level last given to intctrl

uartVars == <<rx, data_ready, ier, iir, fifo, fcr_clear, lcr, loop, backoff,
              line>>

NoLcr == [clear_rcvr |-> FALSE, clear_xmit |-> FALSE, dlab |-> FALSE]

UartInit ==
  /\ rx = 0 /\ data_ready = FALSE /\ ier = {} /\ iir = {}
  /\ fifo = FALSE /\ fcr_clear = FALSE
  /\ lcr = NoLcr /\ loop = FALSE /\ backoff = 0 /\ line = FALSE

----------------------------------------------------------------------------
ReadyAfterClear(l, d) == d /\ ~l.clear_rcvr

\* update_interrupt, after the queue has length q, the ready bit is d, the
\* enables are e and LCR is l. The clear bits are looked up in LCR.
update_interrupt(q, d, e, l) ==
  LET ready == ReadyAfterClear(l, d)
      interrupts == {s \in e : s = "RDI" => ready}
  IN /\ rx' = IF l.clear_rcvr THEN 0 ELSE q
     /\ data_ready' = ready
     /\ lcr' = [l EXCEPT !.clear_rcvr = FALSE, !.clear_xmit = FALSE]
     /\ ier' = e
     /\ iir' = interrupts /\ line' = (interrupts # {})

\* Faulty: every read makes it not ready.
ReadyAfterReadNever == FALSE
ReadyAfterRead == data_ready /\ rx > 1

\* rx_byte
LoadRx ==
  /\ IF lcr.dlab THEN update_interrupt(rx, data_ready, ier, lcr)
     ELSE update_interrupt(IF rx > 0 THEN rx - 1 ELSE 0, ReadyAfterRead,
                           ier, lcr)
  /\ UNCHANGED <<fifo, fcr_clear, loop, backoff>>

HasRoom == rx < QueueSize

StoreTx ==
  /\ IF ~lcr.dlab /\ loop /\ HasRoom
     THEN update_interrupt(rx + 1, TRUE, ier, lcr)
     ELSE update_interrupt(rx, data_ready, ier, lcr)
  /\ UNCHANGED <<fifo, fcr_clear, loop, backoff>>

StoreIer(e) ==
  /\ update_interrupt(rx, data_ready, IF lcr.dlab THEN ier ELSE e, lcr)
  /\ UNCHANGED <<fifo, fcr_clear, loop, backoff>>

StoreFcr(on, clear) ==
  /\ fifo' = on /\ fcr_clear' = clear
  /\ update_interrupt(rx, data_ready, ier, lcr)
  /\ UNCHANGED <<loop, backoff>>

StoreLcr(l) ==
  /\ update_interrupt(rx, data_ready, ier, l)
  /\ UNCHANGED <<fifo, fcr_clear, loop, backoff>>

StoreMcr(on) ==
  /\ loop' = on
  /\ update_interrupt(rx, data_ready, ier, lcr)
  /\ UNCHANGED <<fifo, fcr_clear, backoff>>

\* The terminal has a byte to read, or not.
tick(available) ==
  LET waits == backoff > 0 /\ backoff < MaxBackoff
      keep == <<rx, data_ready, ier, iir, lcr, line>>
  IN /\ fifo /\ ~loop /\ rx < QueueSize
     /\ \/ waits /\ backoff' = backoff + 1 /\ UNCHANGED keep
        \/ ~waits /\ ~available /\ backoff' = 1 /\ UNCHANGED keep
        \/ /\ ~waits /\ available /\ backoff' = 0
           /\ update_interrupt(rx + 1, TRUE, ier, lcr)
     /\ UNCHANGED <<fifo, fcr_clear, loop>>

UartAccess ==
  \/ LoadRx \/ StoreTx
  \/ \E e \in SUBSET Sources : StoreIer(e)
  \/ \E on, clear \in BOOLEAN : StoreFcr(on, clear)
  \/ \E l \in LcrWrites : StoreLcr(l)
  \/ \E on \in BOOLEAN : StoreMcr(on)

UartNext == UartAccess \/ \E available \in BOOLEAN : tick(available)
UartSpec == UartInit /\ [][UartNext]_uartVars

----------------------------------------------------------------------------
UartTypeOK ==
  /\ rx \in 0 .. QueueSize /\ data_ready \in BOOLEAN
  /\ ier \in SUBSET Sources /\ iir \in SUBSET Sources
  /\ fifo \in BOOLEAN /\ fcr_clear \in BOOLEAN
  /\ lcr \in LcrValues /\ loop \in BOOLEAN
  /\ backoff \in 0 .. MaxBackoff /\ line \in BOOLEAN

\* The ready bit says exactly whether there is a byte to read, through
\* reception, loopback, reads and clears: a bit that stays behind is a lost
\* byte or an interrupt that never ends.
ReadyMatchesQueue == data_ready <=> rx > 0

\* The level the controller was last given is the one the registers ask for,
\* whatever register was touched last: nothing changes the queue or the
\* enables without update_interrupt.
LineMatchesRegisters ==
  line <=> \/ "THRI" \in ier
           \/ "RDI" \in ier /\ rx > 0
=============================================================================
