---------------------------- MODULE SystemBus ----------------------------
(***************************************************************************)
(* What the system bus access of the debug module promises: one request at *)
(* a time; the address, size and data it was made with are those it is     *)
(* carried out with; a request that fails says so and touches nothing, not *)
(* even the address a next request starts from.                            *)
(***************************************************************************)
EXTENDS Naturals

CONSTANTS Bytes,    \* values of a byte
          Cells,    \* addresses that answer
          Sizes     \* sizes, in bytes, that are supported

VARIABLES pending,  \* the request being carried out, or Idle
          address,  \* where the debugger's next request goes
          data,     \* the bytes the debugger sees, lowest first
          failed,   \* an error is reported
          memory

Idle == [op |-> "none"]

Span(r) == r.address .. r.address + r.size - 1

Answers(r) == /\ r.size \in Sizes
              /\ Span(r) \subseteq Cells
              /\ r.address % r.size = 0

\* The debugger changes address or data, clears the error or makes a request;
\* a request takes them as they are then, and only when no error stands.
Prepare ==
  /\ pending = Idle
  /\ failed' \in {failed, FALSE}
  /\ \/ pending' = Idle
     \/ /\ pending' # Idle
        /\ pending'.address = address' /\ pending'.data = data'
        /\ ~failed'
  /\ UNCHANGED memory

Fail == /\ pending # Idle /\ ~Answers(pending)
        /\ pending' = Idle /\ failed' = TRUE
        /\ UNCHANGED <<address, data, memory>>

\* The bytes beyond the size that was read are not promised, nor is the
\* address after a success, which the debugger may have asked to be advanced.
Read == /\ pending # Idle /\ Answers(pending) /\ pending.op = "read"
        /\ pending' = Idle
        /\ \A i \in 0 .. pending.size - 1 :
             data'[i] = memory[pending.address + i]
        /\ UNCHANGED <<failed, memory>>

Write == /\ pending # Idle /\ Answers(pending) /\ pending.op = "write"
         /\ pending' = Idle
         /\ memory' = [a \in Cells |->
              IF a \in Span(pending) THEN pending.data[a - pending.address]
                                     ELSE memory[a]]
         /\ UNCHANGED <<data, failed>>

\* A hart writes the memory.
OtherStore == \E a \in Cells, b \in Bytes :
                /\ memory' = [memory EXCEPT ![a] = b]
                /\ UNCHANGED <<pending, address, data, failed>>

Init == pending = Idle /\ ~failed
Next == Prepare \/ Fail \/ Read \/ Write \/ OtherStore
vars == <<pending, address, data, failed, memory>>
Spec == Init /\ [][Next]_vars
=============================================================================
