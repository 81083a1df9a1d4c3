-------------------------- MODULE RemoteBitbang --------------------------
(***************************************************************************)
(* The server of riscv/remote_bitbang.cc and its client. The simulator     *)
(* calls tick() between two slices of simulation; one tick reads commands, *)
(* drives the TAP with them and writes the answers, while the client, a    *)
(* process of its own, sends and receives.                                 *)
(*                                                                         *)
(* A command carries a tag, the number of commands the client sent before  *)
(* modulo Tags, and the answer to a read of TDO carries the tag of its     *)
(* command; both stand for the payload and show what is lost or repeated.  *)
(* The variables local to a tick have a fixed value between two ticks.     *)
(* Of the TAP only whether it is in RUN_TEST_IDLE matters here. A socket   *)
(* holds WireSize bytes towards the simulator and OutSize back.            *)
(***************************************************************************)
EXTENDS Naturals, Sequences

CONSTANTS
  BufSize,         \* buf_size
  WireSize, OutSize,
  MaxOutstanding,  \* answers the client lets be outstanding
  Commands         \* the kinds of command it sends

Tags == BufSize + WireSize + 1    \* tells all commands on their way apart
TagSet == 0 .. Tags - 1

\* rti, other: the command leaves the TAP in RUN_TEST_IDLE, or not (set_pins,
\* reset); R: read TDO; B: blink, or an unsupported character; Q: quit.
Kinds == {"rti", "other", "R", "B", "Q"}
Stale == Tags    \* what send_buf holds beyond the answers of this batch

ASSUME BitbangAssumption ==
  /\ BufSize \in Nat \ {0} /\ WireSize \in Nat \ {0}
  /\ OutSize \in Nat \ {0} /\ MaxOutstanding \in Nat
  /\ Commands \subseteq Kinds

VARIABLES
  connected,       \* client_fd > 0
  recv, send_buf, send_offset, sent,
  tap_rti,         \* tap->state() == RUN_TEST_IDLE
  total_processed, quit, in_rti, entered_rti,
  pc,              \* place in tick(); "out" between two ticks
  wire, outbox,    \* the two directions of the socket
  hungup,          \* the client has closed its end
  next, expected,  \* client: tag of its next command, tags of its open reads
  executed         \* tag of the next command to be executed

serverVars == <<recv, send_buf, send_offset, sent, tap_rti, total_processed,
                quit, in_rti, entered_rti>>
clientVars == <<hungup, next, expected>>
vars == <<connected, serverVars, pc, wire, outbox, clientVars, executed>>

Init ==
  /\ connected = FALSE /\ recv = <<>>
  /\ send_buf = [i \in 1 .. BufSize |-> Stale]
  /\ send_offset = 0 /\ sent = 0
  /\ tap_rti = FALSE /\ total_processed = 0
  /\ quit = FALSE /\ in_rti = FALSE /\ entered_rti = FALSE
  /\ pc = "out" /\ wire = <<>> /\ outbox = <<>>
  /\ hungup = FALSE /\ next = 0 /\ expected = <<>> /\ executed = 0

----------------------------------------------------------------------------
\* Nobody is connected: take the client that waits, if any.
Accept ==
  /\ pc = "out" /\ ~connected
  /\ connected' = TRUE /\ hungup' = FALSE
  /\ wire' = <<>> /\ outbox' = <<>> /\ expected' = <<>>
  /\ next' = 0 /\ executed' = 0
  /\ UNCHANGED <<serverVars, pc>>

\* Faulty: the commands that were read but not processed are forgotten.
KeptCommandsNone == <<>>
KeptCommands == recv

\* Faulty: the answers of the batch before are sent again.
FirstOffsetKept == send_offset
FirstOffset == 0

BeginBatch ==
  /\ send_offset' = FirstOffset
  /\ send_buf' = [i \in 1 .. BufSize |-> IF i <= FirstOffset THEN send_buf[i]
                                                             ELSE Stale]
  /\ pc' = "process"

Enter ==
  /\ pc = "out" /\ connected
  /\ in_rti' = tap_rti /\ recv' = KeptCommands
  /\ IF recv' = <<>> THEN pc' = "read" /\ UNCHANGED <<send_offset, send_buf>>
                     ELSE BeginBatch
  /\ UNCHANGED <<connected, sent, tap_rti, total_processed, quit, entered_rti,
                 wire, outbox, clientVars, executed>>

\* Only whether it exceeds BufSize matters; it is kept at most 1 above the
\* largest value a tick can reach.
Counted == IF total_processed > 2 * BufSize THEN total_processed
                                            ELSE total_processed + 1

Process ==
  /\ pc = "process"
  /\ LET c == Head(recv)
     IN /\ tap_rti' = CASE c.kind = "rti" -> TRUE
                        [] c.kind = "other" -> FALSE
                        [] OTHER -> tap_rti
        /\ IF c.kind = "R"
           THEN /\ send_offset' = send_offset + 1
                /\ send_buf' = [send_buf EXCEPT ![send_offset + 1] = c.tag]
           ELSE UNCHANGED <<send_offset, send_buf>>
        /\ quit' = (quit \/ c.kind = "Q")
  /\ recv' = Tail(recv) /\ total_processed' = Counted
  /\ executed' = (executed + 1) % Tags
  /\ entered_rti' = (~in_rti /\ tap_rti')
  /\ in_rti' = FALSE
  /\ pc' = IF entered_rti' \/ recv' = <<>> THEN "flush" ELSE "process"
  /\ UNCHANGED <<connected, sent, wire, outbox, clientVars>>

\* write() takes what fits, of the send_offset bytes from send_buf + sent:
\* the count is not reduced by what was already sent.
Written(n) == [i \in 1 .. n |-> IF sent + i \in 1 .. BufSize
                                THEN send_buf[sent + i] ELSE Stale]
Room == OutSize - Len(outbox)

LeaveTick ==
  /\ pc' = "out"
  /\ total_processed' = 0
  /\ quit' = FALSE /\ entered_rti' = FALSE /\ in_rti' = FALSE

\* Faulty: a tick goes on as long as there are commands.
EnoughUnbounded == quit \/ entered_rti
Enough == total_processed > BufSize \/ quit \/ entered_rti

\* A full socket (EAGAIN) and one whose other end is closed abort.
Flush ==
  /\ pc = "flush"
  /\ CASE sent >= send_offset ->
            /\ IF Enough THEN LeaveTick
                         ELSE /\ pc' = "read"
                              /\ UNCHANGED <<total_processed, quit, in_rti,
                                             entered_rti>>
            /\ sent' = 0 /\ UNCHANGED outbox
       [] sent < send_offset /\ (hungup \/ Room = 0) ->
            /\ pc' = "aborted"
            /\ UNCHANGED <<sent, outbox, total_processed, quit, in_rti,
                           entered_rti>>
       [] OTHER ->
            LET n == IF Room < send_offset THEN Room ELSE send_offset
            IN /\ sent' = sent + n /\ outbox' = outbox \o Written(n)
               /\ UNCHANGED <<pc, total_processed, quit, in_rti, entered_rti>>
  /\ UNCHANGED <<connected, recv, send_buf, send_offset, tap_rti, wire,
                 clientVars, executed>>

\* The socket is empty: nothing more for now, or the client has gone.
Read ==
  /\ pc = "read"
  /\ LET n == IF Len(wire) < BufSize THEN Len(wire) ELSE BufSize
     IN /\ recv' = SubSeq(wire, 1, n)
        /\ wire' = SubSeq(wire, n + 1, Len(wire))
        /\ IF n > 0
           THEN BeginBatch /\ UNCHANGED <<connected, total_processed, quit,
                                         in_rti, entered_rti>>
           ELSE LeaveTick /\ connected' = ~hungup
                          /\ UNCHANGED <<send_offset, send_buf>>
  /\ UNCHANGED <<sent, tap_rti, outbox, clientVars, executed>>

Server == Enter \/ Process \/ Flush \/ Read

----------------------------------------------------------------------------
\* The client.
Send(k) ==
  /\ connected /\ ~hungup /\ Len(wire) < WireSize
  /\ k = "R" => Len(expected) < MaxOutstanding
  /\ wire' = Append(wire, [kind |-> k, tag |-> next])
  /\ next' = (next + 1) % Tags
  /\ expected' = IF k = "R" THEN Append(expected, next) ELSE expected
  /\ UNCHANGED <<connected, serverVars, pc, outbox, hungup, executed>>

Receive ==
  /\ connected /\ ~hungup /\ outbox # <<>> /\ expected # <<>>
  /\ outbox' = Tail(outbox) /\ expected' = Tail(expected)
  /\ UNCHANGED <<connected, serverVars, pc, wire, hungup, next, executed>>

HangUp ==
  /\ connected /\ ~hungup /\ hungup' = TRUE
  /\ UNCHANGED <<connected, serverVars, pc, wire, outbox, next, expected,
                 executed>>

Client == (\E k \in Commands : Send(k)) \/ Receive \/ HangUp

\* After abort() there is no simulator.
Next == pc # "aborted" /\ (Accept \/ Server \/ Client)

\* sim_t::main calls tick() again and again, and a tick runs on by itself;
\* nothing is assumed of the client, nor that one connects.
Spec == Init /\ [][Next]_vars /\ WF_vars(Server)

----------------------------------------------------------------------------
TypeOK ==
  /\ connected \in BOOLEAN /\ tap_rti \in BOOLEAN /\ quit \in BOOLEAN
  /\ in_rti \in BOOLEAN /\ entered_rti \in BOOLEAN /\ hungup \in BOOLEAN
  /\ pc \in {"out", "process", "flush", "read", "aborted"}
  /\ send_buf \in [1 .. BufSize -> TagSet \cup {Stale}]
  /\ send_offset \in 0 .. BufSize
  /\ total_processed \in 0 .. 2 * BufSize
  /\ Len(recv) <= BufSize /\ Len(wire) <= WireSize /\ Len(outbox) <= OutSize
  /\ next \in TagSet /\ executed \in TagSet

InFlight == recv \o wire

\* Every command the client sends is executed once, in order: none is lost
\* or repeated when a tick stops in the middle of a batch (recv_start and
\* recv_end outlive the tick; what is left is not overwritten by read()).
CommandsInOrder ==
  connected =>
    /\ \A i \in 1 .. Len(InFlight) :
         InFlight[i].tag = (executed + i - 1) % Tags
    /\ next = (executed + Len(InFlight)) % Tags

InReply == outbox \o (IF pc \in {"process", "flush"}
                      THEN SubSeq(send_buf, sent + 1, send_offset) ELSE <<>>)
ReadPlaces == {i \in 1 .. Len(InFlight) : InFlight[i].kind = "R"}
Unanswered == Len(InReply) + 1 .. Len(expected)
Ahead(tag) == (tag + Tags - executed) % Tags   \* commands before this one

\* The answers that are on their way and the ones not written yet are what
\* the client expects first, and what it expects after them are the reads
\* not processed yet, all of them and in their order.
AnswersMatch ==
  connected /\ pc # "aborted" =>
    /\ Len(InReply) <= Len(expected)
    /\ \A i \in 1 .. Len(InReply) : InReply[i] = expected[i]
    /\ {expected[i] : i \in Unanswered} = {InFlight[i].tag : i \in ReadPlaces}
    /\ \A i, j \in Unanswered : i < j => Ahead(expected[i]) < Ahead(expected[j])

\* With a client that keeps its open reads within the socket's capacity the
\* simulator aborts only if the client hangs up on its answers.
AbortOnlyOnHangUp == pc = "aborted" => hungup

\* "Don't go forever, because that could starve the main simulation" (line
\* 157): a tick ends whatever the client sends meanwhile.
TickEnds == pc # "out" ~> pc \in {"out", "aborted"}

\* A command is executed sooner or later, although a tick stops each time
\* the TAP enters RUN_TEST_IDLE. Tags come round, so tag 0 stands for all.
CommandsRun ==
  (executed = 0 /\ connected /\ InFlight # <<>>)
    ~> (executed # 0 \/ pc = "aborted" \/ ~connected)
=============================================================================
