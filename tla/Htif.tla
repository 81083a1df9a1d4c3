-------------------------------- MODULE Htif --------------------------------
(***************************************************************************)
(* The host-target interface: the loop of fesvr/htif.cc, the devices of    *)
(* fesvr/device.cc and the entry of fesvr/syscall.cc, with harts that talk *)
(* to them as riscv_test/common/syscalls.c does. Words of the mailboxes    *)
(* tohost and fromhost are records of device, command and payload, and     *)
(* the zero word is "empty". The harts run only while the host idles. The  *)
(* disk, the bytes that system calls move, faulting mailbox addresses and  *)
(* programs without tohost are left out.                                   *)
(***************************************************************************)
EXTENDS Integers, Sequences, FiniteSets

CONSTANTS
  Harts,
  Codes,      \* exit codes
  MaxReads,   \* open reads of the console: bounds the queues
  CharWrap    \* characters are counted modulo this, above MaxReads

ASSUME HtifAssumption == /\ Codes \subseteq Nat /\ MaxReads \in Nat
                         /\ CharWrap \in Nat /\ CharWrap > MaxReads

Word(dev, cmd, payload) == [device |-> dev, cmd |-> cmd, payload |-> payload]
Zero == Word(0, 0, 0)

\* Registered devices, in order; 2 has none, so it is the null device.
Syscall == 0
Bcd == 1
Absent == 2
Identify == 255   \* the last command of every device
BcdRead == Word(Bcd, 0, 0)
BcdWrite == Word(Bcd, 1, 7)
\* Payloads of the system call device: addresses of arguments are even.
OtherCall == 2
SysExit(code) == 4 + 2 * code
ExitWord(code) == Word(Syscall, 0, 2 * code + 1)   \* of tohost_exit
Odd(n) == n % 2 = 1

VARIABLES
  tohost, fromhost,
  fromhost_queue, pending_reads, exitcode, signal_exit,
  phase,              \* of the host: "loop", "idle", "stopped"
  typed,              \* characters the terminal has given to the console
  pc, syscall_lock,   \* harts; the lock's holder, if any
  received, open      \* characters taken from fromhost, reads not answered

hostVars == <<fromhost_queue, pending_reads, exitcode, phase, typed>>
hartVars == <<pc, syscall_lock, received, open>>
vars == <<tohost, fromhost, hostVars, signal_exit, hartVars>>

HtifTypeOK ==
  /\ {tohost, fromhost} \subseteq
       [device : {Syscall, Bcd, Absent}, cmd : {0, 1, Identify}, payload : Nat]
  /\ exitcode \in {0} \cup {2 * c + 1 : c \in Codes}
  /\ pc \in [Harts -> {"run", "locked", "waiting", "posted", "answered", "exited"}]
  /\ Len(fromhost_queue) <= MaxReads + 1 /\ Len(pending_reads) <= MaxReads

Init == /\ tohost = Zero /\ fromhost = Zero
        /\ fromhost_queue = <<>> /\ pending_reads = <<>> /\ exitcode = 0
        /\ signal_exit = FALSE /\ phase = "loop" /\ typed = 0
        /\ pc = [h \in Harts |-> "run"] /\ syscall_lock = {}
        /\ received = 0 /\ open = 0

----------------------------------------------------------------------------
\* The devices.

respond(c, resp) == [c EXCEPT !.payload = resp]
ToSyscall(c) == c.device = Syscall /\ c.cmd = 0

\* Answers that a command gets at once: identify on every device, and
\* system calls but for the words that end the program. Null commands and
\* writes to the console get none.
Answers(c) == IF c.cmd = Identify \/ (ToSyscall(c) /\ ~Odd(c.payload))
              THEN <<respond(c, 1)>> ELSE <<>>

\* Faulty: keeps the code, which is zero for success.
ExitcodeUnmarked(c) ==
  IF ToSyscall(c) /\ Odd(c.payload) THEN c.payload \div 2 ELSE exitcode
\* exitcode is code << 1 | 1.
ExitcodeAfter(c) ==
  IF ~ToSyscall(c) THEN exitcode
  ELSE IF Odd(c.payload) THEN c.payload
  ELSE IF c.payload = OtherCall THEN exitcode
  ELSE c.payload - 3   \* sys_exit

ReadsAfter(c) == IF c.device = Bcd /\ c.cmd = 0
                 THEN Append(pending_reads, c) ELSE pending_reads

\* Faulty: the latest answer goes out first.
PushInFront(queue, answer) == <<answer>> \o queue
Push(queue, answer) == Append(queue, answer)

----------------------------------------------------------------------------
\* The host.

\* Faulty: does not look whether the target has taken the last answer.
DeliverAnyway(queue) == queue # <<>>
MayDeliver(queue) == queue # <<>> /\ fromhost = Zero

\* The end of an iteration, with the queues that the command has left.
Deliver(queue) ==
  IF MayDeliver(queue)
  THEN fromhost' = Head(queue) /\ fromhost_queue' = Tail(queue)
  ELSE fromhost_queue' = queue /\ UNCHANGED fromhost

TickAndDeliver(queue, reads) ==
  \/ /\ pending_reads' = reads /\ UNCHANGED typed   \* no character, or no read
     /\ Deliver(queue)
  \/ /\ reads # <<>> /\ pending_reads' = Tail(reads)
     /\ typed' = (typed + 1) % CharWrap
     /\ Deliver(Push(queue, respond(Head(reads), 256 + typed)))

Looping == phase = "loop" /\ ~signal_exit /\ exitcode = 0

HandleCommand ==
  /\ Looping /\ tohost # Zero
  /\ tohost' = Zero
  /\ exitcode' = ExitcodeAfter(tohost)
  /\ TickAndDeliver(fromhost_queue \o Answers(tohost), ReadsAfter(tohost))
  /\ UNCHANGED <<signal_exit, phase, hartVars>>

BeginIdle == /\ Looping /\ tohost = Zero
             /\ phase' = "idle"
             /\ UNCHANGED <<tohost, fromhost, fromhost_queue, pending_reads,
                            exitcode, typed, signal_exit, hartVars>>

\* Faulty: the word that was read is cleared when the iteration ends.
ClearedLate == Zero
TohostAfterIdle == tohost

EndIdle == /\ phase = "idle" /\ phase' = "loop"
           /\ tohost' = TohostAfterIdle
           /\ TickAndDeliver(fromhost_queue, pending_reads)
           /\ UNCHANGED <<exitcode, signal_exit, hartVars>>

Stop == /\ phase = "loop" /\ (signal_exit \/ exitcode # 0)
        /\ phase' = "stopped"
        /\ UNCHANGED <<tohost, fromhost, fromhost_queue, pending_reads,
                       exitcode, typed, signal_exit, hartVars>>

Signal == /\ signal_exit' = TRUE
          /\ UNCHANGED <<tohost, fromhost, hostVars, hartVars>>

----------------------------------------------------------------------------
\* The harts: a call puts a word under the lock and waits for the answer.
\* One that uses the console puts a word and waits until the host has taken
\* it; the answer of a read is taken later, by a holder of the lock.

Moves(h, from, to) == /\ phase = "idle" /\ pc[h] = from
                      /\ pc' = [pc EXCEPT ![h] = to]
                      /\ UNCHANGED <<hostVars, signal_exit>>

Lock(h) == /\ Moves(h, "run", "locked")
           /\ syscall_lock = {} /\ syscall_lock' = {h}
           /\ UNCHANGED <<tohost, fromhost, received, open>>

Call(h) == /\ Moves(h, "locked", "waiting")
           /\ tohost' \in {Word(Syscall, 0, OtherCall), Word(Absent, Identify, 1)}
                \cup {Word(Syscall, 0, SysExit(code)) : code \in Codes}
           /\ UNCHANGED <<fromhost, syscall_lock, received, open>>

UseConsole(h) ==
  /\ Moves(h, "locked", "posted") /\ tohost = Zero
  /\ \/ tohost' \in {BcdWrite, Word(Absent, 0, 1)} /\ UNCHANGED open
     \/ open < MaxReads /\ tohost' = BcdRead /\ open' = open + 1
  /\ UNCHANGED <<fromhost, syscall_lock, received>>

IsChar(word) == word.device = Bcd

TakeAnswer(h) == /\ Moves(h, "waiting", "answered")
                 /\ fromhost # Zero /\ ~IsChar(fromhost)
                 /\ fromhost' = Zero
                 /\ UNCHANGED <<tohost, syscall_lock, received, open>>

TakeChar(h) == /\ \E place \in {"locked", "posted", "waiting"} :
                    Moves(h, place, place)
               /\ IsChar(fromhost) /\ fromhost' = Zero
               /\ received' = (received + 1) % CharWrap /\ open' = open - 1
               /\ UNCHANGED <<tohost, syscall_lock>>

Unlock(h) == /\ \/ Moves(h, "answered", "run")
                \/ Moves(h, "posted", "run") /\ tohost = Zero
             /\ syscall_lock' = {}
             /\ UNCHANGED <<tohost, fromhost, received, open>>

\* From anywhere, as handle_trap does, and without the lock.
tohost_exit(h) ==
  /\ phase = "idle" /\ pc[h] # "exited"
  /\ pc' = [pc EXCEPT ![h] = "exited"]
  /\ \E code \in Codes : tohost' = ExitWord(code)
  /\ UNCHANGED <<fromhost, hostVars, signal_exit, syscall_lock, received, open>>

Syscalls(h) == Call(h) \/ TakeAnswer(h) \/ TakeChar(h) \/ Unlock(h)
HartStep(h) == Lock(h) \/ UseConsole(h) \/ Syscalls(h) \/ tohost_exit(h)
Host == HandleCommand \/ BeginIdle \/ EndIdle \/ Stop

Done == phase = "stopped" /\ UNCHANGED vars
Next == Host \/ Signal \/ Done \/ \E h \in Harts : HartStep(h)

\* The loop runs on, and in its idle() every hart does.
Spec == /\ Init /\ [][Next]_vars /\ WF_vars(Host)
        /\ \A h \in Harts : SF_vars(Syscalls(h))

----------------------------------------------------------------------------
\* What lies between a word's arrival in tohost and the target's taking
\* its answer.
OnItsWay == <<tohost>> \o pending_reads \o fromhost_queue \o <<fromhost>>
IsRead(word) == word.device = Bcd /\ word.cmd = 0
IsCall(word) == word # Zero /\ (word.cmd = Identify \/ ToSyscall(word))
NobodyExited == \A h \in Harts : pc[h] # "exited"
IsExit(word) == ToSyscall(word) /\ Odd(word.payload)

\* Every call of a hart that waits, and every read of the console, is in
\* exactly one place, whatever overlaps: nothing is lost in a full mailbox
\* or handled twice. Ends of programs may overwrite.
NothingLostOrRepeated ==
  NobodyExited =>
    /\ Cardinality({h \in Harts : pc[h] = "waiting"})
         = Cardinality({i \in DOMAIN OnItsWay : IsCall(OnItsWay[i])})
    /\ open = Cardinality({i \in DOMAIN OnItsWay : IsRead(OnItsWay[i])})

\* Characters reach the target in the order in which they were typed, also
\* when answers to calls come between them.
ToTarget == <<fromhost>> \o fromhost_queue
CharsBefore(i) == Cardinality({j \in 1 .. i - 1 : IsChar(ToTarget[j])})
CharsInOrder ==
  /\ \A i \in DOMAIN ToTarget : IsChar(ToTarget[i]) =>
       ToTarget[i].payload = 256 + ((received + CharsBefore(i)) % CharWrap)
  /\ typed = (received + CharsBefore(Len(ToTarget) + 1)) % CharWrap

\* A call is answered, also when reads of the console stay open for ever,
\* unless the program ends.
CallReturns ==
  \A h \in Harts : pc[h] = "waiting" ~> (pc[h] # "waiting" \/ phase = "stopped")

\* The word that ends the program ends it, with every exit code, but for
\* one case: another hart's call overwrites it before the host looks.
ExitEndsRun == IsExit(tohost) ~> (phase = "stopped" \/ (IsCall(tohost) /\ ~IsExit(tohost)))
=============================================================================
