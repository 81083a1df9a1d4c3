----------------------------- MODULE Htif_proofs -----------------------------
(***************************************************************************)
(* Proofs about Htif, for any number of harts, exit codes and open reads.  *)
(***************************************************************************)
EXTENDS Htif, FiniteSetTheorems, SequenceTheorems, TLAPS

(***************************************************************************)
(* The words that pass through the mailboxes.                              *)
(***************************************************************************)
Answer == {Word(Syscall, 0, 1), Word(Absent, Identify, 1)}
Request == {Word(Syscall, 0, OtherCall), Word(Absent, Identify, 1)}
             \cup {Word(Syscall, 0, SysExit(code)) : code \in Codes}
Silent == {BcdWrite, Word(Absent, 0, 1)}      \* get no answer
ExitWords == {ExitWord(code) : code \in Codes}

\* Numbers below twice CharWrap, modulo CharWrap.
Rest(n) == IF n < CharWrap THEN n ELSE n - CharWrap
CharWord(n) == Word(Bcd, 0, 256 + Rest(n))

(***************************************************************************)
(* The line of words to the target: the mailbox, then the queue. It has at *)
(* most one answer, at place c of the queue or, with c = 0, in the mailbox *)
(* or nowhere; all others are characters, the first is number r.           *)
(***************************************************************************)
InBox(from) == IF IsChar(from) THEN 1 ELSE 0
NotChar(c) == IF c = 0 THEN 0 ELSE 1
Rank(c, i) == IF 0 < c /\ c < i THEN i - 2 ELSE i - 1
Line(q, from, c, r) ==
  /\ q \in Seq(Answer \cup {CharWord(n) : n \in 0 .. CharWrap - 1})
  /\ c \in 0 .. Len(q)
  /\ from \in {Zero, CharWord(r)} \cup Answer
  /\ ~(c # 0 /\ from \in Answer)
  /\ \A i \in 1 .. Len(q) :
       IF i = c THEN q[i] \in Answer
       ELSE q[i] = CharWord(r + InBox(from) + Rank(c, i))
CharCount(q, from, c) == InBox(from) + (Len(q) - NotChar(c))

(***************************************************************************)
(* The invariant.                                                          *)
(***************************************************************************)
Types ==
  /\ tohost \in {Zero, BcdRead} \cup Silent \cup Request \cup ExitWords
  /\ pending_reads \in Seq({BcdRead})
  /\ exitcode \in {0} \cup {2 * c + 1 : c \in Codes}
  /\ pc \in [Harts -> {"run", "locked", "waiting", "posted", "answered", "exited"}]
  /\ received \in 0 .. CharWrap - 1 /\ typed \in 0 .. CharWrap - 1
  /\ open \in 0 .. MaxReads

\* The lock has a holder, who is the one in a call; until a program ends,
\* only it has a word in tohost.
Locks ==
  /\ syscall_lock = {} \/ \E h \in Harts : syscall_lock = {h}
  /\ \A h \in Harts : pc[h] \notin {"run", "exited"} => syscall_lock = {h}
  /\ NobodyExited =>
       /\ tohost \notin ExitWords
       /\ tohost # Zero => \E h \in Harts :
            pc[h] = IF tohost \in Request THEN "waiting" ELSE "posted"

\* The call of the holder is in tohost, in the queue or in fromhost, and
\* nowhere else.
Placed(c) == c # 0 \/ fromhost \in Answer \/ tohost \in Request
Called(c) ==
  /\ ~(tohost \in Request /\ (c # 0 \/ fromhost \in Answer))
  /\ Placed(c) => \E h \in Harts : syscall_lock = {h} /\ pc[h] \in {"waiting", "exited"}
  /\ NobodyExited => \A h \in Harts : pc[h] = "waiting" => Placed(c)

\* The open reads are in tohost, with the console, or on their way back as
\* characters.
InTohost(word) == IF word = BcdRead THEN 1 ELSE 0
ReadCount(c) == InTohost(tohost) + Len(pending_reads)
                  + CharCount(fromhost_queue, fromhost, c)
Reads(c) == /\ ReadCount(c) <= open
            /\ NobodyExited => ReadCount(c) = open

Way(c) == /\ Line(fromhost_queue, fromhost, c, received)
          /\ typed = Rest(received + CharCount(fromhost_queue, fromhost, c))
          /\ Called(c) /\ Reads(c)
Inv == Types /\ Locks /\ \E c \in 0 .. Len(fromhost_queue) : Way(c)

----------------------------------------------------------------------------
(***************************************************************************)
(* The words are told apart by device, command and payload.                *)
(***************************************************************************)
LEMMA Sizes == MaxReads \in Nat /\ CharWrap \in Nat /\ MaxReads < CharWrap
BY HtifAssumption

LEMMA LineWords ==
  /\ ~IsChar(Zero) /\ ~IsCall(Zero) /\ ~IsRead(Zero) /\ Zero \notin Answer
  /\ \A w \in Answer : ~IsChar(w) /\ IsCall(w) /\ ~IsRead(w)
  /\ \A n \in Int : LET w == CharWord(n)
                    IN /\ IsChar(w) /\ ~IsCall(w) /\ IsRead(w)
                       /\ w # Zero /\ w \notin Answer
                       /\ w.payload = 256 + Rest(n)
BY DEF IsChar, IsCall, IsRead, Zero, Answer, CharWord, Word, ToSyscall,
       Syscall, Bcd, Absent, Identify

LEMMA TargetWords ==
  /\ Zero # BcdRead /\ Zero \notin Request /\ Zero \notin Silent
  /\ Zero \notin ExitWords
  /\ IsRead(BcdRead) /\ ~IsCall(BcdRead)
  /\ BcdRead \notin Request /\ BcdRead \notin Silent /\ BcdRead \notin ExitWords
  /\ \A w \in Request : IsCall(w) /\ ~IsRead(w) /\ w # Zero
  /\ \A w \in Silent : ~IsCall(w) /\ ~IsRead(w) /\ w # Zero /\ w \notin Request
                       /\ w \notin ExitWords
  /\ \A w \in ExitWords : ~IsRead(w) /\ w # Zero
<1>. USE DEF IsCall, IsRead, Zero, BcdRead, BcdWrite, Silent, Word, ToSyscall,
             Syscall, Bcd, Absent, Identify
<1>1. \A w \in Request : IsCall(w) /\ ~IsRead(w) /\ w # Zero /\ w # BcdRead
                         /\ w \notin Silent
  <2>1. \A code \in Codes : 4 + 2 * code # 0
    BY HtifAssumption
  <2>. QED
    BY <2>1 DEF Request, OtherCall, SysExit
<1>2. \A w \in ExitWords : ~IsRead(w) /\ w # Zero /\ w # BcdRead
                           /\ w \notin Silent
  <2>1. \A code \in Codes : 2 * code + 1 # 0
    BY HtifAssumption
  <2>. QED
    BY <2>1 DEF ExitWords, ExitWord
<1>3. /\ Zero # BcdRead /\ Zero \notin Silent
      /\ IsRead(BcdRead) /\ ~IsCall(BcdRead)
      /\ \A w \in Silent : ~IsCall(w) /\ ~IsRead(w) /\ w # Zero /\ w # BcdRead
  OBVIOUS
<1>. QED
  BY <1>1, <1>2, <1>3

LEMMA ExitWordNoRequest ==
  ASSUME NEW w \in ExitWords
  PROVE  w \notin Request /\ w # BcdRead
<1>1. PICK code \in Codes : w = ExitWord(code) /\ code \in Nat
  BY HtifAssumption DEF ExitWords
<1>2. /\ w.device = Syscall /\ w.cmd = 0 /\ w.payload = 2 * code + 1
  BY <1>1 DEF ExitWord, Word
<1>3. \A v \in Request : v.device = Absent \/ v.payload = 2
                         \/ \E k \in Nat : v.payload = 4 + 2 * k
  BY HtifAssumption DEF Request, Word, OtherCall, SysExit
<1>4. 2 * code + 1 # 2 /\ \A k \in Nat : 2 * code + 1 # 4 + 2 * k
  BY <1>1
<1>. QED
  BY <1>2, <1>3, <1>4 DEF BcdRead, Word, Syscall, Bcd, Absent

(***************************************************************************)
(* What the devices do with a command.                                     *)
(***************************************************************************)
LEMMA RequestAnswered ==
  ASSUME NEW w \in Request
  PROVE  /\ Answers(w) = <<respond(w, 1)>> /\ respond(w, 1) \in Answer
         /\ ReadsAfter(w) = pending_reads
<1>1. CASE w = Word(Syscall, 0, OtherCall)
  BY <1>1 DEF Answers, respond, Answer, ReadsAfter, Word, ToSyscall, Odd,
     OtherCall, Syscall, Bcd, Identify
<1>2. CASE w = Word(Absent, Identify, 1)
  BY <1>2 DEF Answers, respond, Answer, ReadsAfter, Word, ToSyscall,
     Absent, Bcd, Identify
<1>3. ASSUME NEW code \in Codes, w = Word(Syscall, 0, SysExit(code))
      PROVE  /\ Answers(w) = <<respond(w, 1)>> /\ respond(w, 1) \in Answer
             /\ ReadsAfter(w) = pending_reads
  <2>1. code \in Nat
    BY HtifAssumption
  <2>2. ~Odd(4 + 2 * code)
    BY <2>1 DEF Odd
  <2>. QED
    BY <1>3, <2>2 DEF Answers, respond, Answer, ReadsAfter, Word, ToSyscall,
       SysExit, Syscall, Bcd, Identify
<1>. QED
  BY <1>1, <1>2, <1>3 DEF Request

LEMMA OthersNotAnswered ==
  ASSUME NEW w \in {BcdRead} \cup Silent \cup ExitWords
  PROVE  Answers(w) = <<>>
<1>1. CASE w \in {BcdRead} \cup Silent
  BY <1>1 DEF Answers, Silent, BcdRead, BcdWrite, Word, ToSyscall, Syscall,
     Bcd, Absent, Identify
<1>2. ASSUME NEW code \in Codes, w = ExitWord(code) PROVE Answers(w) = <<>>
  <2>1. code \in Nat
    BY HtifAssumption
  <2>2. Odd(2 * code + 1)
    BY <2>1 DEF Odd
  <2>. QED
    BY <1>2, <2>2 DEF Answers, ExitWord, Word, Identify
<1>. QED
  BY <1>1, <1>2 DEF ExitWords

LEMMA ReadsAre ==
  /\ ReadsAfter(BcdRead) = Append(pending_reads, BcdRead)
  /\ \A w \in Silent \cup ExitWords : ReadsAfter(w) = pending_reads
BY DEF ReadsAfter, BcdRead, BcdWrite, Silent, ExitWords, ExitWord, Word,
       Syscall, Bcd, Absent

LEMMA ExitcodeTyped ==
  ASSUME NEW w \in {BcdRead} \cup Silent \cup Request \cup ExitWords,
         exitcode \in {0} \cup {2 * c + 1 : c \in Codes}
  PROVE  ExitcodeAfter(w) \in {0} \cup {2 * c + 1 : c \in Codes}
<1>1. CASE w \in {BcdRead} \cup Silent \cup {Word(Absent, Identify, 1)}
  BY <1>1 DEF ExitcodeAfter, ToSyscall, BcdRead, BcdWrite, Silent, Word,
     Syscall, Bcd, Absent, Identify
<1>2. CASE w = Word(Syscall, 0, OtherCall)
  BY <1>2 DEF ExitcodeAfter, ToSyscall, Word, OtherCall, Odd
<1>3. ASSUME NEW code \in Codes, w = Word(Syscall, 0, SysExit(code))
      PROVE  ExitcodeAfter(w) = 2 * code + 1
  <2>1. code \in Nat
    BY HtifAssumption
  <2>2. ~Odd(4 + 2 * code) /\ 4 + 2 * code # 2
        /\ (4 + 2 * code) - 3 = 2 * code + 1
    BY <2>1 DEF Odd
  <2>3. ToSyscall(w) /\ w.payload = 4 + 2 * code
    BY <1>3 DEF ToSyscall, Word, SysExit
  <2>. QED
    BY <2>2, <2>3 DEF ExitcodeAfter, OtherCall
<1>4. ASSUME NEW code \in Codes, w = ExitWord(code)
      PROVE  ExitcodeAfter(w) = 2 * code + 1
  <2>1. code \in Nat
    BY HtifAssumption
  <2>2. Odd(2 * code + 1)
    BY <2>1 DEF Odd
  <2>. QED
    BY <1>4, <2>2 DEF ExitcodeAfter, ToSyscall, ExitWord, Word
<1>. QED
  BY <1>1, <1>2, <1>3, <1>4 DEF Request, ExitWords

----------------------------------------------------------------------------
(***************************************************************************)
(* What can happen to the line.                                            *)
(***************************************************************************)
LineWord == Answer \cup {CharWord(n) : n \in 0 .. CharWrap - 1}

LEMMA Ones == /\ \A w : InBox(w) \in {0, 1}
              /\ \A c : NotChar(c) \in {0, 1} /\ InTohost(c) \in {0, 1}
BY DEF InBox, NotChar, InTohost

LEMMA RestIs ==
  ASSUME NEW n \in 0 .. 2 * CharWrap - 1
  PROVE  /\ Rest(n) \in 0 .. CharWrap - 1 /\ CharWord(n) \in LineWord
         /\ n % CharWrap = Rest(n)
<1>1. Rest(n) \in 0 .. CharWrap - 1 /\ Rest(Rest(n)) = Rest(n)
  BY Sizes DEF Rest
<1>2. CharWord(n) = CharWord(Rest(n))
  BY <1>1 DEF CharWord
<1>3. n % CharWrap = Rest(n)
  <2>1. CASE n < CharWrap
    BY <2>1, Sizes DEF Rest
  <2>2. CASE ~(n < CharWrap)
    <3>1. n - CharWrap \in 0 .. CharWrap - 1 /\ n = CharWrap + (n - CharWrap)
      BY <2>2, Sizes
    <3>2. n % CharWrap = n - CharWrap
      BY <3>1, Sizes
    <3>. QED
      BY <2>2, <3>2 DEF Rest
  <2>. QED
    BY <2>1, <2>2
<1>. QED
  BY <1>1, <1>2, <1>3 DEF LineWord

\* An answer, or the next character, goes to the end.
LEMMA AnswerJoins ==
  ASSUME NEW q, NEW from, NEW r \in 0 .. CharWrap - 1, Line(q, from, 0, r),
         from \notin Answer, NEW a \in Answer
  PROVE  /\ Line(Append(q, a), from, Len(q) + 1, r)
         /\ CharCount(Append(q, a), from, Len(q) + 1) = CharCount(q, from, 0)
<1>1. q \in Seq(LineWord) /\ a \in LineWord
  BY DEF Line, LineWord
<1>. DEFINE s == Append(q, a)
            n == Len(q)
<1>2. /\ s \in Seq(LineWord) /\ Len(s) = n + 1 /\ s[n + 1] = a
      /\ \A i \in 1 .. n : s[i] = q[i]
      /\ n \in Nat
  BY <1>1, AppendProperties, LenProperties
<1>3. InBox(from) \in {0, 1}
  BY Ones
<1>4. ASSUME NEW i \in 1 .. n + 1, i # n + 1
      PROVE  s[i] = CharWord(r + InBox(from) + Rank(n + 1, i))
  <2>1. i \in 1 .. n /\ s[i] = q[i] /\ i # 0
    BY <1>2, <1>4
  <2>2. q[i] = CharWord(r + InBox(from) + Rank(0, i))
    BY <2>1 DEF Line
  <2>3. Rank(0, i) = Rank(n + 1, i)
    BY <1>2, <2>1 DEF Rank
  <2>. QED
    BY <2>1, <2>2, <2>3
<1>. HIDE DEF s, n
<1>5. from \in {Zero, CharWord(r)} \cup Answer
  BY DEF Line
<1>6. Line(s, from, n + 1, r)
  BY <1>2, <1>4, <1>5 DEF Line, LineWord
<1>7. CharCount(s, from, n + 1) = CharCount(q, from, 0)
  BY <1>2, <1>3 DEF CharCount, NotChar, n
<1>. QED
  BY <1>6, <1>7 DEF s, n

LEMMA CharJoins ==
  ASSUME NEW q, NEW from, NEW r \in 0 .. CharWrap - 1, NEW c,
         Line(q, from, c, r), CharCount(q, from, c) < CharWrap
  PROVE  LET s == Append(q, CharWord(r + CharCount(q, from, c)))
         IN Line(s, from, c, r) /\ CharCount(s, from, c) = CharCount(q, from, c) + 1
<1>. DEFINE m == CharCount(q, from, c)
            a == CharWord(r + m)
            s == Append(q, a)
            n == Len(q)
            f == InBox(from)
<1>1. q \in Seq(LineWord) /\ c \in 0 .. n /\ n \in Nat
  BY LenProperties DEF Line, LineWord
<1>2. f \in {0, 1}
  BY Ones
<1>3. m \in 0 .. CharWrap - 1 /\ m = f + Rank(c, n + 1)
  BY <1>1, <1>2, Sizes DEF CharCount, Rank, NotChar
<1>4. a \in LineWord
  <2>1. r + m \in 0 .. 2 * CharWrap - 1
    BY <1>3, Sizes
  <2>. QED
    BY <2>1, RestIs
<1>5. /\ s \in Seq(LineWord) /\ Len(s) = n + 1 /\ s[n + 1] = a
      /\ \A i \in 1 .. n : s[i] = q[i]
  BY <1>1, <1>4, AppendProperties
<1>6. ASSUME NEW i \in 1 .. n + 1
      PROVE  IF i = c THEN s[i] \in Answer
             ELSE s[i] = CharWord(r + f + Rank(c, i))
  <2>1. CASE i \in 1 .. n
    BY <1>5, <2>1 DEF Line
  <2>2. CASE i = n + 1
    <3>1. s[i] = CharWord(r + (f + Rank(c, n + 1)))
      BY <1>3, <1>5, <2>2
    <3>2. Rank(c, i) \in Int /\ r + (f + Rank(c, i)) = r + f + Rank(c, i)
      BY <1>1, <1>2, <2>2 DEF Rank
    <3>. QED
      BY <1>1, <2>2, <3>1, <3>2
  <2>. QED
    BY <1>1, <2>1, <2>2
<1>. HIDE DEF s, a
<1>7. Line(s, from, c, r)
  BY <1>1, <1>5, <1>6 DEF Line, LineWord
<1>8. CharCount(s, from, c) = m + 1
  <2>1. NotChar(c) \in {0, 1}
    BY Ones
  <2>2. f + ((n + 1) - NotChar(c)) = (f + (n - NotChar(c))) + 1
    BY <1>1, <1>2, <2>1
  <2>. QED
    BY <1>5, <2>2 DEF CharCount
<1>. QED
  BY <1>7, <1>8 DEF s, a

\* The first word of the queue goes to the mailbox.
LEMMA HeadDelivered ==
  ASSUME NEW q, NEW r \in 0 .. CharWrap - 1, NEW c, Line(q, Zero, c, r),
         q # <<>>
  PROVE  LET d == IF c = 0 THEN 0 ELSE c - 1
         IN /\ Line(Tail(q), Head(q), d, r)
            /\ CharCount(Tail(q), Head(q), d) = CharCount(q, Zero, c)
            /\ d \in 0 .. Len(Tail(q))
            /\ (d # 0 \/ Head(q) \in Answer) <=> c # 0
<1>. DEFINE d == IF c = 0 THEN 0 ELSE c - 1
            s == Tail(q)
            from == Head(q)
            n == Len(q)
<1>1. q \in Seq(LineWord) /\ c \in 0 .. n
  BY DEF Line, LineWord
<1>2. n \in Nat /\ n >= 1
  BY <1>1, EmptySeq
<1>3. /\ s \in Seq(LineWord) /\ Len(s) = n - 1 /\ from = q[1]
      /\ \A i \in 1 .. n - 1 : s[i] = q[i + 1]
  <2>1. from = q[1]
    BY <1>1, <1>2
  <2>. QED
    BY <1>1, <2>1, HeadTailProperties
<1>4. InBox(Zero) = 0
  BY LineWords DEF InBox
<1>5. \A i \in 1 .. n : IF i = c THEN q[i] \in Answer
                        ELSE q[i] = CharWord(r + Rank(c, i))
  <2>. SUFFICES ASSUME NEW i \in 1 .. n
                PROVE  IF i = c THEN q[i] \in Answer
                       ELSE q[i] = CharWord(r + Rank(c, i))
    OBVIOUS
  <2>1. r + 0 = r
    OBVIOUS
  <2>. QED
    BY <1>4, <2>1 DEF Line
<1>6. IF c = 1 THEN from \in Answer ELSE from = CharWord(r)
  <2>1. CASE c = 1
    BY <1>2, <1>3, <1>5, <2>1
  <2>2. CASE c # 1
    <3>1. r + Rank(c, 1) = r
      BY <1>1, <2>2 DEF Rank
    <3>. QED
      BY <1>2, <1>3, <1>5, <2>2, <3>1
  <2>. QED
    BY <2>1, <2>2
<1>7. InBox(from) = IF c = 1 THEN 0 ELSE 1
  BY <1>6, LineWords DEF InBox
<1>8. ASSUME NEW i \in 1 .. n - 1
      PROVE  IF i = d THEN s[i] \in Answer
             ELSE s[i] = CharWord(r + InBox(from) + Rank(d, i))
  <2>1. i + 1 \in 1 .. n /\ s[i] = q[i + 1] /\ (i = d <=> i + 1 = c)
    BY <1>1, <1>2, <1>3
  <2>2. CASE i = d
    BY <1>5, <2>1, <2>2
  <2>3. CASE i # d
    <3>1. r + InBox(from) + Rank(d, i) = r + Rank(c, i + 1)
      BY <1>1, <1>7, <2>1, <2>3 DEF Rank
    <3>2. s[i] = CharWord(r + Rank(c, i + 1))
      BY <1>5, <2>1, <2>3
    <3>. QED
      BY <2>3, <3>1, <3>2
  <2>. QED
    BY <2>2, <2>3
<1>9. d \in 0 .. n - 1
  BY <1>1, <1>2
<1>10. from \in {Zero, CharWord(r)} \cup Answer /\ ~(d # 0 /\ from \in Answer)
  BY <1>1, <1>6, LineWords
<1>11. (d # 0 \/ from \in Answer) <=> c # 0
  BY <1>1, <1>6, LineWords
<1>. HIDE DEF s, from, n
<1>12. CharCount(s, from, d) = CharCount(q, Zero, c)
  <2>1. NotChar(d) = IF c \in {0, 1} THEN 0 ELSE 1
    BY <1>1 DEF NotChar
  <2>2. NotChar(c) = IF c = 0 THEN 0 ELSE 1
    BY DEF NotChar
  <2>3. InBox(from) + ((n - 1) - NotChar(d)) = 0 + (n - NotChar(c))
    BY <1>1, <1>2, <1>7, <2>1, <2>2
  <2>. QED
    BY <1>3, <1>4, <2>3 DEF CharCount, n
<1>. HIDE DEF d
<1>13. Line(s, from, d, r)
  BY <1>3, <1>8, <1>9, <1>10 DEF Line, LineWord
<1>. QED
  BY <1>3, <1>9, <1>11, <1>12, <1>13 DEF s, from, n, d

\* The target takes the word in the mailbox.
LEMMA AnswerTaken ==
  ASSUME NEW q, NEW from \in Answer, NEW r \in 0 .. CharWrap - 1, NEW c,
         Line(q, from, c, r)
  PROVE  /\ c = 0 /\ Line(q, Zero, 0, r)
         /\ CharCount(q, Zero, 0) = CharCount(q, from, c)
<1>1. ~IsChar(from) /\ ~IsChar(Zero) /\ Zero \notin Answer
  BY LineWords
<1>. QED
  BY <1>1 DEF Line, CharCount, InBox, NotChar

LEMMA CharTaken ==
  ASSUME NEW q, NEW from, IsChar(from), NEW r \in 0 .. CharWrap - 1, NEW c,
         Line(q, from, c, r), CharCount(q, from, c) <= MaxReads
  PROVE  /\ Line(q, Zero, c, Rest(r + 1))
         /\ CharCount(q, Zero, c) = CharCount(q, from, c) - 1
         /\ CharCount(q, from, c) >= 1
         /\ Rest(Rest(r + 1) + CharCount(q, Zero, c))
              = Rest(r + CharCount(q, from, c))
<1>. DEFINE n == Len(q)
            m == CharCount(q, from, c)
            t == Rest(r + 1)
<1>1. q \in Seq(LineWord) /\ c \in 0 .. n /\ n \in Nat
  BY LenProperties DEF Line, LineWord
<1>2. InBox(from) = 1 /\ InBox(Zero) = 0
  BY LineWords DEF InBox
<1>3. NotChar(c) \in {0, 1} /\ (NotChar(c) = 1 => n >= 1)
  BY <1>1 DEF NotChar
<1>4. m = 1 + (n - NotChar(c)) /\ CharCount(q, Zero, c) = n - NotChar(c)
  BY <1>1, <1>2, <1>3 DEF CharCount
<1>5. m \in 1 .. MaxReads /\ CharCount(q, Zero, c) = m - 1
  BY <1>1, <1>3, <1>4, Sizes
<1>6. \A k \in 0 .. m - 1 : CharWord(t + k) = CharWord(r + 1 + k)
                            /\ Rest(t + k) = Rest(r + 1 + k)
  BY <1>5, Sizes DEF CharWord, Rest
<1>7. ASSUME NEW i \in 1 .. n
      PROVE  IF i = c THEN q[i] \in Answer
             ELSE q[i] = CharWord(t + InBox(Zero) + Rank(c, i))
  <2>1. CASE i = c
    BY <2>1 DEF Line
  <2>2. CASE i # c
    <3>1. q[i] = CharWord(r + 1 + Rank(c, i))
      BY <1>2, <2>2 DEF Line
    <3>2. Rank(c, i) \in 0 .. m - 1
      <4>1. NotChar(c) = IF c = 0 THEN 0 ELSE 1
        BY DEF NotChar
      <4>2. m - 1 = n - NotChar(c)
        BY <1>1, <1>4, <4>1
      <4>3. i \in 1 .. n /\ (c # 0 /\ ~c < i => i <= n - 1)
        BY <1>1, <2>2
      <4>4. Rank(c, i) \in 0 .. (n - NotChar(c)) - 1
        BY <1>1, <2>2, <4>1, <4>3 DEF Rank
      <4>. HIDE DEF m
      <4>. QED
        BY <1>1, <1>5, <4>1, <4>2, <4>4
    <3>3. t \in Int /\ t + 0 + Rank(c, i) = t + Rank(c, i)
      BY <3>2, Sizes DEF Rest
    <3>. QED
      BY <1>2, <1>6, <2>2, <3>1, <3>2, <3>3
  <2>. QED
    BY <2>1, <2>2
<1>. HIDE DEF t, m
<1>8. Line(q, Zero, c, t)
  BY <1>1, <1>7, LineWords DEF Line, LineWord
<1>9. Rest(t + (m - 1)) = Rest(r + m)
  <2>1. r + 1 + (m - 1) = r + m
    BY <1>5, Sizes
  <2>2. m - 1 \in 0 .. m - 1
    BY <1>5
  <2>. QED
    BY <1>6, <2>1, <2>2
<1>. QED
  BY <1>5, <1>8, <1>9 DEF t, m

----------------------------------------------------------------------------
(***************************************************************************)
(* An iteration of the host moves words along the line and loses none.     *)
(***************************************************************************)
LEMMA LineTypes ==
  ASSUME NEW q, NEW from, NEW c, NEW r, Line(q, from, c, r)
  PROVE  /\ q \in Seq(LineWord) /\ Len(q) \in Nat /\ c \in 0 .. Len(q)
         /\ CharCount(q, from, c) \in Nat
<1>1. q \in Seq(LineWord) /\ Len(q) \in Nat /\ c \in 0 .. Len(q)
  BY LenProperties DEF Line, LineWord
<1>2. InBox(from) \in {0, 1}
  BY Ones
<1>3. Len(q) - NotChar(c) \in Nat
  BY <1>1 DEF NotChar
<1>. QED
  BY <1>1, <1>2, <1>3 DEF CharCount

LEMMA Delivers ==
  ASSUME NEW queue, NEW c, received \in 0 .. CharWrap - 1,
         Line(queue, fromhost, c, received), Deliver(queue)
  PROVE  \E d \in 0 .. Len(fromhost_queue') :
           /\ Line(fromhost_queue', fromhost', d, received)
           /\ CharCount(fromhost_queue', fromhost', d)
                = CharCount(queue, fromhost, c)
           /\ (d # 0 \/ fromhost' \in Answer) <=> (c # 0 \/ fromhost \in Answer)
<1>1. CASE MayDeliver(queue)
  <2>1. fromhost = Zero /\ queue # <<>>
    BY <1>1 DEF MayDeliver
  <2>2. fromhost' = Head(queue) /\ fromhost_queue' = Tail(queue)
    BY <1>1 DEF Deliver
  <2>3. fromhost \notin Answer
    BY <2>1, LineWords
  <2>. QED
    BY <2>1, <2>2, <2>3, HeadDelivered
<1>2. CASE ~MayDeliver(queue)
  <2>1. fromhost' = fromhost /\ fromhost_queue' = queue
    BY <1>2 DEF Deliver
  <2>. QED
    BY <2>1, LineTypes
<1>. QED
  BY <1>1, <1>2

LEMMA Ticks ==
  ASSUME NEW queue, NEW c, received \in 0 .. CharWrap - 1,
         NEW reads \in Seq({BcdRead}), Line(queue, fromhost, c, received),
         typed = Rest(received + CharCount(queue, fromhost, c)),
         Len(reads) + CharCount(queue, fromhost, c) <= MaxReads,
         TickAndDeliver(queue, reads)
  PROVE  /\ pending_reads' \in Seq({BcdRead}) /\ typed' \in 0 .. CharWrap - 1
         /\ \E d \in 0 .. Len(fromhost_queue') :
              LET n == CharCount(fromhost_queue', fromhost', d)
              IN /\ Line(fromhost_queue', fromhost', d, received)
                 /\ typed' = Rest(received + n)
                 /\ Len(pending_reads') + n
                      = Len(reads) + CharCount(queue, fromhost, c)
                 /\ (d # 0 \/ fromhost' \in Answer)
                      <=> (c # 0 \/ fromhost \in Answer)
<1>. DEFINE m == CharCount(queue, fromhost, c)
<1>1. m \in Nat /\ Len(reads) \in Nat
  BY LineTypes, LenProperties
<1>2. received + m \in 0 .. 2 * CharWrap - 1
      /\ (Len(reads) >= 1 => received + (m + 1) \in 0 .. 2 * CharWrap - 1)
      /\ m < CharWrap
  BY <1>1, Sizes
<1>3. CASE pending_reads' = reads /\ typed' = typed /\ Deliver(queue)
  <2>1. typed \in 0 .. CharWrap - 1
    BY <1>2, RestIs
  <2>. QED
    BY <1>3, <2>1, Delivers
<1>4. CASE /\ reads # <<>> /\ pending_reads' = Tail(reads)
           /\ typed' = (typed + 1) % CharWrap
           /\ Deliver(Push(queue, respond(Head(reads), 256 + typed)))
  <2>1. /\ Head(reads) = BcdRead /\ Tail(reads) \in Seq({BcdRead})
        /\ Len(reads) >= 1 /\ Len(Tail(reads)) = Len(reads) - 1
    BY <1>4, HeadTailProperties, EmptySeq
  <2>2. respond(Head(reads), 256 + typed) = CharWord(received + m)
    BY <2>1 DEF respond, BcdRead, Word, CharWord
  <2>. DEFINE s == Append(queue, CharWord(received + m))
  <2>3. Line(s, fromhost, c, received) /\ CharCount(s, fromhost, c) = m + 1
    BY <1>2, CharJoins
  <2>4. Deliver(s)
    BY <1>4, <2>2 DEF Push
  <2>5. typed' = Rest(received + (m + 1)) /\ typed' \in 0 .. CharWrap - 1
    <3>1. typed = Rest(received + m) /\ typed \in 0 .. CharWrap - 1
      BY <1>2, RestIs
    <3>2. typed + 1 \in 0 .. 2 * CharWrap - 1
      BY <3>1, Sizes
    <3>3. typed' = Rest(typed + 1) /\ typed' \in 0 .. CharWrap - 1
      BY <1>4, <3>2, RestIs
    <3>. HIDE DEF m
    <3>4. Rest(Rest(received + m) + 1) = Rest(received + (m + 1))
      BY <1>1, <1>2, <2>1, Sizes DEF Rest
    <3>. QED
      BY <3>1, <3>3, <3>4
  <2>. HIDE DEF s, m
  <2>6. PICK d \in 0 .. Len(fromhost_queue') :
           /\ Line(fromhost_queue', fromhost', d, received)
           /\ CharCount(fromhost_queue', fromhost', d) = m + 1
           /\ (d # 0 \/ fromhost' \in Answer) <=> (c # 0 \/ fromhost \in Answer)
    BY <2>3, <2>4, Delivers
  <2>7. Len(pending_reads') + (m + 1) = Len(reads) + m
    BY <1>1, <1>4, <2>1
  <2>. QED
    BY <1>4, <2>1, <2>5, <2>6, <2>7 DEF m
<1>. QED
  BY <1>3, <1>4 DEF TickAndDeliver

\* What a command leaves to the end of its iteration: the queue and the
\* reads, with the place e of the answer.
LEMMA HostDone ==
  ASSUME Types, NEW c, Way(c), NEW queue, NEW e,
         NEW reads \in Seq({BcdRead}), Line(queue, fromhost, e, received),
         CharCount(queue, fromhost, e) = CharCount(fromhost_queue, fromhost, c),
         ~(tohost' \in Request /\ (e # 0 \/ fromhost \in Answer)),
         (e # 0 \/ fromhost \in Answer \/ tohost' \in Request) <=> Placed(c),
         InTohost(tohost') + Len(reads) = InTohost(tohost) + Len(pending_reads),
         TickAndDeliver(queue, reads), UNCHANGED hartVars
  PROVE  /\ pending_reads' \in Seq({BcdRead}) /\ typed' \in 0 .. CharWrap - 1
         /\ \E d \in 0 .. Len(fromhost_queue)' : Way(d)'
<1>. DEFINE m == CharCount(queue, fromhost, e)
<1>1. /\ m \in Nat /\ Len(reads) \in Nat /\ Len(pending_reads) \in Nat
      /\ received \in 0 .. CharWrap - 1 /\ open \in 0 .. MaxReads
      /\ typed = Rest(received + m)
  BY LineTypes, LenProperties DEF Types, Way
<1>2. InTohost(tohost) \in {0, 1} /\ InTohost(tohost') \in {0, 1}
  BY Ones
<1>3. InTohost(tohost) + Len(pending_reads) + m = ReadCount(c)
  BY <1>1, <1>2 DEF ReadCount
<1>4. ReadCount(c) <= open /\ (NobodyExited => ReadCount(c) = open)
  BY DEF Way, Reads
<1>5. Len(reads) + m <= MaxReads
  <2>. HIDE DEF m
  <2>. QED
    BY <1>1, <1>2, <1>3, <1>4, Sizes
<1>6. PICK d \in 0 .. Len(fromhost_queue') :
        LET n == CharCount(fromhost_queue', fromhost', d)
        IN /\ Line(fromhost_queue', fromhost', d, received)
           /\ typed' = Rest(received + n)
           /\ Len(pending_reads') + n = Len(reads) + m
           /\ (d # 0 \/ fromhost' \in Answer) <=> (e # 0 \/ fromhost \in Answer)
  BY <1>1, <1>5, Ticks
<1>7. pending_reads' \in Seq({BcdRead}) /\ typed' \in 0 .. CharWrap - 1
  BY <1>1, <1>5, Ticks
<1>8. Placed(d)' <=> Placed(c)
  BY <1>6 DEF Placed
<1>9. Called(d)'
  BY <1>6, <1>8 DEF Way, Called, hartVars, NobodyExited
<1>10. ReadCount(d)' = ReadCount(c)
  <2>. DEFINE n == CharCount(fromhost_queue', fromhost', d)
  <2>1. n \in Nat /\ Len(pending_reads') \in Nat
    BY <1>6, <1>7, LineTypes, LenProperties
  <2>2. Len(pending_reads') + n = Len(reads) + m
    BY <1>6
  <2>3. ReadCount(d)' = InTohost(tohost') + Len(pending_reads') + n
    BY <2>1, <1>2 DEF ReadCount
  <2>. HIDE DEF n, m
  <2>. QED
    BY <1>1, <1>2, <1>3, <2>1, <2>2, <2>3
<1>11. Reads(d)'
  BY <1>4, <1>10 DEF Reads, hartVars, NobodyExited
<1>. QED
  BY <1>6, <1>7, <1>9, <1>11 DEF Way, hartVars

----------------------------------------------------------------------------
(***************************************************************************)
(* The invariant is inductive. First the host.                             *)
(***************************************************************************)
LEMMA CommandHandled ==
  ASSUME Inv, HandleCommand
  PROVE  Inv'
<1>1. PICK c \in 0 .. Len(fromhost_queue) : Way(c)
  BY DEF Inv
<1>. DEFINE q == fromhost_queue
            w == tohost
<1>2. /\ w \in {BcdRead} \cup Silent \cup Request \cup ExitWords
      /\ pending_reads \in Seq({BcdRead}) /\ Len(pending_reads) \in Nat
      /\ q \in Seq(LineWord) /\ Line(q, fromhost, c, received)
      /\ received \in 0 .. CharWrap - 1
      /\ q \o <<>> = q
  <2>1. Line(q, fromhost, c, received)
    BY <1>1 DEF Way
  <2>2. q \in Seq(LineWord)
    BY <2>1, LineTypes
  <2>. QED
    BY <2>1, <2>2, LenProperties, ConcatEmptySeq DEF Inv, Types, HandleCommand
<1>3. /\ tohost' = Zero /\ tohost' \notin Request /\ InTohost(tohost') = 0
      /\ UNCHANGED hartVars
  BY TargetWords DEF HandleCommand, InTohost
<1>4. /\ pending_reads' \in Seq({BcdRead}) /\ typed' \in 0 .. CharWrap - 1
      /\ \E d \in 0 .. Len(fromhost_queue)' : Way(d)'
  <2>1. CASE w \in Request
    <3>. DEFINE a == respond(w, 1)
                s == Append(q, a)
    <3>1. Answers(w) = <<a>> /\ a \in Answer /\ ReadsAfter(w) = pending_reads
      BY <2>1, RequestAnswered
    <3>2. c = 0 /\ fromhost \notin Answer /\ Placed(c)
      BY <1>1, <2>1 DEF Way, Called, Placed
    <3>3. q \o <<a>> = s
      <4>1. a \in LineWord
        BY <3>1 DEF LineWord
      <4>. QED
        BY <1>2, <4>1, AppendIsConcat
    <3>4. Line(s, fromhost, Len(q) + 1, received)
          /\ CharCount(s, fromhost, Len(q) + 1) = CharCount(q, fromhost, c)
      BY <1>2, <3>1, <3>2, AnswerJoins
    <3>5. TickAndDeliver(s, pending_reads)
      BY <3>1, <3>3 DEF HandleCommand
    <3>6. InTohost(w) = 0
      BY <2>1, TargetWords DEF InTohost
    <3>7. Len(q) + 1 # 0
      BY <1>2, LenProperties
    <3>. HIDE DEF s
    <3>. QED
      BY <1>1, <1>2, <1>3, <3>2, <3>4, <3>5, <3>6, <3>7, HostDone DEF Inv
  <2>2. CASE w \notin Request
    <3>1. Answers(w) = <<>>
      BY <1>2, <2>2, OthersNotAnswered
    <3>2. TickAndDeliver(q, ReadsAfter(w))
      BY <1>2, <3>1 DEF HandleCommand
    <3>3. (c # 0 \/ fromhost \in Answer \/ tohost' \in Request) <=> Placed(c)
      BY <1>3, <2>2 DEF Placed
    <3>4. CASE w = BcdRead
      <4>1. ReadsAfter(w) = Append(pending_reads, BcdRead)
        BY <3>4, ReadsAre
      <4>2. /\ Append(pending_reads, BcdRead) \in Seq({BcdRead})
            /\ Len(Append(pending_reads, BcdRead)) = Len(pending_reads) + 1
        BY <1>2, AppendProperties
      <4>3. InTohost(w) = 1
        BY <3>4 DEF InTohost
      <4>4. 0 + Len(Append(pending_reads, BcdRead)) = 1 + Len(pending_reads)
        BY <1>2, <4>2
      <4>. QED
        BY <1>1, <1>2, <1>3, <3>2, <3>3, <4>1, <4>2, <4>3, <4>4, HostDone
           DEF Inv
    <3>5. CASE w # BcdRead
      <4>1. ReadsAfter(w) = pending_reads /\ InTohost(w) = 0
        BY <1>2, <2>2, <3>5, ReadsAre DEF InTohost
      <4>. QED
        BY <1>1, <1>2, <1>3, <3>2, <3>3, <4>1, HostDone DEF Inv
    <3>. QED
      BY <3>4, <3>5
  <2>. QED
    BY <2>1, <2>2
<1>5. exitcode' \in {0} \cup {2 * k + 1 : k \in Codes}
  BY <1>2, ExitcodeTyped DEF Inv, Types, HandleCommand
<1>6. Types'
  BY <1>3, <1>4, <1>5 DEF Inv, Types, hartVars
<1>7. Locks'
  BY <1>3, TargetWords DEF Inv, Locks, hartVars, NobodyExited
<1>. QED
  BY <1>4, <1>6, <1>7 DEF Inv

LEMMA IdleEnds ==
  ASSUME Inv, EndIdle
  PROVE  Inv'
<1>1. PICK c \in 0 .. Len(fromhost_queue) : Way(c)
  BY DEF Inv
<1>2. /\ tohost' = tohost /\ UNCHANGED <<exitcode, hartVars>>
      /\ TickAndDeliver(fromhost_queue, pending_reads)
      /\ pending_reads \in Seq({BcdRead})
      /\ Line(fromhost_queue, fromhost, c, received)
  BY <1>1 DEF EndIdle, TohostAfterIdle, Inv, Types, Way
<1>3. /\ (c # 0 \/ fromhost \in Answer \/ tohost' \in Request) <=> Placed(c)
      /\ ~(tohost' \in Request /\ (c # 0 \/ fromhost \in Answer))
  BY <1>1, <1>2 DEF Placed, Way, Called
<1>4. /\ pending_reads' \in Seq({BcdRead}) /\ typed' \in 0 .. CharWrap - 1
      /\ \E d \in 0 .. Len(fromhost_queue)' : Way(d)'
  BY <1>1, <1>2, <1>3, HostDone DEF Inv
<1>5. Types'
  BY <1>2, <1>4 DEF Inv, Types, hartVars
<1>6. Locks'
  BY <1>2 DEF Inv, Locks, hartVars, NobodyExited
<1>. QED
  BY <1>4, <1>5, <1>6 DEF Inv

\* Nothing on the way moves in the other steps of the host.
LEMMA NothingMoves ==
  ASSUME Inv, UNCHANGED <<tohost, fromhost, fromhost_queue, pending_reads,
                          exitcode, typed, hartVars>>
  PROVE  Inv'
<1>1. PICK c \in 0 .. Len(fromhost_queue) : Way(c)
  BY DEF Inv
<1>2. Way(c)'
  BY <1>1 DEF Way, Called, Placed, Reads, ReadCount, NobodyExited, hartVars
<1>. QED
  BY <1>2 DEF Inv, Types, Locks, NobodyExited, hartVars

(***************************************************************************)
(* Then the harts. The holder of the lock is the only one in a call.       *)
(***************************************************************************)
LEMMA HolderIs ==
  ASSUME Locks, NEW h \in Harts, NEW g \in Harts,
         pc[h] \notin {"run", "exited"},
         pc[g] \notin {"run", "exited"} \/ syscall_lock = {g}
  PROVE  g = h
<1>1. syscall_lock = {h} /\ syscall_lock = {g}
  BY DEF Locks
<1>. QED
  BY <1>1

LEMMA LockTaken ==
  ASSUME Inv, NEW h \in Harts, Lock(h)
  PROVE  Inv'
<1>1. PICK c \in 0 .. Len(fromhost_queue) : Way(c)
  BY DEF Inv
<1>2. /\ pc[h] = "run" /\ pc' = [pc EXCEPT ![h] = "locked"]
      /\ syscall_lock = {} /\ syscall_lock' = {h}
      /\ UNCHANGED <<tohost, fromhost, received, open, hostVars>>
  BY DEF Lock, Moves
<1>3. \A g \in Harts : pc[g] \in {"run", "exited"}
  BY <1>2 DEF Inv, Locks
<1>4. NobodyExited' <=> NobodyExited
  BY <1>2 DEF Inv, Types, NobodyExited
<1>5. ~Placed(c) /\ ~Placed(c)'
  BY <1>1, <1>2 DEF Way, Called, Placed, hostVars
<1>6. Called(c)'
  BY <1>2, <1>3, <1>5 DEF Inv, Types, Called, Placed, hostVars
<1>7. Reads(c)'
  BY <1>1, <1>2, <1>4 DEF Way, Reads, ReadCount, hostVars
<1>8. Locks'
  BY <1>2, <1>3, <1>4 DEF Inv, Types, Locks
<1>9. Types'
  BY <1>2 DEF Inv, Types, hostVars
<1>. QED
  BY <1>1, <1>2, <1>6, <1>7, <1>8, <1>9 DEF Inv, Way, hostVars

LEMMA CallMade ==
  ASSUME Inv, NEW h \in Harts, Call(h)
  PROVE  Inv'
<1>1. PICK c \in 0 .. Len(fromhost_queue) : Way(c)
  BY DEF Inv
<1>2. /\ pc[h] = "locked" /\ pc' = [pc EXCEPT ![h] = "waiting"]
      /\ tohost' \in Request
      /\ UNCHANGED <<fromhost, syscall_lock, received, open, hostVars>>
  BY DEF Call, Moves, Request
<1>3. syscall_lock = {h}
  BY <1>2 DEF Inv, Locks
<1>4. NobodyExited' <=> NobodyExited
  BY <1>2 DEF Inv, Types, NobodyExited
<1>5. pc'[h] = "waiting"
  BY <1>2 DEF Inv, Types
<1>6. ~Placed(c)
  BY <1>1, <1>2, <1>3 DEF Way, Called
<1>7. NobodyExited => tohost = Zero
  BY <1>2, HolderIs DEF Inv, Locks
<1>8. Called(c)'
  BY <1>2, <1>3, <1>5, <1>6 DEF Called, Placed, hostVars
<1>9. Reads(c)'
  <2>1. InTohost(tohost') = 0 /\ InTohost(tohost) \in {0, 1}
        /\ (NobodyExited => InTohost(tohost) = 0)
    BY <1>2, <1>7, Ones, TargetWords DEF InTohost
  <2>. DEFINE m == CharCount(fromhost_queue, fromhost, c)
              p == Len(pending_reads)
  <2>2. m \in Nat /\ p \in Nat /\ open \in Nat
    BY <1>1, LineTypes, LenProperties, Sizes DEF Way, Inv, Types
  <2>3. ReadCount(c) = InTohost(tohost) + p + m
        /\ ReadCount(c)' = InTohost(tohost') + p + m
    BY <1>2 DEF ReadCount, hostVars
  <2>4. ReadCount(c) <= open /\ (NobodyExited => ReadCount(c) = open)
    BY <1>1 DEF Way, Reads
  <2>. HIDE DEF m, p
  <2>5. ReadCount(c)' <= open /\ (NobodyExited => ReadCount(c)' = open)
    BY <2>1, <2>2, <2>3, <2>4
  <2>. QED
    BY <1>2, <1>4, <2>5 DEF Reads
<1>10. Locks'
  <2>1. tohost' \notin ExitWords
    BY <1>2, ExitWordNoRequest
  <2>2. \A g \in Harts : g # h => pc'[g] = pc[g]
    BY <1>2 DEF Inv, Types
  <2>. QED
    BY <1>2, <1>3, <1>5, <2>1, <2>2 DEF Inv, Locks
<1>11. Types'
  BY <1>2 DEF Inv, Types, hostVars
<1>. QED
  BY <1>1, <1>2, <1>8, <1>9, <1>10, <1>11 DEF Inv, Way, hostVars

LEMMA ConsoleUsed ==
  ASSUME Inv, NEW h \in Harts, UseConsole(h)
  PROVE  Inv'
<1>1. PICK c \in 0 .. Len(fromhost_queue) : Way(c)
  BY DEF Inv
<1>2. /\ pc[h] = "locked" /\ pc' = [pc EXCEPT ![h] = "posted"]
      /\ tohost = Zero
      /\ \/ tohost' \in Silent /\ open' = open
         \/ open < MaxReads /\ tohost' = BcdRead /\ open' = open + 1
      /\ UNCHANGED <<fromhost, syscall_lock, received, hostVars>>
  BY DEF UseConsole, Moves, Silent
<1>3. syscall_lock = {h}
  BY <1>2 DEF Inv, Locks
<1>4. NobodyExited' <=> NobodyExited
  BY <1>2 DEF Inv, Types, NobodyExited
<1>5. pc'[h] = "posted" /\ \A g \in Harts : g # h => pc'[g] = pc[g]
  BY <1>2 DEF Inv, Types
<1>6. ~Placed(c)
  BY <1>1, <1>2, <1>3 DEF Way, Called
<1>7. tohost' \notin Request /\ tohost' \notin ExitWords /\ ~Placed(c)'
  BY <1>2, <1>6, TargetWords DEF Placed, hostVars
<1>8. \A g \in Harts : pc'[g] # "waiting"
  BY <1>2, <1>5, HolderIs DEF Inv
<1>9. Called(c)'
  BY <1>7, <1>8 DEF Called
<1>10. Reads(c)'
  <2>. DEFINE m == CharCount(fromhost_queue, fromhost, c)
              p == Len(pending_reads)
  <2>1. m \in Nat /\ p \in Nat /\ open \in Nat
    BY <1>1, LineTypes, LenProperties, Sizes DEF Way, Inv, Types
  <2>2. ReadCount(c) = InTohost(tohost) + p + m
        /\ ReadCount(c)' = InTohost(tohost') + p + m
    BY <1>2 DEF ReadCount, hostVars
  <2>3. InTohost(tohost) = 0
        /\ InTohost(tohost') = IF tohost' = BcdRead THEN 1 ELSE 0
    BY <1>2, TargetWords DEF InTohost
  <2>4. ReadCount(c) <= open /\ (NobodyExited => ReadCount(c) = open)
    BY <1>1 DEF Way, Reads
  <2>. HIDE DEF m, p
  <2>5. CASE tohost' = BcdRead
    <3>1. open' = open + 1
      BY <1>2, <2>5, TargetWords
    <3>. QED
      BY <1>4, <2>1, <2>2, <2>3, <2>4, <2>5, <3>1 DEF Reads
  <2>6. CASE tohost' # BcdRead
    BY <1>2, <1>4, <2>1, <2>2, <2>3, <2>4, <2>6 DEF Reads
  <2>. QED
    BY <2>5, <2>6
<1>11. Locks'
  BY <1>2, <1>3, <1>5, <1>7 DEF Inv, Locks
<1>12. Types'
  BY <1>2, Sizes DEF Inv, Types, hostVars
<1>. QED
  BY <1>1, <1>2, <1>9, <1>10, <1>11, <1>12 DEF Inv, Way, hostVars

LEMMA AnswerIsTaken ==
  ASSUME Inv, NEW h \in Harts, TakeAnswer(h)
  PROVE  Inv'
<1>1. PICK c \in 0 .. Len(fromhost_queue) : Way(c)
  BY DEF Inv
<1>2. /\ pc[h] = "waiting" /\ pc' = [pc EXCEPT ![h] = "answered"]
      /\ fromhost # Zero /\ ~IsChar(fromhost) /\ fromhost' = Zero
      /\ UNCHANGED <<tohost, syscall_lock, received, open, hostVars>>
  BY DEF TakeAnswer, Moves
<1>3. fromhost \in Answer
  <2>1. received \in Int
    BY Sizes DEF Inv, Types
  <2>. QED
    BY <1>1, <1>2, <2>1, LineWords DEF Way, Line
<1>4. /\ c = 0 /\ Line(fromhost_queue, Zero, 0, received)
      /\ CharCount(fromhost_queue, Zero, 0) = CharCount(fromhost_queue, fromhost, c)
  BY <1>1, <1>3, AnswerTaken DEF Way, Inv, Types
<1>5. NobodyExited' <=> NobodyExited
  BY <1>2 DEF Inv, Types, NobodyExited
<1>6. pc'[h] = "answered" /\ \A g \in Harts : g # h => pc'[g] = pc[g]
  BY <1>2 DEF Inv, Types
<1>7. tohost \notin Request
  BY <1>1, <1>3 DEF Way, Called
<1>8. ~Placed(0)'
  BY <1>2, <1>7, LineWords DEF Placed
<1>9. \A g \in Harts : pc'[g] # "waiting"
  BY <1>2, <1>6, HolderIs DEF Inv
<1>10. Called(0)'
  BY <1>8, <1>9 DEF Called, Placed
<1>11. Reads(0)'
  BY <1>1, <1>2, <1>4, <1>5 DEF Way, Reads, ReadCount, hostVars
<1>12. Locks'
  <2>1. NobodyExited => tohost = Zero
    BY <1>2, <1>7, HolderIs DEF Inv, Locks
  <2>2. syscall_lock = {h}
    BY <1>2 DEF Inv, Locks
  <2>. QED
    BY <1>2, <1>5, <1>6, <2>1, <2>2, TargetWords DEF Inv, Locks
<1>13. Types'
  BY <1>2 DEF Inv, Types, hostVars
<1>14. 0 \in 0 .. Len(fromhost_queue)
  BY <1>4
<1>15. Way(0)'
  BY <1>1, <1>2, <1>4, <1>10, <1>11 DEF Way, hostVars
<1>. QED
  BY <1>2, <1>12, <1>13, <1>14, <1>15 DEF Inv, hostVars

LEMMA CharIsTaken ==
  ASSUME Inv, NEW h \in Harts, TakeChar(h)
  PROVE  Inv'
<1>1. PICK c \in 0 .. Len(fromhost_queue) : Way(c)
  BY DEF Inv
<1>2. /\ pc' = pc /\ IsChar(fromhost) /\ fromhost' = Zero
      /\ received' = (received + 1) % CharWrap /\ open' = open - 1
      /\ UNCHANGED <<tohost, syscall_lock, hostVars>>
  BY DEF TakeChar, Moves, Inv, Types
<1>3. /\ received \in 0 .. CharWrap - 1 /\ open \in 0 .. MaxReads
      /\ received + 1 \in 0 .. 2 * CharWrap - 1
  BY Sizes DEF Inv, Types
<1>4. received' = Rest(received + 1) /\ received' \in 0 .. CharWrap - 1
  BY <1>2, <1>3, RestIs
<1>. DEFINE m == CharCount(fromhost_queue, fromhost, c)
            n == CharCount(fromhost_queue, Zero, c)
            p == Len(pending_reads)
<1>5. m \in Nat /\ p \in Nat
  BY <1>1, LineTypes, LenProperties DEF Way, Inv, Types
<1>6. InTohost(tohost) \in {0, 1} /\ ReadCount(c) = InTohost(tohost) + p + m
  BY Ones DEF ReadCount
<1>7. ReadCount(c) <= open /\ (NobodyExited => ReadCount(c) = open)
  BY <1>1 DEF Way, Reads
<1>8. m <= MaxReads /\ m <= open
  <2>. HIDE DEF m, p
  <2>. QED
    BY <1>3, <1>5, <1>6, <1>7, Sizes
<1>9. /\ Line(fromhost_queue, Zero, c, Rest(received + 1))
      /\ n = m - 1 /\ m >= 1
      /\ Rest(Rest(received + 1) + n) = Rest(received + m)
  BY <1>1, <1>2, <1>3, <1>8, CharTaken DEF Way
<1>10. ReadCount(c)' = ReadCount(c) - 1
  <2>1. ReadCount(c)' = InTohost(tohost) + p + n
    BY <1>2 DEF ReadCount, hostVars
  <2>. HIDE DEF m, n, p
  <2>. QED
    BY <1>5, <1>6, <1>9, <2>1
<1>11. Reads(c)'
  <2>1. ReadCount(c) \in Int
    <3>. HIDE DEF m, p
    <3>. QED
      BY <1>5, <1>6
  <2>2. NobodyExited' <=> NobodyExited
    BY <1>2 DEF NobodyExited
  <2>. QED
    BY <1>2, <1>3, <1>7, <1>10, <2>1, <2>2 DEF Reads
<1>12. fromhost \notin Answer
  BY <1>2, LineWords
<1>13. Called(c)'
  BY <1>1, <1>2, <1>12, LineWords DEF Way, Called, Placed, NobodyExited,
     hostVars
<1>14. typed' = Rest(received' + CharCount(fromhost_queue', fromhost', c))
  BY <1>1, <1>2, <1>4, <1>9 DEF Way, hostVars
<1>15. Way(c)'
  BY <1>2, <1>4, <1>9, <1>11, <1>13, <1>14 DEF Way, hostVars
<1>16. Locks'
  BY <1>2 DEF Inv, Locks, NobodyExited
<1>17. Types'
  <2>1. open' \in 0 .. MaxReads
    <3>. HIDE DEF m
    <3>. QED
      BY <1>2, <1>3, <1>5, <1>8, <1>9, Sizes
  <2>. QED
    BY <1>2, <1>4, <2>1 DEF Inv, Types, hostVars
<1>. QED
  BY <1>2, <1>15, <1>16, <1>17 DEF Inv, hostVars

LEMMA LockReleased ==
  ASSUME Inv, NEW h \in Harts, Unlock(h)
  PROVE  Inv'
<1>1. PICK c \in 0 .. Len(fromhost_queue) : Way(c)
  BY DEF Inv
<1>2. /\ pc[h] = "answered" \/ (pc[h] = "posted" /\ tohost = Zero)
      /\ pc' = [pc EXCEPT ![h] = "run"] /\ syscall_lock' = {}
      /\ UNCHANGED <<tohost, fromhost, received, open, hostVars>>
  BY DEF Unlock, Moves
<1>3. syscall_lock = {h}
  BY <1>2 DEF Inv, Locks
<1>4. NobodyExited' <=> NobodyExited
  BY <1>2 DEF Inv, Types, NobodyExited
<1>5. pc'[h] = "run" /\ \A g \in Harts : g # h => pc'[g] = pc[g]
  BY <1>2 DEF Inv, Types
<1>6. \A g \in Harts : pc'[g] \in {"run", "exited"}
  BY <1>2, <1>5, HolderIs DEF Inv
<1>7. ~Placed(c) /\ ~Placed(c)'
  BY <1>1, <1>2, <1>3 DEF Way, Called, Placed, hostVars
<1>8. NobodyExited => tohost = Zero
  BY <1>2, HolderIs DEF Inv, Locks
<1>9. Called(c)'
  BY <1>6, <1>7 DEF Called, Placed
<1>10. Reads(c)'
  BY <1>1, <1>2, <1>4 DEF Way, Reads, ReadCount, hostVars
<1>11. Locks'
  BY <1>2, <1>4, <1>6, <1>8, TargetWords DEF Inv, Locks
<1>12. Types'
  BY <1>2 DEF Inv, Types, hostVars
<1>. QED
  BY <1>1, <1>2, <1>9, <1>10, <1>11, <1>12 DEF Inv, Way, hostVars

\* The end of a program may overwrite a word: counts only get less.
LEMMA ProgramEnds ==
  ASSUME Inv, NEW h \in Harts, tohost_exit(h)
  PROVE  Inv'
<1>1. PICK c \in 0 .. Len(fromhost_queue) : Way(c)
  BY DEF Inv
<1>2. /\ pc' = [pc EXCEPT ![h] = "exited"] /\ tohost' \in ExitWords
      /\ UNCHANGED <<fromhost, hostVars, syscall_lock, received, open>>
  BY DEF tohost_exit, ExitWords
<1>3. pc'[h] = "exited" /\ \A g \in Harts : g # h => pc'[g] = pc[g]
  BY <1>2 DEF Inv, Types
<1>4. ~NobodyExited'
  BY <1>3 DEF NobodyExited
<1>5. tohost' \notin Request /\ InTohost(tohost') = 0
  BY <1>2, ExitWordNoRequest DEF InTohost
<1>6. Placed(c)' => Placed(c)
  BY <1>2, <1>5 DEF Placed, hostVars
<1>7. Called(c)'
  BY <1>1, <1>2, <1>3, <1>4, <1>5, <1>6 DEF Way, Called
<1>8. Reads(c)'
  <2>. DEFINE m == CharCount(fromhost_queue, fromhost, c)
              p == Len(pending_reads)
  <2>1. m \in Nat /\ p \in Nat /\ open \in Nat
    BY <1>1, LineTypes, LenProperties, Sizes DEF Way, Inv, Types
  <2>2. ReadCount(c) = InTohost(tohost) + p + m
        /\ ReadCount(c)' = InTohost(tohost') + p + m
        /\ InTohost(tohost) \in {0, 1}
    BY <1>2, Ones DEF ReadCount, hostVars
  <2>3. ReadCount(c) <= open
    BY <1>1 DEF Way, Reads
  <2>. HIDE DEF m, p
  <2>4. ReadCount(c)' <= open
    BY <1>5, <2>1, <2>2, <2>3
  <2>. QED
    BY <1>2, <1>4, <2>4 DEF Reads
<1>9. Locks'
  BY <1>2, <1>3, <1>4 DEF Inv, Locks
<1>10. Types'
  BY <1>2 DEF Inv, Types, hostVars
<1>. QED
  BY <1>1, <1>2, <1>7, <1>8, <1>9, <1>10 DEF Inv, Way, hostVars

LEMMA Begins ==
  ASSUME Init
  PROVE  Inv
<1>1. /\ tohost = Zero /\ fromhost = Zero /\ fromhost_queue = <<>>
      /\ pending_reads = <<>> /\ exitcode = 0 /\ typed = 0
      /\ pc = [h \in Harts |-> "run"] /\ syscall_lock = {}
      /\ received = 0 /\ open = 0
  BY DEF Init
<1>2. InBox(Zero) = 0 /\ NotChar(0) = 0 /\ InTohost(Zero) = 0
  BY LineWords, TargetWords DEF InBox, NotChar, InTohost
<1>3. /\ Len(fromhost_queue) = 0 /\ fromhost_queue \in Seq(LineWord)
      /\ Len(pending_reads) = 0 /\ pending_reads \in Seq({BcdRead})
  BY <1>1, EmptySeq
<1>4. CharCount(fromhost_queue, fromhost, 0) = 0
  BY <1>1, <1>2, <1>3 DEF CharCount
<1>5. Line(fromhost_queue, fromhost, 0, received)
  BY <1>1, <1>3 DEF Line, LineWord
<1>6. typed = Rest(received + CharCount(fromhost_queue, fromhost, 0))
  BY <1>1, <1>4, Sizes DEF Rest
<1>7. ~Placed(0)
  BY <1>1, LineWords, TargetWords DEF Placed
<1>8. Called(0)
  BY <1>1, <1>7 DEF Called, Placed
<1>9. Reads(0)
  BY <1>1, <1>2, <1>3, <1>4 DEF Reads, ReadCount
<1>10. Types
  BY <1>1, <1>3, Sizes DEF Types
<1>11. Locks
  BY <1>1, TargetWords DEF Locks
<1>. QED
  BY <1>3, <1>5, <1>6, <1>8, <1>9, <1>10, <1>11 DEF Inv, Way

LEMMA StepKeeps ==
  ASSUME Inv, [Next]_vars
  PROVE  Inv'
<1>1. CASE HandleCommand
  BY <1>1, CommandHandled
<1>2. CASE EndIdle
  BY <1>2, IdleEnds
<1>3. CASE BeginIdle \/ Stop \/ Signal \/ Done \/ UNCHANGED vars
  BY <1>3, NothingMoves DEF BeginIdle, Stop, Signal, Done, vars, hostVars
<1>4. ASSUME NEW h \in Harts, HartStep(h) PROVE Inv'
  BY <1>4, LockTaken, CallMade, ConsoleUsed, AnswerIsTaken, CharIsTaken,
     LockReleased, ProgramEnds DEF HartStep, Syscalls
<1>. QED
  BY <1>1, <1>2, <1>3, <1>4 DEF Next, Host

LEMMA Invariant == Spec => []Inv
BY Begins, StepKeeps, PTL DEF Spec

----------------------------------------------------------------------------
(***************************************************************************)
(* What follows from it.                                                   *)
(***************************************************************************)
LEMMA Bounds ==
  ASSUME Types, NEW c, Way(c)
  PROVE  /\ InTohost(tohost) + Len(pending_reads)
              + CharCount(fromhost_queue, fromhost, c) = ReadCount(c)
         /\ ReadCount(c) <= MaxReads
         /\ Len(pending_reads) \in 0 .. MaxReads
         /\ CharCount(fromhost_queue, fromhost, c) \in 0 .. MaxReads
         /\ received + CharCount(fromhost_queue, fromhost, c)
              \in 0 .. 2 * CharWrap - 1
<1>. DEFINE m == CharCount(fromhost_queue, fromhost, c)
            p == Len(pending_reads)
<1>1. m \in Nat /\ p \in Nat /\ open \in 0 .. MaxReads
      /\ received \in 0 .. CharWrap - 1
  BY LineTypes, LenProperties DEF Way, Types
<1>2. InTohost(tohost) \in {0, 1} /\ ReadCount(c) = InTohost(tohost) + p + m
  BY Ones DEF ReadCount
<1>3. ReadCount(c) <= open
  BY DEF Way, Reads
<1>. HIDE DEF m, p
<1>4. p \in 0 .. MaxReads /\ m \in 0 .. MaxReads /\ ReadCount(c) <= MaxReads
  BY <1>1, <1>2, <1>3, Sizes
<1>5. received + m \in 0 .. 2 * CharWrap - 1
  BY <1>1, <1>4, Sizes
<1>. QED
  BY <1>2, <1>4, <1>5 DEF m, p

LEMMA Typed ==
  ASSUME Inv
  PROVE  HtifTypeOK
<1>1. PICK c \in 0 .. Len(fromhost_queue) : Way(c)
  BY DEF Inv
<1>. DEFINE Records == [device : {Syscall, Bcd, Absent}, cmd : {0, 1, Identify},
                        payload : Nat]
<1>2. tohost \in Records
  <2>1. {Zero, BcdRead} \cup Silent \subseteq Records
    BY DEF Zero, BcdRead, Silent, BcdWrite, Word, Syscall, Bcd, Absent, Identify
  <2>2. Request \cup ExitWords \subseteq Records
    BY HtifAssumption DEF Request, ExitWords, ExitWord, SysExit, OtherCall, Word,
       Syscall, Bcd, Absent, Identify
  <2>. QED
    BY <2>1, <2>2 DEF Inv, Types
<1>3. fromhost \in Records
  <2>1. fromhost \in {Zero, CharWord(received)} \cup Answer
    BY <1>1 DEF Way, Line
  <2>2. Rest(received) \in Nat
    BY Sizes DEF Inv, Types, Rest
  <2>. QED
    BY <2>1, <2>2 DEF Answer, Zero, CharWord, Word, Syscall, Bcd, Absent, Identify
<1>4. Len(fromhost_queue) <= MaxReads + 1 /\ Len(pending_reads) <= MaxReads
  <2>1. CharCount(fromhost_queue, fromhost, c) \in 0 .. MaxReads
        /\ Len(pending_reads) \in 0 .. MaxReads
    BY <1>1, Bounds DEF Inv
  <2>2. InBox(fromhost) \in {0, 1} /\ NotChar(c) \in {0, 1}
        /\ Len(fromhost_queue) \in Nat
    BY <1>1, Ones, LineTypes DEF Way
  <2>. QED
    BY <2>1, <2>2, Sizes DEF CharCount
<1>. QED
  BY <1>2, <1>3, <1>4 DEF HtifTypeOK, Inv, Types

(***************************************************************************)
(* The mailboxes and queues hold words of the interface, and the queues    *)
(* stay as short as the reads that the program may leave open allow.       *)
(***************************************************************************)
THEOREM Typing == Spec => []HtifTypeOK
BY Invariant, Typed, PTL

(***************************************************************************)
(* Places in a sequence of words are counted by leaving some out.          *)
(***************************************************************************)
LEMMA LeftOut ==
  ASSUME NEW S, IsFiniteSet(S), NEW T, NEW x, NEW k,
         (T = S /\ k = 0) \/ (T = S \ {x} /\ x \in S /\ k = 1)
  PROVE  IsFiniteSet(T) /\ Cardinality(T) = Cardinality(S) - k
<1>1. Cardinality(S) \in Nat
  BY FS_CardinalityType
<1>. QED
  BY <1>1, FS_RemoveElement

LEMMA Places ==
  ASSUME NEW n \in Nat
  PROVE  IsFiniteSet(1 .. n) /\ Cardinality(1 .. n) = n
BY FS_Interval

LEMMA Around ==
  ASSUME NEW W, NEW a \in W, NEW s \in Seq(W), NEW t \in Seq(W), NEW b \in W
  PROVE  LET u == <<a>> \o s \o t \o <<b>>
             p == Len(s)
             q == Len(t)
         IN /\ DOMAIN u = 1 .. p + q + 2
            /\ u[1] = a /\ u[p + q + 2] = b
            /\ \A i \in 1 .. p : u[1 + i] = s[i]
            /\ \A i \in 1 .. q : u[1 + p + i] = t[i]
OBVIOUS

LEMMA OnItsWayIs ==
  ASSUME Types, NEW c, Way(c)
  PROVE  LET p == Len(pending_reads)
             q == Len(fromhost_queue)
         IN /\ p \in Nat /\ q \in Nat
            /\ DOMAIN OnItsWay = 1 .. p + q + 2
            /\ OnItsWay[1] = tohost /\ OnItsWay[p + q + 2] = fromhost
            /\ \A i \in 1 .. p : OnItsWay[1 + i] = BcdRead
            /\ \A i \in 1 .. q : OnItsWay[1 + p + i] = fromhost_queue[i]
<1>. DEFINE W == LineWord \cup {BcdRead, tohost, fromhost}
<1>1. pending_reads \in Seq({BcdRead}) /\ fromhost_queue \in Seq(LineWord)
  BY LineTypes DEF Types, Way
<1>2. /\ pending_reads \in Seq(W) /\ fromhost_queue \in Seq(W)
      /\ tohost \in W /\ fromhost \in W
      /\ \A i \in 1 .. Len(pending_reads) : pending_reads[i] = BcdRead
      /\ Len(pending_reads) \in Nat /\ Len(fromhost_queue) \in Nat
  BY <1>1, LenProperties
<1>. HIDE DEF W
<1>. QED
  BY <1>2, Around DEF OnItsWay

\* Every place is one of these.
LEMMA PlacesAre ==
  ASSUME NEW p \in Nat, NEW q \in Nat, NEW i \in 1 .. p + q + 2
  PROVE  \/ i = 1 \/ i = p + q + 2
         \/ \E j \in 1 .. p : i = 1 + j
         \/ \E j \in 1 .. q : i = 1 + p + j
<1>1. CASE i \in 2 .. 1 + p
  <2>1. i - 1 \in 1 .. p /\ i = 1 + (i - 1)
    BY <1>1
  <2>. QED
    BY <2>1
<1>2. CASE i \in 2 + p .. 1 + p + q
  <2>1. i - (1 + p) \in 1 .. q /\ i = 1 + p + (i - (1 + p))
    BY <1>2
  <2>. QED
    BY <2>1
<1>. QED
  BY <1>1, <1>2

LEMMA WordsAre ==
  ASSUME Types, NEW c, Way(c)
  PROVE  /\ (tohost \in ExitWords \/ (IsCall(tohost) <=> tohost \in Request))
         /\ IsRead(tohost) <=> tohost = BcdRead
         /\ IsCall(fromhost) <=> fromhost \in Answer
         /\ IsRead(fromhost) <=> IsChar(fromhost)
         /\ \A i \in 1 .. Len(fromhost_queue) :
              /\ IsCall(fromhost_queue[i]) <=> i = c
              /\ IsRead(fromhost_queue[i]) <=> i # c
              /\ IsChar(fromhost_queue[i]) <=> i # c
<1>1. received \in Int /\ c \in Int
  BY Sizes, LineTypes DEF Types, Way
<1>2. /\ (tohost \in ExitWords \/ (IsCall(tohost) <=> tohost \in Request))
      /\ IsRead(tohost) <=> tohost = BcdRead
  BY LineWords, TargetWords DEF Types
<1>3. /\ IsCall(fromhost) <=> fromhost \in Answer
      /\ IsRead(fromhost) <=> IsChar(fromhost)
  BY <1>1, LineWords DEF Way, Line
<1>4. ASSUME NEW i \in 1 .. Len(fromhost_queue)
      PROVE  /\ IsCall(fromhost_queue[i]) <=> i = c
             /\ IsRead(fromhost_queue[i]) <=> i # c
             /\ IsChar(fromhost_queue[i]) <=> i # c
  <2>1. received + InBox(fromhost) + Rank(c, i) \in Int
    BY <1>1, Ones DEF Rank
  <2>. QED
    BY <2>1, LineWords DEF Way, Line
<1>. QED
  BY <1>2, <1>3, <1>4

\* A call that is placed is in one place, and its hart is the one that waits.
LEMMA CallsCounted ==
  ASSUME Inv, NobodyExited
  PROVE  Cardinality({h \in Harts : pc[h] = "waiting"})
           = Cardinality({i \in DOMAIN OnItsWay : IsCall(OnItsWay[i])})
<1>1. PICK c \in 0 .. Len(fromhost_queue) : Way(c)
  BY DEF Inv
<1>. DEFINE Waiting == {h \in Harts : pc[h] = "waiting"}
            Calls == {i \in DOMAIN OnItsWay : IsCall(OnItsWay[i])}
<1>2. PICK p : p = Len(pending_reads)
  OBVIOUS
<1>3. PICK q : q = Len(fromhost_queue)
  OBVIOUS
<1>4. /\ p \in Nat /\ q \in Nat /\ c \in 0 .. q
      /\ DOMAIN OnItsWay = 1 .. p + q + 2
      /\ OnItsWay[1] = tohost /\ OnItsWay[p + q + 2] = fromhost
      /\ \A i \in 1 .. p : OnItsWay[1 + i] = BcdRead
      /\ \A i \in 1 .. q : OnItsWay[1 + p + i] = fromhost_queue[i]
  BY <1>1, <1>2, <1>3, OnItsWayIs DEF Inv
<1>5. /\ IsCall(tohost) <=> tohost \in Request
      /\ IsCall(fromhost) <=> fromhost \in Answer
      /\ \A i \in 1 .. q : IsCall(fromhost_queue[i]) <=> i = c
      /\ ~IsCall(BcdRead)
  BY <1>1, <1>3, WordsAre, TargetWords DEF Inv, Locks
<1>6. ASSUME NEW i \in 1 .. p + q + 2
      PROVE  IsCall(OnItsWay[i]) <=> \/ i = 1 /\ tohost \in Request
                                     \/ i = p + q + 2 /\ fromhost \in Answer
                                     \/ c # 0 /\ i = 1 + p + c
  <2>1. CASE i = 1
    BY <1>4, <1>5, <2>1
  <2>2. CASE i = p + q + 2
    BY <1>4, <1>5, <2>2
  <2>3. CASE \E j \in 1 .. p : i = 1 + j
    BY <1>4, <1>5, <2>3
  <2>4. CASE \E j \in 1 .. q : i = 1 + p + j
    <3>0. PICK j \in 1 .. q : i = 1 + p + j
      BY <2>4
    <3>1. j = c <=> i = 1 + p + c
      BY <1>4, <3>0
    <3>2. i # 1 /\ i # p + q + 2 /\ j # 0
      BY <1>4, <3>0
    <3>. QED
      BY <1>4, <1>5, <3>0, <3>1, <3>2
  <2>. QED
    BY <1>4, <2>1, <2>2, <2>3, <2>4, PlacesAre
<1>7. Calls = {i \in 1 .. p + q + 2 : \/ i = 1 /\ tohost \in Request
                                      \/ i = p + q + 2 /\ fromhost \in Answer
                                      \/ c # 0 /\ i = 1 + p + c}
  BY <1>4, <1>6
<1>8. /\ ~(tohost \in Request /\ (c # 0 \/ fromhost \in Answer))
      /\ ~(c # 0 /\ fromhost \in Answer)
  BY <1>1 DEF Way, Called, Line
<1>9. CASE Placed(c)
  <2>1. \E i : Calls = {i}
    <3>1. 1 \in 1 .. p + q + 2 /\ p + q + 2 \in 1 .. p + q + 2
          /\ (c # 0 => 1 + p + c \in 1 .. p + q + 2)
      BY <1>4
    <3>2. CASE tohost \in Request
      BY <1>7, <1>8, <3>1, <3>2
    <3>3. CASE fromhost \in Answer
      BY <1>7, <1>8, <3>1, <3>3
    <3>4. CASE c # 0
      BY <1>7, <1>8, <3>1, <3>4
    <3>. QED
      BY <1>9, <3>2, <3>3, <3>4 DEF Placed
  <2>2. \E h : Waiting = {h}
    <3>1. PICK h \in Harts : syscall_lock = {h} /\ pc[h] = "waiting"
      BY <1>1, <1>9 DEF Way, Called, NobodyExited
    <3>2. \A g \in Harts : pc[g] = "waiting" => g = h
      BY <3>1, HolderIs DEF Inv
    <3>. QED
      BY <3>1, <3>2
  <2>. QED
    BY <2>1, <2>2, FS_Singleton
<1>10. CASE ~Placed(c)
  <2>1. Calls = {}
    BY <1>7, <1>10 DEF Placed
  <2>2. Waiting = {}
    BY <1>1, <1>10 DEF Way, Called
  <2>. QED
    BY <2>1, <2>2
<1>. QED
  BY <1>9, <1>10

\* Of all places, those that hold no read are tohost, fromhost and the one
\* of the answer, each unless a read is there.
LEMMA ReadsCounted ==
  ASSUME Inv, NEW c, Way(c)
  PROVE  Cardinality({i \in DOMAIN OnItsWay : IsRead(OnItsWay[i])})
           = ReadCount(c)
<1>. DEFINE Read == {i \in DOMAIN OnItsWay : IsRead(OnItsWay[i])}
<1>2. PICK p : p = Len(pending_reads)
  OBVIOUS
<1>3. PICK q : q = Len(fromhost_queue)
  OBVIOUS
<1>4. /\ p \in Nat /\ q \in Nat /\ c \in 0 .. q
      /\ DOMAIN OnItsWay = 1 .. p + q + 2
      /\ OnItsWay[1] = tohost /\ OnItsWay[p + q + 2] = fromhost
      /\ \A i \in 1 .. p : OnItsWay[1 + i] = BcdRead
      /\ \A i \in 1 .. q : OnItsWay[1 + p + i] = fromhost_queue[i]
  BY <1>2, <1>3, OnItsWayIs, LineTypes DEF Inv, Way
<1>5. /\ IsRead(tohost) <=> tohost = BcdRead
      /\ IsRead(fromhost) <=> IsChar(fromhost)
      /\ \A i \in 1 .. q : IsRead(fromhost_queue[i]) <=> i # c
      /\ IsRead(BcdRead)
  BY <1>3, WordsAre, TargetWords DEF Inv
<1>6. ASSUME NEW i \in 1 .. p + q + 2
      PROVE  IsRead(OnItsWay[i]) <=> ~ \/ i = 1 /\ tohost # BcdRead
                                       \/ c # 0 /\ i = 1 + p + c
                                       \/ i = p + q + 2 /\ ~IsChar(fromhost)
  <2>1. CASE i = 1
    <3>1. i # p + q + 2 /\ ~(c # 0 /\ i = 1 + p + c)
      BY <1>4, <2>1
    <3>. QED
      BY <1>4, <1>5, <2>1, <3>1
  <2>2. CASE i = p + q + 2
    <3>1. i # 1 /\ ~(c # 0 /\ i = 1 + p + c)
      BY <1>4, <2>2
    <3>. QED
      BY <1>4, <1>5, <2>2, <3>1
  <2>3. CASE \E j \in 1 .. p : i = 1 + j
    <3>0. PICK j \in 1 .. p : i = 1 + j
      BY <2>3
    <3>1. i # 1 /\ i # p + q + 2 /\ ~(c # 0 /\ i = 1 + p + c)
      BY <1>4, <3>0
    <3>. QED
      BY <1>4, <1>5, <3>0, <3>1
  <2>4. CASE \E j \in 1 .. q : i = 1 + p + j
    <3>0. PICK j \in 1 .. q : i = 1 + p + j
      BY <2>4
    <3>1. j = c <=> i = 1 + p + c
      BY <1>4, <3>0
    <3>2. i # 1 /\ i # p + q + 2 /\ j # 0
      BY <1>4, <3>0
    <3>. QED
      BY <1>4, <1>5, <3>0, <3>1, <3>2
  <2>. QED
    BY <1>4, <2>1, <2>2, <2>3, <2>4, PlacesAre
<1>. DEFINE A == 1 .. p + q + 2
            B == IF tohost = BcdRead THEN A ELSE A \ {1}
            C == IF c = 0 THEN B ELSE B \ {1 + p + c}
            D == IF IsChar(fromhost) THEN C ELSE C \ {p + q + 2}
<1>7. Read = D
  <2>1. \A i : i \in Read <=> i \in A /\ IsRead(OnItsWay[i])
    BY <1>4
  <2>2. \A i : i \in D <=> i \in A /\ ~ \/ i = 1 /\ tohost # BcdRead
                                        \/ c # 0 /\ i = 1 + p + c
                                        \/ i = p + q + 2 /\ ~IsChar(fromhost)
    OBVIOUS
  <2>. QED
    BY <1>6, <2>1, <2>2
<1>8. IsFiniteSet(A) /\ Cardinality(A) = p + q + 2
  BY <1>4, Places
<1>9. /\ 1 \in A
      /\ c # 0 => 1 + p + c \in A /\ 1 + p + c # 1
      /\ p + q + 2 \in A /\ p + q + 2 # 1
      /\ p + q + 2 # 1 + p + c
  BY <1>4
<1>10. IsFiniteSet(B) /\ Cardinality(B) = Cardinality(A) - (1 - InTohost(tohost))
  <2>1. \/ B = A /\ 1 - InTohost(tohost) = 0
        \/ B = A \ {1} /\ 1 \in A /\ 1 - InTohost(tohost) = 1
    BY <1>9 DEF InTohost
  <2>. HIDE DEF A, B
  <2>. QED
    BY <1>8, <2>1, LeftOut
<1>11. IsFiniteSet(C) /\ Cardinality(C) = Cardinality(B) - NotChar(c)
  <2>1. \/ C = B /\ NotChar(c) = 0
        \/ C = B \ {1 + p + c} /\ 1 + p + c \in B /\ NotChar(c) = 1
    BY <1>9 DEF NotChar
  <2>. HIDE DEF B, C
  <2>. QED
    BY <1>10, <2>1, LeftOut
<1>12. Cardinality(D) = Cardinality(C) - (1 - InBox(fromhost))
  <2>1. \/ D = C /\ 1 - InBox(fromhost) = 0
        \/ /\ D = C \ {p + q + 2} /\ p + q + 2 \in C
           /\ 1 - InBox(fromhost) = 1
    BY <1>9 DEF InBox
  <2>. HIDE DEF C, D
  <2>. QED
    BY <1>11, <2>1, LeftOut
<1>. HIDE DEF A, B, C, D
<1>13. /\ InTohost(tohost) \in {0, 1} /\ NotChar(c) \in {0, 1}
       /\ InBox(fromhost) \in {0, 1}
  BY Ones
<1>14. Cardinality(D)
         = InTohost(tohost) + p + (InBox(fromhost) + (q - NotChar(c)))
  BY <1>4, <1>8, <1>10, <1>11, <1>12, <1>13
<1>. QED
  BY <1>2, <1>3, <1>7, <1>14 DEF ReadCount, CharCount

(***************************************************************************)
(* A mailbox holds one word and the host puts only one into fromhost at a  *)
(* time, while commands, reads of the console and answers overlap: still   *)
(* every call that a hart waits for and every open read is in exactly one  *)
(* place, so none is lost in a full mailbox and none is answered twice.    *)
(***************************************************************************)
THEOREM NoneIsLost == Spec => []NothingLostOrRepeated
<1>1. Inv => NothingLostOrRepeated
  <2>. SUFFICES ASSUME Inv, NobodyExited
                PROVE  /\ Cardinality({h \in Harts : pc[h] = "waiting"})
                            = Cardinality({i \in DOMAIN OnItsWay :
                                             IsCall(OnItsWay[i])})
                       /\ open = Cardinality({i \in DOMAIN OnItsWay :
                                                IsRead(OnItsWay[i])})
    BY DEF NothingLostOrRepeated
  <2>1. PICK c \in 0 .. Len(fromhost_queue) : Way(c)
    BY DEF Inv
  <2>2. ReadCount(c) = open
    BY <2>1 DEF Way, Reads
  <2>. QED
    BY <2>1, <2>2, CallsCounted, ReadsCounted
<1>. QED
  BY <1>1, Invariant, PTL

(***************************************************************************)
(* Characters on their way.                                                *)
(***************************************************************************)
LEMMA Preceded ==
  ASSUME NEW W, NEW a \in W, NEW s \in Seq(W)
  PROVE  LET u == <<a>> \o s
         IN /\ Len(u) = Len(s) + 1 /\ DOMAIN u = 1 .. Len(s) + 1 /\ u[1] = a
            /\ \A i \in 1 .. Len(s) : u[i + 1] = s[i]
OBVIOUS

\* The characters before a place: all words but an answer or an empty
\* mailbox.
LEMMA CharsAre ==
  ASSUME Inv, NEW c, Way(c), NEW k \in 1 .. Len(fromhost_queue) + 1
  PROVE  CharsBefore(k + 1) = InBox(fromhost) + Rank(c, k)
<1>. DEFINE Before == {j \in 1 .. (k + 1) - 1 : IsChar(ToTarget[j])}
<1>1. PICK q : q = Len(fromhost_queue)
  OBVIOUS
<1>2. /\ q \in Nat /\ c \in 0 .. q /\ k \in 1 .. q + 1
      /\ fromhost_queue \in Seq(LineWord)
  BY <1>1, LineTypes DEF Way
<1>3. /\ ToTarget[1] = fromhost
      /\ \A i \in 1 .. q : ToTarget[i + 1] = fromhost_queue[i]
  <2>. DEFINE W == LineWord \cup {fromhost}
  <2>1. fromhost_queue \in Seq(W) /\ fromhost \in W
    BY <1>2
  <2>. HIDE DEF W
  <2>. QED
    BY <1>1, <2>1, Preceded DEF ToTarget
<1>4. \A i \in 1 .. q : IsChar(fromhost_queue[i]) <=> i # c
  BY <1>1, WordsAre DEF Inv
<1>. DEFINE A == 1 .. k
            B == IF IsChar(fromhost) THEN A ELSE A \ {1}
            C == IF 0 < c /\ c < k THEN B \ {c + 1} ELSE B
<1>5. Before = C
  <2>1. ASSUME NEW i \in 1 .. k
        PROVE  IsChar(ToTarget[i]) <=> ~ \/ i = 1 /\ ~IsChar(fromhost)
                                         \/ 0 < c /\ c < k /\ i = c + 1
    <3>1. CASE i = 1
      <4>1. ~(0 < c /\ i = c + 1)
        BY <1>2, <3>1
      <4>. QED
        BY <1>3, <3>1, <4>1
    <3>2. CASE i # 1
      <4>1. i - 1 \in 1 .. q /\ (i - 1) + 1 = i
        BY <1>2, <3>2
      <4>2. i - 1 = c <=> (0 < c /\ c < k /\ i = c + 1)
        BY <1>2, <3>2
      <4>3. IsChar(ToTarget[i]) <=> i - 1 # c
        BY <1>3, <1>4, <4>1
      <4>. QED
        BY <3>2, <4>2, <4>3
    <3>. QED
      BY <3>1, <3>2
  <2>2. (k + 1) - 1 = k
    BY <1>2
  <2>3. \A i : i \in Before <=> i \in 1 .. k /\ IsChar(ToTarget[i])
    BY <2>2
  <2>4. \A i : i \in C <=> i \in 1 .. k /\ ~ \/ i = 1 /\ ~IsChar(fromhost)
                                             \/ 0 < c /\ c < k /\ i = c + 1
    OBVIOUS
  <2>. QED
    BY <2>1, <2>3, <2>4
<1>6. IsFiniteSet(A) /\ Cardinality(A) = k
  BY <1>2, Places
<1>7. 1 \in A /\ (0 < c /\ c < k => c + 1 \in A /\ c + 1 # 1)
  BY <1>2
<1>8. IsFiniteSet(B) /\ Cardinality(B) = Cardinality(A) - (1 - InBox(fromhost))
  <2>1. \/ B = A /\ 1 - InBox(fromhost) = 0
        \/ B = A \ {1} /\ 1 \in A /\ 1 - InBox(fromhost) = 1
    BY <1>7 DEF InBox
  <2>. HIDE DEF A, B
  <2>. QED
    BY <1>6, <2>1, LeftOut
<1>9. Cardinality(C) = Cardinality(B) - IF 0 < c /\ c < k THEN 1 ELSE 0
  <2>1. CASE 0 < c /\ c < k
    <3>1. C = B \ {c + 1} /\ c + 1 \in B
      BY <1>7, <2>1
    <3>. HIDE DEF B, C
    <3>. QED
      BY <1>8, <2>1, <3>1, FS_RemoveElement
  <2>2. CASE ~(0 < c /\ c < k)
    <3>1. C = B
      BY <2>2
    <3>. HIDE DEF B, C
    <3>2. Cardinality(B) \in Int
      BY <1>8, FS_CardinalityType
    <3>. QED
      BY <2>2, <3>1, <3>2
  <2>. QED
    BY <2>1, <2>2
<1>. HIDE DEF A, B, C
<1>10. Cardinality(C) = InBox(fromhost) + Rank(c, k)
  BY <1>2, <1>6, <1>8, <1>9, Ones DEF Rank
<1>. QED
  BY <1>5, <1>10 DEF CharsBefore

(***************************************************************************)
(* Reads and calls share tohost, and their answers one queue and one       *)
(* mailbox: still characters reach the target in the order in which they   *)
(* were typed, each once, also after an end of a program.                  *)
(***************************************************************************)
THEOREM TypedIsReceived == Spec => []CharsInOrder
<1>1. ASSUME Inv PROVE CharsInOrder
  <2>1. PICK c \in 0 .. Len(fromhost_queue) : Way(c)
    BY <1>1 DEF Inv
  <2>2. PICK q : q = Len(fromhost_queue)
    OBVIOUS
  <2>3. PICK m : m = CharCount(fromhost_queue, fromhost, c)
    OBVIOUS
  <2>4. /\ q \in Nat /\ c \in 0 .. q /\ m \in 0 .. MaxReads
        /\ received \in 0 .. CharWrap - 1 /\ InBox(fromhost) \in {0, 1}
        /\ fromhost_queue \in Seq(LineWord)
    BY <1>1, <2>1, <2>2, <2>3, LineTypes, Bounds, Ones DEF Way, Inv, Types
  <2>5. /\ Len(ToTarget) = q + 1 /\ DOMAIN ToTarget = 1 .. q + 1
        /\ ToTarget[1] = fromhost
        /\ \A i \in 1 .. q : ToTarget[i + 1] = fromhost_queue[i]
    <3>. DEFINE W == LineWord \cup {fromhost}
    <3>1. fromhost_queue \in Seq(W) /\ fromhost \in W
      BY <2>4
    <3>. HIDE DEF W
    <3>. QED
      BY <2>2, <3>1, Preceded DEF ToTarget
  <2>6. m = InBox(fromhost) + Rank(c, q + 1)
    BY <2>2, <2>3, <2>4 DEF CharCount, NotChar, Rank
  <2>7. \A n \in 0 .. m : /\ (received + n) % CharWrap = Rest(received + n)
                          /\ received + n \in Int
    <3>1. \A n \in 0 .. m : received + n \in 0 .. 2 * CharWrap - 1
      BY <2>4, Sizes
    <3>. QED
      BY <3>1, RestIs
  <2>8. \A n \in Int : CharWord(n).payload = 256 + Rest(n)
    BY LineWords
  <2>9. ASSUME IsChar(fromhost)
        PROVE  fromhost.payload = 256 + ((received + CharsBefore(1)) % CharWrap)
    <3>1. fromhost = CharWord(received)
      BY <2>1, <2>9, LineWords DEF Way, Line
    <3>2. CharsBefore(1) = 0
      <4>1. {j \in 1 .. 1 - 1 : IsChar(ToTarget[j])} = {}
        OBVIOUS
      <4>. QED
        BY <4>1, FS_EmptySet DEF CharsBefore
    <3>3. received + 0 = received /\ 0 \in 0 .. m /\ received \in Int
      BY <2>4, Sizes
    <3>. QED
      BY <2>7, <2>8, <3>1, <3>2, <3>3
  <2>10. ASSUME NEW i \in 1 .. q, IsChar(fromhost_queue[i])
         PROVE  fromhost_queue[i].payload
                  = 256 + ((received + CharsBefore(i + 1)) % CharWrap)
    <3>1. i # c
      BY <1>1, <2>1, <2>2, <2>10, WordsAre DEF Inv
    <3>2. PICK n : n = InBox(fromhost) + Rank(c, i)
      OBVIOUS
    <3>3. /\ n \in 0 .. m
          /\ received + InBox(fromhost) + Rank(c, i) = received + n
      <4>1. PICK r : r = Rank(c, i)
        OBVIOUS
      <4>2. PICK t : t = Rank(c, q + 1)
        OBVIOUS
      <4>3. r \in 0 .. t /\ t \in Int
        BY <2>4, <3>1, <4>1, <4>2 DEF Rank
      <4>4. n = InBox(fromhost) + r /\ m = InBox(fromhost) + t
        BY <2>6, <3>2, <4>1, <4>2
      <4>5. InBox(fromhost) + r \in 0 .. InBox(fromhost) + t
            /\ received + InBox(fromhost) + r = received + (InBox(fromhost) + r)
        BY <2>4, <4>3, Sizes
      <4>. QED
        BY <4>1, <4>4, <4>5
    <3>4. fromhost_queue[i] = CharWord(received + n)
      BY <2>1, <2>2, <3>1, <3>3 DEF Way, Line
    <3>5. CharsBefore(i + 1) = n
      BY <1>1, <2>1, <2>2, <2>4, <3>2, CharsAre
    <3>. QED
      BY <2>7, <2>8, <3>3, <3>4, <3>5
  <2>11. ASSUME NEW i \in DOMAIN ToTarget, IsChar(ToTarget[i])
         PROVE  ToTarget[i].payload
                  = 256 + ((received + CharsBefore(i)) % CharWrap)
    <3>1. CASE i = 1
      BY <2>5, <2>9, <2>11, <3>1
    <3>2. CASE i # 1
      <4>1. i - 1 \in 1 .. q /\ (i - 1) + 1 = i
        BY <2>4, <2>5, <3>2
      <4>. QED
        BY <2>5, <2>10, <2>11, <4>1
    <3>. QED
      BY <3>1, <3>2
  <2>12. typed = (received + CharsBefore(Len(ToTarget) + 1)) % CharWrap
    <3>1. CharsBefore((q + 1) + 1) = m
      BY <1>1, <2>1, <2>2, <2>4, <2>6, CharsAre
    <3>2. typed = Rest(received + m)
      BY <2>1, <2>3 DEF Way
    <3>3. m \in 0 .. m
      BY <2>4, Sizes
    <3>4. (received + m) % CharWrap = Rest(received + m)
      BY <2>7, <3>3
    <3>. QED
      BY <2>5, <3>1, <3>2, <3>4
  <2>. QED
    BY <2>11, <2>12 DEF CharsInOrder
<1>. QED
  BY <1>1, Invariant, PTL
=============================================================================
