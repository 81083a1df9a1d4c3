------------------------ MODULE RemoteBitbang_proofs ------------------------
(***************************************************************************)
(* Proofs about RemoteBitbang, for every size of the buffers and sockets   *)
(* and every client.                                                       *)
(***************************************************************************)
EXTENDS RemoteBitbang, SequenceTheorems, TLAPS

Command == [kind : Kinds, tag : TagSet]
Sent == TagSet \cup {Stale}

(***************************************************************************)
(* The invariant. Its first part is TypeOK; the second types the sequences *)
(* and bounds the open reads; the third says what a place in a tick knows  *)
(* of the buffers: a batch that is being processed fits in send_buf and    *)
(* keeps the count of commands within bounds, read() is called only with   *)
(* an empty buffer, and a connection is given up only between two batches. *)
(***************************************************************************)
Queues == /\ recv \in Seq(Command) /\ wire \in Seq(Command)
          /\ outbox \in Seq(Sent) /\ expected \in Seq(TagSet)
          /\ Len(expected) <= MaxOutstanding
          /\ sent \in Nat
Places ==
  /\ ~connected => pc = "out" /\ recv = <<>>
  /\ pc = "process" => /\ recv # <<>>
                       /\ send_offset + Len(recv) <= BufSize
                       /\ total_processed + Len(recv) <= 2 * BufSize
  /\ pc = "flush" => recv = <<>> \/ entered_rti
  /\ pc = "read" => recv = <<>> /\ total_processed <= BufSize
  /\ pc = "out" => total_processed = 0
  /\ pc \in {"out", "process", "read"} => sent = 0
Inv == TypeOK /\ Queues /\ Places

LEMMA Sizes ==
  /\ BufSize \in Nat \ {0} /\ WireSize \in Nat \ {0} /\ OutSize \in Nat \ {0}
  /\ MaxOutstanding \in Nat
  /\ Tags \in Nat \ {0} /\ BufSize + WireSize < Tags
  /\ Stale = Tags /\ TagSet = 0 .. Tags - 1
BY BitbangAssumption DEF Tags, TagSet, Stale

(***************************************************************************)
(* A queue of two parts loses its first element and gets a new last one.   *)
(***************************************************************************)
LEMMA TailConcat ==
  ASSUME NEW S, NEW s \in Seq(S), NEW t \in Seq(S), s # <<>>
  PROVE  /\ s \o t # <<>> /\ (s \o t)[1] = Head(s)
         /\ Tail(s) \o t = Tail(s \o t)
<1>1. /\ Len(s) \in Nat \ {0} /\ Len(t) \in Nat
      /\ s \o t \in Seq(S) /\ Len(s \o t) = Len(s) + Len(t)
      /\ \A i \in 1 .. Len(s) + Len(t) :
           (s \o t)[i] = IF i <= Len(s) THEN s[i] ELSE t[i - Len(s)]
  BY EmptySeq, ConcatProperties
<1>2. s \o t # <<>>  BY <1>1, EmptySeq
<1>3. /\ Tail(s) \in Seq(S) /\ Len(Tail(s)) = Len(s) - 1
      /\ \A i \in 1 .. Len(Tail(s)) : Tail(s)[i] = s[i + 1]
  BY HeadTailProperties
<1>4. /\ Tail(s \o t) \in Seq(S) /\ Len(Tail(s \o t)) = Len(s \o t) - 1
      /\ \A i \in 1 .. Len(Tail(s \o t)) : Tail(s \o t)[i] = (s \o t)[i + 1]
  BY <1>1, <1>2, HeadTailProperties
<1>5. /\ Tail(s) \o t \in Seq(S)
      /\ Len(Tail(s) \o t) = Len(Tail(s)) + Len(t)
      /\ \A i \in 1 .. Len(Tail(s)) + Len(t) :
           (Tail(s) \o t)[i] = IF i <= Len(Tail(s)) THEN Tail(s)[i]
                               ELSE t[i - Len(Tail(s))]
  BY <1>3, ConcatProperties
<1>6. Len(Tail(s) \o t) = Len(Tail(s \o t))  BY <1>1, <1>3, <1>4, <1>5
<1>7. ASSUME NEW i \in 1 .. Len(Tail(s) \o t)
      PROVE  (Tail(s) \o t)[i] = Tail(s \o t)[i]
  <2>1. /\ i \in 1 .. Len(Tail(s \o t)) /\ i \in Nat
        /\ i + 1 \in 1 .. Len(s) + Len(t)
    BY <1>1, <1>3, <1>5, <1>6
  <2>2. Tail(s \o t)[i] = IF i + 1 <= Len(s) THEN s[i + 1]
                          ELSE t[i + 1 - Len(s)]
    BY <1>1, <1>4, <2>1
  <2>3. CASE i + 1 <= Len(s)  BY <1>1, <1>3, <1>5, <2>1, <2>2, <2>3
  <2>4. CASE ~(i + 1 <= Len(s))
    <3>1. ~(i <= Len(Tail(s))) /\ i - Len(Tail(s)) = i + 1 - Len(s)
      BY <1>1, <1>3, <2>1, <2>4
    <3>2. QED  BY <1>5, <2>2, <2>4, <3>1
  <2>5. QED  BY <2>3, <2>4
<1>8. Tail(s) \o t = Tail(s \o t)  BY <1>4, <1>5, <1>6, <1>7, SeqEqual
<1>9. (s \o t)[1] = Head(s)
  <2>1. (s \o t)[1] = s[1]  BY <1>1
  <2>2. QED  BY <2>1
<1>10. QED  BY <1>2, <1>8, <1>9

LEMMA AppendConcat ==
  ASSUME NEW S, NEW s \in Seq(S), NEW t \in Seq(S), NEW e \in S
  PROVE  s \o Append(t, e) = Append(s \o t, e)
<1>1. /\ Append(t, e) = t \o <<e>> /\ <<e>> \in Seq(S)
      /\ s \o t \in Seq(S)
  BY AppendIsConcat, ConcatProperties
<1>2. Append(s \o t, e) = (s \o t) \o <<e>>  BY <1>1, AppendIsConcat
<1>3. (s \o t) \o <<e>> = s \o (t \o <<e>>)  BY <1>1, ConcatAssociative
<1>4. QED  BY <1>1, <1>2, <1>3

LEMMA TagsType == ASSUME NEW n \in Nat PROVE n % Tags \in TagSet
BY Sizes

LEMMA InitInv == Init => Inv
<1> SUFFICES ASSUME Init PROVE Inv  OBVIOUS
<1>. USE Sizes DEF Init
<1>1. send_buf \in [1 .. BufSize -> TagSet \cup {Stale}]  OBVIOUS
<1>2. TypeOK
  <2>1. total_processed \in 0 .. 2 * BufSize  OBVIOUS
  <2>2. next \in TagSet /\ executed \in TagSet  OBVIOUS
  <2>3. Len(recv) <= BufSize /\ Len(wire) <= WireSize /\ Len(outbox) <= OutSize
    OBVIOUS
  <2>4. pc \in {"out", "process", "flush", "read", "aborted"}  OBVIOUS
  <2>5. send_offset \in 0 .. BufSize  OBVIOUS
  <2>6. QED  BY <1>1, <2>1, <2>2, <2>3, <2>4, <2>5 DEF TypeOK
<1>3. Queues  BY DEF Queues
<1>4. Places  BY DEF Places
<1>5. QED  BY <1>2, <1>3, <1>4 DEF Inv

----------------------------------------------------------------------------
(***************************************************************************)
(* The steps, one by one.                                                  *)
(***************************************************************************)
LEMMA BatchBegins ==
  ASSUME TypeOK, BeginBatch
  PROVE  /\ send_offset' = 0 /\ pc' = "process"
         /\ send_buf' \in [1 .. BufSize -> Sent]
<1>1. send_buf' \in [1 .. BufSize -> Sent]
  BY Sizes DEF TypeOK, BeginBatch, Sent
<1>2. QED  BY <1>1 DEF BeginBatch, FirstOffset

LEMMA AcceptInv == Inv /\ Accept => Inv'
<1> SUFFICES ASSUME Inv, Accept PROVE Inv'  OBVIOUS
<1>1. TypeOK'
  <2>1. next' \in TagSet /\ executed' \in TagSet
    BY Sizes DEF Accept
  <2>2. Len(wire') <= WireSize /\ Len(outbox') <= OutSize
    BY Sizes DEF Accept
  <2>3. UNCHANGED <<recv, send_buf, send_offset, sent, tap_rti,
                    total_processed, quit, in_rti, entered_rti, pc>>
    BY DEF Accept, serverVars
  <2>4. connected' \in BOOLEAN /\ hungup' \in BOOLEAN  BY DEF Accept
  <2>5. QED  BY <2>1, <2>2, <2>3, <2>4 DEF Inv, TypeOK
<1>2. Queues'  BY Sizes DEF Inv, Queues, Accept, serverVars
<1>3. Places'  BY DEF Inv, Places, Accept, serverVars
<1>4. QED  BY <1>1, <1>2, <1>3 DEF Inv

LEMMA EnterInv == Inv /\ Enter => Inv'
<1> SUFFICES ASSUME Inv, Enter PROVE Inv'  OBVIOUS
<1>1. UNCHANGED <<connected, recv, sent, tap_rti, total_processed, quit,
                  entered_rti, wire, outbox, hungup, next, expected, executed>>
  BY DEF Enter, KeptCommands, clientVars
<1>2. CASE recv = <<>>
  <2>1. pc' = "read" /\ UNCHANGED <<send_offset, send_buf>>
    BY <1>1, <1>2 DEF Enter
  <2>2. TypeOK'  BY <1>1, <2>1 DEF Inv, TypeOK, Enter
  <2>3. Queues'  BY <1>1 DEF Inv, Queues
  <2>4. Places'  BY <1>1, <1>2, <2>1, Sizes DEF Inv, Places, Enter
  <2>5. QED  BY <2>2, <2>3, <2>4 DEF Inv
<1>3. CASE recv # <<>>
  <2>1. BeginBatch  BY <1>1, <1>3 DEF Enter
  <2>2. /\ send_offset' = 0 /\ pc' = "process"
        /\ send_buf' \in [1 .. BufSize -> Sent]
    BY <2>1, BatchBegins DEF Inv
  <2>3. TypeOK'  BY <1>1, <2>2, Sizes DEF Inv, TypeOK, Enter, Sent
  <2>4. Queues'  BY <1>1 DEF Inv, Queues
  <2>5. Len(recv) \in Nat /\ Len(recv) <= BufSize
    BY DEF Inv, Queues, TypeOK
  <2>6. Places'
    BY <1>1, <1>3, <2>2, <2>5, Sizes DEF Inv, Places, Enter
  <2>7. QED  BY <2>3, <2>4, <2>6 DEF Inv
<1>4. QED  BY <1>2, <1>3

\* What a command does to the buffers.
LEMMA Processed ==
  ASSUME Inv, Process
  PROVE  /\ Head(recv) \in Command /\ recv' = Tail(recv)
         /\ recv' \in Seq(Command) /\ Len(recv') = Len(recv) - 1
         /\ send_offset < BufSize
         /\ IF Head(recv).kind = "R"
            THEN /\ send_offset' = send_offset + 1
                 /\ send_buf' = [send_buf EXCEPT ![send_offset + 1]
                                                  = Head(recv).tag]
            ELSE UNCHANGED <<send_offset, send_buf>>
         /\ executed' = (executed + 1) % Tags
         /\ pc' \in {"process", "flush"}
         /\ UNCHANGED <<connected, sent, wire, outbox, hungup, next, expected>>
<1>1. recv # <<>> /\ recv \in Seq(Command) /\ send_offset \in Nat
      /\ send_offset + Len(recv) <= BufSize
  BY DEF Inv, Places, Queues, TypeOK, Process
<1>2. /\ Head(recv) \in Command /\ Tail(recv) \in Seq(Command)
      /\ Len(Tail(recv)) = Len(recv) - 1
  BY <1>1, HeadTailProperties
<1>3. Len(recv) \in Nat \ {0}  BY <1>1, EmptySeq
<1>4. send_offset < BufSize  BY <1>1, <1>3, Sizes
<1>5. IF Head(recv).kind = "R"
      THEN /\ send_offset' = send_offset + 1
           /\ send_buf' = [send_buf EXCEPT ![send_offset + 1] = Head(recv).tag]
      ELSE UNCHANGED <<send_offset, send_buf>>
  BY DEF Process
<1>6. /\ recv' = Tail(recv) /\ executed' = (executed + 1) % Tags
      /\ pc' \in {"process", "flush"}
      /\ UNCHANGED <<connected, sent, wire, outbox, hungup, next, expected>>
  BY DEF Process, clientVars
<1>7. QED  BY <1>2, <1>4, <1>5, <1>6

LEMMA ProcessInv == Inv /\ Process => Inv'
<1> SUFFICES ASSUME Inv, Process PROVE Inv'  OBVIOUS
<1>. USE Sizes
<1>1. /\ Head(recv) \in Command
      /\ recv' \in Seq(Command) /\ Len(recv') = Len(recv) - 1
      /\ send_offset < BufSize
      /\ executed' = (executed + 1) % Tags
      /\ pc' \in {"process", "flush"}
      /\ UNCHANGED <<connected, sent, wire, outbox, hungup, next, expected>>
  BY Processed
<1>2. /\ total_processed \in Nat /\ send_offset \in Nat
      /\ Len(recv) \in Nat \ {0} /\ Len(recv) <= BufSize
      /\ total_processed + Len(recv) <= 2 * BufSize
      /\ send_offset + Len(recv) <= BufSize
  BY EmptySeq DEF Inv, TypeOK, Queues, Places, Process
<1>3. total_processed' = total_processed + 1
  BY <1>2 DEF Process, Counted
<1>4. /\ send_offset' \in {send_offset, send_offset + 1}
      /\ send_buf' \in [1 .. BufSize -> Sent]
  <2>1. CASE Head(recv).kind = "R"
    <3>1. /\ send_offset' = send_offset + 1
          /\ send_buf' = [send_buf EXCEPT ![send_offset + 1] = Head(recv).tag]
      BY <2>1, Processed
    <3>2. Head(recv).tag \in Sent  BY <1>1 DEF Command, Sent
    <3>3. QED  BY <1>2, <3>1, <3>2 DEF Inv, TypeOK, Sent
  <2>2. CASE Head(recv).kind # "R"
    BY <2>2, Processed DEF Inv, TypeOK, Sent
  <2>3. QED  BY <2>1, <2>2
<1>5. executed' \in TagSet
  <2>1. executed + 1 \in Nat  BY DEF Inv, TypeOK
  <2>2. QED  BY <1>1, <2>1, TagsType
<1>6. tap_rti' \in BOOLEAN /\ quit' \in BOOLEAN /\ entered_rti' \in BOOLEAN
      /\ in_rti' \in BOOLEAN
  <2>1. tap_rti' \in BOOLEAN  BY DEF Process, Inv, TypeOK
  <2>2. quit' \in BOOLEAN  BY DEF Process, Inv, TypeOK
  <2>3. QED  BY <2>1, <2>2 DEF Process
<1>7. TypeOK'
  BY <1>1, <1>2, <1>3, <1>4, <1>5, <1>6 DEF Inv, TypeOK, Sent
<1>8. Queues'  BY <1>1 DEF Inv, Queues
<1>9. pc' = "process" => recv' # <<>>
  BY DEF Process
<1>10. pc' = "flush" => recv' = <<>> \/ entered_rti'
  BY DEF Process
<1>11. connected /\ sent = 0
  BY DEF Inv, Places, Process
<1>12. Places'
  BY <1>1, <1>2, <1>3, <1>4, <1>9, <1>10, <1>11 DEF Places
<1>13. QED  BY <1>7, <1>8, <1>12 DEF Inv

LEMMA WrittenType ==
  ASSUME TypeOK, Queues, NEW n \in Nat
  PROVE  Written(n) \in Seq(Sent) /\ Len(Written(n)) = n
<1>1. \A i \in 1 .. n : (IF sent + i \in 1 .. BufSize
                         THEN send_buf[sent + i] ELSE Stale) \in Sent
  BY DEF TypeOK, Sent
<1>2. Written(n) \in [1 .. n -> Sent]  BY <1>1 DEF Written
<1>3. QED  BY <1>2

\* The three outcomes of a turn of the loop that writes the answers.
FlushDone == /\ sent >= send_offset
             /\ IF Enough THEN LeaveTick
                ELSE /\ pc' = "read"
                     /\ UNCHANGED <<total_processed, quit, in_rti, entered_rti>>
             /\ sent' = 0 /\ UNCHANGED outbox
FlushAborts == /\ sent < send_offset /\ (hungup \/ Room = 0)
               /\ pc' = "aborted"
               /\ UNCHANGED <<sent, outbox, total_processed, quit, in_rti,
                              entered_rti>>
FlushWrites == /\ sent < send_offset /\ ~hungup /\ Room # 0
               /\ LET n == IF Room < send_offset THEN Room ELSE send_offset
                  IN sent' = sent + n /\ outbox' = outbox \o Written(n)
               /\ UNCHANGED <<pc, total_processed, quit, in_rti, entered_rti>>

LEMMA FlushCases ==
  ASSUME TypeOK, Queues, Flush
  PROVE  /\ FlushDone \/ FlushAborts \/ FlushWrites
         /\ pc = "flush"
         /\ UNCHANGED <<connected, recv, send_buf, send_offset, tap_rti, wire,
                        hungup, next, expected, executed>>
<1>1. sent \in Nat /\ send_offset \in Nat  BY Sizes DEF TypeOK, Queues
<1>2. sent >= send_offset /\ ~(sent < send_offset) => FlushDone
  BY DEF Flush, FlushDone
<1>3. ~(sent >= send_offset) /\ sent < send_offset /\ (hungup \/ Room = 0)
        => FlushAborts
  BY DEF Flush, FlushAborts
<1>4. ~(sent >= send_offset) /\ sent < send_offset /\ ~(hungup \/ Room = 0)
        => FlushWrites
  BY DEF Flush, FlushWrites
<1>5. \/ sent >= send_offset /\ ~(sent < send_offset)
      \/ ~(sent >= send_offset) /\ sent < send_offset
  BY <1>1
<1>6. FlushDone \/ FlushAborts \/ FlushWrites  BY <1>2, <1>3, <1>4, <1>5
<1>7. QED  BY <1>6 DEF Flush, clientVars

LEMMA FlushInv == Inv /\ Flush => Inv'
<1> SUFFICES ASSUME Inv, Flush PROVE Inv'  OBVIOUS
<1>. USE Sizes
<1>1. /\ FlushDone \/ FlushAborts \/ FlushWrites
      /\ pc = "flush"
      /\ UNCHANGED <<connected, recv, send_buf, send_offset, tap_rti, wire,
                     hungup, next, expected, executed>>
  BY FlushCases DEF Inv
<1>2. connected  BY <1>1 DEF Inv, Places
<1>3. CASE FlushDone
  <2>1. total_processed' \in 0 .. 2 * BufSize /\ pc' \in {"out", "read"}
        /\ quit' \in BOOLEAN /\ in_rti' \in BOOLEAN /\ entered_rti' \in BOOLEAN
    <3>1. CASE Enough
      <4>1. LeaveTick  BY <1>3, <3>1 DEF FlushDone
      <4>2. 0 \in 0 .. 2 * BufSize  OBVIOUS
      <4>3. QED  BY <4>1, <4>2 DEF LeaveTick
    <3>2. CASE ~Enough  BY <1>3, <3>2 DEF FlushDone, Inv, TypeOK
    <3>3. QED  BY <3>1, <3>2
  <2>2. TypeOK'  BY <1>1, <1>3, <2>1 DEF Inv, TypeOK, FlushDone
  <2>3. Queues'  BY <1>1, <1>3 DEF Inv, Queues, FlushDone
  <2>4. pc' = "out" => total_processed' = 0
    BY <1>3 DEF FlushDone, LeaveTick
  <2>5. pc' = "read" => recv = <<>> /\ total_processed' <= BufSize
    BY <1>1, <1>3 DEF FlushDone, LeaveTick, Enough, Inv, Places, TypeOK
  <2>6. Places'
    BY <1>1, <1>2, <1>3, <2>1, <2>4, <2>5 DEF FlushDone, Places
  <2>7. QED  BY <2>2, <2>3, <2>6 DEF Inv
<1>4. CASE FlushAborts
  <2>1. TypeOK'  BY <1>1, <1>4 DEF Inv, TypeOK, FlushAborts
  <2>2. Queues'  BY <1>1, <1>4 DEF Inv, Queues, FlushAborts
  <2>3. Places'  BY <1>1, <1>2, <1>4 DEF Places, FlushAborts
  <2>4. QED  BY <2>1, <2>2, <2>3 DEF Inv
<1>5. CASE FlushWrites
  <2>. DEFINE n == IF Room < send_offset THEN Room ELSE send_offset
  <2>1. Len(outbox) \in Nat /\ Room \in Nat /\ Len(outbox) + Room = OutSize
    BY DEF Room, Inv, TypeOK, Queues
  <2>2. n \in Nat /\ n <= Room  BY <2>1 DEF Inv, TypeOK
  <2>3. Written(n) \in Seq(Sent) /\ Len(Written(n)) = n
    BY <2>2, WrittenType DEF Inv
  <2>4. sent' = sent + n /\ outbox' = outbox \o Written(n)
    BY <1>5 DEF FlushWrites
  <2>5. outbox' \in Seq(Sent) /\ Len(outbox') = Len(outbox) + n
    BY <2>3, <2>4, ConcatProperties DEF Inv, Queues
  <2>6. Len(outbox') <= OutSize  BY <2>1, <2>2, <2>5
  <2>7. TypeOK'  BY <1>1, <1>5, <2>6 DEF Inv, TypeOK, FlushWrites
  <2>8. sent' \in Nat  BY <2>2, <2>4 DEF Inv, Queues
  <2>9. Queues'  BY <1>1, <2>5, <2>8 DEF Inv, Queues
  <2>10. Places'
    BY <1>1, <1>5 DEF Inv, Places, FlushWrites
  <2>11. QED  BY <2>7, <2>9, <2>10 DEF Inv
<1>6. QED  BY <1>1, <1>3, <1>4, <1>5

----------------------------------------------------------------------------
\* What read() takes is the front of the socket, and as much as fits.
Taken == IF Len(wire) < BufSize THEN Len(wire) ELSE BufSize

LEMMA ReadSplits ==
  ASSUME Queues, Read
  PROVE  /\ Taken \in 0 .. Len(wire) /\ Taken <= BufSize
         /\ recv' = SubSeq(wire, 1, Taken)
         /\ wire' = SubSeq(wire, Taken + 1, Len(wire))
         /\ recv' \in Seq(Command) /\ Len(recv') = Taken
         /\ wire' \in Seq(Command) /\ Len(wire') = Len(wire) - Taken
         /\ recv' \o wire' = wire
         /\ UNCHANGED <<sent, tap_rti, outbox, hungup, next, expected, executed>>
<1>. USE Sizes
<1>1. wire \in Seq(Command) /\ Len(wire) \in Nat  BY DEF Queues
<1>2. Taken \in 0 .. Len(wire) /\ Taken <= BufSize  BY <1>1 DEF Taken
<1>3. /\ recv' = SubSeq(wire, 1, Taken)
      /\ wire' = SubSeq(wire, Taken + 1, Len(wire))
  BY DEF Read, Taken
<1>4. \A i \in 1 .. Len(wire) : wire[i] \in Command
  BY <1>1, ElementOfSeq
<1>5. /\ SubSeq(wire, 1, Taken) \in Seq(Command)
      /\ Len(SubSeq(wire, 1, Taken)) = Taken
  <2>1. \A i \in 1 .. Taken : wire[i] \in Command  BY <1>1, <1>2, <1>4
  <2>2. /\ SubSeq(wire, 1, Taken) \in Seq(Command)
        /\ Len(SubSeq(wire, 1, Taken)) = IF 1 <= Taken THEN Taken - 1 + 1 ELSE 0
    BY <1>2, <2>1, SubSeqProperties
  <2>3. QED  BY <1>2, <2>2
<1>6. /\ SubSeq(wire, Taken + 1, Len(wire)) \in Seq(Command)
      /\ Len(SubSeq(wire, Taken + 1, Len(wire))) = Len(wire) - Taken
  <2>1. \A i \in Taken + 1 .. Len(wire) : wire[i] \in Command
    BY <1>1, <1>2, <1>4
  <2>2. /\ SubSeq(wire, Taken + 1, Len(wire)) \in Seq(Command)
        /\ Len(SubSeq(wire, Taken + 1, Len(wire)))
             = IF Taken + 1 <= Len(wire) THEN Len(wire) - (Taken + 1) + 1 ELSE 0
    BY <1>1, <1>2, <2>1, SubSeqProperties
  <2>3. QED  BY <1>1, <1>2, <2>2
<1>7. SubSeq(wire, 1, Taken) \o SubSeq(wire, Taken + 1, Len(wire)) = wire
  <2>1. 1 \in 1 .. Len(wire) + 1 /\ Taken \in 1 - 1 .. Len(wire)
        /\ Len(wire) \in Taken .. Len(wire)
    BY <1>1, <1>2
  <2>2. SubSeq(wire, 1, Taken) \o SubSeq(wire, Taken + 1, Len(wire))
          = SubSeq(wire, 1, Len(wire))
    BY <1>1, <2>1, ConcatAdjacentSubSeq
  <2>3. QED  BY <1>1, <2>2, SubSeqFull
<1>8. UNCHANGED <<sent, tap_rti, outbox, hungup, next, expected, executed>>
  BY DEF Read, clientVars
<1>9. QED  BY <1>2, <1>3, <1>5, <1>6, <1>7, <1>8

LEMMA ReadInv == Inv /\ Read => Inv'
<1> SUFFICES ASSUME Inv, Read PROVE Inv'  OBVIOUS
<1>. USE Sizes
<1>1. /\ Taken \in 0 .. Len(wire) /\ Taken <= BufSize
      /\ recv' \in Seq(Command) /\ Len(recv') = Taken
      /\ wire' \in Seq(Command) /\ Len(wire') = Len(wire) - Taken
      /\ UNCHANGED <<sent, tap_rti, outbox, hungup, next, expected, executed>>
  BY ReadSplits DEF Inv
<1>2. pc = "read" /\ connected /\ sent = 0 /\ total_processed \in Nat
      /\ total_processed <= BufSize
  BY DEF Read, Inv, Places, TypeOK
<1>3. Queues'  BY <1>1 DEF Inv, Queues
<1>4. Len(wire) \in Nat /\ Len(wire) <= WireSize
  BY DEF Inv, TypeOK, Queues
<1>5. CASE Taken > 0
  <2>1. BeginBatch /\ UNCHANGED <<connected, total_processed, quit, in_rti,
                                  entered_rti>>
    BY <1>5 DEF Read, Taken
  <2>2. /\ send_offset' = 0 /\ pc' = "process"
        /\ send_buf' \in [1 .. BufSize -> Sent]
    BY <2>1, BatchBegins DEF Inv
  <2>3. TypeOK'
    BY <1>1, <1>4, <2>1, <2>2 DEF Inv, TypeOK, Sent
  <2>4. recv' # <<>>  BY <1>1, <1>5, EmptySeq
  <2>5. Places'
    BY <1>1, <1>2, <2>1, <2>2, <2>4 DEF Places
  <2>6. QED  BY <1>3, <2>3, <2>5 DEF Inv
<1>6. CASE Taken = 0
  <2>1. LeaveTick /\ connected' = ~hungup /\ UNCHANGED <<send_offset, send_buf>>
    BY <1>6 DEF Read, Taken
  <2>2. TypeOK'
    <3>1. total_processed' \in 0 .. 2 * BufSize
      BY <2>1 DEF LeaveTick
    <3>2. Len(recv') <= BufSize /\ Len(wire') <= WireSize  BY <1>1, <1>4
    <3>3. QED  BY <1>1, <2>1, <3>1, <3>2 DEF Inv, TypeOK, LeaveTick
  <2>3. recv' = <<>>  BY <1>1, <1>6, EmptySeq
  <2>4. Places'
    BY <1>1, <1>2, <2>1, <2>3 DEF Places, LeaveTick
  <2>5. QED  BY <1>3, <2>2, <2>4 DEF Inv
<1>7. QED  BY <1>1, <1>5, <1>6

LEMMA SendInv == ASSUME Inv, NEW k \in Commands, Send(k) PROVE Inv'
<1>. USE Sizes
<1>1. UNCHANGED <<connected, serverVars, pc, outbox, hungup, executed>>
  BY DEF Send
<1>2. next' \in TagSet
  <2>1. next + 1 \in Nat /\ next' = (next + 1) % Tags
    BY DEF Inv, TypeOK, Send
  <2>2. QED  BY <2>1, TagsType
<1>3. next \in TagSet /\ k \in Kinds
  BY BitbangAssumption DEF Inv, TypeOK
<1>4. [kind |-> k, tag |-> next] \in Command  BY <1>3 DEF Command
<1>5. wire' \in Seq(Command) /\ Len(wire') = Len(wire) + 1
  BY <1>4, AppendProperties DEF Send, Inv, Queues
<1>6. Len(wire') <= WireSize
  BY <1>5 DEF Send, Inv, Queues
<1>7. expected' \in Seq(TagSet) /\ Len(expected') <= MaxOutstanding
  <2>1. CASE k = "R"
    <3>1. /\ expected' = Append(expected, next)
          /\ expected \in Seq(TagSet) /\ Len(expected) < MaxOutstanding
      BY <2>1 DEF Send, Inv, Queues
    <3>2. expected' \in Seq(TagSet) /\ Len(expected') = Len(expected) + 1
      BY <1>3, <3>1, AppendProperties
    <3>3. QED  BY <3>1, <3>2
  <2>2. CASE k # "R"  BY <2>2 DEF Send, Inv, Queues
  <2>3. QED  BY <2>1, <2>2
<1>8. TypeOK'  BY <1>1, <1>2, <1>6 DEF Inv, TypeOK, serverVars
<1>9. Queues'  BY <1>1, <1>5, <1>7 DEF Inv, Queues, serverVars
<1>10. Places'  BY <1>1 DEF Inv, Places, serverVars
<1>11. QED  BY <1>8, <1>9, <1>10 DEF Inv

LEMMA ReceiveInv == Inv /\ Receive => Inv'
<1> SUFFICES ASSUME Inv, Receive PROVE Inv'  OBVIOUS
<1>1. UNCHANGED <<connected, serverVars, pc, wire, hungup, next, executed>>
  BY DEF Receive
<1>2. /\ outbox' \in Seq(Sent) /\ Len(outbox') = Len(outbox) - 1
      /\ expected' \in Seq(TagSet) /\ Len(expected') = Len(expected) - 1
  BY HeadTailProperties DEF Receive, Inv, Queues
<1>3. TypeOK'  BY <1>1, <1>2, Sizes DEF Inv, TypeOK, Queues, serverVars
<1>4. Queues'  BY <1>1, <1>2, Sizes DEF Inv, Queues, serverVars
<1>5. Places'  BY <1>1 DEF Inv, Places, serverVars
<1>6. QED  BY <1>3, <1>4, <1>5 DEF Inv

LEMMA HangUpInv == Inv /\ HangUp => Inv'
BY DEF Inv, TypeOK, Queues, Places, HangUp, serverVars

LEMMA NextInv == Inv /\ [Next]_vars => Inv'
<1>1. Inv /\ UNCHANGED vars => Inv'
  BY DEF Inv, TypeOK, Queues, Places, vars, serverVars, clientVars
<1>2. QED
  BY <1>1, AcceptInv, EnterInv, ProcessInv, FlushInv, ReadInv, SendInv,
     ReceiveInv, HangUpInv DEF Next, Server, Client

\* Every reachable state is well typed, and Inv holds of it: a batch never
\* writes beyond send_buf, and the count of commands of a tick stays within
\* two buffers, whatever the client sends.
THEOREM Typing == Spec => [](TypeOK /\ Queues /\ Places)
<1>1. Inv <=> TypeOK /\ Queues /\ Places  BY DEF Inv
<1>2. QED  BY <1>1, InitInv, NextInv, PTL DEF Spec

----------------------------------------------------------------------------
(***************************************************************************)
(* Commands, in their order. No more of them are on their way than there   *)
(* are tags, so a tag is never in use twice.                               *)
(***************************************************************************)
Rest(x) == IF x < Tags THEN x ELSE x - Tags

LEMMA ModTags == ASSUME NEW x \in Nat, x < 2 * Tags PROVE x % Tags = Rest(x)
<1>. USE DEF Rest
<1>1. CASE x < Tags  BY <1>1, Sizes
<1>2. CASE ~(x < Tags)
  <2>1. x - Tags \in 0 .. Tags - 1 /\ x = Tags + (x - Tags)
    BY <1>2, Sizes
  <2>2. x % Tags = x - Tags  BY <2>1, Sizes
  <2>3. QED  BY <1>2, <2>2
<1>3. QED  BY <1>1, <1>2

LEMMA InFlightType ==
  ASSUME Inv
  PROVE  /\ InFlight \in Seq(Command) /\ Len(InFlight) = Len(recv) + Len(wire)
         /\ Len(InFlight) \in Nat /\ Len(InFlight) < Tags
<1>1. recv \in Seq(Command) /\ wire \in Seq(Command)
      /\ Len(recv) <= BufSize /\ Len(wire) <= WireSize
  BY DEF Inv, Queues, TypeOK
<1>2. InFlight \in Seq(Command) /\ Len(InFlight) = Len(recv) + Len(wire)
  BY <1>1, ConcatProperties DEF InFlight
<1>3. QED  BY <1>1, <1>2, Sizes

\* What a step does to the commands on their way.
Executes == /\ pc = "process" /\ recv # <<>>
            /\ InFlight # <<>> /\ InFlight[1] = Head(recv)
            /\ InFlight' = Tail(InFlight)
            /\ executed' = (executed + 1) % Tags
            /\ UNCHANGED <<connected, next, expected>>
Adds(k) == /\ InFlight' = Append(InFlight, [kind |-> k, tag |-> next])
           /\ next' = (next + 1) % Tags
           /\ expected' = IF k = "R" THEN Append(expected, next) ELSE expected
           /\ UNCHANGED <<connected, executed>>
Starts == /\ ~connected /\ connected' /\ InFlight' = <<>> /\ next' = 0
          /\ executed' = 0 /\ pc' = "out"
          /\ expected' = <<>> /\ outbox' = <<>>

LEMMA AcceptStarts == Inv /\ Accept => Starts
<1> SUFFICES ASSUME Inv, Accept PROVE Starts  OBVIOUS
<1>1. recv' = <<>> /\ wire' = <<>>
  BY DEF Inv, Places, Accept, serverVars
<1>2. <<>> \o <<>> = <<>>
  BY EmptySeq, ConcatEmptySeq
<1>3. InFlight' = <<>>  BY <1>1, <1>2 DEF InFlight
<1>4. QED  BY <1>3 DEF Accept, Starts

LEMMA ProcessExecutes == Inv /\ Process => Executes
<1> SUFFICES ASSUME Inv, Process PROVE Executes  OBVIOUS
<1>1. /\ recv' = Tail(recv) /\ executed' = (executed + 1) % Tags
      /\ UNCHANGED <<connected, wire, next, expected>>
  BY Processed
<1>2. /\ recv # <<>> /\ recv \in Seq(Command) /\ wire \in Seq(Command)
      /\ pc = "process"
  BY DEF Inv, Places, Queues, Process
<1>3. /\ recv \o wire # <<>> /\ (recv \o wire)[1] = Head(recv)
      /\ Tail(recv) \o wire = Tail(recv \o wire)
  BY <1>2, TailConcat
<1>4. InFlight' = Tail(InFlight)  BY <1>1, <1>3 DEF InFlight
<1>5. InFlight # <<>> /\ InFlight[1] = Head(recv)  BY <1>3 DEF InFlight
<1>6. QED  BY <1>1, <1>2, <1>4, <1>5 DEF Executes

LEMMA SendAdds == ASSUME Inv, NEW k \in Commands, Send(k) PROVE Adds(k)
<1>. DEFINE c == [kind |-> k, tag |-> next]
<1>1. c \in Command
  BY BitbangAssumption DEF Inv, TypeOK, Command
<1>2. recv \in Seq(Command) /\ wire \in Seq(Command)  BY DEF Inv, Queues
<1>3. wire' = Append(wire, c) /\ UNCHANGED <<connected, recv, executed>>
  BY DEF Send, serverVars
<1>4. recv \o Append(wire, c) = Append(recv \o wire, c)
  BY <1>1, <1>2, AppendConcat
<1>5. InFlight' = Append(InFlight, c)
  BY <1>3, <1>4 DEF InFlight
<1>6. QED  BY <1>3, <1>5 DEF Adds, Send

\* The other steps move commands and answers, and let none come or go.
Moves == Enter \/ Flush \/ Read \/ Receive \/ HangUp \/ UNCHANGED vars

LEMMA MovesKeep ==
  Inv /\ Moves => /\ UNCHANGED <<InFlight, executed, next>>
                  /\ connected' => connected
<1> SUFFICES ASSUME Inv, Moves
             PROVE  /\ UNCHANGED <<InFlight, executed, next>>
                    /\ connected' => connected
  OBVIOUS
<1>1. CASE Enter \/ Flush \/ Receive \/ HangUp \/ UNCHANGED vars
  <2>1. UNCHANGED <<recv, wire, executed, next, connected>>
    BY <1>1 DEF Enter, Flush, Receive, HangUp, KeptCommands, vars, serverVars,
                clientVars
  <2>2. QED  BY <2>1 DEF InFlight
<1>2. CASE Read
  <2>1. recv' \o wire' = wire /\ UNCHANGED <<next, executed>>
    BY <1>2, ReadSplits DEF Inv
  <2>2. recv = <<>> /\ wire \in Seq(Command) /\ connected
    BY <1>2 DEF Inv, Places, Queues, Read
  <2>3. <<>> \o wire = wire  BY <2>2, ConcatEmptySeq
  <2>4. QED  BY <2>1, <2>2, <2>3 DEF InFlight
<1>3. QED  BY <1>1, <1>2 DEF Moves

LEMMA StepKinds ==
  Inv /\ [Next]_vars =>
    \/ Accept \/ Process \/ Moves \/ \E k \in Commands : Send(k)
BY DEF Next, Server, Client, Moves

LEMMA OrderKept == Inv /\ CommandsInOrder /\ [Next]_vars => CommandsInOrder'
<1> SUFFICES ASSUME Inv, CommandsInOrder, [Next]_vars, connected'
             PROVE  /\ \A i \in 1 .. Len(InFlight') :
                         InFlight'[i].tag = (executed' + i - 1) % Tags
                    /\ next' = (executed' + Len(InFlight')) % Tags
  BY DEF CommandsInOrder
<1>. USE Sizes
<1>0. /\ InFlight \in Seq(Command) /\ Len(InFlight) \in Nat
      /\ Len(InFlight) < Tags
      /\ executed \in 0 .. Tags - 1 /\ next \in 0 .. Tags - 1
  BY InFlightType DEF Inv, TypeOK
<1>1. CASE Accept
  <2>1. Starts  BY <1>1, AcceptStarts
  <2>2. Len(InFlight') = 0 /\ executed' = 0 /\ next' = 0
    BY <2>1, EmptySeq DEF Starts
  <2>3. QED  BY <2>2
<1>2. CASE Process
  <2>1. Executes  BY <1>2, ProcessExecutes
  <2>2. /\ \A i \in 1 .. Len(InFlight) :
             InFlight[i].tag = (executed + i - 1) % Tags
        /\ next = (executed + Len(InFlight)) % Tags
    BY <2>1 DEF CommandsInOrder, Executes
  <2>3. /\ InFlight' = Tail(InFlight) /\ InFlight # <<>>
        /\ executed' = (executed + 1) % Tags /\ next' = next
    BY <2>1 DEF Executes
  <2>4. Len(InFlight) # 0  BY <1>0, <2>3, EmptySeq
  <2>5. /\ Len(InFlight') = Len(InFlight) - 1
        /\ \A i \in 1 .. Len(InFlight') : InFlight'[i] = InFlight[i + 1]
    BY <1>0, <2>3, HeadTailProperties
  <2>6. executed' = IF executed + 1 < Tags THEN executed + 1
                                           ELSE executed + 1 - Tags
    <3>1. executed + 1 \in Nat /\ executed + 1 < 2 * Tags  BY <1>0
    <3>2. (executed + 1) % Tags = Rest(executed + 1)  BY <3>1, ModTags
    <3>3. executed' = Rest(executed + 1)  BY <2>3, <3>2
    <3>4. QED  BY <1>0, <3>3 DEF Rest
  <2>7. ASSUME NEW n \in 0 .. Len(InFlight')
        PROVE  (executed' + n) % Tags = (executed + (n + 1)) % Tags
    <3>1. /\ executed' + n \in Nat /\ executed' + n < 2 * Tags
          /\ executed + (n + 1) \in Nat /\ executed + (n + 1) < 2 * Tags
          /\ n \in Nat
      BY <1>0, <2>4, <2>5, <2>6
    <3>2. /\ (executed' + n) % Tags = Rest(executed' + n)
          /\ (executed + (n + 1)) % Tags = Rest(executed + (n + 1))
      BY <3>1, ModTags
    <3>3. Rest(executed' + n) = Rest(executed + (n + 1))
      BY <1>0, <2>4, <2>5, <2>6, <3>1 DEF Rest
    <3>4. QED  BY <3>2, <3>3
  <2>8. next' = (executed' + Len(InFlight')) % Tags
    <3>1. Len(InFlight') \in 0 .. Len(InFlight')
          /\ Len(InFlight') + 1 = Len(InFlight)
      BY <1>0, <2>4, <2>5
    <3>2. QED  BY <2>2, <2>3, <2>7, <3>1
  <2>9. ASSUME NEW i \in 1 .. Len(InFlight')
        PROVE  InFlight'[i].tag = (executed' + i - 1) % Tags
    <3>1. /\ i + 1 \in 1 .. Len(InFlight) /\ i - 1 \in 0 .. Len(InFlight')
          /\ executed' + (i - 1) = executed' + i - 1
          /\ executed + ((i - 1) + 1) = executed + (i + 1) - 1
      BY <1>0, <2>4, <2>5, <2>6
    <3>2. InFlight[i + 1].tag = (executed + (i + 1) - 1) % Tags
      BY <2>2, <3>1
    <3>3. (executed' + (i - 1)) % Tags = (executed + ((i - 1) + 1)) % Tags
      BY <2>7, <3>1
    <3>4. QED  BY <2>5, <3>1, <3>2, <3>3
  <2>10. QED  BY <2>8, <2>9
<1>3. ASSUME NEW k \in Commands, Send(k)
      PROVE  /\ \A i \in 1 .. Len(InFlight') :
                  InFlight'[i].tag = (executed' + i - 1) % Tags
             /\ next' = (executed' + Len(InFlight')) % Tags
  <2>. DEFINE c == [kind |-> k, tag |-> next]
  <2>1. Adds(k)  BY <1>3, SendAdds
  <2>2. /\ \A i \in 1 .. Len(InFlight) :
             InFlight[i].tag = (executed + i - 1) % Tags
        /\ next = (executed + Len(InFlight)) % Tags
    BY <2>1 DEF CommandsInOrder, Adds
  <2>3. /\ InFlight' = Append(InFlight, c) /\ executed' = executed
        /\ next' = (next + 1) % Tags
    BY <2>1 DEF Adds
  <2>4. c \in Command
    BY <1>0, BitbangAssumption DEF Command
  <2>5. /\ Len(InFlight') = Len(InFlight) + 1
        /\ \A i \in 1 .. Len(InFlight) : InFlight'[i] = InFlight[i]
        /\ InFlight'[Len(InFlight) + 1] = c
    BY <1>0, <2>3, <2>4, AppendProperties
  <2>6. ASSUME NEW i \in 1 .. Len(InFlight')
        PROVE  InFlight'[i].tag = (executed' + i - 1) % Tags
    <3>1. CASE i \in 1 .. Len(InFlight)  BY <2>2, <2>3, <2>5, <3>1
    <3>2. CASE i = Len(InFlight) + 1
      <4>1. executed + i - 1 = executed + Len(InFlight)
        BY <1>0, <3>2
      <4>2. QED  BY <2>2, <2>3, <2>5, <3>2, <4>1
    <3>3. QED  BY <1>0, <2>5, <3>1, <3>2
  <2>7. next' = (executed' + Len(InFlight')) % Tags
    <3>1. executed + Len(InFlight) \in Nat
          /\ executed + Len(InFlight) < 2 * Tags - 1
      BY <1>0
    <3>2. /\ next + 1 \in Nat /\ next + 1 < 2 * Tags
          /\ executed + Len(InFlight') \in Nat
          /\ executed + Len(InFlight') < 2 * Tags
      BY <1>0, <2>5, <3>1
    <3>3. (executed + Len(InFlight)) % Tags = Rest(executed + Len(InFlight))
      <4>1. executed + Len(InFlight) < 2 * Tags  BY <1>0
      <4>2. QED  BY <3>1, <4>1, ModTags
    <3>4. (next + 1) % Tags = Rest(next + 1)  BY <3>2, ModTags
    <3>5. (executed + Len(InFlight')) % Tags = Rest(executed + Len(InFlight'))
      BY <3>2, ModTags
    <3>6. next = Rest(executed + Len(InFlight))  BY <2>2, <3>3
    <3>7. Rest(next + 1) = Rest(executed + Len(InFlight'))
      BY <1>0, <2>5, <3>1, <3>2, <3>6 DEF Rest
    <3>8. QED  BY <2>3, <3>4, <3>5, <3>7
  <2>8. QED  BY <2>6, <2>7
<1>4. CASE Moves
  <2>1. UNCHANGED <<InFlight, executed, next>> /\ connected
    BY <1>4, MovesKeep
  <2>2. QED  BY <2>1 DEF CommandsInOrder
<1>5. QED  BY <1>1, <1>2, <1>3, <1>4, StepKinds

\* Every command that a client sends is executed once and in order, for any
\* size of the buffer and any client, wherever a tick stops.
THEOREM CommandsKeepOrder == Spec => []CommandsInOrder
<1>1. Init => CommandsInOrder  BY DEF Init, CommandsInOrder
<1>2. QED  BY <1>1, InitInv, NextInv, OrderKept, PTL DEF Spec

----------------------------------------------------------------------------
(***************************************************************************)
(* Answers. What AnswersMatch says of the answers R, the open reads E, the *)
(* commands F and the tag e of the command that is next to be executed.    *)
(***************************************************************************)
Dist(t, e) == (t + Tags - e) % Tags
Reads(F) == {i \in 1 .. Len(F) : F[i].kind = "R"}
InTurn(F, e) == \A i \in 1 .. Len(F) : F[i].tag = (e + i - 1) % Tags
Match(R, E, F, e) ==
  /\ Len(R) <= Len(E)
  /\ \A i \in 1 .. Len(R) : R[i] = E[i]
  /\ {E[i] : i \in Len(R) + 1 .. Len(E)} = {F[i].tag : i \in Reads(F)}
  /\ \A i, j \in Len(R) + 1 .. Len(E) : i < j => Dist(E[i], e) < Dist(E[j], e)

LEMMA DistIs ==
  ASSUME NEW t \in TagSet, NEW e \in TagSet
  PROVE  /\ Dist(t, e) = IF t >= e THEN t - e ELSE t + (Tags - e)
         /\ Dist(t, e) \in Nat
<1>1. t \in Nat /\ t < Tags /\ e \in Nat /\ e < Tags  BY Sizes
<1>2. t + (Tags - e) \in Nat /\ t + (Tags - e) < 2 * Tags  BY <1>1, Sizes
<1>3. (t + (Tags - e)) % Tags = Rest(t + (Tags - e))  BY <1>2, ModTags
<1>4. Dist(t, e) = Rest(t + (Tags - e))  BY <1>3 DEF Dist
<1>5. QED  BY <1>1, <1>4, Sizes DEF Rest

\* The k-th command from the next one is k commands away.
LEMMA DistOf ==
  ASSUME NEW e \in TagSet, NEW k \in Nat, k < Tags
  PROVE  (e + k) % Tags \in TagSet /\ Dist((e + k) % Tags, e) = k
<1>1. e \in Nat /\ e < Tags  BY Sizes
<1>2. e + k \in Nat /\ e + k < 2 * Tags  BY <1>1, Sizes
<1>3. (e + k) % Tags = Rest(e + k)  BY <1>2, ModTags
<1>4. (e + k) % Tags \in TagSet  BY <1>2, TagsType
<1>5. Dist((e + k) % Tags, e)
        = IF (e + k) % Tags >= e THEN ((e + k) % Tags) - e
          ELSE ((e + k) % Tags) + (Tags - e)
  BY <1>4, DistIs
<1>6. (IF Rest(e + k) >= e THEN Rest(e + k) - e ELSE Rest(e + k) + (Tags - e)) = k
  BY <1>1, <1>2, Sizes DEF Rest
<1>7. QED  BY <1>3, <1>4, <1>5, <1>6

\* When it has been executed the others are one command closer.
LEMMA DistNext ==
  ASSUME NEW t \in TagSet, NEW e \in TagSet, Dist(t, e) # 0
  PROVE  Dist(t, (e + 1) % Tags) = Dist(t, e) - 1
<1>. DEFINE d == (e + 1) % Tags
<1>1. t \in Nat /\ t < Tags /\ e \in Nat /\ e < Tags  BY Sizes
<1>2. e + 1 \in Nat /\ e + 1 < 2 * Tags  BY <1>1, Sizes
<1>3. d = Rest(e + 1)  BY <1>2, ModTags
<1>4. d \in TagSet  BY <1>2, TagsType
<1>. HIDE DEF d
<1>5. /\ Dist(t, e) = IF t >= e THEN t - e ELSE t + (Tags - e)
      /\ Dist(t, d) = IF t >= d THEN t - d ELSE t + (Tags - d)
  BY <1>4, DistIs
<1>6. t # e  BY <1>1, <1>5
<1>7. d = IF e + 1 < Tags THEN e + 1 ELSE 0
  BY <1>1, <1>3, Sizes DEF Rest
<1>8. Dist(t, d) = Dist(t, e) - 1
  BY <1>1, <1>5, <1>6, <1>7, Sizes
<1>9. QED  BY <1>8 DEF d

LEMMA InTurnDist ==
  ASSUME NEW F \in Seq(Command), NEW e \in TagSet, InTurn(F, e),
         Len(F) < Tags, NEW i \in 1 .. Len(F)
  PROVE  F[i].tag \in TagSet /\ Dist(F[i].tag, e) = i - 1
<1>1. Len(F) \in Nat /\ e \in Nat  BY Sizes
<1>2. i - 1 \in Nat /\ i - 1 < Tags /\ e + (i - 1) = e + i - 1
  BY <1>1, Sizes
<1>3. F[i].tag = (e + (i - 1)) % Tags  BY <1>2 DEF InTurn
<1>4. QED  BY <1>2, <1>3, DistOf

\* Nothing is on its way on a new connection.
LEMMA MatchEmpty == ASSUME NEW e PROVE Match(<<>>, <<>>, <<>>, e)
BY EmptySeq DEF Match, Reads

\* The client takes an answer.
LEMMA MatchTail ==
  ASSUME NEW R \in Seq(Sent), NEW E \in Seq(TagSet), NEW F, NEW e,
         R # <<>>, E # <<>>, Match(R, E, F, e)
  PROVE  Match(Tail(R), Tail(E), F, e)
<1>1. /\ Len(R) \in Nat \ {0} /\ Len(E) \in Nat \ {0}
      /\ Len(Tail(R)) = Len(R) - 1 /\ Len(Tail(E)) = Len(E) - 1
      /\ \A i \in 1 .. Len(Tail(R)) : Tail(R)[i] = R[i + 1]
      /\ \A i \in 1 .. Len(Tail(E)) : Tail(E)[i] = E[i + 1]
  BY HeadTailProperties, EmptySeq
<1>2. Len(Tail(R)) <= Len(Tail(E))  BY <1>1 DEF Match
<1>3. \A i \in 1 .. Len(Tail(R)) : Tail(R)[i] = Tail(E)[i]
  BY <1>1, <1>2 DEF Match
<1>4. ASSUME NEW i \in Len(Tail(R)) + 1 .. Len(Tail(E))
      PROVE  i + 1 \in Len(R) + 1 .. Len(E) /\ Tail(E)[i] = E[i + 1]
  BY <1>1
<1>5. ASSUME NEW i \in Len(R) + 1 .. Len(E)
      PROVE  /\ i - 1 \in Len(Tail(R)) + 1 .. Len(Tail(E))
             /\ Tail(E)[i - 1] = E[i]
  BY <1>1
<1>6. {Tail(E)[i] : i \in Len(Tail(R)) + 1 .. Len(Tail(E))}
        = {E[i] : i \in Len(R) + 1 .. Len(E)}
  <2>1. ASSUME NEW i \in Len(Tail(R)) + 1 .. Len(Tail(E))
        PROVE  Tail(E)[i] \in {E[j] : j \in Len(R) + 1 .. Len(E)}
    BY <1>4
  <2>2. ASSUME NEW i \in Len(R) + 1 .. Len(E)
        PROVE  E[i] \in {Tail(E)[j] : j \in Len(Tail(R)) + 1 .. Len(Tail(E))}
    BY <1>5
  <2>3. QED  BY <2>1, <2>2
<1>7. ASSUME NEW i \in Len(Tail(R)) + 1 .. Len(Tail(E)),
             NEW j \in Len(Tail(R)) + 1 .. Len(Tail(E)), i < j
      PROVE  Dist(Tail(E)[i], e) < Dist(Tail(E)[j], e)
  <2>1. i + 1 < j + 1  BY <1>1, <1>7
  <2>2. Dist(E[i + 1], e) < Dist(E[j + 1], e)
    BY <1>4, <2>1 DEF Match
  <2>3. QED  BY <1>4, <2>2
<1>8. QED  BY <1>2, <1>3, <1>6, <1>7 DEF Match

\* The client sends a command; c is a read if the tag is expected.
LEMMA MatchAdd ==
  ASSUME NEW R \in Seq(Sent), NEW E \in Seq(TagSet), NEW F \in Seq(Command),
         NEW e \in TagSet, NEW c \in Command, InTurn(F, e), Len(F) + 1 < Tags,
         c.tag = (e + Len(F)) % Tags, Match(R, E, F, e)
  PROVE  Match(R, IF c.kind = "R" THEN Append(E, c.tag) ELSE E,
               Append(F, c), e)
<1>. DEFINE G == Append(F, c)
<1>1. /\ Len(F) \in Nat /\ Len(E) \in Nat /\ Len(R) \in Nat
      /\ Len(G) = Len(F) + 1 /\ G[Len(F) + 1] = c
      /\ \A i \in 1 .. Len(F) : G[i] = F[i]
  BY AppendProperties
<1>. HIDE DEF G
<1>2. CASE c.kind # "R"
  <2>1. Reads(G) = Reads(F)  BY <1>1, <1>2 DEF Reads
  <2>2. {G[i].tag : i \in Reads(G)} = {F[i].tag : i \in Reads(F)}
    BY <1>1, <2>1 DEF Reads
  <2>3. Match(R, E, G, e)  BY <2>2 DEF Match
  <2>4. QED  BY <1>2, <2>3 DEF G
<1>3. CASE c.kind = "R"
  <2>. DEFINE D == Append(E, c.tag)
  <2>1. c.tag \in TagSet  BY DEF Command
  <2>2. /\ Len(D) = Len(E) + 1 /\ D[Len(E) + 1] = c.tag
        /\ \A i \in 1 .. Len(E) : D[i] = E[i]
    BY <2>1, AppendProperties
  <2>. HIDE DEF D
  <2>3. Reads(G) = Reads(F) \cup {Len(F) + 1}
    BY <1>1, <1>3 DEF Reads
  <2>4. Len(R) <= Len(D) /\ \A i \in 1 .. Len(R) : R[i] = D[i]
    BY <1>1, <2>2 DEF Match
  <2>5. {D[i] : i \in Len(R) + 1 .. Len(D)} = {G[i].tag : i \in Reads(G)}
    <3>1. {D[i] : i \in Len(R) + 1 .. Len(D)}
            = {E[i] : i \in Len(R) + 1 .. Len(E)} \cup {c.tag}
      <4>1. Len(R) <= Len(E)  BY DEF Match
      <4>2. \A i \in Len(R) + 1 .. Len(D) :
              \/ i \in Len(R) + 1 .. Len(E) /\ D[i] = E[i]
              \/ i = Len(E) + 1 /\ D[i] = c.tag
        BY <1>1, <2>2
      <4>3. /\ \A i \in Len(R) + 1 .. Len(E) :
                 i \in Len(R) + 1 .. Len(D) /\ D[i] = E[i]
            /\ Len(E) + 1 \in Len(R) + 1 .. Len(D)
        BY <1>1, <2>2, <4>1
      <4>4. QED  BY <2>2, <4>2, <4>3
    <3>2. {G[i].tag : i \in Reads(G)} = {F[i].tag : i \in Reads(F)} \cup {c.tag}
      <4>1. \A i \in Reads(F) : G[i] = F[i]  BY <1>1 DEF Reads
      <4>2. QED  BY <1>1, <2>3, <4>1
    <3>3. QED  BY <3>1, <3>2 DEF Match
  <2>6. Dist(c.tag, e) = Len(F)
    <3>1. Len(F) < Tags  BY <1>1, Sizes
    <3>2. QED  BY <1>1, <3>1, DistOf
  <2>7. ASSUME NEW i \in Len(R) + 1 .. Len(E)
        PROVE  Dist(E[i], e) < Len(F)
    <3>1. PICK k \in Reads(F) : E[i] = F[k].tag  BY DEF Match
    <3>2. k \in 1 .. Len(F)  BY DEF Reads
    <3>3. Dist(F[k].tag, e) = k - 1
      <4>1. Len(F) < Tags  BY <1>1, Sizes
      <4>2. QED  BY <3>2, <4>1, InTurnDist
    <3>4. QED  BY <1>1, <3>1, <3>2, <3>3
  <2>8. ASSUME NEW i \in Len(R) + 1 .. Len(D), NEW j \in Len(R) + 1 .. Len(D),
               i < j
        PROVE  Dist(D[i], e) < Dist(D[j], e)
    <3>1. i \in Len(R) + 1 .. Len(E) /\ D[i] = E[i]  BY <1>1, <2>2, <2>8
    <3>2. CASE j = Len(E) + 1
      BY <2>2, <2>6, <2>7, <3>1, <3>2
    <3>3. CASE j # Len(E) + 1
      <4>1. j \in Len(R) + 1 .. Len(E) /\ D[j] = E[j]
        BY <1>1, <2>2, <3>3
      <4>2. QED  BY <2>8, <3>1, <4>1 DEF Match
    <3>4. QED  BY <3>2, <3>3
  <2>9. Match(R, D, G, e)  BY <2>4, <2>5, <2>8 DEF Match
  <2>10. QED  BY <1>3, <2>9 DEF D, G
<1>4. QED  BY <1>2, <1>3

(***************************************************************************)
(* The next command is executed: if it is a read, its answer is the one    *)
(* that the client expects after all the others.                           *)
(***************************************************************************)
LEMMA MatchExecute ==
  ASSUME NEW R \in Seq(Sent), NEW E \in Seq(TagSet), NEW F \in Seq(Command),
         NEW e \in TagSet, InTurn(F, e), Len(F) < Tags, F # <<>>,
         Match(R, E, F, e)
  PROVE  Match(IF F[1].kind = "R" THEN Append(R, F[1].tag) ELSE R, E,
               Tail(F), (e + 1) % Tags)
<1>. DEFINE G == Tail(F)
            Q == IF F[1].kind = "R" THEN Append(R, F[1].tag) ELSE R
            d == (e + 1) % Tags
<1>1. /\ Len(F) \in Nat \ {0} /\ Len(E) \in Nat /\ Len(R) \in Nat
      /\ Len(R) <= Len(E)
  BY EmptySeq DEF Match
<1>2. /\ Len(G) = Len(F) - 1
      /\ \A i \in 1 .. Len(G) : G[i] = F[i + 1]
  BY HeadTailProperties
<1>3. F[1] \in Command /\ F[1].tag \in TagSet /\ F[1].tag \in Sent
  <2>1. F[1] \in Command  BY <1>1, ElementOfSeq
  <2>2. QED  BY <2>1 DEF Command, Sent
<1>4. \A i \in 1 .. Len(F) : F[i].tag \in TagSet /\ Dist(F[i].tag, e) = i - 1
  BY InTurnDist
\* What is expected and not answered is a read on its way, and conversely.
<1>5. ASSUME NEW i \in Len(R) + 1 .. Len(E)
      PROVE  \E k \in 1 .. Len(F) :
               F[k].kind = "R" /\ E[i] = F[k].tag /\ Dist(E[i], e) = k - 1
  <2>1. PICK k \in Reads(F) : E[i] = F[k].tag  BY DEF Match
  <2>2. QED  BY <1>4, <2>1 DEF Reads
<1>6. ASSUME NEW k \in 1 .. Len(F), F[k].kind = "R"
      PROVE  \E i \in Len(R) + 1 .. Len(E) :
               E[i] = F[k].tag /\ Dist(E[i], e) = k - 1
  <2>1. k \in Reads(F)  BY <1>6 DEF Reads
  <2>2. PICK i \in Len(R) + 1 .. Len(E) : E[i] = F[k].tag
    BY <2>1 DEF Match
  <2>3. QED  BY <1>4, <2>2
\* The places of Q beyond those of R.
<1>7. /\ Q \in Seq(Sent)
      /\ Len(Q) = IF F[1].kind = "R" THEN Len(R) + 1 ELSE Len(R)
      /\ \A i \in 1 .. Len(R) : Q[i] = R[i]
      /\ F[1].kind = "R" => Q[Len(R) + 1] = F[1].tag
  <2>1. /\ Append(R, F[1].tag) \in Seq(Sent)
        /\ Len(Append(R, F[1].tag)) = Len(R) + 1
        /\ \A i \in 1 .. Len(R) : Append(R, F[1].tag)[i] = R[i]
        /\ Append(R, F[1].tag)[Len(R) + 1] = F[1].tag
    BY <1>3, AppendProperties
  <2>2. CASE F[1].kind = "R"  BY <2>1, <2>2
  <2>3. CASE F[1].kind # "R"  BY <2>3
  <2>4. QED  BY <2>2, <2>3
<1>. HIDE DEF Q, G, d
\* A read that is executed is the first that is not answered.
<1>8. F[1].kind = "R" =>
        /\ Len(R) + 1 \in Len(R) + 1 .. Len(E)
        /\ E[Len(R) + 1] = F[1].tag /\ Dist(E[Len(R) + 1], e) = 0
  <2> SUFFICES ASSUME F[1].kind = "R"
               PROVE  /\ Len(R) + 1 \in Len(R) + 1 .. Len(E)
                      /\ E[Len(R) + 1] = F[1].tag
                      /\ Dist(E[Len(R) + 1], e) = 0
    OBVIOUS
  <2>1. PICK i \in Len(R) + 1 .. Len(E) :
               E[i] = F[1].tag /\ Dist(E[i], e) = 0
    <3>1. 1 \in 1 .. Len(F) /\ 1 - 1 = 0  BY <1>1
    <3>2. QED  BY <1>6, <3>1
  <2>2. Len(R) + 1 \in Len(R) + 1 .. Len(E)  BY <1>1, <2>1
  <2>3. Dist(E[Len(R) + 1], e) \in Nat
    <3>1. Len(R) + 1 \in 1 .. Len(E)  BY <1>1, <2>2
    <3>2. E[Len(R) + 1] \in TagSet  BY <3>1, ElementOfSeq
    <3>3. QED  BY <3>2, DistIs
  <2>4. i = Len(R) + 1
    <3>1. CASE Len(R) + 1 < i
      <4>1. Dist(E[Len(R) + 1], e) < Dist(E[i], e)
        BY <2>2, <3>1 DEF Match
      <4>2. QED  BY <2>1, <2>3, <4>1
    <3>2. QED  BY <1>1, <2>1, <3>1
  <2>5. QED  BY <2>1, <2>2, <2>4
<1>9. /\ Len(Q) <= Len(E)
      /\ \A i \in 1 .. Len(Q) : Q[i] = E[i]
  <2>1. \A i \in 1 .. Len(R) : Q[i] = E[i]  BY <1>7 DEF Match
  <2>2. CASE F[1].kind = "R"
    <3>1. Len(Q) = Len(R) + 1 /\ Q[Len(R) + 1] = E[Len(R) + 1]
          /\ Len(R) + 1 <= Len(E)
      BY <1>1, <1>7, <1>8, <2>2
    <3>2. QED  BY <1>1, <2>1, <3>1
  <2>3. CASE F[1].kind # "R"  BY <1>1, <1>7, <2>1, <2>3
  <2>4. QED  BY <2>2, <2>3
\* All the others are further away, and one command closer afterwards.
<1>10. ASSUME NEW i \in Len(Q) + 1 .. Len(E)
       PROVE  /\ i \in Len(R) + 1 .. Len(E)
              /\ Dist(E[i], e) \in Nat \ {0}
              /\ Dist(E[i], d) = Dist(E[i], e) - 1
  <2>1. i \in Len(R) + 1 .. Len(E)  BY <1>1, <1>7
  <2>2. PICK k \in 1 .. Len(F) :
               F[k].kind = "R" /\ E[i] = F[k].tag /\ Dist(E[i], e) = k - 1
    BY <1>5, <2>1
  <2>3. k # 1
    <3>1. CASE F[1].kind = "R"
      <4>1. Len(R) + 1 < i /\ Len(R) + 1 \in Len(R) + 1 .. Len(E)
        BY <1>1, <1>7, <1>8, <3>1
      <4>2. Dist(E[Len(R) + 1], e) < Dist(E[i], e)
        BY <2>1, <4>1 DEF Match
      <4>3. 0 < k - 1  BY <1>8, <2>2, <3>1, <4>2
      <4>4. QED  BY <4>3
    <3>2. CASE F[1].kind # "R"  BY <2>2, <3>2
    <3>3. QED  BY <3>1, <3>2
  <2>4. Dist(E[i], e) \in Nat \ {0}  BY <1>1, <2>2, <2>3
  <2>5. E[i] \in TagSet
    BY <1>4, <2>2
  <2>6. Dist(E[i], d) = Dist(E[i], e) - 1
    BY <2>4, <2>5, DistNext DEF d
  <2>7. QED  BY <2>1, <2>4, <2>6
<1>11. {E[i] : i \in Len(Q) + 1 .. Len(E)} = {G[i].tag : i \in Reads(G)}
  <2>1. ASSUME NEW i \in Len(Q) + 1 .. Len(E)
        PROVE  E[i] \in {G[k].tag : k \in Reads(G)}
    <3>1. PICK k \in 1 .. Len(F) :
                 F[k].kind = "R" /\ E[i] = F[k].tag /\ Dist(E[i], e) = k - 1
      BY <1>5, <1>10
    <3>2. k - 1 \in Nat \ {0}  BY <1>10, <3>1
    <3>3. k - 1 \in 1 .. Len(G) /\ (k - 1) + 1 = k
      BY <1>1, <1>2, <3>1, <3>2
    <3>4. G[k - 1] = F[k]  BY <1>2, <3>3
    <3>5. k - 1 \in Reads(G)  BY <3>1, <3>3, <3>4 DEF Reads
    <3>6. QED  BY <3>1, <3>4, <3>5
  <2>2. ASSUME NEW k \in Reads(G)
        PROVE  G[k].tag \in {E[i] : i \in Len(Q) + 1 .. Len(E)}
    <3>1. /\ k + 1 \in 1 .. Len(F) /\ G[k] = F[k + 1] /\ F[k + 1].kind = "R"
          /\ k \in Nat \ {0}
      BY <1>1, <1>2 DEF Reads
    <3>2. PICK i \in Len(R) + 1 .. Len(E) :
                 E[i] = F[k + 1].tag /\ Dist(E[i], e) = (k + 1) - 1
      BY <1>6, <3>1
    <3>3. i \in Len(Q) + 1 .. Len(E)
      <4>1. CASE F[1].kind = "R"
        <5>1. i # Len(R) + 1  BY <1>8, <3>1, <3>2, <4>1
        <5>2. QED  BY <1>1, <1>7, <3>2, <4>1, <5>1
      <4>2. CASE F[1].kind # "R"  BY <1>7, <3>2, <4>2
      <4>3. QED  BY <4>1, <4>2
    <3>4. QED  BY <3>1, <3>2, <3>3
  <2>3. QED  BY <2>1, <2>2
<1>12. ASSUME NEW i \in Len(Q) + 1 .. Len(E), NEW j \in Len(Q) + 1 .. Len(E),
              i < j
       PROVE  Dist(E[i], d) < Dist(E[j], d)
  <2>1. Dist(E[i], e) < Dist(E[j], e)  BY <1>10, <1>12 DEF Match
  <2>2. QED  BY <1>10, <2>1
<1>13. Match(Q, E, G, d)  BY <1>9, <1>11, <1>12 DEF Match
<1>14. QED  BY <1>13 DEF Q, G, d

----------------------------------------------------------------------------
(***************************************************************************)
(* What the steps do to the answers on their way.                          *)
(***************************************************************************)
Unsent == IF pc \in {"process", "flush"}
          THEN SubSeq(send_buf, sent + 1, send_offset) ELSE <<>>

\* The bytes that are still to be sent.
LEMMA Remaining ==
  ASSUME NEW b \in [1 .. BufSize -> Sent], NEW n \in 0 .. BufSize
  PROVE  /\ SubSeq(b, 1, n) \in Seq(Sent) /\ Len(SubSeq(b, 1, n)) = n
         /\ \A i \in 1 .. n : SubSeq(b, 1, n)[i] = b[i]
<1>1. \A i \in 1 .. n : b[i] \in Sent  BY Sizes
<1>2. /\ SubSeq(b, 1, n) \in Seq(Sent)
      /\ Len(SubSeq(b, 1, n)) = IF 1 <= n THEN n - 1 + 1 ELSE 0
      /\ \A i \in 1 .. n - 1 + 1 : SubSeq(b, 1, n)[i] = b[1 + i - 1]
  BY <1>1, Sizes, SubSeqProperties
<1>3. \A i \in 1 .. n : SubSeq(b, 1, n)[i] = b[i]
  <2>1. ASSUME NEW i \in 1 .. n PROVE SubSeq(b, 1, n)[i] = b[i]
    <3>1. i \in 1 .. n - 1 + 1 /\ 1 + i - 1 = i  BY Sizes
    <3>2. QED  BY <1>2, <3>1
  <2>2. QED  BY <2>1
<1>4. Len(SubSeq(b, 1, n)) = n  BY <1>2, Sizes
<1>5. QED  BY <1>2, <1>3, <1>4

LEMMA NothingRemains ==
  ASSUME NEW b, NEW m \in Nat, NEW n \in Nat, n <= m
  PROVE  SubSeq(b, m + 1, n) = <<>>
BY SubSeqEmpty

LEMMA UnsentIs ==
  ASSUME Inv
  PROVE  /\ pc \notin {"process", "flush"} => Unsent = <<>>
         /\ sent >= send_offset => Unsent = <<>>
         /\ pc \in {"process", "flush"} /\ sent = 0
              => Unsent = SubSeq(send_buf, 1, send_offset)
         /\ sent = 0 => Unsent \in Seq(Sent)
<1>1. /\ sent \in Nat /\ send_offset \in 0 .. BufSize /\ send_offset \in Nat
      /\ send_buf \in [1 .. BufSize -> Sent]
  BY Sizes DEF Inv, TypeOK, Queues, Sent
<1>2. pc \notin {"process", "flush"} => Unsent = <<>>  BY DEF Unsent
<1>3. sent >= send_offset => Unsent = <<>>
  <2>1. ASSUME sent >= send_offset
        PROVE  SubSeq(send_buf, sent + 1, send_offset) = <<>>
    BY <1>1, <2>1, NothingRemains
  <2>2. QED  BY <2>1 DEF Unsent
<1>4. pc \in {"process", "flush"} /\ sent = 0
        => Unsent = SubSeq(send_buf, 1, send_offset)
  <2>1. 0 + 1 = 1  OBVIOUS
  <2>2. QED  BY <2>1 DEF Unsent
<1>5. sent = 0 => Unsent \in Seq(Sent)
  <2>1. SubSeq(send_buf, 1, send_offset) \in Seq(Sent)  BY <1>1, Remaining
  <2>2. QED  BY <1>2, <1>4, <2>1, EmptySeq
<1>6. QED  BY <1>2, <1>3, <1>4, <1>5

\* The server writes either all of a batch at once or aborts.
SentWhole == pc = "flush" => sent = 0 \/ sent >= send_offset

LEMMA ReplyType ==
  ASSUME Inv, SentWhole, pc # "aborted"
  PROVE  InReply = outbox \o Unsent /\ InReply \in Seq(Sent)
         /\ outbox \in Seq(Sent) /\ Unsent \in Seq(Sent)
<1>1. InReply = outbox \o Unsent  BY DEF InReply, Unsent
<1>2. outbox \in Seq(Sent)  BY DEF Inv, Queues
<1>3. Unsent \in Seq(Sent)
  <2>1. pc = "flush" \/ sent = 0  BY DEF Inv, TypeOK, Places
  <2>2. CASE sent = 0  BY <2>2, UnsentIs
  <2>3. CASE pc = "flush" /\ sent >= send_offset
    BY <2>3, UnsentIs, EmptySeq
  <2>4. QED  BY <2>1, <2>2, <2>3 DEF SentWhole
<1>4. QED  BY <1>1, <1>2, <1>3, ConcatProperties

LEMMA ProcessAnswers ==
  ASSUME Inv, SentWhole, Process
  PROVE  InReply' = IF Head(recv).kind = "R"
                    THEN Append(InReply, Head(recv).tag) ELSE InReply
<1>1. /\ Head(recv) \in Command /\ send_offset < BufSize
      /\ IF Head(recv).kind = "R"
         THEN /\ send_offset' = send_offset + 1
              /\ send_buf' = [send_buf EXCEPT ![send_offset + 1]
                                               = Head(recv).tag]
         ELSE UNCHANGED <<send_offset, send_buf>>
      /\ pc' \in {"process", "flush"}
      /\ UNCHANGED <<sent, outbox>>
  BY Processed
<1>2. /\ pc = "process" /\ sent = 0 /\ send_offset \in 0 .. BufSize
      /\ send_buf \in [1 .. BufSize -> Sent]
  BY DEF Inv, TypeOK, Places, Process, Sent
<1>3. /\ InReply = outbox \o SubSeq(send_buf, 1, send_offset)
      /\ outbox \in Seq(Sent)
  BY <1>2, UnsentIs, ReplyType
<1>4. InReply' = outbox \o SubSeq(send_buf', 1, send_offset')
  <2>1. sent' + 1 = 1 /\ outbox' = outbox  BY <1>1, <1>2
  <2>2. InReply' = outbox' \o SubSeq(send_buf', sent' + 1, send_offset')
    BY <1>1 DEF InReply
  <2>3. QED  BY <2>1, <2>2
<1>5. CASE Head(recv).kind # "R"  BY <1>1, <1>3, <1>4, <1>5
<1>6. CASE Head(recv).kind = "R"
  <2>. DEFINE u == SubSeq(send_buf, 1, send_offset)
              v == SubSeq(send_buf', 1, send_offset')
              t == Head(recv).tag
  <2>1. /\ send_offset' = send_offset + 1
        /\ send_buf' = [send_buf EXCEPT ![send_offset + 1] = t]
    BY <1>1, <1>6
  <2>2. t \in Sent /\ send_offset + 1 \in 0 .. BufSize
    BY <1>1, <1>2, Sizes DEF Command, Sent
  <2>3. send_buf' \in [1 .. BufSize -> Sent]  BY <1>2, <2>1, <2>2
  <2>4. /\ u \in Seq(Sent) /\ Len(u) = send_offset
        /\ \A i \in 1 .. send_offset : u[i] = send_buf[i]
    BY <1>2, Remaining
  <2>5. /\ v \in Seq(Sent) /\ Len(v) = send_offset + 1
        /\ \A i \in 1 .. send_offset + 1 : v[i] = send_buf'[i]
    <3>1. send_offset' \in 0 .. BufSize  BY <2>1, <2>2
    <3>2. /\ v \in Seq(Sent) /\ Len(v) = send_offset'
          /\ \A i \in 1 .. send_offset' : v[i] = send_buf'[i]
      BY <2>3, <3>1, Remaining
    <3>3. QED  BY <2>1, <3>2
  <2>. HIDE DEF u, v, t
  <2>6. /\ Append(u, t) \in Seq(Sent) /\ Len(Append(u, t)) = Len(u) + 1
        /\ \A i \in 1 .. Len(u) : Append(u, t)[i] = u[i]
        /\ Append(u, t)[Len(u) + 1] = t
    BY <2>2, <2>4, AppendProperties
  <2>7. v = Append(u, t)
    <3>1. Len(v) = Len(Append(u, t))  BY <2>4, <2>5, <2>6
    <3>2. ASSUME NEW i \in 1 .. Len(v) PROVE v[i] = Append(u, t)[i]
      <4>1. CASE i = send_offset + 1
        <5>1. v[i] = t  BY <1>2, <2>1, <2>2, <2>5, <4>1, Sizes
        <5>2. QED  BY <2>4, <2>6, <4>1, <5>1
      <4>2. CASE i # send_offset + 1
        <5>1. i \in 1 .. send_offset /\ i \in 1 .. BufSize
          BY <1>1, <1>2, <2>5, <4>2, Sizes
        <5>2. v[i] = send_buf[i]  BY <1>2, <2>1, <2>5, <4>2, <5>1
        <5>3. QED  BY <2>4, <2>6, <5>1, <5>2
      <4>3. QED  BY <4>1, <4>2
    <3>3. QED  BY <2>5, <2>6, <3>1, <3>2, SeqEqual
  <2>8. outbox \o Append(u, t) = Append(outbox \o u, t)
    BY <1>3, <2>2, <2>4, AppendConcat
  <2>9. InReply = outbox \o u /\ InReply' = outbox \o v  BY <1>3, <1>4 DEF u, v
  <2>10. InReply' = Append(InReply, t)  BY <2>7, <2>8, <2>9
  <2>11. QED  BY <1>6, <2>10 DEF t
<1>7. QED  BY <1>5, <1>6

\* The beginning of a batch and the end of one leave nothing to be sent.
LEMMA MovesAnswers ==
  ASSUME Inv, SentWhole, Enter \/ Read \/ HangUp \/ UNCHANGED vars,
         pc # "aborted"
  PROVE  InReply' = InReply
<1>1. CASE HangUp \/ UNCHANGED vars
  BY <1>1 DEF HangUp, vars, serverVars, clientVars, InReply
<1>2. CASE Enter \/ Read
  <2>1. pc \in {"out", "read"} /\ sent = 0
    BY <1>2 DEF Enter, Read, Inv, Places
  <2>2. InReply = outbox \o <<>>  BY <2>1 DEF InReply
  <2>3. outbox' = outbox /\ sent' = 0
    BY <1>2, <2>1 DEF Enter, Read
  <2>4. \/ pc' \in {"out", "read"}
        \/ pc' = "process" /\ send_offset' = 0
    BY <1>2 DEF Enter, Read, BeginBatch, LeaveTick, FirstOffset
  <2>5. CASE pc' \in {"out", "read"}
    BY <2>2, <2>3, <2>5 DEF InReply
  <2>6. CASE pc' = "process" /\ send_offset' = 0
    <3>1. SubSeq(send_buf', sent' + 1, send_offset') = <<>>
      BY <2>3, <2>6, NothingRemains
    <3>2. QED  BY <2>2, <2>3, <2>6, <3>1 DEF InReply
  <2>7. QED  BY <2>4, <2>5, <2>6
<1>3. QED  BY <1>1, <1>2

LEMMA ReceiveAnswers ==
  ASSUME Inv, SentWhole, Receive, pc # "aborted"
  PROVE  /\ InReply # <<>> /\ InReply' = Tail(InReply)
         /\ expected # <<>> /\ expected' = Tail(expected)
         /\ connected /\ UNCHANGED <<executed, pc, connected>>
<1>1. /\ InReply = outbox \o Unsent
      /\ outbox \in Seq(Sent) /\ Unsent \in Seq(Sent)
  BY ReplyType
<1>2. /\ outbox # <<>> /\ outbox' = Tail(outbox)
      /\ expected # <<>> /\ expected' = Tail(expected)
      /\ connected /\ UNCHANGED <<executed, pc, sent, send_buf, send_offset,
                                  connected>>
  BY DEF Receive, serverVars
<1>3. /\ outbox \o Unsent # <<>>
      /\ Tail(outbox) \o Unsent = Tail(outbox \o Unsent)
  BY <1>1, <1>2, TailConcat
<1>4. InReply' = Tail(outbox) \o Unsent
  BY <1>2 DEF InReply, Unsent
<1>5. QED  BY <1>1, <1>2, <1>3, <1>4

(***************************************************************************)
(* A client that lets no more answers be open than fit in the socket.      *)
(***************************************************************************)
FlushSafe == AnswersMatch /\ SentWhole /\ AbortOnlyOnHangUp

LEMMA BatchFits ==
  ASSUME MaxOutstanding <= OutSize, Inv, AnswersMatch, pc = "flush",
         sent = 0
  PROVE  /\ Len(outbox) + send_offset <= OutSize
         /\ InReply = outbox \o SubSeq(send_buf, 1, send_offset)
         /\ outbox \in Seq(Sent)
<1>1. connected /\ Len(InReply) <= Len(expected)
  BY DEF Inv, Places, AnswersMatch
<1>2. SentWhole  BY DEF SentWhole
<1>3. /\ InReply = outbox \o SubSeq(send_buf, 1, send_offset)
      /\ outbox \in Seq(Sent)
  BY <1>2, UnsentIs, ReplyType
<1>4. /\ SubSeq(send_buf, 1, send_offset) \in Seq(Sent)
      /\ Len(SubSeq(send_buf, 1, send_offset)) = send_offset
  BY Remaining DEF Inv, TypeOK, Sent
<1>5. Len(InReply) = Len(outbox) + send_offset
  BY <1>3, <1>4, ConcatProperties
<1>6. /\ Len(expected) <= MaxOutstanding /\ Len(expected) \in Nat
      /\ Len(outbox) \in Nat /\ send_offset \in Nat
  BY <1>3, Sizes DEF Inv, Queues, TypeOK
<1>7. QED  BY <1>1, <1>3, <1>5, <1>6, Sizes

LEMMA FlushAnswers ==
  ASSUME MaxOutstanding <= OutSize, Inv, FlushSafe, Flush
  PROVE  /\ pc' # "aborted" => InReply' = InReply
         /\ SentWhole' /\ AbortOnlyOnHangUp'
<1>1. /\ FlushDone \/ FlushAborts \/ FlushWrites
      /\ pc = "flush"
      /\ UNCHANGED <<send_buf, send_offset, hungup>>
  BY FlushCases DEF Inv
<1>2. /\ sent \in Nat /\ send_offset \in Nat /\ send_offset \in 0 .. BufSize
      /\ send_buf \in [1 .. BufSize -> Sent] /\ Len(outbox) \in Nat
  BY Sizes DEF Inv, TypeOK, Queues, Sent
<1>3. CASE FlushDone
  <2>1. pc' \in {"out", "read"} /\ outbox' = outbox /\ sent >= send_offset
    BY <1>3 DEF FlushDone, LeaveTick
  <2>2. InReply' = outbox \o <<>>  BY <2>1 DEF InReply
  <2>3. InReply = outbox \o <<>>
    <3>1. pc # "aborted"  BY <1>1
    <3>2. Unsent = <<>>  BY <2>1, UnsentIs
    <3>3. QED  BY <3>1, <3>2, ReplyType DEF FlushSafe
  <2>4. QED  BY <2>1, <2>2, <2>3 DEF SentWhole, AbortOnlyOnHangUp
<1>4. CASE FlushAborts
  <2>1. pc' = "aborted" /\ sent < send_offset /\ (hungup \/ Room = 0)
    BY <1>4 DEF FlushAborts
  <2>2. sent = 0  BY <1>1, <1>2, <2>1 DEF FlushSafe, SentWhole
  <2>3. Len(outbox) + send_offset <= OutSize
    BY <1>1, <2>2, BatchFits DEF FlushSafe
  <2>4. Room # 0  BY <1>2, <2>1, <2>2, <2>3, Sizes DEF Room
  <2>5. QED  BY <1>1, <2>1, <2>4 DEF SentWhole, AbortOnlyOnHangUp
<1>5. CASE FlushWrites
  <2>. DEFINE u == SubSeq(send_buf, 1, send_offset)
  <2>1. sent < send_offset /\ pc' = "flush"
    BY <1>1, <1>5 DEF FlushWrites
  <2>2. sent = 0  BY <1>1, <1>2, <2>1 DEF FlushSafe, SentWhole
  <2>3. /\ Len(outbox) + send_offset <= OutSize
        /\ InReply = outbox \o u /\ outbox \in Seq(Sent)
    BY <1>1, <2>2, BatchFits DEF FlushSafe
  <2>4. ~(Room < send_offset)  BY <1>2, <2>3, Sizes DEF Room
  <2>5. sent' = send_offset /\ outbox' = outbox \o Written(send_offset)
    BY <1>2, <1>5, <2>2, <2>4 DEF FlushWrites
  <2>6. Written(send_offset) = u
    <3>1. /\ Written(send_offset) \in Seq(Sent)
          /\ Len(Written(send_offset)) = send_offset
      BY <1>2, WrittenType DEF Inv
    <3>2. /\ u \in Seq(Sent) /\ Len(u) = send_offset
          /\ \A i \in 1 .. send_offset : u[i] = send_buf[i]
      BY <1>2, Remaining
    <3>3. ASSUME NEW i \in 1 .. send_offset
          PROVE  Written(send_offset)[i] = u[i]
      <4>1. sent + i = i /\ i \in 1 .. BufSize  BY <1>2, <2>2, Sizes
      <4>2. Written(send_offset)[i] = send_buf[i]
        BY <4>1 DEF Written
      <4>3. QED  BY <3>2, <4>2
    <3>4. QED  BY <3>1, <3>2, <3>3, SeqEqual
  <2>7. InReply' = outbox' \o <<>>
    <3>1. SubSeq(send_buf', sent' + 1, send_offset') = <<>>
      <4>1. sent' \in Nat /\ send_offset' \in Nat /\ send_offset' <= sent'
        BY <1>1, <1>2, <2>5
      <4>2. QED  BY <4>1, NothingRemains
    <3>2. QED  BY <2>1, <3>1 DEF InReply
  <2>8. outbox' = InReply  BY <2>3, <2>5, <2>6
  <2>9. InReply \in Seq(Sent)
    BY <1>1, ReplyType DEF FlushSafe
  <2>10. InReply' = InReply  BY <2>7, <2>8, <2>9, ConcatEmptySeq
  <2>11. SentWhole' /\ AbortOnlyOnHangUp'
    BY <1>1, <1>2, <2>1, <2>5 DEF SentWhole, AbortOnlyOnHangUp
  <2>12. QED  BY <2>10, <2>11
<1>6. QED  BY <1>1, <1>3, <1>4, <1>5

LEMMA MatchIs ==
  AnswersMatch <=>
    (connected /\ pc # "aborted" => Match(InReply, expected, InFlight, executed))
BY DEF AnswersMatch, Match, Reads, Dist, Ahead, Unanswered, ReadPlaces

LEMMA MatchIsNext ==
  AnswersMatch' <=>
    (connected' /\ pc' # "aborted"
       => Match(InReply', expected', InFlight', executed'))
BY DEF AnswersMatch, Match, Reads, Dist, Ahead, Unanswered, ReadPlaces

LEMMA SafeKept ==
  ASSUME MaxOutstanding <= OutSize
  PROVE  Inv /\ CommandsInOrder /\ FlushSafe /\ [Next]_vars => FlushSafe'
<1> SUFFICES ASSUME Inv, CommandsInOrder, FlushSafe, [Next]_vars
             PROVE  FlushSafe'
  OBVIOUS
<1>. USE DEF FlushSafe
<1>1. CASE UNCHANGED vars
  <2>1. UNCHANGED <<connected, recv, send_buf, send_offset, sent, pc, wire,
                    outbox, hungup, expected, executed>>
    BY <1>1 DEF vars, serverVars, clientVars
  <2>2. UNCHANGED <<InReply, InFlight>>  BY <2>1 DEF InReply, InFlight
  <2>3. AnswersMatch'
    BY <2>1, <2>2, MatchIs, MatchIsNext
  <2>4. QED  BY <2>1, <2>3 DEF SentWhole, AbortOnlyOnHangUp
<1>2. CASE pc = "aborted"
  <2>1. UNCHANGED vars  BY <1>2 DEF Next
  <2>2. QED  BY <1>1, <2>1
<1>3. CASE pc # "aborted" /\ Next
  <2>. DEFINE M == Match(InReply, expected, InFlight, executed)
  <2>1. /\ InFlight \in Seq(Command) /\ Len(InFlight) < Tags
        /\ expected \in Seq(TagSet) /\ executed \in TagSet
        /\ InReply \in Seq(Sent)
    BY <1>3, InFlightType, ReplyType DEF Inv, Queues, TypeOK
  <2>2. connected => M /\ InTurn(InFlight, executed)
    BY <1>3, MatchIs DEF CommandsInOrder, InTurn
  <2>. HIDE DEF M
  <2>3. CASE Accept
    <3>1. Starts /\ pc' = "out"  BY <2>3, AcceptStarts DEF Starts
    <3>2. InReply' = <<>>
      <4>1. InReply' = <<>> \o <<>>  BY <3>1 DEF Starts, InReply
      <4>2. QED  BY <4>1, EmptySeq, ConcatEmptySeq
    <3>3. Match(InReply', expected', InFlight', executed')
      BY <3>1, <3>2, MatchEmpty DEF Starts
    <3>4. QED
      BY <3>1, <3>3, MatchIsNext DEF SentWhole, AbortOnlyOnHangUp
  <2>4. CASE Process
    <3>1. /\ Executes /\ connected
          /\ InReply' = IF Head(recv).kind = "R"
                        THEN Append(InReply, Head(recv).tag) ELSE InReply
          /\ pc' \in {"process", "flush"} /\ sent' = 0
      BY <2>4, ProcessExecutes, ProcessAnswers, Processed
      DEF Inv, Places, Process
    <3>2. /\ InFlight # <<>> /\ InFlight[1] = Head(recv)
          /\ InFlight' = Tail(InFlight) /\ expected' = expected
          /\ executed' = (executed + 1) % Tags
      BY <3>1 DEF Executes
    <3>3. Match(InReply', expected', InFlight', executed')
      BY <2>1, <2>2, <3>1, <3>2, MatchExecute DEF M
    <3>4. QED
      BY <3>1, <3>3, MatchIsNext DEF SentWhole, AbortOnlyOnHangUp
  <2>5. ASSUME NEW k \in Commands, Send(k) PROVE FlushSafe'
    <3>. DEFINE c == [kind |-> k, tag |-> next]
    <3>1. /\ Adds(k) /\ connected
          /\ UNCHANGED <<pc, sent, send_buf, send_offset, outbox, hungup>>
      BY <2>5, SendAdds DEF Send, serverVars
    <3>2. InReply' = InReply  BY <3>1 DEF InReply
    <3>3. c \in Command /\ c.kind = k /\ c.tag = next
      BY BitbangAssumption DEF Inv, TypeOK, Command
    <3>4. next = (executed + Len(InFlight)) % Tags
      BY <3>1 DEF CommandsInOrder
    <3>5. Len(InFlight) + 1 < Tags
      <4>1. /\ Len(recv) <= BufSize /\ Len(wire) < WireSize
            /\ Len(recv) \in Nat /\ Len(wire) \in Nat
        BY <2>5 DEF Inv, TypeOK, Queues, Send
      <4>2. QED  BY <4>1, InFlightType, Sizes DEF Tags
    <3>6. /\ InFlight' = Append(InFlight, c) /\ executed' = executed
          /\ expected' = IF c.kind = "R" THEN Append(expected, c.tag)
                                         ELSE expected
      BY <3>1, <3>3 DEF Adds
    <3>. HIDE DEF c
    <3>7. Match(InReply, IF c.kind = "R" THEN Append(expected, c.tag)
                                         ELSE expected,
                Append(InFlight, c), executed)
      BY <2>1, <2>2, <3>1, <3>3, <3>4, <3>5, MatchAdd DEF M
    <3>8. Match(InReply', expected', InFlight', executed')
      BY <3>2, <3>6, <3>7
    <3>9. QED
      BY <3>1, <3>8, MatchIsNext DEF SentWhole, AbortOnlyOnHangUp
  <2>6. CASE Receive
    <3>1. /\ InReply # <<>> /\ InReply' = Tail(InReply)
          /\ expected # <<>> /\ expected' = Tail(expected)
          /\ connected /\ UNCHANGED <<executed, pc, connected>>
      BY <1>3, <2>6, ReceiveAnswers
    <3>2. InFlight' = InFlight  BY <2>6, MovesKeep DEF Moves
    <3>3. Match(InReply', expected', InFlight', executed')
      BY <2>1, <2>2, <3>1, <3>2, MatchTail DEF M
    <3>4. SentWhole' /\ AbortOnlyOnHangUp'
      BY <2>6 DEF Receive, serverVars, SentWhole, AbortOnlyOnHangUp
    <3>5. QED  BY <3>3, <3>4, MatchIsNext
  <2>7. CASE Enter \/ Read \/ HangUp \/ Flush
    <3>1. /\ UNCHANGED <<InFlight, executed>>
          /\ connected' => connected
          /\ expected' = expected
      BY <2>7, MovesKeep DEF Moves, Enter, Read, HangUp, Flush, clientVars
    <3>2. pc' # "aborted" => InReply' = InReply
      BY <1>3, <2>7, MovesAnswers, FlushAnswers
    <3>3. SentWhole' /\ AbortOnlyOnHangUp'
      <4>1. CASE Flush  BY <4>1, FlushAnswers
      <4>2. CASE HangUp
        BY <4>2 DEF HangUp, serverVars, SentWhole, AbortOnlyOnHangUp
      <4>3. CASE Enter \/ Read
        BY <4>3 DEF Enter, Read, BeginBatch, LeaveTick, SentWhole,
           AbortOnlyOnHangUp
      <4>4. QED  BY <2>7, <4>1, <4>2, <4>3
    <3>4. connected' /\ pc' # "aborted"
            => Match(InReply', expected', InFlight', executed')
      <4> SUFFICES ASSUME connected', pc' # "aborted"
                   PROVE  Match(InReply', expected', InFlight', executed')
        OBVIOUS
      <4>1. InReply' = InReply /\ Match(InReply, expected, InFlight, executed)
        BY <2>2, <3>1, <3>2 DEF M
      <4>2. InFlight' = InFlight /\ executed' = executed
            /\ expected' = expected
        BY <3>1
      <4>3. QED  BY <4>1, <4>2
    <3>5. QED  BY <3>3, <3>4, MatchIsNext
  <2>8. QED
    BY <1>3, <2>3, <2>4, <2>5, <2>6, <2>7 DEF Next, Server, Client
<1>4. QED  BY <1>1, <1>2, <1>3

LEMMA InitSafe == Init => FlushSafe
BY DEF Init, FlushSafe, AnswersMatch, SentWhole, AbortOnlyOnHangUp

(***************************************************************************)
(* A client that lets no more reads of TDO be open than fit in the socket  *)
(* gets an answer for each, the right one and in order, for any size of    *)
(* the buffers. The hypothesis is needed: a partial write is followed by   *)
(* bytes that are no answers.                                              *)
(***************************************************************************)
THEOREM AnswersAreRight ==
  ASSUME MaxOutstanding <= OutSize PROVE Spec => []AnswersMatch
<1>1. FlushSafe => AnswersMatch  BY DEF FlushSafe
<1>2. Init => CommandsInOrder  BY DEF Init, CommandsInOrder
<1>3. Inv /\ CommandsInOrder /\ FlushSafe /\ [Next]_vars => FlushSafe'
  BY SafeKept
<1>4. QED
  BY <1>1, <1>2, <1>3, InitInv, NextInv, OrderKept, InitSafe, PTL DEF Spec

(***************************************************************************)
(* With such a client the simulator aborts only when the client has hung   *)
(* up: a socket is never full when a batch of answers is written.          *)
(***************************************************************************)
THEOREM AbortsOnHangUp ==
  ASSUME MaxOutstanding <= OutSize PROVE Spec => []AbortOnlyOnHangUp
<1>1. FlushSafe => AbortOnlyOnHangUp  BY DEF FlushSafe
<1>2. Init => CommandsInOrder  BY DEF Init, CommandsInOrder
<1>3. Inv /\ CommandsInOrder /\ FlushSafe /\ [Next]_vars => FlushSafe'
  BY SafeKept
<1>4. QED
  BY <1>1, <1>2, <1>3, InitInv, NextInv, OrderKept, InitSafe, PTL DEF Spec
=============================================================================
