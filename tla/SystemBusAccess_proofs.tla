----------------------- MODULE SystemBusAccess_proofs -----------------------
(***************************************************************************)
(* Proofs about SystemBusAccess.                                           *)
(***************************************************************************)
EXTENDS SystemBusAccess, TLAPS

(***************************************************************************)
(* An access size, as sb_access_bits computes it, is a positive number of  *)
(* bytes.                                                                  *)
(***************************************************************************)
LEMMA SizeType == ASSUME NEW n \in 0 .. 7
                  PROVE  /\ BytesOfSize[n] \in Nat \ {0}
                         /\ n <= 3 => BytesOfSize[n] \in {1, 2, 4, 8}
<1>1. n \in {0, 1, 2, 3, 4, 5, 6, 7}  OBVIOUS
<1>2. QED  BY <1>1 DEF BytesOfSize

----------------------------------------------------------------------------
LEMMA InitTypeOK == Init => TypeOK
<1> SUFFICES ASSUME Init PROVE TypeOK  OBVIOUS
<1>1. mode \in SbcsModes  BY DEF Init, NoMode, SbcsModes
<1>2. error \in SbErrors  BY DEF Init, SbErrors
<1>3. sb_read_wait \in 0 .. SbDelay /\ sb_write_wait \in 0 .. SbDelay
  BY SbaAssumption DEF Init
<1>4. QED  BY <1>1, <1>2, <1>3 DEF Init, TypeOK

LEMMA StartType ==
  ASSUME TypeOK, sb_read_start \/ sb_write_start \/ NoStart \/ RefuseBusy
  PROVE  /\ sbbusyerror' \in BOOLEAN
         /\ sb_read_wait' \in 0 .. SbDelay /\ sb_write_wait' \in 0 .. SbDelay
<1> USE SbaAssumption DEF TypeOK
<1>1. CASE sb_read_start
  <2>1. CASE Blocked  BY <1>1, <2>1 DEF sb_read_start, Start
  <2>2. CASE ~Blocked  BY <1>1, <2>2 DEF sb_read_start, Start
  <2>3. QED  BY <2>1, <2>2
<1>2. CASE sb_write_start
  <2>1. CASE Blocked  BY <1>2, <2>1 DEF sb_write_start, Start
  <2>2. CASE ~Blocked  BY <1>2, <2>2 DEF sb_write_start, Start
  <2>3. QED  BY <2>1, <2>2
<1>3. CASE NoStart  BY <1>3 DEF NoStart, waitVars
<1>4. CASE RefuseBusy  BY <1>4 DEF RefuseBusy, waitVars
<1>5. QED  BY <1>1, <1>2, <1>3, <1>4

LEMMA AddressType == TypeOK => Address \in Nat
<1> SUFFICES ASSUME TypeOK PROVE Address \in Nat  OBVIOUS
<1>1. sbaddress[0] \in Nat /\ sbaddress[1] \in Nat
  BY SbaAssumption DEF TypeOK, Words
<1>2. sbaddress[1] * WordWrap \in Nat  BY <1>1, SbaAssumption
<1>3. QED  BY <1>1, <1>2 DEF Address

(***************************************************************************)
(* An access of a supported size fits in the two words of sbdata.          *)
(***************************************************************************)
LEMMA SupportedFits ==
  TypeOK /\ Supported => AccessBytes \in 1 .. 2 * WordBytes
<1> SUFFICES ASSUME TypeOK, Supported PROVE AccessBytes \in 1 .. 2 * WordBytes
  OBVIOUS
<1>1. AccessBytes \in Nat \ {0}
  BY SizeType DEF TypeOK, AccessBytes, SbcsModes
<1>2. AccessBytes <= 8
  BY SizeType DEF Supported, TypeOK, SbcsModes, AccessBytes
<1>3. 8 * AccessBytes <= MaxSbaWidth  BY DEF Supported
<1>4. QED  BY <1>1, <1>2, <1>3, SbaAssumption

LEMMA NextTypeOK == TypeOK /\ [Next]_vars => TypeOK'
<1> SUFFICES ASSUME TypeOK, [Next]_vars PROVE TypeOK'  OBVIOUS
<1>. USE SbaAssumption
<1>1. ASSUME NEW i \in 0 .. 1, NEW v \in AddressWrites, WriteSbaddress(i, v)
      PROVE  TypeOK'
  <2>1. sb_read_start \/ NoStart \/ RefuseBusy  BY <1>1 DEF WriteSbaddress
  <2>2. sbaddress' \in [0 .. 1 -> Words]  BY <1>1 DEF WriteSbaddress, TypeOK
  <2>3. QED  BY <1>1, <2>1, <2>2, StartType DEF WriteSbaddress, TypeOK
<1>2. ASSUME NEW i \in 0 .. 1, NEW v \in DataWords, WriteSbdata(i, v)
      PROVE  TypeOK'
  <2>1. sb_write_start \/ NoStart \/ RefuseBusy  BY <1>2 DEF WriteSbdata
  <2>2. ASSUME NEW b \in DataBytes PROVE b % WordBytes \in 0 .. WordBytes - 1
    BY DEF DataBytes
  <2>3. \A b \in DataBytes : v[b % WordBytes] \in Bytes
    BY <2>2 DEF DataWords
  <2>4. sbdata' \in [DataBytes -> Bytes]
    BY <1>2, <2>3 DEF WriteSbdata, TypeOK
  <2>5. QED  BY <1>2, <2>1, <2>4, StartType DEF WriteSbdata, TypeOK
<1>3. ASSUME NEW i \in 0 .. 1, ReadSbdata(i) PROVE TypeOK'
  <2>1. sb_read_start \/ NoStart \/ RefuseBusy  BY <1>3 DEF ReadSbdata
  <2>2. QED  BY <1>3, <2>1, StartType DEF ReadSbdata, TypeOK
<1>4. ASSUME run_test_idle PROVE TypeOK'
  <2>1. AccessBytes \in Nat
    BY SizeType DEF TypeOK, AccessBytes, SbcsModes
  <2>2. sbaddress' \in [0 .. 1 -> Words]
    <3>1. (sbaddress[0] + AccessBytes) % WordWrap \in Words
      BY <2>1 DEF TypeOK, Words
    <3>2. QED  BY <1>4, <3>1 DEF run_test_idle, sb_autoincrement, TypeOK
  <2>3. Outcome \in SbErrors /\ ErrorAfter \in SbErrors
    BY DEF Outcome, ErrorAfter, SbErrors, TypeOK
  <2>4. /\ error' \in SbErrors /\ sbdata' \in [DataBytes -> Bytes]
        /\ mem' \in [Cells -> Bytes]
    <3>1. CASE sb_read_wait = 1
      <4>1. sb_read  BY <1>4, <3>1 DEF run_test_idle
      <4>2. Outcome = 0 => \A b \in DataBytes : LoadedByte(b) \in Bytes
        <5> SUFFICES ASSUME Outcome = 0, NEW b \in DataBytes
                     PROVE  LoadedByte(b) \in Bytes
          OBVIOUS
        <5>1. Address \in Nat
          BY AddressType
        <5>2. Address .. Address + AccessBytes - 1 \subseteq Cells
          BY DEF Outcome, Traps
        <5>3. b < AccessBytes => Address + b \in Cells
          BY <2>1, <5>1, <5>2 DEF DataBytes
        <5>4. QED  BY <5>3 DEF LoadedByte, TypeOK
      <4>3. QED  BY <4>1, <4>2, <2>3 DEF sb_read, TypeOK
    <3>2. CASE sb_read_wait # 1 /\ sb_write_wait = 1
      <4>1. sb_write  BY <1>4, <3>2 DEF run_test_idle
      <4>2. Outcome = 0 =>
              \A a \in Address .. Address + AccessBytes - 1 :
                sbdata[a - Address] \in Bytes
        BY SupportedFits, AddressType DEF Outcome, DataBytes, TypeOK
      <4>3. QED  BY <4>1, <4>2, <2>3 DEF sb_write, TypeOK
    <3>3. CASE sb_read_wait # 1 /\ sb_write_wait # 1
      BY <1>4, <3>3 DEF run_test_idle, TypeOK
    <3>4. QED  BY <3>1, <3>2, <3>3
  <2>5. sb_read_wait' \in 0 .. SbDelay /\ sb_write_wait' \in 0 .. SbDelay
    BY <1>4 DEF run_test_idle, TypeOK
  <2>6. QED  BY <1>4, <2>2, <2>4, <2>5 DEF run_test_idle, TypeOK
<1>5. ASSUME NEW a \in Cells, NEW b \in Bytes, OtherStore(a, b)
      PROVE  TypeOK'
  BY <1>5 DEF OtherStore, TypeOK, sbcsVars, waitVars
<1>6. ASSUME NEW w \in SbcsWrites, NEW e \in SbErrors, NEW clear \in BOOLEAN,
             WriteSbcs(w, e, clear)
      PROVE  TypeOK'
  BY <1>6 DEF WriteSbcs, TypeOK, waitVars
<1>7. CASE reset
  <2>1. mode' \in SbcsModes  BY <1>7 DEF reset, NoMode, SbcsModes
  <2>2. error' \in SbErrors  BY <1>7 DEF reset, SbErrors
  <2>3. QED  BY <1>7, <2>1, <2>2 DEF reset, TypeOK, waitVars
<1>8. CASE UNCHANGED vars
  BY <1>8 DEF vars, sbcsVars, waitVars, TypeOK
<1>9. QED
  BY <1>1, <1>2, <1>3, <1>4, <1>5, <1>6, <1>7, <1>8 DEF Next, Access, Configure

(***************************************************************************)
(* Every reachable state is well typed: sbaddress stays within its words   *)
(* under sb_autoincrement, and sb_read and sb_write stay within sbdata.    *)
(***************************************************************************)
THEOREM Typing == Spec => []TypeOK
<1>1. QED  BY InitTypeOK, NextTypeOK, PTL DEF Spec

----------------------------------------------------------------------------
(***************************************************************************)
(* The two facts hold together: an access starts only when the module is   *)
(* neither busy nor in error, and only a completed access sets the error.  *)
(***************************************************************************)
Exclusive == OneAccess /\ NoAccessUnderError

LEMMA StartsAlone ==
  ASSUME TypeOK, Exclusive,
         \/ error = 0 /\ (sb_read_start \/ sb_write_start)
         \/ NoStart
         \/ RefuseBusy,
         UNCHANGED error
  PROVE  Exclusive'
<1>. USE SbaAssumption DEF TypeOK, Exclusive, OneAccess, NoAccessUnderError,
                           sb_busy
<1>1. CASE error = 0 /\ sb_read_start
  <2>1. CASE Blocked  BY <1>1, <2>1 DEF sb_read_start, Start
  <2>2. CASE ~Blocked  BY <1>1, <2>2 DEF sb_read_start, Start, Blocked
  <2>3. QED  BY <2>1, <2>2
<1>2. CASE error = 0 /\ sb_write_start
  <2>1. CASE Blocked  BY <1>2, <2>1 DEF sb_write_start, Start
  <2>2. CASE ~Blocked  BY <1>2, <2>2 DEF sb_write_start, Start, Blocked
  <2>3. QED  BY <2>1, <2>2
<1>3. CASE NoStart  BY <1>3 DEF NoStart, waitVars
<1>4. CASE RefuseBusy  BY <1>4 DEF RefuseBusy, waitVars
<1>5. QED  BY <1>1, <1>2, <1>3, <1>4

LEMMA NextExclusive == TypeOK /\ Exclusive /\ [Next]_vars => Exclusive'
<1> SUFFICES ASSUME TypeOK, Exclusive, [Next]_vars PROVE Exclusive'  OBVIOUS
<1>1. ASSUME NEW i \in 0 .. 1, NEW v \in AddressWrites, WriteSbaddress(i, v)
      PROVE  Exclusive'
  <2>1. UNCHANGED error  BY <1>1 DEF WriteSbaddress
  <2>2. (error = 0 /\ sb_read_start) \/ NoStart \/ RefuseBusy
    BY <1>1 DEF WriteSbaddress
  <2>3. QED  BY <2>1, <2>2, StartsAlone
<1>2. ASSUME NEW i \in 0 .. 1, NEW v \in DataWords, WriteSbdata(i, v)
      PROVE  Exclusive'
  <2>1. UNCHANGED error  BY <1>2 DEF WriteSbdata
  <2>2. (error = 0 /\ sb_write_start) \/ NoStart \/ RefuseBusy
    BY <1>2 DEF WriteSbdata
  <2>3. QED  BY <2>1, <2>2, StartsAlone
<1>3. ASSUME NEW i \in 0 .. 1, ReadSbdata(i) PROVE Exclusive'
  <2>1. UNCHANGED error  BY <1>3 DEF ReadSbdata
  <2>2. (error = 0 /\ sb_read_start) \/ NoStart \/ RefuseBusy
    BY <1>3 DEF ReadSbdata, ReadsOn
  <2>3. QED  BY <2>1, <2>2, StartsAlone
<1>4. CASE run_test_idle
  <2>. USE SbaAssumption DEF TypeOK, Exclusive, OneAccess, sb_busy,
                             NoAccessUnderError
  <2>1. CASE sb_read_wait = 1 \/ sb_write_wait = 1
    <3>1. ~sb_busy'  BY <1>4, <2>1 DEF run_test_idle
    <3>2. QED  BY <3>1
  <2>2. CASE sb_read_wait # 1 /\ sb_write_wait # 1
    <3>1. UNCHANGED error  BY <1>4, <2>2 DEF run_test_idle
    <3>2. QED  BY <1>4, <2>2, <3>1 DEF run_test_idle
  <2>3. QED  BY <2>1, <2>2
<1>5. ASSUME NEW a \in Cells, NEW b \in Bytes, OtherStore(a, b)
      PROVE  Exclusive'
  BY <1>5 DEF OtherStore, Exclusive, OneAccess, NoAccessUnderError, sb_busy,
              sbcsVars, waitVars
<1>6. ASSUME NEW w \in SbcsWrites, NEW e \in SbErrors, NEW clear \in BOOLEAN,
             WriteSbcs(w, e, clear)
      PROVE  Exclusive'
  <2>1. error = 0 => error' = 0
    BY <1>6 DEF WriteSbcs, SbWithBitsCleared
  <2>2. UNCHANGED waitVars  BY <1>6 DEF WriteSbcs
  <2>3. QED
    BY <2>1, <2>2 DEF Exclusive, OneAccess, NoAccessUnderError, sb_busy,
                      waitVars
<1>7. CASE reset
  BY <1>7 DEF reset, Exclusive, OneAccess, NoAccessUnderError, sb_busy,
              waitVars
<1>8. CASE UNCHANGED vars
  BY <1>8 DEF vars, Exclusive, OneAccess, NoAccessUnderError, sb_busy,
              sbcsVars, waitVars
<1>9. QED
  BY <1>1, <1>2, <1>3, <1>4, <1>5, <1>6, <1>7, <1>8 DEF Next, Access, Configure

LEMMA InitExclusive == Init => Exclusive
BY DEF Init, Exclusive, OneAccess, NoAccessUnderError, sb_busy

(***************************************************************************)
(* A system bus read and a system bus write are never under way together.  *)
(***************************************************************************)
THEOREM AccessesAreExclusive == Spec => []OneAccess
<1>1. Exclusive => OneAccess  BY DEF Exclusive
<1>2. QED
  BY <1>1, InitTypeOK, NextTypeOK, InitExclusive, NextExclusive, PTL DEF Spec

(***************************************************************************)
(* No system bus access is under way while sbcs.error stands.              *)
(***************************************************************************)
THEOREM ErrorStopsAccesses == Spec => []NoAccessUnderError
<1>1. Exclusive => NoAccessUnderError  BY DEF Exclusive
<1>2. QED
  BY <1>1, InitTypeOK, NextTypeOK, InitExclusive, NextExclusive, PTL DEF Spec

----------------------------------------------------------------------------
(***************************************************************************)
(* The refinement. A debugger that leaves SBCS alone while an access is    *)
(* under way sees a bus that carries out each request as it was made       *)
(* (module SystemBus).                                                     *)
(***************************************************************************)
NoRequest == [op |-> "none"]

LEMMA Pending ==
  /\ ~sb_busy => PendingRequest = NoRequest
  /\ sb_busy => /\ PendingRequest # NoRequest
                /\ PendingRequest.op = IF sb_read_wait > 0 THEN "read"
                                                           ELSE "write"
                /\ PendingRequest.address = Address
                /\ PendingRequest.size = AccessBytes
                /\ PendingRequest.data = sbdata
<1>1. ~sb_busy => PendingRequest = NoRequest
  BY DEF PendingRequest, NoRequest
<1>2. ASSUME sb_busy
      PROVE  /\ PendingRequest.op = IF sb_read_wait > 0 THEN "read"
                                                        ELSE "write"
             /\ PendingRequest.address = Address
             /\ PendingRequest.size = AccessBytes
             /\ PendingRequest.data = sbdata
  BY <1>2 DEF PendingRequest
<1>3. ASSUME sb_busy PROVE PendingRequest # NoRequest
  <2>1. PendingRequest.op # "none"  BY <1>2, <1>3
  <2>2. QED  BY <2>1 DEF NoRequest
<1>4. QED  BY <1>1, <1>2, <1>3

\* The same of the next state.
LEMMA PendingNext ==
  /\ ~sb_busy' => PendingRequest' = NoRequest
  /\ sb_busy' => /\ PendingRequest' # NoRequest
                 /\ PendingRequest'.address = Address'
                 /\ PendingRequest'.data = sbdata'
<1>1. ~sb_busy' => PendingRequest' = NoRequest
  BY DEF PendingRequest, NoRequest
<1>2. ASSUME sb_busy'
      PROVE  /\ PendingRequest'.op = IF sb_read_wait' > 0 THEN "read"
                                                          ELSE "write"
             /\ PendingRequest'.address = Address'
             /\ PendingRequest'.data = sbdata'
  BY <1>2 DEF PendingRequest
<1>3. ASSUME sb_busy' PROVE PendingRequest' # NoRequest
  <2>1. PendingRequest'.op # "none"  BY <1>2, <1>3
  <2>2. QED  BY <2>1 DEF NoRequest
<1>4. QED  BY <1>1, <1>2, <1>3

(***************************************************************************)
(* sb_read and sb_write succeed on exactly the requests the bus answers.   *)
(***************************************************************************)
LEMMA OutcomeIsAnswer ==
  TypeOK /\ sb_busy => (Outcome = 0 <=> Bus!Answers(PendingRequest))
<1> SUFFICES ASSUME TypeOK, sb_busy
             PROVE  Outcome = 0 <=> Bus!Answers(PendingRequest)
  OBVIOUS
<1>1. Supported <=> AccessBytes \in SupportedSizes
  <2>1. mode.sbaccess \in {0, 1, 2, 3, 4, 5, 6, 7}
    BY DEF TypeOK, SbcsModes
  <2>2. mode.sbaccess <= 3 <=> AccessBytes \in {1, 2, 4, 8}
    BY <2>1 DEF AccessBytes, BytesOfSize
  <2>3. QED  BY <2>2 DEF Supported, SupportedSizes
<1>2. ~Traps <=> /\ Address % AccessBytes = 0
                 /\ Address .. Address + AccessBytes - 1 \subseteq Cells
  BY DEF Traps
<1>3. Bus!Answers(PendingRequest) <=>
        /\ AccessBytes \in SupportedSizes
        /\ Address .. Address + AccessBytes - 1 \subseteq Cells
        /\ Address % AccessBytes = 0
  BY Pending DEF Bus!Answers, Bus!Span
<1>4. Outcome = 0 <=> Supported /\ ~Traps
  BY DEF Outcome
<1>5. QED  BY <1>1, <1>2, <1>3, <1>4

----------------------------------------------------------------------------
(***************************************************************************)
(* With an access under way the debugger can only set sbbusyerror.         *)
(***************************************************************************)
LEMMA RefusedChangesNothing ==
  ASSUME UNCHANGED <<mode, sbaddress, sbdata, sb_read_wait, sb_write_wait>>
  PROVE  UNCHANGED PendingRequest
BY DEF PendingRequest, sb_busy, Address, AccessBytes

LEMMA BusyRefuses ==
  ASSUME sb_busy,
         \/ \E i \in 0 .. 1 : \E v \in AddressWrites : WriteSbaddress(i, v)
         \/ \E i \in 0 .. 1 : \E v \in DataWords : WriteSbdata(i, v)
         \/ \E i \in 0 .. 1 : ReadSbdata(i)
  PROVE  UNCHANGED Bus!vars
<1>1. UNCHANGED <<mode, error, sbaddress, sbdata, sb_read_wait, sb_write_wait,
                  mem>>
  BY DEF WriteSbaddress, WriteSbdata, ReadSbdata, RefuseBusy, SetsRegister,
         waitVars
<1>2. UNCHANGED PendingRequest  BY <1>1, RefusedChangesNothing
<1>3. UNCHANGED Address  BY <1>1 DEF Address
<1>4. QED  BY <1>1, <1>2, <1>3 DEF Bus!vars

(***************************************************************************)
(* With none under way it prepares a request or makes one, and makes it    *)
(* only when no error stands.                                              *)
(***************************************************************************)
LEMMA IdlePrepares ==
  ASSUME TypeOK, ~sb_busy, UNCHANGED mem, error = 0 => error' = 0,
         sb_busy' => error' = 0
  PROVE  Bus!Prepare
<1>1. PendingRequest = Bus!Idle  BY Pending DEF NoRequest, Bus!Idle
<1>2. (error # 0)' \in {error # 0, FALSE}
  OBVIOUS
<1>3. \/ PendingRequest' = Bus!Idle
      \/ /\ PendingRequest' # Bus!Idle
         /\ PendingRequest'.address = Address'
         /\ PendingRequest'.data = sbdata' /\ ~(error # 0)'
  BY PendingNext DEF NoRequest, Bus!Idle
<1>4. QED  BY <1>1, <1>2, <1>3 DEF Bus!Prepare

LEMMA StartNeedsNoError ==
  ASSUME TypeOK, ~sb_busy, UNCHANGED error,
         \/ error = 0 /\ (sb_read_start \/ sb_write_start)
         \/ NoStart
         \/ RefuseBusy
  PROVE  sb_busy' => error' = 0
<1>1. CASE NoStart \/ RefuseBusy
  BY <1>1 DEF NoStart, RefuseBusy, waitVars, sb_busy
<1>2. CASE error = 0  BY <1>2
<1>3. QED  BY <1>1, <1>2

LEMMA IdleRegisters ==
  ASSUME TypeOK, ~sb_busy,
         \/ \E i \in 0 .. 1 : \E v \in AddressWrites : WriteSbaddress(i, v)
         \/ \E i \in 0 .. 1 : \E v \in DataWords : WriteSbdata(i, v)
         \/ \E i \in 0 .. 1 : ReadSbdata(i)
  PROVE  Bus!Prepare
<1>1. UNCHANGED <<error, mem>>
  BY DEF WriteSbaddress, WriteSbdata, ReadSbdata
<1>2. \/ error = 0 /\ (sb_read_start \/ sb_write_start)
      \/ NoStart
      \/ RefuseBusy
  BY DEF WriteSbaddress, WriteSbdata, ReadSbdata, ReadsOn
<1>3. QED  BY <1>1, <1>2, StartNeedsNoError, IdlePrepares

LEMMA ConfigurePrepares ==
  ASSUME TypeOK, ~sb_busy, Configure
  PROVE  Bus!Prepare
<1>1. UNCHANGED <<mem, sb_read_wait, sb_write_wait>>
  BY DEF Configure, WriteSbcs, reset, waitVars
<1>2. ~sb_busy'  BY <1>1 DEF sb_busy
<1>3. error = 0 => error' = 0
  <2>1. CASE reset  BY <2>1 DEF reset
  <2>2. CASE \E w \in SbcsWrites, e \in SbErrors, clear \in BOOLEAN :
               WriteSbcs(w, e, clear)
    BY <2>2 DEF WriteSbcs, SbWithBitsCleared
  <2>3. QED  BY <2>1, <2>2 DEF Configure
<1>4. QED  BY <1>1, <1>2, <1>3, IdlePrepares

----------------------------------------------------------------------------
(***************************************************************************)
(* The clock. The request stands until the wait is over; the access that   *)
(* run_test_idle then carries out is the one that was requested.           *)
(***************************************************************************)
LEMMA ClockWaits ==
  ASSUME TypeOK, run_test_idle, sb_read_wait # 1, sb_write_wait # 1
  PROVE  UNCHANGED Bus!vars
<1>1. UNCHANGED <<mode, error, sbdata, mem>>
  BY DEF run_test_idle
<1>2. UNCHANGED sbaddress  BY DEF run_test_idle, sb_autoincrement
<1>3. /\ (sb_read_wait > 0)' <=> sb_read_wait > 0
      /\ (sb_write_wait > 0)' <=> sb_write_wait > 0
  BY SbaAssumption DEF run_test_idle, TypeOK
<1>4. UNCHANGED PendingRequest
  BY <1>1, <1>2, <1>3 DEF PendingRequest, sb_busy, Address, AccessBytes
<1>5. UNCHANGED Address  BY <1>2 DEF Address
<1>6. QED  BY <1>1, <1>4, <1>5 DEF Bus!vars

LEMMA AccessEnds ==
  ASSUME TypeOK, Exclusive, run_test_idle,
         sb_read_wait = 1 \/ sb_write_wait = 1
  PROVE  sb_busy /\ ~sb_busy' /\ error = 0
BY SbaAssumption DEF TypeOK, run_test_idle, sb_busy, Exclusive, OneAccess,
                     NoAccessUnderError

LEMMA ClockFails ==
  ASSUME TypeOK, Exclusive, run_test_idle,
         sb_read_wait = 1 \/ sb_write_wait = 1, Outcome # 0
  PROVE  Bus!Fail
<1>1. sb_busy /\ ~sb_busy'  BY AccessEnds
<1>2. sb_read \/ sb_write  BY DEF run_test_idle
<1>3. error' = Outcome /\ UNCHANGED <<sbdata, mem>>
  BY <1>2 DEF sb_read, sb_write, ErrorAfter
<1>4. PendingRequest # Bus!Idle /\ PendingRequest' = Bus!Idle
  BY <1>1, Pending, PendingNext DEF NoRequest, Bus!Idle
<1>5. (error # 0)' = TRUE  BY <1>3
<1>6. ~Bus!Answers(PendingRequest)  BY <1>1, OutcomeIsAnswer
<1>7. UNCHANGED Address
  <2>1. ErrorAfter # 0  BY DEF ErrorAfter
  <2>2. UNCHANGED sbaddress  BY <2>1 DEF run_test_idle, sb_autoincrement
  <2>3. QED  BY <2>2 DEF Address
<1>8. QED  BY <1>3, <1>4, <1>5, <1>6, <1>7 DEF Bus!Fail

LEMMA ClockReads ==
  ASSUME TypeOK, Exclusive, run_test_idle, sb_read_wait = 1, Outcome = 0
  PROVE  Bus!Read
<1>1. sb_busy /\ ~sb_busy' /\ error = 0  BY AccessEnds
<1>2. sb_read  BY DEF run_test_idle
<1>3. /\ UNCHANGED <<error, mem>>
      /\ sbdata' = [b \in DataBytes |-> LoadedByte(b)]
  BY <1>2 DEF sb_read, ErrorAfter
<1>4. PendingRequest # Bus!Idle /\ PendingRequest' = Bus!Idle
  BY <1>1, Pending, PendingNext DEF NoRequest, Bus!Idle
<1>5. Bus!Answers(PendingRequest)  BY <1>1, OutcomeIsAnswer
<1>6. /\ PendingRequest.op = "read" /\ PendingRequest.address = Address
      /\ PendingRequest.size = AccessBytes
  BY <1>1, Pending
<1>7. AccessBytes \in 1 .. 2 * WordBytes
  BY SupportedFits DEF Outcome
<1>8. \A b \in 0 .. AccessBytes - 1 : sbdata'[b] = mem[Address + b]
  <2> SUFFICES ASSUME NEW b \in 0 .. AccessBytes - 1
               PROVE  sbdata'[b] = mem[Address + b]
    OBVIOUS
  <2>1. b \in DataBytes /\ b < AccessBytes
    BY <1>7, SbaAssumption DEF DataBytes
  <2>2. QED  BY <1>3, <2>1 DEF LoadedByte
<1>9. QED  BY <1>3, <1>4, <1>5, <1>6, <1>8 DEF Bus!Read

LEMMA ClockWrites ==
  ASSUME TypeOK, Exclusive, run_test_idle, sb_write_wait = 1, Outcome = 0
  PROVE  Bus!Write
<1>1. sb_busy /\ ~sb_busy' /\ error = 0  BY AccessEnds
<1>2. ~(sb_read_wait > 0)
  BY DEF Exclusive, OneAccess
<1>3. sb_write  BY <1>2 DEF run_test_idle
<1>4. /\ UNCHANGED <<error, sbdata>>
      /\ mem' = [a \in Cells |->
                   IF a \in Address .. Address + AccessBytes - 1
                   THEN sbdata[a - Address] ELSE mem[a]]
  BY <1>3 DEF sb_write, ErrorAfter
<1>5. PendingRequest # Bus!Idle /\ PendingRequest' = Bus!Idle
  BY <1>1, Pending, PendingNext DEF NoRequest, Bus!Idle
<1>6. Bus!Answers(PendingRequest)  BY <1>1, OutcomeIsAnswer
<1>7. /\ PendingRequest.op = "write" /\ PendingRequest.address = Address
      /\ PendingRequest.size = AccessBytes /\ PendingRequest.data = sbdata
  BY <1>1, <1>2, Pending
<1>8. Bus!Span(PendingRequest) = Address .. Address + AccessBytes - 1
  BY <1>7 DEF Bus!Span
<1>9. mem' = [a \in Cells |->
                IF a \in Bus!Span(PendingRequest)
                THEN PendingRequest.data[a - PendingRequest.address]
                ELSE mem[a]]
  BY <1>4, <1>7, <1>8
<1>10. QED  BY <1>4, <1>5, <1>6, <1>7, <1>9 DEF Bus!Write

----------------------------------------------------------------------------
LEMMA StepRefines ==
  TypeOK /\ Exclusive /\ [DisciplinedNext]_vars => [Bus!Next]_(Bus!vars)
<1> SUFFICES ASSUME TypeOK, Exclusive, [DisciplinedNext]_vars
             PROVE  Bus!Next \/ UNCHANGED Bus!vars
  OBVIOUS
<1>1. CASE \/ \E i \in 0 .. 1 : \E v \in AddressWrites : WriteSbaddress(i, v)
           \/ \E i \in 0 .. 1 : \E v \in DataWords : WriteSbdata(i, v)
           \/ \E i \in 0 .. 1 : ReadSbdata(i)
  <2>1. CASE sb_busy  BY <1>1, <2>1, BusyRefuses
  <2>2. CASE ~sb_busy  BY <1>1, <2>2, IdleRegisters DEF Bus!Next
  <2>3. QED  BY <2>1, <2>2
<1>2. CASE run_test_idle
  <2>1. CASE sb_read_wait # 1 /\ sb_write_wait # 1
    BY <1>2, <2>1, ClockWaits
  <2>2. CASE (sb_read_wait = 1 \/ sb_write_wait = 1) /\ Outcome # 0
    BY <1>2, <2>2, ClockFails DEF Bus!Next
  <2>3. CASE sb_read_wait = 1 /\ Outcome = 0
    BY <1>2, <2>3, ClockReads DEF Bus!Next
  <2>4. CASE sb_write_wait = 1 /\ Outcome = 0
    BY <1>2, <2>4, ClockWrites DEF Bus!Next
  <2>5. QED  BY <2>1, <2>2, <2>3, <2>4
<1>3. CASE \E a \in Cells, b \in Bytes : OtherStore(a, b)
  <2>1. UNCHANGED <<mode, error, sbaddress, sbdata, sb_read_wait,
                    sb_write_wait>>
    BY <1>3 DEF OtherStore, sbcsVars, waitVars
  <2>2. UNCHANGED PendingRequest  BY <2>1, RefusedChangesNothing
  <2>3. UNCHANGED Address  BY <2>1 DEF Address
  <2>4. Bus!OtherStore
    BY <1>3, <2>1, <2>2, <2>3 DEF OtherStore, Bus!OtherStore
  <2>5. QED  BY <2>4 DEF Bus!Next
<1>4. CASE ~sb_busy /\ Configure
  BY <1>4, ConfigurePrepares DEF Bus!Next
<1>5. CASE UNCHANGED vars
  <2>1. UNCHANGED <<mode, error, sbaddress, sbdata, sb_read_wait,
                    sb_write_wait, mem>>
    BY <1>5 DEF vars, sbcsVars, waitVars
  <2>2. UNCHANGED PendingRequest  BY <2>1, RefusedChangesNothing
  <2>3. UNCHANGED Address  BY <2>1 DEF Address
  <2>4. QED  BY <2>1, <2>2, <2>3 DEF Bus!vars
<1>6. QED
  BY <1>1, <1>2, <1>3, <1>4, <1>5 DEF DisciplinedNext, Access

LEMMA InitRefines == Init => Bus!Init
<1> SUFFICES ASSUME Init PROVE Bus!Init  OBVIOUS
<1>1. ~sb_busy /\ error = 0  BY DEF Init, sb_busy
<1>2. QED  BY <1>1, Pending DEF Bus!Init, Bus!Idle, NoRequest

(***************************************************************************)
(* For a debugger that leaves SBCS alone meanwhile, every access started   *)
(* is carried out with the address, size and data of the moment it was     *)
(* requested, whatever other registers are touched during the delay; one   *)
(* that fails reports it and changes neither address, data nor memory.     *)
(***************************************************************************)
THEOREM RequestsCarriedOut == DisciplinedSpec => CarriesOutRequests
<1>1. [DisciplinedNext]_vars => [Next]_vars  BY DEF DisciplinedNext, Next
<1>2. TypeOK /\ [DisciplinedNext]_vars => TypeOK'  BY <1>1, NextTypeOK
<1>3. TypeOK /\ Exclusive /\ [DisciplinedNext]_vars => Exclusive'
  BY <1>1, NextExclusive
<1>4. QED
  BY <1>2, <1>3, InitTypeOK, InitExclusive, InitRefines, StepRefines, PTL
  DEF DisciplinedSpec, CarriesOutRequests, Bus!Spec
=============================================================================
