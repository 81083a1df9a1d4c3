------------------------- MODULE SystemBusAccess -------------------------
(***************************************************************************)
(* System bus access of riscv/debug_module.cc: the registers SBCS,         *)
(* SBADDRESS and SBDATA, and the accesses they start, which take SbDelay   *)
(* run_test_idle calls to complete.                                        *)
(*                                                                         *)
(* A word holds WordBytes bytes (4 in the code). Addresses have two words, *)
(* the ones sb_read and sb_write use; sbaddress[2] and [3] are never read. *)
(* sbdata is kept as its bytes, lowest first: word 0 holds the first       *)
(* WordBytes of them and word 1 the others; sbdata[2] and [3] take no part *)
(* in any access. An operator marked "Faulty" is used by no action.        *)
(***************************************************************************)
EXTENDS Naturals

CONSTANTS
  Bytes,         \* values of a byte, 0 .. n
  WordBytes,     \* bytes in a word of sbdata, and
  WordWrap,      \* number of values of a word of sbaddress
  Cells,         \* addresses the bus answers at
  SbDelay,       \* the artificial delay, 20 in the code
  MaxSbaWidth,   \* config.max_sba_data_width, in bits
  SbcsWrites,    \* what a debugger writes to the mode fields of SBCS
  AddressWrites  \* words it writes to SBADDRESS

SbcsModes == [readonaddr : BOOLEAN, readondata : BOOLEAN,
              autoincrement : BOOLEAN, sbaccess : 0 .. 7]

Words == 0 .. WordWrap - 1
DataBytes == 0 .. 2 * WordBytes - 1

ASSUME SbaAssumption ==
  /\ WordBytes \in Nat \ {0} /\ WordWrap \in Nat \ {0}
  /\ 0 \in Bytes
  /\ Cells \subseteq Nat
  /\ SbDelay \in Nat \ {0} /\ MaxSbaWidth \in Nat
  /\ WordBytes >= 4 \/ MaxSbaWidth <= 16 * WordBytes  \* fits two words
  /\ SbcsWrites \subseteq SbcsModes
  /\ AddressWrites \subseteq Words

VARIABLES
  mode,           \* the fields of sbcs in SbcsModes
  error,          \* sbcs.error
  sbbusyerror,
  sbaddress,      \* words 0 and 1
  sbdata,
  sb_read_wait, sb_write_wait,
  mem             \* what is behind sim->debug_mmu

sbcsVars == <<mode, error, sbbusyerror>>
waitVars == <<sb_read_wait, sb_write_wait>>
vars == <<sbcsVars, sbaddress, sbdata, waitVars, mem>>

----------------------------------------------------------------------------
NoMode == [readonaddr |-> FALSE, readondata |-> FALSE,
           autoincrement |-> FALSE, sbaccess |-> 0]

\* sbcs.error: none, 2 a trap on the bus, 3 a size that is not supported, and
\* what write-one-to-clear can leave of them.
SbErrors == 0 .. 3
SbWithBitsCleared(e) == IF e = 3 THEN {0, 1, 2, 3} ELSE {0, e}

\* Never reset: the constructor leaves address and data uninitialized.
Init ==
  /\ mode = NoMode /\ error = 0 /\ sbbusyerror = FALSE
  /\ sbaddress \in [0 .. 1 -> Words]
  /\ sbdata \in [DataBytes -> Bytes]
  /\ sb_read_wait = 0 /\ sb_write_wait = 0
  /\ mem \in [Cells -> Bytes]

\* sb_access_bits() / 8, for the values 3 bits of sbaccess can have
BytesOfSize == [n \in 0 .. 7 |-> CASE n = 0 -> 1 [] n = 1 -> 2 [] n = 2 -> 4
   [] n = 3 -> 8 [] n = 4 -> 16 [] n = 5 -> 32 [] n = 6 -> 64 [] n = 7 -> 128]
AccessBytes == BytesOfSize[mode.sbaccess]
Supported == mode.sbaccess <= 3 /\ 8 * AccessBytes <= MaxSbaWidth
Address == sbaddress[1] * WordWrap + sbaddress[0]

\* A misaligned access traps, as debug_mmu has no processor to allow it.
Traps == \/ Address % AccessBytes # 0
         \/ ~(Address .. Address + AccessBytes - 1 \subseteq Cells)

\* Faulty: a write does not keep the next access from starting.
sb_busy_reading == sb_read_wait > 0
sb_busy == sb_read_wait > 0 \/ sb_write_wait > 0

\* Faulty: the busy error does not keep the next access from starting.
BlockedWhileBusy == sb_busy
Blocked == sb_busy \/ sbbusyerror

\* sb_read_start and sb_write_start
Start(wait, other) ==
  IF Blocked
  THEN sbbusyerror' = TRUE /\ UNCHANGED <<wait, other>>
  ELSE wait' = SbDelay /\ UNCHANGED <<sbbusyerror, other>>
sb_read_start == Start(sb_read_wait, sb_write_wait)
sb_write_start == Start(sb_write_wait, sb_read_wait)

NoStart == UNCHANGED <<sbbusyerror, waitVars>>

\* Faulty: an attempt to start an access begins the delay anew.
RefuseAndRestart ==
  /\ sbbusyerror' = TRUE
  /\ sb_read_wait' = IF sb_read_wait > 0 THEN SbDelay ELSE 0
  /\ sb_write_wait' = IF sb_write_wait > 0 THEN SbDelay ELSE 0
\* An access to a data or address register while an access is under way.
RefuseBusy == sbbusyerror' = TRUE /\ UNCHANGED waitVars

----------------------------------------------------------------------------
\* SBCS.
WriteSbcs(w, e, clear) ==
  /\ mode' = w
  /\ e \in SbWithBitsCleared(error) /\ error' = e
  /\ sbbusyerror' = (sbbusyerror /\ ~clear)
  /\ UNCHANGED <<sbaddress, sbdata, waitVars, mem>>

\* Faulty: the registers change under the access that uses them.
SetsUnlessError == ~sbbusyerror
SetsRegister == ~sb_busy

WriteSbaddress(i, v) ==
  /\ sbaddress' = IF SetsRegister THEN [sbaddress EXCEPT ![i] = v]
                                  ELSE sbaddress
  /\ IF sb_busy THEN RefuseBusy
     ELSE IF i = 0 /\ error = 0 /\ mode.readonaddr THEN sb_read_start
     ELSE NoStart
  /\ UNCHANGED <<mode, error, sbdata, mem>>

WordOf(b) == b \div WordBytes   \* the word of sbdata that holds byte b

WriteSbdata(i, v) ==
  /\ sbdata' = IF SetsRegister
               THEN [b \in DataBytes |->
                       IF WordOf(b) = i THEN v[b % WordBytes] ELSE sbdata[b]]
               ELSE sbdata
  /\ IF sb_busy THEN RefuseBusy
     ELSE IF i = 0 /\ error = 0 THEN sb_write_start
     ELSE NoStart
  /\ UNCHANGED <<mode, error, sbaddress, mem>>

\* Faulty: a read of SBDATA0 starts an access although an error stands.
ReadsOnInSpiteOfError(i) == i = 0 /\ mode.readondata
ReadsOn(i) == i = 0 /\ error = 0 /\ mode.readondata

ReadSbdata(i) ==
  /\ IF sb_busy THEN RefuseBusy
     ELSE IF ReadsOn(i) THEN sb_read_start
     ELSE NoStart
  /\ UNCHANGED <<mode, error, sbaddress, sbdata, mem>>

----------------------------------------------------------------------------
\* The sum is taken in 32 bits, so word 1 never gets a carry.
sb_autoincrement(done) ==
  sbaddress' =
    IF done /\ mode.autoincrement /\ MaxSbaWidth > 0
    THEN [sbaddress EXCEPT ![0] = (@ + AccessBytes) % WordWrap]
    ELSE sbaddress

\* Faulty: a size that is not supported reads as 1 byte, silently.
OutcomeOfAnySize == IF Supported /\ Traps THEN 2 ELSE 0
Outcome == IF ~Supported THEN 3 ELSE IF Traps THEN 2 ELSE 0

\* A load clears the rest of word 0, and sets word 1 only when it needs it.
LoadedByte(b) ==
  IF b < AccessBytes THEN mem[Address + b]
  ELSE IF WordOf(b) = 0 THEN 0 ELSE sbdata[b]

ErrorAfter == IF Outcome = 0 THEN error ELSE Outcome

sb_read ==
  /\ error' = ErrorAfter
  /\ sbdata' = IF Outcome = 0 THEN [b \in DataBytes |-> LoadedByte(b)]
                              ELSE sbdata
  /\ UNCHANGED mem

sb_write ==
  /\ error' = ErrorAfter
  /\ mem' = IF Outcome = 0
            THEN [a \in Cells |->
                   IF a \in Address .. Address + AccessBytes - 1
                   THEN sbdata[a - Address] ELSE mem[a]]
            ELSE mem
  /\ UNCHANGED sbdata

\* run_test_idle, the part that is about the bus. A read and a write are
\* never both under way (OneAccess), so at most one of the two completes.
run_test_idle ==
  /\ sb_read_wait' = IF sb_read_wait > 0 THEN sb_read_wait - 1 ELSE 0
  /\ sb_write_wait' = IF sb_write_wait > 0 THEN sb_write_wait - 1 ELSE 0
  /\ IF sb_read_wait = 1 THEN sb_read
     ELSE IF sb_write_wait = 1 THEN sb_write
     ELSE UNCHANGED <<error, sbdata, mem>>
  /\ sb_autoincrement((sb_read_wait = 1 \/ sb_write_wait = 1)
                       /\ ErrorAfter = 0)
  /\ UNCHANGED <<mode, sbbusyerror>>

\* reset(), on the write to DMCONTROL that activates the module: clears
\* sbcs, and neither the registers nor an access under way.
reset ==
  /\ mode' = NoMode /\ error' = 0 /\ sbbusyerror' = FALSE
  /\ UNCHANGED <<sbaddress, sbdata, waitVars, mem>>

\* A hart writes the memory between two accesses of the debugger.
OtherStore(a, b) ==
  /\ mem' = [mem EXCEPT ![a] = b]
  /\ UNCHANGED <<sbcsVars, sbaddress, sbdata, waitVars>>

DataWords == [0 .. WordBytes - 1 -> Bytes]
Access == \/ \E i \in 0 .. 1 : \/ \E v \in AddressWrites : WriteSbaddress(i, v)
                               \/ \E v \in DataWords : WriteSbdata(i, v)
                               \/ ReadSbdata(i)
          \/ run_test_idle
          \/ \E a \in Cells, b \in Bytes : OtherStore(a, b)
Configure == \/ \E w \in SbcsWrites, e \in SbErrors, clear \in BOOLEAN :
                  WriteSbcs(w, e, clear)
             \/ reset

Next == Access \/ Configure
Spec == Init /\ [][Next]_vars

\* debug_defines.h:2687 asks of the debugger not to write SBCS while an
\* access is under way; nor does this one deactivate the module meanwhile.
\* It lets the clock run until its access is completed.
DisciplinedNext == Access \/ (~sb_busy /\ Configure)
DisciplinedSpec == Init /\ [][DisciplinedNext]_vars /\ WF_vars(run_test_idle)

----------------------------------------------------------------------------
\* Every field holds a value the code can give it; sbaddress
\* stays within its words although sb_autoincrement adds to it.
TypeOK ==
  /\ mode \in SbcsModes
  /\ error \in SbErrors /\ sbbusyerror \in BOOLEAN
  /\ sbaddress \in [0 .. 1 -> Words]
  /\ sbdata \in [DataBytes -> Bytes]
  /\ sb_read_wait \in 0 .. SbDelay /\ sb_write_wait \in 0 .. SbDelay
  /\ mem \in [Cells -> Bytes]

\* A read and a write are never under way together: run_test_idle would
\* carry out both with one address and one data register.
OneAccess == ~(sb_read_wait > 0 /\ sb_write_wait > 0)

\* While sbcs.error is not 0 no access is under way, whatever register the
\* debugger touches (debug_defines.h:2749: "While this field is non-zero, no
\* more system bus accesses can be initiated"), so the error of one access
\* is never overwritten by the result of the next.
NoAccessUnderError == sb_busy => error = 0

\* A debugger that hits the module while it is busy does not put off the
\* access under way, however often it tries: run_test_idle finishes it.
AccessCompletes == sb_busy ~> ~sb_busy

\* The debugger's view: the access that was requested, with the address,
\* size and data of that moment, is the one that is carried out; one that
\* fails leaves the address where it was, also with autoincrement.
PendingRequest ==
  IF ~sb_busy THEN [op |-> "none"]
  ELSE [op |-> IF sb_read_wait > 0 THEN "read" ELSE "write",
        address |-> Address, size |-> AccessBytes, data |-> sbdata]
SupportedSizes == {n \in {1, 2, 4, 8} : 8 * n <= MaxSbaWidth}
Bus == INSTANCE SystemBus WITH Sizes <- SupportedSizes,
         pending <- PendingRequest, address <- Address, data <- sbdata,
         failed <- (error # 0), memory <- mem
CarriesOutRequests == Bus!Spec
=============================================================================
