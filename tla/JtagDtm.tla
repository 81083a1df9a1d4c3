----------------------------- MODULE JtagDtm -----------------------------
(***************************************************************************)
(* The JTAG debug transport of riscv/jtag_dtm.cc: the TAP state machine    *)
(* driven by set_pins, and the DMI accesses it makes.                      *)
(*                                                                         *)
(* Shifting is abstract: a clock in a shift state leaves any value in the  *)
(* register, since a driver can shift in what it likes. A value of dr is   *)
(* named for what it means to the register it is written to. The address,  *)
(* the data and TDO take no part in the control and are left out.          *)
(*                                                                         *)
(* captured, accepted, accesses, idle, ones and served are observers: what *)
(* the driver has seen and what the debug module has been asked. An        *)
(* operator marked "Faulty" is used by no action.                          *)
(***************************************************************************)
EXTENDS Integers

CONSTANTS
  RequiredRti,   \* required_rti_cycles (--dmi-rti)
  IrValues,      \* instructions a driver shifts in
  DrValues       \* data a driver shifts in

Instructions == {"idcode", "dtmcontrol", "dbus", "bypass", "unsupported"}

\* nop (0), read (1), write (2), reserved (3) as a DMI op; dmireset and
\* hardreset as DTMCONTROL; other: any other data.
Data == {"nop", "read", "write", "reserved", "dmireset", "hardreset", "other"}

ASSUME DtmAssumption ==
  /\ RequiredRti \in Nat
  /\ IrValues \subseteq Instructions /\ IrValues # {}
  /\ DrValues \subseteq Data /\ DrValues # {}

VARIABLES
  tck, tms,        \* the pins at the last call
  state, ir, dr,
  dmi,             \* the op field of dmi, the status of the last access
  rti_remaining, busy_stuck,
  captured,        \* status the last DBUS capture of this scan reported
  accepted,        \* this scan's request was taken
  accesses,        \* DMI accesses made by this scan, up to 2
  idle,            \* RUN_TEST_IDLE cycles since the last request taken
  ones,            \* rising edges in a row that saw TMS = 1, up to 5
  served           \* a request was taken since the last reset

dtmVars == <<ir, dr, dmi, rti_remaining, busy_stuck>>
updateVars == <<accepted, accesses>>
vars == <<tck, tms, state, dtmVars, captured, updateVars, idle, ones, served>>

----------------------------------------------------------------------------
\* The next state for TMS = 0 and for TMS = 1.
NextOn ==
  [TEST_LOGIC_RESET |-> <<"RUN_TEST_IDLE", "TEST_LOGIC_RESET">>,
   RUN_TEST_IDLE    |-> <<"RUN_TEST_IDLE", "SELECT_DR_SCAN">>,
   SELECT_DR_SCAN   |-> <<"CAPTURE_DR", "SELECT_IR_SCAN">>,
   CAPTURE_DR       |-> <<"SHIFT_DR", "EXIT1_DR">>,
   SHIFT_DR         |-> <<"SHIFT_DR", "EXIT1_DR">>,
   EXIT1_DR         |-> <<"PAUSE_DR", "UPDATE_DR">>,
   PAUSE_DR         |-> <<"PAUSE_DR", "EXIT2_DR">>,
   EXIT2_DR         |-> <<"SHIFT_DR", "UPDATE_DR">>,
   UPDATE_DR        |-> <<"RUN_TEST_IDLE", "SELECT_DR_SCAN">>,
   SELECT_IR_SCAN   |-> <<"CAPTURE_IR", "TEST_LOGIC_RESET">>,
   CAPTURE_IR       |-> <<"SHIFT_IR", "EXIT1_IR">>,
   SHIFT_IR         |-> <<"SHIFT_IR", "EXIT1_IR">>,
   EXIT1_IR         |-> <<"PAUSE_IR", "UPDATE_IR">>,
   PAUSE_IR         |-> <<"PAUSE_IR", "EXIT2_IR">>,
   EXIT2_IR         |-> <<"SHIFT_IR", "UPDATE_IR">>,
   UPDATE_IR        |-> <<"RUN_TEST_IDLE", "SELECT_DR_SCAN">>]
States == DOMAIN NextOn

\* Faulty: the TAP pauses in the scan of the wrong register.
NextStateCrossed(s, t) ==
  IF s = "EXIT2_IR" /\ t THEN "PAUSE_IR" ELSE NextOn[s][IF t THEN 2 ELSE 1]
\* Faulty: UPDATE_DR can go back into the scan it ends.
NextStateReturning(s, t) ==
  IF s = "UPDATE_DR" /\ t THEN "EXIT2_DR" ELSE NextOn[s][IF t THEN 2 ELSE 1]
NextState(s, t) == NextOn[s][IF t THEN 2 ELSE 1]

Success == "nop"       \* DMI_OP_STATUS_SUCCESS, 0
Failed == "write"      \* DMI_OP_STATUS_FAILED, 2
Busy == "reserved"     \* DMI_OP_STATUS_BUSY, 3

\* The constructor initializes neither ir, dr, rti_remaining nor busy_stuck;
\* 0 .. RequiredRti stands for every value of rti_remaining.
Init ==
  /\ tck = FALSE /\ tms = FALSE
  /\ state = "TEST_LOGIC_RESET"
  /\ ir \in IrValues /\ dr \in DrValues
  /\ dmi = Success
  /\ rti_remaining \in 0 .. RequiredRti /\ busy_stuck \in BOOLEAN
  /\ captured = "none" /\ accepted = FALSE /\ accesses = 0
  /\ idle = 0 /\ ones = 0 /\ served = FALSE

Registers == busy_stuck' = FALSE /\ rti_remaining' = 0 /\ dmi' = Success

\* reset(), the 'r' command of remote_bitbang.
reset ==
  /\ state' = "TEST_LOGIC_RESET" /\ Registers
  /\ served' = FALSE /\ captured' = "none"
  /\ accepted' = FALSE /\ accesses' = 0 /\ idle' = 0 /\ ones' = 0
  /\ UNCHANGED <<tck, tms, ir, dr>>

----------------------------------------------------------------------------
Sooner(a, b) == IF a < b THEN a ELSE b

\* A positive edge: shift, then move. TMS is the value of the call before.
Rise ==
  /\ state' = NextState(state, tms)
  /\ dr' \in IF state = "SHIFT_DR" THEN DrValues ELSE {dr}
  /\ ir' \in IF state = "SHIFT_IR" THEN IrValues ELSE {ir}
  /\ ones' = IF tms THEN Sooner(ones + 1, 5) ELSE 0
  /\ captured' = IF state' = "CAPTURE_DR" THEN "none" ELSE captured
  /\ IF state' = "CAPTURE_DR" THEN accepted' = FALSE /\ accesses' = 0
                              ELSE UNCHANGED updateVars
  /\ UNCHANGED <<dmi, rti_remaining, busy_stuck, idle, served>>

\* Faulty: a busy response is not remembered.
BusyAfterCaptureForgotten(reported) == busy_stuck
BusyAfterCapture(reported) == busy_stuck \/ reported

CaptureDr ==
  LET busy == rti_remaining > 0 \/ busy_stuck
      reads == ir = "dbus"
  IN /\ dr' = CASE ir = "unsupported" -> dr
                [] reads -> IF busy THEN Busy ELSE dmi
                [] OTHER -> "other"
     /\ busy_stuck' = BusyAfterCapture(reads /\ busy)
     /\ captured' = IF ~reads THEN captured
                    ELSE IF busy THEN "busy" ELSE dmi
     /\ UNCHANGED <<state, ir, dmi, rti_remaining, updateVars, idle, served>>

\* Faulty: the wait is as long as the one that is still to go.
WaitAfterAccessKept == rti_remaining
WaitAfterAccess == RequiredRti

\* DBUS: the debug module answers, or refuses an access (not authenticated,
\* no such register). Op 3 is taken as an access that does nothing.
TakeRequest(ok) ==
  /\ dmi' = IF dr \in {"read", "write"} /\ ~ok THEN Failed ELSE Success
  /\ rti_remaining' = WaitAfterAccess
  /\ accepted' = TRUE /\ served' = TRUE /\ idle' = 0
  /\ accesses' = IF dr \in {"read", "write"} THEN Sooner(accesses + 1, 2)
                                             ELSE accesses
  /\ UNCHANGED <<state, ir, dr, busy_stuck, captured>>

NoUpdate == UNCHANGED <<state, dtmVars, captured, updateVars, idle, served>>

UpdateDr ==
  \/ /\ ir = "dtmcontrol" /\ dr = "hardreset"
     /\ state' = "TEST_LOGIC_RESET" /\ Registers /\ served' = FALSE
     /\ UNCHANGED <<ir, dr, captured, updateVars, idle>>
  \/ /\ ir = "dtmcontrol" /\ dr = "dmireset"
     /\ busy_stuck' = FALSE
     /\ UNCHANGED <<state, ir, dr, dmi, rti_remaining, captured,
                    updateVars, idle, served>>
  \/ ir = "dbus" /\ ~busy_stuck /\ \E ok \in BOOLEAN : TakeRequest(ok)
  \/ /\ ir = "dbus" => busy_stuck
     /\ ir = "dtmcontrol" => dr \notin {"hardreset", "dmireset"}
     /\ NoUpdate

RtiAfterCycle == IF rti_remaining > 0 THEN rti_remaining - 1 ELSE 0

\* Any call that is not a positive edge, also one that leaves TCK alone.
NotRise ==
  /\ \/ /\ state = "RUN_TEST_IDLE"
        /\ rti_remaining' = RtiAfterCycle
        /\ idle' = Sooner(idle + 1, RequiredRti)
        /\ UNCHANGED <<state, ir, dr, dmi, busy_stuck, captured,
                       updateVars, served>>
     \/ /\ state = "TEST_LOGIC_RESET"
        /\ ir' = "idcode"
        /\ UNCHANGED <<state, dr, dmi, rti_remaining, busy_stuck,
                       captured, updateVars, idle, served>>
     \/ state = "CAPTURE_DR" /\ CaptureDr
     \/ state = "UPDATE_DR" /\ UpdateDr
     \/ /\ state \notin {"RUN_TEST_IDLE", "TEST_LOGIC_RESET",
                          "CAPTURE_DR", "UPDATE_DR"}
        /\ NoUpdate
  /\ UNCHANGED ones

set_pins(k, m) ==
  /\ IF ~tck /\ k THEN Rise ELSE NotRise
  /\ tck' = k /\ tms' = m

Next == reset \/ \E k \in BOOLEAN, m \in BOOLEAN : set_pins(k, m)
Spec == Init /\ [][Next]_vars

\* A driver that toggles TCK with every call and begins with a reset.
ClockedNext == reset \/ \E m \in BOOLEAN : set_pins(~tck, m)
ResetInit == Init /\ rti_remaining = 0 /\ ~busy_stuck
ClockedSpec == ResetInit /\ [][ClockedNext]_vars

----------------------------------------------------------------------------
\* The registers hold values of theirs; the wait never exceeds RequiredRti.
TypeOK ==
  /\ tck \in BOOLEAN /\ tms \in BOOLEAN
  /\ state \in States /\ ir \in Instructions /\ dr \in Data
  /\ dmi \in {Success, Failed}
  /\ rti_remaining \in 0 .. RequiredRti /\ busy_stuck \in BOOLEAN
  /\ captured \in {"none", "busy", Success, Failed}
  /\ accepted \in BOOLEAN /\ accesses \in 0 .. 2
  /\ idle \in 0 .. RequiredRti /\ ones \in 0 .. 5 /\ served \in BOOLEAN

\* Five clocks with TMS high bring the TAP to TEST_LOGIC_RESET from
\* wherever it is (the table of set_pins): the driver's way to find it.
FiveOnesReset == ones = 5 => state = "TEST_LOGIC_RESET"

\* A DMI scan that ends is honest: the request scanned in was taken exactly
\* if the status scanned out was not busy, however the pins were driven in
\* between (capture_dr makes busy sticky so that update_dr sees it). A scan
\* that reports the failure of the access before it is exempt: update_dr
\* takes it (it looks at busy_stuck and rti_remaining only), although
\* debug_defines.h:194 says of "failed" that the data scanned in is ignored.
EndsScan == state = "UPDATE_DR" /\ state' \in {"RUN_TEST_IDLE",
                                               "SELECT_DR_SCAN"}
HonestScan ==
  [][EndsScan /\ ir = "dbus" /\ captured # Failed
       => (accepted <=> captured # "busy")]_vars

\* One scan makes one DMI access at most, as update_dr is meant to run on
\* the "Negative clock edge" (the comment at jtag_dtm.cc:97); accesses of the
\* debug module have side effects (autoexec, SBDATA0, resumereq). It needs a
\* driver that toggles TCK with every call: a second call with TCK low makes
\* the access again.
OneAccessPerScan == accesses <= 1

\* A request is taken only when RequiredRti cycles were spent in
\* RUN_TEST_IDLE since the one before, also when busy was cleared between.
PacedRequests ==
  [][accepted' /\ ~accepted /\ served => idle = RequiredRti]_vars
=============================================================================
