--------------------------- MODULE JtagDtm_proofs ---------------------------
(***************************************************************************)
(* Proofs about JtagDtm, for a driver that calls set_pins with any pins,   *)
(* from any power-on value.                                                *)
(***************************************************************************)
EXTENDS JtagDtm, TLAPS

(***************************************************************************)
(* How many clocks with TMS high each state is away from TEST_LOGIC_RESET. *)
(***************************************************************************)
Distance ==
  [TEST_LOGIC_RESET |-> 0, RUN_TEST_IDLE |-> 3, SELECT_DR_SCAN |-> 2,
   CAPTURE_DR |-> 5, SHIFT_DR |-> 5, EXIT1_DR |-> 4, PAUSE_DR |-> 5,
   EXIT2_DR |-> 4, UPDATE_DR |-> 3, SELECT_IR_SCAN |-> 1,
   CAPTURE_IR |-> 5, SHIFT_IR |-> 5, EXIT1_IR |-> 4, PAUSE_IR |-> 5,
   EXIT2_IR |-> 4, UPDATE_IR |-> 3]

(***************************************************************************)
(* The table of set_pins: the next state is a state, and every clock with  *)
(* TMS high takes the TAP one step closer to TEST_LOGIC_RESET.             *)
(***************************************************************************)
LEMMA StatesAre ==
  States = {"TEST_LOGIC_RESET", "RUN_TEST_IDLE", "SELECT_DR_SCAN",
    "CAPTURE_DR", "SHIFT_DR", "EXIT1_DR", "PAUSE_DR", "EXIT2_DR",
    "UPDATE_DR", "SELECT_IR_SCAN", "CAPTURE_IR", "SHIFT_IR", "EXIT1_IR",
    "PAUSE_IR", "EXIT2_IR", "UPDATE_IR"}
BY DEF States, NextOn

LEMMA NextStateType ==
  ASSUME NEW s \in States, NEW t \in BOOLEAN PROVE NextState(s, t) \in States
<1>1. CASE t  BY <1>1, StatesAre DEF NextState, NextOn
<1>2. CASE ~t  BY <1>2, StatesAre DEF NextState, NextOn
<1>3. QED  BY <1>1, <1>2

LEMMA DistanceType ==
  \A s \in States : Distance[s] \in 0 .. 5
                    /\ (Distance[s] = 0 => s = "TEST_LOGIC_RESET")
BY StatesAre DEF Distance

LEMMA OnesApproach ==
  ASSUME NEW s \in States
  PROVE  \/ Distance[NextState(s, TRUE)] = 0
         \/ Distance[NextState(s, TRUE)] = Distance[s] - 1
BY StatesAre DEF NextState, NextOn, Distance

(***************************************************************************)
(* Where the scan of a data register can come from: SHIFT, EXIT and PAUSE  *)
(* are reached from within it, CAPTURE_DR begins it, UPDATE_DR ends it.    *)
(***************************************************************************)
InScan == {"SHIFT_DR", "EXIT1_DR", "PAUSE_DR", "EXIT2_DR"}

LEMMA ScanPath ==
  ASSUME NEW s \in States, NEW t \in BOOLEAN
  PROVE  /\ NextState(s, t) \in InScan => s \in InScan \cup {"CAPTURE_DR"}
         /\ NextState(s, t) = "UPDATE_DR" => s \in InScan
         /\ s = "SHIFT_IR" => NextState(s, t) \in {"SHIFT_IR", "EXIT1_IR"}
<1>1. CASE t
  BY <1>1, StatesAre DEF NextState, NextOn, InScan
<1>2. CASE ~t
  BY <1>2, StatesAre DEF NextState, NextOn, InScan
<1>3. QED  BY <1>1, <1>2

(***************************************************************************)
(* Type correctness: the registers hold values of theirs, and the wait of  *)
(* rti_remaining is never below 0 or above RequiredRti, from any power-on  *)
(* value.                                                                  *)
(***************************************************************************)
LEMMA InitTypeOK == Init => TypeOK
<1> SUFFICES ASSUME Init PROVE TypeOK
  OBVIOUS
<1>1. state \in States  BY StatesAre DEF Init
<1>2. ir \in Instructions /\ dr \in Data  BY DtmAssumption DEF Init
<1>3. idle \in 0 .. RequiredRti /\ ones \in 0 .. 5 /\ accesses \in 0 .. 2
  BY DtmAssumption DEF Init
<1>4. QED  BY <1>1, <1>2, <1>3 DEF Init, TypeOK

LEMMA RiseTypeOK ==
  ASSUME TypeOK, Rise, tck' \in BOOLEAN, tms' \in BOOLEAN PROVE TypeOK'
<1>1. state' \in States  BY NextStateType DEF TypeOK, Rise
<1>2. dr' \in Data /\ ir' \in Instructions
  BY DtmAssumption DEF TypeOK, Rise
<1>3. ones' \in 0 .. 5  BY DEF TypeOK, Rise, Sooner
<1>4. captured' \in {"none", "busy", Success, Failed}  BY DEF TypeOK, Rise
<1>5. (accepted' = FALSE /\ accesses' = 0)
      \/ (accepted' = accepted /\ accesses' = accesses)
  BY DEF Rise, updateVars
<1>6. accepted' \in BOOLEAN  BY <1>5, Zenon DEF TypeOK
<1>7. accesses' \in 0 .. 2  BY <1>5 DEF TypeOK
<1>8. QED  BY <1>1, <1>2, <1>3, <1>4, <1>6, <1>7 DEF TypeOK, Rise

LEMMA CaptureDrTypeOK ==
  ASSUME TypeOK, CaptureDr, UNCHANGED ones,
         tck' \in BOOLEAN, tms' \in BOOLEAN
  PROVE  TypeOK'
<1>1. dr' \in Data
  BY DEF TypeOK, CaptureDr, Data, Busy, Success, Failed
<1>2. busy_stuck' \in BOOLEAN  BY DEF TypeOK, CaptureDr, BusyAfterCapture
<1>3. captured' \in {"none", "busy", Success, Failed}
  BY DEF TypeOK, CaptureDr
<1>4. UNCHANGED <<state, ir, dmi, rti_remaining, updateVars, idle, served>>
  BY DEF CaptureDr
<1>5. QED  BY <1>1, <1>2, <1>3, <1>4 DEF TypeOK, updateVars

LEMMA UpdateDrTypeOK ==
  ASSUME TypeOK, UpdateDr, UNCHANGED ones,
         tck' \in BOOLEAN, tms' \in BOOLEAN
  PROVE  TypeOK'
<1>1. "TEST_LOGIC_RESET" \in States  BY StatesAre
<1>2. CASE ir = "dtmcontrol" /\ dr = "hardreset" /\ Registers
           /\ state' = "TEST_LOGIC_RESET" /\ served' = FALSE
           /\ UNCHANGED <<ir, dr, captured, updateVars, idle>>
  <2>1. rti_remaining' \in 0 .. RequiredRti
    BY <1>2, DtmAssumption DEF Registers
  <2>2. QED  BY <1>1, <1>2, <2>1, Zenon DEF TypeOK, Registers, updateVars
<1>3. CASE busy_stuck' = FALSE
           /\ UNCHANGED <<state, ir, dr, dmi, rti_remaining, captured,
                          updateVars, idle, served>>
  BY <1>3 DEF TypeOK, updateVars
<1>4. ASSUME NEW ok \in BOOLEAN, TakeRequest(ok) PROVE TypeOK'
  <2>1. accesses' \in 0 .. 2  BY <1>4 DEF TypeOK, TakeRequest, Sooner
  <2>2. dmi' \in {Success, Failed}  BY <1>4 DEF TakeRequest
  <2>3. rti_remaining' \in 0 .. RequiredRti /\ idle' \in 0 .. RequiredRti
    BY <1>4, DtmAssumption DEF TakeRequest, WaitAfterAccess
  <2>4. QED  BY <1>4, <2>1, <2>2, <2>3 DEF TypeOK, TakeRequest
<1>5. CASE NoUpdate
  BY <1>5 DEF TypeOK, NoUpdate, dtmVars, updateVars
<1>6. QED  BY <1>2, <1>3, <1>4, <1>5 DEF UpdateDr

LEMMA NotRiseTypeOK ==
  ASSUME TypeOK, NotRise, tck' \in BOOLEAN, tms' \in BOOLEAN PROVE TypeOK'
<1>1. CASE state = "RUN_TEST_IDLE"
  <2>1. rti_remaining' \in 0 .. RequiredRti
    BY <1>1, DtmAssumption DEF TypeOK, NotRise, RtiAfterCycle
  <2>2. idle' \in 0 .. RequiredRti
    BY <1>1, DtmAssumption DEF TypeOK, NotRise, Sooner
  <2>3. QED  BY <1>1, <2>1, <2>2 DEF TypeOK, NotRise, updateVars
<1>2. CASE state = "TEST_LOGIC_RESET"
  BY <1>2 DEF TypeOK, NotRise, updateVars, Instructions
<1>3. CASE state = "CAPTURE_DR"
  BY <1>3, CaptureDrTypeOK DEF NotRise
<1>4. CASE state = "UPDATE_DR"
  BY <1>4, UpdateDrTypeOK DEF NotRise
<1>5. CASE state \notin {"RUN_TEST_IDLE", "TEST_LOGIC_RESET",
                         "CAPTURE_DR", "UPDATE_DR"}
  BY <1>5 DEF TypeOK, NotRise, NoUpdate, dtmVars, updateVars
<1>6. QED  BY <1>1, <1>2, <1>3, <1>4, <1>5

LEMMA NextTypeOK == TypeOK /\ [Next]_vars => TypeOK'
<1> SUFFICES ASSUME TypeOK, [Next]_vars PROVE TypeOK'
  OBVIOUS
<1>1. CASE reset
  <2>1. "TEST_LOGIC_RESET" \in States  BY StatesAre
  <2>2. rti_remaining' \in 0 .. RequiredRti /\ idle' \in 0 .. RequiredRti
        /\ ones' \in 0 .. 5 /\ accesses' \in 0 .. 2
    BY <1>1, DtmAssumption DEF reset, Registers
  <2>3. QED  BY <1>1, <2>1, <2>2, Zenon DEF TypeOK, reset, Registers
<1>2. ASSUME NEW k \in BOOLEAN, NEW m \in BOOLEAN, set_pins(k, m)
      PROVE  TypeOK'
  <2>1. tck' \in BOOLEAN /\ tms' \in BOOLEAN  BY <1>2 DEF set_pins
  <2>2. CASE Rise  BY <2>1, <2>2, RiseTypeOK
  <2>3. CASE NotRise  BY <2>1, <2>3, NotRiseTypeOK
  <2>4. QED  BY <1>2, <2>2, <2>3 DEF set_pins
<1>3. CASE UNCHANGED vars
  BY <1>3 DEF TypeOK, vars, dtmVars, updateVars
<1>4. QED  BY <1>1, <1>2, <1>3 DEF Next

\* The registers hold values of theirs, whatever the pins do.
THEOREM Typing == Spec => []TypeOK
<1>1. Init => TypeOK  BY InitTypeOK
<1>2. TypeOK /\ [Next]_vars => TypeOK'  BY NextTypeOK
<1>3. QED  BY <1>1, <1>2, PTL DEF Spec

(***************************************************************************)
(* Five clocks with TMS high reach TEST_LOGIC_RESET, from any state. Not   *)
(* inductive as it stands: the TAP is never further away than the clocks   *)
(* that are still missing.                                                 *)
(***************************************************************************)
Approaching == Distance[state] <= 5 - ones

LEMMA NextApproaching ==
  ASSUME TypeOK, Approaching, [Next]_vars PROVE Approaching'
<1>1. Distance["TEST_LOGIC_RESET"] = 0  BY DEF Distance
<1>2. ASSUME Rise PROVE Approaching'
  <2>1. state' \in States /\ Distance[state] \in 0 .. 5
    BY <1>2, NextStateType, DistanceType DEF Rise, TypeOK
  <2>2. Distance[state'] \in 0 .. 5  BY <2>1, DistanceType
  <2>3. CASE tms
    <3>1. state' = NextState(state, TRUE)
      BY <1>2, <2>3 DEF Rise, NextState
    <3>2. Distance[state'] = 0 \/ Distance[state'] = Distance[state] - 1
      BY <3>1, OnesApproach DEF TypeOK
    <3>3. ones' = IF ones + 1 < 5 THEN ones + 1 ELSE 5
      BY <1>2, <2>3 DEF Rise, Sooner
    <3>4. QED
      BY <2>1, <2>2, <3>2, <3>3 DEF Approaching, TypeOK
  <2>4. CASE ~tms
    <3>1. ones' = 0  BY <1>2, <2>4 DEF Rise
    <3>2. QED  BY <2>2, <3>1 DEF Approaching
  <2>5. QED  BY <2>3, <2>4 DEF TypeOK
<1>3. ASSUME NotRise PROVE Approaching'
  <2>1. ones' = ones  BY <1>3 DEF NotRise
  <2>2. state' = state \/ state' = "TEST_LOGIC_RESET"
    BY <1>3, Zenon DEF NotRise, CaptureDr, UpdateDr, TakeRequest, NoUpdate
  <2>3. QED  BY <1>1, <2>1, <2>2 DEF Approaching, TypeOK
<1>4. CASE reset
  BY <1>1, <1>4 DEF Approaching, reset
<1>5. CASE UNCHANGED vars
  BY <1>5 DEF Approaching, vars
<1>6. QED  BY <1>2, <1>3, <1>4, <1>5 DEF Next, set_pins

\* Five clocks with TMS high reset the TAP, whatever the pins did before.
THEOREM FindsTap == Spec => []FiveOnesReset
<1>1. Init => Approaching
  BY DEF Init, Approaching, Distance
<1>2. TypeOK /\ Approaching /\ [Next]_vars => Approaching'
  BY NextApproaching
<1>3. TypeOK /\ Approaching => FiveOnesReset
  <2> SUFFICES ASSUME TypeOK, Approaching, ones = 5
               PROVE  state = "TEST_LOGIC_RESET"
    BY DEF FiveOnesReset
  <2>1. Distance[state] \in 0 .. 5  BY DistanceType DEF TypeOK
  <2>2. Distance[state] = 0  BY <2>1 DEF Approaching
  <2>3. QED  BY <2>2, DistanceType DEF TypeOK
<1>4. QED  BY <1>1, <1>2, <1>3, Typing, PTL DEF Spec

(***************************************************************************)
(* A scan is honest. Between CAPTURE_DR and UPDATE_DR, the status that was *)
(* reported and the sticky busy bit agree and nothing is accepted; in      *)
(* UPDATE_DR they still agree, and once TCK is low update_dr has run.      *)
(***************************************************************************)
Captured == \/ state \in InScan \cup {"UPDATE_DR"}
            \/ state = "CAPTURE_DR" /\ ~tck
ReportAgrees == Captured /\ ir = "dbus" => (captured = "busy" <=> busy_stuck)
NotYetTaken == state \in InScan \cup {"CAPTURE_DR"} => ~accepted
TakenIfFree == state = "UPDATE_DR" /\ ir = "dbus" =>
                 /\ accepted => ~busy_stuck
                 /\ ~tck /\ ~busy_stuck => accepted
ScanInv == ReportAgrees /\ NotYetTaken /\ TakenIfFree

LEMMA RiseScanInv ==
  ASSUME TypeOK, ScanInv, Rise, ~tck, tck' PROVE ScanInv'
<1>1. /\ state' \in InScan => state \in InScan \cup {"CAPTURE_DR"}
      /\ state' = "UPDATE_DR" => state \in InScan
      /\ state = "SHIFT_IR" => state' \in {"SHIFT_IR", "EXIT1_IR"}
  BY ScanPath DEF TypeOK, Rise
<1>2. UNCHANGED busy_stuck  BY DEF Rise
<1>3. ReportAgrees'
  <2> SUFFICES ASSUME Captured', ir' = "dbus"
               PROVE  captured' = "busy" <=> busy_stuck'
    BY DEF ReportAgrees
  <2>1. state' \in InScan \cup {"UPDATE_DR"}  BY DEF Captured
  <2>2. state # "SHIFT_IR" /\ state' # "CAPTURE_DR"
    BY <1>1, <2>1 DEF InScan
  <2>3. ir = "dbus" /\ captured' = captured  BY <2>2 DEF Rise
  <2>4. Captured  BY <1>1, <2>1 DEF Captured
  <2>5. QED  BY <1>2, <2>3, <2>4, Zenon DEF ScanInv, ReportAgrees
<1>4. NotYetTaken'
  <2>1. CASE state' = "CAPTURE_DR"
    BY <2>1 DEF Rise, NotYetTaken
  <2>2. CASE state' # "CAPTURE_DR"
    <3>1. accepted' = accepted  BY <2>2 DEF Rise, updateVars
    <3>2. state' \in InScan => state \in InScan \cup {"CAPTURE_DR"}
      BY <1>1
    <3>3. QED  BY <2>2, <3>1, <3>2, Zenon DEF ScanInv, NotYetTaken
  <2>3. QED  BY <2>1, <2>2
<1>5. TakenIfFree'
  <2> SUFFICES ASSUME state' = "UPDATE_DR" PROVE ~accepted'
    BY DEF TakenIfFree
  <2>1. accepted' = accepted  BY DEF Rise, updateVars
  <2>2. state \in InScan \cup {"CAPTURE_DR"}  BY <1>1
  <2>3. QED  BY <2>1, <2>2, Zenon DEF ScanInv, NotYetTaken
<1>6. QED  BY <1>3, <1>4, <1>5 DEF ScanInv

LEMMA NotRiseScanInv ==
  ASSUME TypeOK, ScanInv, NotRise PROVE ScanInv'
<1>1. CASE state = "RUN_TEST_IDLE"
  <2>1. state' = "RUN_TEST_IDLE"  BY <1>1 DEF NotRise
  <2>2. QED
    BY <2>1 DEF ScanInv, ReportAgrees, Captured, NotYetTaken, TakenIfFree,
                InScan
<1>2. CASE state = "TEST_LOGIC_RESET"
  <2>1. state' = "TEST_LOGIC_RESET"  BY <1>2 DEF NotRise
  <2>2. QED
    BY <2>1 DEF ScanInv, ReportAgrees, Captured, NotYetTaken, TakenIfFree,
                InScan
<1>3. CASE state = "CAPTURE_DR"
  <2>1. CaptureDr  BY <1>3 DEF NotRise
  <2>2. state' = "CAPTURE_DR" /\ accepted' = accepted /\ ir' = ir
    BY <1>3, <2>1 DEF CaptureDr, updateVars
  <2>3. ASSUME ir = "dbus" PROVE captured' = "busy" <=> busy_stuck'
    <3> DEFINE busy == rti_remaining > 0 \/ busy_stuck
    <3>1. captured' = IF busy THEN "busy" ELSE dmi
      BY <2>1, <2>3 DEF CaptureDr
    <3>2. busy_stuck' = (busy_stuck \/ busy)
      BY <2>1, <2>3 DEF CaptureDr, BusyAfterCapture
    <3>3. dmi # "busy"  BY DEF TypeOK, Success, Failed
    <3>4. busy_stuck => busy  OBVIOUS
    <3> HIDE DEF busy
    <3>5. CASE busy  BY <3>1, <3>2, <3>5, Zenon
    <3>6. CASE ~busy  BY <3>1, <3>2, <3>3, <3>4, <3>6, Zenon
    <3>7. QED  BY <3>5, <3>6
  <2>4. ReportAgrees'  BY <2>2, <2>3, Zenon DEF ReportAgrees
  <2>5. NotYetTaken'
    BY <1>3, <2>2, Zenon DEF ScanInv, NotYetTaken
  <2>6. TakenIfFree'  BY <2>2 DEF TakenIfFree
  <2>7. QED  BY <2>4, <2>5, <2>6 DEF ScanInv
<1>4. CASE state = "UPDATE_DR"
  <2>0. UpdateDr  BY <1>4 DEF NotRise
  <2>1. Captured /\ "UPDATE_DR" \notin InScan \cup {"CAPTURE_DR"}
    BY <1>4 DEF Captured, InScan
  <2>2. ASSUME ir = "dtmcontrol", ir' = ir PROVE ScanInv'
    <3>1. state' \in {"UPDATE_DR", "TEST_LOGIC_RESET"}
      BY <1>4, <2>0 DEF UpdateDr, TakeRequest, NoUpdate
    <3>2. QED
      BY <2>2, <3>1
      DEF ScanInv, ReportAgrees, NotYetTaken, TakenIfFree, InScan
  <2>3. CASE ir = "dtmcontrol"
    <3>1. ir' = ir
      BY <2>3, <2>0 DEF UpdateDr, TakeRequest, NoUpdate, dtmVars
    <3>2. QED  BY <2>2, <2>3, <3>1
  <2>4. ASSUME ir = "dbus", ~busy_stuck, NEW ok \in BOOLEAN, TakeRequest(ok)
        PROVE  ScanInv'
    <3>1. /\ state' = "UPDATE_DR" /\ ir' = ir /\ accepted' = TRUE
          /\ busy_stuck' = busy_stuck /\ captured' = captured
      BY <1>4, <2>4 DEF TakeRequest
    <3>2. captured # "busy"
      BY <2>1, <2>4, Zenon DEF ScanInv, ReportAgrees
    <3>3. QED
      BY <2>1, <2>4, <3>1, <3>2, Zenon
      DEF ScanInv, ReportAgrees, NotYetTaken, TakenIfFree
  <2>5. ASSUME ir = "dbus" => busy_stuck, NoUpdate PROVE ScanInv'
    <3>1. /\ state' = "UPDATE_DR" /\ ir' = ir /\ accepted' = accepted
          /\ busy_stuck' = busy_stuck /\ captured' = captured
      BY <1>4, <2>5 DEF NoUpdate, dtmVars, updateVars
    <3>2. ReportAgrees'
      BY <2>1, <3>1, Zenon DEF ScanInv, ReportAgrees
    <3>3. TakenIfFree'
      BY <1>4, <2>5, <3>1, Zenon DEF ScanInv, TakenIfFree
    <3>4. QED
      BY <2>1, <3>1, <3>2, <3>3, Zenon DEF ScanInv, NotYetTaken
  <2>6. QED  BY <2>0, <2>3, <2>4, <2>5 DEF UpdateDr
<1>5. CASE state \notin {"RUN_TEST_IDLE", "TEST_LOGIC_RESET",
                         "CAPTURE_DR", "UPDATE_DR"}
  <2>1. /\ state' = state /\ ir' = ir /\ accepted' = accepted
        /\ busy_stuck' = busy_stuck /\ captured' = captured
    BY <1>5 DEF NotRise, NoUpdate, dtmVars, updateVars
  <2>2. Captured' => Captured  BY <1>5, <2>1 DEF Captured
  <2>3. ReportAgrees'  BY <2>1, <2>2, Zenon DEF ScanInv, ReportAgrees
  <2>4. NotYetTaken'  BY <2>1, Zenon DEF ScanInv, NotYetTaken
  <2>5. TakenIfFree'  BY <1>5, <2>1 DEF TakenIfFree
  <2>6. QED  BY <2>3, <2>4, <2>5 DEF ScanInv
<1>6. QED  BY <1>1, <1>2, <1>3, <1>4, <1>5

LEMMA NextScanInv == TypeOK /\ ScanInv /\ [Next]_vars => ScanInv'
<1> SUFFICES ASSUME TypeOK, ScanInv, [Next]_vars PROVE ScanInv'
  OBVIOUS
<1>1. CASE reset
  BY <1>1 DEF reset, ScanInv, ReportAgrees, Captured, NotYetTaken,
              TakenIfFree, InScan
<1>2. ASSUME NEW k \in BOOLEAN, NEW m \in BOOLEAN, set_pins(k, m)
      PROVE  ScanInv'
  <2>1. CASE ~tck /\ k
    <3>1. Rise /\ tck'  BY <1>2, <2>1 DEF set_pins
    <3>2. QED  BY <2>1, <3>1, RiseScanInv
  <2>2. CASE ~(~tck /\ k)
    <3>1. NotRise  BY <1>2, <2>2 DEF set_pins
    <3>2. QED  BY <3>1, NotRiseScanInv
  <2>3. QED  BY <2>1, <2>2
<1>3. CASE UNCHANGED vars
  <2>1. UNCHANGED <<state, tck, ir, captured, accepted, busy_stuck>>
    BY <1>3 DEF vars, dtmVars, updateVars
  <2>2. QED
    BY <2>1, Zenon
    DEF ScanInv, ReportAgrees, Captured, NotYetTaken, TakenIfFree
<1>4. QED  BY <1>1, <1>2, <1>3 DEF Next

\* A scan that ends and does not report a failed access was taken exactly if
\* it was not reported busy, however the pins were driven (BusyAfterCapture
\* and TakeRequest agree on what stops a request).
THEOREM ScansAreHonest == Spec => HonestScan
<1>1. Init => ScanInv
  BY DEF Init, ScanInv, ReportAgrees, Captured, NotYetTaken, TakenIfFree,
         InScan
<1>2. TypeOK /\ ScanInv /\ [Next]_vars
        => [EndsScan /\ ir = "dbus" /\ captured # Failed
              => (accepted <=> captured # "busy")]_vars
  <2> SUFFICES ASSUME TypeOK, ScanInv, [Next]_vars,
                      EndsScan, ir = "dbus", captured # Failed
               PROVE  accepted <=> captured # "busy"
    OBVIOUS
  <2>1. state = "UPDATE_DR" /\ state' # "UPDATE_DR"
        /\ state' # "TEST_LOGIC_RESET"
    BY DEF EndsScan
  <2>2. ~tck
    <3>1. ~ reset /\ ~ UNCHANGED vars  BY <2>1 DEF reset, vars
    <3>2. PICK k \in BOOLEAN, m \in BOOLEAN : set_pins(k, m)
      BY <3>1 DEF Next
    <3>3. ~ NotRise
      BY <2>1 DEF NotRise, UpdateDr, TakeRequest, NoUpdate
    <3>4. QED  BY <3>2, <3>3 DEF set_pins
  <2>3. Captured  BY <2>1 DEF Captured
  <2>4. QED
    BY <2>1, <2>2, <2>3, Zenon DEF ScanInv, ReportAgrees, TakenIfFree
<1>3. QED  BY <1>1, <1>2, NextScanInv, Typing, PTL DEF Spec, HonestScan

(***************************************************************************)
(* Requests are paced. Since the last request taken, rti_remaining has     *)
(* counted down as many cycles as were spent in RUN_TEST_IDLE; and a scan  *)
(* that was captured free found the count at 0 and has not changed it.     *)
(***************************************************************************)
Spent == served => idle = RequiredRti - rti_remaining
FreeMeansZero ==
  Captured /\ ir = "dbus" /\ ~busy_stuck /\ ~accepted => rti_remaining = 0
PaceInv == Spent /\ FreeMeansZero

LEMMA RisePaceInv ==
  ASSUME TypeOK, ScanInv, PaceInv, Rise, ~tck, tck' PROVE PaceInv'
<1>1. UNCHANGED <<served, idle, rti_remaining, busy_stuck>>
  BY DEF Rise
<1>2. Spent'  BY <1>1 DEF PaceInv, Spent
<1>3. FreeMeansZero'
  <2> SUFFICES ASSUME Captured', ir' = "dbus", ~busy_stuck', ~accepted'
               PROVE  rti_remaining = 0
    BY <1>1 DEF FreeMeansZero
  <2>1. state' \in InScan \cup {"UPDATE_DR"}  BY DEF Captured
  <2>2. state \in InScan \cup {"CAPTURE_DR"} /\ state # "SHIFT_IR"
    BY <2>1, ScanPath DEF TypeOK, Rise, InScan
  <2>3. Captured  BY <2>2 DEF Captured
  <2>4. ir = "dbus"  BY <2>2 DEF Rise
  <2>5. ~accepted  BY <2>2, Zenon DEF ScanInv, NotYetTaken
  <2>6. QED
    BY <1>1, <2>3, <2>4, <2>5, Zenon DEF PaceInv, FreeMeansZero
<1>4. QED  BY <1>2, <1>3 DEF PaceInv

LEMMA NotRisePaceInv ==
  ASSUME TypeOK, ScanInv, PaceInv, NotRise PROVE PaceInv'
<1>1. CASE state = "RUN_TEST_IDLE"
  <2>1. /\ state' = "RUN_TEST_IDLE" /\ served' = served
        /\ rti_remaining' = RtiAfterCycle
        /\ idle' = Sooner(idle + 1, RequiredRti)
    BY <1>1 DEF NotRise
  <2>2. Spent'
    BY <2>1, DtmAssumption DEF PaceInv, Spent, RtiAfterCycle, Sooner, TypeOK
  <2>3. FreeMeansZero'  BY <2>1 DEF FreeMeansZero, Captured, InScan
  <2>4. QED  BY <2>2, <2>3 DEF PaceInv
<1>2. CASE state = "TEST_LOGIC_RESET"
  <2>1. /\ state' = "TEST_LOGIC_RESET"
        /\ UNCHANGED <<served, idle, rti_remaining>>
    BY <1>2 DEF NotRise
  <2>2. QED  BY <2>1 DEF PaceInv, Spent, FreeMeansZero, Captured, InScan
<1>3. CASE state = "CAPTURE_DR"
  <2>1. CaptureDr  BY <1>3 DEF NotRise
  <2>2. UNCHANGED <<served, idle, rti_remaining, ir, accepted>>
    BY <2>1 DEF CaptureDr, updateVars
  <2>3. ASSUME ir = "dbus", ~busy_stuck' PROVE ~(rti_remaining > 0)
    BY <2>1, <2>3 DEF CaptureDr, BusyAfterCapture
  <2>4. FreeMeansZero'
    BY <2>2, <2>3 DEF FreeMeansZero, TypeOK
  <2>5. Spent'  BY <2>2 DEF PaceInv, Spent
  <2>6. QED  BY <2>4, <2>5 DEF PaceInv
<1>4. CASE state = "UPDATE_DR"
  <2>0. UpdateDr  BY <1>4 DEF NotRise
  <2>1. CASE ir = "dtmcontrol"
    <3>1. ir' = ir
      BY <2>0, <2>1 DEF UpdateDr, TakeRequest, NoUpdate, dtmVars
    <3>2. FreeMeansZero'  BY <2>1, <3>1 DEF FreeMeansZero
    <3>3. served' = FALSE \/ UNCHANGED <<served, idle, rti_remaining>>
      BY <2>0, <2>1 DEF UpdateDr, NoUpdate, dtmVars
    <3>4. Spent'  BY <3>3 DEF PaceInv, Spent
    <3>5. QED  BY <3>2, <3>4 DEF PaceInv
  <2>2. ASSUME NEW ok \in BOOLEAN, TakeRequest(ok) PROVE PaceInv'
    <3>1. accepted' /\ rti_remaining' = RequiredRti /\ idle' = 0
      BY <2>2 DEF TakeRequest, WaitAfterAccess
    <3>2. QED  BY <3>1, DtmAssumption DEF PaceInv, Spent, FreeMeansZero
  <2>3. CASE NoUpdate
    <3>1. UNCHANGED <<state, ir, accepted, busy_stuck, served, idle,
                      rti_remaining>>
      BY <2>3 DEF NoUpdate, dtmVars, updateVars
    <3>2. Captured  BY <1>4 DEF Captured
    <3>3. FreeMeansZero'
      BY <3>1, <3>2, Zenon DEF PaceInv, FreeMeansZero
    <3>4. Spent'  BY <3>1 DEF PaceInv, Spent
    <3>5. QED  BY <3>3, <3>4 DEF PaceInv
  <2>4. QED  BY <2>0, <2>1, <2>2, <2>3 DEF UpdateDr
<1>5. CASE state \notin {"RUN_TEST_IDLE", "TEST_LOGIC_RESET",
                         "CAPTURE_DR", "UPDATE_DR"}
  <2>1. UNCHANGED <<state, ir, accepted, busy_stuck, served, idle,
                    rti_remaining>>
    BY <1>5 DEF NotRise, NoUpdate, dtmVars, updateVars
  <2>2. Captured' => Captured  BY <1>5, <2>1 DEF Captured
  <2>3. FreeMeansZero'
    BY <2>1, <2>2, Zenon DEF PaceInv, FreeMeansZero
  <2>4. Spent'  BY <2>1 DEF PaceInv, Spent
  <2>5. QED  BY <2>3, <2>4 DEF PaceInv
<1>6. QED  BY <1>1, <1>2, <1>3, <1>4, <1>5

LEMMA NextPaceInv ==
  TypeOK /\ ScanInv /\ PaceInv /\ [Next]_vars => PaceInv'
<1> SUFFICES ASSUME TypeOK, ScanInv, PaceInv, [Next]_vars PROVE PaceInv'
  OBVIOUS
<1>1. CASE reset
  BY <1>1 DEF reset, PaceInv, Spent, FreeMeansZero, Captured, InScan
<1>2. ASSUME NEW k \in BOOLEAN, NEW m \in BOOLEAN, set_pins(k, m)
      PROVE  PaceInv'
  <2>1. CASE ~tck /\ k
    <3>1. Rise /\ tck'  BY <1>2, <2>1 DEF set_pins
    <3>2. QED  BY <2>1, <3>1, RisePaceInv
  <2>2. CASE ~(~tck /\ k)
    <3>1. NotRise  BY <1>2, <2>2 DEF set_pins
    <3>2. QED  BY <3>1, NotRisePaceInv
  <2>3. QED  BY <2>1, <2>2
<1>3. CASE UNCHANGED vars
  <2>1. UNCHANGED <<state, tck, ir, accepted, busy_stuck, served, idle,
                    rti_remaining>>
    BY <1>3 DEF vars, dtmVars, updateVars
  <2>2. QED
    BY <2>1, Zenon DEF PaceInv, Spent, FreeMeansZero, Captured
<1>4. QED  BY <1>1, <1>2, <1>3 DEF Next

\* A request is taken no sooner than required_rti_cycles after the one
\* before, whatever the pins do, also when busy was cleared between.
THEOREM RequestsArePaced == Spec => PacedRequests
<1>1. Init => ScanInv /\ PaceInv
  BY DEF Init, ScanInv, ReportAgrees, Captured, NotYetTaken, TakenIfFree,
         InScan, PaceInv, Spent, FreeMeansZero
<1>2. TypeOK /\ ScanInv /\ PaceInv /\ [Next]_vars
        => [accepted' /\ ~accepted /\ served => idle = RequiredRti]_vars
  <2> SUFFICES ASSUME TypeOK, PaceInv, Next, accepted', ~accepted, served
               PROVE  idle = RequiredRti
    BY DEF vars, updateVars
  <2>1. ~reset  BY DEF reset
  <2>2. PICK k \in BOOLEAN, m \in BOOLEAN : set_pins(k, m)
    BY <2>1 DEF Next
  <2>3. ~Rise  BY DEF Rise, updateVars
  <2>4. NotRise  BY <2>2, <2>3 DEF set_pins
  <2>5. state = "UPDATE_DR" /\ ir = "dbus" /\ ~busy_stuck
    BY <2>4 DEF NotRise, CaptureDr, UpdateDr, NoUpdate, updateVars
  <2>6. rti_remaining = 0
    BY <2>5 DEF PaceInv, FreeMeansZero, Captured
  <2>7. QED  BY <2>6, DtmAssumption DEF PaceInv, Spent
<1>3. QED
  BY <1>1, <1>2, NextScanInv, NextPaceInv, Typing, PTL
  DEF Spec, PacedRequests

(***************************************************************************)
(* One access per scan, for a driver that toggles TCK with every call: the *)
(* falling edge of UPDATE_DR is followed by the rising edge that leaves    *)
(* it.                                                                     *)
(***************************************************************************)
NoneYet == \/ state \in InScan \cup {"CAPTURE_DR"}
           \/ state = "UPDATE_DR" /\ tck
OneInv == accesses \in {0, 1} /\ (NoneYet => accesses = 0)

LEMMA NextOneInv == TypeOK /\ OneInv /\ [ClockedNext]_vars => OneInv'
<1> SUFFICES ASSUME TypeOK, OneInv, [ClockedNext]_vars PROVE OneInv'
  OBVIOUS
<1>1. CASE reset
  BY <1>1 DEF reset, OneInv
<1>2. ASSUME NEW m \in BOOLEAN, set_pins(~tck, m), ~tck
      PROVE  OneInv'
  <2>1. Rise  BY <1>2 DEF set_pins
  <2>2. CASE state' = "CAPTURE_DR"
    BY <2>1, <2>2 DEF Rise, OneInv
  <2>3. CASE state' # "CAPTURE_DR"
    <3>1. accesses' = accesses  BY <2>1, <2>3 DEF Rise, updateVars
    <3>2. NoneYet' => state \in InScan \cup {"CAPTURE_DR"}
      BY <2>1, <2>3, ScanPath DEF NoneYet, Rise, TypeOK
    <3>3. QED  BY <3>1, <3>2 DEF OneInv, NoneYet
  <2>4. QED  BY <2>2, <2>3
<1>3. ASSUME NEW m \in BOOLEAN, set_pins(~tck, m), tck
      PROVE  OneInv'
  <2>1. NotRise /\ ~tck'  BY <1>3 DEF set_pins, TypeOK
  <2>2. CASE state = "UPDATE_DR"
    <3>1. accesses = 0  BY <1>3, <2>2 DEF OneInv, NoneYet
    <3>2. state' \in {"UPDATE_DR", "TEST_LOGIC_RESET"}
      BY <2>1, <2>2 DEF NotRise, UpdateDr, TakeRequest, NoUpdate
    <3>3. accesses' \in {0, 1}
      BY <2>1, <2>2, <3>1
      DEF NotRise, UpdateDr, TakeRequest, NoUpdate, updateVars, Sooner
    <3>4. ~NoneYet'  BY <2>1, <3>2 DEF NoneYet, InScan
    <3>5. QED  BY <3>3, <3>4 DEF OneInv
  <2>3. CASE state # "UPDATE_DR"
    <3>1. state' = state /\ accesses' = accesses
      BY <2>1, <2>3 DEF NotRise, CaptureDr, NoUpdate, updateVars
    <3>2. QED  BY <2>3, <3>1 DEF OneInv, NoneYet
  <2>4. QED  BY <2>2, <2>3
<1>4. CASE UNCHANGED vars
  BY <1>4 DEF vars, updateVars, OneInv, NoneYet
<1>5. QED  BY <1>1, <1>2, <1>3, <1>4 DEF ClockedNext

\* One scan makes one access at most if TCK toggles with every call.
THEOREM ScansAccessOnce == ClockedSpec => []OneAccessPerScan
<1>1. ClockedSpec => Spec
  <2>1. ResetInit => Init  BY DEF ResetInit
  <2>2. [ClockedNext]_vars => [Next]_vars
    BY DEF ClockedNext, Next
  <2>. QED  BY <2>1, <2>2, PTL DEF ClockedSpec, Spec
<1>2. ResetInit => OneInv  BY DEF ResetInit, Init, OneInv
<1>3. OneInv => OneAccessPerScan  BY DEF OneInv, OneAccessPerScan
<1>4. QED
  BY <1>1, <1>2, <1>3, NextOneInv, Typing, PTL DEF ClockedSpec
=============================================================================
