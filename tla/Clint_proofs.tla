---------------------------- MODULE Clint_proofs ----------------------------
(***************************************************************************)
(* What holds of interrupts and traps for every delegation, every set of   *)
(* exceptions, any depth of nested handlers and any width of the timer.    *)
(***************************************************************************)
EXTENDS Clint, SequenceTheorems, TLAPS

\* Everything outside the hart leaves all of it but mip alone.
LEMMA OutsideTheHart ==
  ASSUME AcknowledgeMsi \/ AcknowledgeMti \/ Others
  PROVE  UNCHANGED hartRest
BY DEF AcknowledgeMsi, AcknowledgeMti, Others, StoreMsip, StoreMtimecmp,
   StoreMtime, tick, SetSoftware, hartRest, statusVars

----------------------------------------------------------------------------
\* In every state that is reached the timer interrupt of the hart says
\* whether time has reached the deadline: each store and tick brings it up to
\* date, and the hart writes other bits only.
THEOREM TimerIsCurrent == Spec => []TimerCurrent
<1>1. Init => TimerCurrent
  BY DEF Init, TimerCurrent
<1>2. TimerCurrent /\ [Next]_allVars => TimerCurrent'
  <2>. SUFFICES ASSUME TimerCurrent, [Next]_allVars
                PROVE  TimerCurrent'
    OBVIOUS
  <2>1. CASE HartStep /\ UNCHANGED clintVars
    <3>1. "MTI" \in mip' <=> "MTI" \in mip
      BY <2>1 DEF HartStep, TakeInterrupt, take_trap, WakeUp, Wfi, Save,
         Restore, Return, Acknowledge, SetSoftware, Exception, WriteIe
    <3>2. UNCHANGED <<mtime, mtimecmp>>
      BY <2>1 DEF clintVars
    <3>. QED
      BY <3>1, <3>2 DEF TimerCurrent
  <2>2. ASSUME NEW lines, mip' = Mtip(lines)
        PROVE  TimerCurrent'
    BY <2>2 DEF Mtip, TimerCurrent
  <2>3. CASE AcknowledgeMsi
    BY <2>2, <2>3 DEF AcknowledgeMsi, StoreMsip
  <2>4. CASE AcknowledgeMti
    BY <2>2, <2>4 DEF AcknowledgeMti, StoreMtimecmp
  <2>5. CASE Others
    <3>1. CASE StoreMsip(TRUE) \/ tick(1)
      BY <2>2, <3>1 DEF StoreMsip, tick
    <3>2. CASE \E t \in Times : StoreMtime(t)
      BY <2>2, <3>2 DEF StoreMtime
    <3>3. ASSUME NEW i \in {"SSI", "VSSI"},
                 SetSoftware(i, TRUE), UNCHANGED clintVars
          PROVE  TimerCurrent'
      <4>1. "MTI" \in mip' <=> "MTI" \in mip
        BY <3>3 DEF SetSoftware
      <4>. QED
        BY <3>3, <4>1 DEF clintVars, TimerCurrent
    <3>. QED
      BY <2>5, <3>1, <3>2, <3>3 DEF Others
  <2>6. CASE UNCHANGED allVars
    BY <2>6 DEF allVars, hartVars, clintVars, TimerCurrent
  <2>. QED
    BY <2>1, <2>3, <2>4, <2>5, <2>6 DEF Next
<1>. QED
  BY <1>1, <1>2, PTL DEF Spec

----------------------------------------------------------------------------
(***************************************************************************)
(* Types, of what handlers have saved too.                                 *)
(***************************************************************************)

Mstatuses == [MIE : BOOLEAN, MPIE : BOOLEAN, MPP : Modes, MPV : BOOLEAN,
              SIE : BOOLEAN, SPIE : BOOLEAN, SPP : {"U", "S"}]
Vsstatuses == [SIE : BOOLEAN, SPIE : BOOLEAN, SPP : {"U", "S"}]
Saveds == Mstatuses \X Vsstatuses \X BOOLEAN
Frames == [cause : Ints \cup Exceptions, level : Levels,
           prv : Modes, v : BOOLEAN, ie : BOOLEAN \X BOOLEAN \X BOOLEAN,
           stage : {"fresh", "saved", "leaving"}, saved : {<<>>} \cup Saveds]

FramesTyped ==
  /\ frames \in Seq(Frames)
  /\ \A k \in 1 .. Len(frames) :
       frames[k].stage = "saved" => frames[k].saved \in Saveds
Typed == HartTypeOK /\ FramesTyped

\* What a trap records is a frame.
LEMMA FrameTyped ==
  ASSUME HartTypeOK, NEW cause \in Ints \cup Exceptions
  PROVE  Frame(cause) \in Frames /\ Frame(cause).stage = "fresh"
<1>1. Target(cause) \in Levels
  BY DEF Target, Levels
<1>2. <<mstatus.MIE, mstatus.SIE, vsstatus.SIE>>
        \in BOOLEAN \X BOOLEAN \X BOOLEAN
  BY DEF HartTypeOK
<1>. QED
  BY <1>1, <1>2 DEF Frame, Frames, HartTypeOK

\* The status registers after a trap.
LEMMA TrapTyped ==
  ASSUME HartTypeOK, NEW cause \in Ints \cup Exceptions,
         take_trap(cause), in_wfi' \in BOOLEAN
  PROVE  HartTypeOK'
<1>1. CASE Target(cause) = "VS" /\ TrapToVs
  <2>1. prv \in {"U", "S"}
    BY <1>1 DEF Target, Vsdeleg, HartTypeOK, Modes
  <2>. QED
    BY <1>1, <2>1 DEF HartTypeOK, TrapToVs, set_privilege, take_trap, Modes
<1>2. CASE Target(cause) = "HS" /\ TrapToHs
  <2>1. prv \in {"U", "S"}
    BY <1>2 DEF Target, Hsdeleg, HartTypeOK, Modes
  <2>. QED
    BY <1>2, <2>1 DEF HartTypeOK, TrapToHs, SpvOnTrap, set_privilege, take_trap,
       Modes
<1>3. CASE Target(cause) = "M" /\ TrapToM
  BY <1>3 DEF HartTypeOK, TrapToM, set_privilege, take_trap, Modes
<1>. QED
  BY <1>1, <1>2, <1>3 DEF take_trap

\* One frame more.
LEMMA TrapFrames ==
  ASSUME Typed, NEW cause \in Ints \cup Exceptions, take_trap(cause)
  PROVE  /\ FramesTyped'
         /\ Len(frames') = Len(frames) + 1
         /\ frames'[Len(frames) + 1] = Frame(cause)
         /\ \A k \in 1 .. Len(frames) : frames'[k] = frames[k]
<1>1. Frame(cause) \in Frames /\ Frame(cause).stage = "fresh"
  BY FrameTyped DEF Typed
<1>2. frames' = Append(frames, Frame(cause)) /\ frames \in Seq(Frames)
  BY DEF take_trap, Typed, FramesTyped
<1>3. /\ frames' \in Seq(Frames)
      /\ Len(frames') = Len(frames) + 1
      /\ \A k \in 1 .. Len(frames) : frames'[k] = frames[k]
      /\ frames'[Len(frames) + 1] = Frame(cause)
  BY <1>1, <1>2, AppendProperties
<1>4. Len(frames) \in Nat
  BY <1>2, LenProperties
<1>5. \A k \in 1 .. Len(frames') : k = Len(frames) + 1 \/ k \in 1 .. Len(frames)
  BY <1>3, <1>4
<1>. QED
  BY <1>1, <1>3, <1>5 DEF Typed, FramesTyped

\* The top frame moves to another stage.
LEMMA SetTopFrames ==
  ASSUME Typed, Handling, NEW stage \in {"fresh", "saved", "leaving"},
         NEW saved \in {<<>>} \cup Saveds, stage = "saved" => saved \in Saveds,
         SetTop(stage, saved)
  PROVE  /\ FramesTyped'
         /\ Len(frames') = Len(frames) /\ Len(frames) \in 1 .. Len(frames)
         /\ frames'[Len(frames)] =
              [Top EXCEPT !.stage = stage, !.saved = saved]
         /\ \A k \in 1 .. Len(frames) : k # Len(frames) => frames'[k] = frames[k]
<1>. DEFINE n == Len(frames)
            f == [Top EXCEPT !.stage = stage, !.saved = saved]
<1>1. frames \in Seq(Frames) /\ n \in 1 .. n
  BY EmptySeq, LenProperties DEF Typed, FramesTyped, Handling
<1>2. Top \in Frames
  BY <1>1, ElementOfSeq DEF Top
<1>3. f \in Frames /\ f.stage = stage /\ f.saved = saved
  BY <1>2 DEF Frames
<1>4. frames' = [frames EXCEPT ![n] = f]
  BY <1>1, LenProperties DEF SetTop, Top
<1>. HIDE DEF f, n
<1>5. /\ frames' \in Seq(Frames)
      /\ Len(frames') = n
      /\ \A k \in 1 .. n : frames'[k] = IF k = n THEN f ELSE frames[k]
  BY <1>1, <1>3, <1>4, ExceptSeq DEF n
<1>. QED
  BY <1>1, <1>3, <1>5 DEF Typed, FramesTyped, n, f

\* What a handler does with the status it was given.
LEMMA StageFrames ==
  ASSUME Typed, Save \/ Restore
  PROVE  /\ FramesTyped' /\ Len(frames') = Len(frames)
         /\ Len(frames) \in 1 .. Len(frames)
         /\ \A k \in 1 .. Len(frames) : k # Len(frames) => frames'[k] = frames[k]
         /\ Save => frames'[Len(frames)] =
              [Top EXCEPT !.stage = "saved", !.saved = <<mstatus, vsstatus, spv>>]
         /\ Restore => frames'[Len(frames)] =
              [Top EXCEPT !.stage = "leaving", !.saved = <<>>]
<1>1. <<mstatus, vsstatus, spv>> \in Saveds
  BY DEF Typed, HartTypeOK, Saveds, Mstatuses, Vsstatuses
<1>2. Save => Handling /\ SetTop("saved", <<mstatus, vsstatus, spv>>)
  BY DEF Save
<1>3. Restore => Handling /\ SetTop("leaving", <<>>)
  BY DEF Restore
<1>. QED
  BY <1>1, <1>2, <1>3, SetTopFrames

\* One frame less.
LEMMA ReturnFrames ==
  ASSUME Typed, Return
  PROVE  /\ FramesTyped'
         /\ Len(frames) \in 1 .. Len(frames)
         /\ Len(frames') = Len(frames) - 1
         /\ \A k \in 1 .. Len(frames') : frames'[k] = frames[k]
<1>1. frames \in Seq(Frames) /\ Len(frames) \in 1 .. Len(frames)
  BY EmptySeq, LenProperties DEF Typed, FramesTyped, Handling, Return
<1>2. frames' = SubSeq(frames, 1, Len(frames) - 1)
  BY DEF Return
<1>3. \A k \in 1 .. Len(frames) - 1 : frames[k] \in Frames
  BY <1>1, ElementOfSeq
<1>4. /\ frames' \in Seq(Frames)
      /\ Len(frames') = Len(frames) - 1
      /\ \A k \in 1 .. Len(frames) - 1 : frames'[k] = frames[k]
  <2>. DEFINE n == Len(frames) - 1
  <2>1. n \in Nat /\ 1 \in Int
    BY <1>1
  <2>. HIDE DEF n
  <2>2. /\ SubSeq(frames, 1, n) \in Seq(Frames)
        /\ Len(SubSeq(frames, 1, n)) = IF 1 <= n THEN n - 1 + 1 ELSE 0
        /\ \A i \in 1 .. n - 1 + 1 : SubSeq(frames, 1, n)[i] = frames[1 + i - 1]
    BY <1>3, <2>1, SubSeqProperties DEF n
  <2>3. \A i \in 1 .. n : i \in 1 .. n - 1 + 1 /\ 1 + i - 1 = i
    BY <2>1
  <2>. QED
    BY <1>2, <2>1, <2>2, <2>3 DEF n
<1>. QED
  BY <1>1, <1>4 DEF Typed, FramesTyped

\* An interrupt is selected if one is enabled.
LEMMA SelectedIsEnabled ==
  ASSUME HartTypeOK, enabled_interrupts # {}
  PROVE  Selected \in enabled_interrupts /\ Selected \in Ints
<1>1. enabled_interrupts \subseteq Ints
  BY DEF enabled_interrupts, ForM, ForHs, ForVs, pending, HartTypeOK
<1>. DEFINE IsBest(k) == /\ Priority[k] \in enabled_interrupts
                        /\ \A n \in 1 .. k - 1 :
                             Priority[n] \notin enabled_interrupts
<1>2. DOMAIN Priority = {1, 2, 3, 4}
  BY DEF Priority
<1>3. \E k \in DOMAIN Priority : IsBest(k)
  <2>1. PICK k \in {1, 2, 3, 4} : Priority[k] \in enabled_interrupts
    BY <1>1, <1>2 DEF Ints
  <2>. HIDE DEF IsBest
  <2>2. CASE Priority[1] \in enabled_interrupts
    <3>1. IsBest(1)
      BY <2>2 DEF IsBest
    <3>. QED
      BY <1>2, <3>1
  <2>3. CASE Priority[1] \notin enabled_interrupts
             /\ Priority[2] \in enabled_interrupts
    <3>1. IsBest(2)
      BY <2>3 DEF IsBest
    <3>. QED
      BY <1>2, <3>1
  <2>4. CASE Priority[1] \notin enabled_interrupts
             /\ Priority[2] \notin enabled_interrupts
             /\ Priority[3] \in enabled_interrupts
    <3>0. \A n \in 1 .. 2 : n = 1 \/ n = 2
      OBVIOUS
    <3>1. IsBest(3)
      BY <2>4, <3>0 DEF IsBest
    <3>. QED
      BY <1>2, <3>1
  <2>5. CASE Priority[1] \notin enabled_interrupts
             /\ Priority[2] \notin enabled_interrupts
             /\ Priority[3] \notin enabled_interrupts
    <3>0. \A n \in 1 .. 3 : n = 1 \/ n = 2 \/ n = 3
      OBVIOUS
    <3>1. IsBest(4)
      BY <2>1, <2>5, <3>0 DEF IsBest
    <3>. QED
      BY <1>2, <3>1
  <2>. QED
    BY <2>2, <2>3, <2>4, <2>5
<1>4. IsBest(CHOOSE k \in DOMAIN Priority : IsBest(k))
  BY <1>3, Zenon
<1>. QED
  BY <1>1, <1>4, Zenon DEF Selected

\* The kinds of steps: a trap, a step of the top handler, a return, and what
\* changes no frame.
LEMMA HartKinds ==
  ASSUME Typed, [Next]_allVars
  PROVE  \/ \E cause \in Ints \cup Exceptions : take_trap(cause)
         \/ Save \/ Restore \/ Return
         \/ /\ UNCHANGED <<prv, v, spv, frames, boot>>
            /\ UNCHANGED <<mstatus, vsstatus>> \/ \E ie \in BOOLEAN : WriteIe(ie)
<1>. USE DEF hartRest, statusVars
<1>1. CASE HartStep
  <2>1. CASE TakeInterrupt
    BY <2>1, SelectedIsEnabled DEF TakeInterrupt, Typed
  <2>2. CASE WakeUp \/ Wfi
    BY <2>2 DEF WakeUp, Wfi
  <2>3. CASE Acknowledge
    BY <2>3 DEF Acknowledge, SetSoftware
  <2>4. CASE \E cause \in Exceptions : Exception(cause)
    BY <2>4 DEF Exception
  <2>5. CASE \E ie \in BOOLEAN : WriteIe(ie)
    BY <2>5 DEF WriteIe
  <2>. QED
    BY <1>1, <2>1, <2>2, <2>3, <2>4, <2>5 DEF HartStep
<1>2. CASE AcknowledgeMsi \/ AcknowledgeMti \/ Others
  BY <1>2, OutsideTheHart
<1>3. CASE UNCHANGED allVars
  BY <1>3 DEF allVars, hartVars
<1>. QED
  BY <1>1, <1>2, <1>3 DEF Next

LEMMA ReturnTyped ==
  ASSUME Typed, Return
  PROVE  HartTypeOK'
<1>1. CASE mret
  BY <1>1 DEF Return, mret, set_privilege, Typed, HartTypeOK, Modes
<1>2. CASE sret
  <2>1. prv' \in {"U", "S"} /\ v' \in BOOLEAN
    BY <1>2 DEF sret, set_privilege, SretVirt, Typed, HartTypeOK
  <2>2. vsstatus' \in Vsstatuses
    <3>1. vsstatus \in Vsstatuses /\ vsstatus.SPIE \in BOOLEAN
      BY DEF Typed, HartTypeOK, Vsstatuses
    <3>2. CASE v
      <4>1. vsstatus' = [SIE |-> vsstatus.SPIE, SPIE |-> TRUE, SPP |-> "U"]
        BY <1>2, <3>2 DEF sret
      <4>. QED
        BY <3>1, <4>1 DEF Vsstatuses
    <3>3. CASE ~v
      BY <1>2, <3>1, <3>3 DEF sret
    <3>. QED
      BY <3>2, <3>3
  <2>3. mstatus' \in Mstatuses
    BY <1>2 DEF sret, Typed, HartTypeOK, Mstatuses, Modes
  <2>4. spv' \in BOOLEAN
    BY <1>2 DEF sret, Typed, HartTypeOK
  <2>. QED
    BY <2>1, <2>2, <2>3, <2>4 DEF Return, Typed, HartTypeOK, Modes, Mstatuses,
       Vsstatuses
<1>. QED
  BY <1>1, <1>2 DEF Return

LEMMA RestoreTyped ==
  ASSUME Typed, Restore
  PROVE  HartTypeOK'
<1>1. frames \in Seq(Frames) /\ Len(frames) \in 1 .. Len(frames)
  BY EmptySeq, LenProperties DEF Typed, FramesTyped, Handling, Restore
<1>2. Top.saved \in Saveds
  BY <1>1 DEF Typed, FramesTyped, Restore, Top
<1>3. /\ Top.saved[1] \in Mstatuses /\ Top.saved[2] \in Vsstatuses
      /\ Top.saved[3] \in BOOLEAN
  BY <1>2 DEF Saveds
<1>4. mstatus' \in Mstatuses
  BY <1>3 DEF Restore, Typed, HartTypeOK, Mstatuses
<1>5. vsstatus' \in Vsstatuses
  BY <1>3 DEF Restore, Typed, HartTypeOK, Vsstatuses
<1>6. spv' \in BOOLEAN
  BY <1>3 DEF Restore, Typed, HartTypeOK
<1>7. UNCHANGED <<prv, v, mip, boot, in_wfi>>
  BY DEF Restore
<1>. QED
  BY <1>4, <1>5, <1>6, <1>7 DEF Typed, HartTypeOK, Mstatuses, Vsstatuses

LEMMA HartStepTyped ==
  ASSUME Typed, HartStep
  PROVE  HartTypeOK'
<1>. USE DEF Typed, statusVars
<1>1. CASE TakeInterrupt
  BY <1>1, SelectedIsEnabled, TrapTyped DEF TakeInterrupt
<1>2. CASE WakeUp \/ Wfi
  <2>1. UNCHANGED <<prv, v, statusVars, mip, boot>> /\ in_wfi' \in BOOLEAN
    BY <1>2, Zenon DEF WakeUp, Wfi
  <2>. QED
    BY <2>1 DEF HartTypeOK
<1>3. CASE Save
  BY <1>3 DEF Save, HartTypeOK
<1>4. CASE Restore
  BY <1>4, RestoreTyped
<1>5. CASE Return
  BY <1>5, ReturnTyped
<1>6. CASE Acknowledge
  BY <1>6 DEF Acknowledge, SetSoftware, HartTypeOK
<1>7. ASSUME NEW cause \in Exceptions, Exception(cause)
      PROVE  HartTypeOK'
  BY <1>7, TrapTyped DEF Exception, HartTypeOK
<1>8. ASSUME NEW ie \in BOOLEAN, WriteIe(ie)
      PROVE  HartTypeOK'
  BY <1>8 DEF WriteIe, HartTypeOK
<1>. QED
  BY <1>1, <1>2, <1>3, <1>4, <1>5, <1>6, <1>7, <1>8 DEF HartStep

\* mip keeps its type in steps outside the hart.
LEMMA OutsideTyped ==
  ASSUME Typed, AcknowledgeMsi \/ AcknowledgeMti \/ Others
  PROVE  HartTypeOK'
<1>1. "MSI" \in Ints /\ "MTI" \in Ints /\ "SSI" \in Ints /\ "VSSI" \in Ints
  <2>1. /\ Priority[1] = "MSI" /\ Priority[2] = "MTI"
        /\ Priority[3] = "SSI" /\ Priority[4] = "VSSI"
        /\ DOMAIN Priority = {1, 2, 3, 4}
    BY DEF Priority
  <2>. QED
    BY <2>1 DEF Ints
<1>2. mip' \subseteq Ints
  BY <1>1 DEF AcknowledgeMsi, AcknowledgeMti, Others, StoreMsip, StoreMtimecmp,
     StoreMtime, tick, SetSoftware, Mtip, Typed, HartTypeOK
<1>. QED
  BY <1>2, OutsideTheHart DEF hartRest, statusVars, Typed, HartTypeOK

LEMMA StepTyped ==
  ASSUME Typed, [Next]_allVars
  PROVE  Typed'
<1>1. HartTypeOK'
  <2>1. CASE HartStep
    BY <2>1, HartStepTyped
  <2>2. CASE AcknowledgeMsi \/ AcknowledgeMti \/ Others
    BY <2>2, OutsideTyped
  <2>3. CASE UNCHANGED allVars
    BY <2>3 DEF allVars, hartVars, statusVars, Typed, HartTypeOK
  <2>. QED
    BY <2>1, <2>2, <2>3 DEF Next
<1>2. FramesTyped'
  <2>1. CASE \E cause \in Ints \cup Exceptions : take_trap(cause)
    BY <2>1, TrapFrames
  <2>2. CASE Save \/ Restore
    BY <2>2, StageFrames
  <2>3. CASE Return
    BY <2>3, ReturnFrames
  <2>4. CASE UNCHANGED frames
    BY <2>4 DEF Typed, FramesTyped
  <2>. QED
    BY <2>1, <2>2, <2>3, <2>4, HartKinds
<1>. QED
  BY <1>1, <1>2 DEF Typed

LEMMA InitTyped == Init => Typed
<1>. SUFFICES ASSUME Init PROVE Typed
  OBVIOUS
<1>1. "MTI" \in Ints
  <2>1. Priority[2] = "MTI" /\ 2 \in DOMAIN Priority
    BY DEF Priority
  <2>. QED
    BY <2>1 DEF Ints
<1>2. frames \in Seq(Frames) /\ Len(frames) = 0
  BY EmptySeq DEF Init, HartInit
<1>3. FramesTyped
  BY <1>2 DEF FramesTyped
<1>4. mip \subseteq Ints /\ boot \in Boots /\ in_wfi \in BOOLEAN /\ spv \in BOOLEAN
  BY <1>1 DEF Init, HartInit
<1>5. mstatus \in Mstatuses
  BY DEF Init, HartInit, Mstatuses, Modes
<1>6. vsstatus \in Vsstatuses
  BY DEF Init, HartInit, Vsstatuses
<1>7. prv \in Modes /\ v \in BOOLEAN /\ prv # "M"
  BY DEF Init, HartInit, Modes
<1>. QED
  BY <1>3, <1>4, <1>5, <1>6, <1>7 DEF Typed, HartTypeOK, Mstatuses, Vsstatuses

\* The registers of the hart keep their types; a hart in M-mode is never in
\* virtual mode.
THEOREM Typing == Spec => []HartTypeOK
<1>1. Typed => HartTypeOK
  BY DEF Typed
<1>. QED
  BY <1>1, InitTyped, StepTyped, PTL DEF Spec

LEMMA TypedAlways == Spec => []Typed
BY InitTyped, StepTyped, PTL DEF Spec

----------------------------------------------------------------------------
(***************************************************************************)
(* Where traps go.                                                         *)
(***************************************************************************)

\* A trap puts the hart into the mode of its target, which is not below the
\* one that is interrupted.
LEMMA TrapGoesToTarget ==
  ASSUME HartTypeOK, NEW cause, take_trap(cause)
  PROVE  /\ Level' = Target(cause)
         /\ CurrentRank' = Rank(Target(cause))
         /\ CurrentRank <= Rank(Target(cause))
<1>1. CASE Target(cause) = "VS" /\ TrapToVs
  <2>1. prv # "M" /\ v /\ prv' = "S" /\ v'
    BY <1>1, Zenon DEF Target, Vsdeleg, TrapToVs, set_privilege
  <2>. QED
    BY <1>1, <2>1 DEF Level, CurrentRank, Rank
<1>2. CASE Target(cause) = "HS" /\ TrapToHs
  <2>1. prv # "M" /\ prv' = "S" /\ ~v'
    BY <1>2, Zenon DEF Target, Hsdeleg, TrapToHs, set_privilege
  <2>. QED
    BY <1>2, <2>1 DEF Level, CurrentRank, Rank
<1>3. CASE Target(cause) = "M" /\ TrapToM
  <2>1. prv' = "M"
    BY <1>3 DEF TrapToM, set_privilege
  <2>. QED
    BY <1>3, <2>1 DEF Level, CurrentRank, Rank
<1>. QED
  BY <1>1, <1>2, <1>3 DEF take_trap

\* Only a trap opens a frame.
LEMMA OnlyTrapsOpen ==
  ASSUME Typed, [Next]_allVars, Trapped
  PROVE  \E cause \in Ints \cup Exceptions : take_trap(cause)
<1>1. Len(frames) \in Nat
  BY LenProperties DEF Typed, FramesTyped
<1>2. ASSUME Save \/ Restore
      PROVE  ~Trapped
  BY <1>1, <1>2, StageFrames DEF Trapped
<1>3. ASSUME Return
      PROVE  ~Trapped
  BY <1>1, <1>3, ReturnFrames DEF Trapped
<1>4. ASSUME UNCHANGED frames
      PROVE  ~Trapped
  BY <1>1, <1>4 DEF Trapped
<1>. QED
  BY <1>2, <1>3, <1>4, HartKinds

\* A trap goes to a mode at least as privileged as the one it interrupts,
\* and never from the hypervisor to its guest, for every delegation.
THEOREM TrapsNeverGoDown == Spec => TrapsGoUp
<1>1. ASSUME Typed, [Next]_allVars
      PROVE  [Trapped => CurrentRank' >= CurrentRank]_hartVars
  <2>1. CurrentRank \in Nat /\ \A cause : Rank(Target(cause)) \in Nat
    BY DEF CurrentRank, Rank
  <2>. QED
    BY <1>1, <2>1, OnlyTrapsOpen, TrapGoesToTarget DEF Typed
<1>. QED
  BY <1>1, TypedAlways, PTL DEF Spec, TrapsGoUp

----------------------------------------------------------------------------
\* Interrupts that may be taken, as the architecture has it, are enabled in
\* the code if they belong to the highest mode that has one; and conversely.
LEMMA EnabledAreHighest ==
  ASSUME HartTypeOK, NEW j \in Ints, Takeable(j)
  PROVE  /\ enabled_interrupts # {}
         /\ \A i \in enabled_interrupts : Rank(Home(j)) <= Rank(Home(i))
<1>. USE DEF enabled_interrupts
<1>0. j \in pending
  BY DEF Takeable, pending
<1>1. CASE Home(j) = "M"
  <2>1. j \notin mideleg /\ Rank(Home(j)) = 3
    BY <1>1 DEF Home, Rank
  <2>2. MEnabled
    BY <1>1 DEF Takeable, Rank, CurrentRank, EnableOf, MEnabled
  <2>3. j \in ForM
    BY <1>0, <2>1, <2>2 DEF ForM
  <2>4. \A i \in ForM : Home(i) = "M"
    BY DEF ForM, Home
  <2>. QED
    BY <2>3, <2>4, <1>1 DEF Rank
<1>2. CASE Home(j) = "HS"
  <2>1. j \in mideleg \ hideleg
    BY <1>2 DEF Home
  <2>2. HsEnabled
    BY <1>2 DEF Takeable, Rank, CurrentRank, EnableOf, HsEnabled, sie, HartTypeOK,
       Modes
  <2>3. j \in ForHs
    BY <1>0, <2>1, <2>2 DEF ForHs
  <2>4. \A i \in ForM : Home(i) = "M"
    BY DEF ForM, Home
  <2>5. \A i \in ForHs : Home(i) = "HS"
    BY DEF ForHs, Home
  <2>. QED
    BY <2>3, <2>4, <2>5, <1>2 DEF Rank
<1>3. CASE Home(j) = "VS"
  <2>1. j \in hideleg
    BY <1>3 DEF Home
  <2>2. v
    BY <1>3 DEF Takeable
  <2>3. VsEnabled
    BY <1>3, <2>2 DEF Takeable, Rank, CurrentRank, EnableOf, VsEnabled, sie,
       HartTypeOK, Modes
  <2>4. j \in ForVs
    BY <1>0, <2>1, <2>3 DEF ForVs
  <2>5. \A i : Home(i) \in Levels
    BY DEF Home, Levels
  <2>6. \A i : 1 <= Rank(Home(i))
    BY <2>5 DEF Levels, Rank
  <2>7. Rank(Home(j)) = 1
    BY <1>3 DEF Rank
  <2>8. enabled_interrupts # {}
    BY <2>4
  <2>. HIDE DEF enabled_interrupts
  <2>. QED
    BY <2>6, <2>7, <2>8
<1>. QED
  BY <1>1, <1>2, <1>3 DEF Home

\* What the code enables may be taken, and goes where it belongs.
LEMMA EnabledAreTakeable ==
  ASSUME HartTypeOK, NEW i \in enabled_interrupts, i \in Ints
  PROVE  Takeable(i) /\ Target(i) = Home(i)
<1>0. i \in mip \cap boot.mie
  BY DEF enabled_interrupts, ForM, ForHs, ForVs, pending
<1>1. CASE i \in ForM
  <2>1. i \notin mideleg /\ i \notin hideleg /\ MEnabled
    BY <1>1 DEF ForM, hideleg
  <2>2. Home(i) = "M" /\ Target(i) = "M"
    BY <2>1 DEF Home, Target, Vsdeleg, Hsdeleg, Delegated
  <2>. QED
    BY <1>0, <2>1, <2>2 DEF Takeable, Rank, CurrentRank, EnableOf, MEnabled
<1>2. CASE ForM = {} /\ i \in ForHs
  <2>1. i \in mideleg /\ i \notin hideleg /\ HsEnabled
    BY <1>2 DEF ForHs
  <2>2. prv # "M"
    BY <2>1 DEF HsEnabled, HartTypeOK
  <2>3. Home(i) = "HS" /\ Target(i) = "HS"
    BY <2>1, <2>2 DEF Home, Target, Vsdeleg, Hsdeleg, Delegated
  <2>4. Rank("HS") > CurrentRank \/ (Rank("HS") = CurrentRank /\ mstatus.SIE)
    BY <2>1, <2>2 DEF HsEnabled, sie, Rank, CurrentRank, HartTypeOK, Modes
  <2>. QED
    BY <1>0, <2>3, <2>4 DEF Takeable, EnableOf
<1>3. CASE i \in ForVs
  <2>1. i \in hideleg /\ i \in mideleg /\ VsEnabled
    BY <1>3 DEF ForVs, hideleg
  <2>2. v /\ prv # "M"
    BY <2>1 DEF VsEnabled, HartTypeOK
  <2>3. Home(i) = "VS" /\ Target(i) = "VS"
    BY <2>1, <2>2 DEF Home, Target, Vsdeleg
  <2>4. Rank("VS") > CurrentRank \/ (Rank("VS") = CurrentRank /\ vsstatus.SIE)
    BY <2>1, <2>2 DEF VsEnabled, sie, Rank, CurrentRank, HartTypeOK, Modes
  <2>. QED
    BY <1>0, <2>2, <2>3, <2>4 DEF Takeable, EnableOf
<1>. QED
  BY <1>1, <1>2, <1>3 DEF enabled_interrupts

\* An interrupt that is taken may be taken and arrives in its mode, none of a
\* higher mode is passed over, and no instruction traps before one that may
\* be taken: for every set of delegation registers.
THEOREM DelegationObeyed == Spec => InterruptsObeyDelegation
<1>1. ASSUME Typed, [Next]_allVars
      PROVE  [/\ Trapped /\ (Top.cause)' \in Ints =>
                   LET i == (Top.cause)' IN
                   /\ Takeable(i) /\ Level' = Home(i)
                   /\ \A j \in Ints : Takeable(j) =>
                        Rank(Home(j)) <= Rank(Home(i))
              /\ Trapped /\ (Top.cause)' \in Exceptions =>
                   \A j \in Ints : ~Takeable(j)]_hartVars
  <2>. SUFFICES ASSUME Trapped
                PROVE  /\ (Top.cause)' \in Ints =>
                            /\ Takeable((Top.cause)') /\ Level' = Home((Top.cause)')
                            /\ \A j \in Ints : Takeable(j) =>
                                 Rank(Home(j)) <= Rank(Home((Top.cause)'))
                       /\ (Top.cause)' \in Exceptions =>
                            \A j \in Ints : ~Takeable(j)
    OBVIOUS
  <2>1. ASSUME NEW cause \in Ints \cup Exceptions, take_trap(cause)
        PROVE  (Top.cause)' = cause
    <3>1. frames'[Len(frames')] = Frame(cause)
      BY <1>1, <2>1, TrapFrames
    <3>2. Frame(cause).cause = cause
      BY DEF Frame
    <3>. QED
      BY <3>1, <3>2 DEF Top
  <2>2. CASE TakeInterrupt
    <3>1. /\ Selected \in enabled_interrupts /\ Selected \in Ints
          /\ take_trap(Selected)
      BY <1>1, <2>2, SelectedIsEnabled DEF TakeInterrupt, Typed
    <3>2. (Top.cause)' = Selected /\ Selected \notin Exceptions
      BY <2>1, <3>1, HartAssumption
    <3>3. Takeable(Selected) /\ Level' = Home(Selected)
      BY <1>1, <3>1, EnabledAreTakeable, TrapGoesToTarget DEF Typed
    <3>4. \A j \in Ints : Takeable(j) => Rank(Home(j)) <= Rank(Home(Selected))
      BY <1>1, <3>1, EnabledAreHighest DEF Typed
    <3>. QED
      BY <3>2, <3>3, <3>4
  <2>3. ASSUME NEW cause \in Exceptions, Exception(cause)
        PROVE  (Top.cause)' \notin Ints /\ \A j \in Ints : ~Takeable(j)
    <3>1. (Top.cause)' = cause
      BY <2>1, <2>3 DEF Exception
    <3>. QED
      BY <1>1, <2>3, <3>1, HartAssumption, EnabledAreHighest
      DEF Exception, Executes, Typed
  <2>4. TakeInterrupt \/ \E cause \in Exceptions : Exception(cause)
    <3>1. Len(frames) \in Nat
      BY <1>1, LenProperties DEF Typed, FramesTyped
    <3>2. ~UNCHANGED frames
      BY <3>1 DEF Trapped
    <3>3. ~(AcknowledgeMsi \/ AcknowledgeMti \/ Others)
      BY <3>2, OutsideTheHart DEF hartRest
    <3>4. HartStep
      BY <1>1, <3>2, <3>3 DEF Next, allVars, hartVars
    <3>5. ~Save /\ ~Restore
      BY <1>1, <3>1, StageFrames DEF Trapped
    <3>6. ~Return
      BY <1>1, <3>1, ReturnFrames DEF Trapped
    <3>7. ~WakeUp /\ ~Wfi /\ ~Acknowledge /\ \A ie \in BOOLEAN : ~WriteIe(ie)
      BY <3>2 DEF WakeUp, Wfi, Acknowledge, SetSoftware, WriteIe
    <3>. QED
      BY <3>4, <3>5, <3>6, <3>7 DEF HartStep
  <2>. QED
    BY <2>2, <2>3, <2>4
<1>. QED
  BY <1>1, TypedAlways, PTL DEF Spec, InterruptsObeyDelegation

----------------------------------------------------------------------------
(***************************************************************************)
(* Returns. The status registers are a stack of one level for each mode;   *)
(* the invariant says where the state that each open frame interrupted is  *)
(* kept: in the registers of its mode, or in memory once it is saved.      *)
(***************************************************************************)

\* The registers m, vs, sp hold what the frame interrupted, and the mode of
\* the frame takes no interrupts.
Keeps(f, m, vs, sp) ==
  /\ f.level = "M" => /\ m.MIE = FALSE /\ m.MPIE = f.ie[1]
                      /\ m.MPP = f.prv /\ m.MPV = f.v
  /\ f.level = "HS" => /\ m.SIE = FALSE /\ m.SPIE = f.ie[2]
                       /\ m.SPP = f.prv /\ sp = f.v
  /\ f.level = "VS" => /\ vs.SIE = FALSE /\ vs.SPIE = f.ie[3]
                       /\ vs.SPP = f.prv /\ f.v = TRUE

\* What runs in the mode of the frame leaves the enables of the others.
EnablesKept(f, ie) ==
  /\ f.level # "M" => ie[1] = f.ie[1]
  /\ f.level # "HS" => ie[2] = f.ie[2]
  /\ f.level # "VS" => ie[3] = f.ie[3]

Enables == <<mstatus.MIE, mstatus.SIE, vsstatus.SIE>>
LevelOf(p, virt) == IF p = "M" THEN "M"
                    ELSE IF p = "S" /\ virt = TRUE THEN "VS"
                    ELSE IF p = "S" THEN "HS" ELSE "U"

Kept(k) ==
  LET f == frames[k] IN
  /\ f.stage # "saved" => Keeps(f, mstatus, vsstatus, spv)
  /\ f.stage = "saved" => Keeps(f, f.saved[1], f.saved[2], f.saved[3])
  /\ f.prv = "M" => f.v = FALSE
\* The frame above interrupted the handler of this one.
Linked(k) == /\ LevelOf(frames[k + 1].prv, frames[k + 1].v) = frames[k].level
             /\ EnablesKept(frames[k], frames[k + 1].ie)
\* Frames go up; a mode is interrupted by itself only if it has saved.
Ordered(k, j) ==
  /\ Rank(frames[k].level) <= Rank(frames[j].level)
  /\ frames[k].stage # "saved" => frames[j].level # frames[k].level

Nested ==
  /\ \A k \in 1 .. Len(frames) : Kept(k)
  /\ \A k \in 1 .. Len(frames) : k + 1 \in 1 .. Len(frames) => Linked(k)
  /\ \A j \in 1 .. Len(frames) : \A k \in 1 .. j - 1 : Ordered(k, j)
  /\ Handling => /\ LevelOf(prv, v) = Top.level
                 /\ EnablesKept(Top, Enables)

LEMMA LevelIsLevelOf ==
  ASSUME HartTypeOK
  PROVE  Level = LevelOf(prv, v)
BY DEF Level, LevelOf, HartTypeOK

LEMMA RankOfLevel ==
  ASSUME HartTypeOK, Level \in Levels
  PROVE  CurrentRank = Rank(Level) /\ Rank(Level) \in 1 .. 3
BY DEF Level, CurrentRank, Rank, Levels, HartTypeOK, Modes

\* A handler that has not saved is not interrupted by its own mode.
LEMMA TrapAllowed ==
  ASSUME Typed, Nested, Handling, Top.stage # "saved",
         NEW cause \in Ints \cup Exceptions,
         \/ TakeInterrupt /\ cause = Selected
         \/ Exception(cause)
  PROVE  Target(cause) # Level
<1>1. CASE Exception(cause)
  BY <1>1 DEF Exception
<1>2. CASE TakeInterrupt /\ cause = Selected
  <2>1. Takeable(cause) /\ Target(cause) = Home(cause)
    BY <1>2, SelectedIsEnabled, EnabledAreTakeable DEF TakeInterrupt, Typed
  <2>2. Len(frames) \in 1 .. Len(frames) /\ Top \in Frames
    BY EmptySeq, LenProperties, ElementOfSeq DEF Typed, FramesTyped, Handling, Top
  <2>3. Level = Top.level /\ Level \in Levels
    BY <2>2, LevelIsLevelOf DEF Typed, Nested, Frames
  <2>4. Keeps(Top, mstatus, vsstatus, spv)
    BY <2>2 DEF Nested, Kept, Top
  <2>5. EnableOf(Level) = FALSE
    BY <2>3, <2>4 DEF Keeps, EnableOf, Levels
  <2>6. CurrentRank = Rank(Level) /\ Rank(Level) \in 1 .. 3
    BY <2>3, RankOfLevel DEF Typed
  <2>7. ASSUME Home(cause) = Level
        PROVE  FALSE
    <3>1. Rank(Home(cause)) = CurrentRank
      BY <2>6, <2>7
    <3>2. ~(Rank(Home(cause)) > CurrentRank)
      BY <2>6, <3>1
    <3>3. EnableOf(Home(cause))
      BY <2>1, <3>2, Zenon DEF Takeable
    <3>. QED
      BY <2>5, <2>7, <3>3
  <2>. QED
    BY <2>1, <2>7
<1>. QED
  BY <1>1, <1>2

\* A trap to another mode leaves what a frame has in its registers.
LEMMA TrapKeepsOthers ==
  ASSUME HartTypeOK, NEW cause, take_trap(cause), NEW f,
         Keeps(f, mstatus, vsstatus, spv), f.level \in Levels,
         f.level # Target(cause)
  PROVE  Keeps(f, mstatus', vsstatus', spv')
<1>. USE DEF HartTypeOK, Keeps, Levels
<1>1. CASE Target(cause) = "VS" /\ TrapToVs
  BY <1>1 DEF TrapToVs
<1>2. CASE Target(cause) = "HS" /\ TrapToHs
  BY <1>2 DEF TrapToHs
<1>3. CASE Target(cause) = "M" /\ TrapToM
  BY <1>3 DEF TrapToM
<1>. QED
  BY <1>1, <1>2, <1>3 DEF take_trap

\* The frame of the trap has what it interrupted in the registers.
LEMMA TrapKeepsNew ==
  ASSUME HartTypeOK, NEW cause, take_trap(cause)
  PROVE  LET f == Frame(cause)
         IN /\ Keeps(f, mstatus', vsstatus', spv')
            /\ f.prv = "M" => f.v = FALSE
            /\ LevelOf(prv', v') = f.level
            /\ EnablesKept(f, Enables')
            /\ f.prv = prv /\ f.v = v /\ f.ie = Enables
            /\ f.level = Target(cause) /\ f.stage = "fresh"
<1>. DEFINE f == Frame(cause)
<1>1. /\ f.prv = prv /\ f.v = v /\ f.ie = Enables
      /\ f.level = Target(cause) /\ f.stage = "fresh"
  BY DEF Frame, Enables
<1>2. f.ie[1] = mstatus.MIE /\ f.ie[2] = mstatus.SIE /\ f.ie[3] = vsstatus.SIE
  BY <1>1 DEF Enables
<1>3. f.prv = "M" => f.v = FALSE
  BY <1>1 DEF HartTypeOK
<1>. HIDE DEF f
<1>. USE DEF HartTypeOK
<1>4. /\ Keeps(f, mstatus', vsstatus', spv')
      /\ LevelOf(prv', v') = f.level
      /\ EnablesKept(f, Enables')
  <2>1. CASE Target(cause) = "VS" /\ TrapToVs
    <3>1. v = TRUE /\ prv # "M"
      BY <2>1 DEF Target, Vsdeleg
    <3>2. /\ vsstatus' = [SPIE |-> vsstatus.SIE, SPP |-> prv, SIE |-> FALSE]
          /\ prv' = "S" /\ v' = TRUE /\ UNCHANGED <<mstatus, spv>>
      BY <2>1 DEF TrapToVs, set_privilege
    <3>3. Keeps(f, mstatus', vsstatus', spv')
      BY <1>1, <1>2, <2>1, <3>1, <3>2 DEF Keeps
    <3>4. EnablesKept(f, Enables')
      BY <1>1, <1>2, <2>1, <3>2 DEF EnablesKept, Enables
    <3>. QED
      BY <1>1, <2>1, <3>2, <3>3, <3>4 DEF LevelOf
  <2>2. CASE Target(cause) = "HS" /\ TrapToHs
    <3>1. /\ mstatus' = [mstatus EXCEPT !.SPIE = mstatus.SIE,
                                        !.SPP = prv, !.SIE = FALSE]
          /\ spv' = v /\ prv' = "S" /\ v' = FALSE /\ UNCHANGED vsstatus
      BY <2>2 DEF TrapToHs, SpvOnTrap, set_privilege
    <3>2. Keeps(f, mstatus', vsstatus', spv')
      BY <1>1, <1>2, <2>2, <3>1 DEF Keeps
    <3>3. EnablesKept(f, Enables')
      BY <1>1, <1>2, <2>2, <3>1 DEF EnablesKept, Enables
    <3>. QED
      BY <1>1, <2>2, <3>1, <3>2, <3>3 DEF LevelOf
  <2>3. CASE Target(cause) = "M" /\ TrapToM
    <3>1. /\ mstatus' = [mstatus EXCEPT !.MPIE = mstatus.MIE, !.MPP = prv,
                                        !.MIE = FALSE, !.MPV = v]
          /\ prv' = "M" /\ UNCHANGED <<vsstatus, spv>>
      BY <2>3 DEF TrapToM, set_privilege
    <3>2. Keeps(f, mstatus', vsstatus', spv')
      BY <1>1, <1>2, <2>3, <3>1 DEF Keeps
    <3>3. EnablesKept(f, Enables')
      BY <1>1, <1>2, <2>3, <3>1 DEF EnablesKept, Enables
    <3>. QED
      BY <1>1, <2>3, <3>1, <3>2, <3>3 DEF LevelOf
  <2>. QED
    BY <2>1, <2>2, <2>3 DEF take_trap
<1>. QED
  BY <1>1, <1>3, <1>4 DEF f

LEMMA FrameOfSeq ==
  ASSUME Typed, NEW k \in 1 .. Len(frames)
  PROVE  frames[k] \in Frames /\ frames[k].level \in Levels
<1>1. frames[k] \in Frames
  BY ElementOfSeq DEF Typed, FramesTyped
<1>. QED
  BY <1>1 DEF Frames

LEMMA TrapNests ==
  ASSUME Typed, Nested, NEW cause \in Ints \cup Exceptions,
         \/ TakeInterrupt /\ cause = Selected
         \/ Exception(cause)
  PROVE  Nested'
<1>. DEFINE n == Len(frames)
<1>1. take_trap(cause)
  BY DEF TakeInterrupt, Exception
<1>2. /\ n \in Nat /\ Len(frames') = n + 1
      /\ frames'[n + 1] = Frame(cause)
      /\ \A k \in 1 .. n : frames'[k] = frames[k]
  BY <1>1, TrapFrames, LenProperties DEF Typed, FramesTyped
<1>3. /\ Keeps(Frame(cause), mstatus', vsstatus', spv')
      /\ Frame(cause).prv = "M" => Frame(cause).v = FALSE
      /\ LevelOf(prv', v') = Frame(cause).level
      /\ EnablesKept(Frame(cause), Enables')
      /\ Frame(cause).prv = prv /\ Frame(cause).v = v
      /\ Frame(cause).ie = Enables
      /\ Frame(cause).level = Target(cause) /\ Frame(cause).stage = "fresh"
  BY <1>1, TrapKeepsNew DEF Typed
<1>4. CurrentRank <= Rank(Target(cause)) /\ Target(cause) \in Levels
  BY <1>1, TrapGoesToTarget DEF Typed, Target, Levels
<1>5. ASSUME NEW k \in 1 .. n
      PROVE  /\ Rank(frames[k].level) <= Rank(Target(cause))
             /\ frames[k].stage # "saved" => frames[k].level # Target(cause)
  <2>1. n \in 1 .. n /\ Handling /\ Top = frames[n]
    <3>1. Handling
      BY <1>2, <1>5, EmptySeq DEF Handling
    <3>. QED
      BY <1>2, <1>5, <3>1 DEF Top
  <2>2. Level = frames[n].level /\ frames[n].level \in Levels
    BY <2>1, LevelIsLevelOf, FrameOfSeq DEF Nested, Typed
  <2>3. CurrentRank = Rank(frames[n].level) /\ Rank(frames[n].level) \in 1 .. 3
    BY <2>2, RankOfLevel DEF Typed
  <2>4. frames[n].stage # "saved" => frames[n].level # Target(cause)
    BY <2>1, <2>2, TrapAllowed
  <2>5. CASE k = n
    BY <1>4, <2>3, <2>4, <2>5
  <2>6. CASE k # n
    <3>1. k \in 1 .. n - 1
      BY <1>2, <1>5, <2>6
    <3>2. Ordered(k, n)
      BY <2>1, <3>1 DEF Nested
    <3>3. frames[k].level \in Levels
      BY <1>5, FrameOfSeq
    <3>. HIDE DEF n
    <3>4. Rank(frames[k].level) \in 1 .. 3 /\ Rank(Target(cause)) \in 1 .. 3
      BY <1>4, <3>3 DEF Rank, Levels
    <3>5. Rank(frames[k].level) <= Rank(frames[n].level)
      BY <3>2 DEF Ordered
    <3>6. Rank(frames[k].level) <= Rank(Target(cause))
      BY <1>4, <2>3, <3>4, <3>5
    <3>7. frames[k].stage # "saved" =>
            Rank(frames[k].level) # Rank(frames[n].level)
      BY <2>2, <3>2, <3>3 DEF Ordered, Rank, Levels
    <3>8. frames[k].stage # "saved" =>
            Rank(frames[k].level) # Rank(Target(cause))
      BY <1>4, <2>3, <3>4, <3>5, <3>7
    <3>. QED
      BY <3>6, <3>8
  <2>. QED
    BY <2>5, <2>6
<1>6. ASSUME NEW k \in 1 .. n + 1
      PROVE  Kept(k)'
  <2>1. CASE k = n + 1
    BY <1>2, <1>3, <2>1 DEF Kept
  <2>2. CASE k # n + 1
    <3>1. k \in 1 .. n /\ frames'[k] = frames[k]
      BY <1>2, <1>6, <2>2
    <3>2. Kept(k) /\ frames[k].level \in Levels
      BY <3>1, FrameOfSeq DEF Nested
    <3>3. frames[k].stage # "saved" =>
            Keeps(frames[k], mstatus', vsstatus', spv')
      BY <1>1, <1>5, <3>1, <3>2, TrapKeepsOthers DEF Kept, Typed
    <3>. QED
      BY <3>1, <3>2, <3>3 DEF Kept
  <2>. QED
    BY <2>1, <2>2
<1>7. ASSUME NEW k \in 1 .. n + 1, k + 1 \in 1 .. n + 1
      PROVE  Linked(k)'
  <2>0. k \in 1 .. n
    BY <1>2, <1>7
  <2>1. CASE k = n
    <3>1. Handling /\ Top = frames[n]
      BY <1>2, <2>0, EmptySeq DEF Handling, Top
    <3>. QED
      BY <1>2, <1>3, <2>0, <2>1, <3>1 DEF Linked, Nested
  <2>2. CASE k # n
    <3>1. k + 1 \in 1 .. n
      BY <1>2, <2>0, <2>2
    <3>2. Linked(k)
      BY <2>0, <3>1 DEF Nested
    <3>. QED
      BY <1>2, <2>0, <3>1, <3>2 DEF Linked
  <2>. QED
    BY <2>1, <2>2
<1>8. ASSUME NEW j \in 1 .. n + 1, NEW k \in 1 .. j - 1
      PROVE  Ordered(k, j)'
  <2>0. k \in 1 .. n /\ frames'[k] = frames[k]
    BY <1>2, <1>8
  <2>1. CASE j = n + 1
    BY <1>2, <1>3, <1>5, <2>0, <2>1 DEF Ordered
  <2>2. CASE j # n + 1
    <3>1. j \in 1 .. n /\ frames'[j] = frames[j]
      BY <1>2, <1>8, <2>2
    <3>2. Ordered(k, j)
      BY <1>8, <3>1 DEF Nested
    <3>. QED
      BY <2>0, <3>1, <3>2 DEF Ordered
  <2>. QED
    BY <2>1, <2>2
<1>9. LevelOf(prv', v') = Top'.level /\ EnablesKept(Top', Enables')
  BY <1>2, <1>3 DEF Top
<1>. QED
  BY <1>2, <1>6, <1>7, <1>8, <1>9 DEF Nested

\* A step of the top handler, that leaves the registers of other modes and
\* the frames below.
LEMMA TopStepNests ==
  ASSUME Typed, Nested, Handling, Len(frames') = Len(frames),
         \A k \in 1 .. Len(frames) : k # Len(frames) => frames'[k] = frames[k],
         /\ Top'.level = Top.level /\ Top'.prv = Top.prv /\ Top'.v = Top.v
         /\ Top'.ie = Top.ie,
         Kept(Len(frames))',
         UNCHANGED <<prv, v>>, EnablesKept(Top, Enables'),
         \A f : (f.level \in Levels /\ f.level # Top.level
                /\ Keeps(f, mstatus, vsstatus, spv))
               => Keeps(f, mstatus', vsstatus', spv')
  PROVE  Nested'
<1>. DEFINE n == Len(frames)
<1>1. n \in Nat /\ n \in 1 .. n /\ Top = frames[n] /\ Top' = frames'[n]
  BY EmptySeq, LenProperties DEF Typed, FramesTyped, Handling, Top
<1>2. ASSUME NEW k \in 1 .. n
      PROVE  /\ frames'[k].level = frames[k].level
             /\ frames'[k].prv = frames[k].prv /\ frames'[k].v = frames[k].v
             /\ frames'[k].ie = frames[k].ie
             /\ k # n => frames'[k].stage = frames[k].stage
  BY <1>1
<1>3. ASSUME NEW k \in 1 .. n
      PROVE  Kept(k)'
  <2>1. CASE k = n
    BY <2>1
  <2>2. CASE k # n
    <3>1. frames'[k] = frames[k] /\ Kept(k) /\ frames[k].level \in Levels
      BY <1>3, <2>2, FrameOfSeq DEF Nested
    <3>2. k \in 1 .. n - 1
      BY <1>1, <1>3, <2>2
    <3>3. Ordered(k, n)
      BY <1>1, <3>2 DEF Nested
    <3>4. frames[k].stage # "saved" => frames[k].level # Top.level
      BY <1>1, <3>3 DEF Ordered
    <3>5. frames[k].stage # "saved" =>
            Keeps(frames[k], mstatus', vsstatus', spv')
      BY <3>1, <3>4 DEF Kept
    <3>. QED
      BY <3>1, <3>5 DEF Kept
  <2>. QED
    BY <2>1, <2>2
<1>4. ASSUME NEW k \in 1 .. n, k + 1 \in 1 .. n
      PROVE  Linked(k)'
  <2>1. Linked(k)
    BY <1>4 DEF Nested
  <2>. QED
    BY <1>2, <1>4, <2>1 DEF Linked, EnablesKept
<1>5. ASSUME NEW j \in 1 .. n, NEW k \in 1 .. j - 1
      PROVE  Ordered(k, j)'
  <2>1. k \in 1 .. n /\ k # n
    BY <1>1, <1>5
  <2>2. Ordered(k, j)
    BY <1>5 DEF Nested
  <2>. QED
    BY <1>2, <1>5, <2>1, <2>2 DEF Ordered
<1>6. LevelOf(prv', v') = Top'.level /\ EnablesKept(Top', Enables')
  BY DEF Nested, EnablesKept
<1>. QED
  BY <1>3, <1>4, <1>5, <1>6 DEF Nested

LEMMA TopKept ==
  ASSUME Typed, Nested, Handling
  PROVE  /\ Len(frames) \in 1 .. Len(frames) /\ Top = frames[Len(frames)]
         /\ Top \in Frames /\ Top.level \in Levels /\ Level = Top.level
         /\ Kept(Len(frames))
<1>1. Len(frames) \in 1 .. Len(frames) /\ Top = frames[Len(frames)]
  BY EmptySeq, LenProperties DEF Typed, FramesTyped, Handling, Top
<1>2. Top \in Frames /\ Top.level \in Levels
  BY <1>1, FrameOfSeq
<1>. QED
  BY <1>1, <1>2, LevelIsLevelOf DEF Nested, Typed

LEMMA SaveNests ==
  ASSUME Typed, Nested, Save
  PROVE  Nested'
<1>1. Handling /\ Top.stage = "fresh" /\ UNCHANGED <<prv, v, statusVars>>
  BY DEF Save
<1>2. /\ Len(frames') = Len(frames) /\ Len(frames) \in 1 .. Len(frames)
      /\ \A k \in 1 .. Len(frames) : k # Len(frames) => frames'[k] = frames[k]
      /\ frames'[Len(frames)] =
           [Top EXCEPT !.stage = "saved", !.saved = <<mstatus, vsstatus, spv>>]
  BY StageFrames
<1>3. Top' = [Top EXCEPT !.stage = "saved", !.saved = <<mstatus, vsstatus, spv>>]
  BY <1>2 DEF Top
<1>4. /\ Top'.level = Top.level /\ Top'.prv = Top.prv /\ Top'.v = Top.v
      /\ Top'.ie = Top.ie /\ Top'.stage = "saved"
      /\ Top'.saved = <<mstatus, vsstatus, spv>>
  BY <1>1, <1>3, TopKept DEF Frames
<1>5. Keeps(Top, mstatus, vsstatus, spv) /\ (Top.prv = "M" => Top.v = FALSE)
  BY <1>1, TopKept DEF Kept
<1>6. Kept(Len(frames))'
  <2>1. frames'[Len(frames')] = Top'
    BY DEF Top
  <2>2. Keeps(Top', Top'.saved[1], Top'.saved[2], Top'.saved[3])
    BY <1>4, <1>5 DEF Keeps
  <2>. QED
    BY <1>4, <1>5, <2>1, <2>2 DEF Kept
<1>7. EnablesKept(Top, Enables') /\ UNCHANGED <<mstatus, vsstatus, spv>>
  BY <1>1 DEF Nested, Enables, statusVars
<1>. QED
  BY <1>1, <1>2, <1>4, <1>6, <1>7, TopStepNests

LEMMA RestoreNests ==
  ASSUME Typed, Nested, Restore
  PROVE  Nested'
<1>1. Handling /\ Top.stage = "saved" /\ UNCHANGED <<prv, v>>
  BY DEF Restore
<1>2. /\ Len(frames') = Len(frames) /\ Len(frames) \in 1 .. Len(frames)
      /\ \A k \in 1 .. Len(frames) : k # Len(frames) => frames'[k] = frames[k]
      /\ frames'[Len(frames)] = [Top EXCEPT !.stage = "leaving", !.saved = <<>>]
  BY StageFrames
<1>3. Top' = [Top EXCEPT !.stage = "leaving", !.saved = <<>>]
      /\ Top' = frames'[Len(frames')]
  BY <1>2 DEF Top
<1>4. /\ Top'.level = Top.level /\ Top'.prv = Top.prv /\ Top'.v = Top.v
      /\ Top'.ie = Top.ie /\ Top'.stage = "leaving"
  BY <1>1, <1>3, TopKept DEF Frames
<1>5. /\ Keeps(Top, Top.saved[1], Top.saved[2], Top.saved[3])
      /\ Top.prv = "M" => Top.v = FALSE
      /\ EnablesKept(Top, Enables) /\ Level = Top.level
  BY <1>1, TopKept DEF Kept, Nested
<1>6. /\ mstatus \in Mstatuses /\ Top.saved[2] \in Vsstatuses
  <2>1. Top.saved \in Saveds
    BY <1>1, TopKept DEF Typed, FramesTyped
  <2>. QED
    BY <2>1 DEF Saveds, Typed, HartTypeOK, Mstatuses
<1>7. /\ Keeps(Top, mstatus', vsstatus', spv')
      /\ EnablesKept(Top, Enables')
      /\ \A f : (f.level \in Levels /\ f.level # Top.level
                  /\ Keeps(f, mstatus, vsstatus, spv))
                 => Keeps(f, mstatus', vsstatus', spv')
  <2>. DEFINE m == Top.saved[1]
  <2>1. CASE Level = "M"
    <3>1. /\ mstatus' = [mstatus EXCEPT !.MIE = m.MIE, !.MPIE = m.MPIE,
                                        !.MPP = m.MPP, !.MPV = m.MPV]
          /\ UNCHANGED <<vsstatus, spv>>
      BY <2>1 DEF Restore
    <3>2. /\ mstatus'.MIE = m.MIE /\ mstatus'.MPIE = m.MPIE
          /\ mstatus'.MPP = m.MPP /\ mstatus'.MPV = m.MPV
          /\ mstatus'.SIE = mstatus.SIE /\ mstatus'.SPIE = mstatus.SPIE
          /\ mstatus'.SPP = mstatus.SPP
      BY <1>6, <3>1 DEF Mstatuses
    <3>3. Keeps(Top, mstatus', vsstatus', spv')
      BY <1>5, <2>1, <3>2 DEF Keeps
    <3>4. EnablesKept(Top, Enables')
      BY <1>5, <2>1, <3>1, <3>2 DEF EnablesKept, Enables
    <3>. QED
      BY <1>5, <2>1, <3>1, <3>2, <3>3, <3>4 DEF Keeps, Levels
  <2>2. CASE Level = "HS"
    <3>1. /\ mstatus' = [mstatus EXCEPT !.SIE = m.SIE, !.SPIE = m.SPIE,
                                        !.SPP = m.SPP]
          /\ spv' = Top.saved[3] /\ UNCHANGED vsstatus
      BY <2>2 DEF Restore
    <3>2. /\ mstatus'.SIE = m.SIE /\ mstatus'.SPIE = m.SPIE
          /\ mstatus'.SPP = m.SPP
          /\ mstatus'.MIE = mstatus.MIE /\ mstatus'.MPIE = mstatus.MPIE
          /\ mstatus'.MPP = mstatus.MPP /\ mstatus'.MPV = mstatus.MPV
      BY <1>6, <3>1 DEF Mstatuses
    <3>3. Keeps(Top, mstatus', vsstatus', spv')
      BY <1>5, <2>2, <3>1, <3>2 DEF Keeps
    <3>4. EnablesKept(Top, Enables')
      BY <1>5, <2>2, <3>1, <3>2 DEF EnablesKept, Enables
    <3>. QED
      BY <1>5, <2>2, <3>1, <3>2, <3>3, <3>4 DEF Keeps, Levels
  <2>3. CASE Level = "VS"
    <3>1. vsstatus' = Top.saved[2] /\ UNCHANGED <<mstatus, spv>>
      BY <2>3 DEF Restore
    <3>2. Keeps(Top, mstatus', vsstatus', spv')
      BY <1>5, <2>3, <3>1 DEF Keeps
    <3>3. EnablesKept(Top, Enables')
      BY <1>5, <2>3, <3>1 DEF EnablesKept, Enables
    <3>. QED
      BY <1>5, <2>3, <3>1, <3>2, <3>3 DEF Keeps, Levels
  <2>. QED
    BY <2>1, <2>2, <2>3 DEF Restore
<1>8. Kept(Len(frames))'
  <2>1. Keeps(Top', mstatus', vsstatus', spv')
    BY <1>4, <1>7 DEF Keeps
  <2>. QED
    BY <1>3, <1>4, <1>5, <2>1 DEF Kept
<1>. QED
  BY <1>1, <1>2, <1>4, <1>7, <1>8, TopStepNests

LEMMA WriteIeNests ==
  ASSUME Typed, Nested, NEW ie \in BOOLEAN, WriteIe(ie)
  PROVE  Nested'
<1>1. UNCHANGED <<prv, v, spv, frames>> /\ (Handling => Top.stage = "saved")
  BY DEF WriteIe
<1>2. CASE ~Handling
  <2>1. 1 .. Len(frames) = {}
    BY <1>2, EmptySeq DEF Handling
  <2>. QED
    BY <1>1, <1>2, <2>1 DEF Nested, Handling
<1>3. CASE Handling
  <2>1. /\ Len(frames) \in 1 .. Len(frames) /\ Top = frames[Len(frames)]
        /\ Level = Top.level /\ Kept(Len(frames))
    BY <1>3, TopKept
  <2>2. /\ EnablesKept(Top, Enables')
        /\ \A f : (f.level \in Levels /\ f.level # Top.level
                    /\ Keeps(f, mstatus, vsstatus, spv))
                   => Keeps(f, mstatus', vsstatus', spv')
    <3>. USE DEF Keeps, EnablesKept, Enables, Levels
    <3>0. EnablesKept(Top, Enables) /\ mstatus \in Mstatuses
      BY <1>3 DEF Nested, Typed, HartTypeOK, Mstatuses
    <3>1. CASE Level = "M"
      <4>1. mstatus' = [mstatus EXCEPT !.MIE = ie] /\ UNCHANGED vsstatus
        BY <3>1 DEF WriteIe
      <4>. QED
        BY <1>1, <2>1, <3>0, <3>1, <4>1 DEF Mstatuses
    <3>2. CASE Level = "HS"
      <4>1. mstatus' = [mstatus EXCEPT !.SIE = ie] /\ UNCHANGED vsstatus
        BY <3>2 DEF WriteIe
      <4>. QED
        BY <1>1, <2>1, <3>0, <3>2, <4>1 DEF Mstatuses
    <3>3. CASE Level = "VS"
      <4>1. vsstatus' = [vsstatus EXCEPT !.SIE = ie] /\ UNCHANGED mstatus
        BY <3>3 DEF WriteIe
      <4>. QED
        BY <1>1, <2>1, <3>0, <3>3, <4>1
    <3>. QED
      BY <3>1, <3>2, <3>3 DEF WriteIe
  <2>3. Kept(Len(frames))'
    BY <1>1, <1>3, <2>1 DEF Kept
  <2>4. Top' = Top
    BY <1>1 DEF Top
  <2>. QED
    BY <1>1, <1>3, <2>2, <2>3, <2>4, TopStepNests
<1>. QED
  BY <1>2, <1>3

\* The return finds what the top frame interrupted in the registers of its
\* mode, and leaves those of the others.
LEMMA ReturnResumesTop ==
  ASSUME Typed, Nested, Return
  PROVE  /\ prv' = Top.prv /\ v' = Top.v /\ Enables' = Top.ie
         /\ \A f : (f.level \in Levels /\ f.level # Top.level
                    /\ Keeps(f, mstatus, vsstatus, spv))
                   => Keeps(f, mstatus', vsstatus', spv')
<1>1. Handling /\ Top.stage # "saved"
  BY DEF Return
<1>2. /\ Top \in Frames /\ Top.level \in Levels /\ Level = Top.level
      /\ Keeps(Top, mstatus, vsstatus, spv) /\ EnablesKept(Top, Enables)
      /\ Top.prv = "M" => Top.v = FALSE
  BY <1>1, TopKept DEF Kept, Nested
<1>3. Top.ie = <<Top.ie[1], Top.ie[2], Top.ie[3]>> /\ Top.v \in BOOLEAN
  BY <1>2 DEF Frames
<1>4. mstatus \in Mstatuses /\ vsstatus \in Vsstatuses /\ spv \in BOOLEAN
      /\ v \in BOOLEAN
  BY DEF Typed, HartTypeOK, Mstatuses, Vsstatuses
<1>5. CASE Level = "M"
  <2>1. /\ mstatus' = [mstatus EXCEPT !.MIE = mstatus.MPIE, !.MPIE = TRUE,
                                      !.MPP = "U", !.MPV = FALSE]
        /\ prv' = mstatus.MPP /\ v' = (mstatus.MPV /\ mstatus.MPP # "M")
        /\ UNCHANGED <<vsstatus, spv>>
    BY <1>5 DEF Return, mret, set_privilege
  <2>2. /\ mstatus'.MIE = mstatus.MPIE /\ mstatus'.SIE = mstatus.SIE
        /\ mstatus'.SPIE = mstatus.SPIE /\ mstatus'.SPP = mstatus.SPP
    BY <1>4, <2>1 DEF Mstatuses
  <2>3. mstatus.MPP = Top.prv /\ mstatus.MPV = Top.v /\ mstatus.MPIE = Top.ie[1]
    BY <1>2, <1>5 DEF Keeps
  <2>4. prv' = Top.prv /\ v' = Top.v
    BY <1>2, <1>3, <2>1, <2>3
  <2>5. Enables' = Top.ie
    BY <1>2, <1>3, <1>5, <2>1, <2>2, <2>3 DEF EnablesKept, Enables
  <2>. QED
    BY <1>2, <1>5, <2>1, <2>2, <2>4, <2>5 DEF Keeps, Levels
<1>6. CASE Level = "VS"
  <2>0. v = TRUE
    BY <1>4, <1>6 DEF Level
  <2>1. /\ vsstatus' = [SIE |-> vsstatus.SPIE, SPIE |-> TRUE, SPP |-> "U"]
        /\ prv' = vsstatus.SPP /\ v' = (vsstatus.SPP # "M")
        /\ UNCHANGED <<mstatus, spv>>
    BY <1>6, <2>0 DEF Return, sret, SretVirt, set_privilege
  <2>2. vsstatus.SPP = Top.prv /\ Top.v = TRUE /\ vsstatus.SPIE = Top.ie[3]
    BY <1>2, <1>6 DEF Keeps
  <2>3. vsstatus.SPP # "M"
    BY <1>4 DEF Vsstatuses
  <2>4. prv' = Top.prv /\ v' = Top.v
    BY <2>1, <2>2, <2>3
  <2>5. Enables' = Top.ie
    BY <1>2, <1>3, <1>6, <2>1, <2>2 DEF EnablesKept, Enables
  <2>. QED
    BY <1>2, <1>6, <2>1, <2>4, <2>5 DEF Keeps, Levels
<1>7. CASE Level = "HS"
  <2>0. v = FALSE
    BY <1>4, <1>7 DEF Level
  <2>1. /\ mstatus' = [mstatus EXCEPT !.SIE = mstatus.SPIE,
                                      !.SPIE = TRUE, !.SPP = "U"]
        /\ prv' = mstatus.SPP /\ v' = (spv /\ mstatus.SPP # "M")
        /\ UNCHANGED vsstatus
    BY <1>7, <2>0 DEF Return, sret, SretVirt, set_privilege
  <2>2. /\ mstatus'.SIE = mstatus.SPIE /\ mstatus'.MIE = mstatus.MIE
        /\ mstatus'.MPIE = mstatus.MPIE /\ mstatus'.MPP = mstatus.MPP
        /\ mstatus'.MPV = mstatus.MPV
    BY <1>4, <2>1 DEF Mstatuses
  <2>3. mstatus.SPP = Top.prv /\ spv = Top.v /\ mstatus.SPIE = Top.ie[2]
    BY <1>2, <1>7 DEF Keeps
  <2>4. mstatus.SPP # "M"
    BY <1>4 DEF Mstatuses
  <2>5. prv' = Top.prv /\ v' = Top.v
    BY <1>4, <2>1, <2>3, <2>4
  <2>6. Enables' = Top.ie
    BY <1>2, <1>3, <1>7, <2>1, <2>2, <2>3 DEF EnablesKept, Enables
  <2>. QED
    BY <1>2, <1>7, <2>1, <2>2, <2>5, <2>6 DEF Keeps, Levels
<1>. QED
  BY <1>2, <1>5, <1>6, <1>7 DEF Levels

LEMMA ReturnNests ==
  ASSUME Typed, Nested, Return
  PROVE  Nested'
<1>. DEFINE n == Len(frames)
<1>1. /\ n \in Nat /\ n \in 1 .. n /\ Len(frames') = n - 1
      /\ \A k \in 1 .. n - 1 : frames'[k] = frames[k]
      /\ \A k \in 1 .. n - 1 : k \in 1 .. n /\ k # n
  BY ReturnFrames
<1>2. Top = frames[n]
  BY DEF Top
<1>3. /\ prv' = frames[n].prv /\ v' = frames[n].v /\ Enables' = frames[n].ie
      /\ \A f : (f.level \in Levels /\ f.level # frames[n].level
                  /\ Keeps(f, mstatus, vsstatus, spv))
                 => Keeps(f, mstatus', vsstatus', spv')
  BY <1>2, ReturnResumesTop
<1>4. ASSUME NEW k \in 1 .. n - 1
      PROVE  Kept(k)'
  <2>1. Kept(k) /\ Ordered(k, n) /\ frames[k].level \in Levels
        /\ frames'[k] = frames[k]
    BY <1>1, <1>4, FrameOfSeq DEF Nested
  <2>2. frames[k].stage # "saved" =>
          Keeps(frames[k], mstatus', vsstatus', spv')
    BY <1>3, <2>1 DEF Kept, Ordered
  <2>. QED
    BY <2>1, <2>2 DEF Kept
<1>5. ASSUME NEW k \in 1 .. n - 1, k + 1 \in 1 .. n - 1
      PROVE  Linked(k)'
  <2>1. k + 1 \in 1 .. n /\ k \in 1 .. n
    BY <1>1, <1>5
  <2>2. Linked(k)
    BY <2>1 DEF Nested
  <2>. QED
    BY <1>1, <1>5, <2>2 DEF Linked
<1>6. ASSUME NEW j \in 1 .. n - 1, NEW k \in 1 .. j - 1
      PROVE  Ordered(k, j)'
  <2>1. j \in 1 .. n /\ k \in 1 .. n - 1
    BY <1>1, <1>6
  <2>2. Ordered(k, j)
    BY <1>6, <2>1 DEF Nested
  <2>. QED
    BY <1>1, <1>6, <2>1, <2>2 DEF Ordered
<1>7. ASSUME Handling'
      PROVE  LevelOf(prv', v') = Top'.level /\ EnablesKept(Top', Enables')
  <2>1. n - 1 \in 1 .. n - 1
    <3>1. frames' \in Seq(Frames) /\ frames' # <<>>
      BY <1>7, ReturnFrames DEF FramesTyped, Handling
    <3>. QED
      BY <1>1, <3>1, EmptySeq
  <2>2. Top' = frames[n - 1]
    BY <1>1, <2>1 DEF Top
  <2>3. Linked(n - 1)
    <3>1. n - 1 \in 1 .. n /\ n - 1 + 1 \in 1 .. n
      BY <1>1, <2>1
    <3>. QED
      BY <3>1 DEF Nested
  <2>4. n - 1 + 1 = n
    BY <1>1
  <2>. QED
    BY <1>3, <2>2, <2>3, <2>4 DEF Linked
<1>. QED
  BY <1>1, <1>4, <1>5, <1>6, <1>7 DEF Nested

\* Neither mip nor waiting is part of what nests.
LEMMA OthersNest ==
  ASSUME Nested, UNCHANGED <<prv, v, statusVars, frames>>
  PROVE  Nested'
BY DEF Nested, Kept, Linked, Ordered, Handling, Top, Enables, statusVars

LEMMA StepNests ==
  ASSUME Typed, Nested, [Next]_allVars
  PROVE  Nested'
<1>. USE DEF statusVars
<1>1. CASE HartStep
  <2>1. CASE TakeInterrupt
    BY <2>1, SelectedIsEnabled, TrapNests DEF TakeInterrupt, Typed
  <2>2. CASE WakeUp \/ Wfi
    BY <2>2, OthersNest DEF WakeUp, Wfi
  <2>3. CASE Save
    BY <2>3, SaveNests
  <2>4. CASE Restore
    BY <2>4, RestoreNests
  <2>5. CASE Return
    BY <2>5, ReturnNests
  <2>6. CASE Acknowledge
    BY <2>6, OthersNest DEF Acknowledge, SetSoftware
  <2>7. CASE \E cause \in Exceptions : Exception(cause)
    BY <2>7, TrapNests
  <2>8. CASE \E ie \in BOOLEAN : WriteIe(ie)
    BY <2>8, WriteIeNests
  <2>. QED
    BY <1>1, <2>1, <2>2, <2>3, <2>4, <2>5, <2>6, <2>7, <2>8 DEF HartStep
<1>2. CASE AcknowledgeMsi \/ AcknowledgeMti \/ Others
  BY <1>2, OutsideTheHart, OthersNest DEF hartRest
<1>3. CASE UNCHANGED allVars
  BY <1>3, OthersNest DEF allVars, hartVars
<1>. QED
  BY <1>1, <1>2, <1>3 DEF Next

\* Only a return closes a frame.
LEMMA OnlyReturnsClose ==
  ASSUME Typed, [Next]_allVars, Len(frames') < Len(frames)
  PROVE  Return
<1>1. Len(frames) \in Nat
  BY LenProperties DEF Typed, FramesTyped
<1>2. ~(\E cause \in Ints \cup Exceptions : take_trap(cause))
  BY <1>1, TrapFrames
<1>3. ~Save /\ ~Restore
  BY <1>1, StageFrames
<1>4. ~UNCHANGED frames
  BY <1>1
<1>. QED
  BY <1>2, <1>3, <1>4, HartKinds

\* mret and sret continue what was interrupted, its mode, virtual or not, and
\* all three interrupt enables, through handlers nested to any depth: the
\* registers of a mode hold the state of one trap, and none overwrites them
\* before the handler has saved them.
THEOREM ReturnsResume == Spec => ReturnResumes
<1>1. Init => Nested
  <2>1. Init => frames = <<>>
    BY DEF Init, HartInit
  <2>2. Len(<<>>) = 0 /\ 1 .. 0 = {}
    BY EmptySeq
  <2>. QED
    BY <2>1, <2>2 DEF Nested, Handling
<1>2. Typed /\ Nested /\ [Next]_allVars => Nested'
  BY StepNests
<1>3. ASSUME Typed, Nested, [Next]_allVars
      PROVE  [Len(frames') < Len(frames) =>
                /\ prv' = Top.prv /\ v' = Top.v
                /\ <<mstatus.MIE, mstatus.SIE, vsstatus.SIE>>' = Top.ie]_hartVars
  BY <1>3, OnlyReturnsClose, ReturnResumesTop DEF Enables
<1>. QED
  BY <1>1, <1>2, <1>3, TypedAlways, PTL DEF Spec, ReturnResumes
=============================================================================
