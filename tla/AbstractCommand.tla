-------------------------- MODULE AbstractCommand --------------------------
(***************************************************************************)
(* What the debug module promises about an abstract command: it is posted  *)
(* to one halted hart, that hart alone takes it and runs it once, and the  *)
(* debugger is told (busy falls) only after the hart has left it.          *)
(***************************************************************************)
CONSTANTS Harts

VARIABLES
  phase,   \* "idle", "posted", "taken", "finished"
  owner,   \* the hart the command was posted to
  runners  \* the harts that are inside a command

vars == <<phase, owner, runners>>

Init == phase = "idle" /\ owner \in Harts /\ runners = {}

\* A hart is chosen only while no command is under way.
Choose(h) ==
  /\ phase = "idle" /\ phase' = "idle"
  /\ owner' = h
  /\ runners' = runners

Post ==
  /\ phase = "idle" /\ phase' = "posted"
  /\ UNCHANGED <<owner, runners>>

Take ==
  /\ phase = "posted" /\ phase' = "taken"
  /\ runners = {} /\ runners' = {owner}
  /\ UNCHANGED owner

\* The hart leaves the command, and afterwards the module learns of it.
Leave ==
  /\ phase = "taken" /\ runners = {owner}
  /\ runners' = {}
  /\ UNCHANGED <<phase, owner>>

Finish ==
  /\ phase = "taken" /\ runners = {}
  /\ phase' = "finished"
  /\ UNCHANGED <<owner, runners>>

Report ==
  /\ phase = "finished" /\ runners = {}
  /\ phase' = "idle"
  /\ UNCHANGED <<owner, runners>>

Next ==
  \/ \E h \in Harts : Choose(h)
  \/ Post \/ Take \/ Leave \/ Finish \/ Report

Spec == Init /\ [][Next]_vars
=============================================================================
