---------------------------- MODULE MCJtagDtm ----------------------------
(***************************************************************************)
(* Instances of JtagDtm for TLC.                                           *)
(***************************************************************************)
EXTENDS JtagDtm

MCInstructions == {"idcode", "dtmcontrol", "dbus", "unsupported"}
=============================================================================
