------------------------------- MODULE MCIntake -------------------------------
(* Small values for the constants of Intake. *)
EXTENDS Intake

CONSTANTS t1, t2
=============================================================================
