------------------------------- MODULE MCRollout -------------------------------
(* Small values for the constants of Rollout. *)
EXTENDS Rollout

CONSTANT n1
================================================================================
