------------------------------ MODULE MCLiveView ------------------------------
(* Small values for the constants of LiveView. *)
EXTENDS LiveView

CONSTANTS p1, p2, v1
=============================================================================
