----------------------------- MODULE MCBundleStore ----------------------------
(* Small values for the constants of BundleStore. *)
EXTENDS BundleStore, TLC

CONSTANTS r1, r2

Symmetry == Permutations({r1, r2})
=============================================================================
