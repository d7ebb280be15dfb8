--------------------------- MODULE MCLeaseTiming ---------------------------
(* Constants for checking LeaseTiming on a small instance. *)
EXTENDS LeaseTiming, TLC

CONSTANTS s1, s2, s3

MCSlots == {s1, s2, s3}

Symmetric == Permutations(MCSlots)
=============================================================================
