--------------------------- MODULE MCLeaseCleanup ---------------------------
(* LeaseCleanup with uses that are interchangeable. *)
EXTENDS LeaseCleanup, TLC

UseSymmetry == Permutations(Use)

=============================================================================
