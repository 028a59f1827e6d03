-------------------------- MODULE MCCascadeDisable --------------------------
(* A hierarchy of three generations. *)
EXTENDS CascadeDisable, TLC

CONSTANTS r, a, b

Generations == (r :> None) @@ (a :> r) @@ (b :> a)

=============================================================================
