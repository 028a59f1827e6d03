---------------------------- MODULE MCKeyService ----------------------------
(* KeyService for TLC. *)
EXTENDS KeyService, TLC

ServiceSymmetry ==
    Permutations(Lid) \cup Permutations(Handle) \cup Permutations(Task)
        \cup Permutations(Instance) \cup Permutations(CreationOp)

=============================================================================
