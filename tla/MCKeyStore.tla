----------------------------- MODULE MCKeyStore -----------------------------
(***************************************************************************)
(* Small instances of KeyStore.                                            *)
(***************************************************************************)
EXTENDS KeyStore, TLC

(* Keys, operations and instances are interchangeable: no definition        *)
(* distinguishes one member of these sets from another.                     *)
Symmetry ==
    Permutations(Lid) \cup Permutations(CreationOp) \cup Permutations(MigrationOp)
        \cup Permutations(Instance)

=============================================================================
