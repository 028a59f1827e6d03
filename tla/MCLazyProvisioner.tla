------------------------- MODULE MCLazyProvisioner -------------------------
(* A chain of two keys, and one of a single key. *)
EXTENDS LazyProvisioner

CONSTANTS r, a

RootAndLeaf == {<<r, a>>}
OneKey == {<<r>>}

=============================================================================
