----------------------------- MODULE MCHostTree -----------------------------
(* Instances of HostTree for TLC. *)
EXTENDS HostTree, TLC

\* Parameter chunks are interchangeable, and so are the groups below the root.
Interchangeable == Permutations(Params) \cup Permutations(Groups \ {Root})
=============================================================================
