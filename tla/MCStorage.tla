------------------------------ MODULE MCStorage ------------------------------
(* Instances of Storage for TLC. *)
EXTENDS Storage, TLC

\* The structures are interchangeable.
Interchangeable == Permutations(Holders)
=============================================================================
