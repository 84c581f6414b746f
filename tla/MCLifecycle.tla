---------------------------- MODULE MCLifecycle ----------------------------
(* Instances of Lifecycle for TLC. *)
EXTENDS Lifecycle, TLC

\* Plugins are interchangeable, and so are chunks.
Interchangeable == Permutations(Plugins) \cup Permutations(Chunks)
=============================================================================
