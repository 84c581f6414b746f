----------------------------- MODULE MCPluginLib -----------------------------
(* Instances of PluginLib for TLC. *)
EXTENDS PluginLib, TLC

\* Parameters, and groups but the root, are interchangeable.
Interchangeable == Permutations(Params) \cup Permutations(Groups \ {Root})
=============================================================================
