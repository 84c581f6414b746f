---------------------------- MODULE MCHostValues ----------------------------
(* Instances of HostValues for TLC. *)
EXTENDS HostValues, TLC

\* Parameters are interchangeable.
Interchangeable == Permutations(Params)
=============================================================================
