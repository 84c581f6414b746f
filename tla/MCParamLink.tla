----------------------------- MODULE MCParamLink -----------------------------
(* Instances of ParamLink for TLC. *)
EXTENDS ParamLink, TLC

\* Parameters and chunks are interchangeable, but for those that Init takes for
\* the fields of unused chunks.
Interchangeable ==
  Permutations(Ids \ {CHOOSE p \in Ids : TRUE})
  \cup Permutations(PChunks \ {CHOOSE c \in PChunks : TRUE})
  \cup Permutations(HChunks)
=============================================================================
