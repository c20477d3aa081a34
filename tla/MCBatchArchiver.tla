--------------------------- MODULE MCBatchArchiver ---------------------------
(* Finite instances of BatchArchiver for TLC. *)
EXTENDS BatchArchiver, TLC

\* Records and callers are interchangeable; used by safety runs only.
Symmetry == Permutations(Records) \cup Permutations(Callers)
=============================================================================
