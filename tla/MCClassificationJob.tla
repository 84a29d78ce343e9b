------------------------- MODULE MCClassificationJob -------------------------
(* Instances of ClassificationJob for TLC. *)
EXTENDS ClassificationJob, TLC

\* Slots and tokens are interchangeable: no definition singles one out.
Interchangeable == Permutations(Slots) \cup Permutations(Tokens)
=============================================================================
