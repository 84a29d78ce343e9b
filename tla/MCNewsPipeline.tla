---------------------------- MODULE MCNewsPipeline ----------------------------
(* Instances of NewsPipeline for TLC. *)
EXTENDS NewsPipeline, TLC

\* Runs, attachments and classifiers are interchangeable among themselves.
Interchangeable ==
  Permutations(Runs) \cup Permutations(Attachments) \cup Permutations(Classifiers)
=============================================================================
