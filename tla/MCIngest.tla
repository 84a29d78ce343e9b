------------------------------- MODULE MCIngest -------------------------------
(* Instances of Ingest for TLC. *)
EXTENDS Ingest, TLC

CONSTANTS i1, i2, u1, u2

\* Two payloads that want one upload, and one that has the identities of both.
FewRequests ==
  {[ids |-> {i1}, file |-> u1, body |-> 1],
   [ids |-> {i2}, file |-> u1, body |-> 1],
   [ids |-> {i1, i2}, file |-> NoFile, body |-> 1]}

\* Handlers, collectors and the random parts of names are interchangeable.
Interchangeable ==
  Permutations(Handlers) \cup Permutations(Copies) \cup Permutations(Collectors)
=============================================================================
