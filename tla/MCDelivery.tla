------------------------------ MODULE MCDelivery ------------------------------
(* Instances of Delivery for TLC. *)
EXTENDS Delivery, TLC

\* Events, publishers and consumers are interchangeable.
Interchangeable == Permutations(Publishers) \cup Permutations(Consumers)
=============================================================================
