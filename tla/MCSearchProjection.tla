-------------------------- MODULE MCSearchProjection --------------------------
(* Instances of SearchProjection for TLC, and the read policy beside it. *)
EXTENDS SearchProjection, ReadPolicy

\* The routes agree on every news, stale document, query and key.  The policy depends
\* on no variable, so one state is enough to look at it.
RoutesAgree == Init => OnePolicy
=============================================================================
