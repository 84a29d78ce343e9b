--------------------------- MODULE MCLoginThrottle ---------------------------
(* Instances of LoginThrottle for TLC, and the rights of a request beside it. *)
EXTENDS LoginThrottle, Principals, TLC

\* No request gets more than its credentials are good for by the rows as they are.
\* This depends on no variable, so one state is enough to look at it.
RightsAreCurrent == Init => CredentialsCountNow

ClientSymmetry == Permutations(Clients)
=============================================================================
