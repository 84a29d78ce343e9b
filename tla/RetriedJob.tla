----------------------------- MODULE RetriedJob -----------------------------
(***************************************************************************)
(* What one durable job of the processing pipeline promises to the rest of *)
(* the system, whatever workers, nodes and networks do while it runs: it   *)
(* is tried at most MaxAttempts times, its result takes effect at most     *)
(* once and exactly when it succeeds, and an ended job never changes.      *)
(* ClassificationJob implements this promise; Pipeline builds on it: the   *)
(* coordinator reads nothing of a child job but its outcome.               *)
(***************************************************************************)
EXTENDS Naturals

CONSTANT MaxAttempts

VARIABLES
  outcome,   \* "open" until the job ends, then "succeeded" or "dead_letter"
  tries,     \* attempts started so far
  effects    \* how many times a result of this job took effect

vars == <<outcome, tries, effects>>

TypeOK ==
  /\ outcome \in {"open", "succeeded", "dead_letter"}
  /\ tries \in 0..MaxAttempts
  /\ effects \in 0..1

Init ==
  /\ outcome = "open"
  /\ tries = 0
  /\ effects = 0

\* A worker starts another attempt.
Try ==
  /\ outcome = "open"
  /\ tries < MaxAttempts
  /\ tries' = tries + 1
  /\ UNCHANGED <<outcome, effects>>

\* The result of some attempt takes effect and ends the job.
Succeed ==
  /\ outcome = "open"
  /\ tries > 0
  /\ outcome' = "succeeded"
  /\ effects' = effects + 1
  /\ UNCHANGED tries

\* The job is set aside for the editors: a permanent failure, or no try left.
GiveUp ==
  /\ outcome = "open"
  /\ tries > 0
  /\ outcome' = "dead_letter"
  /\ UNCHANGED <<tries, effects>>

Next == Try \/ Succeed \/ GiveUp

Spec == Init /\ [][Next]_vars

\* With workers that keep polling, a job does not stay open for ever.
FairSpec == Spec /\ WF_vars(Next)

=============================================================================
