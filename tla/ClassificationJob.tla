-------------------------- MODULE ClassificationJob --------------------------
(***************************************************************************)
(* One classification job of the main service: the row of table jobs, its  *)
(* processing attempts, the worker slots that compete for it, the external *)
(* classifier node, which answers in the HTTP response or later through a  *)
(* signed callback, and the API calls that receive those callbacks.        *)
(* Sources: infra/storage/postgres/pipeline/*, pipeline_worker.py.         *)
(*                                                                         *)
(* Every transaction of the code locks the job row first, so a transaction *)
(* is one action; everything a slot or a callback does between two         *)
(* transactions (the HTTP call, the unlocked lookup) is an action of its   *)
(* own.  An attempt is named by the generation it was claimed at: the code *)
(* gives each generation exactly one attempt row.  Clocks are abstract: a  *)
(* lease or a deadline may pass at any moment after it was set, which      *)
(* covers every ratio of lease_seconds, callback_timeout and               *)
(* request_timeout.                                                        *)
(***************************************************************************)
EXTENDS Naturals, FiniteSets

CONSTANTS
  Slots,        \* run_slot tasks of all worker-pipeline processes
  Tokens,       \* JWT ids the node may sign callbacks with
  NoToken,      \* callback_token_hash IS NULL
  MaxAttempts,  \* jobs.max_attempts
  MaxEdits      \* bound: how often the editors replace the text of the news

ASSUME JobAssumption ==
  /\ MaxAttempts \in Nat \ {0}
  /\ MaxEdits \in Nat
  /\ NoToken \notin Tokens

VARIABLES
  job,        \* the row of table jobs
  attempts,   \* the rows of table processing_attempts, by generation
  news,       \* what the transactions read of the row of table news
  slots,      \* the local state of every worker slot
  deferred,   \* attempts for which the node runs a background delivery
  callbacks,  \* signed callbacks; the network may deliver each any number of times
  checked,    \* callback calls past their unlocked lookup; each may commit any
              \* number of times, once for every concurrent delivery
  applied,    \* history: the answers that reached the labels of the news
  confirmed   \* history: callbacks the API answered "applied" or "duplicate"

vars == <<job, attempts, news, slots, deferred, callbacks, checked, applied, confirmed>>

dbVars == <<job, attempts, applied>>

-----------------------------------------------------------------------------
NoAttempt == 0
Generations == 2 .. (MaxAttempts + 1)   \* jobs.generation starts at 1
OpenStates == {"running", "waiting_callback"}
EndStates == {"succeeded", "dead_letter"}
Failures == {"retryable", "permanent"}
Verdicts == Failures \cup {"valid", "malformed"}

\* A callback that fails validation changes nothing, so it is not told apart
\* from one that was never sent.
Message == [attempt : Generations, token : Tokens, verdict : Failures \cup {"valid"}]

Job ==
  [status : OpenStates \cup EndStates \cup {"pending"},
   generation : 1 .. (MaxAttempts + 1),
   attempt_count : 0 .. MaxAttempts,
   current_attempt_id : {NoAttempt} \cup Generations,
   lease : {"none", "live", "expired", "deadline"},
   due : BOOLEAN]

Attempt ==
  [status : OpenStates \cup {"absent", "timed_out", "failed", "succeeded"},
   version : 0 .. MaxEdits,
   token : Tokens \cup {NoToken},
   overdue : BOOLEAN]

Slot ==
  [pc : {"idle", "claimed", "prepared", "awaiting", "accepted", "answered", "failing"},
   attempt : {NoAttempt} \cup Generations,
   verdict : Verdicts]

AppliedAnswer ==
  [attempt : Generations, about : 0 .. MaxEdits, version : 0 .. MaxEdits, superseded : BOOLEAN]

TypeOK ==
  /\ job \in Job
  /\ attempts \in [Generations -> Attempt]
  /\ news \in [version : 0 .. MaxEdits, superseded : BOOLEAN]
  /\ slots \in [Slots -> Slot]
  /\ deferred \subseteq Generations
  /\ callbacks \subseteq Message
  /\ checked \subseteq [message : Message, late : BOOLEAN]
  /\ applied \subseteq AppliedAnswer
  /\ confirmed \subseteq callbacks

NewAttempt(version) ==
  [status |-> "running", version |-> version, token |-> NoToken, overdue |-> FALSE]

SlotAt(pc, a) == [pc |-> pc, attempt |-> a, verdict |-> "retryable"]
IdleSlot == SlotAt("idle", NoAttempt)

Init ==
  /\ job = [status |-> "pending", generation |-> 1, attempt_count |-> 0,
            current_attempt_id |-> NoAttempt, lease |-> "none", due |-> TRUE]
  /\ attempts = [a \in Generations |-> [NewAttempt(0) EXCEPT !.status = "absent"]]
  /\ news = [version |-> 0, superseded |-> FALSE]
  /\ slots = [s \in Slots |-> IdleSlot]
  /\ deferred = {}
  /\ callbacks = {}
  /\ checked = {}
  /\ applied = {}
  /\ confirmed = {}

-----------------------------------------------------------------------------
(* Claiming *)

\* The last condition of the claim query: lease_until is NULL or has passed.
LeaseOver ==
  \/ job.lease \in {"none", "expired"}
  \/ job.lease = "deadline" /\ attempts[job.current_attempt_id].overdue

\* Mutant: the claim query of attachment jobs, which never wait for a callback.
ClaimableUnlessWaiting ==
  /\ job.status \in {"pending", "running"}
  /\ job.due
  /\ job.status = "pending" \/ LeaseOver

\* The WHERE clause of the claim query.
Claimable ==
  /\ job.status \in OpenStates \cup {"pending"}
  /\ job.due
  /\ job.status = "pending" \/ LeaseOver

TriesLeft == job.attempt_count < MaxAttempts

\* Mutant: the attempt the claim supersedes stays open.
PreviousLeftOpen == attempts

\* The attempts once the claim has timed out the one it found open.
PreviousTimedOut ==
  [a \in Generations |->
     IF a = job.current_attempt_id /\ attempts[a].status \in OpenStates
     THEN [attempts[a] EXCEPT !.status = "timed_out"]
     ELSE attempts[a]]

\* PipelineClaiming.claim with tries left: a new generation and a new attempt
\* for the text that is current now.
Claim(s) ==
  /\ slots[s].pc = "idle"
  /\ Claimable
  /\ TriesLeft
  /\ LET fresh == job.generation + 1 IN
     /\ attempts' = [PreviousTimedOut EXCEPT ![fresh] = NewAttempt(news.version)]
     /\ job' = [job EXCEPT !.status = "running",
                           !.generation = fresh,
                           !.attempt_count = job.attempt_count + 1,
                           !.current_attempt_id = fresh,
                           !.lease = "live"]
     /\ slots' = [slots EXCEPT ![s] = SlotAt("claimed", fresh)]
  /\ UNCHANGED <<news, deferred, callbacks, checked, applied, confirmed>>

\* PipelineClaiming.claim with no try left: the slot gets nothing.
Exhaust(s) ==
  /\ slots[s].pc = "idle"
  /\ Claimable
  /\ ~TriesLeft
  /\ attempts' = PreviousTimedOut
  /\ job' = [job EXCEPT !.status = "dead_letter", !.lease = "none"]
  /\ UNCHANGED <<news, slots, deferred, callbacks, checked, applied, confirmed>>

-----------------------------------------------------------------------------
(* The fences every later transaction passes *)

\* PipelineFence.matches for the claim of generation a.
Matches(a) ==
  /\ job.current_attempt_id = a
  /\ job.generation = a
  /\ job.status \in OpenStates

\* The fence together with the check that the attempt is still open.
Holds(a) == Matches(a) /\ attempts[a].status \in OpenStates

\* Mutant: the answer is checked against the pipeline run only.
MatchesRun(a) == ~news.superseded

\* PipelineFence.matches_news and the text the attempt was made for.
MatchesNews(a) == news.version = attempts[a].version /\ ~news.superseded

-----------------------------------------------------------------------------
(* Effects of the three closing transactions on the database *)

\* The job row once an attempt failed: retried after a delay, or dead-lettered.
JobAfterFailure(retryable) ==
  IF ~retryable \/ ~TriesLeft
  THEN [job EXCEPT !.status = "dead_letter", !.lease = "none"]
  ELSE [job EXCEPT !.status = "pending", !.lease = "none", !.due = FALSE]

\* PipelineFinalizer.fail past its fence.  A slot has no token to record and
\* passes the one in the row.
Failed(a, retryable, token) ==
  /\ attempts' = [attempts EXCEPT ![a].status = "failed", ![a].token = token]
  /\ job' = JobAfterFailure(retryable)
  /\ UNCHANGED applied

\* PipelineResultApplier.apply past its checks: the answer becomes opinions on
\* the version of the attempt and the labels of the news are materialized.
Applied(a, token) ==
  /\ attempts' = [attempts EXCEPT ![a].status = "succeeded", ![a].token = token]
  /\ job' = [job EXCEPT !.status = "succeeded", !.lease = "none"]
  /\ applied' = applied \cup {[attempt |-> a, about |-> attempts[a].version,
                               version |-> news.version, superseded |-> news.superseded]}

-----------------------------------------------------------------------------
(* A worker slot: PipelineWorker.process *)

Release(s) == slots' = [slots EXCEPT ![s] = IdleSlot]
Advance(s, pc) == slots' = [slots EXCEPT ![s].pc = pc]
ToFail(s, verdict) == slots' = [slots EXCEPT ![s].pc = "failing", ![s].verdict = verdict]

\* PipelineRequestBuilder.build.  A disabled or missing classifier is an error
\* that process turns into a retryable failure; a stale attempt ends the slot's
\* work and leaves the job to its lease.
Prepare(s) ==
  LET a == slots[s].attempt IN
  /\ slots[s].pc = "claimed"
  /\ \/ Matches(a) /\ MatchesNews(a) /\ Advance(s, "prepared")
     \/ Matches(a) /\ ToFail(s, "retryable")
     \/ ~(Matches(a) /\ MatchesNews(a)) /\ Release(s)
  /\ UNCHANGED <<job, attempts, news, deferred, callbacks, checked, applied, confirmed>>

\* The request leaves; the node may decide to answer through a callback.
Dispatch(s) ==
  /\ slots[s].pc = "prepared"
  /\ deferred' \in {deferred, deferred \cup {slots[s].attempt}}
  /\ Advance(s, "awaiting")
  /\ UNCHANGED <<job, attempts, news, callbacks, checked, applied, confirmed>>

\* What comes back: 202, an answer, an answer that reports a failure, or an
\* exception (time-out, transport, HTTP status, a body of another attempt).
Receive(s) ==
  LET accepted == slots[s].attempt \in deferred IN
  /\ slots[s].pc = "awaiting"
  /\ \/ accepted /\ Advance(s, "accepted")
     \/ \E v \in {"valid", "malformed"} :
          /\ ~accepted
          /\ slots' = [slots EXCEPT ![s].pc = "answered", ![s].verdict = v]
     \/ \E v \in Failures : ~accepted /\ ToFail(s, v)
     \/ ToFail(s, "retryable")
  /\ UNCHANGED <<job, attempts, news, deferred, callbacks, checked, applied, confirmed>>

\* PipelineFinalizer.mark_waiting
MarkWaiting(s) ==
  LET a == slots[s].attempt IN
  /\ slots[s].pc = "accepted"
  /\ IF Holds(a)
     THEN /\ attempts' = [attempts EXCEPT ![a].status = "waiting_callback"]
          /\ job' = [job EXCEPT !.status = "waiting_callback", !.lease = "deadline"]
     ELSE UNCHANGED <<job, attempts>>
  /\ Release(s)
  /\ UNCHANGED <<news, deferred, callbacks, checked, applied, confirmed>>

\* PipelineResultApplier.apply for the answer in the response.  A classifier
\* identity or a label that does not fit raises, and the slot goes on to fail.
ApplyAnswer(s) ==
  LET a == slots[s].attempt IN
  /\ slots[s].pc = "answered"
  /\ \/ ~(Holds(a) /\ MatchesNews(a)) /\ Release(s) /\ UNCHANGED dbVars
     \/ /\ Holds(a) /\ MatchesNews(a)
        /\ slots[s].verdict = "malformed"
        /\ ToFail(s, "retryable") /\ UNCHANGED dbVars
     \/ /\ Holds(a) /\ MatchesNews(a)
        /\ slots[s].verdict = "valid"
        /\ Applied(a, attempts[a].token) /\ Release(s)
  /\ UNCHANGED <<news, deferred, callbacks, checked, confirmed>>

\* PipelineFinalizer.fail called by a slot, without a token.
Fail(s) ==
  LET a == slots[s].attempt IN
  /\ slots[s].pc = "failing"
  /\ IF Holds(a)
     THEN Failed(a, slots[s].verdict = "retryable", attempts[a].token)
     ELSE UNCHANGED dbVars
  /\ Release(s)
  /\ UNCHANGED <<news, deferred, callbacks, checked, confirmed>>

\* The worker process dies, or is cancelled, between two of its transactions.
Crash(s) ==
  /\ slots[s].pc # "idle"
  /\ Release(s)
  /\ UNCHANGED <<job, attempts, news, deferred, callbacks, checked, applied, confirmed>>

SlotStep(s) ==
  \/ Claim(s) \/ Exhaust(s)
  \/ Prepare(s) \/ Dispatch(s) \/ Receive(s)
  \/ MarkWaiting(s) \/ ApplyAnswer(s) \/ Fail(s)

-----------------------------------------------------------------------------
(* Callbacks: the node signs each message with a fresh token *)

SendCallback(m) ==
  /\ m.attempt \in deferred
  /\ \A n \in callbacks : n.token # m.token
  /\ callbacks' = callbacks \cup {m}
  /\ UNCHANGED <<job, attempts, news, slots, deferred, checked, applied, confirmed>>

\* PipelineCallback.apply up to its transaction: the attempt and the job are
\* read without a lock, and a known token is answered at once.
Lookup(m) ==
  LET attempt == attempts[m.attempt] IN
  /\ m \in callbacks
  /\ IF attempt.token # NoToken
     THEN /\ attempt.token = m.token /\ attempt.status = "succeeded"
          /\ confirmed' = confirmed \cup {m}
          /\ UNCHANGED checked
     ELSE /\ checked' = checked \cup {[message |-> m, late |-> attempt.overdue]}
          /\ UNCHANGED confirmed
  /\ UNCHANGED <<job, attempts, news, slots, deferred, callbacks, applied>>

\* The call passes the token checks of its transaction.  The clock it compares
\* with the deadline was read after the lookup, before the job row was locked.
TokenAccepted(c) ==
  LET attempt == attempts[c.message.attempt] IN
  attempt.token = NoToken /\ FALSE \in {c.late, attempt.overdue}

\* PipelineFinalizer.fail for a callback that reports a failure.  A claim that
\* no longer holds returns silently: the node is told "applied" all the same.
CallbackFail(c) ==
  LET m == c.message
      a == m.attempt IN
  /\ c \in checked
  /\ m.verdict \in Failures
  /\ \/ ~Holds(a) /\ UNCHANGED dbVars
     \/ Holds(a) /\ TokenAccepted(c) /\ Failed(a, m.verdict = "retryable", m.token)
  /\ confirmed' = confirmed \cup {m}
  /\ UNCHANGED <<news, slots, deferred, callbacks, checked>>

\* PipelineResultApplier.apply for a callback that carries an answer.  A claim
\* that no longer holds, a spent token, a passed deadline, a moved news or a
\* malformed answer raises: the transaction is rolled back, the token included,
\* and the node gets 409 or 422.
CallbackApply(c) ==
  LET m == c.message
      a == m.attempt IN
  /\ c \in checked
  /\ m.verdict = "valid"
  /\ Holds(a) /\ TokenAccepted(c) /\ MatchesNews(a)
  /\ Applied(a, m.token)
  /\ confirmed' = confirmed \cup {m}
  /\ UNCHANGED <<news, slots, deferred, callbacks, checked>>

CallbackStep ==
  \/ \E m \in Message : SendCallback(m)
  \/ \E m \in callbacks : Lookup(m)
  \/ \E c \in checked : CallbackFail(c) \/ CallbackApply(c)

-----------------------------------------------------------------------------
(* Time and editors *)

\* The lease of a running job passes: now > lease_until.
LeaseExpires ==
  /\ job.lease = "live"
  /\ job' = [job EXCEPT !.lease = "expired"]
  /\ UNCHANGED <<attempts, news, slots, deferred, callbacks, checked, applied, confirmed>>

\* The retry delay is over: now >= available_at.
BecomesDue ==
  /\ ~job.due
  /\ job' = [job EXCEPT !.due = TRUE]
  /\ UNCHANGED <<attempts, news, slots, deferred, callbacks, checked, applied, confirmed>>

\* The callback deadline of an attempt passes: now > deadline_at.
DeadlinePasses(a) ==
  /\ attempts[a].status \in OpenStates
  /\ ~attempts[a].overdue
  /\ attempts' = [attempts EXCEPT ![a].overdue = TRUE]
  /\ UNCHANGED <<job, news, slots, deferred, callbacks, checked, applied, confirmed>>

\* An editor replaces the text, which makes a new version current.
Edit ==
  /\ news.version < MaxEdits
  /\ news' = [news EXCEPT !.version = news.version + 1]
  /\ UNCHANGED <<job, attempts, slots, deferred, callbacks, checked, applied, confirmed>>

\* Another pipeline run takes the news over from the one this job belongs to.
Supersede ==
  /\ ~news.superseded
  /\ news' = [news EXCEPT !.superseded = TRUE]
  /\ UNCHANGED <<job, attempts, slots, deferred, callbacks, checked, applied, confirmed>>

Next ==
  \/ \E s \in Slots : SlotStep(s) \/ Crash(s)
  \/ CallbackStep
  \/ LeaseExpires \/ BecomesDue
  \/ \E a \in Generations : DeadlinePasses(a)
  \/ Edit \/ Supersede

Spec == Init /\ [][Next]_vars

\* Slots poll for ever and every call of theirs is bounded by a time-out; time
\* goes on.  Nothing is assumed of the node, the network or the editors.
Fairness ==
  /\ \A s \in Slots : WF_vars(SlotStep(s))
  /\ WF_vars(LeaseExpires)
  /\ WF_vars(BecomesDue)
  /\ \A a \in Generations : WF_vars(DeadlinePasses(a))

FairSpec == Spec /\ Fairness

-----------------------------------------------------------------------------
(* Correctness *)

\* The job row and the attempt rows tell one story: at most one attempt is
\* open, it is the current one, and it is open exactly while the job is, in
\* the same state.  Claiming, failing, applying and marking write both tables.
OneOpenAttempt ==
  /\ \A a \in Generations :
       attempts[a].status \in OpenStates => a = job.current_attempt_id
  /\ job.status \in OpenStates =>
       job.current_attempt_id # NoAttempt /\ attempts[job.current_attempt_id].status = job.status
  /\ job.status \notin OpenStates =>
       \A a \in Generations : attempts[a].status \notin OpenStates

\* An external call may be repeated after a crash, its result may not: whatever
\* answers and callbacks race, the labels change for one attempt, the one the
\* job ends with, and only if the job succeeds.
AppliedOnce ==
  /\ \A r, q \in applied : r = q
  /\ \A r \in applied : r.attempt = job.current_attempt_id
  /\ applied # {} <=> job.status = "succeeded"

\* A late answer about a replaced text, or for a pipeline run that lost the
\* news, never reaches the labels.
AppliedToItsText == \A r \in applied : r.about = r.version /\ ~r.superseded

\* A token is spent together with the outcome its message announced, never
\* before and never for another outcome; so a redelivery cannot act again and a
\* callback that was rolled back can be repeated with the same token.
TokenSpentWithOutcome ==
  \A a \in Generations : attempts[a].token # NoToken =>
    \E m \in callbacks :
      /\ m.attempt = a /\ m.token = attempts[a].token
      /\ attempts[a].status = IF m.verdict = "valid" THEN "succeeded" ELSE "failed"

\* A node that is told its answer was applied, now or earlier, may rely on it:
\* the attempt succeeded with that very token.
ConfirmationsAreTrue ==
  \A m \in confirmed : m.verdict = "valid" =>
    attempts[m.attempt].status = "succeeded" /\ attempts[m.attempt].token = m.token

\* What the rows and the processes around them have to agree on for the above to
\* be preserved: attempts are numbered by the claims that made them, a lease runs
\* only while a slot may work, a delay only while the job waits for a slot, and
\* slots and calls refer to attempts and messages that exist.
Bookkeeping ==
  /\ job.generation = job.attempt_count + 1
  /\ job.current_attempt_id # NoAttempt => job.current_attempt_id = job.generation
  /\ \A a \in Generations : attempts[a].status = "absent" <=> a > job.generation
  /\ job.lease = "live" => job.status = "running"
  /\ ~job.due => job.status = "pending"
  /\ \A s \in Slots : slots[s].pc # "idle" => slots[s].attempt \in 2 .. job.generation
  /\ \A c \in checked : c.message \in callbacks

\* An ended job never moves again and a closed attempt keeps its outcome, no
\* matter which slot wakes up or which callback arrives afterwards.
EndIsFinal ==
  [][ /\ job.status \in EndStates => UNCHANGED <<job, applied>>
      /\ \A a \in Generations :
           attempts[a].status \notin OpenStates \cup {"absent"} =>
             /\ attempts'[a].status = attempts[a].status
             /\ attempts'[a].token = attempts[a].token ]_vars

\* The inductive invariant.
IInv ==
  /\ TypeOK /\ Bookkeeping /\ OneOpenAttempt /\ AppliedOnce
  /\ AppliedToItsText /\ TokenSpentWithOutcome /\ ConfirmationsAreTrue

\* However often slots crash or the node stays silent, the job ends: its parent
\* pipeline job waits for that.
JobEnds == <>(job.status \in EndStates)

\* Seen from outside, the job is the retried job of RetriedJob.
Promise == INSTANCE RetriedJob WITH
  outcome <- IF job.status \in EndStates THEN job.status ELSE "open",
  tries <- job.attempt_count,
  effects <- Cardinality(applied)

\* Every step of the job is a step its callers were promised, or invisible.
KeepsPromise == Promise!Spec

\* The promise with its liveness, under the fairness of the slots.
KeepsFairPromise == Promise!FairSpec
=============================================================================
