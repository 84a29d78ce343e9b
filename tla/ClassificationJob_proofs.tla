----------------------- MODULE ClassificationJob_proofs -----------------------
(***************************************************************************)
(* ClassificationJob keeps its invariants, for any number of slots,        *)
(* tokens, attempts and edits.  IInv is inductive: one lemma per group of  *)
(* actions, NextKeepsIInv puts them together.  The fence Holds(a) is what  *)
(* makes it work: HeldAttempt says that a transaction past it acts on the  *)
(* one open attempt of an open job, so FailedRows and AppliedRows close    *)
(* both rows together, and ClosedTokens that no token spent earlier moves. *)
(* The refinement to RetriedJob then needs the invariant only to know that *)
(* nothing was applied before.                                             *)
(*                                                                         *)
(* At the other end of the wire, NodeInv is an invariant of ClassifierNode *)
(* for any requests, settings, lifetimes and offsets of the clock: a node  *)
(* remembers what it classified until the signature has expired, and what  *)
(* it posts is dated so that main accepts it while it may arrive.  Behind  *)
(* it, about Proposals: main stores what any model meant by any answer.    *)
(***************************************************************************)
EXTENDS ClassificationJob, MCNode, SequenceTheorems, Inductions

USE DEF TriesLeft, JobAfterFailure

\* A freshly submitted job satisfies the inductive invariant.
LEMMA InitIInv == Init => IInv
<1> SUFFICES ASSUME Init PROVE IInv
  OBVIOUS
<1> USE JobAssumption
<1>1. TypeOK
  <2>1. job \in Job
    BY DEF Init, Job, Generations, NoAttempt
  <2>2. NewAttempt(0) \in Attempt /\ [NewAttempt(0) EXCEPT !.status = "absent"] \in Attempt
    <3>1. 0 \in 0 .. MaxEdits
      OBVIOUS
    <3> QED BY <3>1 DEF NewAttempt, Attempt, OpenStates
  <2>3. attempts \in [Generations -> Attempt]
    BY <2>2 DEF Init
  <2>4. slots \in [Slots -> Slot]
    BY DEF Init, IdleSlot, SlotAt, Slot, Verdicts, Failures
  <2> QED BY <2>1, <2>3, <2>4 DEF Init, TypeOK
<1>2. Bookkeeping
  BY DEF Init, Bookkeeping, Generations, NoAttempt, NewAttempt, IdleSlot, SlotAt
<1>3. OneOpenAttempt /\ AppliedOnce /\ AppliedToItsText
  BY DEF Init, OneOpenAttempt, AppliedOnce, AppliedToItsText, Generations, NewAttempt, OpenStates
<1>4. TokenSpentWithOutcome /\ ConfirmationsAreTrue
  BY DEF Init, TokenSpentWithOutcome, ConfirmationsAreTrue, Generations, NewAttempt
<1> QED BY <1>1, <1>2, <1>3, <1>4 DEF IInv

\* The claim query numbers the new attempt and times out the one it found.
LEMMA ClaimKeepsIInv ==
  ASSUME IInv, NEW s \in Slots, Claim(s)
  PROVE  IInv'
<1> USE JobAssumption DEF IInv
<1> DEFINE fresh == job.generation + 1
<1>1. fresh \in Generations /\ attempts[fresh].status = "absent"
  BY DEF Claim, TypeOK, Bookkeeping, Generations, Job
<1>2. PreviousTimedOut \in [Generations -> Attempt]
  BY DEF PreviousTimedOut, TypeOK, Attempt
<1>0. NewAttempt(news.version) \in Attempt
  BY DEF NewAttempt, Attempt, TypeOK, OpenStates
<1>3. TypeOK'
  <2>1. job' \in Job
    <3>1. /\ fresh \in 1 .. (MaxAttempts + 1)
          /\ job.attempt_count + 1 \in 0 .. MaxAttempts
      BY <1>1 DEF Claim, TypeOK, Bookkeeping, Job, Generations
    <3> HIDE DEF fresh
    <3> QED BY <1>1, <3>1 DEF Claim, TypeOK, Job, OpenStates, fresh
  <2>2. attempts' \in [Generations -> Attempt]
    BY <1>1, <1>2, <1>0 DEF Claim
  <2>3. slots' \in [Slots -> Slot]
    <3>1. SlotAt("claimed", fresh) \in Slot
      BY <1>1 DEF SlotAt, Slot, Verdicts, Failures
    <3> QED BY <3>1 DEF Claim, TypeOK
  <2> QED BY <2>1, <2>2, <2>3 DEF Claim, TypeOK
<1>4. /\ job'.generation = fresh /\ job'.current_attempt_id = fresh
      /\ job'.attempt_count = fresh - 1 /\ job'.status = "running"
      /\ job'.due /\ job'.lease = "live"
  BY DEF Claim, TypeOK, Bookkeeping, Job, Claimable
<1>5. /\ attempts'[fresh] = NewAttempt(news.version)
      /\ \A a \in Generations \ {fresh} : attempts'[a] = PreviousTimedOut[a]
  BY <1>1, <1>2 DEF Claim
<1>6. \A a \in Generations :
        /\ PreviousTimedOut[a].token = attempts[a].token
        /\ PreviousTimedOut[a].status \notin OpenStates
        /\ PreviousTimedOut[a].status = "absent" <=> attempts[a].status = "absent"
        /\ attempts[a].status \notin OpenStates =>
             PreviousTimedOut[a].status = attempts[a].status
  BY DEF PreviousTimedOut, TypeOK, OpenStates, OneOpenAttempt, Attempt
<1>7. Bookkeeping'
  <2>1. \A a \in Generations : attempts'[a].status = "absent" <=> a > fresh
    BY <1>1, <1>5, <1>6 DEF Bookkeeping, Generations, NewAttempt, TypeOK, Job
  <2>2. \A p \in Slots : slots'[p].pc # "idle" => slots'[p].attempt \in 2 .. fresh
    BY <1>1 DEF Claim, TypeOK, Bookkeeping, IdleSlot, SlotAt, Slot, Job, Generations
  <2> QED BY <1>1, <1>4, <2>1, <2>2 DEF Bookkeeping, Claim, Generations
<1>8. OneOpenAttempt'
  BY <1>1, <1>4, <1>5, <1>6 DEF OneOpenAttempt, NewAttempt, OpenStates, NoAttempt, Generations
<1>9. AppliedOnce' /\ AppliedToItsText'
  BY <1>4 DEF Claim, Claimable, AppliedOnce, AppliedToItsText, OpenStates
<1>10. TokenSpentWithOutcome'
  BY <1>5, <1>6, OneOpenAttempt DEF Claim, TokenSpentWithOutcome, NewAttempt, OpenStates
<1>11. ConfirmationsAreTrue'
  <2> SUFFICES ASSUME NEW m \in confirmed, m.verdict = "valid"
               PROVE  attempts'[m.attempt].status = "succeeded" /\ attempts'[m.attempt].token = m.token
    BY DEF ConfirmationsAreTrue, Claim
  <2>1. m.attempt \in Generations /\ attempts[m.attempt].status = "succeeded" /\ attempts[m.attempt].token = m.token
    BY DEF ConfirmationsAreTrue, TypeOK, Message
  <2> QED BY <2>1, <1>1, <1>5, <1>6 DEF OpenStates
<1> QED BY <1>3, <1>7, <1>8, <1>9, <1>10, <1>11

\* Claiming a job with no try left dead-letters it and its open attempt.
LEMMA ExhaustKeepsIInv ==
  ASSUME IInv, NEW s \in Slots, Exhaust(s)
  PROVE  IInv'
<1> USE JobAssumption DEF IInv
<1>1. PreviousTimedOut \in [Generations -> Attempt]
  BY DEF PreviousTimedOut, TypeOK, Attempt
<1>2. \A a \in Generations :
        /\ PreviousTimedOut[a].token = attempts[a].token
        /\ PreviousTimedOut[a].status \notin OpenStates
        /\ PreviousTimedOut[a].status = "absent" <=> attempts[a].status = "absent"
        /\ attempts[a].status \notin OpenStates =>
             PreviousTimedOut[a].status = attempts[a].status
  BY DEF PreviousTimedOut, TypeOK, OpenStates, OneOpenAttempt, Attempt
<1>3. TypeOK'
  BY <1>1 DEF Exhaust, TypeOK, Job, EndStates
<1>4. Bookkeeping'
  BY <1>2 DEF Exhaust, Bookkeeping, TypeOK, Job, Claimable
<1>5. OneOpenAttempt' /\ AppliedOnce' /\ AppliedToItsText'
  BY <1>2 DEF Exhaust, Claimable, OneOpenAttempt, AppliedOnce, AppliedToItsText, TypeOK, Job, OpenStates
<1>6. TokenSpentWithOutcome'
  BY <1>2 DEF Exhaust, TokenSpentWithOutcome, OneOpenAttempt, OpenStates
<1>7. ConfirmationsAreTrue'
  BY <1>2 DEF Exhaust, ConfirmationsAreTrue, TypeOK, Message, OpenStates
<1> QED BY <1>3, <1>4, <1>5, <1>6, <1>7

\* Steps of a slot that touch neither the database nor a message.
LEMMA SlotOnlyKeepsIInv ==
  ASSUME IInv, NEW s \in Slots,
         Prepare(s) \/ Dispatch(s) \/ Receive(s) \/ Crash(s)
  PROVE  IInv'
<1> USE JobAssumption DEF IInv
<1>1. /\ slots' \in [Slots -> Slot]
      /\ \A p \in Slots : slots'[p].pc # "idle" =>
           slots[p].pc # "idle" /\ slots'[p].attempt = slots[p].attempt
      /\ deferred' \subseteq Generations
  <2>1. CASE Prepare(s)
    <3>1. CASE Advance(s, "prepared")
      BY <2>1, <3>1 DEF Prepare, Advance, TypeOK, Slot
    <3>2. CASE ToFail(s, "retryable")
      BY <2>1, <3>2 DEF Prepare, ToFail, TypeOK, Slot, Verdicts, Failures
    <3>3. CASE Release(s)
      BY <2>1, <3>3 DEF Prepare, Release, TypeOK, Slot, IdleSlot, SlotAt, Verdicts, Failures
    <3> QED BY <2>1, <3>1, <3>2, <3>3 DEF Prepare
  <2>2. CASE Dispatch(s)
    <3>1. slots[s].attempt \in Generations
      BY <2>2 DEF Dispatch, TypeOK, Bookkeeping, Generations, Job
    <3>2. deferred' \subseteq Generations
      BY <2>2, <3>1 DEF Dispatch, TypeOK
    <3>3. slots' = [slots EXCEPT ![s].pc = "awaiting"] /\ slots[s].pc # "idle"
      BY <2>2 DEF Dispatch, Advance
    <3> QED BY <3>2, <3>3 DEF TypeOK, Slot
  <2>3. CASE Receive(s)
    BY <2>3 DEF Receive, Advance, ToFail, TypeOK, Slot, Verdicts, Failures
  <2>4. CASE Crash(s)
    BY <2>4 DEF Crash, Release, TypeOK, Slot, IdleSlot, SlotAt, Verdicts, Failures
  <2> QED BY <2>1, <2>2, <2>3, <2>4
<1>2. UNCHANGED <<job, attempts, news, callbacks, checked, applied, confirmed>>
  BY DEF Prepare, Dispatch, Receive, Crash
<1>3. TypeOK'
  BY <1>1, <1>2 DEF TypeOK
<1>4. Bookkeeping'
  BY <1>1, <1>2 DEF Bookkeeping
<1>5. OneOpenAttempt' /\ AppliedOnce' /\ AppliedToItsText'
  BY <1>2 DEF OneOpenAttempt, AppliedOnce, AppliedToItsText
<1>6. TokenSpentWithOutcome' /\ ConfirmationsAreTrue'
  BY <1>2 DEF TokenSpentWithOutcome, ConfirmationsAreTrue
<1> QED BY <1>3, <1>4, <1>5, <1>6

\* A slot that returns to idle refers to no attempt any more.
LEMMA ReleaseKeepsSlots ==
  ASSUME TypeOK, Bookkeeping, NEW s \in Slots, Release(s), job'.generation = job.generation
  PROVE  /\ slots' \in [Slots -> Slot]
         /\ \A p \in Slots : slots'[p].pc # "idle" => slots'[p].attempt \in 2 .. job'.generation
BY DEF Release, TypeOK, Bookkeeping, Slot, IdleSlot, SlotAt, Verdicts, Failures, NoAttempt

\* What the database looks like after a closing transaction, whoever ran it.
RowsAgree ==
  /\ job \in Job /\ attempts \in [Generations -> Attempt] /\ applied \subseteq AppliedAnswer
  /\ job.generation = job.attempt_count + 1
  /\ job.current_attempt_id # NoAttempt => job.current_attempt_id = job.generation
  /\ \A a \in Generations : attempts[a].status = "absent" <=> a > job.generation
  /\ job.lease = "live" => job.status = "running"
  /\ ~job.due => job.status = "pending"

\* The invariant implies that part of it.
LEMMA RowsAgreeInIInv == IInv => RowsAgree
BY DEF IInv, TypeOK, Bookkeeping, RowsAgree

\* Past the fence of a transaction, its attempt is the one open attempt.
LEMMA HeldAttempt ==
  ASSUME IInv, NEW a, Holds(a)
  PROVE  /\ a \in Generations /\ a = job.current_attempt_id /\ a = job.generation
         /\ attempts[a].status = job.status /\ attempts[a].token = NoToken
         /\ applied = {}
<1>1. a \in Generations /\ a = job.current_attempt_id /\ a = job.generation
  BY DEF IInv, TypeOK, Job, Holds, Matches, OneOpenAttempt
<1>2. attempts[a].status = job.status
  BY <1>1 DEF IInv, OneOpenAttempt, Holds, Matches
<1>3. attempts[a].token = NoToken
  BY <1>1 DEF IInv, TokenSpentWithOutcome, Holds, OpenStates
<1>4. applied = {}
  BY <1>1 DEF IInv, AppliedOnce, Holds, Matches, OpenStates
<1> QED BY <1>1, <1>2, <1>3, <1>4

\* PipelineFinalizer.fail leaves the rows of job and attempt in agreement.
LEMMA FailedRows ==
  ASSUME IInv, NEW a, Holds(a), NEW retryable \in BOOLEAN, NEW token \in Tokens \cup {NoToken},
         Failed(a, retryable, token)
  PROVE  /\ RowsAgree' /\ OneOpenAttempt' /\ AppliedOnce'
         /\ job'.generation = job.generation
         /\ attempts'[a].status = "failed" /\ attempts'[a].token = token
         /\ \A b \in Generations \ {a} : attempts'[b] = attempts[b]
<1> USE HeldAttempt DEF IInv
<1>1. job' \in Job
  BY DEF Failed, TypeOK, Job, EndStates
<1>2. attempts' \in [Generations -> Attempt]
  BY DEF Failed, TypeOK, Attempt
<1>3. /\ attempts'[a].status = "failed" /\ attempts'[a].token = token
      /\ \A b \in Generations \ {a} : attempts'[b] = attempts[b]
  BY DEF Failed, TypeOK, Attempt
<1>4. /\ UNCHANGED <<job.generation, job.attempt_count, job.current_attempt_id>>
      /\ job'.status \in {"dead_letter", "pending"} /\ job'.lease = "none"
      /\ ~job'.due => job'.status = "pending"
  BY DEF Failed, TypeOK, Job, Bookkeeping, Holds, Matches, OpenStates
<1>5. RowsAgree'
  BY <1>1, <1>2, <1>3, <1>4 DEF Failed, TypeOK, Bookkeeping, RowsAgree, Holds, OpenStates
<1>6. OneOpenAttempt'
  BY <1>3, <1>4 DEF OneOpenAttempt, OpenStates
<1>7. AppliedOnce'
  BY <1>4 DEF Failed, AppliedOnce
<1> QED BY <1>3, <1>4, <1>5, <1>6, <1>7

\* PipelineResultApplier.apply leaves the rows of job and attempt in agreement.
LEMMA AppliedRows ==
  ASSUME IInv, NEW a, Holds(a), MatchesNews(a), NEW token \in Tokens \cup {NoToken},
         Applied(a, token), UNCHANGED news
  PROVE  /\ RowsAgree' /\ OneOpenAttempt' /\ AppliedOnce' /\ AppliedToItsText'
         /\ job'.generation = job.generation
         /\ attempts'[a].status = "succeeded" /\ attempts'[a].token = token
         /\ \A b \in Generations \ {a} : attempts'[b] = attempts[b]
<1> USE HeldAttempt DEF IInv
<1> DEFINE answer == [attempt |-> a, about |-> attempts[a].version,
                      version |-> news.version, superseded |-> news.superseded]
<1>1. job' \in Job
  BY DEF Applied, TypeOK, Job, EndStates
<1>2. attempts' \in [Generations -> Attempt]
  BY DEF Applied, TypeOK, Attempt
<1>3. /\ attempts'[a].status = "succeeded" /\ attempts'[a].token = token
      /\ \A b \in Generations \ {a} : attempts'[b] = attempts[b]
  BY DEF Applied, TypeOK, Attempt
<1>4. /\ UNCHANGED <<job.generation, job.attempt_count, job.current_attempt_id>>
      /\ job'.status = "succeeded" /\ job'.lease = "none" /\ job'.due
  BY DEF Applied, TypeOK, Job, Bookkeeping, Holds, Matches, OpenStates
<1>5. applied' = {answer} /\ answer \in AppliedAnswer
  BY DEF Applied, AppliedAnswer, TypeOK, Attempt
<1>6. RowsAgree'
  BY <1>1, <1>2, <1>3, <1>4, <1>5 DEF TypeOK, Bookkeeping, RowsAgree, Holds, OpenStates
<1>7. OneOpenAttempt'
  BY <1>3, <1>4 DEF OneOpenAttempt, OpenStates
<1>8. AppliedOnce' /\ AppliedToItsText'
  BY <1>4, <1>5 DEF AppliedOnce, AppliedToItsText, MatchesNews
<1> QED BY <1>3, <1>4, <1>6, <1>7, <1>8

\* The rest of the invariant after a closing transaction: closed attempts keep
\* their tokens, and the attempt closed now has the token its message carried.
LEMMA ClosedTokens ==
  ASSUME IInv, NEW a, Holds(a),
         \A b \in Generations \ {a} : attempts'[b] = attempts[b],
         UNCHANGED callbacks,
         \/ attempts'[a].token = NoToken
         \/ \E m \in callbacks :
              /\ m.attempt = a /\ m.token = attempts'[a].token
              /\ attempts'[a].status = IF m.verdict = "valid" THEN "succeeded" ELSE "failed"
  PROVE  /\ TokenSpentWithOutcome'
         /\ \A m \in confirmed : m.verdict = "valid" =>
              attempts'[m.attempt].status = "succeeded" /\ attempts'[m.attempt].token = m.token
<1> USE HeldAttempt DEF IInv
<1>1. TokenSpentWithOutcome'
  BY DEF TokenSpentWithOutcome
<1>2. ASSUME NEW m \in confirmed, m.verdict = "valid"
      PROVE  attempts'[m.attempt].status = "succeeded" /\ attempts'[m.attempt].token = m.token
  <2>1. m.attempt \in Generations /\ m.attempt # a
    BY <1>2 DEF ConfirmationsAreTrue, TypeOK, Message, Holds, OpenStates
  <2> QED BY <1>2, <2>1 DEF ConfirmationsAreTrue
<1> QED BY <1>1, <1>2

\* mark_waiting keeps the invariant, whether or not its fence holds.
LEMMA MarkWaitingKeepsIInv ==
  ASSUME IInv, NEW s \in Slots, MarkWaiting(s)
  PROVE  IInv'
<1> DEFINE a == slots[s].attempt
<1>1. CASE ~Holds(a)
  <2>1. job' = job /\ attempts' = attempts /\ Release(s)
    BY <1>1 DEF MarkWaiting
  <2>2. slots' \in [Slots -> Slot] /\ \A p \in Slots : slots'[p].pc # "idle" => slots'[p].attempt \in 2 .. job'.generation
    BY <2>1, ReleaseKeepsSlots DEF IInv
  <2> QED
    BY <2>1, <2>2 DEF MarkWaiting, IInv, TypeOK, Bookkeeping, OneOpenAttempt, AppliedOnce,
       AppliedToItsText, TokenSpentWithOutcome, ConfirmationsAreTrue
<1>2. CASE Holds(a)
  <2> USE HeldAttempt, <1>2 DEF IInv
  <2> HIDE DEF a
  <2>1. /\ attempts' = [attempts EXCEPT ![a].status = "waiting_callback"]
        /\ job' = [job EXCEPT !.status = "waiting_callback", !.lease = "deadline"]
        /\ Release(s)
        /\ UNCHANGED <<news, deferred, callbacks, checked, applied, confirmed>>
    BY DEF MarkWaiting, a
  <2>2. /\ attempts'[a].status = "waiting_callback" /\ attempts'[a].token = attempts[a].token
        /\ \A b \in Generations \ {a} : attempts'[b] = attempts[b]
    BY <2>1 DEF TypeOK, Attempt
  <2>3. /\ UNCHANGED <<job.generation, job.attempt_count, job.current_attempt_id, job.due>>
        /\ job'.status = "waiting_callback" /\ job'.lease = "deadline"
    BY <2>1 DEF TypeOK, Job
  <2>4. slots' \in [Slots -> Slot] /\ \A p \in Slots : slots'[p].pc # "idle" => slots'[p].attempt \in 2 .. job'.generation
    BY <2>1, <2>3, ReleaseKeepsSlots
  <2>5. TypeOK'
    <3>1. job' \in Job
      BY <2>1 DEF TypeOK, Job, OpenStates
    <3>2. attempts' \in [Generations -> Attempt]
      BY <2>1 DEF TypeOK, Attempt, OpenStates
    <3> QED BY <2>1, <2>4, <3>1, <3>2 DEF TypeOK
  <2>6. Bookkeeping'
    BY <2>1, <2>2, <2>3, <2>4 DEF Bookkeeping, Holds, Matches, OpenStates
  <2>7. OneOpenAttempt' /\ AppliedOnce' /\ AppliedToItsText'
    BY <2>1, <2>2, <2>3 DEF OneOpenAttempt, AppliedOnce, AppliedToItsText, OpenStates, Holds, Matches
  <2>8. TokenSpentWithOutcome' /\ ConfirmationsAreTrue'
    BY <2>1, <2>2, ClosedTokens DEF ConfirmationsAreTrue
  <2> QED BY <2>5, <2>6, <2>7, <2>8
<1> QED BY <1>1, <1>2

\* So does applying the answer of an HTTP response.
LEMMA ApplyAnswerKeepsIInv ==
  ASSUME IInv, NEW s \in Slots, ApplyAnswer(s)
  PROVE  IInv'
<1> DEFINE a == slots[s].attempt
<1> USE DEF IInv
<1>1. CASE UNCHANGED dbVars
  <2>1. job' = job /\ attempts' = attempts /\ applied' = applied
    BY <1>1 DEF dbVars
  <2>2. slots' \in [Slots -> Slot] /\ \A p \in Slots : slots'[p].pc # "idle" => slots'[p].attempt \in 2 .. job'.generation
    <3>1. CASE Release(s)
      BY <2>1, <3>1, ReleaseKeepsSlots
    <3>2. CASE ToFail(s, "retryable") /\ slots[s].pc = "answered"
      BY <2>1, <3>2 DEF ToFail, TypeOK, Bookkeeping, Slot, Verdicts, Failures
    <3> QED BY <3>1, <3>2 DEF ApplyAnswer
  <2> QED
    BY <2>1, <2>2 DEF ApplyAnswer, TypeOK, Bookkeeping, OneOpenAttempt, AppliedOnce,
       AppliedToItsText, TokenSpentWithOutcome, ConfirmationsAreTrue
<1>2. CASE ~UNCHANGED dbVars
  <2> HIDE DEF a
  <2>1. /\ Holds(a) /\ MatchesNews(a) /\ Applied(a, attempts[a].token) /\ Release(s)
        /\ UNCHANGED <<news, deferred, callbacks, checked, confirmed>>
    BY <1>2 DEF ApplyAnswer, a
  <2> USE HeldAttempt, <2>1
  <2>2. attempts[a].token = NoToken
    OBVIOUS
  <2>3. /\ RowsAgree' /\ OneOpenAttempt' /\ AppliedOnce' /\ AppliedToItsText'
        /\ job'.generation = job.generation /\ attempts'[a].token = NoToken
        /\ \A b \in Generations \ {a} : attempts'[b] = attempts[b]
    BY <2>2, AppliedRows
  <2>4. slots' \in [Slots -> Slot] /\ \A p \in Slots : slots'[p].pc # "idle" => slots'[p].attempt \in 2 .. job'.generation
    BY <2>3, ReleaseKeepsSlots
  <2>5. TokenSpentWithOutcome' /\ ConfirmationsAreTrue'
    BY <2>3, ClosedTokens DEF ConfirmationsAreTrue
  <2>6. TypeOK' /\ Bookkeeping'
    BY <2>3, <2>4 DEF RowsAgree, TypeOK, Bookkeeping
  <2> QED BY <2>3, <2>5, <2>6
<1> QED BY <1>1, <1>2

\* So does a failure recorded by a slot.
LEMMA FailKeepsIInv ==
  ASSUME IInv, NEW s \in Slots, Fail(s)
  PROVE  IInv'
<1> DEFINE a == slots[s].attempt
<1> USE DEF IInv
<1>1. CASE UNCHANGED dbVars
  <2>1. job' = job /\ attempts' = attempts /\ applied' = applied /\ Release(s)
    BY <1>1 DEF dbVars, Fail
  <2>2. slots' \in [Slots -> Slot] /\ \A p \in Slots : slots'[p].pc # "idle" => slots'[p].attempt \in 2 .. job'.generation
    BY <2>1, ReleaseKeepsSlots
  <2> QED
    BY <2>1, <2>2 DEF Fail, TypeOK, Bookkeeping, OneOpenAttempt, AppliedOnce,
       AppliedToItsText, TokenSpentWithOutcome, ConfirmationsAreTrue
<1>2. CASE ~UNCHANGED dbVars
  <2> HIDE DEF a
  <2>1. /\ Holds(a) /\ Failed(a, slots[s].verdict = "retryable", attempts[a].token) /\ Release(s)
        /\ UNCHANGED <<news, deferred, callbacks, checked, confirmed>>
    BY <1>2 DEF Fail, a
  <2> USE HeldAttempt, <2>1
  <2>2. attempts[a].token = NoToken /\ (slots[s].verdict = "retryable") \in BOOLEAN
    OBVIOUS
  <2>3. /\ RowsAgree' /\ OneOpenAttempt' /\ AppliedOnce'
        /\ job'.generation = job.generation /\ attempts'[a].token = NoToken
        /\ \A b \in Generations \ {a} : attempts'[b] = attempts[b]
    BY <2>2, FailedRows
  <2>4. slots' \in [Slots -> Slot] /\ \A p \in Slots : slots'[p].pc # "idle" => slots'[p].attempt \in 2 .. job'.generation
    BY <2>3, ReleaseKeepsSlots
  <2>5. TokenSpentWithOutcome' /\ ConfirmationsAreTrue'
    BY <2>3, ClosedTokens DEF ConfirmationsAreTrue
  <2>6. TypeOK' /\ Bookkeeping' /\ AppliedToItsText'
    BY <2>3, <2>4 DEF RowsAgree, TypeOK, Bookkeeping, AppliedToItsText, Failed
  <2> QED BY <2>3, <2>5, <2>6
<1> QED BY <1>1, <1>2

\* So does a failure announced by a callback, fenced off or not.
LEMMA CallbackFailKeepsIInv ==
  ASSUME IInv, NEW c \in checked, CallbackFail(c)
  PROVE  IInv'
<1> DEFINE m == c.message
           a == m.attempt
<1> USE DEF IInv
<1>0. /\ m \in callbacks /\ a \in Generations /\ m.token \in Tokens /\ m.verdict \in Failures
      /\ confirmed' = confirmed \cup {m} /\ m.verdict # "valid"
      /\ UNCHANGED <<news, slots, deferred, callbacks, checked>>
  BY DEF CallbackFail, TypeOK, Bookkeeping, Message, Failures
<1>1. CASE UNCHANGED dbVars
  <2>1. job' = job /\ attempts' = attempts /\ applied' = applied
    BY <1>1 DEF dbVars
  <2> QED
    BY <1>0, <2>1 DEF TypeOK, Bookkeeping, OneOpenAttempt, AppliedOnce,
       AppliedToItsText, TokenSpentWithOutcome, ConfirmationsAreTrue
<1>2. CASE ~UNCHANGED dbVars
  <2>1. Holds(a) /\ Failed(a, m.verdict = "retryable", m.token)
    BY <1>2 DEF CallbackFail
  <2> HIDE DEF a, m
  <2> USE HeldAttempt, <1>0, <2>1
  <2>2. (m.verdict = "retryable") \in BOOLEAN
    OBVIOUS
  <2>3. /\ RowsAgree' /\ OneOpenAttempt' /\ AppliedOnce'
        /\ job'.generation = job.generation
        /\ attempts'[a].status = "failed" /\ attempts'[a].token = m.token
        /\ \A b \in Generations \ {a} : attempts'[b] = attempts[b]
    BY <2>2, FailedRows
  <2>4. /\ TokenSpentWithOutcome'
        /\ \A n \in confirmed : n.verdict = "valid" =>
             attempts'[n.attempt].status = "succeeded" /\ attempts'[n.attempt].token = n.token
    BY <2>3, ClosedTokens DEF a
  <2>5. ConfirmationsAreTrue'
    BY <2>4 DEF ConfirmationsAreTrue
  <2>6. TypeOK' /\ Bookkeeping' /\ AppliedToItsText'
    BY <2>3 DEF RowsAgree, TypeOK, Bookkeeping, AppliedToItsText, Failed
  <2> QED BY <2>3, <2>4, <2>5, <2>6
<1> QED BY <1>1, <1>2

\* So does an answer announced by a callback.
LEMMA CallbackApplyKeepsIInv ==
  ASSUME IInv, NEW c \in checked, CallbackApply(c)
  PROVE  IInv'
<1> DEFINE m == c.message
           a == m.attempt
<1> USE DEF IInv
<1>1. /\ m \in callbacks /\ a \in Generations /\ m.token \in Tokens /\ m.verdict = "valid"
      /\ confirmed' = confirmed \cup {m}
      /\ Holds(a) /\ MatchesNews(a) /\ Applied(a, m.token)
      /\ UNCHANGED <<news, slots, deferred, callbacks, checked>>
  BY DEF CallbackApply, TypeOK, Bookkeeping, Message
<1>2. a = m.attempt
  OBVIOUS
<1> HIDE DEF a, m
<1> USE HeldAttempt, <1>1
<1>3. /\ RowsAgree' /\ OneOpenAttempt' /\ AppliedOnce' /\ AppliedToItsText'
      /\ job'.generation = job.generation
      /\ attempts'[a].status = "succeeded" /\ attempts'[a].token = m.token
      /\ \A b \in Generations \ {a} : attempts'[b] = attempts[b]
  BY AppliedRows
<1>4. /\ TokenSpentWithOutcome'
      /\ \A n \in confirmed : n.verdict = "valid" =>
           attempts'[n.attempt].status = "succeeded" /\ attempts'[n.attempt].token = n.token
  BY <1>2, <1>3, ClosedTokens
<1>5. ConfirmationsAreTrue'
  BY <1>2, <1>3, <1>4 DEF ConfirmationsAreTrue
<1>6. TypeOK' /\ Bookkeeping'
  BY <1>3 DEF RowsAgree, TypeOK, Bookkeeping
<1> QED BY <1>3, <1>4, <1>5, <1>6

\* A message sent with a fresh token disturbs nothing.
LEMMA SendCallbackKeepsIInv ==
  ASSUME IInv, NEW m \in Message, SendCallback(m)
  PROVE  IInv'
BY DEF SendCallback, IInv, TypeOK, Bookkeeping, OneOpenAttempt, AppliedOnce,
   AppliedToItsText, TokenSpentWithOutcome, ConfirmationsAreTrue

\* The unlocked lookup of a callback confirms only what is in the rows.
LEMMA LookupKeepsIInv ==
  ASSUME IInv, NEW m \in callbacks, Lookup(m)
  PROVE  IInv'
<1> USE DEF IInv
<1>1. UNCHANGED <<job, attempts, news, slots, deferred, callbacks, applied>>
  BY DEF Lookup
<1>2. m \in Message /\ m.attempt \in Generations
  BY DEF TypeOK, Message
<1>3. \/ checked' = checked
      \/ checked' = checked \cup {[message |-> m, late |-> attempts[m.attempt].overdue]}
  BY DEF Lookup
<1>4. \/ confirmed' = confirmed
      \/ /\ confirmed' = confirmed \cup {m}
         /\ attempts[m.attempt].token = m.token /\ attempts[m.attempt].status = "succeeded"
  BY DEF Lookup
<1>5. TypeOK'
  BY <1>1, <1>2, <1>3, <1>4 DEF TypeOK, Attempt
<1>6. Bookkeeping'
  BY <1>1, <1>3 DEF Bookkeeping
<1>7. ConfirmationsAreTrue'
  BY <1>1, <1>4 DEF ConfirmationsAreTrue
<1> QED
  BY <1>1, <1>5, <1>6, <1>7 DEF OneOpenAttempt, AppliedOnce, AppliedToItsText, TokenSpentWithOutcome

\* Clocks and editors: an edit never reaches back to what was applied.
LEMMA EnvironmentKeepsIInv ==
  ASSUME IInv,
         LeaseExpires \/ BecomesDue \/ Edit \/ Supersede \/ \E a \in Generations : DeadlinePasses(a)
  PROVE  IInv'
<1> USE JobAssumption DEF IInv
<1>1. CASE LeaseExpires
  <2>1. job' \in Job /\ UNCHANGED <<job.status, job.generation, job.attempt_count, job.current_attempt_id, job.due>>
    BY <1>1 DEF LeaseExpires, TypeOK, Job
  <2>2. job'.lease = "expired"
    BY <1>1 DEF LeaseExpires, TypeOK, Job
  <2>3. UNCHANGED <<attempts, news, slots, deferred, callbacks, checked, applied, confirmed>>
    BY <1>1 DEF LeaseExpires
  <2>4. TypeOK' /\ Bookkeeping'
    BY <1>1, <2>1, <2>2, <2>3 DEF LeaseExpires, TypeOK, Bookkeeping
  <2>5. OneOpenAttempt' /\ AppliedOnce' /\ AppliedToItsText'
    BY <2>1, <2>3 DEF OneOpenAttempt, AppliedOnce, AppliedToItsText
  <2>6. TokenSpentWithOutcome' /\ ConfirmationsAreTrue'
    BY <2>3 DEF TokenSpentWithOutcome, ConfirmationsAreTrue
  <2> QED BY <2>4, <2>5, <2>6
<1>2. CASE BecomesDue
  <2>1. job' \in Job /\ UNCHANGED <<job.status, job.generation, job.attempt_count, job.current_attempt_id, job.lease>>
    BY <1>2 DEF BecomesDue, TypeOK, Job
  <2>2. job'.due
    BY <1>2 DEF BecomesDue, TypeOK, Job
  <2>3. UNCHANGED <<attempts, news, slots, deferred, callbacks, checked, applied, confirmed>>
    BY <1>2 DEF BecomesDue
  <2>4. TypeOK' /\ Bookkeeping'
    BY <1>2, <2>1, <2>2, <2>3 DEF BecomesDue, TypeOK, Bookkeeping
  <2>5. OneOpenAttempt' /\ AppliedOnce' /\ AppliedToItsText'
    BY <2>1, <2>3 DEF OneOpenAttempt, AppliedOnce, AppliedToItsText
  <2>6. TokenSpentWithOutcome' /\ ConfirmationsAreTrue'
    BY <2>3 DEF TokenSpentWithOutcome, ConfirmationsAreTrue
  <2> QED BY <2>4, <2>5, <2>6
<1>3. CASE Edit \/ Supersede
  <2>1. news' \in [version : 0 .. MaxEdits, superseded : BOOLEAN]
    <3>1. CASE Edit
      <4>1. news.version + 1 \in 0 .. MaxEdits
        BY <3>1 DEF Edit, TypeOK
      <4> QED BY <3>1, <4>1 DEF Edit, TypeOK
    <3>2. CASE Supersede
      BY <3>2 DEF Supersede, TypeOK
    <3> QED BY <1>3, <3>1, <3>2
  <2>2. UNCHANGED <<job, attempts, slots, deferred, callbacks, checked, applied, confirmed>>
    BY <1>3 DEF Edit, Supersede
  <2>3. TypeOK' /\ Bookkeeping' /\ OneOpenAttempt'
    BY <2>1, <2>2 DEF TypeOK, Bookkeeping, OneOpenAttempt
  <2>4. AppliedOnce' /\ AppliedToItsText'
    BY <2>2 DEF AppliedOnce, AppliedToItsText
  <2>5. TokenSpentWithOutcome' /\ ConfirmationsAreTrue'
    BY <2>2 DEF TokenSpentWithOutcome, ConfirmationsAreTrue
  <2> QED BY <2>3, <2>4, <2>5
<1>4. CASE \E a \in Generations : DeadlinePasses(a)
  <2> PICK a \in Generations : DeadlinePasses(a)
    BY <1>4
  <2>1. attempts' \in [Generations -> Attempt]
    <3>1. [attempts[a] EXCEPT !.overdue = TRUE] \in Attempt
      BY DEF TypeOK, Attempt
    <3> QED BY <3>1 DEF DeadlinePasses, TypeOK
  <2>2. \A b \in Generations : attempts'[b].status = attempts[b].status /\ attempts'[b].token = attempts[b].token
    BY DEF DeadlinePasses, TypeOK, Attempt
  <2>3. UNCHANGED <<job, news, slots, deferred, callbacks, checked, applied, confirmed>>
    BY DEF DeadlinePasses
  <2>4. TypeOK' /\ Bookkeeping' /\ OneOpenAttempt'
    BY <2>1, <2>2, <2>3 DEF TypeOK, Bookkeeping, OneOpenAttempt, Job
  <2>5. AppliedOnce' /\ AppliedToItsText' /\ TokenSpentWithOutcome'
    BY <2>2, <2>3 DEF AppliedOnce, AppliedToItsText, TokenSpentWithOutcome
  <2>6. ConfirmationsAreTrue'
    BY <2>2, <2>3 DEF ConfirmationsAreTrue, TypeOK, Message
  <2> QED BY <2>4, <2>5, <2>6
<1> QED BY <1>1, <1>2, <1>3, <1>4

\* Every step of the system keeps the inductive invariant.
LEMMA NextKeepsIInv == IInv /\ [Next]_vars => IInv'
<1> SUFFICES ASSUME IInv, [Next]_vars PROVE IInv'
  OBVIOUS
<1>1. CASE \E s \in Slots : SlotStep(s) \/ Crash(s)
  <2> PICK s \in Slots : SlotStep(s) \/ Crash(s)
    BY <1>1
  <2> QED
    BY ClaimKeepsIInv, ExhaustKeepsIInv, SlotOnlyKeepsIInv, MarkWaitingKeepsIInv,
       ApplyAnswerKeepsIInv, FailKeepsIInv DEF SlotStep
<1>2. CASE CallbackStep
  BY <1>2, SendCallbackKeepsIInv, LookupKeepsIInv, CallbackFailKeepsIInv, CallbackApplyKeepsIInv
     DEF CallbackStep
<1>3. CASE LeaseExpires \/ BecomesDue \/ Edit \/ Supersede \/ \E a \in Generations : DeadlinePasses(a)
  BY <1>3, EnvironmentKeepsIInv
<1>4. CASE UNCHANGED vars
  BY <1>4 DEF vars, IInv, TypeOK, Bookkeeping, OneOpenAttempt, AppliedOnce,
     AppliedToItsText, TokenSpentWithOutcome, ConfirmationsAreTrue
<1> QED BY <1>1, <1>2, <1>3, <1>4 DEF Next

\* Whatever the numbers of slots, tokens, attempts and edits, every reachable
\* state satisfies the inductive invariant, the type invariant included.
THEOREM Invariance == Spec => []IInv
<1> QED BY InitIInv, NextKeepsIInv, PTL DEF Spec

\* Every row, slot and message has its type, the bounds on generations and
\* attempt counts included: the new generation of a claim always exists.
THEOREM TypeCorrect == Spec => []TypeOK
<1>1. IInv => TypeOK
  BY DEF IInv
<1> QED BY <1>1, Invariance, PTL

\* The job row and its attempt rows agree: at most one attempt is open.
THEOREM OneOpenAttemptHolds == Spec => []OneOpenAttempt
<1>1. IInv => OneOpenAttempt
  BY DEF IInv
<1> QED BY <1>1, Invariance, PTL

\* At most one answer takes effect, and exactly when the job succeeds.
THEOREM AppliedOnceHolds == Spec => []AppliedOnce
<1>1. IInv => AppliedOnce
  BY DEF IInv
<1> QED BY <1>1, Invariance, PTL

\* No answer about a replaced text or for a superseded run reaches the labels.
THEOREM AppliedToItsTextHolds == Spec => []AppliedToItsText
<1>1. IInv => AppliedToItsText
  BY DEF IInv
<1> QED BY <1>1, Invariance, PTL

\* A callback token is spent together with the outcome of its message.
THEOREM TokenSpentWithOutcomeHolds == Spec => []TokenSpentWithOutcome
<1>1. IInv => TokenSpentWithOutcome
  BY DEF IInv
<1> QED BY <1>1, Invariance, PTL

\* A node that was told its answer is applied was told the truth.
THEOREM ConfirmationsAreTrueHolds == Spec => []ConfirmationsAreTrue
<1>1. IInv => ConfirmationsAreTrue
  BY DEF IInv
<1> QED BY <1>1, Invariance, PTL

-----------------------------------------------------------------------------
(* What a step never does *)

\* From a state of the invariant, no step reopens a job or a closed attempt.
LEMMA StepKeepsEnd ==
  ASSUME IInv, [Next]_vars
  PROVE  /\ job.status \in EndStates => UNCHANGED <<job, applied>>
         /\ \A a \in Generations :
              attempts[a].status \notin OpenStates \cup {"absent"} =>
                /\ attempts'[a].status = attempts[a].status
                /\ attempts'[a].token = attempts[a].token
<1> USE JobAssumption DEF IInv
<1> DEFINE Kept ==
      /\ job.status \in EndStates => UNCHANGED <<job, applied>>
      /\ \A a \in Generations :
           attempts[a].status \notin OpenStates \cup {"absent"} =>
             /\ attempts'[a].status = attempts[a].status
             /\ attempts'[a].token = attempts[a].token
<1>1. ASSUME NEW s \in Slots, Claim(s) \/ Exhaust(s) PROVE Kept
  <2>1. job.status \notin EndStates
    BY <1>1 DEF Claim, Exhaust, Claimable, OpenStates, EndStates
  <2>2. CASE Claim(s)
    <3>1. job.generation + 1 \in Generations /\ attempts[job.generation + 1].status = "absent"
      BY <2>2 DEF Claim, TypeOK, Bookkeeping, Generations, Job
    <3> QED BY <2>1, <2>2, <3>1 DEF Claim, PreviousTimedOut, TypeOK
  <2>3. CASE Exhaust(s)
    BY <2>1, <2>3 DEF Exhaust, PreviousTimedOut, TypeOK
  <2> QED BY <1>1, <2>2, <2>3
<1>2. ASSUME NEW a, Holds(a),
             \A b \in Generations \ {a} : attempts'[b] = attempts[b]
      PROVE  Kept
  BY <1>2, HeldAttempt DEF Holds, Matches, OpenStates, EndStates
<1>3. ASSUME NEW a, Holds(a), NEW retryable \in BOOLEAN, NEW token \in Tokens \cup {NoToken},
             Failed(a, retryable, token)
      PROVE  Kept
  BY <1>3, <1>2, FailedRows
<1>4. ASSUME NEW a, Holds(a), MatchesNews(a), NEW token \in Tokens \cup {NoToken},
             Applied(a, token), UNCHANGED news
      PROVE  Kept
  BY <1>4, <1>2, AppliedRows
<1>5. ASSUME NEW s \in Slots, SlotStep(s) \/ Crash(s) PROVE Kept
  <2>1. CASE Prepare(s) \/ Dispatch(s) \/ Receive(s) \/ Crash(s)
    BY <2>1 DEF Prepare, Dispatch, Receive, Crash
  <2>2. CASE MarkWaiting(s)
    <3>1. CASE Holds(slots[s].attempt)
      <4>1. \A b \in Generations \ {slots[s].attempt} : attempts'[b] = attempts[b]
        BY <2>2, <3>1 DEF MarkWaiting, TypeOK
      <4> QED BY <3>1, <4>1, <1>2
    <3>2. CASE ~Holds(slots[s].attempt)
      BY <2>2, <3>2 DEF MarkWaiting
    <3> QED BY <3>1, <3>2
  <2>3. CASE ApplyAnswer(s)
    <3>1. CASE UNCHANGED dbVars
      BY <3>1 DEF dbVars
    <3>2. CASE ~UNCHANGED dbVars
      <4>1. /\ Holds(slots[s].attempt) /\ MatchesNews(slots[s].attempt) /\ UNCHANGED news
            /\ Applied(slots[s].attempt, attempts[slots[s].attempt].token)
        BY <2>3, <3>2 DEF ApplyAnswer
      <4> QED BY <4>1, <1>4, HeldAttempt
    <3> QED BY <3>1, <3>2
  <2>4. CASE Fail(s)
    <3>1. CASE UNCHANGED dbVars
      BY <3>1 DEF dbVars
    <3>2. CASE ~UNCHANGED dbVars
      <4>1. /\ Holds(slots[s].attempt)
            /\ Failed(slots[s].attempt, slots[s].verdict = "retryable", attempts[slots[s].attempt].token)
        BY <2>4, <3>2 DEF Fail
      <4> QED BY <4>1, <1>3, HeldAttempt
    <3> QED BY <3>1, <3>2
  <2> QED BY <1>5, <1>1, <2>1, <2>2, <2>3, <2>4 DEF SlotStep
<1>6. CASE CallbackStep
  <2>1. CASE (\E m \in Message : SendCallback(m)) \/ \E m \in callbacks : Lookup(m)
    BY <2>1 DEF SendCallback, Lookup
  <2>2. ASSUME NEW c \in checked, CallbackFail(c) PROVE Kept
    <3>1. c.message.token \in Tokens
      BY DEF TypeOK, Message
    <3> QED BY <2>2, <3>1, <1>3 DEF CallbackFail, dbVars
  <2>3. ASSUME NEW c \in checked, CallbackApply(c) PROVE Kept
    <3>1. c.message.token \in Tokens
      BY DEF TypeOK, Message
    <3> QED BY <2>3, <3>1, <1>4 DEF CallbackApply
  <2> QED BY <1>6, <2>1, <2>2, <2>3 DEF CallbackStep
<1>7. CASE LeaseExpires \/ BecomesDue
  BY <1>7 DEF LeaseExpires, BecomesDue, Bookkeeping, EndStates
<1>8. CASE Edit \/ Supersede \/ UNCHANGED vars
  BY <1>8 DEF Edit, Supersede, vars
<1>9. CASE \E a \in Generations : DeadlinePasses(a)
  BY <1>9 DEF DeadlinePasses, TypeOK
<1> QED BY <1>5, <1>6, <1>7, <1>8, <1>9 DEF Next

\* An ended job and a closed attempt are final, for every interleaving.
THEOREM EndIsFinalHolds == Spec => EndIsFinal
<1>1. IInv /\ [Next]_vars =>
        [ /\ job.status \in EndStates => UNCHANGED <<job, applied>>
          /\ \A a \in Generations :
               attempts[a].status \notin OpenStates \cup {"absent"} =>
                 /\ attempts'[a].status = attempts[a].status
                 /\ attempts'[a].token = attempts[a].token ]_vars
  BY StepKeepsEnd
<1> QED BY <1>1, Invariance, PTL DEF Spec, EndIsFinal

-----------------------------------------------------------------------------
(* The job implements the promise of RetriedJob *)

\* The initial states map to the initial state of RetriedJob.
LEMMA PromiseInit == Init => Promise!Init
BY FS_EmptySet DEF Init, Promise!Init, EndStates

\* A recorded failure is a GiveUp of RetriedJob or leaves it unchanged.
LEMMA FailedIsPromised ==
  ASSUME IInv, NEW a, Holds(a), NEW retryable \in BOOLEAN, NEW token \in Tokens \cup {NoToken},
         Failed(a, retryable, token)
  PROVE  [Promise!Next]_(Promise!vars)
<1>1. job.status \notin EndStates /\ job.attempt_count > 0 /\ applied' = applied
  BY HeldAttempt DEF Failed, Holds, Matches, OpenStates, EndStates, IInv, Bookkeeping, Generations, TypeOK, Job
<1>2. /\ job'.attempt_count = job.attempt_count
      /\ job'.status \in {"pending", "dead_letter"}
  BY DEF Failed, IInv, TypeOK, Job
<1> QED BY <1>1, <1>2 DEF Promise!Next, Promise!GiveUp, Promise!vars, EndStates

\* An applied answer is the one Succeed of RetriedJob.
LEMMA AppliedIsPromised ==
  ASSUME IInv, NEW a, Holds(a), NEW token, Applied(a, token)
  PROVE  Promise!Next
<1>1. job.status \notin EndStates /\ job.attempt_count > 0 /\ applied = {}
  BY HeldAttempt DEF Holds, Matches, OpenStates, EndStates, IInv, Bookkeeping, Generations, TypeOK, Job
<1>2. job'.status = "succeeded" /\ job'.attempt_count = job.attempt_count
  BY DEF Applied, IInv, TypeOK, Job
<1>3. Cardinality(applied) = 0
  BY <1>1, FS_EmptySet
<1>4. Cardinality(applied') = 1
  <2>1. PICK r : applied' = applied \cup {r}
    BY DEF Applied
  <2>2. applied' = {r}
    BY <1>1, <2>1
  <2> QED BY <2>2, FS_Singleton
<1> QED BY <1>1, <1>2, <1>3, <1>4 DEF Promise!Next, Promise!Succeed, EndStates

\* Every step of the job is a step of RetriedJob or invisible to it.
LEMMA PromiseNext == IInv /\ [Next]_vars => [Promise!Next]_(Promise!vars)
<1> SUFFICES ASSUME IInv, [Next]_vars PROVE [Promise!Next]_(Promise!vars)
  OBVIOUS
<1> USE JobAssumption
<1>1. ASSUME UNCHANGED <<job.status, job.attempt_count, applied>>
      PROVE  UNCHANGED Promise!vars
  BY <1>1 DEF Promise!vars
<1>2. ASSUME NEW s \in Slots, SlotStep(s) \/ Crash(s)
      PROVE  [Promise!Next]_(Promise!vars)
  <2>1. CASE Prepare(s) \/ Dispatch(s) \/ Receive(s) \/ Crash(s)
    BY <2>1, <1>1 DEF Prepare, Dispatch, Receive, Crash
  <2>2. CASE Claim(s)
    <3>1. /\ job.status \notin EndStates /\ job'.status = "running" /\ applied' = applied
          /\ job.attempt_count < MaxAttempts /\ job'.attempt_count = job.attempt_count + 1
      BY <2>2 DEF Claim, Claimable, OpenStates, EndStates, IInv, TypeOK, Job
    <3> QED BY <3>1 DEF Promise!Next, Promise!Try, EndStates
  <2>3. CASE Exhaust(s)
    <3>1. /\ job.status \notin EndStates /\ job'.status = "dead_letter" /\ applied' = applied
          /\ job.attempt_count > 0 /\ job'.attempt_count = job.attempt_count
      BY <2>3 DEF Exhaust, Claimable, OpenStates, EndStates, IInv, TypeOK, Job
    <3> QED BY <3>1 DEF Promise!Next, Promise!GiveUp, EndStates
  <2>4. CASE MarkWaiting(s)
    <3>1. CASE Holds(slots[s].attempt)
      <4>1. /\ job.status \notin EndStates /\ job'.status = "waiting_callback"
            /\ job'.attempt_count = job.attempt_count /\ applied' = applied
        BY <2>4, <3>1 DEF MarkWaiting, Holds, Matches, OpenStates, EndStates, IInv, TypeOK, Job
      <4> QED BY <4>1 DEF Promise!vars, EndStates
    <3>2. CASE ~Holds(slots[s].attempt)
      BY <2>4, <3>2, <1>1 DEF MarkWaiting
    <3> QED BY <3>1, <3>2
  <2>5. CASE ApplyAnswer(s)
    <3>1. CASE UNCHANGED dbVars
      BY <3>1, <1>1 DEF dbVars
    <3>2. CASE ~UNCHANGED dbVars
      <4>1. /\ Holds(slots[s].attempt)
            /\ Applied(slots[s].attempt, attempts[slots[s].attempt].token)
        BY <2>5, <3>2 DEF ApplyAnswer
      <4> QED BY <4>1, AppliedIsPromised
    <3> QED BY <3>1, <3>2
  <2>6. CASE Fail(s)
    <3>1. CASE UNCHANGED dbVars
      BY <3>1, <1>1 DEF dbVars
    <3>2. CASE ~UNCHANGED dbVars
      <4>1. /\ Holds(slots[s].attempt)
            /\ Failed(slots[s].attempt, slots[s].verdict = "retryable", attempts[slots[s].attempt].token)
        BY <2>6, <3>2 DEF Fail
      <4> QED BY <4>1, FailedIsPromised, HeldAttempt
    <3> QED BY <3>1, <3>2
  <2> QED BY <1>2, <2>1, <2>2, <2>3, <2>4, <2>5, <2>6 DEF SlotStep
<1>3. CASE CallbackStep
  <2>1. CASE (\E m \in Message : SendCallback(m)) \/ \E m \in callbacks : Lookup(m)
    BY <2>1, <1>1 DEF SendCallback, Lookup
  <2>2. ASSUME NEW c \in checked, CallbackFail(c) PROVE [Promise!Next]_(Promise!vars)
    <3>1. c.message.token \in Tokens
      BY DEF IInv, TypeOK, Message
    <3>2. CASE UNCHANGED dbVars
      BY <3>2, <1>1 DEF dbVars
    <3> QED BY <2>2, <3>1, <3>2, FailedIsPromised DEF CallbackFail
  <2>3. ASSUME NEW c \in checked, CallbackApply(c) PROVE [Promise!Next]_(Promise!vars)
    BY <2>3, AppliedIsPromised DEF CallbackApply
  <2> QED BY <1>3, <2>1, <2>2, <2>3 DEF CallbackStep
<1>4. CASE LeaseExpires \/ BecomesDue
  <2>1. UNCHANGED <<job.status, job.attempt_count, applied>>
    BY <1>4 DEF LeaseExpires, BecomesDue, IInv, TypeOK, Job
  <2> QED BY <2>1, <1>1
<1>5. CASE Edit \/ Supersede \/ UNCHANGED vars \/ \E a \in Generations : DeadlinePasses(a)
  BY <1>5, <1>1 DEF Edit, Supersede, DeadlinePasses, vars
<1> QED BY <1>2, <1>3, <1>4, <1>5 DEF Next

\* Whatever happens to its slots, node and callbacks, the job looks to the rest
\* of the system like the retried job of RetriedJob.
THEOREM KeepsPromiseHolds == Spec => KeepsPromise
<1> QED BY Invariance, PromiseInit, PromiseNext, PTL DEF Spec, KeepsPromise, Promise!Spec

(***************************************************************************)
(* The classifier node                                                     *)
(***************************************************************************)

\* Offsets and lives stay; what a call remembers of its request does too.
Steps == Open \cup {"refused", "answered", "silent", "taken", "late", "rejected"}

CallRecord ==
  [pc : Steps, request : Requests, at : Int, life : 0 .. MaxRestarts,
   until : Int, expires : Int, forgiven : BOOLEAN]

NodeState ==
  /\ now \in Nat
  /\ node \in [settings : Installed, offset : Offsets, life : 0 .. MaxRestarts]
  /\ seen \subseteq Requests
  /\ sent \in [Requests -> Nat]
  /\ calls \in [Calls -> CallRecord \cup {NoCall}]

Made(c) == ~At(c, "idle")

\* Only requests that were signed reach the node, in this life of it or another.
MadeAreSent ==
  \A c \in Calls : Made(c) =>
    calls[c] \in CallRecord /\ sent[calls[c].request] > 0 /\ calls[c].life <= node.life

\* What this life of the process classified it remembers, unless the signature
\* has expired by its own clock.
ClassifiedIsSeen ==
  \A c \in Calls : Classified(c) /\ calls[c].life = node.life =>
    calls[c].request \in seen \/ Expiry(calls[c].request) < Whole(Here)

\* A callback under way was dated by the node's clock, in whole seconds, and may
\* last at most a second longer than its signature, rounded down.
PostsAreDated ==
  \A c \in Calls : At(c, "posting") =>
    /\ calls[c].at <= Whole(Here) /\ calls[c].at % 2 = 0
    /\ calls[c].expires % 2 = 0 /\ calls[c].at < calls[c].expires
    /\ calls[c].expires <= calls[c].at + MaxTtl
    /\ calls[c].until <= calls[c].expires + 2

NodeInv == NodeState /\ MadeAreSent /\ ClassifiedIsSeen /\ PostsAreDated /\ ClassifiedOnce


-----------------------------------------------------------------------------
(* Whole seconds *)

\* What the assumptions say of the numbers.
LEMMA Numbers ==
  /\ MaxTtl \in Nat /\ PostLimit \in Nat /\ Skew \in Nat /\ Ttl \in Nat
  /\ MaxRestarts \in Nat /\ Offsets \subseteq Int
  /\ MaxTtl >= 2 /\ PostLimit <= MaxTtl /\ Skew % 2 = 0 /\ MaxTtl % 2 = 0
  BY NodeAssumption, ClocksAssumption DEF Second

\* Whole() rounds down to an even number, and so keeps the order of times.
LEMMA WholeSeconds ==
  ASSUME NEW t \in Int
  PROVE  /\ Whole(t) \in Int /\ Whole(t) <= t /\ t <= Whole(t) + 1 /\ Whole(t) % 2 = 0
         /\ \A u \in Int : t <= u => Whole(t) <= Whole(u)
         /\ \A u \in Int : t <= u + 1 /\ u % 2 = 0 => Whole(t) <= u
         /\ \A d \in Int : d % 2 = 0 => Whole(t + d) = Whole(t) + d
  BY DEF Whole, Second

\* The clock of the node shows a time.
LEMMA ClockIsTyped ==
  ASSUME NodeState
  PROVE  now \in Int /\ node.offset \in Offsets /\ node.offset \in Int /\ Here \in Int
<1>1. now \in Int
  BY Numbers DEF NodeState
<1>2. node.offset \in Offsets
  BY DEF NodeState
<1>3. node.offset \in Int
  BY <1>2, Numbers
<1> QED
  BY <1>1, <1>2, <1>3 DEF Here

\* So do the signatures of the requests.
LEMMA ExpiryIsTyped ==
  ASSUME NodeState
  PROVE  Whole(Here) \in Int /\ \A r \in Requests : Expiry(r) \in Int
<1>1. Whole(Here) \in Int
  BY ClockIsTyped, WholeSeconds
<1>2. ASSUME NEW r \in Requests PROVE Expiry(r) \in Int
  <2>1. sent[r] \in Int /\ Ttl \in Int
    BY Numbers DEF NodeState
  <2>2. Whole(sent[r]) \in Int
    BY <2>1, WholeSeconds
  <2> QED
    BY <2>1, <2>2 DEF Expiry
<1> QED
  BY <1>1, <1>2

\* The signature of a callback is dated in whole seconds, and lasts as long as the
\* post may, less than a second short.
LEMMA LifetimeSuffices ==
  ASSUME NEW c \in Calls, calls[c].until \in Int
  PROVE  /\ Lifetime(c) \in Int /\ Lifetime(c) % 2 = 0
         /\ 0 < Lifetime(c) /\ Lifetime(c) <= MaxTtl
         /\ Greatest(Second, Least(calls[c].until, PostLimit)) \in Int
         /\ Greatest(Second, Least(calls[c].until, PostLimit)) <= Lifetime(c) + 1
<1> DEFINE until == calls[c].until
           whole == Whole(until)
<1>1. whole \in Int /\ whole % 2 = 0 /\ until <= whole + 1
  BY WholeSeconds
<1>2. /\ Lifetime(c) = IF 2 > (IF MaxTtl < whole THEN MaxTtl ELSE whole) THEN 2
                       ELSE IF MaxTtl < whole THEN MaxTtl ELSE whole
      /\ Greatest(Second, Least(until, PostLimit)) =
           IF 2 > (IF until < PostLimit THEN until ELSE PostLimit) THEN 2
           ELSE IF until < PostLimit THEN until ELSE PostLimit
  BY DEF Lifetime, Greatest, Least, Second
<1> HIDE DEF whole, until
<1>3. until \in Int
  BY DEF until
<1>4. until = calls[c].until
  BY DEF until
<1> QED
  BY <1>1, <1>2, <1>3, <1>4, Numbers

-----------------------------------------------------------------------------
(* A call goes on *)

\* A call that is over is still that of its request and its life.
LEMMA OverKeeps ==
  ASSUME NEW c \in Calls, calls[c] \in CallRecord, NEW step \in Steps
  PROVE  /\ Over(c, step) \in CallRecord /\ Over(c, step).pc = step
         /\ Over(c, step).request = calls[c].request
         /\ Over(c, step).life = calls[c].life /\ Over(c, step).forgiven = calls[c].forgiven
<1> DEFINE j == Over(c, step)
<1>1. j \in CallRecord
  <2>1. PICK zero \in Int : zero = 0
    OBVIOUS
  <2>2. j = [calls[c] EXCEPT !.pc = step, !.at = zero, !.until = zero, !.expires = zero]
    BY <2>1 DEF Over
  <2> QED
    BY <2>2 DEF CallRecord
<1>2. j.pc = step
  BY DEF Over, CallRecord
<1>3. j.request = calls[c].request
  BY DEF Over, CallRecord
<1>4. j.life = calls[c].life
  BY DEF Over, CallRecord
<1>5. j.forgiven = calls[c].forgiven
  BY DEF Over, CallRecord
<1> QED
  BY <1>1, <1>2, <1>3, <1>4, <1>5

\* A call that goes on keeps its request, its life and what it was forgiven.
LEMMA CallMoves ==
  ASSUME NodeInv, NEW c \in Calls, Made(c), NEW k \in CallRecord,
         calls' = [calls EXCEPT ![c] = k], UNCHANGED <<now, node, seen, sent>>,
         k.request = calls[c].request, k.life = calls[c].life, k.forgiven = calls[c].forgiven,
         Classified(c), k.pc # "refused",
         k.pc = "posting" =>
           /\ k.at <= Whole(Here) /\ k.at % 2 = 0
           /\ k.expires % 2 = 0 /\ k.at < k.expires
           /\ k.expires <= k.at + MaxTtl
           /\ k.until <= k.expires + 2
  PROVE  NodeInv'
<1>1. /\ calls \in [Calls -> CallRecord \cup {NoCall}]
      /\ calls'[c] = k /\ \A d \in Calls \ {c} : calls'[d] = calls[d]
      /\ k.pc # "idle"
  BY DEF NodeInv, NodeState, CallRecord, Steps, Open
<1>2. NodeState'
  BY DEF NodeInv, NodeState
<1>3. MadeAreSent'
  BY <1>1 DEF NodeInv, MadeAreSent, Made, At
<1>4. ClassifiedIsSeen'
  BY <1>1 DEF NodeInv, ClassifiedIsSeen, Classified, Expiry, Here
<1>5. PostsAreDated'
  BY <1>1 DEF NodeInv, PostsAreDated, At, Here
<1>6. ClassifiedOnce'
  BY <1>1 DEF NodeInv, ClassifiedOnce, Classified
<1> QED
  BY <1>2, <1>3, <1>4, <1>5, <1>6 DEF NodeInv

Ends == {"answered", "silent", "taken", "late", "rejected"}

\* A call may end at any step of it.
LEMMA EndsKeep ==
  ASSUME NodeInv, NEW c \in Calls, NEW step \in Ends, calls[c].pc \in Open,
         calls' = [calls EXCEPT ![c] = Over(c, step)], UNCHANGED <<now, node, seen, sent>>
  PROVE  NodeInv'
<1>1. Made(c) /\ Classified(c) /\ calls[c] \in CallRecord
  BY DEF Open, Made, At, Classified, NodeInv, MadeAreSent
<1> DEFINE k == Over(c, step)
<1>2. /\ k \in CallRecord /\ k.pc = step
      /\ k.request = calls[c].request /\ k.life = calls[c].life /\ k.forgiven = calls[c].forgiven
  <2>1. step \in Steps
    BY DEF Ends, Steps
  <2> QED
    BY <1>1, <2>1, OverKeeps
<1>3. k.pc # "refused" /\ k.pc # "posting"
  BY <1>2 DEF Ends
<1> HIDE DEF k
<1> QED
  BY <1>1, <1>2, <1>3, CallMoves DEF k

\* Every step of a call after the first keeps the invariant.
LEMMA CallsKeep ==
  ASSUME NodeInv, NEW c \in Calls, Progress(c) \/ Answer(c) \/ Raise(c) \/ Post(c) \/ Arrive(c)
  PROVE  NodeInv'
<1>h. Here \in Int /\ MadeAreSent /\ \A r \in Requests : Deadline(r) \in Int
  BY ClockIsTyped, NodeAssumption DEF NodeInv, NodeState, Deadline
<1>1. CASE Answer(c) \/ ProviderTimeout(c) \/ GiveUp(c) \/ PostFails(c) \/ Raise(c)
  BY <1>1, EndsKeep DEF Answer, ProviderTimeout, GiveUp, WaitOver, PostFails, Raise, At, End, Open, Ends
<1>2. CASE Arrive(c)
  <2>1. PICK step \in {"rejected", "late", "taken"} : End(c, step)
    BY <1>2 DEF Arrive
  <2> QED
    BY <1>2, <2>1, EndsKeep DEF Arrive, At, End, Open, Ends
<1>3. CASE Begin(c)
  <2>1. Made(c) /\ Classified(c) /\ calls[c] \in CallRecord /\ calls[c].pc = "created"
    BY <1>3, <1>h DEF Begin, At, Made, Classified, MadeAreSent
  <2>2. CASE Deadline(calls[c].request) <= Here
    BY <1>3, <2>1, <2>2, EndsKeep DEF Begin, Open, Ends
  <2>3. CASE ~(Deadline(calls[c].request) <= Here)
    <3> DEFINE left == Deadline(calls[c].request) - Here
               k == [calls[c] EXCEPT !.pc = "waiting", !.at = Here, !.until = left]
    <3>1. left \in Int
      BY <1>h, <2>1 DEF CallRecord
    <3>2. calls' = [calls EXCEPT ![c] = k]
      BY <1>3, <2>3 DEF Begin
    <3> HIDE DEF left
    <3>3. /\ k \in CallRecord /\ k.pc = "waiting"
          /\ k.request = calls[c].request /\ k.life = calls[c].life /\ k.forgiven = calls[c].forgiven
      <4>1. "waiting" \in Steps
        BY DEF Steps, Open
      <4> QED
        BY <1>h, <2>1, <3>1, <4>1 DEF CallRecord
    <3> HIDE DEF k
    <3> QED
      BY <1>3, <2>1, <3>2, <3>3, CallMoves DEF Begin
  <2> QED
    BY <2>2, <2>3
<1>4. CASE Post(c)
  <2>1. Made(c) /\ Classified(c) /\ calls[c] \in CallRecord
    BY <1>4, <1>h DEF Post, At, Made, Classified, MadeAreSent
  <2> DEFINE lasts == Lifetime(c)
             may == Greatest(Second, Least(calls[c].until, PostLimit))
             k == [calls[c] EXCEPT !.pc = "posting", !.at = Whole(Here),
                                   !.until = Here + may, !.expires = Whole(Here) + lasts]
  <2>2. /\ lasts \in Int /\ lasts % 2 = 0 /\ 0 < lasts /\ lasts <= MaxTtl
        /\ may \in Int /\ may <= lasts + 1
    BY <2>1, LifetimeSuffices DEF CallRecord
  <2>3. calls' = [calls EXCEPT ![c] = k] /\ UNCHANGED <<now, node, seen, sent>>
    BY <1>4 DEF Post
  <2> HIDE DEF lasts, may
  <2>4. Whole(Here) \in Int /\ Whole(Here) % 2 = 0 /\ Here <= Whole(Here) + 1
    BY <1>h, WholeSeconds
  <2>5. /\ k \in CallRecord /\ k.pc = "posting"
        /\ k.request = calls[c].request /\ k.life = calls[c].life /\ k.forgiven = calls[c].forgiven
        /\ k.at = Whole(Here) /\ k.expires = Whole(Here) + lasts /\ k.until = Here + may
    <3>1. /\ "posting" \in Steps /\ Whole(Here) \in Int
          /\ Here + may \in Int /\ Whole(Here) + lasts \in Int
      BY <1>h, <2>2, <2>4 DEF Steps, Open
    <3> QED
      BY <2>1, <3>1 DEF CallRecord
  <2> HIDE DEF k
  <2>6. /\ k.at <= Whole(Here) /\ k.at % 2 = 0
        /\ k.expires % 2 = 0 /\ k.at < k.expires
        /\ k.expires <= k.at + MaxTtl
        /\ k.until <= k.expires + 2
    <3> DEFINE w == Whole(Here)
    <3>1. w \in Int /\ w % 2 = 0 /\ Here <= w + 1
      BY <2>4
    <3>2. k.at = w /\ k.expires = w + lasts /\ k.until = Here + may
      BY <2>5
    <3> HIDE DEF w
    <3>3. (w + lasts) % 2 = 0 /\ w < w + lasts /\ w + lasts <= w + MaxTtl /\ Here + may <= w + lasts + 2
      BY <1>h, <2>2, <3>1, Numbers
    <3> QED
      BY <3>1, <3>2, <3>3 DEF w
  <2> QED
    BY <2>1, <2>3, <2>5, <2>6, CallMoves
<1> QED
  BY <1>1, <1>2, <1>3, <1>4 DEF Progress

-----------------------------------------------------------------------------
(* The clock, the requests and the process *)

\* What has expired stays so.
LEMMA TickKeeps ==
  ASSUME NodeInv, Tick
  PROVE  NodeInv'
<1> DEFINE next == Here + 1
<1>1. Here \in Int /\ next \in Int /\ Here <= next
  BY ClockIsTyped DEF NodeInv
<1>0. Here' = next
  BY ClockIsTyped DEF NodeInv, Tick, Here
<1>2. Whole(Here) \in Int /\ Whole(next) \in Int /\ Whole(Here) <= Whole(next) /\ Whole(Here)' = Whole(next)
  BY <1>1, <1>0, WholeSeconds DEF Whole
<1>3. NodeState' /\ MadeAreSent' /\ ClassifiedOnce'
  <2>1. now' \in Nat
    BY DEF Tick, NodeInv, NodeState
  <2> QED
    BY <2>1 DEF NodeInv, NodeState, MadeAreSent, Made, At, ClassifiedOnce, Classified, Tick
<1>4. ClassifiedIsSeen'
  <2>1. \A c \in Calls : Classified(c) => Expiry(calls[c].request) \in Int
    <3>1. \A r \in Requests : Expiry(r) \in Int
      BY ExpiryIsTyped DEF NodeInv
    <3> QED
      BY <3>1 DEF NodeInv, MadeAreSent, Made, At, Classified, CallRecord
  <2> HIDE DEF next
  <2> QED
    BY <1>2, <2>1 DEF NodeInv, ClassifiedIsSeen, Classified, Expiry, Tick
<1>5. PostsAreDated'
  <2>1. \A c \in Calls : At(c, "posting") => calls[c].at \in Int
    BY DEF NodeInv, MadeAreSent, Made, At, CallRecord
  <2> HIDE DEF next
  <2> QED
    BY <1>2, <2>1 DEF NodeInv, PostsAreDated, At, Tick
<1> QED
  BY <1>3, <1>4, <1>5 DEF NodeInv

\* No call has the request that is signed.
LEMMA SignKeeps ==
  ASSUME NodeInv, NEW r \in Requests, Sign(r)
  PROVE  NodeInv'
<1>1. /\ sent' \in [Requests -> Nat] /\ sent[r] = 0
      /\ \A q \in Requests \ {r} : sent'[q] = sent[q]
      /\ UNCHANGED <<now, node, seen, calls>>
  BY DEF Sign, NodeInv, NodeState
<1>2. \A c \in Calls : Made(c) => calls[c].request \in Requests \ {r}
  BY <1>1 DEF NodeInv, MadeAreSent, CallRecord
<1>3. NodeState' /\ MadeAreSent'
  BY <1>1, <1>2 DEF NodeInv, NodeState, MadeAreSent, Made, At
<1>4. ClassifiedIsSeen'
  BY <1>1, <1>2 DEF NodeInv, ClassifiedIsSeen, Classified, Made, At, Expiry, Here
<1>5. PostsAreDated' /\ ClassifiedOnce'
  BY <1>1 DEF NodeInv, PostsAreDated, At, Here, ClassifiedOnce, Classified
<1> QED
  BY <1>3, <1>4, <1>5 DEF NodeInv

\* A new life of the process has classified nothing yet.
LEMMA RestartKeeps ==
  ASSUME NodeInv, NEW s \in Installed, Restart(s)
  PROVE  NodeInv'
<1>0. node \in [settings : Installed, offset : Offsets, life : 0 .. MaxRestarts]
  BY DEF NodeInv, NodeState
<1>1. node' = [node EXCEPT !.life = node.life + 1, !.settings = s] /\ node.life + 1 \in 0 .. MaxRestarts
  BY <1>0, Numbers DEF Restart
<1>2. /\ node' \in [settings : Installed, offset : Offsets, life : 0 .. MaxRestarts]
      /\ node'.offset = node.offset /\ node'.life = node.life + 1
  BY <1>0, <1>1
<1>3. Here' = Here /\ UNCHANGED <<now, sent>> /\ seen' = {}
  BY <1>2 DEF Here, Restart
<1>4. ASSUME NEW c \in Calls
      PROVE  /\ calls'[c] \in CallRecord \cup {NoCall}
             /\ Made(c)' => Made(c) /\ calls'[c] \in CallRecord
             /\ Made(c) => /\ calls'[c].request = calls[c].request
                           /\ calls'[c].life = calls[c].life
                           /\ calls'[c].forgiven = calls[c].forgiven
             /\ Classified(c)' => Classified(c)
             /\ ~At(c, "posting")'
             /\ Made(c) => calls[c].life \in 0 .. MaxRestarts
  <2>1. calls[c] = NoCall \/ calls[c] \in CallRecord
    BY DEF NodeInv, NodeState
  <2>2. CASE calls[c].pc \in Open
    <3>1. calls[c] \in CallRecord /\ calls'[c] = Over(c, "silent")
      BY <2>1, <2>2 DEF NoCall, Open, Restart
    <3>2. "silent" \in Steps /\ "silent" \notin {"idle", "refused", "posting"}
      BY DEF Steps
    <3>3. /\ calls'[c] \in CallRecord /\ calls'[c].pc = "silent"
          /\ calls'[c].request = calls[c].request /\ calls'[c].life = calls[c].life
          /\ calls'[c].forgiven = calls[c].forgiven
      BY <3>1, <3>2, OverKeeps
    <3>4. calls[c].life \in 0 .. MaxRestarts
      BY <3>1 DEF CallRecord
    <3> QED
      BY <2>2, <3>1, <3>2, <3>3, <3>4 DEF Made, At, Classified, Open
  <2>3. CASE calls[c].pc \notin Open
    <3>1. calls'[c] = calls[c]
      BY <2>3 DEF Restart
    <3> QED
      BY <2>1, <2>3, <3>1 DEF CallRecord, NoCall, Made, At, Classified, Open, Steps
  <2> QED
    BY <2>2, <2>3
<1>5. NodeState'
  BY <1>2, <1>3, <1>4 DEF NodeInv, NodeState, Restart
<1>6. MadeAreSent'
  <2>1. \A c \in Calls : Made(c) => calls[c].life <= node.life + 1
    BY <1>0, <1>4, Numbers DEF NodeInv, MadeAreSent
  <2> QED
    BY <1>2, <1>3, <1>4, <2>1 DEF NodeInv, MadeAreSent
<1>7. ClassifiedIsSeen'
  <2>1. \A c \in Calls : Classified(c) => Made(c)
    BY DEF Classified, Made, At
  <2>2. \A c \in Calls : Classified(c)' => ~(calls'[c].life = node'.life)
    BY <1>0, <1>2, <1>4, <2>1, Numbers DEF NodeInv, MadeAreSent
  <2> QED
    BY <2>2 DEF ClassifiedIsSeen
<1>8. PostsAreDated'
  BY <1>4 DEF PostsAreDated
<1>9. ClassifiedOnce'
  BY <1>4 DEF NodeInv, ClassifiedOnce, Classified, Made, At
<1> QED
  BY <1>5, <1>6, <1>7, <1>8, <1>9 DEF NodeInv

\* A request is classified if it is not remembered: never before in this life, or the
\* signature has expired, and then it was forgiven.
LEMMA HandleKeeps ==
  ASSUME NodeInv, NEW c \in Calls, NEW r \in Requests, Handle(c, r)
  PROVE  NodeInv'
<1> DEFINE k == calls'[c]
           accepted == Ready /\ Verified(r) /\ r \notin Remembered
<1>0. /\ calls \in [Calls -> CallRecord \cup {NoCall}] /\ Here \in Int
      /\ sent[r] > 0 /\ UNCHANGED <<now, node, sent>> /\ calls[c].pc = "idle"
      /\ node.life \in 0 .. MaxRestarts /\ node.life <= node.life
  BY ClockIsTyped, Numbers DEF Handle, NodeInv, NodeState
<1>1. PICK step \in {"refused", "created", "classifying"} :
        /\ calls' = [calls EXCEPT ![c] =
             [pc |-> step, request |-> r, at |-> Here, life |-> node.life,
              until |-> 0, expires |-> 0, forgiven |-> Expiry(r) < Whole(Here)]]
        /\ step # "refused" => accepted
  BY DEF Handle
<1>2. /\ k.pc = step /\ k.request = r /\ k.life = node.life
      /\ k.forgiven <=> Expiry(r) < Whole(Here)
  BY <1>0, <1>1
<1>3. k \in CallRecord
  <2>1. step \in Steps
    BY DEF Steps, Open
  <2>2. PICK zero \in Int : zero = 0
    OBVIOUS
  <2>3. (Expiry(r) < Whole(Here)) \in BOOLEAN
    BY ExpiryIsTyped DEF NodeInv
  <2>4. k = [pc |-> step, request |-> r, at |-> Here, life |-> node.life,
             until |-> zero, expires |-> zero, forgiven |-> Expiry(r) < Whole(Here)]
    BY <1>0, <1>1, <2>2
  <2> HIDE DEF k
  <2> QED
    BY <1>0, <2>1, <2>3, <2>4 DEF CallRecord
<1>4. \A d \in Calls \ {c} : calls'[d] = calls[d]
  BY <1>0, <1>1
<1>5. /\ seen' \subseteq Requests
      /\ \A q \in Requests : q \in seen => q \in seen' \/ Expiry(q) < Whole(Here)
      /\ accepted => r \in seen'
  <2>1. \A q \in Requests : Expiry(q) \in Int
    BY ExpiryIsTyped DEF NodeInv
  <2>2. Whole(Here) \in Int
    BY <1>0, WholeSeconds
  <2>3. seen' = IF ~(Ready /\ Verified(r)) THEN seen ELSE Remembered \cup {r}
    BY DEF Handle
  <2>4. \A q \in seen : q \in Remembered \/ Expiry(q) < Whole(Here)
    BY <2>1, <2>2 DEF Remembered, NodeInv, NodeState
  <2>5. Remembered \subseteq seen /\ seen \subseteq Requests
    BY DEF Remembered, NodeInv, NodeState
  <2> QED
    BY <2>3, <2>4, <2>5
<1>6. Here' = Here /\ Whole(Here)' = Whole(Here) /\ \A q \in Requests : Expiry(q)' = Expiry(q)
  BY <1>0 DEF Here, Expiry, Whole
<1>7. NodeState'
  BY <1>0, <1>1, <1>3, <1>5 DEF NodeInv, NodeState
<1>8. MadeAreSent'
  BY <1>0, <1>2, <1>3, <1>4 DEF NodeInv, MadeAreSent, Made, At
<1>9. ClassifiedIsSeen'
  <2>1. ASSUME NEW d \in Calls, Classified(d)', calls'[d].life = node'.life
        PROVE  calls'[d].request \in seen' \/ Expiry(calls'[d].request) < Whole(Here)
    <3>1. CASE d = c
      BY <1>1, <1>2, <1>5, <2>1, <3>1 DEF Classified
    <3>2. CASE d # c
      <4>1. Classified(d) /\ calls[d].life = node.life /\ calls[d].request \in Requests
            /\ calls'[d].request = calls[d].request
        BY <1>0, <1>4, <2>1, <3>2 DEF Classified, NodeInv, MadeAreSent, Made, At, CallRecord
      <4> QED
        BY <1>5, <4>1 DEF NodeInv, ClassifiedIsSeen
    <3> QED
      BY <3>1, <3>2
  <2>2. \A d \in Calls : Classified(d)' => calls'[d].request \in Requests
    BY <1>8 DEF MadeAreSent, Made, At, Classified, CallRecord
  <2> QED
    BY <1>6, <2>1, <2>2 DEF ClassifiedIsSeen
<1>10. PostsAreDated'
  BY <1>0, <1>2, <1>4, <1>6 DEF NodeInv, PostsAreDated, At
<1>11. ClassifiedOnce'
  <2>1. ASSUME NEW d \in Calls \ {c}, Classified(c)', Classified(d)',
               calls'[d].request = r, calls'[d].life = node.life
        PROVE  k.forgiven
    <3>1. Classified(d) /\ calls[d].request = r /\ calls[d].life = node.life
      BY <1>4, <2>1 DEF Classified
    <3>2. r \in seen \/ Expiry(r) < Whole(Here)
      BY <3>1 DEF NodeInv, ClassifiedIsSeen
    <3>3. r \notin Remembered
      BY <1>1, <1>2, <2>1 DEF Classified
    <3>4. Expiry(r) \in Int /\ Whole(Here) \in Int
      BY ExpiryIsTyped DEF NodeInv
    <3>5. Expiry(r) < Whole(Here)
      BY <3>2, <3>3, <3>4 DEF Remembered
    <3> QED
      BY <1>2, <3>5
  <2> HIDE DEF k
  <2>2. \A d \in Calls \ {c} : Classified(d)' => Classified(d)
    BY <1>4 DEF Classified
  <2>3. calls'[c] = k
    BY DEF k
  <2> QED
    BY <1>2, <1>4, <2>1, <2>2, <2>3 DEF NodeInv, ClassifiedOnce
<1> QED
  BY <1>7, <1>8, <1>9, <1>10, <1>11 DEF NodeInv

-----------------------------------------------------------------------------
(* The invariant of the node *)

\* The invariant holds at first ...
LEMMA NodeStart == NodeInit => NodeInv
<1> SUFFICES ASSUME NodeInit PROVE NodeInv
  OBVIOUS
<1>1. NodeState
  <2>1. PICK s \in Installed, o \in Offsets : node = [settings |-> s, offset |-> o, life |-> 0]
    BY DEF NodeInit
  <2> QED
    BY <2>1, Numbers DEF NodeInit, NodeState, Second
<1>2. \A c \in Calls : calls[c].pc = "idle"
  BY DEF NodeInit, NoCall
<1>3. MadeAreSent /\ ClassifiedIsSeen /\ PostsAreDated /\ ClassifiedOnce
  BY <1>2 DEF MadeAreSent, Made, At, ClassifiedIsSeen, Classified, PostsAreDated, ClassifiedOnce
<1> QED
  BY <1>1, <1>3 DEF NodeInv

\* ... and every action keeps it.
LEMMA NodeStep == NodeInv /\ [NodeNext]_nodeVars => NodeInv'
<1> SUFFICES ASSUME NodeInv, [NodeNext]_nodeVars PROVE NodeInv'
  OBVIOUS
<1>1. CASE UNCHANGED nodeVars
  BY <1>1 DEF nodeVars, NodeInv, NodeState, MadeAreSent, Made, At, ClassifiedIsSeen, Classified,
     Expiry, Whole, Here, PostsAreDated, ClassifiedOnce
<1> QED
  BY <1>1, TickKeeps, SignKeeps, HandleKeeps, CallsKeep, RestartKeeps DEF NodeNext

\* Whatever arrives twice, is late or restarts, NodeInv holds.
THEOREM NodeInvariance == NodeSpec => []NodeInv
  BY NodeStart, NodeStep, PTL DEF NodeSpec

\* One process classifies a request once, however often it arrives: a second
\* time only in the moments verify_message() forgives the clocks.
THEOREM ClassifiedOnceHolds == NodeSpec => []ClassifiedOnce
<1>1. NodeInv => ClassifiedOnce
  BY DEF NodeInv
<1> QED
  BY <1>1, NodeInvariance, PTL

\* A post lasts no second longer than its signature, and the clocks agree to within
\* what main forgives less a second.
LEMMA DatedLast == NodeInv => SignaturesLast
<1> SUFFICES ASSUME NodeInv, NEW c \in Calls, At(c, "posting"), Here <= calls[c].until
             PROVE  InWindow(calls[c].at, calls[c].expires, now)
  BY DEF SignaturesLast
<1> DEFINE at == calls[c].at
           expires == calls[c].expires
           until == calls[c].until
           o == node.offset
           w == Whole(now)
<1>1. /\ at \in Int /\ expires \in Int /\ until \in Int
      /\ at <= Whole(Here) /\ at % 2 = 0 /\ expires % 2 = 0 /\ until <= expires + 2
  BY DEF NodeInv, MadeAreSent, Made, At, PostsAreDated, CallRecord
<1>2. now \in Int /\ o \in Int /\ Here = now + o /\ 1 - Skew <= o /\ o <= Skew
  BY ClockIsTyped, ClocksAssumption DEF NodeInv, Here
<1>3. w <= expires + Skew
  <2>1. now <= (expires + Skew) + 1 /\ (expires + Skew) \in Int /\ (expires + Skew) % 2 = 0
    <3> HIDE DEF at, expires, until, o, w
    <3>1. Here <= until
      BY DEF until
    <3> QED
      BY <1>1, <1>2, <3>1, Numbers
  <2> QED
    BY <1>2, <2>1, WholeSeconds
<1>4. at <= w + Skew
  <2>1. Whole(now + Skew) = w + Skew /\ Whole(now + o) <= Whole(now + Skew)
    <3>1. now + o \in Int /\ now + Skew \in Int /\ now + o <= now + Skew
      BY <1>2, Numbers
    <3>2. Whole(now + o) <= Whole(now + Skew)
      BY <3>1, WholeSeconds
    <3>3. Whole(now + Skew) = w + Skew
      <4>1. Skew \in Int /\ Skew % 2 = 0 /\ now \in Int
        BY <1>2, Numbers
      <4> QED
        BY <4>1, WholeSeconds
    <3> QED
      BY <3>2, <3>3
  <2>2. w \in Int /\ Whole(now + o) \in Int /\ Whole(Here) = Whole(now + o)
    <3>1. now \in Int /\ now + o \in Int /\ Here = now + o
      BY <1>2
    <3> HIDE DEF o
    <3> QED
      BY <3>1, WholeSeconds
  <2> HIDE DEF w, at
  <2> QED
    BY <1>1, <2>1, <2>2, Numbers
<1>5. w \in Int
  BY <1>2, WholeSeconds
<1> HIDE DEF w, at, expires
<1>6. at <= w + Skew /\ expires >= w - Skew
  BY <1>1, <1>3, <1>4, <1>5, Numbers
<1> QED
  BY <1>6 DEF InWindow, w, at, expires

\* Main refuses no callback for its signature as long as it may arrive, whatever was
\* rounded and however the clocks differ within ClocksAssumption.
THEOREM SignaturesLastHolds == NodeSpec => []SignaturesLast
  BY DatedLast, NodeInvariance, PTL

-----------------------------------------------------------------------------
(* What main stores of what a node proposes *)

Label == [axis : Int, value : Int, confidence : Int]

IsTaxonomy(taxonomy) ==
  \A axis \in DOMAIN taxonomy :
    taxonomy[axis].single \in BOOLEAN /\ taxonomy[axis].values \in Seq(Int)

\* The loop of an AI node over an answer.
Begun == [seen |-> {}, labels |-> <<>>]
Progressed == [seen : SUBSET Int, labels : Seq(Label)]

TakesAll(it, taxonomy, demand, answer) ==
  it = [s \in SUBSET (DOMAIN answer) |->
          IF s = {} THEN Begun
          ELSE Taken(taxonomy, demand, it[s \ {Max(s)}], answer[Max(s)])]

RunOf(run, taxonomy, demand, answer) ==
  /\ run[0] = Begun
  /\ \A k \in 1 .. Len(answer) : run[k] = Taken(taxonomy, demand, run[k - 1], answer[k])

LEMMA TakenTypes ==
  ASSUME NEW taxonomy, NEW demand, NEW sofar \in Progressed, NEW raw \in Label
  PROVE  Taken(taxonomy, demand, sofar, raw) \in Progressed
<1>1. Clamped(raw.confidence) \in Int
  BY DEF Clamped, Label
<1>2. [raw EXCEPT !.confidence = Clamped(@)] \in Label
  BY <1>1 DEF Label
<1>3. Append(sofar.labels, [raw EXCEPT !.confidence = Clamped(@)]) \in Seq(Label)
  BY <1>2 DEF Progressed
<1>4. sofar.seen \cup {raw.axis} \in SUBSET Int
  BY DEF Progressed, Label
<1> QED
  BY <1>3, <1>4 DEF Taken, Progressed

LEMMA AIRuns ==
  ASSUME NEW taxonomy, NEW demand, NEW answer \in Seq(Label)
  PROVE  \E run : /\ RunOf(run, taxonomy, demand, answer)
                  /\ AIProposals(taxonomy, demand, answer) = run[Len(answer)].labels
<1> DEFINE N == Len(answer)
           it == CHOOSE i : TakesAll(i, taxonomy, demand, answer)
<1>0. N \in Nat /\ DOMAIN answer = 1 .. N
  OBVIOUS
<1>1. AIProposals(taxonomy, demand, answer) = it[DOMAIN answer].labels
  BY DEF AIProposals, FoldLeft, MapThenFoldSet, TakesAll, Begun
<1>2. \E i : TakesAll(i, taxonomy, demand, answer)
  <2>1. PICK step : step = [k \in 1 .. N |-> [sofar \in Progressed |->
                                                Taken(taxonomy, demand, sofar, answer[k])]]
    OBVIOUS
  <2>2. Begun \in Progressed
    BY DEF Begun, Progressed
  <2>3. Stepwise(step, N, Progressed)
    <3>1. \A k \in 1 .. N : answer[k] \in Label
      OBVIOUS
    <3>2. ASSUME NEW k \in 1 .. N
          PROVE  [sofar \in Progressed |-> Taken(taxonomy, demand, sofar, answer[k])]
                   \in [Progressed -> Progressed]
      BY <3>1, TakenTypes
    <3> HIDE DEF N
    <3> QED
      BY <2>1, <3>2 DEF Stepwise
  <2> HIDE DEF N
  <2>4. PICK i : Iterates(i, N, Progressed, Begun, step)
    BY <1>0, <2>2, <2>3, Folding
  <2>5. ASSUME NEW s \in SUBSET (1 .. N)
        PROVE  i[s] = IF s = {} THEN Begun
                      ELSE Taken(taxonomy, demand, i[s \ {Max(s)}], answer[Max(s)])
    <3>1. s \ {Max(s)} \in SUBSET (1 .. N)
      OBVIOUS
    <3>2. i[s \ {Max(s)}] \in Progressed
      BY <2>4, <3>1 DEF Iterates
    <3>3. s # {} => Max(s) \in 1 .. N
      BY <1>0, MaxIn
    <3>4. i[s] = IF s = {} THEN Begun ELSE step[Max(s)][i[s \ {Max(s)}]]
      BY <2>4 DEF Iterates
    <3> QED
      BY <2>1, <3>2, <3>3, <3>4
  <2>6. i = [s \in SUBSET (1 .. N) |-> i[s]]
    BY <2>4 DEF Iterates
  <2> QED
    BY <1>0, <2>5, <2>6 DEF TakesAll
<1>3. TakesAll(it, taxonomy, demand, answer)
  BY <1>2, Zenon
<1> HIDE DEF it
<1>4. \A s \in SUBSET (1 .. N) :
        it[s] = IF s = {} THEN Begun
                ELSE Taken(taxonomy, demand, it[s \ {Max(s)}], answer[Max(s)])
  BY <1>0, <1>3 DEF TakesAll
<1> HIDE DEF N
<1> DEFINE run == [k \in 0 .. N |-> it[1 .. k]]
<1>5. run[0] = Begun
  <2>1. 0 \in 0 .. N /\ 1 .. 0 = {}
    BY <1>0
  <2> QED
    BY <1>4, <2>1
<1>6. ASSUME NEW k \in 1 .. N PROVE run[k] = Taken(taxonomy, demand, run[k - 1], answer[k])
  <2>1. k \in 0 .. N /\ k - 1 \in 0 .. N /\ k \in Nat \ {0} /\ k \in 1 .. k
    BY <1>0
  <2>2. PICK upto : upto = 1 .. k
    OBVIOUS
  <2>3. upto \in SUBSET (1 .. N) /\ upto # {}
    <3>1. \A i \in 1 .. k : i \in 1 .. N
      BY <1>0
    <3> QED
      BY <2>1, <2>2, <3>1
  <2>4. upto \ {k} = 1 .. (k - 1)
    BY <2>1, <2>2
  <2>5. Max(upto) = k
    BY <2>1, <2>2, MaxIs
  <2>6. it[upto] = Taken(taxonomy, demand, it[1 .. (k - 1)], answer[k])
    BY <1>4, <2>3, <2>4, <2>5
  <2> QED
    BY <2>1, <2>2, <2>6
<1>7. run[N] = it[1 .. N]
  BY <1>0
<1>8. RunOf(run, taxonomy, demand, answer)
  <2> HIDE DEF run
  <2> QED
    BY <1>5, <1>6 DEF RunOf, N
<1> QED
  BY <1>0, <1>1, <1>7, <1>8 DEF N

\* What a label is stored as, and which places of an answer are taken over: of a single axis
\* the first that is usable.
Cut(label) == [label EXCEPT !.confidence = Clamped(@)]

Good(taxonomy, demand, answer, k) == {i \in 1 .. k : Usable(taxonomy, demand, answer[i])}

Heeded(taxonomy, demand, answer, k) ==
  {i \in Good(taxonomy, demand, answer, k) :
     taxonomy[answer[i].axis].single =>
       \A j \in Good(taxonomy, demand, answer, k) : answer[i].axis = answer[j].axis => i <= j}

SoFar(state, taxonomy, demand, answer, k) ==
  /\ state.labels \in Seq(Label)
  /\ ToSet(state.labels) = {Cut(answer[i]) : i \in Heeded(taxonomy, demand, answer, k)}
  /\ state.seen = {answer[i].axis : i \in Good(taxonomy, demand, answer, k)}

LEMMA CutFields ==
  ASSUME NEW label \in Label
  PROVE  Cut(label) = [axis |-> label.axis, value |-> label.value,
                       confidence |-> Clamped(label.confidence)]
BY DEF Cut, Label

LEMMA CutIs ==
  ASSUME NEW label \in Label
  PROVE  /\ Cut(label) \in Label /\ Cut(label).axis = label.axis /\ Cut(label).value = label.value
         /\ Cut(label).confidence = Clamped(label.confidence)
         /\ Cut(Cut(label)) = Cut(label)
<1>1. Clamped(label.confidence) \in Int /\ Clamped(Clamped(label.confidence)) = Clamped(label.confidence)
  BY DEF Clamped, Label
<1>2. Cut(label) = [axis |-> label.axis, value |-> label.value,
                    confidence |-> Clamped(label.confidence)]
  BY CutFields
<1>3. PICK c : c = Cut(label)
  OBVIOUS
<1>4. /\ c \in Label /\ c.axis = label.axis /\ c.value = label.value
      /\ c.confidence = Clamped(label.confidence)
  BY <1>1, <1>2, <1>3 DEF Label
<1>5. Cut(c) = [axis |-> c.axis, value |-> c.value, confidence |-> Clamped(c.confidence)]
  BY <1>4, CutFields
<1>6. Cut(c) = c
  BY <1>1, <1>2, <1>3, <1>4, <1>5
<1> QED
  BY <1>3, <1>4, <1>6

LEMMA ToSetAppend ==
  ASSUME NEW S, NEW s \in Seq(S), NEW e \in S
  PROVE  ToSet(Append(s, e)) = ToSet(s) \cup {e}
<1>1. /\ Len(s) \in Nat /\ DOMAIN s = 1 .. Len(s) /\ DOMAIN Append(s, e) = 1 .. Len(s) + 1
      /\ Append(s, e)[Len(s) + 1] = e
      /\ \A i \in 1 .. Len(s) : Append(s, e)[i] = s[i]
  OBVIOUS
<1>2. 1 .. Len(s) + 1 = (1 .. Len(s)) \cup {Len(s) + 1}
  BY <1>1
<1>3. ToSet(Append(s, e)) = {Append(s, e)[i] : i \in (1 .. Len(s)) \cup {Len(s) + 1}}
  BY <1>1, <1>2 DEF ToSet
<1>4. ToSet(s) = {s[i] : i \in 1 .. Len(s)}
  BY <1>1 DEF ToSet
<1> QED
  BY <1>1, <1>3, <1>4

\* One more label of an answer.
LEMMA OneMoreTaken ==
  ASSUME NEW taxonomy, IsTaxonomy(taxonomy), NEW demand, demand.min \in Int, NEW answer \in Seq(Label),
         NEW k \in 1 .. Len(answer), NEW state,
         SoFar(state, taxonomy, demand, answer, k - 1)
  PROVE  SoFar(Taken(taxonomy, demand, state, answer[k]), taxonomy, demand, answer, k)
<1> DEFINE raw == answer[k]
           good(n) == Good(taxonomy, demand, answer, n)
           heeded(n) == Heeded(taxonomy, demand, answer, n)
           next == Taken(taxonomy, demand, state, raw)
<1>0. raw \in Label /\ k \in Nat /\ k \in 1 .. k /\ \A i \in 1 .. (k - 1) : i < k /\ i \in 1 .. k
  OBVIOUS
<1>1. \A i \in 1 .. k : i = k \/ i \in 1 .. (k - 1)
  OBVIOUS
<1>2. good(k) = IF Usable(taxonomy, demand, raw) THEN good(k - 1) \cup {k} ELSE good(k - 1)
  <2>1. \A i : i \in good(k) <=> i \in 1 .. k /\ Usable(taxonomy, demand, answer[i])
    BY DEF Good
  <2>2. \A i : i \in good(k - 1) <=> i \in 1 .. (k - 1) /\ Usable(taxonomy, demand, answer[i])
    BY DEF Good
  <2>3. \A i : i \in 1 .. k <=> i = k \/ i \in 1 .. (k - 1)
    BY <1>0, <1>1
  <2> HIDE DEF good
  <2> QED
    BY <2>1, <2>2, <2>3
<1>3. /\ state.labels \in Seq(Label)
      /\ ToSet(state.labels) = {Cut(answer[i]) : i \in heeded(k - 1)}
      /\ state.seen = {answer[i].axis : i \in good(k - 1)}
  BY DEF SoFar
<1>4. Clamped(raw.confidence) < demand.min <=> ~(Clamped(raw.confidence) >= demand.min)
  BY <1>0 DEF Clamped, Label
<1>5. CASE ~Usable(taxonomy, demand, raw)
  <2>1. next = state
    BY <1>5, <1>4 DEF Taken, Usable
  <2>2. good(k) = good(k - 1)
    BY <1>2, <1>5
  <2>3. heeded(k) = heeded(k - 1)
    BY <2>2 DEF Heeded
  <2> QED
    BY <1>3, <2>1, <2>2, <2>3 DEF SoFar
<1>6. CASE Usable(taxonomy, demand, raw)
  <2>0. taxonomy[raw.axis].single \in BOOLEAN
    BY <1>6 DEF Usable, Asked, IsTaxonomy
  <2>1. good(k) = good(k - 1) \cup {k}
    BY <1>2, <1>6
  <2>2. \A i \in good(k - 1) : i < k /\ i <= k /\ ~(k <= i)
    BY <1>0 DEF Good
  <2>3. \A i \in good(k - 1) : i \in heeded(k) <=> i \in heeded(k - 1)
    BY <2>1, <2>2 DEF Heeded
  <2>4. k \in heeded(k) <=> (taxonomy[raw.axis].single => raw.axis \notin state.seen)
    BY <1>0, <1>3, <2>1, <2>2 DEF Heeded
  <2>5. heeded(k) \subseteq good(k) /\ heeded(k - 1) \subseteq good(k - 1)
    BY DEF Heeded
  <2> HIDE DEF good, heeded
  <2>6. CASE taxonomy[raw.axis].single /\ raw.axis \in state.seen
    <3>1. next = state
      BY <2>6 DEF Taken
    <3>2. heeded(k) = heeded(k - 1)
      BY <2>1, <2>3, <2>4, <2>5, <2>6
    <3>3. {answer[i].axis : i \in good(k)} = {answer[i].axis : i \in good(k - 1)}
      BY <1>3, <2>1, <2>6
    <3> QED
      BY <1>3, <3>1, <3>2, <3>3 DEF SoFar, good, heeded
  <2>7. CASE ~(taxonomy[raw.axis].single /\ raw.axis \in state.seen)
    <3>1. next = [seen |-> state.seen \cup {raw.axis}, labels |-> Append(state.labels, Cut(raw))]
      <4>1. /\ raw.axis \in Asked(taxonomy, demand) /\ raw.value \in Values(taxonomy, raw.axis)
            /\ ~(Clamped(raw.confidence) < demand.min)
        BY <1>6, <1>4 DEF Usable
      <4> QED
        BY <2>7, <4>1 DEF Taken, Cut
    <3>2. heeded(k) = heeded(k - 1) \cup {k}
      BY <2>1, <2>2, <2>3, <2>4, <2>5, <2>7
    <3>3. Cut(raw) \in Label
      BY <1>0, CutIs
    <3>4. ToSet(Append(state.labels, Cut(raw))) = ToSet(state.labels) \cup {Cut(raw)}
      BY <1>3, <3>3, ToSetAppend
    <3>5. Append(state.labels, Cut(raw)) \in Seq(Label)
      BY <1>3, <3>3
    <3>6. {Cut(answer[i]) : i \in heeded(k)} = ToSet(state.labels) \cup {Cut(raw)}
      BY <1>3, <3>2
    <3>7. {answer[i].axis : i \in good(k)} = state.seen \cup {raw.axis}
      BY <1>3, <2>1
    <3>8. next.seen = state.seen \cup {raw.axis} /\ next.labels = Append(state.labels, Cut(raw))
      BY <3>1
    <3> HIDE DEF next
    <3>9. SoFar(next, taxonomy, demand, answer, k)
      BY <3>4, <3>5, <3>6, <3>7, <3>8 DEF SoFar, good, heeded
    <3> QED
      BY <3>9 DEF next
  <2> QED
    BY <2>6, <2>7
<1> QED
  BY <1>5, <1>6

\* What an AI node proposes are the places it heeds.
LEMMA AIHeeds ==
  ASSUME NEW taxonomy, IsTaxonomy(taxonomy), NEW demand, demand.min \in Int, NEW answer \in Seq(Label)
  PROVE  ToSet(AIProposals(taxonomy, demand, answer))
           = {Cut(answer[i]) : i \in Heeded(taxonomy, demand, answer, Len(answer))}
<1> DEFINE N == Len(answer)
<1>1. PICK run : /\ RunOf(run, taxonomy, demand, answer)
                 /\ AIProposals(taxonomy, demand, answer) = run[N].labels
  BY AIRuns
<1> DEFINE Done == {k \in 0 .. N : SoFar(run[k], taxonomy, demand, answer, k)}
<1>2. N \in Nat
  OBVIOUS
<1>3. 0 \in Done
  <2>1. run[0] = Begun
    BY <1>1 DEF RunOf
  <2>2. Good(taxonomy, demand, answer, 0) = {}
    BY DEF Good
  <2>3. Heeded(taxonomy, demand, answer, 0) = {}
    BY <2>2 DEF Heeded
  <2>4. ToSet(<<>>) = {} /\ <<>> \in Seq(Label)
    BY DEF ToSet
  <2>5. SoFar(Begun, taxonomy, demand, answer, 0)
    BY <2>2, <2>3, <2>4 DEF SoFar, Begun
  <2> QED
    BY <1>2, <2>1, <2>5
<1>4. ASSUME NEW k \in 1 .. N, k - 1 \in Done PROVE k \in Done
  <2>1. run[k] = Taken(taxonomy, demand, run[k - 1], answer[k])
    BY <1>1 DEF RunOf
  <2>2. SoFar(run[k - 1], taxonomy, demand, answer, k - 1)
    BY <1>4
  <2>3. SoFar(run[k], taxonomy, demand, answer, k)
    BY <2>1, <2>2, OneMoreTaken
  <2> QED
    BY <1>2, <2>3
<1>5. N \in Done
  <2> HIDE DEF Done
  <2>1. 0 .. N \subseteq Done
    BY <1>2, <1>3, <1>4, UpTo
  <2> QED
    BY <1>2, <2>1
<1>6. SoFar(run[N], taxonomy, demand, answer, N)
  BY <1>5
<1> QED
  BY <1>1, <1>6 DEF SoFar

\* The strongest of each value, and what is left of them.
Strongest(usable) ==
  {l \in usable : \A k \in usable :
     l.axis = k.axis /\ l.value = k.value => l.confidence >= k.confidence}

Left(taxonomy, strongest) ==
  {l \in strongest : taxonomy[l.axis].single =>
     \A k \in strongest : k.axis = l.axis => Before(l, k)}

LEMMA NormalizedIs ==
  ASSUME NEW taxonomy, NEW demand, NEW labels \in SUBSET Label, \A l \in labels : Cut(l) = l
  PROVE  Normalized(taxonomy, demand, labels)
           = Left(taxonomy, Strongest({l \in labels : Usable(taxonomy, demand, l)}))
<1> DEFINE usable == {l \in labels : Usable(taxonomy, demand, l)}
<1>1. {Cut(l) : l \in usable} = usable
  OBVIOUS
<1>2. {[l EXCEPT !.confidence = Clamped(@)] : l \in {l \in labels : Usable(taxonomy, demand, l)}}
        = usable
  BY <1>1 DEF Cut
<1> QED
  BY <1>2 DEF Normalized, Left, Strongest

\* The kind of an axis never changes.
SameKinds(taxonomy, present) ==
  \A axis \in DOMAIN taxonomy \cap DOMAIN present : present[axis].single = taxonomy[axis].single

\* Of labels that answer each single axis once, main stores the strongest of each value
\* that it may store by now: a weaker one of the same value is no more usable.
LEMMA OnesAreStored ==
  ASSUME NEW taxonomy, NEW present, SameKinds(taxonomy, present), NEW granted, granted.min \in Int,
         NEW labels \in SUBSET Label,
         \A l \in labels : Cut(l) = l /\ l.axis \in DOMAIN taxonomy,
         \A l, k \in labels : taxonomy[l.axis].single /\ k.axis = l.axis => k = l
  PROVE  Normalized(present, granted, labels)
           = {l \in Strongest(labels) : Usable(present, granted, l)}
<1> DEFINE usable == {l \in labels : Usable(present, granted, l)}
<1>1. Normalized(present, granted, labels) = Left(present, Strongest(usable))
  BY NormalizedIs
<1>2. \A l \in labels : l.confidence \in Int /\ l.value \in Int /\ Clamped(l.confidence) = l.confidence
  BY CutIs DEF Label
<1>3. ASSUME NEW l \in labels, Usable(present, granted, l)
      PROVE  l \in Strongest(usable) <=> l \in Strongest(labels)
  <2>1. ASSUME NEW k \in labels, l.axis = k.axis, l.value = k.value, ~(l.confidence >= k.confidence)
        PROVE  Usable(present, granted, k)
    <3>1. Clamped(l.confidence) >= granted.min
      BY <1>3 DEF Usable
    <3>2. Clamped(k.confidence) >= granted.min
      <4>1. l.confidence \in Int /\ k.confidence \in Int
            /\ Clamped(l.confidence) = l.confidence /\ Clamped(k.confidence) = k.confidence
        BY <1>2, <1>3, <2>1
      <4> QED
        BY <2>1, <3>1, <4>1
    <3> QED
      BY <1>3, <2>1, <3>2 DEF Usable
  <2>2. l \in usable
    BY <1>3
  <2> QED
    BY <1>3, <2>1, <2>2 DEF Strongest
<1>4. Strongest(usable) = {l \in Strongest(labels) : Usable(present, granted, l)}
  <2>1. Strongest(usable) \subseteq usable /\ Strongest(labels) \subseteq labels
    BY DEF Strongest
  <2> QED
    BY <1>3, <2>1
<1>5. ASSUME NEW l \in usable, NEW k \in usable, present[l.axis].single, k.axis = l.axis
      PROVE  Before(l, k)
  <2>1. l.axis \in DOMAIN present /\ l.axis \in DOMAIN taxonomy
    BY <1>5 DEF Usable, Asked
  <2>2. k = l
    BY <1>5, <2>1 DEF SameKinds
  <2>3. l.value \in Int /\ l.confidence \in Int
    BY <1>2, <1>5
  <2> QED
    BY <2>2, <2>3 DEF Before
<1>6. Left(present, Strongest(usable)) = Strongest(usable)
  <2>1. Strongest(usable) \subseteq usable
    BY DEF Strongest
  <2> HIDE DEF usable
  <2> QED
    BY <1>5, <2>1 DEF Left
<1> QED
  BY <1>1, <1>4, <1>6

\* Main stores what the model meant, as far as it may by now.
LEMMA AIAnswerIsStored ==
  ASSUME NEW taxonomy, IsTaxonomy(taxonomy), NEW demand, demand.min \in Int,
         NEW answer \in Seq(Label),
         NEW present, SameKinds(taxonomy, present), NEW granted, granted.min \in Int
  PROVE  Normalized(present, granted, ToSet(AIProposals(taxonomy, demand, answer)))
           = {l \in Meant(taxonomy, demand, answer) : Usable(present, granted, l)}
<1> DEFINE N == Len(answer)
           good == Good(taxonomy, demand, answer, N)
           heeded == Heeded(taxonomy, demand, answer, N)
           kept == {Cut(answer[i]) : i \in heeded}
           single(i) == taxonomy[answer[i].axis].single
           strong(i) == \A j \in good :
                          answer[i].axis = answer[j].axis /\ answer[i].value = answer[j].value
                            => Cut(answer[i]).confidence >= Cut(answer[j]).confidence
           wins == {i \in heeded : ~single(i) => strong(i)}
<1>0. /\ N \in Nat /\ DOMAIN answer = 1 .. N /\ heeded \subseteq good /\ good \subseteq 1 .. N
      /\ \A i \in 1 .. N : answer[i] \in Label
  BY DEF Heeded, Good
<1>1. ToSet(AIProposals(taxonomy, demand, answer)) = kept
  BY AIHeeds
<1>2. \A i \in 1 .. N :
        /\ Cut(answer[i]) \in Label /\ Cut(answer[i]).axis = answer[i].axis
        /\ Cut(answer[i]).value = answer[i].value
        /\ Cut(answer[i]).confidence = Clamped(answer[i].confidence)
        /\ Cut(Cut(answer[i])) = Cut(answer[i])
  BY <1>0, CutIs
<1>3. \A i \in good : /\ Usable(taxonomy, demand, answer[i]) /\ single(i) \in BOOLEAN
                       /\ answer[i].axis \in DOMAIN taxonomy
  BY DEF Good, Usable, Asked, IsTaxonomy
<1>4. \A i \in heeded : single(i) => \A j \in good : answer[i].axis = answer[j].axis => i <= j
  BY DEF Heeded
<1>5. \A i \in good : ~single(i) => i \in heeded
  BY <1>3 DEF Heeded
<1>6. Meant(taxonomy, demand, answer) = {Cut(answer[i]) : i \in wins}
  <2> DEFINE same(i, j) == IF single(i) THEN answer[i].axis = answer[j].axis
                           ELSE answer[i].axis = answer[j].axis /\ answer[i].value = answer[j].value
             over(i, j) == IF single(i) THEN i <= j
                           ELSE Clamped(answer[i].confidence) >= Clamped(answer[j].confidence)
             best == {i \in good : \A j \in good : same(i, j) => over(i, j)}
  <2>1. {i \in DOMAIN answer : Usable(taxonomy, demand, answer[i])} = good
    BY <1>0 DEF Good
  <2>2. Meant(taxonomy, demand, answer) = {Cut(answer[i]) : i \in best}
    BY <2>1 DEF Meant, Cut
  <2>3. ASSUME NEW i \in good PROVE i \in best <=> i \in wins
    <3>1. CASE single(i)
      BY <2>3, <3>1 DEF Heeded
    <3>2. CASE ~single(i)
      <4>1. i \in heeded
        BY <1>5, <3>2
      <4>2. \A j \in good : Cut(answer[j]).confidence = Clamped(answer[j].confidence)
        BY <1>0, <1>2
      <4> HIDE DEF good, heeded
      <4> QED
        BY <2>3, <3>2, <4>1, <4>2
    <3> QED
      BY <1>3, <3>1, <3>2
  <2>4. best = wins
    BY <1>0, <2>3
  <2> QED
    BY <2>2, <2>4
<1>7. kept \in SUBSET Label /\ \A l \in kept : Cut(l) = l /\ l.axis \in DOMAIN taxonomy
  <2>1. ASSUME NEW i \in heeded
        PROVE  /\ Cut(answer[i]) \in Label /\ Cut(Cut(answer[i])) = Cut(answer[i])
               /\ Cut(answer[i]).axis \in DOMAIN taxonomy
    BY <1>0, <1>2, <1>3
  <2> HIDE DEF heeded
  <2> QED
    BY <2>1
<1>8. ASSUME NEW i \in heeded, single(i), NEW j \in heeded, answer[j].axis = answer[i].axis
      PROVE  j = i
  <2>1. i <= j /\ j <= i /\ i \in 1 .. N /\ j \in 1 .. N
    BY <1>0, <1>4, <1>8
  <2> QED
    BY <1>0, <2>1
<1>9. \A l, k \in kept : taxonomy[l.axis].single /\ k.axis = l.axis => k = l
  <2>1. ASSUME NEW i \in heeded, NEW j \in heeded, taxonomy[Cut(answer[i]).axis].single,
               Cut(answer[j]).axis = Cut(answer[i]).axis
        PROVE  Cut(answer[j]) = Cut(answer[i])
    <3>1. single(i) /\ answer[j].axis = answer[i].axis
      BY <1>0, <1>2, <2>1
    <3> QED
      BY <1>8, <3>1
  <2> HIDE DEF heeded
  <2> QED
    BY <2>1
<1>10. Normalized(present, granted, kept) = {l \in Strongest(kept) : Usable(present, granted, l)}
  <2> HIDE DEF kept
  <2> QED
    BY <1>7, <1>9, OnesAreStored
<1>11. ASSUME NEW i \in heeded PROVE Cut(answer[i]) \in Strongest(kept) <=> i \in wins
  <2>0. i \in 1 .. N /\ i \in good /\ Cut(answer[i]).axis = answer[i].axis /\ single(i) \in BOOLEAN
    BY <1>0, <1>2, <1>3
  <2>1. CASE single(i)
    <3>1. Cut(answer[i]) \in kept /\ Cut(answer[i]) \in Label
      BY <1>11, <2>0, <1>2
    <3> HIDE DEF kept
    <3>2. Cut(answer[i]) \in Strongest(kept)
      <4>1. Cut(answer[i]).confidence >= Cut(answer[i]).confidence
        BY <3>1 DEF Label
      <4>2. \A k \in kept : Cut(answer[i]).axis = k.axis => k = Cut(answer[i])
        BY <1>9, <2>0, <2>1, <3>1
      <4> QED
        BY <3>1, <4>1, <4>2 DEF Strongest
    <3> QED
      BY <1>11, <2>1, <3>2
  <2>2. CASE ~single(i)
    <3>2. Cut(answer[i]) \in Strongest(kept) <=>
            \A l \in kept : Cut(answer[i]).axis = l.axis /\ Cut(answer[i]).value = l.value
                              => Cut(answer[i]).confidence >= l.confidence
      <4>1. Cut(answer[i]) \in kept
        BY <1>11
      <4> HIDE DEF kept
      <4> QED
        BY <4>1 DEF Strongest
    <3>3. (\A l \in kept : Cut(answer[i]).axis = l.axis /\ Cut(answer[i]).value = l.value
                             => Cut(answer[i]).confidence >= l.confidence)
            <=> \A j \in heeded : Cut(answer[i]).axis = Cut(answer[j]).axis
                                  /\ Cut(answer[i]).value = Cut(answer[j]).value
                                    => Cut(answer[i]).confidence >= Cut(answer[j]).confidence
      <4> HIDE DEF heeded
      <4> QED
        OBVIOUS
    <3>4. \A j \in heeded : /\ Cut(answer[j]).axis = answer[j].axis
                            /\ Cut(answer[j]).value = answer[j].value
      BY <1>0, <1>2
    <3>5. \A j \in good : answer[i].axis = answer[j].axis => j \in heeded
      <4>1. ASSUME NEW j \in good, answer[i].axis = answer[j].axis PROVE ~single(j)
        BY <2>2, <4>1
      <4> QED
        BY <1>5, <4>1
    <3> HIDE DEF kept, good, heeded
    <3>6. strong(i) <=> \A j \in heeded : Cut(answer[i]).axis = Cut(answer[j]).axis
                                  /\ Cut(answer[i]).value = Cut(answer[j]).value
                                    => Cut(answer[i]).confidence >= Cut(answer[j]).confidence
      BY <1>0, <1>11, <3>4, <3>5
    <3> HIDE DEF strong
    <3> QED
      BY <1>11, <2>2, <3>2, <3>3, <3>6
  <2> QED
    BY <2>0, <2>1, <2>2
<1>12. Strongest(kept) = {Cut(answer[i]) : i \in wins}
  <2>1. Strongest(kept) \subseteq kept
    BY DEF Strongest
  <2>2. ASSUME NEW l \in Strongest(kept) PROVE l \in {Cut(answer[i]) : i \in wins}
    <3>1. PICK i \in heeded : l = Cut(answer[i])
      BY <2>1, <2>2
    <3>2. i \in wins
      BY <1>11, <2>2, <3>1
    <3> HIDE DEF wins
    <3> QED
      BY <3>1, <3>2
  <2>3. \A i \in wins : i \in heeded /\ Cut(answer[i]) \in Strongest(kept)
    BY <1>11
  <2> HIDE DEF wins, heeded, kept
  <2> QED
    BY <2>2, <2>3
<1> HIDE DEF kept, wins
<1> QED
  BY <1>1, <1>6, <1>10, <1>12

\* Of a single axis, the regex node proposes one value.
LEMMA RegexIsTaken ==
  ASSUME NEW taxonomy, IsTaxonomy(taxonomy), DOMAIN taxonomy \subseteq Int,
         NEW demand, demand.min \in Int,
         NEW hits,
         \A axis \in DOMAIN taxonomy : \A value \in Values(taxonomy, axis) : hits[axis][value] \in Nat,
         NEW present, SameKinds(taxonomy, present), NEW granted, granted.min \in Int
  PROVE  Normalized(present, granted, RegexProposals(taxonomy, demand, hits))
           = {l \in RegexProposals(taxonomy, demand, hits) : Usable(present, granted, l)}
<1> DEFINE found == RegexProposals(taxonomy, demand, hits)
           Place(l, i) == /\ i \in DOMAIN taxonomy[l.axis].values
                          /\ Chosen(taxonomy[l.axis], hits[l.axis], i)
                          /\ l.value = taxonomy[l.axis].values[i]
<1>1. ASSUME NEW l \in found
      PROVE  /\ l.axis \in Asked(taxonomy, demand)
             /\ \E i : Place(l, i)
             /\ l = [axis |-> l.axis, value |-> l.value, confidence |-> Confidence(hits[l.axis][l.value])]
             /\ Confidence(hits[l.axis][l.value]) >= demand.min
  <2>1. PICK a \in Asked(taxonomy, demand) :
          \E i \in DOMAIN taxonomy[a].values :
            /\ Chosen(taxonomy[a], hits[a], i)
            /\ Confidence(hits[a][taxonomy[a].values[i]]) >= demand.min
            /\ l = [axis |-> a, value |-> taxonomy[a].values[i],
                    confidence |-> Confidence(hits[a][taxonomy[a].values[i]])]
    BY <1>1 DEF RegexProposals
  <2>2. PICK i \in DOMAIN taxonomy[a].values :
            /\ Chosen(taxonomy[a], hits[a], i)
            /\ Confidence(hits[a][taxonomy[a].values[i]]) >= demand.min
            /\ l = [axis |-> a, value |-> taxonomy[a].values[i],
                    confidence |-> Confidence(hits[a][taxonomy[a].values[i]])]
    BY <2>1
  <2>3. l.axis = a /\ l.value = taxonomy[a].values[i]
    BY <2>2
  <2>4. Place(l, i)
    BY <2>2, <2>3
  <2> HIDE DEF Place
  <2> QED
    BY <2>2, <2>3, <2>4
<1>2. ASSUME NEW l \in found
      PROVE  /\ l \in Label /\ Cut(l) = l /\ l.axis \in DOMAIN taxonomy
             /\ l.confidence = Confidence(hits[l.axis][l.value])
  <2>1. PICK i : Place(l, i)
    BY <1>1
  <2>2. l.axis \in DOMAIN taxonomy /\ taxonomy[l.axis].values \in Seq(Int)
    BY <1>1 DEF Asked, IsTaxonomy
  <2>3. l.value \in Int /\ l.value \in Values(taxonomy, l.axis)
    BY <2>1, <2>2 DEF Values, ToSet
  <2>4. hits[l.axis][l.value] \in Nat /\ hits[l.axis][l.value] > 0
    BY <2>1, <2>2, <2>3 DEF Chosen
  <2>5. PICK c : c = Confidence(hits[l.axis][l.value])
    OBVIOUS
  <2>6. c \in Int /\ Clamped(c) = c
    BY <2>4, <2>5 DEF Confidence, Clamped
  <2>7. l = [axis |-> l.axis, value |-> l.value, confidence |-> c] /\ c >= demand.min
    BY <1>1, <2>5
  <2>8. l.confidence = c
    BY <2>7
  <2>9. l \in Label
    BY <2>2, <2>3, <2>6, <2>7 DEF Label
  <2>10. Cut(l) = l
    BY <2>6, <2>7, <2>8, <2>9, CutFields
  <2> QED
    BY <2>2, <2>5, <2>8, <2>9, <2>10
<1>3. ASSUME NEW l \in found, NEW k \in found, taxonomy[l.axis].single, k.axis = l.axis
      PROVE  k = l
  <2>1. PICK i : Place(l, i)
    BY <1>1
  <2>2. PICK j : Place(k, j)
    BY <1>1
  <2>3. l.axis \in DOMAIN taxonomy /\ taxonomy[l.axis].values \in Seq(Int)
    BY <1>1 DEF Asked, IsTaxonomy
  <2>4. i \in Int /\ j \in Int /\ j \in DOMAIN taxonomy[l.axis].values
    BY <1>3, <2>1, <2>2, <2>3
  <2>5. /\ hits[l.axis][taxonomy[l.axis].values[i]] > 0 /\ hits[l.axis][taxonomy[l.axis].values[j]] > 0
    BY <1>3, <2>1, <2>2 DEF Chosen
  <2> DEFINE c(n) == Confidence(hits[l.axis][taxonomy[l.axis].values[n]])
  <2>6. c(j) < c(i) \/ (c(j) = c(i) /\ i <= j)
    <3>1. Chosen(taxonomy[l.axis], hits[l.axis], i)
      BY <2>1
    <3> QED
      BY <1>3, <2>4, <2>5, <3>1 DEF Chosen
  <2>7. c(i) < c(j) \/ (c(i) = c(j) /\ j <= i)
    <3>1. Chosen(taxonomy[l.axis], hits[l.axis], j) /\ i \in DOMAIN taxonomy[l.axis].values
      BY <1>3, <2>1, <2>2
    <3> QED
      BY <1>3, <2>5, <3>1 DEF Chosen
  <2>8. c(i) = l.confidence /\ c(j) = k.confidence
    BY <1>2, <1>3, <2>1, <2>2
  <2>9. l.confidence \in Int /\ k.confidence \in Int
    BY <1>2 DEF Label
  <2> HIDE DEF c
  <2>10. i = j
    BY <2>4, <2>6, <2>7, <2>8, <2>9
  <2>11. k.value = l.value /\ k.axis = l.axis
    BY <1>3, <2>1, <2>2, <2>10
  <2> QED
    BY <1>1, <2>11
<1>4. Normalized(present, granted, found) = {l \in Strongest(found) : Usable(present, granted, l)}
  <2>1. /\ found \in SUBSET Label
        /\ \A l \in found : Cut(l) = l /\ l.axis \in DOMAIN taxonomy
    BY <1>2
  <2>2. \A l, k \in found : taxonomy[l.axis].single /\ k.axis = l.axis => k = l
    BY <1>3
  <2> HIDE DEF found
  <2> QED
    BY <2>1, <2>2, OnesAreStored
<1>5. \A l, k \in found : l.axis = k.axis /\ l.value = k.value => l.confidence >= k.confidence
  BY <1>2 DEF Label
<1> HIDE DEF found
<1>6. Strongest(found) = found
  BY <1>5 DEF Strongest
<1> QED
  BY <1>4, <1>6 DEF found

\* Whatever the taxonomy and the demand at the request and at the answer, the answer of a model
\* and the findings in a text: main stores what the model meant and all that a regex node
\* found, as far as it may by now (request_builder.py, normalize_response.py, classify.py,
\* result_applier.py, normalization.py).
THEOREM ProposalsAreStored ==
  ASSUME NEW taxonomy, IsTaxonomy(taxonomy), DOMAIN taxonomy \subseteq Int,
         NEW demand, demand.min \in Int, demand = [allowed |-> demand.allowed, min |-> demand.min],
         NEW present, SameKinds(taxonomy, present), NEW granted, granted.min \in Int,
         NEW answers \in SUBSET Seq(Label), NEW findings,
         \A hits \in findings : \A axis \in DOMAIN taxonomy :
           \A value \in Values(taxonomy, axis) : hits[axis][value] \in Nat
  PROVE  StoresWhatIsMeant(taxonomy, demand, present, granted, answers, findings)
<1> DEFINE told == Sent(taxonomy, demand)
<1>0. told.min \in Int
  BY DEF Sent
<1> HIDE DEF told
<1>1. ASSUME NEW answer \in answers
      PROVE  Normalized(present, granted, ToSet(AIProposals(taxonomy, told, answer)))
               = {l \in Meant(taxonomy, told, answer) : Usable(present, granted, l)}
  BY <1>0, AIAnswerIsStored
<1>2. ASSUME NEW hits \in findings
      PROVE  Normalized(present, granted, RegexProposals(taxonomy, told, hits))
               = {l \in RegexProposals(taxonomy, told, hits) : Usable(present, granted, l)}
  BY <1>0, RegexIsTaken
<1> QED
  BY <1>1, <1>2 DEF StoresWhatIsMeant, told

\* Main stores what a node meant, as far as it may by now.
THEOREM MainStoresWhatIsMeantHolds == NodeSpec => []MainStoresWhatIsMeant
<1>1. ASSUME NEW taxonomy \in MCTaxonomies
      PROVE  /\ DOMAIN taxonomy \subseteq {1, 2} /\ IsTaxonomy(taxonomy)
             /\ \A axis \in DOMAIN taxonomy : taxonomy[axis].single = (axis = 1)
             /\ \A axis \in DOMAIN taxonomy : Values(taxonomy, axis) \subseteq {1, 2}
  <2> DEFINE first == [single |-> TRUE, values |-> <<2, 1>>]
             less == [single |-> TRUE, values |-> <<2>>]
             second == [single |-> FALSE, values |-> <<1, 2>>]
             Sound(axis, a) == a.single \in BOOLEAN /\ a.values \in Seq(Int) /\ a.single = (axis = 1)
                               /\ ToSet(a.values) \subseteq {1, 2}
  <2>1. Sound(1, first) /\ Sound(1, less) /\ Sound(2, second)
    <3>1. <<2, 1>> \in Seq(Int) /\ <<2>> \in Seq(Int) /\ <<1, 2>> \in Seq(Int)
      OBVIOUS
    <3>2. ToSet(<<2, 1>>) \subseteq {1, 2} /\ ToSet(<<2>>) \subseteq {1, 2}
          /\ ToSet(<<1, 2>>) \subseteq {1, 2}
      BY DEF ToSet
    <3>3. ASSUME NEW axis, NEW kind \in BOOLEAN, kind = (axis = 1), NEW values \in Seq(Int),
                 ToSet(values) \subseteq {1, 2}
          PROVE  Sound(axis, [single |-> kind, values |-> values])
      BY <3>3
    <3>4. TRUE = (1 = 1) /\ FALSE = (2 = 1)
      OBVIOUS
    <3> HIDE DEF Sound
    <3> QED
      BY <3>1, <3>2, <3>3, <3>4
  <2>2. \/ taxonomy = <<first, second>>
        \/ taxonomy = [a \in {2} |-> <<first, second>>[a]]
        \/ taxonomy = [<<first, second>> EXCEPT ![1] = less]
    BY DEF MCTaxonomies, MCTaxonomy
  <2>3. /\ DOMAIN taxonomy \subseteq {1, 2}
        /\ 1 \in DOMAIN taxonomy => taxonomy[1] \in {first, less}
        /\ 2 \in DOMAIN taxonomy => taxonomy[2] = second
    <3>1. PICK both : both = <<first, second>>
      OBVIOUS
    <3>2. DOMAIN both = {1, 2} /\ both[1] = first /\ both[2] = second
      <4> HIDE DEF first, second
      <4>1. DOMAIN <<first, second>> = 1 .. 2 /\ 1 .. 2 = {1, 2}
        OBVIOUS
      <4> QED
        BY <3>1, <4>1
    <3>3. taxonomy = both \/ taxonomy = [a \in {2} |-> both[a]]
          \/ taxonomy = [both EXCEPT ![1] = less]
      BY <2>2, <3>1
    <3> HIDE DEF first, second, less
    <3> QED
      BY <3>2, <3>3
  <2>4. \A axis \in DOMAIN taxonomy : Sound(axis, taxonomy[axis])
    <3> HIDE DEF Sound, first, less, second
    <3> QED
      BY <2>1, <2>3
  <2> QED
    BY <2>3, <2>4 DEF IsTaxonomy, Values
<1>2. BoundedSeq(MCLabels, 3) \in SUBSET Seq(Label)
  <2>1. MCLabels \subseteq Label
    BY DEF MCLabels, Label
  <2>2. \A m \in 0 .. 3 : [1 .. m -> MCLabels] \subseteq Seq(Label)
    <3> HIDE DEF MCLabels
    <3> QED
      BY <2>1
  <2> QED
    BY <2>2 DEF BoundedSeq, SeqOf
<1>3. \A demand \in MCDemands :
        demand.min \in Int /\ demand = [allowed |-> demand.allowed, min |-> demand.min]
  BY DEF MCDemands
<1>4. ProposalsHold
  <2> SUFFICES ASSUME NEW taxonomy \in MCTaxonomies, NEW present \in MCTaxonomies,
                      NEW demand \in MCDemands, NEW granted \in MCDemands
               PROVE  StoresWhatIsMeant(taxonomy, demand, present, granted, BoundedSeq(MCLabels, 3),
                                        [1 .. 2 -> [1 .. 2 -> {0, 1, 9}]])
    BY DEF ProposalsHold
  <2>1. SameKinds(taxonomy, present)
    BY <1>1 DEF SameKinds
  <2>2. DOMAIN taxonomy \subseteq Int
    BY <1>1
  <2>3. \A hits \in [1 .. 2 -> [1 .. 2 -> {0, 1, 9}]] : \A axis \in DOMAIN taxonomy :
          \A value \in Values(taxonomy, axis) : hits[axis][value] \in Nat
    BY <1>1
  <2> QED
    BY <1>1, <1>2, <1>3, <2>1, <2>2, <2>3, ProposalsAreStored
<1>5. MainStoresWhatIsMeant
  BY <1>4 DEF MainStoresWhatIsMeant
<1> QED
  BY <1>5, PTL

====
