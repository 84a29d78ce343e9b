-------------------------- MODULE NewsPipeline_proofs --------------------------
(***************************************************************************)
(* Proofs about the way of a news into the service: the coordinator of its  *)
(* classification (NewsPipeline) and the intake in front of it (Ingest).    *)
(*                                                                          *)
(* Of the coordinator: for any number of runs, attachments and classifiers, *)
(* IInv is an invariant, and the two action properties follow from it.  The *)
(* invariant is proved conjunct by conjunct over the actions; an action     *)
(* that leaves the variables of a conjunct alone needs no step beyond the   *)
(* citation of its UNCHANGED.                                               *)
(*                                                                          *)
(* Of the intake: for any requests, handlers, uploads and collectors,       *)
(* IntakeInv is an invariant; from it follow that objects are kept and that *)
(* the intake implements IdempotentIngest.  Actions are grouped by what     *)
(* they change (HandlerMoves, ObjectsMove, CollectorMoves), and each        *)
(* action is an instance of its group.                                      *)
(*                                                                          *)
(* Of the parsers in front of the intake: whatever fails, is edited, chosen *)
(* anew or crashes on the way, the TiMe parser remembers an item only once  *)
(* the intake has it, for any sources, items and incidents.                 *)
(***************************************************************************)
EXTENDS NewsPipeline, Ingest, Parsers, Inductions

\* The actions of the editors on the news.
EditorStep ==
  \/ \E target \in Targets : Transition(target)
  \/ MergeInto \/ Split \/ MergeAway

\* The states an editor's move ends in, and what such a move leaves alone.
LEMMA EditorMoves ==
  ASSUME TypeOK, EditorStep
  PROVE  /\ news' \in News
         /\ news'.owner = news.owner
         /\ news'.status \notin {"pending", "processing"}
         /\ PublishedIsDated => PublishedIsDated'
         /\ missing' \subseteq Attachments
         /\ UNCHANGED <<runs, jobs, storing, labelled>>
<1>1. CASE \E target \in Targets : Transition(target)
  BY <1>1 DEF Transition, Transitioned, Targets, TypeOK, News, NewsState, PublishedIsDated
<1>2. CASE MergeInto
  BY <1>2 DEF MergeInto, SentToReview, TypeOK, News, NewsState, PublishedIsDated
<1>3. CASE Split
  BY <1>3 DEF Split, SentToReview, TypeOK, News, NewsState, PublishedIsDated
<1>4. CASE MergeAway
  BY <1>4 DEF MergeAway, MergedAway, TypeOK, News, NewsState, PublishedIsDated
<1>q. QED BY <1>1, <1>2, <1>3, <1>4 DEF EditorStep

\* Opening jobs keeps the type of the job table.
LEMMA OpenType ==
  ASSUME TypeOK, NEW r \in Runs, NEW group
  PROVE  /\ Open(r, group) \in [Runs -> [Children -> JobState]]
         /\ \A q \in Runs : q # r => Open(r, group)[q] = jobs[q]
         /\ \A c \in Children : Open(r, group)[r][c] = IF c \in group THEN "open" ELSE jobs[r][c]
  BY DEF Open, TypeOK, JobState

\* What the coordinator decides is a row of the news table.
LEMMA DecidedType ==
  ASSUME TypeOK, NEW publish \in BOOLEAN
  PROVE  /\ Decided(publish) \in News
         /\ Decided(publish).owner = NoRun
         /\ Decided(publish).status \in {"published", "needs_review"}
         /\ Decided(publish).status = "published" => Decided(publish).published
  BY DEF Decided, TypeOK, News, NewsState

\* Writing one job keeps the type of the job table.
LEMMA JobWritten ==
  ASSUME TypeOK, NEW r \in Runs, NEW c \in Children, NEW state \in JobState
  PROVE  LET written == [jobs EXCEPT ![r][c] = state]
         IN  /\ written \in [Runs -> [Children -> JobState]]
             /\ written[r][c] = state
             /\ \A q \in Runs, d \in Children : q # r \/ d # c => written[q][d] = jobs[q][d]
  BY DEF TypeOK

-----------------------------------------------------------------------------
(* Initial states *)

LEMMA InitIInv == ASSUME Init PROVE IInv
<1>1. TypeOK
  BY PipelineAssumption DEF Init, TypeOK, News, NewsState, Run, RunAt, JobState
<1>2. OwnerIsWorking /\ PublishedIsDated
  BY DEF Init, OwnerIsWorking, PublishedIsDated
<1>3. NobodyForgotten
  BY DEF Init, NobodyForgotten, RunAt
<1>4. StagesInOrder
  BY DEF Init, StagesInOrder, Staged, RunAt, Children
<1>q. QED BY <1>1, <1>2, <1>3, <1>4 DEF IInv

-----------------------------------------------------------------------------
(* Steps *)

\* What remains when the actions of the editors on the news are put aside.
PipelineStep ==
  \/ \E r \in Runs : CoordinatorStep(r) \/ Reprocess(r)
  \/ \E r \in Runs, c \in Children : JobStep(r, c)
  \/ \E r \in Runs, a \in Attachments : AttachmentPasses(r, a) \/ AttachmentAborts(r, a)
  \/ Relabel

\* A next step is one of the pipeline or one of the editors.
LEMMA NextCases == Next <=> PipelineStep \/ EditorStep
  BY DEF Next, PipelineStep, EditorStep

\* Every step writes rows of the right shape.
LEMMA TypeStep == ASSUME TypeOK, [Next]_vars PROVE TypeOK'
<1>1. ASSUME NEW r \in Runs, Start(r) PROVE TypeOK'
  <2>1. news' \in News
    BY <1>1 DEF Start, TypeOK, News, NewsState
  <2>2. runs' \in [Runs -> Run]
    BY <1>1 DEF Start, TypeOK, Run, RunAt
  <2>3. jobs' \in [Runs -> [Children -> JobState]]
    BY <1>1, OpenType DEF Start
  <2>q. QED BY <1>1, <2>1, <2>2, <2>3 DEF Start, TypeOK
<1>2. ASSUME NEW r \in Runs, StartClassifiers(r) PROVE TypeOK'
  <2>1. runs' \in [Runs -> Run]
    BY <1>2 DEF StartClassifiers, TypeOK, Run
  <2>2. jobs' \in [Runs -> [Children -> JobState]]
    BY <1>2, OpenType DEF StartClassifiers
  <2>q. QED BY <1>2, <2>1, <2>2 DEF StartClassifiers, TypeOK
<1>3. ASSUME NEW r \in Runs, Finish(r) PROVE TypeOK'
  <2>1. news' \in News
    BY <1>3, DecidedType DEF Finish, TypeOK, StageFailed
  <2>2. runs' \in [Runs -> Run]
    BY <1>3 DEF Finish, EndStatus, TypeOK, Run
  <2>q. QED BY <1>3, <2>1, <2>2 DEF Finish, TypeOK
<1>4. ASSUME NEW r \in Runs, Reprocess(r) PROVE TypeOK'
  <2>1. news' \in News
    BY <1>4 DEF Reprocess, TypeOK, News, NewsState
  <2>2. runs' \in [Runs -> Run]
    BY <1>4 DEF Reprocess, TypeOK, Run
  <2>q. QED BY <1>4, <2>1, <2>2 DEF Reprocess, TypeOK
<1>5. ASSUME NEW r \in Runs, NEW c \in Children, JobStep(r, c) PROVE TypeOK'
  <2>1. PICK state \in JobState : jobs' = [jobs EXCEPT ![r][c] = state]
    BY <1>5 DEF JobStep, ClassifierSucceeds, JobFails, AttachmentSucceeds, JobState
  <2>0. jobs' \in [Runs -> [Children -> JobState]]
    BY <2>1, JobWritten
  <2>2. missing' \subseteq Attachments /\ storing' \subseteq Runs \X Attachments
    BY <1>5 DEF JobStep, ClassifierSucceeds, JobFails, AttachmentSucceeds, TypeOK
  <2>3. labelled' \in BOOLEAN
    BY <1>5 DEF JobStep, ClassifierSucceeds, JobFails, AttachmentSucceeds, TypeOK
  <2>4. UNCHANGED <<news, runs>>
    BY <1>5 DEF JobStep, ClassifierSucceeds, JobFails, AttachmentSucceeds
  <2>q. QED BY <2>0, <2>2, <2>3, <2>4 DEF TypeOK
<1>6. ASSUME NEW r \in Runs, NEW a \in Attachments, AttachmentPasses(r, a) \/ AttachmentAborts(r, a)
      PROVE  TypeOK'
  BY <1>6 DEF AttachmentPasses, AttachmentAborts, TypeOK
<1>7. CASE Relabel
  BY <1>7 DEF Relabel, TypeOK
<1>8. CASE EditorStep
  BY <1>8, EditorMoves DEF TypeOK
<1>9. CASE UNCHANGED vars
  BY <1>9 DEF vars, TypeOK
<1>q. QED
  BY <1>1, <1>2, <1>3, <1>4, <1>5, <1>6, <1>7, <1>8, <1>9, NextCases DEF PipelineStep, CoordinatorStep

\* The jobs of a run leave the news and the parent jobs alone, and so do the
\* labels.
LEMMA JobsLeaveNews ==
  ASSUME \/ \E r \in Runs, c \in Children : JobStep(r, c)
         \/ \E r \in Runs, a \in Attachments : AttachmentPasses(r, a) \/ AttachmentAborts(r, a)
         \/ Relabel
         \/ UNCHANGED vars
  PROVE  UNCHANGED <<news, runs>>
  BY DEF JobStep, ClassifierSucceeds, JobFails, AttachmentSucceeds, AttachmentPasses,
         AttachmentAborts, Relabel, vars

\* How a coordinator or a reprocessing changes the news and the parent jobs.
LEMMA RunMoves ==
  ASSUME TypeOK, NEW r \in Runs, CoordinatorStep(r) \/ Reprocess(r)
  PROVE  /\ \A q \in Runs : q # r => runs'[q] = runs[q]
         /\ \/ /\ runs[r].status = "pending" /\ runs'[r].status = "waiting_children"
               /\ news'.owner = r /\ news'.status = "processing"
            \/ /\ runs[r].status = "waiting_children" /\ runs'[r].status = "waiting_children"
               /\ news' = news
            \/ /\ runs[r].status = "waiting_children" /\ runs'[r].status = "cancelled"
               /\ news' = news /\ news.owner # r
            \/ /\ runs[r].status = "waiting_children" /\ runs'[r].status = "succeeded"
               /\ news.owner = r /\ news'.owner = NoRun
               /\ news'.status \in {"published", "needs_review"}
               /\ news'.status = "published" => news'.published
            \/ /\ runs[r].status = "absent" /\ runs'[r].status = "pending"
               /\ news'.owner = NoRun /\ news'.status = "pending"
<1>1. CASE Start(r)
  BY <1>1 DEF Start, TypeOK, News, RunAt
<1>2. CASE StartClassifiers(r)
  BY <1>2 DEF StartClassifiers, Waiting, TypeOK, Run
<1>3. CASE Finish(r) /\ ~Owns(r)
  BY <1>3 DEF Finish, Owns, Waiting, TypeOK, Run
<1>4. CASE Finish(r) /\ Owns(r)
  <2>1. PICK publish \in BOOLEAN : news' = Decided(publish)
    BY <1>4, DecidedType DEF Finish, StageFailed, TypeOK
  <2>2. news.owner = r /\ Waiting(r) /\ runs' = [runs EXCEPT ![r].status = "succeeded"]
    BY <1>4 DEF Finish, Owns, EndStatus
  <2>q. QED BY <2>1, <2>2, DecidedType DEF Waiting, TypeOK, Run
<1>5. CASE Reprocess(r)
  BY <1>5 DEF Reprocess, TypeOK, News, Run
<1>q. QED BY <1>1, <1>2, <1>3, <1>4, <1>5 DEF CoordinatorStep

\* The invariants that relate the news to the parent jobs are kept.
LEMMA NewsStep ==
  ASSUME TypeOK, OwnerIsWorking, NobodyForgotten, PublishedIsDated, [Next]_vars
  PROVE  OwnerIsWorking' /\ NobodyForgotten' /\ PublishedIsDated'
<1>0. NoRun \notin Runs /\ news.owner \in Runs \cup {NoRun}
  BY PipelineAssumption DEF TypeOK, News
<1>1. CASE EditorStep
  <2>1. OwnerIsWorking'
    BY <1>1, EditorMoves DEF OwnerIsWorking
  <2>2. NobodyForgotten'
    BY <1>1, EditorMoves DEF NobodyForgotten
  <2>q. QED BY <1>1, <2>1, <2>2, EditorMoves
<1>2. ASSUME NEW r \in Runs, CoordinatorStep(r) \/ Reprocess(r)
      PROVE  OwnerIsWorking' /\ NobodyForgotten' /\ PublishedIsDated'
  <2>1. OwnerIsWorking'
    BY <1>0, <1>2, RunMoves DEF OwnerIsWorking
  <2>2. NobodyForgotten'
    BY <1>0, <1>2, RunMoves DEF NobodyForgotten
  <2>3. PublishedIsDated'
    BY <1>2, RunMoves DEF PublishedIsDated
  <2>q. QED BY <2>1, <2>2, <2>3
<1>3. CASE UNCHANGED <<news, runs>>
  BY <1>3 DEF OwnerIsWorking, NobodyForgotten, PublishedIsDated
<1>q. QED BY <1>1, <1>2, <1>3, NextCases, JobsLeaveNews DEF PipelineStep

\* A run nobody touches stays as it is.
LEMMA StagedFrame ==
  ASSUME NEW q \in Runs, Staged(q), runs'[q] = runs[q], jobs'[q] = jobs[q],
         \A a \in Attachments : <<q, a>> \in storing' => <<q, a>> \in storing
  PROVE  Staged(q)'
  BY DEF Staged, Storable

\* The stages of a run are kept in order.
LEMMA StagesStep == ASSUME TypeOK, StagesInOrder, [Next]_vars PROVE StagesInOrder'
<1> SUFFICES ASSUME NEW q \in Runs PROVE Staged(q)'
  BY DEF StagesInOrder
<1>0. Staged(q) /\ runs[q] \in Run /\ runs \in [Runs -> Run] /\ Attachments \cap Classifiers = {}
  BY PipelineAssumption DEF StagesInOrder, TypeOK
<1>1. ASSUME NEW r \in Runs, Start(r) PROVE Staged(q)'
  <2>1. runs' = [runs EXCEPT ![r] = RunAt("waiting_children", "attachments")] /\ storing' = storing
    BY <1>1 DEF Start
  <2>2. jobs' = Open(r, missing)
    BY <1>1 DEF Start
  <2>3. CASE q # r
    BY <1>0, <2>1, <2>2, <2>3, OpenType, StagedFrame
  <2>4. CASE q = r
    <3>1. runs[q].stage = "none"
      BY <1>0, <1>1, <2>4 DEF Start, Staged
    <3>2. runs'[q].status = "waiting_children" /\ runs'[q].stage = "attachments"
      BY <1>0, <2>1, <2>4 DEF RunAt
    <3>3. \A c \in Classifiers : jobs'[q][c] = "absent"
      <4>1. \A c \in Classifiers : c \notin missing /\ c \in Children
        BY <1>0 DEF TypeOK, Children
      <4>q. QED BY <1>0, <2>2, <2>4, <3>1, <4>1, OpenType DEF Staged
    <3>4. \A a \in Attachments : <<q, a>> \notin storing'
      BY <1>0, <2>1, <3>1 DEF Staged, Storable
    <3>q. QED BY <3>2, <3>3, <3>4 DEF Staged
  <2>q. QED BY <2>3, <2>4
<1>2. ASSUME NEW r \in Runs, StartClassifiers(r) PROVE Staged(q)'
  <2>1. PICK enabled \in SUBSET Classifiers : jobs' = Open(r, enabled)
    BY <1>2 DEF StartClassifiers
  <2>2. runs' = [runs EXCEPT ![r].stage = "classification"] /\ storing' = storing
    BY <1>2 DEF StartClassifiers
  <2>3. CASE q # r
    BY <1>0, <2>1, <2>2, <2>3, OpenType, StagedFrame
  <2>4. CASE q = r
    <3>1. \A a \in Attachments : jobs[q][a] \in {"absent", "succeeded"}
      BY <1>2, <2>4 DEF StartClassifiers, Waiting, StageOver, StageFailed, StageJobs, TypeOK, JobState, Children
    <3>2. runs'[q].status = "waiting_children" /\ runs'[q].stage = "classification"
      BY <1>0, <1>2, <2>2, <2>4 DEF StartClassifiers, Waiting, Run
    <3>3. \A a \in Attachments : jobs'[q][a] \in {"absent", "succeeded"}
      BY <1>0, <2>1, <2>4, <3>1, OpenType DEF Children
    <3>4. \A a \in Attachments : <<q, a>> \notin storing'
      BY <1>0, <2>2, <3>1 DEF Staged, Storable
    <3>q. QED BY <3>2, <3>3, <3>4 DEF Staged
  <2>q. QED BY <2>3, <2>4
<1>3. ASSUME NEW r \in Runs, Finish(r) PROVE Staged(q)'
  <2>1. UNCHANGED <<jobs, storing>> /\ \E end \in {"succeeded", "cancelled"} : runs' = [runs EXCEPT ![r].status = end]
    BY <1>3 DEF Finish, EndStatus
  <2>2. CASE q # r
    BY <1>0, <2>1, <2>2, StagedFrame
  <2>3. CASE q = r
    <3>1. runs'[q].stage = runs[q].stage /\ runs'[q].status \in {"succeeded", "cancelled"}
      BY <1>0, <2>1, <2>3 DEF Run
    <3>2. runs[q].stage # "none"
      BY <1>0, <1>3, <2>3 DEF Finish, Waiting, Staged
    <3>q. QED BY <1>0, <2>1, <3>1, <3>2 DEF Staged, Storable
  <2>q. QED BY <2>2, <2>3
<1>4. ASSUME NEW r \in Runs, Reprocess(r) PROVE Staged(q)'
  <2>1. UNCHANGED <<jobs, storing>> /\ runs' = [runs EXCEPT ![r].status = "pending"]
    BY <1>4 DEF Reprocess
  <2>2. CASE q # r
    BY <1>0, <2>1, <2>2, StagedFrame
  <2>3. CASE q = r
    BY <1>0, <1>4, <2>1, <2>3 DEF Reprocess, Staged, Storable, Run
  <2>q. QED BY <2>2, <2>3
<1>5. ASSUME NEW r \in Runs, NEW c \in Children, JobStep(r, c) PROVE Staged(q)'
  <2>1. runs' = runs
    BY <1>5 DEF JobStep, ClassifierSucceeds, JobFails, AttachmentSucceeds
  <2>2. \A a \in Attachments : <<q, a>> \in storing' => <<q, a>> \in storing
    BY <1>5 DEF JobStep, ClassifierSucceeds, JobFails, AttachmentSucceeds
  <2>3. PICK state \in {"succeeded", "dead_letter"} : jobs' = [jobs EXCEPT ![r][c] = state]
    BY <1>5 DEF JobStep, ClassifierSucceeds, JobFails, AttachmentSucceeds
  <2>4. CASE q # r
    BY <1>0, <2>1, <2>2, <2>3, <2>4, StagedFrame DEF TypeOK
  <2>5. CASE q = r
    <3>1. /\ jobs'[q][c] = state
          /\ \A d \in Children : d # c => jobs'[q][d] = jobs[q][d]
      BY <2>3, <2>5, JobWritten DEF JobState
    <3>2. jobs[q][c] # "absent"
      BY <1>0, <1>5, <2>5 DEF JobStep, ClassifierSucceeds, JobFails, AttachmentSucceeds, Staged, Storable, TypeOK
    <3>3. CASE state = "succeeded" /\ c \in Attachments /\ <<q, c>> \notin storing'
      BY <1>0, <2>1, <2>2, <3>1, <3>2, <3>3 DEF Staged, Storable, Children
    <3>4. CASE c \in Classifiers
      BY <1>0, <2>1, <2>2, <3>1, <3>2, <3>4 DEF Staged, Storable, Children
    <3>5. CASE state = "dead_letter" /\ jobs[q][c] = "open"
      BY <1>0, <2>1, <2>2, <3>1, <3>5 DEF Staged, Storable, Children
    <3>6. jobs' = [jobs EXCEPT ![r][c] = "dead_letter"] => jobs'[q][c] = "dead_letter"
      BY <2>5, JobWritten DEF JobState
    <3>7. jobs' = [jobs EXCEPT ![r][c] = "succeeded"] => jobs'[q][c] = "succeeded"
      BY <2>5, JobWritten DEF JobState
    <3>q. QED
      BY <1>5, <2>5, <3>1, <3>3, <3>4, <3>5, <3>6, <3>7
      DEF JobStep, ClassifierSucceeds, JobFails, AttachmentSucceeds, TypeOK
  <2>q. QED BY <2>4, <2>5
<1>6. ASSUME NEW r \in Runs, NEW a \in Attachments, AttachmentPasses(r, a) \/ AttachmentAborts(r, a)
      PROVE  Staged(q)'
  BY <1>0, <1>6 DEF AttachmentPasses, AttachmentAborts, Staged, Storable
<1>7. CASE UNCHANGED <<runs, jobs, storing>>
  BY <1>0, <1>7, StagedFrame
<1>8. EditorStep \/ Relabel \/ UNCHANGED vars => UNCHANGED <<runs, jobs, storing>>
  BY EditorMoves DEF Relabel, vars
<1>q. QED
  BY <1>1, <1>2, <1>3, <1>4, <1>5, <1>6, <1>7, <1>8, NextCases DEF PipelineStep, CoordinatorStep

-----------------------------------------------------------------------------
(* Theorems *)

\* The inductive invariant holds in every reachable state.
THEOREM Invariance == Spec => []IInv
<1>1. Init => IInv
  BY InitIInv
<1>2. IInv /\ [Next]_vars => IInv'
  BY TypeStep, NewsStep, StagesStep DEF IInv
<1>q. QED BY <1>1, <1>2, PTL DEF Spec

\* Every variable keeps its type.
THEOREM TypeCorrect == Spec => []TypeOK
<1>1. IInv => TypeOK
  BY DEF IInv
<1>q. QED BY <1>1, Invariance, PTL

\* The run that owns the news is waiting for its jobs, and will decide.
THEOREM OwnerIsWorkingHolds == Spec => []OwnerIsWorking
<1>1. IInv => OwnerIsWorking
  BY DEF IInv
<1>q. QED BY <1>1, Invariance, PTL

\* A news the pipeline has to deal with has a run that deals with it.
THEOREM NobodyForgottenHolds == Spec => []NobodyForgotten
<1>1. IInv => NobodyForgotten
  BY DEF IInv
<1>q. QED BY <1>1, Invariance, PTL

\* A published news has a date, so the visibility barrier watches it.
THEOREM PublishedIsDatedHolds == Spec => []PublishedIsDated
<1>1. IInv => PublishedIsDated
  BY DEF IInv
<1>q. QED BY <1>1, Invariance, PTL

\* No classifier starts before the attachments of its run are dealt with.
THEOREM StagesInOrderHolds == Spec => []StagesInOrder
<1>1. IInv => StagesInOrder
  BY DEF IInv
<1>q. QED BY <1>1, Invariance, PTL

\* A run that lost the news ends cancelled and never decides about it.
THEOREM SupersededStaysSoHolds == Spec => SupersededStaysSo
<1> DEFINE Superseded ==
      \A r \in Runs :
        runs[r].status = "waiting_children" /\ news.owner # r =>
          /\ news'.owner # r
          /\ runs'[r].status \in {"waiting_children", "cancelled"}
          /\ runs'[r].status = "cancelled" => news' = news
<1>1. ASSUME IInv, [Next]_vars PROVE Superseded
  <2>0. TypeOK /\ NoRun \notin Runs
    BY <1>1, PipelineAssumption DEF IInv
  <2>1. CASE EditorStep
    BY <2>0, <2>1, EditorMoves
  <2>2. ASSUME NEW r \in Runs, CoordinatorStep(r) \/ Reprocess(r) PROVE Superseded
    BY <2>0, <2>2, RunMoves
  <2>3. CASE UNCHANGED <<news, runs>>
    BY <2>3
  <2>q. QED BY <1>1, <2>1, <2>2, <2>3, NextCases, JobsLeaveNews DEF PipelineStep
<1>2. IInv /\ [Next]_vars => [Superseded]_vars
  BY <1>1
<1>q. QED BY <1>2, Invariance, PTL DEF Spec, SupersededStaysSo

\* The pipeline publishes only what all jobs of the owning run succeeded for.
THEOREM AutoPublishedIsCompleteHolds == Spec => AutoPublishedIsComplete
<1> DEFINE Complete ==
      \A r \in Runs :
        runs[r].status # runs'[r].status /\ news'.status = "published" /\ news' # news =>
          /\ news.owner = r /\ labelled
          /\ \A c \in Children : jobs[r][c] \in {"absent", "succeeded"}
<1>1. ASSUME IInv, [Next]_vars PROVE Complete
  <2>0. TypeOK /\ StagesInOrder /\ NoRun \notin Runs
    BY <1>1, PipelineAssumption DEF IInv
  <2>1. CASE EditorStep
    BY <2>0, <2>1, EditorMoves
  <2>2. ASSUME NEW r \in Runs, CoordinatorStep(r) \/ Reprocess(r), ~(Finish(r) /\ Owns(r)) PROVE Complete
    BY <2>0, <2>2, RunMoves DEF Owns, CoordinatorStep, Start, StartClassifiers, Finish, Reprocess, TypeOK, News
  <2>3. ASSUME NEW r \in Runs, Finish(r), Owns(r) PROVE Complete
    <3>1. \A q \in Runs : q # r => runs'[q] = runs[q]
      BY <2>0, <2>3, RunMoves DEF CoordinatorStep
    <3>2. ASSUME news'.status = "published" PROVE labelled /\ ~StageFailed(r)
      BY <2>0, <2>3, <3>2 DEF Finish, Decided, Owns, TypeOK, News
    <3>3. ASSUME ~StageFailed(r) PROVE \A c \in Children : jobs[r][c] \in {"absent", "succeeded"}
      BY <2>0, <2>3, <3>3 DEF Finish, Waiting, StageOver, StageFailed, StageJobs, StagesInOrder, Staged, TypeOK, Run, Children, JobState
    <3>q. QED BY <2>3, <3>1, <3>2, <3>3 DEF Owns
  <2>4. CASE UNCHANGED <<news, runs>>
    BY <2>4
  <2>q. QED BY <1>1, <2>1, <2>2, <2>3, <2>4, NextCases, JobsLeaveNews DEF PipelineStep, CoordinatorStep
<1>2. IInv /\ [Next]_vars => [Complete]_vars
  BY <1>1
<1>q. QED BY <1>2, Invariance, PTL DEF Spec, AutoPublishedIsComplete

-----------------------------------------------------------------------------
(***************************************************************************)
(* The intake of news                                                      *)
(***************************************************************************)

AskedFor(h) == handlers[h].request

\* A request at work is one of the requests, and an outcome is told of one.
Asking == \A h \in Handlers : ~At(h, "idle") => AskedFor(h) \in Requests

\* Neither two rows, nor a row and what a handler has inserted, nor what two
\* handlers have inserted share an identity.
IdentitiesApart ==
  /\ \A q, r \in rows : Meets(q, r) => q = r
  /\ \A h \in Handlers : Inserted(h) => \A q \in rows : ~Meets(q, AskedFor(h))
  /\ \A g, h \in Handlers : Inserted(g) /\ Inserted(h) /\ g # h => ~Meets(AskedFor(g), AskedFor(h))

Completing(u) == completing[u].pc # "idle"

Batched(c, u) == u \in collectors[c].batch

Writing(h, u) == At(h, "committing") /\ AskedFor(h).file = u

\* The row of an upload is locked by one transaction at a time.
OneHolder ==
  \A u \in Uploads :
    /\ Completing(u) => \A c \in Collectors : ~Batched(c, u)
    /\ \A h \in Handlers : Writing(h, u) => ~Completing(u) /\ \A c \in Collectors : ~Batched(c, u)
    /\ \A c, d \in Collectors : Batched(c, u) /\ Batched(d, u) => c = d
    /\ \A g, h \in Handlers : Writing(g, u) /\ Writing(h, u) => g = h

Once(u) == intents[u].status \in {"completed", "expired"} /\ intents[u].key \in Copies

\* What a transaction read of the row it holds is still so.
HeldIsFit ==
  \A u \in Uploads :
    /\ Completing(u) => intents[u].status = "pending" /\ ~intents[u].attached
    /\ \A c \in Collectors : Batched(c, u) => Collectable(u)
    /\ \A h \in Handlers :
         handlers[h].pc \in {"attaching", "committing"} /\ AskedFor(h).file = u => Once(u)

\* Only what is due expires, only what was completed is attached, and the rows
\* of submissions name attached uploads.
IntentsAreSound ==
  /\ \A u \in Uploads :
       /\ intents[u].status = "expired" => intents[u].due
       /\ intents[u].attached => Once(u)
  /\ \A q \in rows : q.file \in Uploads => intents[q.file].attached

Dooms(c, k) == collectors[c].doomed = k /\ k # Nothing

Remembers(c, k) == k \in collectors[c].todo \/ Dooms(c, k)

\* A copy under way is young, unknown to the collectors, and good once verified.
CopyIsSafe ==
  \A u \in Uploads : completing[u].pc \in {"copied", "cleaned"} =>
    LET k == <<u, completing[u].copy>> IN
    /\ completing[u].copy \in Copies
    /\ ~store[k].old /\ \A c \in Collectors : ~Remembers(c, k)
    /\ completing[u].pc = "cleaned" => store[k].content = "good"

\* What a collector is about to delete belongs to no completed upload.
DoomedIsUnused ==
  \A c \in Collectors, u \in Uploads : intents[u].status = "completed" =>
    ~Dooms(c, <<u, intents[u].key>>)

IntakeInv ==
  /\ IngestTypeOK /\ Asking /\ IdentitiesApart
  /\ OneHolder /\ HeldIsFit /\ IntentsAreSound /\ CopyIsSafe /\ DoomedIsUnused /\ CompletedIsKept

USE IngestAssumption

-----------------------------------------------------------------------------
(* What a handler does but its commit *)

\* A handler that moves on keeps the invariant if what it comes to is sound.
LEMMA HandlerMoves ==
  ASSUME IntakeInv, NEW h \in Handlers, NEW s \in Handler,
         handlers' = [handlers EXCEPT ![h] = s],
         UNCHANGED <<rows, source, intents, store, completing, collectors, others>>,
         left' \in 0 .. MaxIncidents,
         s.pc # "idle" => s.request \in Requests,
         s.pc \in {"reading", "attaching", "committing"} =>
           /\ \A q \in rows : ~Meets(q, s.request)
           /\ \A g \in Handlers \ {h} : Inserted(g) => ~Meets(AskedFor(g), s.request),
         s.pc \in {"attaching", "committing"} /\ s.request.file \in Uploads => Once(s.request.file),
         s.pc = "committing" /\ s.request.file \in Uploads => ~Locked(s.request.file)
  PROVE  IntakeInv'
<1>h. /\ handlers'[h] = s
      /\ \A g \in Handlers \ {h} : handlers'[g] = handlers[g]
  BY DEF IntakeInv, IngestTypeOK
<1>1. IngestTypeOK'
  BY DEF IntakeInv, IngestTypeOK
<1>2. Asking'
  BY <1>h DEF IntakeInv, Asking, AskedFor, At
<1>3. IdentitiesApart'
  BY <1>h DEF IntakeInv, IdentitiesApart, AskedFor, Inserted, Meets
<1>4. OneHolder'
  BY <1>h DEF IntakeInv, OneHolder, Completing, Batched, Writing, At, AskedFor, Locked
<1>5. HeldIsFit'
  BY <1>h DEF IntakeInv, HeldIsFit, Completing, Batched, Collectable, Once, AskedFor
<1>6. (IntentsAreSound /\ CopyIsSafe /\ DoomedIsUnused /\ CompletedIsKept)'
  BY DEF IntakeInv, IntentsAreSound, CopyIsSafe, DoomedIsUnused, CompletedIsKept, Once, Dooms, Remembers
<1> QED
  BY <1>1, <1>2, <1>3, <1>4, <1>5, <1>6 DEF IntakeInv

\* A request has a file or none, and meets itself.
LEMMA RequestsAreTyped ==
  ASSUME NEW r \in Requests
  PROVE  r.file \in Uploads \cup {NoFile} /\ r # Nothing /\ Meets(r, r)
  BY DEF Meets

\* Every step of a handler before and after its commit keeps the invariant.
LEMMA HandlersKeep ==
  ASSUME IntakeInv, NEW h \in Handlers
  PROVE  /\ (\E r \in Requests : Submit(h, r)) => IntakeInv'
         /\ ReadSource(h) => IntakeInv'
         /\ Insert(h) => IntakeInv'
         /\ ReadIntent(h) => IntakeInv'
         /\ Attach(h) => IntakeInv'
         /\ Refind(h) => IntakeInv'
         /\ Hear(h) => IntakeInv'
         /\ Abort(h) => IntakeInv'
<1>t. /\ handlers[h] \in Handler /\ left \in 0 .. MaxIncidents
      /\ handlers \in [Handlers -> Handler]
      /\ handlers[h].pc # "idle" => handlers[h].request \in Requests
  BY DEF IntakeInv, IngestTypeOK, Asking, AskedFor, At
<1>a. NotAsked \in Handler
  BY DEF NotAsked, Handler
<1>1. ASSUME NEW r \in Requests, Submit(h, r) PROVE IntakeInv'
  <2>1. CASE Matching(r) # {}
    <3> DEFINE s == [pc |-> "answered", request |-> r, outcome |-> Judged(r)]
    <3>1. handlers' = [handlers EXCEPT ![h] = s] /\ s \in Handler
      BY <1>1, <2>1 DEF Submit, Answer, Judged, Handler
    <3> QED
      BY <1>1, <1>t, <3>1, HandlerMoves DEF Submit
  <2>2. CASE Matching(r) = {}
    <3> DEFINE s == [pc |-> "sourcing", request |-> r, outcome |-> "none"]
    <3>1. handlers' = [handlers EXCEPT ![h] = s] /\ s \in Handler
      BY <1>1, <2>2 DEF Submit, Handler
    <3> QED
      BY <1>1, <1>t, <3>1, HandlerMoves DEF Submit
  <2> QED
    BY <2>1, <2>2
<1>8. ASSUME ReadSource(h) PROVE IntakeInv'
  <2> DEFINE r == handlers[h].request
             s == IF source THEN [handlers[h] EXCEPT !.pc = "inserting"]
                  ELSE [pc |-> "answered", request |-> r, outcome |-> "declined"]
  <2>0. At(h, "sourcing") /\ r \in Requests
    BY <1>8, <1>t DEF ReadSource, At
  <2>1. handlers' = [handlers EXCEPT ![h] = s]
    BY <1>8 DEF ReadSource, ToStep, Answer
  <2>2. s \in Handler /\ s.request = r /\ s.pc \in {"inserting", "answered"}
    BY <1>t, <2>0 DEF Handler
  <2> HIDE DEF s
  <2> QED
    BY <1>8, <1>t, <2>0, <2>1, <2>2, HandlerMoves DEF ReadSource
<1>2. ASSUME Insert(h) PROVE IntakeInv'
  <2> DEFINE r == handlers[h].request
             s == [handlers[h] EXCEPT !.pc = IF Matching(r) # {} THEN "raced"
                     ELSE IF r.file = NoFile THEN "committing" ELSE "reading"]
  <2>1. handlers' = [handlers EXCEPT ![h] = s] /\ s \in Handler /\ r \in Requests
    <3>1. handlers' = [handlers EXCEPT ![h] = s]
      BY <1>2, <1>t DEF Insert, ToStep
    <3> QED
      BY <1>2, <1>t, <3>1 DEF Insert, At, Handler
  <2>2. s.request = r /\ s.pc \in {"raced", "committing", "reading"}
    BY <1>t DEF Handler
  <2>3. s.pc # "raced" => /\ \A q \in rows : ~Meets(q, r)
                          /\ \A g \in Handlers \ {h} : Inserted(g) => ~Meets(AskedFor(g), r)
    BY <1>2, <1>t DEF Insert, Matching, AskedFor, Handler
  <2>4. s.pc = "committing" => r.file \notin Uploads
    BY <1>t DEF Handler
  <2> HIDE DEF s
  <2> QED
    BY <1>2, <1>t, <2>1, <2>2, <2>3, <2>4, HandlerMoves DEF Insert
<1>3. ASSUME ReadIntent(h) PROVE IntakeInv'
  <2> DEFINE r == handlers[h].request
  <2>0. At(h, "reading") /\ r \in Requests
    BY <1>3, <1>t DEF ReadIntent, At
  <2>1. CASE Usable(r.file)
    <3> DEFINE s == [handlers[h] EXCEPT !.pc = "attaching"]
    <3>1. handlers' = [handlers EXCEPT ![h] = s] /\ s \in Handler
      BY <1>3, <1>t, <2>1 DEF ReadIntent, ToStep, Handler
    <3>2. s.pc = "attaching" /\ s.request = r
      BY <1>t DEF Handler
    <3>3. r.file \in Uploads => Once(r.file)
      BY <2>1 DEF Usable, Once, IntakeInv, IngestTypeOK, Intent
    <3>4. /\ \A q \in rows : ~Meets(q, r)
          /\ \A g \in Handlers \ {h} : Inserted(g) => ~Meets(AskedFor(g), r)
      BY <2>0 DEF IntakeInv, IdentitiesApart, AskedFor, Inserted, At
    <3> HIDE DEF s
    <3> QED
      BY <1>3, <1>t, <2>0, <3>1, <3>2, <3>3, <3>4, HandlerMoves DEF ReadIntent
  <2>2. CASE ~Usable(r.file)
    <3> DEFINE s == [pc |-> "answered", request |-> r, outcome |-> "conflict"]
    <3>1. handlers' = [handlers EXCEPT ![h] = s] /\ s \in Handler
      BY <1>3, <2>0, <2>2 DEF ReadIntent, Answer, Handler
    <3> QED
      BY <1>3, <1>t, <2>0, <3>1, HandlerMoves DEF ReadIntent
  <2> QED
    BY <2>1, <2>2
<1>4. ASSUME Attach(h) PROVE IntakeInv'
  <2> DEFINE r == handlers[h].request
             s == [handlers[h] EXCEPT !.pc = IF KeyTaken(r.file) THEN "raced" ELSE "committing"]
  <2>0. At(h, "attaching") /\ r \in Requests /\ ~Locked(r.file)
    BY <1>4, <1>t DEF Attach, At
  <2>1. handlers' = [handlers EXCEPT ![h] = s] /\ s \in Handler
    BY <1>4, <1>t DEF Attach, ToStep, Handler
  <2>2. s.request = r /\ s.pc \in {"raced", "committing"}
    BY <1>t DEF Handler
  <2>3. /\ \A q \in rows : ~Meets(q, r)
        /\ \A g \in Handlers \ {h} : Inserted(g) => ~Meets(AskedFor(g), r)
        /\ r.file \in Uploads => Once(r.file)
    BY <2>0 DEF IntakeInv, IdentitiesApart, HeldIsFit, AskedFor, Inserted, At
  <2> HIDE DEF s
  <2> QED
    BY <1>4, <1>t, <2>0, <2>1, <2>2, <2>3, HandlerMoves DEF Attach
<1>5. ASSUME Refind(h) PROVE IntakeInv'
  <2> DEFINE r == handlers[h].request
             s == [pc |-> "answered", request |-> r, outcome |-> Judged(r)]
  <2>1. handlers' = [handlers EXCEPT ![h] = s] /\ s \in Handler /\ r \in Requests
    BY <1>5, <1>t DEF Refind, Refound, Answer, Judged, At, Handler
  <2> QED
    BY <1>5, <1>t, <2>1, HandlerMoves DEF Refind
<1>6. ASSUME Hear(h) PROVE IntakeInv'
  BY <1>6, <1>t, <1>a, HandlerMoves DEF Hear, NotAsked
<1>7. ASSUME Abort(h) PROVE IntakeInv'
  <2>1. left' \in 0 .. MaxIncidents
    BY <1>7, <1>t DEF Abort, Incident
  <2> QED
    BY <1>7, <1>t, <1>a, <2>1, HandlerMoves DEF Abort, NotAsked
<1> QED
  BY <1>1, <1>2, <1>3, <1>4, <1>5, <1>6, <1>7, <1>8

-----------------------------------------------------------------------------
(* The commit of a submission *)

\* The commit adds the row, attaches the upload and gives up the lock.
LEMMA HandlerWrites ==
  ASSUME IntakeInv, NEW h \in Handlers, At(h, "committing"), Written(h),
         NEW s \in Handler, s.pc \in {"idle", "answered"},
         s.pc = "answered" => s.request = AskedFor(h),
         handlers' = [handlers EXCEPT ![h] = s],
         UNCHANGED <<source, store, completing, collectors, others>>,
         left' \in 0 .. MaxIncidents
  PROVE  IntakeInv'
<1> DEFINE r == AskedFor(h)
<1>r. r \in Requests /\ rows' = rows \cup {r} /\ handlers[h].pc = "committing"
  BY DEF IntakeInv, Asking, AskedFor, At, Written
<1>h. /\ handlers'[h] = s
      /\ \A g \in Handlers \ {h} : handlers'[g] = handlers[g]
  BY DEF IntakeInv, IngestTypeOK
<1>o. r.file \in Uploads =>
        /\ Once(r.file) /\ ~Completing(r.file)
        /\ \A c \in Collectors : ~Batched(c, r.file)
  BY <1>r DEF IntakeInv, OneHolder, HeldIsFit, Writing, At
<1>i. \A u \in Uploads :
        /\ intents'[u] \in Intent
        /\ intents'[u].status = intents[u].status /\ intents'[u].due = intents[u].due
        /\ intents'[u].key = intents[u].key
        /\ u # r.file => intents'[u] = intents[u]
        /\ u = r.file => intents'[u].attached
  <2> SUFFICES ASSUME NEW u \in Uploads
               PROVE  /\ intents'[u] \in Intent
                      /\ intents'[u].status = intents[u].status /\ intents'[u].due = intents[u].due
                      /\ intents'[u].key = intents[u].key
                      /\ u # r.file => intents'[u] = intents[u]
                      /\ u = r.file => intents'[u].attached
    OBVIOUS
  <2>1. intents[u] \in Intent
    BY DEF IntakeInv, IngestTypeOK
  <2>2. CASE u = r.file
    <3>1. intents'[u] = [intents[u] EXCEPT !.attached = TRUE]
      BY <2>2 DEF Written, AskedFor
    <3> QED
      BY <2>1, <2>2, <3>1 DEF Intent
  <2>3. CASE u # r.file
    <3>1. intents'[u] = intents[u]
      BY <2>3 DEF Written, AskedFor
    <3> QED
      BY <2>1, <2>3, <3>1 DEF Intent
  <2> QED
    BY <2>2, <2>3
<1>1. IngestTypeOK'
  <2>1. intents' \in [Uploads -> Intent]
    BY <1>i DEF Written
  <2>2. \A u \in Uploads : intents'[u].status = "completed" \/ intents'[u].attached =>
                             intents'[u].key # Nothing
    BY <1>i, <1>o DEF Once, IntakeInv, IngestTypeOK
  <2> QED
    BY <1>r, <2>1, <2>2 DEF IntakeInv, IngestTypeOK
<1>2. Asking'
  BY <1>h, <1>r DEF IntakeInv, Asking, AskedFor, At
<1>3. IdentitiesApart'
  <2>1. \A q \in rows : ~Meets(q, r) /\ ~Meets(r, q)
    BY <1>r DEF IntakeInv, IdentitiesApart, Inserted, Meets, AskedFor
  <2>2. \A g \in Handlers \ {h} : Inserted(g) => ~Meets(r, AskedFor(g))
    BY <1>r DEF IntakeInv, IdentitiesApart, Inserted
  <2> QED
    BY <1>r, <1>h, <2>1, <2>2 DEF IntakeInv, IdentitiesApart, AskedFor, Inserted, Meets
<1>4. OneHolder'
  BY <1>h DEF IntakeInv, OneHolder, Completing, Batched, Writing, At, AskedFor
<1>5. HeldIsFit'
  BY <1>h, <1>i, <1>o DEF IntakeInv, HeldIsFit, Completing, Batched, Collectable, Once, AskedFor
<1>6. IntentsAreSound'
  BY <1>r, <1>i, <1>o DEF IntakeInv, IntentsAreSound, Once
<1>7. (CopyIsSafe /\ DoomedIsUnused /\ CompletedIsKept)'
  BY <1>i DEF IntakeInv, CopyIsSafe, DoomedIsUnused, CompletedIsKept, Dooms, Remembers
<1> QED
  BY <1>1, <1>2, <1>3, <1>4, <1>5, <1>6, <1>7 DEF IntakeInv

\* Heard or not, a commit keeps the invariant.
LEMMA CommitsKeep ==
  ASSUME IntakeInv, NEW h \in Handlers, Commit(h) \/ CommitUnheard(h)
  PROVE  IntakeInv'
<1>t. left \in 0 .. MaxIncidents /\ handlers[h].request \in Requests
  BY DEF IntakeInv, IngestTypeOK, Asking, AskedFor, At, Commit, CommitUnheard
<1>1. CASE Commit(h)
  <2> DEFINE s == [pc |-> "answered", request |-> handlers[h].request, outcome |-> "accepted"]
  <2>1. handlers' = [handlers EXCEPT ![h] = s] /\ s \in Handler
    BY <1>1, <1>t DEF Commit, Answer, Handler
  <2> QED
    BY <1>1, <1>t, <2>1, HandlerWrites DEF Commit, AskedFor
<1>2. CASE CommitUnheard(h)
  <2>1. left' \in 0 .. MaxIncidents /\ NotAsked \in Handler /\ NotAsked.pc = "idle"
    BY <1>2, <1>t DEF CommitUnheard, Incident, NotAsked, Handler
  <2> QED
    BY <1>2, <1>t, <2>1, HandlerWrites DEF CommitUnheard
<1> QED
  BY <1>1, <1>2

-----------------------------------------------------------------------------
(* Uploads *)

\* The parts of the invariant about the requests alone.
LEMMA RequestsAside ==
  ASSUME IntakeInv, UNCHANGED <<rows, handlers>>
  PROVE  Asking' /\ IdentitiesApart'
  BY DEF IntakeInv, Asking, IdentitiesApart, AskedFor, Inserted, At, Meets

\* Reserving an upload, or its time running out.
LEMMA IntentMoves ==
  ASSUME IntakeInv, NEW u \in Uploads, Presign(u) \/ FallDue(u)
  PROVE  IntakeInv'
<1>i. /\ intents'[u] \in Intent /\ intents' \in [Uploads -> Intent]
      /\ \A v \in Uploads \ {u} : intents'[v] = intents[v]
      /\ intents'[u].key = intents[u].key /\ intents'[u].attached = intents[u].attached
      /\ \/ intents[u].status = "unborn" /\ intents'[u].status = "pending"
         \/ intents'[u].status = intents[u].status /\ ~intents[u].attached /\ intents'[u].due
  <2>1. intents \in [Uploads -> Intent] /\ intents[u] \in Intent
    BY DEF IntakeInv, IngestTypeOK
  <2>2. CASE Presign(u)
    BY <2>1, <2>2 DEF Presign, Intent
  <2>3. CASE FallDue(u)
    BY <2>1, <2>3 DEF FallDue, Intent
  <2> QED
    BY <2>2, <2>3
<1>1. IngestTypeOK'
  BY <1>i DEF IntakeInv, IngestTypeOK, Presign, FallDue
<1>2. Asking' /\ IdentitiesApart'
  BY RequestsAside DEF Presign, FallDue
<1>3. OneHolder'
  BY DEF IntakeInv, OneHolder, Completing, Batched, Writing, At, AskedFor, Presign, FallDue
<1>4. HeldIsFit'
  BY <1>i DEF IntakeInv, HeldIsFit, Completing, Batched, Collectable, Once, AskedFor, Presign, FallDue
<1>5. IntentsAreSound'
  BY <1>i DEF IntakeInv, IntentsAreSound, Once, Presign, FallDue
<1>6. (CopyIsSafe /\ DoomedIsUnused /\ CompletedIsKept)'
  BY <1>i DEF IntakeInv, CopyIsSafe, DoomedIsUnused, CompletedIsKept, Dooms, Remembers, Presign, FallDue
<1> QED
  BY <1>1, <1>2, <1>3, <1>4, <1>5, <1>6 DEF IntakeInv

\* Neither the requests nor the uploads depend on the source or on the quota.
LEMMA AsideKeeps ==
  ASSUME IntakeInv, SetSource \/ OtherUpload \/ UNCHANGED ingestVars
  PROVE  IntakeInv'
<1>1. IngestTypeOK'
  <2>1. CASE SetSource
    BY <2>1 DEF SetSource, Incident, IntakeInv, IngestTypeOK
  <2>2. CASE OtherUpload
    <3>1. others' \in 0 .. Quota
      <4>1. CASE QuotaLeft /\ others' = others + 1
        <5>1. Cardinality({u \in Uploads : Counted(u)}) \in Nat
          BY FS_Subset, FS_CardinalityType
        <5> QED
          BY <4>1, <5>1 DEF QuotaLeft, IntakeInv, IngestTypeOK
      <4>2. CASE others > 0 /\ others' = others - 1
        BY <4>2 DEF IntakeInv, IngestTypeOK
      <4> QED
        BY <2>2, <4>1, <4>2 DEF OtherUpload
    <3> QED
      BY <2>2, <3>1 DEF OtherUpload, IntakeInv, IngestTypeOK
  <2>3. CASE UNCHANGED ingestVars
    BY <2>3 DEF ingestVars, IntakeInv, IngestTypeOK
  <2> QED
    BY <2>1, <2>2, <2>3
<1>2. UNCHANGED <<rows, handlers, intents, store, completing, collectors>>
  BY DEF SetSource, OtherUpload, ingestVars
<1>3. Asking' /\ IdentitiesApart'
  BY <1>2, RequestsAside
<1>4. (OneHolder /\ HeldIsFit /\ IntentsAreSound)'
  BY <1>2 DEF IntakeInv, OneHolder, HeldIsFit, IntentsAreSound, Completing, Batched, Writing, At,
     AskedFor, Collectable, Once
<1>5. (CopyIsSafe /\ DoomedIsUnused /\ CompletedIsKept)'
  BY <1>2 DEF IntakeInv, CopyIsSafe, DoomedIsUnused, CompletedIsKept, Dooms, Remembers
<1> QED
  BY <1>1, <1>3, <1>4, <1>5 DEF IntakeInv

-----------------------------------------------------------------------------
(* The objects *)

UnderWay(u, n) == completing[u].pc \in {"copied", "cleaned"} /\ completing[u].copy = n

Promised(u, n) == intents[u].status = "completed" /\ ~intents[u].due /\ intents[u].key = n

\* What happens to other objects than the copies under way and those of completed
\* uploads, and what the collectors forget, leaves the uploads sound.
LEMMA ObjectsMove ==
  ASSUME IntakeInv,
         store' \in [Keys -> Object], collectors' \in [Collectors -> Collector],
         left' \in 0 .. MaxIncidents,
         UNCHANGED <<rows, handlers, source, intents, completing, others>>,
         \A c \in Collectors :
           /\ collectors'[c].batch = collectors[c].batch
           /\ collectors'[c].todo \subseteq collectors[c].todo
           /\ collectors'[c].doomed \in {collectors[c].doomed, Nothing},
         \A u \in Uploads, n \in Copies :
           UnderWay(u, n) \/ Promised(u, n) => store'[<<u, n>>].content = store[<<u, n>>].content,
         \A u \in Uploads, n \in Copies : UnderWay(u, n) => ~store'[<<u, n>>].old
  PROVE  IntakeInv'
<1>1. IngestTypeOK'
  BY DEF IntakeInv, IngestTypeOK
<1>2. Asking' /\ IdentitiesApart'
  BY RequestsAside
<1>3. (OneHolder /\ HeldIsFit /\ IntentsAreSound)'
  BY DEF IntakeInv, OneHolder, HeldIsFit, IntentsAreSound, Completing, Batched, Writing, At,
     AskedFor, Collectable, Once
<1>4. CopyIsSafe'
  BY DEF IntakeInv, CopyIsSafe, UnderWay, Dooms, Remembers
<1>5. DoomedIsUnused'
  BY DEF IntakeInv, DoomedIsUnused, Dooms
<1>6. CompletedIsKept'
  BY DEF IntakeInv, CompletedIsKept, Promised, IngestTypeOK, Intent
<1> QED
  BY <1>1, <1>2, <1>3, <1>4, <1>5, <1>6 DEF IntakeInv

\* An object belongs to one upload and has one random part.
LEMMA KeyOfUpload ==
  ASSUME NEW u \in Uploads, NEW n \in Copies \cup {Temp}
  PROVE  /\ <<u, n>> \in Keys /\ <<u, n>>[1] = u /\ <<u, n>>[2] = n
         /\ \A v \in Uploads, o \in Copies \cup {Temp} : <<u, n>> = <<v, o>> => u = v /\ n = o
  BY DEF Keys

\* Whatever the client sends, it sends it to the temporary key.
LEMMA PutsKeep ==
  ASSUME IntakeInv, NEW u \in Uploads, PutBytes(u) \/ PutOddly(u)
  PROVE  IntakeInv'
<1>1. PICK content \in {"good", "bad"} : Put(u, content)
  BY DEF PutBytes, PutOddly
<1>2. /\ store' \in [Keys -> Object]
      /\ \A k \in Keys : k # <<u, Temp>> => store'[k] = store[k]
  BY <1>1, KeyOfUpload DEF Put, Object, IntakeInv, IngestTypeOK
<1>3. \A v \in Uploads, n \in Copies : store'[<<v, n>>] = store[<<v, n>>]
  BY <1>2, KeyOfUpload
<1>4. \A v \in Uploads, n \in Copies : UnderWay(v, n) => ~store[<<v, n>>].old
  BY DEF IntakeInv, CopyIsSafe, UnderWay
<1>5. left' \in 0 .. MaxIncidents
  BY DEF PutBytes, PutOddly, Incident, IntakeInv, IngestTypeOK
<1>6. /\ UNCHANGED <<rows, handlers, source, intents, completing, collectors, others>>
      /\ collectors \in [Collectors -> Collector]
  BY DEF PutBytes, PutOddly, IntakeInv, IngestTypeOK
<1> QED
  BY <1>2, <1>3, <1>4, <1>5, <1>6, ObjectsMove

\* A copy under way does not grow old.
LEMMA GrowOldKeeps ==
  ASSUME IntakeInv, NEW k \in Keys, GrowOld(k)
  PROVE  IntakeInv'
<1>1. /\ store' \in [Keys -> Object]
      /\ \A j \in Keys : store'[j].content = store[j].content
      /\ \A j \in Keys : j # k => store'[j] = store[j]
  <2>1. store \in [Keys -> Object] /\ store[k] \in Object
    BY DEF IntakeInv, IngestTypeOK
  <2> QED
    BY <2>1 DEF GrowOld, Object
<1>2. ASSUME NEW u \in Uploads, NEW n \in Copies, UnderWay(u, n)
      PROVE  ~store'[<<u, n>>].old
  <2>1. k # <<u, n>>
    BY <1>2, KeyOfUpload DEF GrowOld, InUse, UnderWay
  <2> QED
    BY <1>1, <1>2, <2>1, KeyOfUpload DEF IntakeInv, CopyIsSafe, UnderWay
<1>3. /\ UNCHANGED <<rows, handlers, source, intents, completing, collectors, others, left>>
      /\ collectors \in [Collectors -> Collector] /\ left \in 0 .. MaxIncidents
  BY DEF GrowOld, IntakeInv, IngestTypeOK
<1> QED
  BY <1>1, <1>2, <1>3, KeyOfUpload, ObjectsMove

\* What the collector found unreferenced is still nobody's when it deletes it.
LEMMA DeleteDoomedKeeps ==
  ASSUME IntakeInv, NEW c \in Collectors, DeleteDoomed(c)
  PROVE  IntakeInv'
<1> DEFINE k == collectors[c].doomed
<1>1. /\ k \in Keys /\ Dooms(c, k)
      /\ store' = [store EXCEPT ![k] = Absent]
      /\ collectors' = [collectors EXCEPT ![c].doomed = Nothing]
  BY DEF DeleteDoomed, Dooms, IntakeInv, IngestTypeOK, Collector
<1>2. /\ collectors[c] \in Collector /\ collectors \in [Collectors -> Collector]
      /\ store \in [Keys -> Object] /\ Absent \in Object
  BY DEF IntakeInv, IngestTypeOK, Absent, Object
<1>3. /\ store' \in [Keys -> Object]
      /\ \A j \in Keys : j # k => store'[j] = store[j]
  BY <1>1, <1>2
<1>4. /\ collectors' \in [Collectors -> Collector]
      /\ \A d \in Collectors :
           /\ collectors'[d].batch = collectors[d].batch
           /\ collectors'[d].todo \subseteq collectors[d].todo
           /\ collectors'[d].doomed \in {collectors[d].doomed, Nothing}
  BY <1>1, <1>2 DEF Collector
<1>5. \A u \in Uploads, n \in Copies : UnderWay(u, n) \/ Promised(u, n) => k # <<u, n>>
  BY <1>1 DEF UnderWay, Promised, IntakeInv, CopyIsSafe, DoomedIsUnused, Remembers
<1>6. \A u \in Uploads, n \in Copies : UnderWay(u, n) => ~store[<<u, n>>].old
  BY DEF IntakeInv, CopyIsSafe, UnderWay
<1>7. /\ UNCHANGED <<rows, handlers, source, intents, completing, others, left>>
      /\ left \in 0 .. MaxIncidents
  BY DEF DeleteDoomed, IntakeInv, IngestTypeOK
<1> HIDE DEF k
<1> QED
  BY <1>3, <1>4, <1>5, <1>6, <1>7, KeyOfUpload, ObjectsMove

\* The objects of a batch are those of uploads that fell due.
LEMMA DeleteObjectsKeeps ==
  ASSUME IntakeInv, NEW c \in Collectors, NEW u \in Uploads, DeleteObjects(c, u)
  PROVE  IntakeInv'
<1>1. /\ collectors[c] \in Collector /\ collectors \in [Collectors -> Collector]
      /\ store \in [Keys -> Object] /\ Absent \in Object
  BY DEF IntakeInv, IngestTypeOK, Absent, Object
<1>2. /\ store' \in [Keys -> Object]
      /\ \A j \in Keys : j[1] # u => store'[j] = store[j]
  <2>1. \A j \in Keys : j \in {<<u, Temp>>, <<u, intents[u].key>>} => j[1] = u
    BY DEF Keys
  <2> QED
    BY <1>1, <2>1 DEF DeleteObjects
<1>3. /\ collectors' \in [Collectors -> Collector]
      /\ \A d \in Collectors :
           /\ collectors'[d].batch = collectors[d].batch
           /\ collectors'[d].todo \subseteq collectors[d].todo
           /\ collectors'[d].doomed \in {collectors[d].doomed, Nothing}
  BY <1>1 DEF DeleteObjects, Collector
<1>4. intents[u].due /\ completing[u].pc = "idle"
  BY DEF DeleteObjects, IntakeInv, OneHolder, HeldIsFit, Batched, Collectable, Completing
<1>5. \A v \in Uploads, n \in Copies : UnderWay(v, n) \/ Promised(v, n) => v # u
  BY <1>4 DEF UnderWay, Promised
<1>6. \A v \in Uploads, n \in Copies : UnderWay(v, n) => ~store[<<v, n>>].old
  BY DEF IntakeInv, CopyIsSafe, UnderWay
<1>7. /\ UNCHANGED <<rows, handlers, source, intents, completing, others, left>>
      /\ left \in 0 .. MaxIncidents
  BY DEF DeleteObjects, IntakeInv, IngestTypeOK
<1> QED
  BY <1>2, <1>3, <1>5, <1>6, <1>7, KeyOfUpload, ObjectsMove

-----------------------------------------------------------------------------
(* The completion of an upload *)

\* complete() takes the lock of an upload nobody attached.
LEMMA InspectKeeps ==
  ASSUME IntakeInv, NEW u \in Uploads, Inspect(u)
  PROVE  IntakeInv'
<1>1. /\ completing' \in [Uploads -> Completion]
      /\ completing'[u].pc = "inspected"
      /\ \A v \in Uploads \ {u} : completing'[v] = completing[v]
  BY DEF Inspect, IntakeInv, IngestTypeOK, Completion
<1>2. UNCHANGED <<rows, handlers, source, intents, store, collectors, others, left>>
  BY DEF Inspect
<1>3. IngestTypeOK'
  BY <1>1, <1>2 DEF IntakeInv, IngestTypeOK
<1>4. Asking' /\ IdentitiesApart'
  BY <1>2, RequestsAside
<1>5. OneHolder'
  BY <1>1, <1>2 DEF Inspect, Locked, IntakeInv, OneHolder, Completing, Batched, Writing, At, AskedFor
<1>6. HeldIsFit'
  <2>1. ~intents[u].attached
    BY DEF Inspect, IntakeInv, IntentsAreSound, Once
  <2> QED
    BY <1>1, <1>2, <2>1 DEF Inspect, IntakeInv, HeldIsFit, Completing, Batched, Collectable, Once, AskedFor
<1>7. (IntentsAreSound /\ CopyIsSafe /\ DoomedIsUnused /\ CompletedIsKept)'
  BY <1>1, <1>2 DEF IntakeInv, IntentsAreSound, CopyIsSafe, DoomedIsUnused, CompletedIsKept,
     Once, Dooms, Remembers
<1> QED
  BY <1>3, <1>4, <1>5, <1>6, <1>7 DEF IntakeInv

\* The copy gets a name no collector remembers.
LEMMA CopyKeeps ==
  ASSUME IntakeInv, NEW u \in Uploads, Copy(u)
  PROVE  IntakeInv'
<1>1. PICK n \in Copies :
        /\ Fresh(u, n)
        /\ store' = [store EXCEPT ![<<u, n>>] = [content |-> store[<<u, Temp>>].content, old |-> FALSE]]
        /\ completing' = [completing EXCEPT ![u] = [pc |-> "copied", copy |-> n]]
  BY DEF Copy
<1>2. /\ completing \in [Uploads -> Completion] /\ store \in [Keys -> Object]
      /\ completing[u].pc = "inspected" /\ intents[u].status = "pending"
  BY DEF Copy, IntakeInv, IngestTypeOK, HeldIsFit, Completing
<1>3. /\ completing' \in [Uploads -> Completion]
      /\ completing'[u] = [pc |-> "copied", copy |-> n]
      /\ \A v \in Uploads \ {u} : completing'[v] = completing[v]
  BY <1>1, <1>2 DEF Completion
<1>4. /\ store' \in [Keys -> Object] /\ ~store'[<<u, n>>].old
      /\ \A k \in Keys : k # <<u, n>> => store'[k] = store[k]
  <2>1. store[<<u, Temp>>] \in Object
    BY <1>2, KeyOfUpload
  <2> QED
    BY <1>1, <1>2, <2>1, KeyOfUpload DEF Object
<1>5. UNCHANGED <<rows, handlers, source, intents, collectors, others, left>>
  BY DEF Copy
<1>6. IngestTypeOK'
  BY <1>3, <1>4, <1>5 DEF IntakeInv, IngestTypeOK
<1>7. Asking' /\ IdentitiesApart'
  BY <1>5, RequestsAside
<1>8. (OneHolder /\ HeldIsFit /\ IntentsAreSound)'
  BY <1>2, <1>3, <1>5 DEF IntakeInv, OneHolder, HeldIsFit, IntentsAreSound, Completing, Batched,
     Writing, At, AskedFor, Collectable, Once
<1>9. CopyIsSafe'
  <2>1. \A c \in Collectors : ~Remembers(c, <<u, n>>)
    BY <1>1 DEF Fresh, Remembers, Dooms
  <2>2. \A v \in Uploads \ {u} : completing[v].pc \in {"copied", "cleaned"} =>
          store'[<<v, completing[v].copy>>] = store[<<v, completing[v].copy>>]
    BY <1>4, KeyOfUpload DEF IntakeInv, CopyIsSafe
  <2> QED
    BY <1>3, <1>4, <1>5, <2>1, <2>2 DEF IntakeInv, CopyIsSafe, Dooms, Remembers
<1>10. DoomedIsUnused'
  BY <1>5 DEF IntakeInv, DoomedIsUnused, Dooms
<1>11. CompletedIsKept'
  <2>1. \A v \in Uploads : intents[v].status = "completed" =>
          intents[v].key \in Copies /\ v # u
    BY <1>2 DEF IntakeInv, IngestTypeOK, Intent
  <2> QED
    BY <1>4, <1>5, <2>1, KeyOfUpload DEF IntakeInv, CompletedIsKept
<1> QED
  BY <1>6, <1>7, <1>8, <1>9, <1>10, <1>11 DEF IntakeInv

\* Only a verified copy outlives the temporary object.
LEMMA CleanKeeps ==
  ASSUME IntakeInv, NEW u \in Uploads, Clean(u)
  PROVE  IntakeInv'
<1> DEFINE n == completing[u].copy
           o == IF Verified(u, n) THEN Temp ELSE n
<1>1. /\ completing \in [Uploads -> Completion] /\ store \in [Keys -> Object]
      /\ completing[u].pc = "copied" /\ intents[u].status = "pending" /\ n \in Copies
  BY DEF Clean, IntakeInv, IngestTypeOK, HeldIsFit, Completing, CopyIsSafe
<1>2. /\ store' = [store EXCEPT ![<<u, o>>] = Absent]
      /\ completing' = [completing EXCEPT ![u] =
           IF Verified(u, n) THEN [pc |-> "cleaned", copy |-> n] ELSE Still]
  BY DEF Clean
<1>3. /\ completing' \in [Uploads -> Completion]
      /\ \/ completing'[u] = [pc |-> "cleaned", copy |-> n] /\ store[<<u, n>>].content = "good" /\ o = Temp
         \/ completing'[u] = Still /\ o = n
      /\ \A v \in Uploads \ {u} : completing'[v] = completing[v]
  BY <1>1, <1>2 DEF Completion, Verified, Still
<1>4. /\ store' \in [Keys -> Object]
      /\ \A k \in Keys : k # <<u, o>> => store'[k] = store[k]
  BY <1>1, <1>2, KeyOfUpload DEF Object, Absent
<1>5. UNCHANGED <<rows, handlers, source, intents, collectors, others, left>>
  BY DEF Clean
<1>s. o \in Copies \cup {Temp}
  BY <1>1
<1> HIDE DEF n, o
<1>6. IngestTypeOK'
  BY <1>3, <1>4, <1>5 DEF IntakeInv, IngestTypeOK
<1>7. Asking' /\ IdentitiesApart'
  BY <1>5, RequestsAside
<1>8. (OneHolder /\ HeldIsFit /\ IntentsAreSound)'
  <2>1. Completing(u) /\ (Completing(u)' => Completing(u)) /\ \A v \in Uploads \ {u} : Completing(v)' = Completing(v)
    BY <1>1, <1>3 DEF Completing
  <2> QED
    BY <1>5, <2>1 DEF IntakeInv, OneHolder, HeldIsFit, IntentsAreSound, Batched,
       Writing, At, AskedFor, Collectable, Once
<1>9. CopyIsSafe'
  <2>1. \A v \in Uploads \ {u} : completing[v].pc \in {"copied", "cleaned"} =>
          store'[<<v, completing[v].copy>>] = store[<<v, completing[v].copy>>]
    BY <1>4, <1>s, KeyOfUpload DEF IntakeInv, CopyIsSafe
  <2>2. CASE completing'[u] = [pc |-> "cleaned", copy |-> n] /\ store[<<u, n>>].content = "good" /\ o = Temp
    <3>1. store'[<<u, n>>] = store[<<u, n>>]
      BY <1>1, <1>4, <2>2, KeyOfUpload
    <3>2. n = completing[u].copy
      BY DEF n
    <3>3. ~store[<<u, n>>].old /\ \A c \in Collectors : ~Remembers(c, <<u, n>>)
      BY <1>1, <3>2 DEF IntakeInv, CopyIsSafe
    <3> QED
      BY <1>1, <1>3, <1>5, <2>1, <2>2, <3>1, <3>3 DEF IntakeInv, CopyIsSafe, Dooms, Remembers
  <2>3. CASE completing'[u] = Still
    BY <1>3, <1>5, <2>1, <2>3 DEF Still, IntakeInv, CopyIsSafe, Dooms, Remembers
  <2> QED
    BY <1>3, <2>2, <2>3
<1>10. DoomedIsUnused'
  BY <1>5 DEF IntakeInv, DoomedIsUnused, Dooms
<1>11. CompletedIsKept'
  <2>1. \A v \in Uploads : intents[v].status = "completed" =>
          intents[v].key \in Copies /\ v # u
    BY <1>1 DEF IntakeInv, IngestTypeOK, Intent
  <2> QED
    BY <1>4, <1>5, <1>s, <2>1, KeyOfUpload DEF IntakeInv, CompletedIsKept
<1> QED
  BY <1>6, <1>7, <1>8, <1>9, <1>10, <1>11 DEF IntakeInv

\* The upload the client is told complete has its object.
LEMMA CommitCompletedKeeps ==
  ASSUME IntakeInv, NEW u \in Uploads, CommitCompleted(u)
  PROVE  IntakeInv'
<1> DEFINE n == completing[u].copy
<1>1. /\ completing \in [Uploads -> Completion] /\ intents \in [Uploads -> Intent]
      /\ intents[u] \in Intent
      /\ completing[u].pc = "cleaned" /\ n \in Copies
      /\ intents[u].status = "pending" /\ ~intents[u].attached
      /\ store[<<u, n>>].content = "good" /\ \A c \in Collectors : ~Remembers(c, <<u, n>>)
  BY DEF CommitCompleted, IntakeInv, IngestTypeOK, HeldIsFit, Completing, CopyIsSafe
<1>2. /\ intents' \in [Uploads -> Intent]
      /\ intents'[u].status = "completed" /\ intents'[u].key = n
      /\ intents'[u].attached = intents[u].attached
      /\ \A v \in Uploads \ {u} : intents'[v] = intents[v]
  BY <1>1 DEF CommitCompleted, Intent
<1>3. /\ completing' \in [Uploads -> Completion] /\ completing'[u] = Still
      /\ \A v \in Uploads \ {u} : completing'[v] = completing[v]
  BY <1>1 DEF CommitCompleted, Completion, Still
<1>4. UNCHANGED <<rows, handlers, source, store, collectors, others, left>>
  BY DEF CommitCompleted
<1> HIDE DEF n
<1>5. IngestTypeOK'
  <2>1. n # Nothing
    BY <1>1
  <2> QED
    BY <1>2, <1>3, <1>4, <2>1 DEF IntakeInv, IngestTypeOK
<1>6. Asking' /\ IdentitiesApart'
  BY <1>4, RequestsAside
<1>7. OneHolder'
  BY <1>3, <1>4 DEF Still, IntakeInv, OneHolder, Completing, Batched, Writing, At, AskedFor
<1>8. HeldIsFit'
  <2>1. /\ \A c \in Collectors : ~Batched(c, u)
        /\ Once(u)'
    BY <1>1, <1>2 DEF IntakeInv, OneHolder, Completing, Once
  <2> QED
    BY <1>2, <1>3, <1>4, <2>1 DEF Still, IntakeInv, HeldIsFit, Completing, Batched, Collectable, Once, AskedFor
<1>9. IntentsAreSound'
  BY <1>1, <1>2, <1>4 DEF IntakeInv, IntentsAreSound, Once
<1>10. CopyIsSafe'
  BY <1>3, <1>4 DEF Still, IntakeInv, CopyIsSafe, Dooms, Remembers
<1>11. DoomedIsUnused'
  BY <1>1, <1>2, <1>4 DEF IntakeInv, DoomedIsUnused, Dooms, Remembers
<1>12. CompletedIsKept'
  BY <1>1, <1>2, <1>4 DEF IntakeInv, CompletedIsKept
<1> QED
  BY <1>5, <1>6, <1>7, <1>8, <1>9, <1>10, <1>11, <1>12 DEF IntakeInv

\* Giving up a completion gives up the lock.
LEMMA AbortCompletingKeeps ==
  ASSUME IntakeInv, NEW u \in Uploads, AbortCompleting(u)
  PROVE  IntakeInv'
<1>1. /\ completing' \in [Uploads -> Completion] /\ completing'[u] = Still
      /\ \A v \in Uploads \ {u} : completing'[v] = completing[v]
  BY DEF AbortCompleting, IntakeInv, IngestTypeOK, Completion, Still
<1>2. UNCHANGED <<rows, handlers, source, intents, store, collectors, others>>
  BY DEF AbortCompleting
<1>3. IngestTypeOK'
  BY <1>1, <1>2 DEF AbortCompleting, Incident, IntakeInv, IngestTypeOK
<1>4. Asking' /\ IdentitiesApart'
  BY <1>2, RequestsAside
<1>5. (OneHolder /\ HeldIsFit /\ IntentsAreSound)'
  BY <1>1, <1>2 DEF Still, IntakeInv, OneHolder, HeldIsFit, IntentsAreSound, Completing, Batched,
     Writing, At, AskedFor, Collectable, Once
<1>6. (CopyIsSafe /\ DoomedIsUnused /\ CompletedIsKept)'
  BY <1>1, <1>2 DEF Still, IntakeInv, CopyIsSafe, DoomedIsUnused, CompletedIsKept, Dooms, Remembers
<1> QED
  BY <1>3, <1>4, <1>5, <1>6 DEF IntakeInv

-----------------------------------------------------------------------------
(* The collector *)

\* What a collector locks, gives up or looks for next leaves the uploads sound, if
\* it locks what is fit to be collected and looks only for old objects.
LEMMA CollectorMoves ==
  ASSUME IntakeInv, NEW c \in Collectors, NEW s \in Collector,
         collectors' = [collectors EXCEPT ![c] = s],
         UNCHANGED <<rows, handlers, source, intents, store, completing, others>>,
         left' \in 0 .. MaxIncidents,
         \A u \in s.batch : u \in collectors[c].batch \/ (Collectable(u) /\ ~Locked(u)),
         s.todo \subseteq collectors[c].todo \cup Listing,
         \/ s.doomed \in {collectors[c].doomed, Nothing}
         \/ s.doomed \in collectors[c].todo /\ ~Referenced(s.doomed)
  PROVE  IntakeInv'
<1>1. /\ collectors \in [Collectors -> Collector] /\ collectors[c] \in Collector
      /\ collectors' \in [Collectors -> Collector] /\ collectors'[c] = s
      /\ \A d \in Collectors \ {c} : collectors'[d] = collectors[d]
      /\ s.batch \subseteq Uploads
  BY DEF IntakeInv, IngestTypeOK, Collector
<1>2. IngestTypeOK'
  BY <1>1 DEF IntakeInv, IngestTypeOK
<1>3. Asking' /\ IdentitiesApart'
  BY RequestsAside
<1>4. OneHolder'
  BY <1>1 DEF IntakeInv, OneHolder, Completing, Batched, Writing, At, AskedFor, Locked
<1>5. HeldIsFit'
  BY <1>1 DEF IntakeInv, HeldIsFit, Completing, Batched, Collectable, Once, AskedFor
<1>6. IntentsAreSound' /\ CompletedIsKept'
  BY DEF IntakeInv, IntentsAreSound, Once, CompletedIsKept
<1>7. CopyIsSafe'
  BY <1>1 DEF IntakeInv, CopyIsSafe, Dooms, Remembers, Listing
<1>8. DoomedIsUnused'
  <2>1. ASSUME NEW u \in Uploads, intents[u].status = "completed",
               s.doomed \in collectors[c].todo, ~Referenced(s.doomed)
        PROVE  s.doomed # <<u, intents[u].key>>
    BY <2>1 DEF Referenced
  <2> QED
    BY <1>1, <2>1 DEF IntakeInv, DoomedIsUnused, Dooms
<1> QED
  BY <1>2, <1>3, <1>4, <1>5, <1>6, <1>7, <1>8 DEF IntakeInv

\* Locking a batch, looking up an object and crashing keep the invariant.
LEMMA CollectorKeeps ==
  ASSUME IntakeInv, NEW c \in Collectors
  PROVE  /\ StartCollecting(c) => IntakeInv'
         /\ (\E k \in Keys : LookUp(c, k)) => IntakeInv'
         /\ AbortCollecting(c) => IntakeInv'
<1>t. /\ collectors \in [Collectors -> Collector] /\ collectors[c] \in Collector
      /\ left \in 0 .. MaxIncidents /\ Asleep \in Collector /\ Listing \subseteq Keys
  BY DEF IntakeInv, IngestTypeOK, Asleep, Collector, Listing
<1>1. ASSUME StartCollecting(c) PROVE IntakeInv'
  <2> DEFINE batch == {u \in Uploads : Collectable(u) /\ ~Locked(u)}
             s == [Asleep EXCEPT !.batch = batch, !.todo = IF batch = {} THEN Listing ELSE {}]
  <2>1. collectors' = [collectors EXCEPT ![c] = s]
    BY <1>1 DEF StartCollecting
  <2>2. s \in Collector /\ s.batch = batch /\ s.todo \subseteq Listing /\ s.doomed = Nothing
    BY <1>t DEF Asleep, Collector
  <2>3. \A u \in batch : Collectable(u) /\ ~Locked(u)
    OBVIOUS
  <2>4. UNCHANGED <<rows, handlers, source, intents, store, completing, others, left>>
    BY <1>1 DEF StartCollecting
  <2> HIDE DEF s, batch
  <2> QED
    BY <1>t, <2>1, <2>2, <2>3, <2>4, CollectorMoves
<1>2. ASSUME NEW k \in Keys, LookUp(c, k) PROVE IntakeInv'
  <2> DEFINE d == IF Referenced(k) THEN Nothing ELSE k
             s == [collectors[c] EXCEPT !.todo = @ \ {k}, !.doomed = d]
  <2>1. /\ k \in collectors[c].todo /\ collectors[c].doomed = Nothing
        /\ collectors' = [collectors EXCEPT ![c] = s]
        /\ UNCHANGED <<rows, handlers, source, intents, store, completing, others, left>>
    BY <1>2 DEF LookUp
  <2>2. d \in Keys \cup {Nothing} /\ (d # Nothing => d = k /\ ~Referenced(k))
    OBVIOUS
  <2> HIDE DEF d
  <2>3. /\ s \in Collector /\ s.batch = collectors[c].batch
        /\ s.todo \subseteq collectors[c].todo /\ s.doomed = d
    BY <1>t, <2>2 DEF Collector
  <2> HIDE DEF s
  <2> QED
    BY <1>t, <2>1, <2>2, <2>3, CollectorMoves
<1>3. ASSUME AbortCollecting(c) PROVE IntakeInv'
  <2>1. /\ left' \in 0 .. MaxIncidents
        /\ Asleep.batch = {} /\ Asleep.todo = {} /\ Asleep.doomed = Nothing
    BY <1>3, <1>t DEF AbortCollecting, Incident, Asleep
  <2> QED
    BY <1>3, <1>t, <2>1, CollectorMoves DEF AbortCollecting
<1> QED
  BY <1>1, <1>2, <1>3

\* Only what is due expires.
LEMMA ExpireBatchKeeps ==
  ASSUME IntakeInv, NEW c \in Collectors, ExpireBatch(c)
  PROVE  IntakeInv'
<1>1. /\ collectors \in [Collectors -> Collector] /\ intents \in [Uploads -> Intent]
      /\ collectors' = [collectors EXCEPT ![c] = [Asleep EXCEPT !.todo = Listing]]
      /\ UNCHANGED <<rows, handlers, source, store, completing, others, left>>
  BY DEF ExpireBatch, IntakeInv, IngestTypeOK
<1>2. /\ collectors' \in [Collectors -> Collector]
      /\ collectors'[c].batch = {} /\ collectors'[c].todo = Listing /\ collectors'[c].doomed = Nothing
      /\ \A d \in Collectors \ {c} : collectors'[d] = collectors[d]
  BY <1>1 DEF Asleep, Collector, Listing
<1>3. /\ intents' \in [Uploads -> Intent]
      /\ \A u \in Uploads :
           /\ intents'[u].due = intents[u].due /\ intents'[u].key = intents[u].key
           /\ intents'[u].attached = intents[u].attached
           /\ ~Batched(c, u) => intents'[u] = intents[u]
           /\ Batched(c, u) => intents'[u].status = "expired"
  <2>1. ASSUME NEW u \in Uploads, Batched(c, u)
        PROVE  intents'[u] = [intents[u] EXCEPT !.status = "expired"]
    BY <2>1 DEF ExpireBatch, Batched
  <2>2. ASSUME NEW u \in Uploads, ~Batched(c, u)
        PROVE  intents'[u] = intents[u]
    BY <2>2 DEF ExpireBatch, Batched
  <2>3. ASSUME NEW u \in Uploads
        PROVE  /\ intents'[u] \in Intent
               /\ intents'[u].due = intents[u].due /\ intents'[u].key = intents[u].key
               /\ intents'[u].attached = intents[u].attached
               /\ ~Batched(c, u) => intents'[u] = intents[u]
               /\ Batched(c, u) => intents'[u].status = "expired"
    <3>1. intents[u] \in Intent
      BY <1>1
    <3>2. CASE Batched(c, u)
      BY <2>1, <3>1, <3>2 DEF Intent
    <3>3. CASE ~Batched(c, u)
      BY <2>2, <3>1, <3>3
    <3> QED
      BY <3>2, <3>3
  <2> QED
    BY <2>3 DEF ExpireBatch
<1>4. \A u \in Uploads : Batched(c, u) =>
        /\ intents[u].due /\ ~intents[u].attached
        /\ ~Completing(u) /\ \A h \in Handlers : ~Writing(h, u)
        /\ \A d \in Collectors : Batched(d, u) => d = c
  BY DEF IntakeInv, OneHolder, HeldIsFit, Collectable
<1>5. IngestTypeOK'
  BY <1>1, <1>2, <1>3 DEF IntakeInv, IngestTypeOK
<1>6. Asking' /\ IdentitiesApart'
  BY <1>1, RequestsAside
<1>7. OneHolder'
  BY <1>1, <1>2 DEF IntakeInv, OneHolder, Completing, Batched, Writing, At, AskedFor
<1>8. HeldIsFit'
  BY <1>1, <1>2, <1>3, <1>4 DEF IntakeInv, HeldIsFit, Completing, Batched, Collectable, Once, AskedFor
<1>9. IntentsAreSound'
  BY <1>1, <1>3, <1>4 DEF IntakeInv, IntentsAreSound, Once
<1>10. CopyIsSafe'
  BY <1>1, <1>2 DEF IntakeInv, CopyIsSafe, Dooms, Remembers, Listing
<1>11. DoomedIsUnused'
  <2>1. \A u \in Uploads : intents'[u].status = "completed" => intents'[u] = intents[u]
    BY <1>3
  <2>2. \A d \in Collectors : collectors'[d].doomed \in {collectors[d].doomed, Nothing}
    BY <1>2
  <2> QED
    BY <2>1, <2>2 DEF IntakeInv, DoomedIsUnused, Dooms
<1>12. CompletedIsKept'
  BY <1>1, <1>3 DEF IntakeInv, CompletedIsKept
<1> QED
  BY <1>5, <1>6, <1>7, <1>8, <1>9, <1>10, <1>11, <1>12 DEF IntakeInv

-----------------------------------------------------------------------------
(* The invariant of the intake *)

\* The invariant holds at first ...
LEMMA IntakeStart == IngestInit => IntakeInv
<1> SUFFICES ASSUME IngestInit PROVE IntakeInv
  OBVIOUS
<1>1. IngestTypeOK
  BY DEF IngestInit, IngestTypeOK, NotAsked, Handler, Unborn, Intent, Absent, Object, Still,
     Completion, Asleep, Collector
<1>2. Asking /\ IdentitiesApart
  BY DEF IngestInit, NotAsked, Asking, IdentitiesApart, AskedFor, At, Inserted
<1>3. OneHolder /\ HeldIsFit /\ IntentsAreSound
  BY DEF IngestInit, NotAsked, Unborn, Still, Asleep, OneHolder, HeldIsFit, IntentsAreSound,
     Completing, Batched, Writing, At, AskedFor, Collectable, Once
<1>4. CopyIsSafe /\ DoomedIsUnused /\ CompletedIsKept
  BY DEF IngestInit, Unborn, Still, Asleep, CopyIsSafe, DoomedIsUnused, CompletedIsKept,
     Dooms, Remembers
<1> QED
  BY <1>1, <1>2, <1>3, <1>4 DEF IntakeInv

\* ... and every action keeps it.
LEMMA IntakeStep == IntakeInv /\ [IngestNext]_ingestVars => IntakeInv'
<1> SUFFICES ASSUME IntakeInv, [IngestNext]_ingestVars PROVE IntakeInv'
  OBVIOUS
<1>1. CASE SetSource \/ OtherUpload \/ UNCHANGED ingestVars
  BY <1>1, AsideKeeps
<1>2. CASE \E h \in Handlers, r \in Requests : Submit(h, r)
  BY <1>2, HandlersKeep
<1>3. ASSUME NEW h \in Handlers, HandlerStep(h) \/ CommitUnheard(h) \/ Abort(h)
      PROVE  IntakeInv'
  BY <1>3, HandlersKeep, CommitsKeep DEF HandlerStep
<1>4. ASSUME NEW u \in Uploads,
             Presign(u) \/ PutBytes(u) \/ PutOddly(u) \/ Inspect(u) \/ CompletingStep(u)
             \/ AbortCompleting(u)
      PROVE  IntakeInv'
  BY <1>4, IntentMoves, PutsKeep, InspectKeeps, CopyKeeps, CleanKeeps, CommitCompletedKeeps,
     AbortCompletingKeeps DEF CompletingStep
<1>5. CASE TimePasses
  BY <1>5, IntentMoves, GrowOldKeeps DEF TimePasses
<1>6. ASSUME NEW c \in Collectors, CollectorStep(c) \/ AbortCollecting(c)
      PROVE  IntakeInv'
  BY <1>6, CollectorKeeps, ExpireBatchKeeps, DeleteDoomedKeeps, DeleteObjectsKeeps DEF CollectorStep
<1> QED
  BY <1>1, <1>2, <1>3, <1>4, <1>5, <1>6 DEF IngestNext

\* Whatever interleaves, crashes or is late, IntakeInv holds.
THEOREM IntakeInvariance == IngestSpec => []IntakeInv
  BY IntakeStart, IntakeStep, PTL DEF IngestSpec

\* An upload the client was told is complete can be read until its retention ends.
THEOREM CompletedIsKeptHolds == IngestSpec => []CompletedIsKept
<1>1. IntakeInv => CompletedIsKept
  BY DEF IntakeInv
<1> QED
  BY <1>1, IntakeInvariance, PTL

\* A row names an attached upload, and an attached one that is not due is complete.
LEMMA AttachedFromIntake == IntakeInv => AttachedIsKept
<1> SUFFICES ASSUME IntakeInv, NEW q \in rows, q.file # NoFile, ~intents[q.file].due
             PROVE  store[<<q.file, intents[q.file].key>>].content = "good"
  BY DEF AttachedIsKept
<1>1. q.file \in Uploads
  BY DEF IntakeInv, IngestTypeOK
<1>2. intents[q.file].attached /\ intents[q.file].status = "completed"
  BY <1>1 DEF IntakeInv, IntentsAreSound, Once
<1> QED
  BY <1>1, <1>2 DEF IntakeInv, CompletedIsKept

\* The object of an attachment is there with the announced content, unless the
\* upload was left unused for its retention when the submission came at last.
THEOREM AttachedIsKeptHolds == IngestSpec => []AttachedIsKept
  BY AttachedFromIntake, IntakeInvariance, PTL

-----------------------------------------------------------------------------
(* The intake implements the idempotent one *)

Heard(s) == IF s.pc = "answered" THEN [request |-> s.request, outcome |-> s.outcome] ELSE Nothing

\* What a handler comes to is all its client may be told anew.
LEMMA ToldMoves ==
  ASSUME IntakeInv, NEW h \in Handlers, NEW s, handlers' = [handlers EXCEPT ![h] = s]
  PROVE  /\ Told' = [Told EXCEPT ![h] = Heard(s)]
         /\ Told[h] = Heard(handlers[h])
<1>1. /\ handlers'[h] = s
      /\ \A g \in Handlers : g # h => handlers'[g] = handlers[g]
  BY DEF IntakeInv, IngestTypeOK
<1>2. \A g \in Handlers : Told'[g] = IF g = h THEN Heard(s) ELSE Told[g]
  BY <1>1 DEF Told, At, Heard
<1> QED
  BY <1>2 DEF Told, At, Heard

\* A handler that does not come to answer tells nobody anything.
LEMMA SilentMoves ==
  ASSUME IntakeInv, NEW h \in Handlers, NEW s, handlers' = [handlers EXCEPT ![h] = s],
         s.pc # "answered", UNCHANGED <<rows, source>>
  PROVE  Promise!Hear(h)
  BY ToldMoves DEF Heard, Promise!Hear, Promise!Steady

\* The answer judged from the rows is the right one: no identical repeat is a conflict.
LEMMA JudgedRightly ==
  ASSUME IntakeInv, NEW r \in Requests
  PROVE  /\ Judged(r) = "duplicate" => r \in rows
         /\ Judged(r) = "conflict" => r \notin rows
         /\ Judged(r) \in {"duplicate", "conflict"}
         /\ Matching(r) = {} => r \notin rows
<1>1. r \in rows => r \in Matching(r) /\ \A q \in Matching(r) : q = r
  BY RequestsAreTyped DEF IntakeInv, IdentitiesApart, Matching
<1>2. r \in rows => Matching(r) = {r}
  BY <1>1
<1>3. Matching(r) = {r} => r \in rows
  BY DEF Matching
<1>4. {r} # {}
  OBVIOUS
<1> QED
  BY <1>2, <1>3, <1>4 DEF Judged

\* An answer about the rows as they are is one the promise allows.
LEMMA Answers ==
  ASSUME IntakeInv, NEW h \in Handlers, NEW r \in Requests, NEW outcome,
         Answer(h, r, outcome), UNCHANGED <<rows, source>>,
         \/ outcome = "duplicate" /\ r \in rows
         \/ outcome = "conflict" /\ r \notin rows
         \/ outcome = "declined" /\ ~source
  PROVE  Promise!Recognise(h, r) \/ Promise!Refuse(h, r) \/ Promise!Decline(h, r)
<1> DEFINE s == [pc |-> "answered", request |-> r, outcome |-> outcome]
<1>1. handlers' = [handlers EXCEPT ![h] = s]
  BY DEF Answer
<1>2. Heard(s) = [request |-> r, outcome |-> outcome]
  BY DEF Heard
<1> HIDE DEF s
<1>3. Told' = [Told EXCEPT ![h] = [request |-> r, outcome |-> outcome]]
  BY <1>1, <1>2, ToldMoves
<1> QED
  BY <1>3 DEF Promise!Recognise, Promise!Refuse, Promise!Decline, Promise!Tell, Promise!Steady

\* Nobody is told anything before there is a row.
LEMMA PromiseStart == IngestInit => Promise!Init
  BY DEF IngestInit, NotAsked, Told, At, Promise!Init

\* Every step of a handler is a step of the promise.
LEMMA HandlersPromise ==
  ASSUME IntakeInv, NEW h \in Handlers,
         \/ \E r \in Requests : Submit(h, r)
         \/ HandlerStep(h) \/ CommitUnheard(h) \/ Abort(h)
  PROVE  Promise!Next
<1>t. /\ handlers \in [Handlers -> Handler]
      /\ handlers[h].pc # "idle" => handlers[h].request \in Requests
  BY DEF IntakeInv, IngestTypeOK, Asking, AskedFor, At
<1>1. ASSUME NEW r \in Requests, Submit(h, r) PROVE Promise!Next
  <2>1. CASE Matching(r) # {}
    <3>1. Answer(h, r, Judged(r)) /\ UNCHANGED <<rows, source>>
      BY <1>1, <2>1 DEF Submit
    <3> QED
      BY <3>1, JudgedRightly, Answers DEF Promise!Next
  <2>2. CASE Matching(r) = {}
    <3> DEFINE s == [pc |-> "sourcing", request |-> r, outcome |-> "none"]
    <3>1. /\ handlers' = [handlers EXCEPT ![h] = s] /\ s.pc # "answered"
          /\ UNCHANGED <<rows, source>>
      BY <1>1, <2>2 DEF Submit
    <3> HIDE DEF s
    <3> QED
      BY <3>1, SilentMoves DEF Promise!Next
  <2> QED
    BY <2>1, <2>2
<1>2. ASSUME NEW step \in {"inserting", "reading", "attaching", "committing", "raced"},
             ToStep(h, step), UNCHANGED <<rows, source>>
      PROVE  Promise!Next
  <2> DEFINE s == [handlers[h] EXCEPT !.pc = step]
  <2>1. handlers' = [handlers EXCEPT ![h] = s]
    BY <1>t, <1>2 DEF ToStep
  <2>2. s.pc = step /\ step # "answered"
    BY <1>t DEF Handler
  <2> HIDE DEF s
  <2> QED
    BY <1>2, <2>1, <2>2, SilentMoves DEF Promise!Next
<1>3. CASE Insert(h)
  <2>1. ToStep(h, "raced") \/ ToStep(h, "committing") \/ ToStep(h, "reading")
    BY <1>3 DEF Insert
  <2>2. UNCHANGED <<rows, source>>
    BY <1>3 DEF Insert
  <2> QED
    BY <1>2, <2>1, <2>2
<1>4. CASE ReadIntent(h)
  <2>1. CASE Usable(handlers[h].request.file)
    <3>1. ToStep(h, "attaching") /\ UNCHANGED <<rows, source>>
      BY <1>4, <2>1 DEF ReadIntent
    <3> QED
      BY <1>2, <3>1
  <2>2. CASE ~Usable(handlers[h].request.file)
    <3>1. handlers[h].request \in Requests /\ handlers[h].request \notin rows
      BY <1>t, <1>4, RequestsAreTyped DEF ReadIntent, At, IntakeInv, IdentitiesApart, Inserted, AskedFor
    <3> QED
      BY <1>4, <2>2, <3>1, Answers DEF ReadIntent, Promise!Next
  <2> QED
    BY <2>1, <2>2
<1>5. CASE Attach(h)
  <2>1. ToStep(h, "raced") \/ ToStep(h, "committing")
    BY <1>5 DEF Attach
  <2>2. UNCHANGED <<rows, source>>
    BY <1>5 DEF Attach
  <2> QED
    BY <1>2, <2>1, <2>2
<1>6. CASE Commit(h) \/ CommitUnheard(h)
  <2> DEFINE r == AskedFor(h)
  <2>1. /\ At(h, "committing") /\ r \in Requests
        /\ rows' = rows \cup {r} /\ source' = source /\ \A q \in rows : ~Meets(q, r)
    BY <1>t, <1>6 DEF Commit, CommitUnheard, Written, At, AskedFor, IntakeInv, IdentitiesApart, Inserted
  <2>2. \A q \in rows : ~Promise!Meets(q, r)
    BY <2>1 DEF Meets, Promise!Meets
  <2>3. CASE Commit(h)
    <3> DEFINE s == [pc |-> "answered", request |-> r, outcome |-> "accepted"]
    <3>1. handlers' = [handlers EXCEPT ![h] = s]
      BY <2>3 DEF Commit, Answer, AskedFor
    <3>2. Heard(s) = [request |-> r, outcome |-> "accepted"]
      BY DEF Heard
    <3> HIDE DEF s
    <3>3. Told' = [Told EXCEPT ![h] = [request |-> r, outcome |-> "accepted"]]
      BY <3>1, <3>2, ToldMoves
    <3> QED
      BY <2>1, <2>2, <3>3 DEF Promise!Accept, Promise!Tell, Promise!Steady, Promise!Next
  <2>4. CASE CommitUnheard(h)
    <3>1. Told' = [Told EXCEPT ![h] = Nothing] /\ Told[h] = Nothing
      BY <2>1, <2>4, ToldMoves DEF CommitUnheard, NotAsked, Heard, At
    <3>2. Told' = Told
      BY <3>1 DEF Told
    <3> QED
      BY <2>1, <2>2, <3>2 DEF Promise!AcceptUnheard, Promise!Steady, Promise!Next
  <2> QED
    BY <1>6, <2>3, <2>4
<1>7. CASE Refind(h)
  <2>1. /\ handlers[h].request \in Requests
        /\ Answer(h, handlers[h].request, Judged(handlers[h].request)) /\ UNCHANGED <<rows, source>>
    BY <1>t, <1>7 DEF Refind, Refound, At
  <2> QED
    BY <2>1, JudgedRightly, Answers DEF Promise!Next
<1>8. CASE Hear(h) \/ Abort(h)
  BY <1>8, SilentMoves DEF Hear, Abort, NotAsked, Promise!Next
<1>9. CASE ReadSource(h)
  <2>1. CASE source
    <3>1. ToStep(h, "inserting") /\ UNCHANGED <<rows, source>>
      BY <1>9, <2>1 DEF ReadSource
    <3> QED
      BY <1>2, <3>1
  <2>2. CASE ~source
    <3>1. /\ handlers[h].request \in Requests /\ UNCHANGED <<rows, source>>
          /\ Answer(h, handlers[h].request, "declined")
      BY <1>t, <1>9, <2>2 DEF ReadSource, At
    <3> QED
      BY <2>2, <3>1, Answers DEF Promise!Next
  <2> QED
    BY <2>1, <2>2
<1> QED
  BY <1>1, <1>9, <1>3, <1>4, <1>5, <1>6, <1>7, <1>8 DEF HandlerStep

\* All other steps change neither the rows nor what is told; one switches the source.
LEMMA PromiseStep == IntakeInv /\ [IngestNext]_ingestVars => [Promise!Next]_<<rows, Told, source>>
<1> SUFFICES ASSUME IntakeInv, [IngestNext]_ingestVars PROVE [Promise!Next]_<<rows, Told, source>>
  OBVIOUS
<1>1. CASE \E h \in Handlers : \/ \E r \in Requests : Submit(h, r)
                               \/ HandlerStep(h) \/ CommitUnheard(h) \/ Abort(h)
  BY <1>1, HandlersPromise
<1>2. CASE UNCHANGED <<rows, handlers, source>>
  BY <1>2 DEF Told, At
<1>3. ASSUME NEW u \in Uploads,
             Presign(u) \/ PutBytes(u) \/ PutOddly(u) \/ Inspect(u) \/ CompletingStep(u)
             \/ AbortCompleting(u)
      PROVE  UNCHANGED <<rows, handlers, source>>
  BY <1>3 DEF Presign, PutBytes, PutOddly, Inspect, CompletingStep, Copy, Clean, CommitCompleted,
     AbortCompleting
<1>4. ASSUME NEW c \in Collectors, CollectorStep(c) \/ AbortCollecting(c)
      PROVE  UNCHANGED <<rows, handlers, source>>
  BY <1>4 DEF CollectorStep, StartCollecting, ExpireBatch, DeleteDoomed, DeleteObjects, LookUp,
     AbortCollecting
<1>5. ASSUME OtherUpload \/ TimePasses \/ UNCHANGED ingestVars
      PROVE  UNCHANGED <<rows, handlers, source>>
  BY <1>5 DEF OtherUpload, TimePasses, FallDue, GrowOld, ingestVars
<1>6. CASE SetSource
  BY <1>6 DEF SetSource, Told, At, Promise!Switch, Promise!Next
<1> QED
  BY <1>1, <1>2, <1>3, <1>4, <1>5, <1>6 DEF IngestNext

\* The intake implements the idempotent one, whatever races, crashes and repeats:
\* accepted once, a repeat is a duplicate, another payload under an identity a conflict,
\* and only a disabled source declines.
THEOREM IntakeIsIdempotent == IngestSpec => KeepsPromise
  BY PromiseStart, PromiseStep, IntakeInvariance, PTL DEF IngestSpec, KeepsPromise, Promise!Spec

-----------------------------------------------------------------------------
(* What the parsers remember *)

Kinds == {"rss", "time"}

ItemStates == [version : Nat, wanted : BOOLEAN]

\* What surrounds the poll.
World ==
  /\ kind \in Kinds /\ items \in [Items -> ItemStates] /\ uploads \in 0 .. MaxUploads
  /\ chosen \subseteq Sources /\ seen \subseteq Items
  /\ told = [h \in Kinds |-> told[h]]

InHand == {"filing", "submitting", "hearing"}

\* A poll has a source to read; the item it submits is the one it is at; an answer
\* that is no error says that the intake has it.
Poll ==
  /\ poller \in Poller
  /\ ~PollAt("idle") => poller.todo # {}
  /\ poller.pc \in InHand => poller.request \in Request /\ poller.request.ids = {Item}
  /\ PollAt("hearing") /\ Known => Taken(Item)

ParsersInv == World /\ Poll /\ SeenIsTaken

USE ParsersAssumption

-----------------------------------------------------------------------------
(* The item of a poll *)

LEMMA LeastSource ==
  ASSUME NEW todo \in SUBSET Sources, todo # {}
  PROVE  \E s \in todo : \A t \in todo : s <= t
<1>1. todo \in SUBSET Nat
  OBVIOUS
<1> QED
  BY <1>1, LeastNumber

LEMMA ItemIsListed ==
  ASSUME poller \in Poller, poller.todo # {}
  PROVE  Source \in poller.todo /\ Item \in Items
<1>1. poller.todo \in SUBSET Sources /\ poller.n \in 1 .. Length
  BY DEF Poller
<1>2. Source \in poller.todo
  BY <1>1, LeastSource DEF Source
<1> QED
  BY <1>1, <1>2 DEF Item, Items

LEMMA RestingPoller == Resting \in Poller /\ Resting.pc = "idle"
BY DEF Resting, Poller

\* Between two items nothing is in hand.
Between ==
  /\ poller \in Poller
  /\ poller.pc \in {"idle", "fetching", "choosing"}
  /\ ~PollAt("idle") => poller.todo # {}

LEMMA RestingIsBetween == ASSUME poller' = Resting PROVE Between'
BY RestingPoller DEF Between, PollAt

LEMMA Begun ==
  ASSUME NEW todo \in SUBSET Sources, todo # {}, NEW ok \in BOOLEAN,
         poller' = [pc |-> "fetching", todo |-> todo, n |-> 1, known |-> {},
                    request |-> NoRequest, ok |-> ok]
  PROVE  Between'
<1>1. poller' \in Poller
  BY DEF Poller
<1> QED
  BY <1>1 DEF Between, PollAt

LEMMA NextSource ==
  ASSUME Poll, NEW ok \in BOOLEAN, AfterSource(ok)
  PROVE  Between'
<1> DEFINE todo == poller.todo \ {Source}
<1>1. todo \in SUBSET Sources
  BY DEF Poll, Poller
<1>2. CASE todo = {}
  BY <1>2, RestingIsBetween DEF AfterSource
<1>3. CASE todo # {}
  <2>1. poller' = [Resting EXCEPT !.pc = "fetching", !.todo = todo, !.ok = ok]
    BY <1>3 DEF AfterSource
  <2> HIDE DEF todo
  <2>2. poller' = [pc |-> "fetching", todo |-> todo, n |-> 1, known |-> {},
                   request |-> NoRequest, ok |-> ok]
    BY <2>1 DEF Resting
  <2> QED
    BY <1>1, <1>3, <2>2, Begun
<1> QED
  BY <1>2, <1>3

LEMMA NextItem ==
  ASSUME Poll, ~PollAt("idle"), NEW ok \in BOOLEAN, AfterItem(ok)
  PROVE  Between'
<1>1. CASE poller.n < Length
  <2>1. poller' = [poller EXCEPT !.pc = "choosing", !.n = @ + 1, !.request = NoRequest, !.ok = ok]
    BY <1>1 DEF AfterItem
  <2>2. poller \in Poller /\ poller.todo # {} /\ poller.n + 1 \in 1 .. Length
    BY <1>1 DEF Poll, Poller
  <2> QED
    BY <2>1, <2>2 DEF Between, PollAt, Poller
<1>2. CASE ~(poller.n < Length)
  BY <1>2, NextSource DEF AfterItem
<1> QED
  BY <1>1, <1>2

LEMMA AfterError == ASSUME Poll, Raise PROVE Between' /\ seen' = seen
BY NextSource, RestingIsBetween DEF Raise

-----------------------------------------------------------------------------
(* Frames *)

LEMMA TakenStays == ASSUME taken \subseteq taken', NEW i, Taken(i) PROVE Taken(i)'
BY DEF Taken

\* A step that ends with nothing in hand.
LEMMA BetweenStep ==
  ASSUME ParsersInv, World', Between', seen' \subseteq seen, taken' = taken
  PROVE  ParsersInv'
<1>1. SeenIsTaken'
  BY DEF ParsersInv, SeenIsTaken, Taken
<1>2. Poll'
  BY DEF Between, Poll, PollAt, InHand
<1> QED
  BY <1>1, <1>2 DEF ParsersInv

LEMMA WorldStays ==
  ASSUME World, UNCHANGED <<kind, items, chosen, seen, told, uploads>> PROVE World'
BY DEF World

\* The poller goes to another stage of the same item.
LEMMA SameItem ==
  ASSUME poller'.todo = poller.todo, poller'.n = poller.n PROVE Item' = Item
BY DEF Item, Source

-----------------------------------------------------------------------------
(* Steps of a poll *)

LEMMA ParsersStart == ParsersInit => ParsersInv
<1> SUFFICES ASSUME ParsersInit PROVE ParsersInv
  OBVIOUS
<1>1. World
  BY DEF ParsersInit, World, Kinds, ItemStates, Items
<1>2. Poll
  BY RestingPoller DEF ParsersInit, Poll, PollAt, InHand
<1> QED
  BY <1>1, <1>2 DEF ParsersInit, ParsersInv, SeenIsTaken

LEMMA QuietSteps ==
  ASSUME ParsersInv,
         \/ StartPoll \/ Fetch \/ FetchFails \/ AccessLost \/ Skip \/ RolesLost
         \/ ConvertFails \/ UploadRefused \/ RequestLost
  PROVE  ParsersInv'
<1> SUFFICES World' /\ Between' /\ seen' = seen /\ taken' = taken
  BY BetweenStep
<1>1. UNCHANGED <<kind, items, chosen, taken, told, uploads>>
  BY DEF StartPoll, Fetch, FetchFails, AccessLost, Skip, RolesLost, ConvertFails,
         UploadRefused, RequestLost, intake, files
<1>2. poller \in Poller /\ Poll
  BY DEF ParsersInv, Poll
<1>3. poller.ok \in BOOLEAN
  BY <1>2 DEF Poller
<1>4. CASE StartPoll
  <2>1. chosen # {} /\ chosen \in SUBSET Sources /\ seen' = seen
    BY <1>4 DEF StartPoll, ParsersInv, World
  <2>2. Between'
    <3>1. poller' = [Resting EXCEPT !.pc = "fetching", !.todo = chosen]
      BY <1>4 DEF StartPoll
    <3>2. poller' = [pc |-> "fetching", todo |-> chosen, n |-> 1, known |-> {},
                     request |-> NoRequest, ok |-> TRUE]
      BY <3>1 DEF Resting
    <3> QED
      BY <2>1, <3>2, Begun
  <2> QED
    BY <1>1, <2>1, <2>2, WorldStays DEF ParsersInv
<1>5. CASE Fetch
  <2> DEFINE known == {i \in seen : i[1] = Source}
  <2>1. poller' = [poller EXCEPT !.pc = "choosing", !.known = known] /\ seen' = seen
        /\ PollAt("fetching")
    BY <1>5 DEF Fetch
  <2>2. known \in SUBSET Items
    BY DEF ParsersInv, World
  <2> HIDE DEF known
  <2>3. poller.todo # {}
    BY <1>2, <2>1 DEF Poll, PollAt
  <2> QED
    BY <1>1, <1>2, <2>1, <2>2, <2>3, WorldStays DEF ParsersInv, Between, PollAt, Poller
<1>6. CASE FetchFails
  <2>1. seen' = seen /\ Between'
    BY <1>2, <1>6, NextSource DEF FetchFails, SourceLost
  <2> QED
    BY <1>1, <2>1, WorldStays DEF ParsersInv
<1>7. CASE AccessLost
  <2>1. seen' = seen /\ Between'
    BY <1>7, RestingIsBetween DEF AccessLost
  <2> QED
    BY <1>1, <2>1, WorldStays DEF ParsersInv
<1>8. CASE Skip \/ RolesLost
  <2>1. seen' = seen /\ Between'
    BY <1>2, <1>3, <1>8, NextItem DEF Skip, RolesLost, PollAt
  <2> QED
    BY <1>1, <2>1, WorldStays DEF ParsersInv
<1>9. CASE ConvertFails \/ UploadRefused \/ RequestLost
  <2>1. seen' = seen /\ Between'
    BY <1>2, <1>9, AfterError DEF ConvertFails, UploadRefused, RequestLost
  <2> QED
    BY <1>1, <2>1, WorldStays DEF ParsersInv
<1> QED
  BY <1>4, <1>5, <1>6, <1>7, <1>8, <1>9

\* The item is converted and its file uploaded or left out.
LEMMA ItemTakenUp ==
  ASSUME ParsersInv, Convert \/ Upload \/ DownloadFails
  PROVE  ParsersInv'
<1>1. UNCHANGED <<kind, items, chosen, seen, taken, told>>
  BY DEF Convert, Upload, DownloadFails, intake, files
<1>2. poller \in Poller /\ Poll /\ Item \in Items
  BY ItemIsListed DEF ParsersInv, Poll, Convert, Upload, DownloadFails, PollAt
<1>3. uploads \in Nat /\ uploads' \in 0 .. MaxUploads
  BY DEF ParsersInv, World, Convert, Upload, DownloadFails, files
<1> DEFINE Goal == /\ poller' \in Poller /\ poller'.pc \in {"filing", "submitting"}
                   /\ poller'.todo = poller.todo /\ poller'.n = poller.n
                   /\ poller'.request \in Request /\ poller'.request.ids = {Item}
<1>4. ASSUME Convert PROVE Goal
  <2> DEFINE r == [ids |-> {Item}, version |-> items[Item].version, upload |-> 0]
             pc == IF HasFile(Item) THEN "filing" ELSE "submitting"
  <2>1. poller' = [poller EXCEPT !.pc = pc, !.request = r]
    BY <1>4 DEF Convert
  <2>2. items[Item].version \in Nat
    BY <1>2 DEF ParsersInv, World, ItemStates
  <2>3. r \in Request /\ r.ids = {Item} /\ pc \in {"filing", "submitting"}
    BY <1>2, <2>2 DEF Request
  <2> HIDE DEF r, pc
  <2> QED
    BY <1>2, <2>1, <2>3 DEF Poller
<1>5. ASSUME Upload PROVE Goal
  <2> DEFINE r == [poller.request EXCEPT !.upload = uploads + 1]
  <2>1. poller' = [poller EXCEPT !.pc = "submitting", !.request = r] /\ uploads' = uploads + 1
    BY <1>5 DEF Upload
  <2>2. poller.request \in Request /\ poller.request.ids = {Item}
    BY <1>2, <1>5 DEF Upload, Poll, PollAt, InHand
  <2>3. uploads + 1 \in 0 .. MaxUploads
    BY <1>3, <2>1
  <2>4. r \in Request /\ r.ids = {Item}
    BY <2>2, <2>3 DEF Request
  <2> HIDE DEF r
  <2> QED
    BY <1>2, <2>1, <2>4 DEF Poller
<1>6. ASSUME DownloadFails PROVE Goal
  <2>1. poller' = [poller EXCEPT !.pc = "submitting"]
        /\ poller.request \in Request /\ poller.request.ids = {Item}
    BY <1>2, <1>6 DEF DownloadFails, Poll, PollAt, InHand
  <2> QED
    BY <1>2, <2>1 DEF Poller
<1>7. Goal
  BY <1>4, <1>5, <1>6
<1>8. Poll'
  <2>1. Item' = Item /\ poller'.todo # {}
    BY <1>2, <1>7, SameItem DEF Poll, Convert, Upload, DownloadFails, PollAt
  <2> QED
    BY <1>7, <2>1 DEF Poll, PollAt, InHand
<1>9. World'
  BY <1>1, <1>3 DEF ParsersInv, World
<1>10. SeenIsTaken'
  BY <1>1 DEF ParsersInv, SeenIsTaken, Taken
<1> QED
  BY <1>8, <1>9, <1>10 DEF ParsersInv

LEMMA UploadFailsStep == ASSUME ParsersInv, UploadFails PROVE ParsersInv'
<1>1. /\ UNCHANGED <<kind, items, chosen, taken, told>>
      /\ uploads' = uploads \/ (uploads' = uploads + 1 /\ uploads < MaxUploads)
  BY DEF UploadFails, intake, files
<1>2. Between' /\ seen' = seen
  BY AfterError DEF ParsersInv, UploadFails
<1>3. uploads' \in 0 .. MaxUploads
  BY <1>1 DEF ParsersInv, World
<1>4. World'
  BY <1>1, <1>2, <1>3 DEF ParsersInv, World
<1> QED
  BY <1>1, <1>2, <1>4, BetweenStep

\* The intake accepts the item, knows it, refuses or declines it.
LEMMA DeliverStep == ASSUME ParsersInv, Deliver \/ Decline PROVE ParsersInv'
<1> DEFINE r == poller.request
<1>1. /\ UNCHANGED <<kind, items, chosen, seen, uploads>>
      /\ poller' = [poller EXCEPT !.pc = "hearing"] /\ PollAt("submitting")
      /\ \/ Intake!Accept(kind, r) \/ Intake!Recognise(kind, r)
         \/ Intake!Refuse(kind, r) \/ Intake!Decline(kind, r)
  BY DEF Deliver, Decline, files
<1>2. poller \in Poller /\ poller.todo # {} /\ r \in Request /\ r.ids = {Item}
  BY <1>1 DEF ParsersInv, Poll, PollAt, InHand
<1>3. kind \in Kinds /\ told = [h \in Kinds |-> told[h]]
  BY DEF ParsersInv, World
<1>4. taken \subseteq taken'
  BY <1>1 DEF Intake!Accept, Intake!Recognise, Intake!Refuse, Intake!Decline
<1>5. told' = [h \in Kinds |-> told'[h]] /\ (Known' => r \in taken')
  BY <1>1, <1>3 DEF Intake!Accept, Intake!Recognise, Intake!Refuse, Intake!Decline, Intake!Tell,
     Known
<1>6. /\ poller' \in Poller /\ poller'.pc = "hearing" /\ poller'.todo = poller.todo
      /\ poller'.n = poller.n /\ poller'.request = r
  BY <1>1, <1>2 DEF Poller
<1>7. Item' = Item
  BY <1>6, SameItem
<1>8. Poll'
  <2>1. PollAt("hearing")' /\ Known' => Taken(Item)'
    BY <1>2, <1>5, <1>7 DEF Taken
  <2> QED
    BY <1>2, <1>6, <1>7, <2>1 DEF Poll, PollAt, InHand
<1>9. World'
  BY <1>1, <1>5 DEF ParsersInv, World
<1>10. SeenIsTaken'
  BY <1>1, <1>4, TakenStays DEF ParsersInv, SeenIsTaken
<1> QED
  BY <1>8, <1>9, <1>10 DEF ParsersInv

\* The answer is heard, and the item remembered if it was no error.
LEMMA HearStep == ASSUME ParsersInv, HearAnswer \/ ReplyLost PROVE ParsersInv'
<1>1. UNCHANGED <<kind, items, chosen, uploads, taken>> /\ PollAt("hearing")
      /\ told' = [told EXCEPT ![kind] = NoRequest]
  BY DEF HearAnswer, ReplyLost, files, Intake!Hear
<1>2. told' = [h \in Kinds |-> told'[h]]
  BY <1>1 DEF ParsersInv, World
<1>3. Poll /\ Item \in Items /\ poller.ok \in BOOLEAN
  BY <1>1, ItemIsListed DEF ParsersInv, Poll, Poller, PollAt
<1>4. Between'
  <2>1. CASE HearAnswer
    <3> DEFINE ok == poller.ok /\ Known
    <3>1. AfterItem(ok) /\ ok \in BOOLEAN
      BY <2>1 DEF HearAnswer, Known
    <3>2. ~PollAt("idle")
      BY <1>1 DEF PollAt
    <3> HIDE DEF ok
    <3> QED
      BY <1>3, <3>1, <3>2, NextItem
  <2>2. CASE ReplyLost
    BY <1>1, <1>3, <2>2, AfterError, NextItem DEF ReplyLost, PollAt
  <2> QED
    BY <2>1, <2>2
<1>5. \A i \in seen' : i \in seen \/ (i = Item /\ Taken(Item))
  <2>1. CASE HearAnswer
    BY <1>1, <1>3, <2>1 DEF HearAnswer, Remembered, Poll
  <2>2. CASE ReplyLost
    BY <1>3, <2>2, AfterError DEF ReplyLost
  <2> QED
    BY <2>1, <2>2
<1>6. World'
  BY <1>1, <1>2, <1>3, <1>5 DEF ParsersInv, World
<1>7. SeenIsTaken'
  BY <1>1, <1>5 DEF ParsersInv, SeenIsTaken, Taken
<1>8. Poll'
  BY <1>4 DEF Between, Poll, PollAt, InHand
<1> QED
  BY <1>6, <1>7, <1>8 DEF ParsersInv

-----------------------------------------------------------------------------
(* Around a poll *)

LEMMA WorldSteps ==
  ASSUME ParsersInv,
         \/ \E i \in Items : Edit(i) \/ Fade(i)
         \/ \E choice \in SUBSET Sources : ChooseSources(choice)
         \/ \E u \in unused : Retire(u)
         \/ UNCHANGED parserVars
  PROVE  ParsersInv'
<1>1. UNCHANGED <<kind, poller, taken, told, uploads>> /\ seen' \subseteq seen
  BY DEF Edit, Fade, ChooseSources, Retire, parserVars, intake, files
<1>2. items' \in [Items -> ItemStates]
  <2>1. ASSUME NEW i \in Items, Edit(i) \/ Fade(i) PROVE items' \in [Items -> ItemStates]
    <3>1. items \in [Items -> ItemStates] /\ items[i] \in ItemStates
      BY DEF ParsersInv, World
    <3>2. /\ [items[i] EXCEPT !.version = @ + 1] \in ItemStates
          /\ [items[i] EXCEPT !.wanted = FALSE] \in ItemStates
      <4> DEFINE item == items[i]
      <4>1. item \in ItemStates
        BY <3>1
      <4> HIDE DEF item
      <4>2. item.version \in Nat /\ item.version + 1 \in Nat
        BY <4>1 DEF ItemStates
      <4>3. /\ [item EXCEPT !.version = @ + 1] \in ItemStates
            /\ [item EXCEPT !.wanted = FALSE] \in ItemStates
        BY <4>1, <4>2 DEF ItemStates
      <4> QED
        BY <4>3 DEF item
    <3>3. \/ items' = [items EXCEPT ![i] = [items[i] EXCEPT !.version = @ + 1]]
          \/ items' = [items EXCEPT ![i] = [items[i] EXCEPT !.wanted = FALSE]]
      BY <2>1 DEF Edit, Fade
    <3> QED
      BY <3>1, <3>2, <3>3
  <2> QED
    BY <2>1 DEF ChooseSources, Retire, parserVars, intake, files, ParsersInv, World
<1>3. chosen' \subseteq Sources
  BY DEF Edit, Fade, ChooseSources, Retire, parserVars, intake, files, ParsersInv, World
<1>4. World'
  BY <1>1, <1>2, <1>3 DEF ParsersInv, World
<1>5. Poll'
  BY <1>1 DEF ParsersInv, Poll, PollAt, Item, Source, Known, Taken
<1>6. SeenIsTaken'
  BY <1>1 DEF ParsersInv, SeenIsTaken, Taken
<1> QED
  BY <1>4, <1>5, <1>6 DEF ParsersInv

LEMMA CrashStep == ASSUME ParsersInv, Crash PROVE ParsersInv'
<1>1. /\ UNCHANGED <<kind, items, chosen, seen, taken, uploads>>
      /\ told' = [told EXCEPT ![kind] = NoRequest]
  BY DEF Crash, files
<1>2. World'
  BY <1>1 DEF ParsersInv, World
<1>3. Between'
  BY RestingIsBetween DEF Crash
<1> QED
  BY <1>1, <1>2, <1>3, BetweenStep

LEMMA ParsersStep == ParsersInv /\ [ParsersNext]_parserVars => ParsersInv'
<1> SUFFICES ASSUME ParsersInv, [ParsersNext]_parserVars PROVE ParsersInv'
  OBVIOUS
<1>1. CASE PollStep
  BY <1>1, QuietSteps, ItemTakenUp, DeliverStep, HearStep DEF PollStep
<1>2. CASE FetchFails \/ AccessLost \/ RolesLost \/ DownloadFails \/ UploadFails
           \/ RequestLost \/ ReplyLost \/ Crash
  BY <1>2, QuietSteps, ItemTakenUp, UploadFailsStep, HearStep, CrashStep
<1>3. CASE \/ \E i \in Items : Edit(i) \/ Fade(i)
           \/ \E choice \in SUBSET Sources : ChooseSources(choice)
           \/ \E u \in unused : Retire(u)
           \/ UNCHANGED parserVars
  BY <1>3, WorldSteps
<1> QED
  BY <1>1, <1>2, <1>3 DEF ParsersNext

\* Where a poll is, what it has in hand and what it was told stay together.
THEOREM ParsersInvariance == ParsersSpec => []ParsersInv
BY ParsersStart, ParsersStep, PTL DEF ParsersSpec

\* Whatever is lost, refused, edited, chosen anew or crashes, the TiMe parser remembers an
\* item only when the intake has it: no refusal makes it pass over what was not taken
\* (poll_channel.py, json_selection.py).
THEOREM SeenIsTakenHolds == ParsersSpec => []SeenIsTaken
<1>1. ParsersInv => SeenIsTaken
  BY DEF ParsersInv
<1> QED
  BY <1>1, ParsersInvariance, PTL

===============================================================================
