----------------------------- MODULE NewsPipeline -----------------------------
(***************************************************************************)
(* The pipeline runs of one news: the parent jobs the coordinator advances  *)
(* from their attachments to their classifiers to a decision, the jobs      *)
(* they wait for, and the editors, who may decide, reprocess, merge or      *)
(* split the news at any moment of a run.                                   *)
(* Sources: pipeline_coordinator_storage.py, news_administration/*, and the *)
(* closing transaction of attachment_processing_storage.py.                 *)
(*                                                                          *)
(* The coordinator locks the parent job, and the news before it changes it, *)
(* so each of its transactions is an action.  A job a run waits for is      *)
(* reduced to its outcome; ClassificationJob models what happens inside.    *)
(* Two branches are absent because no row can take them: a news is never    *)
(* removed, and it has a version from its first transaction on.             *)
(***************************************************************************)
EXTENDS NewsLifecycle

CONSTANTS
  Runs,         \* parent jobs; bounds how often the news is processed
  NoRun,        \* news.current_attempt_id IS NULL
  Attachments,  \* attachments the news may have
  Classifiers

ASSUME PipelineAssumption ==
  /\ NoRun \notin Runs
  /\ Attachments \cap Classifiers = {}

VARIABLES
  news,     \* the row of table news
  runs,     \* the parent jobs, with the stage of their payload
  jobs,     \* the state of the jobs of every run
  missing,  \* its attachments known by URL only (object_key IS NULL)
  storing,  \* attachment transactions past their reading of the news
  labelled  \* whether every required axis has an effective label

vars == <<news, runs, jobs, missing, storing, labelled>>

-----------------------------------------------------------------------------
Children == Attachments \cup Classifiers

News ==
  [status : NewsState, owner : Runs \cup {NoRun}, published : BOOLEAN, deleted : BOOLEAN]

Run ==
  [status : {"absent", "pending", "waiting_children", "succeeded", "cancelled"},
   stage : {"none", "attachments", "classification"}]

JobState == {"absent", "open", "succeeded", "dead_letter"}

TypeOK ==
  /\ news \in News
  /\ runs \in [Runs -> Run]
  /\ jobs \in [Runs -> [Children -> JobState]]
  /\ missing \subseteq Attachments
  /\ storing \subseteq Runs \X Attachments
  /\ labelled \in BOOLEAN

RunAt(status, stage) == [status |-> status, stage |-> stage]

\* A submission was accepted: the news and its first parent job are pending;
\* defaults of the source or labels of the parser may already be effective.
Init ==
  /\ news = [status |-> "pending", owner |-> NoRun, published |-> FALSE, deleted |-> FALSE]
  /\ \E first \in Runs :
       runs = [r \in Runs |-> RunAt(IF r = first THEN "pending" ELSE "absent", "none")]
  /\ jobs = [r \in Runs |-> [c \in Children |-> "absent"]]
  /\ missing \in SUBSET Attachments
  /\ storing = {}
  /\ labelled \in BOOLEAN

-----------------------------------------------------------------------------
(* The coordinator *)

Open(r, group) == [jobs EXCEPT ![r] = [c \in Children |-> IF c \in group THEN "open" ELSE @[c]]]

\* start(): the run takes the news over, from another run or an editor if need
\* be, and opens a job for every attachment that is known by URL only.
Start(r) ==
  /\ runs[r].status = "pending"
  /\ news' = [news EXCEPT !.status = "processing", !.owner = r]
  /\ jobs' = Open(r, missing)
  /\ runs' = [runs EXCEPT ![r] = RunAt("waiting_children", "attachments")]
  /\ UNCHANGED <<missing, storing, labelled>>

StageJobs(r) == IF runs[r].stage = "attachments" THEN Attachments ELSE Classifiers

\* Mutant: only success ends the waiting.
StageOverOnSuccess(r) == \A c \in StageJobs(r) : jobs[r][c] \in {"absent", "succeeded"}

\* advance(): no child of the stage is open any more; otherwise the run is
\* postponed, which only moves its available_at.
StageOver(r) == \A c \in StageJobs(r) : jobs[r][c] # "open"

\* Mutant: a failed attachment does not stop the run.
StageFailedClassifiersOnly(r) == \E c \in Classifiers : jobs[r][c] = "dead_letter"

StageFailed(r) == \E c \in StageJobs(r) : jobs[r][c] = "dead_letter"

Waiting(r) == runs[r].status = "waiting_children" /\ StageOver(r)

\* start_classifiers(): a job for every classifier that is enabled now.
StartClassifiers(r) ==
  /\ Waiting(r) /\ runs[r].stage = "attachments" /\ ~StageFailed(r)
  /\ \E enabled \in SUBSET Classifiers : jobs' = Open(r, enabled)
  /\ runs' = [runs EXCEPT ![r].stage = "classification"]
  /\ UNCHANGED <<news, missing, storing, labelled>>

\* finish() writes the failures to the attempt; the job itself succeeds.
EndStatus(failed) == "succeeded"

\* The news once its run is over: published only without a failure, if the
\* setting asks for it and no required axis is left without a label.
Decided(publish) ==
  [news EXCEPT !.status = IF publish THEN "published" ELSE "needs_review",
               !.published = news.published \/ publish,
               !.owner = NoRun]

Owns(r) == news.owner = r

\* finish(): all children ended, or the attachments failed, or a source of the
\* news is private, which skips the classifiers.  A run that lost the news is
\* cancelled and decides nothing.
Finish(r) ==
  /\ Waiting(r)
  /\ \/ ~Owns(r)
        /\ runs' = [runs EXCEPT ![r].status = "cancelled"]
        /\ UNCHANGED news
     \/ /\ Owns(r)
        /\ \E auto_publish \in BOOLEAN :
             news' = Decided(auto_publish /\ labelled /\ ~StageFailed(r))
        /\ runs' = [runs EXCEPT ![r].status = EndStatus(StageFailed(r))]
  /\ UNCHANGED <<jobs, missing, storing, labelled>>

-----------------------------------------------------------------------------
(* The jobs of a run *)

\* The answer of a classifier is applied, which recomputes the effective labels;
\* its transaction locks the news and checks that the run still owns it.
ClassifierSucceeds(r, c) ==
  /\ c \in Classifiers /\ jobs[r][c] = "open"
  /\ news.owner = r
  /\ jobs' = [jobs EXCEPT ![r][c] = "succeeded"]
  /\ labelled' \in BOOLEAN
  /\ UNCHANGED <<news, runs, missing, storing>>

\* The last try of a job failed or timed out.
JobFails(r, c) ==
  /\ jobs[r][c] = "open"
  /\ <<r, c>> \notin storing
  /\ jobs' = [jobs EXCEPT ![r][c] = "dead_letter"]
  /\ UNCHANGED <<news, runs, missing, storing, labelled>>

\* matches() compares the attempt and not the status of the job: a result also
\* counts when the job was dead-lettered meanwhile.
Storable(r, a) == jobs[r][a] \in {"open", "dead_letter"}

\* The transaction of an attachment job, which holds the lock of the job, reads
\* the news without a lock and finds that its run owns it.
AttachmentPasses(r, a) ==
  /\ a \in Attachments /\ Storable(r, a)
  /\ <<r, a>> \notin storing
  /\ news.owner = r
  /\ storing' = storing \cup {<<r, a>>}
  /\ UNCHANGED <<news, runs, jobs, missing, labelled>>

\* ... and commits.
AttachmentSucceeds(r, a) ==
  /\ <<r, a>> \in storing
  /\ storing' = storing \ {<<r, a>>}
  /\ jobs' = [jobs EXCEPT ![r][a] = "succeeded"]
  /\ missing' = missing \ {a}
  /\ UNCHANGED <<news, runs, labelled>>

\* ... or dies with its process.
AttachmentAborts(r, a) ==
  /\ <<r, a>> \in storing
  /\ storing' = storing \ {<<r, a>>}
  /\ UNCHANGED <<news, runs, jobs, missing, labelled>>

JobStep(r, c) == ClassifierSucceeds(r, c) \/ JobFails(r, c) \/ AttachmentSucceeds(r, c)

-----------------------------------------------------------------------------
(* Editors *)

\* transition(): the run that owns the news, if any, goes on.
Transition(target) ==
  /\ CanTransition(news, target)
  /\ news' = Transitioned(news, target)
  /\ UNCHANGED <<runs, jobs, missing, storing, labelled>>

\* Mutant: the status stays what it was.
ReprocessStatusKept(r) ==
  /\ Editable(news)
  /\ runs[r].status = "absent"
  /\ runs' = [runs EXCEPT ![r].status = "pending"]
  /\ news' = [news EXCEPT !.owner = NoRun]
  /\ UNCHANGED <<jobs, missing, storing, labelled>>

\* reprocess(): a new parent job; the run that owned the news loses it.
Reprocess(r) ==
  /\ Editable(news)
  /\ runs[r].status = "absent"
  /\ runs' = [runs EXCEPT ![r].status = "pending"]
  /\ news' = [news EXCEPT !.status = "pending", !.owner = NoRun]
  /\ UNCHANGED <<jobs, missing, storing, labelled>>

\* merge() with this news as its target; attachments come with the submissions.
MergeInto ==
  /\ Editable(news)
  /\ news' = SentToReview(news)
  /\ \E more \in SUBSET Attachments : missing' = missing \cup more
  /\ UNCHANGED <<runs, jobs, storing, labelled>>

\* split() of this news, which keeps some of its submissions.
Split ==
  /\ Editable(news)
  /\ news' = SentToReview(news)
  /\ missing' \in SUBSET missing
  /\ UNCHANGED <<runs, jobs, storing, labelled>>

\* merge() with this news as a source: all of its submissions leave.
MergeAway ==
  /\ Editable(news)
  /\ news' = MergedAway(news)
  /\ missing' = {}
  /\ UNCHANGED <<runs, jobs, storing, labelled>>

\* Manual labels, a chunk of a rematerialization: the labels are recomputed.
Relabel ==
  /\ labelled' \in BOOLEAN
  /\ UNCHANGED <<news, runs, jobs, missing, storing>>

CoordinatorStep(r) == Start(r) \/ StartClassifiers(r) \/ Finish(r)

Next ==
  \/ \E r \in Runs : CoordinatorStep(r) \/ Reprocess(r)
  \/ \E r \in Runs, c \in Children : JobStep(r, c)
  \/ \E r \in Runs, a \in Attachments : AttachmentPasses(r, a) \/ AttachmentAborts(r, a)
  \/ \E target \in Targets : Transition(target)
  \/ MergeInto \/ Split \/ MergeAway \/ Relabel

Spec == Init /\ [][Next]_vars

\* The coordinator polls for ever and serves the parent that waited longest, so
\* every parent gets its turn; every job ends (JobEnds of ClassificationJob).
Fairness ==
  /\ \A r \in Runs : WF_vars(CoordinatorStep(r))
  /\ \A r \in Runs, c \in Children : WF_vars(JobStep(r, c))

FairSpec == Spec /\ Fairness

-----------------------------------------------------------------------------
(* Correctness *)

\* The run a news is owned by is at work; so the results its jobs bring are
\* those of a run that will still decide about the news.
OwnerIsWorking == news.owner # NoRun => runs[news.owner].status = "waiting_children"

\* Nothing is forgotten half-way: a news in processing has an owner, a news that
\* is pending has a parent job the coordinator will start.
NobodyForgotten ==
  /\ news.status = "processing" => news.owner # NoRun
  /\ news.status = "pending" => \E r \in Runs : runs[r].status = "pending"

\* Whatever publishes a news dates it: the visibility barrier watches exactly
\* the news that have a date.
PublishedIsDated == news.status = "published" => news.published

\* What the stage of a run says about its jobs.
Staged(r) ==
  /\ runs[r].stage = "none" <=> runs[r].status \in {"absent", "pending"}
  /\ runs[r].stage # "classification" => \A c \in Classifiers : jobs[r][c] = "absent"
  /\ runs[r].stage = "none" => \A a \in Attachments : jobs[r][a] = "absent"
  /\ runs[r].stage = "classification" => \A a \in Attachments : jobs[r][a] \in {"absent", "succeeded"}
  /\ \A a \in Attachments : <<r, a>> \in storing => Storable(r, a)

\* The classifiers of a run start only behind its attachments, and every started
\* run has its stage.
StagesInOrder == \A r \in Runs : Staged(r)

\* The pipeline publishes on its own only what all of its jobs, the attachments
\* included, succeeded for, in the run that owned the news, with all labels.
AutoPublishedIsComplete ==
  [][ \A r \in Runs :
        runs[r].status # runs'[r].status /\ news'.status = "published" /\ news' # news =>
          /\ news.owner = r /\ labelled
          /\ \A c \in Children : jobs[r][c] \in {"absent", "succeeded"} ]_vars

\* A run that lost the news never gets it back: it ends cancelled, without a
\* word about the news.
SupersededStaysSo ==
  [][ \A r \in Runs :
        runs[r].status = "waiting_children" /\ news.owner # r =>
          /\ news'.owner # r
          /\ runs'[r].status \in {"waiting_children", "cancelled"}
          /\ runs'[r].status = "cancelled" => news' = news ]_vars

\* The inductive invariant.
IInv == TypeOK /\ OwnerIsWorking /\ NobodyForgotten /\ PublishedIsDated /\ StagesInOrder

\* Every parent job ends, those that lost their news included.
RunsEnd ==
  \A r \in Runs : runs[r].status = "pending" ~> runs[r].status \in {"succeeded", "cancelled"}

\* No news stays in the pipeline: in the end there is something to decide or a
\* decision, whatever the editors do and however the jobs end.
NewsLeavesPipeline ==
  news.status \in {"pending", "processing"} ~> news.status \notin {"pending", "processing"}

=============================================================================
