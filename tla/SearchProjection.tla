--------------------------- MODULE SearchProjection ---------------------------
(***************************************************************************)
(* How one news reaches the search index, and what the feed tells a reader  *)
(* meanwhile: the revisions of the news and the events that announce them,  *)
(* the rematerialization jobs, the row of search_projections, the task      *)
(* queue of Meilisearch, the index workers and the full reindex, which one  *)
(* advisory lock keeps apart, and a reader who passes the two checks of the *)
(* visibility barrier, searches and rechecks.                               *)
(* Sources: indexer.py, client.py, workers.py, feed.py,                     *)
(* news_delivery_repository.py, rematerialization_storage.py and everything *)
(* that changes a news.                                                     *)
(*                                                                          *)
(* revision and visibility_revision of a news always move together, and so  *)
(* do indexed_revision and visibility_revision of the row: each pair is one *)
(* field.  Leases are abstract: a row left behind becomes claimable at some *)
(* later moment, which any claim may be.                                    *)
(***************************************************************************)
EXTENDS NewsLifecycle, Naturals, Sequences, FiniteSets

CONSTANTS
  Readers,      \* callers of the feed
  Workers,      \* processes that index or reindex
  Free,         \* nobody holds the advisory lock
  Accepted,     \* the revisions a submission may be accepted with
  MaxRevision,  \* bounds the history of the news
  Incidents,    \* the kinds of incidents that may happen, each once
  MaxIncidents  \* bounds how many happen

ASSUME SearchAssumption ==
  /\ Free \notin Workers
  /\ MaxRevision \in Nat \ {0, 1}
  /\ Accepted \subseteq 1 .. MaxRevision
  /\ Incidents \subseteq {"edit", "catalog", "trouble", "lost_reply", "lost_lock", "reindex"}
  /\ MaxIncidents \in Nat

VARIABLES
  news,     \* the row of table news
  parents,  \* parent jobs the coordinator has not started yet
  events,   \* revisions in events the consumer has not handled yet
  jobs,     \* rematerialization jobs, pending or running, before and behind the news
  row,      \* the row of search_projections
  tasks,    \* the tasks Meilisearch ever accepted, by task_uid
  index,    \* the revision of the document in the index
  lock,     \* the holder of the advisory lock of the index
  workers,
  requests, \* requests to the feed, and what each may truthfully count
  happened  \* the kinds of incidents that did

vars == <<news, parents, events, jobs, row, tasks, index, lock, workers, requests, happened>>

-----------------------------------------------------------------------------
Revision == 0 .. MaxRevision

NoDocument == 0   \* no document in the index
NoTask == 0       \* task_uid IS NULL

News ==
  [status : NewsState, published : BOOLEAN, deleted : BOOLEAN, owned : BOOLEAN, revision : Revision]

Row ==
  [status : {"absent", "pending", "indexing", "ready", "failed"},
   desired : Revision, indexed : Revision, task : Nat]

\* What is read from the database for the index: the document, if the news may
\* be shown, and the revision the news had.
Document == [shown : Revision, read : Revision]

Task == [document : Document, state : {"enqueued", "succeeded", "failed"}]

Worker ==
  [pc : {"idle", "listing", "reading", "posting", "storing", "waiting", "completing", "failing", "rejected"},
   job : {"one", "all"}, revision : Revision, task : Nat, document : Document]

\* A job goes through the news in the order of their ids, a chunk at a time.
Jobs == [ahead : Nat, behind : Nat]

Request == [pc : {"idle", "checking", "searching", "rechecking"}, truths : SUBSET Revision, seen : Revision]

TypeOK ==
  /\ news \in News
  /\ parents \in Nat
  /\ events \subseteq Revision
  /\ jobs \in Jobs
  /\ row \in Row
  /\ tasks \in Seq(Task)
  /\ index \in Revision
  /\ lock \in Workers \cup {Free}
  /\ workers \in [Workers -> Worker]
  /\ requests \in [Readers -> Request]
  /\ happened \subseteq Incidents

Nothing == [shown |-> NoDocument, read |-> 0]

Idle == [pc |-> "idle", job |-> "one", revision |-> 0, task |-> NoTask, document |-> Nothing]

NoRequest == [pc |-> "idle", truths |-> {}, seen |-> NoDocument]

\* A submission was accepted, which moves the revision for each origin of labels it
\* records: its parent job waits and its event is on its way.
Submitted ==
  \E r \in Accepted :
    /\ news = [status |-> "pending", published |-> FALSE, deleted |-> FALSE, owned |-> FALSE, revision |-> r]
    /\ parents = 1
    /\ events = {r}
    /\ row = [status |-> "absent", desired |-> 0, indexed |-> 0, task |-> NoTask]
    /\ tasks = <<>>
    /\ index = NoDocument

\* A news that was accepted, published and indexed, and nothing happens to it.
OnShow ==
  /\ news = [status |-> "published", published |-> TRUE, deleted |-> FALSE, owned |-> FALSE, revision |-> 2]
  /\ parents = 0
  /\ events = {}
  /\ row = [status |-> "ready", desired |-> 2, indexed |-> 2, task |-> NoTask]
  /\ tasks = <<[document |-> [shown |-> 2, read |-> 2], state |-> "succeeded"]>>
  /\ index = 2

Init ==
  /\ Submitted \/ OnShow
  /\ jobs = [ahead |-> 0, behind |-> 0]
  /\ lock = Free
  /\ workers = [w \in Workers |-> Idle]
  /\ requests = [u \in Readers |-> NoRequest]
  /\ happened = {}

\* Edits of the text, changes of the catalog or a policy, full reindexes, errors,
\* time-outs and crashes of a worker, failures of a task, a commit whose reply is lost, a lost lock.
Incident(kind) ==
  /\ kind \in Incidents \ happened
  /\ Cardinality(happened) < MaxIncidents
  /\ happened' = happened \cup {kind}

-----------------------------------------------------------------------------
(* The news *)

\* _document(): nothing for a news that is not published or is deleted.
DocumentOf(n) == [shown |-> IF Indexable(n) THEN n.revision ELSE NoDocument, read |-> n.revision]

\* What the index may hold for a news: its document.  For a news in processing
\* also the one it had, since the coordinator takes a news over silently.
Truths(n) ==
  {DocumentOf(n).shown} \cup (IF n.status = "processing" THEN {n.revision} ELSE {})

\* The barrier let the request through.
Passed(u) == requests[u].pc \in {"searching", "rechecking"}

\* Such a request collects what was true since.
Becomes(n) ==
  /\ news' = n
  /\ requests' = [u \in Readers |->
       IF Passed(u) THEN [requests[u] EXCEPT !.truths = @ \cup Truths(n)] ELSE requests[u]]
  /\ UNCHANGED <<row, tasks, index, lock, workers>>

Bumped(n) == [n EXCEPT !.revision = news.revision + 1]

\* A change of the news with its event, in one transaction.
Announce(n) ==
  /\ news.revision < MaxRevision
  /\ Becomes(Bumped(n))
  /\ events' = events \cup {news.revision + 1}

\* A change without an event.
BumpSilently ==
  /\ news.revision < MaxRevision
  /\ Becomes(Bumped(news))
  /\ UNCHANGED events

\* Publish, reject, delete, merge and split.
Decide ==
  /\ \/ \E target \in Targets : CanTransition(news, target) /\ Announce(Transitioned(news, target))
     \/ Editable(news) /\ Announce(SentToReview(news))
     \/ Editable(news) /\ Announce(MergedAway(news))
  /\ UNCHANGED <<parents, jobs, happened>>

Reprocess ==
  /\ Editable(news)
  /\ Announce([news EXCEPT !.status = "pending", !.owned = FALSE])
  /\ parents' = parents + 1
  /\ UNCHANGED <<jobs, happened>>

\* edit(): announced only while the news is published.
Edit ==
  /\ Editable(news) /\ Incident("edit")
  /\ \/ news.status = "published" /\ Announce(news)
     \/ news.status # "published" /\ BumpSilently
  /\ UNCHANGED <<parents, jobs>>

\* Manual labels and sources.
Relabel == Announce(news) /\ UNCHANGED <<parents, jobs, happened>>

\* start(): neither a new revision nor an event.
Start ==
  /\ parents > 0 /\ news.revision < MaxRevision
  /\ parents' = parents - 1
  /\ Becomes([news EXCEPT !.status = "processing", !.owned = TRUE])
  /\ UNCHANGED <<events, jobs, happened>>

\* The answer of a classifier recomputes the labels of a news a run owns: a new
\* revision, and no event before the run finishes.
Answer == news.owned /\ BumpSilently /\ UNCHANGED <<parents, jobs, happened>>

Finish ==
  /\ news.owned
  /\ \E publish \in BOOLEAN :
       Announce([news EXCEPT !.status = IF publish THEN "published" ELSE "needs_review",
                             !.published = news.published \/ publish,
                             !.owned = FALSE])
  /\ UNCHANGED <<parents, jobs, happened>>

\* A chunk recomputes the labels and moves the cursor of its job past the news.
Chunk ==
  /\ jobs.ahead > 0 /\ news.status # "deleted"
  /\ Announce(news)
  /\ jobs' = [ahead |-> jobs.ahead - 1, behind |-> jobs.behind + 1]
  /\ UNCHANGED <<parents, happened>>

\* The greatest of what the row, the event and the news ask for.
Desired(seen) == IF row.desired > seen THEN row.desired ELSE seen

\* _release_referenced_job(): the news is read before the row is locked, so what
\* is seen of it may be as old as the event.
Handle(e) ==
  /\ e \in events
  /\ events' = events \ {e}
  /\ \E seen \in e .. news.revision :
       row' = [row EXCEPT !.status = "pending", !.desired = Desired(seen), !.task = NoTask]
  /\ UNCHANGED <<news, parents, jobs, tasks, index, lock, workers, requests, happened>>

-----------------------------------------------------------------------------
(* Rematerializations *)

\* enqueue_rematerialization(): a change of the catalog, of the policy of a
\* classifier or of a rule, with the job that recomputes the news behind it.
Schedule ==
  /\ Incident("catalog")
  /\ jobs' = [jobs EXCEPT !.ahead = @ + 1]
  /\ UNCHANGED <<news, parents, events, row, tasks, index, lock, workers, requests>>

\* A job goes past a news that is deleted or out of its scope ...
Skip ==
  /\ jobs.ahead > 0
  /\ jobs' = [ahead |-> jobs.ahead - 1, behind |-> jobs.behind + 1]
  /\ UNCHANGED <<news, parents, events, row, tasks, index, lock, workers, requests, happened>>

\* ... and succeeds when no news is left.
EndJob ==
  /\ jobs.behind > 0
  /\ jobs' = [jobs EXCEPT !.behind = @ - 1]
  /\ UNCHANGED <<news, parents, events, row, tasks, index, lock, workers, requests, happened>>

-----------------------------------------------------------------------------
(* Meilisearch takes its tasks in the order it accepted them *)

Process ==
  /\ \E t \in 1 .. Len(tasks) :
       /\ tasks[t].state = "enqueued"
       /\ \A earlier \in 1 .. t - 1 : tasks[earlier].state # "enqueued"
       /\ \/ /\ tasks' = [tasks EXCEPT ![t].state = "succeeded"]
             /\ index' = tasks[t].document.shown
             /\ UNCHANGED happened
          \/ /\ tasks' = [tasks EXCEPT ![t].state = "failed"]
             /\ Incident("trouble")
             /\ UNCHANGED index
  /\ UNCHANGED <<news, parents, events, jobs, row, lock, workers, requests>>

-----------------------------------------------------------------------------
(* Index workers; all they do between Claim and Complete or Fail they do under *)
(* the advisory lock, in a transaction of its own or a request                 *)

At(w, pc) == workers[w].pc = pc

\* Mutant: a row whose worker died, or failed, is not looked at again.
ClaimableIfPending == row.desired > row.indexed /\ row.status = "pending"

Claimable == row.desired > row.indexed /\ row.status \in {"pending", "indexing", "failed"}

LockFree == lock = Free

\* process_one() and _claim_one(): a free lock, a row behind its news.
Claim(w) ==
  /\ At(w, "idle") /\ LockFree /\ Claimable
  /\ lock' = w
  /\ row' = [row EXCEPT !.status = "indexing"]
  /\ workers' = [workers EXCEPT ![w] =
       [Idle EXCEPT !.pc = "reading", !.revision = row.desired, !.task = row.task]]
  /\ UNCHANGED <<news, parents, events, jobs, tasks, index, requests, happened>>

\* reindex_all(): the lock, then every row is put back to zero.
Reset(w) ==
  /\ At(w, "idle") /\ LockFree /\ Incident("reindex")
  /\ lock' = w
  /\ row' = IF row.status = "absent" THEN row
            ELSE [row EXCEPT !.status = "pending", !.indexed = 0, !.task = NoTask]
  /\ workers' = [workers EXCEPT ![w] = [Idle EXCEPT !.pc = "listing", !.job = "all"]]
  /\ UNCHANGED <<news, parents, events, jobs, tasks, index, requests>>

\* stream_snapshot(): the revisions of a page of news are read first.
List(w) ==
  /\ At(w, "listing")
  /\ workers' = [workers EXCEPT ![w] = [@ EXCEPT !.pc = "reading", !.revision = news.revision]]
  /\ UNCHANGED <<news, parents, events, jobs, row, tasks, index, lock, requests, happened>>

\* The document is read.  A worker that found a task waits for that one; the
\* snapshot counts the revision of the document, if there is one.
Read(w) ==
  /\ At(w, "reading")
  /\ LET document == DocumentOf(news)
         listed == workers[w].job = "all" /\ document.shown # NoDocument
     IN  workers' = [workers EXCEPT ![w] = [@ EXCEPT
           !.pc = IF workers[w].task # NoTask THEN "waiting" ELSE "posting",
           !.document = document,
           !.revision = IF listed THEN document.shown ELSE workers[w].revision]]
  /\ UNCHANGED <<news, parents, events, jobs, row, tasks, index, lock, requests, happened>>

\* The tasks of a request; what a worker asks for is queued behind all others.
Queued(w) == Append(tasks, [document |-> workers[w].document, state |-> "enqueued"])

\* A put or a deletion.
Post(w) ==
  /\ At(w, "posting") /\ workers[w].job = "one"
  /\ tasks' = Queued(w)
  /\ workers' = [workers EXCEPT ![w] = [@ EXCEPT !.pc = "storing", !.task = Len(tasks) + 1]]
  /\ UNCHANGED <<news, parents, events, jobs, row, index, lock, requests, happened>>

\* replace_all(): the documents go to an index of their own, which the swap behind
\* them puts in the place of the old one.
Swap(w) ==
  /\ At(w, "posting") /\ workers[w].job = "all"
  /\ tasks' = Queued(w)
  /\ workers' = [workers EXCEPT ![w] = [@ EXCEPT !.pc = "waiting", !.task = Len(tasks) + 1]]
  /\ UNCHANGED <<news, parents, events, jobs, row, index, lock, requests, happened>>

StaysDesired(w) == row.desired = workers[w].revision

StoreTask(w) ==
  /\ At(w, "storing")
  /\ row' = IF StaysDesired(w) THEN [row EXCEPT !.task = workers[w].task] ELSE row
  /\ workers' = [workers EXCEPT ![w].pc = "waiting"]
  /\ UNCHANGED <<news, parents, events, jobs, tasks, index, lock, requests, happened>>

\* wait_task(): the task has an outcome.
Await(w) ==
  /\ At(w, "waiting")
  /\ tasks[workers[w].task].state # "enqueued"
  /\ workers' = [workers EXCEPT
       ![w].pc = IF tasks[workers[w].task].state = "succeeded" THEN "completing" ELSE "rejected"]
  /\ UNCHANGED <<news, parents, events, jobs, row, tasks, index, lock, requests, happened>>

\* Neither the row nor the news has moved on.
Current(w) == row.desired = workers[w].revision /\ news.revision = workers[w].revision

\* _complete(): otherwise the row is pending again, behind the news as it is.
Completed(w) ==
  IF Current(w)
  THEN [row EXCEPT !.status = "ready", !.indexed = workers[w].revision, !.task = NoTask]
  ELSE [row EXCEPT !.status = "pending", !.desired = Desired(news.revision), !.task = NoTask]

\* Mutant: the snapshot is confirmed as the present state of the news.
RebuiltAsCurrent(w) ==
  [status |-> "ready", desired |-> news.revision, indexed |-> news.revision, task |-> NoTask]

\* The end of rebuild_snapshot(): the row the snapshot holds for the news.
Rebuilt(w) ==
  [status |-> IF news.revision = workers[w].revision THEN "ready" ELSE "pending",
   desired |-> Desired(news.revision), indexed |-> workers[w].revision, task |-> NoTask]

Confirmed(w) == IF workers[w].job = "one" THEN Completed(w) ELSE Rebuilt(w)

\* The worker is done, or dead: it holds the lock no longer.
Rest(w) ==
  /\ workers' = [workers EXCEPT ![w] = Idle]
  /\ lock' = IF lock = w THEN Free ELSE lock

Complete(w) ==
  /\ At(w, "completing")
  /\ row' = Confirmed(w)
  /\ Rest(w)
  /\ UNCHANGED <<news, parents, events, jobs, tasks, index, requests, happened>>

\* The transaction commits, and the worker sees its connection fail.
CompleteUnheard(w) ==
  /\ At(w, "completing") /\ workers[w].job = "one" /\ Incident("lost_reply")
  /\ row' = Confirmed(w)
  /\ workers' = [workers EXCEPT ![w].pc = "failing"]
  /\ UNCHANGED <<news, parents, events, jobs, tasks, index, lock, requests>>

\* _fail(): a task that failed is forgotten, one that may still succeed is kept.
\* A reindex that fails ends its process and leaves the rows as they are.
Fail(w) ==
  /\ At(w, "failing") \/ At(w, "rejected")
  /\ row' = IF workers[w].job = "all" THEN row
            ELSE [row EXCEPT !.status = "failed",
                             !.task = IF At(w, "rejected") THEN NoTask ELSE row.task]
  /\ Rest(w)
  /\ UNCHANGED <<news, parents, events, jobs, tasks, index, requests, happened>>

WorkerStep(w) ==
  \/ Claim(w) \/ List(w) \/ Read(w) \/ Post(w) \/ Swap(w)
  \/ StoreTask(w) \/ Await(w) \/ Complete(w) \/ Fail(w)

\* A request or a transaction raises, or the task takes too long.
Err(w) ==
  /\ ~At(w, "idle") /\ Incident("trouble")
  /\ workers' = [workers EXCEPT ![w].pc = "failing"]
  /\ UNCHANGED <<news, parents, events, jobs, row, tasks, index, lock, requests>>

\* The process dies, and with it its connection and its lock.
Crash(w) ==
  /\ ~At(w, "idle") /\ Incident("trouble")
  /\ Rest(w)
  /\ UNCHANGED <<news, parents, events, jobs, row, tasks, index, requests>>

\* The connection that holds the lock breaks; the worker notices at the end.
LoseLock(w) ==
  /\ lock = w /\ Incident("lost_lock")
  /\ lock' = Free
  /\ UNCHANGED <<news, parents, events, jobs, row, tasks, index, workers, requests>>

-----------------------------------------------------------------------------
(* The feed *)

\* The first statement of visibility_ready(): no job of any news is at work.
NoJob == jobs.ahead = 0 /\ jobs.behind = 0

\* Mutant: a news without a row is taken for one nobody indexed.
NotStaleWithoutRow == news.published => row.indexed >= news.revision \/ row.status = "absent"

\* The second one, for this news.
NotStale ==
  news.published => row.status \notin {"absent", "failed"} /\ row.indexed >= news.revision

\* feed(): 503 while there are jobs ...
Ask(u) ==
  /\ requests[u].pc = "idle" /\ NoJob
  /\ requests' = [requests EXCEPT ![u].pc = "checking"]
  /\ UNCHANGED <<news, parents, events, jobs, row, tasks, index, lock, workers, happened>>

\* ... or, a moment later, while a published news is behind ...
Check(u) ==
  /\ requests[u].pc = "checking"
  /\ requests' = [requests EXCEPT ![u] =
       IF NotStale THEN [pc |-> "searching", truths |-> Truths(news), seen |-> NoDocument]
       ELSE NoRequest]
  /\ UNCHANGED <<news, parents, events, jobs, row, tasks, index, lock, workers, happened>>

\* ... then the search, with its totals and facets ...
Search(u) ==
  /\ requests[u].pc = "searching"
  /\ requests' = [requests EXCEPT ![u] = [@ EXCEPT !.pc = "rechecking", !.seen = index]]
  /\ UNCHANGED <<news, parents, events, jobs, row, tasks, index, lock, workers, happened>>

\* ... and 503 after all if a hit is a published news whose row is behind ...
Refused(u) ==
  /\ requests[u].seen # NoDocument /\ news.status = "published"
  /\ row.status = "absent" \/ row.indexed < news.revision

\* ... or else the answer, with the totals as they were found.
Answered(u) == requests[u].pc = "rechecking" /\ ~Refused(u)

Recheck(u) ==
  /\ requests[u].pc = "rechecking"
  /\ requests' = [requests EXCEPT ![u] = NoRequest]
  /\ UNCHANGED <<news, parents, events, jobs, row, tasks, index, lock, workers, happened>>

-----------------------------------------------------------------------------
NewsStep == Decide \/ Reprocess \/ Edit \/ Relabel \/ Start \/ Answer \/ Finish \/ Chunk

Next ==
  \/ NewsStep
  \/ Schedule \/ Skip \/ EndJob
  \/ \E e \in events : Handle(e)
  \/ Process
  \/ \E w \in Workers :
       WorkerStep(w) \/ Reset(w) \/ CompleteUnheard(w) \/ Err(w) \/ Crash(w) \/ LoseLock(w)
  \/ \E u \in Readers : Ask(u) \/ Check(u) \/ Search(u) \/ Recheck(u)

Spec == Init /\ [][Next]_vars

\* Events are delivered until they are handled, Meilisearch works off its queue,
\* workers poll for ever, every run ends (RunsEnd of NewsPipeline), and so does
\* every rematerialization whose chunks do not fail for ever (Converges of Labels).
Fairness ==
  /\ WF_vars(\E e \in events : Handle(e))
  /\ WF_vars(Process)
  /\ \A w \in Workers : WF_vars(WorkerStep(w))
  /\ WF_vars(Finish)
  /\ WF_vars(Chunk \/ Skip) /\ WF_vars(EndJob)

FairSpec == Spec /\ Fairness

-----------------------------------------------------------------------------
(* Correctness *)

\* While no published news counts as behind, the index holds what it should, jobs
\* or not, as long as no worker went on without the lock.
IndexIsCurrent ==
  "lost_lock" \notin happened /\ news.published /\ NotStale => index \in Truths(news)

\* The totals of an answer were true at some moment of the request, up to the
\* silent start of a run, as long as the lock holds.
FeedTellsTheTruth ==
  [][ \A u \in Readers :
        /\ "lost_lock" \notin happened
        /\ Answered(u)
        /\ requests'[u] # requests[u]
        => requests[u].seen \in requests[u].truths ]_vars

\* An event with the revision of the news is on its way or was handled.
Announced == news.revision \in events \/ row.desired >= news.revision

\* Both checks of the barrier pass.
BarrierOpen == NoJob /\ NotStale

\* Unless the news moves on, the barrier opens behind an announced revision and
\* behind every job; a confirmation whose answer is lost leaves a row that no claim
\* takes.
AnnouncedIsShown == []<>(BarrierOpen \/ ~Announced \/ "lost_reply" \in happened)

=============================================================================
