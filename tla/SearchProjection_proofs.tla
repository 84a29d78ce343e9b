------------------------ MODULE SearchProjection_proofs ------------------------
(***************************************************************************)
(* Proofs about SearchProjection: for any readers, workers, revisions and   *)
(* incidents but a lost lock, the index holds what it should while the news *)
(* does not count as behind, and the feed tells what was true during the    *)
(* request; for any news, stale document, preset and query the routes of    *)
(* the public API apply one policy.                                         *)
(***************************************************************************)
EXTENDS MCSearchProjection, SequenceTheorems, Inductions

Kept == "lost_lock" \notin happened

-------------------------------------------------------------------------------
(* What holds whatever happens to the lock *)

\* A document that was read from the news as it is, or as it was.
Sound(document) ==
  /\ document.read <= news.revision
  /\ document.shown \in {NoDocument, document.read}
  /\ document.shown # NoDocument => news.published
  /\ document.read = news.revision => document.shown \in Truths(news)

Documents ==
  /\ \A t \in 1 .. Len(tasks) : Sound(tasks[t].document)
  /\ \A w \in Workers : Sound(workers[w].document)
  /\ index # NoDocument => news.published

\* Nothing is ahead of the news.
Behind ==
  /\ 0 < news.revision
  /\ \A e \in events : e <= news.revision
  /\ row.desired <= news.revision /\ row.indexed <= news.revision
  /\ \A w \in Workers : workers[w].revision <= news.revision
  /\ row.status = "absent" => row.indexed = 0 /\ row.task = NoTask
  /\ row.status = "absent" =>
       \A w \in Workers : At(w, "idle") \/ (workers[w].job = "all" /\ ~At(w, "storing"))

PublishedOnce == news.status = "published" => news.published

\* The queue: the last task has an outcome only if all have one.
InOrder ==
  /\ \A s, t \in 1 .. Len(tasks) :
       s < t /\ tasks[s].state = "enqueued" => tasks[t].state = "enqueued"
  /\ Len(tasks) # 0 /\ tasks[Len(tasks)].state = "succeeded"
       => index = tasks[Len(tasks)].document.shown

-------------------------------------------------------------------------------
(* What holds as long as the lock does *)

OneAtATime == \A w \in Workers : ~At(w, "idle") => lock = w

\* The task of a row, and the one a worker waits for, is the last of the queue,
\* and its document is at least as new as what the row or the worker asks for.
LastTask(t, revision) ==
  t = Len(tasks) /\ t # NoTask /\ revision <= tasks[t].document.read

TaskInRow == row.task # NoTask => LastTask(row.task, row.desired)

InHand(w) ==
  /\ At(w, "listing") => workers[w].task = NoTask /\ row.task = NoTask
  /\ At(w, "reading") =>
       IF workers[w].task = NoTask THEN row.task = NoTask
       ELSE workers[w].job = "one" /\ LastTask(workers[w].task, workers[w].revision)
  /\ At(w, "posting") => row.task = NoTask /\ workers[w].revision <= workers[w].document.read
  /\ workers[w].pc \in {"storing", "waiting", "completing"} =>
       LastTask(workers[w].task, workers[w].revision)
  /\ At(w, "completing") => tasks[workers[w].task].state = "succeeded"

TaskInHand == \A w \in Workers : InHand(w)

Active(w) == workers[w].pc \in {"listing", "reading", "posting", "storing", "waiting", "completing"}

\* A row that confirms the news as it is has nobody at work behind it.
Settled ==
  /\ \A w \in Workers : Active(w) => row.indexed < news.revision
  /\ row.indexed = news.revision =>
       /\ \A t \in 1 .. Len(tasks) : tasks[t].state # "enqueued"
       /\ index \in Truths(news)

\* Whatever a search may still find was true during the request.
Honest ==
  \A u \in Readers : Passed(u) =>
    /\ Truths(news) \subseteq requests[u].truths
    /\ index \in requests[u].truths
    /\ \A t \in 1 .. Len(tasks) :
         tasks[t].state = "enqueued" => tasks[t].document.shown \in requests[u].truths
    /\ \A w \in Workers : At(w, "posting") => workers[w].document.shown \in requests[u].truths
    /\ requests[u].pc = "rechecking" => requests[u].seen \in requests[u].truths

Always == TypeOK /\ Documents /\ Behind /\ PublishedOnce /\ InOrder

Locked == OneAtATime /\ TaskInRow /\ TaskInHand /\ Settled /\ Honest

IInv == Always /\ (Kept => Locked)

USE SearchAssumption

LEMMA RestFields ==
  /\ Idle \in Worker /\ Idle.pc = "idle" /\ Idle.task = NoTask /\ Idle.revision = 0
  /\ Idle.document = Nothing /\ NoRequest \in Request /\ NoRequest.pc = "idle"
BY DEF Idle, NoRequest, Worker, Request, Nothing, Document, Revision, NoDocument, NoTask

\* What holds of a news as it was accepted, and of one on show.
LEMMA AtRest ==
  ASSUME Init
  PROVE  /\ news \in News /\ parents \in Nat /\ events \subseteq Revision /\ row \in Row
         /\ tasks \in Seq(Task) /\ index \in Revision
         /\ 0 < news.revision /\ \A e \in events : e <= news.revision
         /\ row.desired <= news.revision /\ row.indexed <= news.revision /\ row.task = NoTask
         /\ row.status = "absent" => row.indexed = 0
         /\ PublishedOnce /\ (index # NoDocument => news.published)
         /\ \A t \in 1 .. Len(tasks) : Sound(tasks[t].document) /\ tasks[t].state = "succeeded"
         /\ Len(tasks) # 0 => index = tasks[Len(tasks)].document.shown
         /\ row.indexed = news.revision => index \in Truths(news)
<1>1. CASE Submitted
  <2>1. PICK r \in Accepted :
          /\ news = [status |-> "pending", published |-> FALSE, deleted |-> FALSE, owned |-> FALSE, revision |-> r]
          /\ events = {r}
          /\ parents = 1 /\ tasks = <<>> /\ index = NoDocument
          /\ row = [status |-> "absent", desired |-> 0, indexed |-> 0, task |-> NoTask]
    BY <1>1 DEF Submitted
  <2>2. r \in 1 .. MaxRevision
    OBVIOUS
  <2>3. tasks \in Seq(Task) /\ Len(tasks) = 0
    BY <2>1
  <2> QED
    BY <2>1, <2>2, <2>3 DEF News, Row, NewsState, Revision, NoTask, NoDocument, PublishedOnce
<1>2. CASE OnShow
  <2> DEFINE document == [shown |-> 2, read |-> 2]
             task == [document |-> document, state |-> "succeeded"]
  <2>1. /\ news = [status |-> "published", published |-> TRUE, deleted |-> FALSE, owned |-> FALSE, revision |-> 2]
        /\ parents = 0 /\ events = {} /\ tasks = <<task>> /\ index = 2
        /\ row = [status |-> "ready", desired |-> 2, indexed |-> 2, task |-> NoTask]
    BY <1>2 DEF OnShow
  <2>2. 2 \in Revision
    BY DEF Revision
  <2>3. task \in Task
    BY <2>2 DEF Task, Document
  <2>4. tasks \in Seq(Task) /\ Len(tasks) = 1 /\ tasks[1] = task
    BY <2>1, <2>3
  <2>5. 2 \in Truths(news)
    BY <2>1 DEF Truths, DocumentOf, Indexable
  <2>6. Sound(document)
    BY <2>1, <2>5 DEF Sound, NoDocument
  <2>7. /\ \A t \in 1 .. Len(tasks) : Sound(tasks[t].document) /\ tasks[t].state = "succeeded"
        /\ index = tasks[Len(tasks)].document.shown
    BY <2>1, <2>4, <2>6
  <2>8. news \in News /\ row \in Row
    BY <2>1, <2>2 DEF News, Row, NewsState, NoTask
  <2> QED
    BY <2>1, <2>2, <2>4, <2>5, <2>7, <2>8 DEF PublishedOnce
<1> QED
  BY <1>1, <1>2 DEF Init

LEMMA InitIInv == Init => IInv
<1> SUFFICES ASSUME Init PROVE IInv
  OBVIOUS
<1>1. /\ jobs = [ahead |-> 0, behind |-> 0] /\ lock = Free /\ happened = {}
      /\ workers = [w \in Workers |-> Idle] /\ requests = [u \in Readers |-> NoRequest]
  BY DEF Init
<1>2. /\ \A w \in Workers : workers[w] = Idle /\ At(w, "idle")
      /\ \A u \in Readers : requests[u] = NoRequest /\ ~Passed(u)
  BY <1>1, RestFields DEF At, Passed
<1>3. TypeOK
  BY <1>1, AtRest, RestFields DEF TypeOK, Jobs
<1>4. Documents
  <2>1. Sound(Nothing)
    <3>1. news.revision \in Nat /\ 0 < news.revision
      BY AtRest DEF News, Revision
    <3> QED
      BY <3>1 DEF Sound, Nothing, NoDocument
  <2> QED
    BY <1>2, <2>1, AtRest, RestFields DEF Documents
<1>5. Behind /\ PublishedOnce /\ InOrder
  BY <1>2, AtRest, RestFields DEF Behind, InOrder, News, Revision
<1>6. Locked
  BY <1>2, AtRest, RestFields DEF Locked, OneAtATime, TaskInRow, TaskInHand, InHand, Settled, Honest,
    At, Active, Passed
<1> QED
  BY <1>3, <1>4, <1>5, <1>6 DEF IInv, Always

-------------------------------------------------------------------------------
(* Types *)

Steps ==
  {"listing", "reading", "posting", "storing", "waiting", "completing", "failing", "rejected"}

\* What a worker may have next in hand.
LEMMA WorkerMoves ==
  ASSUME NEW v \in Worker, NEW pc \in Steps
  PROVE  /\ [v EXCEPT !.pc = pc] \in Worker
         /\ \A r \in Revision : [v EXCEPT !.pc = pc, !.revision = r] \in Worker
         /\ \A t \in Nat : [v EXCEPT !.pc = pc, !.task = t] \in Worker
         /\ \A d \in Document, r \in Revision :
              [v EXCEPT !.pc = pc, !.document = d, !.revision = r] \in Worker
<1>1. [v EXCEPT !.pc = pc] \in Worker
  BY DEF Worker, Steps
<1>2. \A r \in Revision : [v EXCEPT !.pc = pc, !.revision = r] \in Worker
  BY DEF Worker, Steps
<1>3. \A t \in Nat : [v EXCEPT !.pc = pc, !.task = t] \in Worker
  BY DEF Worker, Steps
<1>4. \A d \in Document, r \in Revision :
        [v EXCEPT !.pc = pc, !.document = d, !.revision = r] \in Worker
  BY DEF Worker, Steps
<1> QED
  BY <1>1, <1>2, <1>3, <1>4

LEMMA DocumentTypes ==
  ASSUME TypeOK
  PROVE  /\ DocumentOf(news) \in Document /\ DocumentOf(news).shown \in Revision
         /\ DocumentOf(news).read = news.revision
         /\ DocumentOf(news).shown \in {NoDocument, news.revision}
         /\ Truths(news) \subseteq Revision
BY DEF TypeOK, News, DocumentOf, Document, Truths, Revision, NoDocument

LEMMA QueueTypes ==
  ASSUME TypeOK
  PROVE  /\ Len(tasks) \in Nat
         /\ \A t \in 1 .. Len(tasks) :
              /\ tasks[t] \in Task
              /\ tasks[t].document \in Document
              /\ tasks[t].document.shown \in Nat /\ tasks[t].document.read \in Nat
<1>1. tasks \in Seq(Task)
  BY DEF TypeOK
<1>2. Len(tasks) \in Nat /\ \A t \in 1 .. Len(tasks) : tasks[t] \in Task
  BY <1>1
<1>3. \A task \in Task : task.document \in Document
  BY DEF Task
<1>4. \A d \in Document : d.shown \in Nat /\ d.read \in Nat
  BY DEF Document, Revision
<1> QED
  BY <1>2, <1>3, <1>4

\* What a worker asks for is queued behind all others.
LEMMA QueuedTypes ==
  ASSUME TypeOK, NEW w \in Workers
  PROVE  /\ Queued(w) \in Seq(Task) /\ Len(Queued(w)) = Len(tasks) + 1
         /\ \A t \in 1 .. Len(tasks) : Queued(w)[t] = tasks[t]
         /\ Queued(w)[Len(tasks) + 1].document = workers[w].document
         /\ Queued(w)[Len(tasks) + 1].state = "enqueued"
<1>1. tasks \in Seq(Task)
  BY DEF TypeOK
<1>2. [document |-> workers[w].document, state |-> "enqueued"] \in Task
  BY DEF TypeOK, Worker, Task
<1> QED
  BY <1>1, <1>2 DEF Queued

-------------------------------------------------------------------------------
(* The news *)

\* A successor of the news but for its revision.
Successor(n) ==
  /\ n \in News
  /\ news.published => n.published
  /\ n.status = "published" => n.published

NewsMoved ==
  /\ Successor(news') /\ Becomes(news')
  /\ \/ news'.revision = news.revision + 1
     \/ news'.revision = news.revision /\ Truths(news) \subseteq Truths(news')
  /\ events' \subseteq events \cup {news'.revision}
  /\ parents' \in Nat /\ jobs' \in Jobs
  /\ happened \subseteq happened' /\ happened' \subseteq Incidents

LEMMA BumpMoves ==
  ASSUME TypeOK, NEW n, Successor(n), news.revision < MaxRevision, Becomes(Bumped(n))
  PROVE  Successor(news') /\ Becomes(news') /\ news'.revision = news.revision + 1
<1>1. news' = Bumped(n) /\ Becomes(news')
  BY DEF Becomes
<1>2. news.revision + 1 \in Revision
  BY DEF TypeOK, News, Revision
<1>3. /\ Bumped(n) \in News /\ Bumped(n).revision = news.revision + 1
      /\ Bumped(n).published = n.published /\ Bumped(n).status = n.status
  BY <1>2 DEF Bumped, Successor, News
<1> QED
  BY <1>1, <1>3 DEF Successor

LEMMA AnnounceMoves ==
  ASSUME TypeOK, NEW n, Successor(n), Announce(n), parents' \in Nat, jobs' \in Jobs,
         happened \subseteq happened', happened' \subseteq Incidents
  PROVE  NewsMoved
<1>1. /\ news.revision < MaxRevision /\ Becomes(Bumped(n))
      /\ events' = events \cup {news.revision + 1}
  BY DEF Announce
<1> QED
  BY <1>1, BumpMoves DEF NewsMoved

LEMMA SilentMoves ==
  ASSUME TypeOK, PublishedOnce, BumpSilently, parents' \in Nat, jobs' \in Jobs,
         happened \subseteq happened', happened' \subseteq Incidents
  PROVE  NewsMoved
<1>1. Successor(news)
  BY DEF Successor, TypeOK, PublishedOnce
<1>2. news.revision < MaxRevision /\ Becomes(Bumped(news)) /\ events' = events
  BY DEF BumpSilently
<1> QED
  BY <1>1, <1>2, BumpMoves DEF NewsMoved

LEMMA NewsMoves ==
  ASSUME TypeOK, PublishedOnce, NewsStep
  PROVE  NewsMoved
<1>1. /\ Successor(news) /\ news \in News /\ parents \in Nat /\ jobs \in Jobs
      /\ happened \subseteq Incidents
  BY DEF Successor, TypeOK, PublishedOnce
<1>2. CASE Decide
  <2>1. parents' = parents /\ jobs' = jobs /\ happened' = happened
    BY <1>2 DEF Decide
  <2>2. ASSUME NEW target \in Targets PROVE Successor(Transitioned(news, target))
    BY <1>1 DEF Transitioned, Targets, Successor, News, NewsState
  <2>3. Successor(SentToReview(news)) /\ Successor(MergedAway(news))
    BY <1>1 DEF SentToReview, MergedAway, Successor, News, NewsState
  <2> QED
    BY <1>1, <1>2, <2>1, <2>2, <2>3, AnnounceMoves DEF Decide
<1>3. CASE Reprocess
  <2>1. Successor([news EXCEPT !.status = "pending", !.owned = FALSE])
    BY <1>1 DEF Successor, News, NewsState
  <2>2. parents' \in Nat /\ jobs' = jobs /\ happened' = happened
    BY <1>1, <1>3 DEF Reprocess
  <2> QED
    BY <1>1, <1>3, <2>1, <2>2, AnnounceMoves DEF Reprocess
<1>4. CASE Edit
  <2>1. /\ parents' = parents /\ jobs' = jobs
        /\ happened \subseteq happened' /\ happened' \subseteq Incidents
    BY <1>1, <1>4 DEF Edit, Incident
  <2> QED
    BY <1>1, <1>4, <2>1, AnnounceMoves, SilentMoves DEF Edit
<1>5. CASE Relabel
  BY <1>1, <1>5, AnnounceMoves DEF Relabel
<1>6. CASE Start
  <2> DEFINE n == [news EXCEPT !.status = "processing", !.owned = TRUE]
  <2>1. /\ news' = n /\ Becomes(news') /\ events' = events /\ happened' = happened
        /\ parents' = parents - 1 /\ parents > 0 /\ jobs' = jobs
    BY <1>6 DEF Start, Becomes
  <2>2. /\ n \in News /\ n.status = "processing" /\ n.revision = news.revision
        /\ n.published = news.published
    BY <1>1 DEF News, NewsState
  <2>3. Truths(news) \subseteq {NoDocument, news.revision}
    BY DocumentTypes DEF Truths
  <2>4. {NoDocument, news.revision} \subseteq Truths(n)
    <3> HIDE DEF n
    <3> QED BY <2>2 DEF Truths, DocumentOf, Indexable
  <2>5. parents' \in Nat
    BY <1>1, <2>1
  <2> QED
    <3> HIDE DEF n
    <3> QED BY <1>1, <2>1, <2>2, <2>3, <2>4, <2>5 DEF NewsMoved, Successor
<1>7. CASE Answer
  BY <1>1, <1>7, SilentMoves DEF Answer
<1>8. CASE Finish
  <2>1. PICK publish \in BOOLEAN :
          Announce([news EXCEPT !.status = IF publish THEN "published" ELSE "needs_review",
                                !.published = news.published \/ publish,
                                !.owned = FALSE])
    BY <1>8 DEF Finish
  <2>2. Successor([news EXCEPT !.status = IF publish THEN "published" ELSE "needs_review",
                               !.published = news.published \/ publish,
                               !.owned = FALSE])
    BY <1>1 DEF Successor, News, NewsState
  <2>3. parents' = parents /\ jobs' = jobs /\ happened' = happened
    BY <1>8 DEF Finish
  <2> QED
    BY <1>1, <2>1, <2>2, <2>3, AnnounceMoves
<1>9. CASE Chunk
  <2>1. /\ jobs.ahead > 0 /\ jobs' = [ahead |-> jobs.ahead - 1, behind |-> jobs.behind + 1]
        /\ parents' = parents /\ happened' = happened /\ Announce(news)
    BY <1>9 DEF Chunk
  <2>2. jobs' \in Jobs
    BY <1>1, <2>1 DEF Jobs
  <2> QED
    BY <1>1, <2>1, <2>2, AnnounceMoves
<1> QED
  BY <1>2, <1>3, <1>4, <1>5, <1>6, <1>7, <1>8, <1>9 DEF NewsStep

\* Documents that were sound remain so when the news moves on.
LEMMA SoundStays ==
  ASSUME TypeOK, NewsMoved, NEW d \in Document, Sound(d)
  PROVE  Sound(d)'
<1>1. /\ news.revision \in Nat /\ news'.revision \in Nat /\ d.read \in Nat
  BY DEF TypeOK, NewsMoved, Successor, News, Document, Revision
<1>2. CASE news'.revision = news.revision + 1
  BY <1>1, <1>2 DEF Sound, NewsMoved, Successor
<1>3. CASE news'.revision = news.revision /\ Truths(news) \subseteq Truths(news')
  BY <1>1, <1>3 DEF Sound, NewsMoved, Successor
<1> QED
  BY <1>2, <1>3 DEF NewsMoved

LEMMA NewsAlways ==
  ASSUME Always, NewsStep
  PROVE  Always' /\ NewsMoved
<1>1. NewsMoved /\ TypeOK
  BY NewsMoves DEF Always
<1>2. /\ news \in News /\ news' \in News /\ news.revision <= news'.revision
      /\ news.revision \in Nat /\ news'.revision \in Nat
      /\ row' = row /\ tasks' = tasks /\ index' = index /\ lock' = lock /\ workers' = workers
  BY <1>1 DEF NewsMoved, Successor, Becomes, TypeOK, News, Revision
<1>3. TypeOK'
  <2>1. ASSUME NEW u \in Readers PROVE requests'[u] \in Request
    <3>1. requests[u] \in Request
      BY <1>1 DEF TypeOK
    <3>2. Truths(news') \subseteq Revision
      BY <1>2 DEF News, Truths, DocumentOf, Revision, NoDocument
    <3>3. requests'[u] = requests[u] \/
          requests'[u] = [requests[u] EXCEPT !.truths = @ \cup Truths(news')]
      BY <1>1 DEF NewsMoved, Becomes
    <3> QED
      BY <3>1, <3>2, <3>3 DEF Request
  <2>2. requests' \in [Readers -> Request]
    BY <1>1, <2>1 DEF NewsMoved, Becomes
  <2>3. events' \subseteq Revision
    BY <1>1, <1>2 DEF NewsMoved, TypeOK, News
  <2> QED
    BY <1>1, <1>2, <2>2, <2>3 DEF NewsMoved, TypeOK
<1>4. Documents'
  <2>1. \A t \in 1 .. Len(tasks) : tasks[t].document \in Document
    BY <1>1, QueueTypes
  <2>2. \A w \in Workers : workers[w].document \in Document
    BY <1>1 DEF TypeOK, Worker
  <2>3. \A t \in 1 .. Len(tasks) : Sound(tasks[t].document)'
    BY <1>1, <1>2, <2>1, SoundStays DEF Always, Documents
  <2>4. \A w \in Workers : Sound(workers[w].document)'
    BY <1>1, <1>2, <2>2, SoundStays DEF Always, Documents
  <2> QED
    BY <1>1, <1>2, <2>3, <2>4 DEF Always, Documents, NewsMoved, Successor
<1>5. Behind'
  <2>1. /\ \A e \in events : e \in Nat
        /\ row.desired \in Nat /\ row.indexed \in Nat
        /\ \A w \in Workers : workers[w].revision \in Nat
    BY <1>1 DEF TypeOK, Row, Worker, Revision
  <2>2. \A e \in events' : e \in events \/ e = news'.revision
    BY <1>1 DEF NewsMoved
  <2> QED
    BY <1>2, <2>1, <2>2 DEF Always, Behind, At
<1>6. PublishedOnce' /\ InOrder'
  BY <1>1, <1>2 DEF Always, InOrder, PublishedOnce, NewsMoved, Successor
<1> QED
  BY <1>1, <1>3, <1>4, <1>5, <1>6 DEF Always

LEMMA NewsLocked ==
  ASSUME Always, Locked, NewsStep
  PROVE  Locked'
<1>1. NewsMoved /\ TypeOK
  BY NewsAlways DEF Always
<1>2. /\ news.revision \in Nat /\ news'.revision \in Nat /\ row.indexed \in Nat
      /\ row.indexed <= news.revision
      /\ row' = row /\ tasks' = tasks /\ index' = index /\ lock' = lock /\ workers' = workers
      /\ requests' = [u \in Readers |->
           IF Passed(u) THEN [requests[u] EXCEPT !.truths = @ \cup Truths(news')]
           ELSE requests[u]]
  BY <1>1 DEF NewsMoved, Successor, Becomes, TypeOK, News, Row, Revision, Always, Behind, At
<1>3. OneAtATime' /\ TaskInRow' /\ TaskInHand'
  BY <1>2 DEF Locked, OneAtATime, TaskInRow, TaskInHand, InHand, LastTask, At
<1>4. Settled'
  <2>1. CASE news'.revision = news.revision + 1
    BY <1>2, <2>1 DEF Locked, Settled, Active
  <2>2. CASE news'.revision = news.revision /\ Truths(news) \subseteq Truths(news')
    BY <1>2, <2>2 DEF Locked, Settled, Active
  <2> QED
    BY <1>1, <2>1, <2>2 DEF NewsMoved
<1>5. ASSUME NEW u \in Readers, Passed(u)'
      PROVE  /\ Passed(u) /\ requests'[u].pc = requests[u].pc
             /\ requests'[u].seen = requests[u].seen
             /\ requests[u].truths \subseteq requests'[u].truths
             /\ Truths(news') \subseteq requests'[u].truths
  <2>1. requests[u] \in Request
    BY <1>1 DEF TypeOK
  <2>2. /\ requests'[u] = [requests[u] EXCEPT !.truths = @ \cup Truths(news')]
        /\ Passed(u)
    BY <1>2, <1>5 DEF Passed
  <2> QED
    BY <2>1, <2>2 DEF Request
<1>6. Honest'
  BY <1>2, <1>5 DEF Locked, Honest, Passed, At
<1> QED
  BY <1>3, <1>4, <1>6 DEF Locked

-------------------------------------------------------------------------------
(* The consumer, Meilisearch and the readers *)

LEMMA HandleStep ==
  ASSUME IInv, NEW e \in events, Handle(e)
  PROVE  IInv'
<1>1. PICK seen \in e .. news.revision :
        row' = [row EXCEPT !.status = "pending", !.desired = Desired(seen), !.task = NoTask]
  BY DEF Handle
<1>2. /\ TypeOK /\ row \in Row /\ events' \subseteq events /\ e \in Nat /\ e <= news.revision
      /\ news.revision \in Nat /\ news.revision <= MaxRevision
      /\ seen \in Nat /\ seen <= news.revision
      /\ news' = news /\ parents' = parents /\ jobs' = jobs /\ tasks' = tasks
      /\ index' = index /\ lock' = lock
      /\ workers' = workers /\ requests' = requests /\ happened' = happened
  BY DEF Handle, IInv, Always, TypeOK, News, Revision, Behind, At
<1>3. Desired(seen) \in Revision /\ Desired(seen) <= news.revision
  BY <1>2 DEF Desired, Row, Revision, IInv, Always, Behind, At
<1>4. /\ row'.status = "pending" /\ row'.indexed = row.indexed /\ row'.desired = Desired(seen)
      /\ row'.task = NoTask /\ row' \in Row
  BY <1>1, <1>2, <1>3 DEF Row, NoTask
<1>5. Always'
  <2>1. TypeOK'
    BY <1>2, <1>4 DEF TypeOK
  <2>2. Documents' /\ PublishedOnce' /\ InOrder'
    BY <1>2 DEF IInv, Always, Documents, Sound, PublishedOnce, InOrder
  <2>3. Behind'
    BY <1>2, <1>3, <1>4 DEF IInv, Always, Behind, At
  <2> QED
    BY <2>1, <2>2, <2>3 DEF Always
<1>6. ASSUME Kept, Locked PROVE Locked'
  <2>1. OneAtATime' /\ Honest'
    BY <1>2, <1>6 DEF Locked, OneAtATime, Honest, Passed, At
  <2>2. TaskInRow' /\ TaskInHand'
    BY <1>2, <1>4, <1>6 DEF Locked, TaskInRow, TaskInHand, InHand, LastTask, At
  <2>3. Settled'
    BY <1>2, <1>4, <1>6 DEF Locked, Settled, Active
  <2> QED
    BY <2>1, <2>2, <2>3 DEF Locked
<1> QED
  BY <1>2, <1>5, <1>6 DEF IInv, Kept

\* The barrier alone looks at the jobs.
LEMMA JobStep ==
  ASSUME IInv, Schedule \/ Skip \/ EndJob
  PROVE  IInv'
<1>1. /\ news' = news /\ parents' = parents /\ events' = events /\ row' = row /\ lock' = lock
      /\ tasks' = tasks /\ index' = index /\ workers' = workers /\ requests' = requests
  BY DEF Schedule, Skip, EndJob
<1>2. TypeOK /\ jobs \in Jobs
  BY DEF IInv, Always, TypeOK
<1>3. happened \subseteq happened' /\ happened' \subseteq Incidents
  BY <1>2 DEF Schedule, Skip, EndJob, Incident, TypeOK
<1>4. jobs' \in Jobs
  BY <1>2 DEF Schedule, Skip, EndJob, Jobs
<1>5. Always'
  <2>1. TypeOK'
    BY <1>1, <1>2, <1>3, <1>4 DEF TypeOK
  <2> QED
    BY <1>1, <2>1 DEF IInv, Always, Documents, Sound, Behind, At, PublishedOnce, InOrder
<1>6. Locked => Locked'
  BY <1>1 DEF Locked, OneAtATime, TaskInRow, TaskInHand, InHand, LastTask, Settled, Active,
    Honest, Passed, At
<1> QED
  BY <1>3, <1>5, <1>6 DEF IInv, Kept

LEMMA ProcessStep ==
  ASSUME IInv, Process
  PROVE  IInv'
<1>1. PICK t \in 1 .. Len(tasks) :
        /\ tasks[t].state = "enqueued"
        /\ \A earlier \in 1 .. t - 1 : tasks[earlier].state # "enqueued"
        /\ \/ /\ tasks' = [tasks EXCEPT ![t].state = "succeeded"]
              /\ index' = tasks[t].document.shown
              /\ happened' = happened
           \/ /\ tasks' = [tasks EXCEPT ![t].state = "failed"]
              /\ Incident("trouble")
              /\ index' = index
  BY DEF Process
<1>2. TypeOK /\ Documents /\ InOrder
  BY DEF IInv, Always
<1>3. /\ news' = news /\ parents' = parents /\ jobs' = jobs /\ events' = events /\ row' = row /\ lock' = lock
      /\ workers' = workers /\ requests' = requests
      /\ happened \subseteq happened' /\ happened' \subseteq Incidents
  BY <1>1, <1>2 DEF Process, Incident, TypeOK
<1>4. PICK state \in {"succeeded", "failed"} :
        /\ tasks' = [tasks EXCEPT ![t] = [@ EXCEPT !.state = state]]
        /\ index' = IF state = "succeeded" THEN tasks[t].document.shown ELSE index
  BY <1>1
<1>5. /\ tasks' \in Seq(Task) /\ Len(tasks') = Len(tasks) /\ Len(tasks) \in Nat /\ t \in Nat
      /\ tasks'[t].document = tasks[t].document /\ tasks'[t].state = state
      /\ \A s \in 1 .. Len(tasks) : s # t => tasks'[s] = tasks[s]
  <2>1. tasks[t] \in Task /\ Len(tasks) \in Nat /\ tasks \in Seq(Task)
    BY <1>2, QueueTypes DEF TypeOK
  <2>2. [tasks[t] EXCEPT !.state = state] \in Task
    BY <2>1 DEF Task
  <2>3. /\ [tasks[t] EXCEPT !.state = state].document = tasks[t].document
        /\ [tasks[t] EXCEPT !.state = state].state = state
    BY <2>1 DEF Task
  <2> QED
    BY <1>4, <2>1, <2>2, <2>3
<1>6. \A s \in 1 .. Len(tasks) :
        /\ tasks'[s].document = tasks[s].document
        /\ tasks'[s].state = "enqueued" => s # t /\ tasks[s].state = "enqueued"
        /\ tasks[s].state = "succeeded" => tasks'[s].state = "succeeded"
  BY <1>1, <1>5
<1>7. \A s \in 1 .. Len(tasks) : s < t => tasks[s].state # "enqueued"
  BY <1>1, <1>5
<1>8. InOrder'
  <2>1. ASSUME NEW s \in 1 .. Len(tasks), NEW r \in 1 .. Len(tasks), s < r,
               tasks'[s].state = "enqueued"
        PROVE  tasks'[r].state = "enqueued"
    <3>1. tasks[s].state = "enqueued" /\ tasks[r].state = "enqueued"
      BY <1>2, <1>6, <2>1 DEF InOrder
    <3>2. r # t
      BY <1>7, <2>1, <3>1
    <3> QED
      BY <1>5, <3>1, <3>2
  <2>2. ASSUME Len(tasks) # 0, tasks'[Len(tasks)].state = "succeeded"
        PROVE  index' = tasks[Len(tasks)].document.shown
    <3>1. Len(tasks) \in 1 .. Len(tasks)
      BY <1>5, <2>2
    <3>2. CASE t = Len(tasks)
      BY <1>4, <1>5, <2>2, <3>2
    <3>3. CASE t # Len(tasks)
      <4>1. tasks[Len(tasks)].state = "succeeded" /\ t < Len(tasks)
        BY <1>5, <2>2, <3>1, <3>3
      <4> QED
        BY <1>1, <1>2, <3>1, <4>1 DEF InOrder
    <3> QED
      BY <3>2, <3>3
  <2>3. Len(tasks) # 0 => Len(tasks) \in 1 .. Len(tasks)
    BY <1>5
  <2> QED
    BY <1>5, <1>6, <2>1, <2>2, <2>3 DEF InOrder
<1>9. Always'
  <2>1. index' \in Revision
    BY <1>2, <1>4, QueueTypes DEF TypeOK, Document
  <2>2. TypeOK'
    BY <1>2, <1>3, <1>5, <2>1 DEF TypeOK
  <2>3. Documents'
    BY <1>2, <1>3, <1>4, <1>5, <1>6 DEF Documents, Sound
  <2>4. Behind' /\ PublishedOnce'
    BY <1>3 DEF IInv, Always, Behind, At, PublishedOnce
  <2> QED
    BY <1>8, <2>2, <2>3, <2>4 DEF Always
<1>10. ASSUME Kept, Locked PROVE Locked'
  <2>1. OneAtATime'
    BY <1>3, <1>10 DEF Locked, OneAtATime, At
  <2>2. \A n \in Nat : \A r : LastTask(n, r) =>
          n \in 1 .. Len(tasks) /\ n = Len(tasks') /\ n # NoTask /\ r <= tasks'[n].document.read
    BY <1>5, <1>6 DEF LastTask, NoTask
  <2>3. TaskInRow'
    BY <1>2, <1>3, <1>10, <2>2 DEF Locked, TaskInRow, LastTask, TypeOK, Row
  <2>4. \A w \in Workers : workers[w].task \in Nat
    BY <1>2 DEF TypeOK, Worker
  <2>5. TaskInHand'
    BY <1>3, <1>6, <1>10, <2>2, <2>4 DEF Locked, TaskInHand, InHand, LastTask, At
  <2>6. Settled'
    BY <1>1, <1>3, <1>10 DEF Locked, Settled, Active
  <2>7. Honest'
    BY <1>1, <1>3, <1>4, <1>5, <1>6, <1>10 DEF Locked, Honest, Passed, At
  <2> QED
    BY <2>1, <2>3, <2>5, <2>6, <2>7 DEF Locked
<1> QED
  BY <1>3, <1>9, <1>10 DEF IInv, Kept

LEMMA ReaderStep ==
  ASSUME IInv, NEW u \in Readers, Ask(u) \/ Check(u) \/ Search(u) \/ Recheck(u)
  PROVE  IInv'
<1>1. /\ news' = news /\ parents' = parents /\ jobs' = jobs /\ events' = events /\ row' = row /\ lock' = lock
      /\ tasks' = tasks /\ index' = index /\ workers' = workers /\ happened' = happened
  BY DEF Ask, Check, Search, Recheck
<1>2. TypeOK /\ requests[u] \in Request
  BY DEF IInv, Always, TypeOK
<1>3. /\ requests' = [requests EXCEPT ![u] = requests'[u]]
      /\ \A v \in Readers : v # u => requests'[v] = requests[v]
      /\ \/ requests'[u] = [requests[u] EXCEPT !.pc = "checking"]
         \/ /\ requests'[u] = [pc |-> "searching", truths |-> Truths(news), seen |-> NoDocument]
            /\ NotStale
         \/ /\ requests'[u] = [requests[u] EXCEPT !.pc = "rechecking", !.seen = index]
            /\ requests[u].pc = "searching"
         \/ requests'[u] = NoRequest
  BY <1>2 DEF Ask, Check, Search, Recheck, TypeOK
<1>4. requests'[u] \in Request
  <2>1. [pc |-> "searching", truths |-> Truths(news), seen |-> NoDocument] \in Request
    BY <1>2, DocumentTypes DEF Request, NoDocument, Revision
  <2>2. [requests[u] EXCEPT !.pc = "rechecking", !.seen = index] \in Request
    BY <1>2 DEF Request, TypeOK
  <2>3. [requests[u] EXCEPT !.pc = "checking"] \in Request
    BY <1>2 DEF Request
  <2> QED
    BY <1>3, <2>1, <2>2, <2>3, RestFields
<1>5. Always'
  <2>1. TypeOK'
    BY <1>1, <1>2, <1>3, <1>4 DEF TypeOK
  <2> QED
    BY <1>1, <2>1 DEF IInv, Always, Documents, Sound, Behind, At, PublishedOnce, InOrder
<1>6. ASSUME Kept, Locked PROVE Locked'
  <2>1. OneAtATime' /\ TaskInRow' /\ TaskInHand' /\ Settled'
    BY <1>1, <1>6 DEF Locked, OneAtATime, TaskInRow, TaskInHand, InHand, LastTask, Settled,
      Active, At
  <2>2. ASSUME NotStale
        PROVE  /\ index \in Truths(news)
               /\ \A t \in 1 .. Len(tasks) :
                    tasks[t].state = "enqueued" => tasks[t].document.shown \in Truths(news)
               /\ \A w \in Workers : At(w, "posting") => workers[w].document.shown \in Truths(news)
    <3>1. CASE news.published
      <4>1. row.indexed = news.revision
        BY <1>2, <2>2, <3>1 DEF NotStale, IInv, Always, Behind, At, TypeOK, Row, News, Revision
      <4>2. \A w \in Workers : ~At(w, "posting")
        BY <1>2, <1>6, <4>1 DEF Locked, Settled, Active, At, TypeOK, News, Revision
      <4> QED
        BY <1>6, <4>1, <4>2 DEF Locked, Settled
    <3>2. CASE ~news.published
      <4>1. NoDocument \in Truths(news)
        BY <3>2 DEF Truths, DocumentOf, Indexable, IInv, Always, PublishedOnce
      <4>2. index = NoDocument /\ \A d : Sound(d) => d.shown = NoDocument
        BY <3>2 DEF IInv, Always, Documents, Sound
      <4> QED
        BY <4>1, <4>2 DEF IInv, Always, Documents
    <3> QED
      BY <3>1, <3>2
  <2>3. Honest'
    <3>1. CASE requests'[u] = [requests[u] EXCEPT !.pc = "checking"] \/ requests'[u] = NoRequest
      <4>1. ~Passed(u)'
        BY <1>2, <3>1, RestFields DEF Passed, Request
      <4> QED
        BY <1>1, <1>3, <1>6, <4>1 DEF Locked, Honest, Passed, At
    <3>2. CASE /\ requests'[u] = [pc |-> "searching", truths |-> Truths(news), seen |-> NoDocument]
               /\ NotStale
      BY <1>1, <1>3, <1>6, <2>2, <3>2 DEF Locked, Honest, Passed, At
    <3>3. CASE /\ requests'[u] = [requests[u] EXCEPT !.pc = "rechecking", !.seen = index]
               /\ requests[u].pc = "searching"
      <4>1. requests'[u].truths = requests[u].truths /\ requests'[u].seen = index
        BY <1>2, <3>3 DEF Request
      <4> QED
        BY <1>1, <1>3, <1>6, <3>3, <4>1 DEF Locked, Honest, Passed, At
    <3> QED
      BY <1>3, <3>1, <3>2, <3>3
  <2> QED
    BY <2>1, <2>3 DEF Locked
<1> QED
  BY <1>1, <1>5, <1>6 DEF IInv, Kept

-------------------------------------------------------------------------------
(* Workers *)

\* What every step of a worker leaves to others, and keeps of its own.
StepOf(w) ==
  /\ news' = news /\ parents' = parents /\ jobs' = jobs /\ events' = events /\ index' = index
  /\ requests' = requests
  /\ happened \subseteq happened' /\ happened' \subseteq Incidents
  /\ tasks' = tasks \/ tasks' = Queued(w)
  /\ lock' \in Workers \cup {Free}
  /\ workers'[w] \in Worker /\ workers' = [workers EXCEPT ![w] = workers'[w]]
  /\ Sound(workers'[w].document) /\ workers'[w].revision <= news.revision
  /\ row' \in Row /\ row'.desired <= news.revision /\ row'.indexed <= news.revision
  /\ row'.status = "absent" =>
       /\ row.status = "absent" /\ row'.indexed = 0 /\ row'.task = NoTask
       /\ At(w, "idle")' \/ (workers'[w].job = "all" /\ ~At(w, "storing")')

LEMMA WorkerAlways ==
  ASSUME Always, NEW w \in Workers, StepOf(w)
  PROVE  Always'
<1>1. TypeOK
  BY DEF Always
<1>2. TypeOK'
  BY <1>1, QueuedTypes DEF StepOf, TypeOK
<1>3. \A v \in Workers : v # w => workers'[v] = workers[v]
  BY <1>1 DEF StepOf, TypeOK
<1>4. Behind' /\ PublishedOnce'
  BY <1>3 DEF StepOf, Always, Behind, At, PublishedOnce
<1>5. \A d : Sound(d) <=> Sound(d)'
  BY DEF StepOf, Sound
<1>6. \A v \in Workers : Sound(workers'[v].document)
  BY <1>3 DEF StepOf, Always, Documents
<1>7. CASE tasks' = tasks
  BY <1>2, <1>4, <1>5, <1>6, <1>7 DEF StepOf, Always, Documents, InOrder
<1>8. CASE tasks' = Queued(w)
  <2>1. /\ Len(tasks) \in Nat /\ Len(tasks') = Len(tasks) + 1
        /\ \A t \in 1 .. Len(tasks) : tasks'[t] = tasks[t]
        /\ tasks'[Len(tasks) + 1].document = workers[w].document
        /\ tasks'[Len(tasks) + 1].state = "enqueued"
    BY <1>1, <1>8, QueuedTypes, QueueTypes
  <2>2. \A t \in 1 .. Len(tasks') : t \in 1 .. Len(tasks) \/ t = Len(tasks) + 1
    BY <2>1
  <2>3. \A t \in 1 .. Len(tasks') : Sound(tasks'[t].document)
    BY <2>1, <2>2 DEF Always, Documents
  <2>4. InOrder'
    <3>1. ASSUME NEW s \in 1 .. Len(tasks'), NEW t \in 1 .. Len(tasks'), s < t,
                 tasks'[s].state = "enqueued"
          PROVE  tasks'[t].state = "enqueued"
      <4>1. CASE t = Len(tasks) + 1
        BY <2>1, <4>1
      <4>2. CASE t \in 1 .. Len(tasks)
        <5>1. s \in 1 .. Len(tasks)
          BY <2>1, <3>1, <4>2
        <5> QED
          BY <2>1, <3>1, <4>2, <5>1 DEF Always, InOrder
      <4> QED
        BY <2>2, <4>1, <4>2
    <3> QED
      BY <2>1, <3>1 DEF InOrder
  <2>5. Documents'
    BY <1>5, <1>6, <2>3 DEF StepOf, Always, Documents
  <2> QED
    BY <1>2, <1>4, <2>4, <2>5 DEF Always
<1> QED
  BY <1>7, <1>8 DEF StepOf

LEMMA Alone ==
  ASSUME Locked, NEW w \in Workers, lock = Free \/ ~At(w, "idle")
  PROVE  \A v \in Workers : v # w => At(v, "idle")
BY DEF Locked, OneAtATime

LEMMA WorkerLocked ==
  ASSUME Always, Locked, NEW w \in Workers, StepOf(w),
         lock = Free \/ ~At(w, "idle"),
         At(w, "idle")' \/ lock' = w,
         TaskInRow', InHand(w)',
         Active(w)' => row'.indexed < news.revision,
         row'.indexed = news.revision =>
           \/ row.indexed = news.revision /\ tasks' = tasks
           \/ /\ \A t \in 1 .. Len(tasks') : tasks'[t].state # "enqueued"
              /\ index \in Truths(news),
         tasks' = Queued(w) => At(w, "posting"),
         At(w, "posting")' => workers'[w].document.shown \in Truths(news)
  PROVE  Locked'
<1>1. /\ TypeOK
      /\ news' = news /\ index' = index /\ requests' = requests
      /\ \A v \in Workers : v # w => workers'[v] = workers[v]
      /\ \A v \in Workers : v # w => At(v, "idle")
  <2>1. TypeOK
    BY DEF Always
  <2> QED
    BY <2>1, Alone DEF StepOf, TypeOK
<1>2. OneAtATime'
  BY <1>1 DEF OneAtATime, At
<1>3. TaskInHand'
  BY <1>1 DEF TaskInHand, InHand, At
<1>4. Settled'
  BY <1>1 DEF Locked, Settled, Active, At
<1>5. Honest'
  <2>1. \A t \in 1 .. Len(tasks') :
          tasks'[t].state = "enqueued" =>
            \/ t \in 1 .. Len(tasks) /\ tasks'[t] = tasks[t]
            \/ At(w, "posting") /\ tasks'[t].document = workers[w].document
    <3>1. CASE tasks' = tasks
      BY <3>1
    <3>2. CASE tasks' = Queued(w)
      <4>1. /\ Len(tasks) \in Nat /\ Len(tasks') = Len(tasks) + 1
            /\ \A t \in 1 .. Len(tasks) : tasks'[t] = tasks[t]
            /\ tasks'[Len(tasks) + 1].document = workers[w].document
        BY <1>1, <3>2, QueuedTypes, QueueTypes
      <4>2. \A t \in 1 .. Len(tasks') : t \in 1 .. Len(tasks) \/ t = Len(tasks) + 1
        BY <4>1
      <4> QED
        BY <3>2, <4>1, <4>2
    <3> QED
      BY <3>1, <3>2 DEF StepOf
  <2> QED
    BY <1>1, <2>1 DEF Locked, Honest, Passed, At
<1> QED
  BY <1>2, <1>3, <1>4, <1>5 DEF Locked

LEMMA WorkerIInv ==
  ASSUME IInv, NEW w \in Workers, StepOf(w), Kept /\ Locked => Locked'
  PROVE  IInv'
BY WorkerAlways DEF IInv, Kept, StepOf

LEMMA WorkerTypes ==
  ASSUME IInv, NEW w \in Workers
  PROVE  /\ Always /\ TypeOK /\ workers[w] \in Worker /\ row \in Row /\ news \in News
         /\ workers \in [Workers -> Worker] /\ lock \in Workers \cup {Free}
         /\ happened \subseteq Incidents
         /\ Sound(workers[w].document) /\ workers[w].revision <= news.revision
         /\ row.desired <= news.revision /\ row.indexed <= news.revision /\ 0 < news.revision
         /\ row.status = "absent" => row.indexed = 0 /\ row.task = NoTask
         /\ row.status = "absent" =>
              At(w, "idle") \/ (workers[w].job = "all" /\ ~At(w, "storing"))
         /\ news.revision \in Revision /\ news.revision \in Nat
         /\ row.desired \in Revision /\ row.indexed \in Revision /\ row.task \in Nat
         /\ row.desired \in Nat /\ row.indexed \in Nat
         /\ workers[w].revision \in Revision /\ workers[w].revision \in Nat
         /\ workers[w].task \in Nat /\ workers[w].document \in Document
         /\ workers[w].document.read \in Nat /\ workers[w].document.shown \in Nat
<1>1. Always /\ TypeOK
  BY DEF IInv, Always
<1>2. /\ workers[w] \in Worker /\ row \in Row /\ news \in News
      /\ workers \in [Workers -> Worker] /\ lock \in Workers \cup {Free}
      /\ happened \subseteq Incidents
  BY <1>1 DEF TypeOK
<1>3. /\ Sound(workers[w].document) /\ workers[w].revision <= news.revision
      /\ row.desired <= news.revision /\ row.indexed <= news.revision /\ 0 < news.revision
      /\ row.status = "absent" => row.indexed = 0 /\ row.task = NoTask
      /\ row.status = "absent" =>
           At(w, "idle") \/ (workers[w].job = "all" /\ ~At(w, "storing"))
  BY <1>1 DEF Always, Behind, Documents
<1>4. \A r \in Revision : r \in Nat
  BY DEF Revision
<1>5. news.revision \in Revision
  BY <1>2 DEF News
<1>6. row.desired \in Revision /\ row.indexed \in Revision /\ row.task \in Nat
  BY <1>2 DEF Row
<1>7. /\ workers[w].revision \in Revision /\ workers[w].task \in Nat
      /\ workers[w].document \in Document
  BY <1>2 DEF Worker
<1>8. workers[w].document.read \in Nat /\ workers[w].document.shown \in Nat
  BY <1>4, <1>7 DEF Document
<1> QED
  BY <1>1, <1>2, <1>3, <1>4, <1>5, <1>6, <1>7, <1>8

LEMMA EmptyDocument == ASSUME 0 < news.revision, news.revision \in Nat PROVE Sound(Nothing)
BY DEF Sound, Nothing, NoDocument

LEMMA IdleWorker ==
  ASSUME IInv, NEW w \in Workers, workers' = [workers EXCEPT ![w] = Idle]
  PROVE  /\ workers'[w] = Idle /\ workers' = [workers EXCEPT ![w] = workers'[w]]
         /\ workers'[w] \in Worker /\ At(w, "idle")'
         /\ Sound(workers'[w].document) /\ workers'[w].revision <= news.revision
<1>1. workers'[w] = Idle
  BY WorkerTypes
<1>2. Sound(Nothing) /\ 0 <= news.revision
  BY WorkerTypes, EmptyDocument
<1>3. workers'[w].document = Nothing /\ workers'[w].revision = 0
  BY <1>1, RestFields
<1>4. Sound(workers'[w].document)
  BY <1>2, <1>3 DEF Sound
<1> QED
  BY <1>1, <1>2, <1>3, <1>4, RestFields DEF At

LEMMA ClaimStep ==
  ASSUME IInv, NEW w \in Workers, Claim(w)
  PROVE  IInv'
<1> DEFINE given == [Idle EXCEPT !.pc = "reading", !.revision = row.desired, !.task = row.task]
<1> USE WorkerTypes
<1>1. /\ lock = Free /\ lock' = w /\ row.desired > row.indexed /\ row.status # "absent"
      /\ row' = [row EXCEPT !.status = "indexing"]
      /\ workers' = [workers EXCEPT ![w] = given]
      /\ news' = news /\ parents' = parents /\ jobs' = jobs /\ events' = events /\ tasks' = tasks
      /\ index' = index /\ requests' = requests /\ happened' = happened
  BY DEF Claim, LockFree, Claimable
<1>2. /\ given \in Worker /\ given.pc = "reading" /\ given.revision = row.desired
      /\ given.task = row.task /\ given.document = Nothing /\ given.job = "one"
  <2>1. Idle.job = "one"
    BY DEF Idle
  <2> QED
    BY <2>1, RestFields DEF Worker
<1>3. /\ row' \in Row /\ row'.status = "indexing" /\ row'.desired = row.desired
      /\ row'.indexed = row.indexed /\ row'.task = row.task
  BY <1>1 DEF Row
<1>4. workers'[w] = given
  BY <1>1
<1> HIDE DEF given
<1>5. StepOf(w)
  <2>1. Sound(workers'[w].document) /\ workers'[w].revision <= news.revision
    BY <1>2, <1>4, EmptyDocument
  <2>2. /\ row'.desired <= news.revision /\ row'.indexed <= news.revision
        /\ row'.status = "absent" =>
             row.status = "absent" /\ row'.indexed = 0 /\ row'.task = NoTask
    BY <1>1, <1>3
  <2>3. workers' = [workers EXCEPT ![w] = workers'[w]] /\ ~At(w, "storing")'
    BY <1>1, <1>2, <1>4 DEF At
  <2> QED
    BY <1>1, <1>2, <1>3, <1>4, <2>1, <2>2, <2>3 DEF StepOf
<1>6. ASSUME Kept, Locked PROVE Locked'
  <2>1. TaskInRow' /\ InHand(w)'
    BY <1>1, <1>2, <1>3, <1>4, <1>6 DEF Locked, TaskInRow, InHand, LastTask, At
  <2>2. row'.indexed < news.revision
    BY <1>1, <1>3
  <2>3. tasks' # Queued(w)
    BY <1>1, QueuedTypes, QueueTypes
  <2>4. lock = Free /\ lock' = w /\ ~At(w, "posting")'
    BY <1>1, <1>2, <1>4 DEF At
  <2>5. row'.indexed # news.revision
    BY <2>2, <1>3
  <2> QED
    BY <1>5, <1>6, <2>1, <2>2, <2>3, <2>4, <2>5, WorkerLocked
<1> QED
  BY <1>5, <1>6, WorkerIInv

LEMMA ResetStep ==
  ASSUME IInv, NEW w \in Workers, Reset(w)
  PROVE  IInv'
<1> DEFINE given == [Idle EXCEPT !.pc = "listing", !.job = "all"]
<1> USE WorkerTypes
<1>1. /\ lock = Free /\ lock' = w
      /\ row' = IF row.status = "absent" THEN row
                ELSE [row EXCEPT !.status = "pending", !.indexed = 0, !.task = NoTask]
      /\ workers' = [workers EXCEPT ![w] = given]
      /\ news' = news /\ parents' = parents /\ jobs' = jobs /\ events' = events /\ tasks' = tasks
      /\ index' = index /\ requests' = requests
      /\ happened \subseteq happened' /\ happened' \subseteq Incidents
  BY DEF Reset, LockFree, Incident
<1>2. /\ given \in Worker /\ given.pc = "listing" /\ given.revision = 0
      /\ given.job = "all" /\ given.task = NoTask /\ given.document = Nothing
  BY RestFields DEF Worker
<1>3. /\ row' \in Row /\ row'.desired = row.desired
      /\ row'.indexed = 0 /\ row'.task = NoTask
  <2>1. CASE row.status = "absent"
    BY <1>1, <2>1
  <2>2. CASE row.status # "absent"
    <3>1. row' = [row EXCEPT !.status = "pending", !.indexed = 0, !.task = NoTask]
      BY <1>1, <2>2
    <3>2. 0 \in Revision /\ NoTask \in Nat
      BY DEF Revision, NoTask
    <3> QED
      BY <3>1, <3>2 DEF Row
  <2> QED
    BY <2>1, <2>2
<1>4. workers'[w] = given
  BY <1>1
<1> HIDE DEF given
<1>5. StepOf(w)
  <2>1. Sound(workers'[w].document) /\ workers'[w].revision <= news.revision
    BY <1>2, <1>4, EmptyDocument
  <2>2. /\ row'.desired <= news.revision /\ row'.indexed <= news.revision
        /\ row'.status = "absent" =>
             row.status = "absent" /\ row'.indexed = 0 /\ row'.task = NoTask
    BY <1>1, <1>3
  <2>3. workers' = [workers EXCEPT ![w] = workers'[w]] /\ ~At(w, "storing")'
    BY <1>1, <1>2, <1>4 DEF At
  <2> QED
    BY <1>1, <1>2, <1>3, <1>4, <2>1, <2>2, <2>3 DEF StepOf
<1>6. ASSUME Kept, Locked PROVE Locked'
  <2>1. TaskInRow' /\ InHand(w)'
    BY <1>1, <1>2, <1>3, <1>4, <1>6 DEF Locked, TaskInRow, InHand, LastTask, At
  <2>2. row'.indexed < news.revision /\ row'.indexed # news.revision
    BY <1>3
  <2>3. tasks' # Queued(w)
    BY <1>1, QueuedTypes, QueueTypes
  <2>4. ~At(w, "posting")'
    BY <1>2, <1>4 DEF At
  <2> QED
    BY <1>1, <1>5, <1>6, <2>1, <2>2, <2>3, <2>4, WorkerLocked
<1> QED
  BY <1>5, <1>6, WorkerIInv

\* A worker that goes on under the lock, and leaves the row and the queue alone.
LEMMA GoesOn ==
  ASSUME IInv, NEW w \in Workers, ~At(w, "idle"), workers'[w] \in Worker,
         workers' = [workers EXCEPT ![w] = workers'[w]],
         UNCHANGED <<news, parents, events, jobs, row, tasks, index, lock, requests>>,
         happened \subseteq happened', happened' \subseteq Incidents,
         Sound(workers'[w].document), workers'[w].revision <= news.revision,
         workers'[w].job = workers[w].job, ~At(w, "storing")',
         Kept /\ Locked =>
           /\ InHand(w)'
           /\ Active(w)' => Active(w)
           /\ At(w, "posting")' => workers'[w].document.shown \in Truths(news)
  PROVE  IInv'
<1> USE WorkerTypes
<1>1. StepOf(w)
  BY DEF StepOf
<1>2. ASSUME Kept, Locked PROVE Locked'
  <2>1. tasks' # Queued(w)
    BY QueuedTypes, QueueTypes
  <2>2. Active(w)' => row'.indexed < news.revision
    BY <1>2 DEF Locked, Settled
  <2>3. TaskInRow' /\ lock' = w
    BY <1>2 DEF Locked, OneAtATime, TaskInRow, LastTask
  <2> QED
    BY <1>1, <1>2, <2>1, <2>2, <2>3, WorkerLocked
<1> QED
  BY <1>1, <1>2, WorkerIInv

LEMMA ListStep ==
  ASSUME IInv, NEW w \in Workers, List(w)
  PROVE  IInv'
<1> USE WorkerTypes
<1> DEFINE given == [workers[w] EXCEPT !.pc = "reading", !.revision = news.revision]
<1>1. /\ At(w, "listing") /\ workers' = [workers EXCEPT ![w] = given]
      /\ UNCHANGED <<news, parents, events, jobs, row, tasks, index, lock, requests, happened>>
  BY DEF List
<1>2. given \in Worker
  BY WorkerMoves DEF Steps
<1>3. /\ given.pc = "reading" /\ given.revision = news.revision /\ given.job = workers[w].job
      /\ given.task = workers[w].task /\ given.document = workers[w].document
  BY DEF Worker
<1>4. workers'[w] = given
  BY <1>1
<1> HIDE DEF given
<1>5. ASSUME Kept, Locked PROVE InHand(w)' /\ Active(w) /\ ~At(w, "posting")'
  BY <1>1, <1>3, <1>4, <1>5 DEF Locked, TaskInHand, InHand, Active, At
<1>6. /\ Sound(workers'[w].document) /\ workers'[w].revision <= news.revision
      /\ workers'[w].job = workers[w].job /\ ~At(w, "storing")'
  BY <1>3, <1>4 DEF At
<1>7. ~At(w, "idle")
  BY <1>1 DEF At
<1> QED
  BY <1>1, <1>2, <1>4, <1>5, <1>6, <1>7, GoesOn

LEMMA ReadStep ==
  ASSUME IInv, NEW w \in Workers, Read(w)
  PROVE  IInv'
<1> USE WorkerTypes
<1> DEFINE pc == IF workers[w].task # NoTask THEN "waiting" ELSE "posting"
           document == DocumentOf(news)
           revision == IF workers[w].job = "all" /\ document.shown # NoDocument
                       THEN document.shown ELSE workers[w].revision
           given == [workers[w] EXCEPT !.pc = pc, !.document = document, !.revision = revision]
<1>1. /\ At(w, "reading") /\ workers' = [workers EXCEPT ![w] = given]
      /\ UNCHANGED <<news, parents, events, jobs, row, tasks, index, lock, requests, happened>>
  BY DEF Read
<1>2. /\ document \in Document /\ document.read = news.revision /\ revision \in Revision
      /\ document.shown \in {NoDocument, news.revision} /\ document.shown \in Truths(news)
      /\ document.shown # NoDocument => news.published
      /\ revision <= news.revision /\ pc \in Steps
  <2>1. document.shown \in Truths(news)
    BY DEF Truths
  <2>2. document.shown # NoDocument => news.published
    BY DEF Always, PublishedOnce, DocumentOf, Indexable
  <2> QED
    BY <2>1, <2>2, DocumentTypes DEF Steps
<1>3. Sound(document)
  <2> HIDE DEF document
  <2> QED BY <1>2 DEF Sound
<1> HIDE DEF pc, document, revision
<1>4. given \in Worker
  BY <1>2, WorkerMoves
<1>5. /\ given.pc = pc /\ given.revision = revision /\ given.job = workers[w].job
      /\ given.task = workers[w].task /\ given.document = document
  BY DEF Worker
<1>6. workers'[w] = given
  BY <1>1
<1> HIDE DEF given
<1>7. ASSUME Kept, Locked PROVE InHand(w)' /\ Active(w)
  <2>1. InHand(w) /\ Active(w)
    BY <1>1, <1>7 DEF Locked, TaskInHand, Active, At
  <2>2. CASE workers[w].task = NoTask
    BY <1>1, <1>2, <1>5, <1>6, <2>1, <2>2 DEF InHand, At, pc
  <2>3. CASE workers[w].task # NoTask
    <3>1. LastTask(workers[w].task, workers[w].revision) /\ workers[w].job = "one"
      BY <1>1, <2>1, <2>3 DEF InHand, At
    <3>2. revision = workers[w].revision
      BY <3>1 DEF revision
    <3> QED
      BY <1>1, <1>5, <1>6, <2>1, <2>3, <3>1, <3>2 DEF InHand, LastTask, At, pc
  <2> QED
    BY <2>2, <2>3
<1>8. workers'[w].document.shown \in Truths(news)
  BY <1>2, <1>5, <1>6
<1>9. /\ Sound(workers'[w].document) /\ workers'[w].revision <= news.revision
      /\ workers'[w].job = workers[w].job /\ ~At(w, "storing")'
  BY <1>2, <1>3, <1>5, <1>6 DEF At, pc
<1>10. ~At(w, "idle")
  BY <1>1 DEF At
<1> QED
  BY <1>1, <1>4, <1>6, <1>7, <1>8, <1>9, <1>10, GoesOn

LEMMA AwaitStep ==
  ASSUME IInv, NEW w \in Workers, Await(w)
  PROVE  IInv'
<1> USE WorkerTypes
<1> DEFINE pc == IF tasks[workers[w].task].state = "succeeded" THEN "completing" ELSE "rejected"
           given == [workers[w] EXCEPT !.pc = pc]
<1>1. /\ At(w, "waiting") /\ workers' = [workers EXCEPT ![w] = given]
      /\ UNCHANGED <<news, parents, events, jobs, row, tasks, index, lock, requests, happened>>
  BY DEF Await
<1>2. pc \in Steps
  BY DEF Steps
<1> HIDE DEF pc
<1>3. given \in Worker
  BY <1>2, WorkerMoves
<1>4. /\ given.pc = pc /\ given.revision = workers[w].revision /\ given.job = workers[w].job
      /\ given.task = workers[w].task /\ given.document = workers[w].document
  BY DEF Worker
<1>5. workers'[w] = given
  BY <1>1
<1> HIDE DEF given
<1>6. ASSUME Kept, Locked PROVE InHand(w)' /\ Active(w) /\ ~At(w, "posting")'
  BY <1>1, <1>4, <1>5, <1>6 DEF Locked, TaskInHand, InHand, LastTask, Active, At, pc
<1>7. /\ ~At(w, "idle") /\ Sound(workers'[w].document) /\ workers'[w].revision <= news.revision
      /\ workers'[w].job = workers[w].job /\ ~At(w, "storing")'
  BY <1>1, <1>4, <1>5 DEF At, pc
<1> QED
  BY <1>1, <1>3, <1>5, <1>6, <1>7, GoesOn

LEMMA ErrStep ==
  ASSUME IInv, NEW w \in Workers, Err(w)
  PROVE  IInv'
<1> USE WorkerTypes
<1> DEFINE given == [workers[w] EXCEPT !.pc = "failing"]
<1>1. /\ ~At(w, "idle") /\ workers' = [workers EXCEPT ![w] = given]
      /\ UNCHANGED <<news, parents, events, jobs, row, tasks, index, lock, requests>>
      /\ happened \subseteq happened' /\ happened' \subseteq Incidents
  BY DEF Err, Incident
<1>2. given \in Worker
  BY WorkerMoves DEF Steps
<1>3. /\ given.pc = "failing" /\ given.revision = workers[w].revision /\ given.job = workers[w].job
      /\ given.document = workers[w].document
  BY DEF Worker
<1>4. workers'[w] = given
  BY <1>1
<1> HIDE DEF given
<1>5. InHand(w)' /\ ~Active(w)' /\ ~At(w, "posting")'
  BY <1>3, <1>4 DEF InHand, Active, At
<1>6. /\ Sound(workers'[w].document) /\ workers'[w].revision <= news.revision
      /\ workers'[w].job = workers[w].job /\ ~At(w, "storing")'
  BY <1>3, <1>4 DEF At
<1> QED
  BY <1>1, <1>2, <1>4, <1>5, <1>6, GoesOn

LEMMA PostStep ==
  ASSUME IInv, NEW w \in Workers, Post(w) \/ Swap(w)
  PROVE  IInv'
<1> USE WorkerTypes
<1>1. PICK pc \in {"storing", "waiting"} :
        /\ workers' = [workers EXCEPT ![w] = [@ EXCEPT !.pc = pc, !.task = Len(tasks) + 1]]
        /\ workers[w].job = "all" => pc = "waiting"
  BY DEF Post, Swap
<1> DEFINE given == [workers[w] EXCEPT !.pc = pc, !.task = Len(tasks) + 1]
<1>2. /\ At(w, "posting") /\ tasks' = Queued(w) /\ workers' = [workers EXCEPT ![w] = given]
      /\ UNCHANGED <<news, parents, events, jobs, row, index, lock, requests, happened>>
  BY <1>1 DEF Post, Swap
<1>3. /\ Len(tasks) \in Nat /\ Len(tasks') = Len(tasks) + 1
      /\ tasks'[Len(tasks) + 1].document = workers[w].document
  BY <1>2, QueueTypes, QueuedTypes
<1>4. given \in Worker
  <2>1. Len(tasks) + 1 \in Nat /\ pc \in Steps
    BY <1>3 DEF Steps
  <2> QED
    BY <2>1, WorkerMoves
<1>5. /\ given.pc = pc /\ given.revision = workers[w].revision /\ given.job = workers[w].job
      /\ given.task = Len(tasks) + 1 /\ given.document = workers[w].document
  BY DEF Worker
<1>6. workers'[w] = given
  BY <1>2
<1> HIDE DEF given
<1>7. StepOf(w)
  <2>1. row.status = "absent" => workers[w].job = "all" /\ ~At(w, "storing")'
    BY <1>1, <1>2, <1>5, <1>6 DEF At
  <2> QED
    BY <1>2, <1>4, <1>5, <1>6, <2>1 DEF StepOf
<1>8. ASSUME Kept, Locked PROVE Locked'
  <2>1. row.task = NoTask /\ workers[w].revision <= workers[w].document.read
    BY <1>2, <1>8 DEF Locked, TaskInHand, InHand
  <2>2. TaskInRow'
    BY <1>2, <2>1 DEF TaskInRow
  <2>3. LastTask(workers[w].task, workers[w].revision)'
    BY <1>3, <1>5, <1>6, <2>1 DEF LastTask, NoTask
  <2>4. InHand(w)'
    BY <1>5, <1>6, <2>3 DEF InHand, At
  <2>5. row'.indexed < news.revision /\ row'.indexed # news.revision
    BY <1>2, <1>8 DEF Locked, Settled, Active, At
  <2>6. lock' = w /\ ~At(w, "idle") /\ ~At(w, "posting")'
    BY <1>2, <1>5, <1>6, <1>8 DEF Locked, OneAtATime, At
  <2> QED
    BY <1>2, <1>7, <1>8, <2>2, <2>4, <2>5, <2>6, WorkerLocked
<1> QED
  BY <1>7, <1>8, WorkerIInv

LEMMA StoreTaskStep ==
  ASSUME IInv, NEW w \in Workers, StoreTask(w)
  PROVE  IInv'
<1> USE WorkerTypes
<1> DEFINE given == [workers[w] EXCEPT !.pc = "waiting"]
<1>1. /\ At(w, "storing") /\ workers' = [workers EXCEPT ![w] = given]
      /\ row' = IF StaysDesired(w) THEN [row EXCEPT !.task = workers[w].task] ELSE row
      /\ UNCHANGED <<news, parents, events, jobs, tasks, index, lock, requests, happened>>
  BY DEF StoreTask
<1>2. given \in Worker
  BY WorkerMoves DEF Steps
<1>3. /\ given.pc = "waiting" /\ given.revision = workers[w].revision /\ given.job = workers[w].job
      /\ given.task = workers[w].task /\ given.document = workers[w].document
  BY DEF Worker
<1>4. workers'[w] = given
  BY <1>1
<1> HIDE DEF given
<1>5. /\ row' \in Row /\ row'.desired = row.desired /\ row'.indexed = row.indexed
      /\ row'.status = row.status
      /\ row'.task = row.task \/ (row.desired = workers[w].revision /\ row'.task = workers[w].task)
  BY <1>1 DEF Row, StaysDesired
<1>6. ~At(w, "idle") /\ ~At(w, "posting")'
  BY <1>1, <1>3, <1>4 DEF At
<1>7. row'.status # "absent"
  BY <1>1, <1>5, <1>6
<1>8. StepOf(w)
  BY <1>1, <1>2, <1>3, <1>4, <1>5, <1>6, <1>7 DEF StepOf
<1>9. ASSUME Kept, Locked PROVE Locked'
  <2>1. LastTask(workers[w].task, workers[w].revision)
    BY <1>1, <1>9 DEF Locked, TaskInHand, InHand, At
  <2>2. TaskInRow'
    BY <1>1, <1>5, <1>9, <2>1 DEF Locked, TaskInRow, LastTask
  <2>3. InHand(w)'
    BY <1>1, <1>3, <1>4, <2>1 DEF InHand, LastTask, At
  <2>4. row'.indexed < news.revision /\ row'.indexed # news.revision
    BY <1>1, <1>5, <1>9 DEF Locked, Settled, Active, At
  <2>5. lock' = w /\ tasks' # Queued(w)
    BY <1>1, <1>6, <1>9, QueueTypes, QueuedTypes DEF Locked, OneAtATime
  <2> QED
    BY <1>6, <1>8, <1>9, <2>2, <2>3, <2>4, <2>5, WorkerLocked
<1> QED
  BY <1>8, <1>9, WorkerIInv

\* What a confirmation says is true: the task was the last one and succeeded.
LEMMA ConfirmedRow ==
  ASSUME IInv, NEW w \in Workers, At(w, "completing")
  PROVE  /\ Confirmed(w) \in Row /\ Confirmed(w).task = NoTask
         /\ Confirmed(w).status # "absent"
         /\ Confirmed(w).desired <= news.revision /\ Confirmed(w).indexed <= news.revision
         /\ Confirmed(w).indexed \in {row.indexed, workers[w].revision}
         /\ Kept /\ Locked /\ workers[w].revision = news.revision =>
              /\ \A t \in 1 .. Len(tasks) : tasks[t].state # "enqueued"
              /\ index \in Truths(news)
<1> USE WorkerTypes
<1>1. Desired(news.revision) \in Revision /\ Desired(news.revision) <= news.revision
  BY DEF Desired
<1>2. /\ Completed(w) \in Row /\ Completed(w).task = NoTask /\ Completed(w).status # "absent"
      /\ Completed(w).desired <= news.revision /\ Completed(w).indexed <= news.revision
      /\ Completed(w).indexed \in {row.indexed, workers[w].revision}
  <2>1. CASE Current(w)
    BY <2>1 DEF Completed, Row, NoTask
  <2>2. CASE ~Current(w)
    BY <1>1, <2>2 DEF Completed, Row, NoTask
  <2> QED
    BY <2>1, <2>2
<1>3. /\ Rebuilt(w) \in Row /\ Rebuilt(w).task = NoTask /\ Rebuilt(w).status # "absent"
      /\ Rebuilt(w).desired <= news.revision /\ Rebuilt(w).indexed = workers[w].revision
  <2>1. NoTask \in Nat
    BY DEF NoTask
  <2> QED
    BY <1>1, <2>1 DEF Rebuilt, Row
<1>4. ASSUME Kept, Locked, workers[w].revision = news.revision
      PROVE  /\ \A t \in 1 .. Len(tasks) : tasks[t].state # "enqueued"
             /\ index \in Truths(news)
  <2> DEFINE last == Len(tasks)
  <2>1. /\ workers[w].task = last /\ last # 0 /\ news.revision <= tasks[last].document.read
        /\ tasks[last].state = "succeeded"
    BY <1>4 DEF Locked, TaskInHand, InHand, LastTask, At, NoTask
  <2>2. last \in Nat /\ last \in 1 .. last
    BY <2>1, QueueTypes
  <2>3. InOrder /\ Documents
    BY DEF Always
  <2>4. Sound(tasks[last].document) /\ tasks[last].document.read \in Nat
    BY <2>2, <2>3, QueueTypes DEF Documents
  <2>5. tasks[last].document.shown \in Truths(news)
    BY <2>1, <2>4 DEF Sound
  <2>6. index = tasks[last].document.shown
    BY <2>1, <2>3 DEF InOrder
  <2>7. ASSUME NEW t \in 1 .. last PROVE tasks[t].state # "enqueued"
    <3>1. t = last \/ t < last
      BY <2>2
    <3> QED
      BY <2>1, <2>2, <2>3, <3>1 DEF InOrder
  <2> QED
    BY <2>5, <2>6, <2>7
<1> QED
  BY <1>2, <1>3, <1>4 DEF Confirmed

LEMMA CompleteStep ==
  ASSUME IInv, NEW w \in Workers, Complete(w) \/ CompleteUnheard(w)
  PROVE  IInv'
<1> USE WorkerTypes
<1>1. /\ At(w, "completing") /\ row' = Confirmed(w)
      /\ UNCHANGED <<news, parents, events, jobs, tasks, index, requests>>
      /\ happened \subseteq happened' /\ happened' \subseteq Incidents
      /\ lock' \in Workers \cup {Free}
  BY DEF Complete, CompleteUnheard, Incident, Rest
<1>2. /\ workers' = [workers EXCEPT ![w] = workers'[w]] /\ workers'[w] \in Worker
      /\ Sound(workers'[w].document) /\ workers'[w].revision <= news.revision
      /\ At(w, "idle")' \/ (At(w, "failing")' /\ lock' = lock)
  <2>1. CASE Complete(w)
    <3>1. workers' = [workers EXCEPT ![w] = Idle] /\ workers'[w] = Idle
      BY <2>1 DEF Complete, Rest
    <3> QED
      BY <3>1, IdleWorker
  <2>2. CASE CompleteUnheard(w)
    <3> DEFINE given == [workers[w] EXCEPT !.pc = "failing"]
    <3>1. workers' = [workers EXCEPT ![w] = given] /\ lock' = lock
      BY <2>2 DEF CompleteUnheard
    <3>2. given \in Worker
      BY WorkerMoves DEF Steps
    <3>3. /\ given.pc = "failing" /\ given.revision = workers[w].revision
          /\ given.document = workers[w].document
      BY DEF Worker
    <3>4. workers'[w] = given
      BY <3>1
    <3> HIDE DEF given
    <3> QED
      BY <3>1, <3>2, <3>3, <3>4 DEF At
  <2> QED
    BY <2>1, <2>2
<1>3. StepOf(w)
  BY <1>1, <1>2, ConfirmedRow DEF StepOf
<1>4. ASSUME Kept, Locked PROVE Locked'
  <2>1. /\ InHand(w)' /\ ~Active(w)' /\ ~At(w, "posting")' /\ ~At(w, "idle")
        /\ At(w, "idle")' \/ lock' = w
    BY <1>1, <1>2, <1>4 DEF InHand, Active, At, Locked, OneAtATime
  <2>2. TaskInRow'
    BY <1>1, ConfirmedRow DEF TaskInRow
  <2>3. tasks' # Queued(w) /\ tasks' = tasks
    BY <1>1, QueueTypes, QueuedTypes
  <2>4. row'.indexed = news.revision =>
          \/ row.indexed = news.revision
          \/ /\ \A t \in 1 .. Len(tasks) : tasks[t].state # "enqueued"
             /\ index \in Truths(news)
    BY <1>1, <1>4, ConfirmedRow
  <2> QED
    BY <1>3, <1>4, <2>1, <2>2, <2>3, <2>4, WorkerLocked
<1> QED
  BY <1>3, <1>4, WorkerIInv

LEMMA RestStep ==
  ASSUME IInv, NEW w \in Workers, Fail(w) \/ Crash(w)
  PROVE  IInv'
<1> USE WorkerTypes
<1>1. /\ ~At(w, "idle") /\ workers' = [workers EXCEPT ![w] = Idle]
      /\ UNCHANGED <<news, parents, events, jobs, tasks, index, requests>>
      /\ happened \subseteq happened' /\ happened' \subseteq Incidents
      /\ lock' \in Workers \cup {Free}
  BY DEF Fail, Crash, Incident, Rest, At
<1>2. /\ row' \in Row /\ row'.desired = row.desired /\ row'.indexed = row.indexed
      /\ row'.task = row.task \/ row'.task = NoTask
      /\ row' = row \/ row'.status = "failed"
  <2>1. CASE row' = row
    BY <2>1
  <2>2. CASE row' = [row EXCEPT !.status = "failed",
                                !.task = IF At(w, "rejected") THEN NoTask ELSE row.task]
    BY <2>2 DEF Row, NoTask
  <2> QED
    BY <2>1, <2>2 DEF Fail, Crash
<1>3. workers'[w] = Idle
  BY <1>1
<1>4. StepOf(w)
  <2>1. /\ Sound(workers'[w].document) /\ workers'[w].revision <= news.revision
        /\ workers'[w] \in Worker /\ At(w, "idle")'
        /\ workers' = [workers EXCEPT ![w] = workers'[w]]
    BY <1>1, IdleWorker
  <2>2. row'.status = "absent" =>
          row.status = "absent" /\ row'.indexed = 0 /\ row'.task = NoTask
    BY <1>2
  <2> QED
    BY <1>1, <1>2, <2>1, <2>2 DEF StepOf
<1>5. ASSUME Kept, Locked PROVE Locked'
  <2>1. InHand(w)' /\ ~Active(w)' /\ ~At(w, "posting")' /\ At(w, "idle")'
    BY <1>3, RestFields DEF InHand, Active, At
  <2>2. TaskInRow'
    BY <1>1, <1>2, <1>5 DEF Locked, TaskInRow, LastTask
  <2>3. tasks' # Queued(w) /\ tasks' = tasks
    BY <1>1, QueueTypes, QueuedTypes
  <2> QED
    BY <1>1, <1>2, <1>4, <1>5, <2>1, <2>2, <2>3, WorkerLocked
<1> QED
  BY <1>4, <1>5, WorkerIInv

LEMMA LoseLockStep ==
  ASSUME IInv, NEW w \in Workers, LoseLock(w)
  PROVE  IInv'
<1>1. /\ UNCHANGED <<news, parents, events, jobs, row, tasks, index, workers, requests>>
      /\ lock' = Free /\ ~Kept' /\ happened' \subseteq Incidents
  BY DEF LoseLock, Incident, Kept, IInv, Always, TypeOK
<1>2. Always'
  BY <1>1 DEF IInv, Always, TypeOK, Documents, Sound, Behind, At, PublishedOnce, InOrder
<1> QED
  BY <1>1, <1>2 DEF IInv

-------------------------------------------------------------------------------
(* Results *)

LEMMA StepIInv == IInv /\ [Next]_vars => IInv'
<1> SUFFICES ASSUME IInv, [Next]_vars PROVE IInv'
  OBVIOUS
<1>4. CASE Schedule \/ Skip \/ EndJob
  BY <1>4, JobStep
<1>1. CASE NewsStep
  <2>1. happened \subseteq happened'
    BY <1>1, NewsAlways DEF IInv, NewsMoved
  <2> QED
    BY <1>1, <2>1, NewsAlways, NewsLocked DEF IInv, Kept
<1>2. CASE UNCHANGED vars
  BY <1>2 DEF vars, IInv, Kept, Always, Locked, TypeOK, Documents, Sound, Behind, PublishedOnce,
    InOrder, OneAtATime, TaskInRow, TaskInHand, InHand, LastTask, Settled, Active, Honest,
    Passed, At
<1>3. ASSUME NEW w \in Workers,
             WorkerStep(w) \/ Reset(w) \/ CompleteUnheard(w) \/ Err(w) \/ Crash(w) \/ LoseLock(w)
      PROVE  IInv'
  BY <1>3, ClaimStep, ListStep, ReadStep, PostStep, StoreTaskStep, AwaitStep, CompleteStep,
    RestStep, ResetStep, ErrStep, LoseLockStep DEF WorkerStep
<1> QED
  BY <1>1, <1>2, <1>3, <1>4, HandleStep, ProcessStep, ReaderStep DEF Next

\* All the invariants, with those of the lock as long as it is not lost, hold together.
THEOREM Invariance == Spec => []IInv
BY InitIInv, StepIInv, PTL DEF Spec

\* For any readers, workers, revisions and incidents every variable keeps its type.
THEOREM TypeCorrect == Spec => []TypeOK
BY Invariance, PTL DEF IInv, Always

LEMMA CurrentIndex == IInv => IndexIsCurrent
<1> SUFFICES ASSUME IInv, Kept, news.published, NotStale PROVE index \in Truths(news)
  BY DEF IndexIsCurrent, Kept
<1>1. row.indexed = news.revision
  BY DEF NotStale, IInv, Always, Behind, TypeOK, Row, News, Revision
<1> QED
  BY <1>1 DEF IInv, Locked, Settled

\* While the news does not count as behind, the index holds what it should, as long
\* as no worker goes on without the lock: what a row confirms was the last task of the queue, read from
\* the news as it still is (indexer.py, visibility_ready()).
THEOREM IndexIsCurrentHolds == Spec => []IndexIsCurrent
BY Invariance, CurrentIndex, PTL

\* The totals and facets of an answer were true at some moment of the request, as long
\* as the lock holds (feed.py: the barrier, the search, the recheck).
THEOREM FeedTellsTheTruthHolds == Spec => FeedTellsTheTruth
<1> DEFINE Truthful ==
      \A u \in Readers :
        /\ "lost_lock" \notin happened
        /\ Answered(u)
        /\ requests'[u] # requests[u]
        => requests[u].seen \in requests[u].truths
<1>1. IInv => Truthful
  BY DEF IInv, Kept, Locked, Honest, Passed, Answered
<1>2. Spec => [][Truthful]_vars
  <2> HIDE DEF Truthful
  <2> QED
    BY <1>1, Invariance, PTL
<1> QED
  BY <1>2 DEF FeedTellsTheTruth

-----------------------------------------------------------------------------
(* Reading page by page *)

\* What is read of the hits behind a and up to b: those that pass, once, in order.
Reads(s, passes, a, b) ==
  /\ s \in Seq(Nat)
  /\ \A i \in 1 .. Len(s) : s[i] \in passes /\ a < s[i] /\ s[i] <= b
  /\ \A x \in passes : a < x /\ x <= b => \E i \in 1 .. Len(s) : s[i] = x
  /\ \A i, j \in 1 .. Len(s) : i < j => s[i] < s[j]

\* Reading on from where a page ended.
LEMMA ReadsOn ==
  ASSUME NEW passes \in SUBSET Nat, NEW a \in Nat, NEW b \in Nat, NEW c \in Nat, a <= b, b <= c,
         NEW s, NEW t, Reads(s, passes, a, b), Reads(t, passes, b, c)
  PROVE  Reads(s \o t, passes, a, c)
<1> DEFINE r == s \o t
           l == Len(s)
<1>1. /\ s \in Seq(Nat) /\ t \in Seq(Nat) /\ r \in Seq(Nat) /\ Len(r) = l + Len(t)
      /\ l \in Nat /\ Len(t) \in Nat /\ Len(r) \in Nat
      /\ \A i \in 1 .. Len(r) : r[i] = IF i <= l THEN s[i] ELSE t[i - l]
  BY DEF Reads
<1>0. l \in Nat /\ Len(t) \in Nat /\ Len(r) = l + Len(t)
  BY <1>1
<1> HIDE DEF r, l
<1>2. ASSUME NEW i \in 1 .. Len(r)
      PROVE  /\ i <= l => i \in 1 .. l /\ r[i] = s[i]
             /\ i > l => i - l \in 1 .. Len(t) /\ r[i] = t[i - l]
             /\ i \in Nat /\ (i <= l \/ i > l)
  <2>1. i \in Nat /\ 1 <= i /\ i <= l + Len(t)
    BY <1>1
  <2>2. r[i] = IF i <= l THEN s[i] ELSE t[i - l]
    BY <1>1
  <2>3. i > l => i - l \in 1 .. Len(t) /\ ~(i <= l)
    BY <1>1, <2>1
  <2> QED
    BY <1>1, <2>1, <2>2, <2>3
<1>3. ASSUME NEW i \in 1 .. Len(r) PROVE r[i] \in passes /\ a < r[i] /\ r[i] <= c
  <2>1. CASE i <= l
    <3>0. i \in 1 .. l /\ r[i] = s[i]
      BY <1>2, <2>1
    <3>1. i \in 1 .. l /\ r[i] = s[i] /\ s[i] \in Nat
      <4>1. s \in Seq(Nat)
        BY <1>1
      <4> QED
        BY <3>0, <4>1 DEF l
    <3>2. s[i] \in passes /\ a < s[i] /\ s[i] <= b
      BY <3>1 DEF Reads, l
    <3> QED
      BY <3>1, <3>2
  <2>2. CASE i > l
    <3>0. i - l \in 1 .. Len(t) /\ r[i] = t[i - l]
      BY <1>2, <2>2
    <3>1. i - l \in 1 .. Len(t) /\ r[i] = t[i - l] /\ t[i - l] \in Nat
      <4>1. t \in Seq(Nat)
        BY <1>1
      <4> QED
        BY <3>0, <4>1
    <3>2. t[i - l] \in passes /\ b < t[i - l] /\ t[i - l] <= c
      BY <3>1 DEF Reads, l
    <3> QED
      BY <3>1, <3>2
  <2> QED
    BY <1>2, <2>1, <2>2
<1>4. ASSUME NEW x \in passes, a < x, x <= c PROVE \E i \in 1 .. Len(r) : r[i] = x
  <2>1. CASE x <= b
    <3>1. PICK i \in 1 .. l : s[i] = x
      BY <1>4, <2>1 DEF Reads, l
    <3>2. i \in 1 .. Len(r) /\ i <= l
      BY <1>0
    <3>3. r[i] = s[i]
      BY <1>2, <3>2
    <3> QED
      BY <3>1, <3>2, <3>3
  <2>2. CASE b < x
    <3>1. PICK i \in 1 .. Len(t) : t[i] = x
      BY <1>4, <2>2 DEF Reads, l
    <3>2. i + l \in 1 .. Len(r) /\ ~(i + l <= l) /\ (i + l) - l = i
      BY <1>0
    <3>3. r[i + l] = x
      BY <1>1, <3>1, <3>2
    <3> QED
      BY <3>2, <3>3
  <2> QED
    BY <2>1, <2>2
<1>5. ASSUME NEW i \in 1 .. Len(r), NEW j \in 1 .. Len(r), i < j PROVE r[i] < r[j]
  <2>1. CASE j <= l
    <3>1. i <= l
      BY <1>0, <1>5, <2>1
    <3> QED
      BY <1>2, <1>5, <2>1, <3>1 DEF Reads, l
  <2>2. CASE i > l
    <3>0. j > l
      BY <1>0, <1>5, <2>2
    <3>1. i - l \in 1 .. Len(t) /\ j - l \in 1 .. Len(t) /\ i - l < j - l
      BY <1>0, <1>5, <2>2, <3>0
    <3>2. r[i] = t[i - l] /\ r[j] = t[j - l]
      BY <1>2, <2>2, <3>0
    <3> QED
      BY <3>1, <3>2 DEF Reads, l
  <2>3. CASE i <= l /\ j > l
    <3>1. i \in 1 .. l /\ r[i] = s[i] /\ j - l \in 1 .. Len(t) /\ r[j] = t[j - l]
      BY <1>2, <2>3
    <3>2. s[i] <= b /\ b < t[j - l] /\ s[i] \in Nat /\ t[j - l] \in Nat
      BY <1>1, <3>1 DEF Reads, l
    <3> QED
      BY <3>1, <3>2
  <2>4. i \in Nat /\ j \in Nat
    OBVIOUS
  <2> QED
    BY <1>0, <2>1, <2>2, <2>3, <2>4
<1> QED
  BY <1>1, <1>3, <1>4, <1>5 DEF Reads, r, l

\* The recursion of Rechecked.
RowOf(rows, page, passes, n) ==
  IF n = 0 THEN <<>>
  ELSE IF page[n] \in passes THEN Append(rows[n - 1], page[n]) ELSE rows[n - 1]

\* What passes the recheck, row by row.
LEMMA RecheckedIs ==
  ASSUME NEW page \in Seq(Nat), NEW passes
  PROVE  \E rows \in [0 .. Len(page) -> Seq(Nat)] :
           /\ \A n \in 0 .. Len(page) : rows[n] = RowOf(rows, page, passes, n)
           /\ Rechecked(page, passes) = rows[Len(page)]
<1> DEFINE N == Len(page)
           S == Seq(Nat)
           Meets(f) == f = [n \in 0 .. N |-> RowOf(f, page, passes, n)]
           rows == CHOOSE f : Meets(f)
<1>0. N \in Nat /\ <<>> \in S
  OBVIOUS
<1>1. \E f : Meets(f)
  <2>1. PICK step :
          step = [n \in 1 .. N |-> [s \in S |-> IF page[n] \in passes THEN Append(s, page[n]) ELSE s]]
    OBVIOUS
  <2>2. Stepwise(step, N, S)
    BY <2>1 DEF Stepwise
  <2> HIDE DEF N
  <2>3. PICK f \in [0 .. N -> S] :
          \A n \in 0 .. N : f[n] = IF n = 0 THEN <<>> ELSE step[n][f[n - 1]]
    <3> HIDE DEF S
    <3>1. \E f : Recurs(f, N, S, <<>>, step)
      BY <1>0, <2>2, Recursion
    <3> QED
      BY <3>1 DEF Recurs
  <2>4. ASSUME NEW n \in 0 .. N PROVE f[n] = RowOf(f, page, passes, n)
    <3>1. CASE n = 0
      BY <2>3, <3>1 DEF RowOf
    <3>2. CASE n # 0
      <4>1. n \in 1 .. N /\ f[n - 1] \in S
        BY <1>0, <3>2
      <4>2. f[n] = step[n][f[n - 1]]
        BY <2>3, <3>2
      <4>3. step[n][f[n - 1]] = IF page[n] \in passes THEN Append(f[n - 1], page[n]) ELSE f[n - 1]
        BY <2>1, <4>1
      <4> QED
        BY <3>2, <4>2, <4>3 DEF RowOf
    <3> QED
      BY <3>1, <3>2
  <2>5. f = [n \in 0 .. N |-> f[n]]
    BY <2>3
  <2> QED
    BY <2>4, <2>5
<1>2. Meets(rows)
  BY <1>1, Zenon
<1>3. Rechecked(page, passes) = rows[N]
  BY DEF Rechecked, RowOf
<1> HIDE DEF rows
<1>4. \A n \in 0 .. N : rows[n] = RowOf(rows, page, passes, n)
  BY <1>2
<1>5. \A n \in 0 .. N : rows[n] \in S
  <2> DEFINE Good == {n \in 0 .. N : rows[n] \in S}
  <2>1. 0 \in Good
    <3>1. 0 \in 0 .. N /\ rows[0] = RowOf(rows, page, passes, 0)
      BY <1>0, <1>4
    <3> QED
      BY <1>0, <3>1 DEF RowOf
  <2>2. ASSUME NEW n \in 1 .. N, n - 1 \in Good PROVE n \in Good
    <3>1. rows[n - 1] \in S /\ n \in 0 .. N /\ page[n] \in Nat /\ n # 0
      BY <2>2
    <3>2. rows[n] = RowOf(rows, page, passes, n)
      BY <1>4, <3>1
    <3>3. rows[n] \in S
      BY <3>1, <3>2 DEF RowOf
    <3> QED
      BY <3>1, <3>3
  <2>3. 0 .. N \subseteq Good
    <3> HIDE DEF Good, N
    <3> QED
      BY <1>0, <2>1, <2>2, UpTo
  <2> QED
    BY <2>3
<1>6. rows \in [0 .. N -> S]
  BY <1>2, <1>5
<1> QED
  BY <1>3, <1>4, <1>6

\* As many hits as the index has, named by their places.
HitsTo(size) == [i \in 1 .. size |-> i]

\* A page of the hits 1 .. size.
PageOfHits(size, offset, limit) == Page(HitsTo(size), offset, limit)
EndOfPage(size, offset, limit) == NextCursor(HitsTo(size), offset, limit)

\* A page begins behind its offset and moves on while there are hits.
Paged(size, offset, page, next) ==
  /\ next \in Nat /\ offset <= next /\ next <= size /\ (offset < size => offset < next)
  /\ page \in Seq(Nat) /\ Len(page) = next - offset
  /\ \A n \in 1 .. next - offset : page[n] = offset + n

\* What Meilisearch gives for an offset and a limit.
LEMMA PageIs ==
  ASSUME NEW size \in Nat, NEW offset \in 0 .. size, NEW limit \in Nat \ {0}
  PROVE  Paged(size, offset, PageOfHits(size, offset, limit), EndOfPage(size, offset, limit))
<1>1. PICK hits : hits = HitsTo(size)
  OBVIOUS
<1>2. PICK next : next = NextCursor(hits, offset, limit)
  OBVIOUS
<1>3. hits \in Seq(Nat) /\ Len(hits) = size /\ \A i \in 1 .. size : hits[i] = i
  BY <1>1 DEF HitsTo
<1>4. /\ next \in Nat /\ offset <= next /\ next <= size /\ (offset < size => offset < next)
      /\ Page(hits, offset, limit) = SubSeq(hits, offset + 1, next)
  BY <1>2, <1>3 DEF NextCursor, Page
<1>5. /\ SubSeq(hits, offset + 1, next) \in Seq(Nat)
      /\ Len(SubSeq(hits, offset + 1, next)) = next - offset
  BY <1>3, <1>4
<1>6. ASSUME NEW n \in 1 .. next - offset PROVE SubSeq(hits, offset + 1, next)[n] = offset + n
  <2>1. offset + n \in 1 .. size
    BY <1>4
  <2> QED
    BY <1>3, <1>4, <2>1
<1> QED
  BY <1>1, <1>2, <1>4, <1>5, <1>6 DEF Paged, PageOfHits, EndOfPage

\* What is read of a page.
LEMMA PageReads ==
  ASSUME NEW size \in Nat, NEW offset \in 0 .. size, NEW limit \in Nat \ {0},
         NEW passes \in SUBSET (1 .. size),
         NEW hits, hits = HitsTo(size), NEW next, next = NextCursor(hits, offset, limit)
  PROVE  Reads(Rechecked(Page(hits, offset, limit), passes), passes, offset, next)
<1>1. PICK page : page = Page(hits, offset, limit)
  OBVIOUS
<1>0. page = PageOfHits(size, offset, limit) /\ next = EndOfPage(size, offset, limit)
  BY <1>1 DEF PageOfHits, EndOfPage
<1>2. /\ next \in Nat /\ offset <= next /\ next <= size /\ page \in Seq(Nat)
      /\ Len(page) = next - offset /\ \A n \in 1 .. next - offset : page[n] = offset + n
  <2>1. Paged(size, offset, page, next)
    BY <1>0, PageIs
  <2> QED
    BY <2>1 DEF Paged
<1>3. PICK rows \in [0 .. Len(page) -> Seq(Nat)] :
        /\ \A n \in 0 .. Len(page) : rows[n] = RowOf(rows, page, passes, n)
        /\ Rechecked(page, passes) = rows[Len(page)]
  BY <1>2, RecheckedIs
<1>4. PICK N \in Nat : N = next - offset /\ N = Len(page)
  <2>1. next - offset \in Nat
    BY <1>2
  <2> QED
    BY <1>2, <2>1
<1> DEFINE Good == {n \in 0 .. N : Reads(rows[n], passes, offset, offset + n)}
<1>5. 0 \in Good
  <2>1. 0 \in 0 .. N /\ rows[0] = <<>>
    BY <1>2, <1>3, <1>4 DEF RowOf
  <2>2. Reads(<<>>, passes, offset, offset + 0)
    BY DEF Reads
  <2> QED
    BY <2>1, <2>2
<1>6. ASSUME NEW n \in 1 .. N, n - 1 \in Good PROVE n \in Good
  <2>1. PICK old \in Seq(Nat) : old = rows[n - 1]
    <3>1. n - 1 \in 0 .. Len(page)
      BY <1>4
    <3> QED
      BY <1>3, <3>1
  <2>2. Reads(old, passes, offset, offset + (n - 1))
    BY <1>6, <2>1
  <2>3. n \in 0 .. N /\ page[n] = offset + n /\ n # 0
    BY <1>2, <1>4
  <2>4. rows[n] = IF page[n] \in passes THEN Append(old, page[n]) ELSE old
    BY <1>2, <1>3, <1>4, <2>1, <2>3 DEF RowOf
  <2>5. PICK b \in Nat : b = offset + (n - 1) /\ offset <= b /\ offset + n = b + 1
    OBVIOUS
  <2>6. PICK t : t = IF b + 1 \in passes THEN <<b + 1>> ELSE <<>>
    OBVIOUS
  <2>7. rows[n] = old \o t
    <3>1. page[n] = b + 1 /\ b + 1 \in Nat
      BY <2>3, <2>5
    <3>2. Append(old, b + 1) = old \o <<b + 1>> /\ old \o <<>> = old
      BY <3>1, AppendIsConcat, ConcatEmptySeq
    <3> QED
      BY <2>4, <2>6, <3>1, <3>2
  <2>8. Reads(t, passes, b, b + 1)
    <3>1. CASE b + 1 \in passes
      <4>1. t = <<b + 1>> /\ t \in Seq(Nat) /\ Len(t) = 1 /\ t[1] = b + 1
        BY <2>6, <3>1
      <4> QED
        BY <3>1, <4>1 DEF Reads
    <3>2. CASE b + 1 \notin passes
      <4>1. t = <<>> /\ t \in Seq(Nat) /\ Len(t) = 0
        BY <2>6, <3>2
      <4>2. \A x \in passes : ~(b < x /\ x <= b + 1)
        BY <3>2
      <4> QED
        BY <4>1, <4>2 DEF Reads
    <3> QED
      BY <3>1, <3>2
  <2>9. Reads(old \o t, passes, offset, b + 1)
    <3>1. passes \in SUBSET Nat /\ offset \in Nat /\ b + 1 \in Nat /\ b <= b + 1
      OBVIOUS
    <3> QED
      BY <2>2, <2>5, <2>8, <3>1, ReadsOn
  <2> QED
    BY <2>3, <2>5, <2>7, <2>9
<1>7. 0 .. N \subseteq Good
  <2> HIDE DEF Good
  <2> QED
    BY <1>5, <1>6, UpTo
<1>8. N \in Good /\ offset + N = next
  BY <1>2, <1>4, <1>7
<1> QED
  BY <1>1, <1>2, <1>3, <1>4, <1>8

\* The recursion of Followed.
FromOn(f, hits, passes, limit, offset) ==
  IF offset = Len(hits) THEN <<>>
  ELSE Rechecked(Page(hits, offset, limit), passes) \o f[NextCursor(hits, offset, limit)]

FollowsCursors(f, hits, passes, limit) ==
  f = [offset \in 0 .. Len(hits) |-> FromOn(f, hits, passes, limit, offset)]

\* Following the cursors ends, from whatever offset.
LEMMA SomethingFollows ==
  ASSUME NEW size \in Nat, NEW limit \in Nat \ {0}, NEW passes, NEW hits, hits = HitsTo(size)
  PROVE  \E f : FollowsCursors(f, hits, passes, limit)
<1> DEFINE Meets(f, k) == \A o \in size - k .. size : f[o] = FromOn(f, hits, passes, limit, o)
           Good == {k \in 0 .. size : \E f : Meets(f, k)}
<1>0. Len(hits) = size
  BY DEF HitsTo
<1>1. ASSUME NEW o \in 0 .. size, o # size
      PROVE  NextCursor(hits, o, limit) \in o + 1 .. size
  <2>1. NextCursor(hits, o, limit) = EndOfPage(size, o, limit)
    BY DEF EndOfPage
  <2>2. Paged(size, o, PageOfHits(size, o, limit), EndOfPage(size, o, limit))
    BY <1>1, PageIs
  <2> QED
    BY <1>1, <2>1, <2>2 DEF Paged
<1>2. 0 \in Good
  <2>1. PICK h : h = [o \in 0 .. size |-> <<>>]
    OBVIOUS
  <2>2. h[size] = <<>> /\ size - 0 .. size = {size}
    BY <2>1
  <2>3. Meets(h, 0)
    BY <1>0, <2>2 DEF FromOn
  <2> QED
    BY <2>3
<1>3. ASSUME NEW k \in 1 .. size, k - 1 \in Good PROVE k \in Good
  <2>1. PICK f : Meets(f, k - 1)
    BY <1>3
  <2>2. PICK here : here = FromOn(f, hits, passes, limit, size - k)
    OBVIOUS
  <2>3. PICK h : h = [o \in 0 .. size |-> IF o = size - k THEN here ELSE f[o]]
    OBVIOUS
  <2>4. ASSUME NEW o \in size - k .. size PROVE h[o] = FromOn(h, hits, passes, limit, o)
    <3>1. o \in 0 .. size /\ size - k \in 0 .. size
      OBVIOUS
    <3>2. o # size => h[NextCursor(hits, o, limit)] = f[NextCursor(hits, o, limit)]
      <4>1. SUFFICES ASSUME o # size PROVE h[NextCursor(hits, o, limit)] = f[NextCursor(hits, o, limit)]
        OBVIOUS
      <4>2. PICK n : n = NextCursor(hits, o, limit)
        OBVIOUS
      <4>3. n \in 0 .. size /\ n # size - k
        BY <1>1, <3>1, <4>1, <4>2
      <4> QED
        BY <2>3, <4>2, <4>3
    <3>3. FromOn(h, hits, passes, limit, o) = FromOn(f, hits, passes, limit, o)
      BY <1>0, <3>2 DEF FromOn
    <3>4. h[o] = FromOn(f, hits, passes, limit, o)
      <4>1. CASE o = size - k
        BY <2>2, <2>3, <3>1, <4>1
      <4>2. CASE o # size - k
        <5>1. o \in size - (k - 1) .. size
          BY <4>2
        <5> QED
          BY <2>1, <2>3, <3>1, <4>2, <5>1
      <4> QED
        BY <4>1, <4>2
    <3> QED
      BY <3>3, <3>4
  <2>5. Meets(h, k)
    BY <2>4
  <2> QED
    BY <2>5
<1>4. size \in Good
  <2> HIDE DEF Good
  <2>1. 0 .. size \subseteq Good
    BY <1>2, <1>3, UpTo
  <2> QED
    BY <2>1
<1>5. PICK f : Meets(f, size)
  BY <1>4
<1>6. PICK h : h = [o \in 0 .. size |-> f[o]]
  OBVIOUS
<1>7. ASSUME NEW o \in 0 .. size PROVE h[o] = FromOn(h, hits, passes, limit, o)
  <2>1. o \in size - size .. size
    OBVIOUS
  <2>2. h[o] = FromOn(f, hits, passes, limit, o)
    BY <1>5, <1>6, <2>1
  <2>3. o # size => h[NextCursor(hits, o, limit)] = f[NextCursor(hits, o, limit)]
    <3>1. SUFFICES ASSUME o # size PROVE h[NextCursor(hits, o, limit)] = f[NextCursor(hits, o, limit)]
      OBVIOUS
    <3>2. PICK n : n = NextCursor(hits, o, limit)
      OBVIOUS
    <3>3. n \in 0 .. size
      BY <1>1, <3>1, <3>2
    <3> QED
      BY <1>6, <3>2, <3>3
  <2> QED
    BY <1>0, <2>2, <2>3 DEF FromOn
<1> QED
  BY <1>0, <1>6, <1>7 DEF FollowsCursors

\* Whoever follows the cursors reads every match that passes.
LEMMA FollowedReads ==
  ASSUME NEW size \in Nat, NEW limit \in Nat \ {0}, NEW passes \in SUBSET (1 .. size),
         NEW hits, hits = HitsTo(size)
  PROVE  Reads(Followed(hits, passes, limit), passes, 0, size)
<1> DEFINE from == CHOOSE f : f = [offset \in 0 .. Len(hits) |-> FromOn(f, hits, passes, limit, offset)]
<1>0. Len(hits) = size
  BY DEF HitsTo
<1>1. from = [offset \in 0 .. Len(hits) |-> FromOn(from, hits, passes, limit, offset)]
  <2>1. \E f : FollowsCursors(f, hits, passes, limit)
    BY SomethingFollows
  <2>2. \E f : f = [offset \in 0 .. Len(hits) |-> FromOn(f, hits, passes, limit, offset)]
    BY <2>1, Zenon DEF FollowsCursors
  <2> QED
    BY <2>2, Zenon
<1>2. Followed(hits, passes, limit) = from[0]
  BY DEF Followed, FromOn
<1> HIDE DEF from
<1>3. \A o \in 0 .. size : from[o] = FromOn(from, hits, passes, limit, o)
  BY <1>0, <1>1
<1> DEFINE Good == {k \in 0 .. size : \A o \in size - k .. size : Reads(from[o], passes, o, size)}
<1>4. 0 \in Good
  <2>1. size \in 0 .. size /\ from[size] = FromOn(from, hits, passes, limit, size)
    BY <1>3
  <2>3. from[size] = <<>>
    BY <1>0, <2>1 DEF FromOn
  <2>2. Reads(<<>>, passes, size, size)
    BY DEF Reads
  <2> QED
    BY <2>2, <2>3
<1>5. ASSUME NEW k \in 1 .. size, k - 1 \in Good PROVE k \in Good
  <2>1. PICK o : o = size - k /\ o \in 0 .. size /\ o # size
    OBVIOUS
  <2>2. PICK n : n = NextCursor(hits, o, limit)
    OBVIOUS
  <2>3. n \in Nat /\ o <= n /\ n <= size /\ o < n
    <3>1. n = EndOfPage(size, o, limit)
      BY <2>2 DEF EndOfPage
    <3> QED
      BY <2>1, <3>1, PageIs DEF Paged
  <2>4. Reads(Rechecked(Page(hits, o, limit), passes), passes, o, n)
    BY <2>1, <2>2, PageReads
  <2>5. Reads(from[n], passes, n, size)
    <3>1. n \in size - (k - 1) .. size
      BY <2>1, <2>3
    <3> QED
      BY <1>5, <3>1
  <2>6. from[o] = Rechecked(Page(hits, o, limit), passes) \o from[n]
    BY <1>0, <1>3, <2>1, <2>2 DEF FromOn
  <2>7. Reads(from[o], passes, o, size)
    <3>1. passes \in SUBSET Nat /\ o \in Nat /\ n \in Nat /\ size \in Nat
      BY <2>1, <2>3
    <3> QED
      BY <2>3, <2>4, <2>5, <2>6, <3>1, ReadsOn
  <2>8. ASSUME NEW p \in size - k .. size PROVE Reads(from[p], passes, p, size)
    <3>1. p = o \/ p \in size - (k - 1) .. size
      BY <2>1
    <3> QED
      BY <1>5, <2>7, <3>1
  <2> QED
    BY <2>8
<1>6. size \in Good
  <2> HIDE DEF Good
  <2>1. 0 .. size \subseteq Good
    BY <1>4, <1>5, UpTo
  <2> QED
    BY <2>1
<1>7. Reads(from[0], passes, 0, size)
  <2>1. 0 \in size - size .. size
    OBVIOUS
  <2> QED
    BY <1>6, <2>1
<1> QED
  BY <1>2, <1>7

\* Every match that passes is read once, in order.
LEMMA CursorsDo == CursorsReadAll
<1> SUFFICES ASSUME NEW size \in Sizes, NEW limit \in Sizes \ {0}, NEW passes \in SUBSET (1 .. size),
                    NEW read, read = Followed([i \in 1 .. size |-> i], passes, limit)
             PROVE  /\ {read[i] : i \in DOMAIN read} = passes
                    /\ \A i, j \in DOMAIN read : i < j => read[i] < read[j]
  BY DEF CursorsReadAll
<1>1. size \in Nat /\ limit \in Nat \ {0}
  BY ReadAssumption
<1>2. Reads(read, passes, 0, size)
  <2>1. PICK hits : hits = HitsTo(size)
    OBVIOUS
  <2>2. read = Followed(hits, passes, limit)
    BY <2>1 DEF HitsTo
  <2> QED
    BY <1>1, <2>1, <2>2, FollowedReads
<1>3. DOMAIN read = 1 .. Len(read) /\ \A x \in passes : 0 < x /\ x <= size
  BY <1>1, <1>2 DEF Reads
<1>4. \A i \in DOMAIN read : read[i] \in passes
  BY <1>2, <1>3 DEF Reads
<1>5. \A x \in passes : \E i \in DOMAIN read : read[i] = x
  BY <1>2, <1>3 DEF Reads
<1>6. \A i, j \in DOMAIN read : i < j => read[i] < read[j]
  BY <1>2, <1>3 DEF Reads
<1>7. {read[i] : i \in DOMAIN read} = passes
  <2> DEFINE all == {read[i] : i \in DOMAIN read}
  <2>1. \A x \in all : x \in passes
    BY <1>4
  <2>2. ASSUME NEW x \in passes PROVE x \in all
    <3>1. PICK i \in DOMAIN read : read[i] = x
      BY <1>5
    <3> QED
      BY <3>1
  <2> HIDE DEF all
  <2>3. all = passes
    BY <2>1, <2>2
  <2> QED
    BY <2>3 DEF all
<1> QED
  BY <1>6, <1>7

-----------------------------------------------------------------------------
(* Ranges *)

\* parse_range_header() gives what the header asks for.
LEMMA RangesAre == RangesAreBytes
<1> SUFFICES ASSUME NEW size \in Sizes, NEW range \in Header PROVE Bytes(range, size) = AskedBytes(range, size)
  BY DEF RangesAreBytes
<1>1. PICK first, last : first = range.first /\ last = range.last
  OBVIOUS
<1>2. /\ size \in Nat /\ first \in Nat \cup {-1} /\ last \in Nat \cup {-1}
      /\ (first = Unbounded <=> first = -1) /\ (last = Unbounded <=> last = -1)
  BY <1>1, ReadAssumption DEF Header, Unbounded
<1>3. CASE first = -1
  <2>1. CASE last = -1 \/ last = 0
    <3>1. Bytes(range, size) = {}
      BY <1>1, <1>2, <1>3, <2>1 DEF Bytes
    <3>2. AskedBytes(range, size) = {}
      BY <1>1, <1>2, <1>3, <2>1 DEF AskedBytes
    <3> QED
      BY <3>1, <3>2
  <2>2. CASE last \in Nat \ {0}
    <3>1. PICK start : start = IF size > last THEN size - last ELSE 0
      OBVIOUS
    <3>2. Bytes(range, size) = IF start >= size \/ size - 1 < start THEN {} ELSE {b \in start .. size - 1 : b < size}
      BY <1>1, <1>2, <1>3, <2>2, <3>1 DEF Bytes
    <3>3. AskedBytes(range, size) = {b \in 0 .. size - 1 : b >= size - last}
      BY <1>1, <1>2, <1>3, <2>2 DEF AskedBytes
    <3>4. \A b : b \in Bytes(range, size) <=> b \in AskedBytes(range, size)
      BY <1>2, <2>2, <3>1, <3>2, <3>3
    <3> QED
      BY <3>4
  <2> QED
    BY <1>2, <2>1, <2>2
<1>4. CASE first \in Nat
  <2>1. PICK end : end = IF last = -1 THEN size - 1 ELSE last
    OBVIOUS
  <2>2. Bytes(range, size) = IF first >= size \/ end < first THEN {} ELSE {b \in first .. end : b < size}
    <3>1. range.first # Unbounded /\ (range.last = Unbounded <=> last = -1)
      BY <1>1, <1>2, <1>4
    <3> QED
      BY <1>1, <2>1, <3>1 DEF Bytes
  <2>3. AskedBytes(range, size) = {b \in 0 .. size - 1 : first <= b /\ (last = -1 \/ b <= last)}
    BY <1>1, <1>2, <1>4 DEF AskedBytes
  <2>4. \A b : b \in Bytes(range, size) <=> b \in AskedBytes(range, size)
    BY <1>2, <1>4, <2>1, <2>2, <2>3
  <2> QED
    BY <2>4
<1> QED
  BY <1>2, <1>3, <1>4

-----------------------------------------------------------------------------
(* One policy *)

Enabled == [axes : SUBSET Axes, values : SUBSET Values]

\* What presets are made of.
LEMMA NoPresetIs ==
  /\ NoPreset \in Preset /\ NoPreset.sources = {} /\ DOMAIN NoPreset.facets = {}
  /\ \A p \in Principal : p.preset \in Preset
  /\ \A s \in Preset : s.sources \subseteq Slugs /\ DOMAIN s.facets \subseteq Axes
                       /\ \A axis \in DOMAIN s.facets : s.facets[axis] \subseteq Values
<1>1. NoPreset.facets \in Choice /\ NoPreset.sources = {} /\ DOMAIN NoPreset.facets = {}
  <2>1. [axis \in {} |-> {}] \in [{} -> SUBSET Values]
    OBVIOUS
  <2>2. {} \in SUBSET Axes
    OBVIOUS
  <2> QED
    BY <2>1, <2>2 DEF NoPreset, Choice
<1>2. NoPreset \in Preset
  BY <1>1 DEF NoPreset, Preset
<1>3. \A p \in Principal : p.preset \in Preset
  BY DEF Principal
<1>4. \A c \in Choice : DOMAIN c \subseteq Axes /\ \A axis \in DOMAIN c : c[axis] \subseteq Values
  BY DEF Choice
<1> QED
  BY <1>1, <1>2, <1>3, <1>4 DEF Preset

\* What the feed lists, the detail opens.
LEMMA ListedDo ==
  ASSUME NEW n \in Item, NEW p \in Principal, NEW entry, NEW wish, NEW enabled
  PROVE  ListedOpens(n, entry, wish, p, enabled)
BY DEF ListedOpens, FeedLists, DetailOpens, StillPublished

\* Linked attachments open.
LEMMA LinksDo ==
  ASSUME NEW n \in Item, NEW p \in Principal
  PROVE  LinksOpen(n, p)
BY DEF LinksOpen, Linked, MediaOpens, DetailOpens

\* Asking narrows each filter.
LEMMA Narrower ==
  ASSUME NEW p \in Principal, NEW wish \in Preset, NEW axis \in DOMAIN p.preset.facets
  PROVE  /\ axis \in DOMAIN WantedFacets(wish.facets, p.preset.facets)
         /\ WantedFacets(wish.facets, p.preset.facets)[axis] \subseteq p.preset.facets[axis]
         /\ WantedFacets(NoPreset.facets, p.preset.facets)[axis] = p.preset.facets[axis]
<1>1. /\ axis \in DOMAIN WantedFacets(wish.facets, p.preset.facets)
      /\ WantedFacets(wish.facets, p.preset.facets)[axis] = Narrowed(wish.facets, p.preset.facets, axis)
  BY DEF WantedFacets
<1>2. WantedFacets(NoPreset.facets, p.preset.facets)[axis] = Narrowed(NoPreset.facets, p.preset.facets, axis)
  BY DEF WantedFacets
<1>3. Narrowed(wish.facets, p.preset.facets, axis) \subseteq p.preset.facets[axis]
  BY DEF Narrowed
<1>4. Narrowed(NoPreset.facets, p.preset.facets, axis) = p.preset.facets[axis]
  BY NoPresetIs DEF Narrowed, AskedInstead
<1> QED
  BY <1>1, <1>2, <1>3, <1>4

\* Without a wish, the preset is what is searched for.
LEMMA Unwanted ==
  ASSUME NEW p \in Principal
  PROVE  /\ DOMAIN WantedFacets(NoPreset.facets, p.preset.facets) = DOMAIN p.preset.facets
         /\ WantedSources(NoPreset.sources, p.preset.sources) = p.preset.sources
BY NoPresetIs DEF WantedFacets, WantedSources

\* Asking never widens.
LEMMA AskingDoes ==
  ASSUME NEW n \in Item, NEW p \in Principal, NEW entry, NEW wish \in Preset, NEW enabled
  PROVE  AskingNarrows(n, entry, wish, p, enabled)
<1> SUFFICES ASSUME FeedLists(n, entry, wish, p, enabled) PROVE FeedLists(n, entry, NoPreset, p, enabled)
  BY DEF AskingNarrows
<1> DEFINE wanted == WantedFacets(wish.facets, p.preset.facets)
           all == WantedFacets(NoPreset.facets, p.preset.facets)
<1>1. ~BadRequest(NoPreset, p, enabled)
  <2>1. DOMAIN all \subseteq DOMAIN wanted
    BY Unwanted DEF WantedFacets
  <2>2. DOMAIN wanted \subseteq enabled.axes
    BY DEF FeedLists, BadRequest, KnownAxes
  <2> QED
    BY <2>1, <2>2 DEF BadRequest, KnownAxes
<1>2. Hits(entry, NoPreset, p)
  <2>0. Hits(entry, wish, p)
    BY DEF FeedLists
  <2>1. \A axis \in DOMAIN all : entry.facets[axis] \cap all[axis] # {}
    <3> SUFFICES ASSUME NEW axis \in DOMAIN p.preset.facets PROVE entry.facets[axis] \cap p.preset.facets[axis] # {}
      BY Unwanted, Narrower
    <3>1. axis \in DOMAIN wanted /\ wanted[axis] \subseteq p.preset.facets[axis]
      BY Narrower
    <3>2. entry.facets[axis] \cap wanted[axis] # {}
      BY <2>0, <3>1 DEF Hits
    <3> QED
      BY <3>1, <3>2
  <2>2. p.preset.sources # {} => entry.sources \cap p.preset.sources # {}
    <3>1. SUFFICES ASSUME p.preset.sources # {} PROVE entry.sources \cap p.preset.sources # {}
      OBVIOUS
    <3>2. entry.sources \cap WantedSources(wish.sources, p.preset.sources) # {}
      BY <2>0, <3>1 DEF Hits
    <3>3. WantedSources(wish.sources, p.preset.sources) \subseteq p.preset.sources
      BY <3>1 DEF WantedSources
    <3> QED
      BY <3>2, <3>3
  <2> QED
    BY <2>1, <2>2, Unwanted DEF Hits
<1> QED
  BY <1>1, <1>2 DEF FeedLists

\* The filter of a reader that asks for nothing.
LEMMA HitsOfPreset ==
  ASSUME NEW p \in Principal, NEW entry
  PROVE  Hits(entry, NoPreset, p) <=>
           /\ \A axis \in DOMAIN p.preset.facets : entry.facets[axis] \cap p.preset.facets[axis] # {}
           /\ p.preset.sources # {} => entry.sources \cap p.preset.sources # {}
<1>1. \A axis \in DOMAIN p.preset.facets :
        WantedFacets(NoPreset.facets, p.preset.facets)[axis] = p.preset.facets[axis]
  BY NoPresetIs, Narrower
<1> QED
  BY <1>1, Unwanted DEF Hits

\* The labels of an answer and of an entry.
LEMMA LabelsShown ==
  ASSUME NEW n \in Item, NEW enabled \in Enabled, NEW axis \in Axes
  PROVE  /\ ShownLabels(n, enabled)[axis] =
              IF axis \in enabled.axes THEN n.labels[axis] \cap enabled.values ELSE {}
         /\ n.labels[axis] \subseteq Values
         /\ Entry(n, enabled).facets = ShownLabels(n, enabled)
         /\ Entry(n, enabled).sources = n.sources
BY DEF ShownLabels, Item, Entry

\* The feed without a query is RSS.
LEMMA RssDoes ==
  ASSUME NEW n \in Item, NEW p \in Principal
  PROVE  RssAgrees(n, p)
<1> DEFINE all == [axes |-> Axes, values |-> Values]
<1>0. all \in Enabled /\ all.axes = Axes /\ all.values = Values
  BY DEF Enabled
<1>1. p.preset \in Preset /\ DOMAIN p.preset.facets \subseteq Axes
  BY NoPresetIs
<1>2. ~BadRequest(NoPreset, p, all)
  BY <1>0, <1>1, Unwanted DEF BadRequest, KnownAxes
<1>3. \A axis \in Axes : Entry(n, all).facets[axis] = n.labels[axis]
  <2> HIDE DEF all
  <2> TAKE axis \in Axes
  <2>1. Entry(n, all).facets[axis] = n.labels[axis] \cap Values /\ n.labels[axis] \subseteq Values
    BY <1>0, LabelsShown
  <2> QED
    BY <2>1
<1>4. Entry(n, all).sources = n.sources
  BY DEF Entry
<1> HIDE DEF all
<1>5. Hits(Entry(n, all), NoPreset, p) <=> Within(n, p.preset)
  <2>1. \A axis \in DOMAIN p.preset.facets :
          Entry(n, all).facets[axis] \cap p.preset.facets[axis] # {} <=> FacetMatch(n, axis, p.preset.facets[axis])
    BY <1>1, <1>3 DEF FacetMatch
  <2> QED
    BY <1>4, <2>1, HitsOfPreset DEF Within, SourceMatch
<1>6. ~p.editor => (FeedLists(n, Entry(n, all), NoPreset, p, all) <=> RssLists(n, p))
  BY <1>2, <1>5 DEF FeedLists, RssLists, StillPublished, Allows
<1> QED
  BY <1>6 DEF RssAgrees, all

\* The facets a query for one axis leads to.
WantsOf(wanted, preset, axis, values) ==
  /\ DOMAIN wanted = DOMAIN preset \cup {axis}
  /\ \A a \in DOMAIN preset : a # axis => wanted[a] = preset[a]
  /\ axis \in DOMAIN preset /\ values # {} => wanted[axis] = values \cap preset[axis]
  /\ axis \notin DOMAIN preset => wanted[axis] = values

\* What a query for some values of an axis wants.
LEMMA Asked ==
  ASSUME NEW p \in Principal, NEW axis, NEW values
  PROVE  /\ WantsOf(WantedFacets(Asking(axis, values).facets, p.preset.facets), p.preset.facets, axis, values)
         /\ Asking(axis, values).sources = {}
<1> DEFINE asked == [a \in {axis} |-> values]
           wanted == WantedFacets(asked, p.preset.facets)
<1>1. Asking(axis, values).facets = asked /\ Asking(axis, values).sources = {}
  BY DEF Asking, NoPreset
<1>2. DOMAIN wanted = DOMAIN p.preset.facets \cup {axis}
  BY DEF WantedFacets
<1>3. ASSUME NEW a \in DOMAIN p.preset.facets, a # axis PROVE wanted[a] = p.preset.facets[a]
  BY <1>3 DEF WantedFacets, Narrowed, AskedInstead
<1>4. ASSUME axis \in DOMAIN p.preset.facets, values # {} PROVE wanted[axis] = values \cap p.preset.facets[axis]
  BY <1>4 DEF WantedFacets, Narrowed, AskedInstead
<1>5. ASSUME axis \notin DOMAIN p.preset.facets PROVE wanted[axis] = values
  BY <1>5 DEF WantedFacets
<1> QED
  BY <1>1, <1>2, <1>3, <1>4, <1>5 DEF WantsOf

\* A label that is shown is found.
LEMMA ShownIs ==
  ASSUME NEW n \in Item, NEW p \in Principal, NEW enabled \in Enabled
  PROVE  ShownIsFound(n, p, enabled)
<1> DEFINE entry == Entry(n, enabled)
           preset == p.preset.facets
<1> SUFFICES ASSUME FeedLists(n, entry, NoPreset, p, enabled), NEW axis \in Axes,
                    NEW value \in ShownLabels(n, enabled)[axis]
             PROVE  /\ axis \in DOMAIN Taxonomy(enabled) /\ value \in Taxonomy(enabled)[axis]
                    /\ \/ axis \in DOMAIN preset /\ value \notin preset[axis]
                       \/ FeedLists(n, entry, Asking(axis, {value}), p, enabled)
  BY DEF ShownIsFound
<1>1. axis \in enabled.axes /\ value \in enabled.values /\ value \in entry.facets[axis]
  <2>1. ShownLabels(n, enabled)[axis] = IF axis \in enabled.axes THEN n.labels[axis] \cap enabled.values ELSE {}
    BY LabelsShown
  <2>2. entry.facets = ShownLabels(n, enabled)
    BY DEF Entry
  <2> HIDE DEF entry
  <2> QED
    BY <2>1, <2>2
<1>2. axis \in DOMAIN Taxonomy(enabled) /\ value \in Taxonomy(enabled)[axis]
  BY <1>1 DEF Taxonomy
<1>3. ASSUME axis \in DOMAIN preset => value \in preset[axis]
      PROVE  FeedLists(n, entry, Asking(axis, {value}), p, enabled)
  <2> DEFINE wish == Asking(axis, {value})
             wanted == WantedFacets(wish.facets, preset)
  <2>1. /\ DOMAIN wanted = DOMAIN preset \cup {axis} /\ wish.sources = {}
        /\ \A a \in DOMAIN preset : a # axis => wanted[a] = preset[a]
        /\ value \in wanted[axis]
    <3>1. WantsOf(wanted, preset, axis, {value}) /\ wish.sources = {}
      BY Asked
    <3> HIDE DEF wanted, wish
    <3> QED
      BY <1>3, <3>1 DEF WantsOf
  <2>2. ~BadRequest(NoPreset, p, enabled) /\ Hits(entry, NoPreset, p)
    BY DEF FeedLists
  <2>3. ~BadRequest(wish, p, enabled)
    <3>1. DOMAIN preset \subseteq enabled.axes
      BY <2>2, Unwanted DEF BadRequest, KnownAxes
    <3> QED
      BY <1>1, <2>1, <3>1 DEF BadRequest, KnownAxes
  <2>4. \A a \in DOMAIN wanted : entry.facets[a] \cap wanted[a] # {}
    <3>1. \A a \in DOMAIN preset : entry.facets[a] \cap preset[a] # {}
      BY <2>2, HitsOfPreset
    <3> HIDE DEF wanted, entry
    <3> QED
      BY <1>1, <2>1, <3>1
  <2>5. /\ WantedSources(wish.sources, p.preset.sources) = p.preset.sources
        /\ p.preset.sources # {} => entry.sources \cap p.preset.sources # {}
    BY <2>1, <2>2, HitsOfPreset DEF WantedSources
  <2>6. Hits(entry, wish, p)
    BY <2>4, <2>5 DEF Hits
  <2> QED
    BY <2>3, <2>6 DEF FeedLists
<1> QED
  BY <1>2, <1>3

\* The list of the editors and what readers see.
LEMMA UnlabelledIs ==
  ASSUME NEW n \in Item, NEW p \in Principal, NEW enabled \in Enabled
  PROVE  UnlabelledIsBare(n, p, enabled)
<1> SUFFICES ASSUME NEW question \in Question, question.unlabelled # Unasked, ~UnknownAxis(question, enabled),
                    NEW axis, axis = question.unlabelled
             PROVE  LET bare == ShownLabels(n, enabled)[axis] = {}
                        inRest == EditorsList(n, [question EXCEPT !.unlabelled = Unasked])
                        listed == EditorsList(n, question)
                    IN  /\ listed =>
                             bare /\ \A values \in SUBSET Values :
                                       ~FeedLists(n, Entry(n, enabled), Asking(axis, values), p, enabled)
                        /\ enabled.values = Values => (listed <=> inRest /\ bare)
  BY DEF UnlabelledIsBare
<1>1. axis \in enabled.axes /\ axis \in Axes
  BY DEF UnknownAxis, Question
<1>2. /\ ShownLabels(n, enabled)[axis] = n.labels[axis] \cap enabled.values
      /\ n.labels[axis] \subseteq Values
      /\ Entry(n, enabled).facets[axis] = ShownLabels(n, enabled)[axis]
  BY <1>1, LabelsShown
<1>3. EditorsList(n, question) <=> n.labels[axis] = {} /\ EditorsList(n, [question EXCEPT !.unlabelled = Unasked])
  BY DEF EditorsList, Question
<1>4. ASSUME n.labels[axis] = {}, NEW values \in SUBSET Values
      PROVE  ~FeedLists(n, Entry(n, enabled), Asking(axis, values), p, enabled)
  <2>1. axis \in DOMAIN WantedFacets(Asking(axis, values).facets, p.preset.facets)
    <3>1. WantsOf(WantedFacets(Asking(axis, values).facets, p.preset.facets), p.preset.facets, axis, values)
      BY Asked
    <3> QED
      BY <3>1 DEF WantsOf
  <2>2. Entry(n, enabled).facets[axis] = {}
    BY <1>2, <1>4
  <2>3. ~Hits(Entry(n, enabled), Asking(axis, values), p)
    BY <2>1, <2>2 DEF Hits
  <2> QED
    BY <2>3 DEF FeedLists
<1> QED
  BY <1>2, <1>3, <1>4

\* The policy is one, for any sources, axes, values, sizes, presets and news.
THEOREM PolicyIsOne == OnePolicy
<1>1. ASSUME NEW n \in Item, NEW p \in Principal
      PROVE  /\ RssAgrees(n, p) /\ LinksOpen(n, p)
             /\ \A enabled \in [axes : SUBSET Axes, values : SUBSET Values] :
                  ShownIsFound(n, p, enabled) /\ UnlabelledIsBare(n, p, enabled)
  BY RssDoes, LinksDo, ShownIs, UnlabelledIs DEF Enabled
<1>2. ASSUME NEW n \in Item, NEW p \in Principal, NEW wish \in Preset, NEW entry, NEW enabled
      PROVE  ListedOpens(n, entry, wish, p, enabled) /\ AskingNarrows(n, entry, wish, p, enabled)
  BY ListedDo, AskingDoes
<1> QED
  BY <1>1, <1>2, CursorsDo, RangesAre DEF OnePolicy

\* What a reader may see is the same on every route, never more than the preset of the
\* key allows, can be asked for and is read to the end (one policy: access_policy.py).
THEOREM RoutesAgreeHolds == Spec => []RoutesAgree
<1>1. RoutesAgree
  BY PolicyIsOne DEF RoutesAgree
<1> QED
  BY <1>1, PTL
==============================================================================
