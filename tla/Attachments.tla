----------------------------- MODULE Attachments -----------------------------
(***************************************************************************)
(* One attachment that a news refers to by a URL                           *)
(* (attachment_processing_storage.py): the jobs that its pipeline runs      *)
(* create for it, the workers that fetch it, put it into the object store   *)
(* and extract its text, and the collection of objects nobody refers to     *)
(* (object_gc_storage.py).                                                  *)
(*                                                                          *)
(* What a worker read before its network calls may have changed afterwards: *)
(* its lease may have lapsed, and its pipeline run may be superseded.       *)
(***************************************************************************)
EXTENDS Naturals

CONSTANTS
  Workers,      \* slots of all worker processes
  MaxRuns,      \* bounds the pipeline runs
  MaxAttempts,  \* max_attempts of a job
  MaxIncidents, \* bounds crashes and leases that lapse under a live worker
  Contents,     \* "image", "text" and "document": what the URL may lead to
  Nothing

Job ==
  [status : {"pending", "running", "succeeded", "dead_letter"}, generation : Nat, attempts : Nat]

ASSUME AttachmentsAssumption ==
  /\ MaxRuns \in Nat /\ MaxAttempts \in Nat \ {0} /\ MaxIncidents \in Nat
  /\ Contents \subseteq {"image", "text", "document"}
  /\ Nothing \notin Job \cup Contents

VARIABLES
  run,        \* news.current_attempt_id: a run, or 0
  runs,       \* how many have been started
  attachment, \* object_key, status and text of the row
  jobs,       \* the attachment job of each run, or Nothing
  workers,    \* the calls of process() under way
  objects,    \* what the object store holds
  puts,       \* how many objects were ever put there
  authors,    \* which run last stored the attachment, whether it heard so, and
              \* which gave its status
  left        \* how many incidents may still happen

vars == <<run, runs, attachment, jobs, workers, objects, puts, authors, left>>

Attachment == [key : Nat, status : {"pending", "stored", "failed"}, text : BOOLEAN]

Worker ==
  [pc : {"idle", "fetching", "putting", "extracting", "fencing", "writing", "failing"},
   job : Nat, generation : Nat, object : Nat, text : BOOLEAN, content : Contents \cup {Nothing}]

Authors == [stored : Nat, unheard : BOOLEAN, status : Nat]

TypeOK ==
  /\ run \in 0 .. MaxRuns /\ runs \in 0 .. MaxRuns
  /\ attachment \in Attachment
  /\ jobs \in [1 .. MaxRuns -> Job \cup {Nothing}]
  /\ workers \in [Workers -> Worker]
  /\ objects \subseteq Nat /\ puts \in Nat
  /\ authors \in Authors
  /\ left \in Nat

Resting ==
  [pc |-> "idle", job |-> 0, generation |-> 0, object |-> 0, text |-> FALSE, content |-> Nothing]

Init ==
  /\ run = 0 /\ runs = 0
  /\ attachment = [key |-> 0, status |-> "pending", text |-> FALSE]
  /\ jobs = [j \in 1 .. MaxRuns |-> Nothing]
  /\ workers = [w \in Workers |-> Resting]
  /\ objects = {} /\ puts = 0
  /\ authors = [stored |-> 0, unheard |-> FALSE, status |-> 0]
  /\ left = MaxIncidents

Incident == left > 0 /\ left' = left - 1

-----------------------------------------------------------------------------
(* The pipeline *)

\* start(): a job for an attachment without an object, seen without a lock.
StartRun ==
  /\ run = 0 /\ runs < MaxRuns
  /\ runs' = runs + 1 /\ run' = runs + 1
  /\ jobs' = IF attachment.key # 0 THEN jobs
             ELSE [jobs EXCEPT ![runs + 1] =
                     [status |-> "pending", generation |-> 0, attempts |-> 0]]
  /\ UNCHANGED <<attachment, workers, objects, puts, authors, left>>

Reprocess ==
  /\ run # 0 /\ runs < MaxRuns
  /\ run' = 0
  /\ UNCHANGED <<runs, attachment, jobs, workers, objects, puts, authors, left>>

-----------------------------------------------------------------------------
(* A worker *)

Open(j) == jobs[j] # Nothing /\ jobs[j].status \in {"pending", "running"}

\* The call that holds the job and the attachment.
Writing == \E w \in Workers : workers[w].pc = "writing"

LeaseHolder(j) ==
  \E w \in Workers :
    workers[w].pc # "idle" /\ workers[w].job = j /\ workers[w].generation = jobs[j].generation

\* Mutant: only pending jobs are claimed.
OnlyPending(j) == jobs[j].status = "pending" /\ UNCHANGED left

\* The lease of a job nobody works on lapses; under a live worker it does when
\* the network is slow.
Available(j) ==
  \/ jobs[j].status = "pending" /\ UNCHANGED left
  \/ jobs[j].status = "running" /\ ~LeaseHolder(j) /\ UNCHANGED left
  \/ jobs[j].status = "running" /\ LeaseHolder(j) /\ Incident

\* SKIP LOCKED.
Claimable(j) == ~\E w \in Workers : workers[w].pc = "writing" /\ workers[w].job = j

Claim(w, j) ==
  /\ workers[w].pc = "idle" /\ Open(j) /\ Claimable(j) /\ Available(j)
  /\ IF jobs[j].attempts >= MaxAttempts
     THEN /\ jobs' = [jobs EXCEPT ![j].status = "dead_letter"]
          /\ UNCHANGED workers
     ELSE /\ jobs' = [jobs EXCEPT ![j] =
               [status |-> "running", generation |-> @.generation + 1, attempts |-> @.attempts + 1]]
          /\ workers' = [workers EXCEPT ![w] =
               [Resting EXCEPT !.pc = "fetching", !.job = j, !.generation = jobs[j].generation + 1]]
  /\ UNCHANGED <<run, runs, attachment, objects, puts, authors>>

\* fetch_bytes() brings it, or raises.
Fetch(w) ==
  /\ workers[w].pc = "fetching"
  /\ \/ \E c \in Contents :
          workers' = [workers EXCEPT ![w] = [@ EXCEPT !.pc = "putting", !.content = c]]
     \/ workers' = [workers EXCEPT ![w].pc = "failing"]
  /\ UNCHANGED <<run, runs, attachment, jobs, objects, puts, authors, left>>

\* put_bytes() under a new key; when it raises the object may be there or not.
Put(w) ==
  /\ workers[w].pc = "putting"
  /\ \/ /\ puts' = puts + 1 /\ objects' = objects \cup {puts + 1}
        /\ \/ workers' = [workers EXCEPT ![w] = [@ EXCEPT !.pc = "extracting", !.object = puts + 1]]
           \/ workers' = [workers EXCEPT ![w].pc = "failing"]
     \/ /\ workers' = [workers EXCEPT ![w].pc = "failing"]
        /\ UNCHANGED <<objects, puts>>
  /\ UNCHANGED <<run, runs, attachment, jobs, authors, left>>

\* extract_text_isolated(): an image has none, a document may be refused, and
\* the process may run out of its limits.
Extract(w) ==
  /\ workers[w].pc = "extracting"
  /\ \/ /\ \E text \in BOOLEAN :
             /\ text => workers[w].content # "image"
             /\ workers' = [workers EXCEPT ![w] = [@ EXCEPT !.pc = "fencing", !.text = text]]
     \/ /\ workers[w].content = "document"
        /\ workers' = [workers EXCEPT ![w].pc = "failing"]
  /\ UNCHANGED <<run, runs, attachment, jobs, objects, puts, authors, left>>

\* Mutant: a claim is known by its job alone.
MatchesJob(w) == jobs[workers[w].job] # Nothing

\* generation stands for the attempt, too: each claim makes one of both.
Matches(w) == jobs[workers[w].job].generation = workers[w].generation

\* The rows are locked; the news is read without a lock.  A call that lost its
\* claim or whose run is over leaves everything as it is, the job as running.
Fence(w) ==
  /\ workers[w].pc = "fencing" /\ ~Writing
  /\ IF Matches(w) /\ run = workers[w].job
     THEN workers' = [workers EXCEPT ![w].pc = "writing"]
     ELSE workers' = [workers EXCEPT ![w] = Resting]
  /\ UNCHANGED <<run, runs, attachment, jobs, objects, puts, authors, left>>

Store(w, unheard) ==
  /\ attachment' = [key |-> workers[w].object, status |-> "stored", text |-> workers[w].text]
  /\ jobs' = [jobs EXCEPT ![workers[w].job].status = "succeeded"]
  /\ authors' = [stored |-> workers[w].job, unheard |-> unheard, status |-> workers[w].job]

\* The commit is inside the try: it succeeds, it succeeds and its reply is lost,
\* or it is rolled back.  After the last two fail() is called.
Write(w) ==
  /\ workers[w].pc = "writing"
  /\ \/ Store(w, FALSE) /\ workers' = [workers EXCEPT ![w] = Resting]
     \/ Store(w, TRUE) /\ workers' = [workers EXCEPT ![w].pc = "failing"]
     \/ /\ workers' = [workers EXCEPT ![w].pc = "failing"]
        /\ UNCHANGED <<attachment, jobs, authors>>
  /\ UNCHANGED <<run, runs, objects, puts, left>>

\* fail(): fenced by the claim, not by the run nor by the status of the job.
Fail(w) ==
  /\ workers[w].pc = "failing" /\ ~Writing
  /\ workers' = [workers EXCEPT ![w] = Resting]
  /\ IF Matches(w)
     THEN LET j == workers[w].job IN
          /\ jobs' = [jobs EXCEPT ![j].status =
               IF jobs[j].attempts < MaxAttempts THEN "pending" ELSE "dead_letter"]
          /\ attachment' = [attachment EXCEPT !.status = "failed"]
          /\ authors' = [authors EXCEPT !.status = j]
     ELSE UNCHANGED <<jobs, attachment, authors>>
  /\ UNCHANGED <<run, runs, objects, puts, left>>

Crash(w) ==
  /\ workers[w].pc # "idle" /\ Incident
  /\ workers' = [workers EXCEPT ![w] = Resting]
  /\ UNCHANGED <<run, runs, attachment, jobs, objects, puts, authors>>

-----------------------------------------------------------------------------
(* The collector *)

\* The grace of OBJECT_GC_GRACE_HOURS is longer than a call of process().
InHand(o) == \E w \in Workers : workers[w].pc # "idle" /\ workers[w].object = o

\* Mutant: an object is collected as soon as no row refers to it.
NoGrace(o) == attachment.key # o

Unreferenced(o) == attachment.key # o /\ ~InHand(o)

Collect(o) ==
  /\ o \in objects /\ Unreferenced(o)
  /\ objects' = objects \ {o}
  /\ UNCHANGED <<run, runs, attachment, jobs, workers, puts, authors, left>>

-----------------------------------------------------------------------------
Work(w) ==
  \/ \E j \in 1 .. MaxRuns : Claim(w, j)
  \/ Fetch(w) \/ Put(w) \/ Extract(w) \/ Fence(w) \/ Write(w) \/ Fail(w)

Next ==
  \/ StartRun \/ Reprocess
  \/ \E w \in Workers : Work(w) \/ Crash(w)
  \/ \E o \in objects : Collect(o)

Spec == Init /\ [][Next]_vars

\* A started call ends, its network calls having timeouts; slots poll; the
\* collector runs on a timer.
FairSpec ==
  Spec /\ WF_vars(\E w \in Workers : Work(w)) /\ WF_vars(\E o \in objects : Collect(o))

-----------------------------------------------------------------------------
(* Correctness *)

\* The object an attachment refers to is in the store.
KeptIsThere == attachment.key # 0 => attachment.key \in objects

\* Two slots may work on a job and two jobs on the attachment.  A stored
\* attachment is called failed, which hides it for good, only by a job of
\* another run than the one that stored it, or by its own when that did not
\* hear that its commit was done.
HiddenByAnotherRun ==
  attachment.key # 0 /\ attachment.status = "failed" =>
    authors.status # authors.stored \/ authors.unheard

\* review-second-resolution.md:13 has a successful fetch finish as stored and
\* be shown: every job comes to an end, a superseded one by its attempts.
JobsEnd == \A j \in 1 .. MaxRuns : []<>(~Open(j))

=============================================================================
