------------------------------- MODULE Labels -------------------------------
(***************************************************************************)
(* The labels of one axis that accepts one value: opinions and manual       *)
(* decisions (opinion_writer.py, manual_decisions.py), the effective label  *)
(* worked out of them (materializer.py), changes of the catalog that alter  *)
(* that result, and the jobs that work it out again in chunks               *)
(* (rematerialization_storage.py).                                          *)
(*                                                                          *)
(* A recompute holds the row of its news from before its first read to its  *)
(* commit, but reads the catalog in several statements, each of which sees  *)
(* what is committed by then.  A row that names the axis or a value keeps   *)
(* these from being changed until it is committed: a foreign key takes a    *)
(* lock that FOR UPDATE waits for.  A classifier is named by a string only. *)
(* The rows of provenance, which no recompute counts, and deleted news,     *)
(* which every job passes over, are left out.                               *)
(***************************************************************************)
EXTENDS Integers, FiniteSets, Sequences

CONSTANTS
  News,         \* 1 .. n, in the order of their ids
  Values,       \* 1 .. n, in the order of their slugs
  Classifiers,  \* 1 .. n, in the order of their slugs
  Policies,     \* what can be configured of a classifier
  FirstPolicy,  \* what is configured of all at first
  Confidences,
  Given,        \* the label a source gives each news, or None
  Workers,
  Batch,        \* REMATERIALIZATION_BATCH_SIZE
  MaxWrites,    \* bounds answers, decisions and edits
  MaxChanges,   \* bounds the changes of the catalog
  MaxIncidents, \* bounds failing chunks, crashes and leases that lapse too early
  None

ASSUME LabelsAssumption ==
  /\ News \subseteq Nat \ {0} /\ IsFiniteSet(News)
  /\ Values \subseteq Nat /\ Classifiers \subseteq Nat \ {0} /\ Confidences \subseteq Nat
  /\ Policies \subseteq [enabled : BOOLEAN, shadow : BOOLEAN, priority : Nat, min : Nat]
  /\ FirstPolicy \in Policies
  /\ Given \in [News -> Values \cup {None}]
  /\ Batch \in Nat \ {0}
  /\ MaxWrites \in Nat /\ MaxChanges \in Nat /\ MaxIncidents \in Nat
  /\ "writer" \notin Workers /\ None \notin Values

VARIABLES
  catalog,    \* the axis, its values, the classifiers and the editorial rules
  book,       \* of each news: its version, opinions, decisions, manual_facets
  effective,  \* of each news: the effective label and what it was worked out from
  tx,         \* who holds the row of a news, and what that transaction knows
  jobs,       \* the rematerialization jobs, in the order of the changes
  workers,
  slipped,    \* news a change has passed by
  left        \* what may still happen

labelsVars == <<catalog, book, effective, tx, jobs, workers, slipped, left>>

-----------------------------------------------------------------------------
(* Working out the label *)

\* by: the classifier; stamp: the attempt or the revision of the decision.
LabelRow(version, origin, by, stamp, value, confidence) ==
  [version |-> version, origin |-> origin, by |-> by, stamp |-> stamp,
   value |-> value, confidence |-> confidence]

OriginPriority(origin) ==
  CASE origin = "classifier" -> 100 [] origin = "source_default" -> 300 [] origin = "manual" -> 1000

\* The latest decision about the current version.
Latest(b) ==
  LET mine == {d \in b.decisions : d.version = b.version} IN
  IF mine = {} THEN None
  ELSE CHOOSE d \in mine : \A e \in mine : e.revision <= d.revision

\* Rows that count: of an enabled value and, if a classifier's, of its latest
\* attempt and as its policy admits them.
CountedRows(b, taxonomy, policies) ==
  {r \in b.rows :
     /\ r.version = b.version /\ taxonomy.facet /\ r.value \in taxonomy.values
     /\ r.origin = "classifier" =>
          LET p == policies[r.by] IN
          r.stamp = b.latest[r.by] /\ p.enabled /\ ~p.shadow /\ r.confidence >= p.min}

\* Mutant: a decision whose value is disabled leaves the axis to the others.
PrefersDecision(candidates, decision, legacy) ==
  LET chosen == {r \in candidates : r.origin = "manual"} IN
  IF chosen # {} /\ (decision = None \/ decision.action = "set") THEN chosen
  ELSE candidates \ chosen

\* What manual decisions leave of them.
LeftByDecision(candidates, decision, legacy) ==
  IF decision # None
  THEN IF decision.action = "set"
       THEN {r \in candidates : r.origin = "manual" /\ r.stamp = decision.revision}
       ELSE {r \in candidates : r.origin # "manual"}
  ELSE IF legacy THEN {r \in candidates : r.origin = "manual"} ELSE candidates

\* opinion_priority(); the order of ids that are random is the one of stamps here.
Beats(r, s, policies) ==
  LET Key(x) == <<OriginPriority(x.origin),
                  IF x.by = 0 THEN 0 ELSE policies[x.by].priority, x.by, x.stamp>>
      k == Key(r)  l == Key(s) IN
  \E i \in 1 .. 4 : k[i] > l[i] /\ \A h \in 1 .. (i - 1) : k[h] = l[h]

\* The opinion that wins.
Winner(candidates, policies) ==
  CHOOSE r \in candidates : \A s \in candidates \ {r} : Beats(r, s, policies)

\* recompute() with the axis and values of one moment and the rest of another.
\* manual: the axis stays in manual_facets.
Recomputed(b, taxonomy, rest) ==
  LET decided == Latest(b)
      decision == IF rest.facet THEN decided ELSE None
      legacy == b.manual /\ {d \in b.decisions : d.version = b.version} = {}
      candidates == LeftByDecision(CountedRows(b, taxonomy, rest.policies), decision, legacy) IN
  [row |-> IF candidates = {} THEN None ELSE Winner(candidates, rest.policies),
   manual |-> legacy \/ (decision # None /\ decision.action = "set"),
   rules |-> rest.rules,
   version |-> b.version]

-----------------------------------------------------------------------------
FirstBook(n) ==
  [version |-> 1,
   rows |-> IF Given[n] = None THEN {} ELSE {LabelRow(1, "source_default", 0, 0, Given[n], 1)},
   decisions |-> {}, latest |-> [c \in Classifiers |-> 0], manual |-> FALSE]

Idle == [pc |-> "idle", job |-> 0, ids |-> {}]

LabelsInit ==
  /\ catalog = [facet |-> TRUE, values |-> Values,
                policies |-> [c \in Classifiers |-> FirstPolicy], rules |-> 1]
  /\ book = [n \in News |-> FirstBook(n)]
  /\ effective = [n \in News |-> Recomputed(FirstBook(n), catalog, catalog)]
  /\ tx = [n \in News |-> None]
  /\ jobs = <<>>
  /\ workers = [w \in Workers |-> Idle]
  /\ slipped = [n \in News |-> FALSE]
  /\ left = [writes |-> MaxWrites, changes |-> MaxChanges, incidents |-> MaxIncidents]

Spend(what) == left[what] > 0 /\ left' = [left EXCEPT ![what] = @ - 1]

-----------------------------------------------------------------------------
(* Transactions that recompute *)

\* by: "writer" or the worker; new: the book as this transaction leaves it.
Begin(n, by, new) ==
  /\ tx[n] = None
  /\ tx' = [tx EXCEPT ![n] =
       [by |-> by, pc |-> "open", book |-> new, taxonomy |-> None, rest |-> None,
        known |-> 0]]

\* An answer is applied: what it says of this axis is kept if the taxonomy and
\* the policy of the classifier admit it.
Answer(n, c, value, confidence) ==
  /\ Spend("writes")
  /\ LET stamp == book[n].latest[c] + 1
         kept == catalog.facet /\ value \in catalog.values
                 /\ confidence >= catalog.policies[c].min IN
     Begin(n, "writer",
       [book[n] EXCEPT
          !.latest[c] = stamp,
          !.rows = IF kept THEN @ \cup {LabelRow(book[n].version, "classifier", c, stamp, value, confidence)}
                   ELSE @])
  /\ UNCHANGED <<catalog, book, effective, jobs, workers, slipped>>

NextRevision(b) == Cardinality({d \in b.decisions : d.version = b.version}) + 1

\* replace() with one enabled value, or with none.
SetManually(n, value) ==
  /\ catalog.facet /\ value \in catalog.values \cup {None}
  /\ Spend("writes")
  /\ LET b == book[n]  revision == NextRevision(b) IN
     Begin(n, "writer",
       [b EXCEPT
          !.decisions = @ \cup {[version |-> b.version, revision |-> revision, action |-> "set"]},
          !.rows = IF value = None THEN @
                   ELSE @ \cup {LabelRow(b.version, "manual", 0, revision, value, 1)}])
  /\ UNCHANGED <<catalog, book, effective, jobs, workers, slipped>>

Release(n) ==
  /\ Spend("writes")
  /\ LET b == book[n] IN
     Begin(n, "writer",
       [b EXCEPT !.decisions = @ \cup
          {[version |-> b.version, revision |-> NextRevision(b), action |-> "release"]}])
  /\ UNCHANGED <<catalog, book, effective, jobs, workers, slipped>>

\* The new rows are inserted and the rows are read with the axis and values.
ReadRows(n) ==
  /\ tx[n] # None /\ tx[n].pc = "open"
  /\ tx' = [tx EXCEPT ![n].pc = "read", ![n].taxonomy = catalog]
  /\ UNCHANGED <<catalog, book, effective, jobs, workers, slipped, left>>

\* The classifiers, the decisions about enabled axes, and the rules are read.
ReadRest(n) ==
  /\ tx[n] # None /\ tx[n].pc = "read"
  /\ tx' = [tx EXCEPT ![n].pc = "ready", ![n].rest = catalog, ![n].known = Len(jobs)]
  /\ UNCHANGED <<catalog, book, effective, jobs, workers, slipped, left>>

Result(n) == Recomputed(tx[n].book, tx[n].taxonomy, tx[n].rest)

\* Whom a classifier's job finds.
Names(b, c) == \E r \in b.rows : r.origin = "classifier" /\ r.by = c

\* _news_ids(): whom a job of this scope concerns.
Concerns(job, b) ==
  CASE job.scope = "all" -> TRUE
    [] job.scope = "facet" -> b.rows # {} \/ b.decisions # {}
    [] job.scope = "value" -> \E r \in b.rows : r.value = job.id
    [] job.scope = "classifier" -> Names(b, job.id)

\* It will not look at this news any more.
Passed(j, n) ==
  \/ jobs[j].status = "succeeded" \/ jobs[j].cursor >= n
  \/ \E w \in Workers :
       /\ workers[w].pc = "working" /\ workers[w].job = j
       /\ n \notin workers[w].ids /\ \E m \in workers[w].ids : m > n

\* A policy changed behind the reading of the policies, and its job passed by
\* before the first label of that classifier was committed.
Slips(n) ==
  \E j \in tx[n].known + 1 .. Len(jobs) :
    /\ jobs[j].scope = "classifier" /\ Passed(j, n)
    /\ Names(tx[n].book, jobs[j].id) /\ ~Names(book[n], jobs[j].id)

Commits(done) ==
  /\ \A n \in done : tx[n].pc = "ready"
  /\ effective' = [n \in News |-> IF n \in done THEN Result(n) ELSE effective[n]]
  /\ book' = [n \in News |->
       IF n \in done THEN [tx[n].book EXCEPT !.manual = Result(n).manual] ELSE book[n]]
  /\ slipped' = [n \in News |-> IF n \in done THEN Slips(n) ELSE slipped[n]]
  /\ tx' = [n \in News |-> IF n \in done THEN None ELSE tx[n]]

CommitWrite(n) ==
  /\ tx[n] # None /\ tx[n].by = "writer"
  /\ Commits({n})
  /\ UNCHANGED <<catalog, jobs, workers, left>>

WriteFails(n) ==
  /\ tx[n] # None /\ tx[n].by = "writer"
  /\ tx' = [tx EXCEPT ![n] = None]
  /\ UNCHANGED <<catalog, book, effective, jobs, workers, slipped, left>>

\* edit(): a new version; manual_facets and the effective labels stay.
Edit(n) ==
  /\ tx[n] = None /\ Spend("writes")
  /\ book' = [book EXCEPT ![n].version = @ + 1, ![n].latest = [c \in Classifiers |-> 0]]
  /\ UNCHANGED <<catalog, effective, tx, jobs, workers, slipped>>

-----------------------------------------------------------------------------
(* Changes of the catalog *)

\* Mutant: only enabling and disabling counts as a change of a policy.
NoticesEnabling(old, new) == old.enabled # new.enabled

PolicyChanged(old, new) == old # new

Job(scope, id) ==
  [scope |-> scope, id |-> id, cursor |-> 0, status |-> "pending", owner |-> None]

RequestJob(scope, id) == jobs' = Append(jobs, Job(scope, id))

\* Rows inserted and not committed.
Inserted(n) ==
  IF tx[n] # None /\ tx[n].pc \in {"read", "ready"} THEN tx[n].book.rows \ book[n].rows ELSE {}

Decided(n) ==
  tx[n] # None /\ tx[n].pc \in {"read", "ready"} /\ tx[n].book.decisions # book[n].decisions

ToggleFacet ==
  /\ \A n \in News : Inserted(n) = {} /\ ~Decided(n)
  /\ Spend("changes")
  /\ catalog' = [catalog EXCEPT !.facet = ~@]
  /\ RequestJob("facet", 0)
  /\ UNCHANGED <<book, effective, tx, workers, slipped>>

\* update_value(), disable_value(): they lock the axis too.
ToggleValue(v) ==
  /\ \A n \in News : Inserted(n) = {} /\ ~Decided(n)
  /\ Spend("changes")
  /\ catalog' = [catalog EXCEPT !.values = IF v \in @ THEN @ \ {v} ELSE @ \cup {v}]
  /\ RequestJob("value", v)
  /\ UNCHANGED <<book, effective, tx, workers, slipped>>

SetPolicy(c, p) ==
  /\ p # catalog.policies[c] /\ Spend("changes")
  /\ catalog' = [catalog EXCEPT !.policies[c] = p]
  /\ IF PolicyChanged(catalog.policies[c], p) THEN RequestJob("classifier", c) ELSE UNCHANGED jobs
  /\ UNCHANGED <<book, effective, tx, workers, slipped>>

ReviseRule ==
  /\ Spend("changes")
  /\ catalog' = [catalog EXCEPT !.rules = @ + 1]
  /\ RequestJob("all", 0)
  /\ UNCHANGED <<book, effective, tx, workers, slipped>>

-----------------------------------------------------------------------------
(* Rematerialization *)

RowLocked(j) == \E w \in Workers : workers[w].pc = "working" /\ workers[w].job = j

\* Somebody still works on it as far as he knows.
Attended(j) == \E w \in Workers : workers[w].pc # "idle" /\ workers[w].job = j

\* _claim_one(): SKIP LOCKED.  A lease lapses in any case when nobody attends
\* to the job.
Claim(w, j) ==
  /\ workers[w].pc = "idle" /\ ~RowLocked(j)
  /\ \/ jobs[j].status = "pending" /\ UNCHANGED left
     \/ jobs[j].status = "running" /\ ~Attended(j) /\ UNCHANGED left
     \/ jobs[j].status = "running" /\ Attended(j) /\ Spend("incidents")
  /\ jobs' = [jobs EXCEPT ![j].status = "running", ![j].owner = w]
  /\ workers' = [workers EXCEPT ![w] = [pc |-> "claimed", job |-> j, ids |-> {}]]
  /\ UNCHANGED <<catalog, book, effective, tx, slipped>>

Owns(w) == LET job == jobs[workers[w].job] IN job.status = "running" /\ job.owner = w

Selected(job) ==
  LET found == {n \in News : n > job.cursor /\ Concerns(job, book[n])} IN
  {n \in found : Cardinality({m \in found : m < n}) < Batch}

\* _process_chunk() locks the row of the job and looks for its next news.
SelectChunk(w) ==
  /\ workers[w].pc = "claimed" /\ ~RowLocked(workers[w].job)
  /\ LET j == workers[w].job  ids == Selected(jobs[j]) IN
     IF Owns(w) /\ ids # {}
     THEN /\ workers' = [workers EXCEPT ![w].pc = "working", ![w].ids = ids]
          /\ UNCHANGED jobs
     ELSE /\ workers' = [workers EXCEPT ![w] = Idle]
          /\ jobs' = IF Owns(w) THEN [jobs EXCEPT ![j].status = "succeeded", ![j].owner = None]
                     ELSE jobs
  /\ UNCHANGED <<catalog, book, effective, tx, slipped, left>>

Held(w) == {n \in News : tx[n] # None /\ tx[n].by = w}

\* They are locked and recomputed one after the other.
LockNext(w) ==
  /\ workers[w].pc = "working"
  /\ \A n \in Held(w) : tx[n].pc = "ready"
  /\ \E n \in workers[w].ids \ Held(w) :
       /\ \A m \in workers[w].ids \ Held(w) : n <= m
       /\ Begin(n, w, book[n])
  /\ UNCHANGED <<catalog, book, effective, jobs, workers, slipped, left>>

NextCursor(ids) == CHOOSE n \in ids : \A m \in ids : m <= n

CommitChunk(w) ==
  /\ workers[w].pc = "working" /\ workers[w].ids \subseteq Held(w)
  /\ Commits(Held(w))
  /\ jobs' = [jobs EXCEPT ![workers[w].job] =
       [@ EXCEPT !.cursor = NextCursor(workers[w].ids), !.status = "pending", !.owner = None]]
  /\ workers' = [workers EXCEPT ![w] = Idle]
  /\ UNCHANGED <<catalog, left>>

RollBack(w) == tx' = [n \in News |-> IF n \in Held(w) THEN None ELSE tx[n]]

ChunkFails(w) ==
  /\ workers[w].pc = "working" /\ Spend("incidents")
  /\ RollBack(w)
  /\ workers' = [workers EXCEPT ![w].pc = "failed", ![w].ids = {}]
  /\ UNCHANGED <<catalog, book, effective, jobs, slipped>>

\* Mutant: a chunk that failed fails its job.
GivesUp(job) == [job EXCEPT !.status = "failed", !.owner = None]

Retried(job) == [job EXCEPT !.status = "pending", !.owner = None]

\* _retry()
Retry(w) ==
  /\ workers[w].pc = "failed" /\ ~RowLocked(workers[w].job)
  /\ jobs' = IF Owns(w) THEN [jobs EXCEPT ![workers[w].job] = Retried(@)] ELSE jobs
  /\ workers' = [workers EXCEPT ![w] = Idle]
  /\ UNCHANGED <<catalog, book, effective, tx, slipped, left>>

Crash(w) ==
  /\ workers[w].pc # "idle" /\ Spend("incidents")
  /\ RollBack(w)
  /\ workers' = [workers EXCEPT ![w] = Idle]
  /\ UNCHANGED <<catalog, book, effective, jobs, slipped>>

-----------------------------------------------------------------------------
Progress ==
  \/ \E n \in News : ReadRows(n) \/ ReadRest(n) \/ CommitWrite(n)
  \/ \E w \in Workers :
       \/ \E j \in DOMAIN jobs : Claim(w, j)
       \/ SelectChunk(w) \/ LockNext(w) \/ CommitChunk(w) \/ Retry(w)

LabelsNext ==
  \/ Progress
  \/ \E n \in News :
       \/ \E c \in Classifiers, v \in Values, d \in Confidences : Answer(n, c, v, d)
       \/ \E v \in Values \cup {None} : SetManually(n, v)
       \/ Release(n) \/ Edit(n) \/ WriteFails(n)
  \/ ToggleFacet \/ ReviseRule
  \/ \E v \in Values : ToggleValue(v)
  \/ \E c \in Classifiers, p \in Policies : SetPolicy(c, p)
  \/ \E w \in Workers : ChunkFails(w) \/ Crash(w)

LabelsSpec == LabelsInit /\ [][LabelsNext]_labelsVars

\* Transactions end and the workers poll.
FairLabelsSpec == LabelsSpec /\ WF_labelsVars(Progress)

-----------------------------------------------------------------------------
(* Correctness *)

\* The label of a news is not what the catalog makes of its opinions now.  An
\* edit leaves the label of the old text until the next recompute.
Stale(n) ==
  /\ effective[n].version = book[n].version
  /\ effective[n] # Recomputed(book[n], catalog, catalog)

Awaits(j, n) ==
  jobs[j].status \in {"pending", "running"} /\ jobs[j].cursor < n /\ Concerns(jobs[j], book[n])

\* architecture.md: a change of the catalog is durable work.  A label that
\* does not agree with the catalog has a job that will come to its news.
StaleIsScheduled ==
  \A n \in News : Stale(n) /\ ~slipped[n] => \E j \in DOMAIN jobs : Awaits(j, n)

\* What an editor decided about the text in force is what shows, or nothing,
\* whatever classifiers answer and the catalog goes through; but for an axis
\* that was switched and whose job has not come yet.
ManualHolds ==
  \A n \in News :
    LET decision == Latest(book[n]) IN
    /\ decision # None /\ decision.action = "set"
    /\ effective[n].version = book[n].version /\ effective[n].row # None
    => \/ effective[n].row.origin = "manual" /\ effective[n].row.stamp = decision.revision
       \/ \E j \in DOMAIN jobs : jobs[j].scope = "facet" /\ Awaits(j, n)

\* In the end every label agrees with the catalog.
Converges == <>[](\A n \in News : Stale(n) => slipped[n])
=============================================================================
