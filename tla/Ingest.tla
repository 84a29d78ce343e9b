-------------------------------- MODULE Ingest --------------------------------
(***************************************************************************)
(* The intake of news: the submissions that carry one or two identities,    *)
(* the uploads they attach, and the collector of unused uploads and lost    *)
(* objects.  Sources: submission_acceptance.py, submissions/*.py,           *)
(* upload_administration.py, ingest_repository.py, object_store.py and      *)
(* object_gc_storage.py.                                                    *)
(*                                                                          *)
(* The identities of a request (source with external_id, idempotency_key)   *)
(* are a set; two requests are one payload when they are equal.  The        *)
(* uploads are those of one owner.  Of the clocks, "due" says that          *)
(* expires_at (pending) or the retention (completed) has passed, "old" that *)
(* the grace of the collector has: 24 hours, while a request and the        *)
(* validity of an upload take one hour at most (config.py:19,162).          *)
(***************************************************************************)
EXTENDS Naturals, FiniteSets

CONSTANTS
  Requests,     \* payloads: [ids, file]
  Handlers,     \* requests POST /api/v1/news at work
  Uploads,      \* rows of upload_intents
  NoFile,       \* a request without an upload
  Nothing,      \* no request, no key
  Collectors,   \* processes that run the collector
  Copies,       \* random parts of the names of final objects
  Temp,         \* stands for such a part in the name of a temporary object
  Quota,        \* UPLOAD_PENDING_MAX_COUNT
  MaxIncidents  \* bounds crashes, failing calls, late and wrong PUTs

ASSUME IngestAssumption ==
  /\ \A r \in Requests :
       /\ DOMAIN r = {"ids", "file", "body"}
       /\ r.ids # {} /\ r.file \in Uploads \cup {NoFile}
  /\ NoFile \notin Uploads /\ Temp \notin Copies /\ Nothing \notin Copies \cup Requests
  /\ IsFiniteSet(Uploads) /\ Quota \in Nat /\ MaxIncidents \in Nat

VARIABLES
  rows,        \* committed rows of submissions
  handlers,    \* the request and the step each handler is at
  source,      \* whether the source of the requests is enabled
  intents,     \* rows of upload_intents
  store,       \* the objects of the bucket
  completing,  \* the step of upload_administration.complete() for an upload
  collectors,
  others,      \* uploads of the owner that count for the quota, but Uploads
  left         \* how many incidents may still happen

ingestVars == <<rows, handlers, source, intents, store, completing, collectors, others, left>>

-----------------------------------------------------------------------------
Handler ==
  [pc : {"idle", "sourcing", "inserting", "reading", "attaching", "committing", "raced", "answered"},
   request : Requests \cup {Nothing},
   outcome : {"accepted", "duplicate", "conflict", "declined", "none"}]

\* late: completed by a request that was under way when the intent expired.
Intent ==
  [status : {"unborn", "pending", "completed", "expired"}, due : BOOLEAN, late : BOOLEAN,
   key : Copies \cup {Nothing}, attached : BOOLEAN]

\* An object is named by its upload and a random part; "bad" content is not
\* what the intent announced.
Keys == Uploads \X (Copies \cup {Temp})

Object == [content : {"none", "good", "bad"}, old : BOOLEAN]

Completion ==
  [pc : {"idle", "inspected", "copied", "cleaned"}, copy : Copies \cup {Nothing}]

\* batch: intents a collector holds locked, gone: those whose objects it deleted;
\* todo: objects its listing will name, doomed: the one it found unreferenced.
Collector ==
  [batch : SUBSET Uploads, gone : SUBSET Uploads, todo : SUBSET Keys,
   doomed : Keys \cup {Nothing}]

IngestTypeOK ==
  /\ rows \subseteq Requests
  /\ handlers \in [Handlers -> Handler]
  /\ source \in BOOLEAN
  /\ intents \in [Uploads -> Intent]
  /\ store \in [Keys -> Object]
  /\ completing \in [Uploads -> Completion]
  /\ collectors \in [Collectors -> Collector]
  /\ others \in 0 .. Quota
  /\ left \in 0 .. MaxIncidents
  /\ \A u \in Uploads : intents[u].status = "completed" \/ intents[u].attached =>
                         intents[u].key # Nothing

NotAsked == [pc |-> "idle", request |-> Nothing, outcome |-> "none"]

Absent == [content |-> "none", old |-> FALSE]

Unborn ==
  [status |-> "unborn", due |-> FALSE, late |-> FALSE, key |-> Nothing, attached |-> FALSE]

Still == [pc |-> "idle", copy |-> Nothing]

Asleep == [batch |-> {}, gone |-> {}, todo |-> {}, doomed |-> Nothing]

IngestInit ==
  /\ rows = {}
  /\ handlers = [h \in Handlers |-> NotAsked]
  /\ source = TRUE
  /\ intents = [u \in Uploads |-> Unborn]
  /\ store = [k \in Keys |-> Absent]
  /\ completing = [u \in Uploads |-> Still]
  /\ collectors = [c \in Collectors |-> Asleep]
  /\ others = 0
  /\ left = MaxIncidents

Incident == left > 0 /\ left' = left - 1

\* Who holds the row of an upload FOR UPDATE or has written to it.
Locked(u) ==
  \/ completing[u].pc # "idle"
  \/ \E c \in Collectors : u \in collectors[c].batch
  \/ \E h \in Handlers : handlers[h].pc = "committing" /\ handlers[h].request.file = u

-----------------------------------------------------------------------------
(* Submissions *)

At(h, pc) == handlers[h].pc = pc

ToStep(h, pc) == handlers' = [handlers EXCEPT ![h].pc = pc]

Answer(h, r, outcome) ==
  handlers' = [handlers EXCEPT ![h] = [pc |-> "answered", request |-> r, outcome |-> outcome]]

Meets(q, r) == q.ids \cap r.ids # {}

\* Rows of the identities, as SubmissionIdentityStorage.find() reads them.
Matching(r) == {q \in rows : Meets(q, r)}

\* The row of an identical payload makes it a repeat; rows of other payloads,
\* and two rows at once, are conflicts.
Judged(r) == IF Matching(r) = {r} THEN "duplicate" ELSE "conflict"

\* SubmissionAcceptance.execute() asks for the identities, without a lock ...
Submit(h, r) ==
  /\ At(h, "idle")
  /\ IF Matching(r) # {} THEN Answer(h, r, Judged(r))
     ELSE handlers' = [handlers EXCEPT ![h] =
            [pc |-> "sourcing", request |-> r, outcome |-> "none"]]
  /\ UNCHANGED <<rows, source, intents, store, completing, collectors, others, left>>

\* ... and, a moment later, for the source.  A disabled one declines whatever is not
\* a row by then, also what another handler has committed in between.
ReadSource(h) ==
  /\ At(h, "sourcing")
  /\ IF source THEN ToStep(h, "inserting") ELSE Answer(h, handlers[h].request, "declined")
  /\ UNCHANGED <<rows, source, intents, store, completing, collectors, others, left>>

Inserted(h) == handlers[h].pc \in {"reading", "attaching", "committing"}

\* The first flush; it waits for whoever inserted one of the identities and
\* has not ended yet.
Insert(h) ==
  /\ At(h, "inserting")
  /\ \A g \in Handlers \ {h} : Inserted(g) => ~Meets(handlers[g].request, handlers[h].request)
  /\ LET r == handlers[h].request IN
     \* A unique constraint refuses an identity that is committed by now.
     ToStep(h, IF Matching(r) # {} THEN "raced"
               ELSE IF r.file = NoFile THEN "committing" ELSE "reading")
  /\ UNCHANGED <<rows, source, intents, store, completing, collectors, others, left>>

Usable(u) == intents[u].status = "completed" /\ ~intents[u].attached

\* SubmissionAttachmentWriter reads the intent without locking it.
ReadIntent(h) ==
  /\ At(h, "reading")
  /\ IF Usable(handlers[h].request.file) THEN ToStep(h, "attaching")
     ELSE Answer(h, handlers[h].request, "conflict")
  /\ UNCHANGED <<rows, source, intents, store, completing, collectors, others, left>>

KeyTaken(u) == \E q \in rows : q.file = u

\* The unique object_key of attachments makes the second of two readers fail;
\* the first one then writes to the intent, once nobody holds its row.
Attach(h) ==
  /\ At(h, "attaching")
  /\ ~Locked(handlers[h].request.file)
  /\ ToStep(h, IF KeyTaken(handlers[h].request.file) THEN "raced" ELSE "committing")
  /\ UNCHANGED <<rows, source, intents, store, completing, collectors, others, left>>

\* Submission, news, link, attachment, labels, job and two events at once.
Written(h) ==
  /\ rows' = rows \cup {handlers[h].request}
  /\ intents' = [u \in Uploads |->
       IF u = handlers[h].request.file THEN [intents[u] EXCEPT !.attached = TRUE] ELSE intents[u]]

Commit(h) ==
  /\ At(h, "committing")
  /\ Written(h)
  /\ Answer(h, handlers[h].request, "accepted")
  /\ UNCHANGED <<source, store, completing, collectors, others, left>>

\* The connection or the process is gone after the commit, before the answer.
CommitUnheard(h) ==
  /\ At(h, "committing") /\ Incident
  /\ Written(h)
  /\ handlers' = [handlers EXCEPT ![h] = NotAsked]
  /\ UNCHANGED <<source, store, completing, collectors, others>>

\* Mutant: a unique violation is reported as it is.
RefindNothing(h) == Answer(h, handlers[h].request, "conflict")

Refound(h) == Answer(h, handlers[h].request, Judged(handlers[h].request))

\* After the IntegrityError and the rollback.
Refind(h) ==
  /\ At(h, "raced")
  /\ Refound(h)
  /\ UNCHANGED <<rows, source, intents, store, completing, collectors, others, left>>

\* The client hears the answer, or gives up waiting for it.
Hear(h) ==
  /\ At(h, "answered")
  /\ handlers' = [handlers EXCEPT ![h] = NotAsked]
  /\ UNCHANGED <<rows, source, intents, store, completing, collectors, others, left>>

\* A crash, or a failing call, before the commit.
Abort(h) ==
  /\ handlers[h].pc \in {"sourcing", "inserting", "reading", "attaching", "committing", "raced"} /\ Incident
  /\ handlers' = [handlers EXCEPT ![h] = NotAsked]
  /\ UNCHANGED <<rows, source, intents, store, completing, collectors, others>>

\* An administrator enables or disables the source.
SetSource ==
  /\ Incident
  /\ source' = ~source
  /\ UNCHANGED <<rows, handlers, intents, store, completing, collectors, others>>

HandlerStep(h) ==
  ReadSource(h) \/ Insert(h) \/ ReadIntent(h) \/ Attach(h) \/ Commit(h) \/ Refind(h) \/ Hear(h)

-----------------------------------------------------------------------------
(* Uploads *)

Counted(u) ==
  /\ ~intents[u].attached
  /\ \/ intents[u].status = "completed"
     \/ intents[u].status = "pending" /\ ~intents[u].due

QuotaLeft == Cardinality({u \in Uploads : Counted(u)}) + others < Quota

\* create_upload_intent() under the advisory lock of its owner.
Presign(u) ==
  /\ intents[u].status = "unborn"
  /\ QuotaLeft
  /\ intents' = [intents EXCEPT ![u].status = "pending"]
  /\ UNCHANGED <<rows, handlers, source, store, completing, collectors, others, left>>

\* The owner reserves other uploads, uses them or lets them expire.
OtherUpload ==
  /\ \/ QuotaLeft /\ others' = others + 1
     \/ others > 0 /\ others' = others - 1
  /\ UNCHANGED <<rows, handlers, source, intents, store, completing, collectors, left>>

Put(u, content) ==
  store' = [store EXCEPT ![<<u, Temp>>] = [content |-> content, old |-> FALSE]]

\* The client sends the bytes to the URL while it is valid.
PutBytes(u) ==
  /\ intents[u].status = "pending" /\ ~intents[u].due
  /\ store[<<u, Temp>>].content = "none"
  /\ Put(u, "good")
  /\ UNCHANGED <<rows, handlers, source, intents, completing, collectors, others, left>>

\* It sends others, sends again, or sends slowly.
PutOddly(u) ==
  /\ intents[u].status # "unborn" /\ Incident
  /\ \E content \in {"good", "bad"} : Put(u, content)
  /\ UNCHANGED <<rows, handlers, source, intents, completing, collectors, others>>

\* A random name is a new one: no object bears it, no collector remembers it.
Fresh(u, n) ==
  /\ store[<<u, n>>].content = "none"
  /\ \A c \in Collectors : <<u, n>> \notin collectors[c].todo \cup {collectors[c].doomed}

\* complete() locks the row; the object at the temporary key is what it should
\* be.  (Copies bounds how many names are left.)
Inspect(u) ==
  /\ ~Locked(u) /\ \E n \in Copies : Fresh(u, n)
  /\ intents[u].status = "pending" /\ ~intents[u].due
  /\ store[<<u, Temp>>].content = "good"
  /\ completing' = [completing EXCEPT ![u].pc = "inspected"]
  /\ UNCHANGED <<rows, handlers, source, intents, store, collectors, others, left>>

\* Copies whatever is at the temporary key by now to a new one.
Copy(u) ==
  /\ completing[u].pc = "inspected"
  /\ store[<<u, Temp>>].content # "none"
  /\ \E n \in Copies :
       /\ Fresh(u, n)
       /\ store' = [store EXCEPT ![<<u, n>>] = [content |-> store[<<u, Temp>>].content, old |-> FALSE]]
       /\ completing' = [completing EXCEPT ![u] = [pc |-> "copied", copy |-> n]]
  /\ UNCHANGED <<rows, handlers, source, intents, collectors, others, left>>

\* Mutant: what was inspected before the copy is not verified again.
VerifiedBefore(u, n) == TRUE

Verified(u, n) == store[<<u, n>>].content = "good"

\* The copy is read again: a sound one replaces the temporary object, another
\* one is deleted.
Clean(u) ==
  /\ completing[u].pc = "copied"
  /\ LET n == completing[u].copy IN
     /\ store' = [store EXCEPT ![<<u, IF Verified(u, n) THEN Temp ELSE n>>] = Absent]
     /\ completing' = [completing EXCEPT ![u] =
          IF Verified(u, n) THEN [pc |-> "cleaned", copy |-> n] ELSE Still]
  /\ UNCHANGED <<rows, handlers, source, intents, collectors, others, left>>

CommitCompleted(u) ==
  /\ completing[u].pc = "cleaned"
  /\ intents' = [intents EXCEPT ![u] =
       [@ EXCEPT !.status = "completed", !.due = FALSE, !.late = intents[u].due,
                 !.key = completing[u].copy]]
  /\ completing' = [completing EXCEPT ![u] = Still]
  /\ UNCHANGED <<rows, handlers, source, store, collectors, others, left>>

\* A crash or a failing call gives up the transaction, not the objects.
AbortCompleting(u) ==
  /\ completing[u].pc # "idle" /\ Incident
  /\ completing' = [completing EXCEPT ![u] = Still]
  /\ UNCHANGED <<rows, handlers, source, intents, store, collectors, others>>

CompletingStep(u) == Copy(u) \/ Clean(u) \/ CommitCompleted(u)

-----------------------------------------------------------------------------
(* Time *)

\* expires_at passes, or seven days after completed_at.
FallDue(u) ==
  /\ intents[u].status \in {"pending", "completed"} /\ ~intents[u].attached /\ ~intents[u].due
  /\ intents' = [intents EXCEPT ![u].due = TRUE]
  /\ UNCHANGED <<rows, handlers, source, store, completing, collectors, others, left>>

\* No request lasts for the grace of the collector, and no URL is valid for it.
InUse(k) ==
  \/ completing[k[1]].pc # "idle"
  \/ k[2] = Temp /\ intents[k[1]].status = "pending" /\ ~intents[k[1]].due

GrowOld(k) ==
  /\ store[k].content # "none" /\ ~store[k].old /\ ~InUse(k)
  /\ store' = [store EXCEPT ![k].old = TRUE]
  /\ UNCHANGED <<rows, handlers, source, intents, completing, collectors, others, left>>

TimePasses == (\E u \in Uploads : FallDue(u)) \/ (\E k \in Keys : GrowOld(k))

-----------------------------------------------------------------------------
(* The collector *)

Collectable(u) ==
  /\ intents[u].due /\ intents[u].status \in {"pending", "completed"}
  /\ ~intents[u].attached

Listing == {k \in Keys : store[k].old}

\* Locks the batch FOR UPDATE SKIP LOCKED; without one it goes on to the objects.
StartCollecting(c) ==
  /\ collectors[c] = Asleep
  /\ LET batch == {u \in Uploads : Collectable(u) /\ ~Locked(u)} IN
     collectors' = [collectors EXCEPT ![c] =
       [Asleep EXCEPT !.batch = batch, !.todo = IF batch = {} THEN Listing ELSE {}]]
  /\ UNCHANGED <<rows, handlers, source, intents, store, completing, others, left>>

\* Deletes the objects of one intent of the batch.
DeleteObjects(c, u) ==
  /\ u \in collectors[c].batch \ collectors[c].gone
  /\ store' = [k \in Keys |->
       IF k \in {<<u, Temp>>, <<u, intents[u].key>>} THEN Absent ELSE store[k]]
  /\ collectors' = [collectors EXCEPT ![c].gone = @ \cup {u}]
  /\ UNCHANGED <<rows, handlers, source, intents, completing, others, left>>

\* Commits the batch and lists the old objects.
ExpireBatch(c) ==
  /\ collectors[c].batch # {} /\ collectors[c].batch = collectors[c].gone
  /\ intents' = [u \in Uploads |->
       IF u \in collectors[c].batch THEN [intents[u] EXCEPT !.status = "expired"] ELSE intents[u]]
  /\ collectors' = [collectors EXCEPT ![c] = [Asleep EXCEPT !.todo = Listing]]
  /\ UNCHANGED <<rows, handlers, source, store, completing, others, left>>

\* Mutant: only attachments protect an object.
ReferencedByAttachment(k) == \E q \in rows : q.file = k[1] /\ intents[k[1]].key = k[2]

Referenced(k) ==
  \/ \E q \in rows : q.file = k[1] /\ intents[k[1]].key = k[2]
  \/ k[2] = Temp /\ intents[k[1]].status = "pending" /\ ~intents[k[1]].due
  \/ intents[k[1]].key = k[2] /\ intents[k[1]].status = "completed"

\* Asks the database who refers to the next object ...
LookUp(c, k) ==
  /\ collectors[c].doomed = Nothing /\ k \in collectors[c].todo
  /\ collectors' = [collectors EXCEPT ![c].todo = @ \ {k},
                                      ![c].doomed = IF Referenced(k) THEN Nothing ELSE k]
  /\ UNCHANGED <<rows, handlers, source, intents, store, completing, others, left>>

\* ... and deletes it, without asking again.
DeleteDoomed(c) ==
  /\ collectors[c].doomed # Nothing
  /\ store' = [store EXCEPT ![collectors[c].doomed] = Absent]
  /\ collectors' = [collectors EXCEPT ![c].doomed = Nothing]
  /\ UNCHANGED <<rows, handlers, source, intents, completing, others, left>>

\* A crash or a failing call: the locks are gone, the deletions are not.
AbortCollecting(c) ==
  /\ collectors[c] # Asleep /\ Incident
  /\ collectors' = [collectors EXCEPT ![c] = Asleep]
  /\ UNCHANGED <<rows, handlers, source, intents, store, completing, others>>

CollectorStep(c) ==
  \/ StartCollecting(c) \/ ExpireBatch(c) \/ DeleteDoomed(c)
  \/ \E u \in Uploads : DeleteObjects(c, u)
  \/ \E k \in Keys : LookUp(c, k)

-----------------------------------------------------------------------------
IngestNext ==
  \/ SetSource \/ OtherUpload
  \/ \E h \in Handlers, r \in Requests : Submit(h, r)
  \/ \E h \in Handlers : HandlerStep(h) \/ CommitUnheard(h) \/ Abort(h)
  \/ \E u \in Uploads :
       Presign(u) \/ PutBytes(u) \/ PutOddly(u) \/ Inspect(u) \/ CompletingStep(u)
       \/ AbortCompleting(u)
  \/ TimePasses
  \/ \E c \in Collectors : CollectorStep(c) \/ AbortCollecting(c)

IngestSpec == IngestInit /\ [][IngestNext]_ingestVars

\* Requests end and clocks go on; the collector runs every five minutes.
IngestFairness ==
  /\ \A h \in Handlers : WF_ingestVars(HandlerStep(h))
  /\ \A u \in Uploads : WF_ingestVars(CompletingStep(u))
  /\ WF_ingestVars(TimePasses)
  /\ \A c \in Collectors : WF_ingestVars(CollectorStep(c))

FairIngestSpec == IngestSpec /\ IngestFairness

-----------------------------------------------------------------------------
(* Correctness *)

\* What a client is being told.
Told ==
  [h \in Handlers |-> IF At(h, "answered")
     THEN [request |-> handlers[h].request, outcome |-> handlers[h].outcome]
     ELSE Nothing]

Promise == INSTANCE IdempotentIngest WITH told <- Told, open <- source

\* The intake implements the idempotent one, whatever races, crashes and
\* repeats: in particular no identical repeat is ever told that its identity
\* belongs to another payload, and nothing is declined while the source is enabled.
KeepsPromise == Promise!Spec

\* The object of an attachment is there with the announced content, unless the
\* upload was left unused for its retention when the submission came at last.
AttachedIsKept ==
  \A q \in rows : q.file # NoFile =>
    \/ store[<<q.file, intents[q.file].key>>].content = "good"
    \/ intents[q.file].due

\* An upload the client was told is complete can be read until its retention ends.
CompletedIsKept ==
  \A u \in Uploads : intents[u].status = "completed" /\ ~intents[u].due =>
    store[<<u, intents[u].key>>].content = "good"

=============================================================================
