-------------------------- MODULE Attachments_proofs --------------------------
(***************************************************************************)
(* Proofs about Attachments: for any workers, runs, attempts and incidents, *)
(* the object an attachment refers to is never collected, and a stored      *)
(* attachment is never called failed by a job of the run that stored it and *)
(* heard so.                                                                *)
(* Behind them, about SafeFetch: for any web, any number of redirects and   *)
(* any sizes, a fetch keeps its limits.                                     *)
(***************************************************************************)
EXTENDS MCAttachments, SequenceTheorems, Inductions

\* A call that has put its object is known to the collector until it ends.
HeldIsThere ==
  \A w \in Workers :
    workers[w].pc \in {"extracting", "fencing", "writing"} => workers[w].object \in objects

\* A claim is known by its generation: a job is in the hands of one call at
\* most, and of none once it stored the attachment and heard so.
Held(w) == workers[w].pc # "idle"

OneHolder ==
  /\ \A w \in Workers : Held(w) =>
       /\ workers[w].job \in 1 .. MaxRuns
       /\ jobs[workers[w].job] # Nothing
       /\ workers[w].generation <= jobs[workers[w].job].generation
  /\ \A v, w \in Workers :
       v # w /\ Held(v) /\ Held(w) /\ workers[v].job = workers[w].job
       => workers[v].generation # workers[w].generation

SucceededIsLeft ==
  \A w \in Workers :
    Held(w) /\ Matches(w) /\ workers[w].job = authors.stored =>
      jobs[workers[w].job].status # "succeeded" \/ authors.unheard

\* The job that stored the attachment and heard so remains succeeded.
StoredBySucceeded ==
  attachment.key # 0 =>
    /\ authors.stored \in 1 .. MaxRuns
    /\ jobs[authors.stored] # Nothing
    /\ jobs[authors.stored].status = "succeeded" \/ authors.unheard

\* The rows are locked from the comparison to the end.
WritingMatches == \A w \in Workers : workers[w].pc = "writing" => Matches(w)

Puts == 0 \notin objects /\ \A o \in objects : o <= puts

\* A run that was not started has no job.
Unstarted == \A j \in 1 .. MaxRuns : j > runs => jobs[j] = Nothing

IInv ==
  /\ TypeOK /\ HeldIsThere /\ OneHolder /\ SucceededIsLeft /\ WritingMatches
  /\ StoredBySucceeded /\ Puts /\ Unstarted /\ KeptIsThere /\ HiddenByAnotherRun

USE AttachmentsAssumption

LEMMA InitIInv == Init => IInv
BY DEF Init, IInv, TypeOK, HeldIsThere, OneHolder, SucceededIsLeft, StoredBySucceeded, Puts,
  WritingMatches, Unstarted, KeptIsThere, HiddenByAnotherRun, Resting, Worker, Job, Held,
  Attachment, Authors

-------------------------------------------------------------------------------
(* Types *)

LEMMA RestingWorker == Resting \in Worker
BY DEF Resting, Worker

LEMMA ClaimedWorker ==
  \A j \in Nat, g \in Nat :
    [Resting EXCEPT !.pc = "fetching", !.job = j, !.generation = g] \in Worker
BY DEF Resting, Worker

\* A worker goes on to another step, perhaps with something in hand.
LEMMA WorkerMoves ==
  ASSUME NEW v \in Worker
  PROVE  /\ [v EXCEPT !.pc = "writing"] \in Worker
         /\ [v EXCEPT !.pc = "failing"] \in Worker
         /\ \A c \in Contents : [v EXCEPT !.pc = "putting", !.content = c] \in Worker
         /\ \A o \in Nat : [v EXCEPT !.pc = "extracting", !.object = o] \in Worker
         /\ \A text \in BOOLEAN : [v EXCEPT !.pc = "fencing", !.text = text] \in Worker
<1>1. [v EXCEPT !.pc = "writing"] \in Worker /\ [v EXCEPT !.pc = "failing"] \in Worker
  BY DEF Worker
<1>2. ASSUME NEW c \in Contents PROVE [v EXCEPT !.pc = "putting", !.content = c] \in Worker
  BY DEF Worker
<1>3. ASSUME NEW o \in Nat PROVE [v EXCEPT !.pc = "extracting", !.object = o] \in Worker
  BY DEF Worker
<1>4. ASSUME NEW text \in BOOLEAN PROVE [v EXCEPT !.pc = "fencing", !.text = text] \in Worker
  BY DEF Worker
<1> QED
  BY <1>1, <1>2, <1>3, <1>4

LEMMA RestingFields == Resting.pc = "idle" /\ Resting.job = 0 /\ Resting.generation = 0
BY DEF Resting

LEMMA JobMoves ==
  ASSUME NEW job \in Job
  PROVE  /\ job.generation \in Nat
         /\ [status |-> "running", generation |-> job.generation + 1,
             attempts |-> job.attempts + 1] \in Job
         /\ \A status \in {"pending", "succeeded", "dead_letter"} :
              [job EXCEPT !.status = status] \in Job
BY DEF Job

LEMMA ClaimTypes ==
  ASSUME TypeOK, NEW w \in Workers, NEW j \in 1 .. MaxRuns, Claim(w, j)
  PROVE  TypeOK'
<1>1. jobs[j] \in Job
  BY DEF Claim, Open, TypeOK
<1>2. left' \in Nat
  BY DEF Claim, Available, Incident, TypeOK
<1>3. jobs' \in [1 .. MaxRuns -> Job \cup {Nothing}]
  BY <1>1, JobMoves DEF Claim, TypeOK
<1>4. workers' \in [Workers -> Worker]
  <2> DEFINE g == jobs[j].generation + 1
             given == [Resting EXCEPT !.pc = "fetching", !.job = j, !.generation = g]
  <2>1. g \in Nat /\ j \in Nat
    <3>1. jobs[j].generation \in Nat
      BY <1>1, JobMoves
    <3> QED
      BY <3>1
  <2>2. given \in Worker
    <3> HIDE DEF g
    <3> QED BY <2>1, ClaimedWorker
  <2>3. workers' = workers \/ workers' = [workers EXCEPT ![w] = given]
    <3>1. CASE jobs[j].attempts >= MaxAttempts
      BY <3>1 DEF Claim
    <3>2. CASE ~(jobs[j].attempts >= MaxAttempts)
      BY <3>2 DEF Claim
    <3> QED
      BY <3>1, <3>2
  <2> QED
    <3> HIDE DEF given
    <3> QED BY <2>2, <2>3 DEF TypeOK
<1> QED
  BY <1>2, <1>3, <1>4 DEF Claim, TypeOK

LEMMA WorkTypes ==
  ASSUME TypeOK, Puts, NEW w \in Workers, Fetch(w) \/ Put(w) \/ Extract(w) \/ Fence(w) \/ Crash(w)
  PROVE  TypeOK'
<1>1. workers[w] \in Worker
  BY DEF TypeOK
<1>2. CASE Fetch(w)
  <2>1. workers' \in [Workers -> Worker]
    BY <1>1, <1>2, WorkerMoves DEF Fetch, TypeOK
  <2> QED
    BY <1>2, <2>1 DEF Fetch, TypeOK
<1>3. CASE Put(w)
  <2>1. puts + 1 \in Nat
    BY DEF TypeOK
  <2>2. workers' \in [Workers -> Worker]
    BY <1>1, <1>3, <2>1, WorkerMoves DEF Put, TypeOK
  <2> QED
    BY <1>3, <2>1, <2>2 DEF Put, TypeOK
<1>4. CASE Extract(w)
  <2>1. workers' \in [Workers -> Worker]
    BY <1>1, <1>4, WorkerMoves DEF Extract, TypeOK
  <2> QED
    BY <1>4, <2>1 DEF Extract, TypeOK
<1>5. CASE Fence(w)
  <2>1. workers' \in [Workers -> Worker]
    BY <1>1, <1>5, WorkerMoves, RestingWorker DEF Fence, TypeOK
  <2> QED
    BY <1>5, <2>1 DEF Fence, TypeOK
<1>6. CASE Crash(w)
  BY <1>6, RestingWorker DEF Crash, Incident, TypeOK
<1> QED
  BY <1>2, <1>3, <1>4, <1>5, <1>6

LEMMA EndTypes ==
  ASSUME TypeOK, OneHolder, NEW w \in Workers, Write(w) \/ Fail(w)
  PROVE  TypeOK'
<1> DEFINE j == workers[w].job
<1>1. /\ workers[w] \in Worker /\ j \in 1 .. MaxRuns /\ jobs[j] \in Job
      /\ \/ workers' = [workers EXCEPT ![w] = Resting]
         \/ workers' = [workers EXCEPT ![w].pc = "failing"]
  BY DEF TypeOK, OneHolder, Held, Write, Fail
<1>2. workers' \in [Workers -> Worker]
  BY <1>1, RestingWorker, WorkerMoves DEF TypeOK
<1>3. CASE Write(w)
  <2>1. CASE \E unheard \in BOOLEAN : Store(w, unheard)
    <3> PICK unheard \in BOOLEAN : Store(w, unheard)
      BY <2>1
    <3>1. jobs' \in [1 .. MaxRuns -> Job \cup {Nothing}]
      BY <1>1, JobMoves DEF Store, TypeOK
    <3>2. attachment' \in Attachment /\ authors' \in Authors
      BY <1>1 DEF Store, Attachment, Authors, Worker
    <3> QED
      BY <1>2, <1>3, <3>1, <3>2 DEF Write, TypeOK
  <2>2. CASE UNCHANGED <<attachment, jobs, authors>>
    BY <1>2, <1>3, <2>2 DEF Write, TypeOK
  <2> QED
    BY <1>3, <2>1, <2>2 DEF Write
<1>4. CASE Fail(w) /\ Matches(w)
  <2>1. PICK status \in {"pending", "dead_letter"} : jobs' = [jobs EXCEPT ![j].status = status]
    BY <1>4 DEF Fail
  <2>2. jobs' \in [1 .. MaxRuns -> Job \cup {Nothing}]
    BY <1>1, <2>1, JobMoves DEF TypeOK
  <2>3. j \in Nat
    BY <1>1
  <2>4. attachment' \in Attachment
    BY <1>4 DEF Fail, Attachment, TypeOK
  <2>5. authors' \in Authors
    <3> HIDE DEF j
    <3> QED BY <1>4, <2>3 DEF Fail, Authors, TypeOK, j
  <2> QED
    BY <1>2, <1>4, <2>2, <2>4, <2>5 DEF Fail, TypeOK
<1>5. CASE Fail(w) /\ ~Matches(w)
  BY <1>2, <1>5 DEF Fail, TypeOK
<1> QED
  BY <1>3, <1>4, <1>5

LEMMA TypeStep == TypeOK /\ Puts /\ OneHolder /\ [Next]_vars => TypeOK'
<1> SUFFICES ASSUME TypeOK, Puts, OneHolder, [Next]_vars PROVE TypeOK'
  OBVIOUS
<1>1. CASE StartRun
  BY <1>1 DEF StartRun, Job, TypeOK
<1>2. CASE Reprocess
  BY <1>2 DEF Reprocess, TypeOK
<1>3. ASSUME NEW o \in objects, Collect(o) PROVE TypeOK'
  BY <1>3 DEF Collect, TypeOK
<1>4. CASE UNCHANGED vars
  BY <1>4 DEF vars, TypeOK
<1> QED
  BY <1>1, <1>2, <1>3, <1>4, ClaimTypes, WorkTypes, EndTypes DEF Next, Work

-------------------------------------------------------------------------------
(* Objects *)

Objects == HeldIsThere /\ KeptIsThere /\ Puts

LEMMA PutObjects ==
  ASSUME TypeOK, Objects, NEW w \in Workers, Put(w)
  PROVE  Objects'
<1>1. /\ puts + 1 \in Nat /\ puts \in Nat /\ objects \subseteq objects'
      /\ \/ objects' = objects /\ puts' = puts
         \/ objects' = objects \cup {puts + 1} /\ puts' = puts + 1
      /\ attachment' = attachment
  BY DEF Put, TypeOK
<1>2. Puts'
  <2>1. \A o \in objects : o \in Nat /\ o <= puts /\ o # 0
    <3>1. objects \subseteq Nat
      BY DEF TypeOK
    <3>2. 0 \notin objects /\ \A o \in objects : o <= puts
      BY DEF Objects, Puts
    <3> QED
      BY <3>1, <3>2
  <2>2. CASE objects' = objects /\ puts' = puts
    BY <2>1, <2>2 DEF Puts
  <2>3. CASE objects' = objects \cup {puts + 1} /\ puts' = puts + 1
    <3>1. \A o \in objects : o <= puts + 1 /\ o # 0
      BY <1>1, <2>1
    <3>2. puts + 1 <= puts + 1 /\ puts + 1 # 0
      BY <1>1
    <3> QED
      BY <2>3, <3>1, <3>2 DEF Puts
  <2> QED
    BY <1>1, <2>2, <2>3
<1>3. KeptIsThere'
  BY <1>1 DEF Objects, KeptIsThere
<1>4. ASSUME NEW v \in Workers, workers'[v].pc \in {"extracting", "fencing", "writing"}
      PROVE  workers'[v].object \in objects'
  <2>1. workers[w] \in Worker
    BY DEF TypeOK
  <2>2. CASE v = w
    <3>1. \/ workers'[w] = [workers[w] EXCEPT !.pc = "failing"]
          \/ /\ workers'[w] = [workers[w] EXCEPT !.pc = "extracting", !.object = puts + 1]
             /\ puts + 1 \in objects'
      BY DEF Put, TypeOK
    <3> QED
      BY <1>4, <2>1, <2>2, <3>1 DEF Worker
  <2>3. CASE v # w
    BY <1>1, <1>4, <2>3 DEF Put, TypeOK, Objects, HeldIsThere
  <2> QED
    BY <2>2, <2>3
<1> QED
  BY <1>2, <1>3, <1>4 DEF Objects, HeldIsThere

\* A call that goes on keeps its object, and the others theirs.
LEMMA WorkObjects ==
  ASSUME TypeOK, Objects, NEW w \in Workers,
         \/ \E j \in 1 .. MaxRuns : Claim(w, j)
         \/ Fetch(w) \/ Extract(w) \/ Fence(w) \/ Write(w) \/ Fail(w) \/ Crash(w)
  PROVE  Objects'
<1>1. objects' = objects /\ puts' = puts
  BY DEF Claim, Fetch, Extract, Fence, Write, Fail, Crash
<1>2. \A v \in Workers : v # w => workers'[v] = workers[v]
  BY DEF Claim, Fetch, Extract, Fence, Write, Fail, Crash, TypeOK
<1>3. workers[w] \in Worker
  BY DEF TypeOK
<1>4. workers'[w].pc \in {"extracting", "fencing", "writing"} =>
        /\ workers[w].pc \in {"extracting", "fencing"}
        /\ workers'[w].object = workers[w].object
  <2>1. CASE \E j \in 1 .. MaxRuns : Claim(w, j)
    <3>1. PICK j \in 1 .. MaxRuns : Claim(w, j)
      BY <2>1
    <3>2. CASE jobs[j].attempts >= MaxAttempts
      BY <3>1, <3>2 DEF Claim
    <3>3. CASE ~(jobs[j].attempts >= MaxAttempts)
      <4>1. workers'[w] = [Resting EXCEPT !.pc = "fetching", !.job = j,
                                          !.generation = jobs[j].generation + 1]
        BY <3>1, <3>3 DEF Claim, TypeOK
      <4> QED
        BY <4>1 DEF Resting
    <3> QED
      BY <3>2, <3>3
  <2>2. CASE Fetch(w)
    <3>1. \/ workers'[w] = [workers[w] EXCEPT !.pc = "failing"]
          \/ \E c \in Contents : workers'[w] = [workers[w] EXCEPT !.pc = "putting", !.content = c]
      BY <2>2 DEF Fetch, TypeOK
    <3> QED
      BY <1>3, <3>1 DEF Worker
  <2>3. CASE Extract(w)
    <3>1. /\ workers[w].pc = "extracting"
          /\ \/ workers'[w] = [workers[w] EXCEPT !.pc = "failing"]
             \/ \E text \in BOOLEAN :
                  workers'[w] = [workers[w] EXCEPT !.pc = "fencing", !.text = text]
      BY <2>3 DEF Extract, TypeOK
    <3> QED
      BY <1>3, <3>1 DEF Worker
  <2>4. CASE Fence(w)
    <3>1. /\ workers[w].pc = "fencing"
          /\ workers'[w] = Resting \/ workers'[w] = [workers[w] EXCEPT !.pc = "writing"]
      BY <2>4 DEF Fence, TypeOK
    <3> QED
      BY <1>3, <3>1, RestingFields DEF Worker
  <2>5. CASE Write(w) \/ Fail(w) \/ Crash(w)
    <3>1. workers'[w] = Resting \/ workers'[w] = [workers[w] EXCEPT !.pc = "failing"]
      BY <2>5 DEF Write, Fail, Crash, TypeOK
    <3> QED
      BY <1>3, <3>1, RestingFields DEF Worker
  <2> QED
    BY <2>1, <2>2, <2>3, <2>4, <2>5
<1>5. HeldIsThere'
  BY <1>1, <1>2, <1>4 DEF Objects, HeldIsThere
<1>6. attachment'.key = attachment.key \/ attachment'.key \in objects
  <2>1. CASE Write(w)
    BY <2>1 DEF Write, Store, Objects, HeldIsThere
  <2>2. CASE Fail(w)
    BY <2>2 DEF Fail, TypeOK, Attachment
  <2> QED
    BY <2>1, <2>2 DEF Claim, Fetch, Extract, Fence, Crash
<1> QED
  BY <1>1, <1>5, <1>6 DEF Objects, KeptIsThere, Puts

LEMMA ObjectsStep == TypeOK /\ Objects /\ [Next]_vars => Objects'
<1> SUFFICES ASSUME TypeOK, Objects, [Next]_vars PROVE Objects'
  OBVIOUS
<1>1. CASE StartRun \/ Reprocess \/ UNCHANGED vars
  BY <1>1 DEF StartRun, Reprocess, vars, Objects, HeldIsThere, KeptIsThere, Puts
<1>2. ASSUME NEW o \in objects, Collect(o) PROVE Objects'
  BY <1>2 DEF Collect, Unreferenced, InHand, Objects, HeldIsThere, KeptIsThere, Puts
<1> QED
  BY <1>1, <1>2, PutObjects, WorkObjects DEF Next, Work

-------------------------------------------------------------------------------
(* Claims *)

Claims ==
  /\ OneHolder /\ SucceededIsLeft /\ WritingMatches
  /\ StoredBySucceeded /\ Unstarted /\ HiddenByAnotherRun

\* What the other calls rely on is left alone by a call that only moves on.
LEMMA MoveClaims ==
  ASSUME TypeOK, Claims, NEW w \in Workers,
         \/ Fetch(w) \/ Put(w) \/ Extract(w) \/ Fence(w) \/ Crash(w)
         \/ Write(w) /\ UNCHANGED <<attachment, jobs, authors>>
  PROVE  Claims'
<1>1. /\ jobs' = jobs /\ attachment' = attachment /\ authors' = authors /\ runs' = runs
      /\ workers[w].pc # "idle"
      /\ \A v \in Workers : v # w => workers'[v] = workers[v]
  BY DEF Fetch, Put, Extract, Fence, Crash, Write, TypeOK
<1>2. workers[w] \in Worker
  BY DEF TypeOK
<1>3. \/ workers'[w].pc = "idle"
      \/ /\ workers'[w].job = workers[w].job /\ workers'[w].generation = workers[w].generation
         /\ workers'[w].pc = "writing" => Matches(w)
  <2>1. CASE Fetch(w)
    <3>1. \/ workers'[w] = [workers[w] EXCEPT !.pc = "failing"]
          \/ \E c \in Contents : workers'[w] = [workers[w] EXCEPT !.pc = "putting", !.content = c]
      BY <2>1 DEF Fetch, TypeOK
    <3> QED
      BY <1>2, <3>1 DEF Worker
  <2>2. CASE Put(w)
    <3>1. \/ workers'[w] = [workers[w] EXCEPT !.pc = "failing"]
          \/ workers'[w] = [workers[w] EXCEPT !.pc = "extracting", !.object = puts + 1]
      BY <2>2 DEF Put, TypeOK
    <3> QED
      BY <1>2, <3>1 DEF Worker
  <2>3. CASE Extract(w)
    <3>1. \/ workers'[w] = [workers[w] EXCEPT !.pc = "failing"]
          \/ \E text \in BOOLEAN : workers'[w] = [workers[w] EXCEPT !.pc = "fencing", !.text = text]
      BY <2>3 DEF Extract, TypeOK
    <3> QED
      BY <1>2, <3>1 DEF Worker
  <2>4. CASE Fence(w)
    <3>1. \/ workers'[w] = Resting
          \/ workers'[w] = [workers[w] EXCEPT !.pc = "writing"] /\ Matches(w)
      BY <2>4 DEF Fence, TypeOK
    <3> QED
      BY <1>2, <3>1, RestingFields DEF Worker
  <2>5. CASE Crash(w)
    BY <2>5, RestingFields DEF Crash, TypeOK
  <2>6. CASE Write(w)
    <3>1. workers'[w] = Resting \/ workers'[w] = [workers[w] EXCEPT !.pc = "failing"]
      BY <2>6 DEF Write, TypeOK
    <3> QED
      BY <1>2, <3>1, RestingFields DEF Worker
  <2> QED
    BY <2>1, <2>2, <2>3, <2>4, <2>5, <2>6
<1>4. \A v \in Workers : workers'[v].pc # "idle" =>
        /\ workers[v].pc # "idle"
        /\ workers'[v].job = workers[v].job /\ workers'[v].generation = workers[v].generation
  BY <1>1, <1>3
<1>5. OneHolder' /\ SucceededIsLeft'
  BY <1>1, <1>4 DEF Claims, OneHolder, SucceededIsLeft, Held, Matches
<1>6. ASSUME NEW v \in Workers, workers'[v].pc = "writing" PROVE Matches(v)'
  <2>1. CASE v = w
    BY <1>1, <1>3, <1>6, <2>1 DEF Matches
  <2>2. CASE v # w
    BY <1>1, <1>6, <2>2 DEF Claims, WritingMatches, Matches
  <2> QED
    BY <2>1, <2>2
<1>7. WritingMatches'
  BY <1>6 DEF WritingMatches
<1> QED
  BY <1>1, <1>5, <1>7 DEF Claims, StoredBySucceeded, Unstarted, HiddenByAnotherRun

\* A claim makes a generation nobody has; one that finds the attempts used up
\* leaves the generation.  The job was open, so it stored nothing.
LEMMA ClaimClaims ==
  ASSUME TypeOK, Claims, NEW w \in Workers, NEW j \in 1 .. MaxRuns, Claim(w, j)
  PROVE  Claims'
<1>1. /\ attachment' = attachment /\ authors' = authors /\ runs' = runs
      /\ workers[w].pc = "idle" /\ jobs[j] # Nothing /\ jobs[j].status # "succeeded"
      /\ \A v \in Workers : v # w => workers'[v] = workers[v]
      /\ \A i \in 1 .. MaxRuns : i # j => jobs'[i] = jobs[i]
  BY DEF Claim, Open, TypeOK
<1>2. jobs[j] \in Job /\ jobs[j].generation \in Nat
  BY <1>1, JobMoves DEF TypeOK
<1>3. /\ jobs'[j] # Nothing /\ jobs'[j].status # "succeeded"
      /\ \/ /\ workers' = workers /\ jobs'[j].generation = jobs[j].generation
         \/ /\ workers'[w].pc = "fetching" /\ workers'[w].job = j
            /\ workers'[w].generation = jobs[j].generation + 1
            /\ jobs'[j].generation = jobs[j].generation + 1
  <2>1. CASE jobs[j].attempts >= MaxAttempts
    <3>1. workers' = workers /\ jobs'[j] = [jobs[j] EXCEPT !.status = "dead_letter"]
      BY <2>1 DEF Claim, TypeOK
    <3>2. jobs'[j] \in Job
      BY <1>2, <3>1, JobMoves
    <3> QED
      BY <1>2, <3>1, <3>2 DEF Job
  <2>2. CASE ~(jobs[j].attempts >= MaxAttempts)
    <3>1. /\ jobs'[j] = [status |-> "running", generation |-> jobs[j].generation + 1,
                         attempts |-> jobs[j].attempts + 1]
          /\ workers'[w] = [Resting EXCEPT !.pc = "fetching", !.job = j,
                                           !.generation = jobs[j].generation + 1]
      BY <2>2 DEF Claim, TypeOK
    <3>2. jobs'[j] \in Job
      BY <1>2, <3>1, JobMoves
    <3> QED
      BY <3>1, <3>2 DEF Resting
  <2> QED
    BY <2>1, <2>2
<1>4. \A v \in Workers : v # w /\ Held(v) =>
        /\ workers[v].generation \in Nat /\ workers[v].job \in 1 .. MaxRuns
        /\ jobs[workers[v].job] # Nothing
        /\ workers[v].generation <= jobs[workers[v].job].generation
  BY DEF TypeOK, Worker, Claims, OneHolder
<1>5. OneHolder'
  <2>1. CASE workers' = workers /\ jobs'[j].generation = jobs[j].generation
    BY <1>1, <1>3, <2>1 DEF Claims, OneHolder, Held
  <2>2. CASE /\ workers'[w].pc = "fetching" /\ workers'[w].job = j
             /\ workers'[w].generation = jobs[j].generation + 1
             /\ jobs'[j].generation = jobs[j].generation + 1
    <3>1. ASSUME NEW v \in Workers, Held(v)'
          PROVE  /\ workers'[v].job \in 1 .. MaxRuns
                 /\ jobs'[workers'[v].job] # Nothing
                 /\ workers'[v].generation <= jobs'[workers'[v].job].generation
      <4>1. CASE v = w
        BY <1>2, <1>3, <2>2, <4>1
      <4>2. CASE v # w
        BY <1>1, <1>2, <1>3, <1>4, <2>2, <3>1, <4>2 DEF Held
      <4> QED
        BY <4>1, <4>2
    <3>2. ASSUME NEW v \in Workers, v # w, Held(v)', workers'[v].job = j
          PROVE  workers'[v].generation # workers'[w].generation
      BY <1>1, <1>2, <1>4, <2>2, <3>2 DEF Held
    <3>3. ASSUME NEW v \in Workers, NEW u \in Workers, v # u, Held(v)', Held(u)',
                 workers'[v].job = workers'[u].job
          PROVE  workers'[v].generation # workers'[u].generation
      <4>1. CASE v = w \/ u = w
        BY <2>2, <3>2, <3>3, <4>1
      <4>2. CASE v # w /\ u # w
        BY <1>1, <3>3, <4>2 DEF Claims, OneHolder, Held
      <4> QED
        BY <4>1, <4>2
    <3> QED
      BY <3>1, <3>3 DEF OneHolder
  <2> QED
    BY <1>3, <2>1, <2>2
<1>6. SucceededIsLeft'
  <2> SUFFICES ASSUME NEW v \in Workers, Held(v)', Matches(v)',
                      workers'[v].job = authors'.stored
               PROVE  jobs'[workers'[v].job].status # "succeeded" \/ authors'.unheard
    BY DEF SucceededIsLeft
  <2>1. CASE workers'[v].job = j
    BY <1>3, <2>1
  <2>2. CASE workers'[v].job # j
    <3>1. workers'[v] = workers[v] /\ Held(v)
      BY <1>1, <1>3, <2>2 DEF Held
    <3> QED
      BY <1>1, <2>2, <3>1 DEF Claims, OneHolder, SucceededIsLeft, Held, Matches
  <2> QED
    BY <2>1, <2>2
<1>7. WritingMatches'
  <2> SUFFICES ASSUME NEW v \in Workers, workers'[v].pc = "writing" PROVE Matches(v)'
    BY DEF WritingMatches
  <2>1. v # w
    BY <1>1, <1>3
  <2>2. workers'[v] = workers[v] /\ workers[v].job # j /\ Held(v)
    BY <1>1, <2>1 DEF Claim, Claimable, Held
  <2> QED
    BY <1>1, <1>4, <2>1, <2>2 DEF Claims, WritingMatches, Matches
<1> QED
  BY <1>1, <1>3, <1>5, <1>6, <1>7 DEF Claims, StoredBySucceeded, Unstarted, HiddenByAnotherRun

\* A call that ends: the one that stores had the only claim, and the one that
\* fails had a job that did not store anything, or did not hear so.
LEMMA EndClaims ==
  ASSUME TypeOK, Objects, Claims, NEW w \in Workers,
         \/ Write(w) /\ ((Store(w, FALSE) /\ workers'[w] = Resting) \/ Store(w, TRUE))
         \/ Fail(w)
  PROVE  Claims'
<1> DEFINE j == workers[w].job
<1>1. /\ Held(w) /\ j \in 1 .. MaxRuns /\ jobs[j] # Nothing /\ jobs[j] \in Job /\ runs' = runs
      /\ workers[w] \in Worker
      /\ \/ workers'[w] = Resting
         \/ workers'[w] = [workers[w] EXCEPT !.pc = "failing"]
      /\ \A v \in Workers : v # w => workers'[v] = workers[v]
      /\ \A i \in 1 .. MaxRuns : i # j => jobs'[i] = jobs[i]
  BY DEF Write, Store, Fail, Claims, OneHolder, Held, TypeOK
<1>2. jobs'[j] # Nothing /\ jobs'[j].generation = jobs[j].generation
  <2>1. CASE jobs'[j] = jobs[j]
    BY <1>1, <2>1
  <2>2. CASE \E status \in {"pending", "succeeded", "dead_letter"} :
               jobs'[j] = [jobs[j] EXCEPT !.status = status]
    <3> PICK status \in {"pending", "succeeded", "dead_letter"} :
                jobs'[j] = [jobs[j] EXCEPT !.status = status]
      BY <2>2
    <3>1. [jobs[j] EXCEPT !.status = status] \in Job
      BY <1>1, JobMoves
    <3>2. [jobs[j] EXCEPT !.status = status].generation = jobs[j].generation
      BY <1>1 DEF Job
    <3> QED
      BY <3>1, <3>2
  <2> QED
    BY <1>1, <2>1, <2>2 DEF Store, Fail, TypeOK
<1>3. \A v \in Workers : Held(v)' =>
        /\ Held(v) /\ workers[v].job \in 1 .. MaxRuns
        /\ workers'[v].job = workers[v].job /\ workers'[v].generation = workers[v].generation
        /\ workers'[v].pc = "writing" => v # w /\ workers'[v] = workers[v]
  <2> SUFFICES ASSUME NEW v \in Workers, Held(v)'
               PROVE  /\ Held(v) /\ workers[v].job \in 1 .. MaxRuns
                      /\ workers'[v].job = workers[v].job
                      /\ workers'[v].generation = workers[v].generation
                      /\ workers'[v].pc = "writing" => v # w /\ workers'[v] = workers[v]
    OBVIOUS
  <2>1. CASE v = w
    BY <1>1, <2>1, RestingFields DEF Held, Worker
  <2>2. CASE v # w
    BY <1>1, <2>2 DEF Held, Claims, OneHolder
  <2> QED
    BY <2>1, <2>2
<1>4. OneHolder'
  BY <1>1, <1>2, <1>3 DEF Claims, OneHolder, Held
<1>5. WritingMatches'
  <2> SUFFICES ASSUME NEW v \in Workers, workers'[v].pc = "writing" PROVE Matches(v)'
    BY DEF WritingMatches
  <2>1. Held(v)'
    BY DEF Held
  <2> QED
    BY <1>1, <1>2, <1>3, <2>1 DEF Claims, WritingMatches, Matches
<1>6. Unstarted'
  BY <1>1 DEF Claims, Unstarted
<1>7. CASE Write(w) /\ ((Store(w, FALSE) /\ workers'[w] = Resting) \/ Store(w, TRUE))
  <2>1. PICK unheard \in BOOLEAN :
          /\ Store(w, unheard)
          /\ ~unheard => workers'[w] = Resting
    BY <1>7
  <2>2. jobs'[j].status = "succeeded" /\ Matches(w)
    BY <1>1, <1>7, <2>1 DEF Write, Store, Claims, WritingMatches, TypeOK, Job
  <2>3. authors'.stored = j /\ authors'.unheard = unheard /\ attachment'.status = "stored"
    BY <2>1 DEF Store
  <2>4. SucceededIsLeft'
    <3> SUFFICES ASSUME NEW v \in Workers, Held(v)', Matches(v)', workers'[v].job = j, ~unheard
                 PROVE  FALSE
      BY <2>3 DEF SucceededIsLeft
    <3>1. v # w
      BY <2>1, RestingFields DEF Held
    <3>2. workers[v].job # j
      BY <1>1, <1>2, <1>3, <2>2, <3>1 DEF Claims, OneHolder, Matches
    <3> QED
      BY <1>3, <3>2
  <2>5. StoredBySucceeded' /\ HiddenByAnotherRun'
    BY <1>1, <1>2, <2>2, <2>3 DEF StoredBySucceeded, HiddenByAnotherRun
  <2> QED
    BY <1>4, <1>5, <1>6, <2>4, <2>5 DEF Claims
<1>8. CASE Fail(w)
  <2>1. /\ attachment'.key = attachment.key /\ authors'.stored = authors.stored
        /\ authors'.unheard = authors.unheard
    BY <1>8 DEF Fail, TypeOK, Attachment, Authors
  <2>2. SucceededIsLeft'
    <3> SUFFICES ASSUME NEW v \in Workers, Held(v)', Matches(v)',
                        workers'[v].job = authors'.stored
                 PROVE  jobs'[workers'[v].job].status # "succeeded" \/ authors'.unheard
      BY DEF SucceededIsLeft
    <3>1. /\ Held(v) /\ workers'[v].job = workers[v].job
          /\ workers'[v].generation = workers[v].generation /\ workers[v].job \in 1 .. MaxRuns
      BY <1>3
    <3>2. Matches(v)
      BY <1>1, <1>2, <3>1 DEF Matches
    <3>3. jobs'[j] = jobs[j] \/ jobs'[j].status # "succeeded"
      BY <1>1, <1>8 DEF Fail, TypeOK, Job
    <3> QED
      BY <1>1, <2>1, <3>1, <3>2, <3>3 DEF Claims, SucceededIsLeft
  <2>3. attachment.key # 0 => authors.stored # j \/ authors.unheard \/ ~Matches(w)
    BY <1>1 DEF Claims, StoredBySucceeded, SucceededIsLeft
  <2>4. jobs' = jobs \/ Matches(w)
    BY <1>8 DEF Fail
  <2>5. StoredBySucceeded'
    BY <1>1, <1>2, <2>1, <2>3, <2>4 DEF Claims, StoredBySucceeded
  <2>6. HiddenByAnotherRun'
    <3>1. CASE Matches(w)
      <4>1. authors'.status = j
        BY <1>8, <3>1 DEF Fail, TypeOK, Authors
      <4> QED
        BY <2>1, <2>3, <3>1, <4>1 DEF HiddenByAnotherRun
    <3>2. CASE ~Matches(w)
      BY <1>8, <3>2 DEF Fail, Claims, HiddenByAnotherRun
    <3> QED
      BY <3>1, <3>2
  <2> QED
    BY <1>4, <1>5, <1>6, <2>2, <2>5, <2>6 DEF Claims
<1> QED
  BY <1>7, <1>8

LEMMA ClaimsStep == TypeOK /\ Objects /\ Claims /\ [Next]_vars => Claims'
<1> SUFFICES ASSUME TypeOK, Objects, Claims, [Next]_vars PROVE Claims'
  OBVIOUS
<1>1. CASE StartRun
  <2> DEFINE new == [status |-> "pending", generation |-> 0, attempts |-> 0]
  <2>1. /\ runs + 1 \in 1 .. MaxRuns /\ jobs[runs + 1] = Nothing /\ runs' = runs + 1
        /\ runs \in Nat
        /\ workers' = workers /\ attachment' = attachment /\ authors' = authors
    BY <1>1 DEF StartRun, TypeOK, Claims, Unstarted
  <2>2. \A i \in 1 .. MaxRuns : jobs[i] # Nothing => jobs'[i] = jobs[i]
    BY <1>1, <2>1 DEF StartRun, TypeOK
  <2>3. OneHolder' /\ SucceededIsLeft' /\ WritingMatches'
    BY <2>1, <2>2 DEF Claims, OneHolder, SucceededIsLeft, WritingMatches, Held, Matches
  <2>4. StoredBySucceeded' /\ HiddenByAnotherRun'
    BY <2>1, <2>2 DEF Claims, StoredBySucceeded, HiddenByAnotherRun
  <2>5. \A i \in 1 .. MaxRuns : i # runs + 1 => jobs'[i] = jobs[i]
    BY <1>1 DEF StartRun, TypeOK
  <2>6. Unstarted'
    BY <2>1, <2>5 DEF Claims, Unstarted
  <2> QED
    BY <2>3, <2>4, <2>6 DEF Claims
<1>2. CASE Reprocess \/ (\E o \in objects : Collect(o)) \/ UNCHANGED vars
  BY <1>2 DEF Reprocess, Collect, vars, Claims, OneHolder, SucceededIsLeft, WritingMatches,
    StoredBySucceeded, Unstarted, HiddenByAnotherRun, Held, Matches
<1> QED
  <2>1. ASSUME NEW w \in Workers, Write(w) PROVE Claims'
    <3>1. CASE Store(w, FALSE) /\ workers' = [workers EXCEPT ![w] = Resting]
      <4>1. workers'[w] = Resting
        BY <3>1 DEF TypeOK
      <4> QED
        BY <2>1, <3>1, <4>1, EndClaims
    <3>2. CASE Store(w, TRUE)
      BY <2>1, <3>2, EndClaims
    <3>3. CASE UNCHANGED <<attachment, jobs, authors>>
      BY <2>1, <3>3, MoveClaims
    <3> QED
      BY <2>1, <3>1, <3>2, <3>3 DEF Write
  <2> QED
    BY <1>1, <1>2, <2>1, MoveClaims, ClaimClaims, EndClaims DEF Next, Work

-------------------------------------------------------------------------------
(* Results *)

LEMMA StepIInv == IInv /\ [Next]_vars => IInv'
BY TypeStep, ObjectsStep, ClaimsStep DEF IInv, Objects, Claims

\* The invariants together with what each call has in hand are inductive.
THEOREM Invariance == Spec => []IInv
BY InitIInv, StepIInv, PTL DEF Spec

\* For any workers, runs, attempts and incidents every variable keeps its type.
THEOREM TypeCorrect == Spec => []TypeOK
BY Invariance, PTL DEF IInv

\* The object an attachment refers to is in the store: a call keeps what it put
\* from the collector until the row refers to it
\* (object_gc_storage.py, attachment_processing_storage.py).
THEOREM KeptIsThereHolds == Spec => []KeptIsThere
BY Invariance, PTL DEF IInv

\* A stored attachment is called failed by a job of another run only, or by its
\* own when the reply to its commit was lost: of two calls for a job one has its
\* generation, and a job that stored and heard so is not claimed again
\* (attachment_processing_storage.py).
THEOREM HiddenByAnotherRunHolds == Spec => []HiddenByAnotherRun
BY Invariance, PTL DEF IInv

-----------------------------------------------------------------------------
(* Sizes and redirects of a fetch *)

LEMMA Largest ==
  ASSUME NEW N \in Nat, NEW T \in SUBSET (0 .. N), T # {}
  PROVE  \E n \in T : \A m \in T : m <= n
<1> SUFFICES ASSUME \A n \in T : \E m \in T : n < m PROVE FALSE
  OBVIOUS
<1> DEFINE Good == {k \in 0 .. N : \E n \in T : k <= n}
<1>1. 0 \in Good
  <2>1. PICK n : n \in T
    OBVIOUS
  <2>2. 0 <= n
    BY <2>1
  <2> QED
    BY <2>1, <2>2
<1>2. ASSUME NEW k \in 1 .. N, k - 1 \in Good PROVE k \in Good
  <2>1. PICK n \in T : k - 1 <= n
    BY <1>2
  <2>2. PICK m \in T : n < m
    OBVIOUS
  <2>3. k <= m
    BY <2>1, <2>2
  <2> QED
    BY <2>3
<1>3. N \in Good
  <2> HIDE DEF Good
  <2>1. 0 .. N \subseteq Good
    BY <1>1, <1>2, UpTo
  <2> QED
    BY <2>1
<1>4. PICK n \in T : N <= n
  BY <1>3
<1>5. PICK m \in T : n < m
  OBVIOUS
<1> QED
  BY <1>4, <1>5

-----------------------------------------------------------------------------
(* What is passed on of a body *)

TotalOf(total, chunks, n) == IF n = 0 THEN 0 ELSE total[n - 1] + chunks[n]

LEMMA PassedIsBounded ==
  ASSUME NEW chunks \in Seq(Nat), NEW limit \in Nat
  PROVE  /\ Passed(chunks, limit).all \in BOOLEAN
         /\ Passed(chunks, limit).bytes \in Nat /\ Passed(chunks, limit).bytes <= limit
<1> DEFINE N == Len(chunks)
           Meets(f) == f = [n \in 0 .. N |-> TotalOf(f, chunks, n)]
           total == CHOOSE f : Meets(f)
<1>0. N \in Nat
  OBVIOUS
<1>1. \E f : Meets(f)
  <2>1. PICK step : step = [n \in 1 .. N |-> [s \in Nat |-> s + chunks[n]]]
    OBVIOUS
  <2>2. Stepwise(step, N, Nat)
    <3>1. \A n \in 1 .. N : chunks[n] \in Nat
      OBVIOUS
    <3>2. \A n \in 1 .. N : [s \in Nat |-> s + chunks[n]] \in [Nat -> Nat]
      BY <3>1
    <3> HIDE DEF N
    <3> QED
      BY <2>1, <3>2 DEF Stepwise
  <2> HIDE DEF N
  <2>3. \E f : Recurs(f, N, Nat, 0, step)
    BY <1>0, <2>2, Recursion
  <2>4. PICK f : Recurs(f, N, Nat, 0, step)
    BY <2>3
  <2>5. ASSUME NEW n \in 0 .. N PROVE f[n] = TotalOf(f, chunks, n)
    <3>1. CASE n = 0
      BY <2>4, <3>1 DEF Recurs, TotalOf
    <3>2. CASE n # 0
      <4>1. n \in 1 .. N /\ n - 1 \in 0 .. N
        BY <1>0, <3>2
      <4>2. f[n - 1] \in Nat /\ f[n] = step[n][f[n - 1]]
        BY <2>4, <3>2, <4>1 DEF Recurs
      <4>3. step[n][f[n - 1]] = f[n - 1] + chunks[n]
        BY <2>1, <4>1, <4>2
      <4> QED
        BY <3>2, <4>2, <4>3 DEF TotalOf
    <3> QED
      BY <3>1, <3>2
  <2>6. f = [n \in 0 .. N |-> f[n]]
    BY <2>4 DEF Recurs
  <2> QED
    BY <2>5, <2>6
<1>2. Meets(total)
  BY <1>1, Zenon
<1> DEFINE fits == {n \in 0 .. N : total[n] <= limit}
           most == CHOOSE n \in fits : \A m \in fits : m <= n
<1>3. Passed(chunks, limit) = [all |-> N \in fits, bytes |-> total[most]]
  BY DEF Passed, TotalOf
<1> HIDE DEF total
<1>4. \A n \in 0 .. N : total[n] = TotalOf(total, chunks, n)
  BY <1>2
<1>5. \A n \in 0 .. N : total[n] \in Nat
  <2> DEFINE Good == {n \in 0 .. N : total[n] \in Nat}
  <2>1. 0 \in Good
    <3>1. 0 \in 0 .. N /\ total[0] = TotalOf(total, chunks, 0)
      BY <1>0, <1>4
    <3> QED
      BY <3>1 DEF TotalOf
  <2>2. ASSUME NEW n \in 1 .. N, n - 1 \in Good PROVE n \in Good
    <3>1. total[n - 1] \in Nat /\ n \in 0 .. N /\ chunks[n] \in Nat /\ n # 0
      BY <2>2
    <3>2. total[n] = TotalOf(total, chunks, n)
      BY <1>4, <3>1
    <3>3. total[n] \in Nat
      BY <3>1, <3>2 DEF TotalOf
    <3> QED
      BY <3>1, <3>3
  <2>3. 0 .. N \subseteq Good
    <3> HIDE DEF Good, N
    <3> QED
      BY <1>0, <2>1, <2>2, UpTo
  <2> QED
    BY <2>3
<1>6. 0 \in fits /\ fits \in SUBSET (0 .. N)
  <2>1. 0 \in 0 .. N /\ total[0] = 0
    BY <1>0, <1>4 DEF TotalOf
  <2> QED
    BY <2>1
<1>7. most \in fits
  <2> HIDE DEF fits, N
  <2>1. \E n \in fits : \A m \in fits : m <= n
    BY <1>0, <1>6, Largest
  <2> QED
    BY <2>1
<1>8. total[most] \in Nat /\ total[most] <= limit
  <2> HIDE DEF most
  <2> QED
    BY <1>5, <1>7
<1> QED
  BY <1>3, <1>8

-----------------------------------------------------------------------------
(* Where redirects lead *)

TargetOf(after, web, url, n) == IF n = 0 THEN {url} ELSE Onward(web, after[n - 1])

Chain(after, web, url) ==
  \A n \in 0 .. MaxRedirects :
    after[n] \in SUBSET Urls /\ after[n] = TargetOf(after, web, url, n)

LEMMA TargetIs ==
  ASSUME NEW web, NEW url \in Urls
  PROVE  Chain(Target(web, url), web, url)
<1> DEFINE N == MaxRedirects
           S == SUBSET Urls
           Meets(f) == f = [n \in 0 .. N |-> TargetOf(f, web, url, n)]
           after == CHOOSE f : Meets(f)
<1>0. N \in Nat /\ {url} \in S /\ \A urls : Onward(web, urls) \in S
  BY SafeFetchAssumption DEF Onward
<1>1. \E f : Meets(f)
  <2>1. PICK step : step = [n \in 1 .. N |-> [urls \in S |-> Onward(web, urls)]]
    OBVIOUS
  <2>2. Stepwise(step, N, S)
    <3>2. [urls \in S |-> Onward(web, urls)] \in [S -> S]
      <4> HIDE DEF S
      <4> QED
        BY <1>0
    <3> HIDE DEF N, S
    <3> QED
      BY <2>1, <3>2 DEF Stepwise
  <2> HIDE DEF N, S
  <2>4. PICK f : Recurs(f, N, S, {url}, step)
    BY <1>0, <2>2, Recursion
  <2>5. ASSUME NEW n \in 0 .. N PROVE f[n] = TargetOf(f, web, url, n)
    <3>1. CASE n = 0
      BY <2>4, <3>1 DEF Recurs, TargetOf
    <3>2. CASE n # 0
      <4>1. n \in 1 .. N /\ n - 1 \in 0 .. N
        BY <1>0, <3>2
      <4>2. f[n - 1] \in S /\ f[n] = step[n][f[n - 1]]
        BY <2>4, <3>2, <4>1 DEF Recurs
      <4>3. step[n][f[n - 1]] = Onward(web, f[n - 1])
        BY <2>1, <4>1, <4>2
      <4> QED
        BY <3>2, <4>2, <4>3 DEF TargetOf
    <3> QED
      BY <3>1, <3>2
  <2>6. f = [n \in 0 .. N |-> f[n]]
    BY <2>4 DEF Recurs
  <2> QED
    BY <2>5, <2>6
<1>2. Meets(after)
  BY <1>1, Zenon
<1>3. Target(web, url) = after
  BY DEF Target, TargetOf
<1> HIDE DEF after
<1>4. \A n \in 0 .. N : after[n] = TargetOf(after, web, url, n)
  BY <1>2
<1>5. \A n \in 0 .. N : after[n] \in S
  BY <1>0, <1>4 DEF TargetOf
<1> QED
  BY <1>3, <1>4, <1>5 DEF Chain

\* The chain from a page that redirects is that of the page it leads to, one later.
LEMMA TargetsShift ==
  ASSUME NEW web, NEW url \in Urls, NEW to \in Urls, Onward(web, {url}) = {to}
  PROVE  \A n \in 1 .. MaxRedirects : Target(web, url)[n] = Target(web, to)[n - 1]
<1> DEFINE A == Target(web, url)
           B == Target(web, to)
           Good == {n \in 0 .. MaxRedirects : n # 0 => A[n] = B[n - 1]}
<1>0. MaxRedirects \in Nat
  BY SafeFetchAssumption
<1>1. Chain(A, web, url) /\ Chain(B, web, to)
  BY TargetIs
<1> HIDE DEF A, B
<1>2. 0 \in Good
  BY <1>0
<1>3. ASSUME NEW n \in 1 .. MaxRedirects, n - 1 \in Good PROVE n \in Good
  <2>1. n \in 0 .. MaxRedirects /\ n - 1 \in 0 .. MaxRedirects /\ n # 0
    BY <1>0
  <2>2. A[n] = Onward(web, A[n - 1])
    BY <2>1, <1>1 DEF TargetOf, Chain
  <2>3. CASE n = 1
    <3>1. 0 \in 0 .. MaxRedirects
      BY <1>0
    <3>2. A[0] = {url}
      BY <1>1, <3>1 DEF TargetOf, Chain
    <3>3. B[0] = {to}
      BY <1>1, <3>1 DEF TargetOf, Chain
    <3> QED
      BY <2>1, <2>2, <2>3, <3>2, <3>3
  <2>4. CASE n # 1
    <3>1. n - 1 # 0 /\ (n - 1) - 1 = n - 2
      BY <2>1, <2>4
    <3>2. A[n - 1] = B[n - 2]
      BY <1>3, <3>1
    <3>3. B[n - 1] = Onward(web, B[n - 2])
      BY <2>1, <3>1, <1>1 DEF TargetOf, Chain
    <3> QED
      BY <2>1, <2>2, <3>2, <3>3
  <2> QED
    BY <2>3, <2>4
<1>4. 0 .. MaxRedirects \subseteq Good
  <2> HIDE DEF Good
  <2> QED
    BY <1>0, <1>2, <1>3, UpTo
<1>5. \A n \in 1 .. MaxRedirects : n \in 0 .. MaxRedirects /\ n # 0
  BY <1>0
<1>6. \A n \in 1 .. MaxRedirects : A[n] = B[n - 1]
  BY <1>4, <1>5
<1> QED
  BY <1>6 DEF A, B

\* The chain from a page that leads nowhere ends.
LEMMA TargetsEnd ==
  ASSUME NEW web, NEW url \in Urls, Onward(web, {url}) = {}
  PROVE  \A n \in 1 .. MaxRedirects : Target(web, url)[n] = {}
<1> DEFINE A == Target(web, url)
           Good == {n \in 0 .. MaxRedirects : n # 0 => A[n] = {}}
<1>0. MaxRedirects \in Nat
  BY SafeFetchAssumption
<1>1. Chain(A, web, url)
  BY TargetIs
<1> HIDE DEF A
<1>2. 0 \in Good
  BY <1>0
<1>3. ASSUME NEW n \in 1 .. MaxRedirects, n - 1 \in Good PROVE n \in Good
  <2>1. n \in 0 .. MaxRedirects /\ n - 1 \in 0 .. MaxRedirects /\ n # 0
    BY <1>0
  <2>2. A[n] = Onward(web, A[n - 1])
    BY <2>1, <1>1 DEF TargetOf, Chain
  <2>3. A[0] = {url}
    BY <1>0, <1>1 DEF TargetOf, Chain
  <2>4. Onward(web, {}) = {}
    BY DEF Onward
  <2>5. A[n - 1] = {url} \/ A[n - 1] = {}
    BY <1>3, <2>1, <2>3
  <2> QED
    BY <2>1, <2>2, <2>4, <2>5
<1>4. 0 .. MaxRedirects \subseteq Good
  <2> HIDE DEF Good
  <2> QED
    BY <1>0, <1>2, <1>3, UpTo
<1>5. \A n \in 1 .. MaxRedirects : n \in 0 .. MaxRedirects /\ n # 0
  BY <1>0
<1>6. \A n \in 1 .. MaxRedirects : A[n] = {}
  BY <1>4, <1>5
<1> QED
  BY <1>6 DEF A

\* A fetch from some URL with at most m redirects ends well: Reaches, with m for MaxRedirects.
BodyFits(page, limit) ==
  /\ page.kind = "body" /\ Passed(page.chunks, limit).all
  /\ page.declared = Undeclared \/ page.declared \in 0 .. limit

AllValid(web, after, n) == \A k \in 0 .. n : \A v \in after[k] : web[v].valid

ReachedIn(web, url, limit, m) ==
  \E n \in 0 .. m : /\ AllValid(web, Target(web, url), n)
                    /\ \E u \in Target(web, url)[n] : BodyFits(web[u], limit)

\* A page that may not be requested is not reached past.
LEMMA InvalidEnds ==
  ASSUME NEW web, NEW url \in Urls, NEW limit, NEW m \in 0 .. MaxRedirects, ~web[url].valid
  PROVE  ~ReachedIn(web, url, limit, m)
<1>1. Target(web, url)[0] = {url}
  <2>1. Chain(Target(web, url), web, url) /\ 0 \in 0 .. MaxRedirects
    BY SafeFetchAssumption, TargetIs
  <2> QED
    BY <2>1 DEF Chain, TargetOf
<1>2. \A n \in 0 .. m : 0 \in 0 .. n /\ ~AllValid(web, Target(web, url), n)
  BY <1>1 DEF AllValid
<1> QED
  BY <1>2 DEF ReachedIn

\* A page that redirects nowhere is reached if it is a body that fits.
LEMMA LastIsReached ==
  ASSUME NEW web, NEW url \in Urls, NEW limit, NEW m \in 0 .. MaxRedirects, web[url].valid,
         Onward(web, {url}) = {}
  PROVE  ReachedIn(web, url, limit, m) <=> BodyFits(web[url], limit)
<1> DEFINE T == Target(web, url)
<1>1. T[0] = {url}
  <2>1. Chain(T, web, url) /\ 0 \in 0 .. MaxRedirects
    BY SafeFetchAssumption, TargetIs
  <2> QED
    BY <2>1 DEF Chain, TargetOf
<1>2. \A n \in 1 .. MaxRedirects : T[n] = {}
  BY TargetsEnd
<1>3. \A n \in 0 .. m : n = 0 \/ n \in 1 .. MaxRedirects
  BY SafeFetchAssumption
<1> HIDE DEF T
<1>4. 0 \in 0 .. m /\ AllValid(web, T, 0)
  BY <1>1 DEF AllValid
<1>5. ASSUME ReachedIn(web, url, limit, m) PROVE BodyFits(web[url], limit)
  <2>1. PICK n \in 0 .. m : \E u \in T[n] : BodyFits(web[u], limit)
    BY <1>5 DEF ReachedIn, T
  <2> QED
    BY <1>1, <1>2, <1>3, <2>1
<1>6. ASSUME BodyFits(web[url], limit) PROVE ReachedIn(web, url, limit, m)
  <2>1. \E u \in T[0] : BodyFits(web[u], limit)
    BY <1>1, <1>6
  <2> QED
    BY <1>4, <2>1 DEF ReachedIn, T
<1> QED
  BY <1>5, <1>6

\* A page that redirects is reached past if the page it leads to is, with one redirect less.
LEMMA NextIsReached ==
  ASSUME NEW web, NEW url \in Urls, NEW to \in Urls, NEW limit, NEW m \in 0 .. MaxRedirects,
         web[url].valid, web[url].kind # "body", Onward(web, {url}) = {to}
  PROVE  ReachedIn(web, url, limit, m) <=> m # 0 /\ ReachedIn(web, to, limit, m - 1)
<1> DEFINE T == Target(web, url)
           U == Target(web, to)
<1>1. T[0] = {url}
  <2>1. Chain(T, web, url) /\ 0 \in 0 .. MaxRedirects
    BY SafeFetchAssumption, TargetIs
  <2> QED
    BY <2>1 DEF Chain, TargetOf
<1>2. \A n \in 1 .. MaxRedirects : T[n] = U[n - 1]
  BY TargetsShift
<1> HIDE DEF T, U
<1>3. \A n \in 1 .. m : /\ n \in 1 .. MaxRedirects /\ n - 1 \in 0 .. (m - 1)
                        /\ T[n] = U[n - 1]
  BY <1>2, SafeFetchAssumption
<1>4. ASSUME NEW n \in 1 .. m PROVE AllValid(web, T, n) <=> AllValid(web, U, n - 1)
  <2>1. \A k \in 0 .. n : k = 0 \/ (k \in 1 .. m /\ k - 1 \in 0 .. (n - 1))
    OBVIOUS
  <2>2. \A k \in 0 .. (n - 1) : k + 1 \in 0 .. n /\ k + 1 \in 1 .. m /\ (k + 1) - 1 = k
    OBVIOUS
  <2>3. \A k \in 0 .. (n - 1) : k + 1 \in 0 .. n /\ T[k + 1] = U[k]
    BY <1>3, <2>2
  <2>4. ASSUME AllValid(web, T, n) PROVE AllValid(web, U, n - 1)
    BY <2>3, <2>4 DEF AllValid
  <2>5. ASSUME AllValid(web, U, n - 1) PROVE AllValid(web, T, n)
    <3>1. \A k \in 0 .. n : \A v \in T[k] : web[v].valid
      BY <1>1, <1>3, <2>1, <2>5 DEF AllValid
    <3> QED
      BY <3>1 DEF AllValid
  <2> QED
    BY <2>4, <2>5
<1>5. ASSUME ReachedIn(web, url, limit, m) PROVE m # 0 /\ ReachedIn(web, to, limit, m - 1)
  <2>1. PICK n \in 0 .. m : /\ AllValid(web, T, n)
                            /\ \E u \in T[n] : BodyFits(web[u], limit)
    BY <1>5 DEF ReachedIn, T
  <2>2. n # 0
    BY <1>1, <2>1 DEF BodyFits
  <2>3. n \in 1 .. m /\ m # 0
    BY <2>2
  <2>4. /\ n - 1 \in 0 .. (m - 1)
        /\ AllValid(web, U, n - 1)
        /\ \E u \in U[n - 1] : BodyFits(web[u], limit)
    BY <1>3, <1>4, <2>1, <2>3
  <2> QED
    BY <2>3, <2>4 DEF ReachedIn, U
<1>6. ASSUME m # 0, ReachedIn(web, to, limit, m - 1) PROVE ReachedIn(web, url, limit, m)
  <2>1. PICK k \in 0 .. (m - 1) : /\ AllValid(web, U, k)
                                  /\ \E u \in U[k] : BodyFits(web[u], limit)
    BY <1>6 DEF ReachedIn, U
  <2>2. k + 1 \in 1 .. m /\ k + 1 \in 0 .. m /\ (k + 1) - 1 = k
    BY <1>6
  <2>3. /\ AllValid(web, T, k + 1)
        /\ \E u \in T[k + 1] : BodyFits(web[u], limit)
    BY <1>3, <1>4, <2>1, <2>2
  <2> QED
    BY <2>2, <2>3 DEF ReachedIn, T
<1> QED
  BY <1>5, <1>6

-----------------------------------------------------------------------------
(* What a fetch brings *)

IsPage(page) ==
  /\ page.valid \in BOOLEAN /\ page.kind \in {"redirect", "body", "error"}
  /\ page.kind = "body" => /\ page.chunks \in Seq(Nat)
                           /\ page.declared \in Int \cup {Undeclared}

IsWeb(web) == \A url \in Urls : IsPage(web[url])

Outcomes == [ok : BOOLEAN, requested : Seq(Urls), bytes : Nat]

\* A hop with m redirects left keeps the limits.
Keeps(web, at, limit, m, result) ==
  /\ result.ok <=> ReachedIn(web, at, limit, m)
  /\ \A i \in 1 .. Len(result.requested) : web[result.requested[i]].valid
  /\ Len(result.requested) <= m + 1
  /\ result.bytes <= limit

\* A page that is not followed.
EndsAs(web, at, limit, result) ==
  /\ result \in Outcomes
  /\ result.requested = IF web[at].valid THEN <<at>> ELSE <<>>
  /\ result.bytes <= limit
  /\ result.ok <=> web[at].valid /\ BodyFits(web[at], limit)

LEMMA HopEnds ==
  ASSUME NEW web, IsWeb(web), NEW at \in Urls, NEW hop \in 0 .. MaxRedirects + 1, NEW rest,
         NEW limit \in Nat,
         ~web[at].valid \/ web[at].kind # "redirect" \/ TooMany(hop) \/ web[at].to \notin Urls
  PROVE  EndsAs(web, at, limit, Hop(web, hop, at, rest, limit))
<1> USE DEF EndsAs
<1> DEFINE page == web[at]
           result == Hop(web, hop, at, rest, limit)
           Ended(ok, bytes) == Outcome(ok, <<at>>, bytes)
<1>0. IsPage(page)
  BY DEF IsWeb
<1>1. <<>> \in Seq(Urls) /\ <<at>> \in Seq(Urls)
  OBVIOUS
<1>2. CASE ~page.valid
  <2>1. result = Outcome(FALSE, <<>>, 0)
    BY <1>2 DEF Hop
  <2> QED
    BY <1>1, <1>2, <2>1 DEF Outcome, Outcomes
<1>3. CASE page.valid /\ page.kind # "body"
  <2>1. result = Ended(FALSE, 0)
    BY <1>0, <1>3 DEF Hop, IsPage
  <2> QED
    BY <1>1, <1>3, <2>1 DEF Outcome, Outcomes, BodyFits
<1>4. CASE page.valid /\ page.kind = "body"
  <2> DEFINE passed == Passed(page.chunks, limit)
  <2>0. page.chunks \in Seq(Nat) /\ page.declared \in Int \cup {Undeclared}
    BY <1>0, <1>4 DEF IsPage
  <2>1. passed.all \in BOOLEAN /\ passed.bytes \in Nat /\ passed.bytes <= limit
    BY <2>0, PassedIsBounded
  <2>2. CASE page.declared # Undeclared /\ (page.declared < 0 \/ page.declared > limit)
    <3>1. result = Ended(FALSE, 0)
      BY <1>4, <2>2 DEF Hop
    <3>2. ~BodyFits(page, limit)
      BY <2>2 DEF BodyFits
    <3> QED
      BY <1>1, <1>4, <3>1, <3>2 DEF Outcome, Outcomes
  <2>3. CASE ~(page.declared # Undeclared /\ (page.declared < 0 \/ page.declared > limit))
    <3>1. result = Ended(passed.all, passed.bytes)
      BY <1>4, <2>3 DEF Hop
    <3>2. page.declared = Undeclared \/ page.declared \in 0 .. limit
      BY <2>0, <2>3, SafeFetchAssumption
    <3>3. BodyFits(page, limit) <=> passed.all
      BY <1>4, <3>2 DEF BodyFits
    <3> HIDE DEF passed
    <3> QED
      BY <1>1, <1>4, <2>1, <3>1, <3>3 DEF Outcome, Outcomes
  <2> QED
    BY <2>2, <2>3
<1> QED
  BY <1>2, <1>3, <1>4

\* A redirect that is followed.
GoesOn(web, at, rest, result) ==
  /\ result \in Outcomes
  /\ result =
       [rest[web[at].to] EXCEPT !.requested = <<at>> \o rest[web[at].to].requested]

LEMMA HopGoesOn ==
  ASSUME NEW web, NEW at \in Urls, NEW hop, NEW rest \in [Urls -> Outcomes], NEW limit,
         web[at].valid, web[at].kind = "redirect", ~TooMany(hop), web[at].to \in Urls
  PROVE  GoesOn(web, at, rest, Hop(web, hop, at, rest, limit))
<1> DEFINE o == rest[web[at].to]
<1>1. Hop(web, hop, at, rest, limit) = [o EXCEPT !.requested = <<at>> \o o.requested]
  BY DEF Hop
<1>2. o \in Outcomes
  OBVIOUS
<1>3. <<at>> \o o.requested \in Seq(Urls)
  BY <1>2 DEF Outcomes
<1> HIDE DEF o
<1>4. [o EXCEPT !.requested = <<at>> \o o.requested] \in Outcomes
  BY <1>2, <1>3 DEF Outcomes
<1> QED
  BY <1>1, <1>4 DEF GoesOn, o

LEMMA HopIsAnOutcome ==
  ASSUME NEW web, IsWeb(web), NEW at \in Urls, NEW hop \in 0 .. MaxRedirects + 1,
         NEW rest \in [Urls -> Outcomes], NEW limit \in Nat
  PROVE  Hop(web, hop, at, rest, limit) \in Outcomes
BY HopEnds, HopGoesOn DEF EndsAs, GoesOn

LEMMA LastHop ==
  ASSUME NEW web, NEW at, NEW hop, NEW limit, TooMany(hop)
  PROVE  \A one, other : Hop(web, hop, at, one, limit) = Hop(web, hop, at, other, limit)
BY DEF Hop

LEMMA HopKeeps ==
  ASSUME NEW web, IsWeb(web), NEW at \in Urls, NEW hop \in 0 .. MaxRedirects,
         NEW rest, NEW limit \in Nat,
         ~TooMany(hop) => /\ rest \in [Urls -> Outcomes]
                          /\ \A to \in Urls : Keeps(web, to, limit, MaxRedirects - (hop + 1), rest[to])
  PROVE  Keeps(web, at, limit, MaxRedirects - hop, Hop(web, hop, at, rest, limit))
<1> DEFINE page == web[at]
           m == MaxRedirects - hop
           result == Hop(web, hop, at, rest, limit)
<1>0. MaxRedirects \in Nat /\ m \in 0 .. MaxRedirects /\ (TooMany(hop) <=> m = 0)
  BY SafeFetchAssumption DEF TooMany
<1>1. CASE ~page.valid
  <2>0. EndsAs(web, at, limit, result)
    BY <1>0, <1>1, HopEnds
  <2>1. /\ result \in Outcomes /\ result.requested = <<>> /\ result.bytes <= limit /\ ~result.ok
    BY <1>0, <1>1, <2>0 DEF EndsAs
  <2>2. ~ReachedIn(web, at, limit, m)
    BY <1>0, <1>1, InvalidEnds
  <2> HIDE DEF result, m
  <2> QED
    BY <1>0, <2>1, <2>2 DEF Keeps, m, result
<1>2. CASE page.valid /\ (page.kind # "redirect" \/ page.to \notin Urls)
  <2>0. EndsAs(web, at, limit, result)
    BY <1>0, <1>2, HopEnds
  <2>1. /\ result \in Outcomes /\ result.requested = <<at>> /\ result.bytes <= limit
        /\ result.ok <=> BodyFits(page, limit)
    BY <1>0, <1>2, <2>0 DEF EndsAs
  <2>2. Onward(web, {at}) = {}
    BY <1>2 DEF Onward
  <2>3. ReachedIn(web, at, limit, m) <=> BodyFits(page, limit)
    BY <1>0, <1>2, <2>2, LastIsReached
  <2> HIDE DEF result, m
  <2>4. Len(<<at>>) = 1 /\ <<at>>[1] = at
    OBVIOUS
  <2>5. \A i \in 1 .. Len(result.requested) : web[result.requested[i]].valid
    BY <1>2, <2>1, <2>4
  <2>6. Len(result.requested) <= m + 1
    BY <1>0, <2>1, <2>4
  <2> QED
    BY <2>1, <2>3, <2>5, <2>6 DEF Keeps, m, result
<1>3. CASE page.valid /\ page.kind = "redirect" /\ page.to \in Urls
  <2>1. Onward(web, {at}) = {page.to}
    BY <1>3 DEF Onward
  <2>2. ReachedIn(web, at, limit, m) <=> m # 0 /\ ReachedIn(web, page.to, limit, m - 1)
    BY <1>0, <1>3, <2>1, NextIsReached
  <2>3. CASE TooMany(hop)
    <3>0. EndsAs(web, at, limit, result)
      BY <1>0, <1>3, <2>3, HopEnds
    <3>1. /\ result \in Outcomes /\ result.requested = <<at>> /\ result.bytes <= limit
          /\ result.ok <=> BodyFits(page, limit)
      BY <1>0, <1>3, <2>3, <3>0 DEF EndsAs
    <3>2. ~result.ok /\ ~ReachedIn(web, at, limit, m)
      BY <1>0, <1>3, <2>2, <2>3, <3>1 DEF BodyFits
    <3> HIDE DEF result, m
    <3>4. Len(<<at>>) = 1 /\ <<at>>[1] = at
      OBVIOUS
    <3>5. \A i \in 1 .. Len(result.requested) : web[result.requested[i]].valid
      BY <1>3, <3>1, <3>4
    <3>6. Len(result.requested) <= m + 1
      BY <1>0, <3>1, <3>4
    <3> QED
      BY <3>1, <3>2, <3>5, <3>6 DEF Keeps, m, result
  <2>4. CASE ~TooMany(hop)
    <3> DEFINE o == rest[page.to]
               q == o.requested
    <3>1. rest \in [Urls -> Outcomes] /\ Keeps(web, page.to, limit, m - 1, o)
      BY <1>0, <1>3, <2>4
    <3>2. o \in Outcomes /\ q \in Seq(Urls) /\ Len(q) \in Nat
      BY <1>3, <3>1 DEF Outcomes
    <3>0. GoesOn(web, at, rest, result)
      BY <1>3, <2>4, <3>1, HopGoesOn
    <3>3. result = [o EXCEPT !.requested = <<at>> \o q]
      BY <3>0 DEF GoesOn
    <3> HIDE DEF o, m
    <3>4. result.ok = o.ok /\ result.bytes = o.bytes /\ result.requested = <<at>> \o q
      BY <3>2, <3>3 DEF Outcomes
    <3>5. /\ Len(<<at>> \o q) = Len(q) + 1
          /\ \A i \in 1 .. Len(<<at>> \o q) :
               (<<at>> \o q)[i] = IF i = 1 THEN at ELSE q[i - 1]
      BY <3>2
    <3>6. /\ o.ok <=> ReachedIn(web, page.to, limit, m - 1)
          /\ \A i \in 1 .. Len(q) : web[q[i]].valid
          /\ Len(q) <= (m - 1) + 1
          /\ o.bytes <= limit
      BY <3>1 DEF Keeps
    <3> HIDE DEF result
    <3>7. result.ok <=> ReachedIn(web, at, limit, m)
      BY <1>0, <2>2, <2>4, <3>4, <3>6
    <3>8. ASSUME NEW i \in 1 .. Len(result.requested) PROVE web[result.requested[i]].valid
      <4>1. CASE i = 1
        BY <1>3, <3>4, <3>5, <4>1
      <4>2. CASE i # 1
        <5>1. i - 1 \in 1 .. Len(q)
          BY <3>2, <3>4, <3>5, <4>2
        <5> QED
          BY <3>4, <3>5, <3>6, <4>2, <5>1
      <4> QED
        BY <4>1, <4>2
    <3>9. Len(result.requested) <= m + 1
      BY <1>0, <3>2, <3>4, <3>5, <3>6
    <3> QED
      BY <3>4, <3>6, <3>7, <3>8, <3>9 DEF Keeps, m, result
  <2> QED
    BY <2>3, <2>4
<1> QED
  BY <1>0, <1>1, <1>2, <1>3 DEF IsWeb, IsPage

\* What each hop brings is a recursion from the last hop, which needs no other.
HopsOf(from, web, limit) ==
  \A hop \in 0 .. MaxRedirects + 1 :
    from[hop] = [at \in Urls |-> Hop(web, hop, at, from[hop + 1], limit)]

LEMMA FetchedIs ==
  ASSUME NEW web, IsWeb(web), NEW url \in Urls, NEW asked, Limit(asked) \in Nat
  PROVE  \E from : HopsOf(from, web, Limit(asked)) /\ Fetched(web, url, asked) = from[0][url]
<1> DEFINE N == MaxRedirects + 1
           limit == Limit(asked)
           S == [Urls -> Outcomes]
           hops(hop, rest) == [at \in Urls |-> Hop(web, hop, at, rest, limit)]
           Meets(f) == f = [hop \in 0 .. N |-> hops(hop, f[hop + 1])]
           from == CHOOSE f : Meets(f)
<1>0. N \in Nat /\ MaxRedirects \in Nat
  BY SafeFetchAssumption
<1>1. \A hop \in 0 .. N : \A rest \in S : hops(hop, rest) \in S
  <2> SUFFICES ASSUME NEW hop \in 0 .. N, NEW rest \in S PROVE hops(hop, rest) \in S
    OBVIOUS
  <2>1. \A at \in Urls : Hop(web, hop, at, rest, limit) \in Outcomes
    BY HopIsAnOutcome
  <2> QED
    BY <2>1
<1>2. \A one, other : hops(N, one) = hops(N, other)
  <2>1. TooMany(N)
    BY <1>0 DEF TooMany
  <2> QED
    BY <2>1, LastHop
<1>3. \E f : Meets(f)
  <2>0. PICK zero : zero = [at \in Urls |-> Outcome(FALSE, <<>>, 0)]
    OBVIOUS
  <2>1. zero \in S
    BY <2>0 DEF Outcome, Outcomes
  <2>2. PICK start : start = hops(N, zero)
    OBVIOUS
  <2>3. N \in 0 .. N
    BY <1>0
  <2>4. start \in S
    BY <1>1, <2>1, <2>2, <2>3
  <2>5. PICK step : step = [n \in 1 .. N |-> [rest \in S |-> hops(N - n, rest)]]
    OBVIOUS
  <2> HIDE DEF hops, S
  <2>6. Stepwise(step, N, S)
    <3> HIDE DEF N
    <3>1. \A n \in 1 .. N : N - n \in 0 .. N
      BY <1>0
    <3>2. \A n \in 1 .. N : [rest \in S |-> hops(N - n, rest)] \in [S -> S]
      BY <1>1, <3>1
    <3> QED
      BY <2>5, <3>2 DEF Stepwise
  <2>7. PICK f : Recurs(f, N, S, start, step)
    <3> HIDE DEF N
    <3> QED
      BY <1>0, <2>4, <2>6, Recursion
  <2> DEFINE g == [hop \in 0 .. N |-> f[N - hop]]
  <2>8. ASSUME NEW hop \in 0 .. N PROVE g[hop] = hops(hop, g[hop + 1])
    <3> HIDE DEF N
    <3>1. g[hop] = f[N - hop] /\ N - hop \in 0 .. N
      BY <1>0
    <3>2. CASE hop = N
      <4>1. f[N - hop] = start
        BY <1>0, <2>7, <3>2 DEF Recurs
      <4> HIDE DEF g
      <4> QED
        BY <1>2, <2>2, <3>1, <3>2, <4>1
    <3>3. CASE hop # N
      <4>1. /\ N - hop \in 1 .. N /\ N - (N - hop) = hop /\ N - hop # 0
            /\ hop + 1 \in 0 .. N /\ (N - hop) - 1 = N - (hop + 1)
        BY <1>0, <3>3
      <4>2. g[hop + 1] = f[(N - hop) - 1]
        BY <4>1
      <4>3. f[N - hop] = step[N - hop][f[(N - hop) - 1]] /\ f[(N - hop) - 1] \in S
        BY <1>0, <2>7, <3>1, <4>1 DEF Recurs
      <4> HIDE DEF g
      <4>4. step[N - hop][f[(N - hop) - 1]] = hops(N - (N - hop), f[(N - hop) - 1])
        BY <2>5, <4>1, <4>3
      <4> QED
        BY <3>1, <4>1, <4>2, <4>3, <4>4
    <3> QED
      BY <3>2, <3>3
  <2>9. Meets(g)
    <3> HIDE DEF N
    <3>1. g = [hop \in 0 .. N |-> g[hop]]
      OBVIOUS
    <3> HIDE DEF g
    <3> QED
      BY <2>8, <3>1
  <2> QED
    BY <2>9
<1>4. Meets(from)
  BY <1>3, Zenon
<1>5. Fetched(web, url, asked) = from[0][url]
  BY DEF Fetched
<1> HIDE DEF from
<1>6. \A hop \in 0 .. N : from[hop] = hops(hop, from[hop + 1])
  BY <1>4
<1>7. HopsOf(from, web, limit)
  BY <1>6 DEF HopsOf
<1> QED
  BY <1>5, <1>7

LEMMA FetchKeeps ==
  ASSUME NEW web, IsWeb(web), NEW url \in Urls, NEW asked, Limit(asked) \in Nat
  PROVE  /\ Fetched(web, url, asked) \in Outcomes
         /\ Keeps(web, url, Limit(asked), MaxRedirects, Fetched(web, url, asked))
<1> DEFINE M == MaxRedirects
           N == MaxRedirects + 1
           limit == Limit(asked)
<1>0. M \in Nat /\ N \in Nat /\ TooMany(N) /\ TooMany(M)
  BY SafeFetchAssumption DEF TooMany
<1>1. PICK from : HopsOf(from, web, limit) /\ Fetched(web, url, asked) = from[0][url]
  BY FetchedIs
<1>2. \A hop \in 0 .. N : from[hop] = [at \in Urls |-> Hop(web, hop, at, from[hop + 1], limit)]
  BY <1>1 DEF HopsOf
<1> DEFINE Typed(hop) == from[hop] \in [Urls -> Outcomes]
           Kept(hop) == \A at \in Urls : Keeps(web, at, limit, M - hop, from[hop][at])
           Good == {n \in 0 .. M : Typed(M - n) /\ Kept(M - n)}
<1>3. ASSUME NEW hop \in 0 .. M, ~TooMany(hop) => Typed(hop + 1) /\ Kept(hop + 1)
      PROVE  Typed(hop) /\ Kept(hop)
  <2>1. hop \in 0 .. N /\ from[hop] = [at \in Urls |-> Hop(web, hop, at, from[hop + 1], limit)]
    BY <1>0, <1>2
  <2>2. ASSUME NEW at \in Urls PROVE Hop(web, hop, at, from[hop + 1], limit) \in Outcomes
    <3>1. CASE TooMany(hop)
      BY <2>1, <3>1, HopEnds DEF EndsAs
    <3>2. CASE ~TooMany(hop)
      BY <1>3, <2>1, <3>2, HopIsAnOutcome
    <3> QED
      BY <3>1, <3>2
  <2>3. ASSUME NEW at \in Urls
        PROVE  Keeps(web, at, limit, M - hop, Hop(web, hop, at, from[hop + 1], limit))
    <3>1. PICK rest : rest = from[hop + 1]
      OBVIOUS
    <3>2. ~TooMany(hop) => /\ rest \in [Urls -> Outcomes]
                           /\ \A to \in Urls : Keeps(web, to, limit, M - (hop + 1), rest[to])
      BY <1>3, <3>1
    <3>3. Keeps(web, at, limit, M - hop, Hop(web, hop, at, rest, limit))
      BY <3>2, HopKeeps
    <3> QED
      BY <3>1, <3>3
  <2>4. Typed(hop)
    BY <2>1, <2>2
  <2>5. Kept(hop)
    BY <2>1, <2>3
  <2> QED
    BY <2>4, <2>5
<1> HIDE DEF Typed, Kept
<1>4. 0 \in Good
  <2>1. M \in 0 .. M /\ M - 0 = M /\ 0 \in 0 .. M
    BY <1>0
  <2>2. Typed(M) /\ Kept(M)
    BY <1>0, <1>3, <2>1
  <2> HIDE DEF M
  <2> QED
    BY <2>1, <2>2
<1>5. ASSUME NEW n \in 1 .. M, n - 1 \in Good PROVE n \in Good
  <2> HIDE DEF M
  <2>1. n \in 0 .. M /\ M - n \in 0 .. M /\ M - (n - 1) = (M - n) + 1
    BY <1>0
  <2>2. Typed(M - (n - 1)) /\ Kept(M - (n - 1))
    BY <1>5
  <2>3. Typed((M - n) + 1) /\ Kept((M - n) + 1)
    BY <2>1, <2>2
  <2>4. Typed(M - n) /\ Kept(M - n)
    BY <1>3, <2>1, <2>3
  <2> QED
    BY <2>1, <2>4
<1>6. M \in Good
  <2> HIDE DEF Good, M
  <2>1. 0 .. M \subseteq Good
    BY <1>0, <1>4, <1>5, UpTo
  <2> QED
    BY <1>0, <2>1
<1>7. Typed(0) /\ Kept(0)
  <2> HIDE DEF M
  <2>1. M - M = 0
    BY <1>0
  <2> QED
    BY <1>6, <2>1
<1>8. M - 0 = M
  BY <1>0
<1> QED
  BY <1>1, <1>7, <1>8 DEF Typed, Kept

\* Whatever the web and the limits: a fetch ends well exactly when it should, requests only
\* what may be requested, follows no more redirects than allowed and passes on no more bytes.
THEOREM FetchesKeepAnyLimits ==
  ASSUME NEW webs, \A web \in webs : IsWeb(web), NEW limits \in SUBSET Nat
  PROVE  FetchKeepsLimits(webs, limits)
<1> SUFFICES ASSUME NEW web \in webs, NEW url \in Urls, NEW asked \in limits
             PROVE  LET result == Fetched(web, url, asked)  limit == Limit(asked) IN
                    /\ result.ok <=> Reaches(web, url, limit)
                    /\ \A i \in DOMAIN result.requested : web[result.requested[i]].valid
                    /\ Len(result.requested) <= MaxRedirects + 1
                    /\ result.bytes <= limit
  BY DEF FetchKeepsLimits
<1> DEFINE result == Fetched(web, url, asked)
           limit == Limit(asked)
<1>1. limit \in Nat /\ IsWeb(web)
  BY SafeFetchAssumption DEF Limit
<1>2. result \in Outcomes /\ Keeps(web, url, limit, MaxRedirects, result)
  BY <1>1, FetchKeeps
<1> HIDE DEF result, limit
<1>3. ReachedIn(web, url, limit, MaxRedirects) <=> Reaches(web, url, limit)
  <2>1. PICK T : T = Target(web, url)
    OBVIOUS
  <2>2. ReachedIn(web, url, limit, MaxRedirects) <=>
          \E n \in 0 .. MaxRedirects : AllValid(web, T, n) /\ \E u \in T[n] : BodyFits(web[u], limit)
    BY <2>1 DEF ReachedIn
  <2>3. Reaches(web, url, limit) <=>
          \E n \in 0 .. MaxRedirects : \E u \in T[n] : AllValid(web, T, n) /\ BodyFits(web[u], limit)
    BY <2>1 DEF Reaches, AllValid, BodyFits
  <2> QED
    BY <2>2, <2>3
<1>4. DOMAIN result.requested = 1 .. Len(result.requested)
  <2>1. result.requested \in Seq(Urls)
    BY <1>2 DEF Outcomes
  <2> QED
    BY <2>1
<1>5. /\ result.ok <=> ReachedIn(web, url, limit, MaxRedirects)
      /\ \A i \in 1 .. Len(result.requested) : web[result.requested[i]].valid
      /\ Len(result.requested) <= MaxRedirects + 1
      /\ result.bytes <= limit
  BY <1>2 DEF Keeps
<1> QED
  BY <1>3, <1>4, <1>5 DEF result, limit

\* A fetch keeps its limits, for any URLs, redirects and sizes.
THEOREM FetchesAreBoundedHolds == Spec => []FetchesAreBounded
<1> DEFINE pages == MCRedirects \cup MCBodies \cup {[valid |-> TRUE, kind |-> "error"]}
<1>1. \A page \in pages : IsPage(page)
  <2>1. \A page \in MCRedirects : IsPage(page)
    BY DEF MCRedirects, IsPage
  <2>2. \A page \in MCBodies : IsPage(page)
    <3> DEFINE some == {<<1>>, <<2, 1>>}
    <3>1. some \subseteq Seq(Nat)
      OBVIOUS
    <3> SUFFICES ASSUME NEW page \in MCBodies PROVE IsPage(page)
      OBVIOUS
    <3>2. /\ page.valid \in BOOLEAN /\ page.kind = "body"
          /\ page.declared \in {Undeclared, 1, 3} /\ page.chunks \in some
      BY DEF MCBodies
    <3>3. page.chunks \in Seq(Nat)
      <4> HIDE DEF some
      <4> QED
        BY <3>1, <3>2
    <3>4. page.declared \in Int \cup {Undeclared}
      BY <3>2
    <3> QED
      BY <3>2, <3>3, <3>4 DEF IsPage
  <2>3. IsPage([valid |-> TRUE, kind |-> "error"])
    BY DEF IsPage
  <2> QED
    BY <2>1, <2>2, <2>3
<1> HIDE DEF pages
<1>2. \A web \in [Urls -> pages] : IsWeb(web)
  BY <1>1 DEF IsWeb
<1>3. {1, 4} \in SUBSET Nat
  OBVIOUS
<1>4. FetchKeepsLimits([Urls -> pages], {1, 4})
  BY <1>2, <1>3, FetchesKeepAnyLimits
<1>5. FetchesAreBounded
  BY <1>4 DEF FetchesAreBounded, FetchesKeepLimits, pages
<1> QED
  BY <1>5, PTL

===============================================================================
