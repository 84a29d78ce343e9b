# 3rd-news: TLA+ models and proofs

3rd-news collects news of a university from parsers and people, has them labelled
by external classifiers, lets editors review them and serves a feed.  This
directory models the parts of `src/` where processes, transactions, messages,
clocks and retries meet, and the algorithms whose results several parts must
agree on.  TLC checks the models on small instances; TLAPS proves the most
important results for every value of the constants.

`L` stands for `src/services/main/lib`, `P` for `L/infra/storage/postgres`.

- [1. The system](#1-the-system)
- [2. Modules and runs](#2-modules-and-runs)
- [3. Classification jobs](#3-classification-jobs) to
  [13. Deployment](#13-deployment): one section per part of the system
- [14. What is proved](#14-what-is-proved)
- [15. Known limits of the code](#15-known-limits-of-the-code)
- [16. Not modelled](#16-not-modelled) and [17. Plan](#17-plan)

## 1. The system

PostgreSQL arbitrates everything.  One image runs as API, outbox publisher,
pipeline worker or index worker; each may have several replicas.  Nodes and
parsers are programs of their own that speak HTTP with the API.

| Component | State it keeps | Operations | Hard behaviour |
|---|---|---|---|
| Classification jobs (`P/pipeline`, `pipeline_worker.py`) | `jobs`, `processing_attempts` | claim, request, mark waiting, apply answer, fail, callback | two slots on one job, late answers, callbacks around time-outs, crashes between transactions |
| Pipeline coordinator (`P/pipeline_coordinator_storage.py`) | parent jobs, `news.current_attempt_id` | start, postpone, start classifiers, finish | several runs for one news, editors acting during a run |
| News lifecycle (`P/news_administration`) | `news`, `news_versions` | edit, transition, reprocess, merge, split | races with the pipeline |
| Attachment jobs (`P/attachment_processing_storage.py`, safe fetcher) | as classification jobs, plus stored objects | claim, fetch, put, extract, apply, fail | late results of superseded runs, objects nobody refers to |
| Outbox publisher (`L/infra/clients/nats/outbox.py`) | `outbox_events` | claim, publish, mark | leases, duplicates |
| Consumer, inbox, dead letters, replay (`L/infra/clients/nats`) | JetStream, `inbox_messages` | handle, nak, dead-letter, ack, replay | redelivery, failure between two acknowledgements |
| Search indexer (`L/infra/clients/search`) | `search_projections`, index and tasks of Meilisearch | claim, put, wait, complete, fail, reindex | rows that move between reading and confirming |
| Delivery API (`feed.py`, `rss.py`, `news_detail.py`, `media.py`) | nothing | barrier, search, recheck, policy | stale aggregates, five routes with one policy |
| Labels (`P/labels`), rematerialization, scoring, examples | opinions, manual decisions, effective labels, jobs with a cursor | record, decide, recompute, chunk | priorities, reads of a catalog that changes, leases lost inside a chunk |
| Submissions, uploads, object collection (`P/submissions`, `upload_administration.py`, `object_gc_storage.py`) | `submissions`, identity keys, `upload_intents`, objects | accept, presign, complete, collect | concurrent duplicates, completion against expiry |
| Accounts, sessions, API keys, login limits (`auth.py`, `AuthAccountRepository`) | users, sessions, keys, `auth_rate_limits` | log in, authenticate, revoke | concurrent guesses, cancelled requests, rights that outlive their row |
| Node SDK and classifier nodes (`packages/python/contracts`, `classifier-ai`, `classifier-regex`) | background tasks, memory of signatures | verify, classify, call back | repeated requests, two clocks, deadlines |
| RSS and TiMe parsers | selection and memory on disk | poll, convert, upload, submit | lost replies, broken items, quotas |
| Taxonomy, catalogs and the corpus tools (`src/tools`) | axes, values, sources; files | plan, apply, group, transfer, sample, evaluate | edits under a running plan |
| Configuration and bootstrap (`configuration_initializer.py`, `docker-compose.yml`) | `bootstrap.json`, a file per container, first rows | make keys, write files, start | interruptions, containers of different ages |
| Web application, quality scripts, raw payload retention | | | section 16 |

Components interact through rows (jobs, news), through outbox events that the
consumer turns into projection requests, through objects in the store, and through
HTTP with nodes, parsers and browsers.

What makes each of them correct, in a sentence: a job takes effect at most once and
ends; an answer reaches only the text it was made for; a run that lost the news
changes nothing, and a news in processing always has a run that will end; an event is
neither lost nor applied twice; the public views show nothing the index has not
confirmed, and they come back; a submission is accepted once, with its file; labels
are what the catalog makes of the opinions, and an editor's word holds; parsers
forget nothing they did not deliver; limits and rights hold whatever the timing; the
stack agrees on its secrets.

## 2. Modules and runs

| Run | Modules | Question |
|---|---|---|
| `classification` | ClassificationJob, RetriedJob (abstract) | does a job take effect once, for its text, and end? |
| `news_pipeline` | NewsPipeline, NewsLifecycle | do a news and its runs ever lose each other? |
| `search` | SearchProjection, ReadPolicy, NewsLifecycle | does the public view tell the truth, and come back? |
| `delivery` | Delivery | are events applied exactly once, replays included? |
| `ingest` | Ingest, IdempotentIngest (abstract) | are submissions idempotent and their files kept? |
| `parsers` | Parsers, IdempotentIngest | does every offered item arrive? |
| `labels` | Labels, Scoring, Examples | do labels agree with catalog and editors? |
| `attachments` | Attachments, SafeFetch | is what a news refers to there? |
| `login_throttle` | LoginThrottle, Principals | do limits and rights hold under concurrency? |
| `node` | ClassifierNode, Proposals | does a node take each request once, and answer in time? |
| `taxonomy` | TaxonomySync, Corpus, Evaluation | do the tools converge, keep edits and work out what they should? |
| `deployment` | Deployment | do all containers agree, however starts were interrupted? |

`IdempotentIngest` is used from both sides: `Ingest` implements it, and `Parsers`
submits to it in place of the intake.  `NewsLifecycle` is shared by the pipeline and
the read policy.  `NewsPipeline` uses children that end (section 3) and
`SearchProjection` runs that end (section 4).  The pure modules (`ReadPolicy`,
`Principals`, `Scoring`, `Examples`, `SafeFetch`, `Proposals`, `Corpus`, `Evaluation`)
translate functions as operators; their properties compare these with an independent
definition over every input of a bounded set, and belong to the run of the module
whose data they work on.

In every model a transaction that locks a row before it reads is one action, as no
other transaction can be seen in between; a call to another process, or a statement
without a lock, is an action of its own.  A crash is a step between two actions, after
which the process is as if it had just started; what the database rolls back is rolled
back.  Where a module does not say otherwise clocks are abstract: a lease or deadline
may pass at any time after it was set, which covers every ratio of the settings.
`Max...` constants bound counters and the number of incidents, edits or faults; the
guards name them.  `CHECK_DEADLOCK FALSE` stands where bounded clients, edits or
clocks run out and the system rightly rests.

## 3. Classification jobs

`ClassificationJob.tla` models one job of kind `classification`.

| Model | Code |
|---|---|
| `job`, `attempts` | rows of `jobs` and `processing_attempts`; an attempt is named by its generation |
| `news` | `news.current_version_id` (as a number) and whether `news.current_attempt_id` still is the run of the job |
| `slots` | local variables of every `run_slot` task, of all replicas |
| `deferred` | attempts the node answered with 202 |
| `callbacks`, `checked` | messages in the network; API calls between their unlocked lookup and their transaction |
| `applied`, `confirmed` | history variables, only read by the properties |

Each transaction locks the job row first and is one action; the HTTP call and the
unlocked lookup of a callback are actions of their own, so every interleaving of slots,
callbacks, editors and clocks is explored.  A callback that fails validation changes
nothing and is not told apart from one that was never sent.  `RetriedJob.tla` is what
callers of the job are promised: a final outcome, a bounded number of tries, one effect
on success and none otherwise.

Run `classification`: two slots, one token, two attempts, one edit.  Two slots are enough
for a slow slot and the one that took the job over; two attempts for a retry; one edit
for an answer about a replaced text.  `OneOpenAttempt`: the two tables tell one story.
`AppliedToItsText`: nothing late reaches the labels of a newer text or run.
`KeepsFairPromise`: the job implements `RetriedJob!FairSpec`, which includes that it ends
and that its effect, once there, stays the only one.

Fairness: every slot polls for ever and each of its calls has a time-out, so each slot is
weakly fair in its steps; leases, retry delays and deadlines pass.  Nothing is assumed of
the node, the network, the editors, or of crashes.

## 4. The runs of a news

`NewsLifecycle.tla` has the operations of the administration API on one row of `news`.
`NewsPipeline.tla` composes it with the coordinator.

| Model | Code |
|---|---|
| `news` | `news.status`, `current_attempt_id` (by its run), `published_at`, `deleted_at` |
| `runs` | parent rows of `jobs` with the stage of their payload |
| `jobs` | their children, reduced to open or an outcome; section 3 models what is inside |
| `missing` | attachments with `object_key IS NULL` |
| `storing` | attachment transactions between their unlocked reading of the news and their commit |
| `labelled` | what `publication_ready` asks of the effective labels |

The coordinator locks the parent and then the news, so `Start`, `StartClassifiers` and
`Finish` are one action each.  A postponed parent only moves its `available_at` and is
therefore not a step.  The labels are one bit, changed by every answer and by `Relabel`.

Run `news_pipeline`: two runs, one attachment, one classifier.  Two runs are enough for
one to supersede the other in either stage; a second child of a kind only waits longer.
`NobodyForgotten`: a news in processing has a run at work on it.
`AutoPublishedIsComplete`: a run publishes only what it owns, with all that the policy
asks for.  `NewsLeavesPipeline`: under weak fairness of the coordinator for each parent
(it serves the one that waited longest) and of each job.

## 5. Search and the public routes

`SearchProjection.tla` follows one news into the index.

| Model | Code |
|---|---|
| `news`, `parents` | status, dates, `revision` (it moves with `visibility_revision`), a run that owns it, waiting parent jobs |
| `events` | announced revisions between the commit of the outbox row and the handler (section 6) |
| `jobs` | pending and running rematerialization jobs, by whether their cursor is before or behind this news |
| `row` | the row of `search_projections` |
| `tasks`, `index` | the task queue and the index of Meilisearch (external): tasks take effect in order |
| `lock`, `workers` | the advisory lock; index workers and reindexes, with their local variables |
| `requests` | requests to the feed: behind the first check of the barrier, behind the second, behind the search |

A worker reads the news, posts, stores the `task_uid`, waits and confirms in transactions
and requests of their own; each is an action, and each may fail or be the last one before
a crash.  `truths` is a history variable: what a request might have counted truthfully
since it passed the barrier.

The barrier (`visibility_ready()`) is two statements.  The first asks whether a
rematerialization job of any news is pending or running (`Ask`), the second whether a
published news is behind its index (`Check`); a job may come between them.  `Schedule` adds
a job with a change of the catalog, a policy or a rule, `Chunk` recomputes this news,
announces it and moves the cursor past it, `Skip` moves the cursor past a news outside the
scope, and `EndJob` is the success of a job that has no news left.

`ReadPolicy.tla` has what five routes decide about one news: the query to Meilisearch and
the recheck of its hits, the SQL of RSS, the detail with its labels and links, and the
media proxy, each with the preset an API key may carry; the byte ranges of the proxy, the
pages of the feed, the taxonomy filters are chosen from, and the list editors work through.

Run `search`: one worker, one reader and one incident: an edit, a change of the catalog,
trouble (an error, a time-out or a crash), a lost reply, a lost lock or a reindex.  It begins
with a news that was just accepted (`Submitted`; default labels and labels of a parser have
moved its revision, so `Accepted` is 3) or with one that is published and indexed at revision
2 (`OnShow`), and the revisions end at 4: the accepted news is processed and published once,
the news on show moves twice while the worker is still busy with what it was.  One incident
puts the row through every state.  A second worker matters only after a lost lock, since
everything else happens under the lock, and the two safety properties except that case; two
workers with two revisions were checked besides, and the proofs hold for any number of both.
`IndexIsCurrent`: while the second check passes, jobs or not, the index holds what it
should.  `FeedTellsTheTruth`: the totals of an answer were true at some moment of the
request.  `AnnouncedIsShown`: unless the news moves on, both checks pass behind every
announced revision and behind every job.  Fairness: the consumer, the task
queue, each worker, the end of runs, the chunks and the end of jobs.  A job whose chunk fails
each time is excluded by this fairness, not by the code (section 15).

`RoutesAgree`: over every
news, stale document, query and principal of two sources, one axis and two values, no
route shows what another refuses, no query widens a preset, ranges are the bytes asked for,
a label that is shown is offered as a filter that finds the news, the list of unlabelled news
agrees with what is shown, and following the cursors reads every match once.  The exceptions the formulas make are explained in section 15.

## 6. Delivery of events

`Delivery.tla` takes an event from its committed row to its handler.

| Model | Code |
|---|---|
| `outbox` | `outbox_events`: `delivered_at`, `owner`, `lease_until` as set or passed, the `permanent:` mark |
| `publishers` | the batch of `publish_batch` and the local variables of `_publish_one` |
| `stream`, `window` | the JetStream stream and its deduplication window (external) |
| `consumers` | `DurableConsumer.run` and the transaction of `DatabaseInboxHandler` |
| `inbox`, `dead` | `inbox_messages`; the stream of dead letters |
| `effects`, `owed` | history: commits of the handler; replays no message was stored for yet |

Time appears in three places.  A lease passes once its owner has no event of it in hand,
or earlier, as an incident (`LeaseOutlived`).  The window passes at any moment; a replay
sets `available_at` behind it, so the event is claimable again only then.  `ack_wait` is
absent: an unacknowledged message may be delivered again at any moment, to the same
consumer or another, which makes a negative acknowledgement a step without effect.
`Room` keeps the stream within `MaxMessages`.

Run `delivery`: a valid and an invalid event, two publishers, two consumers, two
deliveries, three messages, one incident.  Two of each actor are enough for one to work on
behind the other's back; the invalid event takes the path of permanent failures.
`AppliedOnce`: redelivered as it may be, an event has one effect.  `NoReplayLost`: what an
administrator replays is stored again.  `EventsEnd`: every event is delivered or
dead-lettered.  Fairness: publishers and consumers poll for ever; leases and the window
behind a replay pass.  Nothing is assumed of the handler, which may raise each time.

## 7. Intake

`Ingest.tla` has the submissions with their identities, the uploads they attach, and the
collector of unused uploads and lost objects.  `IdempotentIngest.tla` is what a client is
promised: requests that share an identity are one submission, the first is accepted, an
identical repeat is a duplicate, another payload a conflict; while the source is disabled a request
may be declined instead, and leaves no trace.

| Model | Code |
|---|---|
| `rows` | `submissions` with their identity keys, which are unique in the database |
| `handlers` | `SubmissionAcceptance` between its statements; a unique key that is taken makes it wait for the other transaction or find its row |
| `source` | `sources.enabled`, read by a statement of its own behind the lookup of the identities |
| `intents`, `others` | `upload_intents` of one owner: those followed and the number of the rest, for the quota |
| `store` | temporary and final objects of the bucket |
| `completing` | `complete()`: inspect, copy, verify, delete the temporary object, commit |
| `collectors` | a batch of locked intents, and the listing of objects with its grace |

Of the clocks, `due` says that an intent's `expires_at` or retention has passed, `old` that
the 24 hours of the collector have; as requests end within the hour, an object in use does
not grow old (`InUse`).

Run `ingest`: two handlers, three payloads that share identities in different ways, one
upload, two collectors, a quota of one, one incident (crash, failing call, late or wrong
PUT).  Handlers, collectors and the random part of an object's name (`Copies`) are
interchangeable, so TLC looks at one state of each symmetric set.  An object's name is
drawn from those nothing refers to (`Fresh`), as a UUID is.

The lookup of the identities (`Submit`) and the check of the source (`ReadSource`) lock
nothing: between them the same submission may be committed by another handler and the source
be disabled, and then an identical repeat is refused (`declined`) with the 409 of a disabled
source.  `KeepsPromise`: the intake implements the idempotent one, whatever races, crashes and
repeats.  In particular no identical repeat is told that its identity belongs to another
payload, and nothing is declined while the source is enabled.  `AttachedIsKept` and
`CompletedIsKept`: an attached object, or one a client was told is complete, is in the
store with the announced content until its retention ends.

## 8. Parsers

`Parsers.tla` has the loops of the RSS and the TiMe parser; a behaviour is one of either
(`kind`), in front of the intake as `IdempotentIngest` specifies it.

| Model | Code |
|---|---|
| `items` | what a source says of each item: its version, and whether it is wanted |
| `chosen`, `seen` | the files of `json_selection.py`: selected channels, posts remembered |
| `poller` | the poll under way: sources left, the item at hand, what was known when the channel was begun |
| `ready` | the health of the RSS parser |
| `told`, `uploads`, `unused` | answers on the way; uploads made and those no submission took |

The intake takes an item, knows it, refuses it for another payload (409), or declines it
(`Decline`): for ever because of what the item says (422, `Invalid`), or for a while, as an
incident, because of a disabled source (409), its token (401), the rate (429) or an error of
the server.  All but the first two are an `IngestError` to the parser, which does not
remember the item and goes on to the next one.  A lost answer, or a 5xx in its place behind
a commit, ends the poll or not (`ReplyLost`).

Run `parsers`: two sources of three items, a quota of one, three uploads, three incidents
(refusals, failures, edits, crashes, other choices).  The first source begins with an item
the intake always refuses and ends with one that cannot be converted, the first two items
of the second have files: what each does to the next item and to the other source is in the
run.  `SeenIsTaken`: what the TiMe parser passes over from then on, the intake has; no
refusal makes it remember.  `ItemsArrive`: what a chosen source offers is submitted, unless
it fades, is always refused, or is blocked by an item before it; refused items hold up
nothing.  Fairness: polls follow each other, retentions end.  Not excluded is a post with a
file that is refused on each poll (section 15): where such posts repeat (`Loops`), others
with files may find no quota.

## 9. Labels

`Labels.tla` has one axis that accepts one value: opinions and manual decisions, the
effective label, changes of the catalog and the jobs that recompute labels in chunks.

| Model | Code |
|---|---|
| `catalog` | `facets.enabled`, `facet_values.enabled`, policies of the classifiers, revision of the rules |
| `book` | a news' version, its opinions and decisions, `manual_facets` |
| `effective` | `news_effective_labels` with what they were worked out from |
| `tx` | the holder of the news' row, with what it has read so far: `recompute()` reads opinions first, then classifiers and rules |
| `jobs`, `workers` | rematerialization jobs with cursor, owner and lease; the chunk a worker holds |
| `slipped` | history: news whose recompute had read a policy that changed before it committed |

A recompute locks its news first, but reads the catalog in several statements, each of
which sees what is committed by then.  A row that names an axis or a value holds a
`FOR KEY SHARE` lock on it that the administrator's `FOR UPDATE` waits for; a classifier
is named by its slug only, so its policy may change in between (`Slips`).

Run `labels`: two news, two values, one classifier, two workers with chunks of one, two
writes, one change, one incident.  Two news make two chunks, between which a worker can
lose its lease; two writes put an answer beside a decision.  `StaleIsScheduled`: a label
that does not agree with the catalog has a job that will come to its news.  `ManualHolds`:
an editor's decision shows, whatever classifiers answer and the catalog goes through.
`Converges`: in the end every label agrees with the catalog, but for slips.  Fairness:
transactions end and workers poll.

`Scoring.tla` (`ScoresAgree`): the editorial rules, applied in order, give what they mean
however they are listed, over all lists of three rules of one dimension.  `Examples.tla`
(`ExamplesAreRight`): after every history of up to three decisions, edits and copies the
examples a classifier is sent show the editor's last word about the text in force, never
the news itself, gold records, or what no classifier may judge.

## 10. Attachments

`Attachments.tla` follows one attachment that a news refers to by a URL: the jobs of
several runs, the workers, and the collection of objects.  `SafeFetch.tla` is the fetch.

| Model | Code |
|---|---|
| `run`, `runs` | `news.current_attempt_id`; how many were started |
| `attachment` | `object_key`, status and text of the row |
| `jobs` | the attachment job of each run: status, generation, attempts |
| `workers` | calls of `process()`: fetching, putting, extracting, behind the fence, writing, failing |
| `objects`, `puts` | the bucket; every put draws a new key |
| `authors` | history: the run that last stored the attachment, whether it heard so, and the run that gave the status |

The commit of a result is inside the `try` of `process()`, so a write ends in one of three
ways: it is done; it is done and the reply is lost; it is rolled back.  After the last two
the call goes on to `fail()`, which is fenced by the claim of the job and looks neither at
its status nor at the run.

Run `attachments`: two workers, two runs, two attempts, two incidents (crash, lapsed
lease).  `KeptIsThere`: the object an attachment refers to is in the store, against the
collector.  `HiddenByAnotherRun`: a stored attachment is called failed only by a job of
another run than the one that stored it, or by its own when that did not hear of its
commit; that either happens is a limit of the code (section 15).  `JobsEnd`, under fairness of the slots.  `FetchesAreBounded`: over every web
of three URLs no fetch requests an unvalidated URL, follows too many redirects, or passes
on more bytes than its limit, and it reaches what can be reached.

## 11. Accounts

`LoginThrottle.tla` has concurrent logins against one account from several addresses.

| Model | Code |
|---|---|
| `failures` | `auth_rate_limits`: count, start of the window, end of the block, per account and address |
| `request` | a login between its statements: limit checked, queued, hashing, judged |
| `pending`, `threads` | the counter of `verify_password_bounded` and the threads that hash |

Here the clock is a number, since limits are about durations.  Run `login_throttle`: three
interchangeable clients, one address, limit 2, window 3, cooldowns 2 to 4, one slot and one
place in the queue, time up to 5, requests of at most 1, one cancelled request.
`VerifierHolds`: no more threads than slots, those of cancelled requests included, and the
counter is exact.  `GuessesBounded`: however they interleave, clients get no more guesses in
a window than the limit and one each per cooldown that fits, as long as a request takes less
time than the first cooldown, `Pause(0)`: the base, or the maximum if that is less.  No liveness: a login promises
none.  `Principals.tla` (`RightsAreCurrent`), over every request, user, session, key and
token: nobody is let in for more than one of the credentials it brings is good for by the
rows as they are now, no page of another site changes anything, and a revoked key, a session that logged out and an
inactive user are refused from the next request on.

## 12. Nodes and tools

`ClassifierNode.tla` is a node: `verify_message`, the memory of signatures, the answer or
the deferred callback with its own signature, and main's check of it.  Time is counted in
halves of a second, because signatures are dated in whole seconds and deadlines are not;
`node.offset` is the difference of the clocks, `node.life` counts restarts, which empty the
memory.

Run `node`: one request that may reach the node twice, clocks up to one second apart, one
restart; patience, limits and lifetimes of a few halves keep their order in the code:
provider time-out, then signature, then deadline.  `ClocksAssumption` is the environment's
part: clocks differ by no more than the check forgives (short of the half second that
dropping fractions costs), lifetimes are whole seconds, and no post lasts longer than the
longest signature.  `ClassifiedOnce`: one process classifies
a request once, a second time only in the moments the check forgives the clocks.
`SignaturesLast`: no callback is refused for its signature before its deadline.
`AcceptedEnds`: a request answered with 202 ends, even if the provider never answers.
`Proposals.tla` (`MainStoresWhatIsMeant`) is the way of an answer: main sends the allowed
axes that are enabled (`Sent`, `request_builder.py:56`), the node proposes what it was asked
for, and main checks the proposals against the taxonomy and the policy as they are when the
answer comes.  Node and main therefore judge by two demands and two taxonomies.  From any
answer of a model of up to three labels, or any findings of the regex rules, main stores
exactly what was meant and is still allowed, one value for a single axis.  The taxonomies of
the run are a full one, one with an axis disabled and one with a value disabled; the demands
leave all axes, one or the other, so that the allowed axes may all be disabled.  Then the
node is sent an empty list and takes it for all axes, while main keeps none of its labels.

`TaxonomySync.tla` is `taxonomy-apply`: it reads what main has, plans the difference and
sends it, request by request, while administrators edit and another run is under way.  `db`
is main's catalog, `tool` the plans, `edited` what others wrote since a run listed.

Run `taxonomy`: two runs of the tool, three axes, four values, one source, two starting
catalogs, one edit, one lost answer.  `EditsSurvive`: a request changes what the file states
and nothing else, but for items written by others since the run listed them.  `Converges`:
running the tool until it is done leaves main as the file states, unless an axis is of
another kind.

The other tools work something out of files, each checked against its definition over bounded
corpora of three or four posts and proved for any (section 14).  `ToolsAreRight` has three
parts.  `CorpusIsRight` is about `Corpus.tla`: grouping of alike posts, the index of shingles, transfer of labels, quotas of
channels.  `MeasuresAreRight` and `EvaluationJudgesWhatRuns` are about `Evaluation.tla`: the
first about metrics, calibration, agreement of annotators and noise, the second about the
predictions.  There `Combined` is the tool's merge of two classifiers, with its fixed order
(`eval_runners.py:23`, regular expressions first), and `Materialized` is main's, whose order
is the priority an administrator gave each classifier (`materializer.py:150`), a parameter
here.  They agree unless both classifiers are sure enough and main ranks the language model
first (`RankedOtherwise`); then main publishes what the model alone is judged by.  The
shipped `docker-compose.yml:69` ranks it first (section 15).

## 13. Deployment

`Deployment.tla` is how the stack gets its secrets: the `init` container makes keys and
passwords once and writes a file for each container, which reads it when it starts; the
database keeps its first password and the first row of each classifier.

| Model | Code |
|---|---|
| `plan` | `CLASSIFIER_SPECS` of the last `compose up` |
| `init`, `saved`, `files` | the run of `configuration_initializer.py`, `bootstrap.json`, the settings files; each file is replaced atomically |
| `run`, `read` | containers; a crashed one is restarted by Docker, which does not look at `depends_on` |
| `password`, `rows` | what the database volume holds |

Secrets are numbers: all those made together are one number.  Run `deployment`: two nodes,
two stores, one core, a node that does not wait for `init`, two changes of the specs, two
incidents (killed `init`, crashed container).  `SecretsAgree`: files, running processes and
the volume agree on one set of secrets.  `CallbacksUnderstood`: the public key the core has
for a classifier is that of the node it calls.  `ComesUp`: the stack comes up and stays up.
Fairness: `init` goes on, and compose or Docker starts what may start.

## 14. What is proved

A module of proofs covers what belongs together, by the component it is named for first.
`Inductions` has what they share: a least number, induction along numbers and over the
subsets of a finite set, functions that meet a recursion or a fold, sums over finite sets, and
what sorting by an order gives.

| Module | Results, for all values of the constants |
|---|---|
| `ClassificationJob_proofs` | `TypeCorrect`, `Invariance`, `OneOpenAttemptHolds`, `AppliedToItsTextHolds`; `AppliedOnceHolds`, `TokenSpentWithOutcomeHolds`, `ConfirmationsAreTrueHolds`, `EndIsFinalHolds`; `KeepsPromiseHolds`: each step of the job is a step of `RetriedJob` or a stutter |
| — `ClassifierNode` | `NodeInvariance`, `ClassifiedOnceHolds`, `SignaturesLastHolds` |
| — `Proposals` | `ProposalsAreStored`, `MainStoresWhatIsMeantHolds` |
| `NewsPipeline_proofs` | `Invariance`, `NobodyForgottenHolds`, `AutoPublishedIsCompleteHolds`; `OwnerIsWorkingHolds`, `PublishedIsDatedHolds`, `StagesInOrderHolds`, `SupersededStaysSoHolds` |
| — `Ingest` | `IntakeInvariance`, `AttachedIsKeptHolds`, `CompletedIsKeptHolds`; `IntakeIsIdempotent`: each step of the intake is a step of `IdempotentIngest` or a stutter |
| — `Parsers` | `ParsersInvariance`, `SeenIsTakenHolds` |
| `Delivery_proofs` | `TypeCorrect`, `Invariance`, `AppliedOnceHolds`, `NoReplayLostHolds`; `NothingLostHolds`, `DeadAfterTriesHolds` |
| `SearchProjection_proofs` | `TypeCorrect`, `Invariance`, `IndexIsCurrentHolds`, `FeedTellsTheTruthHolds` |
| — `ReadPolicy` | `PolicyIsOne`, `RoutesAgreeHolds` |
| `Attachments_proofs` | `TypeCorrect`, `Invariance`, `KeptIsThereHolds`, `HiddenByAnotherRunHolds` |
| — `SafeFetch` | `FetchesKeepAnyLimits`, `FetchesAreBoundedHolds` |
| `Administration_proofs`: `LoginThrottle` | `Invariance`, `VerifierHoldsAlways`, `GuessesBoundedHolds` |
| — `Principals` | `CredentialsCount`, `RightsAreCurrentHolds` |
| — `Labels` | `LabelsInvariance`, `StaleIsScheduledHolds`, `ManualHoldsAlways` |
| — `Scoring` | `ScoresAreDeserved`, `ScoresAgreeHolds` |
| — `Examples` | `ExamplesAreAlwaysManual`, `ExamplesAreAlwaysAllowed`, `ExamplesAreRightHolds` |
| `Operations_proofs`: `Deployment` | `Invariance`, `SecretsAgreeHolds`, `CallbacksUnderstoodHolds` |
| — `TaxonomySync` | `SyncInvariance`, `EditsSurviveHolds` |
| — `Corpus` | `GroupsAreAlwaysChains`, `IndexAlwaysMissesNothing`, `TransfersAlwaysSettle`, `QuotasAlwaysFill` |
| — `Evaluation` | `EvaluationAlwaysJudgesWhatRuns` (any priorities), `MetricsAlwaysMeasure`, `KappaAlwaysAgrees`, `ReportAlwaysAgrees`, `BinsAreAlwaysComplete`, `NoiseAlwaysSettles`; `ToolsAreRightHolds` for the instances of the run |

The assumptions are those named in the modules (`JobAssumption`, `PipelineAssumption`,
`DeliveryAssumption`, `SearchAssumption`, `AttachmentsAssumption`, `ParsersAssumption`,
`LoginThrottleAssumption`, `DeploymentAssumption`, `IngestAssumption`, `NodeAssumption`,
`LabelsAssumption`, `ScoringAssumption`, `TaxonomyAssumption`, `ReadAssumption`,
`SafeFetchAssumption`); each only says that markers for "none" differ
from real values, that bounds are numbers, that sets are finite, that the file of a taxonomy
lists an axis with its values, and so on.  Only `ClocksAssumption` says something of the
environment (section 12), and `GuessesBounded` has a hypothesis of its own (section 11).  Some results are not repeated as properties of a run: a
proof covers them for every instance, and `OneOpenAttempt` or `NoReplayLost` exercises the
same part of the model.

**A classification job.**  `IInv` adds `Bookkeeping` to the properties: that an effect is
single is not inductive, since from a state in which an old attempt is still open beside the
current one a second answer could be applied; `OneOpenAttempt` excludes such states, and a
claim preserves it only because the new generation was never used (`Bookkeeping`:
generations above the current one are absent).

**The runs of a news.**  `OwnerIsWorking` and `NobodyForgotten` need `StagesInOrder`, which
says which jobs a run in a given stage may have, and the part of it about `storing`: an
attachment that passed its check belongs to a run that was started.

**Delivery.**  `IInv` adds what the actors have in hand: `PublisherInvariant` (what is about
to be marked was sent, and since the last replay if the row is still owned),
`WindowInvariant` (what the broker remembers from before a replay nobody owns) and
`ConsumerInvariant` (one open transaction per marker; what is about to be acknowledged is
settled).  `NoReplayLost` is not inductive without the first two: a publisher that sent
before the replay must have lost the row by then.  The steps fall into four groups that
touch disjoint variables; each lemma treats one group and the frame lemmas the others.

**Search.**  The invariant has two halves.  Whatever happens to the lock: every document in
a queue or in hand was read from the news as it is or was, nothing is ahead of the news,
and an outcome of the last task means that all have one (`Documents`, `Behind`,
`InOrder`).  As long as the lock holds: one worker acts, the task in its hand or in the row
is the last of the queue and at least as new as what is asked for (`TaskInHand`,
`TaskInRow`), and a row that confirms the news as it is has nobody at work behind it
(`Settled`).  A confirmation is then true because its task came last and was read at the
very revision that is confirmed.  `Honest` carries this to a reader: all that a search may
still find is among what was true since the barrier.  These results rest on the second check
alone: a request that the first one stops only counts less, so they hold with any number of
jobs and for any number of revisions.

**The read policy.**  `OnePolicy` is about every news, stale document, preset and query, for
any sources, axes, values and sizes: its parts follow from the definitions of the routes,
one lemma each.  Only the cursors recurse.  `Reads` says what has been read up to an offset;
`ReadsOn` joins a page to what was read before it, and `Recursion` that the recursive
function exists at all.  Both rest on `UpTo`, an induction over a set in the place of a
predicate, shown by a least counterexample.

**Attachments.**  `KeptIsThere` needs that a call's object stays from the put to the commit
(`HeldIsThere`).  `HiddenByAnotherRun` needs that two calls for a job never share a
generation (`OneHolder`), that the fence still holds at the write (`WritingMatches`), and
that nobody has the present claim of a job that succeeded, but for the call that did not hear
of it (`SucceededIsLeft`).

**Fetches.**  `Keeps` says of a hop that with m redirects left it ends well exactly when the
page is reached in m redirects (`ReachedIn`), requests valid URLs only and at most m + 1 of
them, and passes on no more than the limit.  The last hop may not be redirected, so it keeps
this without any other; each earlier hop keeps it if the next one does (`HopKeeps`).  The
chain of redirects of a page is that of the page it leads to, one later (`TargetsShift`).

**Parsers.**  An answer other than a conflict names the item the poll is at: that the
request in hand is of that item (`Poll`) survives every edit, crash and other choice of
sources, so what is remembered is what was answered.  That only a known item is
(`Remembered`) is what keeps a refused one out.

**Logins.**  `VerifierHolds` relates a counter to a number of requests.  `Counters` says the
same of both counters and of the requests in each stage; a step moves one request from one
stage to another (`Moved`), and every stage adds its share to the counters (`Recount`).

`GuessesBounded` counts failures, but what has to be bounded are requests: one that passed
the check before the row was blocked may fail after.  `GuessInv` says of every row
(`Budget`) that its failures and the requests that may still join its window are together
within what some round r allows, `Limit - 1 + Most * (r + 1)`; that this round began only
after the cooldowns of the rounds before it were waited for, each less the time by which a
late failure may cut it short; and that a row whose failures exceed a round is blocked until
the next begins.  A request that is admitted joins either within the round or behind a block,
in the next (`RowAdmits`); a failure turns a request that may join into one that has, and its
new block reaches far enough (`RowCounts`).  As each round waits for at least a moment, only
`Rounds` of them begin within a window.  The sums and doublings are recursive functions;
what they compute is shown by least counterexamples (`LeastNumber`), because the induction
theorems of the library take an operator.

**Rights.**  `RightsAreCurrent` quantifies over all rows and requests there can be, so it is
no invariant of steps but a theorem about `Admitted`; `RightsOfAPrincipal` and
`AdmittedByRight` split it by the credential that was looked at.

**Labels.**  That a stale label has a job is not inductive: a recompute that is under way
commits what it read, perhaps from a catalog that has changed since.  `LabelsInv` says of each
transaction, part by part of what it reads (`AxisIsRead`, `ValuesAreRead`, `RulesAreRead`,
`PolicyIsRead`), that the part is still so or a job follows: one that has not passed the news,
that concerns its committed rows and those the transaction will commit, and that is not the
transaction's own.  A policy is the exception, since nothing locks it: its job may pass the
news before the rows that name the classifier are committed (`MayPass`), which is what
`slipped` records.  A chunk's cursor is the greatest of its news, so a job passes none of
them by.  That an editor's decision shows needs `Numbered`: each decision of a version has
a number of its own, and the row of the latest has the greatest stamp.

**Intake.**  `IdempotentIngest` forbids two submissions with a common identity; `IdentitiesApart`
says so of the rows, of what a handler has inserted and not committed, and of two handlers.
The refinement maps `open` to the source, so a step that declines maps to one only while the
source is disabled at that moment.
For the files, `OneHolder` says that one transaction at a time holds the row of an upload,
`HeldIsFit` that what it read there is still so, `IntentsAreSound` that only what is due
expires and only what was completed is attached, `CopyIsSafe` that a copy under way is young
and in no collector's list, and `DoomedIsUnused` that what a collector is about to delete
belongs to no completed upload: between its look at the rows and the deletion the object
cannot become one, as only a young copy can.  `AttachedIsKept` follows from `CompletedIsKept`.

**Nodes.**  A request is classified twice by one process only if the memory dropped its
signature, and it drops it only when the signature is over by the node's clock
(`ClassifiedIsSeen`); the check forgives no more than `Skew` on top.  `PostsAreDated` says
that a callback's dates are whole seconds of the node's clock and that the post may last at
most a second longer than they do; the offset `ClocksAssumption` allows is a fraction less
than what main forgives, which makes up for it.

**Proposals.**  A fold of the library recurses over sets of places; `Folding` shows that some
function meets the recursion, and gives the states a sequence goes through one by one.  The
node heeds a label when it is good and not barred by those it took before (`SoFar`), so what
it proposes is told by the places it heeds (`Heeded`, `AIHeeds`): those are what the answer
meant (`Meant`).  Of a single axis the node proposes one value (`OnesAreStored`), and the kind of
an axis never changes (`SameKinds`), so main has nothing to choose and only filters by the
taxonomy and the policy of its own moment (`NormalizedIs`).

**Examples.**  A history is taken step by step, by the same unrolling.  `AxisAgrees` relates,
for every axis, the decision that stands (`Standing`) to the editor's last word among the
steps so far (`Spoken`): a step about another axis and a copy change neither, an edit ends
both.  The administrator's count is no lower than a request's because taking one place out
of those that count lets at most one other in (`FirstOfLess`).

**Scores.**  The code evaluates rules one by one and stops; `Expected` says of each dimension,
without an order of evaluation, that it is the last assignment and the sum of what was added
since, cut off once.  `Judged` relates the two after each rule: whether the evaluation has
stopped is whether some rule so far matches and stops, and each score is what the rules heard
so far deserve.  One more rule behind the others either assigns, and nothing before it counts,
or adds to the same sum (`OneMore`); cutting off before an addition changes nothing as long as
nothing negative is added (`ScoreOnce`).  That each rule comes up once, in order, is
`SortedLists`: the rank of a rule is how many come before it.

**The taxonomy tool.**  `EditsSurvive` is about one request, but a plan is made of many, from
a listing that grows old.  `SyncInv` says that every request a run still has to send keeps
what the file does not state of main as it is now, items that others wrote since excepted
(`PlanOf`).  The run's own requests keep this, as a second request for the same item sends the
same fields.  That the plan has such requests only (`FlattenedElements`) goes through the
recursion of `FlattenSeq`, again by a least counterexample.

**Groups of posts.**  A forest is a map of each post to its parent; `Tree` bounds the height
of a post by the number of posts that are hung on another, so the steps `Root` takes are
enough, whatever was joined in which order.  `Sound` says what the forest has to do with the
likenesses met so far, from both sides: a likeness joins two posts under one root, and
every set of posts that no likeness leaves keeps the root of its members apart from the
others.  Joining two roots keeps both (`JoinedSound`), so both hold after all comparisons
(`ForestSound`), and the closed set of all posts under one root turns the second into the
chain that `GroupsAreChains` asks for.

**The index of shingles.**  Two posts with a score above nothing share a shingle, so each is
found under it (`SimilarShare`).  That is why the threshold has to be at least a hundredth: at
0 posts that share nothing would be similar, and the index would not pair them.  A member of a
group that was never joined would be a closed set by itself (`MembersWereJoined`).

**Copies.**  Groups have no post in common and each has a first (`GroupsAreApart`), so a copy
has one origin, nobody gives to an origin, and what a copy has after the transfer holds all
its origin has (`CopiesAreFilled`).

**Quotas.**  A ceiling that is enough exists, as the largest channel is one, and so a least one
does (`LowestExists`).  Rounded shares exceed what is wanted by at most half a post for each
channel (`SharesFit`).  After r rounds each channel has given all it may or r at least, unless
what is wanted is had (`RoundsFill`); that it is had after the last follows from the ceiling.

**Evaluation.**  The metrics count the same posts in two ways: by value, by axis, by category
or by bin.  The proofs build sums over finite sets one element at a time (`SumOfOneMore`,
`SomeCategories`, `SomeFractions`) and compare sizes.  Kappa stays within its bounds because
the agreement by chance is never more than the whole (`ChanceIsBounded`); a report finds an
axis of several values settled because a mean of fractions is the whole only if each is
(`MeanTells`).  Of proposals that are not equally sure the order by sureness is the only one
(`SurenessIsLinear`), so of one classifier the evaluation takes first what main would store
(`OneOpinionShows`); which classifier that is in main depends on the two priorities only
(`MaterializedIs`).

**Deployment.**  Secrets agree because whatever anybody holds was taken from what is saved
now or from an earlier form of it (`AllFrom`), and each later form keeps the secrets and
pairs of the earlier (`Extends`, `PairsAreKept`).  The password of the database needs
`StoresServed` too: a store starts only behind its file.

Recursive functions and folds appear in most of these.  The induction theorems of the
library take an operator, which the provers cannot instantiate; `Inductions` takes a set or a
function in its place and shows each by a least counterexample (`LeastNumber`,
`Recursion`), so what such a definition computes could be proved for every input.

Every invariant and every action property of a run has a theorem.  Only model-checked, on the
instances above, are the liveness properties (`AcceptedEnds`, `AnnouncedIsShown`, `ComesUp`,
`Converges`, `EventsEnd`, `ItemsArrive`, `JobsEnd`, `NewsLeavesPipeline`) and the fairness of
`RetriedJob` (`KeepsFairPromise`), as the proof system has no rule for fairness here.

## 15. Known limits of the code

What the models showed or their properties had to say; a reader who changes the code may
want to know.

Public views.
- A news deleted while a run owns it may be published again by that run
  (`pipeline_coordinator_storage.py:214`); RSS then lists it, the detail does not.
  `ReadPolicy` leaves such news out.
- A run that takes over a published news hides it without a new revision, so totals count it
  behind an open barrier; `Truths` admits the former document of a news in processing.
- The edit of a news that was published once and is not now closes the barrier and announces
  nothing; the 503 lasts until somebody acts on that news.  `AnnouncedIsShown` is therefore
  about announced revisions.
- The routes declare the list parameters `source` of the feed (`feed.py:26`) and `status` of
  the editors' list (`admin_news_lifecycle.py:36`) without `Query`, so FastAPI reads them from
  the body (`contracts/http/openapi.json` has them as `requestBody`); the review page of the
  web application sends `status` in the query (`Review.tsx:66`), where it has no effect.
- The list of unlabelled news counts labels whose value is disabled
  (`news_admin_repository.py:97`), answers leave them out: with every value of an axis a news
  has disabled, it is shown without a label and is not in that list.
- The advisory lock of the indexer lives as long as its connection (`indexer.py:68`): a
  worker that lost it may post an older document behind a newer one.  A request that
  Meilisearch accepts after its time-out would do the same and is not modelled.
- When the commit of `_complete` succeeds and its reply is lost, `_fail` leaves a `failed`
  row that no claim selects (`indexer.py:189`); a full reindex cures it.
- The feed answers 400 when a preset names a disabled axis, while RSS and detail go on
  matching it; an editor's preset binds the feed's query only.  `RssAgrees` is about readers
  while everything is enabled.

- A rematerialization job of any news closes the barrier of all (`news_delivery_repository.py:60`):
  the feed answers 503 until the job has been through every news, and for ever if a chunk fails
  each time, since a failed chunk is pending again.  The fairness of `AnnouncedIsShown` leaves
  such a job out.

Jobs and events.
- A callback is told "applied" when the failure it brought was silently dropped by a fence;
  the attempt row of a superseded run stays "running".
- Rows are locked in different orders by merge, split and runs; PostgreSQL resolves a
  deadlock by aborting one, which the models see as a failing transaction.
- Messages leave the stream after seven days, acknowledged or not.  An event may be applied
  and dead-lettered, when the reply to the commit of its last delivery is lost.
- `fail()` of an attachment does not look at the run (`attachment_processing_storage.py:188`):
  a superseded job may hide what a newer one stored.  It does not look at the status of its
  job either (`matches()`, line 210): when the commit of a result succeeds and its reply is
  lost, the call marks as failed what it just stored and opens the job again, or ends it as a
  failure at the last attempt.

Intake and parsers.
- The references of an upload are read without a lock that the collector sees, so a
  submission of an upload that falls due meanwhile may lose its object (`due` in
  `AttachedIsKept`).  The quota counts before it inserts, and a late completion may exceed it.
- An identical repeat is answered with the 409 of a disabled source when the source is
  disabled, and the first submission committed, between the lookup of its identities
  (`submission_acceptance.py:65`) and the check of the source (`writer.py:40`).
- The TiMe parser submits a post with a file again when it does not know that it was taken,
  or when the intake refused it for what it says; each time the upload is a new one.  The
  intake answers "conflict" or 422 on every poll, and repeats can use up the quota, so that
  other posts with files wait.
- A broken item stops those behind it: of its channel, or of all feeds.
- The RSS parser reads UTC dates with `time.mktime` (`parse_feed.py:57`); dates are data here.

Labels.
- A policy that changes between the two reads of a recompute leaves a label no job returns
  to (`slipped`).  An edit keeps the labels of the old text until the next recompute, and they
  satisfy auto-publishing; an axis decided by hand is then empty.
- A news whose recompute fails each time stops its job; jobs are not deduplicated.
- The limit of examples applies before the filter by axis, so news without an axis to show
  take places; the administrator's count includes the news itself.

Accounts and nodes.
- A failure recorded late can cut a newer block short by the time of its request, and the end
  of a window lifts a block; `GuessesBounded` counts both.
- The memory of signatures forgets at the expiry, while the check forgives 30 seconds more.
- Shutdown cancels accepted tasks, and an error in building a payload is raised outside the
  `try` of the task: main's deadline ends such attempts.
- Of two labels of a single axis the AI node keeps the first that is sure enough.
- When every axis a classifier may label is disabled, the request names none
  (`request_builder.py:57`), which the node takes for all: the provider is asked in vain, as main
  drops every label (`result_applier.py:65`).

Tools and deployment.
- `taxonomy-apply` cannot change the type of an axis: the request is refused each time, and
  nothing behind it in the plan is sent.  An inactive item that the file lists is not enabled.
- The agreement of annotators on an axis of several values looks at the values of the
  taxonomy (`eval_kappa.py:98`); another value in a filled-in table is listed as a
  disagreement and does not lower kappa.
- Groups of alike posts are chains, so labels may be copied to a post of another event.
- The evaluation of both classifiers together (`eval_runners.py:23`) puts regular expressions
  first, at thresholds of 0.6; the shipped `docker-compose.yml:69` gives the language model the
  higher priority and both a threshold of 0.5.  Where both are sure, what is judged is then not
  what the service publishes (`RankedOtherwise`); `EvaluationJudgesWhatRuns` compares the two at
  the same thresholds, whichever those are.
- On a tie the evaluation takes the value proposed first, the service the one with the lesser
  slug; rejecting noise twice may reject more.
- `classifier-ai` does not wait for `init` (`docker-compose.yml:262`): started too early it
  answers 503 until it is restarted.  A slug moved to another node keeps its first row
  (`bootstrap_storage.py:29`), which is why `CallbacksUnderstood` follows the row's node.

## 16. Not modelled

- Raw payload retention: one bounded UPDATE in a loop with which nothing races.
- The web application, quality and operations scripts: user interface, wiring, one-off runs.
- Audit rows, `last_used_at`, logging and metrics: nothing reads them to decide anything.
- Formats: parsing of feeds, documents and archives, prompts, HTML, the layout of messages
  and documents; where a format decides something it appears as a choice (an entry converts
  or raises, a token is genuine or not).
- S3 and JetStream as protocols, address resolution, the worker process of the extractor:
  external; the models use them as the code in `src/` does.
- Rows a merge or split moves between two news; axes of several values in `Labels`;
  provenance rows, which no recompute counts.
- Clocks that jump; the sizes of pools and connection time-outs.

## 17. Plan

What is left of the plan: `Labels` with two axes, one of several values, and merges of news.
