------------------------------- MODULE Parsers -------------------------------
(***************************************************************************)
(* The two parsers that read sources and submit what they find: the one of  *)
(* RSS feeds (poll_feeds.py, supervise.py) and the one of TiMe channels     *)
(* (poll_selections.py, poll_channel.py, json_selection.py), each with its  *)
(* IngestClient, in front of the intake as IdempotentIngest specifies it.   *)
(*                                                                          *)
(* A behaviour is one of either parser; polls never overlap (poll_lock).    *)
(* A source lists its items in a fixed order.  An edit changes what an item *)
(* is converted to.  An item is wanted unless it is too old, deleted, a     *)
(* reply or by an outsider.  The memory of 5000 posts per channel is not    *)
(* bounded here: the pages read hold fewer.                                 *)
(***************************************************************************)
EXTENDS Naturals, FiniteSets

CONSTANTS
  Sources,      \* channels or feeds, 1 .. n in the order of a poll
  Length,       \* items of a source
  Filed,        \* items with a file
  Broken,       \* items whose conversion raises
  Invalid,      \* items the intake refuses for what they say
  UploadQuota,  \* unused uploads the intake allows to the key of the parser
  MaxUploads,   \* bounds the uploads
  MaxMishaps,   \* bounds failures, edits, crashes and other choices of sources
  NoRequest

Items == Sources \X (1 .. Length)

ASSUME ParsersAssumption ==
  /\ Sources \subseteq Nat \ {0} /\ IsFiniteSet(Sources)
  /\ Length \in Nat \ {0} /\ Filed \subseteq Items /\ Broken \subseteq Items
  /\ Invalid \subseteq Items
  /\ UploadQuota \in Nat /\ MaxUploads \in Nat /\ MaxMishaps \in Nat

VARIABLES
  kind,     \* "rss" or "time"
  items,    \* what the sources say
  chosen,   \* the selected sources, on disk
  seen,     \* the items remembered, on disk
  poller,   \* where the poll is
  ready,    \* MemoryHealthStorage of the RSS parser
  taken,    \* what the intake accepted
  told,     \* its answer on the way
  uploads,  \* how many uploads were made
  unused,   \* those no submission attached and no retention ended
  mishaps   \* how many incidents may still happen

parserVars == <<kind, items, chosen, seen, poller, ready, taken, told, uploads, unused, mishaps>>
intake == <<taken, told>>
files == <<uploads, unused>>

-----------------------------------------------------------------------------
\* upload = 0: none.
Request == [ids : SUBSET Items, version : Nat, upload : 0 .. MaxUploads]

\* todo: the sources of this poll that are not done, the least one is read; n: the item;
\* known: seen_posts() as it was when the channel was begun.
Poller ==
  [pc : {"idle", "fetching", "choosing", "filing", "submitting", "hearing"},
   todo : SUBSET Sources, n : 1 .. Length, known : SUBSET Items,
   request : Request \cup {NoRequest}, ok : BOOLEAN]

Resting ==
  [pc |-> "idle", todo |-> {}, n |-> 1, known |-> {}, request |-> NoRequest, ok |-> TRUE]

ParsersInit ==
  /\ kind \in {"rss", "time"}
  /\ items = [i \in Items |-> [version |-> 0, wanted |-> TRUE]]
  /\ chosen = Sources
  /\ seen = {}
  /\ poller = Resting
  /\ ready = FALSE
  /\ taken = {} /\ told = [h \in {"rss", "time"} |-> NoRequest]
  /\ uploads = 0 /\ unused = {}
  /\ mishaps = MaxMishaps

\* The intake may decline whenever it likes.
Intake == INSTANCE IdempotentIngest WITH
  rows <- taken, Nothing <- NoRequest, Handlers <- {"rss", "time"}, Requests <- Request,
  open <- FALSE

Mishap == mishaps > 0 /\ mishaps' = mishaps - 1

PollAt(pc) == poller.pc = pc

Source == CHOOSE s \in poller.todo : \A t \in poller.todo : s <= t

Item == <<Source, poller.n>>

\* The next source, or the end of the poll.  on_cycle() of the RSS parser
\* notes whether all of it succeeded.
AfterSource(ok) ==
  LET todo == poller.todo \ {Source} IN
  /\ poller' = IF todo = {} THEN Resting
               ELSE [Resting EXCEPT !.pc = "fetching", !.todo = todo, !.ok = ok]
  /\ ready' = IF todo = {} THEN kind = "rss" /\ ok ELSE ready

AfterItem(ok) ==
  IF poller.n < Length
  THEN /\ poller' = [poller EXCEPT !.pc = "choosing", !.n = @ + 1, !.request = NoRequest, !.ok = ok]
       /\ UNCHANGED ready
  ELSE AfterSource(ok)

\* Mutant: an error in one channel ends the poll of all.
EveryErrorEndsPoll == poller' = Resting /\ ready' = FALSE /\ UNCHANGED seen

\* Of the TiMe parser an error other than a refused submission ends the
\* channel; of the RSS parser it ends the poll, and supervise_poller() begins
\* another one.
Raise ==
  /\ IF kind = "time" THEN AfterSource(FALSE) ELSE poller' = Resting /\ ready' = FALSE
  /\ UNCHANGED seen

-----------------------------------------------------------------------------
(* A poll *)

StartPoll ==
  /\ PollAt("idle") /\ chosen # {}
  /\ poller' = [Resting EXCEPT !.pc = "fetching", !.todo = chosen]
  /\ UNCHANGED <<kind, items, chosen, seen, ready, intake, files, mishaps>>

\* fetch_posts() or the feed; what is remembered is read once per channel.
Fetch ==
  /\ PollAt("fetching")
  /\ poller' = [poller EXCEPT !.pc = "choosing", !.known = {i \in seen : i[1] = Source}]
  /\ UNCHANGED <<kind, items, chosen, seen, ready, intake, files, mishaps>>

SourceLost == AfterSource(FALSE)

FetchFails ==
  /\ PollAt("fetching") /\ Mishap
  /\ SourceLost
  /\ UNCHANGED <<kind, items, chosen, seen, intake, files>>

\* TiMe refuses the access: the poll ends.
AccessLost ==
  /\ PollAt("fetching") \/ PollAt("choosing")
  /\ kind = "time" /\ Mishap
  /\ poller' = Resting
  /\ UNCHANGED <<kind, items, chosen, seen, ready, intake, files>>

Passed(i) == i \in poller.known \/ ~items[i].wanted

Skip ==
  /\ PollAt("choosing") /\ Passed(Item)
  /\ AfterItem(poller.ok)
  /\ UNCHANGED <<kind, items, chosen, seen, intake, files, mishaps>>

\* The roles of its author cannot be read: passed over in this poll.
RolesLost ==
  /\ PollAt("choosing") /\ kind = "time" /\ Mishap
  /\ AfterItem(poller.ok)
  /\ UNCHANGED <<kind, items, chosen, seen, intake, files>>

HasFile(i) == kind = "time" /\ i \in Filed

\* post_to_submission(), to_submission().
Convert ==
  /\ PollAt("choosing") /\ ~Passed(Item) /\ Item \notin Broken
  /\ poller' = [poller EXCEPT
       !.pc = IF HasFile(Item) THEN "filing" ELSE "submitting",
       !.request = [ids |-> {Item}, version |-> items[Item].version, upload |-> 0]]
  /\ UNCHANGED <<kind, items, chosen, seen, ready, intake, files, mishaps>>

ConvertFails ==
  /\ PollAt("choosing") /\ ~Passed(Item) /\ Item \in Broken
  /\ Raise
  /\ UNCHANGED <<kind, items, chosen, intake, files, mishaps>>

\* collect_files() uploads under a new id, whatever was uploaded before.
Upload ==
  /\ PollAt("filing") /\ Cardinality(unused) < UploadQuota /\ uploads < MaxUploads
  /\ uploads' = uploads + 1
  /\ unused' = unused \cup {uploads + 1}
  /\ poller' = [poller EXCEPT !.pc = "submitting", !.request = [@ EXCEPT !.upload = uploads + 1]]
  /\ UNCHANGED <<kind, items, chosen, seen, ready, intake, mishaps>>

\* A file that cannot be downloaded is left out.
DownloadFails ==
  /\ PollAt("filing") /\ Mishap
  /\ poller' = [poller EXCEPT !.pc = "submitting"]
  /\ UNCHANGED <<kind, items, chosen, seen, ready, intake, files>>

\* The quota is used up: presign is refused outside of the try of poll_channel().
UploadRefused ==
  /\ PollAt("filing") /\ Cardinality(unused) >= UploadQuota
  /\ Raise
  /\ UNCHANGED <<kind, items, chosen, intake, files, mishaps>>

\* The reservation is refused for another reason, or the upload breaks off and
\* the reservation stays.
UploadFails ==
  /\ PollAt("filing") /\ Mishap
  /\ \/ UNCHANGED files
     \/ /\ Cardinality(unused) < UploadQuota /\ uploads < MaxUploads
        /\ uploads' = uploads + 1
        /\ unused' = unused \cup {uploads + 1}
  /\ Raise
  /\ UNCHANGED <<kind, items, chosen, intake>>

\* The intake handles the submission; an accepted one attaches its upload.
Deliver ==
  /\ PollAt("submitting") /\ Item \notin Invalid
  /\ LET r == poller.request IN
     IF \E q \in taken : Intake!Meets(q, r)
     THEN (Intake!Recognise(kind, r) \/ Intake!Refuse(kind, r)) /\ UNCHANGED unused
     ELSE Intake!Accept(kind, r) /\ unused' = unused \ {r.upload}
  /\ poller' = [poller EXCEPT !.pc = "hearing"]
  /\ UNCHANGED <<kind, items, chosen, seen, ready, uploads, mishaps>>

\* The connection breaks before the intake has the request.
RequestLost ==
  /\ PollAt("submitting") /\ Mishap
  /\ Raise
  /\ UNCHANGED <<kind, items, chosen, intake, files>>

\* 422 for what an item says, for ever; for a while 409 of a disabled source, 401,
\* 429 or an error of the server.  Nothing is taken.
Decline ==
  /\ PollAt("submitting")
  /\ (Item \in Invalid /\ UNCHANGED mishaps) \/ Mishap
  /\ Intake!Decline(kind, poller.request)
  /\ poller' = [poller EXCEPT !.pc = "hearing"]
  /\ UNCHANGED <<kind, items, chosen, seen, ready, files>>

\* The connection breaks afterwards, or an error takes the place of the answer.
ReplyLost ==
  /\ PollAt("hearing") /\ Mishap
  /\ Raise \/ (AfterItem(FALSE) /\ UNCHANGED seen)
  /\ Intake!Hear(kind)
  /\ UNCHANGED <<kind, items, chosen, files>>

\* Every other answer is an IngestError.
Known == told[kind].outcome \in {"accepted", "duplicate"}

\* Mutant: the post is remembered in a finally clause of the submission.
RememberedAnyway == IF kind = "time" THEN seen \cup {Item} ELSE seen

\* Only the TiMe parser remembers what the intake knows.
Remembered == IF kind = "time" /\ Known THEN seen \cup {Item} ELSE seen

\* poll_once() and poll_channel() go on whatever was answered.
HearAnswer ==
  /\ PollAt("hearing")
  /\ Intake!Hear(kind)
  /\ seen' = Remembered
  /\ AfterItem(poller.ok /\ Known)
  /\ UNCHANGED <<kind, items, chosen, files, mishaps>>

PollStep ==
  \/ StartPoll \/ Fetch \/ Skip \/ Convert \/ ConvertFails
  \/ Upload \/ UploadRefused \/ Deliver \/ Decline \/ HearAnswer

-----------------------------------------------------------------------------
(* Around it *)

Edit(i) ==
  /\ Mishap
  /\ items' = [items EXCEPT ![i].version = @ + 1]
  /\ UNCHANGED <<kind, chosen, seen, poller, ready, intake, files>>

\* It grows too old or is deleted.
Fade(i) ==
  /\ items[i].wanted /\ Mishap
  /\ items' = [items EXCEPT ![i].wanted = FALSE]
  /\ UNCHANGED <<kind, chosen, seen, poller, ready, intake, files>>

\* add(), remove() or replace_all(): a channel that is dropped is forgotten.
ChooseSources(choice) ==
  /\ kind = "time" /\ choice # chosen /\ Mishap
  /\ chosen' = choice
  /\ seen' = {i \in seen : i[1] \in choice}
  /\ UNCHANGED <<kind, items, poller, ready, intake, files>>

Crash ==
  /\ ~PollAt("idle") /\ Mishap
  /\ poller' = Resting
  /\ ready' = FALSE
  /\ told' = [told EXCEPT ![kind] = NoRequest]
  /\ UNCHANGED <<kind, items, chosen, seen, taken, files>>

\* The retention of the intake ends an upload nobody attached.
Retire(u) ==
  /\ ~(PollAt("submitting") /\ poller.request.upload = u)
  /\ unused' = unused \ {u}
  /\ UNCHANGED <<kind, items, chosen, seen, poller, ready, intake, uploads, mishaps>>

ParsersNext ==
  \/ PollStep
  \/ FetchFails \/ AccessLost \/ RolesLost \/ DownloadFails \/ UploadFails \/ RequestLost \/ ReplyLost \/ Crash
  \/ \E i \in Items : Edit(i) \/ Fade(i)
  \/ \E choice \in SUBSET Sources : ChooseSources(choice)
  \/ \E u \in unused : Retire(u)

ParsersSpec == ParsersInit /\ [][ParsersNext]_parserVars

\* Polls follow each other, and uploads are retired one day.
FairParsersSpec == ParsersSpec /\ WF_parserVars(PollStep) /\ WF_parserVars(\E u \in unused : Retire(u))

-----------------------------------------------------------------------------
(* Correctness *)

Taken(i) == \E q \in taken : i \in q.ids

\* What the TiMe parser passes over from then on, the intake has: no refusal, lost
\* answer or crash makes it forget to submit.
SeenIsTaken == \A i \in seen : Taken(i)

\* Repeats of a post the parser does not know it submitted, or that is refused: with
\* a file each of them is another payload to the intake, and its upload stays unused.
Loops(i) == HasFile(i) /\ (Taken(i) \/ i \in Invalid) /\ i \notin seen /\ items[i].wanted

Before(j, i) == j[1] < i[1] \/ (j[1] = i[1] /\ j[2] < i[2])

\* A broken item stops those behind it: of its channel, or of all the feeds.
\* Repeats can use up the quota and then stop a channel at its next file.
Blocked(i) ==
  \/ \E j \in Broken : items[j].wanted /\ Before(j, i) /\ (kind = "time" => j[1] = i[1])
  \/ \E j \in Items \ {i} : Loops(j)

\* What a chosen source offers and nothing blocks is submitted, unless it fades: an
\* item the intake refuses, for a while or for ever, holds up no other one.
ItemsArrive ==
  \A i \in Items \ (Broken \cup Invalid) :
    items[i].wanted /\ i[1] \in chosen ~>
      Taken(i) \/ ~items[i].wanted \/ i[1] \notin chosen \/ Blocked(i) \/ uploads = MaxUploads

=============================================================================
