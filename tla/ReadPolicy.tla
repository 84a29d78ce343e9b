------------------------------ MODULE ReadPolicy ------------------------------
(***************************************************************************)
(* What a reader may see, decided five times: the feed asks Meilisearch and *)
(* rechecks its hits in PostgreSQL, RSS selects in SQL, the detail of a     *)
(* news, its labels and links, and the media proxy look at one news         *)
(* (feed.py, rss.py, news_detail.py, media.py, access_policy.py,            *)
(* news_delivery_repository.py, news_read_repository.py).  An API key may   *)
(* carry a filter preset, which none of them may exceed.                    *)
(*                                                                          *)
(* Pure operators: a news and the document the index happens to hold for it *)
(* are arguments.  The visibility barrier before all of this, and how the   *)
(* document comes to be, are SearchProjection's.  Order, text, dates and    *)
(* the other filters of a query narrow what is shown here.                  *)
(*                                                                          *)
(* Beside it: the taxonomy readers choose their filters from, the list the  *)
(* editors work through (news_admin_repository.py), and the pages of a feed. *)
(***************************************************************************)
EXTENDS NewsLifecycle, Integers, Sequences

CONSTANTS
  Slugs,   \* of sources
  Axes,
  Values,  \* the values of every axis
  Sizes    \* of attachments, their ranges, results of a search and pages

Unasked == "unasked"

ASSUME ReadAssumption == Unasked \notin Slugs \cup Axes /\ Sizes \subseteq Nat

\* Some axes, each with a list of values: in a preset and in a query.
Choice == UNION {[axes -> SUBSET Values] : axes \in SUBSET Axes}

\* A preset that names no source allows all of them.
Preset == [sources : SUBSET Slugs, facets : Choice]

NoPreset == [sources |-> {}, facets |-> [axis \in {} |-> {}]]

Principal == [editor : BOOLEAN, preset : Preset]

\* Attachments are rows: replaced ones stay inactive, failed ones without an object.
Attachment == [active : BOOLEAN, stored : BOOLEAN, key : BOOLEAN]

\* A news that is deleted has the status too (lifecycle.py); a run that publishes it
\* afterwards is left out.
Item ==
  [status : {"needs_review", "published", "deleted"}, sources : SUBSET Slugs \ {{}},
   labels : [Axes -> SUBSET Values]]

-----------------------------------------------------------------------------
(* The policy, in PostgreSQL *)

\* _source_exists() and _facet_exists(), whatever is enabled.
SourceMatch(n, sources) == n.sources \cap sources # {}
FacetMatch(n, axis, values) == n.labels[axis] \cap values # {}

\* The preset, as SQL of RSS and as questions of enforce_access().
Within(n, preset) ==
  /\ preset.sources # {} => SourceMatch(n, preset.sources)
  /\ \A axis \in DOMAIN preset.facets : FacetMatch(n, axis, preset.facets[axis])

\* enforce_access()
Allows(n, p) == p.editor \/ (Accessible(n) /\ Within(n, p.preset))

DetailOpens(n, p) == n.status # "deleted" /\ Allows(n, p)

\* attachment_with_news(), then the same policy.
MediaOpens(a, n, p) == a.active /\ a.key /\ Allows(n, p)

\* recent_published() and the recheck of each row.
RssLists(n, p) == n.status = "published" /\ (p.editor \/ Within(n, p.preset)) /\ Allows(n, p)

\* serialize(): the labels and the links of an answer.
ShownLabels(n, enabled) ==
  [axis \in Axes |-> IF axis \in enabled.axes THEN n.labels[axis] \cap enabled.values ELSE {}]

Linked(a) == a.active /\ a.stored /\ a.key

-----------------------------------------------------------------------------
(* The feed *)

\* _document(): what the index holds of a news that may be shown.
Entry(n, enabled) == [sources |-> n.sources, facets |-> ShownLabels(n, enabled)]

\* Mutant: what a caller asks for replaces what the preset allows.
AskedInstead(asked, preset, axis) ==
  IF axis \in DOMAIN asked /\ asked[axis] # {} THEN asked[axis] ELSE preset[axis]

\* An axis of the preset: what the caller asks for of what it allows, or all of that.
Narrowed(asked, preset, axis) == AskedInstead(asked, preset, axis) \cap preset[axis]

WantedFacets(asked, preset) ==
  [axis \in DOMAIN asked \cup DOMAIN preset |->
     IF axis \in DOMAIN preset THEN Narrowed(asked, preset, axis) ELSE asked[axis]]

WantedSources(asked, allowed) ==
  IF allowed = {} THEN asked ELSE IF asked = {} THEN allowed ELSE asked \cap allowed

\* known_enabled_facets()
KnownAxes(axes, enabled) == axes \cap enabled.axes

\* 400: an axis that is unknown or disabled, in the query or in the preset.
BadRequest(wish, p, enabled) ==
  LET axes == DOMAIN WantedFacets(wish.facets, p.preset.facets)
  IN  KnownAxes(axes, enabled) # axes

\* The filter of the search; without an intersection nothing is searched.
Hits(entry, wish, p) ==
  LET facets == WantedFacets(wish.facets, p.preset.facets)
      sources == WantedSources(wish.sources, p.preset.sources)
  IN  /\ \A axis \in DOMAIN facets : entry.facets[axis] \cap facets[axis] # {}
      /\ p.preset.sources # {} => sources # {}
      /\ sources # {} => entry.sources \cap sources # {}

\* feed_rows(): the hits are read again, and only those still published.
StillPublished(n) == n.status = "published"

\* The recheck of each row: the answer shows the news as it is now.
FeedLists(n, entry, wish, p, enabled) ==
  /\ ~BadRequest(wish, p, enabled)
  /\ Hits(entry, wish, p)
  /\ StillPublished(n) /\ Allows(n, p)

\* Meilisearch's part of a search: its page of all the matches.
Page(hits, offset, limit) ==
  SubSeq(hits, offset + 1, IF offset + limit < Len(hits) THEN offset + limit ELSE Len(hits))

\* feed(): the rows of a page that pass the recheck, in the order of the hits.
Rechecked(page, passes) ==
  LET rows[n \in 0 .. Len(page)] ==
        IF n = 0 THEN <<>>
        ELSE IF page[n] \in passes THEN Append(rows[n - 1], page[n]) ELSE rows[n - 1]
  IN  rows[Len(page)]

\* next_cursor counts the matches, not the rows that pass the recheck; none is Len(hits).
NextCursor(hits, offset, limit) ==
  IF offset + limit < Len(hits) THEN offset + limit ELSE Len(hits)

-----------------------------------------------------------------------------
(* What readers choose from, and what editors work through *)

\* taxonomy(): the axes and values a caller may ask for.
Taxonomy(enabled) == [axis \in enabled.axes |-> enabled.values]

\* What an editor may ask the list for; the statuses come in the body of the request,
\* never in its query (they are declared as a plain list).
Question ==
  [statuses : SUBSET {"needs_review", "published"}, source : Slugs \cup {Unasked}, unlabelled : Axes \cup {Unasked}]

\* 422: the list of what lacks an axis that is unknown or disabled.
UnknownAxis(question, enabled) == question.unlabelled \notin enabled.axes \cup {Unasked}

\* list_news(): a label counts there whether its value is enabled or not.
EditorsList(n, question) ==
  /\ n.status # "deleted"
  /\ question.statuses # {} => n.status \in question.statuses
  /\ question.source # Unasked => question.source \in n.sources
  /\ question.unlabelled # Unasked => n.labels[question.unlabelled] = {}

-----------------------------------------------------------------------------
(* Ranges of an attachment *)

Unbounded == -1

\* A Range header: bytes=first-last, bytes=first- or bytes=-last.
Header == [first : Sizes \cup {Unbounded}, last : Sizes \cup {Unbounded}]

\* parse_range_header(): the bytes of an answer 206, none for 416.
Bytes(range, size) ==
  LET suffix == range.first = Unbounded
      start == IF ~suffix THEN range.first ELSE IF size > range.last THEN size - range.last ELSE 0
      end == IF suffix \/ range.last = Unbounded THEN size - 1 ELSE range.last
  IN  IF \/ suffix /\ range.last < 1
         \/ start >= size \/ end < start
      THEN {}
      ELSE {b \in start .. end : b < size}

\* What the header asks for (RFC 9110).
AskedBytes(range, size) ==
  {b \in 0 .. size - 1 :
     IF range.first = Unbounded THEN range.last # Unbounded /\ b >= size - range.last
     ELSE range.first <= b /\ (range.last = Unbounded \/ b <= range.last)}

-----------------------------------------------------------------------------
(* Correctness *)

\* Whatever the index holds, a news that is listed can be opened by who sees it.
ListedOpens(n, entry, wish, p, enabled) ==
  FeedLists(n, entry, wish, p, enabled) => DetailOpens(n, p)

\* A query never shows what the same key would not see without one, not even to an
\* editor whose key has a preset.
AskingNarrows(n, entry, wish, p, enabled) ==
  FeedLists(n, entry, wish, p, enabled) => FeedLists(n, entry, NoPreset, p, enabled)

\* Once the index is current and while all it needs is enabled, the feed and RSS
\* list the same to a reader.
RssAgrees(n, p) ==
  LET all == [axes |-> Axes, values |-> Values] IN
  ~p.editor => (FeedLists(n, Entry(n, all), NoPreset, p, all) <=> RssLists(n, p))

\* Every link of an answer opens for whom the answer was written.
LinksOpen(n, p) == DetailOpens(n, p) => \A a \in Attachment : Linked(a) => MediaOpens(a, n, p)

\* A query for some values of one axis.
Asking(axis, values) == [NoPreset EXCEPT !.facets = [a \in {axis} |-> values]]

\* A label a reader is shown is on offer, and asking for it finds the news again, as far
\* as the preset of the key leaves the value.
ShownIsFound(n, p, enabled) ==
  FeedLists(n, Entry(n, enabled), NoPreset, p, enabled) =>
    \A axis \in Axes : \A value \in ShownLabels(n, enabled)[axis] :
      /\ axis \in DOMAIN Taxonomy(enabled) /\ value \in Taxonomy(enabled)[axis]
      /\ \/ axis \in DOMAIN p.preset.facets /\ value \notin p.preset.facets[axis]
         \/ FeedLists(n, Entry(n, enabled), Asking(axis, {value}), p, enabled)

\* What the list calls unlabelled is shown without a label on that axis, and no filter on
\* the axis finds it; with every value enabled the list misses nothing either.
UnlabelledIsBare(n, p, enabled) ==
  \A question \in Question :
    question.unlabelled # Unasked /\ ~UnknownAxis(question, enabled) =>
      LET axis == question.unlabelled
          bare == ShownLabels(n, enabled)[axis] = {}
          inRest == EditorsList(n, [question EXCEPT !.unlabelled = Unasked])
          listed == EditorsList(n, question)
      IN  /\ listed =>
               bare /\ \A values \in SUBSET Values :
                         ~FeedLists(n, Entry(n, enabled), Asking(axis, values), p, enabled)
          /\ enabled.values = Values => (listed <=> inRest /\ bare)

\* A reader that follows the cursors, `passes` being the hits that pass the recheck.
Followed(hits, passes, limit) ==
  LET from[offset \in 0 .. Len(hits)] ==
        IF offset = Len(hits) THEN <<>>
        ELSE Rechecked(Page(hits, offset, limit), passes)
               \o from[NextCursor(hits, offset, limit)]
  IN  from[0]

\* While the index stands still, whoever follows the cursors reads every match that passes
\* the recheck once, in order, whatever the recheck takes out of single pages.
CursorsReadAll ==
  \A size \in Sizes, limit \in Sizes \ {0} :
    \A passes \in SUBSET (1 .. size) :
      LET read == Followed([i \in 1 .. size |-> i], passes, limit) IN
      /\ {read[i] : i \in DOMAIN read} = passes
      /\ \A i, j \in DOMAIN read : i < j => read[i] < read[j]

RangesAreBytes == \A size \in Sizes, range \in Header : Bytes(range, size) = AskedBytes(range, size)

\* The routes agree with each other on what a reader may see and never exceed the
\* preset of its key (docs/architecture.md: one read policy; a key with a preset
\* cannot widen its rights by query parameters); what they show can be asked for and read
\* to the end, and the editors' list knows what is without a label.
OnePolicy ==
  /\ \A n \in Item, p \in Principal :
       /\ RssAgrees(n, p) /\ LinksOpen(n, p)
       /\ \A enabled \in [axes : SUBSET Axes, values : SUBSET Values] :
            ShownIsFound(n, p, enabled) /\ UnlabelledIsBare(n, p, enabled)
       /\ \A old \in Item, wish \in Preset, axes \in SUBSET Axes :
            LET enabled == [axes |-> axes, values |-> Values]
                entry == Entry(old, enabled)
            IN  /\ ListedOpens(n, entry, wish, p, enabled)
                /\ AskingNarrows(n, entry, wish, p, enabled)
  /\ CursorsReadAll
  /\ RangesAreBytes
=============================================================================
