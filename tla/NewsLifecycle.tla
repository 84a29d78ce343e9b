---------------------------- MODULE NewsLifecycle ----------------------------
(***************************************************************************)
(* What the administration API does to the row of table news: the states   *)
(* of a news, the moves editors may make between them, and the effects of   *)
(* the operations on the fields that decide who may read it.  Used by       *)
(* NewsPipeline and SearchProjection, whose news records have the fields    *)
(*   status     news.status                                                 *)
(*   published  news.published_at IS NOT NULL: it was published once        *)
(*   deleted    news.deleted_at IS NOT NULL                                 *)
(***************************************************************************)

NewsState ==
  {"pending", "processing", "needs_review", "published", "rejected", "archived", "deleted"}

Undecided == {"pending", "processing", "needs_review"}

\* The table of transition(): from which states an editor may move where.
Allowed ==
  [published |-> Undecided \cup {"rejected"},
   rejected |-> Undecided \cup {"published"},
   archived |-> {"published", "rejected"},
   deleted |-> NewsState \ {"deleted"}]

\* The targets that have a route of their own: publish, reject, delete.
Targets == {"published", "rejected", "deleted"}

\* NewsAdministrationBase.get: every editing route but the labels starts so.
Editable(n) == n.status # "deleted"

CanTransition(n, target) == Editable(n) /\ n.status \in Allowed[target]

Transitioned(n, target) ==
  [n EXCEPT !.status = target,
            !.published = n.published \/ target = "published",
            !.deleted = n.deleted \/ target = "deleted"]

\* merge() and split() send the news they are called for back to the editors.
SentToReview(n) == [n EXCEPT !.status = "needs_review"]

\* merge() archives the news it takes the submissions from.
MergedAway(n) == [n EXCEPT !.status = "archived"]

-----------------------------------------------------------------------------
(* Who sees the news, once the visibility barrier is open *)

\* enforce_access for a reader: the check of every public route.
Accessible(n) == n.status = "published"

\* The document of the index: there is none for a news readers may not see.
Indexable(n) == n.status = "published" /\ ~n.deleted
=============================================================================
