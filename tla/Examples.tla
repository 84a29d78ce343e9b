------------------------------- MODULE Examples -------------------------------
(***************************************************************************)
(* The examples a classifier is sent with a request: published news whose   *)
(* labels an editor decided (classifier_example_repository.py), chosen from *)
(* the append-only history of decisions that edits, releases and the copies *)
(* of a merge or a split leave (manual_decisions.py, provenance.py).  Pure  *)
(* operators; how the decisions become effective labels is Labels' part.    *)
(***************************************************************************)
EXTENDS Integers, Sequences, FiniteSets, SequencesExt, Functions

\* A decision is about an axis of a version; those about one axis of one version are
\* numbered as they were appended, which is their place in the sequence.  A copied
\* decision brings no values: its labels are of another origin.
Fresh == [version |-> 1, decisions |-> <<>>]

Decide(news, axis, origin, action, values) ==
  [news EXCEPT !.decisions =
     Append(@, [version |-> news.version, axis |-> axis, origin |-> origin,
                action |-> action, values |-> values])]

ReplaceAxis(news, axis, values) == Decide(news, axis, "manual", "set", values)
ReleaseAxis(news, axis) == Decide(news, axis, "manual", "release", {})

\* copy() of one decision of another news, into the current version of this one.
CopyDecision(news, axis, action) == Decide(news, axis, "provenance", action, {})

\* An edit starts a version that nobody has decided anything about.
NewVersion(news) == [news EXCEPT !.version = @ + 1]

-----------------------------------------------------------------------------
(* Who is eligible, and with which labels *)

\* Mutant: whatever was decided last, by an editor or by a copy.
AnyOf(news, axis) ==
  {i \in DOMAIN news.decisions :
     news.decisions[i].version = news.version /\ news.decisions[i].axis = axis}

\* The places of the editors' decisions about an axis of the current version.
ManualOf(news, axis) ==
  {i \in DOMAIN news.decisions :
     /\ news.decisions[i].version = news.version
     /\ news.decisions[i].axis = axis
     /\ news.decisions[i].origin = "manual"}

\* The decisions in force: the last of each axis, if it sets labels.
Active(news, axes) ==
  {news.decisions[i] : i \in
     {j \in UNION {ManualOf(news, a) : a \in axes} :
        /\ \A k \in ManualOf(news, news.decisions[j].axis) : k <= j
        /\ news.decisions[j].action = "set"}}

\* _eligible_query(), over what else is known of a news.
Eligible(item, axes) ==
  /\ item.published /\ ~item.gold /\ ~item.skip
  /\ Active(item.news, axes) # {}

\* _latest_labels(): axes the classifier may see, values that are switched on; an
\* axis an editor emptied is there with no value.
LatestLabels(news, allowed, enabled) ==
  LET active == Active(news, allowed) IN
  [a \in {d.axis : d \in active} |->
     (CHOOSE d \in active : d.axis = a).values \cap enabled]

-----------------------------------------------------------------------------
(* The examples of a request: items are 1 .. n, the last updated first *)

\* The setting, between one and the most there may be; 0 is the default number.
ExampleLimit(configured, default, most) ==
  LET wanted == IF configured = 0 THEN default ELSE configured IN
  IF wanted < 1 THEN 1 ELSE IF wanted > most THEN most ELSE wanted

FirstOf(places, limit) == {i \in places : Cardinality({j \in places : j < i}) < limit}

\* list_examples(): the limit comes first, then those without a label to show go.
ListExamples(items, target, axes, allowed, limit) ==
  LET rows == FirstOf({i \in DOMAIN items \ {target} : Eligible(items[i], axes)}, limit) IN
  {i \in rows : DOMAIN LatestLabels(items[i].news, allowed, {}) # {}}

\* eligible_count(): what the administrator is shown.
EligibleCount(items, axes, limit) ==
  Cardinality(FirstOf({i \in DOMAIN items : Eligible(items[i], axes)}, limit))

-----------------------------------------------------------------------------
(* Correctness *)

\* What may happen to a news, one step at a time.
Steps(axes, values) ==
  [does : {"set"}, axis : axes, values : SUBSET values]
  \cup [does : {"release", "copy_set", "copy_release"}, axis : axes]
  \cup [does : {"edit"}]

After(news, step) ==
  CASE step.does = "set" -> ReplaceAxis(news, step.axis, step.values)
    [] step.does = "release" -> ReleaseAxis(news, step.axis)
    [] step.does = "copy_set" -> CopyDecision(news, step.axis, "set")
    [] step.does = "copy_release" -> CopyDecision(news, step.axis, "release")
    [] OTHER -> NewVersion(news)

\* The editor's last word on an axis of the text as it is: no edit came behind it,
\* and no other word; what was copied from another news is not the editor's.
LastWord(steps, i, axis) ==
  /\ steps[i].does = "set" /\ steps[i].axis = axis
  /\ \A j \in DOMAIN steps : j > i =>
       /\ steps[j].does # "edit"
       /\ steps[j].does \in {"set", "release"} => steps[j].axis # axis

\* After any history an example shows a classifier, on each axis that it may see, what
\* an editor last said about this very text, and axes without such a word not at all.
ExamplesAreManual(axes, values, length) ==
  \A steps \in SeqOf(Steps(axes, values), length) :
    LET news == FoldLeft(After, Fresh, steps) IN
    \A allowed \in SUBSET axes, enabled \in SUBSET values :
      LET labels == LatestLabels(news, allowed, enabled)
          spoken == {a \in allowed : \E i \in DOMAIN steps : LastWord(steps, i, a)}
      IN  /\ DOMAIN labels = spoken
          /\ \A a \in spoken, i \in DOMAIN steps :
               LastWord(steps, i, a) => labels[a] = steps[i].values \cap enabled

Item(news) == [published : BOOLEAN, gold : BOOLEAN, skip : BOOLEAN, news : news]

\* The news itself, gold news and what no classifier may judge are never shown, and
\* the administrator, who is told of the news itself and of those without an axis to
\* show as well, is told of no fewer than any request gets.
ExamplesAreAllowed(n, axes, news) ==
  \A items \in [1 .. n -> Item(news)], target \in 1 .. n, allowed \in SUBSET axes :
    \A configured \in 0 .. n + 1 :
      LET limit == ExampleLimit(configured, 1, n)
          listed == ListExamples(items, target, axes, allowed, limit)
      IN  /\ \A i \in listed :
               i # target /\ items[i].published /\ ~items[i].gold /\ ~items[i].skip
          /\ Cardinality(listed) <= EligibleCount(items, axes, limit)
          /\ EligibleCount(items, axes, limit) <= n
=============================================================================
