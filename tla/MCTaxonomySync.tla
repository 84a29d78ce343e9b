---------------------------- MODULE MCTaxonomySync ----------------------------
(* Instances of TaxonomySync, of Corpus and of Evaluation for TLC. *)
EXTENDS TaxonomySync, Corpus, Evaluation

CONSTANTS axis1, axis2, axis3, value1, value2, value3, value4, source1

MCFacetOf == (value1 :> axis1) @@ (value2 :> axis1) @@ (value3 :> axis1) @@ (value4 :> axis3)
KindOf(i, k) == IF i \in Facets THEN k ELSE AnyKind

\* An axis and a value of it that main has, and a new one of each.
MCFile == [i \in {axis1, axis3, value1, value2, value4, source1} |-> [kind |-> KindOf(i, "single"), text |-> 1]]
Had(i, k, t, o) == [kind |-> KindOf(i, k), text |-> t, note |-> 0, on |-> o]
MCStart(k, o) ==
  [i \in Items |-> CASE i \in {axis3, value2, value4, source1} -> Absent
                     [] i = axis1 -> Had(i, k, 0, TRUE)
                     [] i = value1 -> Had(i, k, 0, o)
                     [] OTHER -> Had(i, "single", 1, TRUE)]
MCStarts == {MCStart("single", FALSE), MCStart("multi", TRUE)}

-----------------------------------------------------------------------------
(* The tools that work something out.  What they should work out depends on no *)
(* variable of TaxonomySync, so the initial states are enough.                 *)

\* Groups of reprints are the chains of likeness, none of which the index hides, labels
\* are copied once and for all, and samples take what is wanted: for every likeness of
\* four posts, the manual axes of three, and every three channels of up to six posts.
CorpusIsRight ==
  /\ \A n \in 1 .. 4 : GroupsAreChains(n)
  /\ IndexMissesNothing(3, {"a", "b"}, 3, 2, {1}, {50, 80})
  /\ IndexMissesNothing(3, {"a"}, 3, 2, {1, 2}, {80})
  /\ TransfersSettle(3, {"topic", "tone"})
  /\ QuotasFill(1 .. 3, 0 .. 6, 0 .. 12, {20, 50})

\* What an evaluation judges is what the service would publish, with the exceptions that
\* EvaluatesWhatRuns names: two values, three degrees of confidence, two thresholds, and
\* either classifier above the other, or neither.
EvaluationJudgesWhatRuns ==
  EvaluatesWhatRuns(Proposal({1, 2}, {4, 6, 8}), 2, {6, 7}, {50, 100})

\* Metrics, kappas and bins measure what their names say, and noise is rejected once: up
\* to three posts, two values, two annotators.
MeasuresAreRight ==
  /\ \A n \in 1 .. 3 : MetricsMeasure(n, {1, 2}) /\ KappaAgrees(n, {1, 2, 3})
  /\ ReportAgrees(3, {1, 2}) /\ BinsAreComplete(2, {1, 2}, {49, 50, 59, 60, 99, 100}, 1)
  /\ BinsAreComplete(1, {1, 2}, {49, 50, 99}, 2)
  /\ NoiseSettles(4, {1, 2}, 2)

\* What the tools work out of a corpus and of an evaluation is what it should be, with
\* the exceptions that the statements name.
ToolsAreRight == SyncInit => CorpusIsRight /\ EvaluationJudgesWhatRuns /\ MeasuresAreRight
===============================================================================
