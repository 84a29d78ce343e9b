------------------------------ MODULE Evaluation ------------------------------
(***************************************************************************)
(* How the tools judge the classifiers: the predictions of an evaluation    *)
(* run (eval_runners.py), its metrics (eval_metrics.py), the agreement of   *)
(* two annotators (eval_kappa.py), and which posts are noise                *)
(* (reject_noise.py).  Each is followed by what it should do.               *)
(*                                                                          *)
(* A post is annotated on an axis with a set of its values; fractions are   *)
(* pairs of a numerator and a denominator that is not 0.                    *)
(***************************************************************************)
EXTENDS Integers, Sequences, FiniteSets, SequencesExt, Functions

Numbers(n, P(_)) == Cardinality({i \in 1 .. n : P(i)})

Fraction(a, b) == IF b = 0 THEN <<0, 1>> ELSE <<a, b>>
Equal(x, y) == x[1] * y[2] = y[1] * x[2]
One == <<1, 1>>

-----------------------------------------------------------------------------
(* Predictions of one axis: what a classifier proposes is a sequence of      *)
(* [value, confidence]; a value is a number, its place among the slugs.      *)

Proposal(values, confidences) == [value : values, confidence : confidences]

\* The places of those that are sure enough.
Above(proposals, threshold) == {k \in DOMAIN proposals : proposals[k].confidence >= threshold}

\* Stable: of two that are equally sure the first proposed comes first.
Surer(proposals, i, j) ==
  \/ proposals[i].confidence > proposals[j].confidence
  \/ proposals[i].confidence = proposals[j].confidence /\ i < j

BySureness(proposals, places) ==
  LET order == [k \in 1 .. Cardinality(places) |->
        CHOOSE i \in places : Cardinality({j \in places : Surer(proposals, j, i)}) = k - 1]
  IN  [k \in DOMAIN order |-> proposals[order[k]]]

OfKind(kind, winners) ==
  IF kind = "single" /\ winners # <<>> THEN <<winners[1]>> ELSE winners

\* Mutant: the tier is chosen by what was proposed, sure enough or not.
CombinedOfAnything(kind, regex, ai, thresholds) ==
  OfKind(kind, IF regex # <<>> THEN BySureness(regex, Above(regex, thresholds.regex))
               ELSE BySureness(ai, Above(ai, thresholds.ai)))

\* combine(): the regex classifier goes first, if it is sure enough of anything.
Combined(kind, regex, ai, thresholds) ==
  LET first == Above(regex, thresholds.regex)
      second == Above(ai, thresholds.ai)
  IN  OfKind(kind, IF first # {} THEN BySureness(regex, first) ELSE BySureness(ai, second))

\* opinion_priority(): the priority of the row of a classifier, which an administrator
\* gives; of two that are equal the greater key, which begins with its slug.
Outranks(priority, one, other) ==
  \/ priority[one] > priority[other]
  \/ priority[one] = priority[other] /\ one = "regex"

\* What LabelMaterializer.recompute makes of the same two opinions, if nobody else has
\* one: the rows that are sure enough, of the opinion that outranks the other, by
\* confidence and slug.
Materialized(kind, regex, ai, thresholds, priority) ==
  LET rows(opinion, proposals, least) ==
        {[opinion |-> opinion, value |-> p.value, confidence |-> p.confidence] :
           p \in {q \in Range(proposals) : q.confidence >= least}}
      all == rows("regex", regex, thresholds.regex) \cup rows("ai", ai, thresholds.ai)
      winners == {r \in all : \A s \in all : \/ s.opinion = r.opinion
                                             \/ Outranks(priority, r.opinion, s.opinion)}
      best == {r \in winners : \A s \in winners \ {r} :
                 \/ r.confidence > s.confidence
                 \/ r.confidence = s.confidence /\ r.value < s.value}
  IN  {r.value : r \in IF kind = "single" THEN best ELSE winners}

ValuesIn(predicted) == {predicted[k].value : k \in DOMAIN predicted}

\* Both classifiers are sure of something, and the service ranks first the one that the
\* tool ranks second.
RankedOtherwise(regex, ai, thresholds, priority) ==
  /\ Above(regex, thresholds.regex) # {} /\ Above(ai, thresholds.ai) # {}
  /\ Outranks(priority, "ai", "regex")

\* An evaluation judges the labels that the service would publish, whatever priorities
\* its classifiers have, but where the service ranks the language model above the regular
\* expressions and both are sure enough of something: there the service publishes what
\* the model alone is judged by.  Also excepted is a classifier that is equally sure of
\* two values of one axis: the tool takes what was proposed first, the service the lesser
\* slug.
EvaluatesWhatRuns(proposals, most, thresholds, priorities) ==
  LET opinions == {s \in SeqOf(proposals, most) :
                     \A i, j \in DOMAIN s : i # j => s[i].value # s[j].value
                                                     /\ s[i].confidence # s[j].confidence}
  IN  \A kind \in {"single", "multi"}, regex, ai \in opinions,
         limits \in [regex : thresholds, ai : thresholds],
         priority \in [regex : priorities, ai : priorities] :
        Materialized(kind, regex, ai, limits, priority)
          = ValuesIn(IF RankedOtherwise(regex, ai, limits, priority)
                     THEN Combined(kind, <<>>, ai, limits) ELSE Combined(kind, regex, ai, limits))

-----------------------------------------------------------------------------
(* Metrics of an axis over posts 1 .. n with their gold and predicted values *)

TruePositives(n, gold, pred, v) == Numbers(n, LAMBDA i : v \in gold[i] /\ v \in pred[i])
FalsePositives(n, gold, pred, v) == Numbers(n, LAMBDA i : v \notin gold[i] /\ v \in pred[i])
FalseNegatives(n, gold, pred, v) == Numbers(n, LAMBDA i : v \in gold[i] /\ v \notin pred[i])

\* _prf(): the harmonic mean of precision and recall.
Harmonic(p, r) == Fraction(2 * p[1] * r[1], p[1] * r[2] + r[1] * p[2])

F1(n, gold, pred, v) ==
  LET tp == TruePositives(n, gold, pred, v) IN
  Harmonic(Fraction(tp, tp + FalsePositives(n, gold, pred, v)),
           Fraction(tp, tp + FalseNegatives(n, gold, pred, v)))

\* Values no gold post has do not count for macro F1.
Supported(n, gold, v) == \E i \in 1 .. n : v \in gold[i]

Exact(n, gold, pred) == Fraction(Numbers(n, LAMBDA i : gold[i] = pred[i]), n)

\* F1 is Dice's measure of the posts that have a value and those predicted to, and
\* all posts are exact when every value is, and no other is ever predicted.
MetricsMeasure(n, values) ==
  \A gold, pred \in [1 .. n -> SUBSET values] :
    LET Has(s, v) == {i \in 1 .. n : v \in s[i]} IN
    /\ \A v \in values :
         Equal(F1(n, gold, pred, v),
               Fraction(2 * Cardinality(Has(gold, v) \cap Has(pred, v)),
                        Cardinality(Has(gold, v)) + Cardinality(Has(pred, v))))
    /\ Equal(Exact(n, gold, pred), One) <=>
         \A v \in values : IF Supported(n, gold, v) THEN Equal(F1(n, gold, pred, v), One)
                           ELSE Has(pred, v) = {}

-----------------------------------------------------------------------------
(* Kappa of two annotators who put posts 1 .. n into categories *)

\* An axis nobody decided for a post, and a cell left empty.
Unmarked == 0

\* Only posts that both annotated on the axis are compared.
Compared(n, gold, other) == {i \in 1 .. n : gold[i] # Unmarked /\ other[i] # Unmarked}

Chance(posts, a, b, categories) ==
  FoldFunction(+, 0, [c \in categories |->
    Cardinality({i \in posts : a[i] = c}) * Cardinality({i \in posts : b[i] = c})])

\* cohen_kappa(), with both terms of the fraction times the square of the posts.
Kappa(posts, a, b, categories) ==
  LET n == Cardinality(posts)
      chance == Chance(posts, a, b, categories)
  IN  IF chance = n * n THEN One
      ELSE <<Cardinality({i \in posts : a[i] = b[i]}) * n - chance, n * n - chance>>

\* Whoever is asked first, two annotators agree as much, fully only where they do on
\* every post they both annotated, and never by dividing by 0.
KappaAgrees(n, categories) ==
  \A a, b \in [1 .. n -> categories \cup {Unmarked}] :
    LET posts == Compared(n, a, b)
        kappa == Kappa(posts, a, b, categories)
    IN  posts # {} =>
          /\ kappa = Kappa(posts, b, a, categories)
          /\ kappa[2] > 0 /\ kappa[1] <= kappa[2] /\ kappa[1] >= -kappa[2]
          /\ Equal(kappa, One) <=> \A i \in posts : a[i] = b[i]

\* kappa_report() of posts both annotated, each now with the values of the axis: a single
\* axis has one category for each set of values, a multi axis is the mean over its values,
\* without those that neither annotator ever gave.
Given(gold, other, values) ==
  {v \in values : \E i \in DOMAIN gold : v \in gold[i] \cup other[i]}

Plus(x, y) == <<x[1] * y[2] + y[1] * x[2], x[2] * y[2]>>

Mean(fractions) ==
  LET sum == FoldFunction(Plus, <<0, 1>>, fractions)
  IN  IF DOMAIN fractions = {} THEN One ELSE <<sum[1], sum[2] * Cardinality(DOMAIN fractions)>>

AxisKappa(kind, gold, other, values) ==
  LET posts == DOMAIN gold
      Has(s, v) == [i \in posts |-> v \in s[i]]
  IN  IF kind = "single" THEN Kappa(posts, gold, other, SUBSET values)
      ELSE Mean([v \in Given(gold, other, values) |->
                   Kappa(posts, Has(gold, v), Has(other, v), BOOLEAN)])

Disagreements(gold, other) == {i \in DOMAIN gold : gold[i] # other[i]}

\* The report calls an axis settled exactly when it lists no disagreement, and says the
\* same whoever of the two is asked first.
ReportAgrees(n, values) ==
  \A gold, other \in [1 .. n -> SUBSET values], kind \in {"single", "multi"} :
    LET kappa == AxisKappa(kind, gold, other, values) IN
    /\ kappa[2] > 0 /\ kappa[1] <= kappa[2]
    /\ Equal(kappa, One) <=> Disagreements(gold, other) = {}
    /\ Equal(kappa, AxisKappa(kind, other, gold, values))

-----------------------------------------------------------------------------
(* Calibration: the predictions of all axes by their confidence, in hundredths *)

\* 1.0001, so that the last bin has the predictions that are certain.
Bins == <<50, 60, 70, 80, 90, 101>>

\* calibration(): how many predictions are in a bin, and how many of them are right.
Inside(items, k) ==
  {p \in DOMAIN items : Bins[k] <= items[p].confidence /\ items[p].confidence < Bins[k + 1]}
Right(items, places) == {p \in places : items[p].right}
Calibration(items) ==
  [k \in 1 .. Len(Bins) - 1 |->
     [n |-> Cardinality(Inside(items, k)), right |-> Cardinality(Right(items, Inside(items, k)))]]

\* summarize(): the predictions, each at its place among those of its post; where the gold
\* is not decided they are not judged.
Decided(gold) == {i \in DOMAIN gold : gold[i] # {Unmarked}}
Judged(gold, pred) ==
  [p \in UNION {{<<i, k>> : k \in DOMAIN pred[i]} : i \in Decided(gold)} |->
     LET told == pred[p[1]][p[2]] IN
     [confidence |-> told.confidence, right |-> told.value \in gold[p[1]]]]

\* Every prediction that is at least half sure is in one bin, the certain ones too, so that
\* the bins have together as many right ones as the axes have true positives.
BinsAreComplete(n, values, confidences, most) ==
  LET opinions == {s \in SeqOf(Proposal(values, confidences), most) :
                     \A i, j \in DOMAIN s : i # j => s[i].value # s[j].value}
  IN  \A gold \in [1 .. n -> SUBSET values \cup {{Unmarked}}], pred \in [1 .. n -> opinions] :
        LET bins == Calibration(Judged(gold, pred))
            Total(f) == FoldFunction(+, 0, f)
            of(i) == {p.value : p \in {q \in Range(pred[i]) : q.confidence >= Bins[1]}}
        IN  /\ Total([k \in DOMAIN bins |-> bins[k].n])
                 = Total([i \in Decided(gold) |-> Cardinality(of(i))])
            /\ Total([k \in DOMAIN bins |-> bins[k].right])
                 = Total([i \in Decided(gold) |-> Cardinality(of(i) \cap gold[i])])

-----------------------------------------------------------------------------
(* Noise: posts are 1 .. n, each of an author and empty, short or not short   *)
(* enough to be noise (long, with markup, a link or a call to all)            *)

Regulars(left, author, least) ==
  {p \in {author[i] : i \in left} : Cardinality({i \in left : author[i] = p}) >= least}

\* find_candidates(): empty posts, and short ones of who does not run the channel.
Noise(left, author, look, least) ==
  {i \in left : look[i] = "empty"
                \/ (look[i] = "short" /\ author[i] \notin Regulars(left, author, least))}

\* Run again on what it left, the tool rejects nothing more, except from an author
\* whose empty posts made a regular of them.
NoiseSettles(n, authors, least) ==
  \A author \in [1 .. n -> authors], look \in [1 .. n -> {"empty", "short", "other"}] :
    LET once == Noise(1 .. n, author, look, least)
        more == Noise((1 .. n) \ once, author, look, least)
    IN  \A i \in more :
          /\ author[i] \in Regulars(1 .. n, author, least)
          /\ \E j \in once : author[j] = author[i] /\ look[j] = "empty"
=============================================================================
