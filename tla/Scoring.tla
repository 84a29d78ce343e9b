------------------------------- MODULE Scoring -------------------------------
(***************************************************************************)
(* evaluate_scores() of use_cases/scoring.py: the editorial rules applied   *)
(* to the labels of a news, in the order of their priority and id.          *)
(* A label is a member of Marks; a rule names for each axis of its condition *)
(* the values it accepts.                                                   *)
(***************************************************************************)
EXTENDS Integers, FiniteSets, Sequences, SequencesExt, Functions

CONSTANTS Dimensions, Top, NoScore
\* Top: the highest score, 100 in the code; NoScore: a rule does not name it.

ASSUME ScoringAssumption == Top \in Nat /\ NoScore \notin Int

\* A rule: [id, priority, when : SUBSET SUBSET Marks, set, add : dimension ->
\* score or NoScore, stop].

Score(value) == IF value < 0 THEN 0 ELSE IF value > Top THEN Top ELSE value

Matches(labels, when) == \A accepted \in when : labels \cap accepted # {}

Precedes(r, s) == r.priority < s.priority \/ (r.priority = s.priority /\ r.id < s.id)

\* Mutant: the rules are taken as they are listed.
AsListed(rules) == rules

Ordered(rules) ==
  LET listed == Range(rules) IN
  [k \in 1 .. Cardinality(listed) |->
     CHOOSE r \in listed : Cardinality({s \in listed : Precedes(s, r)}) = k - 1]

Applied(rule, scores) ==
  [d \in Dimensions |->
     LET assigned == IF rule.set[d] = NoScore THEN scores[d] ELSE Score(rule.set[d]) IN
     IF rule.add[d] = NoScore THEN assigned ELSE Score(assigned + rule.add[d])]

Unscored == [scores |-> [d \in Dimensions |-> 0], stopped |-> FALSE]

Consider(labels, state, rule) ==
  IF state.stopped \/ ~Matches(labels, rule.when) THEN state
  ELSE [scores |-> Applied(rule, state.scores), stopped |-> rule.stop]

Evaluate(labels, rules) ==
  LET Step(state, rule) == Consider(labels, state, rule) IN
  FoldLeft(Step, Unscored, Ordered(rules)).scores

-----------------------------------------------------------------------------
\* Those of a set of rules that have a say: they match and none before them that
\* matches stops.
Heard(labels, rules) ==
  {r \in rules :
     Matches(labels, r.when) /\ \A s \in rules : Precedes(s, r) /\ Matches(labels, s.when) => ~s.stop}

Deciding(heard, d) ==
  LET sets == {r \in heard : r.set[d] # NoScore} IN
  {r \in sets : \A s \in sets \ {r} : Precedes(s, r)}

AddsSince(heard, d) ==
  {r \in heard : r.add[d] # NoScore /\ \A s \in Deciding(heard, d) : r = s \/ Precedes(s, r)}

\* What the scores are, said without an order of evaluation, for rules that
\* add nothing below 0: the last assignment and all that was added since.
Assigned(heard, d) ==
  IF Deciding(heard, d) = {} THEN 0 ELSE Score((CHOOSE r \in Deciding(heard, d) : TRUE).set[d])

Added(heard, d) ==
  SumFunctionOnSet([r \in AddsSince(heard, d) |-> r.add[d]], AddsSince(heard, d))

Deserved(heard, d) == Score(Assigned(heard, d) + Added(heard, d))

Expected(labels, rules, d) == Deserved(Heard(labels, Range(rules)), d)
=============================================================================
