------------------------------ MODULE MCLabels ------------------------------
(* Instances of Labels, of Scoring and of Examples for TLC. *)
EXTENDS Labels, Scoring, Examples

MCFirstPolicy == [enabled |-> TRUE, shadow |-> FALSE, priority |-> 1, min |-> 1]
MCPolicies == {MCFirstPolicy, [MCFirstPolicy EXCEPT !.shadow = TRUE]}

\* The source of the second news gives it a label.
MCGiven == [n \in News |-> IF n = 2 THEN 1 ELSE None]
\* Lists of up to three editorial rules about one dimension: each is for all,
\* for news marked 1, or for news marked 1 and 2; it sets, adds or both.
MCRule(id, priority, when, assigned, added, stop) ==
  [id |-> id, priority |-> priority, when |-> when, stop |-> stop,
   set |-> [d \in Dimensions |-> assigned], add |-> [d \in Dimensions |-> added]]

MCRules(id) ==
  {MCRule(id, priority, when, assigned, added, stop) :
     priority \in {1, 2}, when \in {{}, {{1}, {2, 3}}}, assigned \in {NoScore, 2, 5},
     added \in {NoScore, 2}, stop \in BOOLEAN}

\* evaluate_scores() gives what the rules mean, however they were listed.
RulesMeanTheirSum ==
  \A r \in MCRules(1), s \in MCRules(2), t \in MCRules(3), labels \in {{1}, {1, 3}} :
    \A d \in Dimensions :
      /\ Evaluate(labels, <<r, t, s>>)[d] = Expected(labels, <<r, s, t>>, d)
      /\ Evaluate(labels, <<t, s, r>>)[d] = Expected(labels, <<r, s, t>>, d)

\* The scores a news gets are those its labels deserve.  Rules and examples depend on
\* no variable of Labels, so one state is enough to look at them.
ScoresAgree == LabelsInit => RulesMeanTheirSum

\* Every history of up to three steps over two axes and two values, and every two
\* news with what may have been decided of them.
ExamplesHold ==
  /\ ExamplesAreManual({"topic", "tone"}, {1, 2}, 3)
  /\ ExamplesAreAllowed(2, {"topic", "tone"},
       {Fresh, ReplaceAxis(Fresh, "topic", {1}), ReplaceAxis(Fresh, "tone", {}),
        ReleaseAxis(ReplaceAxis(Fresh, "tone", {1}), "tone")})

\* A classifier is shown what editors last said, and nothing it must not see.
ExamplesAreRight == LabelsInit => ExamplesHold
=============================================================================
