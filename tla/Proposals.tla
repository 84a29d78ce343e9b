------------------------------ MODULE Proposals ------------------------------
(***************************************************************************)
(* From what a model says, or what the rules of a taxonomy find in a text,  *)
(* to the labels main takes over: the AI node and the regex node each       *)
(* propose a list, and normalize_labels() makes of it what is stored.       *)
(* Sources: request_builder.py, normalize_response.py, build_payload.py,    *)
(* classify.py (regex), result_applier.py, normalization.py.  Confidences   *)
(* are in hundredths.                                                       *)
(*                                                                          *)
(* A taxonomy has, for each enabled axis, whether it is single, which never *)
(* changes, and its enabled values in order.  A demand is what a classifier *)
(* may say: the allowed axes, none for all of them, and the least           *)
(* confidence.  Main reads both again when the answer comes.                *)
(***************************************************************************)
EXTENDS Integers, Sequences, SequencesExt

Values(taxonomy, axis) == ToSet(taxonomy[axis].values)

\* What main sends: the allowed axes that are enabled.  If none of them is, the
\* node is told none, which it takes for all.
Sent(taxonomy, demand) ==
  [demand EXCEPT !.allowed = IF @ = {} THEN DOMAIN taxonomy ELSE @ \cap DOMAIN taxonomy]

\* The axes the model is told about, and those an answer may use.
Asked(taxonomy, demand) ==
  IF demand.allowed = {} THEN DOMAIN taxonomy ELSE DOMAIN taxonomy \cap demand.allowed

Clamped(x) == IF x < 0 THEN 0 ELSE IF x > 100 THEN 100 ELSE x

-----------------------------------------------------------------------------
(* The AI node *)

\* Mutant: an axis counts as answered before the confidence was looked at.
MarkedFirst(taxonomy, demand, sofar, raw) ==
  IF \/ raw.axis \notin Asked(taxonomy, demand)
     \/ raw.value \notin Values(taxonomy, raw.axis)
     \/ taxonomy[raw.axis].single /\ raw.axis \in sofar.seen
  THEN sofar
  ELSE [seen |-> sofar.seen \cup {raw.axis},
        labels |-> IF Clamped(raw.confidence) < demand.min THEN sofar.labels
                   ELSE Append(sofar.labels, [raw EXCEPT !.confidence = Clamped(@)])]

\* One turn of the loop of labels(): the first label of a single axis that is
\* good enough closes the axis.
Taken(taxonomy, demand, sofar, raw) ==
  IF \/ raw.axis \notin Asked(taxonomy, demand)
     \/ raw.value \notin Values(taxonomy, raw.axis)
     \/ taxonomy[raw.axis].single /\ raw.axis \in sofar.seen
     \/ Clamped(raw.confidence) < demand.min
  THEN sofar
  ELSE [seen |-> sofar.seen \cup {raw.axis},
        labels |-> Append(sofar.labels, [raw EXCEPT !.confidence = Clamped(@)])]

\* labels(): what an AI node proposes from the answer of its model.
AIProposals(taxonomy, demand, answer) ==
  FoldLeft(LAMBDA sofar, raw : Taken(taxonomy, demand, sofar, raw),
           [seen |-> {}, labels |-> <<>>], answer).labels

-----------------------------------------------------------------------------
(* The regex node *)

\* Of every keyword and pattern of a value, how many are found makes a label.
Confidence(hits) == IF 60 + 10 * (hits - 1) > 95 THEN 95 ELSE 60 + 10 * (hits - 1)

\* Whether the i-th value of an axis stays: of a single one the strongest that
\* is found, and of equals the first; else each that is found.
Chosen(axis, hits, i) ==
  LET c(j) == Confidence(hits[axis.values[j]])
  IN  /\ hits[axis.values[i]] > 0
      /\ axis.single =>
           \A j \in DOMAIN axis.values : hits[axis.values[j]] > 0 =>
             \/ c(j) < c(i)
             \/ c(j) = c(i) /\ i <= j

\* classify(): hits says how often each value of each axis is found.
RegexProposals(taxonomy, demand, hits) ==
  UNION {{[axis |-> a, value |-> v, confidence |-> Confidence(hits[a][v])] :
            v \in {taxonomy[a].values[i] : i \in {i \in DOMAIN taxonomy[a].values :
                    /\ Chosen(taxonomy[a], hits[a], i)
                    /\ Confidence(hits[a][taxonomy[a].values[i]]) >= demand.min}}} :
         a \in Asked(taxonomy, demand)}

-----------------------------------------------------------------------------
(* Main *)

\* _rank(): the stronger, and of equals the first by name.
Before(l, k) ==
  \/ l.confidence > k.confidence
  \/ l.confidence = k.confidence /\ l.value <= k.value

Usable(taxonomy, demand, label) ==
  /\ label.axis \in Asked(taxonomy, demand)
  /\ label.value \in Values(taxonomy, label.axis)
  /\ Clamped(label.confidence) >= demand.min

\* normalize_labels(): the strongest label of each value, and of each single
\* axis the strongest of all, in whatever order they came.
Normalized(taxonomy, demand, labels) ==
  LET usable == {[l EXCEPT !.confidence = Clamped(@)] :
                   l \in {l \in labels : Usable(taxonomy, demand, l)}}
      strongest == {l \in usable : \A k \in usable :
                      l.axis = k.axis /\ l.value = k.value => l.confidence >= k.confidence}
  IN  {l \in strongest : taxonomy[l.axis].single =>
         \A k \in strongest : k.axis = l.axis => Before(l, k)}

-----------------------------------------------------------------------------
(* What they should do *)

\* What is taken of the answer of a model, told from the answer itself: of a
\* single axis the first label that is good enough, even if a stronger one
\* follows, and else of each value the strongest.
Meant(taxonomy, demand, answer) ==
  LET good == {i \in DOMAIN answer : Usable(taxonomy, demand, answer[i])}
      same(i, j) == IF taxonomy[answer[i].axis].single THEN answer[i].axis = answer[j].axis
                    ELSE answer[i].axis = answer[j].axis /\ answer[i].value = answer[j].value
      wins(i, j) == IF taxonomy[answer[i].axis].single THEN i <= j
                    ELSE Clamped(answer[i].confidence) >= Clamped(answer[j].confidence)
  IN  {[answer[i] EXCEPT !.confidence = Clamped(@)] :
         i \in {i \in good : \A j \in good : same(i, j) => wins(i, j)}}

\* Of what the model meant when it was asked, and of all that a regex node found
\* then, main stores exactly what the taxonomy and the demand allow by now.
StoresWhatIsMeant(taxonomy, demand, present, granted, answers, findings) ==
  LET told == Sent(taxonomy, demand) IN
  /\ \A answer \in answers :
       Normalized(present, granted, ToSet(AIProposals(taxonomy, told, answer)))
         = {l \in Meant(taxonomy, told, answer) : Usable(present, granted, l)}
  /\ \A hits \in findings :
       Normalized(present, granted, RegexProposals(taxonomy, told, hits))
         = {l \in RegexProposals(taxonomy, told, hits) : Usable(present, granted, l)}
=============================================================================
