-------------------------------- MODULE MCNode --------------------------------
(* Instances of ClassifierNode and of Proposals for TLC. *)
EXTENDS ClassifierNode, Proposals

MCOffsets == {-1, 0, 2}

\* A regex node, an AI node that calls back, and the two without a key they need.
MCInstalled ==
  {[deferred |-> d, caller |-> TRUE, signing |-> s] : d, s \in BOOLEAN}
  \cup {[deferred |-> FALSE, caller |-> FALSE, signing |-> TRUE]}

\* A single axis and a multiple one, the values of the first not in the order of
\* their names; and the same with the first axis, or a value of it, disabled.
MCTaxonomy == <<[single |-> TRUE, values |-> <<2, 1>>], [single |-> FALSE, values |-> <<1, 2>>]>>
MCTaxonomies ==
  {MCTaxonomy, [a \in {2} |-> MCTaxonomy[a]],
   [MCTaxonomy EXCEPT ![1] = [single |-> TRUE, values |-> <<2>>]]}
MCDemands == {[allowed |-> a, min |-> m] : a \in {{}, {1}}, m \in {0, 65}}

\* Labels of these axes, and a value and an axis that nobody knows.
MCLabels == [axis : {1, 2}, value : {1, 2}, confidence : {60, 130}] \cup
            {[axis |-> 3, value |-> 1, confidence |-> 70], [axis |-> 2, value |-> 3, confidence |-> 70]}

\* Every answer of up to three labels, and every set of findings, with any of the
\* taxonomies and demands at the request and at the answer.
ProposalsHold ==
  \A taxonomy, present \in MCTaxonomies, demand, granted \in MCDemands :
    StoresWhatIsMeant(taxonomy, demand, present, granted, BoundedSeq(MCLabels, 3),
                      [1 .. 2 -> [1 .. 2 -> {0, 1, 9}]])

\* Main stores what a node meant, as far as it may by now.  This depends on no variable of
\* ClassifierNode, so the initial states are enough to look at it.
MainStoresWhatIsMeant == NodeInit => ProposalsHold
===============================================================================
