-------------------------------- MODULE Corpus --------------------------------
(***************************************************************************)
(* The algorithms of the corpus tools: which posts reprint one another      *)
(* (duplicates.py), whose manual labels their copies are given              *)
(* (copy_labels.py), and how many posts of each channel are annotated       *)
(* (sample.py).  Each is followed by what it should do.                     *)
(***************************************************************************)
EXTENDS Integers, Sequences, FiniteSets, FiniteSetsExt, SequencesExt, Functions

-----------------------------------------------------------------------------
(* find_groups(): posts are 1 .. n in the order they were published; like    *)
(* holds the pairs that are similar enough and may be of one event, and some *)
(* posts have no words at all.                                               *)

\* root(): the parents it shortens on its way lead to the same root.
Root(parent, i) ==
  LET up[k \in 0 .. Cardinality(DOMAIN parent)] ==
        [j \in DOMAIN parent |-> IF k = 0 THEN j ELSE up[k - 1][parent[j]]]
  IN  up[Cardinality(DOMAIN parent)][i]

\* Two posts that are alike join their groups.
Joined(parent, i, j) == [parent EXCEPT ![Root(parent, i)] = Root(parent, j)]

\* The parents when post i was compared with each post before it.
Placed(parent, i, like) ==
  LET with[j \in 0 .. i - 1] ==
        IF j = 0 THEN parent
        ELSE IF <<i, j>> \in like THEN Joined(with[j - 1], i, j) ELSE with[j - 1]
  IN  with[i - 1]

Forest(n, like) ==
  LET upto[i \in 0 .. n] == IF i = 0 THEN [j \in 1 .. n |-> j] ELSE Placed(upto[i - 1], i, like)
  IN  upto[n]

\* The groups of at least two posts; the first one published is the origin.
Groups(n, words, like) ==
  LET forest == Forest(n, {p \in like : {p[1], p[2]} \subseteq words})
      members(r) == {i \in words : Root(forest, i) = r}
  IN  {g \in {members(r) : r \in 1 .. n} : Cardinality(g) > 1}

\* No likeness leads out of a set of posts.
Closed(posts, like) == \A p \in like : p[1] \in posts <=> p[2] \in posts

\* A chain of likenesses leads from i to j: it stays in every closed set.
Chained(words, like, i, j) ==
  \A posts \in SUBSET words : Closed(posts, like) /\ i \in posts => j \in posts

\* Posts are in one group when a chain of likenesses joins them, even if the
\* ends of the chain are not alike or not of one event.
GroupsAreChains(n) ==
  \A words \in SUBSET (1 .. n), like \in SUBSET {p \in (1 .. n) \X (1 .. n) : p[2] < p[1]} :
    LET within == {p \in like : {p[1], p[2]} \subseteq words}
    IN  \A i, j \in words : i # j =>
          ((\E g \in Groups(n, words, like) : {i, j} \subseteq g) <=> Chained(words, within, i, j))

\* shingles(): runs of so many words, or the words of a shorter post.
Shingles(words, size) ==
  IF Len(words) < size THEN {<<words[k]>> : k \in DOMAIN words}
  ELSE {SubSeq(words, k, k + size - 1) : k \in 1 .. Len(words) - size + 1}

\* similarity() of two sets of shingles: what they share of all they have.
Score(left, right) == <<Cardinality(left \cap right), Cardinality(left \cup right)>>
AtLeast(score, threshold) == score[2] > 0 /\ 100 * score[1] >= threshold * score[2]

\* same_event(): posts that name no day may be of any event.
SameEvent(left, right) == left = {} \/ right = {} \/ left \cap right # {}

\* The earlier posts that the index has under one of the shingles.
Candidates(prints, i) == {j \in 1 .. i - 1 : \E shingle \in prints[i] : shingle \in prints[j]}

\* The pairs find_groups() joins.
Met(n, prints, dates, threshold) ==
  {p \in (1 .. n) \X (1 .. n) :
     /\ p[2] \in Candidates(prints, p[1])
     /\ AtLeast(Score(prints[p[1]], prints[p[2]]), threshold)
     /\ SameEvent(dates[p[1]], dates[p[2]])}

\* The scores of a post; the best of them is written beside it as a copy.
Scores(met, prints, i) ==
  {Score(prints[p[1]], prints[p[2]]) : p \in {q \in met : i \in {q[1], q[2]}}}

\* The index hides no pair of similar posts, and every copy has a score that is enough,
\* even where it was joined to others than the origin.
IndexMissesNothing(n, words, longest, size, days, thresholds) ==
  \A text \in [1 .. n -> SeqOf(words, longest)], dates \in [1 .. n -> SUBSET days], t \in thresholds :
    LET prints == [i \in 1 .. n |-> Shingles(text[i], size)]
        met == Met(n, prints, dates, t)
        written == {i \in 1 .. n : text[i] # <<>>}
    IN  /\ \A i, j \in written :
             j < i /\ SameEvent(dates[i], dates[j])
               => (<<i, j>> \in met <=> AtLeast(Score(prints[j], prints[i]), t))
        /\ \A g \in Groups(n, written, met) : \A i \in g :
             \E score \in Scores(met, prints, i) : AtLeast(score, t)
        /\ \A i, j \in written : j < i /\ text[i] = text[j] /\ dates[i] = dates[j] =>
             \E g \in Groups(n, written, met) : {i, j} \subseteq g

\* plan_transfers(): the copies of a post are given its manual axes that they
\* have not; manual holds the axes of each post that a source does not drive.
Transfers(groups, manual) ==
  {t \in UNION {{[from |-> Min(g), to |-> i, axes |-> manual[Min(g)] \ manual[i]] :
                   i \in g \ {Min(g)}} : g \in groups} :
     t.axes # {}}

\* Every manual axis of an origin gets to its copies and nothing else does, so
\* that the tool, run again, has nothing left to do.
TransfersSettle(n, axes) ==
  \A pairs \in SUBSET {p \in (1 .. n) \X (1 .. n) : p[2] < p[1]}, manual \in [1 .. n -> SUBSET axes] :
    LET groups == Groups(n, 1 .. n, pairs)
        given == Transfers(groups, manual)
        after == [i \in 1 .. n |-> manual[i] \cup UNION {t.axes : t \in {t \in given : t.to = i}}]
    IN  /\ Transfers(groups, after) = {}
        /\ \A i \in 1 .. n : (\A g \in groups : i = Min(g) \/ i \notin g) => after[i] = manual[i]
        /\ \A g \in groups : \A i \in g : after[i] = manual[i] \cup manual[Min(g)]

-----------------------------------------------------------------------------
(* quotas(): sizes is how many posts each channel has, cap is in hundredths. *)

Sum(f) == FoldFunction(+, 0, f)
Least(a, b) == IF a < b THEN a ELSE b

\* round() of a / b: halves go to the even neighbour.
Rounded(a, b) ==
  LET down == a \div b
      rest == 2 * (a % b)
  IN  IF rest > b \/ (rest = b /\ down % 2 = 1) THEN down + 1 ELSE down

\* What the cap says, and at least one.
FirstCeiling(sizes, size, cap) == IF (size * cap) \div 100 > 1 THEN (size * cap) \div 100 ELSE 1

\* The least ceiling from there on under which size can be had.
Ceiling(sizes, size, cap) ==
  LET first == FirstCeiling(sizes, size, cap)
      enough(c) == Sum([k \in DOMAIN sizes |-> Least(c, sizes[k])]) >= size
  IN  CHOOSE c \in first .. first + Sum(sizes) :
        /\ enough(c) \/ \A k \in DOMAIN sizes : sizes[k] <= c
        /\ \A d \in first .. c - 1 : ~enough(d) /\ \E k \in DOMAIN sizes : sizes[k] > d

Larger(sizes, k, l) == sizes[k] > sizes[l] \/ (sizes[k] = sizes[l] /\ k < l)

\* The channels, the largest first.
InTurn(sizes) ==
  [p \in 1 .. Cardinality(DOMAIN sizes) |->
     CHOOSE k \in DOMAIN sizes : Cardinality({l \in DOMAIN sizes : Larger(sizes, l, k)}) = p - 1]

\* Each channel in turn gives one more, as long as size is not had.
OneMore(have, k, most, size) ==
  IF Sum(have) < size /\ have[k] < most[k] THEN [have EXCEPT ![k] = @ + 1] ELSE have

OnceAround(have, order, most, size) ==
  LET upto[p \in 0 .. Len(order)] ==
        IF p = 0 THEN have ELSE OneMore(upto[p - 1], order[p], most, size)
  IN  upto[Len(order)]

\* The shares in proportion, then one more in turn until size is had: a round that
\* changes nothing is the last.
Quotas(sizes, wanted, cap) ==
  LET total == Sum(sizes)
      size == Least(wanted, total)
      ceiling == Ceiling(sizes, size, cap)
      most == [k \in DOMAIN sizes |-> Least(ceiling, sizes[k])]
      share == [k \in DOMAIN sizes |-> Least(most[k], Rounded(size * sizes[k], total))]
      after[r \in 0 .. size] ==
        IF r = 0 THEN share ELSE OnceAround(after[r - 1], InTurn(sizes), most, size)
  IN  IF total = 0 \/ wanted <= 0 THEN [k \in DOMAIN sizes |-> 0] ELSE after[size]

\* As many posts are chosen as are wanted and there are, and less than one for
\* each channel more; a channel gives what it has, and more than the cap only
\* when all give all they may.
QuotasFill(channels, counts, wants, caps) ==
  \A sizes \in [channels -> counts], wanted \in wants, cap \in caps :
    LET got == Quotas(sizes, wanted, cap)
        size == Least(wanted, Sum(sizes))
        limit == FirstCeiling(sizes, size, cap)
    IN  /\ Sum(got) >= size /\ Sum(got) < size + Cardinality(channels)
        /\ \A k \in channels :
             /\ got[k] <= sizes[k]
             /\ got[k] > limit => Sum([l \in channels |-> Least(limit, sizes[l])]) < size
=============================================================================
