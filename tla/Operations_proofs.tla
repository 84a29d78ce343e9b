-------------------------- MODULE Operations_proofs --------------------------
(***************************************************************************)
(* Proofs about what operators run.                                         *)
(*                                                                          *)
(* The tools: for any posts, likenesses and days, find_groups() finds the   *)
(* chains of likeness and its index hides no pair; what copy_labels.py      *)
(* gives leaves nothing to give; quotas() fills a sample of any channels    *)
(* under the least ceiling that is enough; an evaluation judges what the    *)
(* service would publish, and its metrics measure what their names say.     *)
(*                                                                          *)
(* Deployment: for any nodes, stores, specs and incidents, all that hold a  *)
(* secret hold the same, and the core keeps the public key of the pair a    *)
(* node signs with.                                                         *)
(*                                                                          *)
(* TaxonomySync: for any file, any taxonomy and any runs of the tool that   *)
(* overlap, a request leaves alone what the file does not state, unless     *)
(* somebody else wrote the item since it was listed.                        *)
(***************************************************************************)
EXTENDS Deployment, MCTaxonomySync, SequenceTheorems, Inductions

-----------------------------------------------------------------------------
(* duplicates.py and copy_labels.py: the groups of posts that reprint one another *)

\* The posts that are hung on another.
Hung(parent, D) == {x \in D : parent[x] # x}

\* So many steps are at most needed from each post to the root of its group.
Height(h, parent, D, most) ==
  /\ h \in [D -> Nat]
  /\ \A x \in D : /\ h[x] <= most
                  /\ parent[x] = x => h[x] = 0
                  /\ parent[x] # x => h[parent[x]] < h[x]

Tree(parent, D) ==
  /\ parent \in [D -> D]
  /\ \E h : Height(h, parent, D, Cardinality(Hung(parent, D)))

\* The steps up from each post.
Ups(up, parent, D, N) ==
  up = [k \in 0 .. N |-> [j \in D |-> IF k = 0 THEN j ELSE up[k - 1][parent[j]]]]

StepsUp(up, parent, D, N) ==
  /\ up \in [0 .. N -> [D -> D]]
  /\ \A j \in D : up[0][j] = j
  /\ \A k \in 1 .. N : \A j \in D : up[k][j] = up[k - 1][parent[j]]

LEMMA UpsExist ==
  ASSUME NEW D, NEW N \in Nat, NEW parent \in [D -> D]
  PROVE  \E up : Ups(up, parent, D, N)
<1> DEFINE S == [D -> D]
           start == [j \in D |-> j]
<1>1. PICK step : step = [k \in 1 .. N |-> [r \in S |-> [j \in D |-> r[parent[j]]]]]
  OBVIOUS
<1>2. start \in S
  OBVIOUS
<1>3. Stepwise(step, N, S)
  <2>1. ASSUME NEW k \in 1 .. N PROVE [r \in S |-> [j \in D |-> r[parent[j]]]] \in [S -> S]
    OBVIOUS
  <2> HIDE DEF S
  <2> QED
    BY <1>1, <2>1 DEF Stepwise
<1> HIDE DEF S, start
<1>4. PICK up : Recurs(up, N, S, start, step)
  BY <1>2, <1>3, Recursion
<1>5. ASSUME NEW k \in 0 .. N
      PROVE  up[k] = [j \in D |-> IF k = 0 THEN j ELSE up[k - 1][parent[j]]]
  <2>1. CASE k = 0
    <3>1. up[k] = start
      BY <1>4, <2>1 DEF Recurs
    <3> QED
      BY <2>1, <3>1 DEF start
  <2>2. CASE k # 0
    <3>1. k - 1 \in 0 .. N /\ k \in 1 .. N
      BY <2>2
    <3>2. up[k - 1] \in S
      BY <1>4, <3>1 DEF Recurs
    <3>3. up[k] = step[k][up[k - 1]]
      BY <1>4, <2>2 DEF Recurs
    <3>4. up[k] = [j \in D |-> up[k - 1][parent[j]]]
      BY <1>1, <3>1, <3>2, <3>3
    <3> QED
      BY <2>2, <3>4
  <2> QED
    BY <2>1, <2>2
<1>6. up = [k \in 0 .. N |-> up[k]]
  BY <1>4 DEF Recurs
<1> DEFINE F(k) == [j \in D |-> IF k = 0 THEN j ELSE up[k - 1][parent[j]]]
<1>7. \A k \in 0 .. N : up[k] = F(k)
  BY <1>5
<1>8. up = [k \in 0 .. N |-> F(k)]
  <2> HIDE DEF F
  <2> QED
    BY <1>6, <1>7
<1>9. Ups(up, parent, D, N)
  BY <1>8, Zenon DEF Ups
<1> QED
  BY <1>9

LEMMA UpsStep ==
  ASSUME NEW D, NEW N \in Nat, NEW parent \in [D -> D], NEW up, Ups(up, parent, D, N)
  PROVE  StepsUp(up, parent, D, N)
<1>1. ASSUME NEW k \in 0 .. N
      PROVE  up[k] = [j \in D |-> IF k = 0 THEN j ELSE up[k - 1][parent[j]]]
  BY DEF Ups
<1>2. \A j \in D : up[0][j] = j
  <2>1. 0 \in 0 .. N
    OBVIOUS
  <2> QED
    BY <1>1, <2>1
<1>3. ASSUME NEW k \in 1 .. N, NEW j \in D PROVE up[k][j] = up[k - 1][parent[j]]
  <2>1. k \in 0 .. N /\ k # 0
    OBVIOUS
  <2>2. up[k] = [i \in D |-> up[k - 1][parent[i]]]
    BY <1>1, <2>1
  <2> QED
    BY <2>2
<1>4. \A k \in 0 .. N : up[k] \in [D -> D]
  <2> DEFINE Good == {k \in 0 .. N : up[k] \in [D -> D]}
  <2>1. 0 \in Good
    <3>1. 0 \in 0 .. N
      OBVIOUS
    <3>2. up[0] = [j \in D |-> j]
      BY <1>1, <3>1
    <3> QED
      BY <3>1, <3>2
  <2>2. ASSUME NEW k \in 1 .. N, k - 1 \in Good PROVE k \in Good
    <3>1. k \in 0 .. N /\ k # 0
      OBVIOUS
    <3>2. up[k] = [j \in D |-> up[k - 1][parent[j]]]
      BY <1>1, <3>1
    <3>3. up[k - 1] \in [D -> D]
      BY <2>2
    <3>4. up[k] \in [D -> D]
      BY <3>2, <3>3
    <3> QED
      BY <3>1, <3>4
  <2> HIDE DEF Good
  <2>3. 0 .. N \subseteq Good
    BY <2>1, <2>2, UpTo
  <2> QED
    BY <2>3 DEF Good
<1>5. up \in [0 .. N -> [D -> D]]
  <2>1. up = [k \in 0 .. N |-> up[k]]
    BY <1>1 DEF Ups
  <2> QED
    BY <1>4, <2>1
<1> QED
  BY <1>2, <1>3, <1>5 DEF StepsUp

LEMMA RootIs ==
  ASSUME NEW D, IsFiniteSet(D), NEW parent \in [D -> D]
  PROVE  \E up : /\ StepsUp(up, parent, D, Cardinality(D))
                 /\ \A i \in D : Root(parent, i) = up[Cardinality(D)][i]
<1>1. Cardinality(D) \in Nat /\ DOMAIN parent = D
  BY FS_CardinalityType
<1> DEFINE up == CHOOSE u : Ups(u, parent, D, Cardinality(D))
<1>2. Ups(up, parent, D, Cardinality(D))
  <2>1. \E u : Ups(u, parent, D, Cardinality(D))
    BY <1>1, UpsExist
  <2> QED
    BY <2>1, Zenon
<1>3. \A i \in D : Root(parent, i) = up[Cardinality(D)][i]
  BY <1>1 DEF Root, Ups
<1> HIDE DEF up
<1>4. StepsUp(up, parent, D, Cardinality(D))
  BY <1>1, <1>2, UpsStep
<1> QED
  BY <1>3, <1>4

\* What a root is: a post that hangs on no other, the same for a post and its parent.
Rooted(root, parent, D) ==
  /\ root \in [D -> D]
  /\ \A x \in D : /\ parent[root[x]] = root[x]
                  /\ root[x] = root[parent[x]]
                  /\ parent[x] = x => root[x] = x

Roots(parent, D) == [x \in D |-> Root(parent, x)]

LEMMA TreesAreRooted ==
  ASSUME NEW D, IsFiniteSet(D), NEW parent, Tree(parent, D)
  PROVE  Rooted(Roots(parent, D), parent, D)
<1>1. PICK h : parent \in [D -> D] /\ Height(h, parent, D, Cardinality(Hung(parent, D)))
  BY DEF Tree
<1> DEFINE N == Cardinality(D)
<1>2. N \in Nat /\ Cardinality(Hung(parent, D)) \in Nat /\ Cardinality(Hung(parent, D)) <= N
  <2>1. Hung(parent, D) \in SUBSET D
    BY DEF Hung
  <2> QED
    BY <2>1, FS_Subset, FS_CardinalityType
<1>3. \A x \in D : /\ h[x] \in Nat /\ h[x] <= N /\ parent[x] \in D
                   /\ parent[x] = x => h[x] = 0
                   /\ parent[x] # x => h[parent[x]] < h[x]
  BY <1>1, <1>2 DEF Height
<1>4. PICK up : StepsUp(up, parent, D, N) /\ \A i \in D : Root(parent, i) = up[N][i]
  BY <1>1, RootIs
<1> HIDE DEF N
<1>5. /\ \A k \in 0 .. N : \A j \in D : up[k][j] \in D
      /\ \A j \in D : up[0][j] = j
      /\ \A k \in 1 .. N : \A j \in D : up[k][j] = up[k - 1][parent[j]]
  BY <1>4 DEF StepsUp
\* A root is where so many steps lead, and no step leads on from it.
<1> DEFINE Good == {k \in 0 .. N :
             \A x \in D : /\ h[x] <= k => parent[up[k][x]] = up[k][x]
                          /\ h[x] <= k /\ k < N => up[k + 1][x] = up[k][x]
                          /\ parent[x] = x => up[k][x] = x}
<1>6. 0 \in Good
  <2>1. 0 \in 0 .. N
    BY <1>2
  <2>2. ASSUME NEW x \in D, h[x] <= 0 PROVE parent[x] = x
    BY <1>3, <2>2
  <2>3. ASSUME NEW x \in D, h[x] <= 0, 0 < N PROVE up[0 + 1][x] = up[0][x]
    <3>1. 1 \in 1 .. N /\ 0 + 1 = 1 /\ 1 - 1 = 0
      BY <1>2, <2>3
    <3>2. up[1][x] = up[0][parent[x]]
      BY <1>5, <3>1
    <3> QED
      BY <1>3, <1>5, <2>2, <2>3, <3>1, <3>2
  <2>4. \A x \in D : up[0][x] = x
    BY <1>5
  <2> QED
    BY <2>1, <2>2, <2>3, <2>4
<1>7. ASSUME NEW k \in 1 .. N, k - 1 \in Good PROVE k \in Good
  <2>1. k \in 0 .. N /\ k - 1 \in 0 .. N /\ k \in Int /\ k - 1 < N /\ (k - 1) + 1 = k
    BY <1>2
  <2>2. \A x \in D : /\ h[x] <= k - 1 => parent[up[k - 1][x]] = up[k - 1][x]
                     /\ h[x] <= k - 1 => up[k][x] = up[k - 1][x]
                     /\ parent[x] = x => up[k - 1][x] = x
    BY <1>7, <2>1
  <2>3. ASSUME NEW x \in D, h[x] <= k PROVE h[parent[x]] <= k - 1 /\ parent[x] \in D
    BY <1>3, <2>1, <2>3
  <2>4. ASSUME NEW x \in D, h[x] <= k PROVE parent[up[k][x]] = up[k][x]
    <3>1. up[k][x] = up[k - 1][parent[x]]
      BY <1>5
    <3>2. parent[up[k - 1][parent[x]]] = up[k - 1][parent[x]]
      BY <2>2, <2>3, <2>4
    <3> QED
      BY <3>1, <3>2
  <2>5. ASSUME NEW x \in D, h[x] <= k, k < N PROVE up[k + 1][x] = up[k][x]
    <3>1. k + 1 \in 1 .. N /\ (k + 1) - 1 = k
      BY <1>2, <2>1, <2>5
    <3>2. up[k + 1][x] = up[k][parent[x]]
      BY <1>5, <3>1
    <3>3. up[k][x] = up[k - 1][parent[x]]
      BY <1>5
    <3>4. up[k][parent[x]] = up[k - 1][parent[x]]
      BY <2>2, <2>3, <2>5
    <3> QED
      BY <3>2, <3>3, <3>4
  <2>6. ASSUME NEW x \in D, parent[x] = x PROVE up[k][x] = x
    <3>1. up[k][x] = up[k - 1][parent[x]]
      BY <1>5
    <3> QED
      BY <2>2, <2>6, <3>1
  <2> QED
    BY <2>1, <2>4, <2>5, <2>6
<1> HIDE DEF Good
<1>8. N \in Good
  <2>1. 0 .. N \subseteq Good
    BY <1>2, <1>6, <1>7, UpTo
  <2> QED
    BY <1>2, <2>1
<1>9. \A x \in D : /\ up[N][x] \in D /\ parent[up[N][x]] = up[N][x]
                   /\ parent[x] = x => up[N][x] = x
  BY <1>2, <1>3, <1>5, <1>8 DEF Good
<1>10. ASSUME NEW x \in D PROVE up[N][x] = up[N][parent[x]]
  <2>1. CASE parent[x] = x
    BY <2>1
  <2>2. CASE parent[x] # x
    <3>1. N \in 1 .. N
      BY <1>2, <1>3, <2>2
    <3>2. up[N][x] = up[N - 1][parent[x]]
      BY <1>5, <3>1
    <3>3. N - 1 \in Good
      <4>1. 0 .. N \subseteq Good
        BY <1>2, <1>6, <1>7, UpTo
      <4> QED
        BY <1>2, <3>1, <4>1
    <3>4. h[parent[x]] <= N - 1 /\ N - 1 < N /\ (N - 1) + 1 = N
      BY <1>2, <1>3, <2>2
    <3>5. up[N][parent[x]] = up[N - 1][parent[x]]
      BY <1>3, <3>3, <3>4 DEF Good
    <3> QED
      BY <3>2, <3>5
  <2> QED
    BY <2>1, <2>2
<1>11. \A x \in D : Roots(parent, D)[x] = up[N][x]
  BY <1>4 DEF Roots
<1>12. Roots(parent, D) \in [D -> D]
  BY <1>4, <1>9 DEF Roots
<1> QED
  BY <1>3, <1>9, <1>10, <1>11, <1>12 DEF Rooted

\* Nothing else is a root.
LEMMA RootedOnce ==
  ASSUME NEW D, IsFiniteSet(D), NEW parent, Tree(parent, D),
         NEW f, NEW g, Rooted(f, parent, D), Rooted(g, parent, D)
  PROVE  f = g
<1>1. PICK h : parent \in [D -> D] /\ Height(h, parent, D, Cardinality(Hung(parent, D)))
  BY DEF Tree
<1>2. PICK N \in Nat : N = Cardinality(Hung(parent, D))
  <2>1. Hung(parent, D) \in SUBSET D
    BY DEF Hung
  <2> QED
    BY <2>1, FS_Subset, FS_CardinalityType
<1>3. \A x \in D : /\ h[x] \in Nat /\ h[x] <= N /\ parent[x] \in D
                   /\ parent[x] # x => h[parent[x]] < h[x]
  BY <1>1, <1>2 DEF Height
<1>4. \A x \in D : /\ f[x] = f[parent[x]] /\ (parent[x] = x => f[x] = x)
                   /\ g[x] = g[parent[x]] /\ (parent[x] = x => g[x] = x)
  BY DEF Rooted
<1> DEFINE Good == {k \in 0 .. N : \A x \in D : h[x] <= k => f[x] = g[x]}
<1>5. 0 \in Good
  BY <1>3, <1>4
<1>6. ASSUME NEW k \in 1 .. N, k - 1 \in Good PROVE k \in Good
  <2>1. k \in 0 .. N
    OBVIOUS
  <2>2. ASSUME NEW x \in D, h[x] <= k PROVE f[x] = g[x]
    <3>1. CASE parent[x] = x
      BY <1>4, <3>1
    <3>2. CASE parent[x] # x
      <4>1. h[parent[x]] <= k - 1
        BY <1>3, <2>2, <3>2
      <4>2. f[parent[x]] = g[parent[x]]
        BY <1>3, <1>6, <4>1
      <4> QED
        BY <1>4, <4>2
    <3> QED
      BY <3>1, <3>2
  <2> QED
    BY <2>1, <2>2
<1> HIDE DEF Good
<1>7. 0 .. N \subseteq Good
  BY <1>5, <1>6, UpTo
<1>8. \A x \in D : f[x] = g[x]
  BY <1>3, <1>7 DEF Good
<1> QED
  BY <1>8 DEF Rooted

\* Where the roots are when i and j are joined.
Moved(root, D, i, j) == [x \in D |-> IF root[x] = root[i] THEN root[j] ELSE root[x]]

LEMMA RootType ==
  ASSUME NEW D, IsFiniteSet(D), NEW parent \in [D -> D], NEW i \in D
  PROVE  Root(parent, i) \in D
<1>1. PICK up : /\ StepsUp(up, parent, D, Cardinality(D))
                /\ \A x \in D : Root(parent, x) = up[Cardinality(D)][x]
  BY RootIs
<1>2. Cardinality(D) \in 0 .. Cardinality(D)
  BY FS_CardinalityType
<1> QED
  BY <1>1, <1>2 DEF StepsUp

LEMMA JoinedType ==
  ASSUME NEW D, IsFiniteSet(D), NEW parent \in [D -> D], NEW i \in D, NEW j \in D
  PROVE  Joined(parent, i, j) \in [D -> D]
BY RootType DEF Joined

LEMMA JoinedTree ==
  ASSUME NEW D, IsFiniteSet(D), NEW parent, Tree(parent, D), NEW i \in D, NEW j \in D
  PROVE  /\ Tree(Joined(parent, i, j), D)
         /\ Roots(Joined(parent, i, j), D) = Moved(Roots(parent, D), D, i, j)
<1>1. PICK h : parent \in [D -> D] /\ Height(h, parent, D, Cardinality(Hung(parent, D)))
  BY DEF Tree
<1>2. PICK r : r = Roots(parent, D)
  OBVIOUS
<1>3. Rooted(r, parent, D)
  BY <1>2, TreesAreRooted
<1>4. r[i] = Root(parent, i) /\ r[j] = Root(parent, j) /\ r[i] \in D /\ r[j] \in D
  BY <1>2, <1>3 DEF Roots, Rooted
<1>5. PICK to : to = Joined(parent, i, j)
  OBVIOUS
<1>6. to \in [D -> D] /\ to[r[i]] = r[j] /\ \A x \in D : x # r[i] => to[x] = parent[x]
  BY <1>1, <1>4, <1>5 DEF Joined
<1>7. PICK f : f = Moved(r, D, i, j)
  OBVIOUS
<1>8. /\ f \in [D -> D]
      /\ \A x \in D : f[x] = IF r[x] = r[i] THEN r[j] ELSE r[x]
  BY <1>3, <1>4, <1>7 DEF Moved, Rooted
<1>9. \A x \in D : /\ parent[x] \in D /\ r[x] \in D
                   /\ parent[r[x]] = r[x] /\ r[x] = r[parent[x]]
                   /\ parent[x] = x => r[x] = x
  BY <1>1, <1>3 DEF Rooted
<1>10. CASE r[i] = r[j]
  <2>1. to = parent
    BY <1>1, <1>4, <1>6, <1>9, <1>10
  <2>2. f = r
    <3>1. \A x \in D : f[x] = r[x]
      BY <1>8, <1>10
    <3> QED
      BY <1>3, <1>8, <3>1 DEF Rooted
  <2> QED
    BY <1>2, <1>5, <1>7, <2>1, <2>2
<1>11. CASE r[i] # r[j]
  <2>1. r[r[i]] = r[i] /\ r[r[j]] = r[j]
    BY <1>4, <1>9
  <2>2. Rooted(f, to, D)
    <3>1. ASSUME NEW x \in D PROVE to[f[x]] = f[x]
      <4>1. CASE r[x] = r[i]
        BY <1>4, <1>6, <1>8, <1>9, <1>11, <4>1
      <4>2. CASE r[x] # r[i]
        BY <1>6, <1>8, <1>9, <4>2
      <4> QED
        BY <4>1, <4>2
    <3>2. ASSUME NEW x \in D PROVE f[x] = f[to[x]]
      <4>1. CASE x = r[i]
        BY <1>4, <1>6, <1>8, <1>11, <2>1, <4>1
      <4>2. CASE x # r[i]
        BY <1>6, <1>8, <1>9, <4>2
      <4> QED
        BY <4>1, <4>2
    <3>3. ASSUME NEW x \in D, to[x] = x PROVE f[x] = x
      <4>1. x # r[i]
        BY <1>6, <1>11, <3>3
      <4>2. parent[x] = x /\ r[x] = x
        BY <1>6, <1>9, <3>3, <4>1
      <4> QED
        BY <1>8, <4>1, <4>2
    <3> QED
      BY <1>8, <3>1, <3>2, <3>3 DEF Rooted
  <2>3. PICK N \in Nat : N = Cardinality(Hung(parent, D))
    <3>1. Hung(parent, D) \in SUBSET D
      BY DEF Hung
    <3> QED
      BY <3>1, FS_Subset, FS_CardinalityType
  <2>4. Cardinality(Hung(to, D)) = N + 1
    <3>1. Hung(to, D) = Hung(parent, D) \cup {r[i]}
      <4>1. ASSUME NEW x \in D PROVE to[x] # x <=> parent[x] # x \/ x = r[i]
        BY <1>6, <1>11
      <4> QED
        BY <1>4, <4>1 DEF Hung
    <3>2. r[i] \notin Hung(parent, D)
      BY <1>4, <1>9 DEF Hung
    <3>3. IsFiniteSet(Hung(parent, D))
      <4>1. Hung(parent, D) \in SUBSET D
        BY DEF Hung
      <4> QED
        BY <4>1, FS_Subset
    <3> QED
      BY <2>3, <3>1, <3>2, <3>3, FS_AddElement
  <2>5. \A x \in D : /\ h[x] \in Nat /\ h[x] <= N
                     /\ parent[x] = x => h[x] = 0
                     /\ parent[x] # x => h[parent[x]] < h[x]
    BY <1>1, <2>3 DEF Height
  <2>6. PICK g : g = [x \in D |-> IF r[x] = r[i] THEN h[x] + 1 ELSE h[x]]
    OBVIOUS
  <2>7. \A x \in D : g[x] = IF r[x] = r[i] THEN h[x] + 1 ELSE h[x]
    BY <2>6
  <2>8. g \in [D -> Nat]
    <3>1. \A x \in D : (IF r[x] = r[i] THEN h[x] + 1 ELSE h[x]) \in Nat
      BY <2>5
    <3> QED
      BY <2>6, <3>1
  <2>9. ASSUME NEW x \in D PROVE g[x] <= N + 1
    BY <2>3, <2>5, <2>7
  <2>10. ASSUME NEW x \in D, to[x] = x PROVE g[x] = 0
    <3>1. x # r[i]
      BY <1>6, <1>11, <2>10
    <3>2. parent[x] = x /\ r[x] = x
      BY <1>6, <1>9, <2>10, <3>1
    <3> QED
      BY <2>5, <2>7, <3>1, <3>2
  <2>11. ASSUME NEW x \in D, to[x] # x PROVE g[to[x]] < g[x]
    <3>1. CASE x = r[i]
      <4>1. to[x] = r[j] /\ g[r[j]] = h[r[j]] /\ g[x] = h[x] + 1
        BY <1>4, <1>6, <1>11, <2>1, <2>7, <3>1
      <4>2. h[r[j]] = 0 /\ h[x] \in Nat
        BY <1>4, <1>9, <2>5
      <4> QED
        BY <4>1, <4>2
    <3>2. CASE x # r[i]
      <4>1. to[x] = parent[x] /\ r[parent[x]] = r[x] /\ parent[x] \in D
        BY <1>6, <1>9, <3>2
      <4>2. h[parent[x]] < h[x] /\ h[x] \in Nat /\ h[parent[x]] \in Nat
        BY <2>5, <2>11, <4>1
      <4>3. CASE r[x] = r[i]
        BY <2>7, <4>1, <4>2, <4>3
      <4>4. CASE r[x] # r[i]
        BY <2>7, <4>1, <4>2, <4>4
      <4> QED
        BY <4>3, <4>4
    <3> QED
      BY <3>1, <3>2
  <2>12. Height(g, to, D, Cardinality(Hung(to, D)))
    BY <2>4, <2>8, <2>9, <2>10, <2>11 DEF Height
  <2>13. Tree(to, D)
    BY <1>6, <2>12 DEF Tree
  <2>14. Rooted(Roots(to, D), to, D)
    BY <2>13, TreesAreRooted
  <2>15. Roots(to, D) = f
    BY <2>2, <2>13, <2>14, RootedOnce
  <2> QED
    BY <1>2, <1>5, <1>7, <2>13, <2>15
<1> QED
  BY <1>10, <1>11

\* The pairs join the posts they name and no others: the posts of a group are
\* on one side of every set that no pair leads out of.
Sound(parent, D, pairs) ==
  /\ Tree(parent, D)
  /\ \A p \in pairs : Roots(parent, D)[p[1]] = Roots(parent, D)[p[2]]
  /\ \A posts \in SUBSET D : Closed(posts, pairs) =>
       \A x, y \in D : Roots(parent, D)[x] = Roots(parent, D)[y] => (x \in posts <=> y \in posts)

LEMMA JoinedSound ==
  ASSUME NEW D, IsFiniteSet(D), NEW parent, NEW pairs \in SUBSET (D \X D), Sound(parent, D, pairs),
         NEW i \in D, NEW j \in D
  PROVE  Sound(Joined(parent, i, j), D, pairs \cup {<<i, j>>})
<1>1. Tree(parent, D)
  BY DEF Sound
<1>2. PICK r, f : r = Roots(parent, D) /\ f = Roots(Joined(parent, i, j), D)
  OBVIOUS
<1>3. Tree(Joined(parent, i, j), D) /\ f = Moved(r, D, i, j)
  BY <1>1, <1>2, JoinedTree
<1>4. \A x \in D : f[x] = IF r[x] = r[i] THEN r[j] ELSE r[x]
  BY <1>3 DEF Moved
<1>5. ASSUME NEW p \in pairs \cup {<<i, j>>} PROVE f[p[1]] = f[p[2]]
  <2>1. CASE p \in pairs
    <3>1. p[1] \in D /\ p[2] \in D
      BY <2>1
    <3>2. r[p[1]] = r[p[2]]
      BY <1>2, <2>1 DEF Sound
    <3> QED
      BY <1>4, <3>1, <3>2
  <2>2. CASE p = <<i, j>>
    <3>1. p[1] = i /\ p[2] = j
      BY <2>2
    <3> QED
      BY <1>4, <3>1
  <2> QED
    BY <2>1, <2>2
<1>6. ASSUME NEW posts \in SUBSET D, Closed(posts, pairs \cup {<<i, j>>}),
             NEW x \in D, NEW y \in D, f[x] = f[y]
      PROVE  x \in posts <=> y \in posts
  <2>1. Closed(posts, pairs)
    BY <1>6 DEF Closed
  <2>2. i \in posts <=> j \in posts
    <3>1. <<i, j>> \in pairs \cup {<<i, j>>}
      OBVIOUS
    <3>2. <<i, j>>[1] \in posts <=> <<i, j>>[2] \in posts
      BY <1>6, <3>1 DEF Closed
    <3> QED
      BY <3>2
  <2>3. \A a, b \in D : r[a] = r[b] => (a \in posts <=> b \in posts)
    BY <1>2, <2>1 DEF Sound
  <2>4. CASE r[x] = r[i] /\ r[y] = r[i]
    BY <2>3, <2>4
  <2>5. CASE r[x] = r[i] /\ r[y] # r[i]
    BY <1>4, <1>6, <2>2, <2>3, <2>5
  <2>6. CASE r[x] # r[i] /\ r[y] = r[i]
    BY <1>4, <1>6, <2>2, <2>3, <2>6
  <2>7. CASE r[x] # r[i] /\ r[y] # r[i]
    BY <1>4, <1>6, <2>3, <2>7
  <2> QED
    BY <2>4, <2>5, <2>6, <2>7
<1> QED
  BY <1>2, <1>3, <1>5, <1>6 DEF Sound

LEMMA NobodyIsJoined ==
  ASSUME NEW n \in Nat
  PROVE  Sound([j \in 1 .. n |-> j], 1 .. n, {})
<1>1. PICK D : D = 1 .. n
  OBVIOUS
<1>2. PICK parent : parent = [j \in D |-> j]
  OBVIOUS
<1>3. PICK h : h = [x \in D |-> 0]
  OBVIOUS
<1>4. IsFiniteSet(D)
  BY <1>1, PlacesAreFinite
<1>5. Hung(parent, D) = {}
  BY <1>2 DEF Hung
<1>6. Cardinality(Hung(parent, D)) = 0
  BY <1>5, FS_EmptySet
<1>7. Height(h, parent, D, Cardinality(Hung(parent, D)))
  BY <1>2, <1>3, <1>6 DEF Height
<1>8. Tree(parent, D)
  BY <1>2, <1>7 DEF Tree
<1>9. Rooted(parent, parent, D)
  BY <1>2 DEF Rooted
<1>10. Roots(parent, D) = parent
  BY <1>4, <1>8, <1>9, TreesAreRooted, RootedOnce
<1>11. Sound(parent, D, {})
  BY <1>2, <1>8, <1>10 DEF Sound
<1> QED
  BY <1>1, <1>2, <1>11

\* The pairs that name a post and one before it.
Backwards(n) == {p \in (1 .. n) \X (1 .. n) : p[2] < p[1]}

\* The parents after each comparison of post i with the posts before it.
Withs(with, parent, i, like) ==
  with = [j \in 0 .. i - 1 |->
            IF j = 0 THEN parent
            ELSE IF <<i, j>> \in like THEN Joined(with[j - 1], i, j) ELSE with[j - 1]]

WithsRecur(with, D, parent, i, like) ==
  /\ \A j \in 0 .. i - 1 : with[j] \in [D -> D]
  /\ with[0] = parent
  /\ \A j \in 1 .. i - 1 :
       with[j] = IF <<i, j>> \in like THEN Joined(with[j - 1], i, j) ELSE with[j - 1]

LEMMA WithsExist ==
  ASSUME NEW n \in Nat, NEW i \in 1 .. n, NEW parent \in [1 .. n -> 1 .. n], NEW like
  PROVE  \E with : Withs(with, parent, i, like)
<1> DEFINE S == [1 .. n -> 1 .. n]
<1>1. PICK step : step = [j \in 1 .. i - 1 |->
                            [r \in S |-> IF <<i, j>> \in like THEN Joined(r, i, j) ELSE r]]
  OBVIOUS
<1>2. IsFiniteSet(1 .. n) /\ i - 1 \in Nat
  BY PlacesAreFinite
<1>3. ASSUME NEW j \in 1 .. i - 1, NEW r \in S PROVE Joined(r, i, j) \in S
  <2>1. j \in 1 .. n
    OBVIOUS
  <2> QED
    BY <1>2, <2>1, JoinedType
<1> HIDE DEF S
<1>4. Stepwise(step, i - 1, S)
  <2>1. ASSUME NEW j \in 1 .. i - 1 PROVE step[j] \in [S -> S]
    <3>1. step[j] = [r \in S |-> IF <<i, j>> \in like THEN Joined(r, i, j) ELSE r]
      BY <1>1
    <3>2. \A r \in S : (IF <<i, j>> \in like THEN Joined(r, i, j) ELSE r) \in S
      BY <1>3
    <3> QED
      BY <3>1, <3>2
  <2>2. step = [j \in 1 .. i - 1 |-> step[j]]
    BY <1>1
  <2>3. step \in [1 .. i - 1 -> [S -> S]]
    BY <2>1, <2>2
  <2> QED
    BY <2>3 DEF Stepwise
<1>5. parent \in S
  BY DEF S
<1>6. PICK with : Recurs(with, i - 1, S, parent, step)
  BY <1>2, <1>4, <1>5, Recursion
<1> DEFINE F(j) == IF j = 0 THEN parent
                   ELSE IF <<i, j>> \in like THEN Joined(with[j - 1], i, j) ELSE with[j - 1]
<1>7. ASSUME NEW j \in 0 .. i - 1 PROVE with[j] = F(j)
  <2>1. CASE j = 0
    BY <1>6, <2>1 DEF Recurs
  <2>2. CASE j # 0
    <3>1. j \in 1 .. i - 1 /\ j - 1 \in 0 .. i - 1
      BY <2>2
    <3>2. with[j - 1] \in S
      BY <1>6, <3>1 DEF Recurs
    <3>3. with[j] = step[j][with[j - 1]]
      BY <1>6, <2>2 DEF Recurs
    <3>4. step[j] = [r \in S |-> IF <<i, j>> \in like THEN Joined(r, i, j) ELSE r]
      BY <1>1, <3>1
    <3>5. with[j] = IF <<i, j>> \in like THEN Joined(with[j - 1], i, j) ELSE with[j - 1]
      BY <3>2, <3>3, <3>4
    <3> QED
      BY <2>2, <3>5
  <2> QED
    BY <2>1, <2>2
<1>8. with = [j \in 0 .. i - 1 |-> with[j]]
  BY <1>6 DEF Recurs
<1>9. with = [j \in 0 .. i - 1 |-> F(j)]
  <2> HIDE DEF F
  <2> QED
    BY <1>7, <1>8
<1>10. Withs(with, parent, i, like)
  BY <1>9, Zenon DEF Withs
<1> QED
  BY <1>10

LEMMA WithsStep ==
  ASSUME NEW n \in Nat, NEW i \in 1 .. n, NEW parent \in [1 .. n -> 1 .. n], NEW like,
         NEW with, Withs(with, parent, i, like)
  PROVE  WithsRecur(with, 1 .. n, parent, i, like)
<1> DEFINE F(j) == IF j = 0 THEN parent
                   ELSE IF <<i, j>> \in like THEN Joined(with[j - 1], i, j) ELSE with[j - 1]
<1>1. with = [j \in 0 .. i - 1 |-> F(j)]
  BY Zenon DEF Withs
<1>2. \A j \in 0 .. i - 1 : with[j] = F(j)
  <2> HIDE DEF F
  <2> QED
    BY <1>1, Zenon
<1>3. i - 1 \in Nat /\ 0 \in 0 .. i - 1
  OBVIOUS
<1>4. with[0] = parent
  BY <1>2, <1>3
<1>5. ASSUME NEW j \in 1 .. i - 1
      PROVE  with[j] = IF <<i, j>> \in like THEN Joined(with[j - 1], i, j) ELSE with[j - 1]
  <2>1. j \in 0 .. i - 1 /\ j # 0
    OBVIOUS
  <2>2. with[j] = F(j)
    BY <1>2, <2>1
  <2> QED
    BY <2>1, <2>2
<1> HIDE DEF F
<1> DEFINE Good == {j \in 0 .. i - 1 : with[j] \in [1 .. n -> 1 .. n]}
<1>6. 0 \in Good
  BY <1>3, <1>4
<1>7. ASSUME NEW j \in 1 .. i - 1, j - 1 \in Good PROVE j \in Good
  <2>0. j \in 1 .. n /\ j \in 0 .. i - 1
    OBVIOUS
  <2>1. with[j - 1] \in [1 .. n -> 1 .. n] /\ j \in 1 .. n /\ j \in 0 .. i - 1
    BY <1>7, <2>0
  <2>2. IsFiniteSet(1 .. n)
    BY PlacesAreFinite
  <2>3. Joined(with[j - 1], i, j) \in [1 .. n -> 1 .. n]
    BY <2>1, <2>2, JoinedType
  <2>4. with[j] \in [1 .. n -> 1 .. n]
    BY <1>5, <2>1, <2>3
  <2> QED
    BY <2>1, <2>4
<1> HIDE DEF Good
<1>8. 0 .. i - 1 \subseteq Good
  BY <1>3, <1>6, <1>7, UpTo
<1>9. \A j \in 0 .. i - 1 : with[j] \in [1 .. n -> 1 .. n]
  BY <1>8 DEF Good
<1> QED
  BY <1>4, <1>5, <1>9 DEF WithsRecur

LEMMA PlacedIs ==
  ASSUME NEW n \in Nat, NEW i \in 1 .. n, NEW parent \in [1 .. n -> 1 .. n], NEW like
  PROVE  \E with : WithsRecur(with, 1 .. n, parent, i, like) /\ Placed(parent, i, like) = with[i - 1]
<1> DEFINE with == CHOOSE w : Withs(w, parent, i, like)
<1>1. Withs(with, parent, i, like)
  <2>1. \E w : Withs(w, parent, i, like)
    BY WithsExist
  <2> QED
    BY <2>1, Zenon
<1>2. Placed(parent, i, like) = with[i - 1]
  BY DEF Placed, Withs
<1> HIDE DEF with
<1>3. WithsRecur(with, 1 .. n, parent, i, like)
  BY <1>1, WithsStep
<1> QED
  BY <1>2, <1>3

LEMMA PlacedType ==
  ASSUME NEW n \in Nat, NEW i \in 1 .. n, NEW parent \in [1 .. n -> 1 .. n], NEW like
  PROVE  Placed(parent, i, like) \in [1 .. n -> 1 .. n]
<1>1. PICK with : WithsRecur(with, 1 .. n, parent, i, like) /\ Placed(parent, i, like) = with[i - 1]
  BY PlacedIs
<1>2. i - 1 \in 0 .. i - 1
  OBVIOUS
<1> QED
  BY <1>1, <1>2 DEF WithsRecur

LEMMA PlacedSound ==
  ASSUME NEW n \in Nat, NEW i \in 1 .. n, NEW like \in SUBSET Backwards(n), NEW parent,
         Sound(parent, 1 .. n, {p \in like : p[1] < i})
  PROVE  Sound(Placed(parent, i, like), 1 .. n, {p \in like : p[1] < i + 1})
<1> DEFINE D == 1 .. n
           Done(j) == {p \in like : p[1] < i \/ (p[1] = i /\ p[2] <= j)}
<1>1. parent \in [1 .. n -> 1 .. n]
  BY DEF Sound, Tree
<1>2. PICK with : WithsRecur(with, 1 .. n, parent, i, like) /\ Placed(parent, i, like) = with[i - 1]
  BY <1>1, PlacedIs
<1>3. \A p \in like : p[1] \in 1 .. n /\ p[2] \in 1 .. n /\ p[2] < p[1] /\ p = <<p[1], p[2]>>
  BY DEF Backwards
<1>4. i - 1 \in Nat /\ i \in D /\ IsFiniteSet(D)
  BY PlacesAreFinite
<1> DEFINE Good == {j \in 0 .. i - 1 : Sound(with[j], D, Done(j))}
<1>5. 0 \in Good
  <2>1. Done(0) = {p \in like : p[1] < i}
    BY <1>3
  <2>2. Sound(with[0], D, Done(0))
    BY <1>2, <2>1 DEF WithsRecur
  <2>3. 0 \in 0 .. i - 1
    BY <1>4
  <2> QED
    BY <2>2, <2>3
<1>6. ASSUME NEW j \in 1 .. i - 1, j - 1 \in Good PROVE j \in Good
  <2>1. Sound(with[j - 1], D, Done(j - 1))
    BY <1>6
  <2>2. j \in 0 .. i - 1 /\ j \in D
    BY <1>4
  <2>3. CASE <<i, j>> \in like
    <3>1. with[j] = Joined(with[j - 1], i, j)
      BY <1>2, <2>3 DEF WithsRecur
    <3>2. Done(j) = Done(j - 1) \cup {<<i, j>>}
      <4>1. ASSUME NEW p \in like PROVE p \in Done(j) <=> p \in Done(j - 1) \/ p = <<i, j>>
        <5>1. p[1] \in Int /\ p[2] \in Int /\ j \in Int /\ i \in Int
          BY <1>3, <2>2
        <5>2. p = <<i, j>> <=> p[1] = i /\ p[2] = j
          BY <1>3
        <5>3. p[2] <= j <=> p[2] <= j - 1 \/ p[2] = j
          BY <5>1
        <5>4. p[1] = i => ~(p[1] < i)
          BY <5>1
        <5> QED
          BY <5>2, <5>3, <5>4
      <4>2. <<i, j>> \in Done(j)
        <5>1. <<i, j>>[1] = i /\ <<i, j>>[2] = j /\ j <= j
          BY <2>2
        <5> QED
          BY <2>3, <5>1
      <4> QED
        BY <4>1, <4>2
    <3>3. Done(j - 1) \in SUBSET (D \X D)
      BY <1>3
    <3> HIDE DEF D, Done, Good
    <3>4. Sound(Joined(with[j - 1], i, j), D, Done(j - 1) \cup {<<i, j>>})
      BY <1>4, <2>1, <2>2, <3>3, JoinedSound
    <3>5. Sound(with[j], D, Done(j))
      BY <3>1, <3>2, <3>4
    <3> QED
      BY <2>2, <3>5 DEF Good
  <2>4. CASE <<i, j>> \notin like
    <3>1. with[j] = with[j - 1]
      BY <1>2, <2>4 DEF WithsRecur
    <3>2. Done(j) = Done(j - 1)
      <4>1. ASSUME NEW p \in like PROVE p \in Done(j) <=> p \in Done(j - 1)
        <5>1. p[1] \in Int /\ p[2] \in Int /\ j \in Int /\ i \in Int
          BY <1>3, <2>2
        <5>2. ~(p[1] = i /\ p[2] = j)
          BY <1>3, <2>4
        <5>3. p[2] <= j <=> p[2] <= j - 1 \/ p[2] = j
          BY <5>1
        <5> QED
          BY <5>2, <5>3
      <4> QED
        BY <4>1
    <3>3. Sound(with[j], D, Done(j))
      BY <2>1, <3>1, <3>2
    <3> QED
      BY <2>2, <3>3
  <2> QED
    BY <2>3, <2>4
<1> HIDE DEF Good
<1>7. 0 .. i - 1 \subseteq Good
  BY <1>4, <1>5, <1>6, UpTo
<1>8. Sound(with[i - 1], D, Done(i - 1))
  <2>1. i - 1 \in Good
    BY <1>4, <1>7
  <2> QED
    BY <2>1 DEF Good
<1>9. Done(i - 1) = {p \in like : p[1] < i + 1}
  <2>1. ASSUME NEW p \in like PROVE (p[1] < i \/ (p[1] = i /\ p[2] <= i - 1)) <=> p[1] < i + 1
    <3>1. p[1] \in Int /\ p[2] \in Int /\ i \in Int /\ p[2] < p[1]
      BY <1>3, <1>4
    <3> QED
      BY <3>1
  <2> QED
    BY <2>1
<1> QED
  BY <1>2, <1>8, <1>9

\* The parents after each post was placed.
Uptos(upto, n, like) ==
  upto = [i \in 0 .. n |-> IF i = 0 THEN [j \in 1 .. n |-> j] ELSE Placed(upto[i - 1], i, like)]

UptosRecur(upto, n, like) ==
  /\ upto[0] = [j \in 1 .. n |-> j]
  /\ \A i \in 1 .. n : upto[i] = Placed(upto[i - 1], i, like)

LEMMA UptosExist ==
  ASSUME NEW n \in Nat, NEW like
  PROVE  \E upto : Uptos(upto, n, like)
<1> DEFINE S == [1 .. n -> 1 .. n]
           start == [j \in 1 .. n |-> j]
<1>1. PICK step : step = [i \in 1 .. n |-> [r \in S |-> Placed(r, i, like)]]
  OBVIOUS
<1>2. start \in S
  OBVIOUS
<1>3. \A i \in 1 .. n : \A r \in S : Placed(r, i, like) \in S
  BY PlacedType
<1> HIDE DEF S, start
<1>4. Stepwise(step, n, S)
  <2>1. ASSUME NEW i \in 1 .. n PROVE [r \in S |-> Placed(r, i, like)] \in [S -> S]
    BY <1>3
  <2>2. step \in [1 .. n -> [S -> S]]
    BY <1>1, <2>1
  <2> QED
    BY <2>2 DEF Stepwise
<1>5. PICK upto : Recurs(upto, n, S, start, step)
  BY <1>2, <1>4, Recursion
<1> DEFINE F(i) == IF i = 0 THEN start ELSE Placed(upto[i - 1], i, like)
<1>6. ASSUME NEW i \in 0 .. n PROVE upto[i] = F(i)
  <2>1. CASE i = 0
    BY <1>5, <2>1 DEF Recurs
  <2>2. CASE i # 0
    <3>1. i \in 1 .. n /\ i - 1 \in 0 .. n
      BY <2>2
    <3>2. upto[i - 1] \in S
      BY <1>5, <3>1 DEF Recurs
    <3>3. upto[i] = step[i][upto[i - 1]]
      BY <1>5, <2>2 DEF Recurs
    <3>4. upto[i] = Placed(upto[i - 1], i, like)
      BY <1>1, <3>1, <3>2, <3>3
    <3> QED
      BY <2>2, <3>4
  <2> QED
    BY <2>1, <2>2
<1>7. upto = [i \in 0 .. n |-> upto[i]]
  BY <1>5 DEF Recurs
<1>8. upto = [i \in 0 .. n |-> F(i)]
  <2> HIDE DEF F
  <2> QED
    BY <1>6, <1>7
<1>9. Uptos(upto, n, like)
  BY <1>8, Zenon DEF Uptos, start
<1> QED
  BY <1>9

LEMMA UptosStep ==
  ASSUME NEW n \in Nat, NEW like, NEW upto, Uptos(upto, n, like)
  PROVE  UptosRecur(upto, n, like)
<1> DEFINE F(i) == IF i = 0 THEN [j \in 1 .. n |-> j] ELSE Placed(upto[i - 1], i, like)
<1>1. upto = [i \in 0 .. n |-> F(i)]
  BY Zenon DEF Uptos
<1>2. \A i \in 0 .. n : upto[i] = F(i)
  <2> HIDE DEF F
  <2> QED
    BY <1>1, Zenon
<1>3. 0 \in 0 .. n
  OBVIOUS
<1>4. upto[0] = [j \in 1 .. n |-> j]
  BY <1>2, <1>3
<1>5. ASSUME NEW i \in 1 .. n PROVE upto[i] = Placed(upto[i - 1], i, like)
  <2>1. i \in 0 .. n /\ i # 0
    OBVIOUS
  <2>2. upto[i] = F(i)
    BY <1>2, <2>1
  <2> QED
    BY <2>1, <2>2
<1> QED
  BY <1>4, <1>5 DEF UptosRecur

LEMMA ForestSound ==
  ASSUME NEW n \in Nat, NEW like \in SUBSET Backwards(n)
  PROVE  Sound(Forest(n, like), 1 .. n, like)
<1> DEFINE upto == CHOOSE u : Uptos(u, n, like)
<1>1. Uptos(upto, n, like)
  <2>1. \E u : Uptos(u, n, like)
    BY UptosExist
  <2> QED
    BY <2>1, Zenon
<1>2. Forest(n, like) = upto[n]
  BY DEF Forest, Uptos
<1> HIDE DEF upto
<1>3. UptosRecur(upto, n, like)
  BY <1>1, UptosStep
<1> DEFINE Done(i) == {p \in like : p[1] < i + 1}
           Good == {i \in 0 .. n : Sound(upto[i], 1 .. n, Done(i))}
<1>4. \A p \in like : p[1] \in 1 .. n
  BY DEF Backwards
<1>5. 0 \in Good
  <2>1. Done(0) = {}
    BY <1>4
  <2>2. Sound(upto[0], 1 .. n, Done(0))
    BY <1>3, <2>1, NobodyIsJoined DEF UptosRecur
  <2>3. 0 \in 0 .. n
    OBVIOUS
  <2> QED
    BY <2>2, <2>3
<1>6. ASSUME NEW i \in 1 .. n, i - 1 \in Good PROVE i \in Good
  <2>1. Sound(upto[i - 1], 1 .. n, Done(i - 1))
    BY <1>6
  <2>2. Done(i - 1) = {p \in like : p[1] < i}
    BY <1>4
  <2>3. Sound(Placed(upto[i - 1], i, like), 1 .. n, {p \in like : p[1] < i + 1})
    BY <2>1, <2>2, PlacedSound
  <2>4. upto[i] = Placed(upto[i - 1], i, like)
    BY <1>3 DEF UptosRecur
  <2>5. i \in 0 .. n
    OBVIOUS
  <2> QED
    BY <2>3, <2>4, <2>5
<1> HIDE DEF Good
<1>7. 0 .. n \subseteq Good
  BY <1>5, <1>6, UpTo
<1>8. Sound(upto[n], 1 .. n, Done(n))
  BY <1>7 DEF Good
<1>9. Done(n) = like
  BY <1>4
<1> QED
  BY <1>2, <1>8, <1>9

\* What the groups are: the posts with words whose root is the same.
Within(words, like) == {p \in like : {p[1], p[2]} \subseteq words}
Members(root, words, r) == {i \in words : root[i] = r}

Grouped(root, n, words, like) ==
  /\ root \in [1 .. n -> 1 .. n]
  /\ \A p \in Within(words, like) : root[p[1]] = root[p[2]]
  /\ \A posts \in SUBSET (1 .. n) : Closed(posts, Within(words, like)) =>
       \A x, y \in 1 .. n : root[x] = root[y] => (x \in posts <=> y \in posts)
  /\ \A g : g \in Groups(n, words, like) <=>
       /\ \E r \in 1 .. n : g = Members(root, words, r)
       /\ Cardinality(g) > 1

LEMMA GroupsAreGrouped ==
  ASSUME NEW n \in Nat, NEW words \in SUBSET (1 .. n), NEW like \in SUBSET Backwards(n)
  PROVE  \E root : Grouped(root, n, words, like)
<1> DEFINE forest == Forest(n, Within(words, like))
           root == Roots(forest, 1 .. n)
<1>1. Within(words, like) \in SUBSET Backwards(n)
  BY DEF Within
<1>2. Sound(forest, 1 .. n, Within(words, like))
  BY <1>1, ForestSound
<1>3. Rooted(root, forest, 1 .. n)
  <2> HIDE DEF forest
  <2>1. Tree(forest, 1 .. n) /\ IsFiniteSet(1 .. n)
    BY <1>2, PlacesAreFinite DEF Sound
  <2> QED
    BY <2>1, TreesAreRooted
<1>4. ASSUME NEW r PROVE {i \in words : Root(forest, i) = r} = Members(root, words, r)
  BY DEF Members, Roots
<1>5. Groups(n, words, like) =
        {g \in {{i \in words : Root(forest, i) = r} : r \in 1 .. n} : Cardinality(g) > 1}
  BY DEF Groups, Within
<1> HIDE DEF forest
<1>6. ASSUME NEW g
      PROVE  g \in Groups(n, words, like) <=>
               /\ \E r \in 1 .. n : g = Members(root, words, r)
               /\ Cardinality(g) > 1
  BY <1>4, <1>5
<1>7. Grouped(root, n, words, like)
  BY <1>2, <1>3, <1>6 DEF Grouped, Sound, Rooted
<1> QED
  BY <1>7

LEMMA TwoInAGroup ==
  ASSUME NEW n \in Nat, NEW words \in SUBSET (1 .. n), NEW like, NEW root,
         Grouped(root, n, words, like), NEW i \in words, NEW j \in words, i # j
  PROVE  (\E g \in Groups(n, words, like) : {i, j} \subseteq g) <=> root[i] = root[j]
<1>1. ASSUME NEW g \in Groups(n, words, like), {i, j} \subseteq g PROVE root[i] = root[j]
  <2>1. PICK r \in 1 .. n : g = Members(root, words, r)
    BY DEF Grouped
  <2> QED
    BY <1>1, <2>1 DEF Members
<1>2. ASSUME root[i] = root[j] PROVE \E g \in Groups(n, words, like) : {i, j} \subseteq g
  <2>1. PICK g : g = Members(root, words, root[i])
    OBVIOUS
  <2>2. root[i] \in 1 .. n /\ {i, j} \subseteq g /\ g \in SUBSET (1 .. n)
    BY <1>2, <2>1 DEF Members, Grouped
  <2>3. IsFiniteSet(g)
    BY <2>2, PlacesAreFinite
  <2>4. Cardinality({i}) = 1 /\ IsFiniteSet({i})
    BY FS_Singleton
  <2>5. Cardinality({i} \cup {j}) = 1 + 1
    BY <2>4, FS_AddElement
  <2>6. {i} \cup {j} = {i, j}
    OBVIOUS
  <2>7. Cardinality({i, j}) <= Cardinality(g) /\ Cardinality(g) \in Nat
    BY <2>2, <2>3, FS_Subset, FS_CardinalityType
  <2>8. Cardinality(g) > 1
    BY <2>5, <2>6, <2>7
  <2>9. g \in Groups(n, words, like)
    BY <2>1, <2>2, <2>8 DEF Grouped
  <2> QED
    BY <2>2, <2>9
<1> QED
  BY <1>1, <1>2

LEMMA ChainedAreGrouped ==
  ASSUME NEW n \in Nat, NEW words \in SUBSET (1 .. n), NEW like, NEW root,
         Grouped(root, n, words, like), NEW i \in words, NEW j \in words
  PROVE  root[i] = root[j] <=> Chained(words, Within(words, like), i, j)
<1>1. ASSUME Chained(words, Within(words, like), i, j) PROVE root[i] = root[j]
  <2>1. PICK posts : posts = {x \in words : root[x] = root[i]}
    OBVIOUS
  <2>2. ASSUME NEW p \in Within(words, like) PROVE p[1] \in posts <=> p[2] \in posts
    <3>1. p[1] \in words /\ p[2] \in words /\ root[p[1]] = root[p[2]]
      BY DEF Within, Grouped
    <3> QED
      BY <2>1, <3>1
  <2>3. Closed(posts, Within(words, like)) /\ posts \in SUBSET words /\ i \in posts
    BY <2>1, <2>2 DEF Closed
  <2>4. j \in posts
    BY <1>1, <2>3 DEF Chained
  <2> QED
    BY <2>1, <2>4
<1>2. ASSUME root[i] = root[j] PROVE Chained(words, Within(words, like), i, j)
  <2>1. ASSUME NEW posts \in SUBSET words, Closed(posts, Within(words, like)), i \in posts
        PROVE  j \in posts
    BY <1>2, <2>1 DEF Grouped
  <2> QED
    BY <2>1 DEF Chained
<1> QED
  BY <1>1, <1>2

\* Posts are in one group of find_groups() when and only when a chain of
\* likenesses joins them, for any posts in any order.
THEOREM GroupsAreAlwaysChains ==
  ASSUME NEW n \in Nat
  PROVE  GroupsAreChains(n)
<1>1. SUFFICES ASSUME NEW words \in SUBSET (1 .. n), NEW like \in SUBSET Backwards(n),
                      NEW i \in words, NEW j \in words, i # j
               PROVE  (\E g \in Groups(n, words, like) : {i, j} \subseteq g)
                        <=> Chained(words, Within(words, like), i, j)
  BY DEF GroupsAreChains, Within, Backwards
<1>2. PICK root : Grouped(root, n, words, like)
  BY GroupsAreGrouped
<1> QED
  BY <1>1, <1>2, TwoInAGroup, ChainedAreGrouped

\* Groups have posts, and no post is in two of them.
Apart(groups, n) ==
  /\ \A g \in groups : g \in SUBSET (1 .. n) /\ Min(g) \in g
  /\ \A g, f \in groups : \A i \in g : i \in f => f = g

LEMMA MinIn ==
  ASSUME NEW T \in SUBSET Nat, T # {}
  PROVE  Min(T) \in T
<1>1. \E m \in T : \A x \in T : m <= x
  BY LeastNumber
<1> QED
  BY <1>1 DEF Min

LEMMA GroupsAreApart ==
  ASSUME NEW n \in Nat, NEW words \in SUBSET (1 .. n), NEW like \in SUBSET Backwards(n)
  PROVE  Apart(Groups(n, words, like), n)
<1>1. PICK root : Grouped(root, n, words, like)
  BY GroupsAreGrouped
<1>2. ASSUME NEW g \in Groups(n, words, like) PROVE g \in SUBSET (1 .. n) /\ Min(g) \in g
  <2>1. g \in SUBSET (1 .. n) /\ Cardinality(g) > 1
    <3>1. (\E r \in 1 .. n : g = Members(root, words, r)) /\ Cardinality(g) > 1
      BY <1>1 DEF Grouped
    <3>2. PICK r : g = Members(root, words, r)
      BY <3>1
    <3>3. g \subseteq words
      BY <3>2 DEF Members
    <3> QED
      BY <3>1, <3>3
  <2>2. g # {}
    BY <2>1, FS_EmptySet
  <2>3. g \in SUBSET Nat
    BY <2>1
  <2> QED
    BY <2>1, <2>2, <2>3, MinIn
<1>3. ASSUME NEW g \in Groups(n, words, like), NEW f \in Groups(n, words, like), NEW i \in g, i \in f
      PROVE  f = g
  <2>1. PICK r, s : g = Members(root, words, r) /\ f = Members(root, words, s)
    BY <1>1 DEF Grouped
  <2>2. root[i] = r /\ root[i] = s
    BY <1>3, <2>1 DEF Members
  <2> QED
    BY <2>1, <2>2
<1> QED
  BY <1>2, <1>3 DEF Apart

\* A transfer takes to a copy what it has not of its origin.
Gives(t, g, manual) ==
  /\ t.from = Min(g) /\ t.to \in g /\ t.to # Min(g)
  /\ t.axes = manual[Min(g)] \ manual[t.to] /\ t.axes # {}

LEMMA TransfersGive ==
  ASSUME NEW groups, NEW manual, NEW t \in Transfers(groups, manual)
  PROVE  \E g \in groups : Gives(t, g, manual)
<1> DEFINE To(g) == {[from |-> Min(g), to |-> i, axes |-> manual[Min(g)] \ manual[i]] :
                       i \in g \ {Min(g)}}
<1>1. t \in UNION {To(g) : g \in groups} /\ t.axes # {}
  BY DEF Transfers
<1>2. PICK g \in groups : t \in To(g)
  BY <1>1
<1>3. PICK i \in g \ {Min(g)} :
        t = [from |-> Min(g), to |-> i, axes |-> manual[Min(g)] \ manual[i]]
  BY <1>2
<1>4. t.from = Min(g) /\ t.to = i /\ t.axes = manual[Min(g)] \ manual[i]
  BY <1>3
<1> QED
  BY <1>1, <1>3, <1>4 DEF Gives

LEMMA AllIsGiven ==
  ASSUME NEW groups, NEW manual, NEW g \in groups, NEW i \in g, i # Min(g),
         manual[Min(g)] \ manual[i] # {}
  PROVE  \E t \in Transfers(groups, manual) : t.to = i /\ t.axes = manual[Min(g)] \ manual[i]
<1>1. PICK t : t = [from |-> Min(g), to |-> i, axes |-> manual[Min(g)] \ manual[i]]
  OBVIOUS
<1>2. t.from = Min(g) /\ t.to = i /\ t.axes = manual[Min(g)] \ manual[i]
  BY <1>1
<1> DEFINE To(f) == {[from |-> Min(f), to |-> j, axes |-> manual[Min(f)] \ manual[j]] :
                       j \in f \ {Min(f)}}
<1>3. t \in To(g)
  BY <1>1
<1>4. t \in UNION {To(f) : f \in groups}
  <2> HIDE DEF To
  <2> QED
    BY <1>3
<1>5. Transfers(groups, manual) = {u \in UNION {To(f) : f \in groups} : u.axes # {}}
  BY DEF Transfers
<1>6. t \in Transfers(groups, manual)
  <2> HIDE DEF To
  <2> QED
    BY <1>2, <1>4, <1>5
<1> QED
  BY <1>2, <1>6

\* What a post has when the transfers were made.
Filled(manual, given, i) == manual[i] \cup UNION {t.axes : t \in {u \in given : u.to = i}}

LEMMA OriginsKeep ==
  ASSUME NEW n \in Nat, NEW groups, Apart(groups, n), NEW manual, NEW i,
         \A g \in groups : i = Min(g) \/ i \notin g
  PROVE  Filled(manual, Transfers(groups, manual), i) = manual[i]
<1>1. ASSUME NEW t \in Transfers(groups, manual), t.to = i PROVE FALSE
  <2>1. PICK g \in groups : Gives(t, g, manual)
    BY TransfersGive
  <2> QED
    BY <1>1, <2>1 DEF Gives
<1>2. {u \in Transfers(groups, manual) : u.to = i} = {}
  BY <1>1
<1> QED
  BY <1>2 DEF Filled

LEMMA CopiesAreFilled ==
  ASSUME NEW n \in Nat, NEW groups, Apart(groups, n), NEW manual, NEW g \in groups, NEW i \in g
  PROVE  Filled(manual, Transfers(groups, manual), i) = manual[i] \cup manual[Min(g)]
<1>1. CASE i = Min(g)
  <2>1. \A f \in groups : i = Min(f) \/ i \notin f
    BY <1>1 DEF Apart
  <2>2. Filled(manual, Transfers(groups, manual), i) = manual[i]
    BY <2>1, OriginsKeep
  <2> QED
    BY <1>1, <2>2
<1>2. CASE i # Min(g)
  <2>1. ASSUME NEW t \in Transfers(groups, manual), t.to = i
        PROVE  t.axes = manual[Min(g)] \ manual[i]
    <3>1. PICK f \in groups : Gives(t, f, manual)
      BY TransfersGive
    <3>2. i \in f
      BY <2>1, <3>1 DEF Gives
    <3>3. f = g
      BY <3>2 DEF Apart
    <3> QED
      BY <2>1, <3>1, <3>3 DEF Gives
  <2>2. PICK moved : moved = UNION {t.axes : t \in {u \in Transfers(groups, manual) : u.to = i}}
    OBVIOUS
  <2>3. moved = manual[Min(g)] \ manual[i]
    <3>1. CASE manual[Min(g)] \ manual[i] = {}
      BY <2>1, <2>2, <3>1
    <3>2. CASE manual[Min(g)] \ manual[i] # {}
      <4>1. PICK t \in Transfers(groups, manual) : t.to = i /\ t.axes = manual[Min(g)] \ manual[i]
        BY <1>2, <3>2, AllIsGiven
      <4> QED
        BY <2>1, <2>2, <4>1
    <3> QED
      BY <3>1, <3>2
  <2>4. Filled(manual, Transfers(groups, manual), i) = manual[i] \cup moved
    BY <2>2 DEF Filled
  <2> QED
    BY <2>3, <2>4
<1> QED
  BY <1>1, <1>2

\* Once the labels are copied there is nothing left to copy, whatever groups
\* and whatever labels there were.
THEOREM TransfersAlwaysSettle ==
  ASSUME NEW n \in Nat, NEW axes
  PROVE  TransfersSettle(n, axes)
<1>1. SUFFICES ASSUME NEW pairs \in SUBSET Backwards(n), NEW manual \in [1 .. n -> SUBSET axes]
               PROVE  LET groups == Groups(n, 1 .. n, pairs)
                          given == Transfers(groups, manual)
                          after == [i \in 1 .. n |-> Filled(manual, given, i)]
                      IN  /\ Transfers(groups, after) = {}
                          /\ \A i \in 1 .. n :
                               (\A g \in groups : i = Min(g) \/ i \notin g) => after[i] = manual[i]
                          /\ \A g \in groups : \A i \in g : after[i] = manual[i] \cup manual[Min(g)]
  BY Zenon DEF TransfersSettle, Filled, Backwards
<1> DEFINE groups == Groups(n, 1 .. n, pairs)
           given == Transfers(groups, manual)
           after == [i \in 1 .. n |-> Filled(manual, given, i)]
<1>2. Apart(groups, n)
  BY GroupsAreApart
<1> HIDE DEF groups
<1>3. \A i \in 1 .. n : after[i] = Filled(manual, given, i)
  OBVIOUS
<1> HIDE DEF after
<1>4. ASSUME NEW i \in 1 .. n, \A g \in groups : i = Min(g) \/ i \notin g
      PROVE  after[i] = manual[i]
  <2>1. Filled(manual, given, i) = manual[i]
    BY <1>2, <1>4, OriginsKeep
  <2> QED
    BY <1>3, <2>1
<1>5. ASSUME NEW g \in groups, NEW i \in g PROVE after[i] = manual[i] \cup manual[Min(g)]
  <2>1. i \in 1 .. n
    BY <1>2 DEF Apart
  <2>2. Filled(manual, given, i) = manual[i] \cup manual[Min(g)]
    BY <1>2, CopiesAreFilled
  <2> QED
    BY <1>3, <2>1, <2>2
<1>6. ASSUME NEW t \in Transfers(groups, after) PROVE FALSE
  <2>1. PICK g \in groups : Gives(t, g, after)
    BY TransfersGive
  <2>2. Min(g) \in g /\ t.to \in g
    BY <1>2, <2>1 DEF Apart, Gives
  <2>3. after[Min(g)] = manual[Min(g)] \cup manual[Min(g)]
    BY <1>5, <2>2
  <2>4. after[t.to] = manual[t.to] \cup manual[Min(g)]
    BY <1>5, <2>2
  <2> QED
    BY <2>1, <2>3, <2>4 DEF Gives
<1>7. Transfers(groups, after) = {}
  BY <1>6
<1> QED
  BY <1>4, <1>5, <1>7 DEF groups, after

LEMMA FiniteImage ==
  ASSUME NEW n \in Nat, NEW f, f = [k \in 1 .. n |-> f[k]]
  PROVE  IsFiniteSet({f[k] : k \in 1 .. n})
<1> DEFINE T == {f[k] : k \in 1 .. n}
<1>1. IsFiniteSet(1 .. n)
  BY PlacesAreFinite
<1>2. f \in Surjection(1 .. n, T)
  BY DEF Surjection
<1> HIDE DEF T
<1>4. IsFiniteSet(T)
  BY <1>1, <1>2, FS_Surjection
<1> QED
  BY <1>4 DEF T

\* The shingles of a post are finitely many, and there are some unless it has no words.
LEMMA ShinglesOf ==
  ASSUME NEW words, NEW longest \in Nat, NEW size \in Nat \ {0}, NEW w \in SeqOf(words, longest)
  PROVE  /\ IsFiniteSet(Shingles(w, size))
         /\ w = <<>> <=> Shingles(w, size) = {}
<1>1. PICK m \in 0 .. longest : w \in [1 .. m -> words]
  BY DEF SeqOf
<1>2. m \in Nat /\ w \in Seq(words) /\ Len(w) = m /\ DOMAIN w = 1 .. m
  BY <1>1
<1>3. w = <<>> <=> m = 0
  BY <1>1, <1>2
<1>4. CASE m < size
  <2>1. PICK f : f = [k \in 1 .. m |-> <<w[k]>>]
    OBVIOUS
  <2>2. f = [k \in 1 .. m |-> f[k]] /\ {f[k] : k \in 1 .. m} = {<<w[k]>> : k \in 1 .. m}
    BY <2>1
  <2>3. Shingles(w, size) = {f[k] : k \in 1 .. m}
    BY <1>2, <1>4, <2>2 DEF Shingles
  <2>4. IsFiniteSet({f[k] : k \in 1 .. m})
    BY <1>2, <2>2, FiniteImage
  <2>5. 1 .. m = {} <=> m = 0
    BY <1>2
  <2>6. {f[k] : k \in 1 .. m} = {} <=> 1 .. m = {}
    OBVIOUS
  <2> QED
    BY <1>3, <2>3, <2>4, <2>5, <2>6
<1>5. CASE ~(m < size)
  <2>1. PICK f : f = [k \in 1 .. m - size + 1 |-> SubSeq(w, k, k + size - 1)]
    OBVIOUS
  <2>2. /\ f = [k \in 1 .. m - size + 1 |-> f[k]]
        /\ {f[k] : k \in 1 .. m - size + 1} = {SubSeq(w, k, k + size - 1) : k \in 1 .. m - size + 1}
    BY <2>1
  <2>3. Shingles(w, size) = {f[k] : k \in 1 .. m - size + 1}
    BY <1>2, <1>5, <2>2 DEF Shingles
  <2>4. m - size + 1 \in Nat /\ 1 \in 1 .. m - size + 1
    BY <1>2, <1>5
  <2>5. IsFiniteSet({f[k] : k \in 1 .. m - size + 1})
    BY <2>2, <2>4, FiniteImage
  <2>6. f[1] \in Shingles(w, size)
    BY <2>3, <2>4
  <2>7. m # 0
    BY <1>2, <1>5
  <2>8. Shingles(w, size) # {}
    BY <2>6
  <2>9. IsFiniteSet(Shingles(w, size))
    BY <2>3, <2>5
  <2> QED
    BY <1>3, <2>7, <2>8, <2>9
<1> QED
  BY <1>4, <1>5

\* Similar posts share a shingle, and the order in which they are compared is nothing to it.
LEMMA SimilarShare ==
  ASSUME NEW a, IsFiniteSet(a), NEW b, IsFiniteSet(b), NEW t \in Nat \ {0}, AtLeast(Score(a, b), t)
  PROVE  \E shingle \in a : shingle \in b
<1>1. PICK c, d : c = Cardinality(a \cap b) /\ d = Cardinality(a \cup b)
  OBVIOUS
<1>2. IsFiniteSet(a \cap b) /\ IsFiniteSet(a \cup b)
  BY FS_Union, FS_Intersection
<1>3. c \in Nat /\ d \in Nat
  BY <1>1, <1>2, FS_CardinalityType
<1>4. d > 0 /\ 100 * c >= t * d
  BY <1>1 DEF AtLeast, Score
<1>5. t * d > 0
  BY <1>3, <1>4
<1>6. t * d \in Int
  BY <1>3
<1>7. c # 0
  BY <1>3, <1>4, <1>5, <1>6
<1>8. a \cap b # {}
  BY <1>1, <1>2, <1>7, FS_EmptySet
<1> QED
  BY <1>8

LEMMA ScoresAreMutual == ASSUME NEW a, NEW b PROVE Score(a, b) = Score(b, a)
<1>1. a \cap b = b \cap a /\ a \cup b = b \cup a
  OBVIOUS
<1> QED
  BY <1>1 DEF Score

LEMMA EqualAreSimilar ==
  ASSUME NEW a, IsFiniteSet(a), a # {}, NEW t \in 1 .. 100
  PROVE  AtLeast(Score(a, a), t)
<1>1. a \cap a = a /\ a \cup a = a
  OBVIOUS
<1>2. PICK c : c = Cardinality(a)
  OBVIOUS
<1>3. c \in Nat /\ c # 0
  BY <1>2, FS_CardinalityType, FS_EmptySet
<1>4. 100 * c >= t * c
  BY <1>3
<1>5. Score(a, a) = <<c, c>>
  BY <1>1, <1>2 DEF Score
<1>6. AtLeast(<<c, c>>, t)
  BY <1>3, <1>4 DEF AtLeast
<1> QED
  BY <1>5, <1>6

\* What joins two posts.
Meets(p, n, prints, dates, t) ==
  /\ p[1] \in 1 .. n /\ p[2] \in 1 .. p[1] - 1
  /\ \E shingle \in prints[p[1]] : shingle \in prints[p[2]]
  /\ AtLeast(Score(prints[p[1]], prints[p[2]]), t)
  /\ SameEvent(dates[p[1]], dates[p[2]])

LEMMA MetMeet ==
  ASSUME NEW n \in Nat, NEW prints, NEW dates, NEW t, NEW i, NEW j
  PROVE  <<i, j>> \in Met(n, prints, dates, t) <=> Meets(<<i, j>>, n, prints, dates, t)
<1>1. ASSUME <<i, j>> \in Met(n, prints, dates, t) PROVE Meets(<<i, j>>, n, prints, dates, t)
  BY <1>1 DEF Met, Meets, Candidates
<1>2. ASSUME Meets(<<i, j>>, n, prints, dates, t) PROVE <<i, j>> \in Met(n, prints, dates, t)
  <2>1. i \in 1 .. n /\ j \in 1 .. i - 1
    BY <1>2 DEF Meets
  <2>2. j \in 1 .. n
    BY <2>1
  <2> QED
    BY <1>2, <2>1, <2>2 DEF Met, Meets, Candidates
<1> QED
  BY <1>1, <1>2

LEMMA MetBackwards ==
  ASSUME NEW n \in Nat, NEW prints, NEW dates, NEW t
  PROVE  /\ Met(n, prints, dates, t) \in SUBSET Backwards(n)
         /\ \A p \in Met(n, prints, dates, t) : AtLeast(Score(prints[p[1]], prints[p[2]]), t)
<1>1. ASSUME NEW p \in Met(n, prints, dates, t) PROVE p \in Backwards(n)
  <2>1. p \in (1 .. n) \X (1 .. n) /\ p[2] \in 1 .. p[1] - 1
    BY DEF Met, Candidates
  <2>2. p[1] \in 1 .. n /\ p[2] < p[1]
    BY <2>1
  <2> QED
    BY <2>1, <2>2 DEF Backwards
<1> QED
  BY <1>1 DEF Met

\* A post in a group was joined to another that has words too.
LEMMA MembersWereJoined ==
  ASSUME NEW n \in Nat, NEW words \in SUBSET (1 .. n), NEW like \in SUBSET Backwards(n),
         NEW g \in Groups(n, words, like), NEW i \in g
  PROVE  \E p \in like : i \in {p[1], p[2]}
<1>1. PICK root : Grouped(root, n, words, like)
  BY GroupsAreGrouped
<1>2. PICK r : g = Members(root, words, r) /\ Cardinality(g) > 1
  BY <1>1 DEF Grouped
<1>3. g \subseteq words /\ \A x \in g : root[x] = r
  BY <1>2 DEF Members
<1>4. PICK j \in g : j # i
  <2>1. SUFFICES ASSUME g = {i} PROVE FALSE
    OBVIOUS
  <2>2. Cardinality({i}) = 1
    BY FS_Singleton
  <2> QED
    BY <1>2, <2>1, <2>2
<1>5. SUFFICES ASSUME \A p \in like : p[1] # i /\ p[2] # i PROVE FALSE
  OBVIOUS
<1>6. Closed({i}, Within(words, like))
  <2>1. Within(words, like) \subseteq like
    BY DEF Within
  <2> QED
    BY <1>5, <2>1 DEF Closed
<1>7. i \in 1 .. n /\ j \in 1 .. n /\ root[i] = root[j] /\ {i} \in SUBSET (1 .. n)
  BY <1>3
<1>8. i \in {i} <=> j \in {i}
  BY <1>1, <1>6, <1>7 DEF Grouped
<1> QED
  BY <1>4, <1>8

\* The index of shingles hides no pair of posts that are similar enough, a post
\* that is in a group was similar enough to one of it, and equal posts are in one
\* group: for any posts, days and thresholds up to the whole.
THEOREM IndexAlwaysMissesNothing ==
  ASSUME NEW n \in Nat, NEW words, NEW longest \in Nat, NEW size \in Nat \ {0},
         NEW days, NEW thresholds \in SUBSET (1 .. 100)
  PROVE  IndexMissesNothing(n, words, longest, size, days, thresholds)
<1>1. SUFFICES ASSUME NEW text \in [1 .. n -> SeqOf(words, longest)],
                      NEW dates \in [1 .. n -> SUBSET days], NEW t \in thresholds
               PROVE  LET prints == [i \in 1 .. n |-> Shingles(text[i], size)]
                          met == Met(n, prints, dates, t)
                          written == {i \in 1 .. n : text[i] # <<>>}
                      IN  /\ \A i, j \in written :
                               j < i /\ SameEvent(dates[i], dates[j])
                                 => (<<i, j>> \in met <=> AtLeast(Score(prints[j], prints[i]), t))
                          /\ \A g \in Groups(n, written, met) : \A i \in g :
                               \E score \in Scores(met, prints, i) : AtLeast(score, t)
                          /\ \A i, j \in written : j < i /\ text[i] = text[j] /\ dates[i] = dates[j] =>
                               \E g \in Groups(n, written, met) : {i, j} \subseteq g
  BY Zenon DEF IndexMissesNothing
<1> DEFINE prints == [i \in 1 .. n |-> Shingles(text[i], size)]
           met == Met(n, prints, dates, t)
           written == {i \in 1 .. n : text[i] # <<>>}
<1>2. /\ \A i \in 1 .. n : prints[i] = Shingles(text[i], size)
      /\ \A i \in written : i \in 1 .. n /\ text[i] # <<>>
      /\ written \in SUBSET (1 .. n)
  OBVIOUS
<1> HIDE DEF prints, written
<1>3. ASSUME NEW i \in written PROVE i \in 1 .. n /\ IsFiniteSet(prints[i]) /\ prints[i] # {}
  <2>1. i \in 1 .. n /\ text[i] # <<>> /\ text[i] \in SeqOf(words, longest)
    BY <1>2
  <2>2. IsFiniteSet(Shingles(text[i], size)) /\ Shingles(text[i], size) # {}
    BY <2>1, ShinglesOf
  <2> QED
    BY <1>2, <2>1, <2>2
<1>4. t \in 1 .. 100 /\ t \in Nat \ {0}
  OBVIOUS
<1>5. ASSUME NEW i \in written, NEW j \in written, j < i, SameEvent(dates[i], dates[j])
      PROVE  <<i, j>> \in met <=> AtLeast(Score(prints[j], prints[i]), t)
  <2>1. Score(prints[i], prints[j]) = Score(prints[j], prints[i])
    BY ScoresAreMutual
  <2>2. i \in 1 .. n /\ j \in 1 .. i - 1
    BY <1>3, <1>5
  <2>3. AtLeast(Score(prints[i], prints[j]), t) => \E shingle \in prints[i] : shingle \in prints[j]
    BY <1>3, <1>4, SimilarShare
  <2>4. Meets(<<i, j>>, n, prints, dates, t) <=> AtLeast(Score(prints[i], prints[j]), t)
    BY <1>5, <2>2, <2>3 DEF Meets
  <2>5. <<i, j>> \in met <=> Meets(<<i, j>>, n, prints, dates, t)
    BY MetMeet
  <2> QED
    BY <2>1, <2>4, <2>5
<1>6. met \in SUBSET Backwards(n) /\ \A p \in met : AtLeast(Score(prints[p[1]], prints[p[2]]), t)
  BY MetBackwards
<1>7. ASSUME NEW i \in written, NEW j \in written, j < i, text[i] = text[j], dates[i] = dates[j]
      PROVE  \E g \in Groups(n, written, met) : {i, j} \subseteq g
  <2>1. prints[i] = prints[j]
    BY <1>2, <1>3, <1>7
  <2>2. AtLeast(Score(prints[j], prints[i]), t)
    BY <1>3, <1>4, <2>1, EqualAreSimilar
  <2>3. SameEvent(dates[i], dates[j])
    BY <1>7 DEF SameEvent
  <2>4. <<i, j>> \in met
    BY <1>5, <1>7, <2>2, <2>3
  <2> HIDE DEF met
  <2>5. PICK root : Grouped(root, n, written, met)
    BY <1>2, <1>6, GroupsAreGrouped
  <2>6. <<i, j>> \in Within(written, met) /\ <<i, j>>[1] = i /\ <<i, j>>[2] = j
    BY <2>4 DEF Within
  <2>7. root[<<i, j>>[1]] = root[<<i, j>>[2]]
    BY <2>5, <2>6 DEF Grouped
  <2>8. root[i] = root[j] /\ i # j
    BY <1>3, <1>7, <2>6, <2>7
  <2> QED
    BY <1>2, <2>5, <2>8, TwoInAGroup
<1>8. ASSUME NEW g \in Groups(n, written, met), NEW i \in g
      PROVE  \E score \in Scores(met, prints, i) : AtLeast(score, t)
  <2> HIDE DEF met
  <2>1. PICK p \in met : i \in {p[1], p[2]}
    BY <1>2, <1>6, <1>8, MembersWereJoined
  <2>2. Score(prints[p[1]], prints[p[2]]) \in Scores(met, prints, i)
    BY <2>1 DEF Scores
  <2> QED
    BY <1>6, <2>1, <2>2
<1> QED
  BY <1>5, <1>7, <1>8 DEF prints, written


-----------------------------------------------------------------------------
(* sample.py: the quotas *)

LEMMA SumIsOn ==
  ASSUME NEW K, NEW f, DOMAIN f = K
  PROVE  Sum(f) = SumFunctionOnSet(f, K)
BY DEF Sum, FoldFunction, SumFunctionOnSet

\* What channels have, or may be asked for.
Counts(f, K) == f \in [K -> Nat]

LEMMA SumOfCounts ==
  ASSUME NEW K, IsFiniteSet(K), NEW f, Counts(f, K)
  PROVE  /\ Sum(f) \in Nat /\ Sum(f) = SumFunctionOnSet(f, K)
         /\ \A k \in K : f[k] <= Sum(f)
<1>1. DOMAIN f = K /\ \A k \in K : f[k] \in Nat
  BY DEF Counts
<1>2. Sum(f) = SumFunctionOnSet(f, K)
  BY <1>1, SumIsOn
<1>3. SumFunctionOnSet(f, K) \in Nat
  BY <1>1, SumIsNat
<1>4. Summable(K, f)
  BY <1>1 DEF Summable
<1>5. ASSUME NEW k \in K PROVE f[k] <= Sum(f)
  <2>1. SumFunctionOnSet(f, K) = f[k] + SumFunctionOnSet(f, K \ {k})
    BY <1>4, SumLess
  <2>2. SumFunctionOnSet(f, K \ {k}) \in Nat
    <3>1. IsFiniteSet(K \ {k}) /\ \A x \in K \ {k} : f[x] \in Nat
      BY <1>1, FS_RemoveElement
    <3> QED
      BY <3>1, SumIsNat
  <2> QED
    BY <1>1, <1>2, <2>1, <2>2
<1> QED
  BY <1>2, <1>3, <1>5

LEMMA SumOfMore ==
  ASSUME NEW K, IsFiniteSet(K), NEW f, Counts(f, K), NEW g, Counts(g, K), \A k \in K : f[k] <= g[k]
  PROVE  Sum(f) <= Sum(g)
<1>1. \A k \in K : f[k] \in Nat /\ g[k] \in Nat
  BY DEF Counts
<1> DEFINE Good == {s \in SUBSET K : SumFunctionOnSet(f, s) <= SumFunctionOnSet(g, s)}
<1>2. ASSUME NEW s \in SUBSET K, \A x \in s : s \ {x} \in Good PROVE s \in Good
  <2>1. CASE s = {}
    <3>1. SumFunctionOnSet(f, s) = 0 /\ SumFunctionOnSet(g, s) = 0
      BY <2>1, SumEmpty
    <3> QED
      BY <3>1
  <2>2. CASE s # {}
    <3>1. PICK x \in s : TRUE
      BY <2>2
    <3>2. Summable(s, f) /\ Summable(s, g)
      BY <1>1, FS_Subset DEF Summable
    <3>3. /\ SumFunctionOnSet(f, s) = f[x] + SumFunctionOnSet(f, s \ {x})
          /\ SumFunctionOnSet(g, s) = g[x] + SumFunctionOnSet(g, s \ {x})
      BY <3>2, SumLess
    <3>4. Summable(s \ {x}, f) /\ Summable(s \ {x}, g)
      <4>1. s \ {x} \in SUBSET s
        OBVIOUS
      <4> QED
        BY <3>2, <4>1, SummableLess
    <3>5. SumFunctionOnSet(f, s \ {x}) \in Int /\ SumFunctionOnSet(g, s \ {x}) \in Int
      BY <3>4, SumType
    <3>6. SumFunctionOnSet(f, s \ {x}) <= SumFunctionOnSet(g, s \ {x})
      BY <1>2, <3>1
    <3>7. f[x] \in Nat /\ g[x] \in Nat /\ f[x] <= g[x]
      BY <1>1
    <3>8. SumFunctionOnSet(f, s) <= SumFunctionOnSet(g, s)
      BY <3>3, <3>5, <3>6, <3>7
    <3> QED
      BY <3>8
  <2> QED
    BY <2>1, <2>2
<1> HIDE DEF Good
<1>3. Hereditary(Good, K)
  BY <1>2 DEF Hereditary
<1>4. K \in Good
  BY <1>3, BySize
<1>5. SumFunctionOnSet(f, K) <= SumFunctionOnSet(g, K)
  BY <1>4 DEF Good
<1> QED
  BY <1>5, SumOfCounts

LEMMA SumOfOneMore ==
  ASSUME NEW K, IsFiniteSet(K), NEW f, Counts(f, K), NEW k \in K,
         NEW g, Counts(g, K), g[k] = f[k] + 1, \A x \in K \ {k} : f[x] = g[x]
  PROVE  Sum(g) = Sum(f) + 1
<1>1. Counts(g, K) /\ g[k] = f[k] + 1 /\ \A x \in K \ {k} : f[x] = g[x]
  OBVIOUS
<1>2. Summable(K, f) /\ Summable(K, g)
  BY <1>1 DEF Summable, Counts
<1>3. /\ SumFunctionOnSet(f, K) = f[k] + SumFunctionOnSet(f, K \ {k})
      /\ SumFunctionOnSet(g, K) = g[k] + SumFunctionOnSet(g, K \ {k})
  BY <1>2, SumLess
<1>4. Summable(K \ {k}, f)
  <2>1. K \ {k} \in SUBSET K
    OBVIOUS
  <2> QED
    BY <1>2, <2>1, SummableLess
<1>5. SumFunctionOnSet(f, K \ {k}) = SumFunctionOnSet(g, K \ {k})
  BY <1>1, <1>4, SumSame
<1>6. SumFunctionOnSet(f, K \ {k}) \in Int /\ f[k] \in Nat
  BY <1>4, SumType DEF Counts
<1>7. Sum(f) = SumFunctionOnSet(f, K) /\ Sum(g) = SumFunctionOnSet(g, K)
  BY <1>1, SumOfCounts
<1> QED
  BY <1>1, <1>3, <1>5, <1>6, <1>7

\* Nothing is rounded up by more than a half.
LEMMA RoundedNearby ==
  ASSUME NEW a \in Nat, NEW b \in Nat \ {0}
  PROVE  Rounded(a, b) \in Nat /\ 2 * (b * Rounded(a, b)) <= 2 * a + b
<1>1. PICK q \in Nat, m \in Nat : q = a \div b /\ m = a % b /\ m < b /\ a = b * q + m
  OBVIOUS
<1>2. Rounded(a, b) = q \/ (Rounded(a, b) = q + 1 /\ 2 * m >= b)
  BY <1>1 DEF Rounded
<1>3. b * (q + 1) = b * q + b /\ b * q \in Int
  BY <1>1
<1> QED
  BY <1>1, <1>2, <1>3

LEMMA Cancelled ==
  ASSUME NEW t \in Nat \ {0}, NEW a \in Int, NEW b \in Int, t * a <= t * b
  PROVE  a <= b
<1>1. SUFFICES ASSUME b + 1 <= a PROVE FALSE
  OBVIOUS
<1>2. t * (b + 1) <= t * a
  BY <1>1
<1>3. t * (b + 1) = t * b + t /\ t * b \in Int /\ t * a \in Int
  OBVIOUS
<1> QED
  BY <1>2, <1>3

\* Shares that are rounded each for itself add up to less than one for each channel too many.
LEMMA SharesFit ==
  ASSUME NEW K, IsFiniteSet(K), K # {}, NEW sizes, Counts(sizes, K), Sum(sizes) # 0,
         NEW size \in Nat, NEW share, Counts(share, K),
         \A k \in K : 2 * (Sum(sizes) * share[k]) <= 2 * (size * sizes[k]) + Sum(sizes)
  PROVE  Sum(share) < size + Cardinality(K)
<1>1. PICK T \in Nat \ {0} : T = Sum(sizes)
  BY SumOfCounts
<1>2. \A k \in K : share[k] \in Nat /\ sizes[k] \in Nat
  BY DEF Counts
<1> DEFINE A(s) == SumFunctionOnSet(share, s)
           B(s) == SumFunctionOnSet(sizes, s)
           C(s) == Cardinality(s)
           Good == {s \in SUBSET K : 2 * (T * A(s)) <= 2 * (size * B(s)) + T * C(s)}
<1>3. ASSUME NEW s \in SUBSET K, \A x \in s : s \ {x} \in Good PROVE s \in Good
  <2>1. CASE s = {}
    <3>1. A(s) = 0 /\ B(s) = 0 /\ C(s) = 0
      BY <2>1, SumEmpty, FS_EmptySet
    <3> QED
      BY <3>1
  <2>2. CASE s # {}
    <3>1. PICK x \in s : TRUE
      BY <2>2
    <3>2. Summable(s, share) /\ Summable(s, sizes) /\ IsFiniteSet(s)
      BY <1>2, FS_Subset DEF Summable
    <3>3. A(s) = share[x] + A(s \ {x}) /\ B(s) = sizes[x] + B(s \ {x})
      BY <3>2, SumLess
    <3>4. Summable(s \ {x}, share) /\ Summable(s \ {x}, sizes)
      <4>1. s \ {x} \in SUBSET s
        OBVIOUS
      <4> QED
        BY <3>2, <4>1, SummableLess
    <3>5. PICK a \in Int, b \in Int : a = A(s \ {x}) /\ b = B(s \ {x})
      BY <3>4, SumType
    <3>6. PICK c \in Nat : c = C(s \ {x}) /\ C(s) = c + 1
      <4>1. IsFiniteSet(s \ {x}) /\ C(s \ {x}) = C(s) - 1 /\ C(s) \in Nat
        BY <3>1, <3>2, FS_RemoveElement, FS_CardinalityType
      <4>2. C(s \ {x}) \in Nat
        BY <4>1, FS_CardinalityType
      <4> QED
        BY <4>1, <4>2
    <3>7. s \ {x} \in Good
      BY <1>3, <3>1
    <3>8. 2 * (T * a) <= 2 * (size * b) + T * c
      BY <3>5, <3>6, <3>7
    <3>9. PICK y \in Nat, z \in Nat : y = share[x] /\ z = sizes[x]
      BY <1>2
    <3>10. 2 * (T * y) <= 2 * (size * z) + T
      BY <1>1, <3>9
    <3>11. T * (y + a) = T * y + T * a /\ size * (z + b) = size * z + size * b /\ T * (c + 1) = T * c + T
      OBVIOUS
    <3>12. /\ T * y \in Int /\ T * a \in Int /\ T * c \in Int
           /\ size * z \in Int /\ size * b \in Int
      OBVIOUS
    <3>13. 2 * (T * (y + a)) <= 2 * (size * (z + b)) + T * (c + 1)
      BY <3>8, <3>10, <3>11, <3>12
    <3>14. A(s) = y + a /\ B(s) = z + b /\ C(s) = c + 1
      BY <3>3, <3>5, <3>6, <3>9
    <3> HIDE DEF A, B, C
    <3>15. 2 * (T * A(s)) <= 2 * (size * B(s)) + T * C(s)
      BY <3>13, <3>14
    <3> QED
      BY <3>15
  <2> QED
    BY <2>1, <2>2
<1> HIDE DEF Good
<1>4. Hereditary(Good, K)
  BY <1>3 DEF Hereditary
<1>5. K \in Good
  BY <1>4, BySize
<1>6. PICK a \in Nat, c \in Nat : a = Sum(share) /\ c = Cardinality(K) /\ c # 0
  BY SumOfCounts, FS_CardinalityType, FS_EmptySet
<1>7. 2 * (T * a) <= 2 * (size * T) + T * c
  <2>1. A(K) = a /\ B(K) = T /\ C(K) = c
    BY <1>1, <1>6, SumOfCounts
  <2> QED
    BY <1>5, <2>1 DEF Good
<1>8. T * (2 * a) <= T * (2 * size + c)
  <2>1. T * (2 * a) = 2 * (T * a)
    OBVIOUS
  <2>2. T * (2 * size + c) = 2 * (size * T) + T * c
    OBVIOUS
  <2> QED
    BY <1>7, <2>1, <2>2
<1>9. 2 * a <= 2 * size + c
  BY <1>8, Cancelled
<1>10. a < size + c
  BY <1>6, <1>9
<1> QED
  BY <1>6, <1>10

\* No channel has more than it may, and all have not too much.
Fine(have, K, most, size) ==
  /\ Counts(have, K)
  /\ \A k \in K : have[k] <= most[k]
  /\ Sum(have) < size + Cardinality(K)

\* Either all that is wanted is had, or a channel has all it may or so much.
Gets(have, K, most, size, k, wants) ==
  Sum(have) >= size \/ have[k] >= most[k] \/ have[k] >= wants

LEMMA OneMoreType ==
  ASSUME NEW K, NEW have \in [K -> Nat], NEW k \in K, NEW most, NEW size
  PROVE  OneMore(have, k, most, size) \in [K -> Nat]
BY DEF OneMore

LEMMA OneMoreIsFine ==
  ASSUME NEW K, IsFiniteSet(K), K # {}, NEW most, Counts(most, K), NEW size \in Nat,
         NEW have, Fine(have, K, most, size), NEW k \in K
  PROVE  /\ Fine(OneMore(have, k, most, size), K, most, size)
         /\ \A l \in K : OneMore(have, k, most, size)[l] >= have[l]
         /\ Sum(OneMore(have, k, most, size)) >= Sum(have)
         /\ Gets(OneMore(have, k, most, size), K, most, size, k, have[k] + 1)
<1>1. Counts(have, K) /\ \A l \in K : have[l] \in Nat /\ most[l] \in Nat /\ have[l] <= most[l]
  BY DEF Fine, Counts
<1>2. Sum(have) \in Nat /\ Cardinality(K) \in Nat /\ Cardinality(K) # 0
  BY <1>1, SumOfCounts, FS_CardinalityType, FS_EmptySet
<1>3. CASE Sum(have) < size /\ have[k] < most[k]
  <2>1. PICK g : g = [have EXCEPT ![k] = @ + 1]
    OBVIOUS
  <2>2. Counts(g, K) /\ g[k] = have[k] + 1 /\ \A x \in K \ {k} : have[x] = g[x]
    BY <1>1, <2>1 DEF Counts
  <2>3. OneMore(have, k, most, size) = g
    BY <1>3, <2>1 DEF OneMore
  <2>4. Sum(g) = Sum(have) + 1
    BY <1>1, <2>2, SumOfOneMore
  <2>5. \A l \in K : g[l] <= most[l] /\ g[l] >= have[l]
    BY <1>1, <1>3, <2>2
  <2>6. Sum(g) < size + Cardinality(K) /\ Sum(g) >= Sum(have)
    BY <1>2, <1>3, <2>4
  <2>7. Fine(g, K, most, size)
    BY <2>2, <2>5, <2>6 DEF Fine
  <2>8. g[k] >= have[k] + 1
    BY <1>1, <2>2
  <2>9. Gets(g, K, most, size, k, have[k] + 1)
    BY <2>8 DEF Gets
  <2> QED
    BY <2>3, <2>5, <2>6, <2>7, <2>9
<1>4. CASE ~(Sum(have) < size /\ have[k] < most[k])
  <2>1. OneMore(have, k, most, size) = have
    BY <1>4 DEF OneMore
  <2>2. Sum(have) >= size \/ have[k] >= most[k]
    BY <1>1, <1>2, <1>4
  <2>3. \A l \in K : have[l] >= have[l]
    BY <1>1
  <2>4. Sum(have) >= Sum(have)
    BY <1>2
  <2>5. Gets(have, K, most, size, k, have[k] + 1)
    BY <2>2 DEF Gets
  <2> QED
    BY <2>1, <2>3, <2>4, <2>5
<1> QED
  BY <1>3, <1>4

\* What channels have after each of them had its turn.
Turns(upto, have, order, most, size) ==
  upto = [p \in 0 .. Len(order) |-> IF p = 0 THEN have ELSE OneMore(upto[p - 1], order[p], most, size)]

TurnsRecur(upto, have, order, most, size) ==
  /\ upto[0] = have
  /\ \A p \in 1 .. Len(order) : upto[p] = OneMore(upto[p - 1], order[p], most, size)

LEMMA TurnsExist ==
  ASSUME NEW K, NEW N \in Nat, NEW order \in [1 .. N -> K], NEW have \in [K -> Nat], NEW most, NEW size
  PROVE  \E upto : Turns(upto, have, order, most, size)
<1> DEFINE S == [K -> Nat]
<1>1. Len(order) = N
  <2>1. order \in Seq(K)
    OBVIOUS
  <2> QED
    BY <2>1
<1>2. PICK step : step = [p \in 1 .. N |-> [r \in S |-> OneMore(r, order[p], most, size)]]
  OBVIOUS
<1>3. \A p \in 1 .. N : \A r \in S : OneMore(r, order[p], most, size) \in S
  BY OneMoreType
<1>4. have \in S
  OBVIOUS
<1> HIDE DEF S
<1>5. Stepwise(step, N, S)
  <2>1. ASSUME NEW p \in 1 .. N PROVE [r \in S |-> OneMore(r, order[p], most, size)] \in [S -> S]
    BY <1>3
  <2>2. step \in [1 .. N -> [S -> S]]
    BY <1>2, <2>1
  <2> QED
    BY <2>2 DEF Stepwise
<1>6. PICK upto : Recurs(upto, N, S, have, step)
  BY <1>4, <1>5, Recursion
<1> DEFINE F(p) == IF p = 0 THEN have ELSE OneMore(upto[p - 1], order[p], most, size)
<1>7. ASSUME NEW p \in 0 .. N PROVE upto[p] = F(p)
  <2>1. CASE p = 0
    BY <1>6, <2>1 DEF Recurs
  <2>2. CASE p # 0
    <3>1. p \in 1 .. N /\ p - 1 \in 0 .. N
      BY <2>2
    <3>2. upto[p - 1] \in S
      BY <1>6, <3>1 DEF Recurs
    <3>3. upto[p] = step[p][upto[p - 1]]
      BY <1>6, <2>2 DEF Recurs
    <3>4. upto[p] = OneMore(upto[p - 1], order[p], most, size)
      BY <1>2, <3>1, <3>2, <3>3
    <3> QED
      BY <2>2, <3>4
  <2> QED
    BY <2>1, <2>2
<1>8. upto = [p \in 0 .. N |-> upto[p]]
  BY <1>6 DEF Recurs
<1>9. upto = [p \in 0 .. N |-> F(p)]
  <2> HIDE DEF F
  <2> QED
    BY <1>7, <1>8
<1>10. Turns(upto, have, order, most, size)
  BY <1>1, <1>9, Zenon DEF Turns
<1> QED
  BY <1>10

LEMMA TurnsStep ==
  ASSUME NEW K, NEW N \in Nat, NEW order \in [1 .. N -> K], NEW have, NEW most, NEW size,
         NEW upto, Turns(upto, have, order, most, size)
  PROVE  TurnsRecur(upto, have, order, most, size)
<1> DEFINE F(p) == IF p = 0 THEN have ELSE OneMore(upto[p - 1], order[p], most, size)
<1>1. Len(order) = N
  <2>1. order \in Seq(K)
    OBVIOUS
  <2> QED
    BY <2>1
<1>2. upto = [p \in 0 .. N |-> F(p)]
  BY <1>1, Zenon DEF Turns
<1>3. \A p \in 0 .. N : upto[p] = F(p)
  <2> HIDE DEF F
  <2> QED
    BY <1>2, Zenon
<1>4. upto[0] = have
  <2>1. 0 \in 0 .. N
    OBVIOUS
  <2> QED
    BY <1>3, <2>1
<1>5. ASSUME NEW p \in 1 .. N PROVE upto[p] = OneMore(upto[p - 1], order[p], most, size)
  <2>1. p \in 0 .. N /\ p # 0
    OBVIOUS
  <2>2. upto[p] = F(p)
    BY <1>3, <2>1
  <2> QED
    BY <2>1, <2>2
<1> QED
  BY <1>1, <1>4, <1>5 DEF TurnsRecur

\* The channels one after the other.
Queue(order, K, N) == N \in Nat /\ order \in [1 .. N -> K]

LEMMA OnceAroundIs ==
  ASSUME NEW K, NEW N, NEW order, Queue(order, K, N), NEW have, Counts(have, K), NEW most, NEW size
  PROVE  \E upto : /\ TurnsRecur(upto, have, order, most, size)
                   /\ OnceAround(have, order, most, size) = upto[N]
<1> USE DEF Queue, Counts
<1> DEFINE upto == CHOOSE u : Turns(u, have, order, most, size)
<1>1. Turns(upto, have, order, most, size)
  <2>1. \E u : Turns(u, have, order, most, size)
    BY TurnsExist
  <2> QED
    BY <2>1, Zenon
<1>2. OnceAround(have, order, most, size) = upto[Len(order)]
  BY DEF OnceAround, Turns
<1>3. Len(order) = N
  <2>1. order \in Seq(K)
    OBVIOUS
  <2> QED
    BY <2>1
<1> HIDE DEF upto
<1>4. TurnsRecur(upto, have, order, most, size)
  BY <1>1, TurnsStep
<1> QED
  BY <1>2, <1>3, <1>4

\* Everybody had a turn.
LEMMA OnceAroundIsFine ==
  ASSUME NEW K, IsFiniteSet(K), K # {}, NEW N \in Nat, NEW order \in [1 .. N -> K],
         \A k \in K : \E p \in 1 .. N : order[p] = k,
         NEW most, Counts(most, K), NEW size \in Nat, NEW have, Fine(have, K, most, size)
  PROVE  /\ Fine(OnceAround(have, order, most, size), K, most, size)
         /\ \A k \in K : OnceAround(have, order, most, size)[k] >= have[k]
         /\ Sum(OnceAround(have, order, most, size)) >= Sum(have)
         /\ \A k \in K : Gets(OnceAround(have, order, most, size), K, most, size, k, have[k] + 1)
<1>1. have \in [K -> Nat]
  BY DEF Fine, Counts
<1>2. PICK upto : /\ TurnsRecur(upto, have, order, most, size)
                  /\ OnceAround(have, order, most, size) = upto[N]
  <2>1. \E upto : /\ TurnsRecur(upto, have, order, most, size)
                  /\ OnceAround(have, order, most, size) = upto[N]
    <3>1. Queue(order, K, N) /\ Counts(have, K)
      BY DEF Queue, Fine
    <3> QED
      BY <3>1, OnceAroundIs
  <2> QED
    BY <2>1
<1>3. Len(order) = N
  <2>1. order \in Seq(K)
    OBVIOUS
  <2> QED
    BY <2>1
<1>4. \A k \in K : have[k] \in Nat /\ most[k] \in Nat
  BY <1>1 DEF Counts
<1> DEFINE Good == {p \in 0 .. N :
             /\ Fine(upto[p], K, most, size)
             /\ \A l \in K : upto[p][l] >= have[l]
             /\ \A q \in 1 .. p : Gets(upto[p], K, most, size, order[q], have[order[q]] + 1)}
<1>5. 0 \in Good
  <2>1. upto[0] = have
    BY <1>2 DEF TurnsRecur
  <2>2. \A l \in K : have[l] >= have[l]
    BY <1>4
  <2>3. 0 \in 0 .. N /\ 1 .. 0 = {}
    OBVIOUS
  <2> QED
    BY <2>1, <2>2, <2>3
<1>6. ASSUME NEW p \in 1 .. N, p - 1 \in Good PROVE p \in Good
  <2>1. PICK h, g : h = upto[p - 1] /\ g = upto[p]
    OBVIOUS
  <2>2. /\ Fine(h, K, most, size)
        /\ \A l \in K : h[l] >= have[l]
        /\ \A q \in 1 .. p - 1 : Gets(h, K, most, size, order[q], have[order[q]] + 1)
    BY <1>6, <2>1
  <2>3. g = OneMore(h, order[p], most, size) /\ order[p] \in K
    BY <1>2, <1>3, <2>1 DEF TurnsRecur
  <2>4. /\ Fine(g, K, most, size)
        /\ \A l \in K : g[l] >= h[l]
        /\ Sum(g) >= Sum(h)
        /\ Gets(g, K, most, size, order[p], h[order[p]] + 1)
    BY <2>2, <2>3, OneMoreIsFine
  <2>5. \A l \in K : g[l] \in Nat /\ h[l] \in Nat
    BY <2>2, <2>4 DEF Fine, Counts
  <2>6. Sum(g) \in Nat /\ Sum(h) \in Nat
    BY <2>2, <2>4, SumOfCounts DEF Fine
  <2>7. ASSUME NEW l \in K PROVE g[l] >= have[l]
    <3>1. PICK a \in Nat, b \in Nat, c \in Nat : a = have[l] /\ b = h[l] /\ c = g[l]
      BY <1>4, <2>5
    <3>2. b >= a /\ c >= b
      BY <2>2, <2>4, <3>1
    <3>3. c >= a
      BY <3>2
    <3> QED
      BY <3>1, <3>3
  <2>8. ASSUME NEW q \in 1 .. p PROVE Gets(g, K, most, size, order[q], have[order[q]] + 1)
    <3>1. order[q] \in K
      OBVIOUS
    <3>2. PICK l \in K : l = order[q]
      BY <3>1
    <3>3. CASE q = p
      BY <1>4, <2>2, <2>4, <2>5, <3>2, <3>3 DEF Gets
    <3>4. CASE q # p
      <4>1. Gets(h, K, most, size, l, have[l] + 1)
        BY <2>2, <3>2, <3>4
      <4>2. Gets(g, K, most, size, l, have[l] + 1)
        BY <1>4, <2>4, <2>5, <2>6, <4>1 DEF Gets
      <4> QED
        BY <3>2, <4>2
    <3> QED
      BY <3>3, <3>4
  <2>9. p \in 0 .. N
    OBVIOUS
  <2> QED
    BY <2>1, <2>4, <2>7, <2>8, <2>9
<1> HIDE DEF Good
<1>7. N \in Good
  <2>1. 0 .. N \subseteq Good
    BY <1>5, <1>6, UpTo
  <2> QED
    BY <2>1
<1>8. /\ Fine(upto[N], K, most, size)
      /\ \A l \in K : upto[N][l] >= have[l]
      /\ \A q \in 1 .. N : Gets(upto[N], K, most, size, order[q], have[order[q]] + 1)
  BY <1>7 DEF Good
<1>9. ASSUME NEW k \in K PROVE Gets(upto[N], K, most, size, k, have[k] + 1)
  <2>1. PICK q \in 1 .. N : order[q] = k
    OBVIOUS
  <2> QED
    BY <1>8, <2>1
<1>10. Sum(upto[N]) >= Sum(have)
  <2>1. Counts(upto[N], K) /\ Counts(have, K)
    BY <1>8 DEF Fine
  <2>2. \A k \in K : have[k] <= upto[N][k]
    BY <1>4, <1>8, <2>1 DEF Counts
  <2>3. Sum(have) <= Sum(upto[N]) /\ Sum(have) \in Nat /\ Sum(upto[N]) \in Nat
    BY <2>1, <2>2, SumOfMore, SumOfCounts
  <2> QED
    BY <2>3
<1> QED
  BY <1>2, <1>8, <1>9, <1>10

\* Every channel is in the queue.
Queued(order, K, N) == Queue(order, K, N) /\ \A k \in K : \E p \in 1 .. N : order[p] = k

LEMMA InTurnServes ==
  ASSUME NEW K \in SUBSET Int, IsFiniteSet(K), NEW sizes, Counts(sizes, K)
  PROVE  Queued(InTurn(sizes), K, Cardinality(K))
<1> DEFINE before == {p \in K \X K : Larger(sizes, p[1], p[2])}
           order == Sorted(before, K)
<1>1. \A k \in K : sizes[k] \in Nat /\ k \in Int
  BY DEF Counts
<1>2. DOMAIN sizes = K
  BY DEF Counts
<1>3. \A k, l \in K : <<k, l>> \in before <=> Larger(sizes, k, l)
  OBVIOUS
<1>4. Linear(before, K)
  <2>1. \A k \in K : ~Larger(sizes, k, k)
    BY <1>1 DEF Larger
  <2>2. ASSUME NEW i \in K, NEW j \in K, NEW k \in K, Larger(sizes, i, j), Larger(sizes, j, k)
        PROVE  Larger(sizes, i, k)
    <3>1. PICK a \in Nat, b \in Nat, c \in Nat : a = sizes[i] /\ b = sizes[j] /\ c = sizes[k]
      BY <1>1
    <3>2. i \in Int /\ j \in Int /\ k \in Int
      BY <1>1
    <3> QED
      BY <2>2, <3>1, <3>2 DEF Larger
  <2>3. ASSUME NEW i \in K, NEW j \in K PROVE i = j \/ Larger(sizes, i, j) \/ Larger(sizes, j, i)
    <3>1. PICK a \in Nat, b \in Nat : a = sizes[i] /\ b = sizes[j]
      BY <1>1
    <3>2. i \in Int /\ j \in Int
      BY <1>1
    <3> QED
      BY <3>1, <3>2 DEF Larger
  <2> HIDE DEF before
  <2> QED
    BY <1>3, <2>1, <2>2, <2>3 DEF Linear
<1>5. Lists(order, before, K)
  BY <1>4, SortedLists
<1>6. InTurn(sizes) = order
  <2> HIDE DEF before
  <2>1. \A k \in K : Below(k, before, K) = {l \in K : Larger(sizes, l, k)}
    BY <1>3 DEF Below
  <2> DEFINE ranked == [p \in 1 .. Cardinality(K) |->
        CHOOSE k \in K : Cardinality({l \in K : Larger(sizes, l, k)}) = p - 1]
  <2>2. \A p \in 1 .. Cardinality(K) :
          (CHOOSE k \in K : Cardinality(Below(k, before, K)) = p - 1)
            = (CHOOSE k \in K : Cardinality({l \in K : Larger(sizes, l, k)}) = p - 1)
    <3>1. ASSUME NEW p \in 1 .. Cardinality(K)
          PROVE  (CHOOSE k \in K : Cardinality(Below(k, before, K)) = p - 1)
                   = (CHOOSE k \in K : Cardinality({l \in K : Larger(sizes, l, k)}) = p - 1)
      <4>1. \A k : k \in K /\ Cardinality(Below(k, before, K)) = p - 1
               <=> k \in K /\ Cardinality({l \in K : Larger(sizes, l, k)}) = p - 1
        BY <2>1
      <4> QED
        BY <4>1, Zenon
    <3> QED
      BY <3>1
  <2>3. ranked = order
    BY <2>2 DEF Sorted
  <2>4. InTurn(sizes) = ranked
    <3> DEFINE In(D) == [p \in 1 .. Cardinality(D) |->
          CHOOSE k \in D : Cardinality({l \in D : Larger(sizes, l, k)}) = p - 1]
    <3>1. InTurn(sizes) = In(DOMAIN sizes)
      BY Zenon DEF InTurn
    <3>2. ranked = In(K)
      BY Zenon
    <3> HIDE DEF In, ranked
    <3> QED
      BY <1>2, <3>1, <3>2
  <2> QED
    BY <2>3, <2>4
<1> HIDE DEF order
<1>7. Cardinality(K) \in Nat
  BY FS_CardinalityType
<1> QED
  BY <1>5, <1>6, <1>7 DEF Lists, Queued, Queue

\* What channels have after each round.
Rounds(after, share, order, most, size) ==
  after = [r \in 0 .. size |-> IF r = 0 THEN share ELSE OnceAround(after[r - 1], order, most, size)]

RoundsRecur(after, share, order, most, size) ==
  /\ after[0] = share
  /\ \A r \in 1 .. size : after[r] = OnceAround(after[r - 1], order, most, size)

LEMMA OnceAroundType ==
  ASSUME NEW K, NEW N, NEW order, Queue(order, K, N), NEW have, Counts(have, K), NEW most, NEW size
  PROVE  Counts(OnceAround(have, order, most, size), K)
<1>1. PICK upto : /\ TurnsRecur(upto, have, order, most, size)
                  /\ OnceAround(have, order, most, size) = upto[N]
  BY OnceAroundIs
<1>2. N \in Nat /\ order \in [1 .. N -> K]
  BY DEF Queue
<1>3. Len(order) = N
  <2>1. order \in Seq(K)
    BY <1>2
  <2> QED
    BY <1>2, <2>1
<1> DEFINE Good == {p \in 0 .. N : Counts(upto[p], K)}
<1>4. 0 \in Good
  BY <1>1, <1>2 DEF TurnsRecur
<1>5. ASSUME NEW p \in 1 .. N, p - 1 \in Good PROVE p \in Good
  <2>1. upto[p - 1] \in [K -> Nat] /\ order[p] \in K
    BY <1>2, <1>5 DEF Counts
  <2>2. upto[p] = OneMore(upto[p - 1], order[p], most, size)
    BY <1>1, <1>3 DEF TurnsRecur
  <2>3. Counts(upto[p], K)
    BY <2>1, <2>2, OneMoreType DEF Counts
  <2>4. p \in 0 .. N
    BY <1>2
  <2> QED
    BY <2>3, <2>4
<1> HIDE DEF Good
<1>6. 0 .. N \subseteq Good
  BY <1>2, <1>4, <1>5, UpTo
<1> QED
  BY <1>1, <1>2, <1>6 DEF Good

LEMMA RoundsExist ==
  ASSUME NEW K, NEW N, NEW order, Queue(order, K, N), NEW share, Counts(share, K), NEW most,
         NEW size \in Nat
  PROVE  \E after : Rounds(after, share, order, most, size)
<1> DEFINE S == [K -> Nat]
<1>1. PICK step : step = [r \in 1 .. size |-> [h \in S |-> OnceAround(h, order, most, size)]]
  OBVIOUS
<1>2. ASSUME NEW h \in S PROVE OnceAround(h, order, most, size) \in S
  <2>1. Counts(h, K)
    BY DEF Counts
  <2>2. Counts(OnceAround(h, order, most, size), K)
    BY <2>1, OnceAroundType
  <2> QED
    BY <2>2 DEF Counts
<1>3. share \in S
  BY DEF Counts
<1> HIDE DEF S
<1>4. Stepwise(step, size, S)
  <2>1. [h \in S |-> OnceAround(h, order, most, size)] \in [S -> S]
    BY <1>2
  <2>2. step \in [1 .. size -> [S -> S]]
    BY <1>1, <2>1
  <2> QED
    BY <2>2 DEF Stepwise
<1>5. PICK after : Recurs(after, size, S, share, step)
  BY <1>3, <1>4, Recursion
<1> DEFINE F(r) == IF r = 0 THEN share ELSE OnceAround(after[r - 1], order, most, size)
<1>6. ASSUME NEW r \in 0 .. size PROVE after[r] = F(r)
  <2>1. CASE r = 0
    BY <1>5, <2>1 DEF Recurs
  <2>2. CASE r # 0
    <3>1. r \in 1 .. size /\ r - 1 \in 0 .. size
      BY <2>2
    <3>2. after[r - 1] \in S
      BY <1>5, <3>1 DEF Recurs
    <3>3. after[r] = step[r][after[r - 1]]
      BY <1>5, <2>2 DEF Recurs
    <3>4. after[r] = OnceAround(after[r - 1], order, most, size)
      BY <1>1, <3>1, <3>2, <3>3
    <3> QED
      BY <2>2, <3>4
  <2> QED
    BY <2>1, <2>2
<1>7. after = [r \in 0 .. size |-> after[r]]
  BY <1>5 DEF Recurs
<1>8. after = [r \in 0 .. size |-> F(r)]
  <2> HIDE DEF F
  <2> QED
    BY <1>6, <1>7
<1>9. Rounds(after, share, order, most, size)
  BY <1>8, Zenon DEF Rounds
<1> QED
  BY <1>9

LEMMA RoundsStep ==
  ASSUME NEW share, NEW order, NEW most, NEW size \in Nat,
         NEW after, Rounds(after, share, order, most, size)
  PROVE  RoundsRecur(after, share, order, most, size)
<1> DEFINE F(r) == IF r = 0 THEN share ELSE OnceAround(after[r - 1], order, most, size)
<1>1. after = [r \in 0 .. size |-> F(r)]
  BY Zenon DEF Rounds
<1>2. \A r \in 0 .. size : after[r] = F(r)
  <2> HIDE DEF F
  <2> QED
    BY <1>1, Zenon
<1>3. after[0] = share
  <2>1. 0 \in 0 .. size
    OBVIOUS
  <2> QED
    BY <1>2, <2>1
<1>4. ASSUME NEW r \in 1 .. size PROVE after[r] = OnceAround(after[r - 1], order, most, size)
  <2>1. r \in 0 .. size /\ r # 0
    OBVIOUS
  <2>2. after[r] = F(r)
    BY <1>2, <2>1
  <2> QED
    BY <2>1, <2>2
<1> QED
  BY <1>3, <1>4 DEF RoundsRecur

\* So many rounds are enough for so many posts, if the channels may give them at all.
LEMMA RoundsFill ==
  ASSUME NEW K, IsFiniteSet(K), K # {}, NEW N, NEW order, Queued(order, K, N),
         NEW most, Counts(most, K), NEW size \in Nat, Sum(most) >= size,
         NEW share, Fine(share, K, most, size), NEW after, RoundsRecur(after, share, order, most, size)
  PROVE  Fine(after[size], K, most, size) /\ Sum(after[size]) >= size
<1>1. /\ N \in Nat /\ order \in [1 .. N -> K]
      /\ \A k \in K : \E p \in 1 .. N : order[p] = k
  BY DEF Queued, Queue
<1> DEFINE Good == {r \in 0 .. size : /\ Fine(after[r], K, most, size)
                                      /\ \A k \in K : Gets(after[r], K, most, size, k, r)}
<1>2. 0 \in Good
  <2>1. after[0] = share
    BY DEF RoundsRecur
  <2>2. \A k \in K : share[k] >= 0
    BY DEF Fine, Counts
  <2>3. 0 \in 0 .. size
    OBVIOUS
  <2> QED
    BY <2>1, <2>2, <2>3 DEF Gets
<1>3. ASSUME NEW r \in 1 .. size, r - 1 \in Good PROVE r \in Good
  <2>1. PICK h, g : h = after[r - 1] /\ g = after[r]
    OBVIOUS
  <2>2. Fine(h, K, most, size) /\ \A k \in K : Gets(h, K, most, size, k, r - 1)
    BY <1>3, <2>1
  <2>3. g = OnceAround(h, order, most, size)
    BY <2>1 DEF RoundsRecur
  <2>4. Fine(g, K, most, size) /\ \A k \in K : Gets(g, K, most, size, k, h[k] + 1)
    BY <1>1, <2>2, <2>3, OnceAroundIsFine
  <2>5. \A k \in K : g[k] \in Nat /\ h[k] \in Nat /\ most[k] \in Nat /\ h[k] <= most[k] /\ g[k] <= most[k]
    BY <2>2, <2>4 DEF Fine, Counts
  <2>6. Sum(g) \in Nat /\ Sum(h) \in Nat
    BY <2>2, <2>4, SumOfCounts DEF Fine
  <2>7. \A k \in K : g[k] >= h[k] /\ Sum(g) >= Sum(h)
    BY <1>1, <2>2, <2>3, OnceAroundIsFine
  <2>8. ASSUME NEW k \in K PROVE Gets(g, K, most, size, k, r)
    <3>1. Gets(g, K, most, size, k, h[k] + 1) /\ Gets(h, K, most, size, k, r - 1)
      BY <2>2, <2>4
    <3>2. r \in Int
      OBVIOUS
    <3> QED
      BY <2>5, <2>6, <2>7, <3>1, <3>2 DEF Gets
  <2>9. r \in 0 .. size
    OBVIOUS
  <2> QED
    BY <2>1, <2>4, <2>8, <2>9
<1> HIDE DEF Good
<1>4. size \in Good
  <2>1. 0 .. size \subseteq Good
    BY <1>2, <1>3, UpTo
  <2> QED
    BY <2>1
<1>5. PICK g : g = after[size]
  OBVIOUS
<1>6. Fine(g, K, most, size) /\ \A k \in K : Gets(g, K, most, size, k, size)
  BY <1>4, <1>5 DEF Good
<1>7. Counts(g, K) /\ \A k \in K : g[k] \in Nat /\ most[k] \in Nat
  BY <1>6 DEF Fine, Counts
<1>8. Sum(g) \in Nat /\ Sum(most) \in Nat /\ \A k \in K : g[k] <= Sum(g)
  BY <1>7, SumOfCounts
<1>9. Sum(g) >= size
  <2>1. SUFFICES ASSUME ~(Sum(g) >= size) PROVE FALSE
    OBVIOUS
  <2>2. ASSUME NEW k \in K PROVE most[k] <= g[k]
    <3>1. ~(g[k] >= size)
      BY <1>7, <1>8, <2>1
    <3> QED
      BY <1>6, <1>7, <2>1, <3>1 DEF Gets
  <2>3. Sum(most) <= Sum(g)
    BY <1>7, <2>2, SumOfMore
  <2> QED
    BY <1>8, <2>1, <2>3
<1> QED
  BY <1>5, <1>6, <1>9

\* What each channel may give under a ceiling.
Under(c, K, sizes) == [k \in K |-> Least(c, sizes[k])]

Enough(c, K, sizes, size) == Sum(Under(c, K, sizes)) >= size

LEMMA UnderIs ==
  ASSUME NEW K, NEW sizes, Counts(sizes, K), NEW c \in Nat
  PROVE  /\ Counts(Under(c, K, sizes), K)
         /\ \A k \in K : Under(c, K, sizes)[k] <= sizes[k] /\ Under(c, K, sizes)[k] <= c
         /\ (\A k \in K : sizes[k] <= c) => Under(c, K, sizes) = sizes
<1>1. \A k \in K : sizes[k] \in Nat
  BY DEF Counts
<1>2. \A k \in K : Least(c, sizes[k]) \in Nat /\ Least(c, sizes[k]) <= sizes[k] /\ Least(c, sizes[k]) <= c
  BY <1>1 DEF Least
<1>3. \A k \in K : Under(c, K, sizes)[k] = Least(c, sizes[k])
  BY DEF Under
<1>4. Under(c, K, sizes) \in [K -> Nat]
  BY <1>2 DEF Under
<1>5. ASSUME \A k \in K : sizes[k] <= c PROVE Under(c, K, sizes) = sizes
  <2>1. \A k \in K : Least(c, sizes[k]) = sizes[k]
    BY <1>1, <1>5 DEF Least
  <2>2. sizes \in [K -> Nat]
    BY DEF Counts
  <2> QED
    BY <1>3, <1>4, <2>1, <2>2
<1> QED
  BY <1>2, <1>3, <1>4, <1>5 DEF Counts

\* The least ceiling from first on under which there is enough, or all there is.
Lowest(c, first, K, sizes, size) ==
  /\ c \in first .. first + Sum(sizes)
  /\ Enough(c, K, sizes, size) \/ \A k \in K : sizes[k] <= c
  /\ \A d \in first .. c - 1 : ~Enough(d, K, sizes, size) /\ \E k \in K : sizes[k] > d

LEMMA LowestExists ==
  ASSUME NEW K, IsFiniteSet(K), NEW sizes, Counts(sizes, K), NEW first \in Nat, NEW size
  PROVE  \E c : Lowest(c, first, K, sizes, size)
<1>1. \A k \in K : sizes[k] \in Nat
  BY DEF Counts
<1>2. Sum(sizes) \in Nat /\ \A k \in K : sizes[k] <= Sum(sizes)
  BY SumOfCounts
<1> DEFINE Ends(c) == Enough(c, K, sizes, size) \/ \A k \in K : sizes[k] <= c
           T == {c \in Nat : first <= c /\ Ends(c)}
<1>3. first + Sum(sizes) \in T
  <2>1. \A k \in K : sizes[k] <= first + Sum(sizes)
    BY <1>1, <1>2
  <2>2. first + Sum(sizes) \in Nat /\ first <= first + Sum(sizes)
    BY <1>2
  <2> QED
    BY <2>1, <2>2
<1>4. PICK c \in T : \A d \in T : c <= d
  <2>1. T \in SUBSET Nat /\ T # {}
    BY <1>3
  <2> HIDE DEF T
  <2> QED
    BY <2>1, LeastNumber
<1>5. c \in Nat /\ first <= c /\ Ends(c)
  BY <1>4
<1>6. c \in first .. first + Sum(sizes)
  <2>1. c <= first + Sum(sizes)
    BY <1>3, <1>4
  <2> QED
    BY <1>2, <1>5, <2>1
<1>7. ASSUME NEW d \in first .. c - 1
      PROVE  ~Enough(d, K, sizes, size) /\ \E k \in K : sizes[k] > d
  <2>1. d \in Nat /\ first <= d /\ ~(c <= d)
    BY <1>5
  <2>2. d \notin T
    BY <1>4, <2>1
  <2>3. ~Ends(d)
    BY <2>1, <2>2
  <2>4. PICK k \in K : ~(sizes[k] <= d)
    BY <2>3
  <2>5. sizes[k] > d
    BY <1>1, <2>1, <2>4
  <2> QED
    BY <2>3, <2>5
<1>8. Lowest(c, first, K, sizes, size)
  BY <1>5, <1>6, <1>7 DEF Lowest
<1> QED
  BY <1>8

LEMMA FirstCeilingIsNat ==
  ASSUME NEW sizes, NEW size \in Nat, NEW cap \in Nat
  PROVE  FirstCeiling(sizes, size, cap) \in Nat /\ FirstCeiling(sizes, size, cap) >= 1
<1>1. size * cap \in Nat
  OBVIOUS
<1>2. (size * cap) \div 100 \in Nat
  BY <1>1
<1> QED
  BY <1>2 DEF FirstCeiling

LEMMA CeilingIsLowest ==
  ASSUME NEW K, IsFiniteSet(K), NEW sizes, Counts(sizes, K), NEW size \in Nat, NEW cap \in Nat
  PROVE  Lowest(Ceiling(sizes, size, cap), FirstCeiling(sizes, size, cap), K, sizes, size)
<1> DEFINE first == FirstCeiling(sizes, size, cap)
<1>1. DOMAIN sizes = K
  BY DEF Counts
<1>2. first \in Nat
  BY FirstCeilingIsNat
<1> DEFINE In(D) == CHOOSE c \in first .. first + Sum(sizes) :
             /\ Enough(c, D, sizes, size) \/ \A k \in D : sizes[k] <= c
             /\ \A d \in first .. c - 1 : ~Enough(d, D, sizes, size) /\ \E k \in D : sizes[k] > d
<1>3. Ceiling(sizes, size, cap) = In(DOMAIN sizes)
  BY Zenon DEF Ceiling, Enough, Under
<1>4. Lowest(In(K), first, K, sizes, size)
  <2> HIDE DEF first
  <2>1. \E c : Lowest(c, first, K, sizes, size)
    BY <1>2, LowestExists
  <2>2. \E c \in first .. first + Sum(sizes) :
          /\ Enough(c, K, sizes, size) \/ \A k \in K : sizes[k] <= c
          /\ \A d \in first .. c - 1 : ~Enough(d, K, sizes, size) /\ \E k \in K : sizes[k] > d
    BY <2>1 DEF Lowest
  <2> QED
    BY <2>2, Zenon DEF Lowest
<1> HIDE DEF In, first
<1>5. Ceiling(sizes, size, cap) = In(K)
  BY <1>1, <1>3
<1> QED
  BY <1>4, <1>5 DEF first

\* Under the ceiling there is enough, for there is enough without one.
LEMMA CeilingIsEnough ==
  ASSUME NEW K, IsFiniteSet(K), NEW sizes, Counts(sizes, K), NEW size \in Nat, size <= Sum(sizes),
         NEW first \in Nat, NEW c, Lowest(c, first, K, sizes, size)
  PROVE  c \in Nat /\ Enough(c, K, sizes, size)
<1>1. Sum(sizes) \in Nat
  BY SumOfCounts
<1>2. c \in Nat
  BY <1>1 DEF Lowest
<1>3. CASE \A k \in K : sizes[k] <= c
  <2>1. Under(c, K, sizes) = sizes
    BY <1>2, <1>3, UnderIs
  <2> QED
    BY <1>1, <1>2, <2>1 DEF Enough
<1> QED
  BY <1>2, <1>3 DEF Lowest

\* What the quotas should be.
Suits(got, K, sizes, size, limit) ==
  /\ Sum(got) >= size /\ Sum(got) < size + Cardinality(K)
  /\ \A k \in K : got[k] <= sizes[k] /\ (got[k] > limit => ~Enough(limit, K, sizes, size))

LEMMA NobodyIsFilled ==
  ASSUME NEW K, IsFiniteSet(K), K # {}, NEW sizes, Counts(sizes, K), NEW limit \in Nat, limit >= 1,
         NEW got, got = [k \in K |-> 0]
  PROVE  Suits(got, K, sizes, 0, limit)
<1>1. \A k \in K : got[k] = 0 /\ sizes[k] \in Nat
  BY DEF Counts
<1>2. Summable(K, got) /\ DOMAIN got = K
  BY <1>1 DEF Summable
<1>3. Sum(got) = 0
  <2> DEFINE Good == {s \in SUBSET K : SumFunctionOnSet(got, s) = 0}
  <2>1. ASSUME NEW s \in SUBSET K, \A x \in s : s \ {x} \in Good PROVE s \in Good
    <3>1. CASE s = {}
      BY <3>1, SumEmpty
    <3>2. CASE s # {}
      <4>1. PICK x \in s : TRUE
        BY <3>2
      <4>2. Summable(s, got)
        BY <1>2, SummableLess
      <4>3. SumFunctionOnSet(got, s) = got[x] + SumFunctionOnSet(got, s \ {x})
        BY <4>2, SumLess
      <4>4. SumFunctionOnSet(got, s \ {x}) = 0
        BY <2>1, <4>1
      <4>5. SumFunctionOnSet(got, s) = 0
        BY <1>1, <4>3, <4>4
      <4> QED
        BY <4>5
    <3> QED
      BY <3>1, <3>2
  <2> HIDE DEF Good
  <2>2. Hereditary(Good, K)
    BY <2>1 DEF Hereditary
  <2>3. K \in Good
    BY <2>2, BySize
  <2>4. Sum(got) = SumFunctionOnSet(got, K)
    BY <1>2, SumIsOn
  <2> QED
    BY <2>3, <2>4 DEF Good
<1>4. Cardinality(K) \in Nat /\ Cardinality(K) # 0
  BY FS_CardinalityType, FS_EmptySet
<1> QED
  BY <1>1, <1>3, <1>4 DEF Suits

LEMMA QuotasAreFilled ==
  ASSUME NEW K \in SUBSET Int, IsFiniteSet(K), K # {}, NEW sizes, Counts(sizes, K), Sum(sizes) # 0,
         NEW wanted \in Nat, wanted > 0, NEW cap \in Nat,
         NEW size, size = Least(wanted, Sum(sizes))
  PROVE  Suits(Quotas(sizes, wanted, cap), K, sizes, size, FirstCeiling(sizes, size, cap))
<1> DEFINE total == Sum(sizes)
           limit == FirstCeiling(sizes, size, cap)
           ceiling == Ceiling(sizes, size, cap)
           share == [k \in K |-> Least(Under(ceiling, K, sizes)[k], Rounded(size * sizes[k], total))]
           order == InTurn(sizes)
           most == Under(ceiling, K, sizes)
<1>1. total \in Nat \ {0} /\ DOMAIN sizes = K /\ \A k \in K : sizes[k] \in Nat
  BY SumOfCounts DEF Counts
<1>2. size \in Nat /\ size <= total
  BY <1>1 DEF Least
<1>3. limit \in Nat
  BY <1>2, FirstCeilingIsNat
<1>4. Lowest(ceiling, limit, K, sizes, size)
  BY <1>2, CeilingIsLowest
<1>5. ceiling \in Nat /\ Enough(ceiling, K, sizes, size)
  <2> HIDE DEF ceiling, limit
  <2> QED
    BY <1>2, <1>3, <1>4, CeilingIsEnough
<1> HIDE DEF ceiling, limit
<1>6. Counts(most, K) /\ Sum(most) >= size /\ \A k \in K : most[k] <= sizes[k] /\ most[k] <= ceiling
  BY <1>5, UnderIs DEF Enough
<1> HIDE DEF most
<1>7. /\ Counts(share, K)
      /\ \A k \in K : /\ share[k] <= most[k]
                      /\ 2 * (total * share[k]) <= 2 * (size * sizes[k]) + total
  <2>1. ASSUME NEW k \in K
        PROVE  /\ share[k] \in Nat /\ share[k] <= most[k]
               /\ 2 * (total * share[k]) <= 2 * (size * sizes[k]) + total
    <3>1. PICK a \in Nat : a = size * sizes[k]
      BY <1>1, <1>2
    <3>2. PICK r \in Nat : r = Rounded(a, total) /\ 2 * (total * r) <= 2 * a + total
      BY <1>1, RoundedNearby
    <3>3. PICK m \in Nat : m = most[k]
      BY <1>6 DEF Counts
    <3>4. share[k] = Least(m, r)
      BY <3>1, <3>2, <3>3 DEF most
    <3>5. PICK x \in Nat : x = share[k] /\ x <= m /\ x <= r
      BY <3>4 DEF Least
    <3> HIDE DEF share, total
    <3>6. PICK t \in Nat : t = total
      BY <1>1
    <3>7. t * x <= t * r /\ t * x \in Int /\ t * r \in Int
      BY <3>5
    <3>8. 2 * (t * x) <= 2 * a + t
      BY <3>2, <3>6, <3>7
    <3> QED
      BY <3>1, <3>3, <3>5, <3>6, <3>8
  <2>2. share = [k \in K |-> share[k]]
    OBVIOUS
  <2> HIDE DEF share
  <2> QED
    BY <2>1, <2>2 DEF Counts
<1>8. Sum(share) < size + Cardinality(K)
  <2> HIDE DEF share
  <2> QED
    BY <1>1, <1>2, <1>7, SharesFit
<1>9. Fine(share, K, most, size)
  <2> HIDE DEF share
  <2> QED
    BY <1>7, <1>8 DEF Fine
<1>10. Queued(order, K, Cardinality(K))
  BY InTurnServes
<1> DEFINE after == CHOOSE a : Rounds(a, share, order, most, size)
<1>11. Rounds(after, share, order, most, size)
  <2> HIDE DEF share, order
  <2>1. Queue(order, K, Cardinality(K)) /\ Counts(share, K)
    BY <1>7, <1>10 DEF Queued
  <2>2. \E a : Rounds(a, share, order, most, size)
    BY <1>2, <2>1, RoundsExist
  <2> QED
    BY <2>2, Zenon
<1>12. Quotas(sizes, wanted, cap) = after[size]
  <2>1. ~(total = 0 \/ wanted <= 0)
    BY <1>1
  <2> QED
    BY <1>1, <2>1 DEF Quotas, Rounds, most, Under, ceiling
<1> HIDE DEF after, share, order
<1>13. RoundsRecur(after, share, order, most, size)
  BY <1>2, <1>11, RoundsStep
<1>14. Fine(after[size], K, most, size) /\ Sum(after[size]) >= size
  BY <1>2, <1>6, <1>9, <1>10, <1>13, RoundsFill
<1>15. PICK got : got = Quotas(sizes, wanted, cap) /\ got = after[size]
  BY <1>12
<1>16. ASSUME NEW k \in K PROVE got[k] <= sizes[k] /\ (got[k] > limit => ~Enough(limit, K, sizes, size))
  <2>1. got[k] \in Nat /\ got[k] <= most[k] /\ most[k] \in Nat
    BY <1>6, <1>14, <1>15 DEF Fine, Counts
  <2>2. got[k] <= sizes[k] /\ got[k] <= ceiling
    BY <1>1, <1>5, <1>6, <2>1
  <2>3. ASSUME got[k] > limit PROVE ~Enough(limit, K, sizes, size)
    <3>1. limit \in limit .. ceiling - 1
      BY <1>3, <1>5, <2>1, <2>2, <2>3
    <3> QED
      BY <1>4, <3>1 DEF Lowest
  <2> QED
    BY <2>2, <2>3
<1>17. Suits(got, K, sizes, size, limit)
  BY <1>14, <1>15, <1>16 DEF Suits, Fine
<1> QED
  BY <1>15, <1>17 DEF limit

\* The sample has as many posts as are wanted, or all there are, and less than one
\* for each channel more; no channel gives more than it has, or than the cap says
\* while all together have enough under it: for any channels, wants and caps.
THEOREM QuotasAlwaysFill ==
  ASSUME NEW channels \in SUBSET Int, IsFiniteSet(channels), channels # {},
         NEW counts \in SUBSET Nat, NEW wants \in SUBSET Nat, NEW caps \in SUBSET Nat
  PROVE  QuotasFill(channels, counts, wants, caps)
<1>1. SUFFICES ASSUME NEW sizes \in [channels -> counts], NEW wanted \in wants, NEW cap \in caps
               PROVE  LET got == Quotas(sizes, wanted, cap)
                          size == Least(wanted, Sum(sizes))
                          limit == FirstCeiling(sizes, size, cap)
                      IN  /\ Sum(got) >= size /\ Sum(got) < size + Cardinality(channels)
                          /\ \A k \in channels :
                               /\ got[k] <= sizes[k]
                               /\ got[k] > limit => Sum([l \in channels |-> Least(limit, sizes[l])]) < size
  BY Zenon DEF QuotasFill
<1> DEFINE got == Quotas(sizes, wanted, cap)
           size == Least(wanted, Sum(sizes))
           limit == FirstCeiling(sizes, size, cap)
<1>2. Counts(sizes, channels) /\ wanted \in Nat /\ cap \in Nat
  BY DEF Counts
<1>3. Sum(sizes) \in Nat
  BY <1>2, SumOfCounts
<1>4. size \in Nat
  BY <1>2, <1>3 DEF Least
<1>5. limit \in Nat /\ limit >= 1
  BY <1>2, <1>4, FirstCeilingIsNat
<1>6. Suits(got, channels, sizes, size, limit)
  <2>1. CASE Sum(sizes) = 0 \/ wanted <= 0
    <3>1. size = 0
      BY <1>2, <1>3, <2>1 DEF Least
    <3>2. got = [k \in channels |-> 0]
      <4>1. DOMAIN sizes = channels
        OBVIOUS
      <4> QED
        BY <2>1, <4>1 DEF Quotas
    <3> HIDE DEF got, size, limit
    <3> QED
      BY <1>2, <1>5, <3>1, <3>2, NobodyIsFilled
  <2>2. CASE ~(Sum(sizes) = 0 \/ wanted <= 0)
    <3>1. wanted > 0 /\ Sum(sizes) # 0
      BY <1>2, <2>2
    <3>2. PICK z : z = size
      OBVIOUS
    <3>3. Suits(Quotas(sizes, wanted, cap), channels, sizes, z, FirstCeiling(sizes, z, cap))
      BY <1>2, <3>1, <3>2, QuotasAreFilled
    <3> QED
      BY <3>2, <3>3
  <2> QED
    BY <2>1, <2>2
<1>7. Sum(Under(limit, channels, sizes)) \in Nat
  <2> HIDE DEF limit
  <2> QED
    BY <1>2, <1>5, UnderIs, SumOfCounts
<1> HIDE DEF got, size, limit
<1>8. ASSUME NEW k \in channels, got[k] > limit
      PROVE  Sum([l \in channels |-> Least(limit, sizes[l])]) < size
  <2>1. ~(Sum(Under(limit, channels, sizes)) >= size)
    BY <1>6, <1>8 DEF Suits, Enough
  <2>2. Sum(Under(limit, channels, sizes)) < size
    BY <1>4, <1>7, <2>1
  <2> QED
    BY <2>2 DEF Under
<1>9. /\ Sum(got) >= size /\ Sum(got) < size + Cardinality(channels)
      /\ \A k \in channels : got[k] <= sizes[k]
  BY <1>6 DEF Suits
<1> QED
  BY <1>8, <1>9 DEF got, size, limit


-----------------------------------------------------------------------------
(* The metrics: noise, kappa, the report, the bins, and what runs *)

\* What the tool would reject on a second run is of authors who ran the channel
\* before the first, and of whom the first rejected posts that were empty: for any
\* posts, authors and limit.
THEOREM NoiseAlwaysSettles ==
  ASSUME NEW n \in Nat, NEW authors, NEW least \in Int
  PROVE  NoiseSettles(n, authors, least)
<1> SUFFICES ASSUME NEW author \in [1 .. n -> authors],
                    NEW look \in [1 .. n -> {"empty", "short", "other"}]
             PROVE  LET once == Noise(1 .. n, author, look, least)
                        more == Noise((1 .. n) \ once, author, look, least)
                    IN  \A i \in more :
                          /\ author[i] \in Regulars(1 .. n, author, least)
                          /\ \E j \in once : author[j] = author[i] /\ look[j] = "empty"
  BY DEF NoiseSettles
<1> DEFINE once == Noise(1 .. n, author, look, least)
<1> SUFFICES ASSUME NEW i \in Noise((1 .. n) \ once, author, look, least)
             PROVE  /\ author[i] \in Regulars(1 .. n, author, least)
                    /\ \E j \in once : author[j] = author[i] /\ look[j] = "empty"
  OBVIOUS
<1>1. /\ i \in 1 .. n /\ i \notin once
      /\ look[i] = "empty" \/ (look[i] = "short" /\ author[i] \notin Regulars((1 .. n) \ once, author, least))
  BY Zenon DEF Noise
<1>2. look[i] = "short" /\ author[i] \in Regulars(1 .. n, author, least)
  BY <1>1, Zenon DEF Noise
<1> DEFINE wrote == {j \in 1 .. n : author[j] = author[i]}
           kept == {j \in (1 .. n) \ once : author[j] = author[i]}
<1>3. Cardinality(wrote) >= least
  BY <1>1, <1>2 DEF Regulars
<1>4. ~(Cardinality(kept) >= least)
  BY <1>1, <1>2 DEF Regulars
<1>5. PICK j \in once : author[j] = author[i]
  <2>1. kept # wrote
    BY <1>3, <1>4
  <2>2. \A j \in wrote : j \in kept \/ j \in once
    OBVIOUS
  <2>3. \A j \in kept : j \in wrote
    OBVIOUS
  <2>4. \E j \in wrote : j \in once
    BY <2>1, <2>2, <2>3
  <2> QED
    BY <2>4
<1>6. look[j] = "empty" \/ author[j] \notin Regulars(1 .. n, author, least)
  BY <1>5, Zenon DEF Noise
<1> QED
  BY <1>2, <1>5, <1>6

\* F1 of so many true and false positives and false negatives.
LEMMA HarmonicIsDice ==
  ASSUME NEW tp \in Nat, NEW fp \in Nat, NEW fn \in Nat
  PROVE  Equal(Harmonic(Fraction(tp, tp + fp), Fraction(tp, tp + fn)),
               Fraction(2 * tp, (tp + fn) + (tp + fp)))
<1>1. CASE tp = 0
  <2>1. Fraction(tp, tp + fp)[1] = 0 /\ Fraction(tp, tp + fp)[2] \in Nat
    BY <1>1 DEF Fraction
  <2>2. Fraction(tp, tp + fn)[1] = 0 /\ Fraction(tp, tp + fn)[2] \in Nat
    BY <1>1 DEF Fraction
  <2>3. Harmonic(Fraction(tp, tp + fp), Fraction(tp, tp + fn)) = <<0, 1>>
    <3> DEFINE p == Fraction(tp, tp + fp)
               r == Fraction(tp, tp + fn)
    <3>1. p[1] * r[2] + r[1] * p[2] = 0
      BY <2>1, <2>2
    <3> QED
      BY <3>1 DEF Harmonic, Fraction
  <2>4. Fraction(2 * tp, (tp + fn) + (tp + fp))[1] = 0
        /\ Fraction(2 * tp, (tp + fn) + (tp + fp))[2] \in Nat
    BY <1>1 DEF Fraction
  <2> QED
    BY <2>3, <2>4 DEF Equal
<1>2. CASE tp > 0
  <2>1. Fraction(tp, tp + fp) = <<tp, tp + fp>> /\ Fraction(tp, tp + fn) = <<tp, tp + fn>>
    BY <1>2 DEF Fraction
  <2>2. Fraction(2 * tp, (tp + fn) + (tp + fp)) = <<2 * tp, (tp + fn) + (tp + fp)>>
    BY <1>2 DEF Fraction
  <2> DEFINE all == (tp + fn) + (tp + fp)
             over == tp * (tp + fn) + tp * (tp + fp)
  <2>3. over = tp * all /\ over > 0
    BY <1>2
  <2>4. Harmonic(Fraction(tp, tp + fp), Fraction(tp, tp + fn)) = <<2 * tp * tp, over>>
    BY <2>1, <2>3 DEF Harmonic, Fraction
  <2>5. (2 * tp * tp) * all = (2 * tp) * over
    BY <2>3
  <2> QED
    BY <2>2, <2>4, <2>5 DEF Equal
<1> QED
  BY <1>1, <1>2

LEMMA DiceIsOne ==
  ASSUME NEW tp \in Nat, NEW fp \in Nat, NEW fn \in Nat, tp + fn > 0
  PROVE  Equal(Harmonic(Fraction(tp, tp + fp), Fraction(tp, tp + fn)), One)
           <=> fp = 0 /\ fn = 0
<1>1. CASE tp = 0
  <2>1. Fraction(tp, tp + fp)[1] = 0 /\ Fraction(tp, tp + fp)[2] \in Nat
    BY <1>1 DEF Fraction
  <2>2. Fraction(tp, tp + fn)[1] = 0 /\ Fraction(tp, tp + fn)[2] \in Nat
    BY <1>1 DEF Fraction
  <2>3. Harmonic(Fraction(tp, tp + fp), Fraction(tp, tp + fn)) = <<0, 1>>
    <3> DEFINE p == Fraction(tp, tp + fp)
               r == Fraction(tp, tp + fn)
    <3>1. p[1] * r[2] + r[1] * p[2] = 0
      BY <2>1, <2>2
    <3> QED
      BY <3>1 DEF Harmonic, Fraction
  <2> QED
    BY <1>1, <2>3 DEF Equal, One
<1>2. CASE tp > 0
  <2>1. Fraction(tp, tp + fp) = <<tp, tp + fp>> /\ Fraction(tp, tp + fn) = <<tp, tp + fn>>
    BY <1>2 DEF Fraction
  <2> DEFINE over == tp * (tp + fn) + tp * (tp + fp)
  <2>3. over = 2 * tp * tp + tp * (fn + fp) /\ over > 0
    BY <1>2
  <2>4. Harmonic(Fraction(tp, tp + fp), Fraction(tp, tp + fn)) = <<2 * tp * tp, over>>
    BY <2>1, <2>3 DEF Harmonic, Fraction
  <2>5. tp * (fn + fp) = 0 <=> fn + fp = 0
    BY <1>2
  <2> QED
    BY <2>3, <2>4, <2>5 DEF Equal, One
<1> QED
  BY <1>1, <1>2

\* The posts that have a value.
Having(n, s, v) == {i \in 1 .. n : v \in s[i]}

LEMMA CountsOfAValue ==
  ASSUME NEW n \in Nat, NEW gold, NEW pred, NEW v
  PROVE  LET G == Having(n, gold, v)
             P == Having(n, pred, v)
             tp == TruePositives(n, gold, pred, v)
             fp == FalsePositives(n, gold, pred, v)
             fn == FalseNegatives(n, gold, pred, v)
         IN  /\ tp \in Nat /\ fp \in Nat /\ fn \in Nat
             /\ tp = Cardinality(G \cap P)
             /\ Cardinality(G) = tp + fn /\ Cardinality(P) = tp + fp
             /\ G = {} <=> tp + fn = 0
             /\ fp = 0 /\ fn = 0 <=> G = P
<1> DEFINE G == Having(n, gold, v)
           P == Having(n, pred, v)
<1>1. TruePositives(n, gold, pred, v) = Cardinality(G \cap P)
  <2>1. {i \in 1 .. n : v \in gold[i] /\ v \in pred[i]} = G \cap P
    BY DEF Having
  <2> QED
    BY <2>1 DEF TruePositives, Numbers
<1>2. FalsePositives(n, gold, pred, v) = Cardinality(P \ G)
  <2>1. {i \in 1 .. n : v \notin gold[i] /\ v \in pred[i]} = P \ G
    BY DEF Having
  <2> QED
    BY <2>1 DEF FalsePositives, Numbers
<1>3. FalseNegatives(n, gold, pred, v) = Cardinality(G \ P)
  <2>1. {i \in 1 .. n : v \in gold[i] /\ v \notin pred[i]} = G \ P
    BY DEF Having
  <2> QED
    BY <2>1 DEF FalseNegatives, Numbers
<1>4. IsFiniteSet(G) /\ IsFiniteSet(P)
  <2>1. G \in SUBSET (1 .. n) /\ P \in SUBSET (1 .. n)
    BY DEF Having
  <2> QED
    BY <2>1, PlacesAreFinite
<1> HIDE DEF G, P
<1>5. /\ IsFiniteSet(G \cap P) /\ IsFiniteSet(P \ G) /\ IsFiniteSet(G \ P)
      /\ Cardinality(P \ G) = Cardinality(P) - Cardinality(P \cap G)
      /\ Cardinality(G \ P) = Cardinality(G) - Cardinality(G \cap P)
  BY <1>4, FS_Difference, FS_Intersection
<1>6. P \cap G = G \cap P
  OBVIOUS
<1>7. /\ Cardinality(G \cap P) \in Nat /\ Cardinality(P \ G) \in Nat /\ Cardinality(G \ P) \in Nat
      /\ Cardinality(G) \in Nat /\ Cardinality(P) \in Nat
  BY <1>4, <1>5, FS_CardinalityType
<1>8. /\ Cardinality(G) = 0 <=> G = {}
      /\ Cardinality(P \ G) = 0 <=> P \ G = {}
      /\ Cardinality(G \ P) = 0 <=> G \ P = {}
  BY <1>4, <1>5, FS_EmptySet
<1>9. P \ G = {} /\ G \ P = {} <=> G = P
  OBVIOUS
<1>10. /\ Cardinality(G) = Cardinality(G \cap P) + Cardinality(G \ P)
       /\ Cardinality(P) = Cardinality(G \cap P) + Cardinality(P \ G)
  <2>1. Cardinality(P \ G) = Cardinality(P) - Cardinality(G \cap P)
    BY <1>5, <1>6
  <2> DEFINE both == Cardinality(G \cap P)
             only == Cardinality(P \ G)
             missed == Cardinality(G \ P)
             given == Cardinality(G)
             told == Cardinality(P)
  <2>2. only = told - both /\ missed = given - both
    BY <1>5, <2>1
  <2>3. both \in Nat /\ only \in Nat /\ missed \in Nat /\ given \in Nat /\ told \in Nat
    BY <1>7
  <2> HIDE DEF both, only, missed, given, told
  <2>4. given = both + missed /\ told = both + only
    BY <2>2, <2>3
  <2> QED
    BY <2>4 DEF both, only, missed, given, told
<1> QED
  BY <1>1, <1>2, <1>3, <1>7, <1>8, <1>9, <1>10 DEF G, P

\* F1 is Dice's measure, and all posts are exact when every value is: for any
\* posts and values.
THEOREM MetricsAlwaysMeasure ==
  ASSUME NEW n \in Nat \ {0}, NEW values
  PROVE  MetricsMeasure(n, values)
<1> SUFFICES ASSUME NEW gold \in [1 .. n -> SUBSET values], NEW pred \in [1 .. n -> SUBSET values]
             PROVE  LET With(s, v) == {i \in 1 .. n : v \in s[i]} IN
                    /\ \A v \in values :
                         Equal(F1(n, gold, pred, v),
                               Fraction(2 * Cardinality(With(gold, v) \cap With(pred, v)),
                                        Cardinality(With(gold, v)) + Cardinality(With(pred, v))))
                    /\ Equal(Exact(n, gold, pred), One) <=>
                         \A v \in values : IF Supported(n, gold, v) THEN Equal(F1(n, gold, pred, v), One)
                                           ELSE With(pred, v) = {}
  BY DEF MetricsMeasure
<1>1. ASSUME NEW v \in values
      PROVE  /\ Equal(F1(n, gold, pred, v),
                      Fraction(2 * Cardinality(Having(n, gold, v) \cap Having(n, pred, v)),
                               Cardinality(Having(n, gold, v)) + Cardinality(Having(n, pred, v))))
             /\ (IF Supported(n, gold, v) THEN Equal(F1(n, gold, pred, v), One)
                                          ELSE Having(n, pred, v) = {})
                  <=> Having(n, gold, v) = Having(n, pred, v)
  <2> DEFINE G == Having(n, gold, v)
             P == Having(n, pred, v)
  <2> DEFINE tp == TruePositives(n, gold, pred, v)
             fp == FalsePositives(n, gold, pred, v)
             fn == FalseNegatives(n, gold, pred, v)
  <2>2. /\ tp \in Nat /\ fp \in Nat /\ fn \in Nat
        /\ tp = Cardinality(G \cap P)
        /\ Cardinality(G) = tp + fn /\ Cardinality(P) = tp + fp
        /\ G = {} <=> tp + fn = 0
        /\ fp = 0 /\ fn = 0 <=> G = P
    BY CountsOfAValue
  <2>3. F1(n, gold, pred, v) = Harmonic(Fraction(tp, tp + fp), Fraction(tp, tp + fn))
    BY Zenon DEF F1
  <2>4. Supported(n, gold, v) <=> G # {}
    BY DEF Supported, Having
  <2> HIDE DEF G, P, tp, fp, fn
  <2>5. Equal(F1(n, gold, pred, v), Fraction(2 * Cardinality(G \cap P), Cardinality(G) + Cardinality(P)))
    BY <2>2, <2>3, HarmonicIsDice
  <2>6. G # {} => (Equal(F1(n, gold, pred, v), One) <=> G = P)
    <3> SUFFICES ASSUME G # {} PROVE Equal(F1(n, gold, pred, v), One) <=> G = P
      OBVIOUS
    <3>1. tp + fn > 0
      BY <2>2
    <3>2. Equal(Harmonic(Fraction(tp, tp + fp), Fraction(tp, tp + fn)), One) <=> fp = 0 /\ fn = 0
      BY <2>2, <3>1, DiceIsOne
    <3> QED
      BY <2>2, <2>3, <3>2
  <2>7. G = {} => (P = {} <=> G = P)
    OBVIOUS
  <2>8. (IF Supported(n, gold, v) THEN Equal(F1(n, gold, pred, v), One) ELSE P = {}) <=> G = P
    BY <2>4, <2>6, <2>7, Zenon
  <2> QED
    BY <2>5, <2>8 DEF G, P
<1>2. Equal(Exact(n, gold, pred), One) <=> \A i \in 1 .. n : gold[i] = pred[i]
  <2> DEFINE same == {i \in 1 .. n : gold[i] = pred[i]}
  <2>1. same \in SUBSET (1 .. n)
    OBVIOUS
  <2>2. Exact(n, gold, pred) = <<Cardinality(same), n>>
    BY DEF Exact, Numbers, Fraction
  <2>3. Cardinality(same) \in Nat
    BY <2>1, PlacesAreFinite
  <2>4. IsFiniteSet(1 .. n) /\ Cardinality(1 .. n) = n
    BY FS_Interval
  <2>5. Cardinality(same) = n => same = 1 .. n
    BY <2>1, <2>4, FS_Subset
  <2>6. Cardinality(same) = n <=> same = 1 .. n
    BY <2>4, <2>5
  <2>7. Equal(Exact(n, gold, pred), One) <=> Cardinality(same) = n
    BY <2>2, <2>3 DEF Equal, One
  <2>8. same = 1 .. n <=> \A i \in 1 .. n : gold[i] = pred[i]
    OBVIOUS
  <2> QED
    BY <2>6, <2>7, <2>8
<1>3. (\A i \in 1 .. n : gold[i] = pred[i])
        <=> \A v \in values : Having(n, gold, v) = Having(n, pred, v)
  <2>1. ASSUME \A v \in values : Having(n, gold, v) = Having(n, pred, v), NEW i \in 1 .. n
        PROVE  gold[i] = pred[i]
    <3>1. gold[i] \in SUBSET values /\ pred[i] \in SUBSET values
      OBVIOUS
    <3>2. ASSUME NEW v \in values PROVE v \in gold[i] <=> v \in pred[i]
      BY <2>1 DEF Having
    <3> QED
      BY <3>1, <3>2
  <2>2. ASSUME \A i \in 1 .. n : gold[i] = pred[i], NEW v \in values
        PROVE  Having(n, gold, v) = Having(n, pred, v)
    BY <2>2 DEF Having
  <2> QED
    BY <2>1, <2>2
<1>4. Equal(Exact(n, gold, pred), One) <=>
        \A v \in values : IF Supported(n, gold, v) THEN Equal(F1(n, gold, pred, v), One)
                          ELSE Having(n, pred, v) = {}
  BY <1>1, <1>2, <1>3, Zenon
<1> QED
  BY <1>1, <1>4 DEF Having

\* The posts an annotator put into one of some categories.
Into(posts, a, K) == {i \in posts : a[i] \in K}
Both(posts, a, b, K) == {i \in posts : a[i] = b[i] /\ a[i] \in K}
Size(posts, a, c) == Cardinality({i \in posts : a[i] = c})
Weight(posts, a, b, categories) == [c \in categories |-> Size(posts, a, c) * Size(posts, b, c)]

LEMMA ChanceIs ==
  ASSUME NEW posts, NEW a, NEW b, NEW categories
  PROVE  Chance(posts, a, b, categories)
           = SumFunctionOnSet(Weight(posts, a, b, categories), categories)
<1>1. DOMAIN Weight(posts, a, b, categories) = categories
  BY DEF Weight
<1> QED
  BY <1>1 DEF Chance, Weight, Size, FoldFunction, SumFunctionOnSet

LEMMA ChanceIsSymmetric ==
  ASSUME NEW posts, IsFiniteSet(posts), NEW a, NEW b, NEW categories
  PROVE  Chance(posts, a, b, categories) = Chance(posts, b, a, categories)
<1>1. ASSUME NEW c \in categories
      PROVE  Size(posts, a, c) * Size(posts, b, c) = Size(posts, b, c) * Size(posts, a, c)
  <2>1. {i \in posts : a[i] = c} \in SUBSET posts /\ {i \in posts : b[i] = c} \in SUBSET posts
    OBVIOUS
  <2>2. Size(posts, a, c) \in Nat /\ Size(posts, b, c) \in Nat
    BY <2>1, FS_Subset, FS_CardinalityType DEF Size
  <2> QED
    BY <2>2
<1>2. Weight(posts, a, b, categories) = Weight(posts, b, a, categories)
  BY <1>1 DEF Weight
<1> QED
  BY <1>2, ChanceIs

\* Of n posts, x and y were put there, by both of them m.
Overlap(n, x, y, m) ==
  /\ n \in Nat /\ x \in Nat /\ y \in Nat /\ m \in Nat
  /\ x <= n /\ y <= n /\ x + y <= n + m

LEMMA OneCategory ==
  ASSUME NEW n, NEW x, NEW y, NEW m, Overlap(n, x, y, m)
  PROVE  4 * (x * y) <= n * (x + y) + 2 * n * m
<1>0. /\ n \in Nat /\ x \in Nat /\ y \in Nat /\ m \in Nat
      /\ x <= n /\ y <= n /\ x + y <= n + m
  BY DEF Overlap
<1>1. 4 * (x * y) <= (x + y) * (x + y)
  <2>1. (x - y) * (x - y) >= 0
    BY <1>0
  <2>2. (x - y) * (x - y) = (x + y) * (x + y) - 4 * (x * y)
    BY <1>0
  <2> QED
    BY <1>0, <2>1, <2>2
<1>2. (x + y) * (x + y) <= (x + y) * (n + m)
  BY <1>0
<1>3. (x + y) * m <= (2 * n) * m
  BY <1>0
<1>4. (x + y) * (n + m) = n * (x + y) + (x + y) * m /\ (2 * n) * m = 2 * n * m
  BY <1>0
<1> QED
  BY <1>0, <1>1, <1>2, <1>3, <1>4

LEMMA SizesOfACategory ==
  ASSUME NEW posts, IsFiniteSet(posts), NEW a, NEW b, NEW c
  PROVE  Overlap(Cardinality(posts), Size(posts, a, c), Size(posts, b, c),
                 Cardinality(Both(posts, a, b, {c})))
<1> DEFINE A == {i \in posts : a[i] = c}
           B == {i \in posts : b[i] = c}
<1>1. /\ A \in SUBSET posts /\ B \in SUBSET posts /\ A \cup B \in SUBSET posts
      /\ A \cap B = Both(posts, a, b, {c})
  BY DEF Both
<1>2. Size(posts, a, c) = Cardinality(A) /\ Size(posts, b, c) = Cardinality(B)
  BY DEF Size
<1> HIDE DEF A, B
<1>3. /\ IsFiniteSet(A) /\ IsFiniteSet(B) /\ IsFiniteSet(A \cap B)
      /\ Cardinality(A) <= Cardinality(posts) /\ Cardinality(B) <= Cardinality(posts)
      /\ Cardinality(A \cup B) <= Cardinality(posts)
  BY <1>1, FS_Subset, FS_Intersection
<1>4. Cardinality(A \cup B) = Cardinality(A) + Cardinality(B) - Cardinality(A \cap B)
  BY <1>3, FS_Union
<1>5. /\ Cardinality(A) \in Nat /\ Cardinality(B) \in Nat /\ Cardinality(A \cap B) \in Nat
      /\ Cardinality(posts) \in Nat
  BY <1>3, FS_CardinalityType
<1> DEFINE n == Cardinality(posts)
           x == Cardinality(A)
           y == Cardinality(B)
           m == Cardinality(A \cap B)
           u == Cardinality(A \cup B)
<1>6. Overlap(n, x, y, m)
  <2>1. n \in Nat /\ x \in Nat /\ y \in Nat /\ m \in Nat /\ u = x + y - m
        /\ x <= n /\ y <= n /\ u <= n
    BY <1>3, <1>4, <1>5
  <2> HIDE DEF n, x, y, m, u
  <2> QED
    BY <2>1 DEF Overlap
<1> QED
  BY <1>1, <1>2, <1>6

\* One more category has the posts put there and no others.
LEMMA IntoOneMore ==
  ASSUME NEW posts, IsFiniteSet(posts), NEW a, NEW K, NEW c \in K
  PROVE  Cardinality(Into(posts, a, K)) = Size(posts, a, c) + Cardinality(Into(posts, a, K \ {c}))
<1> DEFINE A == {i \in posts : a[i] = c}
           R == Into(posts, a, K \ {c})
<1>1. A \in SUBSET posts /\ R \in SUBSET posts /\ A \cap R = {} /\ A \cup R = Into(posts, a, K)
  BY DEF Into
<1>2. Size(posts, a, c) = Cardinality(A)
  BY DEF Size
<1> HIDE DEF A, R
<1>3. IsFiniteSet(A) /\ IsFiniteSet(R)
  BY <1>1, FS_Subset
<1>4. Cardinality(A \cup R) = Cardinality(A) + Cardinality(R) - Cardinality(A \cap R)
  BY <1>3, FS_Union
<1>5. Cardinality(A) \in Nat /\ Cardinality(R) \in Nat /\ Cardinality(A \cap R) = 0
  BY <1>1, <1>3, FS_CardinalityType, FS_EmptySet
<1>6. Cardinality(A \cup R) = Cardinality(A) + Cardinality(R)
  BY <1>4, <1>5
<1> QED
  BY <1>1, <1>2, <1>6 DEF R

LEMMA BothOneMore ==
  ASSUME NEW posts, IsFiniteSet(posts), NEW a, NEW b, NEW K, NEW c \in K
  PROVE  Cardinality(Both(posts, a, b, K))
           = Cardinality(Both(posts, a, b, {c})) + Cardinality(Both(posts, a, b, K \ {c}))
<1> DEFINE A == Both(posts, a, b, {c})
           R == Both(posts, a, b, K \ {c})
<1>1. A \in SUBSET posts /\ R \in SUBSET posts /\ A \cap R = {} /\ A \cup R = Both(posts, a, b, K)
  BY DEF Both
<1> HIDE DEF A, R
<1>3. IsFiniteSet(A) /\ IsFiniteSet(R)
  BY <1>1, FS_Subset
<1>4. Cardinality(A \cup R) = Cardinality(A) + Cardinality(R) - Cardinality(A \cap R)
  BY <1>3, FS_Union
<1>5. Cardinality(A) \in Nat /\ Cardinality(R) \in Nat /\ Cardinality(A \cap R) = 0
  BY <1>1, <1>3, FS_CardinalityType, FS_EmptySet
<1>6. Cardinality(A \cup R) = Cardinality(A) + Cardinality(R)
  BY <1>4, <1>5
<1> QED
  BY <1>1, <1>6 DEF A, R

LEMMA SomeCategories ==
  ASSUME NEW posts, IsFiniteSet(posts), NEW a, NEW b, NEW categories, IsFiniteSet(categories),
         NEW K \in SUBSET categories
  PROVE  LET n == Cardinality(posts)
             w == Weight(posts, a, b, categories)
         IN  /\ SumFunctionOnSet(w, K) \in Nat
             /\ 4 * SumFunctionOnSet(w, K)
                  <= n * (Cardinality(Into(posts, a, K)) + Cardinality(Into(posts, b, K)))
                       + 2 * n * Cardinality(Both(posts, a, b, K))
<1> DEFINE n == Cardinality(posts)
           w == Weight(posts, a, b, categories)
           x(c) == Size(posts, a, c)
           y(c) == Size(posts, b, c)
           m(c) == Cardinality(Both(posts, a, b, {c}))
           X(T) == Cardinality(Into(posts, a, T))
           Y(T) == Cardinality(Into(posts, b, T))
           M(T) == Cardinality(Both(posts, a, b, T))
           S(T) == SumFunctionOnSet(w, T)
           Good == {T \in SUBSET categories : 4 * S(T) <= n * (X(T) + Y(T)) + 2 * n * M(T)}
<1>1. ASSUME NEW T \in SUBSET categories
      PROVE  /\ X(T) \in Nat /\ Y(T) \in Nat /\ M(T) \in Nat /\ n \in Nat
             /\ S(T) \in Nat /\ Summable(T, w)
  <2>1. Into(posts, a, T) \in SUBSET posts /\ Into(posts, b, T) \in SUBSET posts
        /\ Both(posts, a, b, T) \in SUBSET posts
    BY DEF Into, Both
  <2>2. X(T) \in Nat /\ Y(T) \in Nat /\ M(T) \in Nat /\ n \in Nat
    BY <2>1, FS_Subset, FS_CardinalityType
  <2>3. ASSUME NEW c \in T PROVE w[c] \in Nat
    <3>1. w[c] = x(c) * y(c)
      BY DEF Weight
    <3>2. x(c) \in Nat /\ y(c) \in Nat
      BY SizesOfACategory DEF Overlap
    <3> QED
      BY <3>1, <3>2
  <2>4. IsFiniteSet(T)
    BY FS_Subset
  <2> HIDE DEF w
  <2>5. S(T) \in Nat
    BY <2>3, <2>4, SumIsNat
  <2>6. Summable(T, w)
    BY <2>3, <2>4 DEF Summable
  <2> QED
    BY <2>2, <2>5, <2>6
<1>2. Hereditary(Good, categories)
  <2> SUFFICES ASSUME NEW T \in SUBSET categories, \A c \in T : T \ {c} \in Good
               PROVE  T \in Good
    BY DEF Hereditary
  <2>1. CASE T = {}
    <3>1. S(T) = 0
      BY <2>1, SumEmpty
    <3>2. /\ X(T) \in Nat /\ Y(T) \in Nat /\ M(T) \in Nat /\ n \in Nat
      BY <1>1
    <3> HIDE DEF S, X, Y, M, n
    <3>3. n * (X(T) + Y(T)) >= 0 /\ 2 * n * M(T) >= 0
      BY <3>2
    <3>4. n * (X(T) + Y(T)) \in Int /\ 2 * n * M(T) \in Int
      BY <3>2
    <3>5. 4 * S(T) <= n * (X(T) + Y(T)) + 2 * n * M(T)
      BY <3>1, <3>3, <3>4
    <3> QED
      BY <3>5
  <2>2. CASE T # {}
    <3>1. PICK c \in T : TRUE
      BY <2>2
    <3>2. PICK R : R = T \ {c}
      OBVIOUS
    <3>3. R \in SUBSET categories /\ R \in Good
      BY <3>1, <3>2
    <3>4. X(T) = x(c) + X(R) /\ Y(T) = y(c) + Y(R)
      BY <3>1, <3>2, IntoOneMore
    <3>5. M(T) = m(c) + M(R)
      BY <3>1, <3>2, BothOneMore
    <3>6. S(T) = w[c] + S(R)
      <4> HIDE DEF w
      <4> QED
        BY <1>1, <3>1, <3>2, SumLess
    <3>7. w[c] = x(c) * y(c)
      BY <3>1 DEF Weight
    <3>0. Overlap(n, x(c), y(c), m(c))
      BY SizesOfACategory
    <3>8. /\ n \in Nat /\ m(c) \in Nat /\ x(c) \in Nat /\ y(c) \in Nat
      <4> HIDE DEF n, x, y, m
      <4> QED
        BY <3>0 DEF Overlap
    <3>9. X(R) \in Nat /\ Y(R) \in Nat /\ M(R) \in Nat /\ S(R) \in Nat
      BY <1>1, <3>3
    <3>10. 4 * S(R) <= n * (X(R) + Y(R)) + 2 * n * M(R)
      BY <3>3
    <3> HIDE DEF S, X, Y, M, n, x, y, m, w
    <3>11. 4 * (x(c) * y(c)) <= n * (x(c) + y(c)) + 2 * n * m(c)
      BY <3>0, OneCategory
    <3>12. n * (X(T) + Y(T)) + 2 * n * M(T)
             = (n * (x(c) + y(c)) + 2 * n * m(c)) + (n * (X(R) + Y(R)) + 2 * n * M(R))
      BY <3>4, <3>5, <3>8, <3>9
    <3>13. 4 * S(T) = 4 * (x(c) * y(c)) + 4 * S(R)
      <4>1. x(c) * y(c) \in Int
        BY <3>8
      <4> QED
        BY <3>6, <3>7, <3>9, <4>1
    <3>14. 4 * S(T) <= n * (X(T) + Y(T)) + 2 * n * M(T)
      <4>1. /\ x(c) * y(c) \in Int /\ n * (x(c) + y(c)) + 2 * n * m(c) \in Int
            /\ n * (X(R) + Y(R)) + 2 * n * M(R) \in Int
        BY <3>8, <3>9
      <4> QED
        BY <3>9, <3>10, <3>11, <3>12, <3>13, <4>1
    <3> QED
      BY <3>14
  <2> QED
    BY <2>1, <2>2
<1> HIDE DEF Good
<1>3. K \in Good
  BY <1>2, BySize
<1> QED
  BY <1>1, <1>3 DEF Good

\* A fraction between -1 and 1 that is 1 when nothing differs.
Measures(k, differ) ==
  /\ k[1] \in Int /\ k[2] \in Int
  /\ k[2] > 0 /\ k[1] <= k[2] /\ k[1] >= -k[2]
  /\ k[1] = k[2] <=> differ = {}

Differ(posts, a, b) == {i \in posts : a[i] # b[i]}

\* Each annotator put every post into a category.
Sorts(a, posts, categories) == \A i \in posts : a[i] \in categories

\* Of n posts, m were put into the same category by both.
Expects(chance, n, m) ==
  n \in Nat /\ m \in Nat /\ chance \in Nat /\ 4 * chance <= n * (n + n) + 2 * n * m

LEMMA ChanceIsBounded ==
  ASSUME NEW posts, IsFiniteSet(posts), NEW a, NEW b, NEW categories, IsFiniteSet(categories),
         Sorts(a, posts, categories), Sorts(b, posts, categories)
  PROVE  Expects(Chance(posts, a, b, categories), Cardinality(posts),
                 Cardinality({i \in posts : a[i] = b[i]}))
<1>1. Into(posts, a, categories) = posts /\ Into(posts, b, categories) = posts
  BY DEF Into, Sorts
<1>2. Both(posts, a, b, categories) = {i \in posts : a[i] = b[i]}
  BY DEF Both, Sorts
<1>3. {i \in posts : a[i] = b[i]} \in SUBSET posts
  OBVIOUS
<1>4. Cardinality(posts) \in Nat /\ Cardinality({i \in posts : a[i] = b[i]}) \in Nat
  BY <1>3, FS_Subset, FS_CardinalityType
<1>5. categories \in SUBSET categories
  OBVIOUS
<1> QED
  BY <1>1, <1>2, <1>4, <1>5, SomeCategories, ChanceIs DEF Expects

LEMMA KappaMeasures ==
  ASSUME NEW posts, IsFiniteSet(posts), NEW a, NEW b, NEW categories, IsFiniteSet(categories),
         Sorts(a, posts, categories), Sorts(b, posts, categories)
  PROVE  Measures(Kappa(posts, a, b, categories), Differ(posts, a, b))
<1> DEFINE n == Cardinality(posts)
           same == {i \in posts : a[i] = b[i]}
           m == Cardinality(same)
           chance == Chance(posts, a, b, categories)
           k == Kappa(posts, a, b, categories)
<1>0. Expects(chance, n, m)
  BY ChanceIsBounded
<1>2. m <= n /\ (m = n <=> same = posts)
  <2>0. n \in Nat /\ m \in Nat
    BY <1>0 DEF Expects
  <2>1. same \in SUBSET posts
    OBVIOUS
  <2>2. m <= n /\ (n = m => posts = same)
    BY <2>1, FS_Subset
  <2> HIDE DEF same
  <2> QED
    BY <2>0, <2>2
<1>3. same = posts <=> Differ(posts, a, b) = {}
  BY DEF Differ
<1>4. k = IF chance = n * n THEN <<1, 1>> ELSE <<m * n - chance, n * n - chance>>
  BY Zenon DEF Kappa, One
<1> HIDE DEF n, m, same, chance, k
<1>1. n \in Nat /\ m \in Nat /\ chance \in Nat /\ 4 * chance <= n * (n + n) + 2 * n * m
  BY <1>0 DEF Expects
<1>5. 2 * chance <= n * n + n * m
  BY <1>1
<1>6. n * m <= n * n /\ n * m \in Nat /\ n * n \in Nat /\ m * n = n * m
  BY <1>1, <1>2
<1>7. chance = n * n => Measures(k, Differ(posts, a, b))
  <2> SUFFICES ASSUME chance = n * n PROVE Measures(k, Differ(posts, a, b))
    OBVIOUS
  <2>1. n * n <= n * m
    BY <1>1, <1>5, <1>6
  <2>2. m = n
    <3>1. n * (n - m) <= 0 /\ n - m >= 0
      BY <1>1, <1>2, <1>6, <2>1
    <3>2. CASE n = 0
      BY <3>2, <1>1, <1>2
    <3>3. CASE n > 0
      BY <3>1, <3>3, <1>1
    <3> QED
      BY <3>2, <3>3, <1>1
  <2>3. k = <<1, 1>>
    BY <1>4
  <2> QED
    BY <2>2, <2>3, <1>2, <1>3 DEF Measures
<1>8. chance # n * n => Measures(k, Differ(posts, a, b))
  <2> SUFFICES ASSUME chance # n * n PROVE Measures(k, Differ(posts, a, b))
    OBVIOUS
  <2>1. k = <<n * m - chance, n * n - chance>>
    BY <1>4, <1>6
  <2>2. chance < n * n
    BY <1>1, <1>5, <1>6
  <2>3. n * m = n * n <=> m = n
    <3>1. n > 0
      BY <1>1, <2>2
    <3>2. n * m = n * n => m = n
      BY <1>1, <3>1
    <3> QED
      BY <3>2
  <2>4. n * m - chance = n * n - chance <=> n * m = n * n
    BY <1>1, <1>6
  <2>5. k[1] = n * m - chance /\ k[2] = n * n - chance
    BY <2>1
  <2>6. /\ k[1] \in Int /\ k[2] \in Int
        /\ k[2] > 0 /\ k[1] <= k[2] /\ k[1] >= -k[2]
    BY <1>1, <1>5, <1>6, <2>2, <2>5
  <2> QED
    BY <1>2, <1>3, <2>3, <2>4, <2>5, <2>6 DEF Measures
<1> QED
  BY <1>7, <1>8 DEF k

LEMMA KappaIsSymmetric ==
  ASSUME NEW posts, IsFiniteSet(posts), NEW a, NEW b, NEW categories
  PROVE  Kappa(posts, a, b, categories) = Kappa(posts, b, a, categories)
<1>1. Chance(posts, a, b, categories) = Chance(posts, b, a, categories)
  BY ChanceIsSymmetric
<1>2. {i \in posts : a[i] = b[i]} = {i \in posts : b[i] = a[i]}
  OBVIOUS
<1> QED
  BY <1>1, <1>2, Zenon DEF Kappa

\* Kappa is between -1 and 1, 1 only when nothing differs, and the same for both
\* annotators: for any number of posts and categories.
THEOREM KappaAlwaysAgrees ==
  ASSUME NEW n \in Nat, NEW categories, IsFiniteSet(categories)
  PROVE  KappaAgrees(n, categories)
<1> SUFFICES ASSUME NEW a \in [1 .. n -> categories \cup {Unmarked}],
                    NEW b \in [1 .. n -> categories \cup {Unmarked}]
             PROVE  LET posts == Compared(n, a, b)
                        kappa == Kappa(posts, a, b, categories)
                    IN  posts # {} =>
                          /\ kappa = Kappa(posts, b, a, categories)
                          /\ kappa[2] > 0 /\ kappa[1] <= kappa[2] /\ kappa[1] >= -kappa[2]
                          /\ Equal(kappa, One) <=> \A i \in posts : a[i] = b[i]
  BY DEF KappaAgrees
<1> DEFINE posts == Compared(n, a, b)
           kappa == Kappa(posts, a, b, categories)
<1>1. IsFiniteSet(posts)
  <2>1. posts \in SUBSET (1 .. n) /\ IsFiniteSet(1 .. n)
    BY FS_Interval DEF Compared
  <2> QED
    BY <2>1, FS_Subset
<1>2. Sorts(a, posts, categories) /\ Sorts(b, posts, categories)
  BY DEF Compared, Sorts
<1> HIDE DEF posts
<1>3. kappa = Kappa(posts, b, a, categories)
  BY <1>1, KappaIsSymmetric
<1>4. Measures(kappa, Differ(posts, a, b))
  BY <1>1, <1>2, KappaMeasures
<1>5. Equal(kappa, One) <=> kappa[1] = kappa[2]
  <2> HIDE DEF kappa
  <2> QED
    BY <1>4 DEF Equal, One, Measures
<1>6. Differ(posts, a, b) = {} <=> \A i \in posts : a[i] = b[i]
  BY DEF Differ
<1>7. kappa[2] > 0 /\ kappa[1] <= kappa[2] /\ kappa[1] >= -kappa[2]
  <2> HIDE DEF kappa
  <2> QED
    BY <1>4 DEF Measures
<1>8. Equal(kappa, One) <=> \A i \in posts : a[i] = b[i]
  BY <1>4, <1>5, <1>6 DEF Measures
<1> QED
  BY <1>3, <1>7, <1>8 DEF posts

\* The fractions of D, added up in any order.
Adds(it, D, fractions) ==
  it = [s \in SUBSET D |->
          IF s = {} THEN <<0, 1>> ELSE Plus(fractions[OneOf(s)], it[s \ {OneOf(s)}])]

Pair(x) == x[1] \in Int /\ x[2] \in Int

LEMMA PlusIsPair ==
  ASSUME NEW x, NEW y, Pair(x), Pair(y)
  PROVE  Plus(x, y) \in Int \X Int
<1>1. /\ x[1] * y[2] + y[1] * x[2] \in Int /\ x[2] * y[2] \in Int
  BY DEF Pair
<1> QED
  BY <1>1 DEF Plus

LEMMA AddsExist ==
  ASSUME NEW D, IsFiniteSet(D), NEW fractions, \A v \in D : Pair(fractions[v])
  PROVE  \E it : Adds(it, D, fractions)
<1> DEFINE V == Int \X Int
           base == <<0, 1>>
<1>1. PICK step : step = [v \in D |-> [y \in V |-> Plus(fractions[v], y)]]
  OBVIOUS
<1>2. base \in V
  OBVIOUS
<1>3. Makes(step, D, V)
  <2>1. ASSUME NEW v \in D PROVE [y \in V |-> Plus(fractions[v], y)] \in [V -> V]
    <3>1. ASSUME NEW y \in V PROVE Plus(fractions[v], y) \in V
      <4>1. Pair(y)
        BY DEF Pair
      <4> QED
        BY <4>1, PlusIsPair
    <3> QED
      BY <3>1
  <2> HIDE DEF V
  <2> QED
    BY <1>1, <2>1 DEF Makes
<1> HIDE DEF V, base
<1>4. PICK it : Gathers(it, D, V, base, step)
  BY <1>2, <1>3, Gathering
<1>5. ASSUME NEW s \in SUBSET D
      PROVE  it[s] = IF s = {} THEN base ELSE Plus(fractions[OneOf(s)], it[s \ {OneOf(s)}])
  <2>1. s \ {OneOf(s)} \in SUBSET D
    OBVIOUS
  <2>2. it[s \ {OneOf(s)}] \in V
    BY <1>4, <2>1 DEF Gathers
  <2>3. s # {} => OneOf(s) \in D
    BY OneOfIn
  <2>4. it[s] = IF s = {} THEN base ELSE step[OneOf(s)][it[s \ {OneOf(s)}]]
    BY <1>4 DEF Gathers
  <2> QED
    BY <1>1, <2>2, <2>3, <2>4
<1>6. it = [s \in SUBSET D |-> it[s]]
  BY <1>4 DEF Gathers
<1> QED
  BY <1>5, <1>6 DEF Adds, base

LEMMA FoldOfPlus ==
  ASSUME NEW D, IsFiniteSet(D), NEW fractions, DOMAIN fractions = D, \A v \in D : Pair(fractions[v])
  PROVE  \E it : Adds(it, D, fractions) /\ FoldFunction(Plus, <<0, 1>>, fractions) = it[D]
<1> DEFINE it == CHOOSE i : Adds(i, D, fractions)
<1>1. FoldFunction(Plus, <<0, 1>>, fractions) = it[D]
  BY DEF FoldFunction, FoldFunctionOnSet, MapThenFoldSet, Adds, OneOf
<1>2. Adds(it, D, fractions)
  <2>1. \E i : Adds(i, D, fractions)
    BY AddsExist
  <2> QED
    BY <2>1, Zenon
<1> QED
  BY <1>1, <1>2

\* A sum x of so many fractions that are at most 1, and are 1 if they are to be.
AtMost(x, many, differ, S) ==
  /\ Pair(x) /\ x[2] > 0 /\ x[1] <= many * x[2]
  /\ x[1] = many * x[2] <=> \A v \in S : differ[v] = {}

LEMMA OneMoreFraction ==
  ASSUME NEW k, NEW d, Measures(k, d), NEW y, NEW many \in Nat, NEW p \in BOOLEAN,
         Pair(y), y[2] > 0, y[1] <= many * y[2], y[1] = many * y[2] <=> p
  PROVE  LET x == Plus(k, y) IN
         /\ Pair(x) /\ x[2] > 0 /\ x[1] <= (many + 1) * x[2]
         /\ x[1] = (many + 1) * x[2] <=> d = {} /\ p
<1>1. PICK a \in Int, b \in Int : a = k[1] /\ b = k[2]
  BY DEF Measures
<1>2. PICK c \in Int, e \in Int : c = y[1] /\ e = y[2]
  BY DEF Pair
<1>3. b > 0 /\ a <= b /\ (a = b <=> d = {})
  BY <1>1 DEF Measures
<1>4. e > 0 /\ c <= many * e /\ (c = many * e <=> p)
  BY <1>2
<1>5. Plus(k, y) = <<a * e + c * b, b * e>>
  BY <1>1, <1>2 DEF Plus
<1>6. b * e > 0 /\ b * e \in Int /\ a * e + c * b \in Int
  BY <1>3, <1>4
<1>7. PICK u \in Int : u = many * e
  OBVIOUS
<1>8. (many + 1) * (b * e) = b * e + u * b
  BY <1>7
<1>9. a * e <= b * e /\ (a * e = b * e <=> a = b)
  BY <1>3, <1>4
<1>10. c * b <= u * b /\ (c * b = u * b <=> c = u)
  BY <1>3, <1>4, <1>7
<1>11. /\ a * e + c * b <= (many + 1) * (b * e)
       /\ a * e + c * b = (many + 1) * (b * e) <=> a = b /\ c = u
  <2>1. a * e \in Int /\ c * b \in Int /\ b * e \in Int /\ u * b \in Int
    OBVIOUS
  <2> QED
    BY <1>8, <1>9, <1>10, <2>1
<1> QED
  BY <1>3, <1>4, <1>5, <1>6, <1>7, <1>11 DEF Pair

LEMMA SomeFractions ==
  ASSUME NEW D, IsFiniteSet(D), NEW fractions, NEW differ,
         \A v \in D : Measures(fractions[v], differ[v]),
         NEW it, Adds(it, D, fractions)
  PROVE  AtMost(it[D], Cardinality(D), differ, D)
<1> DEFINE Good == {s \in SUBSET D : AtMost(it[s], Cardinality(s), differ, s)}
<1>1. \A s \in SUBSET D :
        it[s] = IF s = {} THEN <<0, 1>> ELSE Plus(fractions[OneOf(s)], it[s \ {OneOf(s)}])
  BY Zenon DEF Adds
<1>2. Hereditary(Good, D)
  <2> SUFFICES ASSUME NEW s \in SUBSET D, \A v \in s : s \ {v} \in Good
               PROVE  s \in Good
    BY DEF Hereditary
  <2>1. CASE s = {}
    <3>1. it[s] = <<0, 1>> /\ Cardinality(s) = 0
      BY <1>1, <2>1, FS_EmptySet
    <3>2. AtMost(it[s], Cardinality(s), differ, s)
      BY <2>1, <3>1 DEF AtMost, Pair
    <3> QED
      BY <3>2
  <2>2. CASE s # {}
    <3>1. PICK v : v = OneOf(s)
      OBVIOUS
    <3>2. PICK r : r = s \ {v}
      OBVIOUS
    <3>3. v \in s /\ v \in D /\ r \in SUBSET D /\ r \in Good
      BY <2>2, <3>1, <3>2, OneOfIn
    <3>4. it[s] = Plus(fractions[v], it[r])
      BY <1>1, <2>2, <3>1, <3>2
    <3>5. Measures(fractions[v], differ[v])
      BY <3>3
    <3>6. AtMost(it[r], Cardinality(r), differ, r)
      BY <3>3
    <3>7. IsFiniteSet(s) /\ IsFiniteSet(r)
      BY <3>3, FS_Subset
    <3>8. Cardinality(s) = Cardinality(r) + 1 /\ Cardinality(r) \in Nat
      <4>1. Cardinality(r) = Cardinality(s) - 1
        BY <3>2, <3>3, <3>7, FS_RemoveElement
      <4>2. Cardinality(s) \in Nat /\ Cardinality(r) \in Nat
        BY <3>7, FS_CardinalityType
      <4> QED
        BY <4>1, <4>2
    <3> DEFINE p == \A w \in r : differ[w] = {}
    <3>9. p \in BOOLEAN
      OBVIOUS
    <3>10. /\ Pair(it[r]) /\ it[r][2] > 0 /\ it[r][1] <= Cardinality(r) * it[r][2]
           /\ it[r][1] = Cardinality(r) * it[r][2] <=> p
      BY <3>6 DEF AtMost
    <3>11. p /\ differ[v] = {} <=> \A w \in s : differ[w] = {}
      BY <3>2, <3>3
    <3> HIDE DEF p
    <3>12. /\ Pair(it[s]) /\ it[s][2] > 0 /\ it[s][1] <= Cardinality(s) * it[s][2]
           /\ it[s][1] = Cardinality(s) * it[s][2] <=> differ[v] = {} /\ p
      <4>1. PICK x : x = it[r]
        OBVIOUS
      <4>2. PICK many \in Nat : many = Cardinality(r)
        BY <3>8
      <4>3. Pair(x) /\ x[2] > 0 /\ x[1] <= many * x[2] /\ (x[1] = many * x[2] <=> p)
        BY <3>10, <4>1, <4>2
      <4> QED
        BY <3>4, <3>5, <3>8, <3>9, <4>1, <4>2, <4>3, OneMoreFraction
    <3>13. AtMost(it[s], Cardinality(s), differ, s)
      BY <3>11, <3>12 DEF AtMost
    <3> QED
      BY <3>13
  <2> QED
    BY <2>1, <2>2
<1> HIDE DEF Good
<1>3. D \in Good
  BY <1>2, BySize
<1> QED
  BY <1>3 DEF Good

\* A fraction that is at most 1, and 1 when a report lists nothing.
Tells(k, settled) == /\ Pair(k) /\ k[2] > 0 /\ k[1] <= k[2]
                     /\ k[1] = k[2] <=> settled = {}

LEMMA MeanTells ==
  ASSUME NEW D, IsFiniteSet(D), NEW fractions, DOMAIN fractions = D, NEW differ,
         \A v \in D : Measures(fractions[v], differ[v])
  PROVE  Tells(Mean(fractions), {v \in D : differ[v] # {}})
<1>1. CASE D = {}
  <2>1. Mean(fractions) = <<1, 1>>
    BY <1>1, Zenon DEF Mean, One
  <2> QED
    BY <1>1, <2>1 DEF Tells, Pair
<1>2. CASE D # {}
  <2>1. \A v \in D : Pair(fractions[v])
    BY DEF Measures, Pair
  <2>2. PICK it : Adds(it, D, fractions) /\ FoldFunction(Plus, <<0, 1>>, fractions) = it[D]
    BY <2>1, FoldOfPlus
  <2>3. AtMost(it[D], Cardinality(D), differ, D)
    BY <2>2, SomeFractions
  <2>4. Mean(fractions) = <<it[D][1], it[D][2] * Cardinality(D)>>
    BY <1>2, <2>2, Zenon DEF Mean
  <2>5. Cardinality(D) \in Nat /\ Cardinality(D) # 0
    BY <1>2, FS_CardinalityType, FS_EmptySet
  <2>6. PICK x \in Int, y \in Int, many \in Nat : x = it[D][1] /\ y = it[D][2] /\ many = Cardinality(D)
    BY <2>3, <2>5 DEF AtMost, Pair
  <2>7. y > 0 /\ x <= many * y /\ (x = many * y <=> \A v \in D : differ[v] = {}) /\ many > 0
    BY <2>3, <2>5, <2>6 DEF AtMost
  <2>8. Mean(fractions) = <<x, y * many>>
    BY <2>4, <2>6
  <2>9. y * many = many * y /\ y * many > 0 /\ y * many \in Int
    BY <2>7
  <2>10. {v \in D : differ[v] # {}} = {} <=> \A v \in D : differ[v] = {}
    OBVIOUS
  <2> QED
    BY <2>7, <2>8, <2>9, <2>10 DEF Tells, Pair
<1> QED
  BY <1>1, <1>2

\* Which posts an annotator gave a value.
Marked(posts, a, v) == [i \in posts |-> v \in a[i]]

ValueKappas(gold, other, values) ==
  [v \in Given(gold, other, values) |->
     Kappa(DOMAIN gold, Marked(DOMAIN gold, gold, v), Marked(DOMAIN gold, other, v), BOOLEAN)]

LEMMA AxisKappaIs ==
  ASSUME NEW gold, NEW other, NEW values
  PROVE  /\ AxisKappa("single", gold, other, values)
              = Kappa(DOMAIN gold, gold, other, SUBSET values)
         /\ AxisKappa("multi", gold, other, values) = Mean(ValueKappas(gold, other, values))
BY Zenon DEF AxisKappa, ValueKappas, Marked

LEMMA TwoTruths == IsFiniteSet(BOOLEAN)
<1>1. IsFiniteSet({TRUE})
  BY FS_Singleton
<1>2. IsFiniteSet({TRUE} \cup {FALSE})
  BY <1>1, FS_AddElement
<1>3. BOOLEAN = {TRUE} \cup {FALSE}
  BY Zenon
<1> QED
  BY <1>2, <1>3

LEMMA MarkedSorts ==
  ASSUME NEW posts, NEW a, NEW v
  PROVE  Sorts(Marked(posts, a, v), posts, BOOLEAN)
<1>1. ASSUME NEW i \in posts PROVE Marked(posts, a, v)[i] \in BOOLEAN
  <2>1. Marked(posts, a, v)[i] = (v \in a[i])
    BY Zenon DEF Marked
  <2>2. (v \in a[i]) \in BOOLEAN
    OBVIOUS
  <2> QED
    BY <2>1, <2>2
<1> QED
  BY <1>1 DEF Sorts

LEMMA ValueTells ==
  ASSUME NEW posts, IsFiniteSet(posts), NEW a, NEW b, NEW v
  PROVE  Measures(Kappa(posts, Marked(posts, a, v), Marked(posts, b, v), BOOLEAN),
                  Differ(posts, Marked(posts, a, v), Marked(posts, b, v)))
BY MarkedSorts, TwoTruths, KappaMeasures

LEMMA ValueDiffers ==
  ASSUME NEW posts, NEW a, NEW b, NEW v
  PROVE  Differ(posts, Marked(posts, a, v), Marked(posts, b, v)) = {}
           <=> \A i \in posts : v \in a[i] <=> v \in b[i]
<1>1. ASSUME NEW i \in posts
      PROVE  Marked(posts, a, v)[i] = Marked(posts, b, v)[i] <=> (v \in a[i] <=> v \in b[i])
  <2>1. Marked(posts, a, v)[i] = (v \in a[i])
    BY Zenon DEF Marked
  <2>2. Marked(posts, b, v)[i] = (v \in b[i])
    BY Zenon DEF Marked
  <2> QED
    BY <2>1, <2>2
<1>2. Differ(posts, Marked(posts, a, v), Marked(posts, b, v)) = {}
        <=> \A i \in posts : Marked(posts, a, v)[i] = Marked(posts, b, v)[i]
  BY DEF Differ
<1> QED
  BY <1>1, <1>2, Zenon

\* An axis is settled exactly when no disagreement is listed, and kappa is the same for
\* both annotators: for any number of posts and values.
THEOREM ReportAlwaysAgrees ==
  ASSUME NEW n \in Nat, NEW values, IsFiniteSet(values)
  PROVE  ReportAgrees(n, values)
<1> SUFFICES ASSUME NEW gold \in [1 .. n -> SUBSET values], NEW other \in [1 .. n -> SUBSET values],
                    NEW kind \in {"single", "multi"}
             PROVE  LET kappa == AxisKappa(kind, gold, other, values) IN
                    /\ kappa[2] > 0 /\ kappa[1] <= kappa[2]
                    /\ Equal(kappa, One) <=> Disagreements(gold, other) = {}
                    /\ Equal(kappa, AxisKappa(kind, other, gold, values))
  BY DEF ReportAgrees
<1>1. PICK posts : posts = 1 .. n
  OBVIOUS
<1>2. IsFiniteSet(posts) /\ DOMAIN gold = posts /\ DOMAIN other = posts
  BY <1>1, FS_Interval
<1>3. Differ(posts, gold, other) = Disagreements(gold, other)
  BY <1>2 DEF Differ, Disagreements
<1>4. \A i \in posts : gold[i] \in SUBSET values /\ other[i] \in SUBSET values
  BY <1>1
<1>5. /\ Tells(AxisKappa("single", gold, other, values), Disagreements(gold, other))
      /\ AxisKappa("single", gold, other, values) = AxisKappa("single", other, gold, values)
  <2>1. IsFiniteSet(SUBSET values)
    BY FS_SUBSET
  <2>2. Sorts(gold, posts, SUBSET values) /\ Sorts(other, posts, SUBSET values)
    BY <1>4 DEF Sorts
  <2>3. PICK categories : categories = SUBSET values
    OBVIOUS
  <2>4. Measures(Kappa(posts, gold, other, categories), Differ(posts, gold, other))
    BY <1>2, <2>1, <2>2, <2>3, KappaMeasures
  <2>5. Kappa(posts, gold, other, categories) = Kappa(posts, other, gold, categories)
    BY <1>2, KappaIsSymmetric
  <2>6. /\ AxisKappa("single", gold, other, values) = Kappa(posts, gold, other, categories)
        /\ AxisKappa("single", other, gold, values) = Kappa(posts, other, gold, categories)
    <3>1. AxisKappa("single", gold, other, values) = Kappa(DOMAIN gold, gold, other, SUBSET values)
      BY AxisKappaIs, Zenon
    <3>2. AxisKappa("single", other, gold, values) = Kappa(DOMAIN other, other, gold, SUBSET values)
      BY AxisKappaIs, Zenon
    <3> QED
      BY <1>2, <2>3, <3>1, <3>2, Zenon
  <2>7. Tells(Kappa(posts, gold, other, categories), Disagreements(gold, other))
    BY <1>3, <2>4 DEF Measures, Tells, Pair
  <2> QED
    BY <2>5, <2>6, <2>7
<1>6. /\ Tells(AxisKappa("multi", gold, other, values), Disagreements(gold, other))
      /\ AxisKappa("multi", gold, other, values) = AxisKappa("multi", other, gold, values)
  <2> DEFINE D == Given(gold, other, values)
             kappas == ValueKappas(gold, other, values)
  <2>1. IsFiniteSet(D) /\ D = Given(other, gold, values)
    <3>1. D \in SUBSET values
      BY DEF Given
    <3>2. D = Given(other, gold, values)
      BY <1>2 DEF Given
    <3> QED
      BY <3>1, <3>2, FS_Subset
  <2>2. PICK differ : differ = [v \in D |-> Differ(posts, Marked(posts, gold, v), Marked(posts, other, v))]
    OBVIOUS
  <2>3. DOMAIN kappas = D
    BY DEF ValueKappas
  <2>4. ASSUME NEW v \in D PROVE Measures(kappas[v], differ[v])
    <3>1. kappas[v] = Kappa(posts, Marked(posts, gold, v), Marked(posts, other, v), BOOLEAN)
      BY <1>2, Zenon DEF ValueKappas
    <3>2. differ[v] = Differ(posts, Marked(posts, gold, v), Marked(posts, other, v))
      BY <2>2, Zenon
    <3> QED
      BY <1>2, <3>1, <3>2, ValueTells
  <2>5. kappas = ValueKappas(other, gold, values)
    <3>1. ASSUME NEW v \in D
          PROVE  Kappa(posts, Marked(posts, gold, v), Marked(posts, other, v), BOOLEAN)
                   = Kappa(posts, Marked(posts, other, v), Marked(posts, gold, v), BOOLEAN)
      BY <1>2, KappaIsSymmetric
    <3>2. kappas = [v \in D |-> Kappa(posts, Marked(posts, gold, v), Marked(posts, other, v), BOOLEAN)]
      BY <1>2 DEF ValueKappas
    <3>3. ValueKappas(other, gold, values)
            = [v \in D |-> Kappa(posts, Marked(posts, other, v), Marked(posts, gold, v), BOOLEAN)]
      BY <1>2, <2>1 DEF ValueKappas
    <3> HIDE DEF D, kappas
    <3> QED
      BY <3>1, <3>2, <3>3
  <2>6. {v \in D : differ[v] # {}} = {} <=> Disagreements(gold, other) = {}
    <3>1. ASSUME NEW v \in D
          PROVE  differ[v] = {} <=> \A i \in posts : v \in gold[i] <=> v \in other[i]
      <4>1. differ[v] = Differ(posts, Marked(posts, gold, v), Marked(posts, other, v))
        BY <2>2, Zenon
      <4> QED
        BY <4>1, ValueDiffers
    <3>2. \A i \in posts : \A v \in gold[i] \cup other[i] : v \in D
      BY <1>2, <1>4 DEF Given
    <3>3. ASSUME \A v \in D : \A i \in posts : v \in gold[i] <=> v \in other[i], NEW i \in posts
          PROVE  gold[i] = other[i]
      <4>1. \A v \in gold[i] : v \in other[i]
        BY <3>2, <3>3
      <4>2. \A v \in other[i] : v \in gold[i]
        BY <3>2, <3>3
      <4> QED
        BY <4>1, <4>2
    <3>4. Disagreements(gold, other) = {} <=> \A i \in posts : gold[i] = other[i]
      BY <1>2 DEF Disagreements
    <3>5. (\A v \in D : \A i \in posts : v \in gold[i] <=> v \in other[i])
            <=> Disagreements(gold, other) = {}
      BY <3>3, <3>4
    <3> HIDE DEF D
    <3>6. {v \in D : differ[v] # {}} = {} <=> \A v \in D : differ[v] = {}
      OBVIOUS
    <3> QED
      BY <3>1, <3>5, <3>6
  <2>7. Tells(Mean(kappas), {v \in D : differ[v] # {}})
    <3> HIDE DEF D, kappas
    <3> QED
      BY <2>1, <2>3, <2>4, MeanTells
  <2>8. Tells(Mean(kappas), Disagreements(gold, other))
    BY <2>6, <2>7 DEF Tells
  <2>9. AxisKappa("multi", gold, other, values) = Mean(kappas)
    BY AxisKappaIs, Zenon
  <2>10. AxisKappa("multi", other, gold, values) = Mean(ValueKappas(other, gold, values))
    BY AxisKappaIs, Zenon
  <2> HIDE DEF kappas
  <2> QED
    BY <2>5, <2>8, <2>9, <2>10
<1>7. PICK kappa : kappa = AxisKappa(kind, gold, other, values)
  OBVIOUS
<1>8. Tells(kappa, Disagreements(gold, other)) /\ AxisKappa(kind, other, gold, values) = kappa
  BY <1>5, <1>6, <1>7
<1>9. Equal(kappa, kappa)
  BY DEF Equal
<1>10. /\ kappa[2] > 0 /\ kappa[1] <= kappa[2]
       /\ Equal(kappa, One) <=> Disagreements(gold, other) = {}
  BY <1>8 DEF Tells, Pair, Equal, One
<1> QED
  BY <1>7, <1>8, <1>9, <1>10

\* Sets that have nothing in common have together as many elements as each.
Gathered(part, T) == UNION {part[x] : x \in T}

LEMMA SumOfSizes ==
  ASSUME NEW S, IsFiniteSet(S), NEW W, IsFiniteSet(W), NEW part, NEW w,
         \A x \in S : part[x] \in SUBSET W,
         \A x, y \in S : x # y => part[x] \cap part[y] = {},
         \A x \in S : w[x] = Cardinality(part[x])
  PROVE  SumFunctionOnSet(w, S) = Cardinality(Gathered(part, S))
<1> DEFINE Good == {T \in SUBSET S : SumFunctionOnSet(w, T) = Cardinality(Gathered(part, T))}
<1>1. \A x \in S : IsFiniteSet(part[x]) /\ w[x] \in Nat
  BY FS_Subset, FS_CardinalityType
<1>2. Hereditary(Good, S)
  <2> SUFFICES ASSUME NEW T \in SUBSET S, \A x \in T : T \ {x} \in Good
               PROVE  T \in Good
    BY DEF Hereditary
  <2>1. CASE T = {}
    <3>1. Gathered(part, T) = {}
      BY <2>1 DEF Gathered
    <3> QED
      BY <2>1, <3>1, SumEmpty, FS_EmptySet
  <2>2. CASE T # {}
    <3>1. PICK x \in T : TRUE
      BY <2>2
    <3>2. PICK R : R = T \ {x}
      OBVIOUS
    <3>3. R \in Good /\ R \in SUBSET S /\ x \in S
      BY <3>1, <3>2
    <3>4. Summable(T, w)
      BY <1>1, FS_Subset DEF Summable
    <3>5. SumFunctionOnSet(w, T) = w[x] + SumFunctionOnSet(w, R)
      BY <3>1, <3>2, <3>4, SumLess
    <3>6. Gathered(part, T) = part[x] \cup Gathered(part, R)
      BY <3>1, <3>2 DEF Gathered
    <3>7. part[x] \cap Gathered(part, R) = {}
      BY <3>1, <3>2, <3>3 DEF Gathered
    <3>8. IsFiniteSet(part[x]) /\ IsFiniteSet(Gathered(part, R))
      <4>1. Gathered(part, R) \in SUBSET W
        BY <3>3 DEF Gathered
      <4> QED
        BY <1>1, <3>3, <4>1, FS_Subset
    <3>9. PICK A, B : A = part[x] /\ B = Gathered(part, R)
      OBVIOUS
    <3>10. Cardinality(A \cup B) = Cardinality(A) + Cardinality(B) - Cardinality(A \cap B)
      BY <3>8, <3>9, FS_Union
    <3>11. Cardinality(A) \in Nat /\ Cardinality(B) \in Nat /\ Cardinality(A \cap B) = 0
      BY <3>7, <3>8, <3>9, FS_CardinalityType, FS_EmptySet
    <3>12. Cardinality(A \cup B) = Cardinality(A) + Cardinality(B)
      BY <3>10, <3>11
    <3>13. w[x] = Cardinality(A) /\ SumFunctionOnSet(w, R) = Cardinality(B)
      BY <3>3, <3>9
    <3>14. SumFunctionOnSet(w, T) = Cardinality(Gathered(part, T))
      BY <3>5, <3>6, <3>9, <3>12, <3>13
    <3> QED
      BY <3>14
  <2> QED
    BY <2>1, <2>2
<1> HIDE DEF Good
<1>3. S \in Good
  BY <1>2, BySize
<1> QED
  BY <1>3 DEF Good

\* A set and what its elements are called have the same size.
LEMMA SameSize ==
  ASSUME NEW P, IsFiniteSet(P), NEW V, NEW name, DOMAIN name = P,
         \A x, y \in P : name[x] = name[y] => x = y,
         V = {name[x] : x \in P}
  PROVE  Cardinality(V) = Cardinality(P)
<1> DEFINE f == [x \in P |-> name[x]]
<1>1. f \in [P -> V]
  OBVIOUS
<1>2. f \in Bijection(P, V)
  <2>1. f \in Injection(P, V)
    BY <1>1 DEF Injection, IsInjective
  <2>2. f \in Surjection(P, V)
    BY <1>1 DEF Surjection
  <2> QED
    BY <2>1, <2>2 DEF Bijection
<1> QED
  BY <1>2, FS_Bijection DEF ExistsBijection

\* A proposal of a post, sure enough to be in a bin.
Told(pred, p) == pred[p[1]][p[2]]

Spoken(gold, pred) == UNION {{<<i, k>> : k \in DOMAIN pred[i]} : i \in Decided(gold)}

HalfSure(gold, pred) == {p \in Spoken(gold, pred) : Told(pred, p).confidence >= 50}

RightOnes(gold, pred) == {p \in HalfSure(gold, pred) : Told(pred, p).value \in gold[p[1]]}

LEMMA JudgedIs ==
  ASSUME NEW gold, NEW pred
  PROVE  /\ DOMAIN Judged(gold, pred) = Spoken(gold, pred)
         /\ \A p \in Spoken(gold, pred) :
              /\ Judged(gold, pred)[p].confidence = Told(pred, p).confidence
              /\ Judged(gold, pred)[p].right <=> Told(pred, p).value \in gold[p[1]]
<1>1. Judged(gold, pred)
        = [p \in Spoken(gold, pred) |-> [confidence |-> Told(pred, p).confidence,
                                         right |-> Told(pred, p).value \in gold[p[1]]]]
  BY Zenon DEF Judged, Spoken, Told
<1>2. DOMAIN Judged(gold, pred) = Spoken(gold, pred)
  BY <1>1
<1>3. ASSUME NEW p \in Spoken(gold, pred)
      PROVE  /\ Judged(gold, pred)[p].confidence = Told(pred, p).confidence
             /\ Judged(gold, pred)[p].right <=> Told(pred, p).value \in gold[p[1]]
  <2>1. Judged(gold, pred)[p] = [confidence |-> Told(pred, p).confidence,
                                 right |-> Told(pred, p).value \in gold[p[1]]]
    BY <1>1, Zenon
  <2>2. Judged(gold, pred)[p].confidence = Told(pred, p).confidence
    BY <2>1
  <2>3. Judged(gold, pred)[p].right = (Told(pred, p).value \in gold[p[1]])
    <3>1. PICK r : r = (Told(pred, p).value \in gold[p[1]])
      OBVIOUS
    <3>2. PICK c : c = Told(pred, p).confidence
      OBVIOUS
    <3>3. Judged(gold, pred)[p] = [confidence |-> c, right |-> r]
      BY <2>1, <3>1, <3>2, Zenon
    <3>4. Judged(gold, pred)[p].right = r
      BY <3>3
    <3> QED
      BY <3>1, <3>4, Zenon
  <2> QED
    BY <2>2, <2>3, Zenon
<1> QED
  BY <1>2, <1>3, Zenon

Sure(items, p) == items[p].confidence \in Int /\ items[p].confidence <= 100

LEMMA OneBin ==
  ASSUME NEW items, \A p \in DOMAIN items : Sure(items, p)
  PROVE  /\ \A k, l \in 1 .. 5 : k # l => Inside(items, k) \cap Inside(items, l) = {}
         /\ \A p \in DOMAIN items : items[p].confidence >= 50 <=> \E k \in 1 .. 5 : p \in Inside(items, k)
         /\ \A k \in 1 .. 5 : Inside(items, k) \in SUBSET DOMAIN items
<1>1. /\ Bins[1] = 50 /\ Bins[2] = 60 /\ Bins[3] = 70 /\ Bins[4] = 80 /\ Bins[5] = 90 /\ Bins[6] = 101
  BY DEF Bins
<1>2. ASSUME NEW p \in DOMAIN items, NEW c \in Int, c = items[p].confidence, c <= 100
      PROVE  /\ p \in Inside(items, 1) <=> 50 <= c /\ c < 60
             /\ p \in Inside(items, 2) <=> 60 <= c /\ c < 70
             /\ p \in Inside(items, 3) <=> 70 <= c /\ c < 80
             /\ p \in Inside(items, 4) <=> 80 <= c /\ c < 90
             /\ p \in Inside(items, 5) <=> 90 <= c /\ c < 101
  <2>1. /\ 1 + 1 = 2 /\ 2 + 1 = 3 /\ 3 + 1 = 4 /\ 4 + 1 = 5 /\ 5 + 1 = 6
    OBVIOUS
  <2> QED
    BY <1>1, <1>2, <2>1 DEF Inside
<1>3. \A k \in 1 .. 5 : Inside(items, k) \in SUBSET DOMAIN items
  BY DEF Inside
<1>4. ASSUME NEW k \in 1 .. 5, NEW l \in 1 .. 5, k # l, NEW p \in Inside(items, k)
      PROVE  p \notin Inside(items, l)
  <2>1. p \in DOMAIN items /\ Sure(items, p)
    BY <1>3
  <2>2. PICK c \in Int : c = items[p].confidence /\ c <= 100
    BY <2>1 DEF Sure
  <2>3. k \in {1, 2, 3, 4, 5} /\ l \in {1, 2, 3, 4, 5}
    OBVIOUS
  <2> QED
    BY <1>2, <1>4, <2>1, <2>2, <2>3
<1>5. ASSUME NEW p \in DOMAIN items
      PROVE  items[p].confidence >= 50 <=> \E k \in 1 .. 5 : p \in Inside(items, k)
  <2>1. PICK c \in Int : c = items[p].confidence /\ c <= 100
    BY DEF Sure
  <2>2. c >= 50 => \/ p \in Inside(items, 1) \/ p \in Inside(items, 2) \/ p \in Inside(items, 3)
                   \/ p \in Inside(items, 4) \/ p \in Inside(items, 5)
    BY <1>2, <2>1
  <2>3. ASSUME NEW k \in 1 .. 5, p \in Inside(items, k) PROVE c >= 50
    <3>1. k \in {1, 2, 3, 4, 5}
      OBVIOUS
    <3> QED
      BY <1>2, <2>1, <2>3, <3>1
  <2>4. 1 \in 1 .. 5 /\ 2 \in 1 .. 5 /\ 3 \in 1 .. 5 /\ 4 \in 1 .. 5 /\ 5 \in 1 .. 5
    OBVIOUS
  <2> QED
    BY <2>1, <2>2, <2>3, <2>4
<1> QED
  BY <1>3, <1>4, <1>5

\* Posts with at most so many proposals, of different values and at most certain.
Outspoken(gold, pred, n, most) ==
  /\ DOMAIN gold = 1 .. n
  /\ \A i \in 1 .. n :
       /\ DOMAIN pred[i] \in SUBSET (1 .. most)
       /\ \A k \in DOMAIN pred[i] : pred[i][k].confidence \in Int /\ pred[i][k].confidence <= 100
       /\ \A k, l \in DOMAIN pred[i] : k # l => pred[i][k].value # pred[i][l].value

LEMMA SpokenIs ==
  ASSUME NEW n \in Nat, NEW most \in Nat, NEW gold, NEW pred, Outspoken(gold, pred, n, most)
  PROVE  /\ IsFiniteSet(Spoken(gold, pred)) /\ IsFiniteSet(Decided(gold))
         /\ \A p \in Spoken(gold, pred) :
              /\ p[1] \in Decided(gold) /\ p[1] \in 1 .. n /\ p[2] \in DOMAIN pred[p[1]] /\ p = <<p[1], p[2]>>
              /\ Told(pred, p).confidence \in Int /\ Told(pred, p).confidence <= 100
         /\ \A i \in Decided(gold) : \A k \in DOMAIN pred[i] : <<i, k>> \in Spoken(gold, pred)
<1>1. Decided(gold) \in SUBSET (1 .. n)
  BY DEF Decided, Outspoken
<1>2. ASSUME NEW p \in Spoken(gold, pred)
      PROVE  p[1] \in Decided(gold) /\ p[1] \in 1 .. n /\ p[2] \in DOMAIN pred[p[1]] /\ p = <<p[1], p[2]>>
  BY <1>1 DEF Spoken
<1>3. ASSUME NEW p \in Spoken(gold, pred)
      PROVE  /\ Told(pred, p).confidence \in Int /\ Told(pred, p).confidence <= 100
             /\ p \in (1 .. n) \X (1 .. most)
  <2>1. p[2] \in 1 .. most
    BY <1>2 DEF Outspoken
  <2> QED
    BY <1>2, <2>1 DEF Outspoken, Told
<1>4. IsFiniteSet((1 .. n) \X (1 .. most)) /\ IsFiniteSet(1 .. n)
  <2>1. IsFiniteSet(1 .. n) /\ IsFiniteSet(1 .. most)
    BY FS_Interval
  <2> QED
    BY <2>1, FS_Product
<1>5. Spoken(gold, pred) \in SUBSET ((1 .. n) \X (1 .. most))
  BY <1>3
<1>6. IsFiniteSet(Spoken(gold, pred)) /\ IsFiniteSet(Decided(gold))
  <2> HIDE DEF Spoken
  <2> QED
    BY <1>1, <1>4, <1>5, FS_Subset
<1>7. \A i \in Decided(gold) : \A k \in DOMAIN pred[i] : <<i, k>> \in Spoken(gold, pred)
  BY DEF Spoken
<1> QED
  BY <1>2, <1>3, <1>6, <1>7

OfPost(H, i) == {q \in H : q[1] = i}
ValuesOf(H, pred, i) == {Told(pred, q).value : q \in OfPost(H, i)}

\* Proposals are counted post by post, by the values they are of.
LEMMA CountedByPost ==
  ASSUME NEW n \in Nat, NEW most \in Nat, NEW gold, NEW pred, Outspoken(gold, pred, n, most),
         NEW H \in SUBSET Spoken(gold, pred), NEW w,
         \A i \in Decided(gold) : w[i] = Cardinality(ValuesOf(H, pred, i))
  PROVE  SumFunctionOnSet(w, Decided(gold)) = Cardinality(H)
<1>1. /\ IsFiniteSet(H) /\ IsFiniteSet(Decided(gold))
      /\ \A p \in H : /\ p[1] \in Decided(gold) /\ p[1] \in 1 .. n
                      /\ p[2] \in DOMAIN pred[p[1]] /\ p = <<p[1], p[2]>>
  BY SpokenIs, FS_Subset
<1>2. PICK part : part = [i \in Decided(gold) |-> OfPost(H, i)]
  OBVIOUS
<1>3. \A i \in Decided(gold) : part[i] \in SUBSET H
  BY <1>2 DEF OfPost
<1>4. \A i, j \in Decided(gold) : i # j => part[i] \cap part[j] = {}
  BY <1>2 DEF OfPost
<1>5. Gathered(part, Decided(gold)) = H
  <2>1. \A p \in H : p \in part[p[1]]
    BY <1>1, <1>2 DEF OfPost
  <2> QED
    BY <1>1, <1>3, <2>1 DEF Gathered
<1>6. ASSUME NEW i \in Decided(gold) PROVE w[i] = Cardinality(part[i])
  <2>1. PICK name : name = [q \in part[i] |-> Told(pred, q).value]
    OBVIOUS
  <2>2. ASSUME NEW p \in part[i], NEW q \in part[i], name[p] = name[q] PROVE p = q
    <3>1. p \in H /\ q \in H /\ p[1] = i /\ q[1] = i
      BY <1>2 DEF OfPost
    <3>2. pred[i][p[2]].value = pred[i][q[2]].value
      BY <2>1, <2>2, <3>1 DEF Told
    <3>3. i \in 1 .. n /\ p[2] \in DOMAIN pred[i] /\ q[2] \in DOMAIN pred[i]
      BY <1>1, <3>1
    <3>4. p[2] = q[2]
      BY <3>2, <3>3 DEF Outspoken
    <3> QED
      BY <1>1, <3>1, <3>4
  <2>3. ValuesOf(H, pred, i) = {name[q] : q \in part[i]}
    BY <1>2, <2>1 DEF ValuesOf
  <2>4. IsFiniteSet(part[i]) /\ DOMAIN name = part[i]
    BY <1>1, <1>3, <2>1, FS_Subset
  <2>5. Cardinality(ValuesOf(H, pred, i)) = Cardinality(part[i])
    BY <2>2, <2>3, <2>4, SameSize
  <2> QED
    BY <2>5
<1>7. SumFunctionOnSet(w, Decided(gold)) = Cardinality(Gathered(part, Decided(gold)))
  BY <1>1, <1>3, <1>4, <1>6, SumOfSizes
<1> QED
  BY <1>5, <1>7

\* How many of some proposals are in each bin.
Binned(w, H, gold, pred) ==
  \A k \in 1 .. 5 : w[k] = Cardinality(H \cap Inside(Judged(gold, pred), k))

\* Proposals that are half sure are counted bin by bin.
LEMMA CountedByBin ==
  ASSUME NEW n \in Nat, NEW most \in Nat, NEW gold, NEW pred, Outspoken(gold, pred, n, most),
         NEW H \in SUBSET HalfSure(gold, pred), NEW w, Binned(w, H, gold, pred)
  PROVE  SumFunctionOnSet(w, 1 .. 5) = Cardinality(H)
<1> DEFINE items == Judged(gold, pred)
<1>1. DOMAIN items = Spoken(gold, pred)
      /\ \A p \in Spoken(gold, pred) : items[p].confidence = Told(pred, p).confidence
  BY JudgedIs
<1>2. \A p \in DOMAIN items : Sure(items, p)
  BY <1>1, SpokenIs DEF Sure
<1>3. H \in SUBSET Spoken(gold, pred) /\ \A p \in H : items[p].confidence >= 50
  BY <1>1 DEF HalfSure
<1>4. IsFiniteSet(H)
  BY <1>3, SpokenIs, FS_Subset
<1> HIDE DEF items
<1>5. PICK part : part = [k \in 1 .. 5 |-> H \cap Inside(items, k)]
  OBVIOUS
<1>6. \A k \in 1 .. 5 : part[k] \in SUBSET H
  BY <1>5
<1>7. \A k, l \in 1 .. 5 : k # l => part[k] \cap part[l] = {}
  BY <1>2, <1>5, OneBin
<1>8. Gathered(part, 1 .. 5) = H
  <2>1. ASSUME NEW p \in H PROVE \E k \in 1 .. 5 : p \in part[k]
    BY <1>1, <1>2, <1>3, <1>5, OneBin
  <2> QED
    BY <1>6, <2>1 DEF Gathered
<1>9. \A k \in 1 .. 5 : w[k] = Cardinality(part[k])
  BY <1>5 DEF items, Binned
<1>10. IsFiniteSet(1 .. 5)
  <2>1. 1 \in Int /\ 5 \in Int
    OBVIOUS
  <2> QED
    BY <2>1, FS_Interval
<1>11. SumFunctionOnSet(w, 1 .. 5) = Cardinality(Gathered(part, 1 .. 5))
  BY <1>4, <1>6, <1>7, <1>9, <1>10, SumOfSizes
<1> QED
  BY <1>8, <1>11

LEMMA FoldIsSum == ASSUME NEW w PROVE FoldFunction(+, 0, w) = SumFunctionOnSet(w, DOMAIN w)
BY DEF FoldFunction, SumFunctionOnSet

\* The bins have together every prediction that is at least half sure, and as many right
\* ones as the axes have true positives: for any posts and opinions of different values.
THEOREM BinsAreAlwaysComplete ==
  ASSUME NEW n \in Nat, NEW values, NEW confidences \in SUBSET (0 .. 100), NEW most \in Nat
  PROVE  BinsAreComplete(n, values, confidences, most)
<1> DEFINE opinions == {s \in SeqOf(Proposal(values, confidences), most) :
                          \A i, j \in DOMAIN s : i # j => s[i].value # s[j].value}
<1> SUFFICES ASSUME NEW gold \in [1 .. n -> SUBSET values \cup {{Unmarked}}],
                    NEW pred \in [1 .. n -> opinions]
             PROVE  LET bins == Calibration(Judged(gold, pred))
                        Total(f) == FoldFunction(+, 0, f)
                        of(i) == {p.value : p \in {q \in Range(pred[i]) : q.confidence >= Bins[1]}}
                    IN  /\ Total([k \in DOMAIN bins |-> bins[k].n])
                             = Total([i \in Decided(gold) |-> Cardinality(of(i))])
                        /\ Total([k \in DOMAIN bins |-> bins[k].right])
                             = Total([i \in Decided(gold) |-> Cardinality(of(i) \cap gold[i])])
  BY DEF BinsAreComplete
<1> DEFINE bins == Calibration(Judged(gold, pred))
           of(i) == {p.value : p \in {q \in Range(pred[i]) : q.confidence >= Bins[1]}}
           items == Judged(gold, pred)
           numbers == [k \in DOMAIN bins |-> bins[k].n]
           rights == [k \in DOMAIN bins |-> bins[k].right]
           told == [i \in Decided(gold) |-> Cardinality(of(i))]
           true == [i \in Decided(gold) |-> Cardinality(of(i) \cap gold[i])]
<1>1. Outspoken(gold, pred, n, most)
  <2>1. ASSUME NEW i \in 1 .. n
        PROVE  /\ DOMAIN pred[i] \in SUBSET (1 .. most)
               /\ \A k \in DOMAIN pred[i] : pred[i][k].confidence \in Int /\ pred[i][k].confidence <= 100
               /\ \A k, l \in DOMAIN pred[i] : k # l => pred[i][k].value # pred[i][l].value
    <3>1. pred[i] \in opinions
      OBVIOUS
    <3>2. PICK m \in 0 .. most : pred[i] \in [1 .. m -> Proposal(values, confidences)]
      BY <3>1 DEF SeqOf
    <3>3. DOMAIN pred[i] = 1 .. m /\ \A k \in 1 .. m : pred[i][k] \in Proposal(values, confidences)
      BY <3>2
    <3>4. \A x \in Proposal(values, confidences) : x.confidence \in confidences
      BY DEF Proposal
    <3>5. \A c \in confidences : c \in Int /\ c <= 100
      OBVIOUS
    <3>6. 1 .. m \in SUBSET (1 .. most)
      OBVIOUS
    <3> QED
      BY <3>1, <3>3, <3>4, <3>5, <3>6
  <2> QED
    BY <2>1 DEF Outspoken
<1>2. Len(Bins) - 1 = 5 /\ Bins[1] = 50
  BY DEF Bins
<1>3. /\ DOMAIN bins = 1 .. 5
      /\ \A k \in 1 .. 5 : /\ bins[k].n = Cardinality(Inside(items, k))
                           /\ bins[k].right = Cardinality(Right(items, Inside(items, k)))
  BY <1>2 DEF Calibration
<1>4. /\ DOMAIN items = Spoken(gold, pred)
      /\ \A p \in Spoken(gold, pred) :
           /\ items[p].confidence = Told(pred, p).confidence
           /\ items[p].right <=> Told(pred, p).value \in gold[p[1]]
  BY JudgedIs
<1>5. \A p \in DOMAIN items : Sure(items, p)
  BY <1>1, <1>4, SpokenIs DEF Sure
<1> HIDE DEF bins, items
<1>6. ASSUME NEW k \in 1 .. 5
      PROVE  /\ numbers[k] = Cardinality(HalfSure(gold, pred) \cap Inside(items, k))
             /\ rights[k] = Cardinality(RightOnes(gold, pred) \cap Inside(items, k))
  <2>1. Inside(items, k) \in SUBSET HalfSure(gold, pred)
    BY <1>4, <1>5, OneBin DEF HalfSure
  <2>2. HalfSure(gold, pred) \cap Inside(items, k) = Inside(items, k)
    BY <2>1
  <2>3. Right(items, Inside(items, k)) = RightOnes(gold, pred) \cap Inside(items, k)
    <3>1. \A p \in Inside(items, k) : items[p].right <=> Told(pred, p).value \in gold[p[1]]
      BY <1>4, <2>1 DEF HalfSure
    <3> QED
      BY <2>1, <3>1 DEF Right, RightOnes
  <2> QED
    BY <1>3, <2>2, <2>3
<1>7. ASSUME NEW i \in Decided(gold)
      PROVE  /\ of(i) = ValuesOf(HalfSure(gold, pred), pred, i)
             /\ of(i) \cap gold[i] = ValuesOf(RightOnes(gold, pred), pred, i)
  <2>1. i \in 1 .. n
    BY <1>1 DEF Decided, Outspoken
  <2>2. of(i) = {pred[i][k].value : k \in {l \in DOMAIN pred[i] : pred[i][l].confidence >= 50}}
    BY <1>2 DEF Range
  <2>3. ASSUME NEW p \in OfPost(HalfSure(gold, pred), i)
        PROVE  p[2] \in DOMAIN pred[i] /\ Told(pred, p) = pred[i][p[2]] /\ pred[i][p[2]].confidence >= 50
    BY <1>1, SpokenIs DEF OfPost, HalfSure, Told
  <2>4. ASSUME NEW k \in DOMAIN pred[i], pred[i][k].confidence >= 50
        PROVE  <<i, k>> \in OfPost(HalfSure(gold, pred), i) /\ Told(pred, <<i, k>>) = pred[i][k]
    <3>1. <<i, k>> \in Spoken(gold, pred)
      BY <1>1, SpokenIs
    <3> QED
      BY <2>4, <3>1 DEF OfPost, HalfSure, Told
  <2>5. of(i) = ValuesOf(HalfSure(gold, pred), pred, i)
    <3>1. ASSUME NEW v \in of(i) PROVE v \in ValuesOf(HalfSure(gold, pred), pred, i)
      <4>1. PICK k \in DOMAIN pred[i] : pred[i][k].confidence >= 50 /\ v = pred[i][k].value
        BY <2>2
      <4> QED
        BY <2>4, <4>1 DEF ValuesOf
    <3>2. ASSUME NEW v \in ValuesOf(HalfSure(gold, pred), pred, i) PROVE v \in of(i)
      BY <2>2, <2>3 DEF ValuesOf
    <3> HIDE DEF of
    <3> QED
      BY <3>1, <3>2
  <2>6. ValuesOf(RightOnes(gold, pred), pred, i) = ValuesOf(HalfSure(gold, pred), pred, i) \cap gold[i]
    <3>1. OfPost(RightOnes(gold, pred), i)
            = {p \in OfPost(HalfSure(gold, pred), i) : Told(pred, p).value \in gold[i]}
      BY DEF OfPost, RightOnes
    <3> QED
      BY <3>1 DEF ValuesOf
  <2> QED
    BY <2>5, <2>6
<1>8. /\ HalfSure(gold, pred) \in SUBSET Spoken(gold, pred)
      /\ RightOnes(gold, pred) \in SUBSET HalfSure(gold, pred)
      /\ RightOnes(gold, pred) \in SUBSET Spoken(gold, pred)
  BY DEF HalfSure, RightOnes
<1>9. /\ DOMAIN numbers = 1 .. 5 /\ DOMAIN rights = 1 .. 5
      /\ DOMAIN told = Decided(gold) /\ DOMAIN true = Decided(gold)
  BY <1>3
<1>10. /\ \A i \in Decided(gold) : told[i] = Cardinality(ValuesOf(HalfSure(gold, pred), pred, i))
       /\ \A i \in Decided(gold) : true[i] = Cardinality(ValuesOf(RightOnes(gold, pred), pred, i))
  BY <1>7
<1> HIDE DEF numbers, rights, told, true
<1>11. /\ SumFunctionOnSet(numbers, 1 .. 5) = Cardinality(HalfSure(gold, pred))
       /\ SumFunctionOnSet(rights, 1 .. 5) = Cardinality(RightOnes(gold, pred))
  <2>1. /\ HalfSure(gold, pred) \in SUBSET HalfSure(gold, pred)
        /\ Binned(numbers, HalfSure(gold, pred), gold, pred)
        /\ Binned(rights, RightOnes(gold, pred), gold, pred)
    BY <1>6 DEF items, Binned
  <2>2. SumFunctionOnSet(numbers, 1 .. 5) = Cardinality(HalfSure(gold, pred))
    BY <1>1, <2>1, CountedByBin
  <2>3. SumFunctionOnSet(rights, 1 .. 5) = Cardinality(RightOnes(gold, pred))
    BY <1>1, <1>8, <2>1, CountedByBin
  <2> QED
    BY <2>2, <2>3
<1>12. /\ SumFunctionOnSet(told, Decided(gold)) = Cardinality(HalfSure(gold, pred))
       /\ SumFunctionOnSet(true, Decided(gold)) = Cardinality(RightOnes(gold, pred))
  BY <1>1, <1>8, <1>10, CountedByPost
<1>13. /\ FoldFunction(+, 0, numbers) = SumFunctionOnSet(numbers, DOMAIN numbers)
       /\ FoldFunction(+, 0, rights) = SumFunctionOnSet(rights, DOMAIN rights)
       /\ FoldFunction(+, 0, told) = SumFunctionOnSet(told, DOMAIN told)
       /\ FoldFunction(+, 0, true) = SumFunctionOnSet(true, DOMAIN true)
  BY FoldIsSum
<1>14. /\ FoldFunction(+, 0, numbers) = FoldFunction(+, 0, told)
       /\ FoldFunction(+, 0, rights) = FoldFunction(+, 0, true)
  BY <1>9, <1>11, <1>12, <1>13
<1> QED
  BY <1>14 DEF numbers, rights, told, true, bins

\* What one classifier proposed, sure enough or not: different values, each time
\* with another confidence.
Opinion(s) ==
  /\ IsFiniteSet(DOMAIN s) /\ DOMAIN s \in SUBSET Int
  /\ \A i \in DOMAIN s : s[i].confidence \in Int /\ s[i].value \in Int
  /\ \A i, j \in DOMAIN s : i # j => s[i].value # s[j].value /\ s[i].confidence # s[j].confidence

SurerThan(s, places) == {p \in places \X places : Surer(s, p[1], p[2])}

LEMMA SurenessIsLinear ==
  ASSUME NEW s, Opinion(s), NEW places \in SUBSET DOMAIN s
  PROVE  Linear(SurerThan(s, places), places)
<1>1. \A i \in places : i \in Int /\ s[i].confidence \in Int
  BY DEF Opinion
<1>2. \A i, j \in places : <<i, j>> \in SurerThan(s, places) <=> Surer(s, i, j)
  BY DEF SurerThan
<1>3. ASSUME NEW i \in places PROVE ~Surer(s, i, i)
  BY <1>1 DEF Surer
<1>4. ASSUME NEW i \in places, NEW j \in places, NEW k \in places, Surer(s, i, j), Surer(s, j, k)
      PROVE  Surer(s, i, k)
  <2>1. PICK a \in Int, b \in Int, c \in Int :
          a = s[i].confidence /\ b = s[j].confidence /\ c = s[k].confidence
    BY <1>1
  <2>2. i \in Int /\ j \in Int /\ k \in Int
    BY <1>1
  <2> QED
    BY <1>4, <2>1, <2>2 DEF Surer
<1>5. ASSUME NEW i \in places, NEW j \in places PROVE i = j \/ Surer(s, i, j) \/ Surer(s, j, i)
  <2>1. PICK a \in Int, b \in Int : a = s[i].confidence /\ b = s[j].confidence
    BY <1>1
  <2>2. i \in Int /\ j \in Int
    BY <1>1
  <2> QED
    BY <2>1, <2>2 DEF Surer
<1> QED
  BY <1>2, <1>3, <1>4, <1>5 DEF Linear

\* The first proposal is surer than any other, and none is left out.
Leads(s, places, winners) ==
  /\ DOMAIN winners = 1 .. Cardinality(places)
  /\ {winners[k].value : k \in DOMAIN winners} = {s[i].value : i \in places}
  /\ places # {} => /\ 1 \in DOMAIN winners
                    /\ \E i \in places : /\ winners[1] = s[i]
                                         /\ \A j \in places \ {i} : s[i].confidence > s[j].confidence

LEMMA SurestLeads ==
  ASSUME NEW s, Opinion(s), NEW places \in SUBSET DOMAIN s
  PROVE  Leads(s, places, BySureness(s, places))
<1> DEFINE before == SurerThan(s, places)
           order == Sorted(before, places)
           N == Cardinality(places)
           winners == BySureness(s, places)
<1>1. IsFiniteSet(places)
  BY FS_Subset DEF Opinion
<1>2. N \in Nat /\ (N = 0 <=> places = {})
  BY <1>1, FS_CardinalityType, FS_EmptySet
<1>3. Lists(order, before, places)
  BY <1>1, SurenessIsLinear, SortedLists
<1>4. winners = [k \in 1 .. N |-> s[order[k]]]
  <2>1. \A i, j \in places : <<j, i>> \in before <=> Surer(s, j, i)
    BY DEF SurerThan
  <2> HIDE DEF before
  <2>2. \A i \in places : Below(i, before, places) = {j \in places : Surer(s, j, i)}
    BY <2>1 DEF Below
  <2> DEFINE ranked == [k \in 1 .. Cardinality(places) |->
        CHOOSE i \in places : Cardinality({j \in places : Surer(s, j, i)}) = k - 1]
  <2>5. \A k \in 1 .. Cardinality(places) :
          (CHOOSE i \in places : Cardinality(Below(i, before, places)) = k - 1)
            = (CHOOSE i \in places : Cardinality({j \in places : Surer(s, j, i)}) = k - 1)
    <3>1. ASSUME NEW k \in 1 .. Cardinality(places)
          PROVE  (CHOOSE i \in places : Cardinality(Below(i, before, places)) = k - 1)
                   = (CHOOSE i \in places : Cardinality({j \in places : Surer(s, j, i)}) = k - 1)
      <4>1. \A i : i \in places /\ Cardinality(Below(i, before, places)) = k - 1
               <=> i \in places /\ Cardinality({j \in places : Surer(s, j, i)}) = k - 1
        BY <2>2
      <4> QED
        BY <4>1, Zenon
    <3> QED
      BY <3>1
  <2>6. ranked = order
    BY <2>5 DEF Sorted
  <2>3. winners = [k \in DOMAIN ranked |-> s[ranked[k]]]
    BY DEF BySureness
  <2>4. DOMAIN ranked = 1 .. N
    OBVIOUS
  <2> HIDE DEF ranked, order, N, winners
  <2> QED
    BY <2>3, <2>4, <2>6
<1> HIDE DEF order, N, winners
<1>5. /\ order \in [1 .. N -> places]
      /\ \A i \in places : \E k \in 1 .. N : order[k] = i
      /\ \A k, l \in 1 .. N : <<order[k], order[l]>> \in before <=> k < l
  BY <1>3 DEF Lists, N
<1>6. {winners[k].value : k \in DOMAIN winners} = {s[i].value : i \in places}
  <2>1. DOMAIN winners = 1 .. N /\ \A k \in 1 .. N : winners[k] = s[order[k]] /\ order[k] \in places
    BY <1>4, <1>5
  <2> QED
    BY <1>5, <2>1
<1>7. ASSUME places # {}
      PROVE  \E i \in places : winners[1] = s[i] /\ \A j \in places \ {i} : s[i].confidence > s[j].confidence
  <2>1. 1 \in 1 .. N
    BY <1>2, <1>7
  <2>2. winners[1] = s[order[1]] /\ order[1] \in places
    BY <1>4, <1>5, <2>1
  <2>3. ASSUME NEW j \in places \ {order[1]} PROVE s[order[1]].confidence > s[j].confidence
    <3>1. PICK k \in 1 .. N : order[k] = j
      BY <1>5
    <3>2. 1 < k
      BY <2>3, <3>1
    <3>3. <<order[1], j>> \in before
      BY <1>5, <2>1, <3>1, <3>2
    <3>4. Surer(s, order[1], j)
      BY <3>3 DEF SurerThan
    <3>5. s[order[1]].confidence # s[j].confidence
      BY <2>2, <2>3 DEF Opinion
    <3> QED
      BY <3>4, <3>5 DEF Surer
  <2> QED
    BY <2>2, <2>3
<1>8. places # {} => 1 \in DOMAIN winners
  BY <1>2, <1>4
<1>9. DOMAIN winners = 1 .. N
  BY <1>4
<1> QED
  BY <1>6, <1>7, <1>8, <1>9 DEF Leads, winners, N

\* The records of an opinion, and those of them that show.
Row(o, p) == [opinion |-> o, value |-> p.value, confidence |-> p.confidence]
RowsAt(o, s, places) == {Row(o, s[i]) : i \in places}

Best(winners) ==
  {r \in winners : \A t \in winners \ {r} :
     \/ r.confidence > t.confidence
     \/ r.confidence = t.confidence /\ r.value < t.value}

Shown(kind, winners) == {r.value : r \in IF kind = "single" THEN Best(winners) ELSE winners}

LEMMA OneOpinionShows ==
  ASSUME NEW s, Opinion(s), NEW places \in SUBSET DOMAIN s, NEW o, NEW kind \in {"single", "multi"}
  PROVE  ValuesIn(OfKind(kind, BySureness(s, places))) = Shown(kind, RowsAt(o, s, places))
<1> DEFINE winners == BySureness(s, places)
           predicted == OfKind(kind, winners)
           records == RowsAt(o, s, places)
<1>1. Leads(s, places, winners)
  BY SurestLeads
<1>2. \A i \in places : /\ Row(o, s[i]).value = s[i].value /\ Row(o, s[i]).confidence = s[i].confidence
                        /\ s[i].confidence \in Int
  BY DEF Row, Opinion
<1>3. {r.value : r \in records} = {s[i].value : i \in places}
  BY <1>2 DEF RowsAt
<1> HIDE DEF winners
<1>4. kind = "multi" => ValuesIn(predicted) = Shown(kind, records)
  <2> SUFFICES ASSUME kind = "multi" PROVE ValuesIn(predicted) = Shown(kind, records)
    OBVIOUS
  <2>1. predicted = winners
    BY DEF OfKind
  <2>2. Shown(kind, records) = {r.value : r \in records}
    BY DEF Shown
  <2> QED
    BY <1>1, <1>3, <2>1, <2>2 DEF Leads, ValuesIn
<1>5. kind = "single" /\ places = {} => ValuesIn(predicted) = Shown(kind, records)
  <2> SUFFICES ASSUME kind = "single", places = {} PROVE ValuesIn(predicted) = Shown(kind, records)
    OBVIOUS
  <2>1. DOMAIN winners = {}
    BY <1>1, FS_EmptySet DEF Leads
  <2>2. DOMAIN predicted = {}
    <3>1. winners = <<>>
      <4>1. Cardinality(places) = 0
        BY FS_EmptySet
      <4> QED
        BY <4>1 DEF winners, BySureness
    <3> QED
      BY <2>1, <3>1 DEF OfKind
  <2>3. records = {}
    BY DEF RowsAt
  <2>4. Shown(kind, records) = {}
    BY <2>3 DEF Shown, Best
  <2> QED
    BY <2>2, <2>4 DEF ValuesIn
<1>6. kind = "single" /\ places # {} => ValuesIn(predicted) = Shown(kind, records)
  <2> SUFFICES ASSUME kind = "single", places # {} PROVE ValuesIn(predicted) = Shown(kind, records)
    OBVIOUS
  <2>1. PICK i \in places : /\ winners[1] = s[i]
                            /\ \A j \in places \ {i} : s[i].confidence > s[j].confidence
    BY <1>1 DEF Leads
  <2>2. winners # <<>>
    <3>1. 1 \in DOMAIN winners
      BY <1>1 DEF Leads
    <3>2. 1 \notin DOMAIN <<>>
      OBVIOUS
    <3> QED
      BY <3>1, <3>2
  <2>3. predicted = <<s[i]>>
    BY <2>1, <2>2 DEF OfKind
  <2>4. Best(records) = {Row(o, s[i])}
    <3>1. Row(o, s[i]) \in Best(records)
      <4>1. ASSUME NEW t \in records \ {Row(o, s[i])} PROVE Row(o, s[i]).confidence > t.confidence
        <5>1. PICK j \in places : t = Row(o, s[j])
          BY DEF RowsAt
        <5>2. j # i
          BY <4>1, <5>1
        <5> QED
          BY <1>2, <2>1, <5>1, <5>2
      <4>2. Row(o, s[i]) \in records
        BY DEF RowsAt
      <4> QED
        BY <4>1, <4>2 DEF Best
    <3>2. ASSUME NEW r \in Best(records) PROVE r = Row(o, s[i])
      <4>1. r \in records
        BY DEF Best
      <4>2. PICK j \in places : r = Row(o, s[j])
        BY <4>1 DEF RowsAt
      <4>3. ASSUME j # i PROVE FALSE
        <5>1. s[i].confidence > s[j].confidence /\ s[i].confidence \in Int /\ s[j].confidence \in Int
          BY <1>2, <2>1, <4>3
        <5>2. Row(o, s[i]).confidence > r.confidence /\ r.confidence \in Int /\ Row(o, s[i]).confidence \in Int
          BY <1>2, <4>2, <5>1
        <5>3. Row(o, s[i]) \in records \ {r}
          BY <5>2 DEF RowsAt
        <5>4. r.confidence > Row(o, s[i]).confidence \/ r.confidence = Row(o, s[i]).confidence
          BY <5>3 DEF Best
        <5> QED
          BY <5>2, <5>4
      <4> QED
        BY <4>2, <4>3
    <3> QED
      BY <3>1, <3>2
  <2>5. Shown(kind, records) = {s[i].value}
    BY <1>2, <2>4 DEF Shown
  <2>6. ValuesIn(predicted) = {s[i].value}
    BY <2>3 DEF ValuesIn
  <2> QED
    BY <2>5, <2>6
<1> QED
  BY <1>4, <1>5, <1>6 DEF winners

LEMMA MaterializedIs ==
  ASSUME NEW kind \in {"single", "multi"}, NEW regex, NEW ai, NEW limits,
         NEW priority, priority.regex \in Int, priority.ai \in Int
  PROVE  LET first == Above(regex, limits.regex)
             second == Above(ai, limits.ai)
             published == Materialized(kind, regex, ai, limits, priority)
         IN  /\ first = {} \/ RankedOtherwise(regex, ai, limits, priority) =>
                  published = Shown(kind, RowsAt("ai", ai, second))
             /\ ~(first = {} \/ RankedOtherwise(regex, ai, limits, priority)) =>
                  published = Shown(kind, RowsAt("regex", regex, first))
<1> DEFINE records(opinion, proposals, least) ==
             {[opinion |-> opinion, value |-> p.value, confidence |-> p.confidence] :
                p \in {q \in Range(proposals) : q.confidence >= least}}
           all == records("regex", regex, limits.regex) \cup records("ai", ai, limits.ai)
           winners == {r \in all : \A s \in all : \/ s.opinion = r.opinion
                                                  \/ Outranks(priority, r.opinion, s.opinion)}
           first == Above(regex, limits.regex)
           second == Above(ai, limits.ai)
<1>1. ASSUME NEW o, NEW s, NEW least PROVE records(o, s, least) = RowsAt(o, s, Above(s, least))
  BY DEF Range, RowsAt, Row, Above
<1>2. Materialized(kind, regex, ai, limits, priority) = Shown(kind, winners)
  BY DEF Materialized, Shown, Best
<1>3. all = RowsAt("regex", regex, first) \cup RowsAt("ai", ai, second)
  BY <1>1
<1> HIDE DEF records
<1>4. /\ \A r \in RowsAt("regex", regex, first) : r.opinion = "regex"
      /\ \A r \in RowsAt("ai", ai, second) : r.opinion = "ai"
      /\ first # {} <=> RowsAt("regex", regex, first) # {}
      /\ second # {} <=> RowsAt("ai", ai, second) # {}
  <2> HIDE DEF first, second
  <2>1. \A o, x : Row(o, x).opinion = o
    BY DEF Row
  <2>2. \A r \in RowsAt("regex", regex, first) : r.opinion = "regex"
    BY <2>1 DEF RowsAt
  <2>3. \A r \in RowsAt("ai", ai, second) : r.opinion = "ai"
    BY <2>1 DEF RowsAt
  <2>4. \A o, s, places : /\ \A i \in places : Row(o, s[i]) \in RowsAt(o, s, places)
                          /\ places = {} => RowsAt(o, s, places) = {}
    BY Zenon DEF RowsAt
  <2> QED
    BY <2>2, <2>3, <2>4
<1>5. Outranks(priority, "ai", "regex") <=> ~Outranks(priority, "regex", "ai")
  BY DEF Outranks
<1>6. RankedOtherwise(regex, ai, limits, priority)
        <=> first # {} /\ second # {} /\ Outranks(priority, "ai", "regex")
  BY DEF RankedOtherwise
<1> HIDE DEF first, second, all
<1>7. CASE first = {} \/ RankedOtherwise(regex, ai, limits, priority)
  <2>1. winners = RowsAt("ai", ai, second)
    BY <1>3, <1>4, <1>5, <1>6, <1>7
  <2> QED
    BY <1>2, <1>7, <2>1 DEF first, second
<1>8. CASE ~(first = {} \/ RankedOtherwise(regex, ai, limits, priority))
  <2>1. winners = RowsAt("regex", regex, first)
    BY <1>3, <1>4, <1>5, <1>6, <1>8
  <2> QED
    BY <1>2, <1>8, <2>1 DEF first, second
<1> QED
  BY <1>7, <1>8

LEMMA CombinedIs ==
  ASSUME NEW kind, NEW regex, NEW ai, NEW limits
  PROVE  /\ Above(regex, limits.regex) # {} =>
              Combined(kind, regex, ai, limits)
                = OfKind(kind, BySureness(regex, Above(regex, limits.regex)))
         /\ Above(regex, limits.regex) = {} =>
              Combined(kind, regex, ai, limits) = OfKind(kind, BySureness(ai, Above(ai, limits.ai)))
BY Zenon DEF Combined

\* An evaluation judges the labels that the service would publish, for any proposals,
\* however many, of which no two are equally sure, and for any priorities, but where both
\* classifiers are sure enough and the service ranks the language model first: there it
\* publishes what the model alone is judged by.
THEOREM EvaluationAlwaysJudgesWhatRuns ==
  ASSUME NEW values \in SUBSET Int, NEW confidences \in SUBSET Int, NEW most \in Nat,
         NEW thresholds, NEW priorities \in SUBSET Int
  PROVE  EvaluatesWhatRuns(Proposal(values, confidences), most, thresholds, priorities)
<1> DEFINE opinions == {s \in SeqOf(Proposal(values, confidences), most) :
                          \A i, j \in DOMAIN s : i # j => s[i].value # s[j].value
                                                          /\ s[i].confidence # s[j].confidence}
<1> SUFFICES ASSUME NEW kind \in {"single", "multi"}, NEW regex \in opinions, NEW ai \in opinions,
                    NEW limits \in [regex : thresholds, ai : thresholds],
                    NEW priority \in [regex : priorities, ai : priorities]
             PROVE  Materialized(kind, regex, ai, limits, priority)
                      = ValuesIn(IF RankedOtherwise(regex, ai, limits, priority)
                                 THEN Combined(kind, <<>>, ai, limits)
                                 ELSE Combined(kind, regex, ai, limits))
  BY DEF EvaluatesWhatRuns
<1>1. ASSUME NEW s \in opinions PROVE Opinion(s)
  <2>1. PICK m \in 0 .. most : s \in [1 .. m -> Proposal(values, confidences)]
    BY DEF SeqOf
  <2>2. IsFiniteSet(1 .. m)
    BY FS_Interval
  <2>3. \A x \in Proposal(values, confidences) : x.confidence \in Int /\ x.value \in Int
    BY DEF Proposal
  <2>4. DOMAIN s = 1 .. m /\ \A i \in 1 .. m : s[i] \in Proposal(values, confidences)
    BY <2>1
  <2> QED
    BY <2>2, <2>3, <2>4 DEF Opinion
<1>2. Opinion(regex) /\ Opinion(ai)
  BY <1>1
<1> HIDE DEF opinions
<1> DEFINE first == Above(regex, limits.regex)
           second == Above(ai, limits.ai)
<1>3. first \in SUBSET DOMAIN regex /\ second \in SUBSET DOMAIN ai
  BY DEF Above
<1>4. ValuesIn(OfKind(kind, BySureness(regex, first))) = Shown(kind, RowsAt("regex", regex, first))
  BY <1>2, <1>3, OneOpinionShows
<1>5. ValuesIn(OfKind(kind, BySureness(ai, second))) = Shown(kind, RowsAt("ai", ai, second))
  BY <1>2, <1>3, OneOpinionShows
<1>6. priority.regex \in Int /\ priority.ai \in Int
  OBVIOUS
<1>7. CASE RankedOtherwise(regex, ai, limits, priority)
  <2>1. Above(<<>>, limits.regex) = {}
    BY DEF Above
  <2>2. Combined(kind, <<>>, ai, limits) = OfKind(kind, BySureness(ai, second))
    BY <2>1, CombinedIs
  <2>3. Materialized(kind, regex, ai, limits, priority) = Shown(kind, RowsAt("ai", ai, second))
    BY <1>6, <1>7, MaterializedIs
  <2> QED
    BY <1>5, <1>7, <2>2, <2>3
<1>8. CASE ~RankedOtherwise(regex, ai, limits, priority) /\ first # {}
  <2>1. Combined(kind, regex, ai, limits) = OfKind(kind, BySureness(regex, first))
    BY <1>8, CombinedIs
  <2>2. Materialized(kind, regex, ai, limits, priority) = Shown(kind, RowsAt("regex", regex, first))
    BY <1>6, <1>8, MaterializedIs
  <2> QED
    BY <1>4, <1>8, <2>1, <2>2
<1>9. CASE ~RankedOtherwise(regex, ai, limits, priority) /\ first = {}
  <2>1. Combined(kind, regex, ai, limits) = OfKind(kind, BySureness(ai, second))
    BY <1>9, CombinedIs
  <2>2. Materialized(kind, regex, ai, limits, priority) = Shown(kind, RowsAt("ai", ai, second))
    BY <1>6, <1>9, MaterializedIs
  <2> QED
    BY <1>5, <1>9, <2>1, <2>2
<1> QED
  BY <1>7, <1>8, <1>9

-----------------------------------------------------------------------------
(* What the tools work out *)

\* The tools work out of every corpus and every evaluation that MCTaxonomySync
\* enumerates what they should, with the exceptions that its statements name: an instance
\* of the theorems about any of them.
THEOREM ToolsAreRightHolds == SyncSpec => []ToolsAreRight
<1>1. CorpusIsRight
  <2>1. \A n \in 1 .. 4 : GroupsAreChains(n)
    BY GroupsAreAlwaysChains
  <2>2. /\ IndexMissesNothing(3, {"a", "b"}, 3, 2, {1}, {50, 80})
        /\ IndexMissesNothing(3, {"a"}, 3, 2, {1, 2}, {80})
    <3>1. {50, 80} \in SUBSET (1 .. 100) /\ {80} \in SUBSET (1 .. 100) /\ 3 \in Nat /\ 2 \in Nat \ {0}
      OBVIOUS
    <3> QED
      BY <3>1, IndexAlwaysMissesNothing
  <2>3. TransfersSettle(3, {"topic", "tone"})
    BY TransfersAlwaysSettle
  <2>4. QuotasFill(1 .. 3, 0 .. 6, 0 .. 12, {20, 50})
    <3>1. 1 .. 3 \in SUBSET Int /\ 1 .. 3 # {} /\ IsFiniteSet(1 .. 3)
      <4>1. 3 \in Nat /\ 1 .. 3 \in SUBSET (1 .. 3) /\ 1 \in 1 .. 3
        OBVIOUS
      <4> QED
        BY <4>1, PlacesAreFinite
    <3>2. 0 .. 6 \in SUBSET Nat /\ 0 .. 12 \in SUBSET Nat /\ {20, 50} \in SUBSET Nat
      OBVIOUS
    <3> QED
      BY <3>1, <3>2, QuotasAlwaysFill
  <2> QED
    BY <2>1, <2>2, <2>3, <2>4 DEF CorpusIsRight
<1>2. EvaluationJudgesWhatRuns
  <2>1. /\ {1, 2} \in SUBSET Int /\ {4, 6, 8} \in SUBSET Int /\ 2 \in Nat
        /\ {50, 100} \in SUBSET Int
    OBVIOUS
  <2> QED
    BY <2>1, EvaluationAlwaysJudgesWhatRuns DEF EvaluationJudgesWhatRuns
<1>3. MeasuresAreRight
  <2>1. ASSUME NEW n \in 1 .. 3 PROVE MetricsMeasure(n, {1, 2}) /\ KappaAgrees(n, {1, 2, 3})
    <3>1. n \in Nat \ {0} /\ n \in Nat
      OBVIOUS
    <3>2. IsFiniteSet({1, 2, 3})
      <4>1. 3 \in Nat /\ {1, 2, 3} \in SUBSET (1 .. 3)
        OBVIOUS
      <4> QED
        BY <4>1, PlacesAreFinite
    <3> QED
      BY <3>1, <3>2, MetricsAlwaysMeasure, KappaAlwaysAgrees
  <2>2. ReportAgrees(3, {1, 2})
    <3>1. 3 \in Nat /\ IsFiniteSet({1, 2})
      <4>1. 3 \in Nat /\ {1, 2} \in SUBSET (1 .. 3)
        OBVIOUS
      <4> QED
        BY <4>1, PlacesAreFinite
    <3> QED
      BY <3>1, ReportAlwaysAgrees
  <2>3. /\ BinsAreComplete(2, {1, 2}, {49, 50, 59, 60, 99, 100}, 1)
        /\ BinsAreComplete(1, {1, 2}, {49, 50, 99}, 2)
    <3>1. /\ {49, 50, 59, 60, 99, 100} \in SUBSET (0 .. 100) /\ {49, 50, 99} \in SUBSET (0 .. 100)
          /\ 1 \in Nat /\ 2 \in Nat
      OBVIOUS
    <3> QED
      BY <3>1, BinsAreAlwaysComplete
  <2>4. NoiseSettles(4, {1, 2}, 2)
    <3>1. 4 \in Nat /\ 2 \in Int
      OBVIOUS
    <3> QED
      BY <3>1, NoiseAlwaysSettles
  <2> QED
    BY <2>1, <2>2, <2>3, <2>4 DEF MeasuresAreRight
<1>4. ToolsAreRight
  BY <1>1, <1>2, <1>3 DEF ToolsAreRight
<1> QED
  BY <1>4, PTL

-----------------------------------------------------------------------------
(* Deployment *)

USE DeploymentAssumption

\* The settings of a container were taken from this state or an earlier one.
KeyOf(state, entry) == entry.node \in DOMAIN state.keys /\ entry.key = state.keys[entry.node]

From(state, settings, c) ==
  /\ settings.secret = state.made
  /\ c \in Nodes => c \in DOMAIN state.keys /\ settings.own = state.keys[c]
  /\ c = Core => \A slug \in DOMAIN settings.classifiers : KeyOf(state, settings.classifiers[slug])

\* A later state keeps the secrets and the pairs of an earlier one.
Extends(state, later) ==
  /\ later.made = state.made
  /\ \A n \in DOMAIN state.keys : n \in DOMAIN later.keys /\ later.keys[n] = state.keys[n]

\* A node whose settings exist has its pair in the state.
Known(state, c) == c \in Nodes => c \in DOMAIN state.keys

Typed ==
  /\ plan \in Plans /\ fresh \in Nat
  /\ init.pc \in {"load", "save", "write", "done", "failed"}
  /\ init = [pc |-> init.pc, state |-> init.state, todo |-> init.todo]
  /\ saved \in State \cup {Nothing}
  /\ files = [c \in Containers |-> files[c]]
  /\ read = [c \in Containers |-> read[c]]
  /\ run = [c \in Containers |-> run[c]]

\* What somebody holds was saved before.
NothingHeld ==
  /\ \A c \in Containers : files[c] = Nothing /\ read[c] = Nothing
  /\ password = Nothing /\ DOMAIN rows = {}

AllFrom(state) ==
  /\ \A c \in Containers :
       /\ files[c] # Nothing => From(state, files[c], c)
       /\ read[c] # Nothing => From(state, read[c], c)
  /\ password # Nothing => password = state.made
  /\ \A slug \in DOMAIN rows : KeyOf(state, rows[slug])

HeldWasSaved == IF saved = Nothing THEN NothingHeld ELSE AllFrom(saved)

\* The state init has in its hands.
InHand ==
  /\ init.pc \in {"save", "write"} =>
       /\ init.state \in State /\ init.todo \in Seq(Containers)
       /\ \A n \in Range(plan) : n \in DOMAIN init.state.keys
       /\ \A i \in 1 .. Len(init.todo) : Known(init.state, init.todo[i])
  /\ init.pc = "save" /\ saved # Nothing => Extends(saved, init.state)
  /\ init.pc = "write" => saved = init.state

Awaits(c) == \E i \in 1 .. Len(init.todo) : init.todo[i] = c

\* Once init is past the file of a store, and as long as the store was started, it is there.
Served(s) ==
  \/ run[s] # "down" \/ init.pc = "done"
  \/ init.pc = "write" /\ ~Awaits(s)

StoresServed ==
  /\ \A s \in Stores : Served(s) => saved # Nothing /\ From(saved, files[s], s)
  /\ init.pc = "save" => \A s \in Stores : Awaits(s)

IInv == Typed /\ HeldWasSaved /\ InHand /\ StoresServed

-----------------------------------------------------------------------------
(* Sequences of the elements of a set *)

LEMMA SequenceOfSet ==
  ASSUME NEW S, IsFiniteSet(S)
  PROVE  /\ SetToSeq(S) \in Seq(S)
         /\ \A x \in S : \E i \in 1 .. Len(SetToSeq(S)) : SetToSeq(S)[i] = x
<1> DEFINE n == Cardinality(S)
<1>1. n \in Nat /\ ExistsBijection(1 .. n, S)
  BY FS_CardinalityType
<1>2. \E f \in [1 .. n -> S] : IsInjective(f)
  BY <1>1 DEF ExistsBijection, Bijection, Injection
<1> DEFINE s == SetToSeq(S)
<1>3. s \in [1 .. n -> S] /\ IsInjective(s)
  BY <1>2 DEF SetToSeq
<1> HIDE DEF s
<1>4. s \in Injection(1 .. n, S)
  BY <1>3 DEF Injection
<1>5. Cardinality(1 .. n) = n
  BY <1>1, FS_Interval
<1>6. s \in Surjection(1 .. n, S)
  BY <1>4, <1>5, FS_Injection
<1>7. s \in Seq(S) /\ Len(s) = n
  BY <1>1, <1>3
<1>8. \A x \in S : \E i \in 1 .. n : s[i] = x
  BY <1>6 DEF Surjection
<1> QED
  BY <1>7, <1>8 DEF s

LEMMA PlanIsFinite ==
  ASSUME plan \in Plans
  PROVE  /\ Range(plan) \subseteq Nodes
         /\ IsFiniteSet(Range(plan))
BY FS_Subset

LEMMA OrderNamesAll ==
  ASSUME plan \in Plans
  PROVE  /\ WritingOrder \in Seq(Containers)
         /\ \A i \in 1 .. Len(WritingOrder) :
              WritingOrder[i] \in Range(plan) \cup {Core} \cup Stores
         /\ \A s \in Stores : \E i \in 1 .. Len(WritingOrder) : WritingOrder[i] = s
<1> DEFINE a == SetToSeq(Range(plan))
           b == SetToSeq(Stores)
           All == Range(plan) \cup {Core} \cup Stores
<1>1. a \in Seq(Range(plan)) /\ b \in Seq(Stores)
  BY SequenceOfSet, PlanIsFinite
<1>2. \A s \in Stores : \E i \in 1 .. Len(b) : b[i] = s
  BY SequenceOfSet
<1> HIDE DEF a, b
<1>3. a \in Seq(All) /\ b \in Seq(All) /\ <<Core>> \in Seq(All)
  BY <1>1
<1> DEFINE ac == a \o <<Core>>
<1>4. ac \in Seq(All)
  BY <1>3, ConcatProperties
<1>5. /\ ac \o b \in Seq(All)
      /\ Len(ac \o b) = Len(ac) + Len(b)
      /\ \A i \in 1 .. Len(ac) + Len(b) :
           (ac \o b)[i] = IF i <= Len(ac) THEN ac[i] ELSE b[i - Len(ac)]
  BY <1>3, <1>4, ConcatProperties
<1>6. WritingOrder = ac \o b
  BY DEF WritingOrder, a, b
<1>7. Len(ac) \in Nat /\ Len(b) \in Nat
  BY <1>3, <1>4
<1> HIDE DEF ac
<1>8. All \subseteq Containers
  BY PlanIsFinite DEF Containers
<1>9. WritingOrder \in Seq(All) /\ WritingOrder \in Seq(Containers)
  BY <1>5, <1>6, <1>8
<1>10. \A s \in Stores : \E i \in 1 .. Len(WritingOrder) : WritingOrder[i] = s
  <2> SUFFICES ASSUME NEW s \in Stores
               PROVE  \E i \in 1 .. Len(WritingOrder) : WritingOrder[i] = s
    OBVIOUS
  <2>1. PICK i \in 1 .. Len(b) : b[i] = s
    BY <1>2
  <2> DEFINE j == Len(ac) + i
  <2>2. j \in 1 .. Len(ac) + Len(b) /\ ~(j <= Len(ac)) /\ j - Len(ac) = i
    BY <1>7
  <2> HIDE DEF j
  <2>3. (ac \o b)[j] = s
    BY <1>5, <2>1, <2>2
  <2> QED
    BY <1>5, <1>6, <2>2, <2>3
<1> QED
  BY <1>9, <1>10

-----------------------------------------------------------------------------
(* States *)

LEMMA PairsAreKept ==
  ASSUME plan \in Plans, fresh \in Nat, NEW keys,
         NEW known \in SUBSET Nodes, keys \in [known -> Nat]
  PROVE  /\ NodeKeys(keys, fresh) \in [known \cup Range(plan) -> Nat]
         /\ \A n \in known : NodeKeys(keys, fresh)[n] = keys[n]
<1> DEFINE new == SetToSeq(Range(plan) \ DOMAIN keys)
<1>1. IsFiniteSet(Range(plan) \ DOMAIN keys)
  BY PlanIsFinite, FS_Subset
<1>2. /\ new \in Seq(Range(plan) \ DOMAIN keys)
      /\ \A n \in Range(plan) \ DOMAIN keys : \E i \in DOMAIN new : new[i] = n
  <2> DEFINE S == Range(plan) \ DOMAIN keys
  <2>1. /\ SetToSeq(S) \in Seq(S)
        /\ \A x \in S : \E i \in 1 .. Len(SetToSeq(S)) : SetToSeq(S)[i] = x
    BY <1>1, SequenceOfSet
  <2> HIDE DEF S
  <2>2. DOMAIN SetToSeq(S) = 1 .. Len(SetToSeq(S))
    BY <2>1
  <2> QED
    BY <2>1, <2>2 DEF S
<1>3. DOMAIN new \subseteq Nat
  BY <1>2
<1>4. \A n \in Range(plan) \ DOMAIN keys : (CHOOSE i \in DOMAIN new : new[i] = n) \in Nat
  BY <1>2, <1>3
<1>5. NodeKeys(keys, fresh) =
        [n \in known \cup Range(plan) |->
          IF n \in known THEN keys[n] ELSE fresh + CHOOSE i \in DOMAIN new : new[i] = n]
  BY DEF NodeKeys
<1> HIDE DEF new
<1>6. ASSUME NEW n \in known \cup Range(plan)
      PROVE  (IF n \in known THEN keys[n] ELSE fresh + CHOOSE i \in DOMAIN new : new[i] = n) \in Nat
  <2>1. CASE n \in known
    BY <2>1
  <2>2. CASE n \notin known
    <3>1. (CHOOSE i \in DOMAIN new : new[i] = n) \in Nat
      BY <1>4, <2>2
    <3> QED
      BY <2>2, <3>1
  <2> QED
    BY <2>1, <2>2
<1> QED
  BY <1>5, <1>6

LEMMA LaterKnowsAsMuch ==
  ASSUME NEW state, NEW later, Extends(state, later)
  PROVE  /\ \A c, f : From(state, f, c) => From(later, f, c)
         /\ \A entry : KeyOf(state, entry) => KeyOf(later, entry)
BY DEF Extends, From, KeyOf

LEMMA SettingsAreFrom ==
  ASSUME NEW state, NEW c, Known(state, c), \A n \in Range(plan) : n \in DOMAIN state.keys
  PROVE  From(state, Settings(state, c), c)
<1>1. Settings(state, c).secret = state.made
  BY DEF Settings
<1>2. c \in Nodes => c \in DOMAIN state.keys /\ Settings(state, c).own = state.keys[c]
  BY DEF Settings, Known
<1>3. ASSUME c = Core, NEW slug \in DOMAIN Settings(state, c).classifiers
      PROVE  KeyOf(state, Settings(state, c).classifiers[slug])
  <2>1. Settings(state, c).classifiers = Classifiers(state)
    BY <1>3 DEF Settings
  <2>2. slug \in DOMAIN plan
    BY <1>3, <2>1 DEF Classifiers
  <2>3. plan[slug] \in Range(plan)
    BY <2>2 DEF Range
  <2>4. Classifiers(state)[slug] = [node |-> plan[slug], key |-> state.keys[plan[slug]]]
    BY <2>2 DEF Classifiers
  <2> QED
    BY <2>1, <2>3, <2>4 DEF KeyOf
<1> QED
  BY <1>1, <1>2, <1>3 DEF From

-----------------------------------------------------------------------------
(* Steps of init *)

LEMMA InitIInv == Init => IInv
<1> SUFFICES ASSUME Init PROVE IInv
  OBVIOUS
<1>1. init = [pc |-> "load", state |-> Nothing, todo |-> <<>>]
  BY DEF Init, Resting
<1>2. Typed
  BY <1>1 DEF Init, Typed
<1>3. DOMAIN rows = {}
  BY DEF Init
<1>4. HeldWasSaved
  BY <1>3 DEF Init, HeldWasSaved, NothingHeld
<1>5. InHand
  BY <1>1 DEF InHand
<1>6. StoresServed
  <2>1. \A s \in Stores : run[s] = "down"
    BY DEF Init, Containers
  <2> QED
    BY <1>1, <2>1 DEF StoresServed, Served
<1> QED
  BY <1>2, <1>4, <1>5, <1>6 DEF IInv

\* What the containers hold is left alone.
Outside == <<saved, files, run, read, password, rows>>

LEMMA LoadStep == ASSUME IInv, Load PROVE IInv'
<1> DEFINE old == StateToUse
           state == [old EXCEPT !.keys = NodeKeys(@, fresh)]
<1>1. /\ init.pc = "load" /\ init' = [pc |-> "save", todo |-> WritingOrder, state |-> state]
      /\ UNCHANGED <<plan, Outside>>
  BY DEF Load, Outside
<1>2. plan \in Plans /\ fresh \in Nat /\ saved \in State \cup {Nothing}
  BY DEF IInv, Typed
<1>3. old \in State /\ (saved # Nothing => old = saved)
  <2>1. <<>> \in [{} -> Nat]
    OBVIOUS
  <2>2. [made |-> fresh, keys |-> <<>>] \in State
    BY <1>2, <2>1 DEF State
  <2> QED
    BY <1>2, <2>2 DEF StateToUse
<1>4. fresh' \in Nat
  <2>1. SetToSeq(Nodes) \in Seq(Nodes)
    BY SequenceOfSet
  <2>2. Len(SetToSeq(Nodes)) \in Nat
    BY <2>1
  <2> QED
    BY <1>2, <2>2 DEF Load
<1>5. PICK known \in SUBSET Nodes : old.keys \in [known -> Nat]
  BY <1>3 DEF State
<1> HIDE DEF old
<1>6. /\ state = [made |-> old.made, keys |-> NodeKeys(old.keys, fresh)]
      /\ old.made \in Nat
  BY <1>3 DEF State
<1>7. /\ NodeKeys(old.keys, fresh) \in [known \cup Range(plan) -> Nat]
      /\ \A n \in known : NodeKeys(old.keys, fresh)[n] = old.keys[n]
  BY <1>2, <1>5, PairsAreKept
<1>8. known \cup Range(plan) \in SUBSET Nodes
  BY <1>2, PlanIsFinite
<1> HIDE DEF state
<1>9. /\ state \in State /\ \A n \in Range(plan) : n \in DOMAIN state.keys
      /\ Extends(old, state)
  BY <1>5, <1>6, <1>7, <1>8 DEF State, Extends
<1>10. InHand'
  <2>1. WritingOrder \in Seq(Containers)
    BY <1>2, OrderNamesAll
  <2>2. \A i \in 1 .. Len(WritingOrder) : Known(state, WritingOrder[i])
    BY <1>2, <1>9, OrderNamesAll DEF Known
  <2>3. init'.pc = "save" /\ init'.state = state /\ init'.todo = WritingOrder
    BY <1>1
  <2>4. saved # Nothing => Extends(saved, state)
    BY <1>3, <1>9
  <2>5. \A n \in Range(plan') : n \in DOMAIN state.keys
    BY <1>1, <1>9
  <2>6. \A i \in 1 .. Len(init'.todo) : Known(init'.state, init'.todo[i])
    BY <2>2, <2>3
  <2>7. saved' = saved
    BY <1>1 DEF Outside
  <2> QED
    BY <1>9, <2>1, <2>3, <2>4, <2>5, <2>6, <2>7 DEF InHand, Known
<1>11. StoresServed'
  <2>1. init'.pc = "save" /\ init'.todo = WritingOrder
    BY <1>1
  <2>2. \A s \in Stores : Awaits(s)'
    BY <1>2, <2>1, OrderNamesAll DEF Awaits
  <2>3. \A s \in Stores : Served(s)' => Served(s)
    BY <1>1, <2>1 DEF Served, Outside
  <2> QED
    BY <1>1, <2>1, <2>2, <2>3 DEF IInv, StoresServed, Outside
<1>12. Typed'
  BY <1>1, <1>4 DEF IInv, Typed, Outside
<1>13. HeldWasSaved'
  BY <1>1 DEF IInv, HeldWasSaved, NothingHeld, AllFrom, Outside
<1> QED
  BY <1>10, <1>11, <1>12, <1>13 DEF IInv

LEMMA SaveStep == ASSUME IInv, Save PROVE IInv'
<1> DEFINE state == init.state
<1>1. /\ init.pc = "save" /\ saved' = state
      /\ UNCHANGED <<plan, fresh, files, run, read, password, rows>>
  BY DEF Save
<1>2. init' = [pc |-> "write", state |-> state, todo |-> init.todo]
  BY DEF Save, IInv, Typed
<1>3. /\ state \in State /\ state # Nothing
      /\ saved # Nothing => Extends(saved, state)
  BY <1>1 DEF IInv, InHand
<1> HIDE DEF state
<1>4. Typed'
  BY <1>1, <1>2, <1>3 DEF IInv, Typed
<1>5. HeldWasSaved'
  <2>1. CASE saved = Nothing
    BY <1>1, <1>3, <2>1 DEF IInv, HeldWasSaved, NothingHeld, AllFrom
  <2>2. CASE saved # Nothing
    <3>1. AllFrom(saved)
      BY <2>2 DEF IInv, HeldWasSaved
    <3>2. AllFrom(state)
      BY <1>3, <2>2, <3>1, LaterKnowsAsMuch DEF AllFrom, Extends
    <3> QED
      BY <1>1, <1>3, <3>2 DEF HeldWasSaved, AllFrom
  <2> QED
    BY <2>1, <2>2
<1>6. InHand'
  BY <1>1, <1>2 DEF IInv, InHand, Known, state
<1>7. StoresServed'
  <2>1. \A s \in Stores : Served(s)' => Served(s)
    BY <1>1, <1>2 DEF Served, Awaits, IInv, StoresServed
  <2>2. \A s \in Stores : Served(s) => saved # Nothing /\ From(saved, files[s], s)
    BY DEF IInv, StoresServed
  <2>3. \A s \in Stores : Served(s) => From(state, files[s], s)
    BY <1>3, <2>2, LaterKnowsAsMuch
  <2> QED
    BY <1>1, <1>2, <1>3, <2>1, <2>3 DEF StoresServed
<1> QED
  BY <1>4, <1>5, <1>6, <1>7 DEF IInv

LEMMA WriteStep == ASSUME IInv, WriteFile PROVE IInv'
<1> DEFINE first == Head(init.todo)
           rest == Tail(init.todo)
           given == Settings(init.state, first)
<1>1. /\ init.pc = "write" /\ init.todo # <<>>
      /\ files' = [files EXCEPT ![first] = given]
      /\ UNCHANGED <<plan, fresh, saved, run, read, password, rows>>
  BY DEF WriteFile
<1>2. init' = [pc |-> "write", state |-> init.state, todo |-> rest]
  BY <1>1 DEF WriteFile, IInv, Typed
<1>3. /\ saved = init.state /\ saved \in State /\ saved # Nothing
      /\ init.todo \in Seq(Containers)
      /\ \A n \in Range(plan) : n \in DOMAIN saved.keys
      /\ \A i \in 1 .. Len(init.todo) : Known(saved, init.todo[i])
  BY <1>1 DEF IInv, InHand
<1>4. /\ first \in Containers /\ first = init.todo[1] /\ Len(init.todo) \in Nat \ {0}
      /\ rest \in Seq(Containers) /\ Len(rest) = Len(init.todo) - 1
      /\ \A i \in 1 .. Len(rest) : rest[i] = init.todo[i + 1]
  BY <1>1, <1>3, HeadTailProperties
<1>5. From(saved, given, first)
  BY <1>3, <1>4, SettingsAreFrom
<1> HIDE DEF first, rest, given
<1>6. /\ files'[first] = given
      /\ \A c \in Containers : c # first => files'[c] = files[c]
      /\ files' = [c \in Containers |-> files'[c]]
  BY <1>1, <1>4 DEF IInv, Typed
<1>7. Typed'
  BY <1>1, <1>2, <1>6 DEF IInv, Typed
<1>8. HeldWasSaved'
  <2>1. AllFrom(saved)
    BY <1>3 DEF IInv, HeldWasSaved
  <2>2. \A c \in Containers : files'[c] # Nothing => From(saved, files'[c], c)
    BY <1>5, <1>6, <2>1 DEF AllFrom
  <2> QED
    BY <1>1, <1>3, <2>1, <2>2 DEF HeldWasSaved, AllFrom
<1>9. InHand'
  <2>1. \A i \in 1 .. Len(rest) : Known(saved, rest[i])
    BY <1>3, <1>4
  <2> QED
    BY <1>1, <1>2, <1>3, <1>4, <2>1 DEF InHand, Known
<1>10. \A s \in Stores : Served(s)' => s = first \/ Served(s)
  <2> SUFFICES ASSUME NEW s \in Stores, Served(s)', s # first PROVE Served(s)
    OBVIOUS
  <2>1. CASE run[s] # "down"
    BY <2>1 DEF Served
  <2>2. CASE ~Awaits(s)'
    <3>1. ASSUME NEW i \in 1 .. Len(init.todo), init.todo[i] = s PROVE FALSE
      <4>1. i # 1
        BY <1>4, <3>1
      <4>2. i - 1 \in 1 .. Len(rest)
        BY <1>4, <4>1
      <4>3. rest[i - 1] = s
        BY <1>4, <3>1, <4>2
      <4> QED
        BY <1>2, <2>2, <4>2, <4>3 DEF Awaits
    <3> QED
      BY <1>1, <3>1 DEF Served, Awaits
  <2> QED
    BY <1>1, <1>2, <2>1, <2>2 DEF Served
<1>11. StoresServed'
  <2>1. \A s \in Stores : Served(s) => From(saved, files[s], s)
    BY DEF IInv, StoresServed
  <2>2. Stores \subseteq Containers
    BY DEF Containers
  <2>3. \A s \in Stores : Served(s)' => From(saved, files'[s], s)
    BY <1>5, <1>6, <1>10, <2>1, <2>2
  <2> QED
    BY <1>1, <1>2, <1>3, <2>3 DEF StoresServed
<1> QED
  BY <1>7, <1>8, <1>9, <1>11 DEF IInv

\* Steps of init that change nothing outside it.
LEMMA InitSteps ==
  ASSUME IInv, Initialized \/ InitKilled \/ UpAgain
  PROVE  IInv'
<1>1. UNCHANGED <<plan, fresh, saved, files, run, read, password, rows>>
  BY DEF Initialized, InitKilled, UpAgain, LeftOnDisk
<1>2. /\ init' = [pc |-> init'.pc, state |-> init'.state, todo |-> init'.todo]
      /\ init'.pc \in {"done", "failed", "load"}
      /\ init'.pc = "done" => init.pc = "write" /\ init.todo = <<>>
  BY DEF Initialized, InitKilled, UpAgain, Resting
<1>3. Typed'
  BY <1>1, <1>2 DEF IInv, Typed
<1>4. HeldWasSaved'
  BY <1>1 DEF IInv, HeldWasSaved, NothingHeld, AllFrom
<1>5. InHand'
  BY <1>2 DEF InHand
<1>6. \A s \in Stores : Served(s)' => Served(s)
  BY <1>1, <1>2 DEF Served, Awaits
<1>7. StoresServed'
  BY <1>1, <1>2, <1>6 DEF IInv, StoresServed
<1> QED
  BY <1>3, <1>4, <1>5, <1>7 DEF IInv

-----------------------------------------------------------------------------
(* The operator and Docker *)

\* A store that runs or ran is left alone or brought down, and init may begin again.
LEMMA DeployStep ==
  ASSUME IInv, NEW specs \in Plans, NEW replaced, Deploy(specs, replaced)
  PROVE  IInv'
<1>1. /\ init.pc = "done" /\ plan' = specs /\ init' = Resting("load")
      /\ run' = [c \in Containers |-> IF c \in replaced THEN "down" ELSE run[c]]
      /\ UNCHANGED <<fresh, saved, files, read, password, rows>>
  BY DEF Deploy
<1>2. init'.pc = "load" /\ init' = [pc |-> init'.pc, state |-> init'.state, todo |-> init'.todo]
  BY <1>1 DEF Resting
<1>3. Typed'
  BY <1>1, <1>2 DEF IInv, Typed
<1>4. HeldWasSaved'
  BY <1>1 DEF IInv, HeldWasSaved, NothingHeld, AllFrom
<1>5. InHand'
  BY <1>2 DEF InHand
<1>6. \A s \in Stores : Served(s)
  BY <1>1 DEF Served
<1>7. StoresServed'
  BY <1>1, <1>2, <1>6 DEF IInv, StoresServed
<1> QED
  BY <1>3, <1>4, <1>5, <1>7 DEF IInv

\* A container starts with its file, or dies; what a store leaves on its volume and
\* the core in the database was in their files.
LEMMA ContainerStep ==
  ASSUME IInv, NEW c \in Containers,
         UNCHANGED <<plan, init, saved, files, fresh>>,
         NEW state, run' = [run EXCEPT ![c] = state],
         c \in Stores => Served(c),
         \/ read' = read
         \/ read' = [read EXCEPT ![c] = files[c]],
         \/ password' = password
         \/ saved # Nothing /\ password' = saved.made,
         \/ rows' = rows
         \/ saved # Nothing /\ \A slug \in DOMAIN rows' : KeyOf(saved, rows'[slug])
  PROVE  IInv'
<1>1. Typed'
  BY DEF IInv, Typed
<1>2. /\ \A d \in Containers : d # c => run'[d] = run[d]
      /\ \A d \in Containers : read'[d] = read[d] \/ read'[d] = files[d]
  BY DEF IInv, Typed
<1>3. HeldWasSaved'
  <2>1. CASE saved = Nothing
    BY <1>2, <2>1 DEF IInv, HeldWasSaved, NothingHeld
  <2>2. CASE saved # Nothing
    <3>1. AllFrom(saved)
      BY <2>2 DEF IInv, HeldWasSaved
    <3>2. \A d \in Containers : read'[d] # Nothing => From(saved, read'[d], d)
      BY <1>2, <3>1 DEF AllFrom
    <3> QED
      BY <2>2, <3>1, <3>2 DEF HeldWasSaved, AllFrom
  <2> QED
    BY <2>1, <2>2
<1>4. InHand'
  BY DEF IInv, InHand, Known
<1>5. Stores \subseteq Containers
  BY DEF Containers
<1>6. \A s \in Stores : Served(s)' => Served(s)
  BY <1>2, <1>5 DEF Served, Awaits
<1>7. StoresServed'
  BY <1>6 DEF IInv, StoresServed, Awaits
<1> QED
  BY <1>1, <1>3, <1>4, <1>7 DEF IInv

\* depends_on: a store starts only when init has written its file.
LEMMA StoreMayStart ==
  ASSUME NEW s \in Stores, MayStart(s)
  PROVE  Served(s)
BY DEF MayStart, Served

LEMMA StoreStarts ==
  ASSUME IInv, NEW s \in Stores, StartStore(s)
  PROVE  IInv'
<1>1. Served(s) /\ s \in Containers
  BY StoreMayStart DEF StartStore, Started, Containers
<1>2. saved # Nothing /\ files[s].secret = saved.made
  BY <1>1 DEF IInv, StoresServed, From
<1>3. /\ UNCHANGED <<plan, init, saved, files, fresh, rows>>
      /\ run' = [run EXCEPT ![s] = "up"] /\ read' = [read EXCEPT ![s] = files[s]]
      /\ password' = password \/ password' = saved.made
  BY <1>2 DEF StartStore, Started
<1> QED
  BY <1>1, <1>2, <1>3, ContainerStep

LEMMA CoreStarts == ASSUME IInv, StartCore PROVE IInv'
<1>1. Core \in Containers /\ Core \notin Stores
  BY DEF Containers
<1>2. /\ UNCHANGED <<plan, init, saved, files, fresh, password>>
      /\ run' = [run EXCEPT ![Core] = "up"] /\ read' = [read EXCEPT ![Core] = files[Core]]
      /\ files[Core] # Nothing /\ rows' = Inserted(rows, files[Core].classifiers)
  BY DEF StartCore, Started
<1>3. saved # Nothing
  BY <1>1, <1>2 DEF IInv, HeldWasSaved, NothingHeld
<1>4. /\ \A slug \in DOMAIN rows : KeyOf(saved, rows[slug])
      /\ \A slug \in DOMAIN files[Core].classifiers :
           KeyOf(saved, files[Core].classifiers[slug])
  BY <1>1, <1>2, <1>3 DEF IInv, HeldWasSaved, AllFrom, From
<1>5. \A slug \in DOMAIN rows' : KeyOf(saved, rows'[slug])
  BY <1>2, <1>4 DEF Inserted
<1> QED
  BY <1>1, <1>2, <1>3, <1>5, ContainerStep

LEMMA NodeStarts ==
  ASSUME IInv, NEW n \in Nodes, StartNode(n)
  PROVE  IInv'
<1>1. n \in Containers /\ n \notin Stores
  BY DEF Containers
<1>2. /\ UNCHANGED <<plan, init, saved, files, fresh, password, rows>>
      /\ run' = [run EXCEPT ![n] = "up"] /\ read' = [read EXCEPT ![n] = files[n]]
  BY DEF StartNode, Started
<1> QED
  BY <1>1, <1>2, ContainerStep

LEMMA ContainerDies ==
  ASSUME IInv, NEW c \in Containers, Die(c)
  PROVE  IInv'
<1>1. /\ UNCHANGED <<plan, init, saved, files, fresh, read, password, rows>>
      /\ run' = [run EXCEPT ![c] = "crashed"] /\ run[c] = "up"
  BY DEF Die
<1>2. c \in Stores => Served(c)
  BY <1>1 DEF Served
<1> QED
  BY <1>1, <1>2, ContainerStep

LEMMA StepIInv == IInv /\ [Next]_vars => IInv'
<1> SUFFICES ASSUME IInv, [Next]_vars PROVE IInv'
  OBVIOUS
<1>1. CASE UNCHANGED vars
  BY <1>1 DEF vars, IInv, Typed, HeldWasSaved, NothingHeld, AllFrom, InHand, Known, StoresServed,
              Served, Awaits
<1>2. CASE Load \/ Save \/ WriteFile \/ Initialized \/ InitKilled \/ UpAgain
  BY <1>2, LoadStep, SaveStep, WriteStep, InitSteps
<1>3. CASE \E specs \in Plans, replaced \in {{}, Containers} : Deploy(specs, replaced)
  BY <1>3, DeployStep
<1>4. CASE \/ StartCore
           \/ \E n \in Nodes : StartNode(n)
           \/ \E s \in Stores : StartStore(s)
           \/ \E c \in Containers : Die(c)
  BY <1>4, CoreStarts, NodeStarts, StoreStarts, ContainerDies
<1> QED
  BY <1>1, <1>2, <1>3, <1>4 DEF Next

\* What is held was saved, what is saved is kept, and a store runs with its file.
THEOREM Invariance == FairSpec => []IInv
BY InitIInv, StepIInv, PTL DEF FairSpec

\* However often init is killed and run again, files, processes and the database volume
\* agree on one set of secrets (configuration_initializer.py).
THEOREM SecretsAgreeHolds == FairSpec => []SecretsAgree
<1>1. IInv => SecretsAgree
  <2> SUFFICES ASSUME IInv, NEW a \in Held, NEW b \in Held PROVE a = b
    BY DEF SecretsAgree
  <2>1. CASE saved = Nothing
    BY <2>1 DEF IInv, HeldWasSaved, NothingHeld, Held
  <2>2. CASE saved # Nothing
    <3>1. AllFrom(saved)
      BY <2>2 DEF IInv, HeldWasSaved
    <3>2. \A x \in Held : x = saved.made
      BY <3>1 DEF AllFrom, From, Held
    <3> QED
      BY <3>2
  <2> QED
    BY <2>1, <2>2
<1> QED
  BY <1>1, Invariance, PTL

\* The core keeps for a classifier the public key of the pair its node signs with,
\* whatever was deployed and restarted since (bootstrap_storage.py).
THEOREM CallbacksUnderstoodHolds == FairSpec => []CallbacksUnderstood
<1>1. IInv => CallbacksUnderstood
  <2> SUFFICES ASSUME IInv, NEW slug \in DOMAIN rows,
                      read[rows[slug].node] # Nothing
               PROVE  read[rows[slug].node].own = rows[slug].key
    BY DEF CallbacksUnderstood
  <2>1. saved # Nothing /\ AllFrom(saved) /\ saved \in State
    BY DEF IInv, HeldWasSaved, NothingHeld, Typed
  <2>2. KeyOf(saved, rows[slug])
    BY <2>1 DEF AllFrom
  <2>3. DOMAIN saved.keys \subseteq Nodes
    BY <2>1 DEF State
  <2>4. rows[slug].node \in Nodes /\ rows[slug].node \in Containers
    BY <2>2, <2>3 DEF KeyOf, Containers
  <2>5. From(saved, read[rows[slug].node], rows[slug].node)
    BY <2>1, <2>4 DEF AllFrom
  <2> QED
    BY <2>2, <2>4, <2>5 DEF From, KeyOf
<1> QED
  BY <1>1, Invariance, PTL

-----------------------------------------------------------------------------
(* TaxonomySync: sequences *)

HIDE DeploymentAssumption
USE TaxonomyAssumption

\* A finite set, in any order.
LEMMA SetToSeqIsSeq ==
  ASSUME NEW S, IsFiniteSet(S)
  PROVE  SetToSeq(S) \in Seq(S)
<1>1. Cardinality(S) \in Nat /\ ExistsBijection(1 .. Cardinality(S), S)
  BY FS_CardinalityType
<1>2. \E f \in [1 .. Cardinality(S) -> S] : IsInjective(f)
  BY <1>1 DEF ExistsBijection, Bijection, Injection
<1>3. SetToSeq(S) \in [1 .. Cardinality(S) -> S]
  BY <1>2 DEF SetToSeq
<1> QED
  BY <1>1, <1>3

\* The step of the definition of FlattenSeq.
Flat(f, seqs, i) == IF i = 1 THEN seqs[i] ELSE f[i - 1] \o seqs[i]
Flattens(f, seqs, n) == f = [i \in 1 .. n |-> Flat(f, seqs, i)]

\* The recursion of FlattenSeq is met by some function: otherwise there were a least length
\* for which none does, and it could be had from the one before.
LEMMA SomethingFlattens ==
  ASSUME NEW seqs, NEW n \in Nat
  PROVE  \E f : Flattens(f, seqs, n)
<1> DEFINE Bad == {k \in Nat : ~\E f : Flattens(f, seqs, k)}
<1>1. SUFFICES ASSUME Bad # {} PROVE FALSE
  OBVIOUS
<1>2. PICK m \in Bad : \A k \in Bad : m <= k
  BY <1>1, LeastNumber
<1>3. m \in Nat /\ ~\E f : Flattens(f, seqs, m)
  OBVIOUS
<1>4. m # 0
  <2> DEFINE g == [i \in 1 .. 0 |-> i]
  <2>1. g = [i \in 1 .. 0 |-> Flat(g, seqs, i)]
    OBVIOUS
  <2> QED
    BY <2>1, <1>3 DEF Flattens
<1>5. PICK f : Flattens(f, seqs, m - 1)
  BY <1>2, <1>3, <1>4
<1> DEFINE g == [i \in 1 .. m |-> IF i = m THEN Flat(f, seqs, m) ELSE f[i]]
<1>6. ASSUME NEW i \in 1 .. m PROVE g[i] = Flat(g, seqs, i)
  <2>1. CASE i = m
    <3>1. i # 1 => i - 1 \in 1 .. m /\ i - 1 # m
      BY <1>3
    <3>2. i # 1 => g[i - 1] = f[i - 1]
      BY <3>1
    <3> QED
      BY <2>1, <3>2 DEF Flat
  <2>2. CASE i # m
    <3>1. i \in 1 .. (m - 1)
      BY <2>2, <1>3
    <3>2. f[i] = Flat(f, seqs, i)
      <4> HIDE DEF g
      <4> QED
        BY <3>1, <1>5 DEF Flattens
    <3>3. i # 1 => i - 1 \in 1 .. m /\ i - 1 # m
      BY <3>1, <1>3
    <3>4. i # 1 => g[i - 1] = f[i - 1]
      BY <3>3
    <3> QED
      BY <2>2, <3>2, <3>4 DEF Flat
  <2> QED
    BY <2>1, <2>2
<1>7. Flattens(g, seqs, m)
  BY <1>6 DEF Flattens
<1> QED
  BY <1>3, <1>7

\* What is flattened consists of what the sequences did.
LEMMA FlattenedElements ==
  ASSUME NEW T, NEW seqs \in Seq(Seq(T))
  PROVE  FlattenSeq(seqs) \in Seq(T)
<1>1. CASE Len(seqs) = 0
  BY <1>1 DEF FlattenSeq
<1>2. CASE Len(seqs) # 0
  <2> DEFINE n == Len(seqs)
             flatten == CHOOSE f : f = [i \in 1 .. n |-> Flat(f, seqs, i)]
             Bad == {k \in 1 .. n : flatten[k] \notin Seq(T)}
  <2>1. n \in Nat /\ n # 0
    BY <1>2
  <2>2. flatten = [i \in 1 .. n |-> Flat(flatten, seqs, i)]
    <3>1. \E f : Flattens(f, seqs, n)
      BY <2>1, SomethingFlattens
    <3>2. \E f : f = [i \in 1 .. n |-> Flat(f, seqs, i)]
      BY <3>1, Zenon DEF Flattens
    <3> QED
      BY <3>2, Zenon
  <2>3. FlattenSeq(seqs) = flatten[n]
    BY <1>2 DEF FlattenSeq, Flat
  <2> HIDE DEF flatten
  <2>4. \A i \in 1 .. n : flatten[i] = Flat(flatten, seqs, i)
    BY <2>2
  <2>5. ASSUME Bad # {} PROVE FALSE
    <3> HIDE DEF n
    <3>0. Bad \in SUBSET Nat
      BY <2>1
    <3>1. PICK m \in Bad : \A k \in Bad : m <= k
      <4> HIDE DEF Bad
      <4> QED
        BY <2>5, <3>0, LeastNumber
    <3>2. m \in 1 .. n /\ flatten[m] \notin Seq(T) /\ seqs[m] \in Seq(T)
      BY DEF n
    <3>3. m # 1
      BY <3>2, <2>4 DEF Flat
    <3>4. m - 1 \in 1 .. n /\ m - 1 \notin Bad
      BY <3>1, <3>2, <3>3, <2>1
    <3>5. flatten[m - 1] \in Seq(T)
      BY <3>4
    <3>6. flatten[m] = flatten[m - 1] \o seqs[m]
      BY <3>2, <3>3, <2>4 DEF Flat
    <3> QED
      BY <3>2, <3>5, <3>6, ConcatProperties
  <2> QED
    BY <2>1, <2>3, <2>5
<1> QED
  BY <1>1, <1>2

-----------------------------------------------------------------------------
(* What is planned *)

Stored == [Items -> Record \cup {Absent}]

\* A request to an item main has keeps what the file does not state; only what is
\* not listed, and only if that was asked for, goes off.
Keeps(q, view, off) ==
  /\ Has(view, q.item)
  /\ q.to.note = view[q.item].note
  /\ IF q.item \in Listed THEN q.to.on = view[q.item].on ELSE off /\ ~q.to.on

Meant(view, off) == {q \in Request : q.op = "patch" => Keeps(q, view, off)}

NoSource(requests) == {q \in requests : q.item \notin Sources}

\* Each part of a plan is meant, and names no source but in its last part.
LEMMA CreatesAreMeant ==
  ASSUME NEW view \in Stored, NEW off \in BOOLEAN, NEW S \in SUBSET (Listed \ Sources)
  PROVE  /\ Creates(S) \in Seq(NoSource(Meant(view, off)))
         /\ \A i \in S : Create(i) \in NoSource(Meant(view, off))
<1> DEFINE f == [i \in S |-> Create(i)]
           T == {Create(i) : i \in S}
<1>1. IsFiniteSet(S)
  <2>1. S \in SUBSET Items
    OBVIOUS
  <2> QED
    BY <2>1, FS_Subset
<1>2. f \in Surjection(S, T)
  BY DEF Surjection
<1>3. IsFiniteSet(T)
  <2> HIDE DEF f, T
  <2> QED
    BY <1>1, <1>2, FS_Surjection
<1>4. \A i \in S : Create(i) \in NoSource(Meant(view, off))
  BY DEF Create, NoSource, Meant, Request, Record
<1>5. SetToSeq(T) \in Seq(T)
  <2> HIDE DEF T
  <2> QED
    BY <1>3, SetToSeqIsSeq
<1>6. T \subseteq NoSource(Meant(view, off))
  BY <1>4
<1>7. SetToSeq(T) \in Seq(NoSource(Meant(view, off)))
  <2> HIDE DEF T
  <2> QED
    BY <1>5, <1>6
<1> QED
  BY <1>4, <1>7 DEF Creates

LEMMA PatchesAreMeant ==
  ASSUME NEW view \in Stored, NEW off \in BOOLEAN, NEW S \in SUBSET Listed
  PROVE  /\ Patches(view, S) \in Seq(Meant(view, off))
         /\ S \cap Sources = {} => Patches(view, S) \in Seq(NoSource(Meant(view, off)))
<1> DEFINE D == {i \in S : Differs(view, i)}
           f == [i \in D |-> Patch(i, Payload(view, i))]
           T == {Patch(i, Payload(view, i)) : i \in D}
<1>1. IsFiniteSet(D)
  <2>1. D \in SUBSET Items
    OBVIOUS
  <2> QED
    BY <2>1, FS_Subset
<1>2. f \in Surjection(D, T)
  BY DEF Surjection
<1>3. IsFiniteSet(T)
  <2> HIDE DEF f, T, D
  <2> QED
    BY <1>1, <1>2, FS_Surjection
<1>4. ASSUME NEW i \in D
      PROVE  /\ Patch(i, Payload(view, i)) \in Meant(view, off)
             /\ Patch(i, Payload(view, i)).item = i
  <2>1. i \in Items /\ i \in Listed /\ view[i] \in Record
    BY DEF Differs, Has, Stored
  <2>2. File[i].kind \in Kinds /\ File[i].text \in Nat
    BY <2>1
  <2>3. Payload(view, i) \in Record
    BY <2>1, <2>2 DEF Payload, Record
  <2>4. Payload(view, i).note = view[i].note /\ Payload(view, i).on = view[i].on
    BY <2>1 DEF Payload, Record
  <2> QED
    BY <2>1, <2>3, <2>4 DEF Patch, Meant, Request, Keeps, Differs
<1>5. SetToSeq(T) \in Seq(T)
  <2> HIDE DEF T
  <2> QED
    BY <1>3, SetToSeqIsSeq
<1>6. T \subseteq Meant(view, off)
  BY <1>4
<1>7. S \cap Sources = {} => T \subseteq NoSource(Meant(view, off))
  BY <1>4 DEF NoSource
<1>8. /\ SetToSeq(T) \in Seq(Meant(view, off))
      /\ S \cap Sources = {} => SetToSeq(T) \in Seq(NoSource(Meant(view, off)))
  <2> HIDE DEF T
  <2> QED
    BY <1>5, <1>6, <1>7
<1> QED
  BY <1>8 DEF Patches

LEMMA SwitchesAreMeant ==
  ASSUME NEW view \in Stored, NEW S \in SUBSET (Items \ Sources)
  PROVE  SwitchesOff(view, S) \in Seq(NoSource(Meant(view, TRUE)))
<1> DEFINE D == Extra(view, S)
           f == [i \in D |-> Patch(i, [view[i] EXCEPT !.on = FALSE])]
           T == {Patch(i, [view[i] EXCEPT !.on = FALSE]) : i \in D}
<1>1. IsFiniteSet(D)
  <2>1. D \in SUBSET Items
    BY DEF Extra
  <2> QED
    BY <2>1, FS_Subset
<1>2. f \in Surjection(D, T)
  BY DEF Surjection
<1>3. IsFiniteSet(T)
  <2> HIDE DEF f, T, D
  <2> QED
    BY <1>1, <1>2, FS_Surjection
<1>4. ASSUME NEW i \in D
      PROVE  Patch(i, [view[i] EXCEPT !.on = FALSE]) \in NoSource(Meant(view, TRUE))
  <2>1. i \in Items /\ i \notin Sources /\ i \notin Listed /\ Has(view, i) /\ view[i] \in Record
    BY DEF Extra, Has, Stored
  <2> DEFINE r == [view[i] EXCEPT !.on = FALSE]
  <2>2. r \in Record /\ r.note = view[i].note /\ ~r.on
    BY <2>1 DEF Record
  <2> HIDE DEF r
  <2>3. Patch(i, r) \in NoSource(Meant(view, TRUE))
    BY <2>1, <2>2 DEF Patch, NoSource, Meant, Request, Keeps
  <2> QED
    BY <2>3 DEF r
<1>5. SetToSeq(T) \in Seq(T)
  <2> HIDE DEF T
  <2> QED
    BY <1>3, SetToSeqIsSeq
<1>6. T \subseteq NoSource(Meant(view, TRUE))
  BY <1>4
<1>7. SetToSeq(T) \in Seq(NoSource(Meant(view, TRUE)))
  <2> DEFINE M == NoSource(Meant(view, TRUE))
  <2>1. T \subseteq M
    BY <1>6
  <2> HIDE DEF T, M
  <2>2. SetToSeq(T) \in Seq(M)
    BY <1>5, <2>1
  <2> QED
    BY <2>2 DEF M
<1> QED
  BY <1>7 DEF SwitchesOff

LEMMA PlanIsMeant ==
  ASSUME NEW view \in Stored, NEW off \in BOOLEAN
  PROVE  TaxonomyPlan(view, off) \in Seq(NoSource(Meant(view, off)))
<1> DEFINE M == NoSource(Meant(view, off))
           new == {f \in Facets \cap Listed : ~Has(view, f)}
           With(f) == <<Create(f)>> \o Creates(ListedValues(f))
           g == [f \in new |-> With(f)]
           T == {With(f) : f \in new}
<1>1. new \in SUBSET Items /\ new \in SUBSET (Listed \ Sources)
  OBVIOUS
<1>2. IsFiniteSet(new)
  BY <1>1, FS_Subset
<1>3. IsFiniteSet(T)
  <2>1. g \in Surjection(new, T)
    BY DEF Surjection
  <2> HIDE DEF g, T, new
  <2> QED
    BY <1>2, <2>1, FS_Surjection
<1>4. ASSUME NEW f \in new PROVE With(f) \in Seq(M)
  <2>1. Create(f) \in M
    <3> HIDE DEF new
    <3> QED
      BY <1>1, CreatesAreMeant
  <2>2. ListedValues(f) \in SUBSET (Listed \ Sources)
    BY DEF ListedValues
  <2>3. Creates(ListedValues(f)) \in Seq(M)
    BY <2>2, CreatesAreMeant
  <2> HIDE DEF M
  <2>4. <<Create(f)>> \in Seq(M)
    BY <2>1
  <2> QED
    BY <2>3, <2>4, ConcatProperties
<1>5. SetToSeq(T) \in Seq(Seq(M))
  <2>1. T \subseteq Seq(M)
    BY <1>4
  <2> HIDE DEF T, M
  <2>2. SetToSeq(T) \in Seq(T)
    BY <1>3, SetToSeqIsSeq
  <2> QED
    BY <2>1, <2>2
<1>6. FlattenSeq(SetToSeq(T)) \in Seq(M)
  <2> HIDE DEF T, M
  <2> QED
    BY <1>5, FlattenedElements
<1>7. Creates(NewValues(view)) \in Seq(M)
  <2>1. NewValues(view) \in SUBSET (Listed \ Sources)
    BY DEF NewValues
  <2> QED
    BY <2>1, CreatesAreMeant
<1>8. Patches(view, Facets \cap Listed) \in Seq(M) /\ Patches(view, Values \cap Listed) \in Seq(M)
  <2>1. /\ (Facets \cap Listed) \cap Sources = {} /\ Facets \cap Listed \in SUBSET Listed
        /\ (Values \cap Listed) \cap Sources = {} /\ Values \cap Listed \in SUBSET Listed
    OBVIOUS
  <2> QED
    BY <2>1, PatchesAreMeant
<1>9. off => SwitchesOff(view, Values) \in Seq(M) /\ SwitchesOff(view, Facets) \in Seq(M)
  <2>1. Values \in SUBSET (Items \ Sources) /\ Facets \in SUBSET (Items \ Sources)
    BY DEF Items
  <2>2. off => off = TRUE
    OBVIOUS
  <2> QED
    BY <2>1, <2>2, SwitchesAreMeant
<1>10. \A p, q \in Seq(M) : p \o q \in Seq(M)
  BY ConcatProperties
<1>11. <<>> \in Seq(M)
  OBVIOUS
<1> DEFINE last == IF off THEN SwitchesOff(view, Values) \o SwitchesOff(view, Facets) ELSE <<>>
<1>12. last \in Seq(M)
  <2> HIDE DEF M
  <2> QED
    BY <1>9, <1>10, <1>11
<1>13. TaxonomyPlan(view, off) =
         FlattenSeq(SetToSeq(T)) \o Creates(NewValues(view)) \o Patches(view, Facets \cap Listed)
           \o Patches(view, Values \cap Listed) \o last
  BY DEF TaxonomyPlan
<1> HIDE DEF M, T, last
<1> QED
  BY <1>6, <1>7, <1>8, <1>10, <1>12, <1>13 DEF M
-----------------------------------------------------------------------------
(* The invariant *)

Tool == [pc : {"idle", "listed", "sending"}, off : BOOLEAN, plan : Seq(Request)]

SyncState ==
  /\ db \in Stored /\ revision \in Nat
  /\ tool \in [Tools -> Tool] /\ edited \in [Tools -> SUBSET Items]
  /\ edits \in 0 .. MaxEdits /\ faults \in 0 .. MaxFaults

\* What a run has still to send keeps what the file does not state, of main as
\* it is now, but for items that others wrote.
SafeToSend(view, seen, todo, off) ==
  \A k \in 1 .. Len(todo) :
    todo[k].op = "patch" /\ todo[k].item \notin seen => Keeps(todo[k], view, off)

PlanOf(t) ==
  /\ tool[t].pc = "sending" => tool[t].plan # <<>>
  /\ tool[t].pc = "listed" => \A k \in 1 .. Len(tool[t].plan) : tool[t].plan[k].item \notin Sources
  /\ tool[t].pc # "idle" => SafeToSend(db, edited[t], tool[t].plan, tool[t].off)

SyncInv == SyncState /\ \A t \in Tools : PlanOf(t)

\* What is meant of main as it was read is right.
LEMMA SeqOfMeant ==
  ASSUME NEW view, NEW off, NEW todo \in Seq(Meant(view, off)), NEW seen
  PROVE  todo \in Seq(Request) /\ SafeToSend(view, seen, todo, off)
<1>1. \A k \in 1 .. Len(todo) : todo[k] \in Meant(view, off)
  OBVIOUS
<1>2. Meant(view, off) \subseteq Request
  BY DEF Meant
<1>3. todo \in Seq(Request)
  <2> DEFINE M == Meant(view, off)
  <2>1. todo \in Seq(M) /\ M \subseteq Request
    BY <1>2
  <2> HIDE DEF M
  <2> QED
    BY <2>1
<1> QED
  BY <1>1, <1>3 DEF Meant, SafeToSend

LEMMA SeqOfNoSource ==
  ASSUME NEW view, NEW off, NEW todo \in Seq(NoSource(Meant(view, off)))
  PROVE  /\ todo \in Seq(Meant(view, off))
         /\ \A k \in 1 .. Len(todo) : todo[k].item \notin Sources
<1> DEFINE M == Meant(view, off)
           N == NoSource(M)
<1>1. todo \in Seq(N) /\ N \subseteq M
  BY DEF NoSource
<1>2. \A k \in 1 .. Len(todo) : todo[k] \in N
  BY <1>1
<1>3. todo \in Seq(M)
  <2> HIDE DEF N, M
  <2> QED
    BY <1>1
<1> QED
  BY <1>2, <1>3 DEF NoSource

\* A write leaves the rest of a plan right: by somebody else, as the item is marked,
LEMMA WrittenByOthers ==
  ASSUME NEW view \in Stored, NEW seen, NEW off, NEW todo \in Seq(Request),
         NEW i \in Items, NEW r \in Record, SafeToSend(view, seen, todo, off)
  PROVE  SafeToSend([view EXCEPT ![i] = r], seen \cup {i}, todo, off)
<1> SUFFICES ASSUME NEW k \in 1 .. Len(todo), todo[k].op = "patch", todo[k].item \notin seen \cup {i}
             PROVE  Keeps(todo[k], [view EXCEPT ![i] = r], off)
  BY DEF SafeToSend
<1>1. Keeps(todo[k], view, off)
  BY DEF SafeToSend
<1>2. todo[k].item # i /\ todo[k].item \in Items
  <2>1. todo[k] \in Request
    OBVIOUS
  <2> QED
    BY <2>1 DEF Request
<1> QED
  BY <1>1, <1>2 DEF Keeps, Has, Stored

\* ... or by the run, as it changed nothing that another patch of the item says.
LEMMA WrittenByItself ==
  ASSUME NEW view \in Stored, NEW seen, NEW off, NEW todo \in Seq(Request), todo # <<>>,
         SafeToSend(view, seen, todo, off),
         Head(todo).op = "create" => ~Has(view, Head(todo).item)
  PROVE  SafeToSend([view EXCEPT ![Head(todo).item] = Head(todo).to], seen, Tail(todo), off)
<1> DEFINE q == Head(todo)
<1> SUFFICES ASSUME NEW k \in 1 .. Len(Tail(todo)), Tail(todo)[k].op = "patch",
                    Tail(todo)[k].item \notin seen
             PROVE  Keeps(Tail(todo)[k], [view EXCEPT ![q.item] = q.to], off)
  BY DEF SafeToSend
<1>1. /\ Tail(todo)[k] = todo[k + 1] /\ k + 1 \in 1 .. Len(todo)
      /\ q = todo[1] /\ 1 \in 1 .. Len(todo) /\ q \in Request
  BY HeadTailProperties
<1>2. Keeps(todo[k + 1], view, off)
  BY <1>1 DEF SafeToSend
<1>3. q.item \in Items /\ q.to \in Record /\ q.op \in {"create", "patch"} /\ q.to # Absent
  BY <1>1 DEF Request
<1>4. CASE todo[k + 1].item # q.item
  <2> HIDE DEF q
  <2> QED
    BY <1>1, <1>2, <1>3, <1>4 DEF Keeps, Has, Stored
<1>5. CASE todo[k + 1].item = q.item
  <2>1. q.op = "patch"
    BY <1>2, <1>3, <1>5 DEF Keeps
  <2>2. Keeps(q, view, off)
    BY <1>1, <1>5, <2>1 DEF SafeToSend
  <2> HIDE DEF q
  <2> QED
    BY <1>1, <1>2, <1>3, <1>5, <2>2 DEF Keeps, Has, Stored
<1> QED
  BY <1>4, <1>5
-----------------------------------------------------------------------------
(* The steps *)

\* The invariant, step by step.
LEMMA SyncStarts == SyncInit => SyncInv
<1> SUFFICES ASSUME SyncInit PROVE SyncInv
  OBVIOUS
<1>1. Idle \in Tool /\ Idle.pc = "idle"
  BY DEF Idle, Tool
<1>2. SyncState
  BY <1>1 DEF SyncInit, SyncState, Stored
<1>3. \A t \in Tools : PlanOf(t)
  BY <1>1 DEF SyncInit, PlanOf
<1> QED
  BY <1>2, <1>3 DEF SyncInv

\* What becomes of a run.
LEMMA GoingOn ==
  ASSUME tool \in [Tools -> Tool], NEW t \in Tools, NEW todo \in Seq(Request), GoesOn(t, todo)
  PROVE  /\ tool' \in [Tools -> Tool]
         /\ \A u \in Tools \ {t} : tool'[u] = tool[u]
         /\ todo = <<>> => tool'[t].pc = "idle" /\ tool'[t] = Idle
         /\ todo # <<>> => /\ tool'[t].pc = "sending" /\ tool'[t].plan = todo
                           /\ tool'[t].off = tool[t].off
<1> DEFINE on == [tool[t] EXCEPT !.pc = "sending", !.plan = todo]
           to == IF todo = <<>> THEN Idle ELSE on
<1>1. tool[t] \in Tool
  OBVIOUS
<1>2. on \in Tool /\ on.pc = "sending" /\ on.plan = todo /\ on.off = tool[t].off
  BY <1>1 DEF Tool
<1>3. Idle \in Tool /\ Idle.pc = "idle"
  BY DEF Idle, Tool
<1>4. tool' = [tool EXCEPT ![t] = to]
  BY DEF GoesOn
<1> HIDE DEF on
<1> QED
  BY <1>2, <1>3, <1>4

\* What a run that is sending has in hand.
LEMMA NextRequest ==
  ASSUME SyncInv, NEW t \in Tools, tool[t].pc = "sending"
  PROVE  /\ tool[t].plan \in Seq(Request) /\ tool[t].plan # <<>>
         /\ Head(tool[t].plan) \in Request /\ Tail(tool[t].plan) \in Seq(Request)
         /\ SafeToSend(db, edited[t], tool[t].plan, tool[t].off)
         /\ tool[t].off \in BOOLEAN
<1>1. tool[t] \in Tool /\ PlanOf(t)
  BY DEF SyncInv, SyncState
<1>2. tool[t].plan \in Seq(Request) /\ tool[t].plan # <<>> /\ tool[t].off \in BOOLEAN
  BY <1>1 DEF PlanOf, Tool
<1>3. Head(tool[t].plan) \in Request /\ Tail(tool[t].plan) \in Seq(Request)
  BY <1>2, HeadTailProperties
<1> QED
  BY <1>1, <1>2, <1>3 DEF PlanOf

\* A request is carried out, and its run goes on or ends.
LEMMA Performed ==
  ASSUME SyncInv, NEW t \in Tools, tool[t].pc = "sending",
         NEW rest \in {<<>>, Tail(tool[t].plan)},
         Perform(Head(tool[t].plan)), GoesOn(t, rest),
         Written(Head(tool[t].plan).item, Tools \ {t}),
         UNCHANGED edits, faults' \in 0 .. MaxFaults
  PROVE  SyncInv'
<1> DEFINE q == Head(tool[t].plan)
<1>1. /\ tool[t].plan \in Seq(Request) /\ tool[t].plan # <<>> /\ q \in Request
      /\ Tail(tool[t].plan) \in Seq(Request) /\ SafeToSend(db, edited[t], tool[t].plan, tool[t].off)
  BY NextRequest
<1>2. q.item \in Items /\ q.to \in Record
  BY <1>1 DEF Request
<1>3. rest \in Seq(Request)
  <2>1. CASE rest = <<>>
    BY <2>1
  <2>2. CASE rest = Tail(tool[t].plan)
    BY <1>1, <2>2
  <2> QED
    BY <2>1, <2>2
<1>4. /\ tool' \in [Tools -> Tool] /\ \A u \in Tools \ {t} : tool'[u] = tool[u]
      /\ rest = <<>> => tool'[t].pc = "idle"
      /\ rest # <<>> => /\ tool'[t].pc = "sending" /\ tool'[t].plan = rest
                        /\ tool'[t].off = tool[t].off
  BY <1>3, GoingOn DEF SyncInv, SyncState
<1>5. db \in Stored /\ db' = [db EXCEPT ![q.item] = q.to] /\ revision' \in Nat
  BY DEF Perform, SyncInv, SyncState
<1>6. /\ edited' \in [Tools -> SUBSET Items]
      /\ \A u \in Tools \ {t} : tool'[u].pc # "idle" => edited'[u] = edited[u] \cup {q.item}
      /\ tool'[t].pc # "idle" => edited'[t] = edited[t]
  <2> HIDE DEF q
  <2>1. edited \in [Tools -> SUBSET Items]
    BY DEF SyncInv, SyncState
  <2>2. Written(q.item, Tools \ {t})
    BY DEF q
  <2> QED
    BY <1>2, <2>1, <2>2 DEF Written
<1>7. SyncState'
  <2> HIDE DEF q
  <2>1. db' \in Stored
    BY <1>2, <1>5 DEF Stored
  <2> QED
    BY <1>4, <1>5, <1>6, <2>1 DEF SyncState, SyncInv
<1>8. ASSUME NEW u \in Tools \ {t} PROVE PlanOf(u)'
  <2>1. tool[u] \in Tool /\ PlanOf(u) /\ tool'[u] = tool[u]
    BY <1>4 DEF SyncInv, SyncState
  <2>2. tool[u].plan \in Seq(Request)
    BY <2>1 DEF Tool
  <2>3. ASSUME tool[u].pc # "idle"
        PROVE  SafeToSend(db', edited'[u], tool[u].plan, tool[u].off)
    <3>1. SafeToSend(db, edited[u], tool[u].plan, tool[u].off)
      BY <2>1, <2>3 DEF PlanOf
    <3> HIDE DEF q
    <3>2. edited'[u] = edited[u] \cup {q.item}
      BY <1>6, <2>1, <2>3
    <3>3. SafeToSend([db EXCEPT ![q.item] = q.to], edited[u] \cup {q.item}, tool[u].plan, tool[u].off)
      BY <1>2, <1>5, <2>2, <3>1, WrittenByOthers
    <3> QED
      BY <1>5, <3>2, <3>3
  <2> QED
    BY <2>1, <2>3 DEF PlanOf
<1>9. PlanOf(t)'
  <2>1. CASE rest = <<>>
    BY <1>4, <2>1 DEF PlanOf
  <2>2. CASE rest # <<>>
    <3>1. rest = Tail(tool[t].plan)
      BY <2>2
    <3>2. q.op = "create" => ~Has(db, q.item)
      BY DEF Perform, Refused
    <3>3. SafeToSend(db', edited[t], rest, tool[t].off)
      BY <1>1, <1>5, <3>1, <3>2, WrittenByItself
    <3>4. edited'[t] = edited[t]
      BY <1>4, <1>6, <2>2
    <3> QED
      BY <1>4, <2>2, <3>3, <3>4 DEF PlanOf
  <2> QED
    BY <2>1, <2>2
<1> QED
  BY <1>7, <1>8, <1>9 DEF SyncInv

\* A run ends, and main is left as it is.
LEMMA GivenUp ==
  ASSUME SyncInv, NEW t \in Tools, NEW i, GoesOn(t, <<>>), Written(i, {}),
         UNCHANGED <<db, revision, edits>>, faults' \in 0 .. MaxFaults
  PROVE  SyncInv'
<1>1. <<>> \in Seq(Request)
  OBVIOUS
<1>2. tool' \in [Tools -> Tool] /\ tool'[t].pc = "idle" /\ \A u \in Tools \ {t} : tool'[u] = tool[u]
  BY <1>1, GoingOn DEF SyncInv, SyncState
<1>3. /\ edited' \in [Tools -> SUBSET Items]
      /\ \A u \in Tools : tool'[u].pc # "idle" => edited'[u] = edited[u]
  BY DEF Written, SyncInv, SyncState
<1>4. SyncState'
  BY <1>2, <1>3 DEF SyncInv, SyncState
<1>5. \A u \in Tools \ {t} : PlanOf(u)'
  BY <1>2, <1>3 DEF SyncInv, PlanOf
<1>6. PlanOf(t)'
  BY <1>2 DEF PlanOf
<1> QED
  BY <1>4, <1>5, <1>6 DEF SyncInv

LEMMA Edited ==
  ASSUME SyncInv, NEW i \in Items, NEW r \in Record, Edit(i, r)
  PROVE  SyncInv'
<1>1. db \in Stored /\ db' = [db EXCEPT ![i] = r] /\ tool' = tool
  BY DEF Edit, SyncInv, SyncState
<1>2. /\ edited' \in [Tools -> SUBSET Items]
      /\ \A u \in Tools : tool[u].pc # "idle" => edited'[u] = edited[u] \cup {i}
  BY DEF Edit, Written, SyncInv, SyncState
<1>3. db' \in Stored
  BY <1>1 DEF Stored
<1>4. SyncState'
  BY <1>2, <1>3 DEF Edit, SyncInv, SyncState
<1>5. ASSUME NEW u \in Tools PROVE PlanOf(u)'
  <2>1. tool[u] \in Tool /\ PlanOf(u) /\ tool'[u] = tool[u]
    BY <1>1 DEF SyncInv, SyncState
  <2>2. tool[u].plan \in Seq(Request)
    BY <2>1 DEF Tool
  <2>3. ASSUME tool[u].pc # "idle"
        PROVE  SafeToSend(db', edited'[u], tool[u].plan, tool[u].off)
    <3>1. SafeToSend(db, edited[u], tool[u].plan, tool[u].off)
      BY <2>1, <2>3 DEF PlanOf
    <3>2. SafeToSend([db EXCEPT ![i] = r], edited[u] \cup {i}, tool[u].plan, tool[u].off)
      BY <1>1, <2>2, <3>1, WrittenByOthers
    <3> QED
      BY <1>1, <1>2, <2>3, <3>2
  <2> QED
    BY <2>1, <2>3 DEF PlanOf
<1> QED
  BY <1>4, <1>5 DEF SyncInv

LEMMA FacetsListed ==
  ASSUME SyncInv, NEW t \in Tools, NEW off \in BOOLEAN, ListFacets(t, off)
  PROVE  SyncInv'
<1> DEFINE to == [pc |-> "listed", off |-> off, plan |-> TaxonomyPlan(db, off)]
<1>1. TaxonomyPlan(db, off) \in Seq(NoSource(Meant(db, off)))
  BY PlanIsMeant DEF SyncInv, SyncState
<1>2. /\ TaxonomyPlan(db, off) \in Seq(Request)
      /\ SafeToSend(db, edited[t], TaxonomyPlan(db, off), off)
      /\ \A k \in 1 .. Len(TaxonomyPlan(db, off)) : TaxonomyPlan(db, off)[k].item \notin Sources
  BY <1>1, SeqOfNoSource, SeqOfMeant
<1>3. to \in Tool
  BY <1>2 DEF Tool
<1>4. tool' = [tool EXCEPT ![t] = to] /\ UNCHANGED <<db, revision, edited, edits, faults>>
  BY DEF ListFacets
<1>5. SyncState'
  <2> HIDE DEF to
  <2> QED
    BY <1>3, <1>4 DEF SyncInv, SyncState
<1>6. tool'[t] = to /\ \A u \in Tools \ {t} : tool'[u] = tool[u]
  <2> HIDE DEF to
  <2> QED
    BY <1>4 DEF SyncInv, SyncState
<1>7. PlanOf(t)'
  BY <1>2, <1>4, <1>6 DEF PlanOf
<1>8. \A u \in Tools \ {t} : PlanOf(u)'
  BY <1>4, <1>6 DEF SyncInv, PlanOf
<1> QED
  BY <1>5, <1>7, <1>8 DEF SyncInv

LEMMA SourcesListed ==
  ASSUME SyncInv, NEW t \in Tools, ListSources(t)
  PROVE  SyncInv'
<1> DEFINE more == Patches(db, Sources \cap Listed)
           todo == tool[t].plan \o more
           left == edited[t] \ Sources
<1>1. tool[t] \in Tool /\ PlanOf(t) /\ tool[t].pc = "listed"
  BY DEF ListSources, SyncInv, SyncState
<1>2. tool[t].plan \in Seq(Request) /\ tool[t].off \in BOOLEAN
  BY <1>1 DEF Tool
<1>3. more \in Seq(Meant(db, tool[t].off))
  BY <1>2, PatchesAreMeant DEF SyncInv, SyncState
<1>4. more \in Seq(Request) /\ SafeToSend(db, left, more, tool[t].off)
  <2> HIDE DEF more, left
  <2> QED
    BY <1>3, SeqOfMeant
<1>5. SafeToSend(db, left, tool[t].plan, tool[t].off)
  BY <1>1 DEF PlanOf, SafeToSend
<1>6. todo \in Seq(Request) /\ SafeToSend(db, left, todo, tool[t].off)
  <2> HIDE DEF more, left
  <2>1. todo \in Seq(Request)
    BY <1>2, <1>4, ConcatProperties
  <2>2. \A k \in 1 .. Len(todo) :
          \/ k \in 1 .. Len(tool[t].plan) /\ todo[k] = tool[t].plan[k]
          \/ k - Len(tool[t].plan) \in 1 .. Len(more) /\ todo[k] = more[k - Len(tool[t].plan)]
    BY <1>2, <1>4
  <2> HIDE DEF todo
  <2>3. ASSUME NEW k \in 1 .. Len(todo), todo[k].op = "patch", todo[k].item \notin left
        PROVE  Keeps(todo[k], db, tool[t].off)
    <3>1. CASE k \in 1 .. Len(tool[t].plan) /\ todo[k] = tool[t].plan[k]
      BY <1>5, <2>3, <3>1 DEF SafeToSend
    <3>2. CASE k - Len(tool[t].plan) \in 1 .. Len(more) /\ todo[k] = more[k - Len(tool[t].plan)]
      BY <1>4, <2>3, <3>2 DEF SafeToSend
    <3> QED
      BY <2>2, <3>1, <3>2
  <2> QED
    BY <2>1, <2>3 DEF SafeToSend
<1>7. GoesOn(t, todo) /\ UNCHANGED <<db, revision, edits, faults>>
  BY DEF ListSources
<1>8. /\ tool' \in [Tools -> Tool] /\ \A u \in Tools \ {t} : tool'[u] = tool[u]
      /\ todo = <<>> => tool'[t].pc = "idle"
      /\ todo # <<>> => /\ tool'[t].pc = "sending" /\ tool'[t].plan = todo
                        /\ tool'[t].off = tool[t].off
  <2> HIDE DEF todo
  <2> QED
    BY <1>6, <1>7, GoingOn DEF SyncInv, SyncState
<1>9. edited' = [edited EXCEPT ![t] = IF tool'[t] = Idle THEN {} ELSE left]
  BY DEF ListSources
<1>10. /\ edited' \in [Tools -> SUBSET Items]
       /\ \A u \in Tools \ {t} : edited'[u] = edited[u]
       /\ tool'[t].pc # "idle" => edited'[t] = left
  <2>1. tool'[t].pc # "idle" => tool'[t] # Idle
    BY DEF Idle
  <2> QED
    BY <1>9, <2>1 DEF SyncInv, SyncState
<1> HIDE DEF todo, left
<1>11. SyncState'
  BY <1>7, <1>8, <1>10 DEF SyncInv, SyncState
<1>12. PlanOf(t)'
  BY <1>6, <1>7, <1>8, <1>10 DEF PlanOf
<1>13. \A u \in Tools \ {t} : PlanOf(u)'
  BY <1>7, <1>8, <1>10 DEF SyncInv, PlanOf
<1> QED
  BY <1>11, <1>12, <1>13 DEF SyncInv

LEMMA SyncStep == SyncInv /\ [SyncNext]_syncVars => SyncInv'
<1> SUFFICES ASSUME SyncInv, [SyncNext]_syncVars PROVE SyncInv'
  OBVIOUS
<1>1. ASSUME NEW t \in Tools, Run(t) PROVE SyncInv'
  <2>1. CASE \E off \in BOOLEAN : ListFacets(t, off)
    BY <2>1, FacetsListed
  <2>2. CASE ListSources(t)
    BY <2>2, SourcesListed
  <2>3. CASE Send(t)
    BY <2>3, Performed DEF Send, SyncInv, SyncState
  <2>4. CASE SendRefused(t)
    BY <2>4, GivenUp DEF SendRefused, SyncInv, SyncState
  <2> QED
    BY <1>1, <2>1, <2>2, <2>3, <2>4 DEF Run
<1>2. ASSUME NEW t \in Tools, Lose(t) PROVE SyncInv'
  <2>1. faults' \in 0 .. MaxFaults
    BY <1>2 DEF Lose, SyncInv, SyncState
  <2>2. CASE Perform(Head(tool[t].plan)) /\ Written(Head(tool[t].plan).item, Tools \ {t})
    BY <1>2, <2>1, <2>2, Performed DEF Lose
  <2>3. CASE UNCHANGED <<db, revision>> /\ Written(Head(tool[t].plan).item, {})
    BY <1>2, <2>1, <2>3, GivenUp DEF Lose
  <2> QED
    BY <1>2, <2>2, <2>3 DEF Lose
<1>3. ASSUME NEW i \in Items, Rewrite(i) \/ Switch(i) \/ \E k \in Kinds : Add(i, k)
      PROVE  SyncInv'
  <2>1. Has(db, i) => db[i] \in Record
    BY DEF Has, SyncInv, SyncState, Stored
  <2>2. CASE Rewrite(i)
    <3> DEFINE r == [db[i] EXCEPT !.text = 3, !.note = 3]
    <3>1. Edit(i, r) /\ r \in Record
      BY <2>1, <2>2 DEF Rewrite, Record
    <3> HIDE DEF r
    <3> QED
      BY <3>1, Edited
  <2>3. CASE Switch(i)
    <3> DEFINE r == [db[i] EXCEPT !.on = ~@]
    <3>1. Edit(i, r) /\ r \in Record
      BY <2>1, <2>3 DEF Switch, Record
    <3> HIDE DEF r
    <3> QED
      BY <3>1, Edited
  <2>4. CASE \E k \in Kinds : Add(i, k)
    <3>1. PICK k \in Kinds : Add(i, k)
      BY <2>4
    <3> DEFINE r == [kind |-> k, text |-> 2, note |-> 2, on |-> TRUE]
    <3>2. Edit(i, r) /\ r \in Record
      BY <3>1 DEF Add, Record
    <3> HIDE DEF r
    <3> QED
      BY <3>2, Edited
  <2> QED
    BY <1>3, <2>2, <2>3, <2>4
<1>4. CASE UNCHANGED syncVars
  BY <1>4 DEF syncVars, SyncInv, SyncState, PlanOf
<1> QED
  BY <1>1, <1>2, <1>3, <1>4 DEF SyncNext

\* What a run still has to send keeps what the file does not state.
THEOREM SyncInvariance == SyncSpec => []SyncInv
<1> QED
  BY SyncStarts, SyncStep, PTL DEF SyncSpec

\* The items that a run leaves as the file does not state them.
Surviving(i, t) ==
  \/ i \in edited[t]
  \/ /\ db'[i].note = db[i].note
     /\ \/ db'[i].on = db[i].on
        \/ tool[t].off /\ i \notin Listed /\ ~db'[i].on

LEMMA RequestsKeep ==
  ASSUME SyncInv, NEW t \in Tools, tool[t].pc = "sending", Perform(Head(tool[t].plan)),
         NEW i \in Items, Has(db, i)
  PROVE  Surviving(i, t)
<1> DEFINE q == Head(tool[t].plan)
<1>1. /\ tool[t].plan \in Seq(Request) /\ tool[t].plan # <<>> /\ q \in Request
      /\ SafeToSend(db, edited[t], tool[t].plan, tool[t].off)
  BY NextRequest
<1>2. q = tool[t].plan[1] /\ 1 \in 1 .. Len(tool[t].plan)
  BY <1>1, HeadTailProperties
<1>3. db \in Stored /\ db' = [db EXCEPT ![q.item] = q.to] /\ ~Refused(q)
  BY DEF Perform, SyncInv, SyncState
<1>4. CASE q.item # i
  <2> HIDE DEF q
  <2> QED
    BY <1>3, <1>4 DEF Surviving, Stored
<1>5. CASE q.item = i
  <2>1. q.op = "patch"
    BY <1>1, <1>3, <1>5 DEF Refused, Request
  <2>2. i \notin edited[t] => Keeps(q, db, tool[t].off)
    BY <1>1, <1>2, <1>5, <2>1 DEF SafeToSend
  <2>3. db'[i] = q.to
    <3> HIDE DEF q
    <3> QED
      BY <1>3, <1>5 DEF Stored
  <2> QED
    BY <1>5, <2>2, <2>3 DEF Surviving, Keeps
<1> QED
  BY <1>4, <1>5

\* EditsSurvive: a run of the tool changes what the file does not state only for
\* an item that somebody else wrote behind its back.
THEOREM EditsSurviveHolds == SyncSpec => EditsSurvive
<1>1. ASSUME SyncInv, [SyncNext]_syncVars, NEW i \in Items, NEW t \in Tools,
             edits' = edits, tool[t].pc = "sending", tool'[t] # tool[t], Has(db, i)
      PROVE  Surviving(i, t)
  <2>1. ASSUME UNCHANGED db PROVE Surviving(i, t)
    BY <2>1 DEF Surviving
  <2>2. ASSUME NEW u \in Tools, NEW todo, GoesOn(u, todo) PROVE u = t
    BY <1>1, <2>2 DEF GoesOn, SyncInv, SyncState
  <2>3. ASSUME NEW u \in Tools, Run(u) \/ Lose(u) PROVE Surviving(i, t)
    <3>1. CASE \E off \in BOOLEAN : ListFacets(u, off)
      BY <2>1, <3>1 DEF ListFacets
    <3>2. CASE ListSources(u)
      BY <2>1, <3>2 DEF ListSources
    <3>3. CASE Send(u)
      BY <1>1, <2>2, <3>3, RequestsKeep DEF Send
    <3>4. CASE SendRefused(u)
      BY <2>1, <3>4 DEF SendRefused
    <3>5. CASE Lose(u)
      BY <1>1, <2>1, <2>2, <3>5, RequestsKeep DEF Lose
    <3> QED
      BY <2>3, <3>1, <3>2, <3>3, <3>4, <3>5 DEF Run
  <2>4. ASSUME NEW j \in Items, NEW r, Edit(j, r) PROVE FALSE
    BY <1>1, <2>4 DEF Edit, SyncInv, SyncState
  <2>5. ASSUME UNCHANGED syncVars PROVE FALSE
    BY <1>1, <2>5 DEF syncVars
  <2>6. ASSUME NEW j \in Items, Rewrite(j) \/ Switch(j) \/ \E k \in Kinds : Add(j, k) PROVE FALSE
    BY <2>4, <2>6 DEF Rewrite, Switch, Add
  <2> QED
    BY <1>1, <2>3, <2>5, <2>6 DEF SyncNext
<1>2. SyncInv /\ [SyncNext]_syncVars =>
        [\A i \in Items, t \in Tools :
           edits' = edits /\ tool[t].pc = "sending" /\ tool'[t] # tool[t] /\ Has(db, i) =>
             \/ i \in edited[t]
             \/ /\ db'[i].note = db[i].note
                /\ \/ db'[i].on = db[i].on
                   \/ tool[t].off /\ i \notin Listed /\ ~db'[i].on]_syncVars
  BY <1>1 DEF Surviving
<1> QED
  BY <1>2, SyncInvariance, PTL DEF SyncSpec, EditsSurvive
=============================================================================
