----------------------------- MODULE Inductions -----------------------------
(***************************************************************************)
(* What the proofs of the other modules need of numbers, finite sets and    *)
(* sequences and the library does not offer without an operator as a        *)
(* parameter: induction with a set in the place of a predicate, functions   *)
(* that meet a recursion, sums over finite sets, sorted sequences.          *)
(* RECURSIVE is not used by the models these are for: the folds of the      *)
(* community modules choose a function that meets their recursion, and what *)
(* is said here of every such function is then said of theirs.              *)
(***************************************************************************)
EXTENDS Integers, FiniteSets, Sequences, SequencesExt, Functions, FiniteSetTheorems,
        WellFoundedInduction, TLAPS

-----------------------------------------------------------------------------
(* Numbers *)

\* A set of numbers has a least one.  Induction over numbers is done with it: the
\* least counterexample has a predecessor that is none.
LEMMA LeastNumber ==
  ASSUME NEW T \in SUBSET Nat, T # {}
  PROVE  \E m \in T : \A n \in T : m <= n
<1> DEFINE below == {p \in Nat \X Nat : p[1] < p[2]}
<1>1. IsWellFoundedOn(below, Nat)
  BY NatLessThanWellFounded DEF OpToRel
<1>2. PICK m \in T : \A n \in T : <<n, m>> \notin below
  BY <1>1, WFMin
<1>3. ASSUME NEW n \in T PROVE m <= n
  <2>1. m \in Nat /\ n \in Nat
    OBVIOUS
  <2>2. ~(n < m)
    BY <1>2, <2>1
  <2> QED
    BY <2>1, <2>2
<1> QED
  BY <1>3

\* Induction up to a number, with a set in the place of a predicate.
LEMMA UpTo ==
  ASSUME NEW N \in Nat, NEW S, 0 \in S, \A n \in 1 .. N : n - 1 \in S => n \in S
  PROVE  0 .. N \subseteq S
<1> DEFINE below == {p \in Nat \X Nat : p[1] < p[2]}
           Bad == {n \in 0 .. N : n \notin S}
<1>1. SUFFICES ASSUME Bad # {} PROVE FALSE
  OBVIOUS
<1>2. IsWellFoundedOn(below, Nat)
  BY NatLessThanWellFounded DEF OpToRel
<1>3. Bad \in SUBSET Nat
  OBVIOUS
<1>4. PICK m \in Bad : \A n \in Bad : <<n, m>> \notin below
  <2> HIDE DEF Bad, below
  <2> QED
    BY <1>1, <1>2, <1>3, WFMin
<1>5. m \in 1 .. N /\ m - 1 \in 0 .. N /\ m \notin S
  OBVIOUS
<1>6. <<m - 1, m>> \in below
  BY <1>5
<1>7. m - 1 \in S
  BY <1>4, <1>5, <1>6
<1> QED
  BY <1>5, <1>7

\* A set of numbers up to n has a greatest.
LEMMA MaxIn ==
  ASSUME NEW N \in Nat, NEW T \in SUBSET (1 .. N), T # {}
  PROVE  Max(T) \in T /\ \A m \in T : m <= Max(T)
<1> DEFINE Good == {k \in 0 .. N : \E n \in T : k <= n}
<1>1. ASSUME \A n \in T : \E m \in T : n < m PROVE FALSE
  <2>1. 0 \in Good
    <3>1. PICK n : n \in T
      OBVIOUS
    <3>2. 0 <= n
      BY <3>1
    <3> QED
      BY <3>1, <3>2
  <2>2. ASSUME NEW k \in 1 .. N, k - 1 \in Good PROVE k \in Good
    <3>1. PICK n \in T : k - 1 <= n
      BY <2>2
    <3>2. PICK m \in T : n < m
      BY <1>1
    <3>3. k <= m
      BY <3>1, <3>2
    <3> QED
      BY <3>3
  <2>3. N \in Good
    <3> HIDE DEF Good
    <3>1. 0 .. N \subseteq Good
      BY <2>1, <2>2, UpTo
    <3> QED
      BY <3>1
  <2>4. PICK n \in T : N <= n
    BY <2>3
  <2>5. PICK m \in T : n < m
    BY <1>1
  <2> QED
    BY <2>4, <2>5
<1>2. PICK n \in T : ~\E m \in T : n < m
  BY <1>1
<1>3. \E x \in T : \A y \in T : x >= y
  <2>1. \A y \in T : n >= y
    BY <1>2
  <2> QED
    BY <2>1
<1>4. Max(T) \in T /\ \A y \in T : Max(T) >= y
  BY <1>3 DEF Max
<1> QED
  BY <1>4

LEMMA MaxIs ==
  ASSUME NEW k \in Nat \ {0}, NEW T \in SUBSET (1 .. k), k \in T
  PROVE  Max(T) = k
<1>1. Max(T) \in T /\ \A m \in T : m <= Max(T)
  BY MaxIn
<1>2. k <= Max(T) /\ Max(T) \in 1 .. k
  BY <1>1
<1> QED
  BY <1>2

\* A set of places is finite.
LEMMA PlacesAreFinite ==
  ASSUME NEW n \in Nat, NEW S \in SUBSET (1 .. n)
  PROVE  IsFiniteSet(S) /\ Cardinality(S) \in Nat /\ Cardinality(S) <= n
<1>1. IsFiniteSet(1 .. n) /\ Cardinality(1 .. n) = n
  BY FS_Interval
<1>2. IsFiniteSet(S) /\ Cardinality(S) <= Cardinality(1 .. n)
  BY <1>1, FS_Subset
<1> QED
  BY <1>1, <1>2, FS_CardinalityType

-----------------------------------------------------------------------------
(* Recursions and folds over sequences *)

\* Step n makes an element of S from the one before it.
Stepwise(step, n, S) == step \in [1 .. n -> [S -> S]]

Recurs(f, N, S, start, step) ==
  /\ f \in [0 .. N -> S]
  /\ \A n \in 0 .. N : f[n] = IF n = 0 THEN start ELSE step[n][f[n - 1]]

\* A recursion from each number to the next is met by some function.
LEMMA Recursion ==
  ASSUME NEW N \in Nat, NEW S, NEW start \in S, NEW step, Stepwise(step, N, S)
  PROVE  \E f : Recurs(f, N, S, start, step)
<1> USE DEF Stepwise
<1> DEFINE Meets(f, k) == \A n \in 0 .. k : f[n] = IF n = 0 THEN start ELSE step[n][f[n - 1]]
           Good == {k \in 0 .. N : \E f \in [0 .. N -> S] : Meets(f, k)}
<1>1. 0 \in Good
  <2>1. PICK h : h = [n \in 0 .. N |-> start]
    OBVIOUS
  <2>2. h \in [0 .. N -> S] /\ h[0] = start /\ 0 .. 0 = {0}
    BY <2>1
  <2>3. Meets(h, 0)
    BY <2>2
  <2> QED
    BY <2>2, <2>3
<1>2. ASSUME NEW k \in 1 .. N, k - 1 \in Good PROVE k \in Good
  <2>1. PICK f \in [0 .. N -> S] : Meets(f, k - 1)
    BY <1>2
  <2> DEFINE g == [f EXCEPT ![k] = step[k][f[k - 1]]]
  <2>2. f[k - 1] \in S /\ step[k][f[k - 1]] \in S
    OBVIOUS
  <2>3. g \in [0 .. N -> S] /\ g[k] = step[k][f[k - 1]] /\ \A n \in 0 .. N : n # k => g[n] = f[n]
    BY <2>2
  <2> HIDE DEF g
  <2>4. ASSUME NEW n \in 0 .. k PROVE g[n] = IF n = 0 THEN start ELSE step[n][g[n - 1]]
    <3>1. n # 0 => n - 1 \in 0 .. N /\ n - 1 # k /\ g[n - 1] = f[n - 1]
      BY <2>3
    <3>2. CASE n = k
      <4>1. k # 0 /\ g[k - 1] = f[k - 1] /\ g[k] = step[k][f[k - 1]]
        BY <2>3, <3>1, <3>2
      <4> QED
        BY <3>2, <4>1
    <3>3. CASE n # k
      <4>1. n \in 0 .. k - 1 /\ n \in 0 .. N /\ g[n] = f[n]
        BY <2>3, <3>3
      <4>2. f[n] = IF n = 0 THEN start ELSE step[n][f[n - 1]]
        BY <2>1, <4>1
      <4>3. n # 0 => g[n - 1] = f[n - 1]
        BY <3>1
      <4> QED
        BY <4>1, <4>2, <4>3
    <3> QED
      BY <3>2, <3>3
  <2>5. \E h : /\ h \in [0 .. N -> S]
               /\ \A n \in 0 .. k : h[n] = IF n = 0 THEN start ELSE step[n][h[n - 1]]
    BY <2>3, <2>4, Zenon
  <2>6. k \in 0 .. N
    OBVIOUS
  <2> QED
    BY <2>5, <2>6
<1>3. N \in Good
  <2> HIDE DEF Good
  <2>1. 0 .. N \subseteq Good
    BY <1>1, <1>2, UpTo
  <2> QED
    BY <2>1
<1> QED
  BY <1>3 DEF Recurs

\* What a fold defines for each set of places.
Iterates(it, n, S, base, step) ==
  /\ it \in [SUBSET (1 .. n) -> S]
  /\ \A s \in SUBSET (1 .. n) : it[s] = IF s = {} THEN base ELSE step[Max(s)][it[s \ {Max(s)}]]

\* The recursion of a fold is met by some function.
LEMMA Folding ==
  ASSUME NEW N \in Nat, NEW S, NEW base \in S, NEW step, Stepwise(step, N, S)
  PROVE  \E it : Iterates(it, N, S, base, step)
<1> USE DEF Stepwise
<1> DEFINE Good == {k \in 0 .. N : \E it : Iterates(it, k, S, base, step)}
<1>1. 0 \in Good
  <2>1. PICK it : it = [s \in SUBSET (1 .. 0) |-> base]
    OBVIOUS
  <2>2. \A s \in SUBSET (1 .. 0) : s = {}
    OBVIOUS
  <2>3. it \in [SUBSET (1 .. 0) -> S] /\ \A s \in SUBSET (1 .. 0) : it[s] = base
    BY <2>1
  <2>4. Iterates(it, 0, S, base, step)
    BY <2>2, <2>3 DEF Iterates
  <2> QED
    BY <2>4
<1>2. ASSUME NEW k \in 1 .. N, k - 1 \in Good PROVE k \in Good
  <2>1. PICK it : Iterates(it, k - 1, S, base, step)
    BY <1>2
  <2> DEFINE old == SUBSET (1 .. (k - 1))
             new == SUBSET (1 .. k)
             on == [s \in new |-> IF k \in s THEN step[k][it[s \ {k}]] ELSE it[s]]
  <2>2. /\ it \in [old -> S]
        /\ \A s \in old : it[s] = IF s = {} THEN base ELSE step[Max(s)][it[s \ {Max(s)}]]
    BY <2>1 DEF Iterates
  <2>3. \A s \in new : s \ {k} \in old /\ (k \notin s => s \in old)
    OBVIOUS
  <2>4. step[k] \in [S -> S] /\ k \in Nat \ {0}
    OBVIOUS
  <2> HIDE DEF old, new
  <2>5. \A s \in new : (IF k \in s THEN step[k][it[s \ {k}]] ELSE it[s]) \in S
    BY <2>2, <2>3, <2>4
  <2>6. on \in [new -> S]
    BY <2>5
  <2>7. \A s \in new : on[s] = IF k \in s THEN step[k][it[s \ {k}]] ELSE it[s]
    OBVIOUS
  <2>8. \A s \in old : s \in new /\ k \notin s
    BY DEF old, new
  <2>9. \A s \in old : on[s] = it[s]
    BY <2>7, <2>8
  <2> HIDE DEF on
  <2>10. ASSUME NEW s \in new
         PROVE  on[s] = IF s = {} THEN base ELSE step[Max(s)][on[s \ {Max(s)}]]
    <3>1. CASE k \in s
      <4>1. Max(s) = k
        BY <2>4, <3>1, MaxIs DEF new
      <4>2. on[s \ {k}] = it[s \ {k}]
        BY <2>3, <2>9
      <4> QED
        BY <2>7, <3>1, <4>1, <4>2
    <3>2. CASE k \notin s
      <4>1. s \in old /\ s \ {Max(s)} \in old
        BY <2>3, <3>2 DEF old
      <4> QED
        BY <2>2, <2>9, <4>1
    <3> QED
      BY <3>1, <3>2
  <2>11. Iterates(on, k, S, base, step)
    BY <2>6, <2>10 DEF Iterates, new
  <2>12. k \in 0 .. N
    OBVIOUS
  <2> QED
    BY <2>11, <2>12
<1>3. N \in Good
  <2> HIDE DEF Good
  <2>1. 0 .. N \subseteq Good
    BY <1>1, <1>2, UpTo
  <2> QED
    BY <2>1
<1> QED
  BY <1>3

-----------------------------------------------------------------------------
(* Finite sets *)

\* A set is good when it is good without any one of its elements.
Hereditary(Good, S) == \A T \in SUBSET S : (\A x \in T : T \ {x} \in Good) => T \in Good

\* Induction over the subsets of a finite set, with a set in the place of a predicate.
LEMMA BySize ==
  ASSUME NEW S, IsFiniteSet(S), NEW Good, Hereditary(Good, S)
  PROVE  SUBSET S \subseteq Good
<1> DEFINE N == Cardinality(S)
           Done == {n \in 0 .. N : \A T \in SUBSET S : Cardinality(T) = n => T \in Good}
<1>1. N \in Nat
  BY FS_CardinalityType
<1>2. ASSUME NEW T \in SUBSET S
      PROVE  IsFiniteSet(T) /\ Cardinality(T) \in 0 .. N
  <2>1. IsFiniteSet(T) /\ Cardinality(T) <= N
    BY FS_Subset
  <2> QED
    BY <1>1, <2>1, FS_CardinalityType
<1>3. 0 \in Done
  <2>1. ASSUME NEW T \in SUBSET S, Cardinality(T) = 0 PROVE T \in Good
    <3>1. T = {}
      BY <1>2, <2>1, FS_EmptySet
    <3> QED
      BY <3>1 DEF Hereditary
  <2> QED
    BY <1>1, <2>1
<1>4. ASSUME NEW n \in 1 .. N, n - 1 \in Done PROVE n \in Done
  <2>1. ASSUME NEW T \in SUBSET S, Cardinality(T) = n PROVE T \in Good
    <3>1. ASSUME NEW x \in T PROVE T \ {x} \in Good
      <4>1. Cardinality(T \ {x}) = n - 1
        BY <1>2, <2>1, FS_RemoveElement
      <4>2. T \ {x} \in SUBSET S
        OBVIOUS
      <4> QED
        BY <1>4, <4>1, <4>2
    <3>2. \A x \in T : T \ {x} \in Good
      BY <3>1
    <3>3. (\A x \in T : T \ {x} \in Good) => T \in Good
      BY Zenon DEF Hereditary
    <3> QED
      BY <3>2, <3>3
  <2>2. n \in 0 .. N
    BY <1>1
  <2> QED
    BY <2>1, <2>2
<1> HIDE DEF Done, N
<1>5. 0 .. N \subseteq Done
  BY <1>1, <1>3, <1>4, UpTo
<1> QED
  BY <1>2, <1>5 DEF Done

-----------------------------------------------------------------------------
(* Folds over sets *)

OneOf(s) == CHOOSE x \in s : TRUE

LEMMA OneOfIn == ASSUME NEW s, s # {} PROVE OneOf(s) \in s
BY DEF OneOf

\* Step x of a fold, for each x in S, makes an element of V from another.
Makes(step, S, V) == step \in [S -> [V -> V]]

\* What a fold defines for each subset of S.
Gathers(it, S, V, base, step) ==
  /\ it \in [SUBSET S -> V]
  /\ it = [s \in SUBSET S |-> IF s = {} THEN base ELSE step[OneOf(s)][it[s \ {OneOf(s)}]]]

\* Some function meets the recursion, and has its values in V.
LEMMA Gathering ==
  ASSUME NEW S, IsFiniteSet(S), NEW V, NEW base \in V, NEW step, Makes(step, S, V)
  PROVE  \E it : Gathers(it, S, V, base, step)
<1> USE DEF Makes
<1> DEFINE N == Cardinality(S)
           Small(n) == {s \in SUBSET S : Cardinality(s) <= n}
           Meets(it, n) ==
             /\ it \in [Small(n) -> V]
             /\ \A s \in Small(n) : it[s] = IF s = {} THEN base ELSE step[OneOf(s)][it[s \ {OneOf(s)}]]
           Good == {n \in 0 .. N : \E it : Meets(it, n)}
<1>1. N \in Nat
  BY FS_CardinalityType
<1>2. ASSUME NEW s \in SUBSET S
      PROVE  /\ Cardinality(s) \in Nat /\ Cardinality(s) <= N
             /\ Cardinality(s) = 0 <=> s = {}
             /\ s # {} => /\ OneOf(s) \in S /\ s \ {OneOf(s)} \in SUBSET S
                          /\ Cardinality(s \ {OneOf(s)}) = Cardinality(s) - 1
  <2>1. IsFiniteSet(s) /\ Cardinality(s) <= N
    BY FS_Subset
  <2>2. Cardinality(s) \in Nat /\ (Cardinality(s) = 0 <=> s = {})
    BY <2>1, FS_CardinalityType, FS_EmptySet
  <2>3. s # {} => OneOf(s) \in s
    BY OneOfIn
  <2>4. s # {} => Cardinality(s \ {OneOf(s)}) = Cardinality(s) - 1
    BY <2>1, <2>3, FS_RemoveElement
  <2> QED
    BY <1>1, <2>1, <2>2, <2>3, <2>4
<1>3. 0 \in Good
  <2>1. PICK it : it = [s \in Small(0) |-> base]
    OBVIOUS
  <2>2. ASSUME NEW s \in Small(0) PROVE s = {}
    <3>1. /\ Cardinality(s) \in Nat /\ Cardinality(s) <= 0
          /\ Cardinality(s) = 0 <=> s = {}
      BY <1>2
    <3>2. Cardinality(s) = 0
      BY <3>1
    <3> QED
      BY <3>1, <3>2
  <2>3. Meets(it, 0)
    BY <2>1, <2>2
  <2>4. 0 \in 0 .. N
    BY <1>1
  <2> HIDE DEF Meets, N
  <2> QED
    BY <2>3, <2>4
<1>4. ASSUME NEW n \in 1 .. N, n - 1 \in Good PROVE n \in Good
  <2>1. PICK it : Meets(it, n - 1)
    BY <1>4
  <2> DEFINE next(s) == IF s = {} THEN base ELSE step[OneOf(s)][it[s \ {OneOf(s)}]]
             new == [s \in Small(n) |-> next(s)]
  <2>2. ASSUME NEW s \in Small(n)
        PROVE  /\ s = {} \/ (OneOf(s) \in S /\ s \ {OneOf(s)} \in Small(n - 1))
               /\ next(s) \in V
    <3>1. s \in SUBSET S /\ Cardinality(s) <= n /\ Cardinality(s) \in Nat
      BY <1>2
    <3>2. s # {} => /\ OneOf(s) \in S /\ s \ {OneOf(s)} \in SUBSET S
                    /\ Cardinality(s \ {OneOf(s)}) = Cardinality(s) - 1
      BY <1>2, <3>1
    <3>3. s # {} => s \ {OneOf(s)} \in Small(n - 1)
      BY <3>1, <3>2
    <3> HIDE DEF Small
    <3> QED
      BY <2>1, <3>2, <3>3
  <2>3. \A s \in Small(n - 1) : s \in Small(n) /\ new[s] = it[s]
    <3>1. ASSUME NEW s \in Small(n - 1) PROVE s \in Small(n)
      <4>1. s \in SUBSET S /\ Cardinality(s) \in Nat /\ Cardinality(s) <= n - 1
        BY <1>2
      <4> QED
        BY <1>1, <4>1
    <3> HIDE DEF Small
    <3> QED
      BY <2>1, <3>1
  <2>4. Meets(new, n)
    <3>1. new \in [Small(n) -> V]
      BY <2>2
    <3>2. ASSUME NEW s \in Small(n)
          PROVE  new[s] = IF s = {} THEN base ELSE step[OneOf(s)][new[s \ {OneOf(s)}]]
      <4>1. new[s] = next(s)
        OBVIOUS
      <4> HIDE DEF new, Small
      <4> QED
        BY <2>2, <2>3, <4>1
    <3> HIDE DEF new, Small
    <3> QED
      BY <3>1, <3>2
  <2>5. n \in 0 .. N
    BY <1>1
  <2> HIDE DEF Meets, new
  <2> QED
    BY <2>4, <2>5
<1>5. N \in Good
  <2> HIDE DEF Good, N
  <2>1. 0 .. N \subseteq Good
    BY <1>1, <1>3, <1>4, UpTo
  <2> QED
    BY <1>1, <2>1
<1>6. PICK it : Meets(it, N)
  BY <1>5
<1>7. Small(N) = SUBSET S
  BY <1>1, <1>2
<1> HIDE DEF Small
<1>8. it \in [SUBSET S -> V] /\ it = [s \in SUBSET S |-> it[s]]
  BY <1>6, <1>7
<1>9. \A s \in SUBSET S : it[s] = IF s = {} THEN base ELSE step[OneOf(s)][it[s \ {OneOf(s)}]]
  BY <1>6, <1>7
<1> QED
  BY <1>8, <1>9 DEF Gathers
-----------------------------------------------------------------------------
(* Sums over finite sets *)

Summable(S, w) == IsFiniteSet(S) /\ \A x \in S : w[x] \in Int

LEMMA SummableLess == ASSUME NEW S, NEW w, Summable(S, w), NEW R \in SUBSET S PROVE Summable(R, w)
BY FS_Subset DEF Summable

\* What a sum defines for each subset of S.
Sums(it, S, w) == it = [s \in SUBSET S |-> IF s = {} THEN 0 ELSE w[OneOf(s)] + it[s \ {OneOf(s)}]]

LEMMA SumsRecur ==
  ASSUME NEW S, NEW w, NEW it, Sums(it, S, w), NEW s \in SUBSET S
  PROVE  it[s] = IF s = {} THEN 0 ELSE w[OneOf(s)] + it[s \ {OneOf(s)}]
BY Zenon DEF Sums

LEMMA SumsExist ==
  ASSUME NEW S, NEW w, Summable(S, w)
  PROVE  \E it : it \in [SUBSET S -> Int] /\ Sums(it, S, w)
<1> USE DEF Summable
<1>1. PICK step : step = [x \in S |-> [v \in Int |-> w[x] + v]]
  OBVIOUS
<1>2. Makes(step, S, Int)
  BY <1>1 DEF Makes
<1>3. PICK it : Gathers(it, S, Int, 0, step)
  <2>1. 0 \in Int
    OBVIOUS
  <2> QED
    BY <1>2, <2>1, Gathering
<1>4. ASSUME NEW s \in SUBSET S
      PROVE  it[s] = IF s = {} THEN 0 ELSE w[OneOf(s)] + it[s \ {OneOf(s)}]
  <2>1. it[s] = IF s = {} THEN 0 ELSE step[OneOf(s)][it[s \ {OneOf(s)}]]
    BY <1>3, Zenon DEF Gathers
  <2>2. s # {} => OneOf(s) \in S /\ it[s \ {OneOf(s)}] \in Int
    <3>1. it \in [SUBSET S -> Int]
      BY <1>3 DEF Gathers
    <3> QED
      BY <3>1, OneOfIn
  <2> QED
    BY <1>1, <2>1, <2>2
<1>5. it \in [SUBSET S -> Int] /\ it = [s \in SUBSET S |-> it[s]]
  BY <1>3 DEF Gathers
<1>6. Sums(it, S, w)
  BY <1>4, <1>5 DEF Sums
<1> QED
  BY <1>5, <1>6

LEMMA SumsOnce ==
  ASSUME NEW S, IsFiniteSet(S), NEW R \in SUBSET S, NEW w, NEW it, Sums(it, S, w),
         NEW on, Sums(on, R, w)
  PROVE  on[R] = it[R]
<1> DEFINE Good == {s \in SUBSET R : on[s] = it[s]}
<1>1. IsFiniteSet(R)
  BY FS_Subset
<1>2. ASSUME NEW s \in SUBSET R, \A x \in s : s \ {x} \in Good PROVE s \in Good
  <2>1. s \in SUBSET S
    OBVIOUS
  <2>2. /\ it[s] = IF s = {} THEN 0 ELSE w[OneOf(s)] + it[s \ {OneOf(s)}]
        /\ on[s] = IF s = {} THEN 0 ELSE w[OneOf(s)] + on[s \ {OneOf(s)}]
    BY <2>1, SumsRecur
  <2>3. s # {} => on[s \ {OneOf(s)}] = it[s \ {OneOf(s)}]
    BY <1>2, OneOfIn
  <2> QED
    BY <2>2, <2>3
<1>3. Hereditary(Good, R)
  BY <1>2 DEF Hereditary
<1> HIDE DEF Good
<1>4. SUBSET R \subseteq Good
  BY <1>1, <1>3, BySize
<1>5. R \in Good
  BY <1>4
<1> QED
  BY <1>5 DEF Good

\* A sum of the library is the value of each such function.
Totals(it, S, w) ==
  /\ it \in [SUBSET S -> Int] /\ Sums(it, S, w)
  /\ \A R \in SUBSET S : SumFunctionOnSet(w, R) = it[R]

LEMMA SumIs ==
  ASSUME NEW S, NEW w, Summable(S, w)
  PROVE  \E it : Totals(it, S, w)
<1>1. PICK it : it \in [SUBSET S -> Int] /\ Sums(it, S, w)
  BY SumsExist
<1>2. ASSUME NEW R \in SUBSET S PROVE SumFunctionOnSet(w, R) = it[R]
  <2> DEFINE on == CHOOSE on : Sums(on, R, w)
  <2>1. SumFunctionOnSet(w, R) = on[R]
    BY DEF SumFunctionOnSet, FoldFunctionOnSet, MapThenFoldSet, Sums, OneOf
  <2>2. \E of : Sums(of, R, w)
    BY SummableLess, SumsExist
  <2>3. Sums(on, R, w)
    BY <2>2, Zenon
  <2> HIDE DEF on
  <2> QED
    BY <1>1, <2>1, <2>3, SumsOnce DEF Summable
<1> QED
  BY <1>1, <1>2 DEF Totals

LEMMA SumEmpty == ASSUME NEW w PROVE SumFunctionOnSet(w, {}) = 0
<1>1. Summable({}, w)
  BY FS_EmptySet DEF Summable
<1>2. PICK it : Totals(it, {}, w)
  BY <1>1, SumIs
<1>3. {} \in SUBSET {}
  OBVIOUS
<1>4. it[{}] = 0
  <2>1. Sums(it, {}, w)
    BY <1>2 DEF Totals
  <2>2. PICK e : e = {}
    OBVIOUS
  <2>3. it[e] = IF e = {} THEN 0 ELSE w[OneOf(e)] + it[e \ {OneOf(e)}]
    BY <1>3, <2>1, <2>2, SumsRecur
  <2> QED
    BY <2>2, <2>3
<1> QED
  BY <1>2, <1>3, <1>4 DEF Totals

LEMMA SumType ==
  ASSUME NEW S, NEW w, Summable(S, w)
  PROVE  SumFunctionOnSet(w, S) \in Int
<1>1. PICK it : Totals(it, S, w)
  BY SumIs
<1> QED
  BY <1>1 DEF Totals

\* Any element may be taken out first.
LEMMA SumLess ==
  ASSUME NEW S, NEW w, Summable(S, w), NEW x \in S
  PROVE  SumFunctionOnSet(w, S) = w[x] + SumFunctionOnSet(w, S \ {x})
<1>1. PICK it : Totals(it, S, w)
  BY SumIs
<1> DEFINE Good == {s \in SUBSET S : \A y \in s : it[s] = w[y] + it[s \ {y}]}
<1>2. ASSUME NEW s \in SUBSET S, \A y \in s : s \ {y} \in Good PROVE s \in Good
  <2>1. ASSUME NEW y \in s PROVE it[s] = w[y] + it[s \ {y}]
    <3>1. PICK a : a = OneOf(s)
      OBVIOUS
    <3>2. a \in s /\ it[s] = w[a] + it[s \ {a}]
      <4>1. a \in s /\ Sums(it, S, w)
        BY <1>1, <3>1, OneOfIn DEF Totals
      <4> QED
        BY <3>1, <4>1, SumsRecur
    <3>3. CASE a = y
      BY <3>2, <3>3
    <3>4. CASE a # y
      <4>1. PICK r : r = (s \ {a}) \ {y}
        OBVIOUS
      <4>2. y \in s \ {a} /\ a \in s \ {y} /\ r = (s \ {y}) \ {a} /\ r \in SUBSET S
        BY <3>2, <3>4, <4>1
      <4>3. it[s \ {a}] = w[y] + it[r]
        BY <1>2, <3>2, <4>1, <4>2
      <4>4. it[s \ {y}] = w[a] + it[r]
        BY <1>2, <4>2
      <4>5. w[a] \in Int /\ w[y] \in Int /\ it[r] \in Int
        BY <1>1, <3>2, <4>2 DEF Totals, Summable
      <4> QED
        BY <3>2, <4>3, <4>4, <4>5
    <3> QED
      BY <3>3, <3>4
  <2> QED
    BY <2>1
<1>3. Hereditary(Good, S)
  BY <1>2 DEF Hereditary
<1> HIDE DEF Good
<1>4. SUBSET S \subseteq Good
  BY <1>3, BySize DEF Summable
<1>5. S \in Good
  BY <1>4
<1>6. it[S] = w[x] + it[S \ {x}]
  BY <1>5 DEF Good
<1> QED
  BY <1>1, <1>6 DEF Totals

LEMMA SumMore ==
  ASSUME NEW S, NEW w, NEW x, x \notin S, Summable(S \cup {x}, w)
  PROVE  SumFunctionOnSet(w, S \cup {x}) = w[x] + SumFunctionOnSet(w, S)
<1>1. (S \cup {x}) \ {x} = S /\ x \in S \cup {x}
  OBVIOUS
<1> QED
  BY <1>1, SumLess

\* Only the weights of its elements count.
LEMMA SumSame ==
  ASSUME NEW S, NEW w, NEW v, Summable(S, w), \A x \in S : w[x] = v[x]
  PROVE  SumFunctionOnSet(w, S) = SumFunctionOnSet(v, S)
<1>1. Summable(S, v)
  BY DEF Summable
<1>2. PICK it : Totals(it, S, w)
  BY SumIs
<1>3. PICK on : Totals(on, S, v)
  BY <1>1, SumIs
<1>4. Sums(it, S, w)
  BY <1>2 DEF Totals
<1>5. it = [s \in SUBSET S |-> it[s]]
  BY <1>2 DEF Totals
<1>6. \A s \in SUBSET S : it[s] = IF s = {} THEN 0 ELSE v[OneOf(s)] + it[s \ {OneOf(s)}]
  <2>1. ASSUME NEW s \in SUBSET S
        PROVE  it[s] = IF s = {} THEN 0 ELSE v[OneOf(s)] + it[s \ {OneOf(s)}]
    <3>1. it[s] = IF s = {} THEN 0 ELSE w[OneOf(s)] + it[s \ {OneOf(s)}]
      BY <1>4, SumsRecur
    <3>2. s # {} => w[OneOf(s)] = v[OneOf(s)]
      BY OneOfIn
    <3> QED
      BY <3>1, <3>2
  <2> QED
    BY <2>1
<1>7. Sums(it, S, v)
  BY <1>5, <1>6 DEF Sums
<1>8. on[S] = it[S]
  BY <1>3, <1>7, SumsOnce DEF Totals, Summable
<1> QED
  BY <1>2, <1>3, <1>8 DEF Totals

\* A sum of what is not negative is not negative.
LEMMA SumIsNat ==
  ASSUME NEW S, NEW w, IsFiniteSet(S), \A x \in S : w[x] \in Nat
  PROVE  SumFunctionOnSet(w, S) \in Nat
<1>1. Summable(S, w)
  BY DEF Summable
<1>2. PICK it : Totals(it, S, w)
  BY <1>1, SumIs
<1>s. Sums(it, S, w)
  BY <1>2 DEF Totals
<1> DEFINE Good == {s \in SUBSET S : it[s] \in Nat}
<1>3. ASSUME NEW s \in SUBSET S, \A x \in s : s \ {x} \in Good PROVE s \in Good
  <2>1. it[s] = IF s = {} THEN 0 ELSE w[OneOf(s)] + it[s \ {OneOf(s)}]
    BY <1>s, SumsRecur
  <2>2. s # {} => w[OneOf(s)] \in Nat /\ it[s \ {OneOf(s)}] \in Nat
    BY <1>3, OneOfIn
  <2> QED
    BY <2>1, <2>2
<1>4. Hereditary(Good, S)
  BY <1>3 DEF Hereditary
<1> HIDE DEF Good
<1>5. SUBSET S \subseteq Good
  BY <1>4, BySize
<1>6. S \in Good
  BY <1>5
<1> QED
  BY <1>2, <1>6 DEF Good, Totals

-----------------------------------------------------------------------------
(* Sorting *)

\* before is a strict order of all of S.
Linear(before, S) ==
  /\ \A x \in S : <<x, x>> \notin before
  /\ \A x, y, z \in S : <<x, y>> \in before /\ <<y, z>> \in before => <<x, z>> \in before
  /\ \A x, y \in S : x = y \/ <<x, y>> \in before \/ <<y, x>> \in before

Below(x, before, S) == {y \in S : <<y, x>> \in before}

Sorted(before, S) ==
  [k \in 1 .. Cardinality(S) |-> CHOOSE x \in S : Cardinality(Below(x, before, S)) = k - 1]

\* s lists S, each element once and in the order of before.
Lists(s, before, S) ==
  /\ s \in [1 .. Cardinality(S) -> S]
  /\ \A x \in S : \E k \in 1 .. Cardinality(S) : s[k] = x
  /\ \A i, j \in 1 .. Cardinality(S) : <<s[i], s[j]>> \in before <=> i < j

LEMMA SortedLists ==
  ASSUME NEW S, IsFiniteSet(S), NEW before, Linear(before, S)
  PROVE  Lists(Sorted(before, S), before, S)
<1> DEFINE N == Cardinality(S)
           rank == [x \in S |-> Cardinality(Below(x, before, S)) + 1]
           s == Sorted(before, S)
<1>1. N \in Nat
  BY FS_CardinalityType
<1>2. ASSUME NEW x \in S
      PROVE  IsFiniteSet(Below(x, before, S)) /\ Cardinality(Below(x, before, S)) \in 0 .. (N - 1)
  <2>1. Below(x, before, S) \in SUBSET (S \ {x})
    BY DEF Below, Linear
  <2>2. IsFiniteSet(S \ {x}) /\ Cardinality(S \ {x}) = N - 1
    BY FS_RemoveElement
  <2>3. /\ IsFiniteSet(Below(x, before, S))
        /\ Cardinality(Below(x, before, S)) <= N - 1
    BY <2>1, <2>2, FS_Subset
  <2> QED
    BY <1>1, <2>3, FS_CardinalityType
<1>3. rank \in [S -> 1 .. N]
  BY <1>1, <1>2
<1>4. ASSUME NEW x \in S, NEW y \in S, <<x, y>> \in before PROVE rank[x] < rank[y]
  <2> DEFINE X == Below(x, before, S)
             Y == Below(y, before, S)
  <2>1. X \cup {x} \in SUBSET Y /\ x \notin X
    BY <1>4 DEF Below, Linear
  <2>2. IsFiniteSet(X) /\ IsFiniteSet(Y) /\ Cardinality(X) \in Nat /\ Cardinality(Y) \in Nat
    BY <1>1, <1>2
  <2> HIDE DEF X, Y
  <2>3. Cardinality(X \cup {x}) = Cardinality(X) + 1
    BY <2>1, <2>2, FS_AddElement
  <2>4. Cardinality(X \cup {x}) <= Cardinality(Y)
    BY <2>1, <2>2, FS_Subset
  <2>5. Cardinality(X) + 1 < Cardinality(Y) + 1
    BY <2>2, <2>3, <2>4
  <2> QED
    BY <2>5 DEF X, Y
<1> HIDE DEF rank, N
<1>5. ASSUME NEW x \in S, NEW y \in S
      PROVE  (rank[x] = rank[y] => x = y) /\ (rank[x] < rank[y] <=> <<x, y>> \in before)
  <2>1. rank[x] \in Nat /\ rank[y] \in Nat
    BY <1>1, <1>3
  <2>2. CASE x = y
    <3>1. <<x, y>> \notin before
      BY <2>2 DEF Linear
    <3> QED
      BY <2>1, <2>2, <3>1
  <2>3. CASE <<x, y>> \in before
    BY <1>4, <2>1, <2>3
  <2>4. CASE <<y, x>> \in before
    <3>1. rank[y] < rank[x]
      BY <1>4, <2>4
    <3>2. <<x, y>> \notin before
      BY <2>4 DEF Linear
    <3> QED
      BY <2>1, <3>1, <3>2
  <2> QED
    BY <2>2, <2>3, <2>4 DEF Linear
<1>6. rank \in Injection(S, 1 .. N)
  BY <1>3, <1>5 DEF Injection, IsInjective
<1>7. IsFiniteSet(1 .. N) /\ Cardinality(1 .. N) = N
  <2>1. 1 \in Int /\ N \in Int /\ Cardinality(1 .. N) = IF 1 > N THEN 0 ELSE N - 1 + 1
    BY <1>1, FS_Interval
  <2>2. IsFiniteSet(1 .. N)
    BY <1>1, FS_Interval
  <2> QED
    BY <1>1, <2>1, <2>2
<1>8. rank \in Surjection(S, 1 .. N)
  BY <1>6, <1>7, FS_Injection DEF N
<1>9. ASSUME NEW k \in 1 .. N PROVE s[k] \in S /\ rank[s[k]] = k
  <2>1. PICK x \in S : rank[x] = k
    BY <1>8 DEF Surjection
  <2>2. Cardinality(Below(x, before, S)) = k - 1
    BY <1>1, <1>2, <2>1 DEF rank
  <2>3. s[k] = CHOOSE y \in S : Cardinality(Below(y, before, S)) = k - 1
    BY DEF Sorted, N
  <2>4. s[k] \in S /\ Cardinality(Below(s[k], before, S)) = k - 1
    BY <2>2, <2>3
  <2> QED
    BY <1>1, <2>4 DEF rank
<1>10. s = [k \in 1 .. N |-> s[k]]
  BY DEF Sorted, N
<1> HIDE DEF s
<1>11. s \in [1 .. N -> S]
  BY <1>9, <1>10
<1>12. ASSUME NEW x \in S PROVE \E k \in 1 .. N : s[k] = x
  BY <1>3, <1>5, <1>9
<1>13. ASSUME NEW i \in 1 .. N, NEW j \in 1 .. N PROVE <<s[i], s[j]>> \in before <=> i < j
  BY <1>5, <1>9
<1>14. Lists(s, before, S)
  BY <1>11, <1>12, <1>13 DEF Lists, N
<1> QED
  BY <1>14 DEF s

=============================================================================
