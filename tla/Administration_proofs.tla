----------------------- MODULE Administration_proofs -----------------------
(***************************************************************************)
(* Proofs about what administrators and editors are promised.               *)
(*                                                                          *)
(* LoginThrottle: for any number of clients, slots and waiting places, and  *)
(* however requests are cancelled, no more threads verify passwords than    *)
(* there are slots, and the counter that turns logins away returns to what  *)
(* it counts; and no address or account is guessed more often in a window   *)
(* than the cooldowns leave time for.  Principals: what a request is let in *)
(* for, its credentials are good for by the rows as they are.               *)
(*                                                                          *)
(* Labels: for any number of news, values, classifiers and workers, what    *)
(* an editor decided is what shows, and a label that the catalog has left   *)
(* behind has a job that will come to it.  A recompute reads the catalog    *)
(* in several statements, so the invariant says of each transaction that    *)
(* what it has read is still so or a job follows it: one that is not past   *)
(* the news, concerns its rows before and after the commit, and is not the  *)
(* transaction's own.                                                       *)
(*                                                                          *)
(* Examples: after any history of decisions, copies and edits, what a       *)
(* classifier is shown is what an editor last said of the text as it is.    *)
(*                                                                          *)
(* Scoring: for any rules and labels, the evaluation in the order of the    *)
(* rules gives what they deserve, said without an order of evaluation.      *)
(***************************************************************************)
EXTENDS MCLoginThrottle, MCLabels, Inductions

In(pc) == {c \in Clients : At(c, pc)}

\* The counters count requests; a thread works for one request each.
Counters ==
  /\ clock \in Nat /\ request \in [Clients -> Request]
  /\ threads = Cardinality(In("hashing")) /\ threads <= Slots
  /\ pending = Cardinality(In("queued")) + Cardinality(In("hashing"))

USE LoginThrottleAssumption

LEMMA Finite ==
  ASSUME NEW pc
  PROVE  IsFiniteSet(In(pc)) /\ Cardinality(In(pc)) \in Nat
BY FS_Subset, FS_CardinalityType DEF In

LEMMA RestingRequest == NoRequest \in Request /\ NoRequest.pc = "idle"
BY DEF NoRequest, Request

LEMMA InitCounters == Init => Counters
<1> SUFFICES ASSUME Init PROVE Counters
  OBVIOUS
<1>1. \A c \in Clients : At(c, "idle")
  BY RestingRequest DEF Init, At
<1>2. In("hashing") = {} /\ In("queued") = {}
  BY <1>1 DEF In, At
<1> QED
  BY <1>2, RestingRequest, FS_EmptySet DEF Init, Counters

\* A client that goes from one stage to another leaves the one and joins the other.
LEMMA Moved ==
  ASSUME Counters, NEW c \in Clients, NEW r \in Request,
         request' = [request EXCEPT ![c] = r]
  PROVE  \A pc :
    Cardinality(In(pc))' =
      Cardinality(In(pc)) + (IF r.pc = pc THEN 1 ELSE 0) - (IF At(c, pc) THEN 1 ELSE 0)
<1> SUFFICES ASSUME NEW pc
    PROVE Cardinality(In(pc))' =
      Cardinality(In(pc)) + (IF r.pc = pc THEN 1 ELSE 0) - (IF At(c, pc) THEN 1 ELSE 0)
  OBVIOUS
<1>1. /\ request'[c] = r /\ \A d \in Clients : d # c => request'[d] = request[d]
  BY DEF Counters
<1>2. IsFiniteSet(In(pc)) /\ Cardinality(In(pc)) \in Nat
  BY Finite
<1>3. CASE (r.pc = pc) <=> At(c, pc)
  <2>1. In(pc)' = In(pc)
    BY <1>1, <1>3 DEF In, At
  <2> QED
    BY <1>2, <1>3, <2>1
<1>4. CASE r.pc = pc /\ ~At(c, pc)
  <2>1. In(pc)' = In(pc) \cup {c} /\ c \notin In(pc)
    BY <1>1, <1>4 DEF In, At
  <2>2. Cardinality(In(pc) \cup {c}) = Cardinality(In(pc)) + 1
    BY <1>2, <2>1, FS_AddElement
  <2> QED
    BY <1>2, <1>4, <2>1, <2>2
<1>5. CASE r.pc # pc /\ At(c, pc)
  <2>1. In(pc)' = In(pc) \ {c} /\ c \in In(pc)
    BY <1>1, <1>5 DEF In, At
  <2>2. Cardinality(In(pc) \ {c}) = Cardinality(In(pc)) - 1
    BY <1>2, <2>1, FS_RemoveElement
  <2> QED
    BY <1>2, <1>5, <2>1, <2>2
<1> QED
  BY <1>3, <1>4, <1>5

LEMMA RequestMoves ==
  ASSUME Counters, NEW c \in Clients,
         NEW pc \in {"checking", "queued", "hashing", "judging"}
  PROVE  /\ [request[c] EXCEPT !.pc = pc] \in Request
         /\ [request[c] EXCEPT !.pc = pc].pc = pc
         /\ [request[c] EXCEPT !.cancelled = TRUE] \in Request
         /\ [request[c] EXCEPT !.cancelled = TRUE].pc = request[c].pc
<1>1. request[c] \in Request
  BY DEF Counters
<1> QED
  BY <1>1 DEF Request

Queued == Cardinality(In("queued"))
Hashing == Cardinality(In("hashing"))

\* What a request in a stage adds to the counters.
Thread(pc) == IF pc = "hashing" THEN 1 ELSE 0
Place(pc) == IF pc \in {"queued", "hashing"} THEN 1 ELSE 0

\* How a step of a client counts.
LEMMA Recount ==
  ASSUME Counters, NEW c \in Clients, NEW r \in Request,
         request' = [request EXCEPT ![c] = r],
         threads' = threads + Thread(r.pc) - Thread(request[c].pc),
         pending' = pending + Place(r.pc) - Place(request[c].pc),
         threads' <= Slots, clock' \in Nat
  PROVE  Counters'
<1>1. request' \in [Clients -> Request]
  BY DEF Counters
<1>2. Queued \in Nat /\ Hashing \in Nat
  BY Finite DEF Queued, Hashing
<1>3. Queued' = Queued + (IF r.pc = "queued" THEN 1 ELSE 0) - (IF At(c, "queued") THEN 1 ELSE 0)
  BY Moved DEF Queued
<1>4. Hashing' = Hashing + (IF r.pc = "hashing" THEN 1 ELSE 0) - (IF At(c, "hashing") THEN 1 ELSE 0)
  BY Moved DEF Hashing
<1>5. threads = Hashing /\ pending = Queued + Hashing
  BY DEF Counters, Queued, Hashing
<1>6. threads' = Hashing'
  BY <1>2, <1>4, <1>5 DEF Thread, At
<1>7. pending' = Queued' + Hashing'
  <2>1. CASE r.pc = "queued"
    BY <1>2, <1>3, <1>4, <1>5, <2>1 DEF At, Place
  <2>2. CASE r.pc = "hashing"
    BY <1>2, <1>3, <1>4, <1>5, <2>2 DEF At, Place
  <2>3. CASE r.pc \notin {"queued", "hashing"}
    BY <1>2, <1>3, <1>4, <1>5, <2>3 DEF At, Place
  <2> QED
    BY <2>1, <2>2, <2>3
<1> QED
  BY <1>1, <1>6, <1>7 DEF Counters, Queued, Hashing

LEMMA ClientStep ==
  ASSUME Counters, NEW c \in Clients,
         \/ \E address \in Addresses : LogIn(c, address)
         \/ TurnAway(c) \/ LookUp(c) \/ StartHashing(c) \/ EndHashing(c)
         \/ Cancel(c) \/ Fail(c) \/ Succeed(c)
  PROVE  Counters'
<1>1. /\ threads \in Nat /\ pending \in Nat /\ threads <= Slots /\ Slots \in Nat
      /\ threads = Cardinality(In("hashing"))
      /\ clock \in Nat
  BY Finite DEF Counters
<1>2. ASSUME NEW address \in Addresses, LogIn(c, address) PROVE Counters'
  <2> DEFINE r == [pc |-> "checking", moment |-> clock, address |-> address, cancelled |-> FALSE]
  <2>1. /\ request' = [request EXCEPT ![c] = r] /\ At(c, "idle")
        /\ threads' = threads /\ pending' = pending /\ clock' = clock
    BY <1>2 DEF LogIn, verifier
  <2>2. r \in Request /\ r.pc = "checking"
    BY DEF Request, Counters
  <2> HIDE DEF r
  <2>4. /\ Thread(r.pc) = 0 /\ Place(r.pc) = 0
        /\ Thread(request[c].pc) = 0 /\ Place(request[c].pc) = 0
    BY <2>1, <2>2 DEF At, Thread, Place
  <2>5. threads' = threads + Thread(r.pc) - Thread(request[c].pc)
    BY <1>1, <2>1, <2>2, <2>4
  <2>6. pending' = pending + Place(r.pc) - Place(request[c].pc)
    BY <1>1, <2>1, <2>2, <2>4
  <2>7. threads' <= Slots /\ clock' \in Nat
    BY <1>1, <2>1, <2>2, <2>4
  <2> QED
    BY <2>1, <2>2, <2>5, <2>6, <2>7, Recount
<1>3. ASSUME Finish(c), threads' = threads, pending' = pending, clock' = clock,
             At(c, "checking") \/ At(c, "judging")
      PROVE  Counters'
  <2>1. request' = [request EXCEPT ![c] = NoRequest]
    BY <1>3 DEF Finish
  <2>4. /\ Thread(NoRequest.pc) = 0 /\ Place(NoRequest.pc) = 0
        /\ Thread(request[c].pc) = 0 /\ Place(request[c].pc) = 0
    BY <1>3, RestingRequest DEF At, Thread, Place
  <2>5. threads' = threads + Thread(NoRequest.pc) - Thread(request[c].pc)
    BY <1>1, <1>3, <2>1, <2>4
  <2>6. pending' = pending + Place(NoRequest.pc) - Place(request[c].pc)
    BY <1>1, <1>3, <2>1, <2>4
  <2>7. threads' <= Slots /\ clock' \in Nat
    BY <1>1, <1>3, <2>1, <2>4
  <2> QED
    BY <2>1, RestingRequest, <2>5, <2>6, <2>7, Recount
<1>4. CASE TurnAway(c) \/ Fail(c) \/ Succeed(c)
  BY <1>3, <1>4 DEF TurnAway, Fail, Succeed, verifier
<1>5. CASE LookUp(c)
  <2> DEFINE r == [request[c] EXCEPT !.pc = "queued"]
  <2>1. /\ request' = [request EXCEPT ![c] = r] /\ At(c, "checking")
        /\ threads' = threads /\ pending' = pending + 1 /\ clock' = clock
    BY <1>5 DEF LookUp, Become
  <2>2. r \in Request /\ r.pc = "queued"
    BY RequestMoves
  <2> HIDE DEF r
  <2>4. /\ Thread(r.pc) = 0 /\ Place(r.pc) = 1
        /\ Thread(request[c].pc) = 0 /\ Place(request[c].pc) = 0
    BY <2>1, <2>2 DEF At, Thread, Place
  <2>5. threads' = threads + Thread(r.pc) - Thread(request[c].pc)
    BY <1>1, <2>1, <2>2, <2>4
  <2>6. pending' = pending + Place(r.pc) - Place(request[c].pc)
    BY <1>1, <2>1, <2>2, <2>4
  <2>7. threads' <= Slots /\ clock' \in Nat
    BY <1>1, <2>1, <2>2, <2>4
  <2> QED
    BY <2>1, <2>2, <2>5, <2>6, <2>7, Recount
<1>6. CASE StartHashing(c)
  <2> DEFINE r == [request[c] EXCEPT !.pc = "hashing"]
  <2>1. /\ request' = [request EXCEPT ![c] = r] /\ At(c, "queued")
        /\ threads' = threads + 1 /\ pending' = pending /\ clock' = clock
        /\ threads < Slots
    BY <1>1, <1>6 DEF StartHashing, Become, In
  <2>2. r \in Request /\ r.pc = "hashing"
    BY RequestMoves
  <2>3. threads' <= Slots
    BY <1>1, <2>1
  <2> HIDE DEF r
  <2>4. /\ Thread(r.pc) = 1 /\ Place(r.pc) = 1
        /\ Thread(request[c].pc) = 0 /\ Place(request[c].pc) = 1
    BY <2>1, <2>2 DEF At, Thread, Place
  <2>5. threads' = threads + Thread(r.pc) - Thread(request[c].pc)
    BY <1>1, <2>1, <2>2, <2>3, <2>4
  <2>6. pending' = pending + Place(r.pc) - Place(request[c].pc)
    BY <1>1, <2>1, <2>2, <2>3, <2>4
  <2>7. threads' <= Slots /\ clock' \in Nat
    BY <1>1, <2>1, <2>2, <2>3, <2>4
  <2> QED
    BY <2>1, <2>2, <2>5, <2>6, <2>7, Recount
<1>7. CASE EndHashing(c)
  <2> DEFINE r == IF request[c].cancelled THEN NoRequest ELSE [request[c] EXCEPT !.pc = "judging"]
  <2>1. /\ request' = [request EXCEPT ![c] = r] /\ At(c, "hashing")
        /\ threads' = threads - 1 /\ pending' = pending - 1 /\ clock' = clock
    BY <1>7 DEF EndHashing, Become, Finish
  <2>2. r \in Request /\ r.pc \notin {"queued", "hashing"}
    BY RequestMoves, RestingRequest
  <2>3. threads' <= Slots
    BY <1>1, <2>1
  <2> HIDE DEF r
  <2>4. /\ Thread(r.pc) = 0 /\ Place(r.pc) = 0
        /\ Thread(request[c].pc) = 1 /\ Place(request[c].pc) = 1
    BY <2>1, <2>2 DEF At, Thread, Place
  <2>5. threads' = threads + Thread(r.pc) - Thread(request[c].pc)
    BY <1>1, <2>1, <2>2, <2>3, <2>4
  <2>6. pending' = pending + Place(r.pc) - Place(request[c].pc)
    BY <1>1, <2>1, <2>2, <2>3, <2>4
  <2>7. threads' <= Slots /\ clock' \in Nat
    BY <1>1, <2>1, <2>2, <2>3, <2>4
  <2> QED
    BY <2>1, <2>2, <2>5, <2>6, <2>7, Recount
<1>8. CASE Cancel(c) /\ StopsAtOnce(c)
  <2>1. /\ request' = [request EXCEPT ![c] = NoRequest] /\ ~At(c, "hashing")
        /\ threads' = threads /\ clock' = clock
        /\ pending' = IF request[c].pc \in {"queued", "hashing"} THEN pending - 1 ELSE pending
    BY <1>8 DEF Cancel, Finish, StopsAtOnce
  <2>2. /\ Thread(NoRequest.pc) = 0 /\ Place(NoRequest.pc) = 0
        /\ Thread(request[c].pc) = 0
    BY <2>1, RestingRequest DEF At, Thread, Place
  <2>3. pending' = pending + 0 - Place(request[c].pc)
    BY <1>1, <2>1 DEF Place
  <2>5. threads' = threads + Thread(NoRequest.pc) - Thread(request[c].pc)
    BY <1>1, <2>1, <2>2, <2>3
  <2>6. pending' = pending + Place(NoRequest.pc) - Place(request[c].pc)
    BY <1>1, <2>1, <2>2, <2>3
  <2>7. threads' <= Slots /\ clock' \in Nat
    BY <1>1, <2>1, <2>2, <2>3
  <2> QED
    BY <2>1, RestingRequest, <2>5, <2>6, <2>7, Recount
<1>9. CASE Cancel(c) /\ ~StopsAtOnce(c)
  <2> DEFINE r == [request[c] EXCEPT !.cancelled = TRUE]
  <2>1. /\ request' = [request EXCEPT ![c] = r] /\ At(c, "hashing")
        /\ threads' = threads /\ clock' = clock /\ pending' = pending
    BY <1>9 DEF Cancel, StopsAtOnce
  <2>2. r \in Request /\ r.pc = request[c].pc
    BY RequestMoves
  <2> HIDE DEF r
  <2>3. Thread(r.pc) = Thread(request[c].pc) /\ Place(r.pc) = Place(request[c].pc)
    BY <2>2
  <2>4. Thread(r.pc) \in Nat /\ Place(r.pc) \in Nat
    BY DEF Thread, Place
  <2>5. threads' = threads + Thread(r.pc) - Thread(request[c].pc)
    BY <1>1, <2>1, <2>2, <2>3, <2>4
  <2>6. pending' = pending + Place(r.pc) - Place(request[c].pc)
    BY <1>1, <2>1, <2>2, <2>3, <2>4
  <2>7. threads' <= Slots /\ clock' \in Nat
    BY <1>1, <2>1, <2>2, <2>3, <2>4
  <2> QED
    BY <2>1, <2>2, <2>5, <2>6, <2>7, Recount
<1> QED
  BY <1>2, <1>4, <1>5, <1>6, <1>7, <1>8, <1>9

LEMMA StepCounters == Counters /\ [Next]_vars => Counters'
<1> SUFFICES ASSUME Counters, [Next]_vars PROVE Counters'
  OBVIOUS
<1>1. CASE Tick \/ UNCHANGED vars
  <2>1. request' = request /\ threads' = threads /\ pending' = pending /\ clock' \in Nat
    BY <1>1 DEF Tick, vars, verifier, Counters
  <2> QED
    BY <2>1 DEF Counters, In, At
<1> QED
  BY <1>1, ClientStep DEF Next

\* The counters count what they should after every history.
THEOREM Invariance == Spec => []Counters
BY InitCounters, StepCounters, PTL DEF Spec

\* Threads that verify a password never exceed the slots, those of cancelled requests
\* included, and the counter that turns logins away is the number of threads and of
\* logins that wait (verify_password_bounded() of service.py).
THEOREM VerifierHoldsAlways == Spec => []VerifierHolds
<1>1. Counters => VerifierHolds
  <2>1. Cardinality(In("queued")) \in Nat /\ Cardinality(In("hashing")) \in Nat
    BY Finite
  <2>2. In("queued") = {c \in Clients : At(c, "queued")}
    BY DEF In
  <2>3. Counters => /\ threads <= Slots
                    /\ pending = threads + Cardinality(In("queued"))
    BY <2>1 DEF Counters
  <2> QED
    BY <2>2, <2>3 DEF VerifierHolds
<1> QED
  BY <1>1, Invariance, PTL

-----------------------------------------------------------------------------
(* Cooldowns *)

\* What grows from each number to the next grows.
LEMMA Grows ==
  ASSUME NEW N \in Nat, NEW f, \A i \in 0 .. N : f[i] \in Int,
         \A i \in 0 .. N : i # 0 => f[i - 1] <= f[i],
         NEW i \in 0 .. N, NEW j \in 0 .. N, i <= j
  PROVE  f[i] <= f[j]
<1> DEFINE Bad == {k \in 0 .. N : i <= k /\ ~(f[i] <= f[k])}
<1>1. SUFFICES ASSUME Bad # {} PROVE FALSE
  OBVIOUS
<1>2. Bad \in SUBSET Nat
  OBVIOUS
<1>3. PICK m \in Bad : \A k \in Bad : m <= k
  <2> HIDE DEF Bad
  <2> QED
    BY <1>1, <1>2, LeastNumber
<1>4. m \in 0 .. N /\ i <= m /\ ~(f[i] <= f[m]) /\ m # i
  OBVIOUS
<1>5. m # 0 /\ m - 1 \in 0 .. N /\ i <= m - 1 /\ m - 1 \notin Bad
  BY <1>3, <1>4
<1>6. f[i] <= f[m - 1] /\ f[m - 1] <= f[m]
  BY <1>4, <1>5
<1>7. f[i] \in Int /\ f[m - 1] \in Int /\ f[m] \in Int
  BY <1>4, <1>5
<1> HIDE DEF Bad
<1> QED
  BY <1>4, <1>6, <1>7

\* What one step of the recursion of Doubled does.
DoubledStep(f, n) == IF n = 0 THEN Base ELSE 2 * f[n - 1]
DoubledTo(f, N) == f = [n \in 0 .. N |-> DoubledStep(f, n)]

\* A function that doubles up to any number exists: Doubled is defined.
LEMMA SomethingDoubles ==
  ASSUME NEW N \in Nat
  PROVE  \E f : DoubledTo(f, N)
<1> DEFINE Bad == {k \in Nat : ~\E f : DoubledTo(f, k)}
<1>1. SUFFICES ASSUME Bad # {} PROVE FALSE
  OBVIOUS
<1>2. PICK m \in Bad : \A k \in Bad : m <= k
  BY <1>1, LeastNumber
<1>3. m \in Nat /\ ~\E f : DoubledTo(f, m)
  OBVIOUS
<1>4. m # 0
  <2> DEFINE g == [n \in 0 .. 0 |-> Base]
  <2>1. g = [n \in 0 .. 0 |-> DoubledStep(g, n)]
    BY DEF DoubledStep
  <2> QED
    BY <2>1, <1>3 DEF DoubledTo
<1>5. PICK f : DoubledTo(f, m - 1)
  BY <1>2, <1>3, <1>4
<1> DEFINE g == [n \in 0 .. m |-> IF n = m THEN DoubledStep(f, m) ELSE f[n]]
<1>6. ASSUME NEW n \in 0 .. m PROVE g[n] = DoubledStep(g, n)
  <2>1. n # 0 => n - 1 \in 0 .. m /\ n - 1 # m /\ g[n - 1] = f[n - 1]
    BY <1>3
  <2>2. CASE n = m
    BY <1>4, <2>1, <2>2 DEF DoubledStep
  <2>3. CASE n # m
    <3>1. n \in 0 .. (m - 1)
      BY <2>3, <1>3
    <3>2. f[n] = DoubledStep(f, n)
      <4> HIDE DEF g
      <4> QED
        BY <3>1, <1>5 DEF DoubledTo
    <3> QED
      BY <2>1, <2>3, <3>2 DEF DoubledStep
  <2> QED
    BY <2>2, <2>3
<1>7. DoubledTo(g, m)
  BY <1>6 DEF DoubledTo
<1> QED
  BY <1>3, <1>7

\* base_cooldown * 2**exponent, by its recursion.
LEMMA DoubledMeans ==
  \A n \in 0 .. 20 : Doubled[n] = IF n = 0 THEN Base ELSE 2 * Doubled[n - 1]
<1>1. \E f : DoubledTo(f, 20)
  BY SomethingDoubles
<1>2. \E f : f = [n \in 0 .. 20 |-> IF n = 0 THEN Base ELSE 2 * f[n - 1]]
  BY <1>1, Zenon DEF DoubledTo, DoubledStep
<1>3. Doubled = [n \in 0 .. 20 |-> IF n = 0 THEN Base ELSE 2 * Doubled[n - 1]]
  BY <1>2, Zenon DEF Doubled
<1> QED
  BY <1>3

\* Doubling stays a number.
LEMMA DoubledIsNat ==
  \A n \in 0 .. 20 : Doubled[n] \in Nat
<1> DEFINE Bad == {k \in 0 .. 20 : Doubled[k] \notin Nat}
<1>1. SUFFICES ASSUME Bad # {} PROVE FALSE
  OBVIOUS
<1>2. Bad \in SUBSET Nat
  OBVIOUS
<1>3. PICK m \in Bad : \A k \in Bad : m <= k
  <2> HIDE DEF Bad
  <2> QED
    BY <1>1, <1>2, LeastNumber
<1>4. m \in 0 .. 20 /\ Doubled[m] \notin Nat
  OBVIOUS
<1>5. m # 0 => m - 1 \in 0 .. 20 /\ m - 1 \notin Bad
  BY <1>3, <1>4
<1>6. m # 0 => Doubled[m - 1] \in Nat
  BY <1>5
<1> HIDE DEF Bad
<1> QED
  BY <1>4, <1>6, DoubledMeans

\* Cooldowns are numbers, and grow.
LEMMA PausesGrow ==
  ASSUME NEW i \in Nat, NEW j \in Nat, i <= j
  PROVE  Pause(i) \in Nat /\ Pause(j) \in Nat /\ Pause(i) <= Pause(j)
<1>1. Least(i, 20) \in 0 .. 20 /\ Least(j, 20) \in 0 .. 20 /\ Least(i, 20) <= Least(j, 20)
  BY DEF Least
<1>2. \A n \in 0 .. 20 : n # 0 => Doubled[n - 1] <= Doubled[n]
  <2>1. SUFFICES ASSUME NEW n \in 0 .. 20, n # 0 PROVE Doubled[n - 1] <= Doubled[n]
    OBVIOUS
  <2>2. n - 1 \in 0 .. 20
    BY <2>1
  <2> QED
    BY <2>1, <2>2, DoubledMeans, DoubledIsNat
<1>3. Doubled[Least(i, 20)] <= Doubled[Least(j, 20)]
  <2>1. \A n \in 0 .. 20 : Doubled[n] \in Int
    BY DoubledIsNat
  <2> QED
    BY <1>1, <1>2, <2>1, Grows
<1>4. Doubled[Least(i, 20)] \in Nat /\ Doubled[Least(j, 20)] \in Nat
  BY <1>1, DoubledIsNat
<1> QED
  BY <1>3, <1>4 DEF Pause, Least

-----------------------------------------------------------------------------
(* What is waited *)

\* How long requests may be admitted to a window: it lasts Window, and the request
\* that opened it may have taken MaxDelay.
Span == Window + MaxDelay

WaitedStep(f, n) == IF n = 0 THEN 0 ELSE f[n - 1] + Pause(n - 1) - MaxDelay
WaitedTo(f, N) == f = [n \in 0 .. N |-> WaitedStep(f, n)]

\* A function that adds up cooldowns exists: Waited is defined.
LEMMA SomethingWaits ==
  ASSUME NEW N \in Nat
  PROVE  \E f : WaitedTo(f, N)
<1> DEFINE Bad == {k \in Nat : ~\E f : WaitedTo(f, k)}
<1>1. SUFFICES ASSUME Bad # {} PROVE FALSE
  OBVIOUS
<1>2. PICK m \in Bad : \A k \in Bad : m <= k
  BY <1>1, LeastNumber
<1>3. m \in Nat /\ ~\E f : WaitedTo(f, m)
  OBVIOUS
<1>4. m # 0
  <2> DEFINE g == [n \in 0 .. 0 |-> 0]
  <2>1. g = [n \in 0 .. 0 |-> WaitedStep(g, n)]
    BY DEF WaitedStep
  <2> QED
    BY <2>1, <1>3 DEF WaitedTo
<1>5. PICK f : WaitedTo(f, m - 1)
  BY <1>2, <1>3, <1>4
<1> DEFINE g == [n \in 0 .. m |-> IF n = m THEN WaitedStep(f, m) ELSE f[n]]
<1>6. ASSUME NEW n \in 0 .. m PROVE g[n] = WaitedStep(g, n)
  <2>1. n # 0 => n - 1 \in 0 .. m /\ n - 1 # m /\ g[n - 1] = f[n - 1]
    BY <1>3
  <2>2. CASE n = m
    BY <1>4, <2>1, <2>2 DEF WaitedStep
  <2>3. CASE n # m
    <3>1. n \in 0 .. (m - 1)
      BY <2>3, <1>3
    <3>2. f[n] = WaitedStep(f, n)
      <4> HIDE DEF g
      <4> QED
        BY <3>1, <1>5 DEF WaitedTo
    <3> QED
      BY <2>1, <2>3, <3>2 DEF WaitedStep
  <2> QED
    BY <2>2, <2>3
<1>7. WaitedTo(g, m)
  BY <1>6 DEF WaitedTo
<1> QED
  BY <1>3, <1>7

\* Cooldowns less delays, added up, by the recursion.
LEMMA WaitedMeans ==
  \A n \in 0 .. Span : Waited[n] = IF n = 0 THEN 0 ELSE Waited[n - 1] + Pause(n - 1) - MaxDelay
<1>1. Window + MaxDelay \in Nat
  OBVIOUS
<1>2. \E f : WaitedTo(f, Window + MaxDelay)
  BY <1>1, SomethingWaits
<1>3. \E f : f = [n \in 0 .. Window + MaxDelay |->
                   IF n = 0 THEN 0 ELSE f[n - 1] + Pause(n - 1) - MaxDelay]
  BY <1>2, Zenon DEF WaitedTo, WaitedStep
<1>4. Waited = [n \in 0 .. Window + MaxDelay |->
                 IF n = 0 THEN 0 ELSE Waited[n - 1] + Pause(n - 1) - MaxDelay]
  BY <1>3, Zenon DEF Waited
<1> QED
  BY <1>4 DEF Span

\* If cooldowns are longer than requests take, waiting grows with every round.
LEMMA WaitedCounts ==
  ASSUME MaxDelay < Pause(0)
  PROVE  /\ \A n \in 0 .. Span : Waited[n] \in Nat /\ n <= Waited[n]
         /\ \A n \in 0 .. Span : n # 0 => Waited[n - 1] <= Waited[n]
<1>0. Span \in Nat /\ \A n \in Nat : Pause(n) \in Nat /\ MaxDelay < Pause(n)
  BY PausesGrow DEF Span
<1> DEFINE Bad == {k \in 0 .. Span : ~(Waited[k] \in Nat /\ k <= Waited[k])}
<1>1. Bad \in SUBSET Nat
  OBVIOUS
<1>2. ASSUME Bad # {} PROVE FALSE
  <2>1. PICK m \in Bad : \A k \in Bad : m <= k
    <3> HIDE DEF Bad
    <3> QED
      BY <1>1, <1>2, LeastNumber
  <2>2. m \in 0 .. Span /\ ~(Waited[m] \in Nat /\ m <= Waited[m])
    OBVIOUS
  <2>3. m # 0 => m - 1 \in 0 .. Span /\ m - 1 \notin Bad
    BY <1>0, <2>1, <2>2
  <2>4. m # 0 => Waited[m - 1] \in Nat /\ m - 1 <= Waited[m - 1]
    BY <2>3
  <2>5. m # 0 => Pause(m - 1) \in Nat /\ MaxDelay < Pause(m - 1)
    BY <1>0, <2>3
  <2>6. Waited[m] = IF m = 0 THEN 0 ELSE Waited[m - 1] + Pause(m - 1) - MaxDelay
    BY <2>2, WaitedMeans
  <2> HIDE DEF Bad
  <2> QED
    BY <1>0, <2>2, <2>4, <2>5, <2>6
<1>3. \A n \in 0 .. Span : Waited[n] \in Nat /\ n <= Waited[n]
  BY <1>2
<1>4. ASSUME NEW n \in 0 .. Span, n # 0 PROVE Waited[n - 1] <= Waited[n]
  <2>1. n - 1 \in 0 .. Span /\ n - 1 \in Nat
    BY <1>0, <1>4
  <2>2. Waited[n] = Waited[n - 1] + Pause(n - 1) - MaxDelay
    BY <1>4, WaitedMeans
  <2> QED
    BY <1>0, <1>3, <2>1, <2>2
<1> QED
  BY <1>3, <1>4

\* The rounds of a window are those up to the one that begins behind it.
LEMMA RoundsEnd ==
  ASSUME MaxDelay < Pause(0)
  PROVE  /\ Rounds \in 1 .. Span
         /\ Waited[Rounds] >= Span
<1> DEFINE Late == {n \in 0 .. Span : Waited[n] >= Span}
           Early == {n \in 0 .. Span : Waited[n] < Span}
<1>0. Span \in Nat \ {0} /\ Span = Window + MaxDelay
  BY DEF Span
<1>1. \A n \in 0 .. Span : Waited[n] \in Nat /\ n <= Waited[n]
  BY WaitedCounts
<1>2. Span \in Late
  BY <1>0, <1>1
<1>3. Late \in SUBSET Nat
  OBVIOUS
<1>4. PICK m \in Late : \A n \in Late : m <= n
  <2> HIDE DEF Late
  <2> QED
    BY <1>2, <1>3, LeastNumber
<1>5. m \in 0 .. Span /\ Waited[m] >= Span
  OBVIOUS
<1>6. m # 0
  BY <1>0, <1>5, WaitedMeans
<1>7. Early = 0 .. (m - 1)
  <2>1. ASSUME NEW n \in Early PROVE n \in 0 .. (m - 1)
    <3>1. n \in 0 .. Span /\ Waited[n] < Span /\ Waited[n] \in Nat
      BY <1>1
    <3>2. ASSUME m <= n PROVE FALSE
      <4>1. Waited[m] <= Waited[n]
        <5>1. \A i \in 0 .. Span : Waited[i] \in Int
          BY <1>1
        <5>2. \A i \in 0 .. Span : i # 0 => Waited[i - 1] <= Waited[i]
          BY WaitedCounts
        <5> HIDE DEF Early, Late
        <5> QED
          BY <1>0, <1>5, <3>1, <3>2, <5>1, <5>2, Grows
      <4> QED
        BY <1>0, <1>1, <1>5, <3>1, <4>1
    <3> QED
      BY <1>5, <3>1, <3>2
  <2>2. ASSUME NEW n \in 0 .. (m - 1) PROVE n \in Early
    <3>1. n \in 0 .. Span /\ ~(m <= n)
      BY <1>0, <1>5, <2>2
    <3>2. n \notin Late
      BY <1>4, <3>1
    <3> QED
      BY <1>0, <1>1, <3>1, <3>2
  <2> QED
    BY <2>1, <2>2
<1>8. Cardinality(0 .. (m - 1)) = m
  BY <1>5, <1>6, FS_Interval
<1>9. Rounds = Cardinality(Early)
  BY DEF Rounds, Span
<1> HIDE DEF Early, Late
<1> QED
  BY <1>0, <1>5, <1>6, <1>7, <1>8, <1>9

-----------------------------------------------------------------------------
(* Guesses *)

\* How many requests may be admitted at once.
Most == Cardinality(Clients)

\* The failures after which a window is in its round r + 1.
Allowed(r) == Limit - 1 + Most * r

\* A request that is past the check and, if it fails, counts in a window.
Counts(req, k, started) ==
  /\ req.pc \in {"queued", "hashing", "judging"}
  /\ k \in {Account, req.address}
  /\ req.moment < started + Window

Counting(k, started) == {c \in Clients : Counts(request[c], k, started)}

\* A request takes at most MaxDelay from its moment.
Timely ==
  /\ clock \in Nat /\ request \in [Clients -> Request]
  /\ failures \in [Keys -> Row \cup {Nothing}]
  /\ \A c \in Clients : ~At(c, "idle") =>
       request[c].moment <= clock /\ clock <= request[c].moment + MaxDelay

\* The failures of a window and those that may yet join them are what its rounds
\* allow, a round begins when the one before it is waited for, and whoever is
\* admitted after that waits for this one as well.
Budget(k, row) ==
  /\ row.started <= clock
  /\ \E r \in 0 .. Rounds - 1 :
       /\ row.count + Cardinality(Counting(k, row.started)) <= Allowed(r + 1)
       /\ row.started - MaxDelay + Waited[r] <= clock
  /\ \A r \in 0 .. Rounds - 1 :
       Allowed(r) < row.count => row.started - MaxDelay + Waited[r + 1] <= row.blocked

\* The strengthening: every row of the table is within its budget.
GuessInv ==
  /\ Timely
  /\ \A k \in Keys : failures[k] # Nothing => Budget(k, failures[k])

\* Products of numbers, which the solvers do not multiply out themselves.
LEMMA Times ==
  ASSUME NEW m \in Nat, NEW a \in Nat, NEW b \in Nat
  PROVE  /\ m * a \in Nat /\ m * (a + 1) = m * a + m
         /\ a <= b => m * a <= m * b
         /\ m # 0 => a <= m * a
<1>1. m * a \in Nat /\ m * (a + 1) = m * a + m
  OBVIOUS
<1>2. ASSUME a <= b PROVE m * a <= m * b
  <2>1. PICK d \in Nat : b = a + d
    <3>1. b - a \in Nat /\ b = a + (b - a)
      BY <1>2
    <3> QED
      BY <3>1
  <2>2. m * b = m * a + m * d /\ m * d \in Nat
    BY <2>1
  <2> QED
    BY <1>1, <2>2
<1>3. ASSUME m # 0 PROVE a <= m * a
  <2>1. m - 1 \in Nat
    BY <1>3
  <2>2. m * a = a + (m - 1) * a /\ (m - 1) * a \in Nat
    BY <2>1
  <2> QED
    BY <2>2
<1> QED
  BY <1>1, <1>2, <1>3

\* One more request is one more client.
LEMMA CountingIsSmall ==
  ASSUME NEW k, NEW started
  PROVE  /\ Most \in Nat /\ IsFiniteSet(Counting(k, started))
         /\ Cardinality(Counting(k, started)) \in Nat
         /\ \A c \in Clients : c \notin Counting(k, started) =>
              Cardinality(Counting(k, started)) + 1 <= Most
<1>1. Counting(k, started) \in SUBSET Clients
  BY DEF Counting
<1>2. Most \in Nat /\ IsFiniteSet(Counting(k, started)) /\ Cardinality(Counting(k, started)) \in Nat
  BY <1>1, FS_Subset, FS_CardinalityType DEF Most
<1>3. ASSUME NEW c \in Clients, c \notin Counting(k, started)
      PROVE  Cardinality(Counting(k, started)) + 1 <= Most
  <2>1. Cardinality(Counting(k, started) \cup {c}) = Cardinality(Counting(k, started)) + 1
    BY <1>2, <1>3, FS_AddElement
  <2>2. Counting(k, started) \cup {c} \in SUBSET Clients
    BY <1>1
  <2> QED
    BY <2>1, <2>2, FS_Subset DEF Most
<1> QED
  BY <1>2, <1>3

\* The rounds that a number of failures goes beyond are behind the one it is in.
LEMMA Beyond ==
  ASSUME NEW r \in Nat, NEW s \in Nat, Most \in Nat, Allowed(s) < Allowed(r + 1)
  PROVE  s <= r
<1>1. ASSUME r + 1 <= s PROVE FALSE
  <2>1. Most * (r + 1) <= Most * s /\ Most * (r + 1) \in Nat /\ Most * s \in Nat
    BY <1>1, Times
  <2> QED
    BY <2>1 DEF Allowed
<1> QED
  BY <1>1

\* What a round has waited for.
LEMMA WaitedIn ==
  ASSUME MaxDelay < Pause(0), NEW r \in 0 .. Rounds - 1, NEW s \in 0 .. Rounds - 1
  PROVE  /\ r \in Nat /\ Waited[r] \in Nat /\ Waited[r + 1] \in Nat /\ Pause(r) \in Nat
         /\ Waited[r + 1] = Waited[r] + Pause(r) - MaxDelay
         /\ s <= r => Waited[s] <= Waited[r]
         /\ Span \in Nat /\ Rounds \in 1 .. Span
<1>1. Span \in Nat /\ Rounds \in 1 .. Span
  BY RoundsEnd DEF Span
<1>2. /\ r \in 0 .. Span /\ r + 1 \in 0 .. Span /\ s \in 0 .. Span /\ r \in Nat
      /\ (r + 1) - 1 = r /\ r + 1 # 0
  BY <1>1
<1>3. Waited[r + 1] = Waited[r] + Pause(r) - MaxDelay
  BY <1>2, WaitedMeans
<1>4. \A n \in 0 .. Span : Waited[n] \in Nat /\ Waited[n] \in Int
  BY WaitedCounts
<1>5. s <= r => Waited[s] <= Waited[r]
  <2>1. \A n \in 0 .. Span : n # 0 => Waited[n - 1] <= Waited[n]
    BY WaitedCounts
  <2> QED
    BY <1>1, <1>2, <1>4, <2>1, Grows
<1>6. Pause(r) \in Nat
  BY <1>2, PausesGrow
<1> QED
  BY <1>1, <1>2, <1>3, <1>4, <1>5, <1>6

\* A row stays within its budget as long as nobody joins its window.
LEMMA RowKept ==
  ASSUME MaxDelay < Pause(0), NEW k, NEW row \in Row, Budget(k, row),
         clock \in Nat, clock' \in Nat, clock <= clock',
         Counting(k, row.started)' \subseteq Counting(k, row.started)
  PROVE  Budget(k, row)'
<1>1. PICK r \in 0 .. Rounds - 1 :
        /\ row.count + Cardinality(Counting(k, row.started)) <= Allowed(r + 1)
        /\ row.started - MaxDelay + Waited[r] <= clock
  BY DEF Budget
<1>2. /\ IsFiniteSet(Counting(k, row.started)) /\ Cardinality(Counting(k, row.started)) \in Nat
      /\ Most \in Nat
  BY CountingIsSmall
<1> DEFINE now == Counting(k, row.started)
           then == Counting(k, row.started)'
<1>3. Cardinality(then) <= Cardinality(now) /\ Cardinality(then) \in Nat
  <2> HIDE DEF now, then
  <2>1. then \in SUBSET now
    BY DEF now, then
  <2>2. IsFiniteSet(now)
    BY <1>2 DEF now
  <2> QED
    BY <2>1, <2>2, FS_Subset, FS_CardinalityType
<1>4. r \in Nat /\ Waited[r] \in Nat /\ Most * (r + 1) \in Nat /\ Allowed(r + 1) \in Int
  BY <1>2, WaitedIn, Times DEF Allowed
<1>5. row.count \in Nat /\ row.started \in Nat
  BY DEF Row
<1>6. row.count + Cardinality(then) <= Allowed(r + 1)
  <2> HIDE DEF now, then
  <2>1. row.count + Cardinality(now) <= Allowed(r + 1) /\ Cardinality(now) \in Nat
    BY <1>1, <1>2 DEF now
  <2> QED
    BY <1>3, <1>4, <1>5, <2>1
<1>7. row.started - MaxDelay + Waited[r] <= clock' /\ row.started <= clock'
  BY <1>1, <1>4, <1>5 DEF Budget
<1> QED
  BY <1>6, <1>7 DEF Budget

\* A request that the check admits may join the window: the round goes on, or all
\* that it allows has failed and what it has to wait for is waited for.
LEMMA RowAdmits ==
  ASSUME MaxDelay < Pause(0), NEW k \in Keys, NEW row \in Row, Budget(k, row), Timely,
         NEW c \in Clients, At(c, "checking"), k \in RateKeys(c),
         row.blocked <= request[c].moment,
         request' = [request EXCEPT ![c].pc = "queued"], clock' = clock
  PROVE  Budget(k, row)'
<1> DEFINE q == request[c]
           q2 == [request[c] EXCEPT !.pc = "queued"]
           now == Counting(k, row.started)
           then == Counting(k, row.started)'
<1>1. q \in Request /\ request' = [request EXCEPT ![c] = q2] /\ q2.moment = q.moment
  BY DEF Timely, Request
<1>2. /\ row.count \in Nat \ {0} /\ row.started \in Nat /\ row.blocked \in Int
      /\ q.moment \in Nat /\ clock \in Nat /\ q.moment <= clock
  BY <1>1 DEF Row, Timely, At, Request, Never
<1>3. /\ then \subseteq now \cup {c} /\ c \notin now
      /\ ~(q.moment < row.started + Window) => then \subseteq now
  <2>1. \A d \in Clients : d # c => request'[d] = request[d]
    BY <1>1 DEF Timely
  <2>2. request'[c] = q2
    BY <1>1 DEF Timely
  <2>3. c \notin now
    BY DEF Counting, Counts, At
  <2>4. \A d \in then : d \in Clients /\ (d # c => d \in now)
    BY <2>1 DEF Counting
  <2>5. c \in then => q.moment < row.started + Window
    BY <1>1, <2>2 DEF Counting, Counts
  <2> QED
    BY <2>3, <2>4, <2>5
<1>4. /\ IsFiniteSet(now) /\ Cardinality(now) \in Nat /\ Most \in Nat
      /\ Cardinality(now) + 1 <= Most
  BY <1>3, CountingIsSmall
<1>5. CASE ~(q.moment < row.started + Window)
  <2> HIDE DEF q
  <2> QED
    BY <1>2, <1>3, <1>5, RowKept
<1>6. CASE q.moment < row.started + Window
  <2>1. Cardinality(then) <= Cardinality(now) + 1 /\ Cardinality(then) \in Nat
    <3> HIDE DEF now, then, q
    <3>1. Cardinality(now \cup {c}) = Cardinality(now) + 1 /\ IsFiniteSet(now \cup {c})
      BY <1>3, <1>4, FS_AddElement
    <3>2. then \in SUBSET (now \cup {c})
      BY <1>3
    <3> QED
      BY <3>1, <3>2, FS_Subset, FS_CardinalityType
  <2>2. PICK r \in 0 .. Rounds - 1 :
          /\ row.count + Cardinality(now) <= Allowed(r + 1)
          /\ row.started - MaxDelay + Waited[r] <= clock
    BY DEF Budget
  <2>3. /\ r \in Nat /\ Waited[r] \in Nat /\ Waited[r + 1] \in Nat /\ Span \in Nat
        /\ Rounds \in 1 .. Span
    BY WaitedIn
  <2>4. /\ Allowed(r) \in Int /\ Allowed(r + 1) = Allowed(r) + Most
        /\ Allowed(r + 2) = Allowed(r + 1) + Most
    <3>1. Most * r \in Nat /\ Most * (r + 1) = Most * r + Most
      BY <1>4, <2>3, Times
    <3>2. r + 1 \in Nat /\ (r + 1) + 1 = r + 2
      BY <2>3
    <3>3. Most * ((r + 1) + 1) = Most * (r + 1) + Most
      <4> QED
        BY <1>4, <3>2, Times
    <3> QED
      BY <1>4, <3>1, <3>2, <3>3 DEF Allowed
  <2> HIDE DEF now, then, q
  <2>5. CASE row.count + Cardinality(now) + 1 <= Allowed(r + 1)
    <3>1. row.count + Cardinality(then) <= Allowed(r + 1)
      BY <1>2, <1>4, <2>1, <2>4, <2>5
    <3> QED
      BY <2>2, <3>1 DEF Budget, then
  <2>6. CASE ~(row.count + Cardinality(now) + 1 <= Allowed(r + 1))
    <3>1. Allowed(r) < row.count
      BY <1>2, <1>4, <2>4, <2>6
    <3>2. row.started - MaxDelay + Waited[r + 1] <= row.blocked
      BY <3>1 DEF Budget
    <3>3. row.started - MaxDelay + Waited[r + 1] <= q.moment
      BY <1>2, <2>3, <3>2 DEF q
    <3>4. r + 1 # Rounds
      <4>1. SUFFICES ASSUME r + 1 = Rounds PROVE FALSE
        OBVIOUS
      <4>2. Waited[r + 1] >= Span /\ Span = Window + MaxDelay
        BY <4>1, RoundsEnd DEF Span
      <4> QED
        BY <1>2, <1>6, <2>3, <3>3, <4>2
    <3>5. r + 1 \in 0 .. Rounds - 1 /\ (r + 1) + 1 = r + 2
      BY <2>3, <3>4
    <3>6. row.count + Cardinality(then) <= Allowed(r + 2)
      BY <1>2, <1>4, <2>1, <2>2, <2>4
    <3>7. row.started - MaxDelay + Waited[r + 1] <= clock
      BY <1>2, <2>3, <3>3
    <3> QED
      BY <3>5, <3>6, <3>7 DEF Budget, then
  <2> QED
    BY <2>5, <2>6
<1> QED
  BY <1>5, <1>6

\* A failure that opens a window.
LEMMA RowOpens ==
  ASSUME MaxDelay < Pause(0), NEW k \in Keys, NEW row, Timely,
         NEW c \in Clients, At(c, "judging"), NEW m \in Nat, m = request[c].moment,
         row = Nothing \/ row.started <= m - Window,
         request' = [request EXCEPT ![c] = NoRequest], clock' = clock
  PROVE  Recorded(row, m) \in Row /\ Budget(k, Recorded(row, m))'
<1> DEFINE next == [count |-> 1, started |-> m, blocked |-> IF 1 < Limit THEN Never ELSE m + Cooldown(1)]
           then == Counting(k, m)'
<1>1. m \in Nat /\ m <= clock /\ clock \in Nat
  BY DEF Timely, At, Request
<1>2. Recorded(row, m) = next
  BY DEF Recorded, Counted
<1>3. Pause(0) \in Nat /\ (~(1 < Limit) => Limit = 1 /\ Cooldown(1) = Pause(0))
  BY PausesGrow DEF Cooldown
<1>4. next \in Row
  BY <1>1, <1>3 DEF Row
<1>5. /\ IsFiniteSet(then) /\ Cardinality(then) \in Nat /\ Most \in Nat
      /\ Cardinality(then) + 1 <= Most
  <2>1. then \in SUBSET Clients
    BY DEF Counting
  <2>2. c \notin then
    BY RestingRequest DEF Counting, Counts, Timely
  <2> HIDE DEF then
  <2>3. IsFiniteSet(then) /\ Cardinality(then) \in Nat
    BY <2>1, FS_Subset, FS_CardinalityType
  <2>4. Cardinality(then \cup {c}) = Cardinality(then) + 1
    BY <2>2, <2>3, FS_AddElement
  <2>5. then \cup {c} \in SUBSET Clients
    BY <2>1
  <2> QED
    BY <2>3, <2>4, <2>5, FS_Subset, FS_CardinalityType DEF Most
<1>6. 0 \in 0 .. Rounds - 1 /\ Rounds \in Nat /\ Waited[0] = 0 /\ Waited[1] = Pause(0) - MaxDelay
  <2>1. Rounds \in 1 .. Span /\ Span \in Nat
    BY RoundsEnd DEF Span
  <2>2. 0 \in 0 .. Span /\ 1 \in 0 .. Span
    BY <2>1
  <2>3. Waited[0] = 0
    BY <2>2, WaitedMeans
  <2>4. Waited[1] = Waited[0] + Pause(0) - MaxDelay
    BY <2>2, WaitedMeans
  <2> QED
    BY <1>3, <2>1, <2>3, <2>4
<1>7. next.count + Cardinality(then) <= Allowed(0 + 1) /\ next.started - MaxDelay + Waited[0] <= clock'
  BY <1>1, <1>5, <1>6 DEF Allowed
<1>8. ASSUME NEW r \in 0 .. Rounds - 1, Allowed(r) < next.count
      PROVE  next.started - MaxDelay + Waited[r + 1] <= next.blocked
  <2>1. r \in Nat /\ r <= Most * r /\ Most * r \in Nat
    BY <1>5, <1>6, Times
  <2>2. Limit = 1 /\ r = 0
    BY <1>8, <2>1 DEF Allowed
  <2> QED
    BY <1>1, <1>3, <1>6, <2>2
<1>9. Budget(k, next)'
  BY <1>1, <1>6, <1>7, <1>8 DEF Budget
<1> HIDE DEF next
<1> QED
  BY <1>2, <1>4, <1>9

\* A failure that counts in a window.
LEMMA RowCounts ==
  ASSUME MaxDelay < Pause(0), NEW k \in Keys, NEW row \in Row, Budget(k, row), Timely,
         NEW c \in Clients, At(c, "judging"), k \in RateKeys(c),
         NEW m \in Nat, m = request[c].moment, row # Nothing, ~(row.started <= m - Window),
         request' = [request EXCEPT ![c] = NoRequest], clock' = clock
  PROVE  Recorded(row, m) \in Row /\ Budget(k, Recorded(row, m))'
<1> DEFINE n == row.count + 1
           next == IF n < Limit THEN [row EXCEPT !.count = n]
                   ELSE [row EXCEPT !.count = n, !.blocked = m + Cooldown(n)]
           now == Counting(k, row.started)
           then == Counting(k, row.started)'
<1>1. m \in Nat /\ m <= clock /\ clock \in Nat /\ clock <= m + MaxDelay
  BY DEF Timely, At, Request
<1>2. /\ row.count \in Nat \ {0} /\ row.started \in Nat /\ row.blocked \in Nat \cup {Never}
      /\ n \in Nat \ {0} /\ row.started <= clock
  BY DEF Row, Budget
<1>3. Recorded(row, m) = next
  BY DEF Recorded, Counted, Row
<1>4. n - Limit \in Nat => Cooldown(n) \in Nat /\ Cooldown(n) = Pause(n - Limit)
  BY PausesGrow DEF Cooldown
<1>5. ~(n < Limit) => n - Limit \in Nat
  BY <1>2
<1>6. next \in Row /\ next.count = n /\ next.started = row.started
      /\ (~(n < Limit) => next.blocked = m + Pause(n - Limit))
  <2> HIDE DEF n
  <2>1. m + Cooldown(n) \in Nat \/ n < Limit
    BY <1>1, <1>4, <1>5
  <2> QED
    BY <1>2, <1>4, <1>5, <2>1 DEF Row
<1>7. /\ Cardinality(then) + 1 <= Cardinality(now) /\ Cardinality(now) \in Nat
      /\ Cardinality(then) \in Nat /\ Most \in Nat
  <2>1. c \in now
    BY <1>1, <1>2 DEF Counting, Counts, At, RateKeys
  <2>2. then \in SUBSET (now \ {c})
    BY RestingRequest DEF Counting, Counts, Timely
  <2>3. IsFiniteSet(now) /\ Cardinality(now) \in Nat /\ Most \in Nat
    BY CountingIsSmall
  <2> HIDE DEF now, then
  <2>4. Cardinality(now \ {c}) = Cardinality(now) - 1 /\ IsFiniteSet(now \ {c})
    BY <2>1, <2>3, FS_RemoveElement
  <2>5. Cardinality(then) <= Cardinality(now \ {c}) /\ Cardinality(then) \in Nat
    BY <2>2, <2>4, FS_Subset, FS_CardinalityType
  <2> QED
    BY <2>3, <2>4, <2>5
<1>8. PICK r \in 0 .. Rounds - 1 :
        /\ row.count + Cardinality(now) <= Allowed(r + 1)
        /\ row.started - MaxDelay + Waited[r] <= clock
  BY DEF Budget
<1>9. /\ r \in Nat /\ Waited[r] \in Nat /\ Most * r \in Nat /\ Most * (r + 1) \in Nat
      /\ Allowed(r + 1) \in Int
  <2>1. r \in Nat /\ Waited[r] \in Nat
    BY WaitedIn
  <2>2. r + 1 \in Nat /\ Most * r \in Nat /\ Most * (r + 1) \in Nat
    BY <1>7, <2>1, Times
  <2> QED
    BY <2>1, <2>2 DEF Allowed
<1> HIDE DEF now, then, n, next
<1>10. next.count + Cardinality(then) <= Allowed(r + 1)
  BY <1>2, <1>6, <1>7, <1>8, <1>9 DEF n
<1>11. ASSUME NEW s \in 0 .. Rounds - 1, Allowed(s) < next.count
       PROVE  next.started - MaxDelay + Waited[s + 1] <= next.blocked
  <2>1. /\ s \in Nat /\ Waited[s] \in Nat /\ Pause(s) \in Nat
        /\ Waited[s + 1] = Waited[s] + Pause(s) - MaxDelay
    BY WaitedIn
  <2>2. Most * s \in Nat /\ Allowed(s) = Limit - 1 + Most * s
    BY <1>7, <2>1, Times DEF Allowed
  <2>3. s <= r
    <3>1. Allowed(s) < Allowed(r + 1)
      BY <1>2, <1>6, <1>7, <1>9, <1>10, <1>11, <2>2
    <3> QED
      BY <1>7, <1>9, <2>1, <3>1, Beyond
  <2>4. Waited[s] <= Waited[r]
    BY <2>3, WaitedIn
  <2>5. n - Limit \in Nat /\ s <= n - Limit
    <3>1. Most # 0
      <4>1. now \in SUBSET Clients /\ IsFiniteSet(Clients)
        BY DEF now, Counting
      <4>2. Cardinality(now) <= Most
        BY <4>1, FS_Subset DEF Most
      <4> QED
        BY <1>7, <4>2
    <3>2. s <= Most * s
      BY <1>7, <2>1, <3>1, Times
    <3> QED
      BY <1>2, <1>6, <1>11, <2>1, <2>2, <3>2
  <2>6. Pause(s) <= Pause(n - Limit) /\ Pause(n - Limit) \in Nat
    BY <2>1, <2>5, PausesGrow
  <2>7. next.blocked = m + Pause(n - Limit) /\ next.started = row.started
    BY <1>2, <1>6, <2>5
  <2> QED
    BY <1>1, <1>2, <1>8, <1>9, <2>1, <2>4, <2>6, <2>7
<1>12. Counting(k, next.started)' = then
  BY <1>6 DEF then
<1>13. Budget(k, next)'
  <2>1. next.started <= clock' /\ next.started - MaxDelay + Waited[r] <= clock'
    BY <1>2, <1>6, <1>8
  <2>2. next.count + Cardinality(Counting(k, next.started)') <= Allowed(r + 1)
    BY <1>10, <1>12
  <2> QED
    BY <1>11, <2>1, <2>2 DEF Budget
<1> QED
  BY <1>3, <1>6, <1>13

\* A step of a client that leaves its moment, begins or ends.
LEMMA ClientMoves ==
  ASSUME Timely, NEW c \in Clients, NEW r \in Request, request' = [request EXCEPT ![c] = r],
         \/ r.pc = "idle"
         \/ r.moment = clock
         \/ ~At(c, "idle") /\ r.moment = request[c].moment,
         clock' = clock, failures' \in [Keys -> Row \cup {Nothing}]
  PROVE  /\ Timely'
         /\ \A k, started : (Counts(r, k, started) => Counts(request[c], k, started)) =>
              Counting(k, started)' \subseteq Counting(k, started)
<1>1. request'[c] = r /\ \A d \in Clients : d # c => request'[d] = request[d]
  BY DEF Timely
<1>2. Timely'
  <2>1. request' \in [Clients -> Request] /\ clock' \in Nat
    BY DEF Timely
  <2>2. ASSUME NEW d \in Clients, ~At(d, "idle")'
        PROVE  request'[d].moment <= clock' /\ clock' <= request'[d].moment + MaxDelay
    <3>1. CASE d # c
      BY <1>1, <2>2, <3>1 DEF Timely, At
    <3>2. CASE d = c
      BY <1>1, <2>2, <3>2 DEF Timely, At
    <3> QED
      BY <3>1, <3>2
  <2> QED
    BY <2>1, <2>2 DEF Timely
<1>3. ASSUME NEW k, NEW started, Counts(r, k, started) => Counts(request[c], k, started)
      PROVE  Counting(k, started)' \subseteq Counting(k, started)
  BY <1>1, <1>3 DEF Counting
<1> QED
  BY <1>2, <1>3

\* Whoever only leaves a window, or deletes rows, keeps every budget.
LEMMA BudgetsKept ==
  ASSUME MaxDelay < Pause(0), GuessInv, Timely', clock <= clock',
         \A k \in Keys : failures'[k] = failures[k] \/ failures'[k] = Nothing,
         \A k \in Keys, started \in Nat : Counting(k, started)' \subseteq Counting(k, started)
  PROVE  GuessInv'
<1> SUFFICES ASSUME NEW k \in Keys, failures'[k] # Nothing PROVE Budget(k, failures[k])'
  BY DEF GuessInv
<1>1. PICK row : row = failures[k]
  OBVIOUS
<1>2. row \in Row /\ failures'[k] = row /\ Budget(k, row)
  BY <1>1 DEF GuessInv, Timely
<1>3. row.started \in Nat /\ clock \in Nat /\ clock' \in Nat
  BY <1>2 DEF Row, Timely, GuessInv
<1>4. Budget(k, row)'
  BY <1>2, <1>3, RowKept
<1> QED
  BY <1>2, <1>4

\* Requests that begin, end or go on within what they were admitted for.
LEMMA ClientKept ==
  ASSUME MaxDelay < Pause(0), GuessInv, NEW c \in Clients, NEW r \in Request,
         request' = [request EXCEPT ![c] = r], clock' = clock, failures' = failures,
         \/ r.pc = "idle"
         \/ r.pc = "checking" /\ r.moment = clock
         \/ /\ r.moment = request[c].moment /\ r.address = request[c].address
            /\ request[c].pc \in {"queued", "hashing", "judging"}
  PROVE  GuessInv'
<1>1. Timely /\ clock \in Nat /\ failures' \in [Keys -> Row \cup {Nothing}]
  BY DEF GuessInv, Timely
<1>2. \/ r.pc = "idle"
      \/ r.moment = clock
      \/ ~At(c, "idle") /\ r.moment = request[c].moment
  BY DEF At
<1>3. ASSUME NEW k, NEW started PROVE Counts(r, k, started) => Counts(request[c], k, started)
  BY DEF Counts
<1>4. Timely' /\ \A k \in Keys, started \in Nat : Counting(k, started)' \subseteq Counting(k, started)
  BY <1>1, <1>2, <1>3, ClientMoves
<1> QED
  BY <1>1, <1>4, BudgetsKept

\* check() lets a request through: it may join the window of each of its rows.
LEMMA AdmittedIsCounted ==
  ASSUME MaxDelay < Pause(0), GuessInv, NEW c \in Clients, LookUp(c)
  PROVE  GuessInv'
<1>1. PICK r : r = [request[c] EXCEPT !.pc = "queued"]
  OBVIOUS
<1>2. /\ request' = [request EXCEPT ![c].pc = "queued"] /\ request' = [request EXCEPT ![c] = r]
      /\ clock' = clock /\ failures' = failures /\ At(c, "checking") /\ ~Limited(c) /\ Timely
  BY <1>1 DEF LookUp, Become, GuessInv
<1>3. /\ r \in Request /\ r.moment = request[c].moment /\ r.address = request[c].address
      /\ ~At(c, "idle") /\ request[c] \in Request
  BY <1>1, <1>2 DEF Timely, Request, At
<1>4. Timely'
  <2>1. failures' \in [Keys -> Row \cup {Nothing}]
    BY <1>2 DEF Timely
  <2> QED
    BY <1>2, <1>3, <2>1, ClientMoves
<1>5. ASSUME NEW k \in Keys, failures'[k] # Nothing PROVE Budget(k, failures[k])'
  <2>1. PICK row : row = failures[k]
    OBVIOUS
  <2>2. row \in Row /\ failures'[k] = row /\ Budget(k, row)
    BY <1>2, <1>5, <2>1 DEF GuessInv, Timely
  <2>3. CASE k \in RateKeys(c)
    <3>1. row.blocked <= request[c].moment
      <4>1. ~(row.blocked > request[c].moment)
        BY <1>2, <1>5, <2>1, <2>3 DEF Limited
      <4>2. row.blocked \in Int /\ request[c].moment \in Int
        BY <1>3, <2>2 DEF Row, Request, Never
      <4> QED
        BY <4>1, <4>2
    <3>2. Budget(k, row)'
      BY <1>2, <2>2, <2>3, <3>1, RowAdmits
    <3> QED
      BY <2>2, <3>2
  <2>4. CASE k \notin RateKeys(c)
    <3>1. ASSUME NEW started PROVE Counts(r, k, started) => Counts(request[c], k, started)
      BY <1>3, <2>4 DEF Counts, RateKeys
    <3>2. Counting(k, row.started)' \subseteq Counting(k, row.started)
      <4>1. failures' \in [Keys -> Row \cup {Nothing}]
        BY <1>2 DEF Timely
      <4> QED
        BY <1>2, <1>3, <3>1, <4>1, ClientMoves
    <3>3. clock \in Nat /\ clock' \in Nat /\ clock <= clock'
      BY <1>2 DEF Timely
    <3>4. Budget(k, row)'
      BY <2>2, <3>2, <3>3, RowKept
    <3> QED
      BY <2>2, <3>4
  <2> QED
    BY <2>3, <2>4
<1> QED
  BY <1>4, <1>5 DEF GuessInv

\* record_failure() of every key of the request.
LEMMA Failed ==
  ASSUME MaxDelay < Pause(0), GuessInv, NEW c \in Clients, Fail(c)
  PROVE  GuessInv'
<1>1. PICK m : m = request[c].moment
  OBVIOUS
<1>2. /\ request' = [request EXCEPT ![c] = NoRequest] /\ clock' = clock /\ At(c, "judging")
      /\ Timely /\ m \in Nat
      /\ failures' = [k \in Keys |-> IF k \in RateKeys(c) THEN Recorded(failures[k], m) ELSE failures[k]]
  BY <1>1 DEF Fail, Finish, GuessInv, Timely, Request
<1>3. ASSUME NEW k \in Keys PROVE failures'[k] \in Row \cup {Nothing} /\ (failures'[k] # Nothing => Budget(k, failures[k])')
  <2>1. PICK row : row = failures[k]
    OBVIOUS
  <2>2. row \in Row \cup {Nothing} /\ (row # Nothing => row \in Row /\ Budget(k, row))
    BY <2>1 DEF GuessInv, Timely
  <2>3. CASE k \in RateKeys(c)
    <3>1. failures'[k] = Recorded(row, m)
      BY <1>2, <2>1, <2>3
    <3>2. CASE row = Nothing \/ row.started <= m - Window
      <4>1. Recorded(row, m) \in Row /\ Budget(k, Recorded(row, m))'
        BY <1>1, <1>2, <3>2, RowOpens
      <4> QED
        BY <3>1, <4>1
    <3>3. CASE row # Nothing /\ ~(row.started <= m - Window)
      <4>1. Recorded(row, m) \in Row /\ Budget(k, Recorded(row, m))'
        BY <1>1, <1>2, <2>2, <2>3, <3>3, RowCounts
      <4> QED
        BY <3>1, <4>1
    <3> QED
      BY <3>2, <3>3
  <2>4. CASE k \notin RateKeys(c)
    <3>1. failures'[k] = row
      BY <1>2, <2>1, <2>4
    <3>2. ASSUME row # Nothing PROVE Budget(k, row)'
      <4>1. Counting(k, row.started)' \subseteq Counting(k, row.started)
        BY <1>2, RestingRequest DEF Counting, Counts, Timely
      <4>2. clock \in Nat /\ clock' \in Nat /\ clock <= clock'
        BY <1>2 DEF Timely
      <4> QED
        BY <2>2, <3>2, <4>1, <4>2, RowKept
    <3> QED
      BY <2>2, <3>1, <3>2
  <2> QED
    BY <2>3, <2>4
<1>4. failures' \in [Keys -> Row \cup {Nothing}]
  BY <1>2, <1>3
<1>5. Timely'
  BY <1>2, <1>4, RestingRequest, ClientMoves
<1> QED
  BY <1>3, <1>5 DEF GuessInv

\* clear() after a login that succeeds.
LEMMA Succeeded ==
  ASSUME MaxDelay < Pause(0), GuessInv, NEW c \in Clients, Succeed(c)
  PROVE  GuessInv'
<1>1. /\ request' = [request EXCEPT ![c] = NoRequest] /\ clock' = clock /\ Timely /\ clock \in Nat
      /\ failures' = [k \in Keys |-> IF k \in Cleared(c) THEN Nothing ELSE failures[k]]
  BY DEF Succeed, Finish, GuessInv, Timely
<1>2. failures' \in [Keys -> Row \cup {Nothing}]
  BY <1>1 DEF Timely
<1>3. Timely'
  BY <1>1, <1>2, RestingRequest, ClientMoves
<1>4. \A k \in Keys, started \in Nat : Counting(k, started)' \subseteq Counting(k, started)
  BY <1>1, RestingRequest DEF Counting, Counts, Timely
<1>5. \A k \in Keys : failures'[k] = failures[k] \/ failures'[k] = Nothing
  BY <1>1
<1> QED
  BY <1>1, <1>3, <1>4, <1>5, BudgetsKept

\* The table is empty at first.
LEMMA GuessStarts == Init => GuessInv
BY RestingRequest DEF Init, GuessInv, Timely, At

\* Every step keeps the budgets.
LEMMA GuessStep == MaxDelay < Pause(0) /\ GuessInv /\ [Next]_vars => GuessInv'
<1> SUFFICES ASSUME MaxDelay < Pause(0), GuessInv, [Next]_vars PROVE GuessInv'
  OBVIOUS
<1>1. Timely /\ clock \in Nat
  BY DEF GuessInv, Timely
<1>2. ASSUME NEW c \in Clients, NEW address \in Addresses, LogIn(c, address) PROVE GuessInv'
  <2>1. PICK r : r = [pc |-> "checking", moment |-> clock, address |-> address, cancelled |-> FALSE]
    OBVIOUS
  <2>2. r \in Request /\ r.pc = "checking" /\ r.moment = clock
    BY <1>1, <2>1 DEF Request
  <2>3. request' = [request EXCEPT ![c] = r] /\ clock' = clock /\ failures' = failures
    BY <1>2, <2>1 DEF LogIn
  <2> QED
    BY <2>2, <2>3, ClientKept
<1>3. ASSUME NEW c \in Clients,
             \/ TurnAway(c)
             \/ EndHashing(c) /\ request[c].cancelled
             \/ Cancel(c) /\ StopsAtOnce(c)
      PROVE  GuessInv'
  <2>1. request' = [request EXCEPT ![c] = NoRequest] /\ clock' = clock /\ failures' = failures
    BY <1>3 DEF TurnAway, EndHashing, Cancel, Finish
  <2> QED
    BY <2>1, RestingRequest, ClientKept
<1>4. ASSUME NEW c \in Clients, NEW pc \in {"hashing", "judging"},
             request' = [request EXCEPT ![c].pc = pc], clock' = clock, failures' = failures,
             request[c].pc \in {"queued", "hashing", "judging"}
      PROVE  GuessInv'
  <2>1. PICK r : r = [request[c] EXCEPT !.pc = pc]
    OBVIOUS
  <2>2. request[c] \in Request
    BY <1>1 DEF Timely
  <2>3. r \in Request /\ r.moment = request[c].moment /\ r.address = request[c].address
    BY <2>1, <2>2 DEF Request
  <2>4. request' = [request EXCEPT ![c] = r]
    BY <1>4, <2>1
  <2> QED
    BY <1>4, <2>3, <2>4, ClientKept
<1>5. ASSUME NEW c \in Clients, StartHashing(c) PROVE GuessInv'
  BY <1>4, <1>5 DEF StartHashing, Become, At
<1>6. ASSUME NEW c \in Clients, EndHashing(c), ~request[c].cancelled PROVE GuessInv'
  BY <1>4, <1>6 DEF EndHashing, Become, At
<1>7. ASSUME NEW c \in Clients, Cancel(c), ~StopsAtOnce(c) PROVE GuessInv'
  <2>1. PICK r : r = [request[c] EXCEPT !.cancelled = TRUE]
    OBVIOUS
  <2>2. request[c] \in Request
    BY <1>1 DEF Timely
  <2>3. r \in Request /\ r.moment = request[c].moment /\ r.address = request[c].address
    BY <2>1, <2>2 DEF Request
  <2>4. request' = [request EXCEPT ![c] = r] /\ clock' = clock /\ failures' = failures
    BY <1>7, <2>1 DEF Cancel
  <2>5. request[c].pc \in {"queued", "hashing", "judging"}
    BY <1>7 DEF StopsAtOnce, At
  <2> QED
    BY <2>3, <2>4, <2>5, ClientKept
<1>8. CASE Tick
  <2>1. /\ request' = request /\ failures' = failures /\ clock' = clock + 1
        /\ \A c \in Clients : ~At(c, "idle") => clock < request[c].moment + MaxDelay
    BY <1>8 DEF Tick
  <2>2. Timely'
    <3>1. \A c \in Clients : request[c].moment \in Nat
      BY <1>1 DEF Timely, Request
    <3> QED
      BY <1>1, <2>1, <3>1 DEF Timely, At
  <2>3. \A k \in Keys, started \in Nat : Counting(k, started)' \subseteq Counting(k, started)
    BY <2>1 DEF Counting
  <2> QED
    BY <1>1, <2>1, <2>2, <2>3, BudgetsKept
<1>9. CASE UNCHANGED vars
  <2>1. request' = request /\ failures' = failures /\ clock' = clock
    BY <1>9 DEF vars
  <2>2. Timely'
    BY <1>1, <2>1 DEF Timely, At
  <2>3. \A k \in Keys, started \in Nat : Counting(k, started)' \subseteq Counting(k, started)
    BY <2>1 DEF Counting
  <2> QED
    BY <1>1, <2>1, <2>2, <2>3, BudgetsKept
<1> QED
  BY <1>2, <1>3, <1>5, <1>6, <1>7, <1>8, <1>9, AdmittedIsCounted, Failed, Succeeded DEF Next

\* However logins interleave, a row counts no more failures in a window than the limit
\* lets through at once and one of each client per cooldown that fits, as long as
\* requests take less time than the first cooldown (record_auth_failure()).
THEOREM GuessesBoundedHolds == Spec => []GuessesBounded
<1>1. GuessInv /\ MaxDelay < Pause(0) => GuessesBounded
  <2> SUFFICES ASSUME GuessInv, MaxDelay < Pause(0), NEW k \in Keys, failures[k] # Nothing
               PROVE  failures[k].count <= Limit - 1 + Cardinality(Clients) * Rounds
    BY DEF GuessesBounded
  <2>1. failures[k] \in Row /\ Budget(k, failures[k])
    BY DEF GuessInv, Timely
  <2>2. PICK r \in 0 .. Rounds - 1 :
          failures[k].count + Cardinality(Counting(k, failures[k].started)) <= Allowed(r + 1)
    BY <2>1 DEF Budget
  <2>3. Rounds \in Nat /\ r + 1 \in Nat /\ r + 1 <= Rounds
    BY RoundsEnd DEF Span
  <2>4. Cardinality(Counting(k, failures[k].started)) \in Nat /\ Most \in Nat
    BY CountingIsSmall
  <2>5. Most * (r + 1) <= Most * Rounds /\ Most * (r + 1) \in Nat /\ Most * Rounds \in Nat
    BY <2>3, <2>4, Times
  <2>6. failures[k].count \in Nat
    BY <2>1 DEF Row
  <2> QED
    BY <2>2, <2>4, <2>5, <2>6 DEF Allowed, Most
<1>2. CASE MaxDelay < Pause(0)
  BY <1>1, <1>2, GuessStarts, GuessStep, PTL DEF Spec
<1>3. CASE ~(MaxDelay < Pause(0))
  <2>1. GuessesBounded
    BY <1>3 DEF GuessesBounded
  <2> QED
    BY <2>1, PTL
<1> QED
  BY <1>2, <1>3

-----------------------------------------------------------------------------
(* The rights of a request *)

\* Whoever a credential identifies has the rights that Rights grants for it.
LEMMA RightsOfAPrincipal ==
  ASSUME NEW call \in Call, NEW claims, NEW db, Authenticated(call, claims, db) # Nobody
  PROVE  Authenticated(call, claims, db).scopes \subseteq Rights(call, claims, db)
<1>1. CASE call.key # "none"
  <2>1. Authenticated(call, claims, db) = ByKey(call, db) /\ ByKey(call, db) # Nobody
    BY <1>1 DEF Authenticated
  <2>2. call.key = "known" /\ ByKey(call, db).scopes = db.key.scopes
    BY <2>1 DEF ByKey
  <2> QED
    BY <2>1, <2>2 DEF Rights
<1>2. CASE call.key = "none" /\ call.bearer
  <2>1. Authenticated(call, claims, db) = ByToken(claims, db) /\ ByToken(claims, db) # Nobody
    BY <1>2 DEF Authenticated
  <2>2. /\ Verified(claims) /\ db.user.is_active
        /\ ByToken(claims, db).scopes = RoleScopes(db.user.role)
    BY <2>1 DEF ByToken, RightsByToken
  <2> QED
    BY <1>2, <2>1, <2>2 DEF Rights
<1>3. CASE call.key = "none" /\ ~call.bearer
  <2>1. Authenticated(call, claims, db) = BySession(call, db) /\ BySession(call, db) # Nobody
    BY <1>3 DEF Authenticated
  <2>2. /\ call.cookie = "known" /\ ~db.session.revoked /\ ~db.session.expired
        /\ db.user.is_active /\ BySession(call, db).scopes = RoleScopes(db.user.role)
    BY <2>1 DEF BySession
  <2> QED
    BY <2>1, <2>2 DEF Rights
<1> QED
  BY <1>1, <1>2, <1>3 DEF Call

\* Each way to authenticate has a kind of its own; only a session needs nothing but
\* what a browser sends by itself.
LEMMA KindsOfPrincipal ==
  ASSUME NEW call, NEW claims, NEW db
  PROVE  /\ call.key # "none" => Authenticated(call, claims, db).kind \in {"api_key", "nobody"}
         /\ call.key = "none" /\ call.bearer =>
              Authenticated(call, claims, db).kind \in {"jwt", "nobody"}
         /\ call.key = "none" /\ ~call.bearer =>
              /\ Authenticated(call, claims, db) = BySession(call, db)
              /\ BySession(call, db).kind \in {"session", "nobody"}
              /\ BySession(call, db).kind = "nobody" => BySession(call, db) = Nobody
<1>1. ByKey(call, db).kind \in {"api_key", "nobody"}
  BY DEF ByKey, Nobody
<1>2. ByToken(claims, db).kind \in {"jwt", "nobody"}
  BY DEF ByToken, Nobody
<1>3. /\ BySession(call, db).kind \in {"session", "nobody"}
      /\ BySession(call, db).kind = "nobody" => BySession(call, db) = Nobody
  BY DEF BySession, Nobody
<1> QED
  BY <1>1, <1>2, <1>3 DEF Authenticated

\* The rows of a user with one session and one key.
Rows == [user : User, session : Session, key : ApiKey]

\* Whoever is let in holds a right that was asked for, and no page of another site
\* changes anything: without a key and a token only a session is left, which needs
\* the CSRF header.
LEMMA AdmittedByRight ==
  ASSUME NEW call \in Call, NEW claims, NEW db \in Rows, NEW wanted,
         Admitted(call, claims, db, wanted)
  PROVE  /\ Rights(call, claims, db) \cap (wanted \cup {"admin"}) # {}
         /\ ~call.safe => ~FromAnotherSite(call)
<1> DEFINE principal == Authenticated(call, claims, db)
<1>1. /\ principal # Nobody /\ principal.scopes \cap (wanted \cup {"admin"}) # {}
      /\ ~call.safe /\ principal.kind = "session" => ValidCsrf(call)
  BY DEF Admitted, Permits
<1>2. principal.scopes \subseteq Rights(call, claims, db)
  BY <1>1, RightsOfAPrincipal
<1>3. ASSUME ~call.safe, FromAnotherSite(call)
      PROVE  FALSE
  <2>1. call.key = "none" /\ ~call.bearer /\ call.header # "own"
    BY <1>3 DEF FromAnotherSite
  <2>2. principal = BySession(call, db) /\ principal.kind = "session"
    BY <1>1, <2>1, KindsOfPrincipal
  <2> QED
    BY <1>1, <1>3, <2>1, <2>2 DEF ValidCsrf
<1> HIDE DEF principal
<1> QED
  BY <1>1, <1>2, <1>3

\* A logout that ends a session brought the CSRF header.
LEMMA LogoutIsAsked ==
  ASSUME NEW call \in Call, NEW db, LoggedOut(call, db) # db
  PROVE  ~FromAnotherSite(call)
BY DEF LoggedOut, ValidCsrf, FromAnotherSite

\* Revoking a key switches it off, and a key that is off is nobody's.
LEMMA RevokedKeyIsRefused ==
  ASSUME NEW call \in Call, NEW claims, NEW db \in Rows
  PROVE  Authenticated(call, claims, RevokeKey(db)).kind # "api_key"
<1>1. RevokeKey(db).key.enabled = FALSE
  BY DEF RevokeKey, Rows, ApiKey
<1>2. ByKey(call, RevokeKey(db)) = Nobody
  BY <1>1 DEF ByKey
<1>3. CASE call.key = "none"
  BY <1>3, KindsOfPrincipal DEF Nobody, Call
<1>4. CASE call.key # "none"
  BY <1>2, <1>4 DEF Authenticated, Nobody
<1> QED
  BY <1>3, <1>4

\* A token and a session look at the user as he is now.
LEMMA InactiveIsRefused ==
  ASSUME NEW call \in Call, NEW claims, NEW db, ~db.user.is_active
  PROVE  Authenticated(call, claims, db).kind \in {"api_key", "nobody"}
<1>1. ByToken(claims, db) = Nobody /\ BySession(call, db) = Nobody
  BY DEF ByToken, BySession
<1> QED
  BY <1>1, KindsOfPrincipal DEF Authenticated, Nobody

\* After a logout the cookie names a session that is revoked, or never named one.
LEMMA LoggedOutIsRefused ==
  ASSUME NEW call \in Call, NEW claims, NEW db \in Rows, ValidCsrf(call)
  PROVE  Authenticated(call, claims, LoggedOut(call, db)).kind # "session"
<1>1. CASE call.cookie = "known"
  <2>1. LoggedOut(call, db).session.revoked = TRUE
    BY <1>1 DEF LoggedOut, Rows, Session
  <2>2. BySession(call, LoggedOut(call, db)) = Nobody
    BY <2>1 DEF BySession
  <2> QED
    BY <2>2, KindsOfPrincipal DEF Nobody
<1>2. CASE call.cookie # "known"
  <2>1. BySession(call, LoggedOut(call, db)) = Nobody
    BY <1>2 DEF BySession
  <2> QED
    BY <2>1, KindsOfPrincipal DEF Nobody
<1> QED
  BY <1>1, <1>2

\* A login gives a session that is good, whatever became of the last.
LEMMA LoginMends ==
  ASSUME NEW call \in Call, NEW db \in Rows, call.cookie = "known", db.user.is_active
  PROVE  BySession(call, LoggedIn(db)) # Nobody
<1>1. /\ LoggedIn(db).session = [revoked |-> FALSE, expired |-> FALSE]
      /\ LoggedIn(db).user = db.user
  BY DEF LoggedIn, Rows
<1>2. BySession(call, LoggedIn(db)).kind = "session"
  BY <1>1 DEF BySession
<1> QED
  BY <1>2 DEF Nobody

\* Every request gets what its credentials are good for now, and no more: over all
\* requests, users, sessions, keys and tokens.
THEOREM CredentialsCount == CredentialsCountNow
<1>1. SUFFICES
        ASSUME NEW call \in Call, NEW user \in User, NEW session \in Session,
               NEW key \in ApiKey, NEW claims \in (IF call.bearer THEN Claims ELSE {NoClaims})
        PROVE
          LET db == [user |-> user, session |-> session, key |-> key]
              off == [db EXCEPT !.user.is_active = FALSE]
          IN  /\ \A wanted \in {{"read"}, {"ingest"}, {"editor", "admin"}, {"raw_audit"}} :
                   Admitted(call, claims, db, wanted) =>
                     /\ Rights(call, claims, db) \cap (wanted \cup {"admin"}) # {}
                     /\ ~call.safe => ~FromAnotherSite(call)
              /\ LoggedOut(call, db) # db => ~FromAnotherSite(call)
              /\ Authenticated(call, claims, RevokeKey(db)).kind # "api_key"
              /\ Authenticated(call, claims, off).kind \in {"api_key", "nobody"}
              /\ ValidCsrf(call) => Authenticated(call, claims, LoggedOut(call, db)).kind # "session"
              /\ call.cookie = "known" /\ user.is_active => BySession(call, LoggedIn(db)) # Nobody
  BY Zenon DEF CredentialsCountNow
<1> DEFINE db == [user |-> user, session |-> session, key |-> key]
           off == [db EXCEPT !.user.is_active = FALSE]
<1>2. db \in Rows /\ db.user = user
  BY DEF Rows
<1>3. ~off.user.is_active
  BY DEF User
<1>4. \A wanted : Admitted(call, claims, db, wanted) =>
        /\ Rights(call, claims, db) \cap (wanted \cup {"admin"}) # {}
        /\ ~call.safe => ~FromAnotherSite(call)
  BY <1>2, AdmittedByRight
<1>5. LoggedOut(call, db) # db => ~FromAnotherSite(call)
  BY LogoutIsAsked
<1>6. Authenticated(call, claims, RevokeKey(db)).kind # "api_key"
  BY <1>2, RevokedKeyIsRefused
<1>7. Authenticated(call, claims, off).kind \in {"api_key", "nobody"}
  BY <1>3, InactiveIsRefused
<1>8. ValidCsrf(call) => Authenticated(call, claims, LoggedOut(call, db)).kind # "session"
  BY <1>2, LoggedOutIsRefused
<1>9. call.cookie = "known" /\ user.is_active => BySession(call, LoggedIn(db)) # Nobody
  BY <1>2, LoginMends
<1> HIDE DEF db, off
<1>10. QED
  BY <1>4, <1>5, <1>6, <1>7, <1>8, <1>9, Zenon DEF db, off

\* The same as the run states it.
THEOREM RightsAreCurrentHolds == Spec => []RightsAreCurrent
<1>1. RightsAreCurrent
  BY CredentialsCount DEF RightsAreCurrent
<1> QED
  BY <1>1, PTL

-----------------------------------------------------------------------------
(* Labels: the inductive invariant *)

\* What the variables of Labels range over.
Catalog ==
  [facet : BOOLEAN, values : SUBSET Values, policies : [Classifiers -> Policies], rules : Nat]

Opinion ==
  [version : Nat, origin : {"classifier", "source_default", "manual"},
   by : Classifiers \cup {0}, stamp : Nat, value : Values, confidence : Nat]

Decision == [version : Nat, revision : Nat, action : {"set", "release"}]

Book ==
  [version : Nat, rows : SUBSET Opinion, decisions : SUBSET Decision,
   latest : [Classifiers -> Nat], manual : BOOLEAN]

Transaction ==
  [by : Workers \cup {"writer"}, pc : {"open", "read", "ready"}, book : Book,
   taxonomy : Catalog \cup {None}, rest : Catalog \cup {None}, known : Nat]

JobRow ==
  [scope : {"all", "facet", "value", "classifier"}, id : Nat, cursor : Nat,
   status : {"pending", "running", "succeeded"}, owner : Workers \cup {None}]

Worker ==
  [pc : {"idle", "claimed", "working", "failed"}, job : Nat, ids : SUBSET News]

\* A transaction that has read the axis and the values, and one that is to commit.
Reading(n) == tx[n] # None /\ tx[n].pc \in {"read", "ready"}
Ready(n) == tx[n] # None /\ tx[n].pc = "ready"

\* The tables and what transactions and workers hold.
Tables ==
  /\ catalog \in Catalog /\ book \in [News -> Book]
  /\ tx \in [News -> Transaction \cup {None}]
  /\ jobs \in Seq(JobRow) /\ workers \in [Workers -> Worker]
  /\ \A n \in News : Reading(n) => tx[n].taxonomy \in Catalog
  /\ \A n \in News : Ready(n) => tx[n].rest \in Catalog
  /\ \A n \in News : effective[n].version \in Nat /\ effective[n].version <= book[n].version

\* A worker has a job, in a chunk there are news, and it holds news of its chunk only.
AtWork ==
  /\ \A w \in Workers : workers[w].pc # "idle" => workers[w].job \in 1 .. Len(jobs)
  /\ \A w \in Workers : workers[w].pc = "working" => workers[w].ids # {}
  /\ \A n \in News : tx[n] # None /\ tx[n].by # "writer" =>
       workers[tx[n].by].pc = "working" /\ n \in workers[tx[n].by].ids
  /\ \A n \in News : Ready(n) => tx[n].known <= Len(jobs)

OfVersion(b, v) == {d \in b.decisions : d.version = v}

\* Decisions are numbered within a version, and each manual row has its own.
Numbered(b) ==
  /\ IsFiniteSet(b.decisions)
  /\ \A d \in b.decisions : d.revision <= Cardinality(OfVersion(b, d.version))
  /\ \A r \in b.rows : r.by # 0 <=> r.origin = "classifier"
  /\ \A r \in b.rows : r.origin = "manual" => r.stamp <= Cardinality(OfVersion(b, r.version))
  /\ \A r, s \in b.rows :
       r.origin = "manual" /\ s.origin = "manual" /\ r.version = s.version /\ r.stamp = s.stamp => r = s

BooksAreNumbered ==
  \A n \in News : Numbered(book[n]) /\ (tx[n] # None => Numbered(tx[n].book))

\* A job is still to come to a news that it concerns.
Coming(j, n) == ~Passed(j, n) /\ Concerns(jobs[j], book[n])

Others(j, n) == tx[n].by # "writer" => workers[tx[n].by].job # j

\* The job will come to the news when its transaction is over.
Follows(j, n) == Coming(j, n) /\ Concerns(jobs[j], tx[n].book) /\ Others(j, n)

\* What a transaction has read is still so, or a job follows: the axis, the values,
\* the rules, and the policy of each classifier that its rows name.  Only the job
\* of a policy may pass it by: the classifier has no row there that is committed.
AxisIsRead(n) ==
  \/ \E j \in DOMAIN jobs : jobs[j].scope = "facet" /\ Follows(j, n)
  \/ tx[n].book.rows = {} /\ tx[n].book.decisions = {}
  \/ tx[n].taxonomy.facet = catalog.facet /\ (Ready(n) => tx[n].rest.facet = catalog.facet)

ValuesAreRead(n) ==
  \/ \E j \in DOMAIN jobs : Follows(j, n)
  \/ \A r \in tx[n].book.rows : r.value \in tx[n].taxonomy.values <=> r.value \in catalog.values

RulesAreRead(n) ==
  \/ \E j \in DOMAIN jobs : Follows(j, n)
  \/ tx[n].rest.rules = catalog.rules

MayPass(j, c, n) ==
  /\ tx[n].known < j /\ jobs[j].scope = "classifier" /\ jobs[j].id = c
  /\ ~Names(book[n], c) /\ Others(j, n)

PolicyIsRead(c, n) ==
  \/ \E j \in DOMAIN jobs : Follows(j, n)
  \/ tx[n].rest.policies[c] = catalog.policies[c]
  \/ \E j \in DOMAIN jobs : MayPass(j, c, n)

\* A label of the text in force agrees with the catalog or a job comes, and an
\* editor's decision shows or the job of the axis comes.
Scheduled(n) ==
  effective[n].version = book[n].version /\ ~slipped[n] =>
    \/ effective[n] = Recomputed(book[n], catalog, catalog)
    \/ \E j \in DOMAIN jobs : Coming(j, n)

Shown(n) ==
  LET decision == Latest(book[n]) IN
  /\ decision # None /\ decision.action = "set"
  /\ effective[n].version = book[n].version /\ effective[n].row # None
  => \/ effective[n].row.origin = "manual" /\ effective[n].row.stamp = decision.revision
     \/ \E j \in DOMAIN jobs : jobs[j].scope = "facet" /\ Coming(j, n)

ReadingFollowed(n) ==
  /\ Reading(n) => AxisIsRead(n) /\ ValuesAreRead(n)
  /\ Ready(n) => RulesAreRead(n) /\ \A c \in Classifiers : Names(tx[n].book, c) => PolicyIsRead(c, n)

LabelFollowed(n) == Scheduled(n) /\ Shown(n)

\* The inductive invariant of Labels.
TablesInv == Tables /\ AtWork /\ BooksAreNumbered

LabelsInv == TablesInv /\ \A n \in News : ReadingFollowed(n) /\ LabelFollowed(n)

HIDE LoginThrottleAssumption
USE LabelsAssumption

-----------------------------------------------------------------------------
(* The label that is worked out *)

\* What a recompute reads of the policies of classifiers that no row names does not matter.
LEMMA SameWinner ==
  ASSUME NEW C, NEW p, NEW q,
         \A r \in C : r.by # 0 => p[r.by] = q[r.by]
  PROVE  Winner(C, p) = Winner(C, q)
<1>1. ASSUME NEW r \in C, NEW s \in C
      PROVE  Beats(r, s, p) <=> Beats(r, s, q)
  <2>1. /\ (IF r.by = 0 THEN 0 ELSE p[r.by].priority) = (IF r.by = 0 THEN 0 ELSE q[r.by].priority)
        /\ (IF s.by = 0 THEN 0 ELSE p[s.by].priority) = (IF s.by = 0 THEN 0 ELSE q[s.by].priority)
    OBVIOUS
  <2> QED
    BY <2>1 DEF Beats
<1> HIDE DEF Beats
<1> QED
  BY <1>1, Zenon DEF Winner

\* A label does not depend on what was read of the catalog but does not concern the book.
LEMMA SameLabel ==
  ASSUME NEW b \in Book, Numbered(b),
         NEW s \in Catalog, NEW t \in Catalog, NEW p \in Catalog, NEW q \in Catalog,
         b.rows = {} \/ s.facet = t.facet,
         \A r \in b.rows : r.value \in s.values <=> r.value \in t.values,
         b.decisions = {} \/ p.facet = q.facet,
         \A c \in Classifiers : Names(b, c) => p.policies[c] = q.policies[c],
         p.rules = q.rules
  PROVE  Recomputed(b, s, p) = Recomputed(b, t, q)
<1> DEFINE decided(x) == IF x.facet THEN Latest(b) ELSE None
           legacy == b.manual /\ {d \in b.decisions : d.version = b.version} = {}
           candidates(x, y) == LeftByDecision(CountedRows(b, x, y.policies), decided(y), legacy)
<1>1. \A r \in b.rows :
        /\ r.by # 0 => p.policies[r.by] = q.policies[r.by]
        /\ r.origin = "classifier" => p.policies[r.by] = q.policies[r.by]
  BY DEF Names, Book, Opinion, Numbered
<1>2. CountedRows(b, s, p.policies) = CountedRows(b, t, q.policies)
  BY <1>1 DEF CountedRows
<1>3. decided(p) = decided(q)
  BY DEF Latest
<1>4. candidates(s, p) = candidates(t, q)
  BY <1>2, <1>3
<1>5. candidates(s, p) \subseteq b.rows
  BY DEF LeftByDecision, CountedRows
<1>6. Winner(candidates(s, p), p.policies) = Winner(candidates(t, q), q.policies)
  BY <1>1, <1>4, <1>5, SameWinner
<1>7. Recomputed(b, s, p) =
        [row |-> IF candidates(s, p) = {} THEN None ELSE Winner(candidates(s, p), p.policies),
         manual |-> legacy \/ (decided(p) # None /\ decided(p).action = "set"),
         rules |-> p.rules, version |-> b.version]
  BY DEF Recomputed
<1>8. Recomputed(b, t, q) =
        [row |-> IF candidates(t, q) = {} THEN None ELSE Winner(candidates(t, q), q.policies),
         manual |-> legacy \/ (decided(q) # None /\ decided(q).action = "set"),
         rules |-> q.rules, version |-> b.version]
  BY DEF Recomputed
<1> HIDE DEF decided, legacy, candidates
<1> QED
  BY <1>3, <1>4, <1>6, <1>7, <1>8

\* Committing what a recompute says of manual_facets does not change what it says.
LEMMA RecomputedAgain ==
  ASSUME NEW b \in Book, NEW s, NEW p
  PROVE  Recomputed([b EXCEPT !.manual = Recomputed(b, s, p).manual], s, p) = Recomputed(b, s, p)
<1> DEFINE m == Recomputed(b, s, p).manual
           c == [b EXCEPT !.manual = m]
           mine == {d \in b.decisions : d.version = b.version}
           decided == IF p.facet THEN Latest(b) ELSE None
<1>1. /\ c.decisions = b.decisions /\ c.version = b.version /\ c.rows = b.rows
      /\ c.latest = b.latest /\ c.manual = m
  BY DEF Book
<1>2. Latest(c) = Latest(b)
  BY <1>1 DEF Latest
<1>3. m = ((b.manual /\ mine = {}) \/ (decided # None /\ decided.action = "set"))
  BY DEF Recomputed
<1>4. mine = {} => decided = None
  BY DEF Latest
<1>5. (c.manual /\ mine = {}) = (b.manual /\ mine = {})
  BY <1>1, <1>3, <1>4 DEF Book
<1>6. CountedRows(c, s, p.policies) = CountedRows(b, s, p.policies)
  BY <1>1 DEF CountedRows
<1> DEFINE label(x, legacy) ==
             LET candidates == LeftByDecision(CountedRows(x, s, p.policies), decided, legacy) IN
             [row |-> IF candidates = {} THEN None ELSE Winner(candidates, p.policies),
              manual |-> legacy \/ (decided # None /\ decided.action = "set"),
              rules |-> p.rules, version |-> x.version]
<1>7. Recomputed(b, s, p) = label(b, b.manual /\ mine = {})
  BY DEF Recomputed
<1>8. Recomputed(c, s, p) = label(c, c.manual /\ mine = {})
  BY <1>1, <1>2 DEF Recomputed
<1>9. label(c, c.manual /\ mine = {}) = label(b, b.manual /\ mine = {})
  BY <1>1, <1>5, <1>6
<1> QED
  BY <1>7, <1>8, <1>9

\* With the axis on or off at both readings, a label shows what was decided last.
LEMMA DecisionWins ==
  ASSUME NEW b \in Book, Numbered(b), NEW s \in Catalog, NEW p \in Catalog,
         s.facet = p.facet \/ b.rows = {},
         Latest(b) # None, Latest(b).action = "set",
         Recomputed(b, s, p).row # None
  PROVE  /\ Recomputed(b, s, p).row.origin = "manual"
         /\ Recomputed(b, s, p).row.stamp = Latest(b).revision
<1> DEFINE counted == CountedRows(b, s, p.policies)
           legacy == b.manual /\ {d \in b.decisions : d.version = b.version} = {}
           decided == IF p.facet THEN Latest(b) ELSE None
           candidates == LeftByDecision(counted, decided, legacy)
<1>1. Recomputed(b, s, p).row = IF candidates = {} THEN None ELSE Winner(candidates, p.policies)
  BY DEF Recomputed
<1>2. candidates # {} /\ candidates \subseteq counted /\ Recomputed(b, s, p).row = Winner(candidates, p.policies)
  BY <1>1 DEF LeftByDecision
<1>3. counted # {} /\ s.facet /\ p.facet
  BY <1>2 DEF CountedRows, Catalog
<1>4. candidates = {r \in counted : r.origin = "manual" /\ r.stamp = Latest(b).revision}
  BY <1>3 DEF LeftByDecision
<1>5. \A r \in counted : r \in b.rows /\ r.version = b.version
  BY DEF CountedRows
<1>6. PICK r \in candidates : candidates = {r}
  BY <1>2, <1>4, <1>5 DEF Numbered
<1>7. Winner(candidates, p.policies) = r
  BY <1>6 DEF Winner
<1> QED
  BY <1>2, <1>4, <1>6, <1>7

-----------------------------------------------------------------------------
(* The tables *)

\* A transaction that begins takes the row of its news.
LEMMA Begun ==
  ASSUME Tables, NEW n \in News, NEW by \in Workers \cup {"writer"}, NEW new \in Book, Begin(n, by, new)
  PROVE  /\ tx' \in [News -> Transaction \cup {None}]
         /\ \A m \in News : m # n => tx'[m] = tx[m]
         /\ tx'[n].by = by /\ tx'[n].pc = "open" /\ tx'[n].book = new
BY DEF Begin, Tables, Transaction

LEMMA BeginShapes ==
  ASSUME Tables, NEW n \in News, NEW by \in Workers \cup {"writer"}, NEW new \in Book, Begin(n, by, new),
         UNCHANGED <<catalog, book, effective, jobs, workers>>
  PROVE  Tables'
<1>1. tx' \in [News -> Transaction \cup {None}]
  BY Begun
<1>2. \A m \in News : m # n => tx'[m] = tx[m]
  BY Begun
<1>3. tx'[n].pc = "open"
  BY Begun
<1> QED
  BY <1>1, <1>2, <1>3 DEF Tables, Reading, Ready

\* The books that writes leave are books.
LEMMA AnswerBook ==
  ASSUME NEW b \in Book, NEW c \in Classifiers, NEW value \in Values, NEW confidence \in Confidences, NEW kept
  PROVE  [b EXCEPT !.latest[c] = b.latest[c] + 1,
                   !.rows = IF kept THEN @ \cup {LabelRow(b.version, "classifier", c, b.latest[c] + 1, value, confidence)}
                            ELSE @] \in Book
<1>1. b.latest[c] + 1 \in Nat
  BY DEF Book
<1>2. LabelRow(b.version, "classifier", c, b.latest[c] + 1, value, confidence) \in Opinion
  BY <1>1 DEF LabelRow, Opinion, Book
<1>3. [b.latest EXCEPT ![c] = b.latest[c] + 1] \in [Classifiers -> Nat]
  BY <1>1 DEF Book
<1> QED
  BY <1>1, <1>2, <1>3 DEF Book

LEMMA SetBook ==
  ASSUME NEW b \in Book, NEW revision \in Nat, NEW value \in Values \cup {None}
  PROVE  [b EXCEPT !.decisions = @ \cup {[version |-> b.version, revision |-> revision, action |-> "set"]},
                   !.rows = IF value = None THEN @
                            ELSE @ \cup {LabelRow(b.version, "manual", 0, revision, value, 1)}] \in Book
<1>1. [version |-> b.version, revision |-> revision, action |-> "set"] \in Decision
  BY DEF Decision, Book
<1>2. value # None => LabelRow(b.version, "manual", 0, revision, value, 1) \in Opinion
  BY DEF LabelRow, Opinion, Book
<1> QED
  BY <1>1, <1>2 DEF Book

LEMMA ReleaseBook ==
  ASSUME NEW b \in Book, NEW revision \in Nat
  PROVE  [b EXCEPT !.decisions = @ \cup {[version |-> b.version, revision |-> revision, action |-> "release"]}] \in Book
<1>1. [version |-> b.version, revision |-> revision, action |-> "release"] \in Decision
  BY DEF Decision, Book
<1> QED
  BY <1>1 DEF Book

\* The next revision is one more than the decisions about the version in force.
LEMMA Revisions ==
  ASSUME NEW b, Numbered(b)
  PROVE  NextRevision(b) \in Nat /\ NextRevision(b) = Cardinality(OfVersion(b, b.version)) + 1
<1>1. IsFiniteSet(OfVersion(b, b.version))
  BY FS_Subset DEF Numbered, OfVersion
<1> QED
  BY <1>1, FS_CardinalityType DEF NextRevision, OfVersion

\* What a commit writes.
LEMMA CommitShapes ==
  ASSUME Tables, NEW done \in SUBSET News, Commits(done), \A n \in done : tx[n] # None
  PROVE  /\ book' \in [News -> Book]
         /\ tx' \in [News -> Transaction \cup {None}]
         /\ \A n \in News : effective'[n].version \in Nat /\ effective'[n].version <= book'[n].version
<1>1. ASSUME NEW n \in done
      PROVE  /\ tx[n].book \in Book /\ Result(n).manual \in BOOLEAN
             /\ Result(n).version = tx[n].book.version
  <2>1. tx[n].book \in Book
    BY DEF Tables, Transaction
  <2> QED
    BY <2>1 DEF Result, Recomputed, Book
<1>2. \A n \in done : [tx[n].book EXCEPT !.manual = Result(n).manual] \in Book
  BY <1>1 DEF Book
<1>3. book' \in [News -> Book]
  BY <1>2 DEF Commits, Tables
<1>4. ASSUME NEW n \in done PROVE book'[n].version = effective'[n].version /\ effective'[n].version \in Nat
  BY <1>1 DEF Commits, Book
<1>5. \A n \in News \ done : book'[n] = book[n] /\ effective'[n] = effective[n]
  BY DEF Commits
<1>6. tx' \in [News -> Transaction \cup {None}]
  BY DEF Commits, Tables
<1> QED
  BY <1>3, <1>4, <1>5, <1>6 DEF Tables, Book

\* The rows of the jobs.
LEMMA JobShapes ==
  ASSUME NEW scope \in {"all", "facet", "value", "classifier"}, NEW id \in Nat
  PROVE  Job(scope, id) \in JobRow
BY DEF Job, JobRow

LEMMA Requested ==
  ASSUME Tables, NEW scope \in {"all", "facet", "value", "classifier"}, NEW id \in Nat,
         RequestJob(scope, id)
  PROVE  /\ jobs' \in Seq(JobRow) /\ Len(jobs') = Len(jobs) + 1
         /\ \A j \in 1 .. Len(jobs) : jobs'[j] = jobs[j]
         /\ jobs'[Len(jobs) + 1] = Job(scope, id)
BY JobShapes DEF RequestJob, Tables

LEMMA JobUpdated ==
  ASSUME Tables, NEW j \in 1 .. Len(jobs), NEW row \in JobRow, jobs' = [jobs EXCEPT ![j] = row]
  PROVE  /\ jobs' \in Seq(JobRow) /\ Len(jobs') = Len(jobs) /\ jobs'[j] = row
         /\ \A k \in 1 .. Len(jobs) : k # j => jobs'[k] = jobs[k]
BY DEF Tables

LEMMA JobsAreRows ==
  ASSUME Tables, NEW j \in 1 .. Len(jobs)
  PROVE  jobs[j] \in JobRow
BY DEF Tables

\* The catalog and the jobs after a change of the catalog.
LEMMA ChangeShapes ==
  ASSUME Tables, catalog' \in Catalog, NEW scope \in {"all", "facet", "value", "classifier"}, NEW id \in Nat,
         RequestJob(scope, id), UNCHANGED <<book, effective, tx, workers>>
  PROVE  Tables'
<1>1. jobs' \in Seq(JobRow)
  BY Requested
<1> QED
  BY <1>1 DEF Tables, Reading, Ready

\* The workers after one of them did something.
LEMMA WorkerShapes ==
  ASSUME Tables, NEW w \in Workers, NEW row \in Worker, workers' = [workers EXCEPT ![w] = row]
  PROVE  /\ workers' \in [Workers -> Worker] /\ workers'[w] = row
         /\ \A v \in Workers : v # w => workers'[v] = workers[v]
BY DEF Tables

LEMMA IdleShape == Idle \in Worker /\ Idle.pc = "idle"
BY DEF Idle, Worker

\* What the steps of a worker make of its job.
LEMMA ClaimShapes ==
  ASSUME Tables, NEW w \in Workers, NEW j \in DOMAIN jobs, Claim(w, j)
  PROVE  /\ j \in 1 .. Len(jobs)
         /\ jobs' = [jobs EXCEPT ![j] = [jobs[j] EXCEPT !.status = "running", !.owner = w]]
         /\ [jobs[j] EXCEPT !.status = "running", !.owner = w] \in JobRow
         /\ workers' = [workers EXCEPT ![w] = [pc |-> "claimed", job |-> j, ids |-> {}]]
         /\ [pc |-> "claimed", job |-> j, ids |-> {}] \in Worker
<1>1. j \in 1 .. Len(jobs) /\ jobs[j] \in JobRow
  BY DEF Tables
<1>2. jobs' = [jobs EXCEPT ![j] = [jobs[j] EXCEPT !.status = "running", !.owner = w]]
  BY DEF Claim
<1>3. [jobs[j] EXCEPT !.status = "running", !.owner = w] \in JobRow
  BY <1>1 DEF JobRow
<1>4. [pc |-> "claimed", job |-> j, ids |-> {}] \in Worker
  BY <1>1 DEF Worker, Tables
<1> QED
  BY <1>1, <1>2, <1>3, <1>4 DEF Claim

LEMMA SelectShapes ==
  ASSUME Tables, AtWork, NEW w \in Workers, SelectChunk(w)
  PROVE  LET j == workers[w].job  ids == Selected(jobs[j])
             done == [jobs[j] EXCEPT !.status = "succeeded", !.owner = None]
             row == [workers[w] EXCEPT !.pc = "working", !.ids = ids]
         IN  /\ j \in 1 .. Len(jobs) /\ done \in JobRow /\ row \in Worker
             /\ IF Owns(w) /\ ids # {}
                THEN workers' = [workers EXCEPT ![w] = row] /\ jobs' = jobs
                ELSE /\ workers' = [workers EXCEPT ![w] = Idle]
                     /\ jobs' = IF Owns(w) THEN [jobs EXCEPT ![j] = done] ELSE jobs
<1> DEFINE j == workers[w].job
           ids == Selected(jobs[j])
<1>1. j \in 1 .. Len(jobs) /\ workers[w] \in Worker
  BY DEF SelectChunk, AtWork, Tables
<1>2. jobs[j] \in JobRow
  BY <1>1, JobsAreRows
<1>3. ids \subseteq News
  BY DEF Selected
<1>4. [jobs[j] EXCEPT !.status = "succeeded", !.owner = None] \in JobRow
  BY <1>2 DEF JobRow
<1>5. [workers[w] EXCEPT !.pc = "working", !.ids = ids] \in Worker
  BY <1>1, <1>3 DEF Worker
<1> QED
  BY <1>1, <1>4, <1>5 DEF SelectChunk, Tables

LEMMA RetryShapes ==
  ASSUME Tables, AtWork, NEW w \in Workers, Retry(w)
  PROVE  LET j == workers[w].job
         IN  /\ j \in 1 .. Len(jobs) /\ Retried(jobs[j]) \in JobRow
             /\ workers' = [workers EXCEPT ![w] = Idle]
             /\ jobs' = IF Owns(w) THEN [jobs EXCEPT ![j] = Retried(jobs[j])] ELSE jobs
<1>1. workers[w].job \in 1 .. Len(jobs)
  BY DEF Retry, AtWork
<1>2. jobs[workers[w].job] \in JobRow
  BY <1>1, JobsAreRows
<1> QED
  BY <1>1, <1>2 DEF Retry, Retried, JobRow

\* A chunk has a last news: of the sets of ids above one of its own, one is least, and it is empty.
LEMMA GreatestOf ==
  ASSUME NEW ids \in SUBSET News, ids # {}
  PROVE  NextCursor(ids) \in ids /\ \A m \in ids : m <= NextCursor(ids)
<1> DEFINE above(m) == {k \in ids : k > m}
           all == {above(m) : m \in ids}
<1>1. IsFiniteSet(ids) /\ ids \subseteq Nat
  BY FS_Subset
<1>2. all \subseteq FiniteSubsetsOf(ids) /\ all # {}
  <2>1. \A m \in ids : above(m) \in FiniteSubsetsOf(ids)
    BY <1>1, FS_Subset DEF FiniteSubsetsOf
  <2>2. all # {}
    <3>1. PICK m \in ids : TRUE
      OBVIOUS
    <3>2. above(m) \in all
      OBVIOUS
    <3> QED
      BY <3>2
  <2>3. ASSUME NEW X \in all PROVE X \in FiniteSubsetsOf(ids)
    <3>1. PICK m \in ids : X = above(m)
      OBVIOUS
    <3> QED
      BY <2>1, <3>1
  <2> QED
    BY <2>2, <2>3
<1>3. PICK least \in all : \A other \in all : <<other, least>> \notin StrictSubsetOrdering(ids)
  BY <1>2, FS_StrictSubsetOrderingWellFounded, WFMin
<1>4. PICK n \in ids : least = above(n)
  OBVIOUS
<1>5. ASSUME NEW m \in ids PROVE m <= n
  <2> SUFFICES ASSUME m > n PROVE FALSE
    BY <1>1
  <2>1. above(m) \subseteq above(n) /\ m \in above(n) /\ m \notin above(m)
    <3>1. \A k \in ids : k \in Nat
      BY <1>1
    <3>2. \A k \in ids : k > m => k > n
      BY <3>1
    <3>3. m \in above(n) /\ m \notin above(m)
      BY <3>1
    <3> QED
      BY <3>2, <3>3
  <2>2. above(m) \in all /\ <<above(m), above(n)>> \in (SUBSET ids) \X (SUBSET ids)
    OBVIOUS
  <2> QED
    BY <1>3, <1>4, <2>1, <2>2 DEF StrictSubsetOrdering
<1> QED
  BY <1>5 DEF NextCursor

\* The cursor goes to the last news of the chunk.
LEMMA ChunkShapes ==
  ASSUME Tables, AtWork, NEW w \in Workers, CommitChunk(w)
  PROVE  LET j == workers[w].job
             row == [jobs[j] EXCEPT !.cursor = NextCursor(workers[w].ids), !.status = "pending", !.owner = None]
         IN  /\ j \in 1 .. Len(jobs) /\ row \in JobRow /\ workers[w].ids \in SUBSET News
             /\ workers[w].ids # {} /\ NextCursor(workers[w].ids) \in workers[w].ids
             /\ \A m \in workers[w].ids : m <= NextCursor(workers[w].ids)
             /\ jobs' = [jobs EXCEPT ![j] = row]
             /\ workers' = [workers EXCEPT ![w] = Idle]
<1> DEFINE j == workers[w].job
           ids == workers[w].ids
<1>1. j \in 1 .. Len(jobs) /\ ids # {} /\ ids \in SUBSET News
  BY DEF CommitChunk, AtWork, Tables, Worker
<1>2. jobs[j] \in JobRow
  BY <1>1, JobsAreRows
<1>3. /\ NextCursor(ids) \in ids
      /\ \A m \in ids : m <= NextCursor(ids)
  BY <1>1, GreatestOf
<1>4. [jobs[j] EXCEPT !.cursor = NextCursor(ids), !.status = "pending", !.owner = None] \in JobRow
  <2>1. NextCursor(ids) \in Nat
    BY <1>1, <1>3
  <2> QED
    BY <1>2, <2>1 DEF JobRow
<1>5. /\ jobs' = [jobs EXCEPT ![j] = [jobs[j] EXCEPT !.cursor = NextCursor(ids),
                                                    !.status = "pending", !.owner = None]]
      /\ workers' = [workers EXCEPT ![w] = Idle]
  <2>1. jobs' = [jobs EXCEPT ![workers[w].job] =
          [@ EXCEPT !.cursor = NextCursor(workers[w].ids), !.status = "pending", !.owner = None]]
    BY DEF CommitChunk
  <2> QED
    BY <2>1, Zenon DEF CommitChunk
<1> QED
  BY <1>1, <1>3, <1>4, <1>5

\* To begin a transaction keeps the tables in order.
LEMMA StartStep ==
  ASSUME Tables, AtWork, BooksAreNumbered, NEW n \in News, NEW by \in Workers \cup {"writer"}, NEW new \in Book,
         Begin(n, by, new), Numbered(new),
         by # "writer" => workers[by].pc = "working" /\ n \in workers[by].ids,
         UNCHANGED <<catalog, book, effective, jobs, workers>>
  PROVE  Tables' /\ AtWork' /\ BooksAreNumbered'
<1>1. Tables'
  BY BeginShapes
<1>2. /\ \A m \in News : m # n => tx'[m] = tx[m]
      /\ tx'[n].by = by /\ tx'[n].pc = "open" /\ tx'[n].book = new
  <2>1. \A m \in News : m # n => tx'[m] = tx[m]
    BY Begun
  <2>2. tx'[n].by = by /\ tx'[n].pc = "open" /\ tx'[n].book = new
    BY Begun
  <2> QED
    BY <2>1, <2>2
<1>3. AtWork'
  BY <1>2 DEF AtWork, Ready
<1>4. BooksAreNumbered'
  BY <1>2 DEF BooksAreNumbered, Numbered, OfVersion
<1> QED
  BY <1>1, <1>3, <1>4

\* Answers do not decide anything.
LEMMA AnswerNumbered ==
  ASSUME NEW b \in Book, Numbered(b), NEW c \in Classifiers, NEW value, NEW confidence, NEW kept
  PROVE  Numbered([b EXCEPT !.latest[c] = b.latest[c] + 1,
                   !.rows = IF kept THEN @ \cup {LabelRow(b.version, "classifier", c, b.latest[c] + 1, value, confidence)}
                            ELSE @])
<1> DEFINE row == LabelRow(b.version, "classifier", c, b.latest[c] + 1, value, confidence)
           new == [b EXCEPT !.latest[c] = b.latest[c] + 1,
                            !.rows = IF kept THEN @ \cup {row} ELSE @]
<1>1. new.decisions = b.decisions /\ new.rows \subseteq b.rows \cup {row} /\ b.rows \subseteq new.rows
  BY DEF Book
<1>2. row.origin = "classifier" /\ row.by # 0
  BY DEF LabelRow
<1>3. \A v : OfVersion(new, v) = OfVersion(b, v)
  BY <1>1 DEF OfVersion
<1>4. Numbered(new)
  <2> HIDE DEF row, new
  <2> QED
    BY <1>1, <1>2, <1>3 DEF Numbered
<1> QED
  BY <1>4

\* A new decision has a number of its own.
LEMMA DecisionCounted ==
  ASSUME NEW b \in Book, Numbered(b), NEW c \in Book, NEW action, c.version = b.version,
         c.decisions = b.decisions \cup {[version |-> b.version, revision |-> NextRevision(b), action |-> action]}
  PROVE  /\ IsFiniteSet(c.decisions)
         /\ \A v \in Nat : Cardinality(OfVersion(b, v)) \in Nat /\ Cardinality(OfVersion(c, v)) \in Nat
         /\ \A v \in Nat : Cardinality(OfVersion(b, v)) <= Cardinality(OfVersion(c, v))
         /\ Cardinality(OfVersion(c, b.version)) = NextRevision(b)
<1> DEFINE d == [version |-> b.version, revision |-> NextRevision(b), action |-> action]
<1>1. IsFiniteSet(b.decisions)
  BY DEF Numbered
<1>2. IsFiniteSet(c.decisions)
  <2>1. c.decisions = b.decisions \cup {d}
    OBVIOUS
  <2>2. IsFiniteSet(b.decisions \cup {d})
    BY <1>1, FS_AddElement
  <2> QED
    BY <2>1, <2>2
<1>3. ASSUME NEW v \in Nat
      PROVE  /\ Cardinality(OfVersion(b, v)) \in Nat /\ Cardinality(OfVersion(c, v)) \in Nat
             /\ Cardinality(OfVersion(b, v)) <= Cardinality(OfVersion(c, v))
  <2>1. IsFiniteSet(OfVersion(b, v)) /\ IsFiniteSet(OfVersion(c, v))
    BY <1>1, <1>2, FS_Subset DEF OfVersion
  <2>2. OfVersion(b, v) \subseteq OfVersion(c, v)
    BY DEF OfVersion
  <2> QED
    BY <2>1, <2>2, FS_Subset, FS_CardinalityType
<1>4. d \notin OfVersion(b, b.version)
  <2>1. NextRevision(b) \in Nat /\ NextRevision(b) = Cardinality(OfVersion(b, b.version)) + 1
    BY Revisions
  <2>2. b.version \in Nat
    BY DEF Book
  <2>3. d \in OfVersion(b, b.version) => d.revision <= Cardinality(OfVersion(b, b.version))
    BY DEF Numbered, OfVersion
  <2> QED
    BY <1>3, <2>1, <2>2, <2>3
<1>5. OfVersion(c, b.version) = OfVersion(b, b.version) \cup {d}
  BY DEF OfVersion
<1>6. Cardinality(OfVersion(c, b.version)) = NextRevision(b)
  <2>1. IsFiniteSet(OfVersion(b, b.version))
    BY <1>1, FS_Subset DEF OfVersion
  <2> QED
    BY <1>4, <1>5, <2>1, FS_AddElement, Revisions
<1> QED
  BY <1>2, <1>3, <1>6

LEMMA DecisionNumbered ==
  ASSUME NEW b \in Book, Numbered(b), NEW c \in Book, NEW action, c.version = b.version,
         c.decisions = b.decisions \cup {[version |-> b.version, revision |-> NextRevision(b), action |-> action]},
         NEW row, row.origin = "manual", row.by = 0, row.version = b.version, row.stamp = NextRevision(b),
         c.rows = b.rows \/ c.rows = b.rows \cup {row}
  PROVE  Numbered(c)
<1>1. /\ IsFiniteSet(c.decisions)
      /\ \A v \in Nat : Cardinality(OfVersion(b, v)) \in Nat /\ Cardinality(OfVersion(c, v)) \in Nat
      /\ \A v \in Nat : Cardinality(OfVersion(b, v)) <= Cardinality(OfVersion(c, v))
      /\ Cardinality(OfVersion(c, b.version)) = NextRevision(b)
  BY DecisionCounted
<1>2. NextRevision(b) \in Nat /\ NextRevision(b) = Cardinality(OfVersion(b, b.version)) + 1 /\ b.version \in Nat
  BY Revisions DEF Book
<1>3. ASSUME NEW d \in c.decisions PROVE d.revision <= Cardinality(OfVersion(c, d.version))
  <2>1. CASE d \in b.decisions
    <3>1. d.version \in Nat /\ d.revision \in Nat /\ d.revision <= Cardinality(OfVersion(b, d.version))
      BY <2>1 DEF Numbered, Book, Decision
    <3> QED
      BY <1>1, <3>1
  <2>2. CASE d \notin b.decisions
    BY <1>1, <1>2, <2>2
  <2> QED
    BY <2>1, <2>2
<1>4. ASSUME NEW r \in b.rows, r.origin = "manual"
      PROVE  /\ r.version \in Nat /\ r.stamp \in Nat
             /\ r.stamp <= Cardinality(OfVersion(b, r.version))
             /\ r.stamp <= Cardinality(OfVersion(c, r.version))
  <2>1. r.version \in Nat /\ r.stamp \in Nat /\ r.stamp <= Cardinality(OfVersion(b, r.version))
    BY <1>4 DEF Numbered, Book, Opinion
  <2> QED
    BY <1>1, <2>1
<1>5. \A r \in c.rows : r.by # 0 <=> r.origin = "classifier"
  BY DEF Numbered
<1>6. \A r \in c.rows : r.origin = "manual" => r.stamp <= Cardinality(OfVersion(c, r.version))
  BY <1>1, <1>2, <1>4
<1>7. \A r \in b.rows : r.origin = "manual" /\ r.version = b.version => r.stamp # NextRevision(b)
  BY <1>1, <1>2, <1>4
<1>8. \A r, s \in c.rows :
        r.origin = "manual" /\ s.origin = "manual" /\ r.version = s.version /\ r.stamp = s.stamp => r = s
  BY <1>7 DEF Numbered
<1> QED
  BY <1>1, <1>3, <1>5, <1>6, <1>8 DEF Numbered

LEMMA SetNumbered ==
  ASSUME NEW b \in Book, Numbered(b), NEW value \in Values \cup {None}
  PROVE  LET revision == NextRevision(b)
             new == [b EXCEPT
                       !.decisions = @ \cup {[version |-> b.version, revision |-> revision, action |-> "set"]},
                       !.rows = IF value = None THEN @
                                ELSE @ \cup {LabelRow(b.version, "manual", 0, revision, value, 1)}]
         IN  new \in Book /\ Numbered(new)
<1> DEFINE revision == NextRevision(b)
           row == LabelRow(b.version, "manual", 0, revision, value, 1)
           new == [b EXCEPT
                     !.decisions = @ \cup {[version |-> b.version, revision |-> revision, action |-> "set"]},
                     !.rows = IF value = None THEN @ ELSE @ \cup {row}]
<1>1. revision \in Nat
  BY Revisions
<1>2. new \in Book
  BY <1>1, SetBook
<1>3. /\ new.version = b.version
      /\ new.decisions = b.decisions \cup {[version |-> b.version, revision |-> revision, action |-> "set"]}
      /\ new.rows = b.rows \/ new.rows = b.rows \cup {row}
  BY DEF Book
<1>4. row.origin = "manual" /\ row.by = 0 /\ row.version = b.version /\ row.stamp = revision
  BY DEF LabelRow
<1>5. Numbered(new)
  <2> HIDE DEF new, row
  <2> QED
    BY <1>2, <1>3, <1>4, DecisionNumbered
<1> QED
  BY <1>2, <1>5

LEMMA ReleaseNumbered ==
  ASSUME NEW b \in Book, Numbered(b)
  PROVE  LET new == [b EXCEPT !.decisions = @ \cup
                       {[version |-> b.version, revision |-> NextRevision(b), action |-> "release"]}]
         IN  new \in Book /\ Numbered(new)
<1> DEFINE row == LabelRow(b.version, "manual", 0, NextRevision(b), 0, 1)
           new == [b EXCEPT !.decisions = @ \cup
                       {[version |-> b.version, revision |-> NextRevision(b), action |-> "release"]}]
<1>1. new \in Book
  BY Revisions, ReleaseBook
<1>2. /\ new.version = b.version
      /\ new.decisions = b.decisions \cup {[version |-> b.version, revision |-> NextRevision(b), action |-> "release"]}
      /\ new.rows = b.rows
  BY DEF Book
<1>3. row.origin = "manual" /\ row.by = 0 /\ row.version = b.version /\ row.stamp = NextRevision(b)
  BY DEF LabelRow
<1>4. Numbered(new)
  <2> HIDE DEF new, row
  <2> QED
    BY <1>1, <1>2, <1>3, DecisionNumbered
<1> QED
  BY <1>1, <1>4

\* The tables stay in order, step by step.
LEMMA BookOf ==
  ASSUME TablesInv, NEW n \in News
  PROVE  book[n] \in Book /\ Numbered(book[n])
BY DEF TablesInv, Tables, BooksAreNumbered

\* What each write makes of the book
LEMMA AnswerBegins ==
  ASSUME TablesInv, NEW n \in News, NEW c \in Classifiers, NEW value \in Values, NEW confidence \in Confidences,
         Answer(n, c, value, confidence)
  PROVE  \E new \in Book :
           /\ Numbered(new) /\ Begin(n, "writer", new)
           /\ UNCHANGED <<catalog, book, effective, jobs, workers, slipped>>
<1> DEFINE b == book[n]
           kept == catalog.facet /\ value \in catalog.values /\ confidence >= catalog.policies[c].min
           row == LabelRow(b.version, "classifier", c, b.latest[c] + 1, value, confidence)
           new == [b EXCEPT !.latest[c] = b.latest[c] + 1, !.rows = IF kept THEN @ \cup {row} ELSE @]
<1>1. b \in Book /\ Numbered(b)
  BY BookOf
<1>2. new \in Book
  BY <1>1, AnswerBook
<1>3. Numbered(new)
  BY <1>1, AnswerNumbered
<1>4. Begin(n, "writer", new) /\ UNCHANGED <<catalog, book, effective, jobs, workers, slipped>>
  BY DEF Answer
<1> HIDE DEF new
<1> QED
  BY <1>2, <1>3, <1>4

LEMMA SetBegins ==
  ASSUME TablesInv, NEW n \in News, NEW value \in Values \cup {None}, SetManually(n, value)
  PROVE  \E new \in Book :
           /\ Numbered(new) /\ Begin(n, "writer", new)
           /\ UNCHANGED <<catalog, book, effective, jobs, workers, slipped>>
<1> DEFINE b == book[n]
           revision == NextRevision(b)
           new == [b EXCEPT
                     !.decisions = @ \cup {[version |-> b.version, revision |-> revision, action |-> "set"]},
                     !.rows = IF value = None THEN @
                              ELSE @ \cup {LabelRow(b.version, "manual", 0, revision, value, 1)}]
<1>1. b \in Book /\ Numbered(b)
  BY BookOf
<1>2. new \in Book /\ Numbered(new)
  BY <1>1, SetNumbered
<1>3. Begin(n, "writer", new) /\ UNCHANGED <<catalog, book, effective, jobs, workers, slipped>>
  BY DEF SetManually
<1> HIDE DEF new
<1> QED
  BY <1>2, <1>3

LEMMA ReleaseBegins ==
  ASSUME TablesInv, NEW n \in News, Release(n)
  PROVE  \E new \in Book :
           /\ Numbered(new) /\ Begin(n, "writer", new)
           /\ UNCHANGED <<catalog, book, effective, jobs, workers, slipped>>
<1> DEFINE b == book[n]
           new == [b EXCEPT !.decisions = @ \cup
                       {[version |-> b.version, revision |-> NextRevision(b), action |-> "release"]}]
<1>1. b \in Book /\ Numbered(b)
  BY BookOf
<1>2. new \in Book /\ Numbered(new)
  BY <1>1, ReleaseNumbered
<1>3. Begin(n, "writer", new) /\ UNCHANGED <<catalog, book, effective, jobs, workers, slipped>>
  BY DEF Release
<1> HIDE DEF new
<1> QED
  BY <1>2, <1>3

LEMMA LockBegins ==
  ASSUME TablesInv, NEW w \in Workers, LockNext(w)
  PROVE  \E n \in News :
           /\ workers[w].pc = "working" /\ n \in workers[w].ids
           /\ book[n] \in Book /\ Numbered(book[n]) /\ Begin(n, w, book[n])
           /\ UNCHANGED <<catalog, book, effective, jobs, workers, slipped>>
<1>1. PICK n \in workers[w].ids : Begin(n, w, book[n])
  BY DEF LockNext
<1>2. n \in News
  BY <1>1 DEF TablesInv, Tables, Worker
<1> QED
  BY <1>1, <1>2, BookOf DEF LockNext

LEMMA BeginBase ==
  ASSUME TablesInv, NEW n \in News, NEW by \in Workers \cup {"writer"}, NEW new \in Book,
         Begin(n, by, new), Numbered(new),
         by # "writer" => workers[by].pc = "working" /\ n \in workers[by].ids,
         UNCHANGED <<catalog, book, effective, jobs, workers, slipped>>
  PROVE  TablesInv'
<1>1. Tables /\ AtWork /\ BooksAreNumbered
  BY DEF TablesInv
<1>2. UNCHANGED <<catalog, book, effective, jobs, workers>>
  OBVIOUS
<1> QED
  BY <1>1, <1>2, StartStep DEF TablesInv

LEMMA NumbersStay ==
  ASSUME BooksAreNumbered, \A m \in News : Numbered(book'[m]),
         \A m \in News : tx'[m] # None => tx[m] # None /\ tx'[m].book = tx[m].book
  PROVE  BooksAreNumbered'
BY DEF BooksAreNumbered

LEMMA HoldersStay ==
  ASSUME AtWork, workers' = workers, Len(jobs') = Len(jobs),
         \A m \in News : tx'[m] # None => tx[m] # None /\ tx'[m].by = tx[m].by,
         \A m \in News : Ready(m)' => tx'[m].known <= Len(jobs)
  PROVE  AtWork'
BY DEF AtWork

LEMMA ReadRowsBase ==
  ASSUME TablesInv, NEW n \in News, ReadRows(n)
  PROVE  /\ TablesInv'
         /\ tx[n] # None /\ tx[n].pc = "open" /\ tx'[n].pc = "read" /\ tx'[n].taxonomy = catalog
         /\ tx'[n].book = tx[n].book /\ tx'[n].by = tx[n].by
         /\ \A m \in News : m # n => tx'[m] = tx[m]
<1>1. tx[n] \in Transaction /\ tx[n] # None /\ tx[n].pc = "open"
  BY DEF ReadRows, TablesInv, Tables
<1>2. tx' = [tx EXCEPT ![n] = [tx[n] EXCEPT !.pc = "read", !.taxonomy = catalog]]
  BY DEF ReadRows, TablesInv, Tables
<1>3. /\ [tx[n] EXCEPT !.pc = "read", !.taxonomy = catalog] \in Transaction
      /\ catalog \in Catalog
  BY <1>1 DEF Transaction, TablesInv, Tables
<1>4. /\ tx'[n] = [tx[n] EXCEPT !.pc = "read", !.taxonomy = catalog]
      /\ \A m \in News : m # n => tx'[m] = tx[m]
      /\ tx' \in [News -> Transaction \cup {None}]
  BY <1>2, <1>3 DEF TablesInv, Tables
<1>5. /\ tx'[n].pc = "read" /\ tx'[n].taxonomy = catalog /\ tx'[n].book = tx[n].book /\ tx'[n].by = tx[n].by
  BY <1>1, <1>4 DEF Transaction
<1>6. UNCHANGED <<catalog, book, effective, jobs, workers, slipped>>
  BY DEF ReadRows
<1>7. Tables'
  BY <1>3, <1>4, <1>5, <1>6 DEF TablesInv, Tables, Reading, Ready
<1>8. AtWork'
  <2>1. \A m \in News : tx'[m] # None => tx[m] # None /\ tx'[m].by = tx[m].by
    BY <1>1, <1>4, <1>5
  <2>2. \A m \in News : Ready(m)' => tx'[m].known <= Len(jobs)
    BY <1>1, <1>4, <1>5 DEF Ready, TablesInv, AtWork
  <2> QED
    BY <1>6, <2>1, <2>2, HoldersStay DEF TablesInv
<1>9. BooksAreNumbered'
  BY <1>1, <1>4, <1>5, <1>6, NumbersStay DEF TablesInv, BooksAreNumbered
<1> QED
  BY <1>1, <1>4, <1>5, <1>7, <1>8, <1>9 DEF TablesInv

LEMMA ReadRestBase ==
  ASSUME TablesInv, NEW n \in News, ReadRest(n)
  PROVE  /\ TablesInv'
         /\ tx[n] # None /\ tx[n].pc = "read" /\ tx'[n].pc = "ready" /\ tx'[n].taxonomy = tx[n].taxonomy
         /\ tx'[n].rest = catalog /\ tx'[n].known = Len(jobs)
         /\ tx'[n].book = tx[n].book /\ tx'[n].by = tx[n].by
         /\ \A m \in News : m # n => tx'[m] = tx[m]
<1>1. tx[n] \in Transaction /\ tx[n] # None /\ tx[n].pc = "read" /\ Len(jobs) \in Nat /\ catalog \in Catalog
  BY DEF ReadRest, TablesInv, Tables
<1>2. tx' = [tx EXCEPT ![n] = [tx[n] EXCEPT !.pc = "ready", !.rest = catalog, !.known = Len(jobs)]]
  BY DEF ReadRest, TablesInv, Tables
<1>3. [tx[n] EXCEPT !.pc = "ready", !.rest = catalog, !.known = Len(jobs)] \in Transaction
  BY <1>1 DEF Transaction
<1>4. /\ tx'[n] = [tx[n] EXCEPT !.pc = "ready", !.rest = catalog, !.known = Len(jobs)]
      /\ \A m \in News : m # n => tx'[m] = tx[m]
      /\ tx' \in [News -> Transaction \cup {None}]
  BY <1>2, <1>3 DEF TablesInv, Tables
<1>5. /\ tx'[n].pc = "ready" /\ tx'[n].taxonomy = tx[n].taxonomy /\ tx'[n].book = tx[n].book /\ tx'[n].by = tx[n].by
      /\ tx'[n].rest = catalog /\ tx'[n].known = Len(jobs)
  BY <1>1, <1>4 DEF Transaction
<1>6. UNCHANGED <<catalog, book, effective, jobs, workers, slipped>>
  BY DEF ReadRest
<1>7. Tables'
  BY <1>1, <1>4, <1>5, <1>6 DEF TablesInv, Tables, Reading, Ready
<1>8. AtWork'
  <2>1. \A m \in News : tx'[m] # None => tx[m] # None /\ tx'[m].by = tx[m].by
    BY <1>1, <1>4, <1>5
  <2>2. \A m \in News : Ready(m)' => tx'[m].known <= Len(jobs)
    <3>1. tx'[n].known <= Len(jobs)
      BY <1>1, <1>5
    <3>2. ASSUME NEW m \in News, m # n, Ready(m)' PROVE tx'[m].known <= Len(jobs)
      BY <1>4, <3>2 DEF Ready, TablesInv, AtWork
    <3> QED
      BY <3>1, <3>2
  <2> QED
    BY <1>6, <2>1, <2>2, HoldersStay DEF TablesInv
<1>9. BooksAreNumbered'
  BY <1>1, <1>4, <1>5, <1>6, NumbersStay DEF TablesInv, BooksAreNumbered
<1> QED
  BY <1>1, <1>4, <1>5, <1>7, <1>8, <1>9 DEF TablesInv

\* A commit, by a writer or by a worker that then rests.
LEMMA CommitBase ==
  ASSUME TablesInv, NEW done \in SUBSET News, Commits(done), \A n \in done : tx[n] # None,
         NEW w \in Workers \cup {"writer"}, catalog' = catalog,
         \A n \in News : tx[n] # None /\ tx[n].by = w /\ w # "writer" => n \in done,
         jobs' \in Seq(JobRow), Len(jobs') = Len(jobs), workers' \in [Workers -> Worker],
         \A v \in Workers : v # w => workers'[v] = workers[v],
         w # "writer" => workers'[w].pc = "idle"
  PROVE  TablesInv'
<1>1. /\ book' \in [News -> Book] /\ tx' \in [News -> Transaction \cup {None}]
      /\ \A n \in News : effective'[n].version \in Nat /\ effective'[n].version <= book'[n].version
  BY CommitShapes DEF TablesInv
<1>2. /\ \A n \in done : tx'[n] = None /\ book'[n] = [tx[n].book EXCEPT !.manual = Result(n).manual]
      /\ \A n \in News \ done : tx'[n] = tx[n] /\ book'[n] = book[n]
  BY DEF Commits
<1>3. Tables'
  BY <1>1, <1>2 DEF TablesInv, Tables, Reading, Ready
<1>4. AtWork'
  <2>1. ASSUME NEW v \in Workers, workers'[v].pc # "idle"
        PROVE  workers'[v].job \in 1 .. Len(jobs') /\ (workers'[v].pc = "working" => workers'[v].ids # {})
    BY <2>1 DEF TablesInv, AtWork
  <2>2. ASSUME NEW n \in News, tx'[n] # None
        PROVE  n \notin done /\ tx'[n] = tx[n] /\ tx[n] # None
    BY <1>2, <2>2
  <2>3. ASSUME NEW n \in News, tx'[n] # None, tx'[n].by # "writer"
        PROVE  workers'[tx'[n].by].pc = "working" /\ n \in workers'[tx'[n].by].ids
    <3>1. tx'[n].by = tx[n].by /\ tx[n].by \in Workers /\ tx[n].by # w
      BY <2>2, <2>3 DEF TablesInv, Tables, Transaction
    <3>2. workers'[tx[n].by] = workers[tx[n].by]
      BY <3>1
    <3>3. workers[tx[n].by].pc = "working" /\ n \in workers[tx[n].by].ids
      BY <2>2, <2>3, <3>1 DEF TablesInv, AtWork
    <3> QED
      BY <3>1, <3>2, <3>3
  <2>4. ASSUME NEW n \in News, Ready(n)'
        PROVE  tx'[n].known <= Len(jobs')
    BY <2>2, <2>4 DEF Ready, TablesInv, AtWork
  <2> QED
    BY <2>1, <2>3, <2>4 DEF AtWork
<1>5. BooksAreNumbered'
  <2>1. ASSUME NEW n \in done PROVE Numbered(book'[n])
    <3>1. Numbered(tx[n].book) /\ tx[n].book \in Book
      BY DEF TablesInv, BooksAreNumbered, Tables, Transaction
    <3>2. book'[n].rows = tx[n].book.rows /\ book'[n].decisions = tx[n].book.decisions
      BY <1>2, <3>1 DEF Book
    <3> QED
      BY <3>1, <3>2 DEF Numbered, OfVersion
  <2>2. \A n \in News \ done : Numbered(book'[n])
    BY <1>2 DEF TablesInv, BooksAreNumbered
  <2>3. \A n \in News : Numbered(book'[n])
    BY <2>1, <2>2
  <2>4. \A m \in News : tx'[m] # None => tx[m] # None /\ tx'[m].book = tx[m].book
    BY <1>2
  <2> QED
    BY <2>3, <2>4, NumbersStay DEF TablesInv
<1> QED
  BY <1>3, <1>4, <1>5 DEF TablesInv

\* Steps of a worker, which rolls back all it has or nothing.
LEMMA GivenUpBase ==
  ASSUME TablesInv, NEW w \in Workers \cup {"writer"}, UNCHANGED <<catalog, book, effective>>,
         jobs' \in Seq(JobRow), Len(jobs') = Len(jobs),
         tx' \in [News -> Transaction \cup {None}],
         \A n \in News : tx'[n] = None \/ tx'[n] = tx[n],
         \A n \in News : w # "writer" /\ tx[n] # None /\ tx[n].by = w => tx'[n] = None,
         workers' \in [Workers -> Worker],
         \A v \in Workers : v # w => workers'[v] = workers[v],
         w # "writer" =>
           /\ workers'[w].pc = "working" => workers'[w].ids # {}
           /\ workers'[w].pc # "idle" => workers'[w].job \in 1 .. Len(jobs)
  PROVE  TablesInv'
<1>3. Tables'
  BY DEF TablesInv, Tables, Reading, Ready
<1>4. AtWork'
  <2>1. ASSUME NEW v \in Workers, workers'[v].pc # "idle"
        PROVE  workers'[v].job \in 1 .. Len(jobs') /\ (workers'[v].pc = "working" => workers'[v].ids # {})
    BY <2>1 DEF TablesInv, AtWork
  <2>2. ASSUME NEW n \in News, tx'[n] # None
        PROVE  tx'[n] = tx[n] /\ tx[n] # None
    BY <2>2
  <2>3. ASSUME NEW n \in News, tx'[n] # None, tx'[n].by # "writer"
        PROVE  workers'[tx'[n].by].pc = "working" /\ n \in workers'[tx'[n].by].ids
    <3>1. tx'[n].by = tx[n].by /\ tx[n].by \in Workers /\ tx[n].by # w
      BY <2>2, <2>3 DEF TablesInv, Tables, Transaction
    <3>2. workers'[tx[n].by] = workers[tx[n].by]
      BY <3>1
    <3>3. workers[tx[n].by].pc = "working" /\ n \in workers[tx[n].by].ids
      BY <2>2, <2>3, <3>1 DEF TablesInv, AtWork
    <3> QED
      BY <3>1, <3>2, <3>3
  <2>4. ASSUME NEW n \in News, Ready(n)'
        PROVE  tx'[n].known <= Len(jobs')
    BY <2>2, <2>4 DEF Ready, TablesInv, AtWork
  <2> QED
    BY <2>1, <2>3, <2>4 DEF AtWork
<1>5. BooksAreNumbered'
  BY NumbersStay DEF TablesInv, BooksAreNumbered
<1> QED
  BY <1>3, <1>4, <1>5 DEF TablesInv

LEMMA EditBase ==
  ASSUME TablesInv, NEW n \in News, Edit(n)
  PROVE  /\ TablesInv'
         /\ book'[n].rows = book[n].rows /\ book'[n].decisions = book[n].decisions
         /\ book'[n].version = book[n].version + 1
         /\ \A m \in News : m # n => book'[m] = book[m]
<1> DEFINE new == [book[n] EXCEPT !.version = @ + 1, !.latest = [c \in Classifiers |-> 0]]
<1>1. book' = [book EXCEPT ![n] = new] /\ UNCHANGED <<catalog, effective, tx, jobs, workers, slipped>>
  BY DEF Edit, TablesInv, Tables
<1>2. book[n] \in Book /\ Numbered(book[n])
  BY BookOf
<1>3. /\ new \in Book /\ new.rows = book[n].rows /\ new.decisions = book[n].decisions
      /\ new.version = book[n].version + 1
  <2>1. book[n].version + 1 \in Nat /\ [c \in Classifiers |-> 0] \in [Classifiers -> Nat]
    BY <1>2 DEF Book
  <2> QED
    BY <1>2, <2>1 DEF Book
<1>4. book' \in [News -> Book] /\ book'[n] = new /\ \A m \in News : m # n => book'[m] = book[m]
  BY <1>1, <1>3 DEF TablesInv, Tables
<1>5. Numbered(new)
  BY <1>2, <1>3 DEF Numbered, OfVersion
<1> HIDE DEF new
<1>6. effective'[n].version <= book'[n].version
  <2>1. book[n].version \in Nat
    BY <1>2 DEF Book
  <2>2. effective[n].version \in Nat /\ effective[n].version <= book[n].version
    BY DEF TablesInv, Tables
  <2>3. effective'[n].version = effective[n].version /\ book'[n].version = book[n].version + 1
    BY <1>1, <1>3, <1>4
  <2> QED
    BY <2>1, <2>2, <2>3
<1>7. Tables'
  BY <1>1, <1>4, <1>6 DEF TablesInv, Tables, Reading, Ready
<1>8. AtWork'
  BY <1>1 DEF TablesInv, AtWork, Ready
<1>9. BooksAreNumbered'
  <2>1. \A m \in News : Numbered(book'[m])
    BY <1>4, <1>5 DEF TablesInv, BooksAreNumbered
  <2> QED
    BY <1>1, <2>1, NumbersStay DEF TablesInv
<1> QED
  BY <1>3, <1>4, <1>7, <1>8, <1>9 DEF TablesInv

LEMMA ChangeBase ==
  ASSUME TablesInv, catalog' \in Catalog, NEW scope \in {"all", "facet", "value", "classifier"}, NEW id \in Nat,
         RequestJob(scope, id), UNCHANGED <<book, effective, tx, workers, slipped>>
  PROVE  TablesInv'
<1>1. Tables'
  BY ChangeShapes DEF TablesInv
<1>2. Len(jobs') = Len(jobs) + 1 /\ Len(jobs) \in Nat
  BY Requested DEF TablesInv, Tables
<1>3. AtWork'
  <2>1. \A w \in Workers : workers[w].pc # "idle" => workers[w].job \in 1 .. Len(jobs')
    BY <1>2 DEF TablesInv, AtWork, Tables, Worker
  <2>2. \A n \in News : Ready(n) => tx[n].known <= Len(jobs')
    BY <1>2 DEF TablesInv, AtWork, Tables, Transaction, Ready
  <2> QED
    BY <2>1, <2>2 DEF TablesInv, AtWork, Ready
<1>4. BooksAreNumbered'
  BY NumbersStay DEF TablesInv, BooksAreNumbered
<1> QED
  BY <1>1, <1>3, <1>4 DEF TablesInv

-----------------------------------------------------------------------------
(* The jobs that come *)

\* Whom a job concerns depends on the rows and decisions only.
LEMMA SameConcern ==
  ASSUME NEW job, NEW new, job.scope \in {"all", "facet", "value", "classifier"},
         new.scope = job.scope, new.id = job.id, NEW b, NEW c, b.rows = c.rows, b.decisions = c.decisions
  PROVE  Concerns(job, b) = Concerns(new, c)
BY DEF Concerns, Names

\* The jobs that will come to a news still will.
StillComing(n) ==
  /\ Len(jobs') >= Len(jobs)
  /\ \A j \in 1 .. Len(jobs) :
       /\ jobs'[j].scope = jobs[j].scope /\ jobs'[j].id = jobs[j].id
       /\ Coming(j, n) => Coming(j, n)'

LEMMA JobsDomain ==
  ASSUME TablesInv
  PROVE  DOMAIN jobs = 1 .. Len(jobs) /\ Len(jobs) \in Nat
BY DEF TablesInv, Tables

\* As long as its jobs still come, a label that nobody writes stays in order.
LEMMA LabelKept ==
  ASSUME TablesInv, TablesInv', NEW n \in News, LabelFollowed(n), StillComing(n),
         book'[n] = book[n], catalog' = catalog,
         effective'[n] = effective[n], slipped'[n] = slipped[n]
  PROVE  LabelFollowed(n)'
<1>1. /\ DOMAIN jobs = 1 .. Len(jobs) /\ DOMAIN jobs' = 1 .. Len(jobs')
      /\ Len(jobs) \in Nat /\ Len(jobs') \in Nat
  BY JobsDomain DEF TablesInv, Tables
<1>2. ASSUME NEW j \in DOMAIN jobs, Coming(j, n)
      PROVE  j \in DOMAIN jobs' /\ Coming(j, n)' /\ jobs'[j].scope = jobs[j].scope
  BY <1>1, <1>2 DEF StillComing
<1>3. Scheduled(n)'
  BY <1>2 DEF LabelFollowed, Scheduled
<1>4. Shown(n)'
  BY <1>2 DEF LabelFollowed, Shown
<1> QED
  BY <1>3, <1>4 DEF LabelFollowed

\* ... and so do the readings of a transaction.
LEMMA FollowsStays ==
  ASSUME TablesInv, TablesInv', NEW n \in News, StillComing(n), book'[n] = book[n], tx[n] # None,
         tx'[n].book = tx[n].book, tx'[n].by = tx[n].by,
         tx[n].by # "writer" => workers'[tx[n].by].job = workers[tx[n].by].job
  PROVE  /\ \A j \in DOMAIN jobs : j \in DOMAIN jobs'
         /\ \A j \in DOMAIN jobs : Follows(j, n) => Follows(j, n)'
         /\ \A j \in DOMAIN jobs : Others(j, n) => Others(j, n)'
         /\ \A j \in DOMAIN jobs : jobs'[j].scope = jobs[j].scope /\ jobs'[j].id = jobs[j].id
<1>1. /\ DOMAIN jobs = 1 .. Len(jobs) /\ DOMAIN jobs' = 1 .. Len(jobs')
      /\ Len(jobs) \in Nat /\ Len(jobs') \in Nat
  BY JobsDomain DEF TablesInv, Tables
<1>2. \A j \in DOMAIN jobs : Others(j, n) => Others(j, n)'
  BY DEF Others
<1>3. ASSUME NEW j \in DOMAIN jobs, Follows(j, n)
      PROVE  Follows(j, n)'
  <2>1. Concerns(jobs'[j], tx'[n].book)
    <3>1. jobs[j].scope \in {"all", "facet", "value", "classifier"}
      BY <1>1, JobsAreRows DEF TablesInv, JobRow
    <3>2. jobs'[j].scope = jobs[j].scope /\ jobs'[j].id = jobs[j].id
      BY <1>1 DEF StillComing
    <3> QED
      BY <1>3, <3>1, <3>2, SameConcern DEF Follows
  <2>2. Coming(j, n)'
    BY <1>1, <1>3 DEF Follows, StillComing
  <2> QED
    BY <1>2, <1>3, <2>1, <2>2 DEF Follows
<1> QED
  BY <1>1, <1>2, <1>3 DEF StillComing

LEMMA ReadKept ==
  ASSUME TablesInv, TablesInv', NEW n \in News, ReadingFollowed(n), StillComing(n),
         book'[n] = book[n], catalog' = catalog,
         tx'[n] = tx[n],
         tx[n] # None /\ tx[n].by # "writer" => workers'[tx[n].by].job = workers[tx[n].by].job
  PROVE  ReadingFollowed(n)'
<1>1. CASE tx[n] = None
  BY <1>1 DEF ReadingFollowed, Reading, Ready
<1>2. CASE tx[n] # None
  <2>1. /\ \A j \in DOMAIN jobs : j \in DOMAIN jobs'
        /\ \A j \in DOMAIN jobs : Follows(j, n) => Follows(j, n)'
        /\ \A j \in DOMAIN jobs : Others(j, n) => Others(j, n)'
        /\ \A j \in DOMAIN jobs : jobs'[j].scope = jobs[j].scope /\ jobs'[j].id = jobs[j].id
    BY <1>2, FollowsStays
  <2>2. Reading(n)' = Reading(n) /\ Ready(n)' = Ready(n)
    BY DEF Reading, Ready
  <2>3. AxisIsRead(n) => AxisIsRead(n)'
    BY <2>1, <2>2 DEF AxisIsRead
  <2>4. ValuesAreRead(n) => ValuesAreRead(n)'
    BY <2>1 DEF ValuesAreRead
  <2>5. RulesAreRead(n) => RulesAreRead(n)'
    BY <2>1 DEF RulesAreRead
  <2>6. ASSUME NEW c \in Classifiers, PolicyIsRead(c, n)
        PROVE  PolicyIsRead(c, n)'
    <3>1. \A j \in DOMAIN jobs : MayPass(j, c, n) => MayPass(j, c, n)'
      BY <2>1 DEF MayPass
    <3> QED
      BY <2>1, <2>6, <3>1 DEF PolicyIsRead
  <2> QED
    BY <2>2, <2>3, <2>4, <2>5, <2>6 DEF ReadingFollowed
<1> QED
  BY <1>1, <1>2

-----------------------------------------------------------------------------
(* Transactions that recompute *)

\* A job that comes to a news still comes when its cursor, its end and its chunk leave it alone.
LEMMA ComingStays ==
  ASSUME TablesInv, NEW n \in News, NEW j \in 1 .. Len(jobs), Coming(j, n),
         jobs'[j].scope = jobs[j].scope, jobs'[j].id = jobs[j].id,
         jobs'[j].status # "succeeded", ~(jobs'[j].cursor >= n),
         book'[n].rows = book[n].rows, book'[n].decisions = book[n].decisions,
         \A w \in Workers : workers'[w].pc = "working" /\ workers'[w].job = j =>
            n \in workers'[w].ids \/ \A m \in workers'[w].ids : ~(m > n)
  PROVE  Coming(j, n)'
<1>1. Concerns(jobs[j], book[n]) = Concerns(jobs'[j], book'[n])
  <2>1. jobs[j].scope \in {"all", "facet", "value", "classifier"}
    BY JobsAreRows DEF TablesInv, JobRow
  <2> QED
    BY <2>1, SameConcern
<1>2. ~Passed(j, n)'
  BY DEF Passed
<1> QED
  BY <1>1, <1>2 DEF Coming

LEMMA NothingMoves ==
  ASSUME TablesInv, NEW n \in News, UNCHANGED <<jobs, workers>>,
         book'[n].rows = book[n].rows, book'[n].decisions = book[n].decisions
  PROVE  StillComing(n)
<1>1. ASSUME NEW j \in 1 .. Len(jobs), Coming(j, n)
      PROVE  Coming(j, n)'
  <2>1. /\ jobs[j].status # "succeeded" /\ ~(jobs[j].cursor >= n)
        /\ \A w \in Workers : workers[w].pc = "working" /\ workers[w].job = j =>
             n \in workers[w].ids \/ \A m \in workers[w].ids : ~(m > n)
    BY <1>1 DEF Coming, Passed
  <2> QED
    BY <1>1, <2>1, ComingStays
<1>2. Len(jobs) \in Nat
  BY JobsDomain
<1> QED
  BY <1>1, <1>2 DEF StillComing

\* The invariant, step by step.
LEMMA BeginStep ==
  ASSUME LabelsInv, NEW n \in News, NEW by \in Workers \cup {"writer"}, NEW new \in Book,
         Begin(n, by, new), Numbered(new),
         by # "writer" => workers[by].pc = "working" /\ n \in workers[by].ids,
         UNCHANGED <<catalog, book, effective, jobs, workers, slipped>>
  PROVE  LabelsInv'
<1>1. TablesInv /\ Tables /\ \A m \in News : ReadingFollowed(m) /\ LabelFollowed(m)
  BY DEF LabelsInv, TablesInv
<1>2. TablesInv'
  BY <1>1, BeginBase
<1>3. \A m \in News : m # n => tx'[m] = tx[m]
  BY <1>1, Begun
<1>4. tx'[n].pc = "open"
  BY <1>1, Begun
<1>5. \A m \in News : StillComing(m)
  BY <1>1, NothingMoves
<1>6. \A m \in News : LabelFollowed(m)'
  BY <1>1, <1>2, <1>5, LabelKept
<1>7. \A m \in News : m # n => ReadingFollowed(m)'
  BY <1>1, <1>2, <1>3, <1>5, ReadKept
<1>8. ReadingFollowed(n)'
  BY <1>4 DEF ReadingFollowed, Reading, Ready
<1> QED
  BY <1>2, <1>6, <1>7, <1>8 DEF LabelsInv

LEMMA ReadRowsStep ==
  ASSUME LabelsInv, NEW n \in News, ReadRows(n)
  PROVE  LabelsInv'
<1>1. TablesInv /\ \A m \in News : ReadingFollowed(m) /\ LabelFollowed(m)
  BY DEF LabelsInv
<1>2. TablesInv' /\ tx'[n].pc = "read" /\ tx'[n].taxonomy = catalog
  BY <1>1, ReadRowsBase
<1>3. \A m \in News : m # n => tx'[m] = tx[m]
  BY <1>1, ReadRowsBase
<1>4. UNCHANGED <<catalog, book, effective, jobs, workers, slipped>>
  BY DEF ReadRows
<1>5. \A m \in News : StillComing(m)
  BY <1>1, <1>4, NothingMoves
<1>6. \A m \in News : LabelFollowed(m)'
  BY <1>1, <1>2, <1>4, <1>5, LabelKept
<1>7. \A m \in News : m # n => ReadingFollowed(m)'
  BY <1>1, <1>2, <1>3, <1>4, <1>5, ReadKept
<1>8. ReadingFollowed(n)'
  BY <1>2, <1>4 DEF ReadingFollowed, Ready, AxisIsRead, ValuesAreRead
<1> QED
  BY <1>2, <1>6, <1>7, <1>8 DEF LabelsInv

LEMMA ReadRestStep ==
  ASSUME LabelsInv, NEW n \in News, ReadRest(n)
  PROVE  LabelsInv'
<1>1. TablesInv /\ \A m \in News : ReadingFollowed(m) /\ LabelFollowed(m)
  BY DEF LabelsInv
<1>2. /\ TablesInv' /\ tx[n] # None /\ tx[n].pc = "read" /\ tx'[n].pc = "ready"
      /\ tx'[n].taxonomy = tx[n].taxonomy /\ tx'[n].rest = catalog
      /\ tx'[n].book = tx[n].book /\ tx'[n].by = tx[n].by
  BY <1>1, ReadRestBase
<1>3. \A m \in News : m # n => tx'[m] = tx[m]
  BY <1>1, ReadRestBase
<1>4. UNCHANGED <<catalog, book, effective, jobs, workers, slipped>>
  BY DEF ReadRest
<1>5. \A m \in News : StillComing(m)
  BY <1>1, <1>4, NothingMoves
<1>6. \A m \in News : LabelFollowed(m)'
  BY <1>1, <1>2, <1>4, <1>5, LabelKept
<1>7. \A m \in News : m # n => ReadingFollowed(m)'
  BY <1>1, <1>2, <1>3, <1>4, <1>5, ReadKept
<1>8. ReadingFollowed(n)'
  <2>1. /\ \A j \in DOMAIN jobs : j \in DOMAIN jobs'
        /\ \A j \in DOMAIN jobs : Follows(j, n) => Follows(j, n)'
        /\ \A j \in DOMAIN jobs : jobs'[j].scope = jobs[j].scope
    BY <1>1, <1>2, <1>4, <1>5, FollowsStays
  <2>2. AxisIsRead(n) /\ ValuesAreRead(n)
    BY <1>1, <1>2 DEF ReadingFollowed, Reading
  <2>3. ~Ready(n)
    BY <1>2 DEF Ready
  <2>4. AxisIsRead(n)'
    <3>1. CASE \E j \in DOMAIN jobs : jobs[j].scope = "facet" /\ Follows(j, n)
      BY <2>1, <3>1 DEF AxisIsRead
    <3>2. CASE tx[n].book.rows = {} /\ tx[n].book.decisions = {}
      BY <1>2, <3>2 DEF AxisIsRead
    <3>3. CASE tx[n].taxonomy.facet = catalog.facet
      BY <1>2, <1>4, <3>3 DEF AxisIsRead
    <3> QED
      BY <2>2, <3>1, <3>2, <3>3 DEF AxisIsRead
  <2>5. ValuesAreRead(n)'
    BY <1>2, <1>4, <2>1, <2>2 DEF ValuesAreRead
  <2>6. RulesAreRead(n)' /\ \A c \in Classifiers : PolicyIsRead(c, n)'
    BY <1>2, <1>4 DEF RulesAreRead, PolicyIsRead
  <2> QED
    BY <2>4, <2>5, <2>6 DEF ReadingFollowed
<1> QED
  BY <1>2, <1>6, <1>7, <1>8 DEF LabelsInv

-----------------------------------------------------------------------------
(* Workers *)

\* A step of a worker that commits nothing and passes no news by.
LEMMA WorkerStep ==
  ASSUME LabelsInv, NEW w \in Workers \cup {"writer"}, UNCHANGED <<catalog, book, effective, slipped>>,
         jobs' \in Seq(JobRow), Len(jobs') = Len(jobs),
         tx' \in [News -> Transaction \cup {None}],
         \A n \in News : tx'[n] = None \/ tx'[n] = tx[n],
         \A n \in News : w # "writer" /\ tx[n] # None /\ tx[n].by = w => tx'[n] = None,
         workers' \in [Workers -> Worker],
         \A v \in Workers : v # w => workers'[v] = workers[v],
         w # "writer" =>
           /\ workers'[w].pc = "working" => workers'[w].ids # {}
           /\ workers'[w].pc # "idle" => workers'[w].job \in 1 .. Len(jobs),
         \A n \in News : StillComing(n)
  PROVE  LabelsInv'
<1>1. TablesInv /\ \A n \in News : ReadingFollowed(n) /\ LabelFollowed(n)
  BY DEF LabelsInv
<1>2. TablesInv'
  BY <1>1, GivenUpBase
<1>3. \A n \in News : LabelFollowed(n)'
  BY <1>1, <1>2, LabelKept
<1>4. ASSUME NEW n \in News PROVE ReadingFollowed(n)'
  <2>1. CASE tx'[n] = None
    BY <2>1 DEF ReadingFollowed, Reading, Ready
  <2>2. CASE tx'[n] # None
    <3>1. tx'[n] = tx[n] /\ tx[n] # None
      BY <2>2
    <3>2. ASSUME tx[n].by # "writer" PROVE workers'[tx[n].by].job = workers[tx[n].by].job
      BY <1>1, <2>2, <3>1, <3>2 DEF TablesInv, Tables, Transaction
    <3> QED
      BY <1>1, <1>2, <3>1, <3>2, ReadKept
  <2> QED
    BY <2>1, <2>2
<1> QED
  BY <1>2, <1>3, <1>4 DEF LabelsInv

LEMMA NoOneWaitsFor ==
  ASSUME TablesInv, NEW n \in News, NEW w \in Workers, jobs' = jobs, book' = book,
         \A v \in Workers : v # w => workers'[v] = workers[v], workers'[w].pc # "working"
  PROVE  StillComing(n)
<1>1. ASSUME NEW j \in 1 .. Len(jobs), Coming(j, n)
      PROVE  Coming(j, n)'
  <2>1. /\ jobs[j].status # "succeeded" /\ ~(jobs[j].cursor >= n)
        /\ \A v \in Workers : workers[v].pc = "working" /\ workers[v].job = j =>
             n \in workers[v].ids \/ \A m \in workers[v].ids : ~(m > n)
    BY <1>1 DEF Coming, Passed
  <2>2. \A v \in Workers : workers'[v].pc = "working" /\ workers'[v].job = j =>
             n \in workers'[v].ids \/ \A m \in workers'[v].ids : ~(m > n)
    BY <2>1
  <2> QED
    BY <1>1, <2>1, <2>2, ComingStays
<1>2. Len(jobs) \in Nat
  BY JobsDomain
<1> QED
  BY <1>1, <1>2 DEF StillComing

LEMMA WriteFailsStep ==
  ASSUME LabelsInv, NEW n \in News, WriteFails(n)
  PROVE  LabelsInv'
<1>1. TablesInv /\ Tables
  BY DEF LabelsInv, TablesInv
<1>2. tx' = [tx EXCEPT ![n] = None] /\ UNCHANGED <<catalog, book, effective, slipped, jobs, workers>>
  BY DEF WriteFails
<1>3. /\ tx' \in [News -> Transaction \cup {None}]
      /\ \A m \in News : tx'[m] = None \/ tx'[m] = tx[m]
  BY <1>1, <1>2 DEF Tables
<1>4. \A m \in News : StillComing(m)
  BY <1>1, <1>2, NothingMoves
<1>5. /\ jobs' \in Seq(JobRow) /\ Len(jobs') = Len(jobs) /\ workers' \in [Workers -> Worker]
      /\ \A v \in Workers : workers'[v] = workers[v]
  BY <1>1, <1>2 DEF Tables
<1> QED
  BY <1>2, <1>3, <1>4, <1>5, WorkerStep

LEMMA FailShapes ==
  ASSUME TablesInv, NEW w \in Workers, RollBack(w), NEW row \in Worker, workers' = [workers EXCEPT ![w] = row]
  PROVE  /\ tx' \in [News -> Transaction \cup {None}]
         /\ \A m \in News : tx'[m] = None \/ tx'[m] = tx[m]
         /\ \A m \in News : tx[m] # None /\ tx[m].by = w => tx'[m] = None
         /\ workers' \in [Workers -> Worker] /\ workers'[w] = row
         /\ \A v \in Workers : v # w => workers'[v] = workers[v]
<1>1. /\ tx' \in [News -> Transaction \cup {None}]
      /\ \A m \in News : tx'[m] = None \/ tx'[m] = tx[m]
      /\ \A m \in News : tx[m] # None /\ tx[m].by = w => tx'[m] = None
  BY DEF RollBack, Held, TablesInv, Tables
<1> QED
  BY <1>1, WorkerShapes DEF TablesInv

LEMMA RollBackStep ==
  ASSUME LabelsInv, NEW w \in Workers, RollBack(w), NEW row \in Worker, workers' = [workers EXCEPT ![w] = row],
         row.pc # "working", row.pc # "idle" => row.job \in 1 .. Len(jobs),
         UNCHANGED <<catalog, book, effective, jobs, slipped>>
  PROVE  LabelsInv'
<1>1. TablesInv /\ jobs' \in Seq(JobRow) /\ Len(jobs') = Len(jobs)
  BY DEF LabelsInv, TablesInv, Tables
<1>2. /\ tx' \in [News -> Transaction \cup {None}]
      /\ \A m \in News : tx'[m] = None \/ tx'[m] = tx[m]
      /\ \A m \in News : tx[m] # None /\ tx[m].by = w => tx'[m] = None
      /\ workers' \in [Workers -> Worker] /\ workers'[w] = row
      /\ \A v \in Workers : v # w => workers'[v] = workers[v]
  BY <1>1, FailShapes
<1>3. \A n \in News : StillComing(n)
  BY <1>1, <1>2, NoOneWaitsFor
<1> QED
  BY <1>1, <1>2, <1>3, WorkerStep

LEMMA ChunkFailsStep ==
  ASSUME LabelsInv, NEW w \in Workers, ChunkFails(w)
  PROVE  LabelsInv'
<1> DEFINE row == [workers[w] EXCEPT !.pc = "failed", !.ids = {}]
<1>1. Tables /\ AtWork
  BY DEF LabelsInv, TablesInv
<1>2. workers[w] \in Worker /\ workers[w].job \in 1 .. Len(jobs)
  BY <1>1 DEF Tables, AtWork, ChunkFails
<1>3. row \in Worker /\ row.pc = "failed" /\ row.job = workers[w].job
  BY <1>2 DEF Worker
<1>4. workers' = [workers EXCEPT ![w] = row]
  BY <1>1 DEF ChunkFails, Tables
<1>5. RollBack(w) /\ UNCHANGED <<catalog, book, effective, jobs, slipped>>
  BY DEF ChunkFails
<1> HIDE DEF row
<1> QED
  BY <1>2, <1>3, <1>4, <1>5, RollBackStep

LEMMA CrashStep ==
  ASSUME LabelsInv, NEW w \in Workers, Crash(w)
  PROVE  LabelsInv'
<1>1. RollBack(w) /\ workers' = [workers EXCEPT ![w] = Idle] /\ UNCHANGED <<catalog, book, effective, jobs, slipped>>
  BY DEF Crash
<1> QED
  BY <1>1, IdleShape, RollBackStep

\* Steps that change jobs and workers only.
LEMMA JobStep ==
  ASSUME LabelsInv, NEW w \in Workers, workers[w].pc # "working", NEW row \in Worker,
         workers' = [workers EXCEPT ![w] = row],
         row.pc = "working" => row.ids # {}, row.pc # "idle" => row.job \in 1 .. Len(jobs),
         jobs' \in Seq(JobRow), Len(jobs') = Len(jobs),
         UNCHANGED <<catalog, book, effective, tx, slipped>>,
         \A n \in News : StillComing(n)
  PROVE  LabelsInv'
<1>1. TablesInv /\ Tables /\ AtWork
  BY DEF LabelsInv, TablesInv
<1>2. /\ workers' \in [Workers -> Worker] /\ workers'[w] = row
      /\ \A v \in Workers : v # w => workers'[v] = workers[v]
  BY <1>1, WorkerShapes
<1>3. \A n \in News : tx[n] # None => tx[n].by # w
  BY <1>1 DEF AtWork, Tables
<1>4. tx' \in [News -> Transaction \cup {None}]
  BY <1>1 DEF Tables
<1> QED
  BY <1>2, <1>3, <1>4, WorkerStep

\* A worker that touches its job passes nobody by.
LEMMA JobMoved ==
  ASSUME TablesInv, NEW n \in News, NEW w \in Workers, NEW j \in 1 .. Len(jobs), NEW row \in JobRow,
         jobs' = [jobs EXCEPT ![j] = row],
         row.scope = jobs[j].scope, row.id = jobs[j].id,
         Coming(j, n) => row.status # "succeeded" /\ ~(row.cursor >= n),
         book'[n].rows = book[n].rows, book'[n].decisions = book[n].decisions,
         \A v \in Workers : v # w => workers'[v] = workers[v], workers'[w].pc # "working"
  PROVE  StillComing(n)
<1>1. /\ Len(jobs') = Len(jobs) /\ jobs'[j] = row
      /\ \A k \in 1 .. Len(jobs) : k # j => jobs'[k] = jobs[k]
  BY JobUpdated DEF TablesInv
<1>2. ASSUME NEW k \in 1 .. Len(jobs), Coming(k, n)
      PROVE  Coming(k, n)'
  <2>1. /\ jobs[k].status # "succeeded" /\ ~(jobs[k].cursor >= n)
        /\ \A v \in Workers : workers[v].pc = "working" /\ workers[v].job = k =>
             n \in workers[v].ids \/ \A m \in workers[v].ids : ~(m > n)
    BY <1>2 DEF Coming, Passed
  <2>2. \A v \in Workers : workers'[v].pc = "working" /\ workers'[v].job = k =>
             n \in workers'[v].ids \/ \A m \in workers'[v].ids : ~(m > n)
    BY <2>1
  <2>3. /\ jobs'[k].scope = jobs[k].scope /\ jobs'[k].id = jobs[k].id
        /\ jobs'[k].status # "succeeded" /\ ~(jobs'[k].cursor >= n)
    BY <1>1, <1>2, <2>1
  <2> QED
    BY <1>2, <2>2, <2>3, ComingStays
<1>3. Len(jobs) \in Nat
  BY JobsDomain
<1> QED
  BY <1>1, <1>2, <1>3 DEF StillComing

LEMMA NotPassed ==
  ASSUME NEW j, NEW n, Coming(j, n)
  PROVE  jobs[j].status # "succeeded" /\ ~(jobs[j].cursor >= n) /\ Concerns(jobs[j], book[n])
BY DEF Coming, Passed

LEMMA ClaimStep ==
  ASSUME LabelsInv, NEW w \in Workers, NEW j \in DOMAIN jobs, Claim(w, j)
  PROVE  LabelsInv'
<1> DEFINE new == [jobs[j] EXCEPT !.status = "running", !.owner = w]
           row == [pc |-> "claimed", job |-> j, ids |-> {}]
<1>1. TablesInv /\ Tables /\ workers[w].pc = "idle" /\ UNCHANGED <<catalog, book, effective, tx, slipped>>
  BY DEF LabelsInv, TablesInv, Claim
<1>2. /\ j \in 1 .. Len(jobs) /\ jobs' = [jobs EXCEPT ![j] = new] /\ new \in JobRow
      /\ workers' = [workers EXCEPT ![w] = row] /\ row \in Worker
  BY <1>1, ClaimShapes
<1>3. new.scope = jobs[j].scope /\ new.id = jobs[j].id /\ new.status = "running" /\ new.cursor = jobs[j].cursor
  BY <1>1, <1>2, JobsAreRows DEF JobRow
<1>4. row.pc = "claimed" /\ row.job = j
  OBVIOUS
<1> HIDE DEF new, row
<1>5. jobs' \in Seq(JobRow) /\ Len(jobs') = Len(jobs)
  BY <1>1, <1>2, JobUpdated
<1>6. workers'[w] = row /\ \A v \in Workers : v # w => workers'[v] = workers[v]
  BY <1>1, <1>2, WorkerShapes
<1>7. \A n \in News : StillComing(n)
  BY <1>1, <1>2, <1>3, <1>4, <1>6, NotPassed, JobMoved
<1> QED
  BY <1>1, <1>2, <1>4, <1>5, <1>7, JobStep

LEMMA RetryStep ==
  ASSUME LabelsInv, NEW w \in Workers, Retry(w)
  PROVE  LabelsInv'
<1> DEFINE j == workers[w].job
           new == Retried(jobs[j])
<1>1. /\ TablesInv /\ Tables /\ AtWork /\ workers[w].pc = "failed"
      /\ UNCHANGED <<catalog, book, effective, tx, slipped>>
  BY DEF LabelsInv, TablesInv, Retry
<1>2. /\ j \in 1 .. Len(jobs) /\ new \in JobRow
      /\ workers' = [workers EXCEPT ![w] = Idle]
      /\ jobs' = IF Owns(w) THEN [jobs EXCEPT ![j] = new] ELSE jobs
  BY <1>1, RetryShapes
<1>3. new.scope = jobs[j].scope /\ new.id = jobs[j].id /\ new.status = "pending" /\ new.cursor = jobs[j].cursor
  BY <1>1, <1>2, JobsAreRows DEF JobRow, Retried
<1>4. workers'[w] = Idle /\ \A v \in Workers : v # w => workers'[v] = workers[v]
  BY <1>1, <1>2, IdleShape, WorkerShapes
<1>5. /\ jobs' \in Seq(JobRow) /\ Len(jobs') = Len(jobs)
      /\ \A n \in News : StillComing(n)
  <2>1. CASE Owns(w)
    <3>1. jobs' = [jobs EXCEPT ![j] = new]
      BY <1>2, <2>1
    <3> HIDE DEF new, j
    <3>2. jobs' \in Seq(JobRow) /\ Len(jobs') = Len(jobs)
      BY <1>1, <1>2, <3>1, JobUpdated
    <3>3. \A n \in News : StillComing(n)
      <4>1. workers'[w].pc # "working"
        BY <1>4, IdleShape
      <4>2. ASSUME NEW n \in News, Coming(j, n) PROVE new.status # "succeeded" /\ ~(new.cursor >= n)
        BY <1>3, <4>2, NotPassed
      <4> QED
        BY <1>1, <1>2, <1>3, <1>4, <3>1, <4>1, <4>2, JobMoved
    <3> QED
      BY <3>2, <3>3
  <2>2. CASE ~Owns(w)
    <3>1. jobs' = jobs
      BY <1>2, <2>2
    <3>2. \A n \in News : StillComing(n)
      BY <1>1, <1>4, <3>1, IdleShape, NoOneWaitsFor
    <3> QED
      BY <1>1, <3>1, <3>2 DEF Tables
  <2> QED
    BY <2>1, <2>2
<1> QED
  BY <1>1, <1>2, <1>5, IdleShape, JobStep

\* A chunk leaves out no news before its last.
LEMMA SelectedSkipsNone ==
  ASSUME NEW job, job.cursor \in Nat, NEW n \in News, ~(job.cursor >= n), Concerns(job, book[n]),
         n \notin Selected(job), NEW m \in Selected(job)
  PROVE  ~(m > n)
<1> DEFINE found == {k \in News : k > job.cursor /\ Concerns(job, book[k])}
           before(k) == {h \in found : h < k}
<1>1. n \in found /\ m \in found /\ found \subseteq Nat /\ found \subseteq News
  <2>1. found \subseteq News /\ News \subseteq Nat /\ n \in Nat
    OBVIOUS
  <2>2. n > job.cursor
    BY <2>1
  <2> QED
    BY <2>1, <2>2 DEF Selected
<1>2. IsFiniteSet(found)
  BY <1>1, FS_Subset
<1>3. /\ IsFiniteSet(before(n)) /\ IsFiniteSet(before(m))
      /\ Cardinality(before(n)) \in Nat /\ Cardinality(before(m)) \in Nat
  BY <1>2, FS_Subset, FS_CardinalityType
<1>4. ~(Cardinality(before(n)) < Batch) /\ Cardinality(before(m)) < Batch
  BY <1>1 DEF Selected
<1>5. ASSUME m > n PROVE FALSE
  <2>1. before(n) \subseteq before(m) /\ n \in before(m) /\ n \notin before(n)
    BY <1>1, <1>5
  <2>2. Cardinality(before(n)) < Cardinality(before(m))
    BY <1>3, <2>1, FS_Subset
  <2> QED
    BY <1>3, <1>4, <2>2
<1> QED
  BY <1>5

\* While a job concerns a news it has not come to, it finds one.
LEMMA SelectedFindsOne ==
  ASSUME NEW job, job.cursor \in Nat, NEW n \in News, ~(job.cursor >= n), Concerns(job, book[n])
  PROVE  Selected(job) # {}
<1> DEFINE found == {k \in News : k > job.cursor /\ Concerns(job, book[k])}
           below == {p \in Nat \X Nat : p[1] < p[2]}
<1>1. n \in found /\ found \subseteq Nat /\ found \subseteq News
  <2>1. found \subseteq News /\ News \subseteq Nat /\ n \in Nat
    OBVIOUS
  <2>2. n > job.cursor
    BY <2>1
  <2> QED
    BY <2>1, <2>2
<1>2. IsWellFoundedOn(below, Nat)
  BY NatLessThanWellFounded DEF OpToRel
<1>3. PICK k \in found : \A h \in found : <<h, k>> \notin below
  <2> HIDE DEF found, below
  <2> QED
    BY <1>1, <1>2, WFMin
<1>4. {h \in found : h < k} = {}
  BY <1>1, <1>3
<1>5. Cardinality({h \in found : h < k}) < Batch
  <2>1. Cardinality({h \in found : h < k}) = 0
    BY <1>4, FS_EmptySet
  <2> HIDE DEF found
  <2> QED
    BY <2>1
<1> QED
  BY <1>3, <1>5 DEF Selected

LEMMA SelectStep ==
  ASSUME LabelsInv, NEW w \in Workers, SelectChunk(w)
  PROVE  LabelsInv'
<1> DEFINE j == workers[w].job
           ids == Selected(jobs[j])
           new == [jobs[j] EXCEPT !.status = "succeeded", !.owner = None]
           row == [workers[w] EXCEPT !.pc = "working", !.ids = ids]
<1>1. /\ TablesInv /\ Tables /\ AtWork /\ workers[w].pc = "claimed"
      /\ UNCHANGED <<catalog, book, effective, tx, slipped>>
  BY DEF LabelsInv, TablesInv, SelectChunk
<1>2. /\ j \in 1 .. Len(jobs) /\ new \in JobRow /\ row \in Worker
      /\ IF Owns(w) /\ ids # {}
         THEN workers' = [workers EXCEPT ![w] = row] /\ jobs' = jobs
         ELSE /\ workers' = [workers EXCEPT ![w] = Idle]
              /\ jobs' = IF Owns(w) THEN [jobs EXCEPT ![j] = new] ELSE jobs
  BY <1>1, SelectShapes
<1>3. /\ new.scope = jobs[j].scope /\ new.id = jobs[j].id /\ jobs[j].cursor \in Nat
      /\ row.pc = "working" /\ row.ids = ids /\ row.job = j
  BY <1>1, <1>2, JobsAreRows DEF JobRow, Tables, Worker
<1>4. jobs' = jobs => jobs' \in Seq(JobRow) /\ Len(jobs') = Len(jobs)
  BY <1>1 DEF Tables
<1>5. CASE Owns(w) /\ ids # {}
  <2>1. workers' = [workers EXCEPT ![w] = row] /\ jobs' = jobs
    BY <1>2, <1>5
  <2>2. workers'[w] = row /\ \A v \in Workers : v # w => workers'[v] = workers[v]
    BY <1>1, <1>2, <2>1, WorkerShapes
  <2>3. ASSUME NEW n \in News PROVE StillComing(n)
    <3>1. ASSUME NEW k \in 1 .. Len(jobs), Coming(k, n)
          PROVE  Coming(k, n)'
      <4>1. /\ jobs[k].status # "succeeded" /\ ~(jobs[k].cursor >= n) /\ Concerns(jobs[k], book[n])
            /\ \A v \in Workers : workers[v].pc = "working" /\ workers[v].job = k =>
                 n \in workers[v].ids \/ \A m \in workers[v].ids : ~(m > n)
        BY <3>1 DEF Coming, Passed
      <4>2. k = j => n \in ids \/ \A m \in ids : ~(m > n)
        BY <1>3, <4>1, SelectedSkipsNone
      <4>3. \A v \in Workers : workers'[v].pc = "working" /\ workers'[v].job = k =>
              n \in workers'[v].ids \/ \A m \in workers'[v].ids : ~(m > n)
        <5>1. workers'[w].job = j /\ workers'[w].ids = ids
          BY <1>3, <2>2
        <5> HIDE DEF row, ids, new, j
        <5> QED
          BY <2>2, <4>1, <4>2, <5>1
      <4> QED
        BY <1>1, <2>1, <3>1, <4>1, <4>3, ComingStays
    <3>2. Len(jobs) \in Nat
      BY <1>1, JobsDomain
    <3> QED
      BY <2>1, <3>1, <3>2 DEF StillComing
  <2> HIDE DEF row, ids, new, j
  <2> QED
    BY <1>1, <1>2, <1>3, <1>4, <1>5, <2>1, <2>3, JobStep
<1>6. CASE ~(Owns(w) /\ ids # {})
  <2>1. workers' = [workers EXCEPT ![w] = Idle]
    BY <1>2, <1>6
  <2>2. workers'[w] = Idle /\ \A v \in Workers : v # w => workers'[v] = workers[v]
    BY <1>1, <2>1, IdleShape, WorkerShapes
  <2>3. workers'[w].pc # "working"
    BY <2>2, IdleShape
  <2>4. /\ jobs' \in Seq(JobRow) /\ Len(jobs') = Len(jobs)
        /\ \A n \in News : StillComing(n)
    <3>1. CASE Owns(w)
      <4>1. jobs' = [jobs EXCEPT ![j] = new] /\ ids = {}
        BY <1>2, <1>6, <3>1
      <4>2. \A n \in News : ~Coming(j, n)
        BY <1>3, <4>1, NotPassed, SelectedFindsOne
      <4> HIDE DEF new, j, ids, row
      <4>3. jobs' \in Seq(JobRow) /\ Len(jobs') = Len(jobs)
        BY <1>1, <1>2, <4>1, JobUpdated
      <4>4. \A n \in News : StillComing(n)
        BY <1>1, <1>2, <1>3, <2>2, <2>3, <4>1, <4>2, JobMoved
      <4> QED
        BY <4>3, <4>4
    <3>2. CASE ~Owns(w)
      <4>1. jobs' = jobs
        BY <1>2, <3>2
      <4> QED
        BY <1>1, <1>4, <2>2, <2>3, <4>1, NoOneWaitsFor
    <3> QED
      BY <3>1, <3>2
  <2> QED
    BY <1>1, <2>1, <2>4, IdleShape, JobStep
<1> QED
  BY <1>5, <1>6

LEMMA EditStep ==
  ASSUME LabelsInv, NEW n \in News, Edit(n)
  PROVE  LabelsInv'
<1>1. TablesInv /\ \A m \in News : ReadingFollowed(m) /\ LabelFollowed(m)
  BY DEF LabelsInv
<1>2. /\ TablesInv'
      /\ book'[n].rows = book[n].rows /\ book'[n].decisions = book[n].decisions
      /\ book'[n].version = book[n].version + 1
      /\ \A m \in News : m # n => book'[m] = book[m]
  BY <1>1, EditBase
<1>3. UNCHANGED <<catalog, effective, tx, jobs, workers, slipped>> /\ tx[n] = None
  BY DEF Edit
<1>4. \A m \in News : StillComing(m)
  BY <1>1, <1>2, <1>3, NothingMoves
<1>5. \A m \in News : m # n => ReadingFollowed(m)' /\ LabelFollowed(m)'
  BY <1>1, <1>2, <1>3, <1>4, ReadKept, LabelKept
<1>6. ReadingFollowed(n)'
  BY <1>3 DEF ReadingFollowed, Reading, Ready
<1>7. LabelFollowed(n)'
  <2>1. effective[n].version \in Nat /\ effective[n].version <= book[n].version /\ book[n].version \in Nat
    BY <1>1 DEF TablesInv, Tables, Book
  <2>2. effective'[n].version # book'[n].version
    BY <1>2, <1>3, <2>1
  <2> QED
    BY <2>2 DEF LabelFollowed, Scheduled, Shown
<1> QED
  BY <1>2, <1>5, <1>6, <1>7 DEF LabelsInv

-----------------------------------------------------------------------------
(* Changes of the catalog *)

\* The job of a change comes to all it concerns, and nobody has it yet.
LEMMA NewJob ==
  ASSUME TablesInv, NEW scope \in {"all", "facet", "value", "classifier"}, NEW id \in Nat, RequestJob(scope, id),
         UNCHANGED <<book, effective, tx, workers, slipped>>, NEW n \in News,
         NEW new, new = Len(jobs) + 1
  PROVE  /\ new \in DOMAIN jobs' /\ new > Len(jobs)
         /\ jobs'[new].scope = scope /\ jobs'[new].id = id
         /\ Concerns(jobs'[new], book[n]) => Coming(new, n)'
         /\ tx[n] # None => Others(new, n)'
         /\ StillComing(n)
<1>1. /\ Len(jobs) \in Nat /\ jobs' \in Seq(JobRow) /\ Len(jobs') = new /\ jobs'[new] = Job(scope, id)
      /\ \A j \in 1 .. Len(jobs) : jobs'[j] = jobs[j]
  BY Requested, JobsDomain DEF TablesInv
<1>2. new \in DOMAIN jobs' /\ new > Len(jobs)
  BY <1>1
<1>3. /\ jobs'[new].scope = scope /\ jobs'[new].id = id
      /\ jobs'[new].status = "pending" /\ jobs'[new].cursor = 0
  BY <1>1 DEF Job
<1>4. \A w \in Workers : workers[w].pc # "idle" => workers[w].job # new
  BY <1>1 DEF TablesInv, AtWork, Tables, Worker
<1>5. ~Passed(new, n)'
  <2>1. ~(jobs'[new].cursor >= n) /\ jobs'[new].status # "succeeded"
    <3>1. n \in Nat /\ n # 0
      OBVIOUS
    <3>2. ~(0 >= n)
      BY <3>1
    <3> QED
      BY <1>3, <3>2
  <2>2. \A w \in Workers : ~(workers'[w].pc = "working" /\ workers'[w].job = new)
    BY <1>4
  <2>3. new' = new /\ n' = n
    OBVIOUS
  <2> QED
    BY <2>1, <2>2, <2>3 DEF Passed
<1>6. Concerns(jobs'[new], book[n]) => Coming(new, n)'
  <2>1. book'[n] = book[n]
    OBVIOUS
  <2> QED
    BY <1>5, <2>1 DEF Coming
<1>7. ASSUME tx[n] # None PROVE Others(new, n)'
  <2>1. tx'[n] = tx[n] /\ tx[n].by \in Workers \cup {"writer"}
    BY <1>7 DEF TablesInv, Tables, Transaction
  <2>2. tx[n].by # "writer" => workers[tx[n].by].pc = "working"
    BY <1>7 DEF TablesInv, AtWork
  <2>3. tx[n].by # "writer" => workers'[tx'[n].by].job # new
    BY <1>4, <2>1, <2>2
  <2> QED
    BY <2>1, <2>3 DEF Others
<1>8. StillComing(n)
  <2>1. ASSUME NEW j \in 1 .. Len(jobs), Coming(j, n)
        PROVE  Coming(j, n)'
    <3>1. /\ jobs[j].status # "succeeded" /\ ~(jobs[j].cursor >= n)
          /\ \A w \in Workers : workers[w].pc = "working" /\ workers[w].job = j =>
               n \in workers[w].ids \/ \A m \in workers[w].ids : ~(m > n)
      BY <2>1 DEF Coming, Passed
    <3>2. jobs'[j] = jobs[j] /\ workers' = workers /\ book' = book
      BY <1>1
    <3> QED
      BY <2>1, <3>1, <3>2, ComingStays
  <2> QED
    BY <1>1, <2>1 DEF StillComing
<1> QED
  BY <1>2, <1>3, <1>6, <1>7, <1>8

\* What a news was told of the catalog so far holds as long as that does not change.
LEMMA ReadCarried ==
  ASSUME TablesInv, TablesInv', NEW n \in News, tx[n] # None, StillComing(n),
         UNCHANGED <<book, effective, tx, workers, slipped>>
  PROVE  /\ AxisIsRead(n) /\ catalog'.facet = catalog.facet => AxisIsRead(n)'
         /\ ValuesAreRead(n)
            /\ (\A r \in tx[n].book.rows : r.value \in catalog'.values <=> r.value \in catalog.values)
            => ValuesAreRead(n)'
         /\ RulesAreRead(n) /\ catalog'.rules = catalog.rules => RulesAreRead(n)'
         /\ \A c \in Classifiers :
              PolicyIsRead(c, n) /\ catalog'.policies[c] = catalog.policies[c] => PolicyIsRead(c, n)'
<1>1. /\ \A j \in DOMAIN jobs : j \in DOMAIN jobs'
      /\ \A j \in DOMAIN jobs : Follows(j, n) => Follows(j, n)'
      /\ \A j \in DOMAIN jobs : Others(j, n) => Others(j, n)'
      /\ \A j \in DOMAIN jobs : jobs'[j].scope = jobs[j].scope /\ jobs'[j].id = jobs[j].id
  BY FollowsStays
<1>2. Ready(n)' = Ready(n)
  BY DEF Ready
<1>3. AxisIsRead(n) /\ catalog'.facet = catalog.facet => AxisIsRead(n)'
  BY <1>1, <1>2 DEF AxisIsRead
<1>4. ValuesAreRead(n)
      /\ (\A r \in tx[n].book.rows : r.value \in catalog'.values <=> r.value \in catalog.values)
      => ValuesAreRead(n)'
  BY <1>1 DEF ValuesAreRead
<1>5. RulesAreRead(n) /\ catalog'.rules = catalog.rules => RulesAreRead(n)'
  BY <1>1 DEF RulesAreRead
<1>6. ASSUME NEW c \in Classifiers, PolicyIsRead(c, n), catalog'.policies[c] = catalog.policies[c]
      PROVE  PolicyIsRead(c, n)'
  <2>1. \A j \in DOMAIN jobs : MayPass(j, c, n) => MayPass(j, c, n)'
    BY <1>1 DEF MayPass
  <2> QED
    BY <1>1, <1>6, <2>1 DEF PolicyIsRead
<1> QED
  BY <1>3, <1>4, <1>5, <1>6

\* The labels after a change: its job concerns the news, or the result is the same.
LEMMA ChangeLabel ==
  ASSUME TablesInv, TablesInv', NEW n \in News, LabelFollowed(n), StillComing(n),
         UNCHANGED <<book, effective, tx, workers, slipped>>,
         \/ \E j \in DOMAIN jobs' : Coming(j, n)'
         \/ Recomputed(book[n], catalog', catalog') = Recomputed(book[n], catalog, catalog)
  PROVE  LabelFollowed(n)'
<1>1. /\ DOMAIN jobs = 1 .. Len(jobs) /\ DOMAIN jobs' = 1 .. Len(jobs')
      /\ Len(jobs) \in Nat /\ Len(jobs') \in Nat
  BY JobsDomain DEF TablesInv, Tables
<1>2. ASSUME NEW j \in DOMAIN jobs, Coming(j, n)
      PROVE  j \in DOMAIN jobs' /\ Coming(j, n)' /\ jobs'[j].scope = jobs[j].scope
  BY <1>1, <1>2 DEF StillComing
<1>3. Scheduled(n)'
  BY <1>2 DEF LabelFollowed, Scheduled
<1>4. Shown(n)'
  BY <1>2 DEF LabelFollowed, Shown
<1> QED
  BY <1>3, <1>4 DEF LabelFollowed

\* What may change in the catalog, and for whom.
LEMMA FacetStep ==
  ASSUME LabelsInv, ToggleFacet
  PROVE  LabelsInv'
<1>0. PICK new : new = Len(jobs) + 1
  OBVIOUS
<1>1. TablesInv /\ Tables /\ AtWork /\ \A n \in News : ReadingFollowed(n) /\ LabelFollowed(n)
  BY DEF LabelsInv, TablesInv
<1>2. /\ catalog' = [catalog EXCEPT !.facet = ~@] /\ RequestJob("facet", 0)
      /\ UNCHANGED <<book, effective, tx, workers, slipped>>
  BY DEF ToggleFacet
<1>3. /\ catalog \in Catalog /\ catalog' \in Catalog
      /\ catalog'.values = catalog.values /\ catalog'.policies = catalog.policies /\ catalog'.rules = catalog.rules
  BY <1>1, <1>2 DEF Tables, Catalog
<1>4. TablesInv'
  BY <1>1, <1>2, <1>3, ChangeBase
<1>5. ASSUME NEW n \in News PROVE LabelFollowed(n)'
  <2>1. /\ new \in DOMAIN jobs' /\ StillComing(n) /\ jobs'[new].scope = "facet"
        /\ Concerns(jobs'[new], book[n]) => Coming(new, n)'
    BY <1>0, <1>1, <1>2, NewJob
  <2>2. CASE book[n].rows # {} \/ book[n].decisions # {}
    <3>1. Concerns(jobs'[new], book[n])
      BY <2>1, <2>2 DEF Concerns
    <3> QED
      BY <1>1, <1>2, <1>4, <2>1, <3>1, ChangeLabel
  <2>3. CASE book[n].rows = {} /\ book[n].decisions = {}
    <3>1. Recomputed(book[n], catalog', catalog') = Recomputed(book[n], catalog, catalog)
      <4>1. book[n] \in Book /\ Numbered(book[n])
        BY <1>1, BookOf
      <4>2. \A c \in Classifiers : ~Names(book[n], c)
        BY <2>3 DEF Names
      <4> QED
        BY <1>3, <2>3, <4>1, <4>2, SameLabel
    <3> QED
      BY <1>1, <1>2, <1>4, <2>1, <3>1, ChangeLabel
  <2> QED
    BY <2>2, <2>3
<1>6. ASSUME NEW n \in News PROVE ReadingFollowed(n)'
  <2>1. /\ new \in DOMAIN jobs' /\ StillComing(n) /\ jobs'[new].scope = "facet"
        /\ Concerns(jobs'[new], book[n]) => Coming(new, n)'
        /\ tx[n] # None => Others(new, n)'
    BY <1>0, <1>1, <1>2, NewJob
  <2>2. CASE Reading(n) /\ (tx[n].book.rows # {} \/ tx[n].book.decisions # {})
    <3>1. tx[n] # None /\ tx[n].book.rows \subseteq book[n].rows /\ tx[n].book.decisions = book[n].decisions
      BY <2>2 DEF ToggleFacet, Inserted, Decided, Reading
    <3>2. Concerns(jobs'[new], book[n]) /\ Concerns(jobs'[new], tx[n].book)
      BY <2>1, <2>2, <3>1 DEF Concerns
    <3>3. Follows(new, n)'
      BY <1>2, <2>1, <3>1, <3>2 DEF Follows
    <3> QED
      BY <2>1, <3>3 DEF ReadingFollowed, AxisIsRead, ValuesAreRead, RulesAreRead, PolicyIsRead
  <2>3. CASE Reading(n) /\ tx[n].book.rows = {} /\ tx[n].book.decisions = {}
    <3>1. AxisIsRead(n)' /\ ValuesAreRead(n)'
      BY <1>2, <2>3 DEF AxisIsRead, ValuesAreRead
    <3>2. Ready(n)' => Ready(n)
      BY <1>2 DEF Ready
    <3>3. /\ RulesAreRead(n) => RulesAreRead(n)'
          /\ \A c \in Classifiers : PolicyIsRead(c, n) => PolicyIsRead(c, n)'
      BY <1>1, <1>2, <1>3, <1>4, <2>1, <2>3, ReadCarried DEF Reading
    <3> QED
      BY <1>1, <1>2, <3>1, <3>2, <3>3 DEF ReadingFollowed
  <2>4. CASE ~Reading(n)
    BY <1>2, <2>4 DEF ReadingFollowed, Reading, Ready
  <2> QED
    BY <2>2, <2>3, <2>4
<1> QED
  BY <1>4, <1>5, <1>6 DEF LabelsInv

LEMMA ValueStep ==
  ASSUME LabelsInv, NEW v \in Values, ToggleValue(v)
  PROVE  LabelsInv'
<1>0. PICK new : new = Len(jobs) + 1
  OBVIOUS
<1>1. TablesInv /\ Tables /\ AtWork /\ \A n \in News : ReadingFollowed(n) /\ LabelFollowed(n)
  BY DEF LabelsInv, TablesInv
<1>2. /\ catalog' = [catalog EXCEPT !.values = IF v \in @ THEN @ \ {v} ELSE @ \cup {v}]
      /\ RequestJob("value", v) /\ UNCHANGED <<book, effective, tx, workers, slipped>>
  BY DEF ToggleValue
<1>3. /\ catalog \in Catalog /\ catalog' \in Catalog /\ v \in Nat
      /\ catalog'.facet = catalog.facet /\ catalog'.policies = catalog.policies /\ catalog'.rules = catalog.rules
      /\ \A u : u # v => (u \in catalog'.values <=> u \in catalog.values)
  BY <1>1, <1>2 DEF Tables, Catalog
<1>4. TablesInv'
  BY <1>1, <1>2, <1>3, ChangeBase
<1>5. ASSUME NEW n \in News PROVE LabelFollowed(n)'
  <2>1. /\ new \in DOMAIN jobs' /\ StillComing(n) /\ jobs'[new].scope = "value" /\ jobs'[new].id = v
        /\ Concerns(jobs'[new], book[n]) => Coming(new, n)'
    BY <1>0, <1>1, <1>2, <1>3, NewJob
  <2>2. CASE \E r \in book[n].rows : r.value = v
    <3>1. Concerns(jobs'[new], book[n])
      BY <2>1, <2>2 DEF Concerns
    <3> QED
      BY <1>1, <1>2, <1>4, <2>1, <3>1, ChangeLabel
  <2>3. CASE \A r \in book[n].rows : r.value # v
    <3>1. Recomputed(book[n], catalog', catalog') = Recomputed(book[n], catalog, catalog)
      <4>1. book[n] \in Book /\ Numbered(book[n])
        BY <1>1, BookOf
      <4>2. \A r \in book[n].rows : r.value \in catalog'.values <=> r.value \in catalog.values
        BY <1>3, <2>3
      <4> QED
        BY <1>3, <4>1, <4>2, SameLabel
    <3> QED
      BY <1>1, <1>2, <1>4, <2>1, <3>1, ChangeLabel
  <2> QED
    BY <2>2, <2>3
<1>6. ASSUME NEW n \in News PROVE ReadingFollowed(n)'
  <2>1. /\ new \in DOMAIN jobs' /\ StillComing(n) /\ jobs'[new].scope = "value" /\ jobs'[new].id = v
        /\ Concerns(jobs'[new], book[n]) => Coming(new, n)'
        /\ tx[n] # None => Others(new, n)'
    BY <1>0, <1>1, <1>2, <1>3, NewJob
  <2>2. CASE ~Reading(n)
    BY <1>2, <2>2 DEF ReadingFollowed, Reading, Ready
  <2>3. CASE Reading(n)
    <3>1. tx[n] # None /\ tx[n].book.rows \subseteq book[n].rows
      BY <2>3 DEF ToggleValue, Inserted, Reading
    <3>2. /\ AxisIsRead(n) => AxisIsRead(n)'
          /\ ValuesAreRead(n)
             /\ (\A r \in tx[n].book.rows : r.value \in catalog'.values <=> r.value \in catalog.values)
             => ValuesAreRead(n)'
          /\ RulesAreRead(n) => RulesAreRead(n)'
          /\ \A c \in Classifiers : PolicyIsRead(c, n) => PolicyIsRead(c, n)'
      BY <1>1, <1>2, <1>3, <1>4, <2>1, <3>1, ReadCarried
    <3>3. ValuesAreRead(n) => ValuesAreRead(n)'
      <4>1. CASE \A r \in tx[n].book.rows : r.value # v
        BY <1>3, <3>2, <4>1
      <4>2. CASE \E r \in tx[n].book.rows : r.value = v
        <5>1. Concerns(jobs'[new], book[n]) /\ Concerns(jobs'[new], tx[n].book)
          BY <2>1, <3>1, <4>2 DEF Concerns
        <5>2. Follows(new, n)'
          BY <1>2, <2>1, <3>1, <5>1 DEF Follows
        <5> QED
          BY <2>1, <5>2 DEF ValuesAreRead
      <4> QED
        BY <4>1, <4>2
    <3>4. Reading(n)' = Reading(n) /\ Ready(n)' = Ready(n) /\ tx' = tx
      BY <1>2 DEF Reading, Ready
    <3> QED
      BY <1>1, <3>2, <3>3, <3>4 DEF ReadingFollowed
  <2> QED
    BY <2>2, <2>3
<1> QED
  BY <1>4, <1>5, <1>6 DEF LabelsInv

LEMMA RuleStep ==
  ASSUME LabelsInv, ReviseRule
  PROVE  LabelsInv'
<1>0. PICK new : new = Len(jobs) + 1
  OBVIOUS
<1>1. TablesInv /\ Tables /\ AtWork /\ \A n \in News : ReadingFollowed(n) /\ LabelFollowed(n)
  BY DEF LabelsInv, TablesInv
<1>2. /\ catalog' = [catalog EXCEPT !.rules = @ + 1]
      /\ RequestJob("all", 0) /\ UNCHANGED <<book, effective, tx, workers, slipped>>
  BY DEF ReviseRule
<1>3. /\ catalog \in Catalog /\ catalog' \in Catalog
      /\ catalog'.facet = catalog.facet /\ catalog'.policies = catalog.policies /\ catalog'.values = catalog.values
  <2>1. catalog \in Catalog
    BY <1>1 DEF Tables
  <2>2. catalog.rules + 1 \in Nat
    BY <2>1 DEF Catalog
  <2> QED
    BY <1>2, <2>1, <2>2 DEF Catalog
<1>4. TablesInv'
  BY <1>1, <1>2, <1>3, ChangeBase
<1>5. ASSUME NEW n \in News
      PROVE  /\ new \in DOMAIN jobs' /\ StillComing(n) /\ Coming(new, n)'
             /\ tx[n] # None => Follows(new, n)'
  <2>1. /\ new \in DOMAIN jobs' /\ StillComing(n) /\ jobs'[new].scope = "all"
        /\ Concerns(jobs'[new], book[n]) => Coming(new, n)'
        /\ tx[n] # None => Others(new, n)'
    BY <1>0, <1>1, <1>2, NewJob
  <2>2. Concerns(jobs'[new], book[n]) /\ Concerns(jobs'[new], tx[n].book)
    BY <2>1 DEF Concerns
  <2> QED
    BY <1>2, <2>1, <2>2 DEF Follows
<1>6. ASSUME NEW n \in News PROVE LabelFollowed(n)'
  BY <1>1, <1>2, <1>4, <1>5, ChangeLabel
<1>7. ASSUME NEW n \in News PROVE ReadingFollowed(n)'
  <2>1. CASE ~Reading(n)
    BY <1>2, <2>1 DEF ReadingFollowed, Reading, Ready
  <2>2. CASE Reading(n)
    <3>1. tx[n] # None /\ AxisIsRead(n) /\ StillComing(n)
      BY <1>1, <1>5, <2>2 DEF ReadingFollowed, Reading
    <3>2. AxisIsRead(n)'
      BY <1>1, <1>2, <1>3, <1>4, <3>1, ReadCarried
    <3>3. new \in DOMAIN jobs' /\ Follows(new, n)'
      BY <1>5, <3>1
    <3> QED
      BY <3>2, <3>3 DEF ReadingFollowed, ValuesAreRead, RulesAreRead, PolicyIsRead
  <2> QED
    BY <2>1, <2>2
<1> QED
  BY <1>4, <1>6, <1>7 DEF LabelsInv

LEMMA PolicyStep ==
  ASSUME LabelsInv, NEW c \in Classifiers, NEW p \in Policies, SetPolicy(c, p)
  PROVE  LabelsInv'
<1>0. PICK new : new = Len(jobs) + 1
  OBVIOUS
<1>1. TablesInv /\ Tables /\ AtWork /\ \A n \in News : ReadingFollowed(n) /\ LabelFollowed(n)
  BY DEF LabelsInv, TablesInv
<1>2. /\ catalog' = [catalog EXCEPT !.policies[c] = p]
      /\ RequestJob("classifier", c) /\ UNCHANGED <<book, effective, tx, workers, slipped>>
  BY DEF SetPolicy, PolicyChanged
<1>3. /\ catalog \in Catalog /\ catalog' \in Catalog /\ c \in Nat
      /\ catalog'.facet = catalog.facet /\ catalog'.rules = catalog.rules /\ catalog'.values = catalog.values
      /\ \A d \in Classifiers : d # c => catalog'.policies[d] = catalog.policies[d]
  BY <1>1, <1>2 DEF Tables, Catalog
<1>4. TablesInv'
  BY <1>1, <1>2, <1>3, ChangeBase
<1>5. ASSUME NEW n \in News
      PROVE  /\ new \in DOMAIN jobs' /\ StillComing(n) /\ new > Len(jobs)
             /\ jobs'[new].scope = "classifier" /\ jobs'[new].id = c
             /\ Concerns(jobs'[new], book[n]) => Coming(new, n)'
             /\ tx[n] # None => Others(new, n)'
  BY <1>0, <1>1, <1>2, <1>3, NewJob
<1>6. ASSUME NEW b, NEW n \in News PROVE Concerns(jobs'[new], b) = Names(b, c)
  BY <1>5 DEF Concerns
<1>7. ASSUME NEW n \in News PROVE LabelFollowed(n)'
  <2>1. CASE Names(book[n], c)
    BY <1>1, <1>2, <1>4, <1>5, <1>6, <2>1, ChangeLabel
  <2>2. CASE ~Names(book[n], c)
    <3>1. Recomputed(book[n], catalog', catalog') = Recomputed(book[n], catalog, catalog)
      <4>1. book[n] \in Book /\ Numbered(book[n])
        BY <1>1, BookOf
      <4>2. \A d \in Classifiers : Names(book[n], d) => catalog'.policies[d] = catalog.policies[d]
        BY <1>3, <2>2
      <4> QED
        BY <1>3, <4>1, <4>2, SameLabel
    <3> QED
      BY <1>1, <1>2, <1>4, <1>5, <3>1, ChangeLabel
  <2> QED
    BY <2>1, <2>2
<1>8. ASSUME NEW n \in News PROVE ReadingFollowed(n)'
  <2>1. CASE ~Reading(n)
    BY <1>2, <2>1 DEF ReadingFollowed, Reading, Ready
  <2>2. CASE Reading(n)
    <3>1. tx[n] # None /\ StillComing(n)
      BY <1>5, <2>2 DEF Reading
    <3>2. /\ AxisIsRead(n) => AxisIsRead(n)'
          /\ ValuesAreRead(n) => ValuesAreRead(n)'
          /\ RulesAreRead(n) => RulesAreRead(n)'
          /\ \A d \in Classifiers : d # c /\ PolicyIsRead(d, n) => PolicyIsRead(d, n)'
      BY <1>1, <1>2, <1>3, <1>4, <3>1, ReadCarried
    <3>3. ASSUME Ready(n), Names(tx[n].book, c) PROVE PolicyIsRead(c, n)'
      <4>1. CASE Names(book[n], c)
        <5>1. Concerns(jobs'[new], book[n]) /\ Concerns(jobs'[new], tx[n].book)
          BY <1>6, <3>3, <4>1
        <5>2. Follows(new, n)'
          BY <1>2, <1>5, <3>1, <5>1 DEF Follows
        <5> QED
          BY <1>5, <5>2 DEF PolicyIsRead
      <4>2. CASE ~Names(book[n], c)
        <5>1. tx[n].known < new
          <6>1. tx[n].known <= Len(jobs) /\ tx[n].known \in Nat
            BY <1>1, <3>1, <3>3 DEF AtWork, Tables, Transaction
          <6>2. Len(jobs) \in Nat
            BY <1>1, JobsDomain
          <6> QED
            BY <1>0, <6>1, <6>2
        <5>2. tx' = tx /\ book' = book
          BY <1>2
        <5>3. MayPass(new, c, n)'
          BY <1>5, <3>1, <4>2, <5>1, <5>2 DEF MayPass
        <5> QED
          BY <1>5, <5>3 DEF PolicyIsRead
      <4> QED
        BY <4>1, <4>2
    <3>4. Reading(n)' = Reading(n) /\ Ready(n)' = Ready(n) /\ tx' = tx
      BY <1>2 DEF Reading, Ready
    <3>5. Ready(n) => \A d \in Classifiers : Names(tx[n].book, d) => PolicyIsRead(d, n)'
      BY <1>1, <3>2, <3>3 DEF ReadingFollowed
    <3> QED
      BY <1>1, <3>2, <3>4, <3>5 DEF ReadingFollowed
  <2> QED
    BY <2>1, <2>2
<1> QED
  BY <1>4, <1>7, <1>8 DEF LabelsInv

-----------------------------------------------------------------------------
(* Commits *)

\* A label that is committed agrees with the catalog, or a job is to come or has passed by.
LEMMA CommittedLabel ==
  ASSUME TablesInv, TablesInv', NEW n \in News, ReadingFollowed(n), Ready(n), catalog' = catalog,
         book'[n] = [tx[n].book EXCEPT !.manual = Result(n).manual],
         effective'[n] = Result(n), slipped'[n] = Slips(n), Len(jobs') = Len(jobs),
         \A j \in 1 .. Len(jobs) : jobs'[j].scope = jobs[j].scope /\ jobs'[j].id = jobs[j].id,
         \A j \in 1 .. Len(jobs) : Others(j, n) /\ ~Passed(j, n) => ~Passed(j, n)'
  PROVE  LabelFollowed(n)'
<1> DEFINE b == tx[n].book
           s == tx[n].taxonomy
           p == tx[n].rest
<1>1. /\ DOMAIN jobs = 1 .. Len(jobs) /\ DOMAIN jobs' = 1 .. Len(jobs) /\ Len(jobs) \in Nat
  BY JobsDomain DEF TablesInv, Tables
<1>2. tx[n] # None /\ Reading(n) /\ b \in Book /\ Numbered(b) /\ s \in Catalog /\ p \in Catalog /\ catalog \in Catalog
  BY DEF Ready, Reading, TablesInv, Tables, BooksAreNumbered, Transaction
<1>3. /\ AxisIsRead(n) /\ ValuesAreRead(n) /\ RulesAreRead(n)
      /\ \A c \in Classifiers : Names(b, c) => PolicyIsRead(c, n)
  BY <1>2 DEF ReadingFollowed
<1>4. /\ book'[n].rows = b.rows /\ book'[n].decisions = b.decisions /\ book'[n].version = b.version
  BY <1>2 DEF Book
<1>5. ASSUME NEW j \in DOMAIN jobs, Others(j, n), ~Passed(j, n), Concerns(jobs[j], b)
      PROVE  j \in DOMAIN jobs' /\ Coming(j, n)' /\ jobs'[j].scope = jobs[j].scope
  <2>1. jobs[j].scope \in {"all", "facet", "value", "classifier"}
    BY <1>1, JobsAreRows DEF TablesInv, JobRow
  <2>2. Concerns(jobs'[j], book'[n]) = Concerns(jobs[j], b)
    BY <1>1, <1>4, <2>1 DEF Concerns, Names
  <2> QED
    BY <1>1, <1>5, <2>2 DEF Coming
<1>6. ASSUME NEW j \in DOMAIN jobs, Follows(j, n)
      PROVE  j \in DOMAIN jobs' /\ Coming(j, n)' /\ jobs'[j].scope = jobs[j].scope
  BY <1>5, <1>6 DEF Follows, Coming
<1>7. effective'[n] = Recomputed(b, s, p)
  BY DEF Result
<1>8. Scheduled(n)'
  <2>1. CASE \E j \in DOMAIN jobs : Follows(j, n)
    BY <1>6, <2>1 DEF Scheduled
  <2>2. CASE \E c \in Classifiers, j \in DOMAIN jobs : Names(b, c) /\ MayPass(j, c, n)
    <3>1. PICK c \in Classifiers, j \in DOMAIN jobs : Names(b, c) /\ MayPass(j, c, n)
      BY <2>2
    <3>2. Concerns(jobs[j], b)
      BY <3>1 DEF MayPass, Concerns
    <3>3. CASE Passed(j, n)
      <4>1. tx[n].known \in Nat /\ tx[n].known < j
        BY <1>2, <3>1 DEF TablesInv, Tables, Transaction, MayPass
      <4>2. j \in tx[n].known + 1 .. Len(jobs)
        BY <1>1, <4>1
      <4>3. Slips(n)
        BY <3>1, <3>3, <4>2 DEF Slips, MayPass
      <4> QED
        BY <4>3 DEF Scheduled
    <3>4. CASE ~Passed(j, n)
      BY <1>5, <3>1, <3>2, <3>4 DEF MayPass, Scheduled
    <3> QED
      BY <3>3, <3>4
  <2>3. CASE /\ \A j \in DOMAIN jobs : ~Follows(j, n)
             /\ \A c \in Classifiers, j \in DOMAIN jobs : ~(Names(b, c) /\ MayPass(j, c, n))
    <3>1. /\ b.rows = {} \/ s.facet = catalog.facet
          /\ b.decisions = {} \/ p.facet = catalog.facet
          /\ \A r \in b.rows : r.value \in s.values <=> r.value \in catalog.values
          /\ p.rules = catalog.rules
      BY <1>3, <2>3 DEF AxisIsRead, ValuesAreRead, RulesAreRead
    <3>2. \A c \in Classifiers : Names(b, c) => p.policies[c] = catalog.policies[c]
      BY <1>3, <2>3 DEF PolicyIsRead
    <3>3. Recomputed(b, s, p) = Recomputed(b, catalog, catalog)
      <4> HIDE DEF b, s, p
      <4> QED
        BY <1>2, <3>1, <3>2, SameLabel
    <3>4. book'[n] = [b EXCEPT !.manual = Recomputed(b, catalog, catalog).manual]
      BY <3>3 DEF Result
    <3>5. Recomputed(book'[n], catalog, catalog) = Recomputed(b, catalog, catalog)
      BY <1>2, <3>4, RecomputedAgain
    <3> QED
      BY <1>7, <3>3, <3>5 DEF Scheduled
  <2> QED
    BY <2>1, <2>2, <2>3
<1>9. Shown(n)'
  <2>1. CASE \E j \in DOMAIN jobs : jobs[j].scope = "facet" /\ Follows(j, n)
    BY <1>6, <2>1 DEF Shown
  <2>2. CASE b.rows = {}
    <3>1. CountedRows(b, s, p.policies) = {}
      BY <2>2 DEF CountedRows
    <3>2. Recomputed(b, s, p).row = None
      BY <3>1 DEF Recomputed, LeftByDecision
    <3> QED
      BY <1>7, <3>2 DEF Shown
  <2>3. CASE s.facet = catalog.facet /\ p.facet = catalog.facet
    <3>1. Latest(book'[n]) = Latest(b)
      BY <1>4 DEF Latest
    <3>2. Latest(b) # None /\ Latest(b).action = "set" /\ Recomputed(b, s, p).row # None =>
            /\ Recomputed(b, s, p).row.origin = "manual"
            /\ Recomputed(b, s, p).row.stamp = Latest(b).revision
      BY <1>2, <2>3, DecisionWins
    <3> QED
      BY <1>7, <3>1, <3>2 DEF Shown
  <2> QED
    BY <1>3, <2>1, <2>2, <2>3 DEF AxisIsRead
<1> QED
  BY <1>8, <1>9 DEF LabelFollowed

\* A commit passes nobody by either: the cursor stops at the last news of the chunk.
LEMMA CommitStep ==
  ASSUME LabelsInv, NEW w \in Workers \cup {"writer"}, NEW done \in SUBSET News, Commits(done), catalog' = catalog,
         \A n \in done : tx[n] # None /\ tx[n].by = w,
         \A n \in News : tx[n] # None /\ tx[n].by = w /\ w # "writer" => n \in done,
         jobs' \in Seq(JobRow), Len(jobs') = Len(jobs), workers' \in [Workers -> Worker],
         \A v \in Workers : v # w => workers'[v] = workers[v],
         w # "writer" => workers'[w].pc = "idle",
         \A j \in 1 .. Len(jobs) : jobs'[j].scope = jobs[j].scope /\ jobs'[j].id = jobs[j].id,
         \A j \in 1 .. Len(jobs) : w = "writer" \/ j # workers[w].job => jobs'[j] = jobs[j],
         \A n \in News \ done : StillComing(n)
  PROVE  LabelsInv'
<1>1. TablesInv /\ \A n \in News : ReadingFollowed(n) /\ LabelFollowed(n)
  BY DEF LabelsInv
<1>2. TablesInv'
  BY <1>1, CommitBase
<1>3. /\ \A n \in done : /\ tx'[n] = None /\ tx[n].pc = "ready" /\ slipped'[n] = Slips(n)
                         /\ book'[n] = [tx[n].book EXCEPT !.manual = Result(n).manual]
                         /\ effective'[n] = Result(n)
      /\ \A n \in News \ done : /\ tx'[n] = tx[n] /\ book'[n] = book[n] /\ effective'[n] = effective[n]
                                /\ slipped'[n] = slipped[n]
  BY DEF Commits
<1>4. ASSUME NEW n \in done PROVE ReadingFollowed(n)' /\ LabelFollowed(n)'
  <2>1. Ready(n) /\ n \in News
    BY <1>3 DEF Ready
  <2>2. ASSUME NEW j \in 1 .. Len(jobs), Others(j, n), ~Passed(j, n)
        PROVE  ~Passed(j, n)'
    <3>1. jobs'[j] = jobs[j]
      BY <2>2 DEF Others
    <3>2. \A v \in Workers : workers'[v].pc = "working" => workers'[v] = workers[v]
      OBVIOUS
    <3> QED
      BY <2>2, <3>1, <3>2 DEF Passed
  <2>3. LabelFollowed(n)'
    BY <1>1, <1>2, <1>3, <2>1, <2>2, CommittedLabel
  <2>4. ReadingFollowed(n)'
    BY <1>3 DEF ReadingFollowed, Reading, Ready
  <2> QED
    BY <2>3, <2>4
<1>5. ASSUME NEW n \in News \ done PROVE ReadingFollowed(n)' /\ LabelFollowed(n)'
  <2>1. LabelFollowed(n)'
    BY <1>1, <1>2, <1>3, LabelKept
  <2>2. ASSUME tx[n] # None, tx[n].by # "writer" PROVE workers'[tx[n].by].job = workers[tx[n].by].job
    BY <1>1, <2>2 DEF TablesInv, Tables, Transaction
  <2>3. ReadingFollowed(n)'
    BY <1>1, <1>2, <1>3, <2>2, ReadKept
  <2> QED
    BY <2>1, <2>3
<1> QED
  BY <1>2, <1>4, <1>5 DEF LabelsInv

LEMMA CommitWriteStep ==
  ASSUME LabelsInv, NEW n \in News, CommitWrite(n)
  PROVE  LabelsInv'
<1>1. TablesInv /\ Tables /\ DOMAIN jobs = 1 .. Len(jobs)
  BY JobsDomain DEF LabelsInv, TablesInv
<1>2. Commits({n}) /\ tx[n] # None /\ tx[n].by = "writer" /\ UNCHANGED <<catalog, jobs, workers>>
  BY DEF CommitWrite
<1>3. \A m \in News \ {n} : book'[m] = book[m]
  BY <1>2 DEF Commits
<1>4. \A m \in News \ {n} : StillComing(m)
  BY <1>1, <1>2, <1>3, NothingMoves
<1>5. jobs' \in Seq(JobRow) /\ Len(jobs') = Len(jobs) /\ workers' \in [Workers -> Worker]
  BY <1>1, <1>2 DEF Tables
<1> QED
  BY <1>2, <1>4, <1>5, CommitStep

LEMMA CommitChunkStep ==
  ASSUME LabelsInv, NEW w \in Workers, CommitChunk(w)
  PROVE  LabelsInv'
<1> DEFINE j == workers[w].job
           ids == workers[w].ids
           row == [jobs[j] EXCEPT !.cursor = NextCursor(ids), !.status = "pending", !.owner = None]
<1>1. TablesInv /\ Tables /\ AtWork /\ workers[w].pc = "working" /\ ids \subseteq Held(w)
  BY DEF LabelsInv, TablesInv, CommitChunk
<1>2. Commits(Held(w)) /\ catalog' = catalog
  BY DEF CommitChunk
<1>3. /\ j \in 1 .. Len(jobs) /\ row \in JobRow /\ ids \in SUBSET News /\ NextCursor(ids) \in ids
      /\ jobs' = [jobs EXCEPT ![j] = row] /\ workers' = [workers EXCEPT ![w] = Idle]
  BY <1>1, ChunkShapes
<1>4. row.scope = jobs[j].scope /\ row.id = jobs[j].id /\ row.status = "pending" /\ row.cursor = NextCursor(ids)
  BY <1>1, <1>3, JobsAreRows DEF JobRow
<1>5. ASSUME NEW n \in News \ Held(w), Coming(j, n) PROVE ~(NextCursor(ids) >= n)
  <2>1. n \notin ids /\ ~(NextCursor(ids) > n)
    BY <1>1, <1>3, <1>5 DEF Coming, Passed
  <2>2. n \in Nat /\ NextCursor(ids) \in Nat
    BY <1>3
  <2> QED
    BY <1>3, <2>1, <2>2
<1>6. /\ \A n \in Held(w) : n \in News /\ tx[n] # None /\ tx[n].by = w
      /\ \A n \in News : tx[n] # None /\ tx[n].by = w => n \in Held(w)
  BY DEF Held
<1>7. \A n \in News \ Held(w) : book'[n] = book[n]
  BY <1>2 DEF Commits
<1> HIDE DEF row, ids, j
<1>8. /\ jobs' \in Seq(JobRow) /\ Len(jobs') = Len(jobs) /\ jobs'[j] = row
      /\ \A k \in 1 .. Len(jobs) : k # j => jobs'[k] = jobs[k]
  BY <1>1, <1>3, JobUpdated
<1>9. /\ workers' \in [Workers -> Worker] /\ workers'[w].pc = "idle"
      /\ \A v \in Workers : v # w => workers'[v] = workers[v]
  BY <1>1, <1>3, IdleShape, WorkerShapes
<1>10. \A n \in News \ Held(w) : StillComing(n)
  BY <1>1, <1>3, <1>4, <1>5, <1>7, <1>9, JobMoved
<1>11. \A k \in 1 .. Len(jobs) : jobs'[k].scope = jobs[k].scope /\ jobs'[k].id = jobs[k].id
  BY <1>4, <1>8
<1>12. \A k \in 1 .. Len(jobs) : k # workers[w].job => jobs'[k] = jobs[k]
  BY <1>8 DEF j
<1> QED
  BY <1>2, <1>6, <1>8, <1>9, <1>10, <1>11, <1>12, CommitStep

-----------------------------------------------------------------------------
(* The labels *)

\* The news of the source are labelled by what the catalog says at first.
LEMMA AtFirst ==
  ASSUME LabelsInit
  PROVE  LabelsInv
<1>1. ASSUME NEW n \in News
      PROVE  FirstBook(n) \in Book /\ FirstBook(n).version = 1 /\ FirstBook(n).decisions = {}
             /\ Numbered(FirstBook(n))
  <2>1. Given[n] # None => LabelRow(1, "source_default", 0, 0, Given[n], 1) \in Opinion
    BY DEF LabelRow, Opinion
  <2>2. [c \in Classifiers |-> 0] \in [Classifiers -> Nat]
    OBVIOUS
  <2>3. FirstBook(n) \in Book
    BY <2>1, <2>2 DEF FirstBook, Book
  <2>4. /\ FirstBook(n).version = 1 /\ FirstBook(n).decisions = {}
        /\ \A r \in FirstBook(n).rows : r.by = 0 /\ r.origin = "source_default"
    BY DEF FirstBook, LabelRow
  <2>5. IsFiniteSet({})
    BY FS_EmptySet
  <2>6. Numbered(FirstBook(n))
    BY <2>4, <2>5 DEF Numbered
  <2> QED
    BY <2>3, <2>4, <2>6
<1>2. catalog \in Catalog
  BY DEF LabelsInit, Catalog
<1>3. \A n \in News : Recomputed(FirstBook(n), catalog, catalog).version = 1
  BY <1>1 DEF Recomputed
<1>4. /\ \A n \in News : book[n] = FirstBook(n) /\ tx[n] = None
      /\ \A n \in News : effective[n] = Recomputed(FirstBook(n), catalog, catalog)
      /\ \A w \in Workers : workers[w] = Idle
      /\ jobs = <<>> /\ book \in [News -> Book] /\ tx \in [News -> Transaction \cup {None}]
      /\ workers \in [Workers -> Worker] /\ jobs \in Seq(JobRow)
  BY <1>1, IdleShape DEF LabelsInit
<1>5. Tables
  <2>1. \A n \in News : effective[n].version = 1 /\ book[n].version = 1
    BY <1>1, <1>3, <1>4
  <2>2. \A n \in News : ~Reading(n) /\ ~Ready(n)
    BY <1>4 DEF Reading, Ready
  <2>3. \A n \in News : effective[n].version \in Nat /\ effective[n].version <= book[n].version
    BY <2>1
  <2>4. /\ book \in [News -> Book] /\ tx \in [News -> Transaction \cup {None}]
        /\ jobs \in Seq(JobRow) /\ workers \in [Workers -> Worker]
    BY <1>4
  <2> QED
    BY <1>2, <2>2, <2>3, <2>4 DEF Tables
<1>6. AtWork /\ BooksAreNumbered
  BY <1>1, <1>4, IdleShape DEF AtWork, BooksAreNumbered, Ready
<1>7. ASSUME NEW n \in News PROVE ReadingFollowed(n) /\ LabelFollowed(n)
  <2>1. ReadingFollowed(n)
    BY <1>4 DEF ReadingFollowed, Reading, Ready
  <2>2. Scheduled(n)
    BY <1>4 DEF Scheduled
  <2>3. Latest(book[n]) = None
    BY <1>1, <1>4 DEF Latest
  <2> QED
    BY <2>1, <2>2, <2>3 DEF LabelFollowed, Shown
<1> QED
  BY <1>5, <1>6, <1>7 DEF LabelsInv, TablesInv

LEMMA WriteStep ==
  ASSUME LabelsInv, NEW n \in News,
         \/ \E c \in Classifiers, v \in Values, d \in Confidences : Answer(n, c, v, d)
         \/ \E v \in Values \cup {None} : SetManually(n, v)
         \/ Release(n)
  PROVE  LabelsInv'
<1>1. TablesInv
  BY DEF LabelsInv
<1>2. \E new \in Book :
        /\ Numbered(new) /\ Begin(n, "writer", new)
        /\ UNCHANGED <<catalog, book, effective, jobs, workers, slipped>>
  BY <1>1, AnswerBegins, SetBegins, ReleaseBegins
<1> QED
  BY <1>2, BeginStep

LEMMA LockStep ==
  ASSUME LabelsInv, NEW w \in Workers, LockNext(w)
  PROVE  LabelsInv'
<1>1. TablesInv
  BY DEF LabelsInv
<1> QED
  BY <1>1, LockBegins, BeginStep

LEMMA NothingHappens ==
  ASSUME LabelsInv, UNCHANGED labelsVars
  PROVE  LabelsInv'
<1>1. UNCHANGED <<catalog, book, effective, tx, jobs, workers, slipped>>
  BY DEF labelsVars
<1>2. TablesInv /\ \A n \in News : ReadingFollowed(n) /\ LabelFollowed(n)
  BY DEF LabelsInv
<1>3. TablesInv'
  BY <1>1, <1>2 DEF TablesInv, Tables, AtWork, BooksAreNumbered, Reading, Ready
<1>4. \A n \in News : StillComing(n)
  BY <1>1, <1>2, NothingMoves
<1>5. \A n \in News : LabelFollowed(n)'
  BY <1>1, <1>2, <1>3, <1>4, LabelKept
<1>6. \A n \in News : ReadingFollowed(n)'
  BY <1>1, <1>2, <1>3, <1>4, ReadKept
<1> QED
  BY <1>3, <1>5, <1>6 DEF LabelsInv

LEMMA NextStep ==
  ASSUME LabelsInv, LabelsNext
  PROVE  LabelsInv'
<1>1. CASE \E n \in News : ReadRows(n) \/ ReadRest(n) \/ CommitWrite(n)
  BY <1>1, ReadRowsStep, ReadRestStep, CommitWriteStep
<1>2. CASE \E w \in Workers : \E j \in DOMAIN jobs : Claim(w, j)
  BY <1>2, ClaimStep
<1>3. CASE \E w \in Workers : SelectChunk(w) \/ LockNext(w) \/ CommitChunk(w) \/ Retry(w)
  BY <1>3, SelectStep, LockStep, CommitChunkStep, RetryStep
<1>4. CASE \E n \in News :
             \/ \E c \in Classifiers, v \in Values, d \in Confidences : Answer(n, c, v, d)
             \/ \E v \in Values \cup {None} : SetManually(n, v)
             \/ Release(n) \/ Edit(n) \/ WriteFails(n)
  BY <1>4, WriteStep, EditStep, WriteFailsStep
<1>5. CASE ToggleFacet \/ ReviseRule
  BY <1>5, FacetStep, RuleStep
<1>6. CASE \E v \in Values : ToggleValue(v)
  BY <1>6, ValueStep
<1>7. CASE \E c \in Classifiers, p \in Policies : SetPolicy(c, p)
  BY <1>7, PolicyStep
<1>8. CASE \E w \in Workers : ChunkFails(w) \/ Crash(w)
  BY <1>8, ChunkFailsStep, CrashStep
<1> QED
  BY <1>1, <1>2, <1>3, <1>4, <1>5, <1>6, <1>7, <1>8 DEF LabelsNext, Progress

\* A job that comes is one that a worker will claim.
LEMMA ComingAwaits ==
  ASSUME TablesInv, NEW n \in News, NEW j \in DOMAIN jobs, Coming(j, n)
  PROVE  Awaits(j, n)
<1>1. jobs[j] \in JobRow
  BY JobsDomain, JobsAreRows DEF TablesInv
<1>2. jobs[j].status # "succeeded" /\ ~(jobs[j].cursor >= n) /\ Concerns(jobs[j], book[n])
  BY NotPassed
<1>3. n \in Nat /\ jobs[j].cursor \in Nat /\ jobs[j].status \in {"pending", "running", "succeeded"}
  BY <1>1 DEF JobRow
<1> QED
  BY <1>2, <1>3 DEF Awaits

\* The invariant holds: decisions are numbered, transactions hold what they are said
\* to hold, and what one has read of the catalog is still so or a job follows it.
THEOREM LabelsInvariance == LabelsSpec => []LabelsInv
<1>1. LabelsInit => LabelsInv
  BY AtFirst
<1>2. LabelsInv /\ [LabelsNext]_labelsVars => LabelsInv'
  BY NextStep, NothingHappens
<1> QED
  BY <1>1, <1>2, PTL DEF LabelsSpec

\* A change of the catalog is durable work (architecture.md): a label of the text in
\* force that does not agree with the catalog has a job that will come to its news,
\* whatever was being recomputed when the catalog changed and whichever chunks failed.
THEOREM StaleIsScheduledHolds == LabelsSpec => []StaleIsScheduled
<1>1. LabelsInv => StaleIsScheduled
  <2> SUFFICES ASSUME LabelsInv, NEW n \in News, Stale(n), ~slipped[n]
               PROVE  \E j \in DOMAIN jobs : Awaits(j, n)
    BY DEF StaleIsScheduled
  <2>1. TablesInv /\ Scheduled(n)
    BY DEF LabelsInv, LabelFollowed
  <2>2. \E j \in DOMAIN jobs : Coming(j, n)
    BY <2>1 DEF Scheduled, Stale
  <2> QED
    BY <2>1, <2>2, ComingAwaits
<1> QED
  BY <1>1, LabelsInvariance, PTL

\* What an editor decided about the text in force is what shows, or nothing, unless
\* the axis was switched and its job has not come yet.
THEOREM ManualHoldsAlways == LabelsSpec => []ManualHolds
<1>1. LabelsInv => ManualHolds
  <2> SUFFICES ASSUME LabelsInv, NEW n \in News,
                      Latest(book[n]) # None, Latest(book[n]).action = "set",
                      effective[n].version = book[n].version, effective[n].row # None
               PROVE  \/ effective[n].row.origin = "manual" /\ effective[n].row.stamp = Latest(book[n]).revision
                      \/ \E j \in DOMAIN jobs : jobs[j].scope = "facet" /\ Awaits(j, n)
    BY DEF ManualHolds
  <2>1. TablesInv /\ Shown(n)
    BY DEF LabelsInv, LabelFollowed
  <2> QED
    BY <2>1, ComingAwaits DEF Shown
<1> QED
  BY <1>1, LabelsInvariance, PTL

-----------------------------------------------------------------------------
(* The examples a classifier is shown *)

HIDE LabelsAssumption

DecisionOf(axes, values) ==
  [version : Nat, axis : axes, origin : {"manual", "provenance"}, action : {"set", "release"},
   values : SUBSET values]

HistoryOf(axes, values) == [version : Nat, decisions : Seq(DecisionOf(axes, values))]

\* The history of a news: one step after the other.
TakesSteps(it, steps) ==
  it = [s \in SUBSET (DOMAIN steps) |->
          IF s = {} THEN Fresh ELSE After(it[s \ {Max(s)}], steps[Max(s)])]

HistoryRun(run, steps) ==
  /\ run[0] = Fresh
  /\ \A k \in 1 .. Len(steps) : run[k] = After(run[k - 1], steps[k])

\* What a step is, for each of its kinds.
LEMMA StepKinds ==
  ASSUME NEW axes, NEW values, NEW step \in Steps(axes, values)
  PROVE  \/ step.does = "set" /\ step.axis \in axes /\ step.values \in SUBSET values
         \/ step.does \in {"release", "copy_set", "copy_release"} /\ step.axis \in axes
         \/ step.does = "edit"
BY DEF Steps

OneDecision(new, news, axis, origin, action, chosen, axes, values) ==
  /\ new \in HistoryOf(axes, values) /\ new.version = news.version
  /\ new.decisions = Append(news.decisions, [version |-> news.version, axis |-> axis,
                        origin |-> origin, action |-> action, values |-> chosen])

LEMMA DecideTypes ==
  ASSUME NEW axes, NEW values, NEW news \in HistoryOf(axes, values), NEW axis \in axes,
         NEW origin \in {"manual", "provenance"}, NEW action \in {"set", "release"},
         NEW chosen \in SUBSET values
  PROVE  OneDecision(Decide(news, axis, origin, action, chosen), news, axis, origin, action,
                     chosen, axes, values)
<1>1. [version |-> news.version, axis |-> axis, origin |-> origin, action |-> action,
       values |-> chosen] \in DecisionOf(axes, values)
  BY DEF DecisionOf, HistoryOf
<1> DEFINE more == Append(news.decisions, [version |-> news.version, axis |-> axis,
                            origin |-> origin, action |-> action, values |-> chosen])
<1>2. more \in Seq(DecisionOf(axes, values))
  BY <1>1 DEF HistoryOf
<1>3. Decide(news, axis, origin, action, chosen) = [news EXCEPT !.decisions = more]
  BY DEF Decide
<1> HIDE DEF more
<1>4. /\ [news EXCEPT !.decisions = more] \in HistoryOf(axes, values)
      /\ [news EXCEPT !.decisions = more].version = news.version
      /\ [news EXCEPT !.decisions = more].decisions = more
  BY <1>2 DEF HistoryOf
<1> QED
  BY <1>3, <1>4 DEF OneDecision, more

LEMMA EditTypes ==
  ASSUME NEW axes, NEW values, NEW news \in HistoryOf(axes, values)
  PROVE  /\ NewVersion(news) \in HistoryOf(axes, values)
         /\ NewVersion(news).version = news.version + 1
         /\ NewVersion(news).decisions = news.decisions
BY DEF NewVersion, HistoryOf

LEMMA AfterTypes ==
  ASSUME NEW axes, NEW values, NEW news \in HistoryOf(axes, values),
         NEW step \in Steps(axes, values)
  PROVE  After(news, step) \in HistoryOf(axes, values)
<1>1. CASE step.does = "set"
  <2>1. After(news, step) = Decide(news, step.axis, "manual", "set", step.values)
    BY <1>1 DEF After, ReplaceAxis
  <2>2. step.axis \in axes /\ step.values \in SUBSET values
    BY <1>1, StepKinds
  <2>3. OneDecision(Decide(news, step.axis, "manual", "set", step.values), news, step.axis,
                    "manual", "set", step.values, axes, values)
    BY <2>2, DecideTypes
  <2> QED
    BY <2>1, <2>3 DEF OneDecision
<1>2. CASE step.does = "release"
  <2>1. After(news, step) = Decide(news, step.axis, "manual", "release", {})
    BY <1>2 DEF After, ReleaseAxis
  <2>2. step.axis \in axes /\ {} \in SUBSET values
    BY <1>2, StepKinds
  <2>3. OneDecision(Decide(news, step.axis, "manual", "release", {}), news, step.axis,
                    "manual", "release", {}, axes, values)
    BY <2>2, DecideTypes
  <2> QED
    BY <2>1, <2>3 DEF OneDecision
<1>3. CASE step.does = "copy_set"
  <2>1. After(news, step) = Decide(news, step.axis, "provenance", "set", {})
    BY <1>3 DEF After, CopyDecision
  <2>2. step.axis \in axes /\ {} \in SUBSET values
    BY <1>3, StepKinds
  <2>3. OneDecision(Decide(news, step.axis, "provenance", "set", {}), news, step.axis,
                    "provenance", "set", {}, axes, values)
    BY <2>2, DecideTypes
  <2> QED
    BY <2>1, <2>3 DEF OneDecision
<1>4. CASE step.does = "copy_release"
  <2>1. After(news, step) = Decide(news, step.axis, "provenance", "release", {})
    BY <1>4 DEF After, CopyDecision
  <2>2. step.axis \in axes /\ {} \in SUBSET values
    BY <1>4, StepKinds
  <2>3. OneDecision(Decide(news, step.axis, "provenance", "release", {}), news, step.axis,
                    "provenance", "release", {}, axes, values)
    BY <2>2, DecideTypes
  <2> QED
    BY <2>1, <2>3 DEF OneDecision
<1>5. CASE step.does = "edit"
  <2>1. After(news, step) = NewVersion(news)
    BY <1>5 DEF After
  <2> QED
    BY <2>1, EditTypes
<1> QED
  BY <1>1, <1>2, <1>3, <1>4, <1>5, StepKinds

LEMMA HistoryRuns ==
  ASSUME NEW axes, NEW values, NEW steps \in Seq(Steps(axes, values))
  PROVE  \E run : HistoryRun(run, steps) /\ FoldLeft(After, Fresh, steps) = run[Len(steps)]
<1> DEFINE N == Len(steps)
           S == HistoryOf(axes, values)
           it == CHOOSE i : TakesSteps(i, steps)
<1>0. N \in Nat /\ DOMAIN steps = 1 .. N
  OBVIOUS
<1>1. FoldLeft(After, Fresh, steps) = it[DOMAIN steps]
  BY DEF FoldLeft, MapThenFoldSet, TakesSteps
<1>2. \E i : TakesSteps(i, steps)
  <2>1. PICK step : step = [k \in 1 .. N |-> [news \in S |-> After(news, steps[k])]]
    OBVIOUS
  <2>2. Fresh \in S
    BY DEF Fresh, HistoryOf
  <2> HIDE DEF S
  <2>3. Stepwise(step, N, S)
    <3>1. \A k \in 1 .. N : steps[k] \in Steps(axes, values)
      OBVIOUS
    <3>2. ASSUME NEW k \in 1 .. N PROVE [news \in S |-> After(news, steps[k])] \in [S -> S]
      BY <3>1, AfterTypes DEF S
    <3> HIDE DEF N
    <3> QED
      BY <2>1, <3>2 DEF Stepwise
  <2> HIDE DEF N
  <2>4. PICK i : Iterates(i, N, S, Fresh, step)
    BY <1>0, <2>2, <2>3, Folding
  <2>5. ASSUME NEW s \in SUBSET (1 .. N)
        PROVE  i[s] = IF s = {} THEN Fresh ELSE After(i[s \ {Max(s)}], steps[Max(s)])
    <3>1. s \ {Max(s)} \in SUBSET (1 .. N)
      OBVIOUS
    <3>2. i[s \ {Max(s)}] \in S
      BY <2>4, <3>1 DEF Iterates
    <3>3. s # {} => Max(s) \in 1 .. N
      BY <1>0, MaxIn
    <3>4. i[s] = IF s = {} THEN Fresh ELSE step[Max(s)][i[s \ {Max(s)}]]
      BY <2>4 DEF Iterates
    <3> QED
      BY <2>1, <3>2, <3>3, <3>4
  <2>6. i = [s \in SUBSET (1 .. N) |-> i[s]]
    BY <2>4 DEF Iterates
  <2> QED
    BY <1>0, <2>5, <2>6 DEF TakesSteps
<1>3. TakesSteps(it, steps)
  BY <1>2, Zenon
<1> HIDE DEF it
<1>4. \A s \in SUBSET (1 .. N) :
        it[s] = IF s = {} THEN Fresh ELSE After(it[s \ {Max(s)}], steps[Max(s)])
  BY <1>0, <1>3 DEF TakesSteps
<1> HIDE DEF N
<1> DEFINE run == [k \in 0 .. N |-> it[1 .. k]]
<1>5. run[0] = Fresh
  <2>1. 0 \in 0 .. N /\ 1 .. 0 = {}
    BY <1>0
  <2> QED
    BY <1>4, <2>1
<1>6. ASSUME NEW k \in 1 .. N PROVE run[k] = After(run[k - 1], steps[k])
  <2>1. k \in 0 .. N /\ k - 1 \in 0 .. N /\ k \in Nat \ {0} /\ k \in 1 .. k
    BY <1>0
  <2>2. PICK upto : upto = 1 .. k
    OBVIOUS
  <2>3. upto \in SUBSET (1 .. N) /\ upto # {}
    <3>1. \A i \in 1 .. k : i \in 1 .. N
      BY <1>0
    <3> QED
      BY <2>1, <2>2, <3>1
  <2>4. upto \ {k} = 1 .. (k - 1)
    BY <2>1, <2>2
  <2>5. Max(upto) = k
    BY <2>1, <2>2, MaxIs
  <2>6. it[upto] = After(it[1 .. (k - 1)], steps[k])
    BY <1>4, <2>3, <2>4, <2>5
  <2> QED
    BY <2>1, <2>2, <2>6
<1>7. run[N] = it[1 .. N]
  BY <1>0
<1>8. HistoryRun(run, steps)
  <2> HIDE DEF run
  <2> QED
    BY <1>5, <1>6 DEF HistoryRun, N
<1> QED
  BY <1>0, <1>1, <1>7, <1>8 DEF N

\* The decision in force on an axis, and the editor's last word among the first k steps.
Standing(news, axis, m) ==
  /\ m \in ManualOf(news, axis) /\ \A j \in ManualOf(news, axis) : j <= m
  /\ news.decisions[m].action = "set"

Spoken(steps, k, i, axis) ==
  /\ i \in 1 .. k /\ steps[i].does = "set" /\ steps[i].axis = axis
  /\ \A j \in 1 .. k : j > i => /\ steps[j].does # "edit"
                                /\ steps[j].does \in {"set", "release"} => steps[j].axis # axis

AxisAgrees(news, steps, k, axis) ==
  /\ \A i : Spoken(steps, k, i, axis) =>
       \E m : Standing(news, axis, m) /\ news.decisions[m].values = steps[i].values
  /\ \A m : Standing(news, axis, m) => \E i : Spoken(steps, k, i, axis)

Agrees(news, steps, k, axes, values) ==
  /\ news \in HistoryOf(axes, values)
  /\ \A i \in DOMAIN news.decisions : news.decisions[i].version <= news.version
  /\ \A axis \in axes : AxisAgrees(news, steps, k, axis)

\* A step that says nothing of an axis.
LEMMA SilentStep ==
  ASSUME NEW news, NEW new, NEW steps, NEW k \in Nat \ {0}, NEW axis,
         AxisAgrees(news, steps, k - 1, axis),
         ManualOf(new, axis) = ManualOf(news, axis),
         \A m \in ManualOf(news, axis) : new.decisions[m] = news.decisions[m],
         steps[k].does # "edit", steps[k].does \in {"set", "release"} => steps[k].axis # axis
  PROVE  AxisAgrees(new, steps, k, axis)
<1>1. \A m : Standing(new, axis, m) <=> Standing(news, axis, m)
  BY DEF Standing
<1>2. \A m : Standing(news, axis, m) => new.decisions[m] = news.decisions[m]
  BY DEF Standing
<1>3. \A i : i \in 1 .. k <=> i = k \/ i \in 1 .. (k - 1)
  OBVIOUS
<1>4. \A i \in 1 .. (k - 1) : k > i /\ i # k
  OBVIOUS
<1>5. ASSUME NEW i PROVE Spoken(steps, k, i, axis) <=> Spoken(steps, k - 1, i, axis)
  <2>1. CASE i = k
    <3>1. ~Spoken(steps, k, i, axis)
      BY <2>1 DEF Spoken
    <3>2. i \notin 1 .. (k - 1)
      BY <1>4, <2>1
    <3> QED
      BY <3>1, <3>2 DEF Spoken
  <2>2. CASE i # k
    BY <1>3, <2>2 DEF Spoken
  <2> QED
    BY <2>1, <2>2
<1> QED
  BY <1>1, <1>2, <1>5 DEF AxisAgrees

\* What a decision adds to those of its axis and leaves of the others.
Adds(new, news, d, axis) ==
  /\ ManualOf(new, axis) =
       IF d.axis = axis /\ d.origin = "manual"
       THEN ManualOf(news, axis) \cup {Len(news.decisions) + 1} ELSE ManualOf(news, axis)
  /\ \A m \in ManualOf(news, axis) :
       new.decisions[m] = news.decisions[m] /\ m \in Nat /\ m <= Len(news.decisions)
  /\ new.decisions[Len(news.decisions) + 1] = d
  /\ Len(news.decisions) \in Nat
  /\ \A i \in DOMAIN new.decisions : i \in DOMAIN news.decisions \/ new.decisions[i] = d
  /\ \A i \in DOMAIN news.decisions : new.decisions[i] = news.decisions[i]

LEMMA DecisionAdds ==
  ASSUME NEW axes, NEW values, NEW news \in HistoryOf(axes, values), NEW new,
         NEW d, d.version = news.version, new.version = news.version,
         new.decisions = Append(news.decisions, d), NEW axis
  PROVE  Adds(new, news, d, axis)
<1> DEFINE n == Len(news.decisions)
<1>1. /\ n \in Nat /\ DOMAIN news.decisions = 1 .. n
      /\ DOMAIN new.decisions = 1 .. n + 1 /\ new.decisions[n + 1] = d
      /\ \A i \in 1 .. n : new.decisions[i] = news.decisions[i] /\ i \in Nat /\ i <= n
  BY DEF HistoryOf
<1>2. \A i : i \in 1 .. n + 1 <=> i \in 1 .. n \/ i = n + 1
  BY <1>1
<1>3. n + 1 \notin 1 .. n
  BY <1>1
<1>4. ManualOf(new, axis) =
        {i \in 1 .. n + 1 : /\ new.decisions[i].version = news.version
                            /\ new.decisions[i].axis = axis /\ new.decisions[i].origin = "manual"}
  BY <1>1 DEF ManualOf
<1>5. ManualOf(news, axis) =
        {i \in 1 .. n : /\ news.decisions[i].version = news.version
                        /\ news.decisions[i].axis = axis /\ news.decisions[i].origin = "manual"}
  BY <1>1 DEF ManualOf
<1> HIDE DEF n
<1>6. ManualOf(new, axis) =
        IF d.axis = axis /\ d.origin = "manual" THEN ManualOf(news, axis) \cup {n + 1}
        ELSE ManualOf(news, axis)
  BY <1>1, <1>2, <1>3, <1>4, <1>5
<1>7. \A m \in ManualOf(news, axis) : m \in 1 .. n
  BY <1>5
<1> QED
  BY <1>1, <1>2, <1>6, <1>7 DEF Adds, n

\* A decision, by an editor or copied.
LEMMA DecisionAgrees ==
  ASSUME NEW axes, NEW values, NEW steps, NEW k \in Nat \ {0}, NEW news,
         Agrees(news, steps, k - 1, axes, values),
         NEW new, new \in HistoryOf(axes, values),
         NEW d, d.version = news.version, new.version = news.version,
         new.decisions = Append(news.decisions, d),
         steps[k].does # "edit",
         steps[k].does \in {"set", "release"} <=> d.origin = "manual",
         d.origin = "manual" => d.axis = steps[k].axis /\ d.action = steps[k].does,
         steps[k].does = "set" => d.values = steps[k].values
  PROVE  Agrees(new, steps, k, axes, values)
<1> DEFINE n == Len(news.decisions)
<1>0. /\ news \in HistoryOf(axes, values) /\ news.version \in Nat
      /\ \A i \in DOMAIN news.decisions : news.decisions[i].version <= news.version
      /\ \A axis \in axes : AxisAgrees(news, steps, k - 1, axis)
  BY DEF Agrees, HistoryOf
<1>1. \A i \in DOMAIN new.decisions : new.decisions[i].version <= new.version
  <2>1. /\ \A i \in DOMAIN new.decisions : i \in DOMAIN news.decisions \/ new.decisions[i] = d
        /\ \A i \in DOMAIN news.decisions : new.decisions[i] = news.decisions[i]
    <3>1. Adds(new, news, d, d.axis)
      BY <1>0, DecisionAdds
    <3> QED
      BY <3>1 DEF Adds
  <2> QED
    BY <1>0, <2>1
<1>2. ASSUME NEW axis \in axes PROVE AxisAgrees(new, steps, k, axis)
  <2>1. /\ ManualOf(new, axis) = IF d.axis = axis /\ d.origin = "manual"
                                 THEN ManualOf(news, axis) \cup {n + 1} ELSE ManualOf(news, axis)
        /\ \A m \in ManualOf(news, axis) :
             new.decisions[m] = news.decisions[m] /\ m \in Nat /\ m <= n
        /\ new.decisions[n + 1] = d /\ n \in Nat
    <3>1. Adds(new, news, d, axis)
      BY <1>0, DecisionAdds
    <3> QED
      BY <3>1 DEF Adds
  <2> HIDE DEF n
  <2>2. CASE ~(d.axis = axis /\ d.origin = "manual")
    BY <1>0, <2>1, <2>2, SilentStep
  <2>3. CASE d.axis = axis /\ d.origin = "manual"
    <3>1. /\ steps[k].axis = axis /\ d.action = steps[k].does
          /\ steps[k].does \in {"set", "release"}
      BY <2>3
    <3>2. \A i \in 1 .. k : i = k \/ k > i
      OBVIOUS
    <3>3. \A i : Spoken(steps, k, i, axis) => i = k /\ steps[k].does = "set"
      <4>1. k \in 1 .. k
        OBVIOUS
      <4> QED
        BY <3>1, <3>2, <4>1 DEF Spoken
    <3>4. steps[k].does = "set" => Spoken(steps, k, k, axis)
      <4>1. k \in 1 .. k /\ \A j \in 1 .. k : ~(j > k)
        OBVIOUS
      <4> QED
        BY <3>1, <4>1 DEF Spoken
    <3>5. \A m : Standing(new, axis, m) <=> m = n + 1 /\ d.action = "set"
      <4>1. \A m \in ManualOf(news, axis) : m <= n + 1 /\ ~(n + 1 <= m)
        BY <2>1
      <4>2. n + 1 <= n + 1
        BY <2>1
      <4>3. ManualOf(new, axis) = ManualOf(news, axis) \cup {n + 1}
        BY <2>1, <2>3
      <4> QED
        BY <2>1, <4>1, <4>2, <4>3 DEF Standing
    <3> QED
      BY <2>1, <3>1, <3>3, <3>4, <3>5 DEF AxisAgrees
  <2> QED
    BY <2>2, <2>3
<1> QED
  BY <1>1, <1>2 DEF Agrees

LEMMA EditAgrees ==
  ASSUME NEW axes, NEW values, NEW steps, NEW k \in Nat \ {0}, NEW news,
         Agrees(news, steps, k - 1, axes, values), steps[k].does = "edit"
  PROVE  Agrees(NewVersion(news), steps, k, axes, values)
<1> DEFINE new == NewVersion(news)
<1>0. news \in HistoryOf(axes, values) /\ news.version \in Nat
  BY DEF Agrees, HistoryOf
<1>1. /\ new \in HistoryOf(axes, values) /\ new.version = news.version + 1
      /\ new.decisions = news.decisions
  BY <1>0, EditTypes
<1>2. \A i \in DOMAIN news.decisions :
        news.decisions[i].version \in Nat /\ news.decisions[i].version <= news.version
  <2>1. \A i \in DOMAIN news.decisions : news.decisions[i] \in DecisionOf(axes, values)
    BY <1>0 DEF HistoryOf
  <2>2. \A i \in DOMAIN news.decisions : news.decisions[i].version \in Nat
    BY <2>1 DEF DecisionOf
  <2> QED
    BY <2>2 DEF Agrees
<1> HIDE DEF new
<1>3. \A i \in DOMAIN new.decisions :
        new.decisions[i].version <= new.version /\ new.decisions[i].version # new.version
  BY <1>0, <1>1, <1>2
<1>4. ASSUME NEW axis \in axes PROVE AxisAgrees(new, steps, k, axis)
  <2>1. ManualOf(new, axis) = {}
    BY <1>3 DEF ManualOf
  <2>2. \A m : ~Standing(new, axis, m)
    BY <2>1 DEF Standing
  <2>3. k \in 1 .. k /\ \A i \in 1 .. k : i = k \/ k > i
    OBVIOUS
  <2>4. \A i : ~Spoken(steps, k, i, axis)
    BY <2>3 DEF Spoken
  <2> QED
    BY <2>2, <2>4 DEF AxisAgrees
<1> QED
  BY <1>1, <1>3, <1>4 DEF Agrees, new

\* What a decision says for the step that brings it.
Says(step, origin, action, chosen, axes, values) ==
  /\ step.axis \in axes /\ origin \in {"manual", "provenance"} /\ action \in {"set", "release"}
  /\ chosen \in SUBSET values /\ step.does # "edit"
  /\ step.does \in {"set", "release"} <=> origin = "manual"
  /\ origin = "manual" => action = step.does
  /\ step.does = "set" => chosen = step.values

LEMMA DecideAgrees ==
  ASSUME NEW axes, NEW values, NEW steps, NEW k \in Nat \ {0}, NEW news,
         Agrees(news, steps, k - 1, axes, values), NEW origin, NEW action, NEW chosen,
         Says(steps[k], origin, action, chosen, axes, values)
  PROVE  Agrees(Decide(news, steps[k].axis, origin, action, chosen), steps, k, axes, values)
<1> DEFINE step == steps[k]
           new == Decide(news, step.axis, origin, action, chosen)
<1>0. news \in HistoryOf(axes, values)
  BY DEF Agrees
<1>1. PICK d : d = [version |-> news.version, axis |-> step.axis, origin |-> origin,
                    action |-> action, values |-> chosen]
  OBVIOUS
<1>2. OneDecision(new, news, step.axis, origin, action, chosen, axes, values)
  BY <1>0, DecideTypes DEF Says
<1> HIDE DEF new
<1>3. /\ new \in HistoryOf(axes, values) /\ new.version = news.version
      /\ new.decisions = Append(news.decisions, d)
  BY <1>1, <1>2 DEF OneDecision
<1>4. /\ d.version = news.version /\ d.axis = step.axis /\ d.origin = origin
      /\ d.action = action /\ d.values = chosen
  BY <1>1
<1>5. /\ step.does # "edit" /\ (step.does \in {"set", "release"} <=> d.origin = "manual")
      /\ (d.origin = "manual" => d.axis = step.axis /\ d.action = step.does)
      /\ (step.does = "set" => d.values = step.values)
  BY <1>4 DEF Says
<1>6. Agrees(new, steps, k, axes, values)
  BY <1>3, <1>4, <1>5, DecisionAgrees
<1> QED
  BY <1>6 DEF new

LEMMA AfterAgrees ==
  ASSUME NEW axes, NEW values, NEW steps, NEW k \in Nat \ {0}, NEW news,
         Agrees(news, steps, k - 1, axes, values), steps[k] \in Steps(axes, values)
  PROVE  Agrees(After(news, steps[k]), steps, k, axes, values)
<1> DEFINE step == steps[k]
           new == After(news, step)
<1>1. CASE step.does = "set"
  <2>1. new = Decide(news, step.axis, "manual", "set", step.values)
    BY <1>1 DEF After, ReplaceAxis
  <2>2. step.axis \in axes /\ step.values \in SUBSET values
    BY <1>1, StepKinds
  <2>3. Says(step, "manual", "set", step.values, axes, values)
    BY <1>1, <2>2 DEF Says
  <2> QED
    BY <2>1, <2>3, DecideAgrees
<1>2. CASE step.does = "release"
  <2>1. new = Decide(news, step.axis, "manual", "release", {})
    BY <1>2 DEF After, ReleaseAxis
  <2>2. step.axis \in axes /\ {} \in SUBSET values
    BY <1>2, StepKinds
  <2>3. Says(step, "manual", "release", {}, axes, values)
    BY <1>2, <2>2 DEF Says
  <2> QED
    BY <2>1, <2>3, DecideAgrees
<1>3. CASE step.does = "copy_set"
  <2>1. new = Decide(news, step.axis, "provenance", "set", {})
    BY <1>3 DEF After, CopyDecision
  <2>2. step.axis \in axes /\ {} \in SUBSET values
    BY <1>3, StepKinds
  <2>3. Says(step, "provenance", "set", {}, axes, values)
    BY <1>3, <2>2 DEF Says
  <2> QED
    BY <2>1, <2>3, DecideAgrees
<1>4. CASE step.does = "copy_release"
  <2>1. new = Decide(news, step.axis, "provenance", "release", {})
    BY <1>4 DEF After, CopyDecision
  <2>2. step.axis \in axes /\ {} \in SUBSET values
    BY <1>4, StepKinds
  <2>3. Says(step, "provenance", "release", {}, axes, values)
    BY <1>4, <2>2 DEF Says
  <2> QED
    BY <2>1, <2>3, DecideAgrees
<1>5. CASE step.does = "edit"
  <2>1. new = NewVersion(news)
    BY <1>5 DEF After
  <2> QED
    BY <1>5, <2>1, EditAgrees
<1> QED
  BY <1>1, <1>2, <1>3, <1>4, <1>5, StepKinds

LEMMA HistoryAgrees ==
  ASSUME NEW axes, NEW values, NEW steps \in Seq(Steps(axes, values))
  PROVE  Agrees(FoldLeft(After, Fresh, steps), steps, Len(steps), axes, values)
<1> DEFINE N == Len(steps)
<1>1. PICK run : HistoryRun(run, steps) /\ FoldLeft(After, Fresh, steps) = run[N]
  BY HistoryRuns
<1> DEFINE Done == {k \in 0 .. N : Agrees(run[k], steps, k, axes, values)}
<1>2. N \in Nat
  OBVIOUS
<1>3. 0 \in Done
  <2>1. Fresh \in HistoryOf(axes, values) /\ Fresh.decisions = <<>> /\ DOMAIN Fresh.decisions = {}
    BY DEF Fresh, HistoryOf
  <2>2. ASSUME NEW axis \in axes PROVE AxisAgrees(Fresh, steps, 0, axis)
    <3>1. ManualOf(Fresh, axis) = {}
      BY <2>1 DEF ManualOf
    <3>2. \A m : ~Standing(Fresh, axis, m)
      BY <3>1 DEF Standing
    <3>3. \A i : ~Spoken(steps, 0, i, axis)
      BY DEF Spoken
    <3> QED
      BY <3>2, <3>3 DEF AxisAgrees
  <2>3. Agrees(Fresh, steps, 0, axes, values)
    BY <2>1, <2>2 DEF Agrees
  <2>4. run[0] = Fresh
    BY <1>1 DEF HistoryRun
  <2> QED
    BY <1>2, <2>3, <2>4
<1>4. ASSUME NEW k \in 1 .. N, k - 1 \in Done PROVE k \in Done
  <2>1. run[k] = After(run[k - 1], steps[k]) /\ steps[k] \in Steps(axes, values)
    BY <1>1 DEF HistoryRun
  <2>2. Agrees(run[k - 1], steps, k - 1, axes, values) /\ k \in Nat \ {0} /\ k \in 0 .. N
    BY <1>4
  <2>3. Agrees(run[k], steps, k, axes, values)
    BY <2>1, <2>2, AfterAgrees
  <2> QED
    BY <2>2, <2>3
<1>5. N \in Done
  <2> HIDE DEF Done
  <2>1. 0 .. N \subseteq Done
    BY <1>2, <1>3, <1>4, UpTo
  <2> QED
    BY <1>2, <2>1
<1>6. Agrees(run[N], steps, N, axes, values)
  BY <1>5
<1> QED
  BY <1>1, <1>6


\* The decisions in force are those that stand on some axis.
LEMMA ActiveStands ==
  ASSUME NEW axes, NEW values, NEW news \in HistoryOf(axes, values), NEW allowed, NEW d
  PROVE  d \in Active(news, allowed)
           <=> \E a \in allowed : \E m : Standing(news, a, m) /\ d = news.decisions[m]
<1>1. \A a, m : m \in ManualOf(news, a) => news.decisions[m].axis = a
  BY DEF ManualOf
<1>2. ASSUME d \in Active(news, allowed)
      PROVE  \E a \in allowed : \E m : Standing(news, a, m) /\ d = news.decisions[m]
  <2>1. PICK j \in UNION {ManualOf(news, a) : a \in allowed} :
          /\ \A k \in ManualOf(news, news.decisions[j].axis) : k <= j
          /\ news.decisions[j].action = "set" /\ d = news.decisions[j]
    BY <1>2 DEF Active
  <2>2. PICK a \in allowed : j \in ManualOf(news, a)
    OBVIOUS
  <2> QED
    BY <1>1, <2>1, <2>2 DEF Standing
<1>3. ASSUME NEW a \in allowed, NEW m, Standing(news, a, m), d = news.decisions[m]
      PROVE  d \in Active(news, allowed)
  <2>1. /\ m \in UNION {ManualOf(news, b) : b \in allowed}
        /\ \A k \in ManualOf(news, news.decisions[m].axis) : k <= m
        /\ news.decisions[m].action = "set"
    BY <1>1, <1>3 DEF Standing
  <2> QED
    BY <1>3, <2>1 DEF Active
<1> QED
  BY <1>2, <1>3

LEMMA OneStands ==
  ASSUME NEW axes, NEW values, NEW news \in HistoryOf(axes, values), NEW a, NEW m, NEW l,
         Standing(news, a, m), Standing(news, a, l)
  PROVE  m = l /\ m \in DOMAIN news.decisions /\ news.decisions[m].axis = a
<1>1. m <= l /\ l <= m
  BY DEF Standing
<1>2. m \in DOMAIN news.decisions /\ l \in DOMAIN news.decisions /\ news.decisions[m].axis = a
  BY DEF Standing, ManualOf
<1>3. DOMAIN news.decisions \in SUBSET Nat
  BY DEF HistoryOf
<1> QED
  BY <1>1, <1>2, <1>3

LEMMA LastIsSpoken ==
  ASSUME NEW S, NEW steps \in Seq(S), NEW i, NEW axis
  PROVE  (i \in DOMAIN steps /\ LastWord(steps, i, axis)) <=> Spoken(steps, Len(steps), i, axis)
BY DEF LastWord, Spoken

\* For any axes, values and length of history, examples show what editors last said
\* of the text as it is: releases, edits and copies leave no earlier word in force.
THEOREM ExamplesAreAlwaysManual ==
  ASSUME NEW axes, NEW values, NEW length \in Nat
  PROVE  ExamplesAreManual(axes, values, length)
<1> SUFFICES ASSUME NEW steps \in SeqOf(Steps(axes, values), length),
                    NEW allowed \in SUBSET axes, NEW enabled \in SUBSET values
             PROVE  LET labels == LatestLabels(FoldLeft(After, Fresh, steps), allowed, enabled)
                        spoken == {a \in allowed : \E i \in DOMAIN steps : LastWord(steps, i, a)}
                    IN  /\ DOMAIN labels = spoken
                        /\ \A a \in spoken, i \in DOMAIN steps :
                             LastWord(steps, i, a) => labels[a] = steps[i].values \cap enabled
  BY Zenon DEF ExamplesAreManual
<1> DEFINE news == FoldLeft(After, Fresh, steps)
           labels == LatestLabels(news, allowed, enabled)
           spoken == {a \in allowed : \E i \in DOMAIN steps : LastWord(steps, i, a)}
<1>1. steps \in Seq(Steps(axes, values))
  <2>1. PICK n \in 0 .. length : steps \in [1 .. n -> Steps(axes, values)]
    BY DEF SeqOf
  <2> QED
    BY <2>1
<1>2. Agrees(news, steps, Len(steps), axes, values)
  BY <1>1, HistoryAgrees
<1>3. news \in HistoryOf(axes, values) /\ \A a \in allowed : AxisAgrees(news, steps, Len(steps), a)
  BY <1>2 DEF Agrees
<1> DEFINE active == Active(news, allowed)
<1>4. \A d : d \in active
        <=> \E a \in allowed : \E m : Standing(news, a, m) /\ d = news.decisions[m]
  BY <1>3, ActiveStands
<1>5. labels = [a \in {d.axis : d \in active} |->
                  (CHOOSE d \in active : d.axis = a).values \cap enabled]
  BY DEF LatestLabels
<1> HIDE DEF active, labels, news
<1>6. \A a, m : Standing(news, a, m) => news.decisions[m].axis = a
  BY <1>3, OneStands
<1>7. \A a \in allowed : a \in spoken <=> \E m : Standing(news, a, m)
  <2> SUFFICES ASSUME NEW a \in allowed PROVE a \in spoken <=> \E m : Standing(news, a, m)
    OBVIOUS
  <2>1. a \in spoken <=> \E i : Spoken(steps, Len(steps), i, a)
    BY <1>1, LastIsSpoken
  <2> QED
    BY <1>3, <2>1 DEF AxisAgrees
<1>8. DOMAIN labels = spoken
  <2>1. DOMAIN labels = {d.axis : d \in active}
    BY <1>5
  <2>2. ASSUME NEW a \in {d.axis : d \in active} PROVE a \in spoken
    <3>1. PICK d \in active : a = d.axis
      OBVIOUS
    <3>2. PICK b \in allowed : \E m : Standing(news, b, m) /\ d = news.decisions[m]
      BY <1>4, <3>1
    <3>3. b = a
      BY <1>6, <3>1, <3>2
    <3> QED
      BY <1>7, <3>2, <3>3
  <2>3. ASSUME NEW a \in spoken PROVE a \in {d.axis : d \in active}
    <3>1. PICK m : Standing(news, a, m)
      BY <1>7
    <3>2. news.decisions[m] \in active
      BY <1>4, <3>1
    <3>3. news.decisions[m].axis = a
      BY <1>6, <3>1
    <3> QED
      BY <3>2, <3>3
  <2> QED
    BY <2>1, <2>2, <2>3
<1>9. ASSUME NEW a \in spoken, NEW i \in DOMAIN steps, LastWord(steps, i, a)
      PROVE  labels[a] = steps[i].values \cap enabled
  <2>1. Spoken(steps, Len(steps), i, a) /\ a \in allowed
    BY <1>1, <1>9, LastIsSpoken
  <2>2. PICK m : Standing(news, a, m) /\ news.decisions[m].values = steps[i].values
    BY <1>3, <2>1 DEF AxisAgrees
  <2>3. news.decisions[m] \in active /\ news.decisions[m].axis = a
    BY <1>4, <1>6, <2>1, <2>2
  <2>4. ASSUME NEW d \in active, d.axis = a PROVE d = news.decisions[m]
    <3>1. PICK b \in allowed : \E l : Standing(news, b, l) /\ d = news.decisions[l]
      BY <1>4
    <3>2. PICK l : Standing(news, b, l) /\ d = news.decisions[l]
      BY <3>1
    <3>3. b = a
      BY <1>6, <2>4, <3>2
    <3>4. l = m
      BY <1>3, <2>2, <3>2, <3>3, OneStands
    <3> QED
      BY <3>2, <3>4
  <2>5. (CHOOSE d \in active : d.axis = a) = news.decisions[m]
    BY <2>3, <2>4
  <2>6. labels[a] = (CHOOSE d \in active : d.axis = a).values \cap enabled
    BY <1>5, <1>8
  <2> QED
    BY <2>2, <2>5, <2>6
<1> QED
  BY <1>8, <1>9 DEF labels, news

\* The places before one, which are counted.
Ahead(places, i) == {j \in places : j < i}

LEMMA AheadCounts ==
  ASSUME NEW n \in Nat, NEW P \in SUBSET (1 .. n)
  PROVE  /\ IsFiniteSet(P) /\ Cardinality(P) \in Nat /\ Cardinality(P) <= n
         /\ \A i : IsFiniteSet(Ahead(P, i)) /\ Cardinality(Ahead(P, i)) \in Nat
<1>1. IsFiniteSet(1 .. n) /\ Cardinality(1 .. n) = n
  BY FS_Interval
<1>2. IsFiniteSet(P) /\ Cardinality(P) <= n
  BY <1>1, FS_Subset
<1>3. \A i : Ahead(P, i) \in SUBSET P
  BY DEF Ahead
<1>4. \A i : IsFiniteSet(Ahead(P, i))
  BY <1>2, <1>3, FS_Subset
<1> QED
  BY <1>2, <1>4, FS_CardinalityType

\* Of what is left when one place is taken out, the first are no more than before.
LEMMA FirstOfLess ==
  ASSUME NEW n \in Nat, NEW P \in SUBSET (1 .. n), NEW limit \in Nat, NEW t \in 1 .. n
  PROVE  Cardinality(FirstOf(P \ {t}, limit)) <= Cardinality(FirstOf(P, limit))
<1> DEFINE Q == P \ {t}
           F == FirstOf(P, limit)
           G == FirstOf(Q, limit)
<1> SUFFICES Cardinality(G) <= Cardinality(F)
  OBVIOUS
<1>0. /\ Q \in SUBSET (1 .. n) /\ Q \in SUBSET P /\ P \in SUBSET Int /\ t \in Int
      /\ \A i : i \in Q <=> i \in P /\ i # t
  OBVIOUS
<1>1. /\ \A i : i \in F <=> i \in P /\ Cardinality(Ahead(P, i)) < limit
      /\ \A i : i \in G <=> i \in Q /\ Cardinality(Ahead(Q, i)) < limit
  BY DEF FirstOf, Ahead
<1>2. F \in SUBSET (1 .. n) /\ G \in SUBSET (1 .. n)
  BY <1>0, <1>1
<1>3. /\ \A i : IsFiniteSet(Ahead(P, i)) /\ Cardinality(Ahead(P, i)) \in Nat
      /\ \A i : IsFiniteSet(Ahead(Q, i)) /\ Cardinality(Ahead(Q, i)) \in Nat
      /\ IsFiniteSet(F) /\ Cardinality(F) \in Nat /\ IsFiniteSet(G) /\ Cardinality(G) \in Nat
  <2> HIDE DEF F, G, Q
  <2> QED
    BY <1>0, <1>2, AheadCounts
<1>4. CASE t \notin P
  <2>1. Q = P
    BY <1>4
  <2> QED
    BY <1>3, <2>1
<1>5. CASE t \in P /\ t \notin F
  <2>1. ~(Cardinality(Ahead(P, t)) < limit)
    BY <1>1, <1>5
  <2>2. ASSUME NEW i \in G PROVE i \in F
    <3>1. i \in Q /\ i \in P /\ i # t /\ i \in Int /\ Cardinality(Ahead(Q, i)) < limit
      BY <1>0, <1>1, <1>2
    <3>2. CASE i < t
      <4>1. Ahead(Q, i) = Ahead(P, i)
        BY <1>0, <3>1, <3>2 DEF Ahead
      <4> QED
        BY <1>1, <3>1, <4>1
    <3>3. CASE t < i
      <4>1. Ahead(P, t) \in SUBSET Ahead(Q, i)
        <5>1. \A j \in P : j < t => j # t /\ j < i
          BY <1>0, <3>1, <3>3
        <5> QED
          BY <1>0, <5>1 DEF Ahead
      <4>2. Cardinality(Ahead(P, t)) <= Cardinality(Ahead(Q, i))
        BY <1>3, <4>1, FS_Subset
      <4>3. FALSE
        <5> HIDE DEF Q
        <5>1. Cardinality(Ahead(P, t)) \in Nat /\ Cardinality(Ahead(Q, i)) \in Nat
          BY <1>3
        <5> QED
          BY <2>1, <3>1, <4>2, <5>1
      <4> QED
        BY <4>3
    <3>4. i < t \/ t < i
      BY <1>0, <3>1
    <3> QED
      BY <3>2, <3>3, <3>4
  <2>3. G \in SUBSET F
    BY <2>2
  <2> HIDE DEF F, G
  <2> QED
    BY <1>3, <2>3, FS_Subset
<1>6. CASE t \in F
  <2> DEFINE D == G \ F
  <2>1. ASSUME NEW i \in D, NEW k \in D, i < k PROVE FALSE
    <3>1. /\ i \in Q /\ i \in P /\ i \in Int /\ k \in Int
          /\ Cardinality(Ahead(Q, k)) < limit /\ ~(Cardinality(Ahead(P, i)) < limit)
      BY <1>0, <1>1, <1>2
    <3>2. Ahead(P, i) \in SUBSET (Ahead(Q, i) \cup {t})
      BY <1>0 DEF Ahead
    <3>3. Ahead(Q, i) \cup {i} \in SUBSET Ahead(Q, k)
      <4>1. \A j \in Q : j < i => j < k
        BY <1>0, <2>1, <3>1
      <4> QED
        BY <2>1, <3>1, <4>1 DEF Ahead
    <3>4. i \notin Ahead(Q, i)
      BY <3>1 DEF Ahead
    <3> HIDE DEF Q, D, F, G
    <3>5. /\ IsFiniteSet(Ahead(Q, i) \cup {t})
          /\ Cardinality(Ahead(Q, i) \cup {t}) <= Cardinality(Ahead(Q, i)) + 1
      <4>1. IsFiniteSet(Ahead(Q, i)) /\ Cardinality(Ahead(Q, i)) \in Nat
        BY <1>3
      <4>2. /\ IsFiniteSet(Ahead(Q, i) \cup {t})
            /\ Cardinality(Ahead(Q, i) \cup {t}) =
                 IF t \in Ahead(Q, i) THEN Cardinality(Ahead(Q, i))
                 ELSE Cardinality(Ahead(Q, i)) + 1
        BY <4>1, FS_AddElement
      <4> QED
        BY <4>1, <4>2
    <3>6. Cardinality(Ahead(Q, i) \cup {i}) = Cardinality(Ahead(Q, i)) + 1
      BY <1>3, <3>4, FS_AddElement
    <3>7. Cardinality(Ahead(P, i)) <= Cardinality(Ahead(Q, i) \cup {t})
      BY <3>2, <3>5, FS_Subset
    <3>8. Cardinality(Ahead(Q, i) \cup {i}) <= Cardinality(Ahead(Q, k))
      BY <1>3, <3>3, FS_Subset
    <3>9. /\ Cardinality(Ahead(P, i)) \in Nat /\ Cardinality(Ahead(Q, i)) \in Nat
          /\ Cardinality(Ahead(Q, k)) \in Nat /\ Cardinality(Ahead(Q, i) \cup {t}) \in Nat
      BY <1>3, <3>5, FS_CardinalityType
    <3> QED
      BY <3>1, <3>5, <3>6, <3>7, <3>8, <3>9
  <2>2. \A i, k \in D : i = k
    <3>1. \A i \in D : i \in Int
      BY <1>2
    <3> HIDE DEF D
    <3>2. \A i, k \in D : ~(i < k)
      BY <2>1
    <3> QED
      BY <3>1, <3>2
  <2>3. t \notin G
    BY <1>0, <1>1
  <2> DEFINE less == F \ {t}
  <2>4. G \in SUBSET (less \cup D)
    BY <2>3
  <2>5. IsFiniteSet(less) /\ Cardinality(less) = Cardinality(F) - 1
    <3> HIDE DEF F
    <3> QED
      BY <1>3, <1>6, FS_RemoveElement
  <2> HIDE DEF less, D, G, F
  <2>6. CASE D = {}
    <3>1. G \in SUBSET less
      BY <2>4, <2>6
    <3>2. Cardinality(G) <= Cardinality(less)
      BY <2>5, <3>1, FS_Subset
    <3> QED
      BY <1>3, <2>5, <3>2
  <2>7. CASE D # {}
    <3>1. PICK d : D = {d}
      BY <2>2, <2>7
    <3>2. IsFiniteSet(less \cup {d}) /\ Cardinality(less) \in Nat
      BY <2>5, FS_AddElement, FS_CardinalityType
    <3>3. Cardinality(less \cup {d}) <= Cardinality(less) + 1
      BY <2>5, <3>2, FS_AddElement
    <3>4. Cardinality(G) <= Cardinality(less \cup {d}) /\ Cardinality(less \cup {d}) \in Nat
      BY <2>4, <3>1, <3>2, FS_Subset, FS_CardinalityType
    <3> QED
      BY <1>3, <2>5, <3>2, <3>3, <3>4
  <2> QED
    BY <2>6, <2>7
<1> QED
  BY <1>4, <1>5, <1>6

\* For any items, settings and axes: neither the news itself nor gold nor what no
\* classifier may judge is shown, and the administrator's count is never too low.
THEOREM ExamplesAreAlwaysAllowed ==
  ASSUME NEW n \in Nat \ {0}, NEW axes, NEW news
  PROVE  ExamplesAreAllowed(n, axes, news)
<1> SUFFICES ASSUME NEW items \in [1 .. n -> Item(news)], NEW target \in 1 .. n,
                    NEW allowed \in SUBSET axes, NEW configured \in 0 .. n + 1,
                    NEW limit, limit = ExampleLimit(configured, 1, n),
                    NEW listed, listed = ListExamples(items, target, axes, allowed, limit)
             PROVE  /\ \A i \in listed :
                         i # target /\ items[i].published /\ ~items[i].gold /\ ~items[i].skip
                    /\ Cardinality(listed) <= EligibleCount(items, axes, limit)
                    /\ EligibleCount(items, axes, limit) <= n
  BY DEF ExamplesAreAllowed
<1> DEFINE all == {i \in DOMAIN items : Eligible(items[i], axes)}
           others == {i \in DOMAIN items \ {target} : Eligible(items[i], axes)}
<1>1. limit \in Nat
  BY DEF ExampleLimit
<1>2. DOMAIN items = 1 .. n
  OBVIOUS
<1>3. all \in SUBSET (1 .. n) /\ others = all \ {target}
  BY <1>2
<1>4. listed \in SUBSET FirstOf(others, limit)
  BY DEF ListExamples
<1>5. \A i \in listed : i # target /\ items[i].published /\ ~items[i].gold /\ ~items[i].skip
  <2>1. \A i \in listed : i \in others
    BY <1>4 DEF FirstOf
  <2> QED
    BY <2>1 DEF Eligible
<1>6. EligibleCount(items, axes, limit) = Cardinality(FirstOf(all, limit))
  BY DEF EligibleCount
<1> HIDE DEF all, others
<1>7. FirstOf(all, limit) \in SUBSET (1 .. n) /\ FirstOf(others, limit) \in SUBSET (1 .. n)
  BY <1>3 DEF FirstOf
<1>8. /\ IsFiniteSet(FirstOf(others, limit)) /\ Cardinality(FirstOf(others, limit)) \in Nat
      /\ Cardinality(FirstOf(all, limit)) \in Nat /\ Cardinality(FirstOf(all, limit)) <= n
  BY <1>7, AheadCounts
<1>9. Cardinality(listed) <= Cardinality(FirstOf(others, limit)) /\ Cardinality(listed) \in Nat
  BY <1>4, <1>8, FS_Subset, FS_CardinalityType
<1>10. Cardinality(FirstOf(others, limit)) <= Cardinality(FirstOf(all, limit))
  BY <1>1, <1>3, FirstOfLess
<1> QED
  BY <1>5, <1>6, <1>8, <1>9, <1>10

\* What the run compares is so.
THEOREM ExamplesAreRightHolds == LabelsSpec => []ExamplesAreRight
<1>1. ExamplesHold
  BY ExamplesAreAlwaysManual, ExamplesAreAlwaysAllowed DEF ExamplesHold
<1>2. ExamplesAreRight
  BY <1>1 DEF ExamplesAreRight
<1> QED
  BY <1>2, PTL

-----------------------------------------------------------------------------
(* The scores of a news *)

RuleOn(marks) ==
  [id : Int, priority : Int, when : SUBSET SUBSET marks, set : [Dimensions -> Int \cup {NoScore}],
   add : [Dimensions -> Nat \cup {NoScore}], stop : BOOLEAN]

\* A finite set of rules, each of them told apart by its id.
RuleSet(rules, marks) ==
  /\ rules \subseteq RuleOn(marks) /\ IsFiniteSet(rules)
  /\ \A r, s \in rules : r.id = s.id => r = s

Earlier(rules) == {p \in rules \X rules : Precedes(p[1], p[2])}

LEMMA PrecedesIsLinear ==
  ASSUME NEW marks, NEW rules, RuleSet(rules, marks)
  PROVE  Linear(Earlier(rules), rules)
<1>1. \A r \in rules : r.id \in Int /\ r.priority \in Int
  BY DEF RuleSet, RuleOn
<1>2. \A r, s \in rules : <<r, s>> \in Earlier(rules) <=> Precedes(r, s)
  BY DEF Earlier
<1>3. \A r \in rules : ~Precedes(r, r)
  BY <1>1 DEF Precedes
<1>4. \A r, s, t \in rules : Precedes(r, s) /\ Precedes(s, t) => Precedes(r, t)
  BY <1>1 DEF Precedes
<1>5. \A r, s \in rules : r = s \/ Precedes(r, s) \/ Precedes(s, r)
  <2>1. ASSUME NEW r \in rules, NEW s \in rules PROVE r = s \/ Precedes(r, s) \/ Precedes(s, r)
    <3>1. r.id = s.id => r = s
      BY DEF RuleSet
    <3> QED
      BY <1>1, <3>1 DEF Precedes
  <2> QED
    BY <2>1
<1> QED
  BY <1>2, <1>3, <1>4, <1>5 DEF Linear

\* Rules are taken up once each, in the order of their priority and id.
TakenUp(order, rules) ==
  /\ order \in [1 .. Cardinality(rules) -> rules]
  /\ \A r \in rules : \E k \in 1 .. Cardinality(rules) : order[k] = r
  /\ \A i, j \in 1 .. Cardinality(rules) : Precedes(order[i], order[j]) <=> i < j

LEMMA OrderedIsTakenUp ==
  ASSUME NEW marks, NEW rules, RuleSet(Range(rules), marks)
  PROVE  TakenUp(Ordered(rules), Range(rules))
<1> DEFINE listed == Range(rules)
           before == Earlier(listed)
           N == Cardinality(listed)
<1>1. \A r, s \in listed : <<r, s>> \in before <=> Precedes(r, s)
  BY DEF Earlier
<1> HIDE DEF before, listed
<1>2. \A r \in listed : Below(r, before, listed) = {s \in listed : Precedes(s, r)}
  BY <1>1 DEF Below
<1>3. \A k \in 1 .. N : (CHOOSE r \in listed : Cardinality(Below(r, before, listed)) = k - 1)
                      = (CHOOSE r \in listed : Cardinality({s \in listed : Precedes(s, r)}) = k - 1)
  <2>1. ASSUME NEW k \in 1 .. N
        PROVE  (CHOOSE r \in listed : Cardinality(Below(r, before, listed)) = k - 1)
             = (CHOOSE r \in listed : Cardinality({s \in listed : Precedes(s, r)}) = k - 1)
    <3>1. \A r : r \in listed /\ Cardinality(Below(r, before, listed)) = k - 1
             <=> r \in listed /\ Cardinality({s \in listed : Precedes(s, r)}) = k - 1
      BY <1>2
    <3> QED
      BY <3>1, Zenon
  <2> QED
    BY <2>1
<1>4. Ordered(rules) = Sorted(before, listed)
  BY <1>3 DEF Ordered, Sorted, listed
<1>5. Lists(Sorted(before, listed), before, listed)
  BY PrecedesIsLinear, SortedLists DEF RuleSet, before, listed
<1> QED
  BY <1>1, <1>4, <1>5 DEF Lists, TakenUp, listed

LEMMA ScoreIs ==
  ASSUME ScoringAssumption, NEW v \in Int
  PROVE  Score(v) \in 0 .. Top /\ (v \in 0 .. Top => Score(v) = v)
BY DEF ScoringAssumption, Score

\* What is cut off at the top before an addition would be cut off after it.
LEMMA ScoreOnce ==
  ASSUME ScoringAssumption, NEW x \in Nat, NEW a \in Nat
  PROVE  Score(Score(x) + a) = Score(x + a)
<1>1. Top \in Nat
  BY DEF ScoringAssumption
<1>2. CASE x <= Top
  <2>1. Score(x) = x
    BY <1>1, <1>2 DEF Score
  <2> QED
    BY <2>1
<1>3. CASE x > Top
  <2>1. Score(x) = Top /\ Score(x + a) = Top
    BY <1>1, <1>3 DEF Score
  <2>2. Score(Top + a) = Top
    BY <1>1 DEF Score
  <2> QED
    BY <2>1, <2>2
<1> QED
  BY <1>1, <1>2, <1>3

\* Some rules, all of which come before another.
Before(heard, r, marks) ==
  /\ heard \subseteq RuleOn(marks) /\ IsFiniteSet(heard) /\ r \in RuleOn(marks) /\ r \notin heard
  /\ \A s \in heard : Precedes(s, r) /\ ~Precedes(r, s)

LEMMA AssignedIsScore ==
  ASSUME ScoringAssumption, NEW marks, NEW heard \in SUBSET RuleOn(marks), NEW d \in Dimensions
  PROVE  Assigned(heard, d) \in 0 .. Top
<1>1. CASE Deciding(heard, d) = {}
  BY <1>1 DEF Assigned, ScoringAssumption
<1>2. CASE Deciding(heard, d) # {}
  <2>1. PICK r : r = CHOOSE s \in Deciding(heard, d) : TRUE
    OBVIOUS
  <2>2. r \in Deciding(heard, d)
    BY <1>2, <2>1
  <2>3. r \in RuleOn(marks) /\ r.set[d] # NoScore
    BY <2>2 DEF Deciding
  <2>4. r.set[d] \in Int
    BY <2>3 DEF RuleOn
  <2>5. Assigned(heard, d) = Score(r.set[d])
    BY <1>2, <2>1 DEF Assigned
  <2> QED
    BY <2>4, <2>5, ScoreIs
<1> QED
  BY <1>1, <1>2

LEMMA AddsAreFinite ==
  ASSUME NEW marks, NEW heard \in SUBSET RuleOn(marks), IsFiniteSet(heard), NEW d \in Dimensions
  PROVE  /\ IsFiniteSet(AddsSince(heard, d))
         /\ \A r \in AddsSince(heard, d) : r.add[d] \in Nat
<1>1. AddsSince(heard, d) \in SUBSET heard
  BY DEF AddsSince
<1>2. \A r \in heard : r.add[d] \in Nat \cup {NoScore}
  BY DEF RuleOn
<1> QED
  BY <1>1, <1>2, FS_Subset DEF AddsSince

LEMMA AddedIsNat ==
  ASSUME NEW marks, NEW heard \in SUBSET RuleOn(marks), IsFiniteSet(heard), NEW d \in Dimensions
  PROVE  Added(heard, d) \in Nat
<1> DEFINE since == AddsSince(heard, d)
           w == [r \in since |-> r.add[d]]
<1>1. IsFiniteSet(since) /\ \A r \in since : w[r] \in Nat
  BY AddsAreFinite
<1> HIDE DEF since, w
<1>2. SumFunctionOnSet(w, since) \in Nat
  BY <1>1, SumIsNat
<1> QED
  BY <1>2 DEF Added, since, w

\* The last rule assigns: nothing before it counts.
LEMMA DecidingNow ==
  ASSUME NEW marks, NEW heard, NEW r, Before(heard, r, marks), NEW d \in Dimensions, r.set[d] # NoScore
  PROVE  /\ Deciding(heard \cup {r}, d) = {r}
         /\ r.add[d] = NoScore => AddsSince(heard \cup {r}, d) = {}
         /\ r.add[d] # NoScore => AddsSince(heard \cup {r}, d) = {r}
<1>1. Deciding(heard \cup {r}, d) = {r}
  BY DEF Deciding, Before
<1>2. \A s \in heard \cup {r} : (r = s \/ Precedes(r, s)) <=> s = r
  BY DEF Before
<1> HIDE DEF Deciding
<1> QED
  BY <1>1, <1>2 DEF AddsSince

\* It does not: what decided still does.
LEMMA DecidingStill ==
  ASSUME NEW marks, NEW heard, NEW r, Before(heard, r, marks), NEW d \in Dimensions, r.set[d] = NoScore
  PROVE  /\ Deciding(heard \cup {r}, d) = Deciding(heard, d)
         /\ r.add[d] = NoScore => AddsSince(heard \cup {r}, d) = AddsSince(heard, d)
         /\ r.add[d] # NoScore => AddsSince(heard \cup {r}, d) = AddsSince(heard, d) \cup {r}
<1>1. Deciding(heard \cup {r}, d) = Deciding(heard, d)
  BY DEF Deciding
<1>2. \A s \in Deciding(heard, d) : Precedes(s, r)
  BY DEF Deciding, Before
<1> QED
  BY <1>1, <1>2 DEF AddsSince

\* One more rule, behind the others, does to what they give what Applied says.
LEMMA OneMore ==
  ASSUME ScoringAssumption, NEW marks, NEW heard, NEW r, Before(heard, r, marks), NEW d \in Dimensions,
         NEW scores, scores[d] = Deserved(heard, d)
  PROVE  Applied(r, scores)[d] = Deserved(heard \cup {r}, d)
<1> DEFINE more == heard \cup {r}
           x == Assigned(heard, d)
           a == Added(heard, d)
<1>1. /\ heard \in SUBSET RuleOn(marks) /\ IsFiniteSet(heard) /\ more \in SUBSET RuleOn(marks)
      /\ IsFiniteSet(more) /\ r \in RuleOn(marks)
  BY FS_AddElement DEF Before
<1>2. x \in 0 .. Top /\ a \in Nat /\ Top \in Nat
  BY <1>1, AssignedIsScore, AddedIsNat DEF ScoringAssumption
<1>3. r.set[d] \in Int \cup {NoScore} /\ r.add[d] \in Nat \cup {NoScore}
  BY <1>1 DEF RuleOn
<1> DEFINE given == IF r.set[d] = NoScore THEN scores[d] ELSE Score(r.set[d])
<1>4. Applied(r, scores)[d] = IF r.add[d] = NoScore THEN given ELSE Score(given + r.add[d])
  BY DEF Applied
<1>5. CASE r.set[d] # NoScore
  <2>0. /\ Deciding(more, d) = {r}
        /\ r.add[d] = NoScore => AddsSince(more, d) = {}
        /\ r.add[d] # NoScore => AddsSince(more, d) = {r}
    BY <1>5, DecidingNow
  <2>1. Assigned(more, d) = Score(r.set[d])
    <3>1. (CHOOSE s \in {r} : TRUE) = r /\ {r} # {}
      OBVIOUS
    <3> HIDE DEF more
    <3> QED
      BY <2>0, <3>1 DEF Assigned
  <2>2. given = Assigned(more, d)
    BY <1>5, <2>1
  <2>3. Assigned(more, d) \in 0 .. Top
    BY <1>1, AssignedIsScore
  <2>4. CASE r.add[d] = NoScore
    <3>1. Added(more, d) = 0
      <4>1. AddsSince(more, d) = {}
        BY <2>0, <2>4
      <4> QED
        BY <4>1, SumEmpty DEF Added
    <3>2. Deserved(more, d) = Assigned(more, d)
      BY <1>2, <2>3, <3>1, ScoreIs DEF Deserved
    <3> QED
      BY <1>4, <2>2, <2>4, <3>2
  <2>5. CASE r.add[d] # NoScore
    <3>1. Added(more, d) = r.add[d]
      <4>1. AddsSince(more, d) = {r}
        BY <2>0, <2>5
      <4> DEFINE w == [s \in {r} |-> s.add[d]]
      <4>2. w[r] = r.add[d] /\ r.add[d] \in Nat
        BY <1>3, <2>5
      <4> HIDE DEF w
      <4>3. Summable({} \cup {r}, w) /\ r \notin {}
        <5>1. IsFiniteSet({r})
          BY FS_Singleton
        <5> QED
          BY <4>2, <5>1 DEF Summable
      <4>4. SumFunctionOnSet(w, {} \cup {r}) = w[r] + SumFunctionOnSet(w, {})
        BY <4>3, SumMore
      <4>5. {} \cup {r} = {r} /\ SumFunctionOnSet(w, {}) = 0
        BY SumEmpty
      <4>6. SumFunctionOnSet(w, {r}) = r.add[d]
        BY <4>2, <4>4, <4>5
      <4> QED
        BY <4>1, <4>6 DEF Added, w
    <3> QED
      BY <1>4, <2>2, <2>5, <3>1 DEF Deserved
  <2> QED
    BY <2>4, <2>5
<1>6. CASE r.set[d] = NoScore
  <2>0. /\ Deciding(more, d) = Deciding(heard, d)
        /\ r.add[d] = NoScore => AddsSince(more, d) = AddsSince(heard, d)
        /\ r.add[d] # NoScore => AddsSince(more, d) = AddsSince(heard, d) \cup {r}
    BY <1>6, DecidingStill
  <2>1. Assigned(more, d) = x
    <3> HIDE DEF more, x
    <3>1. ASSUME NEW h
          PROVE  Assigned(h, d) = IF Deciding(h, d) = {} THEN 0
                                  ELSE Score(OneOf(Deciding(h, d)).set[d])
      BY DEF Assigned, OneOf
    <3>2. Assigned(more, d) = Assigned(heard, d)
      BY <2>0, <3>1
    <3> QED
      BY <3>2 DEF x
  <2>2. given = Score(x + a)
    BY <1>6 DEF Deserved
  <2>3. CASE r.add[d] = NoScore
    <3>1. AddsSince(more, d) = AddsSince(heard, d)
      BY <2>0, <2>3
    <3>2. Added(more, d) = a
      BY <3>1 DEF Added
    <3> QED
      BY <1>4, <2>1, <2>2, <2>3, <3>2 DEF Deserved
  <2>4. CASE r.add[d] # NoScore
    <3>1. Added(more, d) = r.add[d] + a
      <4> DEFINE since == AddsSince(heard, d)
                 v == [s \in since |-> s.add[d]]
                 w == [s \in since \cup {r} |-> s.add[d]]
      <4>1. AddsSince(more, d) = since \cup {r}
        BY <2>0, <2>4
      <4>2. since \in SUBSET heard
        BY DEF AddsSince
      <4>3. IsFiniteSet(since) /\ \A s \in since : s.add[d] \in Nat
        BY <1>1, AddsAreFinite
      <4> HIDE DEF since
      <4>4. r \notin since /\ r.add[d] \in Nat
        BY <1>3, <2>4, <4>2 DEF Before
      <4>5. IsFiniteSet(since \cup {r})
        BY <4>3, FS_AddElement
      <4>6. /\ \A s \in since : v[s] = w[s] /\ v[s] \in Int
            /\ \A s \in since \cup {r} : w[s] \in Int
            /\ w[r] = r.add[d]
        BY <4>3, <4>4
      <4>7. Added(more, d) = SumFunctionOnSet(w, since \cup {r})
        BY <4>1 DEF Added
      <4>8. a = SumFunctionOnSet(v, since)
        BY DEF Added, since
      <4> HIDE DEF v, w, a, more
      <4>9. Summable(since, v) /\ Summable(since \cup {r}, w)
        BY <4>3, <4>5, <4>6 DEF Summable
      <4>10. SumFunctionOnSet(w, since \cup {r}) = w[r] + SumFunctionOnSet(w, since)
        BY <4>4, <4>9, SumMore
      <4>11. SumFunctionOnSet(v, since) = SumFunctionOnSet(w, since)
        BY <4>6, <4>9, SumSame
      <4> QED
        BY <4>6, <4>7, <4>8, <4>10, <4>11
    <3>2. x + a \in Nat /\ r.add[d] \in Nat
      BY <1>2, <1>3, <2>4
    <3>3. Score(Score(x + a) + r.add[d]) = Score((x + a) + r.add[d])
      BY <3>2, ScoreOnce
    <3>4. (x + a) + r.add[d] = x + (r.add[d] + a)
      BY <1>2, <3>2
    <3> HIDE DEF x, a
    <3> QED
      BY <1>4, <2>1, <2>2, <2>4, <3>1, <3>3, <3>4 DEF Deserved
  <2> QED
    BY <2>3, <2>4
<1> QED
  BY <1>5, <1>6

\* The evaluation of a list of rules: one after the other.
Considers(it, labels, order) ==
  it = [s \in SUBSET (DOMAIN order) |->
          IF s = {} THEN Unscored ELSE Consider(labels, it[s \ {Max(s)}], order[Max(s)])]

ScoresRun(run, labels, order, n) ==
  /\ run[0] = Unscored
  /\ \A k \in 1 .. n : run[k] = Consider(labels, run[k - 1], order[k])

ScoreState == [scores : [Dimensions -> Int], stopped : BOOLEAN]

LEMMA ConsiderTypes ==
  ASSUME ScoringAssumption, NEW marks, NEW labels, NEW state \in ScoreState, NEW r \in RuleOn(marks)
  PROVE  Consider(labels, state, r) \in ScoreState
<1>1. r.stop \in BOOLEAN /\ state.scores \in [Dimensions -> Int]
  BY DEF RuleOn, ScoreState
<1>2. ASSUME NEW d \in Dimensions PROVE Applied(r, state.scores)[d] \in Int
  <2>1. r.set[d] \in Int \cup {NoScore} /\ r.add[d] \in Nat \cup {NoScore} /\ state.scores[d] \in Int
    BY <1>1 DEF RuleOn
  <2> DEFINE given == IF r.set[d] = NoScore THEN state.scores[d] ELSE Score(r.set[d])
  <2>2. given \in Int
    BY <2>1, ScoreIs DEF ScoringAssumption
  <2>3. Applied(r, state.scores)[d] = IF r.add[d] = NoScore THEN given ELSE Score(given + r.add[d])
    BY DEF Applied
  <2> HIDE DEF given
  <2>4. r.add[d] # NoScore => Score(given + r.add[d]) \in Int
    <3>1. r.add[d] # NoScore => given + r.add[d] \in Int
      BY <2>1, <2>2
    <3> QED
      BY <3>1, ScoreIs DEF ScoringAssumption
  <2> QED
    BY <2>2, <2>3, <2>4
<1>3. Applied(r, state.scores) \in [Dimensions -> Int]
  <2>1. Applied(r, state.scores) = [d \in Dimensions |-> Applied(r, state.scores)[d]]
    BY DEF Applied
  <2> QED
    BY <1>2, <2>1
<1> QED
  BY <1>1, <1>3 DEF Consider, ScoreState

LEMMA EvaluationRuns ==
  ASSUME ScoringAssumption, NEW marks, NEW labels, NEW rules, NEW N \in Nat,
         Ordered(rules) \in [1 .. N -> RuleOn(marks)]
  PROVE  \E run :
           ScoresRun(run, labels, Ordered(rules), N) /\ Evaluate(labels, rules) = run[N].scores
<1> DEFINE order == Ordered(rules)
           S == ScoreState
           it == CHOOSE i : Considers(i, labels, order)
<1>0. DOMAIN order = 1 .. N /\ order \in [1 .. N -> RuleOn(marks)]
  OBVIOUS
<1>1. Evaluate(labels, rules) = it[DOMAIN order].scores
  BY DEF Evaluate, FoldLeft, MapThenFoldSet, Considers
<1> HIDE DEF order
<1>2. \E i : Considers(i, labels, order)
  <2>1. PICK step : step = [k \in 1 .. N |-> [state \in S |-> Consider(labels, state, order[k])]]
    OBVIOUS
  <2>2. Unscored \in S
    BY DEF Unscored, ScoreState
  <2> HIDE DEF S
  <2>3. Stepwise(step, N, S)
    <3>1. \A k \in 1 .. N : order[k] \in RuleOn(marks)
      BY <1>0
    <3>2. ASSUME NEW k \in 1 .. N
          PROVE  [state \in S |-> Consider(labels, state, order[k])] \in [S -> S]
      BY <3>1, ConsiderTypes DEF S
    <3> QED
      BY <2>1, <3>2 DEF Stepwise
  <2>4. PICK i : Iterates(i, N, S, Unscored, step)
    BY <2>2, <2>3, Folding
  <2>5. ASSUME NEW s \in SUBSET (1 .. N)
        PROVE  i[s] = IF s = {} THEN Unscored ELSE Consider(labels, i[s \ {Max(s)}], order[Max(s)])
    <3>1. s \ {Max(s)} \in SUBSET (1 .. N)
      OBVIOUS
    <3>2. i[s \ {Max(s)}] \in S
      BY <2>4, <3>1 DEF Iterates
    <3>3. s # {} => Max(s) \in 1 .. N
      BY MaxIn
    <3>4. i[s] = IF s = {} THEN Unscored ELSE step[Max(s)][i[s \ {Max(s)}]]
      BY <2>4 DEF Iterates
    <3> QED
      BY <2>1, <3>2, <3>3, <3>4
  <2>6. i = [s \in SUBSET (1 .. N) |-> i[s]]
    BY <2>4 DEF Iterates
  <2> QED
    BY <1>0, <2>5, <2>6 DEF Considers
<1>3. Considers(it, labels, order)
  BY <1>2, Zenon
<1> HIDE DEF it
<1>4. \A s \in SUBSET (1 .. N) :
        it[s] = IF s = {} THEN Unscored ELSE Consider(labels, it[s \ {Max(s)}], order[Max(s)])
  BY <1>0, <1>3 DEF Considers
<1> DEFINE run == [k \in 0 .. N |-> it[1 .. k]]
<1>5. run[0] = Unscored
  <2>1. 0 \in 0 .. N /\ 1 .. 0 = {}
    OBVIOUS
  <2> QED
    BY <1>4, <2>1
<1>6. ASSUME NEW k \in 1 .. N PROVE run[k] = Consider(labels, run[k - 1], order[k])
  <2>1. k \in 0 .. N /\ k - 1 \in 0 .. N /\ k \in Nat \ {0} /\ k \in 1 .. k
    OBVIOUS
  <2>2. PICK upto : upto = 1 .. k
    OBVIOUS
  <2>3. upto \in SUBSET (1 .. N) /\ upto # {}
    <3>1. \A i \in 1 .. k : i \in 1 .. N
      OBVIOUS
    <3> QED
      BY <2>1, <2>2, <3>1
  <2>4. upto \ {k} = 1 .. (k - 1)
    BY <2>1, <2>2
  <2>5. Max(upto) = k
    BY <2>1, <2>2, MaxIs
  <2>6. it[upto] = Consider(labels, it[1 .. (k - 1)], order[k])
    BY <1>4, <2>3, <2>4, <2>5
  <2> QED
    BY <2>1, <2>2, <2>6
<1>7. run[N] = it[1 .. N]
  OBVIOUS
<1>8. ScoresRun(run, labels, order, N)
  <2> HIDE DEF run
  <2> QED
    BY <1>5, <1>6 DEF ScoresRun
<1> QED
  BY <1>0, <1>1, <1>7, <1>8 DEF order

\* A state of the evaluation is what the rules so far come to.
Judged(state, labels, rules) ==
  /\ state.stopped <=> \E s \in rules : Matches(labels, s.when) /\ s.stop
  /\ \A d \in Dimensions : state.scores[d] = Deserved(Heard(labels, rules), d)

LEMMA NothingHeard ==
  ASSUME ScoringAssumption, NEW labels
  PROVE  Judged(Unscored, labels, {})
<1>1. Heard(labels, {}) = {}
  BY DEF Heard
<1>2. ASSUME NEW d \in Dimensions PROVE Deserved({}, d) = 0
  <2>1. Deciding({}, d) = {} /\ AddsSince({}, d) = {}
    BY DEF Deciding, AddsSince
  <2>2. Assigned({}, d) = 0 /\ Added({}, d) = 0
    BY <2>1, SumEmpty DEF Assigned, Added
  <2> QED
    BY <2>2, ScoreIs DEF Deserved, ScoringAssumption
<1> QED
  BY <1>1, <1>2 DEF Judged, Unscored

LEMMA NextHeard ==
  ASSUME ScoringAssumption, NEW marks, NEW labels, NEW rules, NEW r, Before(rules, r, marks),
         NEW state \in ScoreState, Judged(state, labels, rules)
  PROVE  Judged(Consider(labels, state, r), labels, rules \cup {r})
<1> DEFINE heard == Heard(labels, rules)
           more == rules \cup {r}
<1>1. state.stopped \in BOOLEAN /\ r.stop \in BOOLEAN
  BY DEF ScoreState, Before, RuleOn
<1>2. \A s \in rules : Precedes(s, r) /\ ~Precedes(r, s)
  BY DEF Before
<1>3. ~Precedes(r, r)
  BY DEF Before, RuleOn, Precedes
<1>4. CASE state.stopped \/ ~Matches(labels, r.when)
  <2>1. Consider(labels, state, r) = state
    BY <1>4 DEF Consider
  <2>2. Heard(labels, more) = heard
    <3>1. r \notin Heard(labels, more)
      BY <1>2, <1>4 DEF Heard, Judged
    <3>2. \A s \in rules : s \in Heard(labels, more) <=> s \in heard
      BY <1>2 DEF Heard
    <3>3. Heard(labels, more) \subseteq more /\ heard \subseteq rules
      BY DEF Heard
    <3> QED
      BY <3>1, <3>2, <3>3
  <2>3. state.stopped <=> \E s \in more : Matches(labels, s.when) /\ s.stop
    BY <1>1, <1>4 DEF Judged
  <2> QED
    BY <2>1, <2>2, <2>3 DEF Judged
<1>5. CASE ~state.stopped /\ Matches(labels, r.when)
  <2>1. Consider(labels, state, r) = [scores |-> Applied(r, state.scores), stopped |-> r.stop]
    BY <1>5 DEF Consider
  <2>2. Heard(labels, more) = heard \cup {r}
    <3>1. r \in Heard(labels, more)
      BY <1>1, <1>3, <1>5 DEF Heard, Judged
    <3>2. \A s \in rules : s \in Heard(labels, more) <=> s \in heard
      BY <1>2 DEF Heard
    <3>3. Heard(labels, more) \subseteq more /\ heard \subseteq rules
      BY DEF Heard
    <3> QED
      BY <3>1, <3>2, <3>3
  <2>3. Before(heard, r, marks)
    <3>1. heard \in SUBSET rules
      BY DEF Heard
    <3> QED
      BY <3>1, FS_Subset DEF Before
  <2>4. r.stop <=> \E s \in more : Matches(labels, s.when) /\ s.stop
    BY <1>1, <1>5 DEF Judged
  <2>5. \A d \in Dimensions : Applied(r, state.scores)[d] = Deserved(heard \cup {r}, d)
    <3> HIDE DEF heard
    <3>1. \A d \in Dimensions : state.scores[d] = Deserved(heard, d)
      BY DEF Judged, heard
    <3> QED
      BY <2>3, <3>1, OneMore
  <2>6. PICK new : new = Consider(labels, state, r)
    OBVIOUS
  <2>7. new.stopped = r.stop /\ new.scores = Applied(r, state.scores)
    BY <2>1, <2>6
  <2> HIDE DEF heard, more
  <2>8. Judged(new, labels, more)
    BY <2>2, <2>4, <2>5, <2>7 DEF Judged
  <2> QED
    BY <2>6, <2>8 DEF more
<1> QED
  BY <1>1, <1>4, <1>5

\* Whatever the rules and the labels, the evaluation in the order of priority and id
\* gives each dimension what the rules that have a say come to (use_cases/scoring.py).
THEOREM ScoresAreDeserved ==
  ASSUME ScoringAssumption, NEW marks, NEW labels, NEW rules, RuleSet(Range(rules), marks),
         NEW d \in Dimensions
  PROVE  Evaluate(labels, rules)[d] = Expected(labels, rules, d)
<1> DEFINE listed == Range(rules)
           N == Cardinality(listed)
           order == Ordered(rules)
           upto(k) == {order[i] : i \in 1 .. k}
<1>1. N \in Nat
  BY FS_CardinalityType DEF RuleSet
<1>2. /\ order \in [1 .. N -> listed]
      /\ \A r \in listed : \E k \in 1 .. N : order[k] = r
      /\ \A i, j \in 1 .. N : Precedes(order[i], order[j]) <=> i < j
  BY OrderedIsTakenUp DEF TakenUp
<1>3. listed \subseteq RuleOn(marks) /\ IsFiniteSet(listed)
  BY DEF RuleSet
<1> HIDE DEF N, order, listed
<1>4. order \in [1 .. N -> RuleOn(marks)]
  BY <1>2, <1>3
<1>5. PICK run : ScoresRun(run, labels, order, N) /\ Evaluate(labels, rules) = run[N].scores
  BY <1>1, <1>4, EvaluationRuns DEF order
<1> DEFINE Good == {k \in 0 .. N : run[k] \in ScoreState /\ Judged(run[k], labels, upto(k))}
<1>6. 0 \in Good
  <2>1. upto(0) = {} /\ 0 \in 0 .. N
    BY <1>1
  <2>2. Unscored \in ScoreState
    BY DEF Unscored, ScoreState
  <2> HIDE DEF upto
  <2> QED
    BY <1>5, <2>1, <2>2, NothingHeard DEF ScoresRun
<1>7. ASSUME NEW k \in 1 .. N, k - 1 \in Good PROVE k \in Good
  <2>1. /\ k \in 0 .. N /\ k - 1 \in 0 .. N /\ k \in Nat
        /\ \A i \in 1 .. (k - 1) : i \in 1 .. N /\ i < k
    BY <1>1
  <2>2. run[k] = Consider(labels, run[k - 1], order[k])
    BY <1>5 DEF ScoresRun
  <2>3. upto(k) = upto(k - 1) \cup {order[k]}
    <3>1. 1 .. k = (1 .. (k - 1)) \cup {k}
      BY <2>1
    <3> QED
      BY <3>1
  <2>4. Before(upto(k - 1), order[k], marks)
    <3>1. upto(k - 1) \in SUBSET listed /\ order[k] \in listed
      BY <1>2, <2>1
    <3>2. \A s \in upto(k - 1) : Precedes(s, order[k]) /\ ~Precedes(order[k], s)
      <4>1. ASSUME NEW i \in 1 .. (k - 1)
            PROVE  Precedes(order[i], order[k]) /\ ~Precedes(order[k], order[i])
        <5>1. i \in 1 .. N /\ i < k /\ ~(k < i)
          BY <2>1
        <5> QED
          BY <1>2, <5>1
      <4> QED
        BY <4>1
    <3>3. ~Precedes(order[k], order[k])
      BY <1>2, <2>1
    <3> HIDE DEF upto
    <3>4. order[k] \notin upto(k - 1)
      BY <3>2, <3>3
    <3>5. IsFiniteSet(upto(k - 1))
      BY <1>3, <3>1, FS_Subset
    <3> QED
      BY <1>3, <3>1, <3>2, <3>4, <3>5 DEF Before
  <2> HIDE DEF upto
  <2>5. run[k - 1] \in ScoreState /\ Judged(run[k - 1], labels, upto(k - 1))
    BY <1>7
  <2>6. run[k] \in ScoreState
    BY <1>4, <2>2, <2>5, ConsiderTypes
  <2>7. Judged(run[k], labels, upto(k))
    BY <2>2, <2>3, <2>4, <2>5, NextHeard
  <2> QED
    BY <2>1, <2>6, <2>7
<1>8. N \in Good
  <2> HIDE DEF Good
  <2>1. 0 .. N \subseteq Good
    BY <1>1, <1>6, <1>7, UpTo
  <2> QED
    BY <1>1, <2>1
<1>9. upto(N) = listed
  BY <1>2
<1> HIDE DEF upto
<1>10. Judged(run[N], labels, listed)
  BY <1>8, <1>9
<1> QED
  BY <1>5, <1>10 DEF Judged, Expected, listed

ListsThree(rules, r, s, t) == rules \in {<<r, s, t>>, <<r, t, s>>, <<t, s, r>>}

LEMMA ThreeRules ==
  ASSUME NEW r \in MCRules(1), NEW s \in MCRules(2), NEW t \in MCRules(3),
         NEW rules, ListsThree(rules, r, s, t)
  PROVE  Range(rules) = {r, s, t} /\ RuleSet({r, s, t}, {1, 2, 3})
<1>1. ASSUME NEW id \in {1, 2, 3}, NEW q \in MCRules(id) PROVE q.id = id /\ q \in RuleOn({1, 2, 3})
  BY DEF MCRules, MCRule, RuleOn
<1>2. r.id = 1 /\ s.id = 2 /\ t.id = 3 /\ {r, s, t} \subseteq RuleOn({1, 2, 3})
  BY <1>1
<1>3. IsFiniteSet({r, s, t})
  <2>1. IsFiniteSet({r})
    BY FS_Singleton
  <2>2. IsFiniteSet({r} \cup {s})
    BY <2>1, FS_AddElement
  <2>3. IsFiniteSet(({r} \cup {s}) \cup {t})
    BY <2>2, FS_AddElement
  <2>4. ({r} \cup {s}) \cup {t} = {r, s, t}
    OBVIOUS
  <2> QED
    BY <2>3, <2>4
<1>4. Range(rules) = {r, s, t}
  BY DEF Range, ListsThree
<1> QED
  BY <1>2, <1>3, <1>4 DEF RuleSet

\* The scores of a news are those its labels deserve, however the rules were listed.
THEOREM ScoresAgreeHolds == LabelsSpec => []ScoresAgree
<1>1. RulesMeanTheirSum
  <2>1. ASSUME NEW r \in MCRules(1), NEW s \in MCRules(2), NEW t \in MCRules(3), NEW labels,
               NEW d \in Dimensions, NEW rules \in {<<r, t, s>>, <<t, s, r>>}
        PROVE  Evaluate(labels, rules)[d] = Expected(labels, <<r, s, t>>, d)
    <3>0. ListsThree(rules, r, s, t) /\ ListsThree(<<r, s, t>>, r, s, t)
      BY DEF ListsThree
    <3>1. Range(rules) = {r, s, t} /\ RuleSet({r, s, t}, {1, 2, 3})
      BY <3>0, ThreeRules
    <3>2. Range(<<r, s, t>>) = {r, s, t}
      BY <3>0, ThreeRules
    <3>3. Evaluate(labels, rules)[d] = Expected(labels, rules, d)
      BY <3>1, ScoresAreDeserved, ScoringAssumption
    <3> QED
      BY <3>1, <3>2, <3>3 DEF Expected
  <2> QED
    BY <2>1 DEF RulesMeanTheirSum
<1>2. ScoresAgree
  BY <1>1 DEF ScoresAgree
<1> QED
  BY <1>2, PTL
=============================================================================
