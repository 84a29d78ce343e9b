---------------------------- MODULE LoginThrottle ----------------------------
(***************************************************************************)
(* Logins, by cookie or for a token (auth.py): their durable rate limit     *)
(* (AuthAccountRepository) and the bounded verification of passwords        *)
(* (AuthService.verify_password_bounded).                                   *)
(*                                                                          *)
(* One account is tried from several addresses by requests that wait, hash  *)
(* and commit in any order while time passes.  `failures` holds the rows of *)
(* auth_rate_limits: one for the account and one for each address.  A user  *)
(* that is unknown or inactive is a wrong password; what a login creates (a *)
(* session or a JWT) limits nothing and is left out.                        *)
(***************************************************************************)
EXTENDS Integers, FiniteSets

CONSTANTS
  Clients,    \* requests under way
  Addresses,
  Limit,      \* auth_login_attempt_limit
  Window,     \* auth_login_window_seconds
  Base, MaxCooldown,
  Slots, Queue, \* auth_password_verify_concurrency, .._queue_size
  MaxTime,    \* bounds the clock
  MaxDelay,   \* bounds the time a request takes
  MaxAborts,  \* bounds the requests that are cancelled
  Account, Nothing

ASSUME LoginThrottleAssumption ==
  /\ IsFiniteSet(Clients) /\ Addresses # {} /\ Account \notin Addresses
  /\ Limit \in Nat \ {0} /\ Window \in Nat \ {0} /\ Slots \in Nat \ {0}
  /\ {Base, MaxCooldown, Queue, MaxTime, MaxDelay, MaxAborts} \subseteq Nat

VARIABLES
  clock,
  failures, \* auth_rate_limits
  request,  \* what each client is doing
  pending,  \* _password_verifications_pending
  threads,  \* threads that compute a hash
  aborts

vars == <<clock, failures, request, pending, threads, aborts>>
verifier == <<pending, threads>>

Keys == {Account} \cup Addresses

\* A block that never was ended before time began.
Never == -1

Row == [count : Nat \ {0}, started : Nat, blocked : Nat \cup {Never}]

Request ==
  [pc : {"idle", "checking", "queued", "hashing", "judging"},
   moment : Nat, address : Addresses, cancelled : BOOLEAN]

NoRequest ==
  [pc |-> "idle", moment |-> 0, address |-> CHOOSE a \in Addresses : TRUE, cancelled |-> FALSE]

TypeOK ==
  /\ clock \in Nat
  /\ failures \in [Keys -> Row \cup {Nothing}]
  /\ request \in [Clients -> Request]
  /\ pending \in Nat /\ threads \in Nat
  /\ aborts \in 0 .. MaxAborts

Init ==
  /\ clock = 0
  /\ failures = [k \in Keys |-> Nothing]
  /\ request = [c \in Clients |-> NoRequest]
  /\ pending = 0 /\ threads = 0
  /\ aborts = MaxAborts

At(c, pc) == request[c].pc = pc

Become(c, pc) == request' = [request EXCEPT ![c].pc = pc]

Finish(c) == request' = [request EXCEPT ![c] = NoRequest]

-----------------------------------------------------------------------------
(* The rate limit *)

RateKeys(c) == {Account, request[c].address}

\* auth_rate_limited()
Limited(c) ==
  \E k \in RateKeys(c) : failures[k] # Nothing /\ failures[k].blocked > request[c].moment

Least(a, b) == IF a < b THEN a ELSE b

\* Mutant: the cooldown does not grow with the failures.
FlatCooldown(count) == Least(MaxCooldown, Base)

\* base_cooldown * 2**exponent
Doubled[exponent \in 0 .. 20] == IF exponent = 0 THEN Base ELSE 2 * Doubled[exponent - 1]

\* The cooldown after so many failures beyond the limit.
Pause(excess) == Least(MaxCooldown, Doubled[Least(excess, 20)])

Cooldown(count) == Pause(count - Limit)

\* record_auth_failure() of one key: the upsert, then the block.
Counted(row, moment) ==
  IF row = Nothing \/ row.started <= moment - Window
  THEN [count |-> 1, started |-> moment, blocked |-> Never]
  ELSE [row EXCEPT !.count = @ + 1]

Recorded(row, moment) ==
  LET next == Counted(row, moment) IN
  IF next.count < Limit THEN next
  ELSE [next EXCEPT !.blocked = moment + Cooldown(next.count)]

-----------------------------------------------------------------------------
(* A login *)

LogIn(c, address) ==
  /\ At(c, "idle")
  /\ request' = [request EXCEPT ![c] =
       [pc |-> "checking", moment |-> clock, address |-> address, cancelled |-> FALSE]]
  /\ UNCHANGED <<clock, failures, verifier, aborts>>

Full == pending >= Slots + Queue

\* Refused while limited, 503 when too many passwords wait to be verified.
TurnAway(c) ==
  /\ At(c, "checking") /\ (Limited(c) \/ Full)
  /\ Finish(c)
  /\ UNCHANGED <<clock, failures, verifier, aborts>>

LookUp(c) ==
  /\ At(c, "checking") /\ ~Limited(c) /\ ~Full
  /\ Become(c, "queued")
  /\ pending' = pending + 1
  /\ UNCHANGED <<clock, failures, threads, aborts>>

\* The semaphore counts the requests that hold it.
StartHashing(c) ==
  /\ At(c, "queued") /\ Cardinality({d \in Clients : At(d, "hashing")}) < Slots
  /\ Become(c, "hashing")
  /\ threads' = threads + 1
  /\ UNCHANGED <<clock, failures, pending, aborts>>

\* The thread of a cancelled request is awaited all the same.
EndHashing(c) ==
  /\ At(c, "hashing")
  /\ pending' = pending - 1 /\ threads' = threads - 1
  /\ IF request[c].cancelled THEN Finish(c) ELSE Become(c, "judging")
  /\ UNCHANGED <<clock, failures, aborts>>

\* Mutant: a cancelled request abandons its thread.
AbandonsThread(c) == TRUE

\* A cancelled request stops at its await, unless a thread works for it.
StopsAtOnce(c) == ~At(c, "hashing")

Cancel(c) ==
  /\ aborts > 0 /\ ~At(c, "idle") /\ ~request[c].cancelled
  /\ aborts' = aborts - 1
  /\ IF StopsAtOnce(c) THEN Finish(c) ELSE request' = [request EXCEPT ![c].cancelled = TRUE]
  /\ pending' = IF request[c].pc \in {"queued", "hashing"} /\ StopsAtOnce(c)
                THEN pending - 1 ELSE pending
  /\ UNCHANGED <<clock, failures, threads>>

\* The password was wrong.  Both rows are locked in one order and committed together.
Fail(c) ==
  /\ At(c, "judging")
  /\ failures' = [k \in Keys |->
       IF k \in RateKeys(c) THEN Recorded(failures[k], request[c].moment) ELSE failures[k]]
  /\ Finish(c)
  /\ UNCHANGED <<clock, verifier, aborts>>

Cleared(c) == {Account}

\* It was right.
Succeed(c) ==
  /\ At(c, "judging")
  /\ failures' = [k \in Keys |-> IF k \in Cleared(c) THEN Nothing ELSE failures[k]]
  /\ Finish(c)
  /\ UNCHANGED <<clock, verifier, aborts>>

Tick ==
  /\ clock < MaxTime
  /\ \A c \in Clients : At(c, "idle") \/ clock < request[c].moment + MaxDelay
  /\ clock' = clock + 1
  /\ UNCHANGED <<failures, request, verifier, aborts>>

Next ==
  \/ \E c \in Clients, address \in Addresses : LogIn(c, address)
  \/ \E c \in Clients :
       \/ TurnAway(c) \/ LookUp(c) \/ StartHashing(c) \/ EndHashing(c)
       \/ Cancel(c) \/ Fail(c) \/ Succeed(c)
  \/ Tick

Spec == Init /\ [][Next]_vars

-----------------------------------------------------------------------------
(* Correctness *)

\* Threads that verify a password, those of cancelled requests included, never
\* exceed the slots, and the counter that turns logins away is their number and
\* that of the logins that wait.
VerifierHolds ==
  /\ threads <= Slots
  /\ pending = threads + Cardinality({c \in Clients : At(c, "queued")})

\* A failure counts from the moment its request began, and one that is recorded
\* late can cut a block of another short by as much: what remains of a cooldown
\* is it less MaxDelay.  Rounds: how many of them end within a window.
Waited[n \in 0 .. Window + MaxDelay] ==
  IF n = 0 THEN 0 ELSE Waited[n - 1] + Pause(n - 1) - MaxDelay

Rounds == Cardinality({n \in 0 .. Window + MaxDelay : Waited[n] < Window + MaxDelay})

\* However they interleave, the clients together get no more guesses in a window
\* than the limit lets through at once and one each per cooldown that fits, as
\* long as requests take less time than the first cooldown.
GuessesBounded ==
  MaxDelay < Pause(0) =>
  \A k \in Keys : failures[k] # Nothing =>
    failures[k].count <= Limit - 1 + Cardinality(Clients) * Rounds

=============================================================================
