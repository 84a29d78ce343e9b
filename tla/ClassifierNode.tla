---------------------------- MODULE ClassifierNode ----------------------------
(***************************************************************************)
(* A classifier node: the SDK that every node is built from, and what the   *)
(* AI node does with it.  The pipeline signs a request; the node takes each *)
(* signature once, answers at once or answers 202 and posts a callback      *)
(* before the deadline, signed in its turn and checked by main.             *)
(* Sources: contracts/handlers/router.py, verify_message.py,                *)
(* sign_message.py, memory_replay.py, callback.py, classifier-ai.           *)
(*                                                                          *)
(* Time is counted in halves of a second, because the signatures are dated  *)
(* in whole seconds and the deadlines are not.  The clock of main is now,   *)
(* and the clock of the node is some offset from it.                        *)
(***************************************************************************)
EXTENDS Integers, FiniteSets

CONSTANTS
  Requests,      \* attempts main sends to the node, one signature each
  Calls,         \* the HTTP requests that reach the node
  Skew,          \* what verify_message() forgives a clock
  MaxTtl,        \* DEFAULT_TTL_S
  Ttl,           \* of the signature of a request
  Patience,      \* from the claim of an attempt to its deadline
  ProviderLimit, \* OPENAI_TIMEOUT_S
  PostLimit,     \* the most a callback may take
  Offsets,       \* how far the clock of the node may be from that of main
  Installed,     \* the settings a process may be started with
  LastSign,      \* bounds when a request is signed
  MaxTime,       \* bounds the clock
  MaxRestarts    \* bounds the lives of the node

Second == 2

ASSUME NodeAssumption ==
  /\ {Skew, MaxTtl, Ttl, Patience, ProviderLimit, PostLimit, MaxTime, MaxRestarts} \subseteq Nat
  /\ Offsets \subseteq Int
  /\ Installed \subseteq [deferred : BOOLEAN, caller : BOOLEAN, signing : BOOLEAN]
  /\ LastSign \in Nat
  /\ Ttl >= Second /\ MaxTtl >= Ttl /\ PostLimit >= Second

\* The clocks agree to within what verify_message() forgives, to the second it
\* drops; that and DEFAULT_TTL_S are whole seconds, and no post lasts longer.
ASSUME ClocksAssumption ==
  /\ \A o \in Offsets : 1 - Skew <= o /\ o <= Skew
  /\ Skew % Second = 0 /\ MaxTtl % Second = 0 /\ PostLimit <= MaxTtl

VARIABLES
  now,
  node,  \* the settings of the process, and which of its lives this is
  seen,  \* the requests in the memory of the process
  sent,  \* when each request was signed, 0 if it was not
  calls

nodeVars == <<now, node, seen, sent, calls>>

NoCall == [pc |-> "idle"]

\* A 202 is behind "created", "waiting" and "posting".
Open == {"classifying", "created", "waiting", "posting"}

NodeTypeOK ==
  /\ now \in 0 .. MaxTime
  /\ node.settings \in Installed /\ node.offset \in Offsets /\ node.life \in 0 .. MaxRestarts
  /\ seen \subseteq Requests
  /\ sent \in [Requests -> 0 .. MaxTime]
  /\ \A c \in Calls :
       /\ calls[c].pc \in Open \cup {"idle", "refused", "answered", "silent", "taken", "late", "rejected"}
       /\ calls[c].pc # "idle" => calls[c].request \in Requests

Whole(t) == t - (t % Second)

Least(a, b) == IF a < b THEN a ELSE b
Greatest(a, b) == IF a > b THEN a ELSE b

\* The clock of the node.
Here == now + node.offset

\* What the signature of a request says, and the deadline the request states.
Expiry(r) == Whole(sent[r]) + Ttl
Deadline(r) == sent[r] + Patience

\* The window verify_message() accepts, at some clock.
InWindow(issued, expires, clock) ==
  issued <= Whole(clock) + Skew /\ expires >= Whole(clock) - Skew

NodeInit ==
  /\ now = Second
  /\ \E s \in Installed, o \in Offsets : node = [settings |-> s, offset |-> o, life |-> 0]
  /\ seen = {}
  /\ sent = [r \in Requests |-> 0]
  /\ calls = [c \in Calls |-> NoCall]

-----------------------------------------------------------------------------
(* Main and the network *)

Tick == now < MaxTime /\ now' = now + 1 /\ UNCHANGED <<node, seen, sent, calls>>

\* The pipeline signs the request of an attempt.
Sign(r) ==
  /\ sent[r] = 0 /\ now <= LastSign
  /\ sent' = [sent EXCEPT ![r] = now]
  /\ UNCHANGED <<now, node, seen, calls>>

-----------------------------------------------------------------------------
(* POST /classify *)

\* readiness()
Ready == node.settings.caller /\ (node.settings.deferred => node.settings.signing)

\* Mutant: a signature is forgotten in the second it expires.
RememberedTooShort == {r \in seen : Expiry(r) > Whole(Here)}

\* accept_once() first forgets what has expired.
Remembered == {r \in seen : Expiry(r) >= Whole(Here)}

Verified(r) == InWindow(Whole(sent[r]), Expiry(r), Here)

\* do_classify(), to its first await: one copy of a request is refused, or
\* accepted and classified at once or in the background.
Handle(c, r) ==
  /\ calls[c].pc = "idle" /\ sent[r] > 0
  /\ LET call(pc) == [pc |-> pc, request |-> r, at |-> Here, life |-> node.life,
                      until |-> 0, expires |-> 0, forgiven |-> Expiry(r) < Whole(Here)]
         accepted == Ready /\ Verified(r) /\ r \notin Remembered
     IN  /\ calls' = [calls EXCEPT ![c] =
              call(CASE ~accepted -> "refused"
                     [] accepted /\ node.settings.deferred -> "created"
                     [] OTHER -> "classifying")]
         /\ seen' = IF ~(Ready /\ Verified(r)) THEN seen
                    ELSE Remembered \cup {r}
  /\ UNCHANGED <<now, node, sent>>

At(c, pc) == calls[c].pc = pc

\* What a call leaves behind when it is over.
Over(c, pc) == [calls[c] EXCEPT !.pc = pc, !.at = 0, !.until = 0, !.expires = 0]

End(c, pc) == calls' = [calls EXCEPT ![c] = Over(c, pc)] /\ UNCHANGED <<now, node, seen, sent>>

\* The provider answers, or fails and the answer says so ...
Answer(c) == At(c, "classifying") /\ End(c, "answered")

\* ... or takes too long, which is an answer too.
ProviderTimeout(c) ==
  /\ At(c, "classifying") /\ Here >= calls[c].at + ProviderLimit
  /\ End(c, "answered")

-----------------------------------------------------------------------------
(* The callback *)

\* deliver() starts: nothing to do when the deadline has passed.
Begin(c) ==
  /\ At(c, "created")
  /\ calls' = [calls EXCEPT ![c] =
       IF Deadline(calls[c].request) <= Here THEN Over(c, "silent")
       ELSE [@ EXCEPT !.pc = "waiting", !.at = Here, !.until = Deadline(calls[c].request) - Here]]
  /\ UNCHANGED <<now, node, seen, sent>>

\* build_payload() raises on a configuration it cannot use, outside the try of
\* execute(): the task ends without a word.
Raise(c) == At(c, "waiting") /\ End(c, "silent")

\* Mutant: the lifetime is counted from the start of the wait.
LifetimeSinceStart(c) ==
  calls[c].at - Whole(Here) + Greatest(Second, Least(MaxTtl, Whole(calls[c].until)))

\* What the signature of a callback is given, from what remained at the start.
Lifetime(c) == Greatest(Second, Least(MaxTtl, Whole(calls[c].until)))

\* The result, a failure of the provider included, is signed and posted.
Post(c) ==
  /\ At(c, "waiting") /\ Here < calls[c].at + calls[c].until
  /\ calls' = [calls EXCEPT ![c].pc = "posting",
                            ![c].at = Whole(Here),
                            ![c].expires = Whole(Here) + Lifetime(c),
                            ![c].until = Here + Greatest(Second, Least(calls[c].until, PostLimit))]
  /\ UNCHANGED <<now, node, seen, sent>>

\* Mutant: the wait has no timeout.
NeverOver(c) == FALSE

\* asyncio.wait_for() has waited long enough.
WaitOver(c) == At(c, "waiting") /\ Here >= calls[c].at + calls[c].until

GiveUp(c) == WaitOver(c) /\ End(c, "silent")

\* The callback reaches main: its signature is checked, then its deadline.
Arrive(c) ==
  /\ At(c, "posting") /\ Here <= calls[c].until
  /\ End(c, CASE ~InWindow(calls[c].at, calls[c].expires, now) -> "rejected"
               [] now > Deadline(calls[c].request) -> "late"
               [] OTHER -> "taken")

\* The request fails, or takes longer than it may.
PostFails(c) == At(c, "posting") /\ End(c, "silent")

\* The process restarts: close() cancels what runs, and the memory is gone.
Restart(s) ==
  /\ node.life < MaxRestarts
  /\ node' = [node EXCEPT !.life = node.life + 1, !.settings = s]
  /\ seen' = {}
  /\ calls' = [c \in Calls |-> IF calls[c].pc \in Open THEN Over(c, "silent")
                               ELSE calls[c]]
  /\ UNCHANGED <<now, sent>>

-----------------------------------------------------------------------------
\* What timers and the event loop see to.
Progress(c) == ProviderTimeout(c) \/ Begin(c) \/ GiveUp(c) \/ PostFails(c)

NodeNext ==
  \/ Tick
  \/ \E r \in Requests : Sign(r)
  \/ \E c \in Calls, r \in Requests : Handle(c, r)
  \/ \E c \in Calls : Progress(c) \/ Answer(c) \/ Raise(c) \/ Post(c) \/ Arrive(c)
  \/ \E s \in Installed : Restart(s)

NodeSpec == NodeInit /\ [][NodeNext]_nodeVars

\* The clock goes on and expired timers fire; the provider need never answer.
FairNodeSpec == NodeSpec /\ WF_nodeVars(Tick) /\ WF_nodeVars(\E c \in Calls : Progress(c))

-----------------------------------------------------------------------------
(* Correctness *)

Classified(c) == calls[c].pc \notin {"idle", "refused"}

\* One process classifies a request once, however often it arrives: a second
\* time only in the moments verify_message() forgives the clocks.
ClassifiedOnce ==
  \A c, d \in Calls :
    c # d /\ Classified(c) /\ Classified(d) /\ calls[c].request = calls[d].request
    => calls[c].life # calls[d].life \/ calls[c].forgiven \/ calls[d].forgiven

\* Main refuses no callback for its signature as long as the deadline it was
\* given has not passed, whatever was rounded and however the clocks differ.
SignaturesLast ==
  \A c \in Calls : At(c, "posting") /\ now <= Deadline(calls[c].request) /\ Here <= calls[c].until
                   => InWindow(calls[c].at, calls[c].expires, now)

\* Whatever the provider does, a request that was accepted ends.
AcceptedEnds == \A c \in Calls : calls[c].pc \in Open ~> calls[c].pc \notin Open
=============================================================================
