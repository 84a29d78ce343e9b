------------------------------- MODULE Delivery -------------------------------
(***************************************************************************)
(* The way of an event from the transaction that wrote it to the one that   *)
(* handles it: the rows of outbox_events, the publishers that lease them,   *)
(* the JetStream stream with its deduplication window, the consumers of a   *)
(* durable subscription with their inbox, the stream of dead letters, and   *)
(* an administrator who replays an event.                                   *)
(* Sources: outbox.py, consumer.py, database_inbox_handler.py and           *)
(* delivery_repository.py.                                                  *)
(*                                                                          *)
(* Leases, back-off and ack_wait are abstract: an event nobody leases can   *)
(* be claimed, and a message nobody acknowledged be delivered again, at any *)
(* moment.  So a negative acknowledgement changes nothing.  Of the clock,   *)
(* only the order of a replay and the deduplication window is kept.         *)
(***************************************************************************)
EXTENDS Naturals, Sequences, FiniteSets

CONSTANTS
  Events,       \* committed rows of outbox_events
  Invalid,      \* those _validate_event refuses
  Publishers,   \* processes of mode worker-outbox
  None,         \* owner IS NULL; no event in hand
  Consumers,    \* readers of the durable subscription
  MaxDeliver,   \* deliveries after which a failure is dead-lettered
  MaxMessages,  \* bounds the stream
  MaxIncidents  \* bounds crashes, failures of the network, replays, slow publishers

ASSUME DeliveryAssumption ==
  /\ IsFiniteSet(Events) /\ Invalid \subseteq Events
  /\ None \notin Publishers \cup Events
  /\ MaxDeliver \in Nat \ {0}
  /\ MaxMessages \in Nat /\ MaxIncidents \in Nat

VARIABLES
  outbox,      \* the rows of outbox_events
  publishers,  \* the batch and the event each publisher works at
  stream,      \* the messages of the stream, by their sequence number
  window,      \* what the broker remembers of the message ids
  consumers,
  inbox,       \* events with a committed row in inbox_messages
  dead,        \* messages with a record in the stream of dead letters
  effects,     \* how often the handler of an event committed
  owed,        \* replayed events no message was stored for since
  left         \* how many incidents may still happen

vars == <<outbox, publishers, stream, window, consumers, inbox, dead, effects, owed, left>>

-----------------------------------------------------------------------------
OutboxEvent ==
  [delivered : BOOLEAN, quarantined : BOOLEAN, owner : Publishers \cup {None}, leased : BOOLEAN]

\* A publisher takes an event from its batch, sends it and notes the outcome.
Publisher ==
  [pc : {"idle", "sending", "marking", "failing", "refusing"},
   batch : SUBSET Events, event : Events \cup {None}]

Message == [event : Events, deliveries : 0 .. MaxDeliver, acked : BOOLEAN]

\* "closed": the id is unknown; "replayed": known from before the last replay.
Window == {"closed", "open", "replayed"}

\* deliveries as the metadata of the message had it, up to MaxDeliver.
Consumer ==
  [pc : {"idle", "received", "applying", "acking", "failing"},
   message : Nat, deliveries : 0 .. MaxDeliver]

TypeOK ==
  /\ outbox \in [Events -> OutboxEvent]
  /\ publishers \in [Publishers -> Publisher]
  /\ stream \in Seq(Message)
  /\ window \in [Events -> Window]
  /\ consumers \in [Consumers -> Consumer]
  /\ inbox \subseteq Events
  /\ dead \subseteq DOMAIN stream
  /\ effects \in [Events -> Nat]
  /\ owed \subseteq Events
  /\ left \in 0 .. MaxIncidents

Row(delivered, quarantined) ==
  [delivered |-> delivered, quarantined |-> quarantined, owner |-> None, leased |-> FALSE]

Free == [pc |-> "idle", batch |-> {}, event |-> None]

Resting == [pc |-> "idle", message |-> 0, deliveries |-> 0]

Init ==
  /\ outbox = [e \in Events |-> Row(FALSE, FALSE)]
  /\ publishers = [p \in Publishers |-> Free]
  /\ stream = <<>>
  /\ window = [e \in Events |-> "closed"]
  /\ consumers = [c \in Consumers |-> Resting]
  /\ inbox = {}
  /\ dead = {}
  /\ effects = [e \in Events |-> 0]
  /\ owed = {}
  /\ left = MaxIncidents

Incident == left > 0 /\ left' = left - 1

-----------------------------------------------------------------------------
(* Publishers *)

Doing(p, pc) == publishers[p].pc = pc

\* Mutant: a replayed event is due at once.
ClaimableAtOnce(e) == ~outbox[e].delivered /\ ~outbox[e].quarantined /\ ~outbox[e].leased

\* _claim(): a replay puts available_at behind the deduplication window.
Claimable(e) ==
  /\ ~outbox[e].delivered /\ ~outbox[e].quarantined /\ ~outbox[e].leased
  /\ window[e] # "replayed"

\* publish_batch() leases what is due and not locked by another publisher.
Claim(p) ==
  /\ Doing(p, "idle") /\ publishers[p].batch = {}
  /\ \E batch \in SUBSET {e \in Events : Claimable(e)} \ {{}} :
       /\ outbox' = [e \in Events |->
            IF e \in batch THEN [outbox[e] EXCEPT !.owner = p, !.leased = TRUE] ELSE outbox[e]]
       /\ publishers' = [publishers EXCEPT ![p].batch = batch]
  /\ UNCHANGED <<stream, window, consumers, inbox, dead, effects, owed, left>>

StillOwns(p, e) == outbox[e].owner = p /\ ~outbox[e].delivered

\* _publish_one() reads the row: an event that was lost meanwhile is skipped,
\* an invalid one refused.
Look(p, e) ==
  /\ Doing(p, "idle") /\ e \in publishers[p].batch
  /\ publishers' = [publishers EXCEPT ![p] =
       [pc |-> IF ~StillOwns(p, e) THEN "idle" ELSE IF e \in Invalid THEN "refusing" ELSE "sending",
        batch |-> publishers[p].batch \ {e},
        event |-> IF StillOwns(p, e) THEN e ELSE None]]
  /\ UNCHANGED <<outbox, stream, window, consumers, inbox, dead, effects, owed, left>>

\* The broker stores a message, unless it remembers the id of the event.
Stored(e) ==
  IF window[e] = "closed"
  THEN /\ stream' = Append(stream, [event |-> e, deliveries |-> 0, acked |-> FALSE])
       /\ window' = [window EXCEPT ![e] = "open"]
       /\ owed' = owed \ {e}
  ELSE UNCHANGED <<stream, window, owed>>

\* publish_json(): acknowledged by the broker, duplicates too.
Send(p) ==
  /\ Doing(p, "sending")
  /\ Stored(publishers[p].event)
  /\ publishers' = [publishers EXCEPT ![p].pc = "marking"]
  /\ UNCHANGED <<outbox, consumers, inbox, dead, effects, left>>

\* ... or the call raises, whether the broker stored the message or not.
SendRaises(p) ==
  /\ Doing(p, "sending") /\ Incident
  /\ Stored(publishers[p].event) \/ UNCHANGED <<stream, window, owed>>
  /\ publishers' = [publishers EXCEPT ![p].pc = "failing"]
  /\ UNCHANGED <<outbox, consumers, inbox, dead, effects>>

\* The row gets the outcome only from the publisher that holds it.
Note(p, row) ==
  LET e == publishers[p].event
  IN  /\ outbox' = IF StillOwns(p, e) THEN [outbox EXCEPT ![e] = row] ELSE outbox
      /\ publishers' = [publishers EXCEPT ![p].pc = "idle", ![p].event = None]
      /\ UNCHANGED <<stream, window, consumers, inbox, dead, effects, owed, left>>

\* Mutant: the row is marked also when the call failed.
FailedRowAsDelivered(permanent) == Row(TRUE, permanent)

FailedRow(permanent) == Row(FALSE, permanent)

Mark(p) == Doing(p, "marking") /\ Note(p, Row(TRUE, FALSE))

\* _mark_failed(): retried without end, or quarantined if the event is invalid.
MarkFailed(p) ==
  \/ Doing(p, "failing") /\ Note(p, FailedRow(FALSE))
  \/ Doing(p, "refusing") /\ Note(p, FailedRow(TRUE))

PublisherStep(p) == Claim(p) \/ (\E e \in Events : Look(p, e)) \/ Send(p) \/ Mark(p) \/ MarkFailed(p)

\* The lease of an event passes, and its owner does not have it in hand.
LeaseExpires(e) ==
  /\ outbox[e].leased
  /\ \A p \in Publishers : outbox[e].owner = p => e \notin publishers[p].batch \cup {publishers[p].event}
  /\ outbox' = [outbox EXCEPT ![e].leased = FALSE]
  /\ UNCHANGED <<publishers, stream, window, consumers, inbox, dead, effects, owed, left>>

\* ... or its owner is too slow.
LeaseOutlived(e) ==
  /\ outbox[e].leased /\ Incident
  /\ outbox' = [outbox EXCEPT ![e].leased = FALSE]
  /\ UNCHANGED <<publishers, stream, window, consumers, inbox, dead, effects, owed>>

CrashPublisher(p) ==
  /\ publishers[p] # Free /\ Incident
  /\ publishers' = [publishers EXCEPT ![p] = Free]
  /\ UNCHANGED <<outbox, stream, window, consumers, inbox, dead, effects, owed>>

-----------------------------------------------------------------------------
(* The broker *)

\* Every id that is not remembered may cost a message.
Room == Len(stream) + Cardinality({e \in Events : window[e] # "open"}) < MaxMessages

\* duplicate_window: the id of an event is forgotten.
WindowPasses(e) ==
  /\ window[e] = "replayed" \/ (window[e] = "open" /\ Room)
  /\ window' = [window EXCEPT ![e] = "closed"]
  /\ UNCHANGED <<outbox, publishers, stream, consumers, inbox, dead, effects, owed, left>>

\* DeliveryRepository.replay().
Replay(e) ==
  /\ window[e] = "open" => Room
  /\ Incident
  /\ outbox' = [outbox EXCEPT ![e] = Row(FALSE, FALSE)]
  /\ window' = [window EXCEPT ![e] = IF @ = "open" THEN "replayed" ELSE @]
  /\ owed' = owed \cup {e}
  /\ UNCHANGED <<publishers, stream, consumers, inbox, dead, effects>>

-----------------------------------------------------------------------------
(* Consumers *)

Is(c, pc) == consumers[c].pc = pc

EventOf(c) == stream[consumers[c].message].event

Goes(c, pc) == consumers' = [consumers EXCEPT ![c].pc = pc]

Rests(c) == consumers' = [consumers EXCEPT ![c] = Resting]

\* A message nobody acknowledged is delivered, perhaps again, perhaps to two.
Fetch(c, m) ==
  /\ Is(c, "idle") /\ ~stream[m].acked
  /\ LET n == IF stream[m].deliveries < MaxDeliver THEN stream[m].deliveries + 1 ELSE MaxDeliver
     IN  /\ stream' = [stream EXCEPT ![m].deliveries = n]
         /\ consumers' = [consumers EXCEPT ![c] = [pc |-> "received", message |-> m, deliveries |-> n]]
  /\ UNCHANGED <<outbox, publishers, window, inbox, dead, effects, owed, left>>

\* Mutant: a marker another transaction has not committed yet is not seen.
MarkerFreeOfCommitted(c) == TRUE

\* No open transaction holds the marker: the primary key makes others wait.
MarkerFree(c) == \A other \in Consumers : Is(other, "applying") => EventOf(other) # EventOf(c)

\* The marker violates the primary key: the event was handled before.
Known(c) == EventOf(c) \in inbox

\* DatabaseInboxHandler: the marker is flushed first.
Flush(c) ==
  /\ Is(c, "received") /\ MarkerFree(c)
  /\ Goes(c, IF Known(c) THEN "acking" ELSE "applying")
  /\ UNCHANGED <<outbox, publishers, stream, window, inbox, dead, effects, owed, left>>

\* The handler's changes and the marker, in one transaction.
Applied(c) ==
  /\ inbox' = inbox \cup {EventOf(c)}
  /\ effects' = [effects EXCEPT ![EventOf(c)] = @ + 1]

Commit(c) ==
  /\ Is(c, "applying")
  /\ Applied(c)
  /\ Goes(c, "acking")
  /\ UNCHANGED <<outbox, publishers, stream, window, dead, owed, left>>

\* The transaction commits, and the consumer sees its connection fail.
CommitUnheard(c) ==
  /\ Is(c, "applying") /\ Incident
  /\ Applied(c)
  /\ Goes(c, "failing")
  /\ UNCHANGED <<outbox, publishers, stream, window, dead, owed>>

\* The handler raises, as often as it likes.
Raise(c) ==
  /\ Is(c, "received") \/ Is(c, "applying")
  /\ Goes(c, "failing")
  /\ UNCHANGED <<outbox, publishers, stream, window, inbox, dead, effects, owed, left>>

TriesLeft(c) == consumers[c].deliveries < MaxDeliver

\* record_failure(): tries are left.
Nak(c) ==
  /\ Is(c, "failing") /\ TriesLeft(c)
  /\ Rests(c)
  /\ UNCHANGED <<outbox, publishers, stream, window, inbox, dead, effects, owed, left>>

Recorded(c) == dead' = dead \cup {consumers[c].message}

\* ... or they are used up: the message is acknowledged behind its dead letter.
DeadLetter(c) ==
  /\ Is(c, "failing") /\ ~TriesLeft(c)
  /\ Recorded(c)
  /\ Goes(c, "acking")
  /\ UNCHANGED <<outbox, publishers, stream, window, inbox, effects, owed, left>>

\* Its publication raises, whether it was stored or not.
DeadLetterRaises(c) ==
  /\ Is(c, "failing") /\ ~TriesLeft(c) /\ Incident
  /\ Recorded(c) \/ UNCHANGED dead
  /\ Rests(c)
  /\ UNCHANGED <<outbox, publishers, stream, window, inbox, effects, owed>>

Ack(c) ==
  /\ Is(c, "acking")
  /\ stream' = [stream EXCEPT ![consumers[c].message].acked = TRUE]
  /\ Rests(c)
  /\ UNCHANGED <<outbox, publishers, window, inbox, dead, effects, owed, left>>

ConsumerStep(c) ==
  \/ \E m \in DOMAIN stream : Fetch(c, m)
  \/ Flush(c) \/ Commit(c) \/ Raise(c) \/ Nak(c) \/ DeadLetter(c) \/ Ack(c)

\* The process stops or dies, or an acknowledgement is lost.
CrashConsumer(c) ==
  /\ ~Is(c, "idle") /\ Incident
  /\ Rests(c)
  /\ UNCHANGED <<outbox, publishers, stream, window, inbox, dead, effects, owed>>

-----------------------------------------------------------------------------
Next ==
  \/ \E p \in Publishers : PublisherStep(p) \/ SendRaises(p) \/ CrashPublisher(p)
  \/ \E e \in Events : LeaseExpires(e) \/ LeaseOutlived(e) \/ WindowPasses(e) \/ Replay(e)
  \/ \E c \in Consumers :
       ConsumerStep(c) \/ CommitUnheard(c) \/ DeadLetterRaises(c) \/ CrashConsumer(c)

Spec == Init /\ [][Next]_vars

\* Publishers and consumers poll for ever, leases pass, and the window does behind
\* a replay.
Fairness ==
  /\ \A p \in Publishers : WF_vars(PublisherStep(p))
  /\ \A c \in Consumers : WF_vars(ConsumerStep(c))
  /\ \A e \in Events : WF_vars(LeaseExpires(e)) /\ WF_vars(window[e] = "replayed" /\ WindowPasses(e))

FairSpec == Spec /\ Fairness

-----------------------------------------------------------------------------
(* Correctness *)

\* The stream has, or had, a message of the event.
Sent(e) == \E m \in DOMAIN stream : stream[m].event = e

\* docs/contracts/delivery.md: an applied event is not applied twice, although
\* messages are repeated and two consumers may hold the same event.
AppliedOnce == \A e \in Events : effects[e] = IF e \in inbox THEN 1 ELSE 0

\* docs/architecture.md: a failure means a repetition, never a loss.  What the
\* outbox counts as delivered is in the stream, and what was acknowledged was
\* applied, or its dead letter was stored before.
NothingLost ==
  /\ \A e \in Events : outbox[e].delivered => Sent(e)
  /\ \A m \in DOMAIN stream : stream[m].acked => stream[m].event \in inbox \/ m \in dead

\* An event is not marked as delivered again on account of a message the broker
\* took for a repetition of one from before the replay.
NoReplayLost == \A e \in owed : ~outbox[e].delivered

\* Only what failed MaxDeliver deliveries in all is given up.
DeadAfterTries == \A m \in dead : stream[m].deliveries = MaxDeliver

\* What a publisher has in hand is an event; what it is about to mark was sent,
\* and since the last replay if it still owns the event.
PublisherInvariant ==
  \A p \in Publishers :
    /\ ~Doing(p, "idle") => publishers[p].event \in Events
    /\ Doing(p, "marking") =>
         /\ Sent(publishers[p].event)
         /\ outbox[publishers[p].event].owner = p => publishers[p].event \notin owed

\* The broker remembers what it stored; what it remembers from before a replay
\* nobody owns, and what it remembers from behind it is not owed any more.
WindowInvariant ==
  \A e \in Events :
    /\ window[e] # "closed" => Sent(e)
    /\ window[e] = "open" => e \notin owed
    /\ window[e] = "replayed" => outbox[e].owner = None

\* What a consumer has in hand is a message, delivered as often as it says; only
\* one has the marker of an event, and only before it is committed; what is
\* about to be acknowledged is settled.
ConsumerInvariant ==
  \A c \in Consumers :
    /\ ~Is(c, "idle") =>
         /\ consumers[c].message \in DOMAIN stream
         /\ consumers[c].deliveries <= stream[consumers[c].message].deliveries
    /\ Is(c, "applying") =>
         /\ EventOf(c) \notin inbox
         /\ \A other \in Consumers \ {c} : Is(other, "applying") => EventOf(other) # EventOf(c)
    /\ Is(c, "acking") => EventOf(c) \in inbox \/ consumers[c].message \in dead

\* The inductive invariant.
IInv ==
  /\ TypeOK /\ PublisherInvariant /\ WindowInvariant /\ ConsumerInvariant
  /\ AppliedOnce /\ NothingLost /\ NoReplayLost /\ DeadAfterTries

\* Every event that can be sent is applied or dead-lettered.
EventsEnd ==
  \A e \in Events \ Invalid : <>(e \in inbox \/ \E m \in dead : stream[m].event = e)

=============================================================================
