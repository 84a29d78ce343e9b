---------------------------- MODULE Delivery_proofs ----------------------------
(***************************************************************************)
(* Proofs about Delivery: for any events, publishers and consumers, and any *)
(* number of incidents, IInv is an invariant, hence no event is lost or     *)
(* applied twice and no replay is swallowed.  Publishers and the broker     *)
(* leave the variables of the consumers alone and the other way round, so   *)
(* the steps are proved in these two groups.                                *)
(***************************************************************************)
EXTENDS Delivery, SequenceTheorems, TLAPS

\* The steps that change the row of an event or what a publisher has in hand.
OutboxStep ==
  \/ \E p \in Publishers : Claim(p) \/ (\E e \in Events : Look(p, e)) \/ Mark(p) \/ MarkFailed(p) \/ CrashPublisher(p)
  \/ \E e \in Events : LeaseExpires(e) \/ LeaseOutlived(e) \/ WindowPasses(e) \/ Replay(e)

\* The steps that may store a message.
SendStep == \E p \in Publishers : Send(p) \/ SendRaises(p)

\* The steps that settle a message.
InboxStep ==
  \E c \in Consumers :
    \/ Flush(c) \/ Commit(c) \/ CommitUnheard(c) \/ Raise(c) \/ Nak(c)
    \/ DeadLetter(c) \/ DeadLetterRaises(c) \/ CrashConsumer(c)

\* The steps that change a message.
BrokerStep == \E c \in Consumers : Ack(c) \/ \E m \in DOMAIN stream : Fetch(c, m)

LEMMA NextCases ==
  ASSUME Next
  PROVE  OutboxStep \/ SendStep \/ InboxStep \/ BrokerStep
  BY DEF Next, OutboxStep, SendStep, InboxStep, BrokerStep, PublisherStep, ConsumerStep

-----------------------------------------------------------------------------
(* What the steps leave alone *)

LEMMA OutboxFrame ==
  ASSUME OutboxStep
  PROVE  UNCHANGED <<stream, consumers, inbox, dead, effects>>
  BY DEF OutboxStep, Claim, Look, Mark, MarkFailed, Note, CrashPublisher, LeaseExpires,
         LeaseOutlived, WindowPasses, Replay

LEMMA SendFrame ==
  ASSUME SendStep
  PROVE  UNCHANGED <<outbox, consumers, inbox, dead, effects>>
  BY DEF SendStep, Send, SendRaises

LEMMA InboxFrame ==
  ASSUME InboxStep
  PROVE  UNCHANGED <<outbox, publishers, stream, window, owed>>
  BY DEF InboxStep, Flush, Commit, CommitUnheard, Raise, Nak, DeadLetter, DeadLetterRaises,
         CrashConsumer

LEMMA BrokerFrame ==
  ASSUME BrokerStep
  PROVE  UNCHANGED <<outbox, publishers, window, inbox, dead, effects, owed, left>>
  BY DEF BrokerStep, Ack, Fetch

\* Incidents are counted down.
LEMMA IncidentType ==
  ASSUME TypeOK, Next
  PROVE  left' \in 0 .. MaxIncidents
<1>1. left \in 0 .. MaxIncidents /\ MaxIncidents \in Nat
  BY DeliveryAssumption DEF TypeOK
<1>2. UNCHANGED left \/ Incident
  BY DEF Next, PublisherStep, ConsumerStep, Claim, Look, Mark, MarkFailed, Note, CrashPublisher, LeaseExpires,
         LeaseOutlived, WindowPasses, Replay, Send, SendRaises, Flush, Commit, CommitUnheard, Raise,
         Nak, DeadLetter, DeadLetterRaises, CrashConsumer, Ack, Fetch
<1>q. QED BY <1>1, <1>2 DEF Incident

-----------------------------------------------------------------------------
(* The stream only grows, and what it holds of a message stays *)

LEMMA SendsAppend ==
  ASSUME TypeOK, PublisherInvariant, SendStep
  PROVE  /\ stream' \in Seq(Message)
         /\ DOMAIN stream \subseteq DOMAIN stream'
         /\ \A m \in DOMAIN stream : stream'[m] = stream[m]
         /\ \A m \in DOMAIN stream' \ DOMAIN stream : ~stream'[m].acked
<1>1. CASE UNCHANGED stream
  BY <1>1 DEF TypeOK
<1>2. CASE \E e \in Events : stream' = Append(stream, [event |-> e, deliveries |-> 0, acked |-> FALSE])
  <2>1. PICK e \in Events : stream' = Append(stream, [event |-> e, deliveries |-> 0, acked |-> FALSE])
    BY <1>2
  <2>2. [event |-> e, deliveries |-> 0, acked |-> FALSE] \in Message
    BY DeliveryAssumption DEF Message
  <2>q. QED BY <2>1, <2>2, AppendProperties DEF TypeOK
<1>q. QED
  BY <1>1, <1>2 DEF SendStep, Send, SendRaises, Stored, PublisherInvariant, Doing

LEMMA BrokerRewrites ==
  ASSUME TypeOK, ConsumerInvariant, BrokerStep
  PROVE  /\ stream' \in Seq(Message)
         /\ DOMAIN stream' = DOMAIN stream
         /\ \A m \in DOMAIN stream :
              stream'[m].event = stream[m].event /\ stream[m].deliveries <= stream'[m].deliveries
<1>1. ASSUME NEW m \in DOMAIN stream, NEW message \in Message, stream' = [stream EXCEPT ![m] = message],
             message.event = stream[m].event, stream[m].deliveries <= message.deliveries
      PROVE  /\ stream' \in Seq(Message)
             /\ DOMAIN stream' = DOMAIN stream
             /\ \A k \in DOMAIN stream :
                  stream'[k].event = stream[k].event /\ stream[k].deliveries <= stream'[k].deliveries
  <2>1. stream \in Seq(Message) /\ \A k \in DOMAIN stream : stream[k] \in Message
    BY DEF TypeOK
  <2>2. \A k \in DOMAIN stream : stream[k].deliveries <= stream[k].deliveries
    BY <2>1, DeliveryAssumption DEF Message
  <2>q. QED BY <1>1, <2>1, <2>2, ExceptSeq
<1>2. ASSUME NEW c \in Consumers, Ack(c)
      PROVE  \E m \in DOMAIN stream, message \in Message :
               /\ stream' = [stream EXCEPT ![m] = message]
               /\ message.event = stream[m].event /\ stream[m].deliveries <= message.deliveries
  <2> DEFINE m == consumers[c].message
             message == [stream[m] EXCEPT !.acked = TRUE]
  <2>1. m \in DOMAIN stream
    BY <1>2 DEF Ack, Is, ConsumerInvariant
  <2>2. stream[m] \in Message
    BY <2>1 DEF TypeOK
  <2>3. message \in Message /\ message.event = stream[m].event /\ message.deliveries = stream[m].deliveries
    BY <2>2 DEF Message
  <2>4. stream' = [stream EXCEPT ![m] = message]
    BY <1>2 DEF Ack
  <2>5. stream[m].deliveries <= message.deliveries
    BY <2>2, <2>3, DeliveryAssumption DEF Message
  <2>q. QED BY <2>1, <2>3, <2>4, <2>5
<1>3. ASSUME NEW c \in Consumers, NEW m \in DOMAIN stream, Fetch(c, m)
      PROVE  \E message \in Message :
               /\ stream' = [stream EXCEPT ![m] = message]
               /\ message.event = stream[m].event /\ stream[m].deliveries <= message.deliveries
  <2> DEFINE n == IF stream[m].deliveries < MaxDeliver THEN stream[m].deliveries + 1 ELSE MaxDeliver
             message == [stream[m] EXCEPT !.deliveries = n]
  <2>1. stream[m] \in Message
    BY DEF TypeOK
  <2>2. n \in 0 .. MaxDeliver /\ stream[m].deliveries <= n
    BY <2>1, DeliveryAssumption DEF Message
  <2>3. message \in Message /\ message.event = stream[m].event /\ message.deliveries = n
    BY <2>1, <2>2 DEF Message
  <2>4. stream' = [stream EXCEPT ![m] = message]
    BY <1>3 DEF Fetch
  <2>q. QED BY <2>2, <2>3, <2>4
<1>q. QED BY <1>1, <1>2, <1>3 DEF BrokerStep

\* A message stays, with its event and at least as many deliveries.
LEMMA StreamKept ==
  ASSUME TypeOK, PublisherInvariant, ConsumerInvariant, Next
  PROVE  /\ stream' \in Seq(Message)
         /\ DOMAIN stream \subseteq DOMAIN stream'
         /\ \A m \in DOMAIN stream :
              stream'[m].event = stream[m].event /\ stream[m].deliveries <= stream'[m].deliveries
         /\ \A e \in Events : Sent(e) => Sent(e)'
<1>1. \A m \in DOMAIN stream : stream[m].deliveries <= stream[m].deliveries
  <2>1. \A m \in DOMAIN stream : stream[m] \in Message
    BY DEF TypeOK
  <2>q. QED BY <2>1, DeliveryAssumption DEF Message
<1>2. /\ stream' \in Seq(Message)
      /\ DOMAIN stream \subseteq DOMAIN stream'
      /\ \A m \in DOMAIN stream :
           stream'[m].event = stream[m].event /\ stream[m].deliveries <= stream'[m].deliveries
  BY <1>1, NextCases, OutboxFrame, InboxFrame, SendsAppend, BrokerRewrites DEF TypeOK
<1>q. QED BY <1>2 DEF Sent

-----------------------------------------------------------------------------
(* Types *)

LEMMA RowType ==
  ASSUME NEW delivered \in BOOLEAN, NEW quarantined \in BOOLEAN
  PROVE  /\ Row(delivered, quarantined) \in OutboxEvent
         /\ Row(delivered, quarantined).owner = None
         /\ Row(delivered, quarantined).delivered = delivered
  BY DEF Row, OutboxEvent

\* A publisher or a consumer that goes on.
LEMMA PublisherGoes ==
  ASSUME TypeOK, NEW p \in Publishers, NEW r \in Publisher
  PROVE  [publishers EXCEPT ![p] = r] \in [Publishers -> Publisher]
  BY DEF TypeOK

LEMMA ConsumerGoes ==
  ASSUME TypeOK, NEW c \in Consumers
  PROVE  /\ \A pc \in {"idle", "received", "applying", "acking", "failing"} :
              Goes(c, pc) => consumers' \in [Consumers -> Consumer]
         /\ Rests(c) => consumers' \in [Consumers -> Consumer]
<1>1. consumers \in [Consumers -> Consumer] /\ consumers[c] \in Consumer
  BY DEF TypeOK
<1>2. Resting \in Consumer
  BY DeliveryAssumption DEF Resting, Consumer
<1>3. \A pc \in {"idle", "received", "applying", "acking", "failing"} :
        [consumers[c] EXCEPT !.pc = pc] \in Consumer
  BY <1>1 DEF Consumer
<1>4. \A pc \in {"idle", "received", "applying", "acking", "failing"} :
        Goes(c, pc) => consumers' = [consumers EXCEPT ![c] = [consumers[c] EXCEPT !.pc = pc]]
  BY DEF Goes
<1>q. QED BY <1>1, <1>2, <1>3, <1>4 DEF Rests

\* What a note writes.
LEMMA Notes ==
  ASSUME TypeOK, PublisherInvariant, NEW p \in Publishers, Mark(p) \/ MarkFailed(p)
  PROVE  /\ publishers[p].event \in Events
         /\ publishers' = [publishers EXCEPT ![p].pc = "idle", ![p].event = None]
         /\ UNCHANGED <<stream, window, owed>>
         /\ \E row \in OutboxEvent :
              /\ row.owner = None
              /\ row.delivered => Mark(p)
              /\ outbox' = IF StillOwns(p, publishers[p].event)
                           THEN [outbox EXCEPT ![publishers[p].event] = row] ELSE outbox
<1>1. ASSUME NEW row \in OutboxEvent, Note(p, row), row.owner = None, row.delivered => Mark(p), ~Doing(p, "idle")
      PROVE  /\ publishers[p].event \in Events
             /\ publishers' = [publishers EXCEPT ![p].pc = "idle", ![p].event = None]
             /\ UNCHANGED <<stream, window, owed>>
             /\ \E r \in OutboxEvent :
                  /\ r.owner = None
                  /\ r.delivered => Mark(p)
                  /\ outbox' = IF StillOwns(p, publishers[p].event)
                               THEN [outbox EXCEPT ![publishers[p].event] = r] ELSE outbox
  BY <1>1 DEF Note, PublisherInvariant
<1>2. CASE Mark(p)
  BY <1>2, <1>1, RowType DEF Mark, Doing
<1>3. CASE MarkFailed(p)
  <2>1. CASE Doing(p, "failing") /\ Note(p, FailedRow(FALSE))
    BY <2>1, <1>1, RowType DEF FailedRow, Doing
  <2>2. CASE Doing(p, "refusing") /\ Note(p, FailedRow(TRUE))
    BY <2>2, <1>1, RowType DEF FailedRow, Doing
  <2>q. QED BY <1>3, <2>1, <2>2 DEF MarkFailed
<1>q. QED BY <1>2, <1>3

LEMMA OutboxType ==
  ASSUME TypeOK, PublisherInvariant, Next
  PROVE  /\ outbox' \in [Events -> OutboxEvent]
         /\ publishers' \in [Publishers -> Publisher]
         /\ window' \in [Events -> Window]
         /\ owed' \subseteq Events
<1>1. ASSUME NEW p \in Publishers, Claim(p)
      PROVE  outbox' \in [Events -> OutboxEvent] /\ publishers' \in [Publishers -> Publisher]
  <2>1. PICK batch \in SUBSET Events :
          /\ outbox' = [e \in Events |->
               IF e \in batch THEN [outbox[e] EXCEPT !.owner = p, !.leased = TRUE] ELSE outbox[e]]
          /\ publishers' = [publishers EXCEPT ![p].batch = batch]
    BY <1>1 DEF Claim
  <2>2. outbox' \in [Events -> OutboxEvent]
    <3>1. \A e \in Events : outbox[e] \in OutboxEvent
      BY DEF TypeOK
    <3>2. \A e \in Events : [outbox[e] EXCEPT !.owner = p, !.leased = TRUE] \in OutboxEvent
      BY <3>1 DEF OutboxEvent
    <3>q. QED BY <2>1, <3>1, <3>2
  <2>3. publishers[p] \in Publisher
    BY DEF TypeOK
  <2>4. [publishers[p] EXCEPT !.batch = batch] \in Publisher
    BY <2>3 DEF Publisher
  <2>q. QED BY <2>1, <2>2, <2>4, PublisherGoes
<1>2. ASSUME NEW p \in Publishers, NEW e \in Events, Look(p, e)
      PROVE  outbox' \in [Events -> OutboxEvent] /\ publishers' \in [Publishers -> Publisher]
  <2>1. publishers[p] \in Publisher
    BY DEF TypeOK
  <2>2. publishers[p].batch \ {e} \in SUBSET Events
    BY <2>1 DEF Publisher
  <2> DEFINE r == [pc |-> IF ~StillOwns(p, e) THEN "idle" ELSE IF e \in Invalid THEN "refusing" ELSE "sending",
                    batch |-> publishers[p].batch \ {e},
                    event |-> IF StillOwns(p, e) THEN e ELSE None]
  <2>3. publishers' = [publishers EXCEPT ![p] = r]
    BY <1>2 DEF Look
  <2>4. r \in Publisher
    BY <2>2 DEF Publisher
  <2>5. UNCHANGED outbox
    BY <1>2 DEF Look
  <2>q. QED BY <2>3, <2>4, <2>5, PublisherGoes DEF TypeOK
<1>3. ASSUME NEW p \in Publishers, Mark(p) \/ MarkFailed(p)
      PROVE  outbox' \in [Events -> OutboxEvent] /\ publishers' \in [Publishers -> Publisher]
  <2>1. outbox' \in [Events -> OutboxEvent]
    BY <1>3, Notes DEF TypeOK
  <2>2. publishers' = [publishers EXCEPT ![p].pc = "idle", ![p].event = None]
    BY <1>3, Notes
  <2> DEFINE with == [publishers[p] EXCEPT !.pc = "idle", !.event = None]
  <2>3. publishers \in [Publishers -> Publisher] /\ publishers[p] \in Publisher
    BY DEF TypeOK
  <2>4. with \in Publisher
    BY <2>3 DEF Publisher
  <2>5. publishers' = [publishers EXCEPT ![p] = with]
    BY <2>2, <2>3 DEF Publisher
  <2>q. QED BY <2>1, <2>4, <2>5, PublisherGoes
<1>4. ASSUME NEW p \in Publishers, CrashPublisher(p)
      PROVE  outbox' \in [Events -> OutboxEvent] /\ publishers' \in [Publishers -> Publisher]
  <2>1. Free \in Publisher
    BY DEF Free, Publisher
  <2>q. QED BY <1>4, <2>1, PublisherGoes DEF CrashPublisher, TypeOK
<1>5. ASSUME NEW e \in Events, LeaseExpires(e) \/ LeaseOutlived(e)
      PROVE  outbox' \in [Events -> OutboxEvent] /\ publishers' \in [Publishers -> Publisher]
  BY <1>5 DEF LeaseExpires, LeaseOutlived, OutboxEvent, TypeOK
<1>6. ASSUME NEW e \in Events, WindowPasses(e)
      PROVE  /\ window' \in [Events -> Window]
             /\ UNCHANGED <<outbox, publishers, owed>>
  BY <1>6 DEF WindowPasses, Window, TypeOK
<1>7. ASSUME NEW e \in Events, Replay(e)
      PROVE  /\ outbox' \in [Events -> OutboxEvent]
             /\ window' \in [Events -> Window]
             /\ owed' \subseteq Events
             /\ UNCHANGED publishers
  BY <1>7, RowType DEF Replay, Window, TypeOK
<1>8. ASSUME NEW p \in Publishers, Send(p) \/ SendRaises(p)
      PROVE  /\ publishers' \in [Publishers -> Publisher]
             /\ window' \in [Events -> Window]
             /\ owed' \subseteq Events
             /\ UNCHANGED outbox
  <2>1. publishers[p].event \in Events
    BY <1>8 DEF PublisherInvariant, Send, SendRaises, Doing
  <2>2. publishers' \in [Publishers -> Publisher]
    <3>1. publishers[p] \in Publisher
      BY DEF TypeOK
    <3>2. PICK pc \in {"marking", "failing"} : publishers' = [publishers EXCEPT ![p].pc = pc]
      BY <1>8 DEF Send, SendRaises
    <3>3. [publishers[p] EXCEPT !.pc = pc] \in Publisher
      BY <3>1 DEF Publisher
    <3>q. QED BY <3>2, <3>3, PublisherGoes
  <2>3. window' \in [Events -> Window] /\ owed' \subseteq Events
    BY <1>8, <2>1 DEF Send, SendRaises, Stored, Window, TypeOK
  <2>q. QED BY <1>8, <2>2, <2>3 DEF Send, SendRaises
<1>9. CASE OutboxStep
  <2>1. ASSUME NEW p \in Publishers, Claim(p) \/ (\E e \in Events : Look(p, e)) \/ Mark(p) \/ MarkFailed(p) \/ CrashPublisher(p)
        PROVE  UNCHANGED <<window, owed>>
    BY <2>1 DEF Claim, Look, Mark, MarkFailed, Note, CrashPublisher
  <2>2. ASSUME NEW e \in Events, LeaseExpires(e) \/ LeaseOutlived(e)
        PROVE  UNCHANGED <<window, owed>>
    BY <2>2 DEF LeaseExpires, LeaseOutlived
  <2>q. QED BY <1>9, <1>1, <1>2, <1>3, <1>4, <1>5, <1>6, <1>7, <2>1, <2>2 DEF OutboxStep, TypeOK
<1>10. CASE SendStep
  BY <1>10, <1>8 DEF SendStep, TypeOK
<1>q. QED BY <1>9, <1>10, NextCases, InboxFrame, BrokerFrame DEF TypeOK

LEMMA InboxType ==
  ASSUME TypeOK, PublisherInvariant, ConsumerInvariant, Next
  PROVE  /\ consumers' \in [Consumers -> Consumer]
         /\ inbox' \subseteq Events
         /\ dead' \subseteq DOMAIN stream'
         /\ effects' \in [Events -> Nat]
<1>1. \A c \in Consumers : ~Is(c, "idle") => EventOf(c) \in Events /\ consumers[c].message \in DOMAIN stream
  <2>1. \A m \in DOMAIN stream : stream[m] \in Message
    BY DEF TypeOK
  <2>q. QED BY <2>1 DEF ConsumerInvariant, EventOf, Message
<1>2. dead \subseteq DOMAIN stream'
  BY StreamKept DEF TypeOK
<1>3. CASE InboxStep
  <2>1. PICK c \in Consumers :
          \/ Flush(c) \/ Commit(c) \/ CommitUnheard(c) \/ Raise(c) \/ Nak(c)
          \/ DeadLetter(c) \/ DeadLetterRaises(c) \/ CrashConsumer(c)
    BY <1>3 DEF InboxStep
  <2>2. consumers' \in [Consumers -> Consumer]
    BY <2>1, ConsumerGoes
       DEF Flush, Commit, CommitUnheard, Raise, Nak, DeadLetter, DeadLetterRaises, CrashConsumer
  <2>3. inbox' \subseteq Events /\ effects' \in [Events -> Nat]
    <3>1. CASE Commit(c) \/ CommitUnheard(c)
      BY <3>1, <1>1 DEF Commit, CommitUnheard, Applied, Is, TypeOK
    <3>q. QED BY <2>1, <3>1 DEF Flush, Raise, Nak, DeadLetter, DeadLetterRaises, CrashConsumer, TypeOK
  <2>4. dead' \subseteq DOMAIN stream'
    <3>1. CASE DeadLetter(c) \/ DeadLetterRaises(c)
      <4>1. consumers[c].message \in DOMAIN stream' /\ consumers[c].message \in DOMAIN stream
        BY <3>1, <1>1, <1>3, InboxFrame DEF DeadLetter, DeadLetterRaises, Is
      <4>q. QED BY <3>1, <4>1, <1>2 DEF DeadLetter, DeadLetterRaises, Recorded
    <3>q. QED BY <2>1, <3>1, <1>2 DEF Flush, Commit, CommitUnheard, Raise, Nak, CrashConsumer
  <2>q. QED BY <2>2, <2>3, <2>4
<1>4. CASE BrokerStep
  <2>1. ASSUME NEW c \in Consumers, NEW m \in DOMAIN stream, Fetch(c, m)
        PROVE  consumers' \in [Consumers -> Consumer]
    <3>1. stream[m] \in Message /\ m \in Nat
      BY DEF TypeOK
    <3> DEFINE n == IF stream[m].deliveries < MaxDeliver THEN stream[m].deliveries + 1 ELSE MaxDeliver
    <3>2. n \in 0 .. MaxDeliver
      BY <3>1, DeliveryAssumption DEF Message
    <3>3. consumers' = [consumers EXCEPT ![c] = [pc |-> "received", message |-> m, deliveries |-> n]]
      BY <2>1 DEF Fetch
    <3>q. QED BY <3>1, <3>2, <3>3 DEF TypeOK, Consumer
  <2>2. ASSUME NEW c \in Consumers, Ack(c)
        PROVE  consumers' \in [Consumers -> Consumer]
    BY <2>2, ConsumerGoes DEF Ack
  <2>q. QED BY <1>4, <2>1, <2>2, <1>2, BrokerFrame DEF BrokerStep, TypeOK
<1>q. QED BY <1>2, <1>3, <1>4, NextCases, OutboxFrame, SendFrame DEF TypeOK

LEMMA TypeStep ==
  ASSUME TypeOK, PublisherInvariant, ConsumerInvariant, Next
  PROVE  TypeOK'
  BY OutboxType, InboxType, IncidentType, StreamKept DEF TypeOK

-----------------------------------------------------------------------------
(* Publishers, the window and the replays *)

\* What the steps of the outbox do to publishers and to owners.
LEMMA OwnersChange ==
  ASSUME TypeOK, PublisherInvariant, OutboxStep
  PROVE  /\ \A p \in Publishers :
              /\ publishers'[p].pc # "idle" =>
                   /\ publishers'[p].event \in Events
                   /\ publishers'[p].pc = "marking" => publishers'[p] = publishers[p]
              /\ \A e \in Events :
                   outbox'[e].owner = p => outbox[e].owner = p \/ publishers'[p].pc = "idle"
         /\ \A e \in Events : outbox'[e].owner # None => window[e] # "replayed" \/ outbox[e].owner # None
         /\ \A e \in Events :
              outbox'[e].delivered =>
                \/ outbox[e].delivered
                \/ \E p \in Publishers : Doing(p, "marking") /\ publishers[p].event = e /\ outbox[e].owner = p
<1>0. /\ publishers \in [Publishers -> Publisher] /\ outbox \in [Events -> OutboxEvent]
      /\ \A e \in Events : outbox[e] \in OutboxEvent
      /\ None \notin Publishers \cup Events
      /\ \A p \in Publishers : publishers[p] \in Publisher
  BY DeliveryAssumption DEF TypeOK
<1>1. ASSUME NEW q \in Publishers, Claim(q)
      PROVE  /\ \A p \in Publishers : publishers'[p].pc = publishers[p].pc /\ publishers'[p].event = publishers[p].event
             /\ \A p \in Publishers : p # q => publishers'[p] = publishers[p]
             /\ publishers'[q].pc = "idle"
             /\ \A e \in Events : outbox'[e].delivered = outbox[e].delivered
             /\ \A e \in Events : outbox'[e].owner = outbox[e].owner \/ (outbox'[e].owner = q /\ window[e] # "replayed")
  <2>1. PICK batch \in SUBSET {e \in Events : Claimable(e)} :
          /\ outbox' = [e \in Events |->
               IF e \in batch THEN [outbox[e] EXCEPT !.owner = q, !.leased = TRUE] ELSE outbox[e]]
          /\ publishers' = [publishers EXCEPT ![q].batch = batch]
    BY <1>1 DEF Claim
  <2>2. \A p \in Publishers : /\ publishers'[p].pc = publishers[p].pc /\ publishers'[p].event = publishers[p].event
                              /\ p # q => publishers'[p] = publishers[p]
    BY <2>1, <1>0 DEF Publisher
  <2>3. \A e \in Events : outbox'[e] = IF e \in batch THEN [outbox[e] EXCEPT !.owner = q, !.leased = TRUE] ELSE outbox[e]
    BY <2>1
  <2>4. \A e \in batch : window[e] # "replayed"
    BY <2>1 DEF Claimable
  <2>5. \A e \in Events : /\ [outbox[e] EXCEPT !.owner = q, !.leased = TRUE].delivered = outbox[e].delivered
                          /\ [outbox[e] EXCEPT !.owner = q, !.leased = TRUE].owner = q
    BY <1>0 DEF OutboxEvent
  <2>q. QED BY <1>1, <2>2, <2>3, <2>4, <2>5 DEF Claim, Doing
<1>2. ASSUME NEW q \in Publishers, NEW x \in Events, Look(q, x)
      PROVE  /\ UNCHANGED outbox
             /\ \A p \in Publishers : p # q => publishers'[p] = publishers[p]
             /\ publishers'[q].pc # "marking"
             /\ publishers'[q].pc # "idle" => publishers'[q].event \in Events
  BY <1>0, <1>2 DEF Look
<1>3. ASSUME NEW q \in Publishers, Mark(q) \/ MarkFailed(q)
      PROVE  /\ \A p \in Publishers : p # q => publishers'[p] = publishers[p]
             /\ publishers'[q].pc = "idle"
             /\ \A e \in Events :
                  \/ outbox'[e] = outbox[e]
                  \/ /\ outbox'[e].owner = None /\ publishers[q].event = e /\ outbox[e].owner = q
                     /\ outbox'[e].delivered => Doing(q, "marking")
  <2>1. PICK row \in OutboxEvent :
          /\ row.owner = None
          /\ row.delivered => Mark(q)
          /\ outbox' = IF StillOwns(q, publishers[q].event)
                       THEN [outbox EXCEPT ![publishers[q].event] = row] ELSE outbox
    BY <1>3, Notes
  <2>2. publishers[q].event \in Events /\ publishers' = [publishers EXCEPT ![q].pc = "idle", ![q].event = None]
    BY <1>3, Notes
  <2>3. \A p \in Publishers : p # q => publishers'[p] = publishers[p]
    BY <2>2, <1>0
  <2>4. publishers'[q].pc = "idle"
    BY <2>2, <1>0 DEF Publisher
  <2>5. \A e \in Events :
          outbox'[e] = outbox[e] \/ (outbox'[e] = row /\ publishers[q].event = e /\ outbox[e].owner = q)
    BY <2>1, <2>2, <1>0 DEF StillOwns
  <2>6. row.delivered => Doing(q, "marking")
    BY <2>1 DEF Mark
  <2>q. QED BY <2>1, <2>3, <2>4, <2>5, <2>6
<1>4. ASSUME NEW q \in Publishers, CrashPublisher(q)
      PROVE  /\ UNCHANGED outbox
             /\ \A p \in Publishers : p # q => publishers'[p] = publishers[p]
             /\ publishers'[q].pc = "idle"
  BY <1>0, <1>4 DEF CrashPublisher, Free
<1>5. ASSUME NEW x \in Events, LeaseExpires(x) \/ LeaseOutlived(x)
      PROVE  /\ UNCHANGED publishers
             /\ \A e \in Events : outbox'[e].owner = outbox[e].owner /\ outbox'[e].delivered = outbox[e].delivered
  BY <1>0, <1>5 DEF LeaseExpires, LeaseOutlived, OutboxEvent
<1>6. ASSUME NEW x \in Events, WindowPasses(x)
      PROVE  UNCHANGED <<publishers, outbox>>
  BY <1>6 DEF WindowPasses
<1>7. ASSUME NEW x \in Events, Replay(x)
      PROVE  /\ UNCHANGED publishers
             /\ \A e \in Events : outbox'[e] = outbox[e] \/ (outbox'[e].owner = None /\ ~outbox'[e].delivered)
  BY <1>0, <1>7, RowType DEF Replay
<1>8. \A p \in Publishers : publishers[p].pc # "idle" => publishers[p].event \in Events
  BY DEF PublisherInvariant, Doing
<1>q. QED
  <2>1. CASE \E q \in Publishers : Claim(q)
    BY <2>1, <1>0, <1>1, <1>8
  <2>2. CASE \E q \in Publishers, x \in Events : Look(q, x)
    BY <2>2, <1>0, <1>2, <1>8
  <2>3. CASE \E q \in Publishers : Mark(q) \/ MarkFailed(q)
    BY <2>3, <1>0, <1>3, <1>8
  <2>4. CASE \E q \in Publishers : CrashPublisher(q)
    BY <2>4, <1>0, <1>4, <1>8
  <2>5. CASE \E x \in Events : LeaseExpires(x) \/ LeaseOutlived(x) \/ WindowPasses(x) \/ Replay(x)
    BY <2>5, <1>0, <1>5, <1>6, <1>7, <1>8
  <2>q. QED BY <2>1, <2>2, <2>3, <2>4, <2>5 DEF OutboxStep

\* What they do to the window and the replays.
LEMMA WindowChange ==
  ASSUME TypeOK, PublisherInvariant, OutboxStep
  PROVE  \A e \in Events :
           /\ e \in owed' =>
                \/ e \in owed
                \/ outbox'[e].owner = None /\ ~outbox'[e].delivered /\ window'[e] # "open"
           /\ \/ window'[e] = "closed"
              \/ window'[e] = window[e]
              \/ window'[e] = "replayed" /\ window[e] = "open" /\ outbox'[e].owner = None
<1>1. CASE \E x \in Events : Replay(x)
  <2>1. PICK x \in Events : Replay(x)
    BY <1>1
  <2>2. /\ outbox' = [outbox EXCEPT ![x] = Row(FALSE, FALSE)]
        /\ window' = [window EXCEPT ![x] = IF window[x] = "open" THEN "replayed" ELSE window[x]]
        /\ owed' = owed \cup {x}
    BY <2>1 DEF Replay
  <2>3. outbox'[x].owner = None /\ ~outbox'[x].delivered
    BY <2>2, RowType DEF TypeOK
  <2>q. QED BY <2>2, <2>3 DEF TypeOK
<1>2. CASE \E x \in Events : WindowPasses(x)
  BY <1>2 DEF WindowPasses, TypeOK
<1>3. CASE UNCHANGED <<window, owed>>
  BY <1>3
<1>4. \/ UNCHANGED <<window, owed>>
      \/ \E x \in Events : WindowPasses(x) \/ Replay(x)
  BY DEF OutboxStep, Claim, Look, Mark, MarkFailed, Note, CrashPublisher, LeaseExpires, LeaseOutlived
<1>q. QED BY <1>1, <1>2, <1>3, <1>4

\* What a publication leaves: the broker remembers the event, or it did before.
LEMMA Stores ==
  ASSUME TypeOK, PublisherInvariant, WindowInvariant, NEW p \in Publishers, Send(p) \/ SendRaises(p)
  PROVE  /\ publishers[p].event \in Events
         /\ owed' \subseteq owed
         /\ \A e \in Events :
              window'[e] = window[e] \/ (window'[e] = "open" /\ e \notin owed' /\ Sent(e)')
         /\ Send(p) => \A e \in Events :
              e = publishers[p].event => Sent(e)' /\ (outbox[e].owner = p => e \notin owed')
<1>1. PICK event \in Events : event = publishers[p].event
  BY DEF PublisherInvariant, Send, SendRaises, Doing
<1>2. CASE UNCHANGED <<stream, window, owed>> /\ ~Send(p)
  BY <1>1, <1>2
<1>3. CASE Stored(event) /\ window[event] = "closed"
  <2>1. /\ stream' = Append(stream, [event |-> event, deliveries |-> 0, acked |-> FALSE])
        /\ window' = [window EXCEPT ![event] = "open"]
        /\ owed' = owed \ {event}
    BY <1>3 DEF Stored
  <2>2. [event |-> event, deliveries |-> 0, acked |-> FALSE] \in Message
    BY DeliveryAssumption DEF Message
  <2>3. Len(stream) + 1 \in DOMAIN stream' /\ stream'[Len(stream) + 1].event = event
    BY <2>1, <2>2, AppendProperties, LenProperties DEF TypeOK
  <2>4. Sent(event)'
    BY <2>3 DEF Sent
  <2>q. QED BY <1>1, <2>1, <2>4 DEF TypeOK
<1>4. CASE Stored(event) /\ window[event] # "closed"
  <2>1. UNCHANGED <<stream, window, owed>>
    BY <1>4 DEF Stored
  <2>2. Sent(event)
    BY <1>4 DEF WindowInvariant
  <2>3. outbox[event].owner = p => event \notin owed
    BY <1>4, DeliveryAssumption DEF WindowInvariant, Window, TypeOK
  <2>4. Sent(event)'
    BY <2>1, <2>2 DEF Sent
  <2>q. QED BY <1>1, <2>1, <2>3, <2>4
<1>q. QED BY <1>1, <1>2, <1>3, <1>4 DEF Send, SendRaises

LEMMA PublisherInvariantStep ==
  ASSUME TypeOK, PublisherInvariant, WindowInvariant, ConsumerInvariant, Next
  PROVE  PublisherInvariant'
<1>0. \A p \in Publishers :
        /\ publishers[p].pc # "idle" => publishers[p].event \in Events
        /\ publishers[p].pc = "marking" =>
             /\ Sent(publishers[p].event)
             /\ outbox[publishers[p].event].owner = p => publishers[p].event \notin owed
  BY DEF PublisherInvariant, Doing
<1>1. ASSUME NEW p \in Publishers, publishers'[p].pc # "idle"
      PROVE  \E e \in Events :
               /\ publishers'[p].event = e
               /\ publishers'[p].pc = "marking" => Sent(e)' /\ (outbox'[e].owner = p => e \notin owed')
  <2>1. CASE OutboxStep
    <3>1. PICK e \in Events : publishers'[p].event = e
      BY <1>1, <2>1, OwnersChange
    <3>2. ASSUME publishers'[p].pc = "marking"
          PROVE  Sent(e)' /\ (outbox'[e].owner = p => e \notin owed')
      <4>1. publishers'[p] = publishers[p]
        BY <1>1, <2>1, <3>2, OwnersChange
      <4>2. Sent(e) /\ (outbox[e].owner = p => e \notin owed)
        BY <1>0, <3>1, <3>2, <4>1
      <4>3. outbox'[e].owner = p => outbox[e].owner = p
        BY <1>1, <2>1, OwnersChange
      <4>4. e \in owed' => e \in owed \/ outbox'[e].owner = None
        BY <2>1, WindowChange
      <4>q. QED BY <4>2, <4>3, <4>4, StreamKept, DeliveryAssumption
    <3>q. QED BY <3>1, <3>2
  <2>2. CASE SendStep
    <3>1. PICK q \in Publishers : Send(q) \/ SendRaises(q)
      BY <2>2 DEF SendStep
    <3>2. PICK pc \in {"marking", "failing"} :
            publishers' = [publishers EXCEPT ![q].pc = pc] /\ (pc = "marking" => Send(q))
      <4>1. SendRaises(q) => publishers' = [publishers EXCEPT ![q].pc = "failing"]
        BY DEF SendRaises
      <4>2. Send(q) => publishers' = [publishers EXCEPT ![q].pc = "marking"]
        BY DEF Send
      <4>q. QED BY <3>1, <4>1, <4>2
    <3>3. publishers \in [Publishers -> Publisher] /\ publishers[q] \in Publisher
      BY DEF TypeOK
    <3>4. publishers'[q].pc = pc /\ publishers'[q].event = publishers[q].event
      BY <3>2, <3>3 DEF Publisher
    <3>5. p # q => publishers'[p] = publishers[p]
      BY <3>2, <3>3
    <3>6. UNCHANGED outbox /\ owed' \subseteq owed
      BY <2>2, <3>1, SendFrame, Stores
    <3>7. CASE p = q
      <4>1. PICK e \in Events : e = publishers[p].event
        BY <3>1, <3>7, Stores
      <4>2. pc = "marking" => Sent(e)' /\ (outbox[e].owner = p => e \notin owed')
        BY <3>1, <3>2, <3>7, <4>1, Stores
      <4>q. QED BY <3>4, <3>6, <3>7, <4>1, <4>2
    <3>8. CASE p # q
      BY <1>0, <1>1, <3>5, <3>6, <3>8, StreamKept
    <3>q. QED BY <3>7, <3>8
  <2>3. CASE InboxStep \/ BrokerStep
    <3>1. UNCHANGED <<outbox, publishers, owed>>
      BY <2>3, InboxFrame, BrokerFrame
    <3>q. QED BY <1>0, <1>1, <3>1, StreamKept
  <2>q. QED BY <2>1, <2>2, <2>3, NextCases
<1>q. QED BY <1>1 DEF PublisherInvariant, Doing, Sent

LEMMA WindowInvariantStep ==
  ASSUME TypeOK, PublisherInvariant, WindowInvariant, ConsumerInvariant, Next
  PROVE  WindowInvariant'
<1> SUFFICES ASSUME NEW e \in Events
             PROVE  /\ window'[e] # "closed" => Sent(e)'
                    /\ window'[e] = "open" => e \notin owed'
                    /\ window'[e] = "replayed" => outbox'[e].owner = None
  BY DEF WindowInvariant
<1>1. /\ window[e] # "closed" => Sent(e)
      /\ window[e] = "open" => e \notin owed
      /\ window[e] = "replayed" => outbox[e].owner = None
  BY DEF WindowInvariant
<1>2. Sent(e) => Sent(e)'
  BY StreamKept
<1>3. CASE OutboxStep
  <2>1. /\ e \in owed' => e \in owed \/ window'[e] # "open"
        /\ \/ window'[e] = "closed"
           \/ window'[e] = window[e]
           \/ window'[e] = "replayed" /\ window[e] = "open" /\ outbox'[e].owner = None
    BY <1>3, WindowChange
  <2>2. outbox'[e].owner # None => window[e] # "replayed" \/ outbox[e].owner # None
    BY <1>3, OwnersChange
  <2>q. QED BY <1>1, <1>2, <2>1, <2>2
<1>4. CASE SendStep
  <2>1. PICK p \in Publishers : Send(p) \/ SendRaises(p)
    BY <1>4 DEF SendStep
  <2>q. QED BY <1>1, <1>2, <1>4, <2>1, SendFrame, Stores
<1>5. CASE InboxStep \/ BrokerStep
  BY <1>1, <1>2, <1>5, InboxFrame, BrokerFrame
<1>q. QED BY <1>3, <1>4, <1>5, NextCases

LEMMA NoReplayLostStep ==
  ASSUME TypeOK, PublisherInvariant, WindowInvariant, NoReplayLost, Next
  PROVE  NoReplayLost'
<1>1. owed \subseteq Events
  BY DEF TypeOK
<1>2. CASE OutboxStep
  <2> SUFFICES ASSUME NEW e \in owed', outbox'[e].delivered
               PROVE  FALSE
    BY DEF NoReplayLost
  <2>1. e \in Events
    BY OutboxType
  <2>2. e \in owed
    BY <1>2, <2>1, WindowChange
  <2>3. PICK p \in Publishers : Doing(p, "marking") /\ publishers[p].event = e /\ outbox[e].owner = p
    BY <1>2, <2>1, <2>2, OwnersChange DEF NoReplayLost
  <2>q. QED BY <2>2, <2>3 DEF PublisherInvariant
<1>3. CASE SendStep
  <2>1. owed' \subseteq owed /\ UNCHANGED outbox
    BY <1>3, Stores, SendFrame DEF SendStep
  <2>q. QED BY <2>1 DEF NoReplayLost
<1>4. CASE InboxStep \/ BrokerStep
  BY <1>4, InboxFrame, BrokerFrame DEF NoReplayLost
<1>q. QED BY <1>2, <1>3, <1>4, NextCases

-----------------------------------------------------------------------------
(* Consumers, the inbox and the dead letters *)

\* A message a consumer has in hand stays what it is.
LEMMA HandKept ==
  ASSUME TypeOK, PublisherInvariant, ConsumerInvariant, Next, NEW c \in Consumers, ~Is(c, "idle")
  PROVE  /\ consumers[c].message \in DOMAIN stream /\ consumers[c].message \in DOMAIN stream'
         /\ stream'[consumers[c].message].event = EventOf(c)
         /\ EventOf(c) \in Events
         /\ consumers[c].deliveries <= stream[consumers[c].message].deliveries
         /\ consumers[c].deliveries <= stream'[consumers[c].message].deliveries
<1> DEFINE m == consumers[c].message
<1>1. m \in DOMAIN stream /\ consumers[c].deliveries <= stream[m].deliveries
  BY DEF ConsumerInvariant
<1>2. m \in DOMAIN stream' /\ stream'[m].event = stream[m].event /\ stream[m].deliveries <= stream'[m].deliveries
  BY <1>1, StreamKept
<1>3. stream[m] \in Message /\ stream'[m] \in Message /\ consumers[c] \in Consumer
  BY <1>1, <1>2, StreamKept DEF TypeOK
<1>4. stream[m].deliveries \in Nat /\ stream'[m].deliveries \in Nat /\ consumers[c].deliveries \in Nat
  BY <1>3, DeliveryAssumption DEF Message, Consumer
<1>5. stream[m].event \in Events
  BY <1>3 DEF Message
<1>q. QED BY <1>1, <1>2, <1>4, <1>5 DEF EventOf

\* A step of a consumer moves no other, and what it does next is settled.
LEMMA InboxStepOf ==
  ASSUME TypeOK, ConsumerInvariant, NEW c \in Consumers,
         \/ Flush(c) \/ Commit(c) \/ CommitUnheard(c) \/ Raise(c) \/ Nak(c)
         \/ DeadLetter(c) \/ DeadLetterRaises(c) \/ CrashConsumer(c)
  PROVE  /\ \A other \in Consumers : other # c => consumers'[other] = consumers[other]
         /\ consumers'[c].pc # "idle" =>
              /\ consumers'[c].message = consumers[c].message
              /\ consumers'[c].deliveries = consumers[c].deliveries
              /\ ~Is(c, "idle")
         /\ inbox \subseteq inbox' /\ dead \subseteq dead'
         /\ inbox' \subseteq inbox \cup (IF Is(c, "applying") THEN {EventOf(c)} ELSE {})
         /\ consumers'[c].pc = "applying" => MarkerFree(c) /\ ~Known(c) /\ UNCHANGED inbox
         /\ consumers'[c].pc = "acking" => EventOf(c) \in inbox' \/ consumers[c].message \in dead'
<1>1. consumers \in [Consumers -> Consumer] /\ consumers[c] \in Consumer
  BY DEF TypeOK
<1>2. ASSUME NEW pc \in {"applying", "acking", "failing"}, Goes(c, pc)
      PROVE  /\ \A other \in Consumers : other # c => consumers'[other] = consumers[other]
             /\ consumers'[c].message = consumers[c].message
             /\ consumers'[c].deliveries = consumers[c].deliveries
             /\ consumers'[c].pc = pc
  BY <1>1, <1>2 DEF Goes, Consumer
<1>3. ASSUME Rests(c)
      PROVE  /\ \A other \in Consumers : other # c => consumers'[other] = consumers[other]
             /\ consumers'[c].pc = "idle"
  BY <1>1, <1>3 DEF Rests, Resting
<1>4. CASE Flush(c)
  BY <1>2, <1>4 DEF Flush, Is, Known
<1>5. CASE Commit(c) \/ CommitUnheard(c)
  <2>1. PICK pc \in {"acking", "failing"} : Goes(c, pc)
    BY <1>5 DEF Commit, CommitUnheard
  <2>2. Is(c, "applying") /\ inbox' = inbox \cup {EventOf(c)} /\ UNCHANGED dead
    BY <1>5 DEF Commit, CommitUnheard, Applied
  <2>q. QED BY <1>2, <2>1, <2>2 DEF Is
<1>6. CASE Raise(c)
  BY <1>2, <1>6 DEF Raise, Is
<1>7. CASE Nak(c) \/ DeadLetterRaises(c) \/ CrashConsumer(c)
  BY <1>3, <1>7 DEF Nak, DeadLetterRaises, CrashConsumer, Recorded
<1>8. CASE DeadLetter(c)
  BY <1>2, <1>8 DEF DeadLetter, Recorded, Is
<1>q. QED BY <1>4, <1>5, <1>6, <1>7, <1>8

LEMMA ConsumerInvariantStep ==
  ASSUME TypeOK, PublisherInvariant, ConsumerInvariant, NothingLost, Next
  PROVE  ConsumerInvariant'
<1>0. \A c \in Consumers : ~Is(c, "idle") =>
        /\ consumers[c].message \in DOMAIN stream'
        /\ stream'[consumers[c].message].event = EventOf(c)
        /\ consumers[c].deliveries <= stream'[consumers[c].message].deliveries
  BY HandKept
<1>1. CASE UNCHANGED <<consumers, inbox, dead>>
  BY <1>0, <1>1 DEF ConsumerInvariant, Is, EventOf
<1>2. CASE BrokerStep
  <2>1. inbox' = inbox /\ dead' = dead
    BY <1>2, BrokerFrame
  <2>2. ASSUME NEW c \in Consumers, NEW m \in DOMAIN stream, Fetch(c, m)
        PROVE  ConsumerInvariant'
    <3>1. stream[m] \in Message /\ stream \in Seq(Message)
      BY DEF TypeOK
    <3> DEFINE n == IF stream[m].deliveries < MaxDeliver THEN stream[m].deliveries + 1 ELSE MaxDeliver
    <3>2. n \in Nat
      BY <3>1, DeliveryAssumption DEF Message
    <3>3. stream' = [stream EXCEPT ![m].deliveries = n]
      BY <2>2 DEF Fetch
    <3>4. m \in DOMAIN stream' /\ stream'[m].deliveries = n
      BY <3>1, <3>3 DEF Message
    <3> HIDE DEF n
    <3>5. consumers' = [consumers EXCEPT ![c] = [pc |-> "received", message |-> m, deliveries |-> n]]
      BY <2>2 DEF Fetch, n
    <3>6. /\ consumers'[c] = [pc |-> "received", message |-> m, deliveries |-> n]
          /\ \A other \in Consumers : other # c => consumers'[other] = consumers[other]
      BY <3>5 DEF TypeOK
    <3>7. n <= n
      BY <3>2
    <3>q. QED BY <1>0, <2>1, <3>4, <3>6, <3>7 DEF ConsumerInvariant, Is, EventOf
  <2>3. ASSUME NEW c \in Consumers, Ack(c)
        PROVE  ConsumerInvariant'
    <3>1. /\ consumers'[c].pc = "idle"
          /\ \A other \in Consumers : other # c => consumers'[other] = consumers[other]
      BY <2>3 DEF Ack, Rests, Resting, TypeOK
    <3>q. QED BY <1>0, <2>1, <3>1 DEF ConsumerInvariant, Is, EventOf
  <2>q. QED BY <1>2, <2>2, <2>3 DEF BrokerStep
<1>3. CASE InboxStep
  <2>1. PICK c \in Consumers :
          \/ Flush(c) \/ Commit(c) \/ CommitUnheard(c) \/ Raise(c) \/ Nak(c)
          \/ DeadLetter(c) \/ DeadLetterRaises(c) \/ CrashConsumer(c)
    BY <1>3 DEF InboxStep
  <2>2. UNCHANGED stream
    BY <1>3, InboxFrame
  <2>3. /\ \A other \in Consumers : other # c => consumers'[other] = consumers[other]
        /\ consumers'[c].pc # "idle" =>
             /\ consumers'[c].message = consumers[c].message
             /\ consumers'[c].deliveries = consumers[c].deliveries
             /\ ~Is(c, "idle")
        /\ inbox \subseteq inbox' /\ dead \subseteq dead'
        /\ inbox' \subseteq inbox \cup (IF Is(c, "applying") THEN {EventOf(c)} ELSE {})
        /\ consumers'[c].pc = "applying" => MarkerFree(c) /\ ~Known(c) /\ UNCHANGED inbox
        /\ consumers'[c].pc = "acking" => EventOf(c) \in inbox' \/ consumers[c].message \in dead'
    BY <2>1, InboxStepOf
  <2>4. \A d \in Consumers : consumers'[d].pc # "idle" =>
          /\ ~Is(d, "idle")
          /\ consumers'[d].message = consumers[d].message
          /\ consumers'[d].deliveries = consumers[d].deliveries
          /\ EventOf(d)' = EventOf(d)
    BY <2>2, <2>3 DEF Is, EventOf
  <2>5. ASSUME NEW d \in Consumers, consumers'[d].pc = "applying"
        PROVE  /\ EventOf(d) \notin inbox'
               /\ \A other \in Consumers \ {d} : consumers'[other].pc = "applying" => EventOf(other) # EventOf(d)
    <3>1. CASE d = c
      BY <2>3, <2>5, <3>1 DEF MarkerFree, Known, Is
    <3>2. CASE d # c
      <4>1. Is(d, "applying")
        BY <2>3, <2>5, <3>2 DEF Is
      <4>2. EventOf(d) \notin inbox'
        BY <2>3, <3>2, <4>1 DEF ConsumerInvariant
      <4>3. ASSUME NEW other \in Consumers \ {d}, consumers'[other].pc = "applying"
            PROVE  EventOf(other) # EventOf(d)
        <5>1. CASE other = c
          BY <2>3, <4>1, <4>3, <5>1 DEF MarkerFree
        <5>2. CASE other # c
          BY <2>3, <4>1, <4>3, <5>2 DEF ConsumerInvariant, Is
        <5>q. QED BY <5>1, <5>2
      <4>q. QED BY <4>2, <4>3
    <3>q. QED BY <3>1, <3>2
  <2>6. ASSUME NEW d \in Consumers, consumers'[d].pc = "acking"
        PROVE  EventOf(d) \in inbox' \/ consumers[d].message \in dead'
    <3>1. CASE d # c
      BY <2>3, <2>6, <3>1 DEF ConsumerInvariant, Is
    <3>q. QED BY <2>3, <2>6, <3>1
  <2>q. QED BY <1>0, <2>4, <2>5, <2>6 DEF ConsumerInvariant, Is
<1>q. QED BY <1>1, <1>2, <1>3, NextCases, OutboxFrame, SendFrame

LEMMA AppliedOnceStep ==
  ASSUME TypeOK, PublisherInvariant, ConsumerInvariant, AppliedOnce, Next
  PROVE  AppliedOnce'
<1>1. CASE \E c \in Consumers : Commit(c) \/ CommitUnheard(c)
  <2>1. PICK c \in Consumers : Commit(c) \/ CommitUnheard(c)
    BY <1>1
  <2>2. /\ inbox' = inbox \cup {EventOf(c)}
        /\ effects' = [effects EXCEPT ![EventOf(c)] = effects[EventOf(c)] + 1]
        /\ Is(c, "applying")
    BY <2>1 DEF Commit, CommitUnheard, Applied
  <2>3. EventOf(c) \in Events /\ EventOf(c) \notin inbox
    BY <2>2, HandKept DEF ConsumerInvariant, Is
  <2>4. effects[EventOf(c)] = 0
    BY <2>3 DEF AppliedOnce
  <2>q. QED BY <2>2, <2>3, <2>4 DEF AppliedOnce, TypeOK
<1>2. CASE UNCHANGED <<inbox, effects>>
  BY <1>2 DEF AppliedOnce
<1>3. InboxStep => UNCHANGED <<inbox, effects>> \/ \E c \in Consumers : Commit(c) \/ CommitUnheard(c)
  BY DEF InboxStep, Flush, Raise, Nak, DeadLetter, DeadLetterRaises, CrashConsumer
<1>q. QED BY <1>1, <1>2, <1>3, NextCases, OutboxFrame, SendFrame, BrokerFrame

LEMMA NothingLostStep ==
  ASSUME TypeOK, PublisherInvariant, ConsumerInvariant, NothingLost, Next
  PROVE  NothingLost'
<1>1. ASSUME NEW e \in Events, outbox'[e].delivered
      PROVE  Sent(e)'
  <2>1. CASE outbox[e].delivered
    BY <2>1, StreamKept DEF NothingLost
  <2>2. CASE OutboxStep /\ ~outbox[e].delivered
    <3>1. PICK p \in Publishers : Doing(p, "marking") /\ publishers[p].event = e
      BY <1>1, <2>2, OwnersChange
    <3>q. QED BY <3>1, StreamKept DEF PublisherInvariant
  <2>q. QED BY <1>1, <2>1, <2>2, NextCases, SendFrame, InboxFrame, BrokerFrame
<1>2. inbox \subseteq inbox' /\ dead \subseteq dead'
  BY NextCases, OutboxFrame, SendFrame, BrokerFrame, InboxStepOf DEF InboxStep
<1>3. ASSUME NEW m \in DOMAIN stream', stream'[m].acked
      PROVE  stream'[m].event \in inbox' \/ m \in dead'
  <2>1. CASE m \in DOMAIN stream /\ stream[m].acked
    BY <1>2, <2>1, StreamKept DEF NothingLost
  <2>2. CASE SendStep
    BY <1>3, <2>1, <2>2, SendsAppend
  <2>3. CASE BrokerStep /\ ~(m \in DOMAIN stream /\ stream[m].acked)
    <3>1. m \in DOMAIN stream /\ ~stream[m].acked
      BY <2>3, BrokerRewrites
    <3>2. ASSUME NEW c \in Consumers, NEW k \in DOMAIN stream, Fetch(c, k)
          PROVE  FALSE
      <4>1. stream[m] \in Message /\ stream[k] \in Message
        BY <3>1 DEF TypeOK
      <4>2. PICK n : stream' = [stream EXCEPT ![k].deliveries = n]
        BY <3>2 DEF Fetch
      <4>3. stream'[m].acked = stream[m].acked
        BY <3>1, <4>1, <4>2 DEF Message
      <4>q. QED BY <1>3, <3>1, <4>3
    <3>3. PICK c \in Consumers : Ack(c)
      BY <2>3, <3>2 DEF BrokerStep
    <3>4. m = consumers[c].message
      BY <1>3, <3>1, <3>3 DEF Ack, TypeOK
    <3>5. EventOf(c) \in inbox \/ consumers[c].message \in dead
      BY <3>3 DEF Ack, ConsumerInvariant
    <3>q. QED BY <1>2, <3>1, <3>4, <3>5, StreamKept DEF EventOf
  <2>q. QED BY <1>3, <2>1, <2>2, <2>3, NextCases, OutboxFrame, InboxFrame
<1>q. QED BY <1>1, <1>3 DEF NothingLost

LEMMA DeadAfterTriesStep ==
  ASSUME TypeOK, PublisherInvariant, ConsumerInvariant, DeadAfterTries, Next
  PROVE  DeadAfterTries'
<1>1. \A m \in DOMAIN stream' : stream'[m].deliveries \in 0 .. MaxDeliver
  <2>1. \A m \in DOMAIN stream' : stream'[m] \in Message
    BY StreamKept
  <2>q. QED BY <2>1 DEF Message
<1>2. ASSUME NEW m \in dead
      PROVE  stream'[m].deliveries = MaxDeliver
  <2>1. m \in DOMAIN stream /\ stream[m].deliveries = MaxDeliver
    BY DEF TypeOK, DeadAfterTries
  <2>2. m \in DOMAIN stream' /\ MaxDeliver <= stream'[m].deliveries
    BY <2>1, StreamKept
  <2>q. QED BY <1>1, <2>2, DeliveryAssumption
<1>3. ASSUME NEW c \in Consumers, DeadLetter(c) \/ DeadLetterRaises(c)
      PROVE  stream'[consumers[c].message].deliveries = MaxDeliver
  <2> DEFINE m == consumers[c].message
  <2>1. ~Is(c, "idle") /\ ~(consumers[c].deliveries < MaxDeliver)
    BY <1>3 DEF DeadLetter, DeadLetterRaises, TriesLeft, Is
  <2>2. m \in DOMAIN stream' /\ consumers[c].deliveries <= stream'[m].deliveries
    BY <2>1, HandKept
  <2>3. consumers[c].deliveries \in 0 .. MaxDeliver
    BY DEF TypeOK, Consumer
  <2>q. QED BY <1>1, <2>1, <2>2, <2>3, DeliveryAssumption
<1>4. ASSUME NEW m \in dead' \ dead
      PROVE  \E c \in Consumers : (DeadLetter(c) \/ DeadLetterRaises(c)) /\ m = consumers[c].message
  <2>1. InboxStep
    BY <1>4, NextCases, OutboxFrame, SendFrame, BrokerFrame
  <2>q. QED
    BY <1>4, <2>1
       DEF InboxStep, Flush, Commit, CommitUnheard, Raise, Nak, DeadLetter, DeadLetterRaises, CrashConsumer, Recorded
<1>q. QED BY <1>2, <1>3, <1>4 DEF DeadAfterTries

-----------------------------------------------------------------------------
LEMMA Start ==
  ASSUME Init
  PROVE  IInv
<1>1. TypeOK
  <2>1. outbox \in [Events -> OutboxEvent]
    BY RowType DEF Init
  <2>2. publishers \in [Publishers -> Publisher]
    BY DEF Init, Free, Publisher
  <2>3. consumers \in [Consumers -> Consumer]
    BY DeliveryAssumption DEF Init, Resting, Consumer
  <2>4. stream \in Seq(Message) /\ dead \subseteq DOMAIN stream
    BY DEF Init
  <2>5. left \in 0 .. MaxIncidents
    BY DeliveryAssumption DEF Init
  <2>q. QED BY <2>1, <2>2, <2>3, <2>4, <2>5 DEF Init, Window, TypeOK
<1>2. \A e \in Events : ~outbox[e].delivered
  BY RowType DEF Init
<1>3. DOMAIN stream = {}
  BY DEF Init
<1>q. QED
  BY <1>1, <1>2, <1>3
     DEF IInv, Init, Free, Resting, PublisherInvariant, WindowInvariant, ConsumerInvariant, Doing, Is,
         AppliedOnce, NothingLost, NoReplayLost, DeadAfterTries

\* Whatever publishers, consumers, the broker and an administrator do, IInv holds.
THEOREM Invariance == Spec => []IInv
<1>1. Init => IInv
  BY Start
<1>2. ASSUME IInv, Next
      PROVE  IInv'
  BY <1>2, TypeStep, PublisherInvariantStep, WindowInvariantStep, ConsumerInvariantStep, AppliedOnceStep,
     NothingLostStep, NoReplayLostStep, DeadAfterTriesStep DEF IInv
<1>3. ASSUME IInv, UNCHANGED vars
      PROVE  IInv'
  BY <1>3 DEF vars, IInv, TypeOK, PublisherInvariant, WindowInvariant, ConsumerInvariant, AppliedOnce,
              NothingLost, NoReplayLost, DeadAfterTries, Doing, Is, EventOf, Sent
<1>q. QED BY <1>1, <1>2, <1>3, PTL DEF Spec

\* Every variable keeps its type.
THEOREM TypeCorrect == Spec => []TypeOK
<1>1. IInv => TypeOK
  BY DEF IInv
<1>q. QED BY <1>1, Invariance, PTL

\* DatabaseInboxHandler applies an event at most once, and never marks one it has not applied.
THEOREM AppliedOnceHolds == Spec => []AppliedOnce
<1>1. IInv => AppliedOnce
  BY DEF IInv
<1>q. QED BY <1>1, Invariance, PTL

\* OutboxPublisher and DurableConsumer lose no event.
THEOREM NothingLostHolds == Spec => []NothingLost
<1>1. IInv => NothingLost
  BY DEF IInv
<1>q. QED BY <1>1, Invariance, PTL

\* DeliveryRepository.replay(): no replay is swallowed by the deduplication window.
THEOREM NoReplayLostHolds == Spec => []NoReplayLost
<1>1. IInv => NoReplayLost
  BY DEF IInv
<1>q. QED BY <1>1, Invariance, PTL

\* record_failure() gives up no message before its last delivery.
THEOREM DeadAfterTriesHolds == Spec => []DeadAfterTries
<1>1. IInv => DeadAfterTries
  BY DEF IInv
<1>q. QED BY <1>1, Invariance, PTL
=============================================================================
