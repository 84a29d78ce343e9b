--------------------------- MODULE IdempotentIngest ---------------------------
(***************************************************************************)
(* What the intake of news promises to whoever submits                      *)
(* (docs/contracts/ingest.md:12-15): a submission is accepted once, its     *)
(* identical repeat is told "duplicate" ever after, and another payload     *)
(* under one of its identities is a conflict.  While the source is disabled *)
(* (docs/contracts/ingest.md:6-9) a submission may be declined instead, a   *)
(* repeat too, and leaves no trace.                                         *)
(***************************************************************************)
CONSTANTS Handlers, Requests, Nothing

VARIABLES rows, told, open

Meets(q, r) == q.ids \cap r.ids # {}

Steady == open' = open

Init == rows = {} /\ told = [h \in Handlers |-> Nothing] /\ open = TRUE

Tell(h, r, outcome) == told' = [told EXCEPT ![h] = [request |-> r, outcome |-> outcome]]

Accept(h, r) ==
  /\ \A q \in rows : ~Meets(q, r)
  /\ rows' = rows \cup {r}
  /\ Tell(h, r, "accepted")
  /\ Steady

Recognise(h, r) == r \in rows /\ Tell(h, r, "duplicate") /\ UNCHANGED rows /\ Steady

Refuse(h, r) == r \notin rows /\ Tell(h, r, "conflict") /\ UNCHANGED rows /\ Steady

Decline(h, r) == ~open /\ Tell(h, r, "declined") /\ UNCHANGED rows /\ Steady

\* The answer arrives, or is lost.
Hear(h) == told' = [told EXCEPT ![h] = Nothing] /\ UNCHANGED rows /\ Steady

\* The row is committed and its answer never sent.
AcceptUnheard(r) ==
  /\ \A q \in rows : ~Meets(q, r)
  /\ rows' = rows \cup {r}
  /\ UNCHANGED told /\ Steady

Switch == open' = ~open /\ UNCHANGED <<rows, told>>

Next ==
  \/ Switch
  \/ \E h \in Handlers : Hear(h)
  \/ \E r \in Requests : AcceptUnheard(r)
  \/ \E h \in Handlers, r \in Requests :
       Accept(h, r) \/ Recognise(h, r) \/ Refuse(h, r) \/ Decline(h, r)

Spec == Init /\ [][Next]_<<rows, told, open>>
=============================================================================
