----------------------------- MODULE TaxonomySync -----------------------------
(***************************************************************************)
(* `taxonomy-apply`: a file lists the axes and values of the taxonomy and   *)
(* which value a source stands for; the tool reads what main has, plans the *)
(* difference and sends it, request by request, while administrators edit   *)
(* and other runs of the tool are under way.                                *)
(* Sources: taxonomy.py and apply_taxonomy.py of the tools,                 *)
(* taxonomy_repository.py and source_repository.py of main.                 *)
(*                                                                          *)
(* An axis (facet), a value and a source are items alike: `kind` is that of *)
(* an axis, `text` stands for the fields the file states (for a source its  *)
(* default labels of the axes in the file), `note` for the ones it does not *)
(* state, `on` for enabled.  Nothing is ever deleted.  The jobs that an     *)
(* update creates are those of Labels; audit rows are left out, and so is a *)
(* dry run, which only reads.                                               *)
(***************************************************************************)
EXTENDS Integers, Sequences, FiniteSets, SequencesExt

CONSTANTS
  Tools,            \* runs of the tool that may be under way at once
  Facets, Values, Sources,
  FacetOf,          \* the axis of each value
  File,             \* what the file states of the items it lists
  Starts,           \* what main may have at first
  Kinds,            \* of an axis: single, multi
  MaxEdits,         \* bounds what administrators do
  MaxFaults,        \* bounds the requests whose answer is lost
  Absent

\* What stands for the kind of an item that has none.
AnyKind == CHOOSE k \in Kinds : TRUE

Items == Facets \cup Values \cup Sources
Listed == DOMAIN File

Record == [kind : Kinds, text : Nat, note : Nat, on : BOOLEAN]

ASSUME TaxonomyAssumption ==
  /\ Facets \cap Values = {} /\ (Facets \cup Values) \cap Sources = {}
  /\ FacetOf \in [Values -> Facets]
  /\ Listed \subseteq Items
  /\ \A i \in Listed : File[i] \in [kind : Kinds, text : Nat]
  /\ \A v \in Listed \cap Values : FacetOf[v] \in Listed
  /\ \A i \in Listed \ Facets : File[i].kind = AnyKind
  /\ Starts \subseteq [Items -> Record \cup {Absent}]
  /\ Absent \notin Record /\ IsFiniteSet(Items)
  /\ MaxEdits \in Nat /\ MaxFaults \in Nat

VARIABLES
  db,        \* what main has
  revision,  \* the setting taxonomy_revision
  tool,      \* [pc, off, plan] of each run; off is deactivate_extra
  edited,    \* the items others wrote since a run listed them
  edits, faults

syncVars == <<db, revision, tool, edited, edits, faults>>

Has(view, i) == view[i] # Absent

Idle == [pc |-> "idle", off |-> FALSE, plan |-> <<>>]

Request == [op : {"create", "patch"}, item : Items, to : Record]

SyncTypeOK ==
  /\ db \in [Items -> Record \cup {Absent}]
  /\ revision \in Nat
  /\ \A t \in Tools : /\ tool[t].pc \in {"idle", "listed", "sending"}
                      /\ tool[t].off \in BOOLEAN
                      /\ tool[t].plan \in Seq(Request)
  /\ edited \in [Tools -> SUBSET Items]
  /\ edits \in 0 .. MaxEdits /\ faults \in 0 .. MaxFaults

SyncInit ==
  /\ db \in Starts
  /\ revision = 0
  /\ tool = [t \in Tools |-> Idle]
  /\ edited = [t \in Tools |-> {}]
  /\ edits = 0 /\ faults = 0

-----------------------------------------------------------------------------
(* plan_changes(), plan_sources() *)

Create(i) ==
  [op |-> "create", item |-> i,
   to |-> [kind |-> File[i].kind, text |-> File[i].text, note |-> 0, on |-> TRUE]]

Patch(i, to) == [op |-> "patch", item |-> i, to |-> to]

\* Mutant: what the file does not state is sent as it is by default.
PayloadOfTheFile(view, i) ==
  [kind |-> File[i].kind, text |-> File[i].text, note |-> 0, on |-> view[i].on]

\* _payload(): the whole record as it was listed, and the changes.
Payload(view, i) == [view[i] EXCEPT !.kind = File[i].kind, !.text = File[i].text]

\* _diff(): whether an item is on is not compared.
Differs(view, i) ==
  Has(view, i) /\ (view[i].kind # File[i].kind \/ view[i].text # File[i].text)

\* What is on and not in the file; the values of an axis that is not in it stay.
Extra(view, of) ==
  {i \in of : /\ Has(view, i) /\ i \notin Listed /\ view[i].on
              /\ i \in Values => FacetOf[i] \in Listed}

ListedValues(f) == {v \in Values \cap Listed : FacetOf[v] = f}

Creates(S) == SetToSeq({Create(i) : i \in S})
Patches(view, S) == SetToSeq({Patch(i, Payload(view, i)) : i \in {i \in S : Differs(view, i)}})
SwitchesOff(view, S) ==
  SetToSeq({Patch(i, [view[i] EXCEPT !.on = FALSE]) : i \in Extra(view, S)})

\* Mutant: only a new axis brings its values.
NewValuesOfNewFacets(view) == {}

\* The values that are missing from an axis main has.
NewValues(view) ==
  {v \in Values \cap Listed : ~Has(view, v) /\ Has(view, FacetOf[v])}

\* The requests in the order of apply(), but for the sources.
TaxonomyPlan(view, off) ==
  FlattenSeq(SetToSeq({<<Create(f)>> \o Creates(ListedValues(f)) :
                         f \in {f \in Facets \cap Listed : ~Has(view, f)}}))
  \o Creates(NewValues(view))
  \o Patches(view, Facets \cap Listed)
  \o Patches(view, Values \cap Listed)
  \o IF off THEN SwitchesOff(view, Values) \o SwitchesOff(view, Facets) ELSE <<>>

-----------------------------------------------------------------------------
(* The tool *)

\* A run goes on with its plan, or ends with it.
GoesOn(t, plan) ==
  tool' = [tool EXCEPT ![t] = IF plan = <<>> THEN Idle ELSE [@ EXCEPT !.pc = "sending", !.plan = plan]]

\* Which runs an item was written behind the back of.
Written(i, runs) ==
  edited' = [t \in Tools |-> IF tool'[t].pc = "idle" THEN {}
                             ELSE IF t \in runs THEN edited[t] \cup {i} ELSE edited[t]]

\* A run is started and reads the axes and values ...
ListFacets(t, off) ==
  /\ tool[t].pc = "idle"
  /\ tool' = [tool EXCEPT ![t] = [pc |-> "listed", off |-> off, plan |-> TaxonomyPlan(db, off)]]
  /\ UNCHANGED <<db, revision, edited, edits, faults>>

\* ... and the sources, and ends when there is nothing to do.
ListSources(t) ==
  /\ tool[t].pc = "listed"
  /\ GoesOn(t, tool[t].plan \o Patches(db, Sources \cap Listed))
  /\ edited' = [edited EXCEPT ![t] = IF tool'[t] = Idle THEN {} ELSE @ \ Sources]
  /\ UNCHANGED <<db, revision, edits, faults>>

\* What main refuses: 409 for what it has, 422 for an axis of another kind.
Refused(q) ==
  IF q.op = "create" THEN Has(db, q.item)
  ELSE q.item \in Facets /\ q.to.kind # db[q.item].kind

\* What main does with a request; each change of the taxonomy has a revision.
Perform(q) ==
  /\ ~Refused(q)
  /\ db' = [db EXCEPT ![q.item] = q.to]
  /\ revision' = IF q.item \in Sources THEN revision ELSE revision + 1

\* The next request of the plan is carried out, ...
Send(t) ==
  /\ tool[t].pc = "sending"
  /\ Perform(Head(tool[t].plan))
  /\ GoesOn(t, Tail(tool[t].plan))
  /\ Written(Head(tool[t].plan).item, Tools \ {t})
  /\ UNCHANGED <<edits, faults>>

\* ... or refused, which ends the run ...
SendRefused(t) ==
  /\ tool[t].pc = "sending"
  /\ Refused(Head(tool[t].plan))
  /\ GoesOn(t, <<>>)
  /\ Written(Head(tool[t].plan).item, {})
  /\ UNCHANGED <<db, revision, edits, faults>>

\* ... as does a request whose answer is lost, done or not.
Lose(t) ==
  /\ tool[t].pc = "sending" /\ faults < MaxFaults
  /\ GoesOn(t, <<>>)
  /\ \/ Perform(Head(tool[t].plan)) /\ Written(Head(tool[t].plan).item, Tools \ {t})
     \/ UNCHANGED <<db, revision>> /\ Written(Head(tool[t].plan).item, {})
  /\ faults' = faults + 1
  /\ UNCHANGED edits

-----------------------------------------------------------------------------
(* Others: create_facet(), create_value(), update_*(), disable_*() *)

Edit(i, r) ==
  /\ edits < MaxEdits
  /\ db' = [db EXCEPT ![i] = r]
  /\ revision' = IF i \in Sources THEN revision ELSE revision + 1
  /\ edits' = edits + 1
  /\ UNCHANGED <<tool, faults>>
  /\ Written(i, Tools)

\* A new item; a source comes with the first news of it.
Add(i, kind) ==
  /\ ~Has(db, i)
  /\ i \in Values => Has(db, FacetOf[i])
  /\ i \notin Facets => kind = AnyKind
  /\ Edit(i, [kind |-> kind, text |-> 2, note |-> 2, on |-> TRUE])

\* An administrator rewrites an item, or switches it.
Rewrite(i) == Has(db, i) /\ Edit(i, [db[i] EXCEPT !.text = 3, !.note = 3])
Switch(i) == Has(db, i) /\ Edit(i, [db[i] EXCEPT !.on = ~@])

-----------------------------------------------------------------------------
Run(t) == (\E off \in BOOLEAN : ListFacets(t, off)) \/ ListSources(t) \/ Send(t) \/ SendRefused(t)

SyncNext ==
  \/ \E t \in Tools : Run(t) \/ Lose(t)
  \/ \E i \in Items : Rewrite(i) \/ Switch(i) \/ \E k \in Kinds : Add(i, k)

SyncSpec == SyncInit /\ [][SyncNext]_syncVars

\* An operator runs the tool again until it has nothing left to do.
FairSyncSpec == SyncSpec /\ \A t \in Tools : WF_syncVars(Run(t))

-----------------------------------------------------------------------------
(* Correctness *)

\* Whom an axis of another kind keeps from agreeing with the file.
Conflict == \E f \in Facets \cap Listed : Has(db, f) /\ db[f].kind # File[f].kind

\* A request changes what the file states; what it does not state, and whether
\* an item is on, only for an item that someone else wrote since the run listed it, or
\* as it was asked to: an item that is not in the file goes off.
EditsSurvive ==
  [][\A i \in Items, t \in Tools :
       edits' = edits /\ tool[t].pc = "sending" /\ tool'[t] # tool[t] /\ Has(db, i) =>
         \/ i \in edited[t]
         \/ /\ db'[i].note = db[i].note
            /\ \/ db'[i].on = db[i].on
               \/ tool[t].off /\ i \notin Listed /\ ~db'[i].on]_syncVars

\* However runs are cut short or overlap, running the tool until it is done
\* leaves every item of the file that can be created, and, if no axis is of
\* another kind, as the file states it.
Converges ==
  <>[](/\ \A i \in Listed \ Sources : Has(db, i)
       /\ Conflict \/ \A i \in Listed : ~Differs(db, i))
=============================================================================
