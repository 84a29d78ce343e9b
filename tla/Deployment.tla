----------------------------- MODULE Deployment -----------------------------
(***************************************************************************)
(* How the stack of docker-compose.yml gets its secrets.  The one-off      *)
(* container `init` (configuration_initializer.py) makes every password    *)
(* and key once, keeps them in bootstrap.json and writes a file of         *)
(* settings for each container; the others read their file when they       *)
(* start and never again.  What the first start leaves in the database     *)
(* volume - the password of Postgres, the row and public key of each       *)
(* classifier (bootstrap_storage.py) - stays there for good.               *)
(*                                                                         *)
(* The operator may bring the stack up again with other CLASSIFIER_SPECS,  *)
(* with or without recreating the containers; init may be killed between   *)
(* any two steps; a container may die and be restarted by Docker, which    *)
(* then does not look at depends_on.  Secrets are numbers: all those made  *)
(* together by one load_or_create_state() are one number.                  *)
(***************************************************************************)
EXTENDS Naturals, Sequences, FiniteSets, SequencesExt, Functions

CONSTANTS Nodes,      \* classifier nodes, each a container
          Stores,     \* database, broker, search, object store
          Database,   \* the one of them that keeps its first password
          Core,       \* the api and its workers
          Plans,      \* the CLASSIFIER_SPECS an operator may give: slug -> node
          Early,      \* nodes whose depends_on does not name init
          MaxDeploys, MaxIncidents,
          Nothing, Torn

\* bootstrap.json: the secrets made together and the key pairs of the nodes.
State == [made : Nat, keys : UNION {[known -> Nat] : known \in SUBSET Nodes}]

ASSUME DeploymentAssumption ==
  /\ IsFiniteSet(Nodes) /\ IsFiniteSet(Stores) /\ Nodes \cap Stores = {}
  /\ Database \in Stores /\ Core \notin Stores \cup Nodes /\ Early \subseteq Nodes
  /\ Nothing \notin State
  /\ \A plan \in Plans : Range(plan) \subseteq Nodes
  /\ MaxDeploys \in Nat /\ MaxIncidents \in Nat

Containers == Nodes \cup Stores \cup {Core}

VARIABLES
  plan,       \* CLASSIFIER_SPECS of the last `compose up`
  init,       \* the init container: pc, the state it holds, the files it has yet to write
  saved,      \* bootstrap.json
  files,      \* the settings file of each container
  fresh,      \* the next secret to be drawn
  run,        \* container -> up | down (compose starts it) | crashed (Docker restarts it)
  read,       \* what a container read when it last started
  password,   \* the password the database volume was made with
  rows,       \* the classifiers of the database: slug -> node and public key
  deploys, incidents

vars == <<plan, init, saved, files, fresh, run, read, password, rows, deploys, incidents>>

Resting(pc) == [pc |-> pc, state |-> Nothing, todo |-> <<>>]

Init ==
  /\ plan \in Plans
  /\ init = Resting("load")
  /\ saved = Nothing /\ password = Nothing
  /\ files = [c \in Containers |-> Nothing]
  /\ read = [c \in Containers |-> Nothing]
  /\ run = [c \in Containers |-> "down"]
  /\ rows = <<>>
  /\ fresh = 1 /\ deploys = 0 /\ incidents = 0

-----------------------------------------------------------------------------
(* The init container *)

\* Mutant: other specs make for another state.
StateOfThePlan ==
  IF saved = Nothing \/ DOMAIN saved.keys # Range(plan) THEN [made |-> fresh, keys |-> <<>>] ELSE saved

\* load_or_create_state: what was saved, or everything anew.  (Load: json.loads
\* raises on a file that is not whole, and init then fails every time.)
StateToUse == IF saved = Nothing THEN [made |-> fresh, keys |-> <<>>] ELSE saved

\* Mutant: the pairs of the nodes the specs no longer name are dropped.
NodeKeysOfThePlan(keys, next) ==
  LET new == SetToSeq(Range(plan) \ DOMAIN keys)
  IN  [n \in Range(plan) |->
        IF n \in DOMAIN keys THEN keys[n] ELSE next + CHOOSE i \in DOMAIN new : new[i] = n]

\* A key pair for each node of the plan that has none; no pair is ever dropped.
NodeKeys(keys, next) ==
  LET new == SetToSeq(Range(plan) \ DOMAIN keys)
  IN  [n \in DOMAIN keys \cup Range(plan) |->
        IF n \in DOMAIN keys THEN keys[n] ELSE next + CHOOSE i \in DOMAIN new : new[i] = n]

\* The files in the order initialize() writes them; the stores follow the core.
WritingOrder ==
  SetToSeq(Range(plan)) \o <<Core>> \o SetToSeq(Stores)

Load ==
  /\ init.pc = "load" /\ saved # Torn
  /\ LET state == StateToUse
     IN  init' = [pc |-> "save", todo |-> WritingOrder,
                  state |-> [state EXCEPT !.keys = NodeKeys(@, fresh)]]
  /\ fresh' = fresh + 1 + Len(SetToSeq(Nodes))
  /\ UNCHANGED <<plan, saved, files, run, read, password, rows, deploys, incidents>>

Save ==
  /\ init.pc = "save"
  /\ saved' = init.state
  /\ init' = [init EXCEPT !.pc = "write"]
  /\ UNCHANGED <<plan, files, fresh, run, read, password, rows, deploys, incidents>>

Classifiers(state) == [slug \in DOMAIN plan |-> [node |-> plan[slug], key |-> state.keys[plan[slug]]]]

Settings(state, c) ==
  [secret |-> state.made,
   own |-> IF c \in Nodes THEN state.keys[c] ELSE Nothing,
   classifiers |-> IF c = Core THEN Classifiers(state) ELSE <<>>]

WriteFile ==
  /\ init.pc = "write" /\ init.todo # <<>>
  /\ files' = [files EXCEPT ![Head(init.todo)] = Settings(init.state, Head(init.todo))]
  /\ init' = [init EXCEPT !.todo = Tail(@)]
  /\ UNCHANGED <<plan, saved, fresh, run, read, password, rows, deploys, incidents>>

Initialized ==
  /\ init.pc = "write" /\ init.todo = <<>>
  /\ init' = Resting("done")
  /\ UNCHANGED <<plan, saved, files, fresh, run, read, password, rows, deploys, incidents>>

\* Mutant: the file is written in place.
LeftHalfWritten(old) == Torn

\* write_file() writes beside the file and renames: a write that was cut short
\* leaves the file as it was.
LeftOnDisk(old) == old

InitKilled ==
  /\ init.pc \in {"load", "save", "write"} /\ incidents < MaxIncidents
  /\ saved' = IF init.pc = "save" THEN LeftOnDisk(saved) ELSE saved
  /\ init' = Resting("failed")
  /\ incidents' = incidents + 1
  /\ UNCHANGED <<plan, files, fresh, run, read, password, rows, deploys>>

-----------------------------------------------------------------------------
(* The operator and Docker *)

\* `docker compose up -d`, repeated after a failed init (restart: "no").
UpAgain ==
  /\ init.pc = "failed"
  /\ init' = Resting("load")
  /\ UNCHANGED <<plan, saved, files, fresh, run, read, password, rows, deploys, incidents>>

\* `compose up` with other specs; `--build` or `compose down` before it
\* replaces every container, otherwise those that run keep running.
Deploy(specs, replaced) ==
  /\ init.pc = "done" /\ deploys < MaxDeploys
  /\ plan' = specs
  /\ init' = Resting("load")
  /\ run' = [c \in Containers |-> IF c \in replaced THEN "down" ELSE run[c]]
  /\ deploys' = deploys + 1
  /\ UNCHANGED <<saved, files, fresh, read, password, rows, incidents>>

\* depends_on: init for all but the Early nodes, and the stores for the core.
MayStart(c) ==
  \/ run[c] = "crashed"
  \/ /\ run[c] = "down"
     /\ c \notin Early => init.pc = "done"
     /\ c = Core => \A s \in Stores : run[s] = "up"

Started(c) ==
  /\ MayStart(c)
  /\ run' = [run EXCEPT ![c] = "up"]
  /\ read' = [read EXCEPT ![c] = files[c]]
  /\ UNCHANGED <<plan, init, saved, files, fresh, deploys, incidents>>

\* A node without its file starts with the defaults and answers 503.
StartNode(n) == Started(n) /\ UNCHANGED <<password, rows>>

\* Postgres makes its volume with the password of its first start; the other
\* stores take theirs from the file every time.
StartStore(s) ==
  /\ Started(s)
  /\ password' = IF s = Database /\ password = Nothing THEN files[s].secret ELSE password
  /\ UNCHANGED rows

\* BootstrapData and bootstrap_storage.initialize: a classifier whose slug has
\* a row already is passed over, whatever the settings say of it now.
Inserted(known, given) ==
  [slug \in DOMAIN known \cup DOMAIN given |-> IF slug \in DOMAIN known THEN known[slug] ELSE given[slug]]

\* create_app(): without a connection to the database the process dies again.
StartCore ==
  /\ run[Database] = "up" /\ files[Core] # Nothing /\ files[Core].secret = password
  /\ Started(Core)
  /\ rows' = Inserted(rows, files[Core].classifiers)
  /\ UNCHANGED password

Die(c) ==
  /\ run[c] = "up" /\ incidents < MaxIncidents
  /\ run' = [run EXCEPT ![c] = "crashed"]
  /\ incidents' = incidents + 1
  /\ UNCHANGED <<plan, init, saved, files, fresh, read, password, rows, deploys>>

Start == StartCore \/ (\E n \in Nodes : StartNode(n)) \/ (\E s \in Stores : StartStore(s))
Initialize == Load \/ Save \/ WriteFile \/ Initialized

Next ==
  \/ Load \/ Save \/ WriteFile \/ Initialized \/ InitKilled \/ UpAgain
  \/ \E specs \in Plans, replaced \in {{}, Containers} : Deploy(specs, replaced)
  \/ StartCore
  \/ \E n \in Nodes : StartNode(n)
  \/ \E s \in Stores : StartStore(s)
  \/ \E c \in Containers : Die(c)

FairSpec == Init /\ [][Next]_vars /\ WF_vars(Initialize) /\ WF_vars(UpAgain)
                 /\ \A c \in Containers : WF_vars(Start /\ run'[c] # run[c])

-----------------------------------------------------------------------------
(* Properties *)

\* Who could still be holding a secret of the first generation or of another.
Held == {files[c].secret : c \in {c \in Containers : files[c] # Nothing}}
   \cup {read[c].secret : c \in {c \in Containers : run[c] = "up" /\ read[c] # Nothing}}
   \cup ({password} \ {Nothing})

\* README.md "the first start makes the keys and passwords": however often init
\* is killed and run again, and whatever was restarted in between, all files,
\* running processes and the database volume agree on one set of secrets.
SecretsAgree == \A a, b \in Held : a = b

\* The public key the core keeps for a classifier is that of the private key
\* the node it calls signs its answers with - after a node was taken out of
\* the specs and put back, and with containers started at different times.
CallbacksUnderstood ==
  \A slug \in DOMAIN rows :
    LET node == rows[slug].node
    IN  run[node] = "up" /\ read[node] # Nothing => read[node].own = rows[slug].key

\* Interrupted as it may be, the stack comes up and stays up: no half-written
\* file and no leftover of an earlier start keeps a container from starting.
ComesUp == <>[](init.pc = "done" /\ \A c \in Containers : run[c] = "up")

=============================================================================
