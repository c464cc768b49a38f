--------------------------- MODULE ProjectDeletion ---------------------------
(***************************************************************************)
(* A project from its creation to its deletion, across the services.       *)
(*                                                                         *)
(* The deletion is one request that has four effects, in this order: it    *)
(* asks the other services to delete what the project holds, it deletes    *)
(* the project's namespace, it inserts an operation, and it deletes the    *)
(* project's row, after which the operation is "done". Errors of the first *)
(* two are swallowed. Meanwhile every replica of the compute service       *)
(* reconciles pending project operations on its own, and requests that     *)
(* have passed their check of the project go on creating resources.        *)
(*                                                                         *)
(* The module follows one project, and one resource of each kind in it.    *)
(* Its deletion is asked for by its owner or by another account that knows *)
(* its identifier: the deletion does not ask whose project it is, and only *)
(* its queries and the services it calls tell the two apart.               *)
(* What the services do to carry out a deletion is in ResourceServices and *)
(* ContainerService; here it is a goroutine that deletes the object.       *)
(***************************************************************************)
EXTENDS Naturals, Sequences, FiniteSets

CONSTANTS
  Kinds,      \* the kinds of resources in play
  Ops,        \* identifiers of project operations
  Calls,      \* bound: deletion requests in flight at a time
  Replicas,   \* the replicas of the compute service
  MaxFaults,  \* bound: faults of any kind
  MaxForeign, \* bound: deletions that another account asks for
  Nil

FanOutOrder == <<"vm", "container", "bucket", "database">>

ASSUME KindsAssumption ==
  {"vm", "container"} \subseteq Kinds /\ Kinds \subseteq {FanOutOrder[i] : i \in 1..4}
ASSUME FaultsAssumption == MaxFaults \in Nat
ASSUME NilAssumption == Nil \notin Ops

VARIABLES
  founding,   \* the request that creates the project
  project,    \* does its row exist?
  namespace,  \* its namespace; "open" lacks the isolation policy
  object,     \* the resource of each kind in the namespace
  container,  \* does the container have its row?
  placing,    \* requests that create a resource
  killing,    \* stages of the goroutines that delete one
  operation,  \* the status of each project operation
  call,       \* requests that delete the project
  sweep,      \* the compute replicas' passes over pending project operations
  faults,     \* faults spent
  early,      \* history: a deletion began before the creation was over
  foreign     \* the operations that another account has asked for

cluster == <<namespace, object>>
tables  == <<project, container, operation>>
work    == <<founding, placing, killing, sweep>>
asked   == <<early, foreign>>
vars    == <<cluster, tables, work, call, faults, asked>>

NoCall == [pc |-> "idle", todo |-> {}, op |-> Nil]
NoSweep == [todo |-> {}, op |-> Nil, step |-> "machines"]

Call == [pc : {"idle", "fan", "create", "row", "done", "error"},
         todo : SUBSET Kinds, op : Ops \union {Nil}]
Sweep == [todo : SUBSET Ops, op : Ops \union {Nil},
          step : {"machines", "containers", "row", "mark"}]

TypeOK ==
  /\ founding \in {"insert", "namespace", "policy", "over"}
  /\ project \in BOOLEAN /\ container \in BOOLEAN
  /\ namespace \in {"absent", "open", "isolated", "terminating"}
  /\ object \in [Kinds -> {"absent", "live", "terminating"}]
  /\ placing \in [Kinds -> {"idle", "post", "upsert"}]
  /\ killing \in [Kinds -> SUBSET {"delete", "forget"}]
  /\ operation \in [Ops -> {"none", "pending", "done", "error"}]
  /\ call \in [Calls -> Call]
  /\ sweep \in [Replicas -> Sweep]
  /\ faults \in 0..MaxFaults
  /\ early \in BOOLEAN
  /\ foreign \subseteq Ops

Init ==
  /\ founding = "insert"
  /\ project = FALSE /\ container = FALSE
  /\ namespace = "absent"
  /\ object = [k \in Kinds |-> "absent"]
  /\ placing = [k \in Kinds |-> "idle"]
  /\ killing = [k \in Kinds |-> {}]
  /\ operation = [o \in Ops |-> "none"]
  /\ call = [c \in Calls |-> NoCall]
  /\ sweep = [p \in Replicas |-> NoSweep]
  /\ faults = 0
  /\ early = FALSE
  /\ foreign = {}

Fault ==
  /\ faults < MaxFaults
  /\ faults' = faults + 1

Active == namespace \in {"open", "isolated"}

-----------------------------------------------------------------------------
(* CreateProject: the row, the namespace, its policy. Only the first has   *)
(* an error the caller hears of.                                           *)

InsertProject ==
  /\ founding = "insert"
  /\ founding' = "namespace"
  /\ project' = TRUE
  /\ UNCHANGED <<cluster, container, operation, placing, killing, sweep, call,
                 faults, asked>>

Step(from, to) == founding = from /\ founding' = to

\* Mutant: the namespace is created without its policy.
CreateNamespaceAlone ==
  /\ Step("namespace", "over")
  /\ namespace' = IF namespace = "absent" THEN "open" ELSE namespace
  /\ UNCHANGED <<object, tables, placing, killing, sweep, call, faults, asked>>

(* A namespace that is there already, a terminating one included, answers  *)
(* with a conflict, which counts as success.                               *)
CreateNamespace ==
  /\ \/ Step("namespace", "policy") /\ UNCHANGED faults
     \/ Step("namespace", "over") /\ Fault
  /\ \/ namespace' = IF namespace = "absent" THEN "open" ELSE namespace
     \/ faults' # faults /\ UNCHANGED namespace
  /\ UNCHANGED <<object, tables, placing, killing, sweep, call, asked>>

\* Mutant: once the namespace is ready, the row is written again.
CreatePolicyUpserting ==
  /\ Step("policy", "over")
  /\ namespace' = IF namespace = "open" THEN "isolated" ELSE namespace
  /\ project' = TRUE
  /\ UNCHANGED <<object, container, operation, placing, killing, sweep, call, faults, asked>>

CreatePolicy ==
  /\ Step("policy", "over")
  /\ \/ /\ namespace' = IF namespace = "open" THEN "isolated" ELSE namespace
        /\ UNCHANGED faults
     \/ Fault /\ UNCHANGED namespace
  /\ UNCHANGED <<object, tables, placing, killing, sweep, call, asked>>

-----------------------------------------------------------------------------
(* The other services: creating a resource and carrying out a deletion.    *)

Create(k) ==
  /\ project
  /\ placing[k] = "idle"
  /\ placing' = [placing EXCEPT ![k] = "post"]
  /\ UNCHANGED <<cluster, tables, founding, killing, sweep, call, faults, asked>>

(* The API server refuses an object in a namespace that is terminating or  *)
(* absent, and may refuse one for reasons of its own. A deployment goes on *)
(* to write its row.                                                       *)
Post(k) ==
  /\ placing[k] = "post"
  /\ \/ /\ Active
        /\ object[k] = "absent"
        /\ object' = [object EXCEPT ![k] = "live"]
        /\ placing' = [placing EXCEPT ![k] = IF k = "container" THEN "upsert" ELSE "idle"]
     \/ placing' = [placing EXCEPT ![k] = "idle"] /\ UNCHANGED object
  /\ UNCHANGED <<namespace, tables, founding, killing, sweep, call, faults, asked>>

\* Mutant: containers do not reference their project.
UpsertContainerUnchecked ==
  /\ placing["container"] = "upsert"
  /\ placing' = [placing EXCEPT !["container"] = "idle"]
  /\ container' = TRUE /\ UNCHANGED faults
  /\ UNCHANGED <<cluster, project, operation, founding, killing, sweep, call, asked>>

(* The row references the project.                                         *)
UpsertContainer ==
  /\ placing["container"] = "upsert"
  /\ placing' = [placing EXCEPT !["container"] = "idle"]
  /\ \/ container' = (container \/ project) /\ UNCHANGED faults
     \/ Fault /\ UNCHANGED container
  /\ UNCHANGED <<cluster, project, operation, founding, killing, sweep, call, asked>>

(* A goroutine's DELETE. A Knative service is gone at once, and its row    *)
(* comes next; the others keep their finalizers. Goroutines of one kind    *)
(* that are at the same stage count as one.                                *)
KillObject(k) ==
  LET hit == [object EXCEPT ![k] = IF k = "container" THEN "absent"
                                   ELSE IF @ = "live" THEN "terminating" ELSE @]
      rest == killing[k] \ {"delete"}
  IN
  /\ "delete" \in killing[k]
  /\ \/ /\ object' = hit
        /\ killing' = [killing EXCEPT ![k] = IF k = "container" THEN rest \union {"forget"}
                                             ELSE rest]
        /\ UNCHANGED faults
     \/ /\ Fault
        /\ object' \in {object, hit}
        /\ killing' = [killing EXCEPT ![k] = rest]
  /\ UNCHANGED <<namespace, tables, founding, placing, sweep, call, asked>>

ForgetContainer ==
  /\ "forget" \in killing["container"]
  /\ killing' = [killing EXCEPT !["container"] = @ \ {"forget"}]
  /\ \/ container' = FALSE /\ UNCHANGED faults
     \/ Fault /\ UNCHANGED container
  /\ UNCHANGED <<cluster, project, operation, founding, placing, sweep, call, asked>>

(* The cluster: a terminating namespace deletes what is in it, deletions   *)
(* finish, and an empty namespace that is terminating goes.                *)
Reap(k) ==
  /\ \/ /\ object[k] = "live" /\ namespace = "terminating"
        /\ object' = [object EXCEPT ![k] = "terminating"]
     \/ /\ object[k] = "terminating"
        /\ object' = [object EXCEPT ![k] = "absent"]
  /\ UNCHANGED <<namespace, tables, work, call, faults, asked>>

DropNamespace ==
  /\ namespace = "terminating"
  /\ \A k \in Kinds : object[k] = "absent"
  /\ namespace' = "absent"
  /\ UNCHANGED <<object, tables, work, call, faults, asked>>

-----------------------------------------------------------------------------
(* CreateProjectDeleteOperation. It asks neither whether the project       *)
(* exists nor whose it is; its caller knows the identifier, so the project *)
(* has existed. Only the queries and the other services look at the        *)
(* account.                                                                *)

Unused(o) == operation[o] = "none" /\ \A c \in Calls : call[c].op # o

Delete(c, o, own, heard) ==
  /\ founding # "insert"
  /\ call[c] = NoCall
  /\ Unused(o)
  /\ call' = [call EXCEPT ![c] = [pc |-> "fan", todo |-> heard, op |-> o]]
  /\ foreign' = IF own THEN foreign \ {o} ELSE foreign \union {o}
  /\ Cardinality(foreign') <= MaxForeign
  /\ early' = (early \/ founding # "over")
  /\ UNCHANGED <<cluster, tables, work, faults>>

(* The Connect interceptor puts the caller's token into the context, with  *)
(* which the other services hear an owner; they refuse another account.    *)
DeleteByConnect(c, o, own) == Delete(c, o, own, IF own THEN Kinds ELSE {})

(* The REST route checks the token and passes the bare request context on, *)
(* so that the other services refuse whoever asks.                         *)
DeleteByREST(c, o, own) == Delete(c, o, own, {})

(* The services that will hear the caller are asked one after the other.   *)
IsNext(c, k) ==
  \E i \in 1..4 :
    /\ k = FanOutOrder[i] /\ k \in call[c].todo
    /\ \A j \in 1..4 : j < i => FanOutOrder[j] \notin call[c].todo

(* A service asks whether the project exists, and starts a goroutine for   *)
(* what it lists.                                                          *)
Answers(k) == project /\ object[k] # "absent"

Go(c, pc) == call' = [call EXCEPT ![c].pc = pc]

(* One service of the fan-out; whatever goes wrong is swallowed.           *)
FanOut(c, k) ==
  /\ call[c].pc = "fan" /\ IsNext(c, k)
  /\ call' = [call EXCEPT ![c].todo = @ \ {k}]
  /\ \/ /\ Answers(k)
        /\ killing' = [killing EXCEPT ![k] = @ \union {"delete"}]
        /\ UNCHANGED faults
     \/ ~ Answers(k) /\ UNCHANGED <<killing, faults>>
     \/ Fault /\ UNCHANGED killing
  /\ UNCHANGED <<cluster, tables, founding, placing, sweep, asked>>

\* Mutant: the namespace is left to the goroutines that are at work in it.
DeleteNamespaceOnlyAlone(c) ==
  /\ call[c].pc = "fan" /\ call[c].todo = {}
  /\ Go(c, "create")
  /\ namespace' = IF namespace = "absent" \/ \E k \in Kinds : killing[k] # {}
                  THEN namespace ELSE "terminating"
  /\ UNCHANGED <<object, tables, work, faults, asked>>

(* After the last service comes the namespace.                             *)
DeleteNamespace(c) ==
  /\ call[c].pc = "fan" /\ call[c].todo = {}
  /\ Go(c, "create")
  /\ \/ /\ namespace' = IF namespace = "absent" THEN namespace ELSE "terminating"
        /\ UNCHANGED faults
     \/ Fault /\ namespace' \in {namespace, IF namespace = "absent" THEN namespace
                                            ELSE "terminating"}
  /\ UNCHANGED <<object, tables, work, asked>>

CreateOperation(c) ==
  /\ call[c].pc = "create"
  /\ \/ /\ operation' = [operation EXCEPT ![call[c].op] = "pending"]
        /\ Go(c, "row")
        /\ UNCHANGED faults
     \/ /\ Fault
        /\ call' = [call EXCEPT ![c] = NoCall]
        /\ UNCHANGED operation
  /\ UNCHANGED <<cluster, project, container, work, asked>>

(* Deleting the row of the project deletes the rows of its containers.     *)
Dropped == project' = FALSE /\ container' = FALSE

(* The query deletes the row of the account that asks. For another account *)
(* it finds no row, which is no error to an operation.                     *)
DroppedFor(o) ==
  \/ o \notin foreign /\ Dropped
  \/ o \in foreign /\ UNCHANGED <<project, container>>

(* DeleteProject, which deletes the owner's row and nothing else.          *)
DeleteProject ==
  /\ project
  /\ Dropped
  /\ UNCHANGED <<cluster, operation, work, call, faults, asked>>

\* Mutant: the operation succeeds whatever became of the row.
DropRowRegardless(c) ==
  /\ call[c].pc = "row"
  /\ \/ DroppedFor(call[c].op) /\ UNCHANGED faults
     \/ Fault /\ UNCHANGED <<project, container>>
  /\ Go(c, "done")
  /\ UNCHANGED <<cluster, operation, work, asked>>

DropRow(c) ==
  /\ call[c].pc = "row"
  /\ \/ DroppedFor(call[c].op) /\ Go(c, "done") /\ UNCHANGED faults
     \/ /\ Fault
        /\ Go(c, "error")
        /\ DroppedFor(call[c].op) \/ UNCHANGED <<project, container>>
  /\ UNCHANGED <<cluster, operation, work, asked>>

(* The answer; nobody looks at the result of writing it.                   *)
UpdateOperation(c) ==
  /\ call[c].pc \in {"done", "error"}
  /\ call' = [call EXCEPT ![c] = NoCall]
  /\ \/ operation' = [operation EXCEPT ![call[c].op] = call[c].pc] /\ UNCHANGED faults
     \/ Fault /\ UNCHANGED operation
  /\ UNCHANGED <<cluster, project, container, work, asked>>

-----------------------------------------------------------------------------
(* The "project" part of the compute service's reconciler.                 *)

Pending == {o \in Ops : operation[o] = "pending"}

Tick(p) ==
  /\ sweep[p] = NoSweep
  /\ Pending # {}
  /\ sweep' = [sweep EXCEPT ![p].todo = Pending]
  /\ UNCHANGED <<cluster, tables, founding, placing, killing, call, faults, asked>>

(* On to the next step with the same operation, or to the next operation.  *)
Proceed(p, o, step) ==
  sweep' = [sweep EXCEPT ![p] = [todo |-> @.todo \ {o}, op |-> o, step |-> step]]
SkipOperation(p, o) ==
  sweep' = [sweep EXCEPT ![p] = [NoSweep EXCEPT !.todo = sweep[p].todo \ {o}]]

(* Machines are listed by the label of the operation's account.            *)
Machines(o) == o \notin foreign /\ object["vm"] # "absent"

ListMachines(p, o) ==
  /\ sweep[p].op = Nil
  /\ o \in sweep[p].todo
  /\ \/ ~ Machines(o) /\ Proceed(p, o, "containers") /\ UNCHANGED faults
     \/ Machines(o) /\ SkipOperation(p, o) /\ UNCHANGED faults
     \/ Fault /\ SkipOperation(p, o)
  /\ UNCHANGED <<cluster, tables, founding, placing, killing, call, asked>>

ListContainers(p) ==
  LET o == sweep[p].op IN
  /\ o # Nil /\ sweep[p].step = "containers"
  /\ \/ ~ container /\ Proceed(p, o, "row") /\ UNCHANGED faults
     \/ container /\ SkipOperation(p, o) /\ UNCHANGED faults
     \/ Fault /\ SkipOperation(p, o)
  /\ UNCHANGED <<cluster, tables, founding, placing, killing, call, asked>>

\* Mutant: the operation is marked although its row could not be deleted.
SweepRowRegardless(p) ==
  LET o == sweep[p].op IN
  /\ o # Nil /\ sweep[p].step = "row"
  /\ \/ DroppedFor(o) /\ UNCHANGED faults
     \/ Fault /\ UNCHANGED <<project, container>>
  /\ Proceed(p, o, "mark")
  /\ UNCHANGED <<cluster, operation, founding, placing, killing, call, asked>>

\* Mutant: a row that is gone already is an error, as in DeleteProject.
SweepRowCounting(p) ==
  LET o == sweep[p].op IN
  /\ o # Nil /\ sweep[p].step = "row"
  /\ \/ project /\ DroppedFor(o) /\ Proceed(p, o, "mark")
     \/ ~ project /\ SkipOperation(p, o) /\ UNCHANGED <<project, container>>
  /\ UNCHANGED <<cluster, operation, founding, placing, killing, call, faults, asked>>

(* onDone: a row that is gone already is no error.                         *)
SweepRow(p) ==
  LET o == sweep[p].op IN
  /\ o # Nil /\ sweep[p].step = "row"
  /\ \/ DroppedFor(o) /\ Proceed(p, o, "mark") /\ UNCHANGED faults
     \/ /\ Fault
        /\ SkipOperation(p, o)
        /\ DroppedFor(o) \/ UNCHANGED <<project, container>>
  /\ UNCHANGED <<cluster, operation, founding, placing, killing, call, asked>>

MarkDone(p) ==
  LET o == sweep[p].op IN
  /\ o # Nil /\ sweep[p].step = "mark"
  /\ SkipOperation(p, o)
  /\ \/ operation' = [operation EXCEPT ![o] = "done"] /\ UNCHANGED faults
     \/ Fault /\ UNCHANGED operation
  /\ UNCHANGED <<cluster, project, container, founding, placing, killing, call, asked>>

-----------------------------------------------------------------------------
(* A process dies in the middle of something, or the caller of a deletion  *)
(* hangs up, which cancels the context of all its calls.                   *)
Crash ==
  /\ Fault
  /\ \/ \E c \in Calls : /\ call[c] # NoCall
                         /\ call' = [call EXCEPT ![c] = NoCall]
                         /\ UNCHANGED work
     \/ /\ founding \in {"namespace", "policy"} /\ founding' = "over"
        /\ UNCHANGED <<call, placing, killing, sweep>>
     \/ \E p \in Replicas : /\ sweep[p] # NoSweep
                            /\ sweep' = [sweep EXCEPT ![p] = NoSweep]
                            /\ UNCHANGED <<call, founding, placing, killing>>
     \/ \E k \in Kinds : /\ placing[k] # "idle" \/ killing[k] # {}
                         /\ placing' = [placing EXCEPT ![k] = "idle"]
                         /\ killing' = [killing EXCEPT ![k] = {}]
                         /\ UNCHANGED <<call, founding, sweep>>
  /\ UNCHANGED <<cluster, tables, asked>>

Next ==
  \/ InsertProject \/ CreateNamespace \/ CreatePolicy
  \/ \E k \in Kinds : Create(k) \/ Post(k) \/ KillObject(k) \/ Reap(k)
  \/ UpsertContainer \/ ForgetContainer
  \/ DropNamespace \/ DeleteProject
  \/ \E c \in Calls, o \in Ops, own \in BOOLEAN :
       DeleteByConnect(c, o, own) \/ DeleteByREST(c, o, own)
  \/ \E c \in Calls :
       \/ DeleteNamespace(c) \/ CreateOperation(c)
       \/ DropRow(c) \/ UpdateOperation(c)
       \/ \E k \in Kinds : FanOut(c, k)
  \/ \E p \in Replicas :
       \/ Tick(p) \/ ListContainers(p) \/ SweepRow(p) \/ MarkDone(p)
       \/ \E o \in Ops : ListMachines(p, o)
  \/ Crash

Spec == Init /\ [][Next]_vars

(* Fairness. Handlers and goroutines run on, every compute replica ticks   *)
(* and goes through its snapshot, and the cluster finishes what it has     *)
(* begun. Requests are under no obligation to arrive.                      *)
Fairness ==
  /\ WF_vars(CreateNamespace) /\ WF_vars(CreatePolicy)
  /\ WF_vars(UpsertContainer) /\ WF_vars(ForgetContainer)
  /\ WF_vars(DropNamespace)
  /\ \A k \in Kinds : WF_vars(Post(k)) /\ WF_vars(KillObject(k)) /\ WF_vars(Reap(k))
  /\ \A c \in Calls :
       WF_vars(\/ DeleteNamespace(c) \/ CreateOperation(c)
               \/ DropRow(c) \/ UpdateOperation(c)
               \/ \E k \in Kinds : FanOut(c, k))
  /\ \A p \in Replicas :
       /\ WF_vars(Tick(p) \/ ListContainers(p) \/ SweepRow(p) \/ MarkDone(p))
       /\ \A o \in Ops : WF_vars(ListMachines(p, o))

FairSpec == Spec /\ Fairness

-----------------------------------------------------------------------------
(* Properties.                                                             *)

(* A deletion the owner asked for reads "done" only when the project is    *)
(* gone from the table, whether its own request or a reconciler says so,   *)
(* and whatever another account's deletion does to the project meanwhile.  *)
(* (Another account's is "done" with the row there.)                       *)
DoneMeansDropped ==
  \A o \in Ops \ foreign : operation[o] = "done" => ~ project

(* No container's row outlives the project's.                              *)
RowsNeedProject == ~ project => ~ container

(* A project that is listed, and that no deletion has got to, has a        *)
(* namespace of its own with its policy, as long as no step has failed and *)
(* no other account has deleted it: the owner's deletions and the          *)
(* reconcilers leave no row without its namespace.                         *)
ListedProjectsAreUsable ==
  /\ project /\ founding = "over" /\ faults = 0
  /\ \A c \in Calls : call[c].pc \in {"idle", "fan"}
  /\ \A o \in foreign : operation[o] = "none"
  => namespace = "isolated"

(* To the owner who polls, the target of the operation is the project. The *)
(* operations of other accounts run beside and promise nothing.            *)
Lifecycle == INSTANCE OperationLifecycle WITH
  status <- [o \in Ops |-> IF o \in foreign THEN "none" ELSE operation[o]],
  gone   <- {o \in Ops \ foreign : operation[o] # "none" /\ ~ project},
  open   <- {o \in Ops \ foreign :
               \E c \in Calls : call[c].op = o /\ call[c].pc \in {"row", "done", "error"}}

LifecycleSpec == Lifecycle!Spec

(* What the list of projects says of the project: the row, and the mark    *)
(* that the query makes of the pending operations.                         *)
Phase ==
  IF founding = "insert" THEN "unborn"
  ELSE IF ~ project THEN "gone"
  ELSE IF Pending # {} THEN "deleting"
  ELSE "live"

Listing == INSTANCE ProjectLifecycle WITH phase <- Phase

(* The project lives one life, on every list, whoever deletes it how often. *)
ListingSpec == Listing!Spec

(* A deletion that a crash or a failed write left pending is completed by  *)
(* the reconcilers as soon as they find neither machines nor containers.   *)
EmptyIsSettled ==
  \A o \in Ops :
    operation[o] = "pending" /\ object["vm"] = "absent" /\ ~ container
      ~> operation[o] # "pending" \/ object["vm"] # "absent" \/ container

(* When no step fails, a deletion that began after the creation was over   *)
(* leaves nothing in the cluster, however late creations race with it and  *)
(* whichever way it was asked for.                                         *)
NothingIsLeft ==
  (\E o \in Ops : operation[o] = "done") /\ faults = 0 /\ ~ early
    ~> \/ faults > 0 \/ early
       \/ namespace = "absent" /\ \A k \in Kinds : object[k] = "absent"
=============================================================================
