-------------------------- MODULE ResourceServices --------------------------
(***************************************************************************)
(* The compute, storage and database services: request a virtual machine, *)
(* a bucket or a database cluster, and deleting one as a long-running      *)
(* operation.                                                              *)
(*                                                                         *)
(* The three services share one design. A delete request inserts a row in  *)
(* the operations table and starts a goroutine that sends one DELETE to    *)
(* the Kubernetes API. If the call fails the goroutine sets the row to     *)
(* "error"; if it succeeds the row stays "pending" until a reconciler,     *)
(* which every replica runs on a ticker, lists the cluster, misses the     *)
(* resource and sets the row to "done". Rows are updated by identifier     *)
(* alone, whatever their status is by then.                                *)
(*                                                                         *)
(* A replica may crash between any two steps, which ends its goroutines    *)
(* and its reconciler's pass; the table and the cluster survive. A call to *)
(* the API server or to the database may fail. Both kinds of fault come    *)
(* out of the budget MaxFaults.                                            *)
(***************************************************************************)
EXTENDS Naturals, FiniteSets

CONSTANTS
  Kinds,       \* the services in play: what each one manages
  Names,       \* names a user gives to resources of one project
  Ops,         \* operation identifiers
  Replicas,    \* the replicas of each service
  MaxObjects,  \* bound: objects created under one name
  MaxFaults,   \* bound: faults of any kind
  Nil

AllKinds == {"vm", "bucket", "database"}

ASSUME KindsAssumption == Kinds \subseteq AllKinds
ASSUME BoundsAssumption == MaxObjects \in Nat /\ MaxFaults \in Nat
ASSUME NilAssumption == Nil \notin Ops

Resources == [kind : Kinds, name : Names]

VARIABLES
  project,   \* does the row of the project exist?
  object,    \* what the API server holds under the name of each resource
  uid,       \* which object it is: the number created under that name so far
  row,       \* the operations table
  task,      \* the goroutine of each operation
  request,   \* requests between their checks and their first effect
  sweep,     \* the reconciler of each replica of each service
  lost,      \* history: operations whose goroutine a fault silenced
  faults     \* faults spent

vars == <<project, object, uid, row, task, request, sweep, lost, faults>>
kubeVars == <<object, uid>>

NoRow == [status |-> "none", target |-> Nil, born |-> 0]
NoTask == [pc |-> "idle", at |-> Nil]
NoSweep == [todo |-> {}, found |-> Nil]

Row   == [status : {"none", "pending", "done", "error"},
          target : Resources \union {Nil}, born : Nat]
Task  == [pc : {"idle", "delete", "fail"}, at : Replicas \union {Nil}]
Sweep == [todo : SUBSET Ops, found : Ops \union {Nil}]

TypeOK ==
  /\ project \in BOOLEAN
  /\ object \in [Resources -> {"absent", "live", "terminating"}]
  /\ uid \in [Resources -> Nat]
  /\ row \in [Ops -> Row]
  /\ task \in [Ops -> Task]
  /\ request \subseteq [target : Resources, at : Replicas, op : Ops \union {Nil}]
  /\ sweep \in [Kinds -> [Replicas -> Sweep]]
  /\ lost \subseteq Ops
  /\ faults \in 0..MaxFaults

Init ==
  /\ project = TRUE
  /\ \E live \in SUBSET Resources :
       /\ object = [r \in Resources |-> IF r \in live THEN "live" ELSE "absent"]
       /\ uid = [r \in Resources |-> IF r \in live THEN 1 ELSE 0]
  /\ row = [o \in Ops |-> NoRow]
  /\ task = [o \in Ops |-> NoTask]
  /\ request = {}
  /\ sweep = [k \in Kinds |-> [p \in Replicas |-> NoSweep]]
  /\ lost = {}
  /\ faults = 0

(* A call fails, or does not, and the budget pays for it.                  *)
Fault ==
  /\ faults < MaxFaults
  /\ faults' = faults + 1

Created(o) == row[o].status # "none"

(* UpdateOperation sets the status of a row whatever it was.               *)
UpdateOperation(o, s) == [row EXCEPT ![o].status = s]

SetSweep(k, p, t, f) == [sweep EXCEPT ![k][p] = [todo |-> t, found |-> f]]

(* The object that answered to the target's name when the operation was    *)
(* created, if there was one, no longer exists.                            *)
Gone(o) ==
  /\ Created(o)
  /\ \/ object[row[o].target] = "absent"
     \/ uid[row[o].target] > row[o].born

-----------------------------------------------------------------------------
(* Requests. The handler asks the database whether the project exists, and *)
(* then acts; the project may be deleted in between. A request to delete   *)
(* brings the identifier its operation will have, one to create brings     *)
(* Nil, and two in flight at one replica that ask for the same are one.    *)

Accept(r, p, o) ==
  /\ project
  /\ r \in Resources
  /\ request' = request \union {[target |-> r, at |-> p, op |-> o]}
  /\ UNCHANGED <<project, kubeVars, row, task, sweep, lost, faults>>

CreateMachine(n, p)  == Accept([kind |-> "vm", name |-> n], p, Nil)
CreateBucket(n, p)   == Accept([kind |-> "bucket", name |-> n], p, Nil)
CreateDatabase(n, p) == Accept([kind |-> "database", name |-> n], p, Nil)

(* newOperationID: random, and taken to be unused.                         *)
Unused(o) == ~ Created(o) /\ \A c \in request : c.op # o

DeleteMachine(n, p) ==
  \E o \in Ops : Unused(o) /\ Accept([kind |-> "vm", name |-> n], p, o)

DeleteBucket(n, p) ==
  \E o \in Ops : Unused(o) /\ Accept([kind |-> "bucket", name |-> n], p, o)

(* DeleteDatabase lists the clusters first and refuses a name it misses.   *)
DeleteDatabase(n, p) ==
  LET r == [kind |-> "database", name |-> n] IN
  /\ r \in Resources
  /\ object[r] # "absent"
  /\ \E o \in Ops : Unused(o) /\ Accept(r, p, o)

(* The POST creates the object unless one of that name exists, one that is *)
(* being deleted included: the API server then answers with a conflict.    *)
Post(c) ==
  /\ c.op = Nil
  /\ request' = request \ {c}
  /\ \/ /\ object[c.target] = "absent"
        /\ uid[c.target] < MaxObjects
        /\ object' = [object EXCEPT ![c.target] = "live"]
        /\ uid' = [uid EXCEPT ![c.target] = @ + 1]
     \/ UNCHANGED kubeVars
  /\ UNCHANGED <<project, row, task, sweep, lost, faults>>

\* Mutant: the row starts with the word the REST layer answers with.
NewRowDeleting(r) == [status |-> "deleting", target |-> r, born |-> uid[r]]

NewRow(r) == [status |-> "pending", target |-> r, born |-> uid[r]]

(* CreateOperation inserts the row and the handler starts a goroutine; if  *)
(* the row cannot be inserted, the request ends there.                     *)
Record(c) ==
  /\ c.op # Nil
  /\ request' = request \ {c}
  /\ \/ /\ row' = [row EXCEPT ![c.op] = NewRow(c.target)]
        /\ task' = [task EXCEPT ![c.op] = [pc |-> "delete", at |-> c.at]]
        /\ UNCHANGED faults
     \/ Fault /\ UNCHANGED <<row, task>>
  /\ UNCHANGED <<project, kubeVars, sweep, lost>>

\* Mutant: the goroutine drops the error of a failed call.
SendDeleteDroppingErrors(o) ==
  LET r == row[o].target IN
  /\ task[o].pc = "delete"
  /\ task' = [task EXCEPT ![o] = NoTask]
  /\ \/ /\ object[r] # "absent"
        /\ object' = [object EXCEPT ![r] = "terminating"]
        /\ UNCHANGED faults
     \/ object[r] = "absent" /\ UNCHANGED <<object, faults>>
     \/ Fault /\ UNCHANGED object
  /\ UNCHANGED <<project, uid, row, request, sweep, lost>>

(* The goroutine's DELETE. An object is marked for deletion, and stays     *)
(* until its finalizers have run. An absent one is an error for the        *)
(* caller. A lost answer is an error too, whether or not the call took     *)
(* effect.                                                                 *)
SendDelete(o) ==
  LET r == row[o].target IN
  /\ task[o].pc = "delete"
  /\ \/ /\ object[r] # "absent"
        /\ object' = [object EXCEPT ![r] = "terminating"]
        /\ task' = [task EXCEPT ![o] = NoTask]
        /\ UNCHANGED faults
     \/ /\ object[r] = "absent"
        /\ task' = [task EXCEPT ![o].pc = "fail"]
        /\ UNCHANGED <<object, faults>>
     \/ /\ Fault
        /\ task' = [task EXCEPT ![o].pc = "fail"]
        /\ \/ UNCHANGED object
           \/ /\ object[r] # "absent"
              /\ object' = [object EXCEPT ![r] = "terminating"]
  /\ UNCHANGED <<project, uid, row, request, sweep, lost>>

(* The goroutine reports the failure; nobody looks at the result.          *)
ReportFailure(o) ==
  /\ task[o].pc = "fail"
  /\ task' = [task EXCEPT ![o] = NoTask]
  /\ \/ /\ row' = UpdateOperation(o, "error")
        /\ UNCHANGED <<lost, faults>>
     \/ /\ Fault
        /\ lost' = lost \union {o}
        /\ UNCHANGED row
  /\ UNCHANGED <<project, kubeVars, request, sweep>>

(* The cluster's controllers finish a deletion.                            *)
Finalize(r) ==
  /\ object[r] = "terminating"
  /\ object' = [object EXCEPT ![r] = "absent"]
  /\ UNCHANGED <<project, uid, row, task, request, sweep, lost, faults>>

-----------------------------------------------------------------------------
(* The reconciler of replica p of the service that manages kind k.         *)

\* Mutant: the query forgets the status.
PendingAnyStatus(k) == {o \in Ops : Created(o) /\ row[o].target.kind = k}

\* Mutant: the query forgets the resource type.
PendingAnyKind(k) == {o \in Ops : row[o].status = "pending"}

\* Mutant: the pending operations are remembered by their goroutines.
PendingInMemory(k) ==
  {o \in Ops : /\ row[o].status = "pending"
               /\ row[o].target.kind = k
               /\ task[o].pc # "idle"}

Pending(k) == {o \in Ops : row[o].status = "pending" /\ row[o].target.kind = k}

(* A tick reads the pending operations; a pass over none of them is over.  *)
Tick(k, p) ==
  /\ k \in Kinds
  /\ sweep[k][p] = NoSweep
  /\ Pending(k) # {}
  /\ sweep' = SetSweep(k, p, Pending(k), Nil)
  /\ UNCHANGED <<project, kubeVars, row, task, request, lost, faults>>

ReconcileMachines(p)  == Tick("vm", p)
ReconcileBuckets(p)   == Tick("bucket", p)
ReconcileDatabases(p) == Tick("database", p)

\* Mutant: an object that is being deleted is not listed.
ListedLiveOnly(k, o) == object[[kind |-> k, name |-> row[o].target.name]] = "live"

(* An object that is being deleted is still listed.                        *)
Listed(k, o) == object[[kind |-> k, name |-> row[o].target.name]] # "absent"

\* Mutant: a list that fails is an empty list.
InspectFailedListIsEmpty(k, p, o) ==
  /\ sweep[k][p].found = Nil
  /\ o \in sweep[k][p].todo
  /\ \/ /\ (~ Listed(k, o) /\ UNCHANGED faults) \/ Fault
        /\ sweep' = SetSweep(k, p, sweep[k][p].todo \ {o}, o)
     \/ /\ Listed(k, o) /\ UNCHANGED faults
        /\ sweep' = SetSweep(k, p, sweep[k][p].todo \ {o}, Nil)
  /\ UNCHANGED <<project, kubeVars, row, task, request, lost>>

(* isDone: list the cluster and look for the name; a list that fails       *)
(* counts as "not yet".                                                    *)
Inspect(k, p, o) ==
  /\ sweep[k][p].found = Nil
  /\ o \in sweep[k][p].todo
  /\ \/ /\ ~ Listed(k, o)
        /\ sweep' = SetSweep(k, p, sweep[k][p].todo \ {o}, o)
        /\ UNCHANGED faults
     \/ /\ (Listed(k, o) /\ UNCHANGED faults) \/ Fault
        /\ sweep' = SetSweep(k, p, sweep[k][p].todo \ {o}, Nil)
  /\ UNCHANGED <<project, kubeVars, row, task, request, lost>>

(* The row found to be finished is set to "done", whatever it says now.    *)
MarkDone(k, p) ==
  LET o == sweep[k][p].found IN
  /\ o # Nil
  /\ sweep' = SetSweep(k, p, sweep[k][p].todo, Nil)
  /\ \/ row' = UpdateOperation(o, "done") /\ UNCHANGED faults
     \/ Fault /\ UNCHANGED row
  /\ UNCHANGED <<project, kubeVars, task, request, lost>>

-----------------------------------------------------------------------------
(* A replica dies and is started again.                                    *)
TasksAt(k, p) ==
  {o \in Ops : task[o].pc # "idle" /\ task[o].at = p /\ row[o].target.kind = k}

Crash(k, p) ==
  /\ Fault
  /\ task' = [o \in Ops |-> IF o \in TasksAt(k, p) THEN NoTask ELSE task[o]]
  /\ lost' = lost \union TasksAt(k, p)
  /\ request' = {c \in request : ~ (c.target.kind = k /\ c.at = p)}
  /\ sweep' = SetSweep(k, p, {}, Nil)
  /\ UNCHANGED <<project, kubeVars, row>>

(* The project service deletes the row of the project.                     *)
DropProject ==
  /\ project
  /\ project' = FALSE
  /\ UNCHANGED <<kubeVars, row, task, request, sweep, lost, faults>>

Next ==
  \/ \E n \in Names, p \in Replicas :
       \/ CreateMachine(n, p)
       \/ CreateBucket(n, p)
       \/ CreateDatabase(n, p)
       \/ DeleteMachine(n, p)
       \/ DeleteBucket(n, p)
       \/ DeleteDatabase(n, p)
  \/ \E c \in request : Post(c) \/ Record(c)
  \/ \E o \in Ops : SendDelete(o) \/ ReportFailure(o)
  \/ \E r \in Resources : Finalize(r)
  \/ \E p \in Replicas :
       \/ ReconcileMachines(p)
       \/ ReconcileBuckets(p)
       \/ ReconcileDatabases(p)
  \/ \E k \in Kinds, p \in Replicas :
       \/ \E o \in Ops : Inspect(k, p, o)
       \/ MarkDone(k, p)
       \/ Crash(k, p)
  \/ DropProject

Spec == Init /\ [][Next]_vars

(***************************************************************************)
(* Fairness. A goroutine that was started runs, the ticker of every        *)
(* replica fires every five seconds, a pass over the snapshot goes through *)
(* all of it, and the controllers of the cluster finish the deletions they *)
(* have begun. Users, crashes and failing calls are under no obligation.   *)
(***************************************************************************)
Fairness ==
  /\ \A o \in Ops : WF_vars(SendDelete(o)) /\ WF_vars(ReportFailure(o))
  /\ \A r \in Resources : WF_vars(Finalize(r))
  /\ \A k \in Kinds, p \in Replicas :
       /\ WF_vars(Tick(k, p))
       /\ WF_vars(MarkDone(k, p))
       /\ \A o \in Ops : WF_vars(Inspect(k, p, o))

FairSpec == Spec /\ Fairness

-----------------------------------------------------------------------------
(* Properties.                                                             *)

(* An operation reads "done" only after its target was absent at some      *)
(* moment since the request: no schedule of replicas, crashes and failing  *)
(* calls makes a reconciler report a deletion that has not happened.       *)
DoneMeansGone == \A o \in Ops : row[o].status = "done" => Gone(o)

(* No deletion is forgotten without a fault: an operation that is pending  *)
(* with no goroutine left is waiting for an object the API server has      *)
(* agreed to delete, unless a crash or a failed write silenced it. The     *)
(* reconciler only watches, so this is what makes its waiting worthwhile.  *)
PendingIsBacked ==
  \A o \in Ops :
    row[o].status = "pending" /\ task[o].pc = "idle" /\ o \notin lost
      => Gone(o) \/ object[row[o].target] = "terminating"

(* Rows are updated blindly, so "done" and "error" may overwrite each      *)
(* other; but once an operation is settled, its goroutine has ended and no *)
(* reconciler still carries it from an older snapshot, its answer is final.*)
Quiescent(o) ==
  /\ row[o].status \in {"done", "error"}
  /\ task[o].pc = "idle"
  /\ \A k \in Kinds, p \in Replicas :
       o \notin sweep[k][p].todo /\ o # sweep[k][p].found

QuiescentIsFinal ==
  [][\A o \in Ops : Quiescent(o) => Quiescent(o)' /\ row'[o] = row[o]]_vars

(* The inductive invariant behind the three.                               *)
RowsWellFormed ==
  \A o \in Ops : Created(o) => /\ row[o].target \in Resources
                              /\ row[o].born <= uid[row[o].target]
RequestsAreFresh ==
  \A c \in request :
    c.op # Nil => /\ ~ Created(c.op)
                  /\ \A d \in request : d.op = c.op => d = c
TasksHaveRows == \A o \in Ops : task[o].pc # "idle" => Created(o)
SweepsAreSound ==
  \A k \in Kinds, p \in Replicas :
    /\ \A o \in sweep[k][p].todo : Created(o) /\ row[o].target.kind = k
    /\ sweep[k][p].found # Nil => Gone(sweep[k][p].found)

IInv ==
  /\ TypeOK
  /\ RowsWellFormed
  /\ RequestsAreFresh
  /\ TasksHaveRows
  /\ SweepsAreSound
  /\ DoneMeansGone
  /\ PendingIsBacked

(* What the client is promised, whichever service it talks to.             *)
Lifecycle == INSTANCE OperationLifecycle WITH
  status <- [o \in Ops |-> row[o].status],
  gone   <- {o \in Ops : Gone(o)},
  open   <- {o \in Ops : task[o].pc # "idle"}

LifecycleSpec == Lifecycle!Spec

(* A pending operation whose target is absent is settled, unless another   *)
(* object of that name appears before a reconciler has looked.             *)
AbsentIsSettled ==
  \A o \in Ops :
    Created(o) /\ row[o].status = "pending" /\ object[row[o].target] = "absent"
      ~> row[o].status # "pending" \/ object[row[o].target] # "absent"

(* A delete request that was accepted is carried out or reported as        *)
(* failed, unless a fault silenced its goroutine.                          *)
DeleteIsCarriedOut ==
  \A o \in Ops :
    row[o].status = "pending" ~> Gone(o) \/ row[o].status = "error" \/ o \in lost
=============================================================================
