----------------------- MODULE ResourceServicesProofs -----------------------
(***************************************************************************)
(* Proofs about ResourceServices, for any number of kinds, names,          *)
(* operations and replicas and any budget of objects and faults.           *)
(***************************************************************************)
EXTENDS ResourceServices, TLAPS

(* Replacing one reconciler's sweep, or the status of one row.             *)
LEMMA SetSweepType ==
  ASSUME sweep \in [Kinds -> [Replicas -> Sweep]],
         NEW k \in Kinds, NEW p \in Replicas,
         NEW t \in SUBSET Ops, NEW f \in Ops \union {Nil}
  PROVE  SetSweep(k, p, t, f) \in [Kinds -> [Replicas -> Sweep]]
  BY DEF SetSweep, Sweep

LEMMA UpdateOperationType ==
  ASSUME row \in [Ops -> Row], NEW o \in Ops,
         NEW s \in {"none", "pending", "done", "error"}
  PROVE  UpdateOperation(o, s) \in [Ops -> Row]
  BY DEF UpdateOperation, Row

(* Every variable keeps its type along every behaviour of the services.    *)
THEOREM TypeCorrect == Spec => []TypeOK
<1> USE BoundsAssumption, NilAssumption
<1>1. Init => TypeOK
  BY DEF Init, TypeOK, NoRow, NoTask, NoSweep, Row, Task, Sweep
<1>2. TypeOK /\ [Next]_vars => TypeOK'
  <2> SUFFICES ASSUME TypeOK, [Next]_vars PROVE TypeOK'
    OBVIOUS
  <2> USE DEF TypeOK
  <2>1. ASSUME NEW r, NEW p \in Replicas, NEW o \in Ops \union {Nil}, Accept(r, p, o)
        PROVE  TypeOK'
    BY <2>1 DEF Accept, kubeVars
  <2>2. ASSUME NEW c \in request, Record(c) PROVE TypeOK'
    <3>1. c.op \in Ops /\ c.target \in Resources /\ c.at \in Replicas
      BY <2>2 DEF Record
    <3>2. NewRow(c.target) \in Row /\ [pc |-> "delete", at |-> c.at] \in Task
      BY <3>1 DEF NewRow, Row, Task
    <3>3. row' \in [Ops -> Row] /\ task' \in [Ops -> Task]
      BY <2>2, <3>1, <3>2 DEF Record
    <3> QED
      BY <2>2, <3>3 DEF Record, Fault, kubeVars
  <2>3. ASSUME NEW c \in request, Post(c) PROVE TypeOK'
    BY <2>3 DEF Post, kubeVars
  <2>4. ASSUME NEW o \in Ops, SendDelete(o) PROVE TypeOK'
    <3>1. object' \in [Resources -> {"absent", "live", "terminating"}]
      BY <2>4 DEF SendDelete
    <3>2. task' \in [Ops -> Task]
      BY <2>4 DEF SendDelete, NoTask, Task
    <3>3. faults' \in 0..MaxFaults
      BY <2>4 DEF SendDelete, Fault
    <3> QED
      BY <2>4, <3>1, <3>2, <3>3 DEF SendDelete
  <2>5. ASSUME NEW o \in Ops, ReportFailure(o) PROVE TypeOK'
    <3>1. row' \in [Ops -> Row]
      BY <2>5, UpdateOperationType DEF ReportFailure
    <3>2. task' \in [Ops -> Task] /\ lost' \subseteq Ops /\ faults' \in 0..MaxFaults
      BY <2>5 DEF ReportFailure, Fault, NoTask, Task
    <3> QED
      BY <2>5, <3>1, <3>2 DEF ReportFailure, kubeVars
  <2>6. ASSUME NEW r \in Resources, Finalize(r) PROVE TypeOK'
    BY <2>6 DEF Finalize
  <2>7. ASSUME NEW k, NEW p \in Replicas, Tick(k, p) PROVE TypeOK'
    <3>1. Pending(k) \subseteq Ops
      BY DEF Pending
    <3> QED
      BY <2>7, <3>1, SetSweepType DEF Tick, kubeVars
  <2>8. ASSUME NEW k \in Kinds, NEW p \in Replicas, NEW o \in Ops, Inspect(k, p, o)
        PROVE  TypeOK'
    <3>1. sweep[k][p].todo \ {o} \in SUBSET Ops
      BY DEF Sweep
    <3>2. \A f \in {o, Nil} :
            SetSweep(k, p, sweep[k][p].todo \ {o}, f) \in [Kinds -> [Replicas -> Sweep]]
      BY <3>1, SetSweepType
    <3>3. sweep' \in [Kinds -> [Replicas -> Sweep]]
      BY <2>8, <3>2 DEF Inspect
    <3> QED
      BY <2>8, <3>3 DEF Inspect, Fault, kubeVars
  <2>9. ASSUME NEW k \in Kinds, NEW p \in Replicas, MarkDone(k, p) PROVE TypeOK'
    <3>1. sweep[k][p].todo \in SUBSET Ops /\ sweep[k][p].found \in Ops
      BY <2>9 DEF Sweep, MarkDone
    <3>2. sweep' \in [Kinds -> [Replicas -> Sweep]]
      BY <2>9, <3>1, SetSweepType DEF MarkDone
    <3>3. row' \in [Ops -> Row]
      BY <2>9, <3>1, UpdateOperationType DEF MarkDone
    <3> QED
      BY <2>9, <3>2, <3>3 DEF MarkDone, Fault, kubeVars
  <2>10. ASSUME NEW k \in Kinds, NEW p \in Replicas, Crash(k, p) PROVE TypeOK'
    <3>1. sweep' \in [Kinds -> [Replicas -> Sweep]]
      BY <2>10, SetSweepType DEF Crash
    <3>2. task' \in [Ops -> Task] /\ lost' \subseteq Ops
      BY <2>10 DEF Crash, TasksAt, NoTask, Task
    <3> QED
      BY <2>10, <3>1, <3>2 DEF Crash, Fault, kubeVars
  <2>11. CASE DropProject
    BY <2>11 DEF DropProject, kubeVars
  <2>12. CASE UNCHANGED vars
    BY <2>12 DEF vars
  <2> QED
    BY <2>1, <2>2, <2>3, <2>4, <2>5, <2>6, <2>7, <2>8, <2>9, <2>10, <2>11, <2>12
    DEF Next, CreateMachine, CreateBucket, CreateDatabase, DeleteMachine,
        DeleteBucket, DeleteDatabase, ReconcileMachines, ReconcileBuckets,
        ReconcileDatabases
<1> QED
  BY <1>1, <1>2, PTL DEF Spec
-----------------------------------------------------------------------------
(* What every step keeps. The number of objects ever created under a name  *)
(* only grows, and grows when an absent name comes back; a row, once       *)
(* inserted, keeps its target.                                             *)
ObjectsMoveOn ==
  \A r \in Resources :
    /\ uid[r] <= uid'[r]
    /\ object[r] = "absent" => object'[r] = "absent" \/ uid[r] < uid'[r]

RowsAreKept ==
  \A o \in Ops :
    Created(o) => /\ Created(o)'
                  /\ row'[o].target = row[o].target
                  /\ row'[o].born = row[o].born

LEMMA UpdateOperationKeeps ==
  ASSUME row \in [Ops -> Row], NEW o \in Ops, NEW s \in {"done", "error"},
         row' = UpdateOperation(o, s)
  PROVE  /\ RowsAreKept
         /\ row'[o].status = s
         /\ \A q \in Ops \ {o} : row'[q] = row[q]
  BY DEF UpdateOperation, RowsAreKept, Created, Row

LEMMA StepKeeps ==
  ASSUME TypeOK, RequestsAreFresh, [Next]_vars
  PROVE  ObjectsMoveOn /\ RowsAreKept
<1> USE DEF TypeOK
<1>1. ASSUME UNCHANGED object, UNCHANGED uid PROVE ObjectsMoveOn
  BY <1>1 DEF ObjectsMoveOn
<1>2. ASSUME UNCHANGED row PROVE RowsAreKept
  BY <1>2 DEF RowsAreKept, Created
<1>3. ASSUME NEW r, NEW p \in Replicas, NEW o \in Ops \union {Nil}, Accept(r, p, o)
      PROVE  ObjectsMoveOn /\ RowsAreKept
  BY <1>1, <1>2, <1>3 DEF Accept, kubeVars
<1>4. ASSUME NEW c \in request, Record(c)
      PROVE  ObjectsMoveOn /\ RowsAreKept
  <2>1. c.op \in Ops /\ ~ Created(c.op)
    BY <1>4 DEF Record, RequestsAreFresh
  <2>2. RowsAreKept
    BY <1>4, <2>1 DEF Record, RowsAreKept, Created, Row
  <2> QED
    BY <1>1, <1>4, <2>2 DEF Record, kubeVars
<1>5. ASSUME NEW c \in request, Post(c) PROVE ObjectsMoveOn /\ RowsAreKept
  <2>1. ObjectsMoveOn
    BY <1>5 DEF Post, kubeVars, ObjectsMoveOn
  <2> QED
    BY <1>2, <1>5, <2>1 DEF Post
<1>6. ASSUME NEW o \in Ops, SendDelete(o) PROVE ObjectsMoveOn /\ RowsAreKept
  <2>1. ObjectsMoveOn
    BY <1>6 DEF SendDelete, ObjectsMoveOn
  <2> QED
    BY <1>2, <1>6, <2>1 DEF SendDelete
<1>7. ASSUME NEW o \in Ops, ReportFailure(o) PROVE ObjectsMoveOn /\ RowsAreKept
  BY <1>1, <1>2, <1>7, UpdateOperationKeeps DEF ReportFailure, kubeVars
<1>8. ASSUME NEW r \in Resources, Finalize(r) PROVE ObjectsMoveOn /\ RowsAreKept
  <2>1. ObjectsMoveOn
    BY <1>8 DEF Finalize, ObjectsMoveOn
  <2> QED
    BY <1>2, <1>8, <2>1 DEF Finalize
<1>9. ASSUME NEW k, NEW p \in Replicas, Tick(k, p) PROVE ObjectsMoveOn /\ RowsAreKept
  BY <1>1, <1>2, <1>9 DEF Tick, kubeVars
<1>10. ASSUME NEW k \in Kinds, NEW p \in Replicas, NEW o \in Ops, Inspect(k, p, o)
       PROVE  ObjectsMoveOn /\ RowsAreKept
  BY <1>1, <1>2, <1>10 DEF Inspect, kubeVars
<1>11. ASSUME NEW k \in Kinds, NEW p \in Replicas, MarkDone(k, p)
       PROVE  ObjectsMoveOn /\ RowsAreKept
  <2>1. sweep[k][p].found \in Ops
    BY <1>11 DEF MarkDone, Sweep
  <2> QED
    BY <1>1, <1>2, <1>11, <2>1, UpdateOperationKeeps DEF MarkDone, kubeVars
<1>12. ASSUME NEW k \in Kinds, NEW p \in Replicas, Crash(k, p)
       PROVE  ObjectsMoveOn /\ RowsAreKept
  BY <1>1, <1>2, <1>12 DEF Crash, kubeVars
<1>13. CASE DropProject \/ UNCHANGED vars
  BY <1>1, <1>2, <1>13 DEF DropProject, vars, kubeVars
<1> QED
  BY <1>3, <1>4, <1>5, <1>6, <1>7, <1>8, <1>9, <1>10, <1>11, <1>12, <1>13
  DEF Next, CreateMachine, CreateBucket, CreateDatabase, DeleteMachine,
      DeleteBucket, DeleteDatabase, ReconcileMachines, ReconcileBuckets,
      ReconcileDatabases

(* An operation that has lost its target never gets it back.               *)
LEMMA GoneIsStable ==
  ASSUME TypeOK, TypeOK', RowsWellFormed, ObjectsMoveOn, RowsAreKept,
         NEW o \in Ops, Gone(o)
  PROVE  Gone(o)'
<1>1. Created(o) /\ row[o].target \in Resources /\ row[o].born <= uid[row[o].target]
  BY DEF Gone, RowsWellFormed
<1>2. Created(o)' /\ row'[o].target = row[o].target /\ row'[o].born = row[o].born
  BY <1>1 DEF RowsAreKept
<1>3. row[o].born \in Nat /\ uid[row[o].target] \in Nat /\ uid'[row[o].target] \in Nat
  BY <1>1 DEF TypeOK, Row
<1> QED
  BY <1>1, <1>2, <1>3 DEF Gone, ObjectsMoveOn

(* A sweep is replaced in one place.                                       *)
LEMMA SweepUpdateIsSound ==
  ASSUME TypeOK, TypeOK', SweepsAreSound, RowsAreKept,
         \A q \in Ops : Gone(q) => Gone(q)',
         NEW k \in Kinds, NEW p \in Replicas,
         NEW t \in SUBSET Ops, NEW f \in Ops \union {Nil},
         sweep' = SetSweep(k, p, t, f),
         \A q \in t : Created(q) /\ row[q].target.kind = k,
         f # Nil => Gone(f)
  PROVE  SweepsAreSound'
<1>0. \A k2 \in Kinds, p2 \in Replicas : sweep'[k2][p2] \in Sweep
  BY DEF TypeOK
<1> SUFFICES ASSUME NEW k2 \in Kinds, NEW p2 \in Replicas
             PROVE  /\ \A o \in sweep'[k2][p2].todo :
                         Created(o)' /\ row'[o].target.kind = k2
                    /\ \A q \in Ops : sweep'[k2][p2].found = q => Gone(q)'
  BY <1>0 DEF SweepsAreSound, Sweep
<1>1. sweep[k2][p2] \in Sweep
  BY DEF TypeOK
<1>2. CASE k2 = k /\ p2 = p
  <2>1. sweep'[k2][p2] = [todo |-> t, found |-> f]
    BY <1>2 DEF SetSweep, TypeOK
  <2> QED
    BY <2>1, <1>2, NilAssumption DEF RowsAreKept
<1>3. CASE ~ (k2 = k /\ p2 = p)
  <2>1. sweep'[k2][p2] = sweep[k2][p2]
    BY <1>3 DEF SetSweep, TypeOK
  <2> QED
    BY <2>1, <1>1, NilAssumption DEF SweepsAreSound, RowsAreKept, Sweep
<1> QED
  BY <1>2, <1>3

(* The sweeps stay sound when no reconciler moves.                         *)
LEMMA SweepsStaySound ==
  ASSUME TypeOK, SweepsAreSound, RowsAreKept, UNCHANGED sweep,
         \A q \in Ops : Gone(q) => Gone(q)'
  PROVE  SweepsAreSound'
<1>0. \A k \in Kinds, p \in Replicas : sweep[k][p] \in Sweep
  BY DEF TypeOK
<1> SUFFICES ASSUME NEW k \in Kinds, NEW p \in Replicas
             PROVE  /\ \A o \in sweep[k][p].todo :
                         Created(o)' /\ row'[o].target.kind = k
                    /\ \A q \in Ops : sweep[k][p].found = q => Gone(q)'
  BY <1>0 DEF SweepsAreSound, Sweep
<1>1. sweep[k][p] \in Sweep
  BY <1>0
<1>2. ASSUME NEW o \in sweep[k][p].todo PROVE Created(o)' /\ row'[o].target.kind = k
  <2>1. o \in Ops /\ Created(o) /\ row[o].target.kind = k
    BY <1>1, <1>2 DEF SweepsAreSound, Sweep
  <2> QED
    BY <2>1 DEF RowsAreKept
<1>3. \A q \in Ops : sweep[k][p].found = q => Gone(q)'
  BY NilAssumption DEF SweepsAreSound
<1> QED
  BY <1>2, <1>3

(* A row appears only when the request that brings its identifier records  *)
(* it, so no identifier is in use twice.                                   *)
LEMMA RequestsStayFresh ==
  ASSUME TypeOK, RequestsAreFresh, TasksHaveRows, SweepsAreSound, [Next]_vars
  PROVE  RequestsAreFresh'
<1> USE NilAssumption DEF TypeOK
<1>1. ASSUME request' \subseteq request,
             \A c \in request' : c.op # Nil /\ ~ Created(c.op) => ~ Created(c.op)'
      PROVE  RequestsAreFresh'
  BY <1>1 DEF RequestsAreFresh
<1>2. ASSUME request' \subseteq request, UNCHANGED row PROVE RequestsAreFresh'
  BY <1>1, <1>2 DEF Created
<1>3. ASSUME NEW r, NEW p \in Replicas, Accept(r, p, Nil) PROVE RequestsAreFresh'
  BY <1>3 DEF Accept, RequestsAreFresh, Created
<1>4. ASSUME NEW r, NEW p \in Replicas, NEW o \in Ops, Unused(o), Accept(r, p, o)
      PROVE  RequestsAreFresh'
  BY <1>4 DEF Accept, Unused, RequestsAreFresh, Created
<1>5. ASSUME NEW c \in request, Record(c) PROVE RequestsAreFresh'
  <2>1. c.op \in Ops /\ \A d \in request \ {c} : d.op # c.op
    BY <1>5 DEF Record, RequestsAreFresh
  <2>2. \A o \in Ops \ {c.op} : row'[o] = row[o]
    BY <1>5, <2>1 DEF Record
  <2> QED
    BY <1>1, <1>5, <2>1, <2>2 DEF Record, Created
<1>6. ASSUME NEW c \in request, Post(c) PROVE RequestsAreFresh'
  BY <1>2, <1>6 DEF Post
<1>7. ASSUME NEW o \in Ops, SendDelete(o) PROVE RequestsAreFresh'
  BY <1>2, <1>7 DEF SendDelete
<1>8. ASSUME NEW o \in Ops, ReportFailure(o) PROVE RequestsAreFresh'
  <2>1. Created(o)
    BY <1>8 DEF ReportFailure, TasksHaveRows
  <2>2. \A q \in Ops \ {o} : row'[q] = row[q]
    BY <1>8, UpdateOperationKeeps DEF ReportFailure
  <2> QED
    BY <1>1, <1>8, <2>1, <2>2 DEF ReportFailure, Created
<1>9. ASSUME NEW r, Finalize(r) PROVE RequestsAreFresh'
  BY <1>2, <1>9 DEF Finalize
<1>10. ASSUME NEW k, NEW p, Tick(k, p) PROVE RequestsAreFresh'
  BY <1>2, <1>10 DEF Tick
<1>11. ASSUME NEW k, NEW p, NEW o, Inspect(k, p, o) PROVE RequestsAreFresh'
  BY <1>2, <1>11 DEF Inspect
<1>12. ASSUME NEW k \in Kinds, NEW p \in Replicas, MarkDone(k, p)
       PROVE  RequestsAreFresh'
  <2>1. sweep[k][p].found \in Ops /\ Created(sweep[k][p].found)
    BY <1>12 DEF MarkDone, SweepsAreSound, Gone, Sweep
  <2>2. \A q \in Ops \ {sweep[k][p].found} : row'[q] = row[q]
    BY <1>12, <2>1, UpdateOperationKeeps DEF MarkDone
  <2> QED
    BY <1>1, <1>12, <2>1, <2>2 DEF MarkDone, Created
<1>13. ASSUME NEW k, NEW p, Crash(k, p) PROVE RequestsAreFresh'
  BY <1>2, <1>13 DEF Crash
<1>14. ASSUME DropProject \/ UNCHANGED vars PROVE RequestsAreFresh'
  BY <1>2, <1>14 DEF DropProject, vars
<1> QED
  BY <1>3, <1>4, <1>5, <1>6, <1>7, <1>8, <1>9, <1>10, <1>11, <1>12, <1>13, <1>14
  DEF Next, CreateMachine, CreateBucket, CreateDatabase, DeleteMachine,
      DeleteBucket, DeleteDatabase, ReconcileMachines, ReconcileBuckets,
      ReconcileDatabases

(* The strengthening is inductive: every step keeps all of its parts.      *)
LEMMA StepKeepsIInv ==
  ASSUME IInv, TypeOK', [Next]_vars
  PROVE  IInv'
<1> USE NilAssumption DEF IInv
<1>0. RequestsAreFresh'
  BY RequestsStayFresh
<1> USE <1>0
<1>1. ObjectsMoveOn /\ RowsAreKept
  BY StepKeeps
<1>2. \A q \in Ops : Gone(q) => Gone(q)'
  BY <1>1, GoneIsStable
<1>3. ASSUME UNCHANGED row PROVE RowsWellFormed' /\ DoneMeansGone'
  <2>1. RowsWellFormed'
    <3> SUFFICES ASSUME NEW o \in Ops, Created(o)
                 PROVE  row[o].target \in Resources /\ row[o].born <= uid'[row[o].target]
      BY <1>3 DEF RowsWellFormed, Created
    <3>1. /\ row[o].target \in Resources
          /\ row[o].born <= uid[row[o].target]
          /\ uid[row[o].target] <= uid'[row[o].target]
      BY <1>1 DEF RowsWellFormed, ObjectsMoveOn
    <3>2. row[o].born \in Nat /\ uid[row[o].target] \in Nat /\ uid'[row[o].target] \in Nat
      BY <3>1 DEF TypeOK, Row
    <3> QED
      BY <3>1, <3>2
  <2>2. DoneMeansGone'
    BY <1>2, <1>3 DEF DoneMeansGone
  <2> QED
    BY <2>1, <2>2
<1>4. ASSUME UNCHANGED <<object, uid, row, task, sweep, lost>> PROVE IInv'
  BY <1>4 DEF TypeOK, RowsWellFormed, TasksHaveRows, SweepsAreSound, DoneMeansGone,
              PendingIsBacked, Created, Gone
<1>5. ASSUME NEW r, NEW p \in Replicas, NEW o \in Ops \union {Nil}, Accept(r, p, o)
      PROVE  IInv'
  BY <1>4, <1>5 DEF Accept, kubeVars
<1>6. ASSUME NEW c \in request, Record(c) PROVE IInv'
  <2> DEFINE o == c.op
  <2>1. o \in Ops /\ ~ Created(o) /\ c.target \in Resources
    BY <1>6 DEF Record, RequestsAreFresh, TypeOK
  <2>2. UNCHANGED <<object, uid, sweep, lost>>
    BY <1>6 DEF Record, kubeVars
  <2>3. CASE UNCHANGED <<row, task>>
    BY <1>4, <2>2, <2>3
  <2>4. CASE ~ UNCHANGED <<row, task>>
    <3>1. /\ row'[o] = NewRow(c.target) /\ task'[o].pc = "delete"
          /\ \A q \in Ops \ {o} : row'[q] = row[q] /\ task'[q] = task[q]
      BY <1>6, <2>1, <2>4 DEF Record, TypeOK
    <3>2. RowsWellFormed'
      BY <2>1, <2>2, <3>1 DEF RowsWellFormed, NewRow, Created, TypeOK
    <3>3. TasksHaveRows'
      BY <3>1 DEF TasksHaveRows, NewRow, Created
    <3>4. SweepsAreSound'
      BY <1>1, <1>2, <2>2, SweepsStaySound
    <3>5. DoneMeansGone'
      BY <1>2, <3>1 DEF DoneMeansGone, NewRow
    <3>6. PendingIsBacked'
      BY <1>2, <2>2, <3>1 DEF PendingIsBacked
    <3> QED
      BY <3>2, <3>3, <3>4, <3>5, <3>6
  <2> QED
    BY <2>3, <2>4
<1>7. ASSUME NEW c \in request, Post(c) PROVE IInv'
  <2>1. UNCHANGED <<row, task, sweep, lost>>
    BY <1>7 DEF Post
  <2>2. \A r \in Resources : object[r] = "terminating" => object'[r] = "terminating"
    BY <1>7 DEF Post, kubeVars, TypeOK
  <2>3. PendingIsBacked'
    BY <1>2, <2>1, <2>2 DEF PendingIsBacked, RowsWellFormed, Created
  <2> QED
    BY <1>1, <1>2, <1>3, <2>1, <2>3, SweepsStaySound DEF TasksHaveRows, Created
<1>8. ASSUME NEW o \in Ops, SendDelete(o) PROVE IInv'
  <2>1. UNCHANGED <<row, sweep, lost>>
    BY <1>8 DEF SendDelete
  <2>2. Created(o) /\ row[o].target \in Resources
    BY <1>8 DEF SendDelete, TasksHaveRows, RowsWellFormed
  <2>3. \A q \in Ops \ {o} : task'[q] = task[q]
    BY <1>8 DEF SendDelete, TypeOK
  <2>4. \A r \in Resources : object[r] = "terminating" => object'[r] = "terminating"
    BY <1>8 DEF SendDelete, TypeOK
  <2>5. task'[o].pc = "idle" => object'[row[o].target] = "terminating"
    BY <1>8, <2>2 DEF SendDelete, TypeOK, Task
  <2>6. TasksHaveRows'
    BY <2>1, <2>2, <2>3 DEF TasksHaveRows, Created
  <2>7. PendingIsBacked'
    BY <1>2, <2>1, <2>3, <2>4, <2>5 DEF PendingIsBacked, RowsWellFormed, Created
  <2> QED
    BY <1>1, <1>2, <1>3, <2>1, <2>6, <2>7, SweepsStaySound
<1>9. ASSUME NEW o \in Ops, ReportFailure(o) PROVE IInv'
  <2>1. UNCHANGED <<object, uid, sweep>> /\ task[o].pc = "fail" /\ task'[o].pc = "idle"
    BY <1>9 DEF ReportFailure, kubeVars, TypeOK, NoTask
  <2>2. \A q \in Ops \ {o} : task'[q] = task[q] /\ row'[q] = row[q]
    BY <1>9, UpdateOperationKeeps DEF ReportFailure, TypeOK
  <2>3. row'[o].status = "error" \/ (o \in lost' /\ row'[o] = row[o])
    BY <1>9, UpdateOperationKeeps DEF ReportFailure, TypeOK
  <2>4. lost \subseteq lost' /\ Created(o)
    BY <1>9 DEF ReportFailure, TasksHaveRows
  <2>5. RowsWellFormed'
    BY <1>1, <2>1, <2>2, <2>4 DEF RowsWellFormed, RowsAreKept, Created
  <2>6. TasksHaveRows'
    BY <1>1, <2>2, <2>4 DEF TasksHaveRows, RowsAreKept, Created
  <2>7. DoneMeansGone'
    BY <1>2, <2>2, <2>3 DEF DoneMeansGone
  <2>8. PendingIsBacked'
    BY <1>2, <2>1, <2>2, <2>3, <2>4 DEF PendingIsBacked
  <2> QED
    BY <1>1, <1>2, <2>1, <2>5, <2>6, <2>7, <2>8, SweepsStaySound
<1>10. ASSUME NEW r \in Resources, Finalize(r) PROVE IInv'
  <2>1. UNCHANGED <<uid, row, task, sweep, lost>>
    BY <1>10 DEF Finalize
  <2>2. \A s \in Resources :
          object[s] = "terminating" => object'[s] \in {"terminating", "absent"}
    BY <1>10 DEF Finalize, TypeOK
  <2>3. PendingIsBacked'
    BY <1>2, <2>1, <2>2 DEF PendingIsBacked, RowsWellFormed, Created, Gone
  <2> QED
    BY <1>1, <1>2, <1>3, <2>1, <2>3, SweepsStaySound DEF TasksHaveRows, Created
<1>11. ASSUME NEW k, NEW p \in Replicas, Tick(k, p) PROVE IInv'
  <2>1. UNCHANGED <<object, uid, row, task, lost>> /\ k \in Kinds
    BY <1>11 DEF Tick, kubeVars
  <2>2. /\ Pending(k) \in SUBSET Ops
        /\ \A q \in Pending(k) : Created(q) /\ row[q].target.kind = k
    BY DEF Pending, Created
  <2>3. SweepsAreSound'
    BY <1>1, <1>2, <1>11, <2>1, <2>2, SweepUpdateIsSound DEF Tick
  <2> QED
    BY <1>3, <2>1, <2>3 DEF TasksHaveRows, Created, PendingIsBacked, Gone
<1>12. ASSUME NEW k \in Kinds, NEW p \in Replicas, NEW o \in Ops, Inspect(k, p, o)
       PROVE  IInv'
  <2>1. UNCHANGED <<object, uid, row, task, lost>>
    BY <1>12 DEF Inspect, kubeVars
  <2>2. /\ sweep[k][p].todo \ {o} \in SUBSET Ops
        /\ \A q \in sweep[k][p].todo : Created(q) /\ row[q].target.kind = k
        /\ o \in sweep[k][p].todo
    BY <1>12 DEF Inspect, TypeOK, Sweep, SweepsAreSound
  <2>3. row[o].target = [kind |-> k, name |-> row[o].target.name]
    BY <2>2 DEF RowsWellFormed, Resources
  <2>4. ~ Listed(k, o) => Gone(o)
    BY <2>2, <2>3 DEF Listed, Gone
  <2>5. PICK f \in {o, Nil} : /\ sweep' = SetSweep(k, p, sweep[k][p].todo \ {o}, f)
                              /\ f # Nil => Gone(f)
    BY <1>12, <2>4 DEF Inspect
  <2>6. SweepsAreSound'
    BY <1>1, <1>2, <2>2, <2>5, SweepUpdateIsSound
  <2> QED
    BY <1>3, <2>1, <2>6 DEF TasksHaveRows, Created, PendingIsBacked, Gone
<1>13. ASSUME NEW k \in Kinds, NEW p \in Replicas, MarkDone(k, p) PROVE IInv'
  <2> DEFINE o == sweep[k][p].found
  <2>1. UNCHANGED <<object, uid, task, lost>>
    BY <1>13 DEF MarkDone, kubeVars
  <2>2. o \in Ops /\ Gone(o) /\ sweep[k][p].todo \in SUBSET Ops
    BY <1>13 DEF MarkDone, SweepsAreSound, TypeOK, Sweep
  <2>3. /\ \A q \in Ops \ {o} : row'[q] = row[q]
        /\ row'[o].status = "done" \/ row'[o] = row[o]
    BY <1>13, <2>2, UpdateOperationKeeps DEF MarkDone, TypeOK
  <2>4. RowsWellFormed'
    BY <1>1, <2>1, <2>2, <2>3 DEF RowsWellFormed, RowsAreKept, Created, Gone
  <2>5. TasksHaveRows'
    BY <1>1, <2>1 DEF TasksHaveRows, RowsAreKept
  <2>6. DoneMeansGone'
    BY <1>2, <2>2, <2>3 DEF DoneMeansGone
  <2>7. PendingIsBacked'
    BY <1>2, <2>1, <2>3 DEF PendingIsBacked
  <2>8. \A q \in sweep[k][p].todo : Created(q) /\ row[q].target.kind = k
    BY DEF SweepsAreSound
  <2>9. SweepsAreSound'
    BY <1>1, <1>2, <1>13, <2>2, <2>8, SweepUpdateIsSound DEF MarkDone
  <2> QED
    BY <2>4, <2>5, <2>6, <2>7, <2>9
<1>14. ASSUME NEW k \in Kinds, NEW p \in Replicas, Crash(k, p) PROVE IInv'
  <2>1. UNCHANGED <<object, uid, row>>
    BY <1>14 DEF Crash, kubeVars
  <2>2. \A q \in Ops : \/ task'[q] = task[q]
                       \/ task'[q].pc = "idle" /\ q \in lost'
    BY <1>14 DEF Crash, NoTask
  <2>3. lost \subseteq lost'
    BY <1>14 DEF Crash
  <2>4. SweepsAreSound'
    BY <1>1, <1>2, <1>14, SweepUpdateIsSound DEF Crash
  <2>5. TasksHaveRows'
    BY <2>1, <2>2 DEF TasksHaveRows, Created
  <2>6. PendingIsBacked'
    BY <2>1, <2>2, <2>3 DEF PendingIsBacked, Gone, Created
  <2> QED
    BY <1>3, <2>1, <2>4, <2>5, <2>6
<1>15. CASE DropProject \/ UNCHANGED vars
  BY <1>4, <1>15 DEF DropProject, vars, kubeVars
<1> QED
  BY <1>5, <1>6, <1>7, <1>8, <1>9, <1>10, <1>11, <1>12, <1>13, <1>14, <1>15
  DEF Next, CreateMachine, CreateBucket, CreateDatabase, DeleteMachine,
      DeleteBucket, DeleteDatabase, ReconcileMachines, ReconcileBuckets,
      ReconcileDatabases

LEMMA InitIInv == Init => IInv
<1> SUFFICES ASSUME Init PROVE IInv
  OBVIOUS
<1>1. TypeOK
  BY BoundsAssumption DEF Init, TypeOK, NoRow, NoTask, NoSweep, Row, Task, Sweep
<1> QED
  BY <1>1 DEF Init, IInv, RowsWellFormed, RequestsAreFresh, TasksHaveRows, SweepsAreSound, DoneMeansGone,
              PendingIsBacked, Created, NoRow, NoTask, NoSweep

THEOREM InductiveInvariant == Spec => []IInv
<1>1. IInv /\ TypeOK' /\ [Next]_vars => IInv'
  BY StepKeepsIInv
<1> QED
  BY <1>1, InitIInv, TypeCorrect, PTL DEF Spec

(* No reconciler, in any schedule, reports a deletion that has not         *)
(* happened.                                                               *)
THEOREM DoneIsHonest == Spec => []DoneMeansGone
<1>1. IInv => DoneMeansGone
  BY DEF IInv
<1> QED
  BY <1>1, InductiveInvariant, PTL

(* Without a fault, a pending operation that nobody works on is waiting    *)
(* for an object the API server has agreed to delete.                      *)
THEOREM PendingIsWorthwhile == Spec => []PendingIsBacked
<1>1. IInv => PendingIsBacked
  BY DEF IInv
<1> QED
  BY <1>1, InductiveInvariant, PTL

-----------------------------------------------------------------------------
(* The detailed services implement the lifecycle they promise.             *)

LEMMA InitRefines == Init => Lifecycle!Init
  BY DEF Init, Lifecycle!Init, Gone, Created, NoRow, NoTask

LEMMA StepRefines ==
  ASSUME IInv, IInv', [Next]_vars
  PROVE  [Lifecycle!Next]_(Lifecycle!vars)
<1> USE NilAssumption DEF IInv
<1> DEFINE status == [o \in Ops |-> row[o].status]
           gone   == {o \in Ops : Gone(o)}
           open   == {o \in Ops : task[o].pc # "idle"}
<1>1. ObjectsMoveOn /\ RowsAreKept
  BY StepKeeps
<1>2. gone \subseteq gone'
  BY <1>1, GoneIsStable
<1>3. gone' \subseteq {o \in Ops : status'[o] # "none"}
  BY DEF Gone, Created
<1>4. ASSUME UNCHANGED row, UNCHANGED task PROVE Lifecycle!Vanish
  BY <1>2, <1>3, <1>4 DEF Lifecycle!Vanish
<1>5. ASSUME UNCHANGED <<row, gone>>, open' \subseteq open PROVE Lifecycle!Close
  BY <1>5 DEF Lifecycle!Close
<1>6. ASSUME NEW r, NEW p \in Replicas, NEW o \in Ops \union {Nil}, Accept(r, p, o)
      PROVE  Lifecycle!Vanish
  BY <1>4, <1>6 DEF Accept
<1>7. ASSUME NEW c \in request, Record(c)
      PROVE  Lifecycle!Vanish \/ \E o \in Ops : Lifecycle!Create(o)
  <2> DEFINE o == c.op
  <2>1. o \in Ops /\ ~ Created(o)
    BY <1>7 DEF Record, RequestsAreFresh, TypeOK
  <2>2. UNCHANGED <<object, uid>>
    BY <1>7 DEF Record, kubeVars
  <2>3. CASE UNCHANGED <<row, task>>
    BY <1>4, <2>3
  <2>4. CASE ~ UNCHANGED <<row, task>>
    <3>1. /\ row'[o].status = "pending" /\ task'[o].pc = "delete"
          /\ \A q \in Ops \ {o} : row'[q] = row[q] /\ task'[q] = task[q]
      BY <1>7, <2>1, <2>4 DEF Record, TypeOK, NewRow
    <3>2. status[o] = "none" /\ status' = [status EXCEPT ![o] = "pending"]
      <4>1. status[o] = "none"
        BY <2>1 DEF Created
      <4>2. \A q \in Ops : row'[q].status = IF q = o THEN "pending" ELSE row[q].status
        BY <3>1
      <4>3. status' = [q \in Ops |-> IF q = o THEN "pending" ELSE row[q].status]
        BY <4>2
      <4> QED
        BY <4>1, <4>3
    <3>3. gone' \in {gone, gone \union {o}}
      BY <2>2, <3>1, <1>2 DEF Gone, Created
    <3>4. open' = open \union {o}
      BY <2>1, <3>1
    <3> QED
      BY <2>1, <3>2, <3>3, <3>4 DEF Lifecycle!Create
  <2> QED
    BY <2>3, <2>4
<1>8. ASSUME NEW c \in request, Post(c) PROVE Lifecycle!Vanish
  BY <1>4, <1>8 DEF Post
<1>9. ASSUME NEW o \in Ops, SendDelete(o) PROVE Lifecycle!Close
  <2>1. UNCHANGED <<row, uid>>
    BY <1>9 DEF SendDelete
  <2>2. \A q \in Ops \ {o} : task'[q] = task[q]
    BY <1>9 DEF SendDelete, TypeOK
  <2>3. \A r \in Resources : object'[r] = "absent" <=> object[r] = "absent"
    BY <1>9 DEF SendDelete, TypeOK
  <2>4. UNCHANGED gone
    BY <2>1, <2>3 DEF Gone, Created, RowsWellFormed
  <2>5. open' \subseteq open
    BY <1>9, <2>2 DEF SendDelete
  <2> QED
    BY <1>5, <2>1, <2>4, <2>5
<1>10. ASSUME NEW o \in Ops, ReportFailure(o)
       PROVE  Lifecycle!Fail(o) \/ Lifecycle!Close
  <2>1. /\ UNCHANGED <<object, uid>>
        /\ task[o].pc = "fail" /\ task'[o].pc = "idle"
        /\ \A q \in Ops \ {o} : task'[q] = task[q]
    BY <1>10 DEF ReportFailure, kubeVars, TypeOK, NoTask
  <2>2. /\ \A q \in Ops \ {o} : row'[q] = row[q]
        /\ row'[o].status = "error" \/ UNCHANGED row
    BY <1>10, UpdateOperationKeeps DEF ReportFailure, TypeOK
  <2>3. UNCHANGED gone
    <3>1. Created(o)
      BY <2>1 DEF TasksHaveRows
    <3>2. Created(o)' /\ row'[o].target = row[o].target /\ row'[o].born = row[o].born
      BY <1>1, <3>1 DEF RowsAreKept
    <3>3. \A q \in Ops : Gone(q) <=> Gone(q)'
      BY <2>1, <2>2, <3>1, <3>2 DEF Gone, Created
    <3> QED
      BY <3>3
  <2>4. o \in open /\ open' = open \ {o}
    BY <2>1
  <2>5. CASE UNCHANGED row
    BY <1>5, <2>3, <2>4, <2>5
  <2>6. CASE row'[o].status = "error"
    <3>1. status' = [status EXCEPT ![o] = "error"]
      BY <2>2, <2>6
    <3> QED
      BY <2>3, <2>4, <3>1 DEF Lifecycle!Fail
  <2> QED
    BY <2>2, <2>5, <2>6
<1>11. ASSUME NEW r \in Resources, Finalize(r) PROVE Lifecycle!Vanish
  BY <1>4, <1>11 DEF Finalize
<1>12. ASSUME NEW k, NEW p \in Replicas, Tick(k, p) PROVE Lifecycle!Vanish
  BY <1>4, <1>12 DEF Tick
<1>13. ASSUME NEW k \in Kinds, NEW p \in Replicas, NEW o \in Ops, Inspect(k, p, o)
       PROVE  Lifecycle!Vanish
  BY <1>4, <1>13 DEF Inspect
<1>14. ASSUME NEW k \in Kinds, NEW p \in Replicas, MarkDone(k, p)
       PROVE  Lifecycle!Vanish \/ \E o \in Ops : Lifecycle!Done(o)
  <2> DEFINE o == sweep[k][p].found
  <2>1. UNCHANGED <<object, uid, task>>
    BY <1>14 DEF MarkDone, kubeVars
  <2>2. o \in Ops /\ Gone(o)
    BY <1>14 DEF MarkDone, SweepsAreSound, TypeOK, Sweep
  <2>3. /\ \A q \in Ops \ {o} : row'[q] = row[q]
        /\ row'[o].status = "done" \/ UNCHANGED row
    BY <1>14, <2>2, UpdateOperationKeeps DEF MarkDone, TypeOK
  <2>4. CASE UNCHANGED row
    BY <1>4, <2>1, <2>4
  <2>5. CASE row'[o].status = "done"
    <3>1. status' = [status EXCEPT ![o] = "done"]
      BY <2>2, <2>3, <2>5
    <3>2. UNCHANGED gone
      BY <1>1, <2>1, <2>2, <2>3 DEF Gone, RowsAreKept, Created
    <3> QED
      BY <2>1, <2>2, <3>1, <3>2 DEF Lifecycle!Done
  <2> QED
    BY <2>3, <2>4, <2>5
<1>15. ASSUME NEW k \in Kinds, NEW p \in Replicas, Crash(k, p) PROVE Lifecycle!Close
  <2>1. UNCHANGED <<object, uid, row>>
    BY <1>15 DEF Crash, kubeVars
  <2>2. open' \subseteq open
    BY <1>15 DEF Crash, NoTask
  <2> QED
    BY <1>5, <2>1, <2>2 DEF Gone, Created
<1>16. ASSUME DropProject \/ UNCHANGED vars PROVE Lifecycle!Vanish
  BY <1>4, <1>16 DEF DropProject, vars
<1> QED
  BY <1>6, <1>7, <1>8, <1>9, <1>10, <1>11, <1>12, <1>13, <1>14, <1>15, <1>16
  DEF Next, Lifecycle!Next, CreateMachine, CreateBucket, CreateDatabase, DeleteMachine,
      DeleteBucket, DeleteDatabase, ReconcileMachines, ReconcileBuckets,
      ReconcileDatabases

(* Every behaviour of the services, seen through the status of the         *)
(* operations, is one the lifecycle allows.                                *)
THEOREM Refinement == Spec => LifecycleSpec
<1>1. IInv /\ IInv' /\ [Next]_vars => [Lifecycle!Next]_(Lifecycle!vars)
  BY StepRefines
<1> QED
  BY <1>1, InitRefines, InductiveInvariant, PTL DEF Spec, LifecycleSpec, Lifecycle!Spec

-----------------------------------------------------------------------------
(* Settled answers.                                                        *)

LEMMA StepKeepsQuiescence ==
  ASSUME IInv, [Next]_vars, NEW o \in Ops, Quiescent(o)
  PROVE  Quiescent(o)' /\ row'[o] = row[o]
<1> USE NilAssumption DEF IInv
<1>1. o \notin Pending("vm") /\ o \notin Pending("bucket") /\ o \notin Pending("database")
  BY DEF Quiescent, Pending
<1>2. ASSUME UNCHANGED <<row, task, sweep>> PROVE Quiescent(o)' /\ row'[o] = row[o]
  BY <1>2 DEF Quiescent
<1>3. ASSUME row'[o] = row[o], task'[o].pc = "idle", NEW k, NEW p,
             NEW t, NEW f, o \notin t, o # f, sweep' = SetSweep(k, p, t, f)
      PROVE  Quiescent(o)' /\ row'[o] = row[o]
  BY <1>3 DEF Quiescent, SetSweep, TypeOK
<1>4. ASSUME NEW r, NEW p, NEW q, Accept(r, p, q) PROVE Quiescent(o)' /\ row'[o] = row[o]
  BY <1>2, <1>4 DEF Accept
<1>5. ASSUME NEW c \in request, Record(c) PROVE Quiescent(o)' /\ row'[o] = row[o]
  <2>1. c.op \in Ops /\ c.op # o
    BY <1>5 DEF Record, RequestsAreFresh, Quiescent, Created, TypeOK
  <2> QED
    BY <1>5, <2>1 DEF Record, Quiescent, TypeOK
<1>6. ASSUME NEW c, Post(c) PROVE Quiescent(o)' /\ row'[o] = row[o]
  BY <1>2, <1>6 DEF Post
<1>7. ASSUME NEW q \in Ops, SendDelete(q) \/ ReportFailure(q)
      PROVE  Quiescent(o)' /\ row'[o] = row[o]
  <2>1. q # o
    BY <1>7 DEF Quiescent, SendDelete, ReportFailure
  <2> QED
    BY <1>7, <2>1 DEF SendDelete, ReportFailure, UpdateOperation, Quiescent, TypeOK
<1>8. ASSUME NEW r, Finalize(r) PROVE Quiescent(o)' /\ row'[o] = row[o]
  BY <1>2, <1>8 DEF Finalize
<1>9. ASSUME NEW k \in AllKinds, NEW p, Tick(k, p) PROVE Quiescent(o)' /\ row'[o] = row[o]
  <2>1. o \notin Pending(k)
    BY <1>1 DEF AllKinds
  <2> QED
    BY <1>3, <1>9, <2>1 DEF Tick, Quiescent
<1>10. ASSUME NEW k \in Kinds, NEW p \in Replicas, NEW q \in Ops, Inspect(k, p, q)
       PROVE  Quiescent(o)' /\ row'[o] = row[o]
  <2>1. q # o /\ o \notin sweep[k][p].todo
    BY <1>10 DEF Inspect, Quiescent
  <2> QED
    BY <1>3, <1>10, <2>1 DEF Inspect, Quiescent
<1>11. ASSUME NEW k \in Kinds, NEW p \in Replicas, MarkDone(k, p)
       PROVE  Quiescent(o)' /\ row'[o] = row[o]
  <2>1. o # sweep[k][p].found /\ o \notin sweep[k][p].todo
    BY DEF Quiescent
  <2>2. row'[o] = row[o]
    BY <1>11, <2>1 DEF MarkDone, UpdateOperation, TypeOK
  <2> QED
    BY <1>3, <1>11, <2>1, <2>2 DEF MarkDone, Quiescent
<1>12. ASSUME NEW k, NEW p, Crash(k, p) PROVE Quiescent(o)' /\ row'[o] = row[o]
  <2>1. row'[o] = row[o] /\ task'[o].pc = "idle"
    BY <1>12 DEF Crash, kubeVars, Quiescent, NoTask
  <2> QED
    BY <1>3, <1>12, <2>1 DEF Crash
<1>13. ASSUME DropProject \/ UNCHANGED vars PROVE Quiescent(o)' /\ row'[o] = row[o]
  BY <1>2, <1>13 DEF DropProject, vars
<1> QED
  BY <1>4, <1>5, <1>6, <1>7, <1>8, <1>9, <1>10, <1>11, <1>12, <1>13
  DEF Next, AllKinds, CreateMachine, CreateBucket, CreateDatabase, DeleteMachine,
      DeleteBucket, DeleteDatabase, ReconcileMachines, ReconcileBuckets,
      ReconcileDatabases

(* Once an operation is settled and nobody in the system carries it any    *)
(* more, what a poll of it answers never changes.                          *)
THEOREM SettledIsFinal == Spec => QuiescentIsFinal
<1>1. IInv /\ [Next]_vars
        => [\A o \in Ops : Quiescent(o) => Quiescent(o)' /\ row'[o] = row[o]]_vars
  BY StepKeepsQuiescence
<1> QED
  BY <1>1, InductiveInvariant, PTL DEF Spec, QuiescentIsFinal
-----------------------------------------------------------------------------
(* How far a deletion has come.                                            *)

(* The deletion was made, was reported as failed, or was silenced.         *)
Concluded(o) == Gone(o) \/ row[o].status = "error" \/ o \in lost

Stage(o) ==
  IF Concluded(o) THEN 4               \* one of the three
  ELSE IF task[o].pc = "idle" THEN 3   \* the cluster is to finish it
  ELSE IF task[o].pc = "fail" THEN 2   \* the goroutine is to report a failure
  ELSE 1                               \* the goroutine is to send the DELETE

(* An operation that is not concluded is pending: only Gone is "done".     *)
LEMMA OpenIsPending ==
  ASSUME IInv, NEW o \in Ops, Created(o), ~ Concluded(o)
  PROVE  row[o].status = "pending"
  BY DEF IInv, TypeOK, Row, Created, DoneMeansGone, Concluded

LEMMA StageStep ==
  ASSUME IInv, IInv', [Next]_vars, NEW o \in Ops, Created(o)
  PROVE  Created(o)' /\ Stage(o) <= Stage(o)'
<1> USE NilAssumption DEF IInv
<1>1. ObjectsMoveOn /\ RowsAreKept
  BY StepKeeps
<1>2. Created(o)'
  BY <1>1 DEF RowsAreKept
<1>3. Gone(o) => Gone(o)'
  BY <1>1, GoneIsStable
<1>4. ASSUME Concluded(o)' PROVE Stage(o) <= Stage(o)'
  BY <1>4 DEF Stage
<1>5. ASSUME task'[o] = task[o], Concluded(o) => Concluded(o)'
      PROVE  Stage(o) <= Stage(o)'
  BY <1>5 DEF Stage
<1>6. ASSUME row'[o].status = row[o].status, task'[o] = task[o], lost \subseteq lost'
      PROVE  Stage(o) <= Stage(o)'
  BY <1>3, <1>5, <1>6 DEF Concluded
<1>7. ASSUME NEW c \in request, Post(c) \/ Record(c) PROVE Stage(o) <= Stage(o)'
  <2>1. Record(c) => c.op # o
    BY DEF Record, RequestsAreFresh
  <2>2. row'[o].status = row[o].status /\ task'[o] = task[o] /\ lost' = lost
    BY <1>7, <2>1 DEF Post, Record, TypeOK
  <2> QED
    BY <1>6, <2>2
<1>8. ASSUME NEW q \in Ops, SendDelete(q) PROVE Stage(o) <= Stage(o)'
  <2>1. row' = row /\ lost' = lost
    BY <1>8 DEF SendDelete
  <2>2. CASE q # o
    BY <1>6, <1>8, <2>1, <2>2 DEF SendDelete, TypeOK
  <2>3. CASE q = o /\ ~ Concluded(o)
    <3>1. Stage(o) = 1
      BY <1>8, <2>3 DEF SendDelete, Stage
    <3>2. Stage(o)' \in {1, 2, 3, 4}
      BY DEF Stage
    <3> QED
      BY <3>1, <3>2
  <2>4. CASE Concluded(o)
    BY <1>3, <1>4, <2>1, <2>4 DEF Concluded
  <2> QED
    BY <2>2, <2>3, <2>4
<1>9. ASSUME NEW q \in Ops, ReportFailure(q) PROVE Stage(o) <= Stage(o)'
  <2>1. CASE q # o
    <3>1. row'[o].status = row[o].status /\ task'[o] = task[o] /\ lost \subseteq lost'
      BY <1>9, <2>1 DEF ReportFailure, UpdateOperation, TypeOK
    <3> QED
      BY <1>6, <3>1
  <2>2. CASE q = o
    <3>1. row'[o].status = "error" \/ o \in lost'
      BY <1>9, <2>2, UpdateOperationKeeps DEF ReportFailure, TypeOK
    <3> QED
      BY <1>4, <3>1 DEF Concluded
  <2> QED
    BY <2>1, <2>2
<1>10. ASSUME NEW k \in Kinds, NEW p \in Replicas, MarkDone(k, p)
       PROVE  Stage(o) <= Stage(o)'
  <2> DEFINE q == sweep[k][p].found
  <2>1. q \in Ops /\ Gone(q)
    BY <1>10 DEF MarkDone, SweepsAreSound, TypeOK, Sweep
  <2>2. task' = task /\ lost' = lost
    BY <1>10 DEF MarkDone
  <2>3. CASE q # o
    <3>1. row'[o].status = row[o].status
      BY <1>10, <2>3 DEF MarkDone, UpdateOperation, TypeOK
    <3> QED
      BY <1>6, <2>2, <3>1
  <2>4. CASE q = o
    BY <1>3, <1>4, <2>1, <2>4 DEF Concluded
  <2> QED
    BY <2>3, <2>4
<1>11. ASSUME NEW k \in Kinds, NEW p \in Replicas, Crash(k, p)
       PROVE  Stage(o) <= Stage(o)'
  <2>1. CASE o \in TasksAt(k, p)
    BY <1>4, <1>11, <2>1 DEF Crash, Concluded
  <2>2. CASE o \notin TasksAt(k, p)
    BY <1>6, <1>11, <2>2 DEF Crash
  <2> QED
    BY <2>1, <2>2
<1>12. ASSUME UNCHANGED <<row, task, lost>> PROVE Stage(o) <= Stage(o)'
  BY <1>6, <1>12
<1>13. ASSUME NEW r, NEW p, NEW q, Accept(r, p, q) PROVE UNCHANGED <<row, task, lost>>
  BY <1>13 DEF Accept
<1>14. ASSUME NEW k, NEW p, Tick(k, p) PROVE UNCHANGED <<row, task, lost>>
  BY <1>14 DEF Tick
<1>15. ASSUME NEW k, NEW p, NEW q, Inspect(k, p, q) PROVE UNCHANGED <<row, task, lost>>
  BY <1>15 DEF Inspect
<1>16. ASSUME (\E r \in Resources : Finalize(r)) \/ DropProject \/ UNCHANGED vars
       PROVE  UNCHANGED <<row, task, lost>>
  BY <1>16 DEF Finalize, DropProject, vars
<1> QED
  BY <1>2, <1>7, <1>8, <1>9, <1>10, <1>11, <1>12, <1>13, <1>14, <1>15, <1>16
  DEF Next, CreateMachine, CreateBucket, CreateDatabase, DeleteMachine,
      DeleteBucket, DeleteDatabase, ReconcileMachines, ReconcileBuckets,
      ReconcileDatabases

(* The part of DeleteIsCarriedOut that is safety: a deletion that was      *)
(* accepted never falls back, whatever requests, reconcilers, crashes and  *)
(* failing calls come between, and while the goroutine has no more to do   *)
(* the API server has the object's deletion in hand. What the property     *)
(* adds is that goroutines and the cluster's controllers go on.            *)
THEOREM DeletionsMoveOn ==
  Spec => /\ [](\A o \in Ops : Created(o) /\ Stage(o) = 3 =>
                                 object[row[o].target] = "terminating")
          /\ [][\A o \in Ops : Created(o) => Created(o)' /\ Stage(o) <= Stage(o)']_vars
<1>1. IInv => \A o \in Ops : Created(o) /\ Stage(o) = 3 =>
                               object[row[o].target] = "terminating"
  <2> SUFFICES ASSUME IInv, NEW o \in Ops, Created(o), Stage(o) = 3
               PROVE  object[row[o].target] = "terminating"
    OBVIOUS
  <2>1. ~ Concluded(o) /\ task[o].pc = "idle"
    BY DEF Stage
  <2> QED
    BY <2>1, OpenIsPending DEF IInv, PendingIsBacked, Concluded
<1>2. IInv /\ IInv' /\ [Next]_vars =>
        [\A o \in Ops : Created(o) => Created(o)' /\ Stage(o) <= Stage(o)']_vars
  BY StageStep
<1> QED
  BY <1>1, <1>2, InductiveInvariant, PTL DEF Spec
-----------------------------------------------------------------------------
(* How near a replica's reconciler is to settling an operation whose       *)
(* target is absent.                                                       *)

Absent(o) == object[row[o].target] = "absent"

Nearness(o, p) ==
  LET pass == sweep[row[o].target.kind][p] IN
  IF row[o].status # "pending" THEN 3
  ELSE IF pass.found = o THEN 2
  ELSE IF o \in pass.todo THEN 1
  ELSE 0

(* One reconciler's pass moves on, and the rows stay.                      *)
LEMMA PassStep ==
  ASSUME IInv, NEW o \in Ops, Created(o), NEW p \in Replicas,
         NEW k \in Kinds, NEW q \in Replicas, NEW t, NEW f,
         sweep' = SetSweep(k, q, t, f), row' = row,
         LET pass == sweep[k][q] IN
           row[o].target.kind = k /\ row[o].status = "pending" =>
             /\ pass.found = o => f = o
             /\ o \in pass.todo => o \in t \/ f = o
  PROVE  Nearness(o, p) <= Nearness(o, p)'
<1> DEFINE kind == row[o].target.kind
<1>1. kind \in Kinds /\ row[o].target \in Resources
  BY DEF IInv, RowsWellFormed, Resources
<1>2. sweep \in [Kinds -> [Replicas -> Sweep]]
  BY DEF IInv, TypeOK
<1>3. CASE kind = k /\ p = q
  <2>1. sweep'[k][p].todo = t /\ sweep'[k][p].found = f
    BY <1>2, <1>3 DEF SetSweep
  <2> QED
    BY <1>3, <2>1 DEF Nearness
<1>4. CASE ~ (kind = k /\ p = q)
  <2>1. sweep'[kind][p] = sweep[kind][p]
    BY <1>1, <1>2, <1>4 DEF SetSweep
  <2> QED
    BY <2>1 DEF Nearness
<1> QED
  BY <1>3, <1>4

LEMMA NearnessStep ==
  ASSUME IInv, IInv', [Next]_vars, faults' = faults,
         NEW o \in Ops, Created(o), Absent(o), Absent(o)', NEW p \in Replicas
  PROVE  Nearness(o, p) <= Nearness(o, p)'
<1> USE NilAssumption DEF IInv
<1> DEFINE kind == row[o].target.kind
<1>1. /\ row[o].target \in Resources /\ kind \in Kinds
      /\ row[o].target = [kind |-> kind, name |-> row[o].target.name]
  BY DEF RowsWellFormed, Resources
<1>2. ASSUME row'[o] = row[o], UNCHANGED sweep PROVE Nearness(o, p) <= Nearness(o, p)'
  BY <1>2 DEF Nearness
<1>3. ASSUME row'[o].status # "pending" PROVE Nearness(o, p) <= Nearness(o, p)'
  BY <1>3 DEF Nearness
<1>4. ASSUME NEW r, NEW q, NEW i, Accept(r, q, i) PROVE Nearness(o, p) <= Nearness(o, p)'
  BY <1>2, <1>4 DEF Accept
<1>5. ASSUME NEW c \in request, Post(c) \/ Record(c)
      PROVE  Nearness(o, p) <= Nearness(o, p)'
  <2>1. Record(c) => c.op # o
    BY DEF Record, RequestsAreFresh
  <2>2. row'[o] = row[o] /\ sweep' = sweep
    BY <1>5, <2>1 DEF Post, Record, TypeOK
  <2> QED
    BY <1>2, <2>2
<1>6. ASSUME NEW q \in Ops, SendDelete(q) PROVE Nearness(o, p) <= Nearness(o, p)'
  BY <1>2, <1>6 DEF SendDelete
<1>7. ASSUME NEW q \in Ops, ReportFailure(q) PROVE Nearness(o, p) <= Nearness(o, p)'
  <2>1. sweep' = sweep /\ (row' = row \/ row' = UpdateOperation(q, "error"))
    BY <1>7 DEF ReportFailure
  <2>2. CASE q = o /\ row' # row
    BY <1>3, <2>1, <2>2, UpdateOperationKeeps DEF TypeOK
  <2>3. CASE q # o \/ row' = row
    <3>1. row'[o] = row[o]
      BY <2>1, <2>3, UpdateOperationKeeps DEF TypeOK
    <3> QED
      BY <1>2, <2>1, <3>1
  <2> QED
    BY <2>2, <2>3
<1>8. ASSUME (\E r \in Resources : Finalize(r)) \/ DropProject \/ UNCHANGED vars
      PROVE  Nearness(o, p) <= Nearness(o, p)'
  BY <1>2, <1>8 DEF Finalize, DropProject, vars
<1>9. ASSUME NEW k, NEW q \in Replicas, Tick(k, q)
      PROVE  Nearness(o, p) <= Nearness(o, p)'
  <2>1. k \in Kinds /\ sweep[k][q].todo = {} /\ sweep[k][q].found = Nil
    BY <1>9 DEF Tick, NoSweep
  <2>2. sweep' = SetSweep(k, q, Pending(k), Nil) /\ row' = row
    BY <1>9 DEF Tick
  <2> QED
    BY <2>1, <2>2, PassStep
<1>10. ASSUME NEW k \in Kinds, NEW q \in Replicas, NEW i \in Ops, Inspect(k, q, i)
       PROVE  Nearness(o, p) <= Nearness(o, p)'
  <2>1. /\ row' = row /\ sweep[k][q].found = Nil
        /\ \/ ~ Listed(k, i) /\ sweep' = SetSweep(k, q, sweep[k][q].todo \ {i}, i)
           \/ Listed(k, i) /\ sweep' = SetSweep(k, q, sweep[k][q].todo \ {i}, Nil)
    <3>1. ~ Fault
      BY DEF Fault, TypeOK
    <3> QED
      BY <1>10, <3>1 DEF Inspect
  <2>2. i = o /\ kind = k => ~ Listed(k, i)
    BY <1>1 DEF Listed, Absent
  <2> QED
    BY <2>1, <2>2, PassStep
<1>11. ASSUME NEW k \in Kinds, NEW q \in Replicas, MarkDone(k, q)
       PROVE  Nearness(o, p) <= Nearness(o, p)'
  <2> DEFINE i == sweep[k][q].found
  <2>1. /\ i \in Ops /\ row' = UpdateOperation(i, "done")
        /\ sweep' = SetSweep(k, q, sweep[k][q].todo, Nil)
    <3>1. ~ Fault
      BY DEF Fault, TypeOK
    <3> QED
      BY <1>11, <3>1 DEF MarkDone, TypeOK, Sweep
  <2>2. CASE i = o
    BY <1>3, <2>1, <2>2, UpdateOperationKeeps DEF TypeOK
  <2>3. CASE i # o
    <3>1. row'[o] = row[o]
      BY <2>1, <2>3, UpdateOperationKeeps DEF TypeOK
    <3>2. CASE kind = k /\ p = q
      <4>1. sweep'[k][p].todo = sweep[k][p].todo
        BY <2>1, <3>2 DEF SetSweep, TypeOK
      <4> QED
        BY <2>3, <3>1, <3>2, <4>1 DEF Nearness
    <3>3. CASE ~ (kind = k /\ p = q)
      <4>1. sweep'[kind][p] = sweep[kind][p]
        BY <1>1, <2>1, <3>3 DEF SetSweep, TypeOK
      <4> QED
        BY <3>1, <4>1 DEF Nearness
    <3> QED
      BY <3>2, <3>3
  <2> QED
    BY <2>2, <2>3
<1>12. ASSUME NEW k \in Kinds, NEW q \in Replicas, Crash(k, q) PROVE FALSE
  BY <1>12 DEF Crash, Fault, TypeOK
<1> QED
  BY <1>4, <1>5, <1>6, <1>7, <1>8, <1>9, <1>10, <1>11, <1>12
  DEF Next, CreateMachine, CreateBucket, CreateDatabase, DeleteMachine,
      DeleteBucket, DeleteDatabase, ReconcileMachines, ReconcileBuckets,
      ReconcileDatabases

(* The part of AbsentIsSettled that is safety: as long as no call fails    *)
(* and the name stays absent, every replica's reconciler only gets nearer  *)
(* to settling the operation, from the snapshot over the list to the       *)
(* update, and no other operation, replica or request takes it off. What   *)
(* the property adds is that tickers fire and passes go through.           *)
THEOREM PassesMoveOn ==
  Spec => [][\A o \in Ops, p \in Replicas :
               Created(o) /\ Absent(o) /\ Absent(o)' /\ faults' = faults
                 => Nearness(o, p) <= Nearness(o, p)']_vars
<1>1. IInv /\ IInv' /\ [Next]_vars =>
        [\A o \in Ops, p \in Replicas :
           Created(o) /\ Absent(o) /\ Absent(o)' /\ faults' = faults
             => Nearness(o, p) <= Nearness(o, p)']_vars
  BY NearnessStep
<1> QED
  BY <1>1, InductiveInvariant, PTL DEF Spec
=============================================================================
