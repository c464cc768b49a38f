------------------------ MODULE ProjectDeletionProofs ------------------------
(***************************************************************************)
(* Proofs about ProjectDeletion, for any number of operations, requests    *)
(* and compute replicas and any budget of faults.                          *)
(***************************************************************************)
EXTENDS ProjectDeletion, TLAPS

LEMMA KindsFact == "vm" \in Kinds /\ "container" \in Kinds
  BY KindsAssumption

LEMMA BlankType == NoCall \in Call /\ NoSweep \in Sweep
<1>1. NoCall \in Call
  BY DEF NoCall, Call
<1>2. NoSweep \in Sweep
  BY DEF NoSweep, Sweep
<1> QED
  BY <1>1, <1>2

LEMMA SweepType ==
  ASSUME sweep \in [Replicas -> Sweep], NEW p \in Replicas, NEW o \in Ops
  PROVE  /\ [NoSweep EXCEPT !.todo = sweep[p].todo \ {o}] \in Sweep
         /\ \A s \in {"containers", "row", "mark"} :
              [todo |-> sweep[p].todo \ {o}, op |-> o, step |-> s] \in Sweep
  BY DEF NoSweep, Sweep

LEMMA ProceedType ==
  ASSUME sweep \in [Replicas -> Sweep], NEW p \in Replicas, NEW o \in Ops,
         NEW s \in {"containers", "row", "mark"},
         Proceed(p, o, s) \/ SkipOperation(p, o)
  PROVE  sweep' \in [Replicas -> Sweep]
  BY SweepType DEF Proceed, SkipOperation

LEMMA GoType ==
  ASSUME call \in [Calls -> Call], NEW c \in Calls,
         NEW pc \in {"create", "row", "done", "error"}, Go(c, pc)
  PROVE  call' \in [Calls -> Call]
  BY DEF Go, Call

LEMMA FaultType ==
  ASSUME faults \in 0..MaxFaults, Fault
  PROVE  faults' \in 0..MaxFaults
  BY FaultsAssumption DEF Fault

(* Every variable keeps its type along every behaviour of the services.    *)
THEOREM TypeCorrect == Spec => []TypeOK
<1> USE FaultsAssumption, KindsFact
<1>1. Init => TypeOK
  <2> SUFFICES ASSUME Init PROVE TypeOK
    OBVIOUS
  <2>1. call \in [Calls -> Call] /\ sweep \in [Replicas -> Sweep]
    BY BlankType DEF Init
  <2>2. faults \in 0..MaxFaults
    BY DEF Init
  <2> QED
    BY <2>1, <2>2 DEF Init, TypeOK
<1>2. TypeOK /\ [Next]_vars => TypeOK'
  <2> SUFFICES ASSUME TypeOK, [Next]_vars PROVE TypeOK'
    OBVIOUS
  <2> USE DEF TypeOK
  <2>1. CASE InsertProject
    BY <2>1 DEF InsertProject, cluster, asked
  <2>2. CASE CreateNamespace
    BY <2>2, FaultType DEF CreateNamespace, Step, tables, asked
  <2>3. CASE CreatePolicy
    BY <2>3, FaultType DEF CreatePolicy, Step, tables, asked
  <2>4. ASSUME NEW k \in Kinds, Create(k) PROVE TypeOK'
    BY <2>4 DEF Create, cluster, tables, asked
  <2>5. ASSUME NEW k \in Kinds, Post(k) PROVE TypeOK'
    BY <2>5 DEF Post, tables, asked
  <2>6. ASSUME NEW k \in Kinds, KillObject(k) PROVE TypeOK'
    BY <2>6, FaultType DEF KillObject, tables, asked
  <2>7. ASSUME NEW k \in Kinds, Reap(k) PROVE TypeOK'
    BY <2>7 DEF Reap, tables, work, asked
  <2>8. CASE UpsertContainer
    BY <2>8, FaultType DEF UpsertContainer, cluster, asked
  <2>9. CASE ForgetContainer
    BY <2>9, FaultType DEF ForgetContainer, cluster, asked
  <2>10. CASE DropNamespace \/ DeleteProject
    BY <2>10 DEF DropNamespace, DeleteProject, Dropped, cluster, tables, work, asked
  <2>11. ASSUME NEW c \in Calls, NEW o \in Ops, NEW own \in BOOLEAN,
             NEW heard \in {{}, Kinds}, Delete(c, o, own, heard)
         PROVE  TypeOK'
    BY <2>11 DEF Delete, Call, cluster, tables, work, asked
  <2>12. ASSUME NEW c \in Calls, NEW k \in Kinds, FanOut(c, k) PROVE TypeOK'
    <3>1. call' \in [Calls -> Call]
      BY <2>12 DEF FanOut, Call
    <3>2. killing' \in [Kinds -> SUBSET {"delete", "forget"}]
      BY <2>12 DEF FanOut
    <3>3. faults' \in 0..MaxFaults
      BY <2>12, FaultType DEF FanOut
    <3> QED
      BY <2>12, <3>1, <3>2, <3>3 DEF FanOut, cluster, tables, asked, asked
  <2>13. ASSUME NEW c \in Calls, DeleteNamespace(c) PROVE TypeOK'
    BY <2>13, FaultType, GoType DEF DeleteNamespace, tables, work, asked
  <2>14. ASSUME NEW c \in Calls, CreateOperation(c) PROVE TypeOK'
    <3>1. call' \in [Calls -> Call]
      BY <2>14, GoType, BlankType DEF CreateOperation
    <3>2. operation' \in [Ops -> {"none", "pending", "done", "error"}]
      BY <2>14 DEF CreateOperation
    <3> QED
      BY <2>14, <3>1, <3>2, FaultType DEF CreateOperation, cluster, work, asked
  <2>15. ASSUME NEW c \in Calls, DropRow(c) PROVE TypeOK'
    BY <2>15, FaultType, GoType DEF DropRow, Dropped, DroppedFor, cluster, work, asked
  <2>16. ASSUME NEW c \in Calls, UpdateOperation(c) PROVE TypeOK'
    <3>1. call' \in [Calls -> Call]
      BY <2>16 DEF UpdateOperation, NoCall, Call
    <3>2. operation' \in [Ops -> {"none", "pending", "done", "error"}]
      BY <2>16 DEF UpdateOperation
    <3> QED
      BY <2>16, <3>1, <3>2, FaultType DEF UpdateOperation, cluster, work, asked
  <2>17. ASSUME NEW p \in Replicas, Tick(p) PROVE TypeOK'
    BY <2>17 DEF Tick, Pending, Sweep, cluster, tables, asked
  <2>18. ASSUME NEW p \in Replicas, NEW o \in Ops, ListMachines(p, o) PROVE TypeOK'
    <3>1. sweep' \in [Replicas -> Sweep]
      BY <2>18, ProceedType DEF ListMachines
    <3> QED
      BY <2>18, <3>1, FaultType DEF ListMachines, cluster, tables, asked
  <2>19. ASSUME NEW p \in Replicas, ListContainers(p) PROVE TypeOK'
    <3>1. sweep[p].op \in Ops
      BY <2>19 DEF ListContainers, Sweep
    <3>2. sweep' \in [Replicas -> Sweep]
      BY <2>19, <3>1, ProceedType DEF ListContainers
    <3> QED
      BY <2>19, <3>2, FaultType DEF ListContainers, cluster, tables, asked
  <2>20. ASSUME NEW p \in Replicas, SweepRow(p) PROVE TypeOK'
    <3>1. sweep[p].op \in Ops
      BY <2>20 DEF SweepRow, Sweep
    <3>2. sweep' \in [Replicas -> Sweep]
      BY <2>20, <3>1, ProceedType DEF SweepRow
    <3> QED
      BY <2>20, <3>2, FaultType DEF SweepRow, Dropped, DroppedFor, cluster, asked
  <2>21. ASSUME NEW p \in Replicas, MarkDone(p) PROVE TypeOK'
    <3>1. sweep[p].op \in Ops
      BY <2>21 DEF MarkDone, Sweep
    <3>2. sweep' \in [Replicas -> Sweep]
      BY <2>21, <3>1, ProceedType DEF MarkDone
    <3> QED
      BY <2>21, <3>2, FaultType DEF MarkDone, cluster, asked
  <2>22. CASE Crash
    <3>1. call' \in [Calls -> Call]
      BY <2>22, BlankType DEF Crash
    <3>2. sweep' \in [Replicas -> Sweep]
      BY <2>22, BlankType DEF Crash, work, asked
    <3>3. /\ founding' \in {"insert", "namespace", "policy", "over"}
          /\ placing' \in [Kinds -> {"idle", "post", "upsert"}]
          /\ killing' \in [Kinds -> SUBSET {"delete", "forget"}]
      BY <2>22 DEF Crash, work, asked
    <3> QED
      BY <2>22, <3>1, <3>2, <3>3, FaultType DEF Crash, cluster, tables, asked
  <2>23. CASE UNCHANGED vars
    BY <2>23 DEF vars, cluster, tables, work, asked
  <2> QED
    BY <2>1, <2>2, <2>3, <2>4, <2>5, <2>6, <2>7, <2>8, <2>9, <2>10, <2>11, <2>12,
       <2>13, <2>14, <2>15, <2>16, <2>17, <2>18, <2>19, <2>20, <2>21, <2>22, <2>23
    DEF Next, DeleteByConnect, DeleteByREST
<1> QED
  BY <1>1, <1>2, PTL DEF Spec
-----------------------------------------------------------------------------
(* A request has its operation to itself and creates it; the reconcilers   *)
(* take up what is in the table.                                           *)
Opening == {"fan", "create"}
Closing == {"row", "done", "error"}

OwnOperation ==
  /\ \A c, d \in Calls : call[c].op = call[d].op /\ call[c].op # Nil => c = d
  /\ \A c \in Calls :
       /\ call[c].pc # "idle" => call[c].op \in Ops
       /\ call[c].pc \in Opening => operation[call[c].op] = "none"
       /\ call[c].pc \in Closing => operation[call[c].op] # "none"

SweptOperations ==
  \A p \in Replicas :
    /\ \A o \in sweep[p].todo : operation[o] # "none"
    /\ sweep[p].op # Nil => operation[sweep[p].op] # "none"

(* A request goes on before or after the creation of its operation, or is  *)
(* over; a reconciler goes on with its snapshot.                           *)
Onward ==
  \A c \in Calls :
    \/ call'[c] = NoCall
    \/ /\ call'[c].op = call[c].op
       /\ call'[c].pc # "idle" => call[c].pc # "idle"
       /\ call'[c].pc \in Opening => call[c].pc \in Opening
       /\ call'[c].pc \in Closing => call[c].pc \in Closing

Narrows ==
  \A p \in Replicas :
    /\ sweep'[p].todo \subseteq sweep[p].todo
    /\ sweep'[p].op \in {Nil, sweep[p].op} \union sweep[p].todo

Stays == \A o \in Ops : operation'[o] = "none" <=> operation[o] = "none"

LEMMA OnwardOwn ==
  ASSUME OwnOperation, Onward, Stays
  PROVE  OwnOperation'
<1>1. \A c \in Calls : call'[c].op \in {call[c].op, Nil}
  BY DEF Onward, NoCall
<1> QED
  BY <1>1 DEF OwnOperation, Onward, Stays, NoCall, Opening, Closing

LEMMA NarrowsSwept ==
  ASSUME TypeOK, SweptOperations, Narrows, Stays
  PROVE  SweptOperations'
<1> SUFFICES ASSUME NEW p \in Replicas
             PROVE  /\ \A o \in sweep'[p].todo : operation'[o] # "none"
                    /\ sweep'[p].op # Nil => operation'[sweep'[p].op] # "none"
  BY DEF SweptOperations
<1>1. sweep[p].todo \subseteq Ops /\ sweep[p].op \in Ops \union {Nil}
  BY DEF TypeOK, Sweep
<1> QED
  BY <1>1 DEF SweptOperations, Narrows, Stays

LEMMA GoOnward ==
  ASSUME TypeOK, NEW c \in Calls, NEW k
  PROVE  /\ \A pc \in Opening : call[c].pc \in Opening /\ Go(c, pc) => Onward
         /\ \A pc \in Closing : call[c].pc \in Closing /\ Go(c, pc) => Onward
         /\ call' = [call EXCEPT ![c].todo = @ \ {k}] => Onward
         /\ call' = [call EXCEPT ![c] = NoCall] => Onward
         /\ UNCHANGED call => Onward
<1>1. ASSUME NEW pc \in Opening \union Closing, Go(c, pc)
      PROVE  /\ \A d \in Calls \ {c} : call'[d] = call[d]
             /\ call'[c].op = call[c].op /\ call'[c].pc = pc
  BY <1>1 DEF TypeOK, Go, Call
<1>2. /\ "idle" \notin Opening /\ "idle" \notin Closing
      /\ \A pc \in Opening : pc \notin Closing
  BY DEF Opening, Closing
<1>3. \A pc \in Opening : call[c].pc \in Opening /\ Go(c, pc) => Onward
  BY <1>1, <1>2 DEF Onward
<1>4. \A pc \in Closing : call[c].pc \in Closing /\ Go(c, pc) => Onward
  BY <1>1, <1>2 DEF Onward
<1>5. call' = [call EXCEPT ![c].todo = @ \ {k}] => Onward
  BY DEF TypeOK, Call, Onward
<1>6. call' = [call EXCEPT ![c] = NoCall] => Onward
  BY DEF TypeOK, Onward
<1> QED
  BY <1>3, <1>4, <1>5, <1>6 DEF Onward

LEMMA SweepNarrows ==
  ASSUME TypeOK, NEW p \in Replicas, NEW o,
         o \in sweep[p].todo \/ o = sweep[p].op,
         SkipOperation(p, o) \/ \E s : Proceed(p, o, s)
  PROVE  Narrows
  BY DEF TypeOK, Sweep, SkipOperation, Proceed, NoSweep, Narrows

LEMMA OwnedStep ==
  ASSUME TypeOK, OwnOperation, SweptOperations, [Next]_vars
  PROVE  OwnOperation' /\ SweptOperations'
<1>0. UNCHANGED sweep => Narrows
  BY DEF Narrows
<1>1. UNCHANGED operation => Stays
  BY DEF Stays
<1>2. ASSUME Onward, Narrows, Stays PROVE OwnOperation' /\ SweptOperations'
  BY <1>2, OnwardOwn, NarrowsSwept
<1>3. UNCHANGED call => Onward
  BY DEF Onward
<1>4. CASE \/ InsertProject \/ CreateNamespace \/ CreatePolicy \/ UpsertContainer
           \/ ForgetContainer \/ DropNamespace \/ DeleteProject \/ UNCHANGED vars
  <2>1. UNCHANGED <<operation, call, sweep>>
    BY <1>4 DEF InsertProject, CreateNamespace, CreatePolicy, UpsertContainer,
       ForgetContainer, DropNamespace, DeleteProject, vars, tables, work
  <2> QED
    BY <1>0, <1>1, <1>2, <1>3, <2>1
<1>5. ASSUME NEW k \in Kinds, Create(k) \/ Post(k) \/ KillObject(k) \/ Reap(k)
      PROVE  OwnOperation' /\ SweptOperations'
  <2>1. UNCHANGED <<operation, call, sweep>>
    BY <1>5 DEF Create, Post, KillObject, Reap, tables, work
  <2> QED
    BY <1>0, <1>1, <1>2, <1>3, <2>1
<1>6. ASSUME NEW c \in Calls, NEW o \in Ops, NEW own \in BOOLEAN,
             NEW heard \in {{}, Kinds}, Delete(c, o, own, heard)
      PROVE  OwnOperation' /\ SweptOperations'
  <2>1. /\ operation[o] = "none" /\ \A d \in Calls : call[d].op # o
        /\ call'[c].op = o /\ call'[c].pc = "fan"
        /\ \A d \in Calls \ {c} : call'[d] = call[d]
        /\ UNCHANGED <<operation, sweep>>
    BY <1>6 DEF Delete, Unused, tables, work, TypeOK
  <2>2. OwnOperation'
    BY <2>1 DEF OwnOperation, Opening, Closing
  <2> QED
    BY <1>0, <1>1, <2>1, <2>2, NarrowsSwept
<1>7. ASSUME NEW c \in Calls, NEW k \in Kinds, FanOut(c, k) \/ DeleteNamespace(c)
      PROVE  OwnOperation' /\ SweptOperations'
  <2>1. Onward
    BY <1>7, GoOnward DEF FanOut, DeleteNamespace, Opening
  <2>2. UNCHANGED <<operation, sweep>>
    BY <1>7 DEF FanOut, DeleteNamespace, tables, work
  <2> QED
    BY <1>0, <1>1, <1>2, <2>1, <2>2
<1>8. ASSUME NEW c \in Calls, CreateOperation(c)
      PROVE  OwnOperation' /\ SweptOperations'
  <2>1. UNCHANGED sweep
    BY <1>8 DEF CreateOperation, work
  <2>2. CASE UNCHANGED operation /\ call' = [call EXCEPT ![c] = NoCall]
    BY <1>0, <1>1, <1>2, <2>1, <2>2, GoOnward
  <2>3. CASE operation' = [operation EXCEPT ![call[c].op] = "pending"] /\ Go(c, "row")
    <3>1. call[c].op \in Ops
      BY <1>8 DEF CreateOperation, OwnOperation
    <3>2. /\ operation'[call[c].op] = "pending"
          /\ \A o \in Ops \ {call[c].op} : operation'[o] = operation[o]
      BY <2>3, <3>1 DEF TypeOK
    <3>3. /\ call'[c].op = call[c].op /\ call'[c].pc = "row"
          /\ \A d \in Calls \ {c} : call'[d] = call[d]
      BY <2>3 DEF Go, TypeOK, Call
    <3>4. \A d \in Calls \ {c} : call[d].op # call[c].op
      BY <3>1, NilAssumption DEF OwnOperation
    <3>5. OwnOperation'
      BY <3>1, <3>2, <3>3, <3>4 DEF OwnOperation, Opening, Closing
    <3>6. SweptOperations'
      BY <2>1, <3>2 DEF SweptOperations, TypeOK, Sweep
    <3> QED
      BY <3>5, <3>6
  <2> QED
    BY <1>8, <2>2, <2>3 DEF CreateOperation
<1>9. ASSUME NEW c \in Calls, DropRow(c) PROVE OwnOperation' /\ SweptOperations'
  <2>1. Onward
    BY <1>9, GoOnward DEF DropRow, Closing
  <2>2. UNCHANGED <<operation, sweep>>
    BY <1>9 DEF DropRow, work
  <2> QED
    BY <1>0, <1>1, <1>2, <2>1, <2>2
<1>10. ASSUME NEW c \in Calls, UpdateOperation(c)
       PROVE  OwnOperation' /\ SweptOperations'
  <2>1. Onward /\ UNCHANGED sweep
    BY <1>10, GoOnward DEF UpdateOperation, work
  <2>2. call[c].op \in Ops /\ operation[call[c].op] # "none" /\ call[c].pc # "none"
    BY <1>10 DEF UpdateOperation, OwnOperation, Closing
  <2>3. Stays
    BY <1>10, <2>2 DEF UpdateOperation, Stays, TypeOK
  <2> QED
    BY <1>0, <1>2, <2>1, <2>3
<1>11. ASSUME NEW p \in Replicas, Tick(p) PROVE OwnOperation' /\ SweptOperations'
  <2>1. UNCHANGED <<operation, call>>
    BY <1>11 DEF Tick, tables
  <2>2. /\ sweep'[p].todo = Pending /\ sweep'[p].op = Nil
        /\ \A q \in Replicas \ {p} : sweep'[q] = sweep[q]
    BY <1>11 DEF Tick, NoSweep, TypeOK
  <2>3. SweptOperations'
    BY <2>1, <2>2 DEF SweptOperations, Pending
  <2> QED
    BY <1>1, <1>3, <2>1, <2>3, OnwardOwn
<1>12. ASSUME NEW p \in Replicas, NEW o \in Ops, ListMachines(p, o)
       PROVE  OwnOperation' /\ SweptOperations'
  <2>1. Narrows /\ UNCHANGED <<operation, call>>
    BY <1>12, SweepNarrows DEF ListMachines, tables
  <2> QED
    BY <1>1, <1>2, <1>3, <2>1
<1>13. ASSUME NEW p \in Replicas, ListContainers(p) \/ SweepRow(p)
       PROVE  OwnOperation' /\ SweptOperations'
  <2>1. Narrows /\ UNCHANGED <<operation, call>>
    BY <1>13, SweepNarrows DEF ListContainers, SweepRow, tables
  <2> QED
    BY <1>1, <1>2, <1>3, <2>1
<1>14. ASSUME NEW p \in Replicas, MarkDone(p) PROVE OwnOperation' /\ SweptOperations'
  <2>1. Narrows /\ UNCHANGED call
    BY <1>14, SweepNarrows DEF MarkDone
  <2>2. sweep[p].op \in Ops /\ operation[sweep[p].op] # "none"
    BY <1>14 DEF MarkDone, SweptOperations, TypeOK, Sweep
  <2>3. Stays
    BY <1>14, <2>2 DEF MarkDone, Stays, TypeOK
  <2> QED
    BY <1>2, <1>3, <2>1, <2>3
<1>15. CASE Crash
  <2>1. UNCHANGED operation
    BY <1>15 DEF Crash, tables
  <2>2. Onward
    BY <1>3, <1>15, GoOnward DEF Crash
  <2>3. Narrows
    BY <1>15 DEF Crash, work, Narrows, NoSweep, TypeOK
  <2> QED
    BY <1>1, <1>2, <2>1, <2>2, <2>3
<1> QED
  BY KindsFact, <1>4, <1>5, <1>6, <1>7, <1>8, <1>9, <1>10, <1>11, <1>12, <1>13, <1>14, <1>15
  DEF Next, DeleteByConnect, DeleteByREST

LEMMA InvariantlyOwned == Spec => [](TypeOK /\ (OwnOperation /\ SweptOperations))
<1>1. Init => OwnOperation /\ SweptOperations
  BY DEF Init, OwnOperation, SweptOperations, Opening, Closing, NoCall, NoSweep
<1>2. TypeOK /\ (OwnOperation /\ SweptOperations) /\ [Next]_vars
        => (OwnOperation /\ SweptOperations)'
  BY OwnedStep
<1> QED
  BY <1>1, <1>2, TypeCorrect, PTL DEF Spec

-----------------------------------------------------------------------------
(* The strengthening. Whoever is about to write "done" to an operation of  *)
(* the owner's has deleted the row, and a project has no requests and no   *)
(* operations before it has a row. As no row is inserted twice, what has   *)
(* been deleted stays deleted; and an operation that somebody carries does *)
(* not change hands.                                                       *)
DropsAreFinal ==
  /\ \A c \in Calls : call[c].pc = "done" /\ call[c].op \notin foreign => ~ project
  /\ \A p \in Replicas :
       sweep[p].op \notin foreign \union {Nil} /\ sweep[p].step = "mark" => ~ project

NothingBeforeTheRow ==
  founding = "insert" =>
    /\ \A o \in Ops : operation[o] = "none"
    /\ \A c \in Calls : call[c] = NoCall
    /\ \A p \in Replicas : sweep[p] = NoSweep

Safe ==
  /\ DoneMeansDropped /\ RowsNeedProject
  /\ DropsAreFinal /\ NothingBeforeTheRow

(* Steps that do not insert the row, and that leave the operations, the    *)
(* requests and the reconcilers alone.                                     *)
LEMMA SafeElsewhere ==
  ASSUME Safe,
         UNCHANGED <<operation, call, sweep, foreign>>,
         founding' = "insert" => founding = "insert",
         project' => project,
         ~ project' => ~ container'
  PROVE  Safe'
  BY DEF Safe, DoneMeansDropped, RowsNeedProject, DropsAreFinal, NothingBeforeTheRow

LEMMA SafeStep ==
  ASSUME TypeOK, SweptOperations, Safe, [Next]_vars
  PROVE  Safe'
<1> USE DEF TypeOK, Safe
<1>1. CASE InsertProject
  BY <1>1 DEF InsertProject, cluster, asked, DoneMeansDropped, RowsNeedProject,
     DropsAreFinal, NothingBeforeTheRow, NoCall, NoSweep
<1>2. CASE CreateNamespace \/ CreatePolicy
  BY <1>2, SafeElsewhere
  DEF CreateNamespace, CreatePolicy, Step, tables, asked, RowsNeedProject
<1>3. ASSUME NEW k \in Kinds, Create(k) \/ Post(k) \/ KillObject(k) \/ Reap(k)
      PROVE  Safe'
  BY <1>3, SafeElsewhere
  DEF Create, Post, KillObject, Reap, cluster, tables, work, asked, RowsNeedProject
<1>4. CASE UpsertContainer \/ ForgetContainer \/ DropNamespace \/ DeleteProject
  BY <1>4, SafeElsewhere
  DEF UpsertContainer, ForgetContainer, DropNamespace, DeleteProject, Dropped, cluster,
     tables, work, asked,
      RowsNeedProject
<1>5. ASSUME NEW c \in Calls, NEW o \in Ops, NEW own \in BOOLEAN,
             NEW heard \in {{}, Kinds}, Delete(c, o, own, heard)
      PROVE  Safe'
  <2>1. /\ \A q \in Ops \ {o} : q \in foreign' <=> q \in foreign
        /\ operation[o] = "none" /\ founding # "insert"
        /\ \A d \in Calls : call'[d].pc = "done" => call[d].pc = "done" /\ call'[d] = call[d]
        /\ \A d \in Calls : call[d].op # o
        /\ UNCHANGED <<founding, project, container, operation, sweep>>
    BY <1>5 DEF Delete, Unused, tables, work
  <2>2. \A p \in Replicas : sweep[p].op # o /\ sweep[p].op \in Ops \union {Nil}
    BY <2>1, NilAssumption DEF SweptOperations, Sweep
  <2>3. \A d \in Calls : call[d].op \in Ops \union {Nil}
    BY DEF Call
  <2>4. Nil \in foreign' <=> Nil \in foreign
    BY <1>5, NilAssumption DEF Delete
  <2>5. DropsAreFinal'
    BY <2>1, <2>2, <2>3, <2>4 DEF DropsAreFinal
  <2> QED
    BY <2>1, <2>5 DEF DoneMeansDropped, RowsNeedProject, NothingBeforeTheRow
<1>6. ASSUME NEW c \in Calls, NEW k \in Kinds, call[c].pc \in {"fan", "create"},
             FanOut(c, k) \/ DeleteNamespace(c) \/ CreateOperation(c)
      PROVE  Safe'
  <2>1. founding # "insert"
    BY <1>6 DEF NothingBeforeTheRow, NoCall
  <2>2. /\ founding' # "insert" /\ UNCHANGED <<project, container, sweep, foreign>>
        /\ \A o \in Ops : operation'[o] = "done" => operation[o] = "done"
    BY <1>6, <2>1
    DEF FanOut, DeleteNamespace, CreateOperation, cluster, tables, work, asked
  <2>3. \A d \in Calls : call'[d].pc = "done" =>
           call[d].pc = "done" /\ call'[d].op = call[d].op
    <3>1. ASSUME NEW pc \in {"create", "row"}, Go(c, pc)
          PROVE  \A d \in Calls : call'[d].pc = "done" =>
           call[d].pc = "done" /\ call'[d].op = call[d].op
      BY <3>1 DEF Go, Call
    <3>2. ASSUME call' = [call EXCEPT ![c].todo = @ \ {k}]
          PROVE  \A d \in Calls : call'[d].pc = "done" =>
           call[d].pc = "done" /\ call'[d].op = call[d].op
      BY <3>2 DEF Call
    <3>3. ASSUME call' = [call EXCEPT ![c] = NoCall]
          PROVE  \A d \in Calls : call'[d].pc = "done" =>
           call[d].pc = "done" /\ call'[d].op = call[d].op
      BY <3>3 DEF NoCall
    <3> QED
      BY <1>6, <3>1, <3>2, <3>3 DEF FanOut, DeleteNamespace, CreateOperation
  <2> QED
    BY <2>2, <2>3
    DEF DoneMeansDropped, RowsNeedProject, DropsAreFinal, NothingBeforeTheRow
<1>7. ASSUME NEW c \in Calls, DropRow(c) PROVE Safe'
  <2>1. founding # "insert"
    BY <1>7 DEF DropRow, NothingBeforeTheRow, NoCall
  <2>2. CASE Go(c, "done") /\ DroppedFor(call[c].op)
    <3>1. /\ call'[c].pc = "done" /\ call'[c].op = call[c].op
          /\ \A d \in Calls \ {c} : call'[d] = call[d]
      BY <2>2 DEF Go, Call
    <3>2. DropsAreFinal'
      BY <1>7, <2>2, <3>1 DEF DropRow, Dropped, DroppedFor, work, asked, DropsAreFinal
    <3> QED
      BY <1>7, <2>1, <2>2, <3>2 DEF DropRow, Dropped, DroppedFor, cluster, work, asked,
         DoneMeansDropped, RowsNeedProject, NothingBeforeTheRow
  <2>3. CASE Go(c, "error")
    <3>1. \A d \in Calls : call'[d].pc = "done" =>
           call[d].pc = "done" /\ call'[d].op = call[d].op
      BY <2>3 DEF Go, Call
    <3> QED
      BY <1>7, <2>1, <3>1 DEF DropRow, Dropped, DroppedFor, cluster, work, asked,
         DoneMeansDropped,
         RowsNeedProject, DropsAreFinal, NothingBeforeTheRow
  <2> QED
    BY <1>7, <2>2, <2>3 DEF DropRow
<1>8. ASSUME NEW c \in Calls, UpdateOperation(c) PROVE Safe'
  <2>1. founding # "insert"
    BY <1>8 DEF UpdateOperation, NothingBeforeTheRow, NoCall
  <2>2. \A o \in Ops \ foreign : operation'[o] = "done" => ~ project
    BY <1>8 DEF UpdateOperation, DoneMeansDropped, DropsAreFinal
  <2>3. \A d \in Calls : call'[d].pc = "done" =>
           call[d].pc = "done" /\ call'[d].op = call[d].op
    BY <1>8 DEF UpdateOperation, NoCall
  <2> QED
    BY <1>8, <2>1, <2>2, <2>3 DEF UpdateOperation, cluster, work, asked,
       DoneMeansDropped, RowsNeedProject, DropsAreFinal, NothingBeforeTheRow
<1>9. ASSUME NEW p \in Replicas, Tick(p) PROVE Safe'
  <2>1. founding # "insert"
    BY <1>9 DEF Tick, Pending, NothingBeforeTheRow
  <2>2. sweep'[p].op = Nil /\ \A q \in Replicas \ {p} : sweep'[q] = sweep[q]
    BY <1>9 DEF Tick, NoSweep
  <2> QED
    BY <1>9, <2>1, <2>2 DEF Tick, cluster, tables, asked,
       DoneMeansDropped, RowsNeedProject, DropsAreFinal, NothingBeforeTheRow
<1>10. ASSUME NEW p \in Replicas, NEW o \in Ops,
              ListMachines(p, o) \/ ListContainers(p) \/ SweepRow(p) \/ MarkDone(p)
       PROVE  founding # "insert"
  BY <1>10 DEF ListMachines, ListContainers, SweepRow, MarkDone,
     NothingBeforeTheRow, NoSweep
<1>11. ASSUME NEW p \in Replicas, NEW o \in Ops,
              SkipOperation(p, o)
                \/ (\E s \in {"containers", "row"} : Proceed(p, o, s))
                \/ (Proceed(p, o, "mark") /\ (o \in foreign \/ ~ project')),
              project' => project, UNCHANGED foreign,
              DropsAreFinal
       PROVE  \A q \in Replicas :
                sweep'[q].op \notin foreign' \union {Nil} /\ sweep'[q].step = "mark"
                  => ~ project'
  <2>1. \A q \in Replicas \ {p} : sweep'[q] = sweep[q]
    BY <1>11 DEF SkipOperation, Proceed
  <2>2. sweep'[p].op \notin foreign \union {Nil} /\ sweep'[p].step = "mark" => ~ project'
    BY <1>11 DEF SkipOperation, Proceed, NoSweep
  <2> QED
    BY <1>11, <2>1, <2>2 DEF DropsAreFinal
<1>12. ASSUME NEW p \in Replicas, NEW o \in Ops, ListMachines(p, o) PROVE Safe'
  BY <1>10, <1>11, <1>12 DEF ListMachines, cluster, tables, asked,
     DoneMeansDropped, RowsNeedProject, DropsAreFinal, NothingBeforeTheRow
<1>13. ASSUME NEW p \in Replicas, ListContainers(p) PROVE Safe'
  <2>1. sweep[p].op \in Ops
    BY <1>13 DEF ListContainers, Sweep
  <2> QED
    BY <1>10, <1>11, <1>13, <2>1 DEF ListContainers, cluster, tables, asked,
       DoneMeansDropped, RowsNeedProject, DropsAreFinal, NothingBeforeTheRow
<1>14. ASSUME NEW p \in Replicas, SweepRow(p) PROVE Safe'
  <2>1. sweep[p].op \in Ops
    BY <1>14 DEF SweepRow, Sweep
  <2>2. founding' # "insert"
    BY <1>10, <1>14, <2>1 DEF SweepRow
  <2>3. /\ project' => project
        /\ UNCHANGED <<operation, call, foreign>>
        /\ RowsNeedProject'
    BY <1>14 DEF SweepRow, Dropped, DroppedFor, asked, RowsNeedProject
  <2>4. \A q \in Replicas :
          sweep'[q].op \notin foreign' \union {Nil} /\ sweep'[q].step = "mark" => ~ project'
    BY <1>11, <1>14, <2>1, <2>3 DEF SweepRow, Dropped, DroppedFor
  <2> QED
    BY <2>2, <2>3, <2>4 DEF DoneMeansDropped, DropsAreFinal, NothingBeforeTheRow
<1>15. ASSUME NEW p \in Replicas, MarkDone(p) PROVE Safe'
  <2>1. sweep[p].op \in Ops /\ (sweep[p].op \in foreign \/ ~ project)
    BY <1>15, NilAssumption DEF MarkDone, Sweep, DropsAreFinal
  <2> QED
    BY <1>10, <1>11, <1>15, <2>1 DEF MarkDone, cluster, asked,
       DoneMeansDropped, RowsNeedProject, DropsAreFinal, NothingBeforeTheRow
<1>16. CASE Crash
  <2>1. UNCHANGED <<project, container, operation, foreign>>
        /\ (founding' = "insert" => founding = "insert")
    BY <1>16 DEF Crash, tables, work, asked
  <2>2. \A c \in Calls : call'[c] \in {call[c], NoCall}
    BY <1>16 DEF Crash
  <2>3. \A p \in Replicas : sweep'[p] \in {sweep[p], NoSweep}
    BY <1>16 DEF Crash, work, asked
  <2>4. DropsAreFinal'
    BY <2>1, <2>2, <2>3 DEF NoCall, NoSweep, DropsAreFinal
  <2>5. NothingBeforeTheRow'
    BY <2>1, <2>2, <2>3 DEF NothingBeforeTheRow
  <2> QED
    BY <2>1, <2>4, <2>5 DEF DoneMeansDropped, RowsNeedProject
<1>17. CASE UNCHANGED vars
  BY <1>17, SafeElsewhere DEF vars, tables, work, asked, RowsNeedProject
<1>18. \A c \in Calls, k \in Kinds :
         FanOut(c, k) \/ DeleteNamespace(c) \/ CreateOperation(c)
           => call[c].pc \in {"fan", "create"}
  BY DEF FanOut, DeleteNamespace, CreateOperation
<1> QED
  BY <1>1, <1>2, <1>3, <1>4, <1>5, <1>6, <1>7, <1>8, <1>9, <1>12, <1>13, <1>14,
     <1>15, <1>16, <1>17, <1>18, KindsFact
  DEF Next, DeleteByConnect, DeleteByREST

LEMMA InvariantlySafe == Spec => []Safe
<1>1. Init => Safe
  BY DEF Init, Safe, DoneMeansDropped, RowsNeedProject, DropsAreFinal,
     NothingBeforeTheRow, NoCall, NoSweep
<1>2. (TypeOK /\ (OwnOperation /\ SweptOperations)) /\ Safe /\ [Next]_vars => Safe'
  BY SafeStep
<1> QED
  BY <1>1, <1>2, InvariantlyOwned, PTL DEF Spec

(* A deletion of the owner's that reads "done" has deleted the project's   *)
(* row, whichever of the request and the compute replicas says so,         *)
(* whatever fails, and whatever other accounts ask for.                    *)
THEOREM DoneIsTrue == Spec => []DoneMeansDropped
<1>1. Safe => DoneMeansDropped
  BY DEF Safe
<1> QED
  BY <1>1, InvariantlySafe, PTL

(* No container's row is there without its project's: neither a deployment *)
(* nor a reconciler that comes late can bring one about.                   *)
THEOREM NoOrphanRows == Spec => []RowsNeedProject
<1>1. Safe => RowsNeedProject
  BY DEF Safe
<1> QED
  BY <1>1, InvariantlySafe, PTL

-----------------------------------------------------------------------------
(* The namespace follows the creation, as long as nothing has failed, no   *)
(* deletion is between deleting the namespace and deleting the row, and no *)
(* other account's deletion has begun to be carried out.                   *)
Unspoiled ==
  /\ \A c \in Calls : call[c].pc \notin {"create", "row"}
  /\ \A o \in foreign : operation[o] = "none"

NamespaceFollows ==
  /\ founding = "insert" => namespace = "absent"
  /\ faults = 0 /\ project /\ Unspoiled
     => /\ founding = "namespace" => namespace = "absent"
        /\ founding = "policy" => namespace = "open"
        /\ founding = "over" => namespace = "isolated"

LEMMA FaultsAdd ==
  ASSUME TypeOK
  PROVE  Fault => faults' # 0
  BY DEF Fault, TypeOK

LEMMA FollowsElsewhere ==
  ASSUME NamespaceFollows, UNCHANGED <<namespace, founding>>,
         project' => project,
         faults' = 0 => faults = 0,
         project' /\ faults' = 0 /\ Unspoiled' => Unspoiled
  PROVE  NamespaceFollows'
  BY DEF NamespaceFollows

LEMMA FollowsStep ==
  ASSUME TypeOK, Safe, OwnOperation, NamespaceFollows, [Next]_vars
  PROVE  NamespaceFollows'
<1>0. ASSUME UNCHANGED <<operation, foreign>>,
             \A d \in Calls : call[d].pc \in {"create", "row"} => call'[d] = call[d]
      PROVE  Unspoiled' => Unspoiled
  BY <1>0 DEF Unspoiled
<1>1. CASE InsertProject
  BY <1>1 DEF InsertProject, cluster, NamespaceFollows
<1>2. CASE CreateNamespace
  <2>1. Unspoiled' => Unspoiled
    BY <1>0, <1>2 DEF CreateNamespace, tables, asked
  <2> QED
    BY <1>2, <2>1, FaultsAdd DEF CreateNamespace, Step, tables, NamespaceFollows
<1>3. CASE CreatePolicy
  <2>1. Unspoiled' => Unspoiled
    BY <1>0, <1>3 DEF CreatePolicy, tables, asked
  <2> QED
    BY <1>3, <2>1, FaultsAdd DEF CreatePolicy, Step, tables, NamespaceFollows
<1>4. ASSUME NEW k \in Kinds, Create(k) \/ Post(k) \/ KillObject(k) \/ Reap(k)
      PROVE  NamespaceFollows'
  BY <1>0, <1>4, FaultsAdd, FollowsElsewhere
  DEF Create, Post, KillObject, Reap, cluster, tables, work, asked
<1>5. CASE UpsertContainer \/ ForgetContainer \/ DeleteProject
  BY <1>0, <1>5, FaultsAdd, FollowsElsewhere
  DEF UpsertContainer, ForgetContainer, DeleteProject, Dropped, cluster, tables, work, asked
<1>6. CASE DropNamespace
  <2>1. Unspoiled' => Unspoiled
    BY <1>0, <1>6 DEF DropNamespace, tables, asked
  <2> QED
    BY <1>6, <2>1 DEF DropNamespace, tables, work, NamespaceFollows
<1>7. ASSUME NEW c \in Calls, NEW o \in Ops, NEW own \in BOOLEAN,
             NEW heard \in {{}, Kinds}, Delete(c, o, own, heard)
      PROVE  NamespaceFollows'
  <2>1. \A d \in Calls : call[d].pc \in {"create", "row"} => call'[d] = call[d]
    BY <1>7 DEF Delete, NoCall, TypeOK
  <2>2. /\ operation[o] = "none" /\ UNCHANGED operation
        /\ \A q \in Ops \ {o} : q \in foreign' <=> q \in foreign
    BY <1>7 DEF Delete, Unused, tables
  <2>3. Unspoiled' => Unspoiled
    BY <2>1, <2>2 DEF Unspoiled, TypeOK
  <2> QED
    BY <1>7, <2>3, FollowsElsewhere DEF Delete, cluster, tables, work
<1>8. ASSUME NEW c \in Calls, NEW k \in Kinds, FanOut(c, k) PROVE NamespaceFollows'
  <2>1. \A d \in Calls : call[d].pc \in {"create", "row"} => call'[d] = call[d]
    BY <1>8 DEF FanOut, TypeOK
  <2> QED
    BY <1>0, <1>8, <2>1, FaultsAdd, FollowsElsewhere DEF FanOut, cluster, tables, asked
<1>9. ASSUME NEW c \in Calls, DeleteNamespace(c) PROVE NamespaceFollows'
  <2>1. call'[c].pc = "create" /\ founding # "insert"
    BY <1>9 DEF DeleteNamespace, Go, TypeOK, Call, Safe, NothingBeforeTheRow, NoCall
  <2>2. founding' = founding
    BY <1>9 DEF DeleteNamespace, work
  <2> QED
    BY <2>1, <2>2 DEF NamespaceFollows, Unspoiled
<1>10. ASSUME NEW c \in Calls, CreateOperation(c) PROVE NamespaceFollows'
  <2>1. Go(c, "row") => call'[c].pc = "row"
    BY DEF Go, TypeOK, Call
  <2>2. faults' = 0 => ~ Unspoiled'
    BY <1>10, <2>1, FaultsAdd DEF CreateOperation, Unspoiled
  <2> QED
    BY <1>10, <2>2, FaultsAdd, FollowsElsewhere DEF CreateOperation, cluster, work
<1>11. ASSUME NEW c \in Calls, DropRow(c) PROVE NamespaceFollows'
  <2>1. call[c].op \in Ops /\ operation[call[c].op] # "none" /\ UNCHANGED <<operation, foreign>>
    BY <1>11 DEF DropRow, asked, OwnOperation, Closing
  <2>2. CASE call[c].op \in foreign
    BY <1>11, <2>1, <2>2, FaultsAdd, FollowsElsewhere
    DEF DropRow, Dropped, DroppedFor, cluster, work, Unspoiled
  <2>3. CASE call[c].op \notin foreign
    BY <1>11, <2>1, <2>3, FaultsAdd, FollowsElsewhere
    DEF DropRow, Dropped, DroppedFor, cluster, work
  <2> QED
    BY <2>2, <2>3
<1>12. ASSUME NEW c \in Calls, UpdateOperation(c) PROVE NamespaceFollows'
  <2>1. \A d \in Calls : call[d].pc \in {"create", "row"} => call'[d] = call[d]
    BY <1>12 DEF UpdateOperation, TypeOK
  <2>2. \A o \in Ops : operation'[o] = "none" => operation[o] = "none"
    BY <1>12 DEF UpdateOperation, TypeOK
  <2>3. Unspoiled' => Unspoiled
    BY <1>12, <2>1, <2>2 DEF UpdateOperation, asked, Unspoiled, TypeOK
  <2> QED
    BY <1>12, <2>3, FaultsAdd, FollowsElsewhere DEF UpdateOperation, cluster, work
<1>13. ASSUME NEW p \in Replicas, NEW o \in Ops, ListMachines(p, o)
       PROVE  NamespaceFollows'
  BY <1>0, <1>13, FaultsAdd, FollowsElsewhere DEF ListMachines, cluster, tables, asked
<1>14. ASSUME NEW p \in Replicas, Tick(p) \/ ListContainers(p) \/ SweepRow(p)
       PROVE  NamespaceFollows'
  BY <1>0, <1>14, FaultsAdd, FollowsElsewhere
  DEF Tick, ListContainers, SweepRow, Dropped, DroppedFor, cluster, tables, asked
<1>15. ASSUME NEW p \in Replicas, MarkDone(p) PROVE NamespaceFollows'
  <2>1. \A o \in Ops : operation'[o] = "none" => operation[o] = "none"
    BY <1>15 DEF MarkDone, TypeOK
  <2>2. Unspoiled' => Unspoiled
    BY <1>15, <2>1 DEF MarkDone, asked, Unspoiled, TypeOK
  <2> QED
    BY <1>15, <2>2, FaultsAdd, FollowsElsewhere DEF MarkDone, cluster
<1>16. CASE Crash
  <2>1. faults' # 0 /\ UNCHANGED namespace /\ (founding' = "insert" => founding = "insert")
    BY <1>16, FaultsAdd DEF Crash, cluster, work
  <2> QED
    BY <2>1 DEF NamespaceFollows
<1>17. CASE UNCHANGED vars
  BY <1>0, <1>17, FollowsElsewhere DEF vars, cluster, tables, work, asked
<1> QED
  BY <1>1, <1>2, <1>3, <1>4, <1>5, <1>6, <1>7, <1>8, <1>9, <1>10, <1>11, <1>12, <1>13,
     <1>14, <1>15, <1>16, <1>17
  DEF Next, DeleteByConnect, DeleteByREST

(* As long as nothing has failed and no other account has deleted it, a    *)
(* listed project that no deletion has got to has its namespace and its    *)
(* policy, though the creation writes the three one after the other and    *)
(* the owner's deletions may overtake it.                                  *)
THEOREM ListedIsUsable == Spec => []ListedProjectsAreUsable
<1>1. Init => NamespaceFollows
  BY DEF Init, NamespaceFollows
<1>2. Safe /\ NamespaceFollows => ListedProjectsAreUsable
  BY DEF NamespaceFollows, Unspoiled, ListedProjectsAreUsable
<1>3. ((TypeOK /\ (OwnOperation /\ SweptOperations)) /\ Safe) /\ NamespaceFollows /\ [Next]_vars
        => NamespaceFollows'
  BY FollowsStep
<1> QED
  BY <1>1, <1>2, <1>3, InvariantlyOwned, InvariantlySafe, PTL DEF Spec

-----------------------------------------------------------------------------
(* The services implement the lifecycle of the owner's operations: the     *)
(* requests create them, the reconcilers take up what is in the table, and *)
(* what another account does to the project comes between.                 *)
LEMMA InvariantlyOwnedAndSafe ==
  Spec => []((TypeOK /\ Safe) /\ (OwnOperation /\ SweptOperations))
  BY InvariantlyOwned, InvariantlySafe, PTL

LEMMA InitRefines == Init => Lifecycle!Init
  BY DEF Init, Lifecycle!Init, NoCall

LEMMA StepRefines ==
  ASSUME TypeOK, Safe, OwnOperation, SweptOperations, [Next]_vars
  PROVE  [Lifecycle!Next]_(Lifecycle!vars)
<1> DEFINE status == [o \in Ops |-> IF o \in foreign THEN "none" ELSE operation[o]]
           gone == {o \in Ops \ foreign : operation[o] # "none" /\ ~ project}
           open == {o \in Ops \ foreign :
                      \E c \in Calls : call[c].op = o /\ call[c].pc \in {"row", "done", "error"}}
           Still == \A c \in Calls :
                      IF call[c].pc \in Closing
                      THEN call'[c].pc \in Closing /\ call'[c].op = call[c].op
                      ELSE call'[c].pc \notin Closing
<1>1. ASSUME Still, UNCHANGED foreign PROVE UNCHANGED open
  BY <1>1 DEF Closing
<1>2. ASSUME Still, UNCHANGED <<operation, foreign>>, project' => project
      PROVE  Lifecycle!Vanish
  BY <1>1, <1>2 DEF Lifecycle!Vanish
<1>3. UNCHANGED call => Still
  OBVIOUS
<1>4. ASSUME InsertProject PROVE Lifecycle!Vanish
  <2>1. UNCHANGED <<operation, call, foreign>> /\ \A o \in Ops : operation[o] = "none"
    BY <1>4 DEF InsertProject, asked, Safe, NothingBeforeTheRow
  <2> QED
    BY <1>1, <1>3, <2>1 DEF Lifecycle!Vanish
<1>5. ASSUME \/ CreateNamespace \/ CreatePolicy \/ UpsertContainer \/ ForgetContainer
             \/ DropNamespace \/ DeleteProject \/ UNCHANGED vars
      PROVE  Lifecycle!Vanish
  <2>1. UNCHANGED <<operation, call, foreign>> /\ (project' => project)
    BY <1>5 DEF CreateNamespace, CreatePolicy, UpsertContainer, ForgetContainer,
       DropNamespace, DeleteProject, Dropped, vars, tables, work, asked
  <2> QED
    BY <1>2, <1>3, <2>1
<1>6. ASSUME NEW k \in Kinds, Create(k) \/ Post(k) \/ KillObject(k) \/ Reap(k)
      PROVE  Lifecycle!Vanish
  BY <1>2, <1>3, <1>6 DEF Create, Post, KillObject, Reap, tables, work, asked
<1>7. ASSUME NEW c \in Calls, NEW o \in Ops, NEW own \in BOOLEAN,
             NEW heard \in {{}, Kinds}, Delete(c, o, own, heard)
      PROVE  Lifecycle!Vanish
  <2>1. /\ operation[o] = "none" /\ \A d \in Calls : call[d].op # o
        /\ UNCHANGED <<operation, project>>
        /\ \A q \in Ops \ {o} : q \in foreign' <=> q \in foreign
        /\ call[c].pc \notin Closing /\ call'[c].pc \notin Closing
        /\ \A d \in Calls \ {c} : call'[d] = call[d]
    BY <1>7 DEF Delete, Unused, tables, TypeOK, Closing, NoCall
  <2>2. UNCHANGED status
    BY <2>1
  <2>3. UNCHANGED gone
    BY <2>1
  <2>4. UNCHANGED open
    BY <2>1 DEF Closing
  <2> QED
    BY <2>2, <2>3, <2>4 DEF Lifecycle!Vanish
<1>8. ASSUME NEW c \in Calls, NEW k \in Kinds, FanOut(c, k) \/ DeleteNamespace(c)
      PROVE  Lifecycle!Vanish
  <2>1. Still
    <3>1. CASE call' = [call EXCEPT ![c].todo = @ \ {k}]
      BY <3>1 DEF TypeOK, Call
    <3>2. CASE call[c].pc \notin Closing /\ Go(c, "create")
      BY <3>2 DEF Go, TypeOK, Call, Closing
    <3> QED
      BY <1>8, <3>1, <3>2 DEF FanOut, DeleteNamespace, Closing
  <2> QED
    BY <1>2, <1>8, <2>1 DEF FanOut, DeleteNamespace, tables, asked
<1>9. ASSUME NEW c \in Calls, CreateOperation(c)
      PROVE  Lifecycle!Vanish \/ \E o \in Ops : Lifecycle!Create(o)
  <2> DEFINE o == call[c].op
  <2>1. o \in Ops /\ operation[o] = "none" /\ call[c].pc \notin Closing
    BY <1>9 DEF CreateOperation, OwnOperation, Opening, Closing
  <2>2. UNCHANGED <<project, foreign>>
    BY <1>9 DEF CreateOperation, asked
  <2>3. CASE UNCHANGED operation /\ call' = [call EXCEPT ![c] = NoCall]
    <3>1. Still
      BY <2>1, <2>3 DEF TypeOK, NoCall, Closing
    <3> QED
      BY <1>2, <2>2, <2>3, <3>1
  <2>4. CASE operation' = [operation EXCEPT ![o] = "pending"] /\ Go(c, "row")
    <3>1. /\ operation'[o] = "pending"
          /\ \A q \in Ops \ {o} : operation'[q] = operation[q]
      BY <2>1, <2>4 DEF TypeOK
    <3>2. /\ call'[c].op = o /\ call'[c].pc = "row"
          /\ \A d \in Calls \ {c} : call'[d] = call[d]
      BY <2>4 DEF Go, TypeOK, Call
    <3>3. CASE o \in foreign
      <4>1. UNCHANGED status /\ UNCHANGED gone
        BY <2>2, <3>1, <3>3
      <4>2. UNCHANGED open
        BY <2>1, <2>2, <3>2, <3>3 DEF Closing
      <4> QED
        BY <4>1, <4>2 DEF Lifecycle!Vanish
    <3>4. CASE o \notin foreign
      <4>1. status[o] = "none" /\ status' = [status EXCEPT ![o] = "pending"]
        BY <2>1, <2>2, <3>1, <3>4
      <4>2. gone' \in {gone, gone \union {o}}
        BY <2>1, <2>2, <3>1, <3>4
      <4>3. open' = open \union {o}
        BY <2>1, <2>2, <3>2, <3>4 DEF Closing
      <4> QED
        BY <2>1, <4>1, <4>2, <4>3 DEF Lifecycle!Create
    <3> QED
      BY <3>3, <3>4
  <2> QED
    BY <1>9, <2>3, <2>4 DEF CreateOperation
<1>10. ASSUME NEW c \in Calls, DropRow(c) PROVE Lifecycle!Vanish
  <2>1. Still
    BY <1>10 DEF DropRow, Go, TypeOK, Call, Closing
  <2> QED
    BY <1>2, <1>10, <2>1 DEF DropRow, Dropped, DroppedFor, asked
<1>11. ASSUME NEW c \in Calls, UpdateOperation(c)
       PROVE  Lifecycle!Close \/ \E o \in Ops : Lifecycle!Done(o) \/ Lifecycle!Fail(o)
  <2> DEFINE o == call[c].op
  <2>1. /\ call[c].pc \in {"done", "error"} /\ call[c].pc \in Closing
        /\ call[c].pc # "idle"
    BY <1>11 DEF UpdateOperation, Closing
  <2>2. o \in Ops /\ operation[o] # "none"
    BY <2>1 DEF OwnOperation
  <2>3. call'[c] = NoCall /\ \A d \in Calls \ {c} : call'[d] = call[d]
    BY <1>11 DEF UpdateOperation, TypeOK
  <2>4. \A d \in Calls \ {c} : call[d].op # o
    BY <2>2, NilAssumption DEF OwnOperation
  <2>5. UNCHANGED <<project, foreign>>
    BY <1>11 DEF UpdateOperation, asked
  <2>6. open' = open \ {o}
    BY <2>1, <2>3, <2>4, <2>5 DEF Closing, NoCall
  <2>7. CASE UNCHANGED operation
    BY <2>5, <2>6, <2>7 DEF Lifecycle!Close
  <2>8. CASE operation' = [operation EXCEPT ![o] = call[c].pc]
    <3>1. \A q \in Ops : operation'[q] = IF q = o THEN call[c].pc ELSE operation[q]
      BY <2>8 DEF TypeOK
    <3>2. UNCHANGED gone
      BY <2>1, <2>2, <2>5, <3>1
    <3>3. CASE o \in foreign
      <4>1. UNCHANGED status
        BY <2>5, <3>1, <3>3
      <4> QED
        BY <2>6, <3>2, <4>1 DEF Lifecycle!Close
    <3>4. CASE o \notin foreign
      <4>1. status' = [status EXCEPT ![o] = call[c].pc]
        BY <2>2, <2>5, <3>1, <3>4
      <4>2. CASE call[c].pc = "done"
        <5>1. o \in gone
          BY <2>2, <3>4, <4>2 DEF Safe, DropsAreFinal
        <5> QED
          BY <2>2, <2>6, <3>2, <4>1, <4>2, <5>1 DEF Lifecycle!Done
      <4>3. CASE call[c].pc = "error"
        <5>1. o \in open
          BY <2>2, <3>4, <4>3
        <5> QED
          BY <2>2, <2>6, <3>2, <4>1, <4>3, <5>1 DEF Lifecycle!Fail
      <4> QED
        BY <2>1, <2>2, <4>2, <4>3
    <3> QED
      BY <3>3, <3>4
  <2> QED
    BY <1>11, <2>7, <2>8 DEF UpdateOperation
<1>12. ASSUME NEW p \in Replicas, NEW o \in Ops, ListMachines(p, o)
       PROVE  Lifecycle!Vanish
  BY <1>2, <1>3, <1>12 DEF ListMachines, tables, asked
<1>13. ASSUME NEW p \in Replicas, Tick(p) \/ ListContainers(p) \/ SweepRow(p)
       PROVE  Lifecycle!Vanish
  BY <1>2, <1>3, <1>13
  DEF Tick, ListContainers, SweepRow, Dropped, DroppedFor, tables, asked
<1>14. ASSUME NEW p \in Replicas, MarkDone(p)
       PROVE  Lifecycle!Vanish \/ \E o \in Ops : Lifecycle!Done(o)
  <2> DEFINE o == sweep[p].op
  <2>1. UNCHANGED <<project, call, foreign>>
    BY <1>14 DEF MarkDone, asked
  <2>2. o \in Ops /\ operation[o] # "none" /\ (o \in foreign \/ ~ project)
    BY <1>14, NilAssumption
    DEF MarkDone, SweptOperations, TypeOK, Sweep, Safe, DropsAreFinal
  <2>3. CASE UNCHANGED operation
    BY <1>2, <1>3, <2>1, <2>3
  <2>4. CASE operation' = [operation EXCEPT ![o] = "done"]
    <3>1. \A q \in Ops : operation'[q] = IF q = o THEN "done" ELSE operation[q]
      BY <2>4 DEF TypeOK
    <3>2. UNCHANGED gone
      BY <2>1, <2>2, <3>1
    <3>3. UNCHANGED open
      BY <1>1, <1>3, <2>1
    <3>4. CASE o \in foreign
      <4>1. UNCHANGED status
        BY <2>1, <3>1, <3>4
      <4> QED
        BY <3>2, <3>3, <4>1 DEF Lifecycle!Vanish
    <3>5. CASE o \notin foreign
      <4>1. status' = [status EXCEPT ![o] = "done"]
        BY <2>1, <2>2, <3>1, <3>5
      <4>2. o \in gone
        BY <2>2, <3>5
      <4> QED
        BY <2>2, <3>2, <3>3, <4>1, <4>2 DEF Lifecycle!Done
    <3> QED
      BY <3>4, <3>5
  <2> QED
    BY <1>14, <2>3, <2>4 DEF MarkDone
<1>15. ASSUME Crash PROVE Lifecycle!Close
  <2>1. UNCHANGED <<operation, project, foreign>>
    BY <1>15 DEF Crash, tables, asked
  <2>2. \A c \in Calls : call'[c] \in {call[c], NoCall}
    BY <1>15 DEF Crash, TypeOK
  <2>3. open' \subseteq open
    BY <2>1, <2>2 DEF NoCall
  <2> QED
    BY <2>1, <2>3 DEF Lifecycle!Close
<1> QED
  BY KindsFact, <1>4, <1>5, <1>6, <1>7, <1>8, <1>9, <1>10, <1>11, <1>12, <1>13, <1>14, <1>15
  DEF Next, Lifecycle!Next, DeleteByConnect, DeleteByREST

(* What the owner reads of a project's deletion, answered by its request   *)
(* or by any of the compute replicas, is what the lifecycle allows, also   *)
(* when another account's deletion runs through the same steps beside it.  *)
THEOREM Refinement == Spec => LifecycleSpec
<1>1. (TypeOK /\ Safe) /\ (OwnOperation /\ SweptOperations) /\ [Next]_vars
        => [Lifecycle!Next]_(Lifecycle!vars)
  BY StepRefines
<1> QED
  BY <1>1, InitRefines, InvariantlyOwnedAndSafe, PTL
  DEF Spec, LifecycleSpec, Lifecycle!Spec
-----------------------------------------------------------------------------
(* The services implement the life of a project. Only the creation ends    *)
(* the time before the row; after it, a row that is gone stays away, and   *)
(* the mark may come and go.                                               *)
LEMMA LaterPhase ==
  ASSUME founding' = "insert" <=> founding = "insert", project' => project
  PROVE  [Listing!Next]_Phase
  BY DEF Phase, Listing!Next, Listing!Mark, Listing!Unmark, Listing!Drop

LEMMA PhaseStep ==
  ASSUME TypeOK, Safe, [Next]_vars
  PROVE  [Listing!Next]_Phase
<1>1. CASE InsertProject
  <2>1. Phase = "unborn"
    BY <1>1 DEF InsertProject, Phase
  <2>2. Pending' = {}
    BY <1>1 DEF InsertProject, Pending, Safe, NothingBeforeTheRow
  <2>3. Phase' = "live"
    BY <1>1, <2>2 DEF InsertProject, Phase
  <2> QED
    BY <2>1, <2>3 DEF Listing!Next, Listing!Found
<1>2. CASE CreateNamespace \/ CreatePolicy
  BY <1>2, LaterPhase DEF CreateNamespace, CreatePolicy, Step, tables
<1>3. CASE \E k \in Kinds : Create(k) \/ Post(k) \/ KillObject(k) \/ Reap(k)
  BY <1>3, LaterPhase DEF Create, Post, KillObject, Reap, tables, work
<1>4. CASE \/ UpsertContainer \/ ForgetContainer \/ DropNamespace \/ DeleteProject
           \/ UNCHANGED vars
  BY <1>4, LaterPhase
  DEF UpsertContainer, ForgetContainer, DropNamespace, DeleteProject, Dropped, vars,
      tables, work
<1>5. CASE \E c \in Calls, o \in Ops, own \in BOOLEAN, heard \in {{}, Kinds} :
       Delete(c, o, own, heard)
  BY <1>5, LaterPhase DEF Delete, tables, work
<1>6. CASE \E c \in Calls : \/ (\E k \in Kinds : FanOut(c, k)) \/ DeleteNamespace(c)
                            \/ CreateOperation(c)
                            \/ DropRow(c) \/ UpdateOperation(c)
  BY <1>6, LaterPhase
  DEF FanOut, DeleteNamespace, CreateOperation, DropRow, UpdateOperation, Dropped, DroppedFor,
      tables, work
<1>7. CASE \E p \in Replicas : \/ Tick(p) \/ ListContainers(p) \/ SweepRow(p) \/ MarkDone(p)
                               \/ \E o \in Ops : ListMachines(p, o)
  BY <1>7, LaterPhase
  DEF Tick, ListContainers, SweepRow, MarkDone, ListMachines, Dropped, DroppedFor, tables
<1>8. CASE Crash
  BY <1>8, LaterPhase DEF Crash, tables, work
<1> QED
  BY <1>1, <1>2, <1>3, <1>4, <1>5, <1>6, <1>7, <1>8
  DEF Next, DeleteByConnect, DeleteByREST

(* Deletions of one project overlap with each other, with its creation and *)
(* with the reconcilers, and any step of them fails: whoever lists the     *)
(* project sees it made once, marked at times, and gone for good.          *)
THEOREM ProjectLives == Spec => ListingSpec
<1>1. Init => Listing!Init
  BY DEF Init, Phase, Listing!Init, Listing!Phases
<1>2. TypeOK /\ Safe /\ [Next]_vars => [Listing!Next]_Phase
  BY PhaseStep
<1> QED
  BY <1>1, <1>2, TypeCorrect, InvariantlySafe, PTL DEF Spec, ListingSpec, Listing!Spec
-----------------------------------------------------------------------------
(* What a deletion leaves behind.                                          *)

(* Without a namespace nothing is in the cluster, whatever has failed: an  *)
(* object is refused unless the namespace is there, and the namespace does *)
(* not go before what it holds.                                            *)
NothingWithoutNamespace ==
  namespace = "absent" => \A k \in Kinds : object[k] = "absent"

(* A deletion has got to the namespace.                                    *)
Passed ==
  \/ \E c \in Calls : call[c].pc \in {"create", "row", "done", "error"}
  \/ \E o \in Ops : operation[o] # "none"

Going == founding = "over" /\ namespace \in {"terminating", "absent"}

DeletionsReachTheNamespace ==
  faults = 0 /\ ~ early =>
    /\ \A c \in Calls : call[c].pc # "idle" => founding = "over"
    /\ Passed => Going

Swept == NothingWithoutNamespace /\ DeletionsReachTheNamespace

LEMMA SweptElsewhere ==
  ASSUME TypeOK, Swept, UNCHANGED <<namespace, object>>,
         faults' = 0 => faults = 0,
         early => early',
         founding = "over" => founding' = "over",
         faults' = 0 /\ ~ early' =>
           /\ (\E c \in Calls : call'[c].pc # "idle") => (\E c \in Calls : call[c].pc # "idle")
           /\ Passed' => Passed
  PROVE  Swept'
  BY DEF Swept, NothingWithoutNamespace, DeletionsReachTheNamespace, Going

LEMMA SweptStep ==
  ASSUME TypeOK, Safe, SweptOperations, Swept, [Next]_vars
  PROVE  Swept'
<1> USE DEF TypeOK
<1>0. UNCHANGED <<call, operation>> => UNCHANGED Passed
  BY DEF Passed
<1>1. CASE InsertProject
  BY <1>1, <1>0 DEF InsertProject, cluster, asked, Swept, NothingWithoutNamespace,
     DeletionsReachTheNamespace, Safe, NothingBeforeTheRow, NoCall, Passed
<1>2. CASE CreateNamespace
  <2>1. NothingWithoutNamespace'
    BY <1>2 DEF CreateNamespace, Swept, NothingWithoutNamespace
  <2>2. founding = "namespace" /\ UNCHANGED <<call, operation, early>>
    BY <1>2 DEF CreateNamespace, Step, tables, asked
  <2>3. faults' = 0 => faults = 0
    BY <1>2, FaultsAdd DEF CreateNamespace
  <2>4. DeletionsReachTheNamespace'
    BY <1>0, <2>2, <2>3 DEF Swept, DeletionsReachTheNamespace, Going
  <2> QED
    BY <2>1, <2>4 DEF Swept
<1>3. CASE CreatePolicy
  <2>1. NothingWithoutNamespace'
    BY <1>3 DEF CreatePolicy, Swept, NothingWithoutNamespace
  <2>2. founding = "policy" /\ UNCHANGED <<call, operation, early>>
    BY <1>3 DEF CreatePolicy, Step, tables, asked
  <2>3. faults' = 0 => faults = 0
    BY <1>3, FaultsAdd DEF CreatePolicy
  <2>4. DeletionsReachTheNamespace'
    BY <1>0, <2>2, <2>3 DEF Swept, DeletionsReachTheNamespace, Going
  <2> QED
    BY <2>1, <2>4 DEF Swept
<1>4. ASSUME NEW k \in Kinds, Post(k) \/ KillObject(k) \/ Reap(k)
      PROVE  Swept'
  <2>1. NothingWithoutNamespace'
    BY <1>4 DEF Post, KillObject, Reap, Active, Swept, NothingWithoutNamespace
  <2>2. UNCHANGED <<namespace, founding, call, operation, early>>
    BY <1>4 DEF Post, KillObject, Reap, tables, work, asked
  <2>3. faults' = 0 => faults = 0
    BY <1>4, FaultsAdd DEF Post, KillObject, Reap
  <2>4. DeletionsReachTheNamespace'
    BY <1>0, <2>2, <2>3 DEF Swept, DeletionsReachTheNamespace, Going
  <2> QED
    BY <2>1, <2>4 DEF Swept
<1>5. CASE \/ \E k \in Kinds : Create(k)
           \/ UpsertContainer \/ ForgetContainer \/ DeleteProject \/ UNCHANGED vars
  BY <1>5, <1>0, FaultsAdd, SweptElsewhere
  DEF Create, UpsertContainer, ForgetContainer, DeleteProject, vars, cluster, tables, work,
     asked
<1>6. CASE DropNamespace
  BY <1>6, <1>0 DEF DropNamespace, tables, work, asked, Swept, NothingWithoutNamespace,
     DeletionsReachTheNamespace, Going
<1>7. ASSUME NEW c \in Calls, NEW o \in Ops, NEW own \in BOOLEAN,
             NEW heard \in {{}, Kinds}, Delete(c, o, own, heard)
      PROVE  Swept'
  <2>1. /\ call'[c].pc = "fan" /\ \A d \in Calls \ {c} : call'[d] = call[d]
        /\ UNCHANGED <<operation, founding, faults, namespace, object>>
        /\ early' = (early \/ founding # "over")
    BY <1>7 DEF Delete, cluster, tables, work, asked
  <2>2. Passed' => Passed
    BY <2>1 DEF Passed
  <2> QED
    BY <2>1, <2>2 DEF Swept, NothingWithoutNamespace, DeletionsReachTheNamespace, Going
<1>8. ASSUME NEW c \in Calls, NEW k \in Kinds, FanOut(c, k) PROVE Swept'
  <2>1. \A d \in Calls : /\ call'[d].pc = "idle" <=> call[d].pc = "idle"
                         /\ call'[d].pc \in {"create", "row", "done", "error"} =>
                              call[d].pc \in {"create", "row", "done", "error"}
    BY <1>8 DEF FanOut, Go, Call
  <2>2. UNCHANGED operation
    BY <1>8 DEF FanOut, tables, asked
  <2>3. Passed' => Passed
    BY <2>1, <2>2 DEF Passed
  <2> QED
    BY <1>8, <2>1, <2>3, FaultsAdd, SweptElsewhere DEF FanOut, cluster, asked
<1>9. ASSUME NEW c \in Calls, DeleteNamespace(c) PROVE Swept'
  <2>1. NothingWithoutNamespace'
    BY <1>9 DEF DeleteNamespace, Swept, NothingWithoutNamespace
  <2>2. call[c].pc # "idle" /\ UNCHANGED <<founding, early>> /\ (faults' = 0 => faults = 0)
    BY <1>9, FaultsAdd DEF DeleteNamespace, work, asked
  <2>3. faults' = 0 => namespace' \in {"terminating", "absent"}
    BY <1>9, FaultsAdd DEF DeleteNamespace
  <2>4. DeletionsReachTheNamespace'
    BY <2>2, <2>3 DEF Swept, DeletionsReachTheNamespace, Going
  <2> QED
    BY <2>1, <2>4 DEF Swept
<1>10. ASSUME NEW c \in Calls, CreateOperation(c) \/ DropRow(c) \/ UpdateOperation(c)
       PROVE  Swept'
  <2>1. call[c].pc \in {"create", "row", "done", "error"}
    BY <1>10 DEF CreateOperation, DropRow, UpdateOperation
  <2>2. Passed /\ call[c].pc # "idle"
    BY <2>1 DEF Passed
  <2> QED
    BY <1>10, <2>2, FaultsAdd, SweptElsewhere
    DEF CreateOperation, DropRow, UpdateOperation, cluster, work, asked
<1>11. ASSUME NEW p \in Replicas, NEW o \in Ops, ListMachines(p, o) PROVE Swept'
  BY <1>11, <1>0, FaultsAdd, SweptElsewhere DEF ListMachines, cluster, tables, asked
<1>12. ASSUME NEW p \in Replicas, Tick(p) \/ ListContainers(p) \/ SweepRow(p)
       PROVE  Swept'
  BY <1>12, <1>0, FaultsAdd, SweptElsewhere
  DEF Tick, ListContainers, SweepRow, cluster, tables, asked
<1>13. ASSUME NEW p \in Replicas, MarkDone(p) PROVE Swept'
  <2>1. sweep[p].op \in Ops /\ operation[sweep[p].op] # "none"
    BY <1>13 DEF MarkDone, SweptOperations, Sweep
  <2>2. Passed
    BY <2>1 DEF Passed
  <2> QED
    BY <1>13, <2>2, FaultsAdd, SweptElsewhere DEF MarkDone, cluster, asked
<1>14. CASE Crash
  <2>1. faults' # 0 /\ UNCHANGED <<namespace, object>>
    BY <1>14, FaultsAdd DEF Crash, cluster, asked
  <2> QED
    BY <2>1 DEF Swept, NothingWithoutNamespace, DeletionsReachTheNamespace
<1> QED
  BY <1>1, <1>2, <1>3, <1>4, <1>5, <1>6, <1>7, <1>8, <1>9, <1>10, <1>11, <1>12,
     <1>13, <1>14
  DEF Next, DeleteByConnect, DeleteByREST

LEMMA InvariantlySwept == Spec => []Swept
<1>1. Init => Swept
  BY DEF Init, Swept, NothingWithoutNamespace, DeletionsReachTheNamespace, Passed, NoCall
<1>2. ((TypeOK /\ Safe) /\ (OwnOperation /\ SweptOperations)) /\ Swept /\ [Next]_vars
        => Swept'
  BY SweptStep
<1> QED
  BY <1>1, <1>2, InvariantlyOwnedAndSafe, PTL DEF Spec

(* Once a deletion is done that began after the creation, and no step has  *)
(* failed, the project's namespace is on its way out or gone, and when it  *)
(* is gone nothing is left of what was in it: no creation in flight, no    *)
(* goroutine of a fan-out and no second deletion can bring anything back.  *)
(* What NothingIsLeft adds is only that the cluster finishes its work.     *)
THEOREM NothingSurvives ==
  Spec => []((\E o \in Ops : operation[o] = "done") /\ faults = 0 /\ ~ early =>
               /\ namespace \in {"terminating", "absent"}
               /\ namespace = "absent" => \A k \in Kinds : object[k] = "absent")
<1>1. Swept => ((\E o \in Ops : operation[o] = "done") /\ faults = 0 /\ ~ early =>
                  /\ namespace \in {"terminating", "absent"}
                  /\ namespace = "absent" => \A k \in Kinds : object[k] = "absent")
  BY DEF Swept, NothingWithoutNamespace, DeletionsReachTheNamespace, Passed, Going
<1> QED
  BY <1>1, InvariantlySwept, PTL
-----------------------------------------------------------------------------
(* How near a compute replica is to settling an operation.                 *)

Empty == object["vm"] = "absent" /\ ~ container

Nearness(o, p) ==
  IF operation[o] # "pending" THEN 5
  ELSE IF sweep[p].op = o
       THEN CASE sweep[p].step = "mark" -> 4
              [] sweep[p].step = "row" -> 3
              [] OTHER -> 2
  ELSE IF o \in sweep[p].todo THEN 1
  ELSE 0

LEMMA NearnessStep ==
  ASSUME TypeOK, OwnOperation, [Next]_vars, faults' = faults, Empty,
         NEW o \in Ops, operation[o] # "none", NEW p \in Replicas
  PROVE  operation'[o] # "none" /\ Nearness(o, p) <= Nearness(o, p)'
<1> USE NilAssumption
<1>0. ~ Fault
  BY DEF Fault, TypeOK
<1>1. ASSUME operation'[o] = operation[o], sweep'[p] = sweep[p]
      PROVE  operation'[o] # "none" /\ Nearness(o, p) <= Nearness(o, p)'
  BY <1>1 DEF Nearness
<1>2. ASSUME operation'[o] \in {"done", "error"}
      PROVE  operation'[o] # "none" /\ Nearness(o, p) <= Nearness(o, p)'
  BY <1>2 DEF Nearness
<1>3. CASE UNCHANGED vars
  BY <1>1, <1>3 DEF vars, tables, work
<1>4. CASE InsertProject \/ CreateNamespace \/ CreatePolicy
  BY <1>1, <1>4 DEF InsertProject, CreateNamespace, CreatePolicy, tables
<1>5. ASSUME NEW k \in Kinds, Create(k) \/ Post(k) \/ KillObject(k) \/ Reap(k)
      PROVE  operation'[o] # "none" /\ Nearness(o, p) <= Nearness(o, p)'
  BY <1>1, <1>5 DEF Create, Post, KillObject, Reap, tables, work
<1>6. CASE UpsertContainer \/ ForgetContainer \/ DropNamespace \/ DeleteProject
  BY <1>1, <1>6 DEF UpsertContainer, ForgetContainer, DropNamespace, DeleteProject, tables, work
<1>7. ASSUME NEW c \in Calls, NEW q \in Ops, NEW own \in BOOLEAN,
             DeleteByConnect(c, q, own) \/ DeleteByREST(c, q, own)
      PROVE  operation'[o] # "none" /\ Nearness(o, p) <= Nearness(o, p)'
  BY <1>1, <1>7 DEF DeleteByConnect, DeleteByREST, Delete, tables, work
<1>8. ASSUME NEW c \in Calls, NEW k \in Kinds, FanOut(c, k) \/ DeleteNamespace(c) \/ DropRow(c)
      PROVE  operation'[o] # "none" /\ Nearness(o, p) <= Nearness(o, p)'
  BY <1>1, <1>8 DEF FanOut, DeleteNamespace, DropRow, tables, work
<1>9. ASSUME NEW c \in Calls, CreateOperation(c)
      PROVE  operation'[o] # "none" /\ Nearness(o, p) <= Nearness(o, p)'
  <2>1. call[c].op # o
    BY <1>9 DEF CreateOperation, OwnOperation, Opening
  <2>2. operation'[o] = operation[o] /\ sweep' = sweep
    BY <1>0, <1>9, <2>1 DEF CreateOperation, work, TypeOK
  <2> QED
    BY <1>1, <2>2
<1>10. ASSUME NEW c \in Calls, UpdateOperation(c)
       PROVE  operation'[o] # "none" /\ Nearness(o, p) <= Nearness(o, p)'
  <2>1. /\ operation' = [operation EXCEPT ![call[c].op] = call[c].pc]
        /\ call[c].pc \in {"done", "error"} /\ sweep' = sweep
    BY <1>0, <1>10 DEF UpdateOperation, work
  <2>2. operation'[o] = operation[o] \/ operation'[o] = call[c].pc
    BY <2>1 DEF TypeOK
  <2> QED
    BY <1>1, <1>2, <2>1, <2>2
<1>11. ASSUME NEW q \in Replicas,
              \/ Tick(q) \/ ListContainers(q) \/ SweepRow(q)
              \/ \E i \in Ops : ListMachines(q, i)
       PROVE  operation'[o] # "none" /\ Nearness(o, p) <= Nearness(o, p)'
  <2>1. operation' = operation /\ \E w : sweep' = [sweep EXCEPT ![q] = w]
    BY <1>11
    DEF Tick, ListContainers, SweepRow, ListMachines, Proceed, SkipOperation, tables
  <2>2. CASE p # q
    BY <1>1, <2>1, <2>2 DEF TypeOK
  <2>3. CASE p = q /\ Tick(p)
    <3>1. sweep[p].op = Nil /\ sweep[p].todo = {}
      BY <2>3 DEF Tick, NoSweep
    <3>2. sweep'[p].op = Nil /\ sweep'[p].todo = Pending
      BY <2>3, <3>1 DEF Tick, TypeOK, Sweep
    <3> QED
      BY <2>1, <3>1, <3>2 DEF Nearness
  <2>4. CASE p = q /\ ListContainers(p)
    <3>1. /\ sweep[p].op # Nil /\ sweep[p].step = "containers"
          /\ Proceed(p, sweep[p].op, "row")
      BY <1>0, <2>4 DEF ListContainers, Empty
    <3>2. /\ sweep'[p].op = sweep[p].op /\ sweep'[p].step = "row"
          /\ sweep'[p].todo = sweep[p].todo \ {sweep[p].op}
      BY <3>1 DEF Proceed, TypeOK
    <3> QED
      BY <2>1, <3>1, <3>2 DEF Nearness
  <2>5. CASE p = q /\ SweepRow(p)
    <3>1. /\ sweep[p].op # Nil /\ sweep[p].step = "row"
          /\ Proceed(p, sweep[p].op, "mark")
      BY <1>0, <2>5 DEF SweepRow
    <3>2. /\ sweep'[p].op = sweep[p].op /\ sweep'[p].step = "mark"
          /\ sweep'[p].todo = sweep[p].todo \ {sweep[p].op}
      BY <3>1 DEF Proceed, TypeOK
    <3> QED
      BY <2>1, <3>1, <3>2 DEF Nearness
  <2>6. CASE p = q /\ \E i \in Ops : ListMachines(p, i)
    <3>1. PICK i \in Ops : ListMachines(p, i)
      BY <2>6
    <3>2. sweep[p].op = Nil /\ Proceed(p, i, "containers")
      BY <1>0, <3>1 DEF ListMachines, Machines, Empty
    <3>3. /\ sweep'[p].op = i /\ sweep'[p].step = "containers"
          /\ sweep'[p].todo = sweep[p].todo \ {i}
      BY <3>2 DEF Proceed, TypeOK
    <3> QED
      BY <2>1, <3>2, <3>3 DEF Nearness
  <2> QED
    BY <1>11, <2>2, <2>3, <2>4, <2>5, <2>6
<1>12. ASSUME NEW q \in Replicas, MarkDone(q)
       PROVE  operation'[o] # "none" /\ Nearness(o, p) <= Nearness(o, p)'
  <2> DEFINE i == sweep[q].op
  <2>1. /\ i \in Ops /\ operation' = [operation EXCEPT ![i] = "done"]
        /\ sweep' = [sweep EXCEPT ![q] = [NoSweep EXCEPT !.todo = sweep[q].todo \ {i}]]
    BY <1>0, <1>12 DEF MarkDone, SkipOperation, TypeOK, Sweep
  <2>2. CASE i = o
    BY <1>2, <2>1, <2>2 DEF TypeOK
  <2>3. CASE i # o
    <3>1. operation'[o] = operation[o]
      BY <2>1, <2>3 DEF TypeOK
    <3>2. CASE p # q
      BY <1>1, <2>1, <3>1, <3>2 DEF TypeOK
    <3>3. CASE p = q
      <4>1. sweep'[p].op = Nil /\ sweep'[p].todo = sweep[p].todo \ {i}
        BY <2>1, <3>3 DEF TypeOK, NoSweep
      <4> QED
        BY <2>3, <3>1, <3>3, <4>1 DEF Nearness
    <3> QED
      BY <3>2, <3>3
  <2> QED
    BY <2>2, <2>3
<1>13. CASE Crash
  BY <1>0, <1>13 DEF Crash
<1> QED
  BY KindsFact, <1>3, <1>4, <1>5, <1>6, <1>7, <1>8, <1>9, <1>10, <1>11, <1>12, <1>13 DEF Next

(* The part of EmptyIsSettled that is safety: while no call fails and      *)
(* there is neither a machine nor a container row, every compute replica   *)
(* only gets nearer to settling a deletion that was left pending: no other *)
(* operation of the pass, replica or request takes it back, nor makes it   *)
(* pending again. What the property adds is that the passes go on.         *)
THEOREM PassesMoveOn ==
  Spec => [][\A o \in Ops, p \in Replicas :
               operation[o] # "none" /\ Empty /\ faults' = faults
                 => operation'[o] # "none" /\ Nearness(o, p) <= Nearness(o, p)']_vars
<1>1. TypeOK /\ OwnOperation /\ [Next]_vars =>
        [\A o \in Ops, p \in Replicas :
           operation[o] # "none" /\ Empty /\ faults' = faults
             => operation'[o] # "none" /\ Nearness(o, p) <= Nearness(o, p)']_vars
  BY NearnessStep
<1> QED
  BY <1>1, TypeCorrect, InvariantlyOwned, PTL DEF Spec
==============================================================================
