----------------------- MODULE ContainerServiceProofs -----------------------
(***************************************************************************)
(* Proofs about ContainerService, for any number of names, domains,        *)
(* operations, requests and replicas and any budget of faults.             *)
(***************************************************************************)
EXTENDS ContainerService, TLAPS

Steps == DeploySteps \union DeleteSteps \union DomainSteps

(* What the helpers for going on and ending leave behind.                  *)
BooksOK ==
  /\ call \in [Calls -> Call]
  /\ faults \in 0..MaxFaults
  /\ torn \subseteq Names /\ astray \subseteq Domains

LEMMA BlankType == NoCall \in Call
  BY DEF NoCall, Call

LEMMA FaultType ==
  ASSUME faults \in 0..MaxFaults, Fault
  PROVE  faults' \in 0..MaxFaults
  BY FaultsAssumption DEF Fault

LEMMA StepType ==
  ASSUME call \in [Calls -> Call], NEW c \in Calls, NEW step \in Steps
  PROVE  /\ [call EXCEPT ![c].pc = step] \in [Calls -> Call]
         /\ [call EXCEPT ![c].pc = step, ![c].clean = FALSE] \in [Calls -> Call]
         /\ \A d \in Domains \union {Nil} :
              [call EXCEPT ![c].domain = d, ![c].pc = step] \in [Calls -> Call]
  BY DEF Call, Steps

(* Requests that end have the name of a service.                           *)
LEMMA SpoilType ==
  ASSUME torn \subseteq Names, astray \subseteq Domains, NEW C \in SUBSET Calls,
         \A c \in C : call[c].name \in Names,
         Spoil(C)
  PROVE  torn' \subseteq Names /\ astray' \subseteq Domains
  BY DEF Spoil, Reach

(* Idle calls are at no replica, the others have a name, and a deletion    *)
(* has an operation.                                                       *)
Named ==
  \A c \in Calls :
    /\ call[c].pc = "idle" => call[c].at = Nil
    /\ call[c].pc # "idle" => call[c].name \in Names
    /\ call[c].pc \in DeleteSteps => call[c].op \in Ops

LEMMA GoOnType ==
  ASSUME BooksOK, Named, NEW c \in Calls, call[c].pc # "idle",
         NEW step \in Steps,
         Continue(c, step) \/ Stumble(c, step) \/ Fail(c)
  PROVE  BooksOK'
<1> USE DEF BooksOK
<1>1. CASE Continue(c, step)
  BY <1>1, StepType DEF Continue
<1>2. CASE Stumble(c, step)
  BY <1>2, StepType, FaultType DEF Stumble
<1>3. CASE Fail(c)
  <2>1. torn' \subseteq Names /\ astray' \subseteq Domains
    BY <1>3, SpoilType DEF Fail, Named
  <2> QED
    BY <1>3, <2>1, BlankType, FaultType DEF Fail
<1> QED
  BY <1>1, <1>2, <1>3

LEMMA FinishType ==
  ASSUME BooksOK, Named, NEW c \in Calls, call[c].pc # "idle",
         NEW healed, NEW left \in SUBSET Domains,
         Finish(c, healed, left),
         UNCHANGED faults \/ Fault
  PROVE  BooksOK'
<1> USE DEF BooksOK
<1>1. torn' \subseteq Names /\ astray' \subseteq Domains
  BY SpoilType DEF Finish, Named
<1> QED
  BY <1>1, BlankType, FaultType DEF Finish

(* A request that begins marks those it overlaps with.                     *)
LEMMA BeginType ==
  ASSUME call \in [Calls -> Call], NEW c \in Calls, NEW k \in Call, Begin(c, k)
  PROVE  call' \in [Calls -> Call]
<1>1. Resting(k.name) \in BOOLEAN
  BY DEF Resting
<1>2. [k EXCEPT !.clean = Resting(k.name)] \in Call
  BY <1>1 DEF Call
<1>3. \A d \in Calls : [call[d] EXCEPT !.clean = FALSE] \in Call
  BY DEF Call
<1> QED
  BY <1>2, <1>3 DEF Begin

LEMMA BeginNamed ==
  ASSUME Named, NEW c \in Calls, NEW k \in Call, Begin(c, k),
         k.pc # "idle", k.name \in Names, k.pc \in DeleteSteps => k.op \in Ops,
         call \in [Calls -> Call]
  PROVE  Named'
  BY DEF Begin, Named, Call

LEMMA StepsFact == "idle" \notin Steps
  BY DEF Steps, DeploySteps, DeleteSteps, DomainSteps

LEMMA GoOnNamed ==
  ASSUME Named, call \in [Calls -> Call], NEW c \in Calls, call[c].pc # "idle",
         \/ \E step \in Steps :
              /\ step \in DeleteSteps => call[c].pc \in DeleteSteps
              /\ Continue(c, step) \/ Stumble(c, step)
         \/ Fail(c)
         \/ \E h, l : Finish(c, h, l)
  PROVE  Named'
<1>1. ASSUME call' = [call EXCEPT ![c] = NoCall] PROVE Named'
  BY <1>1 DEF Named, NoCall, DeleteSteps
<1>2. ASSUME NEW step \in Steps, Continue(c, step),
             step \in DeleteSteps => call[c].pc \in DeleteSteps
      PROVE  Named'
  BY <1>2, StepsFact DEF Named, Continue, Call
<1>3. ASSUME NEW step \in Steps, Stumble(c, step),
             step \in DeleteSteps => call[c].pc \in DeleteSteps
      PROVE  Named'
  BY <1>3, StepsFact DEF Named, Stumble, Call
<1> QED
  BY <1>1, <1>2, <1>3 DEF Fail, Finish

Typed == TypeOK /\ Named

LEMMA DeployTyped ==
  ASSUME Typed, NEW c \in Calls, NEW n \in Names, NEW s \in Specs, NEW p \in Replicas,
         Deploy(c, n, s, p)
  PROVE  Typed'
<1> DEFINE k == [NoCall EXCEPT !.pc = "patch", !.name = n, !.spec = s, !.at = p]
<1>1. k \in Call /\ k.name = n /\ k.pc # "idle" /\ k.pc \notin DeleteSteps
  BY DEF NoCall, Call, DeploySteps, DeleteSteps
<1>2. Begin(c, k)
  BY DEF Deploy
<1> HIDE DEF k
<1>3. call' \in [Calls -> Call] /\ Named'
  BY <1>1, <1>2, BeginType, BeginNamed DEF Typed, TypeOK
<1> QED
  BY <1>3 DEF Typed, TypeOK, Deploy, Begin, cluster, mappings, tables

LEMMA DeleteTyped ==
  ASSUME Typed, NEW c \in Calls, NEW n \in Names, NEW o \in Ops, NEW p \in Replicas,
         DeleteService(c, n, o, p)
  PROVE  Typed'
<1> DEFINE k == [NoCall EXCEPT !.pc = "create", !.name = n, !.op = o, !.at = p]
<1>1. k \in Call /\ k.name = n /\ k.pc # "idle" /\ k.op = o
  BY DEF NoCall, Call, DeleteSteps
<1>2. Begin(c, k)
  BY DEF DeleteService
<1> HIDE DEF k
<1>3. call' \in [Calls -> Call] /\ Named'
  BY <1>1, <1>2, BeginType, BeginNamed DEF Typed, TypeOK
<1> QED
  BY <1>3 DEF Typed, TypeOK, DeleteService, Begin, cluster, mappings, tables

LEMMA SetDomainTyped ==
  ASSUME Typed, NEW c \in Calls, NEW n \in Names, NEW d \in Domains \union {Nil},
         NEW p \in Replicas, SetServiceDomain(c, n, d, p)
  PROVE  Typed'
<1> DEFINE k == [NoCall EXCEPT !.pc = "look", !.name = n, !.domain = d, !.at = p]
<1>1. k \in Call /\ k.name = n /\ k.pc # "idle" /\ k.pc \notin DeleteSteps
  BY DEF NoCall, Call, DomainSteps, DeleteSteps
<1>2. Begin(c, k)
  BY DEF SetServiceDomain
<1> HIDE DEF k
<1>3. call' \in [Calls -> Call] /\ Named'
  BY <1>1, <1>2, BeginType, BeginNamed DEF Typed, TypeOK
<1>4. astray' \subseteq Domains
  BY DEF Typed, TypeOK, SetServiceDomain
<1> QED
  BY <1>3, <1>4 DEF Typed, TypeOK, SetServiceDomain, Begin, cluster, mappings, tables

(* What a step of a request does to the calls and the histories, and what  *)
(* is left to show of it.                                                  *)
LEMMA TypedAfter ==
  ASSUME Typed, BooksOK', Named',
         project' \in BOOLEAN,
         knative' \in [Names -> Specs \union {Nil}], taken' \subseteq Names,
         mapping' \in [Domains -> Names \union {Nil}],
         row' \in [Names -> Row], operation' \in [Ops -> Operation],
         gone' \subseteq Ops, lost' \subseteq Ops
  PROVE  Typed'
  BY DEF Typed, TypeOK, BooksOK

LEMMA RowType ==
  ASSUME row \in [Names -> Row], NEW n, NEW s \in Specs \union {Nil},
         NEW d \in Domains \union {Nil}
  PROVE  /\ NoRow \in Row
         /\ [row EXCEPT ![n].spec = s] \in [Names -> Row]
         /\ [row EXCEPT ![n].domain = d] \in [Names -> Row]
         /\ [row EXCEPT ![n] = NoRow] \in [Names -> Row]
  BY DEF NoRow, Row

LEMMA InNext ==
  ASSUME Typed
  PROVE  BooksOK /\ Named /\ \A c \in Calls : call[c] \in Call
  BY DEF Typed, TypeOK, BooksOK

LEMMA RequestTyped ==
  ASSUME Typed, NEW c \in Calls,
         \/ PatchService(c) \/ MapDefault(c) \/ UpsertContainer(c)
         \/ LookUp(c) \/ ApplyDomain(c) \/ RemoveDomain(c)
         \/ UpdateContainerDomain(c)
  PROVE  Typed'
<1>1. BooksOK /\ Named /\ call[c] \in Call
  BY InNext
<1>2. \A s \in {"map", "upsert", "apply", "note", "remove"} :
        s \in Steps /\ s \notin DeleteSteps
  BY DEF Steps, DeploySteps, DomainSteps, DeleteSteps
<1> USE DEF Typed, TypeOK
<1>3. CASE PatchService(c)
  <2>1. BooksOK' /\ Named'
    BY <1>1, <1>2, <1>3, GoOnType, GoOnNamed DEF PatchService
  <2>2. knative' \in [Names -> Specs \union {Nil}]
    BY <1>1, <1>3 DEF PatchService, Call
  <2> QED
    BY <1>3, <2>1, <2>2, TypedAfter DEF PatchService, tables, mappings
<1>4. CASE MapDefault(c)
  <2>1. BooksOK' /\ Named'
    BY <1>1, <1>2, <1>4, GoOnType, GoOnNamed DEF MapDefault
  <2>2. taken' \subseteq Names /\ mapping' \in [Domains -> Names \union {Nil}]
    BY <1>1, <1>4 DEF MapDefault, Named
  <2> QED
    BY <1>4, <2>1, <2>2, TypedAfter DEF MapDefault, tables
<1>5. CASE UpsertContainer(c)
  <2>1. call[c].pc # "idle"
    BY <1>5 DEF UpsertContainer
  <2>2. BooksOK' /\ Named'
    <3>1. CASE Finish(c, {call[c].name}, {}) /\ UNCHANGED faults
      BY <1>1, <2>1, <3>1, FinishType, GoOnNamed
    <3>2. CASE Fail(c)
      BY <1>1, <1>2, <2>1, <3>2, GoOnType, GoOnNamed
    <3>3. CASE call' = [call EXCEPT ![c] = NoCall] /\ Spoil({c}) /\ UNCHANGED faults
      <4>1. torn' \subseteq Names /\ astray' \subseteq Domains
        BY <1>1, <2>1, <3>3, SpoilType DEF Named
      <4>2. Named'
        BY <1>1, <3>3 DEF Named, NoCall, BooksOK, DeleteSteps
      <4> QED
        BY <3>3, <4>1, <4>2, BlankType DEF BooksOK
    <3> QED
      BY <1>5, <3>1, <3>2, <3>3 DEF UpsertContainer
  <2>3. row' \in [Names -> Row]
    <3>1. call[c].spec \in Specs \union {Nil}
      BY <1>1 DEF Call
    <3>2. Upserted(call[c].name, call[c].spec) \in [Names -> Row]
      BY <3>1, RowType DEF Upserted
    <3> QED
      BY <1>5, <3>2 DEF UpsertContainer
  <2> QED
    BY <1>5, <2>2, <2>3, TypedAfter DEF UpsertContainer, cluster, mappings
<1>6. CASE LookUp(c)
  <2>1. call[c].pc # "idle"
    BY <1>6 DEF LookUp
  <2>2. BooksOK' /\ Named'
    <3>1. CASE Continue(c, "apply")
      BY <1>1, <1>2, <2>1, <3>1, GoOnType, GoOnNamed
    <3>2. CASE Finish(c, {}, {}) /\ (UNCHANGED faults \/ Fault)
      BY <1>1, <2>1, <3>2, FinishType, GoOnNamed
    <3>3. ASSUME NEW step \in {"note", "remove"},
                 call' = [call EXCEPT ![c].domain = row[call[c].name].domain,
                                      ![c].pc = step],
                 UNCHANGED <<faults, torn, astray>>
          PROVE  BooksOK' /\ Named'
      <4>1. row[call[c].name].domain \in Domains \union {Nil}
        BY <1>1, <2>1 DEF Named, Row
      <4>2. call' \in [Calls -> Call]
        BY <1>2, <3>3, <4>1, StepType
      <4>3. Named'
        BY <1>1, <1>2, <2>1, <3>3 DEF Named, Call
      <4> QED
        BY <3>3, <4>2, <4>3 DEF BooksOK
    <3> QED
      BY <1>6, <3>1, <3>2, <3>3 DEF LookUp
  <2> QED
    BY <1>6, <2>2, TypedAfter DEF LookUp, cluster, mappings, tables
<1>7. CASE ApplyDomain(c)
  <2>1. BooksOK' /\ Named'
    BY <1>1, <1>2, <1>7, GoOnType, GoOnNamed DEF ApplyDomain
  <2>2. taken' \subseteq Names /\ mapping' \in [Domains -> Names \union {Nil}]
    BY <1>1, <1>7 DEF ApplyDomain, HostOf, Named
  <2> QED
    BY <1>7, <2>1, <2>2, TypedAfter DEF ApplyDomain, tables
<1>8. CASE RemoveDomain(c)
  <2>1. call[c].pc # "idle"
    BY <1>8 DEF RemoveDomain
  <2>2. BooksOK' /\ Named'
    <3>1. CASE Fail(c)
      BY <1>1, <1>2, <2>1, <3>1, GoOnType, GoOnNamed
    <3>2. CASE /\ call' = [call EXCEPT ![c].domain = Nil, ![c].pc = "note"]
               /\ UNCHANGED <<faults, torn, astray>>
      <4>1. call' \in [Calls -> Call]
        BY <1>2, <3>2, StepType
      <4>2. Named'
        BY <1>1, <1>2, <2>1, <3>2 DEF Named, Call
      <4> QED
        BY <3>2, <4>1, <4>2 DEF BooksOK
    <3> QED
      BY <1>8, <3>1, <3>2 DEF RemoveDomain
  <2>3. taken' \subseteq Names /\ mapping' \in [Domains -> Names \union {Nil}]
    BY <1>8 DEF RemoveDomain, HostOf
  <2> QED
    BY <1>8, <2>2, <2>3, TypedAfter DEF RemoveDomain, tables
<1>9. CASE UpdateContainerDomain(c)
  <2>1. call[c].pc # "idle"
    BY <1>9 DEF UpdateContainerDomain
  <2>2. BooksOK' /\ Named'
    <3>1. ({row[call[c].name].domain} \ {call[c].domain, Nil}) \in SUBSET Domains
      BY <1>1, <2>1 DEF Named, Row
    <3>2. CASE Fail(c)
      BY <1>1, <1>2, <2>1, <3>2, GoOnType, GoOnNamed
    <3>3. ASSUME NEW left \in SUBSET Domains, Finish(c, {}, left), UNCHANGED faults
          PROVE  BooksOK' /\ Named'
      BY <1>1, <2>1, <3>3, FinishType, GoOnNamed
    <3> QED
      BY <1>9, <3>1, <3>2, <3>3 DEF UpdateContainerDomain
  <2>3. row' \in [Names -> Row]
    <3>1. call[c].domain \in Domains \union {Nil}
      BY <1>1 DEF Call
    <3>2. [row EXCEPT ![call[c].name].domain = call[c].domain] \in [Names -> Row]
      BY <3>1, RowType
    <3> QED
      BY <1>9, <3>2 DEF UpdateContainerDomain
  <2> QED
    BY <1>9, <2>2, <2>3, TypedAfter DEF UpdateContainerDomain, cluster, mappings
<1> QED
  BY <1>3, <1>4, <1>5, <1>6, <1>7, <1>8, <1>9

LEMMA DeletionTyped ==
  ASSUME Typed, NEW c \in Calls,
         \/ CreateOperation(c) \/ ReadDomain(c) \/ UnmapCustom(c) \/ UnmapDefault(c)
         \/ DeleteKnative(c) \/ DeleteContainer(c) \/ UpdateOperation(c)
  PROVE  Typed'
<1>1. BooksOK /\ Named /\ call[c] \in Call
  BY InNext
<1>2. {"read", "unmap", "unmapDefault", "delete", "forget", "reportDone", "reportError"}
        \subseteq Steps
  BY DEF Steps, DeleteSteps
<1>3. call[c].pc # "idle" /\ call[c].pc \in DeleteSteps
  BY DEF CreateOperation, ReadDomain, UnmapCustom, UnmapDefault, DeleteKnative,
     DeleteContainer, UpdateOperation, DeleteSteps
<1>4. call[c].op \in Ops /\ call[c].name \in Names
  BY <1>1, <1>3 DEF Named
<1> USE DEF Typed, TypeOK
<1>5. CASE CreateOperation(c)
  <2>1. BooksOK' /\ Named'
    <3>1. CASE Continue(c, "read")
      BY <1>1, <1>2, <1>3, <3>1, GoOnType, GoOnNamed
    <3>2. CASE Finish(c, {}, {}) /\ Fault
      BY <1>1, <1>3, <3>2, FinishType, GoOnNamed
    <3> QED
      BY <1>5, <3>1, <3>2 DEF CreateOperation
  <2>2. operation' \in [Ops -> Operation]
    BY <1>4, <1>5 DEF CreateOperation, Operation
  <2>3. gone' \subseteq Ops
    BY <1>4, <1>5 DEF CreateOperation
  <2> QED
    BY <1>5, <2>1, <2>2, <2>3, TypedAfter DEF CreateOperation, cluster, mappings
<1>6. CASE ReadDomain(c)
  <2>1. BooksOK' /\ Named'
    <3>1. CASE Stumble(c, "unmapDefault")
      BY <1>1, <1>2, <1>3, <3>1, GoOnType, GoOnNamed
    <3>2. ASSUME NEW step \in {"unmap", "unmapDefault"},
                 call' = [call EXCEPT ![c].domain = row[call[c].name].domain,
                                      ![c].pc = step],
                 UNCHANGED <<faults, torn, astray>>
          PROVE  BooksOK' /\ Named'
      <4>1. row[call[c].name].domain \in Domains \union {Nil}
        BY <1>4 DEF Row
      <4>2. call' \in [Calls -> Call]
        BY <1>2, <3>2, <4>1, StepType
      <4>3. Named'
        BY <1>1, <1>2, <1>4, <3>2 DEF Named, Call
      <4> QED
        BY <3>2, <4>2, <4>3 DEF BooksOK
    <3> QED
      BY <1>6, <3>1, <3>2 DEF ReadDomain
  <2> QED
    BY <1>6, <2>1, TypedAfter DEF ReadDomain, cluster, mappings, tables
<1>7. CASE UnmapCustom(c)
  <2>1. BooksOK' /\ Named'
    BY <1>1, <1>2, <1>3, <1>7, GoOnType, GoOnNamed DEF UnmapCustom
  <2> QED
    BY <1>7, <2>1, TypedAfter DEF UnmapCustom, HostOf, tables
<1>8. CASE UnmapDefault(c)
  <2>1. BooksOK' /\ Named'
    BY <1>1, <1>2, <1>3, <1>8, GoOnType, GoOnNamed DEF UnmapDefault
  <2> QED
    BY <1>8, <2>1, TypedAfter DEF UnmapDefault, tables
<1>9. CASE DeleteKnative(c)
  <2>1. BooksOK' /\ Named'
    BY <1>1, <1>2, <1>3, <1>9, GoOnType, GoOnNamed DEF DeleteKnative
  <2>2. gone' \subseteq Ops /\ knative' \in [Names -> Specs \union {Nil}]
    BY <1>9 DEF DeleteKnative, Removed
  <2> QED
    BY <1>9, <2>1, <2>2, TypedAfter DEF DeleteKnative, tables, mappings
<1>10. CASE DeleteContainer(c)
  <2>1. BooksOK' /\ Named'
    BY <1>1, <1>2, <1>3, <1>10, GoOnType, GoOnNamed DEF DeleteContainer
  <2>2. row' \in [Names -> Row]
    BY <1>10, RowType DEF DeleteContainer
  <2> QED
    BY <1>10, <2>1, <2>2, TypedAfter DEF DeleteContainer, cluster, mappings
<1>11. CASE UpdateOperation(c)
  <2>1. BooksOK' /\ Named'
    <3>1. Finish(c, {call[c].name}, {}) /\ (UNCHANGED faults \/ Fault)
      BY <1>11 DEF UpdateOperation
    <3> QED
      BY <1>1, <1>3, <3>1, FinishType, GoOnNamed
  <2>2. operation' \in [Ops -> Operation] /\ lost' \subseteq Ops
    BY <1>4, <1>11 DEF UpdateOperation, Answer, Operation
  <2> QED
    BY <1>11, <2>1, <2>2, TypedAfter DEF UpdateOperation, cluster, mappings
<1> QED
  BY <1>5, <1>6, <1>7, <1>8, <1>9, <1>10, <1>11

LEMMA EnvironmentTyped ==
  ASSUME Typed, (\E p \in Replicas : Crash(p)) \/ DropProject
  PROVE  Typed'
<1>1. BooksOK /\ Named
  BY InNext
<1> USE DEF Typed, TypeOK
<1>2. ASSUME NEW p \in Replicas, Crash(p) PROVE Typed'
  <2>1. \A c \in CallsAt(p) : c \in Calls /\ call[c].name \in Names
    BY <1>1, NilAssumption DEF CallsAt, Named
  <2>2. torn' \subseteq Names /\ astray' \subseteq Domains
    BY <1>2, <2>1, SpoilType DEF Crash
  <2>3. call' \in [Calls -> Call]
    BY <1>2, BlankType DEF Crash
  <2>4. Named'
    BY <1>1, <1>2 DEF Crash, Named, NoCall, DeleteSteps
  <2>5. lost' \subseteq Ops
    BY <1>2 DEF Crash
  <2> QED
    BY <1>2, <2>2, <2>3, <2>4, <2>5, FaultType DEF Crash, cluster, mappings, tables
<1>3. CASE DropProject
  BY <1>3, RowType DEF DropProject, cluster, mappings, history, Named
<1> QED
  BY <1>2, <1>3

LEMMA TypedStep ==
  ASSUME Typed, [Next]_vars
  PROVE  Typed'
<1>1. CASE UNCHANGED vars
  BY <1>1 DEF Typed, TypeOK, Named, vars, cluster, mappings, tables, history
<1> QED
  BY <1>1, DeployTyped, DeleteTyped, SetDomainTyped, RequestTyped, DeletionTyped,
     EnvironmentTyped, AskedAssumption
  DEF Next

LEMMA InvariantlyTyped == Spec => []Typed
<1>1. Init => Typed
  <2> SUFFICES ASSUME Init PROVE Typed
    OBVIOUS
  <2>1. NoRow \in Row /\ NoOperation \in Operation
    BY DEF NoRow, Row, NoOperation, Operation
  <2>2. Named
    BY DEF Init, Named, NoCall, DeleteSteps
  <2>3. faults \in 0..MaxFaults
    BY FaultsAssumption DEF Init
  <2> QED
    BY <2>1, <2>2, <2>3, BlankType DEF Init, Typed, TypeOK
<1> QED
  BY <1>1, TypedStep, PTL DEF Spec

(* Every variable keeps its type along every behaviour of the service.     *)
THEOREM TypeCorrect == Spec => []TypeOK
<1>1. Typed => TypeOK
  BY DEF Typed
<1> QED
  BY <1>1, InvariantlyTyped, PTL
-----------------------------------------------------------------------------
(* Rows and their project: the steps that write a row check for one, or    *)
(* leave what is deployed under each name as it is.                        *)
LEMMA RowsStep ==
  ASSUME Typed, RowsNeedProject, [Next]_vars
  PROVE  RowsNeedProject'
<1> USE DEF Typed, TypeOK, RowsNeedProject, HasRow
<1>1. ASSUME UNCHANGED <<project, row>> PROVE RowsNeedProject'
  BY <1>1
<1>2. ASSUME NEW c \in Calls, NEW n \in Names, NEW p \in Replicas,
             \/ \E s \in Specs : Deploy(c, n, s, p)
             \/ \E o \in Ops : DeleteService(c, n, o, p)
             \/ \E d \in Domains \union {Nil} : SetServiceDomain(c, n, d, p)
      PROVE  RowsNeedProject'
  BY <1>1, <1>2 DEF Deploy, DeleteService, SetServiceDomain, Begin, tables
<1>3. ASSUME NEW c \in Calls,
             \/ PatchService(c) \/ MapDefault(c) \/ CreateOperation(c) \/ ReadDomain(c)
             \/ UnmapCustom(c) \/ UnmapDefault(c) \/ DeleteKnative(c)
             \/ UpdateOperation(c) \/ LookUp(c) \/ ApplyDomain(c) \/ RemoveDomain(c)
      PROVE  UNCHANGED <<project, row>>
  BY <1>3 DEF PatchService, MapDefault, CreateOperation, ReadDomain, UnmapCustom,
     UnmapDefault, DeleteKnative, UpdateOperation, LookUp, ApplyDomain, RemoveDomain,
     tables
<1>4. ASSUME NEW c \in Calls, UpsertContainer(c) PROVE RowsNeedProject'
  BY <1>4 DEF UpsertContainer
<1>5. ASSUME NEW c \in Calls, DeleteContainer(c) PROVE RowsNeedProject'
  BY <1>5 DEF DeleteContainer, NoRow
<1>6. ASSUME NEW c \in Calls, UpdateContainerDomain(c) PROVE RowsNeedProject'
  <2>1. \A n \in Names : row'[n].spec = row[n].spec
    BY <1>6 DEF UpdateContainerDomain, Row
  <2> QED
    BY <1>6, <2>1 DEF UpdateContainerDomain
<1>7. CASE DropProject
  BY <1>7 DEF DropProject, NoRow
<1>8. ASSUME NEW p \in Replicas, Crash(p) PROVE RowsNeedProject'
  BY <1>1, <1>8 DEF Crash, tables
<1>9. CASE UNCHANGED vars
  BY <1>1, <1>9 DEF vars, tables
<1> QED
  BY <1>1, <1>2, <1>3, <1>4, <1>5, <1>6, <1>7, <1>8, <1>9, AskedAssumption
  DEF Next

(* No row outlives its project, not even one that a deployment in flight   *)
(* is about to write when the project is deleted.                          *)
THEOREM NoOrphanRows == Spec => []RowsNeedProject
<1>1. Init => RowsNeedProject
  BY DEF Init, RowsNeedProject
<1> QED
  BY <1>1, InvariantlyTyped, RowsStep, PTL DEF Spec

-----------------------------------------------------------------------------
(* Deletions and their operations. A request has its operation to itself;  *)
(* the row names what the request deletes; and past the DELETE the service *)
(* has been absent.                                                        *)
Alone ==
  \A c, d \in Calls : call[c].op = call[d].op /\ call[c].op # Nil => c = d

Attended ==
  \A c \in Calls :
    /\ call[c].pc \in DeleteSteps \ {"create"}
         => operation[call[c].op].target = call[c].name
    /\ call[c].pc \in {"forget", "reportDone"} => call[c].op \in gone

Honest == DoneMeansGone /\ Alone /\ Attended

(* The calls before and after a step of call c: the others stay as they    *)
(* are, c keeps its operation and its name or is over.                     *)
Moves(c, steps) ==
  /\ \A d \in Calls \ {c} : call'[d] = call[d]
  /\ \/ call'[c] = NoCall
     \/ /\ call'[c].op = call[c].op /\ call'[c].name = call[c].name
        /\ call'[c].pc \in steps

LEMMA MovesAlone ==
  ASSUME Alone, NEW c \in Calls, NEW steps, Moves(c, steps)
  PROVE  Alone'
<1>1. \A d \in Calls : call'[d].op \in {call[d].op, Nil}
  BY DEF Moves, NoCall
<1> QED
  BY <1>1 DEF Alone

LEMMA GoOnMoves ==
  ASSUME call \in [Calls -> Call], NEW c \in Calls
  PROVE  /\ \A s \in Steps :
              Continue(c, s) \/ Stumble(c, s) \/ Fail(c) => Moves(c, {s})
         /\ \A h, l : Finish(c, h, l) => Moves(c, {})
         /\ \A s \in Steps : \A d :
              call' = [call EXCEPT ![c].domain = d, ![c].pc = s] => Moves(c, {s})
<1>1. ASSUME NEW s \in Steps, Continue(c, s) PROVE Moves(c, {s})
  BY <1>1 DEF Continue, Moves, Call
<1>2. ASSUME NEW s \in Steps, Stumble(c, s) PROVE Moves(c, {s})
  BY <1>2 DEF Stumble, Moves, Call
<1>3. ASSUME NEW steps, call' = [call EXCEPT ![c] = NoCall] PROVE Moves(c, steps)
  BY <1>3 DEF Moves
<1>4. ASSUME NEW s \in Steps, NEW d,
             call' = [call EXCEPT ![c].domain = d, ![c].pc = s]
      PROVE  Moves(c, {s})
  BY <1>4 DEF Moves, Call
<1> QED
  BY <1>1, <1>2, <1>3, <1>4 DEF Fail, Finish

(* A request that begins, with an operation nobody has or with none.       *)
LEMMA BeginHonest ==
  ASSUME Typed, Honest, NEW c \in Calls, NEW k \in Call, Begin(c, k),
         k.op = Nil \/ Unused(k.op),
         k.pc \notin DeleteSteps \ {"create"},
         UNCHANGED gone
  PROVE  Honest'
<1> USE DEF Typed, TypeOK
<1>1. UNCHANGED operation
  BY DEF Begin, tables
<1>2. call'[c].op = k.op /\ call'[c].pc = k.pc /\ call'[c].name = k.name
  BY DEF Begin, Call
<1>3. \A d \in Calls \ {c} : /\ call'[d].op = call[d].op /\ call'[d].pc = call[d].pc
                             /\ call'[d].name = call[d].name
  BY DEF Begin, Call
<1>4. Alone'
  BY <1>2, <1>3 DEF Honest, Alone, Unused
<1>5. Attended'
  BY <1>1, <1>2, <1>3 DEF Honest, Attended, DeleteSteps
<1> QED
  BY <1>1, <1>4, <1>5 DEF Honest, DoneMeansGone

(* A request on something else leaves deletions alone.                     *)
LEMMA MovesHonest ==
  ASSUME Typed, Honest, NEW c \in Calls, NEW steps, Moves(c, steps),
         steps \intersect DeleteSteps = {},
         UNCHANGED <<operation, gone>>
  PROVE  Honest'
<1>1. Attended'
  BY DEF Honest, Attended, Moves, NoCall, DeleteSteps
<1> QED
  BY <1>1, MovesAlone DEF Honest, DoneMeansGone

LEMMA RequestHonest ==
  ASSUME Typed, Honest, NEW c \in Calls,
         \/ PatchService(c) \/ MapDefault(c) \/ UpsertContainer(c)
         \/ LookUp(c) \/ ApplyDomain(c) \/ RemoveDomain(c)
         \/ UpdateContainerDomain(c)
  PROVE  Honest'
<1>1. \A s \in {"map", "upsert", "apply", "note", "remove"} :
        s \in Steps /\ {s} \intersect DeleteSteps = {}
  BY DEF Steps, DeploySteps, DomainSteps, DeleteSteps
<1>2. call \in [Calls -> Call]
  BY DEF Typed, TypeOK
<1>3. UNCHANGED <<operation, gone>>
  BY DEF PatchService, MapDefault, UpsertContainer, LookUp, ApplyDomain,
     RemoveDomain, UpdateContainerDomain, tables
<1>4. CASE PatchService(c)
  BY <1>1, <1>2, <1>3, <1>4, GoOnMoves, MovesHonest DEF PatchService
<1>5. CASE MapDefault(c)
  BY <1>1, <1>2, <1>3, <1>5, GoOnMoves, MovesHonest DEF MapDefault
<1>6. CASE UpsertContainer(c)
  <2>1. call' = [call EXCEPT ![c] = NoCall]
    BY <1>6 DEF UpsertContainer, Finish, Fail
  <2>2. Moves(c, {})
    BY <1>2, <2>1 DEF Moves
  <2> QED
    BY <1>3, <2>2, MovesHonest
<1>7. CASE LookUp(c)
  BY <1>1, <1>2, <1>3, <1>7, GoOnMoves, MovesHonest DEF LookUp
<1>8. CASE ApplyDomain(c)
  BY <1>1, <1>2, <1>3, <1>8, GoOnMoves, MovesHonest DEF ApplyDomain
<1>9. CASE RemoveDomain(c)
  BY <1>1, <1>2, <1>3, <1>9, GoOnMoves, MovesHonest DEF RemoveDomain
<1>10. CASE UpdateContainerDomain(c)
  <2>1. call' = [call EXCEPT ![c] = NoCall]
    BY <1>10 DEF UpdateContainerDomain, Finish, Fail
  <2>2. Moves(c, {})
    BY <1>2, <2>1 DEF Moves
  <2> QED
    BY <1>3, <2>2, MovesHonest
<1> QED
  BY <1>4, <1>5, <1>6, <1>7, <1>8, <1>9, <1>10

(* The steps of a deletion that neither answer nor remove the service.     *)
LEMMA PassOnHonest ==
  ASSUME Typed, Honest, NEW c \in Calls, NEW steps, Moves(c, steps),
         call[c].pc \in DeleteSteps \ {"create"},
         steps \subseteq DeleteSteps \ {"create", "forget"},
         "reportDone" \in steps => call[c].pc = "forget",
         UNCHANGED <<operation, gone>>
  PROVE  Honest'
<1>1. Attended'
  BY DEF Honest, Attended, Moves, NoCall, DeleteSteps
<1> QED
  BY <1>1, MovesAlone DEF Honest, DoneMeansGone

LEMMA DeletionHonest ==
  ASSUME Typed, Honest, NEW c \in Calls,
         \/ CreateOperation(c) \/ ReadDomain(c) \/ UnmapCustom(c) \/ UnmapDefault(c)
         \/ DeleteKnative(c) \/ DeleteContainer(c) \/ UpdateOperation(c)
  PROVE  Honest'
<1>1. \A s \in {"read", "unmap", "unmapDefault", "delete", "forget", "reportDone",
               "reportError"} : s \in Steps /\ s \in DeleteSteps
  BY DEF Steps, DeleteSteps
<1>2. call \in [Calls -> Call] /\ operation \in [Ops -> Operation]
  BY DEF Typed, TypeOK
<1>3. \A d \in Calls : call[d].pc \in DeleteSteps => call[d].op \in Ops
  BY DEF Typed, Named
<1>4. \A d \in Calls \ {c} : call[c].op \in Ops => call[d].op # call[c].op
  BY NilAssumption DEF Honest, Alone
<1>5. CASE CreateOperation(c)
  <2>1. call[c].pc \in DeleteSteps /\ call[c].op \in Ops
    BY <1>3, <1>5 DEF CreateOperation, DeleteSteps
  <2>2. Moves(c, {"read"})
    <3>1. Continue(c, "read") \/ Finish(c, {}, {})
      BY <1>5 DEF CreateOperation
    <3>2. Moves(c, {}) => Moves(c, {"read"})
      BY DEF Moves
    <3> QED
      BY <1>1, <1>2, <3>1, <3>2, GoOnMoves
  <2>3. gone \subseteq gone'
    BY <1>5 DEF CreateOperation
  <2>4. /\ \A o \in Ops \ {call[c].op} : operation'[o] = operation[o]
        /\ call'[c] # NoCall => operation'[call[c].op].target = call[c].name
        /\ operation'[call[c].op].status = "done" => operation[call[c].op].status = "done"
    <3>1. CASE operation' = [operation EXCEPT
                 ![call[c].op] = [status |-> "pending", target |-> call[c].name]]
      BY <1>2, <2>1, <3>1
    <3>2. CASE UNCHANGED operation /\ call' = [call EXCEPT ![c] = NoCall]
      BY <1>2, <3>2
    <3> QED
      BY <1>5, <3>1, <3>2 DEF CreateOperation, Finish
  <2>5. \A d \in Calls \ {c} :
          call[d].pc \in DeleteSteps \ {"create"}
            => operation'[call[d].op].target = call[d].name
    BY <1>3, <1>4, <2>1, <2>4 DEF Honest, Attended
  <2>6. Attended'
    <3>1. ASSUME NEW d \in Calls \ {c}
          PROVE  /\ call'[d].pc \in DeleteSteps \ {"create"}
                      => operation'[call'[d].op].target = call'[d].name
                 /\ call'[d].pc \in {"forget", "reportDone"} => call'[d].op \in gone'
      BY <2>2, <2>3, <2>5 DEF Moves, Honest, Attended
    <3>2. /\ call'[c].pc \in DeleteSteps \ {"create"}
               => operation'[call'[c].op].target = call'[c].name
          /\ call'[c].pc \notin {"forget", "reportDone"}
      BY <2>2, <2>4 DEF Moves, NoCall, DeleteSteps
    <3> QED
      BY <3>1, <3>2 DEF Attended
  <2>7. DoneMeansGone'
    BY <2>1, <2>3, <2>4 DEF Honest, DoneMeansGone
  <2> QED
    BY <2>2, <2>6, <2>7, MovesAlone DEF Honest
<1>6. CASE ReadDomain(c)
  <2>1. Moves(c, {"unmap"}) \/ Moves(c, {"unmapDefault"})
    BY <1>1, <1>2, <1>6, GoOnMoves DEF ReadDomain
  <2> QED
    BY <1>1, <1>6, <2>1, PassOnHonest DEF ReadDomain, tables
<1>7. CASE UnmapCustom(c)
  <2>1. Moves(c, {"unmapDefault"})
    BY <1>1, <1>2, <1>7, GoOnMoves DEF UnmapCustom
  <2> QED
    BY <1>1, <1>7, <2>1, PassOnHonest DEF UnmapCustom, tables
<1>8. CASE UnmapDefault(c)
  <2>1. Moves(c, {"delete"})
    BY <1>1, <1>2, <1>8, GoOnMoves DEF UnmapDefault
  <2> QED
    BY <1>1, <1>8, <2>1, PassOnHonest DEF UnmapDefault, tables
<1>9. CASE DeleteKnative(c)
  <2>1. /\ call[c].pc \in DeleteSteps \ {"create"} /\ call[c].op \in Ops
        /\ operation[call[c].op].target = call[c].name
    BY <1>1, <1>3, <1>9 DEF DeleteKnative, Honest, Attended
  <2>2. UNCHANGED operation /\ gone \subseteq gone'
    BY <1>9 DEF DeleteKnative, Removed, tables, mappings
  <2>3. \/ Moves(c, {"forget"}) /\ call[c].op \in gone'
        \/ Moves(c, {"reportError"})
    <3>1. CASE Removed(call[c].name) /\ Continue(c, "forget")
      BY <1>1, <1>2, <2>1, <3>1, GoOnMoves DEF Removed
    <3>2. CASE Stumble(c, "reportError")
      BY <1>1, <1>2, <3>2, GoOnMoves
    <3> QED
      BY <1>9, <3>1, <3>2 DEF DeleteKnative
  <2>4. Attended'
    BY <2>1, <2>2, <2>3 DEF Honest, Attended, Moves, NoCall, DeleteSteps
  <2>5. Alone'
    BY <2>3, MovesAlone DEF Honest
  <2> QED
    BY <2>2, <2>4, <2>5 DEF Honest, DoneMeansGone
<1>10. CASE DeleteContainer(c)
  <2>1. Moves(c, {"reportDone"})
    BY <1>1, <1>2, <1>10, GoOnMoves DEF DeleteContainer
  <2> QED
    BY <1>1, <1>10, <2>1, PassOnHonest DEF DeleteContainer, cluster, mappings
<1>11. CASE UpdateOperation(c)
  <2>1. call[c].op \in Ops /\ Moves(c, {}) /\ UNCHANGED gone
    BY <1>1, <1>2, <1>3, <1>11, GoOnMoves DEF UpdateOperation
  <2>2. /\ \A o \in Ops : operation'[o].target = operation[o].target
        /\ \A o \in Ops \ {call[c].op} : operation'[o] = operation[o]
        /\ \/ operation'[call[c].op].status = operation[call[c].op].status
           \/ operation'[call[c].op].status = Answer(c)
    BY <1>2, <1>11, <2>1 DEF UpdateOperation, Operation
  <2>3. Answer(c) = "done" => call[c].op \in gone
    BY <1>11 DEF UpdateOperation, Answer, Honest, Attended
  <2>4. Attended'
    BY <1>3, <2>1, <2>2 DEF Honest, Attended, Moves, NoCall, DeleteSteps
  <2>5. DoneMeansGone'
    BY <2>1, <2>2, <2>3 DEF Honest, DoneMeansGone
  <2> QED
    BY <2>1, <2>4, <2>5, MovesAlone DEF Honest
<1> QED
  BY <1>5, <1>6, <1>7, <1>8, <1>9, <1>10, <1>11

LEMMA EnvironmentHonest ==
  ASSUME Typed, Honest, (\E p \in Replicas : Crash(p)) \/ DropProject \/ UNCHANGED vars
  PROVE  Honest'
<1>1. UNCHANGED <<operation, gone>>
  BY DEF Crash, DropProject, vars, tables, history
<1>2. \A c \in Calls : call'[c] \in {call[c], NoCall}
  BY DEF Typed, TypeOK, Crash, DropProject, vars
<1>3. Alone'
  BY <1>2 DEF Honest, Alone, NoCall
<1>4. Attended'
  BY <1>1, <1>2 DEF Honest, Attended, NoCall, DeleteSteps
<1> QED
  BY <1>1, <1>3, <1>4 DEF Honest, DoneMeansGone

LEMMA HonestStep ==
  ASSUME Typed, Honest, [Next]_vars
  PROVE  Honest'
<1>1. ASSUME NEW c \in Calls, NEW n \in Names, NEW p \in Replicas,
             NEW s \in Specs, Deploy(c, n, s, p)
      PROVE  Honest'
  <2> DEFINE k == [NoCall EXCEPT !.pc = "patch", !.name = n, !.spec = s, !.at = p]
  <2>1. k \in Call /\ k.op = Nil /\ k.pc \notin DeleteSteps \ {"create"}
    BY DEF NoCall, Call, DeploySteps, DeleteSteps
  <2>2. Begin(c, k) /\ UNCHANGED gone
    BY <1>1 DEF Deploy, Begin
  <2> HIDE DEF k
  <2> QED
    BY <2>1, <2>2, BeginHonest
<1>2. ASSUME NEW c \in Calls, NEW n \in Names, NEW p \in Replicas,
             NEW o \in Ops, DeleteService(c, n, o, p)
      PROVE  Honest'
  <2> DEFINE k == [NoCall EXCEPT !.pc = "create", !.name = n, !.op = o, !.at = p]
  <2>1. k \in Call /\ k.op = o /\ k.pc \notin DeleteSteps \ {"create"}
    BY DEF NoCall, Call, DeleteSteps
  <2>2. Begin(c, k) /\ Unused(o) /\ UNCHANGED gone
    BY <1>2 DEF DeleteService, Begin
  <2> HIDE DEF k
  <2> QED
    BY <2>1, <2>2, BeginHonest
<1>3. ASSUME NEW c \in Calls, NEW n \in Names, NEW p \in Replicas,
             NEW d \in Domains \union {Nil}, SetServiceDomain(c, n, d, p)
      PROVE  Honest'
  <2> DEFINE k == [NoCall EXCEPT !.pc = "look", !.name = n, !.domain = d, !.at = p]
  <2>1. k \in Call /\ k.op = Nil /\ k.pc \notin DeleteSteps \ {"create"}
    BY DEF NoCall, Call, DomainSteps, DeleteSteps
  <2>2. Begin(c, k) /\ UNCHANGED gone
    BY <1>3 DEF SetServiceDomain, Begin
  <2> HIDE DEF k
  <2> QED
    BY <2>1, <2>2, BeginHonest
<1> QED
  BY <1>1, <1>2, <1>3, RequestHonest, DeletionHonest, EnvironmentHonest, AskedAssumption
  DEF Next

LEMMA InvariantlyHonest == Spec => [](Typed /\ Honest)
<1>1. Init => Honest
  <2> SUFFICES ASSUME Init PROVE Honest
    OBVIOUS
  <2>1. DoneMeansGone
    BY DEF Init, DoneMeansGone, NoOperation
  <2>2. Alone /\ Attended
    BY DEF Init, Alone, Attended, NoCall, DeleteSteps
  <2> QED
    BY <2>1, <2>2 DEF Honest
<1> QED
  BY <1>1, InvariantlyTyped, HonestStep, PTL DEF Spec

(* A deletion that reads "done" has seen its service absent, whatever      *)
(* overlaps with it and whatever fails.                                    *)
THEOREM DoneIsTrue == Spec => []DoneMeansGone
<1>1. Honest => DoneMeansGone
  BY DEF Honest
<1> QED
  BY <1>1, InvariantlyHonest, PTL

-----------------------------------------------------------------------------
(* Pending operations and those who are about to answer them. An operation *)
(* names its service from the moment it is recorded, nothing is gone that  *)
(* was not asked for, and only a deletion has an operation, which does not *)
(* exist before the deletion has created it.                               *)
Recorded ==
  /\ \A o \in Ops : \/ operation[o] = NoOperation
                    \/ operation[o].status # "none" /\ operation[o].target \in Names
  /\ \A o \in gone : operation[o] # NoOperation

Held ==
  \A c \in Calls :
    /\ call[c].op # Nil => call[c].pc \in DeleteSteps
    /\ call[c].pc = "create" => operation[call[c].op] = NoOperation

Kept == Recorded /\ Held /\ PendingIsAttended

(* A step of call c that leaves the operations as they are: services may   *)
(* disappear, and c is over only if it has no operation to answer.         *)
Quiet(c) ==
  /\ UNCHANGED <<operation, lost>>
  /\ gone \subseteq gone'
  /\ gone' \subseteq {o \in Ops : operation[o] # NoOperation}
  /\ \A d \in Calls \ {c} : call'[d] = call[d]
  /\ \/ /\ call'[c] = NoCall
        /\ call[c].op = Nil \/ operation[call[c].op] = NoOperation
     \/ /\ call'[c].op = call[c].op
        /\ call'[c].pc # "create"
        /\ call[c].op # Nil => call'[c].pc \in DeleteSteps

LEMMA QuietKept ==
  ASSUME Kept, NEW c \in Calls, Quiet(c)
  PROVE  Kept'
<1>1. Recorded'
  BY DEF Kept, Recorded, Quiet
<1>2. Held'
  BY DEF Kept, Held, Quiet, NoCall
<1>3. PendingIsAttended'
  <2> SUFFICES ASSUME NEW o \in Ops, operation[o].status = "pending", o \notin lost
               PROVE  \E d \in Calls : call'[d].op = o
    BY DEF Quiet, PendingIsAttended
  <2>1. PICK d \in Calls : call[d].op = o
    BY DEF Kept, PendingIsAttended
  <2>2. operation[o] # NoOperation /\ o # Nil
    BY NilAssumption DEF NoOperation
  <2>3. call'[d].op = o
    BY <2>1, <2>2 DEF Quiet
  <2> QED
    BY <2>3
<1> QED
  BY <1>1, <1>2, <1>3 DEF Kept

(* Every step of a request but those that write the operation is quiet.    *)
LEMMA MovesQuiet ==
  ASSUME Typed, Kept, NEW c \in Calls, NEW steps, Moves(c, steps),
         "create" \notin steps,
         call[c].op # Nil => steps \subseteq DeleteSteps,
         call'[c] = NoCall
           => call[c].op = Nil \/ operation[call[c].op] = NoOperation,
         UNCHANGED <<operation, lost>>,
         gone \subseteq gone', gone' \subseteq {o \in Ops : operation[o] # NoOperation}
  PROVE  Quiet(c)
  BY DEF Moves, Quiet

LEMMA RequestQuiet ==
  ASSUME Typed, Kept, NEW c \in Calls,
         \/ PatchService(c) \/ MapDefault(c) \/ UpsertContainer(c)
         \/ LookUp(c) \/ ApplyDomain(c) \/ RemoveDomain(c)
         \/ UpdateContainerDomain(c)
  PROVE  Quiet(c)
<1>1. call[c].op = Nil
  BY DEF Kept, Held, PatchService, MapDefault, UpsertContainer, LookUp, ApplyDomain,
     RemoveDomain, UpdateContainerDomain, DeleteSteps
<1>2. call \in [Calls -> Call] /\ gone \subseteq Ops
  BY DEF Typed, TypeOK
<1>3. UNCHANGED <<operation, gone, lost>>
  BY DEF PatchService, MapDefault, UpsertContainer, LookUp, ApplyDomain,
     RemoveDomain, UpdateContainerDomain, tables
<1>4. gone' \subseteq {o \in Ops : operation[o] # NoOperation}
  BY <1>2, <1>3 DEF Kept, Recorded
<1>5. \A s \in {"map", "upsert", "apply", "note", "remove"} : s \in Steps /\ s # "create"
  BY DEF Steps, DeploySteps, DomainSteps
<1>6. ASSUME NEW s \in {"map", "upsert", "apply", "note", "remove"},
             Moves(c, {s}) \/ Moves(c, {})
      PROVE  Quiet(c)
  BY <1>1, <1>3, <1>4, <1>6, MovesQuiet
<1>7. CASE PatchService(c)
  BY <1>2, <1>5, <1>6, <1>7, GoOnMoves DEF PatchService
<1>8. CASE MapDefault(c)
  BY <1>2, <1>5, <1>6, <1>8, GoOnMoves DEF MapDefault
<1>9. CASE UpsertContainer(c) \/ UpdateContainerDomain(c)
  <2>1. call' = [call EXCEPT ![c] = NoCall]
    BY <1>9 DEF UpsertContainer, UpdateContainerDomain, Finish, Fail
  <2>2. Moves(c, {})
    BY <1>2, <2>1 DEF Moves
  <2> QED
    BY <1>6, <2>2
<1>10. CASE LookUp(c)
  BY <1>2, <1>5, <1>6, <1>10, GoOnMoves DEF LookUp
<1>11. CASE ApplyDomain(c)
  BY <1>2, <1>5, <1>6, <1>11, GoOnMoves DEF ApplyDomain
<1>12. CASE RemoveDomain(c)
  BY <1>2, <1>5, <1>6, <1>12, GoOnMoves DEF RemoveDomain
<1> QED
  BY <1>7, <1>8, <1>9, <1>10, <1>11, <1>12

(* A step of a deletion that goes on does not end the request.             *)
LEMMA GoesOn ==
  ASSUME Typed, NEW c \in Calls, NEW s \in Steps,
         \/ Continue(c, s) \/ Stumble(c, s)
         \/ \E d : call' = [call EXCEPT ![c].domain = d, ![c].pc = s]
  PROVE  Moves(c, {s}) /\ call'[c] # NoCall
<1>1. call \in [Calls -> Call]
  BY DEF Typed, TypeOK
<1>2. call'[c].pc = s /\ s # "idle"
  BY <1>1, StepsFact DEF Continue, Stumble, Call
<1>3. call'[c] # NoCall
  BY <1>2 DEF NoCall
<1> QED
  BY <1>1, <1>3, GoOnMoves

LEMMA DeletionQuiet ==
  ASSUME Typed, Honest, Kept, NEW c \in Calls,
         \/ ReadDomain(c) \/ UnmapCustom(c) \/ UnmapDefault(c)
         \/ DeleteKnative(c) \/ DeleteContainer(c)
  PROVE  Quiet(c)
<1>1. UNCHANGED <<operation, lost>>
  BY DEF ReadDomain, UnmapCustom, UnmapDefault, DeleteKnative, DeleteContainer, tables
<1>2. gone \subseteq gone' /\ gone' \subseteq {o \in Ops : operation[o] # NoOperation}
  <2>1. gone \subseteq {o \in Ops : operation[o] # NoOperation}
    BY DEF Typed, TypeOK, Kept, Recorded
  <2>2. CASE UNCHANGED gone
    BY <2>1, <2>2
  <2>3. CASE Removed(call[c].name) /\ DeleteKnative(c)
    <3>1. call[c].name \in Names
      BY <2>3 DEF DeleteKnative, Typed, Named
    <3>2. \A o \in Ops : operation[o].target = call[c].name => operation[o] # NoOperation
      BY <3>1, NilAssumption DEF NoOperation
    <3> QED
      BY <2>1, <2>3, <3>2 DEF Removed
  <2> QED
    BY <2>2, <2>3
    DEF ReadDomain, UnmapCustom, UnmapDefault, DeleteKnative, DeleteContainer
<1>3. \A s \in {"unmap", "unmapDefault", "delete", "forget", "reportDone", "reportError"} :
        s \in Steps /\ s \in DeleteSteps /\ s # "create"
  BY DEF Steps, DeleteSteps
<1>4. ASSUME NEW s \in {"unmap", "unmapDefault", "delete", "forget", "reportDone",
                        "reportError"},
             \/ Continue(c, s) \/ Stumble(c, s)
             \/ \E d : call' = [call EXCEPT ![c].domain = d, ![c].pc = s]
      PROVE  Quiet(c)
  BY <1>1, <1>2, <1>3, <1>4, GoesOn, MovesQuiet
<1>5. CASE ReadDomain(c)
  BY <1>4, <1>5 DEF ReadDomain
<1>6. CASE UnmapCustom(c)
  BY <1>4, <1>6 DEF UnmapCustom
<1>7. CASE UnmapDefault(c)
  BY <1>4, <1>7 DEF UnmapDefault
<1>8. CASE DeleteKnative(c)
  BY <1>4, <1>8 DEF DeleteKnative
<1>9. CASE DeleteContainer(c)
  BY <1>4, <1>9 DEF DeleteContainer
<1> QED
  BY <1>5, <1>6, <1>7, <1>8, <1>9

(* A request that begins has an operation that nobody has heard of, or     *)
(* none.                                                                   *)
Fresh(c) ==
  /\ UNCHANGED <<operation, gone, lost>>
  /\ \A d \in Calls \ {c} : call'[d].op = call[d].op /\ call'[d].pc = call[d].pc
  /\ call[c] = NoCall
  /\ \/ call'[c].op = Nil /\ call'[c].pc # "create"
     \/ /\ call'[c].op \in Ops /\ call'[c].pc = "create"
        /\ operation[call'[c].op] = NoOperation

LEMMA BeginsFresh ==
  ASSUME Typed, NEW c \in Calls, NEW n \in Names, NEW p \in Replicas,
         \/ \E s \in Specs : Deploy(c, n, s, p)
         \/ \E o \in Ops : DeleteService(c, n, o, p)
         \/ \E d \in Domains \union {Nil} : SetServiceDomain(c, n, d, p)
  PROVE  Fresh(c)
<1>1. ASSUME NEW k \in Call, Begin(c, k),
             \/ k.op = Nil /\ k.pc # "create"
             \/ k.op \in Ops /\ k.pc = "create" /\ operation[k.op] = NoOperation
      PROVE  Fresh(c)
  <2>1. call'[c].op = k.op /\ call'[c].pc = k.pc
    BY <1>1 DEF Begin, Call
  <2>2. \A d \in Calls \ {c} : call'[d].op = call[d].op /\ call'[d].pc = call[d].pc
    BY <1>1 DEF Begin, Call, Typed, TypeOK
  <2> QED
    BY <1>1, <2>1, <2>2 DEF Begin, Fresh, tables
<1>2. ASSUME NEW s \in Specs, Deploy(c, n, s, p) PROVE Fresh(c)
  <2> DEFINE k == [NoCall EXCEPT !.pc = "patch", !.name = n, !.spec = s, !.at = p]
  <2>1. k \in Call /\ k.op = Nil /\ k.pc # "create" /\ Begin(c, k)
    BY <1>2 DEF NoCall, Call, DeploySteps, Deploy
  <2> HIDE DEF k
  <2> QED
    BY <1>1, <2>1
<1>3. ASSUME NEW o \in Ops, DeleteService(c, n, o, p) PROVE Fresh(c)
  <2> DEFINE k == [NoCall EXCEPT !.pc = "create", !.name = n, !.op = o, !.at = p]
  <2>1. k \in Call /\ k.op = o /\ k.pc = "create" /\ Begin(c, k)
    BY <1>3 DEF NoCall, Call, DeleteSteps, DeleteService
  <2>2. operation[o] = NoOperation
    BY <1>3 DEF DeleteService, Unused
  <2> HIDE DEF k
  <2> QED
    BY <1>1, <2>1, <2>2
<1>4. ASSUME NEW d \in Domains \union {Nil}, SetServiceDomain(c, n, d, p) PROVE Fresh(c)
  <2> DEFINE k == [NoCall EXCEPT !.pc = "look", !.name = n, !.domain = d, !.at = p]
  <2>1. k \in Call /\ k.op = Nil /\ k.pc # "create" /\ Begin(c, k)
    BY <1>4 DEF NoCall, Call, DomainSteps, SetServiceDomain
  <2> HIDE DEF k
  <2> QED
    BY <1>1, <2>1
<1> QED
  BY <1>2, <1>3, <1>4

LEMMA FreshKept ==
  ASSUME Kept, NEW c \in Calls, Fresh(c)
  PROVE  Kept'
<1>1. Recorded'
  BY DEF Kept, Recorded, Fresh
<1>2. Held'
  BY DEF Kept, Held, Fresh, DeleteSteps
<1>3. PendingIsAttended'
  <2> SUFFICES ASSUME NEW o \in Ops, operation[o].status = "pending", o \notin lost
               PROVE  \E d \in Calls : call'[d].op = o
    BY DEF Fresh, PendingIsAttended
  <2>1. PICK d \in Calls : call[d].op = o
    BY DEF Kept, PendingIsAttended
  <2>2. d # c
    BY <2>1, NilAssumption DEF Fresh, NoCall
  <2> QED
    BY <2>1, <2>2 DEF Fresh
<1> QED
  BY <1>1, <1>2, <1>3 DEF Kept

(* What a request leaves that has its operation to itself.                 *)
LEMMA CreatesOperation ==
  ASSUME Typed, Kept, NEW c \in Calls, CreateOperation(c)
  PROVE  \/ Quiet(c)
         \/ /\ call[c].op \in Ops /\ operation[call[c].op] = NoOperation
            /\ operation' = [operation EXCEPT
                 ![call[c].op] = [status |-> "pending", target |-> call[c].name]]
            /\ gone' \in {gone, gone \union {call[c].op}}
            /\ UNCHANGED lost
            /\ Continue(c, "read")
<1>1. call[c].op \in Ops /\ operation[call[c].op] = NoOperation
  BY DEF CreateOperation, Typed, Named, Kept, Held, DeleteSteps
<1>2. CASE Finish(c, {}, {}) /\ UNCHANGED <<operation, gone>>
  <2>1. Moves(c, {})
    BY <1>2, GoOnMoves DEF Typed, TypeOK
  <2>2. UNCHANGED lost /\ gone' \subseteq {o \in Ops : operation[o] # NoOperation}
    BY <1>2 DEF CreateOperation, Typed, TypeOK, Kept, Recorded
  <2> QED
    BY <1>1, <1>2, <2>1, <2>2, MovesQuiet
<1> QED
  BY <1>1, <1>2 DEF CreateOperation

LEMMA CreateKept ==
  ASSUME Typed, Typed', Honest, Kept, NEW c \in Calls, CreateOperation(c)
  PROVE  Kept'
<1> DEFINE o == call[c].op
<1>1. CASE Quiet(c)
  BY <1>1, QuietKept
<1>2. CASE ~ Quiet(c)
  <2>1. /\ o \in Ops
        /\ operation' = [operation EXCEPT
             ![o] = [status |-> "pending", target |-> call[c].name]]
        /\ gone' \subseteq gone \union {o}
        /\ UNCHANGED lost
        /\ Continue(c, "read")
    BY <1>2, CreatesOperation
  <2>2. /\ operation'[o].status = "pending" /\ operation'[o].target = call[c].name
        /\ \A q \in Ops \ {o} : operation'[q] = operation[q]
    BY <2>1 DEF Typed, TypeOK
  <2>3. call[c].name \in Names /\ call[c].pc = "create"
    BY DEF CreateOperation, Typed, Named
  <2>4. operation'[o] # NoOperation
    BY <2>2 DEF NoOperation
  <2>5. /\ \A d \in Calls \ {c} : call'[d] = call[d]
        /\ call'[c].op = o /\ call'[c].pc = "read"
    BY <2>1 DEF Continue, Typed, TypeOK, Call
  <2>6. Recorded'
    BY <2>1, <2>2, <2>3, <2>4 DEF Kept, Recorded, Typed, TypeOK
  <2>7. \A d \in Calls \ {c} : call[d].op # o
    BY <2>1, NilAssumption DEF Honest, Alone
  <2>8. \A d \in Calls : call[d].pc = "create" => call[d].op \in Ops
    BY DEF Typed, Named, DeleteSteps
  <2>9. Held'
    BY <2>2, <2>5, <2>7, <2>8 DEF Kept, Held, DeleteSteps
  <2>10. PendingIsAttended'
    <3> SUFFICES ASSUME NEW q \in Ops, operation'[q].status = "pending", q \notin lost
                 PROVE  \E d \in Calls : call'[d].op = q
      BY <2>1 DEF PendingIsAttended
    <3>1. CASE q = o
      BY <2>5, <3>1
    <3>2. CASE q # o
      <4>1. PICK d \in Calls : call[d].op = q
        BY <2>2, <3>2 DEF Kept, PendingIsAttended
      <4> QED
        BY <2>5, <4>1
    <3> QED
      BY <3>1, <3>2
  <2> QED
    BY <2>6, <2>9, <2>10 DEF Kept
<1> QED
  BY <1>1, <1>2

(* The answer, or the loss of it.                                          *)
LEMMA Answers ==
  ASSUME Typed, Honest, Kept, NEW c \in Calls, UpdateOperation(c)
  PROVE  /\ call[c].op \in Ops /\ operation[call[c].op] # NoOperation
         /\ UNCHANGED gone
         /\ call' = [call EXCEPT ![c] = NoCall]
         /\ \A d \in Calls \ {c} : call[d].op # call[c].op
         /\ Answer(c) = "done" => call[c].op \in gone
         /\ \/ /\ operation' = [operation EXCEPT ![call[c].op].status = Answer(c)]
               /\ UNCHANGED lost
            \/ /\ lost' = lost \union {call[c].op}
               /\ UNCHANGED operation
<1>1. call[c].pc \in DeleteSteps \ {"create"}
  BY DEF UpdateOperation, DeleteSteps
<1>2. call[c].op \in Ops /\ call[c].name \in Names
  BY <1>1, StepsFact DEF Typed, Named, Steps
<1>3. operation[call[c].op].target = call[c].name
  BY <1>1 DEF Honest, Attended
<1>4. operation[call[c].op] # NoOperation
  BY <1>2, <1>3, NilAssumption DEF NoOperation
<1>5. \A d \in Calls \ {c} : call[d].op # call[c].op
  BY <1>2, NilAssumption DEF Honest, Alone
<1>6. Answer(c) = "done" => call[c].op \in gone
  BY DEF UpdateOperation, Answer, Honest, Attended
<1> QED
  BY <1>2, <1>4, <1>5, <1>6 DEF UpdateOperation, Finish

LEMMA AnswerKept ==
  ASSUME Typed, Honest, Kept, NEW c \in Calls, UpdateOperation(c)
  PROVE  Kept'
<1> DEFINE o == call[c].op
<1>1. /\ o \in Ops /\ operation[o] # NoOperation
      /\ UNCHANGED gone
      /\ \A d \in Calls \ {c} : call[d].op # o
      /\ \/ operation' = [operation EXCEPT ![o].status = Answer(c)] /\ UNCHANGED lost
         \/ lost' = lost \union {o} /\ UNCHANGED operation
  BY Answers
<1>2. call'[c] = NoCall /\ \A d \in Calls \ {c} : call'[d] = call[d]
  BY Answers DEF Typed, TypeOK
<1>3. /\ \A q \in Ops \ {o} : operation'[q] = operation[q]
      /\ operation'[o].target = operation[o].target
      /\ operation'[o].target \in Names
      /\ operation'[o].status # "none"
      /\ operation'[o].status # "pending" \/ o \in lost'
  BY <1>1 DEF Typed, TypeOK, Operation, Answer, Kept, Recorded
<1>4. operation'[o] # NoOperation
  BY <1>3 DEF NoOperation
<1>5. Recorded'
  BY <1>1, <1>3, <1>4 DEF Kept, Recorded, Typed, TypeOK
<1>6. \A d \in Calls : call[d].pc = "create" => call[d].op \in Ops
  BY DEF Typed, Named, DeleteSteps
<1>7. Held'
  BY <1>1, <1>2, <1>3, <1>6 DEF Kept, Held, NoCall
<1>8. PendingIsAttended'
  <2> SUFFICES ASSUME NEW q \in Ops, operation'[q].status = "pending", q \notin lost'
               PROVE  \E d \in Calls : call'[d].op = q
    BY DEF PendingIsAttended
  <2>1. q # o /\ q \notin lost /\ operation[q].status = "pending"
    BY <1>1, <1>3
  <2>2. PICK d \in Calls : call[d].op = q
    BY <2>1 DEF Kept, PendingIsAttended
  <2> QED
    BY <1>2, <2>1, <2>2
<1> QED
  BY <1>5, <1>7, <1>8 DEF Kept

LEMMA CrashKept ==
  ASSUME Typed, Kept, NEW p \in Replicas, Crash(p)
  PROVE  Kept'
<1>1. UNCHANGED <<operation, gone>> /\ lost \subseteq lost'
  BY DEF Crash, tables
<1>2. \A c \in Calls : call'[c] = IF c \in CallsAt(p) THEN NoCall ELSE call[c]
  BY DEF Crash
<1>3. Recorded' /\ Held'
  BY <1>1, <1>2 DEF Kept, Recorded, Held, NoCall
<1>4. PendingIsAttended'
  <2> SUFFICES ASSUME NEW o \in Ops, operation[o].status = "pending", o \notin lost'
               PROVE  \E d \in Calls : call'[d].op = o
    BY <1>1 DEF PendingIsAttended
  <2>1. PICK d \in Calls : call[d].op = o
    BY <1>1 DEF Kept, PendingIsAttended
  <2>2. operation[o] # NoOperation
    BY DEF NoOperation
  <2>3. d \notin CallsAt(p)
    BY <2>1, <2>2 DEF Crash
  <2> QED
    BY <1>2, <2>1, <2>3
<1> QED
  BY <1>3, <1>4 DEF Kept

LEMMA KeptStep ==
  ASSUME Typed, Typed', Honest, Kept, [Next]_vars
  PROVE  Kept'
<1>1. ASSUME NEW c \in Calls, Quiet(c) \/ Fresh(c) PROVE Kept'
  BY <1>1, QuietKept, FreshKept
<1>2. CASE DropProject \/ UNCHANGED vars
  <2>1. UNCHANGED <<operation, gone, lost, call>>
    BY <1>2 DEF DropProject, vars, tables, history
  <2> QED
    BY <2>1 DEF Kept, Recorded, Held, PendingIsAttended
<1> QED
  BY <1>1, <1>2, BeginsFresh, RequestQuiet, DeletionQuiet, CreateKept, AnswerKept,
     CrashKept, AskedAssumption
  DEF Next

LEMMA InvariantlyKept == Spec => [](Typed /\ Honest /\ Kept)
<1>1. Init => Kept
  BY DEF Init, Kept, Recorded, Held, PendingIsAttended, NoOperation, NoCall
<1>2. (Typed /\ Honest) /\ (Typed /\ Honest)' /\ Kept /\ [Next]_vars => Kept'
  BY KeptStep
<1> QED
  BY <1>1, <1>2, InvariantlyHonest, PTL DEF Spec

(* As long as an operation is pending, a request that is going to answer   *)
(* it is running, unless a crash or a failing write has silenced it.       *)
THEOREM PendingIsHeld == Spec => []PendingIsAttended
<1>1. Kept => PendingIsAttended
  BY DEF Kept
<1> QED
  BY <1>1, InvariantlyKept, PTL

-----------------------------------------------------------------------------
(* The container service implements the lifecycle of an operation.         *)
LEMMA InitRefines == Init => Lifecycle!Init
  BY DEF Init, Lifecycle!Init, NoOperation, NoCall

LEMMA StepRefines ==
  ASSUME Typed, Honest, Kept, [Next]_vars
  PROVE  [Lifecycle!Next]_(Lifecycle!vars)
<1> DEFINE status == [o \in Ops |-> operation[o].status]
           open   == {o \in Ops : /\ operation[o] # NoOperation
                                  /\ \E c \in Calls : call[c].op = o}
<1> USE NilAssumption
<1>1. \A o \in Ops : status[o] = "none" <=> operation[o] = NoOperation
  BY DEF Kept, Recorded, NoOperation
<1>2. ASSUME UNCHANGED <<operation, open>>, gone \subseteq gone',
             gone' \subseteq {o \in Ops : operation[o] # NoOperation}
      PROVE  Lifecycle!Vanish
  BY <1>1, <1>2 DEF Lifecycle!Vanish
<1>3. gone \subseteq {o \in Ops : operation[o] # NoOperation}
  BY DEF Typed, TypeOK, Kept, Recorded
<1>4. ASSUME UNCHANGED <<operation, gone>>, open' \subseteq open PROVE Lifecycle!Close
  BY <1>4 DEF Lifecycle!Close
<1>5. ASSUME NEW c \in Calls, Quiet(c) PROVE Lifecycle!Vanish
  <2>1. UNCHANGED open
    BY <1>5 DEF Quiet, NoCall
  <2> QED
    BY <1>2, <1>5, <2>1 DEF Quiet
<1>6. ASSUME NEW c \in Calls, Fresh(c) PROVE Lifecycle!Vanish
  <2>1. UNCHANGED open
    BY <1>6 DEF Fresh, NoCall
  <2> QED
    BY <1>2, <1>3, <1>6, <2>1 DEF Fresh
<1>7. ASSUME NEW c \in Calls, CreateOperation(c)
      PROVE  Lifecycle!Vanish \/ \E o \in Ops : Lifecycle!Create(o)
  <2> DEFINE o == call[c].op
  <2>1. CASE Quiet(c)
    BY <1>5, <2>1
  <2>2. CASE ~ Quiet(c)
    <3>1. /\ o \in Ops /\ operation[o] = NoOperation
          /\ operation' = [operation EXCEPT
               ![o] = [status |-> "pending", target |-> call[c].name]]
          /\ gone' \in {gone, gone \union {o}}
          /\ Continue(c, "read")
      BY <1>7, <2>2, CreatesOperation
    <3>2. /\ operation'[o].status = "pending"
          /\ \A q \in Ops \ {o} : operation'[q] = operation[q]
      BY <3>1 DEF Typed, TypeOK
    <3>3. status' = [status EXCEPT ![o] = "pending"]
      <4>1. \A q \in Ops : operation'[q].status
                             = IF q = o THEN "pending" ELSE operation[q].status
        BY <3>2
      <4>2. status' = [q \in Ops |-> IF q = o THEN "pending" ELSE operation[q].status]
        BY <4>1
      <4> QED
        BY <4>2
    <3>4. \A d \in Calls : call'[d].op = call[d].op
      BY <3>1 DEF Continue, Typed, TypeOK, Call
    <3>5. operation'[o] # NoOperation
      BY <3>2 DEF NoOperation
    <3>6. open' = open \union {o}
      BY <3>1, <3>2, <3>4, <3>5
    <3> QED
      BY <1>1, <3>1, <3>3, <3>6 DEF Lifecycle!Create
  <2> QED
    BY <2>1, <2>2
<1>8. ASSUME NEW c \in Calls, UpdateOperation(c)
      PROVE  Lifecycle!Close \/ \E o \in Ops : Lifecycle!Done(o) \/ Lifecycle!Fail(o)
  <2> DEFINE o == call[c].op
  <2>1. /\ o \in Ops /\ operation[o] # NoOperation
        /\ UNCHANGED gone
        /\ \A d \in Calls \ {c} : call[d].op # o
        /\ Answer(c) = "done" => o \in gone
    BY <1>8, Answers
  <2>2. call'[c] = NoCall /\ \A d \in Calls \ {c} : call'[d] = call[d]
    <3>1. call' = [call EXCEPT ![c] = NoCall] /\ call \in [Calls -> Call]
      BY <1>8, Answers DEF Typed, TypeOK
    <3> QED
      BY <3>1
  <2>3. \A q \in Ops : (\E d \in Calls : call'[d].op = q)
                         <=> q # o /\ \E d \in Calls : call[d].op = q
    BY <2>1, <2>2 DEF NoCall
  <2>4. CASE UNCHANGED operation
    BY <1>4, <2>1, <2>3, <2>4
  <2>5. CASE operation' = [operation EXCEPT ![o].status = Answer(c)]
    <3>1. /\ operation'[o].status = Answer(c)
          /\ operation'[o] # NoOperation
          /\ \A q \in Ops \ {o} : operation'[q] = operation[q]
      BY <2>1, <2>5 DEF Typed, TypeOK, Operation, Answer, NoOperation
    <3>2. status' = [status EXCEPT ![o] = Answer(c)]
      BY <3>1
    <3>3. open' = open \ {o} /\ o \in open
      BY <2>1, <2>3, <3>1
    <3>4. CASE Answer(c) = "done"
      BY <2>1, <3>2, <3>3, <3>4 DEF Lifecycle!Done
    <3>5. CASE Answer(c) = "error"
      BY <2>1, <3>2, <3>3, <3>5 DEF Lifecycle!Fail
    <3> QED
      BY <2>1, <3>4, <3>5 DEF Answer
  <2> QED
    BY <1>8, <2>4, <2>5, Answers
<1>9. ASSUME NEW p \in Replicas, Crash(p) PROVE Lifecycle!Close
  <2>1. UNCHANGED <<operation, gone>>
    BY <1>9 DEF Crash, tables
  <2>2. \A c \in Calls : call'[c].op \in {call[c].op, Nil}
    BY <1>9 DEF Crash, NoCall
  <2>3. open' \subseteq open
    BY <2>1, <2>2
  <2> QED
    BY <1>4, <2>1, <2>3
<1>10. ASSUME DropProject \/ UNCHANGED vars PROVE Lifecycle!Vanish
  <2>1. UNCHANGED <<operation, gone, call>>
    BY <1>10 DEF DropProject, vars, tables, history
  <2> QED
    BY <1>2, <1>3, <2>1
<1> QED
  BY <1>5, <1>6, <1>7, <1>8, <1>9, <1>10, BeginsFresh, RequestQuiet, DeletionQuiet,
     AskedAssumption
  DEF Next, Lifecycle!Next

(* Whatever overlaps and fails, what a client reads of its deletion is     *)
(* what the lifecycle allows: "done" after the service was absent, "error" *)
(* from the goroutine of this deletion and at most once.                   *)
THEOREM Refinement == Spec => LifecycleSpec
<1>1. (Typed /\ Honest /\ Kept) /\ [Next]_vars => [Lifecycle!Next]_(Lifecycle!vars)
  BY StepRefines
<1> QED
  BY <1>1, InitRefines, InvariantlyKept, PTL DEF Spec, LifecycleSpec, Lifecycle!Spec

-----------------------------------------------------------------------------
(* What is deployed, in the table and in the cluster. A clean request has  *)
(* its name to itself, and it finds what its earlier steps have written.   *)
Maps(n) == mapping[Host[n]] = n
Agree(n) ==
  /\ row[n].spec = knative[n]
  /\ Maps(n) => HasRow(n)
  /\ HasRow(n) /\ n \notin taken => Maps(n)

(* Before these steps a request has written nothing that matters here.     *)
Early == {"patch", "create", "read", "unmap", "unmapDefault"} \union DomainSteps

Ready(pc, n, spec) ==
  /\ pc \in Early /\ n \notin torn => Agree(n)
  /\ pc = "map" => knative[n] = spec
  /\ pc = "upsert" => knative[n] = spec /\ (n \notin taken => Maps(n))
  /\ pc \in {"apply", "remove", "note"} => HasRow(n)
  /\ pc = "delete" => ~ Maps(n)
  /\ pc = "forget" => ~ Maps(n) /\ knative[n] = Nil
  /\ pc = "reportDone" => Agree(n)
  /\ pc # "reportError"

Prepared(c) == Ready(call[c].pc, call[c].name, call[c].spec)

CleanIsSole ==
  \A c \in Calls :
    /\ call[c].clean => /\ call[c].pc # "idle"
                        /\ \A d \in Calls \ {c} : call[d].name # call[c].name
    /\ call[c].pc \in DeploySteps => call[c].spec \in Specs

Ordered ==
  /\ CleanIsSole
  /\ project => /\ \A c \in Calls : call[c].clean => Prepared(c)
                /\ \A n \in Names \ torn : Resting(n) => Agree(n)

(* A step of call c: the other calls and the other names stay as they are. *)
Elsewhere(n) ==
  \A m \in Names \ {n} : /\ row'[m].spec = row[m].spec
                         /\ knative'[m] = knative[m]
                         /\ Maps(m)' => Maps(m)
                         /\ Maps(m) /\ m \notin taken' => Maps(m)'
                         /\ taken \ {n} \subseteq taken'

Apart(c) ==
  /\ project' => project
  /\ \A d \in Calls \ {c} : call'[d] = call[d]
  /\ \A n \in Names \ {call[c].name} : n \in torn' <=> n \in torn
  /\ \A n : n = call[c].name => Elsewhere(n)

Over(c) ==
  /\ call'[c] = NoCall
  /\ project' => \A n \in Names \ torn' : n = call[c].name => Agree(n)'

Further(c) ==
  /\ call'[c].name = call[c].name /\ call'[c].spec = call[c].spec
  /\ call'[c].pc # "idle"
  /\ call'[c].pc \in DeploySteps => call[c].pc \in DeploySteps
  /\ call'[c].clean => call[c].clean
  /\ project' /\ call'[c].clean => Prepared(c)'

(* Default hosts are domains, one for each name.                           *)
LEMMA HostFact ==
  ASSUME NEW m \in Names
  PROVE  Host[m] \in Domains /\ \A n \in Names : Host[m] = Host[n] => m = n
  BY HostAssumption

LEMMA OrderedStep ==
  ASSUME Typed, Ordered, NEW c \in Calls, call[c].pc # "idle",
         Apart(c), Over(c) \/ Further(c)
  PROVE  Ordered'
<1>1. call[c].name \in Names /\ call[c].name # Nil
  BY NilAssumption DEF Typed, Named
<1>2. CleanIsSole'
  <2>1. \A d \in Calls : call[d].clean => call[d].name # Nil
    BY NilAssumption DEF Ordered, CleanIsSole, Typed, Named
  <2>2. CASE Over(c)
    <3>1. /\ \A d \in Calls \ {c} : call'[d] = call[d]
          /\ ~ call'[c].clean /\ call'[c].name = Nil /\ call'[c].pc \notin DeploySteps
      BY <2>2 DEF Apart, Over, NoCall, DeploySteps
    <3> QED
      BY <2>1, <3>1 DEF Ordered, CleanIsSole
  <2>3. CASE Further(c)
    BY <2>3 DEF Ordered, CleanIsSole, Apart, Further
  <2> QED
    BY <2>2, <2>3
<1>3. ASSUME project', NEW d \in Calls, call'[d].clean PROVE Prepared(d)'
  <2>1. CASE d = c
    BY <1>3, <2>1 DEF Over, Further, NoCall
  <2>2. CASE d # c
    <3>1. call'[d] = call[d] /\ call[d].clean
      BY <1>3, <2>2 DEF Apart
    <3>2. call[d].name # call[c].name /\ call[d].name \in Names
      BY <2>2, <3>1 DEF Ordered, CleanIsSole, Typed, Named
    <3>3. Prepared(d)
      BY <1>3, <3>1 DEF Ordered, Apart
    <3> QED
      BY <3>1, <3>2, <3>3 DEF Prepared, Ready, Agree, Maps, HasRow, Apart, Elsewhere
  <2> QED
    BY <2>1, <2>2
<1>4. ASSUME project', NEW n \in Names \ torn', Resting(n)' PROVE Agree(n)'
  <2>1. CASE n = call[c].name
    BY <1>1, <1>4, <2>1 DEF Resting, Over, Further
  <2>2. CASE n # call[c].name
    <3>1. Resting(n) /\ n \notin torn
      BY <1>4, <2>2 DEF Resting, Apart
    <3>2. Agree(n)
      BY <1>4, <3>1 DEF Ordered, Apart
    <3> QED
      BY <2>2, <3>2 DEF Agree, Maps, HasRow, Apart, Elsewhere
  <2> QED
    BY <2>1, <2>2
<1> QED
  BY <1>2, <1>3, <1>4 DEF Ordered

(* The ways a request goes on and ends.                                    *)
LEMMA WaysOn ==
  ASSUME Typed, NEW c \in Calls, NEW s \in Steps,
         \/ Continue(c, s) \/ Stumble(c, s)
         \/ (\E d : call' = [call EXCEPT ![c].domain = d, ![c].pc = s]) /\ UNCHANGED torn
  PROVE  /\ \A d \in Calls \ {c} : call'[d] = call[d]
         /\ UNCHANGED torn
         /\ call'[c].name = call[c].name /\ call'[c].spec = call[c].spec
         /\ call'[c].pc = s /\ s # "idle"
         /\ call'[c].clean => call[c].clean
         /\ Stumble(c, s) => ~ call'[c].clean
<1>1. call \in [Calls -> Call] /\ s # "idle"
  BY StepsFact DEF Typed, TypeOK
<1>2. Stumble(c, s) => ~ call'[c].clean
  BY <1>1 DEF Stumble, Call
<1>3. CASE Continue(c, s)
  BY <1>1, <1>2, <1>3 DEF Continue, Call
<1>4. CASE Stumble(c, s)
  BY <1>1, <1>2, <1>4 DEF Stumble, Call
<1>5. CASE /\ \E d : call' = [call EXCEPT ![c].domain = d, ![c].pc = s]
           /\ UNCHANGED torn
  <2>1. PICK d : call' = [call EXCEPT ![c].domain = d, ![c].pc = s]
    BY <1>5
  <2>2. \A e \in Calls \ {c} : call'[e] = call[e]
    BY <1>1, <2>1
  <2>3. call'[c] = [call[c] EXCEPT !.domain = d, !.pc = s]
    BY <1>1, <2>1
  <2>4. /\ call'[c].name = call[c].name /\ call'[c].spec = call[c].spec
        /\ call'[c].pc = s /\ call'[c].clean = call[c].clean
    BY <1>1, <2>3 DEF Call
  <2> QED
    BY <1>1, <1>2, <1>5, <2>2, <2>4
<1> QED
  BY <1>3, <1>4, <1>5

LEMMA WaysOut ==
  ASSUME Typed, NEW c \in Calls,
         Fail(c) \/ \E h \in SUBSET {call[c].name} : \E l : Finish(c, h, l)
  PROVE  /\ call'[c] = NoCall
         /\ \A d \in Calls \ {c} : call'[d] = call[d]
         /\ \A n \in Names \ {call[c].name} : n \in torn' <=> n \in torn
         /\ Fail(c) \/ ~ call[c].clean => call[c].name \in torn'
         /\ \A l : Finish(c, {}, l) /\ call[c].clean => torn' = torn
<1>1. call' = [call EXCEPT ![c] = NoCall]
  BY DEF Fail, Finish
<1>2. call'[c] = NoCall /\ \A d \in Calls \ {c} : call'[d] = call[d]
  BY <1>1 DEF Typed, TypeOK
<1>3. Spoil({c}) => torn' = torn \union {call[c].name}
  BY DEF Spoil
<1> QED
  BY <1>2, <1>3 DEF Fail, Finish

LEMMA OnOrdered ==
  ASSUME Typed, Ordered, NEW c \in Calls, call[c].pc # "idle",
         NEW n, n = call[c].name, NEW v, v = call[c].spec,
         NEW s \in Steps, s \in DeploySteps => call[c].pc \in DeploySteps,
         \/ Continue(c, s) \/ Stumble(c, s)
         \/ (\E d : call' = [call EXCEPT ![c].domain = d, ![c].pc = s]) /\ UNCHANGED torn,
         UNCHANGED project, Elsewhere(n),
         call[c].clean /\ project /\ Prepared(c) /\ ~ Stumble(c, s) => Ready(s, n, v)'
  PROVE  Ordered'
<1>1. /\ \A d \in Calls \ {c} : call'[d] = call[d]
      /\ UNCHANGED torn
      /\ call'[c].name = n /\ call'[c].spec = v
      /\ call'[c].pc = s /\ s # "idle"
      /\ call'[c].clean => call[c].clean
      /\ Stumble(c, s) => ~ call'[c].clean
  BY WaysOn
<1>2. project' /\ call'[c].clean => Prepared(c)'
  BY <1>1 DEF Ordered, Prepared
<1>3. Apart(c) /\ Further(c)
  BY <1>1, <1>2 DEF Apart, Further
<1> QED
  BY <1>3, OrderedStep

LEMMA OutOrdered ==
  ASSUME Typed, Ordered, NEW c \in Calls, call[c].pc # "idle",
         NEW n, n = call[c].name,
         Fail(c) \/ \E h \in SUBSET {n} : \E l : Finish(c, h, l),
         UNCHANGED project, Elsewhere(n),
         call[c].clean /\ project /\ Prepared(c) /\ n \notin torn' /\ ~ Fail(c)
           => Agree(n)'
  PROVE  Ordered'
<1>1. /\ call'[c] = NoCall
      /\ \A d \in Calls \ {c} : call'[d] = call[d]
      /\ \A m \in Names \ {n} : m \in torn' <=> m \in torn
      /\ Fail(c) \/ ~ call[c].clean => n \in torn'
  BY WaysOut
<1>2. Over(c)
  BY <1>1 DEF Over, Ordered
<1>3. Apart(c)
  BY <1>1 DEF Apart
<1> QED
  BY <1>2, <1>3, OrderedStep

LEMMA DeployOrdered ==
  ASSUME Typed, Ordered, NEW c \in Calls,
         PatchService(c) \/ MapDefault(c) \/ UpsertContainer(c)
  PROVE  Ordered'
<1>1. PICK n : n = call[c].name
  OBVIOUS
<1>2. PICK v : v = call[c].spec
  OBVIOUS
<1>3. call[c].pc # "idle" /\ call[c].pc \in DeploySteps
  BY DEF PatchService, MapDefault, UpsertContainer, DeploySteps
<1>4. n \in Names /\ v \in Specs
  BY <1>1, <1>2, <1>3 DEF Typed, Named, Ordered, CleanIsSole
<1>5. "map" \in Steps /\ "upsert" \in Steps
  BY DEF Steps, DeploySteps
<1>6. "map" \notin Early /\ "upsert" \notin Early
  BY DEF Early, DomainSteps
<1>7. CASE PatchService(c)
  <2>1. UNCHANGED project /\ Elsewhere(n)
    BY <1>1, <1>7 DEF PatchService, Elsewhere, Maps, Typed, TypeOK, tables, mappings
  <2>2. CASE Fail(c)
    BY <1>1, <1>3, <2>1, <2>2, OutOrdered
  <2>3. CASE Continue(c, "map") /\ knative' = [knative EXCEPT ![n] = v]
    <3>1. Ready("map", n, v)'
      BY <1>4, <1>6, <2>3 DEF Ready, Typed, TypeOK
    <3> QED
      BY <1>1, <1>2, <1>3, <1>5, <2>1, <2>3, <3>1, OnOrdered
  <2> QED
    BY <1>1, <1>2, <1>7, <2>2, <2>3 DEF PatchService
<1>8. CASE MapDefault(c)
  <2>1. UNCHANGED project /\ Elsewhere(n)
    BY <1>1, <1>4, <1>8, HostFact DEF MapDefault, Elsewhere, Maps, tables, Typed, TypeOK
  <2>2. CASE Fail(c)
    BY <1>1, <1>3, <2>1, <2>2, OutOrdered
  <2>3. CASE Continue(c, "upsert") /\ mapping' = [mapping EXCEPT ![Host[n]] = n]
    <3>1. Maps(n)'
      BY <1>4, <2>3, HostFact DEF Maps, Typed, TypeOK
    <3>2. Prepared(c) => Ready("upsert", n, v)'
      BY <1>1, <1>2, <1>6, <1>8, <2>3, <3>1 DEF Prepared, Ready, MapDefault
    <3> QED
      BY <1>1, <1>2, <1>3, <1>5, <2>1, <2>3, <3>2, OnOrdered
  <2> QED
    BY <1>1, <1>8, <2>2, <2>3 DEF MapDefault
<1>9. CASE UpsertContainer(c)
  <2>1. Elsewhere(n)
    BY <1>1, <1>9 DEF UpsertContainer, Upserted, Elsewhere, Maps, cluster, mappings,
       Typed, TypeOK
  <2>2. CASE Fail(c)
    BY <1>1, <1>3, <1>9, <2>1, <2>2, OutOrdered DEF UpsertContainer
  <2>3. CASE Finish(c, {n}, {}) /\ row' = Upserted(n, v)
    <3>1. row'[n].spec = v /\ v # Nil
      BY <1>4, <2>3, NilAssumption DEF Upserted, Typed, TypeOK, Row
    <3>2. Prepared(c) => Agree(n)'
      BY <1>1, <1>2, <1>9, <3>1
      DEF Prepared, Ready, Agree, Maps, HasRow, UpsertContainer, cluster, mappings
    <3>3. UNCHANGED project
      BY <1>9 DEF UpsertContainer
    <3> QED
      BY <1>1, <1>3, <2>1, <2>3, <3>2, <3>3, OutOrdered
  <2>4. CASE ~ project /\ call' = [call EXCEPT ![c] = NoCall] /\ Spoil({c})
    <3>1. /\ call'[c] = NoCall
          /\ \A d \in Calls \ {c} : call'[d] = call[d]
          /\ torn' = torn \union {n}
      BY <1>1, <2>4 DEF Spoil, Typed, TypeOK
    <3>2. ~ project'
      BY <1>9, <2>4 DEF UpsertContainer
    <3>3. Apart(c) /\ Over(c)
      BY <1>1, <2>1, <3>1, <3>2 DEF Apart, Over
    <3> QED
      BY <1>3, <3>3, OrderedStep
  <2> QED
    BY <1>1, <1>2, <1>9, <2>2, <2>3, <2>4 DEF UpsertContainer
<1> QED
  BY <1>7, <1>8, <1>9

LEMMA DomainOrdered ==
  ASSUME Typed, Ordered, NEW c \in Calls,
         \/ LookUp(c) \/ ApplyDomain(c) \/ RemoveDomain(c) \/ UpdateContainerDomain(c)
  PROVE  Ordered'
<1>1. PICK n : n = call[c].name
  OBVIOUS
<1>2. PICK v : v = call[c].spec
  OBVIOUS
<1>3. call[c].pc # "idle" /\ call[c].pc \in Early
  BY DEF LookUp, ApplyDomain, RemoveDomain, UpdateContainerDomain, Early, DomainSteps
<1>4. n \in Names
  BY <1>1, <1>3 DEF Typed, Named
<1>5. \A s \in {"apply", "note", "remove"} :
        s \in Steps /\ s \notin DeploySteps /\ s \in Early
  BY DEF Steps, DomainSteps, DeploySteps, Early
<1>6. UNCHANGED <<project, knative>>
  BY DEF LookUp, ApplyDomain, RemoveDomain, UpdateContainerDomain, cluster, tables
<1>7. \A m \in Names : row'[m].spec = row[m].spec
  BY DEF LookUp, ApplyDomain, RemoveDomain, UpdateContainerDomain, tables, Typed, TypeOK, Row
(* A default host that is written leads to nobody else, and is taken.      *)
<1>8. /\ taken \subseteq taken'
      /\ \A m \in Names : \/ mapping'[Host[m]] = mapping[Host[m]]
                          \/ mapping'[Host[m]] \in {n, Nil} /\ m \in taken'
      /\ call[c].pc \in {"look", "note"} => UNCHANGED <<mapping, taken>>
  <2>1. CASE ApplyDomain(c) \/ RemoveDomain(c)
    <3>1. \A d \in Domains : \/ mapping'[d] = mapping[d]
                             \/ d = call[c].domain /\ mapping'[d] \in {n, Nil}
      BY <1>1, <2>1 DEF ApplyDomain, RemoveDomain, Typed, TypeOK
    <3>2. taken' = taken \union HostOf(call[c].domain) /\ call[c].pc \in {"apply", "remove"}
      BY <2>1 DEF ApplyDomain, RemoveDomain
    <3> QED
      BY <3>1, <3>2, HostFact DEF HostOf
  <2>2. CASE LookUp(c) \/ UpdateContainerDomain(c)
    <3>1. UNCHANGED <<mapping, taken>>
      BY <2>2 DEF LookUp, UpdateContainerDomain, cluster, mappings
    <3> QED
      BY <3>1
  <2> QED
    BY <2>1, <2>2
<1>9. Elsewhere(n) /\ (Agree(n) /\ (HasRow(n) \/ UNCHANGED mapping) => Agree(n)')
  BY <1>4, <1>6, <1>7, <1>8, NilAssumption DEF Elsewhere, Agree, Maps, HasRow
<1>10. ASSUME NEW s \in {"apply", "note", "remove"},
              \/ Continue(c, s)
              \/ (\E d : call' = [call EXCEPT ![c].domain = d, ![c].pc = s])
                 /\ UNCHANGED torn,
              call[c].pc = "look" => HasRow(n)
       PROVE  Ordered'
  <2>1. UNCHANGED torn
    BY <1>10 DEF Continue
  <2>2. Prepared(c) /\ ~ HasRow(n) => call[c].pc = "look"
    BY <1>1, <1>10 DEF Prepared, Ready, LookUp, ApplyDomain, RemoveDomain,
       UpdateContainerDomain
  <2>3. Prepared(c) => HasRow(n) /\ HasRow(n)'
    BY <1>4, <1>7, <1>10, <2>2 DEF HasRow
  <2>4. Prepared(c) => Ready(s, n, v)'
    BY <1>1, <1>3, <1>5, <1>9, <1>10, <2>1, <2>3 DEF Prepared, Ready
  <2> QED
    BY <1>1, <1>2, <1>3, <1>5, <1>6, <1>9, <1>10, <2>4, OnOrdered
<1>11. ASSUME NEW l,
              Fail(c) \/ (Finish(c, {}, l) /\ call[c].pc \in {"look", "note"})
       PROVE  Ordered'
  <2>1. Finish(c, {}, l) /\ call[c].clean => torn' = torn
    BY WaysOut
  <2>2. call[c].clean /\ project /\ Prepared(c) /\ n \notin torn' /\ ~ Fail(c) => Agree(n)'
    BY <1>1, <1>3, <1>8, <1>9, <1>11, <2>1 DEF Prepared, Ready
  <2> QED
    BY <1>1, <1>3, <1>6, <1>9, <1>11, <2>2, OutOrdered
<1>12. CASE LookUp(c)
  BY <1>1, <1>10, <1>11, <1>12 DEF LookUp
<1>13. CASE ApplyDomain(c)
  BY <1>1, <1>10, <1>11, <1>13 DEF ApplyDomain
<1>14. CASE RemoveDomain(c)
  BY <1>1, <1>10, <1>11, <1>14 DEF RemoveDomain
<1>15. CASE UpdateContainerDomain(c)
  BY <1>1, <1>11, <1>15 DEF UpdateContainerDomain
<1> QED
  BY <1>12, <1>13, <1>14, <1>15

LEMMA DeletionOrdered ==
  ASSUME Typed, Ordered, NEW c \in Calls,
         \/ CreateOperation(c) \/ ReadDomain(c) \/ UnmapCustom(c) \/ UnmapDefault(c)
         \/ DeleteKnative(c) \/ DeleteContainer(c) \/ UpdateOperation(c)
  PROVE  Ordered'
<1>1. PICK n : n = call[c].name
  OBVIOUS
<1>2. PICK v : v = call[c].spec
  OBVIOUS
<1>3. call[c].pc # "idle" /\ call[c].pc \in DeleteSteps
  BY DEF CreateOperation, ReadDomain, UnmapCustom, UnmapDefault, DeleteKnative,
     DeleteContainer, UpdateOperation, DeleteSteps
<1>4. n \in Names
  BY <1>1, <1>3 DEF Typed, Named
<1>5. \A s \in {"read", "unmap", "unmapDefault", "delete", "forget", "reportDone",
               "reportError"} : s \in Steps /\ s \notin DeploySteps
  BY DEF Steps, DeleteSteps, DeploySteps
<1>6. /\ {"create", "read", "unmap", "unmapDefault"} \subseteq Early
      /\ \A s \in {"delete", "forget", "reportDone", "reportError"} : s \notin Early
  BY DEF Early, DomainSteps
<1>7. UNCHANGED project /\ Elsewhere(n)
  <2>1. CASE DeleteKnative(c)
    BY <1>1, <2>1 DEF DeleteKnative, Removed, Elsewhere, Maps, tables, mappings, Typed, TypeOK
  <2>2. CASE DeleteContainer(c)
    BY <1>1, <2>2 DEF DeleteContainer, Elsewhere, Maps, cluster, mappings, Typed, TypeOK
  <2>3. CASE UnmapDefault(c)
    BY <1>1, <1>4, <2>3, HostFact DEF UnmapDefault, Elsewhere, Maps, tables, Typed, TypeOK
  <2>4. CASE UnmapCustom(c)
    BY <1>1, <2>4, HostFact, NilAssumption
    DEF UnmapCustom, Elsewhere, Maps, HostOf, tables, Typed, TypeOK
  <2>5. CASE CreateOperation(c) \/ ReadDomain(c) \/ UpdateOperation(c)
    BY <2>5 DEF CreateOperation, ReadDomain, UpdateOperation, Elsewhere, Maps,
       cluster, mappings, tables
  <2> QED
    BY <2>1, <2>2, <2>3, <2>4, <2>5
(* Steps that fail leave a request that is not clean.                      *)
<1>8. ASSUME NEW s \in {"unmapDefault", "delete", "reportDone", "reportError"},
             Stumble(c, s)
      PROVE  Ordered'
  BY <1>1, <1>2, <1>3, <1>5, <1>7, <1>8, OnOrdered
<1>9. ASSUME NEW s \in {"read", "unmap", "unmapDefault", "delete", "forget", "reportDone"},
             \/ Continue(c, s)
             \/ (\E d : call' = [call EXCEPT ![c].domain = d, ![c].pc = s])
                /\ UNCHANGED torn,
             Prepared(c) => Ready(s, n, v)'
      PROVE  Ordered'
  BY <1>1, <1>2, <1>3, <1>5, <1>7, <1>9, OnOrdered
<1>10. ASSUME NEW s \in {"read", "unmap", "unmapDefault"},
              \/ Continue(c, s)
              \/ (\E d : call' = [call EXCEPT ![c].domain = d, ![c].pc = s])
                 /\ UNCHANGED torn,
              call[c].pc \in Early,
              Agree(n) => Agree(n)'
       PROVE  Ordered'
  <2>1. UNCHANGED torn
    BY <1>10 DEF Continue
  <2>2. Prepared(c) => Ready(s, n, v)'
    BY <1>1, <1>6, <1>10, <2>1 DEF Prepared, Ready
  <2> QED
    BY <1>9, <1>10, <2>2
<1>11. CASE CreateOperation(c)
  <2>1. CASE Continue(c, "read")
    BY <1>6, <1>10, <1>11, <2>1
    DEF CreateOperation, Agree, Maps, HasRow, cluster, mappings
  <2>2. CASE Finish(c, {}, {})
    <3>1. call[c].clean => torn' = torn
      BY <2>2, WaysOut
    <3>2. call[c].clean /\ Prepared(c) /\ n \notin torn' => Agree(n)'
      BY <1>1, <1>6, <1>11, <3>1
      DEF Prepared, Ready, Agree, Maps, HasRow, CreateOperation, cluster, mappings
    <3> QED
      BY <1>1, <1>3, <1>7, <2>2, <3>2, OutOrdered
  <2> QED
    BY <1>11, <2>1, <2>2 DEF CreateOperation
<1>12. CASE ReadDomain(c)
  <2>1. Agree(n) => Agree(n)'
    BY <1>12 DEF ReadDomain, Agree, Maps, HasRow, cluster, mappings, tables
  <2> QED
    BY <1>6, <1>8, <1>10, <1>12, <2>1 DEF ReadDomain
<1>13. CASE UnmapCustom(c)
  <2>1. Agree(n) => Agree(n)'
    BY <1>4, <1>13, HostFact, NilAssumption
    DEF UnmapCustom, Agree, Maps, HasRow, HostOf, tables, Typed, TypeOK
  <2> QED
    BY <1>6, <1>8, <1>10, <1>13, <2>1 DEF UnmapCustom
<1>14. CASE UnmapDefault(c)
  <2>1. mapping' = [mapping EXCEPT ![Host[n]] = Nil] => Ready("delete", n, v)'
    BY <1>4, <1>6, HostFact, NilAssumption DEF Ready, Maps, Typed, TypeOK
  <2> QED
    BY <1>1, <1>8, <1>9, <1>14, <2>1 DEF UnmapDefault
<1>15. CASE DeleteKnative(c)
  <2>1. Removed(n) /\ Prepared(c) => Ready("forget", n, v)'
    BY <1>1, <1>4, <1>6, <1>15
    DEF Removed, Prepared, Ready, Maps, DeleteKnative, mappings, Typed, TypeOK
  <2> QED
    BY <1>1, <1>8, <1>9, <1>15, <2>1 DEF DeleteKnative
<1>16. CASE DeleteContainer(c)
  <2>1. row' = [row EXCEPT ![n] = NoRow] /\ Prepared(c) => Ready("reportDone", n, v)'
    BY <1>1, <1>4, <1>6, <1>16
    DEF Prepared, Ready, Agree, Maps, HasRow, NoRow, DeleteContainer, cluster, mappings,
        Typed, TypeOK
  <2> QED
    BY <1>1, <1>8, <1>9, <1>16, <2>1 DEF DeleteContainer
<1>17. CASE UpdateOperation(c)
  <2>1. Prepared(c) => Agree(n)'
    BY <1>1, <1>17 DEF Prepared, Ready, Agree, Maps, HasRow, UpdateOperation,
       cluster, mappings
  <2> QED
    BY <1>1, <1>3, <1>7, <1>17, <2>1, OutOrdered DEF UpdateOperation
<1> QED
  BY <1>11, <1>12, <1>13, <1>14, <1>15, <1>16, <1>17

LEMMA BeginOrdered ==
  ASSUME Typed, Ordered, NEW c \in Calls, NEW k \in Call, Begin(c, k),
         k.name \in Names, k.pc \in {"patch", "create", "look"},
         k.pc = "patch" => k.spec \in Specs
  PROVE  Ordered'
<1>1. UNCHANGED <<row, knative, mapping, taken, project, torn>> /\ call \in [Calls -> Call]
  BY DEF Begin, cluster, mappings, tables, Typed, TypeOK
<1>2. /\ call'[c].name = k.name /\ call'[c].pc = k.pc /\ call'[c].spec = k.spec
      /\ call'[c].clean => Resting(k.name)
  BY DEF Begin, Call
<1>3. \A d \in Calls \ {c} :
        /\ call'[d].name = call[d].name /\ call'[d].pc = call[d].pc
        /\ call'[d].spec = call[d].spec
        /\ call'[d].clean => call[d].clean /\ call[d].name # k.name
  BY <1>1 DEF Begin, Call
<1>4. k.pc \in Early /\ k.pc # "idle" /\ (k.pc \in DeploySteps => k.pc = "patch")
  BY DEF Early, DomainSteps, DeploySteps
<1>5. CleanIsSole'
  BY <1>2, <1>3, <1>4 DEF Ordered, CleanIsSole, Resting
<1>6. ASSUME project, NEW d \in Calls, call'[d].clean PROVE Prepared(d)'
  <2>1. CASE d = c
    <3>1. k.name \notin torn => Agree(k.name)
      BY <1>2, <1>6, <2>1 DEF Ordered
    <3> QED
      BY <1>1, <1>2, <1>4, <2>1, <3>1 DEF Prepared, Ready, Agree, Maps, HasRow, Early,
         DomainSteps
  <2>2. CASE d # c
    BY <1>1, <1>3, <1>6, <2>2 DEF Ordered, Prepared, Ready, Agree, Maps, HasRow
  <2> QED
    BY <2>1, <2>2
<1>7. ASSUME project, NEW n \in Names \ torn, Resting(n)' PROVE Agree(n)'
  <2>1. Resting(n)
    BY <1>3, <1>7, NilAssumption DEF Resting, Begin, NoCall
  <2> QED
    BY <1>1, <1>7, <2>1 DEF Ordered, Agree, Maps, HasRow
<1> QED
  BY <1>1, <1>5, <1>6, <1>7 DEF Ordered

LEMMA EnvironmentOrdered ==
  ASSUME Typed, Ordered, (\E p \in Replicas : Crash(p)) \/ DropProject \/ UNCHANGED vars
  PROVE  Ordered'
<1>1. ASSUME NEW p \in Replicas, Crash(p) PROVE Ordered'
  <2>1. UNCHANGED <<row, knative, mapping, taken, project>>
    BY <1>1 DEF Crash, cluster, mappings, tables
  <2>2. /\ \A c \in Calls : call'[c] = IF c \in CallsAt(p) THEN NoCall ELSE call[c]
        /\ torn' = torn \union {call[c].name : c \in CallsAt(p)}
    BY <1>1 DEF Crash, Spoil
  <2>3. \A c \in Calls : call[c].clean => call[c].name # Nil
    BY NilAssumption DEF Ordered, CleanIsSole, Typed, Named
  <2>4. ~ NoCall.clean /\ NoCall.name = Nil /\ NoCall.pc \notin DeploySteps
    BY DEF NoCall, DeploySteps
  <2>5. CleanIsSole'
    BY <2>2, <2>3, <2>4 DEF Ordered, CleanIsSole
  <2>6. ASSUME project, NEW c \in Calls, call'[c].clean PROVE Prepared(c)'
    <3>1. call'[c] = call[c] /\ call[c].clean
      BY <2>2, <2>4, <2>6
    <3>2. Prepared(c)
      BY <2>6, <3>1 DEF Ordered
    <3> QED
      BY <2>1, <2>2, <3>1, <3>2 DEF Prepared, Ready, Agree, Maps, HasRow
  <2>7. ASSUME project, NEW n \in Names \ torn', Resting(n)' PROVE Agree(n)'
    <3>1. Resting(n) /\ n \notin torn
      BY <2>2, <2>7 DEF Resting, CallsAt
    <3> QED
      BY <2>1, <2>7, <3>1 DEF Ordered, Agree, Maps, HasRow
  <2> QED
    BY <2>1, <2>5, <2>6, <2>7 DEF Ordered
<1>2. CASE DropProject
  BY <1>2 DEF DropProject, Ordered, CleanIsSole
<1>3. CASE UNCHANGED vars
  <2>1. UNCHANGED <<row, knative, mapping, taken, project, torn, call>>
    BY <1>3 DEF vars, cluster, mappings, tables, history
  <2> QED
    BY <2>1 DEF Ordered, CleanIsSole, Prepared, Ready, Agree, Maps, HasRow, Resting
<1> QED
  BY <1>1, <1>2, <1>3

LEMMA OrderedNext ==
  ASSUME Typed, Ordered, [Next]_vars
  PROVE  Ordered'
<1>1. ASSUME NEW c \in Calls, NEW n \in Names, NEW p \in Replicas,
             NEW s \in Specs, Deploy(c, n, s, p)
      PROVE  Ordered'
  <2> DEFINE k == [NoCall EXCEPT !.pc = "patch", !.name = n, !.spec = s, !.at = p]
  <2>1. k \in Call /\ k.name = n /\ k.pc = "patch" /\ k.spec = s
    BY DEF NoCall, Call, DeploySteps
  <2>2. Begin(c, k)
    BY <1>1 DEF Deploy
  <2> HIDE DEF k
  <2> QED
    BY <2>1, <2>2, BeginOrdered
<1>2. ASSUME NEW c \in Calls, NEW n \in Names, NEW p \in Replicas,
             NEW o \in Ops, DeleteService(c, n, o, p)
      PROVE  Ordered'
  <2> DEFINE k == [NoCall EXCEPT !.pc = "create", !.name = n, !.op = o, !.at = p]
  <2>1. k \in Call /\ k.name = n /\ k.pc = "create"
    BY DEF NoCall, Call, DeleteSteps
  <2>2. Begin(c, k)
    BY <1>2 DEF DeleteService
  <2> HIDE DEF k
  <2> QED
    BY <2>1, <2>2, BeginOrdered
<1>3. ASSUME NEW c \in Calls, NEW n \in Names, NEW p \in Replicas,
             NEW d \in Domains \union {Nil}, SetServiceDomain(c, n, d, p)
      PROVE  Ordered'
  <2> DEFINE k == [NoCall EXCEPT !.pc = "look", !.name = n, !.domain = d, !.at = p]
  <2>1. k \in Call /\ k.name = n /\ k.pc = "look"
    BY DEF NoCall, Call, DomainSteps
  <2>2. Begin(c, k)
    BY <1>3 DEF SetServiceDomain
  <2> HIDE DEF k
  <2> QED
    BY <2>1, <2>2, BeginOrdered
<1> QED
  BY <1>1, <1>2, <1>3, DeployOrdered, DeletionOrdered, DomainOrdered, EnvironmentOrdered,
     AskedAssumption
  DEF Next

LEMMA InvariantlyOrdered == Spec => []Ordered
<1>1. Init => Ordered
  BY HostFact, NilAssumption DEF Init, Ordered, CleanIsSole, Agree, Maps, HasRow, NoRow,
     NoCall, DeploySteps
<1> QED
  BY <1>1, InvariantlyTyped, OrderedNext, PTL DEF Spec

(* The table and the cluster agree on what is deployed under a name at     *)
(* rest after a clean request, whatever was there before it; and nobody    *)
(* else ever makes its default host lead to it, or stop doing so, unless   *)
(* that host was asked for as a custom domain.                             *)
THEOREM RowsAreTrue == Spec => []RowsMatchServices
<1>1. Ordered => RowsMatchServices
  BY DEF Ordered, RowsMatchServices, Agree, Maps
<1> QED
  BY <1>1, InvariantlyOrdered, PTL

-----------------------------------------------------------------------------
(* Custom domains. A domain that is not astray is claimed by one name at   *)
(* most, so that no request on another name touches its mapping; a clean   *)
(* request finds what its earlier steps have done.                         *)
Claims(n, d) ==
  \/ row[n].domain = d \/ Host[n] = d
  \/ \E c \in Calls : call[c].name = n /\ call[c].domain = d

Unique ==
  \A d \in Domains \ astray : \A m, n \in Names :
    Claims(m, d) /\ Claims(n, d) => m = n

Fits(n, d) ==
  /\ row[n].domain = d => mapping[d] = n
  /\ mapping[d] = n /\ d \notin Hosts => row[n].domain = d

Undisturbed ==
  DeploySteps \union {"create", "read", "unmap", "look", "apply", "remove", "reportDone"}

Suited(pc, n, e) ==
  /\ pc \in Undisturbed => \A d \in Domains \ astray : Fits(n, d)
  /\ pc \in {"unmap", "remove"} => e = row[n].domain
  /\ pc \in {"apply", "remove", "note"} => HasRow(n)
  /\ pc = "apply" => e # Nil
  /\ pc = "note" /\ e # Nil =>
       \A d \in Domains \ astray : IF d = e THEN mapping[d] = n ELSE Fits(n, d)
  /\ (pc = "note" /\ e = Nil) \/ pc \in {"unmapDefault", "delete", "forget"} =>
       \A d \in Domains \ (astray \union Hosts) : mapping[d] # n
  /\ pc # "reportError"

Suits(c) == Suited(call[c].pc, call[c].name, call[c].domain)

Arranged ==
  /\ Unique
  /\ project => /\ \A c \in Calls : call[c].clean => Suits(c)
                /\ \A n \in Names : Resting(n) =>
                     \A d \in Domains \ astray : Fits(n, d)

(* A step of call c on name n: it moves no mapping but that of its domain  *)
(* and of its default host, and claims no domain that the name has not     *)
(* claimed.                                                                *)
Touches(c, n) ==
  /\ \A m \in Names \ {n} : /\ row'[m].domain = row[m].domain
                            /\ row'[m].spec = row[m].spec
  /\ row'[n].domain \in {row[n].domain, call[c].domain, Nil}
  /\ \A d \in Domains : \/ mapping'[d] = mapping[d]
                        \/ d \in {call[c].domain, Host[n]} /\ mapping'[d] \in {n, Nil}

Within(c, n) ==
  /\ project' => project
  /\ astray \subseteq astray'
  /\ \A d \in Calls \ {c} : call'[d] = call[d]
  /\ call'[c] = NoCall \/ /\ call'[c].name = n
                          /\ call'[c].domain \in {call[c].domain, row[n].domain, Nil}
                          /\ call'[c].clean => call[c].clean
  /\ Touches(c, n)

LEMMA WithinUnique ==
  ASSUME Typed, Unique, NEW c \in Calls, NEW n \in Names, n = call[c].name, Within(c, n)
  PROVE  Unique'
<1>1. \A m \in Names, d \in Domains : Claims(m, d)' => Claims(m, d)
  BY NilAssumption DEF Claims, Within, Touches, NoCall
<1> QED
  BY <1>1 DEF Unique, Within

(* Another name that is at rest, or whose request is clean, has nothing to *)
(* do with the domain of c.                                                *)
LEMMA OthersFit ==
  ASSUME Typed, Unique, NEW c \in Calls, NEW n \in Names, n = call[c].name, Within(c, n),
         NEW m \in Names, m # n, NEW d \in Domains \ astray'
  PROVE  /\ d \in Domains \ astray
         /\ Fits(m, d) => Fits(m, d)'
         /\ mapping[d] # m => mapping'[d] # m
         /\ Claims(m, d) /\ mapping[d] = m => mapping'[d] = m
<1>1. d \in Domains \ astray /\ m # Nil /\ row'[m].domain = row[m].domain
  BY NilAssumption DEF Within, Touches
<1>2. \/ mapping'[d] = mapping[d]
      \/ d \in {call[c].domain, Host[n]} /\ mapping'[d] # m
  BY <1>1 DEF Within, Touches
<1>3. d \in {call[c].domain, Host[n]} => ~ Claims(m, d)
  BY <1>1 DEF Unique, Claims
<1> QED
  BY <1>1, <1>2, <1>3 DEF Fits, Claims

LEMMA ArrangedStep ==
  ASSUME Typed, CleanIsSole, Arranged, NEW c \in Calls, call[c].pc # "idle",
         NEW n \in Names, n = call[c].name, Within(c, n),
         call'[c] = NoCall /\ project'
           => \A d \in Domains \ astray' : Fits(n, d)',
         call'[c] # NoCall /\ call'[c].clean /\ project' => Suits(c)'
  PROVE  Arranged'
<1>1. Unique'
  BY WithinUnique DEF Arranged
<1>2. ASSUME project', NEW d \in Calls, call'[d].clean PROVE Suits(d)'
  <2>1. CASE d = c
    BY <1>2, <2>1 DEF NoCall
  <2>2. CASE d # c
    <3>1. call'[d] = call[d] /\ call[d].clean
      BY <1>2, <2>2 DEF Within
    <3>2. PICK m \in Names \ {n} : m = call[d].name
      BY <2>2, <3>1 DEF CleanIsSole, Typed, Named
    <3>3. PICK pc, e : pc = call[d].pc /\ e = call[d].domain
      OBVIOUS
    <3>4. Suited(pc, m, e)
      BY <1>2, <3>1, <3>2, <3>3 DEF Arranged, Within, Suits
    <3>5. \A g \in Domains \ astray' :
            /\ g \in Domains \ astray
            /\ Fits(m, g) => Fits(m, g)'
            /\ mapping[g] # m => mapping'[g] # m
            /\ Claims(m, g) /\ mapping[g] = m => mapping'[g] = m
      BY OthersFit DEF Arranged
    <3>6. Claims(m, e)
      BY <3>2, <3>3 DEF Claims
    <3>7. row'[m].domain = row[m].domain /\ row'[m].spec = row[m].spec
      BY DEF Within, Touches
    <3>8. Suited(pc, m, e)'
      BY <3>4, <3>5, <3>6, <3>7 DEF Suited, HasRow
    <3> QED
      BY <3>1, <3>2, <3>3, <3>8 DEF Suits
  <2> QED
    BY <2>1, <2>2
<1>3. ASSUME project', NEW m \in Names, Resting(m)', NEW d \in Domains \ astray'
      PROVE  Fits(m, d)'
  <2>1. CASE m = n
    BY <1>3, <2>1 DEF Resting, Within
  <2>2. CASE m # n
    <3>1. Resting(m) /\ project
      BY <1>3, <2>2 DEF Resting, Within
    <3> QED
      BY <1>3, <2>2, <3>1, OthersFit DEF Arranged
  <2> QED
    BY <2>1, <2>2
<1> QED
  BY <1>1, <1>2, <1>3 DEF Arranged

LEMMA DomainWaysOn ==
  ASSUME Typed, NEW c \in Calls, NEW s \in Steps,
         \/ Continue(c, s) \/ Stumble(c, s)
         \/ /\ \E d : call' = [call EXCEPT ![c].domain = d, ![c].pc = s]
            /\ UNCHANGED <<torn, astray>>
  PROVE  /\ \A d \in Calls \ {c} : call'[d] = call[d]
         /\ UNCHANGED astray
         /\ call'[c].name = call[c].name /\ call'[c].pc = s /\ s # "idle"
         /\ call'[c].clean => call[c].clean
         /\ Stumble(c, s) => ~ call'[c].clean
         /\ Continue(c, s) \/ Stumble(c, s) => call'[c].domain = call[c].domain
<1>1. /\ \A d \in Calls \ {c} : call'[d] = call[d]
      /\ call'[c].name = call[c].name /\ call'[c].pc = s /\ s # "idle"
      /\ call'[c].clean => call[c].clean
      /\ Stumble(c, s) => ~ call'[c].clean
  BY WaysOn
<1>2. Continue(c, s) \/ Stumble(c, s) => call'[c].domain = call[c].domain
  BY DEF Continue, Stumble, Typed, TypeOK, Call
<1>3. UNCHANGED astray
  BY DEF Continue, Stumble
<1> QED
  BY <1>1, <1>2, <1>3

LEMMA OnArranged ==
  ASSUME Typed, CleanIsSole, Arranged, NEW c \in Calls, call[c].pc # "idle",
         NEW n \in Names, n = call[c].name, NEW e, e = call'[c].domain,
         NEW s \in Steps,
         \/ Continue(c, s) \/ Stumble(c, s)
         \/ /\ \E d \in {row[n].domain, Nil} :
                 call' = [call EXCEPT ![c].domain = d, ![c].pc = s]
            /\ UNCHANGED <<torn, astray>>,
         UNCHANGED project, Touches(c, n),
         call[c].clean /\ project /\ Suits(c) /\ ~ Stumble(c, s) => Suited(s, n, e)'
  PROVE  Arranged'
<1>0. \/ Continue(c, s) \/ Stumble(c, s)
      \/ /\ \E d : call' = [call EXCEPT ![c].domain = d, ![c].pc = s]
         /\ UNCHANGED <<torn, astray>>
  OBVIOUS
<1>1. /\ \A d \in Calls \ {c} : call'[d] = call[d]
      /\ UNCHANGED astray
      /\ call'[c].name = n /\ call'[c].pc = s /\ s # "idle"
      /\ call'[c].clean => call[c].clean
      /\ Stumble(c, s) => ~ call'[c].clean
      /\ Continue(c, s) \/ Stumble(c, s) => call'[c].domain = call[c].domain
  BY <1>0, DomainWaysOn
<1>2. ASSUME NEW d \in {row[n].domain, Nil},
             call' = [call EXCEPT ![c].domain = d, ![c].pc = s]
      PROVE  call'[c].domain \in {row[n].domain, Nil}
  <2>1. call'[c].domain = d
    BY <1>2 DEF Typed, TypeOK, Call
  <2> QED
    BY <2>1
<1>3. call'[c].domain \in {call[c].domain, row[n].domain, Nil}
  BY <1>1, <1>2
<1>4. Within(c, n)
  BY <1>1, <1>3 DEF Within
<1>5. call'[c].clean /\ project' => Suits(c)'
  BY <1>1 DEF Arranged, Suits
<1>6. call'[c] # NoCall
  BY <1>1 DEF NoCall
<1> QED
  BY <1>4, <1>5, <1>6, ArrangedStep

LEMMA OutArranged ==
  ASSUME Typed, CleanIsSole, Arranged, NEW c \in Calls, call[c].pc # "idle",
         NEW n \in Names, n = call[c].name,
         NEW l, Fail(c) \/ \E h \in SUBSET {n} : Finish(c, h, l),
         UNCHANGED project, Touches(c, n),
         call[c].clean /\ project /\ Suits(c) /\ astray' = astray \union l /\ ~ Fail(c)
           => \A d \in Domains \ astray' : Fits(n, d)'
  PROVE  Arranged'
<1>1. call'[c] = NoCall /\ \A d \in Calls \ {c} : call'[d] = call[d]
  BY WaysOut
<1>2. Spoil({c}) => astray' = astray \union Reach(c)
  BY DEF Spoil
<1>3. \/ call[c].clean /\ astray' = astray \union l /\ ~ Fail(c)
      \/ astray' = astray \union Reach(c)
  BY <1>2 DEF Fail, Finish
<1>4. Within(c, n)
  BY <1>1, <1>3 DEF Within
<1>5. ASSUME astray' = astray \union Reach(c), NEW d \in Domains \ astray'
      PROVE  Fits(n, d)'
  <2>1. d # Nil /\ d # call[c].domain /\ d # row[n].domain
    BY <1>5, NilAssumption DEF Reach
  <2>2. d \notin Hosts => mapping[d] # n /\ d # Host[n]
    BY <1>5 DEF Reach, Hosts
  <2> QED
    BY <2>1, <2>2 DEF Fits, Touches
<1>6. project' => \A d \in Domains \ astray' : Fits(n, d)'
  BY <1>3, <1>5 DEF Arranged
<1> QED
  BY <1>1, <1>4, <1>6, ArrangedStep

LEMMA DeployArranged ==
  ASSUME Typed, CleanIsSole, Arranged, NEW c \in Calls,
         PatchService(c) \/ MapDefault(c) \/ UpsertContainer(c)
  PROVE  Arranged'
<1>1. PICK n : n = call[c].name
  OBVIOUS
<1>2. PICK e : e = call'[c].domain
  OBVIOUS
<1>3. call[c].pc \in DeploySteps /\ call[c].pc # "idle" /\ n \in Names
  BY <1>1 DEF PatchService, MapDefault, UpsertContainer, DeploySteps, Typed, Named
<1>4. /\ UNCHANGED project
      /\ \A m \in Names : row'[m].domain = row[m].domain
      /\ \A m \in Names \ {n} : row'[m].spec = row[m].spec
  BY <1>1 DEF PatchService, MapDefault, UpsertContainer, Upserted, cluster, tables,
     Typed, TypeOK, Row
<1>5. \A d \in Domains : mapping'[d] = mapping[d] \/ (d = Host[n] /\ mapping'[d] = n)
  <2>1. CASE MapDefault(c)
    BY <1>1, <2>1 DEF MapDefault, Typed, TypeOK
  <2>2. CASE PatchService(c) \/ UpsertContainer(c)
    BY <2>2 DEF PatchService, UpsertContainer, cluster, mappings
  <2> QED
    BY <2>1, <2>2
<1>6. /\ Touches(c, n)
      /\ Suits(c) => \A d \in Domains \ astray : Fits(n, d)'
  BY <1>1, <1>3, <1>4, <1>5 DEF Touches, Suits, Suited, Undisturbed, Fits, Hosts
<1>7. ASSUME NEW s \in {"map", "upsert"}, Continue(c, s) PROVE Arranged'
  <2>1. s \in Steps /\ UNCHANGED astray
    BY <1>7 DEF Steps, DeploySteps, Continue
  <2>2. Suits(c) => Suited(s, n, e)'
    BY <1>6, <1>7, <2>1 DEF Suited
  <2> QED
    BY <1>1, <1>2, <1>3, <1>4, <1>6, <1>7, <2>1, <2>2, OnArranged
<1>8. ASSUME Fail(c) \/ Finish(c, {n}, {}) PROVE Arranged'
  BY <1>1, <1>3, <1>4, <1>6, <1>8, OutArranged
<1>9. CASE ~ project /\ call' = [call EXCEPT ![c] = NoCall] /\ Spoil({c})
  <2>1. call'[c] = NoCall /\ \A d \in Calls \ {c} : call'[d] = call[d]
    BY <1>9 DEF Typed, TypeOK
  <2>2. Within(c, n) /\ ~ project'
    BY <1>4, <1>6, <1>9, <2>1 DEF Within, Spoil
  <2> QED
    BY <1>1, <1>3, <2>2, ArrangedStep
<1> QED
  BY <1>1, <1>7, <1>8, <1>9 DEF PatchService, MapDefault, UpsertContainer

LEMMA DomainArranged ==
  ASSUME Typed, CleanIsSole, Arranged, NEW c \in Calls,
         LookUp(c) \/ ApplyDomain(c) \/ RemoveDomain(c) \/ UpdateContainerDomain(c)
  PROVE  Arranged'
<1>1. PICK n : n = call[c].name
  OBVIOUS
<1>2. PICK e : e = call[c].domain
  OBVIOUS
<1>3. call[c].pc # "idle" /\ n \in Names /\ n # Nil /\ e \in Domains \union {Nil}
  BY <1>1, <1>2, NilAssumption
  DEF LookUp, ApplyDomain, RemoveDomain, UpdateContainerDomain, Typed, Named, TypeOK, Call
<1>4. UNCHANGED project
  BY DEF LookUp, ApplyDomain, RemoveDomain, UpdateContainerDomain, tables
<1>5. Touches(c, n)
  <2>1. CASE LookUp(c)
    BY <2>1 DEF LookUp, Touches, cluster, mappings, tables
  <2>2. CASE ApplyDomain(c) \/ RemoveDomain(c)
    BY <1>1, <2>2 DEF ApplyDomain, RemoveDomain, Touches, tables, Typed, TypeOK
  <2>3. CASE UpdateContainerDomain(c)
    BY <1>1, <1>3, <2>3 DEF UpdateContainerDomain, Touches, cluster, mappings, Typed,
       TypeOK, Row
  <2> QED
    BY <2>1, <2>2, <2>3
<1>6. \A s \in {"apply", "note", "remove"} : s \in Steps
  BY DEF Steps, DomainSteps
<1>7. ASSUME Fail(c) PROVE Arranged'
  BY <1>1, <1>3, <1>4, <1>5, <1>7, OutArranged
(* A request that goes on with the domain f.                               *)
<1>8. ASSUME NEW s \in {"apply", "note", "remove"}, NEW f, f = call'[c].domain,
             \/ Continue(c, s)
             \/ /\ \E d \in {row[n].domain, Nil} :
                     call' = [call EXCEPT ![c].domain = d, ![c].pc = s]
                /\ UNCHANGED <<torn, astray>>,
             project /\ Suits(c) => Suited(s, n, f)'
      PROVE  Arranged'
  BY <1>1, <1>3, <1>4, <1>5, <1>6, <1>8, OnArranged
<1>9. ASSUME NEW s, Continue(c, s) PROVE call'[c].domain = e
  BY <1>2, <1>9 DEF Continue, Typed, TypeOK, Call
<1>10. ASSUME NEW s, NEW d, call' = [call EXCEPT ![c].domain = d, ![c].pc = s]
       PROVE  call'[c].domain = d
  BY <1>10 DEF Typed, TypeOK, Call
<1>11. CASE LookUp(c)
  <2>1. UNCHANGED <<row, mapping>>
    BY <1>11 DEF LookUp, cluster, mappings, tables
  <2>2. Suits(c) => \A d \in Domains \ astray : Fits(n, d)
    BY <1>1, <1>11 DEF LookUp, Suits, Suited, Undisturbed
  <2>3. CASE Finish(c, {}, {})
    BY <1>1, <1>3, <1>4, <1>5, <2>1, <2>2, <2>3, OutArranged DEF Fits
  <2>4. CASE HasRow(n) /\ e # Nil /\ Continue(c, "apply")
    <3>1. Suits(c) => Suited("apply", n, e)'
      BY <2>1, <2>2, <2>4 DEF Suited, Continue, Fits, HasRow
    <3> QED
      BY <1>8, <1>9, <2>4, <3>1
  <2>5. CASE /\ HasRow(n)
             /\ call' = [call EXCEPT
                  ![c].domain = row[n].domain,
                  ![c].pc = IF row[n].domain = Nil THEN "note" ELSE "remove"]
             /\ UNCHANGED <<torn, astray>>
    <3>1. CASE row[n].domain = Nil
      <4>1. call' = [call EXCEPT ![c].domain = Nil, ![c].pc = "note"]
        BY <2>5, <3>1
      <4>2. Suits(c) => Suited("note", n, Nil)'
        BY <2>1, <2>2, <2>5, <3>1, NilAssumption DEF Suited, Undisturbed, Fits, HasRow,
           DeploySteps
      <4>3. call'[c].domain = Nil
        BY <1>10, <4>1
      <4> QED
        BY <1>8, <2>5, <4>1, <4>2, <4>3
    <3>2. CASE row[n].domain # Nil
      <4>1. PICK g : g = row[n].domain
        OBVIOUS
      <4>2. call' = [call EXCEPT ![c].domain = g, ![c].pc = "remove"]
        BY <2>5, <3>2, <4>1
      <4>3. Suits(c) => Suited("remove", n, g)'
        BY <2>1, <2>2, <2>5, <4>1 DEF Suited, Fits, HasRow
      <4>4. call'[c].domain = g
        BY <1>10, <4>2
      <4> QED
        BY <1>8, <2>5, <4>1, <4>2, <4>3, <4>4
    <3> QED
      BY <3>1, <3>2
  <2> QED
    BY <1>1, <1>2, <1>11, <2>3, <2>4, <2>5 DEF LookUp
<1>12. CASE ApplyDomain(c)
  <2>1. CASE mapping' = [mapping EXCEPT ![e] = n] /\ Continue(c, "note")
    <3>1. UNCHANGED <<row, astray>>
      BY <1>12, <2>1 DEF ApplyDomain, tables, Continue
    <3>2. Suits(c) => HasRow(n) /\ \A d \in Domains \ astray : Fits(n, d)
      BY <1>1, <1>12 DEF ApplyDomain, Suits, Suited, Undisturbed
    <3>3. e # Nil /\ Suits(c) => Suited("note", n, e)'
      BY <1>3, <2>1, <3>1, <3>2
      DEF Suited, Undisturbed, DeploySteps, Fits, HasRow, Typed, TypeOK
    <3>4. e = Nil /\ Suits(c) => FALSE
      BY <1>1, <1>2, <1>12 DEF ApplyDomain, Suits, Suited
    <3> QED
      BY <1>8, <1>9, <2>1, <3>3, <3>4
  <2> QED
    BY <1>1, <1>2, <1>7, <1>12, <2>1 DEF ApplyDomain
<1>13. CASE RemoveDomain(c)
  <2>1. CASE /\ mapping' = [mapping EXCEPT ![e] = Nil]
             /\ call' = [call EXCEPT ![c].domain = Nil, ![c].pc = "note"]
             /\ UNCHANGED <<torn, astray>>
    <3>1. UNCHANGED row
      BY <1>13 DEF RemoveDomain, tables
    <3>2. Suits(c) => /\ HasRow(n) /\ e = row[n].domain
                      /\ \A d \in Domains \ astray : Fits(n, d)
      BY <1>1, <1>2, <1>13 DEF RemoveDomain, Suits, Suited, Undisturbed
    <3>3. Suits(c) => Suited("note", n, Nil)'
      BY <1>3, <2>1, <3>1, <3>2
      DEF Suited, Undisturbed, DeploySteps, Fits, HasRow, Typed, TypeOK
    <3>4. call'[c].domain = Nil
      BY <1>10, <2>1
    <3> QED
      BY <1>8, <2>1, <3>3, <3>4
  <2> QED
    BY <1>1, <1>2, <1>7, <1>13, <2>1 DEF RemoveDomain
<1>14. CASE UpdateContainerDomain(c)
  <2>1. PICK l : l = IF e = Nil THEN {} ELSE {row[n].domain} \ {e, Nil}
    OBVIOUS
  <2>2. CASE /\ row' = IF HasRow(n) THEN [row EXCEPT ![n].domain = e] ELSE row
             /\ Finish(c, {}, l)
    <3>1. UNCHANGED mapping
      BY <1>14 DEF UpdateContainerDomain, cluster, mappings
    <3>2. Suits(c) => HasRow(n)
      BY <1>1, <1>14 DEF UpdateContainerDomain, Suits, Suited
    <3>3. HasRow(n) => row'[n].domain = e
      BY <1>3, <2>2 DEF Typed, TypeOK, Row
    <3>4. ASSUME Suits(c), astray' = astray \union l, NEW d \in Domains \ astray'
          PROVE  Fits(n, d)'
      <4>1. CASE e = Nil
        BY <1>1, <1>2, <1>14, <3>1, <3>2, <3>3, <3>4, <4>1, NilAssumption
        DEF UpdateContainerDomain, Suits, Suited, Fits
      <4>2. CASE e # Nil
        <5>1. d \in Domains \ astray /\ (d = row[n].domain => d = e)
          BY <2>1, <3>4, <4>2, NilAssumption
        <5>2. IF d = e THEN mapping[d] = n ELSE Fits(n, d)
          BY <1>1, <1>2, <1>14, <3>4, <4>2, <5>1 DEF UpdateContainerDomain, Suits, Suited
        <5> QED
          BY <3>1, <3>2, <3>3, <3>4, <5>1, <5>2 DEF Fits
      <4> QED
        BY <4>1, <4>2
    <3> QED
      BY <1>1, <1>3, <1>4, <1>5, <2>2, <3>4, OutArranged
  <2> QED
    BY <1>1, <1>2, <1>7, <1>14, <2>1, <2>2 DEF UpdateContainerDomain
<1> QED
  BY <1>11, <1>12, <1>13, <1>14

LEMMA DeletionArranged ==
  ASSUME Typed, CleanIsSole, Arranged, NEW c \in Calls,
         \/ CreateOperation(c) \/ ReadDomain(c) \/ UnmapCustom(c) \/ UnmapDefault(c)
         \/ DeleteKnative(c) \/ DeleteContainer(c) \/ UpdateOperation(c)
  PROVE  Arranged'
<1>1. PICK n : n = call[c].name
  OBVIOUS
<1>2. PICK e : e = call[c].domain
  OBVIOUS
<1>3. /\ call[c].pc # "idle" /\ n \in Names /\ n # Nil
      /\ e \in Domains \union {Nil} /\ row[n].domain \in Domains \union {Nil}
  BY <1>1, <1>2, NilAssumption
  DEF CreateOperation, ReadDomain, UnmapCustom, UnmapDefault, DeleteKnative,
      DeleteContainer, UpdateOperation, Typed, Named, TypeOK, Call, Row
<1>4. UNCHANGED project
  BY DEF CreateOperation, ReadDomain, UnmapCustom, UnmapDefault, DeleteKnative,
     DeleteContainer, UpdateOperation, tables
<1>5. Touches(c, n)
  <2>1. CASE UnmapCustom(c) \/ UnmapDefault(c)
    BY <1>1, <1>3, <2>1 DEF UnmapCustom, UnmapDefault, Touches, tables, Typed, TypeOK
  <2>2. CASE DeleteContainer(c)
    BY <1>1, <1>3, <2>2 DEF DeleteContainer, Touches, NoRow, cluster, mappings, Typed, TypeOK
  <2>3. ASSUME UNCHANGED <<row, mapping>> PROVE Touches(c, n)
    BY <1>3, <2>3 DEF Touches
  <2> QED
    BY <2>1, <2>2, <2>3 DEF CreateOperation, ReadDomain, DeleteKnative,
       UpdateOperation, cluster, mappings, tables
<1>6. \A s \in {"read", "unmap", "unmapDefault", "delete", "forget", "reportDone",
               "reportError"} : s \in Steps
  BY DEF Steps, DeleteSteps
<1>7. ASSUME NEW s \in {"unmapDefault", "delete", "reportDone", "reportError"},
             Stumble(c, s)
      PROVE  Arranged'
  <2>1. PICK f : f = call'[c].domain
    OBVIOUS
  <2> QED
    BY <1>1, <1>3, <1>4, <1>5, <1>6, <1>7, <2>1, OnArranged
<1>8. ASSUME NEW s \in {"read", "unmap", "unmapDefault", "delete", "forget", "reportDone"},
             NEW f, f = call'[c].domain,
             \/ Continue(c, s)
             \/ /\ \E d \in {row[n].domain, Nil} :
                     call' = [call EXCEPT ![c].domain = d, ![c].pc = s]
                /\ UNCHANGED <<torn, astray>>,
             project /\ Suits(c) => Suited(s, n, f)'
      PROVE  Arranged'
  BY <1>1, <1>3, <1>4, <1>5, <1>6, <1>8, OnArranged
<1>9. ASSUME NEW s, Continue(c, s) PROVE UNCHANGED astray
  BY <1>9 DEF Continue
<1>10. CASE CreateOperation(c)
  <2>1. UNCHANGED <<row, mapping>>
    BY <1>10 DEF CreateOperation, cluster, mappings
  <2>2. Suits(c) => \A d \in Domains \ astray : Fits(n, d)
    BY <1>1, <1>10 DEF CreateOperation, Suits, Suited, Undisturbed
  <2>3. CASE Continue(c, "read")
    <3>1. \A f : Suits(c) => Suited("read", n, f)'
      BY <1>9, <2>1, <2>2, <2>3 DEF Suited, Fits
    <3> QED
      BY <1>8, <2>3, <3>1
  <2>4. CASE Finish(c, {}, {})
    BY <1>1, <1>3, <1>4, <1>5, <2>1, <2>2, <2>4, OutArranged DEF Fits
  <2> QED
    BY <1>10, <2>3, <2>4 DEF CreateOperation
<1>11. CASE ReadDomain(c)
  <2>1. PICK g, s : g = row[n].domain /\ s = IF g = Nil THEN "unmapDefault" ELSE "unmap"
    OBVIOUS
  <2>2. UNCHANGED <<row, mapping>>
    BY <1>11 DEF ReadDomain, cluster, mappings, tables
  <2>3. Suits(c) => \A d \in Domains \ astray : Fits(n, d)
    BY <1>1, <1>11 DEF ReadDomain, Suits, Suited, Undisturbed
  <2>4. CASE /\ call' = [call EXCEPT ![c].domain = g, ![c].pc = s]
             /\ UNCHANGED <<torn, astray>>
    <3>1. call'[c].domain = g
      BY <2>4 DEF Typed, TypeOK, Call
    <3>2. Suits(c) => Suited(s, n, g)'
      BY <2>1, <2>2, <2>3, <2>4, NilAssumption DEF Suited, Undisturbed, DeploySteps, Fits
    <3> QED
      BY <1>8, <2>1, <2>4, <3>1, <3>2
  <2> QED
    BY <1>1, <1>7, <1>11, <2>1, <2>4 DEF ReadDomain
<1>12. CASE UnmapCustom(c)
  <2>1. CASE mapping' = [mapping EXCEPT ![e] = Nil] /\ Continue(c, "unmapDefault")
    <3>1. UNCHANGED <<row, astray>>
      BY <1>9, <1>12, <2>1 DEF UnmapCustom, tables
    <3>2. Suits(c) => e = row[n].domain /\ \A d \in Domains \ astray : Fits(n, d)
      BY <1>1, <1>2, <1>12 DEF UnmapCustom, Suits, Suited, Undisturbed
    <3>3. \A f : Suits(c) => Suited("unmapDefault", n, f)'
      BY <1>3, <2>1, <3>1, <3>2 DEF Suited, Undisturbed, DeploySteps, Fits, Typed, TypeOK
    <3> QED
      BY <1>8, <2>1, <3>3
  <2> QED
    BY <1>2, <1>7, <1>12, <2>1 DEF UnmapCustom
<1>13. CASE UnmapDefault(c)
  <2>1. \A d \in Domains \ Hosts : mapping'[d] = mapping[d]
    BY <1>1, <1>3, <1>13 DEF UnmapDefault, Hosts, Typed, TypeOK
  <2>2. CASE Continue(c, "delete")
    <3>1. \A f : Suits(c) => Suited("delete", n, f)'
      BY <1>1, <1>9, <1>13, <2>1, <2>2
      DEF UnmapDefault, Suits, Suited, Undisturbed, DeploySteps
    <3> QED
      BY <1>8, <2>2, <3>1
  <2> QED
    BY <1>7, <1>13, <2>2 DEF UnmapDefault
<1>14. CASE DeleteKnative(c)
  <2>1. UNCHANGED <<row, mapping>>
    BY <1>14 DEF DeleteKnative, tables, mappings
  <2>2. CASE Continue(c, "forget")
    <3>1. \A f : Suits(c) => Suited("forget", n, f)'
      BY <1>1, <1>9, <1>14, <2>1, <2>2
      DEF DeleteKnative, Suits, Suited, Undisturbed, DeploySteps
    <3> QED
      BY <1>8, <2>2, <3>1
  <2> QED
    BY <1>7, <1>14, <2>2 DEF DeleteKnative
<1>15. CASE DeleteContainer(c)
  <2>1. UNCHANGED mapping
    BY <1>15 DEF DeleteContainer, cluster, mappings
  <2>2. CASE row' = [row EXCEPT ![n] = NoRow] /\ Continue(c, "reportDone")
    <3>1. row'[n].domain = Nil
      BY <1>3, <2>2 DEF NoRow, Typed, TypeOK
    <3>2. \A f : Suits(c) => Suited("reportDone", n, f)'
      BY <1>1, <1>9, <1>15, <2>1, <2>2, <3>1, NilAssumption
      DEF DeleteContainer, Suits, Suited, Undisturbed, DeploySteps, Fits
    <3> QED
      BY <1>8, <2>2, <3>2
  <2> QED
    BY <1>1, <1>7, <1>15, <2>2 DEF DeleteContainer
<1>16. CASE UpdateOperation(c)
  <2>1. UNCHANGED <<row, mapping>>
    BY <1>16 DEF UpdateOperation, cluster, mappings
  <2>2. Suits(c) => \A d \in Domains \ astray : Fits(n, d)'
    BY <1>1, <1>16, <2>1 DEF UpdateOperation, Suits, Suited, Undisturbed, Fits
  <2>3. Finish(c, {n}, {})
    BY <1>1, <1>16 DEF UpdateOperation
  <2> QED
    BY <1>1, <1>3, <1>4, <1>5, <2>2, <2>3, OutArranged
<1> QED
  BY <1>10, <1>11, <1>12, <1>13, <1>14, <1>15, <1>16

LEMMA BeginArranged ==
  ASSUME Typed, CleanIsSole, Arranged, NEW c \in Calls, NEW k \in Call, Begin(c, k),
         k.name \in Names, k.pc \in {"patch", "create", "look"},
         astray \subseteq astray',
         \A d \in Domains \ astray' :
           d = k.domain => /\ \A m \in Names \ {k.name} : row[m].domain # d /\ Host[m] # d
                           /\ \A b \in Calls : call[b].name # k.name => call[b].domain # d
  PROVE  Arranged'
<1>1. UNCHANGED <<row, mapping, project>> /\ call \in [Calls -> Call] /\ call[c] = NoCall
  BY DEF Begin, cluster, mappings, tables, Typed, TypeOK
<1>2. /\ call'[c].name = k.name /\ call'[c].pc = k.pc /\ call'[c].domain = k.domain
      /\ call'[c].clean => Resting(k.name)
  BY DEF Begin, Call
<1>3. \A d \in Calls \ {c} :
        /\ call'[d].name = call[d].name /\ call'[d].pc = call[d].pc
        /\ call'[d].domain = call[d].domain
        /\ call'[d].clean => call[d].clean
  BY <1>1 DEF Begin, Call
<1>4. Unique'
  <2>1. \A m \in Names, d \in Domains :
          Claims(m, d)' => Claims(m, d) \/ (m = k.name /\ d = k.domain)
    BY <1>1, <1>2, <1>3 DEF Claims
  <2>2. \A m \in Names, d \in Domains \ astray' :
          d = k.domain /\ Claims(m, d) => m = k.name
    BY DEF Claims
  <2> QED
    BY <2>1, <2>2 DEF Unique, Arranged
<1>5. ASSUME project, NEW d \in Calls, call'[d].clean PROVE Suits(d)'
  <2>1. CASE d = c
    <3>1. \A g \in Domains \ astray : Fits(k.name, g)
      BY <1>2, <1>5, <2>1 DEF Arranged
    <3> QED
      BY <1>1, <1>2, <2>1, <3>1
      DEF Suits, Suited, Fits, Undisturbed, DeploySteps
  <2>2. CASE d # c
    <3>1. PICK pc, m, e : pc = call[d].pc /\ m = call[d].name /\ e = call[d].domain
      OBVIOUS
    <3>2. Suited(pc, m, e)
      BY <1>3, <1>5, <2>2, <3>1 DEF Arranged, Suits
    <3>3. Suited(pc, m, e)'
      BY <1>1, <3>2 DEF Suited, Fits, HasRow
    <3> QED
      BY <1>3, <2>2, <3>1, <3>3 DEF Suits
  <2> QED
    BY <2>1, <2>2
<1>6. ASSUME project, NEW n \in Names, Resting(n)', NEW d \in Domains \ astray'
      PROVE  Fits(n, d)'
  <2>1. Resting(n)
    BY <1>1, <1>3, <1>6, NilAssumption DEF Resting, NoCall
  <2> QED
    BY <1>1, <1>6, <2>1 DEF Arranged, Fits
<1> QED
  BY <1>1, <1>4, <1>5, <1>6 DEF Arranged

LEMMA EnvironmentArranged ==
  ASSUME Typed, CleanIsSole, Arranged,
         (\E p \in Replicas : Crash(p)) \/ DropProject \/ UNCHANGED vars
  PROVE  Arranged'
<1>1. ASSUME NEW p \in Replicas, Crash(p) PROVE Arranged'
  <2>1. UNCHANGED <<row, mapping, project>>
    BY <1>1 DEF Crash, cluster, mappings, tables
  <2>2. /\ \A c \in Calls : call'[c] = IF c \in CallsAt(p) THEN NoCall ELSE call[c]
        /\ astray' = astray \union UNION {Reach(c) : c \in CallsAt(p)}
    BY <1>1 DEF Crash, Spoil
  <2>3. ~ NoCall.clean /\ NoCall.name = Nil /\ NoCall.domain = Nil
    BY DEF NoCall
  <2>4. Unique'
    <3>1. \A m \in Names, d \in Domains : Claims(m, d)' => Claims(m, d)
      BY <2>1, <2>2, <2>3, NilAssumption DEF Claims
    <3> QED
      BY <2>2, <3>1 DEF Unique, Arranged
  <2>5. ASSUME project, NEW c \in Calls, call'[c].clean PROVE Suits(c)'
    <3>1. PICK pc, m, e : pc = call[c].pc /\ m = call[c].name /\ e = call[c].domain
      OBVIOUS
    <3>2. call'[c] = call[c] /\ call[c].clean
      BY <2>2, <2>3, <2>5
    <3>3. Suited(pc, m, e)
      BY <2>5, <3>1, <3>2 DEF Arranged, Suits
    <3>4. Suited(pc, m, e)'
      BY <2>1, <2>2, <3>3 DEF Suited, Fits, HasRow
    <3> QED
      BY <3>1, <3>2, <3>4 DEF Suits
  <2>6. ASSUME project, NEW n \in Names, Resting(n)', NEW d \in Domains \ astray'
        PROVE  Fits(n, d)'
    <3>1. CASE Resting(n)
      BY <2>1, <2>2, <2>6, <3>1 DEF Arranged, Fits
    <3>2. CASE ~ Resting(n)
      <4>1. PICK c \in CallsAt(p) : call[c].name = n
        BY <2>2, <2>6, <3>2 DEF Resting, CallsAt
      <4>2. d \notin Reach(c)
        BY <2>2, <2>6
      <4>3. row[n].domain # d /\ (d \notin Hosts => mapping[d] # n)
        BY <4>1, <4>2 DEF Reach
      <4> QED
        BY <2>1, <4>3 DEF Fits
    <3> QED
      BY <3>1, <3>2
  <2> QED
    BY <2>1, <2>4, <2>5, <2>6 DEF Arranged
<1>2. CASE DropProject
  <2>1. /\ ~ project' /\ UNCHANGED <<call, astray>>
        /\ \A n \in Names : row'[n].domain = Nil
    BY <1>2 DEF DropProject, NoRow, history
  <2>2. \A m \in Names, d \in Domains : Claims(m, d)' => Claims(m, d)
    BY <2>1, NilAssumption DEF Claims
  <2> QED
    BY <2>1, <2>2 DEF Arranged, Unique
<1>3. CASE UNCHANGED vars
  <2>1. UNCHANGED <<row, mapping, project, call, astray>>
    BY <1>3 DEF vars, cluster, mappings, tables, history
  <2>2. Unique => Unique'
    BY <2>1 DEF Unique, Claims
  <2> QED
    BY <2>1, <2>2 DEF Arranged, Suits, Suited, Fits, HasRow, Resting
<1> QED
  BY <1>1, <1>2, <1>3

LEMMA ArrangedNext ==
  ASSUME Typed, CleanIsSole, Arranged, [Next]_vars
  PROVE  Arranged'
<1>1. ASSUME NEW c \in Calls, NEW n \in Names, NEW p \in Replicas,
             NEW s \in Specs, Deploy(c, n, s, p)
      PROVE  Arranged'
  <2> DEFINE k == [NoCall EXCEPT !.pc = "patch", !.name = n, !.spec = s, !.at = p]
  <2>1. k \in Call /\ k.name = n /\ k.pc = "patch" /\ k.domain = Nil
    BY DEF NoCall, Call, DeploySteps
  <2>2. Begin(c, k) /\ UNCHANGED astray
    BY <1>1 DEF Deploy
  <2> HIDE DEF k
  <2> QED
    BY <2>1, <2>2, NilAssumption, BeginArranged
<1>2. ASSUME NEW c \in Calls, NEW n \in Names, NEW p \in Replicas,
             NEW o \in Ops, DeleteService(c, n, o, p)
      PROVE  Arranged'
  <2> DEFINE k == [NoCall EXCEPT !.pc = "create", !.name = n, !.op = o, !.at = p]
  <2>1. k \in Call /\ k.name = n /\ k.pc = "create" /\ k.domain = Nil
    BY DEF NoCall, Call, DeleteSteps
  <2>2. Begin(c, k) /\ UNCHANGED astray
    BY <1>2 DEF DeleteService
  <2> HIDE DEF k
  <2> QED
    BY <2>1, <2>2, NilAssumption, BeginArranged
<1>3. ASSUME NEW c \in Calls, NEW n \in Names, NEW p \in Replicas,
             NEW d \in Domains \union {Nil}, SetServiceDomain(c, n, d, p)
      PROVE  Arranged'
  <2> DEFINE k == [NoCall EXCEPT !.pc = "look", !.name = n, !.domain = d, !.at = p]
  <2>1. k \in Call /\ k.name = n /\ k.pc = "look" /\ k.domain = d
    BY DEF NoCall, Call, DomainSteps
  <2>2. Begin(c, k) /\ astray' = astray \union {e \in Domains : e = d /\ Contested(n, d)}
    BY <1>3 DEF SetServiceDomain
  <2>3. \A e \in Domains \ astray' : e = d => ~ Contested(n, d)
    BY <2>2
  <2>4. \A e \in Domains \ astray' :
          e = k.domain => /\ \A m \in Names \ {k.name} : row[m].domain # e /\ Host[m] # e
                          /\ \A b \in Calls : call[b].name # k.name => call[b].domain # e
    BY <2>1, <2>3 DEF Contested
  <2> HIDE DEF k
  <2> QED
    BY <2>1, <2>2, <2>4, BeginArranged
<1> QED
  BY <1>1, <1>2, <1>3, DeployArranged, DeletionArranged, DomainArranged,
     EnvironmentArranged, AskedAssumption
  DEF Next

(* The table and the cluster agree on the custom domains of a name at      *)
(* rest, for every domain that is not known to be astray: one that the row *)
(* names leads to it, and one that leads to it is named by the row or is   *)
(* its default host.                                                       *)
THEOREM MappingsAreTrue == Spec => []RowsMatchMappings
<1>1. Ordered => CleanIsSole
  BY DEF Ordered
<1>2. Init => Arranged
  BY HostFact, NilAssumption DEF Init, Arranged, Unique, Claims, Fits, NoRow, NoCall
<1>3. Arranged => RowsMatchMappings
  BY DEF Arranged, Fits, RowsMatchMappings
<1> QED
  BY <1>1, <1>2, <1>3, InvariantlyTyped, InvariantlyOrdered, ArrangedNext, PTL DEF Spec
=============================================================================
