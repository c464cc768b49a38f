--------------------------- MODULE ContainerService ---------------------------
(***************************************************************************)
(* The container service: deploying a service, deleting it as a long-      *)
(* running operation, and giving it a domain of its own.                   *)
(*                                                                         *)
(* What the platform knows of a service is written to two stores, one      *)
(* after the other and without a lock: the cluster holds the Knative       *)
(* service and its domain mappings, the containers table a row with the    *)
(* settings and the custom domain. Requests on one name may overlap, on    *)
(* one replica or on two, and any step of one may fail.                    *)
(*                                                                         *)
(* A deletion is carried out by a goroutine that deletes the mappings, the *)
(* service and the row, and then sets its operation to "done" or "error".  *)
(* No reconciler stands behind it.                                         *)
(***************************************************************************)
EXTENDS Naturals, FiniteSets

CONSTANTS
  Names,      \* names of services of one project
  Specs,      \* what can be deployed: image, port, scale, environment
  Domains,    \* host names that traffic may come in for
  Host,       \* the default host of each name, a domain like any other
  Asked,      \* bound: domains asked for as custom domains
  Ops,        \* operation identifiers
  Calls,      \* bound: requests in flight at a time
  Replicas,   \* the replicas of the service
  MaxFaults,  \* bound: faults of any kind
  Nil

ASSUME FaultsAssumption == MaxFaults \in Nat
\* ServiceResourceName carries a hash of the name, taken to tell names apart.
ASSUME HostAssumption ==
  /\ Host \in [Names -> Domains]
  /\ \A m, n \in Names : Host[m] = Host[n] => m = n
ASSUME AskedAssumption == Asked \subseteq Domains
ASSUME NilAssumption ==
  Nil \notin Names \union Specs \union Domains \union Ops \union Replicas

VARIABLES
  project,    \* does the row of the project exist?
  knative,    \* the Knative service of each name
  mapping,    \* the domain mappings: the service each domain leads to
  row,        \* the containers table
  operation,  \* the operations table
  call,       \* requests and goroutines in flight
  faults,     \* faults spent
  gone,       \* history: operations whose service has been absent since
  lost,       \* history: operations whose goroutine a fault silenced
  torn,       \* history: names the last request left in an unknown state
  astray,     \* history: domains that may have been left behind
  taken       \* history: names whose default host a request about a custom
              \* domain has written since they were last deployed

mappings == <<mapping, taken>>
cluster == <<knative, mappings>>
tables  == <<project, row, operation>>
history == <<gone, lost, torn, astray>>
vars    == <<cluster, tables, call, faults, history>>

NoRow == [spec |-> Nil, domain |-> Nil]
NoOperation == [status |-> "none", target |-> Nil]
NoCall == [pc |-> "idle", name |-> Nil, spec |-> Nil, domain |-> Nil,
           op |-> Nil, at |-> Nil, clean |-> FALSE]

DeploySteps == {"patch", "map", "upsert"}
DeleteSteps == {"create", "read", "unmap", "unmapDefault", "delete", "forget",
                "reportDone", "reportError"}
DomainSteps == {"look", "apply", "remove", "note"}

Row == [spec : Specs \union {Nil}, domain : Domains \union {Nil}]
Operation == [status : {"none", "pending", "done", "error"},
              target : Names \union {Nil}]
Call == [pc : {"idle"} \union DeploySteps \union DeleteSteps \union DomainSteps,
         name : Names \union {Nil}, spec : Specs \union {Nil},
         domain : Domains \union {Nil}, op : Ops \union {Nil},
         at : Replicas \union {Nil}, clean : BOOLEAN]

TypeOK ==
  /\ project \in BOOLEAN
  /\ knative \in [Names -> Specs \union {Nil}]
  /\ mapping \in [Domains -> Names \union {Nil}]
  /\ row \in [Names -> Row]
  /\ operation \in [Ops -> Operation]
  /\ call \in [Calls -> Call]
  /\ faults \in 0..MaxFaults
  /\ gone \subseteq Ops /\ lost \subseteq Ops
  /\ torn \subseteq Names /\ taken \subseteq Names /\ astray \subseteq Domains

Init ==
  /\ project = TRUE
  /\ knative = [n \in Names |-> Nil]
  /\ mapping = [d \in Domains |-> Nil]
  /\ row = [n \in Names |-> NoRow]
  /\ operation = [o \in Ops |-> NoOperation]
  /\ call = [c \in Calls |-> NoCall]
  /\ faults = 0
  /\ gone = {} /\ lost = {} /\ torn = {} /\ astray = {} /\ taken = {}

HasRow(n) == row[n].spec # Nil
Resting(n) == \A c \in Calls : call[c].name # n
Hosts == {Host[n] : n \in Names}
HostOf(d) == {n \in Names : Host[n] = d}

-----------------------------------------------------------------------------
(* How a request goes on and ends. A request is clean as long as it has    *)
(* the name to itself and none of its steps has failed.                    *)

Begin(c, k) ==
  /\ project
  /\ call[c] = NoCall
  /\ call' = [d \in Calls |->
                IF d = c THEN [k EXCEPT !.clean = Resting(k.name)]
                ELSE IF call[d].name = k.name THEN [call[d] EXCEPT !.clean = FALSE]
                ELSE call[d]]
  /\ UNCHANGED <<cluster, tables, faults, gone, lost, torn>>

Fault ==
  /\ faults < MaxFaults
  /\ faults' = faults + 1

(* The domains a request, or its name, has to do with.                     *)
Reach(c) ==
  {d \in Domains : \/ d = call[c].domain
                   \/ d = row[call[c].name].domain
                   \/ mapping[d] = call[c].name /\ d \notin Hosts}

Spoil(C) ==
  /\ torn' = torn \union {call[c].name : c \in C}
  /\ astray' = astray \union UNION {Reach(c) : c \in C}

Continue(c, step) ==
  /\ call' = [call EXCEPT ![c].pc = step]
  /\ UNCHANGED <<faults, torn, astray>>

(* A step fails and the code goes on.                                      *)
Stumble(c, step) ==
  /\ Fault
  /\ call' = [call EXCEPT ![c].pc = step, ![c].clean = FALSE]
  /\ UNCHANGED <<torn, astray>>

(* A step fails and the request ends.                                      *)
Fail(c) ==
  /\ Fault
  /\ call' = [call EXCEPT ![c] = NoCall]
  /\ Spoil({c})

(* The request ends; a clean one leaves the names in healed as they should *)
(* be, and may leave behind the domains in left.                           *)
Finish(c, healed, left) ==
  /\ call' = [call EXCEPT ![c] = NoCall]
  /\ IF call[c].clean
     THEN torn' = torn \ healed /\ astray' = astray \union left
     ELSE Spoil({c})

-----------------------------------------------------------------------------
(* DeployService.                                                          *)

Deploy(c, n, s, p) ==
  /\ Begin(c, [NoCall EXCEPT !.pc = "patch", !.name = n, !.spec = s, !.at = p])
  /\ UNCHANGED astray

(* Manager.Deploy applies the Knative service, whatever is there ...       *)
PatchService(c) ==
  LET applied == [knative EXCEPT ![call[c].name] = call[c].spec] IN
  /\ call[c].pc = "patch"
  /\ \/ knative' = applied /\ Continue(c, "map")
     \/ knative' \in {knative, applied} /\ Fail(c)
  /\ UNCHANGED <<mappings, tables, gone, lost>>

(* ... and, by force, the mapping of its default host.                     *)
MapDefault(c) ==
  LET n == call[c].name
      applied == [mapping EXCEPT ![Host[n]] = n]
  IN
  /\ call[c].pc = "map"
  /\ \/ mapping' = applied /\ taken' = taken \ {n} /\ Continue(c, "upsert")
     \/ mapping' \in {mapping, applied} /\ UNCHANGED taken /\ Fail(c)
  /\ UNCHANGED <<knative, tables, gone, lost>>

\* Mutant: the upsert replaces the row.
UpsertedReplacing(n, s) == [row EXCEPT ![n] = [spec |-> s, domain |-> Nil]]

(* A row that exists keeps its domain.                                     *)
Upserted(n, s) == [row EXCEPT ![n].spec = s]

\* Mutant: no foreign key, the row outlives its project.
UpsertContainerUnchecked(c) ==
  LET upserted == Upserted(call[c].name, call[c].spec) IN
  /\ call[c].pc = "upsert"
  /\ \/ row' = upserted /\ Finish(c, {call[c].name}, {}) /\ UNCHANGED faults
     \/ row' \in {row, upserted} /\ Fail(c)
  /\ UNCHANGED <<cluster, project, operation, gone, lost>>

(* The row references the project: without one the statement is refused,   *)
(* and the request ends with an error, the service deployed.               *)
UpsertContainer(c) ==
  LET upserted == Upserted(call[c].name, call[c].spec) IN
  /\ call[c].pc = "upsert"
  /\ \/ /\ project
        /\ row' = upserted
        /\ Finish(c, {call[c].name}, {})
        /\ UNCHANGED faults
     \/ project /\ row' \in {row, upserted} /\ Fail(c)
     \/ /\ ~ project
        /\ call' = [call EXCEPT ![c] = NoCall]
        /\ Spoil({c})
        /\ UNCHANGED <<row, faults>>
  /\ UNCHANGED <<cluster, project, operation, gone, lost>>

-----------------------------------------------------------------------------
(* DeleteService.                                                          *)

(* newOperationID: random, and taken to be unused.                         *)
Unused(o) == operation[o] = NoOperation /\ \A c \in Calls : call[c].op # o

DeleteService(c, n, o, p) ==
  /\ Unused(o)
  /\ Begin(c, [NoCall EXCEPT !.pc = "create", !.name = n, !.op = o, !.at = p])
  /\ UNCHANGED astray

CreateOperation(c) ==
  LET k == call[c] IN
  /\ k.pc = "create"
  /\ \/ /\ operation' = [operation EXCEPT
                           ![k.op] = [status |-> "pending", target |-> k.name]]
        /\ gone' = IF knative[k.name] = Nil THEN gone \union {k.op} ELSE gone
        /\ Continue(c, "read")
     \/ Fault /\ Finish(c, {}, {}) /\ UNCHANGED <<operation, gone>>
  /\ UNCHANGED <<cluster, project, row, lost>>

(* The custom domain is read once, before the goroutine starts; an error   *)
(* of the query counts as no domain.                                       *)
ReadDomain(c) ==
  LET d == row[call[c].name].domain IN
  /\ call[c].pc = "read"
  /\ \/ /\ call' = [call EXCEPT ![c].domain = d,
                       ![c].pc = IF d = Nil THEN "unmapDefault" ELSE "unmap"]
        /\ UNCHANGED <<faults, torn, astray>>
     \/ Stumble(c, "unmapDefault")
  /\ UNCHANGED <<cluster, tables, gone, lost>>

(* The goroutine. It deletes the mapping of the custom domain, whichever   *)
(* service that leads to by now, ...                                       *)
UnmapCustom(c) ==
  LET unmapped == [mapping EXCEPT ![call[c].domain] = Nil] IN
  /\ call[c].pc = "unmap"
  /\ \/ mapping' = unmapped /\ Continue(c, "unmapDefault")
     \/ mapping' \in {mapping, unmapped} /\ Stumble(c, "unmapDefault")
  /\ taken' = taken \union HostOf(call[c].domain)
  /\ UNCHANGED <<knative, tables, gone, lost>>

(* ... that of the default host, both on a best effort, ...                *)
UnmapDefault(c) ==
  LET unmapped == [mapping EXCEPT ![Host[call[c].name]] = Nil] IN
  /\ call[c].pc = "unmapDefault"
  /\ \/ mapping' = unmapped /\ Continue(c, "delete")
     \/ mapping' \in {mapping, unmapped} /\ Stumble(c, "delete")
  /\ UNCHANGED <<knative, taken, tables, gone, lost>>

(* The Knative service of name n is removed: every deletion of it that has *)
(* been asked for has what it wanted.                                      *)
Removed(n) ==
  /\ knative' = [knative EXCEPT ![n] = Nil]
  /\ gone' = gone \union {o \in Ops : operation[o].target = n}

\* Mutant: a failed DELETE passes for a successful one.
DeleteKnativeSwallowing(c) ==
  /\ call[c].pc = "delete"
  /\ \/ Removed(call[c].name) /\ Continue(c, "forget")
     \/ UNCHANGED <<knative, gone>> /\ Stumble(c, "forget")
  /\ UNCHANGED <<mappings, tables, lost>>

\* Mutant: the goroutine returns on an error.
DeleteKnativeReturning(c) ==
  /\ call[c].pc = "delete"
  /\ \/ Removed(call[c].name) /\ Continue(c, "forget")
     \/ UNCHANGED <<knative, gone>> /\ Fail(c)
  /\ UNCHANGED <<mappings, tables, lost>>

\* Mutant: the row is left to be deleted by somebody else.
DeleteKnativeOnly(c) ==
  /\ call[c].pc = "delete"
  /\ \/ Removed(call[c].name) /\ Continue(c, "reportDone")
     \/ /\ Removed(call[c].name) \/ UNCHANGED <<knative, gone>>
        /\ Stumble(c, "reportError")
  /\ UNCHANGED <<mappings, tables, lost>>

(* ... the service, which may be absent already, ...                       *)
DeleteKnative(c) ==
  /\ call[c].pc = "delete"
  /\ \/ Removed(call[c].name) /\ Continue(c, "forget")
     \/ /\ Removed(call[c].name) \/ UNCHANGED <<knative, gone>>
        /\ Stumble(c, "reportError")
  /\ UNCHANGED <<mappings, tables, lost>>

\* Mutant: the statement names the project and forgets the service.
DeleteContainerOfProject(c) ==
  /\ call[c].pc = "forget"
  /\ \/ row' = [n \in Names |-> NoRow] /\ Continue(c, "reportDone")
     \/ UNCHANGED row /\ Stumble(c, "reportDone")
  /\ UNCHANGED <<cluster, project, operation, gone, lost>>

(* ... and the row; whether that worked is not looked at.                  *)
DeleteContainer(c) ==
  LET deleted == [row EXCEPT ![call[c].name] = NoRow] IN
  /\ call[c].pc = "forget"
  /\ \/ row' = deleted /\ Continue(c, "reportDone")
     \/ row' \in {row, deleted} /\ Stumble(c, "reportDone")
  /\ UNCHANGED <<cluster, project, operation, gone, lost>>

\* Mutant: the variable for the answer is set and never changed.
AnswerDone(c) == "done"

Answer(c) == IF call[c].pc = "reportDone" THEN "done" ELSE "error"

UpdateOperation(c) ==
  /\ call[c].pc \in {"reportDone", "reportError"}
  /\ Finish(c, {call[c].name}, {})
  /\ \/ /\ operation' = [operation EXCEPT ![call[c].op].status = Answer(c)]
        /\ UNCHANGED <<lost, faults>>
     \/ /\ Fault
        /\ lost' = lost \union {call[c].op}
        /\ UNCHANGED operation
  /\ UNCHANGED <<cluster, project, row, gone>>

-----------------------------------------------------------------------------
(* SetServiceDomain, with Nil for taking the domain away. Which domain is  *)
(* asked for is not looked at: it may be the default host of a service,    *)
(* this one's or another's.                                                *)

(* Another name has to do with the domain: who has it is open from now on. *)
Contested(n, d) ==
  \/ \E m \in Names \ {n} : row[m].domain = d \/ Host[m] = d
  \/ \E c \in Calls : call[c].name # n /\ call[c].domain = d

SetServiceDomain(c, n, d, p) ==
  /\ Begin(c, [NoCall EXCEPT !.pc = "look", !.name = n, !.domain = d, !.at = p])
  /\ astray' = astray \union {e \in Domains : e = d /\ Contested(n, d)}

(* The row must exist; it tells which mapping to remove.                   *)
LookUp(c) ==
  LET k == call[c] IN
  /\ k.pc = "look"
  /\ \/ /\ HasRow(k.name) /\ k.domain # Nil
        /\ Continue(c, "apply")
     \/ /\ HasRow(k.name) /\ k.domain = Nil
        /\ call' = [call EXCEPT
             ![c].domain = row[k.name].domain,
             ![c].pc = IF row[k.name].domain = Nil THEN "note" ELSE "remove"]
        /\ UNCHANGED <<faults, torn, astray>>
     \/ ~ HasRow(k.name) /\ Finish(c, {}, {}) /\ UNCHANGED faults
     \/ Fault /\ Finish(c, {}, {})
  /\ UNCHANGED <<cluster, tables, gone, lost>>

(* The mapping is applied by force: it may have led to another service.    *)
ApplyDomain(c) ==
  LET applied == [mapping EXCEPT ![call[c].domain] = call[c].name] IN
  /\ call[c].pc = "apply"
  /\ \/ mapping' = applied /\ Continue(c, "note")
     \/ mapping' \in {mapping, applied} /\ Fail(c)
  /\ taken' = taken \union HostOf(call[c].domain)
  /\ UNCHANGED <<knative, tables, gone, lost>>

RemoveDomain(c) ==
  LET removed == [mapping EXCEPT ![call[c].domain] = Nil] IN
  /\ call[c].pc = "remove"
  /\ \/ /\ mapping' = removed
        /\ call' = [call EXCEPT ![c].domain = Nil, ![c].pc = "note"]
        /\ UNCHANGED <<faults, torn, astray>>
     \/ mapping' \in {mapping, removed} /\ Fail(c)
  /\ taken' = taken \union HostOf(call[c].domain)
  /\ UNCHANGED <<knative, tables, gone, lost>>

(* A row that is not there is not updated, and that is not an error. The   *)
(* mapping of the domain the row named before is left where it is.         *)
UpdateContainerDomain(c) ==
  LET k == call[c]
      updated == IF HasRow(k.name) THEN [row EXCEPT ![k.name].domain = k.domain]
                 ELSE row
      left == IF k.domain = Nil THEN {} ELSE {row[k.name].domain} \ {k.domain, Nil}
  IN
  /\ k.pc = "note"
  /\ \/ row' = updated /\ Finish(c, {}, left) /\ UNCHANGED faults
     \/ row' \in {row, updated} /\ Fail(c)
  /\ UNCHANGED <<cluster, project, operation, gone, lost>>

-----------------------------------------------------------------------------
(* A replica dies and is started again.                                    *)
CallsAt(p) == {c \in Calls : call[c].at = p}

Crash(p) ==
  /\ CallsAt(p) # {}
  /\ Fault
  /\ call' = [c \in Calls |-> IF c \in CallsAt(p) THEN NoCall ELSE call[c]]
  /\ Spoil(CallsAt(p))
  /\ lost' = lost \union {o \in Ops : /\ operation[o] # NoOperation
                                     /\ \E c \in CallsAt(p) : call[c].op = o}
  /\ UNCHANGED <<cluster, tables, gone>>

(* The project service deletes the row of the project, and the containers  *)
(* of the project go with it.                                              *)
DropProject ==
  /\ project
  /\ project' = FALSE
  /\ row' = [n \in Names |-> NoRow]
  /\ UNCHANGED <<cluster, operation, call, faults, history>>

Next ==
  \/ \E c \in Calls, n \in Names, p \in Replicas :
       \/ \E s \in Specs : Deploy(c, n, s, p)
       \/ \E o \in Ops : DeleteService(c, n, o, p)
       \/ \E d \in Asked \union {Nil} : SetServiceDomain(c, n, d, p)
  \/ \E c \in Calls :
       \/ PatchService(c) \/ MapDefault(c) \/ UpsertContainer(c)
       \/ CreateOperation(c) \/ ReadDomain(c)
       \/ UnmapCustom(c) \/ UnmapDefault(c)
       \/ DeleteKnative(c) \/ DeleteContainer(c) \/ UpdateOperation(c)
       \/ LookUp(c) \/ ApplyDomain(c) \/ RemoveDomain(c)
       \/ UpdateContainerDomain(c)
  \/ \E p \in Replicas : Crash(p)
  \/ DropProject

Spec == Init /\ [][Next]_vars

(* Fairness. The handler of a deletion runs on once its operation exists,  *)
(* and so does its goroutine: every call they make returns or times out.   *)
Fairness ==
  \A c \in Calls :
    WF_vars(\/ ReadDomain(c) \/ UnmapCustom(c) \/ UnmapDefault(c)
            \/ DeleteKnative(c) \/ DeleteContainer(c) \/ UpdateOperation(c))

FairSpec == Spec /\ Fairness

-----------------------------------------------------------------------------
(* Properties.                                                             *)

(* An operation reads "done" only after its service was absent at some     *)
(* moment since the request, however requests overlap and fail.            *)
DoneMeansGone == \A o \in Ops : operation[o].status = "done" => o \in gone

(* No row outlives its project, not even one that a deployment in flight   *)
(* is about to write: the console could not reach the service any more.    *)
RowsNeedProject == ~ project => \A n \in Names : ~ HasRow(n)

(* The table and the cluster agree on what is deployed under a name at     *)
(* rest, and its default host leads to it exactly when it is listed,       *)
(* unless the last request on the name overlapped with another or had a    *)
(* failing step. One request that runs cleanly is enough to repair what    *)
(* the ones before it have left. The default host may also be missing when *)
(* somebody has asked for it as a custom domain: the mapping is one, and   *)
(* giving the custom domain up deletes it.                                 *)
RowsMatchServices ==
  project => \A n \in Names \ torn :
               Resting(n) => /\ row[n].spec = knative[n]
                             /\ mapping[Host[n]] = n => HasRow(n)
                             /\ HasRow(n) /\ n \notin taken => mapping[Host[n]] = n

(* A domain that a row names leads to the service of that row, and no      *)
(* domain but a default host leads to a service whose row does not name    *)
(* it; except a domain that two names have had to do with at a time, that  *)
(* a request which was not clean has touched, or that was left behind by a *)
(* change of domain.                                                       *)
RowsMatchMappings ==
  project => \A n \in Names, d \in Domains \ astray :
               Resting(n) => /\ row[n].domain = d => mapping[d] = n
                             /\ mapping[d] = n /\ d \notin Hosts => row[n].domain = d

(* An operation is pending only as long as somebody is about to answer it, *)
(* unless a crash or a failing write took that away; no one else will.     *)
PendingIsAttended ==
  \A o \in Ops : operation[o].status = "pending" =>
                   o \in lost \/ \E c \in Calls : call[c].op = o

(* What the client is promised.                                            *)
Lifecycle == INSTANCE OperationLifecycle WITH
  status <- [o \in Ops |-> operation[o].status],
  gone   <- gone,
  open   <- {o \in Ops : /\ operation[o] # NoOperation
                         /\ \E c \in Calls : call[c].op = o}

LifecycleSpec == Lifecycle!Spec

(* A deletion is answered, unless a fault silenced its goroutine.          *)
DeletionIsAnswered ==
  \A o \in Ops : operation[o].status = "pending"
                   ~> operation[o].status # "pending" \/ o \in lost
=============================================================================
