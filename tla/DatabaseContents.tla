---------------------------- MODULE DatabaseContents ----------------------------
(***************************************************************************)
(* What is inside a database instance: its schemas and its backups, as the *)
(* database service changes them (database/service/server.go, sqlexec.go,  *)
(* backups.go) and as the page of an instance shows them                   *)
(* (DatabaseDetailSection.tsx, BackupsPanel.tsx).                          *)
(*                                                                         *)
(* The page is that of one name, which any project may have given to an    *)
(* instance.  A handler of the service finds the instance and then acts on *)
(* what has its name, two steps between which the instance may end.  An    *)
(* asynchronous function of the page is a request, with the project of the *)
(* render it was called in; its answer comes whenever it comes.  A row of  *)
(* a table carries its project and, of a backup, its serial number, none   *)
(* of which the program looks at: it sends the name.                       *)
(***************************************************************************)
EXTENDS Naturals, FiniteSets

CONSTANTS
    Projects,
    Schemas,      \* names of schemas
    MaxBackups,   \* bound: backups ever made
    MaxRequests,  \* bound: user and page wait while so many run
    MaxFaults,    \* bound: failed calls and timeouts
    Nil

ASSUME ContentsAssumption ==
    /\ Nil \notin Projects /\ Nil \notin Schemas
    /\ MaxBackups \in Nat /\ MaxRequests \in Nat /\ MaxFaults \in Nat

VARIABLES
    \* the cluster
    running,  \* the projects that have an instance of the name
    schemas,  \* the logical databases
    backups,  \* the Backup objects
    made,     \* how many backups have been made
    faults,
    \* the page
    project,  \* activeProjectId
    ready,    \* isReady: the instance runs, says the list of databases
    kind,     \* the table of the page that is looked at: its own, of
              \* schemas, or the panel's, of backups
    table,    \* what it shows
    \* what has been sent and not yet been handled
    requests

cluster == <<running, schemas, backups, made, faults>>
page == <<project, ready, kind, table>>
vars == <<cluster, page, requests>>

Row(p, n, i) == [project |-> p, name |-> n, serial |-> i]

\* "own": the rows are schemas from the load that ended last, and it was of
\* the selected project.
Unfilled ==
    [rows |-> {}, own |-> FALSE, loading |-> FALSE, creating |-> FALSE, deleting |-> Nil]

\* "row" and "own" are the row and the table at the click, "tail" what the
\* function does when a load it waits for has ended.
Call(do, p, n, row, own) ==
    [do |-> do, project |-> p, name |-> n, row |-> row, own |-> own,
     at |-> "sent", ok |-> FALSE, seen |-> {}, tail |-> "none", heard |-> TRUE]

Load(p, tail) == [Call("list", p, Nil, Nil, FALSE) EXCEPT !.tail = tail]

Init ==
    /\ running = {}
    /\ schemas = {} /\ backups = {} /\ made = 0 /\ faults = 0
    /\ project \in Projects /\ ready = FALSE
    /\ kind \in {"schema", "backup"} /\ table = Unfilled
    /\ requests = {}
-----------------------------------------------------------------------------
(* The cluster: instances come and go by operations of their own.  The     *)
(* termination policy is WipeOut.                                          *)

Provision(p) ==
    /\ p \notin running
    /\ running' = running \cup {p}
    /\ UNCHANGED <<schemas, backups, made, faults, page, requests>>

Wipe(p) ==
    /\ p \in running
    /\ running' = running \ {p}
    /\ schemas' = {s \in schemas : s.project # p}
    /\ backups' = {b \in backups : b.project # p}
    /\ UNCHANGED <<made, faults, page, requests>>
-----------------------------------------------------------------------------
(* The database service.                                                   *)

Become(r, s) == requests' = (requests \ {r}) \cup {s}

Answer(r, seen) == Become(r, [r EXCEPT !.at = "answered", !.ok = TRUE, !.seen = seen])
Refuse(r) == Become(r, [r EXCEPT !.at = "answered"])

Fault == faults < MaxFaults /\ faults' = faults + 1

Found(r) == r.project \in running

\* lookupInstance, for a change.
Lookup(r) ==
    /\ r.at = "sent" /\ r.do # "list"
    /\ IF Found(r) THEN Become(r, [r EXCEPT !.at = "found"]) ELSE Refuse(r)
    /\ UNCHANGED <<cluster, page>>

Acts(r, do, k) == r.at = "found" /\ r.do = do /\ kind = k

\* A list only reads, and its lookup is no step of its own.
List(r) ==
    /\ r.at = "sent" /\ r.do = "list"
    /\ IF Found(r)
       THEN Answer(r, {x \in schemas \cup backups : x.project = r.project})
       ELSE Refuse(r)
    /\ UNCHANGED <<cluster, page>>

Schema(r) == Row(r.project, r.name, 0)

CreateSchema(r) ==
    /\ Acts(r, "create", "schema") /\ Found(r)
    /\ Schema(r) \notin schemas
    /\ schemas' = schemas \cup {Schema(r)}
    /\ \/ Answer(r, {}) /\ UNCHANGED faults
       \/ Fault /\ Refuse(r)   \* after five seconds
    /\ UNCHANGED <<running, backups, made, page>>

DeleteSchema(r) ==
    /\ Acts(r, "delete", "schema") /\ Found(r)
    /\ Schema(r) \in schemas
    /\ schemas' = schemas \ {Schema(r)}
    /\ \/ Answer(r, {}) /\ UNCHANGED faults
       \/ Fault /\ Refuse(r)   \* after ten seconds
    /\ UNCHANGED <<running, backups, made, page>>

\* No server answers, or the statement fails.
SQLFails(r) ==
    /\ r.at = "found" /\ kind = "schema"
    /\ \/ ~Found(r)
       \/ r.do = "create" /\ Schema(r) \in schemas
       \/ r.do = "delete" /\ Schema(r) \notin schemas
    /\ Refuse(r)
    /\ UNCHANGED <<cluster, page>>

AddBackup(r, name) ==
    /\ Acts(r, "create", "backup")
    /\ made' = made + 1
    /\ backups' = backups \cup {Row(r.project, name, made')}
    /\ Answer(r, {})
    /\ UNCHANGED <<running, schemas, faults, page>>

\* Mutant: the backups of an instance are numbered.
NumberBackup(r) ==
    AddBackup(r, 1 + Cardinality({b \in backups : b.project = r.project}))

\* The name ends in four random bytes: it is taken to be new.  The object
\* is made even when the instance has just ended.
CreateBackup(r) == AddBackup(r, made + 1)

DeleteBackup(r) ==
    LET named == {b \in backups : b.project = r.project /\ b.name = r.name} IN
    /\ Acts(r, "delete", "backup")
    /\ backups' = backups \ named
    /\ IF named = {} THEN Refuse(r) ELSE Answer(r, {})
    /\ UNCHANGED <<running, schemas, made, faults, page>>

\* A call fails before it has an effect.
Lose(r) ==
    /\ r.at \in {"sent", "found"} /\ Fault
    /\ Refuse(r)
    /\ UNCHANGED <<running, schemas, backups, made, page>>

Act(r) ==
    \/ List(r)
    \/ CreateSchema(r) \/ DeleteSchema(r) \/ SQLFails(r)
    \/ CreateBackup(r) \/ DeleteBackup(r)
-----------------------------------------------------------------------------
(* Rendering: the effects of the page and of the panel.                    *)

Idle == Cardinality(requests) < MaxRequests

\* The load of the table has changed, and runs.
Reload(p) ==
    /\ table' = [table EXCEPT !.loading = TRUE]
    /\ requests' = requests \cup {Load(p, "none")}

\* The answers for what is unmounted go nowhere.
Unmount ==
    /\ table' = Unfilled
    /\ requests' = {[r EXCEPT !.heard = FALSE] : r \in {q \in requests : q.do # "list"}}

\* The user selects another project.
Switch(p) ==
    /\ Idle /\ p # project
    /\ project' = p
    /\ IF ready THEN Reload(p) ELSE UNCHANGED <<table, requests>>
    /\ UNCHANGED <<cluster, ready, kind>>

\* The list of databases, of whatever project, says the instance runs.
Readied ==
    /\ Idle /\ ~ready /\ ready' = TRUE
    /\ Reload(project)
    /\ UNCHANGED <<cluster, project, kind>>

\* It says that it does not, and the panel is unmounted.
Unreadied ==
    /\ ready /\ ready' = FALSE
    /\ IF kind = "backup" THEN Unmount ELSE UNCHANGED <<table, requests>>
    /\ UNCHANGED <<cluster, project, kind>>

\* Away from the page, and to it again.
Leave ==
    /\ ready' = FALSE
    /\ Unmount
    /\ UNCHANGED <<cluster, project, kind>>
-----------------------------------------------------------------------------
(* The user, while the page shows the button.                              *)

Ask(flags, r) ==
    /\ ready /\ Idle
    /\ table' = flags
    /\ requests' = requests \cup {r}
    /\ UNCHANGED <<cluster, project, ready, kind>>

ClickCreate(n) ==
    /\ ~table.creating /\ (n = Nil <=> kind = "backup")
    /\ kind = "backup" =>
        made + Cardinality({r \in requests : r.do = "create"}) < MaxBackups
    /\ Ask([table EXCEPT !.creating = TRUE], Call("create", project, n, Nil, FALSE))

\* Mutant: a table that shows its rows while it loads.
ClickWhileLoading(row) ==
    /\ table.deleting # row.name
    /\ Ask([table EXCEPT !.deleting = row.name],
           Call("delete", project, row.name, row, table.own))

\* The rows are hidden while the table loads.
ClickDelete(row) ==
    /\ ~table.loading
    /\ table.deleting # row.name
    /\ Ask([table EXCEPT !.deleting = row.name],
           Call("delete", project, row.name, row, table.own))

\* Mutant: a panel that looks again only until it has something to show.
TickUntilShown ==
    /\ ready /\ kind = "backup" /\ Cardinality(requests) <= MaxRequests
    /\ table.rows = {}
    /\ Reload(project)
    /\ UNCHANGED <<cluster, project, ready, kind>>

\* The panel's interval of ten seconds, and its button.
Tick ==
    /\ ready /\ kind = "backup" /\ Cardinality(requests) <= MaxRequests
    /\ Reload(project)
    /\ UNCHANGED <<cluster, project, ready, kind>>
-----------------------------------------------------------------------------
(* Answers.  One flag says that a table is loading: whichever load ends    *)
(* first lowers it.  A change that was made is followed by the load of the *)
(* render it was asked for in, which may be of another project.            *)

Ended(tail) ==
    [table EXCEPT !.creating = @ /\ tail # "create",
                  !.deleting = IF tail = "delete" THEN Nil ELSE @]

HandleList(r) ==
    /\ r.do = "list" /\ r.at = "answered"
    /\ table' = [Ended(r.tail) EXCEPT !.loading = FALSE,
                                      !.rows = IF r.ok THEN r.seen ELSE @,
                                      !.own = kind = "schema" /\ r.ok /\ r.project = project]
    /\ requests' = requests \ {r}
    /\ UNCHANGED <<cluster, project, ready, kind>>

HandleChange(r) ==
    /\ r.do # "list" /\ r.at = "answered" /\ r.heard
    /\ IF r.ok
       THEN /\ table' = [table EXCEPT !.loading = TRUE]
            /\ Become(r, Load(r.project, r.do))
       ELSE /\ table' = Ended(r.do)
            /\ requests' = requests \ {r}
    /\ UNCHANGED <<cluster, project, ready, kind>>

\* The answer of what is no longer there to hear it.
Unheard(r) ==
    /\ r.at = "answered" /\ ~r.heard
    /\ requests' = requests \ {r}
    /\ UNCHANGED <<cluster, page>>
-----------------------------------------------------------------------------
Next ==
    \/ \E p \in Projects : Provision(p) \/ Wipe(p) \/ Switch(p)
    \/ \E r \in requests :
        \/ Lookup(r) \/ Act(r) \/ Lose(r)
        \/ HandleList(r) \/ HandleChange(r) \/ Unheard(r)
    \/ Readied \/ Unreadied \/ Leave
    \/ \E n \in Schemas \cup {Nil} : ClickCreate(n)
    \/ \E row \in table.rows : ClickDelete(row)
    \/ Tick

Spec == Init /\ [][Next]_vars

\* The interval goes on, and a list of backups that was asked for is served
\* and its answer handled.  Nothing is assumed of the user, or of changes.
BackupsLoad(p) == {r \in requests : r.do = "list" /\ kind = "backup" /\ r.project = p}

FairSpec ==
    /\ Spec
    /\ WF_vars(Tick)
    /\ \A p \in Projects :
        /\ WF_vars(\E r \in BackupsLoad(p) : List(r))
        /\ WF_vars(\E r \in BackupsLoad(p) : HandleList(r))
-----------------------------------------------------------------------------
(* A schema is dropped only in the project of the row that was clicked,    *)
(* whatever was selected since, unless the table had been filled by a late *)
(* load or left by a failed one: then the row may be another project's,    *)
(* and the schema of its name in the selected project is dropped.          *)
SchemaDropsAsMeant ==
    [][\A s \in schemas \ schemas' :
        \/ s.project \notin running'
        \/ \E r \in requests :
            /\ r.do = "delete" /\ Schema(r) = s
            /\ r.own => r.row = s]_vars

(* A backup is deleted only when that very backup was clicked, or with its *)
(* instance: however old the list on the screen, its rows name no backup   *)
(* made since.                                                             *)
BackupsGoAsMeant ==
    [][\A b \in backups \ backups' :
        \/ b.project \notin running'
        \/ \E r \in requests : r.do = "delete" /\ r.row = b]_vars

(* While the panel is there, and the instance, the list on it becomes the  *)
(* backups there are, whatever late and failed loads have left on it.      *)
BackupsHeal ==
    \A p \in Projects :
        <>[](kind = "backup" /\ ready /\ project = p /\ p \in running)
            => <>[](table.rows = {b \in backups : b.project = p})
=============================================================================
