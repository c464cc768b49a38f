------------------------- MODULE DatabaseContentsProofs -------------------------
(***************************************************************************)
(* Proofs about DatabaseContents, for any number of projects, schemas,     *)
(* backups, requests and faults.                                           *)
(*                                                                         *)
(* Backups: whatever mentions one, the cluster, a table, an answer or a    *)
(* click, mentions a row that was once made, and two of them with the same *)
(* number are one (BackupInv).  Schemas: what a list answers is of the     *)
(* project it was asked for, and a table that does not load and is known   *)
(* to be the selected project's shows no other's (SchemaInv).              *)
(***************************************************************************)
EXTENDS DatabaseContents, TLAPS

Names == Schemas \cup Nat \cup {Nil}

Rows == [project: Projects, name: Names, serial: Nat]

Requests ==
    [do: {"list", "create", "delete"}, project: Projects, name: Names,
     row: Rows \cup {Nil}, own: BOOLEAN, at: {"sent", "found", "answered"},
     ok: BOOLEAN, seen: SUBSET Rows, tail: {"none", "create", "delete"},
     heard: BOOLEAN]

Tables ==
    [rows: SUBSET Rows, own: BOOLEAN, loading: BOOLEAN, creating: BOOLEAN,
     deleting: Names]

TypeOK ==
    /\ schemas \subseteq Rows /\ backups \subseteq Rows
    /\ made \in Nat
    /\ project \in Projects /\ ready \in BOOLEAN
    /\ kind \in {"schema", "backup"}
    /\ table \in Tables
    /\ requests \subseteq Requests

\* A click sends the name of its row.
ClickInv == \A r \in requests : r.do = "delete" => r.row \in Rows /\ r.name = r.row.name

Known ==
    backups \cup table.rows \cup (UNION {r.seen : r \in requests})
            \cup {r.row : r \in {q \in requests : q.do = "delete"}}

BackupInv ==
    IF kind = "backup"
    THEN /\ \A x \in Known : x.name = x.serial /\ x.serial <= made
         /\ \A x, y \in Known : x.serial = y.serial => x = y
    ELSE backups = {}

SchemaInv ==
    IF kind = "schema"
    THEN /\ \A s \in schemas \cup table.rows : s.serial = 0
         /\ \A r \in requests :
              /\ \A s \in r.seen : s.project = r.project /\ s.serial = 0
              /\ r.do = "delete" =>
                    r.row.serial = 0 /\ (r.own => r.row.project = r.project)
         /\ ready /\ table.own /\ ~table.loading => \A s \in table.rows : s.project = project
    ELSE schemas = {}

Inv == TypeOK /\ ClickInv /\ BackupInv /\ SchemaInv
-----------------------------------------------------------------------------
(* A load is a request that mentions no row.                               *)
LEMMA LoadType ==
    ASSUME NEW p \in Projects, NEW tail \in {"none", "create", "delete"}
    PROVE  /\ Load(p, tail) \in Requests
           /\ Load(p, tail).seen = {} /\ Load(p, tail).do = "list"
           /\ Load(p, tail).project = p
BY DEF Load, Call, Requests, Rows, Names

LEMMA CallType ==
    ASSUME NEW do \in {"list", "create", "delete"}, NEW p \in Projects, NEW n \in Names,
           NEW row \in Rows \cup {Nil}, NEW own \in BOOLEAN
    PROVE  /\ Call(do, p, n, row, own) \in Requests
           /\ Call(do, p, n, row, own).do = do
           /\ Call(do, p, n, row, own).project = p
           /\ Call(do, p, n, row, own).name = n
           /\ Call(do, p, n, row, own).row = row
           /\ Call(do, p, n, row, own).own = own
           /\ Call(do, p, n, row, own).seen = {}
BY DEF Call, Requests, Rows, Names

\* Of the requests after a step, each is an old one, one in a new state
\* that mentions the same rows, or mentions none.
Derived(t) ==
    /\ t \in Requests
    /\ \/ \E r \in requests :
            /\ t.do = r.do /\ t.project = r.project /\ t.name = r.name
            /\ t.row = r.row /\ t.own = r.own /\ t.seen \subseteq r.seen
       \/ t.do # "delete" /\ t.seen = {}

\* A step that mentions no new row, and shows none it should not.
Quiet ==
    /\ \A t \in requests' : Derived(t)
    /\ schemas' \subseteq schemas /\ backups' \subseteq backups
    /\ made' = made /\ kind' = kind
    /\ project' \in Projects /\ ready' \in BOOLEAN
    /\ table' \in Tables /\ table'.rows \subseteq table.rows
    /\ ready' /\ table'.own /\ ~table'.loading =>
            \/ table'.rows = {}
            \/ ready /\ table.own /\ ~table.loading /\ project' = project

LEMMA QuietStep == ASSUME Inv, Quiet PROVE Inv'
<1>1. TypeOK'
  <2>1. requests' \subseteq Requests
    BY DEF Quiet, Derived
  <2> QED  BY <2>1 DEF Inv, TypeOK, Quiet
<1>2. ClickInv'
  <2> SUFFICES ASSUME NEW t \in requests', t.do = "delete"
               PROVE  t.row \in Rows /\ t.name = t.row.name
    BY DEF ClickInv
  <2>1. PICK r \in requests : t.do = r.do /\ t.name = r.name /\ t.row = r.row
    BY DEF Quiet, Derived
  <2> QED  BY <2>1 DEF Inv, ClickInv
<1>3. Known' \subseteq Known
  <2> SUFFICES ASSUME NEW x \in Known' PROVE x \in Known
    OBVIOUS
  <2>1. CASE x \in backups' \/ x \in table'.rows
    BY <2>1 DEF Quiet, Known
  <2>2. ASSUME NEW t \in requests', x \in t.seen PROVE x \in Known
    BY <2>2 DEF Quiet, Derived, Known
  <2>3. ASSUME NEW t \in requests', t.do = "delete", x = t.row PROVE x \in Known
    BY <2>3 DEF Quiet, Derived, Known
  <2> QED  BY <2>1, <2>2, <2>3 DEF Known
<1>4. BackupInv'
  BY <1>3 DEF Inv, BackupInv, Quiet
<1>5. SchemaInv'
  <2>1. CASE kind # "schema"
    BY <2>1 DEF Inv, SchemaInv, Quiet
  <2>2. CASE kind = "schema"
    <3>1. \A s \in schemas' \cup table'.rows : s.serial = 0
      BY <2>2 DEF Inv, SchemaInv, Quiet
    <3>2. ASSUME NEW t \in requests'
          PROVE  /\ \A s \in t.seen : s.project = t.project /\ s.serial = 0
                 /\ t.do = "delete" => t.row.serial = 0 /\ (t.own => t.row.project = t.project)
      BY <2>2, <3>2 DEF Inv, SchemaInv, Quiet, Derived
    <3>3. ready' /\ table'.own /\ ~table'.loading => \A s \in table'.rows : s.project = project'
      BY <2>2 DEF Inv, SchemaInv, Quiet
    <3> QED  BY <2>2, <3>1, <3>2, <3>3 DEF SchemaInv, Quiet
  <2> QED  BY <2>1, <2>2
<1> QED  BY <1>1, <1>2, <1>4, <1>5 DEF Inv

(* What a request is when only its state changes.                          *)
LEMMA Kept == ASSUME Inv, NEW r \in requests PROVE Derived(r)
BY DEF Inv, TypeOK, Derived

LEMMA Moved ==
    ASSUME Inv, NEW r \in requests, NEW at \in {"sent", "found", "answered"}
    PROVE  Derived([r EXCEPT !.at = at])
<1>1. r \in Requests
  BY DEF Inv, TypeOK
<1> DEFINE t == [r EXCEPT !.at = at]
<1>2. /\ t \in Requests /\ t.do = r.do /\ t.project = r.project /\ t.name = r.name
      /\ t.row = r.row /\ t.own = r.own /\ t.seen = r.seen
  BY <1>1 DEF Requests
<1> HIDE DEF t
<1>3. Derived(t)
  BY <1>2 DEF Derived
<1> QED  BY <1>3 DEF t

LEMMA Deafened ==
    ASSUME Inv, NEW r \in requests
    PROVE  Derived([r EXCEPT !.heard = FALSE])
<1>1. r \in Requests
  BY DEF Inv, TypeOK
<1> DEFINE t == [r EXCEPT !.heard = FALSE]
<1>2. /\ t \in Requests /\ t.do = r.do /\ t.project = r.project /\ t.name = r.name
      /\ t.row = r.row /\ t.own = r.own /\ t.seen = r.seen
  BY <1>1 DEF Requests
<1> HIDE DEF t
<1>3. Derived(t)
  BY <1>2 DEF Derived
<1> QED  BY <1>3 DEF t

LEMMA AnsweredEmpty ==
    ASSUME Inv, NEW r \in requests
    PROVE  Derived([r EXCEPT !.at = "answered", !.ok = TRUE, !.seen = {}])
<1>1. r \in Requests
  BY DEF Inv, TypeOK
<1> DEFINE t == [r EXCEPT !.at = "answered", !.ok = TRUE, !.seen = {}]
<1>2. /\ t \in Requests /\ t.do = r.do /\ t.project = r.project /\ t.name = r.name
      /\ t.row = r.row /\ t.own = r.own /\ t.seen = {}
  BY <1>1 DEF Requests
<1> HIDE DEF t
<1>3. Derived(t)
  BY <1>2 DEF Derived
<1> QED  BY <1>3 DEF t

LEMMA Loaded ==
    ASSUME NEW p \in Projects, NEW tail \in {"none", "create", "delete"}
    PROVE  Derived(Load(p, tail))
BY LoadType DEF Derived

LEMMA Refused ==
    ASSUME Inv, NEW r \in requests, Refuse(r)
    PROVE  \A t \in requests' : Derived(t)
BY Kept, Moved DEF Refuse, Become

LEMMA AnsweredNothing ==
    ASSUME Inv, NEW r \in requests, Answer(r, {})
    PROVE  \A t \in requests' : Derived(t)
BY Kept, AnsweredEmpty DEF Answer, Become
-----------------------------------------------------------------------------
(* The table as it was, as a step that leaves the page alone leaves it.    *)
LEMMA PageKept ==
    ASSUME Inv, UNCHANGED page
    PROVE  /\ kind' = kind /\ project' \in Projects /\ ready' \in BOOLEAN
           /\ table' \in Tables /\ table'.rows \subseteq table.rows
           /\ ready' /\ table'.own /\ ~table'.loading =>
                 \/ table'.rows = {}
                 \/ ready /\ table.own /\ ~table.loading /\ project' = project
BY DEF Inv, TypeOK, page

LEMMA Initially == Init => Inv
<1> SUFFICES ASSUME Init PROVE Inv
  OBVIOUS
<1>1. table \in Tables /\ table.rows = {}
  BY DEF Init, Unfilled, Tables, Names
<1>2. TypeOK
  BY <1>1 DEF Init, TypeOK
<1>3. Known = {}
  BY <1>1 DEF Known, Init
<1> QED  BY <1>1, <1>2, <1>3 DEF Inv, Init, ClickInv, BackupInv, SchemaInv

LEMMA Provisioning == ASSUME Inv, NEW p \in Projects, Provision(p) PROVE Inv'
<1>1. UNCHANGED page /\ UNCHANGED <<schemas, backups, made, requests>>
  BY DEF Provision
<1>2. Quiet
  BY <1>1, PageKept, Kept DEF Quiet
<1> QED  BY <1>2, QuietStep

LEMMA Wiping == ASSUME Inv, NEW p \in Projects, Wipe(p) PROVE Inv'
<1>1. /\ UNCHANGED page /\ UNCHANGED <<made, requests>>
      /\ schemas' \subseteq schemas /\ backups' \subseteq backups
  BY DEF Wipe
<1>2. Quiet
  BY <1>1, PageKept, Kept DEF Quiet
<1> QED  BY <1>2, QuietStep

LEMMA LookingUp == ASSUME Inv, NEW r \in requests, Lookup(r) PROVE Inv'
<1>1. UNCHANGED page /\ UNCHANGED <<schemas, backups, made>>
  BY DEF Lookup, cluster
<1>2. \A t \in requests' : Derived(t)
  BY Refused, Kept, Moved DEF Lookup, Become
<1>3. Quiet
  BY <1>1, <1>2, PageKept DEF Quiet
<1> QED  BY <1>3, QuietStep

LEMMA Losing == ASSUME Inv, NEW r \in requests, Lose(r) PROVE Inv'
<1>1. UNCHANGED page /\ UNCHANGED <<schemas, backups, made>> /\ Refuse(r)
  BY DEF Lose
<1>2. Quiet
  BY <1>1, PageKept, Refused DEF Quiet
<1> QED  BY <1>2, QuietStep

LEMMA Failing == ASSUME Inv, NEW r \in requests, SQLFails(r) PROVE Inv'
<1>1. UNCHANGED page /\ UNCHANGED <<schemas, backups, made>> /\ Refuse(r)
  BY DEF SQLFails, cluster
<1>2. Quiet
  BY <1>1, PageKept, Refused DEF Quiet
<1> QED  BY <1>2, QuietStep

LEMMA DroppingSchema == ASSUME Inv, NEW r \in requests, DeleteSchema(r) PROVE Inv'
<1>1. /\ UNCHANGED page /\ UNCHANGED <<backups, made>> /\ schemas' \subseteq schemas
      /\ Answer(r, {}) \/ Refuse(r)
  BY DEF DeleteSchema
<1>2. Quiet
  BY <1>1, PageKept, Refused, AnsweredNothing DEF Quiet
<1> QED  BY <1>2, QuietStep

LEMMA DeletingBackup == ASSUME Inv, NEW r \in requests, DeleteBackup(r) PROVE Inv'
<1>1. /\ UNCHANGED page /\ UNCHANGED <<schemas, made>> /\ backups' \subseteq backups
      /\ Answer(r, {}) \/ Refuse(r)
  BY DEF DeleteBackup
<1>2. Quiet
  BY <1>1, PageKept, Refused, AnsweredNothing DEF Quiet
<1> QED  BY <1>2, QuietStep

LEMMA CreatingSchema == ASSUME Inv, NEW r \in requests, CreateSchema(r) PROVE Inv'
<1>1. /\ UNCHANGED page /\ UNCHANGED <<backups, made>>
      /\ schemas' = schemas \cup {Schema(r)} /\ kind = "schema"
      /\ Answer(r, {}) \/ Refuse(r)
  BY DEF CreateSchema, Acts
<1>2. /\ Schema(r) \in Rows /\ Schema(r).serial = 0
  BY DEF Inv, TypeOK, Requests, Schema, Row, Rows
<1>3. \A t \in requests' : Derived(t)
  BY <1>1, Refused, AnsweredNothing
<1>4. UNCHANGED <<project, ready, kind, table>>
  BY <1>1 DEF page
<1>5. TypeOK'
  BY <1>1, <1>2, <1>3, <1>4 DEF Inv, TypeOK, Derived
<1>6. ClickInv'
  BY <1>3 DEF Inv, ClickInv, Derived
<1>7. BackupInv'
  BY <1>1, <1>4 DEF Inv, BackupInv
<1>8. SchemaInv'
  <2>1. \A s \in schemas' \cup table'.rows : s.serial = 0
    BY <1>1, <1>2, <1>4 DEF Inv, SchemaInv
  <2>2. ASSUME NEW t \in requests'
        PROVE  /\ \A s \in t.seen : s.project = t.project /\ s.serial = 0
               /\ t.do = "delete" => t.row.serial = 0 /\ (t.own => t.row.project = t.project)
    BY <1>1, <1>3, <2>2 DEF Inv, SchemaInv, Derived
  <2> QED  BY <1>1, <1>4, <2>1, <2>2 DEF Inv, SchemaInv
<1> QED  BY <1>5, <1>6, <1>7, <1>8 DEF Inv

LEMMA CreatingBackup == ASSUME Inv, NEW r \in requests, CreateBackup(r) PROVE Inv'
<1> DEFINE b == Row(r.project, made + 1, made + 1)
<1>1. /\ UNCHANGED page /\ UNCHANGED schemas /\ made' = made + 1
      /\ backups' = backups \cup {b} /\ kind = "backup" /\ Answer(r, {})
  BY DEF CreateBackup, AddBackup, Acts
<1>2. /\ b \in Rows /\ b.serial = made + 1 /\ b.name = made + 1 /\ made \in Nat
  BY DEF Inv, TypeOK, Requests, Row, Rows, Names
<1> HIDE DEF b
<1>3. \A t \in requests' : Derived(t)
  BY <1>1, AnsweredNothing
<1>4. UNCHANGED <<project, ready, kind, table>>
  BY <1>1 DEF page
<1>5. TypeOK'
  BY <1>1, <1>2, <1>3, <1>4 DEF Inv, TypeOK, Derived
<1>6. ClickInv'
  BY <1>3 DEF Inv, ClickInv, Derived
<1>7. Known' \subseteq Known \cup {b}
  <2> SUFFICES ASSUME NEW x \in Known' PROVE x \in Known \cup {b}
    OBVIOUS
  <2>1. CASE x \in backups' \/ x \in table'.rows
    BY <2>1, <1>1, <1>4 DEF Known
  <2>2. ASSUME NEW t \in requests', x \in t.seen PROVE x \in Known
    BY <2>2, <1>3 DEF Derived, Known
  <2>3. ASSUME NEW t \in requests', t.do = "delete", x = t.row PROVE x \in Known
    BY <2>3, <1>3 DEF Derived, Known
  <2> QED  BY <2>1, <2>2, <2>3 DEF Known
<1>8. \A x \in Known : x.name = x.serial /\ x.serial <= made /\ x.serial \in Nat
  <2>1. Known \subseteq Rows
    BY DEF Inv, TypeOK, ClickInv, Known, Tables, Requests
  <2> QED  BY <1>1, <2>1 DEF Inv, BackupInv, Rows
<1>9. BackupInv'
  <2>1. \A x \in Known' : x.name = x.serial /\ x.serial <= made'
    BY <1>1, <1>2, <1>7, <1>8
  <2>2. ASSUME NEW x \in Known', NEW y \in Known', x.serial = y.serial PROVE x = y
    <3>1. CASE x \in Known /\ y \in Known
      BY <2>2, <3>1, <1>1 DEF Inv, BackupInv
    <3>2. CASE x = b
      BY <2>2, <3>2, <1>2, <1>7, <1>8
    <3>3. CASE y = b
      BY <2>2, <3>3, <1>2, <1>7, <1>8
    <3> QED  BY <3>1, <3>2, <3>3, <1>7
  <2> QED  BY <1>1, <1>4, <2>1, <2>2 DEF BackupInv
<1>10. SchemaInv'
  BY <1>1, <1>4 DEF Inv, SchemaInv
<1> QED  BY <1>5, <1>6, <1>9, <1>10 DEF Inv

LEMMA Listing == ASSUME Inv, NEW r \in requests, List(r) PROVE Inv'
<1>1. UNCHANGED page /\ UNCHANGED <<schemas, backups, made>>
  BY DEF List, cluster
<1>2. CASE Refuse(r)
  <2>1. Quiet
    BY <1>1, <1>2, PageKept, Refused DEF Quiet
  <2> QED  BY <2>1, QuietStep
<1>3. CASE ~Refuse(r)
  <2> DEFINE seen == {x \in schemas \cup backups : x.project = r.project}
             t == [r EXCEPT !.at = "answered", !.ok = TRUE, !.seen = seen]
  <2>1. requests' = (requests \ {r}) \cup {t} /\ r.do = "list"
    BY <1>3 DEF List, Answer, Become
  <2>2. r \in Requests /\ seen \subseteq Rows
    BY DEF Inv, TypeOK
  <2>3. /\ t \in Requests /\ t.do = "list" /\ t.project = r.project
        /\ t.seen = seen
    BY <2>1, <2>2 DEF Requests
  <2> HIDE DEF t
  <2>4. UNCHANGED <<project, ready, kind, table>>
    BY <1>1 DEF page
  <2>5. TypeOK'
    BY <1>1, <2>1, <2>3, <2>4 DEF Inv, TypeOK
  <2>6. ClickInv'
    BY <2>1, <2>3 DEF Inv, ClickInv
  <2>7. kind = "backup" => schemas = {} /\ Known' \subseteq Known
    <3>1. kind = "backup" => schemas = {}
      BY DEF Inv, TypeOK, SchemaInv
    <3> SUFFICES ASSUME kind = "backup", NEW x \in Known' PROVE x \in Known
      BY <3>1
    <3>2. CASE x \in backups' \/ x \in table'.rows
      BY <3>2, <1>1, <2>4 DEF Known
    <3>3. ASSUME NEW q \in requests', x \in q.seen PROVE x \in Known
      BY <3>3, <3>1, <2>1, <2>3 DEF Known
    <3>4. ASSUME NEW q \in requests', q.do = "delete", x = q.row PROVE x \in Known
      BY <3>4, <2>1, <2>3 DEF Known
    <3> QED  BY <3>2, <3>3, <3>4 DEF Known
  <2>8. BackupInv'
    BY <1>1, <2>4, <2>7 DEF Inv, BackupInv
  <2>9. SchemaInv'
    <3>1. CASE kind # "schema"
      BY <3>1, <1>1, <2>4 DEF Inv, SchemaInv
    <3>2. CASE kind = "schema"
      <4>1. backups = {}
        BY <3>2 DEF Inv, BackupInv
      <4>2. \A s \in seen : s.project = r.project /\ s.serial = 0
        BY <3>2, <4>1 DEF Inv, SchemaInv
      <4> HIDE DEF seen
      <4>3. ASSUME NEW q \in requests'
            PROVE  /\ \A s \in q.seen : s.project = q.project /\ s.serial = 0
                   /\ q.do = "delete" => q.row.serial = 0 /\ (q.own => q.row.project = q.project)
        BY <3>2, <4>2, <4>3, <2>1, <2>3 DEF Inv, SchemaInv
      <4> QED  BY <3>2, <4>3, <1>1, <2>4 DEF Inv, SchemaInv
    <3> QED  BY <3>1, <3>2
  <2> QED  BY <2>5, <2>6, <2>8, <2>9 DEF Inv
<1> QED  BY <1>2, <1>3
-----------------------------------------------------------------------------
LEMMA TableReloads ==
    ASSUME Inv
    PROVE  /\ [table EXCEPT !.loading = TRUE] \in Tables
           /\ [table EXCEPT !.loading = TRUE].rows = table.rows
           /\ [table EXCEPT !.loading = TRUE].loading
BY DEF Inv, TypeOK, Tables

LEMMA Reloading ==
    ASSUME Inv, NEW p \in Projects, Reload(p), UNCHANGED <<schemas, backups, made, kind>>,
           project' \in Projects, ready' \in BOOLEAN
    PROVE  Inv'
<1>1. \A t \in requests' : Derived(t)
  BY Kept, Loaded DEF Reload
<1>2. table' \in Tables /\ table'.rows = table.rows /\ table'.loading
  BY TableReloads DEF Reload
<1>3. Quiet
  BY <1>1, <1>2 DEF Quiet
<1> QED  BY <1>3, QuietStep

LEMMA Unmounting ==
    ASSUME Inv, Unmount, UNCHANGED <<schemas, backups, made, kind, project>>,
           ready' \in BOOLEAN
    PROVE  Inv'
<1>1. \A t \in requests' : Derived(t)
  BY Deafened DEF Unmount
<1>2. table' \in Tables /\ table'.rows = {}
  BY DEF Unmount, Unfilled, Tables, Names
<1>3. Quiet
  BY <1>1, <1>2 DEF Quiet, Inv, TypeOK
<1> QED  BY <1>3, QuietStep

LEMMA Switching == ASSUME Inv, NEW p \in Projects, Switch(p) PROVE Inv'
<1>1. UNCHANGED <<schemas, backups, made, kind, ready>> /\ project' = p
  BY DEF Switch, cluster
<1>2. CASE ready
  BY <1>1, <1>2, Reloading DEF Switch, Inv, TypeOK
<1>3. CASE ~ready
  <2>1. UNCHANGED <<table, requests>>
    BY <1>3 DEF Switch
  <2>2. Quiet
    BY <1>1, <1>3, <2>1, Kept DEF Quiet, Inv, TypeOK
  <2> QED  BY <2>2, QuietStep
<1> QED  BY <1>2, <1>3

LEMMA BecomingReady == ASSUME Inv, Readied PROVE Inv'
<1>1. /\ UNCHANGED <<schemas, backups, made, kind, project>> /\ ready' = TRUE
      /\ Reload(project) /\ project \in Projects
  BY DEF Readied, cluster, Inv, TypeOK
<1> QED  BY <1>1, Reloading

LEMMA BecomingUnready == ASSUME Inv, Unreadied PROVE Inv'
<1>1. UNCHANGED <<schemas, backups, made, kind, project>> /\ ready' = FALSE
  BY DEF Unreadied, cluster
<1>2. CASE kind = "backup"
  BY <1>1, <1>2, Unmounting DEF Unreadied
<1>3. CASE kind # "backup"
  <2>1. UNCHANGED <<table, requests>>
    BY <1>3 DEF Unreadied
  <2>2. Quiet
    BY <1>1, <2>1, Kept DEF Quiet, Inv, TypeOK
  <2> QED  BY <2>2, QuietStep
<1> QED  BY <1>2, <1>3

LEMMA Leaving == ASSUME Inv, Leave PROVE Inv'
<1>1. /\ UNCHANGED <<schemas, backups, made, kind, project>> /\ ready' = FALSE
      /\ Unmount
  BY DEF Leave, cluster
<1> QED  BY <1>1, Unmounting

LEMMA Ticking == ASSUME Inv, Tick PROVE Inv'
<1>1. /\ UNCHANGED <<schemas, backups, made, kind, project, ready>>
      /\ Reload(project) /\ project \in Projects /\ ready \in BOOLEAN
  BY DEF Tick, cluster, Inv, TypeOK
<1> QED  BY <1>1, Reloading

LEMMA ClickingCreate ==
    ASSUME Inv, NEW n \in Schemas \cup {Nil}, ClickCreate(n)
    PROVE  Inv'
<1> DEFINE c == Call("create", project, n, Nil, FALSE)
<1>1. /\ UNCHANGED <<schemas, backups, made, kind, project, ready>>
      /\ requests' = requests \cup {c}
      /\ table' = [table EXCEPT !.creating = TRUE]
  BY DEF ClickCreate, Ask, cluster
<1>2. c \in Requests /\ c.do = "create" /\ c.seen = {}
  <2>1. project \in Projects /\ n \in Names
    BY DEF Inv, TypeOK, Names
  <2> QED  BY <2>1 DEF Call, Requests
<1> HIDE DEF c
<1>3. \A t \in requests' : Derived(t)
  BY <1>1, <1>2, Kept DEF Derived
<1>4. /\ table' \in Tables /\ table'.rows = table.rows /\ table'.own = table.own
      /\ table'.loading = table.loading
  BY <1>1 DEF Inv, TypeOK, Tables
<1>5. Quiet
  BY <1>1, <1>3, <1>4 DEF Quiet, Inv, TypeOK
<1> QED  BY <1>5, QuietStep

LEMMA ClickingDelete ==
    ASSUME Inv, NEW row \in table.rows, ClickDelete(row)
    PROVE  Inv'
<1> DEFINE c == Call("delete", project, row.name, row, table.own)
<1>1. /\ UNCHANGED <<schemas, backups, made, kind, project, ready>>
      /\ requests' = requests \cup {c} /\ ready /\ ~table.loading
      /\ table' = [table EXCEPT !.deleting = row.name]
  BY DEF ClickDelete, Ask, cluster
<1>2. row \in Rows /\ row.name \in Names /\ table.own \in BOOLEAN /\ project \in Projects
  BY DEF Inv, TypeOK, Tables, Rows
<1>3. /\ c \in Requests /\ c.do = "delete" /\ c.seen = {} /\ c.row = row
      /\ c.name = row.name /\ c.project = project /\ c.own = table.own
  BY <1>2, CallType
<1> HIDE DEF c
<1>4. /\ table' \in Tables /\ table'.rows = table.rows /\ table'.own = table.own
      /\ table'.loading = table.loading
  BY <1>1, <1>2 DEF Inv, TypeOK, Tables
<1>5. TypeOK'
  BY <1>1, <1>3, <1>4 DEF Inv, TypeOK
<1>6. ClickInv'
  BY <1>1, <1>2, <1>3 DEF Inv, ClickInv
<1>7. Known' \subseteq Known
  <2> SUFFICES ASSUME NEW x \in Known' PROVE x \in Known
    OBVIOUS
  <2>1. CASE x \in backups' \/ x \in table'.rows
    BY <2>1, <1>1, <1>4 DEF Known
  <2>2. ASSUME NEW q \in requests', x \in q.seen PROVE x \in Known
    BY <2>2, <1>1, <1>3 DEF Known
  <2>3. ASSUME NEW q \in requests', q.do = "delete", x = q.row PROVE x \in Known
    BY <2>3, <1>1, <1>3 DEF Known
  <2> QED  BY <2>1, <2>2, <2>3 DEF Known
<1>8. BackupInv'
  BY <1>1, <1>7 DEF Inv, BackupInv
<1>9. SchemaInv'
  <2>1. CASE kind # "schema"
    BY <2>1, <1>1 DEF Inv, SchemaInv
  <2>2. CASE kind = "schema"
    <3>1. row.serial = 0 /\ (table.own => row.project = project)
      BY <2>2, <1>1 DEF Inv, SchemaInv
    <3>2. ASSUME NEW q \in requests'
          PROVE  /\ \A s \in q.seen : s.project = q.project /\ s.serial = 0
                 /\ q.do = "delete" => q.row.serial = 0 /\ (q.own => q.row.project = q.project)
      BY <2>2, <3>1, <3>2, <1>1, <1>3 DEF Inv, SchemaInv
    <3> QED  BY <2>2, <3>2, <1>1, <1>4 DEF Inv, SchemaInv
  <2> QED  BY <2>1, <2>2
<1> QED  BY <1>5, <1>6, <1>8, <1>9 DEF Inv
-----------------------------------------------------------------------------
LEMMA EndedTable ==
    ASSUME Inv, NEW tail
    PROVE  /\ Ended(tail) \in Tables /\ Ended(tail).rows = table.rows
           /\ Ended(tail).own = table.own /\ Ended(tail).loading = table.loading
BY DEF Inv, TypeOK, Tables, Ended, Names

LEMMA HandlingList == ASSUME Inv, NEW r \in requests, HandleList(r) PROVE Inv'
<1>1. /\ UNCHANGED <<schemas, backups, made, kind, project, ready>>
      /\ requests' = requests \ {r}
  BY DEF HandleList, cluster
<1>2. r \in Requests /\ r.seen \subseteq Rows /\ r.ok \in BOOLEAN
  BY DEF Inv, TypeOK, Requests
<1>3. /\ table' \in Tables
      /\ table'.rows = (IF r.ok THEN r.seen ELSE table.rows)
      /\ table'.own = (kind = "schema" /\ r.ok /\ r.project = project)
  <2> DEFINE e == Ended(r.tail)
  <2>1. e \in Tables /\ e.rows = table.rows
    BY EndedTable
  <2>2. table' = [e EXCEPT !.loading = FALSE,
                           !.rows = IF r.ok THEN r.seen ELSE @,
                           !.own = kind = "schema" /\ r.ok /\ r.project = project]
    BY DEF HandleList
  <2> HIDE DEF e
  <2> QED  BY <2>1, <2>2, <1>2 DEF Tables
<1>4. \A x \in table'.rows : x \in table.rows \/ x \in r.seen
  BY <1>3
<1>5. TypeOK'
  BY <1>1, <1>3 DEF Inv, TypeOK
<1>6. ClickInv'
  BY <1>1 DEF Inv, ClickInv
<1>7. Known' \subseteq Known
  <2> SUFFICES ASSUME NEW x \in Known' PROVE x \in Known
    OBVIOUS
  <2>1. CASE x \in backups' \/ x \in table'.rows
    BY <2>1, <1>1, <1>4 DEF Known
  <2>2. ASSUME NEW q \in requests', x \in q.seen PROVE x \in Known
    BY <2>2, <1>1 DEF Known
  <2>3. ASSUME NEW q \in requests', q.do = "delete", x = q.row PROVE x \in Known
    BY <2>3, <1>1 DEF Known
  <2> QED  BY <2>1, <2>2, <2>3 DEF Known
<1>8. BackupInv'
  BY <1>1, <1>7 DEF Inv, BackupInv
<1>9. SchemaInv'
  <2>1. CASE kind # "schema"
    BY <2>1, <1>1 DEF Inv, SchemaInv
  <2>2. CASE kind = "schema"
    <3>1. \A s \in schemas' \cup table'.rows : s.serial = 0
      BY <2>2, <1>1, <1>4 DEF Inv, SchemaInv
    <3>2. table'.own => \A s \in table'.rows : s.project = project'
      BY <2>2, <1>1, <1>3 DEF Inv, SchemaInv
    <3> QED  BY <2>2, <3>1, <3>2, <1>1 DEF Inv, SchemaInv
  <2> QED  BY <2>1, <2>2
<1> QED  BY <1>5, <1>6, <1>8, <1>9 DEF Inv

LEMMA HandlingChange == ASSUME Inv, NEW r \in requests, HandleChange(r) PROVE Inv'
<1>1. UNCHANGED <<schemas, backups, made, kind, project, ready>>
  BY DEF HandleChange, cluster
<1>2. r.project \in Projects /\ r.do \in {"create", "delete"}
  BY DEF Inv, TypeOK, Requests, HandleChange
<1>3. \A t \in requests' : Derived(t)
  BY <1>2, Kept, Loaded DEF HandleChange, Become
<1>4. /\ table' \in Tables /\ table'.rows = table.rows
      /\ ~table'.loading => table'.own = table.own /\ ~table.loading
  <2>1. CASE r.ok
    BY <2>1, TableReloads DEF HandleChange
  <2>2. CASE ~r.ok
    BY <2>2, EndedTable DEF HandleChange
  <2> QED  BY <2>1, <2>2
<1>5. Quiet
  BY <1>1, <1>3, <1>4 DEF Quiet, Inv, TypeOK
<1> QED  BY <1>5, QuietStep

LEMMA Ignoring == ASSUME Inv, NEW r \in requests, Unheard(r) PROVE Inv'
<1>1. UNCHANGED page /\ UNCHANGED <<schemas, backups, made>> /\ requests' = requests \ {r}
  BY DEF Unheard, cluster
<1>2. Quiet
  BY <1>1, PageKept, Kept DEF Quiet
<1> QED  BY <1>2, QuietStep

LEMMA Stuttering == ASSUME Inv, UNCHANGED vars PROVE Inv'
<1>1. UNCHANGED page /\ UNCHANGED <<schemas, backups, made, requests>>
  BY DEF vars, cluster
<1>2. Quiet
  BY <1>1, PageKept, Kept DEF Quiet
<1> QED  BY <1>2, QuietStep

(* Every step keeps the invariant.                                         *)
LEMMA Inductive == Inv /\ [Next]_vars => Inv'
<1> SUFFICES ASSUME Inv, [Next]_vars PROVE Inv'
  OBVIOUS
<1>1. CASE \E p \in Projects : Provision(p) \/ Wipe(p) \/ Switch(p)
  BY <1>1, Provisioning, Wiping, Switching
<1>2. ASSUME NEW r \in requests, Lookup(r) \/ Act(r) \/ Lose(r) PROVE Inv'
  BY <1>2, LookingUp, Losing, Listing, CreatingSchema, DroppingSchema, Failing,
     CreatingBackup, DeletingBackup DEF Act
<1>3. ASSUME NEW r \in requests, HandleList(r) \/ HandleChange(r) \/ Unheard(r) PROVE Inv'
  BY <1>3, HandlingList, HandlingChange, Ignoring
<1>4. CASE Readied \/ Unreadied \/ Leave \/ Tick
  BY <1>4, BecomingReady, BecomingUnready, Leaving, Ticking
<1>5. CASE \E n \in Schemas \cup {Nil} : ClickCreate(n)
  BY <1>5, ClickingCreate
<1>6. CASE \E row \in table.rows : ClickDelete(row)
  BY <1>6, ClickingDelete
<1>7. CASE UNCHANGED vars
  BY <1>7, Stuttering
<1> QED  BY <1>1, <1>2, <1>3, <1>4, <1>5, <1>6, <1>7 DEF Next

LEMMA Invariance == Spec => []Inv
BY Initially, Inductive, PTL DEF Spec

(* Every variable always holds a value of its kind.                        *)
THEOREM TypeCorrect == Spec => []TypeOK
<1>1. Inv => TypeOK
  BY DEF Inv
<1> QED  BY <1>1, Invariance, PTL
-----------------------------------------------------------------------------
DropIsMeant ==
    \A s \in schemas \ schemas' :
        \/ s.project \notin running'
        \/ \E r \in requests :
            /\ r.do = "delete" /\ Schema(r) = s
            /\ r.own => r.row = s

GoingIsMeant ==
    \A b \in backups \ backups' :
        \/ b.project \notin running'
        \/ \E r \in requests : r.do = "delete" /\ r.row = b

(* Only three steps take a schema or a backup away.                        *)
LEMMA Takers ==
    ASSUME Inv, [Next]_vars
    PROVE  \/ schemas \subseteq schemas' /\ backups \subseteq backups'
           \/ \E p \in Projects : Wipe(p)
           \/ \E r \in requests : DeleteSchema(r) \/ DeleteBackup(r)
<1>1. CASE UNCHANGED vars
  BY <1>1 DEF vars, cluster
<1>2. ASSUME NEW p \in Projects, Provision(p) \/ Wipe(p) \/ Switch(p)
      PROVE  (schemas \subseteq schemas' /\ backups \subseteq backups') \/ Wipe(p)
  BY <1>2 DEF Provision, Switch, cluster
<1>3. ASSUME NEW r \in requests, Lookup(r) \/ Act(r) \/ Lose(r)
      PROVE  \/ schemas \subseteq schemas' /\ backups \subseteq backups'
             \/ DeleteSchema(r) \/ DeleteBackup(r)
  BY <1>3 DEF Lookup, Act, Lose, List, CreateSchema, SQLFails, CreateBackup, AddBackup, cluster
<1>4. ASSUME NEW r \in requests, HandleList(r) \/ HandleChange(r) \/ Unheard(r)
      PROVE  schemas \subseteq schemas' /\ backups \subseteq backups'
  BY <1>4 DEF HandleList, HandleChange, Unheard, cluster
<1>5. CASE Readied \/ Unreadied \/ Leave \/ Tick
  BY <1>5 DEF Readied, Unreadied, Leave, Tick, cluster
<1>6. ASSUME NEW n \in Schemas \cup {Nil}, ClickCreate(n)
      PROVE  schemas \subseteq schemas' /\ backups \subseteq backups'
  BY <1>6 DEF ClickCreate, Ask, cluster
<1>7. ASSUME NEW row \in table.rows, ClickDelete(row)
      PROVE  schemas \subseteq schemas' /\ backups \subseteq backups'
  BY <1>7 DEF ClickDelete, Ask, cluster
<1> QED  BY <1>1, <1>2, <1>3, <1>4, <1>5, <1>6, <1>7 DEF Next

(* A row with the project and the name of another, and its number, is it.  *)
LEMMA SameRow ==
    ASSUME NEW x \in Rows, NEW y \in Rows,
           x.project = y.project, x.name = y.name, x.serial = y.serial
    PROVE  x = y
BY DEF Rows

LEMMA MeantStep == ASSUME Inv, [Next]_vars PROVE DropIsMeant /\ GoingIsMeant
<1>1. CASE schemas \subseteq schemas' /\ backups \subseteq backups'
  BY <1>1 DEF DropIsMeant, GoingIsMeant
<1>2. ASSUME NEW p \in Projects, Wipe(p) PROVE DropIsMeant /\ GoingIsMeant
  BY <1>2 DEF Wipe, DropIsMeant, GoingIsMeant
<1>3. ASSUME NEW r \in requests, DeleteSchema(r) PROVE DropIsMeant /\ GoingIsMeant
  <2>1. /\ schemas' = schemas \ {Schema(r)} /\ backups' = backups
        /\ r.do = "delete" /\ kind = "schema"
    BY <1>3 DEF DeleteSchema, Acts
  <2>2. r.row \in Rows /\ r.name = r.row.name /\ r.row.serial = 0
        /\ (r.own => r.row.project = r.project)
    BY <2>1 DEF Inv, ClickInv, SchemaInv
  <2>3. /\ Schema(r) \in Rows /\ Schema(r).project = r.project
        /\ Schema(r).name = r.name /\ Schema(r).serial = 0
    BY DEF Inv, TypeOK, Requests, Schema, Row, Rows
  <2>4. r.own => r.row = Schema(r)
    BY <2>2, <2>3, SameRow
  <2> QED  BY <2>1, <2>4 DEF DropIsMeant, GoingIsMeant
<1>4. ASSUME NEW r \in requests, DeleteBackup(r) PROVE DropIsMeant /\ GoingIsMeant
  <2>1. /\ schemas' = schemas /\ r.do = "delete" /\ kind = "backup"
        /\ \A b \in backups \ backups' : b.name = r.name
    BY <1>4 DEF DeleteBackup, Acts
  <2>2. r.name = r.row.name /\ r.row \in Known
    BY <2>1 DEF Inv, ClickInv, Known
  <2>3. ASSUME NEW b \in backups, b.name = r.name PROVE r.row = b
    <3>1. b \in Known
      BY DEF Known
    <3>2. b.serial = r.row.serial
      BY <2>1, <2>2, <2>3, <3>1 DEF Inv, BackupInv
    <3> QED  BY <2>1, <2>2, <3>1, <3>2 DEF Inv, BackupInv
  <2> QED  BY <2>1, <2>3 DEF DropIsMeant, GoingIsMeant
<1> QED  BY <1>1, <1>2, <1>3, <1>4, Takers

(* A schema is dropped in the project of the row that was clicked, as long *)
(* as the table was filled by a load of the selected project.              *)
THEOREM DropsAreMeant == Spec => SchemaDropsAsMeant
<1>1. Inv /\ [Next]_vars => [DropIsMeant]_vars
  BY MeantStep
<1> QED  BY <1>1, Invariance, PTL DEF Spec, SchemaDropsAsMeant, DropIsMeant

(* No backup is deleted but the one on the row that was clicked, and those *)
(* of an instance that ends.                                               *)
THEOREM BackupsAreMeant == Spec => BackupsGoAsMeant
<1>1. Inv /\ [Next]_vars => [GoingIsMeant]_vars
  BY MeantStep
<1> QED  BY <1>1, Invariance, PTL DEF Spec, BackupsGoAsMeant, GoingIsMeant
-----------------------------------------------------------------------------
(* What stays on the panel.                                                *)

Content(p) == {b \in backups : b.project = p}

\* The panel of p's instance is on the screen.
Open(p) == kind = "backup" /\ ready /\ project = p /\ p \in running

\* A request of p, and no older list of it.
Fresh(r, p) == r.project = p /\ (r.do = "list" /\ r.ok => r.seen = Content(p))

\* The panel shows what there is, and nothing on its way will change that.
Healed(p) == Open(p) /\ table.rows = Content(p) /\ \A r \in requests : Fresh(r, p)

Same(p) == Open(p)' /\ Content(p)' = Content(p)

\* Each request after a step is an old one of which no more is known, or has
\* its project and mentions no rows.
Staying(p) ==
    /\ table'.rows = table.rows
    /\ \A t \in requests' :
        \/ \E r \in requests :
            /\ t.project = r.project /\ t.do = r.do
            /\ t.ok = r.ok /\ t.seen = r.seen
        \/ t.project = p /\ (t.do = "list" => ~t.ok)

LEMMA StayingHeals == ASSUME NEW p, Healed(p), Same(p), Staying(p) PROVE Healed(p)'
<1>1. table'.rows = Content(p)'
  BY DEF Healed, Same, Staying
<1>2. ASSUME NEW t \in requests' PROVE Fresh(t, p)'
  <2>1. \A r \in requests : r.project = p /\ (r.do = "list" /\ r.ok => r.seen = Content(p)')
    BY DEF Healed, Same, Fresh
  <2> QED  BY <2>1, <1>2 DEF Staying, Fresh
<1> QED  BY <1>1, <1>2 DEF Healed, Same

(* What is refused, moves on or is answered without a list.                *)
LEMMA Passes ==
    ASSUME Inv, NEW r \in requests, NEW p, table' = table, Healed(p),
           \/ Refuse(r)
           \/ Become(r, [r EXCEPT !.at = "found"])
           \/ r.do # "list" /\ Answer(r, {})
    PROVE  Staying(p)
<1>1. r \in Requests /\ r.project = p
  BY DEF Inv, TypeOK, Healed, Fresh
<1>2. ASSUME NEW at, Become(r, [r EXCEPT !.at = at]) PROVE Staying(p)
  <2> DEFINE t == [r EXCEPT !.at = at]
  <2>1. t.project = r.project /\ t.do = r.do /\ t.ok = r.ok /\ t.seen = r.seen
    BY <1>1 DEF Requests
  <2>2. requests' = (requests \ {r}) \cup {t}
    BY <1>2 DEF Become
  <2> HIDE DEF t
  <2> QED  BY <2>1, <2>2 DEF Staying
<1>3. ASSUME r.do # "list", Answer(r, {}) PROVE Staying(p)
  <2> DEFINE t == [r EXCEPT !.at = "answered", !.ok = TRUE, !.seen = {}]
  <2>1. t.project = p /\ t.do # "list"
    BY <1>1, <1>3 DEF Requests
  <2>2. requests' = (requests \ {r}) \cup {t}
    BY <1>3 DEF Answer, Become
  <2> HIDE DEF t
  <2> QED  BY <2>1, <2>2 DEF Staying
<1> QED  BY <1>2, <1>3 DEF Refuse

LEMMA ServiceHeals ==
    ASSUME Inv, NEW p \in Projects, Healed(p), Same(p), NEW r \in requests,
           Lookup(r) \/ Act(r) \/ Lose(r)
    PROVE  Healed(p)'
<1>1. UNCHANGED page
  BY DEF Lookup, Act, Lose, List, CreateSchema, DeleteSchema, SQLFails, CreateBackup,
         AddBackup, DeleteBackup
<1>2. CASE List(r) /\ Found(r)
  <2>1. r \in Requests /\ r.project = p /\ UNCHANGED cluster
    BY <1>2 DEF Inv, TypeOK, Healed, Fresh, List
  <2>2. {x \in schemas \cup backups : x.project = r.project} = Content(p)
    BY <2>1 DEF Inv, SchemaInv, Healed, Open, Content
  <2> DEFINE t == [r EXCEPT !.at = "answered", !.ok = TRUE, !.seen = Content(p)]
  <2>3. requests' = (requests \ {r}) \cup {t}
    BY <1>2, <2>2 DEF List, Answer, Become
  <2>4. t.project = p /\ t.seen = Content(p)
    BY <2>1 DEF Requests
  <2> HIDE DEF t
  <2>5. \A q \in requests' : Fresh(q, p)'
    BY <2>3, <2>4 DEF Healed, Same, Fresh
  <2> QED  BY <2>5, <1>1 DEF Healed, Same, page
<1>3. CASE ~(List(r) /\ Found(r))
  <2>1. \/ Refuse(r)
        \/ Become(r, [r EXCEPT !.at = "found"])
        \/ r.do # "list" /\ Answer(r, {})
    BY <1>3 DEF Lookup, Act, Lose, List, CreateSchema, DeleteSchema, SQLFails, CreateBackup,
         AddBackup, DeleteBackup, Acts
  <2> QED  BY <2>1, <1>1, Passes, StayingHeals DEF page
<1> QED  BY <1>2, <1>3

LEMMA AnswersHeal ==
    ASSUME Inv, NEW p \in Projects, Healed(p), Same(p), NEW r \in requests,
           HandleList(r) \/ HandleChange(r) \/ Unheard(r)
    PROVE  Healed(p)'
<1>1. r \in Requests /\ r.project = p /\ table \in Tables
  BY DEF Inv, TypeOK, Healed, Fresh
<1>2. CASE HandleList(r)
  <2> DEFINE e == Ended(r.tail)
  <2>1. e \in Tables /\ e.rows = table.rows
    BY EndedTable, <1>1 DEF Inv, TypeOK
  <2>2. table' = [e EXCEPT !.loading = FALSE,
                           !.rows = IF r.ok THEN r.seen ELSE @,
                           !.own = kind = "schema" /\ r.ok /\ r.project = project]
    BY <1>2 DEF HandleList
  <2> HIDE DEF e
  <2>3. table'.rows = IF r.ok THEN r.seen ELSE table.rows
    BY <2>1, <2>2 DEF Tables
  <2>4. table'.rows = Content(p)
    BY <1>2, <2>3 DEF HandleList, Healed, Fresh
  <2>5. requests' \subseteq requests
    BY <1>2 DEF HandleList
  <2> QED  BY <2>4, <2>5 DEF Healed, Same, Fresh
<1>3. CASE HandleChange(r)
  <2>1. table'.rows = table.rows
    <3>1. CASE r.ok
      BY <3>1, <1>3, TableReloads DEF HandleChange, Inv, TypeOK
    <3>2. CASE ~r.ok
      BY <3>2, <1>3, EndedTable DEF HandleChange, Inv, TypeOK
    <3> QED  BY <3>1, <3>2
  <2>2. Load(r.project, r.do).project = p /\ ~Load(r.project, r.do).ok
    BY <1>1 DEF Load, Call
  <2>3. Staying(p)
    BY <1>3, <2>1, <2>2 DEF HandleChange, Become, Staying
  <2> QED  BY <2>3, StayingHeals
<1>4. CASE Unheard(r)
  <2>1. Staying(p)
    BY <1>4 DEF Unheard, page, Staying
  <2> QED  BY <2>1, StayingHeals
<1> QED  BY <1>2, <1>3, <1>4

LEMMA PageHeals ==
    ASSUME Inv, NEW p \in Projects, Healed(p), Same(p),
           \/ Tick
           \/ \E n \in Schemas \cup {Nil} : ClickCreate(n)
           \/ \E row \in table.rows : ClickDelete(row)
    PROVE  Healed(p)'
<1>1. project = p /\ table \in Tables
  BY DEF Healed, Open, Inv, TypeOK
<1>2. CASE Tick
  <2>1. Load(project, "none").project = p /\ ~Load(project, "none").ok
    BY <1>1 DEF Load, Call
  <2>2. table'.rows = table.rows
    BY <1>2, <1>1, TableReloads DEF Tick, Reload, Inv, TypeOK
  <2>3. Staying(p)
    BY <1>2, <2>1, <2>2 DEF Tick, Reload, Staying
  <2> QED  BY <2>3, StayingHeals
<1>3. CASE \E n \in Schemas \cup {Nil} : ClickCreate(n)
  <2>1. PICK n \in Schemas \cup {Nil} : ClickCreate(n)
    BY <1>3
  <2>2. Call("create", project, n, Nil, FALSE).project = p
        /\ Call("create", project, n, Nil, FALSE).do = "create"
    BY <1>1 DEF Call
  <2>3. Staying(p)
    BY <2>1, <2>2, <1>1 DEF ClickCreate, Ask, Staying, Tables
  <2> QED  BY <2>3, StayingHeals
<1>4. CASE \E row \in table.rows : ClickDelete(row)
  <2>1. PICK row \in table.rows : ClickDelete(row)
    BY <1>4
  <2>2. Call("delete", project, row.name, row, table.own).project = p
        /\ Call("delete", project, row.name, row, table.own).do = "delete"
    BY <1>1 DEF Call
  <2>3. Staying(p)
    BY <2>1, <2>2, <1>1 DEF ClickDelete, Ask, Staying, Tables
  <2> QED  BY <2>3, StayingHeals
<1> QED  BY <1>2, <1>3, <1>4

LEMMA StepHeals ==
    ASSUME Inv, [Next]_vars, NEW p \in Projects, Healed(p), Same(p)
    PROVE  Healed(p)'
<1>1. CASE UNCHANGED vars
  <2>1. Staying(p)
    BY <1>1 DEF vars, page, Staying
  <2> QED  BY <2>1, StayingHeals
<1>2. ASSUME NEW q \in Projects, Provision(q) \/ Wipe(q) \/ Switch(q) PROVE Healed(p)'
  <2>1. ~Switch(q)
    BY DEF Switch, Healed, Same, Open
  <2>2. Staying(p)
    BY <1>2, <2>1 DEF Provision, Wipe, page, Staying
  <2> QED  BY <2>2, StayingHeals
<1>3. ASSUME NEW r \in requests,
             \/ Lookup(r) \/ Act(r) \/ Lose(r)
             \/ HandleList(r) \/ HandleChange(r) \/ Unheard(r)
      PROVE  Healed(p)'
  BY <1>3, ServiceHeals, AnswersHeal
<1>4. CASE Readied \/ Unreadied \/ Leave
  BY <1>4 DEF Readied, Unreadied, Leave, Healed, Same, Open
<1> QED  BY <1>1, <1>2, <1>3, <1>4, PageHeals DEF Next

(* The part of BackupsHeal that is safety: once the panel shows the        *)
(* backups of its instance, and no request of another project and no older *)
(* list is on its way, it goes on showing them for as long as it is there  *)
(* and they are the same: no failed change, load that ends out of order or *)
(* click can put anything else there.                                      *)
THEOREM HealedBackupsStay ==
    Spec => [][\A p \in Projects :
                 Healed(p) /\ Open(p)' /\ Content(p)' = Content(p) => Healed(p)']_vars
<1>1. Inv /\ [Next]_vars =>
        [\A p \in Projects :
           Healed(p) /\ Open(p)' /\ Content(p)' = Content(p) => Healed(p)']_vars
  BY StepHeals DEF Same
<1> QED  BY <1>1, Invariance, PTL DEF Spec
=============================================================================
