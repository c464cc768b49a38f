# dcloud: specifications

TLA+ specifications of [dcloud](../src), a small cloud platform: Go services
over one PostgreSQL database and one Kubernetes cluster, and a web console that
polls them. The modules are checked with TLC on small instances and the core is
proved with TLAPS. `PROJECT.json` maps every definition to the lines it models.

## 1. The system

Every service runs two replicas (`charts/dcloud/values.yaml`). All share the
database; none talks to another except `project`, which fans a deletion out.

| part | state | operations | hard part |
|---|---|---|---|
| **operations table** (`internal/db/sqlc`) | a row per long-running deletion: status, resource type and name | insert, blind update by id, list pending by type, get | written by goroutines and by reconcilers of several replicas |
| **compute** (`internal/compute`) | VirtualMachines in the cluster | create, delete (operation + goroutine), reconcile "vm" and "project" operations every 5 s | snapshots, names that are re-used, crashes |
| **storage** (`internal/storage`) | ObjectBucketClaims | create, delete, reconcile; credentials; S3 proxy | the same |
| **database** (`internal/database`) | KubeBlocks clusters, their backups and schemas | create, delete (refuses a name it does not list), reconcile; backups; schemas over SQL | the same, and SQL identifiers |
| **container** (`internal/container`) | Knative services and domain mappings in the cluster, `containers` rows | deploy, delete (operation + goroutine, no reconciler), set a domain, stream logs | two stores written one after the other; domains shared by services |
| **project** (`internal/project`) | `projects`, `project_repositories`, one namespace per project | create, delete (fan-out, namespace, operation, row), repository settings | swallowed errors, order of the four effects, creations in flight |
| **identity** (`internal/identity`) | users, sessions, signing keys | register, login, logout, JWKS | two replicas creating keys, tokens that outlive sessions |
| **token verification** (`internal/auth/jwtverify`) | a cached key set per process | verify, refresh | staleness, which replica answers a refresh |
| **console** (`console/src`) | the user, the selected project, five lists, the page of a database instance, all of it in the browser | log in and out, select, create and delete projects, load lists, create, change and delete resources, poll operations | closures of old renders, answers that arrive after the user has moved on, bounded polling, effects |

How they interact: the console sends REST requests through nginx, which routes
an operation poll by the prefix of its identifier; a service checks the token
against the JWKS of `identity`, checks the project in the database, acts on the
cluster, and answers. A deletion answers at once with an operation identifier
and goes on in a goroutine.

What makes each part correct:

- *operations*: "done" is never reported before the deletion has happened; a
  deletion is never silently forgotten; every operation is answered in the end;
  an answer that nobody can still overwrite never changes.
- *container*: when no call is in flight, the row, the Knative service and the
  mappings of a name describe the same deployment.
- *project*: a project its owner has deleted is gone, and leaves nothing behind
  that its owner cannot reach.
- *identity and verification*: a token signed by any replica verifies
  everywhere, and goes on doing so when replicas and caches come and go.
- *database contents*: what is dropped or deleted is what was clicked.
- *names*: a name of a Kubernetes object is one, whatever was typed.
- *console*: what is selected and shown belongs to the user and, in the end, to
  the selected project; a name is shown as "deleting" only while its deletion is
  under way, and every deletion comes to an end on the page.

The hazards, each at its line, are in `PROJECT.json`.

## 2. Modules

| module | models | status |
|---|---|---|
| `OperationLifecycle` | abstract: what a polling client is promised | written |
| `ProjectLifecycle` | abstract: the life of a project as a list of projects shows it | written |
| `ResourceServices` | compute, storage and database services on the operations table; refines `OperationLifecycle` | written |
| `MCResourceServices` | its instances | written |
| `ResourceServicesProofs` | its theorems | written |
| `ContainerService`, `MCContainerService` | deploy, delete and domains against Knative and the containers table; refines `OperationLifecycle` too | written |
| `ContainerServiceProofs` | its theorems | written |
| `ProjectDeletion`, `MCProjectDeletion` | creation and deletion of a project: fan-out with and without a token, namespace, cascade, the "project" branch of the compute reconciler, creations in flight; refines `OperationLifecycle` and `ProjectLifecycle` | written |
| `ProjectDeletionProofs` | its theorems | written |
| `TokenVerification`, `MCTokenVerification` | signing keys of several identity replicas, accounts, sessions and tokens, verification against a cached key set | written |
| `TokenVerificationProofs` | its theorems | written |
| `Console`, `MCConsole` | the console's hook with its closures, effects and polls, against the services as nginx shows them | written |
| `ConsoleProofs` | its theorems | written |
| `DatabaseContents`, `MCDatabaseContents` | schemas and backups of database instances, and the page that shows them | written |
| `DatabaseContentsProofs` | its theorems | written |
| `Names`, `MCNames` | sanitising, cutting and suffixing of names, rune by rune | written |
| `NamesProofs` | its theorems | written |

### `ResourceServices`

The three services share one design, so one module models them with the kind of
resource as a parameter.

State. `project` is the row of the project the requests name; `object` and
`uid` are what the API server holds under the name of each resource and how
many objects that name has had; `row` is the operations table; `task` is the
goroutine of each operation, with the replica it runs at; `request` holds the
requests between their checks and their first effect; `sweep` is the pass each
replica's reconciler is making over its snapshot of pending rows; `lost` and
`faults` are bookkeeping of the model: the operations whose goroutine a fault
silenced, and how many faults there have been.

Actions. `CreateMachine` / `CreateBucket` / `CreateDatabase` and
`DeleteMachine` / `DeleteBucket` / `DeleteDatabase` are the handlers up to
their checks; `Post` is the API call of a creation; `Record` inserts the
operation's row and starts its goroutine; `SendDelete` and `ReportFailure` are
the goroutine; `ReconcileMachines` / `ReconcileBuckets` / `ReconcileDatabases`
are a tick of a service's reconciler, `Inspect` its `isDone` for one row, and
`MarkDone` the update that may follow. `Finalize` is the cluster's, `Crash` ends
everything one replica was doing, `DropProject` is the project service's.

A failed call is a disjunct of the action that makes it, paid for out of
`MaxFaults`. A lost answer to a DELETE may or may not have taken effect. A failed
insertion of the row is taken not to have taken effect: the client has no
identifier to ask about then, and no goroutine is started.

Abstractions: one user and one project; a request's fields other than the kind
and the name; the bodies of API objects; an API object is absent, live or
terminating. Two requests in flight at one replica that ask for the same are one.

### `ContainerService`

State. `knative` and `mapping` are the cluster: what is deployed under each
name, and which name each domain leads to. Default hosts and custom domains are
one kind of object in one name space: `Host` is the default host of each name,
and what is asked for as a custom domain is not looked at, so that it may be a
default host, one's own or another's. `row` is the containers table, `operation` the
operations table, `project` the project's row. `call` holds the requests and
the goroutines in flight, each with the step it is about to make (`pc`), the
values it has read, its replica, and whether it is `clean`: it has had its name
to itself and none of its steps has failed. `gone`, `lost`, `torn`, `astray` and
`taken` are history: operations whose service has been absent since the request;
operations whose goroutine was silenced; names whose last request was not clean;
domains that may have been left behind; names whose default host a request about
a custom domain has written since they were last deployed.

Actions. One per call that a handler makes: `Deploy`, `PatchService`,
`MapDefault`, `UpsertContainer`; `DeleteService`, `CreateOperation`,
`ReadDomain`, and in the goroutine `UnmapCustom`, `UnmapDefault`,
`DeleteKnative`, `DeleteContainer`, `UpdateOperation`; `SetServiceDomain`,
`LookUp`, `ApplyDomain` or `RemoveDomain`, `UpdateContainerDomain`. `Crash`
ends what a replica was doing; `DropProject` is the project service's, with the
cascade to the rows.

A failing step ends the request (`Fail`) or is passed over (`Stumble`), as in
the code, and may have taken effect; a failed insertion of the operation is
taken not to have. The two agreement properties speak of names at rest and
exempt `torn` names, `astray` domains and the default hosts of `taken` names.
That is what the code gives: two
requests on one name interleave step by step with no lock, a change from domain
A to domain B never removes A's mapping, applying a mapping takes a domain over
from another service, a deletion removes the mapping of the domain it read,
whoever has it by then, and giving up a custom domain that is the service's own
default host removes the mapping behind its public address, though the row
stays. What the properties add is that nothing else goes
wrong, and that one clean request on a name mends it.

Abstractions: one user and one project; image, port, scale and environment are
one value of `Specs`; status and logs are not modelled, as they are only read.

### `ProjectDeletion`

State. `founding` is the request that creates the project; `project`,
`container` and `operation` are rows; `namespace` and `object` the cluster, one
object of each kind; `placing` and `killing` the requests that create an object
and the goroutines that delete one; `call` the requests that delete the
project, `sweep` the passes of the compute replicas over pending project
operations. `foreign` are the operations that another account than the owner has
asked for. `early` is history: a deletion began while the project was being
created.

Actions. `InsertProject`, `CreateNamespace`, `CreatePolicy`; `Create`, `Post`,
`UpsertContainer`, `KillObject`, `ForgetContainer` for the other services;
`Reap` and `DropNamespace` for the cluster; `DeleteProject`; `DeleteByConnect`
and `DeleteByREST` for the two ways into `CreateProjectDeleteOperation`, which
goes on with `FanOut` (once per service), `DeleteNamespace`, `CreateOperation`,
`DropRow` and `UpdateOperation`; `Tick`, `ListMachines`, `ListContainers`,
`SweepRow` and `MarkDone` for the compute reconciler; `Crash`, which also stands
for a caller that hangs up, as that cancels the context of the request.

The two ways differ in what the services are asked with. The Connect interceptor
stores the caller's token in the context; the REST route passes the request's
own context, which has none. Without a token the other services refuse the
fan-out, and what then removes the resources is the namespace. `NothingIsLeft`
shows that this is enough as long as no step fails.

Two accounts. `CreateProjectDeleteOperation` never asks whose project it is: the
namespace goes whoever asks. The row is deleted `WHERE user_id = $1 AND id = $2`,
and deleting none is no error, so that an operation of another account ends
"done" with the row there (`DroppedFor`), from the request as from a reconciler.
The machines a reconciler lists for such an operation are those of the other
account, of which there are none, and its fan-out is refused. `DoneMeansDropped`,
`ListedProjectsAreUsable` and `LifecycleSpec` are therefore about the owner's
operations, with another account's running beside them at any moment; section 6
says what becomes of the project then.

`Phase` is the project in a list: nothing before its row and after it, and
marked as deleting while an operation that is to delete it is pending, whoever
asked for it. With that for its state the module implements `ProjectLifecycle`.

Abstractions: how the other services carry out a deletion is in the two modules
above, here it is a goroutine with one or two steps; goroutines at the same
stage count as one; a namespace holds one object of each kind. `NothingIsLeft`
says nothing of deletions that began during the creation (`early`): such a
deletion finds no namespace, and the creation makes one afterwards that belongs
to no project.

### `TokenVerification`

State. `table`, `account` and `session` are the tables of signing keys, users
and sessions; `token` is the key that has signed each token; `signer` is what
each identity replica knows, read once at its start; `cache` is what each
verifying process has fetched; `check` holds the verifications in flight.

Actions. `Start` and `Generate` are `EnsureActive`, up to the query and from
the insertion on; `Register`, `Login` and `Logout` are the handlers; `Verify`
reads the cache, `Fetch` has any replica answer, `Store` replaces the cache,
`Look` reads it again and `End` hands the verdict to the caller. `Stop`,
`Restart` and `Age` are crashes, updates and time.

Failing calls are disjuncts that are always possible: nothing they can do needs
a budget. A key is named by its time of activation, so that clocks of replicas
may disagree about the order of keys, and `Newest` is the last row of the query.
No code revokes a key, so all keys are "non-revoked".

Abstractions: the claims; passwords and profiles; a token is one the service has
issued, within its lifetime. Forgery is the business of the signature algorithm.

### `Console`

State. `rows`, `things` and `removals` are what the services hold: projects,
resources, and those of them a pending operation is to delete. `cookie` and
`saved` are the browser's and survive a reload of the page; `user`, `loaded`,
`listed`, `marked`, `active`, `section`, `shown`, `spin` and `deletingProject`
are the hook's `useState`. `requests` holds the asynchronous functions that wait
for an answer, each with its closure (the user and the project of the render it
was called in) and the cookie it was sent with.

Actions. `Serve*` is a service answering, whenever it does; `Handle*` is the
rest of a function once its `await` is over, and ends in `Render`, which sets
the state and makes the requests of the effects that depend on what has changed
(`SelectionEffect`, `SectionEffect`, `UserEffect`). `Poll*` is one round of
`pollOperation`; `Routed` says which operations nginx sends to a service that
has the route. `Tick` is the interval of five seconds, `Refresh` a reload of the
page, the others are clicks. `Settle` and `FinishProject` stand for the
reconcilers of `ResourceServices` and `ProjectDeletion`.

Deletions. The page keeps one string for each kind of resource: the name that is
shown as "deleting" (`spin[k]`). Only the button of that name is disabled, so
that two deletions of a kind may be under way; each sets the string at its click,
and each clears it at its end, in `finally`, whatever name is set by then
(`Reset`). `overlapped` is history: the kinds of which two deletions have been
under way since there was last none. `SpinnerIsWork` says, with any overlap, that
a name that is set is that of a deletion under way, and, where there has been no
overlap, that the one under way is set.

Late answers. `shown[k].late` is history: what the list shows came with an answer
to a function of another user or project than the selected one. The code shows
it all the same: `ShownIsOwn` exempts it, and `ListsHeal` says that lists that
are polled get rid of it. `strays` is history too: a creation that the account
before this one had asked for, answered late, puts its project on this account's
list and selects it, and `SelectedIsOwn` exempts it.

Abstractions: two requests that agree in everything are one, and two operations
for one resource settle together; each service serves a request in one step,
except the deletion of a project, whose operation is seen before its row is gone
(`BeginDeleteProject`, then `ServeDeleteProject` or `FailDeleteProject`); forms,
dialogs, notices, the log viewer and the key-value page are left out.

A row is "deleting" while an operation names the project, whoever asked for it:
the operation is inserted without a look at the owner, and the deletion of the
row looks (`Dropped`). When the operation was another account's, or when it ends
in an error, the row stays, and it loses the mark or keeps it if another
operation is pending (`Unmarked`). The page hears of none of that: it keeps what
its last load has told it (`marked`).

### `DatabaseContents`

State. `running`, `schemas` and `backups` are the cluster's: which projects have
an instance of the name in question, their logical databases, their Backup
objects. `project`, `ready`, `kind` and `table` are the page: the selected
project, whether the list of databases says the instance runs, which of the two
tables is looked at, and its `useState`. A row carries its project and, for a
backup, its serial number; the program sends neither.

Actions. `Lookup` is `lookupInstance`; what a handler does after it
(`CreateSchema`, `DeleteSchema`, `CreateBackup`, `DeleteBackup`, or `SQLFails`)
is a step of its own, so that the instance may end or be made anew in between
(`Wipe`, `Provision`). A statement that times out has taken effect or not: the
`Fault` disjuncts, and `Lose`. `Click*`, `Switch`, `Leave`, `Readied` and
`Unreadied` are the page's events, with the loads their effects start;
`HandleList` and `HandleChange` are the answers, in any order; `Tick` is the
panel's interval, which only the table of backups has.

The flag `own` says that the load of schemas that ended last succeeded and was
of the selected project. Without it the table may show another project's
schemas, and a click drops the selected project's schema of that name: this is
what `SchemaDropsAsMeant` exempts, and nothing else. Backups need no such
exemption, because their names are random; that two are never equal is assumed.

Abstractions: one user; one name of an instance; a statement that has timed out
has taken effect by the time of the answer or never does; charsets, plans,
versions; connection strings, which are cached by the schema's name and never
loaded again, and only read.

### `Names`

`sanitizeDNSLabel` and `ServiceResourceName` of the container service, and the
id that the project service makes of a project's name: one action per rune and
branch of the loop (`Copy`, `Separate`, `Skip`), then the trims, the cut and the
suffix. The loops are actions and not a recursive operator so that what they
build can be proved by an invariant. `Suffix` stands for the hash, or for the
random part of a project's id. That two hashes of four bytes differ is not a
matter of this code.

## 3. Properties and runs

| run | instance | shows |
|---|---|---|
| `ops_vm` | compute, one name, two operations, two replicas, two objects, two faults | `TypeOK`, `DoneMeansGone`, `PendingIsBacked`, `QuiescentIsFinal`, and `LifecycleSpec` (the refinement) |
| `ops_shared` | storage and database, one name in both, two operations, one fault, fairness | `DoneMeansGone` with two reconcilers on one table, `AbsentIsSettled`, `DeleteIsCarriedOut` |
| `container_one` | one name, its default host and another domain, both asked for as custom domains, two requests at a time, one fault, fairness | `DoneMeansGone`, `RowsNeedProject`, `RowsMatchServices`, `RowsMatchMappings`, `PendingIsAttended`, `LifecycleSpec`, `DeletionIsAnswered` |
| `container_two` | two names, a domain both may want, the default host of one that the other may ask for, two requests at a time, no fault | `RowsMatchMappings` across names |
| `project_race` | two deletions at a time, one of them perhaps another account's, one compute replica, one fault | `DoneMeansDropped`, `RowsNeedProject`, `ListedProjectsAreUsable`, `LifecycleSpec`, `ListingSpec` |
| `project_liveness` | one deletion, by the owner or by another account, two faults, fairness | `EmptyIsSettled`, `NothingIsLeft` |
| `tokens` | two identity replicas, two keys, two sessions, one process, two verifications at a time, fairness | `TokensAreListed`, `GenuineIsKnown`, `SettledStays`, `SettledHeals`, `ChecksEnd` |
| `console` | two accounts with a project of one, buckets of two names and the repository, two calls at a time, two polls, one fault | `SelectedIsOwn`, `ShownIsOwn`, `SpinnerIsWork` |
| `console_live` | one account with two projects, containers of one name, one call at a time besides the page's own, two polls, one fault, fairness | `SpinnerEnds`, `ListsHeal` |
| `names` | three runes of three sorts, names of up to seven, a limit of eight | `ServiceNameIsSafe`, `ShortProjectIdIsSafe` |
| `contents` | an instance in each of two projects, one schema name, two backups, two requests at a time, one fault, fairness | `SchemaDropsAsMeant`, `BackupsGoAsMeant`, `BackupsHeal` |
| `tokens_jwks` | two replicas, one session | violation of `JWKSIsWhole` |

The runs do not repeat what is proved where TLC adds nothing to it: the type
invariants of all modules but `ResourceServices` are theorems only (section 4).

Bounds. Two operations on one name are what overlaps: every property speaks of
one operation and what others do to its row or its target, and one other is
enough to have its DELETE go first, its re-creation come between, or its row
settled by the other reconciler. For the same reason two requests at a time are
enough for the container service, where every property speaks of one name or of
two that want one domain. Two domains on one name are needed for a change from
one to the other, and one of them is the default host; `Asked` bounds what is
asked for, so that in `container_two` the other name's default host is asked for
by nobody. Faults with two names at once, and two replicas, are left to the
theorems. Two deletions of a project overlap with each other and with a
reconciler that completes either, with one fault to leave an operation pending
or a row undeleted; the eventual outcome is a matter of one deletion, and is
checked with two faults, so that what one leaves behind can meet another.
`MaxForeign = 1` has one of the two deletions be another account's: what it does
is done once the namespace is gone and the row looked for. A second compute
replica would make no step that the first does not. Two replicas that start
together, and two keys, are all there is to the race of keys: a third replica
starts on a table that is not empty, or makes one key more. Two verifications of
one process are what it takes for one to store over the other. `MaxObjects = 2`
lets the name be re-used once, which separates "the object that was meant" from
"an object of that name". Two faults let a crash and a failed call meet. In the
console, a late answer needs a second project (`console_live`) or a second
account (`console`); a function of each round trip overlaps with one more, and
with the page's own loads, which are not bounded by `MaxRequests`. Two names in
`console` have two deletions of one kind overlap; the third would find what the
second does. In `console_live` the user waits while a call is in flight, so that
deletions do not overlap there: that none of any number of overlapping ones is
held up is `DeletionsAdvance`. `MaxPolls = 2` has a first poll that is not the
last. In `contents`, two projects are the one that was clicked in and the one
that is selected, and two backups are an old and a new one; a third of either
would be in the place of the second. In `names`, the limit leaves five runes
before the suffix, so that names of seven are cut at letters and at hyphens, and
three runes are a letter, the hyphen and all else; the digits of the hash are
told apart by a second letter. Deadlock is not an error in these instances: when
the identifiers are used up and the project is gone, there is nothing left to
do.

Fairness (`Fairness`). A goroutine that was started runs on: weak fairness of
`SendDelete` and `ReportFailure`. Every replica's ticker fires every five
seconds and a pass goes through its whole snapshot: weak fairness of `Tick`,
`Inspect` and `MarkDone`. The cluster finishes a deletion it has begun: weak
fairness of `Finalize`. Faults are actions or disjuncts with a budget, so none
can recur for ever (`TokenVerification` needs no such bound); no fairness is
assumed of users. In `ContainerService` a handler whose operation exists runs on
to the end of its goroutine; handlers of deployments and domains need no
fairness, as no property waits for them. In `ProjectDeletion` handlers,
goroutines, tickers and the cluster are fair in the same way. In
`TokenVerification` only verifications are: their one wait is the HTTP call,
which the client limits to five seconds. In `Console`, what belongs to the
deletion of a name goes on (`DeletionProgress`: requests are served, timers and
continuations run), and so do the loads of polled lists and the interval; the
user need do nothing, and the reconcilers need not settle anything: a deletion
ends on the page because polls are counted. In `DatabaseContents` the interval
and the loads of backups are fair, and nothing else.

The violation is a disagreement of the code with what the repository says.
`JWKSIsWhole`: "JWKS builds an RFC 7517 JSON Web Key Set from the non-revoked
keys" (`identity/keys/keys.go:190`). The chart starts two replicas; on an empty
table each makes a key and publishes that one only. A token signed by one is
refused where the other has answered the last refresh, until both have been
restarted. `GenuineIsKnown` and `SettledHeals` say that nothing else makes a
token unknown, and that the restart is enough. Section 6 lists the other
disagreements met while modelling.

## 4. Theorems

`ResourceServicesProofs` proves, for every set of services, names, operations
and replicas and every bound, under the assumptions `KindsAssumption`,
`BoundsAssumption` and `NilAssumption` of `ResourceServices`:

- `TypeCorrect`: `Spec => []TypeOK`.
- `InductiveInvariant`: `Spec => []IInv`. `DoneMeansGone` is not inductive by
  itself: `MarkDone` acts on what `Inspect` found earlier, so the invariant says
  that what a reconciler carries is sound (`SweepsAreSound`), which in turn needs
  that rows point at resources of the right kind (`RowsWellFormed`), that the
  object a row means never comes back (`uid` only grows), that goroutines have
  rows (`TasksHaveRows`) and that two requests never share an identifier
  (`RequestsAreFresh`).
- `DoneIsHonest` (`DoneMeansGone`) and `PendingIsWorthwhile` (`PendingIsBacked`).
- `Refinement`: `Spec => LifecycleSpec`, one step of the proof per action.
- `SettledIsFinal`: `Spec => QuiescentIsFinal`.
- `DeletionsMoveOn`: a deletion has a `Stage`, from the DELETE that the goroutine
  is to send over the cluster's part to the end, which is that the object is gone,
  the operation failed or a fault has silenced the goroutine. No action takes a
  deletion back, and at the stage where only the cluster is waited for, the
  object is terminating.
- `PassesMoveOn`: while no call fails and the name stays absent, the `Nearness`
  of every reconciler to settling a pending operation never falls: the operation
  is in its snapshot, then what it has found to be done, then settled.

`ContainerServiceProofs` proves, under `FaultsAssumption` and `NilAssumption`:

- `TypeCorrect`. The type invariant is inductive together with `Named`: calls
  that are not idle have a name, and deletions an operation.
- `NoOrphanRows` (`RowsNeedProject`), which is inductive given the types.
- `DoneIsTrue` (`DoneMeansGone`), from `Honest`: no two calls share an operation
  (`Alone`), and the operation of a deletion names what the deletion deletes and
  is in `gone` once the Knative service has been removed (`Attended`).
- `PendingIsHeld` (`PendingIsAttended`) and `Refinement`
  (`Spec => LifecycleSpec`), from `Kept`: an operation that exists names its
  service, only existing operations are in `gone`, and a deletion that has yet to
  create its operation finds none (`Recorded`, `Held`). An action leaves the
  operations alone (`Quiet`), begins a request (`Fresh`), creates, answers, or is
  a crash.
- `RowsAreTrue` (`RowsMatchServices`), from `Ordered`: a clean request has its
  name to itself (`CleanIsSole`), and at each step it finds what its earlier
  steps have written (`Prepared`). Without that a request could finish on a
  service that another has replaced. A request on another name can take the
  mapping of a default host away but never give it back wrongly (`Elsewhere`):
  default hosts are one for each name (`HostAssumption`), and whoever writes one
  as a custom domain puts its owner among the `taken`.
- `MappingsAreTrue` (`RowsMatchMappings`), from `Ordered` and `Arranged`. A mapping
  can be taken by a request on another name, so the invariant says who may: a
  domain that is not astray is claimed, by a row, a request or as a default host,
  for one name at most (`Unique`). A clean request finds the mappings of its name
  as its row has them, until its own steps change one (`Suited`).

`ProjectDeletionProofs` proves, under `KindsAssumption`, `FaultsAssumption` and
`NilAssumption`:

- `TypeCorrect`.
- `DoneIsTrue` (`DoneMeansDropped`) and `NoOrphanRows` (`RowsNeedProject`), from
  `Safe`: whoever is about to write "done" for an operation of the owner has
  deleted the row (`DropsAreFinal`), for which it matters that operations are
  foreign from their request on and that no two requests share one; it stays
  deleted because the row is inserted once, before there are any requests or
  operations (`NothingBeforeTheRow`).
- `ListedIsUsable` (`ListedProjectsAreUsable`), from `NamespaceFollows`: as long
  as nothing has failed, no deletion is between the namespace and the row, and
  another account's has not been there (`Unspoiled`), the namespace is where the
  steps of the creation have brought it.
- `Refinement`: `Spec => LifecycleSpec`, for the operations of the owner: every
  step of another account's is a stutter. No two requests share an operation, and
  one that has yet to create its operation finds none (`OwnOperation`); the
  operations in a reconciler's snapshot exist (`SweptOperations`).
- `ProjectLives`: `Spec => ListingSpec`. Every action but the insertion and the
  deletion of the row can at most set or lift the mark.
- `NothingSurvives`, from `Swept`: without a fault, and with no deletion begun
  during the creation, a request that is past the namespace has left it
  terminating or absent (`DeletionsReachTheNamespace`), and there is nothing in
  a namespace that is absent (`NothingWithoutNamespace`), as a creation that was
  in flight fails there.
- `PassesMoveOn`: the like of the theorem above for the compute replica's pass
  over pending project operations, which lists machines and then container rows.

`TokenVerificationProofs` proves, under `KeysAssumption` and `NilAssumption`:

- `TypeCorrect`, `KeysAreKept` (`TokensAreListed`) and `OneKeyIsKnown`
  (`GenuineIsKnown`), from `IInv`. The last needs to know what a verification
  has before it at each step (`Prepared`): what it fetched is a nonempty part of
  the table, and after it has been stored the cache stays nonempty, though other
  verifications replace it, for as long as the process lives; so that a key that
  is not in the cache is a second key.
- `SettledIsStable` (`SettledStays`).
- `RecoveryLasts`: a process has recovered when every replica publishes the
  whole table and what its verifications have fetched or stored is the table too
  (`Recovered`). That is inductive, whatever starts, stops, ages or overlaps, and
  a process that has recovered refuses no token of the service.
- `HealedForGood`: when all processes have recovered, no token is refused ever
  again.

`ConsoleProofs` proves, under `ConsoleAssumption`:

- `TypeCorrect`, `ListsAreOwn` (`ShownIsOwn`) and `SpinnerIsHonest`
  (`SpinnerIsWork`), from one `IInv`. None is inductive by itself. A list is the
  user's because the request that filled it was sent with the cookie of the user
  in its closure, and a service answers by the cookie; the cookie is the user's
  because a page without a user has nothing on its way but one login
  (`RequestsAreSound`, `CookieIsOfUser`, `OutsideIsEmpty`). A name that is set has
  its deletion because every end clears whatever is set, and of a kind that has
  had no overlap there is one deletion at most (`DeletionsAreTold`). What `Render`
  makes of all this is one lemma, so that the proofs of the handlers only say what
  they render.
- `SelectionIsOwn` (`SelectedIsOwn`), from `IInv` and `JInv`: whatever is on the
  list was put there by the load of the projects, of which one at most is on its
  way, for the user of a page that has none yet (`OneListing`, `Grounded`), or by
  a creation, whose project has been made under the cookie of its closure, and
  for which it is a stray if the user has changed. No row is unborn again.
- `DeletionsAdvance`: a deletion on the page has a `Rank` of at most
  `2 * MaxPolls + 7`. A step that is not a click on a button adds no deletion but
  in place of one of the same name, user and project that had come less far; a
  click adds one. So none is set back, held up or multiplied, by other deletions
  of its kind no more than by the rest of the page. It needs that polls are
  counted from the answer on (`Counted`).
- `HealedListsStay`: a polled list is healed when it shows what the selected
  project holds and no load on its way was made for another project or has an
  older answer. No action ends that but a change of the selection, of the user
  or of what the project holds.

`DatabaseContentsProofs` proves, under `ContentsAssumption`:

- `TypeCorrect`.
- `DropsAreMeant` (`SchemaDropsAsMeant`): the invariant relates each request to
  the table at its click; as rows are hidden while the table loads, a table
  flagged `own` holds only rows of the selected project.
- `BackupsAreMeant` (`BackupsGoAsMeant`): a name is a serial number, no two
  backups share one, and neither does a row on the screen, however old, with a
  backup made after it.
- `HealedBackupsStay`: the panel of backups stays healed, in the sense of
  `HealedListsStay`, while it is open and the backups are the same.

`NamesProofs` proves, under `NamesAssumption`, for names of any length:

- `TypeCorrect`.
- `ServiceNames` (`ServiceNameIsSafe`) and `ProjectIds` (`ShortProjectIdIsSafe`):
  what the loop has built never starts with a hyphen, has no other rune than
  letters and hyphens, and is no longer than what has been read; the trims leave
  no hyphen at its end, also after the cut.
- `PlainNamesAreKept`: a name that is a label with single hyphens is copied rune
  by rune (`Copied`), so that it can be read in the project's id, and in the
  service's name if that has room. The names that are changed, or cut, are others.

Only model-checked: the liveness properties, and the violation. The proof
system does not reason about weak fairness, as it has no rule for ENABLED, and
an argument by a rank that falls is an induction over data. Of most liveness
properties, what is safety is proved for every instance, and TLC checks on a
small one that the steps are made:

| liveness property | what is proved of it |
|---|---|
| `DeleteIsCarriedOut` | `DeletionsMoveOn`: no step takes a deletion back |
| `AbsentIsSettled` | `PassesMoveOn` of `ResourceServicesProofs`: no step sets a pass back |
| `EmptyIsSettled` | `PassesMoveOn` of `ProjectDeletionProofs` |
| `NothingIsLeft` | `NothingSurvives`: all that remains is for the cluster to finish |
| `SettledHeals` | `RecoveryLasts`, `HealedForGood`: what has healed stays so |
| `SpinnerEnds` | `DeletionsAdvance`: steps of a deletion are bounded in number, and none is undone; `SpinnerIsHonest`: with its deletion the name goes |
| `ListsHeal` | `HealedListsStay` |
| `BackupsHeal` | `HealedBackupsStay` |
| `DeletionIsAnswered` | `PendingIsHeld`: who has yet to answer is there; that he goes on is one step after the other, so a rank would say nothing |
| `ChecksEnd` | nothing: a verification is a sequence of five steps, in which it never waits for another |

## 5. Not modelled

- Generated code (`internal/pb`, `internal/db/sqlc/*.go`), about half of the
  Go lines. It encodes messages and passes parameters; the queries are modelled
  from `queries.sql`. The share of the lines that `PROJECT.json` maps is low for
  this reason, and for the console's markup, which is most of the rest.
- The WebSocket and S3 proxies and the log stream, which relay bytes; forms,
  dialogs and layout of the console; charts, except for the number of replicas
  and the routing of operations.
- Connection strings, statuses and credentials, which are only read.
- Linking a repository to a project: a check and one statement on a table
  without a foreign key. Nothing deletes the row: it outlives its project, and
  `GetProjectRepository` (`project/service/server.go:151-165`), which does not ask
  for the project, goes on reading it. `Console` has that (`Emptied`, `ServeList`).
- That a name the user gives is a DNS label (`isDNSLabel`) is only a check: it
  is the reference definition of `Names`.

## 6. Disagreements

Met while modelling. The first has a run; the modules show the others too, since
they follow the code, but no property is checked that they would violate.

1. `JWKSIsWhole`, above.
2. `compute/service/server.go:339-341`: an operation is marked "done once the
   corresponding VirtualMachine has been deleted from the cluster". Two deletions
   of one machine overlap, the second DELETE answers 404, its goroutine (`:234`)
   sets the operation to "error", and the reconciler, which reads pending rows
   only, leaves it so although the machine is gone.
3. The same comment: the reconciler goes by the name and does not know whether
   the goroutine (`:232`) has sent its DELETE. It marks the operation done when
   the name happens to be absent, and the DELETE, sent afterwards, removes a
   machine created under that name in between.
4. `project/cmd/server/cross_clients.go:25-27, 63-64`: "project forwards the
   caller's token", "DeleteAllResources best-effort deletes every resource".
   Through the REST route (`project/handler/rest.go:75`) there is no token to
   forward, every service answers Unauthenticated, and the errors are swallowed.
   What is in the cluster goes with the namespace (`NothingIsLeft`).
5. `identity/keys/sign.go:63-64`: "revoking the opaque session also invalidates
   the JWT". A verification (`auth/jwtverify/verify.go:95`) never looks at
   sessions, so a token is accepted after a logout until it expires.
6. `charts/dcloud/templates/console-nginx-config.yaml:89`: "operations - route by
   ID prefix to the owning service." `project-op-*` goes to the project service,
   which has no such route (`project/handler/rest.go:17-125`): the console polls
   the operation of a project's deletion (`useConsoleController.ts:764`), is
   answered 404, and reports the deletion, which is done, as failed.
7. `CHANGELOG.md:62`: of the deletion of a project, "poll until all VMs are gone
   before completing". Only the compute reconciler does, for operations that the
   request left pending; the request itself is done when the row is deleted.

What no comment denies, but a user would not expect. Each is in the module named,
and excluded by name from the properties that it would violate.

- Another account that knows a project's id deletes it
  (`project/service/server.go:204-241`, `queries.sql:51-53`): the namespace and all
  in it are destroyed, the row stays on its owner's list, marked as deleting for a
  while, and the operation is "done" (`ProjectDeletion`: `foreign`).
- A service's own default host is accepted as its custom domain
  (`container/service/server.go:310-339`). Giving it up deletes the one mapping
  there is, and the service has no public address until it is deployed again. The
  default host of another service is accepted too, and taken over
  (`ContainerService`: `taken`, `astray`).
- Two deletions of one kind overlap, and the end of the first clears the name of
  the second (`useConsoleController.ts:695, 738, 859, 905`): its button is enabled
  and nothing shows that it is still being deleted (`Console`: `overlapped`).
- A project that is being deleted can be selected: before the answer to its
  deletion it is on the list as any other, the question whether it is the active
  one is asked of the render of the click (`:759`), and the failed poll (item 6)
  never loads the list again. `CHANGELOG.md:28` has "block resource access during
  project deletion and auto-navigate away": for what the list says that is so
  (`Console`: `SelectedIsOwn` speaks of `marked`).
- A creation of a project that one account has asked for, answered after the next
  has logged in, puts the project on the list of the latter and selects it
  (`useConsoleController.ts:444-460`; `Console`: `strays`).
- A click on a row of the schemas table after a late or a failed load drops
  another schema than the one shown (`DatabaseContents`: `own`).
- Lists that are not polled keep the late answer of another project's load until
  their page is left (`Console`: `late`).

## 7. Plan

No refinement of `OperationLifecycle` or `ProjectLifecycle` by `Console` is
stated. A request of the page has no identifier, and a reload forgets the
operation it polled, so there is no state of the page that an operation's could
be mapped to; and its `rows` are those of the services, as each request finds
them, of which `ProjectDeletion` is the model that has the steps.

What would come next: an abstract specification of a resource's life that
`ResourceServices` and `ContainerService` implement, as `ProjectDeletion` does
`ProjectLifecycle`; and `UpsertProjectRepository` in `ProjectDeletion`, with the
row that survives.
