------------------------------- MODULE Console -------------------------------
(***************************************************************************)
(* The web console (console/src/hooks/useConsoleController.ts) and the     *)
(* services as it sees them through nginx.                                 *)
(*                                                                         *)
(* Every asynchronous function of the hook is a request: it is sent with   *)
(* the user and the project of the render it was called in (a closure),    *)
(* served by a service, and its answer is handled at any later moment,     *)
(* whatever the user has done in between.  A handler's part between two    *)
(* awaits is one step, and the effects React runs because of its state     *)
(* changes are part of that step.                                          *)
(*                                                                         *)
(* An item is known by its project and its name; every project may use the *)
(* same names.  Two requests that agree in everything are one.  What the   *)
(* services do inside is in the other modules: here each serves a request  *)
(* in one step, but for the deletion of a project.                         *)
(***************************************************************************)
EXTENDS Naturals, FiniteSets

CONSTANTS
    Users,        \* the accounts
    Projects,     \* project ids, including those yet to be made
    Owner,        \* who makes a project, if it is made
    Names,        \* the names of resources
    Kinds,        \* the lists the run looks at, out of AllKinds
    MaxPolls,     \* 60 in pollOperation
    MaxRequests,  \* bound: the user waits while so many run
    MaxFaults,    \* bound: failed calls
    Nil

AllKinds == {"container", "machine", "repository", "bucket", "database"}

ASSUME ConsoleAssumption ==
    /\ Nil \notin Users /\ Nil \notin Projects /\ Nil \notin Names
    /\ Owner \in [Projects -> Users]
    /\ Kinds \subseteq AllKinds
    /\ MaxPolls \in Nat \ {0}
    /\ MaxRequests \in Nat
    /\ MaxFaults \in Nat

OnSelect  == Kinds \cap {"container", "machine", "repository"}
Polled    == Kinds \cap {"container", "machine"}
Sectioned == Kinds \cap {"bucket", "database"}
Sections  == Sectioned \cup {"other"}

\* A project has one repository, which has no name.
NamesOf(k) == IF k = "repository" THEN {Nil} ELSE Names

VARIABLES
    \* the services
    rows,       \* the project's row: unborn, live, deleting or gone
    things,     \* <<project, kind, name>>: what exists
    removals,   \* those of them a pending operation is to delete
    faults,     \* how many calls have failed
    \* the browser, which survives a reload of the page
    cookie,     \* whose dcloud_session it holds
    saved,      \* localStorage: the selected project of each user
    \* the state of the hook
    user,       \* currentUser
    loaded,     \* projectsLoaded
    listed,     \* projects
    marked,     \* those of them with "deleting"
    strays,     \* history: those of them that were put there by a creation
                \* which another account had asked for
    active,     \* activeProjectId
    section,    \* route.section: the sectioned kind it shows, or "other"
    shown,      \* per kind: the items <<project, name>> in its list, and
                \* whether an answer they come from was late (for another
                \* user or project)
    spin,       \* per kind: deletingName, deletingMachineName, ...
    overlapped, \* history: the kinds of which two deletions have been under
                \* way at once, since there was last none
    deletingProject, \* deletingProjectId
    requests    \* what has been sent and not yet been handled

services == <<rows, things, removals, faults>>
projects == <<listed, marked, strays>>
deleting == <<spin, overlapped>>
browser  == <<cookie, saved, user, loaded, projects, active, section,
              shown, deleting, deletingProject>>
vars == <<services, browser, requests>>

Items == Projects \X (Names \cup {Nil})

Nothing == [items |-> {}, late |-> FALSE]

\* What the project service lists: the status is derived from operations.
Entries == Projects \X {"live", "deleting"}

Request ==
    [do: {"me", "login", "logout", "projects", "createProject",
          "deleteProject", "list", "quiet", "create", "update", "delete"},
     k: AllKinds \cup {"none"},
     user: Users \cup {Nil}, project: Projects \cup {Nil}, \* the closure
     of: Projects \cup Names \cup {Nil}, \* what to make, change or delete
     as: Users \cup {Nil},         \* the cookie it was sent with
     at: {"sent", "polling", "answered"},
     ok: BOOLEAN, items: SUBSET Items, projects: SUBSET Entries,
     op: {"none", "pending", "done", "error"},
     polls: Nat,
     ends: BOOLEAN]                \* its end resets "deleting..."

Send(do, k, u, p, of, c) ==
    [do |-> do, k |-> k, user |-> u, project |-> p, of |-> of, as |-> c,
     at |-> "sent", ok |-> FALSE, items |-> {}, projects |-> {},
     op |-> "none", polls |-> 0, ends |-> FALSE]

Init ==
    /\ rows \in [Projects -> {"unborn", "live", "deleting"}]
    /\ things = {} /\ removals = {}
    /\ faults = 0
    /\ cookie \in Users \cup {Nil}
    /\ saved = [u \in Users |-> Nil]
    /\ user = Nil /\ loaded = FALSE /\ listed = {} /\ marked = {}
    /\ strays = {} /\ active = Nil /\ section \in Sections
    /\ shown = [k \in Kinds |-> Nothing]
    /\ spin = [k \in Kinds |-> Nil] /\ overlapped = {} /\ deletingProject = Nil
    /\ requests = {Send("me", "none", Nil, Nil, Nil, cookie)}
-----------------------------------------------------------------------------
(* Rendering: the state a handler has set, and the effects it triggers.    *)

SelectionEffect(u, a, l, c) ==
    {Send("list", k, u, a, Nil, c) :
        k \in IF /\ a # Nil /\ u # Nil /\ l
                 /\ <<u, a, l>> # <<user, active, loaded>>
              THEN OnSelect ELSE {}}

SectionEffect(u, a, s, c) ==
    {Send("list", k, u, a, Nil, c) :
        k \in IF /\ a # Nil /\ u # Nil
                 /\ <<u, a, s>> # <<user, active, section>>
              THEN Sectioned \cap {s} ELSE {}}

\* Mutant: an effect that does not clear what its page showed.
RenderKeeping(u, a, l, s, c, lists, rest) ==
    /\ user' = u /\ active' = a /\ loaded' = l /\ section' = s /\ cookie' = c
    /\ shown' = lists
    /\ requests' = rest \cup SelectionEffect(u, a, l, c)
                        \cup SectionEffect(u, a, s, c)

Render(u, a, l, s, c, lists, rest) ==
    /\ user' = u /\ active' = a /\ loaded' = l /\ section' = s /\ cookie' = c
    /\ shown' = [k \in Kinds |->
                    IF k \in Sectioned \ {s} /\ <<u, a, s>> # <<user, active, section>>
                    THEN Nothing ELSE lists[k]]
    /\ requests' = rest \cup SelectionEffect(u, a, l, c)
                        \cup SectionEffect(u, a, s, c)

\* currentUser was set: the effect clears what the last user saw, takes up
\* the saved project and loads the projects.  Without a user the page goes
\* to /login, which is no section of a list.
UserEffect(u, c, rest) ==
    /\ Render(u, IF u = Nil THEN Nil ELSE saved[u], FALSE,
              IF u = Nil THEN "other" ELSE section, c,
              [k \in Kinds |-> IF k \in OnSelect THEN Nothing ELSE shown[k]],
              rest \cup IF u = Nil THEN {}
                        ELSE {Send("projects", "none", u, Nil, Nil, c)})
    /\ listed' = {} /\ marked' = {} /\ strays' = {}
    /\ UNCHANGED <<saved, deleting, deletingProject>>

-----------------------------------------------------------------------------
(* What the services answer.                                               *)

Exists(p) == p # Nil /\ rows[p] \in {"live", "deleting"}

\* auth of the REST handlers, and projectExists of the services.
Allowed(r) ==
    /\ r.as # Nil
    /\ r.project # Nil
    /\ Owner[r.project] = r.as
    /\ Exists(r.project)

Answer(r, good, items, list, op) ==
    requests' = (requests \ {r}) \cup
        {[r EXCEPT !.at = "answered", !.ok = good, !.items = items,
                   !.projects = list, !.op = op]}

Refuse(r) ==
    /\ Answer(r, FALSE, {}, {}, "none")
    /\ UNCHANGED services

ServeMe(r) ==
    /\ r.do = "me"
    /\ Answer(r, r.as # Nil, {}, {}, "none")
    /\ UNCHANGED services

\* A wrong password is a refusal.
ServeLogin(r) ==
    /\ r.do = "login"
    /\ \E good \in BOOLEAN : Answer(r, good, {}, {}, "none")
    /\ UNCHANGED services

ServeLogout(r) ==
    /\ r.do = "logout"
    /\ Answer(r, TRUE, {}, {}, "none")
    /\ UNCHANGED services

ServeProjects(r) ==
    /\ r.do = "projects"
    /\ LET mine == {p \in Projects : Exists(p) /\ Owner[p] = r.as} IN
       Answer(r, r.as # Nil, {}, {<<p, rows[p]>> : p \in mine}, "none")
    /\ UNCHANGED services

ServeCreateProject(r) ==
    /\ r.do = "createProject"
    /\ r.as = Owner[r.of] /\ rows[r.of] = "unborn"
    /\ rows' = [rows EXCEPT ![r.of] = "live"]
    /\ Answer(r, TRUE, {}, {}, "none")
    /\ UNCHANGED <<things, removals, faults>>

\* The namespace goes with all it holds, the repository stays.
Emptied(p) == {t \in things : t[1] # p \/ t[2] = "repository"}

\* The one call that is seen halfway. The namespace goes with what it holds;
\* from the operation's insertion on the project is listed as being deleted,
\* whoever has asked for it.
BeginDeleteProject(r) ==
    /\ r.do = "deleteProject" /\ r.op = "none" /\ r.as # Nil
    /\ rows' = [rows EXCEPT ![r.of] = IF Exists(r.of) THEN "deleting" ELSE @]
    /\ things' = Emptied(r.of)
    /\ requests' = (requests \ {r}) \cup {[r EXCEPT !.op = "pending"]}
    /\ UNCHANGED <<removals, faults>>

\* An operation of p is settled and the row is there: another operation may
\* be pending besides.
Unmarked(p) == IF rows[p] = "deleting" THEN {"live", "deleting"} ELSE {rows[p]}

\* The row is deleted if it is the caller's.
Dropped(r) == IF Exists(r.of) /\ Owner[r.of] = r.as THEN {"gone"} ELSE Unmarked(r.of)

\* The operation is done before the request is answered.
ServeDeleteProject(r) ==
    /\ r.do = "deleteProject" /\ r.op = "pending"
    /\ \E s \in Dropped(r) : rows' = [rows EXCEPT ![r.of] = s]
    /\ Answer(r, TRUE, {}, {}, "done")
    /\ UNCHANGED <<things, removals, faults>>

\* The operation cannot be inserted, or deleting the row answers an error, and
\* so does the operation. When the process dies instead (Lose), it stays
\* pending until a reconciler completes it.
FailDeleteProject(r) ==
    /\ r.do = "deleteProject" /\ r.as # Nil
    /\ faults < MaxFaults /\ faults' = faults + 1
    /\ \/ r.op = "none" /\ things' = Emptied(r.of) /\ UNCHANGED rows
       \/ /\ r.op = "pending" /\ UNCHANGED things
          /\ \E s \in Unmarked(r.of) \cup Dropped(r) : rows' = [rows EXCEPT ![r.of] = s]
    /\ Answer(r, FALSE, {}, {}, "none")
    /\ UNCHANGED removals

\* The repository is looked up without its project.
ServeList(r) ==
    /\ r.do \in {"list", "quiet"}
    /\ IF r.k = "repository" THEN r.as # Nil ELSE Allowed(r)
    /\ Answer(r, TRUE,
              {<<r.project, n>> : n \in {n \in NamesOf(r.k) :
                  <<r.project, r.k, n>> \in things /\ Owner[r.project] = r.as}},
              {}, r.op)
    /\ UNCHANGED services

\* The resource that a request is about.
Thing(r) == <<r.project, r.k, r.of>>

\* A container and a repository are put in place of what is there, by
\* creating and by changing them; other names must be free.
Free(r) == r.k \in {"container", "repository"} \/ Thing(r) \notin things

ServePut(r) ==
    /\ r.do \in {"create", "update"}
    /\ Allowed(r) /\ Free(r)
    /\ things' = things \cup {Thing(r)}
    /\ Answer(r, TRUE, {}, {}, "none")
    /\ UNCHANGED <<rows, removals, faults>>

ServeDelete(r) ==
    /\ r.do = "delete"
    /\ Allowed(r)
    /\ removals' = removals \cup {Thing(r)}
    /\ Answer(r, TRUE, {}, {}, "pending")
    /\ UNCHANGED <<rows, things, faults>>

ServeRefusal(r) ==
    /\ \/ r.do = "createProject" /\ ~(r.as = Owner[r.of] /\ rows[r.of] = "unborn")
       \/ r.do = "deleteProject" /\ r.as = Nil
       \/ /\ r.do \in {"list", "quiet"}
          /\ IF r.k = "repository" THEN r.as = Nil ELSE ~Allowed(r)
       \/ r.do \in {"create", "update", "delete"} /\ ~Allowed(r)
       \/ r.do \in {"create", "update"} /\ ~Free(r)
    /\ Refuse(r)

\* Any call may fail on its way, before it has had an effect or a further one.
Lose(r) ==
    /\ faults < MaxFaults /\ faults' = faults + 1
    /\ Answer(r, FALSE, {}, {}, "none")
    /\ UNCHANGED <<rows, things, removals>>

Serve(r) ==
    /\ r.at = "sent"
    /\ \/ ServeMe(r) \/ ServeLogin(r) \/ ServeLogout(r) \/ ServeProjects(r)
       \/ ServeCreateProject(r) \/ BeginDeleteProject(r)
       \/ ServeDeleteProject(r) \/ FailDeleteProject(r)
       \/ ServeList(r) \/ ServePut(r) \/ ServeDelete(r)
       \/ ServeRefusal(r) \/ Lose(r)
    /\ UNCHANGED browser

\* The operation that deletes t is settled, after the resource is gone or in
\* an error; two operations for one resource settle together.
Settle(t, how) ==
    /\ t \in removals
    /\ removals' = removals \ {t}
    /\ things' = IF how = "done" THEN things \ {t} ELSE things
    /\ requests' = {IF r.do = "delete" /\ r.op = "pending" /\ Thing(r) = t
                    THEN [r EXCEPT !.op = how] ELSE r : r \in requests}
    /\ UNCHANGED <<rows, faults, browser>>

\* A reconciler completes the deletion of a project, or settles an operation
\* of another account and leaves the row.
FinishProject(p) ==
    /\ rows[p] = "deleting"
    /\ \E s \in {"gone"} \cup IF Users = {Owner[p]} THEN {} ELSE {"live"} :
         rows' = [rows EXCEPT ![p] = s]
    /\ things' = Emptied(p)
    /\ UNCHANGED <<removals, faults, browser, requests>>
-----------------------------------------------------------------------------
(* The rest of an asynchronous function, when its call has been answered.  *)

Rest(r) == requests \ {r}

\* setState of a handler that no effect depends on.
Stay(lists, rest) == Render(user, active, loaded, section, cookie, lists, rest)

HandleMe(r) ==
    /\ r.do = "me"
    /\ UserEffect(IF r.ok THEN r.as ELSE Nil, cookie, Rest(r))

\* A failed login leaves the page without a user, as it was.
HandleLogin(r) ==
    /\ r.do = "login"
    /\ IF r.ok THEN UserEffect(r.user, r.user, Rest(r))
               ELSE UserEffect(Nil, cookie, Rest(r))

\* The page forgets the user even if the call has failed.
HandleLogout(r) ==
    /\ r.do = "logout"
    /\ UserEffect(Nil, IF r.ok THEN Nil ELSE cookie, Rest(r))

Listed(r)     == {p \in Projects : \E mark \in {"live", "deleting"} :
                                      <<p, mark>> \in r.projects}
Selectable(r) == {p \in Projects : <<p, "live">> \in r.projects}

\* Mutant: a saved project is taken up without looking for it in the list.
HandleProjectsSaved(r) ==
    /\ r.do = "projects" /\ r.ok
    /\ listed' = Listed(r) /\ marked' = Listed(r) \ Selectable(r) /\ strays' = {}
    /\ LET free == Selectable(r) IN
       \E p \in IF saved[r.user] # Nil THEN {saved[r.user]}
                ELSE IF free = {} THEN {Nil} ELSE free :
         /\ saved' = [saved EXCEPT ![r.user] = p]
         /\ Render(user, p, TRUE, IF free = {} THEN "other" ELSE section,
                   cookie, shown, Rest(r))
    /\ UNCHANGED <<deleting, deletingProject>>

\* loadProjects: the user's saved project if it can be selected, or another.
HandleProjects(r) ==
    /\ r.do = "projects" /\ r.ok
    /\ listed' = Listed(r) /\ marked' = Listed(r) \ Selectable(r) /\ strays' = {}
    /\ LET free == Selectable(r) IN
       \E p \in IF free = {} THEN {Nil}
                ELSE IF saved[r.user] \in free THEN {saved[r.user]} ELSE free :
         /\ saved' = [saved EXCEPT ![r.user] = p]
         /\ Render(user, p, TRUE, IF free = {} THEN "other" ELSE section,
                   cookie, shown, Rest(r))
    /\ UNCHANGED <<deleting, deletingProject>>

\* The project is put on the list as one that is not being deleted, whoever
\* is logged in by now.
HandleCreateProject(r) ==
    /\ r.do = "createProject" /\ r.ok
    /\ listed' = listed \cup {r.of} /\ marked' = marked \ {r.of}
    /\ strays' = IF r.user # user THEN strays \cup {r.of} ELSE strays
    /\ saved' = [saved EXCEPT ![r.user] = r.of]
    /\ Render(user, r.of, loaded, "other", cookie, shown, Rest(r))
    /\ UNCHANGED <<deleting, deletingProject>>

\* Whether the project was the active one is asked of the closure.
HandleDeleteProject(r) ==
    /\ r.do = "deleteProject" /\ r.at = "answered" /\ r.ok
    /\ LET rest == Rest(r) \cup {[r EXCEPT !.at = "polling"]} IN
       IF r.project = r.of
       THEN /\ saved' = [saved EXCEPT ![r.user] = Nil]
            /\ Render(user, Nil, loaded, "other", cookie, shown, rest)
       ELSE Stay(shown, rest) /\ UNCHANGED saved
    /\ UNCHANGED <<projects, deleting, deletingProject>>

\* The functions that end by resetting "deleting..." of their kind.
Deletion(r) == r.do = "delete" \/ r.ends

Deletions(k) == {r \in requests : r.k = k /\ Deletion(r)}

\* finally: whatever name is set is reset, be it that of another deletion.
Reset(r) ==
    /\ spin' = [spin EXCEPT ![r.k] = Nil]
    /\ overlapped' = IF Deletions(r.k) = {r} THEN overlapped \ {r.k} ELSE overlapped

\* What a late answer brings is shown all the same.
Received(r, items) ==
    [shown EXCEPT ![r.k] = [items |-> items,
                            late |-> <<r.user, r.project>> # <<user, active>>]]

HandleList(r) ==
    /\ r.do \in {"list", "quiet"}
    /\ Stay(IF r.ok THEN Received(r, r.items) ELSE shown, Rest(r))
    /\ IF r.ends THEN Reset(r) ELSE UNCHANGED deleting
    /\ UNCHANGED <<saved, projects, deletingProject>>

\* The list is loaded again with the closure of the creation; the repository
\* is taken from the answer.  All but the creation of a bucket or a database
\* lead to another page.
HandleCreate(r) ==
    /\ r.do = "create" /\ r.ok
    /\ IF r.k \in Sectioned
       THEN Stay(shown, Rest(r) \cup
                 {Send("quiet", r.k, r.user, r.project, Nil, cookie)})
       ELSE Render(user, active, loaded, "other", cookie,
                   IF r.k = "repository" THEN Received(r, {<<r.project, Nil>>}) ELSE shown,
                   Rest(r) \cup IF r.k = "repository" THEN {}
                       ELSE {Send("list", r.k, r.user, r.project, Nil, cookie)})
    /\ UNCHANGED <<saved, projects, deleting, deletingProject>>

\* What is shown under the name is replaced, whichever project it is of.
Replaced(r) ==
    LET old == {i \in shown[r.k].items : i[2] = r.of} IN
    IF old = {} THEN shown
    ELSE [shown EXCEPT ![r.k] =
            [items |-> (@.items \ old) \cup {<<r.project, r.of>>},
             late |-> @.late \/ <<r.user, r.project>> # <<user, active>>]]

HandleUpdate(r) ==
    /\ r.do = "update" /\ r.ok
    /\ Stay(Replaced(r), Rest(r))
    /\ UNCHANGED <<saved, projects, deleting, deletingProject>>

HandleDelete(r) ==
    /\ r.do = "delete" /\ r.at = "answered" /\ r.ok
    /\ Stay(shown, Rest(r) \cup {[r EXCEPT !.at = "polling"]})
    /\ UNCHANGED <<saved, projects, deleting, deletingProject>>

\* Mutant: the state is reset at the end of the function, not in finally.
FailWithoutFinally(r) ==
    /\ Stay(shown, Rest(r))
    /\ UNCHANGED <<saved, projects, deleting, deletingProject>>

\* catch and finally of a function that has failed.
Fail(r) ==
    /\ Stay(shown, Rest(r))
    /\ IF r.do = "delete" THEN Reset(r) ELSE UNCHANGED deleting
    /\ deletingProject' = IF r.do = "deleteProject" THEN Nil ELSE deletingProject
    /\ UNCHANGED <<saved, projects>>

HandleFailure(r) ==
    /\ ~r.ok
    /\ r.do \notin {"me", "login", "logout", "list", "quiet"}
    /\ Fail(r)

Handle(r) ==
    /\ r.at = "answered"
    /\ \/ HandleMe(r) \/ HandleLogin(r) \/ HandleLogout(r) \/ HandleProjects(r)
       \/ HandleCreateProject(r) \/ HandleDeleteProject(r) \/ HandleList(r)
       \/ HandleCreate(r) \/ HandleUpdate(r) \/ HandleDelete(r)
       \/ HandleFailure(r)
    /\ UNCHANGED services

\* pollOperation: two seconds, the call and its answer.  Only the four
\* services that own resources serve operations: what nginx sends to the
\* project service is not found.
Routed(r) == r.do = "delete"

PollFails(r) ==
    /\ \/ cookie = Nil
       \/ ~Routed(r)
       \/ r.op = "error"
       \/ r.op = "pending" /\ r.polls + 1 = MaxPolls
    /\ Fail(r)
    /\ UNCHANGED faults

PollLost(r) ==
    /\ faults < MaxFaults /\ faults' = faults + 1
    /\ Fail(r)

\* Mutant: the polls are not counted.
PollForever(r) ==
    /\ cookie # Nil /\ Routed(r) /\ r.op = "pending"
    /\ Stay(shown, Rest(r) \cup {r})
    /\ UNCHANGED <<faults, saved, projects, deleting, deletingProject>>

PollAgain(r) ==
    /\ cookie # Nil /\ Routed(r) /\ r.op = "pending" /\ r.polls + 1 < MaxPolls
    /\ Stay(shown, Rest(r) \cup {[r EXCEPT !.polls = @ + 1]})
    /\ UNCHANGED <<faults, saved, projects, deleting, deletingProject>>

\* "... を削除しました": the page of the item is left and the list loaded.
PollDone(r) ==
    /\ cookie # Nil /\ Routed(r) /\ r.op = "done"
    /\ LET again == Send(IF r.k \in Polled THEN "list" ELSE "quiet",
                         r.k, r.user, r.project, r.of, cookie) IN
       \E s \in {section} \cup IF r.k \in Polled THEN {"other"} ELSE {} :
         Render(user, active, loaded, s, cookie, shown,
                Rest(r) \cup {[again EXCEPT !.op = "done", !.ends = TRUE]})
    /\ UNCHANGED <<faults, saved, projects, deleting, deletingProject>>

Poll(r) ==
    /\ r.at = "polling"
    /\ PollFails(r) \/ PollLost(r) \/ PollAgain(r) \/ PollDone(r)
    /\ UNCHANGED <<rows, things, removals>>
-----------------------------------------------------------------------------
(* What the user does, on the login page or on a loaded one.               *)

Busy == Cardinality(requests) >= MaxRequests

Ready == user # Nil /\ loaded

Call(r) == requests' = requests \cup {r}

Login(u) ==
    /\ user = Nil /\ ~Busy
    /\ \A r \in requests : r.do \notin {"me", "login", "logout"}
    /\ Call(Send("login", "none", u, Nil, Nil, cookie))
    /\ UNCHANGED <<services, browser>>

Logout ==
    /\ Ready /\ ~Busy
    /\ Call(Send("logout", "none", user, active, Nil, cookie))
    /\ UNCHANGED <<services, browser>>

\* handleProjectSelect: what is shown stays until the lists are answered.
SelectProject(p) ==
    /\ Ready /\ ~Busy
    /\ p \in listed \ marked
    /\ saved' = [saved EXCEPT ![user] = p]
    /\ Render(user, p, loaded, section, cookie, shown, requests)
    /\ UNCHANGED <<services, projects, deleting, deletingProject>>

Navigate(s) ==
    /\ Ready /\ ~Busy
    /\ listed \ marked # {} /\ s # section
    /\ Render(user, active, loaded, s, cookie, shown, requests)
    /\ UNCHANGED <<services, saved, projects, deleting, deletingProject>>

CreateProject(p) ==
    /\ Ready /\ ~Busy
    /\ rows[p] = "unborn" /\ Owner[p] = cookie
    /\ Call(Send("createProject", "none", user, active, p, cookie))
    /\ UNCHANGED <<services, browser>>

DeleteProject(p) ==
    /\ Ready /\ ~Busy
    /\ p \in listed \ marked /\ deletingProject # p
    /\ deletingProject' = p
    /\ Call(Send("deleteProject", "none", user, active, p, cookie))
    /\ UNCHANGED <<services, cookie, saved, user, loaded, projects,
                   active, section, shown, deleting>>

Visible(k) == k \in Sectioned => section = k

Create(k, n) ==
    /\ Ready /\ ~Busy
    /\ active # Nil /\ Visible(k)
    /\ Call(Send("create", k, user, active, n, cookie))
    /\ UNCHANGED <<services, browser>>

\* The list of kind k has a row with the name n.
Appears(k, n) == \E i \in shown[k].items : i[2] = n

Update(k, n) ==
    /\ Ready /\ ~Busy
    /\ k = "container" /\ active # Nil /\ Appears(k, n)
    /\ Call(Send("update", k, user, active, n, cookie))
    /\ UNCHANGED <<services, browser>>

\* Only the button of the name that is set is disabled.
Delete(k, n) ==
    /\ Ready /\ ~Busy
    /\ k # "repository" /\ active # Nil /\ Visible(k)
    /\ Appears(k, n) /\ spin[k] # n
    /\ spin' = [spin EXCEPT ![k] = n]
    /\ overlapped' = IF Deletions(k) = {} THEN overlapped ELSE overlapped \cup {k}
    /\ Call(Send("delete", k, user, active, n, cookie))
    /\ UNCHANGED <<services, cookie, saved, user, loaded, projects,
                   active, section, shown, deletingProject>>

\* Mutant: the interval stops once there is something to show.
TickUntilShown(k) ==
    /\ Ready /\ active # Nil
    /\ shown[k].items = {}
    /\ ~ \E r \in requests : r.do = "quiet" /\ r.k = k
    /\ Call(Send("quiet", k, user, active, Nil, cookie))
    /\ UNCHANGED <<services, browser>>

\* The interval of five seconds; bound: it waits for its last load.
Tick(k) ==
    /\ Ready /\ active # Nil
    /\ ~ \E r \in requests : r.do = "quiet" /\ r.k = k
    /\ Call(Send("quiet", k, user, active, Nil, cookie))
    /\ UNCHANGED <<services, browser>>

\* The page is loaded again: what has been sent is lost or was served before.
Refresh ==
    /\ user' = Nil /\ loaded' = FALSE
    /\ listed' = {} /\ marked' = {} /\ strays' = {}
    /\ active' = Nil
    /\ shown' = [k \in Kinds |-> Nothing]
    /\ spin' = [k \in Kinds |-> Nil] /\ overlapped' = {}
    /\ deletingProject' = Nil
    /\ requests' = {Send("me", "none", Nil, Nil, Nil, cookie)}
    /\ UNCHANGED <<services, cookie, saved, section>>

Next ==
    \/ \E r \in requests : Serve(r) \/ Handle(r) \/ Poll(r)
    \/ \E t \in removals : Settle(t, "done") \/ Settle(t, "error")
    \/ \E p \in Projects : FinishProject(p) \/ SelectProject(p)
                           \/ CreateProject(p) \/ DeleteProject(p)
    \/ \E u \in Users : Login(u)
    \/ \E s \in Sections : Navigate(s)
    \/ \E k \in Kinds : \E n \in NamesOf(k) :
          Create(k, n) \/ Update(k, n) \/ Delete(k, n)
    \/ \E k \in Polled : Tick(k)
    \/ Logout
    \/ Refresh

Spec == Init /\ [][Next]_vars
-----------------------------------------------------------------------------
(* Fairness: the services answer, and the browser runs its continuations   *)
(* and timers; the user need do nothing.                                   *)

DeletionProgress(k, n) ==
    \E r \in Deletions(k) : r.of = n /\ (Serve(r) \/ Handle(r) \/ Poll(r))

LoadProgress(do, k, p) ==
    \E r \in requests :
        r.do = do /\ r.k = k /\ r.project = p /\ (Serve(r) \/ Handle(r))

Fairness ==
    /\ \A k \in Kinds \ {"repository"}, n \in Names : WF_vars(DeletionProgress(k, n))
    /\ \A k \in Polled :
        /\ WF_vars(Tick(k))
        /\ \A p \in Projects : /\ WF_vars(LoadProgress("list", k, p))
                              /\ WF_vars(LoadProgress("quiet", k, p))

FairSpec == Spec /\ Fairness
-----------------------------------------------------------------------------
(* Every variable holds a value of its kind.                               *)
TypeOK ==
    /\ rows \in [Projects -> {"unborn", "live", "deleting", "gone"}]
    /\ things \subseteq Projects \X Kinds \X (Names \cup {Nil})
    /\ removals \subseteq Projects \X Kinds \X (Names \cup {Nil})
    /\ faults \in 0..MaxFaults
    /\ cookie \in Users \cup {Nil}
    /\ saved \in [Users -> Projects \cup {Nil}]
    /\ user \in Users \cup {Nil} /\ loaded \in BOOLEAN
    /\ listed \subseteq Projects /\ marked \subseteq Projects /\ strays \subseteq listed
    /\ active \in Projects \cup {Nil} /\ section \in Sections
    /\ shown \in [Kinds -> [items: SUBSET Items, late: BOOLEAN]]
    /\ spin \in [Kinds -> Names \cup {Nil}] /\ deletingProject \in Projects \cup {Nil}
    /\ requests \subseteq Request
    /\ overlapped \subseteq Kinds

(* The selected project of a loaded page can be selected there, has been     *)
(* made, and belongs to the user who is logged in, whichever account has    *)
(* used the page before, whatever it left in localStorage and however late  *)
(* its requests are answered. The one way a project of another account gets *)
(* on the list is the late end of that account's creation.                  *)
SelectedIsOwn ==
    loaded /\ active # Nil =>
        /\ active \in listed \ marked /\ rows[active] # "unborn"
        /\ Owner[active] = user \/ active \in strays

(* What the lists show belongs to the user who is logged in, unless it came *)
(* with an answer that arrived after the user or the project had changed;   *)
(* loads sent with one account's cookie and shown to the next, and updates  *)
(* of an item by a handler of an earlier render, are those cases.           *)
ShownIsOwn ==
    user # Nil => \A k \in Kinds : ~shown[k].late =>
                      \A i \in shown[k].items : Owner[i[1]] = user

(* A name that is shown as "deleting..." is that of a deletion on its way:  *)
(* no failed call, lost poll, timeout or change of page, user or project    *)
(* leaves it behind, nor does the end of another deletion. And as long as   *)
(* the deletions of a kind have not overlapped, the one on its way is shown *)
(* to the end, whatever else loads or fails. (Of two that have, the end of  *)
(* the one clears the name of the other.)                                   *)
SpinnerIsWork ==
    \A k \in Kinds :
        /\ spin[k] # Nil => \E r \in Deletions(k) : r.of = spin[k]
        /\ k \notin overlapped => \A r \in Deletions(k) : spin[k] = r.of

(* A deletion that was asked for comes to an end on the page, because polls *)
(* are counted: no button is left disabled.                                 *)
SpinnerEnds == \A k \in Kinds : spin[k] # Nil ~> spin[k] = Nil

(* While one project stays selected, whatever late answers of other loads   *)
(* have put there, the lists that are polled come to show what the project  *)
(* holds and keep showing it.                                               *)
Held(k, p) == {n \in Names : <<p, k, n>> \in things}

ListsHeal ==
    \A k \in Polled : \A p \in Projects : \A there \in SUBSET Names :
        <>[](/\ Ready /\ user = Owner[p] /\ cookie = user /\ active = p
             /\ rows[p] = "live" /\ Held(k, p) = there)
        => <>[](shown[k].items = {p} \X there)
=============================================================================
