---------------------------- MODULE ConsoleProofs ----------------------------
(***************************************************************************)
(* What holds of Console for any users, projects, kinds and bounds.        *)
(***************************************************************************)
EXTENDS Console, TLAPS

Loads == {"list", "quiet"}
Changes == {"create", "update", "delete"}

(* What is known of a request by itself: a load that brings items brings   *)
(* those of its closure's user, and a change that was accepted was made in  *)
(* a project of its closure's user.                                         *)
Sound(r) ==
  /\ r.do \in Loads \cup Changes => r.user # Nil /\ r.project # Nil /\ r.k \in Kinds
  /\ r.do \in Loads => r.as = r.user \/ Owner[r.project] = r.user
  /\ r.do \in Changes => r.as = r.user
  /\ r.do \in Changes /\ r.ok => Owner[r.project] = r.user
  /\ r.do \in Loads => \A i \in r.items : i[1] = r.project /\ Owner[i[1]] = r.user
  /\ r.do \in Changes => r.of \in NamesOf(r.k)
  /\ Deletion(r) => r.of \in Names
  /\ r.do \in {"createProject", "deleteProject"} => r.of \in Projects
  /\ r.ends => r.do \in Loads
  /\ r.at = "polling" => r.ok /\ r.do \in {"delete", "deleteProject"}

RequestsAreSound == \A r \in requests : Sound(r)

(* The page of a user holds that user's cookie, and no login is on its way *)
(* next to it.                                                             *)
Entering(r) == r.do \in {"me", "login"}

CookieIsOfUser ==
  /\ user # Nil => cookie = user
  /\ \A r \in requests : Entering(r) => user = Nil
  /\ \A r \in requests : r.do = "me" => r.as = cookie
  /\ \A q, r \in requests : Entering(q) /\ (Entering(r) \/ r.do = "logout") => q = r

(* A page without a user is the login page, or one that has just been       *)
(* opened and shows nothing.                                                *)
OutsideIsEmpty ==
  user = Nil /\ section # "other" =>
    /\ \A k \in Kinds : shown[k].items = {}
    /\ requests # {} /\ \A r \in requests : r.do = "me"

(* The page of a user who has a project selected lists it as one that can   *)
(* be selected.                                                            *)
SelectedIsListed == loaded /\ active # Nil => active \in listed \ marked

(* What is shown of the deletions in R: a name that is set is that of one  *)
(* of them, and of a kind whose deletions have not overlapped there is at  *)
(* most one, whose name is set.                                            *)
Told(R, names, over) ==
  \A k \in Kinds :
    /\ names[k] # Nil => \E r \in R : r.k = k /\ Deletion(r) /\ r.of = names[k]
    /\ k \notin over =>
         \A q, r \in R : q.k = k /\ Deletion(q) /\ r.k = k /\ Deletion(r) =>
                          q = r /\ names[k] = r.of

DeletionsAreTold == Told(requests, spin, overlapped)

IInv ==
  /\ TypeOK
  /\ RequestsAreSound
  /\ CookieIsOfUser
  /\ OutsideIsEmpty
  /\ SelectedIsListed
  /\ ShownIsOwn
  /\ DeletionsAreTold
-----------------------------------------------------------------------------
(* Types of what the operators make.                                       *)

Tasks == {"me", "login", "logout", "projects", "createProject",
          "deleteProject", "list", "quiet", "create", "update", "delete"}

LEMMA SendType ==
  ASSUME NEW do \in Tasks, NEW k \in AllKinds \cup {"none"},
         NEW u \in Users \cup {Nil}, NEW p \in Projects \cup {Nil},
         NEW of \in Projects \cup Names \cup {Nil}, NEW c \in Users \cup {Nil}
  PROVE  Send(do, k, u, p, of, c) \in Request
BY DEF Send, Request, Tasks

Lists == [Kinds -> [items: SUBSET Items, late: BOOLEAN]]

LEMMA NothingType ==
  Nothing \in [items: SUBSET Items, late: BOOLEAN] /\ Nothing.items = {}
BY DEF Nothing

LEMMA KindFacts ==
  OnSelect \subseteq AllKinds /\ Sectioned \subseteq AllKinds /\ Polled \subseteq Kinds
  /\ "other" \in Sections /\ OnSelect \subseteq Kinds /\ Sectioned \subseteq Kinds
  /\ Kinds \subseteq OnSelect \cup Sectioned /\ "other" \notin Sectioned
BY ConsoleAssumption DEF OnSelect, Sectioned, Polled, Sections, AllKinds

(* What the effects of a rendering send.                                   *)
Effects(u, a, l, s, c) == SelectionEffect(u, a, l, c) \cup SectionEffect(u, a, s, c)

LEMMA EffectsAreLoads ==
  ASSUME NEW u \in Users \cup {Nil}, NEW a \in Projects \cup {Nil},
         NEW l, NEW s, NEW c \in Users \cup {Nil}, u # Nil => c = u,
         NEW q \in Effects(u, a, l, s, c)
  PROVE  q \in Request /\ Sound(q) /\ q.do = "list" /\ ~q.ends /\ u # Nil
<1>1. PICK k \in Kinds : q = Send("list", k, u, a, Nil, c) /\ a # Nil /\ u # Nil
  BY KindFacts DEF Effects, SelectionEffect, SectionEffect
<1>2. k \in AllKinds
  BY ConsoleAssumption
<1>3. q \in Request
  BY <1>1, <1>2, SendType DEF Tasks
<1>4. q.do = "list" /\ ~q.ends /\ q.items = {} /\ q.user = u /\ q.project = a
      /\ q.k = k /\ q.as = u /\ q.at = "sent"
  BY <1>1 DEF Send
<1> QED
  BY <1>1, <1>3, <1>4 DEF Sound, Loads, Changes, Deletion
-----------------------------------------------------------------------------
(* A rendering keeps the invariant, if what it is given is in order.       *)

InOrder(u, s, c, rest) ==
  /\ u # Nil => c = u
  /\ u = Nil => s = "other"
  /\ rest \subseteq Request /\ \A r \in rest : Sound(r)
  /\ \A r \in rest : Entering(r) => u = Nil
  /\ \A r \in rest : r.do = "me" => r.as = c
  /\ \A q, r \in rest : Entering(q) /\ (Entering(r) \/ r.do = "logout") => q = r

ServicesTyped ==
  /\ rows' \in [Projects -> {"unborn", "live", "deleting", "gone"}]
  /\ things' \subseteq Projects \X Kinds \X (Names \cup {Nil})
  /\ removals' \subseteq Projects \X Kinds \X (Names \cup {Nil})
  /\ faults' \in 0..MaxFaults

Displays(u, a, l, s, c, lists, rest) ==
  /\ u \in Users \cup {Nil} /\ a \in Projects \cup {Nil} /\ l \in BOOLEAN
  /\ s \in Sections /\ c \in Users \cup {Nil}
  /\ lists \in Lists
  /\ InOrder(u, s, c, rest)
  /\ Render(u, a, l, s, c, lists, rest)
  /\ \A k \in Kinds :
       \/ k \in Sectioned \ {s} /\ <<u, a, s>> # <<user, active, section>>
       \/ (u # Nil /\ ~lists[k].late => \A i \in lists[k].items : Owner[i[1]] = u)
  /\ l /\ a # Nil => a \in listed' \ marked'
  /\ spin' \in [Kinds -> Names \cup {Nil}] /\ overlapped' \subseteq Kinds
  /\ Told(rest, spin', overlapped')
  /\ saved' \in [Users -> Projects \cup {Nil}]
  /\ listed' \subseteq Projects /\ marked' \subseteq Projects /\ strays' \subseteq listed'
  /\ deletingProject' \in Projects \cup {Nil}
  /\ ServicesTyped

LEMMA RenderKeepsIInv ==
  ASSUME NEW u, NEW a, NEW l, NEW s, NEW c, NEW lists, NEW rest,
         Displays(u, a, l, s, c, lists, rest)
  PROVE  IInv'
<1>1. user' = u /\ active' = a /\ loaded' = l /\ section' = s /\ cookie' = c
  BY DEF Displays, Render
<1>2. requests' = rest \cup Effects(u, a, l, s, c)
  BY DEF Displays, Render, Effects
<1>3. shown' = [k \in Kinds |->
                  IF k \in Sectioned \ {s} /\ <<u, a, s>> # <<user, active, section>>
                  THEN Nothing ELSE lists[k]]
  BY DEF Displays, Render
<1>4. \A q \in Effects(u, a, l, s, c) :
        q \in Request /\ Sound(q) /\ q.do = "list" /\ ~q.ends /\ u # Nil
  BY EffectsAreLoads DEF InOrder, Displays
<1>5. \A q \in Effects(u, a, l, s, c) :
        ~Entering(q) /\ q.do # "logout" /\ q.do # "me" /\ ~Deletion(q)
  BY <1>4 DEF Entering, Deletion
<1>6. TypeOK'
  <2>1. requests' \subseteq Request
    BY <1>2, <1>4 DEF InOrder, Displays
  <2>2. shown' \in Lists
    BY <1>3, NothingType DEF Displays, Lists
  <2> QED
    BY <1>1, <2>1, <2>2 DEF TypeOK, Displays, ServicesTyped, Lists
<1>7. RequestsAreSound'
  BY <1>2, <1>4 DEF RequestsAreSound, InOrder, Displays
<1>8. CookieIsOfUser'
  <2>1. (user # Nil => cookie = user)'
    BY <1>1 DEF InOrder, Displays
  <2>2. \A r \in requests' : (Entering(r) => u = Nil) /\ (r.do = "me" => r.as = c)
    BY <1>2, <1>5 DEF InOrder, Displays
  <2>3. \A q, r \in requests' :
          Entering(q) /\ (Entering(r) \/ r.do = "logout") => q = r
    BY <1>2, <1>5 DEF InOrder, Displays
  <2> QED
    BY <1>1, <2>1, <2>2, <2>3 DEF CookieIsOfUser, Entering
<1>9. OutsideIsEmpty'
  BY <1>1 DEF OutsideIsEmpty, InOrder, Displays
<1>10. SelectedIsListed'
  BY <1>1 DEF SelectedIsListed, Displays
<1>11. ShownIsOwn'
  <2> SUFFICES ASSUME u # Nil, NEW k \in Kinds, ~shown'[k].late,
                      NEW i \in shown'[k].items
               PROVE  Owner[i[1]] = u
    BY <1>1 DEF ShownIsOwn
  <2> QED
    BY <1>3, NothingType DEF Displays
<1>12. DeletionsAreTold'
  <2>1. Told(rest, spin', overlapped')
    BY DEF Displays
  <2>2. \A r \in requests' : Deletion(r) <=> r \in rest /\ Deletion(r)
    BY <1>2, <1>5
  <2>3. rest \subseteq requests'
    BY <1>2
  <2> QED
    BY <2>1, <2>2, <2>3 DEF DeletionsAreTold, Told
<1> QED
  BY <1>6, <1>7, <1>8, <1>9, <1>10, <1>11, <1>12 DEF IInv
-----------------------------------------------------------------------------
(* A function goes on: its request r is replaced by at most one other, and *)
(* the page is rendered for the same user.                                 *)

Turns(r, N, a, l, s, lists) ==
  /\ r \in requests /\ ~Entering(r) /\ r.do # "logout"
  /\ \A p, q \in N : p = q
  /\ \A q \in N : /\ q \in Request /\ Sound(q)
                  /\ ~Entering(q) /\ q.do # "logout"
                  /\ Deletion(q) => Deletion(r) /\ q.k = r.k /\ q.of = r.of
  /\ a \in Projects \cup {Nil} /\ l \in BOOLEAN /\ s \in Sections
  /\ lists \in Lists
  /\ s \in {section, "other"}
  /\ Render(user, a, l, s, cookie, lists, Rest(r) \cup N)
  /\ \A k \in Kinds :
       \/ lists[k] = shown[k]
       \/ (user # Nil /\ ~lists[k].late => \A i \in lists[k].items : Owner[i[1]] = user)
  /\ l /\ a # Nil => a \in listed' \ marked'
  /\ IF Deletion(r) /\ ~ \E q \in N : Deletion(q)
     THEN Reset(r) ELSE UNCHANGED deleting
  /\ saved' \in [Users -> Projects \cup {Nil}]
  /\ listed' \subseteq Projects /\ marked' \subseteq Projects /\ strays' \subseteq listed'
  /\ deletingProject' \in Projects \cup {Nil}
  /\ ServicesTyped

LEMMA TurnKeepsIInv ==
  ASSUME IInv, NEW r, NEW N, NEW a, NEW l, NEW s, NEW lists,
         Turns(r, N, a, l, s, lists)
  PROVE  IInv'
<1>a. r \in requests /\ ~Entering(r) /\ r.do # "logout"
  BY DEF Turns
<1>b. /\ \A p, q \in N : p = q
      /\ \A q \in N : /\ q \in Request /\ Sound(q)
                      /\ ~Entering(q) /\ q.do # "logout"
                      /\ Deletion(q) => Deletion(r) /\ q.k = r.k /\ q.of = r.of
  BY DEF Turns
<1>c. IF Deletion(r) /\ ~ \E q \in N : Deletion(q)
      THEN Reset(r) ELSE UNCHANGED deleting
  BY DEF Turns
<1>d. s \in {section, "other"}
  BY DEF Turns
<1>1. user \in Users \cup {Nil} /\ cookie \in Users \cup {Nil}
      /\ requests \subseteq Request /\ spin \in [Kinds -> Names \cup {Nil}]
      /\ overlapped \subseteq Kinds
  BY DEF IInv, TypeOK
<1>2. user = Nil => s = "other"
  <2>1. r.do # "me"
    BY <1>a DEF Entering
  <2> QED
    BY <1>a, <1>d, <2>1 DEF IInv, OutsideIsEmpty
<1>3. InOrder(user, s, cookie, Rest(r) \cup N)
  <2> DEFINE rest == Rest(r) \cup N
  <2>1. rest \subseteq Request /\ \A q \in rest : Sound(q)
    BY <1>1, <1>b DEF Rest, IInv, RequestsAreSound
  <2>2. \A q \in rest : (Entering(q) => user = Nil) /\ (q.do = "me" => q.as = cookie)
    BY <1>b DEF Rest, IInv, CookieIsOfUser, Entering
  <2>3. \A p, q \in rest : Entering(p) /\ (Entering(q) \/ q.do = "logout") => p = q
    BY <1>b DEF Rest, IInv, CookieIsOfUser
  <2> HIDE DEF rest
  <2>5. user # Nil => cookie = user
    BY DEF IInv, CookieIsOfUser
  <2> QED
    BY <1>2, <2>1, <2>2, <2>3, <2>5 DEF InOrder, rest
<1>4. \A k \in Kinds :
        \/ k \in Sectioned \ {s} /\ <<user, a, s>> # <<user, active, section>>
        \/ (user # Nil /\ ~lists[k].late => \A i \in lists[k].items : Owner[i[1]] = user)
  BY DEF IInv, ShownIsOwn, Turns
<1>5. Deletion(r) => r.k \in Kinds
  BY <1>a DEF IInv, RequestsAreSound, Sound, Deletion, Loads, Changes
<1>6. /\ spin' \in [Kinds -> Names \cup {Nil}] /\ overlapped' \subseteq Kinds
      /\ Told(Rest(r) \cup N, spin', overlapped')
  <2>1. Told(requests, spin, overlapped)
    BY DEF IInv, DeletionsAreTold
  <2>2. CASE Deletion(r) /\ ~ \E q \in N : Deletion(q)
    <3>1. /\ spin' = [spin EXCEPT ![r.k] = Nil]
          /\ overlapped' = IF Deletions(r.k) = {r} THEN overlapped \ {r.k} ELSE overlapped
      BY <1>c, <2>2 DEF Reset
    <3>2. \A q \in Rest(r) \cup N : Deletion(q) => q \in requests /\ q # r
      BY <2>2 DEF Rest
    <3>3. \A q \in requests : Deletion(q) /\ q # r => q \in Rest(r)
      BY DEF Rest
    <3>4. \A q \in Rest(r) \cup N : Deletion(q) /\ q.k = r.k => r.k \in overlapped'
      <4> SUFFICES ASSUME NEW q \in Rest(r) \cup N, Deletion(q), q.k = r.k
                   PROVE  r.k \in overlapped'
        OBVIOUS
      <4>1. q \in Deletions(r.k) /\ q # r
        BY <3>2 DEF Deletions
      <4>2. r.k \in overlapped
        BY <1>a, <1>5, <2>1, <2>2, <3>2 DEF Told
      <4> QED
        BY <3>1, <4>1, <4>2
    <3>5. \A k \in Kinds : k # r.k => spin'[k] = spin[k] /\ (k \in overlapped' <=> k \in overlapped)
      BY <1>1, <3>1
    <3>6. spin'[r.k] = Nil /\ spin' \in [Kinds -> Names \cup {Nil}] /\ overlapped' \subseteq Kinds
      BY <1>1, <1>5, <2>2, <3>1
    <3>7. ASSUME NEW k \in Kinds, k # r.k
          PROVE  /\ spin'[k] # Nil =>
                      \E q \in Rest(r) \cup N : q.k = k /\ Deletion(q) /\ q.of = spin'[k]
                 /\ k \notin overlapped' =>
                      \A p, q \in Rest(r) \cup N :
                        p.k = k /\ Deletion(p) /\ q.k = k /\ Deletion(q) =>
                          p = q /\ spin'[k] = q.of
      BY <2>1, <3>2, <3>3, <3>5, <3>7 DEF Told
    <3> QED
      BY <3>4, <3>6, <3>7 DEF Told
  <2>3. CASE ~(Deletion(r) /\ ~ \E q \in N : Deletion(q))
    <3>1. spin' = spin /\ overlapped' = overlapped
      BY <1>c, <2>3 DEF deleting
    <3>2. \A q \in Rest(r) \cup N : Deletion(q) =>
            \/ q \in requests /\ q # r
            \/ q \in N /\ Deletion(r) /\ q.k = r.k /\ q.of = r.of
      BY <1>b DEF Rest
    <3>3. \A q \in requests : Deletion(q) => q = r \/ q \in Rest(r)
      BY DEF Rest
    <3>4. Deletion(r) => \E q \in N : Deletion(q) /\ q.k = r.k /\ q.of = r.of
      BY <1>b, <2>3
    <3>5. ASSUME NEW k \in Kinds, spin[k] # Nil
          PROVE  \E q \in Rest(r) \cup N : q.k = k /\ Deletion(q) /\ q.of = spin[k]
      <4>1. PICK q \in requests : q.k = k /\ Deletion(q) /\ q.of = spin[k]
        BY <2>1, <3>5 DEF Told
      <4> QED
        BY <3>3, <3>4, <4>1
    <3>6. ASSUME NEW k \in Kinds, k \notin overlapped,
                 NEW p \in Rest(r) \cup N, NEW q \in Rest(r) \cup N,
                 p.k = k, Deletion(p), q.k = k, Deletion(q)
          PROVE  p = q /\ spin[k] = q.of
      <4>1. \A x, y \in requests : x.k = k /\ Deletion(x) /\ y.k = k /\ Deletion(y) =>
                                   x = y /\ spin[k] = y.of
        BY <2>1, <3>6 DEF Told
      <4> QED
        BY <1>a, <1>b, <3>2, <3>6, <4>1
    <3> QED
      BY <1>1, <3>1, <3>5, <3>6 DEF Told
  <2> QED
    BY <2>2, <2>3
<1>7. Displays(user, a, l, s, cookie, lists, Rest(r) \cup N)
  BY <1>1, <1>3, <1>4, <1>6 DEF Displays, Turns
<1> QED
  BY <1>7, RenderKeepsIInv

(* The user asks for something: a request more.                            *)
Asks(q) ==
  /\ q \in Request /\ Sound(q)
  /\ user = Nil => section = "other"
  /\ requests' = requests \cup {q}
  /\ Entering(q) => /\ user = Nil /\ (q.do = "me" => q.as = cookie)
                    /\ \A r \in requests : ~Entering(r) /\ r.do # "logout"
  /\ q.do = "logout" => user # Nil
  /\ IF Deletion(q)
     THEN /\ q.k \in Kinds /\ spin' = [spin EXCEPT ![q.k] = q.of]
          /\ overlapped' = IF Deletions(q.k) = {} THEN overlapped
                           ELSE overlapped \cup {q.k}
     ELSE UNCHANGED deleting
  /\ deletingProject' \in Projects \cup {Nil}
  /\ UNCHANGED <<services, cookie, saved, user, loaded, projects,
                 active, section, shown>>

LEMMA AskKeepsIInv ==
  ASSUME IInv, NEW q, Asks(q)
  PROVE  IInv'
<1>1. TypeOK'
  <2>1. Deletion(q) => q.of \in Names
    BY DEF Asks, Sound
  <2>2. spin' \in [Kinds -> Names \cup {Nil}] /\ overlapped' \subseteq Kinds
    BY <2>1 DEF IInv, TypeOK, Asks, deleting
  <2> QED
    BY <2>2 DEF IInv, TypeOK, Asks, services, projects
<1>2. RequestsAreSound'
  BY DEF IInv, RequestsAreSound, Asks
<1>3. CookieIsOfUser'
  BY DEF IInv, CookieIsOfUser, Entering, Asks
<1>4. OutsideIsEmpty'
  BY DEF IInv, OutsideIsEmpty, Asks
<1>5. SelectedIsListed' /\ ShownIsOwn'
  BY DEF IInv, SelectedIsListed, ShownIsOwn, Asks, projects
<1>6. DeletionsAreTold'
  <2>1. Told(requests, spin, overlapped) /\ spin \in [Kinds -> Names \cup {Nil}]
    BY DEF IInv, DeletionsAreTold, TypeOK
  <2>2. requests' = requests \cup {q}
    BY DEF Asks
  <2>3. CASE ~Deletion(q)
    <3>1. spin' = spin /\ overlapped' = overlapped
      BY <2>3 DEF Asks, deleting
    <3> QED
      BY <2>1, <2>2, <2>3, <3>1 DEF DeletionsAreTold, Told
  <2>4. CASE Deletion(q)
    <3>1. /\ q.k \in Kinds /\ spin' = [spin EXCEPT ![q.k] = q.of]
          /\ overlapped' = IF Deletions(q.k) = {} THEN overlapped
                           ELSE overlapped \cup {q.k}
      BY <2>4 DEF Asks
    <3>2. q.k \notin overlapped' => \A r \in requests : ~(r.k = q.k /\ Deletion(r))
      BY <3>1 DEF Deletions
    <3>3. \A k \in Kinds : k # q.k => spin'[k] = spin[k]
                                     /\ (k \in overlapped' <=> k \in overlapped)
      BY <2>1, <3>1
    <3>4. spin'[q.k] = q.of
      BY <2>1, <3>1
    <3>5. ASSUME NEW k \in Kinds, k # q.k
          PROVE  /\ spin'[k] # Nil =>
                      \E r \in requests' : r.k = k /\ Deletion(r) /\ r.of = spin'[k]
                 /\ k \notin overlapped' =>
                      \A p, r \in requests' :
                        p.k = k /\ Deletion(p) /\ r.k = k /\ Deletion(r) =>
                          p = r /\ spin'[k] = r.of
      BY <2>1, <2>2, <3>3, <3>5 DEF Told
    <3>6. /\ \E r \in requests' : r.k = q.k /\ Deletion(r) /\ r.of = spin'[q.k]
          /\ q.k \notin overlapped' =>
               \A p, r \in requests' :
                 p.k = q.k /\ Deletion(p) /\ r.k = q.k /\ Deletion(r) =>
                   p = r /\ spin'[q.k] = r.of
      BY <2>2, <2>4, <3>2, <3>4
    <3> QED
      BY <3>5, <3>6 DEF DeletionsAreTold, Told
  <2> QED
    BY <2>3, <2>4
<1> QED
  BY <1>1, <1>2, <1>3, <1>4, <1>5, <1>6 DEF IInv
-----------------------------------------------------------------------------
(* A request is served: it keeps its closure, and what it brings is sound. *)

Serves(r, q) ==
  /\ r \in requests /\ requests' = Rest(r) \cup {q}
  /\ q \in Request /\ Sound(q)
  /\ q.do = r.do /\ q.k = r.k /\ q.of = r.of /\ q.as = r.as /\ q.ends = r.ends
  /\ ServicesTyped
  /\ UNCHANGED browser

LEMMA ServingKeepsIInv ==
  ASSUME IInv, NEW r, NEW q, Serves(r, q)
  PROVE  IInv'
<1>1. TypeOK'
  BY DEF IInv, TypeOK, Serves, Rest, ServicesTyped, browser, projects, deleting
<1>2. RequestsAreSound'
  BY DEF IInv, RequestsAreSound, Serves, Rest
<1>3. CookieIsOfUser'
  BY DEF IInv, CookieIsOfUser, Entering, Serves, Rest, browser
<1>4. OutsideIsEmpty'
  BY DEF IInv, OutsideIsEmpty, Serves, Rest, browser
<1>5. SelectedIsListed' /\ ShownIsOwn'
  BY DEF IInv, SelectedIsListed, ShownIsOwn, Serves, browser, projects
<1>6. DeletionsAreTold'
  <2>1. Told(requests, spin, overlapped)
    BY DEF IInv, DeletionsAreTold
  <2>2. /\ spin' = spin /\ overlapped' = overlapped /\ requests' = Rest(r) \cup {q}
        /\ q.k = r.k /\ q.of = r.of /\ (Deletion(q) <=> Deletion(r)) /\ r \in requests
    BY DEF Serves, browser, deleting, Deletion
  <2>3. ASSUME NEW k \in Kinds, spin[k] # Nil
        PROVE  \E p \in requests' : p.k = k /\ Deletion(p) /\ p.of = spin[k]
    <3>1. PICK p \in requests : p.k = k /\ Deletion(p) /\ p.of = spin[k]
      BY <2>1, <2>3 DEF Told
    <3> QED
      BY <2>2, <3>1 DEF Rest
  <2>4. ASSUME NEW k \in Kinds, k \notin overlapped,
               NEW x \in requests', NEW y \in requests',
               x.k = k, Deletion(x), y.k = k, Deletion(y)
        PROVE  x = y /\ spin[k] = y.of
    <3>1. \A a, b \in requests : a.k = k /\ Deletion(a) /\ b.k = k /\ Deletion(b) =>
                                 a = b /\ spin[k] = b.of
      BY <2>1, <2>4 DEF Told
    <3>2. \A z \in requests' : z = q \/ (z \in requests /\ z # r)
      BY <2>2 DEF Rest
    <3> QED
      BY <2>2, <2>4, <3>1, <3>2
  <2> QED
    BY <2>2, <2>3, <2>4 DEF DeletionsAreTold, Told
<1> QED
  BY <1>1, <1>2, <1>3, <1>4, <1>5, <1>6 DEF IInv

LEMMA AnswerServes ==
  ASSUME IInv, NEW r \in requests, r.at = "sent",
         NEW good \in BOOLEAN, NEW items \in SUBSET Items,
         NEW list \in SUBSET Entries,
         NEW op \in {"none", "pending", "done", "error"},
         r.do \in Changes /\ good => Owner[r.project] = r.user,
         r.do \in Loads => \A i \in items : i[1] = r.project /\ Owner[i[1]] = r.user,
         Answer(r, good, items, list, op), ServicesTyped, UNCHANGED browser
  PROVE  IInv'
<1> DEFINE q == [r EXCEPT !.at = "answered", !.ok = good, !.items = items,
                          !.projects = list, !.op = op]
<1>1. r \in Request /\ Sound(r)
  BY DEF IInv, TypeOK, RequestsAreSound
<1>2. q \in Request
  BY <1>1 DEF Request
<1>3. /\ q.do = r.do /\ q.k = r.k /\ q.as = r.as /\ q.ends = r.ends
      /\ q.user = r.user /\ q.project = r.project /\ q.of = r.of
      /\ q.ok = good /\ q.items = items /\ q.at = "answered"
  BY <1>1 DEF Request
<1>4. requests' = Rest(r) \cup {q}
  BY DEF Answer, Rest
<1> HIDE DEF q
<1>5. Sound(q)
  BY <1>1, <1>3 DEF Sound, Deletion, Loads, Changes
<1>6. Serves(r, q)
  BY <1>2, <1>3, <1>4, <1>5 DEF Serves
<1> QED
  BY <1>6, ServingKeepsIInv

LEMMA BeginKeepsIInv ==
  ASSUME IInv, NEW r \in requests, r.at = "sent", BeginDeleteProject(r),
         UNCHANGED browser
  PROVE  IInv'
<1> DEFINE q == [r EXCEPT !.op = "pending"]
<1>1. r \in Request /\ Sound(r)
  BY DEF IInv, TypeOK, RequestsAreSound
<1>2. /\ q \in Request /\ q.do = r.do /\ q.k = r.k /\ q.as = r.as /\ q.ends = r.ends
      /\ q.user = r.user /\ q.project = r.project /\ q.of = r.of
      /\ q.ok = r.ok /\ q.items = r.items /\ q.at = r.at
  BY <1>1 DEF Request
<1>3. requests' = Rest(r) \cup {q}
  BY DEF BeginDeleteProject, Rest
<1> HIDE DEF q
<1>4. Sound(q)
  BY <1>1, <1>2 DEF Sound, Deletion
<1>5. ServicesTyped
  BY DEF IInv, TypeOK, BeginDeleteProject, ServicesTyped, Emptied
<1>6. Serves(r, q)
  BY <1>2, <1>3, <1>4, <1>5 DEF Serves
<1> QED
  BY <1>6, ServingKeepsIInv

LEMMA ServeKeepsIInv ==
  ASSUME IInv, NEW r \in requests, Serve(r)
  PROVE  IInv'
<1>1. /\ r \in Request /\ Sound(r) /\ r.at = "sent" /\ UNCHANGED browser
      /\ r.op \in {"none", "pending", "done", "error"}
  BY DEF IInv, TypeOK, RequestsAreSound, Serve, Request
<1>2. UNCHANGED services => ServicesTyped
  BY DEF IInv, TypeOK, services, ServicesTyped
<1>3. CASE ServeMe(r) \/ ServeLogout(r)
  BY <1>1, <1>2, <1>3, AnswerServes
  DEF ServeMe, ServeLogout, Changes, Loads
<1>4. CASE ServeLogin(r)
  BY <1>1, <1>2, <1>4, AnswerServes DEF ServeLogin, Changes, Loads
<1>5. CASE ServeProjects(r)
  <2> DEFINE mine == {p \in Projects : Exists(p) /\ Owner[p] = r.as}
         list == {<<p, rows[p]>> : p \in mine}
  <2>1. Answer(r, r.as # Nil, {}, list, "none")
    BY <1>5 DEF ServeProjects
  <2>2. list \in SUBSET Entries
    BY DEF Exists, Entries
  <2> HIDE DEF list
  <2> QED
    BY <1>1, <1>2, <1>5, <2>1, <2>2, AnswerServes DEF ServeProjects, Changes, Loads
<1>6. CASE ServeCreateProject(r)
  <2>1. ServicesTyped
    BY <1>6 DEF IInv, TypeOK, ServeCreateProject, ServicesTyped
  <2> QED
    BY <1>1, <1>6, <2>1, AnswerServes DEF ServeCreateProject, Changes, Loads
<1>7. CASE ServeDeleteProject(r)
  <2>1. ServicesTyped
    BY <1>7 DEF IInv, TypeOK, ServeDeleteProject, ServicesTyped, Dropped, Unmarked
  <2> QED
    BY <1>1, <1>7, <2>1, AnswerServes DEF ServeDeleteProject, Changes, Loads
<1>8. CASE FailDeleteProject(r)
  <2>1. faults' \in 0..MaxFaults
    BY <1>8, ConsoleAssumption DEF IInv, TypeOK, FailDeleteProject
  <2>2. rows' \in [Projects -> {"unborn", "live", "deleting", "gone"}]
    BY <1>8 DEF IInv, TypeOK, FailDeleteProject, Dropped, Unmarked
  <2>3. ServicesTyped
    BY <1>8, <2>1, <2>2
    DEF IInv, TypeOK, FailDeleteProject, ServicesTyped, Emptied
  <2> QED
    BY <1>1, <1>8, <2>3, AnswerServes DEF FailDeleteProject, Changes, Loads
<1>14. CASE BeginDeleteProject(r)
  BY <1>1, <1>14, BeginKeepsIInv
<1>9. CASE ServeList(r)
  <2> DEFINE found == {n \in NamesOf(r.k) :
                         <<r.project, r.k, n>> \in things /\ Owner[r.project] = r.as}
             items == {<<r.project, n>> : n \in found}
  <2>0. r.project \in Projects /\ r.do \in Loads /\ (r.as = r.user \/ Owner[r.project] = r.user)
    BY <1>1, <1>9 DEF ServeList, Sound, Loads, Request
  <2>1. items \in SUBSET Items
    <3> SUFFICES ASSUME NEW n \in found
                 PROVE  <<r.project, n>> \in Items
      OBVIOUS
    <3> QED
      BY <2>0 DEF NamesOf, Items
  <2>2. \A i \in items : i[1] = r.project /\ Owner[i[1]] = r.user
    <3> SUFFICES ASSUME NEW i \in items
                 PROVE  i[1] = r.project /\ Owner[i[1]] = r.user
      OBVIOUS
    <3>1. PICK n \in found : i = <<r.project, n>>
      OBVIOUS
    <3>2. i[1] = r.project /\ Owner[r.project] = r.as
      BY <3>1
    <3> QED
      BY <2>0, <3>2
  <2>3. Answer(r, TRUE, items, {}, r.op) /\ r.do \notin Changes /\ UNCHANGED services
    BY <1>9 DEF ServeList, Changes
  <2> HIDE DEF items
  <2> QED
    BY <1>1, <1>2, <2>1, <2>2, <2>3, AnswerServes
<1>10. CASE ServePut(r)
  <2>1. ServicesTyped
    BY <1>1, <1>10
    DEF IInv, TypeOK, ServePut, ServicesTyped, Sound, Changes, Request, Thing, NamesOf
  <2>2. Owner[r.project] = r.user
    BY <1>1, <1>10 DEF ServePut, Allowed, Sound, Changes
  <2> QED
    BY <1>1, <1>10, <2>1, <2>2, AnswerServes DEF ServePut, Loads
<1>11. CASE ServeDelete(r)
  <2>1. ServicesTyped
    BY <1>1, <1>11
    DEF IInv, TypeOK, ServeDelete, ServicesTyped, Sound, Changes, Request, Thing, NamesOf
  <2>2. Owner[r.project] = r.user
    BY <1>1, <1>11 DEF ServeDelete, Allowed, Sound, Changes
  <2> QED
    BY <1>1, <1>11, <2>1, <2>2, AnswerServes DEF ServeDelete, Loads
<1>12. CASE ServeRefusal(r)
  BY <1>1, <1>2, <1>12, AnswerServes DEF ServeRefusal, Refuse
<1>13. CASE Lose(r)
  <2>1. ServicesTyped
    BY <1>13, ConsoleAssumption DEF IInv, TypeOK, Lose, ServicesTyped
  <2> QED
    BY <1>1, <1>13, <2>1, AnswerServes DEF Lose
<1> QED
  BY <1>3, <1>4, <1>5, <1>6, <1>7, <1>8, <1>9, <1>10, <1>11, <1>12, <1>13, <1>14
  DEF Serve

LEMMA SettleKeepsIInv ==
  ASSUME IInv, NEW t \in removals, NEW how \in {"done", "error"}, Settle(t, how)
  PROVE  IInv'
<1> DEFINE F(r) == IF r.do = "delete" /\ r.op = "pending" /\ Thing(r) = t
                   THEN [r EXCEPT !.op = how] ELSE r
<1>1. requests' = {F(r) : r \in requests} /\ UNCHANGED browser
  BY DEF Settle
<1>2. \A r \in requests : r \in Request /\ Sound(r)
  BY DEF IInv, TypeOK, RequestsAreSound
<1>3. \A r \in requests :
        /\ F(r) \in Request /\ F(r).do = r.do /\ F(r).k = r.k /\ F(r).as = r.as
        /\ F(r).ends = r.ends /\ F(r).user = r.user /\ F(r).project = r.project
        /\ F(r).of = r.of /\ F(r).ok = r.ok /\ F(r).items = r.items /\ F(r).at = r.at
  BY <1>2 DEF Request
<1> HIDE DEF F
<1>4. \A r \in requests : Sound(F(r)) /\ (Deletion(F(r)) <=> Deletion(r))
  BY <1>2, <1>3 DEF Sound, Deletion
<1>5. TypeOK'
  BY <1>1, <1>3 DEF Settle, IInv, TypeOK, browser, projects, deleting
<1>6. RequestsAreSound'
  BY <1>1, <1>4 DEF RequestsAreSound
<1>7. CookieIsOfUser'
  BY <1>1, <1>3 DEF IInv, CookieIsOfUser, Entering, browser
<1>8. OutsideIsEmpty'
  BY <1>1, <1>3 DEF IInv, OutsideIsEmpty, browser
<1>9. SelectedIsListed' /\ ShownIsOwn'
  BY <1>1 DEF IInv, SelectedIsListed, ShownIsOwn, browser, projects
<1>10. DeletionsAreTold'
  <2>1. spin' = spin /\ overlapped' = overlapped /\ Told(requests, spin, overlapped)
    BY <1>1 DEF browser, deleting, IInv, DeletionsAreTold
  <2> QED
    BY <1>1, <1>3, <1>4, <2>1 DEF DeletionsAreTold, Told
<1> QED
  BY <1>5, <1>6, <1>7, <1>8, <1>9, <1>10 DEF IInv

LEMMA FinishKeepsIInv ==
  ASSUME IInv, NEW p \in Projects, FinishProject(p)
  PROVE  IInv'
<1>1. TypeOK'
  BY DEF IInv, TypeOK, FinishProject, Emptied, browser, projects, deleting
<1> QED
  BY <1>1 DEF IInv, FinishProject, browser, projects, deleting, RequestsAreSound,
              CookieIsOfUser, OutsideIsEmpty, SelectedIsListed, ShownIsOwn,
              DeletionsAreTold
-----------------------------------------------------------------------------
(* The continuations, one lemma for each.                                  *)

LEMMA UserEffectKeepsIInv ==
  ASSUME IInv, NEW r \in requests, r.do \in {"me", "login", "logout"},
         NEW u \in Users \cup {Nil}, NEW c \in Users \cup {Nil},
         u # Nil => c = u /\ user = Nil,
         c = cookie \/ ~ \E q \in Rest(r) : q.do = "me",
         \A q \in Rest(r) : ~Entering(q),
         UserEffect(u, c, Rest(r)), UNCHANGED services
  PROVE  IInv'
<1> DEFINE a == IF u = Nil THEN Nil ELSE saved[u]
           s == IF u = Nil THEN "other" ELSE section
           lists == [k \in Kinds |-> IF k \in OnSelect THEN Nothing ELSE shown[k]]
           load == Send("projects", "none", u, Nil, Nil, c)
           rest == Rest(r) \cup (IF u = Nil THEN {} ELSE {load})
<1>1. TypeOK
  BY DEF IInv
<1>2. /\ Render(u, a, FALSE, s, c, lists, rest)
      /\ listed' = {} /\ marked' = {} /\ strays' = {}
      /\ UNCHANGED <<saved, spin, overlapped, deletingProject>>
  BY DEF UserEffect, deleting
<1>3. load \in Request /\ Sound(load) /\ ~Entering(load) /\ load.do = "projects"
      /\ ~Deletion(load)
  <2>1. load \in Request
    BY SendType DEF Tasks
  <2>2. load.do = "projects" /\ load.ends = FALSE /\ load.at = "sent"
    BY DEF Send
  <2> QED
    BY <2>1, <2>2 DEF Sound, Loads, Changes, Entering, Deletion
<1>4. a \in Projects \cup {Nil} /\ s \in Sections
  BY <1>1, KindFacts DEF TypeOK
<1>5. lists \in Lists
  BY <1>1, NothingType DEF TypeOK, Lists
<1>6. InOrder(u, s, c, rest)
  <2> HIDE DEF load
  <2>1. rest \subseteq Request /\ \A q \in rest : Sound(q) /\ ~Entering(q)
    BY <1>1, <1>3 DEF Rest, TypeOK, IInv, RequestsAreSound
  <2> QED
    BY <2>1 DEF InOrder, Entering
<1>7. ~Deletion(r)
  BY DEF Deletion, IInv, RequestsAreSound, Sound, Loads
<1>8. Told(rest, spin', overlapped')
  <2> HIDE DEF load
  <2>1. Told(requests, spin, overlapped)
    BY DEF IInv, DeletionsAreTold
  <2>2. \A q : Deletion(q) => (q \in rest <=> q \in requests)
    BY <1>3, <1>7 DEF Rest
  <2> QED
    BY <1>2, <2>1, <2>2 DEF Told
<1>9. \A k \in Kinds :
        \/ k \in Sectioned \ {s} /\ <<u, a, s>> # <<user, active, section>>
        \/ (u # Nil /\ ~lists[k].late => \A i \in lists[k].items : Owner[i[1]] = u)
  <2> SUFFICES ASSUME NEW k \in Kinds, u # Nil, k \notin OnSelect
               PROVE  \/ k \in Sectioned \ {s} /\ <<u, a, s>> # <<user, active, section>>
                      \/ \A i \in lists[k].items : Owner[i[1]] = u
    BY NothingType
  <2>1. user = Nil /\ k \in Sectioned /\ s = section /\ lists[k] = shown[k]
    BY KindFacts
  <2>2. CASE k # s
    BY <2>1, <2>2
  <2>3. CASE k = s
    BY <2>1, <2>3, KindFacts DEF IInv, OutsideIsEmpty
  <2> QED
    BY <2>2, <2>3
<1>10. ServicesTyped
  BY <1>1 DEF services, TypeOK, ServicesTyped
<1>11. Displays(u, a, FALSE, s, c, lists, rest)
  <2> HIDE DEF a, s, lists, rest
  <2> QED
    BY <1>1, <1>2, <1>4, <1>5, <1>6, <1>8, <1>9, <1>10 DEF Displays, TypeOK
<1> QED
  BY <1>11, RenderKeepsIInv

LEMMA EntranceKeepsIInv ==
  ASSUME IInv, NEW r \in requests, UNCHANGED services,
         HandleMe(r) \/ HandleLogin(r) \/ HandleLogout(r)
  PROVE  IInv'
<1>1. /\ r \in Request /\ cookie \in Users \cup {Nil}
      /\ r.user \in Users \cup {Nil} /\ r.as \in Users \cup {Nil}
  BY DEF IInv, TypeOK, Request
<1>2. CASE HandleMe(r) \/ HandleLogin(r)
  <2>1. Entering(r)
    BY <1>2 DEF HandleMe, HandleLogin, Entering
  <2>2. \A q \in Rest(r) : ~Entering(q)
    BY <2>1 DEF IInv, CookieIsOfUser, Rest
  <2>3. ~ \E q \in Rest(r) : q.do = "me"
    BY <2>2 DEF Entering
  <2>4. user = Nil
    BY <2>1 DEF IInv, CookieIsOfUser
  <2>5. CASE HandleMe(r)
    <3>1. r.do = "me" /\ r.as = cookie
      BY <2>5 DEF HandleMe, IInv, CookieIsOfUser
    <3> QED
      BY <1>1, <2>2, <2>4, <2>5, <3>1, UserEffectKeepsIInv DEF HandleMe
  <2>6. CASE HandleLogin(r)
    <3>1. r.do = "login"
      BY <2>6 DEF HandleLogin
    <3> QED
      BY <1>1, <2>2, <2>3, <2>4, <2>6, <3>1, UserEffectKeepsIInv DEF HandleLogin
  <2> QED
    BY <1>2, <2>5, <2>6
<1>3. CASE HandleLogout(r)
  <2>1. r.do = "logout"
    BY <1>3 DEF HandleLogout
  <2>2. \A q \in Rest(r) : ~Entering(q)
    BY <2>1 DEF IInv, CookieIsOfUser, Rest, Entering
  <2>3. ~ \E q \in Rest(r) : q.do = "me"
    BY <2>2 DEF Entering
  <2> QED
    BY <1>1, <1>3, <2>1, <2>2, <2>3, UserEffectKeepsIInv DEF HandleLogout
<1> QED
  BY <1>2, <1>3

(* What every continuation relies on.                                      *)
LEMMA Known ==
  ASSUME IInv, NEW r \in requests
  PROVE  /\ r \in Request /\ Sound(r)
         /\ active \in Projects \cup {Nil} /\ loaded \in BOOLEAN
         /\ section \in Sections /\ "other" \in Sections
         /\ user \in Users \cup {Nil} /\ cookie \in Users \cup {Nil}
         /\ shown \in Lists
         /\ saved \in [Users -> Projects \cup {Nil}]
         /\ spin \in [Kinds -> Names \cup {Nil}] /\ overlapped \subseteq Kinds
         /\ listed \subseteq Projects /\ marked \subseteq Projects
         /\ strays \subseteq listed
         /\ deletingProject \in Projects \cup {Nil}
         /\ r.do \in Tasks /\ r.k \in AllKinds \cup {"none"}
         /\ r.user \in Users \cup {Nil} /\ r.project \in Projects \cup {Nil}
         /\ r.of \in Projects \cup Names \cup {Nil} /\ r.items \in SUBSET Items
         /\ r.projects \in SUBSET Entries /\ r.polls \in Nat
         /\ (loaded /\ active # Nil => active \in listed \ marked)
         /\ (UNCHANGED services => ServicesTyped)
BY KindFacts
DEF IInv, TypeOK, RequestsAreSound, SelectedIsListed, Request, Tasks, services,
    ServicesTyped, Lists

LEMMA ReceivedIsOwn ==
  ASSUME IInv, NEW r \in requests, NEW items \in SUBSET Items,
         r.k \in Kinds, \A i \in items : Owner[i[1]] = r.user
  PROVE  /\ Received(r, items) \in Lists
         /\ \A k \in Kinds :
              \/ Received(r, items)[k] = shown[k]
              \/ (user # Nil /\ ~Received(r, items)[k].late =>
                     \A i \in Received(r, items)[k].items : Owner[i[1]] = user)
BY Known DEF Received, Lists

(* The load that follows a change or a deletion.                           *)
LoadBy(r, do, of) == Send(do, r.k, r.user, r.project, of, cookie)
Objects == Projects \cup Names \cup {Nil}

LEMMA LoadAfter ==
  ASSUME IInv, NEW r \in requests, r.do \in Changes, r.ok, NEW do \in Loads,
         NEW of \in Objects
  PROVE  LET q == LoadBy(r, do, of)
         IN  /\ q \in Request /\ Sound(q) /\ ~Entering(q) /\ q.do # "logout"
             /\ q.k = r.k /\ q.of = of /\ q.ends = FALSE /\ q.do = do
<1> DEFINE q == LoadBy(r, do, of)
<1>1. q \in Request
  BY Known, SendType DEF LoadBy, Objects, Loads, Tasks
<1>2. /\ q.do = do /\ q.k = r.k /\ q.user = r.user /\ q.project = r.project
      /\ q.of = of /\ q.items = {} /\ q.at = "sent" /\ q.ends = FALSE /\ q.as = cookie
  BY DEF Send, LoadBy
<1>3. r.user # Nil /\ r.project # Nil /\ r.k \in Kinds /\ Owner[r.project] = r.user
  BY Known DEF Sound
<1> HIDE DEF q
<1>4. Sound(q) /\ ~Entering(q) /\ q.do # "logout"
  BY <1>2, <1>3 DEF Sound, Loads, Changes, Entering, Deletion
<1> QED
  BY <1>1, <1>2, <1>4 DEF q

LEMMA LoadThatEnds ==
  ASSUME NEW z \in Request, Sound(z), ~Entering(z), z.do \in Loads, z.of \in Names
  PROVE  LET q == [z EXCEPT !.op = "done", !.ends = TRUE]
         IN  /\ q \in Request /\ Sound(q) /\ ~Entering(q) /\ q.do # "logout"
             /\ q.k = z.k /\ q.of = z.of /\ Deletion(q)
<1> DEFINE q == [z EXCEPT !.op = "done", !.ends = TRUE]
<1>1. q \in Request
  BY DEF Request
<1>2. /\ q.do = z.do /\ q.k = z.k /\ q.as = z.as /\ q.ends = TRUE
      /\ q.user = z.user /\ q.project = z.project /\ q.of = z.of
      /\ q.ok = z.ok /\ q.items = z.items /\ q.at = z.at
  BY DEF Request
<1> HIDE DEF q
<1>3. Sound(q) /\ ~Entering(q) /\ q.do # "logout" /\ Deletion(q)
  BY <1>2 DEF Sound, Loads, Entering, Deletion
<1> QED
  BY <1>1, <1>2, <1>3 DEF q

LEMMA ProjectsKeepIInv ==
  ASSUME IInv, NEW r \in requests, UNCHANGED services,
         HandleProjects(r) \/ HandleCreateProject(r)
  PROVE  IInv'
<1>1. Rest(r) \cup {} = Rest(r) /\ ~Entering(r) /\ r.do # "logout"
      /\ ~Deletion(r) /\ ServicesTyped /\ UNCHANGED <<deleting, deletingProject>>
  BY Known
  DEF HandleProjects, HandleCreateProject, Entering, Deletion, Sound, Loads, Rest
<1>2. CASE HandleProjects(r)
  <2> DEFINE free == Selectable(r)
             s == IF free = {} THEN "other" ELSE section
  <2>1. PICK p \in IF free = {} THEN {Nil}
                   ELSE IF saved[r.user] \in free THEN {saved[r.user]} ELSE free :
          /\ saved' = [saved EXCEPT ![r.user] = p]
          /\ Render(user, p, TRUE, s, cookie, shown, Rest(r))
    BY <1>2 DEF HandleProjects
  <2>2. p \in free \cup {Nil} /\ (p # Nil => p \in free) /\ p \in Projects \cup {Nil}
    BY <2>1, Known DEF Selectable
  <2>4. Listed(r) \subseteq Projects /\ free \subseteq Listed(r)
    BY DEF Listed, Selectable
  <2> HIDE DEF free, s
  <2>3. Turns(r, {}, p, TRUE, s, shown)
    BY <1>1, <1>2, <2>1, <2>2, <2>4, Known DEF HandleProjects, Turns, free, s
  <2> QED
    BY <2>3, TurnKeepsIInv
<1>3. CASE HandleCreateProject(r)
  <2>1. r.of \in Projects
    BY <1>3, Known DEF HandleCreateProject, Sound
  <2>2. Turns(r, {}, r.of, loaded, "other", shown)
    BY <1>1, <1>3, <2>1, Known DEF HandleCreateProject, Turns
  <2> QED
    BY <2>2, TurnKeepsIInv
<1> QED
  BY <1>2, <1>3

(* A request that is going to be polled.                                   *)
LEMMA PollingIsSound ==
  ASSUME IInv, NEW r \in requests, r.ok,
         r.do \in {"delete", "deleteProject"}, NEW n \in Nat
  PROVE  LET q == [r EXCEPT !.at = "polling", !.polls = n]
         IN  /\ q \in Request /\ Sound(q) /\ ~Entering(q) /\ q.do # "logout"
             /\ q.k = r.k /\ q.of = r.of /\ (Deletion(q) <=> Deletion(r))
<1> DEFINE q == [r EXCEPT !.at = "polling", !.polls = n]
<1>1. r \in Request /\ Sound(r)
  BY Known
<1>2. q \in Request
  BY <1>1 DEF Request
<1>3. /\ q.do = r.do /\ q.k = r.k /\ q.as = r.as /\ q.ends = r.ends
      /\ q.user = r.user /\ q.project = r.project /\ q.of = r.of
      /\ q.ok = r.ok /\ q.items = r.items /\ q.at = "polling"
  BY <1>1 DEF Request
<1> HIDE DEF q
<1>4. Sound(q)
  BY <1>1, <1>3 DEF Sound, Deletion
<1> QED
  BY <1>2, <1>3, <1>4 DEF q, Entering, Deletion

LEMMA StartsPolling ==
  ASSUME IInv, NEW r \in requests
  PROVE  [r EXCEPT !.at = "polling"] = [r EXCEPT !.at = "polling", !.polls = r.polls]
         /\ r.polls \in Nat
BY Known DEF Request

LEMMA DeletingKeepsIInv ==
  ASSUME IInv, NEW r \in requests, UNCHANGED services,
         HandleDeleteProject(r) \/ HandleDelete(r)
  PROVE  IInv'
<1> DEFINE q == [r EXCEPT !.at = "polling"]
<1>1. /\ q \in Request /\ Sound(q) /\ ~Entering(q) /\ q.do # "logout"
      /\ q.k = r.k /\ q.of = r.of /\ (Deletion(q) <=> Deletion(r))
      /\ ~Entering(r) /\ r.do # "logout"
  <2>1. r.ok /\ r.do \in {"delete", "deleteProject"}
    BY DEF HandleDeleteProject, HandleDelete
  <2> DEFINE z == [r EXCEPT !.at = "polling", !.polls = r.polls]
  <2>2. z = q /\ r.polls \in Nat
    BY StartsPolling
  <2>3. /\ z \in Request /\ Sound(z) /\ ~Entering(z) /\ z.do # "logout"
        /\ z.k = r.k /\ z.of = r.of /\ (Deletion(z) <=> Deletion(r))
    BY <2>1, <2>2, PollingIsSound
  <2>4. ~Entering(r) /\ r.do # "logout"
    BY <2>1 DEF Entering
  <2> HIDE DEF z, q
  <2> QED
    BY <2>2, <2>3, <2>4
<1>2. ServicesTyped
  BY Known
<1>3. CASE HandleDeleteProject(r)
  <2> HIDE DEF q
  <2>2. UNCHANGED <<listed, marked, strays, deleting, deletingProject>>
    BY <1>3 DEF HandleDeleteProject, projects
  <2>3. CASE r.project = r.of
    <3>1. /\ saved' = [saved EXCEPT ![r.user] = Nil]
          /\ Render(user, Nil, loaded, "other", cookie, shown, Rest(r) \cup {q})
      BY <1>3, <2>3 DEF HandleDeleteProject, q
    <3>2. Turns(r, {q}, Nil, loaded, "other", shown)
      BY <1>1, <1>2, <2>2, <3>1, Known DEF Turns
    <3> QED
      BY <3>2, TurnKeepsIInv
  <2>4. CASE r.project # r.of
    <3>1. UNCHANGED saved /\ Render(user, active, loaded, section, cookie, shown,
                                   Rest(r) \cup {q})
      BY <1>3, <2>4 DEF HandleDeleteProject, Stay, q
    <3>2. Turns(r, {q}, active, loaded, section, shown)
      BY <1>1, <1>2, <2>2, <3>1, Known DEF Turns
    <3> QED
      BY <3>2, TurnKeepsIInv
  <2> QED
    BY <2>3, <2>4
<1>4. CASE HandleDelete(r)
  <2> HIDE DEF q
  <2>1. Render(user, active, loaded, section, cookie, shown, Rest(r) \cup {q})
        /\ UNCHANGED <<saved, listed, marked, strays, deleting, deletingProject>>
    BY <1>4 DEF HandleDelete, Stay, q, projects
  <2>2. Turns(r, {q}, active, loaded, section, shown)
    BY <1>1, <1>2, <2>1, Known DEF Turns
  <2> QED
    BY <2>2, TurnKeepsIInv
<1> QED
  BY <1>3, <1>4

LEMMA ListKeepsIInv ==
  ASSUME IInv, NEW r \in requests, UNCHANGED services, HandleList(r)
  PROVE  IInv'
<1> DEFINE lists == IF r.ok THEN Received(r, r.items) ELSE shown
<1>1. /\ r.do \in Loads /\ Render(user, active, loaded, section, cookie, lists, Rest(r))
      /\ IF r.ends THEN Reset(r) ELSE UNCHANGED deleting
      /\ UNCHANGED <<saved, listed, marked, strays, deletingProject>>
  BY DEF HandleList, Stay, Loads, projects
<1>2. /\ ~Entering(r) /\ r.do # "logout" /\ (Deletion(r) <=> r.ends) /\ r.k \in Kinds
      /\ \A i \in r.items : Owner[i[1]] = r.user
  BY <1>1, Known DEF Loads, Changes, Entering, Deletion, Sound
<1>3. /\ lists \in Lists
      /\ \A k \in Kinds :
           \/ lists[k] = shown[k]
           \/ (user # Nil /\ ~lists[k].late => \A i \in lists[k].items : Owner[i[1]] = user)
  BY <1>2, Known, ReceivedIsOwn
<1>4. Rest(r) \cup {} = Rest(r)
  OBVIOUS
<1> HIDE DEF lists
<1>5. Turns(r, {}, active, loaded, section, lists)
  BY <1>1, <1>2, <1>3, <1>4, Known DEF Turns
<1> QED
  BY <1>5, TurnKeepsIInv

LEMMA ReplacedIsOwn ==
  ASSUME IInv, NEW r \in requests, r.do = "update", r.ok
  PROVE  /\ Replaced(r) \in Lists
         /\ \A k \in Kinds :
              \/ Replaced(r)[k] = shown[k]
              \/ (user # Nil /\ ~Replaced(r)[k].late =>
                     \A i \in Replaced(r)[k].items : Owner[i[1]] = user)
<1> DEFINE old == {i \in shown[r.k].items : i[2] = r.of}
           new == (shown[r.k].items \ old) \cup {<<r.project, r.of>>}
           late == shown[r.k].late \/ <<r.user, r.project>> # <<user, active>>
<1>1. /\ r.k \in Kinds /\ r.project \in Projects /\ r.of \in Names \cup {Nil}
      /\ Owner[r.project] = r.user
  BY Known DEF Sound, Loads, Changes, NamesOf
<1>2. shown \in Lists
  BY Known
<1>3. new \in SUBSET Items /\ late \in BOOLEAN
  BY <1>1, <1>2 DEF Items, Lists
<1>4. Replaced(r) = IF old = {} THEN shown
                    ELSE [shown EXCEPT ![r.k] = [items |-> new, late |-> late]]
  BY <1>1, <1>2 DEF Replaced, Lists
<1>5. user # Nil /\ ~late => \A i \in new : Owner[i[1]] = user
  BY <1>1 DEF IInv, ShownIsOwn
<1> HIDE DEF old, new, late
<1> QED
  BY <1>1, <1>2, <1>3, <1>4, <1>5 DEF Lists

LEMMA ChangesKeepIInv ==
  ASSUME IInv, NEW r \in requests, UNCHANGED services,
         HandleCreate(r) \/ HandleUpdate(r)
  PROVE  IInv'
<1>1. /\ r.do \in Changes /\ r.ok /\ ~Entering(r) /\ r.do # "logout" /\ ~Deletion(r)
      /\ r.k \in Kinds /\ Owner[r.project] = r.user /\ r.project \in Projects
      /\ r.do \in {"create", "update"} /\ ServicesTyped
      /\ UNCHANGED <<saved, listed, marked, strays, deleting, deletingProject>>
  BY Known DEF HandleCreate, HandleUpdate, Changes, Loads, Entering, Deletion, Sound, projects
<1> DEFINE got == Received(r, {<<r.project, Nil>>})
<1>2. /\ got \in Lists
      /\ \A k \in Kinds :
           \/ got[k] = shown[k]
           \/ (user # Nil /\ ~got[k].late => \A i \in got[k].items : Owner[i[1]] = user)
  <2>1. {<<r.project, Nil>>} \in SUBSET Items
    BY <1>1 DEF Items
  <2>2. \A i \in {<<r.project, Nil>>} : Owner[i[1]] = r.user
    BY <1>1
  <2> QED
    BY <1>1, <2>1, <2>2, ReceivedIsOwn
<1>3. Rest(r) \cup {} = Rest(r)
  OBVIOUS
<1>4. \A do \in Loads :
        LET q == LoadBy(r, do, Nil)
        IN  /\ q \in Request /\ Sound(q) /\ ~Entering(q) /\ q.do # "logout"
            /\ ~Deletion(q)
  <2> SUFFICES ASSUME NEW do \in Loads
               PROVE  LET q == LoadBy(r, do, Nil)
                      IN  /\ q \in Request /\ Sound(q) /\ ~Entering(q)
                          /\ q.do # "logout" /\ ~Deletion(q)
    OBVIOUS
  <2> DEFINE q == LoadBy(r, do, Nil)
  <2>1. q \in Request /\ Sound(q) /\ ~Entering(q) /\ q.do # "logout"
        /\ q.ends = FALSE /\ q.do = do
    <3>1. r.do \in Changes /\ r.ok /\ Nil \in Objects
      BY <1>1 DEF Objects
    <3> QED
      BY <3>1, LoadAfter
  <2> HIDE DEF q
  <2>2. ~Deletion(q)
    BY <2>1 DEF Deletion, Loads
  <2> QED
    BY <2>1, <2>2 DEF q
<1> HIDE DEF got
<1>5. CASE HandleCreate(r) /\ r.k \in Sectioned
  <2> DEFINE q == LoadBy(r, "quiet", Nil)
  <2>1. Render(user, active, loaded, section, cookie, shown, Rest(r) \cup {q})
    BY <1>5 DEF HandleCreate, Stay, LoadBy
  <2>2. q \in Request /\ Sound(q) /\ ~Entering(q) /\ q.do # "logout" /\ ~Deletion(q)
    BY <1>4 DEF Loads
  <2> HIDE DEF q
  <2>3. Turns(r, {q}, active, loaded, section, shown)
    BY <1>1, <2>1, <2>2, Known DEF Turns
  <2> QED
    BY <2>3, TurnKeepsIInv
<1>6. CASE HandleCreate(r) /\ r.k \notin Sectioned /\ r.k # "repository"
  <2> DEFINE q == LoadBy(r, "list", Nil)
  <2>1. Render(user, active, loaded, "other", cookie, shown, Rest(r) \cup {q})
    BY <1>6 DEF HandleCreate, LoadBy
  <2>2. q \in Request /\ Sound(q) /\ ~Entering(q) /\ q.do # "logout" /\ ~Deletion(q)
    BY <1>4 DEF Loads
  <2> HIDE DEF q
  <2>3. Turns(r, {q}, active, loaded, "other", shown)
    BY <1>1, <2>1, <2>2, Known DEF Turns
  <2> QED
    BY <2>3, TurnKeepsIInv
<1>7. CASE HandleCreate(r) /\ r.k \notin Sectioned /\ r.k = "repository"
  <2>1. Render(user, active, loaded, "other", cookie, got, Rest(r))
    BY <1>3, <1>7 DEF HandleCreate, got
  <2>2. Turns(r, {}, active, loaded, "other", got)
    BY <1>1, <1>2, <1>3, <2>1, Known DEF Turns
  <2> QED
    BY <2>2, TurnKeepsIInv
<1>8. CASE HandleUpdate(r)
  <2>1. Render(user, active, loaded, section, cookie, Replaced(r), Rest(r))
        /\ r.do = "update"
    BY <1>8 DEF HandleUpdate, Stay
  <2>2. /\ Replaced(r) \in Lists
        /\ \A k \in Kinds :
             \/ Replaced(r)[k] = shown[k]
             \/ (user # Nil /\ ~Replaced(r)[k].late =>
                    \A i \in Replaced(r)[k].items : Owner[i[1]] = user)
    BY <1>1, <2>1, ReplacedIsOwn
  <2>3. Turns(r, {}, active, loaded, section, Replaced(r))
    BY <1>1, <1>3, <2>1, <2>2, Known DEF Turns
  <2> QED
    BY <2>3, TurnKeepsIInv
<1> QED
  BY <1>5, <1>6, <1>7, <1>8

LEMMA FailKeepsIInv ==
  ASSUME IInv, NEW r \in requests, Fail(r), ServicesTyped,
         ~r.ends, ~Entering(r), r.do # "logout"
  PROVE  IInv'
<1>1. /\ Render(user, active, loaded, section, cookie, shown, Rest(r))
      /\ IF Deletion(r) THEN Reset(r) ELSE UNCHANGED deleting
      /\ deletingProject' \in Projects \cup {Nil}
      /\ UNCHANGED <<saved, listed, marked, strays>>
  BY Known DEF Fail, Stay, Deletion, projects
<1>2. Rest(r) \cup {} = Rest(r)
  OBVIOUS
<1>3. Turns(r, {}, active, loaded, section, shown)
  BY <1>1, <1>2, Known DEF Turns
<1> QED
  BY <1>3, TurnKeepsIInv

LEMMA HandleKeepsIInv ==
  ASSUME IInv, NEW r \in requests, Handle(r)
  PROVE  IInv'
<1>1. UNCHANGED services
  BY DEF Handle
<1>2. CASE HandleMe(r) \/ HandleLogin(r) \/ HandleLogout(r)
  BY <1>1, <1>2, EntranceKeepsIInv
<1>3. CASE HandleProjects(r) \/ HandleCreateProject(r)
  BY <1>1, <1>3, ProjectsKeepIInv
<1>4. CASE HandleDeleteProject(r) \/ HandleDelete(r)
  BY <1>1, <1>4, DeletingKeepsIInv
<1>5. CASE HandleList(r)
  BY <1>1, <1>5, ListKeepsIInv
<1>6. CASE HandleCreate(r) \/ HandleUpdate(r)
  BY <1>1, <1>6, ChangesKeepIInv
<1>7. CASE HandleFailure(r)
  <2>1. ServicesTyped /\ ~r.ends /\ ~Entering(r) /\ r.do # "logout"
    BY <1>1, <1>7, Known DEF HandleFailure, Sound, Loads, Entering
  <2> QED
    BY <1>7, <2>1, FailKeepsIInv DEF HandleFailure
<1> QED
  BY <1>2, <1>3, <1>4, <1>5, <1>6, <1>7 DEF Handle

LEMMA PollKeepsIInv ==
  ASSUME IInv, NEW r \in requests, Poll(r)
  PROVE  IInv'
<1>1. /\ r.at = "polling" /\ r.ok /\ r.do \in {"delete", "deleteProject"}
      /\ UNCHANGED <<rows, things, removals>>
      /\ ~Entering(r) /\ r.do # "logout" /\ ~r.ends
      /\ (r.do = "delete" <=> Deletion(r))
  BY Known DEF Poll, Sound, Loads, Entering, Deletion
<1>2. faults' \in 0..MaxFaults => ServicesTyped
  BY <1>1 DEF IInv, TypeOK, ServicesTyped
<1>3. faults \in 0..MaxFaults
  BY DEF IInv, TypeOK
<1>4. CASE PollFails(r)
  BY <1>1, <1>2, <1>3, <1>4, FailKeepsIInv DEF PollFails
<1>5. CASE PollLost(r)
  <2>1. faults' \in 0..MaxFaults
    BY <1>3, <1>5, ConsoleAssumption DEF PollLost
  <2> QED
    BY <1>1, <1>2, <1>5, <2>1, FailKeepsIInv DEF PollLost
<1>6. CASE PollAgain(r)
  <2> DEFINE q == [r EXCEPT !.at = "polling", !.polls = r.polls + 1]
  <2>1. /\ q \in Request /\ Sound(q) /\ ~Entering(q) /\ q.do # "logout"
        /\ q.k = r.k /\ q.of = r.of /\ (Deletion(q) <=> Deletion(r))
    <3>1. r.polls + 1 \in Nat
      BY Known
    <3> QED
      BY <1>1, <3>1, PollingIsSound
  <2>2. q = [r EXCEPT !.polls = @ + 1]
    BY <1>1, Known DEF Request
  <2> HIDE DEF q
  <2>3. /\ Render(user, active, loaded, section, cookie, shown, Rest(r) \cup {q})
        /\ UNCHANGED <<faults, saved, listed, marked, strays, deleting, deletingProject>>
    BY <1>6, <2>2 DEF PollAgain, Stay, projects
  <2>4. Turns(r, {q}, active, loaded, section, shown)
    BY <1>1, <1>2, <1>3, <2>1, <2>3, Known DEF Turns
  <2> QED
    BY <2>4, TurnKeepsIInv
<1>7. CASE PollDone(r)
  <2> DEFINE do == IF r.k \in Polled THEN "list" ELSE "quiet"
             z == LoadBy(r, do, r.of)
             q == [z EXCEPT !.op = "done", !.ends = TRUE]
  <2>1. do \in Loads /\ r.do \in Changes
    BY <1>1, <1>7 DEF Loads, Changes, PollDone, Routed
  <2>2. PICK s \in {section} \cup IF r.k \in Polled THEN {"other"} ELSE {} :
          Render(user, active, loaded, s, cookie, shown, Rest(r) \cup {q})
    BY <1>7 DEF PollDone, LoadBy
  <2>3. UNCHANGED <<faults, saved, listed, marked, strays, deleting, deletingProject>>
        /\ Deletion(r) /\ r.of \in Names
    BY <1>7, Known DEF PollDone, Routed, Deletion, projects, Sound
  <2> HIDE DEF do
  <2>4. z \in Request /\ Sound(z) /\ ~Entering(z) /\ z.do \in Loads /\ z.k = r.k
        /\ z.of = r.of
    <3>1. r.do \in Changes /\ r.ok /\ do \in Loads /\ r.of \in Objects
      BY <1>1, <2>1, <2>3 DEF Objects
    <3> QED
      BY <3>1, LoadAfter
  <2> HIDE DEF z
  <2>5. /\ q \in Request /\ Sound(q) /\ ~Entering(q) /\ q.do # "logout"
        /\ q.k = r.k /\ q.of = r.of /\ Deletion(q)
    BY <2>3, <2>4, LoadThatEnds
  <2> HIDE DEF q
  <2>6. s \in {section, "other"}
    BY <2>2
  <2>7. Turns(r, {q}, active, loaded, s, shown)
    BY <1>1, <1>2, <1>3, <2>2, <2>3, <2>5, <2>6, Known DEF Turns
  <2> QED
    BY <2>7, TurnKeepsIInv
<1> QED
  BY <1>4, <1>5, <1>6, <1>7 DEF Poll
-----------------------------------------------------------------------------
(* What the user does.                                                     *)

LEMMA SendIs ==
  ASSUME NEW do, NEW k, NEW u, NEW p, NEW of, NEW c
  PROVE  LET q == Send(do, k, u, p, of, c)
         IN  /\ q.do = do /\ q.k = k /\ q.user = u /\ q.project = p /\ q.of = of
             /\ q.as = c /\ q.at = "sent" /\ q.ok = FALSE /\ q.items = {}
             /\ q.ends = FALSE
BY DEF Send

LEMMA AccountsKeepIInv ==
  ASSUME IInv, Logout \/ (\E u \in Users : Login(u))
  PROVE  IInv'
<1>1. /\ user \in Users \cup {Nil} /\ cookie \in Users \cup {Nil}
      /\ active \in Projects \cup {Nil} /\ deletingProject \in Projects \cup {Nil}
  BY DEF IInv, TypeOK
<1>2. CASE Logout
  <2> DEFINE q == Send("logout", "none", user, active, Nil, cookie)
  <2>1. q \in Request
    BY <1>1, SendType DEF Tasks
  <2>2. q.do = "logout" /\ q.ends = FALSE /\ q.at = "sent"
    BY DEF Send
  <2>3. /\ user # Nil /\ requests' = requests \cup {q}
        /\ UNCHANGED <<services, browser>>
    BY <1>2 DEF Logout, Ready, Call
  <2> HIDE DEF q
  <2>4. Asks(q)
    BY <1>1, <2>1, <2>2, <2>3
    DEF Asks, Sound, Loads, Changes, Entering, Deletion, browser, deleting
  <2> QED
    BY <2>4, AskKeepsIInv
<1>3. CASE \E u \in Users : Login(u)
  <2>0. PICK u \in Users : Login(u)
    BY <1>3
  <2> DEFINE q == Send("login", "none", u, Nil, Nil, cookie)
  <2>1. q \in Request
    BY <1>1, SendType DEF Tasks
  <2>2. q.do = "login" /\ q.ends = FALSE /\ q.at = "sent"
    BY DEF Send
  <2>3. /\ user = Nil /\ requests' = requests \cup {q}
        /\ UNCHANGED <<services, browser>>
        /\ \A r \in requests : r.do \notin {"me", "login", "logout"}
    BY <2>0 DEF Login, Call
  <2>4. user = Nil => section = "other"
    BY <2>3 DEF IInv, OutsideIsEmpty
  <2> HIDE DEF q
  <2>5. Asks(q)
    BY <1>1, <2>1, <2>2, <2>3, <2>4
    DEF Asks, Sound, Loads, Changes, Entering, Deletion, browser, deleting
  <2> QED
    BY <2>5, AskKeepsIInv
<1> QED
  BY <1>2, <1>3

LEMMA ProjectCallsKeepIInv ==
  ASSUME IInv, NEW p \in Projects, CreateProject(p) \/ DeleteProject(p)
  PROVE  IInv'
<1>1. /\ user \in Users \cup {Nil} /\ cookie \in Users \cup {Nil}
      /\ active \in Projects \cup {Nil} /\ deletingProject \in Projects \cup {Nil}
  BY DEF IInv, TypeOK
<1> DEFINE do == IF CreateProject(p) THEN "createProject" ELSE "deleteProject"
           q == Send(do, "none", user, active, p, cookie)
<1>2. do \in {"createProject", "deleteProject"}
  OBVIOUS
<1>3. /\ user # Nil /\ requests' = requests \cup {q}
      /\ deletingProject' \in Projects \cup {Nil}
      /\ UNCHANGED <<services, cookie, saved, user, loaded, projects,
                      active, section, shown, deleting>>
  <2>1. CASE CreateProject(p)
    BY <1>1, <2>1 DEF CreateProject, Ready, Call, browser
  <2>2. CASE ~CreateProject(p)
    BY <1>1, <2>2 DEF DeleteProject, Ready, Call
  <2> QED
    BY <2>1, <2>2
<1> HIDE DEF do
<1>4. q \in Request
  BY <1>1, <1>2, SendType DEF Tasks
<1>5. q.do = do /\ q.ends = FALSE /\ q.at = "sent" /\ q.of = p
  BY DEF Send
<1> HIDE DEF q
<1>6. Asks(q)
  BY <1>1, <1>2, <1>3, <1>4, <1>5
  DEF Asks, Sound, Loads, Changes, Entering, Deletion
<1> QED
  BY <1>6, AskKeepsIInv

LEMMA ResourceCallsKeepIInv ==
  ASSUME IInv, NEW k \in Kinds, NEW n \in NamesOf(k),
         Create(k, n) \/ Update(k, n) \/ Delete(k, n)
  PROVE  IInv'
<1>1. /\ user \in Users \cup {Nil} /\ cookie \in Users \cup {Nil}
      /\ active \in Projects \cup {Nil} /\ deletingProject \in Projects \cup {Nil}
      /\ (user # Nil => cookie = user) /\ k \in AllKinds /\ n \in Names \cup {Nil}
  BY ConsoleAssumption DEF IInv, TypeOK, CookieIsOfUser, NamesOf
<1> DEFINE do == IF Delete(k, n) THEN "delete" ELSE IF Create(k, n) THEN "create" ELSE "update"
           q == Send(do, k, user, active, n, cookie)
<1>2. do \in Changes /\ (do = "delete" <=> Delete(k, n))
  BY DEF Changes
<1>3. /\ Ready /\ active # Nil /\ requests' = requests \cup {q}
      /\ deletingProject' = deletingProject
      /\ UNCHANGED <<services, cookie, saved, user, loaded, projects,
                      active, section, shown>>
  BY DEF Create, Update, Delete, Call, browser
<1>4. IF Delete(k, n)
      THEN /\ n \in Names /\ spin' = [spin EXCEPT ![k] = n]
           /\ overlapped' = IF Deletions(k) = {} THEN overlapped ELSE overlapped \cup {k}
      ELSE UNCHANGED deleting
  BY DEF Create, Update, Delete, browser, NamesOf
<1> HIDE DEF do
<1>5. q \in Request
  BY <1>1, <1>2, SendType DEF Tasks, Changes
<1>6. /\ q.do = do /\ q.k = k /\ q.ends = FALSE /\ q.at = "sent" /\ q.ok = FALSE
      /\ q.items = {} /\ q.user = user /\ q.project = active /\ q.as = user /\ q.of = n
  BY <1>1, <1>3 DEF Send, Ready
<1> HIDE DEF q
<1>7. Sound(q) /\ ~Entering(q) /\ q.do # "logout" /\ (Deletion(q) <=> Delete(k, n))
  BY <1>2, <1>3, <1>4, <1>6 DEF Sound, Loads, Changes, Entering, Deletion, Ready
<1>8. Asks(q)
  BY <1>1, <1>3, <1>4, <1>5, <1>6, <1>7 DEF Asks, Ready
<1> QED
  BY <1>8, AskKeepsIInv

LEMMA TickKeepsIInv ==
  ASSUME IInv, NEW k \in Polled, Tick(k)
  PROVE  IInv'
<1> DEFINE q == Send("quiet", k, user, active, Nil, cookie)
<1>1. /\ user \in Users \cup {Nil} /\ cookie \in Users \cup {Nil}
      /\ active \in Projects \cup {Nil} /\ deletingProject \in Projects \cup {Nil}
      /\ (user # Nil => cookie = user) /\ k \in AllKinds /\ k \in Kinds
  BY ConsoleAssumption, KindFacts DEF IInv, TypeOK, CookieIsOfUser
<1>2. q \in Request
  BY <1>1, SendType DEF Tasks
<1>3. /\ Ready /\ active # Nil /\ requests' = requests \cup {q}
      /\ UNCHANGED <<services, browser>>
  BY DEF Tick, Call
<1>4. /\ q.do = "quiet" /\ q.k = k /\ q.ends = FALSE /\ q.at = "sent" /\ q.ok = FALSE
      /\ q.items = {} /\ q.user = user /\ q.project = active /\ q.as = user
  BY <1>1, <1>3 DEF Send, Ready
<1> HIDE DEF q
<1>5. Sound(q) /\ ~Entering(q) /\ q.do # "logout" /\ ~Deletion(q)
  BY <1>1, <1>3, <1>4 DEF Sound, Loads, Changes, Entering, Deletion, Ready
<1>6. Asks(q)
  BY <1>1, <1>2, <1>3, <1>5 DEF Asks, Ready, browser
<1> QED
  BY <1>6, AskKeepsIInv

LEMMA PagesKeepIInv ==
  ASSUME IInv, (\E p \in Projects : SelectProject(p)) \/ (\E s \in Sections : Navigate(s))
  PROVE  IInv'
<1>1. /\ user # Nil /\ loaded /\ UNCHANGED <<services, projects, deleting, deletingProject>>
  BY DEF SelectProject, Navigate, Ready
<1>2. PICK a \in Projects \cup {Nil}, s \in Sections :
        /\ Render(user, a, loaded, s, cookie, shown, requests)
        /\ a # Nil => a \in listed \ marked
        /\ saved' \in [Users -> Projects \cup {Nil}]
  BY DEF SelectProject, Navigate, IInv, TypeOK, SelectedIsListed, Ready
<1>3. InOrder(user, s, cookie, requests)
  BY <1>1 DEF InOrder, IInv, TypeOK, RequestsAreSound, CookieIsOfUser
<1>4. Told(requests, spin, overlapped)
  BY DEF IInv, DeletionsAreTold
<1>5. Displays(user, a, loaded, s, cookie, shown, requests)
  BY <1>1, <1>2, <1>3, <1>4
  DEF Displays, IInv, TypeOK, ShownIsOwn, services, projects, deleting, ServicesTyped,
      Lists
<1> QED
  BY <1>5, RenderKeepsIInv

(* A page that has just been opened.                                       *)
LEMMA OpenedIsInOrder ==
  ASSUME cookie' \in Users \cup {Nil}, user' = Nil, active' = Nil, loaded' = FALSE,
         listed' = {}, marked' = {}, strays' = {}, shown' = [k \in Kinds |-> Nothing],
         spin' = [k \in Kinds |-> Nil], overlapped' = {}, deletingProject' = Nil,
         requests' = {Send("me", "none", Nil, Nil, Nil, cookie')},
         section' \in Sections, saved' \in [Users -> Projects \cup {Nil}], ServicesTyped
  PROVE  IInv'
<1> DEFINE q == Send("me", "none", Nil, Nil, Nil, cookie')
<1>1. q \in Request
  BY SendType DEF Tasks
<1>2. q.do = "me" /\ q.ends = FALSE /\ q.at = "sent" /\ q.as = cookie'
  BY DEF Send
<1>3. requests' = {q}
  OBVIOUS
<1> HIDE DEF q
<1>4. TypeOK'
  BY <1>1, <1>3, NothingType DEF TypeOK, ServicesTyped
<1>5. RequestsAreSound'
  BY <1>2, <1>3 DEF RequestsAreSound, Sound, Loads, Changes, Deletion
<1>6. CookieIsOfUser' /\ DeletionsAreTold'
  BY <1>2, <1>3 DEF CookieIsOfUser, DeletionsAreTold, Told, Deletion
<1>7. OutsideIsEmpty'
  BY <1>2, <1>3, NothingType DEF OutsideIsEmpty
<1>8. SelectedIsListed' /\ ShownIsOwn'
  BY DEF SelectedIsListed, ShownIsOwn
<1> QED
  BY <1>4, <1>5, <1>6, <1>7, <1>8 DEF IInv

LEMMA RefreshKeepsIInv ==
  ASSUME IInv, Refresh
  PROVE  IInv'
BY OpenedIsInOrder DEF Refresh, IInv, TypeOK, services, ServicesTyped

LEMMA InitIInv ==
  ASSUME Init
  PROVE  IInv
<1> DEFINE q == Send("me", "none", Nil, Nil, Nil, cookie)
<1>1. cookie \in Users \cup {Nil}
  BY DEF Init
<1>2. q \in Request
  BY <1>1, SendType DEF Tasks
<1>3. q.do = "me" /\ q.ends = FALSE /\ q.at = "sent" /\ q.as = cookie
  BY DEF Send
<1>4. requests = {q}
  BY DEF Init
<1> HIDE DEF q
<1>5. TypeOK
  <2>1. rows \in [Projects -> {"unborn", "live", "deleting", "gone"}]
    BY DEF Init
  <2>2. faults \in 0..MaxFaults
    BY ConsoleAssumption DEF Init
  <2>3. shown \in Lists
        /\ spin \in [Kinds -> Names \cup {Nil}] /\ saved \in [Users -> Projects \cup {Nil}]
    BY NothingType DEF Init, Lists
  <2> QED
    BY <1>1, <1>2, <1>4, <2>1, <2>2, <2>3 DEF TypeOK, Init, Lists
<1>6. RequestsAreSound
  BY <1>3, <1>4 DEF RequestsAreSound, Sound, Loads, Changes, Deletion
<1>7. CookieIsOfUser /\ DeletionsAreTold
  BY <1>3, <1>4 DEF CookieIsOfUser, DeletionsAreTold, Told, Deletion, Init
<1>8. OutsideIsEmpty
  BY <1>3, <1>4, NothingType DEF OutsideIsEmpty, Init
<1>9. SelectedIsListed /\ ShownIsOwn
  BY <1>3, <1>4 DEF SelectedIsListed, ShownIsOwn, Init
<1> QED
  BY <1>5, <1>6, <1>7, <1>8, <1>9 DEF IInv

LEMMA StepKeepsIInv ==
  ASSUME IInv, [Next]_vars
  PROVE  IInv'
<1>1. CASE UNCHANGED vars
  <2>1. UNCHANGED services /\ UNCHANGED browser /\ requests' = requests
    BY <1>1 DEF vars
  <2>2. TypeOK'
    BY <2>1 DEF services, browser, projects, deleting, IInv, TypeOK
  <2>3. RequestsAreSound'
    BY <2>1 DEF IInv, RequestsAreSound
  <2>4. CookieIsOfUser' /\ DeletionsAreTold'
    BY <2>1 DEF browser, deleting, IInv, CookieIsOfUser, DeletionsAreTold
  <2>5. OutsideIsEmpty' /\ SelectedIsListed'
    BY <2>1 DEF browser, projects, IInv, OutsideIsEmpty, SelectedIsListed
  <2>6. ShownIsOwn'
    BY <2>1 DEF browser, IInv, ShownIsOwn
  <2> QED
    BY <2>2, <2>3, <2>4, <2>5, <2>6 DEF IInv
<1>2. CASE Next
  <2>1. CASE \E r \in requests : Serve(r) \/ Handle(r) \/ Poll(r)
    BY <2>1, ServeKeepsIInv, HandleKeepsIInv, PollKeepsIInv
  <2>2. CASE \E t \in removals : Settle(t, "done") \/ Settle(t, "error")
    BY <2>2, SettleKeepsIInv
  <2>3. CASE \E p \in Projects : FinishProject(p) \/ SelectProject(p)
                                 \/ CreateProject(p) \/ DeleteProject(p)
    BY <2>3, FinishKeepsIInv, PagesKeepIInv, ProjectCallsKeepIInv
  <2>4. CASE Logout \/ \E u \in Users : Login(u)
    BY <2>4, AccountsKeepIInv
  <2>5. CASE \E s \in Sections : Navigate(s)
    BY <2>5, PagesKeepIInv
  <2>6. CASE \E k \in Kinds : \E n \in NamesOf(k) :
               Create(k, n) \/ Update(k, n) \/ Delete(k, n)
    BY <2>6, ResourceCallsKeepIInv
  <2>7. CASE \E k \in Polled : Tick(k)
    BY <2>7, TickKeepsIInv
  <2>8. CASE Refresh
    BY <2>8, RefreshKeepsIInv
  <2> QED
    BY <1>2, <2>1, <2>2, <2>3, <2>4, <2>5, <2>6, <2>7, <2>8 DEF Next
<1> QED
  BY <1>1, <1>2
-----------------------------------------------------------------------------
(* The invariant holds in every reachable state of the console.            *)
THEOREM Invariance == Spec => []IInv
<1>1. Init => IInv
  BY InitIInv
<1>2. IInv /\ [Next]_vars => IInv'
  BY StepKeepsIInv
<1> QED
  BY <1>1, <1>2, PTL DEF Spec

(* Type correctness of the console's state.                                *)
THEOREM TypeCorrect == Spec => []TypeOK
BY Invariance, PTL DEF IInv

(* A list that no late answer filled holds the logged-in user's items.     *)
THEOREM ListsAreOwn == Spec => []ShownIsOwn
BY Invariance, PTL DEF IInv

(* A name that is shown as "deleting..." is that of a deletion on its way, *)
(* and as long as the deletions of a kind have not overlapped, the one on  *)
(* its way is shown.                                                       *)
THEOREM SpinnerIsHonest == Spec => []SpinnerIsWork
<1>1. IInv => SpinnerIsWork
  BY DEF IInv, DeletionsAreTold, Told, SpinnerIsWork, Deletions
<1> QED
  BY <1>1, Invariance, PTL

-----------------------------------------------------------------------------
(* Whose projects are listed. The rows of projects that were made stay made. *)

Born(p) == rows[p] # "unborn"

RowsRemain == \A p \in Projects : Born(p) => Born(p)'

LEMMA RowChanges ==
  ASSUME IInv, NEW p, NEW s, rows' = [rows EXCEPT ![p] = s], s # "unborn" \/ s = rows[p]
  PROVE  RowsRemain
BY DEF IInv, TypeOK, RowsRemain, Born

LEMMA RowsStay ==
  ASSUME UNCHANGED rows
  PROVE  RowsRemain
BY DEF RowsRemain, Born

LEMMA ServeKeepsRows ==
  ASSUME IInv, NEW r \in requests, Serve(r)
  PROVE  RowsRemain
<1>1. CASE ServeCreateProject(r)
  BY <1>1, RowChanges DEF ServeCreateProject
<1>2. CASE BeginDeleteProject(r)
  BY <1>2, RowChanges DEF BeginDeleteProject
<1>3. ASSUME NEW s \in Unmarked(r.of) \cup Dropped(r), rows' = [rows EXCEPT ![r.of] = s]
      PROVE  RowsRemain
  BY <1>3, RowChanges DEF Unmarked, Dropped
<1>4. CASE ServeDeleteProject(r) \/ FailDeleteProject(r)
  BY <1>3, <1>4, RowsStay DEF ServeDeleteProject, FailDeleteProject
<1>5. CASE \/ ServeMe(r) \/ ServeLogin(r) \/ ServeLogout(r) \/ ServeProjects(r)
           \/ ServeList(r) \/ ServePut(r) \/ ServeDelete(r)
           \/ ServeRefusal(r) \/ Lose(r)
  BY <1>5, RowsStay
  DEF ServeMe, ServeLogin, ServeLogout, ServeProjects, ServeList, ServePut,
      ServeDelete, ServeRefusal, Refuse, Lose, services
<1> QED
  BY <1>1, <1>2, <1>4, <1>5 DEF Serve

(* What is listed belongs to the user, or was put there for another one.    *)
ListedAreOwn == \A p \in listed : Born(p) /\ (Owner[p] = user \/ p \in strays)

(* The load of the projects is on its way for the user of a page that has   *)
(* none yet, a creation is its closure's, and a user who logs out has them. *)
Grounded(q) ==
  /\ q.do = "projects" =>
       /\ user # Nil /\ q.user = user /\ q.as = user /\ ~loaded
       /\ \A e \in q.projects : Born(e[1]) /\ Owner[e[1]] = user
  /\ q.do = "createProject" =>
       /\ q.as = q.user
       /\ q.ok => Born(q.of) /\ Owner[q.of] = q.user
  /\ q.do = "logout" /\ user # Nil => loaded

OneListing == \A q, r \in requests : q.do = "projects" /\ r.do = "projects" => q = r

JInv ==
  /\ ListedAreOwn
  /\ \A q \in requests : Grounded(q)
  /\ OneListing

(* Steps that leave user and list alone, and load no projects.              *)
Calm ==
  /\ RowsRemain
  /\ UNCHANGED <<user, loaded, listed, strays>>
  /\ \A q \in requests' : q \in requests \/ (q.do # "projects" /\ Grounded(q)')

Other(q) == q.do \notin {"projects", "createProject", "logout"}

LEMMA OthersAreGrounded ==
  ASSUME NEW q, Other(q)
  PROVE  q.do # "projects" /\ Grounded(q)'
BY DEF Other, Grounded

LEMMA EffectsAreOther ==
  ASSUME NEW u, NEW a, NEW l, NEW s, NEW c, NEW q \in Effects(u, a, l, s, c)
  PROVE  Other(q)
<1>1. q.do = "list"
  BY DEF Effects, SelectionEffect, SectionEffect, Send
<1> QED
  BY <1>1 DEF Other

LEMMA RemainGrounded ==
  ASSUME IInv, RowsRemain, UNCHANGED <<user, loaded>>,
         NEW q \in requests, Grounded(q)
  PROVE  Grounded(q)'
<1>1. q \in Request /\ Sound(q)
  BY DEF IInv, TypeOK, RequestsAreSound
<1>2. \A e \in q.projects : e[1] \in Projects
  BY <1>1 DEF Request, Entries
<1>3. q.do = "createProject" => q.of \in Projects
  BY <1>1 DEF Sound
<1> QED
  BY <1>2, <1>3 DEF Grounded, RowsRemain

LEMMA CalmKeepsJInv ==
  ASSUME IInv, JInv, Calm
  PROVE  JInv'
<1>1. ListedAreOwn'
  BY DEF IInv, TypeOK, JInv, Calm, ListedAreOwn, RowsRemain
<1>2. \A q \in requests' : Grounded(q)'
  BY RemainGrounded DEF JInv, Calm
<1>3. OneListing'
  BY DEF JInv, Calm, OneListing
<1> QED
  BY <1>1, <1>2, <1>3 DEF JInv

LEMMA RenderIsCalm ==
  ASSUME RowsRemain, UNCHANGED <<listed, strays>>,
         NEW a, NEW s, NEW c, NEW lists, NEW rest,
         Render(user, a, loaded, s, c, lists, rest),
         \A q \in rest : q \in requests \/ Other(q)
  PROVE  Calm
<1>1. requests' = rest \cup Effects(user, a, loaded, s, c)
  BY DEF Render, Effects
<1>2. \A q \in requests' : q \in requests \/ Other(q)
  BY <1>1, EffectsAreOther
<1>3. user' = user /\ loaded' = loaded
  BY DEF Render
<1> QED
  BY <1>2, <1>3, OthersAreGrounded DEF Calm

LEMMA UserEffectKeepsJInv ==
  ASSUME IInv, JInv, NEW r \in requests, r.do \in {"me", "login", "logout"},
         NEW u, NEW c, u # Nil => c = u /\ user = Nil /\ r.do # "logout",
         UserEffect(u, c, Rest(r)), UNCHANGED services
  PROVE  JInv'
<1> DEFINE load == Send("projects", "none", u, Nil, Nil, c)
           rest == Rest(r) \cup (IF u = Nil THEN {} ELSE {load})
<1>1. /\ listed' = {} /\ user' = u /\ loaded' = FALSE
      /\ \E a, s, lists : requests' = rest \cup Effects(u, a, FALSE, s, c)
  BY DEF UserEffect, Render, Effects
<1>2. \A a, s : \A q \in Effects(u, a, FALSE, s, c) : Other(q)
  BY EffectsAreOther
<1>3. \A q \in requests : q.do # "projects"
  <2>1. user # Nil => r.do = "logout"
    BY DEF IInv, CookieIsOfUser, Entering
  <2> QED
    BY <2>1 DEF JInv, Grounded
<1>4. u # Nil => \A q \in requests : q.do # "logout"
  BY DEF IInv, CookieIsOfUser, Entering
<1>5. load.do = "projects" /\ load.user = u /\ load.as = c /\ load.projects = {}
  BY DEF Send
<1>6. \A q \in requests' : q \in requests \/ (u # Nil /\ q = load) \/ Other(q)
  BY <1>1, <1>2 DEF Rest
<1> HIDE DEF load, rest
<1>7. ListedAreOwn'
  BY <1>1 DEF ListedAreOwn
<1>8. ASSUME NEW q \in requests' PROVE Grounded(q)'
  <2>1. CASE q \in requests
    <3>1. RowsRemain
      BY RowsStay DEF services
    <3>2. q.do = "createProject" => q.of \in Projects
      BY <2>1 DEF IInv, RequestsAreSound, Sound
    <3> QED
      BY <1>1, <1>3, <1>4, <2>1, <3>1, <3>2 DEF JInv, Grounded, RowsRemain
  <2>2. CASE u # Nil /\ q = load
    BY <1>1, <1>5, <2>2 DEF Grounded
  <2>3. CASE Other(q)
    BY <2>3, OthersAreGrounded
  <2> QED
    BY <1>6, <2>1, <2>2, <2>3
<1>9. OneListing'
  BY <1>3, <1>6 DEF OneListing, Other
<1> QED
  BY <1>7, <1>8, <1>9 DEF JInv

LEMMA HandleProjectsKeepsJInv ==
  ASSUME IInv, JInv, NEW r \in requests, HandleProjects(r), UNCHANGED services
  PROVE  JInv'
<1>1. PICK a, s : Render(user, a, TRUE, s, cookie, shown, Rest(r))
  BY DEF HandleProjects
<1>2. /\ user' = user /\ loaded' = TRUE /\ listed' = Listed(r) /\ r.do = "projects"
      /\ \A q \in requests' : q \in Rest(r) \/ Other(q)
  <2>1. requests' = Rest(r) \cup Effects(user, a, TRUE, s, cookie)
    BY <1>1 DEF Render, Effects
  <2> QED
    BY <1>1, <2>1, EffectsAreOther DEF HandleProjects, Render
<1>3. Grounded(r) /\ \A q \in Rest(r) : q.do # "projects" /\ Grounded(q)
  BY <1>2 DEF JInv, OneListing, Rest
<1>4. \A p \in Listed(r) : \E e \in r.projects : e[1] = p
  BY DEF Listed
<1>5. ListedAreOwn'
  BY <1>2, <1>3, <1>4 DEF ListedAreOwn, Grounded, Born, services
<1>6. ASSUME NEW q \in requests' PROVE Grounded(q)'
  <2>1. CASE q \in Rest(r)
    BY <1>2, <1>3, <2>1 DEF Grounded, Born, services
  <2> QED
    BY <1>2, <2>1, OthersAreGrounded
<1>7. OneListing'
  BY <1>2, <1>3 DEF OneListing, Other
<1> QED
  BY <1>5, <1>6, <1>7 DEF JInv

LEMMA HandleCreateProjectKeepsJInv ==
  ASSUME IInv, JInv, NEW r \in requests, HandleCreateProject(r), UNCHANGED services
  PROVE  JInv'
<1>1. /\ user' = user /\ loaded' = loaded /\ listed' = listed \cup {r.of}
      /\ strays' = IF r.user # user THEN strays \cup {r.of} ELSE strays
      /\ r.do = "createProject" /\ r.ok
      /\ \A q \in requests' : q \in requests \/ Other(q)
  <2>1. requests' = Rest(r) \cup Effects(user, r.of, loaded, "other", cookie)
    BY DEF HandleCreateProject, Render, Effects
  <2> QED
    BY <2>1, EffectsAreOther DEF HandleCreateProject, Render, Rest
<1>2. Grounded(r)
  BY DEF JInv
<1>3. ListedAreOwn'
  BY <1>1, <1>2 DEF JInv, ListedAreOwn, Grounded, Born, services
<1>4. ASSUME NEW q \in requests' PROVE Grounded(q)'
  BY <1>1, OthersAreGrounded DEF JInv, Grounded, Born, services
<1>5. OneListing'
  BY <1>1 DEF JInv, OneListing, Other
<1> QED
  BY <1>3, <1>4, <1>5 DEF JInv

LEMMA HandleKeepsJInv ==
  ASSUME IInv, JInv, NEW r \in requests, Handle(r)
  PROVE  JInv'
<1>1. UNCHANGED services /\ RowsRemain /\ r \in Request
  BY RowsStay DEF Handle, services, IInv, TypeOK
<1>2. \A q \in Rest(r) : q \in requests
  BY DEF Rest
<1>3. CASE HandleMe(r) \/ HandleLogin(r) \/ HandleLogout(r)
  <2>1. r.do \in {"me", "login"} => user = Nil
    BY DEF IInv, CookieIsOfUser, Entering
  <2>2. r.do = "me" => r.as = cookie
    BY DEF IInv, CookieIsOfUser
  <2> QED
    BY <1>1, <1>3, <2>1, <2>2, UserEffectKeepsJInv DEF HandleMe, HandleLogin, HandleLogout
<1>4. CASE HandleProjects(r)
  BY <1>1, <1>4, HandleProjectsKeepsJInv
<1>5. CASE HandleCreateProject(r)
  BY <1>1, <1>5, HandleCreateProjectKeepsJInv
<1>6. ASSUME NEW a, NEW s, NEW lists, NEW new,
             Render(user, a, loaded, s, cookie, lists, Rest(r) \cup new),
             \A q \in new : Other(q), UNCHANGED projects
      PROVE  JInv'
  BY <1>1, <1>2, <1>6, RenderIsCalm, CalmKeepsJInv DEF projects
<1>10. ASSUME NEW lists, Render(user, active, loaded, section, cookie, lists, Rest(r)),
              UNCHANGED projects
       PROVE  JInv'
  BY <1>1, <1>2, <1>10, RenderIsCalm, CalmKeepsJInv DEF projects
<1>7. CASE HandleDeleteProject(r) \/ HandleDelete(r)
  <2> DEFINE new == {[r EXCEPT !.at = "polling"]}
  <2>1. (\E a, s : Render(user, a, loaded, s, cookie, shown, Rest(r) \cup new))
        /\ UNCHANGED projects
    BY <1>7 DEF HandleDeleteProject, HandleDelete, Stay
  <2>2. \A q \in new : Other(q)
    BY <1>1, <1>7 DEF HandleDeleteProject, HandleDelete, Other, Request
  <2> HIDE DEF new
  <2> QED
    BY <1>6, <2>1, <2>2
<1>8. CASE HandleList(r) \/ HandleUpdate(r) \/ HandleFailure(r)
  <2>1. (\E lists : Render(user, active, loaded, section, cookie, lists, Rest(r)))
        /\ UNCHANGED projects
    BY <1>8 DEF HandleList, HandleUpdate, HandleFailure, Fail, Stay
  <2> QED
    BY <1>10, <2>1
<1>9. CASE HandleCreate(r)
  <2> DEFINE again(do) == Send(do, r.k, r.user, r.project, Nil, cookie)
  <2>1. \A do \in {"list", "quiet"} : Other(again(do))
    BY DEF Send, Other
  <2>2. UNCHANGED projects
    BY <1>9 DEF HandleCreate
  <2> HIDE DEF again
  <2>3. \E s, lists, new :
          /\ Render(user, active, loaded, s, cookie, lists, Rest(r) \cup new)
          /\ new = {} \/ \E do \in {"list", "quiet"} : new = {again(do)}
    BY <1>9, Zenon DEF HandleCreate, Stay, again
  <2> QED
    BY <1>6, <2>1, <2>2, <2>3
<1> QED
  BY <1>3, <1>4, <1>5, <1>7, <1>8, <1>9 DEF Handle

LEMMA PollKeepsJInv ==
  ASSUME IInv, JInv, NEW r \in requests, Poll(r)
  PROVE  JInv'
<1>1. RowsRemain /\ r \in Request /\ r.do \in {"delete", "deleteProject"}
  BY RowsStay DEF Poll, IInv, TypeOK, RequestsAreSound, Sound
<1>2. ASSUME NEW s, NEW new,
             Render(user, active, loaded, s, cookie, shown, Rest(r) \cup new),
             \A q \in new : Other(q), UNCHANGED projects
      PROVE  JInv'
  BY <1>1, <1>2, RenderIsCalm, CalmKeepsJInv DEF projects, Rest
<1>3. CASE PollFails(r) \/ PollLost(r)
  <2>1. Render(user, active, loaded, section, cookie, shown, Rest(r)) /\ UNCHANGED projects
    BY <1>3 DEF PollFails, PollLost, Fail, Stay
  <2> QED
    BY <1>1, <2>1, RenderIsCalm, CalmKeepsJInv DEF projects, Rest
<1>4. CASE PollAgain(r)
  <2> DEFINE q == [r EXCEPT !.polls = @ + 1]
  <2>1. Other(q)
    BY <1>1 DEF Request, Other
  <2>2. Render(user, active, loaded, section, cookie, shown, Rest(r) \cup {q})
        /\ UNCHANGED projects
    BY <1>4 DEF PollAgain, Stay
  <2> HIDE DEF q
  <2> QED
    BY <1>2, <2>1, <2>2
<1>5. CASE PollDone(r)
  <2> DEFINE z == Send(IF r.k \in Polled THEN "list" ELSE "quiet",
                       r.k, r.user, r.project, r.of, cookie)
             q == [z EXCEPT !.op = "done", !.ends = TRUE]
  <2>1. Other(q)
    BY DEF Send, Other
  <2>2. (\E s : Render(user, active, loaded, s, cookie, shown, Rest(r) \cup {q}))
        /\ UNCHANGED projects
    BY <1>5 DEF PollDone
  <2> HIDE DEF q
  <2> QED
    BY <1>2, <2>1, <2>2
<1> QED
  BY <1>3, <1>4, <1>5 DEF Poll

LEMMA AnswerKeepsJInv ==
  ASSUME IInv, JInv, NEW r \in requests,
         NEW good, NEW items, NEW list, NEW op,
         Answer(r, good, items, list, op), UNCHANGED browser, RowsRemain,
         r.do = "projects" => \A e \in list : Born(e[1])' /\ Owner[e[1]] = user,
         r.do = "createProject" /\ good => Born(r.of)' /\ Owner[r.of] = r.user
  PROVE  JInv'
<1> DEFINE q == [r EXCEPT !.at = "answered", !.ok = good, !.items = items,
                          !.projects = list, !.op = op]
<1>1. r \in Request
  BY DEF IInv, TypeOK
<1>2. q.do = r.do /\ q.user = r.user /\ q.as = r.as /\ q.of = r.of
      /\ q.ok = good /\ q.projects = list
  BY <1>1 DEF Request
<1>3. requests' = Rest(r) \cup {q}
  BY DEF Answer, Rest
<1> HIDE DEF q
<1>4. UNCHANGED <<user, loaded, listed, strays>>
  BY DEF browser, projects
<1>5. ListedAreOwn'
  BY <1>4 DEF IInv, TypeOK, JInv, ListedAreOwn, RowsRemain
<1>6. Grounded(q)'
  BY <1>2, <1>4 DEF JInv, Grounded
<1>7. \A p \in Rest(r) : Grounded(p)'
  BY <1>4, RemainGrounded DEF JInv, Rest
<1>8. OneListing'
  BY <1>2, <1>3 DEF JInv, OneListing, Rest
<1> QED
  BY <1>3, <1>5, <1>6, <1>7, <1>8 DEF JInv

LEMMA ServeKeepsJInv ==
  ASSUME IInv, JInv, NEW r \in requests, Serve(r)
  PROVE  JInv'
<1>1. /\ r \in Request /\ Grounded(r) /\ UNCHANGED browser /\ RowsRemain
      /\ r.do = "createProject" => r.of \in Projects
  BY ServeKeepsRows DEF IInv, TypeOK, RequestsAreSound, Sound, JInv, Serve
<1>2. CASE ServeProjects(r)
  <2> DEFINE mine == {p \in Projects : Exists(p) /\ Owner[p] = r.as}
             list == {<<p, rows[p]>> : p \in mine}
  <2>1. Answer(r, r.as # Nil, {}, list, "none") /\ r.do = "projects" /\ rows' = rows
    BY <1>2 DEF ServeProjects, services
  <2>2. \A e \in list : Born(e[1]) /\ Owner[e[1]] = user
    BY <1>1, <2>1 DEF Exists, Born, Grounded
  <2> HIDE DEF list
  <2> QED
    BY <1>1, <2>1, <2>2, AnswerKeepsJInv DEF Born
<1>3. CASE ServeCreateProject(r)
  <2>1. /\ r.do = "createProject" /\ Answer(r, TRUE, {}, {}, "none")
        /\ rows'[r.of] = "live" /\ Owner[r.of] = r.user
    BY <1>1, <1>3 DEF ServeCreateProject, IInv, TypeOK, Grounded
  <2> QED
    BY <1>1, <2>1, AnswerKeepsJInv DEF Born
<1>4. CASE BeginDeleteProject(r)
  <2> DEFINE q == [r EXCEPT !.op = "pending"]
  <2>1. requests' = (requests \ {r}) \cup {q}
    BY <1>4 DEF BeginDeleteProject
  <2>2. Other(q)
    BY <1>1, <1>4 DEF BeginDeleteProject, Other, Request
  <2> HIDE DEF q
  <2>3. Calm
    BY <1>1, <2>1, <2>2, OthersAreGrounded DEF Calm, browser, projects
  <2> QED
    BY <2>3, CalmKeepsJInv
<1>5. CASE ServeMe(r) \/ ServeLogin(r) \/ ServeLogout(r)
  BY <1>1, <1>5, AnswerKeepsJInv DEF ServeMe, ServeLogin, ServeLogout
<1>6. CASE ServeDeleteProject(r) \/ FailDeleteProject(r)
  BY <1>1, <1>6, AnswerKeepsJInv DEF ServeDeleteProject, FailDeleteProject
<1>7. CASE ServeList(r) \/ ServePut(r) \/ ServeDelete(r)
  BY <1>1, <1>7, AnswerKeepsJInv DEF ServeList, ServePut, ServeDelete
<1>8. CASE ServeRefusal(r) \/ Lose(r)
  BY <1>1, <1>8, AnswerKeepsJInv DEF ServeRefusal, Refuse, Lose
<1> QED
  BY <1>2, <1>3, <1>4, <1>5, <1>6, <1>7, <1>8 DEF Serve

LEMMA SettleKeepsJInv ==
  ASSUME IInv, JInv, NEW t, NEW how, Settle(t, how)
  PROVE  JInv'
<1>1. \A r \in requests : r.do = "delete" => Other([r EXCEPT !.op = how])
  BY DEF IInv, TypeOK, Request, Other
<1>2. \A q \in requests' : q \in requests \/ Other(q)
  BY <1>1 DEF Settle
<1>3. Calm
  BY <1>2, RowsStay, OthersAreGrounded DEF Calm, Settle, browser, projects
<1> QED
  BY <1>3, CalmKeepsJInv

LEMMA UserKeepsJInv ==
  ASSUME IInv, JInv,
         \/ \E p \in Projects : \/ FinishProject(p) \/ SelectProject(p)
                                \/ CreateProject(p) \/ DeleteProject(p)
         \/ \E u \in Users : Login(u)
         \/ \E s \in Sections : Navigate(s)
         \/ \E k \in Kinds : \E n \in NamesOf(k) :
               Create(k, n) \/ Update(k, n) \/ Delete(k, n)
         \/ \E k \in Polled : Tick(k)
         \/ Logout \/ Refresh
  PROVE  JInv'
<1>1. ASSUME NEW q, requests' = requests \cup {q}, UNCHANGED rows,
             UNCHANGED <<user, loaded, listed, strays>>,
             q.do # "projects", Grounded(q)
      PROVE  JInv'
  <2>1. Grounded(q)'
    BY <1>1 DEF Grounded, Born
  <2> QED
    BY <1>1, <2>1, RowsStay, CalmKeepsJInv DEF Calm
<1>2. ASSUME NEW do, NEW k, NEW u, NEW p, NEW of, NEW c,
             requests' = requests \cup {Send(do, k, u, p, of, c)}, UNCHANGED rows,
             UNCHANGED <<user, loaded, listed, strays>>,
             do \notin {"projects", "createProject", "logout"}
      PROVE  JInv'
  <2> DEFINE q == Send(do, k, u, p, of, c)
  <2>1. q.do # "projects" /\ Grounded(q)
    BY <1>2 DEF Send, Grounded
  <2> HIDE DEF q
  <2> QED
    BY <1>1, <1>2, <2>1 DEF q
<1>3. CASE \E p \in Projects : FinishProject(p)
  <2>1. RowsRemain
    BY <1>3, RowChanges DEF FinishProject
  <2>2. Calm
    BY <1>3, <2>1 DEF Calm, FinishProject, browser, projects
  <2> QED
    BY <2>2, CalmKeepsJInv
<1>4. CASE \/ \E p \in Projects : SelectProject(p)
           \/ \E s \in Sections : Navigate(s)
  BY <1>4, RowsStay, RenderIsCalm, CalmKeepsJInv
  DEF SelectProject, Navigate, services, projects
<1>5. CASE \E p \in Projects : CreateProject(p)
  <2>1. PICK p \in Projects : CreateProject(p)
    BY <1>5
  <2> DEFINE q == Send("createProject", "none", user, active, p, cookie)
  <2>2. /\ user # Nil /\ requests' = requests \cup {q} /\ UNCHANGED rows
        /\ UNCHANGED <<user, loaded, listed, strays>>
    BY <2>1 DEF CreateProject, Ready, Call, services, browser, projects
  <2>3. q.do = "createProject" /\ q.as = cookie /\ q.user = user /\ q.ok = FALSE
    BY DEF Send
  <2> HIDE DEF q
  <2>4. Grounded(q)
    BY <2>2, <2>3 DEF Grounded, IInv, CookieIsOfUser
  <2> QED
    BY <1>1, <2>2, <2>3, <2>4
<1>6. CASE Logout
  <2> DEFINE q == Send("logout", "none", user, active, Nil, cookie)
  <2>1. /\ loaded /\ requests' = requests \cup {q} /\ UNCHANGED rows
        /\ UNCHANGED <<user, loaded, listed, strays>>
    BY <1>6 DEF Logout, Ready, Call, services, browser, projects
  <2>2. q.do = "logout"
    BY DEF Send
  <2> HIDE DEF q
  <2>3. Grounded(q)
    BY <2>1, <2>2 DEF Grounded
  <2> QED
    BY <1>1, <2>1, <2>2, <2>3
<1>7. CASE \/ \E p \in Projects : DeleteProject(p)
           \/ \E u \in Users : Login(u)
  BY <1>2, <1>7 DEF DeleteProject, Login, Call, services, browser, projects
<1>8. CASE \/ \E k \in Kinds : \E n \in NamesOf(k) :
                Create(k, n) \/ Update(k, n) \/ Delete(k, n)
           \/ \E k \in Polled : Tick(k)
  BY <1>2, <1>8 DEF Create, Update, Delete, Tick, Call, services, browser, projects
<1>9. CASE Refresh
  <2> DEFINE q == Send("me", "none", Nil, Nil, Nil, cookie)
  <2>1. listed' = {} /\ requests' = {q}
    BY <1>9 DEF Refresh
  <2>2. q.do = "me"
    BY DEF Send
  <2> HIDE DEF q
  <2> QED
    BY <2>1, <2>2 DEF JInv, ListedAreOwn, OneListing, Grounded
<1> QED
  BY <1>3, <1>4, <1>5, <1>6, <1>7, <1>8, <1>9

LEMMA StepKeepsJInv ==
  ASSUME IInv, JInv, [Next]_vars
  PROVE  JInv'
<1>1. CASE UNCHANGED vars
  <2>1. Calm
    BY <1>1, RowsStay DEF Calm, vars, services, browser, projects
  <2> QED
    BY <2>1, CalmKeepsJInv
<1>2. CASE \E r \in requests : Serve(r) \/ Handle(r) \/ Poll(r)
  BY <1>2, ServeKeepsJInv, HandleKeepsJInv, PollKeepsJInv
<1>3. CASE \E t \in removals : Settle(t, "done") \/ Settle(t, "error")
  BY <1>3, SettleKeepsJInv
<1> QED
  BY <1>1, <1>2, <1>3, UserKeepsJInv DEF Next

(* Whatever account has used the page before and however late its requests *)
(* are answered, the project that is selected on a loaded page is listed    *)
(* there, has been made, and is the user's, or else was put there by the    *)
(* late end of another account's creation.                                 *)
THEOREM SelectionIsOwn == Spec => []SelectedIsOwn
<1>1. Init => JInv
  BY DEF Init, Send, JInv, ListedAreOwn, OneListing, Grounded
<1>2. IInv /\ JInv /\ [Next]_vars => JInv'
  BY StepKeepsJInv
<1>3. IInv /\ JInv => SelectedIsOwn
  BY DEF IInv, SelectedIsListed, JInv, ListedAreOwn, Born, SelectedIsOwn
<1> QED
  BY <1>1, <1>2, <1>3, Invariance, PTL DEF Spec
-----------------------------------------------------------------------------
(* How far a deletion has come on the page: it is sent, answered, polled   *)
(* at most MaxPolls times, and ends with a load. While its operation is    *)
(* pending it has come a step less far than when it is settled.            *)
Stage(r) ==
  IF r.do = "delete"
  THEN CASE r.at = "sent" -> 0 [] r.at = "answered" -> 1 [] OTHER -> 2 + r.polls
  ELSE MaxPolls + (IF r.at = "sent" THEN 2 ELSE 3)

Rank(r) ==
  2 * Stage(r) + (IF r.do = "delete" /\ r.op = "pending" THEN 0 ELSE 1)

Counted == \A r \in requests : r.do = "delete" => r.polls < MaxPolls

(* A deletion that is new takes the place of one of the same resource that  *)
(* had come less far, unless the user has just clicked.                    *)
Further(q) ==
  /\ q.do = "delete" => q.polls < MaxPolls
  /\ Deletion(q) =>
       \E r \in requests \ requests' :
         /\ Deletion(r) /\ Rank(r) < Rank(q)
         /\ q.k = r.k /\ q.of = r.of /\ q.user = r.user /\ q.project = r.project

Clicked == \E k \in Kinds : \E n \in NamesOf(k) : Delete(k, n)

Advance ==
  /\ Counted'
  /\ Clicked \/ \A q \in requests' \ requests : Further(q)

LEMMA FurtherStep ==
  ASSUME Counted, \A q \in requests' \ requests : Further(q)
  PROVE  Advance
BY DEF Advance, Counted, Further

LEMMA SendIsFurther ==
  ASSUME NEW do, do # "delete", NEW k, NEW u, NEW p, NEW of, NEW c
  PROVE  Further(Send(do, k, u, p, of, c))
BY DEF Further, Deletion, Send

LEMMA RenderAdvances ==
  ASSUME Counted,
         NEW u, NEW a, NEW l, NEW s, NEW c, NEW lists, NEW rest,
         Render(u, a, l, s, c, lists, rest),
         \A q \in rest \ requests : Further(q)
  PROVE  Advance
<1>1. \A q \in SelectionEffect(u, a, l, c) \cup SectionEffect(u, a, s, c) :
        \E k : q = Send("list", k, u, a, Nil, c)
  BY DEF SelectionEffect, SectionEffect
<1>2. \A q \in requests' \ requests : Further(q)
  BY <1>1, SendIsFurther DEF Render
<1> QED
  BY <1>2, FurtherStep

(* A function goes on with a deletion that has come further than before.   *)
LEMMA TurnAdvances ==
  ASSUME Counted, NEW r \in requests, NEW q,
         NEW u, NEW a, NEW l, NEW s, NEW c, NEW lists,
         Render(u, a, l, s, c, lists, Rest(r) \cup {q}),
         q # r, q.k = r.k, q.of = r.of, q.user = r.user, q.project = r.project,
         Deletion(q) => Deletion(r) /\ Rank(r) < Rank(q),
         q.do = "delete" => q.polls < MaxPolls
  PROVE  Advance
<1>1. requests' = Rest(r) \cup {q} \cup Effects(u, a, l, s, c)
  BY DEF Render, Effects
<1>2. Deletion(r) => r \notin Effects(u, a, l, s, c)
  <2>1. \A e \in Effects(u, a, l, s, c) : e.do = "list" /\ e.ends = FALSE
    BY DEF Effects, SelectionEffect, SectionEffect, Send
  <2> QED
    BY <2>1 DEF Deletion
<1>3. Further(q)
  BY <1>1, <1>2 DEF Further, Rest
<1>4. \A p \in (Rest(r) \cup {q}) \ requests : Further(p)
  BY <1>3 DEF Rest
<1> QED
  BY <1>4, RenderAdvances

LEMMA UserEffectAdvances ==
  ASSUME IInv, Counted, NEW u, NEW c, NEW r, UserEffect(u, c, Rest(r))
  PROVE  Advance
<1> DEFINE rest == Rest(r) \cup IF u = Nil THEN {}
                                ELSE {Send("projects", "none", u, Nil, Nil, c)}
<1>1. \A q \in rest \ requests : Further(q)
  BY SendIsFurther DEF Rest
<1>2. PICK a, s, lists : Render(u, a, FALSE, s, c, lists, rest)
  BY DEF UserEffect
<1> HIDE DEF rest
<1> QED
  BY <1>1, <1>2, RenderAdvances

LEMMA HandleAdvances ==
  ASSUME IInv, Counted, NEW r \in requests, Handle(r)
  PROVE  Advance
<1>1. r.at = "answered" /\ r \in Request /\ Sound(r)
  BY DEF Handle, IInv, TypeOK, RequestsAreSound
<1>2. \A q \in Rest(r) \ requests : Further(q)
  BY DEF Rest
<1>3. CASE HandleMe(r) \/ HandleLogin(r) \/ HandleLogout(r)
  BY <1>1, <1>3, UserEffectAdvances DEF HandleMe, HandleLogin, HandleLogout
<1>4. ASSUME NEW a, NEW l, NEW s, NEW lists, NEW new,
             Render(user, a, l, s, cookie, lists, Rest(r) \cup new),
             \A q \in new : Further(q)
      PROVE  Advance
  BY <1>2, <1>4, RenderAdvances
<1>5. ASSUME NEW a, NEW l, NEW s, NEW lists,
             Render(user, a, l, s, cookie, lists, Rest(r))
      PROVE  Advance
  BY <1>2, <1>5, RenderAdvances
<1>7. CASE HandleProjects(r) \/ HandleCreateProject(r) \/ HandleList(r) \/ HandleUpdate(r)
  BY <1>5, <1>7 DEF HandleProjects, HandleCreateProject, HandleList, HandleUpdate, Stay
<1>8. CASE HandleDeleteProject(r) \/ HandleDelete(r)
  <2> DEFINE q == [r EXCEPT !.at = "polling"]
  <2>1. \E a, s : Render(user, a, loaded, s, cookie, shown, Rest(r) \cup {q})
    BY <1>8 DEF HandleDeleteProject, HandleDelete, Stay
  <2>2. /\ q.do = r.do /\ q.k = r.k /\ q.of = r.of /\ q.user = r.user
        /\ q.project = r.project /\ q.op = r.op /\ q.polls = r.polls
        /\ q.ends = r.ends /\ q.at = "polling" /\ r.polls \in Nat
    BY <1>1 DEF Request
  <2> HIDE DEF q
  <2>3. q # r
    BY <1>1, <2>2
  <2>4. ~ r.ends
    BY <1>1, <1>8 DEF Sound, Loads, HandleDeleteProject, HandleDelete
  <2>5. Deletion(q) => Deletion(r) /\ Rank(r) < Rank(q)
    BY <1>1, <2>2, <2>4 DEF Deletion, Rank, Stage
  <2>6. q.do = "delete" => q.polls < MaxPolls
    BY <2>2 DEF Counted
  <2> QED
    BY <2>1, <2>2, <2>3, <2>5, <2>6, TurnAdvances
<1>9. CASE HandleCreate(r)
  <2> DEFINE again(do) == Send(do, r.k, r.user, r.project, Nil, cookie)
  <2>1. Further(again("list")) /\ Further(again("quiet"))
    BY SendIsFurther
  <2> HIDE DEF again
  <2>2. \E s, lists, new :
          /\ Render(user, active, loaded, s, cookie, lists, Rest(r) \cup new)
          /\ new = {} \/ new = {again("list")} \/ new = {again("quiet")}
    BY <1>9, Zenon DEF HandleCreate, Stay, again
  <2> QED
    BY <1>4, <2>1, <2>2
<1>10. CASE HandleFailure(r)
  BY <1>5, <1>10 DEF HandleFailure, Fail, Stay
<1> QED
  BY <1>3, <1>7, <1>8, <1>9, <1>10 DEF Handle

LEMMA PollAdvances ==
  ASSUME IInv, Counted, NEW r \in requests, Poll(r)
  PROVE  Advance
<1>1. /\ r.at = "polling" /\ r \in Request /\ ~ r.ends
      /\ r.polls \in Nat /\ MaxPolls \in Nat
      /\ r.do = "delete" => r.polls < MaxPolls
  BY ConsoleAssumption
  DEF Poll, IInv, TypeOK, RequestsAreSound, Sound, Loads, Request, Counted
<1>3. CASE PollFails(r) \/ PollLost(r)
  BY <1>1, <1>3, RenderAdvances DEF PollFails, PollLost, Fail, Stay, Rest
<1>4. CASE PollAgain(r)
  <2> DEFINE q == [r EXCEPT !.polls = @ + 1]
  <2>1. /\ q.do = r.do /\ q.k = r.k /\ q.op = r.op /\ q.at = "polling"
        /\ q.polls = r.polls + 1 /\ q.ends = r.ends
        /\ q.of = r.of /\ q.user = r.user /\ q.project = r.project
    BY <1>1 DEF Request
  <2>2. /\ Render(user, active, loaded, section, cookie, shown, Rest(r) \cup {q})
        /\ r.polls + 1 < MaxPolls
    BY <1>4 DEF PollAgain, Stay
  <2> HIDE DEF q
  <2>3. Deletion(q) => Deletion(r) /\ Rank(r) < Rank(q)
    BY <1>1, <2>1 DEF Deletion, Rank, Stage
  <2>4. q # r
    BY <1>1, <2>1
  <2> QED
    BY <2>1, <2>2, <2>3, <2>4, TurnAdvances
<1>5. CASE PollDone(r)
  <2> DEFINE z == Send(IF r.k \in Polled THEN "list" ELSE "quiet",
                       r.k, r.user, r.project, r.of, cookie)
             q == [z EXCEPT !.op = "done", !.ends = TRUE]
  <2>1. /\ q.do # "delete" /\ q.k = r.k /\ q.at = "sent"
        /\ q.of = r.of /\ q.user = r.user /\ q.project = r.project
    BY DEF Send
  <2>2. \E s : Render(user, active, loaded, s, cookie, shown, Rest(r) \cup {q})
    BY <1>5 DEF PollDone
  <2> HIDE DEF q
  <2>3. r.do = "delete" /\ Deletion(r)
    BY <1>5 DEF PollDone, Routed, Deletion
  <2>4. Rank(r) < Rank(q)
    BY <1>1, <2>1, <2>3 DEF Rank, Stage
  <2>5. q # r
    BY <2>1, <2>3
  <2> QED
    BY <2>1, <2>2, <2>3, <2>4, <2>5, TurnAdvances
<1> QED
  BY <1>3, <1>4, <1>5 DEF Poll

LEMMA ServeAdvances ==
  ASSUME IInv, Counted, NEW r \in requests, Serve(r)
  PROVE  Advance
<1>1. /\ r \in Request /\ r.at = "sent" /\ MaxPolls \in Nat /\ Sound(r)
      /\ r.do = "delete" => r.polls < MaxPolls
  BY ConsoleAssumption DEF Serve, IInv, TypeOK, RequestsAreSound, Counted
<1>2. ASSUME NEW good, NEW items, NEW list, NEW op, Answer(r, good, items, list, op)
      PROVE  Advance
  <2> DEFINE q == [r EXCEPT !.at = "answered", !.ok = good, !.items = items,
                            !.projects = list, !.op = op]
  <2>1. /\ q.do = r.do /\ q.k = r.k /\ q.polls = r.polls /\ q.at = "answered"
        /\ q.ends = r.ends /\ q.of = r.of /\ q.user = r.user /\ q.project = r.project
    BY <1>1 DEF Request
  <2>2. requests' = (requests \ {r}) \cup {q}
    BY <1>2 DEF Answer
  <2> HIDE DEF q
  <2>3. Deletion(q) => Deletion(r) /\ Rank(r) < Rank(q)
    BY <1>1, <2>1 DEF Deletion, Rank, Stage
  <2>4. r \notin requests'
    BY <1>1, <2>1, <2>2
  <2>5. Further(q)
    BY <1>1, <2>1, <2>3, <2>4 DEF Further
  <2> QED
    BY <2>2, <2>5, FurtherStep
<1>3. CASE BeginDeleteProject(r)
  <2> DEFINE q == [r EXCEPT !.op = "pending"]
  <2>1. q.do = r.do /\ q.ends = r.ends /\ q.do = "deleteProject"
    BY <1>1, <1>3 DEF Request, BeginDeleteProject
  <2>2. requests' = (requests \ {r}) \cup {q}
    BY <1>3 DEF BeginDeleteProject
  <2> HIDE DEF q
  <2>3. Further(q)
    BY <1>1, <2>1 DEF Sound, Loads, Further, Deletion
  <2> QED
    BY <2>2, <2>3, FurtherStep
<1>4. CASE ~ BeginDeleteProject(r)
  <2>1. \E good, items, list, op : Answer(r, good, items, list, op)
    BY <1>4, Zenon
    DEF Serve, ServeMe, ServeLogin, ServeLogout, ServeProjects, ServeCreateProject,
        ServeDeleteProject, FailDeleteProject, ServeList, ServePut, ServeDelete,
        ServeRefusal, Refuse, Lose
  <2> QED
    BY <1>2, <2>1
<1> QED
  BY <1>3, <1>4

LEMMA SettleAdvances ==
  ASSUME IInv, Counted, NEW t \in removals, NEW how \in {"done", "error"}, Settle(t, how)
  PROVE  Advance
<1> SUFFICES ASSUME NEW q \in requests' \ requests PROVE Further(q)
  BY FurtherStep
<1> DEFINE F(r) == IF r.do = "delete" /\ r.op = "pending" /\ Thing(r) = t
                   THEN [r EXCEPT !.op = how] ELSE r
<1>0. requests' = {F(r) : r \in requests}
  BY DEF Settle
<1>1. PICK r \in requests :
        /\ r.do = "delete" /\ r.op = "pending" /\ Thing(r) = t
        /\ q = [r EXCEPT !.op = how]
  BY <1>0
<1>2. r \in Request /\ r.polls < MaxPolls /\ r.polls \in Nat /\ Sound(r)
  BY <1>1 DEF IInv, TypeOK, RequestsAreSound, Counted, Request
<1>3. /\ q.do = r.do /\ q.k = r.k /\ q.at = r.at /\ q.polls = r.polls
      /\ q.op = how /\ q.ends = r.ends
      /\ q.of = r.of /\ q.user = r.user /\ q.project = r.project
  BY <1>1, <1>2 DEF Request
<1>4. Stage(q) = Stage(r) /\ Stage(r) \in Nat
  BY <1>1, <1>2, <1>3 DEF Stage
<1>5. Deletion(r) /\ Rank(r) < Rank(q)
  BY <1>1, <1>3, <1>4 DEF Deletion, Rank
<1>6. r \notin requests'
  <2> SUFFICES ASSUME NEW x \in requests, F(x) = r PROVE FALSE
    BY <1>0
  <2>1. x \in Request
    BY DEF IInv, TypeOK
  <2>2. [x EXCEPT !.op = how].op = how
    BY <2>1 DEF Request
  <2> QED
    BY <1>1, <2>2
<1> QED
  BY <1>2, <1>3, <1>5, <1>6 DEF Further

LEMMA UserAdvances ==
  ASSUME IInv, Counted,
         \/ \E p \in Projects : \/ FinishProject(p) \/ SelectProject(p)
                                \/ CreateProject(p) \/ DeleteProject(p)
         \/ \E u \in Users : Login(u)
         \/ \E s \in Sections : Navigate(s)
         \/ \E k \in Kinds : \E n \in NamesOf(k) :
               Create(k, n) \/ Update(k, n) \/ Delete(k, n)
         \/ \E k \in Polled : Tick(k)
         \/ Logout \/ Refresh
  PROVE  Advance
<1>1. ASSUME NEW do, do # "delete", NEW k, NEW u, NEW p, NEW of, NEW c,
             requests' = requests \cup {Send(do, k, u, p, of, c)}
      PROVE  Advance
  BY <1>1, SendIsFurther, FurtherStep
<1>2. CASE \E p \in Projects : FinishProject(p)
  BY <1>2, FurtherStep DEF FinishProject
<1>3. CASE \/ \E p \in Projects : SelectProject(p)
           \/ \E s \in Sections : Navigate(s)
  BY <1>3, RenderAdvances DEF SelectProject, Navigate
<1>4. CASE \/ \E p \in Projects : CreateProject(p) \/ DeleteProject(p)
           \/ \E u \in Users : Login(u)
           \/ Logout
  BY <1>1, <1>4 DEF CreateProject, DeleteProject, Login, Logout, Call
<1>5. CASE \/ \E k \in Kinds : \E n \in NamesOf(k) : Create(k, n) \/ Update(k, n)
           \/ \E k \in Polled : Tick(k)
  BY <1>1, <1>5 DEF Create, Update, Tick, Call
<1>6. ASSUME NEW k \in Kinds, NEW n \in NamesOf(k), Delete(k, n) PROVE Advance
  <2> DEFINE q == Send("delete", k, user, active, n, cookie)
  <2>1. requests' = requests \cup {q}
    BY <1>6 DEF Delete, Call
  <2>2. q.polls = 0
    BY DEF Send
  <2> HIDE DEF q
  <2>3. Counted'
    BY <2>1, <2>2, ConsoleAssumption DEF Counted
  <2> QED
    BY <1>6, <2>3 DEF Advance, Clicked
<1>7. CASE Refresh
  <2>1. requests' = {Send("me", "none", Nil, Nil, Nil, cookie)}
    BY <1>7 DEF Refresh
  <2>2. \A q \in requests' : Further(q)
    BY <2>1, SendIsFurther
  <2> QED
    BY <2>2, FurtherStep
<1> QED
  BY <1>2, <1>3, <1>4, <1>5, <1>6, <1>7

LEMMA StepAdvances ==
  ASSUME IInv, Counted, [Next]_vars
  PROVE  Advance
<1>1. CASE UNCHANGED vars
  BY <1>1, FurtherStep DEF vars
<1>2. CASE \E r \in requests : Serve(r) \/ Handle(r) \/ Poll(r)
  BY <1>2, ServeAdvances, HandleAdvances, PollAdvances
<1>3. CASE \E t \in removals : Settle(t, "done") \/ Settle(t, "error")
  BY <1>3, SettleAdvances
<1> QED
  BY <1>1, <1>2, <1>3, UserAdvances DEF Next

LEMMA AlwaysCounted == Spec => []Counted
<1>1. Init => Counted
  BY DEF Init, Counted, Send
<1>2. IInv /\ Counted /\ [Next]_vars => Counted'
  BY StepAdvances DEF Advance
<1> QED
  BY <1>1, <1>2, Invariance, PTL DEF Spec

(* The part of SpinnerEnds that is safety, for each of the deletions that  *)
(* are on their way, also of one kind at once: unless the user has just    *)
(* clicked, a deletion that appears takes the place of one of the same     *)
(* resource and has come further than that, whatever is answered late,     *)
(* settled or rendered in between, and there are no more than twice        *)
(* MaxPolls and eight steps to make. What SpinnerEnds adds is that they    *)
(* are made.                                                               *)
THEOREM DeletionsAdvance ==
  Spec => /\ [](\A r \in requests : Deletion(r) => Rank(r) \in 0 .. 2 * MaxPolls + 7)
          /\ [][\/ \E k \in Kinds : \E n \in NamesOf(k) : Delete(k, n)
                \/ \A q \in requests' \ requests : Deletion(q) =>
                     \E r \in requests \ requests' :
                       /\ Deletion(r) /\ Rank(r) < Rank(q)
                       /\ q.k = r.k /\ q.of = r.of
                       /\ q.user = r.user /\ q.project = r.project]_vars
<1>1. IInv /\ Counted => \A r \in requests : Deletion(r) => Rank(r) \in 0 .. 2 * MaxPolls + 7
  <2> SUFFICES ASSUME IInv, Counted, NEW r \in requests, Deletion(r)
               PROVE  Rank(r) \in 0 .. 2 * MaxPolls + 7
    OBVIOUS
  <2>1. MaxPolls \in Nat /\ r.polls \in Nat /\ (r.do = "delete" => r.polls < MaxPolls)
    BY ConsoleAssumption DEF IInv, TypeOK, Request, Counted
  <2>2. Stage(r) \in 0 .. MaxPolls + 3
    BY <2>1 DEF Stage
  <2> QED
    BY <2>1, <2>2 DEF Rank
<1>2. IInv /\ Counted /\ [Next]_vars =>
        [\/ \E k \in Kinds : \E n \in NamesOf(k) : Delete(k, n)
         \/ \A q \in requests' \ requests : Deletion(q) =>
              \E r \in requests \ requests' :
                /\ Deletion(r) /\ Rank(r) < Rank(q)
                /\ q.k = r.k /\ q.of = r.of
                /\ q.user = r.user /\ q.project = r.project]_vars
  BY StepAdvances DEF Advance, Clicked, Further
<1> QED
  BY <1>1, <1>2, Invariance, AlwaysCounted, PTL DEF Spec
-----------------------------------------------------------------------------
(* A polled list that shows what its project holds.                        *)

(* The page has p selected, as its owner, and the items of kind k that p    *)
(* holds are those with the names "there".                                 *)
Selected(k, p, there) ==
  /\ Ready /\ user = Owner[p] /\ cookie = user /\ active = p
  /\ rows[p] = "live" /\ Held(k, p) = there

Content(p, there) == {p} \X there

(* The request belongs to the selected project, and is not a load that has  *)
(* been answered with something older.                                     *)
Current(r, p, there) ==
  /\ r.project = p
  /\ r.do \in Loads /\ r.at = "answered" /\ r.ok => r.items = Content(p, there)

Healed(k, p, there) ==
  /\ Selected(k, p, there)
  /\ shown[k].items = Content(p, there)
  /\ \A r \in requests : r.k = k => Current(r, p, there)

LEMMA SentIsCurrent ==
  ASSUME NEW p, NEW there, NEW do, NEW k, NEW u, NEW of, NEW c
  PROVE  Current(Send(do, k, u, p, of, c), p, there)
BY DEF Current, Send

LEMMA PolledFacts ==
  ASSUME NEW k \in Polled
  PROVE  k \in Kinds /\ k \notin Sectioned /\ k # "repository" /\ k # "none"
BY DEF Polled, Sectioned

LEMMA RenderKeepsHealed ==
  ASSUME NEW k \in Polled, NEW p, NEW there, Selected(k, p, there)',
         NEW u, NEW a, NEW l, NEW s, NEW c, NEW lists, NEW rest,
         Render(u, a, l, s, c, lists, rest),
         lists[k].items = Content(p, there),
         \A r \in rest : r.k = k => Current(r, p, there)
  PROVE  Healed(k, p, there)'
<1>1. a = p /\ shown'[k] = lists[k]
  BY PolledFacts DEF Render, Selected
<1>2. \A q \in SelectionEffect(u, a, l, c) \cup SectionEffect(u, a, s, c) :
        \E j : q = Send("list", j, u, a, Nil, c)
  BY DEF SelectionEffect, SectionEffect
<1>3. \A q \in requests' : q.k = k => Current(q, p, there)
  BY <1>1, <1>2, SentIsCurrent DEF Render
<1> QED
  BY <1>1, <1>3 DEF Healed

(* An item that is changed is one of those that p holds.                   *)
LEMMA ReplacedIsContent ==
  ASSUME NEW k \in Kinds, NEW p, NEW there, NEW r, shown \in Lists,
         shown[k].items = Content(p, there), r.k = k => r.project = p
  PROVE  Replaced(r)[k].items = Content(p, there)
<1> DEFINE old == {i \in shown[r.k].items : i[2] = r.of}
<1>1. CASE r.k # k \/ old = {}
  BY <1>1 DEF Replaced, Lists
<1>2. CASE r.k = k /\ old # {}
  <2>1. PICK i \in Content(p, there) : i[2] = r.of
    BY <1>2
  <2>2. <<r.project, r.of>> \in Content(p, there)
    BY <1>2, <2>1 DEF Content
  <2>3. \A e \in old : e = <<r.project, r.of>>
    BY <1>2 DEF Content
  <2>4. Replaced(r)[k].items = (shown[k].items \ old) \cup {<<r.project, r.of>>}
    BY <1>2 DEF Replaced, Lists
  <2> HIDE DEF old
  <2> QED
    BY <2>2, <2>3, <2>4
<1> QED
  BY <1>1, <1>2

LEMMA HandleKeepsHealed ==
  ASSUME IInv, NEW k \in Polled, NEW p \in Projects, NEW there, Healed(k, p, there),
         Selected(k, p, there)', NEW r \in requests, Handle(r)
  PROVE  Healed(k, p, there)'
<1>1. /\ r.at = "answered" /\ r \in Request /\ Sound(r)
      /\ k \in Kinds /\ k \notin Sectioned /\ k # "repository"
      /\ r.k = k => Current(r, p, there)
      /\ shown[k].items = Content(p, there)
      /\ shown \in Lists
  BY PolledFacts DEF Handle, IInv, TypeOK, RequestsAreSound, Healed, Lists
<1>2. \A q \in Rest(r) : q.k = k => Current(q, p, there)
  BY DEF Rest, Healed
<1>3. CASE HandleMe(r) \/ HandleLogin(r) \/ HandleLogout(r)
  <2>1. loaded' = FALSE
    BY <1>3 DEF HandleMe, HandleLogin, HandleLogout, UserEffect, Render
  <2> QED
    BY <2>1 DEF Selected, Ready
<1>4. ASSUME NEW a, NEW l, NEW s, NEW q,
             Render(user, a, l, s, cookie, shown, Rest(r) \cup {q}),
             q.k = k => Current(q, p, there)
      PROVE  Healed(k, p, there)'
  BY <1>1, <1>2, <1>4, RenderKeepsHealed
<1>5. ASSUME NEW a, NEW l, NEW s, NEW lists,
             Render(user, a, l, s, cookie, lists, Rest(r)),
             lists[k].items = Content(p, there)
      PROVE  Healed(k, p, there)'
  BY <1>2, <1>5, RenderKeepsHealed
<1>6. CASE HandleProjects(r) \/ HandleCreateProject(r)
  BY <1>1, <1>5, <1>6 DEF HandleProjects, HandleCreateProject
<1>7. CASE HandleList(r)
  <2> DEFINE lists == IF r.ok THEN Received(r, r.items) ELSE shown
  <2>1. Render(user, active, loaded, section, cookie, lists, Rest(r)) /\ r.do \in Loads
    BY <1>7 DEF HandleList, Stay, Loads
  <2>2. lists[k].items = Content(p, there)
    BY <1>1, <2>1 DEF Received, Current
  <2> HIDE DEF lists
  <2> QED
    BY <1>5, <2>1, <2>2
<1>8. CASE HandleUpdate(r)
  <2> DEFINE lists == Replaced(r)
  <2>1. Render(user, active, loaded, section, cookie, lists, Rest(r))
    BY <1>8 DEF HandleUpdate, Stay
  <2>2. r.k = k => r.project = p
    BY <1>1 DEF Current
  <2>3. lists[k].items = Content(p, there)
    BY <1>1, <2>2, ReplacedIsContent
  <2> HIDE DEF lists
  <2> QED
    BY <1>5, <2>1, <2>3
<1>9. CASE HandleDeleteProject(r) \/ HandleDelete(r)
  <2> DEFINE q == [r EXCEPT !.at = "polling"]
  <2>1. \E a, s : Render(user, a, loaded, s, cookie, shown, Rest(r) \cup {q})
    BY <1>9 DEF HandleDeleteProject, HandleDelete, Stay
  <2>2. q.k = r.k /\ q.project = r.project /\ q.at = "polling"
    BY <1>1 DEF Request
  <2> HIDE DEF q
  <2>3. q.k = k => Current(q, p, there)
    BY <1>1, <2>2 DEF Current
  <2> QED
    BY <1>1, <1>4, <2>1, <2>3
<1>10. CASE HandleCreate(r)
  <2> DEFINE again(do) == Send(do, r.k, r.user, r.project, Nil, cookie)
  <2>1. \A do : again(do).k = r.k /\ again(do).project = r.project /\ again(do).at = "sent"
    BY DEF Send
  <2>2. \A do : again(do).k = k => Current(again(do), p, there)
    BY <1>1, <2>1 DEF Current
  <2> HIDE DEF again
  <2>3. CASE r.k = "repository"
    <3> DEFINE lists == Received(r, {<<r.project, Nil>>})
    <3>1. Render(user, active, loaded, "other", cookie, lists, Rest(r) \cup {})
      BY <1>10, <2>3 DEF HandleCreate, Sectioned
    <3>2. lists[k].items = Content(p, there)
      BY <1>1, <2>3 DEF Received
    <3> HIDE DEF lists
    <3> QED
      BY <1>5, <3>1, <3>2
  <2>4. CASE r.k # "repository"
    <3>1. \E s, do : Render(user, active, loaded, s, cookie, shown, Rest(r) \cup {again(do)})
      BY <1>10, <2>4, Zenon DEF HandleCreate, Stay, again
    <3> QED
      BY <1>4, <2>2, <3>1
  <2> QED
    BY <2>3, <2>4
<1>11. CASE HandleFailure(r)
  BY <1>1, <1>5, <1>11 DEF HandleFailure, Fail, Stay
<1> QED
  BY <1>3, <1>6, <1>7, <1>8, <1>9, <1>10, <1>11 DEF Handle

LEMMA PollKeepsHealed ==
  ASSUME IInv, NEW k \in Polled, NEW p \in Projects, NEW there, Healed(k, p, there),
         Selected(k, p, there)', NEW r \in requests, Poll(r)
  PROVE  Healed(k, p, there)'
<1>1. /\ r.at = "polling" /\ r \in Request
      /\ r.k = k => Current(r, p, there)
      /\ shown[k].items = Content(p, there)
  BY DEF Poll, IInv, TypeOK, Healed
<1>2. ASSUME NEW s, NEW new,
             Render(user, active, loaded, s, cookie, shown, new),
             \A q \in new \ Rest(r) : q.k = k => Current(q, p, there)
      PROVE  Healed(k, p, there)'
  <2>1. \A q \in Rest(r) : q.k = k => Current(q, p, there)
    BY DEF Rest, Healed
  <2> QED
    BY <1>1, <1>2, <2>1, RenderKeepsHealed
<1>3. CASE PollFails(r) \/ PollLost(r)
  <2>1. Render(user, active, loaded, section, cookie, shown, Rest(r))
    BY <1>3 DEF PollFails, PollLost, Fail, Stay
  <2> QED
    BY <1>2, <2>1
<1>4. CASE PollAgain(r)
  <2> DEFINE q == [r EXCEPT !.polls = @ + 1]
  <2>1. q.k = r.k /\ q.project = r.project /\ q.at = "polling"
    BY <1>1 DEF Request
  <2>2. Render(user, active, loaded, section, cookie, shown, Rest(r) \cup {q})
    BY <1>4 DEF PollAgain, Stay
  <2> HIDE DEF q
  <2>3. q.k = k => Current(q, p, there)
    BY <1>1, <2>1 DEF Current
  <2> QED
    BY <1>2, <2>2, <2>3
<1>5. CASE PollDone(r)
  <2> DEFINE z == Send(IF r.k \in Polled THEN "list" ELSE "quiet",
                       r.k, r.user, r.project, r.of, cookie)
             q == [z EXCEPT !.op = "done", !.ends = TRUE]
  <2>1. q.k = r.k /\ q.project = r.project /\ q.at = "sent"
    BY DEF Send
  <2>2. \E s : Render(user, active, loaded, s, cookie, shown, Rest(r) \cup {q})
    BY <1>5 DEF PollDone
  <2> HIDE DEF q
  <2>3. q.k = k => Current(q, p, there)
    BY <1>1, <2>1 DEF Current
  <2> QED
    BY <1>2, <2>2, <2>3
<1> QED
  BY <1>3, <1>4, <1>5 DEF Poll

(* A step of the services, which leaves the page alone.                    *)
LEMMA ServicesKeepHealed ==
  ASSUME NEW k \in Polled, NEW p, NEW there, Healed(k, p, there),
         Selected(k, p, there)', UNCHANGED browser,
         \A q \in requests' \ requests : q.k = k => Current(q, p, there)
  PROVE  Healed(k, p, there)'
BY DEF Healed, browser

LEMMA ServeKeepsHealed ==
  ASSUME IInv, NEW k \in Polled, NEW p \in Projects, NEW there, Healed(k, p, there),
         Selected(k, p, there)', NEW r \in requests, Serve(r)
  PROVE  Healed(k, p, there)'
<1>1. /\ r \in Request /\ r.at = "sent" /\ UNCHANGED browser
      /\ r.k = k => r.project = p
      /\ k # "repository"
  BY PolledFacts DEF Serve, IInv, TypeOK, Healed, Current
<1>2. ASSUME NEW good, NEW items, NEW list, NEW op, Answer(r, good, items, list, op),
             r.k = k /\ r.do \in Loads /\ good => items = Content(p, there)
      PROVE  Healed(k, p, there)'
  <2> DEFINE q == [r EXCEPT !.at = "answered", !.ok = good, !.items = items,
                            !.projects = list, !.op = op]
  <2>1. /\ q.do = r.do /\ q.k = r.k /\ q.project = r.project
        /\ q.ok = good /\ q.items = items
    BY <1>1 DEF Request
  <2>2. requests' = (requests \ {r}) \cup {q}
    BY <1>2 DEF Answer
  <2> HIDE DEF q
  <2>3. q.k = k => Current(q, p, there)
    BY <1>1, <1>2, <2>1 DEF Current
  <2> QED
    BY <1>1, <2>2, <2>3, ServicesKeepHealed
<1>3. CASE ServeList(r)
  <2> DEFINE held == {n \in NamesOf(r.k) :
                         <<r.project, r.k, n>> \in things /\ Owner[r.project] = r.as}
             items == {<<r.project, n>> : n \in held}
  <2>1. Answer(r, TRUE, items, {}, r.op)
    BY <1>3 DEF ServeList
  <2>2. ASSUME r.k = k PROVE items = Content(p, there)
    <3>1. Owner[r.project] = r.as /\ r.project = p /\ NamesOf(r.k) = Names
      BY <1>1, <1>3, <2>2 DEF ServeList, Allowed, NamesOf
    <3>2. held = there
      BY <2>2, <3>1 DEF Healed, Selected, Held
    <3> HIDE DEF held
    <3> QED
      BY <3>1, <3>2 DEF Content
  <2> HIDE DEF items
  <2> QED
    BY <1>2, <2>1, <2>2
<1>4. CASE BeginDeleteProject(r)
  <2> DEFINE q == [r EXCEPT !.op = "pending"]
  <2>1. q.do = "deleteProject" /\ q.k = r.k /\ q.project = r.project
    BY <1>1, <1>4 DEF Request, BeginDeleteProject
  <2>2. requests' = (requests \ {r}) \cup {q}
    BY <1>4 DEF BeginDeleteProject
  <2> HIDE DEF q
  <2>3. q.k = k => Current(q, p, there)
    BY <1>1, <2>1 DEF Current, Loads
  <2> QED
    BY <1>1, <2>2, <2>3, ServicesKeepHealed
<1>5. CASE \/ ServeMe(r) \/ ServeLogin(r) \/ ServeLogout(r) \/ ServeProjects(r)
           \/ ServeCreateProject(r) \/ ServeDeleteProject(r) \/ FailDeleteProject(r)
           \/ ServePut(r) \/ ServeDelete(r) \/ ServeRefusal(r) \/ Lose(r)
  <2>1. \E good, items, list, op :
          /\ Answer(r, good, items, list, op)
          /\ r.do \notin Loads \/ ~ good
    BY <1>5
    DEF ServeMe, ServeLogin, ServeLogout, ServeProjects, ServeCreateProject,
        ServeDeleteProject, FailDeleteProject, ServePut, ServeDelete, ServeRefusal,
        Refuse, Lose, Loads
  <2> QED
    BY <1>2, <2>1
<1> QED
  BY <1>3, <1>4, <1>5 DEF Serve

LEMMA SettleKeepsHealed ==
  ASSUME IInv, NEW k \in Polled, NEW p \in Projects, NEW there, Healed(k, p, there),
         Selected(k, p, there)', NEW t \in removals, NEW how, Settle(t, how)
  PROVE  Healed(k, p, there)'
<1>1. ASSUME NEW q \in requests' \ requests, q.k = k PROVE Current(q, p, there)
  <2>1. PICK r \in requests :
          r.do = "delete" /\ q = [r EXCEPT !.op = how]
    BY <1>1 DEF Settle
  <2>2. q.do = "delete" /\ q.k = r.k /\ q.project = r.project
    BY <2>1 DEF IInv, TypeOK, Request
  <2> QED
    BY <1>1, <2>2 DEF Healed, Current, Loads
<1> QED
  BY <1>1, ServicesKeepHealed DEF Settle

LEMMA UserKeepsHealed ==
  ASSUME NEW k \in Polled, NEW p \in Projects, NEW there, Healed(k, p, there),
         Selected(k, p, there)',
         \/ \E o \in Projects : \/ FinishProject(o) \/ SelectProject(o)
                                \/ CreateProject(o) \/ DeleteProject(o)
         \/ \E u \in Users : Login(u)
         \/ \E s \in Sections : Navigate(s)
         \/ \E j \in Kinds : \E n \in NamesOf(j) :
              Create(j, n) \/ Update(j, n) \/ Delete(j, n)
         \/ \E j \in Polled : Tick(j)
         \/ Logout \/ Refresh
  PROVE  Healed(k, p, there)'
<1>0. active = p /\ k # "none"
  BY PolledFacts DEF Healed, Selected
<1>1. ASSUME NEW do, NEW j, NEW u, NEW of, NEW c, NEW o,
             requests' = requests \cup {Send(do, j, u, o, of, c)}, UNCHANGED shown,
             o = p \/ j = "none"
      PROVE  Healed(k, p, there)'
  <2>1. Send(do, j, u, o, of, c).k = j
    BY DEF Send
  <2> QED
    BY <1>0, <1>1, <2>1, SentIsCurrent DEF Healed
<1>2. CASE \E o \in Projects : FinishProject(o)
  BY <1>2, ServicesKeepHealed DEF FinishProject
<1>3. CASE \/ \E o \in Projects : SelectProject(o)
           \/ \E s \in Sections : Navigate(s)
  BY <1>3, RenderKeepsHealed DEF SelectProject, Navigate, Healed
<1>4. CASE \/ \E o \in Projects : CreateProject(o)
           \/ \E u \in Users : Login(u)
           \/ Logout
  BY <1>1, <1>4 DEF CreateProject, Login, Logout, Call, browser
<1>5. CASE \E o \in Projects : DeleteProject(o)
  BY <1>1, <1>5 DEF DeleteProject, Call
<1>6. CASE \/ \E j \in Kinds : \E n \in NamesOf(j) : Create(j, n) \/ Update(j, n)
           \/ \E j \in Polled : Tick(j)
  BY <1>0, <1>1, <1>6 DEF Create, Update, Tick, Call, browser
<1>7. CASE \E j \in Kinds : \E n \in NamesOf(j) : Delete(j, n)
  BY <1>0, <1>1, <1>7 DEF Delete, Call
<1>8. CASE Refresh
  BY <1>8 DEF Refresh, Selected, Ready
<1> QED
  BY <1>2, <1>3, <1>4, <1>5, <1>6, <1>7, <1>8

LEMMA StepKeepsHealed ==
  ASSUME IInv, [Next]_vars, NEW k \in Polled, NEW p \in Projects, NEW there \in SUBSET Names,
         Healed(k, p, there), Selected(k, p, there)'
  PROVE  Healed(k, p, there)'
<1>1. CASE UNCHANGED vars
  BY <1>1, ServicesKeepHealed DEF vars
<1>2. CASE \E r \in requests : Serve(r) \/ Handle(r) \/ Poll(r)
  BY <1>2, ServeKeepsHealed, HandleKeepsHealed, PollKeepsHealed
<1>3. CASE \E t \in removals : Settle(t, "done") \/ Settle(t, "error")
  BY <1>3, SettleKeepsHealed
<1> QED
  BY <1>1, <1>2, <1>3, UserKeepsHealed DEF Next

(* The part of ListsHeal that is safety: once a polled list shows what the  *)
(* selected project holds, and no load of another project or of an earlier  *)
(* content is on its way, it goes on showing it for as long as the project  *)
(* stays selected and its content the same: no change, deletion, failure,  *)
(* or load that starts by then can put anything else there.                *)
THEOREM HealedListsStay ==
  Spec => [][\A k \in Polled, p \in Projects, there \in SUBSET Names :
               Healed(k, p, there) /\ Selected(k, p, there)' => Healed(k, p, there)']_vars
<1>1. IInv /\ [Next]_vars =>
        [\A k \in Polled, p \in Projects, there \in SUBSET Names :
           Healed(k, p, there) /\ Selected(k, p, there)' => Healed(k, p, there)']_vars
  BY StepKeepsHealed
<1> QED
  BY <1>1, Invariance, PTL DEF Spec
=============================================================================
