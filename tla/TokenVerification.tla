-------------------------- MODULE TokenVerification --------------------------
(***************************************************************************)
(* Signing keys, tokens and their verification.                            *)
(*                                                                         *)
(* Every replica of the identity service reads the table of signing keys   *)
(* once, when it starts, and inserts a key if it has found none. From then *)
(* on it signs with the newest key it knows, and publishes those it knows. *)
(* Every process of the other services verifies tokens with a cache of     *)
(* published keys, which it replaces by what any one replica publishes     *)
(* when the cache is old or lacks the key it needs. Reading the cache,     *)
(* fetching, storing and reading again are separate steps, and checks of   *)
(* one process overlap.                                                    *)
(*                                                                         *)
(* A key is named by the time it was activated, by the clock of the        *)
(* replica that made it. Only tokens the service has issued are verified,  *)
(* and within their lifetime.                                              *)
(***************************************************************************)
EXTENDS Naturals

CONSTANTS
  Keys,       \* bound: the keys there may be, by their times of activation
  Users,      \* the names that may be registered
  Tokens,     \* bound: the sessions there may be, with their tokens
  Signers,    \* the replicas of the identity service
  Verifiers,  \* the processes that verify tokens
  Checks,     \* bound: verifications in flight at a time
  Nil

ASSUME KeysAssumption == Keys \subseteq Nat
ASSUME NilAssumption == Nil \notin Keys \union Tokens \union Verifiers

VARIABLES
  table,    \* the keys in the table of signing keys
  account,  \* the names in the table of users
  session,  \* the sessions in their table
  token,    \* the key that has signed each token
  signer,   \* the replicas of the identity service
  cache,    \* the published keys each process knows
  check     \* verifications in flight

tables == <<table, account, session>>
vars   == <<tables, token, signer, cache, check>>

Down    == [pc |-> "down", known |-> {}]
Empty   == [keys |-> {}, fresh |-> FALSE]
NoCheck == [pc |-> "idle", at |-> Nil, token |-> Nil, fetched |-> {}]

Verdicts == {"accepted", "unknown", "failed"}
Signer   == [pc : {"down", "generate", "up"}, known : SUBSET Keys]
Cache    == [keys : SUBSET Keys, fresh : BOOLEAN]
Check    == [pc : {"idle", "fetch", "store", "look"} \union Verdicts,
             at : Verifiers \union {Nil}, token : Tokens \union {Nil},
             fetched : SUBSET Keys]

TypeOK ==
  /\ table \subseteq Keys
  /\ account \subseteq Users
  /\ session \subseteq Tokens
  /\ token \in [Tokens -> Keys \union {Nil}]
  /\ signer \in [Signers -> Signer]
  /\ cache \in [Verifiers -> Cache]
  /\ check \in [Checks -> Check]

(* A new installation: no key, and no process has started.                 *)
Init ==
  /\ table = {} /\ account = {} /\ session = {}
  /\ token = [t \in Tokens |-> Nil]
  /\ signer = [p \in Signers |-> Down]
  /\ cache = [v \in Verifiers |-> Empty]
  /\ check = [c \in Checks |-> NoCheck]

-----------------------------------------------------------------------------
(* A replica of the identity service starts. It gives up when a query      *)
(* fails, and is started again: a failed load changes nothing.             *)

\* Mutant: a key is made at every start.
StartRotating(p) ==
  /\ signer[p].pc = "down"
  /\ signer' = [signer EXCEPT ![p] = [pc |-> "generate", known |-> {}]]
  /\ UNCHANGED <<tables, token, cache, check>>

Start(p) ==
  /\ signer[p].pc = "down"
  /\ \/ /\ table = {}
        /\ signer' = [signer EXCEPT ![p] = [pc |-> "generate", known |-> {}]]
     \/ /\ table # {}
        /\ signer' = [signer EXCEPT ![p] = [pc |-> "up", known |-> table]]
  /\ UNCHANGED <<tables, token, cache, check>>

\* Mutant: the key is used although it could not be stored.
GenerateRegardless(p) ==
  /\ signer[p].pc = "generate"
  /\ \E k \in Keys \ table :
       /\ signer' = [signer EXCEPT ![p] = [pc |-> "up", known |-> {k}]]
       /\ \/ table' = table \union {k}
          \/ UNCHANGED table
  /\ UNCHANGED <<account, session, token, cache, check>>

(* The replica knows the key it has made, and no other that may have been  *)
(* inserted since it looked. A lost answer may hide that the key is there. *)
Generate(p) ==
  /\ signer[p].pc = "generate"
  /\ \E k \in Keys \ table :
       \/ /\ table' = table \union {k}
          /\ signer' = [signer EXCEPT ![p] = [pc |-> "up", known |-> {k}]]
       \/ /\ table' \in {table, table \union {k}}
          /\ signer' = [signer EXCEPT ![p] = Down]
  /\ UNCHANGED <<account, session, token, cache, check>>

(* It is stopped, in a crash or for an update.                             *)
Stop(p) ==
  /\ signer[p].pc # "down"
  /\ signer' = [signer EXCEPT ![p] = Down]
  /\ UNCHANGED <<tables, token, cache, check>>

-----------------------------------------------------------------------------
(* Accounts, sessions and tokens.                                          *)

Newest(K) == {k \in K : \A l \in K : l <= k}

(* A session is committed before its token is signed, and the client may   *)
(* get neither.                                                            *)
Enter(p, t) ==
  /\ signer[p].pc = "up"
  /\ t \notin session /\ token[t] = Nil
  /\ session' = session \union {t}
  /\ \/ \E k \in Newest(signer[p].known) :
          token' = [token EXCEPT ![t] = k]
     \/ UNCHANGED token
  /\ UNCHANGED <<table, signer, cache, check>>

(* The account and its first session are one transaction.                  *)
Register(p, u, t) ==
  u \notin account /\ Enter(p, t) /\ account' = account \union {u}

Login(p, u, t) ==
  u \in account /\ Enter(p, t) /\ UNCHANGED account

Logout(t) ==
  /\ token[t] # Nil /\ t \in session
  /\ session' = session \ {t}
  /\ UNCHANGED <<table, account, token, signer, cache, check>>

-----------------------------------------------------------------------------
(* A verification.                                                         *)

Conclude(c, verdict) == check' = [check EXCEPT ![c] = [NoCheck EXCEPT !.pc = verdict]]

\* Mutant: no refresh for a key that a fresh cache does not hold.
VerifyCached(c, v, t) ==
  /\ check[c] = NoCheck
  /\ token[t] # Nil
  /\ check' = [check EXCEPT ![c] =
       [pc |-> IF ~ cache[v].fresh THEN "fetch"
               ELSE IF token[t] \in cache[v].keys THEN "accepted" ELSE "unknown",
        at |-> v, token |-> t, fetched |-> {}]]
  /\ UNCHANGED <<tables, token, signer, cache>>

(* A key is taken from the cache if it is there and the cache is fresh.    *)
Verify(c, v, t) ==
  /\ check[c] = NoCheck
  /\ token[t] # Nil
  /\ check' = [check EXCEPT ![c] =
       [pc |-> IF token[t] \in cache[v].keys /\ cache[v].fresh THEN "accepted"
               ELSE "fetch",
        at |-> v, token |-> t, fetched |-> {}]]
  /\ UNCHANGED <<tables, token, signer, cache>>

\* Mutant: a replica serves its keys before it has any.
FetchEarly(c) ==
  /\ check[c].pc = "fetch"
  /\ \E p \in Signers :
       /\ signer[p].pc # "down"
       /\ check' = [check EXCEPT ![c].pc = "store", ![c].fetched = signer[p].known]
  /\ UNCHANGED <<tables, token, signer, cache>>

\* Mutant: without a time limit, a check waits for a replica to come up.
FetchWaiting(c) ==
  /\ check[c].pc = "fetch"
  /\ \E p \in Signers :
       /\ signer[p].pc = "up"
       /\ check' = [check EXCEPT ![c].pc = "store", ![c].fetched = signer[p].known]
  /\ UNCHANGED <<tables, token, signer, cache>>

(* Any replica may answer. If none is up or none answers in five seconds,  *)
(* or the answer is an error, the check fails, and the cache stays as it   *)
(* is; a key that was there, in a cache that is old, is not used.          *)
Fetch(c) ==
  /\ check[c].pc = "fetch"
  /\ \/ \E p \in Signers :
          /\ signer[p].pc = "up"
          /\ check' = [check EXCEPT ![c].pc = "store", ![c].fetched = signer[p].known]
     \/ Conclude(c, "failed")
  /\ UNCHANGED <<tables, token, signer, cache>>

(* What was fetched replaces the cache, which may hold a later answer.     *)
Store(c) ==
  /\ check[c].pc = "store"
  /\ cache' = [cache EXCEPT ![check[c].at] =
                 [keys |-> check[c].fetched, fresh |-> TRUE]]
  /\ check' = [check EXCEPT ![c].pc = "look", ![c].fetched = {}]
  /\ UNCHANGED <<tables, token, signer>>

(* The cache is read again: another check may have replaced it meanwhile.  *)
Look(c) ==
  /\ check[c].pc = "look"
  /\ Conclude(c, IF token[check[c].token] \in cache[check[c].at].keys
                 THEN "accepted" ELSE "unknown")
  /\ UNCHANGED <<tables, token, signer, cache>>

End(c) ==
  /\ check[c].pc \in Verdicts
  /\ check' = [check EXCEPT ![c] = NoCheck]
  /\ UNCHANGED <<tables, token, signer, cache>>

(* Five minutes pass.                                                      *)
Age(v) ==
  /\ cache[v].fresh
  /\ cache' = [cache EXCEPT ![v].fresh = FALSE]
  /\ UNCHANGED <<tables, token, signer, check>>

(* A process that verifies tokens is stopped and started again.            *)
Restart(v) ==
  /\ cache' = [cache EXCEPT ![v] = Empty]
  /\ check' = [c \in Checks |-> IF check[c].at = v THEN NoCheck ELSE check[c]]
  /\ UNCHANGED <<tables, token, signer>>

Next ==
  \/ \E p \in Signers :
       \/ Start(p) \/ Generate(p) \/ Stop(p)
       \/ \E u \in Users, t \in Tokens : Register(p, u, t) \/ Login(p, u, t)
  \/ \E t \in Tokens : Logout(t)
  \/ \E c \in Checks :
       \/ \E v \in Verifiers, t \in Tokens : Verify(c, v, t)
       \/ Fetch(c) \/ Store(c) \/ Look(c) \/ End(c)
  \/ \E v \in Verifiers : Age(v) \/ Restart(v)

Spec == Init /\ [][Next]_vars

(* Fairness. A verification runs on: its only wait is for an answer, for   *)
(* five seconds at most. Nobody has to start a replica or send a request.  *)
Fairness == \A c \in Checks : WF_vars(Fetch(c) \/ Store(c) \/ Look(c) \/ End(c))

FairSpec == Spec /\ Fairness

-----------------------------------------------------------------------------
(* Properties.                                                             *)

(* However startups fail, no token is signed with a key that is not in the *)
(* table, where the replicas to come will find it.                         *)
TokensAreListed == \A t \in Tokens : token[t] # Nil => token[t] \in table

(* Unless replicas that started together have each inserted a key, no      *)
(* token is ever refused because its key is not known.                     *)
GenuineIsKnown ==
  (\A k, l \in table : k = l) => \A c \in Checks : check[c].pc # "unknown"

(* There are keys, nobody is making another, and all replicas that are up  *)
(* publish all of them.                                                    *)
Settled ==
  /\ table # {}
  /\ \A p \in Signers : \/ signer[p].pc = "down"
                        \/ signer[p].pc = "up" /\ signer[p].known = table

(* Once the replicas publish all keys they go on doing so, whoever crashes *)
(* and starts.                                                             *)
SettledStays == [][Settled => Settled']_vars

(* Then, when the checks that have fetched something older are over, no    *)
(* token is refused any more because its key is not known.                 *)
SettledHeals == Settled ~> [](\A c \in Checks : check[c].pc # "unknown")

(* Every verification ends.                                                *)
ChecksEnd == \A c \in Checks : check[c].pc # "idle" ~> check[c].pc = "idle"

-----------------------------------------------------------------------------
(* What the repository says, and the code does not do.                     *)

(* "JWKS builds an RFC 7517 JSON Web Key Set from the non-revoked keys":   *)
(* a replica publishes all keys of the table.                              *)
JWKSIsWhole ==
  \A p \in Signers : signer[p].pc = "up" => signer[p].known = table
=============================================================================
