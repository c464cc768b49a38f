----------------------- MODULE TokenVerificationProofs -----------------------
(***************************************************************************)
(* What holds of TokenVerification for any keys, replicas, processes,      *)
(* sessions and verifications.                                             *)
(***************************************************************************)
EXTENDS TokenVerification, TLAPS

(* A replica knows keys of the table only, and one that is up knows some.  *)
SignersKnowKeys ==
  \A p \in Signers : /\ signer[p].known \subseteq table
                     /\ signer[p].pc = "up" => signer[p].known # {}

CachesAreListed == \A v \in Verifiers : cache[v].keys \subseteq table

(* What a verification has before it at each of its steps.                 *)
Prepared(k) ==
  /\ k.fetched \subseteq table
  /\ k.pc \in {"fetch", "store", "look"} =>
       k.at \in Verifiers /\ k.token \in Tokens /\ token[k.token] # Nil
  /\ k.pc = "store" => k.fetched # {}
  /\ k.pc = "look" => cache[k.at].keys # {}

ChecksArePrepared == \A c \in Checks : Prepared(check[c])

IInv ==
  /\ TypeOK
  /\ TokensAreListed
  /\ SignersKnowKeys
  /\ CachesAreListed
  /\ ChecksArePrepared
  /\ GenuineIsKnown

LEMMA BlankTypes ==
  Down \in Signer /\ Empty \in Cache /\ NoCheck \in Check
BY DEF Down, Signer, Empty, Cache, NoCheck, Check

LEMMA InitIInv == Init => IInv
<1> SUFFICES ASSUME Init PROVE IInv
  OBVIOUS
<1>1. TypeOK
  BY BlankTypes DEF Init, TypeOK
<1>2. TokensAreListed /\ SignersKnowKeys /\ CachesAreListed
  BY DEF Init, TokensAreListed, SignersKnowKeys, CachesAreListed, Down, Empty
<1>3. ChecksArePrepared /\ GenuineIsKnown
  BY DEF Init, ChecksArePrepared, Prepared, GenuineIsKnown, NoCheck
<1> QED
  BY <1>1, <1>2, <1>3 DEF IInv

(* A step of a replica changes nothing that a verification looks at, but   *)
(* may add a key to the table.                                             *)
LEMMA SignerStep ==
  ASSUME IInv, NEW p \in Signers, NEW s \in Signer,
         signer' = [signer EXCEPT ![p] = s],
         table' \subseteq Keys, table \subseteq table',
         s.known \subseteq table', s.pc = "up" => s.known # {},
         UNCHANGED <<account, session, token, cache, check>>
  PROVE  IInv'
<1>1. TypeOK'
  BY DEF IInv, TypeOK
<1>2. TokensAreListed'
  BY DEF IInv, TokensAreListed
<1>3. SignersKnowKeys'
  BY DEF IInv, TypeOK, SignersKnowKeys
<1>4. CachesAreListed'
  BY DEF IInv, CachesAreListed
<1>5. ChecksArePrepared'
  BY DEF IInv, ChecksArePrepared, Prepared
<1>6. GenuineIsKnown'
  BY DEF IInv, GenuineIsKnown
<1> QED
  BY <1>1, <1>2, <1>3, <1>4, <1>5, <1>6 DEF IInv

LEMMA StartKeepsIInv ==
  ASSUME IInv, NEW p \in Signers, Start(p)
  PROVE  IInv'
<1> DEFINE s == IF table = {} THEN [pc |-> "generate", known |-> {}]
                ELSE [pc |-> "up", known |-> table]
<1>1. s \in Signer
  BY DEF IInv, TypeOK, Signer
<1>2. signer' = [signer EXCEPT ![p] = s]
  BY DEF Start
<1>3. s.known \subseteq table /\ (s.pc = "up" => s.known # {})
  OBVIOUS
<1> HIDE DEF s
<1> QED
  BY <1>1, <1>2, <1>3, SignerStep DEF IInv, TypeOK, Start, tables

LEMMA GenerateKeepsIInv ==
  ASSUME IInv, NEW p \in Signers, Generate(p)
  PROVE  IInv'
<1>1. PICK k \in Keys \ table :
        \/ /\ table' = table \union {k}
           /\ signer' = [signer EXCEPT ![p] = [pc |-> "up", known |-> {k}]]
        \/ /\ table' \in {table, table \union {k}}
           /\ signer' = [signer EXCEPT ![p] = Down]
  BY DEF Generate
<1>2. UNCHANGED <<account, session, token, cache, check>>
  BY DEF Generate
<1>3. CASE /\ table' = table \union {k}
           /\ signer' = [signer EXCEPT ![p] = [pc |-> "up", known |-> {k}]]
  <2>1. [pc |-> "up", known |-> {k}] \in Signer
    BY DEF Signer
  <2> QED
    BY <1>2, <1>3, <2>1, SignerStep DEF IInv, TypeOK
<1>4. CASE /\ table' \in {table, table \union {k}}
           /\ signer' = [signer EXCEPT ![p] = Down]
  <2>1. Down.known = {} /\ Down.pc = "down"
    BY DEF Down
  <2> QED
    BY <1>2, <1>4, <2>1, BlankTypes, SignerStep DEF IInv, TypeOK
<1> QED
  BY <1>1, <1>3, <1>4

LEMMA StopKeepsIInv ==
  ASSUME IInv, NEW p \in Signers, Stop(p)
  PROVE  IInv'
<1>1. Down.known = {} /\ Down.pc = "down"
  BY DEF Down
<1> QED
  BY <1>1, BlankTypes, SignerStep DEF IInv, TypeOK, Stop, tables

LEMMA EnterKeepsIInv ==
  ASSUME IInv, NEW p \in Signers, NEW t \in Tokens, Enter(p, t),
         account' \subseteq Users
  PROVE  IInv'
<1>1. token' = token \/ \E k \in table : token' = [token EXCEPT ![t] = k]
  BY DEF Enter, Newest, IInv, SignersKnowKeys
<1>2. \A u \in Tokens : \/ token'[u] = token[u]
                        \/ token'[u] \in table
  BY <1>1 DEF IInv, TypeOK
<1>3. \A u \in Tokens : token[u] # Nil => token'[u] # Nil
  BY <1>1, NilAssumption DEF IInv, TypeOK
<1>4. TypeOK'
  BY <1>1 DEF Enter, IInv, TypeOK
<1>5. TokensAreListed'
  BY <1>2 DEF Enter, IInv, TokensAreListed
<1>6. SignersKnowKeys' /\ CachesAreListed' /\ GenuineIsKnown'
  BY DEF Enter, IInv, SignersKnowKeys, CachesAreListed, GenuineIsKnown
<1>7. ChecksArePrepared'
  BY <1>3 DEF Enter, IInv, ChecksArePrepared, Prepared
<1> QED
  BY <1>4, <1>5, <1>6, <1>7 DEF IInv

LEMMA LogoutKeepsIInv ==
  ASSUME IInv, NEW t \in Tokens, Logout(t)
  PROVE  IInv'
BY DEF Logout, IInv, TypeOK, TokensAreListed, SignersKnowKeys, CachesAreListed,
       ChecksArePrepared, Prepared, GenuineIsKnown

(* A step of one verification that leaves the cache alone.                 *)
LEMMA CheckStep ==
  ASSUME IInv, NEW c \in Checks, NEW k \in Check,
         check' = [check EXCEPT ![c] = k],
         Prepared(k),
         k.pc = "unknown" => ~ \A x, y \in table : x = y,
         UNCHANGED <<tables, token, signer, cache>>
  PROVE  IInv'
<1>1. TypeOK' /\ TokensAreListed' /\ SignersKnowKeys' /\ CachesAreListed'
  BY DEF IInv, TypeOK, TokensAreListed, SignersKnowKeys, CachesAreListed, tables
<1>2. ChecksArePrepared'
  BY DEF IInv, TypeOK, ChecksArePrepared, Prepared, tables
<1>3. GenuineIsKnown'
  BY DEF IInv, TypeOK, GenuineIsKnown, tables
<1> QED
  BY <1>1, <1>2, <1>3 DEF IInv

LEMMA Concluding ==
  ASSUME NEW verdict \in Verdicts
  PROVE  LET k == [NoCheck EXCEPT !.pc = verdict]
         IN  k \in Check /\ Prepared(k) /\ k.pc = verdict
BY DEF NoCheck, Check, Prepared, Verdicts

LEMMA VerifyKeepsIInv ==
  ASSUME IInv, NEW c \in Checks, NEW v \in Verifiers, NEW t \in Tokens,
         Verify(c, v, t)
  PROVE  IInv'
<1> DEFINE k == [pc |-> IF token[t] \in cache[v].keys /\ cache[v].fresh
                        THEN "accepted" ELSE "fetch",
                 at |-> v, token |-> t, fetched |-> {}]
<1>1. k \in Check /\ Prepared(k) /\ k.pc # "unknown"
  BY DEF Verify, Check, Verdicts, Prepared
<1>2. check' = [check EXCEPT ![c] = k]
  BY DEF Verify
<1> HIDE DEF k
<1> QED
  BY <1>1, <1>2, CheckStep DEF Verify

LEMMA FetchKeepsIInv ==
  ASSUME IInv, NEW c \in Checks, Fetch(c)
  PROVE  IInv'
<1>1. CASE Conclude(c, "failed")
  BY <1>1, Concluding, CheckStep DEF Conclude, Verdicts, Fetch
<1>2. ASSUME NEW p \in Signers, signer[p].pc = "up",
             check' = [check EXCEPT ![c].pc = "store", ![c].fetched = signer[p].known]
      PROVE  IInv'
  <2> DEFINE k == [check[c] EXCEPT !.pc = "store", !.fetched = signer[p].known]
  <2>1. signer[p].known \subseteq table /\ signer[p].known # {}
    BY <1>2 DEF IInv, SignersKnowKeys
  <2>2. check[c] \in Check /\ Prepared(check[c]) /\ check[c].pc = "fetch"
    BY DEF IInv, TypeOK, ChecksArePrepared, Fetch
  <2>3. signer[p].known \subseteq Keys
    BY <2>1 DEF IInv, TypeOK
  <2>4. k \in Check /\ Prepared(k) /\ k.pc # "unknown"
    BY <2>1, <2>2, <2>3 DEF Check, Prepared
  <2>5. check' = [check EXCEPT ![c] = k]
    BY <1>2 DEF IInv, TypeOK
  <2> HIDE DEF k
  <2> QED
    BY <2>4, <2>5, CheckStep DEF Fetch
<1> QED
  BY <1>1, <1>2 DEF Fetch

LEMMA StoreKeepsIInv ==
  ASSUME IInv, NEW c \in Checks, Store(c)
  PROVE  IInv'
<1> DEFINE v == check[c].at
           K == check[c].fetched
           k == [check[c] EXCEPT !.pc = "look", !.fetched = {}]
<1>1. check[c] \in Check /\ Prepared(check[c]) /\ check[c].pc = "store"
  BY DEF IInv, TypeOK, ChecksArePrepared, Store
<1>2. v \in Verifiers /\ K \subseteq table /\ K \subseteq Keys /\ K # {}
  BY <1>1 DEF Prepared, Check
<1>3. /\ cache' = [cache EXCEPT ![v] = [keys |-> K, fresh |-> TRUE]]
      /\ check' = [check EXCEPT ![c] = k]
      /\ UNCHANGED <<tables, token, signer>>
  BY DEF Store, IInv, TypeOK
<1>4. k \in Check /\ k.pc = "look" /\ k.fetched = {} /\ k.at = v
      /\ k.token \in Tokens /\ token[k.token] # Nil
  BY <1>1 DEF Check, Prepared
<1> HIDE DEF v, K, k
<1>5. cache' \in [Verifiers -> Cache] /\ CachesAreListed'
  BY <1>2, <1>3 DEF IInv, TypeOK, CachesAreListed, Cache, tables
<1>6. \A w \in Verifiers : cache[w].keys # {} => cache'[w].keys # {}
  BY <1>2, <1>3 DEF IInv, TypeOK
<1>7. cache'[v].keys # {}
  BY <1>2, <1>3 DEF IInv, TypeOK
<1>8. TypeOK' /\ TokensAreListed' /\ SignersKnowKeys'
  BY <1>3, <1>4, <1>5 DEF IInv, TypeOK, TokensAreListed, SignersKnowKeys, tables
<1>9. ChecksArePrepared'
  <2> SUFFICES ASSUME NEW d \in Checks PROVE Prepared(check[d])'
    BY DEF ChecksArePrepared
  <2>1. CASE d = c
    BY <1>2, <1>3, <1>4, <1>7, <2>1 DEF IInv, TypeOK, Prepared, tables
  <2>2. CASE d # c
    BY <1>3, <1>6, <2>2 DEF IInv, TypeOK, ChecksArePrepared, Prepared, tables
  <2> QED
    BY <2>1, <2>2
<1>10. GenuineIsKnown'
  BY <1>3, <1>4 DEF IInv, TypeOK, GenuineIsKnown, tables
<1> QED
  BY <1>5, <1>8, <1>9, <1>10 DEF IInv

(* The one place where a token may be found unknown: the cache holds keys  *)
(* of the table, and the token's key is one of them, so that there are two *)
(* keys in the table if it is not among those of the cache.                *)
LEMMA LookKeepsIInv ==
  ASSUME IInv, NEW c \in Checks, Look(c)
  PROVE  IInv'
<1> DEFINE key == token[check[c].token]
           held == cache[check[c].at].keys
           verdict == IF key \in held THEN "accepted" ELSE "unknown"
<1>1. Prepared(check[c]) /\ check[c].pc = "look"
  BY DEF IInv, ChecksArePrepared, Look
<1>2. key \in table /\ held \subseteq table /\ held # {}
  BY <1>1 DEF IInv, Prepared, TokensAreListed, CachesAreListed
<1>3. verdict = "unknown" => ~ \A x, y \in table : x = y
  BY <1>2
<1>4. Conclude(c, verdict) /\ UNCHANGED <<tables, token, signer, cache>>
  BY DEF Look
<1>5. verdict \in Verdicts
  BY DEF Verdicts
<1> HIDE DEF verdict, key, held
<1> QED
  BY <1>3, <1>4, <1>5, Concluding, CheckStep DEF Conclude

LEMMA EndKeepsIInv ==
  ASSUME IInv, NEW c \in Checks, End(c)
  PROVE  IInv'
<1>1. Prepared(NoCheck) /\ NoCheck.pc # "unknown"
  BY DEF Prepared, NoCheck
<1> QED
  BY <1>1, BlankTypes, CheckStep DEF End

LEMMA AgeKeepsIInv ==
  ASSUME IInv, NEW v \in Verifiers, Age(v)
  PROVE  IInv'
<1>1. /\ cache' \in [Verifiers -> Cache]
      /\ \A w \in Verifiers : cache'[w].keys = cache[w].keys
  BY DEF Age, IInv, TypeOK, Cache
<1>2. UNCHANGED <<table, account, session, token, signer, check>>
  BY DEF Age, tables
<1>3. TypeOK'
  BY <1>1, <1>2 DEF IInv, TypeOK
<1>4. TokensAreListed' /\ SignersKnowKeys' /\ CachesAreListed' /\ GenuineIsKnown'
  BY <1>1, <1>2 DEF IInv, TokensAreListed, SignersKnowKeys, CachesAreListed, GenuineIsKnown
<1>5. ChecksArePrepared'
  BY <1>1, <1>2 DEF IInv, ChecksArePrepared, Prepared
<1> QED
  BY <1>3, <1>4, <1>5 DEF IInv

LEMMA RestartKeepsIInv ==
  ASSUME IInv, NEW v \in Verifiers, Restart(v)
  PROVE  IInv'
<1>1. \A c \in Checks : check'[c] = NoCheck \/ (check'[c] = check[c] /\ check[c].at # v)
  BY DEF Restart
<1>2. check' \in [Checks -> Check] /\ cache' \in [Verifiers -> Cache]
  BY BlankTypes DEF Restart, IInv, TypeOK
<1>3. /\ cache'[v].keys = {}
      /\ \A w \in Verifiers \ {v} : cache'[w] = cache[w]
  BY DEF Restart, Empty, IInv, TypeOK
<1>4. UNCHANGED <<table, account, session, token, signer>>
  BY DEF Restart, tables
<1>5. TypeOK'
  BY <1>2, <1>4 DEF IInv, TypeOK
<1>6. TokensAreListed' /\ SignersKnowKeys' /\ CachesAreListed'
  BY <1>3, <1>4 DEF IInv, TokensAreListed, SignersKnowKeys, CachesAreListed
<1>7. ChecksArePrepared'
  BY <1>1, <1>3, <1>4 DEF IInv, ChecksArePrepared, Prepared, NoCheck
<1>8. GenuineIsKnown'
  BY <1>1, <1>4 DEF IInv, GenuineIsKnown, NoCheck
<1> QED
  BY <1>5, <1>6, <1>7, <1>8 DEF IInv

LEMMA NextKeepsIInv == IInv /\ [Next]_vars => IInv'
<1> SUFFICES ASSUME IInv, [Next]_vars PROVE IInv'
  OBVIOUS
<1>1. ASSUME NEW p \in Signers, Start(p) \/ Generate(p) \/ Stop(p) PROVE IInv'
  BY <1>1, StartKeepsIInv, GenerateKeepsIInv, StopKeepsIInv
<1>2. ASSUME NEW p \in Signers, NEW u \in Users, NEW t \in Tokens,
             Register(p, u, t) \/ Login(p, u, t)
      PROVE  IInv'
  <2>1. Enter(p, t) /\ account' \subseteq Users
    BY <1>2 DEF Register, Login, IInv, TypeOK
  <2> QED
    BY <2>1, EnterKeepsIInv
<1>3. ASSUME NEW t \in Tokens, Logout(t) PROVE IInv'
  BY <1>3, LogoutKeepsIInv
<1>4. ASSUME NEW c \in Checks, NEW v \in Verifiers, NEW t \in Tokens, Verify(c, v, t)
      PROVE  IInv'
  BY <1>4, VerifyKeepsIInv
<1>5. ASSUME NEW c \in Checks, Fetch(c) \/ Store(c) \/ Look(c) \/ End(c) PROVE IInv'
  BY <1>5, FetchKeepsIInv, StoreKeepsIInv, LookKeepsIInv, EndKeepsIInv
<1>6. ASSUME NEW v \in Verifiers, Age(v) \/ Restart(v) PROVE IInv'
  BY <1>6, AgeKeepsIInv, RestartKeepsIInv
<1>7. CASE UNCHANGED vars
  BY <1>7 DEF IInv, TypeOK, TokensAreListed, SignersKnowKeys, CachesAreListed,
              ChecksArePrepared, Prepared, GenuineIsKnown, vars, tables
<1> QED
  BY <1>1, <1>2, <1>3, <1>4, <1>5, <1>6, <1>7 DEF Next

(* The invariant holds throughout: replicas, caches and verifications deal *)
(* in keys of the table only.                                              *)
THEOREM InductiveInvariant == Spec => []IInv
BY InitIInv, NextKeepsIInv, PTL DEF Spec

(* Every reachable state is well typed.                                    *)
THEOREM TypeCorrect == Spec => []TypeOK
<1>1. IInv => TypeOK
  BY DEF IInv
<1> QED
  BY <1>1, InductiveInvariant, PTL

(* No startup, however it fails or races, leads to a token whose key is    *)
(* not in the table (EnsureActive stores a key before it uses it).         *)
THEOREM KeysAreKept == Spec => []TokensAreListed
<1>1. IInv => TokensAreListed
  BY DEF IInv
<1> QED
  BY <1>1, InductiveInvariant, PTL

(* As long as there is one key, no verification refuses a token of the     *)
(* service as signed by an unknown key, whatever is cached and however     *)
(* refreshes overlap.                                                      *)
THEOREM OneKeyIsKnown == Spec => []GenuineIsKnown
<1>1. IInv => GenuineIsKnown
  BY DEF IInv
<1> QED
  BY <1>1, InductiveInvariant, PTL

LEMMA SettledStep ==
  ASSUME IInv, [Next]_vars, Settled
  PROVE  Settled' /\ table' = table
<1>1. ASSUME NEW p \in Signers, Start(p) PROVE Settled' /\ table' = table
  BY <1>1 DEF Start, Settled, IInv, TypeOK, tables
<1>2. ASSUME NEW p \in Signers, Generate(p) PROVE Settled' /\ table' = table
  BY <1>2 DEF Generate, Settled
<1>3. ASSUME NEW p \in Signers, Stop(p) PROVE Settled' /\ table' = table
  BY <1>3 DEF Stop, Settled, Down, IInv, TypeOK, tables
<1>4. ASSUME UNCHANGED <<table, signer>> PROVE Settled' /\ table' = table
  BY <1>4 DEF Settled
<1>5. CASE UNCHANGED vars
  BY <1>4, <1>5 DEF vars, tables
<1>6. CASE \E p \in Signers, u \in Users, t \in Tokens : Register(p, u, t) \/ Login(p, u, t)
  BY <1>4, <1>6 DEF Register, Login, Enter
<1>7. CASE \E t \in Tokens : Logout(t)
  BY <1>4, <1>7 DEF Logout
<1>8. CASE \E c \in Checks : \/ \E v \in Verifiers, t \in Tokens : Verify(c, v, t)
                             \/ Fetch(c) \/ Store(c) \/ Look(c) \/ End(c)
  BY <1>4, <1>8 DEF Verify, Fetch, Store, Look, End, tables
<1>9. CASE \E v \in Verifiers : Age(v) \/ Restart(v)
  BY <1>4, <1>9 DEF Age, Restart, tables
<1> QED
  BY <1>1, <1>2, <1>3, <1>5, <1>6, <1>7, <1>8, <1>9 DEF Next

(* Replicas that publish the whole table go on doing so: only a replica    *)
(* that started on an empty table makes a key.                             *)
THEOREM SettledIsStable == Spec => SettledStays
<1>1. IInv /\ [Next]_vars => [Settled => Settled']_vars
  BY SettledStep
<1> QED
  BY <1>1, InductiveInvariant, PTL DEF Spec, SettledStays
-----------------------------------------------------------------------------
(* How the verifications recover, once all replicas publish the table.     *)

(* No verification of the process holds an older answer, or is about to    *)
(* read what an older answer has left in the cache.                        *)
Recovered(v) ==
  /\ Settled
  /\ \A c \in Checks :
       check[c].at = v => /\ check[c].pc = "store" => check[c].fetched = table
                          /\ check[c].pc = "look" => cache[v].keys = table

(* A verification of the process refuses its token: the key is not known.  *)
Refuses(c, v) ==
  check[c].at = v /\ check[c].pc = "look" /\ check'[c].pc = "unknown"

(* A step of one verification that leaves the cache alone.                 *)
LEMMA RecoveredCheck ==
  ASSUME IInv, NEW v \in Verifiers, Recovered(v), Settled', table' = table,
         NEW c \in Checks, NEW k \in Check,
         check' = [check EXCEPT ![c] = k], UNCHANGED cache,
         k.at = v /\ k.pc = "store" => k.fetched = table,
         k.pc # "look",
         check[c].at = v /\ check[c].pc = "look" => k.pc # "unknown"
  PROVE  Recovered(v)' /\ \A d \in Checks : ~ Refuses(d, v)
<1>1. check'[c] = k /\ \A d \in Checks \ {c} : check'[d] = check[d]
  BY DEF IInv, TypeOK
<1> QED
  BY <1>1 DEF Recovered, Refuses

LEMMA RecoveredStep ==
  ASSUME IInv, [Next]_vars, NEW v \in Verifiers, Recovered(v)
  PROVE  Recovered(v)' /\ \A c \in Checks : ~ Refuses(c, v)
<1>0. Settled' /\ table' = table
  BY SettledStep DEF Recovered
<1>1. ASSUME UNCHANGED <<check, cache>>
      PROVE  Recovered(v)' /\ \A c \in Checks : ~ Refuses(c, v)
  BY <1>0, <1>1 DEF Recovered, Refuses
<1>2. ASSUME NEW p \in Signers, Start(p) \/ Generate(p) \/ Stop(p)
      PROVE  UNCHANGED <<check, cache>>
  BY <1>2 DEF Start, Generate, Stop
<1>3. ASSUME NEW p \in Signers, NEW u \in Users, NEW t \in Tokens,
             Register(p, u, t) \/ Login(p, u, t)
      PROVE  UNCHANGED <<check, cache>>
  BY <1>3 DEF Register, Login, Enter
<1>4. ASSUME NEW c \in Checks, NEW w \in Verifiers, NEW t \in Tokens, Verify(c, w, t)
      PROVE  Recovered(v)' /\ \A d \in Checks : ~ Refuses(d, v)
  <2> DEFINE k == [pc |-> IF token[t] \in cache[w].keys /\ cache[w].fresh
                          THEN "accepted" ELSE "fetch",
                   at |-> w, token |-> t, fetched |-> {}]
  <2>1. k \in Check /\ k.pc \in {"accepted", "fetch"}
    BY <1>4 DEF Check, Verdicts
  <2>2. check' = [check EXCEPT ![c] = k] /\ UNCHANGED cache
    BY <1>4 DEF Verify
  <2> HIDE DEF k
  <2> QED
    BY <1>0, <2>1, <2>2, RecoveredCheck
<1>5. ASSUME NEW c \in Checks, Fetch(c)
      PROVE  Recovered(v)' /\ \A d \in Checks : ~ Refuses(d, v)
  <2>1. CASE Conclude(c, "failed")
    BY <1>0, <1>5, <2>1, Concluding, RecoveredCheck DEF Conclude, Verdicts, Fetch
  <2>2. ASSUME NEW p \in Signers, signer[p].pc = "up",
               check' = [check EXCEPT ![c].pc = "store", ![c].fetched = signer[p].known]
        PROVE  Recovered(v)' /\ \A d \in Checks : ~ Refuses(d, v)
    <3> DEFINE k == [check[c] EXCEPT !.pc = "store", !.fetched = table]
    <3>1. signer[p].known = table
      BY <2>2 DEF Recovered, Settled
    <3>2. check[c] \in Check /\ table \subseteq Keys
      BY DEF IInv, TypeOK
    <3>3. k \in Check /\ k.pc = "store" /\ k.fetched = table
      BY <3>2 DEF Check
    <3>4. check' = [check EXCEPT ![c] = k]
      BY <2>2, <3>1 DEF IInv, TypeOK
    <3> HIDE DEF k
    <3> QED
      BY <1>0, <1>5, <3>3, <3>4, RecoveredCheck DEF Fetch
  <2> QED
    BY <1>5, <2>1, <2>2 DEF Fetch
<1>6. ASSUME NEW c \in Checks, Store(c)
      PROVE  Recovered(v)' /\ \A d \in Checks : ~ Refuses(d, v)
  <2> DEFINE w == check[c].at
  <2>1. w \in Verifiers /\ check[c] \in Check /\ check[c].pc = "store"
    BY <1>6 DEF Store, IInv, TypeOK, ChecksArePrepared, Prepared
  <2>2. /\ check'[c].pc = "look" /\ check'[c].at = w
        /\ \A d \in Checks \ {c} : check'[d] = check[d]
    BY <1>6, <2>1 DEF Store, IInv, TypeOK, Check
  <2>3. /\ cache'[w].keys = check[c].fetched
        /\ w # v => cache'[v] = cache[v]
    BY <1>6, <2>1 DEF Store, IInv, TypeOK
  <2>4. CASE w = v
    <3>1. cache'[v].keys = table
      BY <2>1, <2>3, <2>4 DEF Recovered
    <3> QED
      BY <1>0, <2>2, <3>1 DEF Recovered, Refuses
  <2>5. CASE w # v
    BY <1>0, <2>2, <2>3, <2>5 DEF Recovered, Refuses
  <2> QED
    BY <2>4, <2>5
<1>7. ASSUME NEW c \in Checks, Look(c)
      PROVE  Recovered(v)' /\ \A d \in Checks : ~ Refuses(d, v)
  <2> DEFINE verdict == IF token[check[c].token] \in cache[check[c].at].keys
                        THEN "accepted" ELSE "unknown"
  <2>1. token[check[c].token] \in table /\ check[c].pc = "look"
    BY <1>7 DEF Look, IInv, ChecksArePrepared, Prepared, TokensAreListed
  <2>2. check[c].at = v => verdict = "accepted"
    BY <2>1 DEF Recovered
  <2>3. verdict \in Verdicts
    BY DEF Verdicts
  <2>4. check' = [check EXCEPT ![c] = [NoCheck EXCEPT !.pc = verdict]] /\ UNCHANGED cache
    BY <1>7 DEF Look, Conclude
  <2> HIDE DEF verdict
  <2> QED
    BY <1>0, <2>2, <2>3, <2>4, Concluding, RecoveredCheck DEF Verdicts
<1>8. ASSUME NEW c \in Checks, End(c)
      PROVE  Recovered(v)' /\ \A d \in Checks : ~ Refuses(d, v)
  <2>1. NoCheck \in Check /\ NoCheck.pc = "idle"
    BY BlankTypes DEF NoCheck
  <2> QED
    BY <1>0, <1>8, <2>1, RecoveredCheck DEF End
<1>9. ASSUME NEW w \in Verifiers, Age(w)
      PROVE  Recovered(v)' /\ \A d \in Checks : ~ Refuses(d, v)
  <2>1. cache'[v].keys = cache[v].keys /\ UNCHANGED check
    BY <1>9 DEF Age, IInv, TypeOK, Cache
  <2> QED
    BY <1>0, <2>1 DEF Recovered, Refuses
<1>10. ASSUME NEW w \in Verifiers, Restart(w)
       PROVE  Recovered(v)' /\ \A d \in Checks : ~ Refuses(d, v)
  <2>1. \A d \in Checks : check'[d] = IF check[d].at = w THEN NoCheck ELSE check[d]
    BY <1>10 DEF Restart
  <2>2. NoCheck.pc = "idle" /\ NoCheck.at = Nil /\ Nil # v
    BY NilAssumption DEF NoCheck
  <2>3. w # v => cache'[v] = cache[v]
    BY <1>10 DEF Restart, IInv, TypeOK
  <2> QED
    BY <1>0, <2>1, <2>2, <2>3 DEF Recovered, Refuses
<1> QED
  BY <1>1, <1>2, <1>3, <1>4, <1>5, <1>6, <1>7, <1>8, <1>9, <1>10
  DEF Next, Logout, vars

(* A process has recovered when all replicas publish the table and its own *)
(* verifications hold nothing older. It stays so, whatever starts, stops,  *)
(* ages or overlaps, and from then on refuses no token of the service.     *)
THEOREM RecoveryLasts ==
  Spec => [][\A v \in Verifiers :
               Recovered(v) => Recovered(v)' /\ \A c \in Checks : ~ Refuses(c, v)]_vars
<1>1. IInv /\ [Next]_vars =>
        [\A v \in Verifiers :
           Recovered(v) => Recovered(v)' /\ \A c \in Checks : ~ Refuses(c, v)]_vars
  BY RecoveredStep
<1> QED
  BY <1>1, InductiveInvariant, PTL DEF Spec

NoneUnknown == \A c \in Checks : check[c].pc # "unknown"

Healed == NoneUnknown /\ \A v \in Verifiers : Recovered(v)

(* A verdict of "unknown" has been reached by Look.                        *)
LEMMA UnknownByLook ==
  ASSUME IInv, [Next]_vars, NEW c \in Checks,
         check[c].pc # "unknown", check'[c].pc = "unknown"
  PROVE  \E v \in Verifiers : Refuses(c, v)
<1> USE DEF IInv, TypeOK
<1>1. ASSUME NEW d \in Checks, Look(d) PROVE \E v \in Verifiers : Refuses(c, v)
  <2>1. d = c
    BY <1>1 DEF Look, Conclude
  <2> QED
    BY <1>1, <2>1 DEF Look, Refuses, ChecksArePrepared, Prepared
<1>2. ASSUME NEW d \in Checks,
             \/ \E v \in Verifiers, t \in Tokens : Verify(d, v, t)
             \/ Fetch(d) \/ Store(d) \/ End(d)
      PROVE  FALSE
  BY <1>2 DEF Verify, Fetch, Conclude, Store, End, NoCheck, Check
<1>3. ASSUME NEW v \in Verifiers, Age(v) \/ Restart(v) PROVE FALSE
  BY <1>3 DEF Age, Restart, NoCheck
<1>4. ASSUME NEW p \in Signers,
             \/ Start(p) \/ Generate(p) \/ Stop(p)
             \/ \E u \in Users, t \in Tokens : Register(p, u, t) \/ Login(p, u, t)
      PROVE  FALSE
  BY <1>4 DEF Start, Generate, Stop, Register, Login, Enter
<1> QED
  BY <1>1, <1>2, <1>3, <1>4 DEF Next, Logout, vars

(* The part of SettledHeals that is safety: when every process has         *)
(* recovered, no token is refused ever again. The part that is not, that   *)
(* the verifications which hold older answers end, is ChecksEnd.           *)
THEOREM HealedForGood == Spec => [](Healed => []NoneUnknown)
<1>1. IInv /\ Healed /\ [Next]_vars => Healed'
  <2> SUFFICES ASSUME IInv, Healed, [Next]_vars PROVE Healed'
    OBVIOUS
  <2>1. \A v \in Verifiers : Recovered(v)' /\ \A c \in Checks : ~ Refuses(c, v)
    BY RecoveredStep DEF Healed
  <2>2. ASSUME NEW c \in Checks PROVE check'[c].pc # "unknown"
    BY <2>1, UnknownByLook DEF Healed, NoneUnknown
  <2> QED
    BY <2>1, <2>2 DEF Healed, NoneUnknown
<1>2. Healed => NoneUnknown
  BY DEF Healed
<1> QED
  BY <1>1, <1>2, InductiveInvariant, PTL DEF Spec
=============================================================================
