------------------------- MODULE LoginSessions_proofs -------------------------
(***************************************************************************)
(* Theorems about logins and the two session stores, for any number of     *)
(* processes, sessions, tenants and restarts.                              *)
(***************************************************************************)
EXTENDS LoginSessions, TLAPS

\* Sessions that any store holds were opened by a login.
Opened ==
    /\ TypeOK
    /\ opened \subseteq SessionIds
    /\ \A p \in Pods : cache[p] \subseteq opened

\* With the table as the store nothing is hydrated behind the cache, and a session
\* deleted in time is nowhere: not in the table, not in the map, and no INSERT of
\* it is still to come.
Forgotten ==
    backend = "postgres" =>
        /\ reads = {}
        /\ \A s \in erased : s \notin stored /\ s \notin cache[Primary] /\ ~Inserting(s)

SessionInv == Opened /\ Forgotten

\* No sessions at first.
LEMMA SessionInvInit == Init => SessionInv
BY SessionConstants
   DEF Init, SessionInv, Opened, Forgotten, TypeOK, Running, Inserting

\* A login opens a session that no store has seen.
LEMMA CreateStep ==
    ASSUME SessionInv, NEW p \in Running, NEW s \in SessionIds, create(p, s),
           tokens' \in {tokens, tokens \cup {s}},
           oidc' \in [Pods -> SUBSET [state : OidcStates, tenant : Tenants \cup {None}]],
           UNCHANGED storeVars, UNCHANGED backend
    PROVE  SessionInv'
<1>1. p \in Pods
  BY SessionConstants DEF Running
<1>2. /\ s \notin opened /\ opened' = opened \cup {s}
      /\ cache' = [cache EXCEPT ![p] = @ \cup {s}]
      /\ writes' = writes \cup {[op |-> "insert", session |-> s]}
  BY DEF create
<1>3. UNCHANGED <<stored, reads, expired, erased, restarts, backend>>
  BY DEF storeVars
<1>4. Opened'
  BY <1>1, <1>2, <1>3 DEF SessionInv, Opened, TypeOK
<1>5. Forgotten'
  <2> SUFFICES ASSUME backend' = "postgres", NEW e \in erased
               PROVE  e \notin stored /\ e \notin cache'[Primary] /\ ~Inserting(e)'
    BY <1>3 DEF SessionInv, Forgotten
  <2>1. e \in opened /\ e # s
    BY <1>2 DEF SessionInv, Opened, TypeOK
  <2> QED
    BY <1>1, <1>2, <1>3, <2>1, SessionConstants
       DEF SessionInv, Opened, TypeOK, Forgotten, Inserting
<1> QED
  BY <1>4, <1>5 DEF SessionInv

\* Logins of every kind.
LEMMA LoginSteps ==
    ASSUME SessionInv, NEW p \in Running, NEW s \in SessionIds,
           \/ SamlCallback(p, s) \/ SamlCallbackV1(p, s)
           \/ ZkpVerify(p, s) \/ ZkpVerifyV1(p, s) \/ FaceVerify(p, s)
           \/ \E x \in OidcStates :
                 DemoCallback(p, x, s) \/ \E t \in Tenants : OidcCallback(p, x, t, s)
    PROVE  SessionInv'
<1>1. create(p, s) /\ tokens' \in {tokens, tokens \cup {s}} /\ UNCHANGED <<storeVars, backend>>
  BY DEF SamlCallback, SamlCallbackV1, ZkpVerify, ZkpVerifyV1, FaceVerify, DemoCallback,
         OidcCallback, LogIn
<1>2. oidc \in [Pods -> SUBSET [state : OidcStates, tenant : Tenants \cup {None}]]
  BY DEF SessionInv, Opened, TypeOK
<1>3. \/ oidc' = oidc
      \/ \E o : oidc' = [oidc EXCEPT ![p] = @ \ {o}]
  BY DEF SamlCallback, SamlCallbackV1, ZkpVerify, ZkpVerifyV1, FaceVerify, DemoCallback,
         OidcCallback
<1>4. oidc' \in [Pods -> SUBSET [state : OidcStates, tenant : Tenants \cup {None}]]
  BY <1>2, <1>3
<1> QED
  BY <1>1, <1>4, CreateStep

\* What the two OIDC maps do leaves the stores alone.
LEMMA OidcSteps ==
    ASSUME SessionInv,
           \/ \E p \in Running, x \in OidcStates :
                 DemoAuthorize(p, x) \/ \E t \in Tenants : OidcAuthorize(p, x, t)
           \/ \E x \in OidcStates : StateAges(x)
    PROVE  SessionInv'
<1>1. UNCHANGED <<storeVars, backend, cache, writes, opened, tokens>>
  BY DEF DemoAuthorize, OidcAuthorize, StateAges
<1>2. oidc \in [Pods -> SUBSET [state : OidcStates, tenant : Tenants \cup {None}]]
  BY DEF SessionInv, Opened, TypeOK
<1>3. oidc' \in [Pods -> SUBSET [state : OidcStates, tenant : Tenants \cup {None}]]
  <2>1. CASE \E x \in OidcStates : StateAges(x)
    BY <1>2, <2>1 DEF StateAges
  <2>2. ASSUME NEW p \in Running, NEW x \in OidcStates, NEW t \in Tenants \cup {None},
               OidcAuthorize(p, x, t)
        PROVE  oidc' \in [Pods -> SUBSET [state : OidcStates, tenant : Tenants \cup {None}]]
    <3> DEFINE T == [state : OidcStates, tenant : Tenants \cup {None}]
               new == {o \in oidc[p] : o.state \notin aged} \cup {[state |-> x, tenant |-> t]}
    <3>1. oidc' = [oidc EXCEPT ![p] = new]
      BY <2>2 DEF OidcAuthorize
    <3>2. p \in Pods
      BY SessionConstants DEF Running
    <3>3. new \in SUBSET T
      BY <1>2, <3>2
    <3> HIDE DEF new, T
    <3> QED
      BY <1>2, <3>1, <3>3 DEF T
  <2> QED
    BY <2>1, <2>2 DEF DemoAuthorize
<1> QED
  BY <1>1, <1>3 DEF storeVars, SessionInv, Opened, Forgotten, TypeOK, Inserting

\* Reads, refreshes, logouts and the statistics only take sessions out of a map;
\* only with Redis do they ask for one.
LEMMA UseSteps ==
    ASSUME SessionInv, NEW p \in Running,
           \/ \E s \in SessionIds : ReadSession(p, s) \/ Refresh(p, s) \/ Logout(p, s)
           \/ GetStats(p)
    PROVE  SessionInv'
<1>1. p \in Pods
  BY SessionConstants DEF Running
<1>2. UNCHANGED <<backend, stored, oidc, opened, tokens, expired, erased>>
  BY DEF ReadSession, Refresh, Logout, GetStats, storeVars
<1>3. PICK gone : \/ cache' = cache
                  \/ cache' = [cache EXCEPT ![p] = @ \ gone]
  BY DEF ReadSession, Refresh, Logout, GetStats, get, delete
<1>4. writes' \subseteq writes \cup [op : {"delete"}, session : opened]
  <2>1. ASSUME NEW s \in SessionIds, Logout(p, s) \/ ReadSession(p, s)
        PROVE  \/ writes' = writes
               \/ s \in opened /\ writes' = writes \cup {[op |-> "delete", session |-> s]}
    BY <2>1 DEF ReadSession, Logout, get, delete, SessionInv, Opened, TypeOK
  <2>2. GetStats(p) => writes' = writes
    BY DEF GetStats
  <2> QED
    BY <2>1, <2>2 DEF Refresh
<1>5. /\ reads' \subseteq reads \cup [pod : Pods, session : opened, found : BOOLEAN]
      /\ backend = "postgres" => reads' = reads
  <2>1. ASSUME NEW s \in SessionIds, ReadSession(p, s)
        PROVE  \/ reads' = reads
               \/ /\ s \in opened /\ backend = "redis"
                  /\ reads' = reads \cup {[pod |-> p, session |-> s, found |-> FALSE]}
    BY <2>1 DEF ReadSession, get, SessionInv, Opened, TypeOK
  <2>2. (GetStats(p) \/ \E s \in SessionIds : Logout(p, s)) => reads' = reads
    BY DEF GetStats, Logout, storeVars
  <2> QED
    <3>1. CASE reads' = reads
      BY <3>1
    <3>2. ASSUME NEW s \in opened, backend = "redis",
                 reads' = reads \cup {[pod |-> p, session |-> s, found |-> FALSE]}
          PROVE  /\ reads' \subseteq reads \cup [pod : Pods, session : opened, found : BOOLEAN]
                 /\ backend = "postgres" => reads' = reads
      <4>1. [pod |-> p, session |-> s, found |-> FALSE]
               \in [pod : Pods, session : opened, found : BOOLEAN]
        BY <1>1
      <4> QED
        BY <3>2, <4>1
    <3>3. ASSUME NEW s \in SessionIds, ReadSession(p, s)
          PROVE  \/ reads' = reads
                 \/ \E t \in opened :
                       /\ backend = "redis"
                       /\ reads' = reads \cup {[pod |-> p, session |-> t, found |-> FALSE]}
      BY <2>1, <3>3
    <3> QED
      BY <2>2, <3>1, <3>2, <3>3 DEF Refresh
<1>6. Opened'
  BY <1>1, <1>2, <1>3, <1>4, <1>5 DEF SessionInv, Opened, TypeOK
<1>7. \A s : Inserting(s)' => Inserting(s)
  BY <1>4 DEF Inserting
<1>8. Forgotten'
  BY <1>1, <1>2, <1>3, <1>5, <1>7, SessionConstants DEF SessionInv, Opened, TypeOK, Forgotten
<1> QED
  BY <1>6, <1>8 DEF SessionInv

\* The statements sent to the store land, in any order, or fail.
LEMMA StoreSteps ==
    ASSUME SessionInv, NEW s \in SessionIds, Settle(s)
    PROVE  SessionInv'
<1>1. CASE PersistCreate(s)
  <2>1. s \in opened /\ Inserting(s)
    BY <1>1 DEF PersistCreate, Inserting, SessionInv, Opened, TypeOK
  <2> QED
    BY <1>1, <2>1 DEF PersistCreate, SessionInv, Opened, TypeOK, Forgotten, Inserting
<1>2. CASE PersistDelete(s)
  <2>1. s \in opened
    BY <1>2 DEF PersistDelete, SessionInv, Opened, TypeOK
  <2>2. Opened'
    BY <1>2, <2>1 DEF PersistDelete, SessionInv, Opened, TypeOK
  <2>3. \A t : Inserting(t)' => Inserting(t)
    BY <1>2 DEF PersistDelete, Inserting
  <2>4. Forgotten'
    BY <1>2, <2>3 DEF PersistDelete, SessionInv, Forgotten, Overtaken
  <2> QED
    BY <2>2, <2>4 DEF SessionInv
<1>3. CASE \E w \in writes : WriteFails(w)
  BY <1>3 DEF WriteFails, storeVars, SessionInv, Opened, TypeOK, Forgotten, Inserting
<1> QED
  BY <1>1, <1>2, <1>3 DEF Settle

\* Background hydrations, which only Redis has.
LEMMA HydrateSteps ==
    ASSUME SessionInv, NEW r \in reads, HydrateOne(r) \/ HydrateLands(r)
    PROVE  SessionInv'
<1>1. backend # "postgres"
  BY DEF SessionInv, Forgotten
<1>2. r \in [pod : Pods, session : opened, found : BOOLEAN]
  BY DEF SessionInv, Opened, TypeOK
<1>3. CASE HydrateOne(r)
  <2>1. [r EXCEPT !.found = TRUE] \in [pod : Pods, session : opened, found : BOOLEAN]
    BY <1>2
  <2>2. reads' \subseteq reads \cup {[r EXCEPT !.found = TRUE]}
    BY <1>3 DEF HydrateOne
  <2> QED
    BY <1>1, <1>3, <2>1, <2>2 DEF HydrateOne, SessionInv, Opened, TypeOK, Forgotten
<1>4. CASE HydrateLands(r)
  BY <1>1, <1>2, <1>4 DEF HydrateLands, SessionInv, Opened, TypeOK, Forgotten
<1> QED
  BY <1>3, <1>4

\* A restart reads back what the table still holds.
LEMMA RestartStep ==
    ASSUME SessionInv, NEW p \in Running, Restart(p)
    PROVE  SessionInv'
<1>1. p \in Pods
  BY SessionConstants DEF Running
<1>2. PICK found \in {{}, IF backend = "postgres" THEN stored \ expired ELSE {}} :
         cache' = [cache EXCEPT ![p] = found]
  BY DEF Restart
<1>3. found \subseteq stored
  BY <1>2
<1>4. /\ oidc' = [oidc EXCEPT ![p] = {}] /\ reads' \subseteq reads
      /\ UNCHANGED <<backend, stored, writes, aged, opened, tokens, expired, erased>>
  BY DEF Restart
<1>5. Opened'
  BY <1>1, <1>2, <1>3, <1>4 DEF SessionInv, Opened, TypeOK
<1>6. Forgotten'
  BY <1>1, <1>2, <1>3, <1>4, SessionConstants
     DEF SessionInv, Opened, TypeOK, Forgotten, Inserting
<1> QED
  BY <1>5, <1>6 DEF SessionInv

\* The invariant is inductive.
LEMMA SessionInvNext == SessionInv /\ [Next]_vars => SessionInv'
<1> SUFFICES ASSUME SessionInv, [Next]_vars PROVE SessionInv'
  OBVIOUS
<1>1. CASE UNCHANGED vars
  BY <1>1 DEF vars, SessionInv, Opened, TypeOK, Forgotten, Inserting
<1>2. CASE Cleanup
  BY <1>2 DEF Cleanup, CleanupExpired, SessionInv, Opened, TypeOK, Forgotten, Inserting
<1>3. ASSUME NEW s \in SessionIds, SessionExpires(s) PROVE SessionInv'
  BY <1>3 DEF SessionExpires, SessionInv, Opened, TypeOK, Forgotten, Inserting
<1> QED
  BY <1>1, <1>2, <1>3, LoginSteps, OidcSteps, UseSteps, StoreSteps, HydrateSteps,
     RestartStep DEF Next

\* The invariant holds in every reachable state.
THEOREM SessionsSound == Spec => []SessionInv
BY SessionInvInit, SessionInvNext, PTL DEF Spec

\* Maps, tables and statements under way hold sessions that a login opened.
THEOREM TypesHold == Spec => []TypeOK
<1>1. SessionInv => TypeOK
  BY DEF SessionInv, Opened
<1> QED
  BY <1>1, SessionsSound, PTL

\* A logout whose DELETE ran after the INSERT and before the next boot is for good:
\* no boot brings the session back, however many follow.
THEOREM LogoutIsFinal == Spec => []LogoutSurvivesRestart
<1>1. SessionInv => LogoutSurvivesRestart
  BY DEF SessionInv, Forgotten, LogoutSurvivesRestart
<1> QED
  BY <1>1, SessionsSound, PTL
=============================================================================
