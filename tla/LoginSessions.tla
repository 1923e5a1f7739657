----------------------------- MODULE LoginSessions -----------------------------
(***************************************************************************)
(* Logins, their sessions and the two session stores                       *)
(* (src/services/session-store.ts, the routes that create, read and delete *)
(* sessions).                                                              *)
(*                                                                         *)
(* A process answers from its own cache.  It writes the session table      *)
(* (Postgres, one process) or Redis (several pods) without waiting, on any *)
(* pooled connection: writes land in any order, or fail.  Postgres is read *)
(* back at boot only; Redis after every cache miss, in the background.     *)
(*                                                                         *)
(* Data: a session is its id; a token is valid for the session it names;   *)
(* proofs, assertions and codes are checked before these actions.          *)
(***************************************************************************)
EXTENDS Integers, FiniteSets

CONSTANTS
    Pods, Primary,  \* server processes; the only one without Redis
    SessionIds,     \* session ids
    Tenants,        \* tenants that use OIDC
    OidcStates,     \* OIDC state parameters
    None,           \* the tenant of the demo routes
    MaxRestarts     \* bound: restarts

ASSUME SessionConstants == Primary \in Pods

VARIABLES
    backend,    \* "postgres" or "redis": createSessionStore
    cache,      \* cache[p]: sessions in the map of process p
    stored,     \* sessions in user_sessions, or in Redis
    writes,     \* statements under way
    reads,      \* background hydrations under way
    oidc,       \* oidc[p]: pendingStates
    aged,       \* states older than ten minutes
    opened,     \* sessions created so far
    tokens,     \* sessions whose tokens left the server
    expired,    \* sessions past expires_at
    erased,     \* history: deleted in time (see Overtaken)
    restarts    \* restarts so far

vars == <<backend, cache, stored, writes, reads, oidc, aged, opened, tokens, expired,
          erased, restarts>>
storeVars == <<stored, reads, expired, erased, restarts>>

Running == IF backend = "redis" THEN Pods ELSE {Primary}

Init ==
    /\ backend \in {"postgres", "redis"}
    /\ cache = [p \in Pods |-> {}] /\ oidc = [p \in Pods |-> {}]
    /\ stored = {} /\ writes = {} /\ reads = {} /\ aged = {} /\ opened = {}
    /\ tokens = {} /\ expired = {} /\ erased = {} /\ restarts = 0

-----------------------------------------------------------------------------
(* The store's three operations *)

create(p, s) ==
    /\ s \notin opened /\ opened' = opened \cup {s}
    /\ cache' = [cache EXCEPT ![p] = @ \cup {s}]
    /\ writes' = writes \cup {[op |-> "insert", session |-> s]}

delete(p, s) ==
    /\ cache' = [cache EXCEPT ![p] = @ \ {s}]
    /\ writes' = writes \cup {[op |-> "delete", session |-> s]}

\* Expired sessions go on the way; a miss makes Redis be asked for next time.
get(p, s) ==
    \/ /\ s \in cache[p] \cap expired /\ delete(p, s) /\ UNCHANGED reads
    \/ /\ s \notin cache[p] /\ backend = "redis"
       /\ reads' = reads \cup {[pod |-> p, session |-> s, found |-> FALSE]}
       /\ UNCHANGED <<cache, writes>>

-----------------------------------------------------------------------------
(* Logins: each opens a session and answers with its tokens *)

TokensOnly(p, s) == tokens' = tokens \cup {s} /\ UNCHANGED <<opened, cache, writes>>
LogIn(p, s) == create(p, s) /\ tokens' = tokens \cup {s}

SamlCallback(p, s) == LogIn(p, s) /\ UNCHANGED <<storeVars, backend, oidc, aged>>
SamlCallbackV1(p, s) == SamlCallback(p, s)
ZkpVerify(p, s) == LogIn(p, s) /\ UNCHANGED <<storeVars, backend, oidc, aged>>
ZkpVerifyV1(p, s) == ZkpVerify(p, s)

\* The session exists when the awaited audit row fails, and its tokens do not.
FaceVerify(p, s) ==
    /\ create(p, s)
    /\ tokens' \in {tokens, tokens \cup {s}}
    /\ UNCHANGED <<storeVars, backend, oidc, aged>>

\* A new state drops the old ones; nothing else looks at their age.
OidcAuthorize(p, x, t) ==
    /\ \A q \in Pods : ~\E o \in oidc[q] : o.state = x
    /\ oidc' = [oidc EXCEPT ![p] = {o \in @ : o.state \notin aged}
                                      \cup {[state |-> x, tenant |-> t]}]
    /\ aged' = aged \ {x}
    /\ UNCHANGED <<storeVars, backend, cache, writes, opened, tokens>>
DemoAuthorize(p, x) == OidcAuthorize(p, x, None)

OidcCallback(p, x, t, s) ==
    /\ [state |-> x, tenant |-> t] \in oidc[p]
    /\ oidc' = [oidc EXCEPT ![p] = @ \ {[state |-> x, tenant |-> t]}]
    /\ LogIn(p, s)
    /\ UNCHANGED <<storeVars, backend, aged>>
DemoCallback(p, x, s) == OidcCallback(p, x, None, s)

StateAges(x) ==
    /\ x \notin aged /\ aged' = aged \cup {x}
    /\ UNCHANGED <<storeVars, backend, cache, writes, oidc, opened, tokens>>

-----------------------------------------------------------------------------
(* Sessions in use: reading or refreshing one changes what get changes *)

ReadSession(p, s) ==
    /\ s \in tokens /\ get(p, s)
    /\ UNCHANGED <<backend, stored, oidc, aged, opened, tokens, expired, erased, restarts>>
Refresh(p, s) == ReadSession(p, s)

Logout(p, s) ==
    /\ s \in tokens /\ delete(p, s)
    /\ UNCHANGED <<storeVars, backend, oidc, aged, opened, tokens>>

\* getStats prunes the map only.
GetStats(p) ==
    /\ cache[p] \cap expired # {}
    /\ cache' = [cache EXCEPT ![p] = @ \ expired]
    /\ UNCHANGED <<storeVars, backend, writes, oidc, aged, opened, tokens>>

-----------------------------------------------------------------------------
(* The statements behind them *)

Inserting(s) == [op |-> "insert", session |-> s] \in writes

\* The INSERT is still to come, or a boot has read the row in the meantime.
Overtaken(s) == Inserting(s) \/ s \in cache[Primary]

PersistCreate(s) ==
    /\ Inserting(s)
    /\ writes' = writes \ {[op |-> "insert", session |-> s]}
    /\ stored' = stored \cup {s}
    /\ UNCHANGED <<backend, cache, reads, oidc, aged, opened, tokens, expired, erased, restarts>>

DeleteIfExpired(s) ==
    /\ [op |-> "delete", session |-> s] \in writes
    /\ writes' = writes \ {[op |-> "delete", session |-> s]}
    /\ stored' = stored \ ({s} \cap expired)
    /\ erased' = IF Overtaken(s) THEN erased ELSE erased \cup {s}
    /\ UNCHANGED <<backend, cache, reads, oidc, aged, opened, tokens, expired, restarts>>

PersistDelete(s) ==
    /\ [op |-> "delete", session |-> s] \in writes
    /\ writes' = writes \ {[op |-> "delete", session |-> s]}
    /\ stored' = stored \ {s}
    /\ erased' = IF Overtaken(s) THEN erased ELSE erased \cup {s}
    /\ UNCHANGED <<backend, cache, reads, oidc, aged, opened, tokens, expired, restarts>>

WriteFails(w) ==
    /\ w \in writes /\ writes' = writes \ {w}
    /\ UNCHANGED <<storeVars, backend, cache, oidc, aged, opened, tokens>>

HydrateOne(r) ==
    /\ r \in reads /\ ~r.found
    /\ reads' = (reads \ {r}) \cup
                {[r EXCEPT !.found = TRUE] : x \in {r.session} \cap stored}
    /\ UNCHANGED <<backend, cache, stored, writes, oidc, aged, opened, tokens, expired,
                   erased, restarts>>

HydrateLands(r) ==
    /\ r \in reads /\ r.found
    /\ reads' = reads \ {r}
    /\ cache' = [cache EXCEPT ![r.pod] = @ \cup ({r.session} \ expired)]
    /\ UNCHANGED <<backend, stored, writes, oidc, aged, opened, tokens, expired, erased, restarts>>

CleanupKeepsLate == stored' = stored \ (expired \cap UNION {cache[p] : p \in Pods})

\* The hourly DELETE; in Redis, the keys' own TTL.
CleanupExpired == stored' = stored \ expired

Cleanup ==
    /\ stored \cap expired # {} /\ CleanupExpired
    /\ UNCHANGED <<backend, cache, writes, reads, oidc, aged, opened, tokens, expired,
                   erased, restarts>>

SessionExpires(s) ==
    /\ s \in opened \ expired /\ expired' = expired \cup {s}
    /\ UNCHANGED <<backend, cache, stored, writes, reads, oidc, aged, opened, tokens,
                   erased, restarts>>

\* A new process reads the live rows before it listens, or starts empty.
Restart(p) ==
    /\ restarts < MaxRestarts /\ restarts' = restarts + 1
    /\ \E found \in {{}, IF backend = "postgres" THEN stored \ expired ELSE {}} :
          cache' = [cache EXCEPT ![p] = found]
    /\ oidc' = [oidc EXCEPT ![p] = {}]
    /\ reads' = {r \in reads : r.pod # p}
    /\ UNCHANGED <<backend, stored, writes, aged, opened, tokens, expired, erased>>

Settle(s) ==
    \/ PersistCreate(s) \/ PersistDelete(s)
    \/ \E w \in writes : w.session = s /\ WriteFails(w)

Next ==
    \/ \E p \in Running :
          \/ \E s \in SessionIds :
                \/ SamlCallback(p, s) \/ SamlCallbackV1(p, s)
                \/ ZkpVerify(p, s) \/ ZkpVerifyV1(p, s) \/ FaceVerify(p, s)
                \/ \E x \in OidcStates :
                      DemoCallback(p, x, s) \/ \E t \in Tenants : OidcCallback(p, x, t, s)
                \/ ReadSession(p, s) \/ Refresh(p, s) \/ Logout(p, s)
          \/ \E x \in OidcStates :
                DemoAuthorize(p, x) \/ \E t \in Tenants : OidcAuthorize(p, x, t)
          \/ GetStats(p) \/ Restart(p)
    \/ \E x \in OidcStates : StateAges(x)
    \/ \E s \in SessionIds : Settle(s) \/ SessionExpires(s)
    \/ \E r \in reads : HydrateOne(r) \/ HydrateLands(r)
    \/ Cleanup

\* The cleanup timer ticks, and a statement sent to the store is answered.
Spec ==
    /\ Init /\ [][Next]_vars
    /\ WF_vars(Cleanup) /\ \A s \in SessionIds : WF_vars(Settle(s))

-----------------------------------------------------------------------------
(* Properties *)

TypeOK ==
    /\ backend \in {"postgres", "redis"}
    /\ cache \in [Pods -> SUBSET SessionIds] /\ stored \subseteq opened
    /\ writes \subseteq [op : {"insert", "delete"}, session : opened]
    /\ reads \subseteq [pod : Pods, session : opened, found : BOOLEAN]
    /\ oidc \in [Pods -> SUBSET [state : OidcStates, tenant : Tenants \cup {None}]]
    /\ tokens \subseteq opened /\ expired \subseteq opened /\ erased \subseteq opened

\* A logout whose DELETE ran after the INSERT, before the next boot, is for good:
\* no restart brings the session back from the table (session-store.ts:115-183).
\* Nothing is said of a DELETE that failed, that the INSERT or a boot overtook,
\* nor of another pod's cache: there the session does come back.
LogoutSurvivesRestart ==
    backend = "postgres" => \A s \in erased : s \notin stored \cup cache[Primary]

\* No expired session stays in the store, not even one whose INSERT landed
\* late: it would be read back by every boot (session-store.ts:185-197).
ExpiredForgotten == \A s \in SessionIds : s \in expired ~> [](s \notin stored)
=============================================================================
