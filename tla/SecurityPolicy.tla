----------------------------- MODULE SecurityPolicy -----------------------------
(***************************************************************************)
(* A tenant's security policy: one JSONB column that POST security-policy  *)
(* reads, merges and writes back whole (src/routes/console-security-       *)
(* policy.ts), the audit row it awaits, and the page that edits it         *)
(* (dashboard/src/routes/tenant/security-policy.tsx).                      *)
(*                                                                         *)
(* Data: the column has two keys, the provider slots that the page edits   *)
(* and the chain settings that it does not send; None is an absent key.    *)
(***************************************************************************)
EXTENDS Integers, FiniteSets

CONSTANTS
    Calls,      \* POSTs under way
    Values,     \* values of a key
    Default,    \* what a missing provider slot resolves to
    None,
    MaxWrites   \* bound: POSTs and SQL changes

VARIABLES
    policy,     \* tenants.security_policy
    call,       \* POSTs: body, the policy read, the policy written
    audited,    \* audit rows: policy_after, and (history) the write it is of
    data,       \* page: the query's data
    draft,      \* page: the form
    fetch,      \* page: the GET under way
    last,       \* history: the value each key was last given
    undone,     \* history: keys put back by a POST that had read them before a change
    version,    \* history: how many writes the column has had
    unlogged,   \* history: those by SQL, and by a POST that failed before its audit row
    writes      \* bound

history == <<last, undone, version, unlogged>>
vars == <<policy, call, audited, data, draft, fetch, history, writes>>
page == <<data, draft, fetch>>

Fields == {"providers", "chain"}
Policies == [Fields -> Values \cup {None}]
Idle == [step |-> "idle"]

Init ==
    /\ policy = [f \in Fields |-> None] /\ call = [c \in Calls |-> Idle] /\ audited = {}
    /\ data = None /\ draft = Default /\ fetch = "none"
    /\ last = policy /\ undone = {} /\ version = 0 /\ unlogged = {} /\ writes = 0

\* resolveProviders: an absent slot has its default.
Resolve(p) == IF p["providers"] = None THEN Default ELSE p["providers"]

-----------------------------------------------------------------------------
(* POST security-policy: getTenantById, UPDATE, appendAuditEvent *)

\* Keys the body has no value for are not in its domain.
LoadPolicy(c, body, from) ==
    /\ call[c] = Idle /\ writes < MaxWrites /\ writes' = writes + 1
    /\ call' = [call EXCEPT ![c] = [step |-> "update", body |-> body, before |-> policy,
                                    stale |-> {}, from |-> from]]
    /\ UNCHANGED <<policy, audited, history>>

BodyOnly(body, before) == [f \in Fields |-> IF f \in DOMAIN body THEN body[f] ELSE None]

\* The shallow merge; null deletes a key.
Merged(body, before) == [f \in Fields |-> IF f \in DOMAIN body THEN body[f] ELSE before[f]]

\* POSTs that have read already hold another value of these keys.
NowStale(calls, changed) ==
    [d \in Calls |-> IF calls[d].step = "update"
                     THEN [calls[d] EXCEPT !.stale = calls[d].stale \cup changed] ELSE calls[d]]

UpdatePolicy(c) ==
    /\ call[c].step = "update" /\ version' = version + 1
    /\ policy' = Merged(call[c].body, call[c].before)
    /\ call' = NowStale([call EXCEPT ![c] = [step |-> "audit", after |-> policy',
                                             version |-> version', from |-> @.from]],
                        DOMAIN call[c].body \cup call[c].stale)
    /\ last' = [f \in Fields |-> IF f \in DOMAIN call[c].body THEN call[c].body[f] ELSE last[f]]
    /\ undone' = (undone \cup call[c].stale) \ DOMAIN call[c].body
    /\ UNCHANGED <<audited, unlogged, writes, page>>

\* The answer: the page mirrors it into its cache and its form.
AppendAudit(c) ==
    /\ call[c].step = "audit"
    /\ audited' = audited \cup {[version |-> call[c].version, after |-> call[c].after]}
    /\ call' = [call EXCEPT ![c] = Idle]
    /\ IF call[c].from = "page"
       THEN data' = Resolve(call[c].after) /\ draft' = Resolve(call[c].after)
       ELSE UNCHANGED <<data, draft>>
    /\ UNCHANGED <<policy, fetch, history, writes>>

CallFails(c) ==
    /\ call[c] # Idle /\ call' = [call EXCEPT ![c] = Idle]
    /\ unlogged' = IF call[c].step = "audit" THEN unlogged \cup {call[c].version} ELSE unlogged
    /\ UNCHANGED <<policy, audited, last, undone, version, writes, page>>

\* An operator, in SQL: one key of the column, and no audit row.
SetBySql(v) ==
    /\ writes < MaxWrites /\ writes' = writes + 1 /\ v # policy["chain"]
    /\ policy' = [policy EXCEPT !["chain"] = v] /\ last' = [last EXCEPT !["chain"] = v]
    /\ undone' = undone \ {"chain"}
    /\ version' = version + 1 /\ unlogged' = unlogged \cup {version'}
    /\ call' = NowStale(call, {"chain"})
    /\ UNCHANGED <<audited, page>>

-----------------------------------------------------------------------------
(* The page *)

Fetch ==
    /\ fetch = "none" /\ fetch' = "asked"
    /\ UNCHANGED <<policy, call, audited, data, draft, history, writes>>

GetPolicy ==
    /\ fetch = "asked" /\ fetch' = Resolve(policy)
    /\ UNCHANGED <<policy, call, audited, data, draft, history, writes>>

\* Data that differs is new data, and goes over the form, edited or not.
FetchArrives ==
    /\ fetch \in Values /\ fetch' = "none"
    /\ data' = fetch /\ draft' = IF fetch = data THEN draft ELSE fetch
    /\ UNCHANGED <<policy, call, audited, history, writes>>

FetchFails ==
    /\ fetch # "none" /\ fetch' = "none"
    /\ UNCHANGED <<policy, call, audited, data, draft, history, writes>>

Edit(v) ==
    /\ v # draft /\ draft' = v
    /\ UNCHANGED <<policy, call, audited, data, fetch, history, writes>>

\* Only a changed form is sent, one at a time.
Submit(c) ==
    /\ data # None /\ draft # data
    /\ \A d \in Calls : call[d] # Idle => call[d].from # "page"
    /\ LoadPolicy(c, [f \in {"providers"} |-> draft], "page")
    /\ UNCHANGED page

\* Any other client of the console's API.
ApiCall(c, f, v) ==
    /\ f = "providers" => v # None
    /\ LoadPolicy(c, [g \in {f} |-> v], "api")
    /\ UNCHANGED page

Next ==
    \/ \E c \in Calls :
          \/ UpdatePolicy(c) \/ AppendAudit(c) \/ CallFails(c) \/ Submit(c)
          \/ \E f \in Fields, v \in Values \cup {None} : ApiCall(c, f, v)
    \/ \E v \in Values : SetBySql(v) \/ Edit(v)
    \/ Fetch \/ GetPolicy \/ FetchArrives \/ FetchFails

-----------------------------------------------------------------------------
(* Properties *)

TypeOK ==
    /\ policy \in Policies /\ last \in Policies /\ undone \subseteq Fields
    /\ \A row \in audited : row.after \in Policies
    /\ data \in Values \cup {None} /\ draft \in Values /\ fetch \in Values \cup {"none", "asked"}
    /\ \A c \in Calls : call[c].step \in {"idle", "update", "audit"}

Settled == \A c \in Calls : call[c] = Idle

\* A key keeps the value it was last given, by whatever writer, unless a POST that did
\* not send it had read the column before that and wrote it back afterwards; a value
\* given to the key later is kept again (console-security-policy.ts:307-348).
KeysKeepLastValue == \A f \in Fields \ undone : policy[f] = last[f]

\* Once no POST is under way, every write has its own audit row, but those of SQL and of
\* POSTs that failed in between; the row of the latest write carries the very policy in
\* force, whatever older value a race put back into it (lines 341-387).
PolicyIsAudited ==
    Settled => \A n \in (1..version) \ unlogged :
                  \E row \in audited : row.version = n /\ (n = version => row.after = policy)

PolicyHolds == KeysKeepLastValue /\ PolicyIsAudited
=============================================================================
