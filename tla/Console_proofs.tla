---------------------------- MODULE Console_proofs ----------------------------
(***************************************************************************)
(* Theorems about the console's components and the pages, each for any     *)
(* number of requests, links, sessions and whatever else bounds its runs.  *)
(***************************************************************************)
EXTENDS Services_proofs

-----------------------------------------------------------------------------
(* One component runs *)

\* While the tenant's records run, a step is one of theirs.
LEMMA RecordSteps == [Next]_vars /\ focus = "records" => E!Next \/ UNCHANGED e_vars
BY DEF Next, ConsoleNext, vars, consoleVars

\* While the accounts run, a step is one of theirs.
LEMMA AccountSteps == [Next]_vars /\ focus = "accounts" => U!Next \/ UNCHANGED u_vars
BY DEF Next, ConsoleNext, vars, consoleVars

\* While the meters run, a step is one of theirs.
LEMMA MeterSteps == [Next]_vars /\ focus = "meters" => M!Next \/ UNCHANGED m_vars
BY DEF Next, ConsoleNext, vars, consoleVars

\* While the security policy runs, a step is one of its own.
LEMMA PolicySteps == [Next]_vars /\ focus = "policy" => Y!Next \/ UNCHANGED y_vars
BY DEF Next, ConsoleNext, vars, consoleVars

\* While the webhooks run, a step is one of theirs.
LEMMA WebhookSteps == [Next]_vars /\ focus = "webhooks" => W!Next \/ UNCHANGED w_vars
BY DEF Next, ConsoleNext, vars, consoleVars

-----------------------------------------------------------------------------
(* The security policy *)

Bodies == UNION {[F -> Values \cup {None}] : F \in SUBSET Y!Fields}
Loaded == [step : {"update"}, body : Bodies, before : Y!Policies, stale : SUBSET Y!Fields,
           from : {"page", "api"}]
Written == [step : {"audit"}, after : Y!Policies, version : Nat, from : {"page", "api"}]

\* A row, or a POST on its way to its row, is of a write: of the latest one, it carries
\* the policy in force.
Records(r, n) == r.version = n /\ (n = y_version => r.after = y_policy)

\* Every write is on record, or on its way, or never will be.
WritesLogged ==
    \A n \in (1..y_version) \ y_unlogged :
       \/ \E row \in y_audited : Records(row, n)
       \/ \E c \in Requests : y_call[c].step = "audit" /\ Records(y_call[c], n)

\* A POST holds the values in force of the keys that are not stale.
PolicyInv ==
    /\ Y!TypeOK
    /\ y_call \in [Requests -> {Y!Idle} \cup Loaded \cup Written]
    /\ \A c \in Requests :
          y_call[c].step = "update" =>
             \A f \in Y!Fields \ y_call[c].stale : y_call[c].before[f] = y_policy[f]
    /\ Y!KeysKeepLastValue
    /\ y_version \in Nat /\ WritesLogged

\* The policy starts at a value, with no change under way.
LEMMA PolicyInvInit == Y!Init => PolicyInv
<1> SUFFICES ASSUME Y!Init PROVE PolicyInv
  OBVIOUS
<1>1. y_policy \in Y!Policies /\ y_call = [c \in Requests |-> Y!Idle]
  BY DEF Y!Init, Y!Policies
<1>2. Y!Idle.step = "idle"
  BY DEF Y!Idle
<1>3. Y!TypeOK
  BY <1>1, <1>2, ServicesConstants DEF Y!Init, Y!TypeOK
<1> QED BY <1>1, <1>2, <1>3 DEF Y!Init, PolicyInv, Y!KeysKeepLastValue, WritesLogged

\* A policy call is idle, has loaded or has written.
LEMMA CallKinds ==
    ASSUME PolicyInv, NEW c \in Requests
    PROVE  /\ y_call[c].step = "update" => y_call[c] \in Loaded
           /\ y_call[c].step = "audit" => y_call[c] \in Written
           /\ y_call[c].step \notin {"update", "audit"} => y_call[c] = Y!Idle
           /\ Y!Idle.step = "idle"
BY DEF PolicyInv, Loaded, Written, Y!Idle

\* Marking the POSTs that have read keeps what they are and what they hold, and makes
\* the keys that changed stale.
LEMMA StaleMarked ==
    ASSUME NEW calls \in [Requests -> {Y!Idle} \cup Loaded \cup Written],
           NEW changed \in SUBSET Y!Fields
    PROVE  LET marked == Y!NowStale(calls, changed) IN
           /\ marked \in [Requests -> {Y!Idle} \cup Loaded \cup Written]
           /\ \A c \in Requests :
                 /\ marked[c].step = calls[c].step
                 /\ marked[c].step = "update" => /\ marked[c].stale = calls[c].stale \cup changed
                                                /\ marked[c].before = calls[c].before
                 /\ calls[c].step # "update" => marked[c] = calls[c]
<1> DEFINE marked == Y!NowStale(calls, changed)
<1>1. ASSUME NEW d \in Requests
      PROVE  /\ marked[d] \in {Y!Idle} \cup Loaded \cup Written
             /\ marked[d].step = calls[d].step
             /\ marked[d].step = "update" => /\ marked[d].stale = calls[d].stale \cup changed
                                            /\ marked[d].before = calls[d].before
             /\ calls[d].step # "update" => marked[d] = calls[d]
  <2>1. marked[d] = IF calls[d].step = "update"
                    THEN [calls[d] EXCEPT !.stale = calls[d].stale \cup changed] ELSE calls[d]
    BY DEF Y!NowStale
  <2>2. CASE calls[d].step = "update"
    <3>1. calls[d] \in Loaded
      BY <2>2 DEF Y!Idle, Written
    <3>2. PICK k : k = [calls[d] EXCEPT !.stale = calls[d].stale \cup changed]
      OBVIOUS
    <3>3. k \in Loaded /\ k.stale = calls[d].stale \cup changed /\ k.before = calls[d].before
          /\ k.step = "update"
      BY <3>1, <3>2 DEF Loaded
    <3>4. marked[d] = k
      BY <2>1, <2>2, <3>2
    <3> QED BY <2>2, <3>3, <3>4
  <2>3. CASE calls[d].step # "update"
    BY <2>1, <2>3
  <2> QED BY <2>2, <2>3
<1>2. marked = [d \in Requests |-> marked[d]]
  BY DEF Y!NowStale
<1> HIDE DEF marked
<1>3. marked \in [Requests -> {Y!Idle} \cup Loaded \cup Written]
  BY <1>1, <1>2
<1> USE DEF marked
<1> QED BY <1>1, <1>3

\* A change loads the policy it will be compared with.
LEMMA LoadKeepsPolicyInv ==
    ASSUME PolicyInv, NEW c \in Requests, NEW body \in Bodies, NEW from \in {"page", "api"},
           Y!LoadPolicy(c, body, from), UNCHANGED Y!page
    PROVE  PolicyInv'
<1> DEFINE r == [step |-> "update", body |-> body, before |-> y_policy, stale |-> {},
                 from |-> from]
<1>1. y_call[c] = Y!Idle /\ y_call' = [y_call EXCEPT ![c] = r]
      /\ UNCHANGED <<y_policy, y_audited, y_last, y_undone, y_version, y_unlogged, y_data,
                     y_draft, y_fetch>>
  BY DEF Y!LoadPolicy, Y!page, Y!history
<1>2. Y!TypeOK /\ y_policy \in Y!Policies
      /\ y_call \in [Requests -> {Y!Idle} \cup Loaded \cup Written]
  BY DEF PolicyInv, Y!TypeOK
<1>3. r \in Loaded /\ r.step = "update" /\ r.before = y_policy
  BY <1>2 DEF Loaded
<1> HIDE DEF r
<1>4. y_call' \in [Requests -> {Y!Idle} \cup Loaded \cup Written]
      /\ y_call'[c] = r /\ \A d \in Requests : d # c => y_call'[d] = y_call[d]
  BY <1>1, <1>2, <1>3
<1>5. Y!TypeOK'
  BY <1>1, <1>2, <1>3, <1>4 DEF Y!TypeOK
<1>6. \A d \in Requests :
        y_call'[d].step = "update" =>
           \A f \in Y!Fields \ y_call'[d].stale : y_call'[d].before[f] = y_policy[f]
  BY <1>3, <1>4 DEF PolicyInv
<1>7. y_call[c].step # "audit"
  BY <1>1, CallKinds
<1>8. WritesLogged'
  BY <1>1, <1>4, <1>7 DEF PolicyInv, WritesLogged, Records
<1>9. Y!KeysKeepLastValue'
  BY <1>1 DEF PolicyInv, Y!KeysKeepLastValue
<1> QED BY <1>1, <1>4, <1>5, <1>6, <1>8, <1>9 DEF PolicyInv

\* The merge of a body into a policy is a policy.
LEMMA MergedType ==
    ASSUME NEW body \in Bodies, NEW before \in Y!Policies
    PROVE  Y!Merged(body, before) \in Y!Policies
<1>1. PICK F \in SUBSET Y!Fields : body \in [F -> Values \cup {None}]
  BY DEF Bodies
<1> QED BY <1>1 DEF Y!Merged, Y!Policies

\* The next write takes the next number: the writes before it are on record as they were.
LEMMA NextWrite ==
    ASSUME PolicyInv, y_version' = y_version + 1, y_audited' = y_audited,
           y_unlogged \subseteq y_unlogged',
           \A d \in Requests : y_call[d].step = "audit" => y_call'[d] = y_call[d],
           \/ y_version + 1 \in y_unlogged'
           \/ \E c \in Requests : /\ y_call'[c].step = "audit" /\ y_call'[c].version = y_version + 1
                                  /\ y_call'[c].after = y_policy'
    PROVE  y_version' \in Nat /\ WritesLogged'
<1>1. y_version \in Nat /\ y_version' \in Nat
  BY DEF PolicyInv
<1>2. ASSUME NEW n \in (1..(y_version + 1)) \ y_unlogged'
      PROVE  \/ \E row \in y_audited' : row.version = n /\ (n = y_version' => row.after = y_policy')
             \/ \E c \in Requests : /\ y_call'[c].step = "audit" /\ y_call'[c].version = n
                                    /\ n = y_version' => y_call'[c].after = y_policy'
  <2>1. CASE n = y_version + 1
    BY <2>1
  <2>2. CASE n # y_version + 1
    <3>1. n \in (1..y_version) \ y_unlogged
      BY <1>1, <2>2
    <3>2. CASE \E row \in y_audited : row.version = n
      BY <2>2, <3>2
    <3>3. CASE \E c \in Requests : y_call[c].step = "audit" /\ y_call[c].version = n
      BY <2>2, <3>3
    <3> QED BY <3>1, <3>2, <3>3 DEF PolicyInv, WritesLogged, Records
  <2> QED BY <2>1, <2>2
<1> QED BY <1>1, <1>2 DEF WritesLogged, Records

\* A change is written, then its audit entry has the value before and after.
LEMMA UpdateKeepsPolicyInv ==
    ASSUME PolicyInv, NEW c \in Requests, Y!UpdatePolicy(c)
    PROVE  PolicyInv'
<1>1. PICK k \in Loaded : k = y_call[c]
  BY CallKinds DEF Y!UpdatePolicy
<1>2. PICK p \in Y!Policies : p = Y!Merged(k.body, k.before)
  BY <1>1, MergedType DEF Loaded
<1>3. PICK changed \in SUBSET Y!Fields : changed = DOMAIN k.body \cup k.stale
  BY <1>1 DEF Loaded, Bodies
<1> DEFINE r == [step |-> "audit", after |-> p, version |-> y_version + 1, from |-> k.from]
           calls == [y_call EXCEPT ![c] = r]
<1>4. /\ y_policy' = p /\ y_call' = Y!NowStale(calls, changed) /\ y_version' = y_version + 1
      /\ y_last' = [f \in Y!Fields |-> IF f \in DOMAIN k.body THEN k.body[f] ELSE y_last[f]]
      /\ y_undone' = (y_undone \cup k.stale) \ DOMAIN k.body
      /\ UNCHANGED <<y_audited, y_unlogged, y_data, y_draft, y_fetch>>
  BY <1>1, <1>2, <1>3 DEF Y!UpdatePolicy, Y!page
<1>5. /\ Y!TypeOK /\ y_last \in Y!Policies /\ y_undone \subseteq Y!Fields /\ y_version \in Nat
      /\ y_call \in [Requests -> {Y!Idle} \cup Loaded \cup Written]
  BY DEF PolicyInv, Y!TypeOK
<1>6. r \in Written /\ r.step = "audit" /\ r.after = p /\ r.version = y_version + 1
  BY <1>1, <1>2, <1>5 DEF Written, Loaded
<1>7. /\ calls \in [Requests -> {Y!Idle} \cup Loaded \cup Written] /\ calls[c] = r
      /\ \A d \in Requests : d # c => calls[d] = y_call[d]
  BY <1>5, <1>6
<1> HIDE DEF r, calls
<1>8. /\ y_call' \in [Requests -> {Y!Idle} \cup Loaded \cup Written]
      /\ \A d \in Requests : /\ y_call'[d].step = calls[d].step
                             /\ y_call'[d].step = "update" =>
                                   /\ y_call'[d].stale = calls[d].stale \cup changed
                                   /\ y_call'[d].before = calls[d].before
                             /\ calls[d].step # "update" => y_call'[d] = calls[d]
  BY <1>4, <1>7, StaleMarked
<1>9. \A d \in Requests : y_call'[d].step \in {"idle", "update", "audit"}
  BY <1>8 DEF Loaded, Written, Y!Idle
<1>10. y_last' \in Y!Policies
  <2>1. PICK F \in SUBSET Y!Fields : k.body \in [F -> Values \cup {None}]
    BY <1>1 DEF Loaded, Bodies
  <2> QED BY <2>1, <1>4, <1>5 DEF Y!Policies
<1>11. Y!TypeOK'
  BY <1>1, <1>4, <1>5, <1>9, <1>10 DEF Y!TypeOK, Loaded
<1>12. k.step = "update" /\ \A f \in Y!Fields \ k.stale : k.before[f] = y_policy[f]
  BY <1>1 DEF PolicyInv, Loaded
<1>13. \A f \in Y!Fields : p[f] = IF f \in DOMAIN k.body THEN k.body[f] ELSE k.before[f]
  BY <1>2 DEF Y!Merged
<1>14. \A f \in Y!Fields \ changed : p[f] = y_policy[f]
  BY <1>3, <1>12, <1>13
<1>15. Y!KeysKeepLastValue'
  <2> SUFFICES ASSUME NEW f \in Y!Fields, f \notin y_undone' PROVE y_policy'[f] = y_last'[f]
    BY DEF Y!KeysKeepLastValue
  <2>1. CASE f \in DOMAIN k.body
    BY <1>4, <1>13, <2>1
  <2>2. CASE f \notin DOMAIN k.body
    <3>1. f \notin y_undone /\ f \notin k.stale
      BY <1>4, <2>2
    <3> QED BY <1>4, <1>12, <1>13, <2>2, <3>1 DEF PolicyInv, Y!KeysKeepLastValue
  <2> QED BY <2>1, <2>2
<1>16. \A d \in Requests :
         y_call'[d].step = "update" =>
            \A f \in Y!Fields \ y_call'[d].stale : y_call'[d].before[f] = y_policy'[f]
  <2> SUFFICES ASSUME NEW d \in Requests, y_call'[d].step = "update",
                      NEW f \in Y!Fields, f \notin y_call'[d].stale
               PROVE  y_call'[d].before[f] = y_policy'[f]
    OBVIOUS
  <2>1. d # c /\ calls[d] = y_call[d]
    BY <1>6, <1>7, <1>8
  <2>2. y_call[d].step = "update" /\ f \notin y_call[d].stale /\ f \notin changed
    BY <1>8, <2>1
  <2>3. y_call'[d].before[f] = y_policy[f]
    BY <1>8, <2>1, <2>2 DEF PolicyInv
  <2> QED BY <1>4, <1>14, <2>2, <2>3
<1>17. y_version' \in Nat /\ WritesLogged'
  <2>1. y_call'[c] = r
    BY <1>6, <1>7, <1>8
  <2>2. \A d \in Requests : y_call[d].step = "audit" => y_call'[d] = y_call[d]
    BY <1>1, <1>7, <1>8, <1>12
  <2> QED BY <1>4, <1>6, <2>1, <2>2, NextWrite
<1> QED BY <1>8, <1>11, <1>15, <1>16, <1>17 DEF PolicyInv

\* An operator sets the policy past the API.
LEMMA SqlKeepsPolicyInv ==
    ASSUME PolicyInv, NEW v \in Values, Y!SetBySql(v)
    PROVE  PolicyInv'
<1>1. PICK p : p = [y_policy EXCEPT !["chain"] = v]
  OBVIOUS
<1>2. /\ y_policy' = p /\ y_last' = [y_last EXCEPT !["chain"] = v]
      /\ y_undone' = y_undone \ {"chain"}
      /\ y_call' = Y!NowStale(y_call, {"chain"})
      /\ y_version' = y_version + 1 /\ y_unlogged' = y_unlogged \cup {y_version + 1}
      /\ UNCHANGED <<y_audited, y_data, y_draft, y_fetch>>
  BY <1>1 DEF Y!SetBySql, Y!page
<1>3. /\ Y!TypeOK /\ y_last \in Y!Policies /\ y_policy \in Y!Policies
      /\ y_undone \subseteq Y!Fields
      /\ y_call \in [Requests -> {Y!Idle} \cup Loaded \cup Written]
  BY DEF PolicyInv, Y!TypeOK
<1>4. p \in Y!Policies /\ y_last' \in Y!Policies
  BY <1>1, <1>2, <1>3 DEF Y!Policies
<1>5. \A f \in Y!Fields : f # "chain" => p[f] = y_policy[f] /\ y_last'[f] = y_last[f]
  BY <1>1, <1>2, <1>3 DEF Y!Policies
<1>6. p["chain"] = v /\ y_last'["chain"] = v
  BY <1>1, <1>2, <1>3 DEF Y!Policies, Y!Fields
<1>7. /\ y_call' \in [Requests -> {Y!Idle} \cup Loaded \cup Written]
      /\ \A d \in Requests : /\ y_call'[d].step = y_call[d].step
                             /\ y_call'[d].step = "update" =>
                                   /\ y_call'[d].stale = y_call[d].stale \cup {"chain"}
                                   /\ y_call'[d].before = y_call[d].before
                             /\ y_call[d].step # "update" => y_call'[d] = y_call[d]
  <2>1. PICK changed \in SUBSET Y!Fields : changed = {"chain"}
    BY DEF Y!Fields
  <2>2. PICK calls \in [Requests -> {Y!Idle} \cup Loaded \cup Written] : calls = y_call
    BY <1>3
  <2>3. y_call' = Y!NowStale(calls, changed)
    BY <1>2, <2>1, <2>2
  <2>4. /\ y_call' \in [Requests -> {Y!Idle} \cup Loaded \cup Written]
        /\ \A d \in Requests : /\ y_call'[d].step = calls[d].step
                               /\ y_call'[d].step = "update" =>
                                     /\ y_call'[d].stale = calls[d].stale \cup changed
                                     /\ y_call'[d].before = calls[d].before
                               /\ calls[d].step # "update" => y_call'[d] = calls[d]
    BY <2>3, StaleMarked
  <2> QED BY <2>1, <2>2, <2>4
<1>8. \A d \in Requests : y_call'[d].step \in {"idle", "update", "audit"}
  BY <1>7 DEF Loaded, Written, Y!Idle
<1>9. Y!TypeOK'
  BY <1>2, <1>3, <1>4, <1>8 DEF Y!TypeOK
<1>10. Y!KeysKeepLastValue'
  BY <1>2, <1>5, <1>6 DEF PolicyInv, Y!KeysKeepLastValue
<1>11. \A d \in Requests :
         y_call'[d].step = "update" =>
            \A f \in Y!Fields \ y_call'[d].stale : y_call'[d].before[f] = y_policy'[f]
  BY <1>2, <1>5, <1>7 DEF PolicyInv
<1>12. y_version' \in Nat /\ WritesLogged'
  BY <1>2, <1>7, NextWrite
<1> QED BY <1>7, <1>9, <1>10, <1>11, <1>12 DEF PolicyInv

\* A POST that ends, with its audit row or without.
LEMMA EndKeepsPolicyInv ==
    ASSUME PolicyInv, NEW c \in Requests, Y!AppendAudit(c) \/ Y!CallFails(c)
    PROVE  PolicyInv'
<1>1. /\ Y!TypeOK /\ y_policy \in Y!Policies
      /\ y_call \in [Requests -> {Y!Idle} \cup Loaded \cup Written]
  BY DEF PolicyInv, Y!TypeOK
<1>2. /\ y_call' = [y_call EXCEPT ![c] = Y!Idle]
      /\ UNCHANGED <<y_policy, y_last, y_undone, y_version, y_fetch>>
  BY DEF Y!AppendAudit, Y!CallFails, Y!page, Y!history
<1>3. /\ y_call' \in [Requests -> {Y!Idle} \cup Loaded \cup Written]
      /\ y_call'[c] = Y!Idle /\ \A d \in Requests : d # c => y_call'[d] = y_call[d]
  BY <1>1, <1>2
<1>4. Y!Idle.step = "idle" /\ \A d \in Requests : y_call'[d].step \in {"idle", "update", "audit"}
  BY <1>3 DEF Loaded, Written, Y!Idle
<1>5. /\ \A row \in y_audited' : row.after \in Y!Policies
      /\ y_data' \in Values \cup {None} /\ y_draft' \in Values /\ WritesLogged'
  <2>1. CASE Y!AppendAudit(c)
    <3>1. y_call[c].step = "audit" /\ y_call[c] \in Written /\ y_call[c].after \in Y!Policies
      BY <2>1, CallKinds DEF Y!AppendAudit, Written
    <3>2. PICK row : row = [version |-> y_call[c].version, after |-> y_call[c].after]
      OBVIOUS
    <3>3. y_audited' = y_audited \cup {row} /\ y_unlogged' = y_unlogged
      BY <2>1, <3>2 DEF Y!AppendAudit, Y!history
    <3>4. Y!Resolve(y_call[c].after) \in Values
      BY <3>1, ServicesConstants DEF Y!Resolve, Y!Policies, Y!Fields
    <3>5. y_data' \in Values \cup {None} /\ y_draft' \in Values
      BY <2>1, <3>4, <1>1 DEF Y!AppendAudit, Y!TypeOK
    <3>6. WritesLogged'
      <4> SUFFICES ASSUME NEW n \in (1..y_version) \ y_unlogged
                   PROVE  \/ \E w \in y_audited' : Records(w, n)
                          \/ \E d \in Requests : y_call'[d].step = "audit" /\ Records(y_call'[d], n)
        BY <1>2, <3>3 DEF WritesLogged, Records
      <4>1. CASE \E w \in y_audited : Records(w, n)
        BY <3>3, <4>1
      <4>2. CASE \E d \in Requests : y_call[d].step = "audit" /\ Records(y_call[d], n)
        <5>1. PICK d \in Requests : y_call[d].step = "audit" /\ Records(y_call[d], n)
          BY <4>2
        <5>2. CASE d = c
          <6>1. Records(row, n)
            BY <3>2, <5>1, <5>2 DEF Records
          <6> QED BY <3>3, <6>1
        <5>3. CASE d # c
          BY <1>3, <5>1, <5>3
        <5> QED BY <5>2, <5>3
      <4> QED BY <4>1, <4>2 DEF PolicyInv, WritesLogged
    <3> QED BY <1>1, <3>1, <3>2, <3>3, <3>5, <3>6 DEF Y!TypeOK
  <2>2. CASE Y!CallFails(c)
    <3>1. /\ y_unlogged' = IF y_call[c].step = "audit" THEN y_unlogged \cup {y_call[c].version}
                           ELSE y_unlogged
          /\ UNCHANGED <<y_audited, y_data, y_draft>>
      BY <2>2 DEF Y!CallFails, Y!page
    <3>2. WritesLogged'
      <4> SUFFICES ASSUME NEW n \in (1..y_version) \ y_unlogged'
                   PROVE  \/ \E w \in y_audited : Records(w, n)
                          \/ \E d \in Requests : y_call'[d].step = "audit" /\ Records(y_call'[d], n)
        BY <1>2, <3>1 DEF WritesLogged, Records
      <4>1. CASE \E w \in y_audited : Records(w, n)
        BY <4>1
      <4>2. CASE \E d \in Requests : y_call[d].step = "audit" /\ Records(y_call[d], n)
        <5>1. PICK d \in Requests : y_call[d].step = "audit" /\ Records(y_call[d], n)
          BY <4>2
        <5>2. d # c
          BY <3>1, <5>1 DEF Records
        <5> QED BY <1>3, <5>1, <5>2
      <4> QED BY <3>1, <4>1, <4>2 DEF PolicyInv, WritesLogged
    <3> QED BY <1>1, <3>1, <3>2 DEF Y!TypeOK
  <2> QED BY <2>1, <2>2
<1>6. Y!TypeOK'
  BY <1>1, <1>2, <1>4, <1>5 DEF Y!TypeOK
<1>7. Y!KeysKeepLastValue'
  BY <1>2 DEF PolicyInv, Y!KeysKeepLastValue
<1>8. \A d \in Requests :
        y_call'[d].step = "update" =>
           \A f \in Y!Fields \ y_call'[d].stale : y_call'[d].before[f] = y_policy'[f]
  BY <1>2, <1>3, <1>4 DEF PolicyInv
<1> QED BY <1>2, <1>3, <1>5, <1>6, <1>7, <1>8 DEF PolicyInv

\* No step of the policy breaks the invariant.
LEMMA PolicyStep ==
    ASSUME PolicyInv, Y!Next \/ UNCHANGED y_vars
    PROVE  PolicyInv'
<1>1. /\ Y!TypeOK /\ y_policy \in Y!Policies /\ y_draft \in Values
      /\ y_fetch \in Values \cup {"none", "asked"}
  BY DEF PolicyInv, Y!TypeOK
<1>2. ASSUME UNCHANGED <<y_policy, y_call, y_audited, y_last, y_undone, y_version, y_unlogged>>,
             y_data' \in Values \cup {None}, y_draft' \in Values,
             y_fetch' \in Values \cup {"none", "asked"}
      PROVE  PolicyInv'
  BY <1>2 DEF PolicyInv, Y!TypeOK, Y!KeysKeepLastValue, WritesLogged, Records
<1>3. CASE UNCHANGED y_vars
  BY <1>1, <1>2, <1>3 DEF y_vars, Y!TypeOK
<1>4. ASSUME NEW c \in Requests, Y!Submit(c) PROVE PolicyInv'
  <2>1. PICK body : body = [f \in {"providers"} |-> y_draft]
    OBVIOUS
  <2>2. body \in [{"providers"} -> Values \cup {None}] /\ {"providers"} \in SUBSET Y!Fields
    BY <1>1, <2>1 DEF Y!Fields
  <2>3. body \in Bodies
    BY <2>2 DEF Bodies
  <2>4. Y!LoadPolicy(c, body, "page") /\ UNCHANGED Y!page
    BY <1>4, <2>1 DEF Y!Submit
  <2> QED BY <2>3, <2>4, LoadKeepsPolicyInv
<1>5. ASSUME NEW c \in Requests, NEW f \in Y!Fields, NEW v \in Values \cup {None},
             Y!ApiCall(c, f, v)
      PROVE  PolicyInv'
  <2>1. PICK body : body = [g \in {f} |-> v]
    OBVIOUS
  <2>2. body \in [{f} -> Values \cup {None}] /\ {f} \in SUBSET Y!Fields
    BY <2>1
  <2>3. body \in Bodies
    BY <2>2 DEF Bodies
  <2>4. Y!LoadPolicy(c, body, "api") /\ UNCHANGED Y!page
    BY <1>5, <2>1 DEF Y!ApiCall
  <2> QED BY <2>3, <2>4, LoadKeepsPolicyInv
<1>6. CASE Y!Fetch \/ Y!GetPolicy \/ Y!FetchArrives \/ Y!FetchFails
  <2>1. Y!Resolve(y_policy) \in Values
    BY <1>1, ServicesConstants DEF Y!Resolve, Y!Policies, Y!Fields
  <2> QED BY <1>1, <1>2, <1>6, <2>1
             DEF Y!Fetch, Y!GetPolicy, Y!FetchArrives, Y!FetchFails, Y!TypeOK, Y!history
<1>7. ASSUME NEW v \in Values, Y!Edit(v) PROVE PolicyInv'
  BY <1>1, <1>2, <1>7 DEF Y!Edit, Y!TypeOK, Y!history
<1> QED
  BY <1>3, <1>4, <1>5, <1>6, <1>7, UpdateKeepsPolicyInv, EndKeepsPolicyInv,
     SqlKeepsPolicyInv DEF Y!Next

PolicyHeld == focus = "policy" => PolicyInv

\* A POST holds the values in force of the keys that are not stale, and every write of a
\* POST is on record or on its way (routes/console-security-policy.ts,
\* dashboard/src/routes/tenant/security-policy.tsx).
THEOREM PolicySound == Spec => []PolicyHeld
<1>1. Init => PolicyHeld
  BY PolicyInvInit DEF Init, ConsoleInit, PolicyHeld
<1>2. PolicyHeld /\ [Next]_vars => PolicyHeld'
  BY FocusKept, PolicySteps, PolicyStep DEF PolicyHeld
<1> QED BY <1>1, <1>2, PTL DEF Spec

\* The invariant contains the property of the runs.
LEMMA PolicyInvHolds == PolicyInv => Y!PolicyHolds
<1> SUFFICES ASSUME PolicyInv PROVE Y!PolicyHolds
  OBVIOUS
<1>1. Y!Idle.step = "idle"
  BY DEF Y!Idle
<1> QED BY <1>1 DEF PolicyInv, Y!PolicyHolds, Y!PolicyIsAudited, Y!Settled, WritesLogged, Records

-----------------------------------------------------------------------------
(* Webhooks *)

Switches == [id : Ids, enabled : BOOLEAN]
Asked == [at |-> "asked"]
Answers == [at : {"answered"}, list : SUBSET Switches]
Flips == [at : {"sent"}, id : Ids, prev : SUBSET Switches]

\* POSTs past the count.
Inserting(calls) == {c \in Requests : calls[c] = "insert"}

\* The rows are one to an id, and of no id that is gone.
RowsKept ==
    /\ w_rows \subseteq Switches /\ w_gone \subseteq Ids
    /\ \A r \in w_rows : r.id \notin w_gone /\ W!RowsOf(r.id) = {r}

\* Some row was deleted for the page, whose answer is on its way.
DeletedOwn == \E i \in Ids : w_removing[i] = "done"
Toggling == \E t \in Scopes : w_toggle[t] # W!Quiet

\* Unless the rows changed behind the page's back, an answer that is under way, and the
\* page's list once no query is, are the rows; or a toggle or a deletion of the page's
\* own, which ends in a new query, still is under way.
WebhookInv ==
    /\ W!TypeOK /\ IsFiniteSet(w_rows)
    /\ w_fetch \in {W!Quiet, Asked} \cup Answers
    /\ w_toggle \in [Scopes -> {W!Quiet} \cup Flips]
    /\ w_cache = None \/ w_cache \in SUBSET Switches
    /\ w_errored \in BOOLEAN /\ w_unseen \in BOOLEAN
    /\ ~w_unseen /\ w_fetch.at = "answered" => w_fetch.list = W!Listed \/ DeletedOwn
    /\ ~w_unseen /\ w_fetch = W!Quiet /\ ~w_errored /\ w_cache # None =>
          w_cache = W!Listed \/ DeletedOwn \/ Toggling
    /\ W!WebhooksNearCap

\* The instance counts with its own copy of the operator.
LEMMA WebhookCardinality == \A T : W!Cardinality(T) = Cardinality(T)
BY DEF W!Cardinality, Cardinality

\* The records a list query goes through are told apart by their first field.
LEMMA FetchKinds ==
    /\ W!Quiet.at = "none" /\ Asked.at = "asked" /\ \A r \in Answers : r.at = "answered"
    /\ \A r \in Flips : r.at = "sent"
BY DEF W!Quiet, Asked, Answers, Flips

\* The bound on the rows, without the module's own sum.
LEMMA NearCapMeans ==
    /\ W!WebhooksNearCap <=>
          Cardinality(w_rows) + Cardinality(Inserting(w_call)) <= WebhookCap - 1 + Cardinality(Requests)
    /\ W!WebhooksNearCap' <=>
          Cardinality(w_rows') + Cardinality(Inserting(w_call)')
             <= WebhookCap - 1 + Cardinality(Requests)
<1>1. /\ W!Cardinality(w_rows) = Cardinality(w_rows)
      /\ W!Cardinality({c \in Requests : w_call[c] = "insert"}) = Cardinality(Inserting(w_call))
      /\ W!Cardinality(Requests) = Cardinality(Requests)
  BY WebhookCardinality DEF Inserting
<1>2. /\ W!Cardinality(w_rows') = Cardinality(w_rows')
      /\ W!Cardinality({c \in Requests : w_call'[c] = "insert"}) = Cardinality(Inserting(w_call)')
  BY WebhookCardinality DEF Inserting
<1> QED BY <1>1, <1>2 DEF W!WebhooksNearCap

\* There are no webhooks at first, and none on the page.
LEMMA WebhookInvInit == W!Init => WebhookInv
<1> SUFFICES ASSUME W!Init PROVE WebhookInv
  OBVIOUS
<1>1. W!TypeOK
  BY FetchKinds DEF W!Init, W!TypeOK
<1>2. W!WebhooksNearCap
  <2>1. Inserting(w_call) = {} /\ w_rows = {}
    BY DEF W!Init, Inserting
  <2>2. Cardinality({}) = 0 /\ Cardinality(Requests) \in Nat
    BY FS_EmptySet, FS_CardinalityType, ServicesConstants
  <2> QED BY <2>1, <2>2, NearCapMeans, ServicesConstants
<1> QED BY <1>1, <1>2, FS_EmptySet, FetchKinds DEF WebhookInv, W!Init

\* Counting, inserting and giving up leave the rows and the POSTs past the count within
\* the cap and the number of POSTs.
LEMMA CountKeepsCap ==
    ASSUME WebhookInv, NEW c \in Requests, W!CountWebhooks(c)
    PROVE  W!WebhooksNearCap'
<1>1. w_rows' = w_rows /\ Cardinality(w_rows) < WebhookCap
  BY WebhookCardinality DEF W!CountWebhooks
<1>2. IsFiniteSet(w_rows) /\ Cardinality(w_rows) \in Nat
  BY FS_CardinalityType DEF WebhookInv
<1>3. Inserting(w_call') \subseteq Requests
  BY DEF Inserting
<1>4. /\ Cardinality(Inserting(w_call')) <= Cardinality(Requests)
      /\ Cardinality(Inserting(w_call')) \in Nat /\ Cardinality(Requests) \in Nat
  BY <1>3, FS_Subset, FS_CardinalityType, ServicesConstants
<1>5. Inserting(w_call') = Inserting(w_call)'
  BY DEF Inserting
<1> QED BY <1>1, <1>2, <1>4, <1>5, NearCapMeans, ServicesConstants

\* An insert turns one counted request into one row.
LEMMA InsertKeepsCap ==
    ASSUME WebhookInv, NEW c \in Requests, NEW i \in Ids, W!InsertWebhook(c, i)
    PROVE  W!WebhooksNearCap'
<1> PICK on \in BOOLEAN : w_rows' = w_rows \cup {[id |-> i, enabled |-> on]}
  BY DEF W!InsertWebhook
<1> DEFINE new == [id |-> i, enabled |-> on]
<1>1. /\ w_call[c] = "insert" /\ new \notin w_rows /\ w_rows' = w_rows \cup {new}
      /\ w_call' = [w_call EXCEPT ![c] = "idle"]
  BY DEF W!InsertWebhook, W!RowsOf
<1>2. IsFiniteSet(w_rows) /\ Cardinality(w_rows) \in Nat
  BY FS_CardinalityType DEF WebhookInv
<1>3. Cardinality(w_rows') = Cardinality(w_rows) + 1
  BY <1>1, <1>2, FS_AddElement
<1>4. /\ c \in Inserting(w_call) /\ Inserting(w_call)' = Inserting(w_call) \ {c}
      /\ Inserting(w_call) \subseteq Requests
  BY <1>1 DEF WebhookInv, W!TypeOK, Inserting
<1>5. IsFiniteSet(Inserting(w_call)) /\ Cardinality(Inserting(w_call)) \in Nat
  BY <1>4, FS_Subset, FS_CardinalityType, ServicesConstants
<1>6. Cardinality(Inserting(w_call)') = Cardinality(Inserting(w_call)) - 1
  BY <1>4, <1>5, FS_RemoveElement
<1>7. Cardinality(Inserting(w_call)') \in Nat
  BY <1>4, <1>5, FS_RemoveElement, FS_CardinalityType
<1> QED BY <1>2, <1>3, <1>5, <1>6, <1>7, NearCapMeans DEF WebhookInv

\* Rows and POSTs past the count only get fewer.
LEMMA FewerKeepsCap ==
    ASSUME WebhookInv, w_rows' \subseteq w_rows, Inserting(w_call)' \subseteq Inserting(w_call)
    PROVE  W!WebhooksNearCap'
<1>1. IsFiniteSet(w_rows) /\ Inserting(w_call) \subseteq Requests
  BY DEF WebhookInv, Inserting
<1>2. IsFiniteSet(Inserting(w_call)) /\ Cardinality(Requests) \in Nat
  BY <1>1, FS_Subset, FS_CardinalityType, ServicesConstants
<1>3. /\ Cardinality(w_rows') <= Cardinality(w_rows) /\ Cardinality(w_rows') \in Nat
      /\ Cardinality(w_rows) \in Nat
  BY <1>1, FS_Subset, FS_CardinalityType
<1>4. /\ Cardinality(Inserting(w_call)') <= Cardinality(Inserting(w_call))
      /\ Cardinality(Inserting(w_call)') \in Nat /\ Cardinality(Inserting(w_call)) \in Nat
  BY <1>2, FS_Subset, FS_CardinalityType
<1> QED BY <1>2, <1>3, <1>4, NearCapMeans, ServicesConstants DEF WebhookInv

\* The server's steps for other clients change the rows behind the page's back, or not
\* at all.
LEMMA ServerKeepsWebhookInv ==
    ASSUME WebhookInv, UNCHANGED W!page, w_call' \in [Requests -> {"idle", "insert"}],
           RowsKept', IsFiniteSet(w_rows'), w_unseen' = TRUE \/ UNCHANGED <<w_rows, w_unseen>>, W!WebhooksNearCap'
    PROVE  WebhookInv'
<1>1. UNCHANGED <<w_cache, w_fetch, w_errored, w_toggle, w_removing>>
  BY DEF W!page
<1>2. W!TypeOK'
  BY <1>1 DEF WebhookInv, W!TypeOK, RowsKept, Switches
<1>3. w_unseen' \in BOOLEAN
  BY DEF WebhookInv
<1>4. CASE w_unseen' = TRUE
  BY <1>1, <1>2, <1>3, <1>4 DEF WebhookInv
<1>5. CASE UNCHANGED <<w_rows, w_unseen>>
  BY <1>1, <1>2, <1>5 DEF WebhookInv, W!Listed, DeletedOwn, Toggling
<1> QED BY <1>4, <1>5

\* The rows as the page would show them.
LEMMA ListedType == ASSUME WebhookInv PROVE W!Listed \in SUBSET Switches
BY DEF WebhookInv, W!TypeOK, W!Listed, Switches

\* The page lists its webhooks again.
LEMMA QueryKeepsWebhookInv ==
    ASSUME WebhookInv, W!Refetch \/ W!ListWebhooks \/ W!ListArrives \/ W!ListFails
    PROVE  WebhookInv'
<1>1. UNCHANGED <<w_rows, w_gone, w_call, w_toggle, w_removing>>
  BY DEF W!Refetch, W!ListWebhooks, W!ListArrives, W!ListFails
<1>2. W!WebhooksNearCap' /\ W!Listed' = W!Listed /\ DeletedOwn' = DeletedOwn /\ Toggling' = Toggling
  BY <1>1 DEF WebhookInv, W!WebhooksNearCap, W!Listed, DeletedOwn, Toggling
<1>3. CASE W!Refetch
  <2>1. w_fetch' = Asked /\ UNCHANGED <<w_cache, w_errored, w_unseen>>
    BY <1>3 DEF W!Refetch, Asked
  <2>2. Asked # W!Quiet /\ Asked.at = "asked"
    BY FetchKinds
  <2>3. W!TypeOK'
    BY <1>1, <2>1, <2>2 DEF WebhookInv, W!TypeOK, W!RowsOf
  <2> QED BY <1>1, <1>2, <2>1, <2>2, <2>3 DEF WebhookInv
<1>4. CASE W!ListWebhooks
  <2>1. PICK r : r = [at |-> "answered", list |-> W!Listed]
    OBVIOUS
  <2>2. r \in Answers /\ r.at = "answered" /\ r.list = W!Listed /\ r # W!Quiet
    BY <2>1, ListedType, FetchKinds DEF Answers
  <2>3. w_fetch' = r /\ w_unseen' = FALSE /\ UNCHANGED <<w_cache, w_errored>>
    BY <1>4, <2>1 DEF W!ListWebhooks
  <2>4. W!TypeOK'
    BY <1>1, <2>2, <2>3 DEF WebhookInv, W!TypeOK, W!RowsOf
  <2> QED BY <1>1, <1>2, <2>2, <2>3, <2>4 DEF WebhookInv
<1>5. CASE W!ListArrives
  <2>1. w_fetch \in Answers /\ w_fetch.at = "answered"
    BY <1>5, FetchKinds DEF WebhookInv, W!ListArrives
  <2>2. w_fetch.list \in SUBSET Switches
    BY <2>1 DEF Answers
  <2>3. w_cache' = w_fetch.list /\ w_fetch' = W!Quiet /\ w_errored' = FALSE /\ w_unseen' = w_unseen
    BY <1>5 DEF W!ListArrives
  <2>4. W!TypeOK'
    BY <1>1, <2>2, <2>3, FetchKinds DEF WebhookInv, W!TypeOK, W!RowsOf, Switches
  <2> QED BY <1>1, <1>2, <2>1, <2>2, <2>3, <2>4, FetchKinds DEF WebhookInv
<1>6. CASE W!ListFails
  <2>1. w_fetch' = W!Quiet /\ w_errored' = TRUE /\ UNCHANGED <<w_cache, w_unseen>>
    BY <1>6 DEF W!ListFails
  <2>2. W!TypeOK'
    BY <1>1, <2>1, FetchKinds DEF WebhookInv, W!TypeOK, W!RowsOf
  <2> QED BY <1>1, <1>2, <2>1, <2>2, FetchKinds DEF WebhookInv
<1> QED BY <1>3, <1>4, <1>5, <1>6

\* The page switches a webhook on or off.
LEMMA ToggleKeepsWebhookInv ==
    ASSUME WebhookInv, NEW t \in Scopes,
           W!ToggleFails(t) \/ \E i \in Ids : W!ToggleStarts(t, i)
    PROVE  WebhookInv'
<1>1. UNCHANGED <<w_rows, w_gone, w_call, w_removing, w_unseen>>
  BY DEF W!ToggleFails, W!ToggleStarts
<1>2. W!WebhooksNearCap' /\ W!Listed' = W!Listed /\ DeletedOwn' = DeletedOwn
  BY <1>1 DEF WebhookInv, W!WebhooksNearCap, W!Listed, DeletedOwn
<1>3. CASE W!ToggleFails(t)
  <2>1. w_toggle[t].at = "sent" /\ w_toggle[t] \in {W!Quiet} \cup Flips
    BY <1>3 DEF WebhookInv, W!ToggleFails
  <2>2. w_toggle[t].prev \in SUBSET Switches
    BY <2>1, FetchKinds DEF Flips
  <2>3. /\ w_cache' = w_toggle[t].prev /\ w_errored' = FALSE /\ w_fetch' = Asked
        /\ w_toggle' = [w_toggle EXCEPT ![t] = W!Quiet]
    BY <1>3 DEF W!ToggleFails, W!Invalidated, Asked
  <2>4. w_toggle' \in [Scopes -> {W!Quiet} \cup Flips]
    BY <2>3 DEF WebhookInv
  <2>5. W!TypeOK'
    BY <1>1, <2>2, <2>3, FetchKinds DEF WebhookInv, W!TypeOK, W!RowsOf, Switches
  <2>6. Asked # W!Quiet /\ Asked.at # "answered"
    BY FetchKinds
  <2> QED BY <1>1, <1>2, <2>2, <2>3, <2>4, <2>5, <2>6 DEF WebhookInv
<1>4. ASSUME NEW i \in Ids, W!ToggleStarts(t, i) PROVE WebhookInv'
  <2>1. PICK r : r = [at |-> "sent", id |-> i, prev |-> w_cache]
    OBVIOUS
  <2>2. w_cache \in SUBSET Switches
    BY <1>4 DEF WebhookInv, W!ToggleStarts
  <2>3. r \in Flips /\ r # W!Quiet
    BY <2>1, <2>2, FetchKinds DEF Flips
  <2>4. /\ w_fetch' = W!Quiet /\ w_toggle' = [w_toggle EXCEPT ![t] = r] /\ w_errored' = FALSE
        /\ w_cache' = {IF x.id = i THEN [x EXCEPT !.enabled = ~@] ELSE x : x \in w_cache}
    BY <1>4, <2>1 DEF W!ToggleStarts
  <2>5. w_toggle' \in [Scopes -> {W!Quiet} \cup Flips] /\ Toggling'
    BY <2>3, <2>4 DEF WebhookInv, Toggling
  <2>6. ASSUME NEW x \in w_cache
        PROVE  (IF x.id = i THEN [x EXCEPT !.enabled = ~@] ELSE x) \in Switches
    BY <2>2 DEF Switches
  <2>7. w_cache' \in SUBSET Switches
    BY <2>4, <2>6
  <2>8. W!TypeOK'
    BY <1>1, <2>4, <2>7, FetchKinds DEF WebhookInv, W!TypeOK, W!RowsOf, Switches
  <2> QED BY <1>1, <1>2, <2>4, <2>5, <2>7, <2>8, FetchKinds DEF WebhookInv
<1> QED BY <1>3, <1>4

\* A deletion takes every row of its id, and no other.
LEMMA DeletionKeepsRows ==
    ASSUME WebhookInv, NEW i \in Ids, w_rows' = w_rows \ W!RowsOf(i), w_gone' = w_gone \cup {i}
    PROVE  RowsKept'
<1>1. RowsKept
  BY DEF WebhookInv, W!TypeOK, RowsKept, Switches
<1> QED BY <1>1 DEF RowsKept, W!RowsOf

\* The page removes a webhook, or finds it gone.
LEMMA RemovalKeepsWebhookInv ==
    ASSUME WebhookInv, NEW i \in Ids,
           W!RemoveStarts(i) \/ W!DeletesOwn(i) \/ W!RemoveOk(i) \/ W!RemoveFails(i)
    PROVE  WebhookInv'
<1>1. UNCHANGED <<w_call, w_cache, w_errored, w_toggle>> /\ Toggling' = Toggling
  BY DEF W!RemoveStarts, W!DeletesOwn, W!RemoveOk, W!RemoveFails, Toggling
<1>2. w_rows' \subseteq w_rows
  BY DEF W!RemoveStarts, W!DeletesOwn, W!RemoveOk, W!RemoveFails
<1>3. W!WebhooksNearCap' /\ IsFiniteSet(w_rows')
  BY <1>1, <1>2, FewerKeepsCap, FS_Subset DEF Inserting, WebhookInv
<1>4. w_removing \in [Ids -> {"no", "sent", "done"}]
  BY DEF WebhookInv, W!TypeOK
<1>5. CASE W!RemoveStarts(i)
  <2>1. /\ w_removing[i] = "no" /\ w_removing' = [w_removing EXCEPT ![i] = "sent"]
        /\ UNCHANGED <<w_rows, w_gone, w_fetch, w_unseen>>
    BY <1>5 DEF W!RemoveStarts
  <2>2. W!TypeOK'
    BY <1>1, <1>4, <2>1 DEF WebhookInv, W!TypeOK, W!RowsOf
  <2>3. W!Listed' = W!Listed /\ DeletedOwn' = DeletedOwn
    BY <1>4, <2>1 DEF W!Listed, DeletedOwn
  <2> QED BY <1>1, <1>3, <2>1, <2>2, <2>3 DEF WebhookInv
<1>6. CASE W!DeletesOwn(i)
  <2>1. /\ w_rows' = w_rows \ W!RowsOf(i) /\ w_gone' = w_gone \cup {i}
        /\ w_removing' = [w_removing EXCEPT ![i] = "done"] /\ UNCHANGED <<w_fetch, w_unseen>>
    BY <1>6 DEF W!DeletesOwn
  <2>2. W!TypeOK'
    BY <1>1, <1>4, <2>1, DeletionKeepsRows DEF WebhookInv, W!TypeOK, RowsKept, Switches
  <2>3. DeletedOwn'
    BY <1>4, <2>1 DEF DeletedOwn
  <2> QED BY <1>1, <1>3, <2>1, <2>2, <2>3 DEF WebhookInv
<1>7. CASE W!RemoveOk(i)
  <2>1. /\ w_removing' = [w_removing EXCEPT ![i] = "no"] /\ w_fetch' = Asked
        /\ UNCHANGED <<w_rows, w_gone, w_unseen>>
    BY <1>7 DEF W!RemoveOk, W!Invalidated, Asked
  <2>2. Asked # W!Quiet /\ Asked.at = "asked"
    BY FetchKinds
  <2>3. W!TypeOK'
    BY <1>1, <1>4, <2>1, <2>2 DEF WebhookInv, W!TypeOK, W!RowsOf
  <2> QED BY <1>1, <1>3, <2>1, <2>2, <2>3 DEF WebhookInv
<1>8. CASE W!RemoveFails(i)
  <2>1. /\ w_removing' = [w_removing EXCEPT ![i] = "no"]
        /\ w_unseen' = (w_unseen \/ w_removing[i] = "done")
        /\ UNCHANGED <<w_rows, w_gone, w_fetch>>
    BY <1>8 DEF W!RemoveFails
  <2>2. W!TypeOK'
    BY <1>1, <1>4, <2>1 DEF WebhookInv, W!TypeOK, W!RowsOf
  <2>3. W!Listed' = W!Listed
    BY <2>1 DEF W!Listed
  <2>4. ~w_unseen' => ~w_unseen /\ DeletedOwn' = DeletedOwn
    BY <1>4, <2>1 DEF DeletedOwn, WebhookInv
  <2>5. w_unseen' \in BOOLEAN
    BY <2>1 DEF WebhookInv
  <2> QED BY <1>1, <1>3, <2>1, <2>2, <2>3, <2>4, <2>5 DEF WebhookInv
<1> QED BY <1>5, <1>6, <1>7, <1>8

\* No step of the webhooks breaks the invariant.
LEMMA WebhookStep ==
    ASSUME WebhookInv, W!Next \/ UNCHANGED w_vars
    PROVE  WebhookInv'
<1>1. /\ W!TypeOK /\ w_call \in [Requests -> {"idle", "insert"}] /\ RowsKept
      /\ IsFiniteSet(w_rows)
  BY DEF WebhookInv, W!TypeOK, RowsKept, Switches
<1>2. CASE UNCHANGED w_vars
  BY <1>2, <1>1 DEF w_vars, WebhookInv, W!TypeOK, W!Listed, W!RowsOf, DeletedOwn, Toggling,
                    W!WebhooksNearCap
<1>3. ASSUME NEW c \in Requests, W!CountWebhooks(c) PROVE WebhookInv'
  <2>1. /\ w_call' = [w_call EXCEPT ![c] = "insert"]
        /\ UNCHANGED <<w_rows, w_gone, W!page, w_unseen>>
    BY <1>3 DEF W!CountWebhooks
  <2>2. RowsKept'
    BY <1>1, <2>1 DEF RowsKept, W!RowsOf
  <2> QED BY <1>1, <1>3, <2>1, <2>2, CountKeepsCap, ServerKeepsWebhookInv
<1>4. ASSUME NEW c \in Requests, W!CallFails(c) PROVE WebhookInv'
  <2>1. /\ w_call' = [w_call EXCEPT ![c] = "idle"]
        /\ UNCHANGED <<w_rows, w_gone, W!page, w_unseen>>
    BY <1>4 DEF W!CallFails
  <2>2. Inserting(w_call)' \subseteq Inserting(w_call)
    BY <1>1, <2>1 DEF Inserting
  <2>3. RowsKept'
    BY <1>1, <2>1 DEF RowsKept, W!RowsOf
  <2> QED BY <1>1, <2>1, <2>2, <2>3, FewerKeepsCap, ServerKeepsWebhookInv
<1>5. ASSUME NEW c \in Requests, NEW i \in Ids, W!InsertWebhook(c, i) PROVE WebhookInv'
  <2> PICK on \in BOOLEAN : w_rows' = w_rows \cup {[id |-> i, enabled |-> on]}
    BY <1>5 DEF W!InsertWebhook
  <2>1. /\ w_call' = [w_call EXCEPT ![c] = "idle"] /\ W!RowsOf(i) = {} /\ i \notin w_gone
        /\ w_unseen' = TRUE /\ UNCHANGED <<w_gone, W!page>>
    BY <1>5 DEF W!InsertWebhook
  <2>2. RowsKept'
    BY <1>1, <2>1 DEF RowsKept, W!RowsOf, Switches
  <2>3. IsFiniteSet(w_rows') /\ w_call' \in [Requests -> {"idle", "insert"}]
    BY <1>1, <2>1, FS_AddElement
  <2> QED BY <1>5, <2>1, <2>2, <2>3, InsertKeepsCap, ServerKeepsWebhookInv
<1>6. ASSUME NEW i \in Ids, W!DeleteWebhook(i) PROVE WebhookInv'
  <2>1. /\ w_rows' = w_rows \ W!RowsOf(i) /\ w_gone' = w_gone \cup {i} /\ w_unseen' = TRUE
        /\ UNCHANGED <<w_call, W!page>>
    BY <1>6 DEF W!DeleteWebhook
  <2>2. Inserting(w_call)' = Inserting(w_call) /\ IsFiniteSet(w_rows')
    BY <1>1, <2>1, FS_Subset DEF Inserting
  <2> QED BY <1>1, <2>1, <2>2, FewerKeepsCap, DeletionKeepsRows, ServerKeepsWebhookInv
<1> QED BY <1>2, <1>3, <1>4, <1>5, <1>6, QueryKeepsWebhookInv, ToggleKeepsWebhookInv,
           RemovalKeepsWebhookInv DEF W!Next

WebhooksHeld == focus = "webhooks" => WebhookInv

\* Whatever POSTs, deletions, toggles and list queries cross, a page at rest shows the
\* rows, and concurrent POSTs pass the cap by no more than their number.
THEOREM WebhooksSound == Spec => []WebhooksHeld
<1>1. Init => WebhooksHeld
  BY WebhookInvInit DEF Init, ConsoleInit, WebhooksHeld
<1>2. WebhooksHeld /\ [Next]_vars => WebhooksHeld'
  BY FocusKept, WebhookSteps, WebhookStep DEF WebhooksHeld
<1> QED BY <1>1, <1>2, PTL DEF Spec

\* The invariant contains the property of the runs.
LEMMA WebhookInvHolds == WebhookInv => W!WebhooksHold
BY DEF WebhookInv, W!WebhooksHold, W!PageSettles, W!AtRest, DeletedOwn, Toggling

\* A policy's keys keep the value they were last given unless a POST puts back what it
\* had read, each write of a POST is on record, the latest with the policy in force, and
\* the webhook page settles on the table within the cap
\* (console-security-policy.ts, console-webhooks.ts, webhooks.tsx).
THEOREM SettingsKept == Spec => []SettingsHold
<1>1. PolicyHeld /\ WebhooksHeld => SettingsHold
  BY PolicyInvHolds, WebhookInvHolds DEF PolicyHeld, WebhooksHeld, SettingsHold
<1> QED BY <1>1, PolicySound, WebhooksSound, PTL

-----------------------------------------------------------------------------
(* Metering *)

Routes == {"verify", "other"}
Waiting == [step : {"quota", "limit", "handler"}, route : Routes]
Upserting == [step : {"upsert"}, route : Routes, window : M!Windows]
Writing == [step : {"writing"}, route : Routes, todo : SUBSET {"log", "month"}]
MeterCalls == {M!Idle} \cup Waiting \cup Upserting \cup Writing

\* Let through by the quota and not in the month's count; answered and not in a count.
IsPending(k) ==
    \/ k.step \in {"limit", "upsert", "handler"}
    \/ k.step = "writing" /\ "month" \in k.todo
Owes(k, what) == k.step = "writing" /\ what \in k.todo
Bit(b) == IF b THEN 1 ELSE 0
Pending == {c \in Requests : IsPending(m_call[c])}
Owing(what) == {c \in Requests : Owes(m_call[c], what)}

MeterTypes ==
    /\ m_call \in [Requests -> MeterCalls]
    /\ m_used \in Nat /\ m_earlier \in Nat /\ m_logs \in Nat /\ m_answered \in Nat
    /\ m_peak \in Nat /\ m_admitted \in Nat
    /\ m_turns \in 0..MaxTurns /\ m_window \in 1..(m_turns + 1)
    /\ m_buckets \in [M!Windows -> Nat]

\* The peak bounds the calls let through and not counted, in every month.
QuotaInv ==
    /\ Cardinality(Pending) <= m_peak
    /\ m_peak > 0 => Quota > 0 /\ m_used + Cardinality(Pending) <= Quota - 1 + m_peak

\* What passed the shared window is in the bucket of that window.
WindowInv == m_admitted <= WindowMax /\ m_admitted <= m_buckets[m_window]

\* Counts, with the statements still to run, are answers.
CountInv ==
    /\ m_logs + Cardinality(Owing("log")) <= m_answered
    /\ m_earlier + m_used + Cardinality(Owing("month")) <= m_answered

MeterInv == MeterTypes /\ QuotaInv /\ WindowInv /\ CountInv

\* The module's Cardinality is the library's.
LEMMA MeterCardinality == \A T : M!Cardinality(T) = Cardinality(T)
BY DEF M!Cardinality, Cardinality

\* The requests answered and not yet counted, as a set.
LEMMA UncountedMeans ==
    /\ M!Uncounted(m_call) = Cardinality(Pending)
    /\ M!Uncounted(m_call') = Cardinality(Pending')
BY MeterCardinality DEF M!Uncounted, Pending, IsPending

\* Which records a call may be, and what they count for.
LEMMA MeterKinds ==
    /\ M!Idle.step = "idle" /\ ~IsPending(M!Idle) /\ \A w : ~Owes(M!Idle, w)
    /\ \A k \in Waiting : /\ k.step \in {"quota", "limit", "handler"} /\ k.route \in Routes
                          /\ IsPending(k) <=> k.step # "quota"
                          /\ \A w : ~Owes(k, w)
    /\ \A k \in Upserting : /\ k.step = "upsert" /\ k.window \in M!Windows
                            /\ IsPending(k) /\ \A w : ~Owes(k, w)
    /\ \A k \in Writing : /\ k.step = "writing" /\ k.todo \in SUBSET {"log", "month"}
                          /\ IsPending(k) <=> "month" \in k.todo
                          /\ \A w : Owes(k, w) <=> w \in k.todo
BY DEF M!Idle, Waiting, Upserting, Writing, IsPending, Owes

\* A set of calls that changes at one call only.
LEMMA CountMoves ==
    ASSUME NEW V \in SUBSET Requests, NEW T \in SUBSET Requests, NEW c \in Requests,
           \A d \in Requests : d # c => (d \in V <=> d \in T)
    PROVE  /\ Cardinality(V) \in Nat /\ Cardinality(T) \in Nat
           /\ Cardinality(T) = Cardinality(V) - Bit(c \in V) + Bit(c \in T)
<1>1. IsFiniteSet(V) /\ IsFiniteSet(T)
  BY FS_Subset, ServicesConstants
<1>2. Cardinality(V) \in Nat /\ Cardinality(T) \in Nat
  BY <1>1, FS_CardinalityType
<1>3. CASE (c \in V) = (c \in T)
  <2>1. V = T
    BY <1>3
  <2> QED BY <2>1, <1>2 DEF Bit
<1>4. CASE c \in V /\ c \notin T
  <2>1. T = V \ {c}
    BY <1>4
  <2> QED BY <2>1, <1>1, <1>2, <1>4, FS_RemoveElement DEF Bit
<1>5. CASE c \notin V /\ c \in T
  <2>1. T = V \cup {c}
    BY <1>5
  <2> QED BY <2>1, <1>1, <1>2, <1>5, FS_AddElement DEF Bit
<1> QED BY <1>3, <1>4, <1>5

\* What a step from record k to record r does to the counts.
Counted(k, r) ==
    /\ Cardinality(Pending) \in Nat /\ Cardinality(Pending') \in Nat
    /\ Cardinality(Pending') = Cardinality(Pending) - Bit(IsPending(k)) + Bit(IsPending(r))
    /\ \A w \in {"log", "month"} :
          /\ Cardinality(Owing(w)) \in Nat /\ Cardinality(Owing(w)') \in Nat
          /\ Cardinality(Owing(w)') = Cardinality(Owing(w)) - Bit(Owes(k, w)) + Bit(Owes(r, w))

\* What a call's move does to the requests not yet counted.
LEMMA CallMoves ==
    ASSUME m_call \in [Requests -> MeterCalls], NEW c \in Requests, NEW r \in MeterCalls,
           m_call' = [m_call EXCEPT ![c] = r]
    PROVE  m_call' \in [Requests -> MeterCalls] /\ Counted(m_call[c], r)
<1>1. /\ m_call' \in [Requests -> MeterCalls] /\ m_call'[c] = r
      /\ \A d \in Requests : d # c => m_call'[d] = m_call[d]
  OBVIOUS
<1>2. /\ Pending \in SUBSET Requests /\ Pending' \in SUBSET Requests
      /\ \A d \in Requests : d # c => (d \in Pending <=> d \in Pending')
      /\ c \in Pending <=> IsPending(m_call[c])
      /\ c \in Pending' <=> IsPending(r)
  BY <1>1 DEF Pending
<1>3. ASSUME NEW w \in {"log", "month"}
      PROVE  /\ Owing(w) \in SUBSET Requests /\ Owing(w)' \in SUBSET Requests
             /\ \A d \in Requests : d # c => (d \in Owing(w) <=> d \in Owing(w)')
             /\ c \in Owing(w) <=> Owes(m_call[c], w)
             /\ c \in Owing(w)' <=> Owes(r, w)
  BY <1>1 DEF Owing
<1>4. /\ Cardinality(Pending) \in Nat /\ Cardinality(Pending') \in Nat
      /\ Cardinality(Pending') = Cardinality(Pending) - Bit(c \in Pending) + Bit(c \in Pending')
  BY <1>2, CountMoves
<1>5. ASSUME NEW w \in {"log", "month"}
      PROVE  /\ Cardinality(Owing(w)) \in Nat /\ Cardinality(Owing(w)') \in Nat
             /\ Cardinality(Owing(w)')
                  = Cardinality(Owing(w)) - Bit(c \in Owing(w)) + Bit(c \in Owing(w)')
  BY <1>3, CountMoves
<1>6. /\ Bit(c \in Pending) = Bit(IsPending(m_call[c]))
      /\ Bit(c \in Pending') = Bit(IsPending(r))
      /\ \A w \in {"log", "month"} : /\ Bit(c \in Owing(w)) = Bit(Owes(m_call[c], w))
                                     /\ Bit(c \in Owing(w)') = Bit(Owes(r, w))
  BY <1>2, <1>3 DEF Bit
<1> QED BY <1>1, <1>4, <1>5, <1>6 DEF Counted

\* Nothing is counted at first.
LEMMA MeterInvInit == M!Init => MeterInv
<1> SUFFICES ASSUME M!Init PROVE MeterInv
  OBVIOUS
<1>1. m_call = [c \in Requests |-> M!Idle] /\ M!Idle \in MeterCalls
  BY DEF M!Init, MeterCalls
<1>2. 1 \in M!Windows /\ m_buckets[1] = 0
  BY ServicesConstants DEF M!Init, M!Windows
<1>3. MeterTypes
  BY <1>1, ServicesConstants DEF M!Init, MeterTypes
<1>4. Pending = {} /\ Owing("log") = {} /\ Owing("month") = {}
  BY <1>1, MeterKinds DEF Pending, Owing
<1>5. Cardinality({}) = 0
  BY FS_EmptySet
<1> QED
  BY <1>2, <1>3, <1>4, <1>5, ServicesConstants DEF M!Init, MeterInv, QuotaInv, WindowInv, CountInv

\* A call that moves on without being let through, counted or answered: what it counts
\* for can only end.
LEMMA MoveKeepsMeterInv ==
    ASSUME MeterInv, NEW c \in Requests, NEW r \in MeterCalls,
           m_call' = [m_call EXCEPT ![c] = r],
           IsPending(r) => IsPending(m_call[c]),
           \A w \in {"log", "month"} : Owes(r, w) => Owes(m_call[c], w),
           UNCHANGED <<m_used, m_earlier, m_logs, m_answered, m_turns, m_window, m_peak>>,
           UNCHANGED <<m_buckets, m_admitted>>
    PROVE  MeterInv'
<1>1. m_call' \in [Requests -> MeterCalls] /\ Counted(m_call[c], r)
  BY CallMoves DEF MeterInv, MeterTypes
<1>2. Cardinality(Pending') <= Cardinality(Pending)
  BY <1>1 DEF Bit, Counted
<1>3. \A w \in {"log", "month"} : Cardinality(Owing(w)') <= Cardinality(Owing(w))
  BY <1>1 DEF Bit, Counted
<1>4. MeterTypes'
  BY <1>1 DEF MeterInv, MeterTypes
<1>5. QuotaInv'
  BY <1>1, <1>2, <1>4, ServicesConstants DEF Counted, MeterInv, MeterTypes, QuotaInv
<1>6. CountInv'
  <2>1. /\ Cardinality(Owing("log")') <= Cardinality(Owing("log"))
        /\ Cardinality(Owing("month")') <= Cardinality(Owing("month"))
        /\ Cardinality(Owing("log")) \in Nat /\ Cardinality(Owing("log")') \in Nat
        /\ Cardinality(Owing("month")) \in Nat /\ Cardinality(Owing("month")') \in Nat
    BY <1>1, <1>3 DEF Counted
  <2> QED BY <2>1 DEF MeterInv, MeterTypes, CountInv
<1> QED BY <1>4, <1>5, <1>6 DEF MeterInv, WindowInv

\* The quota is checked against a month that other requests still move.
LEMMA QuotaKeepsMeterInv ==
    ASSUME MeterInv, NEW c \in Requests, M!checkQuota(c)
    PROVE  MeterInv'
<1>1. /\ m_call[c].step = "quota" /\ m_call[c] \in Waiting /\ ~IsPending(m_call[c])
      /\ \A w : ~Owes(m_call[c], w)
  BY MeterKinds DEF M!checkQuota, MeterInv, MeterTypes, MeterCalls
<1>2. UNCHANGED <<m_used, m_earlier, m_logs, m_answered, m_turns, m_window, m_buckets, m_admitted>>
  BY DEF M!checkQuota, M!meters, M!clock
<1>3. PICK n : n = Cardinality(Pending')
  OBVIOUS
<1>4. m_peak' = IF n > m_peak THEN n ELSE m_peak
  BY <1>3, UncountedMeans DEF M!checkQuota
<1>5. CASE ~M!Admits(m_used)
  <2>1. m_call' = [m_call EXCEPT ![c] = M!Idle]
    BY <1>5 DEF M!checkQuota, M!Became
  <2>2. M!Idle \in MeterCalls
    BY DEF MeterCalls
  <2>3. Counted(m_call[c], M!Idle)
    BY <2>1, <2>2, CallMoves DEF MeterInv, MeterTypes
  <2>4. Cardinality(Pending') = Cardinality(Pending) /\ Cardinality(Pending) \in Nat
    BY <1>1, <2>3, MeterKinds DEF Bit, Counted
  <2>5. m_peak' = m_peak
    BY <1>3, <1>4, <2>4 DEF MeterInv, QuotaInv, MeterTypes
  <2> QED BY <1>1, <1>2, <2>1, <2>2, <2>5, MoveKeepsMeterInv, MeterKinds
<1>6. CASE M!Admits(m_used)
  <2> DEFINE r == [m_call[c] EXCEPT !.step = IF m_call[c].route = "verify" THEN "limit" ELSE "handler"]
  <2>1. m_call' = [m_call EXCEPT ![c] = r]
    BY <1>6 DEF M!checkQuota, M!Became
  <2>2. r \in Waiting /\ r.step # "quota"
    BY <1>1 DEF Waiting
  <2>3. r \in MeterCalls /\ IsPending(r) /\ \A w : ~Owes(r, w)
    BY <2>2, MeterKinds DEF MeterCalls
  <2> HIDE DEF r
  <2>9. m_call' \in [Requests -> MeterCalls] /\ Counted(m_call[c], r)
    BY <2>1, <2>3, CallMoves DEF MeterInv, MeterTypes
  <2>4. /\ m_call' \in [Requests -> MeterCalls] /\ n \in Nat
        /\ Cardinality(Owing("log")') = Cardinality(Owing("log"))
        /\ Cardinality(Owing("month")') = Cardinality(Owing("month"))
    BY <1>1, <1>3, <2>3, <2>9 DEF Bit, Counted
  <2>5. m_peak' \in Nat /\ n <= m_peak'
    BY <1>4, <2>4 DEF MeterInv, MeterTypes
  <2>6. MeterTypes'
    BY <1>2, <2>4, <2>5 DEF MeterInv, MeterTypes
  <2>7. m_used < Quota /\ m_used \in Nat
    BY <1>6 DEF M!Admits, MeterInv, MeterTypes
  <2>8. QuotaInv'
    BY <1>2, <1>3, <2>4, <2>5, <2>7, ServicesConstants DEF QuotaInv
  <2> QED BY <1>2, <2>4, <2>6, <2>8 DEF MeterInv, WindowInv, CountInv
<1> QED BY <1>5, <1>6

\* The window's upsert counts the request, or starts a new window.
LEMMA UpsertKeepsMeterInv ==
    ASSUME MeterInv, NEW c \in Requests, M!pgRateLimit(c)
    PROVE  MeterInv'
<1>1. PICK k \in Upserting : k = m_call[c]
  BY MeterKinds DEF M!pgRateLimit, MeterInv, MeterTypes, MeterCalls
<1>2. IsPending(k) /\ k.window \in M!Windows /\ \A w : ~Owes(k, w)
  BY MeterKinds
<1> DEFINE r == [step |-> "handler", route |-> "verify"]
<1>3. /\ m_call' = [m_call EXCEPT ![c] = r]
      /\ m_buckets' = [m_buckets EXCEPT ![k.window] = @ + 1]
      /\ m_admitted' = IF m_buckets'[k.window] <= WindowMax /\ k.window = m_window
                       THEN m_admitted + 1 ELSE m_admitted
      /\ UNCHANGED <<m_used, m_earlier, m_logs, m_answered, m_turns, m_window, m_peak>>
  BY <1>1 DEF M!pgRateLimit, M!Became, M!meters, M!clock
<1>4. r \in Waiting /\ r.step = "handler"
  BY DEF Waiting, Routes
<1>5. r \in MeterCalls /\ IsPending(r) /\ \A w : ~Owes(r, w)
  BY <1>4, MeterKinds DEF MeterCalls
<1> HIDE DEF r
<1>9. m_call' \in [Requests -> MeterCalls] /\ Counted(k, r)
  BY <1>1, <1>3, <1>5, CallMoves DEF MeterInv, MeterTypes
<1>6. /\ m_call' \in [Requests -> MeterCalls]
      /\ Cardinality(Pending') = Cardinality(Pending)
      /\ Cardinality(Owing("log")') = Cardinality(Owing("log"))
      /\ Cardinality(Owing("month")') = Cardinality(Owing("month"))
  BY <1>2, <1>5, <1>9 DEF Bit, Counted
<1>7. /\ m_buckets' \in [M!Windows -> Nat] /\ m_buckets'[k.window] = m_buckets[k.window] + 1
      /\ \A w \in M!Windows : w # k.window => m_buckets'[w] = m_buckets[w]
  BY <1>2, <1>3 DEF MeterInv, MeterTypes
<1>8. m_window \in M!Windows /\ m_admitted \in Nat /\ m_buckets[m_window] \in Nat
  BY ServicesConstants DEF MeterInv, MeterTypes, M!Windows
<1>10. WindowInv' /\ m_admitted' \in Nat
  BY <1>2, <1>3, <1>7, <1>8, ServicesConstants DEF MeterInv, WindowInv
<1>11. MeterTypes'
  BY <1>3, <1>6, <1>7, <1>10 DEF MeterInv, MeterTypes
<1> QED BY <1>3, <1>6, <1>10, <1>11 DEF MeterInv, QuotaInv, CountInv

\* The answer goes out before the request is counted.
LEMMA FinishKeepsMeterInv ==
    ASSUME MeterInv, NEW c \in Requests, M!Finish(c)
    PROVE  MeterInv'
<1>1. PICK k \in Waiting : k = m_call[c] /\ k.step = "handler"
  BY MeterKinds DEF M!Finish, MeterInv, MeterTypes, MeterCalls
<1>2. IsPending(k) /\ k.route \in Routes /\ \A w : ~Owes(k, w)
  BY <1>1, MeterKinds
<1> DEFINE r == [step |-> "writing", route |-> k.route, todo |-> {"log", "month"}]
<1>3. /\ m_call' = [m_call EXCEPT ![c] = r] /\ m_answered' = m_answered + 1
      /\ UNCHANGED <<m_used, m_earlier, m_logs, m_turns, m_window, m_peak, m_buckets, m_admitted>>
  BY <1>1 DEF M!Finish, M!Became, M!meters, M!clock
<1>4. r \in Writing /\ r.todo = {"log", "month"}
  BY <1>2 DEF Writing
<1>5. r \in MeterCalls /\ IsPending(r) /\ Owes(r, "log") /\ Owes(r, "month")
  BY <1>4, MeterKinds DEF MeterCalls
<1> HIDE DEF r
<1>9. m_call' \in [Requests -> MeterCalls] /\ Counted(k, r)
  BY <1>1, <1>3, <1>5, CallMoves DEF MeterInv, MeterTypes
<1>6. /\ m_call' \in [Requests -> MeterCalls]
      /\ Cardinality(Pending') = Cardinality(Pending)
      /\ Cardinality(Owing("log")') = Cardinality(Owing("log")) + 1
      /\ Cardinality(Owing("month")') = Cardinality(Owing("month")) + 1
      /\ Cardinality(Owing("log")) \in Nat /\ Cardinality(Owing("month")) \in Nat
  BY <1>2, <1>5, <1>9 DEF Bit, Counted
<1>7. MeterTypes'
  BY <1>3, <1>6 DEF MeterInv, MeterTypes
<1>8. CountInv'
  BY <1>3, <1>6 DEF MeterInv, MeterTypes, CountInv
<1> QED BY <1>3, <1>6, <1>7, <1>8 DEF MeterInv, QuotaInv, WindowInv

\* The two statements of logApiCall, which land or fail one by one.
LEMMA DoneLeaves ==
    ASSUME MeterInv, NEW c \in Requests, NEW what \in {"log", "month"}, M!Done(c, what)
    PROVE  \E r \in MeterCalls :
              /\ m_call' = [m_call EXCEPT ![c] = r]
              /\ Owes(m_call[c], what) /\ ~Owes(r, what)
              /\ \A w \in {"log", "month"} \ {what} : Owes(r, w) <=> Owes(m_call[c], w)
              /\ IsPending(m_call[c]) <=> Owes(m_call[c], "month")
              /\ IsPending(r) <=> Owes(r, "month")
<1>1. PICK k \in Writing : k = m_call[c] /\ what \in k.todo
  BY MeterKinds DEF M!Done, MeterInv, MeterTypes, MeterCalls
<1>2. k.todo \in SUBSET {"log", "month"} /\ (IsPending(k) <=> "month" \in k.todo)
      /\ \A w : Owes(k, w) <=> w \in k.todo
  BY MeterKinds
<1>3. CASE k.todo = {what}
  <2>1. m_call' = [m_call EXCEPT ![c] = M!Idle] /\ M!Idle \in MeterCalls
    BY <1>1, <1>3 DEF M!Done, M!Became, MeterCalls
  <2> QED BY <1>1, <1>2, <1>3, <2>1, MeterKinds
<1>4. CASE k.todo # {what}
  <2>1. PICK r : r = [k EXCEPT !.todo = @ \ {what}]
    OBVIOUS
  <2>2. m_call' = [m_call EXCEPT ![c] = r]
    BY <1>1, <1>4, <2>1 DEF M!Done, M!Became
  <2>3. r \in Writing /\ r.todo = k.todo \ {what}
    BY <1>2, <2>1 DEF Writing
  <2>4. r \in MeterCalls /\ (IsPending(r) <=> "month" \in r.todo)
        /\ \A w : Owes(r, w) <=> w \in r.todo
    BY <2>3, MeterKinds DEF MeterCalls
  <2> QED BY <1>1, <1>2, <2>2, <2>3, <2>4
<1> QED BY <1>3, <1>4

\* The late writes land, or fail.
LEMMA LandKeepsMeterInv ==
    ASSUME MeterInv, NEW c \in Requests, M!LogLands(c) \/ M!MonthLands(c) \/ M!WriteFails(c)
    PROVE  MeterInv'
<1>1. CASE M!LogLands(c)
  <2>1. PICK r \in MeterCalls :
              /\ m_call' = [m_call EXCEPT ![c] = r]
              /\ Owes(m_call[c], "log") /\ ~Owes(r, "log")
              /\ Owes(r, "month") <=> Owes(m_call[c], "month")
              /\ IsPending(r) <=> IsPending(m_call[c])
    BY <1>1, DoneLeaves DEF M!LogLands
  <2>2. /\ m_logs' = m_logs + 1
        /\ UNCHANGED <<m_used, m_earlier, m_answered, m_turns, m_window, m_peak, m_buckets, m_admitted>>
    BY <1>1 DEF M!LogLands, M!clock
  <2>3. m_call' \in [Requests -> MeterCalls] /\ Counted(m_call[c], r)
    BY <2>1, CallMoves DEF MeterInv, MeterTypes
  <2>4. /\ Cardinality(Pending') = Cardinality(Pending)
        /\ Cardinality(Owing("log")') = Cardinality(Owing("log")) - 1
        /\ Cardinality(Owing("month")') = Cardinality(Owing("month"))
        /\ Cardinality(Owing("log")) \in Nat
    BY <2>1, <2>3 DEF Counted, Bit
  <2>5. MeterTypes'
    BY <2>2, <2>3 DEF MeterInv, MeterTypes
  <2>6. CountInv'
    BY <2>2, <2>4 DEF MeterInv, MeterTypes, CountInv
  <2> QED BY <2>2, <2>4, <2>5, <2>6 DEF MeterInv, QuotaInv, WindowInv
<1>2. CASE M!MonthLands(c)
  <2>1. PICK r \in MeterCalls :
              /\ m_call' = [m_call EXCEPT ![c] = r]
              /\ Owes(m_call[c], "month") /\ ~Owes(r, "month")
              /\ Owes(r, "log") <=> Owes(m_call[c], "log")
              /\ IsPending(m_call[c]) /\ ~IsPending(r)
    BY <1>2, DoneLeaves DEF M!MonthLands
  <2>2. /\ m_used' = m_used + 1 \/ m_used' = m_used
        /\ UNCHANGED <<m_logs, m_earlier, m_answered, m_turns, m_window, m_peak, m_buckets, m_admitted>>
    BY <1>2 DEF M!MonthLands, M!clock
  <2>3. m_call' \in [Requests -> MeterCalls] /\ Counted(m_call[c], r)
    BY <2>1, CallMoves DEF MeterInv, MeterTypes
  <2>4. /\ Cardinality(Pending') = Cardinality(Pending) - 1
        /\ Cardinality(Owing("log")') = Cardinality(Owing("log"))
        /\ Cardinality(Owing("month")') = Cardinality(Owing("month")) - 1
        /\ Cardinality(Pending) \in Nat /\ Cardinality(Owing("month")) \in Nat
    BY <2>1, <2>3 DEF Counted, Bit
  <2>5. MeterTypes'
    BY <2>2, <2>3 DEF MeterInv, MeterTypes
  <2>6. CountInv'
    BY <2>2, <2>4 DEF MeterInv, MeterTypes, CountInv
  <2>7. QuotaInv'
    BY <2>2, <2>4, ServicesConstants DEF MeterInv, MeterTypes, QuotaInv
  <2> QED BY <2>2, <2>5, <2>6, <2>7 DEF MeterInv, WindowInv
<1>3. CASE M!WriteFails(c)
  <2>1. PICK what \in {"log", "month"} : M!Done(c, what)
    BY <1>3 DEF M!WriteFails
  <2>2. PICK r \in MeterCalls :
              /\ m_call' = [m_call EXCEPT ![c] = r]
              /\ \A w \in {"log", "month"} : Owes(r, w) => Owes(m_call[c], w)
              /\ IsPending(r) => IsPending(m_call[c])
    BY <2>1, DoneLeaves
  <2>3. UNCHANGED <<m_used, m_earlier, m_logs, m_answered, m_turns, m_window, m_peak, m_buckets, m_admitted>>
    BY <1>3 DEF M!WriteFails, M!meters, M!clock
  <2> QED BY <2>2, <2>3, MoveKeepsMeterInv
<1> QED BY <1>1, <1>2, <1>3

\* The other steps of a call.
LEMMA OtherMovesKeepMeterInv ==
    ASSUME MeterInv, NEW c \in Requests,
           \/ \E route \in Routes : M!authenticateTenantApiKey(c, route)
           \/ M!bucketKey(c) \/ M!FailsOpen(c) \/ M!ClientLeaves(c)
    PROVE  MeterInv'
<1>1. UNCHANGED <<m_used, m_earlier, m_logs, m_answered, m_turns, m_window, m_peak, m_buckets, m_admitted>>
  BY DEF M!authenticateTenantApiKey, M!bucketKey, M!FailsOpen, M!ClientLeaves, M!meters, M!clock
<1>2. ASSUME NEW r \in MeterCalls, m_call' = [m_call EXCEPT ![c] = r],
             IsPending(r) => IsPending(m_call[c]), \A w : ~Owes(r, w)
      PROVE  MeterInv'
  BY <1>1, <1>2, MoveKeepsMeterInv
<1>3. M!Idle \in MeterCalls
  BY DEF MeterCalls
<1>4. ASSUME NEW route \in Routes, M!authenticateTenantApiKey(c, route) PROVE MeterInv'
  <2>1. PICK r : r = [step |-> "quota", route |-> route]
    OBVIOUS
  <2>2. m_call' = [m_call EXCEPT ![c] = M!Idle] \/ m_call' = [m_call EXCEPT ![c] = r]
    BY <1>4, <2>1 DEF M!authenticateTenantApiKey, M!Became
  <2>3. r \in Waiting /\ r.step = "quota"
    BY <2>1 DEF Waiting
  <2>4. r \in MeterCalls /\ ~IsPending(r) /\ \A w : ~Owes(r, w)
    BY <2>3, MeterKinds DEF MeterCalls
  <2> QED BY <1>2, <1>3, <2>2, <2>4, MeterKinds
<1>5. CASE M!bucketKey(c)
  <2>1. PICK r : r = [step |-> "upsert", route |-> "verify", window |-> m_window]
    OBVIOUS
  <2>2. m_call' = [m_call EXCEPT ![c] = r] /\ m_call[c].step = "limit"
    BY <1>5, <2>1 DEF M!bucketKey, M!Became
  <2>3. m_window \in M!Windows
    BY ServicesConstants DEF MeterInv, MeterTypes, M!Windows
  <2>4. r \in Upserting
    BY <2>1, <2>3 DEF Upserting, Routes
  <2>5. r \in MeterCalls /\ \A w : ~Owes(r, w)
    BY <2>4, MeterKinds DEF MeterCalls
  <2> QED BY <1>2, <2>2, <2>5 DEF IsPending
<1>6. CASE M!FailsOpen(c)
  <2>1. PICK r : r = [step |-> "handler", route |-> "verify"]
    OBVIOUS
  <2>2. m_call' = [m_call EXCEPT ![c] = r] /\ m_call[c].step = "upsert"
    BY <1>6, <2>1 DEF M!FailsOpen, M!Became
  <2>3. r \in Waiting
    BY <2>1 DEF Waiting, Routes
  <2>4. r \in MeterCalls /\ \A w : ~Owes(r, w)
    BY <2>3, MeterKinds DEF MeterCalls
  <2> QED BY <1>2, <2>2, <2>4 DEF IsPending
<1>7. CASE M!ClientLeaves(c)
  <2>1. m_call' = [m_call EXCEPT ![c] = M!Idle]
    BY <1>7 DEF M!ClientLeaves, M!Became
  <2> QED BY <1>2, <1>3, <2>1, MeterKinds
<1> QED BY <1>4, <1>5, <1>6, <1>7

\* The clocks, the clean-up of buckets, and restarts.
LEMMA ClockKeepsMeterInv ==
    ASSUME MeterInv, M!RateWindowEnds \/ M!cleanupRateLimitBuckets \/ M!NextMonth
                     \/ M!NextWindow \/ M!Restart
    PROVE  MeterInv'
<1>1. /\ Cardinality(Pending) \in Nat /\ Cardinality(Owing("log")) \in Nat
      /\ Cardinality(Owing("month")) \in Nat
  <2>1. Pending \subseteq Requests /\ Owing("log") \subseteq Requests /\ Owing("month") \subseteq Requests
    BY DEF Pending, Owing
  <2> QED BY <2>1, FS_Subset, FS_CardinalityType, ServicesConstants
<1>2. MeterTypes
  BY DEF MeterInv
<1>3. m_window \in M!Windows /\ m_turns + 1 \in M!Windows
  BY ServicesConstants DEF MeterInv, MeterTypes, M!Windows
<1>4. ASSUME m_call' = m_call
      PROVE  /\ Cardinality(Pending') = Cardinality(Pending)
             /\ Cardinality(Owing("log")') = Cardinality(Owing("log"))
             /\ Cardinality(Owing("month")') = Cardinality(Owing("month"))
  BY <1>4 DEF Pending, Owing
<1>5. CASE M!RateWindowEnds
  <2>1. /\ m_turns < MaxTurns /\ m_turns' = m_turns + 1
        /\ UNCHANGED <<m_call, m_used, m_earlier, m_logs, m_answered, m_window, m_peak, m_buckets, m_admitted>>
    BY <1>5 DEF M!RateWindowEnds, M!meters
  <2>2. MeterTypes'
    BY <1>2, <2>1, ServicesConstants DEF MeterTypes
  <2> QED BY <1>4, <2>1, <2>2 DEF MeterInv, QuotaInv, WindowInv, CountInv
<1>6. CASE M!cleanupRateLimitBuckets
  <2>1. /\ m_buckets' = [w \in M!Windows |-> IF w < m_window THEN 0 ELSE m_buckets[w]]
        /\ UNCHANGED <<m_call, m_used, m_earlier, m_logs, m_answered, m_window, m_peak, m_turns, m_admitted>>
    BY <1>6 DEF M!cleanupRateLimitBuckets, M!CleanupExpired, M!meters, M!clock
  <2>2. MeterTypes'
    BY <1>2, <2>1 DEF MeterTypes
  <2>3. m_buckets'[m_window] = m_buckets[m_window]
    BY <1>2, <1>3, <2>1 DEF MeterTypes
  <2> QED BY <1>4, <2>1, <2>2, <2>3 DEF MeterInv, QuotaInv, WindowInv, CountInv
<1>7. CASE M!NextMonth
  <2>1. /\ m_turns < MaxTurns /\ m_turns' = m_turns + 1 /\ m_earlier' = m_earlier + m_used /\ m_used' = 0
        /\ UNCHANGED <<m_call, m_logs, m_answered, m_window, m_peak, m_buckets, m_admitted>>
    BY <1>7 DEF M!NextMonth, M!Turn
  <2>2. MeterTypes'
    BY <1>2, <2>1, ServicesConstants DEF MeterTypes
  <2>3. QuotaInv'
    BY <1>1, <1>2, <1>4, <2>1, ServicesConstants DEF MeterInv, MeterTypes, QuotaInv
  <2>4. CountInv'
    BY <1>1, <1>2, <1>4, <2>1 DEF MeterInv, MeterTypes, CountInv
  <2> QED BY <2>1, <2>2, <2>3, <2>4 DEF MeterInv, WindowInv
<1>8. CASE M!NextWindow
  <2>1. /\ m_turns < MaxTurns /\ m_turns' = m_turns + 1 /\ m_window' = m_window + 1 /\ m_admitted' = 0
        /\ UNCHANGED <<m_call, m_used, m_earlier, m_logs, m_answered, m_peak, m_buckets>>
    BY <1>8 DEF M!NextWindow, M!Turn, M!meters
  <2>2. MeterTypes'
    BY <1>2, <2>1, ServicesConstants DEF MeterTypes
  <2>3. m_window' \in M!Windows /\ m_buckets \in [M!Windows -> Nat]
    BY <1>2, <2>1, ServicesConstants DEF MeterTypes, M!Windows
  <2>4. m_buckets[m_window'] \in Nat
    BY <2>3
  <2> QED BY <1>4, <2>1, <2>2, <2>4, ServicesConstants DEF MeterInv, QuotaInv, WindowInv, CountInv
<1>9. CASE M!Restart
  <2>1. /\ m_turns < MaxTurns /\ m_turns' = m_turns + 1 /\ m_call' = [c \in Requests |-> M!Idle]
        /\ UNCHANGED <<m_used, m_earlier, m_logs, m_answered, m_window, m_peak, m_buckets, m_admitted>>
    BY <1>9 DEF M!Restart, M!Turn, M!meters
  <2>2. M!Idle \in MeterCalls
    BY DEF MeterCalls
  <2>3. MeterTypes'
    BY <1>2, <2>1, <2>2, ServicesConstants DEF MeterTypes
  <2>4. Pending' = {} /\ Owing("log")' = {} /\ Owing("month")' = {}
    BY <2>1, MeterKinds DEF Pending, Owing
  <2>5. /\ Cardinality(Pending') = 0 /\ Cardinality(Owing("log")') = 0
        /\ Cardinality(Owing("month")') = 0
    BY <2>4, FS_EmptySet
  <2>6. QuotaInv'
    BY <1>1, <1>2, <2>1, <2>5, ServicesConstants DEF MeterInv, MeterTypes, QuotaInv
  <2>7. CountInv'
    BY <1>1, <1>2, <2>1, <2>5 DEF MeterInv, MeterTypes, CountInv
  <2> QED BY <2>1, <2>3, <2>6, <2>7 DEF MeterInv, WindowInv
<1> QED BY <1>5, <1>6, <1>7, <1>8, <1>9

\* No step of the meters breaks the invariant.
LEMMA MeterStep ==
    ASSUME MeterInv, M!Next \/ UNCHANGED m_vars
    PROVE  MeterInv'
<1>1. CASE UNCHANGED m_vars
  BY <1>1 DEF m_vars, MeterInv, MeterTypes, QuotaInv, WindowInv, CountInv, Pending, Owing
<1> QED
  BY <1>1, QuotaKeepsMeterInv, UpsertKeepsMeterInv, FinishKeepsMeterInv, LandKeepsMeterInv,
     OtherMovesKeepMeterInv, ClockKeepsMeterInv DEF M!Next, Routes

MetersHeld == focus = "meters" => MeterInv

\* A month counts, and is about to count, more than its quota by what was let through at
\* once; no more than the maximum pass a shared window; counts are answers.
THEOREM MetersSound == Spec => []MetersHeld
<1>1. Init => MetersHeld
  BY MeterInvInit DEF Init, ConsoleInit, MetersHeld
<1>2. MetersHeld /\ [Next]_vars => MetersHeld'
  BY FocusKept, MeterSteps, MeterStep DEF MetersHeld
<1> QED BY <1>1, <1>2, PTL DEF Spec

\* The invariant contains the property of the runs.
LEMMA MeterInvHolds == MeterInv => M!MetersHold
<1> SUFFICES ASSUME MeterInv PROVE M!MetersHold
  OBVIOUS
<1>1. /\ Cardinality(Pending) \in Nat /\ Cardinality(Owing("log")) \in Nat
      /\ Cardinality(Owing("month")) \in Nat
  <2>1. Pending \subseteq Requests /\ Owing("log") \subseteq Requests /\ Owing("month") \subseteq Requests
    BY DEF Pending, Owing
  <2> QED BY <2>1, FS_Subset, FS_CardinalityType, ServicesConstants
<1>2. M!Uncounted(m_call) = Cardinality(Pending)
  BY UncountedMeans
<1>3. M!QuotaNearlyHolds
  BY <1>2 DEF M!QuotaNearlyHolds, MeterInv, QuotaInv
<1>4. M!WindowHolds
  BY DEF M!WindowHolds, MeterInv, WindowInv
<1>5. M!CountsAreAnswers
  BY <1>1 DEF M!CountsAreAnswers, MeterInv, MeterTypes, CountInv
<1> QED BY <1>3, <1>4, <1>5 DEF M!MetersHold

\* The monthly quota, the shared window of the verify route and the counts
\* (tenant-auth.ts, rate-limit.ts, usage.ts).
THEOREM LimitsHold == Spec => []MetersHold
<1>1. MetersHeld => MetersHold
  BY MeterInvHolds DEF MetersHeld, MetersHold
<1> QED BY <1>1, MetersSound, PTL

-----------------------------------------------------------------------------
(* Tenant records *)

Stamp == Times \cup {None}
Ref == Nat \cup {None}
Devs == [scope : Scopes, seen : Stamp, told : SUBSET Times]
Usrs == [scope : Scopes, externalId : Tenants, primary : Ref, verified : Stamp, missed : BOOLEAN]
Vers == [scope : Scopes, user : Ref, device : Ref, result : E!Results, at : Times]
Atts == [scope : Scopes, user : Ref, device : Ref, verification : Ref,
         given : E!Outcomes \cup {None}, result : E!Outcomes]
Upds == [table : {"devices", "users"}, row : Nat, at : Times]

RecordTypes ==
    /\ e_devices \in Seq(Devs) /\ e_users \in Seq(Usrs)
    /\ e_verifications \in Seq(Vers) /\ e_attendance \in Seq(Atts)
    /\ e_updates \in SUBSET Upds /\ e_terminal \in [Scopes -> Ref]

\* NULL, or a row of the scope.
RefersTo(row, table, s) == row = None \/ row \in E!Find(table, s)

\* A verification of the user passed at that time.
Passed(u, at) ==
    \E v \in DOMAIN e_verifications : /\ e_verifications[v].user = u
                                      /\ e_verifications[v].at = at
                                      /\ e_verifications[v].result = "pass"

\* A verification names the device, at that time.
Named(d, at) ==
    \E v \in DOMAIN e_verifications : e_verifications[v].device = d /\ e_verifications[v].at = at

DevicesBacked ==
    \A d \in DOMAIN e_devices :
       e_devices[d].seen \in e_devices[d].told \cup {None} \/ Named(d, e_devices[d].seen)

\* No pass is lost without a trace: it is stamped, about to be, or its statement failed.
PassesStamped ==
    \A u \in DOMAIN e_users :
       e_users[u].verified = None /\ ~e_users[u].missed =>
          \A v \in DOMAIN e_verifications :
             E!PassOf(v, u) =>
                [table |-> "users", row |-> u, at |-> e_verifications[v].at] \in e_updates

UsersBacked ==
    \A u \in DOMAIN e_users :
       /\ RefersTo(e_users[u].primary, e_devices, e_users[u].scope)
       /\ e_users[u].verified # None => Passed(u, e_users[u].verified)

VerificationsBacked ==
    \A v \in DOMAIN e_verifications :
       /\ RefersTo(e_verifications[v].user, e_users, e_verifications[v].scope)
       /\ RefersTo(e_verifications[v].device, e_devices, e_verifications[v].scope)

AttendanceBacked ==
    \A a \in DOMAIN e_attendance :
       LET row == e_attendance[a] IN
       /\ RefersTo(row.user, e_users, row.scope)
       /\ RefersTo(row.verification, e_verifications, row.scope)
       /\ row.given = None /\ row.verification # None =>
             (row.result = "accepted") = (e_verifications[row.verification].result = "pass")

\* A statement that still is to run names a row that is there, and stamps it with the
\* time of a verification: of one that passed, if it is a user's.
UpdatesBacked ==
    \A x \in e_updates :
       /\ x.table = "devices" => x.row \in DOMAIN e_devices /\ Named(x.row, x.at)
       /\ x.table = "users" => x.row \in DOMAIN e_users /\ Passed(x.row, x.at)

TerminalsBacked == \A s \in Scopes : RefersTo(e_terminal[s], e_users, s)

RecordsInv ==
    /\ RecordTypes /\ UsersBacked /\ VerificationsBacked /\ AttendanceBacked /\ UpdatesBacked
    /\ TerminalsBacked /\ DevicesBacked /\ PassesStamped

\* The tables are empty at first.
LEMMA RecordsInvInit == E!Init => RecordsInv
BY DEF E!Init, RecordsInv, RecordTypes, UsersBacked, VerificationsBacked, AttendanceBacked,
       UpdatesBacked, TerminalsBacked, DevicesBacked, PassesStamped, RefersTo, Ref

\* Rows keep their scope: what referred to a row still does, in a table that got a row
\* or changed one.
Grown(t, u) == \A s \in Scopes : E!Find(t, s) \subseteq E!Find(u, s)

\* A row more: the others stay where they are.
LEMMA AppendGrows ==
    ASSUME NEW Rows, NEW t \in Seq(Rows), NEW row \in Rows
    PROVE  /\ Grown(t, Append(t, row)) /\ Append(t, row) \in Seq(Rows)
           /\ DOMAIN t \subseteq DOMAIN Append(t, row)
           /\ \A i \in DOMAIN t : Append(t, row)[i] = t[i]
           /\ \A i \in DOMAIN Append(t, row) :
                 i \in DOMAIN t \/ (i = Len(t) + 1 /\ i \notin DOMAIN t /\ Append(t, row)[i] = row)
<1>1. /\ Append(t, row) \in Seq(Rows) /\ Len(t) \in Nat
      /\ DOMAIN t = 1..Len(t) /\ DOMAIN Append(t, row) = 1..(Len(t) + 1)
      /\ \A i \in 1..Len(t) : Append(t, row)[i] = t[i]
      /\ Append(t, row)[Len(t) + 1] = row
  OBVIOUS
<1>2. DOMAIN t \subseteq DOMAIN Append(t, row)
  BY <1>1
<1>3. \A i \in DOMAIN Append(t, row) : i \in DOMAIN t \/ (i = Len(t) + 1 /\ i \notin DOMAIN t)
  BY <1>1
<1> QED BY <1>1, <1>2, <1>3 DEF Grown, E!Find

\* A row is written in place, its scope kept: the others stay as they are.
LEMMA RowWritten ==
    ASSUME NEW Rows, NEW t \in Seq(Rows), NEW i \in DOMAIN t, NEW row \in Rows, row.scope = t[i].scope
    PROVE  /\ Grown(t, [t EXCEPT ![i] = row]) /\ [t EXCEPT ![i] = row] \in Seq(Rows)
           /\ DOMAIN [t EXCEPT ![i] = row] = DOMAIN t
           /\ [t EXCEPT ![i] = row][i] = row
           /\ \A j \in DOMAIN t : j # i => [t EXCEPT ![i] = row][j] = t[j]
<1>1. /\ DOMAIN [t EXCEPT ![i] = row] = DOMAIN t
      /\ [t EXCEPT ![i] = row][i] = row
      /\ \A j \in DOMAIN t : j # i => [t EXCEPT ![i] = row][j] = t[j]
  OBVIOUS
<1>2. [t EXCEPT ![i] = row] \in Seq(Rows)
  OBVIOUS
<1> QED BY <1>1, <1>2 DEF Grown, E!Find

\* A reference into a table outlives the table's growth.
LEMMA StillRefers ==
    ASSUME NEW t, NEW u, Grown(t, u), NEW s \in Scopes, NEW row, RefersTo(row, t, s)
    PROVE  RefersTo(row, u, s)
BY DEF Grown, RefersTo

\* Every row belongs to a tenant and an environment.
LEMMA RowScopes ==
    ASSUME RecordTypes
    PROVE  /\ \A d \in DOMAIN e_devices : e_devices[d] \in Devs /\ e_devices[d].scope \in Scopes
           /\ \A u \in DOMAIN e_users : e_users[u] \in Usrs /\ e_users[u].scope \in Scopes
           /\ \A v \in DOMAIN e_verifications : /\ e_verifications[v] \in Vers
                                                /\ e_verifications[v].scope \in Scopes
           /\ \A a \in DOMAIN e_attendance : /\ e_attendance[a] \in Atts
                                             /\ e_attendance[a].scope \in Scopes
<1>1. /\ \A d \in DOMAIN e_devices : e_devices[d] \in Devs
      /\ \A u \in DOMAIN e_users : e_users[u] \in Usrs
      /\ \A v \in DOMAIN e_verifications : e_verifications[v] \in Vers
      /\ \A a \in DOMAIN e_attendance : e_attendance[a] \in Atts
  BY DEF RecordTypes
<1>2. /\ \A r \in Devs : r.scope \in Scopes
      /\ \A r \in Usrs : r.scope \in Scopes
      /\ \A r \in Vers : r.scope \in Scopes
      /\ \A r \in Atts : r.scope \in Scopes
  BY DEF Devs, Usrs, Vers, Atts
<1> QED BY <1>1, <1>2

\* A step on the devices.
LEMMA DevicesKeepRecords ==
    ASSUME RecordsInv, e_devices' \in Seq(Devs), Grown(e_devices, e_devices'),
           DOMAIN e_devices \subseteq DOMAIN e_devices',
           UNCHANGED <<e_users, e_verifications, e_attendance, e_terminal>>,
           e_updates' \subseteq e_updates, DevicesBacked', PassesStamped'
    PROVE  RecordsInv'
<1>1. RecordTypes'
  BY DEF RecordsInv, RecordTypes
<1>2. UsersBacked'
  <2> SUFFICES ASSUME NEW u \in DOMAIN e_users
               PROVE  /\ RefersTo(e_users[u].primary, e_devices', e_users[u].scope)
                      /\ e_users[u].verified # None => Passed(u, e_users[u].verified)
    BY DEF UsersBacked, Passed
  <2>1. e_users[u].scope \in Scopes
    BY RowScopes DEF RecordsInv
  <2> QED BY <2>1, StillRefers DEF RecordsInv, UsersBacked
<1>3. VerificationsBacked'
  <2> SUFFICES ASSUME NEW v \in DOMAIN e_verifications
               PROVE  /\ RefersTo(e_verifications[v].user, e_users, e_verifications[v].scope)
                      /\ RefersTo(e_verifications[v].device, e_devices', e_verifications[v].scope)
    BY DEF VerificationsBacked
  <2>1. e_verifications[v].scope \in Scopes
    BY RowScopes DEF RecordsInv
  <2> QED BY <2>1, StillRefers DEF RecordsInv, VerificationsBacked
<1>4. AttendanceBacked' /\ TerminalsBacked'
  BY DEF RecordsInv, AttendanceBacked, TerminalsBacked
<1>5. UpdatesBacked'
  BY DEF RecordsInv, UpdatesBacked, Passed, Named
<1> QED BY <1>1, <1>2, <1>3, <1>4, <1>5 DEF RecordsInv

\* A step on the users.
LEMMA UsersKeepRecords ==
    ASSUME RecordsInv, e_users' \in Seq(Usrs), Grown(e_users, e_users'),
           DOMAIN e_users \subseteq DOMAIN e_users', UsersBacked', PassesStamped',
           UNCHANGED <<e_devices, e_verifications, e_attendance, e_terminal>>,
           e_updates' \subseteq e_updates
    PROVE  RecordsInv'
<1>1. RecordTypes'
  BY DEF RecordsInv, RecordTypes
<1>2. VerificationsBacked'
  <2> SUFFICES ASSUME NEW v \in DOMAIN e_verifications
               PROVE  /\ RefersTo(e_verifications[v].user, e_users', e_verifications[v].scope)
                      /\ RefersTo(e_verifications[v].device, e_devices, e_verifications[v].scope)
    BY DEF VerificationsBacked
  <2>1. e_verifications[v].scope \in Scopes
    BY RowScopes DEF RecordsInv
  <2> QED BY <2>1, StillRefers DEF RecordsInv, VerificationsBacked
<1>3. AttendanceBacked'
  <2> SUFFICES ASSUME NEW a \in DOMAIN e_attendance
               PROVE  RefersTo(e_attendance[a].user, e_users', e_attendance[a].scope)
    BY DEF RecordsInv, AttendanceBacked
  <2>1. e_attendance[a].scope \in Scopes
    BY RowScopes DEF RecordsInv
  <2> QED BY <2>1, StillRefers DEF RecordsInv, AttendanceBacked
<1>4. TerminalsBacked'
  BY StillRefers DEF RecordsInv, TerminalsBacked
<1>5. UpdatesBacked' /\ DevicesBacked'
  BY DEF RecordsInv, UpdatesBacked, DevicesBacked, Passed, Named
<1> QED BY <1>1, <1>2, <1>3, <1>4, <1>5 DEF RecordsInv

\* A device is made, or reports in.
LEMMA DeviceSteps ==
    ASSUME RecordsInv, NEW s \in Scopes,
           \/ \E at \in Times \cup {None} : E!createDevice(s, at)
           \/ \E d \in DOMAIN e_devices, at \in Times : E!updateDevice(s, d, at)
    PROVE  RecordsInv'
<1>1. UNCHANGED <<e_users, e_verifications, e_attendance, e_terminal, e_updates>>
  BY DEF E!createDevice, E!updateDevice
<1>2. e_devices \in Seq(Devs)
  BY DEF RecordsInv, RecordTypes
<1>3. PassesStamped'
  BY <1>1 DEF RecordsInv, PassesStamped, E!PassOf
<1>4. ASSUME NEW at \in Times \cup {None}, E!createDevice(s, at)
      PROVE  RecordsInv'
  <2>1. PICK row : row = [scope |-> s, seen |-> at, told |-> {at} \ {None}]
    OBVIOUS
  <2>2. /\ row \in Devs /\ e_devices' = Append(e_devices, row)
        /\ row.seen \in row.told \cup {None}
    BY <1>4, <2>1 DEF Devs, Stamp, E!createDevice
  <2>3. /\ Grown(e_devices, e_devices') /\ e_devices' \in Seq(Devs)
        /\ DOMAIN e_devices \subseteq DOMAIN e_devices'
        /\ \A i \in DOMAIN e_devices : e_devices'[i] = e_devices[i]
        /\ \A i \in DOMAIN e_devices' : i \in DOMAIN e_devices \/ e_devices'[i] = row
    BY <1>2, <2>2, AppendGrows
  <2>4. DevicesBacked'
    BY <1>1, <2>2, <2>3 DEF RecordsInv, DevicesBacked, Named
  <2> QED BY <1>1, <1>3, <2>3, <2>4, DevicesKeepRecords
<1>5. ASSUME NEW d \in DOMAIN e_devices, NEW at \in Times, E!updateDevice(s, d, at)
      PROVE  RecordsInv'
  <2>1. PICK row : row = [e_devices[d] EXCEPT !.seen = at, !.told = e_devices[d].told \cup {at}]
    OBVIOUS
  <2>2. e_devices[d] \in Devs
    BY <1>2
  <2>3. row \in Devs /\ row.scope = e_devices[d].scope
    BY <2>1, <2>2 DEF Devs, Stamp
  <2>4. e_devices' = [e_devices EXCEPT ![d] = row]
    BY <1>5, <2>1 DEF E!updateDevice
  <2>5. /\ Grown(e_devices, e_devices') /\ e_devices' \in Seq(Devs)
        /\ DOMAIN e_devices' = DOMAIN e_devices /\ e_devices'[d] = row
        /\ \A i \in DOMAIN e_devices : i # d => e_devices'[i] = e_devices[i]
    BY <1>2, <2>3, <2>4, RowWritten
  <2>6. row.seen \in row.told \cup {None}
    BY <2>1, <2>2 DEF Devs
  <2>7. DevicesBacked'
    <3> SUFFICES ASSUME NEW i \in DOMAIN e_devices
                 PROVE  \/ e_devices'[i].seen \in e_devices'[i].told \cup {None}
                        \/ Named(i, e_devices'[i].seen)
      BY <1>1, <2>5 DEF DevicesBacked, Named
    <3>1. CASE i = d
      BY <2>5, <2>6, <3>1
    <3>2. CASE i # d
      BY <2>5, <3>2 DEF RecordsInv, DevicesBacked
    <3> QED BY <3>1, <3>2
  <2> QED BY <1>1, <1>3, <2>5, <2>7, DevicesKeepRecords
<1> QED BY <1>4, <1>5

\* A user is made with a device of its own scope, or none.
LEMMA CreateUserKeepsRecords ==
    ASSUME RecordsInv, NEW s \in Scopes, NEW x \in Tenants, NEW d \in DOMAIN e_devices \cup {None},
           E!createTenantUser(s, x, d)
    PROVE  RecordsInv'
<1> DEFINE row == [scope |-> s, externalId |-> x, primary |-> d, verified |-> None,
                   missed |-> FALSE]
<1>1. /\ e_users' = Append(e_users, row) /\ RefersTo(d, e_devices, s)
      /\ UNCHANGED <<e_devices, e_verifications, e_attendance, e_terminal, e_updates>>
  BY DEF E!createTenantUser, RefersTo
<1>2. e_users \in Seq(Usrs) /\ e_devices \in Seq(Devs)
  BY DEF RecordsInv, RecordTypes
<1>3. d \in Ref
  BY <1>2 DEF Ref
<1>4. row \in Usrs /\ row.primary = d /\ row.scope = s /\ row.verified = None
  BY <1>3 DEF Usrs, Stamp
<1> HIDE DEF row
<1>5. /\ Grown(e_users, e_users') /\ e_users' \in Seq(Usrs)
      /\ DOMAIN e_users \subseteq DOMAIN e_users'
      /\ \A i \in DOMAIN e_users : e_users'[i] = e_users[i]
      /\ \A i \in DOMAIN e_users' : i \in DOMAIN e_users
                                      \/ (i = Len(e_users) + 1 /\ e_users'[i] = row)
  BY <1>1, <1>2, <1>4, AppendGrows
<1>6. UsersBacked'
  BY <1>1, <1>4, <1>5 DEF RecordsInv, UsersBacked, Passed
<1>7. ASSUME NEW v \in DOMAIN e_verifications
      PROVE  ~E!PassOf(v, Len(e_users) + 1)
  <2>1. \/ e_verifications[v].user = None
        \/ e_verifications[v].user \in E!Find(e_users, e_verifications[v].scope)
    BY DEF RecordsInv, VerificationsBacked, RefersTo
  <2>2. Len(e_users) \in Nat /\ Len(e_users) + 1 # None /\ DOMAIN e_users = 1..Len(e_users)
    BY <1>2, ServicesConstants
  <2>3. Len(e_users) + 1 \notin DOMAIN e_users
    BY <2>2
  <2> QED BY <2>1, <2>2, <2>3 DEF E!PassOf, E!Find
<1>8. PassesStamped'
  BY <1>1, <1>5, <1>7 DEF RecordsInv, PassesStamped, E!PassOf
<1> QED BY <1>1, <1>5, <1>6, <1>8, UsersKeepRecords

\* A user's device is changed for one of the same scope.
LEMMA UpdateUserKeepsRecords ==
    ASSUME RecordsInv, NEW s \in Scopes, NEW u \in DOMAIN e_users, NEW d \in DOMAIN e_devices,
           E!updateTenantUser(s, u, d)
    PROVE  RecordsInv'
<1>1. PICK row : row = [e_users[u] EXCEPT !.primary = d]
  OBVIOUS
<1>2. /\ e_users' = [e_users EXCEPT ![u] = row] /\ u \in E!Find(e_users, s)
      /\ d \in E!Find(e_devices, s)
      /\ UNCHANGED <<e_devices, e_verifications, e_attendance, e_terminal, e_updates>>
  BY <1>1 DEF E!updateTenantUser
<1>3. e_users \in Seq(Usrs) /\ e_users[u] \in Usrs /\ d \in Nat
  BY DEF RecordsInv, RecordTypes
<1>4. e_users[u].scope = s /\ RefersTo(d, e_devices, s)
  BY <1>2 DEF E!Find, RefersTo
<1>5. /\ row \in Usrs /\ row.scope = s /\ row.primary = d /\ row.verified = e_users[u].verified
      /\ row.missed = e_users[u].missed
  BY <1>1, <1>3, <1>4 DEF Usrs, Ref
<1>6. /\ Grown(e_users, e_users') /\ e_users' \in Seq(Usrs) /\ DOMAIN e_users' = DOMAIN e_users
      /\ e_users'[u] = row /\ \A i \in DOMAIN e_users : i # u => e_users'[i] = e_users[i]
  BY <1>2, <1>3, <1>4, <1>5, RowWritten
<1>7. UsersBacked'
  BY <1>2, <1>4, <1>5, <1>6 DEF RecordsInv, UsersBacked, Passed
<1>8. PassesStamped'
  BY <1>2, <1>5, <1>6 DEF RecordsInv, PassesStamped, E!PassOf
<1> QED BY <1>2, <1>6, <1>7, <1>8, UsersKeepRecords

\* The statements that nobody waits for.
LEMMA UpdatesKeepRecords ==
    ASSUME RecordsInv, NEW x \in e_updates, E!TouchLands(x) \/ E!TouchFails(x)
    PROVE  RecordsInv'
<1>1. /\ e_updates' = e_updates \ {x}
      /\ UNCHANGED <<e_verifications, e_attendance, e_terminal>>
  BY DEF E!TouchLands, E!TouchFails
<1>2. /\ e_users \in Seq(Usrs) /\ e_devices \in Seq(Devs)
      /\ x.table \in {"devices", "users"} /\ x.at \in Times
  BY DEF RecordsInv, RecordTypes, Upds
<1>3. CASE x.table = "devices"
  <2>1. PICK d \in DOMAIN e_devices : d = x.row /\ Named(d, x.at)
    BY <1>3 DEF RecordsInv, UpdatesBacked
  <2>2. e_users' = e_users
    BY <1>3 DEF E!TouchLands, E!TouchFails
  <2>3. PassesStamped'
    BY <1>1, <1>3, <2>2 DEF RecordsInv, PassesStamped, E!PassOf
  <2>4. CASE E!TouchFails(x)
    <3>1. e_devices' = e_devices
      BY <2>4 DEF E!TouchFails
    <3>2. Grown(e_devices, e_devices') /\ DevicesBacked'
      BY <1>1, <3>1 DEF Grown, RecordsInv, DevicesBacked, Named
    <3> QED BY <1>1, <1>2, <2>2, <2>3, <3>1, <3>2, DevicesKeepRecords
  <2>5. CASE E!TouchLands(x)
    <3>1. PICK row : row = [e_devices[d] EXCEPT !.seen = x.at]
      OBVIOUS
    <3>2. e_devices' = [e_devices EXCEPT ![d] = row]
      BY <1>3, <2>1, <2>5, <3>1 DEF E!TouchLands
    <3>3. e_devices[d] \in Devs
      BY <1>2
    <3>4. row \in Devs /\ row.scope = e_devices[d].scope /\ row.seen = x.at
      BY <1>2, <3>1, <3>3 DEF Devs, Stamp
    <3>5. /\ Grown(e_devices, e_devices') /\ e_devices' \in Seq(Devs)
          /\ DOMAIN e_devices' = DOMAIN e_devices /\ e_devices'[d] = row
          /\ \A i \in DOMAIN e_devices : i # d => e_devices'[i] = e_devices[i]
      BY <1>2, <3>2, <3>4, RowWritten
    <3>6. DevicesBacked'
      <4>1. Named(d, x.at)'
        BY <1>1, <2>1 DEF Named
      <4> QED BY <1>1, <3>4, <3>5, <4>1 DEF RecordsInv, DevicesBacked, Named
    <3> QED BY <1>1, <2>2, <2>3, <3>5, <3>6, DevicesKeepRecords
  <2> QED BY <2>4, <2>5
<1>4. CASE x.table = "users"
  <2>1. PICK u \in DOMAIN e_users : u = x.row /\ Passed(u, x.at)
    BY <1>4 DEF RecordsInv, UpdatesBacked
  <2>2. e_devices' = e_devices
    BY <1>4 DEF E!TouchLands, E!TouchFails
  <2>3. e_users[u] \in Usrs
    BY <1>2
  <2>4. PICK row : /\ row \in Usrs /\ row.scope = e_users[u].scope
                   /\ row.primary = e_users[u].primary
                   /\ row.verified = x.at \/ (row.verified = e_users[u].verified /\ row.missed)
                   /\ e_users' = [e_users EXCEPT ![u] = row]
    <3>1. CASE E!TouchLands(x)
      <4>1. PICK row : row = [e_users[u] EXCEPT !.verified = x.at]
        OBVIOUS
      <4>2. e_users' = [e_users EXCEPT ![u] = row]
        BY <1>4, <2>1, <3>1, <4>1 DEF E!TouchLands
      <4>3. /\ row \in Usrs /\ row.scope = e_users[u].scope /\ row.verified = x.at
            /\ row.primary = e_users[u].primary
        BY <1>2, <2>3, <4>1 DEF Usrs, Stamp
      <4> QED BY <4>2, <4>3
    <3>2. CASE E!TouchFails(x)
      <4>1. PICK row : row = [e_users[u] EXCEPT !.missed = TRUE]
        OBVIOUS
      <4>2. e_users' = [e_users EXCEPT ![u] = row]
        BY <1>4, <2>1, <3>2, <4>1 DEF E!TouchFails
      <4>3. /\ row \in Usrs /\ row.scope = e_users[u].scope /\ row.missed
            /\ row.verified = e_users[u].verified /\ row.primary = e_users[u].primary
        BY <2>3, <4>1 DEF Usrs
      <4> QED BY <4>2, <4>3
    <3> QED BY <3>1, <3>2
  <2>5. /\ Grown(e_users, e_users') /\ e_users' \in Seq(Usrs) /\ DOMAIN e_users' = DOMAIN e_users
        /\ e_users'[u] = row /\ \A i \in DOMAIN e_users : i # u => e_users'[i] = e_users[i]
    BY <1>2, <2>4, RowWritten
  <2>6. UsersBacked'
    <3> SUFFICES ASSUME NEW i \in DOMAIN e_users
                 PROVE  /\ RefersTo(e_users'[i].primary, e_devices, e_users'[i].scope)
                        /\ e_users'[i].verified # None => Passed(i, e_users'[i].verified)
      BY <1>1, <2>2, <2>5 DEF UsersBacked, Passed
    <3>1. CASE i = u
      BY <2>1, <2>4, <2>5, <3>1 DEF RecordsInv, UsersBacked
    <3>2. CASE i # u
      BY <2>5, <3>2 DEF RecordsInv, UsersBacked
    <3> QED BY <3>1, <3>2
  <2>7. PassesStamped'
    <3> SUFFICES ASSUME NEW i \in DOMAIN e_users, e_users'[i].verified = None,
                        ~e_users'[i].missed, NEW v \in DOMAIN e_verifications, E!PassOf(v, i)
                 PROVE  [table |-> "users", row |-> i, at |-> e_verifications[v].at] \in e_updates \ {x}
      BY <1>1, <2>5 DEF PassesStamped, E!PassOf
    <3>1. i # u
      BY <1>2, <2>4, <2>5, ServicesConstants
    <3>2. [table |-> "users", row |-> i, at |-> e_verifications[v].at] \in e_updates
      BY <2>5, <3>1 DEF RecordsInv, PassesStamped
    <3> QED BY <2>1, <3>1, <3>2
  <2> QED BY <1>1, <2>2, <2>5, <2>6, <2>7, UsersKeepRecords
<1> QED BY <1>2, <1>3, <1>4

\* The statements an event leaves to run.
LEMMA TouchedRows ==
    ASSUME NEW u, NEW d, NEW result, NEW at, NEW x \in E!Touch(u, d, result, at)
    PROVE  /\ x.row # None
           /\ \/ x = [table |-> "devices", row |-> d, at |-> at]
              \/ x = [table |-> "users", row |-> u, at |-> at] /\ result = "pass"
BY DEF E!Touch, E!Stamps

\* A verification is written with the user and the device it names.
LEMMA VerificationKeepsRecords ==
    ASSUME RecordsInv, NEW s \in Scopes, NEW u \in DOMAIN e_users \cup {None},
           NEW d \in DOMAIN e_devices \cup {None}, NEW result \in E!Results, NEW at \in Times,
           E!createVerificationEvent(s, u, d, result, at)
    PROVE  RecordsInv'
<1> DEFINE row == [scope |-> s, user |-> u, device |-> d, result |-> result, at |-> at]
           n == Len(e_verifications) + 1
<1>1. /\ e_verifications' = Append(e_verifications, row)
      /\ RefersTo(u, e_users, s) /\ RefersTo(d, e_devices, s)
      /\ e_updates' = e_updates \cup E!Touch(u, d, result, at)
      /\ UNCHANGED <<e_devices, e_users, e_attendance, e_terminal>>
  BY DEF E!createVerificationEvent, RefersTo
<1>2. /\ e_users \in Seq(Usrs) /\ e_devices \in Seq(Devs) /\ e_verifications \in Seq(Vers)
      /\ RecordTypes
  BY DEF RecordsInv, RecordTypes
<1>3. u \in Ref /\ d \in Ref
  BY <1>2 DEF Ref
<1>4. /\ row \in Vers /\ row.scope = s /\ row.user = u /\ row.device = d /\ row.result = result
      /\ row.at = at
  BY <1>3 DEF Vers
<1> HIDE DEF row
<1>5. /\ Grown(e_verifications, e_verifications') /\ e_verifications' \in Seq(Vers)
      /\ DOMAIN e_verifications \subseteq DOMAIN e_verifications'
      /\ \A i \in DOMAIN e_verifications : e_verifications'[i] = e_verifications[i]
      /\ \A i \in DOMAIN e_verifications' : i \in DOMAIN e_verifications \/ e_verifications'[i] = row
  BY <1>1, <1>2, <1>4, AppendGrows
<1>6. n \in DOMAIN e_verifications' /\ e_verifications'[n] = row
  BY <1>1, <1>2, <1>4
<1>7. \A w, t : (Passed(w, t) => Passed(w, t)') /\ (Named(w, t) => Named(w, t)')
  BY <1>5 DEF Passed, Named
<1>8. (result = "pass" => Passed(u, at)') /\ Named(d, at)'
  BY <1>4, <1>6 DEF Passed, Named
<1>9. UsersBacked'
  BY <1>1, <1>7 DEF RecordsInv, UsersBacked
<1>10. VerificationsBacked'
  BY <1>1, <1>4, <1>5 DEF RecordsInv, VerificationsBacked
<1>11. AttendanceBacked'
  <2> SUFFICES ASSUME NEW a \in DOMAIN e_attendance
               PROVE  LET k == e_attendance[a] IN
                      /\ RefersTo(k.user, e_users, k.scope)
                      /\ RefersTo(k.verification, e_verifications', k.scope)
                      /\ k.given = None /\ k.verification # None =>
                            (k.result = "accepted")
                               = (e_verifications'[k.verification].result = "pass")
    BY <1>1 DEF AttendanceBacked
  <2> DEFINE k == e_attendance[a]
  <2>1. k.scope \in Scopes
    BY <1>2, RowScopes
  <2>2. /\ RefersTo(k.user, e_users, k.scope) /\ RefersTo(k.verification, e_verifications, k.scope)
        /\ k.given = None /\ k.verification # None =>
              (k.result = "accepted") = (e_verifications[k.verification].result = "pass")
    BY DEF RecordsInv, AttendanceBacked
  <2> HIDE DEF k
  <2>3. RefersTo(k.verification, e_verifications', k.scope)
    BY <1>5, <2>1, <2>2, StillRefers
  <2>4. k.verification # None => e_verifications'[k.verification] = e_verifications[k.verification]
    BY <1>5, <2>2 DEF RefersTo, E!Find
  <2>5. /\ RefersTo(k.user, e_users, k.scope)
        /\ k.given = None /\ k.verification # None =>
              (k.result = "accepted") = (e_verifications'[k.verification].result = "pass")
    BY <2>2, <2>4
  <2> QED BY <2>3, <2>5 DEF k
<1>12. ASSUME NEW x \in E!Touch(u, d, result, at)
       PROVE  /\ x \in Upds
              /\ x.table = "devices" => x.row \in DOMAIN e_devices /\ Named(x.row, x.at)'
              /\ x.table = "users" => x.row \in DOMAIN e_users /\ Passed(x.row, x.at)'
  <2>1. CASE x = [table |-> "devices", row |-> d, at |-> at] /\ x.row # None
    <3>1. x.table = "devices" /\ x.row = d /\ x.at = at /\ d \in DOMAIN e_devices
      BY <2>1
    <3>2. d \in Nat
      BY <1>2, <3>1
    <3> QED BY <1>8, <2>1, <3>1, <3>2 DEF Upds
  <2>2. CASE x = [table |-> "users", row |-> u, at |-> at] /\ x.row # None /\ result = "pass"
    <3>1. x.table = "users" /\ x.row = u /\ x.at = at /\ u \in DOMAIN e_users
      BY <2>2
    <3>2. u \in Nat
      BY <1>2, <3>1
    <3> QED BY <1>8, <2>2, <3>1, <3>2 DEF Upds
  <2> QED BY <2>1, <2>2, TouchedRows
<1>13. UpdatesBacked'
  <2> SUFFICES ASSUME NEW x \in e_updates'
               PROVE  /\ x.table = "devices" => x.row \in DOMAIN e_devices /\ Named(x.row, x.at)'
                      /\ x.table = "users" => x.row \in DOMAIN e_users /\ Passed(x.row, x.at)'
    BY <1>1 DEF UpdatesBacked
  <2> QED BY <1>1, <1>7, <1>12 DEF RecordsInv, UpdatesBacked
<1>14. RecordTypes' /\ TerminalsBacked'
  BY <1>1, <1>5, <1>12 DEF RecordsInv, RecordTypes, TerminalsBacked
<1>15. DevicesBacked'
  BY <1>1, <1>7 DEF RecordsInv, DevicesBacked
<1>16. PassesStamped'
  <2> SUFFICES ASSUME NEW i \in DOMAIN e_users, e_users[i].verified = None, ~e_users[i].missed,
                      NEW v \in DOMAIN e_verifications',
                      e_verifications'[v].user = i, e_verifications'[v].result = "pass"
               PROVE  [table |-> "users", row |-> i, at |-> e_verifications'[v].at] \in e_updates'
    BY <1>1 DEF PassesStamped, E!PassOf
  <2>1. CASE v \in DOMAIN e_verifications
    BY <1>1, <1>5, <2>1 DEF RecordsInv, PassesStamped, E!PassOf
  <2>2. CASE e_verifications'[v] = row
    <3>1. u = i /\ result = "pass" /\ e_verifications'[v].at = at
      BY <1>4, <2>2
    <3>2. i # None
      BY <1>2, ServicesConstants
    <3>3. [table |-> "users", row |-> i, at |-> at] \in E!Touch(u, d, result, at)
      BY <3>1, <3>2 DEF E!Touch, E!Stamps
    <3> QED BY <1>1, <3>1, <3>3
  <2> QED BY <1>5, <2>1, <2>2
<1> QED BY <1>9, <1>10, <1>11, <1>13, <1>14, <1>15, <1>16 DEF RecordsInv

\* An attendance event is written with its verification.
LEMMA AttendanceKeepsRecords ==
    ASSUME RecordsInv, NEW s \in Scopes, NEW u \in DOMAIN e_users,
           NEW d \in DOMAIN e_devices \cup {None}, NEW v \in DOMAIN e_verifications \cup {None},
           NEW given \in E!Outcomes \cup {None}, E!createAttendanceEvent(s, u, d, v, given)
    PROVE  RecordsInv'
<1>1. PICK o : o = E!Outcome(given, v)
  OBVIOUS
<1> DEFINE row == [scope |-> s, user |-> u, device |-> d, verification |-> v, given |-> given,
                   result |-> o]
<1>2. /\ e_attendance' = Append(e_attendance, row)
      /\ RefersTo(u, e_users, s) /\ RefersTo(v, e_verifications, s)
      /\ UNCHANGED <<e_devices, e_users, e_verifications, e_updates, e_terminal>>
  BY <1>1 DEF E!createAttendanceEvent, RefersTo
<1>3. /\ e_users \in Seq(Usrs) /\ e_devices \in Seq(Devs) /\ e_verifications \in Seq(Vers)
      /\ e_attendance \in Seq(Atts)
  BY DEF RecordsInv, RecordTypes
<1>4. u \in Ref /\ d \in Ref /\ v \in Ref
  BY <1>3 DEF Ref
<1>5. o \in E!Outcomes
  BY <1>1 DEF E!Outcome, E!Outcomes
<1>6. given = None /\ v # None => (o = "accepted") = (e_verifications[v].result = "pass")
  BY <1>1 DEF E!Outcome
<1>7. /\ row \in Atts /\ row.scope = s /\ row.user = u /\ row.verification = v
      /\ row.given = given /\ row.result = o
  BY <1>4, <1>5 DEF Atts
<1> HIDE DEF row
<1>8. /\ e_attendance' \in Seq(Atts)
      /\ \A i \in DOMAIN e_attendance : e_attendance'[i] = e_attendance[i]
      /\ \A i \in DOMAIN e_attendance' : i \in DOMAIN e_attendance \/ e_attendance'[i] = row
  BY <1>2, <1>3, <1>7, AppendGrows
<1>9. AttendanceBacked'
  <2> SUFFICES ASSUME NEW a \in DOMAIN e_attendance'
               PROVE  LET k == e_attendance'[a] IN
                      /\ RefersTo(k.user, e_users, k.scope)
                      /\ RefersTo(k.verification, e_verifications, k.scope)
                      /\ k.given = None /\ k.verification # None =>
                            (k.result = "accepted")
                               = (e_verifications[k.verification].result = "pass")
    BY <1>2 DEF AttendanceBacked
  <2>1. CASE a \in DOMAIN e_attendance
    BY <1>8, <2>1 DEF RecordsInv, AttendanceBacked
  <2>2. CASE e_attendance'[a] = row
    BY <1>2, <1>6, <1>7, <2>2
  <2> QED BY <1>8, <2>1, <2>2
<1>10. /\ RecordTypes' /\ UsersBacked' /\ VerificationsBacked' /\ UpdatesBacked'
       /\ TerminalsBacked' /\ DevicesBacked' /\ PassesStamped'
  BY <1>2, <1>8 DEF RecordsInv, RecordTypes, UsersBacked, VerificationsBacked, UpdatesBacked,
                    TerminalsBacked, DevicesBacked, PassesStamped, Passed, Named, E!PassOf
<1> QED BY <1>9, <1>10 DEF RecordsInv

\* A registration makes the user and finds its device.
LEMMA RegisterKeepsRecords ==
    ASSUME RecordsInv, NEW s \in Scopes, NEW x \in Tenants, E!RegisterUser(s, x)
    PROVE  RecordsInv'
<1>1. PICK t : e_terminal' = [e_terminal EXCEPT ![s] = t] /\ (t = None \/ t \in E!Newest(e_users, s))
  BY DEF E!RegisterUser
<1>2. RefersTo(t, e_users, s)
  BY <1>1 DEF RefersTo, E!Newest
<1>3. e_users \in Seq(Usrs) /\ e_terminal \in [Scopes -> Ref]
  BY DEF RecordsInv, RecordTypes
<1>4. t \in Ref
  BY <1>2, <1>3 DEF RefersTo, E!Find, Ref
<1>5. UNCHANGED <<e_devices, e_users, e_verifications, e_attendance, e_updates>>
  BY DEF E!RegisterUser
<1>6. TerminalsBacked'
  BY <1>1, <1>2, <1>3, <1>5 DEF RecordsInv, TerminalsBacked
<1> QED
  BY <1>1, <1>3, <1>4, <1>5, <1>6 DEF RecordsInv, RecordTypes, UsersBacked, VerificationsBacked,
     AttendanceBacked, UpdatesBacked, DevicesBacked, PassesStamped, Passed, Named, E!PassOf

\* No step of the records breaks the invariant.
LEMMA RecordStep ==
    ASSUME RecordsInv, E!Next \/ UNCHANGED e_vars
    PROVE  RecordsInv'
<1>1. CASE UNCHANGED e_vars
  BY <1>1 DEF e_vars, RecordsInv, RecordTypes, UsersBacked, VerificationsBacked,
     AttendanceBacked, UpdatesBacked, TerminalsBacked, DevicesBacked, PassesStamped, Passed,
     Named, E!PassOf
<1>2. CASE E!Next
  <2>1. CASE \E s \in Scopes, x \in Tenants : E!RegisterUser(s, x)
    BY <2>1, RegisterKeepsRecords
  <2>2. CASE \E s \in Scopes : \/ \E at \in Times \cup {None} : E!createDevice(s, at)
                               \/ \E d \in DOMAIN e_devices, at \in Times : E!updateDevice(s, d, at)
    BY <2>2, DeviceSteps
  <2>3. CASE \E s \in Scopes, d \in DOMAIN e_devices, u \in DOMAIN e_users : E!updateTenantUser(s, u, d)
    BY <2>3, UpdateUserKeepsRecords
  <2>4. CASE \E s \in Scopes, d \in DOMAIN e_devices \cup {None}, x \in Tenants :
                E!createTenantUser(s, x, d)
    BY <2>4, CreateUserKeepsRecords
  <2>5. CASE \E s \in Scopes, d \in DOMAIN e_devices \cup {None}, u \in DOMAIN e_users \cup {None},
                r \in E!Results, at \in Times : E!createVerificationEvent(s, u, d, r, at)
    BY <2>5, VerificationKeepsRecords
  <2>6. CASE \E s \in Scopes, d \in DOMAIN e_devices \cup {None}, u \in DOMAIN e_users,
                v \in DOMAIN e_verifications \cup {None}, r \in E!Outcomes \cup {None} :
                E!createAttendanceEvent(s, u, d, v, r)
    BY <2>6, AttendanceKeepsRecords
  <2>7. CASE \E x \in e_updates : E!TouchLands(x) \/ E!TouchFails(x)
    BY <2>7, UpdatesKeepRecords
  <2> QED BY <1>2, <2>1, <2>2, <2>3, <2>4, <2>5, <2>6, <2>7 DEF E!Next
<1> QED BY <1>1, <1>2

RecordsHeld == focus = "records" => RecordsInv

\* Users, verifications, attendance and the statements under way stay backed by the rows
\* they came from, in whatever order and number those statements land.
THEOREM RecordsSound == Spec => []RecordsHeld
<1>1. Init => RecordsHeld
  BY RecordsInvInit DEF Init, ConsoleInit, RecordsHeld
<1>2. RecordsHeld /\ [Next]_vars => RecordsHeld'
  BY FocusKept, RecordSteps, RecordStep DEF RecordsHeld
<1> QED BY <1>1, <1>2, PTL DEF Spec

\* The invariant contains the property of the runs.
LEMMA RecordsInvHolds == RecordsInv => E!RecordsAreBacked
BY DEF RecordsInv, E!RecordsAreBacked, E!SameScope, UsersBacked, VerificationsBacked,
   AttendanceBacked, TerminalsBacked, DevicesBacked, PassesStamped, RefersTo, E!Find, E!PassOf,
   Passed, Named

\* No row names a row of another tenant, a user is verified by a pass of his and by
\* each whose statement ran, a device was seen when it was told or named, and attendance
\* agrees with the verification it cites (platform.ts).
THEOREM RecordsStayBacked == Spec => []RecordsAreBacked
<1>1. RecordsHeld => RecordsAreBacked
  BY RecordsInvHolds DEF RecordsHeld, RecordsAreBacked
<1> QED BY <1>1, RecordsSound, PTL

-----------------------------------------------------------------------------
(* Console accounts *)

OnLink == [kind : {"park", "check", "tenant", "key"}, link : Ids]
Inserts == [kind : {"insert"}, tenant : Ids]
AccountCalls == {U!Idle} \cup OnLink \cup Inserts
Flying == {"check", "tenant", "key"}

AccountTypes ==
    /\ u_parked \in [Ids -> {"none", "open", "expired", "consumed"}]
    /\ u_account \in [Ids -> {"none", "active", "suspended"}]
    /\ u_key \in [U!KeyIds -> U!KeyRows \cup {None}]
    /\ u_call \in [Requests -> AccountCalls]
    /\ u_failed \subseteq Ids

\* A link is parked by one handler, and its row is not there before.
ParkInv ==
    /\ \A c \in Requests : u_call[c].kind = "park" => u_parked[u_call[c].link] = "none"
    /\ \A c, d \in Requests :
          u_call[c].kind = "park" /\ u_call[d].kind = "park" /\ u_call[c].link = u_call[d].link => c = d

\* A link is followed by one handler, which consumed it, and it alone makes its account.
FlightInv ==
    /\ \A c \in Requests : u_call[c].kind \in Flying =>
          /\ u_parked[u_call[c].link] = "consumed"
          /\ (u_call[c].kind = "key") = (u_account[u_call[c].link] # "none")
    /\ \A c, d \in Requests :
          u_call[c].kind \in Flying /\ u_call[d].kind \in Flying /\ u_call[c].link = u_call[d].link
          => c = d

\* Accounts come from consumed links, one of them; keys, and those about to be, are of
\* accounts.
OwnersInv ==
    /\ \A l \in Ids : u_account[l] # "none" => u_parked[l] = "consumed"
    /\ \A l, m \in Ids : u_account[l] # "none" /\ u_account[m] # "none" => l = m
    /\ \A k \in U!KeyIds : u_key[k] # None => u_account[u_key[k].tenant] # "none"
    /\ \A c \in Requests : u_call[c].kind = "insert" => u_account[u_call[c].tenant] # "none"

BrowserInv ==
    /\ u_cookie \in U!Accounts \cup {None}
    /\ u_token \in U!Accounts \cup {None}
    /\ u_asking \in U!Accounts \cup {None}
    /\ u_reveal # None => /\ u_reveal.tenant \in U!Accounts /\ u_reveal.key \in U!KeyIds
                          /\ u_key[u_reveal.key] # None
                          /\ u_key[u_reveal.key].tenant = u_reveal.tenant

\* Handlers that will insert a key of an account, without counting again.
IsBusy(k, t) == k = [kind |-> "insert", tenant |-> t] \/ k = [kind |-> "key", link |-> t]
Busy(t) == {c \in Requests : IsBusy(u_call[c], t)}

KeysInv ==
    \A t \in Ids :
       Cardinality(U!ActiveKeys(t)) + Cardinality(Busy(t)) <= KeyCap - 1 + Cardinality(Requests)

AccountsInv ==
    /\ AccountTypes /\ ParkInv /\ FlightInv /\ OwnersInv /\ U!LinksEndInAccounts /\ BrowserInv
    /\ KeysInv

\* The module's Cardinality is the library's.
LEMMA AccountCardinality == \A T : U!Cardinality(T) = Cardinality(T)
BY DEF U!Cardinality, Cardinality

\* What each kind of call holds.
LEMMA AccountKinds ==
    /\ U!Idle.kind = "idle" /\ U!Idle \in AccountCalls
    /\ \A k \in OnLink : k.link \in Ids /\ k = [kind |-> k.kind, link |-> k.link]
                         /\ k.kind \in {"park", "check", "tenant", "key"} /\ k \in AccountCalls
    /\ \A k \in Inserts : k.tenant \in Ids /\ k = [kind |-> "insert", tenant |-> k.tenant]
                          /\ k.kind = "insert" /\ k \in AccountCalls
    /\ \A k \in AccountCalls : /\ k.kind \in Flying \cup {"park"} => k \in OnLink
                               /\ k.kind = "insert" => k \in Inserts
BY DEF U!Idle, OnLink, Inserts, AccountCalls, Flying

\* Which records are busy with a key of an account.
LEMMA BusyKinds ==
    /\ \A t : ~IsBusy(U!Idle, t)
    /\ \A k \in OnLink : \A t : IsBusy(k, t) <=> k.kind = "key" /\ k.link = t
    /\ \A k \in Inserts : \A t : IsBusy(k, t) <=> k.tenant = t
<1>1. \A t : ~IsBusy(U!Idle, t)
  BY DEF U!Idle, IsBusy
<1>2. ASSUME NEW k \in OnLink, NEW t PROVE IsBusy(k, t) <=> k.kind = "key" /\ k.link = t
  <2>1. k = [kind |-> k.kind, link |-> k.link] /\ k.kind # "insert"
    BY AccountKinds
  <2>2. k # [kind |-> "insert", tenant |-> t]
    BY <2>1
  <2>3. k = [kind |-> "key", link |-> t] <=> k.kind = "key" /\ k.link = t
    BY <2>1
  <2> QED BY <2>2, <2>3 DEF IsBusy
<1>3. ASSUME NEW k \in Inserts, NEW t PROVE IsBusy(k, t) <=> k.tenant = t
  <2>1. k = [kind |-> "insert", tenant |-> k.tenant]
    BY AccountKinds
  <2>2. k # [kind |-> "key", link |-> t]
    BY <2>1
  <2>3. k = [kind |-> "insert", tenant |-> t] <=> k.tenant = t
    BY <2>1
  <2> QED BY <2>2, <2>3 DEF IsBusy
<1> QED BY <1>1, <1>2, <1>3

\* The keys of a tenant, and the calls that are about to add one, can be counted.
LEMMA FiniteKeys ==
    \A t \in Ids : /\ IsFiniteSet(U!ActiveKeys(t)) /\ Cardinality(U!ActiveKeys(t)) \in Nat
                   /\ IsFiniteSet(Busy(t)) /\ Cardinality(Busy(t)) \in Nat
                   /\ Cardinality(Busy(t)) <= Cardinality(Requests)
                   /\ Cardinality(Requests) \in Nat
<1>1. 1 \in Int /\ MaxKeys \in Int
  BY ServicesConstants
<1>2. IsFiniteSet(U!KeyIds)
  BY <1>1, FS_Interval DEF U!KeyIds
<1>3. \A t \in Ids : U!ActiveKeys(t) \subseteq U!KeyIds /\ Busy(t) \subseteq Requests
  BY DEF U!ActiveKeys, Busy
<1> QED BY <1>2, <1>3, FS_Subset, FS_CardinalityType, ServicesConstants

\* No accounts at first.
LEMMA AccountsInvInit == U!Init => AccountsInv
<1> SUFFICES ASSUME U!Init PROVE AccountsInv
  OBVIOUS
<1>1. \A c \in Requests : u_call[c] = U!Idle
  BY DEF U!Init
<1>2. AccountTypes /\ ParkInv /\ FlightInv /\ OwnersInv
  BY AccountKinds DEF U!Init, AccountTypes, ParkInv, FlightInv, OwnersInv, Flying
<1>3. U!LinksEndInAccounts /\ BrowserInv
  BY DEF U!Init, U!LinksEndInAccounts, BrowserInv
<1>4. \A t \in Ids : U!ActiveKeys(t) = {}
  <2> SUFFICES ASSUME NEW t \in Ids, NEW k \in U!KeyIds, u_key[k] = [tenant |-> t, status |-> "active"]
               PROVE FALSE
    BY DEF U!ActiveKeys
  <2>1. u_key[k] \in U!KeyRows
    BY DEF U!KeyRows
  <2> QED BY <2>1, ServicesConstants DEF U!Init
<1>5. \A t \in Ids : Busy(t) = {}
  BY <1>1, BusyKinds DEF Busy
<1>6. KeysInv
  <2>1. Cardinality({}) = 0 /\ Cardinality(Requests) \in Nat
    BY FS_EmptySet, FS_CardinalityType, ServicesConstants
  <2>2. PICK n \in Nat : n = Cardinality(Requests)
    BY <2>1
  <2>3. KeyCap \in Nat \ {0}
    BY ServicesConstants
  <2>4. 0 + 0 <= KeyCap - 1 + n
    BY <2>3
  <2> QED BY <1>4, <1>5, <2>1, <2>2, <2>4 DEF KeysInv
<1> QED BY <1>2, <1>3, <1>6 DEF AccountsInv

\* Keys and handlers that are busy with one only get fewer.
LEMMA FewerKeys ==
    ASSUME KeysInv, \A t \in Ids : U!ActiveKeys(t)' \subseteq U!ActiveKeys(t),
           \A t \in Ids : Busy(t)' \subseteq Busy(t)
    PROVE  KeysInv'
<1> SUFFICES ASSUME NEW t \in Ids
             PROVE  Cardinality(U!ActiveKeys(t)') + Cardinality(Busy(t)')
                       <= KeyCap - 1 + Cardinality(Requests)
  BY DEF KeysInv
<1>1. /\ IsFiniteSet(U!ActiveKeys(t)) /\ Cardinality(U!ActiveKeys(t)) \in Nat
      /\ IsFiniteSet(Busy(t)) /\ Cardinality(Busy(t)) \in Nat
      /\ Cardinality(Requests) \in Nat
  BY FiniteKeys
<1>2. /\ Cardinality(U!ActiveKeys(t)') <= Cardinality(U!ActiveKeys(t))
      /\ Cardinality(U!ActiveKeys(t)') \in Nat
  BY <1>1, FS_Subset, FS_CardinalityType
<1>3. Cardinality(Busy(t)') <= Cardinality(Busy(t)) /\ Cardinality(Busy(t)') \in Nat
  BY <1>1, FS_Subset, FS_CardinalityType
<1> QED BY <1>1, <1>2, <1>3, ServicesConstants DEF KeysInv

\* The browser's own steps.
LEMMA BrowserSteps ==
    ASSUME AccountsInv, \/ U!SignupComplete \/ U!RevealLapses \/ U!AccountAnswered \/ U!logout
                        \/ \E l \in Ids : U!Login(l)
    PROVE  AccountsInv'
<1>1. UNCHANGED <<u_parked, u_account, u_key, u_failed, u_call>>
  BY DEF U!SignupComplete, U!RevealLapses, U!AccountAnswered, U!logout, U!Login, U!rows
<1>2. U!Accounts' = U!Accounts
  BY <1>1 DEF U!Accounts
<1>3. BrowserInv
  BY DEF AccountsInv
<1>4. BrowserInv'
  <2>1. CASE U!SignupComplete
    BY <1>1, <1>2, <1>3, <2>1 DEF BrowserInv, U!SignupComplete, U!Refreshed
  <2>2. CASE U!RevealLapses
    BY <1>1, <1>2, <1>3, <2>2 DEF BrowserInv, U!RevealLapses
  <2>3. CASE U!AccountAnswered
    BY <1>1, <1>2, <1>3, <2>3 DEF BrowserInv, U!AccountAnswered
  <2>4. CASE U!logout
    BY <1>1, <1>2, <1>3, <2>4 DEF BrowserInv, U!logout
  <2>5. ASSUME NEW l \in Ids, U!Login(l) PROVE BrowserInv'
    <3>1. l \in U!Accounts
      BY <2>5 DEF U!Login, U!Accounts
    <3> QED BY <1>1, <1>2, <1>3, <2>5, <3>1 DEF BrowserInv, U!Login, U!Refreshed
  <2> QED BY <2>1, <2>2, <2>3, <2>4, <2>5
<1>5. AccountTypes' /\ ParkInv' /\ FlightInv' /\ OwnersInv'
  BY <1>1 DEF AccountsInv, AccountTypes, ParkInv, FlightInv, OwnersInv
<1>6. U!LinksEndInAccounts' /\ KeysInv'
  BY <1>1, <1>2 DEF AccountsInv, U!LinksEndInAccounts, U!InFlight, KeysInv, U!ActiveKeys, Busy
<1> QED BY <1>4, <1>5, <1>6 DEF AccountsInv

\* A handler that moves to another record.
LEMMA AccountCallTo ==
    ASSUME AccountTypes, NEW c \in Requests, NEW r \in AccountCalls,
           u_call' = [u_call EXCEPT ![c] = r]
    PROVE  /\ u_call' \in [Requests -> AccountCalls] /\ u_call'[c] = r
           /\ \A d \in Requests : d # c => u_call'[d] = u_call[d]
           /\ \A t \in Ids : ~IsBusy(r, t) => Busy(t)' \subseteq Busy(t)
<1>1. /\ u_call' \in [Requests -> AccountCalls] /\ u_call'[c] = r
      /\ \A d \in Requests : d # c => u_call'[d] = u_call[d]
  BY DEF AccountTypes
<1> QED BY <1>1 DEF Busy

\* Keys of accounts that are as they were.
LEMMA SameKeys ==
    ASSUME u_key' = u_key
    PROVE  \A t \in Ids : U!ActiveKeys(t)' = U!ActiveKeys(t)
BY DEF U!ActiveKeys

\* Rows and browser that are as they were: the browser's part stays.
LEMMA SameBrowser ==
    ASSUME BrowserInv, U!Accounts \subseteq U!Accounts',
           \A k \in U!KeyIds : u_key[k] # None => u_key'[k] # None /\ u_key'[k].tenant = u_key[k].tenant,
           UNCHANGED U!browser
    PROVE  BrowserInv'
BY DEF BrowserInv, U!browser

\* A signup takes a link that is not in use.
LEMMA SignupKeepsAccounts ==
    ASSUME AccountsInv, NEW c \in Requests, NEW l \in Ids, U!Signup(c, l)
    PROVE  AccountsInv'
<1>1. PICK r : r = [kind |-> "park", link |-> l]
  OBVIOUS
<1>2. r \in OnLink /\ r.kind = "park" /\ r.link = l
  BY <1>1 DEF OnLink
<1>3. /\ u_call[c] = U!Idle /\ u_parked[l] = "none" /\ \A d \in Requests : u_call[d] # r
      /\ u_call' = [u_call EXCEPT ![c] = r]
      /\ UNCHANGED <<u_parked, u_account, u_key, u_failed>> /\ UNCHANGED U!browser
  BY <1>1 DEF U!Signup, U!rows
<1>4. AccountTypes /\ \A d \in Requests : u_call[d] \in AccountCalls
  BY DEF AccountsInv, AccountTypes
<1>5. /\ u_call' \in [Requests -> AccountCalls] /\ u_call'[c] = r
      /\ \A d \in Requests : d # c => u_call'[d] = u_call[d]
      /\ \A t \in Ids : Busy(t)' \subseteq Busy(t)
  BY <1>2, <1>3, <1>4, AccountCallTo, AccountKinds, BusyKinds
<1>6. AccountTypes'
  BY <1>3, <1>4, <1>5 DEF AccountTypes
<1>7. \A d \in Requests : u_call[d].kind = "park" => u_call[d].link # l
  <2> SUFFICES ASSUME NEW d \in Requests, u_call[d].kind = "park", u_call[d].link = l PROVE FALSE
    OBVIOUS
  <2>1. u_call[d] = [kind |-> u_call[d].kind, link |-> u_call[d].link]
    BY <1>4, AccountKinds
  <2> QED BY <1>1, <1>3, <2>1
<1>8. ParkInv'
  BY <1>2, <1>3, <1>5, <1>7 DEF AccountsInv, ParkInv
<1>9. FlightInv' /\ OwnersInv'
  BY <1>2, <1>3, <1>5 DEF AccountsInv, FlightInv, OwnersInv, Flying
<1>10. \A m \in Ids : U!InFlight(m) => U!InFlight(m)'
  BY <1>3, <1>5, AccountKinds DEF U!InFlight
<1>11. U!LinksEndInAccounts' /\ U!Accounts' = U!Accounts
  BY <1>3, <1>10 DEF AccountsInv, U!LinksEndInAccounts, U!Accounts
<1>12. BrowserInv'
  BY <1>3, <1>11, SameBrowser DEF AccountsInv
<1>13. KeysInv'
  BY <1>3, <1>5, SameKeys, FewerKeys DEF AccountsInv
<1> QED BY <1>6, <1>8, <1>9, <1>11, <1>12, <1>13 DEF AccountsInv

\* The signup is parked under its link.
LEMMA ParkKeepsAccounts ==
    ASSUME AccountsInv, NEW c \in Requests, U!createPendingSignup(c)
    PROVE  AccountsInv'
<1>1. AccountTypes /\ \A d \in Requests : u_call[d] \in AccountCalls
  BY DEF AccountsInv, AccountTypes
<1>2. PICK l \in Ids : l = u_call[c].link /\ u_call[c].kind = "park"
  BY <1>1, AccountKinds DEF U!createPendingSignup
<1>3. /\ u_parked' = [u_parked EXCEPT ![l] = "open"]
      /\ u_call' = [u_call EXCEPT ![c] = U!Idle]
      /\ UNCHANGED <<u_account, u_key, u_failed>> /\ UNCHANGED U!browser
  BY <1>2 DEF U!createPendingSignup
<1>4. /\ u_call' \in [Requests -> AccountCalls] /\ u_call'[c] = U!Idle
      /\ \A d \in Requests : d # c => u_call'[d] = u_call[d]
      /\ \A t \in Ids : Busy(t)' \subseteq Busy(t)
  BY <1>1, <1>3, AccountCallTo, AccountKinds, BusyKinds
<1>5. u_parked[l] = "none"
  BY <1>2 DEF AccountsInv, ParkInv
<1>6. u_parked \in [Ids -> {"none", "open", "expired", "consumed"}]
  BY <1>1 DEF AccountTypes
<1>7. u_parked'[l] = "open" /\ \A m \in Ids : m # l => u_parked'[m] = u_parked[m]
  BY <1>3, <1>6
<1>8. AccountTypes'
  BY <1>1, <1>3, <1>4 DEF AccountTypes
<1>9. ParkInv'
  <2>1. \A d \in Requests : d # c /\ u_call[d].kind = "park" => u_call[d].link # l /\ u_call[d].link \in Ids
    BY <1>1, <1>2, AccountKinds DEF AccountsInv, ParkInv
  <2> QED BY <1>4, <1>7, <2>1, AccountKinds DEF AccountsInv, ParkInv
<1>10. FlightInv'
  <2>1. \A d \in Requests : u_call[d].kind \in Flying => u_call[d].link # l /\ u_call[d].link \in Ids
    BY <1>1, <1>5, AccountKinds DEF AccountsInv, FlightInv
  <2> QED BY <1>3, <1>4, <1>7, <2>1, AccountKinds DEF AccountsInv, FlightInv, Flying
<1>11. OwnersInv'
  BY <1>3, <1>4, <1>5, <1>7, AccountKinds DEF AccountsInv, OwnersInv
<1>12. \A m \in Ids : U!InFlight(m) => U!InFlight(m)'
  BY <1>2, <1>4 DEF U!InFlight
<1>13. U!LinksEndInAccounts' /\ U!Accounts' = U!Accounts
  BY <1>3, <1>7, <1>12 DEF AccountsInv, U!LinksEndInAccounts, U!Accounts
<1>14. BrowserInv'
  BY <1>3, <1>13, SameBrowser DEF AccountsInv
<1>15. KeysInv'
  BY <1>3, <1>4, SameKeys, FewerKeys DEF AccountsInv
<1> QED BY <1>8, <1>9, <1>10, <1>11, <1>13, <1>14, <1>15 DEF AccountsInv

\* A link is consumed by one call at most.
LEMMA ConsumeKeepsAccounts ==
    ASSUME AccountsInv, NEW c \in Requests, NEW l \in Ids, U!consumePendingSignup(c, l)
    PROVE  AccountsInv'
<1>1. AccountTypes /\ \A d \in Requests : u_call[d] \in AccountCalls
  BY DEF AccountsInv, AccountTypes
<1>2. PICK r : r = [kind |-> "check", link |-> l]
  OBVIOUS
<1>3. r \in OnLink /\ r.kind = "check" /\ r.link = l
  BY <1>2 DEF OnLink
<1>4. /\ u_call[c] = U!Idle /\ u_parked[l] = "open" /\ u_parked' = [u_parked EXCEPT ![l] = "consumed"]
      /\ u_call' = [u_call EXCEPT ![c] = r]
      /\ UNCHANGED <<u_account, u_key, u_failed>> /\ UNCHANGED U!browser
  BY <1>2 DEF U!consumePendingSignup
<1>5. /\ u_call' \in [Requests -> AccountCalls] /\ u_call'[c] = r
      /\ \A d \in Requests : d # c => u_call'[d] = u_call[d]
      /\ \A t \in Ids : Busy(t)' \subseteq Busy(t)
  BY <1>1, <1>3, <1>4, AccountCallTo, AccountKinds, BusyKinds
<1>6. u_parked \in [Ids -> {"none", "open", "expired", "consumed"}]
  BY <1>1 DEF AccountTypes
<1>7. u_parked'[l] = "consumed" /\ \A m \in Ids : m # l => u_parked'[m] = u_parked[m]
  BY <1>4, <1>6
<1>8. AccountTypes'
  BY <1>1, <1>4, <1>5 DEF AccountTypes
<1>9. ParkInv'
  <2>1. \A d \in Requests : u_call[d].kind = "park" => u_call[d].link # l /\ u_call[d].link \in Ids
    BY <1>1, <1>4, AccountKinds DEF AccountsInv, ParkInv
  <2> QED BY <1>3, <1>5, <1>7, <2>1 DEF AccountsInv, ParkInv
<1>10. FlightInv'
  <2>1. \A d \in Requests : u_call[d].kind \in Flying => u_call[d].link # l /\ u_call[d].link \in Ids
    BY <1>1, <1>4, AccountKinds DEF AccountsInv, FlightInv
  <2>2. u_account[l] = "none"
    BY <1>4 DEF AccountsInv, OwnersInv
  <2> QED BY <1>3, <1>4, <1>5, <1>7, <2>1, <2>2 DEF AccountsInv, FlightInv
<1>11. OwnersInv'
  BY <1>3, <1>4, <1>5, <1>7 DEF AccountsInv, OwnersInv
<1>12. U!InFlight(l)' /\ \A m \in Ids : U!InFlight(m) => U!InFlight(m)'
  BY <1>3, <1>4, <1>5, AccountKinds DEF U!InFlight
<1>13. U!LinksEndInAccounts' /\ U!Accounts' = U!Accounts
  BY <1>4, <1>7, <1>12 DEF AccountsInv, U!LinksEndInAccounts, U!Accounts
<1>14. BrowserInv'
  BY <1>4, <1>13, SameBrowser DEF AccountsInv
<1>15. KeysInv'
  BY <1>4, <1>5, SameKeys, FewerKeys DEF AccountsInv
<1> QED BY <1>8, <1>9, <1>10, <1>11, <1>13, <1>14, <1>15 DEF AccountsInv

\* A link runs out.
LEMMA ExpiryKeepsAccounts ==
    ASSUME AccountsInv, NEW l \in Ids, U!LinkExpires(l)
    PROVE  AccountsInv'
<1>1. /\ u_parked[l] = "open" /\ u_parked' = [u_parked EXCEPT ![l] = "expired"]
      /\ UNCHANGED <<u_account, u_key, u_call, u_failed>> /\ UNCHANGED U!browser
  BY DEF U!LinkExpires
<1>2. AccountTypes /\ \A d \in Requests : u_call[d] \in AccountCalls
  BY DEF AccountsInv, AccountTypes
<1>3. u_parked'[l] = "expired" /\ \A m \in Ids : m # l => u_parked'[m] = u_parked[m]
  BY <1>1, <1>2 DEF AccountTypes
<1>4. AccountTypes' /\ OwnersInv'
  BY <1>1, <1>2, <1>3 DEF AccountsInv, AccountTypes, OwnersInv
<1>5. \A d \in Requests : u_call[d].kind \in Flying \cup {"park"} =>
          u_call[d].link # l /\ u_call[d].link \in Ids
  BY <1>1, <1>2, AccountKinds DEF AccountsInv, FlightInv, ParkInv
<1>6. ParkInv' /\ FlightInv'
  BY <1>1, <1>3, <1>5 DEF AccountsInv, ParkInv, FlightInv
<1>7. U!LinksEndInAccounts' /\ U!Accounts' = U!Accounts
  BY <1>1, <1>3 DEF AccountsInv, U!LinksEndInAccounts, U!Accounts, U!InFlight
<1>8. BrowserInv'
  BY <1>1, <1>7, SameBrowser DEF AccountsInv
<1>9. KeysInv'
  BY <1>1 DEF AccountsInv, KeysInv, U!ActiveKeys, Busy
<1> QED BY <1>4, <1>6, <1>7, <1>8, <1>9 DEF AccountsInv

\* The look at the addresses goes on to the tenant, or ends.
LEMMA ConflictKeepsAccounts ==
    ASSUME AccountsInv, NEW c \in Requests, U!CheckConflict(c)
    PROVE  AccountsInv'
<1>1. AccountTypes /\ \A d \in Requests : u_call[d] \in AccountCalls
  BY DEF AccountsInv, AccountTypes
<1>2. PICK k \in OnLink : k = u_call[c] /\ k.kind = "check"
  BY <1>1, AccountKinds DEF U!CheckConflict, Flying
<1>3. PICK r \in AccountCalls :
          /\ r.kind \notin {"park", "key", "insert"} /\ \A t : ~IsBusy(r, t)
          /\ u_call' = [u_call EXCEPT ![c] = r]
          /\ \/ r.kind = "tenant" /\ r.link = k.link
             \/ r = U!Idle /\ U!Accounts # {}
  <2>1. CASE U!Accounts # {}
    BY <1>2, <2>1, AccountKinds, BusyKinds DEF U!CheckConflict
  <2>2. CASE U!Accounts = {}
    <3>1. PICK r : r = [k EXCEPT !.kind = "tenant"]
      OBVIOUS
    <3>2. r \in OnLink /\ r.kind = "tenant" /\ r.link = k.link
      BY <3>1 DEF OnLink
    <3>3. u_call' = [u_call EXCEPT ![c] = r]
      BY <1>2, <2>2, <3>1 DEF U!CheckConflict
    <3> QED BY <3>2, <3>3, AccountKinds, BusyKinds
  <2> QED BY <2>1, <2>2
<1>4. UNCHANGED <<u_parked, u_account, u_key, u_failed>> /\ UNCHANGED U!browser
  BY DEF U!CheckConflict, U!rows
<1>5. /\ u_call' \in [Requests -> AccountCalls] /\ u_call'[c] = r
      /\ \A d \in Requests : d # c => u_call'[d] = u_call[d]
      /\ \A t \in Ids : Busy(t)' \subseteq Busy(t)
  BY <1>1, <1>3, AccountCallTo
<1>6. AccountTypes' /\ ParkInv' /\ OwnersInv'
  BY <1>1, <1>3, <1>4, <1>5, AccountKinds DEF AccountsInv, AccountTypes, ParkInv, OwnersInv
<1>7. u_parked[k.link] = "consumed" /\ u_account[k.link] = "none" /\ k.link \in Ids
  BY <1>2, AccountKinds DEF AccountsInv, FlightInv, Flying
<1>8. FlightInv'
  <2>1. \A d \in Requests : u_call'[d].kind \in Flying =>
            u_call[d].kind \in Flying /\ u_call'[d].link = u_call[d].link
    BY <1>2, <1>3, <1>5, AccountKinds DEF Flying
  <2>2. \A d \in Requests : u_call'[d].kind \in Flying =>
            (u_call'[d].kind = "key") = (u_call[d].kind = "key")
    BY <1>2, <1>3, <1>5, AccountKinds DEF Flying
  <2> QED BY <1>4, <2>1, <2>2 DEF AccountsInv, FlightInv
<1>9. U!Accounts' = U!Accounts
  BY <1>4 DEF U!Accounts
<1>10. U!LinksEndInAccounts'
  <2> SUFFICES ASSUME NEW m \in Ids, u_parked[m] = "consumed", ~U!InFlight(m)', m \notin u_failed
               PROVE  /\ U!Accounts # {}
                      /\ u_account[m] # "none" =>
                            \E j \in U!KeyIds : u_key[j] # None /\ u_key[j].tenant = m
    BY <1>4, <1>9 DEF U!LinksEndInAccounts
  <2>1. CASE ~U!InFlight(m)
    BY <2>1 DEF AccountsInv, U!LinksEndInAccounts
  <2>2. CASE U!InFlight(m)
    <3>1. k.link = m /\ r = U!Idle /\ U!Accounts # {}
      BY <1>2, <1>3, <1>5, <2>2, AccountKinds DEF U!InFlight
    <3> QED BY <1>7, <3>1
  <2> QED BY <2>1, <2>2
<1>11. BrowserInv'
  BY <1>4, <1>9, SameBrowser DEF AccountsInv
<1>12. KeysInv'
  BY <1>4, <1>5, SameKeys, FewerKeys DEF AccountsInv
<1> QED BY <1>6, <1>8, <1>10, <1>11, <1>12 DEF AccountsInv

\* The tenant is made from a consumed link.
LEMMA TenantKeepsAccounts ==
    ASSUME AccountsInv, NEW c \in Requests, U!createTenantWithHash(c)
    PROVE  AccountsInv'
<1>1. AccountTypes /\ \A d \in Requests : u_call[d] \in AccountCalls
  BY DEF AccountsInv, AccountTypes
<1>2. PICK k \in OnLink : k = u_call[c] /\ k.kind = "tenant"
  BY <1>1, AccountKinds DEF U!createTenantWithHash, Flying
<1>3. PICK l \in Ids : l = k.link
  BY AccountKinds
<1>4. PICK r : r = [k EXCEPT !.kind = "key"]
  OBVIOUS
<1>5. r \in OnLink /\ r.kind = "key" /\ r.link = l
  BY <1>3, <1>4 DEF OnLink
<1>6. /\ U!Accounts = {} /\ u_account' = [u_account EXCEPT ![l] = "active"]
      /\ u_call' = [u_call EXCEPT ![c] = r]
      /\ UNCHANGED <<u_parked, u_key, u_failed>> /\ UNCHANGED U!browser
  BY <1>2, <1>3, <1>4 DEF U!createTenantWithHash
<1>7. /\ u_call' \in [Requests -> AccountCalls] /\ u_call'[c] = r
      /\ \A d \in Requests : d # c => u_call'[d] = u_call[d]
      /\ \A t \in Ids : t # l => Busy(t)' \subseteq Busy(t)
  BY <1>1, <1>5, <1>6, AccountCallTo, AccountKinds, BusyKinds
<1>8. /\ u_account'[l] = "active" /\ \A m \in Ids : u_account[m] = "none"
      /\ \A m \in Ids : m # l => u_account'[m] = u_account[m]
  BY <1>1, <1>6 DEF AccountTypes, U!Accounts
<1>9. u_parked[l] = "consumed"
  BY <1>2, <1>3 DEF AccountsInv, FlightInv, Flying
<1>10. AccountTypes' /\ ParkInv'
  BY <1>1, <1>5, <1>6, <1>7 DEF AccountsInv, AccountTypes, ParkInv
<1>11. \A d \in Requests : d # c /\ u_call[d].kind \in Flying => u_call[d].link \in Ids \ {l}
  BY <1>1, <1>2, <1>3, AccountKinds DEF AccountsInv, FlightInv, Flying
<1>12. FlightInv'
  BY <1>5, <1>6, <1>7, <1>8, <1>9, <1>11 DEF AccountsInv, FlightInv
<1>13. \A k2 \in U!KeyIds : u_key[k2] = None
  <2>1. \A k2 \in U!KeyIds : u_key[k2] # None => u_key[k2].tenant \in Ids
    BY <1>1 DEF AccountTypes, U!KeyRows
  <2> QED BY <1>8, <2>1 DEF AccountsInv, OwnersInv
<1>14. \A d \in Requests : u_call[d].kind # "insert"
  BY <1>1, <1>8, AccountKinds DEF AccountsInv, OwnersInv
<1>15. OwnersInv'
  BY <1>5, <1>6, <1>7, <1>8, <1>9, <1>13, <1>14 DEF AccountsInv, OwnersInv
<1>16. U!InFlight(l)'
  BY <1>5, <1>7 DEF U!InFlight
<1>17. U!LinksEndInAccounts'
  <2>1. \A m \in Ids : m # l => u_account'[m] = "none"
    BY <1>8
  <2>2. U!Accounts' # {}
    BY <1>8 DEF U!Accounts
  <2> QED BY <1>6, <1>16, <2>1, <2>2 DEF U!LinksEndInAccounts
<1>18. BrowserInv'
  BY <1>6, SameBrowser DEF AccountsInv
<1>19. KeysInv'
  <2> SUFFICES ASSUME NEW t \in Ids
               PROVE  Cardinality(U!ActiveKeys(t)') + Cardinality(Busy(t)')
                         <= KeyCap - 1 + Cardinality(Requests)
    BY DEF KeysInv
  <2>1. U!ActiveKeys(t)' = {}
    <3>1. \A k2 \in U!KeyIds : u_key[k2] # [tenant |-> t, status |-> "active"]
      BY <1>13, ServicesConstants DEF U!KeyRows
    <3> QED BY <1>6, <3>1 DEF U!ActiveKeys
  <2>2. Busy(t)' \subseteq Requests
    BY DEF Busy
  <2>3. Cardinality(Busy(t)') <= Cardinality(Requests) /\ Cardinality(Busy(t)') \in Nat
        /\ Cardinality(Requests) \in Nat
    BY <2>2, FS_Subset, FS_CardinalityType, ServicesConstants
  <2>4. Cardinality({}) = 0
    BY FS_EmptySet
  <2> QED BY <2>1, <2>3, <2>4, ServicesConstants
<1> QED BY <1>10, <1>12, <1>15, <1>17, <1>18, <1>19 DEF AccountsInv

\* A call that fails leaves what it did.
LEMMA FailureKeepsAccounts ==
    ASSUME AccountsInv, NEW c \in Requests, U!CallFails(c)
    PROVE  AccountsInv'
<1>1. AccountTypes /\ \A d \in Requests : u_call[d] \in AccountCalls
  BY DEF AccountsInv, AccountTypes
<1>2. /\ u_call' = [u_call EXCEPT ![c] = U!Idle]
      /\ u_failed' = u_failed \cup {l \in Ids : u_call[c].kind \in Flying /\ u_call[c].link = l}
      /\ UNCHANGED <<u_parked, u_account, u_key>> /\ UNCHANGED U!browser
  BY DEF U!CallFails, Flying
<1>3. /\ u_call' \in [Requests -> AccountCalls] /\ u_call'[c] = U!Idle
      /\ \A d \in Requests : d # c => u_call'[d] = u_call[d]
      /\ \A t \in Ids : Busy(t)' \subseteq Busy(t)
  BY <1>1, <1>2, AccountCallTo, AccountKinds, BusyKinds
<1>4. AccountTypes' /\ ParkInv' /\ OwnersInv' /\ FlightInv'
  BY <1>1, <1>2, <1>3, AccountKinds
     DEF AccountsInv, AccountTypes, ParkInv, OwnersInv, FlightInv, Flying
<1>5. U!Accounts' = U!Accounts
  BY <1>2 DEF U!Accounts
<1>6. U!LinksEndInAccounts'
  <2>1. \A m \in Ids : ~U!InFlight(m)' /\ m \notin u_failed' => ~U!InFlight(m) /\ m \notin u_failed
    BY <1>2, <1>3 DEF U!InFlight, Flying
  <2> QED BY <1>2, <1>5, <2>1 DEF AccountsInv, U!LinksEndInAccounts
<1>7. BrowserInv'
  BY <1>2, <1>5, SameBrowser DEF AccountsInv
<1>8. KeysInv'
  BY <1>2, <1>3, SameKeys, FewerKeys DEF AccountsInv
<1> QED BY <1>4, <1>6, <1>7, <1>8 DEF AccountsInv

\* The count of the keys precedes the insert.
LEMMA CountKeepsAccounts ==
    ASSUME AccountsInv, NEW c \in Requests, U!countActiveKeys(c)
    PROVE  AccountsInv'
<1>1. AccountTypes /\ \A d \in Requests : u_call[d] \in AccountCalls
  BY DEF AccountsInv, AccountTypes
<1>2. PICK t \in Ids : t = u_token /\ u_account[t] # "none"
  BY DEF AccountsInv, BrowserInv, U!countActiveKeys, U!Accounts
<1>3. PICK r : r = [kind |-> "insert", tenant |-> t]
  OBVIOUS
<1>4. r \in Inserts /\ r.kind = "insert" /\ r.tenant = t
  BY <1>3 DEF Inserts
<1>5. /\ u_call[c] = U!Idle /\ Cardinality(U!ActiveKeys(t)) < KeyCap
      /\ u_call' = [u_call EXCEPT ![c] = r]
      /\ UNCHANGED <<u_parked, u_account, u_key, u_failed>> /\ UNCHANGED U!browser
  BY <1>2, <1>3, AccountCardinality DEF U!countActiveKeys, U!rows
<1>6. /\ u_call' \in [Requests -> AccountCalls] /\ u_call'[c] = r
      /\ \A d \in Requests : d # c => u_call'[d] = u_call[d]
      /\ \A s \in Ids : s # t => Busy(s)' \subseteq Busy(s)
  BY <1>1, <1>4, <1>5, AccountCallTo, AccountKinds, BusyKinds
<1>7. AccountTypes' /\ ParkInv' /\ OwnersInv' /\ FlightInv'
  BY <1>1, <1>2, <1>4, <1>5, <1>6
     DEF AccountsInv, AccountTypes, ParkInv, OwnersInv, FlightInv, Flying
<1>8. \A m \in Ids : U!InFlight(m) => U!InFlight(m)'
  BY <1>5, <1>6, AccountKinds DEF U!InFlight
<1>9. U!LinksEndInAccounts' /\ U!Accounts' = U!Accounts
  BY <1>5, <1>8 DEF AccountsInv, U!LinksEndInAccounts, U!Accounts
<1>10. BrowserInv'
  BY <1>5, <1>9, SameBrowser DEF AccountsInv
<1>11. KeysInv'
  <2> SUFFICES ASSUME NEW s \in Ids
               PROVE  Cardinality(U!ActiveKeys(s)') + Cardinality(Busy(s)')
                         <= KeyCap - 1 + Cardinality(Requests)
    BY DEF KeysInv
  <2>1. U!ActiveKeys(s)' = U!ActiveKeys(s)
    BY <1>5, SameKeys
  <2>2. /\ IsFiniteSet(U!ActiveKeys(s)) /\ Cardinality(U!ActiveKeys(s)) \in Nat
        /\ IsFiniteSet(Busy(s)) /\ Cardinality(Busy(s)) \in Nat
        /\ Cardinality(Requests) \in Nat
    BY FiniteKeys
  <2>3. CASE s # t
    <3>1. Cardinality(Busy(s)') <= Cardinality(Busy(s)) /\ Cardinality(Busy(s)') \in Nat
      BY <1>6, <2>2, <2>3, FS_Subset, FS_CardinalityType
    <3> QED BY <2>1, <2>2, <3>1, ServicesConstants DEF AccountsInv, KeysInv
  <2>4. CASE s = t
    <3>1. Busy(s)' \subseteq Requests
      BY DEF Busy
    <3>2. Cardinality(Busy(s)') <= Cardinality(Requests) /\ Cardinality(Busy(s)') \in Nat
      BY <3>1, FS_Subset, FS_CardinalityType, ServicesConstants
    <3> QED BY <1>5, <2>1, <2>2, <2>4, <3>2, ServicesConstants
  <2> QED BY <2>3, <2>4
<1> QED BY <1>7, <1>9, <1>10, <1>11 DEF AccountsInv

\* A key is made by a handler that was busy with it.
LEMMA NewKeyKeepsCap ==
    ASSUME AccountsInv, NEW c \in Requests, NEW k \in U!KeyIds, NEW t \in Ids,
           IsBusy(u_call[c], t), \A s \in Ids : s # t => ~IsBusy(u_call[c], s),
           U!NewKey(k, t), u_call' = [u_call EXCEPT ![c] = U!Idle]
    PROVE  KeysInv'
<1>1. AccountTypes
  BY DEF AccountsInv
<1>2. PICK row : row = [tenant |-> t, status |-> "active"]
  OBVIOUS
<1>3. row \in U!KeyRows /\ row # None
  BY <1>2, ServicesConstants DEF U!KeyRows
<1>4. u_key[k] = None /\ u_key' = [u_key EXCEPT ![k] = row] /\ u_key \in [U!KeyIds -> U!KeyRows \cup {None}]
  BY <1>1, <1>2 DEF U!NewKey, AccountTypes
<1>5. /\ u_call'[c] = U!Idle /\ \A d \in Requests : d # c => u_call'[d] = u_call[d]
  BY <1>1 DEF AccountTypes
<1> SUFFICES ASSUME NEW s \in Ids
             PROVE  Cardinality(U!ActiveKeys(s)') + Cardinality(Busy(s)')
                       <= KeyCap - 1 + Cardinality(Requests)
  BY DEF KeysInv
<1>6. /\ IsFiniteSet(U!ActiveKeys(s)) /\ Cardinality(U!ActiveKeys(s)) \in Nat
      /\ IsFiniteSet(Busy(s)) /\ Cardinality(Busy(s)) \in Nat /\ Cardinality(Requests) \in Nat
  BY FiniteKeys
<1>7. Cardinality(U!ActiveKeys(s)) + Cardinality(Busy(s)) <= KeyCap - 1 + Cardinality(Requests)
  BY DEF AccountsInv, KeysInv
<1>8. CASE s = t
  <2>1. k \notin U!ActiveKeys(s) /\ U!ActiveKeys(s)' = U!ActiveKeys(s) \cup {k}
    BY <1>2, <1>3, <1>4, <1>8 DEF U!ActiveKeys
  <2>2. c \in Busy(s) /\ Busy(s)' = Busy(s) \ {c}
    BY <1>5, <1>8, BusyKinds DEF Busy
  <2>3. Cardinality(U!ActiveKeys(s)') = Cardinality(U!ActiveKeys(s)) + 1
    BY <1>6, <2>1, FS_AddElement
  <2>4. Cardinality(Busy(s)') = Cardinality(Busy(s)) - 1
    BY <1>6, <2>2, FS_RemoveElement
  <2> QED BY <1>6, <1>7, <2>3, <2>4, ServicesConstants
<1>9. CASE s # t
  <2>1. U!ActiveKeys(s)' = U!ActiveKeys(s)
    <3>1. row # [tenant |-> s, status |-> "active"] /\ None # [tenant |-> s, status |-> "active"]
      BY <1>2, <1>9, ServicesConstants DEF U!KeyRows
    <3> QED BY <1>4, <3>1 DEF U!ActiveKeys
  <2>2. Busy(s)' = Busy(s)
    BY <1>5, <1>9, BusyKinds DEF Busy
  <2> QED BY <1>7, <2>1, <2>2
<1> QED BY <1>8, <1>9

\* The first key of a tenant, or one more of those that were counted.
LEMMA NewKeyKeepsAccounts ==
    ASSUME AccountsInv, NEW c \in Requests, NEW k \in U!KeyIds,
           U!FirstKey(c, k) \/ U!createApiKey(c, k)
    PROVE  AccountsInv'
<1>1. AccountTypes /\ \A d \in Requests : u_call[d] \in AccountCalls
  BY DEF AccountsInv, AccountTypes
<1>2. PICK t \in Ids :
          /\ IsBusy(u_call[c], t) /\ \A s \in Ids : s # t => ~IsBusy(u_call[c], s)
          /\ U!NewKey(k, t) /\ u_account[t] # "none"
          /\ \/ u_call[c].kind = "insert" /\ UNCHANGED <<u_cookie, u_reveal>>
             \/ /\ u_call[c].kind = "key" /\ u_call[c].link = t
                /\ \/ u_cookie' = t /\ u_reveal' = [tenant |-> t, key |-> k]
                   \/ UNCHANGED <<u_cookie, u_reveal>>
  <2>1. CASE U!FirstKey(c, k)
    <3>1. u_call[c] \in OnLink /\ u_call[c].kind = "key"
      BY <1>1, <2>1, AccountKinds DEF U!FirstKey, Flying
    <3>2. PICK t \in Ids : t = u_call[c].link
      BY <3>1, AccountKinds
    <3>3. u_account[t] # "none"
      BY <3>1, <3>2 DEF AccountsInv, FlightInv, Flying
    <3> QED BY <2>1, <3>1, <3>2, <3>3, BusyKinds DEF U!FirstKey
  <2>2. CASE U!createApiKey(c, k)
    <3>1. u_call[c] \in Inserts /\ u_call[c].kind = "insert"
      BY <1>1, <2>2, AccountKinds DEF U!createApiKey
    <3>2. PICK t \in Ids : t = u_call[c].tenant
      BY <3>1, AccountKinds
    <3>3. u_account[t] # "none"
      BY <3>1, <3>2 DEF AccountsInv, OwnersInv
    <3> QED BY <2>2, <3>1, <3>2, <3>3, BusyKinds DEF U!createApiKey, U!browser
  <2> QED BY <2>1, <2>2
<1>3. /\ u_call' = [u_call EXCEPT ![c] = U!Idle]
      /\ UNCHANGED <<u_parked, u_account, u_failed, u_token, u_asking>>
  BY DEF U!FirstKey, U!createApiKey, U!browser
<1>4. KeysInv'
  BY <1>2, <1>3, NewKeyKeepsCap
<1>5. PICK row : row = [tenant |-> t, status |-> "active"]
  OBVIOUS
<1>6. row \in U!KeyRows /\ row # None /\ row.tenant = t
  BY <1>5, ServicesConstants DEF U!KeyRows
<1>7. /\ u_key[k] = None /\ u_key' = [u_key EXCEPT ![k] = row]
      /\ u_key \in [U!KeyIds -> U!KeyRows \cup {None}]
  BY <1>1, <1>2, <1>5 DEF U!NewKey, AccountTypes
<1>8. /\ u_key' \in [U!KeyIds -> U!KeyRows \cup {None}] /\ u_key'[k] = row
      /\ \A j \in U!KeyIds : j # k => u_key'[j] = u_key[j]
      /\ \A j \in U!KeyIds : u_key[j] # None => u_key'[j] = u_key[j]
  BY <1>6, <1>7
<1>9. /\ u_call' \in [Requests -> AccountCalls] /\ u_call'[c] = U!Idle
      /\ \A d \in Requests : d # c => u_call'[d] = u_call[d]
  BY <1>1, <1>3, AccountCallTo, AccountKinds
<1>10. AccountTypes' /\ ParkInv' /\ FlightInv'
  BY <1>1, <1>3, <1>8, <1>9, AccountKinds
     DEF AccountsInv, AccountTypes, ParkInv, FlightInv, Flying
<1>11. OwnersInv'
  BY <1>2, <1>3, <1>6, <1>8, <1>9, AccountKinds DEF AccountsInv, OwnersInv
<1>12. U!Accounts' = U!Accounts /\ t \in U!Accounts
  BY <1>2, <1>3 DEF U!Accounts
<1>13. U!LinksEndInAccounts'
  <2> SUFFICES ASSUME NEW m \in Ids, u_parked[m] = "consumed", ~U!InFlight(m)', m \notin u_failed
               PROVE  /\ U!Accounts # {}
                      /\ u_account[m] # "none" =>
                            \E j \in U!KeyIds : u_key'[j] # None /\ u_key'[j].tenant = m
    BY <1>3, <1>12 DEF U!LinksEndInAccounts
  <2>1. CASE ~U!InFlight(m)
    BY <1>8, <2>1 DEF AccountsInv, U!LinksEndInAccounts
  <2>2. CASE U!InFlight(m)
    <3>1. m = t
      BY <1>2, <1>9, <2>2 DEF U!InFlight
    <3> QED BY <1>6, <1>8, <1>12, <3>1
  <2> QED BY <2>1, <2>2
<1>14. BrowserInv'
  <2>1. CASE UNCHANGED <<u_cookie, u_reveal>>
    BY <1>3, <1>8, <1>12, <2>1 DEF AccountsInv, BrowserInv
  <2>2. CASE u_cookie' = t /\ u_reveal' = [tenant |-> t, key |-> k]
    <3>1. u_reveal'.tenant = t /\ u_reveal'.key = k
      BY <2>2
    <3> QED BY <1>3, <1>6, <1>8, <1>12, <2>2, <3>1 DEF AccountsInv, BrowserInv
  <2> QED BY <1>2, <2>1, <2>2
<1> QED BY <1>4, <1>10, <1>11, <1>13, <1>14 DEF AccountsInv

\* A revoked key makes room.
LEMMA RevokeKeepsAccounts ==
    ASSUME AccountsInv, NEW k \in U!KeyIds, U!revokeApiKey(k)
    PROVE  AccountsInv'
<1>1. AccountTypes /\ u_key \in [U!KeyIds -> U!KeyRows \cup {None}]
  BY DEF AccountsInv, AccountTypes
<1>2. PICK old : old = u_key[k]
  OBVIOUS
<1>3. old = [tenant |-> u_token, status |-> "active"] /\ old \in U!KeyRows \cup {None}
  BY <1>1, <1>2 DEF U!revokeApiKey
<1>4. u_token \in Ids
  BY DEF AccountsInv, BrowserInv, U!Accounts, U!revokeApiKey
<1>5. old \in U!KeyRows /\ old # None
  BY <1>3, <1>4, ServicesConstants DEF U!KeyRows
<1>6. PICK row : row = [old EXCEPT !.status = "revoked"]
  OBVIOUS
<1>7. row \in U!KeyRows /\ row.tenant = old.tenant /\ row.status = "revoked"
  BY <1>5, <1>6 DEF U!KeyRows
<1>8. row # None /\ \A s \in Ids : row # [tenant |-> s, status |-> "active"]
  BY <1>7, ServicesConstants
<1>9. /\ u_key' = [u_key EXCEPT ![k] = row]
      /\ UNCHANGED <<u_parked, u_account, u_call, u_failed>> /\ UNCHANGED U!browser
  BY <1>2, <1>6 DEF U!revokeApiKey
<1>10. /\ u_key' \in [U!KeyIds -> U!KeyRows \cup {None}] /\ u_key'[k] = row
       /\ \A j \in U!KeyIds : j # k => u_key'[j] = u_key[j]
  BY <1>1, <1>7, <1>9
<1>11. \A j \in U!KeyIds : /\ (u_key'[j] # None) = (u_key[j] # None)
                           /\ u_key[j] # None => u_key'[j].tenant = u_key[j].tenant
  BY <1>2, <1>5, <1>7, <1>8, <1>10
<1>12. AccountTypes' /\ ParkInv' /\ FlightInv' /\ OwnersInv'
  BY <1>1, <1>9, <1>10, <1>11 DEF AccountsInv, AccountTypes, ParkInv, FlightInv, OwnersInv
<1>13. U!Accounts' = U!Accounts
  BY <1>9 DEF U!Accounts
<1>14. U!LinksEndInAccounts'
  BY <1>9, <1>11, <1>13 DEF AccountsInv, U!LinksEndInAccounts, U!InFlight
<1>15. BrowserInv'
  BY <1>9, <1>11, <1>13, SameBrowser DEF AccountsInv
<1>16. \A t \in Ids : U!ActiveKeys(t)' \subseteq U!ActiveKeys(t) /\ Busy(t)' = Busy(t)
  BY <1>8, <1>9, <1>10 DEF U!ActiveKeys, Busy
<1>17. KeysInv'
  BY <1>16, FewerKeys DEF AccountsInv
<1> QED BY <1>12, <1>14, <1>15, <1>17 DEF AccountsInv

\* A suspended tenant keeps its keys.
LEMMA SuspendKeepsAccounts ==
    ASSUME AccountsInv, NEW l \in Ids, U!Suspend(l)
    PROVE  AccountsInv'
<1>1. /\ u_account[l] = "active" /\ u_account' = [u_account EXCEPT ![l] = "suspended"]
      /\ UNCHANGED <<u_parked, u_key, u_call, u_failed>> /\ UNCHANGED U!browser
  BY DEF U!Suspend
<1>2. AccountTypes
  BY DEF AccountsInv
<1>3. \A m \in Ids : (u_account'[m] # "none") = (u_account[m] # "none")
  BY <1>1, <1>2 DEF AccountTypes
<1>4. /\ \A d \in Requests : u_call[d].kind \in Flying => u_call[d].link \in Ids
      /\ \A d \in Requests : u_call[d].kind = "insert" => u_call[d].tenant \in Ids
      /\ \A k \in U!KeyIds : u_key[k] # None => u_key[k].tenant \in Ids
  BY <1>2, AccountKinds DEF AccountTypes, U!KeyRows
<1>5. AccountTypes' /\ ParkInv' /\ FlightInv' /\ OwnersInv'
  BY <1>1, <1>2, <1>3, <1>4 DEF AccountsInv, AccountTypes, ParkInv, FlightInv, OwnersInv
<1>6. U!Accounts' = U!Accounts
  BY <1>3 DEF U!Accounts
<1>7. U!LinksEndInAccounts'
  BY <1>1, <1>3, <1>6 DEF AccountsInv, U!LinksEndInAccounts, U!InFlight
<1>8. BrowserInv'
  BY <1>1, <1>6, SameBrowser DEF AccountsInv
<1>9. KeysInv'
  BY <1>1 DEF AccountsInv, KeysInv, U!ActiveKeys, Busy
<1> QED BY <1>5, <1>7, <1>8, <1>9 DEF AccountsInv

\* No step of the accounts breaks the invariant.
LEMMA AccountStep ==
    ASSUME AccountsInv, U!Next \/ UNCHANGED u_vars
    PROVE  AccountsInv'
<1>1. CASE UNCHANGED u_vars
  <2>1. UNCHANGED <<u_parked, u_account, u_key, u_call, u_failed, u_cookie, u_reveal, u_token, u_asking>>
    BY <1>1 DEF u_vars
  <2>2. AccountTypes' /\ ParkInv' /\ FlightInv' /\ OwnersInv'
    BY <2>1 DEF AccountsInv, AccountTypes, ParkInv, FlightInv, OwnersInv
  <2>3. U!LinksEndInAccounts' /\ BrowserInv' /\ KeysInv'
    BY <2>1 DEF AccountsInv, U!LinksEndInAccounts, U!InFlight, BrowserInv, KeysInv, U!Accounts,
                U!ActiveKeys, Busy
  <2> QED BY <2>2, <2>3 DEF AccountsInv
<1>2. CASE U!Next
  BY <1>2, BrowserSteps, SignupKeepsAccounts, ParkKeepsAccounts, ConsumeKeepsAccounts,
     ExpiryKeepsAccounts, ConflictKeepsAccounts, TenantKeepsAccounts, FailureKeepsAccounts,
     CountKeepsAccounts, NewKeyKeepsAccounts, RevokeKeepsAccounts, SuspendKeepsAccounts DEF U!Next
<1> QED BY <1>1, <1>2

AccountsHeld == focus = "accounts" => AccountsInv

\* Every link is followed once, accounts come from the links that were, and each has its
\* keys.
THEOREM AccountsInvariant == Spec => []AccountsHeld
<1>1. Init => AccountsHeld
  BY AccountsInvInit DEF Init, ConsoleInit, AccountsHeld
<1>2. AccountsHeld /\ [Next]_vars => AccountsHeld'
  BY FocusKept, AccountSteps, AccountStep DEF AccountsHeld
<1> QED BY <1>1, <1>2, PTL DEF Spec

\* The invariant contains the property of the runs.
LEMMA AccountsInvHolds == AccountsInv => U!AccountsAreSound
<1> SUFFICES ASSUME AccountsInv PROVE U!AccountsAreSound
  OBVIOUS
<1>1. U!OneAccount
  <2>1. CASE U!Accounts = {}
    BY <2>1, FS_EmptySet, AccountCardinality DEF U!OneAccount
  <2>2. CASE U!Accounts # {}
    <3>1. PICK l : U!Accounts = {l}
      BY <2>2 DEF AccountsInv, OwnersInv, U!Accounts
    <3>2. Cardinality({l}) = 1
      BY FS_Singleton
    <3> QED BY <3>1, <3>2, AccountCardinality DEF U!OneAccount
  <2> QED BY <2>1, <2>2
<1>2. U!BrowserIsBacked
  BY DEF AccountsInv, BrowserInv, U!BrowserIsBacked
<1>3. U!KeysNearCap
  <2> SUFFICES ASSUME NEW t \in U!Accounts
               PROVE  U!Cardinality(U!ActiveKeys(t))
                        + U!Cardinality({c \in Requests : u_call[c] = [kind |-> "insert", tenant |-> t]})
                      <= KeyCap - 1 + U!Cardinality(Requests)
    BY DEF U!KeysNearCap
  <2> DEFINE I == {c \in Requests : u_call[c] = [kind |-> "insert", tenant |-> t]}
  <2>1. t \in Ids
    BY DEF U!Accounts
  <2>2. I \subseteq Busy(t)
    BY DEF Busy, IsBusy
  <2> HIDE DEF I
  <2>3. /\ IsFiniteSet(Busy(t)) /\ Cardinality(Busy(t)) \in Nat
        /\ Cardinality(U!ActiveKeys(t)) \in Nat /\ Cardinality(Requests) \in Nat
    BY <2>1, FiniteKeys
  <2>4. Cardinality(I) <= Cardinality(Busy(t)) /\ Cardinality(I) \in Nat
    BY <2>2, <2>3, FS_Subset, FS_CardinalityType
  <2>5. Cardinality(U!ActiveKeys(t)) + Cardinality(Busy(t)) <= KeyCap - 1 + Cardinality(Requests)
    BY <2>1 DEF AccountsInv, KeysInv
  <2>6. Cardinality(U!ActiveKeys(t)) + Cardinality(I) <= KeyCap - 1 + Cardinality(Requests)
    BY <2>3, <2>4, <2>5, ServicesConstants
  <2>7. /\ U!Cardinality(U!ActiveKeys(t)) = Cardinality(U!ActiveKeys(t))
        /\ U!Cardinality(I) = Cardinality(I) /\ U!Cardinality(Requests) = Cardinality(Requests)
    BY AccountCardinality
  <2> QED BY <2>6, <2>7 DEF I
<1> QED BY <1>1, <1>2, <1>3 DEF AccountsInv, U!AccountsAreSound

\* An address gets one account with its first key out of any clicks on any links, the
\* browser's tokens name it, and concurrent requests pass the key cap by no more than
\* their number (console.ts, pending-signups.ts, api-keys.ts).
THEOREM AccountsStaySound == Spec => []AccountsAreSound
<1>1. AccountsHeld => AccountsAreSound
  BY AccountsInvHolds DEF AccountsHeld, AccountsAreSound
<1> QED BY <1>1, AccountsInvariant, PTL

-----------------------------------------------------------------------------
(* Types: the calls that were started bound every counter of the meters *)

\* On the way in; not answered yet; under way.
Entering(k) == k.step \in {"quota", "limit", "upsert"}
Unanswered(k) == k.step \in {"quota", "limit", "upsert", "handler"}
Active(k) == k.step # "idle"
InEntry == {c \in Requests : Entering(m_call[c])}
Unfinished == {c \in Requests : Unanswered(m_call[c])}
UnderWay == {c \in Requests : Active(m_call[c])}

\* Everything that is counted was started, and the calls that may still be counted have
\* been started besides.
StartedInv ==
    /\ m_started \in 0 .. MaxCalls
    /\ m_rate \in 0 .. m_started
    /\ m_month \in 1 .. m_turns + 1
    /\ m_answered + Cardinality(Unfinished) <= m_started
    /\ \A w \in M!Windows : m_buckets[w] + Cardinality(InEntry) <= m_started
    /\ m_peak <= m_started /\ Cardinality(UnderWay) <= m_started

\* What a call's move from record k to record r does to the calls that may be counted.
Tallied(k, r) ==
    /\ Cardinality(Unfinished) \in Nat /\ Cardinality(Unfinished') \in Nat
    /\ Cardinality(InEntry) \in Nat /\ Cardinality(InEntry') \in Nat
    /\ Cardinality(UnderWay) \in Nat /\ Cardinality(UnderWay') \in Nat
    /\ Cardinality(Unfinished') = Cardinality(Unfinished) - Bit(Unanswered(k)) + Bit(Unanswered(r))
    /\ Cardinality(InEntry') = Cardinality(InEntry) - Bit(Entering(k)) + Bit(Entering(r))
    /\ Cardinality(UnderWay') = Cardinality(UnderWay) - Bit(Active(k)) + Bit(Active(r))

\* A call's move changes the tallies at that call only.
LEMMA StartMoves ==
    ASSUME m_call \in [Requests -> MeterCalls], NEW c \in Requests, NEW r \in MeterCalls,
           m_call' = [m_call EXCEPT ![c] = r]
    PROVE  Tallied(m_call[c], r)
<1>1. m_call'[c] = r /\ \A d \in Requests : d # c => m_call'[d] = m_call[d]
  OBVIOUS
<1>2. /\ Unfinished \in SUBSET Requests /\ Unfinished' \in SUBSET Requests
      /\ \A d \in Requests : d # c => (d \in Unfinished <=> d \in Unfinished')
      /\ Bit(c \in Unfinished) = Bit(Unanswered(m_call[c]))
      /\ Bit(c \in Unfinished') = Bit(Unanswered(r))
  BY <1>1 DEF Unfinished, Bit
<1>3. /\ InEntry \in SUBSET Requests /\ InEntry' \in SUBSET Requests
      /\ \A d \in Requests : d # c => (d \in InEntry <=> d \in InEntry')
      /\ Bit(c \in InEntry) = Bit(Entering(m_call[c]))
      /\ Bit(c \in InEntry') = Bit(Entering(r))
  BY <1>1 DEF InEntry, Bit
<1>4. /\ UnderWay \in SUBSET Requests /\ UnderWay' \in SUBSET Requests
      /\ \A d \in Requests : d # c => (d \in UnderWay <=> d \in UnderWay')
      /\ Bit(c \in UnderWay) = Bit(Active(m_call[c]))
      /\ Bit(c \in UnderWay') = Bit(Active(r))
  BY <1>1 DEF UnderWay, Bit
<1>5. /\ Cardinality(Unfinished) \in Nat /\ Cardinality(Unfinished') \in Nat
      /\ Cardinality(Unfinished') = Cardinality(Unfinished) - Bit(c \in Unfinished) + Bit(c \in Unfinished')
  BY <1>2, CountMoves
<1>6. /\ Cardinality(InEntry) \in Nat /\ Cardinality(InEntry') \in Nat
      /\ Cardinality(InEntry') = Cardinality(InEntry) - Bit(c \in InEntry) + Bit(c \in InEntry')
  BY <1>3, CountMoves
<1>7. /\ Cardinality(UnderWay) \in Nat /\ Cardinality(UnderWay') \in Nat
      /\ Cardinality(UnderWay') = Cardinality(UnderWay) - Bit(c \in UnderWay) + Bit(c \in UnderWay')
  BY <1>4, CountMoves
<1> QED BY <1>2, <1>3, <1>4, <1>5, <1>6, <1>7 DEF Tallied

\* A call that only moves on, and the database's counts stay.
LEMMA MoveKeepsStarted ==
    ASSUME MeterInv, StartedInv, NEW c \in Requests, NEW r \in MeterCalls,
           m_call' = [m_call EXCEPT ![c] = r],
           Unanswered(r) => Unanswered(m_call[c]), Entering(r) => Entering(m_call[c]),
           Active(r) => Active(m_call[c]),
           UNCHANGED <<m_started, m_rate, m_month, m_turns, m_answered, m_buckets, m_peak>>
    PROVE  StartedInv'
<1>1. Tallied(m_call[c], r)
  BY StartMoves DEF MeterInv, MeterTypes
<1>2. /\ Cardinality(Unfinished') <= Cardinality(Unfinished)
      /\ Cardinality(InEntry') <= Cardinality(InEntry)
      /\ Cardinality(UnderWay') <= Cardinality(UnderWay)
      /\ Cardinality(Unfinished') \in Nat /\ Cardinality(Unfinished) \in Nat
      /\ Cardinality(InEntry') \in Nat /\ Cardinality(InEntry) \in Nat
      /\ Cardinality(UnderWay') \in Nat /\ Cardinality(UnderWay) \in Nat
  BY <1>1 DEF Tallied, Bit
<1>3. m_answered \in Nat /\ m_started \in Nat /\ \A w \in M!Windows : m_buckets[w] \in Nat
  BY DEF MeterInv, MeterTypes, StartedInv
<1>4. m_answered' + Cardinality(Unfinished') <= m_started'
  BY <1>2, <1>3 DEF StartedInv
<1>5. \A w \in M!Windows : m_buckets'[w] + Cardinality(InEntry') <= m_started'
  BY <1>2, <1>3 DEF StartedInv
<1> QED BY <1>2, <1>3, <1>4, <1>5 DEF StartedInv

\* A new call, which the process's window lets through or not.
LEMMA StartKeepsStarted ==
    ASSUME MeterInv, StartedInv, NEW c \in Requests, NEW route \in Routes,
           M!authenticateTenantApiKey(c, route)
    PROVE  StartedInv'
<1>1. PICK r : r = IF m_rate' > RateLimit THEN M!Idle ELSE [step |-> "quota", route |-> route]
  OBVIOUS
<1>2. /\ m_call' = [m_call EXCEPT ![c] = r] /\ m_call[c] = M!Idle
      /\ m_started < MaxCalls /\ m_started' = m_started + 1 /\ m_rate' = m_rate + 1
      /\ UNCHANGED <<m_month, m_turns, m_answered, m_buckets, m_peak>>
  BY <1>1 DEF M!authenticateTenantApiKey, M!Became, M!clock
<1>3. r \in MeterCalls
  BY <1>1 DEF MeterCalls, Waiting
<1>4. Tallied(M!Idle, r)
  BY <1>2, <1>3, StartMoves DEF MeterInv, MeterTypes
<1>5. ~Unanswered(M!Idle) /\ ~Entering(M!Idle) /\ ~Active(M!Idle)
  BY DEF M!Idle, Unanswered, Entering, Active
<1>6. /\ Cardinality(Unfinished') <= Cardinality(Unfinished) + 1
      /\ Cardinality(InEntry') <= Cardinality(InEntry) + 1
      /\ Cardinality(UnderWay') <= Cardinality(UnderWay) + 1
      /\ Cardinality(Unfinished') \in Nat /\ Cardinality(Unfinished) \in Nat
      /\ Cardinality(InEntry') \in Nat /\ Cardinality(InEntry) \in Nat
      /\ Cardinality(UnderWay') \in Nat /\ Cardinality(UnderWay) \in Nat
  BY <1>4, <1>5 DEF Tallied, Bit
<1>7. /\ m_answered \in Nat /\ m_started \in Nat /\ \A w \in M!Windows : m_buckets[w] \in Nat
      /\ m_peak \in Nat /\ m_rate \in Nat
  BY DEF MeterInv, MeterTypes, StartedInv
<1>8. m_answered' + Cardinality(Unfinished') <= m_started'
  BY <1>2, <1>6, <1>7 DEF StartedInv
<1>9. \A w \in M!Windows : m_buckets'[w] + Cardinality(InEntry') <= m_started'
  BY <1>2, <1>6, <1>7 DEF StartedInv
<1>10. m_peak' <= m_started' /\ Cardinality(UnderWay') <= m_started'
  BY <1>2, <1>6, <1>7 DEF StartedInv
<1>11. m_started' \in 0 .. MaxCalls /\ m_rate' \in 0 .. m_started'
  BY <1>2, <1>7, ServicesConstants DEF StartedInv
<1> QED BY <1>2, <1>8, <1>9, <1>10, <1>11 DEF StartedInv

\* The quota lets a call through: the peak counts calls that are under way.
LEMMA QuotaKeepsStarted ==
    ASSUME MeterInv, StartedInv, NEW c \in Requests, M!checkQuota(c)
    PROVE  StartedInv'
<1>1. m_call[c].step = "quota" /\ m_call[c] \in Waiting
  BY MeterKinds DEF M!checkQuota, MeterInv, MeterTypes, MeterCalls
<1>2. PICK r : r = IF ~M!Admits(m_used) THEN M!Idle
                   ELSE [m_call[c] EXCEPT !.step = IF m_call[c].route = "verify" THEN "limit" ELSE "handler"]
  OBVIOUS
<1>3. /\ m_call' = [m_call EXCEPT ![c] = r]
      /\ m_peak' = IF M!Uncounted(m_call') > m_peak THEN M!Uncounted(m_call') ELSE m_peak
      /\ UNCHANGED <<m_started, m_rate, m_month, m_turns, m_answered, m_buckets>>
  BY <1>2 DEF M!checkQuota, M!Became, M!clock, M!meters
<1>4. r = M!Idle \/ r \in Waiting
  BY <1>1, <1>2 DEF Waiting
<1>5. r \in MeterCalls /\ r.step \in {"idle", "quota", "limit", "handler"}
  BY <1>4, MeterKinds DEF MeterCalls
<1>6. Tallied(m_call[c], r) /\ m_call' \in [Requests -> MeterCalls]
  BY <1>3, <1>5, StartMoves DEF MeterInv, MeterTypes
<1>7. Unanswered(m_call[c]) /\ Entering(m_call[c]) /\ Active(m_call[c])
  BY <1>1 DEF Unanswered, Entering, Active
<1>8. /\ Cardinality(Unfinished') <= Cardinality(Unfinished)
      /\ Cardinality(InEntry') <= Cardinality(InEntry)
      /\ Cardinality(UnderWay') <= Cardinality(UnderWay)
      /\ Cardinality(Unfinished') \in Nat /\ Cardinality(Unfinished) \in Nat
      /\ Cardinality(InEntry') \in Nat /\ Cardinality(InEntry) \in Nat
      /\ Cardinality(UnderWay') \in Nat /\ Cardinality(UnderWay) \in Nat
  BY <1>6, <1>7 DEF Tallied, Bit
<1>9. m_answered \in Nat /\ m_started \in Nat /\ \A w \in M!Windows : m_buckets[w] \in Nat
  BY DEF MeterInv, MeterTypes, StartedInv
<1>10. Cardinality(Pending') <= Cardinality(UnderWay')
  <2>1. Pending' \subseteq UnderWay' /\ IsFiniteSet(UnderWay')
    <3>1. UnderWay' \subseteq Requests /\ Pending' \subseteq UnderWay'
      BY DEF UnderWay, Pending, IsPending, Active
    <3> QED BY <3>1, FS_Subset, ServicesConstants
  <2> QED BY <2>1, FS_Subset
<1>11. m_peak' <= m_started' /\ Cardinality(UnderWay') <= m_started'
  <2>1. M!Uncounted(m_call') = Cardinality(Pending')
    BY UncountedMeans
  <2>2. Cardinality(Pending') \in Nat
    <3>1. Pending' \subseteq Requests
      BY DEF Pending
    <3> QED BY <3>1, FS_Subset, FS_CardinalityType, ServicesConstants
  <2>3. PICK n \in Nat : n = Cardinality(Pending')
    BY <2>2
  <2>4. m_peak' = IF n > m_peak THEN n ELSE m_peak
    BY <1>3, <2>1, <2>3
  <2> QED BY <1>3, <1>8, <1>9, <1>10, <2>3, <2>4 DEF StartedInv
<1>12. m_answered' + Cardinality(Unfinished') <= m_started'
  BY <1>3, <1>8, <1>9 DEF StartedInv
<1>13. \A w \in M!Windows : m_buckets'[w] + Cardinality(InEntry') <= m_started'
  BY <1>3, <1>8, <1>9 DEF StartedInv
<1> QED BY <1>3, <1>11, <1>12, <1>13 DEF StartedInv

\* A call that the shared window counted is not counted there again.
LEMMA UpsertKeepsStarted ==
    ASSUME MeterInv, StartedInv, NEW c \in Requests, M!pgRateLimit(c)
    PROVE  StartedInv'
<1>1. PICK k \in Upserting : k = m_call[c]
  BY MeterKinds DEF M!pgRateLimit, MeterInv, MeterTypes, MeterCalls
<1>2. PICK r : r = [step |-> "handler", route |-> "verify"]
  OBVIOUS
<1>3. /\ m_call' = [m_call EXCEPT ![c] = r]
      /\ m_buckets' = [m_buckets EXCEPT ![k.window] = @ + 1]
      /\ UNCHANGED <<m_started, m_rate, m_month, m_turns, m_answered, m_peak>>
  BY <1>1, <1>2 DEF M!pgRateLimit, M!Became, M!clock, M!meters
<1>4. r \in MeterCalls
  BY <1>2 DEF MeterCalls, Waiting, Routes
<1>5. Tallied(k, r)
  BY <1>1, <1>3, <1>4, StartMoves DEF MeterInv, MeterTypes
<1>6. /\ Unanswered(k) /\ Entering(k) /\ Active(k)
      /\ Unanswered(r) /\ ~Entering(r) /\ Active(r)
  BY <1>2, MeterKinds DEF Unanswered, Entering, Active
<1>7. /\ Cardinality(Unfinished') = Cardinality(Unfinished)
      /\ Cardinality(InEntry') = Cardinality(InEntry) - 1
      /\ Cardinality(UnderWay') = Cardinality(UnderWay)
      /\ Cardinality(InEntry') \in Nat /\ Cardinality(InEntry) \in Nat
  BY <1>5, <1>6 DEF Tallied, Bit
<1>8. m_started \in Nat /\ m_buckets \in [M!Windows -> Nat]
  BY DEF MeterInv, MeterTypes, StartedInv
<1>9. ASSUME NEW w \in M!Windows PROVE m_buckets'[w] + Cardinality(InEntry') <= m_started'
  <2>1. m_buckets'[w] <= m_buckets[w] + 1 /\ m_buckets'[w] \in Nat /\ m_buckets[w] \in Nat
    BY <1>3, <1>8
  <2> QED BY <1>3, <1>7, <1>8, <2>1 DEF StartedInv
<1> QED BY <1>3, <1>7, <1>9 DEF StartedInv

\* An answered call is no longer one that will be.
LEMMA FinishKeepsStarted ==
    ASSUME MeterInv, StartedInv, NEW c \in Requests, M!Finish(c)
    PROVE  StartedInv'
<1>1. PICK k \in Waiting : k = m_call[c] /\ k.step = "handler"
  BY MeterKinds DEF M!Finish, MeterInv, MeterTypes, MeterCalls
<1>2. PICK r : r = [step |-> "writing", route |-> k.route, todo |-> {"log", "month"}]
  OBVIOUS
<1>3. /\ m_call' = [m_call EXCEPT ![c] = r] /\ m_answered' = m_answered + 1
      /\ UNCHANGED <<m_started, m_rate, m_month, m_turns, m_buckets, m_peak>>
  BY <1>1, <1>2 DEF M!Finish, M!Became, M!clock, M!meters
<1>4. r \in MeterCalls
  BY <1>2, MeterKinds DEF MeterCalls, Writing
<1>5. Tallied(k, r)
  BY <1>1, <1>3, <1>4, StartMoves DEF MeterInv, MeterTypes
<1>6. /\ Unanswered(k) /\ ~Entering(k) /\ Active(k)
      /\ ~Unanswered(r) /\ ~Entering(r) /\ Active(r)
  BY <1>1, <1>2 DEF Unanswered, Entering, Active
<1>7. /\ Cardinality(Unfinished') = Cardinality(Unfinished) - 1
      /\ Cardinality(InEntry') = Cardinality(InEntry)
      /\ Cardinality(UnderWay') = Cardinality(UnderWay)
      /\ Cardinality(Unfinished') \in Nat /\ Cardinality(Unfinished) \in Nat
  BY <1>5, <1>6 DEF Tallied, Bit
<1>8. m_started \in Nat /\ m_answered \in Nat
  BY DEF MeterInv, MeterTypes, StartedInv
<1>9. m_answered' + Cardinality(Unfinished') <= m_started'
  BY <1>3, <1>7, <1>8 DEF StartedInv
<1> QED BY <1>3, <1>7, <1>9 DEF StartedInv

\* The other steps of a call.
LEMMA OtherMovesKeepStarted ==
    ASSUME MeterInv, StartedInv, NEW c \in Requests,
           \/ M!bucketKey(c) \/ M!FailsOpen(c) \/ M!ClientLeaves(c)
           \/ M!LogLands(c) \/ M!MonthLands(c) \/ M!WriteFails(c)
    PROVE  StartedInv'
<1>1. UNCHANGED <<m_started, m_rate, m_month, m_turns, m_answered, m_buckets, m_peak>>
  BY DEF M!bucketKey, M!FailsOpen, M!ClientLeaves, M!LogLands, M!MonthLands, M!WriteFails,
         M!meters, M!clock
<1>2. ASSUME NEW r \in MeterCalls, m_call' = [m_call EXCEPT ![c] = r],
             Unanswered(r) => Unanswered(m_call[c]), Entering(r) => Entering(m_call[c]),
             Active(r) => Active(m_call[c])
      PROVE  StartedInv'
  BY <1>1, <1>2, MoveKeepsStarted
<1>3. /\ M!Idle \in MeterCalls
      /\ ~Unanswered(M!Idle) /\ ~Entering(M!Idle) /\ ~Active(M!Idle)
  BY DEF M!Idle, MeterCalls, Unanswered, Entering, Active
<1>4. CASE M!bucketKey(c)
  <2>1. PICK r : r = [step |-> "upsert", route |-> "verify", window |-> m_window]
    OBVIOUS
  <2>2. m_call' = [m_call EXCEPT ![c] = r] /\ m_call[c].step = "limit"
    BY <1>4, <2>1 DEF M!bucketKey, M!Became
  <2>3. m_window \in M!Windows
    BY ServicesConstants DEF MeterInv, MeterTypes, M!Windows
  <2>4. r \in MeterCalls
    BY <2>1, <2>3 DEF MeterCalls, Upserting, Routes
  <2> QED BY <1>2, <2>1, <2>2, <2>4 DEF Unanswered, Entering, Active
<1>5. CASE M!FailsOpen(c)
  <2>1. PICK r : r = [step |-> "handler", route |-> "verify"]
    OBVIOUS
  <2>2. m_call' = [m_call EXCEPT ![c] = r] /\ m_call[c].step = "upsert"
    BY <1>5, <2>1 DEF M!FailsOpen, M!Became
  <2>3. r \in MeterCalls
    BY <2>1 DEF MeterCalls, Waiting, Routes
  <2> QED BY <1>2, <2>1, <2>2, <2>3 DEF Unanswered, Entering, Active
<1>6. CASE M!ClientLeaves(c)
  <2>1. m_call' = [m_call EXCEPT ![c] = M!Idle]
    BY <1>6 DEF M!ClientLeaves, M!Became
  <2> QED BY <1>2, <1>3, <2>1
<1>7. ASSUME NEW what \in {"log", "month"}, M!Done(c, what) PROVE StartedInv'
  <2>1. PICK k \in Writing : k = m_call[c] /\ what \in k.todo
    BY <1>7, MeterKinds DEF M!Done, MeterInv, MeterTypes, MeterCalls
  <2>2. Active(k)
    BY MeterKinds DEF Active
  <2>3. CASE k.todo = {what}
    <3>1. m_call' = [m_call EXCEPT ![c] = M!Idle]
      BY <1>7, <2>1, <2>3 DEF M!Done, M!Became
    <3> QED BY <1>2, <1>3, <3>1
  <2>4. CASE k.todo # {what}
    <3>1. PICK r : r = [k EXCEPT !.todo = @ \ {what}]
      OBVIOUS
    <3>2. m_call' = [m_call EXCEPT ![c] = r]
      BY <1>7, <2>1, <2>4, <3>1 DEF M!Done, M!Became
    <3>3. r \in Writing
      BY <3>1 DEF Writing
    <3>4. r \in MeterCalls /\ ~Unanswered(r) /\ ~Entering(r)
      BY <3>3, MeterKinds DEF MeterCalls, Unanswered, Entering
    <3> QED BY <1>2, <2>1, <2>2, <3>2, <3>4
  <2> QED BY <2>3, <2>4
<1>8. CASE M!LogLands(c) \/ M!MonthLands(c) \/ M!WriteFails(c)
  BY <1>7, <1>8 DEF M!LogLands, M!MonthLands, M!WriteFails
<1> QED BY <1>4, <1>5, <1>6, <1>8

\* The clocks, the clean-up of buckets, and restarts.
LEMMA ClockKeepsStarted ==
    ASSUME MeterInv, StartedInv,
           M!RateWindowEnds \/ M!cleanupRateLimitBuckets \/ M!NextMonth
              \/ M!NextWindow \/ M!Restart
    PROVE  StartedInv'
<1>1. MeterTypes
  BY DEF MeterInv
<1>2. UNCHANGED <<m_started, m_answered, m_peak>>
  BY DEF M!RateWindowEnds, M!cleanupRateLimitBuckets, M!NextMonth, M!NextWindow, M!Restart,
         M!meters
<1>3. /\ Cardinality(Unfinished') <= Cardinality(Unfinished)
      /\ Cardinality(InEntry') <= Cardinality(InEntry)
      /\ Cardinality(UnderWay') <= Cardinality(UnderWay)
      /\ Cardinality(Unfinished') \in Nat /\ Cardinality(Unfinished) \in Nat
      /\ Cardinality(InEntry') \in Nat /\ Cardinality(InEntry) \in Nat
      /\ Cardinality(UnderWay') \in Nat /\ Cardinality(UnderWay) \in Nat
  <2>1. /\ Unfinished' \subseteq Unfinished /\ InEntry' \subseteq InEntry
        /\ UnderWay' \subseteq UnderWay
    <3>1. CASE m_call' = m_call
      BY <3>1 DEF Unfinished, InEntry, UnderWay
    <3>2. CASE m_call' = [c \in Requests |-> M!Idle]
      BY <3>2 DEF Unfinished, InEntry, UnderWay, M!Idle, Unanswered, Entering, Active
    <3> QED
      BY <3>1, <3>2 DEF M!RateWindowEnds, M!cleanupRateLimitBuckets, M!NextMonth,
                        M!NextWindow, M!Restart
  <2>2. Unfinished \subseteq Requests /\ InEntry \subseteq Requests /\ UnderWay \subseteq Requests
    BY DEF Unfinished, InEntry, UnderWay
  <2>3. IsFiniteSet(Unfinished) /\ IsFiniteSet(InEntry) /\ IsFiniteSet(UnderWay)
    BY <2>2, FS_Subset, ServicesConstants
  <2>4. IsFiniteSet(Unfinished') /\ IsFiniteSet(InEntry') /\ IsFiniteSet(UnderWay')
    BY <2>1, <2>3, FS_Subset
  <2> QED BY <2>1, <2>3, <2>4, FS_Subset, FS_CardinalityType
<1>4. \A w \in M!Windows : m_buckets'[w] <= m_buckets[w] /\ m_buckets'[w] \in Nat /\ m_buckets[w] \in Nat
  <2>1. CASE m_buckets' = m_buckets
    BY <1>1, <2>1 DEF MeterTypes
  <2>2. CASE m_buckets' = [w \in M!Windows |-> IF w < m_window THEN 0 ELSE m_buckets[w]]
    BY <1>1, <2>2 DEF MeterTypes
  <2> QED
    BY <2>1, <2>2 DEF M!RateWindowEnds, M!cleanupRateLimitBuckets, M!CleanupExpired,
                      M!NextMonth, M!NextWindow, M!Restart
<1>5. /\ m_rate' \in {m_rate, 0}
      /\ \/ m_month' = m_month /\ m_turns' \in {m_turns, m_turns + 1}
         \/ m_month' = m_month + 1 /\ m_turns' = m_turns + 1
  <2>1. CASE M!RateWindowEnds
    BY <2>1 DEF M!RateWindowEnds
  <2>2. CASE M!cleanupRateLimitBuckets
    BY <2>2 DEF M!cleanupRateLimitBuckets, M!clock
  <2>3. CASE M!NextMonth \/ M!NextWindow \/ M!Restart
    BY <2>3 DEF M!NextMonth, M!NextWindow, M!Restart, M!Turn
  <2> QED BY <2>1, <2>2, <2>3
<1>6. m_answered \in Nat /\ m_started \in Nat /\ m_turns \in Nat /\ m_month \in Nat
  BY <1>1, ServicesConstants DEF MeterTypes, StartedInv
<1>7. m_answered' + Cardinality(Unfinished') <= m_started'
  BY <1>2, <1>3, <1>6 DEF StartedInv
<1>8. \A w \in M!Windows : m_buckets'[w] + Cardinality(InEntry') <= m_started'
  BY <1>2, <1>3, <1>4, <1>6 DEF StartedInv
<1>9. m_month' \in 1 .. m_turns' + 1
  BY <1>5, <1>6 DEF StartedInv
<1>10. m_rate' \in 0 .. m_started'
  BY <1>2, <1>5, <1>6 DEF StartedInv
<1>11. m_peak' <= m_started' /\ Cardinality(UnderWay') <= m_started'
  BY <1>2, <1>3, <1>6 DEF StartedInv
<1> QED BY <1>2, <1>7, <1>8, <1>9, <1>10, <1>11 DEF StartedInv

\* Nothing is started at first.
LEMMA StartedInvInit == M!Init => StartedInv
<1> SUFFICES ASSUME M!Init PROVE StartedInv
  OBVIOUS
<1>1. Unfinished = {} /\ InEntry = {} /\ UnderWay = {}
  BY DEF M!Init, M!Idle, Unfinished, InEntry, UnderWay, Unanswered, Entering, Active
<1> QED BY <1>1, FS_EmptySet, ServicesConstants DEF M!Init, StartedInv

\* No step of the meters counts what was not started.
LEMMA StartedStep ==
    ASSUME MeterInv, StartedInv, M!Next \/ UNCHANGED m_vars
    PROVE  StartedInv'
<1>1. CASE UNCHANGED m_vars
  BY <1>1 DEF m_vars, StartedInv, Unfinished, InEntry, UnderWay
<1> QED
  BY <1>1, StartKeepsStarted, QuotaKeepsStarted, UpsertKeepsStarted, FinishKeepsStarted,
     OtherMovesKeepStarted, ClockKeepsStarted DEF M!Next, Routes

\* Every counter is at most the number of calls.
LEMMA MetersTyped == MeterInv /\ StartedInv => M!TypeOK
<1> SUFFICES ASSUME MeterInv, StartedInv PROVE M!TypeOK
  OBVIOUS
<1>1. MeterTypes
  BY DEF MeterInv
<1>2. /\ Cardinality(Unfinished) \in Nat /\ Cardinality(InEntry) \in Nat
      /\ Cardinality(Owing("log")) \in Nat /\ Cardinality(Owing("month")) \in Nat
  <2>1. /\ Unfinished \subseteq Requests /\ InEntry \subseteq Requests
        /\ Owing("log") \subseteq Requests /\ Owing("month") \subseteq Requests
    BY DEF Unfinished, InEntry, Owing
  <2> QED BY <2>1, FS_Subset, FS_CardinalityType, ServicesConstants
<1>3. m_started \in Nat /\ m_started <= MaxCalls
  BY ServicesConstants DEF StartedInv
<1>4. m_answered \in 0 .. MaxCalls /\ m_rate \in 0 .. MaxCalls /\ m_peak \in 0 .. MaxCalls
  BY <1>1, <1>2, <1>3, ServicesConstants DEF StartedInv, MeterTypes
<1>5. m_used \in 0 .. MaxCalls /\ m_earlier \in 0 .. MaxCalls /\ m_logs \in 0 .. MaxCalls
  BY <1>1, <1>2, <1>4, ServicesConstants DEF MeterInv, CountInv, MeterTypes
<1>6. \A w \in M!Windows : m_buckets[w] \in 0 .. MaxCalls
  BY <1>1, <1>2, <1>3, ServicesConstants DEF StartedInv, MeterTypes
<1>7. m_month \in M!Windows /\ m_window \in M!Windows
  BY <1>1, ServicesConstants DEF StartedInv, MeterTypes, M!Windows
<1>8. m_admitted \in 0 .. MaxCalls
  BY <1>1, <1>6, <1>7, ServicesConstants DEF MeterInv, WindowInv, MeterTypes
<1>9. \A c \in Requests : m_call[c].step \in {"idle", "quota", "limit", "upsert", "handler", "writing"}
  BY <1>1, MeterKinds DEF MeterTypes, MeterCalls
<1> QED BY <1>1, <1>4, <1>5, <1>6, <1>7, <1>8, <1>9 DEF M!TypeOK, MeterTypes

\* The numbers of the meters never exceed the calls.
LEMMA StartedAlways == Spec => [](focus = "meters" => StartedInv)
<1>1. Init => (focus = "meters" => StartedInv)
  BY StartedInvInit DEF Init, ConsoleInit
<1>2. MetersHeld /\ (focus = "meters" => StartedInv) /\ [Next]_vars => (focus = "meters" => StartedInv)'
  <2> SUFFICES ASSUME MetersHeld, focus = "meters" => StartedInv, [Next]_vars, focus' = "meters"
               PROVE  StartedInv'
    OBVIOUS
  <2>1. focus = "meters"
    BY FocusKept
  <2> QED BY <2>1, MeterSteps, StartedStep DEF MetersHeld
<1> QED BY <1>1, <1>2, MetersSound, PTL DEF Spec

-----------------------------------------------------------------------------
(* Types: the records and the accounts *)

\* The tables hold rows of their kinds.
LEMMA RecordsTyped == RecordTypes => E!TypeOK
<1> SUFFICES ASSUME RecordTypes PROVE E!TypeOK
  OBVIOUS
<1>1. \A u \in DOMAIN e_users : e_users[u] \in Usrs
  BY DEF RecordTypes
<1>2. \A d \in DOMAIN e_devices : e_devices[d] \in Devs
  BY DEF RecordTypes
<1>3. \A v \in DOMAIN e_verifications : e_verifications[v] \in Vers
  BY DEF RecordTypes
<1>4. \A a \in DOMAIN e_attendance : e_attendance[a] \in Atts
  BY DEF RecordTypes
<1>5. \A x \in e_updates : x \in Upds
  BY DEF RecordTypes
<1> QED
  BY <1>1, <1>2, <1>3, <1>4, <1>5
     DEF E!TypeOK, Usrs, Devs, Vers, Atts, Upds, Stamp

\* The dashboard knows whether there is somebody, or not.
PageTyped == u_page \in {"authenticated", "unauthenticated"}

\* Every step leaves the dashboard's page in one of its states.
LEMMA PageStep ==
    ASSUME PageTyped, U!Next \/ UNCHANGED u_vars
    PROVE  PageTyped'
<1>1. CASE UNCHANGED u_vars
  BY <1>1 DEF u_vars, PageTyped
<1>2. u_page' = u_page => PageTyped'
  BY DEF PageTyped
<1>3. CASE \E c \in Requests, l \in Ids : U!Signup(c, l) \/ U!consumePendingSignup(c, l)
  BY <1>2, <1>3 DEF U!Signup, U!consumePendingSignup, U!browser
<1>4. CASE \E c \in Requests : \/ U!createPendingSignup(c) \/ U!CheckConflict(c)
                               \/ U!createTenantWithHash(c)
  BY <1>2, <1>4 DEF U!createPendingSignup, U!CheckConflict, U!createTenantWithHash, U!browser
<1>5. CASE \E c \in Requests, k \in U!KeyIds : U!FirstKey(c, k) \/ U!createApiKey(c, k)
  BY <1>2, <1>5 DEF U!FirstKey, U!createApiKey, U!browser
<1>6. CASE \E c \in Requests : U!CallFails(c) \/ U!countActiveKeys(c)
  BY <1>2, <1>6 DEF U!CallFails, U!countActiveKeys, U!browser
<1>7. CASE \E l \in Ids : U!LinkExpires(l) \/ U!Suspend(l)
  BY <1>2, <1>7 DEF U!LinkExpires, U!Suspend, U!browser
<1>8. CASE \E k \in U!KeyIds : U!revokeApiKey(k)
  BY <1>2, <1>8 DEF U!revokeApiKey, U!browser
<1>9. CASE \E l \in Ids : U!Login(l)
  BY <1>9 DEF U!Login, U!Refreshed, PageTyped
<1>10. CASE U!SignupComplete \/ U!RevealLapses \/ U!AccountAnswered \/ U!logout
  BY <1>10 DEF U!SignupComplete, U!RevealLapses, U!AccountAnswered, U!logout, U!Refreshed, PageTyped
<1>11. CASE U!Next
  BY <1>3, <1>4, <1>5, <1>6, <1>7, <1>8, <1>9, <1>10, <1>11, Zenon DEF U!Next
<1> QED BY <1>1, <1>11

\* The tables of accounts and the browser hold what they may.
LEMMA AccountsTyped == AccountTypes /\ BrowserInv /\ PageTyped => U!TypeOK
<1> SUFFICES ASSUME AccountTypes, BrowserInv, PageTyped PROVE U!TypeOK
  OBVIOUS
<1>1. \A c \in Requests : u_call[c].kind \in {"idle", "park", "check", "tenant", "key", "insert"}
  BY DEF AccountTypes, AccountCalls, OnLink, Inserts, U!Idle
<1>2. U!Accounts \subseteq Ids
  BY DEF U!Accounts
<1> QED BY <1>1, <1>2 DEF AccountTypes, BrowserInv, PageTyped, U!TypeOK

\* The dashboard always knows whether there is somebody.
LEMMA PageAlways == Spec => [](focus = "accounts" => PageTyped)
<1>1. Init => (focus = "accounts" => PageTyped)
  BY DEF Init, ConsoleInit, U!Init, PageTyped
<1>2. (focus = "accounts" => PageTyped) /\ [Next]_vars => (focus = "accounts" => PageTyped)'
  <2> SUFFICES ASSUME focus = "accounts" => PageTyped, [Next]_vars, focus' = "accounts"
               PROVE  PageTyped'
    OBVIOUS
  <2>1. focus = "accounts"
    BY FocusKept
  <2> QED BY <2>1, AccountSteps, PageStep
<1> QED BY <1>1, <1>2, PTL DEF Spec
=============================================================================
