----------------------------- MODULE ProofPairing -----------------------------
(***************************************************************************)
(* QR proof pairing (src/services/proof-pairing.ts, ADR-0009).             *)
(*                                                                         *)
(* A desktop opens a pairing session and shows its nonce as a QR code; a   *)
(* phone answers with a Groth16 proof bound to that nonce; submitProof     *)
(* checks it, consumes the session and mints tokens; the desktop follows   *)
(* the session on an SSE stream.  Node runs one handler between two awaits *)
(* without interruption, so one action is the code from one database or    *)
(* network answer to the next, and handlers interleave only at those       *)
(* points.  Audit writes whose failure is caught commute with every other  *)
(* step (no handler reads the log), so they belong to the step that issues *)
(* them and land or are lost.  Every answer waits for padToFloor first.    *)
(*                                                                         *)
(* Data: a session id stands for its nonce and its bind cookie (both are   *)
(* fresh random bytes); a user stands for its DID, didHash and commitment; *)
(* a tenant stands for a (tenant, environment) pair.                       *)
(***************************************************************************)
EXTENDS Integers, FiniteSets

CONSTANTS
    Sessions,          \* ids createSession may mint (uuid v4: never reused)
    Tenants,           \* (tenant, environment) pairs
    Users,             \* people with a DID
    Residents,         \* Residents[t]: the users tenant t may ever enrol
    Requests,          \* submit requests
    Streams,           \* SSE subscriptions
    Submissions,       \* what a submit request may carry
    Policies,          \* the security policies a tenant may configure
    TTL,               \* SESSION_TTL_MS, in ticks
    StreamLifetime,    \* STREAM_MAX_LIFETIME_MS, in ticks
    MaxFailures,       \* MAX_FAILURES_BEFORE_LOCK
    MaxPending,        \* MAX_PENDING_SESSIONS_PER_TENANT
    None,              \* no session, no tenant, no request
    Stray,             \* the nonce and cookie of a session outside Sessions
    SweepScheduled,    \* does anything call expireOverdueSessions?
    MaxTime,           \* bound: the clock stops here
    MaxUpsets          \* bound: process restarts, roster and policy edits

\* The verdict ranks of play-integrity.ts; AbsentVerdict is a missing field.
AbsentVerdict == -1
Rank == {0, 2, 3, 4}
Verdict == {AbsentVerdict} \cup 0..4
Policy == [required : Rank, allowAbsent : BOOLEAN]
Permissive == [required |-> 0, allowAbsent |-> FALSE]

\* A submit request: the path's session, the API key's tenant, the DID of the
\* body, the session whose bind cookie is presented, the user whose commitment
\* is publicSignals[0], the (didHash, nonce) pair publicSignals[1] hashes,
\* whether the Groth16 verifier accepts the proof, and the integrity verdict.
Submission ==
    [session : Sessions, tenant : Tenants, did : Users,
     cookie : Sessions \cup {None, Stray}, commitment : Users,
     bound : Users \X (Sessions \cup {Stray}), sound : BOOLEAN, verdict : Verdict]

ASSUME ConstantsAssumption ==
    /\ IsFiniteSet(Sessions) /\ IsFiniteSet(Requests)
    /\ None \notin Sessions \cup Tenants \cup Submissions
    /\ Stray \notin Sessions \cup {None}
    /\ Residents \in [Tenants -> SUBSET Users]
    /\ Submissions \subseteq Submission
    /\ Policies \subseteq Policy /\ Permissive \in Policies
    /\ TTL \in Nat \ {0}
    /\ StreamLifetime \in Nat /\ StreamLifetime > TTL
    /\ MaxFailures \in Nat \ {0}
    /\ MaxPending \in Nat
    /\ SweepScheduled \in BOOLEAN
    /\ MaxTime \in Nat /\ MaxUpsets \in Nat

VARIABLES
    now,        \* wall clock, shared by Node and Postgres
    row,        \* row[s]: the proof_pairing_sessions row
    creation,   \* creation[s]: how far the createSession call minting s is
    request,    \* request[r]: a submitProof call
    stream,     \* stream[v]: a subscribeStream generator
    roster,     \* roster[t]: users whose row carries did, did_hash, commitment
    policy,     \* policy[t]: tenants.security_policy
    audit,      \* audit_events rows of the pairing flow
    upsets      \* restarts and edits so far (bounds the model)

vars == <<now, row, creation, request, stream, roster, policy, audit, upsets>>

-----------------------------------------------------------------------------
(* State space *)

RowState == {"absent", "issued", "consumed", "expired", "failed"}

Row == [tenant : Tenants \cup {None}, state : RowState, failures : Nat,
        expires : Int, user : SUBSET Users]

AbsentRow == [tenant |-> None, state |-> "absent", failures |-> 0,
              expires |-> 0, user |-> {}]

CountedErrors == {"bind_mismatch", "did_unknown", "nonce_mismatch",
                  "proof_invalid"}
IntegrityOutcomes == {"integrity", "integrity_unaudited"}
Outcome == {"pending", "tokens", "unaudited", "not_found", "already_bound",
            "locked", "expired", "unavailable", "internal"}
             \cup CountedErrors \cup IntegrityOutcomes

RequestPC == {"idle", "load", "policy", "integrity", "integrity_audit", "lookup",
              "verify", "consume", "claim", "respond", "count", "pad", "done", "lost"}

NoStream == [pc |-> "idle", session |-> None, deadline |-> 0, event |-> "silent"]

StreamEvent == {"silent", "session_bound", "session_expired", "session_error"}

AuditAction == {"pairing.created", "pairing.cross_tenant_blocked",
                "pairing.integrity_rejected", "pairing.session_bind_mismatch",
                "pairing.replay_blocked", "pairing.race_lost",
                "pairing.claimed", "pairing.failed", "pairing.expired"}

Creation == [pc : {"idle", "insert", "done"}, tenant : Tenants \cup {None}]

Request == [pc : RequestPC, in : Submissions \cup {None}, outcome : Outcome]

Stream == [pc : {"idle", "polling", "done"}, session : Sessions \cup {None},
           deadline : Int, event : StreamEvent]

AuditRow == [action : AuditAction, session : Sessions, by : Requests \cup {None}]

\* Type correctness of rows, handlers, streams and the log: a call that has
\* started has its input, and every answer is one of the documented outcomes.
TypeOK ==
    /\ now \in Nat
    /\ row \in [Sessions -> Row]
    /\ creation \in [Sessions -> Creation]
    /\ request \in [Requests -> Request]
    /\ \A r \in Requests :
          request[r].pc # "idle" => request[r].in \in Submissions
    /\ stream \in [Streams -> Stream]
    /\ \A v \in Streams :
          stream[v].pc # "idle" => stream[v].session \in Sessions
    /\ roster \in [Tenants -> SUBSET Users]
    /\ policy \in [Tenants -> Policies]
    /\ audit \in SUBSET AuditRow
    /\ upsets \in 0..MaxUpsets

Init ==
    /\ now = 0
    /\ row = [s \in Sessions |-> AbsentRow]
    /\ creation = [s \in Sessions |-> [pc |-> "idle", tenant |-> None]]
    /\ request = [r \in Requests |->
                    [pc |-> "idle", in |-> None, outcome |-> "pending"]]
    /\ stream = [v \in Streams |-> NoStream]
    /\ roster = Residents
    /\ policy = [t \in Tenants |-> Permissive]
    /\ audit = {}
    /\ upsets = 0

-----------------------------------------------------------------------------
(* Audit writes *)

Entry(action, s, by) == [action |-> action, session |-> s, by |-> by]

\* recordAuditEvent(...).catch(...): the row lands, or the write is lost.
TryAudit(entries) == audit' = audit \cup entries \/ audit' = audit

-----------------------------------------------------------------------------
(* createSession: a COUNT, then an INSERT, in two statements *)

OpenSessions(t) ==
    {s \in Sessions : /\ row[s].tenant = t
                      /\ row[s].state = "issued"
                      /\ row[s].expires > now}

\* The COUNT; at the cap the call throws TooManyPendingSessions and ends.
CountPending(s, t) ==
    /\ creation[s].pc = "idle"
    /\ creation' =
         [creation EXCEPT ![s] =
            [pc |-> IF Cardinality(OpenSessions(t)) >= MaxPending
                      THEN "done" ELSE "insert",
             tenant |-> t]]
    /\ UNCHANGED <<now, row, request, stream, roster, policy, audit, upsets>>

\* The INSERT: fresh nonce and bind token, expiry from the clock at this point.
\* When it fails the call ends in a 500.
InsertSession(s) ==
    /\ creation[s].pc = "insert"
    /\ creation' = [creation EXCEPT ![s].pc = "done"]
    /\ \/ /\ now + TTL <= MaxTime                            \* bound
          /\ row' = [row EXCEPT ![s] =
                      [tenant |-> creation[s].tenant, state |-> "issued",
                       failures |-> 0, expires |-> now + TTL, user |-> {}]]
          /\ TryAudit({Entry("pairing.created", s, None)})
       \/ UNCHANGED <<row, audit>>
    /\ UNCHANGED <<now, request, stream, roster, policy, upsets>>

-----------------------------------------------------------------------------
(* submitProof *)

In(r) == request[r].in

At(r, pc) == request[r].pc = pc

Goto(r, pc) == request' = [request EXCEPT ![r].pc = pc]

\* The handler throws; the catch block pads the latency before it answers.
Finish(r, outcome) ==
    request' = [request EXCEPT ![r].pc = "pad", ![r].outcome = outcome]

\* An error of the catch block's list: the failure counter comes next.
Reject(r, error) ==
    request' = [request EXCEPT ![r].pc = "count", ![r].outcome = error]

\* policyDecision.ok is false: the policy's own count and audit row come next.
RefuseIntegrity(r) ==
    request' = [request EXCEPT ![r].pc = "integrity", ![r].outcome = "integrity"]

Submit(r, i) ==
    /\ At(r, "idle")
    /\ request' = [request EXCEPT ![r] =
                     [pc |-> "load", in |-> i, outcome |-> "pending"]]
    /\ UNCHANGED <<now, row, creation, stream, roster, policy, audit, upsets>>

\* Mutant: a locked session is reported by its row state, not an error code.
TurnAwayByState(s) ==
    IF row[s].state = "consumed" THEN "already_bound"
    ELSE IF row[s].state = "failed" \/ row[s].failures >= MaxFailures THEN "failed"
    ELSE IF row[s].expires <= now THEN "expired"
    ELSE "pending"

\* The state machine in front of the checks: why a row is turned away.
TurnAway(s) ==
    IF row[s].state = "consumed" THEN "already_bound"
    ELSE IF row[s].state = "failed" \/ row[s].failures >= MaxFailures THEN "locked"
    ELSE IF row[s].expires <= now THEN "expired"
    ELSE "pending"

\* Check 2: the row by (id, tenant, environment), then the state machine.  A
\* miss leaves a trace when the id exists under another tenant.
LoadSession(r) ==
    LET s == In(r).session IN
    /\ At(r, "load")
    /\ \/ /\ row[s].tenant # In(r).tenant
          /\ Finish(r, "not_found")
          /\ IF row[s].state = "absent"
               THEN UNCHANGED audit
               ELSE TryAudit({Entry("pairing.cross_tenant_blocked", s, r)})
       \/ /\ row[s].tenant = In(r).tenant
          /\ IF TurnAway(s) = "pending" THEN Goto(r, "policy")
                                        ELSE Finish(r, TurnAway(s))
          /\ UNCHANGED audit
    /\ UNCHANGED <<now, row, creation, stream, roster, policy, upsets>>

\* evaluateVerdict(presented, policy).ok
EvaluateVerdict(verdict, p) ==
    \/ p.required = 0
    \/ verdict = AbsentVerdict /\ p.allowAbsent
    \/ verdict # AbsentVerdict /\ verdict >= p.required

\* Checks 3a and 3: the tenant's policy (a failed read counts as no policy),
\* then the bind cookie.
CheckPolicyAndCookie(r) ==
    LET s == In(r).session IN
    /\ At(r, "policy")
    /\ \E p \in {policy[In(r).tenant], Permissive} :
         IF ~EvaluateVerdict(In(r).verdict, p)
           THEN RefuseIntegrity(r) /\ UNCHANGED audit
           ELSE IF In(r).cookie = s
             THEN Goto(r, "lookup") /\ UNCHANGED audit
             ELSE /\ Reject(r, "bind_mismatch")
                  /\ IF In(r).cookie = None
                       THEN UNCHANGED audit
                       ELSE TryAudit({Entry("pairing.session_bind_mismatch", s, r)})
    /\ UNCHANGED <<now, row, creation, stream, roster, policy, upsets>>

\* Mutant: the WHERE clause of the failure counter loses its state filter.
CountableAnyState(s) == row[s].state # "absent"

\* WHERE id = $1 AND state IN ('issued','failed')
Countable(s) == row[s].state \in {"issued", "failed"}

\* Mutant: the lock comes one failure late.
LocksLate(n) == n > MaxFailures

\* The failure count that locks a session.
Locks(n) == n >= MaxFailures

\* The UPDATE of incrementFailureCount: keyed on the id alone.
Bumped(s) ==
    IF Countable(s)
      THEN [row EXCEPT ![s].failures = @ + 1,
                       ![s].state = IF Locks(row[s].failures + 1)
                                      THEN "failed" ELSE @]
      ELSE row

\* incrementFailureCount(...).catch(...): the UPDATE runs, or its error is
\* swallowed.
IncrementFailureCount(s) == row' = Bumped(s) \/ row' = row

\* Mutant: the integrity errors join the catch block's list as well.
AnswerIntegrityCounted(r, outcome) == Reject(r, outcome)

\* PlayIntegrityRequired and PlayIntegrityInsufficient are not in that list.
AnswerIntegrity(r, outcome) == Finish(r, outcome)

\* A policy rejection counts here and not in the catch block.
CountIntegrity(r) ==
    /\ At(r, "integrity")
    /\ IncrementFailureCount(In(r).session)
    /\ Goto(r, "integrity_audit")
    /\ UNCHANGED <<now, creation, stream, roster, policy, audit, upsets>>

\* Its audit row is awaited, and a failed write turns the answer into a 500.
AuditIntegrity(r) ==
    LET s == In(r).session IN
    /\ At(r, "integrity_audit")
    /\ \/ /\ audit' = audit \cup {Entry("pairing.integrity_rejected", s, r)}
          /\ AnswerIntegrity(r, "integrity")
       \/ UNCHANGED audit /\ AnswerIntegrity(r, "integrity_unaudited")
    /\ UNCHANGED <<now, row, creation, stream, roster, policy, upsets>>

\* Mutant: publicSignals[1] is compared without the session nonce.
BindsDidOnly(r) == In(r).bound[1] = In(r).did

\* publicSignals[1] = Poseidon2(didHash, nonce) for this user and this session.
BindsSession(r) == In(r).bound = <<In(r).did, In(r).session>>

\* Checks 4 to 7: the user of (tenant, did), the commitment, the nonce binding.
LookupUser(r) ==
    LET s == In(r).session IN
    /\ At(r, "lookup")
    /\ IF \/ In(r).did \notin roster[In(r).tenant]
          \/ In(r).commitment # In(r).did
         THEN Reject(r, "did_unknown") /\ UNCHANGED audit
         ELSE IF ~BindsSession(r)
           THEN /\ Reject(r, "nonce_mismatch")
                /\ TryAudit({Entry("pairing.replay_blocked", s, r)})
           ELSE Goto(r, "verify") /\ UNCHANGED audit
    /\ UNCHANGED <<now, row, creation, stream, roster, policy, upsets>>

\* Mutant: a proof the verifier refuses leaves the call waiting.
VerifyNoRejection(r) ==
    /\ At(r, "verify")
    /\ In(r).sound
    /\ Goto(r, "consume") \/ Finish(r, "unavailable")
    /\ UNCHANGED <<now, row, creation, stream, roster, policy, audit, upsets>>

\* Check 8: the verifier answers, or times out or fails (VerifierUnavailable).
Verify(r) ==
    /\ At(r, "verify")
    /\ \/ In(r).sound /\ Goto(r, "consume")
       \/ ~In(r).sound /\ Reject(r, "proof_invalid")
       \/ Finish(r, "unavailable")
    /\ UNCHANGED <<now, row, creation, stream, roster, policy, audit, upsets>>

\* Mutant: the consuming UPDATE filters on the id alone.
ConsumableAnyState(s) == row[s].state # "absent"

\* WHERE id = $1 AND state = 'issued'
Consumable(s) == row[s].state = "issued"

\* Check 9: UPDATE ... WHERE id = $1 AND state = 'issued' RETURNING *.
Consume(r) ==
    LET s == In(r).session IN
    /\ At(r, "consume")
    /\ IF Consumable(s)
         THEN /\ row' = [row EXCEPT ![s].state = "consumed",
                                    ![s].user = {In(r).did}]
              /\ Goto(r, "claim")
              /\ UNCHANGED audit
         ELSE /\ Finish(r, "already_bound")
              /\ TryAudit({Entry("pairing.race_lost", s, r)})
              /\ UNCHANGED row
    /\ UNCHANGED <<now, creation, stream, roster, policy, upsets>>

\* Mutant: the claim's audit row is written without waiting for it.
AuditClaimFireAndForget(r) ==
    /\ At(r, "claim")
    /\ TryAudit({Entry("pairing.claimed", In(r).session, r)})
    /\ Goto(r, "respond")
    /\ UNCHANGED <<now, row, creation, stream, roster, policy, upsets>>

\* Check 10: tokens are minted; the audit row is awaited before they leave.
AuditClaim(r) ==
    /\ At(r, "claim")
    /\ \/ /\ audit' = audit \cup {Entry("pairing.claimed", In(r).session, r)}
          /\ Goto(r, "respond")
       \/ UNCHANGED audit /\ Finish(r, "unaudited")
    /\ UNCHANGED <<now, row, creation, stream, roster, policy, upsets>>

\* The floor has passed and the tokens leave.
Respond(r) ==
    /\ At(r, "respond")
    /\ request' = [request EXCEPT ![r].pc = "done", ![r].outcome = "tokens"]
    /\ UNCHANGED <<now, row, creation, stream, roster, policy, audit, upsets>>

\* The floor has passed and the error leaves.
Throw(r) ==
    /\ At(r, "pad")
    /\ Goto(r, "done")
    /\ UNCHANGED <<now, row, creation, stream, roster, policy, audit, upsets>>

\* The catch block for the counted errors: the counter, then the audit row that
\* nobody waits for.
CountFailure(r) ==
    LET s == In(r).session IN
    /\ At(r, "count")
    /\ IncrementFailureCount(s)
    /\ TryAudit({Entry("pairing.failed", s, r)})
    /\ Finish(r, request[r].outcome)
    /\ UNCHANGED <<now, creation, stream, roster, policy, upsets>>

\* A query of checks 2, 4 or 9 rejects: a 500, and nothing is counted.  The
\* consuming UPDATE may have committed when its connection breaks.
QueryFails(r) ==
    LET s == In(r).session IN
    /\ request[r].pc \in {"load", "lookup", "consume"}
    /\ Finish(r, "internal")
    /\ \/ UNCHANGED row
       \/ /\ At(r, "consume")
          /\ Consumable(s)
          /\ row' = [row EXCEPT ![s].state = "consumed",
                                ![s].user = {In(r).did}]
    /\ UNCHANGED <<now, creation, stream, roster, policy, audit, upsets>>

-----------------------------------------------------------------------------
(* subscribeStream *)

\* Mutant: a stream may live shorter than the session it follows.
StreamDeadlineShort == now + TTL - 1

\* Date.now() + STREAM_MAX_LIFETIME_MS
StreamDeadline == now + StreamLifetime

\* The generator's first pull: the cookie and the row are checked, and a row
\* that is already terminal ends the stream at once.
OpenStream(v, s) ==
    /\ stream[v].pc = "idle"
    /\ row[s].state # "absent"
    /\ stream' =
         [stream EXCEPT ![v] =
            [pc |-> IF row[s].state = "issued" THEN "polling" ELSE "done",
             session |-> s,
             deadline |-> StreamDeadline,
             event |-> CASE row[s].state = "issued" -> "silent"
                         [] row[s].state = "consumed" -> "session_bound"
                         [] row[s].state \in {"expired", "failed"}
                              -> "session_expired"]]
    /\ UNCHANGED <<now, row, creation, request, roster, policy, audit, upsets>>

EndStream(v, event) ==
    stream' = [stream EXCEPT ![v].pc = "done", ![v].event = event]

\* Mutant: the poll loop looks at the state column only.
OutlivedByState(s) == row[s].state = "expired"

\* expires_at <= Date.now()
Outlived(s) == row[s].expires <= now

\* One turn of the poll loop that ends the stream.  The deadline is tested
\* right after the row, before the next sleep: past it the generator returns
\* without an event.
PollStream(v) ==
    LET s == stream[v].session IN
    /\ stream[v].pc = "polling"
    /\ \/ row[s].state = "consumed" /\ EndStream(v, "session_bound")
       \/ row[s].state = "expired" /\ EndStream(v, "session_expired")
       \/ row[s].state = "failed" /\ EndStream(v, "session_error")
       \/ /\ row[s].state = "issued" /\ Outlived(s)
          /\ EndStream(v, "session_expired")
       \/ /\ row[s].state = "issued" /\ ~Outlived(s)
          /\ now >= stream[v].deadline
          /\ EndStream(v, "silent")
    /\ UNCHANGED <<now, row, creation, request, roster, policy, audit, upsets>>

\* The load of a poll fails: .catch(() => null) reads as a missing row.
PollFails(v) ==
    /\ stream[v].pc = "polling"
    /\ EndStream(v, "session_error")
    /\ UNCHANGED <<now, row, creation, request, roster, policy, audit, upsets>>

-----------------------------------------------------------------------------
(* The environment: sweep, clock, other handlers, restarts *)

\* Mutant: the sweep expires every row whose time has passed.
OverdueAnyState(s) == row[s].state # "absent" /\ row[s].expires < now

\* WHERE state = 'issued' AND expires_at < NOW()
Overdue(s) == row[s].state = "issued" /\ row[s].expires < now

ExpiredRow(s) == [row[s] EXCEPT !.state = "expired"]

\* expireOverdueSessions: one UPDATE over all overdue rows.
ExpireOverdueSessions ==
    /\ SweepScheduled
    /\ \E s \in Sessions : Overdue(s)
    /\ row' = [s \in Sessions |->
                 IF Overdue(s) THEN ExpiredRow(s) ELSE row[s]]
    /\ TryAudit({Entry("pairing.expired", s, None) :
                   s \in {x \in Sessions : Overdue(x)}})
    /\ UNCHANGED <<now, creation, request, stream, roster, policy, upsets>>

Tick ==
    /\ now < MaxTime                                        \* bound
    /\ now' = now + 1
    /\ UNCHANGED <<row, creation, request, stream, roster, policy, audit, upsets>>

\* bound: restarts and edits are rare events
Upset == upsets < MaxUpsets /\ upsets' = upsets + 1

\* completeRegistration adds a user to a tenant; a PATCH of the metadata blob
\* replaces it and takes the lookup keys away (updateTenantUser).
SetRoster(t, u) ==
    /\ Upset
    /\ roster' = [roster EXCEPT ![t] = IF u \in @ THEN @ \ {u} ELSE @ \cup {u}]
    /\ UNCHANGED <<now, row, creation, request, stream, policy, audit>>

\* The integrity flags are set by an operator, in SQL; no route writes them.
SetPolicy(t, p) ==
    /\ Upset
    /\ p # policy[t]
    /\ policy' = [policy EXCEPT ![t] = p]
    /\ UNCHANGED <<now, row, creation, request, stream, roster, audit>>

\* The Node process dies: handlers and streams are gone, the rows stay.  The
\* outcome of a lost call is what its handler had decided, if anything; nobody
\* hears of it.  A browser reopens its stream.
Crash ==
    /\ Upset
    /\ request' = [r \in Requests |->
                     IF request[r].pc \in {"idle", "done", "lost"}
                       THEN request[r]
                       ELSE [request[r] EXCEPT !.pc = "lost"]]
    /\ creation' = [s \in Sessions |->
                      IF creation[s].pc = "insert"
                        THEN [pc |-> "done", tenant |-> creation[s].tenant]
                        ELSE creation[s]]
    /\ stream' = [v \in Streams |->
                    IF stream[v].pc = "polling" THEN NoStream ELSE stream[v]]
    /\ UNCHANGED <<now, row, roster, policy, audit>>

-----------------------------------------------------------------------------

\* The steps of one submitProof call.
Handle(r) ==
    \/ LoadSession(r) \/ CheckPolicyAndCookie(r)
    \/ CountIntegrity(r) \/ AuditIntegrity(r)
    \/ LookupUser(r) \/ Verify(r) \/ Consume(r) \/ AuditClaim(r)
    \/ Respond(r) \/ CountFailure(r) \/ Throw(r) \/ QueryFails(r)

Next ==
    \/ \E s \in Sessions, t \in Tenants : CountPending(s, t)
    \/ \E s \in Sessions : InsertSession(s)
    \/ \E r \in Requests, i \in Submissions : Submit(r, i)
    \/ \E r \in Requests : Handle(r)
    \/ \E v \in Streams, s \in Sessions : OpenStream(v, s)
    \/ \E v \in Streams : PollStream(v) \/ PollFails(v)
    \/ ExpireOverdueSessions
    \/ Tick
    \/ \E t \in Tenants : \E u \in Residents[t] : SetRoster(t, u)
    \/ \E t \in Tenants, p \in Policies : SetPolicy(t, p)
    \/ Crash

Spec == Init /\ [][Next]_vars

\* Node keeps running the handlers and timers it has started, and time passes.
\* Nothing forces a client to submit or to open a stream.
Fairness ==
    /\ \A r \in Requests : WF_vars(Handle(r))
    /\ \A s \in Sessions : WF_vars(InsertSession(s))
    /\ \A v \in Streams : WF_vars(PollStream(v))
    /\ WF_vars(ExpireOverdueSessions)
    /\ WF_vars(Tick)

FairSpec == Spec /\ Fairness

-----------------------------------------------------------------------------
(* Properties *)

\* submitProof requests that won the consuming UPDATE and still run or ended.
Winner(r) ==
    \/ request[r].pc \in {"claim", "respond"}
    \/ request[r].outcome \in {"tokens", "unaudited"}

\* A submission for session s that passes every cryptographic check: the
\* session's own cookie, and an accepted proof of the DID's own commitment
\* bound to the session's own nonce.
Genuine(i, s) ==
    /\ i.session = s
    /\ i.cookie = s
    /\ i.commitment = i.did
    /\ i.bound = <<i.did, s>>
    /\ i.sound

\* A-14: of all the submits racing for a session, at most one wins the consume
\* and can hand out tokens, and its user is the one on the consumed row.
SingleUse ==
    \A r \in Requests : Winner(r) =>
        LET s == In(r).session IN
        /\ row[s].state = "consumed" /\ row[s].user = {In(r).did}
        /\ \A q \in Requests : Winner(q) /\ In(q).session = s => q = r

\* A-21: tokens that leave the server have their pairing.claimed audit row,
\* whatever crashed or failed around the awaited write.
TokensAudited ==
    \A r \in Requests : request[r].outcome = "tokens" =>
        Entry("pairing.claimed", In(r).session, r) \in audit

\* A-11, A-12, A-13: a consumed session was consumed by a genuine proof for
\* that very session, sent under the tenant that owns it; a proof replayed
\* from another session, tenant or browser never gets there.
ConsumedByGenuineProof ==
    \A s \in Sessions : row[s].state = "consumed" =>
        \E r \in Requests :
            /\ request[r].pc # "idle"
            /\ Genuine(In(r), s)
            /\ In(r).tenant = row[s].tenant
            /\ row[s].user = {In(r).did}

\* Submits of session s by its own tenant whose handler rejected them in a way
\* that counts, whether they were answered, wait for their answer or were lost.
Rejected(s) ==
    {r \in Requests :
        /\ request[r].pc # "idle"
        /\ In(r).session = s
        /\ In(r).tenant = row[s].tenant
        /\ request[r].outcome \in CountedErrors \cup IntegrityOutcomes}

\* A-20: the failure counter never exceeds the number of rejected submits of
\* the session's own tenant: no request is charged twice, whatever is lost
\* between its count and its answer, and no other tenant can lock a session
\* although the UPDATE is keyed on the id alone.
FailuresAccounted ==
    \A s \in Sessions : row[s].failures <= Cardinality(Rejected(s))

\* A-20: the lock and the counter agree in every interleaving of increments
\* with consume and expiry.
LockedAtThreshold ==
    \A s \in Sessions :
        row[s].state = "failed" <=> row[s].failures >= MaxFailures

\* A consumed, locked or expired session never comes back to life, its user is
\* never replaced, and a consumed or expired row no longer counts failures.
TerminalStatesFinal ==
    [][\A s \in Sessions :
         row[s].state \in {"consumed", "expired", "failed"} =>
            /\ row'[s].state = row[s].state
            /\ row'[s].user = row[s].user
            /\ row[s].state # "failed" => row'[s].failures = row[s].failures]_vars

\* A stream never ends in silence (the deadline is out of reach of a session's
\* life), and says session_bound only of a session that is bound.  It promises
\* nothing of a session it reports as expired: a submit that passed the deadline
\* check before may still bind it.
StreamTruthful ==
    \A v \in Streams : stream[v].pc = "done" =>
        /\ stream[v].event # "silent"
        /\ stream[v].event = "session_bound"
             => row[stream[v].session].state = "consumed"

\* Every submit is answered (or dies with the process).
SubmitAnswered ==
    \A r \in Requests :
        (request[r].pc # "idle") ~> (request[r].pc \in {"done", "lost"})

\* A polling stream ends, or its process dies and the browser reopens it.
StreamSettles ==
    \A v \in Streams : (stream[v].pc = "polling") ~> (stream[v].pc # "polling")

\* A session is a single-use ticket.
StatusOf(state) == IF state = "absent" THEN "unissued"
                   ELSE IF state = "issued" THEN "open"
                   ELSE IF state = "consumed" THEN "bound"
                   ELSE "closed"

TicketStatus == [s \in Sessions |-> StatusOf(row[s].state)]
TicketOwner == [s \in Sessions |-> row[s].user]
TicketGranted == {s \in Sessions : \E r \in Requests :
                    request[r].outcome = "tokens" /\ In(r).session = s}

Ticket ==
    INSTANCE PairingTicket WITH
        status <- TicketStatus, owner <- TicketOwner, granted <- TicketGranted

\* The pairing service implements the ticket specification: through all
\* interleavings, crashes and lost writes a session is bound at most once,
\* closed for good, and granted at most once and only when bound.
TicketSpec == Ticket!Spec
=============================================================================
