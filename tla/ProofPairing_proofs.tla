------------------------- MODULE ProofPairing_proofs -------------------------
(***************************************************************************)
(* Theorems about ProofPairing, for any number of sessions, requests,      *)
(* streams, tenants and users, any TTL and any thresholds.                 *)
(***************************************************************************)
EXTENDS ProofPairing, FiniteSetTheorems, TLAPS

-----------------------------------------------------------------------------
(* Type correctness *)

LEMMA TypeInit == Init => TypeOK
BY ConstantsAssumption
   DEF Init, TypeOK, AbsentRow, Row, RowState, Creation, Request, RequestPC,
       Outcome, Stream, NoStream, StreamEvent

\* A request in flight carries a well-formed submission.
LEMMA SubmissionFields ==
    ASSUME TypeOK, NEW r \in Requests, request[r].pc # "idle"
    PROVE  /\ In(r) \in Submissions
           /\ In(r).session \in Sessions
           /\ In(r).tenant \in Tenants
           /\ In(r).did \in Users
BY ConstantsAssumption DEF TypeOK, In, Submission

\* The failure counter's UPDATE keeps rows well-formed.
LEMMA CounterType ==
    ASSUME TypeOK, NEW s \in Sessions, IncrementFailureCount(s)
    PROVE  row' \in [Sessions -> Row]
<1>1. row[s] \in Row /\ row[s].failures + 1 \in Nat
  BY DEF TypeOK, Row
<1>2. CASE row' = row
  BY <1>2 DEF TypeOK
<1>3. CASE row' = Bumped(s) /\ Countable(s)
  <2> DEFINE f == row[s].failures + 1
             st == IF Locks(f) THEN "failed" ELSE row[s].state
             new == [row[s] EXCEPT !.failures = f, !.state = st]
  <2>1. new \in Row
    BY <1>1 DEF Row, RowState
  <2>2. row' = [row EXCEPT ![s] = new]
    BY <1>3, <1>1 DEF Bumped, TypeOK, Row
  <2> QED
    BY <2>1, <2>2 DEF TypeOK
<1>4. CASE row' = Bumped(s) /\ ~Countable(s)
  BY <1>4 DEF Bumped, TypeOK
<1> QED
  BY <1>2, <1>3, <1>4 DEF IncrementFailureCount

\* The consuming UPDATE keeps rows well-formed and touches one row.
LEMMA ConsumedRow ==
    ASSUME row \in [Sessions -> Row], NEW s \in Sessions, NEW u \in Users,
           row' = [row EXCEPT ![s].state = "consumed", ![s].user = {u}]
    PROVE  /\ row' \in [Sessions -> Row]
           /\ row'[s] = [tenant |-> row[s].tenant, state |-> "consumed",
                         failures |-> row[s].failures,
                         expires |-> row[s].expires, user |-> {u}]
           /\ \A x \in Sessions \ {s} : row'[x] = row[x]
<1> DEFINE new == [tenant |-> row[s].tenant, state |-> "consumed",
                   failures |-> row[s].failures,
                   expires |-> row[s].expires, user |-> {u}]
<1>1. row[s] \in Row
  OBVIOUS
<1>2. [row[s] EXCEPT !.state = "consumed", !.user = {u}] = new
  <2>1. PICK r \in Row : r = row[s]
    BY <1>1
  <2>2. PICK c \in Row : c = [tenant |-> r.tenant, state |-> "consumed",
                              failures |-> r.failures, expires |-> r.expires,
                              user |-> {u}]
    BY DEF Row, RowState
  <2>3. /\ c.tenant = r.tenant /\ c.state = "consumed" /\ c.failures = r.failures
        /\ c.expires = r.expires /\ c.user = {u}
    BY <2>2
  <2>4. [r EXCEPT !.state = "consumed", !.user = {u}] = c
    <3> HIDE <2>2
    <3> QED
      BY <2>3 DEF Row
  <2> QED
    BY <2>1, <2>2, <2>4
<1>3. new \in Row
  BY <1>1 DEF Row, RowState
<1>4. row' = [row EXCEPT ![s] = [row[s] EXCEPT !.state = "consumed", !.user = {u}]]
  OBVIOUS
<1>5. row' = [row EXCEPT ![s] = new]
  BY <1>2, <1>4
<1> HIDE DEF new
<1>6. row' \in [Sessions -> Row] /\ row'[s] = new /\ \A x \in Sessions \ {s} : row'[x] = row[x]
  BY <1>3, <1>5
<1> QED
  BY <1>6 DEF new

\* Audit writes of well-formed entries keep the log well-formed.
LEMMA AuditType ==
    ASSUME TypeOK, NEW entries \in SUBSET AuditRow, TryAudit(entries)
    PROVE  audit' \in SUBSET AuditRow
BY DEF TypeOK, TryAudit

\* The requests' part of the type invariant.
RequestsOK ==
    /\ request \in [Requests -> Request]
    /\ \A r \in Requests :
          request[r].pc # "idle" => request[r].in \in Submissions

LEMMA MoveType ==
    ASSUME TypeOK, NEW r \in Requests, request[r].pc # "idle",
           NEW pc \in RequestPC \ {"idle"}, NEW outcome \in Outcome,
           \/ request' = [request EXCEPT ![r].pc = pc]
           \/ request' = [request EXCEPT ![r].pc = pc, ![r].outcome = outcome]
    PROVE  RequestsOK'
BY DEF TypeOK, RequestsOK, Request

\* Every step keeps the type invariant.
LEMMA TypeNext == TypeOK /\ [Next]_vars => TypeOK'
<1> USE ConstantsAssumption
<1> SUFFICES ASSUME TypeOK, [Next]_vars
             PROVE  TypeOK'
  OBVIOUS
<1>1. ASSUME NEW s \in Sessions, NEW t \in Tenants, CountPending(s, t)
      PROVE  TypeOK'
  BY <1>1 DEF CountPending, TypeOK, Creation
<1>2. ASSUME NEW s \in Sessions, InsertSession(s)
      PROVE  TypeOK'
  <2>1. creation' \in [Sessions -> Creation]
    BY <1>2 DEF InsertSession, TypeOK, Creation
  <2>2. row' \in [Sessions -> Row]
    <3> DEFINE new == [tenant |-> creation[s].tenant, state |-> "issued",
                       failures |-> 0, expires |-> now + TTL, user |-> {}]
    <3>1. new \in Row
      BY DEF TypeOK, Creation, Row, RowState
    <3> QED
      BY <1>2, <3>1 DEF InsertSession, TypeOK
  <2>3. audit' \in SUBSET AuditRow
    BY <1>2 DEF InsertSession, TryAudit, Entry, TypeOK, AuditRow, AuditAction
  <2> QED
    BY <1>2, <2>1, <2>2, <2>3 DEF InsertSession, TypeOK
<1>3. ASSUME NEW r \in Requests, NEW i \in Submissions, Submit(r, i)
      PROVE  TypeOK'
  <2>1. RequestsOK'
    <3> DEFINE new == [pc |-> "load", in |-> i, outcome |-> "pending"]
    <3>1. new \in Request /\ new.in \in Submissions
      BY DEF Request, RequestPC, Outcome
    <3> QED
      BY <1>3, <3>1 DEF Submit, TypeOK, RequestsOK
  <2> QED
    BY <1>3, <2>1 DEF Submit, TypeOK, RequestsOK
<1>4. ASSUME NEW r \in Requests, Handle(r)
      PROVE  TypeOK'
  <2>1. request[r].pc # "idle" /\ request[r].outcome \in Outcome
    BY <1>4 DEF Handle, At, LoadSession, CheckPolicyAndCookie,
                CountIntegrity, AuditIntegrity, LookupUser, Verify, Consume,
                AuditClaim, Respond, CountFailure, Throw, QueryFails, TypeOK, Request
  <2>2. /\ In(r) \in Submissions /\ In(r).session \in Sessions
        /\ In(r).tenant \in Tenants /\ In(r).did \in Users
    BY <2>1, SubmissionFields
  <2>3. RequestsOK'
    <3>1. \E pc \in RequestPC \ {"idle"}, outcome \in Outcome :
            \/ request' = [request EXCEPT ![r].pc = pc]
            \/ request' = [request EXCEPT ![r].pc = pc, ![r].outcome = outcome]
      <4>1. CASE LoadSession(r)
        BY <4>1 DEF LoadSession, TurnAway, Finish, Goto, RequestPC, Outcome
      <4>2. CASE CheckPolicyAndCookie(r)
        BY <4>2 DEF CheckPolicyAndCookie, Goto, Reject, RefuseIntegrity, RequestPC,
                    Outcome, CountedErrors, IntegrityOutcomes
      <4>3. CASE CountIntegrity(r) \/ AuditIntegrity(r)
        BY <4>3 DEF CountIntegrity, AuditIntegrity, AnswerIntegrity, Goto, Finish,
                    RequestPC, Outcome, IntegrityOutcomes
      <4>4. CASE LookupUser(r)
        BY <4>4 DEF LookupUser, Goto, Reject, RequestPC, Outcome, CountedErrors
      <4>5. CASE Verify(r)
        BY <4>5 DEF Verify, Goto, Reject, Finish, RequestPC, Outcome, CountedErrors
      <4>6. CASE Consume(r)
        BY <4>6 DEF Consume, Goto, Finish, RequestPC, Outcome
      <4>7. CASE AuditClaim(r)
        BY <4>7 DEF AuditClaim, Goto, Finish, RequestPC, Outcome
      <4>8. CASE Respond(r) \/ Throw(r)
        BY <4>8 DEF Respond, Throw, Goto, RequestPC, Outcome
      <4>9. CASE CountFailure(r)
        BY <4>9, <2>1 DEF CountFailure, Finish, RequestPC
      <4>10. CASE QueryFails(r)
        BY <4>10 DEF QueryFails, Finish, RequestPC, Outcome
      <4> QED
        BY <1>4, <4>1, <4>2, <4>3, <4>4, <4>5, <4>6, <4>7, <4>8, <4>9, <4>10
           DEF Handle
    <3> QED
      BY <2>1, <3>1, MoveType
  <2>4. row' \in [Sessions -> Row]
    <3>1. CASE CountIntegrity(r) \/ CountFailure(r)
      BY <3>1, <2>2, CounterType DEF CountIntegrity, AuditIntegrity, CountFailure
    <3>2. CASE UNCHANGED row
      BY <3>2 DEF TypeOK
    <3>3. CASE row' = [row EXCEPT ![In(r).session].state = "consumed",
                                  ![In(r).session].user = {In(r).did}]
      BY <3>3, <2>2, ConsumedRow DEF TypeOK
    <3> QED
      BY <1>4, <3>1, <3>2, <3>3
         DEF Handle, LoadSession, CheckPolicyAndCookie, AuditIntegrity, LookupUser,
             Verify, Consume, AuditClaim, Respond, Throw, QueryFails
  <2>5. audit' \in SUBSET AuditRow
    <3>1. \A a \in AuditAction : Entry(a, In(r).session, r) \in AuditRow
      BY <2>2 DEF Entry, AuditRow
    <3>2. \E entries \in SUBSET AuditRow : TryAudit(entries)
      <4>1. {} \in SUBSET AuditRow
        OBVIOUS
      <4> QED
        BY <1>4, <3>1, <4>1
           DEF Handle, LoadSession, CheckPolicyAndCookie, CountIntegrity, AuditIntegrity,
               LookupUser, Verify, Consume, AuditClaim, Respond, CountFailure, Throw,
               QueryFails, TryAudit, AuditAction
    <3> QED
      BY <3>2, AuditType
  <2>6. UNCHANGED <<now, creation, stream, roster, policy, upsets>>
    BY <1>4 DEF Handle, LoadSession, CheckPolicyAndCookie,
                CountIntegrity, AuditIntegrity, LookupUser, Verify, Consume,
                AuditClaim, Respond, CountFailure, Throw, QueryFails
  <2> QED
    BY <2>3, <2>4, <2>5, <2>6 DEF TypeOK, RequestsOK
<1>5. ASSUME NEW v \in Streams, NEW s \in Sessions, OpenStream(v, s)
      PROVE  TypeOK'
  <2>1. now + StreamLifetime \in Int /\ row[s].state \in RowState
    BY DEF TypeOK, Row
  <2> QED
    BY <1>5, <2>1
       DEF OpenStream, StreamDeadline, TypeOK, Stream, StreamEvent, RowState
<1>6. ASSUME NEW v \in Streams, PollStream(v) \/ PollFails(v)
      PROVE  TypeOK'
  <2>1. PICK e \in StreamEvent : EndStream(v, e)
    BY <1>6 DEF PollStream, PollFails, StreamEvent
  <2>2. /\ stream' \in [Streams -> Stream]
        /\ \A w \in Streams : stream'[w].pc # "idle" => stream'[w].session \in Sessions
    BY <1>6, <2>1 DEF EndStream, PollStream, PollFails, TypeOK, Stream
  <2> QED
    BY <1>6, <2>2 DEF PollStream, PollFails, TypeOK
<1>7. ASSUME ExpireOverdueSessions
      PROVE  TypeOK'
  <2>1. row' \in [Sessions -> Row]
    <3>1. \A s \in Sessions : row[s] \in Row /\ ExpiredRow(s) \in Row
      BY DEF ExpiredRow, TypeOK, Row, RowState
    <3> QED
      BY <1>7, <3>1 DEF ExpireOverdueSessions
  <2>2. audit' \in SUBSET AuditRow
    BY <1>7 DEF ExpireOverdueSessions, TryAudit, Entry, TypeOK, AuditRow, AuditAction
  <2> QED
    BY <1>7, <2>1, <2>2 DEF ExpireOverdueSessions, TypeOK
<1>8. CASE Tick
  BY <1>8 DEF Tick, TypeOK
<1>9. ASSUME NEW t \in Tenants, NEW u \in Residents[t], SetRoster(t, u)
      PROVE  TypeOK'
  BY <1>9 DEF SetRoster, Upset, TypeOK
<1>10. ASSUME NEW t \in Tenants, NEW p \in Policies, SetPolicy(t, p)
       PROVE  TypeOK'
  BY <1>10 DEF SetPolicy, Upset, TypeOK
<1>11. CASE Crash
  <2>1. RequestsOK'
    <3> DEFINE Lost(r) == [request[r] EXCEPT !.pc = "lost"]
    <3>1. \A r \in Requests : Lost(r) \in Request /\ Lost(r).in = request[r].in
      BY DEF TypeOK, Request, RequestPC
    <3>2. \A r \in Requests :
             \/ request'[r] = request[r]
             \/ request[r].pc # "idle" /\ request'[r] = Lost(r)
      BY <1>11 DEF Crash
    <3>3. request' = [r \in Requests |-> request'[r]]
      BY <1>11 DEF Crash
    <3> HIDE DEF Lost
    <3> QED
      BY <3>1, <3>2, <3>3 DEF TypeOK, RequestsOK
  <2>2. creation' \in [Sessions -> Creation]
    BY <1>11 DEF Crash, TypeOK, Creation
  <2>3. /\ stream' \in [Streams -> Stream]
        /\ \A v \in Streams : stream'[v].pc # "idle" => stream'[v].session \in Sessions
    <3>1. NoStream \in Stream /\ NoStream.pc = "idle"
      BY DEF NoStream, Stream, StreamEvent
    <3> QED
      BY <1>11, <3>1 DEF Crash, TypeOK
  <2>4. upsets' \in 0..MaxUpsets /\ UNCHANGED <<now, row, roster, policy, audit>>
    BY <1>11 DEF Crash, Upset, TypeOK
  <2> QED
    BY <2>1, <2>2, <2>3, <2>4 DEF TypeOK, RequestsOK
<1>12. CASE UNCHANGED vars
  BY <1>12 DEF vars, TypeOK
<1> QED
  BY <1>1, <1>2, <1>3, <1>4, <1>5, <1>6, <1>7, <1>8, <1>9, <1>10, <1>11, <1>12
     DEF Next

\* Type correctness of the pairing service, for every value of the constants.
THEOREM TypeCorrect == Spec => []TypeOK
BY TypeInit, TypeNext, PTL DEF Spec

-----------------------------------------------------------------------------
(* The inductive invariant *)

\* A row is absent exactly until its creation's INSERT, and its TTL is counted
\* from a moment that has passed.
Lifecycle(s) ==
    /\ row[s].state = "absent" <=> row[s].tenant = None
    /\ row[s].state = "absent" => row[s].failures = 0 /\ row[s].user = {}
    /\ row[s].state # "absent" => row[s].expires <= now + TTL
    /\ creation[s].pc \in {"idle", "insert"} => row[s].state = "absent"
    /\ creation[s].pc = "insert" => creation[s].tenant \in Tenants

\* What a handler at a given point has established about its input: the later
\* steps rely on these facts without checking them again.
Checked(r) ==
    LET pc == request[r].pc
        s  == In(r).session
    IN  /\ pc \notin {"idle", "load", "pad", "done", "lost"}
              => row[s].tenant = In(r).tenant
        /\ pc \in {"lookup", "verify", "consume", "claim", "respond"}
              => In(r).cookie = s
        /\ pc \in {"verify", "consume", "claim", "respond"}
              => In(r).commitment = In(r).did /\ In(r).bound = <<In(r).did, s>>
        /\ pc \in {"consume", "claim", "respond"} => In(r).sound
        /\ pc = "respond" => Entry("pairing.claimed", s, r) \in audit
        /\ pc \notin {"integrity", "integrity_audit", "count", "pad", "done", "lost"}
              => request[r].outcome = "pending"
        /\ pc \in {"integrity", "integrity_audit"}
              => request[r].outcome = "integrity"
        /\ pc = "count" => request[r].outcome \in CountedErrors
        /\ pc \in {"pad", "lost"} => request[r].outcome # "tokens"

\* A polling stream's session dies before the stream's deadline.
OutlivesSession(v) ==
    stream[v].pc = "polling" =>
        /\ row[stream[v].session].state # "absent"
        /\ row[stream[v].session].expires < stream[v].deadline

PairingInv ==
    /\ TypeOK
    /\ \A s \in Sessions : Lifecycle(s)
    /\ \A r \in Requests : Checked(r)
    /\ SingleUse
    /\ TokensAudited
    /\ ConsumedByGenuineProof
    /\ LockedAtThreshold
    /\ \A v \in Streams : OutlivesSession(v)
    /\ StreamTruthful

LEMMA InvInit == Init => PairingInv
<1> SUFFICES ASSUME Init PROVE PairingInv
  OBVIOUS
<1>1. TypeOK
  BY TypeInit
<1>2. /\ \A s \in Sessions : row[s] = AbsentRow /\ creation[s].pc = "idle"
      /\ \A r \in Requests : request[r].pc = "idle" /\ request[r].outcome = "pending"
      /\ \A v \in Streams : stream[v].pc = "idle"
  BY DEF Init, NoStream
<1>3. \A s \in Sessions : Lifecycle(s)
  BY <1>2 DEF Lifecycle, AbsentRow
<1>4. \A r \in Requests : Checked(r)
  BY <1>2 DEF Checked
<1>5. SingleUse /\ TokensAudited /\ ConsumedByGenuineProof
  BY <1>2 DEF SingleUse, Winner, TokensAudited, ConsumedByGenuineProof, AbsentRow
<1>6. LockedAtThreshold
  BY <1>2, ConstantsAssumption DEF LockedAtThreshold, AbsentRow
<1>7. (\A v \in Streams : OutlivesSession(v)) /\ StreamTruthful
  BY <1>2 DEF OutlivesSession, StreamTruthful
<1> QED
  BY <1>1, <1>3, <1>4, <1>5, <1>6, <1>7 DEF PairingInv

-----------------------------------------------------------------------------
(* How one row, one request and the log can change in a step *)

Inserted(s) ==
    /\ creation[s].pc = "insert" /\ creation'[s].pc = "done" /\ now' = now
    /\ row'[s] = [tenant |-> creation[s].tenant, state |-> "issued",
                  failures |-> 0, expires |-> now + TTL, user |-> {}]

Counted(s) ==
    /\ row[s].state \in {"issued", "failed"}
    /\ row'[s] = [tenant |-> row[s].tenant,
                  state |-> IF row[s].failures + 1 >= MaxFailures
                              THEN "failed" ELSE row[s].state,
                  failures |-> row[s].failures + 1,
                  expires |-> row[s].expires, user |-> row[s].user]

BoundBy(s, r) ==
    /\ request[r].pc = "consume" /\ In(r).session = s
    /\ request'[r].in = In(r) /\ request'[r].pc # "idle"
    /\ row[s].state = "issued"
    /\ row'[s] = [tenant |-> row[s].tenant, state |-> "consumed",
                  failures |-> row[s].failures, expires |-> row[s].expires,
                  user |-> {In(r).did}]

Lapsed(s) ==
    /\ row[s].state = "issued"
    /\ row'[s] = [tenant |-> row[s].tenant, state |-> "expired",
                  failures |-> row[s].failures, expires |-> row[s].expires,
                  user |-> row[s].user]

RowMoves(s) ==
    \/ row'[s] = row[s]
    \/ Inserted(s)
    \/ Counted(s)
    \/ \E r \in Requests : BoundBy(s, r)
    \/ Lapsed(s)

\* The counter's UPDATE, row by row.
LEMMA CounterMoves ==
    ASSUME TypeOK, NEW s \in Sessions, IncrementFailureCount(s), NEW x \in Sessions
    PROVE  row'[x] = row[x] \/ (x = s /\ Counted(x))
BY DEF IncrementFailureCount, Bumped, Countable, Locks, Counted, TypeOK, Row

\* The consuming UPDATE, row by row.
LEMMA ConsumeMoves ==
    ASSUME TypeOK, NEW r \in Requests, request[r].pc = "consume",
           Consume(r) \/ QueryFails(r), NEW x \in Sessions
    PROVE  row'[x] = row[x] \/ BoundBy(x, r)
<1>1. In(r).session \in Sessions /\ In(r).did \in Users
  BY SubmissionFields
<1>2. request'[r].in = In(r) /\ request'[r].pc # "idle"
  BY DEF Consume, QueryFails, Goto, Finish, In, TypeOK, Request
<1>3. CASE row' = row
  BY <1>3
<1>4. CASE /\ Consumable(In(r).session)
           /\ row' = [row EXCEPT ![In(r).session].state = "consumed",
                                 ![In(r).session].user = {In(r).did}]
  <2>1. row[In(r).session].state = "issued"
    BY <1>4 DEF Consumable
  <2>2. row' = [row EXCEPT ![In(r).session].state = "consumed",
                           ![In(r).session].user = {In(r).did}]
    BY <1>4
  <2>3. row \in [Sessions -> Row]
    BY DEF TypeOK
  <2>4. /\ row'[In(r).session] =
             [tenant |-> row[In(r).session].tenant, state |-> "consumed",
              failures |-> row[In(r).session].failures,
              expires |-> row[In(r).session].expires, user |-> {In(r).did}]
        /\ \A y \in Sessions \ {In(r).session} : row'[y] = row[y]
    BY <1>1, <2>2, <2>3, ConsumedRow
  <2> QED
    BY <1>1, <1>2, <2>1, <2>4 DEF BoundBy
<1> QED
  BY <1>3, <1>4 DEF Consume, QueryFails

\* Every step moves every row in one of the ways of RowMoves.
LEMMA RowsMove ==
    ASSUME PairingInv, [Next]_vars, NEW x \in Sessions
    PROVE  RowMoves(x)
<1> USE DEF RowMoves
<1>1. TypeOK
  BY DEF PairingInv
<1>2. ASSUME NEW s \in Sessions, InsertSession(s)
      PROVE  RowMoves(x)
  BY <1>1, <1>2 DEF InsertSession, Inserted, TypeOK, Creation
<1>3. ASSUME NEW r \in Requests, Handle(r)
      PROVE  RowMoves(x)
  <2>1. request[r].pc # "idle"
    BY <1>3 DEF Handle, At, LoadSession, CheckPolicyAndCookie,
                CountIntegrity, AuditIntegrity, LookupUser, Verify, Consume,
                AuditClaim, Respond, CountFailure, Throw, QueryFails
  <2>2. In(r).session \in Sessions
    BY <1>1, <2>1, SubmissionFields
  <2>3. CASE CountIntegrity(r) \/ CountFailure(r)
    BY <1>1, <2>2, <2>3, CounterMoves DEF CountIntegrity, AuditIntegrity, CountFailure
  <2>4. CASE Consume(r)
    BY <1>1, <2>4, ConsumeMoves DEF Consume, At
  <2>5. CASE QueryFails(r)
    BY <1>1, <2>5, ConsumeMoves DEF QueryFails, At
  <2> QED
    BY <1>3, <2>3, <2>4, <2>5
       DEF Handle, LoadSession, CheckPolicyAndCookie, AuditIntegrity, LookupUser,
           Verify, AuditClaim, Respond, Throw
<1>4. CASE ExpireOverdueSessions
  <2>1. CASE Overdue(x)
    <3>1. row'[x] = [row[x] EXCEPT !.state = "expired"]
      BY <1>4, <2>1 DEF ExpireOverdueSessions, ExpiredRow
    <3>2. Lapsed(x)
      BY <1>1, <2>1, <3>1 DEF Overdue, Lapsed, TypeOK, Row
    <3> QED
      BY <3>2
  <2>2. CASE ~Overdue(x)
    BY <1>4, <2>2 DEF ExpireOverdueSessions
  <2> QED
    BY <2>1, <2>2
<1>5. CASE UNCHANGED row
  BY <1>5
<1> QED
  BY <1>2, <1>3, <1>4, <1>5
     DEF Next, CountPending, Submit, OpenStream, PollStream, PollFails, Tick,
         SetRoster, SetPolicy, Crash, vars

\* What every step keeps of a row that exists.
LEMMA RowsStable ==
    ASSUME PairingInv, [Next]_vars, NEW x \in Sessions, row[x].state # "absent"
    PROVE  /\ row'[x].tenant = row[x].tenant
           /\ row'[x].expires = row[x].expires
           /\ row'[x].state # "absent"
           /\ row[x].state = "consumed" => row'[x] = row[x]
<1>1. creation[x].pc # "insert"
  BY DEF PairingInv, Lifecycle
<1>2. RowMoves(x)
  BY RowsMove
<1>3. CASE row'[x] = row[x]
  BY <1>3
<1>4. CASE Counted(x)
  BY <1>4 DEF Counted
<1>5. ASSUME NEW r \in Requests, BoundBy(x, r)
      PROVE  /\ row'[x].tenant = row[x].tenant
             /\ row'[x].expires = row[x].expires
             /\ row'[x].state = "consumed" /\ row[x].state # "consumed"
  BY <1>5 DEF BoundBy
<1>6. CASE Lapsed(x)
  BY <1>6 DEF Lapsed
<1> QED
  BY <1>1, <1>2, <1>3, <1>4, <1>5, <1>6 DEF RowMoves, Inserted

\* The log only grows, and the clock does not go back.
LEMMA LogGrows ==
    ASSUME TypeOK, [Next]_vars
    PROVE  (\A e \in audit : e \in audit') /\ now <= now' /\ now' \in Nat
<1>1. now' = now \/ now' = now + 1
  BY DEF Next, CountPending, InsertSession, Submit, Handle, LoadSession,
         CheckPolicyAndCookie, CountIntegrity, AuditIntegrity, LookupUser, Verify, Consume,
         AuditClaim, Respond, CountFailure, Throw, QueryFails, OpenStream, PollStream,
         PollFails, ExpireOverdueSessions, Tick, SetRoster, SetPolicy, Crash, vars
<1>2. ASSUME NEW r \in Requests, Handle(r)
      PROVE  \A e \in audit : e \in audit'
  BY <1>2 DEF Handle, LoadSession, CheckPolicyAndCookie, CountIntegrity, AuditIntegrity,
              LookupUser, Verify, Consume, AuditClaim, Respond, CountFailure, Throw,
              QueryFails, TryAudit
<1>3. ASSUME NEW s \in Sessions, InsertSession(s)
      PROVE  \A e \in audit : e \in audit'
  BY <1>3 DEF InsertSession, TryAudit
<1>4. ExpireOverdueSessions => \A e \in audit : e \in audit'
  BY DEF ExpireOverdueSessions, TryAudit
<1>5. UNCHANGED audit => \A e \in audit : e \in audit'
  OBVIOUS
<1>6. \A e \in audit : e \in audit'
  BY <1>2, <1>3, <1>4, <1>5
     DEF Next, CountPending, Submit, OpenStream, PollStream, PollFails, Tick,
         SetRoster, SetPolicy, Crash, vars
<1> QED
  BY <1>1, <1>6 DEF TypeOK

\* The three ways a handler moves on.
LEMMA HandlerMoves ==
    ASSUME TypeOK, NEW r \in Requests
    PROVE  /\ \A pc \in RequestPC : Goto(r, pc) =>
                /\ request'[r].pc = pc
                /\ request'[r].outcome = request[r].outcome
                /\ request'[r].in = In(r)
                /\ \A q \in Requests : q # r => request'[q] = request[q]
           /\ \A o \in Outcome : Finish(r, o) =>
                /\ request'[r].pc = "pad"
                /\ request'[r].outcome = o
                /\ request'[r].in = In(r)
                /\ \A q \in Requests : q # r => request'[q] = request[q]
           /\ \A o \in Outcome : Reject(r, o) =>
                /\ request'[r].pc = "count"
                /\ request'[r].outcome = o
                /\ request'[r].in = In(r)
                /\ \A q \in Requests : q # r => request'[q] = request[q]
BY DEF TypeOK, Request, Goto, Finish, Reject, In

\* Where a step of submitProof can lead, and what it saw on the way.
LEMMA HandleMoves ==
    ASSUME TypeOK, NEW r \in Requests, Handle(r)
    PROVE  LET s  == In(r).session
               pc == request[r].pc
           IN
           /\ pc # "idle" /\ request'[r].in = In(r)
           /\ \A q \in Requests : q # r => request'[q] = request[q]
           /\ \/ /\ request'[r].pc = "pad"
                 /\ request'[r].outcome \notin
                       {"tokens", "unaudited"} \cup CountedErrors \cup IntegrityOutcomes
                 /\ pc \in {"load", "lookup", "verify", "consume"}
              \/ /\ request'[r].outcome = request[r].outcome
                 /\ \/ pc = "count" /\ request'[r].pc = "pad"
                    \/ pc = "integrity" /\ request'[r].pc = "integrity_audit"
                    \/ pc = "pad" /\ request'[r].pc = "done"
              \/ /\ pc = "policy" /\ request'[r].pc = "integrity"
                 /\ request'[r].outcome = "integrity"
              \/ /\ pc = "integrity_audit" /\ request'[r].pc = "pad"
                 /\ request'[r].outcome \in IntegrityOutcomes
              \/ /\ request'[r].pc = "count"
                 /\ request'[r].outcome \in CountedErrors
                 /\ pc \in {"policy", "lookup", "verify"}
              \/ /\ request'[r].pc \in {"policy", "lookup"}
                 /\ request'[r].outcome = request[r].outcome
                 /\ \/ pc = "load" /\ request'[r].pc = "policy"
                                  /\ row[s].tenant = In(r).tenant
                    \/ pc = "policy" /\ request'[r].pc = "lookup" /\ In(r).cookie = s
              \/ /\ pc = "lookup" /\ request'[r].pc = "verify"
                 /\ request'[r].outcome = request[r].outcome
                 /\ In(r).commitment = In(r).did /\ In(r).bound = <<In(r).did, s>>
              \/ /\ pc = "verify" /\ request'[r].pc = "consume" /\ In(r).sound
                 /\ request'[r].outcome = request[r].outcome
              \/ /\ pc = "consume" /\ request'[r].pc = "claim"
                 /\ request'[r].outcome = request[r].outcome
                 /\ row[s].state = "issued"
                 /\ row'[s].state = "consumed" /\ row'[s].user = {In(r).did}
              \/ /\ pc = "claim" /\ request'[r].pc = "respond"
                 /\ request'[r].outcome = request[r].outcome
                 /\ Entry("pairing.claimed", s, r) \in audit'
              \/ /\ pc = "claim" /\ request'[r].pc = "pad"
                 /\ request'[r].outcome = "unaudited"
              \/ /\ pc = "respond" /\ request'[r].pc = "done"
                 /\ request'[r].outcome = "tokens"
<1> USE HandlerMoves
<1>0. request[r].pc # "idle" /\ request[r].outcome \in Outcome
  BY DEF Handle, At, LoadSession, CheckPolicyAndCookie, CountIntegrity, AuditIntegrity,
         LookupUser, Verify, Consume, AuditClaim, Respond, CountFailure, Throw,
         QueryFails, TypeOK, Request
<1>1. CASE LoadSession(r)
  BY <1>1 DEF LoadSession, TurnAway, At, RequestPC, Outcome, CountedErrors,
              IntegrityOutcomes
<1>2. CASE CheckPolicyAndCookie(r)
  <2>1. RefuseIntegrity(r) =>
           /\ request'[r].pc = "integrity" /\ request'[r].outcome = "integrity"
           /\ request'[r].in = In(r)
           /\ \A q \in Requests : q # r => request'[q] = request[q]
    BY DEF RefuseIntegrity, TypeOK, Request, In
  <2> QED
    BY <1>2, <2>1 DEF CheckPolicyAndCookie, At, RequestPC, Outcome, CountedErrors
<1>3. CASE CountIntegrity(r) \/ AuditIntegrity(r)
  BY <1>3 DEF CountIntegrity, AuditIntegrity, AnswerIntegrity, At, RequestPC, Outcome,
              IntegrityOutcomes
<1>4. CASE LookupUser(r)
  BY <1>4 DEF LookupUser, BindsSession, At, RequestPC, Outcome, CountedErrors
<1>5. CASE Verify(r)
  BY <1>5 DEF Verify, At, RequestPC, Outcome, CountedErrors, IntegrityOutcomes
<1>6. CASE Consume(r)
  <2>1. CASE ~Consumable(In(r).session)
    BY <1>6, <2>1 DEF Consume, At, Outcome, CountedErrors, IntegrityOutcomes
  <2>2. CASE Consumable(In(r).session)
    <3>1. In(r).session \in Sessions
      BY <1>0, SubmissionFields
    <3>2. row' = [row EXCEPT ![In(r).session].state = "consumed",
                             ![In(r).session].user = {In(r).did}]
      BY <1>6, <2>2 DEF Consume
    <3>3. /\ row'[In(r).session].state = "consumed"
          /\ row'[In(r).session].user = {In(r).did}
      BY <3>1, <3>2 DEF TypeOK, Row
    <3>4. At(r, "consume") /\ Goto(r, "claim")
      BY <1>6, <2>2 DEF Consume
    <3> QED
      BY <2>2, <3>3, <3>4 DEF At, RequestPC, Consumable
  <2> QED
    BY <2>1, <2>2
<1>7. CASE AuditClaim(r)
  BY <1>7 DEF AuditClaim, At, RequestPC, Outcome
<1>8. CASE Respond(r) \/ Throw(r)
  <2>1. Respond(r) =>
           /\ request'[r].pc = "done" /\ request'[r].outcome = "tokens"
           /\ request'[r].in = In(r)
           /\ \A q \in Requests : q # r => request'[q] = request[q]
    BY DEF Respond, TypeOK, Request, In
  <2> QED
    BY <1>8, <2>1 DEF Respond, Throw, At, RequestPC
<1>9. CASE CountFailure(r)
  BY <1>0, <1>9 DEF CountFailure, At
<1>10. CASE QueryFails(r)
  BY <1>0, <1>10 DEF QueryFails, Outcome, CountedErrors, IntegrityOutcomes
<1> QED
  BY <1>1, <1>2, <1>3, <1>4, <1>5, <1>6, <1>7, <1>8, <1>9, <1>10 DEF Handle

\* How the request table can change in a step.
RequestMoves(q) ==
    \/ request'[q] = request[q]
    \/ /\ request[q].pc = "idle"
       /\ request'[q].pc = "load" /\ request'[q].outcome = "pending"
    \/ Handle(q)
    \/ /\ request[q].pc \notin {"idle", "done", "lost"} /\ request'[q].in = In(q)
       /\ request'[q].pc = "lost" /\ request'[q].outcome = request[q].outcome

LEMMA RequestsMove ==
    ASSUME TypeOK, [Next]_vars, NEW q \in Requests
    PROVE  RequestMoves(q)
<1> USE DEF RequestMoves
<1>1. ASSUME NEW r \in Requests, NEW i \in Submissions, Submit(r, i)
      PROVE  RequestMoves(q)
  BY <1>1 DEF Submit, At, TypeOK
<1>2. ASSUME NEW r \in Requests, Handle(r)
      PROVE  RequestMoves(q)
  BY <1>2, HandleMoves
<1>3. CASE Crash
  BY <1>3 DEF Crash, In, TypeOK, Request
<1>4. CASE UNCHANGED request
  BY <1>4
<1> QED
  BY <1>1, <1>2, <1>3, <1>4
     DEF Next, CountPending, InsertSession, OpenStream, PollStream, PollFails,
         ExpireOverdueSessions, Tick, SetRoster, SetPolicy, vars

\* A call keeps its input for good.
LEMMA InputsStable ==
    ASSUME TypeOK, [Next]_vars, NEW q \in Requests, request[q].pc # "idle"
    PROVE  request'[q].in = In(q) /\ request'[q].pc # "idle"
<1>1. RequestMoves(q)
  BY RequestsMove
<1>2. CASE Handle(q)
  BY <1>2, HandleMoves
<1> QED
  BY <1>1, <1>2 DEF RequestMoves, In

-----------------------------------------------------------------------------
(* Each part of the invariant is preserved *)

LEMMA LifecycleNext ==
    ASSUME PairingInv, [Next]_vars, NEW s \in Sessions
    PROVE  Lifecycle(s)'
<1>1. TypeOK /\ Lifecycle(s) /\ RowMoves(s) /\ now \in Nat /\ TTL \in Nat
  BY RowsMove, ConstantsAssumption DEF PairingInv, TypeOK
<1>2. now <= now' /\ now' \in Nat
  BY <1>1, LogGrows
<1> DEFINE CreationMoves ==
      \/ creation'[s] = creation[s]
      \/ creation[s].pc = "idle" /\ creation'[s].tenant \in Tenants /\ UNCHANGED row
      \/ creation'[s].pc = "done"
<1>3. CreationMoves
  <2>1. ASSUME NEW x \in Sessions, NEW t \in Tenants, CountPending(x, t)
        PROVE  CreationMoves
    BY <1>1, <2>1 DEF CountPending, TypeOK, Creation
  <2>2. ASSUME NEW x \in Sessions, InsertSession(x)
        PROVE  CreationMoves
    BY <1>1, <2>2 DEF InsertSession, TypeOK, Creation
  <2>3. Crash => CreationMoves
    BY DEF Crash
  <2>4. UNCHANGED creation => CreationMoves
    OBVIOUS
  <2> QED
    BY <2>1, <2>2, <2>3, <2>4
       DEF Next, Submit, Handle, LoadSession, CheckPolicyAndCookie, CountIntegrity, AuditIntegrity,
           LookupUser, Verify, Consume, AuditClaim, Respond, CountFailure, Throw,
           QueryFails, OpenStream, PollStream, PollFails, ExpireOverdueSessions,
           Tick, SetRoster, SetPolicy, vars
<1>4. row[s] \in Row /\ row[s].expires \in Int
  BY <1>1 DEF TypeOK, Row
<1>5. CASE row'[s] = row[s]
  BY <1>1, <1>2, <1>3, <1>4, <1>5 DEF Lifecycle
<1>6. CASE Inserted(s)
  BY <1>1, <1>2, <1>6, ConstantsAssumption DEF Lifecycle, Inserted
<1>7. CASE row'[s] # row[s] /\ ~Inserted(s)
  <2>1. row[s].state # "absent"
    BY <1>1, <1>7 DEF RowMoves, Counted, BoundBy, Lapsed
  <2>2. /\ row'[s].tenant = row[s].tenant /\ row'[s].expires = row[s].expires
        /\ row'[s].state # "absent"
    BY <2>1, RowsStable
  <2>3. creation'[s] = creation[s] \/ creation'[s].pc = "done"
    BY <1>3, <1>7
  <2> QED
    BY <1>1, <1>2, <1>4, <2>1, <2>2, <2>3 DEF Lifecycle
<1> QED
  BY <1>5, <1>6, <1>7

LEMMA CheckedNext ==
    ASSUME PairingInv, [Next]_vars, NEW q \in Requests
    PROVE  Checked(q)'
<1>1. TypeOK /\ Checked(q) /\ RequestMoves(q)
  BY RequestsMove DEF PairingInv
<1>2. ASSUME request[q].pc # "idle", row[In(q).session].tenant = In(q).tenant
      PROVE  row'[In(q).session].tenant = In(q).tenant
  <2>1. In(q).session \in Sessions /\ In(q).tenant \in Tenants
    BY <1>1, <1>2, SubmissionFields
  <2>2. row[In(q).session].state # "absent"
    BY <1>2, <2>1, ConstantsAssumption DEF PairingInv, Lifecycle
  <2> QED
    BY <1>2, <2>1, <2>2, RowsStable
<1>3. \A e \in audit : e \in audit'
  BY <1>1, LogGrows
<1>4. CASE request'[q] = request[q]
  BY <1>1, <1>2, <1>3, <1>4 DEF Checked, In
<1>5. CASE Handle(q)
  <2>1. /\ request[q].pc # "idle" /\ request'[q].in = In(q)
        /\ row[In(q).session].tenant = In(q).tenant
              \/ request'[q].pc \in {"pad", "done"}
    BY <1>1, <1>5, HandleMoves DEF Checked
  <2>2. request'[q].pc \notin {"idle", "load", "pad", "done", "lost"}
           => row'[In(q).session].tenant = In(q).tenant
    BY <1>2, <2>1
  <2>3. LET pc == request'[q].pc IN
        /\ pc \notin {"integrity", "integrity_audit", "count", "pad", "done", "lost"}
              => request'[q].outcome = "pending"
        /\ pc \in {"integrity", "integrity_audit"}
              => request'[q].outcome = "integrity"
        /\ pc = "count" => request'[q].outcome \in CountedErrors
        /\ pc \in {"pad", "lost"} => request'[q].outcome # "tokens"
    BY <1>1, <1>5, HandleMoves DEF Checked, CountedErrors, IntegrityOutcomes
  <2>4. LET pc == request'[q].pc
            s  == In(q).session
        IN  /\ pc \in {"lookup", "verify", "consume", "claim", "respond"}
                  => In(q).cookie = s
            /\ pc \in {"verify", "consume", "claim", "respond"}
                  => In(q).commitment = In(q).did /\ In(q).bound = <<In(q).did, s>>
            /\ pc \in {"consume", "claim", "respond"} => In(q).sound
            /\ pc = "respond" => Entry("pairing.claimed", s, q) \in audit'
    BY <1>1, <1>5, HandleMoves DEF Checked
  <2> QED
    BY <2>1, <2>2, <2>3, <2>4 DEF Checked, In
<1>6. CASE request'[q].pc = "load" /\ request'[q].outcome = "pending"
  BY <1>6 DEF Checked
<1>7. CASE /\ request[q].pc \notin {"idle", "done", "lost"}
           /\ request'[q].pc = "lost" /\ request'[q].outcome = request[q].outcome
  BY <1>1, <1>7 DEF Checked, CountedErrors
<1> QED
  BY <1>1, <1>4, <1>5, <1>6, <1>7 DEF RequestMoves

\* A winner was one before, or wins the consuming UPDATE in this step.
LEMMA WinnerOrigin ==
    ASSUME PairingInv, [Next]_vars, NEW q \in Requests, Winner(q)'
    PROVE  LET s == In(q).session IN
           /\ request'[q].in = In(q)
           /\ request[q].pc # "idle"
           /\ \/ Winner(q)
              \/ /\ request[q].pc = "consume" /\ request'[q].pc = "claim"
                 /\ \A p \in Requests : p # q => request'[p] = request[p]
                 /\ row[s].state = "issued"
                 /\ row'[s].state = "consumed" /\ row'[s].user = {In(q).did}
<1>1. TypeOK /\ Checked(q) /\ RequestMoves(q)
  BY RequestsMove DEF PairingInv
<1>2. CASE request'[q] = request[q]
  BY <1>1, <1>2 DEF Winner, In, Checked
<1>3. CASE Handle(q)
  BY <1>1, <1>3, HandleMoves DEF Winner, Checked, CountedErrors, IntegrityOutcomes
<1> QED
  BY <1>1, <1>2, <1>3 DEF RequestMoves, Winner

LEMMA SingleUseNext ==
    ASSUME PairingInv, [Next]_vars
    PROVE  SingleUse'
<1>1. TypeOK /\ SingleUse
  BY DEF PairingInv
<1>2. SUFFICES ASSUME NEW r \in Requests, Winner(r)'
               PROVE  LET s == request'[r].in.session IN
                      /\ row'[s].state = "consumed" /\ row'[s].user = {request'[r].in.did}
                      /\ \A q \in Requests :
                            Winner(q)' /\ request'[q].in.session = s => q = r
  BY DEF SingleUse, In
<1> DEFINE s == In(r).session
<1>3. request'[r].in = In(r) /\ request[r].pc # "idle" /\ s \in Sessions
  BY <1>1, <1>2, WinnerOrigin, SubmissionFields
<1>4. CASE Winner(r)
  <2>1. row[s].state = "consumed" /\ row[s].user = {In(r).did}
    BY <1>1, <1>4 DEF SingleUse
  <2>2. row'[s] = row[s]
    BY <1>3, <2>1, RowsStable
  <2>3. ASSUME NEW q \in Requests, Winner(q)', request'[q].in.session = s
        PROVE  q = r
    <3>1. In(q).session = s /\ Winner(q)
      BY <2>1, <2>3, WinnerOrigin
    <3> QED
      BY <1>1, <1>4, <3>1 DEF SingleUse
  <2> QED
    BY <1>3, <2>1, <2>2, <2>3
<1>5. CASE ~Winner(r)
  <2>1. /\ row[s].state = "issued"
        /\ row'[s].state = "consumed" /\ row'[s].user = {In(r).did}
        /\ \A p \in Requests : p # r => request'[p] = request[p]
    BY <1>2, <1>5, WinnerOrigin
  <2>2. ASSUME NEW q \in Requests, Winner(q)', request'[q].in.session = s, q # r
        PROVE  FALSE
    <3>1. Winner(q) /\ In(q).session = s
      BY <2>1, <2>2 DEF Winner, In
    <3> QED
      BY <1>1, <2>1, <3>1 DEF SingleUse
  <2> QED
    BY <1>3, <2>1, <2>2
<1> QED
  BY <1>4, <1>5

LEMMA TokensAuditedNext ==
    ASSUME PairingInv, [Next]_vars
    PROVE  TokensAudited'
<1>1. TypeOK /\ TokensAudited
  BY DEF PairingInv
<1>2. \A e \in audit : e \in audit'
  BY <1>1, LogGrows
<1>3. ASSUME NEW r \in Requests, request'[r].outcome = "tokens"
      PROVE  Entry("pairing.claimed", request'[r].in.session, r) \in audit'
  <2>1. Checked(r) /\ RequestMoves(r)
    BY <1>1, RequestsMove DEF PairingInv
  <2>2. CASE request'[r] = request[r]
    BY <1>1, <1>2, <1>3, <2>2 DEF TokensAudited, In
  <2>3. CASE Handle(r)
    BY <1>1, <1>2, <1>3, <2>1, <2>3, HandleMoves
       DEF Checked, CountedErrors, IntegrityOutcomes
  <2>4. ~(request'[r].pc = "lost" /\ request'[r].outcome = request[r].outcome
            /\ request[r].pc \notin {"idle", "done", "lost"})
    BY <1>3, <2>1 DEF Checked, CountedErrors
  <2> QED
    BY <1>3, <2>1, <2>2, <2>3, <2>4 DEF RequestMoves
<1> QED
  BY <1>3 DEF TokensAudited, In

LEMMA ConsumedByGenuineProofNext ==
    ASSUME PairingInv, [Next]_vars
    PROVE  ConsumedByGenuineProof'
<1>1. TypeOK /\ ConsumedByGenuineProof /\ \A r \in Requests : Checked(r)
  BY DEF PairingInv
<1>2. SUFFICES ASSUME NEW s \in Sessions, row'[s].state = "consumed"
               PROVE  \E r \in Requests :
                         /\ request'[r].pc # "idle"
                         /\ Genuine(request'[r].in, s)
                         /\ request'[r].in.tenant = row'[s].tenant
                         /\ row'[s].user = {request'[r].in.did}
  BY DEF ConsumedByGenuineProof, In
<1>3. RowMoves(s)
  BY RowsMove
<1>4. CASE row[s].state = "consumed"
  <2>1. PICK r \in Requests : /\ request[r].pc # "idle"
                              /\ Genuine(In(r), s)
                              /\ In(r).tenant = row[s].tenant
                              /\ row[s].user = {In(r).did}
    BY <1>1, <1>4 DEF ConsumedByGenuineProof
  <2>2. row'[s] = row[s]
    BY <1>4, RowsStable
  <2> QED
    BY <1>1, <2>1, <2>2, InputsStable
<1>5. ASSUME NEW r \in Requests, BoundBy(s, r)
      PROVE  /\ request'[r].pc # "idle"
             /\ Genuine(request'[r].in, s)
             /\ request'[r].in.tenant = row'[s].tenant
             /\ row'[s].user = {request'[r].in.did}
  BY <1>1, <1>5 DEF BoundBy, Checked, Genuine
<1>6. row[s].state = "consumed" \/ \E r \in Requests : BoundBy(s, r)
  BY <1>2, <1>3 DEF RowMoves, Inserted, Counted, Lapsed
<1> QED
  BY <1>4, <1>5, <1>6

LEMMA LockedAtThresholdNext ==
    ASSUME PairingInv, [Next]_vars
    PROVE  LockedAtThreshold'
<1> SUFFICES ASSUME NEW s \in Sessions
             PROVE  row'[s].state = "failed" <=> row'[s].failures >= MaxFailures
  BY DEF LockedAtThreshold
<1>1. RowMoves(s)
  BY RowsMove
<1>2. /\ row[s].state = "failed" <=> row[s].failures >= MaxFailures
      /\ row[s].failures \in Nat /\ MaxFailures \in Nat \ {0}
  BY ConstantsAssumption DEF PairingInv, LockedAtThreshold, TypeOK, Row
<1>3. CASE Inserted(s)
  BY <1>2, <1>3 DEF Inserted
<1>4. CASE Counted(s)
  BY <1>2, <1>4 DEF Counted
<1>5. ASSUME NEW r \in Requests, BoundBy(s, r)
      PROVE  row'[s].state = "failed" <=> row'[s].failures >= MaxFailures
  BY <1>2, <1>5 DEF BoundBy
<1>6. CASE Lapsed(s)
  BY <1>2, <1>6 DEF Lapsed
<1> QED
  BY <1>1, <1>2, <1>3, <1>4, <1>5, <1>6 DEF RowMoves

\* How a stream can change in a step.
StreamMoves(v) ==
    \/ stream'[v] = stream[v]
    \/ stream'[v].pc = "idle"
    \/ /\ stream[v].pc = "idle" /\ row' = row
       /\ stream'[v].session \in Sessions
       /\ row[stream'[v].session].state # "absent"
       /\ stream'[v].deadline = now + StreamLifetime
       /\ \/ stream'[v].pc = "polling"
          \/ /\ stream'[v].pc = "done" /\ stream'[v].event # "silent"
             /\ stream'[v].event = "session_bound"
                  => row[stream'[v].session].state = "consumed"
    \/ /\ stream[v].pc = "polling" /\ row' = row
       /\ stream'[v].session = stream[v].session
       /\ stream'[v].pc = "done" /\ stream'[v].event # "silent"
       /\ stream'[v].event = "session_bound"
            => row[stream[v].session].state = "consumed"

LEMMA StreamsMove ==
    ASSUME PairingInv, [Next]_vars, NEW v \in Streams
    PROVE  StreamMoves(v)
<1> USE DEF StreamMoves
<1>1. TypeOK
  BY DEF PairingInv
<1>2. ASSUME NEW w \in Streams, NEW s \in Sessions, OpenStream(w, s)
      PROVE  StreamMoves(v)
  <2>1. row[s].state \in RowState \ {"absent"}
    BY <1>1, <1>2 DEF OpenStream, TypeOK, Row
  <2> QED
    BY <1>1, <1>2, <2>1 DEF OpenStream, StreamDeadline, RowState, TypeOK
<1>3. ASSUME NEW w \in Streams, PollStream(w)
      PROVE  StreamMoves(v)
  <2> DEFINE s == stream[w].session
  <2>1. s \in Sessions /\ stream[w].pc = "polling"
    BY <1>1, <1>3 DEF PollStream, TypeOK
  <2>2. ~(~Outlived(s) /\ now >= stream[w].deadline)
    <3>1. row[s].expires < stream[w].deadline
      BY <2>1 DEF PairingInv, OutlivesSession
    <3>2. row[s].expires \in Int /\ stream[w].deadline \in Int /\ now \in Int
      BY <1>1, <2>1 DEF TypeOK, Row, Stream
    <3> QED
      BY <3>1, <3>2 DEF Outlived
  <2>3. PICK e \in {"session_bound", "session_expired", "session_error"} :
           EndStream(w, e) /\ (e = "session_bound" => row[s].state = "consumed")
    BY <1>3, <2>2 DEF PollStream
  <2> QED
    BY <1>1, <1>3, <2>1, <2>3 DEF PollStream, EndStream, TypeOK, Stream
<1>4. ASSUME NEW w \in Streams, PollFails(w)
      PROVE  StreamMoves(v)
  BY <1>1, <1>4 DEF PollFails, EndStream, TypeOK, Stream
<1>5. Crash => StreamMoves(v)
  BY DEF Crash, NoStream
<1>6. UNCHANGED stream => StreamMoves(v)
  OBVIOUS
<1> QED
  BY <1>2, <1>3, <1>4, <1>5, <1>6
     DEF Next, CountPending, InsertSession, Submit, Handle, LoadSession,
         CheckPolicyAndCookie, CountIntegrity, AuditIntegrity, LookupUser, Verify, Consume,
         AuditClaim, Respond, CountFailure, Throw, QueryFails, ExpireOverdueSessions,
         Tick, SetRoster, SetPolicy, vars

LEMMA StreamsNext ==
    ASSUME PairingInv, [Next]_vars
    PROVE  (\A v \in Streams : OutlivesSession(v))' /\ StreamTruthful'
<1>1. TypeOK /\ StreamTruthful /\ TTL \in Nat /\ StreamLifetime \in Nat
      /\ StreamLifetime > TTL
  BY ConstantsAssumption DEF PairingInv
<1>2. ASSUME NEW s \in Sessions, row[s].state # "absent"
      PROVE  /\ row'[s].state # "absent" /\ row'[s].expires = row[s].expires
             /\ row[s].state = "consumed" => row'[s].state = "consumed"
             /\ row[s].expires \in Int /\ row[s].expires <= now + TTL
  BY <1>1, <1>2, RowsStable DEF PairingInv, Lifecycle, TypeOK, Row
<1>3. ASSUME NEW v \in Streams
      PROVE  OutlivesSession(v)'
  <2>1. CASE stream'[v] = stream[v] /\ stream[v].pc = "polling"
    BY <1>1, <1>2, <2>1 DEF PairingInv, OutlivesSession, TypeOK
  <2>2. CASE stream'[v].pc = "polling" /\ stream'[v] # stream[v]
    <3>1. /\ row' = row /\ stream'[v].session \in Sessions
          /\ row[stream'[v].session].state # "absent"
          /\ stream'[v].deadline = now + StreamLifetime
      BY <2>2, StreamsMove DEF StreamMoves
    <3>2. now \in Nat
      BY <1>1 DEF TypeOK
    <3> QED
      BY <1>1, <1>2, <3>1, <3>2 DEF OutlivesSession
  <2> QED
    BY <2>1, <2>2 DEF OutlivesSession
<1>4. ASSUME NEW v \in Streams, stream'[v].pc = "done"
      PROVE  /\ stream'[v].event # "silent"
             /\ stream'[v].event = "session_bound"
                  => row'[stream'[v].session].state = "consumed"
  <2>1. CASE stream'[v] = stream[v]
    <3>1. stream[v].session \in Sessions
      BY <1>1, <1>4, <2>1 DEF TypeOK
    <3> QED
      BY <1>1, <1>2, <1>4, <2>1, <3>1 DEF StreamTruthful
  <2>2. CASE stream'[v] # stream[v]
    BY <1>4, <2>2, StreamsMove DEF StreamMoves
  <2> QED
    BY <2>1, <2>2
<1> QED
  BY <1>3, <1>4 DEF StreamTruthful

LEMMA InvNext == PairingInv /\ [Next]_vars => PairingInv'
<1> SUFFICES ASSUME PairingInv, [Next]_vars PROVE PairingInv'
  OBVIOUS
<1>1. TypeOK'
  BY TypeNext DEF PairingInv
<1> QED
  BY <1>1, LifecycleNext, CheckedNext, SingleUseNext, TokensAuditedNext,
     ConsumedByGenuineProofNext, LockedAtThresholdNext, StreamsNext
     DEF PairingInv

-----------------------------------------------------------------------------
(* Theorems *)

THEOREM Invariance == Spec => []PairingInv
BY InvInit, InvNext, PTL DEF Spec

\* A-14: at most one submit ever consumes a session and hands out tokens.
THEOREM SingleUseHolds == Spec => []SingleUse
<1>1. PairingInv => SingleUse
  BY DEF PairingInv
<1> QED
  BY <1>1, Invariance, PTL

\* A-21: no tokens leave the server without their audit row.
THEOREM TokensAuditedHolds == Spec => []TokensAudited
<1>1. PairingInv => TokensAudited
  BY DEF PairingInv
<1> QED
  BY <1>1, Invariance, PTL

\* A-11, A-12, A-13: only a genuine proof for the session consumes it.
THEOREM ConsumedByGenuineProofHolds == Spec => []ConsumedByGenuineProof
<1>1. PairingInv => ConsumedByGenuineProof
  BY DEF PairingInv
<1> QED
  BY <1>1, Invariance, PTL

\* A-20: the failure lock falls exactly at the threshold.
THEOREM LockedAtThresholdHolds == Spec => []LockedAtThreshold
<1>1. PairingInv => LockedAtThreshold
  BY DEF PairingInv
<1> QED
  BY <1>1, Invariance, PTL

\* A stream never ends in silence and never announces an unbound session.
THEOREM StreamTruthfulHolds == Spec => []StreamTruthful
<1>1. PairingInv => StreamTruthful
  BY DEF PairingInv
<1> QED
  BY <1>1, Invariance, PTL

\* Consumed, locked and expired are final.
THEOREM TerminalStatesFinalHolds == Spec => TerminalStatesFinal
<1> DEFINE Final ==
      \A s \in Sessions :
         row[s].state \in {"consumed", "expired", "failed"} =>
            /\ row'[s].state = row[s].state
            /\ row'[s].user = row[s].user
            /\ row[s].state # "failed" => row'[s].failures = row[s].failures
<1>1. PairingInv /\ [Next]_vars => [Final]_vars
  <2> SUFFICES ASSUME PairingInv, [Next]_vars, NEW s \in Sessions,
                      row[s].state \in {"consumed", "expired", "failed"}
               PROVE  /\ row'[s].state = row[s].state
                      /\ row'[s].user = row[s].user
                      /\ row[s].state # "failed"
                            => row'[s].failures = row[s].failures
    OBVIOUS
  <2>1. RowMoves(s) /\ creation[s].pc # "insert"
    BY RowsMove DEF PairingInv, Lifecycle
  <2>2. CASE Counted(s)
    BY <2>2 DEF Counted
  <2>3. ~(\E r \in Requests : BoundBy(s, r)) /\ ~Lapsed(s) /\ ~Inserted(s)
    BY <2>1 DEF BoundBy, Lapsed, Inserted
  <2> QED
    BY <2>1, <2>2, <2>3 DEF RowMoves
<1>2. Spec => [][Final]_vars
  BY <1>1, Invariance, PTL DEF Spec
<1> QED
  BY <1>2 DEF TerminalStatesFinal

-----------------------------------------------------------------------------
(* The failure counter and the requests charged to it *)

\* An answered or lost request does not change.
LEMMA DoneStays ==
    ASSUME TypeOK, [Next]_vars, NEW r \in Requests, request[r].pc \in {"done", "lost"}
    PROVE  request'[r] = request[r]
<1>1. RequestMoves(r)
  BY RequestsMove
<1>2. ~Handle(r)
  BY DEF Handle, At, LoadSession, CheckPolicyAndCookie, CountIntegrity,
         AuditIntegrity, LookupUser, Verify, Consume, AuditClaim, Respond,
         CountFailure, Throw, QueryFails
<1> QED
  BY <1>1, <1>2 DEF RequestMoves

\* The rejected submits whose count has been attempted (or died with them): the
\* strengthening that makes FailuresAccounted inductive.
Charged(s) == {r \in Rejected(s) : request[r].pc \notin {"integrity", "count"}}

FailuresCharged ==
    \A s \in Sessions : row[s].failures <= Cardinality(Charged(s))

\* A charged request stays charged.
LEMMA ChargedGrows ==
    ASSUME PairingInv, [Next]_vars, NEW s \in Sessions, row[s].state # "absent"
    PROVE  Charged(s) \subseteq Charged(s)'
<1>1. TypeOK /\ row'[s].tenant = row[s].tenant
  BY RowsStable DEF PairingInv
<1> SUFFICES ASSUME NEW r \in Charged(s)
             PROVE  r \in Charged(s)'
  OBVIOUS
<1>2. /\ r \in Requests /\ request[r].pc \notin {"idle", "integrity", "count"}
      /\ In(r).session = s /\ In(r).tenant = row[s].tenant
      /\ request[r].outcome \in CountedErrors \cup IntegrityOutcomes
      /\ Checked(r) /\ RequestMoves(r)
  BY <1>1, RequestsMove DEF PairingInv, Charged, Rejected
<1>3. request[r].pc \in {"integrity_audit", "pad", "done", "lost"}
  BY <1>2 DEF Checked, CountedErrors, IntegrityOutcomes
<1>4. /\ request'[r].in = In(r)
      /\ request'[r].pc \in {"integrity_audit", "pad", "done", "lost"}
      /\ request'[r].outcome \in CountedErrors \cup IntegrityOutcomes
  <2>1. CASE Handle(r)
    BY <1>1, <1>2, <1>3, <2>1, HandleMoves
  <2>2. CASE request'[r] = request[r]
    BY <1>2, <1>3, <2>2 DEF In
  <2> QED
    BY <1>2, <1>3, <2>1, <2>2 DEF RequestMoves
<1> QED
  BY <1>1, <1>2, <1>4 DEF Charged, Rejected, In

\* A step that counts a failure of s charges a request that was not charged yet,
\* sent under the tenant of s and rejected with a counted outcome.
LEMMA CountedCharges ==
    ASSUME PairingInv, [Next]_vars, NEW s \in Sessions, row'[s] # row[s], Counted(s)
    PROVE  \E r \in Requests : r \in Charged(s)' /\ r \notin Charged(s)
<1>1. TypeOK /\ row[s].state # "absent" /\ row'[s].state # "consumed"
      /\ row'[s].failures # row[s].failures
  <2>1. TypeOK /\ row[s].failures \in Nat
    BY DEF PairingInv, TypeOK, Row
  <2> QED
    BY <2>1 DEF Counted
<1>2. \E r \in Requests : (CountIntegrity(r) \/ CountFailure(r)) /\ In(r).session = s
  <2>1. ASSUME NEW r \in Requests, Handle(r)
        PROVE  (CountIntegrity(r) \/ CountFailure(r)) /\ In(r).session = s
    <3>1. request[r].pc # "idle" /\ In(r).session \in Sessions
      BY <1>1, <2>1, HandleMoves, SubmissionFields
    <3>2. CASE CountIntegrity(r) \/ CountFailure(r)
      BY <1>1, <3>1, <3>2, CounterMoves DEF CountIntegrity, AuditIntegrity, CountFailure
    <3>3. CASE Consume(r) \/ QueryFails(r)
      <4>1. CASE request[r].pc = "consume"
        <5>1. row'[s] = row[s] \/ BoundBy(s, r)
          BY <1>1, <3>3, <4>1, ConsumeMoves
        <5>2. ~BoundBy(s, r)
          BY <1>1 DEF BoundBy
        <5> QED
          BY <5>1, <5>2
      <4>2. CASE request[r].pc # "consume"
        BY <1>1, <3>3, <4>2 DEF Consume, QueryFails, At
      <4> QED
        BY <4>1, <4>2
    <3> QED
      BY <1>1, <2>1, <3>2, <3>3
         DEF Handle, LoadSession, CheckPolicyAndCookie, AuditIntegrity, LookupUser,
             Verify, AuditClaim, Respond, Throw
  <2>2. ASSUME NEW x \in Sessions, InsertSession(x)
        PROVE  FALSE
    <3>1. row'[s] = row[s] \/ Inserted(s)
      BY <1>1, <2>2 DEF InsertSession, Inserted, TypeOK, Creation
    <3> QED
      BY <1>1, <3>1 DEF Inserted, PairingInv, Lifecycle
  <2>3. ~ExpireOverdueSessions
    BY <1>1 DEF ExpireOverdueSessions, ExpiredRow, TypeOK, Row
  <2>4. row' # row
    OBVIOUS
  <2> QED
    BY <2>1, <2>2, <2>3, <2>4
       DEF Next, CountPending, Submit, OpenStream, PollStream, PollFails, Tick,
           SetRoster, SetPolicy, Crash, vars
<1>3. PICK r \in Requests :
         (CountIntegrity(r) \/ CountFailure(r)) /\ In(r).session = s
  BY <1>2
<1>4. /\ request[r].pc \in {"integrity", "count"} /\ request'[r].in = In(r)
      /\ request'[r].pc \in {"integrity_audit", "pad"}
      /\ request'[r].outcome \in CountedErrors \cup IntegrityOutcomes
  <2>1. Checked(r) /\ request[r].outcome \in Outcome
    BY <1>1, <1>3 DEF PairingInv, TypeOK, Request
  <2>2. CASE CountIntegrity(r)
    BY <1>1, <2>1, <2>2, HandlerMoves
       DEF CountIntegrity, At, Checked, IntegrityOutcomes, RequestPC
  <2>3. CASE CountFailure(r)
    BY <1>1, <2>1, <2>3, HandlerMoves DEF CountFailure, At, Checked
  <2> QED
    BY <1>3, <2>2, <2>3
<1>5. row[s].tenant = In(r).tenant /\ row'[s].tenant = row[s].tenant
  BY <1>1, <1>3, <1>4, RowsStable DEF PairingInv, Checked
<1> QED
  BY <1>3, <1>4, <1>5 DEF Charged, Rejected, In

LEMMA FailuresChargedNext ==
    ASSUME PairingInv, FailuresCharged, [Next]_vars
    PROVE  FailuresCharged'
<1> SUFFICES ASSUME NEW s \in Sessions
             PROVE  row'[s].failures <= Cardinality(Charged(s)')
  BY DEF FailuresCharged, Charged, Rejected, In
<1> DEFINE C == Charged(s)
           D == Charged(s)'
<1>1. IsFiniteSet(C) /\ IsFiniteSet(D)
  BY ConstantsAssumption, FS_Subset DEF Charged, Rejected
<1>2. Cardinality(C) \in Nat /\ Cardinality(D) \in Nat
  BY <1>1, FS_CardinalityType
<1>3. row[s].failures \in Nat /\ row[s].failures <= Cardinality(C)
  BY DEF PairingInv, TypeOK, Row, FailuresCharged
<1>4. CASE Inserted(s)
  BY <1>2, <1>4 DEF Inserted
<1>5. CASE row[s].state = "absent" /\ row'[s] = row[s]
  BY <1>2, <1>5 DEF PairingInv, Lifecycle
<1>6. CASE row[s].state # "absent"
  <2>1. C \subseteq D
    BY <1>6, ChargedGrows
  <2>2. Cardinality(C) <= Cardinality(D)
    BY <1>1, <2>1, FS_Subset
  <2>3. CASE row'[s].failures = row[s].failures
    BY <1>2, <1>3, <2>2, <2>3
  <2>4. CASE Counted(s) /\ row'[s] # row[s]
    <3>1. PICK r \in Requests : r \in D /\ r \notin C
      BY <2>4, CountedCharges
    <3>2. /\ IsFiniteSet(C \cup {r})
          /\ Cardinality(C \cup {r}) = Cardinality(C) + 1
      BY <1>1, <3>1, FS_AddElement
    <3>3. C \cup {r} \subseteq D
      BY <2>1, <3>1
    <3>4. Cardinality(C \cup {r}) <= Cardinality(D)
      BY <1>1, <3>2, <3>3, FS_Subset
    <3>5. row'[s].failures = row[s].failures + 1
      BY <2>4 DEF Counted
    <3> QED
      BY <1>2, <1>3, <3>2, <3>4, <3>5
  <2>5. creation[s].pc # "insert"
    BY <1>6 DEF PairingInv, Lifecycle
  <2>6. row'[s].failures = row[s].failures \/ Counted(s)
    <3>1. RowMoves(s)
      BY RowsMove
    <3>2. ASSUME NEW r \in Requests, BoundBy(s, r)
          PROVE  row'[s].failures = row[s].failures
      BY <3>2 DEF BoundBy
    <3>3. Lapsed(s) => row'[s].failures = row[s].failures
      BY DEF Lapsed
    <3> QED
      BY <2>5, <3>1, <3>2, <3>3 DEF RowMoves, Inserted
  <2> QED
    BY <2>3, <2>4, <2>6
<1>7. row[s].state = "absent" => Inserted(s) \/ row'[s] = row[s]
  BY RowsMove DEF RowMoves, Counted, BoundBy, Lapsed
<1> QED
  BY <1>4, <1>5, <1>6, <1>7

\* The charged requests are among the rejected ones.
LEMMA ChargedCovers == PairingInv /\ FailuresCharged => FailuresAccounted
<1> SUFFICES ASSUME PairingInv, FailuresCharged, NEW s \in Sessions
             PROVE  row[s].failures <= Cardinality(Rejected(s))
  BY DEF FailuresAccounted
<1>1. IsFiniteSet(Rejected(s))
  BY ConstantsAssumption, FS_Subset DEF Rejected
<1>2. Charged(s) \subseteq Rejected(s)
  BY DEF Charged
<1>3. /\ IsFiniteSet(Charged(s))
      /\ Cardinality(Charged(s)) <= Cardinality(Rejected(s))
  BY <1>1, <1>2, FS_Subset
<1>4. Cardinality(Charged(s)) \in Nat /\ Cardinality(Rejected(s)) \in Nat
  BY <1>1, <1>3, FS_CardinalityType
<1>5. row[s].failures \in Nat /\ row[s].failures <= Cardinality(Charged(s))
  BY DEF PairingInv, TypeOK, Row, FailuresCharged
<1> QED
  BY <1>3, <1>4, <1>5

\* A-20: no submit is charged twice, and no foreign tenant's submit counts,
\* whatever is lost between a count and its answer.
THEOREM FailuresAccountedHolds == Spec => []FailuresAccounted
<1>1. Init => FailuresCharged
  <2> SUFFICES ASSUME Init, NEW s \in Sessions
               PROVE  row[s].failures <= Cardinality(Charged(s))
    BY DEF FailuresCharged
  <2>1. IsFiniteSet(Charged(s))
    BY ConstantsAssumption, FS_Subset DEF Charged, Rejected
  <2>2. Cardinality(Charged(s)) \in Nat
    BY <2>1, FS_CardinalityType
  <2> QED
    BY <2>2 DEF Init, AbsentRow
<1>2. PairingInv /\ FailuresCharged /\ [Next]_vars => FailuresCharged'
  BY FailuresChargedNext
<1>3. PairingInv /\ FailuresCharged => FailuresAccounted
  BY ChargedCovers
<1> QED
  BY <1>1, <1>2, <1>3, Invariance, PTL DEF Spec

-----------------------------------------------------------------------------
(* The pairing service implements the single-use ticket *)

LEMMA TicketInit == Init => Ticket!Init
<1> SUFFICES ASSUME Init PROVE Ticket!Init
  OBVIOUS
<1>1. \A s \in Sessions : row[s].state = "absent" /\ row[s].user = {}
  BY DEF Init, AbsentRow
<1>2. \A r \in Requests : request[r].outcome = "pending"
  BY DEF Init
<1>3. TicketStatus = [s \in Sessions |-> "unissued"]
  BY <1>1 DEF TicketStatus, StatusOf
<1>4. TicketOwner = [s \in Sessions |-> {}]
  BY <1>1 DEF TicketOwner
<1>5. TicketGranted = {}
  BY <1>2 DEF TicketGranted
<1> QED
  BY <1>3, <1>4, <1>5 DEF Ticket!Init

\* Only Respond grants tokens.
LEMMA GrantedMoves ==
    ASSUME PairingInv, [Next]_vars
    PROVE  \/ TicketGranted' = TicketGranted
           \/ \E r \in Requests :
                 /\ Respond(r)
                 /\ TicketGranted' = TicketGranted \cup {In(r).session}
                 /\ In(r).session \notin TicketGranted
                 /\ row[In(r).session].state = "consumed"
<1>1. TypeOK /\ SingleUse /\ \A r \in Requests : Checked(r)
  BY DEF PairingInv
<1>2. ASSUME NEW q \in Requests, request[q].outcome = "tokens"
      PROVE  request'[q] = request[q]
  <2>1. request[q].pc = "done"
    BY <1>1, <1>2 DEF Checked, CountedErrors
  <2> QED
    BY <1>1, <2>1, DoneStays
<1>3. ASSUME NEW q \in Requests, request'[q].outcome = "tokens"
      PROVE  request'[q] = request[q] \/ Respond(q)
  <2>1. RequestMoves(q) /\ Checked(q)
    BY <1>1, RequestsMove
  <2>2. CASE Handle(q) /\ ~Respond(q)
    <3>1. request[q].pc # "respond"
      BY <2>2 DEF Handle, At, LoadSession, CheckPolicyAndCookie, CountIntegrity, AuditIntegrity,
                  LookupUser, Verify, Consume, AuditClaim, Respond, CountFailure, Throw,
                  QueryFails
    <3> QED
      BY <1>1, <1>3, <2>1, <2>2, <3>1, HandleMoves
         DEF Checked, CountedErrors, IntegrityOutcomes
  <2>3. ~(request'[q].pc = "lost" /\ request'[q].outcome = request[q].outcome
            /\ request[q].pc \notin {"idle", "done", "lost"})
    BY <1>3, <2>1 DEF Checked, CountedErrors
  <2> QED
    BY <1>3, <2>1, <2>2, <2>3 DEF RequestMoves
<1>4. CASE \E r \in Requests : Respond(r)
  <2>1. PICK r \in Requests : Respond(r)
    BY <1>4
  <2>2. /\ request[r].pc = "respond" /\ request'[r].outcome = "tokens"
        /\ request'[r].in = In(r)
        /\ \A q \in Requests : q # r => request'[q] = request[q]
    BY <1>1, <2>1 DEF Respond, At, TypeOK, Request, In
  <2>3. In(r).session \in Sessions
    BY <1>1, <2>2, SubmissionFields
  <2>4. request[r].outcome # "tokens"
    BY <1>1, <2>2 DEF Checked
  <2>5. row[In(r).session].state = "consumed"
        /\ \A q \in Requests : Winner(q) /\ In(q).session = In(r).session => q = r
    BY <1>1, <2>2 DEF SingleUse, Winner
  <2>6. In(r).session \notin TicketGranted
    BY <2>4, <2>5 DEF TicketGranted, Winner
  <2>7. TicketGranted' = TicketGranted \cup {In(r).session}
    BY <2>2, <2>3, <2>4 DEF TicketGranted, In
  <2> QED
    BY <2>1, <2>5, <2>6, <2>7
<1>5. CASE ~\E r \in Requests : Respond(r)
  BY <1>2, <1>3, <1>5 DEF TicketGranted, In
<1> QED
  BY <1>4, <1>5

\* What a step does to the tickets when it changes the rows.
LEMMA TicketMoves ==
    ASSUME PairingInv, [Next]_vars
    PROVE  \/ TicketStatus' = TicketStatus /\ TicketOwner' = TicketOwner
           \/ \E s \in Sessions : Inserted(s)
                 /\ \A x \in Sessions : x # s => row'[x] = row[x]
           \/ \E s \in Sessions, r \in Requests : BoundBy(s, r)
                 /\ \A x \in Sessions : x # s => row'[x] = row[x]
           \/ \A x \in Sessions : row'[x] = row[x] \/ Lapsed(x) \/ Counted(x)
<1>1. TypeOK
  BY DEF PairingInv
<1>2. ASSUME NEW s \in Sessions, InsertSession(s)
      PROVE  \/ \A x \in Sessions : row'[x] = row[x]
             \/ Inserted(s) /\ \A x \in Sessions : x # s => row'[x] = row[x]
  BY <1>1, <1>2 DEF InsertSession, Inserted, TypeOK, Creation
<1>3. ASSUME NEW r \in Requests, Handle(r)
      PROVE  \/ \A x \in Sessions : row'[x] = row[x] \/ Counted(x)
             \/ /\ BoundBy(In(r).session, r)
                /\ \A x \in Sessions : x # In(r).session => row'[x] = row[x]
  <2>1. request[r].pc # "idle" /\ In(r).session \in Sessions
    BY <1>1, <1>3, HandleMoves, SubmissionFields
  <2>2. CASE CountIntegrity(r) \/ CountFailure(r)
    BY <1>1, <2>1, <2>2, CounterMoves DEF CountIntegrity, AuditIntegrity, CountFailure
  <2>3. CASE (Consume(r) \/ QueryFails(r)) /\ request[r].pc = "consume"
    <3>1. \A x \in Sessions : row'[x] = row[x] \/ BoundBy(x, r)
      BY <1>1, <2>3, ConsumeMoves
    <3>2. \A x \in Sessions : BoundBy(x, r) => x = In(r).session
      BY DEF BoundBy
    <3> QED
      BY <2>1, <3>1, <3>2
  <2>4. CASE UNCHANGED row
    BY <2>4
  <2> QED
    BY <1>3, <2>2, <2>3, <2>4
       DEF Handle, LoadSession, CheckPolicyAndCookie, AuditIntegrity, LookupUser,
           Verify, Consume, QueryFails, At, AuditClaim, Respond, Throw
<1>4. ExpireOverdueSessions => \A x \in Sessions : row'[x] = row[x] \/ Lapsed(x)
  <2> SUFFICES ASSUME ExpireOverdueSessions, NEW x \in Sessions
               PROVE  row'[x] = row[x] \/ Lapsed(x)
    OBVIOUS
  <2>1. row'[x] = IF Overdue(x) THEN ExpiredRow(x) ELSE row[x]
    BY DEF ExpireOverdueSessions
  <2> QED
    BY <1>1, <2>1 DEF ExpiredRow, Overdue, Lapsed, TypeOK, Row
<1>5. UNCHANGED row => \A x \in Sessions : row'[x] = row[x]
  OBVIOUS
<1>6. CASE \E r \in Requests : Handle(r)
  <2>1. PICK r \in Requests : Handle(r)
    BY <1>6
  <2>2. In(r).session \in Sessions
    BY <1>1, <2>1, HandleMoves, SubmissionFields
  <2> QED
    BY <1>3, <2>1, <2>2
<1> QED
  BY <1>2, <1>4, <1>5, <1>6
     DEF Next, CountPending, Submit, OpenStream, PollStream, PollFails, Tick,
         SetRoster, SetPolicy, Crash, vars

LEMMA TicketNext ==
    ASSUME PairingInv, PairingInv', [Next]_vars
    PROVE  [Ticket!Next]_(Ticket!vars)
<1> USE DEF Ticket!vars
<1>1. TypeOK /\ \A s \in Sessions : row[s] \in Row /\ row'[s] \in Row
  BY DEF PairingInv, TypeOK
<1>2. CASE \E r \in Requests : Respond(r)
  <2>1. UNCHANGED row
    BY <1>2 DEF Respond
  <2>2. TicketStatus' = TicketStatus /\ TicketOwner' = TicketOwner
    BY <2>1 DEF TicketStatus, TicketOwner
  <2>3. CASE TicketGranted' = TicketGranted
    BY <2>2, <2>3
  <2>4. ASSUME NEW s \in Sessions, s \notin TicketGranted, row[s].state = "consumed",
               TicketGranted' = TicketGranted \cup {s}
        PROVE  Ticket!Grant(s)
    <3>1. TicketStatus[s] = "bound"
      BY <2>4 DEF TicketStatus, StatusOf
    <3> QED
      BY <2>2, <2>4, <3>1 DEF Ticket!Grant
  <2>5. \A r \in Requests : Respond(r) => In(r).session \in Sessions
    BY <1>1, SubmissionFields DEF Respond, At
  <2> QED
    BY <2>3, <2>4, <2>5, GrantedMoves DEF Ticket!Next
<1>3. CASE ~\E r \in Requests : Respond(r)
  <2>1. TicketGranted' = TicketGranted
    BY <1>3, GrantedMoves
  <2>2. CASE TicketStatus' = TicketStatus /\ TicketOwner' = TicketOwner
    BY <2>1, <2>2
  <2>3. ASSUME NEW s \in Sessions, Inserted(s),
               \A x \in Sessions : x # s => row'[x] = row[x]
        PROVE  Ticket!Issue(s)
    <3>1. row[s].state = "absent" /\ row[s].user = {}
      BY <2>3 DEF Inserted, PairingInv, Lifecycle
    <3>2. row'[s].state = "issued" /\ row'[s].user = {}
      BY <2>3 DEF Inserted
    <3>3. TicketStatus[s] = "unissued"
          /\ TicketStatus' = [TicketStatus EXCEPT ![s] = "open"]
      <4>1. \A x \in Sessions : TicketStatus'[x] =
               IF x = s THEN "open" ELSE TicketStatus[x]
        BY <2>3, <3>2 DEF TicketStatus, StatusOf
      <4>2. TicketStatus[s] = "unissued"
        BY <3>1 DEF TicketStatus, StatusOf
      <4> QED
        BY <4>1, <4>2 DEF TicketStatus
    <3>4. TicketOwner' = TicketOwner
      BY <2>3, <3>1, <3>2 DEF TicketOwner
    <3> QED
      BY <2>1, <3>3, <3>4 DEF Ticket!Issue
  <2>4. ASSUME NEW s \in Sessions, NEW r \in Requests, BoundBy(s, r),
               \A x \in Sessions : x # s => row'[x] = row[x]
        PROVE  In(r).did \in Users /\ Ticket!Bind(s, In(r).did)
    <3>1. /\ row[s].state = "issued" /\ row'[s].state = "consumed"
          /\ row'[s].user = {In(r).did} /\ request[r].pc # "idle"
      BY <2>4 DEF BoundBy
    <3>2. In(r).did \in Users
      BY <1>1, <3>1, SubmissionFields
    <3>3. TicketStatus[s] = "open"
          /\ TicketStatus' = [TicketStatus EXCEPT ![s] = "bound"]
      <4>1. \A x \in Sessions : TicketStatus'[x] =
               IF x = s THEN "bound" ELSE TicketStatus[x]
        BY <2>4, <3>1 DEF TicketStatus, StatusOf
      <4>2. s \in Sessions /\ TicketStatus[s] = "open"
        BY <2>4, <3>1 DEF TicketStatus, StatusOf
      <4> QED
        BY <4>1, <4>2 DEF TicketStatus
    <3>4. TicketOwner' = [TicketOwner EXCEPT ![s] = {In(r).did}]
      BY <2>4, <3>1 DEF TicketOwner
    <3> QED
      BY <2>1, <3>2, <3>3, <3>4 DEF Ticket!Bind
  <2>5. ASSUME \A x \in Sessions : row'[x] = row[x] \/ Lapsed(x) \/ Counted(x)
        PROVE  [Ticket!Next]_(Ticket!vars)
    <3> DEFINE S == {x \in Sessions :
                       row[x].state = "issued" /\ row'[x].state # "issued"}
    <3>1. \A x \in Sessions :
            /\ row'[x].user = row[x].user
            /\ \/ row'[x].state = row[x].state
               \/ row[x].state = "issued" /\ row'[x].state \in {"expired", "failed"}
      <4> SUFFICES ASSUME NEW x \in Sessions
                   PROVE  /\ row'[x].user = row[x].user
                          /\ \/ row'[x].state = row[x].state
                             \/ /\ row[x].state = "issued"
                                /\ row'[x].state \in {"expired", "failed"}
        OBVIOUS
      <4>1. CASE row'[x] = row[x]
        BY <4>1
      <4>2. CASE Lapsed(x)
        BY <4>2 DEF Lapsed
      <4>3. CASE Counted(x)
        BY <4>3 DEF Counted
      <4> QED
        BY <2>5, <4>1, <4>2, <4>3
    <3>2. TicketOwner' = TicketOwner
      BY <3>1 DEF TicketOwner
    <3>3. \A x \in S : TicketStatus[x] = "open"
      BY DEF TicketStatus, StatusOf
    <3>4. TicketStatus' =
             [x \in Sessions |-> IF x \in S THEN "closed" ELSE TicketStatus[x]]
      <4>1. \A x \in Sessions : TicketStatus'[x] =
               IF x \in S THEN "closed" ELSE TicketStatus[x]
        <5> SUFFICES ASSUME NEW x \in Sessions
                     PROVE  TicketStatus'[x] =
                              IF x \in S THEN "closed" ELSE TicketStatus[x]
          OBVIOUS
        <5>1. /\ TicketStatus[x] = StatusOf(row[x].state)
              /\ TicketStatus'[x] = StatusOf(row'[x].state)
          BY DEF TicketStatus
        <5>2. CASE row'[x].state = row[x].state
          BY <5>1, <5>2
        <5>3. CASE row[x].state = "issued" /\ row'[x].state \in {"expired", "failed"}
          BY <5>1, <5>3 DEF StatusOf
        <5> QED
          BY <3>1, <5>2, <5>3
      <4> QED
        BY <4>1 DEF TicketStatus
    <3>5. Ticket!Close(S)
      BY <2>1, <3>2, <3>3, <3>4 DEF Ticket!Close
    <3> QED
      BY <3>5 DEF Ticket!Next
  <2> QED
    BY <2>2, <2>3, <2>4, <2>5, TicketMoves DEF Ticket!Next
<1> QED
  BY <1>2, <1>3

\* Through every interleaving, crash and lost write, a pairing session is a
\* ticket that is bound at most once, closed for good, and granted at most once.
THEOREM ImplementsTicket == Spec => TicketSpec
<1>1. Init => Ticket!Init
  BY TicketInit
<1>2. PairingInv /\ PairingInv' /\ [Next]_vars => [Ticket!Next]_(Ticket!vars)
  BY TicketNext
<1> QED
  BY <1>1, <1>2, Invariance, PTL DEF Spec, TicketSpec, Ticket!Spec

=============================================================================
