----------------------------- MODULE Registration -----------------------------
(***************************************************************************)
(* The three-QR registration ceremony (src/services/registration.ts,       *)
(* src/routes/v1/registrations.ts), composed with the devices table.       *)
(*                                                                         *)
(* A session holds one one-time code at a time.  The phone's three calls   *)
(* (pair, submit-commitment, complete) are transactions that lock the      *)
(* session row they find by its code, check, write, and mint the next      *)
(* code, which leaves the server once, in the answer, or through the demo  *)
(* portal's cache.  The tenant may abandon the session at any time; codes  *)
(* and sessions expire; the process may restart.                           *)
(*                                                                         *)
(* Data: a code is named by its session and step; a person stands for a    *)
(* DID with its commitment; the verify code travels with its challenge.    *)
(***************************************************************************)
EXTENDS DeviceRegistry

CONSTANTS
    Sessions,       \* session ids
    SessionScope,   \* SessionScope[s]: the (tenant, environment) that opens s
    DemoScopes,     \* tenants whose codes are cached for the demo portal
    Persons,        \* people with a commitment
    Calls,          \* phone-side requests
    Messages,       \* what a phone-side request may carry
    MaxMishaps      \* bound: lapses, lost answers and restarts, together

Steps == {"pair", "enroll", "verify"}

\* A phone-side request: the handler it is sent to, the code it shows, and
\* what the handler reads besides: a fingerprint, a person's commitment or
\* proof, whether the proof is sound and bound to the right challenge.
Message == [op : Steps, session : Sessions, code : Steps, phone : Fingerprints,
            person : Persons, sound : BOOLEAN, nonce : BOOLEAN]

ASSUME CeremonyConstants == Messages \subseteq Message /\ None \notin Persons

VARIABLES
    session,    \* session[s]: the registration_sessions row
    users,      \* tenant_users rows the ceremony inserted
    call,       \* call[c]: a phone-side request
    shown,      \* codes that have left the server
    peek,       \* peek[s]: demoPendingCodes
    proved,     \* history: proved[s], whose proof was verified in session s
    mishaps     \* lapses, lost answers and restarts so far

regVars == <<session, users, call, shown, peek, proved, mishaps>>
vars == <<deviceVars, regVars>>

States == {"absent", "awaiting_device", "awaiting_commitment",
           "awaiting_verification", "completed", "abandoned"}

SessionRow == [state : States, codes : SUBSET Steps, fresh : BOOLEAN, open : BOOLEAN,
               device : Devices \cup {None}, person : Persons \cup {None}]

Call == [pc : {"idle", "prove", "write"}, in : Messages \cup {None}]

Idle == [pc |-> "idle", in |-> None]

User == [session : Sessions, person : Persons, device : Devices \cup {None}]

Init ==
    /\ DevInit
    /\ session = [s \in Sessions |->
                    [state |-> "absent", codes |-> {}, fresh |-> FALSE, open |-> FALSE,
                     device |-> None, person |-> None]]
    /\ users = {}
    /\ call = [c \in Calls |-> Idle]
    /\ shown = {} /\ peek = [s \in Sessions |-> None] /\ mishaps = 0
    /\ proved = [s \in Sessions |-> {}]

-----------------------------------------------------------------------------
(* Tenant-side handlers *)

\* cachePendingDemoCode, behind shouldCacheDemoCode.
Cached(s, step) ==
    [peek EXCEPT ![s] = IF SessionScope[s] \in DemoScopes THEN step ELSE @]

StartRegistration(s) ==
    /\ session[s].state = "absent"
    /\ session' = [session EXCEPT ![s] = [@ EXCEPT !.state = "awaiting_device",
                     !.codes = {"pair"}, !.fresh = TRUE, !.open = TRUE]]
    /\ peek' = Cached(s, "pair")
    /\ shown' = shown \cup {<<s, "pair">>}
    /\ UNCHANGED <<deviceVars, users, call, proved, mishaps>>

SessionUnlocked(s) == FALSE

\* FOR UPDATE holds the row from the lookup to the end of the transaction.
SessionLocked(s) ==
    \E c \in Calls : call[c].pc \in {"prove", "write"} /\ call[c].in.session = s

\* One UPDATE: the codes go in every state, the state only if it is not final.
AbandonRegistration(s) ==
    /\ session[s].state # "absent" /\ ~SessionLocked(s)
    /\ session' = [session EXCEPT ![s] = [@ EXCEPT
         !.codes = {}, !.fresh = FALSE,
         !.state = IF session[s].state = "completed" THEN "completed" ELSE "abandoned"]]
    /\ UNCHANGED <<deviceVars, users, call, shown, peek, proved, mishaps>>

\* The demo portal reads a cached code and shows it, whatever has become of it.
PeekPendingDemoCode(s) ==
    /\ peek[s] # None /\ <<s, peek[s]>> \notin shown
    /\ shown' = shown \cup {<<s, peek[s]>>}
    /\ UNCHANGED <<deviceVars, session, users, call, peek, proved, mishaps>>

Mishap == mishaps < MaxMishaps /\ mishaps' = mishaps + 1

CodeLapses(s) ==
    /\ session[s].fresh /\ Mishap
    /\ session' = [session EXCEPT ![s].fresh = FALSE]
    /\ UNCHANGED <<deviceVars, users, call, shown, peek, proved>>

SessionLapses(s) ==
    /\ session[s].open /\ Mishap
    /\ session' = [session EXCEPT ![s].open = FALSE]
    /\ UNCHANGED <<deviceVars, users, call, shown, peek, proved>>

-----------------------------------------------------------------------------
(* Phone-side handlers *)

AwaitedBy(op) == CASE op = "pair"   -> "awaiting_device"
                   [] op = "enroll" -> "awaiting_commitment"
                   [] op = "verify" -> "awaiting_verification"

Reply(c) == call' = [call EXCEPT ![c] = Idle]

\* The row the SELECT finds: the code in the column of this step, the state
\* this step awaits, both deadlines ahead.
Found(m) ==
    LET row == session[m.session]
    IN  /\ m.code = m.op /\ m.op \in row.codes
        /\ row.state = AwaitedBy(m.op) /\ row.fresh /\ row.open

AcceptsAnyCommitment(m) == m.op = "verify" => m.nonce

\* completeRegistration compares the challenge and the commitment before it
\* verifies; a refusal rolls back, changes nothing and leaves the code alive.
Accepts(m) ==
    m.op = "verify" => m.nonce /\ session[m.session].person = m.person

SelectSession(c, m) ==
    /\ call[c].pc = "idle" /\ <<m.session, m.code>> \in shown
    /\ Found(m) /\ ~SessionLocked(m.session) /\ Accepts(m)
    /\ call' = [call EXCEPT ![c] = [pc |-> IF m.op = "verify" THEN "prove" ELSE "write",
                                    in |-> m]]
    /\ UNCHANGED <<deviceVars, session, users, shown, peek, proved, mishaps>>

\* verifyProof, awaited with the row locked.
VerifyProof(c) ==
    /\ call[c].pc = "prove"
    /\ IF call[c].in.sound
       THEN /\ call' = [call EXCEPT ![c].pc = "write"]
            /\ proved' = [proved EXCEPT ![call[c].in.session] = @ \cup {call[c].in.person}]
       ELSE Reply(c) /\ UNCHANGED proved
    /\ UNCHANGED <<deviceVars, session, users, shown, peek, mishaps>>

\* After COMMIT the next code is cached and answered.  The acknowledgement may
\* be lost (nothing is cached and the caller gets an error), or the answer.
Committed(c, next) ==
    LET s == call[c].in.session
    IN  /\ Reply(c)
        /\ \/ /\ peek' = Cached(s, next) /\ shown' = shown \cup {<<s, next>>}
              /\ UNCHANGED mishaps
           \/ Mishap /\ peek' = Cached(s, next) /\ UNCHANGED shown
           \/ Mishap /\ UNCHANGED <<peek, shown>>

\* The device UPSERT: a row with this phone's external id is enrolled again,
\* whatever its state, and keeps its status; else a row is inserted.
PairDevice(c) ==
    LET m == call[c].in
        s == m.session
        known == RowsOf(SessionScope[s], m.phone)
        blank == {d \in Devices \ Slots : Scope[d] = SessionScope[s] /\ device[d].state = "absent"}
    IN  /\ call[c].pc = "write" /\ m.op = "pair"
        /\ \E d \in IF known # {} THEN known ELSE blank :
              /\ ~Locked(d)
              /\ device' = [device EXCEPT ![d] = [@ EXCEPT !.state = "enrolled",
                                                    !.ext = m.phone, !.fp = m.phone]]
              /\ session' = [session EXCEPT ![s] = [@ EXCEPT
                   !.state = "awaiting_commitment", !.device = d, !.fresh = TRUE,
                   !.codes = (session[s].codes \ {"pair"}) \cup {"enroll"}]]
        /\ Committed(c, "enroll")
        /\ UNCHANGED <<claim, users, proved>>

SubmitCommitment(c) ==
    LET m == call[c].in
        s == m.session
    IN  /\ call[c].pc = "write" /\ m.op = "enroll"
        /\ session' = [session EXCEPT ![s] = [@ EXCEPT
             !.state = "awaiting_verification", !.person = m.person, !.fresh = TRUE,
             !.codes = (session[s].codes \ {"enroll"}) \cup {"verify"}]]
        /\ Committed(c, "verify")
        /\ UNCHANGED <<deviceVars, users, proved>>

NeverDidTaken(s) == FALSE

\* UNIQUE (tenant_id, environment, did) on tenant_users.
DidTaken(s) ==
    \E u \in users :
        u.person = session[s].person /\ SessionScope[u.session] = SessionScope[s]

CompleteRegistration(c) ==
    LET s == call[c].in.session
    IN  /\ call[c].pc = "write" /\ call[c].in.op = "verify"
        /\ IF DidTaken(s)
           THEN Reply(c) /\ UNCHANGED <<session, users>>
           ELSE /\ users' = users \cup {[session |-> s, person |-> session[s].person,
                                         device |-> session[s].device]}
                /\ session' = [session EXCEPT ![s] = [@ EXCEPT !.state = "completed",
                                                     !.codes = {}, !.fresh = FALSE]]
                /\ Reply(c)
        /\ UNCHANGED <<deviceVars, shown, peek, proved, mishaps>>

\* A query fails: ROLLBACK, 500.
CallFails(c) ==
    /\ call[c].pc \in {"prove", "write"}
    /\ Reply(c)
    /\ UNCHANGED <<deviceVars, session, users, shown, peek, proved, mishaps>>

\* The process restarts: open transactions roll back, the cache is gone.
Restart ==
    /\ Mishap
    /\ call' = [c \in Calls |-> Idle]
    /\ claim' = [c \in Claims |-> NoClaim]
    /\ peek' = [s \in Sessions |-> None]
    /\ UNCHANGED <<device, session, users, shown, proved>>

CallStep(c) ==
    \/ VerifyProof(c)
    \/ PairDevice(c) \/ SubmitCommitment(c) \/ CompleteRegistration(c)

Next ==
    \/ DevNext /\ UNCHANGED regVars
    \/ \E s \in Sessions :
          \/ StartRegistration(s) \/ AbandonRegistration(s) \/ PeekPendingDemoCode(s)
          \/ CodeLapses(s) \/ SessionLapses(s)
    \/ \E c \in Calls :
          \/ \E m \in Messages : SelectSession(c, m)
          \/ CallStep(c) \/ CallFails(c)
    \/ Restart

Spec == Init /\ [][Next]_vars

-----------------------------------------------------------------------------
(* Properties *)

\* Rows, calls and codes keep their types; a session that has ended holds no
\* code, one under way at most the code of its state.
TypeOK ==
    /\ DeviceTypeOK
    /\ session \in [Sessions -> SessionRow]
    /\ \A s \in Sessions :
          session[s].codes \subseteq {op \in Steps : session[s].state = AwaitedBy(op)}
    /\ users \subseteq User
    /\ call \in [Calls -> Call]
    /\ shown \subseteq Sessions \X Steps
    /\ peek \in [Sessions -> Steps \cup {None}]

\* The user a ceremony inserts carries a commitment that a sound proof, bound
\* to the session's challenge, was shown to hold, and the device that paired;
\* whatever arrived between the steps (registration.ts:660-745).
UsersProveCommitment ==
    \A u \in users : /\ proved[u.session] = {u.person}
                     /\ u.device = session[u.session].device

\* A revoked device comes back only when its own phone pairs in a ceremony of
\* its tenant: no claim, reissue or edit that races the revocation revives it.
RevokedReturnsByPairing ==
    [][\A d \in Devices :
          device[d].state = "revoked" /\ device'[d].state # "revoked" =>
              \E c \in Calls :
                  /\ call[c].pc = "write" /\ call'[c].pc = "idle"
                  /\ call[c].in.op = "pair" /\ call[c].in.phone = device[d].ext
                  /\ SessionScope[call[c].in.session] = Scope[d]]_vars

\* The ceremony of codes, locks and lost answers implements the abstract one:
\* one code advances it once, whatever races; an abandonment is final though a
\* proof was being verified; a DID enrols once (registration.ts:395, 653, 866).
Promised == INSTANCE Ceremony
    WITH stage <- [s \in Sessions |-> session[s].state],
         bearer <- [s \in Sessions |-> session[s].person], Nobody <- None
CeremonySpec == Promised!CeremonySpec
=============================================================================
