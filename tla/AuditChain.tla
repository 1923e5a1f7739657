------------------------------ MODULE AuditChain ------------------------------
(***************************************************************************)
(* The per-tenant hash chain over audit_events (services/audit.ts).        *)
(*                                                                         *)
(* Concurrent calls of appendAuditEvent each run one transaction: wait for *)
(* the advisory lock of the tenant, read the chain's head, insert a row    *)
(* linked to it, commit, and only then tell live subscribers.  Any query   *)
(* may fail, the acknowledgement of COMMIT may be lost, and the process    *)
(* may die; Postgres then aborts what was open.  verifyAuditChain replays  *)
(* the committed rows and reports the first that does not fit.             *)
(*                                                                         *)
(* SHA-256 is the injective pairing of what it digests.  Rows written      *)
(* before the hash columns existed have Null hashes.  Edit is external: an *)
(* operator with SQL access changing the content of a row.                 *)
(***************************************************************************)
EXTENDS Integers, FiniteSets

CONSTANTS Tenants, Environments,
          Fields,          \* keys that an event's metadata may have
          Events,          \* what callers append
          Locks, LockKey,  \* LockKey[t]: hashtext(t), the tenant's advisory lock
          Writers,         \* calls of appendAuditEvent
          LegacyRows,      \* rows that predate the hash columns
          FirstId,         \* where the BIGSERIAL stands at the start
          MaxId,           \* bound on the ids drawn
          MaxCrashes,      \* bound on restarts of the process
          MaxEdits,        \* bound on edits of rows
          None             \* no writer holds the lock

Given == "given"            \* a value JSON can carry
Undefined == "undefined"    \* a key whose value is the JavaScript undefined
Absent == "absent"

Metadata == [Fields -> {Given, Undefined, Absent}]
Event == [tenant : Tenants, environment : Environments,
          live : BOOLEAN,   \* isVerificationAction(action)
          metadata : Metadata]
Chains == Tenants \X Environments
Ids == 1 .. MaxId

\* The hash of nothing: what the first row of a chain is linked to, and what rows
\* that predate the hash columns hold.
Genesis == <<"genesis">>
Null == <<>>

ASSUME ConstantsAssumption ==
    /\ Events \subseteq Event
    /\ LockKey \in [Tenants -> Locks]
    /\ FirstId \in Nat \ {0} /\ MaxId \in Nat
    /\ MaxCrashes \in Nat /\ MaxEdits \in Nat
    /\ None \notin Writers
    /\ IsFiniteSet(LegacyRows)
    /\ LegacyRows \subseteq [id : 1 .. FirstId - 1, event : Event,
                              previous_hash : {Null}, event_hash : {Null}]
    /\ \A q, r \in LegacyRows : q.id = r.id => q = r

VARIABLES events,     \* the committed rows of audit_events
          nextId,     \* the id sequence; it does not roll back
          holder,     \* holder[l]: the writer whose transaction holds lock l
          writer,     \* writer[w]: where call w stands and what it has read
          emitted,    \* ids announced to the subscribers of the live view
          appended,   \* history: what callers appended, as committed
          crashes, edits

vars == <<events, nextId, holder, writer, emitted, appended, crashes, edits>>

-----------------------------------------------------------------------------
(* Hashing and storage. *)

computeEventHash(event, previous) == <<event, previous>>

\* JSON.stringify on the way into the JSONB column drops undefined values;
\* canonicalize, which feeds the hash, does not.
Stored(event) ==
    [event EXCEPT !.metadata = [f \in Fields |->
        IF event.metadata[f] = Undefined THEN Absent ELSE event.metadata[f]]]

ChainOf(event) == <<event.tenant, event.environment>>
Rows(c) == {r \in events : ChainOf(r.event) = c}
Hashed(c) == {r \in Rows(c) : r.event_hash # Null}

\* A mutated head lookup that forgets the environment.
FetchByTenant(c) ==
    LET hashed == {r \in events : r.event.tenant = c[1] /\ r.event_hash # Null}
    IN  IF hashed = {} THEN Genesis
        ELSE (CHOOSE r \in hashed : \A q \in hashed : q.id <= r.id).event_hash

fetchPreviousHash(c) ==
    IF Hashed(c) = {} THEN Genesis
    ELSE (CHOOSE r \in Hashed(c) : \A q \in Hashed(c) : q.id <= r.id).event_hash

-----------------------------------------------------------------------------
Idle == [pc |-> "idle", event |-> None, previous |-> Null, id |-> 0]

Init ==
    /\ events = LegacyRows
    /\ nextId = FirstId
    /\ holder = [l \in Locks |-> None]
    /\ writer = [w \in Writers |-> Idle]
    /\ emitted = {} /\ appended = {}
    /\ crashes = 0 /\ edits = 0

At(w, pc) == writer[w].pc = pc
Put(w, pc, event, previous, id) ==
    writer' = [writer EXCEPT ![w] = [pc |-> pc, event |-> event,
                                     previous |-> previous, id |-> id]]
Goto(w, pc) == Put(w, pc, writer[w].event, writer[w].previous, writer[w].id)
Lock(w) == LockKey[writer[w].event.tenant]

Begin(w) ==
    /\ At(w, "idle")
    /\ \E e \in Events : Put(w, "lock", e, Null, 0)
    /\ UNCHANGED <<events, nextId, holder, emitted, appended, crashes, edits>>

AcquireLock(w) ==
    /\ At(w, "lock")
    /\ holder[Lock(w)] = None
    /\ holder' = [holder EXCEPT ![Lock(w)] = w]
    /\ Goto(w, "fetch")
    /\ UNCHANGED <<events, nextId, emitted, appended, crashes, edits>>

FetchPrevious(w) ==
    /\ At(w, "fetch")
    /\ LET e == writer[w].event
       IN  Put(w, "insert", e, fetchPreviousHash(ChainOf(e)), writer[w].id)
    /\ UNCHANGED <<events, nextId, holder, emitted, appended, crashes, edits>>

\* A mutated sequence that does not advance.
InsertSameId(w) ==
    /\ At(w, "insert")
    /\ nextId <= MaxId
    /\ Put(w, "commit", writer[w].event, writer[w].previous, nextId)
    /\ UNCHANGED <<events, nextId, holder, emitted, appended, crashes, edits>>

Insert(w) ==
    /\ At(w, "insert")
    /\ nextId <= MaxId
    /\ Put(w, "commit", writer[w].event, writer[w].previous, nextId)
    /\ nextId' = nextId + 1
    /\ UNCHANGED <<events, holder, emitted, appended, crashes, edits>>

\* The row that w inserts, with the content of its event given.
RowOf(w, event) ==
    [id |-> writer[w].id, event |-> event, previous_hash |-> writer[w].previous,
     event_hash |-> computeEventHash(writer[w].event, writer[w].previous)]

\* The transaction becomes visible and its lock falls.  The acknowledgement may
\* be lost: the caller then takes the error path for a row that is there.
Commit(w) ==
    /\ At(w, "commit")
    /\ events' = events \cup {RowOf(w, Stored(writer[w].event))}
    /\ appended' = appended \cup {RowOf(w, writer[w].event)}
    /\ holder' = [holder EXCEPT ![Lock(w)] = None]
    /\ Goto(w, "emit") \/ Goto(w, "rollback")
    /\ UNCHANGED <<nextId, emitted, crashes, edits>>

\* A query of the transaction is refused, or its connection is lost.  A refused
\* INSERT may have drawn its id already.
QueryFails(w) ==
    /\ writer[w].pc \in {"lock", "fetch", "insert", "commit"}
    /\ Goto(w, "rollback")
    /\ \/ nextId' = nextId
       \/ At(w, "insert") /\ nextId <= MaxId /\ nextId' = nextId + 1
    /\ UNCHANGED <<events, holder, emitted, appended, crashes, edits>>

\* A mutated error path that gives the connection back inside its transaction.
RollbackForgotten(w) ==
    /\ At(w, "rollback")
    /\ Goto(w, "failed")
    /\ UNCHANGED <<events, nextId, holder, emitted, appended, crashes, edits>>

\* ROLLBACK, or the abort by the server when the connection is gone.
Rollback(w) ==
    /\ At(w, "rollback")
    /\ holder' = [l \in Locks |-> IF holder[l] = w THEN None ELSE holder[l]]
    /\ Goto(w, "failed")
    /\ UNCHANGED <<events, nextId, emitted, appended, crashes, edits>>

\* A mutated fan-out that may also run before COMMIT.
EmitEarly(w) ==
    /\ writer[w].pc \in {"commit", "emit"}
    /\ emitted' = IF writer[w].event.live THEN emitted \cup {writer[w].id} ELSE emitted
    /\ IF At(w, "emit") THEN Goto(w, "done") ELSE UNCHANGED writer
    /\ UNCHANGED <<events, nextId, holder, appended, crashes, edits>>

\* After COMMIT: tell the tenant's subscribers, then resolve the caller's promise.
Emit(w) ==
    /\ At(w, "emit")
    /\ emitted' = IF writer[w].event.live THEN emitted \cup {writer[w].id} ELSE emitted
    /\ Goto(w, "done")
    /\ UNCHANGED <<events, nextId, holder, appended, crashes, edits>>

\* The process dies.  Its open transactions are left for the server to abort.
Crash ==
    /\ crashes < MaxCrashes
    /\ crashes' = crashes + 1
    /\ writer' = [w \in Writers |->
          [writer[w] EXCEPT !.pc =
              IF @ \in {"lock", "fetch", "insert", "commit"} THEN "rollback"
              ELSE IF @ = "emit" THEN "failed" ELSE @]]
    /\ UNCHANGED <<events, nextId, holder, emitted, appended, edits>>

\* An operator rewrites the metadata of a row.
Edit(r, metadata) ==
    /\ edits < MaxEdits
    /\ edits' = edits + 1
    /\ events' = (events \ {r}) \cup {[r EXCEPT !.event.metadata = metadata]}
    /\ UNCHANGED <<nextId, holder, writer, emitted, appended, crashes>>

Storable == {m \in Metadata : \A f \in Fields : m[f] # Undefined}

Next ==
    \/ \E w \in Writers :
          \/ Begin(w) \/ AcquireLock(w) \/ FetchPrevious(w) \/ Insert(w)
          \/ Commit(w) \/ QueryFails(w) \/ Rollback(w) \/ Emit(w)
    \/ Crash
    \/ \E r \in events, m \in Storable : Edit(r, m)

Spec == Init /\ [][Next]_vars

\* Postgres answers every query or its connection fails, and hands a lock to
\* its waiters in the order they asked, so a waiter is not passed over for ever.
Fairness ==
    \A w \in Writers :
        /\ SF_vars(AcquireLock(w))
        /\ WF_vars(FetchPrevious(w)) /\ WF_vars(Insert(w)) /\ WF_vars(Commit(w))
        /\ WF_vars(Rollback(w)) /\ WF_vars(Emit(w))

FairSpec == Spec /\ Fairness

-----------------------------------------------------------------------------
(* verifyAuditChain. *)

\* Ids are selected as id::text under the name id, and ORDER BY id then sorts by
\* that text: 10 comes before 9.
Digits(n) == CHOOSE d \in 1 .. 19 : 10 ^ (d - 1) <= n /\ n < 10 ^ d

TextBefore(i, j) ==
    LET di == Digits(i)
        dj == Digits(j)
    IN  IF di = dj THEN i < j
        ELSE IF di < dj THEN i <= j \div (10 ^ (dj - di))
        ELSE i \div (10 ^ (di - dj)) < j

Window(c, start, limit) ==
    LET selected == {r \in Rows(c) : r.id >= start}
    IN  {r \in selected :
            Cardinality({q \in selected : TextBefore(q.id, r.id)}) < limit}

\* q is the row read just before r.
ReadBefore(q, r, window) ==
    /\ TextBefore(q.id, r.id)
    /\ ~\E x \in window : TextBefore(q.id, x.id) /\ TextBefore(x.id, r.id)

\* A mutated expectation: the first row of a window must be a genesis row.
MislinkedFromGenesis(r, window) ==
    \/ \E q \in window : /\ ReadBefore(q, r, window)
                         /\ q.event_hash # Null /\ q.event_hash # r.previous_hash
    \/ ~(\E q \in window : ReadBefore(q, r, window)) /\ r.previous_hash # Genesis

\* expectedPreviousHash is the hash of the row read before, and no expectation
\* at the start of the window or after a row without hashes.
Mislinked(r, window) ==
    \E q \in window : /\ ReadBefore(q, r, window)
                      /\ q.event_hash # Null
                      /\ q.event_hash # r.previous_hash

\* A mutated replay that trusts the stored hash.
NeverMishashed(r) == FALSE

Mishashed(r) == computeEventHash(r.event, r.previous_hash) # r.event_hash

Broken(c, start, limit) ==
    LET window == Window(c, start, limit)
    IN  {r \in window : r.event_hash # Null /\ (Mislinked(r, window) \/ Mishashed(r))}

verifyAuditChain(c, start, limit) == Broken(c, start, limit) = {}

\* GET /api/admin/audit-integrity: any environment but live and test, and none,
\* selects the rows whose environment is NULL.
auditIntegrity(t, environment, start, limit) ==
    verifyAuditChain(
        <<t, IF environment \in {"live", "test"} THEN environment ELSE "null">>,
        start, limit)

-----------------------------------------------------------------------------
(* Properties. *)

Pcs == {"idle", "lock", "fetch", "insert", "commit", "emit", "rollback", "done", "failed"}

\* The variables keep their shape, ids stay below the sequence, and no two rows
\* share one.
TypeOK ==
    /\ \A r \in events \cup appended : r.id \in 1 .. nextId - 1 /\ r.event \in Event
    /\ \A q, r \in events : q.id = r.id => q = r
    /\ nextId \in Nat /\ nextId >= FirstId
    /\ holder \in [Locks -> Writers \cup {None}]
    /\ \A w \in Writers : writer[w].pc \in Pcs /\ writer[w].id \in 0 .. nextId - 1
    /\ \A w \in Writers : writer[w].pc # "idle" => writer[w].event \in Events
    /\ emitted \subseteq Nat
    /\ crashes \in Nat /\ edits \in Nat

\* q is the hashed row just before r in the chain, by id.
Precedes(q, r, chain) ==
    q.id < r.id /\ ~\E x \in chain : q.id < x.id /\ x.id < r.id

\* No fork: whatever the interleaving of appendAuditEvent calls, lost commits and
\* crashes, every hashed row of a chain is linked to the row just before it, and
\* the first one to genesis (audit.ts: "without it, two concurrent inserts could
\* each read the same previous_hash ... leaving the chain forked").
ChainLinked ==
    \A c \in Chains : \A r \in Hashed(c) :
        \/ \E q \in Hashed(c) : Precedes(q, r, Hashed(c)) /\ r.previous_hash = q.event_hash
        \/ (\A q \in Hashed(c) : q.id >= r.id) /\ r.previous_hash = Genesis

\* An append whose caller was answered, and an event a live subscriber saw, is
\* in the table for good, with the content that was appended (the emit after the
\* COMMIT of appendAuditEvent).
AnnouncedIsCommitted ==
    /\ \A w \in Writers : At(w, "done") => RowOf(w, writer[w].event) \in appended
    /\ \A i \in emitted : \E r \in appended : r.id = i
    /\ \A q \in appended : \E r \in events : r.id = q.id /\ r.event_hash = q.event_hash

AsAppended(r) == \E q \in appended : q.id = r.id /\ q.event = r.event

\* A window that verifyAuditChain passes holds only rows with the content their
\* callers appended: editing a hashed row is always noticed.
PassMeansUnedited ==
    \A c \in Chains, start \in Ids, limit \in 1 .. MaxId :
        verifyAuditChain(c, start, limit) =>
            \A r \in Window(c, start, limit) : r.event_hash # Null => AsAppended(r)

\* Conversely, while the ids of a chain have the same number of digits and every
\* row reads back as it was appended, verifyAuditChain passes every window of it,
\* wherever it starts, and across rows without hashes.
UneditedPasses ==
    \A c \in Chains, start \in Ids, limit \in 1 .. MaxId :
        /\ \A r \in Hashed(c) : AsAppended(r)
        /\ \A q, r \in Rows(c) : Digits(q.id) = Digits(r.id)
        => verifyAuditChain(c, start, limit)

\* Every appendAuditEvent that was called returns or throws: a failed or crashed
\* writer never leaves the tenant's lock held.
AppendSettles ==
    \A w \in Writers : At(w, "lock") ~> writer[w].pc \in {"done", "failed"}

\* What the doc comment of verifyAuditChain says: it returns null, no broken row,
\* if the chain is intact.  Nobody has edited anything here.
IntactMeansPass ==
    edits = 0 => \A t \in Tenants, e \in Environments : auditIntegrity(t, e, 1, MaxId)
=============================================================================
