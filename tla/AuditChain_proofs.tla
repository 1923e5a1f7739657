-------------------------- MODULE AuditChain_proofs --------------------------
(***************************************************************************)
(* The hash chain of audit_events never forks, every announced event is    *)
(* committed, and verifyAuditChain passes exactly the windows whose rows   *)
(* read as they were appended.                                             *)
(***************************************************************************)
EXTENDS AuditChain, FiniteSetTheorems, TLAPS

-----------------------------------------------------------------------------
(* The inductive invariant.  It speaks of a row's place in the chain only, *)
(* which an edit of its content does not change.                           *)

LinkOf(r) == [id |-> r.id, chain |-> ChainOf(r.event),
              previous |-> r.previous_hash, hash |-> r.event_hash]
Links == {LinkOf(r) : r \in events}
Chain(c) == {l \in Links : l.chain = c /\ l.hash # Null}

IsRow(r) == r = [id |-> r.id, event |-> r.event,
                 previous_hash |-> r.previous_hash, event_hash |-> r.event_hash]

\* Every variable that holds records holds whole ones.
Shape ==
    /\ writer = [w \in Writers |-> writer[w]]
    /\ \A w \in Writers : writer[w] =
          [pc |-> writer[w].pc, event |-> writer[w].event,
           previous |-> writer[w].previous, id |-> writer[w].id]
    /\ \A r \in events \cup appended : IsRow(r)
    /\ IsFiniteSet(events)

\* h is what the next row of chain c must be linked to.
IsHead(c, h) ==
    \/ Chain(c) = {} /\ h = Genesis
    \/ \E l \in Chain(c) : h = l.hash /\ \A k \in Chain(c) : k.id <= l.id

HasHead == \A c \in Chains : \E h \in {Genesis} \cup {l.hash : l \in Links} : IsHead(c, h)

InTransaction(w) == writer[w].pc \in {"fetch", "insert", "commit"}

LockHeld == \A w \in Writers : InTransaction(w) => holder[Lock(w)] = w

ReadsHead ==
    \A w \in Writers : writer[w].pc \in {"insert", "commit"} =>
        IsHead(ChainOf(writer[w].event), writer[w].previous)

FreshId ==
    \A w \in Writers : At(w, "commit") =>
        /\ writer[w].id \in 1 .. nextId - 1
        /\ \A l \in Links : l.id # writer[w].id
        /\ \A l \in Chain(ChainOf(writer[w].event)) : l.id < writer[w].id
        /\ \A v \in Writers : At(v, "commit") /\ v # w => writer[v].id # writer[w].id

Linked ==
    \A c \in Chains : \A l \in Chain(c) :
        \/ \E k \in Chain(c) : Precedes(k, l, Chain(c)) /\ l.previous = k.hash
        \/ (\A k \in Chain(c) : k.id >= l.id) /\ l.previous = Genesis

Written ==
    /\ \A q \in appended :
          /\ q.event_hash = computeEventHash(q.event, q.previous_hash)
          /\ LinkOf(q) \in Links
    /\ \A r \in events : r.event_hash # Null =>
          \E q \in appended : LinkOf(q) = LinkOf(r)

Announced ==
    /\ \A w \in Writers : writer[w].pc \in {"emit", "done"} =>
          RowOf(w, writer[w].event) \in appended
    /\ \A i \in emitted : \E r \in appended : r.id = i

ChainInv ==
    /\ Shape /\ TypeOK /\ HasHead /\ LockHeld /\ ReadsHead
    /\ FreshId /\ Linked /\ Written /\ Announced

-----------------------------------------------------------------------------
(* What the operators yield. *)

LEMMA StoredEvent ==
    ASSUME NEW e \in Event
    PROVE  Stored(e) \in Event /\ ChainOf(Stored(e)) = ChainOf(e)
  BY DEF Stored, Event, Metadata, ChainOf, Given, Undefined, Absent

LEMMA HashNotNull ==
    ASSUME NEW e, NEW p
    PROVE  computeEventHash(e, p) # Null
  BY DEF computeEventHash, Null

LEMMA HashInjective ==
    ASSUME NEW e, NEW p, NEW f, NEW q, computeEventHash(e, p) = computeEventHash(f, q)
    PROVE  e = f /\ p = q
  BY DEF computeEventHash

\* fetchPreviousHash reads the head of the chain.
LEMMA FetchReadsHead ==
    ASSUME Shape, TypeOK, HasHead, NEW c \in Chains
    PROVE  IsHead(c, fetchPreviousHash(c))
<1>1. /\ \A r \in Hashed(c) : LinkOf(r) \in Chain(c)
      /\ \A l \in Chain(c) : \E r \in Hashed(c) : l = LinkOf(r)
  BY DEF Hashed, Rows, Chain, Links, LinkOf
<1>2. CASE Hashed(c) = {}
  BY <1>1, <1>2 DEF fetchPreviousHash, IsHead
<1>3. CASE Hashed(c) # {}
  <2> DEFINE Last(r) == \A q \in Hashed(c) : q.id <= r.id
  <2>1. \E r \in Hashed(c) : Last(r)
    <3>1. PICK l \in Chain(c) : \A k \in Chain(c) : k.id <= l.id
      BY <1>1, <1>3 DEF HasHead, IsHead
    <3>2. PICK r \in Hashed(c) : l = LinkOf(r)
      BY <1>1
    <3>3. Last(r)
      BY <1>1, <3>1, <3>2 DEF LinkOf
    <3> QED
      BY <3>3
  <2> DEFINE r == CHOOSE r \in Hashed(c) : Last(r)
  <2>2. r \in Hashed(c) /\ Last(r)
    BY <2>1
  <2>3. fetchPreviousHash(c) = r.event_hash
    BY <1>3 DEF fetchPreviousHash
  <2>4. LinkOf(r) \in Chain(c) /\ LinkOf(r).hash = r.event_hash
    BY <1>1, <2>2 DEF LinkOf
  <2>5. \A k \in Chain(c) : k.id <= LinkOf(r).id
    BY <1>1, <2>2 DEF LinkOf
  <2> QED
    BY <2>3, <2>4, <2>5 DEF IsHead
<1> QED
  BY <1>2, <1>3

\* An edit changes the content of a row, never its place.
LEMMA EditKeepsLinks ==
    ASSUME Shape, TypeOK, NEW r \in events, NEW m \in Storable, Edit(r, m)
    PROVE  /\ Links' = Links
           /\ \A x \in events' : IsRow(x) /\ x.event \in Event
                 /\ \E y \in events : LinkOf(x) = LinkOf(y)
           /\ \A y \in events : \E x \in events' : LinkOf(x) = LinkOf(y)
           /\ IsFiniteSet(events')
<1> DEFINE n == [r EXCEPT !.event.metadata = m]
<1>1. events' = (events \ {r}) \cup {n}
  BY DEF Edit
<1>2. IsRow(r) /\ r.event \in Event /\ m \in Metadata
  BY DEF Shape, TypeOK, Storable
<1>3. n = [id |-> r.id, event |-> [r.event EXCEPT !.metadata = m],
           previous_hash |-> r.previous_hash, event_hash |-> r.event_hash]
  BY <1>2 DEF IsRow
<1>4. IsRow(n) /\ n.event \in Event /\ LinkOf(n) = LinkOf(r)
  BY <1>2, <1>3 DEF IsRow, LinkOf, ChainOf, Event
<1> HIDE DEF n
<1>5. IsFiniteSet(events')
  BY <1>1, FS_RemoveElement, FS_AddElement DEF Shape
<1> QED
  BY <1>1, <1>4, <1>5 DEF Links, Shape, TypeOK

\* One writer takes a new record; the others keep theirs.
Moves(w, pc, event, previous, id) ==
    /\ writer'[w] = [pc |-> pc, event |-> event, previous |-> previous, id |-> id]
    /\ \A x \in Writers : x # w => writer'[x] = writer[x]
    /\ writer' = [x \in Writers |-> writer'[x]]

LEMMA PutMoves ==
    ASSUME Shape, NEW w \in Writers, NEW pc, NEW e, NEW p, NEW i, Put(w, pc, e, p, i)
    PROVE  Moves(w, pc, e, p, i)
<1> DEFINE rec == [pc |-> pc, event |-> e, previous |-> p, id |-> i]
<1>1. writer' = [writer EXCEPT ![w] = rec] /\ writer = [x \in Writers |-> writer[x]]
  BY DEF Put, Shape
<1> HIDE DEF rec
<1>2. /\ writer'[w] = rec
      /\ \A x \in Writers : x # w => writer'[x] = writer[x]
      /\ writer' = [x \in Writers |-> writer'[x]]
  BY <1>1
<1> QED
  BY <1>2 DEF Moves, rec

LEMMA GotoMoves ==
    ASSUME Shape, NEW w \in Writers, NEW pc, Goto(w, pc)
    PROVE  Moves(w, pc, writer[w].event, writer[w].previous, writer[w].id)
  BY PutMoves DEF Goto

LEMMA CrashMoves ==
    ASSUME Shape, Crash
    PROVE  /\ writer' = [x \in Writers |-> writer'[x]]
           /\ \A w \in Writers :
                 /\ writer'[w] =
                      [pc |-> writer'[w].pc, event |-> writer[w].event,
                       previous |-> writer[w].previous, id |-> writer[w].id]
                 /\ \/ /\ writer'[w].pc = writer[w].pc
                        /\ writer[w].pc \notin {"lock", "fetch", "insert", "commit"}
                    \/ writer'[w].pc \in {"rollback", "failed"} /\ ~At(w, "idle")
<1> DEFINE Next1(pc) ==
             IF pc \in {"lock", "fetch", "insert", "commit"} THEN "rollback"
             ELSE IF pc = "emit" THEN "failed" ELSE pc
<1>1. writer' = [w \in Writers |-> [writer[w] EXCEPT !.pc = Next1(@)]]
  BY DEF Crash
<1>2. ASSUME NEW w \in Writers
      PROVE  writer'[w] = [pc |-> Next1(writer[w].pc), event |-> writer[w].event,
                           previous |-> writer[w].previous, id |-> writer[w].id]
  <2> HIDE DEF Next1
  <2>1. writer[w] = [pc |-> writer[w].pc, event |-> writer[w].event,
                     previous |-> writer[w].previous, id |-> writer[w].id]
    BY DEF Shape
  <2> QED
    BY <1>1, <2>1
<1>3. \A pc : \/ Next1(pc) = pc /\ pc \notin {"lock", "fetch", "insert", "commit"}
              \/ Next1(pc) \in {"rollback", "failed"} /\ pc # "idle"
  OBVIOUS
<1> HIDE DEF Next1
<1> QED
  BY <1>1, <1>2, <1>3 DEF At

-----------------------------------------------------------------------------
(* The invariant holds at first and is kept by every step. *)

LEMMA InitInv == Init => ChainInv
<1> SUFFICES ASSUME Init
             PROVE  ChainInv
  OBVIOUS
<1> USE ConstantsAssumption
<1>1. Shape /\ TypeOK
  <2>1. Shape
    BY DEF Init, Shape, IsRow, Idle
  <2>2. TypeOK
    BY DEF Init, TypeOK, Idle, Pcs
  <2> QED
    BY <2>1, <2>2
<1>2. \A c : Chain(c) = {}
  BY DEF Init, Chain, Links, LinkOf
<1>3. HasHead /\ Linked
  BY <1>2 DEF HasHead, IsHead, Linked
<1>4. LockHeld /\ ReadsHead /\ FreshId /\ Announced
  BY DEF Init, Idle, LockHeld, InTransaction, ReadsHead, FreshId, At, Announced
<1>5. Written
  BY DEF Init, Written
<1> QED
  BY <1>1, <1>3, <1>4, <1>5 DEF ChainInv

\* A step that writes no row leaves every chain as it is.
LEMMA QuietTable ==
    ASSUME ChainInv, UNCHANGED <<events, appended>>
    PROVE  HasHead' /\ Linked' /\ Written' /\ Links' = Links
<1>1. Links' = Links
  BY DEF Links
<1>2. \A c : Chain(c)' = Chain(c)
  BY <1>1 DEF Chain
<1>3. HasHead'
  BY <1>1, <1>2 DEF ChainInv, HasHead, IsHead
<1>4. Linked'
  BY <1>2 DEF ChainInv, Linked, Precedes
<1>5. Written'
  BY <1>1 DEF ChainInv, Written
<1> QED
  BY <1>1, <1>3, <1>4, <1>5

\* A writer that is not in its transaction, or has read nothing yet, owes nothing
\* to the table.
LEMMA QuietWriter ==
    ASSUME ChainInv, UNCHANGED <<events, appended, emitted>>, nextId' \in {nextId, nextId + 1},
           NEW w \in Writers, NEW pc \in {"lock", "fetch", "rollback", "failed"},
           NEW e \in Events, NEW p, NEW i \in 0 .. nextId' - 1, Moves(w, pc, e, p, i),
           \A v \in Writers : v # w /\ InTransaction(v) =>
               holder'[Lock(v)] = holder[Lock(v)],
           pc = "fetch" => holder'[LockKey[e.tenant]] = w
    PROVE  LockHeld' /\ ReadsHead' /\ FreshId' /\ Announced'
<1>1. Links' = Links
  BY QuietTable
<1>2. /\ writer'[w].pc = pc /\ writer'[w].event = e
      /\ \A x \in Writers : x # w => writer'[x] = writer[x]
  BY DEF Moves
<1>3. nextId \in Nat
  BY DEF ChainInv, TypeOK
<1>4. LockHeld'
  <2> SUFFICES ASSUME NEW v \in Writers, InTransaction(v)'
               PROVE  holder'[Lock(v)'] = v
    BY DEF LockHeld
  <2>1. CASE v = w
    BY <1>2, <2>1 DEF InTransaction, Lock
  <2>2. CASE v # w
    <3>1. InTransaction(v) /\ Lock(v)' = Lock(v) /\ holder[Lock(v)] = v
      BY <1>2, <2>2 DEF InTransaction, Lock, ChainInv, LockHeld
    <3> QED
      BY <2>2, <3>1
  <2> QED
    BY <2>1, <2>2
<1>5. ReadsHead'
  BY <1>1, <1>2 DEF ChainInv, ReadsHead, IsHead, Chain
<1>6. FreshId'
  BY <1>1, <1>2, <1>3 DEF ChainInv, FreshId, At, Chain
<1>7. Announced'
  <2>1. \A x \in Writers : writer'[x].pc \in {"emit", "done"} => writer'[x] = writer[x]
    BY <1>2
  <2> QED
    BY <2>1 DEF ChainInv, Announced, RowOf
<1> QED
  BY <1>4, <1>5, <1>6, <1>7

LEMMA MovesType ==
    ASSUME ChainInv, UNCHANGED <<events, appended, crashes, edits>>,
           nextId' \in {nextId, nextId + 1}, emitted' \subseteq Nat,
           holder' \in [Locks -> Writers \cup {None}],
           NEW w \in Writers, NEW pc \in Pcs \ {"idle"}, NEW e \in Events, NEW p,
           NEW i \in 0 .. nextId' - 1, Moves(w, pc, e, p, i)
    PROVE  Shape' /\ TypeOK'
<1>1. /\ writer'[w].pc = pc /\ writer'[w].event = e /\ writer'[w].id = i
      /\ writer'[w] = [pc |-> writer'[w].pc, event |-> writer'[w].event,
                       previous |-> writer'[w].previous, id |-> writer'[w].id]
      /\ \A x \in Writers : x # w => writer'[x] = writer[x]
      /\ writer' = [x \in Writers |-> writer'[x]]
  BY DEF Moves
<1>2. Shape'
  BY <1>1 DEF ChainInv, Shape, IsRow
<1>3. /\ nextId \in Nat /\ FirstId \in Nat
      /\ \A x \in Writers : writer'[x].pc \in Pcs /\ writer'[x].id \in 0 .. nextId' - 1
      /\ \A x \in Writers : writer'[x].pc # "idle" => writer'[x].event \in Events
  BY <1>1, ConstantsAssumption DEF ChainInv, TypeOK
<1>4. TypeOK'
  BY <1>3 DEF ChainInv, TypeOK
<1> QED
  BY <1>2, <1>4

LEMMA BeginInv == ASSUME ChainInv, NEW w \in Writers, Begin(w)  PROVE ChainInv'
<1>1. PICK e \in Events : Moves(w, "lock", e, Null, 0)
  BY PutMoves DEF Begin, ChainInv
<1>2. nextId' = nextId /\ nextId \in Nat \ {0}
  BY ConstantsAssumption DEF Begin, ChainInv, TypeOK
<1>3. Shape' /\ TypeOK'
  BY <1>1, <1>2, MovesType DEF Begin, Pcs, ChainInv, TypeOK
<1>4. LockHeld' /\ ReadsHead' /\ FreshId' /\ Announced'
  BY <1>1, <1>2, QuietWriter DEF Begin
<1> QED
  BY <1>3, <1>4, QuietTable DEF Begin, ChainInv

\* The event and the id of a call that has begun.
LEMMA CallFields ==
    ASSUME ChainInv, NEW w \in Writers, writer[w].pc # "idle"
    PROVE  /\ writer[w].event \in Events /\ writer[w].event \in Event
           /\ writer[w].id \in 0 .. nextId - 1
           /\ Lock(w) \in Locks /\ ChainOf(writer[w].event) \in Chains
  BY ConstantsAssumption DEF ChainInv, TypeOK, Event, Lock, ChainOf, Chains

LEMMA AcquireInv == ASSUME ChainInv, NEW w \in Writers, AcquireLock(w)  PROVE ChainInv'
<1> DEFINE e == writer[w].event
<1>1. Moves(w, "fetch", e, writer[w].previous, writer[w].id)
  BY GotoMoves DEF AcquireLock, ChainInv
<1>2. /\ nextId' = nextId /\ e \in Events /\ writer[w].id \in 0 .. nextId - 1
      /\ Lock(w) \in Locks
  BY CallFields DEF AcquireLock, At
<1>3. /\ holder' \in [Locks -> Writers \cup {None}]
      /\ holder'[Lock(w)] = w
      /\ \A v \in Writers : v # w /\ InTransaction(v) =>
            holder'[Lock(v)] = holder[Lock(v)]
  <2>1. \A v \in Writers : InTransaction(v) => Lock(v) \in Locks
    BY CallFields DEF InTransaction
  <2> QED
    BY <1>2, <2>1, ConstantsAssumption DEF AcquireLock, ChainInv, TypeOK, LockHeld
<1>4. Shape' /\ TypeOK'
  BY <1>1, <1>2, <1>3, MovesType DEF AcquireLock, Pcs, ChainInv, TypeOK
<1>5. LockHeld' /\ ReadsHead' /\ FreshId' /\ Announced'
  BY <1>1, <1>2, <1>3, QuietWriter DEF AcquireLock, Lock
<1> QED
  BY <1>4, <1>5, QuietTable DEF AcquireLock, ChainInv

LEMMA RollbackInv == ASSUME ChainInv, NEW w \in Writers, Rollback(w)  PROVE ChainInv'
<1> DEFINE e == writer[w].event
<1>1. Moves(w, "failed", e, writer[w].previous, writer[w].id)
  BY GotoMoves DEF Rollback, ChainInv
<1>2. nextId' = nextId /\ e \in Events /\ writer[w].id \in 0 .. nextId - 1
  BY CallFields DEF Rollback, At
<1>3. /\ holder' \in [Locks -> Writers \cup {None}]
      /\ \A v \in Writers : v # w /\ InTransaction(v) =>
            holder'[Lock(v)] = holder[Lock(v)]
  <2>1. \A v \in Writers : InTransaction(v) => Lock(v) \in Locks
    BY CallFields DEF InTransaction
  <2> QED
    BY <2>1 DEF Rollback, ChainInv, TypeOK, LockHeld
<1>4. Shape' /\ TypeOK'
  BY <1>1, <1>2, <1>3, MovesType DEF Rollback, Pcs, ChainInv, TypeOK
<1>5. LockHeld' /\ ReadsHead' /\ FreshId' /\ Announced'
  BY <1>1, <1>2, <1>3, QuietWriter DEF Rollback
<1> QED
  BY <1>4, <1>5, QuietTable DEF Rollback, ChainInv

LEMMA QueryFailsInv == ASSUME ChainInv, NEW w \in Writers, QueryFails(w)  PROVE ChainInv'
<1> DEFINE e == writer[w].event
<1>1. Moves(w, "rollback", e, writer[w].previous, writer[w].id)
  BY GotoMoves DEF QueryFails, ChainInv
<1>2. /\ nextId \in Nat /\ nextId' \in {nextId, nextId + 1} /\ e \in Events
      /\ writer[w].id \in 0 .. nextId' - 1
  BY CallFields DEF QueryFails, ChainInv, TypeOK
<1>3. Shape' /\ TypeOK'
  BY <1>1, <1>2, MovesType DEF QueryFails, Pcs, ChainInv, TypeOK
<1>4. LockHeld' /\ ReadsHead' /\ FreshId' /\ Announced'
  BY <1>1, <1>2, QuietWriter DEF QueryFails
<1> QED
  BY <1>3, <1>4, QuietTable DEF QueryFails, ChainInv

LEMMA FetchInv == ASSUME ChainInv, NEW w \in Writers, FetchPrevious(w)  PROVE ChainInv'
<1> DEFINE e == writer[w].event
           h == fetchPreviousHash(ChainOf(e))
<1>1. Moves(w, "insert", e, h, writer[w].id)
  BY PutMoves DEF FetchPrevious, ChainInv
<1>2. /\ nextId' = nextId /\ e \in Events /\ writer[w].id \in 0 .. nextId - 1
      /\ ChainOf(e) \in Chains /\ UNCHANGED <<events, appended, emitted, holder>>
  BY CallFields DEF FetchPrevious, At
<1>3. IsHead(ChainOf(e), h)
  BY <1>2, FetchReadsHead DEF ChainInv
<1> HIDE DEF h
<1>4. Shape' /\ TypeOK'
  BY <1>1, <1>2, MovesType DEF FetchPrevious, Pcs, ChainInv, TypeOK
<1>5. Links' = Links /\ HasHead' /\ Linked' /\ Written'
  BY <1>2, QuietTable
<1>6. /\ writer'[w].pc = "insert" /\ writer'[w].event = e /\ writer'[w].previous = h
      /\ \A x \in Writers : x # w => writer'[x] = writer[x]
  BY <1>1 DEF Moves
<1>7. LockHeld'
  BY <1>2, <1>6 DEF ChainInv, LockHeld, InTransaction, Lock, FetchPrevious, At
<1>8. ReadsHead'
  BY <1>3, <1>5, <1>6 DEF ChainInv, ReadsHead, IsHead, Chain
<1>9. FreshId'
  BY <1>2, <1>5, <1>6 DEF ChainInv, FreshId, At, Chain
<1>10. Announced'
  BY <1>2, <1>6 DEF ChainInv, Announced, RowOf
<1> QED
  BY <1>4, <1>5, <1>7, <1>8, <1>9, <1>10 DEF ChainInv

LEMMA InsertInv == ASSUME ChainInv, NEW w \in Writers, Insert(w)  PROVE ChainInv'
<1> DEFINE e == writer[w].event
<1>1. Moves(w, "commit", e, writer[w].previous, nextId)
  BY PutMoves DEF Insert, ChainInv
<1>2. /\ nextId' = nextId + 1 /\ nextId \in Nat \ {0} /\ e \in Events
      /\ UNCHANGED <<events, appended, emitted, holder, crashes, edits>>
  BY CallFields, ConstantsAssumption DEF Insert, At, ChainInv, TypeOK
<1>3. Shape' /\ TypeOK'
  BY <1>1, <1>2, MovesType DEF Pcs, ChainInv, TypeOK
<1>4. Links' = Links /\ HasHead' /\ Linked' /\ Written'
  BY <1>2, QuietTable
<1>5. /\ writer'[w].pc = "commit" /\ writer'[w].event = e /\ writer'[w].id = nextId
      /\ writer'[w].previous = writer[w].previous
      /\ \A x \in Writers : x # w => writer'[x] = writer[x]
  BY <1>1 DEF Moves
<1>6. LockHeld'
  BY <1>2, <1>5 DEF ChainInv, LockHeld, InTransaction, Lock, Insert, At
<1>7. ReadsHead'
  BY <1>4, <1>5 DEF ChainInv, ReadsHead, IsHead, Chain, Insert, At
<1>8. \A l \in Links : l.id \in 1 .. nextId - 1
  BY DEF ChainInv, TypeOK, Links, LinkOf
<1>9. FreshId'
  <2> SUFFICES ASSUME NEW v \in Writers, At(v, "commit")'
               PROVE  /\ writer'[v].id \in 1 .. nextId' - 1
                      /\ \A l \in Links' : l.id # writer'[v].id
                      /\ \A l \in Chain(ChainOf(writer[v].event))' : l.id < writer'[v].id
                      /\ \A x \in Writers : At(x, "commit")' /\ x # v =>
                            writer'[x].id # writer'[v].id
    BY DEF FreshId
  <2>1. \A x \in Writers : x # w /\ At(x, "commit")' =>
          /\ At(x, "commit") /\ writer'[x] = writer[x]
          /\ writer[x].id \in 1 .. nextId - 1
    BY <1>5 DEF At, ChainInv, FreshId
  <2>2. CASE v = w
    BY <1>2, <1>4, <1>5, <1>8, <2>1, <2>2 DEF Chain
  <2>3. CASE v # w
    BY <1>2, <1>4, <1>5, <2>1, <2>3 DEF Chain, ChainInv, FreshId
  <2> QED
    BY <2>2, <2>3
<1>10. Announced'
  BY <1>2, <1>5 DEF ChainInv, Announced, RowOf
<1> QED
  BY <1>3, <1>4, <1>6, <1>7, <1>9, <1>10 DEF ChainInv

LEMMA EmitInv == ASSUME ChainInv, NEW w \in Writers, Emit(w)  PROVE ChainInv'
<1> DEFINE e == writer[w].event
<1>1. Moves(w, "done", e, writer[w].previous, writer[w].id)
  BY GotoMoves DEF Emit, ChainInv
<1>2. /\ nextId' = nextId /\ nextId \in Nat /\ e \in Events
      /\ writer[w].id \in 0 .. nextId - 1
      /\ UNCHANGED <<events, appended, holder, crashes, edits>>
      /\ emitted' \in {emitted, emitted \cup {writer[w].id}}
  BY CallFields DEF Emit, At, ChainInv, TypeOK
<1>3. Shape' /\ TypeOK'
  BY <1>1, <1>2, MovesType DEF Pcs, ChainInv, TypeOK
<1>4. Links' = Links /\ HasHead' /\ Linked' /\ Written'
  BY <1>2, QuietTable
<1>5. /\ writer'[w].pc = "done" /\ writer'[w].event = e
      /\ writer'[w].id = writer[w].id /\ writer'[w].previous = writer[w].previous
      /\ \A x \in Writers : x # w => writer'[x] = writer[x]
  BY <1>1 DEF Moves
<1>6. LockHeld' /\ ReadsHead' /\ FreshId'
  BY <1>2, <1>4, <1>5 DEF ChainInv, LockHeld, InTransaction, Lock, ReadsHead, IsHead,
       FreshId, At, Chain
<1>7. Announced'
  <2>1. RowOf(w, e) \in appended /\ RowOf(w, e).id = writer[w].id
    BY DEF ChainInv, Announced, Emit, At, RowOf
  <2>2. \A x \in Writers : RowOf(x, writer[x].event)' = RowOf(x, writer[x].event)
    BY <1>5 DEF RowOf
  <2>3. \A x \in Writers : writer'[x].pc \in {"emit", "done"} =>
          writer[x].pc \in {"emit", "done"}
    BY <1>5 DEF Emit, At
  <2> QED
    BY <1>2, <2>1, <2>2, <2>3 DEF ChainInv, Announced
<1> QED
  BY <1>3, <1>4, <1>6, <1>7 DEF ChainInv

LEMMA CrashInv == ASSUME ChainInv, Crash  PROVE ChainInv'
<1>1. /\ writer' = [x \in Writers |-> writer'[x]]
      /\ \A w \in Writers :
            /\ writer'[w].event = writer[w].event /\ writer'[w].id = writer[w].id
            /\ writer'[w].previous = writer[w].previous
            /\ writer'[w] = [pc |-> writer'[w].pc, event |-> writer'[w].event,
                             previous |-> writer'[w].previous, id |-> writer'[w].id]
            /\ \/ /\ writer'[w].pc = writer[w].pc
                  /\ writer[w].pc \notin {"lock", "fetch", "insert", "commit"}
               \/ writer'[w].pc \in {"rollback", "failed"} /\ ~At(w, "idle")
  BY CrashMoves DEF ChainInv
<1>2. UNCHANGED <<events, nextId, holder, emitted, appended, edits>>
      /\ crashes' \in Nat
  BY DEF Crash, ChainInv, TypeOK
<1>3. Shape'
  BY <1>1, <1>2 DEF ChainInv, Shape, IsRow
<1>4. TypeOK'
  BY <1>1, <1>2 DEF ChainInv, TypeOK, Pcs, At
<1>5. HasHead' /\ Linked' /\ Written'
  BY <1>2, QuietTable
<1>6. LockHeld' /\ ReadsHead' /\ FreshId'
  BY <1>1 DEF LockHeld, InTransaction, ReadsHead, FreshId, At
<1>7. Announced'
  BY <1>1, <1>2 DEF ChainInv, Announced, RowOf
<1> QED
  BY <1>3, <1>4, <1>5, <1>6, <1>7 DEF ChainInv

LEMMA EditInv ==
    ASSUME ChainInv, NEW r \in events, NEW m \in Storable, Edit(r, m)
    PROVE  ChainInv'
<1>1. /\ Links' = Links /\ IsFiniteSet(events')
      /\ \A x \in events' : IsRow(x) /\ x.event \in Event
            /\ \E y \in events : LinkOf(x) = LinkOf(y)
  BY EditKeepsLinks DEF ChainInv
<1>2. UNCHANGED <<nextId, holder, writer, emitted, appended, crashes>> /\ edits' \in Nat
  BY DEF Edit, ChainInv, TypeOK
<1>3. \A c : Chain(c)' = Chain(c)
  BY <1>1 DEF Chain
<1>4. Shape'
  BY <1>1, <1>2 DEF ChainInv, Shape, IsRow
<1>5. TypeOK'
  <2>1. \A x \in events' : x.id \in 1 .. nextId - 1 /\ x.event \in Event
    BY <1>1 DEF ChainInv, TypeOK, LinkOf
  <2>2. \A x, y \in events' : x.id = y.id => x = y
    <3> DEFINE n == [r EXCEPT !.event.metadata = m]
    <3>1. events' = (events \ {r}) \cup {n}
      BY DEF Edit
    <3>2. n.id = r.id
      BY DEF ChainInv, Shape, IsRow
    <3> HIDE DEF n
    <3> QED
      BY <3>1, <3>2 DEF ChainInv, TypeOK
  <2> QED
    BY <1>2, <2>1, <2>2 DEF ChainInv, TypeOK, At
<1>6. HasHead' /\ Linked'
  BY <1>1, <1>3 DEF ChainInv, HasHead, IsHead, Linked, Precedes
<1>7. LockHeld' /\ Announced'
  BY <1>2 DEF ChainInv, LockHeld, InTransaction, Lock, Announced, RowOf
<1>8. ReadsHead'
  BY <1>2, <1>3 DEF ChainInv, ReadsHead, IsHead
<1>9. FreshId'
  BY <1>1, <1>2, <1>3 DEF ChainInv, FreshId, At
<1>10. Written'
  <2>1. \A q \in appended' : /\ q.event_hash = computeEventHash(q.event, q.previous_hash)
                             /\ LinkOf(q) \in Links'
    BY <1>1, <1>2 DEF ChainInv, Written
  <2>2. ASSUME NEW x \in events', x.event_hash # Null
        PROVE  \E q \in appended' : LinkOf(q) = LinkOf(x)
    <3>1. PICK y \in events : LinkOf(x) = LinkOf(y)
      BY <1>1
    <3>2. y.event_hash # Null
      BY <2>2, <3>1 DEF LinkOf
    <3> QED
      BY <1>2, <3>1, <3>2 DEF ChainInv, Written
  <2> QED
    BY <2>1, <2>2 DEF Written
<1> QED
  BY <1>4, <1>5, <1>6, <1>7, <1>8, <1>9, <1>10 DEF ChainInv

\* The committed row is linked to the head of its chain, which the lock has kept
\* still since it was read, and becomes the head.
LEMMA CommitInv == ASSUME ChainInv, NEW w \in Writers, Commit(w)  PROVE ChainInv'
<1> DEFINE e == writer[w].event
           row == RowOf(w, Stored(e))
           new == RowOf(w, e)
           link == LinkOf(row)
<1>0. PICK c : c = ChainOf(e)
  OBVIOUS
<1>1. PICK pc \in {"emit", "rollback"} : Moves(w, pc, e, writer[w].previous, writer[w].id)
  BY GotoMoves DEF Commit, ChainInv
<1>2. /\ UNCHANGED <<nextId, emitted, crashes, edits>> /\ nextId \in Nat
      /\ events' = events \cup {row} /\ appended' = appended \cup {new}
      /\ holder' = [holder EXCEPT ![Lock(w)] = None] /\ At(w, "commit")
  BY DEF Commit, ChainInv, TypeOK
<1>3. /\ e \in Events /\ e \in Event /\ Lock(w) \in Locks /\ c \in Chains
      /\ Stored(e) \in Event /\ ChainOf(Stored(e)) = c
  BY <1>0, <1>2, CallFields, StoredEvent DEF At
<1>4. /\ writer[w].id \in 1 .. nextId - 1
      /\ \A l \in Links : l.id # writer[w].id
      /\ \A l \in Chain(c) : l.id < writer[w].id
      /\ \A v \in Writers : At(v, "commit") /\ v # w => writer[v].id # writer[w].id
  BY <1>0, <1>2 DEF ChainInv, FreshId
<1>5. /\ IsRow(row) /\ row.id = writer[w].id /\ row.event = Stored(e)
      /\ IsRow(new) /\ new.id = writer[w].id /\ new.event = e
      /\ LinkOf(new) = link /\ link.id = writer[w].id /\ link.chain = c
      /\ link.previous = writer[w].previous /\ link.hash # Null
      /\ new.event_hash = computeEventHash(new.event, new.previous_hash)
  BY <1>0, <1>3, HashNotNull DEF RowOf, IsRow, LinkOf
<1>6. /\ writer'[w].pc = pc /\ writer'[w].event = e
      /\ writer'[w].id = writer[w].id /\ writer'[w].previous = writer[w].previous
      /\ writer'[w] = [pc |-> writer'[w].pc, event |-> writer'[w].event,
                       previous |-> writer'[w].previous, id |-> writer'[w].id]
      /\ \A x \in Writers : x # w => writer'[x] = writer[x]
      /\ writer' = [x \in Writers |-> writer'[x]]
  BY <1>1 DEF Moves
<1>7. Links' = Links \cup {link}
  BY <1>2 DEF Links
<1>8. /\ Chain(c)' = Chain(c) \cup {link}
      /\ \A d : d # c => Chain(d)' = Chain(d)
  BY <1>5, <1>7 DEF Chain
<1>9. IsHead(c, writer[w].previous)
  BY <1>0, <1>2 DEF ChainInv, ReadsHead, At
<1> HIDE DEF row, new, link
<1>10. Shape'
  BY <1>2, <1>5, <1>6, FS_AddElement DEF ChainInv, Shape, IsRow
<1>11. TypeOK'
  <2>1. ASSUME NEW x \in events  PROVE x.id # writer[w].id
    <3>1. LinkOf(x) \in Links /\ LinkOf(x).id = x.id
      BY DEF Links, LinkOf
    <3> QED
      BY <1>4, <3>1
  <2>2. /\ \A x \in events' \cup appended' : x.id \in 1 .. nextId' - 1 /\ x.event \in Event
        /\ \A x, y \in events' : x.id = y.id => x = y
    BY <1>2, <1>3, <1>4, <1>5, <2>1 DEF ChainInv, TypeOK
  <2>3. /\ \A x \in Writers : writer'[x].pc \in Pcs /\ writer'[x].id \in 0 .. nextId' - 1
        /\ \A x \in Writers : writer'[x].pc # "idle" => writer'[x].event \in Events
    BY <1>2, <1>3, <1>6 DEF ChainInv, TypeOK, Pcs
  <2> QED
    BY <1>2, <2>2, <2>3 DEF ChainInv, TypeOK
<1>12. HasHead'
  <2> SUFFICES ASSUME NEW d \in Chains
               PROVE  \E h \in {Genesis} \cup {l.hash : l \in Links'} : IsHead(d, h)'
    BY DEF HasHead
  <2>1. CASE d = c
    <3>1. \A k \in Chain(c)' : k.id <= link.id
      BY <1>4, <1>5, <1>8 DEF ChainInv, TypeOK, Chain, Links, LinkOf
    <3> QED
      BY <1>7, <1>8, <2>1, <3>1 DEF IsHead
  <2>2. CASE d # c
    BY <1>7, <1>8, <2>2 DEF ChainInv, HasHead, IsHead
  <2> QED
    BY <2>1, <2>2
<1>13. \A v \in Writers : v # w /\ InTransaction(v) =>
          /\ Lock(v) # Lock(w) /\ ChainOf(writer[v].event) # c
  BY <1>0, <1>2 DEF ChainInv, LockHeld, InTransaction, At, Lock, ChainOf
<1>14. \A v \in Writers : InTransaction(v)' => v # w /\ InTransaction(v)
  BY <1>6 DEF InTransaction
<1>15. LockHeld'
  <2>1. \A v \in Writers : InTransaction(v)' => Lock(v)' = Lock(v) /\ Lock(v) \in Locks
    BY <1>6, <1>14, CallFields DEF Lock, InTransaction
  <2> QED
    BY <1>2, <1>13, <1>14, <2>1 DEF ChainInv, LockHeld, TypeOK
<1>16. ReadsHead'
  <2> SUFFICES ASSUME NEW v \in Writers, writer'[v].pc \in {"insert", "commit"}
               PROVE  IsHead(ChainOf(writer[v].event), writer[v].previous)'
    BY DEF ReadsHead
  <2>1. v # w /\ writer'[v] = writer[v] /\ ChainOf(writer[v].event) # c
    BY <1>6, <1>13, <1>14 DEF InTransaction
  <2>2. IsHead(ChainOf(writer[v].event), writer[v].previous)
    BY <2>1 DEF ChainInv, ReadsHead
  <2> QED
    BY <1>8, <2>1, <2>2 DEF IsHead
<1>17. FreshId'
  <2> SUFFICES ASSUME NEW v \in Writers, At(v, "commit")'
               PROVE  /\ writer'[v].id \in 1 .. nextId' - 1
                      /\ \A l \in Links' : l.id # writer'[v].id
                      /\ \A l \in Chain(ChainOf(writer[v].event))' : l.id < writer'[v].id
                      /\ \A x \in Writers : At(x, "commit")' /\ x # v =>
                            writer'[x].id # writer'[v].id
    BY DEF FreshId
  <2>1. /\ v # w /\ writer'[v] = writer[v] /\ At(v, "commit")
        /\ ChainOf(writer[v].event) # c
    BY <1>6, <1>13, <1>14 DEF InTransaction, At
  <2>2. \A x \in Writers : At(x, "commit")' => At(x, "commit") /\ writer'[x] = writer[x]
    BY <1>6 DEF At
  <2>3. link.id # writer[v].id
    BY <1>4, <1>5, <2>1
  <2> QED
    BY <1>2, <1>7, <1>8, <2>1, <2>2, <2>3 DEF ChainInv, FreshId
<1>18. Linked'
  <2> SUFFICES ASSUME NEW d \in Chains, NEW l \in Chain(d)'
               PROVE  \/ \E k \in Chain(d)' : Precedes(k, l, Chain(d)') /\ l.previous = k.hash
                      \/ (\A k \in Chain(d)' : k.id >= l.id) /\ l.previous = Genesis
    BY DEF Linked, Precedes
  <2>1. CASE d # c
    BY <1>8, <2>1 DEF ChainInv, Linked
  <2>2. CASE d = c /\ l # link
    <3>1. l \in Chain(c)
      BY <1>8, <2>2
    <3>2. l.id < link.id /\ \A k \in Chain(c) : k.id \in Nat
      BY <1>4, <1>5, <3>1 DEF ChainInv, TypeOK, Chain, Links, LinkOf
    <3>3. link.id \in Nat
      BY <1>4, <1>5, <1>2
    <3>4. CASE \E k \in Chain(c) : Precedes(k, l, Chain(c)) /\ l.previous = k.hash
      BY <1>8, <2>2, <3>1, <3>2, <3>3, <3>4 DEF Precedes
    <3>5. CASE (\A k \in Chain(c) : k.id >= l.id) /\ l.previous = Genesis
      BY <1>8, <2>2, <3>1, <3>2, <3>3, <3>5
    <3> QED
      BY <1>3, <3>1, <3>4, <3>5 DEF ChainInv, Linked
  <2>3. CASE d = c /\ l = link
    <3>1. /\ \A k \in Chain(c) : k.id \in Nat /\ k.id < link.id
          /\ link.id \in Nat
      BY <1>2, <1>4, <1>5 DEF ChainInv, TypeOK, Chain, Links, LinkOf
    <3>2. CASE Chain(c) = {} /\ writer[w].previous = Genesis
      BY <1>5, <1>8, <2>3, <3>1, <3>2
    <3>3. ASSUME NEW k \in Chain(c), writer[w].previous = k.hash,
                 \A x \in Chain(c) : x.id <= k.id
          PROVE  k \in Chain(c)' /\ Precedes(k, link, Chain(c)') /\ link.previous = k.hash
      BY <1>5, <1>8, <3>1, <3>3 DEF Precedes
    <3> QED
      BY <1>9, <2>3, <3>2, <3>3 DEF IsHead
  <2> QED
    BY <2>1, <2>2, <2>3
<1>19. Written'
  <2>1. \A q \in appended' : /\ q.event_hash = computeEventHash(q.event, q.previous_hash)
                             /\ LinkOf(q) \in Links'
    BY <1>2, <1>5, <1>7 DEF ChainInv, Written
  <2>2. LinkOf(row) = LinkOf(new)
    BY <1>5 DEF link
  <2>3. \A r \in events' : r.event_hash # Null => \E q \in appended' : LinkOf(q) = LinkOf(r)
    BY <1>2, <2>2 DEF ChainInv, Written
  <2> QED
    BY <2>1, <2>3 DEF Written
<1>20. Announced'
  <2>1. \A x \in Writers : RowOf(x, writer[x].event)' = RowOf(x, writer[x].event)
    BY <1>6 DEF RowOf
  <2>2. \A x \in Writers : writer'[x].pc \in {"emit", "done"} =>
          x = w \/ writer[x].pc \in {"emit", "done"}
    BY <1>6
  <2> QED
    BY <1>2, <2>1, <2>2 DEF ChainInv, Announced, new
<1> QED
  BY <1>10, <1>11, <1>12, <1>15, <1>16, <1>17, <1>18, <1>19, <1>20 DEF ChainInv

LEMMA NextInv == ChainInv /\ [Next]_vars => ChainInv'
<1> SUFFICES ASSUME ChainInv, [Next]_vars
             PROVE  ChainInv'
  OBVIOUS
<1>1. CASE \E w \in Writers :
              \/ Begin(w) \/ AcquireLock(w) \/ FetchPrevious(w) \/ Insert(w)
              \/ Commit(w) \/ QueryFails(w) \/ Rollback(w) \/ Emit(w)
  BY <1>1, BeginInv, AcquireInv, FetchInv, InsertInv, CommitInv, QueryFailsInv,
     RollbackInv, EmitInv
<1>2. CASE Crash
  BY <1>2, CrashInv
<1>3. CASE \E r \in events, m \in Storable : Edit(r, m)
  BY <1>3, EditInv
<1>4. CASE UNCHANGED vars
  <2>1. HasHead' /\ Linked' /\ Written' /\ Links' = Links
    BY <1>4, QuietTable DEF vars
  <2>2. Shape' /\ TypeOK' /\ LockHeld' /\ Announced'
    BY <1>4 DEF vars, ChainInv, Shape, IsRow, TypeOK, At, LockHeld, InTransaction,
         Lock, Announced, RowOf
  <2>3. ReadsHead' /\ FreshId'
    BY <1>4, <2>1 DEF vars, ChainInv, ReadsHead, IsHead, Chain, FreshId, At
  <2> QED
    BY <2>1, <2>2, <2>3 DEF ChainInv
<1> QED
  BY <1>1, <1>2, <1>3, <1>4 DEF Next

\* The chain's inductive invariant holds in every behaviour of the writers.
THEOREM Invariance == Spec => []ChainInv
  BY InitInv, NextInv, PTL DEF Spec

-----------------------------------------------------------------------------
(* What it means for readers of the table. *)

\* The variables of the chain keep their shape and rows their own ids.
THEOREM TypeCorrect == Spec => []TypeOK
<1>1. ChainInv => TypeOK
  BY DEF ChainInv
<1> QED
  BY <1>1, Invariance, PTL

LEMMA RowsAreLinks ==
    ASSUME NEW c
    PROVE  /\ \A r \in Hashed(c) : LinkOf(r) \in Chain(c)
           /\ \A l \in Chain(c) : \E r \in Hashed(c) : l = LinkOf(r)
  BY DEF Hashed, Rows, Chain, Links, LinkOf

LEMMA RowsAreLinked ==
    ASSUME ChainInv
    PROVE  ChainLinked
<1> SUFFICES ASSUME NEW c \in Chains, NEW r \in Hashed(c)
             PROVE  \/ \E q \in Hashed(c) : /\ Precedes(q, r, Hashed(c))
                                           /\ r.previous_hash = q.event_hash
                    \/ (\A q \in Hashed(c) : q.id >= r.id) /\ r.previous_hash = Genesis
  BY DEF ChainLinked
<1>1. LinkOf(r) \in Chain(c)
  BY RowsAreLinks
<1>2. CASE \E k \in Chain(c) : /\ Precedes(k, LinkOf(r), Chain(c))
                               /\ LinkOf(r).previous = k.hash
  <2>1. PICK k \in Chain(c) : /\ Precedes(k, LinkOf(r), Chain(c))
                              /\ LinkOf(r).previous = k.hash
    BY <1>2
  <2>2. PICK q \in Hashed(c) : k = LinkOf(q)
    BY RowsAreLinks
  <2>3. \A x \in Hashed(c) : LinkOf(x) \in Chain(c) /\ LinkOf(x).id = x.id
    BY RowsAreLinks DEF LinkOf
  <2>4. Precedes(q, r, Hashed(c))
    BY <2>1, <2>2, <2>3 DEF Precedes
  <2> QED
    BY <2>1, <2>2, <2>4 DEF LinkOf
<1>3. CASE (\A k \in Chain(c) : k.id >= LinkOf(r).id) /\ LinkOf(r).previous = Genesis
  BY <1>3, RowsAreLinks DEF LinkOf
<1> QED
  BY <1>1, <1>2, <1>3 DEF ChainInv, Linked

\* However appendAuditEvent calls interleave, fail or die, the chain of a tenant
\* and environment never forks: every hashed row is linked to the one before it.
THEOREM ChainLinkedHolds == Spec => []ChainLinked
  BY RowsAreLinked, Invariance, PTL

\* What a caller was told, and what a live subscriber saw, is in the table.
THEOREM AnnouncedIsCommittedHolds == Spec => []AnnouncedIsCommitted
<1>1. ASSUME ChainInv  PROVE AnnouncedIsCommitted
  <2>1. \A q \in appended : \E r \in events : r.id = q.id /\ r.event_hash = q.event_hash
    <3> SUFFICES ASSUME NEW q \in appended
                 PROVE  \E r \in events : r.id = q.id /\ r.event_hash = q.event_hash
      OBVIOUS
    <3>1. PICK r \in events : LinkOf(q) = LinkOf(r)
      BY <1>1 DEF ChainInv, Written, Links
    <3> QED
      BY <3>1 DEF LinkOf
  <2> QED
    BY <1>1, <2>1 DEF ChainInv, Announced, AnnouncedIsCommitted, At
<1> QED
  BY <1>1, Invariance, PTL

\* A row whose hash matches its content is the row that was appended.
LEMMA MatchMeansAsAppended ==
    ASSUME ChainInv, NEW r \in events, r.event_hash # Null, ~Mishashed(r)
    PROVE  AsAppended(r)
<1>1. PICK q \in appended : LinkOf(q) = LinkOf(r)
  BY DEF ChainInv, Written
<1>2. /\ q.id = r.id /\ q.event_hash = r.event_hash
      /\ q.previous_hash = r.previous_hash
  BY <1>1 DEF LinkOf
<1>3. computeEventHash(q.event, q.previous_hash) = computeEventHash(r.event, r.previous_hash)
  BY <1>2 DEF ChainInv, Written, Mishashed
<1> QED
  BY <1>2, <1>3, HashInjective DEF AsAppended

\* verifyAuditChain never passes a window in which a hashed row was edited.
THEOREM PassMeansUneditedHolds == Spec => []PassMeansUnedited
<1>1. ASSUME ChainInv  PROVE PassMeansUnedited
  <2> SUFFICES ASSUME NEW c \in Chains, NEW start \in Ids, NEW limit \in 1 .. MaxId,
                      verifyAuditChain(c, start, limit),
                      NEW r \in Window(c, start, limit), r.event_hash # Null
               PROVE  AsAppended(r)
    BY DEF PassMeansUnedited
  <2>1. ~Mishashed(r)
    BY DEF verifyAuditChain, Broken
  <2>2. r \in events
    BY DEF Window, Rows
  <2> QED
    BY <1>1, <2>1, <2>2, MatchMeansAsAppended
<1> QED
  BY <1>1, Invariance, PTL

\* A row that reads as it was appended has a matching hash.
LEMMA AsAppendedMeansMatch ==
    ASSUME ChainInv, NEW r \in events, AsAppended(r)
    PROVE  ~Mishashed(r)
<1>1. PICK q \in appended : q.id = r.id /\ q.event = r.event
  BY DEF AsAppended
<1>2. PICK y \in events : LinkOf(q) = LinkOf(y)
  BY DEF ChainInv, Written, Links
<1>3. y = r
  BY <1>1, <1>2 DEF LinkOf, ChainInv, TypeOK
<1>4. q.event_hash = r.event_hash /\ q.previous_hash = r.previous_hash
  BY <1>2, <1>3 DEF LinkOf
<1> QED
  BY <1>1, <1>4 DEF ChainInv, Written, Mishashed

\* With ids of one length, the row read before another in a window is the one
\* before it in the chain: a window has no holes.
LEMMA NoHoles ==
    ASSUME ChainInv, NEW c \in Chains, NEW start \in Ids, NEW limit \in 1 .. MaxId,
           \A q, r \in Rows(c) : Digits(q.id) = Digits(r.id),
           NEW p \in Rows(c), NEW r \in Window(c, start, limit),
           p.id >= start, p.id < r.id
    PROVE  p \in Window(c, start, limit)
<1> DEFINE selected == {x \in Rows(c) : x.id >= start}
           before(y) == {x \in selected : TextBefore(x.id, y.id)}
<1>1. /\ \A x \in Rows(c) : x.id \in Nat
      /\ \A x, y \in Rows(c) : TextBefore(x.id, y.id) <=> x.id < y.id
      /\ r \in Rows(c) /\ Rows(c) \subseteq events
  BY DEF Rows, ChainInv, TypeOK, Window, TextBefore
<1>2. before(p) \subseteq before(r)
  BY <1>1
<1>3. IsFiniteSet(before(r))
  BY <1>1, FS_Subset DEF ChainInv, Shape
<1>4. /\ Cardinality(before(p)) <= Cardinality(before(r))
      /\ Cardinality(before(p)) \in Nat /\ Cardinality(before(r)) \in Nat
  BY <1>2, <1>3, FS_Subset, FS_CardinalityType
<1>5. Cardinality(before(r)) < limit
  BY DEF Window
<1>6. Cardinality(before(p)) < limit
  BY <1>4, <1>5
<1> QED
  BY <1>6 DEF Window

\* verifyAuditChain passes every window of a chain whose ids have one length and
\* whose rows read as they were appended.
THEOREM UneditedPassesHolds == Spec => []UneditedPasses
<1>1. ASSUME ChainInv  PROVE UneditedPasses
  <2> SUFFICES ASSUME NEW c \in Chains, NEW start \in Ids, NEW limit \in 1 .. MaxId,
                      \A r \in Hashed(c) : AsAppended(r),
                      \A q, r \in Rows(c) : Digits(q.id) = Digits(r.id),
                      NEW r \in Window(c, start, limit), r.event_hash # Null
               PROVE  ~Mishashed(r) /\ ~Mislinked(r, Window(c, start, limit))
    BY DEF UneditedPasses, verifyAuditChain, Broken
  <2> DEFINE W == Window(c, start, limit)
  <2>1. /\ \A x \in W : x \in Rows(c) /\ x \in events /\ x.id >= start
        /\ \A x \in Rows(c) : x.id \in Nat
        /\ \A x, y \in Rows(c) : TextBefore(x.id, y.id) <=> x.id < y.id
        /\ \A x, y \in Rows(c) : x.id = y.id => x = y
    BY <1>1 DEF Window, Rows, ChainInv, TypeOK, TextBefore
  <2>2. r \in Hashed(c)
    BY <2>1 DEF Hashed
  <2>3. ~Mishashed(r)
    BY <1>1, <2>1, <2>2, AsAppendedMeansMatch
  <2>4. ASSUME NEW q \in W, ReadBefore(q, r, W), q.event_hash # Null
        PROVE  q.event_hash = r.previous_hash
    <3>1. q \in Hashed(c) /\ q.id < r.id
      BY <2>1, <2>4 DEF Hashed, ReadBefore
    <3>2. PICK p \in Hashed(c) : Precedes(p, r, Hashed(c)) /\ r.previous_hash = p.event_hash
      BY <1>1, <2>1, <2>2, <3>1, RowsAreLinked DEF ChainLinked, Hashed
    <3>3. p \in Rows(c) /\ p.id < r.id /\ q.id <= p.id
      BY <2>1, <3>1, <3>2 DEF Hashed, Precedes
    <3>4. CASE q.id = p.id
      BY <2>1, <3>2, <3>3, <3>4
    <3>5. CASE q.id < p.id
      <4>1. p \in W
        BY <1>1, <2>1, <3>3, <3>5, NoHoles DEF Ids
      <4> QED
        BY <2>1, <2>4, <3>3, <3>5, <4>1 DEF ReadBefore
    <3> QED
      BY <2>1, <3>3, <3>4, <3>5
  <2> QED
    BY <2>3, <2>4 DEF Mislinked
<1> QED
  BY <1>1, Invariance, PTL

=============================================================================
