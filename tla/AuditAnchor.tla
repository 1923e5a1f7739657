------------------------------ MODULE AuditAnchor ------------------------------
(***************************************************************************)
(* The daily anchor of one audit chain (src/services/anchor-job.ts,        *)
(* contracts/AuditAnchor.sol) and the evidence pack that prints its state  *)
(* (src/services/compliance-pack.ts, src/routes/console-compliance.ts).    *)
(*                                                                         *)
(* AuditChain appends the rows.  What the anchor adds is time: created_at  *)
(* is when a row's transaction began, so a row may join the chain days     *)
(* after rows that call themselves younger.  The job reads one day with    *)
(* one statement, stages a transaction, and leaves a row of its own; an    *)
(* external broadcaster sends what was staged, in any order and perhaps    *)
(* twice; the contract takes the first anchor of a day.                    *)
(*                                                                         *)
(* Data: a row is its created_at day; its place in chain is its id and its *)
(* hash.  Ids have one length: AuditChain shows what reading them back as  *)
(* text does otherwise.                                                    *)
(***************************************************************************)
EXTENDS Integers, Sequences, FiniteSets

CONSTANTS
    Jobs,       \* runs of the anchor job
    ChainLimits, \* chain_limit of a pack's query, or the service's 100000
    MaxDay,     \* bound: days
    MaxRows,    \* bound: rows of the chain
    MaxOpen     \* bound: append transactions under way

VARIABLES
    today,
    chain,      \* chain[i]: the created_at day of row i
    open,       \* open[d]: append transactions that began on day d
    job,        \* job[j]: a run of runDailyAnchorJob for this chain
    staged,     \* payloads handed to the broadcaster
    anchors,    \* days in audit_anchors
    recorded,   \* the contract's records
    pack        \* renderCompliancePack

vars == <<today, chain, open, job, staged, anchors, recorded, pack>>

Days == 1..MaxDay
Payload == [day : Days, terminal : 1..MaxRows, count : 1..MaxRows]
NoPayload == [day |-> 1, terminal |-> 1, count |-> 1]
Job == [pc : {"idle", "check", "audit", "done"}, payload : Payload]
Pack == [pc : {"idle", "tail", "replay", "render", "done"}, total : 0..MaxRows, head : 0..MaxRows,
         replayed : 0..MaxRows, limit : ChainLimits \cup {0}]

Init ==
    /\ today = 1 /\ chain = <<>> /\ open = [d \in Days |-> 0]
    /\ job = [j \in Jobs |-> [pc |-> "idle", payload |-> NoPayload]]
    /\ staged = {} /\ anchors = {} /\ recorded = {}
    /\ pack = [pc |-> "idle", total |-> 0, head |-> 0, replayed |-> 0, limit |-> 0]

RowsOfDay(d) == {i \in 1..Len(chain) : chain[i] = d}
Last(rows) == CHOOSE i \in rows : \A k \in rows : k <= i

-----------------------------------------------------------------------------
(* The chain grows under the job *)

Midnight ==
    /\ today < MaxDay /\ today' = today + 1
    /\ UNCHANGED <<chain, open, job, staged, anchors, recorded, pack>>

\* BEGIN fixes NOW(), and with it created_at.
BeginAppend ==
    /\ open[today] < MaxOpen
    /\ open' = [open EXCEPT ![today] = @ + 1]
    /\ UNCHANGED <<today, chain, job, staged, anchors, recorded, pack>>

CommitAppend(d) ==
    /\ open[d] > 0 /\ Len(chain) < MaxRows
    /\ open' = [open EXCEPT ![d] = @ - 1]
    /\ chain' = Append(chain, d)
    /\ UNCHANGED <<today, job, staged, anchors, recorded, pack>>

-----------------------------------------------------------------------------
(* runDailyAnchorJob, for a tenant with an anchor provider *)

TerminalByDay(d) == Len(chain)

\* rn = 1 of ORDER BY id DESC within the day.
Terminal(d) == Last(RowsOfDay(d))

\* One statement counts the day's rows and takes the last; no row, no anchor.
ComputeDailyAnchorPayload(j, d) ==
    /\ job[j].pc = "idle" /\ d < today
    /\ job' = IF RowsOfDay(d) = {} THEN [job EXCEPT ![j] = [@ EXCEPT !.pc = "done"]]
              ELSE [job EXCEPT ![j] = [pc |-> "check",
                      payload |-> [day |-> d, terminal |-> Terminal(d),
                                   count |-> Cardinality(RowsOfDay(d))]]]
    /\ UNCHANGED <<today, chain, open, staged, anchors, recorded, pack>>

\* hasExistingAnchor, read after the payload; then the staging.
Stage(j) ==
    /\ job[j].pc = "check"
    /\ IF job[j].payload.day \in anchors
       THEN job' = [job EXCEPT ![j] = [@ EXCEPT !.pc = "done"]] /\ UNCHANGED staged
       ELSE /\ job' = [job EXCEPT ![j] = [@ EXCEPT !.pc = "audit"]]
            /\ staged' = staged \cup {job[j].payload}
    /\ UNCHANGED <<today, chain, open, anchors, recorded, pack>>

\* The job's own row joins the chain it has just summarised, or its append
\* fails: an error in the report, and the transaction stays staged.
SelfAudit(j) ==
    /\ job[j].pc = "audit"
    /\ \/ Len(chain) < MaxRows /\ chain' = Append(chain, today)
       \/ UNCHANGED chain
    /\ job' = [job EXCEPT ![j] = [@ EXCEPT !.pc = "done"]]
    /\ UNCHANGED <<today, open, staged, anchors, recorded, pack>>

\* A query fails before the staging.
JobFails(j) ==
    /\ job[j].pc = "check"
    /\ job' = [job EXCEPT ![j] = [@ EXCEPT !.pc = "done"]]
    /\ UNCHANGED <<today, chain, open, staged, anchors, recorded, pack>>

-----------------------------------------------------------------------------
(* The contract and the broadcaster in front of it *)

\* recordAnchor: write once for a day, or AlreadyAnchored.
RecordAnchor(p) ==
    recorded' = IF \E r \in recorded : r.day = p.day THEN recorded ELSE recorded \cup {p}

Broadcast(p) ==
    /\ p \in staged /\ RecordAnchor(p)
    /\ UNCHANGED <<today, chain, open, job, staged, anchors, pack>>

\* Nothing in the repository writes audit_anchors yet; the broadcaster is to.
Confirm(d) ==
    /\ d \notin anchors /\ \E r \in recorded : r.day = d
    /\ anchors' = anchors \cup {d}
    /\ UNCHANGED <<today, chain, open, job, staged, recorded, pack>>

-----------------------------------------------------------------------------
(* renderCompliancePack: a count, the rows at both ends, a replay *)

\* The query's chain_limit comes with the call.
CountRows(l) ==
    /\ pack.pc = "idle" /\ Len(chain) > 0
    /\ pack' = [pack EXCEPT !.pc = "tail", !.total = Len(chain), !.limit = l]
    /\ UNCHANGED <<today, chain, open, job, staged, anchors, recorded>>

\* currentHead is the last row of the tail.
ReadTail ==
    /\ pack.pc = "tail"
    /\ pack' = [pack EXCEPT !.pc = "replay", !.head = Len(chain)]
    /\ UNCHANGED <<today, chain, open, job, staged, anchors, recorded>>

Capped(n) == IF n < pack.limit THEN n ELSE pack.limit

\* Mutant: the replay stops at the rows counted before.
ReplaySnapshot == Capped(pack.total)

\* The first LIMIT rows of the chain as it is now.
ReplayedRows == Capped(Len(chain))

Replay ==
    /\ pack.pc = "replay"
    /\ pack' = [pack EXCEPT !.pc = "render", !.replayed = ReplayedRows]
    /\ UNCHANGED <<today, chain, open, job, staged, anchors, recorded>>

\* The handler sends the pack, and does not wait for its own audit row.
Render ==
    /\ pack.pc = "render" /\ pack' = [pack EXCEPT !.pc = "done"]
    /\ \/ open[today] < MaxOpen /\ open' = [open EXCEPT ![today] = @ + 1]
       \/ UNCHANGED open
    /\ UNCHANGED <<today, chain, job, staged, anchors, recorded>>

Next ==
    \/ Midnight \/ BeginAppend
    \/ \E d \in Days : CommitAppend(d) \/ Confirm(d)
    \/ \E j \in Jobs :
          \/ \E d \in Days : ComputeDailyAnchorPayload(j, d)
          \/ Stage(j) \/ SelfAudit(j) \/ JobFails(j)
    \/ \E p \in staged : Broadcast(p)
    \/ \E l \in ChainLimits : CountRows(l)
    \/ ReadTail \/ Replay \/ Render

-----------------------------------------------------------------------------
(* Properties *)

TypeOK ==
    /\ today \in Days /\ chain \in Seq(Days) /\ Len(chain) <= MaxRows
    /\ open \in [Days -> 0..MaxOpen]
    /\ job \in [Jobs -> Job]
    /\ staged \subseteq Payload /\ recorded \subseteq staged /\ anchors \subseteq Days
    /\ pack \in Pack

\* A replay of the chain up to an anchor's terminal row finds the number of
\* rows of the day that the anchor says, although rows of that day may join
\* the chain later, two runs may stage different payloads for one day, and
\* only one of them is recorded (anchor-job.ts:187-207, AuditAnchor.sol:67-79).
AnchorReplays ==
    /\ \A r \in recorded :
          /\ chain[r.terminal] = r.day
          /\ r.count = Cardinality({i \in RowsOfDay(r.day) : i <= r.terminal})
    /\ \A r, q \in recorded : r.day = q.day => r = q

\* The head a pack prints is no older than its count, and the replay behind its
\* verdict reaches that head or has spent the limit of the call, however the
\* chain grows between the queries (compliance-pack.ts:181-226, 385-400).
PackReplaysItsHead ==
    pack.pc = "done" =>
        /\ pack.total <= pack.head
        /\ pack.head <= pack.replayed \/ pack.replayed = pack.limit
=============================================================================
