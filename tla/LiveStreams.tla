------------------------------ MODULE LiveStreams ------------------------------
(***************************************************************************)
(* The operators' live log and the tenants' live verifications             *)
(* (src/services/log-ring-buffer.ts, src/routes/admin-logs.ts,             *)
(* src/services/verification-events.ts, their two dashboard pages).        *)
(*                                                                         *)
(* The ring keeps the last lines; a connection gets its tail, then every   *)
(* push.  The browser reconnects on its own and then gets the tail again.  *)
(* A page keeps a bounded list; the log page can be paused, and a second   *)
(* bounded list then fills.  Verification rows have no ring: what is       *)
(* committed between two connections is not shown.                         *)
(*                                                                         *)
(* Data: a log line, a verification row, is its number.                    *)
(***************************************************************************)
EXTENDS Integers, Sequences, SequencesExt

CONSTANTS
    RingSize, TailSize, \* capacity of the ring, lines replayed on connect
    PageSize,           \* lines a page keeps (MAX_BUFFER)
    Tenants,            \* tenants with verifications
    MaxLines,           \* bound: log lines, and rows of each tenant
    MaxConnects         \* bound: connections of a page

VARIABLES
    slots, head, count, \* LogRingBuffer
    pushed,             \* lines pushed since boot
    logs,               \* the log page's connection
    lines, pen, paused, \* the log page
    rows,               \* rows[t]: verification rows committed
    feed,               \* the connection of each tenant's verifications page
    events, counters    \* the verifications page of each tenant

vars == <<slots, head, count, pushed, logs, lines, pen, paused, rows, feed, events, counters>>
ringVars == <<slots, head, count, pushed>>
logPage == <<logs, lines, pen, paused>>
feedVars == <<rows, feed, events, counters>>

\* A socket: how many there have been, and the frames on their way.
Socket == [open : BOOLEAN, number : 0 .. MaxConnects, wire : Seq(Nat)]
Closed == [open |-> FALSE, number |-> 0, wire |-> <<>>]
\* authenticateAdmin wants a header that an EventSource cannot send: unless a
\* proxy adds it, the log page is refused (403) and its browser gives up.
Refused == [Closed EXCEPT !.number = MaxConnects]

Send(c, s) == IF c.open THEN [c EXCEPT !.wire = @ \o s] ELSE c

Init ==
    /\ slots = [i \in 0 .. RingSize - 1 |-> 0] /\ head = 0 /\ count = 0 /\ pushed = 0
    /\ logs \in {Closed, Refused} /\ lines = <<>> /\ pen = <<>> /\ paused = FALSE
    /\ rows = [t \in Tenants |-> 0]
    /\ feed = [t \in Tenants |-> Closed] /\ events = [t \in Tenants |-> <<>>]
    /\ counters = [t \in Tenants |-> 0]

\* The last n of a sequence: slice(-n).
Newest(s, n) == SubSeq(s, IF Len(s) > n THEN Len(s) - n + 1 ELSE 1, Len(s))

-----------------------------------------------------------------------------
(* The ring *)

Counted(c) == IF c < RingSize THEN c + 1 ELSE c

push ==
    /\ pushed < MaxLines /\ pushed' = pushed + 1
    /\ slots' = [slots EXCEPT ![head] = pushed + 1]
    /\ head' = (head + 1) % RingSize
    /\ count' = Counted(count)
    /\ logs' = Send(logs, <<pushed + 1>>)
    /\ UNCHANGED <<lines, pen, paused, feedVars>>

TailFromOldest(n) ==
    [i \in 1 .. IF n < count THEN n ELSE count |->
        slots[(head - count + RingSize + i - 1) % RingSize]]

tail(n) ==
    LET take  == IF n < count THEN n ELSE count
        start == (head - count + RingSize) % RingSize
    IN [i \in 1 .. take |-> slots[(start + count - take + i - 1) % RingSize]]

-----------------------------------------------------------------------------
(* The log stream and its page *)

\* The tail and the subscription are taken in one turn of the event loop.
OpenLogs ==
    /\ ~logs.open /\ logs.number < MaxConnects
    /\ logs' = [open |-> TRUE, number |-> logs.number + 1, wire |-> tail(TailSize)]
    /\ UNCHANGED <<ringVars, lines, pen, paused, feedVars>>

DropLogs ==
    /\ logs.open
    /\ logs' = [logs EXCEPT !.open = FALSE, !.wire = <<>>]
    /\ UNCHANGED <<ringVars, lines, pen, paused, feedVars>>

\* The page's list and pen, told apart by the connection that brought the line.
OnLog ==
    /\ logs.wire # <<>>
    /\ LET line == [conn |-> logs.number, line |-> Head(logs.wire)] IN
          IF paused
          THEN pen' = Newest(Append(pen, line), PageSize) /\ UNCHANGED lines
          ELSE lines' = Newest(Append(lines, line), PageSize) /\ UNCHANGED pen
    /\ logs' = [logs EXCEPT !.wire = Tail(@)]
    /\ UNCHANGED <<ringVars, paused, feedVars>>

Flushed == Newest(lines \o pen, PageSize)

SetPaused ==
    /\ paused' = ~paused
    /\ lines' = IF paused THEN Flushed ELSE lines
    /\ pen' = IF paused THEN <<>> ELSE pen
    /\ UNCHANGED <<ringVars, logs, feedVars>>

Clear ==
    /\ lines \o pen # <<>> /\ lines' = <<>> /\ pen' = <<>>
    /\ UNCHANGED <<ringVars, logs, paused, feedVars>>

\* The server starts again: an empty ring, no connection, and numbers that go on.
Restart ==
    /\ slots' = [i \in 0 .. RingSize - 1 |-> 0] /\ head' = 0 /\ count' = 0
    /\ logs' = [logs EXCEPT !.open = FALSE, !.wire = <<>>]
    /\ feed' = [t \in Tenants |-> [feed[t] EXCEPT !.open = FALSE, !.wire = <<>>]]
    /\ UNCHANGED <<pushed, lines, pen, paused, rows, events, counters>>

-----------------------------------------------------------------------------
(* Verifications: emitVerificationEvent, after the audit row's COMMIT *)

emitVerificationEvent(t) ==
    /\ rows[t] < MaxLines
    /\ rows' = [rows EXCEPT ![t] = @ + 1]
    /\ feed' = [feed EXCEPT ![t] = Send(@, <<rows[t] + 1>>)]
    /\ UNCHANGED <<ringVars, logPage, events, counters>>

OpenFeed(t) ==
    /\ ~feed[t].open /\ feed[t].number < MaxConnects
    /\ feed' = [feed EXCEPT ![t] =
                   [open |-> TRUE, number |-> feed[t].number + 1, wire |-> <<>>]]
    /\ UNCHANGED <<ringVars, logPage, rows, events, counters>>

DropFeed(t) ==
    /\ feed[t].open
    /\ feed' = [feed EXCEPT ![t] = [@ EXCEPT !.open = FALSE, !.wire = <<>>]]
    /\ UNCHANGED <<ringVars, logPage, rows, events, counters>>

\* The newest row first.
OnVerification(t) ==
    /\ feed[t].wire # <<>>
    /\ LET grown == <<Head(feed[t].wire)>> \o events[t] IN
          events' = [events EXCEPT ![t] =
                        SubSeq(grown, 1, IF Len(grown) < PageSize THEN Len(grown) ELSE PageSize)]
    /\ counters' = [counters EXCEPT ![t] = @ + 1]
    /\ feed' = [feed EXCEPT ![t] = [@ EXCEPT !.wire = Tail(feed[t].wire)]]
    /\ UNCHANGED <<ringVars, logPage, rows>>

NextLogs == push \/ OpenLogs \/ DropLogs \/ OnLog \/ SetPaused \/ Clear \/ Restart

NextFeed ==
    \E t \in Tenants :
       emitVerificationEvent(t) \/ OpenFeed(t) \/ DropFeed(t) \/ OnVerification(t) \/ Restart

Next == NextLogs \/ NextFeed

-----------------------------------------------------------------------------
(* Properties *)

TypeOK ==
    /\ slots \in [0 .. RingSize - 1 -> 0 .. MaxLines]
    /\ head \in 0 .. RingSize - 1 /\ count \in 0 .. RingSize /\ pushed \in 0 .. MaxLines
    /\ logs \in Socket /\ feed \in [Tenants -> Socket]
    /\ Len(lines) <= PageSize /\ Len(pen) <= PageSize /\ paused \in BOOLEAN
    /\ counters \in [Tenants -> 0 .. MaxLines]

\* Whatever was paused, flushed, cut or cleared, the lines one connection brought
\* stand on the log page in order and without a hole, now and on a resume, and a
\* new connection's begin after them: lines lost to a full pen are never lost from
\* the middle (live-logs.tsx:95-135, admin-logs.ts:88-140, log-ring-buffer.ts:121-190).
LogsHaveNoHole ==
    \A shown \in {lines, Flushed} :
       \A i \in 1 .. Len(shown) - 1 :
          \/ shown[i].conn < shown[i + 1].conn
          \/ /\ shown[i].conn = shown[i + 1].conn
             /\ shown[i + 1].line = shown[i].line + 1

\* The verifications page shows the newest of the rows it counted, each once and
\* newest first, whatever reconnections it had (verifications.tsx:107-132).
FeedShowsNewest ==
    \A t \in Tenants :
       /\ Len(events[t]) = (IF counters[t] < PageSize THEN counters[t] ELSE PageSize)
       /\ \A i \in 1 .. Len(events[t]) - 1 : events[t][i] > events[t][i + 1]

PagesInOrder == LogsHaveNoHole /\ FeedShowsNewest
=============================================================================
