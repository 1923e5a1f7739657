-------------------------------- MODULE Metering --------------------------------
(***************************************************************************)
(* What a call of the /v1 API passes on its way in, and what is written    *)
(* when it is answered (src/middleware/{tenant-auth,rate-limit}.ts,        *)
(* src/services/usage.ts): the window counter of the process, the monthly  *)
(* quota, the shared window of the verify route, and two statements that   *)
(* nobody waits for.                                                       *)
(*                                                                         *)
(* Data: one tenant with one active key, whose scopes suffice.             *)
(***************************************************************************)
EXTENDS Integers, FiniteSets

CONSTANTS
    Calls,          \* calls under way
    RateLimit,      \* tenants.rate_limit, per process and window
    Quota,          \* tenants.monthly_quota
    WindowMax,      \* max of the verify route's shared window
    MaxCalls,       \* bound: calls
    MaxTurns        \* bound: turns of the month, windows and restarts together

VARIABLES
    rate,           \* rateLimitWindows: calls in the process's window
    month,          \* the month of the database's clock
    used,           \* usage_monthly.total_requests of that month
    earlier,        \* the same, of the months before
    logs,           \* rows of usage_logs
    window,         \* the shared window the clock is in
    buckets,        \* rate_limit_buckets: count of each window that has a row
    call,           \* calls
    admitted,       \* history: passes of the shared window within its time
    peak,           \* history: most calls at once between quota and count
    answered,       \* history: answers finished
    lost,           \* history: a statement failed, or a process stopped
    started, turns  \* bounds

vars == <<rate, month, used, earlier, logs, window, buckets, call, admitted, peak,
          answered, lost, started, turns>>
meters == <<used, earlier, logs>>
clock == <<month, window, turns>>
Idle == [step |-> "idle"]
Windows == 1 .. MaxTurns + 1

Init ==
    /\ rate = 0 /\ month = 1 /\ used = 0 /\ earlier = 0 /\ logs = 0
    /\ window = 1 /\ buckets = [w \in Windows |-> 0] /\ call = [c \in Calls |-> Idle]
    /\ admitted = 0 /\ peak = 0 /\ answered = 0 /\ lost = FALSE /\ started = 0 /\ turns = 0

\* Calls the quota let through that the month has not counted.
Uncounted(calls) == Cardinality({c \in Calls : \/ calls[c].step \in {"limit", "upsert", "handler"}
                                               \/ calls[c].step = "writing" /\ "month" \in calls[c].todo})
Became(c, r) == call' = [call EXCEPT ![c] = r]

-----------------------------------------------------------------------------
(* The way in *)

\* authenticateTenantApiKey up to its await: the key is good, the window counts first.
authenticateTenantApiKey(c, route) ==
    /\ call[c] = Idle /\ started < MaxCalls /\ started' = started + 1
    /\ rate' = rate + 1
    /\ Became(c, IF rate' > RateLimit THEN Idle ELSE [step |-> "quota", route |-> route])
    /\ UNCHANGED <<meters, clock, buckets, admitted, peak, answered, lost>>

\* A fixed window: the first call after its end starts the next.
RateWindowEnds ==
    /\ rate > 0 /\ turns < MaxTurns /\ turns' = turns + 1 /\ rate' = 0
    /\ UNCHANGED <<meters, month, window, buckets, call, admitted, peak, answered, lost, started>>

AdmitsOneMore(n) == n <= Quota
Admits(n) == n < Quota

checkQuota(c) ==
    /\ call[c].step = "quota"
    /\ Became(c, IF ~Admits(used) THEN Idle
                 ELSE [call[c] EXCEPT !.step = IF call[c].route = "verify" THEN "limit" ELSE "handler"])
    /\ peak' = IF Uncounted(call') > peak THEN Uncounted(call') ELSE peak
    /\ UNCHANGED <<rate, meters, clock, buckets, admitted, answered, lost, started>>

\* The bucket's key is of the time the request is looked at.
bucketKey(c) ==
    /\ call[c].step = "limit"
    /\ Became(c, [step |-> "upsert", route |-> "verify", window |-> window])
    /\ UNCHANGED <<rate, meters, clock, buckets, admitted, peak, answered, lost, started>>

\* A 429 is an answer like others: it finishes, and is counted.
pgRateLimit(c) ==
    /\ call[c].step = "upsert"
    /\ LET w == call[c].window IN
       /\ buckets' = [buckets EXCEPT ![w] = @ + 1]
       /\ admitted' = IF buckets'[w] <= WindowMax /\ w = window THEN admitted + 1 ELSE admitted
    /\ Became(c, [step |-> "handler", route |-> "verify"])
    /\ UNCHANGED <<rate, meters, clock, peak, answered, lost, started>>

\* The database does not answer: the request passes.
FailsOpen(c) ==
    /\ call[c].step = "upsert"
    /\ Became(c, [step |-> "handler", route |-> "verify"])
    /\ UNCHANGED <<rate, meters, clock, buckets, admitted, peak, answered, lost, started>>

CleanupAll == buckets' = [w \in Windows |-> 0]
CleanupExpired == buckets' = [w \in Windows |-> IF w < window THEN 0 ELSE buckets[w]]

cleanupRateLimitBuckets ==
    /\ CleanupExpired
    /\ UNCHANGED <<rate, meters, clock, call, admitted, peak, answered, lost, started>>

-----------------------------------------------------------------------------
(* The answer, and the two statements of logApiCall *)

Finish(c) ==
    /\ call[c].step = "handler"
    /\ Became(c, [step |-> "writing", route |-> call[c].route, todo |-> {"log", "month"}])
    /\ answered' = answered + 1
    /\ UNCHANGED <<rate, meters, clock, buckets, admitted, peak, lost, started>>

Done(c, what) ==
    /\ call[c].step = "writing" /\ what \in call[c].todo
    /\ Became(c, IF call[c].todo = {what} THEN Idle ELSE [call[c] EXCEPT !.todo = @ \ {what}])

LogLands(c) ==
    /\ Done(c, "log") /\ logs' = logs + 1
    /\ UNCHANGED <<rate, used, earlier, clock, buckets, admitted, peak, answered, lost, started>>

\* A route without a column of its own names total_requests twice, which the
\* database refuses; the error is swallowed.
MonthLands(c) ==
    /\ Done(c, "month")
    /\ used' = IF call[c].route = "verify" THEN used + 1 ELSE used
    /\ UNCHANGED <<rate, earlier, logs, clock, buckets, admitted, peak, answered, lost, started>>

WriteFails(c) ==
    /\ \E what \in {"log", "month"} : Done(c, what)
    /\ lost' = TRUE
    /\ UNCHANGED <<rate, meters, clock, buckets, admitted, peak, answered, started>>

\* The client goes away before the answer is written: 'finish' never fires.
ClientLeaves(c) ==
    /\ call[c].step \in {"quota", "limit", "upsert", "handler"}
    /\ Became(c, Idle)
    /\ UNCHANGED <<rate, meters, clock, buckets, admitted, peak, answered, lost, started>>

-----------------------------------------------------------------------------
(* Clocks and restarts *)

Turn == turns < MaxTurns /\ turns' = turns + 1

NextMonth ==
    /\ Turn /\ month' = month + 1 /\ earlier' = earlier + used /\ used' = 0
    /\ UNCHANGED <<rate, logs, window, buckets, call, admitted, peak, answered, lost, started>>

NextWindow ==
    /\ Turn /\ window' = window + 1 /\ admitted' = 0
    /\ UNCHANGED <<rate, meters, month, buckets, call, peak, answered, lost, started>>

Restart ==
    /\ Turn /\ rate' = 0 /\ call' = [c \in Calls |-> Idle]
    /\ lost' = (lost \/ \E c \in Calls : call[c].step = "writing")
    /\ UNCHANGED <<meters, month, window, buckets, admitted, peak, answered, started>>

Next ==
    \/ \E c \in Calls :
          \/ \E route \in {"verify", "other"} : authenticateTenantApiKey(c, route)
          \/ checkQuota(c) \/ bucketKey(c) \/ pgRateLimit(c) \/ FailsOpen(c) \/ Finish(c)
          \/ LogLands(c) \/ MonthLands(c) \/ WriteFails(c) \/ ClientLeaves(c)
    \/ RateWindowEnds \/ cleanupRateLimitBuckets \/ NextMonth \/ NextWindow \/ Restart

-----------------------------------------------------------------------------
(* Properties *)

TypeOK ==
    /\ {rate, used, earlier, logs, admitted, peak, answered} \subseteq 0 .. MaxCalls
    /\ month \in Windows /\ window \in Windows /\ buckets \in [Windows -> 0 .. MaxCalls]
    /\ \A c \in Calls : call[c].step \in {"idle", "quota", "limit", "upsert", "handler", "writing"}

\* The quota is read before the call is counted: a month counts, and is about to
\* count, more than the quota by what was let through at once, never by more
\* (tenant-auth.ts:104-134, usage.ts:96-113).
QuotaNearlyHolds == peak > 0 => used + Uncounted(call) <= Quota - 1 + peak

\* Within the time of a shared window no more than its maximum pass the counter,
\* whatever clean-ups, restarts and late upserts do (rate-limit.ts:106-179).
WindowHolds == admitted <= WindowMax

\* Nothing is logged or counted that was not answered.
CountsAreAnswers == logs <= answered /\ earlier + used <= answered

MetersHold == QuotaNearlyHolds /\ WindowHolds /\ CountsAreAnswers

\* Once every statement has run, the monthly aggregate has every answered call
\* ("Also bump the monthly aggregate", usage.ts:27).
CallsAreCounted ==
    ~lost /\ (\A c \in Calls : call[c].step # "writing") => earlier + used = answered
=============================================================================
