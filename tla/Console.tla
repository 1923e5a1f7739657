-------------------------------- MODULE Console --------------------------------
(***************************************************************************)
(* The console and the pages: tenant records, console accounts, metering,  *)
(* the security policy, webhooks, the demo bank's sign-in, the signup      *)
(* pages and the pairing pages.  They share no state: each behaviour runs  *)
(* the one that focus names, and the variables of the others are Off.      *)
(* Services adds the services.                                             *)
(***************************************************************************)
EXTENDS Integers, FiniteSets

CONSTANTS
    Parts,          \* the components that may run
    None, Off,
    Requests,       \* handlers, calls, claims, polls, jobs: what runs concurrently
    Ids,            \* links, webhooks, sessions, flows, registrations
    Scopes,         \* tenants with environments; toggles; fingers
    Tenants,        \* tenants; external ids
    Times, ListLimit, MaxRecords, MaxEvents,                    \* TenantRecords
    MaxKeys, KeyCap,                                            \* ConsoleAccounts
    RateLimit, Quota, WindowMax, MaxCalls, MaxTurns,            \* Metering
    Values, Default, MaxWrites,                                 \* SecurityPolicy
    WebhookCap                                                  \* Webhooks

VARIABLES
    focus,
    e_devices, e_users, e_verifications, e_attendance, e_updates, e_terminal,
    u_parked, u_account, u_key, u_call, u_failed, u_cookie, u_reveal, u_token, u_asking,
    u_page,
    m_rate, m_month, m_used, m_earlier, m_logs, m_window, m_buckets, m_call, m_admitted,
    m_peak, m_answered, m_lost, m_started, m_turns,
    y_policy, y_call, y_audited, y_data, y_draft, y_fetch, y_last, y_undone,
    y_version, y_unlogged, y_writes,
    w_rows, w_gone, w_call, w_cache, w_fetch, w_errored, w_toggle, w_removing, w_unseen,
    d_row, d_bind, d_claimTok, d_audited, d_claim, d_submit, d_claimCookie, d_cookie,
    d_creating, d_page, d_stream, d_asking, d_user, d_ends,
    g_step, g_abandoned, g_opening, g_signup, g_signupPoll, g_operator, g_opPoll,
    g_phone,
    q_row, q_creating, q_page, q_stream, q_submit, q_token

E == INSTANCE TenantRecords WITH
        ExternalIds <- Tenants, MaxRows <- MaxRecords, devices <- e_devices, users <- e_users,
        verifications <- e_verifications, attendance <- e_attendance,
        updates <- e_updates, terminal <- e_terminal
U == INSTANCE ConsoleAccounts WITH
        Links <- Ids, Calls <- Requests,
        parked <- u_parked, account <- u_account, key <- u_key, call <- u_call,
        failed <- u_failed, cookie <- u_cookie, reveal <- u_reveal, token <- u_token,
        asking <- u_asking, page <- u_page
M == INSTANCE Metering WITH
        Calls <- Requests, rate <- m_rate, month <- m_month, used <- m_used,
        earlier <- m_earlier, logs <- m_logs, window <- m_window, buckets <- m_buckets,
        call <- m_call, admitted <- m_admitted, peak <- m_peak, answered <- m_answered,
        lost <- m_lost, started <- m_started, turns <- m_turns
Y == INSTANCE SecurityPolicy WITH
        Calls <- Requests,
        policy <- y_policy, call <- y_call, audited <- y_audited, data <- y_data,
        draft <- y_draft, fetch <- y_fetch, last <- y_last, undone <- y_undone,
        version <- y_version, unlogged <- y_unlogged, writes <- y_writes
W == INSTANCE Webhooks WITH
        Calls <- Requests, Toggles <- Scopes, Cap <- WebhookCap,
        rows <- w_rows, gone <- w_gone, call <- w_call, cache <- w_cache,
        fetch <- w_fetch, errored <- w_errored, toggle <- w_toggle,
        removing <- w_removing, unseen <- w_unseen
D == INSTANCE DemoPortal WITH
        Sessions <- Ids, Claims <- Requests, row <- d_row, bind <- d_bind,
        claimTok <- d_claimTok, audited <- d_audited, claim <- d_claim,
        submit <- d_submit, claimCookie <- d_claimCookie, cookie <- d_cookie,
        creating <- d_creating, page <- d_page, stream <- d_stream, asking <- d_asking,
        user <- d_user, ends <- d_ends
G == INSTANCE SignupPages WITH
        Sessions <- Ids, Polls <- Requests, step <- g_step,
        abandoned <- g_abandoned, opening <- g_opening, signup <- g_signup,
        signupPoll <- g_signupPoll, operator <- g_operator, opPoll <- g_opPoll,
        phone <- g_phone
Q == INSTANCE PairingPages WITH
        Sessions <- Ids, row <- q_row, creating <- q_creating, page <- q_page,
        stream <- q_stream, submit <- q_submit, token <- q_token

e_vars == <<e_devices, e_users, e_verifications, e_attendance, e_updates, e_terminal>>
u_vars == <<u_parked, u_account, u_key, u_call, u_failed, u_cookie, u_reveal, u_token,
            u_asking, u_page>>
m_vars == <<m_rate, m_month, m_used, m_earlier, m_logs, m_window, m_buckets, m_call,
            m_admitted, m_peak, m_answered, m_lost, m_started, m_turns>>
y_vars == <<y_policy, y_call, y_audited, y_data, y_draft, y_fetch, y_last, y_undone,
            y_version, y_unlogged, y_writes>>
w_vars == <<w_rows, w_gone, w_call, w_cache, w_fetch, w_errored, w_toggle, w_removing,
            w_unseen>>
d_vars == <<d_row, d_bind, d_claimTok, d_audited, d_claim, d_submit, d_claimCookie,
            d_cookie, d_creating, d_page, d_stream, d_asking, d_user, d_ends>>
g_vars == <<g_step, g_abandoned, g_opening, g_signup, g_signupPoll, g_operator, g_opPoll,
            g_phone>>
q_vars == <<q_row, q_creating, q_page, q_stream, q_submit, q_token>>

consoleVars == <<e_vars, u_vars, m_vars, y_vars, w_vars, d_vars, g_vars, q_vars>>

e_off ==
    /\ e_devices = Off /\ e_users = Off /\ e_verifications = Off /\ e_attendance = Off
    /\ e_updates = Off /\ e_terminal = Off
u_off ==
    /\ u_parked = Off /\ u_account = Off /\ u_key = Off /\ u_call = Off
    /\ u_failed = Off /\ u_cookie = Off /\ u_reveal = Off /\ u_token = Off
    /\ u_asking = Off /\ u_page = Off
m_off ==
    /\ m_rate = Off /\ m_month = Off /\ m_used = Off /\ m_earlier = Off /\ m_logs = Off
    /\ m_window = Off /\ m_buckets = Off /\ m_call = Off /\ m_admitted = Off
    /\ m_peak = Off /\ m_answered = Off /\ m_lost = Off /\ m_started = Off
    /\ m_turns = Off
y_off ==
    /\ y_policy = Off /\ y_call = Off /\ y_audited = Off /\ y_data = Off
    /\ y_draft = Off /\ y_fetch = Off /\ y_last = Off /\ y_undone = Off
    /\ y_version = Off /\ y_unlogged = Off /\ y_writes = Off
w_off ==
    /\ w_rows = Off /\ w_gone = Off /\ w_call = Off /\ w_cache = Off /\ w_fetch = Off
    /\ w_errored = Off /\ w_toggle = Off /\ w_removing = Off /\ w_unseen = Off
d_off ==
    /\ d_row = Off /\ d_bind = Off /\ d_claimTok = Off /\ d_audited = Off
    /\ d_claim = Off /\ d_submit = Off /\ d_claimCookie = Off /\ d_cookie = Off
    /\ d_creating = Off /\ d_page = Off /\ d_stream = Off /\ d_asking = Off
    /\ d_user = Off /\ d_ends = Off
g_off ==
    /\ g_step = Off /\ g_abandoned = Off /\ g_opening = Off /\ g_signup = Off
    /\ g_signupPoll = Off /\ g_operator = Off /\ g_opPoll = Off /\ g_phone = Off
q_off ==
    /\ q_row = Off /\ q_creating = Off /\ q_page = Off /\ q_stream = Off
    /\ q_submit = Off /\ q_token = Off

ConsoleInit ==
    /\ IF focus = "records" THEN E!Init ELSE e_off
    /\ IF focus = "accounts" THEN U!Init ELSE u_off
    /\ IF focus = "meters" THEN M!Init ELSE m_off
    /\ IF focus = "policy" THEN Y!Init ELSE y_off
    /\ IF focus = "webhooks" THEN W!Init ELSE w_off
    /\ IF focus = "portal" THEN D!Init ELSE d_off
    /\ IF focus = "signup" THEN G!Init ELSE g_off
    /\ IF focus = "waiting" THEN Q!Init ELSE q_off

ConsoleNext ==
    \/ focus = "records" /\ E!Next
       /\ UNCHANGED <<focus, u_vars, m_vars, y_vars, w_vars, d_vars, g_vars, q_vars>>
    \/ focus = "accounts" /\ U!Next
       /\ UNCHANGED <<focus, e_vars, m_vars, y_vars, w_vars, d_vars, g_vars, q_vars>>
    \/ focus = "meters" /\ M!Next
       /\ UNCHANGED <<focus, e_vars, u_vars, y_vars, w_vars, d_vars, g_vars, q_vars>>
    \/ focus = "policy" /\ Y!Next
       /\ UNCHANGED <<focus, e_vars, u_vars, m_vars, w_vars, d_vars, g_vars, q_vars>>
    \/ focus = "webhooks" /\ W!Next
       /\ UNCHANGED <<focus, e_vars, u_vars, m_vars, y_vars, d_vars, g_vars, q_vars>>
    \/ focus = "portal" /\ D!Next
       /\ UNCHANGED <<focus, e_vars, u_vars, m_vars, y_vars, w_vars, g_vars, q_vars>>
    \/ focus = "signup" /\ G!Next
       /\ UNCHANGED <<focus, e_vars, u_vars, m_vars, y_vars, w_vars, d_vars, q_vars>>
    \/ focus = "waiting" /\ Q!Next
       /\ UNCHANGED <<focus, e_vars, u_vars, m_vars, y_vars, w_vars, d_vars, g_vars>>

-----------------------------------------------------------------------------
(* Properties: those of the modules, of the component that runs *)

\* Every component keeps to its types.
ConsoleTypesOK ==
    /\ focus = "records" => E!TypeOK
    /\ focus = "accounts" => U!TypeOK
    /\ focus = "meters" => M!TypeOK
    /\ focus = "policy" => Y!TypeOK
    /\ focus = "webhooks" => W!TypeOK
    /\ focus = "portal" => D!TypeOK
    /\ focus = "signup" => G!TypeOK
    /\ focus = "waiting" => Q!TypeOK

\* Stamps, results and references of a tenant's rows agree with the events they came
\* from, whatever statements land late or never (TenantRecords).
RecordsAreBacked == focus = "records" => E!RecordsAreBacked

\* An address gets one account and its key, whatever links are clicked
\* (ConsoleAccounts).
AccountsAreSound == focus = "accounts" => U!AccountsAreSound

\* Limits hold up to the calls under way, and counts are answers (Metering).
MetersHold == focus = "meters" => M!MetersHold

\* Answered calls are in the month's count, says the comment in usage.ts (Metering).
CallsAreCounted == focus = "meters" => M!CallsAreCounted

\* A policy's keys keep the value they were last given unless a race puts one back, each
\* write of a POST is on record, and the webhook page settles on the table
\* (SecurityPolicy, Webhooks).
SettingsHold ==
    /\ focus = "policy" => Y!PolicyHolds
    /\ focus = "webhooks" => W!WebhooksHold

\* Cookies, and the pages that answers reach, say "signed in" and "done" of sessions that
\* are; no session has two claims granted (DemoPortal, SignupPages, PairingPages).
PagesAreTrue ==
    /\ focus = "portal" => D!PortalHolds
    /\ focus = "signup" => G!ShownIsReached
    /\ focus = "waiting" => Q!PagesWatch
=============================================================================
