---------------------------- MODULE ConsoleAccounts ----------------------------
(***************************************************************************)
(* Console accounts of one e-mail address: the parked signup, the link     *)
(* that turns it into a tenant with a first API key, login, and the keys   *)
(* (src/routes/console.ts, src/services/{pending-signups,tenants,api-keys},*)
(* dashboard/src/lib/auth.tsx, routes/public/SignupComplete.tsx).          *)
(*                                                                         *)
(* verify-signup is four statements without a transaction: the link is     *)
(* consumed first, and nothing gives it back when a later one fails.       *)
(*                                                                         *)
(* Data: an account is the link it was made from; a console token is the   *)
(* account it names; passwords are right.                                  *)
(***************************************************************************)
EXTENDS Integers, FiniteSets

CONSTANTS
    Links,      \* verification links
    Calls,      \* request handlers under way
    MaxKeys,    \* bound: API keys, in the order they are made
    KeyCap,     \* active keys of a tenant
    None

VARIABLES
    parked,     \* pending_signups: the state of each link's row
    account,    \* tenants: the state of the account made from each link
    key,        \* api_keys
    call,       \* handlers
    failed,     \* history: links whose handler failed
    cookie,     \* browser: zeroauth_console_jwt
    reveal,     \* browser: zeroauth_signup_reveal
    token,      \* browser: the token in localStorage
    asking,     \* browser: the token of an account request under way
    page        \* browser: status of the auth context

vars == <<parked, account, key, call, failed, cookie, reveal, token, asking, page>>
KeyIds == 1..MaxKeys
rows == <<parked, account, key, failed>>
browser == <<cookie, reveal, token, asking, page>>

Idle == [kind |-> "idle"]
KeyRows == [tenant : Links, status : {"active", "revoked"}]

Init ==
    /\ parked = [l \in Links |-> "none"] /\ account = [l \in Links |-> "none"]
    /\ key = [k \in KeyIds |-> None] /\ call = [c \in Calls |-> Idle] /\ failed = {}
    /\ cookie = None /\ reveal = None /\ token = None /\ asking = None
    /\ page = "unauthenticated"

Accounts == {l \in Links : account[l] # "none"}
ActiveKeys(t) == {k \in KeyIds : key[k] = [tenant |-> t, status |-> "active"]}

-----------------------------------------------------------------------------
(* Signup: 202 whatever happens *)

\* getTenantByEmail found nobody; for a taken address only a notice is sent.
Signup(c, l) ==
    /\ call[c] = Idle /\ parked[l] = "none" /\ Accounts = {}
    /\ \A d \in Calls : call[d] # [kind |-> "park", link |-> l]
    /\ call' = [call EXCEPT ![c] = [kind |-> "park", link |-> l]]
    /\ UNCHANGED <<rows, browser>>

createPendingSignup(c) ==
    /\ call[c].kind = "park"
    /\ parked' = [parked EXCEPT ![call[c].link] = "open"]
    /\ call' = [call EXCEPT ![c] = Idle]
    /\ UNCHANGED <<account, key, failed, browser>>

LinkExpires(l) ==
    /\ parked[l] = "open" /\ parked' = [parked EXCEPT ![l] = "expired"]
    /\ UNCHANGED <<account, key, call, failed, browser>>

-----------------------------------------------------------------------------
(* GET verify-signup *)

\* The UPDATE that consumes the row; any other state of it answers 400.
consumePendingSignup(c, l) ==
    /\ call[c] = Idle /\ parked[l] = "open"
    /\ parked' = [parked EXCEPT ![l] = "consumed"]
    /\ call' = [call EXCEPT ![c] = [kind |-> "check", link |-> l]]
    /\ UNCHANGED <<account, key, failed, browser>>

\* Somebody else has the address: on to the login page.
CheckConflict(c) ==
    /\ call[c].kind = "check"
    /\ call' = [call EXCEPT ![c] = IF Accounts # {} THEN Idle ELSE [@ EXCEPT !.kind = "tenant"]]
    /\ UNCHANGED <<rows, browser>>

InsertAnyway(c) ==
    /\ call[c].kind = "tenant"
    /\ account' = [account EXCEPT ![call[c].link] = "active"]
    /\ call' = [call EXCEPT ![c] = [@ EXCEPT !.kind = "key"]]
    /\ UNCHANGED <<parked, key, failed, browser>>

\* tenants.email is UNIQUE: the loser of two links fails here.
createTenantWithHash(c) ==
    /\ call[c].kind = "tenant" /\ Accounts = {}
    /\ account' = [account EXCEPT ![call[c].link] = "active"]
    /\ call' = [call EXCEPT ![c] = [@ EXCEPT !.kind = "key"]]
    /\ UNCHANGED <<parked, key, failed, browser>>

NewKey(k, t) ==
    /\ key[k] = None /\ \A j \in 1..(k - 1) : key[j] # None
    /\ key' = [key EXCEPT ![k] = [tenant |-> t, status |-> "active"]]

\* The answer sets both cookies, if it arrives.
FirstKey(c, k) ==
    /\ call[c].kind = "key" /\ NewKey(k, call[c].link)
    /\ \/ cookie' = call[c].link /\ reveal' = [tenant |-> call[c].link, key |-> k]
       \/ UNCHANGED <<cookie, reveal>>
    /\ call' = [call EXCEPT ![c] = Idle]
    /\ UNCHANGED <<parked, account, failed, token, asking, page>>

\* A statement fails, or the process stops: the link stays consumed.
CallFails(c) ==
    /\ call[c] # Idle
    /\ failed' = failed \cup {l \in Links : call[c].kind \in {"check", "tenant", "key"}
                                             /\ call[c].link = l}
    /\ call' = [call EXCEPT ![c] = Idle]
    /\ UNCHANGED <<parked, account, key, browser>>

-----------------------------------------------------------------------------
(* The dashboard: auth context, signup-complete page, login page *)

\* refresh(): without a token there is nobody; else GET account.
Refreshed(t) ==
    /\ token' = t
    /\ asking' = t
    /\ page' = IF t = None THEN "unauthenticated" ELSE page

\* The cookie is cleared for another path than it was set for, and stays.
SignupComplete ==
    /\ reveal # None /\ Refreshed(reveal.tenant)
    /\ UNCHANGED <<rows, call, cookie, reveal>>

RevealLapses ==
    /\ reveal # None /\ reveal' = None
    /\ UNCHANGED <<rows, call, cookie, token, asking, page>>

\* authenticateTenant looks for active accounts only.
Login(l) ==
    /\ account[l] = "active"
    /\ cookie' = l /\ Refreshed(l)
    /\ UNCHANGED <<rows, call, reveal>>

\* A token lives 24 hours; its 401 drops whatever token there is by then.
AccountAnswered ==
    /\ asking # None /\ asking' = None
    /\ \/ page' = "authenticated" /\ UNCHANGED token
       \/ page' = "unauthenticated" /\ token' \in {token, None}
    /\ UNCHANGED <<rows, call, cookie, reveal>>

\* Nothing tells the server: the cookie stays.
logout ==
    /\ token # None /\ token' = None /\ page' = "unauthenticated"
    /\ UNCHANGED <<rows, call, cookie, reveal, asking>>

-----------------------------------------------------------------------------
(* API keys *)

countActiveKeys(c) ==
    /\ call[c] = Idle /\ token # None
    /\ Cardinality(ActiveKeys(token)) < KeyCap
    /\ call' = [call EXCEPT ![c] = [kind |-> "insert", tenant |-> token]]
    /\ UNCHANGED <<rows, browser>>

createApiKey(c, k) ==
    /\ call[c].kind = "insert" /\ NewKey(k, call[c].tenant)
    /\ call' = [call EXCEPT ![c] = Idle]
    /\ UNCHANGED <<parked, account, failed, browser>>

\* Irreversible: no statement makes a key active again.
revokeApiKey(k) ==
    /\ token # None /\ key[k] = [tenant |-> token, status |-> "active"]
    /\ key' = [key EXCEPT ![k] = [@ EXCEPT !.status = "revoked"]]
    /\ UNCHANGED <<parked, account, call, failed, browser>>

\* By hand in the database.
Suspend(l) ==
    /\ account[l] = "active" /\ account' = [account EXCEPT ![l] = "suspended"]
    /\ UNCHANGED <<parked, key, call, failed, browser>>

Next ==
    \/ \E c \in Calls :
          \/ \E l \in Links : Signup(c, l) \/ consumePendingSignup(c, l)
          \/ createPendingSignup(c) \/ CheckConflict(c) \/ createTenantWithHash(c)
          \/ \E k \in KeyIds : FirstKey(c, k) \/ createApiKey(c, k)
          \/ CallFails(c) \/ countActiveKeys(c)
    \/ \E l \in Links : LinkExpires(l) \/ Login(l) \/ Suspend(l)
    \/ \E k \in KeyIds : revokeApiKey(k)
    \/ SignupComplete \/ RevealLapses \/ AccountAnswered \/ logout

-----------------------------------------------------------------------------
(* Properties *)

TypeOK ==
    /\ parked \in [Links -> {"none", "open", "expired", "consumed"}]
    /\ account \in [Links -> {"none", "active", "suspended"}]
    /\ key \in [KeyIds -> KeyRows \cup {None}]
    /\ \A c \in Calls : call[c].kind \in {"idle", "park", "check", "tenant", "key", "insert"}
    /\ failed \subseteq Links /\ {cookie, token, asking} \subseteq Links \cup {None}
    /\ page \in {"authenticated", "unauthenticated"}

InFlight(l) == \E c \in Calls : call[c].kind \in {"check", "tenant", "key"} /\ call[c].link = l

\* One address has one account, however many links are clicked at once.
OneAccount == Cardinality(Accounts) <= 1

\* A consumed link whose handler did not fail leaves an account behind, and the
\* account it made has its first key.
LinksEndInAccounts ==
    \A l \in Links : parked[l] = "consumed" /\ ~InFlight(l) /\ l \notin failed =>
        /\ Accounts # {}
        /\ account[l] # "none" => \E k \in KeyIds : key[k] # None /\ key[k].tenant = l

\* What the browser holds names an account, and a key that was made for it.
BrowserIsBacked ==
    /\ {cookie, token, asking} \subseteq Accounts \cup {None}
    /\ reveal # None => /\ reveal.tenant \in Accounts
                        /\ key[reveal.key] # None /\ key[reveal.key].tenant = reveal.tenant

\* The count is read before the INSERT: concurrent requests exceed the cap, by no
\* more than their number.
KeysNearCap ==
    \A t \in Accounts :
        Cardinality(ActiveKeys(t))
          + Cardinality({c \in Calls : call[c] = [kind |-> "insert", tenant |-> t]})
        <= KeyCap - 1 + Cardinality(Calls)

\* An address gets one account with a first key out of any clicks on any links,
\* unless a handler fails (console.ts:350-425, pending-signups.ts:83-107), and the
\* browser's tokens and the key cap stay tied to it.
AccountsAreSound == OneAccount /\ LinksEndInAccounts /\ BrowserIsBacked /\ KeysNearCap
=============================================================================
