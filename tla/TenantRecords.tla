----------------------------- MODULE TenantRecords -----------------------------
(***************************************************************************)
(* A tenant's users, verifications and attendance, as the API keys and the *)
(* console write and read them (src/services/platform.ts,                  *)
(* src/routes/v1/{users,verifications,attendance}.ts, console.ts).         *)
(*                                                                         *)
(* An event names rows that were looked up before it is inserted; the rows *)
(* it touches are updated afterwards by statements nobody waits for, which *)
(* land in any order or not at all.  A row is never deleted.               *)
(*                                                                         *)
(* Data: a row is its place in its table; a scope is a tenant with an      *)
(* environment; a caller is trusted for the scope of its key or token;     *)
(* names, statuses and metadata, which nothing here depends on, are left   *)
(* out.                                                                    *)
(***************************************************************************)
EXTENDS Integers, FiniteSets, Sequences

CONSTANTS
    Scopes,         \* tenant and environment
    ExternalIds,    \* external ids of users
    Times,          \* values of occurred_at
    None,           \* NULL
    ListLimit,      \* rows of a list
    MaxRows,        \* bound: devices and users together
    MaxEvents       \* bound: verifications and attendance events together

VARIABLES
    devices,        \* devices: scope and last_seen_at of each row, and (ghost: told)
                    \* the times that were given for it without an event
    users,          \* tenant_users; ghost: missed, a stamp of the user failed
    verifications,  \* verification_events
    attendance,     \* attendance_events
    updates,        \* statements under way that nobody waits for
    terminal        \* terminal[s]: the user a terminal of the scope registered

vars == <<devices, users, verifications, attendance, updates, terminal>>

\* "challenge" is told apart from "fail" nowhere.
Results == {"pass", "fail"}
Outcomes == {"accepted", "rejected"}

Init ==
    /\ devices = <<>> /\ users = <<>> /\ verifications = <<>> /\ attendance = <<>>
    /\ updates = {} /\ terminal = [s \in Scopes |-> None]

-----------------------------------------------------------------------------
(* Lookups and lists *)

\* findDevice, findTenantUser, findVerification: the row, if it is the scope's.
Find(table, s) == {i \in DOMAIN table : table[i].scope = s}

NewestAnywhere(table, s) ==
    {i \in DOMAIN table : Cardinality({j \in DOMAIN table : j > i}) < ListLimit}

\* The rows of a list: those of the scope with fewer than ListLimit newer ones.
Newest(table, s) ==
    {i \in Find(table, s) : Cardinality({j \in Find(table, s) : j > i}) < ListLimit}

-----------------------------------------------------------------------------
(* Devices and users *)

\* A row of createDevice is seen NOW(); one of issueEnrollmentCode (None) not yet.
createDevice(s, at) ==
    /\ Len(devices) + Len(users) < MaxRows
    /\ devices' = Append(devices, [scope |-> s, seen |-> at, told |-> {at} \ {None}])
    /\ UNCHANGED <<users, verifications, attendance, updates, terminal>>

\* PATCH of a device; an absent last_seen_at stays as it is.  A claim or a pairing
\* (DeviceRegistry) sets it in the same way.
updateDevice(s, d, at) ==
    /\ d \in Find(devices, s)
    /\ devices' = [devices EXCEPT ![d].seen = at, ![d].told = @ \cup {at}]
    /\ UNCHANGED <<users, verifications, attendance, updates, terminal>>

Taken(s, x) == \E u \in DOMAIN users : users[u].scope = s /\ users[u].externalId = x

createTenantUser(s, x, d) ==
    /\ Len(devices) + Len(users) < MaxRows /\ ~Taken(s, x)
    /\ d \in Find(devices, s) \cup {None}
    /\ users' = Append(users, [scope |-> s, externalId |-> x, primary |-> d,
                               verified |-> None, missed |-> FALSE])
    /\ UNCHANGED <<devices, verifications, attendance, updates, terminal>>

\* PATCH of a user; an absent primary device stays as it is.
updateTenantUser(s, u, d) ==
    /\ u \in Find(users, s) /\ d \in Find(devices, s)
    /\ users' = [users EXCEPT ![u] = [@ EXCEPT !.primary = d]]
    /\ UNCHANGED <<devices, verifications, attendance, updates, terminal>>

-----------------------------------------------------------------------------
(* Events *)

Stamps(u, d, at) ==
    {x \in {[table |-> "devices", row |-> d, at |-> at], [table |-> "users", row |-> u, at |-> at]} :
        x.row # None}
TouchAlways(u, d, result, at) == Stamps(u, d, at)

\* last_seen_at of the device; last_verified_at of the user, if it passed.
Touch(u, d, result, at) ==
    {x \in Stamps(u, d, at) : x.table = "users" => result = "pass"}

\* The client says when it occurred.
createVerificationEvent(s, u, d, result, at) ==
    /\ Len(verifications) + Len(attendance) < MaxEvents
    /\ u \in Find(users, s) \cup {None} /\ d \in Find(devices, s) \cup {None}
    /\ verifications' = Append(verifications, [scope |-> s, user |-> u, device |-> d,
                                               result |-> result, at |-> at])
    /\ updates' = updates \cup Touch(u, d, result, at)
    /\ UNCHANGED <<devices, users, attendance, terminal>>

\* COALESCE(result, what the verification says, accepted).
Outcome(result, v) ==
    IF result # None THEN result
    ELSE IF v = None \/ verifications[v].result = "pass" THEN "accepted" ELSE "rejected"

createAttendanceEvent(s, u, d, v, result) ==
    /\ Len(verifications) + Len(attendance) < MaxEvents
    /\ u \in Find(users, s) /\ d \in Find(devices, s) \cup {None}
    /\ v \in Find(verifications, s) \cup {None}
    /\ attendance' = Append(attendance, [scope |-> s, user |-> u, device |-> d,
                                         verification |-> v, given |-> result,
                                         result |-> Outcome(result, v)])
    /\ UNCHANGED <<devices, users, verifications, updates, terminal>>

TouchLands(x) ==
    /\ x \in updates /\ updates' = updates \ {x}
    /\ devices' = IF x.table = "devices" THEN [devices EXCEPT ![x.row] = [@ EXCEPT !.seen = x.at]] ELSE devices
    /\ users' = IF x.table = "users" THEN [users EXCEPT ![x.row] = [@ EXCEPT !.verified = x.at]] ELSE users
    /\ UNCHANGED <<verifications, attendance, terminal>>

\* .catch(() => undefined)
TouchFails(x) ==
    /\ x \in updates /\ updates' = updates \ {x}
    /\ users' = IF x.table = "users" THEN [users EXCEPT ![x.row] = [@ EXCEPT !.missed = TRUE]] ELSE users
    /\ UNCHANGED <<devices, verifications, attendance, terminal>>

-----------------------------------------------------------------------------
(* The terminal's registerUser (iot/src/central-api.ts) *)

\* A user that exists already is looked for among the newest only.
RegisterUser(s, x) ==
    /\ Taken(s, x)
    /\ LET mine == {u \in Newest(users, s) : users[u].externalId = x} IN
          terminal' = [terminal EXCEPT ![s] = IF mine = {} THEN None ELSE CHOOSE u \in mine : TRUE]
    /\ UNCHANGED <<devices, users, verifications, attendance, updates>>

Next ==
    \/ \E s \in Scopes :
          \/ \E at \in Times \cup {None} : createDevice(s, at)
          \/ \E x \in ExternalIds : RegisterUser(s, x)
          \/ \E d \in DOMAIN devices :
                \/ \E at \in Times : updateDevice(s, d, at)
                \/ \E u \in DOMAIN users : updateTenantUser(s, u, d)
          \/ \E d \in DOMAIN devices \cup {None} :
                \/ \E x \in ExternalIds : createTenantUser(s, x, d)
                \/ \E u \in DOMAIN users \cup {None}, r \in Results, at \in Times :
                      createVerificationEvent(s, u, d, r, at)
                \/ \E u \in DOMAIN users, v \in DOMAIN verifications \cup {None},
                      r \in Outcomes \cup {None} : createAttendanceEvent(s, u, d, v, r)
    \/ \E x \in updates : TouchLands(x) \/ TouchFails(x)

-----------------------------------------------------------------------------
(* Properties *)

TypeOK ==
    /\ \A u \in DOMAIN users : users[u].scope \in Scopes /\ users[u].verified \in Times \cup {None}
    /\ \A d \in DOMAIN devices : devices[d].scope \in Scopes /\ devices[d].told \subseteq Times
    /\ \A v \in DOMAIN verifications : verifications[v].result \in Results
    /\ \A a \in DOMAIN attendance : attendance[a].result \in Outcomes
    /\ \A x \in updates : x.table \in {"devices", "users"} /\ x.at \in Times

SameScope(s, table, row) == row # None => table[row].scope = s

\* Verification v is of user u, and passed.
PassOf(v, u) == verifications[v].user = u /\ verifications[v].result = "pass"

\* Statements that nobody waits for land late, in another order or never; whichever
\* they are, a user is verified at a time a verification of that user passed, and not
\* verified only if no pass of his is recorded but those whose statement is under way
\* or failed; a device was last seen at a time it was told or a verification named
\* (neither need be the latest).  An attendance whose result was left to the server
\* agrees with the verification it cites, and no row, nor the user a terminal found in
\* a list, is of another tenant or environment (platform.ts:192-980).
RecordsAreBacked ==
    /\ \A u \in DOMAIN users :
          /\ SameScope(users[u].scope, devices, users[u].primary)
          /\ users[u].verified # None =>
                \E v \in DOMAIN verifications :
                   PassOf(v, u) /\ verifications[v].at = users[u].verified
          /\ users[u].verified = None /\ ~users[u].missed =>
                \A v \in DOMAIN verifications :
                   PassOf(v, u) => [table |-> "users", row |-> u, at |-> verifications[v].at] \in updates
    /\ \A d \in DOMAIN devices :
          devices[d].seen \in devices[d].told \cup {None}
             \/ \E v \in DOMAIN verifications :
                   verifications[v].device = d /\ verifications[v].at = devices[d].seen
    /\ \A v \in DOMAIN verifications :
          /\ SameScope(verifications[v].scope, users, verifications[v].user)
          /\ SameScope(verifications[v].scope, devices, verifications[v].device)
    /\ \A a \in DOMAIN attendance :
          LET row == attendance[a] IN
          /\ SameScope(row.scope, users, row.user)
          /\ SameScope(row.scope, verifications, row.verification)
          /\ row.given = None /\ row.verification # None =>
                (row.result = "accepted") = (verifications[row.verification].result = "pass")
    /\ \A s \in Scopes : SameScope(s, users, terminal[s])
=============================================================================
