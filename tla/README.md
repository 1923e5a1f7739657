# ZeroAuth in TLA+

TLA+ specifications of the state-changing core of ZeroAuth, TLC configurations that check
them on small instances, and TLAPS proofs for every value of their constants. Source paths
are relative to the repository root (the server lives in `src/`).

ZeroAuth is a passwordless login service. A person registers on a phone, which keeps the
secret and proves knowledge of it with a Groth16 proof. A desktop that wants to log the
person in shows a QR code; the phone answers with a proof bound to that code; the server
verifies it, consumes the pairing session, and mints tokens. Everything a tenant does is
recorded in an append-only, hash-chained audit log whose head is anchored on a chain daily.

## Files

| File | What it is |
| --- | --- |
| `PairingTicket.tla` | abstract specification: a pairing session is a single-use ticket |
| `ProofPairing.tla`, `ProofPairing_proofs.tla` | QR proof pairing: sessions, submits, streams, sweep, restarts; its theorems, including that it implements `PairingTicket` |
| `AuditChain.tla`, `AuditChain_proofs.tla` | the audit hash chain: `appendAuditEvent`, `verifyAuditChain`; its theorems |
| `Ceremony.tla` | abstract specification: what a registration session promises |
| `DeviceRegistry.tla`, `Registration.tla`, `Registration_proofs.tla` | the devices table; the three-QR ceremony composed with it, shown to implement `Ceremony`; theorems about both |
| `LoginSessions.tla`, `LoginSessions_proofs.tla` | login routes over the two session stores; their theorems |
| `AuditAnchor.tla` | the daily anchor of a chain and the compliance pack |
| `ProofCheck.tla` | the API's check of a proof and the verifier service with its log |
| `ChainRegistry.tla` | identity registration behind the chain gateway |
| `LiveStreams.tla` | live log and live verifications, server and pages |
| `IotBridge.tla` | the fingerprint terminal |
| `TenantRecords.tla` | users, verifications, attendance |
| `ConsoleAccounts.tla` | signup links, accounts, API keys, the console's login |
| `Metering.tla` | rate limits, quota, usage |
| `SecurityPolicy.tla`, `Webhooks.tla` | two console settings, server and page |
| `DemoPortal.tla`, `SignupPages.tla`, `PairingPages.tla` | the demo bank's sign-in, the signup pages, the pairing pages |
| `Console.tla`, `Services.tla` | the sum of the components from `AuditAnchor` on, see below |
| `Services_proofs.tla` | theorems about the verifier, the anchors, the gateway and the terminal |
| `Console_proofs.tla` | theorems about policy, webhooks, meters, records and accounts |
| `Pages_proofs.tla` | theorems about the demo portal, the signup and the pairing pages |
| `Streams_proofs.tla` | theorems about the live pages; the types of all components of the sum |
| `MC*.tla`, `*.cfg` | TLC instances |

To check: `tlc -config ProofPairingRace.cfg MCProofPairing` (one per `.cfg`; the module of
each is under "Runs"), and `tlapm` on each of the eight `*_proofs.tla`.

How the modules compose: `Registration` EXTENDS `DeviceRegistry`, since pairing a phone
writes the devices table under the ceremony's locks. `ProofPairing` and `Registration`
implement `PairingTicket` and `Ceremony` by INSTANCE. The remaining components share no
state with each other, only through tables that each sees as nondeterministic (a suspended
tenant, a bound pairing session). `Console` and `Services` (which EXTENDS it) therefore hold the
*sum* of their instances, not the product: `focus`, chosen once from `Parts`, names the
component that runs, and the variables of the others are `Off`. One run then checks
thirteen components in fourteen parts (the live streams make two, `logs` and `feed`), each
part a state space of its own; and the theorems about a component are theorems of the one
`Spec` that the run checks. `Services.cfg` gives the constants their values; `MCServices`
adds only the symmetry of the run, which permutes ids of requests, rows and fingers that no
module orders or prefers.

## Inventory

The server is one Node process (or several pods) over one Postgres; Node interleaves
handlers at every `await`, and only there. The phone, the desktop browser, the verifier
service, the IoT bridge and the chain are separate processes.

| Component | State | Operations | Meets | Hard because | Correct when |
| --- | --- | --- | --- | --- | --- |
| **QR proof pairing** `services/proof-pairing.ts`, `routes/v1/proof-pairing.ts` | `proof_pairing_sessions` rows | create, submit, stream, sweep | users' metadata, verifier, audit log, session tokens | several awaits between reading a session and consuming it; expiry; lockout; restarts | one winner per session, only by a genuine proof, only with an audit row; terminal states final; a stream announces only what is bound, and ends |
| **Audit hash chain** `services/audit.ts` | `audit_events`, advisory locks | append, verify, live fan-out | every handler | transactions interleave; ids do not follow commits; replay must fit what is written | never forks; replay fails exactly on edited rows |
| **Audit anchors** `services/anchor-job.ts`, `contracts/AuditAnchor.sol`, `compliance-pack.ts` | `audit_anchors`, contract map | daily job, `recordAnchor`, evidence pack | audit chain, chain gateway | job retried before the broadcast; day boundaries against transaction times; a pack made of several queries | a recorded anchor replays; one per day; a pack's replay reaches its head or its limit |
| **Registration** `services/registration.ts`, `routes/v1/registrations.ts` | `registration_sessions`, demo code cache | start, pair, submitCommitment, complete, abandon | devices, users, audit | calls of several clients, expiry, lost answers | one user per ceremony, by a proof of its commitment |
| **Devices** `services/platform.ts`, `device-enrollment.ts`, `routes/v1/devices.ts` | `devices` | create, issue and regenerate codes, claim, revoke, update | registration, audit | look-up then update; codes that race | one row per fingerprint; a code enrols once; revoked stays out |
| **Users, verifications, attendance** `services/platform.ts` | `tenant_users`, event tables | insert, update, list | pairing, terminal | unawaited updates | events, users and devices of one scope; stamps are times of events of their row |
| **Session stores and login routes** `services/session-store.ts`, `saml`, `oidc`, `zkp`, `identity` routes | process cache, `user_sessions`, Redis, OIDC states | log in, read, refresh, log out, hydrate, clean up | each other | write-behind, restarts, two pods | a deleted session stays deleted; an expired one is forgotten |
| **Metering** `middleware/rate-limit.ts`, `tenant-auth.ts`, `services/usage.ts` | windows, buckets, usage rows | admit, count, clean up | every API call | check before, count after; fail open | bounded overshoot; counts are answers |
| **Console accounts** `routes/console.ts`, `pending-signups.ts`, `tenants.ts`, `api-keys.ts`, `dashboard/src/lib/auth.tsx` | `pending_signups`, `tenants`, `api_keys`, the browser's token | signup, verify, login, keys | metering | four statements without a transaction; answers that cross | one account per address, with a key |
| **Security policy, webhooks** `routes/console-security-policy.ts`, `console-webhooks.ts` and their pages | policy JSON, `tenant_webhooks`, query caches | read, merge, write; list, create, toggle, delete | pairing reads the policy | load, merge, write; optimistic updates | a key keeps its last value, but for races; the handler's writes are on record; a page settles on the table |
| **Demo portal** `routes/demo-portal.ts`, `demo-portal/src` | in-memory bind and claim tokens, cookies, pages | start, stream, submit, claim, sign out | pairing, registration | process memory around a stored session; proofs and claims that come late | one claim per session, of a bound one; cookies of bound sessions |
| **Dashboard pages** `QrProofLogin`, `Kiosk`, `QrRegistration` | reducers, EventSources | open, stream, submit | pairing, registration | late and reordered answers | a page says only what is so |
| **Live streams** `verification-events.ts`, `log-ring-buffer.ts` and their pages | listener lists, ring buffer, page lists | subscribe, replay, emit, pause | audit chain | replay against push; reconnects | no hole, no disorder |
| **Verifier service, ZKP** `verifier/src`, `services/zkp.ts` | SQLite log, key, head in memory | verify, log, restart | pairing, logins | timeouts; a log resumed from a file | acceptance is logged; the log replays |
| **Chain gateway, contracts** `services/blockchain.ts`, `identity.ts`, `contracts/DIDRegistry.sol` | on-chain maps, mempool | register, revoke | identity routes | waits that fail after sending | a receipt is on the chain |
| **IoT bridge** `iot/src` | OTPs, sensor lock, serial line, accounts file | OTP, enrol, log in | central API | one sensor, no correlation ids, unlocked file writes | a login matches its own finger; memory gets into the file |
| **Android prover** `android/app/.../prover` | in-flight proof, bound service | prove, time out, cancel | scan screen | IPC | (not modelled) |
| **Face capture** `mobile/face` | capture state | frame steps | Android app | timers | (not modelled) |
| **Seeding, e-mail, CORS, hosts, health, leads, website, circuits, scripts** | - | - | - | - | (not modelled) |

`PROJECT.json` lists the same components with what is modelled of each, and every hazard of
the code at its line with the property that covers it.

## QR proof pairing

### Model and code

One action of `ProofPairing` is the code from one answer of Postgres, of the verifier or of a
timer to the next, so handlers interleave, and processes die, exactly where Node lets them:
also between the counting UPDATE of a rejection, its awaited audit row, the floor delay of
`padToFloor` and the answer. A submit whose process died is `lost` and keeps the outcome it
had come to.

| Variable | Code |
| --- | --- |
| `row[s]` | the `proof_pairing_sessions` row: tenant, `state`, `failure_count`, `expires_at`, `consumed_user_id` |
| `creation[s]` | a `createSession` call between its COUNT and its INSERT |
| `request[r]` | a `submitProof` call: program point, input, answer |
| `stream[v]` | a `subscribeStream` generator: program point, session, deadline, last event |
| `roster[t]` | users `findUserByDid` would find; edited by registrations and PATCHes |
| `policy[t]` | `tenants.security_policy.playIntegrity` |
| `audit` | the `pairing.*` rows of `audit_events` |
| `now` | the clock, in ticks; `TTL` and `StreamLifetime` are the constants of `proof-pairing.ts:48-54` |

| Action | Code (`src/services/proof-pairing.ts` unless named) |
| --- | --- |
| `CountPending`, `InsertSession` | `createSession`: the cap's COUNT, then the INSERT and its audit row |
| `Submit`, `LoadSession` | the route; check 2 with the state machine 529-541 |
| `CheckPolicyAndCookie` | checks 3a and 3; an integrity rejection goes on by itself: |
| `CountIntegrity`, `AuditIntegrity` | 551-577: its counting UPDATE, whose failure is caught, and its awaited audit row |
| `LookupUser` | checks 4 to 7: user, commitment, nonce binding |
| `Verify` | check 8: the verifier accepts, refuses, or is unavailable |
| `Consume` | check 9: `UPDATE ... WHERE state = 'issued' RETURNING *` |
| `AuditClaim`, `Respond` | check 10: the awaited audit row, then the tokens |
| `CountFailure` | the catch block: `incrementFailureCount` and the `pairing.failed` row nobody waits for |
| `Throw`, `Finish` | 768-771: every failure waits for the floor; then the route answers |
| `QueryFails` | a rejected query; a consuming UPDATE may have committed all the same |
| `OpenStream`, `PollStream`, `PollFails` | `subscribeStream` |
| `ExpireOverdueSessions` | the sweep, under `SweepScheduled` because nothing calls it |
| `SetRoster`, `SetPolicy`, `Crash`, `Tick` | edits by other handlers and operators, restarts, time |

A submission is its relations: whose cookie it carries, which (didHash, nonce) pair
`publicSignals[1]` hashes, whether Groth16 accepts. Poseidon is thus injective and Groth16
sound. Audit writes whose failure the code catches may be lost; those it awaits decide the
answer.

### Runs

| Run | Configuration | Shows |
| --- | --- | --- |
| `pairing_race` | 2 sessions, 2 submits, 2 users, sweep, 1 restart or edit | `SingleUse`, `TokensAudited`, `ConsumedByGenuineProof`; `TicketSpec`: implements `PairingTicket` |
| `pairing_reject` | 1 session, 3 submits of every rejected kind, 2 tenants, threshold 2, 1 restart or edit | `TypeOK`, `FailuresAccounted`, `LockedAtThreshold`, `TerminalStatesFinal` |
| `pairing_stream` | 1 session, 2 submits, 1 stream, 3 ticks | `StreamTruthful`, `SubmitAnswered`, `StreamSettles` |

`FailuresAccounted` charges the rejected submits of the session's own tenant, those lost
after their count included. `StreamTruthful` says that what is announced as bound is bound
and that no stream ends in silence. It says nothing of a session that was reported expired:
the deadline is looked at when a submit loads the row (529-541), the consuming UPDATE
(663-668) asks for the state alone, so a proof that was being verified across the deadline
still binds.

All of module `MCProofPairing`.

Why the bounds are enough: every property speaks of one session or of two submits of one
session; three submits give two rejections that lock the session while a third is past its
checks, two sessions let a proof cross from one to the other. `MaxTime` lets the clock pass
every deadline; `MaxUpsets` = 1 puts one restart, roster edit or policy edit between any two
steps. Submits have no identity beyond their input, so they are permuted
(`RequestSymmetry`) in the runs without liveness.

`CHECK_DEADLOCK FALSE` in all runs: the calls of an instance are finitely many, and when all
have ended and the clock stands at its bound the model really stops.

Fairness (`FairSpec`): weak fairness of each submit's steps, of a creation's INSERT, of each
stream's poll, of the sweep where it is scheduled, and of the clock. Node runs started
handlers and timers, queries and the verifier call end in an answer or an error (the verifier
call has a timeout). Nothing obliges anyone to submit, to open a stream, or to crash.

### Proved

`ProofPairing_proofs` assumes only `ConstantsAssumption` (finitely many sessions and
requests, sentinels that are not members, `StreamLifetime > TTL`, a positive threshold).
No safety property of the list is inductive: `Consume` says nothing of the proof, it relies
on checks made several steps before. `PairingInv` adds

* `Lifecycle(s)`: which fields a row has in which state, and that a creation that has not
  inserted has no row yet;
* `Checked(r)`: what a submit at a program point has established (owner tenant, cookie,
  commitment and binding, soundness, audit row), which stays true because these facts are of
  the input and of columns nobody updates;
* `OutlivesSession(v)`: the session of a polling stream expires before the stream does.

From it follow, for all constants, `TypeCorrect`, `SingleUseHolds`, `TokensAuditedHolds`,
`ConsumedByGenuineProofHolds`, `LockedAtThresholdHolds`, `StreamTruthfulHolds`,
`TerminalStatesFinalHolds`. `FailuresAccountedHolds` is an induction of its own on top of
it, over the cardinality of the set of charged requests, answered or lost. `ImplementsTicket` maps each step
to a step of `PairingTicket` or a stutter: INSERT issues, the consuming UPDATE binds,
lockout and sweep close, the answer grants.

## Audit hash chain

### Model and code

| Variable | Code |
| --- | --- |
| `events` | committed rows of `audit_events` |
| `nextId` | the BIGSERIAL sequence, which does not roll back |
| `holder[l]` | who holds `pg_advisory_xact_lock(hashtext(tenant))`; `LockKey` may map two tenants to one lock, as `hashtext` may |
| `writer[w]` | an `appendAuditEvent` call: program point, event, the head it read, its id |
| `emitted` | ids sent to live subscribers |
| `appended` | history: rows with the content the caller passed |

| Action | Code (`src/services/audit.ts`) |
| --- | --- |
| `Begin`, `AcquireLock` | connect, BEGIN, the advisory lock |
| `FetchPrevious`, `Insert` | `fetchPreviousHash`; hash and INSERT |
| `Commit`, `Emit` | COMMIT (whose acknowledgement may be lost), then the fan-out 188-231 |
| `QueryFails`, `Rollback` | the catch and finally blocks |
| `Crash` | the process dies, Postgres aborts what was open |
| `Edit` | external: somebody with SQL access rewrites a row |

`computeEventHash` is the injective pairing of the event and the previous hash: SHA-256 is
collision free. `Stored` is what JSON does to the metadata on its way into the table.
`Digits` and `TextBefore` give the order in which the replay reads rows: it selects
`id::text AS id` and says `ORDER BY id`, and an output name wins over a column in ORDER BY,
so ids sort as text. `Broken` collects the rows at which the replay's loop could stop;
`verifyAuditChain` is its emptiness.

### Runs

| Run | Configuration | Shows |
| --- | --- | --- |
| `audit_writers` | 3 appends, 2 tenants, 2 environments, 1 legacy row, 1 restart | `TypeOK`, `ChainLinked`, `AnnouncedIsCommitted` |
| `audit_replay` | 3 appends of 3 contents (one with an undefined value) behind a legacy row, 1 edit, all windows | `PassMeansUnedited`, `UneditedPasses` |
| `audit_settles` | 3 appends, one lock, 1 restart | `AppendSettles` |
| `audit_text_order` | ids from 9 | *violation*: an honest chain reported as broken |

All of module `MCAuditChain`.

Bounds: a fork needs two writers of one chain, a third makes the row after the fork;
two environments make rows of one lock and different chains. `MaxId` leaves room for ids
that refused INSERTs draw. The windows are all `start` in `1..MaxId` and all `limit` in
`1..MaxId`.

Fairness: weak for every step of a transaction, since Postgres answers or the connection
fails; strong for `AcquireLock`, since Postgres queues the waiters of an advisory lock and
a waiter sees the lock free again and again. `QueryFails` and `Crash` are never forced.

`CHECK_DEADLOCK FALSE`: the appends of an instance are finitely many.

### Proved

From `ConstantsAssumption` alone (legacy rows have distinct ids below `FirstId` and no
hashes). `ChainLinked` is not inductive: a commit links its row to a head read two steps
earlier. `ChainInv` adds that a writer in its transaction holds the lock of its tenant
(`LockHeld`), that the head it read is still the head of its chain (`ReadsHead`, which
needs the lock), that its id is unused and above all of its chain (`FreshId`), and that
rows and history agree (`Written`, `Announced`). All of it speaks of `Links`, the rows
without their content, so that an edit of content leaves it alone.

Results: `TypeCorrect`, `ChainLinkedHolds`, `AnnouncedIsCommittedHolds`, and the two halves
of what a replay means: `PassMeansUneditedHolds` (no edit of a hashed row gets through, in
any window, in any order of reading) and `UneditedPassesHolds` (no false alarm, provided the
ids of the chain have one length). The proviso is exactly what `audit_text_order` violates.

## Registration and devices

`DeviceRegistry` has a row per device (`device[d]`: state, external id, fingerprint, code
generation) and `claim[c]`, a `claimDeviceWithCode` transaction that locks the slot by its
code (`ClaimSelect`), looks for the fingerprint elsewhere (`ClaimCollision`), writes
(`ClaimWrite`) or fails. Every other handler is one statement that waits for that lock.

`Registration` adds `session[s]`, the row of a ceremony with the code it waits for; `call[c]`,
a phone's request, which locks the session that its code selects (`SelectSession`), waits
for the verifier where it must (`VerifyProof`), and writes (`PairDevice`,
`SubmitCommitment`, `CompleteRegistration`); `shown`, the codes that have left the server;
and `peek`, the demo portal's cache. A call may fail after its COMMIT (`CallFails`), codes
and sessions lapse, the tenant abandons, the process restarts.

| Run | Configuration | Shows |
| --- | --- | --- |
| `enrolment` (`MCRegistration`) | 2 ceremonies of one phone, 2 persons, 2 calls under way, 1 claim, 2 device rows, 2 codes each, 1 mishap; the honest messages, proofs that are unsound or carry another nonce, a second person's attempts, a code of the wrong step | `TypeOK`, `UsersProveCommitment`, `OneRowPerFingerprint`, `CodeEnrolsOnce`, `RevokedReturnsByPairing`; `CeremonySpec`: implements `Ceremony` |

Two ceremonies of one phone and one DID meet at each uniqueness check; a claim races both;
one mishap is put between any two steps. Checks about uniqueness need two rows, no more.

### Proved

`Registration_proofs` assumes `DeviceConstants` and `CeremonyConstants` (`None` is no
fingerprint and no person, a slot has at least one code, messages are messages), for any
number of devices, claims, ceremonies, people and calls. `OneRowPerFingerprint` is not
inductive: a claim looks for the fingerprint in one statement and writes it in another.
`DeviceInv` adds

* `RowOK(r)`: what a row says by itself, above all that a fingerprint is also the external
  id, which the UNIQUE index guards;
* `ExtUnique`: that index;
* `ClaimHolds(c)`: a claim between its statements holds a slot that is still pending with
  the code it showed, alone.

`CeremonyInv` adds `CallHolds(c)`, the same of a call and its session, and that a call
writes only what was proved for the person of the session; `SessionOK(s)` and `UserOK(u)`,
what state, proofs and users say of each other. From it follow `TypesHold`,
`FingerprintOwned`, `CodeSpentOnce`, `UsersProved`; the action property `RevokedReturns` (a
revoked device comes back only by the commit of a pairing of its own phone in its tenant);
and `ImplementsCeremony`, the refinement: a session's state and person are the stage and
bearer of `Ceremony`, start, abandonment, deadline and the writes of a call are its steps,
everything else stutters.

## Sessions

`LoginSessions` has `cache[p]` for each process, `stored` (table or Redis), `writes`, the
statements sent and not yet run (a pool runs them in any order, or they fail), and `reads`,
the background hydrations of Redis. With Postgres only `Primary` runs; with Redis both pods.
Every login route is an action of its own.

| Run | Configuration | Shows |
| --- | --- | --- |
| `sessions` (`LoginSessions`) | 1 session, 2 pods, 1 tenant and the demo's OIDC state, 2 restarts, both backends | `TypeOK`, `LogoutSurvivesRestart`, `ExpiredForgotten` |

Sessions do not meet in any guard, so one is enough; two restarts let a boot read the table
before and after a late statement. Fairness: weak for the clean-up, which an interval timer
calls, and for each statement sent, which is answered or fails. No logout, login or expiry is
forced. `LogoutSurvivesRestart` is what the code really gives: a DELETE that ran after the
INSERT and before the next boot is final. The rest is under the divergences.

`LoginSessions_proofs` proves `TypesHold` and `LogoutIsFinal` for any number of processes,
sessions and restarts, from `SessionConstants` (`Primary` is a process). The property is not
inductive: a session that is nowhere now may still be in a statement on its way. `Forgotten`
adds that an erased session has no INSERT to come, and `Opened` that ids are not used
twice, so that no login brings it back.

## The console and the services

Run `services` (`MCServices`, `Services.cfg`) checks each of the following components by
itself, see "Files". The bounds are in `Services.cfg`.

| Part | Module | State and actions | Bounds | Property |
| --- | --- | --- | --- | --- |
| `proof` | `ProofCheck` | deployment, key file, the verifier's log file and its head in memory; accept, answer, give up, second check, restart, key installed | 2 calls, 2 boots | `AcceptedIsLogged`, `LogReplays` |
| `chain` | `ChainRegistry` | contract map, mempool, calls; send, wait fails, mine, revoke; both registration paths | 2 calls, 2 hashes, 2 attempts, 1 revocation | `ReceiptIsOnChain` |
| `anchor` | `AuditAnchor` | rows with their transaction's day, open transactions, runs of the job, staged payloads, the contract, a pack being made under a limit of its own | 2 days, 3 rows, 2 runs, limits 2 and 3 | `AnchorReplays`, `PackReplaysItsHead` |
| `logs`, `feed` | `LiveStreams` | ring with slots and head, the connection, the page's list, its pause and pen; the verification page's rows and counters | ring 3, tail 2, page 2, 5 lines, 2 connections | `PagesInOrder` |
| `bridge` | `IotBridge` | codes, flows, the lock, image and two buffers of the sensor, the serial line and its waiter, the account in memory and in the file, writes under way, simulation mode | 2 flows, 2 fingers, 2 packets, 2 attempts, 2 codes, 1 mishap | `MatchIsOwnFinger`, `AccountsAreSaved` |
| `records` | `TenantRecords` | four tables, updates not yet landed, the terminal's user; as history the times a device was told and whether a user's statement failed | 2 scopes, 1 external id, 2 times, 2 devices and users in all, 2 events | `RecordsAreBacked` |
| `accounts` | `ConsoleAccounts` | parked signups, accounts, keys, handlers by statement, the browser's token, cookie and page | 2 links, 2 handlers, 4 keys, cap 1 | `AccountsAreSound` |
| `meters` | `Metering` | process window, month, usage, buckets, calls by step | 2 calls under way, 3 in all, limits 2, 1 and 1, 2 turns | `MetersHold` |
| `policy` | `SecurityPolicy` | the column by key, POSTs by statement, audit rows (the handler's, which alone writes them), the page's query and form; as history the number of a write and which writes have no row | 2 POSTs, 2 values, 2 writes | `SettingsHold` |
| `webhooks` | `Webhooks` | the table with its switches, POSTs, the page's list, its query, toggles and deletions | 2 rows, 2 POSTs, 2 toggles, cap 1 | `SettingsHold` |
| `portal` | `DemoPortal` | pairing row (in time or `late`), the two tokens, claims of the page and of other tabs, submissions, cookies, page and stream | 2 sessions, 2 claims under way | `PagesAreTrue` |
| `signup` | `SignupPages` | the ceremony's step, polls under way, both pages | 2 sessions, 2 polls | `PagesAreTrue` |
| `waiting` | `PairingPages` | pairing row, phases and streams of login page and kiosk | 2 sessions | `PagesAreTrue` |

`TypesOK` is the conjunction of the components' type invariants. Each composite property is
the conjunction of named parts in its module, stated there with the lines they are about.
Handlers that answer several statements are split at every `await`, so two of a kind under
way at once meet at every point; the properties about counters state the overshoot that this
allows and no more (`QuotaNearlyHolds`, `KeysNearCap`, `WebhooksNearCap`).

Where a property has a condition, the excluded case really fails: `MatchIsOwnFinger` up to
the first acknowledgement that comes after its time limit (the packets carry no id);
`AccountsAreSaved` without a failed or overlapping `writeFile`; `KeysKeepLastValue` unless a
POST read before another writer wrote; `LinksEndInAccounts` unless a handler failed after the
link was consumed; `PageSettles` unless the list failed to load or changed behind the page;
`ReceiptIsOnChain` until the owner revokes; `PackReplaysItsHead` up to the limit of the call.

What three of the properties do and do not say:

* `RecordsAreBacked`: each stamp is a time of an event of its own row, and a user stays
  unverified only while the statements of his passes are under way or failed. Which of several
  times stays depends on the order in which the statements land, in the code too. Overviews
  only read, and are not modelled; of the lists, the terminal's search for a user is
  (`RegisterUser`).
* `PolicyIsAudited`: every write of a POST that ended well has its row, and the row of the
  latest write carries the policy in force. A write by SQL has no row, and a POST may fail
  after its UPDATE; the property names both. A key can lose its value to a POST of another
  key that had read the column before (`undone`); `KeysKeepLastValue` says that no other can.
* `PortalHolds`: claims are looked at in the handler's order, row before token, and may come at
  any time from any tab (one from elsewhere at a time, with the jar's claim cookie; a browser
  without the cookie is refused like one whose cookie is gone). A proof may bind after
  the deadline and after the page said so. One claim succeeds per session and is on record
  before its cookie. A stream that is opened on a bound session carries the cookie in its
  headers (`demo-portal.ts:1020-1025`), to whichever browser opened it, without a claim and
  without a row (`Phase1Bound`): "one claim" is not "one cookie". Of a session whose claim token was lost in a restart nothing
  is asked but that nobody is signed in wrongly; its page fails and starts over.

`IotBridge` lets a login lose the account between the statement that reads it and the one
that sets its id (`Detached`); it may do so even if the id is not used, which only adds
behaviours. `uploadCharacteristic` sends a signup back to its first scan where
`classifyRetryable` reads a packet of another kind as a scan too poor.

Two more runs of `MCServices` with one part each:

| Run | Configuration | Shows |
| --- | --- | --- |
| `terminal_upload` (`ServicesUpload.cfg`) | part `bridge` | *violation*: a template is stored without one of its packets |
| `metering_counts` (`ServicesMetering.cfg`) | part `meters` | *violation*: an answered call that no month counts |

`CHECK_DEADLOCK FALSE` in all of these runs too: the requests, rows, turns and mishaps of an
instance are finitely many, and then the model stops. No fairness is assumed in `enrolment`
and `services`, which check safety only.

### Proved

Every property of run `services` is a theorem of `Services`, from `ServicesConstants`: the
sizes are numbers, positive where the code divides by them or starts from one; requests and
ids are finite sets, and there is an id, since the pages start by asking for one; the
sentinels are not members (nor numbers or times, where they stand beside them); the default
policy is a value. `FocusKept` and one lemma
`...Steps` per component (`BridgeSteps`, `MeterSteps`, ...) reduce a step of the sum to a
step of the component that runs; each component then has an inductive invariant of its own.

| Part | Invariant | What it adds to the property | Theorem |
| --- | --- | --- | --- |
| `proof` | `VerifierInv` | memory is the end of the log file; a request carries a good verdict only after its row was appended | `AcceptedLogged`, `VerifierLogReplays` |
| `anchor` | `AnchorInv` | each payload, staged or still in a job's hands, says what a replay up to its terminal row finds, which later rows do not change; the numbers of a pack are in order | `AnchorsReplay`, `PacksReplay` |
| `chain` | `GatewayInv` | only callers that waited are told of a receipt; the contract's count is the number of its identities | `ReceiptsHold` |
| `bridge` | `FileInv` | unless blemished, the file is the memory, or exactly one write of the memory is under way | `AccountsSaved` |
| `bridge` | `BridgeInv` | `FlowsFit`: who is at the sensor, or waits for a packet, holds the lock; `Punctual`, until an acknowledgement is late: the line holds the answer to the waiting flow's command and nothing else, and image and buffers are those of the finger the flow saw, as far as its script has come | `MatchOwnFinger` |
| `policy` | `PolicyInv` | an UPDATE writes over the policy it loaded in every key that is not stale; each write numbered so far has its row, or its row is to come, or it is one of those that have none | `SettingsKept` |
| `webhooks` | `WebhookInv` | an answer under way, and the page's list when no query is, are the rows, or a toggle or deletion is still to end; rows and INSERTs to come are within the overshoot | `SettingsKept` |
| `meters` | `MeterInv`, `StartedInv` | counts of the calls that are counted and not yet counted together, for quota and answers; all of them were started | `LimitsHold` |
| `records` | `RecordsInv` | statements to come name rows that are there and events that passed | `RecordsStayBacked` |
| `accounts` | `AccountsInv` | a handler between its statements has consumed its link and follows it alone; keys and those about to be inserted are within the overshoot | `AccountsStaySound` |
| `portal` | `PortalInv` | a claim past its checks is of a bound session and its token is gone; a submission holds the bind token it took, and no other does; cookies and pages are of bound sessions, in time or not | `PagesStayTrue` |
| `signup` | `ReachedInv` | each answer under way, of a poll or of the phone, tells of a step that was reached | `PagesStayTrue` |
| `waiting` | `WatchInv` | a page names a session only while it waits for it or shows it bound, and has its stream exactly while it waits | `PagesStayTrue` |
| `logs` | `LogInv` | the ring holds the last lines (`RingInv`); the wire ends with the newest (`Carries`); list and pen are runs, and what comes next goes on where they end (`LogPageInv`) | `PagesStayInOrder` |
| `feed` | `FeedsInv` | rows counted and rows on the wire are rows committed, in order | `PagesStayInOrder` |

`TypesKept` (`TypesOK`) follows from these invariants and four small ones about counters and
pages (`PageTyped`, `PortalTypes`, `SignupTypes`, `WaitingTypes`). The conditions named
above are in the theorems too: what is proved of the terminal's login holds up to the first
late acknowledgement, and so on.

## What the code does and its docs do not say

Three are runs that end in a counterexample; `PROJECT.json` quotes the text.

1. `verifyAuditChain` reads rows in text order of their ids and reports honest chains as
   broken once ids gain a digit (`audit.ts:277`, `audit_text_order`). `compliance-pack.ts`
   orders by the same `id::text`.
2. The sensor driver drops every packet of a chunk but the first (`sensor.ts:203`,
   `terminal_upload`).
3. For endpoints without a column of their own the monthly upsert names a column twice and
   always fails (`usage.ts:36`, `metering_counts`).

The others were met while modelling; the models follow the code, and no run is spent on them:

* `pairing_session_already_bound` is also answered for sessions that were locked or expired
  while a proof was verified (`proof-pairing.ts:671`, against `docs/error_codes.md:105`).
* The caps on open pairing sessions (`proof-pairing.ts:420`), API keys (`console.ts:535`) and
  webhooks (`console-webhooks.ts:283`) are a COUNT and then an INSERT; concurrent requests
  exceed them.
* A compliance pack replays at most `chain_limit` rows (1 to 1000000, else 100000) and prints
  a good verdict with the count of all as `rowsChecked` (`compliance-pack.ts:390-396`), which
  line 9 calls the full replay's. The limit is in the model; a pack over it covers less than
  its head.
* Of two POSTs of different keys of the security policy that overlap, the later write puts the
  other's key back (`console-security-policy.ts:307-348`), though "missing key leaves the
  existing value in place" (319-320).
* The demo portal's stream sets the desktop's cookie when it opens on a bound session
  (`demo-portal.ts:1020-1025`), without the claim cookie, the claim and the
  `pairing.desktop_claimed` row that the claim's comments (1366-1382) and
  `docs/threat_model.md:165` ask for.
* A session that a stream reported as expired may still be bound (`proof-pairing.ts:663-668`
  checks the state only). ADR-0009 asks for the deadline at the load, so this is by design;
  the demo page can then show "expired" for a session that is signed in.
* No code calls `expireOverdueSessions` (`proof-pairing.ts:926`), whose comment speaks of an
  hourly sweep.
* Metadata with an undefined value is hashed with the key and stored without it; the replay
  then reports the row (`audit.ts:180`).
* `audit-integrity` without an environment checks the rows of environment NULL, not both
  chains (`admin.ts:105`).
* `platform.ts:511-516` says that a revoked device's fingerprint can be enrolled on a new
  slot; the lookup at 448-459 does not look at the state.
* A session deleted on one pod is still answered by another's cache, and a hydration under
  way puts it back (`session-store.ts:348`); a DELETE that fails or that the INSERT overtakes
  leaves a row which the next boot reads.
* `bridge.ts:849-858` calls the login token reusable; `consumeSession` spends it. Two signups
  of one address at the terminal replace each other (`bridge.ts:276`).
* `verify-signup` tells the caller of a failed statement to try the link again, though it is
  consumed. `SignupComplete` clears its cookie under another path than the one it was set
  at, so it is not cleared.
* The webhook page sends `events` where the server wants `event_filter`, so its create always
  fails, and its PATCH has no route. `security-policy.tsx:153-155` says an edit survives a
  background refetch; one that brings new data replaces it.
* `tenant-auth.ts:9,82` speaks of a sliding window; it is a fixed one.
* `SignIn.tsx` calls the claim idempotent; the token is spent by the first, and a claim whose
  audit row fails strands the desktop (`demo-portal.ts:1430`). The stream's second phase
  cannot deliver the cookie it announces, its headers having left.
* `QrProofLogin.tsx` says its reducer drops late events; it takes those of an older session.
  `/me` answers that arrive after a logout show the person as signed in
  (`demo-portal/src/lib/session.ts:57`).
* `live-logs.tsx` opens an EventSource, which cannot send the key header that
  `admin-logs.ts:7-16` requires, and reads fields that the server does not send.

## Model-checked only

All invariants and action properties of the passing runs and both refinements are theorems.
With TLC stay the liveness properties (`SubmitAnswered`, `StreamSettles`, `AppendSettles`,
`ExpiredForgotten`), since fairness involves ENABLED, which the prover does not handle; and
the three runs that end in a counterexample.

## Not modelled

* Cryptography: Groth16, Poseidon, SHA-256, JWT signing and its key ids are relations on
  inputs; so are the sensor's image comparison and the SMTP, SAML and OIDC providers.
* `proof_hash`, IP addresses, user agents, request bodies that fail validation: no decision
  in these components depends on them.
* Audit writes of handlers are single steps outside `AuditChain`.
* The Android prover (Kotlin) and the face capture library: clients whose requests the server
  models take as they come.
* Overviews, usage reports and other reads that change nothing; e-mail, CORS, host routing,
  health, leads; seeding of the demo tenant; the other dashboard pages, website, circuits and
  scripts: no interleaving of their own, or no shared state.
* `Verifier.sol`, which is generated.

## Plan

1. `IotBridge` with two addresses; the terminal after a late acknowledgement, as what a
   retry can still rely on.
2. `LoginSessions` with a logout on one pod and a read on another, stated as what the
   cache's own expiry bounds.
3. Abstract specifications for components that have none yet: the audit chain as a log with
   atomic appends, the demo portal's claim as a single-use grant, and their refinements.
4. Action properties as theorems: anchors and audit rows are never taken back, a consumed
   link is never parked again.
