------------------------------- MODULE IotBridge -------------------------------
(***************************************************************************)
(* The fingerprint terminal: one-time codes, the sensor behind its serial  *)
(* line, the accounts file and the calls to the central API                *)
(* (iot/src/bridge.ts, otp.ts, sensor.ts, central-api.ts).                 *)
(*                                                                         *)
(* Browsers start flows; a promise chain gives the sensor to one flow at a *)
(* time.  A command is a packet out and an acknowledgement back, without   *)
(* an id: one that comes after its time limit is handed to whoever reads   *)
(* next.  A chunk of the line may hold several packets; what no reader     *)
(* waits for is dropped.  The accounts file is written whole, unlocked.    *)
(*                                                                         *)
(* Data: one e-mail address; a template is the packets that carry it, each *)
(* with its finger; the sensor is never mistaken about a whole template.   *)
(***************************************************************************)
EXTENDS Integers, Sequences, FiniteSets

CONSTANTS
    Flows,          \* browser sessions with the bridge
    Fingers,        \* fingers that may be laid on the sensor
    None,           \* nothing
    Packets,        \* data packets of a template
    MaxAttempts,    \* guesses at a code (5), captures of an enrolment (3)
    MaxRequests,    \* bound: codes asked for
    MaxMishaps      \* bound: time limits, resets and restarts together

VARIABLES
    pending,        \* pending[k]: the last code of that kind, unused
    flow,           \* flow[f]: what the browser session is at
    lock,           \* the flow that holds the sensor
    image,          \* finger of the image buffer
    buf1, buf2,     \* the sensor's two character buffers
    line,           \* packets on their way to the host
    waiter,         \* the flow whose readPacket is waiting
    account, file,  \* the account in memory; in demo-accounts.json
    saves,          \* writeFile calls under way
    blemished,      \* history: a save failed, or two ran at once
    late,           \* history: an acknowledgement came after its time limit
    sim,            \* ZA_SIM_MODE
    requests,       \* codes asked for so far
    mishaps         \* time limits, resets and restarts so far

vars == <<pending, flow, lock, image, buf1, buf2, line, waiter, account, file, saves,
          blemished, late, sim, requests, mishaps>>
sensorVars == <<image, buf1, buf2, line, waiter>>
fileVars == <<file, saves, blemished>>
hostVars == <<account, file, saves, blemished>>
envVars == <<late, sim, requests, mishaps>>

Kinds == {"signup", "login"}
Script(kind) ==
    IF kind = "signup"
    THEN <<"finger", "char1", "removal", "finger", "char2", "combine", "upload">>
    ELSE <<"finger", "char1", "load", "match">>

Template(f) == [n \in 1 .. Packets |-> [finger |-> f, part |-> n]]
Idle == [at |-> "idle", kind |-> "login", step |-> 0, attempt |-> 1, seen |-> None,
         template |-> <<>>, reading |-> FALSE, matched |-> FALSE]

Init ==
    /\ pending = [k \in Kinds |-> [by |-> None, left |-> 0]]
    /\ flow = [f \in Flows |-> Idle] /\ lock = None
    /\ image = None /\ buf1 = <<>> /\ buf2 = <<>>
    /\ line = <<>> /\ waiter = None
    /\ account \in {None} \cup {[template |-> Template(x), user |-> FALSE] : x \in Fingers}
    /\ file = account /\ saves = {} /\ blemished = FALSE
    /\ late = FALSE /\ sim \in BOOLEAN /\ requests = 0 /\ mishaps = 0

-----------------------------------------------------------------------------
(* Codes and tokens (otp.ts) *)

NoCode == [by |-> None, left |-> 0]

request(f, k) == pending' = [pending EXCEPT ![k] = [by |-> f, left |-> MaxAttempts]]

RequestOtp(f, k) ==
    /\ flow[f].at = "idle" /\ (k = "signup") = (account = None)
    /\ requests < MaxRequests /\ requests' = requests + 1
    /\ request(f, k)
    /\ flow' = [flow EXCEPT ![f] = [Idle EXCEPT !.at = "code", !.kind = k]]
    /\ UNCHANGED <<lock, sensorVars, hostVars, late, sim, mishaps>>

\* The code of another browser's request has replaced one's own.
verify(f, k, right) ==
    /\ pending[k].left > 0 /\ (right => pending[k].by = f)
    /\ pending' = [pending EXCEPT ![k] =
                      IF right \/ pending[k].left = 1 THEN NoCode
                      ELSE [pending[k] EXCEPT !.left = pending[k].left - 1]]

VerifyOtp(f) ==
    /\ flow[f].at = "code"
    /\ \E right \in BOOLEAN :
          /\ verify(f, flow[f].kind, right)
          /\ flow' = IF right THEN [flow EXCEPT ![f] = [@ EXCEPT !.at = "token"]]
                                ELSE flow
    /\ UNCHANGED <<lock, sensorVars, hostVars, envVars>>

\* A code, a token or the person's patience runs out.
Lapse(f) ==
    /\ flow[f].at \in {"code", "token"}
    /\ flow' = [flow EXCEPT ![f] = Idle]
    /\ pending' = [k \in Kinds |-> IF pending[k].by = f THEN NoCode ELSE pending[k]]
    /\ UNCHANGED <<lock, sensorVars, hostVars, envVars>>

-----------------------------------------------------------------------------
(* Flows and the sensor's lock *)

consumeSession(f) ==
    flow[f].at = "token" /\ flow' = [flow EXCEPT ![f] = [@ EXCEPT !.at = "queued"]]

\* The token is taken, and for a signup the look at accounts, before the lock.
TakeToken(f) ==
    /\ consumeSession(f) /\ (flow[f].kind = "signup" => account = None)
    /\ UNCHANGED <<pending, lock, sensorVars, hostVars, envVars>>

NoLock == TRUE
Unlocked == lock = None

\* A login takes its account here, and keeps this copy.
withSensorLock(f) ==
    /\ flow[f].at = "queued" /\ ~sim /\ Unlocked
    /\ lock' = f
    /\ flow' = [flow EXCEPT ![f] =
                   [@ EXCEPT !.at = "sensor", !.step = 1,
                             !.template = IF account = None \/ flow[f].kind = "signup"
                                          THEN <<>> ELSE account.template]]
    /\ UNCHANGED <<pending, sensorVars, hostVars, envVars>>

\* A removal that nobody makes before a new attempt is not minded.
Fail(f) ==
    IF flow[f].at = "sensor" /\ flow[f].step = 0
    THEN flow' = [flow EXCEPT ![f] = [@ EXCEPT !.step = 1]] /\ UNCHANGED lock
    ELSE flow' = [flow EXCEPT ![f] = Idle] /\ lock' = None

-----------------------------------------------------------------------------
(* The sensor: it runs a command, on the finger it finds, and acknowledges it *)

Command(f) == IF flow[f].step = 0 THEN "removal" ELSE Script(flow[f].kind)[flow[f].step]
Ack(c, ok) == [ack |-> TRUE, cmd |-> c, ok |-> ok]
FingerOf(buf) == buf[1].finger

\* The MATCH command; half a template of the same finger may match or not.
Matches ==
    IF buf1 = <<>> \/ buf2 = <<>> \/ \E i \in DOMAIN buf2 : buf2[i].finger # FingerOf(buf1)
    THEN {FALSE}
    ELSE IF Len(buf2) = Packets THEN {TRUE} ELSE BOOLEAN

downloadCharacteristic(f) ==
    /\ Command(f) = "load"
    /\ buf2' = flow[f].template /\ line' = Append(line, Ack("load", TRUE))
    /\ UNCHANGED <<image, buf1, flow>>

Execute(f) ==
    LET c == Command(f) IN
    \/ /\ c \in {"finger", "removal"}
       /\ \/ line' = Append(line, Ack(c, FALSE)) /\ UNCHANGED <<image, flow>>
          \/ \E x \in Fingers :
                /\ image' = x /\ line' = Append(line, Ack(c, TRUE))
                /\ flow' = IF c = "finger" THEN [flow EXCEPT ![f] = [@ EXCEPT !.seen = x]]
                           ELSE flow
       /\ UNCHANGED <<buf1, buf2>>
    \/ /\ c \in {"char1", "char2"} /\ line' = Append(line, Ack(c, FALSE))
       /\ UNCHANGED <<image, buf1, buf2, flow>>
    \/ /\ c = "char1" /\ buf1' = Template(image) /\ line' = Append(line, Ack(c, TRUE))
       /\ UNCHANGED <<image, buf2, flow>>
    \/ /\ c = "char2" /\ buf2' = Template(image) /\ line' = Append(line, Ack(c, TRUE))
       /\ UNCHANGED <<image, buf1, flow>>
    \/ /\ c = "combine" /\ line' = Append(line, Ack(c, buf1 = buf2))
       /\ UNCHANGED <<image, buf1, buf2, flow>>
    \/ /\ c = "upload" /\ line' = Append(line, Ack(c, TRUE)) \o
                                  [i \in DOMAIN buf1 |-> [buf1[i] EXCEPT !.part = i]]
       /\ UNCHANGED <<image, buf1, buf2, flow>>
    \/ downloadCharacteristic(f)
    \/ /\ c = "match" /\ \E ok \in Matches : line' = Append(line, Ack(c, ok))
       /\ UNCHANGED <<image, buf1, buf2, flow>>

\* A login without an account ends after its capture.
cmd(f) ==
    /\ flow[f].at = "sensor" /\ waiter = None
    /\ flow[f].template = <<>> => Command(f) # "load"
    /\ Execute(f) /\ waiter' = f
    /\ UNCHANGED <<pending, lock, hostVars, envVars>>

NoAccount(f) ==
    /\ flow[f].at = "sensor" /\ waiter = None /\ Command(f) = "load" /\ flow[f].template = <<>>
    /\ Fail(f) /\ UNCHANGED <<pending, sensorVars, hostVars, envVars>>

-----------------------------------------------------------------------------
(* The driver: what the reader does with the packet it gets *)

Advance(f) ==
    /\ flow' = [flow EXCEPT ![f] = [@ EXCEPT !.step = flow[f].step + 1]]
    /\ waiter' = None /\ UNCHANGED lock
Again(f) == waiter' = None /\ UNCHANGED <<flow, lock>>
Throw(f) == Fail(f) /\ waiter' = None

\* The whole capture again, if an attempt is left.
Retry(f) ==
    IF flow[f].attempt = MaxAttempts THEN Throw(f)
    ELSE /\ flow' = [flow EXCEPT ![f] =
                        [@ EXCEPT !.attempt = flow[f].attempt + 1, !.step = 0, !.seen = None,
                                  !.reading = FALSE, !.template = <<>>]]
         /\ waiter' = None /\ UNCHANGED lock

\* classifyRetryable: a signup goes on from a scan too fuzzy, or two that differ, and
\* from no other confirmation.
Refused(f) == (flow[f].kind = "signup" /\ Retry(f)) \/ Throw(f)

\* The pid of an acknowledgement among the data, 0x7, reads like a fuzzy scan's code.
uploadCharacteristic(f, p) ==
    IF "ack" \in DOMAIN p
    THEN IF flow[f].reading THEN Retry(f)
         ELSE IF ~p.ok THEN Refused(f)
         ELSE flow' = [flow EXCEPT ![f] = [@ EXCEPT !.reading = TRUE]] /\ UNCHANGED <<lock, waiter>>
    ELSE IF ~flow[f].reading THEN Throw(f)
    ELSE LET read == [flow[f] EXCEPT !.template = Append(flow[f].template, p)] IN
         IF p.part < Packets
         THEN flow' = [flow EXCEPT ![f] = read] /\ UNCHANGED <<lock, waiter>>
         ELSE /\ flow' = [flow EXCEPT ![f] = [read EXCEPT !.at = "derived"]]
              /\ waiter' = None /\ UNCHANGED lock

match(f, p) ==
    IF ~p.ok \/ p.cmd # "match" THEN Throw(f)
    ELSE /\ flow' = [flow EXCEPT ![f] = [@ EXCEPT !.at = "sync", !.matched = TRUE]]
         /\ waiter' = None /\ lock' = None

\* The answer of GET_IMAGE to nobody's finger.
NothingSeen(p) == ~p.ok /\ p.cmd \in {"finger", "removal"}

Handle(f, p) ==
    LET c == Command(f) IN
    IF c = "upload" THEN uploadCharacteristic(f, p)
    ELSE IF "ack" \notin DOMAIN p THEN Throw(f)
    ELSE IF c = "match" THEN match(f, p)
    ELSE IF c = "removal" THEN IF NothingSeen(p) THEN Advance(f) ELSE Again(f)
    ELSE IF p.ok THEN Advance(f)
    ELSE IF c = "finger" /\ NothingSeen(p) THEN Again(f)
    ELSE Refused(f)

\* A chunk with n packets: the first to the reader, the others to nobody.
onData(n) ==
    /\ n \in 1 .. Len(line) /\ line' = SubSeq(line, n + 1, Len(line))
    /\ IF waiter # None THEN Handle(waiter, Head(line)) ELSE UNCHANGED <<flow, lock, waiter>>
    /\ UNCHANGED <<pending, image, buf1, buf2, hostVars, envVars>>

\* No packet in time; the command is not withdrawn and its answer still comes.
Timeout(f) ==
    /\ waiter = f /\ mishaps < MaxMishaps /\ mishaps' = mishaps + 1
    /\ Throw(f) /\ late' = TRUE
    /\ UNCHANGED <<pending, image, buf1, buf2, line, hostVars, sim, requests>>

\* No finger, or no removal, within half a minute.
NoFinger(f) ==
    /\ flow[f].at = "sensor" /\ waiter = None /\ Command(f) \in {"finger", "removal"}
    /\ Fail(f) /\ UNCHANGED <<pending, sensorVars, hostVars, envVars>>

-----------------------------------------------------------------------------
(* Accounts *)

saveAccounts(by, a) ==
    /\ saves' = saves \cup {[by |-> by, account |-> a]}
    /\ blemished' = (blemished \/ saves # {})
    /\ UNCHANGED file

\* accounts.set: a second signup of the address replaces the first.
SetAccount(f, t) ==
    LET a == [template |-> t, user |-> FALSE] IN
    /\ account' = a /\ saveAccounts(f, a)
    /\ flow' = [flow EXCEPT ![f] = [@ EXCEPT !.at = "saving"]]

enroll(f) ==
    /\ flow[f].at = "derived" /\ SetAccount(f, flow[f].template)
    /\ UNCHANGED <<pending, lock, sensorVars, envVars>>

\* The proof does not verify, or its prover throws.
ProofFails(f) ==
    /\ flow[f].at = "derived" /\ Fail(f)
    /\ UNCHANGED <<pending, sensorVars, hostVars, envVars>>

simEnroll(f) ==
    /\ sim /\ flow[f].at = "queued" /\ flow[f].kind = "signup" /\ account = None
    /\ \E x \in Fingers : SetAccount(f, Template(x))
    /\ UNCHANGED <<pending, lock, sensorVars, envVars>>

simAuthenticate(f) ==
    /\ sim /\ flow[f].at = "queued" /\ flow[f].kind = "login"
    /\ flow' = [flow EXCEPT ![f] = IF account = None THEN Idle ELSE [@ EXCEPT !.at = "sync"]]
    /\ UNCHANGED <<pending, lock, sensorVars, hostVars, envVars>>

\* The write lands; a signup gives the sensor back, a back-fill is done.
SaveLands(s) ==
    /\ s \in saves /\ saves' = saves \ {s} /\ file' = s.account
    /\ LET f == s.by IN
          IF f \in Flows
          THEN /\ flow' = [flow EXCEPT ![f] =
                              [@ EXCEPT !.at = IF flow[f].at = "saving" THEN "sync" ELSE "record"]]
               /\ lock' = IF lock = f THEN None ELSE lock
          ELSE UNCHANGED <<flow, lock>>
    /\ UNCHANGED <<pending, sensorVars, account, blemished, envVars>>

SaveFails(s) ==
    /\ s \in saves /\ saves' = saves \ {s} /\ blemished' = TRUE
    /\ flow' = [f \in Flows |-> IF f = s.by THEN Idle ELSE flow[f]]
    /\ lock' = IF lock = s.by THEN None ELSE lock
    /\ UNCHANGED <<pending, sensorVars, account, file, envVars>>

reset ==
    /\ mishaps < MaxMishaps /\ mishaps' = mishaps + 1
    /\ account' = None /\ saveAccounts("reset", None)
    /\ UNCHANGED <<pending, flow, lock, sensorVars, late, sim, requests>>

\* A write that was under way is done, not done, or half done (then unreadable).
Restart ==
    /\ mishaps < MaxMishaps /\ mishaps' = mishaps + 1
    /\ file' \in {file} \cup {s.account : s \in saves} \cup (IF saves = {} THEN {} ELSE {None})
    /\ account' = file' /\ saves' = {} /\ blemished' = FALSE
    /\ flow' = [f \in Flows |-> Idle] /\ lock' = None /\ waiter' = None /\ line' = <<>>
    /\ pending' = [k \in Kinds |-> NoCode]
    /\ UNCHANGED <<image, buf1, buf2, late, sim, requests>>

-----------------------------------------------------------------------------
(* The central API: best effort after the local result *)

NotSaved(f) ==
    /\ account' = [account EXCEPT !.user = TRUE]
    /\ flow' = [flow EXCEPT ![f] = [@ EXCEPT !.at = "record"]] /\ UNCHANGED fileVars

\* The user's id is put on the account that the address has by now.
Attributed(f) ==
    LET a == [account EXCEPT !.user = TRUE] IN
    /\ account' = a /\ saveAccounts(f, a)
    /\ flow' = [flow EXCEPT ![f] = [@ EXCEPT !.at = "filing"]]

\* A login put it on the account it read before it asked, which a reset or a signup has
\* since taken out of the map; the map is written as it is.
Detached(f) ==
    /\ saveAccounts(f, account) /\ UNCHANGED account
    /\ flow' = [flow EXCEPT ![f] = [@ EXCEPT !.at = "filing"]]

\* A signup looks the account up when the API has answered; a login has looked before,
\* at an account that was there or not, with its id or without.
registerUser(f) ==
    /\ flow[f].at = "sync"
    /\ \/ account # None /\ Attributed(f)
       \/ flow[f].kind = "login" /\ Detached(f)
       \/ /\ account = None \/ flow[f].kind = "login"
          /\ flow' = [flow EXCEPT ![f] = [@ EXCEPT !.at = "record"]] /\ UNCHANGED hostVars
    /\ UNCHANGED <<pending, lock, sensorVars, envVars>>

\* The verification and attendance events of a login, or a call that failed.
Finish(f) ==
    /\ flow[f].at \in {"sync", "record"} /\ flow' = [flow EXCEPT ![f] = Idle]
    /\ UNCHANGED <<pending, lock, sensorVars, hostVars, envVars>>

Next ==
    \/ \E f \in Flows :
          \/ \E k \in Kinds : RequestOtp(f, k)
          \/ VerifyOtp(f) \/ Lapse(f) \/ TakeToken(f) \/ withSensorLock(f)
          \/ cmd(f) \/ NoAccount(f) \/ Timeout(f) \/ NoFinger(f)
          \/ enroll(f) \/ ProofFails(f) \/ simEnroll(f) \/ simAuthenticate(f)
          \/ registerUser(f) \/ Finish(f)
    \/ \E n \in 1 .. Packets + 2 : onData(n)
    \/ \E s \in saves : SaveLands(s) \/ SaveFails(s)
    \/ reset \/ Restart

-----------------------------------------------------------------------------
(* Properties *)

TypeOK ==
    /\ lock \in Flows \cup {None}
    /\ waiter \in Flows \cup {None}
    /\ \A k \in Kinds : pending[k].left \in 0 .. MaxAttempts
    /\ \A f \in Flows : flow[f].step \in 0 .. 7 /\ flow[f].attempt \in 1 .. MaxAttempts

\* A login matches only if the finger this flow saw is the account's it took, whatever
\* other flows want of the one pair of buffers (bridge.ts:145-153, 355-440).  Nothing is
\* said once an acknowledgement came after its time limit: the next flow then takes it
\* for its own, and may go on with the image of the flow before (sensor.ts:186-250).
MatchIsOwnFinger ==
    ~late => \A f \in Flows : flow[f].matched =>
       \A i \in DOMAIN flow[f].template : flow[f].template[i].finger = flow[f].seen

\* What a flow put into memory is in the file once no write is under way, unless a
\* write failed or two overlapped (bridge.ts:193-197, 342-343, 459-465, 575-580).
AccountsAreSaved == saves = {} /\ ~blemished => file = account

\* "Returns the concatenated payload of all the data packets the sensor sends after
\* the ACK" (sensor.ts): every template the host keeps is whole.
UploadIsWhole == account # None => Len(account.template) = Packets
=============================================================================
