------------------------- MODULE Registration_proofs -------------------------
(***************************************************************************)
(* Theorems about the registration ceremony and the devices table under    *)
(* it, for any number of devices, slots, claims, sessions, people, calls   *)
(* and tenants, and any set of messages.                                   *)
(***************************************************************************)
EXTENDS Registration, TLAPS

-----------------------------------------------------------------------------
(* The devices table *)

\* What a row says by itself: until it is enrolled it has no external id and no
\* claim behind it, its code is the last one shown, and its fingerprint is its
\* external id.
RowOK(r) ==
    /\ r.code # 0 <=> r.state = "pending"
    /\ r.state \in {"absent", "pending"} => r.claims = 0 /\ r.used = 0 /\ r.ext = None
    /\ r.state = "pending" => r.code = r.issued
    /\ r.fp # None => r.ext = r.fp
    /\ r.claims <= 1 /\ r.used \in {0, r.issued}

\* An external id belongs to one row of a scope.
ExtUnique ==
    \A d, e \in Devices :
        d # e /\ Scope[d] = Scope[e] /\ device[d].ext # None => device[d].ext # device[e].ext

Held(c) == claim[c].pc \in {"collide", "write"}

\* A claim in its transaction holds a slot that is still pending with the code it
\* showed, and holds it alone.
ClaimHolds(c) ==
    Held(c) => /\ claim[c].slot \in Devices /\ claim[c].fp \in Fingerprints
               /\ device[claim[c].slot].state = "pending"
               /\ device[claim[c].slot].code = claim[c].code
               /\ \A b \in Claims \ {c} : Held(b) => claim[b].slot # claim[c].slot

DeviceInv ==
    /\ DeviceTypeOK
    /\ \A d \in Devices : RowOK(device[d])
    /\ ExtUnique
    /\ \A c \in Claims : ClaimHolds(c)

\* No devices and no codes at first.
LEMMA DeviceInvInit == DevInit => DeviceInv
BY DeviceConstants
   DEF DevInit, DeviceInv, DeviceTypeOK, DeviceRow, Claim, NoClaim, AbsentDevice, RowOK,
       ExtUnique, ClaimHolds, Held

\* A statement that writes one row keeps the invariant if the row it leaves is a
\* good one, takes no other row's external id, and the claims it leaves on the row
\* still find it pending with their code.
LEMMA RowWritten ==
    ASSUME DeviceInv, NEW d \in Devices, NEW r \in DeviceRow, RowOK(r),
           device' = [device EXCEPT ![d] = r],
           r.ext = device[d].ext \/ ~ExtTaken(d, r.ext),
           claim' \in [Claims -> Claim],
           \A c \in Claims : claim'[c] = claim[c] \/ claim'[c].pc = "idle",
           \A c \in Claims : claim'[c].pc # "idle" /\ claim[c].slot = d =>
               r.state = device[d].state /\ r.code = device[d].code
    PROVE  DeviceInv'
<1>1. /\ device \in [Devices -> DeviceRow]
      /\ device' \in [Devices -> DeviceRow]
      /\ device'[d] = r /\ \A e \in Devices \ {d} : device'[e] = device[e]
  BY DEF DeviceInv, DeviceTypeOK
<1>2. \A e \in Devices : RowOK(device[e])'
  BY <1>1 DEF DeviceInv, RowOK
<1>3. DeviceTypeOK'
  BY <1>1, <1>2 DEF DeviceTypeOK, RowOK
<1>4. ExtUnique'
  BY <1>1 DEF DeviceInv, ExtUnique, ExtTaken
<1>5. ASSUME NEW c \in Claims PROVE ClaimHolds(c)'
  <2> SUFFICES ASSUME Held(c)' PROVE ClaimHolds(c)'
    BY DEF ClaimHolds
  <2>1. claim'[c] = claim[c] /\ Held(c)
    BY DEF Held
  <2>2. ClaimHolds(c)
    BY DEF DeviceInv
  <2>3. \A b \in Claims : Held(b)' => Held(b) /\ claim'[b] = claim[b]
    BY DEF Held
  <2>4. claim[c].slot = d => r.state = device[d].state /\ r.code = device[d].code
    BY <2>1 DEF Held
  <2> QED
    BY <1>1, <2>1, <2>2, <2>3, <2>4 DEF ClaimHolds
<1> QED
  BY <1>2, <1>3, <1>4, <1>5 DEF DeviceInv

\* No claim is on a row that is not locked.
LEMMA Unlocked ==
    ASSUME DeviceInv, NEW d \in Devices, ~Locked(d)
    PROVE  \A c \in Claims : claim[c].pc # "idle" => claim[c].slot # d
BY DEF DeviceInv, DeviceTypeOK, Claim, Locked

\* Claims that only end keep the invariant.
LEMMA ClaimsEnd ==
    ASSUME DeviceInv, UNCHANGED device, claim' \in [Claims -> Claim],
           \A c \in Claims : claim'[c] = claim[c] \/ claim'[c].pc = "idle"
    PROVE  DeviceInv'
<1>1. \A b \in Claims : Held(b)' => Held(b) /\ claim'[b] = claim[b]
  BY DEF Held
<1>2. \A c \in Claims : ClaimHolds(c)'
  BY <1>1 DEF DeviceInv, ClaimHolds
<1> QED
  BY <1>2 DEF DeviceInv, DeviceTypeOK, RowOK, ExtUnique

\* The codes a slot starts with and ends with.
LEMMA FirstCodes == 0 \in 0..MaxCodes /\ 1 \in 0..MaxCodes
BY DeviceConstants

\* The empty record of a claim.
LEMMA NoClaimType == NoClaim \in Claim /\ NoClaim.pc = "idle"
BY DeviceConstants DEF NoClaim, Claim

\* One statement of an operator, or the passing of a code's deadline.
LEMMA OperatorSteps ==
    ASSUME DeviceInv, NEW d \in Devices,
           \/ \E ext \in Fingerprints \cup {None} : CreateDevice(d, ext)
           \/ IssueEnrollmentCode(d) \/ RegenerateEnrollmentCode(d)
           \/ RevokeDevice(d) \/ CodeExpires(d)
    PROVE  DeviceInv'
<1>1. device \in [Devices -> DeviceRow] /\ claim \in [Claims -> Claim] /\ RowOK(device[d])
  BY DEF DeviceInv, DeviceTypeOK
<1>2. device[d] \in DeviceRow
  BY <1>1
<1>3. claim' = claim
  BY DEF CreateDevice, IssueEnrollmentCode, RegenerateEnrollmentCode, RevokeDevice,
         CodeExpires
<1>4. \A c \in Claims : claim[c].pc # "idle" /\ claim[c].slot = d =>
         device[d].state = "pending"
  BY <1>1 DEF DeviceInv, ClaimHolds, Held, Claim
<1>5. ASSUME NEW ext \in Fingerprints \cup {None}, CreateDevice(d, ext) PROVE DeviceInv'
  <2> DEFINE r == [device[d] EXCEPT !.state = "enrolled", !.ext = ext]
  <2>1. device' = [device EXCEPT ![d] = r] /\ device[d].state = "absent" /\ ~ExtTaken(d, ext)
    BY <1>5 DEF CreateDevice
  <2>2. r \in DeviceRow
    BY <1>2 DEF DeviceRow
  <2>3. RowOK(r) /\ r.ext = ext
    BY <1>1, <1>2, <2>1 DEF DeviceRow, RowOK
  <2>4. \A c \in Claims : claim'[c].pc # "idle" => claim[c].slot # d
    BY <1>3, <1>4, <2>1
  <2> HIDE DEF r
  <2> QED
    BY <1>1, <1>3, <2>1, <2>2, <2>3, <2>4, RowWritten
<1>6. CASE IssueEnrollmentCode(d)
  <2> DEFINE r == [device[d] EXCEPT !.state = "pending", !.code = 1, !.issued = 1,
                                    !.fresh = TRUE]
  <2>1. device' = [device EXCEPT ![d] = r] /\ device[d].state = "absent"
    BY <1>6 DEF IssueEnrollmentCode
  <2>2. r \in DeviceRow
    BY <1>2, FirstCodes DEF DeviceRow
  <2>3. RowOK(r) /\ r.ext = device[d].ext
    BY <1>1, <1>2, <2>1 DEF DeviceRow, RowOK
  <2>4. \A c \in Claims : claim'[c].pc # "idle" => claim[c].slot # d
    BY <1>3, <1>4, <2>1
  <2> HIDE DEF r
  <2> QED
    BY <1>1, <1>3, <2>1, <2>2, <2>3, <2>4, RowWritten
<1>7. CASE RegenerateEnrollmentCode(d)
  <2> DEFINE r == [device[d] EXCEPT !.code = device[d].issued + 1,
                                    !.issued = device[d].issued + 1, !.fresh = TRUE]
  <2>1. /\ device' = [device EXCEPT ![d] = r] /\ device[d].state = "pending" /\ ~Locked(d)
        /\ device[d].issued < MaxCodes
    BY <1>7 DEF RegenerateEnrollmentCode
  <2>2. device[d].issued + 1 \in 0..MaxCodes /\ device[d].issued + 1 # 0
    BY <1>2, <2>1, DeviceConstants DEF DeviceRow
  <2>3. r \in DeviceRow
    BY <1>2, <2>2 DEF DeviceRow
  <2>4. RowOK(r) /\ r.ext = device[d].ext
    BY <1>1, <1>2, <2>1, <2>2 DEF DeviceRow, RowOK
  <2>5. \A c \in Claims : claim'[c].pc # "idle" => claim[c].slot # d
    BY <1>3, <2>1, Unlocked
  <2> HIDE DEF r
  <2> QED
    BY <1>1, <1>3, <2>1, <2>3, <2>4, <2>5, RowWritten
<1>8. CASE RevokeDevice(d)
  <2> DEFINE r == [device[d] EXCEPT !.state = "revoked", !.code = 0, !.fresh = FALSE]
  <2>1. device' = [device EXCEPT ![d] = r] /\ device[d].state # "absent" /\ ~Locked(d)
    BY <1>8 DEF RevokeDevice
  <2>2. r \in DeviceRow
    BY <1>2, FirstCodes DEF DeviceRow
  <2>3. RowOK(r) /\ r.ext = device[d].ext
    BY <1>1, <1>2, <2>1 DEF DeviceRow, RowOK
  <2>4. \A c \in Claims : claim'[c].pc # "idle" => claim[c].slot # d
    BY <1>3, <2>1, Unlocked
  <2> HIDE DEF r
  <2> QED
    BY <1>1, <1>3, <2>1, <2>2, <2>3, <2>4, RowWritten
<1>9. CASE CodeExpires(d)
  <2> DEFINE r == [device[d] EXCEPT !.fresh = FALSE]
  <2>1. device' = [device EXCEPT ![d] = r]
    BY <1>9 DEF CodeExpires
  <2>2. r \in DeviceRow
    BY <1>2 DEF DeviceRow
  <2>3. /\ RowOK(r) /\ r.ext = device[d].ext
        /\ r.state = device[d].state /\ r.code = device[d].code
    BY <1>1, <1>2 DEF DeviceRow, RowOK
  <2> HIDE DEF r
  <2> QED
    BY <1>1, <1>3, <2>1, <2>2, <2>3, RowWritten
<1> QED
  BY <1>5, <1>6, <1>7, <1>8, <1>9

\* The three steps of a claim, and its rollback.
LEMMA ClaimSteps ==
    ASSUME DeviceInv, NEW c \in Claims,
           \/ \E d \in Devices, k \in 1..MaxCodes, f \in Fingerprints :
                 ClaimSelect(c, d, k, f)
           \/ ClaimStep(c) \/ ClaimFails(c)
    PROVE  DeviceInv'
<1>1. device \in [Devices -> DeviceRow] /\ claim \in [Claims -> Claim] /\ ClaimHolds(c)
  BY DEF DeviceInv, DeviceTypeOK
<1>2. claim[c] \in Claim
  BY <1>1
<1>3. ASSUME NEW d \in Devices, NEW k \in 1..MaxCodes, NEW f \in Fingerprints,
             ClaimSelect(c, d, k, f)
      PROVE  DeviceInv'
  <2> DEFINE new == [pc |-> "collide", slot |-> d, code |-> k, fp |-> f, collided |-> FALSE]
  <2>1. /\ claim' = [claim EXCEPT ![c] = new] /\ device' = device /\ ~Locked(d)
        /\ device[d].state = "pending" /\ device[d].code = k
    BY <1>3 DEF ClaimSelect
  <2>2. new \in Claim
    BY DEF Claim
  <2>3. claim' \in [Claims -> Claim]
    BY <1>1, <2>1, <2>2
  <2>4. claim'[c] = new /\ \A b \in Claims \ {c} : claim'[b] = claim[b]
    BY <1>1, <2>1
  <2>5. \A b \in Claims : Held(b) => claim[b].slot # d
    BY <2>1 DEF Held, Locked
  <2>6. ASSUME NEW b \in Claims PROVE ClaimHolds(b)'
    <3>1. ClaimHolds(b)
      BY DEF DeviceInv
    <3>2. CASE b = c
      BY <2>1, <2>4, <2>5, <3>2 DEF ClaimHolds, Held
    <3>3. CASE b # c
      BY <2>1, <2>4, <2>5, <3>1, <3>3 DEF ClaimHolds, Held
    <3> QED
      BY <3>2, <3>3
  <2> QED
    BY <2>1, <2>3, <2>6 DEF DeviceInv, DeviceTypeOK, ExtUnique
<1>4. CASE ClaimCollision(c)
  <2>1. device' = device
    BY <1>4 DEF ClaimCollision
  <2>2. CASE Collides(c)
    <3> DEFINE new == [NoClaim EXCEPT !.collided = TRUE]
    <3>1. claim' = [claim EXCEPT ![c] = new] /\ new \in Claim /\ new.pc = "idle"
      BY <1>4, <2>2, NoClaimType DEF ClaimCollision, Claim, NoClaim
    <3> QED
      BY <1>1, <2>1, <3>1, ClaimsEnd
  <2>3. CASE ~Collides(c)
    <3> DEFINE new == [claim[c] EXCEPT !.pc = "write"]
    <3>1. claim' = [claim EXCEPT ![c] = new] /\ Held(c)
      BY <1>4, <2>3 DEF ClaimCollision, Held
    <3>2. /\ new \in Claim /\ new.pc = "write" /\ new.slot = claim[c].slot
          /\ new.code = claim[c].code /\ new.fp = claim[c].fp
      BY <1>2 DEF Claim
    <3>3. claim' \in [Claims -> Claim]
      BY <1>1, <3>1, <3>2
    <3>4. claim'[c] = new /\ \A b \in Claims \ {c} : claim'[b] = claim[b]
      BY <1>1, <3>1
    <3>5. ASSUME NEW b \in Claims PROVE ClaimHolds(b)'
      <4>1. ClaimHolds(b)
        BY DEF DeviceInv
      <4>2. \A a \in Claims : Held(a)' => Held(a)
        BY <3>1, <3>4 DEF Held
      <4>3. \A a \in Claims : /\ claim'[a].slot = claim[a].slot
                              /\ claim'[a].code = claim[a].code /\ claim'[a].fp = claim[a].fp
        BY <3>2, <3>4
      <4> QED
        BY <2>1, <4>1, <4>2, <4>3 DEF ClaimHolds
    <3> QED
      BY <2>1, <3>3, <3>5 DEF DeviceInv, DeviceTypeOK, ExtUnique
  <2> QED
    BY <2>2, <2>3
<1>5. CASE ClaimWrite(c)
  <2> DEFINE d == claim[c].slot
             f == claim[c].fp
  <2>1. claim' = [claim EXCEPT ![c] = NoClaim] /\ Held(c)
    BY <1>5 DEF ClaimWrite, Answer, Held
  <2>2. CASE ExtTaken(d, f)
    BY <1>1, <1>5, <2>1, <2>2, NoClaimType, ClaimsEnd DEF ClaimWrite
  <2>3. CASE ~ExtTaken(d, f)
    <3>1. d \in Devices /\ f \in Fingerprints
      BY <1>1, <2>1 DEF ClaimHolds
    <3> DEFINE r == [device[d] EXCEPT !.state = "enrolled", !.ext = f, !.fp = f, !.code = 0,
                       !.fresh = FALSE, !.claims = device[d].claims + 1, !.used = claim[c].code]
    <3>2. device[d] \in DeviceRow /\ RowOK(device[d]) /\ claim[c].code \in 0..MaxCodes
      BY <1>1, <1>2, <3>1 DEF DeviceInv, Claim
    <3>3. /\ device' = [device EXCEPT ![d] = r]
          /\ device[d].state = "pending" /\ device[d].code = claim[c].code
      BY <1>1, <1>5, <2>1, <2>3 DEF ClaimWrite, ClaimHolds
    <3>4. device[d].claims = 0 /\ device[d].issued = claim[c].code
      BY <3>2, <3>3 DEF RowOK
    <3>5. r \in DeviceRow
      <4>1. device[d].claims + 1 \in 0..2
        BY <3>4
      <4> QED
        BY <3>1, <3>2, <4>1, FirstCodes DEF DeviceRow
    <3>6. RowOK(r) /\ r.ext = f
      BY <3>1, <3>2, <3>3, <3>4 DEF DeviceRow, RowOK
    <3>7. \A b \in Claims : claim'[b].pc # "idle" => b # c /\ claim'[b] = claim[b]
      BY <1>1, <2>1, NoClaimType
    <3>8. \A b \in Claims : claim'[b].pc # "idle" => claim[b].slot # d
      BY <1>1, <2>1, <3>7 DEF ClaimHolds, Held, Claim
    <3>9. claim' \in [Claims -> Claim] /\ claim'[c].pc = "idle"
      BY <1>1, <2>1, NoClaimType
    <3> HIDE DEF r, d, f
    <3> QED
      BY <2>3, <3>1, <3>3, <3>5, <3>6, <3>7, <3>8, <3>9, RowWritten
  <2> QED
    BY <2>2, <2>3
<1>6. CASE ClaimFails(c)
  BY <1>1, <1>6, NoClaimType, ClaimsEnd DEF ClaimFails, Answer
<1> QED
  BY <1>3, <1>4, <1>5, <1>6 DEF ClaimStep

\* The table's own steps.
LEMMA DeviceSteps == DeviceInv /\ DevNext => DeviceInv'
BY OperatorSteps, ClaimSteps DEF DevNext

-----------------------------------------------------------------------------
(* The ceremony *)

Busy(c) == call[c].pc \in {"prove", "write"}

\* A call in its transaction holds its session alone, in the state its step
\* awaits; one that verifies carries the person of the session, and writes only
\* after that person's proof was accepted.
CallHolds(c) ==
    Busy(c) =>
        LET m == call[c].in
        IN  /\ m \in Messages
            /\ session[m.session].state = AwaitedBy(m.op)
            /\ call[c].pc = "prove" => m.op = "verify"
            /\ m.op = "verify" =>
                  /\ session[m.session].person = m.person
                  /\ call[c].pc = "write" => proved[m.session] = {m.person}
            /\ \A b \in Calls \ {c} : Busy(b) => call[b].in.session # m.session

\* What a session has proved so far is at most the possession of the commitment
\* submitted to it; a completed one has its user.
SessionOK(s) ==
    /\ session[s].state \in {"absent", "awaiting_device", "awaiting_commitment"} =>
          proved[s] = {}
    /\ proved[s] \subseteq {session[s].person}
    /\ session[s].state \in {"awaiting_verification", "completed"} =>
          session[s].person \in Persons
    /\ session[s].state = "completed" =>
          \E u \in users : u.session = s /\ u.person = session[s].person

\* A user is the outcome of a completed session.
UserOK(u) ==
    /\ session[u.session].state = "completed"
    /\ u.person = session[u.session].person /\ u.device = session[u.session].device
    /\ proved[u.session] = {u.person}

CeremonyInv ==
    /\ TypeOK /\ DeviceInv
    /\ \A c \in Calls : CallHolds(c)
    /\ proved \in [Sessions -> SUBSET Persons]
    /\ \A s \in Sessions : SessionOK(s)
    /\ \A u \in users : UserOK(u)

\* No ceremony is open at first.
LEMMA CeremonyInvInit == Init => CeremonyInv
<1> SUFFICES ASSUME Init PROVE CeremonyInv
  OBVIOUS
<1>1. DeviceInv
  BY DeviceInvInit DEF Init
<1>2. DeviceTypeOK
  BY <1>1 DEF DeviceInv
<1>3. TypeOK
  BY <1>2, CeremonyConstants
     DEF Init, TypeOK, SessionRow, States, Steps, Call, Idle, AwaitedBy
<1> QED
  BY <1>1, <1>3 DEF Init, CeremonyInv, CallHolds, Busy, Idle, SessionOK

\* The empty record of a request.
LEMMA IdleType == Idle \in Call /\ Idle.pc = "idle"
BY DEF Idle, Call

\* Calls that only end, with the sessions and users left alone, keep the invariant.
LEMMA CallsEnd ==
    ASSUME CeremonyInv, DeviceInv', UNCHANGED <<session, users, proved>>,
           call' \in [Calls -> Call],
           \A c \in Calls : call'[c] = call[c] \/ call'[c].pc = "idle",
           shown' \subseteq Sessions \X Steps, peek' \in [Sessions -> Steps \cup {None}]
    PROVE  CeremonyInv'
<1>1. TypeOK'
  BY DEF CeremonyInv, TypeOK, DeviceInv
<1>2. \A b \in Calls : Busy(b)' => Busy(b) /\ call'[b] = call[b]
  BY DEF Busy
<1>3. \A c \in Calls : CallHolds(c)'
  BY <1>2 DEF CeremonyInv, CallHolds
<1> QED
  BY <1>1, <1>3 DEF CeremonyInv, SessionOK, UserOK

\* A handler that writes one session row and ends the calls it leaves behind keeps
\* the invariant if the row it leaves is a good one.
LEMMA SessionWritten ==
    ASSUME CeremonyInv, DeviceInv', NEW s \in Sessions, NEW r \in SessionRow,
           session' = [session EXCEPT ![s] = r],
           r.codes \subseteq {op \in Steps : r.state = AwaitedBy(op)},
           call' \in [Calls -> Call],
           \A c \in Calls : call'[c] = call[c] \/ call'[c].pc = "idle",
           \A c \in Calls : call'[c].pc # "idle" /\ call[c].in.session = s =>
               r.state = session[s].state /\ r.person = session[s].person,
           UNCHANGED proved,
           users \subseteq users', \A u \in users' \ users : u \in User /\ u.session = s,
           SessionOK(s)', \A u \in users' : u.session = s => UserOK(u)',
           shown' \subseteq Sessions \X Steps, peek' \in [Sessions -> Steps \cup {None}]
    PROVE  CeremonyInv'
<1>1. /\ session \in [Sessions -> SessionRow] /\ users \subseteq User
      /\ session' \in [Sessions -> SessionRow]
      /\ session'[s] = r /\ \A t \in Sessions \ {s} : session'[t] = session[t]
  BY DEF CeremonyInv, TypeOK
<1>2. \A t \in Sessions :
         session'[t].codes \subseteq {op \in Steps : session'[t].state = AwaitedBy(op)}
  BY <1>1 DEF CeremonyInv, TypeOK
<1>3. TypeOK'
  BY <1>1, <1>2 DEF CeremonyInv, TypeOK, DeviceInv
<1>4. \A b \in Calls : Busy(b)' => Busy(b) /\ call'[b] = call[b] /\ call'[b].pc # "idle"
  BY DEF Busy
<1>5. ASSUME NEW c \in Calls PROVE CallHolds(c)'
  <2> SUFFICES ASSUME Busy(c)' PROVE CallHolds(c)'
    BY DEF CallHolds
  <2>1. CallHolds(c) /\ Busy(c) /\ call'[c] = call[c] /\ call'[c].pc # "idle"
    BY <1>4 DEF CeremonyInv
  <2>2. call[c].in \in Message
    BY <2>1, CeremonyConstants DEF CallHolds
  <2>3. call[c].in.session \in Sessions
    BY <2>2 DEF Message
  <2>4. /\ session'[call[c].in.session].state = session[call[c].in.session].state
        /\ session'[call[c].in.session].person = session[call[c].in.session].person
    BY <1>1, <2>1, <2>3
  <2> QED
    BY <1>4, <2>1, <2>4 DEF CallHolds
<1>6. ASSUME NEW t \in Sessions PROVE SessionOK(t)'
  <2>1. CASE t = s
    BY <2>1
  <2>2. CASE t # s
    BY <1>1, <2>2 DEF CeremonyInv, SessionOK
  <2> QED
    BY <2>1, <2>2
<1>7. ASSUME NEW u \in users' PROVE UserOK(u)'
  <2>1. CASE u.session = s
    BY <2>1
  <2>2. CASE u.session # s
    <3>1. u \in users /\ u.session \in Sessions
      BY <1>1, <2>2 DEF User
    <3> QED
      BY <1>1, <2>2, <3>1 DEF CeremonyInv, UserOK
  <2> QED
    BY <2>1, <2>2
<1> QED
  BY <1>3, <1>5, <1>6, <1>7 DEF CeremonyInv

\* No call is in its transaction on a session that is not locked.
LEMMA SessionFree ==
    ASSUME CeremonyInv, NEW s \in Sessions, ~SessionLocked(s)
    PROVE  \A c \in Calls : call[c].pc # "idle" => call[c].in.session # s
BY DEF CeremonyInv, TypeOK, Call, SessionLocked

\* What a step awaits, spelt out.
LEMMA Awaited ==
    /\ \A op \in Steps : /\ AwaitedBy(op) = "awaiting_device" <=> op = "pair"
                         /\ AwaitedBy(op) = "awaiting_commitment" <=> op = "enroll"
                         /\ AwaitedBy(op) = "awaiting_verification" <=> op = "verify"
                         /\ AwaitedBy(op) \notin {"absent", "completed", "abandoned"}
    /\ AwaitedBy("pair") = "awaiting_device"
    /\ AwaitedBy("enroll") = "awaiting_commitment"
    /\ AwaitedBy("verify") = "awaiting_verification"
BY DEF Steps, AwaitedBy

\* What the demo portal's cache may hold.
LEMMA CachedType ==
    ASSUME CeremonyInv, NEW s \in Sessions, NEW step \in Steps
    PROVE  Cached(s, step) \in [Sessions -> Steps \cup {None}]
BY DEF CeremonyInv, TypeOK, Cached

\* The tenant's statements, and the deadlines that pass.
LEMMA TenantSteps ==
    ASSUME CeremonyInv, NEW s \in Sessions,
           \/ StartRegistration(s) \/ AbandonRegistration(s) \/ PeekPendingDemoCode(s)
           \/ CodeLapses(s) \/ SessionLapses(s)
    PROVE  CeremonyInv'
<1>1. /\ session \in [Sessions -> SessionRow] /\ call \in [Calls -> Call]
      /\ users \subseteq User
      /\ shown \subseteq Sessions \X Steps /\ peek \in [Sessions -> Steps \cup {None}]
      /\ session[s].codes \subseteq {op \in Steps : session[s].state = AwaitedBy(op)}
      /\ SessionOK(s) /\ \A u \in users : UserOK(u)
  BY DEF CeremonyInv, TypeOK
<1>2. session[s] \in SessionRow
  BY <1>1
<1>3. DeviceInv' /\ UNCHANGED <<users, proved>>
  BY DEF StartRegistration, AbandonRegistration, PeekPendingDemoCode, CodeLapses,
         SessionLapses, CeremonyInv, DeviceInv, DeviceTypeOK, RowOK, ExtUnique, ClaimHolds,
         Held, deviceVars
<1>4. CASE StartRegistration(s)
  <2> DEFINE r == [session[s] EXCEPT !.state = "awaiting_device", !.codes = {"pair"},
                                     !.fresh = TRUE, !.open = TRUE]
  <2>1. /\ session' = [session EXCEPT ![s] = r] /\ session[s].state = "absent"
        /\ call' = call /\ peek' = Cached(s, "pair") /\ shown' = shown \cup {<<s, "pair">>}
    BY <1>4 DEF StartRegistration
  <2>2. r \in SessionRow
    BY <1>2 DEF SessionRow, States, Steps
  <2>3. /\ r.state = "awaiting_device" /\ r.person = session[s].person
        /\ r.codes = {"pair"}
    BY <1>2 DEF SessionRow
  <2>4. \A c \in Calls : call[c].pc # "idle" => call[c].in.session # s
    <3> SUFFICES ASSUME NEW c \in Calls, call[c].pc # "idle", call[c].in.session = s
                 PROVE  FALSE
      OBVIOUS
    <3>1. CallHolds(c) /\ Busy(c)
      BY <1>1 DEF CeremonyInv, Busy, Call
    <3>2. call[c].in.op \in Steps
      BY <3>1, CeremonyConstants DEF CallHolds, Message
    <3> QED
      BY <2>1, <3>1, <3>2, Awaited DEF CallHolds
  <2>5. SessionOK(s)' /\ \A u \in users : u.session = s => UserOK(u)'
    <3> HIDE DEF r
    <3> QED
      BY <1>1, <1>3, <2>1, <2>3 DEF SessionOK, UserOK
  <2>6. "pair" \in Steps /\ peek' \in [Sessions -> Steps \cup {None}]
    BY <2>1, CachedType DEF Steps
  <2>7. r.codes \subseteq {op \in Steps : r.state = AwaitedBy(op)}
    BY <2>3, <2>6, Awaited
  <2>8. shown' \subseteq Sessions \X Steps
    BY <1>1, <2>1, <2>6
  <2> HIDE DEF r
  <2> QED
    BY <1>1, <1>3, <2>1, <2>2, <2>4, <2>5, <2>6, <2>7, <2>8, SessionWritten
<1>5. CASE AbandonRegistration(s)
  <2> DEFINE r == [session[s] EXCEPT !.codes = {}, !.fresh = FALSE,
                     !.state = IF session[s].state = "completed" THEN "completed" ELSE "abandoned"]
  <2>1. /\ session' = [session EXCEPT ![s] = r] /\ ~SessionLocked(s)
        /\ session[s].state # "absent"
        /\ call' = call /\ peek' = peek /\ shown' = shown
    BY <1>5 DEF AbandonRegistration
  <2>2. r \in SessionRow
    BY <1>2 DEF SessionRow, States
  <2>3. /\ r.state = IF session[s].state = "completed" THEN "completed" ELSE "abandoned"
        /\ r.person = session[s].person /\ r.device = session[s].device
        /\ r.codes = {}
    BY <1>2 DEF SessionRow
  <2>4. \A c \in Calls : call[c].pc # "idle" => call[c].in.session # s
    BY <2>1, SessionFree
  <2>5. SessionOK(s)' /\ \A u \in users : u.session = s => UserOK(u)'
    <3> HIDE DEF r
    <3> QED
      BY <1>1, <1>3, <2>1, <2>3 DEF SessionOK, UserOK
  <2> HIDE DEF r
  <2> QED
    BY <1>1, <1>3, <2>1, <2>2, <2>3, <2>4, <2>5, SessionWritten
<1>6. CASE PeekPendingDemoCode(s)
  <2>1. /\ shown' = shown \cup {<<s, peek[s]>>} /\ peek[s] # None
        /\ call' = call /\ peek' = peek /\ session' = session
    BY <1>6 DEF PeekPendingDemoCode
  <2> QED
    BY <1>1, <1>3, <2>1, CallsEnd
<1>7. CASE CodeLapses(s) \/ SessionLapses(s)
  <2>1. PICK r \in SessionRow :
           /\ session' = [session EXCEPT ![s] = r]
           /\ r.state = session[s].state /\ r.codes = session[s].codes
           /\ r.person = session[s].person /\ r.device = session[s].device
    <3>1. CASE CodeLapses(s)
      <4> DEFINE r == [session[s] EXCEPT !.fresh = FALSE]
      <4>1. session' = [session EXCEPT ![s] = r]
        BY <3>1 DEF CodeLapses
      <4>2. /\ r \in SessionRow /\ r.state = session[s].state /\ r.codes = session[s].codes
            /\ r.person = session[s].person /\ r.device = session[s].device
        BY <1>2 DEF SessionRow
      <4> HIDE DEF r
      <4> QED
        BY <4>1, <4>2
    <3>2. CASE SessionLapses(s)
      <4> DEFINE r == [session[s] EXCEPT !.open = FALSE]
      <4>1. session' = [session EXCEPT ![s] = r]
        BY <3>2 DEF SessionLapses
      <4>2. /\ r \in SessionRow /\ r.state = session[s].state /\ r.codes = session[s].codes
            /\ r.person = session[s].person /\ r.device = session[s].device
        BY <1>2 DEF SessionRow
      <4> HIDE DEF r
      <4> QED
        BY <4>1, <4>2
    <3> QED
      BY <1>7, <3>1, <3>2
  <2>2. call' = call /\ peek' = peek /\ shown' = shown
    BY <1>7 DEF CodeLapses, SessionLapses
  <2>3. SessionOK(s)' /\ \A u \in users : u.session = s => UserOK(u)'
    BY <1>1, <1>3, <2>1 DEF SessionOK, UserOK
  <2> QED
    BY <1>1, <1>3, <2>1, <2>2, <2>3, SessionWritten
<1> QED
  BY <1>4, <1>5, <1>6, <1>7

\* The transaction of a request begins, and its proof is verified.
LEMMA RequestSteps ==
    ASSUME CeremonyInv, NEW c \in Calls,
           \/ \E m \in Messages : SelectSession(c, m)
           \/ VerifyProof(c)
    PROVE  CeremonyInv'
<1>1. /\ call \in [Calls -> Call] /\ TypeOK /\ CallHolds(c)
      /\ proved \in [Sessions -> SUBSET Persons]
      /\ \A s \in Sessions : SessionOK(s)
  BY DEF CeremonyInv, TypeOK
<1>2. call[c] \in Call
  BY <1>1
<1>3. DeviceInv' /\ UNCHANGED <<device, claim, session, users, shown, peek>>
  <2>1. UNCHANGED <<device, claim, session, users, shown, peek>>
    BY DEF SelectSession, VerifyProof, deviceVars
  <2> QED
    BY <2>1 DEF CeremonyInv, DeviceInv, DeviceTypeOK, RowOK, ExtUnique, ClaimHolds, Held
<1>4. ASSUME NEW m \in Messages, SelectSession(c, m) PROVE CeremonyInv'
  <2> DEFINE new == [pc |-> IF m.op = "verify" THEN "prove" ELSE "write", in |-> m]
  <2>1. /\ call' = [call EXCEPT ![c] = new] /\ ~SessionLocked(m.session)
        /\ proved' = proved
        /\ session[m.session].state = AwaitedBy(m.op)
        /\ m.op = "verify" => session[m.session].person = m.person
    BY <1>4 DEF SelectSession, Found, Accepts
  <2>2. new \in Call
    BY DEF Call
  <2>3. new.in = m /\ (m.op = "verify" <=> new.pc = "prove")
    OBVIOUS
  <2> HIDE DEF new
  <2>4. call' \in [Calls -> Call]
    BY <1>1, <2>1, <2>2
  <2>5. call'[c] = new /\ \A b \in Calls \ {c} : call'[b] = call[b]
    BY <1>1, <2>1
  <2>6. TypeOK'
    BY <1>1, <1>3, <2>4 DEF TypeOK, DeviceInv
  <2>7. \A b \in Calls : Busy(b) => call[b].in.session # m.session
    BY <2>1 DEF Busy, SessionLocked
  <2>8. ASSUME NEW b \in Calls PROVE CallHolds(b)'
    <3>1. CallHolds(b)
      BY DEF CeremonyInv
    <3>2. CASE b = c
      BY <1>3, <2>1, <2>3, <2>5, <2>7, <3>2 DEF CallHolds, Busy
    <3>3. CASE b # c
      BY <1>3, <2>1, <2>3, <2>5, <2>7, <3>1, <3>3 DEF CallHolds, Busy
    <3> QED
      BY <3>2, <3>3
  <2> QED
    BY <1>1, <1>3, <2>1, <2>6, <2>8 DEF CeremonyInv, SessionOK, UserOK
<1>5. CASE VerifyProof(c)
  <2> DEFINE m == call[c].in
             s == m.session
  <2>1. /\ call[c].pc = "prove" /\ Busy(c)
    BY <1>5 DEF VerifyProof, Busy
  <2>2. /\ m \in Messages /\ m.op = "verify" /\ session[s].state = AwaitedBy(m.op)
        /\ session[s].person = m.person
    BY <1>1, <2>1 DEF CallHolds
  <2>3. m \in Message
    BY <2>2, CeremonyConstants
  <2>4. s \in Sessions /\ m.person \in Persons
    BY <2>3 DEF Message
  <2>5. CASE ~m.sound
    <3>1. call' = [call EXCEPT ![c] = Idle] /\ proved' = proved
      BY <1>5, <2>5 DEF VerifyProof, Reply
    <3>2. shown' \subseteq Sessions \X Steps /\ peek' \in [Sessions -> Steps \cup {None}]
      BY <1>1, <1>3 DEF TypeOK
    <3>3. /\ call' \in [Calls -> Call]
          /\ \A b \in Calls : call'[b] = call[b] \/ call'[b].pc = "idle"
      BY <1>1, <3>1, IdleType
    <3> QED
      BY <1>3, <3>1, <3>2, <3>3, CallsEnd
  <2>6. CASE m.sound
    <3> DEFINE new == [call[c] EXCEPT !.pc = "write"]
    <3>1. /\ call' = [call EXCEPT ![c] = new]
          /\ proved' = [proved EXCEPT ![s] = @ \cup {m.person}]
      BY <1>5, <2>6 DEF VerifyProof
    <3>2. new \in Call /\ new.pc = "write" /\ new.in = m
      BY <1>2 DEF Call
    <3> HIDE DEF new
    <3>3. /\ proved' \in [Sessions -> SUBSET Persons] /\ proved'[s] = proved[s] \cup {m.person}
          /\ \A t \in Sessions \ {s} : proved'[t] = proved[t]
      BY <1>1, <2>4, <3>1
    <3>4. proved'[s] = {m.person}
      BY <1>1, <2>2, <2>4, <3>3 DEF SessionOK
    <3>5. /\ call' \in [Calls -> Call]
          /\ call'[c] = new /\ \A b \in Calls \ {c} : call'[b] = call[b]
      BY <1>1, <3>1, <3>2
    <3>6. TypeOK'
      BY <1>1, <1>3, <3>5 DEF TypeOK, DeviceInv
    <3>7. ASSUME NEW b \in Calls PROVE CallHolds(b)'
      <4>1. CallHolds(b)
        BY DEF CeremonyInv
      <4>2. CASE b = c
        BY <1>1, <1>3, <2>1, <2>2, <3>2, <3>4, <3>5, <4>2 DEF CallHolds, Busy
      <4>3. CASE b # c
        <5> SUFFICES ASSUME Busy(b)' PROVE CallHolds(b)'
          BY DEF CallHolds
        <5>1. Busy(b) /\ call'[b] = call[b]
          BY <3>5, <4>3 DEF Busy
        <5>2. call[b].in.session \in Sessions /\ call[b].in.session # s
          <6>1. call[b].in \in Message
            BY <4>1, <5>1, CeremonyConstants DEF CallHolds
          <6> QED
            BY <1>1, <2>1, <4>1, <4>3, <5>1, <6>1 DEF CallHolds, Message
        <5>3. \A a \in Calls : Busy(a)' => Busy(a) /\ call'[a].in = call[a].in
          BY <2>1, <3>2, <3>5 DEF Busy
        <5> QED
          BY <1>3, <3>3, <4>1, <5>1, <5>2, <5>3 DEF CallHolds
      <4> QED
        BY <4>2, <4>3
    <3>8. ASSUME NEW t \in Sessions PROVE SessionOK(t)'
      <4>1. SessionOK(t)
        BY <1>1
      <4>2. CASE t = s
        <5>1. session[s].state = "awaiting_verification"
          BY <2>2, Awaited
        <5> QED
          BY <1>3, <2>2, <3>4, <4>1, <4>2, <5>1 DEF SessionOK
      <4>3. CASE t # s
        BY <1>3, <3>3, <4>1, <4>3 DEF SessionOK
      <4> QED
        BY <4>2, <4>3
    <3>9. ASSUME NEW u \in users' PROVE UserOK(u)'
      <4>1. u \in users /\ UserOK(u) /\ u.session \in Sessions
        BY <1>1, <1>3 DEF CeremonyInv, TypeOK, User
      <4>2. u.session # s
        BY <2>2, <4>1, Awaited DEF UserOK
      <4> QED
        BY <1>3, <3>3, <4>1, <4>2 DEF UserOK
    <3> QED
      BY <1>3, <3>3, <3>6, <3>7, <3>8, <3>9 DEF CeremonyInv
  <2> QED
    BY <2>5, <2>6
<1> QED
  BY <1>4, <1>5

\* A request in its transaction, and the session and the message it holds.
LEMMA Writing ==
    ASSUME CeremonyInv, NEW c \in Calls, call[c].pc = "write"
    PROVE  /\ call[c].in \in Message /\ call[c].in.session \in Sessions
           /\ call[c].in.op \in Steps
           /\ call[c].in.phone \in Fingerprints /\ call[c].in.person \in Persons
           /\ session[call[c].in.session] \in SessionRow
           /\ session[call[c].in.session].state = AwaitedBy(call[c].in.op)
           /\ \A b \in Calls \ {c} :
                 call[b].pc # "idle" => call[b].in.session # call[c].in.session
<1>1. Busy(c) /\ CallHolds(c) /\ call \in [Calls -> Call]
  BY DEF CeremonyInv, TypeOK, Busy
<1>2. call[c].in \in Message
  BY <1>1, CeremonyConstants DEF CallHolds
<1>3. \A b \in Calls : call[b].pc # "idle" => Busy(b)
  BY <1>1 DEF Call, Busy
<1> QED
  BY <1>1, <1>2, <1>3 DEF CallHolds, Message, CeremonyInv, TypeOK

\* What a commit leaves, whether or not its answer arrives.
LEMMA AfterCommit ==
    ASSUME CeremonyInv, NEW c \in Calls, call[c].pc = "write", NEW next \in Steps,
           Committed(c, next)
    PROVE  /\ call' = [call EXCEPT ![c] = Idle] /\ call' \in [Calls -> Call]
           /\ \A b \in Calls : call'[b] = call[b] \/ call'[b].pc = "idle"
           /\ \A b \in Calls : call'[b].pc # "idle" =>
                 call[b].in.session # call[c].in.session
           /\ shown' \subseteq Sessions \X Steps
           /\ peek' \in [Sessions -> Steps \cup {None}]
<1>1. /\ call \in [Calls -> Call] /\ shown \subseteq Sessions \X Steps
      /\ peek \in [Sessions -> Steps \cup {None}]
  BY DEF CeremonyInv, TypeOK
<1>2. call' = [call EXCEPT ![c] = Idle] /\ call'[c] = Idle
  BY <1>1 DEF Committed, Reply
<1>3. call[c].in.session \in Sessions
  BY Writing
<1>4. Cached(call[c].in.session, next) \in [Sessions -> Steps \cup {None}]
  BY <1>3, CachedType
<1>5. \/ shown' = shown
      \/ shown' = shown \cup {<<call[c].in.session, next>>}
  BY DEF Committed
<1>6. peek' = peek \/ peek' = Cached(call[c].in.session, next)
  BY DEF Committed
<1> QED
  BY <1>1, <1>2, <1>3, <1>4, <1>5, <1>6, IdleType, Writing

\* The UPSERT of a pairing writes a row that is enrolled already, or revoked, or
\* not there yet.
LEMMA PairedRow ==
    ASSUME CeremonyInv, NEW c \in Calls, PairDevice(c)
    PROVE  /\ DeviceInv'
           /\ \E d \in Devices, r \in SessionRow :
                 /\ session' = [session EXCEPT ![call[c].in.session] = r]
                 /\ r.state = "awaiting_commitment" /\ r.codes = {"enroll"} /\ r.device = d
                 /\ r.person = session[call[c].in.session].person
<1> DEFINE m == call[c].in
           s == m.session
           known == RowsOf(SessionScope[s], m.phone)
           blank == {d \in Devices \ Slots :
                        Scope[d] = SessionScope[s] /\ device[d].state = "absent"}
<1>1. call[c].pc = "write" /\ m.op = "pair" /\ claim' = claim
  BY DEF PairDevice
<1>2. /\ s \in Sessions /\ m.phone \in Fingerprints /\ session[s] \in SessionRow
      /\ session[s].state = "awaiting_device"
  BY <1>1, Writing, Awaited
<1>3. PICK d \in IF known # {} THEN known ELSE blank :
         /\ ~Locked(d)
         /\ device' = [device EXCEPT ![d] = [@ EXCEPT !.state = "enrolled",
                                               !.ext = m.phone, !.fp = m.phone]]
         /\ session' = [session EXCEPT ![s] = [@ EXCEPT
              !.state = "awaiting_commitment", !.device = d, !.fresh = TRUE,
              !.codes = (session[s].codes \ {"pair"}) \cup {"enroll"}]]
  BY DEF PairDevice
<1>4. /\ d \in Devices /\ (device[d].ext = m.phone \/ ~ExtTaken(d, m.phone))
      /\ device[d].state = "absent" \/ device[d].ext = m.phone
  BY DEF RowsOf, ExtTaken
<1>5. /\ DeviceInv /\ device \in [Devices -> DeviceRow] /\ claim \in [Claims -> Claim]
      /\ RowOK(device[d])
      /\ session[s].codes \subseteq {op \in Steps : session[s].state = AwaitedBy(op)}
  BY <1>2, <1>4 DEF CeremonyInv, DeviceInv, DeviceTypeOK, TypeOK
<1>6. device[d] \in DeviceRow
  BY <1>4, <1>5
<1>7. DeviceInv'
  <2> DEFINE r == [device[d] EXCEPT !.state = "enrolled", !.ext = m.phone, !.fp = m.phone]
  <2>1. device' = [device EXCEPT ![d] = r]
    BY <1>3
  <2>2. r \in DeviceRow
    BY <1>2, <1>6 DEF DeviceRow
  <2>3. device[d].state # "pending"
    BY <1>2, <1>4, <1>5, DeviceConstants DEF RowOK
  <2>4. RowOK(r) /\ r.ext = m.phone
    BY <1>2, <1>5, <1>6, <2>3 DEF RowOK, DeviceRow
  <2>5. \A b \in Claims : claim'[b].pc # "idle" => claim[b].slot # d
    BY <1>1, <1>3, <1>4, <1>5, Unlocked
  <2> HIDE DEF r
  <2> QED
    BY <1>1, <1>4, <1>5, <2>1, <2>2, <2>4, <2>5, RowWritten
<1>8. \E e \in Devices, r \in SessionRow :
         /\ session' = [session EXCEPT ![s] = r]
         /\ r.state = "awaiting_commitment" /\ r.codes = {"enroll"} /\ r.device = e
         /\ r.person = session[s].person
  <2> DEFINE r == [session[s] EXCEPT !.state = "awaiting_commitment", !.device = d,
                     !.fresh = TRUE, !.codes = (session[s].codes \ {"pair"}) \cup {"enroll"}]
  <2>1. session' = [session EXCEPT ![s] = r]
    BY <1>3
  <2>2. session[s].codes \subseteq {"pair"}
    BY <1>2, <1>5, Awaited
  <2>3. (session[s].codes \ {"pair"}) \cup {"enroll"} = {"enroll"}
    BY <2>2
  <2>4. r \in SessionRow
    BY <1>2, <1>4, <2>3 DEF SessionRow, States, Steps
  <2>5. /\ r.state = "awaiting_commitment" /\ r.codes = {"enroll"} /\ r.device = d
        /\ r.person = session[s].person
    BY <1>2, <2>3 DEF SessionRow
  <2> HIDE DEF r
  <2> QED
    BY <1>4, <2>1, <2>4, <2>5
<1> QED
  BY <1>7, <1>8

\* The row a commitment leaves, when the phone submits it.
LEMMA CommittedRow ==
    ASSUME CeremonyInv, NEW c \in Calls, SubmitCommitment(c)
    PROVE  \E r \in SessionRow :
              /\ session' = [session EXCEPT ![call[c].in.session] = r]
              /\ r.state = "awaiting_verification" /\ r.codes = {"verify"}
              /\ r.person = call[c].in.person
<1> DEFINE m == call[c].in
           s == m.session
           r == [session[s] EXCEPT !.state = "awaiting_verification", !.person = m.person,
                   !.fresh = TRUE, !.codes = (session[s].codes \ {"enroll"}) \cup {"verify"}]
<1>1. /\ call[c].pc = "write" /\ m.op = "enroll"
      /\ session' = [session EXCEPT ![s] = r]
  BY DEF SubmitCommitment
<1>2. /\ s \in Sessions /\ m.person \in Persons /\ session[s] \in SessionRow
      /\ session[s].state = "awaiting_commitment"
  BY <1>1, Writing, Awaited
<1>3. session[s].codes \subseteq {op \in Steps : session[s].state = AwaitedBy(op)}
  BY <1>2 DEF CeremonyInv, TypeOK
<1>4. session[s].codes \subseteq {"enroll"}
  BY <1>2, <1>3, Awaited
<1>5. (session[s].codes \ {"enroll"}) \cup {"verify"} = {"verify"}
  BY <1>4
<1>6. r \in SessionRow
  BY <1>2, <1>5 DEF SessionRow, States, Steps
<1>7. r.state = "awaiting_verification" /\ r.codes = {"verify"} /\ r.person = m.person
  BY <1>2, <1>5 DEF SessionRow
<1> HIDE DEF r
<1> QED
  BY <1>1, <1>6, <1>7

\* A completion writes the user of its session, or finds the DID taken.
LEMMA CompletedRow ==
    ASSUME CeremonyInv, NEW c \in Calls, CompleteRegistration(c), ~DidTaken(call[c].in.session)
    PROVE  \E r \in SessionRow :
              /\ session' = [session EXCEPT ![call[c].in.session] = r]
              /\ r.state = "completed" /\ r.codes = {}
              /\ r.person = session[call[c].in.session].person
              /\ r.device = session[call[c].in.session].device
<1> DEFINE s == call[c].in.session
           r == [session[s] EXCEPT !.state = "completed", !.codes = {}, !.fresh = FALSE]
<1>1. call[c].pc = "write" /\ session' = [session EXCEPT ![s] = r]
  BY DEF CompleteRegistration
<1>2. session[s] \in SessionRow
  BY <1>1, Writing
<1>3. r \in SessionRow
  BY <1>2 DEF SessionRow, States
<1>4. /\ r.state = "completed" /\ r.codes = {} /\ r.person = session[s].person
      /\ r.device = session[s].device
  BY <1>2 DEF SessionRow
<1> HIDE DEF r
<1> QED
  BY <1>1, <1>3, <1>4

\* The devices table under the handlers that leave it alone.
LEMMA DeviceInvKept == CeremonyInv /\ UNCHANGED deviceVars => DeviceInv'
BY DEF CeremonyInv, deviceVars, DeviceInv, DeviceTypeOK, RowOK, ExtUnique, ClaimHolds, Held

\* The transactions end: by COMMIT, by a refusal or by ROLLBACK.
LEMMA PhoneSteps ==
    ASSUME CeremonyInv, NEW c \in Calls,
           \/ PairDevice(c) \/ SubmitCommitment(c) \/ CompleteRegistration(c) \/ CallFails(c)
    PROVE  CeremonyInv'
<1> DEFINE m == call[c].in
<1>1. /\ call \in [Calls -> Call] /\ shown \subseteq Sessions \X Steps
      /\ peek \in [Sessions -> Steps \cup {None}] /\ users \subseteq User
      /\ session \in [Sessions -> SessionRow]
      /\ proved \in [Sessions -> SUBSET Persons]
      /\ \A t \in Sessions : SessionOK(t)
      /\ \A u \in users : UserOK(u)
  BY DEF CeremonyInv, TypeOK
<1>2. PICK s \in Sessions : s = m.session
  <2>1. CallHolds(c) /\ Busy(c)
    BY DEF PairDevice, SubmitCommitment, CompleteRegistration, CallFails, CeremonyInv, Busy
  <2> QED
    BY <2>1, CeremonyConstants DEF CallHolds, Message
<1>3. CASE PairDevice(c)
  <2>1. call[c].pc = "write" /\ m.op = "pair" /\ UNCHANGED <<users, proved>>
    BY <1>3 DEF PairDevice
  <2>2. s \in Sessions /\ session[s].state = "awaiting_device"
    BY <1>2, <2>1, Writing, Awaited
  <2>3. "enroll" \in Steps /\ Committed(c, "enroll")
    BY <1>3 DEF PairDevice, Steps
  <2>4. PICK r \in SessionRow :
           /\ session' = [session EXCEPT ![s] = r]
           /\ r.state = "awaiting_commitment" /\ r.codes = {"enroll"}
           /\ r.person = session[s].person
    BY <1>2, <1>3, PairedRow
  <2>5. DeviceInv'
    BY <1>2, <1>3, PairedRow
  <2>6. r.codes \subseteq {op \in Steps : r.state = AwaitedBy(op)}
    BY <2>3, <2>4, Awaited
  <2>7. session'[s] = r
    BY <1>1, <2>2, <2>4
  <2>8. SessionOK(s) /\ \A u \in users : u.session # s
    BY <1>1, <2>2 DEF UserOK
  <2>9. SessionOK(s)'
    BY <2>1, <2>2, <2>4, <2>7, <2>8 DEF SessionOK
  <2>10. /\ call' \in [Calls -> Call]
         /\ \A b \in Calls : call'[b] = call[b] \/ call'[b].pc = "idle"
         /\ \A b \in Calls : call'[b].pc # "idle" => call[b].in.session # s
         /\ shown' \subseteq Sessions \X Steps
         /\ peek' \in [Sessions -> Steps \cup {None}]
    BY <1>2, <2>1, <2>3, AfterCommit
  <2> QED
    BY <2>1, <2>2, <2>4, <2>5, <2>6, <2>8, <2>9, <2>10, SessionWritten
<1>4. CASE SubmitCommitment(c)
  <2>1. /\ call[c].pc = "write" /\ m.op = "enroll"
        /\ UNCHANGED <<device, claim, users, proved>>
    BY <1>4 DEF SubmitCommitment, deviceVars
  <2>2. s \in Sessions /\ m.person \in Persons /\ session[s].state = "awaiting_commitment"
    BY <1>2, <2>1, Writing, Awaited
  <2>3. "verify" \in Steps /\ Committed(c, "verify")
    BY <1>4 DEF SubmitCommitment, Steps
  <2>4. PICK r \in SessionRow :
           /\ session' = [session EXCEPT ![s] = r]
           /\ r.state = "awaiting_verification" /\ r.codes = {"verify"}
           /\ r.person = m.person
    BY <1>4, CommittedRow, <1>2
  <2>5. DeviceInv'
    BY <2>1, DeviceInvKept DEF deviceVars
  <2>6. r.codes \subseteq {op \in Steps : r.state = AwaitedBy(op)}
    BY <2>3, <2>4, Awaited
  <2>7. session'[s] = r
    BY <1>1, <2>2, <2>4
  <2>8. SessionOK(s) /\ \A u \in users : u.session # s
    BY <1>1, <2>2 DEF UserOK
  <2>9. SessionOK(s)'
    BY <2>1, <2>2, <2>4, <2>7, <2>8 DEF SessionOK
  <2>10. /\ call' \in [Calls -> Call]
         /\ \A b \in Calls : call'[b] = call[b] \/ call'[b].pc = "idle"
         /\ \A b \in Calls : call'[b].pc # "idle" => call[b].in.session # s
         /\ shown' \subseteq Sessions \X Steps
         /\ peek' \in [Sessions -> Steps \cup {None}]
    BY <1>2, <2>1, <2>3, AfterCommit
  <2> QED
    BY <2>1, <2>2, <2>4, <2>5, <2>6, <2>8, <2>9, <2>10, SessionWritten
<1>5. ASSUME \/ CompleteRegistration(c) /\ DidTaken(s)
             \/ CallFails(c)
      PROVE  CeremonyInv'
  <2>1. /\ call' = [call EXCEPT ![c] = Idle]
        /\ UNCHANGED <<device, claim, session, users, shown, peek, proved>>
    BY <1>2, <1>5 DEF CompleteRegistration, CallFails, Reply, deviceVars
  <2>2. /\ call' \in [Calls -> Call]
        /\ \A b \in Calls : call'[b] = call[b] \/ call'[b].pc = "idle"
    BY <1>1, <2>1, IdleType
  <2>3. DeviceInv'
    BY <2>1, DeviceInvKept DEF deviceVars
  <2> QED
    BY <1>1, <2>1, <2>2, <2>3, CallsEnd
<1>6. ASSUME CompleteRegistration(c), ~DidTaken(s) PROVE CeremonyInv'
  <2> DEFINE user == [session |-> s, person |-> session[s].person,
                      device |-> session[s].device]
  <2>1. /\ call[c].pc = "write" /\ m.op = "verify"
        /\ users' = users \cup {user} /\ call' = [call EXCEPT ![c] = Idle]
        /\ UNCHANGED <<device, claim, shown, peek, proved>>
    BY <1>2, <1>6 DEF CompleteRegistration, Reply, deviceVars
  <2>2. /\ s \in Sessions /\ session[s] \in SessionRow /\ m.person \in Persons
        /\ session[s].state = "awaiting_verification"
    BY <1>2, <2>1, Writing, Awaited
  <2>3. session[s].person = m.person /\ proved[s] = {m.person}
    <3>1. CallHolds(c) /\ Busy(c)
      BY <2>1 DEF CeremonyInv, Busy
    <3> QED
      BY <1>2, <2>1, <3>1 DEF CallHolds
  <2>4. PICK r \in SessionRow :
           /\ session' = [session EXCEPT ![s] = r]
           /\ r.state = "completed" /\ r.codes = {}
           /\ r.person = session[s].person /\ r.device = session[s].device
    BY <1>2, <1>6, CompletedRow
  <2>5. DeviceInv'
    BY <2>1, DeviceInvKept DEF deviceVars
  <2>6. user \in User /\ user.session = s
    BY <2>2, <2>3 DEF User, SessionRow
  <2>7. session'[s] = r
    BY <1>1, <2>2, <2>4
  <2>8. SessionOK(s)'
    <3>1. user \in users' /\ user.session = s /\ user.person = session[s].person
      BY <2>1
    <3>2. session'[s].person \in Persons /\ proved'[s] = {session'[s].person}
      BY <2>1, <2>2, <2>3, <2>4, <2>7
    <3> HIDE DEF user
    <3> QED
      BY <2>4, <2>7, <3>1, <3>2 DEF SessionOK
  <2>9. \A u \in users' : u.session = s => UserOK(u)'
    <3> SUFFICES ASSUME NEW u \in users', u.session = s PROVE UserOK(u)'
      OBVIOUS
    <3>1. u = user
      BY <1>1, <2>1, <2>2 DEF UserOK
    <3> QED
      BY <2>1, <2>3, <2>4, <2>7, <3>1 DEF UserOK
  <2>10. /\ call' \in [Calls -> Call]
         /\ \A b \in Calls : call'[b] = call[b] \/ call'[b].pc = "idle"
         /\ \A b \in Calls : call'[b].pc # "idle" => call[b].in.session # s
    BY <1>1, <1>2, <2>1, IdleType, Writing
  <2>11. users \subseteq users' /\ \A u \in users' \ users : u \in User /\ u.session = s
    <3> HIDE DEF user
    <3> QED
      BY <2>1, <2>6
  <2> HIDE DEF user
  <2> QED
    BY <1>1, <2>1, <2>2, <2>4, <2>5, <2>8, <2>9, <2>10, <2>11, SessionWritten
<1> QED
  BY <1>3, <1>4, <1>5, <1>6

\* The process restarts.
LEMMA RestartStep == CeremonyInv /\ Restart => CeremonyInv'
<1> SUFFICES ASSUME CeremonyInv, Restart PROVE CeremonyInv'
  OBVIOUS
<1>1. /\ call' = [c \in Calls |-> Idle] /\ claim' = [c \in Claims |-> NoClaim]
      /\ peek' = [s \in Sessions |-> None]
      /\ UNCHANGED <<device, session, users, shown, proved>>
  BY DEF Restart
<1>2. DeviceInv'
  BY <1>1, NoClaimType, ClaimsEnd DEF CeremonyInv
<1>3. shown \subseteq Sessions \X Steps
  BY DEF CeremonyInv, TypeOK
<1> QED
  BY <1>1, <1>2, <1>3, IdleType, CallsEnd

\* The devices table's own steps leave the ceremony alone.
LEMMA TableStep == CeremonyInv /\ DevNext /\ UNCHANGED regVars => CeremonyInv'
<1> SUFFICES ASSUME CeremonyInv, DevNext, UNCHANGED regVars PROVE CeremonyInv'
  OBVIOUS
<1>1. DeviceInv'
  BY DeviceSteps DEF CeremonyInv
<1> QED
  BY <1>1, CallsEnd DEF regVars, CeremonyInv, TypeOK

\* The invariant is inductive.
LEMMA CeremonyInvNext == CeremonyInv /\ [Next]_vars => CeremonyInv'
<1> SUFFICES ASSUME CeremonyInv, [Next]_vars PROVE CeremonyInv'
  OBVIOUS
<1>1. CASE UNCHANGED vars
  <2>1. DeviceInv'
    BY <1>1, DeviceInvKept DEF vars
  <2> QED
    BY <1>1, <2>1, CallsEnd DEF vars, regVars, CeremonyInv, TypeOK
<1> QED
  BY <1>1, TableStep, TenantSteps, RequestSteps, PhoneSteps, RestartStep
     DEF Next, CallStep

-----------------------------------------------------------------------------
(* Theorems *)

\* The invariant holds in every reachable state.
THEOREM CeremonySound == Spec => []CeremonyInv
BY CeremonyInvInit, CeremonyInvNext, PTL DEF Spec

\* Rows, requests and codes keep their types; a session holds only the code its
\* state awaits.
THEOREM TypesHold == Spec => []TypeOK
<1>1. CeremonyInv => TypeOK
  BY DEF CeremonyInv
<1> QED
  BY <1>1, CeremonySound, PTL

\* Two claims, or a claim and a ceremony, never leave two rows of a tenant with one
\* fingerprint: the external id derived from it belongs to one row.
THEOREM FingerprintOwned == Spec => []OneRowPerFingerprint
<1>1. CeremonyInv => OneRowPerFingerprint
  BY DEF CeremonyInv, DeviceInv, RowOK, ExtUnique, OneRowPerFingerprint
<1> QED
  BY <1>1, CeremonySound, PTL

\* An enrollment code is spent once, by one claim, and only the last one issued is.
THEOREM CodeSpentOnce == Spec => []CodeEnrolsOnce
<1>1. CeremonyInv => CodeEnrolsOnce
  BY DEF CeremonyInv, DeviceInv, RowOK, CodeEnrolsOnce
<1> QED
  BY <1>1, CeremonySound, PTL

\* Every user a ceremony inserted has proved possession of the commitment the row
\* carries, in that session, and has the device that paired in it.
THEOREM UsersProved == Spec => []UsersProveCommitment
<1>1. CeremonyInv => UsersProveCommitment
  BY DEF CeremonyInv, UserOK, UsersProveCommitment
<1> QED
  BY <1>1, CeremonySound, PTL

\* The steps that write no revoked row: a claim's slot is pending, and the
\* operator's other statements ask for a state that is not revoked.
LEMMA TableKeepsRevoked ==
    ASSUME CeremonyInv, DevNext, NEW d \in Devices, device[d].state = "revoked"
    PROVE  device'[d].state = "revoked"
<1>1. device \in [Devices -> DeviceRow] /\ \A c \in Claims : ClaimHolds(c)
  BY DEF CeremonyInv, DeviceInv, DeviceTypeOK
<1>2. device[d] \in DeviceRow
  BY <1>1
<1>3. device[d].code = 0
  BY DEF CeremonyInv, DeviceInv, RowOK
<1>4. ASSUME NEW e \in Devices, e # d, NEW r, device' = [device EXCEPT ![e] = r]
      PROVE  device'[d].state = "revoked"
  BY <1>1, <1>4
<1>5. ASSUME NEW e \in Devices,
             \/ \E ext \in Fingerprints \cup {None} : CreateDevice(e, ext)
             \/ IssueEnrollmentCode(e) \/ RegenerateEnrollmentCode(e) \/ CodeExpires(e)
      PROVE  device'[d].state = "revoked"
  <2>1. e # d
    BY <1>3, <1>5 DEF CreateDevice, IssueEnrollmentCode, RegenerateEnrollmentCode,
                      CodeExpires
  <2> QED
    BY <1>1, <1>5, <2>1 DEF CreateDevice, IssueEnrollmentCode, RegenerateEnrollmentCode,
                            CodeExpires
<1>6. ASSUME NEW e \in Devices, RevokeDevice(e) PROVE device'[d].state = "revoked"
  <2> DEFINE r == [device[e] EXCEPT !.state = "revoked", !.code = 0, !.fresh = FALSE]
  <2>1. device' = [device EXCEPT ![e] = r]
    BY <1>6 DEF RevokeDevice
  <2>2. r.state = "revoked"
    BY <1>1 DEF DeviceRow
  <2> HIDE DEF r
  <2> QED
    BY <1>1, <2>1, <2>2
<1>7. ASSUME NEW c \in Claims,
             \/ \E e \in Devices, k \in 1..MaxCodes, f \in Fingerprints :
                   ClaimSelect(c, e, k, f)
             \/ ClaimCollision(c) \/ ClaimFails(c)
      PROVE  device'[d].state = "revoked"
  BY <1>7 DEF ClaimSelect, ClaimCollision, ClaimFails
<1>8. ASSUME NEW c \in Claims, ClaimWrite(c) PROVE device'[d].state = "revoked"
  <2>1. claim[c].slot \in Devices /\ claim[c].slot # d
    BY <1>1, <1>8 DEF ClaimWrite, ClaimHolds, Held
  <2> QED
    BY <1>1, <1>8, <2>1 DEF ClaimWrite
<1> QED
  BY <1>5, <1>6, <1>7, <1>8 DEF DevNext, ClaimStep

\* The pairing that writes a row that was there is the one its own phone asked for.
LEMMA PairingRevives ==
    ASSUME CeremonyInv, NEW c \in Calls, PairDevice(c), NEW d \in Devices,
           device[d].state = "revoked", device'[d].state # "revoked"
    PROVE  /\ call[c].pc = "write" /\ call'[c].pc = "idle"
           /\ call[c].in.op = "pair" /\ call[c].in.phone = device[d].ext
           /\ SessionScope[call[c].in.session] = Scope[d]
<1> DEFINE m == call[c].in
           known == RowsOf(SessionScope[m.session], m.phone)
           blank == {e \in Devices \ Slots :
                        Scope[e] = SessionScope[m.session] /\ device[e].state = "absent"}
<1>1. device \in [Devices -> DeviceRow] /\ call \in [Calls -> Call]
  BY DEF CeremonyInv, DeviceInv, DeviceTypeOK, TypeOK
<1>2. call[c].pc = "write" /\ m.op = "pair" /\ call' = [call EXCEPT ![c] = Idle]
  BY DEF PairDevice, Committed, Reply
<1>3. call'[c].pc = "idle"
  BY <1>1, <1>2, IdleType
<1>4. PICK e \in IF known # {} THEN known ELSE blank :
         device' = [device EXCEPT ![e] = [@ EXCEPT !.state = "enrolled",
                                            !.ext = m.phone, !.fp = m.phone]]
  BY DEF PairDevice
<1>5. e = d
  <2>1. e \in Devices
    BY DEF RowsOf
  <2> QED
    BY <1>1, <1>4, <2>1
<1>6. d \in known
  BY <1>5
<1> QED
  BY <1>2, <1>3, <1>6 DEF RowsOf

\* A revoked device comes back only by a pairing of its own phone in its tenant.
THEOREM RevokedReturns == Spec => RevokedReturnsByPairing
<1> DEFINE Returns ==
      \A d \in Devices :
          device[d].state = "revoked" /\ device'[d].state # "revoked" =>
              \E c \in Calls :
                  /\ call[c].pc = "write" /\ call'[c].pc = "idle"
                  /\ call[c].in.op = "pair" /\ call[c].in.phone = device[d].ext
                  /\ SessionScope[call[c].in.session] = Scope[d]
<1>1. CeremonyInv /\ [Next]_vars => [Returns]_vars
  <2> SUFFICES ASSUME CeremonyInv, Next, NEW d \in Devices,
                      device[d].state = "revoked", device'[d].state # "revoked"
               PROVE  \E c \in Calls :
                          /\ call[c].pc = "write" /\ call'[c].pc = "idle"
                          /\ call[c].in.op = "pair" /\ call[c].in.phone = device[d].ext
                          /\ SessionScope[call[c].in.session] = Scope[d]
    OBVIOUS
  <2>1. device' # device
    OBVIOUS
  <2>2. ~DevNext
    BY TableKeepsRevoked
  <2>3. PICK c \in Calls : PairDevice(c)
    BY <2>1, <2>2
       DEF Next, CallStep, StartRegistration, AbandonRegistration, PeekPendingDemoCode,
           CodeLapses, SessionLapses, SelectSession, VerifyProof, SubmitCommitment,
           CompleteRegistration, CallFails, Restart, deviceVars
  <2> QED
    BY <2>3, PairingRevives
<1> HIDE DEF Returns
<1>2. Spec => [][Returns]_vars
  BY <1>1, CeremonySound, PTL DEF Spec
<1> QED
  BY <1>2 DEF RevokedReturnsByPairing, Returns

-----------------------------------------------------------------------------
(* The ceremony implements its promise *)

Stage == [s \in Sessions |-> session[s].state]
Bearer == [s \in Sessions |-> session[s].person]

\* The steps of the abstract ceremony, in terms of the rows.
LEMMA AbstractSteps ==
    ASSUME NEW s
    PROVE  /\ Promised!Start(s) <=> /\ Stage[s] = "absent"
                                    /\ Stage' = [Stage EXCEPT ![s] = "awaiting_device"]
                                    /\ Bearer' = Bearer
           /\ Promised!Pair(s) <=> /\ Stage[s] = "awaiting_device"
                                   /\ Stage' = [Stage EXCEPT ![s] = "awaiting_commitment"]
                                   /\ Bearer' = Bearer
           /\ \A p : Promised!Commit(s, p) <=>
                        /\ Stage[s] = "awaiting_commitment"
                        /\ Stage' = [Stage EXCEPT ![s] = "awaiting_verification"]
                        /\ Bearer' = [Bearer EXCEPT ![s] = p]
           /\ Promised!Complete(s) <=>
                 /\ Stage[s] = "awaiting_verification"
                 /\ ~Promised!Enrolled(Bearer[s], SessionScope[s])
                 /\ Stage' = [Stage EXCEPT ![s] = "completed"]
                 /\ Bearer' = Bearer
           /\ Promised!Abandon(s) <=>
                 /\ Stage[s] \in {"awaiting_device", "awaiting_commitment",
                                  "awaiting_verification"}
                 /\ Stage' = [Stage EXCEPT ![s] = "abandoned"]
                 /\ Bearer' = Bearer
BY DEF Promised!Start, Promised!Pair, Promised!Commit, Promised!Complete,
       Promised!Abandon, Stage, Bearer

\* A write of one row moves the abstract session of that row, or no session.
LEMMA StageWritten ==
    ASSUME CeremonyInv, NEW s \in Sessions, NEW r \in SessionRow,
           session' = [session EXCEPT ![s] = r]
    PROVE  /\ Stage' = [Stage EXCEPT ![s] = r.state]
           /\ Bearer' = [Bearer EXCEPT ![s] = r.person]
           /\ Stage[s] = session[s].state /\ Bearer[s] = session[s].person
           /\ r.state = session[s].state => Stage' = Stage
           /\ r.person = session[s].person => Bearer' = Bearer
<1>1. session \in [Sessions -> SessionRow]
  BY DEF CeremonyInv, TypeOK
<1> QED
  BY <1>1 DEF Stage, Bearer

\* The tenant's statements start a session, abandon it, or leave its stage.
LEMMA TenantImplements ==
    ASSUME CeremonyInv, NEW s \in Sessions,
           \/ StartRegistration(s) \/ AbandonRegistration(s) \/ PeekPendingDemoCode(s)
           \/ CodeLapses(s) \/ SessionLapses(s)
    PROVE  Promised!CeremonyNext \/ (Stage' = Stage /\ Bearer' = Bearer)
<1>1. session \in [Sessions -> SessionRow] /\ session[s] \in SessionRow
  BY DEF CeremonyInv, TypeOK
<1>2. CASE StartRegistration(s)
  <2>1. PICK r \in SessionRow : /\ session' = [session EXCEPT ![s] = r]
                                /\ r.state = "awaiting_device"
                                /\ r.person = session[s].person
    <3> DEFINE r == [session[s] EXCEPT !.state = "awaiting_device", !.codes = {"pair"},
                                       !.fresh = TRUE, !.open = TRUE]
    <3>1. session' = [session EXCEPT ![s] = r]
      BY <1>2 DEF StartRegistration
    <3>2. r \in SessionRow /\ r.state = "awaiting_device" /\ r.person = session[s].person
      BY <1>1 DEF SessionRow, States, Steps
    <3> HIDE DEF r
    <3> QED
      BY <3>1, <3>2
  <2>2. session[s].state = "absent"
    BY <1>2 DEF StartRegistration
  <2>3. Promised!Start(s)
    <3>1. Stage[s] = "absent" /\ Stage' = [Stage EXCEPT ![s] = "awaiting_device"]
      BY <2>1, <2>2, StageWritten
    <3>2. Bearer' = Bearer
      BY <2>1, <2>2, StageWritten
    <3> QED
      BY <3>1, <3>2, AbstractSteps
  <2> QED
    BY <2>3 DEF Promised!CeremonyNext
<1>3. CASE AbandonRegistration(s)
  <2>1. PICK r \in SessionRow :
           /\ session' = [session EXCEPT ![s] = r]
           /\ r.state = IF session[s].state = "completed" THEN "completed" ELSE "abandoned"
           /\ r.person = session[s].person
    <3> DEFINE r == [session[s] EXCEPT !.codes = {}, !.fresh = FALSE,
                      !.state = IF session[s].state = "completed" THEN "completed"
                                                                  ELSE "abandoned"]
    <3>1. session' = [session EXCEPT ![s] = r]
      BY <1>3 DEF AbandonRegistration
    <3>2. /\ r \in SessionRow /\ r.person = session[s].person
          /\ r.state = IF session[s].state = "completed" THEN "completed" ELSE "abandoned"
      BY <1>1 DEF SessionRow, States
    <3> HIDE DEF r
    <3> QED
      BY <3>1, <3>2
  <2>2. session[s].state # "absent" /\ session[s].state \in States
    BY <1>1, <1>3 DEF AbandonRegistration, SessionRow
  <2>3. CASE session[s].state \in {"completed", "abandoned"}
    <3>1. r.state = session[s].state /\ r.person = session[s].person
      BY <2>1, <2>3
    <3> QED
      BY <2>1, <3>1, StageWritten
  <2>4. CASE session[s].state \notin {"completed", "abandoned"}
    <3>1. Promised!Abandon(s)
      <4>1. Stage[s] = session[s].state /\ Stage' = [Stage EXCEPT ![s] = "abandoned"]
        BY <2>1, <2>4, StageWritten
      <4>2. Bearer' = Bearer
        BY <2>1, StageWritten
      <4>3. Stage[s] \in {"awaiting_device", "awaiting_commitment", "awaiting_verification"}
        BY <2>2, <2>4, <4>1 DEF States
      <4> QED
        BY <4>1, <4>2, <4>3, AbstractSteps
    <3> QED
      BY <3>1 DEF Promised!CeremonyNext
  <2> QED
    BY <2>3, <2>4
<1>4. CASE PeekPendingDemoCode(s)
  BY <1>4 DEF PeekPendingDemoCode, Stage, Bearer
<1>5. CASE CodeLapses(s)
  <2> DEFINE r == [session[s] EXCEPT !.fresh = FALSE]
  <2>1. session' = [session EXCEPT ![s] = r]
    BY <1>5 DEF CodeLapses
  <2>2. r \in SessionRow /\ r.state = session[s].state /\ r.person = session[s].person
    BY <1>1 DEF SessionRow
  <2> HIDE DEF r
  <2> QED
    BY <2>1, <2>2, StageWritten
<1>6. CASE SessionLapses(s)
  <2> DEFINE r == [session[s] EXCEPT !.open = FALSE]
  <2>1. session' = [session EXCEPT ![s] = r]
    BY <1>6 DEF SessionLapses
  <2>2. r \in SessionRow /\ r.state = session[s].state /\ r.person = session[s].person
    BY <1>1 DEF SessionRow
  <2> HIDE DEF r
  <2> QED
    BY <2>1, <2>2, StageWritten
<1> QED
  BY <1>2, <1>3, <1>4, <1>5, <1>6

\* The phone's commits move its session one stage on.  A completion may, because a
\* completed session that carried the person would have left a user in its tenant.
LEMMA PhoneImplements ==
    ASSUME CeremonyInv, NEW c \in Calls,
           \/ PairDevice(c) \/ SubmitCommitment(c) \/ CompleteRegistration(c) \/ CallFails(c)
    PROVE  Promised!CeremonyNext \/ (Stage' = Stage /\ Bearer' = Bearer)
<1>1. session \in [Sessions -> SessionRow] /\ \A t \in Sessions : SessionOK(t)
  BY DEF CeremonyInv, TypeOK
<1>2. ASSUME PairDevice(c) PROVE Promised!CeremonyNext
  <2>1. call[c].pc = "write" /\ call[c].in.op = "pair"
    BY <1>2 DEF PairDevice
  <2>2. PICK s \in Sessions : s = call[c].in.session /\ session[s].state = "awaiting_device"
    BY <2>1, Writing, Awaited
  <2>3. PICK r \in SessionRow :
           /\ session' = [session EXCEPT ![s] = r]
           /\ r.state = "awaiting_commitment" /\ r.person = session[s].person
    BY <1>2, <2>2, PairedRow
  <2>4. Promised!Pair(s)
    <3>1. Stage[s] = "awaiting_device" /\ Stage' = [Stage EXCEPT ![s] = "awaiting_commitment"]
      <4>1. Stage[s] = session[s].state /\ Stage' = [Stage EXCEPT ![s] = r.state]
        BY <2>3, StageWritten
      <4> QED
        BY <2>2, <2>3, <4>1
    <3>2. Bearer' = Bearer
      BY <2>2, <2>3, StageWritten
    <3> QED
      BY <3>1, <3>2, AbstractSteps
  <2> QED
    BY <2>4 DEF Promised!CeremonyNext
<1>3. ASSUME SubmitCommitment(c) PROVE Promised!CeremonyNext
  <2>1. call[c].pc = "write" /\ call[c].in.op = "enroll"
    BY <1>3 DEF SubmitCommitment
  <2>2. PICK s \in Sessions :
           s = call[c].in.session /\ session[s].state = "awaiting_commitment"
    BY <2>1, Writing, Awaited
  <2>3. PICK r \in SessionRow :
           /\ session' = [session EXCEPT ![s] = r]
           /\ r.state = "awaiting_verification" /\ r.person = call[c].in.person
    BY <1>3, <2>2, CommittedRow
  <2>4. call[c].in.person \in Persons
    BY <2>1, Writing
  <2>5. Promised!Commit(s, r.person)
    <3>1. Stage[s] = "awaiting_commitment" /\ Stage' = [Stage EXCEPT ![s] = "awaiting_verification"]
      <4>1. Stage[s] = session[s].state /\ Stage' = [Stage EXCEPT ![s] = r.state]
        BY <2>3, StageWritten
      <4> QED
        BY <2>2, <2>3, <4>1
    <3>2. Bearer' = [Bearer EXCEPT ![s] = r.person]
      BY <2>2, <2>3, StageWritten
    <3> QED
      BY <3>1, <3>2, AbstractSteps
  <2> QED
    BY <2>3, <2>4, <2>5 DEF Promised!CeremonyNext
<1>4. ASSUME CompleteRegistration(c), ~DidTaken(call[c].in.session)
      PROVE  Promised!CeremonyNext
  <2>1. call[c].pc = "write" /\ call[c].in.op = "verify"
    BY <1>4 DEF CompleteRegistration
  <2>2. PICK s \in Sessions :
           s = call[c].in.session /\ session[s].state = "awaiting_verification"
    BY <2>1, Writing, Awaited
  <2>3. PICK r \in SessionRow :
           /\ session' = [session EXCEPT ![s] = r]
           /\ r.state = "completed" /\ r.person = session[s].person
    BY <1>4, <2>2, CompletedRow
  <2>4. ~Promised!Enrolled(Bearer[s], SessionScope[s])
    <3> SUFFICES ASSUME NEW t \in Sessions, session[t].state = "completed",
                        session[t].person = session[s].person,
                        SessionScope[t] = SessionScope[s]
                 PROVE  FALSE
      BY DEF Promised!Enrolled, Stage, Bearer
    <3>1. PICK u \in users : u.session = t /\ u.person = session[t].person
      BY <1>1 DEF SessionOK
    <3> QED
      BY <1>4, <2>2, <3>1 DEF DidTaken
  <2>5. Promised!Complete(s)
    <3>1. Stage[s] = "awaiting_verification" /\ Stage' = [Stage EXCEPT ![s] = "completed"]
      <4>1. Stage[s] = session[s].state /\ Stage' = [Stage EXCEPT ![s] = r.state]
        BY <2>3, StageWritten
      <4> QED
        BY <2>2, <2>3, <4>1
    <3>2. Bearer' = Bearer
      BY <2>2, <2>3, StageWritten
    <3> QED
      BY <2>4, <3>1, <3>2, AbstractSteps
  <2> QED
    BY <2>5 DEF Promised!CeremonyNext
<1>5. ASSUME \/ CompleteRegistration(c) /\ DidTaken(call[c].in.session)
             \/ CallFails(c)
      PROVE  Stage' = Stage /\ Bearer' = Bearer
  BY <1>5 DEF CompleteRegistration, CallFails, Stage, Bearer
<1> QED
  BY <1>2, <1>3, <1>4, <1>5

\* Every step of the ceremony is a step of its promise, or none.
LEMMA StepImplements == CeremonyInv /\ [Next]_vars => [Promised!CeremonyNext]_(Promised!ceremonyVars)
<1> SUFFICES ASSUME CeremonyInv, [Next]_vars
             PROVE  Promised!CeremonyNext \/ (Stage' = Stage /\ Bearer' = Bearer)
  BY DEF Promised!ceremonyVars, Stage, Bearer
<1>1. ASSUME session' = session PROVE Stage' = Stage /\ Bearer' = Bearer
  BY <1>1 DEF Stage, Bearer
<1>2. CASE UNCHANGED vars
  BY <1>1, <1>2 DEF vars, regVars
<1>3. CASE DevNext /\ UNCHANGED regVars
  BY <1>1, <1>3 DEF regVars
<1>4. CASE Restart
  BY <1>1, <1>4 DEF Restart
<1>5. ASSUME NEW c \in Calls, (\E m \in Messages : SelectSession(c, m)) \/ VerifyProof(c)
      PROVE  Stage' = Stage /\ Bearer' = Bearer
  BY <1>1, <1>5 DEF SelectSession, VerifyProof
<1> QED
  BY <1>2, <1>3, <1>4, <1>5, TenantImplements, PhoneImplements DEF Next, CallStep

\* The ceremony of codes, locks, restarts and lost answers implements the abstract
\* one: a session advances one stage at a time, is left once, and a person enrols
\* once in a tenant.
THEOREM ImplementsCeremony == Spec => CeremonySpec
<1>1. Init => Promised!CeremonyInit
  BY DEF Init, Promised!CeremonyInit
<1>2. CeremonyInv /\ [Next]_vars => [Promised!CeremonyNext]_(Promised!ceremonyVars)
  BY StepImplements
<1> QED
  BY <1>1, <1>2, CeremonySound, PTL DEF Spec, CeremonySpec, Promised!CeremonySpec
=============================================================================
