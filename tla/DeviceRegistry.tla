---------------------------- MODULE DeviceRegistry ----------------------------
(***************************************************************************)
(* The devices table and its handlers (src/services/platform.ts,           *)
(* src/routes/v1/devices.ts, ADR 0022).                                    *)
(*                                                                         *)
(* An operator opens a pending slot and is shown a one-time code; a device *)
(* exchanges the code for an enrolled row bound to its fingerprint.  A     *)
(* claim is a transaction: it locks the slot by its code, looks for        *)
(* another row with the fingerprint, and writes.  Every other handler is   *)
(* one statement, and waits for the lock of the row it writes.             *)
(*                                                                         *)
(* Data: a slot is named by its row id; a code by its slot and generation; *)
(* a fingerprint stands for its hash and for dev_<prefix of the hash>.     *)
(* Audit rows are written without waiting and no handler here reads them.  *)
(* issued, claims and used of a row are history: codes shown, claims       *)
(* committed, the code of the last.                                        *)
(***************************************************************************)
EXTENDS Integers, FiniteSets

CONSTANTS
    Devices,        \* row ids
    Slots,          \* those an operator opens; a ceremony may insert the others
    Scope,          \* Scope[d]: the (tenant, environment) that owns row d
    Fingerprints,   \* hardware fingerprints
    Claims,         \* POST /v1/devices/enroll calls
    None,           \* NULL
    MaxCodes        \* bound: codes issued for one slot

ASSUME DeviceConstants == None \notin Fingerprints /\ MaxCodes \in Nat \ {0}

VARIABLES
    device,         \* device[d]: the row
    claim           \* claim[c]: a claimDeviceWithCode call

deviceVars == <<device, claim>>

DeviceRow == [state : {"absent", "pending", "enrolled", "revoked"},
              ext : Fingerprints \cup {None}, fp : Fingerprints \cup {None},
              code : 0..MaxCodes, fresh : BOOLEAN, issued : 0..MaxCodes,
              claims : 0..2, used : 0..MaxCodes]

Claim == [pc : {"idle", "collide", "write"},
          slot : Devices \cup {None}, code : 0..MaxCodes,
          fp : Fingerprints \cup {None}, collided : BOOLEAN]

NoClaim == [pc |-> "idle", slot |-> None, code |-> 0, fp |-> None, collided |-> FALSE]

AbsentDevice == [state |-> "absent", ext |-> None, fp |-> None, code |-> 0,
                 fresh |-> FALSE, issued |-> 0, claims |-> 0,
                 used |-> 0]

DevInit ==
    /\ device = [d \in Devices |-> AbsentDevice]
    /\ claim = [c \in Claims |-> NoClaim]

-----------------------------------------------------------------------------
(* Locks and constraints *)

\* SELECT ... FOR UPDATE holds the slot until the claim commits or rolls back.
NoLock(d) == FALSE

Locked(d) == \E c \in Claims : claim[c].slot = d /\ claim[c].pc \in {"collide", "write"}

NeverTaken(d, ext) == FALSE

\* UNIQUE (tenant_id, environment, external_id), fresh uuids apart.
ExtTaken(d, ext) ==
    ext # None /\ \E e \in Devices \ {d} : Scope[e] = Scope[d] /\ device[e].ext = ext

\* The row of a phone, if any: what ON CONFLICT (external_id) finds.
RowsOf(scope, f) == {d \in Devices : Scope[d] = scope /\ device[d].ext = f}

-----------------------------------------------------------------------------
(* Operator handlers: one statement each *)

\* createDevice: the trusted-service insert, with an external id of its choice.
CreateDevice(d, ext) ==
    /\ d \in Slots /\ device[d].state = "absent" /\ ~ExtTaken(d, ext)
    /\ device' = [device EXCEPT ![d] = [@ EXCEPT !.state = "enrolled", !.ext = ext]]
    /\ UNCHANGED claim

IssueEnrollmentCode(d) ==
    /\ d \in Slots /\ device[d].state = "absent"
    /\ device' = [device EXCEPT ![d] = [@ EXCEPT !.state = "pending", !.code = 1,
                                                     !.issued = 1, !.fresh = TRUE]]
    /\ UNCHANGED claim

RegenerateAnyState(d) ==
    /\ ~Locked(d) /\ device[d].issued \in 1..(MaxCodes - 1)
    /\ device' = [device EXCEPT ![d] = [@ EXCEPT !.code = device[d].issued + 1,
                                                     !.issued = device[d].issued + 1, !.fresh = TRUE]]
    /\ UNCHANGED claim

\* The old hash is overwritten; only a pending row takes a new code.
RegenerateEnrollmentCode(d) ==
    /\ ~Locked(d)
    /\ device[d].state = "pending" /\ device[d].issued < MaxCodes
    /\ device' = [device EXCEPT ![d] = [@ EXCEPT !.code = device[d].issued + 1,
                                                     !.issued = device[d].issued + 1, !.fresh = TRUE]]
    /\ UNCHANGED claim

RevokeKeepsCode(d) ==
    /\ ~Locked(d) /\ device[d].state # "absent"
    /\ device' = [device EXCEPT ![d].state = "revoked"]
    /\ UNCHANGED claim

RevokeDevice(d) ==
    /\ ~Locked(d) /\ device[d].state # "absent"
    /\ device' = [device EXCEPT ![d] = [@ EXCEPT !.state = "revoked",
                                                     !.code = 0, !.fresh = FALSE]]
    /\ UNCHANGED claim

\* enrollment_code_expires_at passes.
CodeExpires(d) ==
    /\ device[d].code # 0 /\ device[d].fresh
    /\ device' = [device EXCEPT ![d].fresh = FALSE]
    /\ UNCHANGED claim

-----------------------------------------------------------------------------
(* claimDeviceWithCode *)

Answer(c) == claim' = [claim EXCEPT ![c] = NoClaim]

\* Step 1: a code some slot was once shown finds that slot if it is still the
\* slot's code, and locks it.  A code that finds nothing is answered 404 and
\* changes nothing.
ClaimSelect(c, d, k, f) ==
    /\ claim[c].pc = "idle" /\ ~Locked(d)
    /\ device[d].state = "pending" /\ device[d].code = k /\ device[d].fresh
    /\ claim' = [claim EXCEPT ![c] = [pc |-> "collide", slot |-> d, code |-> k,
                                      fp |-> f, collided |-> FALSE]]
    /\ UNCHANGED device

\* The lookup sees committed rows in any state, revoked ones included.
Collides(c) ==
    \E e \in Devices \ {claim[c].slot} :
        Scope[e] = Scope[claim[c].slot] /\ device[e].fp = claim[c].fp

ClaimCollision(c) ==
    /\ claim[c].pc = "collide"
    /\ claim' = [claim EXCEPT ![c] = IF Collides(c)
                                     THEN [NoClaim EXCEPT !.collided = TRUE]
                                     ELSE [@ EXCEPT !.pc = "write"]]
    /\ UNCHANGED device

\* UPDATE and COMMIT.  A row that took the external id meanwhile makes the
\* UPDATE fail (duplicate key, 500).
ClaimWrite(c) ==
    LET d == claim[c].slot
        f == claim[c].fp
    IN  /\ claim[c].pc = "write"
        /\ IF ExtTaken(d, f)
           THEN UNCHANGED device
           ELSE device' = [device EXCEPT ![d] =
                  [@ EXCEPT !.state = "enrolled", !.ext = f, !.fp = f, !.code = 0,
                            !.fresh = FALSE, !.claims = device[d].claims + 1, !.used = claim[c].code]]
        /\ Answer(c)

\* A query fails or the connection drops: ROLLBACK releases the slot.
ClaimFails(c) ==
    /\ claim[c].pc \in {"collide", "write"}
    /\ Answer(c)
    /\ UNCHANGED device

ClaimStep(c) == ClaimCollision(c) \/ ClaimWrite(c)

DevNext ==
    \/ \E d \in Devices :
          \/ \E ext \in Fingerprints \cup {None} : CreateDevice(d, ext)
          \/ IssueEnrollmentCode(d) \/ RegenerateEnrollmentCode(d)
          \/ RevokeDevice(d) \/ CodeExpires(d)
    \/ \E c \in Claims :
          \/ \E d \in Devices, k \in 1..MaxCodes, f \in Fingerprints :
                ClaimSelect(c, d, k, f)
          \/ ClaimStep(c) \/ ClaimFails(c)

-----------------------------------------------------------------------------
(* Properties *)

\* Rows and claims keep their types; a code column is set only while pending.
DeviceTypeOK ==
    /\ device \in [Devices -> DeviceRow]
    /\ claim \in [Claims -> Claim]
    /\ \A d \in Devices : device[d].code # 0 <=> device[d].state = "pending"

\* A fingerprint belongs to one row of a tenant, although a claim looks for
\* another row before it writes: the external id derived from the fingerprint
\* is what stops the second of two racing claims (platform.ts:448-478).
OneRowPerFingerprint ==
    \A d, e \in Devices :
        d # e /\ Scope[d] = Scope[e] /\ device[d].fp # None => device[d].fp # device[e].fp

\* A code enrols one device once, and only the last code shown for its slot
\* does: a reissue between a claim's arrival and its lookup turns it away.
CodeEnrolsOnce ==
    \A d \in Devices : device[d].claims <= 1 /\ device[d].used \in {0, device[d].issued}
=============================================================================
