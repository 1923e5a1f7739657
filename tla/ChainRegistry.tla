----------------------------- MODULE ChainRegistry -----------------------------
(***************************************************************************)
(* Identities on the chain: contracts/DIDRegistry.sol behind the gateway   *)
(* of src/services/blockchain.ts, and the two registration paths of        *)
(* src/services/identity.ts.                                               *)
(*                                                                         *)
(* A registration sends a transaction and waits for its receipt, three     *)
(* times at most.  A transaction may be mined although the wait failed:    *)
(* the next attempt then reverts, the identity being there already.  The   *)
(* register path answers with the receipt, or with an offline mark; the    *)
(* face-first path answers before the chain and only logs.                 *)
(***************************************************************************)
EXTENDS Integers, FiniteSets

CONSTANTS
    Hashes,     \* biometric id hashes
    Calls,      \* registrations; each has its own fresh DID
    None,       \* no DID
    MaxRetries, \* MAX_RETRIES
    MaxRevokes  \* bound: revocations by the contract's owner

VARIABLES
    identities,     \* _identities and _registered: whose DID a hash maps to
    identityCount,  \* identityCount
    mempool,        \* transactions sent and not mined yet
    call,           \* call[c]: a registration
    revoked         \* history: hashes revoked so far

vars == <<identities, identityCount, mempool, call, revoked>>

\* reported is what the caller was told of its registration.
Call == [pc : {"idle", "send", "wait", "done"}, path : {"register", "faceFirst"},
         hash : Hashes, attempt : 0..MaxRetries,
         reported : {"nothing", "offChain", "mined", "offline"}]

Init ==
    /\ identities = [h \in Hashes |-> None] /\ identityCount = 0 /\ mempool = {}
    /\ call \in [Calls -> {[pc |-> "idle", path |-> p, hash |-> h, attempt |-> 0,
                            reported |-> "nothing"] :
                              p \in {"register", "faceFirst"}, h \in Hashes}]
    /\ revoked = 0

-----------------------------------------------------------------------------
(* identity.ts *)

Answered(c, how) ==
    call' = [call EXCEPT ![c] = [@ EXCEPT !.pc = "done", !.reported = how]]

FirstAttempt(c, how) ==
    call' = [call EXCEPT ![c] = [@ EXCEPT !.pc = "send", !.attempt = 1, !.reported = how]]

\* initBlockchain left no contract: the write throws before any retry.
NoContract(c, how) == Answered(c, how)

\* Off chain by default; else the caller waits for the chain.
RegisterIdentity(c) ==
    /\ call[c].pc = "idle" /\ call[c].path = "register"
    /\ Answered(c, "offChain") \/ NoContract(c, "offline") \/ FirstAttempt(c, "nothing")
    /\ UNCHANGED <<identities, identityCount, mempool, revoked>>

\* The row is in the table and answered; the chain write goes on behind it.
RegisterFaceFirst(c) ==
    /\ call[c].pc = "idle" /\ call[c].path = "faceFirst"
    /\ Answered(c, "offChain") \/ NoContract(c, "offChain") \/ FirstAttempt(c, "offChain")
    /\ UNCHANGED <<identities, identityCount, mempool, revoked>>

PostRegister(c) == RegisterIdentity(c)
PostRegisterV1(c) == RegisterIdentity(c)
PostIdentity(c) == RegisterFaceFirst(c)

Outcome(c, mined) ==
    IF call[c].path = "faceFirst" THEN call[c].reported
    ELSE IF mined THEN "mined" ELSE "offline"

-----------------------------------------------------------------------------
(* blockchain.ts: registerIdentityOnChain *)

SendTransaction(c) ==
    /\ call[c].pc = "send"
    /\ mempool' = mempool \cup {<<c, call[c].attempt>>}
    /\ call' = [call EXCEPT ![c] = [@ EXCEPT !.pc = "wait"]]
    /\ UNCHANGED <<identities, identityCount, revoked>>

\* withRetry after a failed send, a revert or a failed wait.
Retry(c) ==
    call' = [call EXCEPT ![c] =
        IF call[c].attempt < MaxRetries
        THEN [@ EXCEPT !.pc = "send", !.attempt = call[c].attempt + 1]
        ELSE [@ EXCEPT !.pc = "done", !.reported = Outcome(c, FALSE)]]

SendFails(c) ==
    /\ call[c].pc = "send" /\ Retry(c)
    /\ UNCHANGED <<identities, identityCount, mempool, revoked>>

\* tx.wait() rejects while the transaction is still on its way.
WaitFails(c) ==
    /\ call[c].pc = "wait" /\ Retry(c)
    /\ UNCHANGED <<identities, identityCount, mempool, revoked>>

-----------------------------------------------------------------------------
(* DIDRegistry.sol *)

Overwrites(h) == TRUE
Registrable(h) == identities[h] = None

\* A block takes a transaction.  If its call still waits it gets the receipt,
\* or the revert.
MineRegister(c, n) ==
    LET h == call[c].hash
        waiting == call[c].pc = "wait" /\ call[c].attempt = n
    IN  /\ <<c, n>> \in mempool /\ mempool' = mempool \ {<<c, n>>}
        /\ IF Registrable(h)
           THEN /\ identities' = [identities EXCEPT ![h] = c]
                /\ identityCount' = identityCount + 1
                /\ call' = IF waiting
                           THEN [call EXCEPT ![c] = [@ EXCEPT !.pc = "done",
                                                       !.reported = Outcome(c, TRUE)]]
                           ELSE call
           ELSE /\ UNCHANGED <<identities, identityCount>>
                /\ IF waiting THEN Retry(c) ELSE UNCHANGED call
        /\ UNCHANGED revoked

RevokeIdentity(h) ==
    /\ revoked < MaxRevokes /\ identities[h] # None
    /\ identities' = [identities EXCEPT ![h] = None]
    /\ identityCount' = identityCount - 1
    /\ revoked' = revoked + 1
    /\ UNCHANGED <<mempool, call>>

Next ==
    \/ \E c \in Calls :
          \/ PostRegister(c) \/ PostRegisterV1(c) \/ PostIdentity(c)
          \/ SendTransaction(c) \/ SendFails(c) \/ WaitFails(c)
          \/ \E n \in 1..MaxRetries : MineRegister(c, n)
    \/ \E h \in Hashes : RevokeIdentity(h)

-----------------------------------------------------------------------------
(* Properties *)

TypeOK ==
    /\ identities \in [Hashes -> Calls \cup {None}]
    /\ identityCount \in Nat /\ revoked \in Nat
    /\ mempool \subseteq Calls \X (1..MaxRetries)
    /\ call \in [Calls -> Call]

\* A registration that was answered with a receipt is the one on the chain,
\* whatever other registrations of the same biometric and whatever resent
\* transactions are mined around it, until the owner revokes; and the contract
\* counts what it maps (blockchain.ts:32-46, DIDRegistry.sol:44-58).
ReceiptIsOnChain ==
    /\ identityCount = Cardinality({h \in Hashes : identities[h] # None})
    /\ revoked = 0 =>
          \A c \in Calls : call[c].reported = "mined" => identities[call[c].hash] = c
=============================================================================
