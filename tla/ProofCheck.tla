------------------------------ MODULE ProofCheck ------------------------------
(***************************************************************************)
(* How the API checks a Groth16 proof (src/services/zkp.ts), and the       *)
(* verifier service it asks, with the service's own hash-chained log       *)
(* (verifier/src).                                                         *)
(*                                                                         *)
(* The verifier keeps the next sequence number and the last hash in memory *)
(* and the rows in a file; it loads its key once, at boot.  The API stops  *)
(* waiting after a timeout while the verifier goes on.  Either process     *)
(* without a key accepts whatever has the shape of a proof.                *)
(*                                                                         *)
(* Data: a proof is sound, only shaped like one, or neither; the hash of a *)
(* log row is named by the row's id.                                       *)
(***************************************************************************)
EXTENDS Integers, Sequences

CONSTANTS
    Requests,   \* verifyBiometricProof calls; also the ids of their log rows
    None,       \* GENESIS_PREV_HASH, and the id of the genesis row
    MaxBoots    \* bound: boots of the verifier

VARIABLES
    config,     \* how the API is deployed and what it loaded
    keyFile,    \* the verifier's key file exists
    key,        \* the verifier has loaded it
    log,        \* verifier_events
    memory,     \* nextSequence and lastEntryHash
    req,        \* req[c]: a verifyBiometricProof call
    boots       \* boots of the verifier so far

vars == <<config, keyFile, key, log, memory, req, boots>>

Proofs == {"sound", "shaped", "garbage"}

Config == [service : BOOLEAN, key : BOOLEAN, production : BOOLEAN,
           pinned : {"unset", "match", "mismatch"}, onChain : BOOLEAN]

\* initZKP: a process that loads a key itself refuses to boot if the key is
\* not the pinned one, or is not pinned in production.
Boots(c) ==
    c.service \/ ~c.key \/ c.pinned = "match" \/ (c.pinned = "unset" /\ ~c.production)

Request == [pc : {"idle", "posted", "checked", "lost", "chain", "done"}, proof : Proofs,
            verified : BOOLEAN]

Row == [id : Requests \cup {None}, sequence : Nat, prev : Requests \cup {None},
        verified : BOOLEAN, structuralFallback : BOOLEAN]

Genesis == [id |-> None, sequence |-> 0, prev |-> None, verified |-> TRUE,
            structuralFallback |-> FALSE]

Init ==
    /\ config \in {c \in Config : Boots(c)}
    /\ keyFile \in BOOLEAN /\ key = keyFile
    /\ log = <<Genesis>> /\ memory = [next |-> 1, last |-> None]
    /\ req = [c \in Requests |-> [pc |-> "idle", proof |-> "garbage", verified |-> FALSE]]
    /\ boots = 1

-----------------------------------------------------------------------------
(* verifyBiometricProof *)

\* What a process with this key (or none) says of a proof.
Verdict(k, proof) == IF k THEN proof = "sound" ELSE proof # "garbage"

\* A missing field, an old timestamp, a malformed nonce or a wrong number of
\* signals is rejected at once, and changes nothing.
Accept(c, proof) ==
    /\ req[c].pc = "idle"
    /\ req' = [req EXCEPT ![c] =
         IF config.service
         THEN [pc |-> "posted", proof |-> proof, verified |-> FALSE]
         ELSE [pc |-> "chain", proof |-> proof, verified |-> Verdict(config.key, proof)]]
    /\ UNCHANGED <<config, keyFile, key, log, memory, boots>>

\* The body's verdict is taken as it is, the structural ones included.
ReadAnswer(c) ==
    /\ req[c].pc = "checked"
    /\ req' = [req EXCEPT ![c] = [@ EXCEPT !.pc = "chain"]]
    /\ UNCHANGED <<config, keyFile, key, log, memory, boots>>

\* A timeout, a refused connection, an error status: not verified.  The
\* verifier may have the request all the same.
GiveUp(c) ==
    /\ req[c].pc \in {"posted", "checked"}
    /\ req' = [req EXCEPT ![c] = [@ EXCEPT !.pc = IF req[c].pc = "posted" THEN "lost" ELSE "done",
                                           !.verified = FALSE]]
    /\ UNCHANGED <<config, keyFile, key, log, memory, boots>>

\* The contract's verdict counts if there is one; an error after the retries
\* leaves the first verdict alone.
Recheck(c) ==
    /\ req[c].pc = "chain"
    /\ \E answered \in BOOLEAN :
          req' = [req EXCEPT ![c] = [@ EXCEPT !.pc = "done",
                    !.verified = req[c].verified /\ (config.onChain /\ answered
                                                        => req[c].proof = "sound")]]
    /\ UNCHANGED <<config, keyFile, key, log, memory, boots>>

-----------------------------------------------------------------------------
(* The verifier *)

AppendMayFail(c) ==
    \/ /\ log' = Append(log, [id |-> c, sequence |-> memory.next, prev |-> memory.last,
                              verified |-> Verdict(key, req[c].proof),
                              structuralFallback |-> ~key])
       /\ memory' = [next |-> memory.next + 1, last |-> c]
    \/ UNCHANGED <<log, memory>>

\* appendEvent: insert, then move on in memory.
AppendEvent(c) ==
    /\ log' = Append(log, [id |-> c, sequence |-> memory.next, prev |-> memory.last,
                           verified |-> Verdict(key, req[c].proof),
                           structuralFallback |-> ~key])
    /\ memory' = [next |-> memory.next + 1, last |-> c]

\* POST /verify, also for a caller that has gone.
Verify(c) ==
    /\ req[c].pc \in {"posted", "lost"}
    /\ AppendEvent(c)
    /\ req' = [req EXCEPT ![c] = [@ EXCEPT
                 !.pc = IF req[c].pc = "posted" THEN "checked" ELSE "done",
                 !.verified = req[c].pc = "posted" /\ Verdict(key, req[c].proof)]]
    /\ UNCHANGED <<config, keyFile, key, boots>>

\* The insert throws: 500, no row, nothing moved on.
VerifyFails(c) ==
    /\ req[c].pc \in {"posted", "lost"}
    /\ req' = [req EXCEPT ![c] = [@ EXCEPT !.pc = "done"]]
    /\ UNCHANGED <<config, keyFile, key, log, memory, boots>>

\* verifyChain, over the rows in the order of their sequence numbers; the hash
\* of a row stands for the row, and no two rows have one id.
verifyChain ==
    \A i \in 1..Len(log) :
        /\ log[i].sequence = i - 1
        /\ log[i].prev = IF i = 1 THEN None ELSE log[i - 1].id

InstallKey ==
    /\ keyFile' = ~keyFile
    /\ UNCHANGED <<config, key, log, memory, req, boots>>

CountedOnly == [next |-> Len(log), last |-> None]

\* initAuditLog on a file with rows.
Resume == [next |-> log[Len(log)].sequence + 1, last |-> log[Len(log)].id]

\* A restart of the verifier drops the requests it had and reads key and log.
Restart ==
    /\ boots < MaxBoots /\ boots' = boots + 1
    /\ key' = keyFile /\ memory' = Resume
    /\ req' = [c \in Requests |-> IF req[c].pc \in {"posted", "lost"}
                                  THEN [req[c] EXCEPT !.pc = "done"] ELSE req[c]]
    /\ UNCHANGED <<config, keyFile, log>>

Next ==
    \/ \E c \in Requests :
          \/ \E proof \in Proofs : Accept(c, proof)
          \/ ReadAnswer(c) \/ GiveUp(c) \/ Recheck(c) \/ Verify(c) \/ VerifyFails(c)
    \/ InstallKey \/ Restart

-----------------------------------------------------------------------------
(* Properties *)

TypeOK ==
    /\ config \in Config /\ keyFile \in BOOLEAN /\ key \in BOOLEAN
    /\ \A i \in 1..Len(log) : log[i] \in Row
    /\ memory \in [next : Nat, last : Requests \cup {None}]
    /\ req \in [Requests -> Request]

\* A proof the API takes on the verifier's word is in the verifier's log as
\* verified, and if it is not sound the log says that no key was loaded; a
\* verifier that restarts, loses its key or answers too late changes nothing
\* in that (zkp.ts:225-263, verifier/src/server.ts:47-77).
AcceptedIsLogged ==
    \A c \in Requests :
        config.service /\ req[c].pc = "done" /\ req[c].verified =>
            \E i \in 1..Len(log) :
                /\ log[i].id = c /\ log[i].verified
                /\ req[c].proof = "sound" \/ log[i].structuralFallback

\* verifyChain passes whatever failed and however often the verifier restarted:
\* each row follows the one before it, in number and in hash.
LogReplays == verifyChain
=============================================================================
