---------------------------- MODULE Services_proofs ----------------------------
(***************************************************************************)
(* Theorems about the services, each for any number of requests and of     *)
(* whatever else bounds its runs.                                          *)
(***************************************************************************)
EXTENDS Services, SequenceTheorems, FiniteSetTheorems, TLAPS

-----------------------------------------------------------------------------
(* One component runs *)

\* The component that a behaviour runs does not change.
LEMMA FocusKept == [Next]_vars => focus' = focus
BY DEF Next, ConsoleNext, vars

\* While the verification service runs, a step is one of its own.
LEMMA ProofSteps == [Next]_vars /\ focus = "proof" => P!Next \/ UNCHANGED p_vars
BY DEF Next, ConsoleNext, vars

\* While the chain gateway runs, a step is one of its own.
LEMMA ChainSteps == [Next]_vars /\ focus = "chain" => C!Next \/ UNCHANGED c_vars
BY DEF Next, ConsoleNext, vars

\* While the anchor job runs, a step is one of its own.
LEMMA AnchorSteps == [Next]_vars /\ focus = "anchor" => A!Next \/ UNCHANGED a_vars
BY DEF Next, ConsoleNext, vars

\* While the live streams run, a step is one of theirs.
LEMMA StreamSteps ==
    [Next]_vars /\ focus \in {"logs", "feed"} => S!Next \/ UNCHANGED s_vars
BY DEF Next, ConsoleNext, vars, S!Next

\* While the fingerprint terminal runs, a step is one of its own.
LEMMA BridgeSteps == [Next]_vars /\ focus = "bridge" => B!Next \/ UNCHANGED b_vars
BY DEF Next, ConsoleNext, vars

-----------------------------------------------------------------------------
(* The verifier *)

\* The verdict a request carries is in the log, with the reason for it.
InLog(c) ==
    \E i \in 1..Len(p_log) :
        /\ p_log[i].id = c /\ p_log[i].verified
        /\ p_req[c].proof = "sound" \/ p_log[i].structuralFallback

\* The memory of the verifier is the end of its log, whose rows follow each other;
\* a request carries a good verdict only after the log does.
VerifierInv ==
    /\ P!TypeOK
    /\ p_log \in Seq(P!Row) /\ Len(p_log) >= 1
    /\ p_memory.next = Len(p_log) /\ p_memory.last = p_log[Len(p_log)].id
    /\ P!LogReplays
    /\ \A c \in Requests :
          /\ p_req[c].pc \in {"idle", "posted", "lost"} => ~p_req[c].verified
          /\ p_config.service /\ p_req[c].verified => InLog(c)

\* The verifier starts with the first row of its log, whatever its key file holds.
LEMMA VerifierInvInit == P!Init => VerifierInv
<1> SUFFICES ASSUME P!Init PROVE VerifierInv
  OBVIOUS
<1>1. p_config \in P!Config /\ p_keyFile \in BOOLEAN /\ p_key \in BOOLEAN
  BY DEF P!Init
<1>2. P!Genesis \in P!Row
  BY DEF P!Genesis, P!Row
<1>3. p_log = <<P!Genesis>> /\ p_memory = [next |-> 1, last |-> None]
  BY DEF P!Init
<1>4. p_log \in Seq(P!Row) /\ Len(p_log) = 1 /\ p_log[1] = P!Genesis
  BY <1>2, <1>3
<1>5. P!Genesis.id = None /\ P!Genesis.sequence = 0 /\ P!Genesis.prev = None
  BY DEF P!Genesis
<1>6. p_req = [c \in Requests |-> [pc |-> "idle", proof |-> "garbage", verified |-> FALSE]]
  BY DEF P!Init
<1>7. p_req \in [Requests -> P!Request]
  BY <1>6 DEF P!Request, P!Proofs
<1>8. P!TypeOK
  BY <1>1, <1>3, <1>4, <1>7 DEF P!TypeOK
<1>9. P!LogReplays
  BY <1>4, <1>5 DEF P!LogReplays, P!verifyChain
<1>10. \A c \in Requests : ~p_req[c].verified
  BY <1>6
<1> QED BY <1>3, <1>4, <1>5, <1>8, <1>9, <1>10 DEF VerifierInv

-----------------------------------------------------------------------------
(* What the verifier's steps do to the log *)

\* A row of the right number and hash, appended: the log replays and the memory is
\* its end.
LEMMA RowAppended ==
    ASSUME VerifierInv, NEW row \in P!Row,
           row.sequence = p_memory.next, row.prev = p_memory.last,
           p_log' = Append(p_log, row), p_memory' = [next |-> p_memory.next + 1, last |-> row.id]
    PROVE  /\ p_log' \in Seq(P!Row) /\ Len(p_log') = Len(p_log) + 1
           /\ p_log'[Len(p_log')] = row
           /\ \A i \in 1..Len(p_log) : p_log'[i] = p_log[i]
           /\ p_memory'.next = Len(p_log') /\ p_memory'.last = p_log'[Len(p_log')].id
           /\ p_memory' \in [next : Nat, last : Requests \cup {None}]
           /\ P!LogReplays'
<1>1. p_log \in Seq(P!Row) /\ Len(p_log) \in Nat /\ Len(p_log) >= 1
  BY DEF VerifierInv
<1>2. Len(p_log') = Len(p_log) + 1 /\ p_log' \in Seq(P!Row)
  BY <1>1
<1>3. p_log'[Len(p_log')] = row
  BY <1>1, <1>2
<1>4. \A i \in 1..Len(p_log) : p_log'[i] = p_log[i]
  BY <1>1
<1>5. p_memory.next = Len(p_log) /\ p_memory.last = p_log[Len(p_log)].id
  BY DEF VerifierInv
<1>6. \A i \in 1..Len(p_log) : /\ p_log[i].sequence = i - 1
                              /\ p_log[i].prev = IF i = 1 THEN None ELSE p_log[i - 1].id
  BY DEF VerifierInv, P!LogReplays, P!verifyChain
<1>7. ASSUME NEW i \in 1..Len(p_log')
      PROVE  /\ p_log'[i].sequence = i - 1
             /\ p_log'[i].prev = IF i = 1 THEN None ELSE p_log'[i - 1].id
  <2>1. CASE i = Len(p_log')
    BY <2>1, <1>1, <1>2, <1>3, <1>4, <1>5
  <2>2. CASE i # Len(p_log')
    <3>1. i \in 1..Len(p_log)
      BY <2>2, <1>1, <1>2
    <3>2. i # 1 => i - 1 \in 1..Len(p_log)
      BY <3>1, <1>1
    <3> QED BY <3>1, <3>2, <1>4, <1>6
  <2> QED BY <2>1, <2>2
<1>8. P!LogReplays'
  BY <1>7 DEF P!LogReplays, P!verifyChain
<1>9. row.id \in Requests \cup {None}
  BY DEF P!Row
<1> QED BY <1>1, <1>2, <1>3, <1>4, <1>5, <1>8, <1>9

\* A log that stands, or that grows at its end, still holds what it held.
LEMMA LogGrew ==
    ASSUME NEW c \in Requests, InLog(c), Len(p_log) \in Nat, Len(p_log') \in Nat,
           Len(p_log) <= Len(p_log'), \A i \in 1..Len(p_log) : p_log'[i] = p_log[i],
           p_req'[c].proof = p_req[c].proof
    PROVE  InLog(c)'
<1>1. PICK i \in 1..Len(p_log) :
         /\ p_log[i].id = c /\ p_log[i].verified
         /\ p_req[c].proof = "sound" \/ p_log[i].structuralFallback
  BY DEF InLog
<1>2. i \in 1..Len(p_log') /\ p_log'[i] = p_log[i]
  BY <1>1
<1> QED BY <1>1, <1>2 DEF InLog

\* A request's step that leaves the log and the verifier's memory alone, and gives
\* no good verdict that the request did not carry.
LEMMA RequestWritten ==
    ASSUME VerifierInv, NEW c \in Requests, NEW r \in P!Request,
           p_req' = [p_req EXCEPT ![c] = r],
           UNCHANGED <<p_config, p_keyFile, p_key, p_log, p_memory>>,
           r.pc \in {"idle", "posted", "lost"} => ~r.verified,
           p_config.service /\ r.verified => p_req[c].verified /\ r.proof = p_req[c].proof
    PROVE  VerifierInv'
<1>1. P!TypeOK /\ p_req \in [Requests -> P!Request]
  BY DEF VerifierInv, P!TypeOK
<1>2. p_req' \in [Requests -> P!Request]
  BY <1>1
<1>3. P!TypeOK'
  BY <1>1, <1>2 DEF P!TypeOK
<1>4. P!LogReplays'
  BY DEF VerifierInv, P!LogReplays, P!verifyChain
<1>5. ASSUME NEW d \in Requests
      PROVE  /\ p_req'[d].pc \in {"idle", "posted", "lost"} => ~p_req'[d].verified
             /\ p_config'.service /\ p_req'[d].verified => InLog(d)'
  <2>1. /\ p_req[d].pc \in {"idle", "posted", "lost"} => ~p_req[d].verified
        /\ p_config.service /\ p_req[d].verified => InLog(d)
    BY DEF VerifierInv
  <2>2. p_req'[c] = r /\ (d # c => p_req'[d] = p_req[d])
    BY <1>1
  <2>3. p_req'[d].proof = p_req[d].proof /\ InLog(d) => InLog(d)'
    BY DEF InLog
  <2>4. CASE d = c
    BY <2>1, <2>2, <2>3, <2>4
  <2>5. CASE d # c
    BY <2>1, <2>2, <2>3, <2>5
  <2> QED BY <2>4, <2>5
<1> QED BY <1>3, <1>4, <1>5 DEF VerifierInv

\* The row appendEvent adds for a request.
EventRow(c) ==
    [id |-> c, sequence |-> p_memory.next, prev |-> p_memory.last,
     verified |-> P!Verdict(p_key, p_req[c].proof), structuralFallback |-> ~p_key]

\* A verify call appends its row after the last one, or fails to.
LEMMA VerifyKeepsVerifierInv ==
    ASSUME VerifierInv, NEW c \in Requests, P!Verify(c)
    PROVE  VerifierInv'
<1> DEFINE row == EventRow(c)
           ok == p_req[c].pc = "posted" /\ P!Verdict(p_key, p_req[c].proof)
           r == [p_req[c] EXCEPT !.pc = IF p_req[c].pc = "posted" THEN "checked" ELSE "done",
                                 !.verified = ok]
<1>1. P!TypeOK /\ p_req \in [Requests -> P!Request] /\ p_req[c] \in P!Request
      /\ p_key \in BOOLEAN /\ p_memory \in [next : Nat, last : Requests \cup {None}]
  BY DEF VerifierInv, P!TypeOK
<1>2. P!Verdict(p_key, p_req[c].proof) \in BOOLEAN
  BY DEF P!Verdict
<1>3. row \in P!Row
  BY <1>1, <1>2 DEF P!Row, EventRow
<1>4. row.id = c /\ row.sequence = p_memory.next /\ row.prev = p_memory.last
      /\ row.verified = P!Verdict(p_key, p_req[c].proof) /\ row.structuralFallback = ~p_key
  BY DEF EventRow
<1>5. p_log' = Append(p_log, row) /\ p_memory' = [next |-> p_memory.next + 1, last |-> row.id]
  BY DEF P!Verify, P!AppendEvent, EventRow
<1>6. p_req' = [p_req EXCEPT ![c] = r] /\ UNCHANGED <<p_config, p_keyFile, p_key>>
  BY DEF P!Verify
<1>7. r \in P!Request
  BY <1>1, <1>2 DEF P!Request
<1>8. r.pc \in {"checked", "done"} /\ r.proof = p_req[c].proof /\ r.verified = ok
  BY <1>1 DEF P!Request
<1>9. ok => row.verified /\ (p_req[c].proof = "sound" \/ row.structuralFallback)
  BY <1>1, <1>4 DEF P!Verdict
<1> HIDE DEF row, r, ok
<1>10. /\ p_log' \in Seq(P!Row) /\ Len(p_log') = Len(p_log) + 1
       /\ p_log'[Len(p_log')] = row
       /\ \A i \in 1..Len(p_log) : p_log'[i] = p_log[i]
       /\ p_memory'.next = Len(p_log') /\ p_memory'.last = p_log'[Len(p_log')].id
       /\ p_memory' \in [next : Nat, last : Requests \cup {None}]
       /\ P!LogReplays'
  BY <1>3, <1>4, <1>5, RowAppended
<1>11. p_log \in Seq(P!Row) /\ Len(p_log) \in Nat /\ Len(p_log) >= 1 /\ Len(p_log') \in Nat
  BY <1>10 DEF VerifierInv
<1>12. p_req' \in [Requests -> P!Request]
  BY <1>1, <1>6, <1>7
<1>13. P!TypeOK'
  BY <1>1, <1>6, <1>10, <1>12 DEF P!TypeOK
<1>14. ASSUME NEW d \in Requests
       PROVE  /\ p_req'[d].pc \in {"idle", "posted", "lost"} => ~p_req'[d].verified
              /\ p_config'.service /\ p_req'[d].verified => InLog(d)'
  <2>1. p_req'[c] = r /\ (d # c => p_req'[d] = p_req[d])
    BY <1>1, <1>6
  <2>2. CASE d = c
    <3>1. ok => InLog(c)'
      <4>1. Len(p_log') \in 1..Len(p_log')
        BY <1>10, <1>11
      <4> QED BY <4>1, <1>4, <1>8, <1>9, <1>10, <2>1 DEF InLog
    <3> QED BY <2>1, <2>2, <3>1, <1>8
  <2>3. CASE d # c
    <3>1. /\ p_req[d].pc \in {"idle", "posted", "lost"} => ~p_req[d].verified
          /\ p_config.service /\ p_req[d].verified => InLog(d)
      BY DEF VerifierInv
    <3>2. p_req'[d].proof = p_req[d].proof /\ p_config' = p_config
      BY <2>1, <2>3, <1>6
    <3>3. Len(p_log) <= Len(p_log')
      BY <1>10, <1>11
    <3>4. InLog(d) => InLog(d)'
      BY <3>2, <3>3, <1>10, <1>11, LogGrew
    <3> QED BY <2>1, <2>3, <3>1, <3>2, <3>4
  <2> QED BY <2>2, <2>3
<1>15. p_log' \in Seq(P!Row) /\ Len(p_log') >= 1 /\ p_memory'.next = Len(p_log')
       /\ p_memory'.last = p_log'[Len(p_log')].id
  BY <1>10, <1>11
<1> QED BY <1>10, <1>13, <1>14, <1>15 DEF VerifierInv

\* A restart reads where the log ends.
LEMMA RestartKeepsVerifierInv ==
    ASSUME VerifierInv, P!Restart
    PROVE  VerifierInv'
<1>1. P!TypeOK /\ p_req \in [Requests -> P!Request] /\ p_keyFile \in BOOLEAN
      /\ p_log \in Seq(P!Row) /\ Len(p_log) \in Nat /\ Len(p_log) >= 1
  BY DEF VerifierInv, P!TypeOK
<1>2. UNCHANGED <<p_config, p_keyFile, p_log>> /\ p_key' = p_keyFile /\ p_memory' = P!Resume
  BY DEF P!Restart
<1>3. Len(p_log) \in 1..Len(p_log)
  BY <1>1
<1>4. p_log[Len(p_log)] \in P!Row /\ p_log[Len(p_log)].sequence = Len(p_log) - 1
  BY <1>1, <1>3 DEF VerifierInv, P!LogReplays, P!verifyChain
<1>5. p_memory' = [next |-> Len(p_log), last |-> p_log[Len(p_log)].id]
  BY <1>1, <1>2, <1>4 DEF P!Resume
<1>6. p_memory' \in [next : Nat, last : Requests \cup {None}]
  BY <1>1, <1>4, <1>5 DEF P!Row
<1>7. ASSUME NEW d \in Requests
      PROVE  /\ p_req'[d] \in P!Request /\ p_req'[d].proof = p_req[d].proof
             /\ p_req'[d].verified = p_req[d].verified
             /\ p_req'[d].pc \in {"idle", "posted", "lost"} => p_req'[d].pc = p_req[d].pc
  <2>1. p_req'[d] = IF p_req[d].pc \in {"posted", "lost"}
                    THEN [p_req[d] EXCEPT !.pc = "done"] ELSE p_req[d]
    BY DEF P!Restart
  <2>2. p_req[d] \in P!Request
    BY <1>1
  <2> QED BY <2>1, <2>2 DEF P!Request
<1>8. p_req' \in [Requests -> P!Request]
  <2>1. p_req' = [d \in Requests |-> p_req'[d]]
    BY DEF P!Restart
  <2> QED BY <2>1, <1>7
<1>9. P!TypeOK'
  BY <1>1, <1>2, <1>6, <1>8 DEF P!TypeOK
<1>10. P!LogReplays'
  BY <1>2 DEF VerifierInv, P!LogReplays, P!verifyChain
<1>11. ASSUME NEW d \in Requests
       PROVE  /\ p_req'[d].pc \in {"idle", "posted", "lost"} => ~p_req'[d].verified
              /\ p_config'.service /\ p_req'[d].verified => InLog(d)'
  <2>1. /\ p_req[d].pc \in {"idle", "posted", "lost"} => ~p_req[d].verified
        /\ p_config.service /\ p_req[d].verified => InLog(d)
    BY DEF VerifierInv
  <2>2. InLog(d) => InLog(d)'
    BY <1>2, <1>7 DEF InLog
  <2> QED BY <1>2, <1>7, <2>1, <2>2
<1>12. p_memory'.next = Len(p_log') /\ p_memory'.last = p_log'[Len(p_log')].id
  BY <1>2, <1>5
<1> QED BY <1>1, <1>2, <1>9, <1>10, <1>11, <1>12 DEF VerifierInv

\* No step of the verification service breaks the invariant.
LEMMA VerifierStep ==
    ASSUME VerifierInv, P!Next \/ UNCHANGED p_vars
    PROVE  VerifierInv'
<1>1. /\ P!TypeOK /\ p_req \in [Requests -> P!Request] /\ p_config \in P!Config
      /\ \A c \in Requests : p_req[c] \in P!Request
      /\ \A c \in Requests : p_req[c].pc \in {"idle", "posted", "lost"} => ~p_req[c].verified
  BY DEF VerifierInv, P!TypeOK
<1>2. CASE UNCHANGED p_vars
  BY <1>2 DEF VerifierInv, p_vars, P!TypeOK, P!LogReplays, P!verifyChain, InLog
<1>3. ASSUME NEW c \in Requests, NEW proof \in P!Proofs, P!Accept(c, proof) PROVE VerifierInv'
  <2> DEFINE r == IF p_config.service
                  THEN [pc |-> "posted", proof |-> proof, verified |-> FALSE]
                  ELSE [pc |-> "chain", proof |-> proof,
                        verified |-> P!Verdict(p_config.key, proof)]
  <2>1. p_req' = [p_req EXCEPT ![c] = r]
        /\ UNCHANGED <<p_config, p_keyFile, p_key, p_log, p_memory>>
    BY <1>3 DEF P!Accept
  <2>2. r \in P!Request
    BY <1>1 DEF P!Request, P!Verdict, P!Config
  <2>3. r.pc \in {"idle", "posted", "lost"} => ~r.verified
    OBVIOUS
  <2>4. p_config.service /\ r.verified => p_req[c].verified /\ r.proof = p_req[c].proof
    OBVIOUS
  <2> HIDE DEF r
  <2> QED BY <2>1, <2>2, <2>3, <2>4, RequestWritten
<1>4. ASSUME NEW c \in Requests, P!ReadAnswer(c) PROVE VerifierInv'
  <2> DEFINE r == [p_req[c] EXCEPT !.pc = "chain"]
  <2>1. p_req' = [p_req EXCEPT ![c] = r]
        /\ UNCHANGED <<p_config, p_keyFile, p_key, p_log, p_memory>>
    BY <1>4 DEF P!ReadAnswer
  <2>2. r \in P!Request /\ r.pc = "chain" /\ r.verified = p_req[c].verified
        /\ r.proof = p_req[c].proof
    BY <1>1 DEF P!Request
  <2> HIDE DEF r
  <2> QED BY <2>1, <2>2, RequestWritten
<1>5. ASSUME NEW c \in Requests, P!GiveUp(c) PROVE VerifierInv'
  <2> DEFINE r == [p_req[c] EXCEPT !.pc = IF p_req[c].pc = "posted" THEN "lost" ELSE "done",
                                   !.verified = FALSE]
  <2>1. p_req' = [p_req EXCEPT ![c] = r]
        /\ UNCHANGED <<p_config, p_keyFile, p_key, p_log, p_memory>>
    BY <1>5 DEF P!GiveUp
  <2>2. r \in P!Request /\ ~r.verified
    BY <1>1 DEF P!Request
  <2> HIDE DEF r
  <2> QED BY <2>1, <2>2, RequestWritten
<1>6. ASSUME NEW c \in Requests, P!Recheck(c) PROVE VerifierInv'
  <2>1. PICK answered \in BOOLEAN :
          p_req' = [p_req EXCEPT ![c] = [@ EXCEPT !.pc = "done",
            !.verified = p_req[c].verified /\ (p_config.onChain /\ answered
                                                => p_req[c].proof = "sound")]]
    BY <1>6 DEF P!Recheck
  <2> DEFINE r == [p_req[c] EXCEPT !.pc = "done",
                     !.verified = p_req[c].verified /\ (p_config.onChain /\ answered
                                                          => p_req[c].proof = "sound")]
  <2>2. p_req' = [p_req EXCEPT ![c] = r]
        /\ UNCHANGED <<p_config, p_keyFile, p_key, p_log, p_memory>>
    BY <1>6, <2>1 DEF P!Recheck
  <2>3. r \in P!Request /\ r.pc = "done" /\ r.proof = p_req[c].proof
        /\ (r.verified => p_req[c].verified)
    BY <1>1 DEF P!Request
  <2> HIDE DEF r
  <2> QED BY <2>2, <2>3, RequestWritten
<1>7. ASSUME NEW c \in Requests, P!VerifyFails(c) PROVE VerifierInv'
  <2> DEFINE r == [p_req[c] EXCEPT !.pc = "done"]
  <2>1. p_req' = [p_req EXCEPT ![c] = r]
        /\ UNCHANGED <<p_config, p_keyFile, p_key, p_log, p_memory>>
    BY <1>7 DEF P!VerifyFails
  <2>2. r \in P!Request /\ r.pc = "done" /\ r.verified = p_req[c].verified
        /\ r.proof = p_req[c].proof
    BY <1>1 DEF P!Request
  <2> HIDE DEF r
  <2> QED BY <2>1, <2>2, RequestWritten
<1>8. CASE P!InstallKey
  <2>1. UNCHANGED <<p_config, p_key, p_log, p_memory, p_req>> /\ p_keyFile' \in BOOLEAN
    BY <1>1, <1>8 DEF P!InstallKey, P!TypeOK
  <2> QED BY <2>1 DEF VerifierInv, P!TypeOK, P!LogReplays, P!verifyChain, InLog
<1> QED
  BY <1>2, <1>3, <1>4, <1>5, <1>6, <1>7, <1>8, VerifyKeepsVerifierInv,
     RestartKeepsVerifierInv DEF P!Next

ProofInv == focus = "proof" => VerifierInv

\* The memory of the verifier is the end of its log, whose rows follow each other; a
\* request carries a good verdict only after the log does (services/verifier,
\* verifier-client.ts).
THEOREM VerifierSound == Spec => []ProofInv
<1>1. Init => ProofInv
  BY VerifierInvInit DEF Init, ProofInv
<1>2. ProofInv /\ [Next]_vars => ProofInv'
  BY FocusKept, ProofSteps, VerifierStep DEF ProofInv
<1> QED BY <1>1, <1>2, PTL DEF Spec

\* What the API accepts on the verifier's word is in the verifier's log, whatever
\* restarts and failed appends there were (services/verifier/src/audit.ts,
\* verifier-client.ts).
THEOREM AcceptedLogged == Spec => []AcceptedIsLogged
<1>1. ProofInv => AcceptedIsLogged
  BY DEF ProofInv, VerifierInv, AcceptedIsLogged, P!AcceptedIsLogged, InLog
<1> QED BY <1>1, VerifierSound, PTL

\* The verifier's log replays after any restarts and failures: every row follows the
\* one before it (services/verifier/src/audit.ts).
THEOREM VerifierLogReplays == Spec => []LogReplays
<1>1. ProofInv => LogReplays
  BY DEF ProofInv, VerifierInv, LogReplays
<1> QED BY <1>1, VerifierSound, PTL

-----------------------------------------------------------------------------
(* The least and the greatest of a set of numbers *)

\* A non-empty set of naturals has a least element.
LEMMA Least ==
    ASSUME NEW T, T \subseteq Nat, T # {}
    PROVE  \E x \in T : \A y \in T : x <= y
<1> DEFINE R == OpToRel(<, Nat)
<1>1. IsWellFoundedOn(R, Nat)
  BY NatLessThanWellFounded
<1>2. ASSUME NEW x \in Nat, NEW y \in Nat, x < y PROVE <<x, y>> \in R
  BY <1>2 DEF OpToRel
<1> HIDE DEF R
<1>3. PICK x \in T : \A y \in T : ~(<<y, x>> \in R)
  BY <1>1, WFMin
<1>4. \A y \in T : ~(y < x)
  BY <1>2, <1>3
<1> QED BY <1>4

\* A non-empty set of naturals with a bound has a greatest element.
LEMMA Greatest ==
    ASSUME NEW n \in Nat, NEW T, T \subseteq 0..n, T # {}
    PROVE  \E x \in T : \A y \in T : y <= x
<1> DEFINE Flip == {k \in 0..n : n - k \in T}
<1>1. \A y \in T : n - y \in Flip
  <2> TAKE y \in T
  <2>1. n - y \in 0..n /\ n - (n - y) = y
    OBVIOUS
  <2> QED BY <2>1
<1>2. Flip \subseteq Nat /\ Flip # {}
  <2>1. PICK y \in T : TRUE
    OBVIOUS
  <2>2. n - y \in Flip
    BY <2>1, <1>1
  <2>3. Flip \subseteq Nat
    OBVIOUS
  <2> HIDE DEF Flip
  <2> QED BY <2>2, <2>3
<1>3. PICK k \in Flip : \A m \in Flip : k <= m
  <2> HIDE DEF Flip
  <2> QED BY <1>2, Least
<1>4. n - k \in T /\ \A y \in T : k <= n - y
  BY <1>1, <1>3
<1>5. \A y \in T : y <= n - k
  BY <1>3, <1>4
<1> QED BY <1>4, <1>5

-----------------------------------------------------------------------------
(* The anchor job and the compliance pack *)

\* The instance counts as the theorems about finite sets do.
LEMMA AnchorCardinality == \A T : A!Cardinality(T) = Cardinality(T)
BY DEF A!Cardinality, Cardinality

\* The rows of a day that a replay up to row t sees.
RowsUpTo(d, t) == {i \in A!RowsOfDay(d) : i <= t}

\* A payload says of its day what a replay up to its terminal row finds.
Summary(p) ==
    /\ p.terminal <= Len(a_chain) /\ a_chain[p.terminal] = p.day
    /\ p.count = Cardinality(RowsUpTo(p.day, p.terminal))

\* Every payload under way is true of the chain, which only grows at its end; the
\* pack's numbers are lengths of the chain, read one after the other.
AnchorInv ==
    /\ A!TypeOK
    /\ \A p \in a_staged : Summary(p)
    /\ \A j \in Requests : a_job[j].pc = "check" => Summary(a_job[j].payload)
    /\ \A r, q \in a_recorded : r.day = q.day => r = q
    /\ a_pack.pc # "idle" => a_pack.total <= Len(a_chain)
    /\ a_pack.pc \in {"replay", "render", "done"} =>
          a_pack.total <= a_pack.head /\ a_pack.head <= Len(a_chain)
    /\ a_pack.pc \in {"render", "done"} =>
          a_pack.head <= a_pack.replayed \/ a_pack.replayed = a_pack.limit

\* What was true of the chain stays true when rows join it.
LEMMA SummaryStays ==
    ASSUME NEW d, a_chain \in Seq(A!Days), a_chain' = a_chain \/ a_chain' = Append(a_chain, d),
           NEW p \in A!Payload, Summary(p)
    PROVE  Summary(p)'
<1>1. Len(a_chain) \in Nat /\ Len(a_chain') \in Nat /\ Len(a_chain) <= Len(a_chain')
      /\ \A i \in 1..Len(a_chain) : a_chain'[i] = a_chain[i]
  OBVIOUS
<1>2. p.terminal \in Nat /\ p.terminal >= 1 /\ p.terminal <= Len(a_chain)
  BY DEF Summary, A!Payload
<1>3. {i \in 1..Len(a_chain') : a_chain'[i] = p.day /\ i <= p.terminal}
        = {i \in 1..Len(a_chain) : a_chain[i] = p.day /\ i <= p.terminal}
  BY <1>1, <1>2
<1>4. RowsUpTo(p.day, p.terminal)' = RowsUpTo(p.day, p.terminal)
  BY <1>3 DEF RowsUpTo, A!RowsOfDay
<1> QED BY <1>1, <1>2, <1>4 DEF Summary

\* ORDER BY id DESC: the last row of a day that has rows.
LEMMA TerminalIsLast ==
    ASSUME NEW d, a_chain \in Seq(A!Days), A!RowsOfDay(d) # {}
    PROVE  /\ A!Terminal(d) \in A!RowsOfDay(d)
           /\ RowsUpTo(d, A!Terminal(d)) = A!RowsOfDay(d)
<1>1. A!RowsOfDay(d) \subseteq 0..Len(a_chain) /\ Len(a_chain) \in Nat
  BY DEF A!RowsOfDay
<1>2. \E i \in A!RowsOfDay(d) : \A k \in A!RowsOfDay(d) : k <= i
  BY <1>1, Greatest
<1>3. /\ A!Terminal(d) \in A!RowsOfDay(d)
      /\ \A k \in A!RowsOfDay(d) : k <= A!Terminal(d)
  BY <1>2 DEF A!Terminal, A!Last
<1> QED BY <1>3 DEF RowsUpTo

\* The anchor job starts with a chain and no anchors.
LEMMA AnchorInvInit == A!Init => AnchorInv
<1> SUFFICES ASSUME A!Init PROVE AnchorInv
  OBVIOUS
<1>1. 1 \in A!Days /\ 1 \in 1..MaxRows /\ 0 \in 0..MaxRows /\ 0 \in 0..MaxOpen
  BY ServicesConstants DEF A!Days
<1>2. A!NoPayload \in A!Payload
  BY <1>1 DEF A!NoPayload, A!Payload
<1>3. a_chain = <<>> /\ a_chain \in Seq(A!Days) /\ Len(a_chain) = 0
  BY DEF A!Init
<1>4. a_job \in [Requests -> A!Job] /\ \A j \in Requests : a_job[j].pc = "idle"
  BY <1>2 DEF A!Init, A!Job
<1>5. a_pack \in A!Pack /\ a_pack.pc = "idle"
  BY <1>1 DEF A!Init, A!Pack
<1>6. a_open \in [A!Days -> 0..MaxOpen]
  BY <1>1 DEF A!Init
<1>7. A!TypeOK
  BY <1>1, <1>3, <1>4, <1>5, <1>6, ServicesConstants DEF A!TypeOK, A!Init
<1> QED BY <1>4, <1>5, <1>7 DEF AnchorInv, A!Init

\* A step of the chain, of the job or of the broadcaster: what is new under way is
\* true of the chain, and the pack is not touched.
LEMMA AnchorStays ==
    ASSUME AnchorInv, A!TypeOK', NEW d \in A!Days,
           a_chain' = a_chain \/ a_chain' = Append(a_chain, d),
           \A j \in Requests : a_job'[j].pc = "check" =>
              \/ a_job[j].pc = "check" /\ a_job'[j].payload = a_job[j].payload
              \/ Summary(a_job'[j].payload),
           \A p \in a_staged' : p \in a_staged \/ Summary(p),
           \A r, q \in a_recorded' : r.day = q.day => r = q,
           a_pack' = a_pack
    PROVE  AnchorInv'
<1>1. /\ a_chain \in Seq(A!Days) /\ a_staged' \subseteq A!Payload
      /\ a_job' \in [Requests -> A!Job] /\ a_job \in [Requests -> A!Job]
      /\ a_staged \subseteq A!Payload
  BY DEF AnchorInv, A!TypeOK
<1>2. ASSUME NEW p \in A!Payload, Summary(p) PROVE Summary(p)'
  BY <1>1, <1>2, SummaryStays
<1>3. \A p \in a_staged' : Summary(p)'
  BY <1>1, <1>2 DEF AnchorInv
<1>4. \A j \in Requests : a_job'[j].pc = "check" => Summary(a_job[j].payload)'
  <2> SUFFICES ASSUME NEW j \in Requests, a_job'[j].pc = "check"
               PROVE  Summary(a_job[j].payload)'
    OBVIOUS
  <2>1. PICK p \in A!Payload : p = a_job'[j].payload
    BY <1>1 DEF A!Job
  <2>2. Summary(p)
    BY <2>1 DEF AnchorInv
  <2>3. Summary(p)'
    BY <1>2, <2>2
  <2> QED BY <2>1, <2>3 DEF Summary
<1>5. Len(a_chain) \in Nat /\ Len(a_chain') \in Nat /\ Len(a_chain) <= Len(a_chain')
  BY <1>1
<1>6. a_pack \in A!Pack /\ a_pack.total \in Nat /\ a_pack.head \in Nat
  BY ServicesConstants DEF AnchorInv, A!TypeOK, A!Pack
<1>7. /\ a_pack'.pc # "idle" => a_pack'.total <= Len(a_chain')
      /\ a_pack'.pc \in {"replay", "render", "done"} =>
            a_pack'.total <= a_pack'.head /\ a_pack'.head <= Len(a_chain')
      /\ a_pack'.pc \in {"render", "done"} =>
            a_pack'.head <= a_pack'.replayed \/ a_pack'.replayed = a_pack'.limit
  BY <1>5, <1>6 DEF AnchorInv
<1> QED BY <1>3, <1>4, <1>7 DEF AnchorInv

\* A step of the pack, which is all that it changes (with the row of its own).
LEMMA PackSteps ==
    ASSUME AnchorInv,
           (\E l \in ChainLimits : A!CountRows(l)) \/ A!ReadTail \/ A!Replay \/ A!Render
    PROVE  AnchorInv'
<1>1. /\ a_chain \in Seq(A!Days) /\ Len(a_chain) \in 0..MaxRows /\ a_pack \in A!Pack
      /\ a_open \in [A!Days -> 0..MaxOpen] /\ a_today \in A!Days
      /\ a_pack.total \in Nat /\ a_pack.head \in Nat
  BY ServicesConstants DEF AnchorInv, A!TypeOK, A!Pack
<1>2. UNCHANGED <<a_today, a_chain, a_job, a_staged, a_anchors, a_recorded>>
  BY DEF A!CountRows, A!ReadTail, A!Replay, A!Render
<1>3. a_open' \in [A!Days -> 0..MaxOpen]
  <2>1. CASE a_open' = a_open
    BY <2>1, <1>1
  <2>2. CASE a_open[a_today] < MaxOpen /\ a_open' = [a_open EXCEPT ![a_today] = @ + 1]
    <3>1. a_open[a_today] + 1 \in 0..MaxOpen
      BY <1>1, <2>2, ServicesConstants
    <3> QED BY <1>1, <2>2, <3>1
  <2> QED BY <2>1, <2>2 DEF A!CountRows, A!ReadTail, A!Replay, A!Render
<1>4. /\ a_pack' \in A!Pack
      /\ a_pack'.pc # "idle" => a_pack'.total <= Len(a_chain')
      /\ a_pack'.pc \in {"replay", "render", "done"} =>
            a_pack'.total <= a_pack'.head /\ a_pack'.head <= Len(a_chain')
      /\ a_pack'.pc \in {"render", "done"} =>
            a_pack'.head <= a_pack'.replayed \/ a_pack'.replayed = a_pack'.limit
  <2> DEFINE Fits(k) ==
        /\ k \in A!Pack
        /\ k.pc # "idle" => k.total <= Len(a_chain)
        /\ k.pc \in {"replay", "render", "done"} => k.total <= k.head /\ k.head <= Len(a_chain)
        /\ k.pc \in {"render", "done"} => k.head <= k.replayed \/ k.replayed = k.limit
  <2>1. Fits(a_pack)
    BY DEF AnchorInv, A!TypeOK
  <2>2. Len(a_chain') = Len(a_chain)
    BY <1>2
  <2>3. ASSUME NEW l \in ChainLimits, A!CountRows(l)
        PROVE  Fits(a_pack')
    <3>1. a_pack' = [a_pack EXCEPT !.pc = "tail", !.total = Len(a_chain), !.limit = l]
      BY <2>3 DEF A!CountRows
    <3> DEFINE k == [a_pack EXCEPT !.pc = "tail", !.total = Len(a_chain), !.limit = l]
    <3>2. k \in A!Pack
      BY <1>1 DEF A!Pack
    <3>3. k.pc = "tail" /\ k.total = Len(a_chain)
      BY <1>1 DEF A!Pack
    <3> HIDE DEF k
    <3>4. Fits(k)
      BY <1>1, <3>2, <3>3
    <3>5. a_pack' = k
      BY <3>1 DEF k
    <3> QED BY <3>4, <3>5, <2>2
  <2>4. CASE A!ReadTail
    <3>1. a_pack' = [a_pack EXCEPT !.pc = "replay", !.head = Len(a_chain)] /\ a_pack.pc = "tail"
      BY <2>4 DEF A!ReadTail
    <3> DEFINE k == [a_pack EXCEPT !.pc = "replay", !.head = Len(a_chain)]
    <3>2. k \in A!Pack
      BY <1>1 DEF A!Pack
    <3>3. k.pc = "replay" /\ k.head = Len(a_chain) /\ k.total = a_pack.total
      BY <1>1 DEF A!Pack
    <3> HIDE DEF k
    <3>4. Fits(k)
      BY <1>1, <3>2, <3>3, <2>1, <3>1
    <3>5. a_pack' = k
      BY <3>1 DEF k
    <3> QED BY <3>4, <3>5, <2>2
  <2>5. CASE A!Replay
    <3> DEFINE n == A!ReplayedRows
               k == [a_pack EXCEPT !.pc = "render", !.replayed = n]
    <3>1. a_pack' = k /\ a_pack.pc = "replay"
      BY <2>5 DEF A!Replay
    <3>2. a_pack.limit \in Nat
      <4>1. a_pack.limit \in ChainLimits \cup {0}
        BY <1>1 DEF A!Pack
      <4>2. \A x \in ChainLimits : x \in Nat
        BY ServicesConstants
      <4>3. ASSUME NEW x \in ChainLimits \cup {0} PROVE x \in Nat
        BY <4>2
      <4> QED BY <4>1, <4>3
    <3>3. n \in 0..MaxRows /\ (n = Len(a_chain) \/ n = a_pack.limit)
      <4>1. \/ n = Len(a_chain)
            \/ a_pack.limit <= Len(a_chain) /\ n = a_pack.limit
        BY <1>1, <3>2 DEF A!ReplayedRows, A!Capped
      <4> QED BY <1>1, <3>2, <4>1, ServicesConstants
    <3> HIDE DEF n
    <3>4. /\ k \in A!Pack /\ k.pc = "render" /\ k.replayed = n
          /\ k.total = a_pack.total /\ k.head = a_pack.head /\ k.limit = a_pack.limit
      BY <1>1, <3>3 DEF A!Pack
    <3> HIDE DEF k
    <3>5. Fits(k)
      BY <2>1, <3>1, <3>3, <3>4
    <3> QED BY <3>1, <3>5, <2>2
  <2>6. CASE A!Render
    <3>1. a_pack' = [a_pack EXCEPT !.pc = "done"] /\ a_pack.pc = "render"
      BY <2>6 DEF A!Render
    <3>2. Fits([a_pack EXCEPT !.pc = "done"])
      BY <1>1, <2>1, <3>1 DEF A!Pack
    <3> QED BY <3>1, <3>2, <2>2
  <2> QED BY <2>2, <2>3, <2>4, <2>5, <2>6
<1>5. A!TypeOK'
  BY <1>2, <1>3, <1>4 DEF AnchorInv, A!TypeOK
<1>6. \A p : Summary(p)' <=> Summary(p)
  BY <1>2 DEF Summary, RowsUpTo, A!RowsOfDay
<1> QED BY <1>2, <1>4, <1>5, <1>6 DEF AnchorInv

\* A run of the job: the terminal row and the count are read together, staged and
\* audited.
LEMMA JobSteps ==
    ASSUME AnchorInv, NEW j \in Requests,
           \/ \E d \in A!Days : A!ComputeDailyAnchorPayload(j, d)
           \/ A!Stage(j) \/ A!SelfAudit(j) \/ A!JobFails(j)
    PROVE  AnchorInv'
<1>1. /\ a_chain \in Seq(A!Days) /\ Len(a_chain) \in 0..MaxRows /\ Len(a_chain) \in Nat
      /\ a_job \in [Requests -> A!Job] /\ a_job[j] \in A!Job /\ a_today \in A!Days
      /\ a_staged \subseteq A!Payload /\ a_recorded \subseteq a_staged
  BY ServicesConstants DEF AnchorInv, A!TypeOK
<1>2. UNCHANGED <<a_today, a_open, a_anchors, a_recorded, a_pack>>
  BY DEF A!ComputeDailyAnchorPayload, A!Stage, A!SelfAudit, A!JobFails
<1> DEFINE done == [a_job[j] EXCEPT !.pc = "done"]
           audit == [a_job[j] EXCEPT !.pc = "audit"]
<1>3. done \in A!Job /\ audit \in A!Job /\ done.pc = "done" /\ audit.pc = "audit"
  BY <1>1 DEF A!Job
<1>4. ASSUME NEW r \in A!Job, a_job' = [a_job EXCEPT ![j] = r],
             r.pc = "check" => Summary(r.payload),
             a_chain' = a_chain \/ (Len(a_chain) < MaxRows /\ a_chain' = Append(a_chain, a_today)),
             a_staged' \subseteq A!Payload, a_staged \subseteq a_staged',
             \A p \in a_staged' : p \in a_staged \/ Summary(p)
      PROVE  AnchorInv'
  <2>1. a_job' \in [Requests -> A!Job]
    BY <1>1, <1>4
  <2>2. a_chain' \in Seq(A!Days) /\ Len(a_chain') <= MaxRows
    BY <1>1, <1>4, ServicesConstants
  <2>3. A!TypeOK'
    BY <1>1, <1>2, <1>4, <2>1, <2>2 DEF AnchorInv, A!TypeOK
  <2>4. \A i \in Requests : a_job'[i].pc = "check" =>
          \/ a_job[i].pc = "check" /\ a_job'[i].payload = a_job[i].payload
          \/ Summary(a_job'[i].payload)
    BY <1>1, <1>4
  <2>5. \A r1, q1 \in a_recorded' : r1.day = q1.day => r1 = q1
    BY <1>2 DEF AnchorInv
  <2> QED BY <1>1, <1>2, <1>4, <2>3, <2>4, <2>5, AnchorStays
<1> HIDE DEF done, audit
<1>5. ASSUME NEW d \in A!Days, A!ComputeDailyAnchorPayload(j, d) PROVE AnchorInv'
  <2>1. CASE A!RowsOfDay(d) = {}
    <3>1. a_job' = [a_job EXCEPT ![j] = done] /\ UNCHANGED <<a_chain, a_staged>>
      BY <2>1, <1>5 DEF A!ComputeDailyAnchorPayload, done
    <3> QED BY <3>1, <1>1, <1>3, <1>4
  <2>2. CASE A!RowsOfDay(d) # {}
    <3> DEFINE p == [day |-> d, terminal |-> A!Terminal(d), count |-> Cardinality(A!RowsOfDay(d))]
               r == [pc |-> "check", payload |-> p]
    <3>1. a_job' = [a_job EXCEPT ![j] = r] /\ UNCHANGED <<a_chain, a_staged>>
      BY <2>2, <1>5, AnchorCardinality DEF A!ComputeDailyAnchorPayload
    <3>2. /\ A!Terminal(d) \in A!RowsOfDay(d)
          /\ RowsUpTo(d, A!Terminal(d)) = A!RowsOfDay(d)
      BY <1>1, <2>2, TerminalIsLast
    <3>3. A!Terminal(d) \in 1..Len(a_chain) /\ a_chain[A!Terminal(d)] = d
      BY <3>2 DEF A!RowsOfDay
    <3>4. Cardinality(A!RowsOfDay(d)) \in 1..MaxRows
      <4>1. A!RowsOfDay(d) \in SUBSET (1..Len(a_chain))
        BY DEF A!RowsOfDay
      <4>2. IsFiniteSet(1..Len(a_chain)) /\ Cardinality(1..Len(a_chain)) = Len(a_chain)
        <5>1. 1 \in Int /\ Len(a_chain) \in Int
          BY <1>1
        <5>2. Cardinality(1..Len(a_chain)) = IF 1 > Len(a_chain) THEN 0 ELSE Len(a_chain) - 1 + 1
          BY <5>1, FS_Interval
        <5> QED BY <5>1, <5>2, <1>1, FS_Interval
      <4>3. /\ IsFiniteSet(A!RowsOfDay(d))
            /\ Cardinality(A!RowsOfDay(d)) <= Len(a_chain)
        BY <4>1, <4>2, FS_Subset
      <4>4. Cardinality(A!RowsOfDay(d)) \in Nat /\ Cardinality(A!RowsOfDay(d)) # 0
        BY <2>2, <4>3, FS_CardinalityType, FS_EmptySet
      <4> QED BY <1>1, <4>3, <4>4, ServicesConstants
    <3>5. p \in A!Payload
      BY <1>1, <3>3, <3>4, ServicesConstants DEF A!Payload
    <3>6. Summary(p)
      BY <1>1, <3>2, <3>3 DEF Summary
    <3> HIDE DEF p
    <3>7. r \in A!Job /\ r.payload = p
      BY <3>5 DEF A!Job
    <3> HIDE DEF r
    <3> QED BY <3>1, <3>6, <3>7, <1>1, <1>4
  <2> QED BY <2>1, <2>2
<1>6. CASE A!Stage(j)
  <2>1. CASE a_job[j].payload.day \in a_anchors
    <3>1. a_job' = [a_job EXCEPT ![j] = done] /\ UNCHANGED <<a_chain, a_staged>>
      BY <2>1, <1>6 DEF A!Stage, done
    <3> QED BY <3>1, <1>1, <1>3, <1>4
  <2>2. CASE a_job[j].payload.day \notin a_anchors
    <3>1. a_job' = [a_job EXCEPT ![j] = audit] /\ UNCHANGED a_chain
          /\ a_staged' = a_staged \cup {a_job[j].payload}
      BY <2>2, <1>6 DEF A!Stage, audit
    <3>2. a_job[j].payload \in A!Payload /\ Summary(a_job[j].payload)
      BY <1>1, <1>6 DEF AnchorInv, A!Stage, A!Job
    <3> QED BY <3>1, <3>2, <1>1, <1>3, <1>4
  <2> QED BY <2>1, <2>2
<1>7. CASE A!SelfAudit(j)
  <2>1. a_job' = [a_job EXCEPT ![j] = done] /\ UNCHANGED a_staged
        /\ (a_chain' = a_chain \/ (Len(a_chain) < MaxRows /\ a_chain' = Append(a_chain, a_today)))
    BY <1>7 DEF A!SelfAudit, done
  <2> QED BY <2>1, <1>1, <1>3, <1>4
<1>8. CASE A!JobFails(j)
  <2>1. a_job' = [a_job EXCEPT ![j] = done] /\ UNCHANGED <<a_chain, a_staged>>
    BY <1>8 DEF A!JobFails, done
  <2> QED BY <2>1, <1>1, <1>3, <1>4
<1> QED BY <1>5, <1>6, <1>7, <1>8

\* No step of the job, the chain or a pack breaks the invariant.
LEMMA AnchorStep ==
    ASSUME AnchorInv, A!Next \/ UNCHANGED a_vars
    PROVE  AnchorInv'
<1>1. /\ A!TypeOK /\ a_chain \in Seq(A!Days) /\ Len(a_chain) \in 0..MaxRows
      /\ a_open \in [A!Days -> 0..MaxOpen] /\ a_today \in A!Days
      /\ a_staged \subseteq A!Payload /\ a_recorded \subseteq a_staged
      /\ a_anchors \subseteq A!Days
      /\ \A r, q \in a_recorded : r.day = q.day => r = q
  BY ServicesConstants DEF AnchorInv, A!TypeOK
<1>2. CASE UNCHANGED a_vars
  BY <1>2 DEF AnchorInv, a_vars, A!TypeOK, Summary, RowsUpTo, A!RowsOfDay
<1>3. ASSUME NEW d \in A!Days, UNCHANGED <<a_job, a_staged, a_pack>>, A!TypeOK',
             a_chain' = a_chain \/ a_chain' = Append(a_chain, d),
             \A r, q \in a_recorded' : r.day = q.day => r = q
      PROVE  AnchorInv'
  BY <1>3, AnchorStays
<1>4. CASE A!Midnight
  <2>1. a_today' \in A!Days /\ UNCHANGED <<a_chain, a_open, a_job, a_staged, a_anchors, a_recorded, a_pack>>
    BY <1>1, <1>4, ServicesConstants DEF A!Midnight, A!Days
  <2>2. A!TypeOK'
    BY <1>1, <2>1 DEF A!TypeOK
  <2> QED BY <1>1, <1>3, <2>1, <2>2
<1>5. CASE A!BeginAppend
  <2>1. a_open[a_today] + 1 \in 0..MaxOpen
    BY <1>1, <1>5, ServicesConstants DEF A!BeginAppend
  <2>2. a_open' \in [A!Days -> 0..MaxOpen]
        /\ UNCHANGED <<a_today, a_chain, a_job, a_staged, a_anchors, a_recorded, a_pack>>
    BY <1>1, <1>5, <2>1 DEF A!BeginAppend
  <2>3. A!TypeOK'
    BY <1>1, <2>2 DEF A!TypeOK
  <2> QED BY <1>1, <1>3, <2>2, <2>3
<1>6. ASSUME NEW d \in A!Days, A!CommitAppend(d) PROVE AnchorInv'
  <2>1. a_open[d] - 1 \in 0..MaxOpen
    BY <1>1, <1>6, ServicesConstants DEF A!CommitAppend
  <2>2. a_open' \in [A!Days -> 0..MaxOpen] /\ a_chain' = Append(a_chain, d)
        /\ UNCHANGED <<a_today, a_job, a_staged, a_anchors, a_recorded, a_pack>>
        /\ Len(a_chain) < MaxRows
    BY <1>1, <1>6, <2>1 DEF A!CommitAppend
  <2>3. a_chain' \in Seq(A!Days) /\ Len(a_chain') <= MaxRows
    BY <1>1, <2>2, ServicesConstants
  <2>4. A!TypeOK'
    BY <1>1, <2>2, <2>3 DEF A!TypeOK
  <2> QED BY <1>1, <1>3, <2>2, <2>4
<1>7. ASSUME NEW d \in A!Days, A!Confirm(d) PROVE AnchorInv'
  <2>1. a_anchors' \subseteq A!Days
        /\ UNCHANGED <<a_today, a_chain, a_open, a_job, a_staged, a_recorded, a_pack>>
    BY <1>1, <1>7 DEF A!Confirm
  <2>2. A!TypeOK'
    BY <1>1, <2>1 DEF A!TypeOK
  <2> QED BY <1>1, <1>3, <2>1, <2>2
<1>8. ASSUME NEW p \in a_staged, A!Broadcast(p) PROVE AnchorInv'
  <2>1. a_recorded' = (IF \E r \in a_recorded : r.day = p.day THEN a_recorded
                       ELSE a_recorded \cup {p})
        /\ UNCHANGED <<a_today, a_chain, a_open, a_job, a_staged, a_anchors, a_pack>>
    BY <1>8 DEF A!Broadcast, A!RecordAnchor
  <2>2. a_recorded' \subseteq a_staged /\ \A r, q \in a_recorded' : r.day = q.day => r = q
    BY <1>1, <2>1
  <2>3. A!TypeOK'
    BY <1>1, <2>1, <2>2 DEF A!TypeOK
  <2> QED BY <1>1, <1>3, <2>1, <2>2, <2>3
<1> QED
  BY <1>2, <1>4, <1>5, <1>6, <1>7, <1>8, JobSteps, PackSteps DEF A!Next

DailyInv == focus = "anchor" => AnchorInv

\* What a run of the job read stays true of a chain that grows at its end, and a pack's
\* numbers are lengths of the chain in the order it read them (audit-anchor.ts,
\* compliance-pack.ts).
THEOREM AnchorsSound == Spec => []DailyInv
<1>1. Init => DailyInv
  BY AnchorInvInit DEF Init, DailyInv
<1>2. DailyInv /\ [Next]_vars => DailyInv'
  BY FocusKept, AnchorSteps, AnchorStep DEF DailyInv
<1> QED BY <1>1, <1>2, PTL DEF Spec

\* A replay up to the terminal row of an anchor finds the anchor's count, though events
\* go on being written and late ones land behind it (audit-anchor.ts).
THEOREM AnchorsReplay == Spec => []AnchorReplays
<1>1. AnchorInv => A!AnchorReplays
  <2> SUFFICES ASSUME AnchorInv PROVE A!AnchorReplays
    OBVIOUS
  <2>1. a_recorded \subseteq a_staged
    BY DEF AnchorInv, A!TypeOK
  <2>2. \A r \in a_recorded : Summary(r)
    BY <2>1 DEF AnchorInv
  <2>3. \A r \in a_recorded :
          /\ a_chain[r.terminal] = r.day
          /\ r.count = A!Cardinality({i \in A!RowsOfDay(r.day) : i <= r.terminal})
    BY <2>2, AnchorCardinality DEF Summary, RowsUpTo
  <2> QED BY <2>3 DEF AnchorInv, A!AnchorReplays
<1>2. DailyInv => AnchorReplays
  BY <1>1 DEF DailyInv, AnchorReplays
<1> QED BY <1>2, AnchorsSound, PTL

\* The replay of a compliance pack reaches the head it prints, or has spent its limit
\* (compliance-pack.ts).
THEOREM PacksReplay == Spec => []PackReplaysItsHead
<1>1. DailyInv => PackReplaysItsHead
  BY DEF DailyInv, AnchorInv, PackReplaysItsHead, A!PackReplaysItsHead
<1> QED BY <1>1, AnchorsSound, PTL

-----------------------------------------------------------------------------
(* The chain gateway and the registry contract *)

\* The instance counts as the theorems about finite sets do.
LEMMA ChainCardinality == \A T : C!Cardinality(T) = Cardinality(T)
BY DEF C!Cardinality, Cardinality

Registered == {h \in Requests : c_identities[h] # None}

\* What a call carries fits where it stands; only a caller that waited for the chain
\* is told of a receipt, and the identity of that receipt is there.
CallFits(k) ==
    /\ k.pc \in {"send", "wait"} => k.attempt \in 1..MaxRetries
    /\ k.path = "faceFirst" \/ k.pc # "done" => k.reported # "mined"

GatewayInv ==
    /\ C!TypeOK
    /\ c_identityCount = Cardinality(Registered)
    /\ \A c \in Ids : CallFits(c_call[c])
    /\ c_revoked = 0 =>
          \A c \in Ids : c_call[c].reported = "mined" => c_identities[c_call[c].hash] = c

\* The gateway starts with nothing sent.
LEMMA GatewayInvInit == C!Init => GatewayInv
<1> SUFFICES ASSUME C!Init PROVE GatewayInv
  OBVIOUS
<1>1. c_identities = [h \in Requests |-> None] /\ c_identityCount = 0 /\ c_mempool = {}
      /\ c_revoked = 0
  BY DEF C!Init
<1>2. ASSUME NEW c \in Ids
      PROVE  c_call[c] \in C!Call /\ c_call[c].pc = "idle" /\ c_call[c].reported = "nothing"
  <2>1. PICK p \in {"register", "faceFirst"}, h \in Requests :
          c_call[c] = [pc |-> "idle", path |-> p, hash |-> h, attempt |-> 0,
                       reported |-> "nothing"]
    BY DEF C!Init
  <2>2. 0 \in 0..MaxRetries
    BY ServicesConstants
  <2> QED BY <2>1, <2>2 DEF C!Call
<1>3. c_call \in [Ids -> C!Call]
  <2>1. c_call = [c \in Ids |-> c_call[c]]
    BY DEF C!Init
  <2> QED BY <2>1, <1>2
<1>4. C!TypeOK
  BY <1>1, <1>3 DEF C!TypeOK
<1>5. Registered = {}
  BY <1>1 DEF Registered
<1>6. c_identityCount = Cardinality(Registered)
  BY <1>1, <1>5, FS_EmptySet
<1> QED BY <1>2, <1>4, <1>6 DEF GatewayInv, CallFits

\* A step of a call alone, which is told of no receipt by it.
LEMMA CallStep ==
    ASSUME GatewayInv, NEW c \in Ids, NEW r \in C!Call,
           c_call' = [c_call EXCEPT ![c] = r],
           UNCHANGED <<c_identities, c_identityCount, c_revoked>>,
           c_mempool' \subseteq Ids \X (1..MaxRetries),
           CallFits(r), r.reported # "mined"
    PROVE  GatewayInv'
<1>1. C!TypeOK /\ c_call \in [Ids -> C!Call]
  BY DEF GatewayInv, C!TypeOK
<1>2. c_call' \in [Ids -> C!Call]
  BY <1>1
<1>3. C!TypeOK'
  BY <1>1, <1>2 DEF C!TypeOK
<1>4. Registered' = Registered
  BY DEF Registered
<1>5. \A d \in Ids : c_call'[d] = IF d = c THEN r ELSE c_call[d]
  BY <1>1
<1>6. \A d \in Ids : CallFits(c_call'[d])
  BY <1>5 DEF GatewayInv
<1>7. c_revoked' = 0 =>
        \A d \in Ids : c_call'[d].reported = "mined" => c_identities'[c_call'[d].hash] = d
  BY <1>5 DEF GatewayInv
<1>8. \A d \in Ids : CallFits(c_call[d])'
  BY <1>6 DEF CallFits
<1> QED BY <1>3, <1>4, <1>7, <1>8 DEF GatewayInv

\* What a call becomes when its attempt failed.
Retried(c) ==
    IF c_call[c].attempt < MaxRetries
    THEN [c_call[c] EXCEPT !.pc = "send", !.attempt = c_call[c].attempt + 1]
    ELSE [c_call[c] EXCEPT !.pc = "done", !.reported = C!Outcome(c, FALSE)]

\* A call that tries again keeps its hash and what it was told.
LEMMA RetryFits ==
    ASSUME GatewayInv, NEW c \in Ids, c_call[c].pc \in {"send", "wait"}
    PROVE  Retried(c) \in C!Call /\ CallFits(Retried(c)) /\ Retried(c).reported # "mined"
<1>1. c_call[c] \in C!Call /\ CallFits(c_call[c]) /\ c_call[c].attempt \in 1..MaxRetries
      /\ c_call[c].reported # "mined"
  BY DEF GatewayInv, C!TypeOK, CallFits
<1>2. CASE c_call[c].attempt < MaxRetries
  <2>1. c_call[c].attempt + 1 \in 0..MaxRetries /\ c_call[c].attempt + 1 \in 1..MaxRetries
    BY <1>1, <1>2, ServicesConstants
  <2>2. Retried(c) = [c_call[c] EXCEPT !.pc = "send", !.attempt = c_call[c].attempt + 1]
    BY <1>2 DEF Retried
  <2> QED BY <1>1, <2>1, <2>2 DEF C!Call, CallFits
<1>3. CASE ~(c_call[c].attempt < MaxRetries)
  <2>1. C!Outcome(c, FALSE) \in {"nothing", "offChain", "offline"}
    BY <1>1 DEF C!Outcome, C!Call
  <2>2. Retried(c) = [c_call[c] EXCEPT !.pc = "done", !.reported = C!Outcome(c, FALSE)]
    BY <1>3 DEF Retried
  <2> QED BY <1>1, <2>1, <2>2 DEF C!Call, CallFits
<1> QED BY <1>2, <1>3

\* A registration is posted, with or without the face first.
LEMMA PostSteps ==
    ASSUME GatewayInv, NEW c \in Ids, C!RegisterIdentity(c) \/ C!RegisterFaceFirst(c)
    PROVE  GatewayInv'
<1>1. /\ c_call[c] \in C!Call /\ c_call[c].pc = "idle" /\ CallFits(c_call[c])
      /\ UNCHANGED <<c_identities, c_identityCount, c_mempool, c_revoked>>
      /\ c_mempool' \subseteq Ids \X (1..MaxRetries)
  BY DEF GatewayInv, C!TypeOK, C!RegisterIdentity, C!RegisterFaceFirst
<1>2. PICK how \in {"nothing", "offChain", "offline"} :
        \/ c_call' = [c_call EXCEPT ![c] = [c_call[c] EXCEPT !.pc = "done", !.reported = how]]
        \/ c_call' = [c_call EXCEPT ![c] = [c_call[c] EXCEPT !.pc = "send", !.attempt = 1,
                                                             !.reported = how]]
  BY DEF C!RegisterIdentity, C!RegisterFaceFirst, C!Answered, C!NoContract, C!FirstAttempt
<1>3. CASE c_call' = [c_call EXCEPT ![c] = [c_call[c] EXCEPT !.pc = "done", !.reported = how]]
  <2> DEFINE r == [c_call[c] EXCEPT !.pc = "done", !.reported = how]
  <2>1. r \in C!Call /\ CallFits(r) /\ r.reported # "mined"
    BY <1>1 DEF C!Call, CallFits
  <2> QED BY <1>1, <1>3, <2>1, CallStep
<1>4. CASE c_call' = [c_call EXCEPT ![c] = [c_call[c] EXCEPT !.pc = "send", !.attempt = 1,
                                                             !.reported = how]]
  <2> DEFINE r == [c_call[c] EXCEPT !.pc = "send", !.attempt = 1, !.reported = how]
  <2>1. 1 \in 0..MaxRetries /\ 1 \in 1..MaxRetries
    BY ServicesConstants
  <2>2. r \in C!Call /\ CallFits(r) /\ r.reported # "mined"
    BY <1>1, <2>1 DEF C!Call, CallFits
  <2> QED BY <1>1, <1>4, <2>2, CallStep
<1> QED BY <1>2, <1>3, <1>4

\* A step that maps a hash nobody holds, or frees one, keeps the count.
LEMMA CountFollows ==
    ASSUME GatewayInv, NEW h \in Requests, NEW d \in Ids \cup {None},
           c_identities' = [c_identities EXCEPT ![h] = d]
    PROVE  /\ c_identities[h] = None /\ d # None =>
                  Cardinality(Registered') = Cardinality(Registered) + 1
           /\ c_identities[h] # None /\ d = None =>
                  /\ Cardinality(Registered') = Cardinality(Registered) - 1
                  /\ Cardinality(Registered) - 1 \in Nat
           /\ Cardinality(Registered) \in Nat
<1>1. c_identities \in [Requests -> Ids \cup {None}]
  BY DEF GatewayInv, C!TypeOK
<1>2. IsFiniteSet(Registered) /\ Cardinality(Registered) \in Nat
  <2>1. Registered \in SUBSET Requests
    BY DEF Registered
  <2> QED BY <2>1, ServicesConstants, FS_Subset, FS_CardinalityType
<1>3. ASSUME c_identities[h] = None, d # None
      PROVE  Cardinality(Registered') = Cardinality(Registered) + 1
  <2>1. Registered' = Registered \cup {h} /\ h \notin Registered
    BY <1>1, <1>3 DEF Registered
  <2> QED BY <1>2, <2>1, FS_AddElement
<1>4. ASSUME c_identities[h] # None, d = None
      PROVE  /\ Cardinality(Registered') = Cardinality(Registered) - 1
             /\ Cardinality(Registered) - 1 \in Nat
  <2>1. Registered' = Registered \ {h} /\ h \in Registered
    BY <1>1, <1>4 DEF Registered
  <2>2. Cardinality(Registered \ {h}) = Cardinality(Registered) - 1
    BY <1>2, <2>1, FS_RemoveElement
  <2>3. Cardinality(Registered \ {h}) \in Nat
    BY <1>2, FS_RemoveElement, FS_CardinalityType
  <2> QED BY <2>1, <2>2, <2>3
<1> QED BY <1>2, <1>3, <1>4

\* A revocation takes no receipt back.
LEMMA RevokeStep ==
    ASSUME GatewayInv, NEW h \in Requests, C!RevokeIdentity(h)
    PROVE  GatewayInv'
<1>1. /\ c_identities' = [c_identities EXCEPT ![h] = None] /\ c_identities[h] # None
      /\ c_identityCount' = c_identityCount - 1 /\ c_revoked' = c_revoked + 1
      /\ UNCHANGED <<c_mempool, c_call>>
  BY DEF C!RevokeIdentity
<1>2. C!TypeOK /\ c_revoked \in Nat /\ c_identityCount = Cardinality(Registered)
  BY DEF GatewayInv, C!TypeOK
<1>3. c_identityCount' = Cardinality(Registered') /\ c_identityCount' \in Nat
  BY <1>1, <1>2, CountFollows
<1>4. c_revoked' # 0 /\ c_revoked' \in Nat
  BY <1>1, <1>2
<1>5. C!TypeOK'
  BY <1>1, <1>2, <1>3, <1>4 DEF C!TypeOK
<1>6. \A d \in Ids : CallFits(c_call[d])'
  BY <1>1 DEF GatewayInv, CallFits
<1> QED BY <1>3, <1>4, <1>5, <1>6 DEF GatewayInv

\* A transaction is mined, once or reverted.
LEMMA MineStep ==
    ASSUME GatewayInv, NEW c \in Ids, NEW n \in 1..MaxRetries, C!MineRegister(c, n)
    PROVE  GatewayInv'
<1> DEFINE h == c_call[c].hash
           waiting == c_call[c].pc = "wait" /\ c_call[c].attempt = n
           told == [c_call[c] EXCEPT !.pc = "done", !.reported = C!Outcome(c, TRUE)]
<1>1. /\ C!TypeOK /\ c_call \in [Ids -> C!Call] /\ c_call[c] \in C!Call /\ CallFits(c_call[c])
      /\ h \in Requests /\ c_identities \in [Requests -> Ids \cup {None}]
      /\ c_identityCount = Cardinality(Registered)
  BY DEF GatewayInv, C!TypeOK, C!Call
<1>2. c_mempool' \subseteq Ids \X (1..MaxRetries) /\ c_revoked' = c_revoked
  BY <1>1 DEF C!MineRegister, C!TypeOK
<1>3. CASE ~C!Registrable(h) /\ waiting
  <2>1. c_call' = [c_call EXCEPT ![c] = Retried(c)]
        /\ UNCHANGED <<c_identities, c_identityCount, c_revoked>>
    BY <1>3 DEF C!MineRegister, C!Retry, Retried
  <2> QED BY <1>2, <1>3, <2>1, CallStep, RetryFits
<1>4. CASE ~C!Registrable(h) /\ ~waiting
  <2>1. UNCHANGED <<c_identities, c_identityCount, c_revoked, c_call>>
    BY <1>4 DEF C!MineRegister
  <2>2. C!TypeOK'
    BY <1>1, <1>2, <2>1 DEF C!TypeOK
  <2> QED BY <2>1, <2>2 DEF GatewayInv, CallFits, Registered
<1>5. CASE C!Registrable(h)
  <2>1. /\ c_identities[h] = None /\ c_identities' = [c_identities EXCEPT ![h] = c]
        /\ c_identityCount' = c_identityCount + 1
        /\ c_call' = IF waiting THEN [c_call EXCEPT ![c] = told] ELSE c_call
    BY <1>5 DEF C!MineRegister, C!Registrable
  <2>2. c_identityCount' = Cardinality(Registered') /\ c_identityCount' \in Nat
    <3>1. PICK g \in Requests : g = h
      BY <1>1
    <3>2. c_identities[g] = None /\ c_identities' = [c_identities EXCEPT ![g] = c]
      BY <2>1, <3>1
    <3>3. c # None /\ c \in Ids \cup {None}
      BY ServicesConstants
    <3>4. Cardinality(Registered') = Cardinality(Registered) + 1
          /\ Cardinality(Registered) \in Nat
      BY <3>2, <3>3, CountFollows
    <3> QED BY <1>1, <2>1, <3>4
  <2>3. told \in C!Call /\ CallFits(told) /\ told.hash = h
    BY <1>1 DEF C!Call, C!Outcome, CallFits
  <2> HIDE DEF told
  <2>4. c_call' \in [Ids -> C!Call]
    BY <1>1, <2>1, <2>3
  <2>5. c_identities' \in [Requests -> Ids \cup {None}]
    BY <1>1, <2>1
  <2>6. C!TypeOK'
    BY <1>1, <1>2, <2>2, <2>4, <2>5 DEF C!TypeOK
  <2>7. \A d \in Ids : c_call'[d] = c_call[d] \/ (d = c /\ c_call'[d] = told)
    BY <1>1, <2>1
  <2>8. \A d \in Ids : CallFits(c_call[d])'
    BY <2>3, <2>7 DEF GatewayInv, CallFits
  <2>9. c_revoked' = 0 =>
          \A d \in Ids : c_call'[d].reported = "mined" => c_identities'[c_call'[d].hash] = d
    <3> SUFFICES ASSUME c_revoked = 0, NEW d \in Ids, c_call'[d].reported = "mined"
                 PROVE  c_identities'[c_call'[d].hash] = d
      BY <1>2
    <3>1. CASE d = c
      BY <3>1, <1>1, <2>1, <2>3, <2>7
    <3>2. CASE d # c
      <4>1. c_call'[d] = c_call[d] /\ c_identities[c_call[d].hash] = d
        BY <3>2, <2>7 DEF GatewayInv
      <4>2. c_call[d].hash \in Requests /\ c_call[d].hash # h
        BY <4>1, <1>1, <2>1, ServicesConstants DEF C!Call
      <4> QED BY <4>1, <4>2, <1>1, <2>1
    <3> QED BY <3>1, <3>2
  <2> QED BY <2>2, <2>6, <2>8, <2>9 DEF GatewayInv
<1> QED BY <1>3, <1>4, <1>5

\* No step of the gateway or of the contract breaks the invariant.
LEMMA GatewayStep ==
    ASSUME GatewayInv, C!Next \/ UNCHANGED c_vars
    PROVE  GatewayInv'
<1>1. /\ C!TypeOK /\ \A c \in Ids : c_call[c] \in C!Call /\ CallFits(c_call[c])
      /\ c_mempool \subseteq Ids \X (1..MaxRetries)
  BY DEF GatewayInv, C!TypeOK
<1>2. CASE UNCHANGED c_vars
  BY <1>2 DEF GatewayInv, c_vars, C!TypeOK, CallFits, Registered
<1>3. ASSUME NEW c \in Ids, C!SendTransaction(c) PROVE GatewayInv'
  <2> DEFINE r == [c_call[c] EXCEPT !.pc = "wait"]
  <2>1. c_call' = [c_call EXCEPT ![c] = r]
        /\ UNCHANGED <<c_identities, c_identityCount, c_revoked>>
        /\ c_mempool' = c_mempool \cup {<<c, c_call[c].attempt>>} /\ c_call[c].pc = "send"
    BY <1>3 DEF C!SendTransaction
  <2>2. c_mempool' \subseteq Ids \X (1..MaxRetries)
    BY <1>1, <2>1 DEF CallFits
  <2>3. r \in C!Call /\ CallFits(r) /\ r.reported # "mined"
    BY <1>1, <2>1 DEF C!Call, CallFits
  <2> HIDE DEF r
  <2> QED BY <2>1, <2>2, <2>3, CallStep
<1>4. ASSUME NEW c \in Ids, C!SendFails(c) \/ C!WaitFails(c) PROVE GatewayInv'
  <2>1. c_call' = [c_call EXCEPT ![c] = Retried(c)] /\ c_call[c].pc \in {"send", "wait"}
        /\ UNCHANGED <<c_identities, c_identityCount, c_mempool, c_revoked>>
    BY <1>4 DEF C!SendFails, C!WaitFails, C!Retry, Retried
  <2> QED BY <1>1, <2>1, RetryFits, CallStep
<1> QED
  BY <1>2, <1>3, <1>4, PostSteps, MineStep, RevokeStep
     DEF C!Next, C!PostRegister, C!PostRegisterV1, C!PostIdentity

ChainInv == focus = "chain" => GatewayInv

\* The count of identities is their number and, while nothing was revoked, a
\* registration that was reported mined is in the contract (services/blockchain.ts,
\* contracts/DIDRegistry.sol).
THEOREM GatewaySound == Spec => []ChainInv
<1>1. Init => ChainInv
  BY GatewayInvInit DEF Init, ChainInv
<1>2. ChainInv /\ [Next]_vars => ChainInv'
  BY FocusKept, ChainSteps, GatewayStep DEF ChainInv
<1> QED BY <1>1, <1>2, PTL DEF Spec

\* A receipt that was answered is on the chain (services/blockchain.ts).
THEOREM ReceiptsHold == Spec => []ReceiptIsOnChain
<1>1. ChainInv => ReceiptIsOnChain
  BY ChainCardinality DEF ChainInv, GatewayInv, Registered, ReceiptIsOnChain, C!ReceiptIsOnChain
<1> QED BY <1>1, GatewaySound, PTL

-----------------------------------------------------------------------------
(* The fingerprint terminal's accounts file *)

\* Unless a write failed or two overlapped, the file is what is in memory, or one
\* write of that is under way.
FileInv ==
    ~b_blemished =>
       \/ b_saves = {} /\ b_file = b_account
       \/ \E s : b_saves = {s} /\ s.account = b_account

\* A change of what is in memory starts a write of it.
LEMMA SaveStarted ==
    ASSUME FileInv, NEW by, NEW a, b_account' = a, B!saveAccounts(by, a)
    PROVE  FileInv'
<1>1. /\ b_saves' = b_saves \cup {[by |-> by, account |-> a]}
      /\ b_blemished' = (b_blemished \/ b_saves # {})
  BY DEF B!saveAccounts
<1>2. CASE b_saves = {}
  <2>1. b_saves' = {[by |-> by, account |-> a]} /\ [by |-> by, account |-> a].account = a
    BY <1>1, <1>2
  <2> QED BY <2>1 DEF FileInv
<1>3. CASE b_saves # {}
  BY <1>1, <1>3 DEF FileInv
<1> QED BY <1>2, <1>3

\* Memory and file agree, or a write that will make them agree is under way.
LEMMA FileStep ==
    ASSUME FileInv, B!Next \/ UNCHANGED b_vars
    PROVE  FileInv'
<1>1. ASSUME UNCHANGED B!hostVars PROVE FileInv'
  BY <1>1 DEF FileInv, B!hostVars
<1>2. ASSUME NEW f, NEW t, B!SetAccount(f, t) PROVE FileInv'
  BY <1>2, SaveStarted DEF B!SetAccount
<1>3. ASSUME NEW f \in Ids, B!enroll(f) \/ B!simEnroll(f) PROVE FileInv'
  BY <1>2, <1>3 DEF B!enroll, B!simEnroll
<1>4. ASSUME NEW f \in Ids, B!registerUser(f) PROVE FileInv'
  BY <1>1, <1>4, SaveStarted DEF B!registerUser, B!Attributed, B!Detached
<1>5. ASSUME NEW s \in b_saves, B!SaveLands(s) PROVE FileInv'
  <2>1. b_saves' = b_saves \ {s} /\ b_file' = s.account /\ UNCHANGED <<b_account, b_blemished>>
    BY <1>5 DEF B!SaveLands
  <2> QED BY <1>5, <2>1 DEF FileInv
<1>6. ASSUME NEW s \in b_saves, B!SaveFails(s) PROVE FileInv'
  BY <1>6 DEF FileInv, B!SaveFails
<1>7. CASE B!reset
  BY <1>7, SaveStarted DEF B!reset
<1>8. CASE B!Restart
  BY <1>8 DEF B!Restart, FileInv
<1>9. ASSUME NEW f \in Ids,
             \/ \E k \in B!Kinds : B!RequestOtp(f, k)
             \/ B!VerifyOtp(f) \/ B!Lapse(f) \/ B!TakeToken(f) \/ B!withSensorLock(f)
             \/ B!cmd(f) \/ B!NoAccount(f) \/ B!Timeout(f) \/ B!NoFinger(f)
             \/ B!ProofFails(f) \/ B!simAuthenticate(f) \/ B!Finish(f)
      PROVE  UNCHANGED B!hostVars
  BY <1>9 DEF B!RequestOtp, B!VerifyOtp, B!Lapse, B!TakeToken, B!withSensorLock, B!cmd,
              B!NoAccount, B!Timeout, B!NoFinger, B!ProofFails, B!simAuthenticate, B!Finish
<1>10. ASSUME NEW n, B!onData(n) PROVE UNCHANGED B!hostVars
  BY <1>10 DEF B!onData
<1>11. CASE UNCHANGED b_vars
  BY <1>1, <1>11 DEF b_vars, B!hostVars
<1> QED
  BY <1>1, <1>3, <1>4, <1>5, <1>6, <1>7, <1>8, <1>9, <1>10, <1>11 DEF B!Next

TerminalInv == focus = "bridge" => FileInv

\* What the terminal has in memory is in its file once no write is under way, unless a
\* write failed or two overlapped (iot/src/bridge.ts).
THEOREM AccountsSaved == Spec => []AccountsAreSaved
<1>1. Init => TerminalInv
  BY DEF Init, TerminalInv, B!Init, FileInv
<1>2. TerminalInv /\ [Next]_vars => TerminalInv'
  BY FocusKept, BridgeSteps, FileStep DEF TerminalInv
<1>3. TerminalInv => AccountsAreSaved
  BY DEF TerminalInv, FileInv, AccountsAreSaved, B!AccountsAreSaved
<1> QED BY <1>1, <1>2, <1>3, PTL DEF Spec

-----------------------------------------------------------------------------
(* The terminal: what its invariant says *)

Part == [finger : Scopes \cup {None}, part : Nat]
Commands == {"finger", "char1", "removal", "char2", "combine", "upload", "load", "match"}
AckPacket == [ack : {TRUE}, cmd : Commands, ok : BOOLEAN]
Account == [template : Seq(Part), user : BOOLEAN]
Places == {"idle", "code", "token", "queued", "sensor", "derived", "saving", "sync",
           "filing", "record"}
FlowState ==
    [at : Places, kind : B!Kinds, step : 0 .. 7, attempt : 1 .. MaxAttempts,
     seen : Scopes \cup {None}, template : Seq(Part), reading : BOOLEAN, matched : BOOLEAN]
Save == [by : Ids \cup {"reset"}, account : Account \cup {None}]

BridgeTypes ==
    /\ b_pending \in [B!Kinds -> [by : Ids \cup {None}, left : 0 .. MaxAttempts]]
    /\ b_flow \in [Ids -> FlowState]
    /\ b_lock \in Ids \cup {None} /\ b_waiter \in Ids \cup {None}
    /\ b_image \in Scopes \cup {None}
    /\ b_buf1 \in {<<>>} \cup {B!Template(x) : x \in Scopes \cup {None}}
    /\ b_buf2 \in Seq(Part) /\ b_line \in Seq(Part \cup AckPacket)
    /\ b_account \in Account \cup {None} /\ b_file \in Account \cup {None}
    /\ b_saves \subseteq Save
    /\ b_late \in BOOLEAN

\* The command that a flow in state r is at.
CommandOf(r) == IF r.step = 0 THEN "removal" ELSE B!Script(r.kind)[r.step]

\* What a flow's state r says by itself, and of the lock and the reader: whoever is at
\* the sensor or has just left it holds the lock, only it may wait for a packet, and it
\* collects packets only while it uploads.
FlowFits(r, holds, waits) ==
    /\ r.kind = "login" => r.step <= 4
    /\ r.kind = "login" /\ r.at = "sensor" => r.step >= 1
    /\ r.at \in {"sensor", "derived"} => holds
    /\ waits => r.at = "sensor"
    /\ r.matched => r.at \in {"sync", "filing", "record"}
    /\ r.reading => \/ r.at \in {"derived", "saving", "sync", "filing", "record"}
                    \/ waits /\ CommandOf(r) = "upload"
FlowsFit == \A f \in Ids : FlowFits(b_flow[f], b_lock = f, b_waiter = f)

\* A flow has at most one write under way, and stays where it began it.
SavesFit ==
    /\ \A s \in b_saves : s.by \in Ids => b_flow[s.by].at \in {"saving", "filing"}
    /\ \A s1, s2 \in b_saves : s1.by \in Ids /\ s1.by = s2.by => s1 = s2

\* The last packets of a template, none missing at the end.
Numbered(l) ==
    \A i \in 1 .. Len(l) : l[i] \in Part /\ l[i].part = Packets - Len(l) + i

\* What is on its way to a flow that waits: the answer to its own command.
LineFits(r, l) ==
    IF CommandOf(r) # "upload" THEN \E ok \in BOOLEAN : l = <<B!Ack(CommandOf(r), ok)>>
    ELSE IF r.reading THEN Numbered(l)
    ELSE l # <<>> /\ l[1] \in AckPacket /\ l[1].ok /\ Numbered(Tail(l))

Own(r) == \A i \in DOMAIN r.template : r.template[i].finger = r.seen

\* What a login has done so far, the command it waits for included, it has done with the
\* finger it saw: so far the sensor's buffers are its own.
LoginFits(r, waits, image, buf1, buf2, l) ==
    LET done(c) == waits /\ CommandOf(r) = c /\ l[1].ok IN
    /\ r.step >= 2 \/ done("finger") => image = r.seen
    /\ r.step >= 3 \/ done("char1") => buf1 = B!Template(r.seen)
    /\ r.step >= 4 \/ done("load") => buf2 = r.template
    /\ done("match") => Own(r)
FlowFacts(r, waits, image, buf1, buf2, l) ==
    /\ waits => LineFits(r, l)
    /\ r.at = "sensor" /\ r.kind = "login" => LoginFits(r, waits, image, buf1, buf2, l)
    /\ r.matched => Own(r)

\* As long as no acknowledgement was late, the line is empty when nobody waits.
Punctual ==
    /\ b_waiter = None => b_line = <<>>
    /\ \A f \in Ids : FlowFacts(b_flow[f], b_waiter = f, b_image, b_buf1, b_buf2, b_line)

BridgeInv == BridgeTypes /\ FlowsFit /\ SavesFit /\ (~b_late => Punctual)

-----------------------------------------------------------------------------
(* The terminal: records, templates, commands *)

\* What the proofs about the terminal need of the constants.
LEMMA BridgeConstants ==
    Packets \in Nat /\ MaxAttempts \in Nat \ {0} /\ "reset" \notin Ids /\ None \notin Ids
BY ServicesConstants

\* The fields of a flow's state.
LEMMA FlowFields ==
    ASSUME NEW r \in FlowState
    PROVE  /\ r.at \in Places /\ r.kind \in {"signup", "login"} /\ r.step \in 0 .. 7
           /\ r.attempt \in 1 .. MaxAttempts /\ r.seen \in Scopes \cup {None}
           /\ r.template \in Seq(Part) /\ r.reading \in BOOLEAN /\ r.matched \in BOOLEAN
BY DEF FlowState, B!Kinds

\* An idle flow's state: what registers of an earlier flow are gone.
LEMMA IdleState ==
    /\ B!Idle \in FlowState /\ B!Idle.at = "idle" /\ B!Idle.kind = "login"
    /\ B!Idle.step = 0 /\ B!Idle.step <= 4 /\ ~B!Idle.reading /\ ~B!Idle.matched
<1>1. PICK r : r = B!Idle
  OBVIOUS
<1>2. /\ r.at = "idle" /\ r.kind = "login" /\ r.step = 0 /\ r.attempt = 1 /\ r.seen = None
      /\ r.template = <<>> /\ r.reading = FALSE /\ r.matched = FALSE
  BY <1>1 DEF B!Idle
<1>3. <<>> \in Seq(Part)
  BY EmptySeq
<1>4. 1 \in 1 .. MaxAttempts /\ 0 \in 0 .. 7
  BY BridgeConstants
<1>5. r \in FlowState
  BY <1>1, <1>3, <1>4 DEF B!Idle, FlowState, Places, B!Kinds
<1> QED BY <1>1, <1>2, <1>5

\* A flow that moves keeps all else.
LEMMA Moved ==
    ASSUME NEW q \in FlowState, NEW a \in Places, NEW r, r = [q EXCEPT !.at = a]
    PROVE  /\ r \in FlowState /\ r.at = a /\ r.kind = q.kind /\ r.step = q.step
           /\ r.attempt = q.attempt /\ r.seen = q.seen /\ r.template = q.template
           /\ r.reading = q.reading /\ r.matched = q.matched
<1>1. /\ r.at = a /\ r.kind = q.kind /\ r.step = q.step
      /\ r.attempt = q.attempt /\ r.seen = q.seen /\ r.template = q.template
      /\ r.reading = q.reading /\ r.matched = q.matched
  BY DEF FlowState
<1>2. r \in FlowState
  BY DEF FlowState
<1> QED BY <1>1, <1>2

\* Data packets and acknowledgements do not look alike.
LEMMA PacketKinds ==
    /\ \A p \in Part : "ack" \notin DOMAIN p /\ p.part \in Nat
                       /\ p.finger \in Scopes \cup {None}
    /\ \A p \in AckPacket : "ack" \in DOMAIN p /\ p.cmd \in Commands /\ p.ok \in BOOLEAN
<1>1. ASSUME NEW p \in Part
      PROVE  "ack" \notin DOMAIN p /\ p.part \in Nat /\ p.finger \in Scopes \cup {None}
  BY DEF Part
<1>2. ASSUME NEW p \in AckPacket
      PROVE  "ack" \in DOMAIN p /\ p.cmd \in Commands /\ p.ok \in BOOLEAN
  BY DEF AckPacket
<1> QED BY <1>1, <1>2

\* An acknowledgement says what it acknowledges.
LEMMA AckFields ==
    ASSUME NEW c \in Commands, NEW ok \in BOOLEAN
    PROVE  B!Ack(c, ok) \in AckPacket /\ B!Ack(c, ok).ok = ok /\ B!Ack(c, ok).cmd = c
BY DEF B!Ack, AckPacket

\* A template is its packets, all of one finger.
LEMMA TemplateParts ==
    ASSUME NEW x \in Scopes \cup {None}
    PROVE  /\ B!Template(x) \in Seq(Part) /\ Len(B!Template(x)) = Packets
           /\ DOMAIN B!Template(x) = 1 .. Packets
           /\ \A i \in 1 .. Packets : B!Template(x)[i].finger = x
<1>1. Packets \in Nat
  BY BridgeConstants
<1>2. PICK t : t = B!Template(x)
  OBVIOUS
<1>3. t = [n \in 1 .. Packets |-> [finger |-> x, part |-> n]]
  BY <1>2 DEF B!Template
<1>4. \A n \in 1 .. Packets : t[n] \in Part /\ t[n].finger = x
  BY <1>1, <1>3 DEF Part
<1>5. t \in [1 .. Packets -> Part] /\ DOMAIN t = 1 .. Packets
  BY <1>3, <1>4
<1>6. t \in Seq(Part)
  BY <1>1, <1>5, SeqDef
<1>7. Len(t) = Packets
  BY <1>1, <1>5, <1>6, LenProperties
<1> QED BY <1>2, <1>4, <1>5, <1>6, <1>7

\* Which commands a flow runs at which step.
LEMMA CommandKinds ==
    ASSUME NEW r \in FlowState, r.kind = "login" => r.step <= 4
    PROVE  /\ CommandOf(r) \in Commands
           /\ r.kind = "login" =>
                 \/ r.step = 0 /\ CommandOf(r) = "removal"
                 \/ r.step = 1 /\ CommandOf(r) = "finger"
                 \/ r.step = 2 /\ CommandOf(r) = "char1"
                 \/ r.step = 3 /\ CommandOf(r) = "load"
                 \/ r.step = 4 /\ CommandOf(r) = "match"
           /\ r.kind = "signup" =>
                 \/ r.step \in 0 .. 6 /\ CommandOf(r) \in
                       {"removal", "finger", "char1", "char2", "combine"}
                 \/ r.step = 7 /\ CommandOf(r) = "upload"
<1>1. r.kind \in {"signup", "login"} /\ r.step \in 0 .. 7
  BY FlowFields
<1>2. PICK s, c : s = r.step /\ c = CommandOf(r)
  OBVIOUS
<1>3. CASE r.kind = "login"
  <2>1. s \in {0, 1, 2, 3, 4}
    BY <1>1, <1>2, <1>3
  <2>2. c = IF s = 0 THEN "removal" ELSE <<"finger", "char1", "load", "match">>[s]
    BY <1>2, <1>3 DEF CommandOf, B!Script
  <2>3. /\ s = 0 => c = "removal"
        /\ s = 1 => c = "finger"
        /\ s = 2 => c = "char1"
        /\ s = 3 => c = "load"
        /\ s = 4 => c = "match"
    BY <2>2
  <2> QED BY <1>2, <1>3, <2>1, <2>3 DEF Commands
<1>4. CASE r.kind = "signup"
  <2>1. s \in {0, 1, 2, 3, 4, 5, 6, 7}
    BY <1>1, <1>2, <1>4
  <2>2. c = IF s = 0 THEN "removal"
            ELSE <<"finger", "char1", "removal", "finger", "char2", "combine", "upload">>[s]
    BY <1>2, <1>4 DEF CommandOf, B!Script
  <2>3. /\ s = 0 => c = "removal"
        /\ s = 1 => c = "finger"
        /\ s = 2 => c = "char1"
        /\ s = 3 => c = "removal"
        /\ s = 4 => c = "finger"
        /\ s = 5 => c = "char2"
        /\ s = 6 => c = "combine"
        /\ s = 7 => c = "upload"
    BY <2>2
  <2> QED BY <1>2, <1>4, <2>1, <2>3 DEF Commands
<1> QED BY <1>1, <1>3, <1>4

\* The command of a flow is that of its state.
LEMMA CommandSame == \A f : B!Command(f) = CommandOf(b_flow[f])
BY DEF B!Command, CommandOf

-----------------------------------------------------------------------------
(* The terminal: one flow changes *)

\* One flow's state changes, the others' do not.
LEMMA Changed ==
    ASSUME b_flow \in [Ids -> FlowState], NEW f \in Ids, NEW r \in FlowState,
           b_flow' = [b_flow EXCEPT ![f] = r]
    PROVE  /\ b_flow' \in [Ids -> FlowState] /\ b_flow'[f] = r
           /\ \A g \in Ids : g # f => b_flow'[g] = b_flow[g]
OBVIOUS

\* Whoever is at the sensor, or has just left it, is there alone.
LEMMA Sole ==
    ASSUME BridgeInv, NEW f \in Ids,
           b_lock \in {f, None} \/ b_flow[f].at \in {"sensor", "derived"} \/ b_waiter = f
    PROVE  /\ b_waiter \in {f, None}
           /\ \A g \in Ids : g # f => /\ b_flow[g].at \notin {"sensor", "derived"}
                                      /\ b_waiter # g
<1>1. None \notin Ids /\ b_waiter \in Ids \cup {None}
  BY BridgeConstants DEF BridgeInv, BridgeTypes
<1>2. \A g \in Ids : /\ b_flow[g].at \in {"sensor", "derived"} => b_lock = g
                     /\ b_waiter = g => b_flow[g].at = "sensor"
  BY DEF BridgeInv, FlowsFit, FlowFits
<1>3. b_lock \in {f, None}
  BY <1>2
<1>4. \A g \in Ids : g # f => /\ b_flow[g].at \notin {"sensor", "derived"}
                              /\ b_waiter # g
  BY <1>1, <1>2, <1>3
<1> QED BY <1>1, <1>4

\* A flow that goes from wherever it was to where it needs no sensor: the others find
\* everything as it was, if it was not for them.
LEMMA Leaves ==
    ASSUME BridgeInv, NEW f \in Ids, NEW r \in FlowState,
           b_flow' = [b_flow EXCEPT ![f] = r],
           r.at \notin {"sensor", "derived"}, r.kind = "login" => r.step <= 4,
           r.matched => r.at \in {"sync", "filing", "record"},
           r.reading => r.at \in {"saving", "sync", "filing", "record"},
           b_lock' = b_lock \/ (b_lock = f /\ b_lock' = None),
           b_waiter' # f, b_waiter' = b_waiter \/ (b_waiter = f /\ b_waiter' = None),
           UNCHANGED <<b_image, b_buf1, b_buf2>>,
           ~b_late' => /\ ~b_late /\ (r.matched => Own(r))
                       /\ \/ b_line' = b_line /\ b_waiter' = b_waiter
                          \/ b_line' = <<>> /\ b_waiter' = None
    PROVE  FlowsFit' /\ (~b_late' => Punctual')
<1>1. /\ b_flow' \in [Ids -> FlowState] /\ b_flow'[f] = r
      /\ \A g \in Ids : g # f => b_flow'[g] = b_flow[g]
  BY Changed DEF BridgeInv, BridgeTypes
<1>2. ASSUME NEW g \in Ids, g # f
      PROVE  FlowFits(b_flow'[g], b_lock' = g, b_waiter' = g)
  <2>1. FlowFits(b_flow[g], b_lock = g, b_waiter = g)
    BY DEF BridgeInv, FlowsFit
  <2>2. b_flow'[g] = b_flow[g]
    BY <1>1, <1>2
  <2>3. /\ b_lock = g => b_lock' = g
        /\ b_waiter = g => b_waiter' = g
        /\ b_waiter' = g => b_waiter = g
    BY <1>2, BridgeConstants
  <2> QED BY <2>1, <2>2, <2>3 DEF FlowFits
<1>3. FlowFits(r, b_lock' = f, b_waiter' = f)
  BY DEF FlowFits
<1>4. FlowsFit'
  BY <1>1, <1>2, <1>3 DEF FlowsFit
<1>5. ASSUME ~b_late'
      PROVE  Punctual'
  <2>1. Punctual
    BY <1>5 DEF BridgeInv
  <2>2. ASSUME NEW g \in Ids, g # f
        PROVE  FlowFacts(b_flow'[g], b_waiter' = g, b_image', b_buf1', b_buf2', b_line')
    <3>1. FlowFacts(b_flow[g], b_waiter = g, b_image, b_buf1, b_buf2, b_line)
      BY <2>1 DEF Punctual
    <3>2. b_flow'[g] = b_flow[g]
      BY <1>1, <2>2
    <3>3. CASE b_line' = b_line /\ b_waiter' = b_waiter
      BY <3>1, <3>2, <3>3
    <3>4. CASE b_line' = <<>> /\ b_waiter' = None
      <4>1. b_waiter' # g
        BY <3>4, BridgeConstants
      <4>2. FlowFacts(b_flow[g], FALSE, b_image, b_buf1, b_buf2, b_line')
        BY <3>1 DEF FlowFacts, LoginFits
      <4> QED BY <3>2, <4>1, <4>2
    <3> QED BY <1>5, <3>3, <3>4
  <2>3. FlowFacts(r, b_waiter' = f, b_image', b_buf1', b_buf2', b_line')
    BY <1>5 DEF FlowFacts
  <2>4. b_waiter' = None => b_line' = <<>>
    BY <1>5, <2>1 DEF Punctual
  <2>5. \A g \in Ids :
           FlowFacts(b_flow'[g], b_waiter' = g, b_image', b_buf1', b_buf2', b_line')
    BY <1>1, <2>2, <2>3
  <2> QED BY <2>4, <2>5 DEF Punctual
<1> QED BY <1>4, <1>5

\* A flow that comes to the sensor or is there: nobody else is.
LEMMA Stays ==
    ASSUME BridgeInv, NEW f \in Ids, NEW r \in FlowState,
           b_flow' = [b_flow EXCEPT ![f] = r],
           b_lock \in {f, None}, b_lock' = f, b_waiter' \in {f, None},
           FlowFits(r, TRUE, b_waiter' = f),
           ~b_late' => /\ ~b_late /\ (b_waiter' = None => b_line' = <<>>)
                       /\ FlowFacts(r, b_waiter' = f, b_image', b_buf1', b_buf2', b_line')
    PROVE  FlowsFit' /\ (~b_late' => Punctual')
<1>1. /\ b_flow' \in [Ids -> FlowState] /\ b_flow'[f] = r
      /\ \A g \in Ids : g # f => b_flow'[g] = b_flow[g]
  BY Changed DEF BridgeInv, BridgeTypes
<1>2. /\ b_waiter \in {f, None}
      /\ \A g \in Ids : g # f => b_flow[g].at \notin {"sensor", "derived"} /\ b_waiter # g
  BY Sole
<1>3. \A g \in Ids : g # f => b_waiter' # g
  BY BridgeConstants
<1>4. ASSUME NEW g \in Ids, g # f
      PROVE  FlowFits(b_flow'[g], b_lock' = g, b_waiter' = g)
  <2>1. FlowFits(b_flow[g], b_lock = g, b_waiter = g)
    BY DEF BridgeInv, FlowsFit
  <2>2. b_flow'[g] = b_flow[g] /\ b_waiter # g /\ b_waiter' # g
        /\ b_flow[g].at \notin {"sensor", "derived"}
    BY <1>1, <1>2, <1>3, <1>4
  <2> QED BY <2>1, <2>2 DEF FlowFits
<1>5. FlowFits(r, b_lock' = f, b_waiter' = f)
  BY DEF FlowFits
<1>6. FlowsFit'
  BY <1>1, <1>4, <1>5 DEF FlowsFit
<1>7. ASSUME ~b_late'
      PROVE  Punctual'
  <2>1. Punctual
    BY <1>7 DEF BridgeInv
  <2>2. ASSUME NEW g \in Ids, g # f
        PROVE  FlowFacts(b_flow'[g], b_waiter' = g, b_image', b_buf1', b_buf2', b_line')
    <3>1. FlowFacts(b_flow[g], b_waiter = g, b_image, b_buf1, b_buf2, b_line)
      BY <2>1 DEF Punctual
    <3>2. b_flow'[g] = b_flow[g] /\ b_waiter' # g /\ b_flow[g].at # "sensor"
      BY <1>1, <1>2, <1>3, <2>2
    <3> QED BY <3>1, <3>2 DEF FlowFacts
  <2>3. \A g \in Ids :
           FlowFacts(b_flow'[g], b_waiter' = g, b_image', b_buf1', b_buf2', b_line')
    BY <1>1, <1>7, <2>2
  <2> QED BY <1>7, <2>3 DEF Punctual
<1> QED BY <1>6, <1>7

\* No write of a flow is under way that is not saving.
LEMMA SavesKept ==
    ASSUME BridgeInv, NEW f \in Ids, NEW r \in FlowState,
           b_flow' = [b_flow EXCEPT ![f] = r], b_saves' = b_saves,
           b_flow[f].at \notin {"saving", "filing"}
    PROVE  SavesFit'
<1>1. /\ b_flow'[f] = r
      /\ \A g \in Ids : g # f => b_flow'[g] = b_flow[g]
  BY Changed DEF BridgeInv, BridgeTypes
<1>2. SavesFit
  BY DEF BridgeInv
<1>3. \A s \in b_saves : s.by \in Ids => b_flow'[s.by].at \in {"saving", "filing"}
  BY <1>1, <1>2 DEF SavesFit
<1> QED BY <1>2, <1>3 DEF SavesFit

\* A flow that was not saving begins a write.
LEMMA SavesMore ==
    ASSUME BridgeInv, NEW f \in Ids, NEW r \in FlowState, NEW a \in Account \cup {None},
           b_flow' = [b_flow EXCEPT ![f] = r], r.at \in {"saving", "filing"},
           b_saves' = b_saves \cup {[by |-> f, account |-> a]},
           b_flow[f].at \notin {"saving", "filing"}
    PROVE  SavesFit' /\ b_saves' \subseteq Save
<1>1. /\ b_flow'[f] = r
      /\ \A g \in Ids : g # f => b_flow'[g] = b_flow[g]
  BY Changed DEF BridgeInv, BridgeTypes
<1>2. SavesFit /\ b_saves \subseteq Save
  BY DEF BridgeInv, BridgeTypes
<1>3. PICK s : s = [by |-> f, account |-> a]
  OBVIOUS
<1>4. s \in Save /\ s.by = f
  BY <1>3 DEF Save
<1>5. b_saves' = b_saves \cup {s}
  BY <1>3
<1>6. \A u \in b_saves : u.by \in Ids => u.by # f
  BY <1>2 DEF SavesFit
<1>7. \A u \in b_saves' : u.by \in Ids => b_flow'[u.by].at \in {"saving", "filing"}
  BY <1>1, <1>2, <1>4, <1>5, <1>6 DEF SavesFit
<1>8. \A s1, s2 \in b_saves' : s1.by \in Ids /\ s1.by = s2.by => s1 = s2
  BY <1>2, <1>4, <1>5, <1>6 DEF SavesFit
<1> QED BY <1>2, <1>4, <1>5, <1>7, <1>8 DEF SavesFit

-----------------------------------------------------------------------------
(* The terminal: codes, tokens, the lock *)

\* A step of a flow that is not at the sensor, and does not come to it, and leaves the
\* files, the lock and the line alone.
LEMMA Elsewhere ==
    ASSUME BridgeInv, NEW f \in Ids, NEW r \in FlowState,
           b_flow' = [b_flow EXCEPT ![f] = r],
           b_flow[f].at \notin {"sensor", "derived", "saving", "filing"},
           r.at \notin {"sensor", "derived", "saving", "filing"},
           r.kind = "login" => r.step <= 4,
           r.matched => r.at \in {"sync", "filing", "record"} /\ b_flow[f].matched
                        /\ r.template = b_flow[f].template /\ r.seen = b_flow[f].seen,
           r.reading => r.at \in {"sync", "filing", "record"},
           b_pending' \in [B!Kinds -> [by : Ids \cup {None}, left : 0 .. MaxAttempts]],
           UNCHANGED <<b_lock, b_image, b_buf1, b_buf2, b_line, b_waiter, b_account, b_file,
                       b_saves, b_late>>
    PROVE  BridgeInv'
<1>1. b_flow' \in [Ids -> FlowState]
  BY Changed DEF BridgeInv, BridgeTypes
<1>2. BridgeTypes'
  BY <1>1 DEF BridgeInv, BridgeTypes
<1>3. b_waiter # f
  BY DEF BridgeInv, FlowsFit, FlowFits
<1>4. ASSUME ~b_late
      PROVE  r.matched => Own(r)
  <2>1. b_flow[f].matched => Own(b_flow[f])
    BY <1>4 DEF BridgeInv, Punctual, FlowFacts
  <2> QED BY <2>1 DEF Own
<1>5. FlowsFit' /\ (~b_late' => Punctual')
  BY <1>3, <1>4, Leaves
<1>6. SavesFit'
  BY SavesKept
<1> QED BY <1>2, <1>5, <1>6 DEF BridgeInv

\* A code is asked for by an idle flow (otp.ts, request).
LEMMA RequestOtpStep ==
    ASSUME BridgeInv, NEW f \in Ids, NEW k \in B!Kinds, B!RequestOtp(f, k)
    PROVE  BridgeInv'
<1>1. PICK r : r = [B!Idle EXCEPT !.at = "code", !.kind = k]
  OBVIOUS
<1>2. /\ b_flow' = [b_flow EXCEPT ![f] = r] /\ b_flow[f].at = "idle"
      /\ b_pending' = [b_pending EXCEPT ![k] = [by |-> f, left |-> MaxAttempts]]
      /\ UNCHANGED <<b_lock, b_image, b_buf1, b_buf2, b_line, b_waiter, b_account, b_file,
                     b_saves, b_late>>
  BY <1>1 DEF B!RequestOtp, B!request, B!sensorVars, B!hostVars
<1>3. r \in FlowState
  BY <1>1, IdleState DEF FlowState, Places
<1>4. r.at = "code" /\ r.step <= 4 /\ ~r.reading /\ ~r.matched
  BY <1>1, IdleState DEF FlowState
<1>5. [by |-> f, left |-> MaxAttempts] \in [by : Ids \cup {None}, left : 0 .. MaxAttempts]
  BY BridgeConstants
<1>6. b_pending' \in [B!Kinds -> [by : Ids \cup {None}, left : 0 .. MaxAttempts]]
  BY <1>2, <1>5 DEF BridgeInv, BridgeTypes
<1> QED BY <1>2, <1>3, <1>4, <1>6, Elsewhere

\* A code is tried, rightly or wrongly (otp.ts, verify).
LEMMA VerifyOtpStep ==
    ASSUME BridgeInv, NEW f \in Ids, B!VerifyOtp(f)
    PROVE  BridgeInv'
<1>1. PICK right \in BOOLEAN :
         /\ B!verify(f, b_flow[f].kind, right)
         /\ b_flow' = IF right THEN [b_flow EXCEPT ![f] = [@ EXCEPT !.at = "token"]]
                               ELSE b_flow
  BY DEF B!VerifyOtp
<1>2. /\ b_flow[f].at = "code"
      /\ UNCHANGED <<b_lock, b_image, b_buf1, b_buf2, b_line, b_waiter, b_account, b_file,
                     b_saves, b_late>>
  BY DEF B!VerifyOtp, B!sensorVars, B!hostVars, B!envVars
<1>3. PICK q : q = b_flow[f]
  OBVIOUS
<1>4. q \in FlowState
  BY <1>3 DEF BridgeInv, BridgeTypes
<1>5. q.kind \in B!Kinds
  BY <1>4, FlowFields DEF B!Kinds
<1>6. b_pending' \in [B!Kinds -> [by : Ids \cup {None}, left : 0 .. MaxAttempts]]
  <2>1. PICK c : c = b_pending[q.kind]
    OBVIOUS
  <2>2. c.by \in Ids \cup {None} /\ c.left \in 0 .. MaxAttempts
        /\ c \in [by : Ids \cup {None}, left : 0 .. MaxAttempts]
    BY <1>5, <2>1 DEF BridgeInv, BridgeTypes
  <2>3. PICK d : d = IF right \/ c.left = 1 THEN B!NoCode ELSE [c EXCEPT !.left = c.left - 1]
    OBVIOUS
  <2>4. c.left > 0 /\ b_pending' = [b_pending EXCEPT ![q.kind] = d]
    BY <1>1, <1>3, <2>1, <2>3 DEF B!verify
  <2>5. B!NoCode \in [by : Ids \cup {None}, left : 0 .. MaxAttempts]
    BY BridgeConstants DEF B!NoCode
  <2>6. c.left - 1 \in 0 .. MaxAttempts
    BY <2>2, <2>4, BridgeConstants
  <2>7. d \in [by : Ids \cup {None}, left : 0 .. MaxAttempts]
    BY <2>2, <2>3, <2>5, <2>6
  <2> QED BY <2>4, <2>7 DEF BridgeInv, BridgeTypes
<1>7. PICK r : r = IF right THEN [q EXCEPT !.at = "token"] ELSE q
  OBVIOUS
<1>8. b_flow' = [b_flow EXCEPT ![f] = r]
  BY <1>1, <1>3, <1>7 DEF BridgeInv, BridgeTypes
<1>9. /\ r \in FlowState /\ r.at \in {"code", "token"} /\ r.kind = q.kind /\ r.step = q.step
      /\ r.reading = q.reading /\ r.matched = q.matched
  BY <1>2, <1>3, <1>4, <1>7, Moved DEF Places
<1>10. FlowFits(q, b_lock = f, b_waiter = f) /\ q.at = "code"
  BY <1>2, <1>3 DEF BridgeInv, FlowsFit
<1>11. b_waiter # f /\ ~q.matched /\ ~q.reading /\ (q.kind = "login" => q.step <= 4)
  BY <1>10 DEF FlowFits
<1> QED BY <1>2, <1>3, <1>6, <1>8, <1>9, <1>10, <1>11, Elsewhere

\* A code or a token lapses.
LEMMA LapseStep ==
    ASSUME BridgeInv, NEW f \in Ids, B!Lapse(f)
    PROVE  BridgeInv'
<1>1. /\ b_flow' = [b_flow EXCEPT ![f] = B!Idle] /\ b_flow[f].at \in {"code", "token"}
      /\ UNCHANGED <<b_lock, b_image, b_buf1, b_buf2, b_line, b_waiter, b_account, b_file,
                     b_saves, b_late>>
  BY DEF B!Lapse, B!sensorVars, B!hostVars, B!envVars
<1>2. B!NoCode \in [by : Ids \cup {None}, left : 0 .. MaxAttempts]
  BY BridgeConstants DEF B!NoCode
<1>3. b_pending' = [k \in B!Kinds |-> IF b_pending[k].by = f THEN B!NoCode ELSE b_pending[k]]
  BY DEF B!Lapse
<1>4. b_pending' \in [B!Kinds -> [by : Ids \cup {None}, left : 0 .. MaxAttempts]]
  BY <1>2, <1>3 DEF BridgeInv, BridgeTypes
<1>5. b_flow[f].at \notin {"sensor", "derived", "saving", "filing"}
  BY <1>1
<1> QED BY <1>1, <1>4, <1>5, IdleState, Elsewhere

\* The token is taken; the sensor is not yet.
LEMMA TakeTokenStep ==
    ASSUME BridgeInv, NEW f \in Ids, B!TakeToken(f)
    PROVE  BridgeInv'
<1>1. PICK q, r : q = b_flow[f] /\ r = [q EXCEPT !.at = "queued"]
  OBVIOUS
<1>2. /\ b_flow' = [b_flow EXCEPT ![f] = r] /\ q.at = "token"
      /\ UNCHANGED <<b_pending, b_lock, b_image, b_buf1, b_buf2, b_line, b_waiter, b_account,
                     b_file, b_saves, b_late>>
  BY <1>1 DEF B!TakeToken, B!consumeSession, B!sensorVars, B!hostVars, B!envVars
<1>3. q \in FlowState /\ FlowFits(q, b_lock = f, b_waiter = f)
      /\ b_pending \in [B!Kinds -> [by : Ids \cup {None}, left : 0 .. MaxAttempts]]
  BY <1>1 DEF BridgeInv, BridgeTypes, FlowsFit
<1>4. /\ r \in FlowState /\ r.at = "queued" /\ r.kind = q.kind /\ r.step = q.step
      /\ r.reading = q.reading /\ r.matched = q.matched
  BY <1>1, <1>3, Moved DEF Places
<1>5. ~q.matched /\ ~q.reading /\ (q.kind = "login" => q.step <= 4)
  BY <1>2, <1>3 DEF FlowFits
<1> QED BY <1>1, <1>2, <1>3, <1>4, <1>5, Elsewhere

\* The lock was free: nobody is at the sensor, and nothing is on the line.
LEMMA LockStep ==
    ASSUME BridgeInv, NEW f \in Ids, B!withSensorLock(f)
    PROVE  BridgeInv'
<1>1. PICK q, t : /\ q = b_flow[f]
                  /\ t = IF b_account = None \/ q.kind = "signup" THEN <<>>
                         ELSE b_account.template
  OBVIOUS
<1>2. PICK r : r = [q EXCEPT !.at = "sensor", !.step = 1, !.template = t]
  OBVIOUS
<1>3. /\ b_flow' = [b_flow EXCEPT ![f] = r] /\ q.at = "queued"
      /\ b_lock = None /\ b_lock' = f
      /\ UNCHANGED <<b_pending, b_image, b_buf1, b_buf2, b_line, b_waiter, b_account,
                     b_file, b_saves, b_late>>
  BY <1>1, <1>2 DEF B!withSensorLock, B!Unlocked, B!sensorVars, B!hostVars, B!envVars
<1>4. /\ q \in FlowState /\ FlowFits(q, b_lock = f, b_waiter = f)
      /\ b_account \in Account \cup {None}
  BY <1>1 DEF BridgeInv, BridgeTypes, FlowsFit
<1>5. t \in Seq(Part)
  BY <1>1, <1>4, EmptySeq DEF Account
<1>6. r \in FlowState /\ r.at = "sensor" /\ r.step = 1 /\ r.kind = q.kind
      /\ r.reading = q.reading /\ r.matched = q.matched
  <2>1. r.at = "sensor" /\ r.step = 1 /\ r.kind = q.kind /\ r.reading = q.reading
        /\ r.matched = q.matched
    BY <1>2, <1>4 DEF FlowState
  <2>2. 1 \in 0 .. 7 /\ "sensor" \in Places
    BY DEF Places
  <2>3. r \in FlowState
    BY <1>2, <1>4, <1>5, <2>2 DEF FlowState
  <2> QED BY <2>1, <2>3
<1>7. b_waiter # f /\ ~q.matched /\ ~q.reading
  BY <1>3, <1>4 DEF FlowFits
<1>8. FlowFits(r, TRUE, b_waiter' = f)
  BY <1>3, <1>6, <1>7 DEF FlowFits
<1>9. b_waiter = None
  BY <1>3, <1>7, Sole
<1>10. ASSUME ~b_late'
       PROVE  /\ ~b_late /\ (b_waiter' = None => b_line' = <<>>)
              /\ FlowFacts(r, b_waiter' = f, b_image', b_buf1', b_buf2', b_line')
  <2>1. Punctual
    BY <1>3, <1>10 DEF BridgeInv
  <2>2. FlowFacts(r, b_waiter' = f, b_image', b_buf1', b_buf2', b_line')
    BY <1>3, <1>6, <1>7 DEF FlowFacts, LoginFits
  <2> QED BY <1>3, <1>10, <2>1, <2>2 DEF Punctual
<1>11. FlowsFit' /\ (~b_late' => Punctual')
  BY <1>3, <1>6, <1>8, <1>9, <1>10, Stays
<1>12. SavesFit'
  BY <1>1, <1>3, <1>6, SavesKept
<1>13. b_flow' \in [Ids -> FlowState]
  BY <1>3, <1>6, Changed DEF BridgeInv, BridgeTypes
<1>14. BridgeTypes'
  BY <1>3, <1>13 DEF BridgeInv, BridgeTypes
<1> QED BY <1>11, <1>12, <1>14 DEF BridgeInv

-----------------------------------------------------------------------------
(* The terminal: failures *)

\* Whoever fails gives the sensor back, or begins its capture again.
LEMMA Fails ==
    ASSUME BridgeInv, NEW f \in Ids, b_flow[f].at \in {"sensor", "derived"}, B!Fail(f),
           b_waiter' = None, UNCHANGED <<b_image, b_buf1, b_buf2, b_saves>>,
           ~b_late' => ~b_late /\ b_line' = <<>>
    PROVE  /\ b_flow' \in [Ids -> FlowState] /\ b_lock' \in Ids \cup {None}
           /\ FlowsFit' /\ (~b_late' => Punctual') /\ SavesFit'
<1>1. PICK q : q = b_flow[f]
  OBVIOUS
<1>2. q \in FlowState /\ FlowFits(q, b_lock = f, b_waiter = f)
  BY <1>1 DEF BridgeInv, BridgeTypes, FlowsFit
<1>3. b_lock = f /\ b_waiter \in {f, None} /\ b_waiter' # f
  BY <1>1, <1>2, Sole, BridgeConstants DEF FlowFits
<1>4. CASE q.at = "sensor" /\ q.step = 0
  <2>1. PICK r : r = [q EXCEPT !.step = 1]
    OBVIOUS
  <2>2. r \in FlowState /\ r.at = "sensor" /\ r.step = 1 /\ r.kind = q.kind
        /\ r.reading = q.reading /\ r.matched = q.matched
    BY <1>2, <1>4, <2>1 DEF FlowState
  <2>3. b_flow' = [b_flow EXCEPT ![f] = r] /\ b_lock' = f
    BY <1>1, <1>3, <1>4, <2>1 DEF B!Fail
  <2>4. CommandOf(q) # "upload"
    BY <1>4 DEF CommandOf
  <2>5. ~q.reading /\ ~q.matched /\ q.kind # "login"
    BY <1>2, <1>4, <2>4 DEF FlowFits
  <2>6. FlowFits(r, TRUE, b_waiter' = f)
    BY <1>3, <2>2, <2>5 DEF FlowFits
  <2>7. FlowFacts(r, b_waiter' = f, b_image', b_buf1', b_buf2', b_line')
    BY <1>3, <2>2, <2>5 DEF FlowFacts
  <2>8. FlowsFit' /\ (~b_late' => Punctual')
    BY <1>3, <2>2, <2>3, <2>6, <2>7, Stays
  <2>9. SavesFit'
    BY <1>1, <1>4, <2>2, <2>3, SavesKept
  <2>10. b_flow' \in [Ids -> FlowState]
    BY <2>2, <2>3, Changed DEF BridgeInv, BridgeTypes
  <2> QED BY <2>3, <2>8, <2>9, <2>10
<1>5. CASE ~(q.at = "sensor" /\ q.step = 0)
  <2>1. b_flow' = [b_flow EXCEPT ![f] = B!Idle] /\ b_lock' = None
    BY <1>1, <1>5 DEF B!Fail
  <2>2. b_waiter' = b_waiter \/ (b_waiter = f /\ b_waiter' = None)
    BY <1>3
  <2>3. FlowsFit' /\ (~b_late' => Punctual')
    BY <1>3, <2>1, <2>2, IdleState, Leaves
  <2>4. b_flow[f].at \notin {"saving", "filing"}
    OBVIOUS
  <2>5. SavesFit'
    BY <2>1, <2>4, IdleState, SavesKept
  <2>6. b_flow' \in [Ids -> FlowState]
    BY <2>1, IdleState, Changed DEF BridgeInv, BridgeTypes
  <2> QED BY <2>1, <2>3, <2>5, <2>6
<1> QED BY <1>4, <1>5

\* No account, no finger, or no proof: the flow fails in time.
LEMMA FailSteps ==
    ASSUME BridgeInv, NEW f \in Ids, B!NoAccount(f) \/ B!NoFinger(f) \/ B!ProofFails(f)
    PROVE  BridgeInv'
<1>1. /\ B!Fail(f) /\ b_flow[f].at \in {"sensor", "derived"}
      /\ b_flow[f].at = "sensor" => b_waiter = None
      /\ UNCHANGED <<b_pending, b_image, b_buf1, b_buf2, b_line, b_waiter, b_account, b_file,
                     b_saves, b_late>>
  BY DEF B!NoAccount, B!NoFinger, B!ProofFails, B!sensorVars, B!hostVars, B!envVars
<1>2. FlowFits(b_flow[f], b_lock = f, b_waiter = f)
  BY DEF BridgeInv, FlowsFit
<1>3. b_waiter = None
  BY <1>1, <1>2, Sole DEF FlowFits
<1>4. ASSUME ~b_late'
      PROVE  ~b_late /\ b_line' = <<>>
  BY <1>1, <1>3, <1>4 DEF BridgeInv, Punctual
<1>5. /\ b_flow' \in [Ids -> FlowState] /\ b_lock' \in Ids \cup {None}
      /\ FlowsFit' /\ (~b_late' => Punctual') /\ SavesFit'
  BY <1>1, <1>3, <1>4, Fails
<1>6. BridgeTypes'
  BY <1>1, <1>5 DEF BridgeInv, BridgeTypes
<1> QED BY <1>5, <1>6 DEF BridgeInv

\* The answer is late from here on.
LEMMA TimeoutStep ==
    ASSUME BridgeInv, NEW f \in Ids, B!Timeout(f)
    PROVE  BridgeInv'
<1>1. /\ B!Fail(f) /\ b_waiter' = None /\ b_waiter = f /\ b_late' = TRUE
      /\ UNCHANGED <<b_pending, b_image, b_buf1, b_buf2, b_line, b_account, b_file, b_saves>>
  BY DEF B!Timeout, B!Throw, B!hostVars
<1>2. b_flow[f].at = "sensor"
  BY <1>1 DEF BridgeInv, FlowsFit, FlowFits
<1>3. /\ b_flow' \in [Ids -> FlowState] /\ b_lock' \in Ids \cup {None}
      /\ FlowsFit' /\ (~b_late' => Punctual') /\ SavesFit'
  BY <1>1, <1>2, Fails
<1>4. BridgeTypes'
  BY <1>1, <1>3 DEF BridgeInv, BridgeTypes
<1> QED BY <1>3, <1>4 DEF BridgeInv

-----------------------------------------------------------------------------
(* The terminal: accounts *)

\* A step of a flow that writes the account.
LEMMA Writes ==
    ASSUME BridgeInv, NEW f \in Ids, NEW r \in FlowState, NEW a \in Account \cup {None},
           b_flow' = [b_flow EXCEPT ![f] = r],
           b_flow[f].at \in {"derived", "queued", "sync"}, r.at \in {"saving", "filing"},
           r.kind = "login" => r.step <= 4,
           r.matched => r.at = "filing" /\ b_flow[f].matched
                        /\ r.template = b_flow[f].template /\ r.seen = b_flow[f].seen,
           r.reading => b_flow[f].reading,
           b_account' = a, b_saves' = b_saves \cup {[by |-> f, account |-> a]},
           UNCHANGED <<b_pending, b_lock, b_image, b_buf1, b_buf2, b_line, b_waiter, b_file,
                       b_late>>
    PROVE  BridgeInv'
<1>1. b_flow' \in [Ids -> FlowState]
  BY Changed DEF BridgeInv, BridgeTypes
<1>2. SavesFit' /\ b_saves' \subseteq Save
  BY SavesMore
<1>3. BridgeTypes'
  BY <1>1, <1>2 DEF BridgeInv, BridgeTypes
<1>4. FlowFits(b_flow[f], b_lock = f, b_waiter = f)
  BY DEF BridgeInv, FlowsFit
<1>5. b_waiter # f
  BY <1>4 DEF FlowFits
<1>6. r.reading => r.at \in {"saving", "sync", "filing", "record"}
  OBVIOUS
<1>7. ASSUME ~b_late
      PROVE  r.matched => Own(r)
  <2>1. b_flow[f].matched => Own(b_flow[f])
    BY <1>7 DEF BridgeInv, Punctual, FlowFacts
  <2> QED BY <2>1 DEF Own
<1>8. r.at = "filing" => r.at \in {"sync", "filing", "record"}
  OBVIOUS
<1>9. FlowsFit' /\ (~b_late' => Punctual')
  BY <1>5, <1>6, <1>7, <1>8, Leaves
<1> QED BY <1>2, <1>3, <1>9 DEF BridgeInv

\* A signup puts its account into memory and begins to write it.
LEMMA EnrollSteps ==
    ASSUME BridgeInv, NEW f \in Ids, B!enroll(f) \/ B!simEnroll(f)
    PROVE  BridgeInv'
<1>1. PICK q : q = b_flow[f]
  OBVIOUS
<1>2. q \in FlowState /\ FlowFits(q, b_lock = f, b_waiter = f)
  BY <1>1 DEF BridgeInv, BridgeTypes, FlowsFit
<1>3. /\ q.at \in {"derived", "queued"}
      /\ \E t \in Seq(Part) : B!SetAccount(f, t)
      /\ UNCHANGED <<b_pending, b_lock, b_image, b_buf1, b_buf2, b_line, b_waiter, b_late>>
  <2>1. CASE B!enroll(f)
    <3>1. q.template \in Seq(Part)
      BY <1>2, FlowFields
    <3> QED BY <1>1, <2>1, <3>1 DEF B!enroll, B!sensorVars, B!envVars
  <2>2. CASE B!simEnroll(f)
    <3>1. PICK x \in Scopes : B!SetAccount(f, B!Template(x))
      BY <2>2 DEF B!simEnroll
    <3>2. B!Template(x) \in Seq(Part)
      BY TemplateParts
    <3> QED BY <1>1, <2>2, <3>1, <3>2 DEF B!simEnroll, B!sensorVars, B!envVars
  <2> QED BY <2>1, <2>2
<1>4. PICK t \in Seq(Part) : B!SetAccount(f, t)
  BY <1>3
<1>5. PICK a, r : a = [template |-> t, user |-> FALSE] /\ r = [q EXCEPT !.at = "saving"]
  OBVIOUS
<1>6. /\ b_account' = a /\ b_saves' = b_saves \cup {[by |-> f, account |-> a]}
      /\ b_file' = b_file /\ b_flow' = [b_flow EXCEPT ![f] = r]
  BY <1>1, <1>4, <1>5 DEF B!SetAccount, B!saveAccounts
<1>7. a \in Account
  BY <1>5 DEF Account
<1>8. /\ r \in FlowState /\ r.at = "saving" /\ r.kind = q.kind /\ r.step = q.step
      /\ r.reading = q.reading /\ r.matched = q.matched
  BY <1>2, <1>5, Moved DEF Places
<1>9. ~q.matched /\ (q.kind = "login" => q.step <= 4)
  BY <1>2, <1>3 DEF FlowFits
<1>10. b_flow[f].at \in {"derived", "queued", "sync"}
  BY <1>1, <1>3
<1> QED BY <1>1, <1>3, <1>6, <1>7, <1>8, <1>9, <1>10, Writes

\* A login in simulation mode asks no sensor.
LEMMA SimAuthenticateStep ==
    ASSUME BridgeInv, NEW f \in Ids, B!simAuthenticate(f)
    PROVE  BridgeInv'
<1>1. PICK q : q = b_flow[f]
  OBVIOUS
<1>2. /\ q \in FlowState /\ FlowFits(q, b_lock = f, b_waiter = f)
      /\ b_pending \in [B!Kinds -> [by : Ids \cup {None}, left : 0 .. MaxAttempts]]
  BY <1>1 DEF BridgeInv, BridgeTypes, FlowsFit
<1>3. PICK r : r = IF b_account = None THEN B!Idle ELSE [q EXCEPT !.at = "sync"]
  OBVIOUS
<1>4. /\ b_flow' = [b_flow EXCEPT ![f] = r] /\ q.at = "queued"
      /\ UNCHANGED <<b_pending, b_lock, b_image, b_buf1, b_buf2, b_line, b_waiter, b_account,
                     b_file, b_saves, b_late>>
  BY <1>1, <1>3 DEF B!simAuthenticate, B!sensorVars, B!hostVars, B!envVars
<1>5. ~q.matched /\ ~q.reading /\ (q.kind = "login" => q.step <= 4)
  BY <1>2, <1>4 DEF FlowFits
<1>6. /\ r \in FlowState /\ r.at \in {"idle", "sync"} /\ (r.kind = "login" => r.step <= 4)
      /\ ~r.reading /\ ~r.matched
  <2>1. CASE b_account = None
    BY <1>3, <2>1, IdleState
  <2>2. CASE b_account # None
    <3>1. "sync" \in Places /\ r = [q EXCEPT !.at = "sync"]
      BY <1>3, <2>2 DEF Places
    <3> QED BY <1>2, <1>5, <3>1, Moved
  <2> QED BY <2>1, <2>2
<1> QED BY <1>1, <1>2, <1>4, <1>6, Elsewhere

\* The user's id is added to the account, or there is none to add it to.
LEMMA RegisterUserStep ==
    ASSUME BridgeInv, NEW f \in Ids, B!registerUser(f)
    PROVE  BridgeInv'
<1>1. PICK q : q = b_flow[f]
  OBVIOUS
<1>2. /\ q \in FlowState /\ FlowFits(q, b_lock = f, b_waiter = f)
      /\ b_account \in Account \cup {None}
      /\ b_pending \in [B!Kinds -> [by : Ids \cup {None}, left : 0 .. MaxAttempts]]
  BY <1>1 DEF BridgeInv, BridgeTypes, FlowsFit
<1>3. /\ q.at = "sync"
      /\ UNCHANGED <<b_pending, b_lock, b_image, b_buf1, b_buf2, b_line, b_waiter, b_late>>
  BY <1>1 DEF B!registerUser, B!sensorVars, B!envVars
<1>4. q.kind = "login" => q.step <= 4
  BY <1>2 DEF FlowFits
<1>5. CASE (b_account # None /\ B!Attributed(f)) \/ B!Detached(f)
  <2>1. PICK a, r : /\ a \in {b_account} \cup {x \in Account : b_account # None}
                    /\ r = [q EXCEPT !.at = "filing"]
                    /\ b_account' = a /\ b_saves' = b_saves \cup {[by |-> f, account |-> a]}
                    /\ b_file' = b_file /\ b_flow' = [b_flow EXCEPT ![f] = r]
    <3>1. CASE B!Detached(f)
      BY <1>1, <3>1 DEF B!Detached, B!saveAccounts
    <3>2. CASE b_account # None /\ B!Attributed(f)
      <4>1. PICK a : a = [b_account EXCEPT !.user = TRUE]
        OBVIOUS
      <4>2. a \in Account
        BY <1>2, <3>2, <4>1 DEF Account
      <4>3. /\ b_account' = a /\ b_saves' = b_saves \cup {[by |-> f, account |-> a]}
            /\ b_file' = b_file /\ b_flow' = [b_flow EXCEPT ![f] = [q EXCEPT !.at = "filing"]]
        BY <1>1, <3>2, <4>1 DEF B!Attributed, B!saveAccounts
      <4> QED BY <3>2, <4>2, <4>3
    <3> QED BY <1>5, <3>1, <3>2
  <2>2. a \in Account \cup {None} /\ "filing" \in Places
    BY <1>2, <2>1 DEF Places
  <2>3. /\ r \in FlowState /\ r.at = "filing" /\ r.kind = q.kind /\ r.step = q.step
        /\ r.reading = q.reading /\ r.matched = q.matched /\ r.template = q.template
        /\ r.seen = q.seen
    BY <1>2, <2>1, <2>2, Moved
  <2>4. b_flow[f].at \in {"derived", "queued", "sync"}
    BY <1>1, <1>3
  <2> QED BY <1>1, <1>3, <1>4, <2>1, <2>2, <2>3, <2>4, Writes
<1>6. CASE b_flow' = [b_flow EXCEPT ![f] = [@ EXCEPT !.at = "record"]] /\ UNCHANGED B!hostVars
  <2>1. PICK r : r = [q EXCEPT !.at = "record"]
    OBVIOUS
  <2>2. /\ b_flow' = [b_flow EXCEPT ![f] = r]
        /\ UNCHANGED <<b_account, b_file, b_saves>>
    BY <1>1, <1>6, <2>1 DEF B!hostVars
  <2>3. "record" \in Places
    BY DEF Places
  <2>4. /\ r \in FlowState /\ r.at = "record" /\ r.kind = q.kind /\ r.step = q.step
        /\ r.reading = q.reading /\ r.matched = q.matched /\ r.template = q.template
        /\ r.seen = q.seen
    BY <1>2, <2>1, <2>3, Moved
  <2> QED BY <1>1, <1>2, <1>3, <1>4, <2>2, <2>4, Elsewhere
<1> QED BY <1>5, <1>6 DEF B!registerUser

\* A flow ends.
LEMMA FinishStep ==
    ASSUME BridgeInv, NEW f \in Ids, B!Finish(f)
    PROVE  BridgeInv'
<1>1. /\ b_flow' = [b_flow EXCEPT ![f] = B!Idle] /\ b_flow[f].at \in {"sync", "record"}
      /\ UNCHANGED <<b_pending, b_lock, b_image, b_buf1, b_buf2, b_line, b_waiter, b_account,
                     b_file, b_saves, b_late>>
  BY DEF B!Finish, B!sensorVars, B!hostVars, B!envVars
<1>2. b_pending' \in [B!Kinds -> [by : Ids \cup {None}, left : 0 .. MaxAttempts]]
  BY <1>1 DEF BridgeInv, BridgeTypes
<1>3. b_flow[f].at \notin {"sensor", "derived", "saving", "filing"}
  BY <1>1
<1> QED BY <1>1, <1>2, <1>3, IdleState, Elsewhere

\* A flow whose write ends goes on without it, or goes home.
LEMMA WriteEnds ==
    ASSUME BridgeInv, NEW s \in b_saves, s.by \in Ids, NEW r \in FlowState,
           b_flow' = [b_flow EXCEPT ![s.by] = r], b_saves' = b_saves \ {s},
           r.at \in {"idle", "sync", "record"}, r.kind = "login" => r.step <= 4,
           r.matched => r.at \in {"sync", "record"} /\ b_flow[s.by].matched
                        /\ r.template = b_flow[s.by].template /\ r.seen = b_flow[s.by].seen,
           r.reading => r.at \in {"sync", "record"},
           b_lock' = IF b_lock = s.by THEN None ELSE b_lock,
           b_account' = b_account, b_file' \in Account \cup {None},
           UNCHANGED <<b_pending, b_image, b_buf1, b_buf2, b_line, b_waiter, b_late>>
    PROVE  BridgeInv'
<1>1. PICK f \in Ids : f = s.by
  OBVIOUS
<1>2. /\ b_flow' \in [Ids -> FlowState] /\ b_flow'[f] = r
      /\ \A g \in Ids : g # f => b_flow'[g] = b_flow[g]
  BY <1>1, Changed DEF BridgeInv, BridgeTypes
<1>3. b_flow[f].at \in {"saving", "filing"} /\ FlowFits(b_flow[f], b_lock = f, b_waiter = f)
  BY <1>1 DEF BridgeInv, SavesFit, FlowsFit
<1>4. b_waiter # f
  BY <1>3 DEF FlowFits
<1>5. BridgeTypes'
  BY <1>2 DEF BridgeInv, BridgeTypes
<1>6. ASSUME ~b_late
      PROVE  r.matched => Own(r)
  <2>1. b_flow[f].matched => Own(b_flow[f])
    BY <1>6 DEF BridgeInv, Punctual, FlowFacts
  <2> QED BY <1>1, <2>1 DEF Own
<1>7. b_lock' = b_lock \/ (b_lock = f /\ b_lock' = None)
  BY <1>1
<1>8. /\ b_flow' = [b_flow EXCEPT ![f] = r] /\ r.at \notin {"sensor", "derived"}
      /\ r.matched => r.at \in {"sync", "filing", "record"}
      /\ r.reading => r.at \in {"saving", "sync", "filing", "record"}
  BY <1>1
<1>9. FlowsFit' /\ (~b_late' => Punctual')
  BY <1>4, <1>6, <1>7, <1>8, Leaves
<1>10. SavesFit'
  <2>1. SavesFit
    BY DEF BridgeInv
  <2>2. \A u \in b_saves' : u \in b_saves /\ (u.by \in Ids => u.by # f)
    BY <1>1, <2>1 DEF SavesFit
  <2>3. \A u \in b_saves' : u.by \in Ids => b_flow'[u.by].at \in {"saving", "filing"}
    BY <1>2, <2>1, <2>2 DEF SavesFit
  <2> QED BY <2>1, <2>2, <2>3 DEF SavesFit
<1> QED BY <1>5, <1>9, <1>10 DEF BridgeInv

\* A step that touches neither the flows nor the sensor.
LEMMA FilesOnly ==
    ASSUME BridgeInv, UNCHANGED <<b_pending, b_flow, b_lock, b_image, b_buf1, b_buf2, b_line,
                                  b_waiter, b_late>>,
           b_account' \in Account \cup {None}, b_file' \in Account \cup {None},
           b_saves' \subseteq Save,
           \A u \in b_saves' : u.by \in Ids => u \in b_saves
    PROVE  BridgeInv'
<1>1. BridgeTypes'
  BY DEF BridgeInv, BridgeTypes
<1>2. FlowsFit' /\ (~b_late' => Punctual')
  BY DEF BridgeInv, FlowsFit, Punctual
<1>3. SavesFit'
  BY DEF BridgeInv, SavesFit
<1> QED BY <1>1, <1>2, <1>3 DEF BridgeInv

\* A write ends well: its flow goes on and gives the sensor back.
LEMMA SaveLandsStep ==
    ASSUME BridgeInv, NEW s \in b_saves, B!SaveLands(s)
    PROVE  BridgeInv'
<1>1. /\ b_saves' = b_saves \ {s} /\ b_file' = s.account
      /\ UNCHANGED <<b_pending, b_image, b_buf1, b_buf2, b_line, b_waiter, b_account, b_late>>
  BY DEF B!SaveLands, B!sensorVars, B!envVars
<1>2. s \in Save /\ b_saves \subseteq Save /\ b_account \in Account \cup {None}
  BY DEF BridgeInv, BridgeTypes
<1>3. s.account \in Account \cup {None}
  BY <1>2 DEF Save
<1>4. CASE s.by \in Ids
  <2>1. PICK f \in Ids : f = s.by
    BY <1>4
  <2>2. PICK q : q = b_flow[f]
    OBVIOUS
  <2>3. PICK a, r : a = (IF q.at = "saving" THEN "sync" ELSE "record")
                    /\ r = [q EXCEPT !.at = a]
    OBVIOUS
  <2>4. /\ b_flow' = [b_flow EXCEPT ![f] = r]
        /\ b_lock' = IF b_lock = s.by THEN None ELSE b_lock
    BY <2>1, <2>2, <2>3 DEF B!SaveLands
  <2>5. q \in FlowState /\ FlowFits(q, b_lock = f, b_waiter = f)
    BY <2>2 DEF BridgeInv, BridgeTypes, FlowsFit
  <2>6. a \in Places /\ a \in {"sync", "record"}
    BY <2>3 DEF Places
  <2>7. /\ r \in FlowState /\ r.at = a /\ r.kind = q.kind /\ r.step = q.step
        /\ r.reading = q.reading /\ r.matched = q.matched /\ r.template = q.template
        /\ r.seen = q.seen
    BY <2>3, <2>5, <2>6, Moved
  <2>8. q.kind = "login" => q.step <= 4
    BY <2>5 DEF FlowFits
  <2>9. b_file' \in Account \cup {None}
    BY <1>1, <1>3
  <2>10. /\ r.matched => r.at \in {"sync", "record"} /\ b_flow[s.by].matched
                         /\ r.template = b_flow[s.by].template /\ r.seen = b_flow[s.by].seen
         /\ b_flow' = [b_flow EXCEPT ![s.by] = r] /\ r.at \in {"idle", "sync", "record"}
         /\ r.reading => r.at \in {"sync", "record"}
    BY <2>1, <2>2, <2>4, <2>6, <2>7
  <2> QED BY <1>1, <1>4, <2>4, <2>7, <2>8, <2>9, <2>10, WriteEnds
<1>5. CASE s.by \notin Ids
  <2>1. UNCHANGED <<b_flow, b_lock>>
    BY <1>5 DEF B!SaveLands
  <2> QED BY <1>1, <1>2, <1>3, <2>1, FilesOnly
<1> QED BY <1>4, <1>5

\* A write fails: its flow ends.
LEMMA SaveFailsStep ==
    ASSUME BridgeInv, NEW s \in b_saves, B!SaveFails(s)
    PROVE  BridgeInv'
<1>1. /\ b_saves' = b_saves \ {s}
      /\ b_flow' = [f \in Ids |-> IF f = s.by THEN B!Idle ELSE b_flow[f]]
      /\ b_lock' = IF b_lock = s.by THEN None ELSE b_lock
      /\ UNCHANGED <<b_pending, b_image, b_buf1, b_buf2, b_line, b_waiter, b_account, b_file,
                     b_late>>
  BY DEF B!SaveFails, B!sensorVars, B!envVars
<1>2. /\ s \in Save /\ b_saves \subseteq Save /\ b_account \in Account \cup {None}
      /\ b_file \in Account \cup {None} /\ b_flow \in [Ids -> FlowState]
      /\ b_lock \in Ids \cup {None}
  BY DEF BridgeInv, BridgeTypes
<1>3. CASE s.by \in Ids
  <2>1. b_flow' = [b_flow EXCEPT ![s.by] = B!Idle]
    BY <1>1, <1>2
  <2> QED BY <1>1, <1>2, <1>3, <2>1, IdleState, WriteEnds
<1>4. CASE s.by \notin Ids
  <2>1. b_flow' = b_flow
    BY <1>1, <1>2, <1>4
  <2>2. b_lock' = b_lock
    BY <1>1, <1>2, <1>4
  <2> QED BY <1>1, <1>2, <2>1, <2>2, FilesOnly
<1> QED BY <1>3, <1>4

\* The account is deleted; no flow notices.
LEMMA ResetStep ==
    ASSUME BridgeInv, B!reset
    PROVE  BridgeInv'
<1>1. PICK s : s = [by |-> "reset", account |-> None]
  OBVIOUS
<1>2. /\ b_account' = None /\ b_saves' = b_saves \cup {s} /\ b_file' = b_file
      /\ UNCHANGED <<b_pending, b_flow, b_lock, b_image, b_buf1, b_buf2, b_line, b_waiter,
                     b_late>>
  BY <1>1 DEF B!reset, B!saveAccounts, B!sensorVars
<1>3. s \in Save /\ s.by \notin Ids
  BY <1>1, BridgeConstants DEF Save
<1>4. b_saves \subseteq Save /\ b_file \in Account \cup {None}
  BY DEF BridgeInv, BridgeTypes
<1>5. b_saves' \subseteq Save /\ \A u \in b_saves' : u.by \in Ids => u \in b_saves
  BY <1>2, <1>3, <1>4
<1> QED BY <1>2, <1>4, <1>5, FilesOnly

\* Nothing of the flows is left.
LEMMA RestartStep ==
    ASSUME BridgeInv, B!Restart
    PROVE  BridgeInv'
<1>1. /\ b_file' \in {b_file} \cup {s.account : s \in b_saves}
                     \cup (IF b_saves = {} THEN {} ELSE {None})
      /\ b_account' = b_file' /\ b_saves' = {}
      /\ b_flow' = [f \in Ids |-> B!Idle] /\ b_lock' = None /\ b_waiter' = None
      /\ b_line' = <<>> /\ b_pending' = [k \in B!Kinds |-> B!NoCode]
      /\ UNCHANGED <<b_image, b_buf1, b_buf2, b_late>>
  BY DEF B!Restart
<1>2. /\ b_file \in Account \cup {None} /\ b_saves \subseteq Save
  BY DEF BridgeInv, BridgeTypes
<1>3. b_file' \in Account \cup {None}
  BY <1>1, <1>2 DEF Save
<1>4. B!NoCode \in [by : Ids \cup {None}, left : 0 .. MaxAttempts]
  BY BridgeConstants DEF B!NoCode
<1>5. b_pending' \in [B!Kinds -> [by : Ids \cup {None}, left : 0 .. MaxAttempts]]
  BY <1>1, <1>4
<1>6. b_flow' \in [Ids -> FlowState]
  BY <1>1, IdleState
<1>7. <<>> \in Seq(Part \cup AckPacket)
  BY EmptySeq
<1>8. BridgeTypes'
  BY <1>1, <1>3, <1>5, <1>6, <1>7 DEF BridgeInv, BridgeTypes
<1>9. \A f \in Ids : b_flow'[f] = B!Idle /\ b_waiter' # f
  BY <1>1, BridgeConstants
<1>10. \A f \in Ids : FlowFits(B!Idle, b_lock' = f, FALSE)
  BY IdleState DEF FlowFits
<1>11. FlowFacts(B!Idle, FALSE, b_image', b_buf1', b_buf2', b_line')
  BY IdleState DEF FlowFacts
<1>12. FlowsFit' /\ Punctual'
  BY <1>1, <1>9, <1>10, <1>11 DEF FlowsFit, Punctual
<1>13. SavesFit'
  BY <1>1 DEF SavesFit
<1> QED BY <1>8, <1>12, <1>13 DEF BridgeInv

-----------------------------------------------------------------------------
(* The terminal: the line *)

\* An acknowledgement put on an empty line is all that is on it.
LEMMA AckLine ==
    ASSUME NEW l \in Seq(Part \cup AckPacket), NEW c \in Commands, NEW ok \in BOOLEAN
    PROVE  /\ Append(l, B!Ack(c, ok)) \in Seq(Part \cup AckPacket)
           /\ l = <<>> => /\ Append(l, B!Ack(c, ok)) = <<B!Ack(c, ok)>>
                          /\ Append(l, B!Ack(c, ok))[1].ok = ok
<1>1. PICK a : a = B!Ack(c, ok)
  OBVIOUS
<1>2. a \in AckPacket /\ a.ok = ok
  BY <1>1, AckFields
<1>3. Append(l, a) \in Seq(Part \cup AckPacket)
  BY <1>2, AppendProperties
<1>4. ASSUME l = <<>>
      PROVE  Append(l, a) = <<a>> /\ Append(l, a)[1] = a
  BY <1>4
<1> QED BY <1>1, <1>2, <1>3, <1>4

\* The packets of an upload.
Sent(buf) == [i \in DOMAIN buf |-> [buf[i] EXCEPT !.part = i]]

\* An upload: the acknowledgement and then all that the buffer holds.
LEMMA UploadLine ==
    ASSUME NEW l \in Seq(Part \cup AckPacket), NEW a \in AckPacket,
           NEW buf \in {<<>>} \cup {B!Template(x) : x \in Scopes \cup {None}}
    PROVE  /\ Append(l, a) \o Sent(buf) \in Seq(Part \cup AckPacket)
           /\ l = <<>> => /\ Append(l, a) \o Sent(buf) # <<>>
                          /\ (Append(l, a) \o Sent(buf))[1] = a
                          /\ Numbered(Tail(Append(l, a) \o Sent(buf)))
<1>0. PICK u : u = Sent(buf)
  OBVIOUS
<1>1. PICK n \in {0, Packets} : DOMAIN buf = 1 .. n /\ \A i \in 1 .. n : buf[i] \in Part
  <2>1. CASE buf = <<>>
    BY <2>1
  <2>2. CASE buf # <<>>
    <3>1. PICK x \in Scopes \cup {None} : buf = B!Template(x)
      BY <2>2
    <3>2. buf \in Seq(Part) /\ Len(buf) = Packets /\ DOMAIN buf = 1 .. Packets
      BY <3>1, TemplateParts
    <3>3. \A i \in 1 .. Packets : buf[i] \in Part
      BY <3>2, ElementOfSeq
    <3> QED BY <3>2, <3>3
  <2> QED BY <2>1, <2>2
<1>2. n \in Nat
  BY BridgeConstants
<1>3. \A i \in 1 .. n : u[i] \in Part /\ u[i].part = i
  <2>1. ASSUME NEW i \in 1 .. n
        PROVE  u[i] \in Part /\ u[i].part = i
    <3>1. PICK p \in Part : p = buf[i]
      BY <1>1
    <3>2. u[i] = [p EXCEPT !.part = i] /\ i \in Nat
      BY <1>0, <1>1, <1>2, <3>1 DEF Sent
    <3> QED BY <3>1, <3>2 DEF Part
  <2> QED BY <2>1
<1>4. u \in [1 .. n -> Part] /\ DOMAIN u = 1 .. n
  BY <1>0, <1>1, <1>3 DEF Sent
<1>5. u \in Seq(Part)
  BY <1>2, <1>4, SeqDef
<1>6. Len(u) = n
  BY <1>2, <1>4, <1>5, LenProperties
<1>7. u \in Seq(Part \cup AckPacket)
  BY <1>5, SeqMonotonic
<1>8. Append(l, a) \in Seq(Part \cup AckPacket)
  BY AppendProperties
<1>9. Append(l, a) \o u \in Seq(Part \cup AckPacket)
  BY <1>7, <1>8, ConcatProperties
<1>10. ASSUME l = <<>>
       PROVE  /\ Append(l, a) \o u # <<>>
              /\ (Append(l, a) \o u)[1] = a
              /\ Numbered(Tail(Append(l, a) \o u))
  <2>1. PICK m : m = Append(l, a) \o u
    OBVIOUS
  <2>2. Append(l, a) = <<a>> /\ Len(Append(l, a)) = 1 /\ Append(l, a)[1] = a
    BY <1>10
  <2>3. m \in Seq(Part \cup AckPacket)
    BY <1>9, <2>1
  <2>4. Len(m) = n + 1 /\ m[1] = a /\ \A i \in 2 .. n + 1 : m[i] = u[i - 1]
    BY <1>2, <1>6, <1>7, <1>8, <2>1, <2>2, ConcatProperties
  <2>5. m # <<>>
    BY <1>2, <2>3, <2>4, EmptySeq
  <2>6. /\ Tail(m) \in Seq(Part \cup AckPacket) /\ Len(Tail(m)) = n
        /\ \A i \in 1 .. n : Tail(m)[i] = m[i + 1]
    BY <1>2, <2>3, <2>4, <2>5, HeadTailProperties
  <2>7. ASSUME NEW i \in 1 .. n
        PROVE  Tail(m)[i] \in Part /\ Tail(m)[i].part = Packets - n + i
    <3>1. Tail(m)[i] = u[i]
      <4>1. i + 1 \in 2 .. n + 1 /\ (i + 1) - 1 = i
        BY <1>2
      <4>2. m[i + 1] = u[(i + 1) - 1]
        BY <2>4, <4>1
      <4> QED BY <2>6, <4>1, <4>2
    <3>2. n = Packets
      BY <1>2
    <3>3. i = n - n + i
      BY <1>2
    <3> QED BY <1>3, <3>1, <3>2, <3>3
  <2>8. Numbered(Tail(m))
    BY <2>6, <2>7 DEF Numbered
  <2> QED BY <2>1, <2>4, <2>5, <2>8
<1> QED BY <1>0, <1>9, <1>10

\* What is left of a chunk's packets when n of them are gone.
LEMMA DropPackets ==
    ASSUME NEW l \in Seq(Part \cup AckPacket), NEW n \in 1 .. Len(l)
    PROVE  /\ SubSeq(l, n + 1, Len(l)) \in Seq(Part \cup AckPacket)
           /\ n = Len(l) => SubSeq(l, n + 1, Len(l)) = <<>>
           /\ Numbered(l) => Numbered(SubSeq(l, n + 1, Len(l)))
           /\ l # <<>> /\ Numbered(Tail(l)) => Numbered(SubSeq(l, n + 1, Len(l)))
<1>1. PICK len \in Nat : len = Len(l)
  BY LenProperties
<1>2. PICK m : m = SubSeq(l, n + 1, Len(l))
  OBVIOUS
<1>3. n \in 1 .. len /\ n + 1 \in 1 .. len + 1 /\ len \in n .. len
  BY <1>1
<1>4. \A i \in n + 1 .. len : l[i] \in Part \cup AckPacket
  BY <1>1, <1>3, ElementOfSeq
<1>5. /\ m \in Seq(Part \cup AckPacket)
      /\ Len(m) = len - n
      /\ \A i \in 1 .. len - n : m[i] = l[n + i]
  <2>1. m \in Seq(Part \cup AckPacket)
    BY <1>1, <1>2, <1>3, <1>4, SubSeqProperties
  <2>2. Len(m) = IF n + 1 <= len THEN len - (n + 1) + 1 ELSE 0
    BY <1>1, <1>2, <1>3, <1>4, SubSeqProperties
  <2>3. \A i \in 1 .. len - (n + 1) + 1 : m[i] = l[n + 1 + i - 1]
    BY <1>1, <1>2, <1>3, <1>4, SubSeqProperties
  <2>4. ASSUME NEW i \in 1 .. len - n
        PROVE  m[i] = l[n + i]
    <3>1. i \in 1 .. len - (n + 1) + 1 /\ n + 1 + i - 1 = n + i
      BY <1>3
    <3> QED BY <2>3, <3>1
  <2>5. Len(m) = len - n
    BY <1>3, <2>2
  <2> QED BY <2>1, <2>4, <2>5
<1>6. n = len => m = <<>>
  BY <1>5, EmptySeq
<1>7. ASSUME Numbered(l)
      PROVE  Numbered(m)
  <2>1. ASSUME NEW i \in 1 .. len - n
        PROVE  m[i] \in Part /\ m[i].part = Packets - (len - n) + i
    <3>1. n + i \in 1 .. len
      BY <1>3
    <3>2. l[n + i] \in Part /\ l[n + i].part = Packets - len + (n + i)
      BY <1>1, <1>7, <3>1 DEF Numbered
    <3>3. Packets - len + (n + i) = Packets - (len - n) + i
      BY <1>3, BridgeConstants
    <3> QED BY <1>5, <3>2, <3>3
  <2> QED BY <1>5, <2>1 DEF Numbered
<1>8. ASSUME l # <<>>, Numbered(Tail(l))
      PROVE  Numbered(m)
  <2>1. PICK t : t = Tail(l)
    OBVIOUS
  <2>2. Len(t) = len - 1 /\ \A i \in 1 .. len - 1 : t[i] = l[i + 1]
    BY <1>1, <1>8, <2>1, HeadTailProperties
  <2>3. ASSUME NEW i \in 1 .. len - n
        PROVE  m[i] \in Part /\ m[i].part = Packets - (len - n) + i
    <3>1. n + i - 1 \in 1 .. len - 1 /\ (n + i - 1) + 1 = n + i
      BY <1>3
    <3>2. l[n + i] = t[n + i - 1]
      BY <2>2, <3>1
    <3>3. l[n + i] \in Part /\ l[n + i].part = Packets - (len - 1) + (n + i - 1)
      BY <1>8, <2>1, <2>2, <3>1, <3>2 DEF Numbered
    <3>4. Packets - (len - 1) + (n + i - 1) = Packets - (len - n) + i
      BY <1>3, BridgeConstants
    <3> QED BY <1>5, <3>3, <3>4
  <2> QED BY <1>5, <2>3 DEF Numbered
<1> QED BY <1>1, <1>2, <1>5, <1>6, <1>7, <1>8

-----------------------------------------------------------------------------
(* The terminal: the sensor runs a command *)

\* What a command leaves behind: the flow r that sent it, and the sensor.
Ran(f, q, r) ==
    /\ b_flow' = [b_flow EXCEPT ![f] = r]
    /\ r.at = q.at /\ r.kind = q.kind /\ r.step = q.step
    /\ r.reading = q.reading /\ r.matched = q.matched
    /\ b_image' \in Scopes \cup {None}
    /\ b_buf1' \in {<<>>} \cup {B!Template(x) : x \in Scopes \cup {None}}
    /\ b_buf2' \in Seq(Part) /\ b_line' \in Seq(Part \cup AckPacket)

\* The flow sees a finger, or nothing of it changes.
LEMMA Seen ==
    ASSUME NEW q \in FlowState, NEW x \in Scopes, NEW r, r = [q EXCEPT !.seen = x]
    PROVE  /\ r \in FlowState /\ r.seen = x
           /\ r.at = q.at /\ r.kind = q.kind /\ r.step = q.step
           /\ r.reading = q.reading /\ r.matched = q.matched /\ r.template = q.template
<1>1. /\ r.seen = x /\ r.at = q.at /\ r.kind = q.kind /\ r.step = q.step
      /\ r.reading = q.reading /\ r.matched = q.matched /\ r.template = q.template
  BY DEF FlowState
<1>2. r \in FlowState
  BY DEF FlowState
<1> QED BY <1>1, <1>2

\* A login that has had no answer knows what it knew.
LEMMA NothingNew ==
    ASSUME NEW r, NEW image, NEW buf1, NEW buf2, NEW l, NEW a,
           LoginFits(r, FALSE, image, buf1, buf2, l), ~a[1].ok
    PROVE  LoginFits(r, TRUE, image, buf1, buf2, a)
BY DEF LoginFits

\* The sensor matches only what lies in its buffers.
LEMMA MatchesOwn ==
    ASSUME NEW x, b_buf1 = B!Template(x), x \in Scopes \cup {None}, TRUE \in B!Matches
    PROVE  \A i \in DOMAIN b_buf2 : b_buf2[i].finger = x
<1>1. b_buf1 # <<>> /\ \A i \in DOMAIN b_buf2 : b_buf2[i].finger = B!FingerOf(b_buf1)
  BY DEF B!Matches
<1>2. Packets \in Nat /\ Len(b_buf1) = Packets /\ b_buf1 \in Seq(Part)
      /\ \A i \in 1 .. Packets : b_buf1[i].finger = x
  BY TemplateParts, BridgeConstants
<1>3. 1 \in 1 .. Packets
  BY <1>1, <1>2, EmptySeq
<1>4. B!FingerOf(b_buf1) = x
  BY <1>2, <1>3 DEF B!FingerOf
<1> QED BY <1>1, <1>4

\* A command leaves the sensor with what its login has done so far, and its own answer on an empty line.
LEMMA Executed ==
    ASSUME BridgeInv, NEW f \in Ids, NEW q \in FlowState, q = b_flow[f],
           q.kind = "login" => q.step <= 4, B!Execute(f)
    PROVE  \E r \in FlowState :
              /\ Ran(f, q, r)
              /\ b_line = <<>> /\ ~q.reading => LineFits(r, b_line')
              /\ /\ b_line = <<>> /\ q.kind = "login" /\ q.step >= 1
                 /\ LoginFits(q, FALSE, b_image, b_buf1, b_buf2, b_line)
                 => LoginFits(r, TRUE, b_image', b_buf1', b_buf2', b_line')
<1>1. /\ b_image \in Scopes \cup {None}
      /\ b_buf1 \in {<<>>} \cup {B!Template(x) : x \in Scopes \cup {None}}
      /\ b_buf2 \in Seq(Part) /\ b_line \in Seq(Part \cup AckPacket)
      /\ b_flow \in [Ids -> FlowState]
  BY DEF BridgeInv, BridgeTypes
<1>2. PICK c : c = CommandOf(q)
  OBVIOUS
<1>3. c \in Commands /\ B!Command(f) = c
  BY <1>2, CommandKinds, CommandSame
<1>4. b_flow = [b_flow EXCEPT ![f] = q]
  BY <1>1
<1>5. B!Template(b_image) \in {B!Template(x) : x \in Scopes \cup {None}}
      /\ B!Template(b_image) \in Seq(Part)
  BY <1>1, TemplateParts
\* An answer of one packet.
<1>6. ASSUME NEW ok \in BOOLEAN, b_line' = Append(b_line, B!Ack(c, ok)), c # "upload",
             NEW r, r.kind = q.kind, r.step = q.step
      PROVE  /\ b_line' \in Seq(Part \cup AckPacket)
             /\ b_line = <<>> => LineFits(r, b_line') /\ b_line'[1].ok = ok
  <2>1. /\ b_line' \in Seq(Part \cup AckPacket)
        /\ b_line = <<>> => b_line' = <<B!Ack(c, ok)>> /\ b_line'[1].ok = ok
    BY <1>1, <1>3, <1>6, AckLine
  <2>2. CommandOf(r) = c
    BY <1>2, <1>6 DEF CommandOf
  <2> QED BY <1>6, <2>1, <2>2 DEF LineFits
\* A refusal.
<1>7. ASSUME b_line' = Append(b_line, B!Ack(c, FALSE)), c # "upload",
             UNCHANGED <<b_image, b_buf1, b_buf2, b_flow>>
      PROVE  /\ Ran(f, q, q)
             /\ b_line = <<>> => LineFits(q, b_line')
             /\ b_line = <<>> /\ LoginFits(q, FALSE, b_image, b_buf1, b_buf2, b_line)
                => LoginFits(q, TRUE, b_image', b_buf1', b_buf2', b_line')
  <2>1. /\ b_line' \in Seq(Part \cup AckPacket)
        /\ b_line = <<>> => LineFits(q, b_line') /\ ~b_line'[1].ok
    BY <1>6, <1>7
  <2>2. Ran(f, q, q)
    BY <1>1, <1>4, <1>7, <2>1 DEF Ran
  <2>3. ASSUME b_line = <<>>, LoginFits(q, FALSE, b_image, b_buf1, b_buf2, b_line)
        PROVE  LoginFits(q, TRUE, b_image', b_buf1', b_buf2', b_line')
    BY <1>7, <2>1, <2>3, NothingNew
  <2> QED BY <2>1, <2>2, <2>3
<1>8. CASE c \in {"finger", "removal"} /\ UNCHANGED <<b_buf1, b_buf2>>
           /\ \E x \in Scopes :
                 /\ b_image' = x /\ b_line' = Append(b_line, B!Ack(c, TRUE))
                 /\ b_flow' = IF c = "finger" THEN [b_flow EXCEPT ![f] = [@ EXCEPT !.seen = x]]
                              ELSE b_flow
  <2>1. PICK x \in Scopes :
           /\ b_image' = x /\ b_line' = Append(b_line, B!Ack(c, TRUE))
           /\ b_flow' = IF c = "finger" THEN [b_flow EXCEPT ![f] = [@ EXCEPT !.seen = x]]
                        ELSE b_flow
    BY <1>8
  <2>2. PICK r : r = IF c = "finger" THEN [q EXCEPT !.seen = x] ELSE q
    OBVIOUS
  <2>3. b_flow' = [b_flow EXCEPT ![f] = r]
    BY <1>4, <2>1, <2>2
  <2>4. /\ r \in FlowState /\ (c = "finger" => r.seen = x)
        /\ r.at = q.at /\ r.kind = q.kind /\ r.step = q.step
        /\ r.reading = q.reading /\ r.matched = q.matched /\ r.template = q.template
    BY <2>2, Seen
  <2>5. /\ b_line' \in Seq(Part \cup AckPacket)
        /\ b_line = <<>> => LineFits(r, b_line') /\ b_line'[1].ok = TRUE
    BY <1>6, <1>8, <2>1, <2>4
  <2>6. Ran(f, q, r)
    BY <1>1, <1>8, <2>1, <2>3, <2>4, <2>5 DEF Ran
  <2>7. ASSUME q.kind = "login", q.step >= 1
        PROVE  LoginFits(r, TRUE, b_image', b_buf1', b_buf2', b_line')
    <3>1. c = "finger" /\ r.step = 1 /\ CommandOf(r) = "finger"
      BY <1>2, <1>8, <2>4, <2>7, CommandKinds
    <3>2. ~(r.step >= 2) /\ ~(r.step >= 3) /\ ~(r.step >= 4)
      BY <3>1
    <3>3. b_image' = r.seen
      BY <2>1, <2>4, <3>1
    <3> QED BY <3>1, <3>2, <3>3 DEF LoginFits
  <2> QED BY <2>4, <2>5, <2>6, <2>7
<1>9. CASE c = "char1" /\ b_buf1' = B!Template(b_image) /\ b_line' = Append(b_line, B!Ack(c, TRUE))
           /\ UNCHANGED <<b_image, b_buf2, b_flow>>
  <2>1. /\ b_line' \in Seq(Part \cup AckPacket)
        /\ b_line = <<>> => LineFits(q, b_line')
    BY <1>6, <1>9
  <2>2. Ran(f, q, q)
    BY <1>1, <1>4, <1>5, <1>9, <2>1 DEF Ran
  <2>3. ASSUME q.kind = "login", LoginFits(q, FALSE, b_image, b_buf1, b_buf2, b_line)
        PROVE  LoginFits(q, TRUE, b_image', b_buf1', b_buf2', b_line')
    <3>1. q.step = 2 /\ CommandOf(q) = "char1"
      BY <1>2, <1>9, <2>3, CommandKinds
    <3>2. b_image = q.seen
      BY <2>3, <3>1 DEF LoginFits
    <3> QED BY <1>9, <3>1, <3>2 DEF LoginFits
  <2> QED BY <2>1, <2>2, <2>3
<1>10. CASE c = "char2" /\ b_buf2' = B!Template(b_image) /\ b_line' = Append(b_line, B!Ack(c, TRUE))
            /\ UNCHANGED <<b_image, b_buf1, b_flow>>
  <2>1. /\ b_line' \in Seq(Part \cup AckPacket)
        /\ b_line = <<>> => LineFits(q, b_line')
    BY <1>6, <1>10
  <2>2. Ran(f, q, q)
    BY <1>1, <1>4, <1>5, <1>10, <2>1 DEF Ran
  <2>3. q.kind # "login"
    BY <1>2, <1>10, CommandKinds
  <2> QED BY <2>1, <2>2, <2>3
<1>11. CASE c = "combine" /\ b_line' = Append(b_line, B!Ack(c, b_buf1 = b_buf2))
            /\ UNCHANGED <<b_image, b_buf1, b_buf2, b_flow>>
  <2>1. PICK ok \in BOOLEAN : ok = (b_buf1 = b_buf2)
    OBVIOUS
  <2>2. /\ b_line' \in Seq(Part \cup AckPacket)
        /\ b_line = <<>> => LineFits(q, b_line')
    BY <1>6, <1>11, <2>1
  <2>3. Ran(f, q, q)
    BY <1>1, <1>4, <1>11, <2>2 DEF Ran
  <2>4. q.kind # "login"
    BY <1>2, <1>11, CommandKinds
  <2> QED BY <2>2, <2>3, <2>4
<1>12. CASE c = "upload" /\ UNCHANGED <<b_image, b_buf1, b_buf2, b_flow>>
            /\ b_line' = Append(b_line, B!Ack(c, TRUE)) \o
                         [i \in DOMAIN b_buf1 |-> [b_buf1[i] EXCEPT !.part = i]]
  <2>1. PICK a : a = B!Ack(c, TRUE)
    OBVIOUS
  <2>2. a \in AckPacket
    BY <1>3, <2>1, AckFields
  <2>3. b_line' = Append(b_line, a) \o Sent(b_buf1)
    BY <1>12, <2>1 DEF Sent
  <2>4. /\ b_line' \in Seq(Part \cup AckPacket)
        /\ b_line = <<>> => b_line' # <<>> /\ b_line'[1] = a /\ Numbered(Tail(b_line'))
    BY <1>1, <2>2, <2>3, UploadLine
  <2>8. a.ok
    BY <2>1 DEF B!Ack
  <2>5. b_line = <<>> /\ ~q.reading => LineFits(q, b_line')
    BY <1>2, <1>12, <2>2, <2>4, <2>8 DEF LineFits
  <2>6. Ran(f, q, q)
    BY <1>1, <1>4, <1>12, <2>4 DEF Ran
  <2>7. q.kind # "login"
    BY <1>2, <1>12, CommandKinds
  <2> QED BY <2>5, <2>6, <2>7
<1>13. CASE B!downloadCharacteristic(f)
  <2>1. /\ c = "load" /\ b_buf2' = q.template /\ b_line' = Append(b_line, B!Ack(c, TRUE))
        /\ UNCHANGED <<b_image, b_buf1, b_flow>>
    BY <1>3, <1>13 DEF B!downloadCharacteristic
  <2>2. /\ b_line' \in Seq(Part \cup AckPacket)
        /\ b_line = <<>> => LineFits(q, b_line')
    BY <1>6, <2>1
  <2>3. Ran(f, q, q)
    BY <1>1, <1>4, <2>1, <2>2, FlowFields DEF Ran
  <2>4. ASSUME q.kind = "login", LoginFits(q, FALSE, b_image, b_buf1, b_buf2, b_line)
        PROVE  LoginFits(q, TRUE, b_image', b_buf1', b_buf2', b_line')
    <3>1. q.step = 3 /\ CommandOf(q) = "load"
      BY <1>2, <2>1, <2>4, CommandKinds
    <3>2. b_image = q.seen /\ b_buf1 = B!Template(q.seen)
      BY <2>4, <3>1 DEF LoginFits
    <3> QED BY <2>1, <3>1, <3>2 DEF LoginFits
  <2> QED BY <2>2, <2>3, <2>4
<1>14. CASE c = "match" /\ UNCHANGED <<b_image, b_buf1, b_buf2, b_flow>>
            /\ \E ok \in B!Matches : b_line' = Append(b_line, B!Ack(c, ok))
  <2>1. PICK ok \in B!Matches : b_line' = Append(b_line, B!Ack(c, ok))
    BY <1>14
  <2>2. ok \in BOOLEAN
    BY DEF B!Matches
  <2>3. /\ b_line' \in Seq(Part \cup AckPacket)
        /\ b_line = <<>> => LineFits(q, b_line') /\ b_line'[1].ok = ok
    BY <1>6, <1>14, <2>1, <2>2
  <2>4. Ran(f, q, q)
    BY <1>1, <1>4, <1>14, <2>3 DEF Ran
  <2>5. ASSUME b_line = <<>>, q.kind = "login",
               LoginFits(q, FALSE, b_image, b_buf1, b_buf2, b_line)
        PROVE  LoginFits(q, TRUE, b_image', b_buf1', b_buf2', b_line')
    <3>1. q.step = 4 /\ CommandOf(q) = "match"
      BY <1>2, <1>14, <2>5, CommandKinds
    <3>2. b_image = q.seen /\ b_buf1 = B!Template(q.seen) /\ b_buf2 = q.template
      BY <2>5, <3>1 DEF LoginFits
    <3>3. ASSUME b_line'[1].ok
          PROVE  Own(q)
      <4>1. TRUE \in B!Matches
        BY <2>1, <2>2, <2>3, <2>5, <3>3
      <4>2. q.seen \in Scopes \cup {None}
        BY FlowFields
      <4>3. \A i \in DOMAIN b_buf2 : b_buf2[i].finger = q.seen
        BY <3>2, <4>1, <4>2, MatchesOwn
      <4> QED BY <3>2, <4>3 DEF Own
    <3> QED BY <1>14, <3>1, <3>2, <3>3 DEF LoginFits
  <2> QED BY <2>3, <2>4, <2>5
<1>15. CASE c \in {"finger", "removal", "char1", "char2"}
            /\ b_line' = Append(b_line, B!Ack(c, FALSE))
            /\ UNCHANGED <<b_image, b_buf1, b_buf2, b_flow>>
  BY <1>7, <1>15
<1> QED
  <2>1. \/ /\ c \in {"finger", "removal"}
           /\ \/ b_line' = Append(b_line, B!Ack(c, FALSE)) /\ UNCHANGED <<b_image, b_flow>>
              \/ \E x \in Scopes :
                    /\ b_image' = x /\ b_line' = Append(b_line, B!Ack(c, TRUE))
                    /\ b_flow' = IF c = "finger"
                                 THEN [b_flow EXCEPT ![f] = [@ EXCEPT !.seen = x]]
                                 ELSE b_flow
           /\ UNCHANGED <<b_buf1, b_buf2>>
        \/ /\ c \in {"char1", "char2"} /\ b_line' = Append(b_line, B!Ack(c, FALSE))
           /\ UNCHANGED <<b_image, b_buf1, b_buf2, b_flow>>
        \/ /\ c = "char1" /\ b_buf1' = B!Template(b_image)
           /\ b_line' = Append(b_line, B!Ack(c, TRUE))
           /\ UNCHANGED <<b_image, b_buf2, b_flow>>
        \/ /\ c = "char2" /\ b_buf2' = B!Template(b_image)
           /\ b_line' = Append(b_line, B!Ack(c, TRUE))
           /\ UNCHANGED <<b_image, b_buf1, b_flow>>
        \/ /\ c = "combine" /\ b_line' = Append(b_line, B!Ack(c, b_buf1 = b_buf2))
           /\ UNCHANGED <<b_image, b_buf1, b_buf2, b_flow>>
        \/ /\ c = "upload"
           /\ b_line' = Append(b_line, B!Ack(c, TRUE)) \o
                        [i \in DOMAIN b_buf1 |-> [b_buf1[i] EXCEPT !.part = i]]
           /\ UNCHANGED <<b_image, b_buf1, b_buf2, b_flow>>
        \/ B!downloadCharacteristic(f)
        \/ /\ c = "match" /\ \E ok \in B!Matches : b_line' = Append(b_line, B!Ack(c, ok))
           /\ UNCHANGED <<b_image, b_buf1, b_buf2, b_flow>>
    BY <1>3 DEF B!Execute
  <2> QED BY <1>8, <1>9, <1>10, <1>11, <1>12, <1>13, <1>14, <1>15, <2>1

\* A command is sent: the line was empty, and its answer is the only one on it.
LEMMA CmdStep ==
    ASSUME BridgeInv, NEW f \in Ids, B!cmd(f)
    PROVE  BridgeInv'
<1>1. PICK q : q = b_flow[f]
  OBVIOUS
<1>2. q \in FlowState /\ FlowFits(q, b_lock = f, b_waiter = f)
  BY <1>1 DEF BridgeInv, BridgeTypes, FlowsFit
<1>3. /\ q.at = "sensor" /\ b_waiter = None /\ B!Execute(f) /\ b_waiter' = f
      /\ UNCHANGED <<b_pending, b_lock, b_account, b_file, b_saves, b_late>>
  BY <1>1 DEF B!cmd, B!hostVars, B!envVars
<1>4. b_lock = f /\ b_waiter # f /\ ~q.reading /\ ~q.matched
      /\ (q.kind = "login" => q.step <= 4 /\ q.step >= 1)
  BY <1>2, <1>3, BridgeConstants DEF FlowFits
<1>5. PICK r \in FlowState :
         /\ Ran(f, q, r)
         /\ b_line = <<>> /\ ~q.reading => LineFits(r, b_line')
         /\ /\ b_line = <<>> /\ q.kind = "login" /\ q.step >= 1
            /\ LoginFits(q, FALSE, b_image, b_buf1, b_buf2, b_line)
            => LoginFits(r, TRUE, b_image', b_buf1', b_buf2', b_line')
  BY <1>1, <1>2, <1>3, <1>4, Executed
<1>6. /\ b_flow' = [b_flow EXCEPT ![f] = r]
      /\ r.at = "sensor" /\ r.kind = q.kind /\ r.step = q.step /\ ~r.reading /\ ~r.matched
  BY <1>3, <1>4, <1>5 DEF Ran
<1>7. b_flow' \in [Ids -> FlowState]
  BY <1>6, Changed DEF BridgeInv, BridgeTypes
<1>8. BridgeTypes'
  BY <1>3, <1>5, <1>7 DEF BridgeInv, BridgeTypes, Ran
<1>9. FlowFits(r, TRUE, b_waiter' = f)
  BY <1>3, <1>4, <1>6 DEF FlowFits
<1>10. ASSUME ~b_late'
       PROVE  /\ ~b_late /\ (b_waiter' = None => b_line' = <<>>)
              /\ FlowFacts(r, b_waiter' = f, b_image', b_buf1', b_buf2', b_line')
  <2>1. Punctual
    BY <1>3, <1>10 DEF BridgeInv
  <2>2. b_line = <<>>
    BY <1>3, <2>1 DEF Punctual
  <2>3. FlowFacts(q, FALSE, b_image, b_buf1, b_buf2, b_line)
    BY <1>1, <1>3, <1>4, <2>1 DEF Punctual, FlowFacts, LoginFits
  <2>4. LineFits(r, b_line')
    BY <1>4, <1>5, <2>2
  <2>5. q.kind = "login" => LoginFits(r, TRUE, b_image', b_buf1', b_buf2', b_line')
    BY <1>3, <1>4, <1>5, <2>2, <2>3 DEF FlowFacts
  <2>6. FlowFacts(r, b_waiter' = f, b_image', b_buf1', b_buf2', b_line')
    BY <1>3, <1>6, <2>4, <2>5 DEF FlowFacts
  <2> QED BY <1>3, <1>10, <2>6, BridgeConstants
<1>11. FlowsFit' /\ (~b_late' => Punctual')
  BY <1>3, <1>4, <1>6, <1>9, <1>10, Stays
<1>12. SavesFit'
  BY <1>1, <1>3, <1>6, SavesKept
<1> QED BY <1>8, <1>11, <1>12 DEF BridgeInv

-----------------------------------------------------------------------------
(* The terminal: the driver reads a chunk *)

\* What the reader finds first on a line whose answers are in time.
LEMMA Answer ==
    ASSUME NEW q \in FlowState, q.kind = "login" => q.step <= 4,
           NEW l \in Seq(Part \cup AckPacket), NEW n \in 1 .. Len(l), LineFits(q, l)
    PROVE  /\ CommandOf(q) # "upload" =>
                 /\ SubSeq(l, n + 1, Len(l)) = <<>> /\ Head(l) = l[1]
                 /\ Head(l) \in AckPacket /\ Head(l).cmd = CommandOf(q)
           /\ CommandOf(q) = "upload" =>
                 /\ Numbered(SubSeq(l, n + 1, Len(l)))
                 /\ q.reading => /\ Head(l) \in Part
                                 /\ ~(Head(l).part < Packets) => SubSeq(l, n + 1, Len(l)) = <<>>
                 /\ ~q.reading => Head(l) \in AckPacket /\ Head(l).ok
<1>1. PICK len \in Nat : len = Len(l)
  BY LenProperties
<1>2. l # <<>> /\ Head(l) = l[1] /\ 1 \in 1 .. len /\ n \in 1 .. len
  BY <1>1, EmptySeq
<1>3. CASE CommandOf(q) # "upload"
  <2>1. PICK ok \in BOOLEAN : l = <<B!Ack(CommandOf(q), ok)>>
    BY <1>3 DEF LineFits
  <2>2. CommandOf(q) \in Commands
    BY CommandKinds
  <2>3. Len(l) = 1 /\ l[1] = B!Ack(CommandOf(q), ok)
    BY <2>1
  <2>4. n = Len(l)
    BY <2>3
  <2>5. SubSeq(l, n + 1, Len(l)) = <<>>
    BY <2>4, DropPackets
  <2> QED BY <1>2, <1>3, <2>2, <2>3, <2>5, AckFields
<1>4. CASE CommandOf(q) = "upload" /\ q.reading
  <2>1. Numbered(l)
    BY <1>4 DEF LineFits
  <2>2. l[1] \in Part /\ l[1].part = Packets - len + 1
    BY <1>1, <1>2, <2>1 DEF Numbered
  <2>3. ASSUME ~(l[1].part < Packets)
        PROVE  n = Len(l)
    <3>1. ~(Packets - len + 1 < Packets)
      BY <2>2, <2>3
    <3> QED BY <1>1, <1>2, <3>1, BridgeConstants
  <2> QED BY <1>2, <1>4, <2>1, <2>2, <2>3, DropPackets
<1>5. CASE CommandOf(q) = "upload" /\ ~q.reading
  <2>1. l[1] \in AckPacket /\ l[1].ok /\ Numbered(Tail(l))
    BY <1>5 DEF LineFits
  <2> QED BY <1>2, <1>5, <2>1, DropPackets
<1> QED BY <1>3, <1>4, <1>5

\* A packet arrives: what the sensor holds and the files are left alone.
Arrives(n) ==
    /\ n \in 1 .. Len(b_line) /\ b_line' = SubSeq(b_line, n + 1, Len(b_line))
    /\ UNCHANGED <<b_pending, b_image, b_buf1, b_buf2, b_account, b_file, b_saves, b_late>>

\* The reader gives up: in time, nothing is left on the line.
LEMMA ReaderThrows ==
    ASSUME BridgeInv, NEW f \in Ids, b_waiter = f, NEW n, Arrives(n), B!Throw(f),
           ~b_late => b_line' = <<>>
    PROVE  BridgeInv'
<1>1. b_flow[f].at = "sensor"
  BY DEF BridgeInv, FlowsFit, FlowFits
<1>2. B!Fail(f) /\ b_waiter' = None
  BY DEF B!Throw
<1>3. /\ b_flow' \in [Ids -> FlowState] /\ b_lock' \in Ids \cup {None}
      /\ FlowsFit' /\ (~b_late' => Punctual') /\ SavesFit'
  BY <1>1, <1>2, Fails DEF Arrives
<1>4. b_line' \in Seq(Part \cup AckPacket)
  BY DropPackets DEF Arrives, BridgeInv, BridgeTypes
<1>5. BridgeTypes'
  BY <1>2, <1>3, <1>4 DEF BridgeInv, BridgeTypes, Arrives
<1> QED BY <1>3, <1>5 DEF BridgeInv

\* The reader goes on with its command, or to the next.
LEMMA ReaderStays ==
    ASSUME BridgeInv, NEW f \in Ids, b_waiter = f, NEW n, Arrives(n), NEW r \in FlowState,
           b_flow' = [b_flow EXCEPT ![f] = r], b_lock' = b_lock, b_waiter' \in {f, None},
           FlowFits(r, TRUE, b_waiter' = f),
           ~b_late => /\ b_waiter' = None => b_line' = <<>>
                      /\ FlowFacts(r, b_waiter' = f, b_image, b_buf1, b_buf2, b_line')
    PROVE  BridgeInv'
<1>1. b_flow[f].at = "sensor" /\ b_lock = f
  BY DEF BridgeInv, FlowsFit, FlowFits
<1>2. ASSUME ~b_late'
      PROVE  /\ ~b_late /\ (b_waiter' = None => b_line' = <<>>)
             /\ FlowFacts(r, b_waiter' = f, b_image', b_buf1', b_buf2', b_line')
  BY <1>2 DEF Arrives
<1>3. FlowsFit' /\ (~b_late' => Punctual')
  BY <1>1, <1>2, Stays
<1>4. SavesFit'
  BY <1>1, SavesKept DEF Arrives
<1>5. b_line' \in Seq(Part \cup AckPacket)
  BY DropPackets DEF Arrives, BridgeInv, BridgeTypes
<1>6. b_flow' \in [Ids -> FlowState]
  BY Changed DEF BridgeInv, BridgeTypes
<1>7. BridgeTypes'
  BY <1>1, <1>5, <1>6 DEF BridgeInv, BridgeTypes, Arrives
<1> QED BY <1>3, <1>4, <1>7 DEF BridgeInv

\* What is known of the flow that reads.
LEMMA Reader ==
    ASSUME BridgeInv, NEW f \in Ids, b_waiter = f, NEW n, Arrives(n)
    PROVE  /\ b_flow[f] \in FlowState /\ b_flow[f].at = "sensor" /\ b_lock = f
           /\ ~b_flow[f].matched
           /\ b_flow[f].kind = "login" => b_flow[f].step <= 4 /\ b_flow[f].step >= 1
           /\ b_flow[f].reading => CommandOf(b_flow[f]) = "upload"
           /\ B!Command(f) = CommandOf(b_flow[f])
           /\ Head(b_line) \in Part \cup AckPacket
           /\ ~b_late => /\ LineFits(b_flow[f], b_line)
                         /\ b_flow[f].kind = "login" =>
                              LoginFits(b_flow[f], TRUE, b_image, b_buf1, b_buf2, b_line)
<1>1. b_flow[f] \in FlowState /\ b_line \in Seq(Part \cup AckPacket)
      /\ FlowFits(b_flow[f], b_lock = f, b_waiter = f)
  BY DEF BridgeInv, BridgeTypes, FlowsFit
<1>2. b_line # <<>>
  <2>1. PICK len \in Nat : len = Len(b_line)
    BY <1>1, LenProperties
  <2>2. len # 0
    BY <2>1 DEF Arrives
  <2> QED BY <2>1, <2>2, EmptySeq
<1>3. Head(b_line) \in Part \cup AckPacket
  BY <1>1, <1>2, HeadTailProperties
<1>4. /\ b_flow[f].at = "sensor" /\ b_lock = f /\ ~b_flow[f].matched
      /\ b_flow[f].kind = "login" => b_flow[f].step <= 4 /\ b_flow[f].step >= 1
      /\ b_flow[f].reading => CommandOf(b_flow[f]) = "upload"
  BY <1>1 DEF FlowFits
<1>5. ~b_late => FlowFacts(b_flow[f], b_waiter = f, b_image, b_buf1, b_buf2, b_line)
  BY DEF BridgeInv, Punctual
<1>6. ~b_late => /\ LineFits(b_flow[f], b_line)
                 /\ b_flow[f].kind = "login" =>
                      LoginFits(b_flow[f], TRUE, b_image, b_buf1, b_buf2, b_line)
  BY <1>4, <1>5 DEF FlowFacts
<1> QED BY <1>1, <1>3, <1>4, <1>6, CommandSame

\* A command is done: what its answer said is now behind the flow.
LEMMA AdvanceStep ==
    ASSUME BridgeInv, NEW f \in Ids, b_waiter = f, NEW n, Arrives(n), B!Advance(f),
           CommandOf(b_flow[f]) \notin {"upload", "match"},
           b_flow[f].kind = "login" => Head(b_line).ok
    PROVE  BridgeInv'
<1>1. PICK q : q = b_flow[f]
  OBVIOUS
<1>2. /\ q \in FlowState /\ q.at = "sensor" /\ b_lock = f /\ ~q.matched /\ ~q.reading
      /\ q.kind = "login" => q.step <= 4 /\ q.step >= 1
      /\ ~b_late => /\ LineFits(q, b_line)
                    /\ q.kind = "login" => LoginFits(q, TRUE, b_image, b_buf1, b_buf2, b_line)
  BY <1>1, Reader
<1>3. /\ q.kind = "login" => \/ q.step = 1 /\ CommandOf(q) = "finger"
                             \/ q.step = 2 /\ CommandOf(q) = "char1"
                             \/ q.step = 3 /\ CommandOf(q) = "load"
      /\ q.kind = "signup" => q.step \in 0 .. 6
      /\ q.kind \in {"login", "signup"}
  BY <1>1, <1>2, CommandKinds, FlowFields
<1>4. q.step + 1 \in 0 .. 7 /\ (q.kind = "login" => q.step + 1 \in 2 .. 4)
  BY <1>3
<1>5. PICK r : r = [q EXCEPT !.step = q.step + 1]
  OBVIOUS
<1>6. /\ r.at = "sensor" /\ r.kind = q.kind /\ r.step = q.step + 1 /\ r.seen = q.seen
      /\ r.template = q.template /\ r.reading = q.reading /\ r.matched = q.matched
  BY <1>2, <1>5 DEF FlowState
<1>7. r \in FlowState
  BY <1>2, <1>4, <1>5 DEF FlowState
<1>8. b_flow' = [b_flow EXCEPT ![f] = r] /\ b_lock' = b_lock /\ b_waiter' = None
  BY <1>1, <1>5 DEF B!Advance
<1>9. b_waiter' # f
  BY <1>8, BridgeConstants
<1>10. r.kind = "login" => r.step <= 4 /\ r.step >= 1
  BY <1>4, <1>6
<1>11. FlowFits(r, TRUE, b_waiter' = f)
  BY <1>2, <1>6, <1>9, <1>10 DEF FlowFits
<1>12. ASSUME ~b_late
       PROVE  b_line' = <<>> /\ FlowFacts(r, b_waiter' = f, b_image, b_buf1, b_buf2, b_line')
  <2>1. b_line \in Seq(Part \cup AckPacket) /\ n \in 1 .. Len(b_line)
    BY DEF BridgeInv, BridgeTypes, Arrives
  <2>2. b_line' = <<>> /\ Head(b_line) = b_line[1]
    BY <1>1, <1>2, <1>12, <2>1, Answer DEF Arrives
  <2>3. ASSUME q.kind = "login"
        PROVE  LoginFits(r, FALSE, b_image, b_buf1, b_buf2, b_line')
    <3>1. LoginFits(q, TRUE, b_image, b_buf1, b_buf2, b_line) /\ b_line[1].ok
      BY <1>1, <1>2, <1>12, <2>2, <2>3
    <3>2. CASE q.step = 1 /\ CommandOf(q) = "finger"
      <4>1. b_image = r.seen
        BY <1>6, <3>1, <3>2 DEF LoginFits
      <4>2. r.step = 2
        BY <1>6, <3>2
      <4> QED BY <4>1, <4>2 DEF LoginFits
    <3>3. CASE q.step = 2 /\ CommandOf(q) = "char1"
      <4>1. b_image = r.seen /\ b_buf1 = B!Template(r.seen)
        BY <1>6, <3>1, <3>3 DEF LoginFits
      <4>2. r.step = 3
        BY <1>6, <3>3
      <4> QED BY <4>1, <4>2 DEF LoginFits
    <3>4. CASE q.step = 3 /\ CommandOf(q) = "load"
      <4>1. b_image = r.seen /\ b_buf1 = B!Template(r.seen) /\ b_buf2 = r.template
        BY <1>6, <3>1, <3>4 DEF LoginFits
      <4> QED BY <4>1 DEF LoginFits
    <3> QED BY <1>3, <2>3, <3>2, <3>3, <3>4
  <2>4. FlowFacts(r, FALSE, b_image, b_buf1, b_buf2, b_line')
    BY <1>2, <1>6, <2>3 DEF FlowFacts
  <2> QED BY <1>9, <2>2, <2>4
<1> QED BY <1>7, <1>8, <1>11, <1>12, ReaderStays

\* No finger yet, or still one: the same command again.
LEMMA AgainStep ==
    ASSUME BridgeInv, NEW f \in Ids, b_waiter = f, NEW n, Arrives(n), B!Again(f),
           CommandOf(b_flow[f]) # "upload"
    PROVE  BridgeInv'
<1>1. PICK q : q = b_flow[f]
  OBVIOUS
<1>2. /\ q \in FlowState /\ q.at = "sensor" /\ ~q.matched /\ ~q.reading
      /\ q.kind = "login" => q.step <= 4 /\ q.step >= 1
      /\ ~b_late => /\ LineFits(q, b_line)
                    /\ q.kind = "login" => LoginFits(q, TRUE, b_image, b_buf1, b_buf2, b_line)
  BY <1>1, Reader
<1>3. b_flow' = [b_flow EXCEPT ![f] = q] /\ b_lock' = b_lock /\ b_waiter' = None
  BY <1>1 DEF B!Again, BridgeInv, BridgeTypes
<1>4. b_waiter' # f
  BY <1>3, BridgeConstants
<1>5. FlowFits(q, TRUE, b_waiter' = f)
  BY <1>2, <1>4 DEF FlowFits
<1>6. ASSUME ~b_late
      PROVE  b_line' = <<>> /\ FlowFacts(q, b_waiter' = f, b_image, b_buf1, b_buf2, b_line')
  <2>1. b_line \in Seq(Part \cup AckPacket) /\ n \in 1 .. Len(b_line)
    BY DEF BridgeInv, BridgeTypes, Arrives
  <2>2. b_line' = <<>>
    BY <1>1, <1>2, <1>6, <2>1, Answer DEF Arrives
  <2>3. q.kind = "login" => LoginFits(q, FALSE, b_image, b_buf1, b_buf2, b_line')
    BY <1>2, <1>6 DEF LoginFits
  <2>4. FlowFacts(q, FALSE, b_image, b_buf1, b_buf2, b_line')
    BY <1>2, <2>3 DEF FlowFacts
  <2> QED BY <1>4, <2>2, <2>4
<1> QED BY <1>2, <1>3, <1>5, <1>6, ReaderStays

\* A capture is begun again, or given up: in time, nothing is left on the line.
LEMMA RetryStep ==
    ASSUME BridgeInv, NEW f \in Ids, b_waiter = f, NEW n, Arrives(n), B!Retry(f),
           b_flow[f].kind = "signup", ~b_late => b_line' = <<>>
    PROVE  BridgeInv'
<1>1. PICK q : q = b_flow[f]
  OBVIOUS
<1>2. q \in FlowState /\ q.at = "sensor" /\ ~q.matched /\ q.kind = "signup"
  BY <1>1, Reader
<1>3. CASE q.attempt = MaxAttempts
  BY <1>1, <1>3, ReaderThrows DEF B!Retry
<1>4. CASE q.attempt # MaxAttempts
  <2>1. PICK k \in 1 .. MaxAttempts : k = q.attempt + 1
    <3>1. q.attempt + 1 \in 1 .. MaxAttempts
      BY <1>2, <1>4, BridgeConstants, FlowFields
    <3> QED BY <3>1
  <2>2. PICK r : r = [q EXCEPT !.attempt = k, !.step = 0, !.seen = None, !.reading = FALSE,
                               !.template = <<>>]
    OBVIOUS
  <2>3. b_flow' = [b_flow EXCEPT ![f] = r] /\ b_lock' = b_lock /\ b_waiter' = None
    BY <1>1, <1>4, <2>2, <2>1 DEF B!Retry
  <2>4. 0 \in 0 .. 7 /\ None \in Scopes \cup {None} /\ <<>> \in Seq(Part)
    BY EmptySeq
  <2>5. r \in FlowState
    BY <1>2, <2>2, <2>4 DEF FlowState
  <2>6. r.at = "sensor" /\ r.kind = "signup" /\ ~r.reading /\ r.matched = q.matched
    BY <1>2, <2>2 DEF FlowState
  <2>7. b_waiter' # f
    BY <2>3, BridgeConstants
  <2>8. FlowFits(r, TRUE, b_waiter' = f)
    BY <1>2, <2>6, <2>7 DEF FlowFits
  <2>9. FlowFacts(r, b_waiter' = f, b_image, b_buf1, b_buf2, b_line')
    BY <1>2, <2>6, <2>7 DEF FlowFacts
  <2> QED BY <2>3, <2>5, <2>8, <2>9, ReaderStays
<1> QED BY <1>3, <1>4

\* A refusal of the sensor: a signup may begin again.
LEMMA RefusedStep ==
    ASSUME BridgeInv, NEW f \in Ids, b_waiter = f, NEW n, Arrives(n), B!Refused(f),
           ~b_late => b_line' = <<>>
    PROVE  BridgeInv'
<1>1. CASE b_flow[f].kind = "signup" /\ B!Retry(f)
  BY <1>1, RetryStep
<1>2. CASE B!Throw(f)
  BY <1>2, ReaderThrows
<1> QED BY <1>1, <1>2 DEF B!Refused

\* A packet of an upload is kept, and the last one ends it.
LEMMA UploadStep ==
    ASSUME BridgeInv, NEW f \in Ids, b_waiter = f, NEW n, Arrives(n),
           CommandOf(b_flow[f]) = "upload", B!uploadCharacteristic(f, Head(b_line))
    PROVE  BridgeInv'
<1>1. PICK q, p : q = b_flow[f] /\ p = Head(b_line)
  OBVIOUS
<1>2. /\ q \in FlowState /\ q.at = "sensor" /\ b_lock = f /\ ~q.matched
      /\ q.kind = "login" => q.step <= 4 /\ q.step >= 1
      /\ p \in Part \cup AckPacket
      /\ ~b_late => LineFits(q, b_line)
  BY <1>1, Reader
<1>3. q.kind = "signup"
  BY <1>1, <1>2, CommandKinds, FlowFields
<1>4. ASSUME ~b_late
      PROVE  /\ Numbered(b_line')
             /\ q.reading => p \in Part /\ (~(p.part < Packets) => b_line' = <<>>)
             /\ ~q.reading => p \in AckPacket /\ p.ok
  <2>1. b_line \in Seq(Part \cup AckPacket) /\ n \in 1 .. Len(b_line)
        /\ b_line' = SubSeq(b_line, n + 1, Len(b_line))
    BY DEF BridgeInv, BridgeTypes, Arrives
  <2>2. /\ Numbered(SubSeq(b_line, n + 1, Len(b_line)))
        /\ q.reading => /\ Head(b_line) \in Part
                        /\ ~(Head(b_line).part < Packets)
                           => SubSeq(b_line, n + 1, Len(b_line)) = <<>>
        /\ ~q.reading => Head(b_line) \in AckPacket /\ Head(b_line).ok
    BY <1>1, <1>2, <1>4, <2>1, Answer
  <2> QED BY <1>1, <2>1, <2>2
<1>5. q.reading \in BOOLEAN /\ q.template \in Seq(Part)
  BY <1>2, FlowFields
<1>6. CASE (q.reading <=> "ack" \in DOMAIN p) \/ ("ack" \in DOMAIN p /\ ~p.ok)
  <2>1. b_late
    BY <1>4, <1>5, <1>6, PacketKinds
  <2>2. CASE "ack" \in DOMAIN p /\ q.reading
    <3>1. B!Retry(f)
      BY <1>1, <2>2 DEF B!uploadCharacteristic
    <3> QED BY <1>1, <1>3, <2>1, <3>1, RetryStep
  <2>3. CASE "ack" \in DOMAIN p /\ ~q.reading
    <3>1. B!Refused(f)
      BY <1>1, <1>6, <2>3 DEF B!uploadCharacteristic
    <3> QED BY <2>1, <3>1, RefusedStep
  <2>4. CASE "ack" \notin DOMAIN p
    <3>1. B!Throw(f)
      BY <1>1, <1>6, <2>4 DEF B!uploadCharacteristic
    <3> QED BY <2>1, <3>1, ReaderThrows
  <2> QED BY <2>2, <2>3, <2>4
<1>7. CASE "ack" \in DOMAIN p /\ ~q.reading /\ p.ok
  <2>1. PICK r : r = [q EXCEPT !.reading = TRUE]
    OBVIOUS
  <2>2. b_flow' = [b_flow EXCEPT ![f] = r] /\ b_lock' = b_lock /\ b_waiter' = b_waiter
    BY <1>1, <1>7, <2>1 DEF B!uploadCharacteristic
  <2>3. /\ r.at = "sensor" /\ r.kind = q.kind /\ r.step = q.step /\ r.reading = TRUE
        /\ r.matched = q.matched
    BY <1>2, <2>1 DEF FlowState
  <2>4. r \in FlowState
    BY <1>2, <2>1 DEF FlowState
  <2>5. CommandOf(r) = "upload"
    BY <1>1, <2>3 DEF CommandOf
  <2>6. FlowFits(r, TRUE, b_waiter' = f)
    BY <1>2, <1>3, <2>2, <2>3, <2>5 DEF FlowFits
  <2>7. ASSUME ~b_late
        PROVE  FlowFacts(r, b_waiter' = f, b_image, b_buf1, b_buf2, b_line')
    <3>1. LineFits(r, b_line')
      BY <1>4, <2>3, <2>5, <2>7 DEF LineFits
    <3> QED BY <1>2, <1>3, <2>3, <3>1 DEF FlowFacts
  <2> QED BY <2>2, <2>4, <2>6, <2>7, BridgeConstants, ReaderStays
<1>8. CASE "ack" \notin DOMAIN p /\ q.reading
  <2>1. p \in Part
    BY <1>2, <1>8, PacketKinds
  <2>2. PICK t \in Seq(Part) : t = Append(q.template, p)
    BY <1>5, <2>1, AppendProperties
  <2>3. PICK r : r = [q EXCEPT !.template = t]
    OBVIOUS
  <2>4. /\ r.at = "sensor" /\ r.kind = q.kind /\ r.step = q.step /\ r.reading = q.reading
        /\ r.matched = q.matched
    BY <1>2, <2>3 DEF FlowState
  <2>5. r \in FlowState
    BY <1>2, <2>2, <2>3 DEF FlowState
  <2>6. CommandOf(r) = "upload"
    BY <1>1, <2>4 DEF CommandOf
  <2>7. CASE p.part < Packets
    <3>1. b_flow' = [b_flow EXCEPT ![f] = r] /\ b_lock' = b_lock /\ b_waiter' = b_waiter
      BY <1>1, <1>8, <2>2, <2>3, <2>7 DEF B!uploadCharacteristic
    <3>2. FlowFits(r, TRUE, b_waiter' = f)
      BY <1>2, <1>3, <2>4, <2>6, <3>1 DEF FlowFits
    <3>3. ASSUME ~b_late
          PROVE  FlowFacts(r, b_waiter' = f, b_image, b_buf1, b_buf2, b_line')
      <4>1. LineFits(r, b_line')
        BY <1>4, <1>8, <2>4, <2>6, <3>3 DEF LineFits
      <4> QED BY <1>2, <1>3, <2>4, <4>1 DEF FlowFacts
    <3> QED BY <2>5, <3>1, <3>2, <3>3, BridgeConstants, ReaderStays
  <2>8. CASE ~(p.part < Packets)
    <3>1. PICK d : d = [r EXCEPT !.at = "derived"]
      OBVIOUS
    <3>2. b_flow' = [b_flow EXCEPT ![f] = d] /\ b_lock' = b_lock /\ b_waiter' = None
      BY <1>1, <1>8, <2>2, <2>3, <2>8, <3>1 DEF B!uploadCharacteristic
    <3>3. "derived" \in Places
      BY DEF Places
    <3>4. /\ d \in FlowState /\ d.at = "derived" /\ d.kind = q.kind /\ d.step = q.step
          /\ d.matched = q.matched
      BY <2>4, <2>5, <3>1, <3>3, Moved
    <3>5. b_waiter' # f
      BY <3>2, BridgeConstants
    <3>6. FlowFits(d, TRUE, b_waiter' = f)
      BY <1>2, <1>3, <3>4, <3>5 DEF FlowFits
    <3>7. ASSUME ~b_late
          PROVE  b_line' = <<>> /\ FlowFacts(d, b_waiter' = f, b_image, b_buf1, b_buf2, b_line')
      BY <1>2, <1>4, <1>8, <2>8, <3>4, <3>5, <3>7 DEF FlowFacts
    <3> QED BY <3>2, <3>4, <3>6, <3>7, ReaderStays
  <2> QED BY <2>7, <2>8
<1> QED BY <1>5, <1>6, <1>7, <1>8

\* The sensor says the fingers match: in time, they are the flow's own.
LEMMA MatchStep ==
    ASSUME BridgeInv, NEW f \in Ids, b_waiter = f, NEW n, Arrives(n),
           CommandOf(b_flow[f]) = "match", B!match(f, Head(b_line))
    PROVE  BridgeInv'
<1>1. PICK q, p : q = b_flow[f] /\ p = Head(b_line)
  OBVIOUS
<1>2. /\ q \in FlowState /\ q.at = "sensor" /\ b_lock = f /\ ~q.matched /\ ~q.reading
      /\ q.kind = "login" => q.step <= 4 /\ q.step >= 1
      /\ ~b_late => /\ LineFits(q, b_line)
                    /\ q.kind = "login" => LoginFits(q, TRUE, b_image, b_buf1, b_buf2, b_line)
  BY <1>1, Reader
<1>3. q.kind = "login"
  BY <1>1, <1>2, CommandKinds, FlowFields
<1>4. b_line \in Seq(Part \cup AckPacket) /\ n \in 1 .. Len(b_line)
      /\ b_line' = SubSeq(b_line, n + 1, Len(b_line))
  BY DEF BridgeInv, BridgeTypes, Arrives
<1>5. ~b_late => b_line' = <<>> /\ p = b_line[1]
  BY <1>1, <1>2, <1>4, Answer
<1>6. CASE ~p.ok \/ p.cmd # "match"
  <2>1. B!Throw(f)
    BY <1>1, <1>6 DEF B!match
  <2> QED BY <1>5, <2>1, ReaderThrows
<1>7. CASE ~(~p.ok \/ p.cmd # "match")
  <2>1. PICK r : r = [q EXCEPT !.at = "sync", !.matched = TRUE]
    OBVIOUS
  <2>2. b_flow' = [b_flow EXCEPT ![f] = r] /\ b_lock' = None /\ b_waiter' = None
    BY <1>1, <1>7, <2>1 DEF B!match
  <2>3. /\ r.at = "sync" /\ r.kind = q.kind /\ r.step = q.step /\ r.reading = q.reading
        /\ r.seen = q.seen /\ r.template = q.template
    BY <1>2, <2>1 DEF FlowState
  <2>4. r \in FlowState
    BY <1>2, <2>1 DEF FlowState, Places
  <2>5. ASSUME ~b_late
        PROVE  Own(r)
    <3>1. Own(q)
      BY <1>1, <1>2, <1>3, <1>5, <1>7, <2>5 DEF LoginFits
    <3> QED BY <2>3, <3>1 DEF Own
  <2>6. b_waiter' # f /\ b_waiter' = None
    BY <2>2, BridgeConstants
  <2>7. r.at \notin {"sensor", "derived"} /\ (r.kind = "login" => r.step <= 4) /\ ~r.reading
        /\ r.at \in {"sync", "filing", "record"}
    BY <1>2, <2>3
  <2>8. UNCHANGED <<b_image, b_buf1, b_buf2, b_late, b_saves, b_pending, b_account, b_file>>
    BY DEF Arrives
  <2>9. FlowsFit' /\ (~b_late' => Punctual')
    BY <1>2, <1>5, <2>2, <2>4, <2>5, <2>6, <2>7, <2>8, Leaves
  <2>10. SavesFit'
    BY <1>1, <1>2, <2>2, <2>4, <2>8, SavesKept
  <2>11. b_flow' \in [Ids -> FlowState]
    BY <2>2, <2>4, Changed DEF BridgeInv, BridgeTypes
  <2>12. b_line' \in Seq(Part \cup AckPacket)
    BY <1>4, DropPackets
  <2>13. BridgeTypes'
    BY <2>2, <2>8, <2>11, <2>12 DEF BridgeInv, BridgeTypes
  <2> QED BY <2>9, <2>10, <2>13 DEF BridgeInv
<1> QED BY <1>6, <1>7

\* Whatever the reader does with the packet it gets.
LEMMA HandleStep ==
    ASSUME BridgeInv, NEW f \in Ids, b_waiter = f, NEW n, Arrives(n),
           B!Handle(f, Head(b_line))
    PROVE  BridgeInv'
<1>1. PICK q, c, p : q = b_flow[f] /\ c = CommandOf(q) /\ p = Head(b_line)
  OBVIOUS
<1>2. /\ q \in FlowState /\ (q.kind = "login" => q.step <= 4 /\ q.step >= 1)
      /\ p \in Part \cup AckPacket /\ B!Command(f) = c
      /\ ~b_late => LineFits(q, b_line)
  BY <1>1, Reader
<1>3. CASE c = "upload"
  <2>1. B!uploadCharacteristic(f, Head(b_line))
    BY <1>2, <1>3 DEF B!Handle
  <2> QED BY <1>1, <1>3, <2>1, UploadStep
<1>4. ASSUME ~b_late, c # "upload"
      PROVE  b_line' = <<>> /\ p \in AckPacket
  <2>1. b_line \in Seq(Part \cup AckPacket) /\ n \in 1 .. Len(b_line)
        /\ b_line' = SubSeq(b_line, n + 1, Len(b_line))
    BY DEF BridgeInv, BridgeTypes, Arrives
  <2> QED BY <1>1, <1>2, <1>4, <2>1, Answer
<1>5. CASE c # "upload" /\ "ack" \notin DOMAIN p
  <2>1. B!Throw(f)
    BY <1>1, <1>2, <1>5 DEF B!Handle
  <2>2. b_late
    BY <1>4, <1>5, PacketKinds
  <2> QED BY <2>1, <2>2, ReaderThrows
<1>6. CASE c = "match" /\ "ack" \in DOMAIN p
  <2>1. B!match(f, Head(b_line))
    BY <1>1, <1>2, <1>6 DEF B!Handle
  <2> QED BY <1>1, <1>6, <2>1, MatchStep
<1>7. CASE c = "removal" /\ "ack" \in DOMAIN p
  <2>1. ASSUME q.kind = "login" PROVE FALSE
    <3>1. q.step # 0 /\ CommandOf(q) = "removal"
      BY <1>1, <1>2, <1>7, <2>1, FlowFields
    <3> QED BY <1>2, <2>1, <3>1, CommandKinds
  <2>2. CASE B!NothingSeen(p)
    <3>1. B!Advance(f)
      BY <1>1, <1>2, <1>7, <2>2 DEF B!Handle
    <3> QED BY <1>1, <1>7, <2>1, <3>1, AdvanceStep
  <2>3. CASE ~B!NothingSeen(p)
    <3>1. B!Again(f)
      BY <1>1, <1>2, <1>7, <2>3 DEF B!Handle
    <3> QED BY <1>1, <1>7, <3>1, AgainStep
  <2> QED BY <2>2, <2>3
<1>8. CASE c \notin {"upload", "match", "removal"} /\ "ack" \in DOMAIN p
  <2>1. CASE p.ok
    <3>1. B!Advance(f)
      BY <1>1, <1>2, <1>8, <2>1 DEF B!Handle
    <3> QED BY <1>1, <1>8, <2>1, <3>1, AdvanceStep
  <2>2. CASE ~p.ok /\ c = "finger" /\ B!NothingSeen(p)
    <3>1. B!Again(f)
      BY <1>1, <1>2, <1>8, <2>2 DEF B!Handle
    <3> QED BY <1>1, <1>8, <3>1, AgainStep
  <2>3. CASE ~p.ok /\ ~(c = "finger" /\ B!NothingSeen(p))
    <3>1. B!Refused(f)
      BY <1>1, <1>2, <1>8, <2>3 DEF B!Handle
    <3> QED BY <1>4, <1>8, <3>1, RefusedStep
  <2> QED BY <2>1, <2>2, <2>3
<1> QED BY <1>3, <1>5, <1>6, <1>7, <1>8

\* A chunk arrives, for a reader or for nobody.
LEMMA OnDataStep ==
    ASSUME BridgeInv, NEW n, B!onData(n)
    PROVE  BridgeInv'
<1>1. Arrives(n)
  BY DEF B!onData, Arrives, B!hostVars, B!envVars
<1>2. b_waiter \in Ids \cup {None} /\ b_line \in Seq(Part \cup AckPacket)
  BY DEF BridgeInv, BridgeTypes
<1>3. CASE b_waiter # None
  BY <1>1, <1>2, <1>3, HandleStep DEF B!onData
<1>4. CASE b_waiter = None
  <2>1. UNCHANGED <<b_flow, b_lock, b_waiter>>
    BY <1>4 DEF B!onData
  <2>2. b_late
    <3>1. PICK len \in Nat : len = Len(b_line)
      BY <1>2, LenProperties
    <3>2. b_line # <<>>
      BY <1>1, <3>1, EmptySeq DEF Arrives
    <3> QED BY <1>4, <3>2 DEF BridgeInv, Punctual
  <2>3. b_line' \in Seq(Part \cup AckPacket)
    BY <1>1, <1>2, DropPackets DEF Arrives
  <2>4. BridgeTypes'
    BY <1>1, <2>1, <2>3 DEF BridgeInv, BridgeTypes, Arrives
  <2>5. FlowsFit' /\ SavesFit' /\ b_late'
    BY <1>1, <2>1, <2>2 DEF BridgeInv, FlowsFit, SavesFit, Arrives
  <2> QED BY <2>4, <2>5 DEF BridgeInv
<1> QED BY <1>3, <1>4

-----------------------------------------------------------------------------
(* The terminal: the theorem *)

\* Nothing has happened at first.
LEMMA BridgeInvInit == B!Init => BridgeInv
<1> SUFFICES ASSUME B!Init PROVE BridgeInv
  OBVIOUS
<1>1. B!NoCode \in [by : Ids \cup {None}, left : 0 .. MaxAttempts]
  BY BridgeConstants DEF B!NoCode
<1>2. b_pending \in [B!Kinds -> [by : Ids \cup {None}, left : 0 .. MaxAttempts]]
  BY <1>1 DEF B!Init, B!NoCode
<1>3. /\ b_flow = [f \in Ids |-> B!Idle] /\ b_lock = None /\ b_waiter = None
      /\ b_image = None /\ b_buf1 = <<>> /\ b_buf2 = <<>> /\ b_line = <<>>
      /\ b_file = b_account /\ b_saves = {} /\ b_late = FALSE
  BY DEF B!Init
<1>4. b_account \in Account \cup {None}
  <2>1. CASE b_account = None
    BY <2>1
  <2>2. CASE b_account # None
    <3>1. PICK x \in Scopes : b_account = [template |-> B!Template(x), user |-> FALSE]
      BY <2>2 DEF B!Init
    <3>2. B!Template(x) \in Seq(Part)
      BY TemplateParts
    <3> QED BY <3>1, <3>2 DEF Account
  <2> QED BY <2>1, <2>2
<1>5. <<>> \in Seq(Part) /\ <<>> \in Seq(Part \cup AckPacket)
  BY EmptySeq
<1>6. b_flow \in [Ids -> FlowState]
  BY <1>3, IdleState
<1>7. BridgeTypes
  BY <1>2, <1>3, <1>4, <1>5, <1>6 DEF BridgeTypes
<1>8. \A f \in Ids : b_flow[f] = B!Idle /\ b_waiter # f
  BY <1>3, BridgeConstants
<1>9. \A f \in Ids : FlowFits(B!Idle, b_lock = f, FALSE)
  BY IdleState DEF FlowFits
<1>10. FlowFacts(B!Idle, FALSE, b_image, b_buf1, b_buf2, b_line)
  BY IdleState DEF FlowFacts
<1>11. FlowsFit /\ Punctual /\ SavesFit
  BY <1>3, <1>8, <1>9, <1>10 DEF FlowsFit, Punctual, SavesFit
<1> QED BY <1>7, <1>11 DEF BridgeInv

\* No step of the terminal breaks it.
LEMMA BridgeInvStep == BridgeInv /\ (B!Next \/ UNCHANGED b_vars) => BridgeInv'
<1> SUFFICES ASSUME BridgeInv, B!Next \/ UNCHANGED b_vars PROVE BridgeInv'
  OBVIOUS
<1>1. ASSUME NEW f \in Ids, NEW k \in B!Kinds, B!RequestOtp(f, k) PROVE BridgeInv'
  BY <1>1, RequestOtpStep
<1>2. ASSUME NEW f \in Ids, B!VerifyOtp(f) \/ B!Lapse(f) \/ B!TakeToken(f) \/ B!withSensorLock(f)
      PROVE BridgeInv'
  BY <1>2, VerifyOtpStep, LapseStep, TakeTokenStep, LockStep
<1>3. ASSUME NEW f \in Ids, B!cmd(f) \/ B!NoAccount(f) \/ B!Timeout(f) \/ B!NoFinger(f)
      PROVE BridgeInv'
  BY <1>3, CmdStep, FailSteps, TimeoutStep
<1>4. ASSUME NEW f \in Ids, B!enroll(f) \/ B!ProofFails(f) \/ B!simEnroll(f) \/ B!simAuthenticate(f)
      PROVE BridgeInv'
  BY <1>4, EnrollSteps, FailSteps, SimAuthenticateStep
<1>5. ASSUME NEW f \in Ids, B!registerUser(f) \/ B!Finish(f) PROVE BridgeInv'
  BY <1>5, RegisterUserStep, FinishStep
<1>6. ASSUME NEW n, B!onData(n) PROVE BridgeInv'
  BY <1>6, OnDataStep
<1>7. ASSUME NEW s \in b_saves, B!SaveLands(s) \/ B!SaveFails(s) PROVE BridgeInv'
  BY <1>7, SaveLandsStep, SaveFailsStep
<1>8. ASSUME B!reset \/ B!Restart PROVE BridgeInv'
  BY <1>8, ResetStep, RestartStep
<1>9. ASSUME UNCHANGED b_vars PROVE BridgeInv'
  <2>1. BridgeTypes' /\ FlowsFit' /\ SavesFit'
    BY <1>9 DEF BridgeInv, BridgeTypes, FlowsFit, SavesFit, b_vars
  <2>2. ~b_late' => Punctual'
    BY <1>9 DEF BridgeInv, Punctual, b_vars
  <2> QED BY <2>1, <2>2 DEF BridgeInv
<1> QED BY <1>1, <1>2, <1>3, <1>4, <1>5, <1>6, <1>7, <1>8, <1>9 DEF B!Next

\* While the terminal runs.
SensorInv == focus = "bridge" => BridgeInv

\* The sensor serves one flow at a time, and as long as no acknowledgement was late each
\* flow reads the answers to its own commands and finds its own finger in the buffers
\* (iot/src/sensor.ts, bridge.ts withSensorLock): the inductive invariant.
THEOREM SensorSound == Spec => []SensorInv
<1>1. Init => SensorInv
  BY BridgeInvInit DEF Init, SensorInv
<1>2. SensorInv /\ [Next]_vars => SensorInv'
  BY FocusKept, BridgeSteps, BridgeInvStep DEF SensorInv
<1> QED BY <1>1, <1>2, PTL DEF Spec

\* A login at the terminal matches only if the finger it saw is the account's, for any
\* number of flows, fingers and packets (iot/src/bridge.ts).
THEOREM MatchOwnFinger == Spec => []MatchIsOwnFinger
<1>1. SensorInv => MatchIsOwnFinger
  BY DEF SensorInv, MatchIsOwnFinger, B!MatchIsOwnFinger, BridgeInv, Punctual, FlowFacts, Own
<1> QED BY <1>1, SensorSound, PTL

\* The terminal's invariant contains its types.
LEMMA TerminalTyped == BridgeInv => B!TypeOK
<1> SUFFICES ASSUME BridgeInv PROVE B!TypeOK
  OBVIOUS
<1>1. \A f \in Ids : b_flow[f] \in FlowState
  BY DEF BridgeInv, BridgeTypes
<1>2. \A k \in B!Kinds : b_pending[k] \in [by : Ids \cup {None}, left : 0 .. MaxAttempts]
  BY DEF BridgeInv, BridgeTypes
<1> QED BY <1>1, <1>2 DEF BridgeInv, BridgeTypes, FlowState, B!TypeOK
=============================================================================
