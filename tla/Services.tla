-------------------------------- MODULE Services --------------------------------
(***************************************************************************)
(* The verification service, the chain gateway, the anchor job with the    *)
(* compliance pack, the live streams and the fingerprint terminal.  They   *)
(* share no state: each behaviour runs the one that focus names, and the   *)
(* variables of the others are Off throughout; likewise the components of  *)
(* Console.                                                                *)
(***************************************************************************)
EXTENDS Console, Sequences

CONSTANTS
    MaxBoots,                                                   \* ProofCheck
    MaxRetries, MaxRevokes,                                     \* ChainRegistry
    ChainLimits, MaxDay, MaxRows, MaxOpen,                      \* AuditAnchor
    RingSize, TailSize, PageSize, MaxLines, MaxConnects,        \* LiveStreams
    Packets, MaxAttempts, MaxRequests, MaxMishaps               \* IotBridge

ASSUME ServicesConstants ==
    /\ ChainLimits \subseteq Nat \ {0}
    /\ MaxDay \in Nat \ {0} /\ MaxRows \in Nat \ {0} /\ MaxOpen \in Nat
    /\ MaxRetries \in Nat \ {0}
    /\ Default \in Values
    /\ None \notin Ids /\ None \notin Nat /\ None \notin Times
    /\ IsFiniteSet(Requests) /\ IsFiniteSet(Ids) /\ Ids # {}
    /\ WebhookCap \in Nat \ {0}
    /\ Quota \in Nat /\ WindowMax \in Nat /\ MaxTurns \in Nat /\ MaxCalls \in Nat
    /\ RingSize \in Nat \ {0} /\ PageSize \in Nat \ {0} /\ TailSize \in Nat
    /\ MaxLines \in Nat /\ MaxConnects \in Nat
    /\ Packets \in Nat /\ MaxAttempts \in Nat \ {0} /\ "reset" \notin Ids
    /\ KeyCap \in Nat \ {0} /\ MaxKeys \in Nat /\ None \notin U!KeyRows

VARIABLES
    p_config, p_keyFile, p_key, p_log, p_memory, p_req, p_boots,
    c_identities, c_identityCount, c_mempool, c_call, c_revoked,
    a_today, a_chain, a_open, a_job, a_staged, a_anchors, a_recorded, a_pack,
    s_slots, s_head, s_count, s_pushed, s_logs, s_lines, s_pen, s_paused, s_rows, s_feed,
    s_events, s_counters,
    b_pending, b_flow, b_lock, b_image, b_buf1, b_buf2, b_line, b_waiter, b_account, b_file,
    b_saves, b_blemished, b_late, b_sim, b_requests, b_mishaps

P == INSTANCE ProofCheck WITH
        config <- p_config, keyFile <- p_keyFile, key <- p_key, log <- p_log,
        memory <- p_memory, req <- p_req, boots <- p_boots
C == INSTANCE ChainRegistry WITH
        Hashes <- Requests, Calls <- Ids,
        identities <- c_identities, identityCount <- c_identityCount,
        mempool <- c_mempool, call <- c_call, revoked <- c_revoked
A == INSTANCE AuditAnchor WITH
        Jobs <- Requests,
        today <- a_today, chain <- a_chain, open <- a_open, job <- a_job,
        staged <- a_staged, anchors <- a_anchors, recorded <- a_recorded, pack <- a_pack
S == INSTANCE LiveStreams WITH
        slots <- s_slots, head <- s_head, count <- s_count, pushed <- s_pushed,
        logs <- s_logs, lines <- s_lines, pen <- s_pen, paused <- s_paused, rows <- s_rows,
        feed <- s_feed, events <- s_events, counters <- s_counters
B == INSTANCE IotBridge WITH
        Flows <- Ids, Fingers <- Scopes,
        pending <- b_pending, flow <- b_flow, lock <- b_lock, image <- b_image,
        buf1 <- b_buf1, buf2 <- b_buf2, line <- b_line, waiter <- b_waiter,
        account <- b_account, file <- b_file, saves <- b_saves, blemished <- b_blemished,
        late <- b_late, sim <- b_sim, requests <- b_requests, mishaps <- b_mishaps

p_vars == <<p_config, p_keyFile, p_key, p_log, p_memory, p_req, p_boots>>
c_vars == <<c_identities, c_identityCount, c_mempool, c_call, c_revoked>>
a_vars == <<a_today, a_chain, a_open, a_job, a_staged, a_anchors, a_recorded, a_pack>>
s_vars == <<s_slots, s_head, s_count, s_pushed, s_logs, s_lines, s_pen, s_paused, s_rows,
            s_feed, s_events, s_counters>>
b_vars == <<b_pending, b_flow, b_lock, b_image, b_buf1, b_buf2, b_line, b_waiter,
            b_account, b_file, b_saves, b_blemished, b_late, b_sim, b_requests,
            b_mishaps>>

p_off ==
    /\ p_config = Off /\ p_keyFile = Off /\ p_key = Off /\ p_log = Off /\ p_memory = Off
    /\ p_req = Off /\ p_boots = Off
c_off ==
    /\ c_identities = Off /\ c_identityCount = Off /\ c_mempool = Off /\ c_call = Off
    /\ c_revoked = Off
a_off ==
    /\ a_today = Off /\ a_chain = Off /\ a_open = Off /\ a_job = Off /\ a_staged = Off
    /\ a_anchors = Off /\ a_recorded = Off /\ a_pack = Off
s_off ==
    /\ s_slots = Off /\ s_head = Off /\ s_count = Off /\ s_pushed = Off /\ s_logs = Off
    /\ s_lines = Off /\ s_pen = Off /\ s_paused = Off /\ s_rows = Off /\ s_feed = Off
    /\ s_events = Off /\ s_counters = Off
b_off ==
    /\ b_pending = Off /\ b_flow = Off /\ b_lock = Off /\ b_image = Off /\ b_buf1 = Off
    /\ b_buf2 = Off /\ b_line = Off /\ b_waiter = Off /\ b_account = Off /\ b_file = Off
    /\ b_saves = Off /\ b_blemished = Off /\ b_late = Off /\ b_sim = Off
    /\ b_requests = Off /\ b_mishaps = Off

Init ==
    /\ focus \in Parts
    /\ ConsoleInit
    /\ IF focus = "proof" THEN P!Init ELSE p_off
    /\ IF focus = "chain" THEN C!Init ELSE c_off
    /\ IF focus = "anchor" THEN A!Init ELSE a_off
    /\ IF focus \in {"logs", "feed"} THEN S!Init ELSE s_off
    /\ IF focus = "bridge" THEN B!Init ELSE b_off

Next ==
    \/ ConsoleNext /\ UNCHANGED <<p_vars, c_vars, a_vars, s_vars, b_vars>>
    \/ focus = "proof" /\ P!Next /\ UNCHANGED <<focus, consoleVars, c_vars, a_vars, s_vars, b_vars>>
    \/ focus = "chain" /\ C!Next /\ UNCHANGED <<focus, consoleVars, p_vars, a_vars, s_vars, b_vars>>
    \/ focus = "anchor" /\ A!Next /\ UNCHANGED <<focus, consoleVars, p_vars, c_vars, s_vars, b_vars>>
    \/ focus = "logs" /\ S!NextLogs /\ UNCHANGED <<focus, consoleVars, p_vars, c_vars, a_vars, b_vars>>
    \/ focus = "feed" /\ S!NextFeed /\ UNCHANGED <<focus, consoleVars, p_vars, c_vars, a_vars, b_vars>>
    \/ focus = "bridge" /\ B!Next /\ UNCHANGED <<focus, consoleVars, p_vars, c_vars, a_vars, s_vars>>

vars == <<focus, consoleVars, p_vars, c_vars, a_vars, s_vars, b_vars>>

Spec == Init /\ [][Next]_vars

-----------------------------------------------------------------------------
(* Properties: those of the modules, of the component that runs *)

\* Every component keeps to its types.
TypesOK ==
    /\ ConsoleTypesOK
    /\ focus = "proof" => P!TypeOK
    /\ focus = "chain" => C!TypeOK
    /\ focus = "anchor" => A!TypeOK
    /\ focus \in {"logs", "feed"} => S!TypeOK
    /\ focus = "bridge" => B!TypeOK

\* What the API accepts on the verifier's word is in its log (ProofCheck).
AcceptedIsLogged == focus = "proof" => P!AcceptedIsLogged

\* The verifier's log replays after any restarts and failures (ProofCheck).
LogReplays == focus = "proof" => P!LogReplays

\* A receipt that was answered is on the chain (ChainRegistry).
ReceiptIsOnChain == focus = "chain" => C!ReceiptIsOnChain

\* A replay up to an anchor's terminal row finds the anchor's count (AuditAnchor).
AnchorReplays == focus = "anchor" => A!AnchorReplays

\* A compliance pack's replay reaches the head it prints, or its limit (AuditAnchor).
PackReplaysItsHead == focus = "anchor" => A!PackReplaysItsHead

\* The live pages show runs without holes, the newest rows (LiveStreams).
PagesInOrder == focus \in {"logs", "feed"} => S!PagesInOrder

\* A login at the terminal matches its own finger (IotBridge).
MatchIsOwnFinger == focus = "bridge" => B!MatchIsOwnFinger

\* What the terminal has in memory gets into its file (IotBridge).
AccountsAreSaved == focus = "bridge" => B!AccountsAreSaved

\* A template the terminal keeps is whole, says the driver's comment (IotBridge).
UploadIsWhole == focus = "bridge" => B!UploadIsWhole
=============================================================================
