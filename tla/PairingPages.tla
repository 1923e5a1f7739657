----------------------------- MODULE PairingPages -----------------------------
(***************************************************************************)
(* The pages of the dashboard that show a pairing session's QR and wait on *)
(* its stream: the proof login, where a proof can also be submitted, and   *)
(* the kiosk, which opens a new session when one expires                   *)
(* (dashboard/src/routes/demo/QrProofLogin.tsx, routes/kiosk/*,            *)
(* lib/api.ts).                                                            *)
(*                                                                         *)
(* Data: the pairing session itself is ProofPairing.tla; here it is        *)
(* issued, then bound or over. A token is the session it was given for.    *)
(***************************************************************************)
EXTENDS Integers, FiniteSets

CONSTANTS
    Sessions,   \* pairing sessions
    None

Pages == {"login", "kiosk"}

VARIABLES
    row,        \* proof_pairing_sessions
    creating,   \* POST sessions under way, by page
    page,       \* the phase of each page
    stream,     \* the EventSource of each page
    submit,     \* login: the submission under way
    token       \* login: the access token it keeps

vars == <<row, creating, page, stream, submit, token>>

Idle == [at |-> "idle"]

Init ==
    /\ row = [s \in Sessions |-> "none"]
    /\ creating = [p \in Pages |-> 1]
    /\ page = [p \in Pages |-> [phase |-> "creating", session |-> None]]
    /\ stream = [p \in Pages |-> "none"]
    /\ submit = Idle /\ token = None

-----------------------------------------------------------------------------
(* Reducers *)

\* "pending" and "awaiting_proof" hold a session, and its stream while they do.
Holds(phase) == phase \in {"pending", "awaiting_proof"}

Dispatch(p, phase, s) ==
    /\ page' = [page EXCEPT ![p] = [phase |-> phase, session |-> s]]
    /\ stream' = [stream EXCEPT ![p] = CASE ~Holds(phase) -> "none"
                                         [] Holds(phase) /\ page[p].session = s -> @
                                         [] OTHER -> "connecting"]

WaitsFor(p, s) == Holds(page[p].phase) /\ page[p].session = s

\* An idle page creates at once: "idle" is "creating" with one more request.
Recreate(p) ==
    /\ creating[p] < Cardinality({s \in Sessions : row[s] = "none"})
    /\ creating' = [creating EXCEPT ![p] = @ + 1]
    /\ Dispatch(p, "creating", None)

Created(p, s) ==
    /\ creating[p] > 0 /\ creating' = [creating EXCEPT ![p] = @ - 1]
    /\ row[s] = "none" /\ row' = [row EXCEPT ![s] = "issued"]
    /\ Dispatch(p, "pending", s) \/ Dispatch(p, "error", None)
    /\ UNCHANGED <<submit, token>>

CreateFails(p) ==
    /\ creating[p] > 0 /\ creating' = [creating EXCEPT ![p] = @ - 1]
    /\ Dispatch(p, "error", None)
    /\ UNCHANGED <<row, submit, token>>

\* The error card, and the login page's cancel.
Restart(p) ==
    /\ page[p].phase \in {"expired", "error", "awaiting_proof"} /\ Recreate(p)
    /\ UNCHANGED <<row, submit, token>>

PhoneScanned ==
    /\ page["login"].phase = "pending"
    /\ Dispatch("login", "awaiting_proof", page["login"].session)
    /\ UNCHANGED <<row, creating, submit, token>>

-----------------------------------------------------------------------------
(* Streams *)

StreamOpens(p) ==
    /\ stream[p] = "connecting" /\ stream' = [stream EXCEPT ![p] = "open"]
    /\ UNCHANGED <<row, creating, page, submit, token>>

\* EventSource comes back by itself after a lost connection.
StreamDrops(p) ==
    /\ stream[p] = "open" /\ stream' = [stream EXCEPT ![p] = "connecting"]
    /\ UNCHANGED <<row, creating, page, submit, token>>

KeepWaiting(p) ==
    /\ stream[p] = "connecting" /\ stream' = [stream EXCEPT ![p] = "closed"]
    /\ UNCHANGED <<row, creating, page, submit, token>>

\* A refusal closes it for good: both pages turn that into their error card.
StreamRefused(p) ==
    /\ stream[p] = "connecting" /\ Dispatch(p, "error", None)
    /\ UNCHANGED <<row, creating, submit, token>>

SessionBound(p, s) ==
    /\ WaitsFor(p, s) /\ stream[p] = "open" /\ row[s] = "consumed"
    /\ Dispatch(p, "success", s)
    /\ token' = IF p = "login" THEN s ELSE token
    /\ UNCHANGED <<row, creating, submit>>

\* The kiosk rotates in silence.
SessionExpired(p, s) ==
    /\ WaitsFor(p, s) /\ stream[p] = "open" /\ row[s] = "over"
    /\ \/ p = "login" /\ Dispatch(p, "expired", None) /\ UNCHANGED creating
       \/ p = "kiosk" /\ Recreate(p)
       \/ Dispatch(p, "error", None) /\ UNCHANGED creating          \* session_error
    /\ UNCHANGED <<row, submit, token>>

-----------------------------------------------------------------------------
(* Submission from the login page *)

submitProofPayload ==
    /\ page["login"].phase = "awaiting_proof" /\ submit = Idle
    /\ submit' = [at |-> "sent", session |-> page["login"].session]
    /\ UNCHANGED <<row, creating, page, stream, token>>

\* Bound, or refused for any reason, by somebody else's binding too.
SubmitVerdict ==
    /\ submit.at = "sent"
    /\ \/ /\ row[submit.session] = "issued"
          /\ row' = [row EXCEPT ![submit.session] = "consumed"]
          /\ submit' = [submit EXCEPT !.at = "bound"]
       \/ submit' = [submit EXCEPT !.at = "refused"] /\ UNCHANGED row
    /\ UNCHANGED <<creating, page, stream, token>>

\* The reducer takes sse_bound in every phase, also after Start over.
SubmitOk ==
    /\ submit.at = "bound" /\ token' = submit.session
    /\ Dispatch("login", "success", submit.session)
    /\ submit' = Idle
    /\ UNCHANGED <<row, creating>>

\* Refused, or the answer is lost: the page goes on waiting.
SubmitFails ==
    /\ submit.at \in {"bound", "refused"} /\ submit' = Idle
    /\ UNCHANGED <<row, creating, page, stream, token>>

-----------------------------------------------------------------------------
(* The session ends elsewhere *)

PhoneProves(s) ==
    /\ row[s] = "issued" /\ row' = [row EXCEPT ![s] = "consumed"]
    /\ UNCHANGED <<creating, page, stream, submit, token>>

Ends(s) ==
    /\ row[s] = "issued" /\ row' = [row EXCEPT ![s] = "over"]
    /\ UNCHANGED <<creating, page, stream, submit, token>>

Next ==
    \/ \E p \in Pages :
          \/ CreateFails(p) \/ Restart(p) \/ StreamOpens(p) \/ StreamDrops(p) \/ StreamRefused(p)
          \/ \E s \in Sessions : Created(p, s) \/ SessionBound(p, s) \/ SessionExpired(p, s)
    \/ PhoneScanned \/ submitProofPayload \/ SubmitVerdict \/ SubmitOk \/ SubmitFails
    \/ \E s \in Sessions : PhoneProves(s) \/ Ends(s)

-----------------------------------------------------------------------------
(* Properties *)

TypeOK ==
    /\ row \in [Sessions -> {"none", "issued", "consumed", "over"}]
    /\ creating \in [Pages -> 0..Cardinality(Sessions)]
    /\ \A p \in Pages :
          /\ page[p].phase \in {"creating", "pending", "awaiting_proof", "success", "expired", "error"}
          /\ stream[p] \in {"none", "connecting", "open", "closed"}
    /\ submit.at \in {"idle", "sent", "bound", "refused"} /\ token \in Sessions \cup {None}

\* A page says "signed in", and keeps a token, of a session that a proof bound;
\* and a page that waits has a stream that can still tell it.
PagesWatch ==
    /\ token # None => row[token] = "consumed"
    /\ \A p \in Pages :
          /\ page[p].phase = "success" => row[page[p].session] = "consumed"
          /\ Holds(page[p].phase) <=> stream[p] \in {"connecting", "open"}
=============================================================================
