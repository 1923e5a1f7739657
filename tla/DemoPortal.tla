------------------------------ MODULE DemoPortal ------------------------------
(***************************************************************************)
(* Signing in to the demo bank: a desktop page opens a pairing session, the*)
(* phone proves to the server or the desktop submits the proof's QR, and   *)
(* the desktop's cookie comes with the stream's headers, with a claim, or  *)
(* with the submission (src/routes/demo-portal.ts, demo-portal/src/routes/ *)
(* SignIn.tsx, demo-portal/src/lib/session.ts).                            *)
(*                                                                         *)
(* Two tokens of each session live in the memory of the process: the bind  *)
(* token, spent by the first submission whatever becomes of it, and the    *)
(* claim token, spent by the first claim whatever becomes of it.           *)
(*                                                                         *)
(* Data: a cookie is the session it was minted for; "late" is an issued row*)
(* past its expires_at, which nothing marks; a proof's QR is the session it*)
(* was made for.                                                           *)
(***************************************************************************)
EXTENDS Integers, FiniteSets

CONSTANTS
    Sessions,   \* pairing sessions, in the order they may be opened
    Claims,     \* claim requests under way, the page's and others
    None

VARIABLES
    row,        \* proof_pairing_sessions
    bind,       \* sessionBindTokenCache
    claimTok,   \* desktopClaimTokenCache
    audited,    \* sessions with a pairing.desktop_claimed event
    claim,      \* claim handlers, from request to answer
    submit,     \* the submission of each side
    claimCookie,\* desktop: demo_portal_claim
    cookie,     \* desktop: demo_portal_session
    creating,   \* desktop: init-login requests under way
    page,       \* desktop: the sign-in page
    stream,     \* desktop: the page's EventSource
    asking,     \* dashboard: the cookie of a /me request under way
    user,       \* dashboard: whose session is shown
    ends        \* history: claims granted, per session

vars == <<row, bind, claimTok, audited, claim, submit, claimCookie, cookie, creating, page,
          stream, asking, user, ends>>
server == <<row, bind, claimTok, audited, ends>>
signIn == <<creating, page, stream>>
dashboard == <<asking, user>>
jar == <<claimCookie, cookie>>

Idle == [at |-> "idle"]
Sides == {"desktop", "phone"}

Init ==
    /\ row = [s \in Sessions |-> "none"] /\ bind = {} /\ claimTok = {} /\ audited = {}
    /\ claim = [k \in Claims |-> Idle] /\ submit = [d \in Sides |-> Idle]
    /\ claimCookie = None /\ cookie = None
    /\ creating = 1 /\ page = [phase |-> "creating", session |-> None] /\ stream = "none"
    /\ asking = None /\ user = None /\ ends = [s \in Sessions |-> 0]

-----------------------------------------------------------------------------
(* The page *)

\* The reducer takes every result, whatever it shows: the stream lives only as
\* long as the page waits for its session.
Show(phase, s) ==
    /\ page' = [phase |-> phase, session |-> s]
    /\ stream' = IF phase = "pending" THEN "connecting" ELSE "none"

PageWaitsFor(s) == page = [phase |-> "pending", session |-> s]

\* Its answer sets the claim cookie, whichever session it belonged to.
InitLogin(s) ==
    /\ creating > 0 /\ row[s] = "none"
    /\ row' = [row EXCEPT ![s] = "issued"] /\ bind' = bind \cup {s}
    /\ claimTok' = claimTok \cup {s} /\ claimCookie' = s /\ creating' = creating - 1
    /\ \/ Show("pending", s)
       \/ Show("error", None)
    /\ UNCHANGED <<audited, claim, submit, cookie, ends, dashboard>>

\* Refused, failed, or not arrived.
InitLoginFails ==
    /\ creating > 0 /\ creating' = creating - 1 /\ Show("error", None)
    /\ UNCHANGED <<server, claim, submit, jar, dashboard>>

\* The button; the effect on "idle" opens the next session.
StartOver ==
    /\ page.phase \in {"expired", "error"} /\ Show("creating", None)
    /\ creating < Cardinality({s \in Sessions : row[s] = "none"})
    /\ creating' = creating + 1
    /\ UNCHANGED <<server, claim, submit, jar, dashboard>>

-----------------------------------------------------------------------------
(* The stream *)

SendClaim(k, s, token, from) ==
    /\ claim[k] = Idle
    /\ claim' = [claim EXCEPT ![k] =
                    [at |-> "sent", session |-> s, token |-> token, from |-> from]]

\* Phase 1: the headers carry the cookie, if the row is bound by now, whoever opened the
\* stream: neither claim cookie nor audit row is asked for.  The stream then ends, and the
\* EventSource comes back for more while the page still waits.
Phase1Bound(s, k) ==
    /\ PageWaitsFor(s) /\ stream = "connecting" /\ row[s] = "consumed"
    /\ cookie' = s
    /\ SendClaim(k, s, claimCookie, "page")
    /\ UNCHANGED <<server, submit, claimCookie, signIn, dashboard>>

Phase1Waits(s) ==
    /\ PageWaitsFor(s) /\ stream = "connecting" /\ row[s] \in {"issued", "late"}
    /\ stream' = "waiting"
    /\ UNCHANGED <<server, claim, submit, jar, creating, page, dashboard>>

\* Phase 2: too late for a cookie. The page claims one.
Phase2Bound(s, k) ==
    /\ PageWaitsFor(s) /\ stream = "waiting" /\ row[s] = "consumed"
    /\ SendClaim(k, s, claimCookie, "page")
    /\ stream' = "connecting"
    /\ UNCHANGED <<server, submit, jar, creating, page, dashboard>>

\* A poll of phase 2 reads the row before it looks at the time.
StreamExpires(s) ==
    /\ PageWaitsFor(s) /\ stream = "waiting" /\ row[s] = "late"
    /\ Show("expired", s)
    /\ UNCHANGED <<server, claim, submit, jar, creating, dashboard>>

\* The connection is lost, or the answer is not a stream, which ends the retries.
StreamDrops ==
    /\ \/ stream = "waiting" /\ stream' = "connecting"
       \/ stream = "connecting" /\ stream' = "closed"
    /\ UNCHANGED <<server, claim, submit, jar, creating, page, dashboard>>

-----------------------------------------------------------------------------
(* POST claim *)

\* Another tab of the desktop, at any time and whatever became of the session; one at a
\* time.  A browser without the claim cookie is refused like one whose cookie is gone.
ClaimElsewhere(s, k) ==
    /\ row[s] # "none" /\ \A j \in Claims : claim[j] # Idle => claim[j].from = "page"
    /\ SendClaim(k, s, claimCookie, "elsewhere")
    /\ UNCHANGED <<server, submit, jar, signIn, dashboard>>

ReadyUnread(s) == TRUE

\* The row is looked at first: a claim of a session that is not bound spends nothing.
Ready(s) == row[s] = "consumed"

\* verifyAndConsumeClaimToken: the cookie is this session's, and its token is there.
Claimable(c) == c.token = c.session /\ c.session \in claimTok

ClaimForgetsToken(k) ==
    /\ claim[k].at = "sent"
    /\ LET granted == Ready(claim[k].session) /\ Claimable(claim[k])
       IN claim' = [claim EXCEPT ![k] = [@ EXCEPT !.at = IF granted THEN "audit" ELSE "refused"]]
    /\ UNCHANGED <<server, submit, jar, signIn, dashboard>>

ClaimChecks(k) ==
    /\ claim[k].at = "sent"
    /\ IF Ready(claim[k].session) /\ Claimable(claim[k])
         THEN /\ claimTok' = claimTok \ {claim[k].session}
              /\ claim' = [claim EXCEPT ![k] = [@ EXCEPT !.at = "audit"]]
         ELSE /\ claim' = [claim EXCEPT ![k] = [@ EXCEPT !.at = "refused"]] /\ UNCHANGED claimTok
    /\ UNCHANGED <<row, bind, audited, ends, submit, jar, signIn, dashboard>>

\* recordAuditEvent is awaited.
ClaimAudits(k) ==
    /\ claim[k].at = "audit"
    /\ audited' = audited \cup {claim[k].session}
    /\ ends' = [ends EXCEPT ![claim[k].session] = @ + 1]
    /\ claim' = [claim EXCEPT ![k] = [@ EXCEPT !.at = "minted"]]
    /\ UNCHANGED <<row, bind, claimTok, submit, jar, signIn, dashboard>>

ClaimAnswered(k) ==
    /\ claim[k].at = "minted" /\ cookie' = claim[k].session
    /\ IF claim[k].from = "page" THEN Show("success", claim[k].session)
                                 ELSE UNCHANGED <<page, stream>>
    /\ claim' = [claim EXCEPT ![k] = Idle]
    /\ UNCHANGED <<server, submit, claimCookie, creating, dashboard>>

\* 409, 500, or no answer: the token is gone all the same.
ClaimFails(k) ==
    /\ claim[k] # Idle /\ claim' = [claim EXCEPT ![k] = Idle]
    /\ IF claim[k].from = "page" THEN Show("error", claim[k].session)
                                 ELSE UNCHANGED <<page, stream>>
    /\ UNCHANGED <<server, submit, jar, creating, dashboard>>

-----------------------------------------------------------------------------
(* POST submit-proof *)

\* decodeProofQr: a proof for another session is a 400 that spends nothing.
Decoded(s) == s

\* The phone scanned the page's QR; the page is given the phone's.  submitProof loads
\* the row and refuses one that is past its deadline, here and nowhere else.
Submit(side, s) ==
    /\ submit[side] = Idle /\ row[s] # "none"
    /\ side = "desktop" => PageWaitsFor(s)
    /\ Decoded(s) \in bind                                \* consumeBindToken, or 410
    /\ bind' = bind \ {s}
    /\ IF row[s] = "issued"
         THEN submit' = [submit EXCEPT ![side] = [at |-> "proving", session |-> s]]
         ELSE UNCHANGED submit
    /\ UNCHANGED <<row, claimTok, audited, ends, claim, jar, signIn, dashboard>>

\* Its verdict and consuming UPDATE, which asks for the row's state and not for its
\* deadline; a refusal or an error leaves the row for nobody to bind.
SubmitVerdict(side) ==
    /\ submit[side].at = "proving"
    /\ LET s == submit[side].session IN
         \/ /\ row[s] \in {"issued", "late"} /\ row' = [row EXCEPT ![s] = "consumed"]
            /\ submit' = [submit EXCEPT ![side] = [@ EXCEPT !.at = "bound"]]
         \/ /\ submit' = [submit EXCEPT ![side] = Idle] /\ UNCHANGED row
    /\ UNCHANGED <<bind, claimTok, audited, ends, claim, jar, signIn, dashboard>>

\* The phone's answer carries the phone's cookie; the desktop's, if it arrives,
\* signs the desktop in.
SubmitAnswered(side) ==
    /\ submit[side].at = "bound"
    /\ \/ side = "desktop" /\ cookie' = submit[side].session
          /\ Show("success", submit[side].session)
       \/ UNCHANGED <<cookie, page, stream>>
    /\ submit' = [submit EXCEPT ![side] = Idle]
    /\ UNCHANGED <<server, claim, claimCookie, creating, dashboard>>

-----------------------------------------------------------------------------
(* Time and restarts *)

RowExpires(s) ==
    /\ row[s] = "issued" /\ row' = [row EXCEPT ![s] = "late"]
    /\ UNCHANGED <<bind, claimTok, audited, ends, claim, submit, jar, signIn, dashboard>>

\* The bind token lives five minutes and the claim token, with its cookie, six.
TokensExpire(s) ==
    /\ row[s] \in {"late", "consumed"} /\ s \in bind \cup claimTok
    /\ bind' = bind \ {s} /\ claimTok' \in {claimTok, claimTok \ {s}}
    /\ claimCookie' = IF claimCookie = s /\ s \notin claimTok' THEN None ELSE claimCookie
    /\ UNCHANGED <<row, audited, ends, claim, submit, cookie, signIn, dashboard>>

\* Handlers that have not answered answer no more.
Restart ==
    /\ bind \cup claimTok # {}
    /\ bind' = {} /\ claimTok' = {}
    /\ stream' = IF stream = "waiting" THEN "connecting" ELSE stream
    /\ claim' = [k \in Claims |-> IF claim[k].at \in {"sent", "audit"}
                                    THEN [claim[k] EXCEPT !.at = "refused"] ELSE claim[k]]
    /\ submit' = [d \in Sides |-> IF submit[d].at = "proving" THEN Idle ELSE submit[d]]
    /\ UNCHANGED <<row, audited, ends, jar, creating, page, dashboard>>

-----------------------------------------------------------------------------
(* The dashboard: /me, logout *)

\* One request at a time: fetchMe joins the one under way.
fetchMe ==
    /\ asking = None /\ cookie # None /\ user # cookie
    /\ asking' = cookie
    /\ UNCHANGED <<server, claim, submit, jar, signIn, user>>

\* Every error is a 401; nobody asks whether the cookie is still there.
MeAnswered ==
    /\ asking # None /\ user' \in {asking, None} /\ asking' = None
    /\ UNCHANGED <<server, claim, submit, jar, signIn>>

logout ==
    /\ cookie # None /\ user' = None
    /\ cookie' \in {None, cookie}                         \* the request may fail
    /\ UNCHANGED <<server, claim, submit, claimCookie, signIn, asking>>

Next ==
    \/ \E s \in Sessions :
          \/ InitLogin(s) \/ Phase1Waits(s) \/ StreamExpires(s)
          \/ RowExpires(s) \/ TokensExpire(s)
          \/ \E k \in Claims :
                Phase1Bound(s, k) \/ Phase2Bound(s, k) \/ ClaimElsewhere(s, k)
          \/ \E d \in Sides : Submit(d, s)
    \/ \E k \in Claims :
          ClaimChecks(k) \/ ClaimAudits(k) \/ ClaimAnswered(k) \/ ClaimFails(k)
    \/ \E d \in Sides : SubmitVerdict(d) \/ SubmitAnswered(d)
    \/ InitLoginFails \/ StartOver \/ StreamDrops \/ Restart
    \/ fetchMe \/ MeAnswered \/ logout

-----------------------------------------------------------------------------
(* Properties *)

TypeOK ==
    /\ row \in [Sessions -> {"none", "issued", "late", "consumed"}]
    /\ bind \subseteq Sessions /\ claimTok \subseteq Sessions /\ audited \subseteq Sessions
    /\ \A k \in Claims : claim[k].at \in {"idle", "sent", "refused", "audit", "minted"}
    /\ \A d \in Sides : submit[d].at \in {"idle", "proving", "bound"}
    /\ {claimCookie, cookie, asking, user} \subseteq Sessions \cup {None}
    /\ creating \in 0..Cardinality(Sessions)
    /\ page.phase \in {"creating", "pending", "success", "expired", "error"}
    /\ stream \in {"none", "connecting", "waiting", "closed"}

\* Whoever holds a desktop cookie, or is shown as signed in, has a session that a
\* proof bound; the page says so only of such a session.
SignedInIsBound ==
    /\ \A s \in {cookie, asking, user} \ {None} : row[s] = "consumed"
    /\ page.phase = "success" => row[page.session] = "consumed"

\* One claim per session succeeds, whoever claims it and however often, over reconnected
\* streams and repeated events, and it is on record before its cookie exists.  (The cookie
\* that a stream's headers carry takes no claim and leaves no record: Phase1Bound.)
ClaimedOnce ==
    \A s \in Sessions :
        /\ ends[s] + Cardinality({k \in Claims : claim[k].at = "audit" /\ claim[k].session = s}) <= 1
        /\ \A k \in Claims : claim[k].at = "minted" => claim[k].session \in audited

\* A session is signed in by one proof: two submissions never hold its bind token.
BoundOnce ==
    /\ \A d, e \in Sides : /\ d # e /\ submit[d] # Idle /\ submit[e] # Idle
                           => submit[d].session # submit[e].session
    /\ \A d \in Sides : submit[d] # Idle => submit[d].session \notin bind

\* The tokens of demo-portal.ts:406-455 are spent once each, and no order of proof,
\* stream, claim and restart signs in a desktop that nobody proved for.
PortalHolds == SignedInIsBound /\ ClaimedOnce /\ BoundOnce
=============================================================================
