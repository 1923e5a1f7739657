------------------------------ MODULE Pages_proofs ------------------------------
(***************************************************************************)
(* Theorems about the pages that follow the server's sessions: the demo    *)
(* bank's sign-in, the signup pages and the pairing pages, for any number  *)
(* of sessions, claims and polls.                                          *)
(***************************************************************************)
EXTENDS Services_proofs

-----------------------------------------------------------------------------
(* One component runs *)

\* A step of the whole is a step of the demo portal while focus names it, or leaves its
\* variables alone.
LEMMA PortalSteps == [Next]_vars /\ focus = "portal" => D!Next \/ UNCHANGED d_vars
BY DEF Next, ConsoleNext, vars, consoleVars

\* The same of the signup pages.
LEMMA SignupSteps == [Next]_vars /\ focus = "signup" => G!Next \/ UNCHANGED g_vars
BY DEF Next, ConsoleNext, vars, consoleVars

\* The same of the pairing pages.
LEMMA WaitingSteps == [Next]_vars /\ focus = "waiting" => Q!Next \/ UNCHANGED q_vars
BY DEF Next, ConsoleNext, vars, consoleVars

-----------------------------------------------------------------------------
(* Signing in to the demo bank *)

Claiming == [at : {"sent", "refused", "audit", "minted"}, session : Ids,
             token : Ids \cup {None}, from : {"page", "elsewhere"}]
Submitting == [at : {"proving", "bound"}, session : Ids]
Auditing(k, s) == d_claim[k].at = "audit" /\ d_claim[k].session = s

Bound == {s \in Ids : d_row[s] = "consumed"}

\* Every cookie and every page that says "signed in" is of a session that is bound.
JarInv ==
    /\ d_claimCookie \in Ids \cup {None}
    /\ d_cookie \in Bound \cup {None} /\ d_asking \in Bound \cup {None}
    /\ d_user \in Bound \cup {None}
    /\ d_page.phase = "success" => d_page.session \in Bound

\* A claim is granted for a session that is bound.  Its token is there until the first
\* claim spends it; then one claim is on its way to the audit row, or was recorded, or
\* is gone.
ClaimInv ==
    /\ d_claim \in [Requests -> {D!Idle} \cup Claiming]
    /\ d_claimTok \subseteq Ids
    /\ d_ends \in [Ids -> 0..1]
    /\ \A k \in Requests : d_claim[k].at \in {"audit", "minted"} => d_claim[k].session \in Bound
    /\ \A s \in d_claimTok : d_ends[s] = 0 /\ \A k \in Requests : ~Auditing(k, s)
    /\ \A s \in Ids : d_ends[s] = 1 => s \in Bound
    /\ \A k, j \in Requests : \A s \in Ids : Auditing(k, s) /\ Auditing(j, s) => k = j
    /\ \A k \in Requests :
          /\ d_claim[k].at = "audit" => d_ends[d_claim[k].session] = 0
          /\ d_claim[k].at = "minted" => d_claim[k].session \in d_audited

\* A submission holds the bind token that it took, alone.
SubmitInv ==
    /\ d_submit \in [D!Sides -> {D!Idle} \cup Submitting]
    /\ d_bind \subseteq Ids
    /\ \A d \in D!Sides : d_submit[d] # D!Idle =>
          /\ d_row[d_submit[d].session] # "none"
          /\ d_submit[d].session \notin d_bind
          /\ d_submit[d].at = "bound" => d_submit[d].session \in Bound
    /\ D!BoundOnce

PortalInv ==
    /\ d_row \in [Ids -> {"none", "issued", "late", "consumed"}]
    /\ JarInv
    /\ ClaimInv
    /\ SubmitInv

\* Sessions are opened once and bound for good.
RowsGoOn ==
    /\ d_row' \in [Ids -> {"none", "issued", "late", "consumed"}]
    /\ Bound \subseteq Bound'
    /\ \A s \in Ids : d_row[s] # "none" => d_row'[s] # "none"

\* The portal starts with no session and an empty cookie jar.
LEMMA PortalInvInit == D!Init => PortalInv
<1> SUFFICES ASSUME D!Init PROVE PortalInv
  OBVIOUS
<1>1. d_page.phase = "creating" /\ D!Idle.at = "idle"
  BY DEF D!Init, D!Idle
<1>2. JarInv
  BY <1>1 DEF D!Init, JarInv
<1>3. ClaimInv
  BY <1>1 DEF D!Init, ClaimInv, Auditing
<1>4. SubmitInv
  BY <1>1 DEF D!Init, SubmitInv, D!BoundOnce
<1> QED BY <1>2, <1>3, <1>4 DEF D!Init, PortalInv

\* A claim is idle, or is for some session, which is bound once the claim is granted.
LEMMA ClaimKinds ==
    ASSUME ClaimInv, NEW k \in Requests
    PROVE  /\ d_claim[k] # D!Idle => d_claim[k] \in Claiming
           /\ d_claim[k].at \in {"audit", "minted"} => d_claim[k].session \in Bound
           /\ d_claim[k].at # "idle" => d_claim[k] # D!Idle
           /\ D!Idle.at = "idle"
BY DEF ClaimInv, D!Idle

\* A submission is idle, or carries a bound session.
LEMMA SubmitKinds ==
    ASSUME SubmitInv, NEW d \in D!Sides
    PROVE  /\ d_submit[d] # D!Idle => d_submit[d] \in Submitting
           /\ d_submit[d].at # "idle" => d_submit[d] # D!Idle
           /\ D!Idle.at = "idle"
BY DEF SubmitInv, D!Idle

\* Rows that nobody touches go on.
LEMMA RowsStayPortal ==
    ASSUME PortalInv, UNCHANGED d_row
    PROVE  RowsGoOn
BY DEF PortalInv, RowsGoOn, Bound

\* A row goes from nothing to issued, gets late, and is consumed in time or late.
LEMMA RowMoves ==
    ASSUME PortalInv, NEW s \in Ids, NEW to \in {"issued", "late", "consumed"},
           d_row[s] \in {"none", "issued", "late"}, d_row' = [d_row EXCEPT ![s] = to]
    PROVE  RowsGoOn /\ d_row'[s] = to
BY DEF PortalInv, RowsGoOn, Bound

\* The browser's side: a cookie, a request or a page that is new names a bound session.
LEMMA JarOutlives ==
    ASSUME PortalInv, RowsGoOn,
           d_claimCookie' \in Ids \cup {None},
           d_cookie' \in {d_cookie, None} \cup Bound',
           d_asking' \in {d_asking, d_cookie, None},
           d_user' \in {d_user, d_asking, None},
           d_page' = d_page \/ (d_page'.phase = "success" => d_page'.session \in Bound')
    PROVE  JarInv'
BY DEF PortalInv, JarInv, RowsGoOn

\* The browser's cookies outlive a step elsewhere.
LEMMA JarStays ==
    ASSUME PortalInv, RowsGoOn, UNCHANGED <<d_claimCookie, d_cookie, d_asking, d_user, d_page>>
    PROVE  JarInv'
BY DEF PortalInv, JarInv, RowsGoOn

\* The server's side of a claim: claims are sent, refused or answered, and tokens lost.
LEMMA ClaimsOutlive ==
    ASSUME PortalInv, RowsGoOn, UNCHANGED <<d_audited, d_ends>>,
           d_claimTok' \subseteq d_claimTok,
           d_claim' \in [Requests -> {D!Idle} \cup Claiming],
           \A k \in Requests : \/ d_claim'[k] = d_claim[k]
                               \/ d_claim'[k] = D!Idle
                               \/ d_claim'[k].at \in {"sent", "refused"}
    PROVE  ClaimInv'
<1>1. ClaimInv
  BY DEF PortalInv
<1>2. ASSUME NEW k \in Requests
      PROVE  /\ d_claim'[k].at \in {"audit", "minted"} =>
                    d_claim'[k] = d_claim[k] /\ d_claim'[k].session \in Bound'
             /\ \A s \in Ids : Auditing(k, s)' => Auditing(k, s)
  BY <1>1, <1>2 DEF ClaimInv, RowsGoOn, D!Idle, Auditing
<1>3. \A s \in d_claimTok' : d_ends'[s] = 0 /\ \A k \in Requests : ~Auditing(k, s)'
  BY <1>1, <1>2 DEF ClaimInv
<1>4. \A k, j \in Requests : \A s \in Ids : Auditing(k, s)' /\ Auditing(j, s)' => k = j
  BY <1>1, <1>2 DEF ClaimInv
<1>5. \A k \in Requests :
          /\ d_claim'[k].at = "audit" => d_ends'[d_claim'[k].session] = 0
          /\ d_claim'[k].at = "minted" => d_claim'[k].session \in d_audited'
  BY <1>1, <1>2 DEF ClaimInv
<1>6. \A s \in Ids : d_ends'[s] = 1 => s \in Bound'
  BY <1>1 DEF ClaimInv, RowsGoOn
<1> QED BY <1>1, <1>2, <1>3, <1>4, <1>5, <1>6 DEF ClaimInv

\* The claims outlive a step elsewhere; claim tokens may be forgotten.
LEMMA ClaimsStay ==
    ASSUME PortalInv, RowsGoOn, UNCHANGED <<d_audited, d_ends, d_claim>>,
           d_claimTok' \subseteq d_claimTok
    PROVE  ClaimInv'
BY ClaimsOutlive DEF PortalInv, ClaimInv

\* Submissions that end, and tokens that are lost.
LEMMA SubmitsOutlive ==
    ASSUME PortalInv, RowsGoOn, d_bind' \subseteq d_bind,
           d_submit' \in [D!Sides -> {D!Idle} \cup Submitting],
           \A d \in D!Sides : d_submit'[d] \in {d_submit[d], D!Idle}
    PROVE  SubmitInv'
<1>1. SubmitInv
  BY DEF PortalInv
<1>2. \A d \in D!Sides : d_submit'[d] # D!Idle =>
          /\ d_row'[d_submit'[d].session] # "none"
          /\ d_submit'[d].session \notin d_bind'
          /\ d_submit'[d].at = "bound" => d_submit'[d].session \in Bound'
  BY <1>1 DEF SubmitInv, RowsGoOn, Submitting
<1>3. D!BoundOnce'
  BY <1>1, <1>2 DEF SubmitInv, D!BoundOnce
<1> QED BY <1>1, <1>2, <1>3 DEF SubmitInv

\* The submissions outlive a step elsewhere; bind tokens may be forgotten.
LEMMA SubmitsStay ==
    ASSUME PortalInv, RowsGoOn, UNCHANGED d_submit, d_bind' \subseteq d_bind
    PROVE  SubmitInv'
BY SubmitsOutlive DEF PortalInv, SubmitInv

\* A login begins: a row, its bind token and its claim token.
LEMMA InitLoginKeepsPortal ==
    ASSUME PortalInv, NEW s \in Ids, D!InitLogin(s)
    PROVE  PortalInv'
<1>1. /\ d_row[s] = "none" /\ d_row' = [d_row EXCEPT ![s] = "issued"]
      /\ d_bind' = d_bind \cup {s} /\ d_claimTok' = d_claimTok \cup {s} /\ d_claimCookie' = s
      /\ UNCHANGED <<d_audited, d_claim, d_submit, d_cookie, d_ends, d_asking, d_user>>
      /\ d_page'.phase # "success"
  BY DEF D!InitLogin, D!dashboard, D!Show
<1>2. RowsGoOn /\ s \notin Bound
  BY <1>1, RowMoves DEF Bound
<1>3. JarInv'
  BY <1>1, <1>2, JarOutlives
<1>4. ClaimInv'
  <2>1. ClaimInv
    BY DEF PortalInv
  <2>2. \A k \in Requests : d_claim[k].at \in {"audit", "minted"} => d_claim[k].session \in Bound'
    BY <1>2, <2>1 DEF ClaimInv, RowsGoOn
  <2>3. \A k \in Requests : ~Auditing(k, s)
    BY <1>2, <2>1, ClaimKinds DEF Auditing
  <2>4. d_ends[s] = 0
    BY <1>2, <2>1 DEF ClaimInv
  <2>5. \A t \in d_claimTok' : d_ends[t] = 0 /\ \A k \in Requests : ~Auditing(k, t)
    BY <1>1, <2>1, <2>3, <2>4 DEF ClaimInv
  <2>6. \A t \in Ids : d_ends[t] = 1 => t \in Bound'
    BY <1>2, <2>1 DEF ClaimInv, RowsGoOn
  <2> QED BY <1>1, <2>1, <2>2, <2>5, <2>6 DEF ClaimInv, Auditing
<1>5. SubmitInv'
  <2>1. SubmitInv
    BY DEF PortalInv
  <2>2. \A d \in D!Sides : d_submit[d] # D!Idle =>
            /\ d_row'[d_submit[d].session] # "none"
            /\ d_submit[d].session \notin d_bind'
            /\ d_submit[d].at = "bound" => d_submit[d].session \in Bound'
    BY <1>1, <1>2, <2>1 DEF SubmitInv, RowsGoOn, Submitting
  <2>3. D!BoundOnce'
    BY <1>1, <2>1, <2>2 DEF SubmitInv, D!BoundOnce
  <2> QED BY <1>1, <2>1, <2>2, <2>3 DEF SubmitInv
<1> QED BY <1>2, <1>3, <1>4, <1>5 DEF PortalInv, RowsGoOn

\* The page turns to a card, and the stream comes and goes.
LEMMA PageKeepsPortal ==
    ASSUME PortalInv, UNCHANGED <<d_row, d_bind, d_claimTok, d_audited, d_ends, d_claim, d_submit,
                                  d_claimCookie, d_cookie, d_asking, d_user>>,
           d_page' = d_page \/ d_page'.phase # "success"
    PROVE  PortalInv'
<1>1. RowsGoOn
  BY RowsStayPortal
<1>2. JarInv'
  BY <1>1, JarOutlives DEF PortalInv, JarInv
<1> QED BY <1>1, <1>2, ClaimsStay, SubmitsStay DEF PortalInv, RowsGoOn

\* A claim is sent, by the page that hears of its session or by anyone at any time.
LEMMA ClaimSentKeepsPortal ==
    ASSUME PortalInv, NEW s \in Ids, NEW k \in Requests,
           D!Phase1Bound(s, k) \/ D!Phase2Bound(s, k) \/ D!ClaimElsewhere(s, k)
    PROVE  PortalInv'
<1>1. PICK from \in {"page", "elsewhere"} :
          d_claim' = [d_claim EXCEPT ![k] =
                        [at |-> "sent", session |-> s, token |-> d_claimCookie, from |-> from]]
  BY DEF D!Phase1Bound, D!Phase2Bound, D!ClaimElsewhere, D!SendClaim
<1> DEFINE c == [at |-> "sent", session |-> s, token |-> d_claimCookie, from |-> from]
<1>2. /\ d_cookie' = d_cookie \/ (d_cookie' = s /\ d_row[s] = "consumed")
      /\ UNCHANGED <<d_row, d_bind, d_claimTok, d_audited, d_ends, d_submit, d_claimCookie,
                     d_asking, d_user, d_page>>
  BY DEF D!Phase1Bound, D!Phase2Bound, D!ClaimElsewhere, D!server, D!signIn, D!dashboard, D!jar
<1>3. RowsGoOn /\ (d_row[s] = "consumed" => s \in Bound')
  BY <1>2, RowsStayPortal DEF Bound
<1>4. c \in Claiming /\ c.at = "sent"
  BY DEF PortalInv, JarInv, Claiming
<1> HIDE DEF c
<1>5. ClaimInv'
  <2>1. d_claim \in [Requests -> {D!Idle} \cup Claiming]
    BY DEF PortalInv, ClaimInv
  <2>2. d_claim' = [d_claim EXCEPT ![k] = c]
    BY <1>1 DEF c
  <2>3. d_claim' \in [Requests -> {D!Idle} \cup Claiming]
    BY <1>4, <2>1, <2>2
  <2>4. \A j \in Requests : d_claim'[j] = d_claim[j] \/ d_claim'[j] = c
    BY <2>1, <2>2
  <2> QED BY <1>2, <1>3, <1>4, <2>3, <2>4, ClaimsOutlive
<1>6. JarInv'
  BY <1>2, <1>3, JarOutlives DEF PortalInv, JarInv
<1> QED BY <1>2, <1>3, <1>5, <1>6, SubmitsStay DEF PortalInv, RowsGoOn

\* A claim's answer arrives with its cookie, or gets lost.
LEMMA ClaimEndsKeepsPortal ==
    ASSUME PortalInv, NEW k \in Requests, D!ClaimAnswered(k) \/ D!ClaimFails(k)
    PROVE  PortalInv'
<1>1. /\ d_claim[k] # D!Idle /\ d_claim' = [d_claim EXCEPT ![k] = D!Idle]
      /\ \/ d_cookie' = d_cookie /\ (d_page' = d_page \/ d_page'.phase # "success")
         \/ /\ d_claim[k].at = "minted" /\ d_cookie' = d_claim[k].session
            /\ d_page' = d_page \/ d_page'.session = d_cookie'
      /\ UNCHANGED <<d_row, d_bind, d_claimTok, d_audited, d_ends, d_submit, d_claimCookie,
                     d_asking, d_user>>
  BY ClaimKinds DEF PortalInv, D!ClaimAnswered, D!ClaimFails, D!server, D!signIn, D!dashboard, D!jar,
     D!Show
<1>2. RowsGoOn /\ (d_claim[k].at = "minted" => d_claim[k].session \in Bound')
  BY <1>1, RowsStayPortal, ClaimKinds DEF PortalInv, RowsGoOn
<1>3. ClaimInv'
  <2>1. d_claim \in [Requests -> {D!Idle} \cup Claiming]
    BY DEF PortalInv, ClaimInv
  <2>2. d_claim' \in [Requests -> {D!Idle} \cup Claiming]
        /\ \A j \in Requests : d_claim'[j] = d_claim[j] \/ d_claim'[j] = D!Idle
    BY <1>1, <2>1
  <2> QED BY <1>1, <1>2, <2>2, ClaimsOutlive
<1>4. JarInv'
  BY <1>1, <1>2, JarOutlives DEF PortalInv, JarInv
<1> QED BY <1>1, <1>2, <1>3, <1>4, SubmitsStay DEF PortalInv, RowsGoOn

\* verifyAndConsumeClaimToken: whoever gets the token takes it from everybody else.
LEMMA ClaimChecksKeepsPortal ==
    ASSUME PortalInv, NEW k \in Requests, D!ClaimChecks(k)
    PROVE  PortalInv'
<1> DEFINE s == d_claim[k].session
<1>1. /\ d_claim[k].at = "sent"
      /\ UNCHANGED <<d_row, d_bind, d_audited, d_ends, d_submit, d_claimCookie, d_cookie, d_page,
                     d_asking, d_user>>
  BY DEF D!ClaimChecks, D!signIn, D!dashboard, D!jar
<1>2. RowsGoOn
  BY <1>1, RowsStayPortal
<1>3. d_claim[k] \in Claiming /\ s \in Ids
  BY <1>1, ClaimKinds DEF PortalInv, Claiming
<1>4. d_claim \in [Requests -> {D!Idle} \cup Claiming] /\ ClaimInv
  BY DEF PortalInv, ClaimInv
<1>5. CASE /\ d_row[s] = "consumed" /\ s \in d_claimTok /\ d_claimTok' = d_claimTok \ {s}
           /\ d_claim' = [d_claim EXCEPT ![k] = [@ EXCEPT !.at = "audit"]]
  <2>1. PICK c : c = [d_claim[k] EXCEPT !.at = "audit"]
    OBVIOUS
  <2>2. c \in Claiming
    BY <1>3, <2>1 DEF Claiming
  <2>3. c.at = "audit" /\ c.session = s
    BY <1>3, <2>1 DEF Claiming
  <2>4. /\ d_claim' \in [Requests -> {D!Idle} \cup Claiming] /\ d_claim'[k] = c
        /\ \A j \in Requests : j # k => d_claim'[j] = d_claim[j]
    BY <1>4, <1>5, <2>1, <2>2
  <2> HIDE DEF s
  <2>5. d_ends[s] = 0 /\ \A j \in Requests : ~Auditing(j, s)
    BY <1>4, <1>5 DEF ClaimInv
  <2>6. \A j \in Requests : \A t \in Ids :
           Auditing(j, t)' <=> (j = k /\ t = s) \/ (j # k /\ Auditing(j, t))
    BY <2>3, <2>4 DEF Auditing
  <2>12. s \in Bound'
    BY <1>2, <1>3, <1>5 DEF RowsGoOn, Bound
  <2>7. \A j \in Requests : d_claim'[j].at \in {"audit", "minted"} => d_claim'[j].session \in Bound'
    BY <1>2, <1>4, <2>3, <2>4, <2>12 DEF ClaimInv, RowsGoOn
  <2>8. \A t \in d_claimTok' : d_ends'[t] = 0 /\ \A j \in Requests : ~Auditing(j, t)'
    BY <1>1, <1>4, <1>5, <2>6 DEF ClaimInv
  <2>9. \A i, j \in Requests : \A t \in Ids : Auditing(i, t)' /\ Auditing(j, t)' => i = j
    BY <1>4, <2>5, <2>6 DEF ClaimInv
  <2>10. \A j \in Requests :
            /\ d_claim'[j].at = "audit" => d_ends'[d_claim'[j].session] = 0
            /\ d_claim'[j].at = "minted" => d_claim'[j].session \in d_audited'
    BY <1>1, <1>4, <2>3, <2>4, <2>5 DEF ClaimInv
  <2>11. \A t \in Ids : d_ends'[t] = 1 => t \in Bound'
    BY <1>1, <1>2, <1>4 DEF ClaimInv, RowsGoOn
  <2> QED BY <1>1, <1>2, <1>4, <1>5, <2>4, <2>7, <2>8, <2>9, <2>10, <2>11, JarStays, SubmitsStay
          DEF PortalInv, ClaimInv, RowsGoOn
<1>6. CASE /\ d_claimTok' = d_claimTok
           /\ d_claim' = [d_claim EXCEPT ![k] = [@ EXCEPT !.at = "refused"]]
  <2>1. PICK c : c = [d_claim[k] EXCEPT !.at = "refused"]
    OBVIOUS
  <2>2. c \in Claiming
    BY <1>3, <2>1 DEF Claiming
  <2>3. c.at = "refused" /\ c.session = s
    BY <1>3, <2>1 DEF Claiming
  <2>4. /\ d_claim' \in [Requests -> {D!Idle} \cup Claiming] /\ d_claim'[k] = c
        /\ \A j \in Requests : j # k => d_claim'[j] = d_claim[j]
    BY <1>4, <1>6, <2>1, <2>2
  <2>5. ClaimInv'
    BY <1>1, <1>2, <1>3, <1>6, <2>3, <2>4, ClaimsOutlive
  <2> QED BY <1>1, <1>2, <2>5, JarStays, SubmitsStay DEF PortalInv, RowsGoOn
<1> QED BY <1>5, <1>6 DEF D!ClaimChecks, D!Claimable, D!Ready

\* The claim's audit entry is written before the answer.
LEMMA ClaimAuditsKeepsPortal ==
    ASSUME PortalInv, NEW k \in Requests, D!ClaimAudits(k)
    PROVE  PortalInv'
<1> DEFINE s == d_claim[k].session
<1>1. /\ d_claim[k].at = "audit" /\ d_audited' = d_audited \cup {s}
      /\ d_ends' = [d_ends EXCEPT ![s] = @ + 1]
      /\ d_claim' = [d_claim EXCEPT ![k] = [@ EXCEPT !.at = "minted"]]
      /\ UNCHANGED <<d_row, d_bind, d_claimTok, d_submit, d_claimCookie, d_cookie, d_page,
                     d_asking, d_user>>
  BY DEF D!ClaimAudits, D!signIn, D!dashboard, D!jar
<1>2. RowsGoOn
  BY <1>1, RowsStayPortal
<1>3. d_claim[k] \in Claiming /\ s \in Bound /\ s \in Bound' /\ s \in Ids
  BY <1>1, <1>2, ClaimKinds DEF PortalInv, RowsGoOn, Claiming
<1>4. d_claim \in [Requests -> {D!Idle} \cup Claiming] /\ ClaimInv
  BY DEF PortalInv, ClaimInv
<1>5. PICK c : c = [d_claim[k] EXCEPT !.at = "minted"]
  OBVIOUS
<1>6. c \in Claiming
  BY <1>3, <1>5 DEF Claiming
<1>7. c.at = "minted" /\ c.session = s
  BY <1>3, <1>5 DEF Claiming
<1>8. /\ d_claim' \in [Requests -> {D!Idle} \cup Claiming] /\ d_claim'[k] = c
      /\ \A j \in Requests : j # k => d_claim'[j] = d_claim[j]
  BY <1>1, <1>4, <1>5, <1>6
<1>9. Auditing(k, s) /\ d_ends[s] = 0
  BY <1>1, <1>4 DEF Auditing, ClaimInv
<1> HIDE DEF s
<1>10. /\ d_ends' \in [Ids -> 0..1] /\ d_ends'[s] = 1
       /\ \A t \in Ids : t # s => d_ends'[t] = d_ends[t]
  BY <1>1, <1>3, <1>4, <1>9 DEF ClaimInv
<1>11. \A j \in Requests : \A t \in Ids : Auditing(j, t)' <=> j # k /\ Auditing(j, t)
  BY <1>7, <1>8 DEF Auditing
<1>12. \A j \in Requests : d_claim'[j].at \in {"audit", "minted"} => d_claim'[j].session \in Bound'
  BY <1>2, <1>3, <1>4, <1>7, <1>8 DEF ClaimInv, RowsGoOn
<1>13. s \notin d_claimTok
  BY <1>4, <1>9 DEF ClaimInv
<1>14. \A t \in d_claimTok' : d_ends'[t] = 0 /\ \A j \in Requests : ~Auditing(j, t)'
  BY <1>1, <1>4, <1>10, <1>11, <1>13 DEF ClaimInv
<1>15. \A i, j \in Requests : \A t \in Ids : Auditing(i, t)' /\ Auditing(j, t)' => i = j
  BY <1>4, <1>11 DEF ClaimInv
<1>16. ASSUME NEW j \in Requests
       PROVE  /\ d_claim'[j].at = "audit" => d_ends'[d_claim'[j].session] = 0
              /\ d_claim'[j].at = "minted" => d_claim'[j].session \in d_audited'
  <2>1. CASE j = k
    <3>1. d_claim'[j].at = "minted" /\ d_claim'[j].session = s
      BY <1>7, <1>8, <2>1
    <3>2. s \in d_audited'
      BY <1>1
    <3> QED BY <3>1, <3>2
  <2>2. CASE j # k
    <3>1. d_claim'[j] = d_claim[j]
      BY <1>8, <2>2
    <3>2. ASSUME d_claim[j].at = "audit" PROVE d_ends'[d_claim[j].session] = 0
      <4>1. d_claim[j].session \in Ids /\ d_ends[d_claim[j].session] = 0
        BY <1>4, <3>2, ClaimKinds DEF ClaimInv, Claiming
      <4>2. d_claim[j].session # s
        BY <1>4, <1>9, <1>3, <2>2, <3>2 DEF ClaimInv, Auditing
      <4> QED BY <1>10, <4>1, <4>2
    <3>3. d_claim[j].at = "minted" => d_claim[j].session \in d_audited'
      BY <1>1, <1>4 DEF ClaimInv
    <3> QED BY <3>1, <3>2, <3>3
  <2> QED BY <2>1, <2>2
<1>17. \A t \in Ids : d_ends'[t] = 1 => t \in Bound'
  BY <1>2, <1>3, <1>4, <1>10 DEF ClaimInv, RowsGoOn
<1>18. ClaimInv'
  BY <1>1, <1>4, <1>8, <1>10, <1>12, <1>14, <1>15, <1>16, <1>17 DEF ClaimInv
<1> QED BY <1>1, <1>2, <1>18, JarStays, SubmitsStay DEF PortalInv, RowsGoOn

\* consumeBindToken: the submission leaves no token for another.
LEMMA SubmitTakesToken ==
    ASSUME PortalInv, NEW d \in D!Sides, NEW s \in Ids, D!Submit(d, s), d_row[s] = "issued"
    PROVE  PortalInv'
<1> DEFINE r == [at |-> "proving", session |-> s]
<1>1. /\ d_submit[d] = D!Idle /\ d_row[s] # "none" /\ s \in d_bind /\ d_bind' = d_bind \ {s}
      /\ d_submit' = [d_submit EXCEPT ![d] = r]
      /\ UNCHANGED <<d_row, d_claimTok, d_audited, d_ends, d_claim, d_claimCookie, d_cookie, d_page,
                     d_asking, d_user>>
  BY DEF D!Submit, D!Decoded, D!signIn, D!dashboard, D!jar
<1>2. RowsGoOn
  BY <1>1, RowsStayPortal
<1>3. r \in Submitting /\ r.at = "proving" /\ r.session = s
  BY DEF Submitting
<1> HIDE DEF r
<1>4. SubmitInv
  BY DEF PortalInv
<1>5. /\ d_submit' \in [D!Sides -> {D!Idle} \cup Submitting] /\ d_submit'[d] = r
      /\ \A e \in D!Sides : e # d => d_submit'[e] = d_submit[e]
  BY <1>1, <1>3, <1>4 DEF SubmitInv
<1>6. \A e \in D!Sides : d_submit[e] # D!Idle => d_submit[e].session # s
  BY <1>1, <1>4 DEF SubmitInv
<1>7. ASSUME NEW e \in D!Sides, d_submit'[e] # D!Idle
      PROVE  /\ d_row'[d_submit'[e].session] # "none"
             /\ d_submit'[e].session \notin d_bind'
             /\ d_submit'[e].at = "bound" => d_submit'[e].session \in Bound'
  <2>1. CASE e = d
    BY <1>1, <1>3, <1>5, <2>1
  <2>2. CASE e # d
    BY <1>1, <1>2, <1>4, <1>5, <1>7, <2>2 DEF SubmitInv, RowsGoOn
  <2> QED BY <2>1, <2>2
<1>8. D!BoundOnce'
  <2>1. \A e, f \in D!Sides : /\ e # f /\ d_submit'[e] # D!Idle /\ d_submit'[f] # D!Idle
                              => d_submit'[e].session # d_submit'[f].session
    BY <1>3, <1>4, <1>5, <1>6 DEF SubmitInv, D!BoundOnce
  <2> QED BY <1>7, <2>1 DEF D!BoundOnce
<1>9. SubmitInv'
  BY <1>1, <1>4, <1>5, <1>7, <1>8 DEF SubmitInv
<1> QED BY <1>1, <1>2, <1>9, JarStays, ClaimsStay DEF PortalInv, RowsGoOn

\* A submission past the deadline only spends its token.
LEMMA SubmitTooLate ==
    ASSUME PortalInv, NEW d \in D!Sides, NEW s \in Ids, D!Submit(d, s), d_row[s] # "issued"
    PROVE  PortalInv'
<1>1. /\ d_bind' \subseteq d_bind
      /\ UNCHANGED <<d_row, d_claimTok, d_audited, d_ends, d_claim, d_submit, d_claimCookie,
                     d_cookie, d_page, d_asking, d_user>>
  BY DEF D!Submit, D!signIn, D!dashboard, D!jar
<1>2. RowsGoOn
  BY <1>1, RowsStayPortal
<1> QED BY <1>1, <1>2, JarStays, ClaimsStay, SubmitsStay DEF PortalInv, RowsGoOn

\* A proof is judged, and its row is consumed once.
LEMMA SubmitVerdictKeepsPortal ==
    ASSUME PortalInv, NEW d \in D!Sides, D!SubmitVerdict(d)
    PROVE  PortalInv'
<1> DEFINE s == d_submit[d].session
<1>1. /\ d_submit[d].at = "proving"
      /\ UNCHANGED <<d_bind, d_claimTok, d_audited, d_ends, d_claim, d_claimCookie, d_cookie, d_page,
                     d_asking, d_user>>
  BY DEF D!SubmitVerdict, D!signIn, D!dashboard, D!jar
<1>2. d_submit[d] \in Submitting /\ s \in Ids /\ SubmitInv
      /\ d_submit \in [D!Sides -> {D!Idle} \cup Submitting] /\ d_submit[d] # D!Idle
  BY <1>1, SubmitKinds DEF PortalInv, SubmitInv, Submitting
<1>3. CASE /\ d_row[s] \in {"issued", "late"} /\ d_row' = [d_row EXCEPT ![s] = "consumed"]
           /\ d_submit' = [d_submit EXCEPT ![d] = [@ EXCEPT !.at = "bound"]]
  <2>1. RowsGoOn /\ s \in Bound'
    BY <1>2, <1>3, RowMoves DEF Bound
  <2>2. PICK r : r = [d_submit[d] EXCEPT !.at = "bound"]
    OBVIOUS
  <2>3. r \in Submitting /\ r.session = s
    BY <1>2, <2>2 DEF Submitting
  <2>4. /\ d_submit' \in [D!Sides -> {D!Idle} \cup Submitting] /\ d_submit'[d] = r
        /\ \A e \in D!Sides : e # d => d_submit'[e] = d_submit[e]
    BY <1>2, <1>3, <2>2, <2>3
  <2> HIDE DEF s
  <2>5. ASSUME NEW e \in D!Sides, d_submit'[e] # D!Idle
        PROVE  /\ d_row'[d_submit'[e].session] # "none"
               /\ d_submit'[e].session \notin d_bind'
               /\ d_submit'[e].at = "bound" => d_submit'[e].session \in Bound'
    <3>1. CASE e = d
      <4>1. d_row'[s] # "none"
        BY <2>1 DEF Bound
      <4>2. s \notin d_bind
        BY <1>2 DEF SubmitInv, s
      <4> QED BY <1>1, <2>1, <2>3, <2>4, <3>1, <4>1, <4>2
    <3>2. CASE e # d
      <4>1. d_submit'[e] = d_submit[e] /\ d_submit[e] \in Submitting
        BY <1>2, <2>4, <2>5, <3>2
      <4> QED BY <1>1, <1>2, <2>1, <2>5, <4>1 DEF SubmitInv, RowsGoOn, Submitting
    <3> QED BY <3>1, <3>2
  <2>6. D!BoundOnce'
    <3>1. d_submit[d].session = s
      BY DEF s
    <3>2. \A e, f \in D!Sides : /\ e # f /\ d_submit'[e] # D!Idle /\ d_submit'[f] # D!Idle
                                => d_submit'[e].session # d_submit'[f].session
      BY <1>2, <2>3, <2>4, <3>1 DEF SubmitInv, D!BoundOnce
    <3> QED BY <2>5, <3>2 DEF D!BoundOnce
  <2>7. SubmitInv'
    BY <1>1, <1>2, <2>4, <2>5, <2>6 DEF SubmitInv
  <2> QED BY <1>1, <2>1, <2>7, JarStays, ClaimsStay DEF PortalInv, RowsGoOn
<1>4. CASE d_submit' = [d_submit EXCEPT ![d] = D!Idle] /\ UNCHANGED d_row
  <2>1. RowsGoOn
    BY <1>4, RowsStayPortal
  <2>2. SubmitInv'
    BY <1>1, <1>2, <1>4, <2>1, SubmitsOutlive
  <2> QED BY <1>1, <2>1, <2>2, JarStays, ClaimsStay DEF PortalInv, RowsGoOn
<1> QED BY <1>3, <1>4 DEF D!SubmitVerdict

\* The phone learns the verdict.
LEMMA SubmitAnsweredKeepsPortal ==
    ASSUME PortalInv, NEW d \in D!Sides, D!SubmitAnswered(d)
    PROVE  PortalInv'
<1>1. /\ d_submit[d].at = "bound" /\ d_submit' = [d_submit EXCEPT ![d] = D!Idle]
      /\ \/ d_cookie' = d_submit[d].session
            /\ d_page' = [phase |-> "success", session |-> d_submit[d].session]
         \/ UNCHANGED <<d_cookie, d_page>>
      /\ UNCHANGED <<d_row, d_bind, d_claimTok, d_audited, d_ends, d_claim, d_claimCookie,
                     d_asking, d_user>>
  BY DEF D!SubmitAnswered, D!server, D!dashboard, D!Show
<1>2. RowsGoOn
  BY <1>1, RowsStayPortal
<1>3. d_submit \in [D!Sides -> {D!Idle} \cup Submitting] /\ d_submit[d].session \in Bound'
  BY <1>1, <1>2, SubmitKinds DEF PortalInv, SubmitInv, RowsGoOn
<1>4. SubmitInv'
  BY <1>1, <1>2, <1>3, SubmitsOutlive
<1>5. JarInv'
  BY <1>1, <1>2, <1>3, JarOutlives DEF PortalInv, JarInv
<1> QED BY <1>1, <1>2, <1>4, <1>5, ClaimsStay DEF PortalInv, RowsGoOn

\* A row or its tokens run out.
LEMMA TimeKeepsPortal ==
    ASSUME PortalInv, NEW s \in Ids, D!RowExpires(s) \/ D!TokensExpire(s)
    PROVE  PortalInv'
<1>1. CASE D!RowExpires(s)
  <2>1. /\ d_row[s] = "issued" /\ d_row' = [d_row EXCEPT ![s] = "late"]
        /\ UNCHANGED <<d_bind, d_claimTok, d_audited, d_ends, d_claim, d_submit, d_claimCookie,
                       d_cookie, d_page, d_asking, d_user>>
    BY <1>1 DEF D!RowExpires, D!signIn, D!dashboard, D!jar
  <2>2. RowsGoOn
    BY <2>1, RowMoves
  <2> QED BY <2>1, <2>2, JarStays, ClaimsStay, SubmitsStay DEF PortalInv, RowsGoOn
<1>2. CASE D!TokensExpire(s)
  <2>1. /\ d_bind' \subseteq d_bind /\ d_claimTok' \subseteq d_claimTok
        /\ d_claimCookie' \in {d_claimCookie, None}
        /\ UNCHANGED <<d_row, d_audited, d_ends, d_claim, d_submit, d_cookie, d_page,
                       d_asking, d_user>>
    BY <1>2 DEF D!TokensExpire, D!signIn, D!dashboard
  <2>2. RowsGoOn
    BY <2>1, RowsStayPortal
  <2>3. JarInv'
    BY <2>1, <2>2, JarOutlives DEF PortalInv, JarInv
  <2> QED BY <2>1, <2>2, <2>3, ClaimsStay, SubmitsStay DEF PortalInv, RowsGoOn
<1> QED BY <1>1, <1>2

\* A restart forgets the tokens that were in memory.
LEMMA RestartKeepsPortal ==
    ASSUME PortalInv, D!Restart
    PROVE  PortalInv'
<1>1. /\ d_bind' = {} /\ d_claimTok' = {}
      /\ d_claim' = [k \in Requests |-> IF d_claim[k].at \in {"sent", "audit"}
                                          THEN [d_claim[k] EXCEPT !.at = "refused"] ELSE d_claim[k]]
      /\ d_submit' = [d \in D!Sides |-> IF d_submit[d].at = "proving" THEN D!Idle ELSE d_submit[d]]
      /\ UNCHANGED <<d_row, d_audited, d_ends, d_claimCookie, d_cookie, d_page, d_asking, d_user>>
  BY DEF D!Restart, D!jar, D!dashboard
<1>2. RowsGoOn
  BY <1>1, RowsStayPortal
<1>3. d_claim \in [Requests -> {D!Idle} \cup Claiming]
      /\ d_submit \in [D!Sides -> {D!Idle} \cup Submitting]
  BY DEF PortalInv, ClaimInv, SubmitInv
<1>4. ASSUME NEW k \in Requests
      PROVE  /\ d_claim'[k] \in {D!Idle} \cup Claiming
             /\ \/ d_claim'[k] = d_claim[k]
                \/ d_claim'[k].at = "refused"
  <2>1. CASE d_claim[k].at \in {"sent", "audit"}
    <3>1. d_claim[k] \in Claiming
      BY <2>1, ClaimKinds DEF PortalInv
    <3>2. d_claim'[k] = [d_claim[k] EXCEPT !.at = "refused"]
      BY <1>1, <2>1
    <3>3. d_claim'[k] \in Claiming
      BY <3>1, <3>2 DEF Claiming
    <3>4. d_claim'[k].at = "refused"
      BY <3>1, <3>2 DEF Claiming
    <3> QED BY <3>1, <3>3, <3>4
  <2>2. CASE d_claim[k].at \notin {"sent", "audit"}
    BY <1>1, <1>3, <2>2
  <2> QED BY <2>1, <2>2
<1>5. d_claim' \in [Requests -> {D!Idle} \cup Claiming]
  <2>1. d_claim' = [k \in Requests |-> d_claim'[k]]
    BY <1>1
  <2> QED BY <1>4, <2>1
<1>6. ClaimInv'
  BY <1>1, <1>2, <1>4, <1>5, ClaimsOutlive
<1>7. SubmitInv'
  <2>1. /\ d_submit' \in [D!Sides -> {D!Idle} \cup Submitting]
        /\ \A d \in D!Sides : d_submit'[d] \in {d_submit[d], D!Idle}
    BY <1>1, <1>3
  <2> QED BY <1>1, <1>2, <2>1, SubmitsOutlive
<1> QED BY <1>1, <1>2, <1>6, <1>7, JarStays DEF PortalInv, RowsGoOn

\* The dashboard asks who is signed in, shows it, or signs out.
LEMMA DashboardKeepsPortal ==
    ASSUME PortalInv, D!fetchMe \/ D!MeAnswered \/ D!logout
    PROVE  PortalInv'
<1>1. /\ d_asking' \in {d_asking, d_cookie, None} /\ d_user' \in {d_user, d_asking, None}
      /\ d_cookie' \in {d_cookie, None}
      /\ UNCHANGED <<d_row, d_bind, d_claimTok, d_audited, d_ends, d_claim, d_submit, d_claimCookie,
                     d_page>>
  BY DEF D!fetchMe, D!MeAnswered, D!logout, D!server, D!jar, D!signIn
<1>2. RowsGoOn
  BY <1>1, RowsStayPortal
<1>3. JarInv'
  BY <1>1, <1>2, JarOutlives DEF PortalInv, JarInv
<1> QED BY <1>1, <1>2, <1>3, ClaimsStay, SubmitsStay DEF PortalInv, RowsGoOn

\* No step of the portal breaks the invariant.
LEMMA PortalInvNext == PortalInv /\ D!Next => PortalInv'
<1> SUFFICES ASSUME PortalInv, D!Next PROVE PortalInv'
  OBVIOUS
<1>1. CASE \E s \in Ids : D!InitLogin(s)
  BY <1>1, InitLoginKeepsPortal
<1>2. CASE \/ \E s \in Ids : D!Phase1Waits(s) \/ D!StreamExpires(s)
           \/ D!InitLoginFails \/ D!StartOver \/ D!StreamDrops
  <2>1. /\ UNCHANGED <<d_row, d_bind, d_claimTok, d_audited, d_ends, d_claim, d_submit,
                       d_claimCookie, d_cookie, d_asking, d_user>>
        /\ d_page' = d_page \/ d_page'.phase # "success"
    BY <1>2 DEF D!Phase1Waits, D!StreamExpires, D!InitLoginFails, D!StartOver, D!StreamDrops,
       D!server, D!jar, D!dashboard, D!Show
  <2> QED BY <2>1, PageKeepsPortal
<1>3. CASE \E s \in Ids : D!RowExpires(s) \/ D!TokensExpire(s)
  BY <1>3, TimeKeepsPortal
<1>4. CASE \E s \in Ids, k \in Requests :
           D!Phase1Bound(s, k) \/ D!Phase2Bound(s, k) \/ D!ClaimElsewhere(s, k)
  BY <1>4, ClaimSentKeepsPortal
<1>5. CASE \E s \in Ids, d \in D!Sides : D!Submit(d, s)
  BY <1>5, SubmitTakesToken, SubmitTooLate
<1>6. CASE \E k \in Requests : D!ClaimAnswered(k) \/ D!ClaimFails(k)
  BY <1>6, ClaimEndsKeepsPortal
<1>7. CASE \E k \in Requests : D!ClaimChecks(k)
  BY <1>7, ClaimChecksKeepsPortal
<1>8. CASE \E k \in Requests : D!ClaimAudits(k)
  BY <1>8, ClaimAuditsKeepsPortal
<1>9. CASE \E d \in D!Sides : D!SubmitVerdict(d)
  BY <1>9, SubmitVerdictKeepsPortal
<1>10. CASE \E d \in D!Sides : D!SubmitAnswered(d)
  BY <1>10, SubmitAnsweredKeepsPortal
<1>11. CASE D!Restart
  BY <1>11, RestartKeepsPortal
<1>12. CASE D!fetchMe \/ D!MeAnswered \/ D!logout
  BY <1>12, DashboardKeepsPortal
<1> QED BY <1>1, <1>2, <1>3, <1>4, <1>5, <1>6, <1>7, <1>8, <1>9, <1>10, <1>11, <1>12 DEF D!Next

\* Whatever the order of proof, stream, claim, deadline and restart, and whoever claims
\* when, the demo bank's cookies and success pages are of sessions that a proof bound, a
\* submission has its bind token alone, and at most one claim of a session is granted, on
\* record before its cookie.  The stream's cookie takes no claim and is on no record.
THEOREM PortalSound == Spec => [](focus = "portal" => PortalInv)
<1> DEFINE I == focus = "portal" => PortalInv
<1>1. Init => I
  BY PortalInvInit DEF Init, ConsoleInit
<1>2. I /\ [Next]_vars => I'
  <2> SUFFICES ASSUME I, [Next]_vars PROVE I'
    OBVIOUS
  <2>1. focus' = focus
    BY FocusKept
  <2>2. CASE focus # "portal"
    BY <2>1, <2>2
  <2>3. CASE focus = "portal"
    <3>1. PortalInv /\ (D!Next \/ UNCHANGED d_vars)
      BY <2>3, PortalSteps
    <3>2. CASE UNCHANGED d_vars
      <4>1. UNCHANGED <<d_row, d_bind, d_claimTok, d_audited, d_ends, d_claim, d_submit,
                        d_claimCookie, d_cookie, d_asking, d_user, d_page>>
        BY <3>2 DEF d_vars
      <4> QED BY <3>1, <4>1, PageKeepsPortal
    <3> QED BY <2>1, <3>1, <3>2, PortalInvNext
  <2> QED BY <2>2, <2>3
<1> QED BY <1>1, <1>2, PTL DEF Spec

\* At most one claim is between its token and its audit row, so the count is at most one.
LEMMA ClaimedOnceImplied == ASSUME PortalInv PROVE D!ClaimedOnce
<1>1. ASSUME NEW s \in Ids
      PROVE  d_ends[s] + Cardinality({k \in Requests : d_claim[k].at = "audit" /\ d_claim[k].session = s}) <= 1
  <2> DEFINE K == {k \in Requests : Auditing(k, s)}
  <2>1. K = {k \in Requests : d_claim[k].at = "audit" /\ d_claim[k].session = s}
    BY DEF Auditing
  <2>2. d_ends[s] \in 0..1
    BY DEF PortalInv, ClaimInv
  <2> HIDE DEF K
  <2>3. d_ends[s] + Cardinality(K) <= 1
    <3>1. CASE K = {}
      <4>1. Cardinality(K) = 0
        BY <3>1, FS_EmptySet
      <4> QED BY <2>2, <4>1
    <3>2. CASE K # {}
      <4>1. PICK k \in Requests : Auditing(k, s)
        BY <3>2 DEF K
      <4>2. K = {k}
        BY <4>1 DEF PortalInv, ClaimInv, K
      <4>3. Cardinality(K) = 1
        BY <4>2, FS_Singleton
      <4>4. d_ends[s] = 0
        BY <4>1 DEF PortalInv, ClaimInv, Auditing
      <4> QED BY <4>3, <4>4
    <3> QED BY <3>1, <3>2
  <2> QED BY <2>1, <2>3
<1>2. \A T : D!Cardinality(T) = Cardinality(T)
  BY DEF D!Cardinality, Cardinality
<1>3. \A k \in Requests : d_claim[k].at = "minted" => d_claim[k].session \in d_audited
  BY DEF PortalInv, ClaimInv
<1> QED BY <1>1, <1>2, <1>3 DEF D!ClaimedOnce

\* The invariant contains the property of the runs.
LEMMA PortalImplied == PortalInv => D!PortalHolds
<1> SUFFICES ASSUME PortalInv PROVE D!PortalHolds
  OBVIOUS
<1>1. D!SignedInIsBound
  BY DEF PortalInv, JarInv, Bound, D!SignedInIsBound
<1>2. D!BoundOnce
  BY DEF PortalInv, SubmitInv
<1> QED BY <1>1, <1>2, ClaimedOnceImplied DEF D!PortalHolds

-----------------------------------------------------------------------------
(* The pages that show a registration ceremony *)

Kinds == {"awaiting_device", "awaiting_commitment", "awaiting_verification", "completed"}

\* The signup page, and each answer on its way to it, shows a step its session reached.
SignupSound ==
    /\ \/ g_signup = G!Form
       \/ /\ g_signup \in [session : Ids, shows : 1..4]
          /\ g_signup.shows <= g_step[g_signup.session]
    /\ DOMAIN g_signupPoll = Requests
    /\ \A k \in Requests :
          \/ g_signupPoll[k] = G!Away
          \/ /\ g_signupPoll[k] \in [session : Ids, step : 1..4]
             /\ g_signupPoll[k].step <= g_step[g_signupPoll[k].session]

\* So does the operator's page, a poll that saw the end, and the phone's answer.
OperatorSound ==
    /\ g_operator \in [kind : Kinds \cup {"idle", "creating", "error"}, session : Ids \cup {None}]
    /\ g_operator.kind \in Kinds =>
          /\ g_operator.session \in Ids
          /\ G!StepOf[g_operator.kind] <= g_step[g_operator.session]

OpPollSound ==
    /\ DOMAIN g_opPoll = Requests
    /\ \A k \in Requests :
          \/ g_opPoll[k] = G!Away
          \/ /\ g_opPoll[k] \in [session : Ids, end : {"error", "completed"}]
             /\ g_opPoll[k].end = "completed" => g_step[g_opPoll[k].session] = 4

PhoneSound ==
    \/ g_phone = G!Away
    \/ /\ g_phone \in [session : Ids, done : {0} \cup 2..4]
       /\ g_phone.done <= g_step[g_phone.session]

ReachedInv ==
    /\ g_step \in [Ids -> 0..4]
    /\ SignupSound
    /\ OperatorSound
    /\ OpPollSound
    /\ PhoneSound

\* A ceremony only moves on.
StepsGrow ==
    /\ g_step' \in [Ids -> 0..4]
    /\ \A s \in Ids : g_step[s] <= g_step'[s]

\* The four steps and their numbers.
LEMMA StepNumbers ==
    /\ DOMAIN G!StepOf = Kinds
    /\ \A kind \in Kinds : G!StepOf[kind] \in 1..4
    /\ G!StepOf["awaiting_device"] = 1 /\ G!StepOf["completed"] = 4
    /\ \A n \in 1..4 : G!KindOf(n) \in Kinds /\ G!StepOf[G!KindOf(n)] = n
<1>1. /\ DOMAIN G!StepOf = Kinds
      /\ G!StepOf["awaiting_device"] = 1 /\ G!StepOf["awaiting_commitment"] = 2
      /\ G!StepOf["awaiting_verification"] = 3 /\ G!StepOf["completed"] = 4
  BY DEF G!StepOf, Kinds, G!Completed
<1>2. \A kind \in Kinds : G!StepOf[kind] \in 1..4
  BY <1>1 DEF Kinds
<1>3. ASSUME NEW n \in 1..4 PROVE G!KindOf(n) \in Kinds /\ G!StepOf[G!KindOf(n)] = n
  <2>1. n = 1 \/ n = 2 \/ n = 3 \/ n = 4
    OBVIOUS
  <2>2. \E kind \in DOMAIN G!StepOf : G!StepOf[kind] = n
    BY <1>1, <2>1 DEF Kinds
  <2> QED BY <1>1, <2>2 DEF G!KindOf
<1> QED BY <1>1, <1>2, <1>3

\* Nothing is open at first, and the pages show nothing.
LEMMA ReachedInvInit == G!Init => ReachedInv
<1> SUFFICES ASSUME G!Init PROVE ReachedInv
  OBVIOUS
<1>1. g_operator = [kind |-> "idle", session |-> None]
  BY DEF G!Init, G!Phase
<1>2. OperatorSound
  BY <1>1 DEF OperatorSound, Kinds
<1> QED BY <1>2 DEF G!Init, ReachedInv, SignupSound, OpPollSound, PhoneSound

\* A ceremony that nobody advances has not gone back.
LEMMA StepStays ==
    ASSUME ReachedInv, UNCHANGED g_step
    PROVE  StepsGrow
BY DEF ReachedInv, StepsGrow

\* A ceremony goes one step on.
LEMMA StepAdvances ==
    ASSUME ReachedInv, NEW s \in Ids, G!Advance(s)
    PROVE  StepsGrow /\ g_step'[s] = g_step[s] + 1 /\ g_step[s] \in 1..3
BY DEF ReachedInv, StepsGrow, G!Advance, G!Moves

\* A ceremony is opened at its first step.
LEMMA StepOpens ==
    ASSUME ReachedInv, NEW s \in Ids, G!Open(s)
    PROVE  StepsGrow /\ g_step'[s] = 1
BY DEF ReachedInv, StepsGrow, G!Open

\* What the signup page shows stays reached while ceremonies go on.
LEMMA SignupOutlives ==
    ASSUME ReachedInv, StepsGrow, UNCHANGED <<g_signup, g_signupPoll>>
    PROVE  SignupSound'
BY DEF ReachedInv, StepsGrow, SignupSound

\* What the operator's page shows stays reached while ceremonies go on.
LEMMA OperatorOutlives ==
    ASSUME ReachedInv, StepsGrow, UNCHANGED g_operator
    PROVE  OperatorSound'
BY StepNumbers DEF ReachedInv, StepsGrow, OperatorSound

\* A poll's answer stays reached while ceremonies go on.
LEMMA OpPollOutlives ==
    ASSUME ReachedInv, StepsGrow, UNCHANGED g_opPoll
    PROVE  OpPollSound'
BY DEF ReachedInv, StepsGrow, OpPollSound

\* What the phone shows stays reached while ceremonies go on.
LEMMA PhoneOutlives ==
    ASSUME ReachedInv, StepsGrow, UNCHANGED g_phone
    PROVE  PhoneSound'
BY DEF ReachedInv, StepsGrow, PhoneSound

\* The three together, for the steps of the signup page.
LEMMA OperatorPageOutlives ==
    ASSUME ReachedInv, StepsGrow, UNCHANGED <<g_operator, g_opPoll, g_phone>>
    PROVE  OperatorSound' /\ OpPollSound' /\ PhoneSound'
BY OperatorOutlives, OpPollOutlives, PhoneOutlives

\* Showing a phase that the session has reached.
LEMMA PhaseReached ==
    ASSUME ReachedInv, StepsGrow, NEW kind \in Kinds \cup {"idle", "creating", "error"},
           NEW s \in Ids \cup {None}, G!Dispatch(G!Phase(kind, s)),
           kind \in Kinds => s \in Ids /\ G!StepOf[kind] <= g_step'[s]
    PROVE  OperatorSound' /\ OpPollSound'
<1> DEFINE new == [kind |-> kind, session |-> s]
<1>1. new \in [kind : Kinds \cup {"idle", "creating", "error"}, session : Ids \cup {None}]
      /\ new.kind = kind /\ new.session = s
  OBVIOUS
<1>2. g_operator' = new
      /\ g_opPoll' \in {g_opPoll, [k \in Requests |-> G!Away]}
  BY DEF G!Dispatch, G!Phase
<1> HIDE DEF new
<1>3. OperatorSound'
  BY <1>1, <1>2 DEF OperatorSound
<1>4. CASE g_opPoll' = g_opPoll
  BY <1>3, <1>4, OpPollOutlives
<1>5. CASE g_opPoll' = [k \in Requests |-> G!Away]
  BY <1>3, <1>5 DEF OpPollSound
<1> QED BY <1>2, <1>4, <1>5

\* The phone scans the next code, or the ceremony is given up.
LEMMA PhoneScansKeepsReached ==
    ASSUME ReachedInv, NEW s \in Ids, G!PhoneScans(s) \/ G!Abandon(s)
    PROVE  ReachedInv'
<1>1. StepsGrow
  BY StepAdvances, StepStays DEF G!PhoneScans, G!Abandon
<1>2. UNCHANGED <<g_signup, g_signupPoll, g_operator, g_opPoll, g_phone>>
  BY DEF G!PhoneScans, G!Abandon, G!bankPage, G!opPage
<1> QED BY <1>1, <1>2, SignupOutlives, OperatorPageOutlives DEF ReachedInv, StepsGrow

\* The signup page opens a ceremony.
LEMMA OpenAccountKeepsReached ==
    ASSUME ReachedInv, NEW s \in Ids, G!openAccount(s)
    PROVE  ReachedInv'
<1> DEFINE new == [session |-> s, shows |-> 1]
<1>1. /\ G!Open(s) /\ g_signup' \in {new, G!Form}
      /\ UNCHANGED <<g_signupPoll, g_operator, g_opPoll, g_phone>>
  BY DEF G!openAccount, G!opPage
<1>2. StepsGrow /\ g_step'[s] = 1
  BY <1>1, StepOpens
<1>3. new \in [session : Ids, shows : 1..4] /\ new.session = s /\ new.shows = 1
  OBVIOUS
<1> HIDE DEF new
<1>4. SignupSound'
  BY <1>1, <1>2, <1>3 DEF ReachedInv, StepsGrow, SignupSound
<1> QED BY <1>1, <1>2, <1>4, OperatorPageOutlives DEF ReachedInv, StepsGrow

\* A poll reads the step that the server is at.
LEMMA PollReadsKeepsReached ==
    ASSUME ReachedInv, NEW k \in Requests, G!PollReads(k)
    PROVE  ReachedInv'
<1> DEFINE new == [session |-> g_signup.session, step |-> g_step[g_signup.session]]
<1>1. /\ g_signup.shows > 0 /\ g_signupPoll' = [g_signupPoll EXCEPT ![k] = new]
      /\ UNCHANGED <<g_step, g_signup, g_operator, g_opPoll, g_phone>>
  BY DEF G!PollReads, G!opPage
<1>2. /\ g_signup \in [session : Ids, shows : 1..4]
      /\ g_signup.shows <= g_step[g_signup.session]
  <2>1. G!Form.shows = 0
    BY DEF G!Form
  <2> QED BY <1>1, <2>1 DEF ReachedInv, SignupSound
<1>3. g_step[g_signup.session] \in 1..4
  BY <1>2 DEF ReachedInv
<1>4. /\ new \in [session : Ids, step : 1..4]
      /\ new.step = g_step[new.session]
  BY <1>2, <1>3
<1> HIDE DEF new
<1>5. new.step <= g_step'[new.session]
  BY <1>1, <1>4 DEF ReachedInv
<1>6. SignupSound'
  BY <1>1, <1>4, <1>5 DEF ReachedInv, SignupSound
<1> QED BY <1>1, <1>6, StepStays, OperatorPageOutlives DEF ReachedInv, StepsGrow

\* A poll's answer, perhaps an old one, reaches the page.
LEMMA PollAnsweredKeepsReached ==
    ASSUME ReachedInv, NEW k \in Requests, G!PollAnswered(k)
    PROVE  ReachedInv'
<1>1. /\ g_signupPoll[k] # G!Away
      /\ g_signupPoll' = [g_signupPoll EXCEPT ![k] = G!Away]
      /\ g_signup' = IF g_signup.session = g_signupPoll[k].session
                       THEN [g_signup EXCEPT !.shows = g_signupPoll[k].step] ELSE g_signup
      /\ UNCHANGED <<g_step, g_operator, g_opPoll, g_phone>>
  BY DEF G!PollAnswered, G!opPage
<1>2. /\ g_signupPoll[k] \in [session : Ids, step : 1..4]
      /\ g_signupPoll[k].step <= g_step[g_signupPoll[k].session]
  BY <1>1 DEF ReachedInv, SignupSound
<1>3. \/ g_signup' = G!Form
      \/ /\ g_signup' \in [session : Ids, shows : 1..4]
         /\ g_signup'.shows <= g_step[g_signup'.session]
  <2>1. CASE g_signup.session = g_signupPoll[k].session
    <3>1. g_signup.session \in Ids
      BY <1>2, <2>1
    <3>2. g_signup \in [session : Ids, shows : 1..4]
      BY <3>1, ServicesConstants DEF ReachedInv, SignupSound, G!Form
    <3>3. /\ g_signup' \in [session : Ids, shows : 1..4]
          /\ g_signup'.shows = g_signupPoll[k].step /\ g_signup'.session = g_signup.session
      BY <1>1, <1>2, <2>1, <3>2
    <3> QED BY <1>2, <2>1, <3>3
  <2>2. CASE g_signup.session # g_signupPoll[k].session
    BY <1>1, <2>2 DEF ReachedInv, SignupSound
  <2> QED BY <2>1, <2>2
<1>4. SignupSound'
  BY <1>1, <1>3 DEF ReachedInv, SignupSound
<1> QED BY <1>1, <1>4, StepStays, OperatorPageOutlives DEF ReachedInv, StepsGrow

\* The signup page is left with polls under way.
LEMMA LeaveKeepsReached ==
    ASSUME ReachedInv, G!LeaveSignUp
    PROVE  ReachedInv'
<1>1. g_signup' = G!Form /\ UNCHANGED <<g_step, g_signupPoll, g_operator, g_opPoll, g_phone>>
  BY DEF G!LeaveSignUp, G!opPage
<1>2. SignupSound'
  BY <1>1 DEF ReachedInv, SignupSound
<1> QED BY <1>1, <1>2, StepStays, OperatorPageOutlives DEF ReachedInv, StepsGrow

\* The operator starts, or starts over.
LEMMA StartKeepsReached ==
    ASSUME ReachedInv, G!start \/ G!reset
    PROVE  ReachedInv'
<1>1. /\ UNCHANGED <<g_step, g_signup, g_signupPoll, g_phone>>
      /\ \E kind \in {"creating", "idle"} : G!Dispatch(G!Phase(kind, None))
  BY DEF G!start, G!reset, G!bankPage
<1>2. StepsGrow
  BY <1>1, StepStays
<1>3. OperatorSound' /\ OpPollSound'
  BY <1>1, <1>2, PhaseReached DEF Kinds
<1> QED BY <1>1, <1>2, <1>3, SignupOutlives, PhoneOutlives DEF ReachedInv, StepsGrow

\* The operator's ceremony is created.
LEMMA CreatedKeepsReached ==
    ASSUME ReachedInv, NEW s \in Ids, G!Created(s)
    PROVE  ReachedInv'
<1>1. /\ G!Open(s) /\ UNCHANGED <<g_signup, g_signupPoll, g_phone>>
      /\ \/ G!Dispatch(G!Phase("awaiting_device", s))
         \/ G!Dispatch(G!Phase("error", None))
  BY DEF G!Created, G!bankPage
<1>2. StepsGrow /\ g_step'[s] = 1
  BY <1>1, StepOpens
<1>3. OperatorSound' /\ OpPollSound'
  <2>1. CASE G!Dispatch(G!Phase("awaiting_device", s))
    BY <1>2, <2>1, PhaseReached, StepNumbers DEF Kinds
  <2>2. CASE G!Dispatch(G!Phase("error", None))
    BY <1>2, <2>2, PhaseReached DEF Kinds
  <2> QED BY <1>1, <2>1, <2>2
<1> QED BY <1>1, <1>2, <1>3, SignupOutlives, PhoneOutlives DEF ReachedInv, StepsGrow

\* A page that waits shows an open ceremony.
LEMMA WaitingReached ==
    ASSUME ReachedInv, G!Waiting
    PROVE  /\ g_operator.session \in Ids
           /\ g_operator.kind \in {"awaiting_device", "awaiting_commitment", "awaiting_verification"}
           /\ g_step[g_operator.session] \in 1..4
<1>1. g_operator.kind \in Kinds
  BY DEF G!Waiting, Kinds
<1>2. /\ g_operator.session \in Ids /\ G!StepOf[g_operator.kind] \in 1..4
      /\ G!StepOf[g_operator.kind] <= g_step[g_operator.session]
  BY <1>1, StepNumbers DEF ReachedInv, OperatorSound
<1>3. g_step[g_operator.session] \in 0..4
  BY <1>2 DEF ReachedInv
<1> QED BY <1>2, <1>3 DEF G!Waiting

\* The operator's poll reads the step.
LEMMA OpPollReadsKeepsReached ==
    ASSUME ReachedInv, NEW k \in Requests, G!OpPollReads(k)
    PROVE  ReachedInv'
<1> DEFINE new == [session |-> g_operator.session,
                   end |-> IF g_operator.session \in g_abandoned THEN "error" ELSE "completed"]
<1>1. /\ G!Waiting /\ g_opPoll' = [g_opPoll EXCEPT ![k] = new]
      /\ \/ g_step[g_operator.session] = 4
         \/ g_operator.session \in g_abandoned
      /\ UNCHANGED <<g_step, g_signup, g_signupPoll, g_operator, g_phone>>
  BY DEF G!OpPollReads, G!bankPage, G!Completed
<1>2. /\ new \in [session : Ids, end : {"error", "completed"}]
      /\ new.end = "completed" => g_step[new.session] = 4
  BY <1>1, WaitingReached
<1> HIDE DEF new
<1>3. OpPollSound'
  BY <1>1, <1>2 DEF ReachedInv, OpPollSound
<1> QED BY <1>1, <1>3, StepStays, SignupOutlives, OperatorOutlives, PhoneOutlives
        DEF ReachedInv, StepsGrow

\* The poll's answer reaches the page, or a later one.
LEMMA OpPollAnsweredKeepsReached ==
    ASSUME ReachedInv, NEW k \in Requests, G!OpPollAnswered(k)
    PROVE  ReachedInv'
<1>1. /\ g_opPoll[k] # G!Away
      /\ G!Dispatch(G!Phase(g_opPoll[k].end, g_opPoll[k].session))
      /\ UNCHANGED <<g_step, g_signup, g_signupPoll, g_phone>>
  BY DEF G!OpPollAnswered, G!bankPage
<1>2. /\ g_opPoll[k].session \in Ids /\ g_opPoll[k].end \in {"error", "completed"}
      /\ g_opPoll[k].end = "completed" => g_step[g_opPoll[k].session] = 4
  BY <1>1 DEF ReachedInv, OpPollSound
<1>3. StepsGrow
  BY <1>1, StepStays
<1>4. OperatorSound' /\ OpPollSound'
  <2>1. CASE g_opPoll[k].end = "completed"
    BY <1>1, <1>2, <1>3, <2>1, PhaseReached, StepNumbers DEF Kinds
  <2>2. CASE g_opPoll[k].end = "error"
    BY <1>1, <1>2, <1>3, <2>2, PhaseReached DEF Kinds
  <2> QED BY <1>2, <2>1, <2>2
<1> QED BY <1>1, <1>3, <1>4, SignupOutlives, PhoneOutlives DEF ReachedInv, StepsGrow

\* The phone scans what the operator's page shows.
LEMMA ScanKeepsReached ==
    ASSUME ReachedInv, G!Scan
    PROVE  ReachedInv'
<1> DEFINE s == g_operator.session
           yes == [session |-> s, done |-> g_step[s] + 1]
           no == [session |-> s, done |-> 0]
<1>1. /\ G!Waiting /\ UNCHANGED <<g_signup, g_signupPoll, g_operator, g_opPoll>>
      /\ \/ G!Advance(s) /\ g_phone' = yes
         \/ g_phone' = no /\ UNCHANGED g_step
  BY DEF G!Scan, G!bankPage
<1>2. s \in Ids /\ g_step[s] \in 1..4
  BY <1>1, WaitingReached
<1>3. StepsGrow /\ PhoneSound'
  <2>1. CASE G!Advance(s) /\ g_phone' = yes
    <3>1. StepsGrow /\ g_step'[s] = g_step[s] + 1 /\ g_step[s] \in 1..3
      BY <1>2, <2>1, StepAdvances
    <3>2. yes \in [session : Ids, done : {0} \cup 2..4] /\ yes.done <= g_step'[yes.session]
      BY <1>2, <3>1
    <3> QED BY <2>1, <3>1, <3>2 DEF PhoneSound
  <2>2. CASE g_phone' = no /\ UNCHANGED g_step
    <3>1. no \in [session : Ids, done : {0} \cup 2..4] /\ no.done <= g_step'[no.session]
      BY <1>2, <2>2
    <3> QED BY <2>2, <3>1, StepStays DEF PhoneSound
  <2> QED BY <1>1, <2>1, <2>2
<1> QED BY <1>1, <1>3, SignupOutlives, OperatorOutlives, OpPollOutlives DEF ReachedInv, StepsGrow

\* The scan is answered, or fails.
LEMMA ScanEndsKeepsReached ==
    ASSUME ReachedInv, G!ScanAnswered \/ G!ScanFails
    PROVE  ReachedInv'
<1>1. /\ g_phone # G!Away /\ g_phone' = G!Away /\ UNCHANGED <<g_step, g_signup, g_signupPoll>>
      /\ \/ g_phone.done > 0 /\ G!Dispatch(G!Phase(G!KindOf(g_phone.done), g_phone.session))
         \/ UNCHANGED <<g_operator, g_opPoll>>
  BY DEF G!ScanAnswered, G!ScanFails, G!bankPage
<1>2. StepsGrow
  BY <1>1, StepStays
<1>3. /\ g_phone.session \in Ids /\ g_phone.done \in {0} \cup 2..4
      /\ g_phone.done <= g_step[g_phone.session]
  BY <1>1 DEF ReachedInv, PhoneSound
<1>4. OperatorSound' /\ OpPollSound'
  <2>1. CASE /\ g_phone.done > 0
             /\ G!Dispatch(G!Phase(G!KindOf(g_phone.done), g_phone.session))
    <3>1. /\ G!KindOf(g_phone.done) \in Kinds
          /\ G!StepOf[G!KindOf(g_phone.done)] <= g_step'[g_phone.session]
      BY <1>1, <1>3, <2>1, StepNumbers
    <3> QED BY <1>2, <1>3, <2>1, <3>1, PhaseReached
  <2>2. CASE UNCHANGED <<g_operator, g_opPoll>>
    BY <1>2, <2>2, OperatorOutlives, OpPollOutlives
  <2> QED BY <1>1, <2>1, <2>2
<1>5. PhoneSound'
  BY <1>1 DEF PhoneSound
<1> QED BY <1>1, <1>2, <1>4, <1>5, SignupOutlives DEF ReachedInv, StepsGrow

\* No step of the pages breaks the invariant.
LEMMA ReachedInvNext == ReachedInv /\ G!Next => ReachedInv'
<1> SUFFICES ASSUME ReachedInv, G!Next PROVE ReachedInv'
  OBVIOUS
<1>1. CASE \E s \in Ids : \/ G!PhoneScans(s) \/ G!Abandon(s) \/ G!openAccount(s) \/ G!Created(s)
  BY <1>1, PhoneScansKeepsReached, OpenAccountKeepsReached, CreatedKeepsReached
<1>2. CASE \E k \in Requests : G!PollReads(k) \/ G!PollAnswered(k)
  BY <1>2, PollReadsKeepsReached, PollAnsweredKeepsReached
<1>3. CASE \E k \in Requests : G!OpPollReads(k) \/ G!OpPollAnswered(k)
  BY <1>3, OpPollReadsKeepsReached, OpPollAnsweredKeepsReached
<1>4. CASE G!LeaveSignUp \/ G!start \/ G!reset
  BY <1>4, LeaveKeepsReached, StartKeepsReached
<1>5. CASE G!Scan \/ G!ScanAnswered \/ G!ScanFails
  BY <1>5, ScanKeepsReached, ScanEndsKeepsReached
<1> QED BY <1>1, <1>2, <1>3, <1>4, <1>5 DEF G!Next

\* What the signup page and the operator's page show, the session has reached, in
\* whatever order the answers of their polls and of the phone arrive.
THEOREM ReachedSound == Spec => [](focus = "signup" => ReachedInv)
<1> DEFINE I == focus = "signup" => ReachedInv
<1>1. Init => I
  BY ReachedInvInit DEF Init, ConsoleInit
<1>2. I /\ [Next]_vars => I'
  <2> SUFFICES ASSUME I, [Next]_vars PROVE I'
    OBVIOUS
  <2>1. focus' = focus
    BY FocusKept
  <2>2. CASE focus # "signup"
    BY <2>1, <2>2
  <2>3. CASE focus = "signup"
    <3>1. ReachedInv /\ (G!Next \/ UNCHANGED g_vars)
      BY <2>3, SignupSteps
    <3>2. CASE UNCHANGED g_vars
      BY <3>1, <3>2 DEF g_vars, ReachedInv, SignupSound, OperatorSound, OpPollSound, PhoneSound
    <3> QED BY <2>1, <3>1, <3>2, ReachedInvNext
  <2> QED BY <2>2, <2>3
<1> QED BY <1>1, <1>2, PTL DEF Spec

\* The invariant contains the property of the runs.
LEMMA ReachedImplied == ReachedInv => G!ShownIsReached
<1> SUFFICES ASSUME ReachedInv PROVE G!ShownIsReached
  OBVIOUS
<1>1. ASSUME g_signup.session # None PROVE g_signup.shows \in 1..g_step[g_signup.session]
  <2>1. /\ g_signup \in [session : Ids, shows : 1..4]
        /\ g_signup.shows <= g_step[g_signup.session]
    BY <1>1 DEF ReachedInv, SignupSound, G!Form
  <2>2. g_step[g_signup.session] \in 0..4
    BY <2>1 DEF ReachedInv
  <2> QED BY <2>1, <2>2
<1>2. ASSUME g_operator.kind \in DOMAIN G!StepOf
      PROVE  g_step[g_operator.session] >= G!StepOf[g_operator.kind]
  <2>1. /\ g_operator.session \in Ids /\ G!StepOf[g_operator.kind] \in 1..4
        /\ G!StepOf[g_operator.kind] <= g_step[g_operator.session]
    BY <1>2, StepNumbers DEF ReachedInv, OperatorSound
  <2>2. g_step[g_operator.session] \in 0..4
    BY <2>1 DEF ReachedInv
  <2> QED BY <2>1, <2>2
<1> QED BY <1>1, <1>2 DEF G!ShownIsReached

-----------------------------------------------------------------------------
(* The pages that wait on a pairing session *)

Phases == {"creating", "pending", "awaiting_proof", "success", "expired", "error"}

\* A page names a session only while it waits for it or shows it bound, and only one
\* that the server has opened; it has a stream exactly while it waits.
PageSound(p) ==
    /\ q_page[p] \in [phase : Phases, session : Ids \cup {None}]
    /\ q_stream[p] \in {"none", "connecting", "open"}
    /\ q_page[p].session \in Ids <=> q_page[p].phase \in {"pending", "awaiting_proof", "success"}
    /\ q_page[p].session \in Ids => q_row[q_page[p].session] # "none"
    /\ q_page[p].phase = "success" => q_row[q_page[p].session] = "consumed"
    /\ Q!Holds(q_page[p].phase) <=> q_stream[p] \in {"connecting", "open"}

SubmitSound ==
    /\ q_submit \in {Q!Idle} \cup [at : {"sent", "bound", "refused"}, session : Ids]
    /\ q_submit.at = "bound" => q_row[q_submit.session] = "consumed"

TokenSound ==
    /\ q_token \in Ids \cup {None}
    /\ q_token # None => q_row[q_token] = "consumed"

WatchInv ==
    /\ q_row \in [Ids -> {"none", "issued", "consumed", "over"}]
    /\ DOMAIN q_page = Q!Pages /\ DOMAIN q_stream = Q!Pages
    /\ \A p \in Q!Pages : PageSound(p)
    /\ SubmitSound
    /\ TokenSound

\* Sessions are opened once and bound for good.
Onward ==
    /\ q_row' \in [Ids -> {"none", "issued", "consumed", "over"}]
    /\ \A s \in Ids : /\ q_row[s] = "consumed" => q_row'[s] = "consumed"
                      /\ q_row[s] # "none" => q_row'[s] # "none"

\* The pages start without a session.
LEMMA WatchInvInit == Q!Init => WatchInv
<1> SUFFICES ASSUME Q!Init PROVE WatchInv
  OBVIOUS
<1>1. \A p \in Q!Pages : q_page[p] = [phase |-> "creating", session |-> None] /\ q_stream[p] = "none"
  BY DEF Q!Init
<1>2. \A p \in Q!Pages : PageSound(p)
  BY <1>1, ServicesConstants DEF PageSound, Q!Holds, Phases
<1>3. SubmitSound /\ TokenSound
  BY DEF Q!Init, SubmitSound, TokenSound, Q!Idle
<1> QED BY <1>2, <1>3 DEF Q!Init, WatchInv

\* A step of the session's row that touches no page.
LEMMA PagesOutlive ==
    ASSUME WatchInv, Onward, UNCHANGED <<q_page, q_stream>>
    PROVE  /\ DOMAIN q_page' = Q!Pages /\ DOMAIN q_stream' = Q!Pages
           /\ \A p \in Q!Pages : PageSound(p)'
<1>1. ASSUME NEW p \in Q!Pages PROVE PageSound(p)'
  BY <1>1 DEF WatchInv, PageSound, Onward, Q!Holds
<1> QED BY <1>1 DEF WatchInv

\* The phone's submission outlives a step elsewhere.
LEMMA SubmitOutlives ==
    ASSUME WatchInv, Onward, UNCHANGED q_submit
    PROVE  SubmitSound'
BY DEF WatchInv, SubmitSound, Onward, Q!Idle

\* The pairing token outlives a step elsewhere.
LEMMA TokenOutlives ==
    ASSUME WatchInv, Onward, UNCHANGED q_token
    PROVE  TokenSound'
BY DEF WatchInv, TokenSound, Onward

\* The reducer: a phase that names a session gets one that is open, or bound when the
\* phase says so, and its stream starts unless the page was waiting for it already.
LEMMA DispatchSound ==
    ASSUME WatchInv, Onward, NEW p \in Q!Pages, NEW phase \in Phases, NEW s \in Ids \cup {None},
           Q!Dispatch(p, phase, s),
           s \in Ids <=> phase \in {"pending", "awaiting_proof", "success"},
           s \in Ids => q_row'[s] # "none",
           phase = "success" => q_row'[s] = "consumed",
           Q!Holds(phase) /\ q_page[p].session = s => Q!Holds(q_page[p].phase)
    PROVE  /\ DOMAIN q_page' = Q!Pages /\ DOMAIN q_stream' = Q!Pages
           /\ \A r \in Q!Pages : PageSound(r)'
<1> DEFINE new == [phase |-> phase, session |-> s]
           to == CASE ~Q!Holds(phase) -> "none"
                   [] Q!Holds(phase) /\ q_page[p].session = s -> q_stream[p]
                   [] OTHER -> "connecting"
<1>1. q_page' = [q_page EXCEPT ![p] = new] /\ q_stream' = [q_stream EXCEPT ![p] = to]
  BY DEF Q!Dispatch
<1>2. new \in [phase : Phases, session : Ids \cup {None}] /\ new.phase = phase /\ new.session = s
  OBVIOUS
<1>3. PageSound(p)
  BY DEF WatchInv
<1>4. to \in {"none", "connecting", "open"} /\ (Q!Holds(phase) <=> to \in {"connecting", "open"})
  <2>1. CASE ~Q!Holds(phase)
    BY <2>1
  <2>2. CASE Q!Holds(phase) /\ q_page[p].session = s
    <3>1. to = q_stream[p]
      BY <2>2
    <3> QED BY <2>2, <3>1, <1>3 DEF PageSound
  <2>3. CASE Q!Holds(phase) /\ q_page[p].session # s
    BY <2>3
  <2> QED BY <2>1, <2>2, <2>3
<1> HIDE DEF new, to
<1>5. q_page'[p] = new /\ q_stream'[p] = to
      /\ \A r \in Q!Pages : r # p => q_page'[r] = q_page[r] /\ q_stream'[r] = q_stream[r]
  BY <1>1 DEF WatchInv
<1>6. PageSound(p)'
  BY <1>2, <1>4, <1>5 DEF PageSound
<1>7. ASSUME NEW r \in Q!Pages, r # p PROVE PageSound(r)'
  BY <1>5, <1>7 DEF WatchInv, PageSound, Onward, Q!Holds
<1> QED BY <1>1, <1>6, <1>7 DEF WatchInv

\* A page past its start shows a session that was created.
LEMMA PageSessions ==
    ASSUME WatchInv, NEW p \in Q!Pages
    PROVE  /\ q_page[p].phase \in Phases /\ q_page[p].session \in Ids \cup {None}
           /\ q_page[p].session \in Ids <=> q_page[p].phase \in {"pending", "awaiting_proof", "success"}
           /\ q_page[p].session \in Ids => q_row[q_page[p].session] # "none"
           /\ None \notin Ids
BY ServicesConstants DEF WatchInv, PageSound

\* Nothing happens to the rows in most steps of a page.
LEMMA RowsStay ==
    ASSUME WatchInv, UNCHANGED q_row
    PROVE  Onward
BY DEF WatchInv, Onward

\* Turning a page to a card that names no session.
LEMMA CardKeepsWatch ==
    ASSUME WatchInv, NEW p \in Q!Pages, NEW phase \in {"creating", "expired", "error"},
           Q!Dispatch(p, phase, None), UNCHANGED <<q_row, q_submit, q_token>>
    PROVE  WatchInv'
<1>1. Onward
  BY RowsStay
<1>2. /\ phase \in Phases /\ None \in Ids \cup {None} /\ None \notin Ids /\ ~Q!Holds(phase)
  BY ServicesConstants DEF Phases, Q!Holds
<1>3. phase \notin {"pending", "awaiting_proof", "success"}
  OBVIOUS
<1>4. /\ DOMAIN q_page' = Q!Pages /\ DOMAIN q_stream' = Q!Pages
      /\ \A r \in Q!Pages : PageSound(r)'
  BY <1>1, <1>2, <1>3, DispatchSound
<1>5. SubmitSound' /\ TokenSound'
  BY <1>1, SubmitOutlives, TokenOutlives
<1> QED BY <1>1, <1>4, <1>5 DEF WatchInv, Onward

\* A page creates its session and shows its code.
LEMMA CreatedKeepsWatch ==
    ASSUME WatchInv, NEW p \in Q!Pages, NEW s \in Ids, Q!Created(p, s)
    PROVE  WatchInv'
<1>1. q_row[s] = "none" /\ q_row' = [q_row EXCEPT ![s] = "issued"]
      /\ UNCHANGED <<q_submit, q_token>>
  BY DEF Q!Created
<1>2. Onward /\ q_row'[s] = "issued"
  BY <1>1 DEF WatchInv, Onward
<1>3. /\ DOMAIN q_page' = Q!Pages /\ DOMAIN q_stream' = Q!Pages
      /\ \A r \in Q!Pages : PageSound(r)'
  <2>1. CASE Q!Dispatch(p, "pending", s)
    <3>1. q_page[p].session # s
      BY <1>1, PageSessions
    <3> QED BY <2>1, <3>1, <1>2, DispatchSound DEF Phases
  <2>2. CASE Q!Dispatch(p, "error", None)
    BY <2>2, <1>2, DispatchSound, ServicesConstants DEF Phases, Q!Holds
  <2> QED BY <2>1, <2>2 DEF Q!Created
<1>4. SubmitSound' /\ TokenSound'
  BY <1>1, <1>2, SubmitOutlives, TokenOutlives
<1> QED BY <1>2, <1>3, <1>4 DEF WatchInv, Onward

\* The phone scans a code.
LEMMA PhoneScannedKeepsWatch ==
    ASSUME WatchInv, Q!PhoneScanned
    PROVE  WatchInv'
<1> DEFINE s == q_page["login"].session
<1>1. /\ q_page["login"].phase = "pending" /\ Q!Dispatch("login", "awaiting_proof", s)
      /\ UNCHANGED <<q_row, q_submit, q_token>> /\ "login" \in Q!Pages
  BY DEF Q!PhoneScanned, Q!Pages
<1>2. s \in Ids /\ q_row[s] # "none"
  BY <1>1, PageSessions
<1>3. Onward /\ q_row'[s] # "none"
  BY <1>1, <1>2, RowsStay
<1>4. Q!Holds(q_page["login"].phase) /\ "awaiting_proof" \in Phases /\ s \in Ids \cup {None}
  BY <1>1, <1>2 DEF Q!Holds, Phases
<1> HIDE DEF s
<1>5. /\ DOMAIN q_page' = Q!Pages /\ DOMAIN q_stream' = Q!Pages
      /\ \A r \in Q!Pages : PageSound(r)'
  BY <1>1, <1>2, <1>3, <1>4, DispatchSound
<1>6. SubmitSound' /\ TokenSound'
  BY <1>1, <1>3, SubmitOutlives, TokenOutlives
<1> QED BY <1>3, <1>5, <1>6 DEF WatchInv, Onward

\* The stream opens or drops; the page is as it was.
LEMMA StreamKeepsWatch ==
    ASSUME WatchInv, NEW p \in Q!Pages, NEW to \in {"connecting", "open"},
           q_stream[p] \in {"connecting", "open"}, q_stream' = [q_stream EXCEPT ![p] = to],
           UNCHANGED <<q_row, q_page, q_submit, q_token>>
    PROVE  WatchInv'
<1>1. Onward
  BY RowsStay
<1>2. q_stream'[p] = to /\ \A r \in Q!Pages : r # p => q_stream'[r] = q_stream[r]
  BY DEF WatchInv
<1>3. ASSUME NEW r \in Q!Pages PROVE PageSound(r)'
  <2>1. PageSound(r) /\ PageSound(p)
    BY <1>3 DEF WatchInv
  <2>2. CASE r = p
    BY <1>2, <2>1, <2>2 DEF PageSound, Q!Holds
  <2>3. CASE r # p
    BY <1>2, <2>1, <2>3, <1>3 DEF PageSound, Q!Holds
  <2> QED BY <2>2, <2>3
<1>4. SubmitSound' /\ TokenSound'
  BY <1>1, SubmitOutlives, TokenOutlives
<1> QED BY <1>1, <1>3, <1>4 DEF WatchInv, Onward

\* The page and the token of a session that is bound.
LEMMA BoundKeepsWatch ==
    ASSUME WatchInv, NEW p \in Q!Pages, NEW s \in Ids, Q!Dispatch(p, "success", s),
           q_row[s] = "consumed", UNCHANGED q_row, q_token' \in {q_token, s}, SubmitSound'
    PROVE  WatchInv'
<1>1. Onward /\ q_row'[s] = "consumed"
  BY RowsStay
<1>2. ~Q!Holds("success") /\ "success" \in Phases /\ s \in Ids \cup {None}
  BY DEF Q!Holds, Phases
<1>3. /\ DOMAIN q_page' = Q!Pages /\ DOMAIN q_stream' = Q!Pages
      /\ \A r \in Q!Pages : PageSound(r)'
  BY <1>1, <1>2, DispatchSound
<1>4. TokenSound'
  BY <1>1 DEF WatchInv, TokenSound
<1> QED BY <1>1, <1>3, <1>4 DEF WatchInv, Onward

\* A step that leaves the pages alone.
LEMMA ElsewhereKeepsWatch ==
    ASSUME WatchInv, Onward, SubmitSound', UNCHANGED <<q_page, q_stream, q_token>>
    PROVE  WatchInv'
BY PagesOutlive, TokenOutlives DEF WatchInv, Onward

\* The phone submits, and hears the verdict or nothing.
LEMMA SubmitKeepsWatch ==
    ASSUME WatchInv, Q!submitProofPayload \/ Q!SubmitVerdict \/ Q!SubmitFails
    PROVE  WatchInv'
<1>1. CASE Q!submitProofPayload
  <2>1. q_page["login"].session \in Ids
    BY <1>1, PageSessions DEF Q!submitProofPayload, Q!Pages
  <2>2. SubmitSound'
    BY <1>1, <2>1 DEF Q!submitProofPayload, SubmitSound
  <2>3. Onward
    BY <1>1, RowsStay DEF Q!submitProofPayload
  <2> QED BY <1>1, <2>2, <2>3, ElsewhereKeepsWatch DEF Q!submitProofPayload
<1>2. CASE Q!SubmitFails
  <2>1. SubmitSound'
    BY <1>2 DEF Q!SubmitFails, SubmitSound, Q!Idle
  <2>2. Onward
    BY <1>2, RowsStay DEF Q!SubmitFails
  <2> QED BY <1>2, <2>1, <2>2, ElsewhereKeepsWatch DEF Q!SubmitFails
<1>3. CASE Q!SubmitVerdict
  <2>1. q_submit \in [at : {"sent", "bound", "refused"}, session : Ids] /\ q_submit.session \in Ids
    BY <1>3 DEF Q!SubmitVerdict, WatchInv, SubmitSound, Q!Idle
  <2>2. CASE /\ q_row[q_submit.session] = "issued"
             /\ q_row' = [q_row EXCEPT ![q_submit.session] = "consumed"]
             /\ q_submit' = [q_submit EXCEPT !.at = "bound"]
    <3>1. Onward /\ q_row'[q_submit.session] = "consumed"
      BY <2>1, <2>2 DEF WatchInv, Onward
    <3>2. q_submit' \in [at : {"sent", "bound", "refused"}, session : Ids]
          /\ q_submit'.session = q_submit.session
      BY <2>1, <2>2
    <3>3. SubmitSound'
      BY <3>1, <3>2 DEF SubmitSound
    <3> QED BY <1>3, <3>1, <3>3, ElsewhereKeepsWatch DEF Q!SubmitVerdict
  <2>3. CASE q_submit' = [q_submit EXCEPT !.at = "refused"] /\ UNCHANGED q_row
    <3>1. q_submit' \in [at : {"sent", "bound", "refused"}, session : Ids]
          /\ q_submit'.at = "refused"
      BY <2>1, <2>3
    <3>2. SubmitSound'
      BY <3>1 DEF SubmitSound
    <3>3. Onward
      BY <2>3, RowsStay
    <3> QED BY <1>3, <3>2, <3>3, ElsewhereKeepsWatch DEF Q!SubmitVerdict
  <2> QED BY <1>3, <2>2, <2>3 DEF Q!SubmitVerdict
<1> QED BY <1>1, <1>2, <1>3

\* A session is proved, or ends.
LEMMA EndsKeepWatch ==
    ASSUME WatchInv, NEW s \in Ids, Q!PhoneProves(s) \/ Q!Ends(s)
    PROVE  WatchInv'
<1>1. Onward
  BY DEF Q!PhoneProves, Q!Ends, WatchInv, Onward
<1>2. UNCHANGED <<q_page, q_stream, q_submit, q_token>>
  BY DEF Q!PhoneProves, Q!Ends
<1> QED BY <1>1, <1>2, SubmitOutlives, ElsewhereKeepsWatch

\* No step of the pages breaks the invariant.
LEMMA WatchInvNext == WatchInv /\ Q!Next => WatchInv'
<1> SUFFICES ASSUME WatchInv, Q!Next PROVE WatchInv'
  OBVIOUS
<1>1. CASE \E p \in Q!Pages : \/ Q!CreateFails(p) \/ Q!Restart(p) \/ Q!StreamRefused(p)
  <2> PICK p \in Q!Pages : Q!CreateFails(p) \/ Q!Restart(p) \/ Q!StreamRefused(p)
    BY <1>1
  <2>1. /\ UNCHANGED <<q_row, q_submit, q_token>>
        /\ Q!Dispatch(p, "creating", None) \/ Q!Dispatch(p, "error", None)
    BY DEF Q!CreateFails, Q!Restart, Q!StreamRefused, Q!Recreate
  <2> QED BY <2>1, CardKeepsWatch
<1>2. CASE \E p \in Q!Pages : Q!StreamOpens(p) \/ Q!StreamDrops(p)
  BY <1>2, StreamKeepsWatch DEF Q!StreamOpens, Q!StreamDrops
<1>3. CASE \E p \in Q!Pages, s \in Ids : Q!Created(p, s)
  BY <1>3, CreatedKeepsWatch
<1>4. CASE \E p \in Q!Pages, s \in Ids : Q!SessionBound(p, s)
  <2> PICK p \in Q!Pages, s \in Ids : Q!SessionBound(p, s)
    BY <1>4
  <2>1. /\ q_row[s] = "consumed" /\ Q!Dispatch(p, "success", s) /\ q_token' \in {q_token, s}
        /\ UNCHANGED <<q_row, q_submit>>
    BY DEF Q!SessionBound
  <2> QED BY <2>1, RowsStay, SubmitOutlives, BoundKeepsWatch
<1>5. CASE \E p \in Q!Pages, s \in Ids : Q!SessionExpired(p, s)
  <2> PICK p \in Q!Pages, s \in Ids : Q!SessionExpired(p, s)
    BY <1>5
  <2>1. /\ UNCHANGED <<q_row, q_submit, q_token>>
        /\ \E phase \in {"creating", "expired", "error"} : Q!Dispatch(p, phase, None)
    BY DEF Q!SessionExpired, Q!Recreate
  <2> QED BY <2>1, CardKeepsWatch
<1>6. CASE Q!PhoneScanned
  BY <1>6, PhoneScannedKeepsWatch
<1>7. CASE Q!submitProofPayload \/ Q!SubmitVerdict \/ Q!SubmitFails
  BY <1>7, SubmitKeepsWatch
<1>8. CASE Q!SubmitOk
  <2> DEFINE s == q_submit.session
  <2>1. /\ q_submit.at = "bound" /\ q_token' = s /\ Q!Dispatch("login", "success", s)
        /\ q_submit' = Q!Idle /\ UNCHANGED q_row /\ "login" \in Q!Pages
    BY <1>8 DEF Q!SubmitOk, Q!Pages
  <2>2. s \in Ids /\ q_row[s] = "consumed" /\ SubmitSound'
    BY <2>1 DEF WatchInv, SubmitSound, Q!Idle
  <2> HIDE DEF s
  <2> QED BY <2>1, <2>2, BoundKeepsWatch
<1>9. CASE \E s \in Ids : Q!PhoneProves(s) \/ Q!Ends(s)
  BY <1>9, EndsKeepWatch
<1> QED BY <1>1, <1>2, <1>3, <1>4, <1>5, <1>6, <1>7, <1>8, <1>9 DEF Q!Next

\* A page that says "signed in" and a token it keeps are of a session that a proof
\* bound, whatever the streams, the submission and the server's answers did in between.
THEOREM WatchSound == Spec => [](focus = "waiting" => WatchInv)
<1> DEFINE I == focus = "waiting" => WatchInv
<1>1. Init => I
  BY WatchInvInit DEF Init, ConsoleInit
<1>2. I /\ [Next]_vars => I'
  <2> SUFFICES ASSUME I, [Next]_vars PROVE I'
    OBVIOUS
  <2>1. focus' = focus
    BY FocusKept
  <2>2. CASE focus # "waiting"
    BY <2>1, <2>2
  <2>3. CASE focus = "waiting"
    <3>1. WatchInv /\ (Q!Next \/ UNCHANGED q_vars)
      BY <2>3, WaitingSteps
    <3>2. CASE UNCHANGED q_vars
      BY <3>1, <3>2 DEF q_vars, WatchInv, PageSound, SubmitSound, TokenSound
    <3> QED BY <2>1, <3>1, <3>2, WatchInvNext
  <2> QED BY <2>2, <2>3
<1> QED BY <1>1, <1>2, PTL DEF Spec

\* The invariant contains the property of the runs.
LEMMA WatchImplied == WatchInv => Q!PagesWatch
BY DEF WatchInv, PageSound, TokenSound, Q!PagesWatch

-----------------------------------------------------------------------------
(* What the pages show *)

\* The console's, the bank's and the kiosk's pages and cookies never say "signed in" or
\* "done" of a session that is not, each claim is granted once, and a page that waits has
\* a stream (demo-portal.ts, SignIn.tsx, SignUp.tsx, QrProofLogin.tsx).
THEOREM PagesStayTrue == Spec => []PagesAreTrue
<1>1. /\ focus = "portal" => PortalInv
      /\ focus = "signup" => ReachedInv
      /\ focus = "waiting" => WatchInv
      => PagesAreTrue
  BY PortalImplied, ReachedImplied, WatchImplied DEF PagesAreTrue
<1> QED BY <1>1, PortalSound, ReachedSound, WatchSound, PTL

-----------------------------------------------------------------------------
(* Types: no page has more requests under way than there are sessions *)

\* A subset of the sessions has no more members than the sessions, of which there are some.
LEMMA FewerSessions ==
    /\ Cardinality(Ids) \in Nat \ {0}
    /\ \A T \in SUBSET Ids : Cardinality(T) \in Nat /\ Cardinality(T) <= Cardinality(Ids)
<1>1. IsFiniteSet(Ids) /\ Ids # {}
  BY ServicesConstants
<1>2. Cardinality(Ids) \in Nat /\ Cardinality(Ids) # 0
  BY <1>1, FS_CardinalityType, FS_EmptySet
<1>3. \A T \in SUBSET Ids : Cardinality(T) \in Nat /\ Cardinality(T) <= Cardinality(Ids)
  BY <1>1, FS_Subset, FS_CardinalityType
<1> QED BY <1>2, <1>3

\* The instances count with their own copies of the operator.
LEMMA PageCardinalities ==
    \A T : /\ D!Cardinality(T) = Cardinality(T) /\ G!Cardinality(T) = Cardinality(T)
           /\ Q!Cardinality(T) = Cardinality(T)
BY DEF D!Cardinality, G!Cardinality, Q!Cardinality, Cardinality

\* The sign-in page and its requests.
PortalTypes ==
    /\ d_audited \subseteq Ids
    /\ d_creating \in 0 .. Cardinality(Ids)
    /\ d_page.phase \in {"creating", "pending", "success", "expired", "error"}
    /\ d_stream \in {"none", "connecting", "waiting", "closed"}

\* A page that opens its first session.
LEMMA PortalTypesInit == D!Init => PortalTypes
<1>1. 1 \in 0 .. Cardinality(Ids)
  BY FewerSessions
<1> QED BY <1>1 DEF D!Init, PortalTypes

\* Every step leaves the page in one of its phases, with no more requests than sessions.
LEMMA PortalTypesStep ==
    ASSUME PortalInv, PortalTypes, D!Next \/ UNCHANGED d_vars
    PROVE  PortalTypes'
<1>1. ASSUME NEW phase \in {"creating", "pending", "success", "expired", "error"}, NEW s, D!Show(phase, s)
      PROVE  /\ d_page'.phase \in {"creating", "pending", "success", "expired", "error"}
             /\ d_stream' \in {"none", "connecting", "waiting", "closed"}
  BY <1>1 DEF D!Show
<1>2. ASSUME NEW n, n \in 0 .. Cardinality(Ids), n > 0 PROVE n - 1 \in 0 .. Cardinality(Ids)
  BY <1>2, FewerSessions
<1>3. ASSUME NEW s \in Ids, D!InitLogin(s) PROVE PortalTypes'
  BY <1>1, <1>2, <1>3 DEF D!InitLogin, PortalTypes
<1>4. CASE D!InitLoginFails
  BY <1>1, <1>2, <1>4 DEF D!InitLoginFails, D!server, PortalTypes
<1>5. CASE D!StartOver
  <2>1. PICK n : n = Cardinality({s \in Ids : d_row[s] = "none"})
    OBVIOUS
  <2>2. d_creating < n /\ d_creating' = d_creating + 1 /\ d_audited' = d_audited
    BY <1>5, <2>1, PageCardinalities DEF D!StartOver, D!server
  <2>3. n \in Nat /\ n <= Cardinality(Ids) /\ Cardinality(Ids) \in Nat
    BY <2>1, FewerSessions
  <2>4. d_creating' \in 0 .. Cardinality(Ids)
    BY <2>2, <2>3 DEF PortalTypes
  <2> QED BY <1>1, <1>5, <2>2, <2>4 DEF D!StartOver, PortalTypes
<1>6. ASSUME NEW k \in Requests, D!ClaimAudits(k) PROVE PortalTypes'
  <2>1. d_claim[k].session \in Ids
    BY <1>6 DEF D!ClaimAudits, D!Idle, PortalInv, ClaimInv, Bound
  <2> QED BY <1>6, <2>1 DEF D!ClaimAudits, D!signIn, PortalTypes
<1>7. ASSUME NEW k \in Requests, D!ClaimAnswered(k) \/ D!ClaimFails(k) PROVE PortalTypes'
  BY <1>1, <1>7 DEF D!ClaimAnswered, D!ClaimFails, D!server, PortalTypes
<1>8. ASSUME NEW s \in Ids, D!StreamExpires(s) PROVE PortalTypes'
  BY <1>1, <1>8 DEF D!StreamExpires, D!server, PortalTypes
<1>9. ASSUME D!StreamDrops \/ \E s \in Ids : \/ D!Phase1Waits(s)
                                         \/ \E k \in Requests : D!Phase1Bound(s, k) \/ D!Phase2Bound(s, k)
      PROVE  PortalTypes'
  BY <1>9 DEF D!Phase1Bound, D!Phase2Bound, D!Phase1Waits, D!StreamDrops, D!server, D!signIn,
              PortalTypes
<1>10. ASSUME NEW d \in D!Sides, D!SubmitAnswered(d) PROVE PortalTypes'
  BY <1>1, <1>10 DEF D!SubmitAnswered, D!server, PortalTypes
<1>11. ASSUME UNCHANGED d_vars PROVE PortalTypes'
  BY <1>11 DEF d_vars, PortalTypes
<1>12. ASSUME D!Restart PROVE PortalTypes'
  BY <1>12 DEF D!Restart, PortalTypes
<1>13. ASSUME D!fetchMe \/ D!MeAnswered \/ D!logout PROVE PortalTypes'
  BY <1>13 DEF D!fetchMe, D!MeAnswered, D!logout, D!server, D!signIn, PortalTypes
<1>14. ASSUME \/ \E s \in Ids : D!RowExpires(s) \/ D!TokensExpire(s)
              \/ \E d \in D!Sides : D!SubmitVerdict(d) \/ \E s \in Ids : D!Submit(d, s)
              \/ \E k \in Requests : D!ClaimChecks(k) \/ \E s \in Ids : D!ClaimElsewhere(s, k)
       PROVE  PortalTypes'
  BY <1>14 DEF D!RowExpires, D!TokensExpire, D!Submit, D!SubmitVerdict, D!ClaimChecks,
               D!ClaimElsewhere, D!server, D!signIn, PortalTypes
<1>15. CASE UNCHANGED d_vars
  BY <1>11, <1>15
<1>16. CASE D!Next
  BY <1>3, <1>4, <1>5, <1>6, <1>7, <1>8, <1>9, <1>10, <1>12, <1>13, <1>14, <1>16, Zenon
     DEF D!Next
<1> QED BY <1>15, <1>16

\* The sign-up pages' requests and their phases.
SignupTypes ==
    /\ g_abandoned \subseteq Ids
    /\ g_opening \in 0 .. Cardinality(Ids)

\* No session is abandoned or asked for at first.
LEMMA SignupTypesInit == G!Init => SignupTypes
<1>1. 0 \in 0 .. Cardinality(Ids)
  BY FewerSessions
<1> QED BY <1>1 DEF G!Init, SignupTypes

\* No step asks for more sessions than there are.
LEMMA SignupTypesStep ==
    ASSUME SignupTypes, G!Next \/ UNCHANGED g_vars
    PROVE  SignupTypes'
<1>1. CASE G!start
  <2>1. PICK n : n = Cardinality({s \in Ids : g_step[s] = 0})
    OBVIOUS
  <2>2. g_opening < n /\ g_opening' = g_opening + 1 /\ g_abandoned' = g_abandoned
    BY <1>1, <2>1, PageCardinalities DEF G!start
  <2>3. n \in Nat /\ n <= Cardinality(Ids) /\ Cardinality(Ids) \in Nat
    BY <2>1, FewerSessions
  <2>4. g_opening' \in 0 .. Cardinality(Ids)
    BY <2>2, <2>3 DEF SignupTypes
  <2> QED BY <2>2, <2>4 DEF SignupTypes
<1>2. ASSUME NEW s \in Ids, G!Created(s) PROVE SignupTypes'
  <2>1. g_opening > 0 /\ g_opening' = g_opening - 1 /\ g_abandoned' = g_abandoned
    BY <1>2 DEF G!Created
  <2>2. g_opening' \in 0 .. Cardinality(Ids)
    BY <2>1, FewerSessions DEF SignupTypes
  <2> QED BY <2>1, <2>2 DEF SignupTypes
<1>3. ASSUME NEW s \in Ids, G!PhoneScans(s) \/ G!Abandon(s) \/ G!openAccount(s) PROVE SignupTypes'
  BY <1>3 DEF G!PhoneScans, G!Abandon, G!openAccount, SignupTypes
<1>4. ASSUME NEW k \in Requests,
             G!PollReads(k) \/ G!PollAnswered(k) \/ G!OpPollReads(k) \/ G!OpPollAnswered(k)
      PROVE  SignupTypes'
  BY <1>4 DEF G!PollReads, G!PollAnswered, G!OpPollReads, G!OpPollAnswered, SignupTypes
<1>5. CASE G!LeaveSignUp \/ G!reset \/ G!Scan \/ G!ScanAnswered \/ G!ScanFails
  BY <1>5 DEF G!LeaveSignUp, G!reset, G!Scan, G!ScanAnswered, G!ScanFails, SignupTypes
<1>6. CASE UNCHANGED g_vars
  BY <1>6 DEF g_vars, SignupTypes
<1> QED BY <1>1, <1>2, <1>3, <1>4, <1>5, <1>6 DEF G!Next

\* The waiting pages' requests.
WaitingTypes == q_creating \in [Q!Pages -> 0 .. Cardinality(Ids)]

\* Each page opens its first session.
LEMMA WaitingTypesInit == Q!Init => WaitingTypes
<1>1. 1 \in 0 .. Cardinality(Ids)
  BY FewerSessions
<1> QED BY <1>1 DEF Q!Init, WaitingTypes

\* No step asks for more sessions than there are.
LEMMA WaitingTypesStep ==
    ASSUME WaitingTypes, Q!Next \/ UNCHANGED q_vars
    PROVE  WaitingTypes'
<1>1. ASSUME NEW p \in Q!Pages, Q!Recreate(p) PROVE WaitingTypes'
  <2>1. PICK n : n = Cardinality({s \in Ids : q_row[s] = "none"})
    OBVIOUS
  <2>2. q_creating[p] < n /\ q_creating' = [q_creating EXCEPT ![p] = @ + 1]
    BY <1>1, <2>1, PageCardinalities DEF Q!Recreate
  <2>3. n \in Nat /\ n <= Cardinality(Ids) /\ Cardinality(Ids) \in Nat
    BY <2>1, FewerSessions
  <2>4. q_creating[p] \in 0 .. Cardinality(Ids)
    BY DEF WaitingTypes
  <2>5. q_creating[p] + 1 \in 0 .. Cardinality(Ids)
    BY <2>2, <2>3, <2>4
  <2> QED BY <2>2, <2>5 DEF WaitingTypes
<1>2. ASSUME NEW p \in Q!Pages, q_creating[p] > 0, q_creating' = [q_creating EXCEPT ![p] = @ - 1]
      PROVE  WaitingTypes'
  <2>1. q_creating[p] \in 0 .. Cardinality(Ids)
    BY DEF WaitingTypes
  <2>2. q_creating[p] - 1 \in 0 .. Cardinality(Ids)
    BY <1>2, <2>1, FewerSessions
  <2> QED BY <1>2, <2>2 DEF WaitingTypes
<1>3. q_creating' = q_creating => WaitingTypes'
  BY DEF WaitingTypes
<1>4. ASSUME NEW p \in Q!Pages, NEW s \in Ids,
             \/ Q!CreateFails(p) \/ Q!Restart(p) \/ Q!StreamOpens(p) \/ Q!StreamDrops(p)
             \/ Q!StreamRefused(p) \/ Q!Created(p, s) \/ Q!SessionBound(p, s)
             \/ Q!SessionExpired(p, s)
      PROVE  WaitingTypes'
  BY <1>1, <1>2, <1>3, <1>4
     DEF Q!CreateFails, Q!Restart, Q!StreamOpens, Q!StreamDrops, Q!StreamRefused, Q!Created,
         Q!SessionBound, Q!SessionExpired, Q!Pages
<1>5. ASSUME \/ Q!PhoneScanned \/ Q!submitProofPayload \/ Q!SubmitVerdict \/ Q!SubmitOk
             \/ Q!SubmitFails \/ UNCHANGED q_vars
             \/ \E s \in Ids : Q!PhoneProves(s) \/ Q!Ends(s)
      PROVE  WaitingTypes'
  BY <1>3, <1>5
     DEF Q!PhoneScanned, Q!submitProofPayload, Q!SubmitVerdict, Q!SubmitOk, Q!SubmitFails,
         Q!PhoneProves, Q!Ends, q_vars
<1>6. Ids # {}
  BY ServicesConstants
<1> QED BY <1>4, <1>5, <1>6 DEF Q!Next

\* The sign-in page has no more requests under way than there are sessions.
LEMMA PortalTypesAlways == Spec => [](focus = "portal" => PortalTypes)
<1>1. Init => (focus = "portal" => PortalTypes)
  BY PortalTypesInit DEF Init, ConsoleInit
<1>2. (focus = "portal" => PortalInv) /\ (focus = "portal" => PortalTypes) /\ [Next]_vars
         => (focus = "portal" => PortalTypes)'
  <2> SUFFICES ASSUME focus = "portal" => PortalInv, focus = "portal" => PortalTypes,
                      [Next]_vars, focus' = "portal"
               PROVE  PortalTypes'
    OBVIOUS
  <2>1. focus = "portal"
    BY FocusKept
  <2> QED BY <2>1, PortalSteps, PortalTypesStep
<1> QED BY <1>1, <1>2, PortalSound, PTL DEF Spec

\* Neither have the pages of a ceremony.
LEMMA SignupTypesAlways == Spec => [](focus = "signup" => SignupTypes)
<1>1. Init => (focus = "signup" => SignupTypes)
  BY SignupTypesInit DEF Init, ConsoleInit
<1>2. (focus = "signup" => SignupTypes) /\ [Next]_vars => (focus = "signup" => SignupTypes)'
  <2> SUFFICES ASSUME focus = "signup" => SignupTypes, [Next]_vars, focus' = "signup"
               PROVE  SignupTypes'
    OBVIOUS
  <2>1. focus = "signup"
    BY FocusKept
  <2> QED BY <2>1, SignupSteps, SignupTypesStep
<1> QED BY <1>1, <1>2, PTL DEF Spec

\* Nor those that wait on a pairing session.
LEMMA WaitingTypesAlways == Spec => [](focus = "waiting" => WaitingTypes)
<1>1. Init => (focus = "waiting" => WaitingTypes)
  BY WaitingTypesInit DEF Init, ConsoleInit
<1>2. (focus = "waiting" => WaitingTypes) /\ [Next]_vars => (focus = "waiting" => WaitingTypes)'
  <2> SUFFICES ASSUME focus = "waiting" => WaitingTypes, [Next]_vars, focus' = "waiting"
               PROVE  WaitingTypes'
    OBVIOUS
  <2>1. focus = "waiting"
    BY FocusKept
  <2> QED BY <2>1, WaitingSteps, WaitingTypesStep
<1> QED BY <1>1, <1>2, PTL DEF Spec

\* The invariants of the pages contain the rest of their types.
LEMMA PagesTyped ==
    /\ PortalInv /\ PortalTypes => D!TypeOK
    /\ ReachedInv /\ SignupTypes => G!TypeOK
    /\ WatchInv /\ WaitingTypes => Q!TypeOK
<1>1. ASSUME PortalInv, PortalTypes PROVE D!TypeOK
  <2>1. \A k \in Requests : d_claim[k].at \in {"idle", "sent", "refused", "audit", "minted"}
    BY <1>1 DEF PortalInv, ClaimInv, Claiming, D!Idle
  <2>2. \A d \in D!Sides : d_submit[d].at \in {"idle", "proving", "bound"}
    BY <1>1 DEF PortalInv, SubmitInv, Submitting, D!Idle
  <2>3. /\ d_claimCookie \in Ids \cup {None} /\ d_cookie \in Ids \cup {None}
        /\ d_asking \in Ids \cup {None} /\ d_user \in Ids \cup {None}
    BY <1>1 DEF PortalInv, JarInv, Bound
  <2> QED
    BY <1>1, <2>1, <2>2, <2>3, PageCardinalities
       DEF PortalInv, ClaimInv, SubmitInv, PortalTypes, D!TypeOK
<1>2. ASSUME ReachedInv, SignupTypes PROVE G!TypeOK
  <2>1. g_signup.session \in Ids \cup {None} /\ g_signup.shows \in 0 .. 4
    BY <1>2 DEF ReachedInv, SignupSound, G!Form
  <2>2. g_operator.kind \in DOMAIN G!StepOf \cup {"idle", "creating", "error"}
    BY <1>2, StepNumbers DEF ReachedInv, OperatorSound
  <2> QED
    BY <1>2, <2>1, <2>2, PageCardinalities DEF ReachedInv, SignupTypes, G!TypeOK, G!Completed
<1>3. ASSUME WatchInv, WaitingTypes PROVE Q!TypeOK
  <2>1. ASSUME NEW p \in Q!Pages
        PROVE  /\ q_page[p].phase \in Phases
               /\ q_stream[p] \in {"none", "connecting", "open", "closed"}
    BY <1>3 DEF WatchInv, PageSound
  <2>2. q_submit.at \in {"idle", "sent", "bound", "refused"}
    BY <1>3 DEF WatchInv, SubmitSound, Q!Idle
  <2> QED
    BY <1>3, <2>1, <2>2, PageCardinalities
       DEF WatchInv, TokenSound, WaitingTypes, Phases, Q!TypeOK
<1> QED BY <1>1, <1>2, <1>3
=============================================================================
