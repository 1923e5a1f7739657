------------------------------ MODULE SignupPages ------------------------------
(***************************************************************************)
(* The pages that show a registration ceremony: the demo bank's signup,    *)
(* which polls every second and shows whatever an answer says, and the     *)
(* operator's page with its phone simulator, which shows what its own      *)
(* requests did and polls for the end (demo-portal/src/routes/SignUp.tsx,  *)
(* dashboard/src/routes/demo/QrRegistration.tsx).                          *)
(*                                                                         *)
(* Data: a step of the ceremony is its number; the ceremony itself is      *)
(* Registration.tla.                                                       *)
(***************************************************************************)
EXTENDS Integers, FiniteSets

CONSTANTS
    Sessions,   \* registration sessions
    Polls,      \* polls of each page under way
    None

Completed == 4  \* after awaiting_device, _commitment, _verification: 1, 2, 3

VARIABLES
    step,       \* registration_sessions: the step reached, 0 before it exists
    abandoned,  \* sessions in state abandoned
    opening,    \* QrRegistration: requests that open a session
    signup,     \* SignUp: session and the step it shows
    signupPoll, \* SignUp: polls with the step they read
    operator,   \* QrRegistration: the phase
    opPoll,     \* QrRegistration: polls, with the phase they were made in
    phone       \* PhoneSimulator: its request under way

vars == <<step, abandoned, opening, signup, signupPoll, operator, opPoll, phone>>
bankPage == <<signup, signupPoll>>
opPage == <<operator, opPoll, phone>>

Form == [session |-> None, shows |-> 0]
Phase(kind, s) == [kind |-> kind, session |-> s]
Away == [session |-> None]
StepOf == [awaiting_device |-> 1, awaiting_commitment |-> 2, awaiting_verification |-> 3,
           completed |-> Completed]
KindOf(n) == CHOOSE k \in DOMAIN StepOf : StepOf[k] = n

Init ==
    /\ step = [s \in Sessions |-> 0] /\ abandoned = {} /\ opening = 0
    /\ signup = Form /\ signupPoll = [k \in Polls |-> Away]
    /\ operator = Phase("idle", None) /\ opPoll = [k \in Polls |-> Away] /\ phone = Away

-----------------------------------------------------------------------------
(* The server *)

Open(s) == step[s] = 0 /\ step' = [step EXCEPT ![s] = 1]

Moves(s) == step[s] \in 1..3 /\ s \notin abandoned
AdvanceAnyway(s) == step[s] > 0 /\ step' = [step EXCEPT ![s] = @ + 1]
Advance(s) == Moves(s) /\ step' = [step EXCEPT ![s] = @ + 1]

\* A real phone scans what either page shows.
PhoneScans(s) ==
    /\ Advance(s)
    /\ UNCHANGED <<abandoned, opening, bankPage, opPage>>

Abandon(s) ==
    /\ Moves(s) /\ abandoned' = abandoned \cup {s}
    /\ UNCHANGED <<step, opening, bankPage, opPage>>

-----------------------------------------------------------------------------
(* SignUp *)

\* One submission at a time; without its answer the form stays.
openAccount(s) ==
    /\ signup = Form /\ Open(s)
    /\ signup' \in {[session |-> s, shows |-> 1], Form}
    /\ UNCHANGED <<abandoned, opening, signupPoll, opPage>>

\* setInterval sends the next poll whether or not the last was answered.
PollReads(k) ==
    /\ signup.shows > 0 /\ signupPoll[k] = Away
    /\ signupPoll' = [signupPoll EXCEPT ![k] =
          [session |-> signup.session, step |-> step[signup.session]]]
    /\ UNCHANGED <<step, abandoned, opening, signup, opPage>>

\* An older answer can come last, and take the page back.
PollAnswered(k) ==
    /\ signupPoll[k] # Away
    /\ signupPoll' = [signupPoll EXCEPT ![k] = Away]
    /\ signup' = IF signup.session = signupPoll[k].session
                   THEN [signup EXCEPT !.shows = signupPoll[k].step] ELSE signup
    /\ UNCHANGED <<step, abandoned, opening, opPage>>

\* Completed pages navigate to sign-in; any page may be reloaded.
LeaveSignUp ==
    /\ signup # Form /\ signup' = Form
    /\ UNCHANGED <<step, abandoned, opening, signupPoll, opPage>>

-----------------------------------------------------------------------------
(* QrRegistration *)

\* A new phase ends the polls of the old one.
Dispatch(phase) ==
    /\ operator' = phase
    /\ opPoll' = IF phase = operator THEN opPoll ELSE [k \in Polls |-> Away]

start ==
    /\ operator.kind = "idle" /\ Dispatch(Phase("creating", None))
    /\ opening < Cardinality({s \in Sessions : step[s] = 0}) /\ opening' = opening + 1
    /\ UNCHANGED <<step, abandoned, phone, bankPage>>

Created(s) ==
    /\ opening > 0 /\ opening' = opening - 1 /\ Open(s)
    /\ Dispatch(Phase("awaiting_device", s)) \/ Dispatch(Phase("error", None))
    /\ UNCHANGED <<abandoned, phone, bankPage>>

\* "Start over" and "Run again".
reset ==
    /\ operator.kind \in {"completed", "error"} /\ Dispatch(Phase("idle", None))
    /\ UNCHANGED <<step, abandoned, opening, phone, bankPage>>

Waiting == operator.kind \in {"awaiting_device", "awaiting_commitment", "awaiting_verification"}

\* Only the two ends move the page; a step of a real phone is a toast.
OpPollReads(k) ==
    /\ Waiting /\ opPoll[k] = Away
    /\ \/ step[operator.session] = Completed
       \/ operator.session \in abandoned
    /\ opPoll' = [opPoll EXCEPT ![k] = [session |-> operator.session,
                    end |-> IF operator.session \in abandoned THEN "error" ELSE "completed"]]
    /\ UNCHANGED <<step, abandoned, opening, operator, phone, bankPage>>

OpPollAnswered(k) ==
    /\ opPoll[k] # Away
    /\ Dispatch(Phase(opPoll[k].end, opPoll[k].session))
    /\ UNCHANGED <<step, abandoned, opening, phone, bankPage>>

\* The simulator's request of a step, answered or not.
Scan ==
    /\ Waiting /\ phone = Away
    /\ LET s == operator.session IN
         \/ /\ step[s] = StepOf[operator.kind] /\ Advance(s)
            /\ phone' = [session |-> s, done |-> step[s] + 1]
         \/ phone' = [session |-> s, done |-> 0] /\ UNCHANGED step
    /\ UNCHANGED <<abandoned, opening, operator, opPoll, bankPage>>

\* The error branch forgets to return.
ScanShowsNext ==
    /\ phone # Away /\ phone' = Away
    /\ Dispatch(Phase(IF Waiting THEN KindOf(StepOf[operator.kind] + 1) ELSE operator.kind,
                      operator.session))
    /\ UNCHANGED <<step, abandoned, opening, bankPage>>

\* The answer shows the next step of the session it was sent for.
ScanAnswered ==
    /\ phone # Away /\ phone' = Away
    /\ IF phone.done > 0 THEN Dispatch(Phase(KindOf(phone.done), phone.session))
                         ELSE UNCHANGED <<operator, opPoll>>
    /\ UNCHANGED <<step, abandoned, opening, bankPage>>

ScanFails ==
    /\ phone # Away /\ phone' = Away
    /\ UNCHANGED <<step, abandoned, opening, operator, opPoll, bankPage>>

Next ==
    \/ \E s \in Sessions : PhoneScans(s) \/ Abandon(s) \/ openAccount(s) \/ Created(s)
    \/ \E k \in Polls : PollReads(k) \/ PollAnswered(k) \/ OpPollReads(k) \/ OpPollAnswered(k)
    \/ LeaveSignUp \/ start \/ reset \/ Scan \/ ScanAnswered \/ ScanFails

-----------------------------------------------------------------------------
(* Properties *)

TypeOK ==
    /\ step \in [Sessions -> 0..Completed] /\ abandoned \subseteq Sessions
    /\ opening \in 0..Cardinality(Sessions)
    /\ signup.session \in Sessions \cup {None} /\ signup.shows \in 0..Completed
    /\ operator.kind \in DOMAIN StepOf \cup {"idle", "creating", "error"}

\* The signup page's polls may arrive in any order and the operator's page hears
\* of its session from three sides; what either shows, the session has reached.
ShownIsReached ==
    /\ signup.session # None => signup.shows \in 1..step[signup.session]
    /\ operator.kind \in DOMAIN StepOf => step[operator.session] >= StepOf[operator.kind]
=============================================================================
