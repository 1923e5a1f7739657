---------------------------- MODULE PairingTicket ----------------------------
(***************************************************************************)
(* What a QR-pairing session promises, without requests, polls or clocks.  *)
(*                                                                         *)
(* A pairing session is a single-use ticket.  It is issued once, and then  *)
(* either it is bound to one user, or it is closed (locked after too many  *)
(* failures, or expired); neither can be undone.  A token pair is granted  *)
(* at most once per ticket, and only for a ticket that has been bound.     *)
(* ProofPairing implements this specification.                             *)
(***************************************************************************)
CONSTANTS Sessions,   \* ids of pairing sessions
          Users       \* users that can be bound to a session

VARIABLES status,     \* status[s]: the ticket's place in its life cycle
          owner,      \* owner[s]: the users the ticket has been bound to
          granted     \* granted: the tickets whose tokens were handed out

vars == <<status, owner, granted>>

Status == {"unissued", "open", "closed", "bound"}

TypeOK ==
    /\ status \in [Sessions -> Status]
    /\ owner \in [Sessions -> SUBSET Users]
    /\ granted \in SUBSET Sessions

Init ==
    /\ status = [s \in Sessions |-> "unissued"]
    /\ owner = [s \in Sessions |-> {}]
    /\ granted = {}

Issue(s) ==
    /\ status[s] = "unissued"
    /\ status' = [status EXCEPT ![s] = "open"]
    /\ UNCHANGED <<owner, granted>>

Bind(s, u) ==
    /\ status[s] = "open"
    /\ status' = [status EXCEPT ![s] = "bound"]
    /\ owner' = [owner EXCEPT ![s] = {u}]
    /\ UNCHANGED granted

\* One statement may close several overdue tickets.
Close(S) ==
    /\ \A s \in S : status[s] = "open"
    /\ status' = [s \in Sessions |-> IF s \in S THEN "closed" ELSE status[s]]
    /\ UNCHANGED <<owner, granted>>

Grant(s) ==
    /\ status[s] = "bound"
    /\ s \notin granted
    /\ granted' = granted \cup {s}
    /\ UNCHANGED <<status, owner>>

Next ==
    \/ \E s \in Sessions : Issue(s) \/ Grant(s)
    \/ \E s \in Sessions, u \in Users : Bind(s, u)
    \/ \E S \in SUBSET Sessions : Close(S)

Spec == Init /\ [][Next]_vars
=============================================================================
