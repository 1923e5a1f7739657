---------------------------- MODULE MCRegistration ----------------------------
(***************************************************************************)
(* A small instance of Registration for TLC.                               *)
(***************************************************************************)
EXTENDS Registration, TLC

CONSTANTS s1, s2, d1, d2, d3, f1, p1, p2, t1

OneScope == [x \in Devices |-> t1]
OneSessionScope == [x \in Sessions |-> t1]

\* What the phone f1 of p1 sends in session s, and p2's attempts to join in.
Pairing(s) == [op |-> "pair", session |-> s, code |-> "pair", phone |-> f1,
               person |-> p1, sound |-> TRUE, nonce |-> TRUE]
Committing(s, p) == [Pairing(s) EXCEPT !.op = "enroll", !.code = "enroll", !.person = p]
Proving(s, p) == [Pairing(s) EXCEPT !.op = "verify", !.code = "verify", !.person = p]

SmallMessages ==
    {Pairing(s1), Pairing(s2), Committing(s1, p1), Committing(s1, p2),
     Committing(s2, p1), Proving(s1, p1), Proving(s1, p2), Proving(s2, p1),
     [Proving(s1, p1) EXCEPT !.sound = FALSE], [Proving(s1, p1) EXCEPT !.nonce = FALSE],
     [Committing(s1, p1) EXCEPT !.code = "pair"]}

CallSymmetry == Permutations(Calls)
=============================================================================
