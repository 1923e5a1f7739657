---------------------------- MODULE MCProofPairing ----------------------------
(***************************************************************************)
(* Small instances of ProofPairing for TLC.                                *)
(***************************************************************************)
EXTENDS ProofPairing, TLC

CONSTANTS s1, s2, t1, t2, u1, u2

\* A proof by u for session s, presented with s's cookie under tenant t1.
Honest(u, s) ==
    [session |-> s, tenant |-> t1, did |-> u, cookie |-> s, commitment |-> u,
     bound |-> <<u, s>>, sound |-> TRUE, verdict |-> AbsentVerdict]

\* Two honest users after s1, one of them also after s2, a proof carried from s1
\* to s2, and a commitment that is not the DID's.
RaceSubmissions ==
    {Honest(u1, s1), Honest(u2, s1), Honest(u1, s2),
     [Honest(u1, s2) EXCEPT !.bound = <<u1, s1>>],
     [Honest(u1, s1) EXCEPT !.commitment = u2]}

\* An honest submit among rejected ones: a foreign tenant's API key, a proof the
\* verifier refuses, and a weak integrity verdict with another session's cookie,
\* which meets the policy or, where none is set, the cookie check.
RejectSubmissions ==
    {Honest(u1, s1),
     [Honest(u1, s1) EXCEPT !.tenant = t2],
     [Honest(u1, s1) EXCEPT !.sound = FALSE],
     [Honest(u1, s1) EXCEPT !.verdict = 2, !.cookie = Stray]}

\* An honest submit, a proof the verifier refuses, a browser without a cookie.
StreamSubmissions ==
    {Honest(u1, s1),
     [Honest(u1, s1) EXCEPT !.sound = FALSE],
     [Honest(u1, s1) EXCEPT !.cookie = None]}

BothUsers == [t \in Tenants |-> {u1, u2}]
OneUser == [t \in Tenants |-> IF t = t1 THEN {u1} ELSE {}]

StrictPolicies == {Permissive, [required |-> 3, allowAbsent |-> TRUE]}
NoPolicies == {Permissive}

RequestSymmetry == Permutations(Requests)
=============================================================================
