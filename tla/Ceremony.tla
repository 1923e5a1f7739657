------------------------------- MODULE Ceremony -------------------------------
(***************************************************************************)
(* What a registration session promises (ADR 0023), without codes, phones, *)
(* locks or requests: it moves forward one stage at a time, is left by     *)
(* completion or abandonment and by nothing after that, and its completion *)
(* enrols one person, nobody twice under one tenant.                       *)
(***************************************************************************)
EXTENDS FiniteSets

CONSTANTS Sessions, SessionScope, Persons, Nobody

VARIABLES
    stage,      \* stage[s]: how far session s has come
    bearer      \* bearer[s]: whose commitment s carries

ceremonyVars == <<stage, bearer>>

CeremonyInit ==
    /\ stage = [s \in Sessions |-> "absent"]
    /\ bearer = [s \in Sessions |-> Nobody]

Start(s) ==
    /\ stage[s] = "absent"
    /\ stage' = [stage EXCEPT ![s] = "awaiting_device"]
    /\ UNCHANGED bearer

Pair(s) ==
    /\ stage[s] = "awaiting_device"
    /\ stage' = [stage EXCEPT ![s] = "awaiting_commitment"]
    /\ UNCHANGED bearer

Commit(s, p) ==
    /\ stage[s] = "awaiting_commitment"
    /\ stage' = [stage EXCEPT ![s] = "awaiting_verification"]
    /\ bearer' = [bearer EXCEPT ![s] = p]

Enrolled(p, scope) ==
    \E t \in Sessions :
        stage[t] = "completed" /\ bearer[t] = p /\ SessionScope[t] = scope

Complete(s) ==
    /\ stage[s] = "awaiting_verification" /\ ~Enrolled(bearer[s], SessionScope[s])
    /\ stage' = [stage EXCEPT ![s] = "completed"]
    /\ UNCHANGED bearer

Abandon(s) ==
    /\ stage[s] \in {"awaiting_device", "awaiting_commitment", "awaiting_verification"}
    /\ stage' = [stage EXCEPT ![s] = "abandoned"]
    /\ UNCHANGED bearer

CeremonyNext ==
    \E s \in Sessions :
        \/ Start(s) \/ Pair(s) \/ Complete(s) \/ Abandon(s)
        \/ \E p \in Persons : Commit(s, p)

CeremonySpec == CeremonyInit /\ [][CeremonyNext]_ceremonyVars
=============================================================================
