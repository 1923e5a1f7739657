---------------------------- MODULE MCAuditChain ----------------------------
(***************************************************************************)
(* Instances of AuditChain for TLC.                                        *)
(***************************************************************************)
EXTENDS AuditChain, TLC

CONSTANTS t1, t2, w1, w2, w3, w4, f

Full == [x \in {f} |-> Given]
Hollow == [x \in {f} |-> Undefined]   \* e.g. clientMeta?.proofMs of a submit without meta
Empty == [x \in {f} |-> Absent]

Appended(t, env, live, m) ==
    [tenant |-> t, environment |-> env, live |-> live, metadata |-> m]

\* A verification and a console action of t1, and a neighbour tenant's event.
MixedEvents == {Appended(t1, "live", TRUE, Full), Appended(t1, "test", FALSE, Empty),
                Appended(t2, "live", FALSE, Full)}
OneChain == {Appended(t1, "live", TRUE, Full)}
TwoContents == {Appended(t1, "live", TRUE, Full), Appended(t1, "live", FALSE, Empty)}
ThreeContents == TwoContents \cup {Appended(t1, "live", FALSE, Hollow)}

OwnLocks == [t \in {t1, t2} |-> IF t = t1 THEN "lock1" ELSE "lock2"]
OwnLock == [t \in {t1} |-> "lock"]

Legacy(i, t, env) == [id |-> i, event |-> Appended(t, env, FALSE, Full),
                      previous_hash |-> Null, event_hash |-> Null]
NoLegacy == {}
OneLegacy == {Legacy(1, t1, "live")}

WriterSymmetry == Permutations(Writers)
=============================================================================
