---- MODULE MCGovernance ----
(* Instances of Governance for TLC. *)
EXTENDS Governance, TLC

CONSTANTS u1, u2, g1, g2, l1, l2, b1, b2, p1, p2

OneUser == {u1}
TwoUsers == {u1, u2}
OneGauge == {g1}
TwoGauges == {g1, g2}
OneLock == {l1}
TwoLocks == {l1, l2}
OneBribe == {b1}
TwoBribes == {b1, b2}
OneProc == {p1}
TwoProcs == {p1, p2}
NoBribes == {}
Symmetric == Permutations(TwoUsers) \cup Permutations(TwoGauges)
    \cup Permutations(TwoProcs) \cup Permutations(TwoLocks)

(* The bound of the passing run: one gauge with everything, where locks are   *)
(* not touched beside a bribe, or two gauges with at most one lock and no     *)
(* bribes.                                                                    *)
SmallGovernance ==
    \/ /\ Cardinality({g \in Gauges : status[g] # "absent"}) <= 1
       /\ bribes # <<>> => \A p \in Procs : req[p].pc \notin {"lock", "withdraw"}
    \/ /\ bribes = <<>> /\ Cardinality(DOMAIN locks) <= 1
       /\ \A p \in Procs : req[p].pc # "bribe"
====
