---- MODULE MCFarm ----
(* Instances of Farm for TLC. *)
EXTENDS Farm, TLC

CONSTANTS u1, u2, p1, p2

OneUser == {u1}
TwoUsers == {u1, u2}
OneProc == {p1}
TwoProcs == {p1, p2}
Symmetric == Permutations(TwoUsers) \cup Permutations(TwoProcs)

Editing(p) == req[p].pc \in {"update", "delete"}
Busy == {p \in Procs : ~Serving(p, "idle")}

(* The bound of the passing run: with one staker and no boosts an edit of the *)
(* farm runs between the steps of another request; with two stakers no other  *)
(* request runs beside an edit; with boosts, one staker and one request.      *)
Small ==
    LET edits == {p \in Procs : Editing(p)} IN
    \/ Cardinality(DOMAIN ck) <= 1 /\ boosts = 0 /\ Cardinality(edits) <= 1
    \/ boosts = 0 /\ (edits # {} => Cardinality(Busy) = 1)
    \/ Cardinality(DOMAIN ck) <= 1 /\ Cardinality(Busy) <= 1
====
