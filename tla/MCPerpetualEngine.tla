---- MODULE MCPerpetualEngine ----
(* Instances of PerpetualEngine for TLC. *)
EXTENDS PerpetualEngine, TLC

CONSTANTS i1, i2, o1, q1, q2

OnePosition == {i1}
TwoPositions == {i1, i2}
OneOrder == {o1}
NoOrders == {}
OneProc == {q1}
TwoProcs == {q1, q2}
Symmetric == Permutations(TwoPositions) \cup Permutations(TwoProcs)

(* The bound of the passing run: orders, positions, and what is left after a  *)
(* crash are looked at one at a time, and rows beside one position: they      *)
(* share only the listing and the goroutines.                                 *)
OneAtATime ==
    /\ orders # <<>> => pos = <<>> /\ gone = {}
    /\ gone # {} => pos = <<>>
    /\ rows # <<>> => Cardinality(DOMAIN pos) <= 1
====
