---- MODULE MCWithdrawals ----
(* Instances of Withdrawals for TLC. *)
EXTENDS Withdrawals, TLC

CONSTANTS r1, r2, r3, u1

TwoRequests == {r1, r2}
ThreeRequests == {r1, r2, r3}
OneUser == {u1}
====
