---- MODULE MCLedger ----
(***************************************************************************)
(* Instances of Ledger for TLC.  Two transactions of two operations on two *)
(* rows already show every race on a row and every lock-order deadlock;    *)
(* three transactions of two operations show a waiting queue.              *)
(***************************************************************************)
EXTENDS Ledger, TLC

CONSTANTS a1, a2, t1, t2, t3

TwoAccounts == {a1, a2}
TwoTxs == {t1, t2}
ThreeTxs == {t1, t2, t3}
Symmetric == Permutations(TwoAccounts) \cup Permutations(ThreeTxs)
====
