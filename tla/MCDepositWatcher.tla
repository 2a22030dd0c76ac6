---- MODULE MCDepositWatcher ----
(* Instances of DepositWatcher for TLC. *)
EXTENDS DepositWatcher, TLC

CONSTANTS d1, d2, g1, g2

TwoDeposits == {d1, d2}
OneErc20 == {d1}
NoDeposits == {}
OneScanner == {g1}
TwoScanners == {g1, g2}
====
