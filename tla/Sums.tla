---- MODULE Sums ----
(***************************************************************************)
(* The sum of a function over a finite set: totals of a column over the    *)
(* rows of a query.                                                        *)
(***************************************************************************)
EXTENDS Integers, FiniteSetsExt

Sum(f, S) == MapThenSumSet(LAMBDA x : f[x], S)
====
