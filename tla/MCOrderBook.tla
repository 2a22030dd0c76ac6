---- MODULE MCOrderBook ----
(* A small instance of OrderBook for TLC. *)
EXTENDS OrderBook

CONSTANTS t1, t2, c1, c2

TwoTraders == {t1, t2}
TwoClients == {c1, c2}
OneOrTwo == 1..2

NoneOrOne == 0..1

\* Orders that may rest come at every price, the buys twice as large as the
\* sells, so that either is filled in parts; those that may not are large:
\* fill-or-kill buys and market sells (which ask for GTC, and cannot have it).
SomeRequests == {q \in RequestType :
    CASE q.tif = "FOK" -> q.price = 1 /\ q.qty = 2 /\ q.side = "buy"
      [] q.tif = "IOC" -> FALSE
      [] q.price = 0   -> q.qty = 2 /\ q.side = "sell"
      [] OTHER         -> q.qty = IF q.side = "buy" THEN 2 ELSE 1}

\* A listing changes only where fewer orders are submitted.
Small == given + listings <= MaxOrders

Symmetry == Permutations(TwoTraders) \cup Permutations(TwoClients)
====
