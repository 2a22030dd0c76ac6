---- MODULE Options ----
(***************************************************************************)
(* The option AMM: src/backend/services/option_service.go.  One series, a  *)
(* pool of settlement asset that underwrites it, its liquidity providers   *)
(* and its holders.                                                        *)
(*                                                                         *)
(* Every handler loads the series and later writes, some in a transaction  *)
(* that locks the row and looks again, some without.  A handler s is given *)
(* the row it loaded: the current one, or db.seen, which slow requests     *)
(* loaded some steps before.                                               *)
(***************************************************************************)
EXTENDS Integers, FiniteSets, FiniteSetsExt

CONSTANTS
    Users,
    Amounts,    \* collateral deposited and withdrawn
    Sizes,      \* sizes bought
    Premiums,   \* what Black-Scholes can ask
    Prices,     \* mark and settlement prices
    Strike,
    Opening     \* a user's ledger balance at the start

VARIABLE db     \* the tables of the service and the users' ledger balances

Total(f) == MapThenSumSet(LAMBDA x : f[x], DOMAIN f)
Statuses == {"active", "paused", "expired", "settled"}
Closed == "settled"

(* What handlers read of a row they have not locked. *)
Load(s) == [status |-> s.status, due |-> s.due, mark |-> s.mark, call |-> s.call,
            empty |-> s.long = 0 /\ s.coll = 0]
Loaded == {Load(db.series), db.seen}

(* CreateSeries: no collateral, any allowed status, an expiry to come. *)
CreateSeries(call, mark, status) ==
    [status |-> status, call |-> call, mark |-> mark, price |-> 0, due |-> FALSE,
     coll |-> 0, locked |-> 0, long |-> 0]

Init == \E call \in BOOLEAN, mark \in Prices, status \in Statuses :
    db = [series |-> CreateSeries(call, mark, status),
          seen |-> Load(CreateSeries(call, mark, status)),
          principal |-> [u \in Users |-> 0], size |-> [u \in Users |-> 0],
          bal |-> [u \in Users |-> Opening]]

(* A slow request loads the series. *)
LoadSeries == db' = [db EXCEPT !.seen = Load(db.series)]

Expire == ~db.series.due /\ db' = [db EXCEPT !.series.due = TRUE]

----
(* optionRequiredCollateral: what the pool locks for a size. *)
RequiredCollateral(s, size) == (IF s.call THEN s.mark ELSE Strike) * size

(* optionPayoutAt *)
PayoutAt(s, size) ==
    Max({0, IF s.call THEN s.price - Strike ELSE Strike - s.price}) * size

(* UpdateSeries: any of the mark price, the expiry and the status, but not  *)
(* to settled.  Only the loaded row is asked whether it is settled.         *)
UpdateSeries(s, mark, due, status) ==
    /\ s.status # Closed /\ status # Closed
    /\ db' = [db EXCEPT !.series.mark = mark, !.series.due = due, !.series.status = status]

RefreshMarkPrice(price) == db' = [db EXCEPT !.series.mark = price]

(* DeleteSeries only closes the series, and only an empty one. *)
DeleteSeries(s) ==
    /\ s.empty
    /\ db' = [db EXCEPT !.series.status = "expired"]

SettleSeries(s, price) ==
    /\ s.status # Closed /\ s.due
    /\ db' = [db EXCEPT !.series.price = price, !.series.status = Closed]

AddCollateral(u, s, amount) ==
    /\ Closed \notin {s.status, db.series.status}
    /\ db.bal[u] >= amount
    /\ db' = [db EXCEPT !.series.coll = @ + amount, !.principal[u] = @ + amount, !.bal[u] = @ - amount]

\* Mutant of Free: what backs open positions is not kept.
FreeAll == db.series.coll

(* The collateral that backs no position. *)
Free == Max({0, db.series.coll - db.series.locked})

(* A provider takes principal out of the row read under the lock. *)
TakeOut(u, amount) ==
    /\ amount <= Free /\ amount <= db.principal[u]
    /\ db' = [db EXCEPT !.series.coll = @ - amount, !.principal[u] = @ - amount, !.bal[u] = @ + amount]

RemoveCollateral(u, s, amount) == s.status # Closed /\ TakeOut(u, amount)

WithdrawLiquidity(u, s, amount) ==
    s.status = Closed /\ db.series.status = Closed /\ TakeOut(u, amount)

Open(s) == s.status = "active" /\ ~s.due

(* Buy: the premium and the collateral to lock come from the loaded row,    *)
(* the pool is looked at under the lock.                                    *)
Buy(u, s, size, premium) ==
    LET lock == RequiredCollateral(s, size) IN
    /\ Open(s) /\ Open(db.series)
    /\ db.series.locked + lock <= db.series.coll
    /\ db.bal[u] >= premium
    /\ db' = [db EXCEPT !.series.coll = @ + premium, !.series.locked = @ + lock,
                        !.series.long = @ + size, !.size[u] = @ + size, !.bal[u] = @ - premium]

(* Exercise: the whole position is paid out of the pool or not at all; what *)
(* it releases is computed at the mark price of the day.                    *)
Exercise(u, s) ==
    LET size == db.size[u]
        payout == PayoutAt(db.series, size)
        coll == db.series.coll - payout
        released == Max({0, db.series.locked - RequiredCollateral(db.series, size)})
    IN
    /\ s.status = Closed /\ db.series.status = Closed
    /\ size > 0 /\ db.series.price > 0 /\ coll >= 0
    /\ db' = [db EXCEPT !.series.coll = coll, !.series.locked = Min({released, coll}),
                        !.series.long = Max({0, @ - size}),
                        !.size[u] = 0, !.bal[u] = @ + payout]

Next ==
    \/ LoadSeries \/ Expire
    \/ \E p \in Prices : RefreshMarkPrice(p)
    \/ \E s \in Loaded :
          \/ \E mark \in Prices, due \in {FALSE, db.series.due}, status \in Statuses :
                UpdateSeries(s, mark, due, status)
          \/ DeleteSeries(s)
          \/ \E p \in Prices : SettleSeries(s, p)
          \/ \E u \in Users, a \in Amounts :
                AddCollateral(u, s, a) \/ RemoveCollateral(u, s, a) \/ WithdrawLiquidity(u, s, a)
          \/ \E u \in Users, n \in Sizes, p \in Premiums : Buy(u, s, n, p)
          \/ \E u \in Users : Exercise(u, s)

----
TypeOK ==
    /\ db.series.status \in Statuses
    /\ {db.series.coll, db.series.locked, db.series.long} \subseteq Nat
    /\ \A u \in Users : {db.bal[u], db.principal[u], db.size[u]} \subseteq Nat

(* "The pool can never record collateral it did not receive": what the      *)
(* users do not have any more is in the pool.                               *)
PoolIsWhole == db.series.coll + Total(db.bal) = Opening * Cardinality(Users)

(* Holders of puts can all be paid in full whatever the settlement price    *)
(* is, whatever providers withdraw and however often prices are refreshed.  *)
(* (For calls the pool locks the mark price of the day, and the payout has  *)
(* no bound.)                                                               *)
PutsCovered == ~db.series.call => Strike * Total(db.size) <= db.series.coll
====
