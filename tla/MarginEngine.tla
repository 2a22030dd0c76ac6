---- MODULE MarginEngine ----
(***************************************************************************)
(* Margin accounts: src/backend/services/margin_engine.go.  One account    *)
(* with one collateral asset and a debt in an asset worth one dollar.      *)
(*                                                                         *)
(* The engine uses neither transactions nor locks.  A liquidation is the   *)
(* steps it takes, with other requests in between; the other handlers read *)
(* and write in one step, so the updates two of them can lose of each      *)
(* other are left out.  Amounts are whole numbers.                         *)
(***************************************************************************)
EXTENDS Integers, FiniteSets, FiniteSetsExt

CONSTANTS
    Amounts,
    Prices,         \* oracle prices of the collateral
    Ltv, Threshold, Bonus, CloseFactor, Rate,   \* the listing, in percent
    MaxColl,        \* bound: collateral an account is given
    MaxDebt         \* bound: debt at which no more is taken up and time stands still

VARIABLE db     \* the account's rows, the listing's status and the price

Owed(d) == d.principal + d.interest
Percent(x, p) == (x * p) \div 100

(* OpenAccount, for a listed pair.  due: time has passed since last_accrual. *)
OpenAccount(price) == db =
    [coll |-> 0, principal |-> 0, interest |-> 0, due |-> FALSE, price |-> price,
     status |-> "active", listed |-> TRUE, job |-> <<>>,
     holds |-> 0, owes |-> 0]   \* history: what was paid in, borrowed, accrued, repaid and seized

Init == \E price \in Prices : OpenAccount(price)

Tick == Owed(db) < MaxDebt /\ db' = [db EXCEPT !.due = Owed(db) > 0]
SetPrice(p) == db' = [db EXCEPT !.price = p]

(* The pair's listing is paused or resumed by the listing service. *)
SetListed == db' = [db EXCEPT !.listed = ~@]

(* ownedAccount and marginConfig *)
Usable == db.status = "active" /\ db.listed

DepositCollateral(x) ==
    /\ Usable /\ db.coll + x <= MaxColl
    /\ db' = [db EXCEPT !.coll = @ + x, !.holds = @ + x]

(* borrowRateAPY at no utilization, over the time that has passed. *)
Growth(base) == IF db.due THEN Percent(base, Rate) ELSE 0

\* Mutant of WithinLtv: the debt the account already has is left out.
WithinLtvOfNew(x) == x <= Percent(db.coll * db.price, Ltv)

WithinLtv(x) == Owed(db) + x <= Percent(db.coll * db.price, Ltv)

(* Borrow checks the stored debt; interest on the principal alone is settled *)
(* with the new principal.                                                   *)
Borrow(x) ==
    /\ Usable /\ Owed(db) + x <= MaxDebt
    /\ WithinLtv(x)
    /\ db' = [db EXCEPT !.principal = @ + x, !.interest = @ + Growth(db.principal),
                        !.due = FALSE, !.owes = @ + x + Growth(db.principal)]

\* Mutant of Paid: what goes to interest is taken off the principal as well.
PaidTwice(x) ==
    [db EXCEPT !.interest = Max({0, @ - x}), !.principal = Max({0, @ - x}), !.owes = @ - x]

(* A payment clears interest before principal. *)
Paid(x) ==
    [db EXCEPT !.interest = Max({0, @ - x}), !.principal = @ - Max({0, x - db.interest}),
               !.owes = @ - x]

(* Repay: not more than the stored debt, which is not brought up to date.    *)
Repay(x) == Usable /\ x <= Owed(db) /\ db' = Paid(x)

(* accrueAccountInterest compounds: interest on principal and interest.      *)
Accrued == [db EXCEPT !.interest = @ + Growth(Owed(db)), !.due = FALSE,
                      !.owes = @ + Growth(Owed(db))]

(* LiquidatableAccounts and GetAccountView bring the interest up to date.    *)
Accrue == db.listed /\ db.due /\ db' = Accrued

(* computeHealth: under 1 *)
Unhealthy(d) == Percent(d.coll * d.price, Threshold) < Owed(d)

(* Liquidate accrues, finds the account unhealthy and sets the amounts ...   *)
Liquidate ==
    LET repay == Percent(Owed(Accrued), CloseFactor) IN
    /\ db.listed /\ db.job = <<>> /\ Unhealthy(Accrued)
    /\ db' = [Accrued EXCEPT !.job =
          <<"seize", Min({Percent(repay, 100 + Bonus), db.coll * db.price}), repay>>]

(* ... seizeCollateral takes that value at the price of the moment ...       *)
SeizeCollateral ==
    LET worth == db.coll * db.price
        left == IF worth = 0 THEN db.coll
                ELSE (db.coll * (worth - Min({db.job[2], worth}))) \div worth
    IN
    /\ db.job # <<>> /\ db.job[1] = "seize"
    /\ db' = [db EXCEPT !.coll = left, !.holds = @ - (db.coll - left), !.job[1] = "reduce"]

(* ... reduceDebt pays what is still owed, and an account without debt is    *)
(* marked liquidated.                                                        *)
ReduceDebt ==
    LET left == Paid(Min({db.job[3], Owed(db)})) IN
    /\ db.job # <<>> /\ db.job[1] = "reduce"
    /\ db' = [left EXCEPT !.job = <<>>, !.status = IF Owed(left) = 0 THEN "liquidated" ELSE @]

(* The oracle or the database fails: what has been written stays. *)
LiquidationFails == db.job # <<>> /\ db' = [db EXCEPT !.job = <<>>]

Next ==
    \/ Tick \/ SetListed \/ Accrue \/ \E p \in Prices : SetPrice(p)
    \/ Liquidate \/ SeizeCollateral \/ ReduceDebt \/ LiquidationFails
    \/ \E x \in Amounts : DepositCollateral(x) \/ Borrow(x) \/ Repay(x)

----
TypeOK ==
    /\ db.status \in {"active", "liquidated"}
    /\ {db.coll, db.principal, db.interest} \subseteq Nat

(* No debt is forgiven and no collateral lost: collateral is what was paid   *)
(* in less what liquidations seized, debt is what was borrowed and accrued   *)
(* less what was repaid, through accruals, partial repayments and            *)
(* liquidations that other requests interleave or that stop halfway.         *)
MarginBooks == db.coll = db.holds /\ Owed(db) = db.owes

(* "New debt may not exceed LTV * collateral": a borrow on an account whose  *)
(* interest is up to date keeps the whole debt within the LTV, also in the   *)
(* middle of a liquidation.                                                  *)
BufferKept ==
    db'.principal > db.principal /\ ~db.due => Owed(db') <= Percent(db'.coll * db'.price, Ltv)
====
