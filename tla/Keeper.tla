---- MODULE Keeper ----
(***************************************************************************)
(* The keeper, src/backend/go/keeper/main.go, and the two contracts it     *)
(* drives: liquidatePosition of src/contracts/TigerSwapPerpetuals.sol and  *)
(* the orders of src/contracts/TigerSwapAdvancedOrders.sol.  One position  *)
(* and one order on the chain; the keeper reads, decides and sends, and    *)
(* the chain moves on in between.                                          *)
(***************************************************************************)
EXTENDS Integers, FiniteSets, FiniteSetsExt

CONSTANTS
    Prices, Sizes, Collaterals,
    Precision,      \* 1e18 of the contracts
    Maintenance,    \* the market's maintenance margin, as a fraction of Precision
    OrderTypes, Amounts, LimitPrice,
    Parts           \* twapParts

VARIABLE db     \* the chain, the keeper's working sets and its transactions

Kinds == {"liquidate", "execute", "trigger"}

Position(size, coll, entry, long) == [size |-> size, coll |-> coll, entry |-> entry, long |-> long]

(* _createOrder escrows the amount. *)
CreateOrder(type, buy, amount) ==
    [type |-> type, buy |-> buy, amount |-> amount, price |-> LimitPrice, status |-> "open",
     filled |-> 0, parts |-> 0, late |-> FALSE, wait |-> FALSE, escrow |-> amount]

Init == \E size \in Sizes, coll \in Collaterals, entry, price \in Prices,
           long, buy \in BOOLEAN, type \in OrderTypes, amount \in Amounts :
    db = [pos |-> Position(size, coll, entry, long),
          order |-> CreateOrder(type, buy, amount),
          price |-> price, known |-> {}, read |-> 0, sent |-> {}]

Abs(x) == IF x < 0 THEN -x ELSE x
Truncated(x, y) == IF x < 0 THEN -(Abs(x) \div y) ELSE x \div y     \* Solidity's signed division

----
(* The contracts. *)

(* calculatePnL and the check of liquidatePosition *)
ContractEquity(p, price) ==
    p.coll + Truncated((IF p.long THEN price - p.entry ELSE p.entry - price) * p.size, Precision)

Notional(p) == (p.size * p.entry) \div Precision

ContractLiquidates(p, price) ==
    LET equity == ContractEquity(p, price) IN
    /\ p.size > 0 /\ Notional(p) > 0
    /\ equity <= 0 \/ (equity * Precision) \div Notional(p) < Maintenance

(* _checkPriceCondition and _checkTriggerCondition *)
PriceCondition(o, price) ==
    CASE o.type \in {"market", "twap", "stop_loss", "take_profit"} -> TRUE
      [] o.type = "limit" -> IF o.buy THEN price <= o.price ELSE price >= o.price
      [] o.type = "post_only" -> IF o.buy THEN price < o.price ELSE price > o.price

TriggerCondition(o, price) ==
    CASE o.type = "stop_loss" -> IF o.buy THEN price >= o.price ELSE price <= o.price
      [] o.type = "take_profit" -> IF o.buy THEN price <= o.price ELSE price >= o.price
      [] OTHER -> FALSE

Live == db.order.status \in {"open", "partial"}
Triggered == db.order.type \in {"stop_loss", "take_profit"}

Fill(x, status) ==
    [db.order EXCEPT !.filled = @ + x, !.escrow = @ - x, !.status = status, !.wait = TRUE,
                     !.parts = @ + 1]

(* executeOrder, for all that remains: a TWAP fills one part, and counts     *)
(* them.                                                                     *)
MineExecute ==
    LET o == db.order
        remaining == o.amount - o.filled
        part == IF o.type = "twap" THEN Min({remaining, o.amount \div Parts}) ELSE remaining
        done == o.filled + part >= o.amount \/ (o.type = "twap" /\ o.parts + 1 >= Parts)
    IN
    /\ "execute" \in db.sent /\ Live /\ ~o.late /\ PriceCondition(o, db.price)
    /\ remaining > 0 /\ ~(o.type = "twap" /\ o.wait)
    /\ db' = [db EXCEPT !.sent = @ \ {"execute"},
                        !.order = Fill(part, IF done THEN "filled" ELSE "partial")]

MineTrigger ==
    LET o == db.order IN
    /\ "trigger" \in db.sent /\ Triggered /\ o.status = "open" /\ TriggerCondition(o, db.price)
    /\ db' = [db EXCEPT !.sent = @ \ {"trigger"}, !.order = Fill(o.amount - o.filled, "filled")]

MineLiquidate ==
    /\ "liquidate" \in db.sent /\ ContractLiquidates(db.pos, db.price)
    /\ db' = [db EXCEPT !.sent = @ \ {"liquidate"}, !.pos = Position(0, 0, 0, TRUE)]

(* A transaction reverts, is replaced or is never mined. *)
Dropped(kind) == kind \in db.sent /\ db' = [db EXCEPT !.sent = @ \ {kind}]

(* cancelOrder and expireOrder return what remains. *)
CloseOrder(status) ==
    /\ Live /\ (status = "expired" => db.order.late)
    /\ db' = [db EXCEPT !.order.status = status,
                        !.order.escrow = @ - (db.order.amount - db.order.filled)]

ClosePosition == db.pos.size > 0 /\ db' = [db EXCEPT !.pos = Position(0, 0, 0, TRUE)]

(* Prices move, and time passes. *)
SetPrice(price) == db' = [db EXCEPT !.price = price]
Wait == db' = [db EXCEPT !.order.wait = FALSE]
Expire == db' = [db EXCEPT !.order.late = TRUE]

----
(* The keeper. *)
SyncPositions == db' = [db EXCEPT !.known = @ \cup {"position"}]
SyncOrders == db' = [db EXCEPT !.known = @ \cup {"order"}]

\* Mutant of KeeperPnl: the sign of a short is forgotten.
KeeperPnlUnsigned(p, price) == ((price - p.entry) * p.size) \div Precision

(* belowMaintenance: the division rounds down, the sign comes after it. *)
KeeperPnl(p, price) ==
    LET pnl == ((price - p.entry) * p.size) \div Precision IN IF p.long THEN pnl ELSE -pnl

BelowMaintenance(p, price) ==
    LET equity == p.coll + KeeperPnl(p, price) IN
    /\ p.size # 0 /\ p.coll # 0
    /\ \/ equity <= 0
       \/ /\ Notional(p) # 0
          /\ (equity * Precision) \div Notional(p) < Maintenance

Send(kind, known) == db' = [db EXCEPT !.sent = @ \cup {kind}, !.known = known]

(* fetchPosition: a closed or liquidated position reads as size zero. *)
Exists(p) == p.size # 0

(* A position that is gone leaves the working set. *)
CheckLiquidations ==
    /\ "position" \in db.known
    /\ IF Exists(db.pos) THEN BelowMaintenance(db.pos, db.price) /\ Send("liquidate", db.known)
       ELSE db' = [db EXCEPT !.known = @ \ {"position"}]

ExecuteOrder == Send("execute", db.known)
TriggerOrder == Send("trigger", db.known)

(* checkOrders reads the price once, then the orders. *)
OraclePrice == db' = [db EXCEPT !.read = db.price]

\* Mutant of Gone: an order that has been filled in part is let go.
GoneUnlessOpen == db.order.status # "open"

Gone == ~Live

CheckOrders ==
    LET o == db.order IN
    /\ "order" \in db.known /\ db.read # 0
    /\ IF Gone THEN db' = [db EXCEPT !.known = @ \ {"order"}, !.read = 0]
       ELSE /\ ~o.late
            /\ IF Triggered THEN TriggerCondition(o, db.read) /\ TriggerOrder
               ELSE PriceCondition(o, db.read) /\ ExecuteOrder

Next ==
    \/ MineExecute \/ MineTrigger \/ MineLiquidate \/ ClosePosition
    \/ \E kind \in Kinds : Dropped(kind)
    \/ \E status \in {"cancelled", "expired"} : CloseOrder(status)
    \/ \E price \in Prices : SetPrice(price)
    \/ Wait \/ Expire
    \/ SyncPositions \/ SyncOrders \/ CheckLiquidations \/ OraclePrice \/ CheckOrders

----
TypeOK == db.known \subseteq {"position", "order"} /\ db.sent \subseteq Kinds

(* The keeper "mirrors" the contract's health check: what the contract would *)
(* liquidate at a price, the keeper sends, and the reverse, except for the   *)
(* rounding of one unit of equity, and positions without collateral or of no *)
(* notional value.                                                           *)
LiquidationMirrored ==
    \A price \in Prices :
        LET p == db.pos IN
        p.coll > 0 /\ Notional(p) > 0 =>
            \/ BelowMaintenance(p, price) = ContractLiquidates(p, price)
            \/ Abs(p.coll + KeeperPnl(p, price) - ContractEquity(p, price)) = 1

(* The keeper lets go of no order that can still be filled; and when an      *)
(* order is over, its escrow was filled or returned, but for what the parts  *)
(* of a TWAP leave.                                                          *)
OrdersWatched ==
    /\ "order" \in db.known /\ Live => "order" \in db'.known
    /\ ~(Live)' => db'.order.escrow < IF db'.order.type = "twap" THEN Parts ELSE 1
====
