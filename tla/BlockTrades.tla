---- MODULE BlockTrades ----
(***************************************************************************)
(* OTC block trades and TWAMM orders: src/backend/services/otc_service.go. *)
(* One order of each; cancellation looks at a row it loaded without a      *)
(* lock: the current one, or the one slow requests found live before.      *)
(***************************************************************************)
EXTENDS Integers, FiniteSets, FiniteSetsExt

CONSTANTS
    Users,
    Quantities,     \* positive
    Duration,       \* of a TWAMM schedule, in ticks
    MaxDelay        \* bound: ticks before a schedule starts

VARIABLE db     \* the otc row, the twamm row and what slow cancellations found

None == "none"
OtcStatuses == {"open", "matched", "cancelled", "expired"}

(* OtcService.CreateOrder: the minimum fill is not above the quantity. *)
CreateOtc(maker, qty, min) ==
    [maker |-> maker, qty |-> qty, min |-> min, status |-> "open", late |-> FALSE,
     taker |-> None, asked |-> qty]     \* asked is history: the quantity at creation

(* TwammService.CreateOrder: at is the time since the schedule started. *)
CreateTwamm(qty, delay) == [total |-> qty, filled |-> 0, at |-> -delay, status |-> "active"]

Init == \E m \in Users, q, min, total \in Quantities, delay \in 0..MaxDelay :
    /\ min <= q
    /\ db = [otc |-> CreateOtc(m, q, min), twamm |-> CreateTwamm(total, delay),
             seen |-> [otc |-> FALSE, twamm |-> FALSE], raced |-> FALSE]

LoadOrders == db' = [db EXCEPT !.seen = [otc |-> db.otc.status = "open",
                                         twamm |-> db.twamm.status = "active"]]

Tick == db' = [db EXCEPT !.twamm.at = Min({@ + 1, Duration + 1})]
Expire == db' = [db EXCEPT !.otc.late = TRUE]

----
\* Mutant of Fits: a fill below the minimum is taken.
FitsAny(fill) == fill <= db.otc.qty

Fits(fill) == db.otc.min <= fill /\ fill <= db.otc.qty

(* TakeOrder, under the row's lock: a partial fill closes the order. *)
TakeOrder(u, fill) ==
    /\ db.otc.status = "open" /\ db.otc.maker # u /\ ~db.otc.late
    /\ Fits(fill)
    /\ db' = [db EXCEPT !.otc.taker = u, !.otc.status = "matched", !.otc.qty = fill]

(* CancelOrder writes whatever has become of the order it found open. *)
CancelOtc ==
    /\ db.otc.status = "open" \/ db.seen.otc
    /\ db' = [db EXCEPT !.otc.status = "cancelled", !.raced = @ \/ db.otc.status # "open"]

(* ExpireStaleOrders is one conditional UPDATE. *)
ExpireStaleOrders ==
    /\ db.otc.status = "open" /\ db.otc.late
    /\ db' = [db EXCEPT !.otc.status = "expired"]

CancelTwamm ==
    /\ db.twamm.status = "active" \/ db.seen.twamm
    /\ db' = [db EXCEPT !.twamm.status = "cancelled"]

\* Mutant of ExecutableSlice: the end of the schedule is not looked at.
ExecutableSliceUncapped(o) ==
    IF o.at <= 0 THEN 0 ELSE Max({0, (o.total * o.at) \div Duration - o.filled})

(* ExecutableSlice: the part of the total whose time has come, rounded down, *)
(* less what is filled.                                                      *)
ExecutableSlice(o) ==
    IF o.at <= 0 THEN 0
    ELSE Max({0, (o.total * Min({o.at, Duration})) \div Duration - o.filled})

(* A sweep trades some or all of the slice. *)
FillSlice(x) ==
    /\ db.twamm.status = "active" /\ x <= ExecutableSlice(db.twamm)
    /\ db' = [db EXCEPT !.twamm.filled = @ + x]

Next ==
    \/ LoadOrders \/ Tick \/ Expire \/ CancelOtc \/ ExpireStaleOrders \/ CancelTwamm
    \/ \E x \in Quantities : FillSlice(x) \/ \E u \in Users : TakeOrder(u, x)

----
TypeOK ==
    /\ db.otc.status \in OtcStatuses /\ db.otc.taker \in Users \cup {None}
    /\ db.twamm.filled \in Nat

(* The trade an order records is one its maker agreed to, and it stays the   *)
(* trade of a taker: below no minimum, above no size, not with himself; only *)
(* a cancellation that found the order open can follow it.                   *)
TermsKept ==
    LET o == db.otc IN
    IF o.taker = None THEN o.qty = o.asked /\ o.status # "matched"
    ELSE /\ o.taker # o.maker /\ o.min <= o.qty /\ o.qty <= o.asked
         /\ ~db.raced => o.status = "matched"

(* "a missed sweep does not permanently under-fill the order": whatever was  *)
(* swept, the order is never ahead of its schedule, and at the end of it     *)
(* exactly what is missing can be traded.                                    *)
ScheduleKept ==
    LET o == db.twamm IN
    /\ o.filled * Duration <= o.total * Max({0, Min({o.at, Duration})})
    /\ o.at >= Duration => o.filled + ExecutableSlice(o) = o.total
====
