---- MODULE PerpetualEngine ----
(***************************************************************************)
(* The perpetual engine of src/backend/services/perpetual_engine.go and    *)
(* perp_money.go, with the perpetual_positions rows wallet_service.go      *)
(* keeps beside it.                                                        *)
(*                                                                         *)
(* The engine lives in memory behind one RWMutex.  A handler takes the     *)
(* mutex, releases it to ask the oracle for a price and takes it again: it *)
(* is one action per critical section.  The oracle answers any price at    *)
(* any time.  There is one market; callers spell its symbol as they like,  *)
(* and market() upper-cases the spelling.  A request for a position or an  *)
(* order of somebody else is refused and left out.                         *)
(***************************************************************************)
EXTENDS Sums

CONSTANTS
    Positions, Orders,
    Procs,          \* goroutines serving requests
    Pairs,          \* spellings of the market's symbol
    Sides,          \* the side field of a request, which is not validated
    Sizes, Collaterals, Leverages,
    Prices,         \* oracle prices
    MaxLeverage,    \* of the listing
    Cap             \* max_open_interest of the listing

ASSUME PerpAssumption ==
    /\ Sizes \cup Collaterals \cup Leverages \cup Prices \subseteq Nat \ {0}
    /\ MaxLeverage \in Nat \ {0} /\ Cap \in Nat
    /\ IsFiniteSet(Positions)

VARIABLES
    listed,     \* the market is in e.markets
    pos,        \* e.positions, a function on the ids in use
    gone,       \* ids of positions lost with the process
    rows,       \* perpetual_positions, a function on the ids in use
    orders,     \* e.orders: status by id
    req,        \* req[q]: the request q serves and what it has read
    feed,       \* the goroutine that calls UpdatePositions
    crowded     \* history: two OpenPosition calls were served at once

vars == <<listed, pos, gone, rows, orders, req, feed, crowded>>

Idle == [pc |-> "idle"]
Serving(q, l) == req[q].pc = l
Answer(q) == req' = [req EXCEPT ![q] = Idle]
FeedIdle == [pc |-> "idle", todo |-> {}, marks |-> <<>>]
Insert(f, i, v) == [j \in DOMAIN f \cup {i} |-> IF j = i THEN v ELSE f[j]]

Init ==
    /\ listed = TRUE
    /\ pos = <<>> /\ gone = {} /\ rows = <<>> /\ orders = <<>>
    /\ req = [q \in Procs |-> Idle]
    /\ feed = FeedIdle
    /\ crowded = FALSE

----
\* Mutants of PositionIsLive: flagged positions are left out; nothing is.
PositionIsOpen(s) == s = "open"
PositionIsAny(s) == TRUE

PositionIsLive(s) == s \in {"open", "liquidatable"}

(* openInterestRat compares the pair as it was spelled. *)
OpenInterest(pair) == Sum([i \in DOMAIN pos |-> pos[i].size],
    {i \in DOMAIN pos : pos[i].pair = pair /\ PositionIsLive(pos[i].status)})

\* Mutant of IsLiquidatable: shorts are compared with the price for longs.
IsLiquidatableAsLong(p, mark) ==
    IF p.side = "long" THEN mark * 2 * p.lev <= p.entry * (2 * p.lev - 1)
    ELSE mark * 2 * p.lev >= p.entry * (2 * p.lev - 1)

(* isLiquidatable with the price of calculateLiquidationPrice, which is      *)
(* entry * (1 -+ 1/(2 * leverage)); a side that is not "long" counts as short *)
(* here.                                                                      *)
IsLiquidatable(p, mark) ==
    IF p.side = "long" THEN mark * 2 * p.lev <= p.entry * (2 * p.lev - 1)
    ELSE mark * 2 * p.lev >= p.entry * (2 * p.lev + 1)

(* notionalPNL times the entry price; a side that is not "short" counts as    *)
(* long here.                                                                 *)
PnlTimesEntry(p) == p.size * (IF p.side = "short" THEN p.entry - p.mark ELSE p.mark - p.entry)

MarginOK(size, coll, lev) == lev \in 1..MaxLeverage /\ coll * lev >= size

----
(* RefreshMarkets: the listing was activated or paused. *)
RefreshMarkets ==
    /\ listed' = ~listed
    /\ UNCHANGED <<pos, gone, rows, orders, req, feed, crowded>>

(* A price, the index price or a database statement cannot be had: the       *)
(* request is answered with the error.  So is one whose market was delisted  *)
(* before its price was asked for.                                           *)
Fail(q) ==
    /\ \/ req[q].pc \in {"quote", "row", "save", "closePrice", "liqPrice"}
       \/ Serving(q, "execute")
    /\ Answer(q)
    /\ UNCHANGED <<listed, pos, gone, rows, orders, feed, crowded>>

(* The process dies; the rows stay. *)
Crash ==
    /\ pos # <<>>
    /\ pos' = <<>> /\ orders' = <<>>
    /\ gone' = gone \cup DOMAIN pos
    /\ req' = [q \in Procs |-> Idle]
    /\ feed' = FeedIdle
    /\ UNCHANGED <<listed, rows, crowded>>

----
(* OpenPosition: the listing, the mark and index prices, then the checks on  *)
(* amounts, leverage and margin.                                             *)
Opening(q) == req[q].pc \in {"quote", "store"}

OpenQuote(q) == \E pair \in Pairs, side \in Sides, size \in Sizes,
                   coll \in Collaterals, lev \in Leverages, mark \in Prices :
    /\ Serving(q, "idle")
    /\ listed
    /\ MarginOK(size, coll, lev)
    /\ req' = [req EXCEPT ![q] = [pc |-> "quote",
          p |-> [status |-> "open", pair |-> pair, side |-> side, size |-> size,
                 coll |-> coll, lev |-> lev, entry |-> mark, mark |-> mark]]]
    /\ crowded' = (crowded \/ \E r \in Procs : Opening(r))
    /\ UNCHANGED <<listed, pos, gone, rows, orders, feed>>

(* The open-interest cap, under the read lock. *)
OpenCheckCap(q) ==
    /\ Serving(q, "quote")
    /\ IF OpenInterest(req[q].p.pair) + req[q].p.size > Cap
       THEN Answer(q) ELSE req' = [req EXCEPT ![q].pc = "store"]
    /\ UNCHANGED <<listed, pos, gone, rows, orders, feed, crowded>>

(* The position is stored under the write lock. *)
OpenPosition(q) == \E i \in Positions \ (DOMAIN pos \cup gone) :
    /\ Serving(q, "store")
    /\ pos' = Insert(pos, i, req[q].p)
    /\ req' = [req EXCEPT ![q] = [pc |-> "row", id |-> i]]
    /\ UNCHANGED <<listed, gone, rows, orders, feed, crowded>>

(* CreatePerpetualPosition inserts the row from what the position holds now. *)
CreateRow(q) ==
    /\ Serving(q, "row")
    /\ LET i == req[q].id
       IN  rows' = Insert(rows, i, [status |-> pos[i].status, mark |-> pos[i].mark])
    /\ Answer(q)
    /\ UNCHANGED <<listed, pos, gone, orders, feed, crowded>>

----
(* ClosePosition, called by the engine's own handler or by                   *)
(* ClosePerpetualPosition, which first finds its row open: the position is   *)
(* open under the read lock.                                                 *)
CloseCheck(q, i) == \E wallet \in BOOLEAN :
    /\ Serving(q, "idle")
    /\ pos[i].status = "open"
    /\ wallet => i \in DOMAIN rows /\ rows[i].status = "open"
    /\ req' = [req EXCEPT ![q] = [pc |-> "closePrice", id |-> i, wallet |-> wallet]]
    /\ UNCHANGED <<listed, pos, gone, rows, orders, feed, crowded>>

(* getMarkPrice of ClosePosition and of LiquidatePosition, without a lock. *)
FetchMark(q) == \E mark \in Prices :
    /\ req[q].pc \in {"closePrice", "liqPrice"}
    /\ listed
    /\ req' = [req EXCEPT ![q] =
          [pc |-> IF @.pc = "liqPrice" THEN "liquidate" ELSE "close",
           id |-> @.id, mark |-> mark, wallet |-> @.pc = "closePrice" /\ @.wallet]]
    /\ UNCHANGED <<listed, pos, gone, rows, orders, feed, crowded>>

\* Mutant of StillOpen: the status is not looked at again.
StillOpenUnchecked(i) == TRUE

StillOpen(i) == pos[i].status = "open"

(* Under the write lock the status is checked again. *)
ClosePosition(q) ==
    /\ Serving(q, "close")
    /\ LET i == req[q].id IN
       IF StillOpen(i)
       THEN /\ pos' = [pos EXCEPT ![i].status = "closed", ![i].mark = req[q].mark]
            /\ IF req[q].wallet THEN req' = [req EXCEPT ![q] = [pc |-> "save", id |-> i]]
               ELSE Answer(q)
       ELSE Answer(q) /\ UNCHANGED pos
    /\ UNCHANGED <<listed, gone, rows, orders, feed, crowded>>

(* ClosePerpetualPosition copies the closed position into the row. *)
SaveRow(q) ==
    /\ Serving(q, "save")
    /\ rows' = [rows EXCEPT ![req[q].id] = [status |-> "closed", mark |-> pos[req[q].id].mark]]
    /\ Answer(q)
    /\ UNCHANGED <<listed, pos, gone, orders, feed, crowded>>

----
(* UpdatePositions: the pairs of live positions in a listed market ... *)
UpdateCollect ==
    /\ feed.pc = "idle"
    /\ listed
    /\ feed' = [pc |-> "fetch", marks |-> <<>>,
                todo |-> {pos[i].pair : i \in {j \in DOMAIN pos : PositionIsLive(pos[j].status)}}]
    /\ feed'.todo # {}
    /\ UNCHANGED <<listed, pos, gone, rows, orders, req, crowded>>

(* ... their prices, where the oracle has one ... *)
UpdateFetch == \E pair \in feed.todo :
    /\ \/ \E mark \in Prices :
             feed' = [feed EXCEPT !.todo = @ \ {pair}, !.marks = Insert(@, pair, mark)]
       \/ feed' = [feed EXCEPT !.todo = @ \ {pair}]
    /\ UNCHANGED <<listed, pos, gone, rows, orders, req, crowded>>

Remark(p) ==
    IF PositionIsLive(p.status) /\ p.pair \in DOMAIN feed.marks
    THEN LET m == feed.marks[p.pair]
         IN  [p EXCEPT !.mark = m,
                       !.status = IF IsLiquidatable(p, m) THEN "liquidatable"
                                  ELSE IF @ = "liquidatable" THEN "open" ELSE @]
    ELSE p

(* ... and, under the write lock, every live position is marked, flagged or  *)
(* returned to open.                                                         *)
UpdatePositions ==
    /\ feed.pc = "fetch" /\ feed.todo = {}
    /\ pos' = [i \in DOMAIN pos |-> Remark(pos[i])]
    /\ feed' = FeedIdle
    /\ UNCHANGED <<listed, gone, rows, orders, req, crowded>>

(* LiquidatePosition: the position is flagged under the read lock ... *)
LiquidateCheck(q, i) ==
    /\ Serving(q, "idle")
    /\ pos[i].status = "liquidatable"
    /\ req' = [req EXCEPT ![q] = [pc |-> "liqPrice", id |-> i]]
    /\ UNCHANGED <<listed, pos, gone, rows, orders, feed, crowded>>

(* ... and, priced again, settled under the write lock if it is still        *)
(* flagged and still liquidatable at the new price.                          *)
LiquidatePosition(q) ==
    /\ Serving(q, "liquidate")
    /\ LET i == req[q].id IN
       pos' = IF pos[i].status # "liquidatable" THEN pos
              ELSE [pos EXCEPT ![i].mark = req[q].mark,
                    ![i].status = IF IsLiquidatable(pos[i], req[q].mark)
                                  THEN "liquidated" ELSE "open"]
    /\ Answer(q)
    /\ UNCHANGED <<listed, gone, rows, orders, feed, crowded>>

----
(* CreateOrder stores a pending order; a market order is executed at once. *)
CreateOrder(q) == \E o \in Orders \ DOMAIN orders, type \in {"market", "limit", "stop"} :
    /\ Serving(q, "idle")
    /\ listed
    /\ orders' = Insert(orders, o, "pending")
    /\ req' = IF type = "market" THEN [req EXCEPT ![q] = [pc |-> "execute", order |-> o]] ELSE req
    /\ UNCHANGED <<listed, pos, gone, rows, feed, crowded>>

CancelOrder(o) ==
    /\ orders[o] = "pending"
    /\ orders' = [orders EXCEPT ![o] = "cancelled"]
    /\ UNCHANGED <<listed, pos, gone, rows, req, feed, crowded>>

(* executeOrder writes the order without the lock; a cancellation at the     *)
(* same moment may be what remains.                                          *)
ExecuteOrder(q) ==
    /\ Serving(q, "execute")
    /\ listed
    /\ LET o == req[q].order IN
       \/ orders' = [orders EXCEPT ![o] = "filled"]
       \/ orders[o] = "cancelled" /\ UNCHANGED orders
    /\ Answer(q)
    /\ UNCHANGED <<listed, pos, gone, rows, feed, crowded>>

----
Next ==
    \/ RefreshMarkets \/ Crash
    \/ UpdateCollect \/ UpdateFetch \/ UpdatePositions
    \/ \E o \in DOMAIN orders : CancelOrder(o)
    \/ \E q \in Procs :
          \/ OpenQuote(q) \/ OpenCheckCap(q) \/ OpenPosition(q) \/ CreateRow(q)
          \/ \E i \in DOMAIN pos : CloseCheck(q, i) \/ LiquidateCheck(q, i)
          \/ FetchMark(q) \/ ClosePosition(q) \/ SaveRow(q) \/ LiquidatePosition(q)
          \/ CreateOrder(q) \/ ExecuteOrder(q) \/ Fail(q)

Spec == Init /\ [][Next]_vars

----
Statuses == {"open", "liquidatable", "closed", "liquidated"}

TypeOK ==
    /\ listed \in BOOLEAN /\ crowded \in BOOLEAN
    /\ DOMAIN pos \subseteq Positions \ gone /\ gone \subseteq Positions
    /\ \A i \in DOMAIN pos :
          /\ pos[i] \in [status : Statuses, pair : Pairs, side : Sides, size : Sizes,
                         coll : Collaterals, lev : 1..MaxLeverage, entry : Prices, mark : Prices]
          /\ pos[i].coll * pos[i].lev >= pos[i].size
    /\ \A i \in DOMAIN rows : rows[i] \in [status : Statuses, mark : Prices]
    /\ \A o \in DOMAIN orders : orders[o] \in {"pending", "filled", "cancelled"}

(* LiquidatePosition "cannot be used to close a healthy position and seize   *)
(* its margin": whatever prices were read when, a liquidated position has    *)
(* lost at least half of the margin its leverage asks for at the price it    *)
(* was settled at.                                                           *)
LiquidatedAtLoss == \A i \in DOMAIN pos :
    pos[i].status = "liquidated" =>
        -PnlTimesEntry(pos[i]) * 2 * pos[i].lev >= pos[i].size * pos[i].entry

(* A settled position is settled once: closes, liquidations and price        *)
(* updates that were under way leave a closed or liquidated position as it   *)
(* is, price included.                                                       *)
SettledStays == [][\A i \in DOMAIN pos \cap DOMAIN pos' :
    pos[i].status \in {"closed", "liquidated"} => pos'[i] = pos[i]]_vars

(* A row is closed only for a position the engine closed, at the price it    *)
(* was closed at, although the row is written after the lock is released.    *)
ClosedRowIsTrue == TypeOK /\ \A i \in DOMAIN rows \cap DOMAIN pos :
    rows[i].status = "closed" =>
        pos[i].status = "closed" /\ pos[i].mark = rows[i].mark

(* "Enforce the listing's open-interest cap": holds for each spelling of the *)
(* symbol as long as no two positions were opened at once, whatever          *)
(* positions are flagged, recover or are settled in between.                 *)
CapHoldsWithoutRace == ~crowded => \A pair \in Pairs : OpenInterest(pair) <= Cap
====
