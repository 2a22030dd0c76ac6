---- MODULE OrderBook ----
(***************************************************************************)
(* The central limit order book: src/backend/go/order_matching/orderbook/  *)
(* book.go.  One pair, its Book objects (unlisting a pair and listing it   *)
(* again makes a new one) and the requests under way: a request finds the  *)
(* book under the engine's lock, works on it under the book's, and goes    *)
(* back to the engine, so others run between these steps.                  *)
(***************************************************************************)
EXTENDS Integers, FiniteSets, SequencesExt, Sums

CONSTANTS
    Traders,
    Prices,         \* priceTicks of limit orders, positive
    Quantities,     \* qtyUnits, positive
    Requests,       \* orders submitted, see RequestType
    Ranges,         \* MaxQuantity of a listing, 0 for none
    Clients,        \* requests under way
    MaxOrders,      \* bound: orders submitted
    MaxListings     \* bound: calls that list or unlist the pair

Sides == {"buy", "sell"}
Forces == {"GTC", "IOC", "FOK"}
Ids == 1..MaxOrders
BookIds == 1..(MaxListings + 1)

\* price 0 is a market order
RequestType == [trader : Traders, side : Sides, tif : Forces,
                price : Prices \cup {0}, qty : Quantities]

ASSUME OrderBookAssumption ==
    /\ Prices \subseteq Nat \ {0} /\ IsFiniteSet(Prices) /\ Quantities \subseteq Nat \ {0}
    /\ Requests \subseteq RequestType /\ Ranges \subseteq Nat
    /\ MaxOrders \in Nat /\ MaxListings \in Nat

VARIABLES
    given,      \* ids given out by nextOrderID
    order,      \* order[i]: the orders books took, with their fill and status
    books,      \* books[g]: level, total, open orders and the listed range
    listed,     \* the book in Engine.books, 0 when the pair is not listed
    made,       \* books made so far
    orderPair,  \* ids in Engine.orderPair
    client,     \* client[c]: where the request is, its order id and its book
    listings,
    arrived,    \* history: ids in the order their books took them
    trades,     \* history: fills
    prevented   \* history: <<taker, maker>> of one trader, maker cancelled

history == <<arrived, trades, prevented>>
vars == <<given, order, books, listed, made, orderPair, client, listings, history>>

NoOrder == [trader |-> "none", side |-> "none", tif |-> "none", price |-> 0, qty |-> 0,
            filled |-> 0, status |-> "none"]
Submitted == {i \in Ids : order[i] # NoOrder}
Idle == [pc |-> "idle", id |-> 0, book |-> 0]
EmptyBook(max) ==
    [level |-> [s \in Sides |-> [p \in Prices |-> <<>>]],
     total |-> [s \in Sides |-> [p \in Prices |-> 0]],
     open |-> 0, max |-> max]

Init ==
    /\ given = 0
    /\ order = [i \in Ids |-> NoOrder]
    /\ books = [g \in BookIds |-> EmptyBook(0)]
    /\ listed = 1 /\ made = 1
    /\ orderPair = {}
    /\ client = [c \in Clients |-> Idle]
    /\ listings = 0
    /\ arrived = <<>> /\ trades = {} /\ prevented = {}

----
Opposite(s) == IF s = "buy" THEN "sell" ELSE "buy"
Better(s, p, q) == IF s = "buy" THEN p > q ELSE p < q
Leaves(o) == o.qty - o.filled

\* Mutant of Crosses: an order at the limit itself does not trade.
CrossesStrictly(o, p) ==
    o.price = 0 \/ IF o.side = "buy" THEN p < o.price ELSE p > o.price

\* A market order, price 0, trades at any price.
Crosses(o, p) ==
    o.price = 0 \/ IF o.side = "buy" THEN p <= o.price ELSE p >= o.price

\* Mutant of AvailableUnits: the price limit is ignored.
AvailableUnitsAtAnyPrice(b, o) == Sum(b.total[Opposite(o.side)], Prices)

AvailableUnits(b, o) == Sum(b.total[Opposite(o.side)], {p \in Prices : Crosses(o, p)})

(* syncPublic, of an order that was neither rejected nor cancelled. *)
Status(o) ==
    IF Leaves(o) = 0 THEN "filled" ELSE IF o.filled > 0 THEN "partially_filled" ELSE "open"

(* The n-th order leaves its level; a level left empty is dropped with its  *)
(* total.                                                                   *)
Unlink(b, s, p, n) ==
    LET l == RemoveAt(b.level[s][p], n)
    IN  [b EXCEPT !.level[s][p] = l,
                  !.total[s][p] = IF l = <<>> THEN 0 ELSE @,
                  !.open = @ - 1]

\* Mutant of TakeOff: a removed order's units stay in its level's total.
TakeOffOrderOnly(b, o, n) == Unlink(b, o.side, o.price, n)

(* level.remove of order o, the n-th of its level, and dropLevel *)
TakeOff(b, o, n) ==
    Unlink([b EXCEPT !.total[o.side][o.price] = @ - Leaves(o)], o.side, o.price, n)

(* What match does to maker m, the first of its level: an order of the      *)
(* taker's trader is cancelled, another's is filled at its price.           *)
CancelResting(i, r, m) ==
    [r EXCEPT !.book = TakeOff(@, r.order[m], 1),
              !.order[m].status = "cancelled",
              !.prevented = @ \cup {<<i, m>>}]

Fill(i, r, m) ==
    LET maker == r.order[m]
        q == Min({Leaves(r.order[i]), Leaves(maker)})
        filled == [maker EXCEPT !.filled = @ + q]
        b == [r.book EXCEPT !.total[maker.side][maker.price] = @ - q]
        ord == [r.order EXCEPT ![m] = [filled EXCEPT !.status = Status(filled)],
                               ![i].filled = @ + q]
    IN  [r EXCEPT !.book = IF Leaves(filled) = 0 THEN Unlink(b, maker.side, maker.price, 1) ELSE b,
                  !.order = ord,
                  !.trades = @ \cup {[taker |-> i, maker |-> m, price |-> maker.price, qty |-> q]}]

\* Mutant of Meet: a trader's own order is filled like any other.
MeetOwn(i, r, m) == Fill(i, r, m)

Meet(i, r, m) ==
    IF r.order[m].trader = r.order[i].trader THEN CancelResting(i, r, m) ELSE Fill(i, r, m)

(* The levels of the other side that taker i may trade with, and the best.  *)
Crossed(i, r) ==
    LET o == r.order[i]
    IN  {p \in Prices : r.book.level[Opposite(o.side)][p] # <<>> /\ Crosses(o, p)}
BestPrice(s, P) == CHOOSE p \in P : \A q \in P : ~Better(s, q, p)

(* One round of match's loops: nothing once the taker is filled or the best *)
(* level does not cross.                                                    *)
Round(i, r) ==
    IF Leaves(r.order[i]) = 0 \/ Crossed(i, r) = {} THEN r
    ELSE LET s == Opposite(r.order[i].side)
         IN  Meet(i, r, Head(r.book.level[s][BestPrice(s, Crossed(i, r))]))

(* match, of taker i: each round takes an order off the book or fills i.    *)
Match(i, r) ==
    LET after[n \in 0..r.book.open] == IF n = 0 THEN r ELSE Round(i, after[n - 1])
    IN  after[r.book.open]

\* Mutant of Rest: the newest order goes to the head of its level.
RestFirst(b, i, o) ==
    [b EXCEPT !.level[o.side][o.price] = <<i>> \o @,
              !.total[o.side][o.price] = @ + Leaves(o),
              !.open = @ + 1]

(* insertLevel(...).add *)
Rest(b, i, o) ==
    [b EXCEPT !.level[o.side][o.price] = Append(@, i),
              !.total[o.side][o.price] = @ + Leaves(o),
              !.open = @ + 1]

----
(* Engine.Submit: the book is found and an id given.  The order itself, of   *)
(* no effect until the book has it, is chosen in the next step.             *)
Submit(c) ==
    /\ client[c].pc = "idle"
    /\ listed # 0
    /\ given < MaxOrders
    /\ given' = given + 1
    /\ client' = [client EXCEPT ![c] = [pc |-> "submit", id |-> given + 1, book |-> listed]]
    /\ UNCHANGED <<order, books, listed, made, orderPair, listings, history>>

(* Book.Submit's copy of the request, as validate leaves it: a market order *)
(* cannot rest.                                                             *)
Validated(q) ==
    [trader |-> q.trader, side |-> q.side, price |-> q.price, qty |-> q.qty, filled |-> 0,
     tif |-> IF q.price = 0 /\ q.tif = "GTC" THEN "IOC" ELSE q.tif, status |-> "open"]

(* Book.Submit rejects: out of the listed range, or a fill-or-kill order    *)
(* the levels do not hold enough for.  The engine returns the error.        *)
Rejected(b, o) == (b.max > 0 /\ o.qty > b.max) \/ (o.tif = "FOK" /\ AvailableUnits(b, o) < o.qty)

SubmitRejected(c, q) ==
    /\ client[c].pc = "submit"
    /\ Rejected(books[client[c].book], Validated(q))
    /\ order' = [order EXCEPT ![client[c].id] = [Validated(q) EXCEPT !.status = "rejected"]]
    /\ client' = [client EXCEPT ![c] = Idle]
    /\ UNCHANGED <<given, books, listed, made, orderPair, listings, history>>

(* Book.Submit matches, and rests what is left of a GTC limit order. *)
SubmitMatched(c, q) ==
    /\ client[c].pc = "submit"
    /\ LET i == client[c].id
           g == client[c].book
           r == Match(i, [book |-> books[g], order |-> [order EXCEPT ![i] = Validated(q)],
                          trades |-> trades, prevented |-> prevented])
           o == r.order[i]
           rests == Leaves(o) > 0 /\ o.tif = "GTC"
       IN
       /\ ~Rejected(books[g], Validated(q))
       /\ order' = [r.order EXCEPT ![i].status =
                      IF Leaves(o) > 0 /\ ~rests THEN "cancelled" ELSE Status(o)]
       /\ books' = [books EXCEPT ![g] = IF rests THEN Rest(r.book, i, o) ELSE r.book]
       /\ trades' = r.trades /\ prevented' = r.prevented
       /\ arrived' = Append(arrived, i)
    /\ client' = [client EXCEPT ![c].pc = "index"]
    /\ UNCHANGED <<given, listed, made, orderPair, listings>>

(* Back in Engine.Submit: the id is indexed and the caller answered. *)
Index(c) ==
    /\ client[c].pc = "index"
    /\ orderPair' = orderPair \cup {client[c].id}
    /\ client' = [client EXCEPT ![c] = Idle]
    /\ UNCHANGED <<given, order, books, listed, made, listings, history>>

(* Engine.Cancel: the id is known and its pair listed.  The trader is        *)
(* compared, and chosen, in the next step.                                  *)
Cancel(c, i) ==
    /\ client[c].pc = "idle"
    /\ i \in orderPair
    /\ listed # 0
    /\ client' = [client EXCEPT ![c] = [pc |-> "cancel", id |-> i, book |-> listed]]
    /\ UNCHANGED <<given, order, books, listed, made, orderPair, listings, history>>

Resting(b, i) == \E s \in Sides, p \in Prices : i \in ToSet(b.level[s][p])

\* Mutant of BookCancel: the order stays in its level.
BookCancelStatusOnly(c, t) ==
    /\ client[c].pc = "cancel"
    /\ IF Resting(books[client[c].book], client[c].id) /\ order[client[c].id].trader = t
       THEN order' = [order EXCEPT ![client[c].id].status = "cancelled"]
       ELSE UNCHANGED order
    /\ client' = [client EXCEPT ![c] = Idle]
    /\ UNCHANGED <<given, books, listed, made, orderPair, listings, history>>

BookCancel(c, t) ==
    /\ client[c].pc = "cancel"
    /\ LET i == client[c].id  g == client[c].book  o == order[i] IN
       IF Resting(books[g], i) /\ o.trader = t
       THEN /\ \E n \in DOMAIN books[g].level[o.side][o.price] :
                 /\ books[g].level[o.side][o.price][n] = i
                 /\ books' = [books EXCEPT ![g] = TakeOff(@, o, n)]
            /\ order' = [order EXCEPT ![i].status = "cancelled"]
       ELSE UNCHANGED <<books, order>>
    /\ client' = [client EXCEPT ![c] = Idle]
    /\ UNCHANGED <<given, listed, made, orderPair, listings, history>>

(* RegisterPair: a listed pair gets the new range, one that is not listed a *)
(* new book.                                                                *)
RegisterPair(max) ==
    /\ listings < MaxListings /\ listings' = listings + 1
    /\ IF listed # 0
       THEN /\ books' = [books EXCEPT ![listed].max = max]
            /\ UNCHANGED <<listed, made>>
       ELSE /\ made' = made + 1
            /\ listed' = made + 1
            /\ books' = [books EXCEPT ![made + 1] = EmptyBook(max)]
    /\ UNCHANGED <<given, order, orderPair, client, history>>

UnregisterPair ==
    /\ listed # 0
    /\ listings < MaxListings /\ listings' = listings + 1
    /\ listed' = 0
    /\ UNCHANGED <<given, order, books, made, orderPair, client, history>>

Next ==
    \/ \E c \in Clients :
          \/ Submit(c)
          \/ \E q \in Requests : SubmitRejected(c, q) \/ SubmitMatched(c, q)
          \/ Index(c)
          \/ \E i \in orderPair : Cancel(c, i)
          \/ \E t \in Traders : BookCancel(c, t)
    \/ \E max \in Ranges : RegisterPair(max)
    \/ UnregisterPair

Spec == Init /\ [][Next]_vars

----
BookType ==
    [level : [Sides -> [Prices -> Seq(Ids)]], total : [Sides -> [Prices -> Nat]], open : Nat, max : Nat]
OrderType ==
    [trader : Traders, side : Sides, tif : Forces, price : Prices \cup {0}, qty : Quantities,
     filled : Nat, status : {"open", "partially_filled", "filled", "cancelled", "rejected"}]
TradeType == [taker : Ids, maker : Ids, price : Prices, qty : Nat \ {0}]

TypeOK ==
    /\ given \in 0..MaxOrders
    /\ order \in [Ids -> OrderType \cup {NoOrder}]
    /\ \A i \in Ids : order[i].filled <= order[i].qty
    /\ books \in [BookIds -> BookType]
    /\ made \in BookIds /\ listed \in 0..made
    /\ orderPair \subseteq Submitted
    /\ client \in [Clients -> [pc : {"idle", "submit", "index", "cancel"}, id : {0} \cup Ids,
                               book : {0} \cup BookIds]]
    /\ listings \in 0..MaxListings
    /\ arrived \in Seq(Ids) /\ prevented \subseteq Ids \X Ids
    /\ trades \subseteq TradeType /\ IsFiniteSet(trades)

(* Each Book's caches agree with its orders whatever was matched, cancelled *)
(* or prevented: a level's total is the sum of what its orders have left,   *)
(* openOrders counts them, only live orders rest, at their own price.       *)
LeavesOf(ord) == [i \in Ids |-> Leaves(ord[i])]
Lengths(b) == [l \in Sides \X Prices |-> Len(b.level[l[1]][l[2]])]
RestsAt(o, s, p) ==
    /\ o.side = s /\ o.price = p /\ Leaves(o) > 0
    /\ o.status \in {"open", "partially_filled"}
Consistent(b, ord) ==
    /\ b.open = Sum(Lengths(b), Sides \X Prices)
    /\ \A s \in Sides, p \in Prices :
          /\ b.total[s][p] = Sum(LeavesOf(ord), ToSet(b.level[s][p]))
          /\ IsInjective(b.level[s][p])
          /\ \A i \in ToSet(b.level[s][p]) : RestsAt(ord[i], s, p)
BookConsistent == TypeOK /\ \A g \in 1..made : Consistent(books[g], order)

(* No bid rests at or above an ask: whatever could trade has traded.        *)
NotCrossed == \A g \in 1..made, p, q \in Prices :
    books[g].level["buy"][p] # <<>> /\ books[g].level["sell"][q] # <<>> => p < q

(* The fills of an order are its trades, each at the maker's price, within  *)
(* the taker's limit and with another trader.                               *)
Fair(ord, tr) ==
    /\ \A i \in Ids : ord[i].filled =
          Sum([n \in tr |-> n.qty], {n \in tr : i \in {n.maker, n.taker}})
    /\ \A n \in tr :
          LET maker == ord[n.maker]  taker == ord[n.taker] IN
          /\ maker.trader # taker.trader /\ maker.side # taker.side
          /\ maker.filled <= maker.qty /\ taker.filled <= taker.qty
          /\ n.price = maker.price /\ Crosses(taker, n.price)
TradesFair == Fair(order, trades)

(* "orders at the same price match in arrival order": no order fills while  *)
(* one ahead of it, at a better price or earlier at the same, keeps resting.*)
Earlier(k, m) == \E i, j \in DOMAIN arrived : i < j /\ arrived[i] = k /\ arrived[j] = m
Ahead(k, m) ==
    \/ Better(order[m].side, order[k].price, order[m].price)
    \/ order[k].price = order[m].price /\ Earlier(k, m)
PriceTime == [][\A g \in 1..made, k, m \in Submitted :
    Resting(books[g], k) /\ Resting(books[g], m) /\ order[k].side = order[m].side
      /\ Ahead(k, m) /\ order'[m].filled > order[m].filled
    => ~Resting(books'[g], k)]_vars

(* An order that is filled, cancelled or rejected never changes again: a    *)
(* cancel that was answered is not undone by a match under way.             *)
FinalStays == [][\A i \in Submitted :
    order[i].status \in {"filled", "cancelled", "rejected"} => order'[i] = order[i]]_vars

(* "A fill-all-or-kill order that cannot be filled entirely within its      *)
(* price limit is rejected without trading anything", unless orders of its  *)
(* own trader stood in its way: the levels' totals count them, match        *)
(* cancels them.                                                            *)
FillOrKill == \A i \in Submitted :
    order[i].tif = "FOK" /\ order[i].filled \in 1..(order[i].qty - 1)
        => \E m \in Submitted : <<i, m>> \in prevented

(***************************************************************************)
(* The inductive invariant.                                                *)
(***************************************************************************)
(* A request has the order it was given and a book that exists; an id under *)
(* way is nobody else's and no book has seen it.                            *)
ClientsSound ==
    /\ made <= listings + 1
    /\ \A i \in Submitted : i <= given
    /\ \A c \in Clients :
          /\ client[c].pc \in {"submit", "cancel"} => client[c].book \in 1..made
          /\ client[c].pc \in {"index", "cancel"} => client[c].id \in Submitted
          /\ client[c].pc = "submit" =>
                /\ client[c].id \in 1..given /\ order[client[c].id] = NoOrder
                /\ \A d \in Clients : client[d].pc = "submit" /\ client[d].id = client[c].id => d = c

(* Only good-till-cancelled orders rest, each in one book.                  *)
RestingSound ==
    \A g \in 1..made, i \in Ids : Resting(books[g], i) =>
        /\ order[i].tif = "GTC"
        /\ \A h \in 1..made : Resting(books[h], i) => h = g

(* The orders of a level stand in the order their book took them.           *)
ArrivalSound ==
    /\ IsInjective(arrived) /\ ToSet(arrived) \subseteq Submitted
    /\ \A g \in 1..made, s \in Sides, p \in Prices :
          LET l == books[g].level[s][p] IN
          \A n \in DOMAIN l : /\ l[n] \in ToSet(arrived)
                              /\ \A m \in 1..(n - 1) : Earlier(l[m], l[n])

IInv ==
    /\ BookConsistent /\ NotCrossed /\ TradesFair /\ FillOrKill
    /\ ClientsSound /\ RestingSound /\ ArrivalSound
====
