---- MODULE OrderBookProofs ----
(***************************************************************************)
(* Proofs about OrderBook for every set of traders, prices, quantities,    *)
(* requests and any number of orders, requests under way and listings.     *)
(***************************************************************************)
EXTENDS OrderBook, SumTheorems, SequenceTheorems

(* What order can be, in the state and within a match.                     *)
Orders == [Ids -> OrderType \cup {NoOrder}]

(* Sequences with an element taken out.                                      *)
LEMMA TakenOut ==
  ASSUME NEW S, NEW s \in Seq(S), NEW j \in 1..Len(s)
  PROVE  /\ RemoveAt(s, j) \in Seq(S)
         /\ Len(RemoveAt(s, j)) = Len(s) - 1
         /\ \A k \in 1..(Len(s) - 1) : RemoveAt(s, j)[k] = IF k < j THEN s[k] ELSE s[k + 1]
<1> DEFINE a == SubSeq(s, 1, j - 1)
           b == SubSeq(s, j + 1, Len(s))
<1>1. a \in Seq(S) /\ Len(a) = j - 1 /\ \A k \in 1..(j - 1) : a[k] = s[k]
  OBVIOUS
<1>2. b \in Seq(S) /\ Len(b) = Len(s) - j /\ \A k \in 1..(Len(s) - j) : b[k] = s[j + k]
  OBVIOUS
<1>3. RemoveAt(s, j) = a \o b
  BY DEF RemoveAt
<1> HIDE DEF a, b
<1>4. /\ a \o b \in Seq(S) /\ Len(a \o b) = Len(a) + Len(b)
      /\ \A k \in 1..(Len(a) + Len(b)) : (a \o b)[k] = IF k <= Len(a) THEN a[k] ELSE b[k - Len(a)]
  BY <1>1, <1>2, ConcatProperties
<1>5. PICK m \in Nat : m = Len(s)
  OBVIOUS
<1>6. \A k \in 1..(m - 1) : (a \o b)[k] = IF k < j THEN s[k] ELSE s[k + 1]
  <2> TAKE k \in 1..(m - 1)
  <2>1. CASE k < j
    BY <1>1, <1>2, <1>4, <1>5, <2>1
  <2>2. CASE ~(k < j)
    <3>1. k - (j - 1) \in 1..(m - j) /\ ~(k <= j - 1) /\ j + (k - (j - 1)) = k + 1 /\ k \in 1..(j - 1 + (m - j))
      BY <1>5, <2>2
    <3>2. (a \o b)[k] = b[k - (j - 1)]
      BY <1>1, <1>2, <1>4, <1>5, <3>1
    <3>3. b[k - (j - 1)] = s[j + (k - (j - 1))]
      BY <1>2, <1>5, <3>1
    <3> QED
      BY <2>2, <3>1, <3>2, <3>3
  <2> QED
    BY <2>1, <2>2
<1> QED
  BY <1>1, <1>2, <1>3, <1>4, <1>5, <1>6

(* A level with an order taken out: the others stay as they stood.           *)
LEMMA LevelTakenOut ==
  ASSUME NEW l \in Seq(Ids), IsInjective(l), NEW n \in 1..Len(l)
  PROVE  /\ RemoveAt(l, n) \in Seq(Ids)
         /\ Len(RemoveAt(l, n)) = Len(l) - 1
         /\ IsInjective(RemoveAt(l, n))
         /\ ToSet(RemoveAt(l, n)) = ToSet(l) \ {l[n]}
<1> DEFINE r == RemoveAt(l, n)
<1>1. /\ r \in Seq(Ids) /\ Len(r) = Len(l) - 1
      /\ \A k \in 1..(Len(l) - 1) : r[k] = IF k < n THEN l[k] ELSE l[k + 1]
  BY TakenOut
<1>2. PICK m \in Nat : m = Len(l)
  OBVIOUS
<1>3. DOMAIN l = 1..m /\ DOMAIN r = 1..(m - 1) /\ n \in 1..m
  BY <1>1, <1>2
<1>4. \A a, b \in 1..m : l[a] = l[b] => a = b
  BY <1>3 DEF IsInjective
<1>5. \A k \in 1..(m - 1) : r[k] = IF k < n THEN l[k] ELSE l[k + 1]
  BY <1>1, <1>2
<1> HIDE DEF r
<1>6. IsInjective(r)
  <2> SUFFICES ASSUME NEW a \in 1..(m - 1), NEW b \in 1..(m - 1), r[a] = r[b] PROVE a = b
    BY <1>3 DEF IsInjective
  <2>1. a \in 1..m /\ b \in 1..m /\ a + 1 \in 1..m /\ b + 1 \in 1..m
    OBVIOUS
  <2> QED
    BY <1>4, <1>5, <2>1
<1>7. \A k \in 1..(m - 1) : r[k] \in ToSet(l) \ {l[n]}
  <2> TAKE k \in 1..(m - 1)
  <2>1. k \in 1..m /\ k + 1 \in 1..m
    OBVIOUS
  <2> QED
    BY <1>3, <1>4, <1>5, <2>1 DEF ToSet
<1>8. \A k \in 1..m : k # n => l[k] \in ToSet(r)
  <2> SUFFICES ASSUME NEW k \in 1..m, k # n PROVE \E j \in 1..(m - 1) : r[j] = l[k]
    BY <1>3 DEF ToSet
  <2>1. CASE k < n
    BY <1>3, <1>5, <2>1
  <2>2. CASE ~(k < n)
    <3>1. k - 1 \in 1..(m - 1) /\ ~(k - 1 < n) /\ (k - 1) + 1 = k
      BY <1>3, <2>2
    <3> QED
      BY <1>5, <3>1
  <2> QED
    BY <2>1, <2>2
<1>9. ToSet(r) = ToSet(l) \ {l[n]}
  <2>1. ToSet(l) = {l[k] : k \in 1..m} /\ ToSet(r) = {r[k] : k \in 1..(m - 1)}
    BY <1>3 DEF ToSet
  <2> QED
    BY <1>7, <1>8, <2>1
<1> QED
  BY <1>1, <1>6, <1>9 DEF r

(* A level with an order at its end.                                         *)
LEMMA LevelAppended ==
  ASSUME NEW l \in Seq(Ids), IsInjective(l), NEW i \in Ids, i \notin ToSet(l)
  PROVE  /\ Append(l, i) \in Seq(Ids)
         /\ Len(Append(l, i)) = Len(l) + 1
         /\ IsInjective(Append(l, i))
         /\ ToSet(Append(l, i)) = ToSet(l) \cup {i}
<1> DEFINE r == Append(l, i)
<1>1. /\ r \in Seq(Ids) /\ Len(r) = Len(l) + 1
      /\ \A k \in 1..Len(l) : r[k] = l[k]
      /\ r[Len(l) + 1] = i
  OBVIOUS
<1>2. PICK m \in Nat : m = Len(l)
  OBVIOUS
<1>3. DOMAIN l = 1..m /\ DOMAIN r = 1..(m + 1)
  BY <1>1, <1>2
<1>4. (\A k \in 1..m : r[k] = l[k]) /\ r[m + 1] = i
  BY <1>1, <1>2
<1>5. ToSet(l) = {l[k] : k \in 1..m} /\ ToSet(r) = {r[k] : k \in 1..(m + 1)}
  BY <1>3 DEF ToSet
<1> HIDE DEF r
<1>6. \A k \in 1..(m + 1) : k \in 1..m \/ k = m + 1
  OBVIOUS
<1>7. ToSet(r) = ToSet(l) \cup {i}
  <2>1. m + 1 \in 1..(m + 1) /\ \A k \in 1..m : k \in 1..(m + 1)
    OBVIOUS
  <2> QED
    BY <1>4, <1>5, <1>6, <2>1
<1>8. \A k \in 1..m : l[k] # i
  BY <1>5
<1>9. IsInjective(r)
  <2>1. \A a, b \in 1..m : l[a] = l[b] => a = b
    BY <1>3 DEF IsInjective
  <2> QED
    BY <1>3, <1>4, <1>6, <1>8, <2>1 DEF IsInjective
<1> QED
  BY <1>1, <1>7, <1>9 DEF r

----
(* The sets the sums range over are finite.                                *)
LEMMA Finite == IsFiniteSet(Ids) /\ IsFiniteSet(Sides) /\ IsFiniteSet(Sides \X Prices)
<1>1. IsFiniteSet(Ids)
  BY OrderBookAssumption, FS_Interval DEF Ids
<1>2. IsFiniteSet(Sides)
  <2>1. IsFiniteSet({} \cup {"buy"})
    BY FS_EmptySet, FS_AddElement
  <2>2. IsFiniteSet(({} \cup {"buy"}) \cup {"sell"})
    BY <2>1, FS_AddElement
  <2>3. ({} \cup {"buy"}) \cup {"sell"} = Sides
    BY DEF Sides
  <2> QED
    BY <2>2, <2>3
<1> QED
  BY <1>1, <1>2, OrderBookAssumption, FS_Product

(* The components of a book.                                               *)
LEMMA BookFields ==
  ASSUME NEW b \in BookType
  PROVE  /\ b.open \in Nat /\ b.max \in Nat
         /\ b.level \in [Sides -> [Prices -> Seq(Ids)]] /\ b.total \in [Sides -> [Prices -> Nat]]
         /\ \A s \in Sides, p \in Prices :
               /\ b.level[s][p] \in Seq(Ids) /\ b.total[s][p] \in Nat
               /\ Len(b.level[s][p]) \in Nat
               /\ DOMAIN b.level[s][p] = 1..Len(b.level[s][p])
               /\ ToSet(b.level[s][p]) \subseteq Ids /\ IsFiniteSet(ToSet(b.level[s][p]))
<1>1. /\ b.open \in Nat /\ b.max \in Nat
      /\ b.level \in [Sides -> [Prices -> Seq(Ids)]] /\ b.total \in [Sides -> [Prices -> Nat]]
  BY DEF BookType
<1>2. ASSUME NEW s \in Sides, NEW p \in Prices
      PROVE  /\ b.level[s][p] \in Seq(Ids) /\ b.total[s][p] \in Nat
             /\ Len(b.level[s][p]) \in Nat
             /\ DOMAIN b.level[s][p] = 1..Len(b.level[s][p])
             /\ ToSet(b.level[s][p]) \subseteq Ids /\ IsFiniteSet(ToSet(b.level[s][p]))
  <2>1. b.level[s][p] \in Seq(Ids) /\ b.total[s][p] \in Nat
    BY <1>1
  <2>2. DOMAIN b.level[s][p] = 1..Len(b.level[s][p]) /\ Len(b.level[s][p]) \in Nat
    BY <2>1, LenProperties
  <2>3. ToSet(b.level[s][p]) \subseteq Ids
    BY <2>1, <2>2 DEF ToSet
  <2> QED
    BY <2>1, <2>2, <2>3, Finite, FS_Subset
<1> QED
  BY <1>1, <1>2

(* A level's total is set.                                                   *)
LEMMA TotalSet ==
  ASSUME NEW b \in BookType, NEW s \in Sides, NEW p \in Prices, NEW x \in Nat
  PROVE  LET c == [b EXCEPT !.total[s][p] = x] IN
         /\ c \in BookType /\ c.level = b.level /\ c.open = b.open /\ c.max = b.max
         /\ c.total[s][p] = x
         /\ \A t \in Sides, q \in Prices : t # s \/ q # p => c.total[t][q] = b.total[t][q]
  BY DEF BookType

(* A level is set, with its total and the number of open orders.             *)
SetLevel(b, s, p, l, x, n) == [b EXCEPT !.level[s][p] = l, !.total[s][p] = x, !.open = n]

IsLevelSet(b, u, s, p, l, x, n) ==
  /\ u \in BookType /\ u.open = n /\ u.max = b.max
  /\ u.level[s][p] = l /\ u.total[s][p] = x
  /\ \A t \in Sides, q \in Prices : t # s \/ q # p =>
        u.level[t][q] = b.level[t][q] /\ u.total[t][q] = b.total[t][q]

(* The book so set differs in that level alone.                            *)
LEMMA LevelSet ==
  ASSUME NEW b \in BookType, NEW s \in Sides, NEW p \in Prices,
         NEW l \in Seq(Ids), NEW x \in Nat, NEW n \in Nat
  PROVE  IsLevelSet(b, SetLevel(b, s, p, l, x, n), s, p, l, x, n)
<1> SUFFICES ASSUME NEW u, u = [b EXCEPT !.level[s][p] = l, !.total[s][p] = x, !.open = n]
             PROVE  /\ u \in BookType /\ u.open = n /\ u.max = b.max
                    /\ u.level[s][p] = l /\ u.total[s][p] = x
                    /\ \A t \in Sides, q \in Prices : t # s \/ q # p =>
                          u.level[t][q] = b.level[t][q] /\ u.total[t][q] = b.total[t][q]
  BY DEF SetLevel, IsLevelSet
<1>1. u = [level |-> [b.level EXCEPT ![s][p] = l], total |-> [b.total EXCEPT ![s][p] = x],
           open |-> n, max |-> b.max]
  BY DEF BookType
<1>2. u.level = [b.level EXCEPT ![s][p] = l] /\ u.total = [b.total EXCEPT ![s][p] = x]
      /\ u.open = n /\ u.max = b.max
  BY <1>1
<1>3. /\ [b.level EXCEPT ![s][p] = l] \in [Sides -> [Prices -> Seq(Ids)]]
      /\ [b.total EXCEPT ![s][p] = x] \in [Sides -> [Prices -> Nat]]
  BY BookFields
<1>4. u \in BookType
  BY <1>1, <1>3, BookFields DEF BookType
<1>5. /\ [b.level EXCEPT ![s][p] = l][s][p] = l
      /\ \A t \in Sides, q \in Prices : t # s \/ q # p =>
            [b.level EXCEPT ![s][p] = l][t][q] = b.level[t][q]
  BY BookFields
<1>6. /\ [b.total EXCEPT ![s][p] = x][s][p] = x
      /\ \A t \in Sides, q \in Prices : t # s \/ q # p =>
            [b.total EXCEPT ![s][p] = x][t][q] = b.total[t][q]
  BY BookFields
<1> QED
  BY <1>2, <1>4, <1>5, <1>6

(* Unlink, as the setting of one level.                                    *)
LEMMA Unlinked ==
  ASSUME NEW b \in BookType, NEW s \in Sides, NEW p \in Prices, b.open > 0,
         IsInjective(b.level[s][p]), NEW n \in 1..Len(b.level[s][p])
  PROVE  LET u == Unlink(b, s, p, n)
             l == RemoveAt(b.level[s][p], n)
         IN  /\ u \in BookType /\ u.open = b.open - 1 /\ u.max = b.max
             /\ u.level[s][p] = l /\ u.total[s][p] = IF l = <<>> THEN 0 ELSE b.total[s][p]
             /\ \A t \in Sides, q \in Prices : t # s \/ q # p =>
                   u.level[t][q] = b.level[t][q] /\ u.total[t][q] = b.total[t][q]
<1> DEFINE l == RemoveAt(b.level[s][p], n)
           x == IF l = <<>> THEN 0 ELSE b.total[s][p]
<1>1. l \in Seq(Ids) /\ x \in Nat /\ b.open - 1 \in Nat
  BY LevelTakenOut, BookFields
<1>2. Unlink(b, s, p, n) = SetLevel(b, s, p, l, x, b.open - 1)
  BY DEF Unlink, SetLevel
<1> HIDE DEF l, x
<1>3. PICK u : u = Unlink(b, s, p, n)
  OBVIOUS
<1>4. /\ u \in BookType /\ u.open = b.open - 1 /\ u.max = b.max
      /\ u.level[s][p] = l /\ u.total[s][p] = x
      /\ \A t \in Sides, q \in Prices : t # s \/ q # p =>
            u.level[t][q] = b.level[t][q] /\ u.total[t][q] = b.total[t][q]
  <2>1. IsLevelSet(b, SetLevel(b, s, p, l, x, b.open - 1), s, p, l, x, b.open - 1)
    BY <1>1, LevelSet
  <2> QED
    BY <1>2, <1>3, <2>1 DEF IsLevelSet
<1> QED
  BY <1>3, <1>4 DEF l, x

(* Orders are of one shape, whether a book took them or not.                 *)
LEMMA OrderFields ==
  ASSUME NEW ord \in Orders
  PROVE  \A i \in Ids :
           /\ ord[i].qty \in Nat /\ ord[i].filled \in Nat /\ Leaves(ord[i]) \in Int
           /\ LeavesOf(ord)[i] = Leaves(ord[i]) /\ ord[i].price \in Nat
<1> TAKE i \in Ids
<1>1. ord[i] \in OrderType \/ ord[i] = NoOrder
  BY DEF Orders
<1>2. ASSUME ord[i] \in OrderType PROVE ord[i].qty \in Nat /\ ord[i].filled \in Nat /\ ord[i].price \in Nat
  <2>1. /\ ord[i].qty \in Quantities /\ ord[i].filled \in Nat /\ ord[i].price \in Prices \cup {0}
    BY <1>2 DEF OrderType
  <2>2. Prices \cup {0} \subseteq Nat
    BY OrderBookAssumption
  <2>3. Quantities \subseteq Nat
    BY OrderBookAssumption
  <2>4. ord[i].qty \in Nat
    BY <2>1, <2>3
  <2>5. ord[i].price \in Nat
    BY <2>1, <2>2
  <2> QED
    BY <2>1, <2>4, <2>5
<1>3. ASSUME ord[i] = NoOrder PROVE ord[i].qty \in Nat /\ ord[i].filled \in Nat /\ ord[i].price \in Nat
  BY <1>3 DEF NoOrder
<1>4. LeavesOf(ord)[i] = ord[i].qty - ord[i].filled
  BY DEF Leaves, LeavesOf
<1> QED
  BY <1>1, <1>2, <1>3, <1>4 DEF Leaves

(* The lengths that openOrders adds up.                                    *)
LEMMA LengthsInt ==
  ASSUME NEW b \in BookType
  PROVE  \A l \in Sides \X Prices : Lengths(b)[l] = Len(b.level[l[1]][l[2]]) /\ Lengths(b)[l] \in Nat
  BY BookFields DEF Lengths

(* One level of b changes, which leads to c, with orders that were there or  *)
(* are there then; the others stay.                                          *)
OthersStay(b, c, s, p) ==
  \A t \in Sides, q \in Prices : t # s \/ q # p =>
     c.level[t][q] = b.level[t][q] /\ c.total[t][q] = b.total[t][q]
LevelRight(c, ord, s, p) ==
  /\ c.total[s][p] = Sum(LeavesOf(ord), ToSet(c.level[s][p]))
  /\ IsInjective(c.level[s][p])
  /\ \A i \in ToSet(c.level[s][p]) : RestsAt(ord[i], s, p)
Moves(b, ord, c, after, s, p) ==
  /\ b \in BookType /\ c \in BookType /\ ord \in Orders /\ after \in Orders
  /\ s \in Sides /\ p \in Prices
  /\ OthersStay(b, c, s, p)
  /\ c.open = b.open + Len(c.level[s][p]) - Len(b.level[s][p])
  /\ LevelRight(c, after, s, p)
  /\ \A i \in Ids : Resting(b, i) /\ ~RestsAt(ord[i], s, p) => after[i] = ord[i]

(* A book stays consistent when one of its levels changes and the orders     *)
(* elsewhere do not.                                                         *)
LEMMA BookMoves ==
  ASSUME NEW b, NEW ord, NEW c, NEW after, NEW s, NEW p,
         Consistent(b, ord), Moves(b, ord, c, after, s, p)
  PROVE  Consistent(c, after)
<1> USE DEF Moves, OthersStay, LevelRight
<1>1. c.open = Sum(Lengths(c), Sides \X Prices)
  <2>1. <<s, p>> \in Sides \X Prices /\ <<s, p>>[1] = s /\ <<s, p>>[2] = p
    OBVIOUS
  <2>2. ASSUME NEW l \in Sides \X Prices, l # <<s, p>> PROVE Lengths(c)[l] = Lengths(b)[l]
    <3>1. PICK t \in Sides : \E q \in Prices : l = <<t, q>>
      OBVIOUS
    <3>2. PICK q \in Prices : l = <<t, q>>
      BY <3>1
    <3>3. c.level[t][q] = b.level[t][q]
      BY <2>2, <3>2
    <3> QED
      BY <3>2, <3>3, LengthsInt
  <2>3. (\A l \in Sides \X Prices : Lengths(b)[l] \in Int) /\ Lengths(c)[<<s, p>>] \in Int
    BY <2>1, LengthsInt
  <2>4. /\ Sum(Lengths(c), Sides \X Prices)
             = Sum(Lengths(b), Sides \X Prices) - Lengths(b)[<<s, p>>] + Lengths(c)[<<s, p>>]
        /\ Sum(Lengths(b), Sides \X Prices) \in Int
    BY <2>1, <2>2, <2>3, Finite, SumUpdate
  <2>5. Lengths(b)[<<s, p>>] = Len(b.level[s][p]) /\ Lengths(c)[<<s, p>>] = Len(c.level[s][p])
    BY <2>1, LengthsInt
  <2>6. b.open = Sum(Lengths(b), Sides \X Prices)
    BY DEF Consistent
  <2>7. Len(b.level[s][p]) \in Nat /\ Len(c.level[s][p]) \in Nat
    BY BookFields
  <2>8. PICK x, y : x = Sum(Lengths(b), Sides \X Prices) /\ y = Sum(Lengths(c), Sides \X Prices)
    OBVIOUS
  <2>9. x \in Int /\ y = x - Len(b.level[s][p]) + Len(c.level[s][p]) /\ b.open = x
    BY <2>4, <2>5, <2>6, <2>8
  <2>10. c.open = x + Len(c.level[s][p]) - Len(b.level[s][p])
    BY <2>9
  <2>11. c.open = y
    BY <2>7, <2>9, <2>10
  <2> QED
    BY <2>8, <2>11
<1>2. ASSUME NEW t \in Sides, NEW q \in Prices, t # s \/ q # p
      PROVE  /\ c.total[t][q] = Sum(LeavesOf(after), ToSet(c.level[t][q]))
             /\ IsInjective(c.level[t][q])
             /\ \A i \in ToSet(c.level[t][q]) : RestsAt(after[i], t, q)
  <2>1. c.level[t][q] = b.level[t][q] /\ c.total[t][q] = b.total[t][q]
    BY <1>2
  <2>2. /\ b.total[t][q] = Sum(LeavesOf(ord), ToSet(b.level[t][q]))
        /\ IsInjective(b.level[t][q])
        /\ \A i \in ToSet(b.level[t][q]) : RestsAt(ord[i], t, q)
    BY DEF Consistent
  <2>3. \A i \in ToSet(b.level[t][q]) : i \in Ids /\ after[i] = ord[i]
    <3> TAKE i \in ToSet(b.level[t][q])
    <3>1. i \in Ids
      BY BookFields
    <3>2. Resting(b, i)
      BY DEF Resting
    <3>3. ~RestsAt(ord[i], s, p)
      BY <1>2, <2>2 DEF RestsAt
    <3> QED
      BY <3>1, <3>2, <3>3
  <2>4. Sum(LeavesOf(after), ToSet(b.level[t][q])) = Sum(LeavesOf(ord), ToSet(b.level[t][q]))
    <3>1. \A i \in ToSet(b.level[t][q]) : LeavesOf(after)[i] = LeavesOf(ord)[i]
      BY <2>3, OrderFields
    <3>2. IsFiniteSet(ToSet(b.level[t][q]))
      BY BookFields
    <3> QED
      BY <3>1, <3>2, SumAgree
  <2> QED
    BY <2>1, <2>2, <2>3, <2>4
<1>3. \A t \in Sides, q \in Prices :
          /\ c.total[t][q] = Sum(LeavesOf(after), ToSet(c.level[t][q]))
          /\ IsInjective(c.level[t][q])
          /\ \A i \in ToSet(c.level[t][q]) : RestsAt(after[i], t, q)
  BY <1>2
<1> QED
  BY <1>1, <1>3 DEF Consistent

(* A level holds no more orders than the book has open.                    *)
LEMMA LevelIsCounted ==
  ASSUME NEW b \in BookType, NEW ord, Consistent(b, ord), NEW s \in Sides, NEW p \in Prices
  PROVE  Len(b.level[s][p]) <= b.open
<1> DEFINE L == Sides \X Prices
<1>1. <<s, p>> \in L /\ Lengths(b)[<<s, p>>] = Len(b.level[s][p])
  BY LengthsInt
<1>2. \A l \in L : Lengths(b)[l] \in Int /\ Lengths(b)[l] \in Nat
  BY LengthsInt
<1>3. Sum(Lengths(b), L) = Lengths(b)[<<s, p>>] + Sum(Lengths(b), L \ {<<s, p>>})
  BY <1>1, <1>2, Finite, SumRemove
<1>4. Sum(Lengths(b), L \ {<<s, p>>}) \in Nat
  BY <1>2, Finite, FS_Subset, SumNat
<1>5. b.open = Sum(Lengths(b), L) /\ Len(b.level[s][p]) \in Nat
  BY BookFields DEF Consistent
<1> HIDE DEF L
<1> QED
  BY <1>1, <1>3, <1>4, <1>5

(* What a level's orders have left.                                          *)
LEMMA LevelTotal ==
  ASSUME NEW b \in BookType, NEW ord \in Orders, Consistent(b, ord),
         NEW s \in Sides, NEW p \in Prices, NEW m \in ToSet(b.level[s][p])
  PROVE  LET rest == Sum(LeavesOf(ord), ToSet(b.level[s][p]) \ {m}) IN
         /\ rest \in Nat /\ Leaves(ord[m]) \in Nat /\ Leaves(ord[m]) > 0
         /\ b.total[s][p] = Leaves(ord[m]) + rest
         /\ m \in Ids /\ RestsAt(ord[m], s, p) /\ Resting(b, m)
<1> DEFINE M == ToSet(b.level[s][p])
<1>1. M \subseteq Ids /\ IsFiniteSet(M)
  BY BookFields
<1>2. b.total[s][p] = Sum(LeavesOf(ord), M) /\ \A i \in M : RestsAt(ord[i], s, p)
  BY DEF Consistent
<1>3. \A i \in M : LeavesOf(ord)[i] = Leaves(ord[i]) /\ Leaves(ord[i]) \in Int /\ Leaves(ord[i]) > 0
  BY <1>1, <1>2, OrderFields DEF RestsAt
<1>4. \A i \in M : LeavesOf(ord)[i] \in Nat /\ LeavesOf(ord)[i] \in Int
  BY <1>3
<1>5. Sum(LeavesOf(ord), M) = LeavesOf(ord)[m] + Sum(LeavesOf(ord), M \ {m})
  BY <1>1, <1>4, SumRemove
<1>6. Sum(LeavesOf(ord), M \ {m}) \in Nat
  BY <1>1, <1>4, FS_Subset, SumNat
<1>7. Resting(b, m)
  BY DEF Resting
<1> QED
  BY <1>1, <1>2, <1>3, <1>5, <1>6, <1>7

(* cancelResting, Cancel, and the fill that ends a maker: its units leave    *)
(* the level's total, the order its level.                                   *)
IsTakenOff(b, ord, c, after, s, p, n) ==
  /\ c \in BookType /\ Consistent(c, after) /\ c.open = b.open - 1 /\ c.max = b.max
  /\ c.level[s][p] = RemoveAt(b.level[s][p], n)
  /\ c.total[s][p] = b.total[s][p] - Leaves(ord[b.level[s][p][n]])
  /\ OthersStay(b, c, s, p)

(* TakeOff keeps the book consistent when the order that leaves changes    *)
(* freely.                                                                 *)
LEMMA TakenOff ==
  ASSUME NEW b \in BookType, NEW ord \in Orders, NEW after \in Orders, Consistent(b, ord),
         NEW s \in Sides, NEW p \in Prices, NEW n \in 1..Len(b.level[s][p]), NEW m,
         m = b.level[s][p][n],
         \A j \in Ids : Resting(b, j) /\ j # m => after[j] = ord[j]
  PROVE  IsTakenOff(b, ord, Unlink([b EXCEPT !.total[s][p] = @ - Leaves(ord[m])], s, p, n),
                    after, s, p, n)
<1> DEFINE l == b.level[s][p]
           x == b.total[s][p] - Leaves(ord[m])
           a == [b EXCEPT !.total[s][p] = x]
           c == Unlink(a, s, p, n)
           k == RemoveAt(l, n)
<1>1. l \in Seq(Ids) /\ IsInjective(l) /\ m \in ToSet(l) /\ Len(l) \in Nat
  BY BookFields DEF Consistent, ToSet
<1>2. k \in Seq(Ids) /\ Len(k) = Len(l) - 1 /\ IsInjective(k) /\ ToSet(k) = ToSet(l) \ {m}
  BY <1>1, LevelTakenOut
<1>3. /\ x = Sum(LeavesOf(ord), ToSet(l) \ {m}) /\ x \in Nat
      /\ m \in Ids /\ RestsAt(ord[m], s, p)
  <2> DEFINE rest == Sum(LeavesOf(ord), ToSet(l) \ {m})
  <2>0. \A j \in ToSet(b.level[s][p]) :
            /\ Sum(LeavesOf(ord), ToSet(b.level[s][p]) \ {j}) \in Nat
            /\ b.total[s][p] = Leaves(ord[j]) + Sum(LeavesOf(ord), ToSet(b.level[s][p]) \ {j})
    BY LevelTotal
  <2>1. rest \in Nat /\ b.total[s][p] = Leaves(ord[m]) + rest
    BY <1>1, <2>0
  <2>2. Leaves(ord[m]) \in Nat /\ m \in Ids /\ RestsAt(ord[m], s, p)
    BY <1>1, LevelTotal
  <2> HIDE DEF rest
  <2>3. x = rest
    BY <2>1, <2>2
  <2> QED
    BY <2>1, <2>2, <2>3 DEF rest
<1>4. /\ a \in BookType /\ a.level = b.level /\ a.open = b.open /\ a.max = b.max
      /\ a.total[s][p] = x
      /\ \A t \in Sides, q \in Prices : t # s \/ q # p => a.total[t][q] = b.total[t][q]
  BY <1>3, TotalSet
<1>5. b.open > 0 /\ b.open \in Nat
  <2>1. Len(l) <= b.open /\ b.open \in Nat
    BY LevelIsCounted, BookFields
  <2> QED
    BY <1>1, <2>1
<1> HIDE DEF a, x
<1>6. /\ c \in BookType /\ c.open = b.open - 1 /\ c.max = b.max
      /\ c.level[s][p] = k /\ c.total[s][p] = IF k = <<>> THEN 0 ELSE x
      /\ \A t \in Sides, q \in Prices : t # s \/ q # p =>
            c.level[t][q] = b.level[t][q] /\ c.total[t][q] = b.total[t][q]
  <2>1. a.open > 0 /\ IsInjective(a.level[s][p]) /\ n \in 1..Len(a.level[s][p])
    BY <1>1, <1>4, <1>5
  <2> HIDE DEF c, l
  <2>2. /\ c \in BookType /\ c.open = a.open - 1 /\ c.max = a.max
        /\ c.level[s][p] = RemoveAt(a.level[s][p], n)
        /\ c.total[s][p] = IF RemoveAt(a.level[s][p], n) = <<>> THEN 0 ELSE a.total[s][p]
        /\ \A t \in Sides, q \in Prices : t # s \/ q # p =>
              c.level[t][q] = a.level[t][q] /\ c.total[t][q] = a.total[t][q]
    BY <1>4, <2>1, Unlinked DEF c
  <2>3. RemoveAt(a.level[s][p], n) = k
    BY <1>4 DEF l
  <2> QED
    BY <1>4, <2>2, <2>3
<1> HIDE DEF c, k
<1>7. Sum(LeavesOf(after), ToSet(k)) = x
  <2>1. IsFiniteSet(ToSet(k)) /\ ToSet(k) \subseteq Ids
    BY <1>2, BookFields, FS_Subset
  <2>2. \A j \in ToSet(k) : LeavesOf(after)[j] = LeavesOf(ord)[j]
    <3> TAKE j \in ToSet(k)
    <3>1. j \in Ids /\ j # m /\ Resting(b, j)
      BY <1>2, <2>1 DEF Resting
    <3> QED
      BY <3>1, OrderFields
  <2>3. Sum(LeavesOf(after), ToSet(k)) = Sum(LeavesOf(ord), ToSet(k))
    BY <2>1, <2>2, SumAgree
  <2> QED
    BY <1>2, <1>3, <2>3
<1>8. c.total[s][p] = x
  <2>1. CASE k = <<>>
    <3>1. ToSet(k) = {}
      BY <2>1 DEF ToSet
    <3>2. x = 0
      BY <1>7, <3>1, SumEmpty
    <3> QED
      BY <1>6, <2>1, <3>2
  <2>2. CASE k # <<>>
    BY <1>6, <2>2
  <2> QED
    BY <2>1, <2>2
<1>9. \A j \in ToSet(k) : RestsAt(after[j], s, p)
  <2> TAKE j \in ToSet(k)
  <2>1. j \in Ids /\ j # m /\ Resting(b, j) /\ RestsAt(ord[j], s, p)
    BY <1>2, BookFields DEF Resting, Consistent
  <2> QED
    BY <2>1
<1>10. \A j \in Ids : Resting(b, j) /\ ~RestsAt(ord[j], s, p) => after[j] = ord[j]
  BY <1>3
<1>11. c.open = b.open + Len(c.level[s][p]) - Len(b.level[s][p])
  BY <1>1, <1>2, <1>5, <1>6
<1>12. Consistent(c, after)
  <2>1. LevelRight(c, after, s, p)
    BY <1>2, <1>6, <1>7, <1>8, <1>9 DEF LevelRight
  <2>2. c \in BookType /\ OthersStay(b, c, s, p)
    BY <1>6 DEF OthersStay
  <2>3. Moves(b, ord, c, after, s, p)
    BY <1>10, <1>11, <2>1, <2>2 DEF Moves
  <2> QED
    BY <2>3, BookMoves
<1>13. OthersStay(b, c, s, p)
  BY <1>6 DEF OthersStay
<1> QED
  BY <1>6, <1>8, <1>12, <1>13 DEF c, k, a, x, IsTakenOff

(* A fill that leaves the maker resting.                                     *)
IsPartlyFilled(b, c, after, s, p, q) ==
  /\ c \in BookType /\ Consistent(c, after) /\ c.open = b.open /\ c.max = b.max
  /\ c.level = b.level /\ c.total[s][p] = b.total[s][p] - q
  /\ OthersStay(b, c, s, p)

(* The total loses what the maker was filled.                              *)
LEMMA PartlyFilled ==
  ASSUME NEW b \in BookType, NEW ord \in Orders, NEW after \in Orders, Consistent(b, ord),
         NEW s \in Sides, NEW p \in Prices, NEW m \in ToSet(b.level[s][p]),
         NEW q \in Nat, RestsAt(after[m], s, p), Leaves(after[m]) = Leaves(ord[m]) - q,
         \A j \in Ids : Resting(b, j) /\ j # m => after[j] = ord[j]
  PROVE  IsPartlyFilled(b, [b EXCEPT !.total[s][p] = @ - q], after, s, p, q)
<1> DEFINE x == b.total[s][p] - q
           c == [b EXCEPT !.total[s][p] = x]
           M == ToSet(b.level[s][p])
<1>1. PICK rest \in Nat : rest = Sum(LeavesOf(ord), M \ {m}) /\ b.total[s][p] = Leaves(ord[m]) + rest
  BY LevelTotal
<1>2. Leaves(ord[m]) \in Nat /\ m \in Ids /\ RestsAt(ord[m], s, p)
  BY LevelTotal
<1>3. Leaves(after[m]) > 0 /\ x = Leaves(after[m]) + rest /\ x \in Nat
  BY <1>1, <1>2 DEF RestsAt
<1>4. /\ c \in BookType /\ c.level = b.level /\ c.open = b.open /\ c.max = b.max
      /\ c.total[s][p] = x
      /\ \A t \in Sides, r \in Prices : t # s \/ r # p => c.total[t][r] = b.total[t][r]
  BY <1>3, TotalSet
<1>5. M \subseteq Ids /\ IsFiniteSet(M) /\ Len(b.level[s][p]) \in Nat /\ IsInjective(b.level[s][p])
      /\ \A j \in M : Resting(b, j) /\ RestsAt(ord[j], s, p)
  BY BookFields DEF Consistent, Resting
<1>6. \A j \in M : j # m => after[j] = ord[j]
  BY <1>5
<1>7. Sum(LeavesOf(after), M) = x
  <2>1. Sum(LeavesOf(after), M) = LeavesOf(after)[m] + Sum(LeavesOf(after), M \ {m})
    <3>1. \A j \in M : LeavesOf(after)[j] \in Int
      BY <1>5, OrderFields
    <3> QED
      BY <1>5, <3>1, SumRemove
  <2>2. Sum(LeavesOf(after), M \ {m}) = Sum(LeavesOf(ord), M \ {m})
    <3>1. IsFiniteSet(M \ {m}) /\ \A j \in M \ {m} : LeavesOf(after)[j] = LeavesOf(ord)[j]
      BY <1>5, <1>6, OrderFields, FS_Subset
    <3> QED
      BY <3>1, SumAgree
  <2>3. LeavesOf(after)[m] = Leaves(after[m])
    BY <1>2, OrderFields
  <2> QED
    BY <1>1, <1>3, <2>1, <2>2, <2>3
<1>8. \A j \in M : RestsAt(after[j], s, p)
  BY <1>5, <1>6
<1>9. \A j \in Ids : Resting(b, j) /\ ~RestsAt(ord[j], s, p) => after[j] = ord[j]
  BY <1>2
<1>10. b.open \in Nat
  BY BookFields
<1> HIDE DEF c, x
<1>11. c.open = b.open + Len(c.level[s][p]) - Len(b.level[s][p])
  BY <1>4, <1>5, <1>10
<1>12. Consistent(c, after)
  <2>1. LevelRight(c, after, s, p)
    BY <1>4, <1>5, <1>7, <1>8 DEF LevelRight
  <2>2. c \in BookType /\ OthersStay(b, c, s, p)
    BY <1>4 DEF OthersStay
  <2>3. Moves(b, ord, c, after, s, p)
    BY <1>9, <1>11, <2>1, <2>2 DEF Moves
  <2> QED
    BY <2>3, BookMoves
<1> QED
  BY <1>4, <1>12 DEF c, x, IsPartlyFilled, OthersStay

(* What is left of a taker joins its level.                                  *)
IsRested(b, c, after, s, p, i) ==
  /\ c \in BookType /\ Consistent(c, after) /\ c.max = b.max
  /\ c.level[s][p] = Append(b.level[s][p], i)
  /\ OthersStay(b, c, s, p)

(* Rest keeps the book consistent.                                         *)
LEMMA Rested ==
  ASSUME NEW b \in BookType, NEW ord \in Orders, NEW after \in Orders, Consistent(b, ord),
         NEW s \in Sides, NEW p \in Prices, NEW i \in Ids, ~Resting(b, i),
         RestsAt(after[i], s, p), NEW o, o.side = s, o.price = p, Leaves(o) = Leaves(after[i]),
         \A j \in Ids : Resting(b, j) => after[j] = ord[j]
  PROVE  IsRested(b, Rest(b, i, o), after, s, p, i)
<1> DEFINE l == Append(b.level[s][p], i)
           x == b.total[s][p] + Leaves(o)
           M == ToSet(b.level[s][p])
           c == SetLevel(b, s, p, l, x, b.open + 1)
<1>1. Rest(b, i, o) = c
  BY DEF Rest, SetLevel
<1>2. /\ b.level[s][p] \in Seq(Ids) /\ IsInjective(b.level[s][p]) /\ i \notin M
      /\ M \subseteq Ids /\ IsFiniteSet(M) /\ Len(b.level[s][p]) \in Nat
      /\ b.total[s][p] = Sum(LeavesOf(ord), M) /\ b.total[s][p] \in Nat
      /\ \A j \in M : Resting(b, j) /\ RestsAt(ord[j], s, p)
  BY BookFields DEF Consistent, Resting
<1>3. l \in Seq(Ids) /\ Len(l) = Len(b.level[s][p]) + 1 /\ IsInjective(l) /\ ToSet(l) = M \cup {i}
  BY <1>2, LevelAppended
<1>4. Leaves(o) \in Nat /\ x \in Nat /\ b.open \in Nat
  <2>1. Leaves(after[i]) \in Int /\ Leaves(after[i]) > 0
    BY OrderFields DEF RestsAt
  <2>2. b.open \in Nat
    BY BookFields
  <2> QED
    BY <1>2, <2>1, <2>2
<1> HIDE DEF l, x
<1>5. /\ c \in BookType /\ c.open = b.open + 1 /\ c.max = b.max
      /\ c.level[s][p] = l /\ c.total[s][p] = x
      /\ \A t \in Sides, r \in Prices : t # s \/ r # p =>
            c.level[t][r] = b.level[t][r] /\ c.total[t][r] = b.total[t][r]
  <2>1. b.open + 1 \in Nat
    BY <1>4
  <2>2. l \in Seq(Ids) /\ x \in Nat
    BY <1>3, <1>4
  <2>3. IsLevelSet(b, SetLevel(b, s, p, l, x, b.open + 1), s, p, l, x, b.open + 1)
    BY <2>1, <2>2, LevelSet
  <2> QED
    BY <2>3 DEF IsLevelSet
<1> HIDE DEF c
<1>6. Sum(LeavesOf(after), M \cup {i}) = x
  <2>1. Sum(LeavesOf(after), M) = Sum(LeavesOf(ord), M)
    <3>1. \A j \in M : LeavesOf(after)[j] = LeavesOf(ord)[j]
      BY <1>2, OrderFields
    <3> QED
      BY <1>2, <3>1, SumAgree
  <2>2. Sum(LeavesOf(after), M \cup {i}) = Sum(LeavesOf(after), M) + LeavesOf(after)[i]
    <3>1. \A j \in M \cup {i} : LeavesOf(after)[j] \in Int
      BY <1>2, OrderFields
    <3> QED
      BY <1>2, <3>1, SumAdd
  <2>3. LeavesOf(after)[i] = Leaves(o)
    BY OrderFields
  <2> QED
    BY <1>2, <2>1, <2>2, <2>3 DEF x
<1>7. \A j \in M \cup {i} : RestsAt(after[j], s, p)
  BY <1>2
<1>8. c.open = b.open + Len(c.level[s][p]) - Len(b.level[s][p])
  BY <1>2, <1>3, <1>4, <1>5
<1>9. \A j \in Ids : Resting(b, j) /\ ~RestsAt(ord[j], s, p) => after[j] = ord[j]
  OBVIOUS
<1>10. Consistent(c, after)
  <2>1. LevelRight(c, after, s, p)
    BY <1>3, <1>5, <1>6, <1>7 DEF LevelRight
  <2>2. c \in BookType /\ OthersStay(b, c, s, p)
    BY <1>5 DEF OthersStay
  <2>3. Moves(b, ord, c, after, s, p)
    BY <1>8, <1>9, <2>1, <2>2 DEF Moves
  <2> QED
    BY <2>3, BookMoves
<1> QED
  BY <1>1, <1>5, <1>10 DEF l, IsRested, OthersStay

----
(***************************************************************************)
(* The matching loop.                                                      *)
(***************************************************************************)
(* The state of match's loops.                                             *)
LoopState == [book : BookType, order : Orders,
              trades : {T \in SUBSET TradeType : IsFiniteSet(T)},
              prevented : SUBSET (Ids \X Ids)]

(* The order was taken by a book; the loops stop.                          *)
Taken(o) == o.side \in Sides
Stopped(i, r) == Leaves(r.order[i]) = 0 \/ Crossed(i, r) = {}

(* What holds before and after every round for taker i.                      *)
Sound(i, r) ==
  /\ r \in LoopState
  /\ Consistent(r.book, r.order)
  /\ ~Resting(r.book, i) /\ Taken(r.order[i]) /\ r.order[i].status = "open"
  /\ \A j \in Ids : r.order[j].filled <= r.order[j].qty
  /\ Fair(r.order, r.trades)
  /\ \A n \in r.trades : n.taker = i => Leaves(r.order[n.maker]) = 0 \/ Leaves(r.order[i]) = 0

(* What rounds may do, from x to r: levels lose orders from the front, only  *)
(* the taker and resting orders change, in their fill and status; an order   *)
(* is filled when those in front of it are gone; and what the levels hold    *)
(* for the taker drops with what it wants, unless an order was prevented.    *)
Suffix(l, k) == \E d \in 0..Len(l) :
  Len(k) = Len(l) - d /\ \A n \in 1..Len(k) : k[n] = l[n + d]
BookShrinks(b, c) ==
  c.max = b.max /\ \A s \in Sides, p \in Prices : Suffix(b.level[s][p], c.level[s][p])
Terms(o, n) ==
  /\ n.trader = o.trader /\ n.side = o.side /\ n.tif = o.tif /\ n.price = o.price /\ n.qty = o.qty
  /\ o.filled <= n.filled
OrdersKept(i, x, r) == \A j \in Ids :
  /\ Terms(x.order[j], r.order[j])
  /\ j # i /\ ~Resting(x.book, j) => r.order[j] = x.order[j]
At(b, s, p, n, k) == n \in 1..Len(b.level[s][p]) /\ b.level[s][p][n] = k
InFront(b, k, m) == \E s \in Sides, p \in Prices, q \in Prices :
  \E a \in Nat, c \in Nat :
     At(b, s, p, a, k) /\ At(b, s, q, c, m) /\ (Better(s, p, q) \/ (p = q /\ a < c))
InTurn(x, r) == \A k \in Ids, m \in Ids :
  InFront(x.book, k, m) /\ x.order[m].filled < r.order[m].filled => ~Resting(r.book, k)
Surplus(i, r) == AvailableUnits(r.book, r.order[i]) - Leaves(r.order[i])
Prevented(i, r) == \E m \in Ids : <<i, m>> \in r.prevented /\ Taken(r.order[m])
Since(i, x, r) ==
  /\ BookShrinks(x.book, r.book) /\ OrdersKept(i, x, r) /\ InTurn(x, r)
  /\ x.prevented \subseteq r.prevented
  /\ Prevented(i, r) \/ Surplus(i, r) = Surplus(i, x)

(* The components of the loop state.                                       *)
LEMMA StateFields ==
  ASSUME NEW r \in LoopState
  PROVE  /\ r.book \in BookType /\ r.order \in Orders /\ r.prevented \subseteq Ids \X Ids
         /\ r.trades \subseteq TradeType /\ IsFiniteSet(r.trades)
  BY DEF LoopState

(* An order a book took has all its fields.                                *)
LEMMA TakenIsOrder ==
  ASSUME NEW ord \in Orders, NEW j \in Ids
  PROVE  /\ Taken(ord[j]) <=> ord[j] \in OrderType
         /\ Taken(ord[j]) <=> ord[j] # NoOrder
         /\ ord[j].status \in {"open", "partially_filled"} => Taken(ord[j])
<1>1. ord[j] \in OrderType \/ ord[j] = NoOrder
  BY DEF Orders
<1>2. ord[j] \in OrderType => Taken(ord[j])
  BY DEF OrderType, Taken
<1>3. ord[j] = NoOrder => ~Taken(ord[j]) /\ ord[j].status = "none"
  BY DEF NoOrder, Taken, Sides
<1> QED
  BY <1>1, <1>2, <1>3

(* An order that rests was taken and has something left.                   *)
LEMMA RestingOrder ==
  ASSUME NEW b \in BookType, NEW ord \in Orders, Consistent(b, ord), NEW j, Resting(b, j)
  PROVE  /\ j \in Ids /\ Taken(ord[j]) /\ Leaves(ord[j]) > 0
         /\ ord[j].side \in Sides /\ ord[j].price \in Prices
         /\ ord[j].status \in {"open", "partially_filled"}
         /\ \A s \in Sides, p \in Prices :
               j \in ToSet(b.level[s][p]) <=> s = ord[j].side /\ p = ord[j].price
<1>1. PICK s \in Sides, p \in Prices : j \in ToSet(b.level[s][p])
  BY DEF Resting
<1>2. \A t \in Sides, q \in Prices : j \in ToSet(b.level[t][q]) => RestsAt(ord[j], t, q)
  BY DEF Consistent
<1>3. j \in Ids
  BY <1>1, BookFields
<1>4. RestsAt(ord[j], s, p)
  BY <1>1, <1>2
<1> QED
  BY <1>1, <1>2, <1>3, <1>4, TakenIsOrder DEF RestsAt

(* Positions in the levels of a consistent book.                             *)
LEMMA Position ==
  ASSUME NEW b \in BookType, NEW s \in Sides, NEW p \in Prices, NEW k
  PROVE  k \in ToSet(b.level[s][p]) <=> \E n \in Nat : At(b, s, p, n, k)
<1>1. DOMAIN b.level[s][p] = 1..Len(b.level[s][p]) /\ Len(b.level[s][p]) \in Nat
  BY BookFields
<1>2. ToSet(b.level[s][p]) = {b.level[s][p][n] : n \in 1..Len(b.level[s][p])}
  BY <1>1 DEF ToSet
<1>3. 1..Len(b.level[s][p]) \subseteq Nat
  BY <1>1
<1> QED
  BY <1>2, <1>3 DEF At

(* An order has one place in its level.                                    *)
LEMMA OnePosition ==
  ASSUME NEW b \in BookType, NEW ord, Consistent(b, ord), NEW s \in Sides, NEW p \in Prices,
         NEW k, NEW n, NEW m, At(b, s, p, n, k), At(b, s, p, m, k)
  PROVE  n = m
<1>1. DOMAIN b.level[s][p] = 1..Len(b.level[s][p])
  BY BookFields
<1> QED
  BY <1>1 DEF At, Consistent, IsInjective

(* Losing nothing, one order and then more from the front is a Suffix.     *)
LEMMA SuffixSelf == ASSUME NEW l \in Seq(Ids) PROVE Suffix(l, l)
<1>1. 0 \in 0..Len(l) /\ Len(l) = Len(l) - 0 /\ \A n \in 1..Len(l) : l[n] = l[n + 0]
  OBVIOUS
<1> QED
  BY <1>1 DEF Suffix

LEMMA SuffixTail ==
  ASSUME NEW l \in Seq(Ids), l # <<>>
  PROVE  Suffix(l, RemoveAt(l, 1))
<1>1. 1 \in 1..Len(l) /\ Len(l) \in Nat
  OBVIOUS
<1>2. PICK k : k = RemoveAt(l, 1)
  OBVIOUS
<1>3. Len(k) = Len(l) - 1 /\ \A n \in 1..(Len(l) - 1) : k[n] = IF n < 1 THEN l[n] ELSE l[n + 1]
  BY <1>1, <1>2, TakenOut
<1>4. \A n \in 1..(Len(l) - 1) : k[n] = l[n + 1]
  BY <1>3
<1> QED
  BY <1>1, <1>2, <1>3, <1>4 DEF Suffix

LEMMA SuffixTrans ==
  ASSUME NEW l \in Seq(Ids), NEW k \in Seq(Ids), NEW j \in Seq(Ids), Suffix(l, k), Suffix(k, j)
  PROVE  Suffix(l, j)
<1>1. PICK d \in 0..Len(l) : Len(k) = Len(l) - d /\ \A n \in 1..Len(k) : k[n] = l[n + d]
  BY DEF Suffix
<1>2. PICK e \in 0..Len(k) : Len(j) = Len(k) - e /\ \A n \in 1..Len(j) : j[n] = k[n + e]
  BY DEF Suffix
<1>3. PICK x \in Nat, y \in Nat, z \in Nat : x = Len(l) /\ y = Len(k) /\ z = Len(j)
  OBVIOUS
<1>4. d + e \in 0..x /\ z = x - (d + e)
  BY <1>1, <1>2, <1>3
<1>5. ASSUME NEW n \in 1..z PROVE j[n] = l[n + (d + e)]
  <2>1. n + e \in 1..y /\ (n + e) + d = n + (d + e)
    BY <1>1, <1>2, <1>3
  <2> QED
    BY <1>1, <1>2, <1>3, <2>1
<1> QED
  BY <1>3, <1>4, <1>5 DEF Suffix

(* The orders of a level all move up by the same number of places.         *)
Shifted(b, c, s, p) ==
  \E d \in Nat : \A n \in Nat : \A k : At(c, s, p, n, k) => At(b, s, p, n + d, k)

LEMMA Shrunk ==
  ASSUME NEW b \in BookType, NEW c \in BookType, BookShrinks(b, c)
  PROVE  /\ \A s \in Sides, p \in Prices :
               /\ ToSet(c.level[s][p]) \subseteq ToSet(b.level[s][p])
               /\ c.level[s][p] # <<>> => b.level[s][p] # <<>>
               /\ Shifted(b, c, s, p)
         /\ \A k : Resting(c, k) => Resting(b, k)
<1>1. ASSUME NEW s \in Sides, NEW p \in Prices
      PROVE  /\ ToSet(c.level[s][p]) \subseteq ToSet(b.level[s][p])
             /\ c.level[s][p] # <<>> => b.level[s][p] # <<>>
             /\ Shifted(b, c, s, p)
  <2> DEFINE l == b.level[s][p]
             k == c.level[s][p]
  <2>1. l \in Seq(Ids) /\ k \in Seq(Ids) /\ Len(l) \in Nat /\ Len(k) \in Nat
    BY BookFields
  <2>2. PICK d \in 0..Len(l) : Len(k) = Len(l) - d /\ \A n \in 1..Len(k) : k[n] = l[n + d]
    BY DEF BookShrinks, Suffix
  <2>3. \A n \in 1..Len(k) : n + d \in 1..Len(l)
    BY <2>1, <2>2
  <2>4. \A n \in Nat : \A j : At(c, s, p, n, j) => At(b, s, p, n + d, j)
    BY <2>2, <2>3 DEF At
  <2>5. ToSet(k) \subseteq ToSet(l)
    <3> SUFFICES ASSUME NEW j \in ToSet(k) PROVE j \in ToSet(l)
      OBVIOUS
    <3>1. PICK n \in Nat : At(c, s, p, n, j)
      BY Position
    <3>2. n + d \in Nat /\ At(b, s, p, n + d, j)
      BY <2>1, <2>4, <3>1
    <3> QED
      BY <3>2, Position
  <2>6. k # <<>> => l # <<>>
    <3> SUFFICES ASSUME k # <<>>, l = <<>> PROVE FALSE
      OBVIOUS
    <3>1. Len(l) = 0 /\ Len(k) > 0
      BY <2>1
    <3> QED
      BY <2>1, <2>2, <3>1
  <2>7. d \in Nat
    BY <2>1
  <2>8. Shifted(b, c, s, p)
    BY <2>4, <2>7 DEF Shifted
  <2> QED
    BY <2>5, <2>6, <2>8
<1>2. \A k : Resting(c, k) => Resting(b, k)
  BY <1>1 DEF Resting
<1> QED
  BY <1>1, <1>2

(* Rounds after rounds are rounds.                                         *)
LEMMA ShrinksTrans ==
  ASSUME NEW a \in BookType, NEW b \in BookType, NEW c \in BookType,
         BookShrinks(a, b), BookShrinks(b, c)
  PROVE  BookShrinks(a, c)
<1>1. ASSUME NEW s \in Sides, NEW p \in Prices PROVE Suffix(a.level[s][p], c.level[s][p])
  <2>1. /\ a.level[s][p] \in Seq(Ids) /\ b.level[s][p] \in Seq(Ids) /\ c.level[s][p] \in Seq(Ids)
        /\ Suffix(a.level[s][p], b.level[s][p]) /\ Suffix(b.level[s][p], c.level[s][p])
    BY BookFields DEF BookShrinks
  <2> QED
    BY <2>1, SuffixTrans
<1> QED
  BY <1>1 DEF BookShrinks

(* Who keeps resting keeps its place.                                        *)
LEMMA StaysInFront ==
  ASSUME NEW b \in BookType, NEW ord \in Orders, Consistent(b, ord),
         NEW c \in BookType, BookShrinks(b, c), NEW k, NEW m, InFront(b, k, m),
         Resting(c, k), Resting(c, m)
  PROVE  InFront(c, k, m)
<1>1. PICK s \in Sides, p \in Prices, q \in Prices, x \in Nat, y \in Nat :
         At(b, s, p, x, k) /\ At(b, s, q, y, m) /\ (Better(s, p, q) \/ (p = q /\ x < y))
  BY DEF InFront
<1>2. PICK d \in Nat : \A n \in Nat : \A j : At(c, s, p, n, j) => At(b, s, p, n + d, j)
  <2>1. Shifted(b, c, s, p)
    BY Shrunk
  <2> QED
    BY <2>1 DEF Shifted
<1>3. ASSUME NEW j, Resting(c, j), NEW t \in Prices, NEW z \in Nat, At(b, s, t, z, j)
      PROVE  \E n \in Nat : At(c, s, t, n, j)
  <2>1. Resting(b, j) /\ j \in ToSet(b.level[s][t])
    <3>1. j \in ToSet(b.level[s][t])
      BY <1>3, Position
    <3> QED
      BY <3>1 DEF Resting
  <2>2. ord[j].side = s /\ ord[j].price = t
    BY <2>1, RestingOrder
  <2>3. PICK s2 \in Sides, t2 \in Prices : j \in ToSet(c.level[s2][t2])
    BY <1>3 DEF Resting
  <2>4. j \in ToSet(b.level[s2][t2])
    BY <2>3, Shrunk
  <2>5. s2 = s /\ t2 = t
    BY <2>1, <2>2, <2>4, RestingOrder
  <2> QED
    BY <2>3, <2>5, Position
<1>4. PICK n \in Nat : At(c, s, p, n, k)
  BY <1>1, <1>3
<1>5. PICK w \in Nat : At(c, s, q, w, m)
  BY <1>1, <1>3
<1>6. n + d = x
  <2>1. At(b, s, p, n + d, k)
    BY <1>2, <1>4
  <2> QED
    BY <1>1, <2>1, OnePosition
<1>7. p = q => w + d = y
  <2> SUFFICES ASSUME p = q PROVE w + d = y
    OBVIOUS
  <2>1. At(b, s, p, w + d, m) /\ At(b, s, p, y, m)
    BY <1>1, <1>2, <1>5
  <2> QED
    BY <2>1, OnePosition
<1>8. Better(s, p, q) \/ (p = q /\ n < w)
  BY <1>1, <1>6, <1>7
<1> QED
  BY <1>4, <1>5, <1>8 DEF InFront

(* Since is reflexive and transitive.                                      *)
LEMMA SinceSelf ==
  ASSUME NEW i, NEW r \in LoopState
  PROVE  Since(i, r, r)
<1>1. BookShrinks(r.book, r.book)
  <2>1. \A s \in Sides, p \in Prices : r.book.level[s][p] \in Seq(Ids)
    BY StateFields, BookFields
  <2> QED
    BY <2>1, SuffixSelf DEF BookShrinks
<1>2. \A j \in Ids : r.order[j].filled \in Nat
  BY StateFields, OrderFields
<1>3. OrdersKept(i, r, r)
  BY <1>2 DEF OrdersKept, Terms
<1>4. InTurn(r, r)
  BY <1>2 DEF InTurn
<1> QED
  BY <1>1, <1>3, <1>4 DEF Since

LEMMA SinceTrans ==
  ASSUME NEW i \in Ids, NEW x \in LoopState, NEW r \in LoopState, NEW u \in LoopState,
         Consistent(x.book, x.order), ~Resting(x.book, i), Consistent(r.book, r.order),
         Since(i, x, r), Since(i, r, u)
  PROVE  Since(i, x, u)
<1> USE StateFields DEF Since
<1>1. BookShrinks(x.book, u.book)
  BY ShrinksTrans
<1>2. \A k : (Resting(r.book, k) => Resting(x.book, k)) /\ (Resting(u.book, k) => Resting(r.book, k))
  BY Shrunk
<1>3. \A j \in Ids : Terms(x.order[j], r.order[j]) /\ Terms(r.order[j], u.order[j])
  BY DEF OrdersKept
<1>4. \A j \in Ids : x.order[j].filled \in Nat /\ r.order[j].filled \in Nat /\ u.order[j].filled \in Nat
  BY OrderFields
<1>5. OrdersKept(i, x, u)
  <2>1. \A j \in Ids : Terms(x.order[j], u.order[j])
    BY <1>3, <1>4 DEF Terms
  <2>2. \A j \in Ids : j # i /\ ~Resting(x.book, j) => u.order[j] = x.order[j]
    BY <1>2 DEF OrdersKept
  <2> QED
    BY <2>1, <2>2 DEF OrdersKept
<1>6. InTurn(x, u)
  <2> SUFFICES ASSUME NEW k \in Ids, NEW m \in Ids, InFront(x.book, k, m),
                      x.order[m].filled < u.order[m].filled, Resting(u.book, k)
               PROVE  FALSE
    BY DEF InTurn
  <2>1. Resting(r.book, k)
    BY <1>2
  <2>2. ~(x.order[m].filled < r.order[m].filled)
    BY <2>1 DEF InTurn
  <2>3. r.order[m].filled < u.order[m].filled
    BY <1>3, <1>4, <2>2 DEF Terms
  <2>4. m # i
    <3>1. Resting(x.book, m)
      BY Position DEF InFront, Resting
    <3> QED
      BY <3>1
  <2>5. Resting(r.book, m)
    <3>1. r.order[m] # u.order[m]
      BY <1>4, <2>3
    <3> QED
      BY <2>4, <3>1 DEF OrdersKept
  <2>6. InFront(r.book, k, m)
    BY <2>1, <2>5, StaysInFront
  <2> QED
    BY <2>3, <2>6 DEF InTurn
<1>7. Prevented(i, r) => Prevented(i, u)
  <2> SUFFICES ASSUME NEW m \in Ids, <<i, m>> \in r.prevented, Taken(r.order[m])
               PROVE  <<i, m>> \in u.prevented /\ Taken(u.order[m])
    BY DEF Prevented
  <2> QED
    BY <1>3 DEF Terms, Taken
<1> QED
  BY <1>1, <1>5, <1>6, <1>7

(* There is a best level among those that cross: prices are finitely many. *)
LEMMA BestFound ==
  ASSUME NEW s \in Sides, NEW P \in SUBSET Prices, P # {}
  PROVE  BestPrice(s, P) \in P /\ \A q \in P : ~Better(s, q, BestPrice(s, P))
<1> DEFINE Above(p) == {q \in P : Better(s, q, p)}
           F == {Above(p) : p \in P}
<1>1. IsFiniteSet(P) /\ P \subseteq Nat
  <2>1. Prices \subseteq Nat /\ IsFiniteSet(Prices)
    BY OrderBookAssumption
  <2> QED
    BY <2>1, FS_Subset
<1>2. F \in SUBSET SUBSET P /\ F # {}
  OBVIOUS
<1>3. PICK U \in F : \A V \in F : V \subseteq U => V = U
  <2>1. IsFiniteSet(P)
    BY <1>1
  <2> HIDE DEF F
  <2> QED
    BY <1>2, <2>1, MinimalSubset
<1>4. PICK p \in P : U = Above(p)
  OBVIOUS
<1>5. ASSUME NEW q \in P, Better(s, q, p) PROVE FALSE
  <2>1. p \in Nat /\ q \in Nat
    BY <1>1
  <2>2. Above(q) \in F
    OBVIOUS
  <2>3. Above(q) \subseteq Above(p)
    <3> SUFFICES ASSUME NEW z \in P, Better(s, z, q) PROVE Better(s, z, p)
      OBVIOUS
    <3>1. z \in Nat
      BY <1>1
    <3> QED
      BY <1>5, <2>1, <3>1 DEF Better
  <2>4. q \in Above(p)
    BY <1>5
  <2>5. ~Better(s, q, q)
    BY <2>1 DEF Better
  <2>6. q \notin Above(q)
    BY <2>5
  <2> HIDE DEF F, Above
  <2> QED
    BY <1>3, <1>4, <2>2, <2>3, <2>4, <2>6
<1> QED
  BY <1>5 DEF BestPrice

(* Taker i of loop state r meets m, the first of the best level it crosses.  *)
Meets(i, r, s, p, m) ==
  /\ s \in Sides /\ p \in Prices /\ r.order[i].side \in Sides /\ s = Opposite(r.order[i].side)
  /\ At(r.book, s, p, 1, m) /\ Crosses(r.order[i], p)
  /\ \A q \in Prices : Better(s, q, p) => r.book.level[s][q] = <<>>

(* A round that does not stop meets the head of the best level.            *)
LEMMA RoundMeets ==
  ASSUME NEW i \in Ids, NEW r, Sound(i, r), ~Stopped(i, r)
  PROVE  \E s \in Sides, p \in Prices, m \in Ids :
            Meets(i, r, s, p, m) /\ Round(i, r) = Meet(i, r, m)
<1> DEFINE o == r.order[i]
           s == Opposite(o.side)
           C == Crossed(i, r)
           p == BestPrice(s, C)
           l == r.book.level[s][p]
<1>1. r \in LoopState /\ o.side \in Sides /\ s \in Sides /\ C # {} /\ C \subseteq Prices
  BY DEF Sound, Stopped, Taken, Opposite, Sides, Crossed
<1>2. p \in C /\ \A q \in C : ~Better(s, q, p)
  BY <1>1, BestFound
<1>3. p \in Prices /\ l # <<>> /\ Crosses(o, p)
  BY <1>2 DEF Crossed
<1>4. l \in Seq(Ids)
  BY <1>1, <1>3, StateFields, BookFields
<1>5. 1 \in 1..Len(l) /\ l[1] = Head(l) /\ Head(l) \in Ids
  BY <1>3, <1>4
<1>6. At(r.book, s, p, 1, Head(l))
  BY <1>5 DEF At
<1>7. ASSUME NEW q \in Prices, Better(s, q, p) PROVE r.book.level[s][q] = <<>>
  <2>1. q \in Nat /\ p \in Nat /\ o.price \in Nat
    <3>1. Prices \subseteq Nat
      BY OrderBookAssumption
    <3>2. o.price \in Nat
      BY <1>1, StateFields, OrderFields
    <3> QED
      BY <1>3, <3>1, <3>2
  <2>2. Crosses(o, q)
    BY <1>1, <1>3, <1>7, <2>1 DEF Crosses, Better, Opposite, Sides
  <2> QED
    BY <1>2, <1>7, <2>2 DEF Crossed
<1>8. Round(i, r) = Meet(i, r, Head(l))
  BY DEF Round, Stopped
<1>9. Meets(i, r, s, p, Head(l))
  BY <1>1, <1>3, <1>6, <1>7 DEF Meets
<1> HIDE DEF p, l, s
<1> QED
  BY <1>1, <1>3, <1>5, <1>8, <1>9

(* The maker is another order that rests, and none stands in front of it.  *)
LEMMA MeetingFacts ==
  ASSUME NEW i \in Ids, NEW r, Sound(i, r), ~Stopped(i, r),
         NEW s \in Sides, NEW p \in Prices, NEW m \in Ids, Meets(i, r, s, p, m)
  PROVE  /\ m # i /\ Resting(r.book, m) /\ m \in ToSet(r.book.level[s][p])
         /\ 1 \in 1..Len(r.book.level[s][p]) /\ r.book.level[s][p][1] = m
         /\ RestsAt(r.order[m], s, p)
         /\ Taken(r.order[m]) /\ Leaves(r.order[m]) \in Nat \ {0} /\ Leaves(r.order[i]) \in Nat \ {0}
         /\ \A k : ~InFront(r.book, k, m)
<1>1. r.book \in BookType /\ r.order \in Orders /\ Consistent(r.book, r.order)
  BY StateFields DEF Sound
<1>2. 1 \in 1..Len(r.book.level[s][p]) /\ r.book.level[s][p][1] = m
  BY DEF Meets, At
<1>3. m \in ToSet(r.book.level[s][p])
  BY <1>1, Position DEF Meets
<1>4. Resting(r.book, m) /\ RestsAt(r.order[m], s, p)
  BY <1>1, <1>3 DEF Resting, Consistent
<1>5. Taken(r.order[m]) /\ Leaves(r.order[m]) > 0 /\ Leaves(r.order[m]) \in Int
  BY <1>1, <1>4, RestingOrder, OrderFields
<1>6. Leaves(r.order[i]) \in Nat \ {0}
  <2>1. r.order[i].filled <= r.order[i].qty /\ Leaves(r.order[i]) # 0
    BY DEF Sound, Stopped
  <2>2. r.order[i].filled \in Nat /\ r.order[i].qty \in Nat
    BY <1>1, OrderFields
  <2> QED
    BY <2>1, <2>2 DEF Leaves
<1>7. m # i
  BY <1>4 DEF Sound
<1>8. ASSUME NEW k, InFront(r.book, k, m) PROVE FALSE
  <2>1. PICK t \in Sides, z \in Prices, q \in Prices, a \in Nat, c \in Nat :
           /\ At(r.book, t, z, a, k) /\ At(r.book, t, q, c, m)
           /\ Better(t, z, q) \/ (z = q /\ a < c)
    BY <1>8 DEF InFront
  <2>2. m \in ToSet(r.book.level[t][q])
    BY <1>1, <2>1, Position
  <2>3. t = s /\ q = p
    BY <1>1, <1>4, <2>2, <1>3, RestingOrder
  <2>4. c = 1
    <3>1. At(r.book, s, p, c, m) /\ At(r.book, s, p, 1, m)
      BY <2>1, <2>3 DEF Meets
    <3> QED
      BY <1>1, <3>1, OnePosition
  <2>5. a \in 1..Len(r.book.level[s][z])
    BY <2>1, <2>3 DEF At
  <2>6. r.book.level[s][z] # <<>>
    <3> SUFFICES ASSUME r.book.level[s][z] = <<>> PROVE FALSE
      OBVIOUS
    <3>1. Len(r.book.level[s][z]) = 0
      OBVIOUS
    <3> QED
      BY <2>5, <3>1
  <2>7. ~Better(s, z, p)
    BY <2>6 DEF Meets
  <2> QED
    BY <2>1, <2>3, <2>4, <2>5, <2>7
<1> QED
  BY <1>2, <1>3, <1>4, <1>5, <1>6, <1>7, <1>8

(* What a round changes, whether m is cancelled or filled.                   *)
Changes(i, r, u, s, p, m) ==
  /\ u.book.max = r.book.max
  /\ \A t \in Sides, q \in Prices : t # s \/ q # p => u.book.level[t][q] = r.book.level[t][q]
  /\ u.book.level[s][p] \in {r.book.level[s][p], RemoveAt(r.book.level[s][p], 1)}
  /\ \A j \in Ids : Terms(r.order[j], u.order[j]) /\ (j \notin {i, m} => u.order[j] = r.order[j])
  /\ r.prevented \subseteq u.prevented
  /\ Prevented(i, u) \/ Surplus(i, u) = Surplus(i, r)

(* Such changes of one level and two orders are what a round may do.       *)
LEMMA ChangesSince ==
  ASSUME NEW i \in Ids, NEW r, Sound(i, r), ~Stopped(i, r), NEW u \in LoopState,
         NEW s \in Sides, NEW p \in Prices, NEW m \in Ids, Meets(i, r, s, p, m),
         Changes(i, r, u, s, p, m)
  PROVE  Since(i, r, u) /\ ~Resting(u.book, i)
<1> USE DEF Changes
<1>1. r \in LoopState /\ ~Resting(r.book, i)
  BY DEF Sound
<1>2. Resting(r.book, m) /\ r.book.level[s][p] # <<>> /\ \A k : ~InFront(r.book, k, m)
  <2>1. 1 \in 1..Len(r.book.level[s][p])
    BY MeetingFacts
  <2>2. r.book.level[s][p] # <<>>
    <3> SUFFICES ASSUME r.book.level[s][p] = <<>> PROVE FALSE
      OBVIOUS
    <3>1. Len(r.book.level[s][p]) = 0
      OBVIOUS
    <3> QED
      BY <2>1, <3>1
  <2> QED
    BY <2>2, MeetingFacts
<1>3. BookShrinks(r.book, u.book)
  <2>1. ASSUME NEW t \in Sides, NEW q \in Prices
        PROVE  Suffix(r.book.level[t][q], u.book.level[t][q])
    <3>1. r.book.level[t][q] \in Seq(Ids)
      BY <1>1, StateFields, BookFields
    <3>2. CASE u.book.level[t][q] = r.book.level[t][q]
      BY <3>1, <3>2, SuffixSelf
    <3>3. CASE u.book.level[t][q] # r.book.level[t][q]
      <4>1. t = s /\ q = p /\ u.book.level[t][q] = RemoveAt(r.book.level[t][q], 1)
        BY <3>3
      <4> QED
        BY <1>2, <3>1, <4>1, SuffixTail
    <3> QED
      BY <3>2, <3>3
  <2> QED
    BY <2>1 DEF BookShrinks
<1>4. OrdersKept(i, r, u)
  BY <1>2 DEF OrdersKept
<1>5. InTurn(r, u)
  <2> SUFFICES ASSUME NEW k \in Ids, NEW j \in Ids, InFront(r.book, k, j),
                      r.order[j].filled < u.order[j].filled
               PROVE  FALSE
    BY DEF InTurn
  <2>1. Resting(r.book, j)
    BY <1>1, StateFields, Position DEF InFront, Resting
  <2>2. r.order[j].filled \in Nat
    BY <1>1, StateFields, OrderFields
  <2>3. r.order[j] # u.order[j]
    BY <2>2
  <2>4. j = m
    BY <1>1, <2>1, <2>3
  <2> QED
    BY <1>2, <2>4
<1>6. ~Resting(u.book, i)
  BY <1>1, <1>3, StateFields, Shrunk
<1> QED
  BY <1>3, <1>4, <1>5, <1>6 DEF Since

(* The statuses of an order a book took.                                   *)
Statuses == {"open", "partially_filled", "filled", "cancelled", "rejected"}

(* o gets another fill and status.                                           *)
Become(o, n, f, st) ==
  /\ n \in OrderType /\ n.trader = o.trader /\ n.side = o.side /\ n.tif = o.tif
  /\ n.price = o.price /\ n.qty = o.qty /\ n.filled = f /\ n.status = st

(* The two updates match makes of an order.                                *)
LEMMA OrderBecomes ==
  ASSUME NEW o \in OrderType, NEW f \in Nat, NEW st \in Statuses
  PROVE  /\ Become(o, [o EXCEPT !.status = st], o.filled, st)
         /\ Become(o, [o EXCEPT !.filled = f], f, o.status)
<1>1. [o EXCEPT !.status = st] =
        [trader |-> o.trader, side |-> o.side, tif |-> o.tif, price |-> o.price, qty |-> o.qty,
         filled |-> o.filled, status |-> st]
  BY DEF OrderType
<1>2. [o EXCEPT !.filled = f] =
        [trader |-> o.trader, side |-> o.side, tif |-> o.tif, price |-> o.price, qty |-> o.qty,
         filled |-> f, status |-> o.status]
  BY DEF OrderType
<1>3. /\ o.trader \in Traders /\ o.side \in Sides /\ o.tif \in Forces /\ o.price \in Prices \cup {0}
      /\ o.qty \in Quantities /\ o.filled \in Nat /\ o.status \in Statuses
  BY DEF OrderType, Statuses
<1>4. Become(o, [o EXCEPT !.status = st], o.filled, st)
  BY <1>1, <1>3 DEF Become, OrderType, Statuses
<1>5. Become(o, [o EXCEPT !.filled = f], f, o.status)
  BY <1>2, <1>3 DEF Become, OrderType, Statuses
<1> QED
  BY <1>4, <1>5

(* Trades stay fair when the fills and what orders ask for stay.             *)
LEMMA FairStays ==
  ASSUME NEW ord, NEW after, NEW T \in SUBSET TradeType, Fair(ord, T),
         \A j \in Ids : Terms(ord[j], after[j]) /\ after[j].filled = ord[j].filled
  PROVE  Fair(after, T)
<1>1. \A n \in T : n.taker \in Ids /\ n.maker \in Ids
  BY DEF TradeType
<1>2. ASSUME NEW n \in T
      PROVE  LET maker == after[n.maker]  taker == after[n.taker] IN
             /\ maker.trader # taker.trader /\ maker.side # taker.side
             /\ maker.filled <= maker.qty /\ taker.filled <= taker.qty
             /\ n.price = maker.price /\ Crosses(taker, n.price)
  BY <1>1 DEF Fair, Terms, Crosses
<1>3. \A i \in Ids : after[i].filled = Sum([n \in T |-> n.qty], {n \in T : i \in {n.maker, n.taker}})
  BY DEF Fair
<1> QED
  BY <1>2, <1>3 DEF Fair

(* A round that cancels an order of the same trader.                       *)
LEMMA CancelRound ==
  ASSUME NEW i \in Ids, NEW r, Sound(i, r), ~Stopped(i, r),
         NEW s \in Sides, NEW p \in Prices, NEW m \in Ids, Meets(i, r, s, p, m),
         NEW u, u = CancelResting(i, r, m)
  PROVE  /\ Sound(i, u) /\ Since(i, r, u)
         /\ u.book.open = r.book.open - 1
<1> DEFINE b == r.book
           ord == r.order
           after == [ord EXCEPT ![m].status = "cancelled"]
           c == Unlink([b EXCEPT !.total[s][p] = @ - Leaves(ord[m])], s, p, 1)
<1>1. /\ b \in BookType /\ ord \in Orders /\ Consistent(b, ord) /\ r \in LoopState
      /\ r.prevented \subseteq Ids \X Ids /\ r.trades \subseteq TradeType /\ IsFiniteSet(r.trades)
  BY StateFields DEF Sound
<1>2. /\ m # i /\ Resting(b, m) /\ 1 \in 1..Len(b.level[s][p]) /\ b.level[s][p][1] = m
      /\ RestsAt(ord[m], s, p) /\ Taken(ord[m])
  BY MeetingFacts
<1>3. Become(ord[m], after[m], ord[m].filled, "cancelled")
  <2>1. ord[m] \in OrderType /\ "cancelled" \in Statuses
    BY <1>1, <1>2, TakenIsOrder DEF Statuses
  <2>2. after[m] = [ord[m] EXCEPT !.status = "cancelled"]
    BY <1>1 DEF Orders
  <2>3. ord[m].filled \in Nat
    BY <1>1, OrderFields
  <2> QED
    BY <2>1, <2>2, <2>3, OrderBecomes
<1>4. after \in Orders /\ \A j \in Ids : j # m => after[j] = ord[j]
  <2>1. after = [j \in Ids |-> IF j = m THEN after[m] ELSE ord[j]]
    BY <1>1 DEF Orders
  <2>2. after[m] \in OrderType
    BY <1>3 DEF Become
  <2>3. \A j \in Ids : ord[j] \in OrderType \cup {NoOrder}
    BY <1>1 DEF Orders
  <2> HIDE DEF after
  <2> QED
    BY <2>1, <2>2, <2>3 DEF Orders
<1> HIDE DEF after
<1>5. /\ c \in BookType /\ Consistent(c, after) /\ c.open = b.open - 1 /\ c.max = b.max
      /\ c.level[s][p] = RemoveAt(b.level[s][p], 1)
      /\ \A t \in Sides, q \in Prices : t # s \/ q # p => c.level[t][q] = b.level[t][q]
  <2>1. \A j \in Ids : Resting(b, j) /\ j # m => after[j] = ord[j]
    BY <1>4
  <2>2. IsTakenOff(b, ord, c, after, s, p, 1)
    BY <1>1, <1>2, <1>4, <2>1, TakenOff
  <2> QED
    BY <2>2 DEF IsTakenOff, OthersStay
<1> HIDE DEF c
<1>6. u = [book |-> c, order |-> after, trades |-> r.trades, prevented |-> r.prevented \cup {<<i, m>>}]
  <2>1. TakeOff(b, ord[m], 1) = c
    BY <1>2 DEF TakeOff, RestsAt, c
  <2>2. r = [book |-> b, order |-> ord, trades |-> r.trades, prevented |-> r.prevented]
    BY <1>1 DEF LoopState
  <2> QED
    BY <1>1, <2>1, <2>2 DEF CancelResting, after, LoopState
<1>7. /\ u.book = c /\ u.order = after /\ u.trades = r.trades
      /\ u.prevented = r.prevented \cup {<<i, m>>} /\ u \in LoopState
  <2>1. r.prevented \cup {<<i, m>>} \subseteq Ids \X Ids
    BY <1>1
  <2>2. r.trades \in {T \in SUBSET TradeType : IsFiniteSet(T)}
    BY <1>1
  <2> QED
    BY <1>4, <1>5, <1>6, <2>1, <2>2 DEF LoopState
<1>8. \A j \in Ids : Terms(ord[j], after[j]) /\ after[j].filled = ord[j].filled
  <2>1. \A j \in Ids : ord[j].filled \in Nat
    BY <1>1, OrderFields
  <2> QED
    BY <1>3, <1>4, <2>1 DEF Terms, Become
<1>9. Prevented(i, u)
  BY <1>3, <1>7, <1>2 DEF Prevented, Taken, Become
<1>10. Changes(i, r, u, s, p, m)
  BY <1>4, <1>5, <1>7, <1>8, <1>9 DEF Changes
<1>11. Since(i, r, u) /\ ~Resting(u.book, i)
  BY <1>7, <1>10, ChangesSince
<1>12. Fair(after, r.trades)
  BY <1>1, <1>8, FairStays DEF Sound
<1>13. after[i] = ord[i] /\ \A j \in Ids : Leaves(after[j]) = Leaves(ord[j]) /\ after[j].filled <= after[j].qty
  BY <1>2, <1>4, <1>8 DEF Leaves, Terms, Sound
<1>14. \A n \in r.trades : n.taker = i => Leaves(after[n.maker]) = 0 \/ Leaves(after[i]) = 0
  <2>1. \A n \in r.trades : n.maker \in Ids
    BY <1>1 DEF TradeType
  <2> QED
    BY <1>13, <2>1 DEF Sound
<1>15. Taken(after[i]) /\ after[i].status = "open"
  BY <1>13 DEF Sound
<1>16. Sound(i, u)
  BY <1>5, <1>7, <1>11, <1>12, <1>13, <1>14, <1>15 DEF Sound
<1> QED
  BY <1>5, <1>7, <1>11, <1>16

(* A new trade between i and m.                                              *)
IsTrade(ord, after, i, m, t) ==
  /\ t \in TradeType /\ t.taker = i /\ t.maker = m /\ i # m
  /\ after[i].filled = ord[i].filled + t.qty /\ after[m].filled = ord[m].filled + t.qty
  /\ \A j \in Ids : Terms(ord[j], after[j]) /\ (j \notin {i, m} => after[j] = ord[j])
  /\ after[i].filled <= after[i].qty /\ after[m].filled <= after[m].qty
  /\ ord[m].trader # ord[i].trader /\ ord[m].side # ord[i].side
  /\ t.price = ord[m].price /\ Crosses(ord[i], t.price)

(* One trade more, with the fills it makes, keeps the trades fair.         *)
LEMMA FairAdds ==
  ASSUME NEW ord \in Orders, NEW after \in Orders, NEW T \in SUBSET TradeType, IsFiniteSet(T),
         Fair(ord, T), NEW i \in Ids, NEW m \in Ids, NEW t, t \notin T, IsTrade(ord, after, i, m, t)
  PROVE  Fair(after, T \cup {t})
<1> USE DEF IsTrade
<1> DEFINE U == T \cup {t}
           f == [n \in T |-> n.qty]
           g == [n \in U |-> n.qty]
           S(j) == {n \in T : j \in {n.maker, n.taker}}
           V(j) == {n \in U : j \in {n.maker, n.taker}}
<1>1. \A n \in U : n.qty \in Int /\ n.taker \in Ids /\ n.maker \in Ids
  BY DEF TradeType
<1>2. ASSUME NEW j \in Ids PROVE after[j].filled = Sum(g, V(j))
  <2>1. IsFiniteSet(S(j)) /\ t \notin S(j) /\ S(j) \subseteq T
    BY FS_Subset
  <2>2. Sum(g, S(j)) = Sum(f, S(j))
    <3>1. \A n \in S(j) : g[n] = f[n]
      OBVIOUS
    <3> HIDE DEF f, g, S
    <3> QED
      BY <2>1, <3>1, SumAgree
  <2>3. ord[j].filled = Sum(f, S(j))
    BY DEF Fair
  <2>4. CASE j \in {i, m}
    <3>1. V(j) = S(j) \cup {t}
      BY <2>4
    <3>2. \A n \in S(j) \cup {t} : g[n] \in Int
      BY <1>1
    <3>3. g[t] = t.qty
      OBVIOUS
    <3> HIDE DEF f, g, S, V
    <3>4. Sum(g, S(j) \cup {t}) = Sum(g, S(j)) + g[t]
      BY <2>1, <3>2, SumAdd
    <3> QED
      BY <2>2, <2>3, <2>4, <3>1, <3>3, <3>4
  <2>5. CASE j \notin {i, m}
    <3>1. V(j) = S(j) /\ after[j] = ord[j]
      BY <2>5
    <3> HIDE DEF f, g, S, V
    <3> QED
      BY <2>2, <2>3, <3>1
  <2> QED
    BY <2>4, <2>5
<1>3. \A j \in Ids : j \in {i, m} => after[j].filled <= after[j].qty
  OBVIOUS
<1>4. ASSUME NEW n \in U
      PROVE  LET maker == after[n.maker]  taker == after[n.taker] IN
             /\ maker.trader # taker.trader /\ maker.side # taker.side
             /\ maker.filled <= maker.qty /\ taker.filled <= taker.qty
             /\ n.price = maker.price /\ Crosses(taker, n.price)
  <2>1. CASE n = t
    BY <2>1 DEF Terms, Crosses
  <2>2. CASE n \in T
    <3>1. /\ ord[n.maker].trader # ord[n.taker].trader /\ ord[n.maker].side # ord[n.taker].side
          /\ ord[n.maker].filled <= ord[n.maker].qty /\ ord[n.taker].filled <= ord[n.taker].qty
          /\ n.price = ord[n.maker].price /\ Crosses(ord[n.taker], n.price)
      BY <2>2 DEF Fair
    <3>2. Terms(ord[n.maker], after[n.maker]) /\ Terms(ord[n.taker], after[n.taker])
      BY <1>1
    <3>3. after[n.maker].filled <= after[n.maker].qty
      BY <1>1, <1>3, <3>1
    <3>4. after[n.taker].filled <= after[n.taker].qty
      BY <1>1, <1>3, <3>1
    <3> QED
      BY <3>1, <3>2, <3>3, <3>4 DEF Terms, Crosses
  <2> QED
    BY <2>1, <2>2
<1> QED
  BY <1>2, <1>4 DEF Fair

(* What the levels hold is a number.                                       *)
LEMMA AvailableInt ==
  ASSUME NEW b \in BookType, NEW o, o.side \in Sides
  PROVE  AvailableUnits(b, o) \in Int
<1> DEFINE s == Opposite(o.side)
           P == {p \in Prices : Crosses(o, p)}
<1>1. s \in Sides
  BY DEF Opposite, Sides
<1>2. IsFiniteSet(P) /\ P \subseteq Prices
  BY OrderBookAssumption, FS_Subset
<1>3. \A p \in P : b.total[s][p] \in Int
  BY <1>1, <1>2, BookFields
<1> HIDE DEF s, P
<1>4. Sum(b.total[s], P) \in Int
  BY <1>2, <1>3, SumInt
<1> QED
  BY <1>4 DEF AvailableUnits, s, P

(* A fill takes from what the levels hold for the taker.                     *)
Drops(b, c, o, n, p, q) ==
  /\ b \in BookType /\ c \in BookType /\ o.side \in Sides
  /\ n.side = o.side /\ n.price = o.price /\ p \in Prices /\ Crosses(o, p) /\ q \in Nat
  /\ OthersStay(b, c, Opposite(o.side), p)
  /\ c.total[Opposite(o.side)][p] = b.total[Opposite(o.side)][p] - q

(* AvailableUnits falls by what was filled.                                *)
LEMMA AvailableDrops ==
  ASSUME NEW b, NEW c, NEW o, NEW n, NEW p, NEW q, Drops(b, c, o, n, p, q)
  PROVE  AvailableUnits(c, n) = AvailableUnits(b, o) - q
<1> USE DEF Drops
<1> DEFINE s == Opposite(o.side)
           P == {z \in Prices : Crosses(o, z)}
<1>1. s \in Sides
  BY DEF Opposite, Sides
<1>2. IsFiniteSet(P) /\ P \subseteq Prices /\ p \in P
  BY OrderBookAssumption, FS_Subset
<1>3. \A z \in P : b.total[s][z] \in Int
  BY <1>1, <1>2, BookFields
<1>4. c.total[s][p] \in Int
  BY <1>1, BookFields
<1>5. \A z \in P : z # p => c.total[s][z] = b.total[s][z]
  BY <1>1, <1>2 DEF OthersStay
<1>6. {z \in Prices : Crosses(n, z)} = P
  BY DEF Crosses
<1>7. AvailableUnits(c, n) = Sum(c.total[s], P) /\ AvailableUnits(b, o) = Sum(b.total[s], P)
  BY <1>6 DEF AvailableUnits
<1>8. c.total[s][p] = b.total[s][p] - q
  OBVIOUS
<1> HIDE DEF s, P
<1>9. Sum(c.total[s], P) = Sum(b.total[s], P) - b.total[s][p] + c.total[s][p]
      /\ Sum(b.total[s], P) \in Int
  BY <1>2, <1>3, <1>4, <1>5, SumUpdate
<1>10. b.total[s][p] \in Int
  BY <1>2, <1>3
<1> QED
  BY <1>7, <1>8, <1>9, <1>10

(* A fill of q units, of taker i by maker m: the orders after it.            *)
Filled(ord, i, m, q) ==
  LET filled == [ord[m] EXCEPT !.filled = @ + q]
  IN  [ord EXCEPT ![m] = [filled EXCEPT !.status = Status(filled)], ![i].filled = @ + q]

(* Taker and maker are filled alike, within their quantities.              *)
AreFilled(ord, after, i, m, q) ==
  /\ after \in Orders
  /\ \A j \in Ids : Terms(ord[j], after[j]) /\ (j \notin {i, m} => after[j] = ord[j])
  /\ after[i].filled = ord[i].filled + q /\ after[m].filled = ord[m].filled + q
  /\ after[i].status = ord[i].status /\ after[m].status = Status(after[m])
  /\ after[i].filled <= after[i].qty /\ after[m].filled <= after[m].qty
  /\ Leaves(after[i]) = Leaves(ord[i]) - q /\ Leaves(after[m]) = Leaves(ord[m]) - q
  /\ Taken(after[i])

(* Fill does so.                                                           *)
LEMMA OrdersFilled ==
  ASSUME NEW ord \in Orders, NEW i \in Ids, NEW m \in Ids, i # m, Taken(ord[i]), Taken(ord[m]),
         NEW q \in Nat, q <= Leaves(ord[i]), q <= Leaves(ord[m])
  PROVE  AreFilled(ord, Filled(ord, i, m, q), i, m, q)
<1> DEFINE filled == [ord[m] EXCEPT !.filled = @ + q]
           maker == [filled EXCEPT !.status = Status(filled)]
           taker == [ord[i] EXCEPT !.filled = @ + q]
           after == Filled(ord, i, m, q)
<1>1. \A j \in Ids : ord[j].qty \in Nat /\ ord[j].filled \in Nat
  BY OrderFields
<1>2. ord[i] \in OrderType /\ ord[m] \in OrderType
  BY TakenIsOrder
<1>3. Become(ord[m], filled, ord[m].filled + q, ord[m].status)
  <2>1. PICK f \in Nat : f = ord[m].filled + q
    BY <1>1
  <2>2. Become(ord[m], [ord[m] EXCEPT !.filled = f], f, ord[m].status)
    BY <1>2, OrderBecomes DEF Statuses
  <2> QED
    BY <2>1, <2>2
<1>4. Become(filled, maker, filled.filled, Status(filled))
  <2>1. filled \in OrderType /\ filled.filled \in Nat
    BY <1>1, <1>3 DEF Become
  <2>2. Status(filled) \in Statuses
    BY DEF Status, Statuses
  <2> HIDE DEF filled
  <2> QED
    BY <2>1, <2>2, OrderBecomes
<1>5. Become(ord[i], taker, ord[i].filled + q, ord[i].status)
  <2>1. PICK f \in Nat : f = ord[i].filled + q
    BY <1>1
  <2>2. Become(ord[i], [ord[i] EXCEPT !.filled = f], f, ord[i].status)
    BY <1>2, OrderBecomes DEF Statuses
  <2> QED
    BY <2>1, <2>2
<1>6. after = [j \in Ids |-> IF j = i THEN taker ELSE IF j = m THEN maker ELSE ord[j]]
  BY DEF Filled, Orders
<1> HIDE DEF after, taker, maker, filled
<1>7. after[i] = taker /\ after[m] = maker /\ \A j \in Ids : j \notin {i, m} => after[j] = ord[j]
  BY <1>6
<1>8. after \in Orders
  <2>1. taker \in OrderType /\ maker \in OrderType
    BY <1>4, <1>5 DEF Become
  <2>2. \A j \in Ids : ord[j] \in OrderType \cup {NoOrder}
    BY DEF Orders
  <2> QED
    BY <1>6, <2>1, <2>2 DEF Orders
<1>9. /\ taker.trader = ord[i].trader /\ taker.side = ord[i].side /\ taker.tif = ord[i].tif
      /\ taker.price = ord[i].price /\ taker.qty = ord[i].qty /\ taker.filled = ord[i].filled + q
      /\ taker.status = ord[i].status
  BY <1>5 DEF Become
<1>10. /\ maker.trader = ord[m].trader /\ maker.side = ord[m].side /\ maker.tif = ord[m].tif
       /\ maker.price = ord[m].price /\ maker.qty = ord[m].qty /\ maker.filled = ord[m].filled + q
       /\ maker.status = Status(maker)
  <2>1. Status(filled) = Status(maker)
    BY <1>4 DEF Become, Status, Leaves
  <2> QED
    BY <1>3, <1>4, <2>1 DEF Become
<1>11. \A j \in Ids : Terms(ord[j], after[j])
  <2> TAKE j \in Ids
  <2>1. CASE j = i
    BY <1>1, <1>7, <1>9, <2>1 DEF Terms
  <2>2. CASE j = m
    BY <1>1, <1>7, <1>10, <2>2 DEF Terms
  <2>3. CASE j \notin {i, m}
    BY <1>1, <1>7, <2>3 DEF Terms
  <2> QED
    BY <2>1, <2>2, <2>3
<1>12. /\ Leaves(taker) = Leaves(ord[i]) - q /\ Leaves(maker) = Leaves(ord[m]) - q
       /\ taker.filled <= taker.qty /\ maker.filled <= maker.qty
  BY <1>1, <1>9, <1>10 DEF Leaves
<1>13. Taken(taker)
  BY <1>9 DEF Taken
<1> QED
  BY <1>7, <1>8, <1>9, <1>10, <1>11, <1>12, <1>13 DEF AreFilled, after

(* The maker's level after a fill.                                         *)
BookFilled(b, s, p, q, left) ==
  LET a == [b EXCEPT !.total[s][p] = @ - q]
  IN  IF left = 0 THEN Unlink(a, s, p, 1) ELSE a

(* A round that fills an order of another trader.                          *)
LEMMA FillRound ==
  ASSUME NEW i \in Ids, NEW r, Sound(i, r), ~Stopped(i, r),
         NEW s \in Sides, NEW p \in Prices, NEW m \in Ids, Meets(i, r, s, p, m),
         r.order[m].trader # r.order[i].trader, NEW u, u = Fill(i, r, m)
  PROVE  /\ Sound(i, u) /\ Since(i, r, u)
         /\ Leaves(u.order[i]) = 0 \/ u.book.open = r.book.open - 1
<1> DEFINE b == r.book
           ord == r.order
           q == Min({Leaves(ord[i]), Leaves(ord[m])})
           after == Filled(ord, i, m, q)
           filled == [ord[m] EXCEPT !.filled = @ + q]
           a == [b EXCEPT !.total[s][p] = @ - q]
           c == IF Leaves(filled) = 0 THEN Unlink(a, s, p, 1) ELSE a
           t == [taker |-> i, maker |-> m, price |-> p, qty |-> q]
<1>1. /\ b \in BookType /\ ord \in Orders /\ Consistent(b, ord) /\ r \in LoopState
      /\ r.prevented \subseteq Ids \X Ids /\ r.trades \subseteq TradeType /\ IsFiniteSet(r.trades)
  BY StateFields DEF Sound
<1>2. /\ m # i /\ Resting(b, m) /\ 1 \in 1..Len(b.level[s][p]) /\ b.level[s][p][1] = m
      /\ RestsAt(ord[m], s, p) /\ Taken(ord[m]) /\ m \in ToSet(b.level[s][p])
      /\ Leaves(ord[m]) \in Nat \ {0} /\ Leaves(ord[i]) \in Nat \ {0}
  BY MeetingFacts
<1>3. /\ q \in Nat \ {0} /\ q <= Leaves(ord[i]) /\ q <= Leaves(ord[m])
      /\ q = Leaves(ord[i]) \/ q = Leaves(ord[m])
  <2>1. q = IF Leaves(ord[i]) <= Leaves(ord[m]) THEN Leaves(ord[i]) ELSE Leaves(ord[m])
    BY <1>2, MinOfTwo
  <2> HIDE DEF q
  <2> QED
    BY <1>2, <2>1
<1>4. AreFilled(ord, after, i, m, q)
  <2>1. Taken(ord[i])
    BY DEF Sound
  <2>2. q \in Nat
    BY <1>3
  <2> HIDE DEF q, after
  <2> QED
    BY <1>1, <1>2, <1>3, <2>1, <2>2, OrdersFilled DEF after
<1>5. Leaves(filled) = Leaves(after[m])
  <2>1. ord[m] \in OrderType
    BY <1>1, <1>2, TakenIsOrder
  <2>2. ord[m].filled \in Nat /\ ord[m].qty \in Nat
    BY <1>1, OrderFields
  <2> HIDE DEF q
  <2>3. filled.filled = ord[m].filled + q /\ filled.qty = ord[m].qty
    BY <2>1 DEF OrderType
  <2> HIDE DEF filled, after
  <2> QED
    BY <1>4, <2>3 DEF AreFilled, Terms, Leaves
<1>6. \A j \in Ids : Resting(b, j) /\ j # m => after[j] = ord[j]
  <2> HIDE DEF after, q
  <2> QED
    BY <1>4 DEF AreFilled, Sound
<1> HIDE DEF after, filled
<1>7. /\ c \in BookType /\ Consistent(c, after) /\ c.max = b.max
      /\ c.level[s][p] \in {b.level[s][p], RemoveAt(b.level[s][p], 1)}
      /\ OthersStay(b, c, s, p) /\ c.total[s][p] = b.total[s][p] - q
      /\ Leaves(after[i]) = 0 \/ c.open = b.open - 1
  <2>0. after \in Orders /\ q \in Nat
    BY <1>3, <1>4 DEF AreFilled
  <2>1. CASE Leaves(after[m]) = 0
    <3>1. q = Leaves(ord[m])
      BY <1>2, <1>3, <1>4, <2>1 DEF AreFilled
    <3>2. c = Unlink([b EXCEPT !.total[s][p] = @ - Leaves(ord[m])], s, p, 1)
      BY <1>5, <2>1, <3>1
    <3> HIDE DEF c, q
    <3>3. IsTakenOff(b, ord, c, after, s, p, 1)
      <4>1. IsTakenOff(b, ord, Unlink([b EXCEPT !.total[s][p] = @ - Leaves(ord[m])], s, p, 1),
                       after, s, p, 1)
        BY <1>1, <1>2, <1>6, <2>0, TakenOff
      <4> QED
        BY <3>2, <4>1
    <3> QED
      BY <1>2, <3>1, <3>3 DEF IsTakenOff
  <2>2. CASE Leaves(after[m]) # 0
    <3>1. c = a
      BY <1>5, <2>2
    <3>2. Leaves(after[m]) = Leaves(ord[m]) - q /\ Leaves(after[m]) > 0
      BY <1>2, <1>3, <1>4, <2>2 DEF AreFilled
    <3>3. RestsAt(after[m], s, p)
      BY <1>2, <1>4, <3>2 DEF AreFilled, RestsAt, Status, Terms
    <3>4. Leaves(after[i]) = 0
      BY <1>2, <1>3, <1>4, <3>2 DEF AreFilled
    <3> HIDE DEF c, q
    <3>5. IsPartlyFilled(b, a, after, s, p, q)
      BY <1>1, <1>2, <1>6, <2>0, <3>2, <3>3, PartlyFilled
    <3> QED
      BY <3>1, <3>4, <3>5 DEF IsPartlyFilled
  <2> QED
    BY <2>1, <2>2
<1>8. u = [book |-> c, order |-> after, trades |-> r.trades \cup {t}, prevented |-> r.prevented]
  <2>1. ord[m].side = s /\ ord[m].price = p
    BY <1>2 DEF RestsAt
  <2>2. r = [book |-> b, order |-> ord, trades |-> r.trades, prevented |-> r.prevented]
    BY <1>1 DEF LoopState
  <2>3. u = [r EXCEPT !.book = BookFilled(b, ord[m].side, ord[m].price, q, Leaves(filled)),
                      !.order = after,
                      !.trades = @ \cup {[taker |-> i, maker |-> m, price |-> ord[m].price, qty |-> q]}]
    BY DEF Fill, after, Filled, filled, BookFilled
  <2>4. BookFilled(b, ord[m].side, ord[m].price, q, Leaves(filled)) = c
    <3> HIDE DEF q
    <3>1. c = BookFilled(b, s, p, q, Leaves(filled))
      BY DEF BookFilled
    <3> HIDE DEF c
    <3> QED
      BY <2>1, <3>1
  <2>5. [taker |-> i, maker |-> m, price |-> ord[m].price, qty |-> q] = t
    BY <2>1
  <2> HIDE DEF c, t, after, q
  <2>6. u = [r EXCEPT !.book = c, !.order = after, !.trades = @ \cup {t}]
    BY <2>3, <2>4, <2>5
  <2> QED
    BY <2>2, <2>6
<1> HIDE DEF c, a
<1>9. t \in TradeType /\ t \notin r.trades
  <2>1. t \in TradeType
    BY <1>3 DEF TradeType
  <2>2. \A n \in r.trades : n.taker = i => Leaves(ord[n.maker]) = 0 \/ Leaves(ord[i]) = 0
    BY DEF Sound
  <2>3. t.taker = i /\ t.maker = m
    OBVIOUS
  <2> HIDE DEF t
  <2> QED
    BY <1>2, <2>1, <2>2, <2>3
<1>10. /\ u.book = c /\ u.order = after /\ u.trades = r.trades \cup {t}
       /\ u.prevented = r.prevented /\ u \in LoopState
  <2>1. IsFiniteSet(r.trades \cup {t})
    BY <1>1, FS_AddElement
  <2>2. after \in Orders /\ c \in BookType
    BY <1>4, <1>7 DEF AreFilled
  <2> HIDE DEF t
  <2> QED
    BY <1>1, <1>8, <1>9, <2>1, <2>2 DEF LoopState
<1>11. Fair(after, r.trades \cup {t})
  <2>1. after \in Orders /\ Fair(ord, r.trades)
    BY <1>4 DEF AreFilled, Sound
  <2>2. t.taker = i /\ t.maker = m /\ t.price = p /\ t.qty = q
    OBVIOUS
  <2>3. ord[m].side = s /\ ord[m].price = p /\ s # ord[i].side /\ Crosses(ord[i], p)
    BY <1>2 DEF RestsAt, Meets, Opposite, Sides
  <2> HIDE DEF t, q
  <2>4. IsTrade(ord, after, i, m, t)
    BY <1>2, <1>4, <1>9, <2>2, <2>3 DEF IsTrade, AreFilled
  <2> QED
    BY <1>1, <1>9, <2>1, <2>4, FairAdds
<1>12. Surplus(i, u) = Surplus(i, r)
  <2>1. ord[i].side \in Sides /\ s = Opposite(ord[i].side) /\ Crosses(ord[i], p)
    BY DEF Meets
  <2>2. after[i].side = ord[i].side /\ after[i].price = ord[i].price
        /\ Leaves(after[i]) = Leaves(ord[i]) - q
    BY <1>4 DEF AreFilled, Terms
  <2>3. q \in Nat
    BY <1>3
  <2> HIDE DEF q, t
  <2>4. AvailableUnits(c, after[i]) = AvailableUnits(b, ord[i]) - q
    <3>1. OthersStay(b, c, Opposite(ord[i].side), p)
      BY <1>7, <2>1
    <3>2. c.total[Opposite(ord[i].side)][p] = b.total[Opposite(ord[i].side)][p] - q
      BY <1>7, <2>1
    <3>3. c \in BookType
      BY <1>7
    <3> HIDE DEF c
    <3>4. Drops(b, c, ord[i], after[i], p, q)
      BY <1>1, <2>1, <2>2, <2>3, <3>1, <3>2, <3>3 DEF Drops
    <3> QED
      BY <3>4, AvailableDrops
  <2>5. AvailableUnits(b, ord[i]) \in Int
    BY <1>1, <2>1, AvailableInt
  <2> QED
    BY <1>2, <1>10, <2>2, <2>3, <2>4, <2>5 DEF Surplus
<1>13. Changes(i, r, u, s, p, m)
  <2> HIDE DEF t, q
  <2> QED
    BY <1>4, <1>7, <1>10, <1>12 DEF Changes, AreFilled, OthersStay
<1>14. Since(i, r, u) /\ ~Resting(u.book, i)
  BY <1>10, <1>13, ChangesSince
<1>15. \A n \in r.trades \cup {t} : n.taker = i => Leaves(after[n.maker]) = 0 \/ Leaves(after[i]) = 0
  <2> SUFFICES ASSUME NEW n \in r.trades \cup {t}, n.taker = i
               PROVE  Leaves(after[n.maker]) = 0 \/ Leaves(after[i]) = 0
    OBVIOUS
  <2>1. CASE n = t
    <3>1. n.maker = m
      BY <2>1
    <3> HIDE DEF q, t
    <3> QED
      BY <1>2, <1>3, <1>4, <3>1 DEF AreFilled
  <2>2. CASE n \in r.trades
    <3>1. Leaves(ord[n.maker]) = 0 /\ n.maker \in Ids
      BY <1>1, <1>2, <2>2 DEF Sound, TradeType
    <3>2. n.maker \notin {i, m}
      BY <1>2, <3>1
    <3> HIDE DEF q, t
    <3> QED
      BY <1>4, <3>1, <3>2 DEF AreFilled
  <2> QED
    BY <2>1, <2>2
<1>16. /\ \A j \in Ids : after[j].filled <= after[j].qty
       /\ Taken(after[i]) /\ after[i].status = "open"
  <2> HIDE DEF q, t
  <2>1. \A j \in Ids : j \notin {i, m} => after[j].filled <= after[j].qty
    BY <1>4 DEF AreFilled, Sound
  <2> QED
    BY <1>4, <2>1 DEF AreFilled, Sound
<1>17. Sound(i, u)
  <2> HIDE DEF q, t
  <2> QED
    BY <1>7, <1>10, <1>11, <1>14, <1>15, <1>16 DEF Sound
<1> QED
  BY <1>7, <1>10, <1>14, <1>17

(* One round: nothing, or an order leaves the book, or the taker is filled.  *)
LEMMA RoundSound ==
  ASSUME NEW i \in Ids, NEW r, Sound(i, r), NEW u, u = Round(i, r)
  PROVE  /\ Sound(i, u) /\ Since(i, r, u)
         /\ Stopped(i, u) \/ u.book.open = r.book.open - 1
<1>1. CASE Stopped(i, r)
  <2>1. u = r
    BY <1>1 DEF Round, Stopped
  <2>2. r \in LoopState
    BY DEF Sound
  <2>3. Since(i, r, r)
    BY <2>2, SinceSelf
  <2> QED
    BY <1>1, <2>1, <2>3
<1>2. CASE ~Stopped(i, r)
  <2>1. PICK s \in Sides, p \in Prices, m \in Ids : Meets(i, r, s, p, m) /\ Round(i, r) = Meet(i, r, m)
    BY <1>2, RoundMeets
  <2>2. CASE r.order[m].trader = r.order[i].trader
    <3>1. u = CancelResting(i, r, m)
      BY <2>1, <2>2 DEF Meet
    <3> QED
      BY <1>2, <2>1, <3>1, CancelRound
  <2>3. CASE r.order[m].trader # r.order[i].trader
    <3>1. u = Fill(i, r, m)
      BY <2>1, <2>3 DEF Meet
    <3>2. Sound(i, u) /\ Since(i, r, u) /\ (Leaves(u.order[i]) = 0 \/ u.book.open = r.book.open - 1)
      BY <1>2, <2>1, <2>3, <3>1, FillRound
    <3> QED
      BY <3>2 DEF Stopped
  <2> QED
    BY <2>2, <2>3
<1> QED
  BY <1>1, <1>2

(* An empty book ends the loops.                                           *)
LEMMA EmptyStops ==
  ASSUME NEW i \in Ids, NEW r, Sound(i, r), r.book.open = 0
  PROVE  Stopped(i, r)
<1>1. r.book \in BookType /\ Consistent(r.book, r.order)
  BY StateFields DEF Sound
<1>2. Opposite(r.order[i].side) \in Sides
  BY DEF Opposite, Sides
<1>3. \A p \in Prices : r.book.level[Opposite(r.order[i].side)][p] = <<>>
  <2> TAKE p \in Prices
  <2> DEFINE l == r.book.level[Opposite(r.order[i].side)][p]
  <2>1. Len(l) <= 0 /\ l \in Seq(Ids)
    BY <1>1, <1>2, LevelIsCounted, BookFields
  <2> QED
    BY <2>1
<1>4. Crossed(i, r) = {}
  BY <1>3 DEF Crossed
<1> QED
  BY <1>4 DEF Stopped

(* Match is the last of its rounds: the recursive function exists.           *)
IsRun(g, i, r, N) == g = [n \in 0..N |-> IF n = 0 THEN r ELSE Round(i, g[n - 1])]

(* Match chooses a function that satisfies its recursive equation.         *)
LEMMA MatchDef ==
  ASSUME NEW i, NEW r
  PROVE  Match(i, r) = (CHOOSE g : IsRun(g, i, r, r.book.open))[r.book.open]
  BY DEF Match, IsRun

(* There is one, by induction on the number of rounds.                     *)
LEMMA RunExists ==
  ASSUME NEW i, NEW r, NEW N \in Nat
  PROVE  \E g : IsRun(g, i, r, N)
<1> DEFINE T == {n \in Nat : \E g : IsRun(g, i, r, n)}
<1>1. 0 \in T
  <2> DEFINE g == [n \in 0..0 |-> r]
  <2>1. g = [n \in 0..0 |-> IF n = 0 THEN r ELSE Round(i, g[n - 1])]
    OBVIOUS
  <2> HIDE DEF g
  <2>2. IsRun(g, i, r, 0)
    BY <2>1 DEF IsRun
  <2> QED
    BY <2>2
<1>2. ASSUME NEW n \in Nat, n \in T PROVE n + 1 \in T
  <2>1. PICK h : IsRun(h, i, r, n)
    BY <1>2
  <2> DEFINE g == [k \in 0..(n + 1) |-> IF k = 0 THEN r ELSE Round(i, h[k - 1])]
  <2>2. ASSUME NEW k \in 0..(n + 1), k # 0 PROVE g[k - 1] = h[k - 1]
    <3>1. k - 1 \in 0..n /\ k - 1 \in 0..(n + 1)
      BY <2>2
    <3>2. h[k - 1] = IF k - 1 = 0 THEN r ELSE Round(i, h[k - 1 - 1])
      BY <2>1, <3>1 DEF IsRun
    <3> QED
      BY <3>1, <3>2
  <2>3. g = [k \in 0..(n + 1) |-> IF k = 0 THEN r ELSE Round(i, g[k - 1])]
    BY <2>2
  <2> HIDE DEF g
  <2>4. IsRun(g, i, r, n + 1)
    BY <2>3 DEF IsRun
  <2> QED
    BY <2>4
<1>3. N \in T
  <2> HIDE DEF T
  <2> QED
    BY <1>1, <1>2, NatSetInduction
<1> QED
  BY <1>3

(* After match nothing is left that the taker may trade with, or it is       *)
(* filled.                                                                   *)
LEMMA MatchSound ==
  ASSUME NEW i \in Ids, NEW x, Sound(i, x), NEW r, r = Match(i, x)
  PROVE  Sound(i, r) /\ Since(i, x, r) /\ Stopped(i, r)
<1> DEFINE N == x.book.open
<1>1. x \in LoopState /\ N \in Nat /\ Consistent(x.book, x.order) /\ ~Resting(x.book, i)
  BY StateFields, BookFields DEF Sound
<1>2. PICK g : IsRun(g, i, x, N) /\ r = g[N]
  <2> DEFINE g == CHOOSE g : IsRun(g, i, x, N)
  <2>1. IsRun(g, i, x, N)
    BY <1>1, RunExists
  <2>2. r = g[N]
    BY MatchDef
  <2> QED
    BY <2>1, <2>2
<1> DEFINE Done(n) == /\ Sound(i, g[n]) /\ Since(i, x, g[n])
                      /\ Stopped(i, g[n]) \/ g[n].book.open = N - n
           T == {n \in Nat : n <= N => Done(n)}
<1>3. 0 \in T
  <2>1. g[0] = x
    BY <1>1, <1>2 DEF IsRun
  <2>2. Since(i, x, x)
    BY <1>1, SinceSelf
  <2>3. x.book.open = N - 0
    BY <1>1
  <2> QED
    BY <2>1, <2>2, <2>3
<1>4. ASSUME NEW n \in Nat, n \in T PROVE n + 1 \in T
  <2> SUFFICES ASSUME n + 1 <= N PROVE Done(n + 1)
    OBVIOUS
  <2>1. n <= N /\ n + 1 \in 0..N /\ n + 1 # 0 /\ (n + 1) - 1 = n
    BY <1>1
  <2>2. Sound(i, g[n]) /\ Since(i, x, g[n]) /\ (Stopped(i, g[n]) \/ g[n].book.open = N - n)
    BY <1>4, <2>1
  <2>3. g[n + 1] = Round(i, g[n])
    BY <1>2, <2>1 DEF IsRun
  <2> HIDE DEF N
  <2>4. /\ Sound(i, g[n + 1]) /\ Since(i, g[n], g[n + 1])
        /\ Stopped(i, g[n + 1]) \/ g[n + 1].book.open = g[n].book.open - 1
    BY <2>2, <2>3, RoundSound
  <2>5. Since(i, x, g[n + 1])
    <3>1. g[n] \in LoopState /\ g[n + 1] \in LoopState /\ Consistent(g[n].book, g[n].order)
      BY <2>2, <2>4 DEF Sound
    <3> QED
      BY <1>1, <2>2, <2>4, <3>1, SinceTrans
  <2>6. Stopped(i, g[n]) => Stopped(i, g[n + 1])
    BY <2>3 DEF Round, Stopped
  <2>7. Stopped(i, g[n + 1]) \/ g[n + 1].book.open = N - (n + 1)
    BY <1>1, <2>2, <2>4, <2>6
  <2> QED
    BY <2>4, <2>5, <2>7
<1>5. N \in T
  <2> HIDE DEF T, N
  <2> QED
    BY <1>1, <1>3, <1>4, NatSetInduction
<1>6. Sound(i, r) /\ Since(i, x, r) /\ (Stopped(i, r) \/ r.book.open = N - N)
  BY <1>1, <1>2, <1>5
<1>7. N - N = 0
  BY <1>1
<1> QED
  BY <1>6, <1>7, EmptyStops

----
(***************************************************************************)
(* The inductive invariant.                                                *)
(***************************************************************************)
(* The part of the invariant that is about books and orders.               *)
BooksConsistent == \A g \in 1..made : Consistent(books[g], order)
Core == /\ BooksConsistent /\ NotCrossed /\ TradesFair /\ FillOrKill
        /\ RestingSound /\ ArrivalSound

(* The invariant in three parts.                                           *)
LEMMA IInvParts == IInv <=> TypeOK /\ Core /\ ClientsSound
  BY DEF IInv, Core, BooksConsistent, BookConsistent

(* Ids and books are numbered from 1.                                      *)
LEMMA Bounds ==
  /\ MaxOrders \in Nat /\ MaxListings \in Nat /\ Ranges \subseteq Nat
  /\ Ids \subseteq Nat /\ BookIds \subseteq Nat /\ 1 \in BookIds
  /\ 0 \notin Ids /\ 0 \notin BookIds
  BY OrderBookAssumption DEF Ids, BookIds

(* What TypeOK says of single variables.                                   *)
LEMMA TypeParts ==
  ASSUME TypeOK
  PROVE  /\ order \in Orders /\ made \in Nat /\ 1..made \subseteq BookIds /\ listed \in Nat
         /\ \A g \in 1..made : books[g] \in BookType
         /\ given \in Nat /\ listings \in Nat
<1>1. made \in BookIds /\ given \in 0..MaxOrders /\ listings \in 0..MaxListings /\ listed \in 0..made
  BY DEF TypeOK
<1>2. made \in Nat /\ 1..made \subseteq BookIds /\ given \in Nat /\ listings \in Nat
  BY <1>1, OrderBookAssumption DEF BookIds
<1>3. listed \in Nat
  BY <1>1, <1>2
<1> QED
  BY <1>2, <1>3 DEF TypeOK, Orders

(* A new book is consistent with any orders.                               *)
LEMMA EmptyBookSound ==
  ASSUME NEW max \in Nat, NEW ord
  PROVE  /\ EmptyBook(max) \in BookType /\ Consistent(EmptyBook(max), ord)
         /\ \A s \in Sides, p \in Prices : EmptyBook(max).level[s][p] = <<>>
         /\ \A i : ~Resting(EmptyBook(max), i)
<1> DEFINE b == EmptyBook(max)
<1>1. /\ b.open = 0 /\ \A s \in Sides, p \in Prices : b.level[s][p] = <<>> /\ b.total[s][p] = 0
  BY DEF EmptyBook
<1>2. b \in BookType
  <2>1. <<>> \in Seq(Ids)
    OBVIOUS
  <2> QED
    BY <2>1 DEF EmptyBook, BookType
<1> HIDE DEF b
<1>3. \A s \in Sides, p \in Prices : ToSet(b.level[s][p]) = {} /\ IsInjective(b.level[s][p])
  BY <1>1 DEF ToSet, IsInjective
<1>4. \A i : ~Resting(b, i)
  BY <1>3 DEF Resting
<1>5. Sum(Lengths(b), Sides \X Prices) = 0
  <2>1. \A l \in Sides \X Prices : Lengths(b)[l] = 0
    BY <1>1 DEF Lengths
  <2>2. (\A l \in Sides \X Prices : Lengths(b)[l] \in Int)
        /\ \A l \in Sides \X Prices : Lengths(b)[l] # 0 => l \in {}
    BY <2>1
  <2>3. Sum(Lengths(b), Sides \X Prices) = Sum(Lengths(b), {})
    BY <2>2, Finite, SumZeroOutside
  <2> QED
    BY <2>3, SumEmpty
<1>6. Consistent(b, ord)
  <2>1. ASSUME NEW s \in Sides, NEW p \in Prices
        PROVE  /\ b.total[s][p] = Sum(LeavesOf(ord), ToSet(b.level[s][p]))
               /\ IsInjective(b.level[s][p])
               /\ \A i \in ToSet(b.level[s][p]) : RestsAt(ord[i], s, p)
    BY <1>1, <1>3, SumEmpty
  <2> QED
    BY <1>1, <1>5, <2>1 DEF Consistent
<1> QED
  BY <1>1, <1>2, <1>4, <1>6 DEF b

(* The invariant holds at the start.                                       *)
LEMMA InitIInv == Init => IInv
<1> SUFFICES ASSUME Init PROVE TypeOK /\ Core /\ ClientsSound
  BY IInvParts
<1> USE DEF Init
<1>1. \A g \in BookIds : books[g] = EmptyBook(0)
  OBVIOUS
<1>2. \A g \in BookIds :
         /\ books[g] \in BookType /\ Consistent(books[g], order)
         /\ \A s \in Sides, p \in Prices : books[g].level[s][p] = <<>>
         /\ \A i : ~Resting(books[g], i)
  BY <1>1, EmptyBookSound
<1>3. 1..made = {1} /\ 1 \in BookIds
  BY Bounds
<1>4. \A i \in Ids : order[i] = NoOrder /\ NoOrder.filled = 0 /\ NoOrder.qty = 0
  BY DEF NoOrder
<1>5. Submitted = {}
  BY <1>4 DEF Submitted
<1>6. TypeOK
  <2>1. given \in 0..MaxOrders /\ listings \in 0..MaxListings
    BY Bounds
  <2>2. order \in [Ids -> OrderType \cup {NoOrder}]
    OBVIOUS
  <2>3. books \in [BookIds -> BookType]
    BY <1>2
  <2>4. client \in [Clients -> [pc : {"idle", "submit", "index", "cancel"}, id : {0} \cup Ids,
                               book : {0} \cup BookIds]]
    BY DEF Idle
  <2>5. made \in BookIds /\ listed \in 0..made
    BY Bounds
  <2>6. /\ \A i \in Ids : order[i].filled <= order[i].qty
        /\ orderPair \subseteq Submitted
    BY <1>4
  <2>7. arrived \in Seq(Ids) /\ trades \subseteq TradeType /\ IsFiniteSet(trades)
        /\ prevented \subseteq Ids \X Ids
    BY FS_EmptySet
  <2> QED
    BY <2>1, <2>2, <2>3, <2>4, <2>5, <2>6, <2>7 DEF TypeOK
<1>7. BooksConsistent /\ NotCrossed /\ RestingSound
  BY <1>2, <1>3, Bounds DEF BooksConsistent, NotCrossed, RestingSound, Sides
<1>8. TradesFair
  <2>1. \A i \in Ids : Sum([n \in trades |-> n.qty], {n \in trades : i \in {n.maker, n.taker}}) = 0
    BY SumEmpty
  <2> QED
    BY <1>4, <2>1 DEF TradesFair, Fair
<1>9. FillOrKill
  BY <1>5 DEF FillOrKill
<1>10. ArrivalSound
  <2>1. IsInjective(arrived) /\ ToSet(arrived) = {}
    BY DEF IsInjective, ToSet
  <2>2. \A g \in 1..made, s \in Sides, p \in Prices : DOMAIN books[g].level[s][p] = {}
    BY <1>2, <1>3
  <2> QED
    BY <2>1, <2>2 DEF ArrivalSound
<1>11. ClientsSound
  BY <1>5, Bounds DEF ClientsSound, Idle
<1> QED
  BY <1>6, <1>7, <1>8, <1>9, <1>10, <1>11 DEF Core

(* Steps that leave the books and their orders alone.                        *)
LEMMA CoreStays ==
  ASSUME Core, UNCHANGED <<order, books, made, arrived, trades, prevented>>
  PROVE  Core'
<1>1. BooksConsistent'
  BY DEF Core, BooksConsistent
<1>2. NotCrossed' /\ TradesFair' /\ FillOrKill'
  BY DEF Core, NotCrossed, TradesFair, FillOrKill, Submitted
<1>3. RestingSound'
  BY DEF Core, RestingSound
<1>4. ArrivalSound'
  BY DEF Core, ArrivalSound, Earlier, Submitted
<1> QED
  BY <1>1, <1>2, <1>3, <1>4 DEF Core

(* Where a request may be.                                                 *)
ClientType == [pc : {"idle", "submit", "index", "cancel"}, id : {0} \cup Ids,
               book : {0} \cup BookIds]

(* Engine.Submit.                                                          *)
LEMMA StepSubmit ==
  ASSUME IInv, NEW c \in Clients, Submit(c)
  PROVE  IInv'
<1> USE DEF Submit, history
<1>1. TypeOK /\ Core /\ ClientsSound
  BY IInvParts
<1>2. /\ order \in Orders /\ made \in Nat /\ given \in Nat /\ listings \in Nat
      /\ listed \in 1..made /\ 1..made \subseteq BookIds
  <2>1. listed \in 0..made
    BY <1>1 DEF TypeOK
  <2> QED
    BY <1>1, <2>1, TypeParts
<1>3. given + 1 \in 0..MaxOrders /\ given + 1 \in Ids
  BY <1>2, Bounds DEF Ids
<1>4. TypeOK'
  <2>1. [pc |-> "submit", id |-> given + 1, book |-> listed] \in ClientType
    BY <1>2, <1>3 DEF ClientType
  <2>2. client' \in [Clients -> ClientType]
    BY <1>1, <2>1 DEF TypeOK, ClientType
  <2> QED
    BY <1>1, <1>3, <2>2 DEF TypeOK, ClientType, Submitted
<1>5. Core'
  BY <1>1, CoreStays
<1>6. ClientsSound'
  <2>1. \A i \in Submitted : i <= given /\ i \in Nat
    BY <1>1, Bounds DEF ClientsSound, Submitted
  <2>2. order[given + 1] = NoOrder
    BY <1>2, <1>3, <2>1 DEF Submitted
  <2>3. (\A i \in Submitted : i <= given + 1) /\ Submitted' = Submitted
    BY <1>2, <2>1 DEF Submitted
  <2>4. /\ client'[c] = [pc |-> "submit", id |-> given + 1, book |-> listed]
        /\ \A d \in Clients : d # c => client'[d] = client[d]
    BY <1>1 DEF TypeOK
  <2>5. \A d \in Clients : client[d].pc = "submit" => client[d].id \in 1..given
    BY <1>1 DEF ClientsSound
  <2>6. \A d \in Clients : client[d].pc = "submit" => client[d].id # given + 1 /\ client[d].id \in 1..(given + 1)
    BY <1>2, <2>5
  <2>7. given + 1 \in 1..(given + 1)
    BY <1>2
  <2>8. ASSUME NEW d \in Clients
        PROVE  /\ client'[d].pc \in {"submit", "cancel"} => client'[d].book \in 1..made
               /\ client'[d].pc \in {"index", "cancel"} => client'[d].id \in Submitted
               /\ client'[d].pc = "submit" =>
                    /\ client'[d].id \in 1..(given + 1) /\ order[client'[d].id] = NoOrder
                    /\ \A e \in Clients : client'[e].pc = "submit" /\ client'[e].id = client'[d].id => e = d
    <3>1. CASE d = c
      BY <1>2, <2>2, <2>4, <2>6, <2>7, <3>1
    <3>2. CASE d # c
      BY <1>1, <2>4, <2>6, <3>2 DEF ClientsSound
    <3> QED
      BY <3>1, <3>2
  <2> QED
    BY <1>1, <2>3, <2>8 DEF ClientsSound
<1> QED
  BY <1>4, <1>5, <1>6 DEF IInv, Core, BooksConsistent, BookConsistent

(* A request goes on to v, which is not one that waits for its book.         *)
ClientMoves(c, v) ==
  /\ client' = [client EXCEPT ![c] = v] /\ v \in ClientType
  /\ v.pc # "submit"
  /\ v.pc = "cancel" => v.book \in 1..made
  /\ v.pc \in {"index", "cancel"} => v.id \in Submitted'
  /\ UNCHANGED <<made, listings, given>>
  /\ Submitted \subseteq Submitted'
  /\ \A i \in Submitted' : i <= given
  /\ \A d \in Clients : d # c /\ client[d].pc = "submit" => order'[client[d].id] = NoOrder

(* ClientsSound is kept by such a move.                                    *)
LEMMA ClientsMove ==
  ASSUME TypeOK, ClientsSound, NEW c \in Clients, NEW v, ClientMoves(c, v)
  PROVE  ClientsSound'
<1> USE DEF ClientMoves
<1>1. client'[c] = v /\ \A d \in Clients : d # c => client'[d] = client[d]
  BY DEF TypeOK
<1>2. ASSUME NEW d \in Clients
      PROVE  /\ client'[d].pc \in {"submit", "cancel"} => client'[d].book \in 1..made
             /\ client'[d].pc \in {"index", "cancel"} => client'[d].id \in Submitted'
             /\ client'[d].pc = "submit" =>
                  /\ client'[d].id \in 1..given /\ order'[client'[d].id] = NoOrder
                  /\ \A e \in Clients : client'[e].pc = "submit" /\ client'[e].id = client'[d].id => e = d
  <2>1. CASE d = c
    BY <1>1, <2>1
  <2>2. CASE d # c
    <3>1. client'[d] = client[d]
      BY <1>1, <2>2
    <3>2. /\ client[d].pc \in {"submit", "cancel"} => client[d].book \in 1..made
          /\ client[d].pc \in {"index", "cancel"} => client[d].id \in Submitted
          /\ client[d].pc = "submit" =>
                /\ client[d].id \in 1..given
                /\ \A e \in Clients : client[e].pc = "submit" /\ client[e].id = client[d].id => e = d
      BY DEF ClientsSound
    <3>3. \A e \in Clients : client'[e].pc = "submit" => client'[e] = client[e]
      BY <1>1
    <3> QED
      BY <2>2, <3>1, <3>2, <3>3
  <2> QED
    BY <2>1, <2>2
<1>3. made' <= listings' + 1
  BY DEF ClientsSound
<1> QED
  BY <1>2, <1>3 DEF ClientsSound

(* And so is the type of client.                                           *)
LEMMA ClientTypeStays ==
  ASSUME TypeOK, NEW c \in Clients, NEW v, ClientMoves(c, v)
  PROVE  client' \in [Clients -> ClientType]
  BY DEF ClientMoves, TypeOK, ClientType

(* A request that is answered.                                             *)
LEMMA IdleMoves ==
  ASSUME NEW c \in Clients, client' = [client EXCEPT ![c] = Idle], UNCHANGED <<made, listings, given>>,
         Submitted \subseteq Submitted', \A i \in Submitted' : i <= given,
         \A d \in Clients : d # c /\ client[d].pc = "submit" => order'[client[d].id] = NoOrder
  PROVE  ClientMoves(c, Idle)
<1>1. Idle \in ClientType /\ Idle.pc = "idle"
  BY DEF Idle, ClientType
<1> QED
  BY <1>1 DEF ClientMoves

(* Engine.Submit, back from the book.                                      *)
LEMMA StepIndex ==
  ASSUME IInv, NEW c \in Clients, Index(c)
  PROVE  IInv'
<1> USE DEF Index, history
<1>1. TypeOK /\ Core /\ ClientsSound
  BY IInvParts
<1>2. Core'
  BY <1>1, CoreStays
<1>3. Submitted' = Submitted
  BY DEF Submitted
<1>4. ClientMoves(c, Idle)
  <2>1. \A i \in Submitted' : i <= given
    BY <1>1, <1>3 DEF ClientsSound
  <2>2. \A d \in Clients : d # c /\ client[d].pc = "submit" => order'[client[d].id] = NoOrder
    BY <1>1 DEF ClientsSound
  <2> QED
    BY <1>3, <2>1, <2>2, IdleMoves
<1>5. ClientsSound' /\ client' \in [Clients -> ClientType]
  BY <1>1, <1>4, ClientsMove, ClientTypeStays
<1>6. client[c].id \in Submitted
  BY <1>1 DEF ClientsSound
<1>7. TypeOK'
  BY <1>1, <1>3, <1>5, <1>6 DEF TypeOK, ClientType
<1> QED
  BY <1>2, <1>5, <1>7 DEF IInv, Core, BooksConsistent, BookConsistent

(* Engine.Cancel.                                                          *)
LEMMA StepCancel ==
  ASSUME IInv, NEW c \in Clients, NEW i \in orderPair, Cancel(c, i)
  PROVE  IInv'
<1> USE DEF Cancel, history
<1>1. TypeOK /\ Core /\ ClientsSound
  BY IInvParts
<1>2. Core'
  BY <1>1, CoreStays
<1>3. Submitted' = Submitted
  BY DEF Submitted
<1> DEFINE v == [pc |-> "cancel", id |-> i, book |-> listed]
<1>4. ClientMoves(c, v)
  <2>1. listed \in 1..made /\ 1..made \subseteq BookIds
    <3>1. listed \in 0..made
      BY <1>1 DEF TypeOK
    <3> QED
      BY <1>1, <3>1, TypeParts
  <2>2. i \in Submitted /\ i \in Ids
    BY <1>1 DEF TypeOK, Submitted
  <2>3. \A j \in Submitted' : j <= given
    BY <1>1, <1>3 DEF ClientsSound
  <2>4. \A d \in Clients : d # c /\ client[d].pc = "submit" => order'[client[d].id] = NoOrder
    BY <1>1 DEF ClientsSound
  <2>5. v \in ClientType /\ v.pc = "cancel" /\ v.book \in 1..made /\ v.id \in Submitted
    BY <2>1, <2>2 DEF ClientType
  <2> QED
    BY <1>3, <2>3, <2>4, <2>5 DEF ClientMoves
<1>5. ClientsSound' /\ client' \in [Clients -> ClientType]
  BY <1>1, <1>4, ClientsMove, ClientTypeStays
<1>6. TypeOK'
  BY <1>1, <1>3, <1>5 DEF TypeOK, ClientType
<1> QED
  BY <1>2, <1>5, <1>6 DEF IInv, Core, BooksConsistent, BookConsistent

(* UnregisterPair.                                                         *)
LEMMA StepUnregister ==
  ASSUME IInv, UnregisterPair
  PROVE  IInv'
<1> USE DEF UnregisterPair, history
<1>1. TypeOK /\ Core /\ ClientsSound
  BY IInvParts
<1>2. Core'
  BY <1>1, CoreStays
<1>3. made \in Nat /\ listings \in Nat /\ listings + 1 \in 0..MaxListings
  BY <1>1, TypeParts, Bounds
<1>4. Submitted' = Submitted
  BY DEF Submitted
<1>5. TypeOK'
  BY <1>1, <1>3, <1>4 DEF TypeOK
<1>6. ClientsSound'
  BY <1>1, <1>3, <1>4 DEF ClientsSound
<1> QED
  BY <1>2, <1>5, <1>6 DEF IInv, Core, BooksConsistent, BookConsistent

(* A new listed range changes nothing a book is judged by.                   *)
LEMMA MaxSet ==
  ASSUME NEW b \in BookType, NEW max \in Nat, NEW ord, Consistent(b, ord)
  PROVE  LET c == [b EXCEPT !.max = max] IN
         /\ c \in BookType /\ c.level = b.level /\ Consistent(c, ord)
         /\ \A i : Resting(c, i) <=> Resting(b, i)
<1> DEFINE c == [b EXCEPT !.max = max]
<1>1. c \in BookType /\ c.level = b.level /\ c.total = b.total /\ c.open = b.open
  BY DEF BookType
<1> HIDE DEF c
<1>2. Consistent(c, ord)
  BY <1>1 DEF Consistent, Lengths
<1> QED
  BY <1>1, <1>2 DEF Resting, c

(* RegisterPair.                                                           *)
LEMMA StepRegister ==
  ASSUME IInv, NEW max \in Ranges, RegisterPair(max)
  PROVE  IInv'
<1> USE DEF RegisterPair, history
<1>1. TypeOK /\ Core /\ ClientsSound
  BY IInvParts
<1>2. /\ made \in Nat /\ listings \in Nat /\ max \in Nat /\ 1..made \subseteq BookIds
      /\ listed \in 0..made /\ listings + 1 \in 0..MaxListings /\ listed \in Nat /\ MaxListings \in Nat
      /\ made <= listings + 1
  <2>1. listed \in 0..made
    BY <1>1 DEF TypeOK
  <2>2. max \in Nat
    BY Bounds
  <2> QED
    BY <1>1, <2>1, <2>2, TypeParts, Bounds DEF ClientsSound
<1>3. \A g \in 1..made : books[g] \in BookType /\ Consistent(books[g], order)
  BY <1>1, TypeParts DEF Core, BooksConsistent
<1>4. Submitted' = Submitted
  BY DEF Submitted
<1>5. made' \in BookIds /\ listed' \in 0..made' /\ made <= made' /\ made' \in Nat /\ made' <= listings' + 1
  BY <1>2 DEF BookIds
<1>6. ASSUME NEW g \in 1..made'
      PROVE  /\ books'[g] \in BookType /\ Consistent(books'[g], order)
             /\ \/ g \in 1..made /\ books'[g].level = books[g].level
                                 /\ \A i : Resting(books'[g], i) <=> Resting(books[g], i)
                \/ /\ \A s \in Sides, p \in Prices : books'[g].level[s][p] = <<>>
                   /\ \A i : ~Resting(books'[g], i)
  <2>0. books \in [BookIds -> BookType] /\ g \in BookIds /\ g \in Nat
    <3>1. g \in BookIds /\ g \in Nat
      BY <1>2, <1>5 DEF BookIds
    <3> QED
      BY <1>1, <3>1 DEF TypeOK
  <2>1. CASE listed # 0
    <3>1. g \in 1..made
      BY <2>1
    <3>2. books'[g] = IF g = listed THEN [books[g] EXCEPT !.max = max] ELSE books[g]
      BY <2>0, <2>1
    <3> QED
      BY <1>2, <1>3, <3>1, <3>2, MaxSet
  <2>2. CASE listed = 0
    <3>1. CASE g = made + 1
      <4>1. books'[g] = EmptyBook(max)
        BY <2>0, <2>2, <3>1
      <4> QED
        BY <1>2, <4>1, EmptyBookSound
    <3>2. CASE g # made + 1
      <4>1. g \in 1..made /\ books'[g] = books[g]
        BY <1>2, <2>0, <2>2, <3>2
      <4> QED
        BY <1>3, <4>1
    <3> QED
      BY <3>1, <3>2
  <2> QED
    BY <2>1, <2>2
<1>7. TypeOK'
  <2>1. books' \in [BookIds -> BookType]
    <3>1. EmptyBook(max) \in BookType
      BY <1>2, EmptyBookSound
    <3>2. CASE listed # 0
      <4>1. listed \in 1..made
        BY <1>2, <3>2
      <4>2. [books[listed] EXCEPT !.max = max] \in BookType
        BY <1>2, <1>3, <4>1, MaxSet
      <4> QED
        BY <1>1, <3>2, <4>2 DEF TypeOK
    <3>3. CASE listed = 0
      BY <1>1, <3>1, <3>3 DEF TypeOK
    <3> QED
      BY <3>2, <3>3
  <2> QED
    BY <1>1, <1>2, <1>4, <1>5, <2>1 DEF TypeOK
<1>8. BooksConsistent'
  BY <1>6 DEF BooksConsistent
<1>9. NotCrossed'
  BY <1>1, <1>6 DEF Core, NotCrossed, Sides
<1>10. TradesFair' /\ FillOrKill'
  BY <1>1, <1>4 DEF Core, TradesFair, FillOrKill
<1>11. RestingSound'
  BY <1>1, <1>6 DEF Core, RestingSound
<1>12. ArrivalSound'
  <2>1. ASSUME NEW g \in 1..made', NEW s \in Sides, NEW p \in Prices,
               NEW n \in DOMAIN books'[g].level[s][p]
        PROVE  LET l == books'[g].level[s][p] IN
               l[n] \in ToSet(arrived) /\ \A m \in 1..(n - 1) : Earlier(l[m], l[n])
    <3>1. DOMAIN <<>> = {}
      OBVIOUS
    <3>2. g \in 1..made /\ books'[g].level = books[g].level
      BY <1>6, <3>1
    <3> QED
      BY <1>1, <3>2 DEF Core, ArrivalSound
  <2>2. \A a, b : Earlier(a, b)' = Earlier(a, b)
    BY DEF Earlier
  <2>3. IsInjective(arrived) /\ ToSet(arrived) \subseteq Submitted
    BY <1>1 DEF Core, ArrivalSound
  <2> QED
    BY <1>4, <2>1, <2>3 DEF ArrivalSound, Earlier
<1>13. ClientsSound'
  <2>1. \A x : x \in 1..made => x \in 1..made'
    BY <1>2, <1>5
  <2> QED
    BY <1>1, <1>4, <1>5, <2>1 DEF ClientsSound
<1> QED
  BY <1>7, <1>8, <1>9, <1>10, <1>11, <1>12, <1>13 DEF IInv, Core, BooksConsistent, BookConsistent

(* A book is as consistent as its resting orders are unchanged.            *)
LEMMA ConsistentSame ==
  ASSUME NEW b \in BookType, NEW ord \in Orders, NEW after \in Orders, Consistent(b, ord),
         \A j \in Ids : Resting(b, j) => after[j] = ord[j]
  PROVE  Consistent(b, after)
<1>1. ASSUME NEW s \in Sides, NEW p \in Prices
      PROVE  /\ b.total[s][p] = Sum(LeavesOf(after), ToSet(b.level[s][p]))
             /\ IsInjective(b.level[s][p])
             /\ \A i \in ToSet(b.level[s][p]) : RestsAt(after[i], s, p)
  <2>1. /\ b.total[s][p] = Sum(LeavesOf(ord), ToSet(b.level[s][p]))
        /\ IsInjective(b.level[s][p])
        /\ \A i \in ToSet(b.level[s][p]) : RestsAt(ord[i], s, p)
    BY DEF Consistent
  <2>2. \A i \in ToSet(b.level[s][p]) : i \in Ids /\ after[i] = ord[i]
    BY BookFields DEF Resting
  <2>3. \A i \in ToSet(b.level[s][p]) : LeavesOf(after)[i] = LeavesOf(ord)[i]
    BY <2>2, OrderFields
  <2>4. IsFiniteSet(ToSet(b.level[s][p]))
    BY BookFields
  <2>5. Sum(LeavesOf(after), ToSet(b.level[s][p])) = Sum(LeavesOf(ord), ToSet(b.level[s][p]))
    BY <2>3, <2>4, SumAgree
  <2> QED
    BY <2>1, <2>2, <2>5
<1> QED
  BY <1>1 DEF Consistent

(* An order no book took has no trades, so that a new one starts fair.       *)
LEMMA FairFresh ==
  ASSUME NEW ord \in Orders, NEW T \in SUBSET TradeType, IsFiniteSet(T), Fair(ord, T),
         NEW i \in Ids, ord[i] = NoOrder, NEW after, \A j \in Ids : j # i => after[j] = ord[j],
         after[i].filled = 0
  PROVE  Fair(after, T) /\ \A n \in T : n.taker # i /\ n.maker # i
<1> DEFINE f == [n \in T |-> n.qty]
           S == {n \in T : i \in {n.maker, n.taker}}
<1>1. Sum(f, S) = 0
  <2>1. ord[i].filled = Sum(f, S)
    BY DEF Fair
  <2>2. ord[i].filled = 0
    BY DEF NoOrder
  <2> QED
    BY <2>1, <2>2
<1>2. IsFiniteSet(S) /\ \A n \in S : f[n] \in Nat \ {0}
  BY FS_Subset DEF TradeType
<1>3. S = {}
  <2> SUFFICES ASSUME NEW n \in S PROVE FALSE
    OBVIOUS
  <2>1. \A k \in S : f[k] \in Int /\ f[k] \in Nat
    BY <1>2
  <2>2. f[n] \in Nat \ {0}
    BY <1>2
  <2>3. IsFiniteSet(S \ {n}) /\ \A k \in S \ {n} : f[k] \in Nat
    BY <1>2, <2>1, FS_Subset
  <2> HIDE DEF f, S
  <2>4. Sum(f, S) = f[n] + Sum(f, S \ {n})
    BY <1>2, <2>1, SumRemove
  <2>5. Sum(f, S \ {n}) \in Nat
    BY <2>3, SumNat
  <2> QED
    BY <1>1, <2>2, <2>4, <2>5
<1>4. \A n \in T : n.taker # i /\ n.maker # i /\ n.taker \in Ids /\ n.maker \in Ids
  BY <1>3 DEF TradeType
<1>5. \A n \in T : after[n.taker] = ord[n.taker] /\ after[n.maker] = ord[n.maker]
  BY <1>4
<1>6. \A j \in Ids : after[j].filled = ord[j].filled
  BY DEF NoOrder
<1>7. Fair(after, T)
  BY <1>5, <1>6 DEF Fair
<1> QED
  BY <1>4, <1>7

(* A validated order is one a book may take.                               *)
LEMMA ValidatedFields ==
  ASSUME NEW q \in Requests
  PROVE  /\ Validated(q) \in OrderType /\ Validated(q).filled = 0 /\ Validated(q).status = "open"
         /\ Validated(q).qty \in Nat \ {0}
         /\ Validated(q).side \in Sides /\ Validated(q).price \in Prices \cup {0}
         /\ Validated(q).tif = "GTC" => Validated(q).price \in Prices
<1>1. q \in RequestType /\ Quantities \subseteq Nat \ {0}
  BY OrderBookAssumption
<1>2. /\ q.trader \in Traders /\ q.side \in Sides /\ q.tif \in Forces /\ q.price \in Prices \cup {0}
      /\ q.qty \in Quantities
  BY <1>1 DEF RequestType
<1>3. (IF q.price = 0 /\ q.tif = "GTC" THEN "IOC" ELSE q.tif) \in Forces
  BY <1>2 DEF Forces
<1>4. Validated(q) \in OrderType
  BY <1>2, <1>3 DEF Validated, OrderType
<1>5. Validated(q).filled = 0 /\ Validated(q).status = "open" /\ Validated(q).qty = q.qty
      /\ Validated(q).side = q.side /\ Validated(q).price = q.price
      /\ Validated(q).tif = IF q.price = 0 /\ q.tif = "GTC" THEN "IOC" ELSE q.tif
  BY DEF Validated
<1>6. q.qty \in Nat \ {0}
  BY <1>1, <1>2
<1>7. Validated(q).tif = "GTC" => q.price # 0
  BY <1>5
<1> QED
  BY <1>2, <1>4, <1>5, <1>6, <1>7

(* A request about to be booked has an id no book and no other request has.  *)
Fresh(c, i) ==
  /\ i \in Ids /\ i \in 1..given /\ order[i] = NoOrder /\ i \notin Submitted
  /\ \A g \in 1..made : ~Resting(books[g], i)
  /\ i \notin ToSet(arrived)
  /\ client[c].book \in 1..made
  /\ \A d \in Clients : d # c /\ client[d].pc = "submit" => client[d].id # i /\ order[client[d].id] = NoOrder

(* ClientsSound gives the id its request alone.                            *)
LEMMA IdFresh ==
  ASSUME TypeOK, Core, ClientsSound, NEW c \in Clients, client[c].pc = "submit"
  PROVE  Fresh(c, client[c].id)
<1> DEFINE i == client[c].id
<1>1. /\ i \in 1..given /\ order[i] = NoOrder /\ client[c].book \in 1..made
      /\ \A d \in Clients : client[d].pc = "submit" /\ client[d].id = i => d = c
      /\ \A d \in Clients : client[d].pc = "submit" => order[client[d].id] = NoOrder
  BY DEF ClientsSound
<1>2. i \in Ids
  <2>1. given \in 0..MaxOrders
    BY DEF TypeOK
  <2> QED
    BY <1>1, <2>1, Bounds DEF Ids
<1>3. \A g \in 1..made : ~Resting(books[g], i)
  <2> SUFFICES ASSUME NEW g \in 1..made, Resting(books[g], i) PROVE FALSE
    OBVIOUS
  <2>1. books[g] \in BookType /\ order \in Orders /\ Consistent(books[g], order)
    BY TypeParts DEF Core, BooksConsistent
  <2>2. Taken(order[i])
    BY <2>1, RestingOrder
  <2> QED
    BY <1>1, <1>2, <2>1, <2>2, TakenIsOrder
<1>4. i \notin Submitted
  BY <1>1 DEF Submitted
<1>5. i \notin ToSet(arrived)
  BY <1>4 DEF Core, ArrivalSound
<1> QED
  BY <1>1, <1>2, <1>3, <1>4, <1>5 DEF Fresh

(* Book.Submit, rejected.                                                  *)
LEMMA StepSubmitRejected ==
  ASSUME IInv, NEW c \in Clients, NEW q \in Requests, SubmitRejected(c, q)
  PROVE  IInv'
<1> USE DEF SubmitRejected, history
<1> DEFINE i == client[c].id
           o == [Validated(q) EXCEPT !.status = "rejected"]
<1>1. TypeOK /\ Core /\ ClientsSound
  BY IInvParts
<1>2. Fresh(c, i)
  BY <1>1, IdFresh
<1>3. Become(Validated(q), o, 0, "rejected")
  <2>1. Validated(q) \in OrderType /\ Validated(q).filled = 0 /\ "rejected" \in Statuses /\ 0 \in Nat
    BY ValidatedFields DEF Statuses
  <2>2. Become(Validated(q), o, Validated(q).filled, "rejected")
    BY <2>1, OrderBecomes
  <2> QED
    BY <2>1, <2>2
<1>4. /\ order'[i] = o /\ \A j \in Ids : j # i => order'[j] = order[j]
      /\ order' \in Orders /\ order \in Orders
  <2>1. o \in OrderType /\ i \in Ids
    BY <1>2, <1>3 DEF Become, Fresh
  <2>2. order \in Orders
    BY <1>1, TypeParts
  <2>3. order' = [order EXCEPT ![i] = o]
    OBVIOUS
  <2> HIDE DEF o, i
  <2> QED
    BY <2>1, <2>2, <2>3 DEF Orders
<1>5. o # NoOrder /\ o.filled = 0 /\ o.qty \in Nat /\ o.status = "rejected"
  <2>1. NoOrder.status = "none"
    BY DEF NoOrder
  <2>2. Validated(q).qty \in Nat
    BY ValidatedFields
  <2> QED
    BY <1>3, <2>1, <2>2 DEF Become
<1>6. Submitted' = Submitted \cup {i}
  <2> HIDE DEF o, i
  <2> QED
    BY <1>2, <1>4, <1>5 DEF Submitted, Fresh
<1> HIDE DEF o
<1>7. ClientMoves(c, Idle)
  <2>1. \A j \in Submitted' : j <= given
    <3>1. i <= given
      BY <1>2 DEF Fresh
    <3> QED
      BY <1>1, <1>6, <3>1 DEF ClientsSound
  <2>2. ASSUME NEW d \in Clients, d # c, client[d].pc = "submit" PROVE order'[client[d].id] = NoOrder
    <3>1. client[d].id # i /\ order[client[d].id] = NoOrder
      BY <1>2, <2>2 DEF Fresh
    <3>2. Fresh(d, client[d].id)
      BY <1>1, <2>2, IdFresh
    <3> QED
      BY <1>4, <3>1, <3>2 DEF Fresh
  <2> QED
    BY <1>6, <2>1, <2>2, IdleMoves
<1>8. ClientsSound' /\ client' \in [Clients -> ClientType]
  BY <1>1, <1>7, ClientsMove, ClientTypeStays
<1>9. TypeOK'
  <2>1. \A j \in Ids : order'[j].filled <= order'[j].qty
    <3>1. \A j \in Ids : order[j].filled <= order[j].qty
      BY <1>1 DEF TypeOK
    <3>2. order'[i].filled <= order'[i].qty
      <4>1. o.filled <= o.qty
        BY <1>5
      <4> HIDE DEF i
      <4> QED
        BY <1>4, <4>1
    <3> HIDE DEF i
    <3> QED
      BY <1>4, <3>1, <3>2
  <2> QED
    BY <1>1, <1>4, <1>6, <1>8, <2>1 DEF TypeOK, ClientType, Orders
<1>10. BooksConsistent'
  <2>1. ASSUME NEW g \in 1..made PROVE Consistent(books[g], order')
    <3>1. books[g] \in BookType /\ Consistent(books[g], order)
      BY <1>1, TypeParts DEF Core, BooksConsistent
    <3>2. \A j \in Ids : Resting(books[g], j) => order'[j] = order[j]
      BY <1>2, <1>4 DEF Fresh
    <3> QED
      BY <1>4, <3>1, <3>2, ConsistentSame
  <2> QED
    BY <2>1 DEF BooksConsistent
<1>11. NotCrossed'
  BY <1>1 DEF Core, NotCrossed
<1>12. TradesFair'
  <2>1. Fair(order, trades) /\ trades \in SUBSET TradeType /\ IsFiniteSet(trades)
    BY <1>1 DEF Core, TradesFair, TypeOK
  <2>2. order'[i].filled = 0 /\ order[i] = NoOrder /\ i \in Ids
    BY <1>2, <1>4, <1>5 DEF Fresh
  <2>3. Fair(order', trades)
    BY <1>4, <2>1, <2>2, FairFresh
  <2> QED
    BY <2>3 DEF TradesFair
<1>13. FillOrKill'
  <2> SUFFICES ASSUME NEW j \in Submitted',
                      order'[j].tif = "FOK", order'[j].filled \in 1..(order'[j].qty - 1)
               PROVE  \E m \in Submitted' : <<j, m>> \in prevented
    BY DEF FillOrKill
  <2>1. j # i
    <3>1. order'[i].filled = 0 /\ order'[i].qty \in Nat
      BY <1>4, <1>5
    <3>2. 0 \notin 1..(order'[i].qty - 1)
      BY <3>1
    <3> HIDE DEF i
    <3> QED
      BY <3>1, <3>2
  <2>2. j \in Submitted /\ order'[j] = order[j]
    BY <1>4, <1>6, <2>1 DEF Submitted
  <2> QED
    BY <1>1, <1>6, <2>2 DEF Core, FillOrKill
<1>14. RestingSound'
  <2>1. \A g \in 1..made, j \in Ids : Resting(books[g], j) => order'[j] = order[j]
    BY <1>2, <1>4 DEF Fresh
  <2> QED
    BY <1>1, <2>1 DEF Core, RestingSound
<1>15. ArrivalSound'
  BY <1>1, <1>6 DEF Core, ArrivalSound, Earlier
<1> QED
  BY <1>8, <1>9, <1>10, <1>11, <1>12, <1>13, <1>14, <1>15 DEF IInv, Core, BooksConsistent, BookConsistent

(* Levels that lose orders keep the others in their places.                  *)
Thinned(l, k) == \E f \in [DOMAIN k -> DOMAIN l] :
  /\ \A n \in DOMAIN k : k[n] = l[f[n]]
  /\ \A n \in DOMAIN k : \A m \in 1..(n - 1) : f[m] < f[n]
BookThins(b, c) == \A s \in Sides, p \in Prices : Thinned(b.level[s][p], c.level[s][p])

(* The properties of one book.                                             *)
EarlierIn(arr, k, m) == \E i, j \in DOMAIN arr : i < j /\ arr[i] = k /\ arr[j] = m
LevelsArrived(b, arr) == \A s \in Sides, p \in Prices :
  LET l == b.level[s][p] IN
  \A n \in DOMAIN l : l[n] \in ToSet(arr) /\ \A m \in 1..(n - 1) : EarlierIn(arr, l[m], l[n])
Uncrossed(b) == \A p, q \in Prices :
  b.level["buy"][p] # <<>> /\ b.level["sell"][q] # <<>> => p < q

(* NotCrossed and ArrivalSound are about each book alone.                  *)
LEMMA PerBook ==
  /\ NotCrossed <=> \A g \in 1..made : Uncrossed(books[g])
  /\ ArrivalSound <=> /\ IsInjective(arrived) /\ ToSet(arrived) \subseteq Submitted
                      /\ \A g \in 1..made : LevelsArrived(books[g], arrived)
  BY DEF NotCrossed, Uncrossed, ArrivalSound, LevelsArrived, Earlier, EarlierIn

(* A thinned book rests no more orders, crosses no more and keeps their    *)
(* order.                                                                  *)
LEMMA Thinning ==
  ASSUME NEW b \in BookType, NEW c \in BookType, BookThins(b, c)
  PROVE  /\ \A j : Resting(c, j) => Resting(b, j)
         /\ Uncrossed(b) => Uncrossed(c)
         /\ \A arr : LevelsArrived(b, arr) => LevelsArrived(c, arr)
<1>1. ASSUME NEW s \in Sides, NEW p \in Prices
      PROVE  /\ ToSet(c.level[s][p]) \subseteq ToSet(b.level[s][p])
             /\ c.level[s][p] # <<>> => b.level[s][p] # <<>>
  <2> DEFINE l == b.level[s][p]
             k == c.level[s][p]
  <2>1. PICK f \in [DOMAIN k -> DOMAIN l] : \A n \in DOMAIN k : k[n] = l[f[n]]
    BY DEF BookThins, Thinned
  <2>2. ToSet(k) \subseteq ToSet(l)
    BY <2>1 DEF ToSet
  <2>3. k # <<>> => l # <<>>
    <3> SUFFICES ASSUME k # <<>>, l = <<>> PROVE FALSE
      OBVIOUS
    <3>1. k \in Seq(Ids)
      BY BookFields
    <3>2. 1 \in DOMAIN k
      BY <3>1
    <3>3. DOMAIN l = {}
      OBVIOUS
    <3> QED
      BY <2>1, <3>2, <3>3
  <2> QED
    BY <2>2, <2>3
<1>2. \A j : Resting(c, j) => Resting(b, j)
  BY <1>1 DEF Resting
<1>3. Uncrossed(b) => Uncrossed(c)
  BY <1>1 DEF Uncrossed, Sides
<1>4. ASSUME NEW arr, LevelsArrived(b, arr) PROVE LevelsArrived(c, arr)
  <2> SUFFICES ASSUME NEW s \in Sides, NEW p \in Prices, NEW n \in DOMAIN c.level[s][p]
               PROVE  LET k == c.level[s][p] IN
                      k[n] \in ToSet(arr) /\ \A m \in 1..(n - 1) : EarlierIn(arr, k[m], k[n])
    BY DEF LevelsArrived
  <2> DEFINE l == b.level[s][p]
             k == c.level[s][p]
  <2>1. PICK f \in [DOMAIN k -> DOMAIN l] :
           /\ \A j \in DOMAIN k : k[j] = l[f[j]]
           /\ \A j \in DOMAIN k : \A m \in 1..(j - 1) : f[m] < f[j]
    BY DEF BookThins, Thinned
  <2>2. \A j \in DOMAIN l : l[j] \in ToSet(arr) /\ \A m \in 1..(j - 1) : EarlierIn(arr, l[m], l[j])
    BY <1>4 DEF LevelsArrived
  <2>3. k[n] \in ToSet(arr)
    BY <2>1, <2>2
  <2>4. ASSUME NEW m \in 1..(n - 1) PROVE EarlierIn(arr, k[m], k[n])
    <3>1. DOMAIN k = 1..Len(k) /\ DOMAIN l = 1..Len(l) /\ Len(k) \in Nat /\ Len(l) \in Nat
      BY BookFields
    <3>2. m \in DOMAIN k
      BY <3>1
    <3>3. f[m] \in DOMAIN l /\ f[n] \in DOMAIN l /\ f[m] < f[n]
      BY <2>1, <3>2
    <3>4. f[m] \in 1..(f[n] - 1)
      BY <3>1, <3>3
    <3>5. EarlierIn(arr, l[f[m]], l[f[n]])
      BY <2>2, <3>3, <3>4
    <3> QED
      BY <2>1, <3>2, <3>5
  <2> QED
    BY <2>3, <2>4
<1> QED
  BY <1>2, <1>3, <1>4

(* Nothing, an order in the middle, or orders at the front may be missing. *)
LEMMA SameThinned == ASSUME NEW l \in Seq(Ids) PROVE Thinned(l, l)
<1> DEFINE f == [n \in DOMAIN l |-> n]
<1>1. f \in [DOMAIN l -> DOMAIN l] /\ \A n \in DOMAIN l : l[n] = l[f[n]]
  OBVIOUS
<1>2. \A n \in DOMAIN l : \A m \in 1..(n - 1) : f[m] < f[n]
  OBVIOUS
<1> HIDE DEF f
<1> QED
  BY <1>1, <1>2 DEF Thinned

LEMMA TakenOutThinned ==
  ASSUME NEW l \in Seq(Ids), NEW j \in 1..Len(l)
  PROVE  Thinned(l, RemoveAt(l, j))
<1>1. PICK k : k = RemoveAt(l, j)
  OBVIOUS
<1>2. PICK N \in Nat : N = Len(l)
  OBVIOUS
<1>3. /\ DOMAIN k = 1..(N - 1) /\ DOMAIN l = 1..N
      /\ \A n \in 1..(N - 1) : k[n] = IF n < j THEN l[n] ELSE l[n + 1]
  <2>1. /\ k \in Seq(Ids) /\ Len(k) = Len(l) - 1
        /\ \A n \in 1..(Len(l) - 1) : k[n] = IF n < j THEN l[n] ELSE l[n + 1]
    BY <1>1, TakenOut
  <2> QED
    BY <1>2, <2>1
<1> DEFINE f == [n \in 1..(N - 1) |-> IF n < j THEN n ELSE n + 1]
<1>4. f \in [1..(N - 1) -> 1..N] /\ \A n \in 1..(N - 1) : k[n] = l[f[n]]
  BY <1>3
<1>5. \A n \in 1..(N - 1) : \A m \in 1..(n - 1) : f[m] < f[n]
  OBVIOUS
<1> HIDE DEF f
<1>6. \E g \in [1..(N - 1) -> 1..N] :
         /\ \A n \in 1..(N - 1) : k[n] = l[g[n]]
         /\ \A n \in 1..(N - 1) : \A m \in 1..(n - 1) : g[m] < g[n]
  BY <1>4, <1>5
<1> QED
  BY <1>1, <1>3, <1>6 DEF Thinned

LEMMA SuffixThinned ==
  ASSUME NEW l \in Seq(Ids), NEW k \in Seq(Ids), Suffix(l, k)
  PROVE  Thinned(l, k)
<1>1. PICK d \in 0..Len(l) : Len(k) = Len(l) - d /\ \A n \in 1..Len(k) : k[n] = l[n + d]
  BY DEF Suffix
<1>2. PICK N \in Nat, M \in Nat : N = Len(l) /\ M = Len(k)
  OBVIOUS
<1>3. DOMAIN k = 1..M /\ DOMAIN l = 1..N /\ d \in Nat /\ M = N - d /\ \A n \in 1..M : k[n] = l[n + d]
  BY <1>1, <1>2
<1> DEFINE f == [n \in 1..M |-> n + d]
<1>4. f \in [1..M -> 1..N] /\ \A n \in 1..M : k[n] = l[f[n]]
  BY <1>3
<1>5. \A n \in 1..M : \A m \in 1..(n - 1) : f[m] < f[n]
  BY <1>3
<1> HIDE DEF f
<1>6. \E g \in [1..M -> 1..N] :
         /\ \A n \in 1..M : k[n] = l[g[n]]
         /\ \A n \in 1..M : \A m \in 1..(n - 1) : g[m] < g[n]
  BY <1>4, <1>5
<1> QED
  BY <1>3, <1>6 DEF Thinned

(* The rounds of a match thin the book.                                    *)
LEMMA ShrinksThins ==
  ASSUME NEW b \in BookType, NEW c \in BookType, BookShrinks(b, c)
  PROVE  BookThins(b, c)
<1>1. ASSUME NEW s \in Sides, NEW p \in Prices PROVE Thinned(b.level[s][p], c.level[s][p])
  <2>1. b.level[s][p] \in Seq(Ids) /\ c.level[s][p] \in Seq(Ids) /\ Suffix(b.level[s][p], c.level[s][p])
    BY BookFields DEF BookShrinks
  <2> QED
    BY <2>1, SuffixThinned
<1> QED
  BY <1>1 DEF BookThins

(* And so does the removal of one order.                                   *)
LEMMA TakenOffThins ==
  ASSUME NEW b \in BookType, NEW ord, NEW c, NEW after, NEW s \in Sides, NEW p \in Prices,
         NEW n \in 1..Len(b.level[s][p]), IsTakenOff(b, ord, c, after, s, p, n)
  PROVE  BookThins(b, c)
<1>1. ASSUME NEW t \in Sides, NEW q \in Prices PROVE Thinned(b.level[t][q], c.level[t][q])
  <2>1. b.level[t][q] \in Seq(Ids)
    BY BookFields
  <2>2. CASE t = s /\ q = p
    <3>1. c.level[t][q] = RemoveAt(b.level[t][q], n) /\ n \in 1..Len(b.level[t][q])
      BY <2>2 DEF IsTakenOff
    <3> QED
      BY <2>1, <3>1, TakenOutThinned
  <2>3. CASE t # s \/ q # p
    <3>1. c.level[t][q] = b.level[t][q]
      BY <2>3 DEF IsTakenOff, OthersStay
    <3> QED
      BY <2>1, <3>1, SameThinned
  <2> QED
    BY <2>2, <2>3
<1> QED
  BY <1>1 DEF BookThins

(* One book changes to c, and with it the orders.                            *)
Replaces(g, c) ==
  /\ g \in 1..made /\ c \in BookType /\ books' = [books EXCEPT ![g] = c] /\ made' = made
  /\ order' \in Orders /\ Consistent(c, order') /\ Uncrossed(c) /\ LevelsArrived(c, arrived')
  /\ \A h \in 1..made : \A j \in Ids : h # g /\ Resting(books[h], j) => order'[j] = order[j]
  /\ \A j \in Ids : Resting(c, j) =>
        order'[j].tif = "GTC" /\ \A h \in 1..made : h # g => ~Resting(books[h], j)
  /\ \A h \in 1..made : LevelsArrived(books[h], arrived) => LevelsArrived(books[h], arrived')
  /\ IsInjective(arrived') /\ ToSet(arrived') \subseteq Submitted'

(* The invariant of the books is kept when one is replaced so.             *)
LEMMA BookReplaced ==
  ASSUME TypeOK, Core, NEW g, NEW c, Replaces(g, c)
  PROVE  /\ BooksConsistent' /\ NotCrossed' /\ RestingSound' /\ ArrivalSound'
         /\ books' \in [BookIds -> BookType]
<1> USE DEF Replaces
<1>1. books \in [BookIds -> BookType] /\ 1..made \subseteq BookIds
  BY TypeParts DEF TypeOK
<1>2. books'[g] = c /\ \A h \in 1..made : h # g => books'[h] = books[h]
  BY <1>1
<1>3. \A h \in 1..made : books[h] \in BookType /\ Consistent(books[h], order)
  BY TypeParts DEF Core, BooksConsistent
<1>4. BooksConsistent'
  <2>1. ASSUME NEW h \in 1..made PROVE Consistent(books'[h], order')
    <3>1. CASE h = g
      BY <1>2, <3>1
    <3>2. CASE h # g
      <4>1. Consistent(books[h], order')
        <5>1. \A j \in Ids : Resting(books[h], j) => order'[j] = order[j]
          BY <3>2
        <5>2. order \in Orders /\ order' \in Orders
          BY TypeParts
        <5> QED
          BY <1>3, <5>1, <5>2, ConsistentSame
      <4> QED
        BY <1>2, <3>2, <4>1
    <3> QED
      BY <3>1, <3>2
  <2> QED
    BY <2>1 DEF BooksConsistent
<1>5. \A h \in 1..made : Uncrossed(books[h]) /\ LevelsArrived(books[h], arrived)
  BY PerBook DEF Core
<1>6. NotCrossed'
  <2>1. \A h \in 1..made : Uncrossed(books'[h])
    BY <1>2, <1>5
  <2> QED
    BY <2>1 DEF NotCrossed, Uncrossed
<1>7. RestingSound'
  <2> SUFFICES ASSUME NEW h \in 1..made, NEW j \in Ids, Resting(books'[h], j)
               PROVE  order'[j].tif = "GTC" /\ \A k \in 1..made : Resting(books'[k], j) => k = h
    BY DEF RestingSound
  <2>1. CASE Resting(c, j)
    <3>1. order'[j].tif = "GTC" /\ \A k \in 1..made : k # g => ~Resting(books'[k], j)
      BY <1>2, <2>1
    <3> QED
      BY <3>1
  <2>2. CASE ~Resting(c, j)
    <3>1. h # g /\ Resting(books[h], j)
      BY <1>2, <2>2
    <3>2. order'[j].tif = "GTC"
      BY <3>1 DEF Core, RestingSound
    <3>3. \A k \in 1..made : Resting(books'[k], j) => Resting(books[k], j)
      BY <1>2, <2>2
    <3> QED
      BY <3>1, <3>2, <3>3 DEF Core, RestingSound
  <2> QED
    BY <2>1, <2>2
<1>8. ArrivalSound'
  <2>1. \A h \in 1..made : LevelsArrived(books'[h], arrived')
    BY <1>2, <1>5
  <2> QED
    BY <2>1 DEF ArrivalSound, LevelsArrived, Earlier, EarlierIn
<1>9. books' \in [BookIds -> BookType]
  BY <1>1
<1> QED
  BY <1>4, <1>6, <1>7, <1>8, <1>9

(* Book.Cancel.                                                            *)
LEMMA StepBookCancel ==
  ASSUME IInv, NEW c \in Clients, NEW t \in Traders, BookCancel(c, t)
  PROVE  IInv'
<1> USE DEF history
<1> DEFINE i == client[c].id
           g == client[c].book
           o == order[i]
           b == books[g]
<1>1. TypeOK /\ Core /\ ClientsSound
  BY IInvParts
<1>2. /\ i \in Submitted /\ i \in Ids /\ g \in 1..made
      /\ client' = [client EXCEPT ![c] = Idle]
      /\ UNCHANGED <<given, listed, made, orderPair, listings, arrived, trades, prevented>>
  BY <1>1 DEF ClientsSound, BookCancel, Submitted
<1>3. CASE ~(Resting(b, i) /\ o.trader = t)
  <2>1. UNCHANGED <<books, order>>
    BY <1>3 DEF BookCancel
  <2>2. Core'
    BY <1>1, <1>2, <2>1, CoreStays
  <2>3. Submitted' = Submitted
    BY <2>1 DEF Submitted
  <2>4. ClientMoves(c, Idle)
    <3>1. \A j \in Submitted' : j <= given
      BY <1>1, <2>3 DEF ClientsSound
    <3>2. \A d \in Clients : d # c /\ client[d].pc = "submit" => order'[client[d].id] = NoOrder
      BY <1>1, <2>1 DEF ClientsSound
    <3> QED
      BY <1>2, <2>3, <3>1, <3>2, IdleMoves
  <2>5. ClientsSound' /\ client' \in [Clients -> ClientType]
    BY <1>1, <2>4, ClientsMove, ClientTypeStays
  <2>6. TypeOK'
    BY <1>1, <1>2, <2>1, <2>3, <2>5 DEF TypeOK, ClientType
  <2> QED
    BY <2>2, <2>5, <2>6 DEF IInv, Core, BooksConsistent, BookConsistent
<1>4. CASE Resting(b, i) /\ o.trader = t
  <2>1. b \in BookType /\ order \in Orders /\ Consistent(b, order)
    BY <1>1, <1>2, TypeParts DEF Core, BooksConsistent
  <2>2. Taken(o) /\ o.side \in Sides /\ o.price \in Prices /\ o.status \in {"open", "partially_filled"}
    BY <1>4, <2>1, RestingOrder
  <2>3. order' = [order EXCEPT ![i].status = "cancelled"]
    BY <1>4 DEF BookCancel
  <2>4. PICK n \in DOMAIN b.level[o.side][o.price] :
           b.level[o.side][o.price][n] = i /\ books' = [books EXCEPT ![g] = TakeOff(@, o, n)]
    BY <1>4 DEF BookCancel
  <2>5. n \in 1..Len(b.level[o.side][o.price])
    BY <2>1, <2>2, BookFields
  <2>6. Become(o, order'[i], o.filled, "cancelled") /\ \A j \in Ids : j # i => order'[j] = order[j]
    <3>1. o \in OrderType /\ "cancelled" \in Statuses
      BY <1>2, <2>1, <2>2, TakenIsOrder DEF Statuses
    <3>2. o.filled \in Nat
      BY <1>2, <2>1, OrderFields
    <3>3. order'[i] = [o EXCEPT !.status = "cancelled"] /\ \A j \in Ids : j # i => order'[j] = order[j]
      BY <1>2, <2>1, <2>3 DEF Orders
    <3> HIDE DEF o
    <3> QED
      BY <3>1, <3>2, <3>3, OrderBecomes
  <2>7. order' \in Orders
    <3>1. order'[i] \in OrderType /\ order' = [j \in Ids |-> IF j = i THEN order'[i] ELSE order[j]]
      BY <1>2, <2>1, <2>3, <2>6 DEF Become, Orders
    <3>2. \A j \in Ids : order[j] \in OrderType \cup {NoOrder}
      BY <2>1 DEF Orders
    <3> HIDE DEF i
    <3> QED
      BY <3>1, <3>2 DEF Orders
  <2> DEFINE a == TakeOff(b, o, n)
  <2>8. IsTakenOff(b, order, a, order', o.side, o.price, n)
    <3>1. a = Unlink([b EXCEPT !.total[o.side][o.price] = @ - Leaves(order[i])], o.side, o.price, n)
      BY DEF TakeOff
    <3>2. \A j \in Ids : Resting(b, j) /\ j # i => order'[j] = order[j]
      BY <2>6
    <3> HIDE DEF a, i, b, o
    <3>3. IsTakenOff(b, order,
                     Unlink([b EXCEPT !.total[o.side][o.price] = @ - Leaves(order[i])], o.side, o.price, n),
                     order', o.side, o.price, n)
      BY <2>1, <2>2, <2>4, <2>5, <2>7, <3>2, TakenOff
    <3> QED
      BY <3>1, <3>3
  <2>9. a \in BookType /\ Consistent(a, order')
    BY <2>8 DEF IsTakenOff
  <2>10. BookThins(b, a)
    <3> HIDE DEF a, b, o
    <3> QED
      BY <2>1, <2>2, <2>5, <2>8, TakenOffThins
  <2>11. Uncrossed(b) /\ LevelsArrived(b, arrived)
    BY <1>1, <1>2, PerBook DEF Core
  <2> HIDE DEF a
  <2>12. Uncrossed(a) /\ LevelsArrived(a, arrived) /\ \A j : Resting(a, j) => Resting(b, j)
    BY <2>1, <2>9, <2>10, <2>11, Thinning
  <2>13. Submitted' = Submitted
    <3>1. order'[i] # NoOrder
      BY <2>6 DEF Become, NoOrder
    <3> HIDE DEF i
    <3> QED
      BY <1>2, <2>6, <3>1 DEF Submitted
  <2>14. \A h \in 1..made : \A j \in Ids : h # g /\ Resting(books[h], j) => j # i
    BY <1>1, <1>2, <1>4 DEF Core, RestingSound
  <2>15. \A j \in Ids : Terms(order[j], order'[j]) /\ order'[j].filled = order[j].filled
    <3>1. \A j \in Ids : order[j].filled \in Nat
      BY <2>1, OrderFields
    <3> HIDE DEF i
    <3> QED
      BY <2>6, <3>1 DEF Become, Terms, o
  <2>16. Replaces(g, a)
    <3>1. books' = [books EXCEPT ![g] = a]
      BY <2>4 DEF a
    <3>2. \A j \in Ids : Resting(a, j) =>
            order'[j].tif = "GTC" /\ \A h \in 1..made : h # g => ~Resting(books[h], j)
      BY <1>1, <1>2, <2>12, <2>15 DEF Core, RestingSound, Terms
    <3>3. \A h \in 1..made : \A j \in Ids : h # g /\ Resting(books[h], j) => order'[j] = order[j]
      BY <2>6, <2>14
    <3>4. IsInjective(arrived) /\ ToSet(arrived) \subseteq Submitted
      BY <1>1 DEF Core, ArrivalSound
    <3> HIDE DEF g
    <3> QED
      BY <1>2, <2>7, <2>9, <2>12, <2>13, <3>1, <3>2, <3>3, <3>4 DEF Replaces
  <2>17. /\ BooksConsistent' /\ NotCrossed' /\ RestingSound' /\ ArrivalSound'
         /\ books' \in [BookIds -> BookType]
    BY <1>1, <2>16, BookReplaced
  <2>18. TradesFair'
    <3>1. Fair(order, trades) /\ trades \in SUBSET TradeType
      BY <1>1 DEF Core, TradesFair, TypeOK
    <3>2. Fair(order', trades)
      BY <2>15, <3>1, FairStays
    <3> QED
      BY <1>2, <3>2 DEF TradesFair
  <2>19. FillOrKill'
    <3>1. \A j \in Submitted : order'[j].tif = order[j].tif /\ order'[j].filled = order[j].filled
                             /\ order'[j].qty = order[j].qty
      BY <2>15 DEF Terms, Submitted
    <3> QED
      BY <1>1, <1>2, <2>13, <3>1 DEF Core, FillOrKill
  <2>20. ClientMoves(c, Idle)
    <3>1. \A j \in Submitted' : j <= given
      BY <1>1, <2>13 DEF ClientsSound
    <3>2. ASSUME NEW d \in Clients, d # c, client[d].pc = "submit" PROVE order'[client[d].id] = NoOrder
      <4>1. Fresh(d, client[d].id)
        BY <1>1, <3>2, IdFresh
      <4> HIDE DEF i
      <4> QED
        BY <1>2, <2>6, <4>1 DEF Fresh
    <3> QED
      BY <1>2, <2>13, <3>1, <3>2, IdleMoves
  <2>21. ClientsSound' /\ client' \in [Clients -> ClientType]
    BY <1>1, <2>20, ClientsMove, ClientTypeStays
  <2>22. TypeOK'
    <3>1. \A j \in Ids : order'[j].filled <= order'[j].qty
      BY <1>1, <2>15 DEF TypeOK, Terms
    <3> QED
      BY <1>1, <1>2, <2>7, <2>13, <2>17, <2>21, <3>1 DEF TypeOK, ClientType, Orders
  <2> QED
    BY <2>17, <2>18, <2>19, <2>21, <2>22 DEF IInv, Core, BooksConsistent, BookConsistent
<1> QED
  BY <1>3, <1>4

(* SubmitMatched: x is where match starts, r where it ends.                  *)
Start(c, q) ==
  [book |-> books[client[c].book], order |-> [order EXCEPT ![client[c].id] = Validated(q)],
   trades |-> trades, prevented |-> prevented]
Rests(o) == Leaves(o) > 0 /\ o.tif = "GTC"

(* The loop invariant holds where match starts.                            *)
LEMMA StartSound ==
  ASSUME TypeOK, Core, NEW c \in Clients, NEW q \in Requests, Fresh(c, client[c].id),
         NEW x, x = Start(c, q)
  PROVE  /\ Sound(client[c].id, x)
         /\ x.book = books[client[c].book] /\ x.order[client[c].id] = Validated(q)
         /\ \A j \in Ids : j # client[c].id => x.order[j] = order[j]
         /\ x.prevented = prevented
<1> DEFINE i == client[c].id
           g == client[c].book
           v == Validated(q)
           b == books[g]
           ord == [order EXCEPT ![i] = v]
<1>1. i \in Ids /\ order[i] = NoOrder /\ ~Resting(b, i) /\ g \in 1..made
  BY DEF Fresh
<1>2. b \in BookType /\ order \in Orders /\ Consistent(b, order)
  BY <1>1, TypeParts DEF Core, BooksConsistent
<1>3. v \in OrderType /\ v.filled = 0 /\ v.status = "open" /\ v.qty \in Nat \ {0} /\ v.side \in Sides
  BY ValidatedFields
<1> HIDE DEF v
<1>4. /\ ord[i] = v /\ \A j \in Ids : j # i => ord[j] = order[j]
      /\ ord \in Orders
  <2> HIDE DEF i
  <2> QED
    BY <1>1, <1>2, <1>3 DEF Orders
<1> HIDE DEF ord
<1>5. x.book = b /\ x.order = ord /\ x.trades = trades /\ x.prevented = prevented
  BY DEF Start, ord, v
<1>6. trades \subseteq TradeType /\ IsFiniteSet(trades) /\ prevented \subseteq Ids \X Ids
  BY DEF TypeOK
<1>7. x \in LoopState
  BY <1>2, <1>4, <1>6 DEF Start, ord, v, LoopState
<1>8. Consistent(b, ord)
  <2>1. \A j \in Ids : Resting(b, j) => ord[j] = order[j]
    BY <1>1, <1>4
  <2> QED
    BY <1>2, <1>4, <2>1, ConsistentSame
<1>9. Fair(ord, trades) /\ \A n \in trades : n.taker # i /\ n.maker # i
  <2>1. Fair(order, trades)
    BY DEF Core, TradesFair
  <2>2. ord[i].filled = 0
    BY <1>3, <1>4
  <2> HIDE DEF i
  <2> QED
    BY <1>1, <1>2, <1>4, <1>6, <2>1, <2>2, FairFresh
<1>10. \A j \in Ids : ord[j].filled <= ord[j].qty
  <2>1. \A j \in Ids : order[j].filled <= order[j].qty
    BY DEF TypeOK
  <2>2. ord[i].filled <= ord[i].qty
    BY <1>3, <1>4
  <2> HIDE DEF i
  <2> QED
    BY <1>4, <2>1, <2>2
<1>11. Taken(ord[i]) /\ ord[i].status = "open"
  BY <1>3, <1>4 DEF Taken
<1>12. Sound(i, x)
  BY <1>1, <1>5, <1>7, <1>8, <1>9, <1>10, <1>11 DEF Sound
<1> QED
  BY <1>4, <1>5, <1>12 DEF v

(* The step from x over r to the next state.                               *)
Matched(c, q, x, r) ==
  LET i == client[c].id  g == client[c].book IN
  /\ Sound(i, x) /\ Sound(i, r) /\ Since(i, x, r) /\ Stopped(i, r)
  /\ x.book = books[g] /\ x.order[i] = Validated(q) /\ x.prevented = prevented
  /\ \A j \in Ids : j # i => x.order[j] = order[j]
  /\ ~Rejected(books[g], Validated(q))
  /\ order' \in Orders
  /\ Become(r.order[i], order'[i], r.order[i].filled, order'[i].status)
  /\ Rests(r.order[i]) => order'[i].status \in {"open", "partially_filled"}
  /\ \A j \in Ids : j # i => order'[j] = r.order[j]
  /\ books' = [books EXCEPT ![g] = IF Rests(r.order[i]) THEN Rest(r.book, i, r.order[i]) ELSE r.book]
  /\ trades' = r.trades /\ prevented' = r.prevented /\ arrived' = Append(arrived, i)

(* SubmitMatched is such a step.                                           *)
LEMMA MatchedFacts ==
  ASSUME TypeOK, Core, ClientsSound, NEW c \in Clients, NEW q \in Requests, SubmitMatched(c, q)
  PROVE  \E r : Matched(c, q, Start(c, q), r)
<1> DEFINE i == client[c].id
           g == client[c].book
           x == Start(c, q)
           r == Match(i, x)
           o == r.order[i]
           st == IF Leaves(o) > 0 /\ ~Rests(o) THEN "cancelled" ELSE Status(o)
<1>1. Fresh(c, i) /\ i \in Ids
  BY IdFresh DEF SubmitMatched, Fresh
<1>2. /\ Sound(i, x) /\ x.book = books[g] /\ x.order[i] = Validated(q)
      /\ \A j \in Ids : j # i => x.order[j] = order[j]
      /\ x.prevented = prevented
  BY <1>1, StartSound
<1>3. /\ ~Rejected(books[g], Validated(q))
      /\ order' = [r.order EXCEPT ![i].status = st]
      /\ books' = [books EXCEPT ![g] = IF Rests(o) THEN Rest(r.book, i, o) ELSE r.book]
      /\ trades' = r.trades /\ prevented' = r.prevented /\ arrived' = Append(arrived, i)
  BY DEF SubmitMatched, Start, Rests
<1> HIDE DEF x, r
<1>4. Sound(i, r) /\ Since(i, x, r) /\ Stopped(i, r)
  BY <1>1, <1>2, MatchSound DEF r
<1>5. r.order \in Orders /\ o \in OrderType
  BY <1>1, <1>4, StateFields, TakenIsOrder DEF Sound
<1>6. st \in Statuses /\ (Rests(o) => st \in {"open", "partially_filled"})
  <2>1. Status(o) \in Statuses
    BY DEF Status, Statuses
  <2>2. Leaves(o) > 0 => Leaves(o) # 0
    <3>1. Leaves(o) \in Int
      BY <1>1, <1>5, OrderFields
    <3> QED
      BY <3>1
  <2>3. Rests(o) => Status(o) \in {"open", "partially_filled"}
    BY <2>2 DEF Rests, Status
  <2> QED
    BY <2>1, <2>3 DEF Rests, Statuses
<1> HIDE DEF st
<1>7. Become(o, order'[i], o.filled, order'[i].status) /\ order'[i].status = st
  <2>1. order'[i] = [o EXCEPT !.status = st]
    BY <1>1, <1>3, <1>5 DEF Orders
  <2>2. o.filled \in Nat
    BY <1>1, <1>5, OrderFields
  <2> HIDE DEF o
  <2>3. Become(o, [o EXCEPT !.status = st], o.filled, st)
    BY <1>5, <1>6, <2>2, OrderBecomes
  <2> QED
    BY <2>1, <2>3 DEF Become
<1>8. \A j \in Ids : j # i => order'[j] = r.order[j]
  BY <1>1, <1>3, <1>5 DEF Orders
<1>9. order' \in Orders
  <2>1. order' = [j \in Ids |-> IF j = i THEN order'[i] ELSE r.order[j]]
    BY <1>1, <1>3, <1>5, <1>7 DEF Orders
  <2>2. order'[i] \in OrderType
    BY <1>7 DEF Become
  <2>3. \A j \in Ids : r.order[j] \in OrderType \cup {NoOrder}
    BY <1>5 DEF Orders
  <2> HIDE DEF i
  <2> QED
    BY <2>1, <2>2, <2>3 DEF Orders
<1>10. Matched(c, q, x, r)
  BY <1>2, <1>3, <1>4, <1>6, <1>7, <1>8, <1>9 DEF Matched
<1> QED
  BY <1>10 DEF x

(* The orders after the step, against those before it.                       *)
LEMMA MatchedOrders ==
  ASSUME TypeOK, Core, NEW c \in Clients, NEW q \in Requests, Fresh(c, client[c].id),
         NEW x, NEW r, Matched(c, q, x, r)
  PROVE  LET i == client[c].id  b == books[client[c].book] IN
         /\ i \in Ids /\ order'[i] # NoOrder
         /\ \A j \in Ids : j # i => Terms(order[j], order'[j])
         /\ \A j \in Ids : j # i /\ ~Resting(b, j) => order'[j] = order[j]
         /\ \A j \in Ids : Terms(r.order[j], order'[j]) /\ order'[j].filled = r.order[j].filled
         /\ \A j \in Ids : Resting(r.book, j) => Resting(b, j) /\ j # i
         /\ Terms(Validated(q), r.order[i])
         /\ Submitted' = Submitted \cup {i}
         /\ BookThins(b, r.book)
<1> DEFINE i == client[c].id
           b == books[client[c].book]
<1> USE DEF Matched
<1>1. i \in Ids /\ r \in LoopState /\ x \in LoopState /\ order \in Orders
  BY TypeParts DEF Fresh, Sound
<1>2. \A j \in Ids : /\ Terms(x.order[j], r.order[j])
                     /\ j # i /\ ~Resting(b, j) => r.order[j] = x.order[j]
  BY DEF Since, OrdersKept
<1>3. \A j \in Ids : j # i => x.order[j] = order[j] /\ order'[j] = r.order[j]
  OBVIOUS
<1>4. Become(r.order[i], order'[i], r.order[i].filled, order'[i].status)
  OBVIOUS
<1>5. x.order[i] = Validated(q) /\ x.book = b /\ BookShrinks(x.book, r.book)
  BY DEF Since
<1>6. x.book \in BookType /\ r.book \in BookType /\ r.order \in Orders /\ ~Resting(r.book, i)
  BY <1>1, StateFields DEF Sound
<1>7. \A j \in Ids : r.order[j].filled \in Nat
  BY <1>6, OrderFields
<1>8. order'[i] # NoOrder
  BY <1>4 DEF Become, OrderType, NoOrder, Sides
<1> HIDE DEF i, b, Matched
<1>9. \A j \in Ids : Terms(r.order[j], order'[j]) /\ order'[j].filled = r.order[j].filled
  BY <1>3, <1>4, <1>7 DEF Become, Terms
<1>10. \A j \in Ids : Resting(r.book, j) => Resting(b, j) /\ j # i
  BY <1>5, <1>6, Shrunk
<1>11. BookThins(b, r.book)
  BY <1>5, <1>6, ShrinksThins
<1>12. \A j \in Ids : j # i => Terms(order[j], order'[j])
  BY <1>2, <1>3
<1>13. \A j \in Ids : j # i /\ ~Resting(b, j) => order'[j] = order[j]
  BY <1>2, <1>3
<1>14. Submitted' = Submitted \cup {i}
  <2>1. ASSUME NEW j \in Ids, j # i PROVE order[j] # NoOrder <=> order'[j] # NoOrder
    <3>1. Terms(order[j], order'[j]) /\ order' \in Orders /\ order \in Orders
      BY <1>1, <1>12, <2>1 DEF Matched
    <3>2. Taken(order[j]) <=> Taken(order'[j])
      BY <3>1 DEF Terms, Taken
    <3> QED
      BY <3>1, <3>2, TakenIsOrder
  <2> QED
    BY <1>1, <1>8, <2>1 DEF Submitted
<1>15. Terms(Validated(q), r.order[i])
  BY <1>1, <1>2, <1>5
<1> QED
  BY <1>1, <1>8, <1>9, <1>10, <1>11, <1>12, <1>13, <1>14, <1>15 DEF i, b

(* The book after the step.                                                  *)
BookAfter(c, r) ==
  LET i == client[c].id IN IF Rests(r.order[i]) THEN Rest(r.book, i, r.order[i]) ELSE r.book

(* A later arrival changes nothing of who came earlier.                    *)
LEMMA ArrivedAppended ==
  ASSUME NEW a \in Seq(Ids), IsInjective(a), NEW i \in Ids, i \notin ToSet(a), NEW b \in BookType,
         LevelsArrived(b, a)
  PROVE  LevelsArrived(b, Append(a, i))
<1> DEFINE d == Append(a, i)
<1>1. ToSet(d) = ToSet(a) \cup {i}
  BY LevelAppended
<1>2. ASSUME NEW k, NEW m, EarlierIn(a, k, m) PROVE EarlierIn(d, k, m)
  <2>1. PICK n \in DOMAIN a, j \in DOMAIN a : n < j /\ a[n] = k /\ a[j] = m
    BY <1>2 DEF EarlierIn
  <2>2. n \in DOMAIN d /\ j \in DOMAIN d /\ d[n] = a[n] /\ d[j] = a[j]
    OBVIOUS
  <2> HIDE DEF d
  <2> QED
    BY <2>1, <2>2 DEF EarlierIn
<1> HIDE DEF d
<1>3. ASSUME NEW s \in Sides, NEW p \in Prices, NEW n \in DOMAIN b.level[s][p]
      PROVE  LET l == b.level[s][p] IN
             l[n] \in ToSet(d) /\ \A m \in 1..(n - 1) : EarlierIn(d, l[m], l[n])
  <2> DEFINE l == b.level[s][p]
  <2>1. l[n] \in ToSet(a) /\ \A m \in 1..(n - 1) : EarlierIn(a, l[m], l[n])
    BY DEF LevelsArrived
  <2> HIDE DEF l
  <2>2. l[n] \in ToSet(d) /\ \A m \in 1..(n - 1) : EarlierIn(d, l[m], l[n])
    BY <1>1, <1>2, <2>1
  <2> QED
    BY <2>2 DEF l
<1>4. LevelsArrived(b, d)
  BY <1>3 DEF LevelsArrived
<1> QED
  BY <1>4 DEF d

(* It is consistent, not crossed, and in order of arrival.                 *)
LEMMA MatchedBook ==
  ASSUME TypeOK, Core, NEW c \in Clients, NEW q \in Requests, Fresh(c, client[c].id),
         NEW x, NEW r, Matched(c, q, x, r)
  PROVE  LET i == client[c].id  b == BookAfter(c, r) IN
         /\ b \in BookType /\ Consistent(b, order') /\ Uncrossed(b)
         /\ LevelsArrived(b, Append(arrived, i))
         /\ \A j \in Ids : Resting(b, j) => j = i \/ Resting(r.book, j)
         /\ Resting(b, i) => order'[i].tif = "GTC"
<1> DEFINE i == client[c].id
           g == client[c].book
           o == r.order[i]
           d == Append(arrived, i)
<1>1. /\ i \in Ids /\ i \notin ToSet(arrived) /\ g \in 1..made
      /\ arrived \in Seq(Ids) /\ IsInjective(arrived)
  BY DEF Fresh, TypeOK, Core, ArrivalSound
<1>2. books[g] \in BookType /\ Uncrossed(books[g]) /\ LevelsArrived(books[g], arrived)
  BY <1>1, TypeParts, PerBook DEF Core
<1>3. /\ r.book \in BookType /\ r.order \in Orders /\ Consistent(r.book, r.order) /\ ~Resting(r.book, i)
      /\ order' \in Orders /\ o.side \in Sides /\ Stopped(i, r)
  BY StateFields DEF Matched, Sound, Taken
<1>4. Uncrossed(r.book) /\ LevelsArrived(r.book, arrived)
  <2>1. BookThins(books[g], r.book)
    BY MatchedOrders
  <2> QED
    BY <1>2, <1>3, <2>1, Thinning
<1>5. LevelsArrived(r.book, d)
  BY <1>1, <1>3, <1>4, ArrivedAppended
<1>6. \A j \in Ids : j # i => order'[j] = r.order[j]
  BY DEF Matched
<1>7. \A j \in Ids : Resting(r.book, j) => order'[j] = r.order[j]
  BY <1>3, <1>6
<1>8. CASE ~Rests(o)
  <2>1. Consistent(r.book, order')
    BY <1>3, <1>7, ConsistentSame
  <2>2. BookAfter(c, r) = r.book
    BY <1>8 DEF BookAfter
  <2> QED
    BY <1>3, <1>4, <1>5, <2>1, <2>2
<1>9. CASE Rests(o)
  <2> DEFINE s == o.side
             p == o.price
             b == Rest(r.book, i, o)
  <2>1. BookAfter(c, r) = b
    BY <1>9 DEF BookAfter
  <2>2. Terms(Validated(q), o)
    BY MatchedOrders
  <2>3. o.tif = "GTC" /\ Leaves(o) > 0 /\ p \in Prices /\ s \in Sides
    BY <1>3, <1>9, <2>2, ValidatedFields DEF Rests, Terms
  <2>4. /\ order'[i].side = s /\ order'[i].price = p /\ order'[i].tif = "GTC"
        /\ Leaves(order'[i]) = Leaves(o) /\ order'[i].status \in {"open", "partially_filled"}
    BY <1>9, <2>3 DEF Matched, Become, Leaves
  <2>5. RestsAt(order'[i], s, p)
    BY <2>3, <2>4 DEF RestsAt
  <2>6. IsRested(r.book, b, order', s, p, i)
    <3> HIDE DEF b, i
    <3>1. IsRested(r.book, Rest(r.book, i, o), order', s, p, i)
      BY <1>1, <1>3, <1>7, <2>3, <2>4, <2>5, Rested
    <3> QED
      BY <3>1 DEF b
  <2> HIDE DEF b
  <2>7. /\ b \in BookType /\ Consistent(b, order')
        /\ b.level[s][p] = Append(r.book.level[s][p], i)
        /\ \A t \in Sides, z \in Prices : t # s \/ z # p => b.level[t][z] = r.book.level[t][z]
    BY <2>6 DEF IsRested, OthersStay
  <2>8. r.book.level[s][p] \in Seq(Ids) /\ IsInjective(r.book.level[s][p])
        /\ i \notin ToSet(r.book.level[s][p])
    BY <1>3, <2>3, BookFields DEF Consistent, Resting
  <2>9. Uncrossed(b)
    <3>1. Leaves(o) # 0
      <4>1. Leaves(o) \in Int
        BY <1>1, <1>3, OrderFields
      <4> QED
        BY <2>3, <4>1
    <3>2. \A z \in Prices : r.book.level[Opposite(s)][z] # <<>> => ~Crosses(o, z)
      BY <1>3, <3>1 DEF Stopped, Crossed
    <3>3. Prices \subseteq Nat \ {0}
      BY OrderBookAssumption
    <3>4. p # 0 /\ p \in Nat
      BY <2>3, <3>3
    <3> SUFFICES ASSUME NEW z \in Prices, NEW y \in Prices,
                        b.level["buy"][z] # <<>>, b.level["sell"][y] # <<>>
                 PROVE  z < y
      BY DEF Uncrossed
    <3>5. z \in Nat /\ y \in Nat
      BY <3>3
    <3>6. CASE s = "buy"
      <4>1. b.level["sell"][y] = r.book.level["sell"][y]
        BY <2>7, <3>6 DEF Sides
      <4>2. CASE z = p
        <5>1. ~Crosses(o, y)
          BY <3>2, <3>6, <4>1 DEF Opposite
        <5> QED
          BY <3>4, <3>5, <3>6, <4>2, <5>1 DEF Crosses
      <4>3. CASE z # p
        <5>1. b.level["buy"][z] = r.book.level["buy"][z]
          BY <2>7, <4>3 DEF Sides
        <5> QED
          BY <1>4, <4>1, <5>1 DEF Uncrossed
      <4> QED
        BY <4>2, <4>3
    <3>7. CASE s = "sell"
      <4>1. b.level["buy"][z] = r.book.level["buy"][z]
        BY <2>7, <3>7 DEF Sides
      <4>2. CASE y = p
        <5>1. ~Crosses(o, z)
          BY <3>2, <3>7, <4>1 DEF Opposite
        <5> QED
          BY <3>4, <3>5, <3>7, <4>2, <5>1 DEF Crosses
      <4>3. CASE y # p
        <5>1. b.level["sell"][y] = r.book.level["sell"][y]
          BY <2>7, <4>3 DEF Sides
        <5> QED
          BY <1>4, <4>1, <5>1 DEF Uncrossed
      <4> QED
        BY <4>2, <4>3
    <3> QED
      BY <2>3, <3>6, <3>7 DEF Sides
  <2>10. LevelsArrived(b, d)
    <3> SUFFICES ASSUME NEW t \in Sides, NEW z \in Prices, NEW n \in DOMAIN b.level[t][z]
                 PROVE  LET l == b.level[t][z] IN
                        l[n] \in ToSet(d) /\ \A m \in 1..(n - 1) : EarlierIn(d, l[m], l[n])
      BY DEF LevelsArrived
    <3>1. CASE t # s \/ z # p
      BY <1>5, <2>7, <3>1 DEF LevelsArrived
    <3>2. CASE t = s /\ z = p
      <4> DEFINE l == r.book.level[s][p]
      <4>0. l \in Seq(Ids) /\ i \in Ids
        BY <1>1, <2>8
      <4>1. PICK N \in Nat : N = Len(l)
        <5> HIDE DEF l
        <5> QED
          BY <4>0
      <4>2. /\ DOMAIN l = 1..N /\ DOMAIN Append(l, i) = 1..(N + 1)
            /\ \A m \in 1..N : Append(l, i)[m] = l[m]
            /\ Append(l, i)[N + 1] = i
        <5> HIDE DEF l, i
        <5> QED
          BY <4>0, <4>1
      <4>3. \A m \in 1..N : l[m] \in ToSet(arrived)
        BY <1>4, <2>3, <4>2 DEF LevelsArrived
      <4>4. PICK K \in Nat : K = Len(arrived)
        BY <1>1
      <4>5. /\ DOMAIN arrived = 1..K /\ DOMAIN d = 1..(K + 1) /\ d[K + 1] = i
            /\ \A m \in 1..K : d[m] = arrived[m]
        BY <1>1, <4>4
      <4> HIDE DEF l, d
      <4>6. \A m \in 1..N : EarlierIn(d, l[m], i)
        <5> TAKE m \in 1..N
        <5>1. PICK k \in 1..K : arrived[k] = l[m]
          BY <4>3, <4>5 DEF ToSet
        <5>2. k \in DOMAIN d /\ K + 1 \in DOMAIN d /\ k < K + 1 /\ d[k] = l[m]
          BY <4>5, <5>1
        <5> QED
          BY <4>5, <5>2 DEF EarlierIn
      <4>7. i \in ToSet(d)
        <5>1. K + 1 \in DOMAIN d
          BY <4>5
        <5> QED
          BY <4>5, <5>1 DEF ToSet
      <4>8. b.level[t][z] = Append(l, i) /\ n \in 1..(N + 1)
        BY <2>7, <3>2, <4>2 DEF l
      <4>9. CASE n = N + 1
        <5>1. \A m \in 1..(n - 1) : m \in 1..N
          BY <4>9
        <5> QED
          BY <4>2, <4>6, <4>7, <4>8, <4>9, <5>1
      <4>10. CASE n # N + 1
        <5>1. n \in 1..N /\ \A m \in 1..(n - 1) : m \in 1..N
          BY <4>8, <4>10
        <5>2. l[n] \in ToSet(d) /\ \A m \in 1..(n - 1) : EarlierIn(d, l[m], l[n])
          BY <1>5, <2>3, <4>2, <5>1 DEF LevelsArrived, l
        <5> QED
          BY <4>2, <4>8, <5>1, <5>2
      <4> QED
        BY <4>9, <4>10
    <3> QED
      BY <3>1, <3>2
  <2>11. ASSUME NEW j \in Ids, Resting(b, j), j # i PROVE Resting(r.book, j)
    <3>1. PICK t \in Sides, z \in Prices : j \in ToSet(b.level[t][z])
      BY <2>11 DEF Resting
    <3>2. CASE t # s \/ z # p
      BY <2>7, <3>1, <3>2 DEF Resting
    <3>3. CASE t = s /\ z = p
      <4>1. ToSet(Append(r.book.level[s][p], i)) = ToSet(r.book.level[s][p]) \cup {i}
        BY <1>1, <2>8, LevelAppended
      <4> QED
        BY <2>3, <2>7, <2>11, <3>1, <3>3, <4>1 DEF Resting
    <3> QED
      BY <3>2, <3>3
  <2> QED
    BY <2>1, <2>4, <2>7, <2>9, <2>10, <2>11
<1> QED
  BY <1>8, <1>9

(* The other books keep their orders.                                      *)
LEMMA MatchedReplaces ==
  ASSUME TypeOK, Core, NEW c \in Clients, NEW q \in Requests, SubmitMatched(c, q),
         Fresh(c, client[c].id), NEW x, NEW r, Matched(c, q, x, r)
  PROVE  Replaces(client[c].book, BookAfter(c, r))
<1> DEFINE i == client[c].id
           g == client[c].book
           b == BookAfter(c, r)
<1>1. /\ b \in BookType /\ Consistent(b, order') /\ Uncrossed(b) /\ LevelsArrived(b, Append(arrived, i))
      /\ \A j \in Ids : Resting(b, j) => j = i \/ Resting(r.book, j)
      /\ Resting(b, i) => order'[i].tif = "GTC"
  BY MatchedBook
<1>2. /\ i \in Ids /\ Submitted' = Submitted \cup {i}
      /\ \A j \in Ids : j # i => Terms(order[j], order'[j])
      /\ \A j \in Ids : j # i /\ ~Resting(books[g], j) => order'[j] = order[j]
      /\ \A j \in Ids : Resting(r.book, j) => Resting(books[g], j) /\ j # i
  BY MatchedOrders
<1>3. /\ books' = [books EXCEPT ![g] = b] /\ arrived' = Append(arrived, i) /\ order' \in Orders
  BY DEF Matched, BookAfter
<1>4. made' = made
  BY DEF SubmitMatched
<1>5. /\ g \in 1..made /\ i \notin ToSet(arrived)
      /\ \A h \in 1..made : ~Resting(books[h], i)
  BY DEF Fresh
<1>6. arrived \in Seq(Ids) /\ IsInjective(arrived) /\ ToSet(arrived) \subseteq Submitted
  BY DEF TypeOK, Core, ArrivalSound
<1>7. \A h \in 1..made : \A j \in Ids : Resting(books[h], j) =>
         order[j].tif = "GTC" /\ \A k \in 1..made : Resting(books[k], j) => k = h
  BY DEF Core, RestingSound
<1> HIDE DEF i, g, b
<1>8. IsInjective(arrived') /\ ToSet(arrived') \subseteq Submitted'
  <2>1. IsInjective(Append(arrived, i)) /\ ToSet(Append(arrived, i)) = ToSet(arrived) \cup {i}
    BY <1>2, <1>5, <1>6, LevelAppended
  <2> QED
    BY <1>2, <1>3, <1>6, <2>1
<1>9. \A h \in 1..made : \A j \in Ids : h # g /\ Resting(books[h], j) => order'[j] = order[j]
  BY <1>2, <1>5, <1>7
<1>10. \A j \in Ids : Resting(b, j) =>
          order'[j].tif = "GTC" /\ \A h \in 1..made : h # g => ~Resting(books[h], j)
  <2> SUFFICES ASSUME NEW j \in Ids, Resting(b, j)
               PROVE  order'[j].tif = "GTC" /\ \A h \in 1..made : h # g => ~Resting(books[h], j)
    OBVIOUS
  <2>1. CASE j = i
    BY <1>1, <1>5, <2>1
  <2>2. CASE j # i
    <3>1. Resting(books[g], j) /\ Terms(order[j], order'[j])
      BY <1>1, <1>2, <2>2
    <3> QED
      BY <1>5, <1>7, <3>1 DEF Terms
  <2> QED
    BY <2>1, <2>2
<1>11. \A h \in 1..made : LevelsArrived(books[h], arrived) => LevelsArrived(books[h], arrived')
  BY <1>2, <1>3, <1>5, <1>6, TypeParts, ArrivedAppended
<1>12. Replaces(g, b)
  BY <1>1, <1>3, <1>4, <1>5, <1>8, <1>9, <1>10, <1>11 DEF Replaces
<1> QED
  BY <1>12 DEF g, b

(* A taker that is not filled found nothing left to trade with.              *)
LEMMA NothingLeft ==
  ASSUME NEW i \in Ids, NEW r, Sound(i, r), Stopped(i, r), Leaves(r.order[i]) # 0
  PROVE  AvailableUnits(r.book, r.order[i]) = 0
<1> DEFINE o == r.order[i]
           s == Opposite(o.side)
           P == {p \in Prices : Crosses(o, p)}
<1>1. r.book \in BookType /\ Consistent(r.book, r.order) /\ s \in Sides
  BY StateFields DEF Sound, Opposite, Sides
<1>2. \A p \in P : r.book.level[s][p] = <<>>
  BY DEF Stopped, Crossed
<1>3. \A p \in P : r.book.total[s][p] = 0
  <2> TAKE p \in P
  <2>1. r.book.total[s][p] = Sum(LeavesOf(r.order), ToSet(r.book.level[s][p]))
    BY <1>1 DEF Consistent
  <2>2. ToSet(r.book.level[s][p]) = {}
    BY <1>2 DEF ToSet
  <2> QED
    BY <2>1, <2>2, SumEmpty
<1>4. IsFiniteSet(P)
  BY OrderBookAssumption, FS_Subset
<1>5. (\A p \in P : r.book.total[s][p] \in Int) /\ \A p \in P : r.book.total[s][p] # 0 => p \in {}
  BY <1>3
<1>6. AvailableUnits(r.book, o) = Sum(r.book.total[s], P)
  BY DEF AvailableUnits
<1> HIDE DEF P, s
<1>7. Sum(r.book.total[s], P) = Sum(r.book.total[s], {})
  BY <1>4, <1>5, SumZeroOutside
<1> QED
  BY <1>6, <1>7, SumEmpty

(* A fill-or-kill order was promised enough units, and a surplus that      *)
(* stays constant leaves none for a taker that is not filled.              *)
LEMMA MatchedFillOrKill ==
  ASSUME TypeOK, Core, NEW c \in Clients, NEW q \in Requests, Fresh(c, client[c].id),
         NEW x, NEW r, Matched(c, q, x, r)
  PROVE  FillOrKill'
<1> DEFINE i == client[c].id
           o == r.order[i]
           v == Validated(q)
           b == books[client[c].book]
<1>1. /\ i \in Ids /\ Submitted' = Submitted \cup {i} /\ Terms(v, o)
      /\ \A j \in Ids : j # i => Terms(order[j], order'[j])
      /\ \A j \in Ids : j # i /\ ~Resting(b, j) => order'[j] = order[j]
      /\ \A j \in Ids : Terms(r.order[j], order'[j]) /\ order'[j].filled = r.order[j].filled
  BY MatchedOrders
<1>2. /\ Sound(i, x) /\ Sound(i, r) /\ Since(i, x, r) /\ Stopped(i, r)
      /\ x.book = b /\ x.order[i] = v /\ x.prevented = prevented
      /\ ~Rejected(b, v) /\ order' \in Orders /\ prevented' = r.prevented
  BY DEF Matched
<1>3. prevented \subseteq prevented'
  BY <1>2 DEF Since
<1>4. order \in Orders /\ client[c].book \in 1..made
  BY TypeParts DEF Fresh
<1>5. v.side \in Sides /\ v.qty \in Nat /\ v.filled = 0
  BY ValidatedFields
<1> SUFFICES ASSUME NEW j \in Submitted', order'[j].tif = "FOK",
                    order'[j].filled \in 1..(order'[j].qty - 1)
             PROVE  \E m \in Submitted' : <<j, m>> \in prevented'
  BY DEF FillOrKill
<1>6. j \in Ids
  BY <1>1 DEF Submitted
<1>7. CASE j = i
  <2> HIDE DEF i, b, v
  <2>1. Terms(o, order'[i]) /\ order'[i].filled = o.filled
    BY <1>1
  <2>2. /\ o.tif = "FOK" /\ o.filled \in 1..(o.qty - 1) /\ o.qty = v.qty
        /\ v.tif = "FOK"
    BY <1>1, <1>7, <2>1 DEF Terms
  <2>3. Leaves(o) > 0 /\ Leaves(o) \in Int /\ Leaves(v) = v.qty
    BY <1>5, <2>2 DEF Leaves
  <2>4. AvailableUnits(r.book, o) = 0
    BY <1>1, <1>2, <2>3, NothingLeft
  <2>5. AvailableUnits(b, v) \in Int
    <3>1. b \in BookType
      BY <1>4, TypeParts DEF b
    <3> QED
      BY <1>5, <3>1, AvailableInt
  <2>6. AvailableUnits(b, v) >= v.qty
    BY <1>2, <1>5, <2>2, <2>5 DEF Rejected
  <2>7. Surplus(i, r) = 0 - Leaves(o) /\ Surplus(i, x) = AvailableUnits(b, v) - v.qty
    BY <1>2, <2>3, <2>4 DEF Surplus
  <2>8. Surplus(i, r) # Surplus(i, x)
    BY <1>5, <2>3, <2>5, <2>6, <2>7
  <2>9. PICK m \in Ids : <<i, m>> \in r.prevented /\ Taken(r.order[m])
    BY <1>2, <2>8 DEF Since, Prevented
  <2>10. order'[m] # NoOrder
    <3>1. Terms(r.order[m], order'[m])
      BY <1>1
    <3>2. Taken(order'[m])
      BY <2>9, <3>1 DEF Taken, Terms
    <3> QED
      BY <1>2, <3>2, TakenIsOrder
  <2>11. m \in Submitted'
    BY <2>10 DEF Submitted
  <2> QED
    BY <1>2, <1>7, <2>9, <2>11
<1>8. CASE j # i
  <2>1. order[j].tif = "FOK"
    BY <1>1, <1>6, <1>8 DEF Terms
  <2>2. ~Resting(b, j)
    <3>1. Resting(b, j) => order[j].tif = "GTC"
      BY <1>4, <1>6 DEF Core, RestingSound
    <3> QED
      BY <2>1, <3>1
  <2>3. order'[j] = order[j] /\ j \in Submitted
    BY <1>1, <1>6, <1>8, <2>2
  <2>4. PICK m \in Submitted : <<j, m>> \in prevented
    BY <2>1, <2>3 DEF Core, FillOrKill
  <2> QED
    BY <1>1, <1>3, <2>4
<1> QED
  BY <1>7, <1>8

(* Book.Submit, matched.                                                   *)
LEMMA StepSubmitMatched ==
  ASSUME IInv, NEW c \in Clients, NEW q \in Requests, SubmitMatched(c, q)
  PROVE  IInv'
<1> DEFINE i == client[c].id
           g == client[c].book
<1>1. TypeOK /\ Core /\ ClientsSound
  BY IInvParts
<1>2. Fresh(c, i)
  BY <1>1, IdFresh DEF SubmitMatched
<1>3. PICK x, r : Matched(c, q, x, r)
  BY <1>1, MatchedFacts
<1>4. Replaces(g, BookAfter(c, r))
  BY <1>1, <1>2, <1>3, MatchedReplaces
<1>5. /\ BooksConsistent' /\ NotCrossed' /\ RestingSound' /\ ArrivalSound'
      /\ books' \in [BookIds -> BookType]
  BY <1>1, <1>4, BookReplaced
<1>6. /\ i \in Ids /\ Submitted' = Submitted \cup {i}
      /\ \A j \in Ids : j # i /\ ~Resting(books[g], j) => order'[j] = order[j]
      /\ \A j \in Ids : Terms(r.order[j], order'[j]) /\ order'[j].filled = r.order[j].filled
  BY <1>1, <1>2, <1>3, MatchedOrders
<1>7. r \in LoopState /\ order' \in Orders /\ Fair(r.order, r.trades)
      /\ \A j \in Ids : r.order[j].filled <= r.order[j].qty
  BY <1>3 DEF Matched, Sound
<1>8. r.trades \in SUBSET TradeType /\ IsFiniteSet(r.trades) /\ r.prevented \subseteq Ids \X Ids
  BY <1>7, StateFields
<1>9. /\ trades' = r.trades /\ prevented' = r.prevented /\ arrived' = Append(arrived, i)
  BY <1>3 DEF Matched
<1>10. TradesFair'
  <2>1. Fair(order', r.trades)
    BY <1>6, <1>7, <1>8, FairStays
  <2> QED
    BY <1>9, <2>1 DEF TradesFair
<1>11. FillOrKill'
  BY <1>1, <1>2, <1>3, MatchedFillOrKill
<1>12. UNCHANGED <<given, listed, made, orderPair, listings>>
       /\ client' = [client EXCEPT ![c].pc = "index"]
  BY DEF SubmitMatched
<1> DEFINE v == [client[c] EXCEPT !.pc = "index"]
<1>13. client' = [client EXCEPT ![c] = v] /\ v \in ClientType /\ v.pc = "index" /\ v.id = i
  <2>1. client \in [Clients -> ClientType]
    BY <1>1 DEF TypeOK, ClientType
  <2>2. client[c] \in ClientType
    BY <2>1
  <2>3. v \in ClientType /\ v.pc = "index" /\ v.id = client[c].id
    BY <2>2 DEF ClientType
  <2> QED
    BY <1>12, <2>1, <2>3
<1> HIDE DEF v, i
<1>14. ClientMoves(c, v)
  <2>1. \A j \in Submitted' : j <= given
    <3>1. i <= given
      BY <1>2 DEF Fresh
    <3> QED
      BY <1>1, <1>6, <3>1 DEF ClientsSound
  <2>2. ASSUME NEW d \in Clients, d # c, client[d].pc = "submit" PROVE order'[client[d].id] = NoOrder
    <3>1. client[d].id # i /\ order[client[d].id] = NoOrder
      BY <1>2, <2>2 DEF Fresh, i
    <3>2. Fresh(d, client[d].id)
      BY <1>1, <2>2, IdFresh
    <3>3. client[d].id \in Ids /\ ~Resting(books[g], client[d].id)
      BY <1>2, <3>2 DEF Fresh, i
    <3> QED
      BY <1>6, <3>1, <3>3
  <2> QED
    BY <1>6, <1>12, <1>13, <2>1, <2>2 DEF ClientMoves
<1>15. ClientsSound' /\ client' \in [Clients -> ClientType]
  BY <1>1, <1>14, ClientsMove, ClientTypeStays
<1>16. TypeOK'
  <2>1. \A j \in Ids : order'[j].filled <= order'[j].qty
    BY <1>6, <1>7 DEF Terms
  <2>2. arrived' \in Seq(Ids)
    <3>1. arrived \in Seq(Ids)
      BY <1>1 DEF TypeOK
    <3> QED
      BY <1>6, <1>9, <3>1
  <2>3. trades' \subseteq TradeType /\ IsFiniteSet(trades') /\ prevented' \subseteq Ids \X Ids
    BY <1>8, <1>9
  <2>4. given' \in 0..MaxOrders /\ made' \in BookIds /\ listed' \in 0..made' /\ listings' \in 0..MaxListings
    BY <1>1, <1>12 DEF TypeOK
  <2>5. orderPair' \subseteq Submitted'
    BY <1>1, <1>6, <1>12 DEF TypeOK
  <2>6. order' \in [Ids -> OrderType \cup {NoOrder}]
    BY <1>7 DEF Orders
  <2> QED
    BY <1>5, <1>15, <2>1, <2>2, <2>3, <2>4, <2>5, <2>6 DEF TypeOK, ClientType
<1> QED
  BY <1>5, <1>10, <1>11, <1>15, <1>16 DEF IInv, Core, BooksConsistent, BookConsistent

(* Every step keeps the invariant.                                         *)
LEMMA StepIInv == IInv /\ [Next]_vars => IInv'
<1> SUFFICES ASSUME IInv, [Next]_vars PROVE IInv'
  OBVIOUS
<1>1. CASE UNCHANGED vars
  <2>1. TypeOK /\ Core /\ ClientsSound
    BY IInvParts
  <2>2. Core'
    BY <1>1, <2>1, CoreStays DEF vars, history
  <2>3. Submitted' = Submitted
    BY <1>1 DEF vars, Submitted
  <2>4. TypeOK'
    BY <1>1, <2>1, <2>3 DEF TypeOK, vars, history
  <2>5. ClientsSound'
    BY <1>1, <2>1, <2>3 DEF ClientsSound, vars, history
  <2> QED
    BY <2>2, <2>4, <2>5 DEF IInv, Core, BooksConsistent, BookConsistent
<1>2. ASSUME NEW c \in Clients, Submit(c) PROVE IInv'
  BY <1>2, StepSubmit
<1>3. ASSUME NEW c \in Clients, NEW q \in Requests, SubmitRejected(c, q) PROVE IInv'
  BY <1>3, StepSubmitRejected
<1>4. ASSUME NEW c \in Clients, NEW q \in Requests, SubmitMatched(c, q) PROVE IInv'
  BY <1>4, StepSubmitMatched
<1>5. ASSUME NEW c \in Clients, Index(c) PROVE IInv'
  BY <1>5, StepIndex
<1>6. ASSUME NEW c \in Clients, NEW i \in orderPair, Cancel(c, i) PROVE IInv'
  BY <1>6, StepCancel
<1>7. ASSUME NEW c \in Clients, NEW t \in Traders, BookCancel(c, t) PROVE IInv'
  BY <1>7, StepBookCancel
<1>8. ASSUME NEW max \in Ranges, RegisterPair(max) PROVE IInv'
  BY <1>8, StepRegister
<1>9. CASE UnregisterPair
  BY <1>9, StepUnregister
<1> QED
  BY <1>1, <1>2, <1>3, <1>4, <1>5, <1>6, <1>7, <1>8, <1>9 DEF Next

(* Only orders that rest change, and only a match fills them.                *)
LEMMA OrdersMove ==
  ASSUME IInv, [Next]_vars, NEW j \in Submitted
  PROVE  /\ order'[j] # order[j] => \E g \in 1..made : Resting(books[g], j)
         /\ order'[j].filled # order[j].filled => \E c \in Clients, q \in Requests : SubmitMatched(c, q)
<1>1. TypeOK /\ Core /\ ClientsSound /\ j \in Ids /\ order[j] # NoOrder
  BY IInvParts DEF Submitted
<1>2. CASE order' = order
  BY <1>2
<1>3. ASSUME NEW c \in Clients, NEW q \in Requests, SubmitRejected(c, q) PROVE order'[j] = order[j]
  <2>1. Fresh(c, client[c].id)
    BY <1>1, <1>3, IdFresh DEF SubmitRejected
  <2>2. client[c].id # j
    BY <2>1 DEF Fresh
  <2>3. order \in Orders
    BY <1>1, TypeParts
  <2> QED
    BY <1>1, <1>3, <2>2, <2>3 DEF SubmitRejected, Orders
<1>4. ASSUME NEW c \in Clients, NEW q \in Requests, SubmitMatched(c, q), order'[j] # order[j]
      PROVE  \E g \in 1..made : Resting(books[g], j)
  <2>1. Fresh(c, client[c].id)
    BY <1>1, <1>4, IdFresh DEF SubmitMatched
  <2>2. PICK x, r : Matched(c, q, x, r)
    BY <1>1, <1>4, MatchedFacts
  <2>3. j # client[c].id
    BY <2>1 DEF Fresh
  <2>4. \A k \in Ids : k # client[c].id /\ ~Resting(books[client[c].book], k) => order'[k] = order[k]
    BY <1>1, <2>1, <2>2, MatchedOrders
  <2>5. client[c].book \in 1..made
    BY <2>1 DEF Fresh
  <2> QED
    BY <1>1, <1>4, <2>3, <2>4, <2>5
<1>5. ASSUME NEW c \in Clients, NEW t \in Traders, BookCancel(c, t)
      PROVE  /\ order'[j].filled = order[j].filled
             /\ order'[j] # order[j] => \E g \in 1..made : Resting(books[g], j)
  <2> DEFINE i == client[c].id
             g == client[c].book
  <2>1. g \in 1..made /\ i \in Ids
    BY <1>1, <1>5 DEF ClientsSound, BookCancel, Submitted
  <2>2. CASE ~(Resting(books[g], i) /\ order[i].trader = t)
    BY <1>5, <2>2 DEF BookCancel
  <2>3. CASE Resting(books[g], i) /\ order[i].trader = t
    <3>1. order' = [order EXCEPT ![i].status = "cancelled"]
      BY <1>5, <2>3 DEF BookCancel
    <3>2. order \in Orders
      BY <1>1, TypeParts
    <3>3. j # i => order'[j] = order[j]
      BY <1>1, <3>1, <3>2 DEF Orders
    <3>4. order'[i].filled = order[i].filled
      <4>1. order'[i] = [order[i] EXCEPT !.status = "cancelled"]
        BY <2>1, <3>1, <3>2 DEF Orders
      <4>2. order[i] \in OrderType \cup {NoOrder}
        BY <2>1, <3>2 DEF Orders
      <4> HIDE DEF i
      <4> QED
        BY <4>1, <4>2 DEF OrderType, NoOrder
    <3> QED
      BY <2>1, <2>3, <3>3, <3>4
  <2> QED
    BY <2>2, <2>3
<1>6. CASE UNCHANGED vars
  BY <1>2, <1>6 DEF vars
<1>7. CASE Next
  <2>1. ASSUME NEW c \in Clients, Submit(c) \/ Index(c) \/ \E i \in orderPair : Cancel(c, i)
        PROVE  order' = order
    BY <2>1 DEF Submit, Index, Cancel
  <2>2. ASSUME (\E max \in Ranges : RegisterPair(max)) \/ UnregisterPair
        PROVE  order' = order
    BY <2>2 DEF RegisterPair, UnregisterPair
  <2> QED
    BY <1>2, <1>3, <1>4, <1>5, <1>7, <2>1, <2>2 DEF Next
<1> QED
  BY <1>6, <1>7

(* One step of FinalStays.                                                 *)
FinalStep == \A i \in Submitted :
    order[i].status \in {"filled", "cancelled", "rejected"} => order'[i] = order[i]

(* An order that changes was resting, and those are not final.             *)
LEMMA StepFinal == IInv /\ [Next]_vars => [FinalStep]_vars
<1> SUFFICES ASSUME IInv, [Next]_vars, NEW i \in Submitted,
                    order[i].status \in {"filled", "cancelled", "rejected"}, order'[i] # order[i]
             PROVE  FALSE
  BY DEF FinalStep
<1>1. PICK g \in 1..made : Resting(books[g], i)
  BY OrdersMove
<1>2. TypeOK /\ Core
  BY IInvParts
<1>3. order[i].status \in {"open", "partially_filled"}
  <2>1. books[g] \in BookType /\ order \in Orders /\ Consistent(books[g], order)
    BY <1>2, TypeParts DEF Core, BooksConsistent
  <2> QED
    BY <1>1, <2>1, RestingOrder
<1> QED
  BY <1>3

(* One step of PriceTime.                                                  *)
PriceTimeStep == \A g \in 1..made, k, m \in Submitted :
    Resting(books[g], k) /\ Resting(books[g], m) /\ order[k].side = order[m].side
      /\ Ahead(k, m) /\ order'[m].filled > order[m].filled
    => ~Resting(books'[g], k)

(* Who is ahead of m, by price or by arrival, stands in front of it.         *)
LEMMA AheadInFront ==
  ASSUME TypeOK, Core, NEW g \in 1..made, NEW k \in Submitted, NEW m \in Submitted,
         Resting(books[g], k), Resting(books[g], m), order[k].side = order[m].side, Ahead(k, m)
  PROVE  InFront(books[g], k, m)
<1> DEFINE b == books[g]
           s == order[m].side
           p == order[k].price
           q == order[m].price
<1>1. b \in BookType /\ order \in Orders /\ Consistent(b, order)
  BY TypeParts DEF Core, BooksConsistent
<1>2. /\ s \in Sides /\ p \in Prices /\ q \in Prices
      /\ k \in ToSet(b.level[s][p]) /\ m \in ToSet(b.level[s][q])
  BY <1>1, RestingOrder
<1> HIDE DEF b, s, p, q
<1>3. PICK x \in Nat : At(b, s, p, x, k)
  BY <1>1, <1>2, Position
<1>4. PICK y \in Nat : At(b, s, q, y, m)
  BY <1>1, <1>2, Position
<1>5. CASE Better(s, p, q)
  BY <1>2, <1>3, <1>4, <1>5 DEF InFront, b
<1>6. CASE p = q /\ Earlier(k, m)
  <2>1. PICK i \in DOMAIN arrived, j \in DOMAIN arrived : i < j /\ arrived[i] = k /\ arrived[j] = m
    BY <1>6 DEF Earlier
  <2>2. IsInjective(arrived) /\ DOMAIN arrived \subseteq Nat
    <3>1. arrived \in Seq(Ids)
      BY DEF TypeOK
    <3>2. DOMAIN arrived \subseteq Nat
      BY <3>1
    <3> QED
      BY <3>2 DEF Core, ArrivalSound
  <2>3. x # y
    <3> SUFFICES ASSUME x = y PROVE FALSE
      OBVIOUS
    <3>1. k = m
      BY <1>3, <1>4, <1>6 DEF At
    <3> QED
      BY <2>1, <2>2, <3>1 DEF IsInjective
  <2>4. ~(y < x)
    <3> SUFFICES ASSUME y < x PROVE FALSE
      OBVIOUS
    <3>1. x \in DOMAIN b.level[s][p] /\ y \in 1..(x - 1) /\ b.level[s][p][y] = m /\ b.level[s][p][x] = k
      <4>1. x \in 1..Len(b.level[s][p]) /\ b.level[s][p][x] = k /\ b.level[s][p][y] = m
            /\ y \in 1..Len(b.level[s][p])
        BY <1>3, <1>4, <1>6 DEF At
      <4>2. DOMAIN b.level[s][p] = 1..Len(b.level[s][p])
        BY <1>1, <1>2, BookFields
      <4>3. y \in 1..(x - 1)
        BY <4>1
      <4> QED
        BY <4>1, <4>2, <4>3
    <3>2. LevelsArrived(b, arrived)
      BY PerBook DEF Core, b
    <3>3. EarlierIn(arrived, m, k)
      BY <1>2, <3>1, <3>2 DEF LevelsArrived
    <3>4. PICK a \in DOMAIN arrived, d \in DOMAIN arrived : a < d /\ arrived[a] = m /\ arrived[d] = k
      BY <3>3 DEF EarlierIn
    <3>5. a = j /\ d = i
      BY <2>1, <2>2, <3>4 DEF IsInjective
    <3> QED
      BY <2>1, <2>2, <3>4, <3>5
  <2> QED
    BY <1>2, <1>3, <1>4, <1>6, <2>3, <2>4 DEF InFront, b
<1> QED
  BY <1>5, <1>6 DEF Ahead, s, p, q

(* Only a match fills, and each of its rounds fills the frontmost order.   *)
LEMMA StepPriceTime == IInv /\ [Next]_vars => [PriceTimeStep]_vars
<1> SUFFICES ASSUME IInv, [Next]_vars, NEW g \in 1..made, NEW k \in Submitted, NEW m \in Submitted,
                    Resting(books[g], k), Resting(books[g], m), order[k].side = order[m].side,
                    Ahead(k, m), order'[m].filled > order[m].filled, Resting(books'[g], k)
             PROVE  FALSE
  BY DEF PriceTimeStep
<1>1. TypeOK /\ Core /\ ClientsSound /\ k \in Ids /\ m \in Ids
  BY IInvParts DEF Submitted
<1>2. order \in Orders /\ order[m].filled \in Nat
  BY <1>1, TypeParts, OrderFields
<1>3. order'[m].filled # order[m].filled
  BY <1>2
<1>4. PICK c \in Clients, q \in Requests : SubmitMatched(c, q)
  BY <1>3, OrdersMove
<1> DEFINE i == client[c].id
<1>5. Fresh(c, i)
  BY <1>1, <1>4, IdFresh DEF SubmitMatched
<1>6. PICK x, r : Matched(c, q, x, r)
  BY <1>1, <1>4, MatchedFacts
<1>7. k # i /\ m # i
  BY <1>5 DEF Fresh
<1>8. /\ \A j \in Ids : j # i /\ ~Resting(books[client[c].book], j) => order'[j] = order[j]
      /\ \A j \in Ids : order'[j].filled = r.order[j].filled
  BY <1>1, <1>5, <1>6, MatchedOrders
<1>9. g = client[c].book
  <2>1. Resting(books[client[c].book], m)
    BY <1>1, <1>3, <1>7, <1>8
  <2>2. client[c].book \in 1..made
    BY <1>5 DEF Fresh
  <2> QED
    BY <1>1, <2>1, <2>2 DEF Core, RestingSound
<1>10. Resting(r.book, k)
  <2>1. \A j \in Ids : Resting(BookAfter(c, r), j) => j = i \/ Resting(r.book, j)
    BY <1>1, <1>5, <1>6, MatchedBook
  <2>2. books'[g] = BookAfter(c, r)
    <3>1. books \in [BookIds -> BookType] /\ g \in BookIds
      BY <1>1, TypeParts DEF TypeOK
    <3> QED
      BY <1>6, <1>9, <3>1 DEF Matched, BookAfter
  <2> QED
    BY <1>1, <1>7, <2>1, <2>2
<1>11. InFront(x.book, k, m)
  BY <1>1, <1>6, <1>9, AheadInFront DEF Matched
<1>12. x.order[m].filled < r.order[m].filled
  <2>1. x.order[m] = order[m] /\ r.order[m].filled = order'[m].filled
    BY <1>1, <1>6, <1>7, <1>8 DEF Matched
  <2> QED
    BY <2>1
<1>13. InTurn(x, r)
  BY <1>6 DEF Matched, Since
<1> QED
  BY <1>1, <1>10, <1>11, <1>12, <1>13 DEF InTurn

----
(* book.go, under any interleaving of Submit, Cancel, RegisterPair and     *)
(* UnregisterPair: the strengthened invariant of the engine holds.         *)
THEOREM Invariance == Spec => []IInv
<1> QED
  BY InitIInv, StepIInv, PTL DEF Spec

(* level.add, level.remove, dropLevel and match keep every level's total   *)
(* and the book's openOrders equal to what its orders say, so that         *)
(* AvailableUnits and the depth answers can be read off the totals.        *)
THEOREM BookConsistentInvariant == Spec => []BookConsistent
<1>1. IInv => BookConsistent
  BY DEF IInv
<1> QED
  BY Invariance, <1>1, PTL

(* match runs until the best level no longer crosses, so the highest bid   *)
(* that rests is always below the lowest ask.                              *)
THEOREM NotCrossedInvariant == Spec => []NotCrossed
<1>1. IInv => NotCrossed
  BY DEF IInv
<1> QED
  BY Invariance, <1>1, PTL

(* What match adds to an order's fill is the sum of the trades it reports, *)
(* none worse than the taker's limit, none between orders of one trader.   *)
THEOREM TradesFairInvariant == Spec => []TradesFair
<1>1. IInv => TradesFair
  BY DEF IInv
<1> QED
  BY Invariance, <1>1, PTL

(* Book.Submit's check of the totals before match: a fill-or-kill order is *)
(* filled whole or not at all, unless match cancelled orders of its own    *)
(* trader.                                                                 *)
THEOREM FillOrKillInvariant == Spec => []FillOrKill
<1>1. IInv => FillOrKill
  BY DEF IInv
<1> QED
  BY Invariance, <1>1, PTL

(* insertLevel, add and match: a resting order is filled only when every   *)
(* order of its side at a better price, or earlier at its own, has been    *)
(* used up.                                                                *)
THEOREM PriceTimePriority == Spec => PriceTime
<1>1. PriceTime <=> [][PriceTimeStep]_vars
  BY DEF PriceTime, PriceTimeStep
<1> QED
  BY Invariance, StepPriceTime, <1>1, PTL DEF Spec

(* Book.Submit, Book.Cancel and match: an order once filled, cancelled or  *)
(* rejected is never filled or cancelled again, by any request under way.  *)
THEOREM FinalOrdersStay == Spec => FinalStays
<1>1. FinalStays <=> [][FinalStep]_vars
  BY DEF FinalStays, FinalStep
<1> QED
  BY Invariance, StepFinal, <1>1, PTL DEF Spec
====
