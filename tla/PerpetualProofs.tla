---- MODULE PerpetualProofs ----
(***************************************************************************)
(* Proofs about PerpetualEngine for every finite set of positions and any  *)
(* number of goroutines, prices, sizes and spellings of the market.        *)
(***************************************************************************)
EXTENDS PerpetualEngine, SumTheorems

PositionType ==
    [status : Statuses, pair : Pairs, side : Sides, size : Sizes,
     coll : Collaterals, lev : 1..MaxLeverage, entry : Prices, mark : Prices]

(* The positions in memory. *)
PositionsSound ==
    /\ DOMAIN pos \subseteq Positions \ gone /\ gone \subseteq Positions
    /\ \A i \in DOMAIN pos :
          /\ pos[i] \in PositionType
          /\ pos[i].coll * pos[i].lev >= pos[i].size
          /\ pos[i].status = "liquidated" => IsLiquidatable(pos[i], pos[i].mark)

(* The rows and the orders.  A row is written for a position of the engine,  *)
(* and says closed only where the position will stay closed.                 *)
RecordsSound ==
    /\ listed \in BOOLEAN /\ crowded \in BOOLEAN
    /\ \A i \in DOMAIN rows :
          /\ i \in DOMAIN pos \cup gone
          /\ rows[i] \in [status : Statuses, mark : Prices]
          /\ i \in DOMAIN pos /\ rows[i].status = "closed" =>
                pos[i].status = "closed" /\ pos[i].mark = rows[i].mark
    /\ \A o \in DOMAIN orders : orders[o] \in {"pending", "filled", "cancelled"}

(* What a goroutine between two critical sections knows. *)
HasPosition == {"row", "save", "closePrice", "liqPrice", "close", "liquidate"}

RequestSound(q) ==
    /\ Opening(q) =>
          /\ req[q] \in [pc : {"quote", "store"}, p : PositionType]
          /\ req[q].p.status = "open"
          /\ req[q].p.coll * req[q].p.lev >= req[q].p.size
    /\ req[q].pc \in HasPosition => req[q].id \in DOMAIN pos
    /\ req[q].pc \in {"close", "liquidate"} => req[q].mark \in Prices
    /\ Serving(q, "save") => pos[req[q].id].status = "closed"

FeedSound ==
    /\ DOMAIN feed = {"pc", "todo", "marks"}
    /\ \A m \in DOMAIN feed.marks : feed.marks[m] \in Prices

(* Without a race one request opens a position at a time, and what it has    *)
(* checked against the cap stays below it.                                   *)
CapSound == ~crowded =>
    /\ \A q, r \in Procs : Opening(q) /\ Opening(r) => q = r
    /\ \A q \in Procs : Serving(q, "store") =>
          OpenInterest(req[q].p.pair) + req[q].p.size <= Cap
    /\ \A pair \in Pairs : OpenInterest(pair) <= Cap

IInv ==
    /\ PositionsSound /\ RecordsSound /\ FeedSound
    /\ DOMAIN req = Procs /\ \A q \in Procs : RequestSound(q)
    /\ CapSound

(* What may become of one position in one step. *)
Evolves(p, r) ==
    \/ r = p
    \/ /\ PositionIsLive(p.status)
       /\ \E s \in Statuses, m \in Prices :
             /\ r = [p EXCEPT !.status = s, !.mark = m]
             /\ s = "liquidated" => IsLiquidatable(p, m)

AllEvolve == DOMAIN pos' = DOMAIN pos /\ \A i \in DOMAIN pos : Evolves(pos[i], pos'[i])

Keeps == DOMAIN pos \subseteq DOMAIN pos' /\ \A i \in DOMAIN pos : Evolves(pos[i], pos'[i])

PositionOK(p) ==
    /\ p \in PositionType
    /\ p.coll * p.lev >= p.size
    /\ p.status = "liquidated" => IsLiquidatable(p, p.mark)

----
(* A position that is marked, flagged or settled stays sound, keeps its size *)
(* and pair, and never comes back to life.                                   *)
LEMMA EvolvesSound ==
  ASSUME NEW p, PositionOK(p), NEW r, Evolves(p, r)
  PROVE  /\ PositionOK(r)
         /\ r.pair = p.pair /\ r.size = p.size
         /\ PositionIsLive(r.status) => PositionIsLive(p.status)
         /\ p.status \in {"closed", "liquidated"} => r = p
<1>1. CASE r = p
  BY <1>1
<1>2. CASE r # p
  <2>1. PICK s \in Statuses, m \in Prices :
          /\ r = [p EXCEPT !.status = s, !.mark = m]
          /\ s = "liquidated" => IsLiquidatable(p, m)
    BY <1>2 DEF Evolves
  <2>2. PositionIsLive(p.status)
    BY <1>2 DEF Evolves
  <2>3. /\ r \in PositionType /\ r.status = s /\ r.mark = m /\ r.pair = p.pair
        /\ r.size = p.size /\ r.coll = p.coll /\ r.lev = p.lev
        /\ r.side = p.side /\ r.entry = p.entry
    BY <2>1 DEF PositionOK, PositionType
  <2>4. IsLiquidatable(r, r.mark) <=> IsLiquidatable(p, m)
    BY <2>3 DEF IsLiquidatable
  <2> QED
    BY <2>1, <2>2, <2>3, <2>4 DEF PositionOK, PositionIsLive
<1> QED
  BY <1>1, <1>2

LEMMA PositionsAreOK == PositionsSound => \A i \in DOMAIN pos : PositionOK(pos[i])
  BY DEF PositionsSound, PositionOK

Live(pair) == {i \in DOMAIN pos : pos[i].pair = pair /\ PositionIsLive(pos[i].status)}
SizeOf == [i \in DOMAIN pos |-> pos[i].size]

LEMMA LiveFinite ==
  ASSUME PositionsSound, NEW pair
  PROVE  /\ IsFiniteSet(Live(pair)) /\ \A i \in Live(pair) : SizeOf[i] \in Nat
         /\ OpenInterest(pair) = Sum(SizeOf, Live(pair)) /\ OpenInterest(pair) \in Nat
<1>1. IsFiniteSet(Live(pair))
  BY PerpAssumption, FS_Subset DEF PositionsSound, Live
<1>2. \A i \in Live(pair) : SizeOf[i] \in Nat
  BY PerpAssumption DEF PositionsSound, PositionType, Live, SizeOf
<1>3. OpenInterest(pair) = Sum(SizeOf, Live(pair))
  BY DEF OpenInterest, SizeOf, Live
<1> QED
  BY <1>1, <1>2, <1>3, SumNat

LEMMA OpenInterestNat == PositionsSound => \A pair \in Pairs : OpenInterest(pair) \in Nat
  BY LiveFinite

(* Marking, flagging and settling never raise the open interest.             *)
LEMMA OpenInterestFalls ==
  ASSUME PositionsSound, Keeps, DOMAIN pos' = DOMAIN pos, NEW pair
  PROVE  OpenInterest(pair)' <= OpenInterest(pair)
<1>1. \A i \in DOMAIN pos :
        /\ pos'[i].pair = pos[i].pair /\ pos'[i].size = pos[i].size
        /\ PositionIsLive(pos'[i].status) => PositionIsLive(pos[i].status)
  BY PositionsAreOK, EvolvesSound DEF Keeps
<1>2. Live(pair)' \subseteq Live(pair) /\ \A i \in Live(pair)' : SizeOf'[i] = SizeOf[i]
  BY <1>1 DEF Live, SizeOf
<1>3. Sum(SizeOf', Live(pair)') <= Sum(SizeOf, Live(pair))
  BY <1>2, LiveFinite, SumSubset
<1>4. OpenInterest(pair)' = Sum(SizeOf', Live(pair)')
  BY DEF OpenInterest, SizeOf, Live
<1> QED
  BY <1>3, <1>4, LiveFinite

(* What a step that only marks, flags and settles keeps. *)
LEMMA KeepsSound ==
  ASSUME PositionsSound, Keeps, DOMAIN pos' = DOMAIN pos, gone' = gone
  PROVE  PositionsSound'
<1>1. \A i \in DOMAIN pos : PositionOK(pos'[i])
  BY PositionsAreOK, EvolvesSound DEF Keeps
<1> QED
  BY <1>1 DEF PositionsSound, PositionOK

LEMMA ClosedKept ==
  ASSUME PositionsSound, Keeps
  PROVE  \A i \in DOMAIN pos : pos[i].status = "closed" => pos'[i] = pos[i]
  BY PositionsAreOK, EvolvesSound DEF Keeps

LEMMA RecordsKept ==
  ASSUME PositionsSound, RecordsSound, Keeps, UNCHANGED <<gone, rows>>, DOMAIN pos' = DOMAIN pos,
         listed' \in BOOLEAN, crowded' \in BOOLEAN,
         \A o \in DOMAIN orders' : orders'[o] \in {"pending", "filled", "cancelled"}
  PROVE  RecordsSound'
  BY ClosedKept DEF RecordsSound, Keeps

(* A request nobody serves in a step stays sound ... *)
LEMMA RequestKept ==
  ASSUME PositionsSound, Keeps, NEW q \in Procs, RequestSound(q), req'[q] = req[q]
  PROVE  RequestSound(q)'
<1>1. RequestSound(q)!1'
  BY DEF RequestSound, Opening, Serving
<1>2. (req[q].pc \in HasPosition => req[q].id \in DOMAIN pos)'
  BY DEF RequestSound, Keeps
<1>3. (Serving(q, "save") => pos[req[q].id].status = "closed")'
  BY ClosedKept DEF RequestSound, Serving, HasPosition
<1> QED
  BY <1>1, <1>2, <1>3 DEF RequestSound

(* ... and so does the one that is served, if it is sound itself.            *)
LEMMA OneRequest ==
  ASSUME IInv, Keeps, NEW q \in Procs, NEW r, req' = [req EXCEPT ![q] = r],
         RequestSound(q)'
  PROVE  DOMAIN req' = Procs /\ \A p \in Procs : RequestSound(p)'
<1>1. \A p \in Procs : p # q => RequestSound(p)'
  BY RequestKept DEF IInv
<1> QED
  BY <1>1 DEF IInv

LEMMA AnswerSound ==
  ASSUME IInv, Keeps, NEW q \in Procs, Answer(q)
  PROVE  /\ DOMAIN req' = Procs /\ \A p \in Procs : RequestSound(p)'
         /\ \A p \in Procs : Opening(p)' => req'[p] = req[p]
<1>1. req'[q] = Idle /\ \A p \in Procs : p # q => req'[p] = req[p]
  BY DEF Answer, IInv
<1>2. RequestSound(q)'
  BY <1>1 DEF RequestSound, Opening, Serving, Idle, HasPosition
<1> QED
  BY <1>1, <1>2, OneRequest DEF Answer, Opening, Idle

(* The cap is kept by every step in which no request comes closer to opening *)
(* a position.                                                               *)
LEMMA CapKept ==
  ASSUME IInv, crowded' = crowded, PositionsSound',
         \A pair \in Pairs : OpenInterest(pair)' <= OpenInterest(pair),
         \A q \in Procs : Opening(q)' => req'[q] = req[q]
  PROVE  CapSound'
<1> SUFFICES ASSUME ~crowded PROVE CapSound'
  BY DEF CapSound
<1>1. \A q \in Procs : Opening(q)' => Opening(q)
  BY DEF Opening
<1>2. \A q, r \in Procs : Opening(q)' /\ Opening(r)' => q = r
  BY <1>1 DEF IInv, CapSound
<1>3. \A pair \in Pairs : OpenInterest(pair) \in Nat /\ OpenInterest(pair)' \in Nat
  <2>1. (PositionsSound => \A pair \in Pairs : OpenInterest(pair) \in Nat)'
    BY OpenInterestNat, PTL
  <2> QED
    BY <2>1, OpenInterestNat DEF IInv
<1>4. ASSUME NEW q \in Procs, Serving(q, "store")'
      PROVE  (OpenInterest(req[q].p.pair) + req[q].p.size <= Cap)'
  <2>1. req'[q] = req[q] /\ Serving(q, "store")
    BY <1>4 DEF Serving, Opening
  <2>2. req[q].p.pair \in Pairs /\ req[q].p.size \in Nat
    BY <2>1, PerpAssumption DEF IInv, RequestSound, PositionType, Opening, Serving
  <2>3. OpenInterest(req[q].p.pair) + req[q].p.size <= Cap
    BY <2>1 DEF IInv, CapSound
  <2>4. PICK pair \in Pairs : pair = req[q].p.pair
    BY <2>2
  <2>5. OpenInterest(req[q].p.pair)' = OpenInterest(pair)' /\ req'[q].p.size = req[q].p.size
    BY <2>1, <2>4 DEF OpenInterest
  <2>6. OpenInterest(pair)' <= OpenInterest(pair) /\ OpenInterest(pair) + req[q].p.size <= Cap
    BY <2>3, <2>4
  <2> QED
    BY <2>2, <2>5, <2>6, <1>3, PerpAssumption
<1>5. \A pair \in Pairs : OpenInterest(pair)' <= Cap
  BY <1>3, PerpAssumption DEF IInv, CapSound
<1> QED
  BY <1>2, <1>4, <1>5 DEF CapSound

----
LEMMA InitIInv == Init => IInv
<1> SUFFICES ASSUME Init PROVE IInv
  OBVIOUS
<1> USE DEF Init
<1>1. DOMAIN pos = {} /\ DOMAIN rows = {} /\ DOMAIN orders = {}
  OBVIOUS
<1>2. PositionsSound /\ RecordsSound
  BY <1>1 DEF PositionsSound, RecordsSound
<1>3. FeedSound
  BY DEF FeedSound, FeedIdle
<1>4. DOMAIN req = Procs /\ \A q \in Procs : RequestSound(q) /\ ~Opening(q) /\ ~Serving(q, "store")
  BY DEF RequestSound, Opening, Serving, Idle, HasPosition
<1>5. ASSUME NEW pair \in Pairs PROVE OpenInterest(pair) <= Cap
  <2>1. Live(pair) = {} /\ OpenInterest(pair) = Sum(SizeOf, Live(pair))
    BY <1>1, <1>2, LiveFinite DEF Live
  <2> QED
    BY <2>1, SumEmpty, PerpAssumption
<1> QED
  BY <1>2, <1>3, <1>4, <1>5 DEF IInv, CapSound

(* Steps that change no position. *)
LEMMA PositionsStay ==
  ASSUME IInv, UNCHANGED <<pos, gone>>
  PROVE  /\ Keeps /\ DOMAIN pos' = DOMAIN pos /\ PositionsSound'
         /\ \A pair \in Pairs : OpenInterest(pair)' <= OpenInterest(pair)
<1>1. Keeps /\ DOMAIN pos' = DOMAIN pos
  BY DEF Keeps, Evolves
<1> QED
  BY <1>1, KeepsSound, OpenInterestFalls DEF IInv

(* Steps that only mark, flag and settle positions. *)
LEMMA PositionsEvolve ==
  ASSUME IInv, AllEvolve, gone' = gone
  PROVE  /\ Keeps /\ DOMAIN pos' = DOMAIN pos /\ PositionsSound'
         /\ \A pair \in Pairs : OpenInterest(pair)' <= OpenInterest(pair)
<1>1. Keeps /\ DOMAIN pos' = DOMAIN pos
  BY DEF Keeps, AllEvolve
<1> QED
  BY <1>1, KeepsSound, OpenInterestFalls DEF IInv

(* Marking evolves. *)
LEMMA RemarkEvolves ==
  ASSUME FeedSound, NEW p, PositionOK(p)
  PROVE  Evolves(p, Remark(p))
<1>1. CASE ~(PositionIsLive(p.status) /\ p.pair \in DOMAIN feed.marks)
  BY <1>1 DEF Remark, Evolves
<1>2. CASE PositionIsLive(p.status) /\ p.pair \in DOMAIN feed.marks
  <2> DEFINE m == feed.marks[p.pair]
             s == IF IsLiquidatable(p, m) THEN "liquidatable"
                  ELSE IF p.status = "liquidatable" THEN "open" ELSE p.status
  <2>1. m \in Prices
    BY <1>2 DEF FeedSound
  <2>2. s \in Statuses /\ s # "liquidated"
    BY <1>2 DEF Statuses, PositionIsLive
  <2>3. Remark(p) = [p EXCEPT !.status = s, !.mark = m]
    BY <1>2 DEF Remark, PositionOK, PositionType
  <2> HIDE DEF m, s
  <2> QED
    BY <1>2, <2>1, <2>2, <2>3 DEF Evolves
<1> QED
  BY <1>1, <1>2

(* Settling evolves. *)
LEMMA SettleEvolves ==
  ASSUME PositionsSound, NEW i \in DOMAIN pos, PositionIsLive(pos[i].status),
         NEW s \in Statuses, NEW m \in Prices, s = "liquidated" => IsLiquidatable(pos[i], m),
         pos' = [pos EXCEPT ![i].status = s, ![i].mark = m]
  PROVE  AllEvolve /\ pos'[i].status = s
<1>1. pos[i] \in PositionType
  BY DEF PositionsSound
<1>2. pos'[i] = [pos[i] EXCEPT !.status = s, !.mark = m]
  BY <1>1
<1>3. DOMAIN pos' = DOMAIN pos /\ \A j \in DOMAIN pos : j # i => pos'[j] = pos[j]
  OBVIOUS
<1>4. pos'[i].status = s
  BY <1>1, <1>2 DEF PositionType
<1> QED
  BY <1>2, <1>3, <1>4 DEF AllEvolve, Evolves

(* A position that is opened adds its size to the open interest of its pair. *)
LEMMA OpeningAdds ==
  ASSUME PositionsSound, NEW i, i \notin DOMAIN pos, NEW p, PositionOK(p), p.status = "open",
         pos' = Insert(pos, i, p), NEW pair
  PROVE  OpenInterest(pair)' = OpenInterest(pair) + IF p.pair = pair THEN p.size ELSE 0
<1>1. /\ DOMAIN pos' = DOMAIN pos \cup {i} /\ pos'[i] = p
      /\ \A j \in DOMAIN pos : pos'[j] = pos[j]
  BY DEF Insert
<1>2. /\ IsFiniteSet(Live(pair)) /\ \A j \in Live(pair) : SizeOf[j] \in Nat
      /\ OpenInterest(pair) = Sum(SizeOf, Live(pair)) /\ OpenInterest(pair) \in Nat
  BY LiveFinite
<1>3. \A j \in Live(pair) : SizeOf'[j] = SizeOf[j] /\ SizeOf'[j] \in Int
  BY <1>1, <1>2 DEF SizeOf, Live
<1>4. Sum(SizeOf', Live(pair)) = Sum(SizeOf, Live(pair))
  BY <1>2, <1>3, SumAgree
<1>5. OpenInterest(pair)' = Sum(SizeOf', Live(pair)')
  BY DEF OpenInterest, SizeOf, Live
<1>6. CASE p.pair # pair
  <2>1. Live(pair)' = Live(pair)
    BY <1>1, <1>6 DEF Live
  <2> QED
    BY <1>2, <1>4, <1>5, <1>6, <2>1
<1>7. CASE p.pair = pair
  <2>1. Live(pair)' = Live(pair) \cup {i} /\ i \notin Live(pair)
    BY <1>1, <1>7 DEF Live, PositionIsLive
  <2>2. SizeOf'[i] = p.size /\ p.size \in Int
    BY <1>1, PerpAssumption DEF SizeOf, PositionOK, PositionType
  <2>3. Sum(SizeOf', Live(pair) \cup {i}) = Sum(SizeOf', Live(pair)) + SizeOf'[i]
    BY <1>2, <1>3, <2>1, <2>2, SumAdd
  <2> QED
    BY <1>2, <1>4, <1>5, <1>7, <2>1, <2>2, <2>3
<1> QED
  BY <1>6, <1>7

LEMMA LiquidateEvolves ==
  ASSUME IInv, NEW q \in Procs, LiquidatePosition(q)
  PROVE  AllEvolve
<1> DEFINE i == req[q].id
           s == IF IsLiquidatable(pos[i], req[q].mark) THEN "liquidated" ELSE "open"
<1>1. i \in DOMAIN pos /\ req[q].mark \in Prices
  BY DEF LiquidatePosition, IInv, RequestSound, Serving, HasPosition
<1>2. pos' = IF pos[i].status # "liquidatable" THEN pos
             ELSE [pos EXCEPT ![i].mark = req[q].mark, ![i].status = s]
  BY DEF LiquidatePosition
<1>3. s \in Statuses /\ (s = "liquidated" => IsLiquidatable(pos[i], req[q].mark))
  BY DEF Statuses
<1> HIDE DEF i, s
<1>4. CASE pos' = pos
  BY <1>4 DEF AllEvolve, Evolves
<1>5. CASE pos' # pos
  <2>1. /\ pos[i].status = "liquidatable"
        /\ pos' = [pos EXCEPT ![i].mark = req[q].mark, ![i].status = s]
    BY <1>2, <1>5
  <2>2. pos' = [pos EXCEPT ![i].status = s, ![i].mark = req[q].mark]
    <3>1. pos[i] \in PositionType
      BY <1>1 DEF IInv, PositionsSound
    <3>2. [pos[i] EXCEPT !.mark = req[q].mark, !.status = s]
            = [pos[i] EXCEPT !.status = s, !.mark = req[q].mark]
      BY <3>1 DEF PositionType
    <3> QED
      BY <2>1, <3>2
  <2>3. PositionIsLive(pos[i].status)
    BY <2>1 DEF PositionIsLive
  <2> QED
    BY <1>1, <1>3, <2>2, <2>3, SettleEvolves DEF IInv
<1> QED
  BY <1>4, <1>5

LEMMA StepIInv == IInv /\ [Next]_vars => IInv'
<1> SUFFICES ASSUME IInv, [Next]_vars PROVE IInv'
  OBVIOUS
<1>1. CASE RefreshMarkets
  <2> USE <1>1 DEF RefreshMarkets
  <2>1. Keeps /\ PositionsSound' /\ RecordsSound'
    BY PositionsStay, RecordsKept DEF IInv, RecordsSound
  <2>2. FeedSound' /\ CapSound'
    BY <2>1, PositionsStay, CapKept DEF IInv, FeedSound
  <2>3. DOMAIN req' = Procs /\ \A q \in Procs : RequestSound(q)'
    BY <2>1, RequestKept DEF IInv
  <2> QED
    BY <2>1, <2>2, <2>3 DEF IInv
<1>2. CASE Crash
  <2> USE <1>2 DEF Crash
  <2>1. DOMAIN pos' = {} /\ DOMAIN orders' = {}
    OBVIOUS
  <2>2. PositionsSound'
    BY <2>1 DEF IInv, PositionsSound
  <2>3. RecordsSound'
    BY <2>1 DEF IInv, RecordsSound
  <2>4. FeedSound'
    BY DEF FeedSound, FeedIdle
  <2>5. /\ DOMAIN req' = Procs
        /\ \A q \in Procs : RequestSound(q)' /\ ~Opening(q)' /\ ~Serving(q, "store")'
    BY DEF RequestSound, Opening, Serving, Idle, HasPosition
  <2>6. ASSUME NEW pair \in Pairs PROVE OpenInterest(pair)' <= Cap
    <3>1. OpenInterest(pair)' = Sum(SizeOf', {})
      BY <2>1 DEF OpenInterest, SizeOf
    <3> QED
      BY <3>1, SumEmpty, PerpAssumption
  <2> QED
    BY <2>2, <2>3, <2>4, <2>5, <2>6 DEF IInv, CapSound
<1>3. CASE UpdateCollect \/ UpdateFetch
  <2> USE <1>3 DEF UpdateCollect, UpdateFetch, Insert
  <2>1. Keeps /\ PositionsSound' /\ RecordsSound'
    BY PositionsStay, RecordsKept DEF IInv, RecordsSound
  <2>2. FeedSound'
    <3>1. CASE UpdateCollect
      <4>1. PICK t : feed' = [pc |-> "fetch", marks |-> <<>>, todo |-> t]
        BY <3>1
      <4> HIDE <1>3 DEF UpdateCollect, UpdateFetch
      <4>2. DOMAIN feed' = {"pc", "todo", "marks"} /\ feed'.marks = <<>>
        BY <4>1
      <4>3. DOMAIN feed'.marks = {}
        BY <4>2
      <4> QED
        BY <4>2, <4>3 DEF FeedSound
    <3>2. CASE UpdateFetch
      <4> DEFINE Rest(pair) == feed.todo \ {pair}
      <4>1. PICK pair \in feed.todo :
              \/ \E mark \in Prices :
                    feed' = [feed EXCEPT !.todo = Rest(pair), !.marks = Insert(feed.marks, pair, mark)]
              \/ feed' = [feed EXCEPT !.todo = Rest(pair)]
        BY <3>2
      <4>2. DOMAIN feed = {"pc", "todo", "marks"} /\ \A m \in DOMAIN feed.marks : feed.marks[m] \in Prices
        BY DEF IInv, FeedSound
      <4> HIDE <1>3 DEF Rest, Insert, UpdateCollect, UpdateFetch
      <4>3. CASE feed' = [feed EXCEPT !.todo = Rest(pair)]
        BY <4>2, <4>3 DEF FeedSound
      <4>4. ASSUME NEW mark \in Prices,
                   feed' = [feed EXCEPT !.todo = Rest(pair), !.marks = Insert(feed.marks, pair, mark)]
            PROVE  FeedSound'
        <5>1. DOMAIN feed' = {"pc", "todo", "marks"} /\ feed'.marks = Insert(feed.marks, pair, mark)
          BY <4>2, <4>4
        <5>2. \A m \in DOMAIN feed'.marks : feed'.marks[m] \in Prices
          BY <4>2, <5>1 DEF Insert
        <5> QED
          BY <5>1, <5>2 DEF FeedSound
      <4> QED
        BY <4>1, <4>3, <4>4
    <3> QED
      BY <3>1, <3>2
  <2>3. CapSound'
    BY <2>1, PositionsStay, CapKept
  <2>4. DOMAIN req' = Procs /\ \A q \in Procs : RequestSound(q)'
    BY <2>1, RequestKept DEF IInv
  <2> QED
    BY <2>1, <2>2, <2>3, <2>4 DEF IInv
<1>4. CASE UpdatePositions
  <2> USE <1>4 DEF UpdatePositions
  <2>1. AllEvolve
    BY PositionsAreOK, RemarkEvolves DEF IInv, AllEvolve
  <2>2. Keeps /\ PositionsSound' /\ RecordsSound'
    BY <2>1, PositionsEvolve, RecordsKept DEF IInv, RecordsSound
  <2>3. FeedSound'
    BY DEF FeedSound, FeedIdle
  <2>4. CapSound'
    BY <2>1, <2>2, PositionsEvolve, CapKept
  <2>5. DOMAIN req' = Procs /\ \A q \in Procs : RequestSound(q)'
    BY <2>2, RequestKept DEF IInv
  <2> QED
    BY <2>2, <2>3, <2>4, <2>5 DEF IInv
<1>5. ASSUME NEW o \in DOMAIN orders, CancelOrder(o) PROVE IInv'
  <2> USE <1>5 DEF CancelOrder
  <2>1. Keeps /\ PositionsSound' /\ RecordsSound'
    BY PositionsStay, RecordsKept DEF IInv, RecordsSound
  <2>2. FeedSound' /\ CapSound'
    BY <2>1, PositionsStay, CapKept DEF IInv, FeedSound
  <2>3. DOMAIN req' = Procs /\ \A q \in Procs : RequestSound(q)'
    BY <2>1, RequestKept DEF IInv
  <2> QED
    BY <2>1, <2>2, <2>3 DEF IInv
<1>6. ASSUME NEW q \in Procs, OpenQuote(q) PROVE IInv'
  <2>1. PICK pair \in Pairs, side \in Sides, size \in Sizes,
             coll \in Collaterals, lev \in Leverages, mark \in Prices : OpenQuote(q)!(pair, side, size, coll, lev, mark)
    BY <1>6 DEF OpenQuote
  <2> DEFINE p == [status |-> "open", pair |-> pair, side |-> side, size |-> size,
                   coll |-> coll, lev |-> lev, entry |-> mark, mark |-> mark]
  <2>2. req' = [req EXCEPT ![q] = [pc |-> "quote", p |-> p]] /\ MarginOK(size, coll, lev)
    BY <2>1
  <2>3. p \in PositionType /\ p.status = "open" /\ p.coll * p.lev >= p.size
    BY <2>2 DEF PositionType, MarginOK, Statuses
  <2>4. Keeps /\ DOMAIN pos' = DOMAIN pos /\ PositionsSound'
    BY <2>1, PositionsStay
  <2>5. crowded' = (crowded \/ \E r \in Procs : Opening(r)) /\ crowded' \in BOOLEAN
    BY <2>1 DEF IInv, RecordsSound
  <2>6. RecordsSound' /\ FeedSound'
    BY <2>1, <2>4, <2>5, RecordsKept DEF IInv, RecordsSound, FeedSound
  <2> HIDE DEF p
  <2>7. RequestSound(q)'
    BY <2>2, <2>3 DEF IInv, RequestSound, Opening, Serving, HasPosition
  <2>8. DOMAIN req' = Procs /\ \A r \in Procs : RequestSound(r)'
    BY <2>2, <2>4, <2>7, OneRequest
  <2>9. ASSUME ~crowded' PROVE CapSound'
    <3>1. \A r \in Procs : ~Opening(r)
      BY <2>5, <2>9
    <3>2. \A r \in Procs : (Opening(r)' => r = q) /\ ~Serving(r, "store")'
      BY <2>2, <3>1 DEF IInv, Opening, Serving
    <3>3. \A b \in Pairs : OpenInterest(b)' <= Cap
      <4>1. \A b \in Pairs : OpenInterest(b)' <= OpenInterest(b) /\ OpenInterest(b) <= Cap
        BY <2>1, <2>5, <2>9, PositionsStay DEF IInv, CapSound
      <4>2. \A b \in Pairs : OpenInterest(b)' = OpenInterest(b)
        BY <2>1 DEF OpenInterest
      <4> QED
        BY <4>1, <4>2
    <3> QED
      BY <3>2, <3>3 DEF CapSound
  <2> QED
    BY <2>4, <2>6, <2>8, <2>9 DEF IInv, CapSound
<1>7. ASSUME NEW q \in Procs, OpenCheckCap(q) PROVE IInv'
  <2> USE <1>7 DEF OpenCheckCap
  <2>1. Keeps /\ DOMAIN pos' = DOMAIN pos /\ PositionsSound'
    BY PositionsStay
  <2>2. RecordsSound' /\ FeedSound'
    BY <2>1, RecordsKept DEF IInv, RecordsSound, FeedSound
  <2>3. CASE Answer(q)
    <3>1. /\ DOMAIN req' = Procs /\ \A r \in Procs : RequestSound(r)'
          /\ \A r \in Procs : Opening(r)' => req'[r] = req[r]
      BY <2>1, <2>3, AnswerSound
    <3>2. CapSound'
      BY <2>1, <3>1, PositionsStay, CapKept
    <3> QED
      BY <2>1, <2>2, <3>1, <3>2 DEF IInv
  <2>4. CASE ~Answer(q)
    <3>1. /\ req' = [req EXCEPT ![q].pc = "store"]
          /\ ~(OpenInterest(req[q].p.pair) + req[q].p.size > Cap)
      BY <2>4
    <3>2. /\ req[q] \in [pc : {"quote", "store"}, p : PositionType] /\ q \in DOMAIN req
          /\ req[q].p.status = "open" /\ req[q].p.coll * req[q].p.lev >= req[q].p.size
      BY DEF IInv, RequestSound, Opening, Serving
    <3>3. req'[q] = [req[q] EXCEPT !.pc = "store"] /\ \A r \in Procs : r # q => req'[r] = req[r]
      BY <3>1, <3>2 DEF IInv
    <3>4. /\ req'[q].pc = "store" /\ req'[q].p = req[q].p
          /\ req'[q] \in [pc : {"quote", "store"}, p : PositionType]
      BY <3>2, <3>3
    <3>5. RequestSound(q)'
      BY <3>2, <3>4 DEF RequestSound, Opening, Serving, HasPosition
    <3>6. DOMAIN req' = Procs /\ \A r \in Procs : RequestSound(r)'
      <4>1. \A r \in Procs : r # q => RequestSound(r)'
        BY <2>1, <3>3, RequestKept DEF IInv
      <4> QED
        BY <3>1, <3>5, <4>1 DEF IInv
    <3>7. OpenInterest(req[q].p.pair)' = OpenInterest(req[q].p.pair)
      BY <3>4 DEF OpenInterest
    <3>8. OpenInterest(req[q].p.pair) + req[q].p.size <= Cap
      <4>1. req[q].p.pair \in Pairs /\ req[q].p.size \in Nat
        BY <3>2, PerpAssumption DEF PositionType
      <4>2. OpenInterest(req[q].p.pair) \in Nat
        BY <4>1, OpenInterestNat DEF IInv
      <4> QED
        BY <3>1, <4>1, <4>2, PerpAssumption
    <3>9. CapSound'
      <4> SUFFICES ASSUME ~crowded PROVE CapSound'
        BY DEF CapSound
      <4>1. \A r \in Procs : Opening(r) => r = q
        BY DEF IInv, CapSound, Opening, Serving
      <4>2. \A r \in Procs : Opening(r)' \/ Serving(r, "store")' => r = q
        BY <3>3, <4>1 DEF Opening, Serving
      <4>3. (OpenInterest(req[q].p.pair) + req[q].p.size)' <= Cap
        BY <3>4, <3>7, <3>8
      <4>4. \A b \in Pairs : OpenInterest(b)' = OpenInterest(b)
        BY DEF OpenInterest
      <4>5. \A b \in Pairs : OpenInterest(b)' <= Cap
        BY <4>4 DEF IInv, CapSound
      <4> QED
        BY <4>2, <4>3, <4>5 DEF CapSound
    <3> QED
      BY <2>1, <2>2, <3>6, <3>9 DEF IInv
  <2> QED
    BY <2>3, <2>4
<1>8. ASSUME NEW q \in Procs, OpenPosition(q) PROVE IInv'
  <2>1. PICK i \in Positions \ (DOMAIN pos \cup gone) :
          /\ Serving(q, "store") /\ pos' = Insert(pos, i, req[q].p)
          /\ req' = [req EXCEPT ![q] = [pc |-> "row", id |-> i]]
          /\ UNCHANGED <<listed, gone, rows, orders, feed, crowded>>
    BY <1>8 DEF OpenPosition
  <2> DEFINE p == req[q].p
  <2>2. PositionOK(p) /\ p.status = "open"
    <3>1. /\ req[q] \in [pc : {"quote", "store"}, p : PositionType]
          /\ p.status = "open" /\ p.coll * p.lev >= p.size
      BY <2>1 DEF IInv, RequestSound, Opening, Serving
    <3> QED
      BY <3>1 DEF PositionOK
  <2> HIDE DEF p
  <2>3. /\ DOMAIN pos' = DOMAIN pos \cup {i} /\ pos'[i] = p
        /\ \A j \in DOMAIN pos : pos'[j] = pos[j]
    BY <2>1 DEF Insert, p
  <2>4. Keeps
    BY <2>3 DEF Keeps, Evolves
  <2>5. PositionsSound'
    <3>1. DOMAIN pos' \subseteq Positions \ gone' /\ gone' \subseteq Positions
      BY <2>1, <2>3 DEF IInv, PositionsSound
    <3>2. \A j \in DOMAIN pos' : PositionOK(pos'[j])
      BY <2>2, <2>3, PositionsAreOK DEF IInv
    <3> QED
      BY <3>1, <3>2 DEF PositionsSound, PositionOK
  <2>6. RecordsSound' /\ FeedSound'
    BY <2>1, <2>3 DEF IInv, RecordsSound, FeedSound
  <2>7. req'[q].pc = "row" /\ req'[q].id = i /\ \A r \in Procs : r # q => req'[r] = req[r]
    BY <2>1 DEF IInv
  <2>8. RequestSound(q)'
    BY <2>3, <2>7 DEF RequestSound, Opening, Serving, HasPosition
  <2>9. DOMAIN req' = Procs /\ \A r \in Procs : RequestSound(r)'
    BY <2>1, <2>4, <2>8, OneRequest
  <2>10. ASSUME ~crowded PROVE CapSound'
    <3>1. \A r \in Procs : ~Opening(r)'
      <4>1. \A r \in Procs : Opening(r) => r = q
        BY <2>1, <2>10 DEF IInv, CapSound, Opening, Serving
      <4> QED
        BY <2>7, <4>1 DEF Opening
    <3>2. ASSUME NEW pair \in Pairs PROVE OpenInterest(pair)' <= Cap
      <4>1. OpenInterest(pair)' = OpenInterest(pair) + IF p.pair = pair THEN p.size ELSE 0
        BY <2>1, <2>2, OpeningAdds DEF IInv, p
      <4>2. OpenInterest(pair) <= Cap
        BY <2>10 DEF IInv, CapSound
      <4>3. OpenInterest(p.pair) + p.size <= Cap
        BY <2>1, <2>10 DEF IInv, CapSound, p
      <4>4. OpenInterest(pair) \in Nat
        BY OpenInterestNat DEF IInv
      <4> QED
        BY <4>1, <4>2, <4>3, <4>4, PerpAssumption
    <3>3. \A r \in Procs : ~Serving(r, "store")'
      BY <3>1 DEF Opening, Serving
    <3> QED
      BY <3>1, <3>2, <3>3 DEF CapSound
  <2> QED
    BY <2>1, <2>5, <2>6, <2>9, <2>10 DEF IInv, CapSound
<1>9. ASSUME NEW q \in Procs, CreateRow(q) \/ SaveRow(q) PROVE IInv'
  <2> USE <1>9 DEF CreateRow, SaveRow
  <2> DEFINE i == req[q].id
  <2>1. Keeps /\ PositionsSound'
    BY PositionsStay
  <2>2. /\ i \in DOMAIN pos /\ pos[i].status \in Statuses /\ pos[i].mark \in Prices
        /\ Serving(q, "save") => pos[i].status = "closed"
    BY DEF IInv, RequestSound, Serving, HasPosition, PositionsSound, PositionType
  <2>3. /\ DOMAIN rows' \subseteq DOMAIN rows \cup {i}
        /\ \A j \in DOMAIN rows' : j # i => rows'[j] = rows[j]
        /\ i \in DOMAIN rows' => rows'[i] = [status |-> pos[i].status, mark |-> pos[i].mark]
    <3>1. CASE CreateRow(q)
      BY <3>1 DEF Insert
    <3>2. CASE SaveRow(q)
      <4>1. rows' = [rows EXCEPT ![i] = [status |-> "closed", mark |-> pos[i].mark]]
            /\ pos[i].status = "closed"
        BY <2>2, <3>2
      <4> HIDE DEF i
      <4> QED
        BY <4>1
    <3> QED
      BY <3>1, <3>2
  <2>4. UNCHANGED <<listed, pos, gone, orders, feed, crowded>> /\ Answer(q)
    OBVIOUS
  <2> HIDE <1>9 DEF i, CreateRow, SaveRow
  <2>5. RecordsSound'
    <3>1. \A j \in DOMAIN rows' : j \in DOMAIN pos' \cup gone'
      BY <2>2, <2>3, <2>4 DEF IInv, RecordsSound
    <3>2. \A j \in DOMAIN rows' : rows'[j] \in [status : Statuses, mark : Prices]
      BY <2>2, <2>3 DEF IInv, RecordsSound
    <3>3. \A j \in DOMAIN rows' : j \in DOMAIN pos' /\ rows'[j].status = "closed" =>
                pos'[j].status = "closed" /\ pos'[j].mark = rows'[j].mark
      BY <2>2, <2>3, <2>4 DEF IInv, RecordsSound
    <3> QED
      BY <2>4, <3>1, <3>2, <3>3 DEF IInv, RecordsSound
  <2>6. /\ DOMAIN req' = Procs /\ \A p \in Procs : RequestSound(p)'
        /\ \A p \in Procs : Opening(p)' => req'[p] = req[p]
    BY <2>1, <2>4, AnswerSound
  <2>7. FeedSound' /\ CapSound'
    BY <2>1, <2>4, <2>6, PositionsStay, CapKept DEF IInv, FeedSound
  <2> QED
    BY <2>1, <2>5, <2>6, <2>7 DEF IInv
<1>10. ASSUME NEW q \in Procs, NEW i \in DOMAIN pos, CloseCheck(q, i) \/ LiquidateCheck(q, i)
       PROVE  IInv'
  <2>1. PICK r : /\ req' = [req EXCEPT ![q] = r] /\ r.pc \in {"closePrice", "liqPrice"} /\ r.id = i
                 /\ UNCHANGED <<listed, pos, gone, rows, orders, feed, crowded>>
    <3>1. CASE CloseCheck(q, i)
      <4>1. PICK wallet \in BOOLEAN :
              /\ req' = [req EXCEPT ![q] = [pc |-> "closePrice", id |-> i, wallet |-> wallet]]
              /\ UNCHANGED <<listed, pos, gone, rows, orders, feed, crowded>>
        BY <3>1 DEF CloseCheck
      <4> WITNESS [pc |-> "closePrice", id |-> i, wallet |-> wallet]
      <4> QED
        BY <4>1
    <3>2. CASE LiquidateCheck(q, i)
      <4> WITNESS [pc |-> "liqPrice", id |-> i]
      <4> QED
        BY <3>2 DEF LiquidateCheck
    <3> QED
      BY <1>10, <3>1, <3>2
  <2>2. Keeps /\ PositionsSound' /\ RecordsSound' /\ FeedSound'
    BY <2>1, PositionsStay, RecordsKept DEF IInv, RecordsSound, FeedSound
  <2>3. req'[q] = r /\ \A p \in Procs : p # q => req'[p] = req[p]
    BY <2>1 DEF IInv
  <2>4. RequestSound(q)'
    BY <2>1, <2>3 DEF RequestSound, Opening, Serving, HasPosition
  <2>5. DOMAIN req' = Procs /\ \A p \in Procs : RequestSound(p)'
    BY <2>1, <2>2, <2>4, OneRequest
  <2>6. CapSound'
    <3>1. \A p \in Procs : Opening(p)' => req'[p] = req[p]
      BY <2>1, <2>3 DEF Opening
    <3> QED
      BY <2>1, <2>2, <3>1, PositionsStay, CapKept
  <2> QED
    BY <2>2, <2>5, <2>6 DEF IInv
<1>11. ASSUME NEW q \in Procs, FetchMark(q) PROVE IInv'
  <2>1. PICK r : /\ req' = [req EXCEPT ![q] = r] /\ r.pc \in {"close", "liquidate"}
                 /\ r.id = req[q].id /\ r.mark \in Prices /\ req[q].pc \in HasPosition
                 /\ UNCHANGED <<listed, pos, gone, rows, orders, feed, crowded>>
    <3>1. PICK mark \in Prices :
            /\ req[q].pc \in {"closePrice", "liqPrice"}
            /\ req' = [req EXCEPT ![q] =
                  [pc |-> IF req[q].pc = "liqPrice" THEN "liquidate" ELSE "close", id |-> req[q].id,
                   mark |-> mark, wallet |-> req[q].pc = "closePrice" /\ req[q].wallet]]
            /\ UNCHANGED <<listed, pos, gone, rows, orders, feed, crowded>>
      BY <1>11 DEF FetchMark, IInv
    <3> WITNESS [pc |-> IF req[q].pc = "liqPrice" THEN "liquidate" ELSE "close", id |-> req[q].id,
                 mark |-> mark, wallet |-> req[q].pc = "closePrice" /\ req[q].wallet]
    <3> QED
      BY <3>1 DEF HasPosition
  <2>2. Keeps /\ PositionsSound' /\ RecordsSound' /\ FeedSound'
    BY <2>1, PositionsStay, RecordsKept DEF IInv, RecordsSound, FeedSound
  <2>3. req'[q] = r /\ \A p \in Procs : p # q => req'[p] = req[p]
    BY <2>1 DEF IInv
  <2>4. RequestSound(q)'
    BY <2>1, <2>3 DEF IInv, RequestSound, Opening, Serving, HasPosition
  <2>5. DOMAIN req' = Procs /\ \A p \in Procs : RequestSound(p)'
    BY <2>1, <2>2, <2>4, OneRequest
  <2>6. CapSound'
    <3>1. \A p \in Procs : Opening(p)' => req'[p] = req[p]
      BY <2>1, <2>3 DEF Opening
    <3> QED
      BY <2>1, <2>2, <3>1, PositionsStay, CapKept
  <2> QED
    BY <2>2, <2>5, <2>6 DEF IInv
<1>12. ASSUME NEW q \in Procs, ClosePosition(q) PROVE IInv'
  <2> DEFINE i == req[q].id
  <2>1. /\ Serving(q, "close") /\ i \in DOMAIN pos /\ req[q].mark \in Prices
        /\ UNCHANGED <<listed, gone, rows, orders, feed, crowded>>
    BY <1>12 DEF ClosePosition, IInv, RequestSound, Serving, HasPosition
  <2>2. \/ Answer(q) /\ UNCHANGED pos
        \/ /\ pos[i].status = "open"
           /\ pos' = [pos EXCEPT ![i].status = "closed", ![i].mark = req[q].mark]
           /\ Answer(q) \/ req' = [req EXCEPT ![q] = [pc |-> "save", id |-> i]]
    BY <1>12 DEF ClosePosition, StillOpen
  <2> HIDE DEF i
  <2>3. CASE Answer(q) /\ UNCHANGED pos
    <3>1. Keeps /\ PositionsSound' /\ RecordsSound' /\ FeedSound'
      BY <2>1, <2>3, PositionsStay, RecordsKept DEF IInv, RecordsSound, FeedSound
    <3>2. /\ DOMAIN req' = Procs /\ \A p \in Procs : RequestSound(p)'
          /\ \A p \in Procs : Opening(p)' => req'[p] = req[p]
      BY <2>3, <3>1, AnswerSound
    <3>3. CapSound'
      BY <2>1, <2>3, <3>1, <3>2, PositionsStay, CapKept
    <3> QED
      BY <3>1, <3>2, <3>3 DEF IInv
  <2>4. CASE /\ pos[i].status = "open"
             /\ pos' = [pos EXCEPT ![i].status = "closed", ![i].mark = req[q].mark]
             /\ Answer(q) \/ req' = [req EXCEPT ![q] = [pc |-> "save", id |-> i]]
    <3>1. AllEvolve /\ pos'[i].status = "closed"
      BY <2>1, <2>4, SettleEvolves DEF IInv, PositionIsLive, Statuses
    <3>2. Keeps /\ DOMAIN pos' = DOMAIN pos /\ PositionsSound'
      BY <2>1, <3>1, PositionsEvolve
    <3>3. RecordsSound' /\ FeedSound'
      BY <2>1, <3>2, RecordsKept DEF IInv, RecordsSound, FeedSound
    <3>4. CASE Answer(q)
      <4>1. /\ DOMAIN req' = Procs /\ \A p \in Procs : RequestSound(p)'
            /\ \A p \in Procs : Opening(p)' => req'[p] = req[p]
        BY <3>2, <3>4, AnswerSound
      <4>2. CapSound'
        BY <2>1, <3>1, <3>2, <4>1, PositionsEvolve, CapKept
      <4> QED
        BY <3>2, <3>3, <4>1, <4>2 DEF IInv
    <3>5. CASE req' = [req EXCEPT ![q] = [pc |-> "save", id |-> i]]
      <4>1. req'[q] = [pc |-> "save", id |-> i] /\ \A p \in Procs : p # q => req'[p] = req[p]
        BY <3>5 DEF IInv
      <4>2. RequestSound(q)'
        BY <2>1, <3>1, <3>2, <4>1 DEF RequestSound, Opening, Serving, HasPosition
      <4>3. DOMAIN req' = Procs /\ \A p \in Procs : RequestSound(p)'
        BY <3>2, <3>5, <4>2, OneRequest
      <4>4. \A p \in Procs : Opening(p)' => req'[p] = req[p]
        BY <4>1 DEF Opening
      <4>5. CapSound'
        BY <2>1, <3>1, <3>2, <4>4, PositionsEvolve, CapKept
      <4> QED
        BY <3>2, <3>3, <4>3, <4>5 DEF IInv
    <3> QED
      BY <2>4, <3>4, <3>5
  <2> QED
    BY <2>2, <2>3, <2>4
<1>13. ASSUME NEW q \in Procs, LiquidatePosition(q) PROVE IInv'
  <2>1. Answer(q) /\ UNCHANGED <<listed, gone, rows, orders, feed, crowded>>
    BY <1>13 DEF LiquidatePosition
  <2>2. AllEvolve
    BY <1>13, LiquidateEvolves
  <2>3. Keeps /\ DOMAIN pos' = DOMAIN pos /\ PositionsSound'
    BY <2>1, <2>2, PositionsEvolve
  <2>4. RecordsSound' /\ FeedSound'
    BY <2>1, <2>3, RecordsKept DEF IInv, RecordsSound, FeedSound
  <2>5. /\ DOMAIN req' = Procs /\ \A p \in Procs : RequestSound(p)'
        /\ \A p \in Procs : Opening(p)' => req'[p] = req[p]
    BY <2>1, <2>3, AnswerSound
  <2>6. CapSound'
    BY <2>1, <2>2, <2>3, <2>5, PositionsEvolve, CapKept
  <2> QED
    BY <2>3, <2>4, <2>5, <2>6 DEF IInv
<1>14. ASSUME NEW q \in Procs, CreateOrder(q) \/ ExecuteOrder(q) \/ Fail(q) PROVE IInv'
  <2>1. /\ UNCHANGED <<listed, pos, gone, rows, feed, crowded>>
        /\ \/ Answer(q) \/ req' = req
           \/ \E o : req' = [req EXCEPT ![q] = [pc |-> "execute", order |-> o]]
    BY <1>14 DEF CreateOrder, ExecuteOrder, Fail
  <2>2. \A o \in DOMAIN orders' : orders'[o] \in {"pending", "filled", "cancelled"}
    <3>1. CASE CreateOrder(q)
      BY <3>1 DEF CreateOrder, Insert, IInv, RecordsSound
    <3>2. CASE ExecuteOrder(q)
      BY <3>2 DEF ExecuteOrder, IInv, RecordsSound
    <3>3. CASE Fail(q)
      BY <3>3 DEF Fail, IInv, RecordsSound
    <3> QED
      BY <1>14, <3>1, <3>2, <3>3
  <2>3. Keeps /\ PositionsSound' /\ RecordsSound' /\ FeedSound'
    BY <2>1, <2>2, PositionsStay, RecordsKept DEF IInv, RecordsSound, FeedSound
  <2>4. /\ DOMAIN req' = Procs /\ \A p \in Procs : RequestSound(p)'
        /\ \A p \in Procs : Opening(p)' => req'[p] = req[p]
    <3>1. CASE Answer(q)
      BY <2>3, <3>1, AnswerSound
    <3>2. CASE req' = req
      BY <2>3, <3>2, RequestKept DEF IInv
    <3>3. ASSUME NEW o, req' = [req EXCEPT ![q] = [pc |-> "execute", order |-> o]]
          PROVE  /\ DOMAIN req' = Procs /\ \A p \in Procs : RequestSound(p)'
                 /\ \A p \in Procs : Opening(p)' => req'[p] = req[p]
      <4>1. req'[q] = [pc |-> "execute", order |-> o] /\ \A p \in Procs : p # q => req'[p] = req[p]
        BY <3>3 DEF IInv
      <4>2. RequestSound(q)'
        BY <4>1 DEF RequestSound, Opening, Serving, HasPosition
      <4>3. DOMAIN req' = Procs /\ \A p \in Procs : RequestSound(p)'
        BY <2>3, <3>3, <4>2, OneRequest
      <4>4. \A p \in Procs : Opening(p)' => req'[p] = req[p]
        BY <4>1 DEF Opening
      <4> QED
        BY <4>3, <4>4
    <3> QED
      BY <2>1, <3>1, <3>2, <3>3
  <2>5. CapSound'
    BY <2>1, <2>3, <2>4, PositionsStay, CapKept
  <2> QED
    BY <2>3, <2>4, <2>5 DEF IInv
<1>15. CASE UNCHANGED vars
  <2> USE <1>15 DEF vars
  <2>1. Keeps /\ PositionsSound' /\ RecordsSound' /\ FeedSound'
    BY PositionsStay, RecordsKept DEF IInv, RecordsSound, FeedSound
  <2>2. DOMAIN req' = Procs /\ \A q \in Procs : RequestSound(q)'
    BY <2>1, RequestKept DEF IInv
  <2>3. CapSound'
    BY <2>1, PositionsStay, CapKept
  <2> QED
    BY <2>1, <2>2, <2>3 DEF IInv
<1> QED
  BY <1>1, <1>2, <1>3, <1>4, <1>5, <1>6, <1>7, <1>8, <1>9, <1>10, <1>11, <1>12, <1>13, <1>14, <1>15
     DEF Next

----
(* The inductive invariant holds in every reachable state.                   *)
THEOREM PerpetualInvariant == Spec => []IInv
  BY InitIInv, StepIInv, PTL DEF Spec

(* The positions, rows and orders the engine keeps are well formed, and a    *)
(* position's collateral covers its margin.                                  *)
THEOREM PerpetualTypes == Spec => []TypeOK
<1>1. IInv => TypeOK
  BY DEF IInv, PositionsSound, RecordsSound, PositionType, TypeOK
<1> QED
  BY <1>1, PerpetualInvariant, PTL

(* Where requests name one of the two sides, LiquidatePosition settles only  *)
(* positions that have lost half of the margin they need, whatever the       *)
(* oracle said while other requests and UpdatePositions ran.                 *)
THEOREM PerpetualLiquidatedAtLoss ==
  ASSUME Sides \subseteq {"long", "short"}
  PROVE  Spec => []LiquidatedAtLoss
<1>1. ASSUME NEW a \in Int, NEW b \in Int, NEW n \in Nat, a <= b
      PROVE  n * a <= n * b
  BY <1>1
<1>2. ASSUME NEW p, PositionOK(p), IsLiquidatable(p, p.mark)
      PROVE  -PnlTimesEntry(p) * 2 * p.lev >= p.size * p.entry
  <2> DEFINE z == p.size
             e == p.entry
             m == p.mark
             l == p.lev
  <2>1. /\ z \in Nat /\ e \in Nat /\ m \in Nat /\ l \in Nat
        /\ p.side = "long" \/ p.side = "short"
    <3>1. z \in Sizes /\ e \in Prices /\ m \in Prices /\ l \in 1..MaxLeverage /\ p.side \in Sides
      BY <1>2 DEF PositionOK, PositionType
    <3> HIDE DEF z, e, m, l
    <3>2. z \in Nat /\ e \in Nat /\ m \in Nat /\ l \in Nat
      BY <3>1, PerpAssumption
    <3> QED
      BY <3>1, <3>2
  <2>2. CASE p.side = "long"
    <3>1. m * 2 * l <= e * (2 * l - 1) /\ PnlTimesEntry(p) = z * (m - e)
      BY <1>2, <2>2 DEF IsLiquidatable, PnlTimesEntry
    <3> HIDE DEF z, e, m, l
    <3>2. e <= (e - m) * (2 * l) /\ (e - m) * (2 * l) \in Int
      BY <2>1, <3>1
    <3>3. z * e <= z * ((e - m) * (2 * l))
      BY <1>1, <2>1, <3>2
    <3>4. z * ((e - m) * (2 * l)) = -(z * (m - e)) * 2 * l
      BY <2>1
    <3> QED
      BY <2>1, <3>1, <3>3, <3>4 DEF z, e, m, l
  <2>3. CASE p.side = "short"
    <3>1. m * 2 * l >= e * (2 * l + 1) /\ PnlTimesEntry(p) = z * (e - m)
      BY <1>2, <2>3 DEF IsLiquidatable, PnlTimesEntry
    <3> HIDE DEF z, e, m, l
    <3>2. e <= (m - e) * (2 * l) /\ (m - e) * (2 * l) \in Int
      BY <2>1, <3>1
    <3>3. z * e <= z * ((m - e) * (2 * l))
      BY <1>1, <2>1, <3>2
    <3>4. z * ((m - e) * (2 * l)) = -(z * (e - m)) * 2 * l
      BY <2>1
    <3> QED
      BY <2>1, <3>1, <3>3, <3>4 DEF z, e, m, l
  <2> QED
    BY <2>1, <2>2, <2>3
<1>3. IInv => LiquidatedAtLoss
  BY <1>2 DEF IInv, PositionsSound, PositionOK, LiquidatedAtLoss
<1> QED
  BY <1>3, PerpetualInvariant, PTL

(* ClosePerpetualPosition closes a row only for a position the engine closed *)
(* and at its price, although it writes the row after the lock is released.  *)
THEOREM PerpetualClosedRowIsTrue == Spec => []ClosedRowIsTrue
<1>1. IInv => ClosedRowIsTrue
  BY DEF IInv, PositionsSound, RecordsSound, PositionType, TypeOK, ClosedRowIsTrue
<1> QED
  BY <1>1, PerpetualInvariant, PTL

(* OpenPosition keeps each spelling's open interest within the cap as long   *)
(* as no two positions were opened at once.                                  *)
THEOREM PerpetualCapHolds == Spec => []CapHoldsWithoutRace
<1>1. IInv => CapHoldsWithoutRace
  BY DEF IInv, CapSound, CapHoldsWithoutRace
<1> QED
  BY <1>1, PerpetualInvariant, PTL

(* Closes, liquidations and price updates that were under way leave a closed *)
(* or liquidated position as it is.                                          *)
THEOREM PerpetualSettledStays == Spec => SettledStays
<1>1. ASSUME IInv, [Next]_vars PROVE Keeps \/ DOMAIN pos' = {}
  <2>1. CASE UNCHANGED pos
    BY <2>1 DEF Keeps, Evolves
  <2>2. CASE Crash
    BY <2>2 DEF Crash
  <2>3. CASE UpdatePositions
    BY <1>1, <2>3, PositionsAreOK, RemarkEvolves DEF IInv, UpdatePositions, Keeps
  <2>4. ASSUME NEW q \in Procs, OpenPosition(q) PROVE Keeps
    <3>1. PICK i : i \notin DOMAIN pos /\ pos' = Insert(pos, i, req[q].p)
      BY <2>4 DEF OpenPosition
    <3> QED
      BY <3>1 DEF Insert, Keeps, Evolves
  <2>5. ASSUME NEW q \in Procs, ClosePosition(q), ~UNCHANGED pos PROVE Keeps
    <3>1. /\ req[q].id \in DOMAIN pos /\ req[q].mark \in Prices /\ pos[req[q].id].status = "open"
          /\ pos' = [pos EXCEPT ![req[q].id].status = "closed", ![req[q].id].mark = req[q].mark]
      BY <1>1, <2>5 DEF ClosePosition, StillOpen, IInv, RequestSound, Serving, HasPosition
    <3> QED
      BY <1>1, <3>1, SettleEvolves DEF IInv, PositionIsLive, Statuses, AllEvolve, Keeps
  <2>6. ASSUME NEW q \in Procs, LiquidatePosition(q) PROVE Keeps
    BY <1>1, <2>6, LiquidateEvolves DEF AllEvolve, Keeps
  <2>7. \/ UNCHANGED pos \/ Crash \/ UpdatePositions
        \/ \E q \in Procs : OpenPosition(q) \/ ClosePosition(q) \/ LiquidatePosition(q)
    <3>1. UNCHANGED vars \/ RefreshMarkets \/ UpdateCollect \/ UpdateFetch => UNCHANGED pos
      BY DEF vars, RefreshMarkets, UpdateCollect, UpdateFetch
    <3>2. \A o : CancelOrder(o) => UNCHANGED pos
      BY DEF CancelOrder
    <3>3. \A q : OpenQuote(q) \/ OpenCheckCap(q) \/ CreateRow(q) \/ FetchMark(q) => UNCHANGED pos
      BY DEF OpenQuote, OpenCheckCap, CreateRow, FetchMark
    <3>4. \A q, i : CloseCheck(q, i) \/ LiquidateCheck(q, i) => UNCHANGED pos
      BY DEF CloseCheck, LiquidateCheck
    <3>5. \A q : SaveRow(q) \/ CreateOrder(q) \/ ExecuteOrder(q) \/ Fail(q) => UNCHANGED pos
      BY DEF SaveRow, CreateOrder, ExecuteOrder, Fail
    <3> QED
      BY <1>1, <3>1, <3>2, <3>3, <3>4, <3>5 DEF Next
  <2> QED
    BY <2>1, <2>2, <2>3, <2>4, <2>5, <2>6, <2>7
<1>2. ASSUME IInv, [Next]_vars
      PROVE  [\A i \in DOMAIN pos \cap DOMAIN pos' :
                 pos[i].status \in {"closed", "liquidated"} => pos'[i] = pos[i]]_vars
  <2>1. CASE DOMAIN pos' = {}
    BY <2>1
  <2>2. CASE Keeps
    BY <1>2, <2>2, PositionsAreOK, EvolvesSound DEF IInv, Keeps
  <2> QED
    BY <1>1, <1>2, <2>1, <2>2
<1> QED
  BY <1>2, PerpetualInvariant, PTL DEF Spec, SettledStays
====
