---- MODULE WithdrawalProofs ----
(***************************************************************************)
(* Proofs about Withdrawals for every finite set of requests, every set of *)
(* users and amounts and every opening balance.                            *)
(***************************************************************************)
EXTENDS Withdrawals, SumTheorems

(* A request that has not broadcast. *)
Before == {"idle", "key", "nonce", "send", "refused"}

InPool(r) == \E n \in Nonces : pool[n] = r

(* The nonces mined were all taken, and no request holds two. *)
PoolSound ==
    /\ mined \in Nonces /\ \A n \in Nonces : n < mined => pool[n] # Nobody
    /\ \A m, n \in Nonces : pool[m] = pool[n] /\ pool[n] # Nobody => m = n
    /\ \A r \in Requests : InPool(r) => pc[r] \notin Before

(* Who is charged, at each point of a request. *)
ChargedAt(r) ==
    /\ pc[r] \in Active \cup {"done", "crashed"} => r \in charged
    /\ pc[r] \in {"idle", "refused"} => r \notin charged

(* What reached the chain for r is still charged, or its answer was lost. *)
DeliveryCharged(r) ==
    /\ delivered[r] <= amount[r]
    /\ InPool(r) \/ delivered[r] # 0 =>
          \/ r \in unseen
          \/ r \in charged /\ pc[r] \in {"sent", "done", "crashed"}
    /\ pc[r] \in Before => delivered[r] = 0

Taken(a) == Sum(amount, charged \cap Of(a))

IInv ==
    /\ TypeOK /\ PoolSound
    /\ \A r \in Requests : ChargedAt(r) /\ DeliveryCharged(r)
    /\ \A a \in Accounts : bal[a] + Taken(a) = Opening

----
LEMMA FiniteParts == \A S \in SUBSET Requests : IsFiniteSet(S)
  BY WithdrawAssumption, FS_Subset

(* There is a nonce the pool has free: it cannot hold more than one          *)
(* transaction of each request, and there are more nonces than requests.    *)
LEMMA FreeNonce ==
  ASSUME TypeOK, PoolSound
  PROVE  \E n \in Nonces : n >= mined /\ pool[n] = Nobody
<1>1. Cardinality(Requests) \in Nat
  BY WithdrawAssumption, FS_CardinalityType
<1>2. IsFiniteSet(Nonces) /\ Cardinality(Nonces) = Cardinality(Requests) + 1
  BY <1>1, FS_Interval DEF Nonces
<1>3. ASSUME \A n \in Nonces : pool[n] # Nobody PROVE FALSE
  <2>1. pool \in [Nonces -> Requests]
    BY <1>3 DEF TypeOK
  <2>2. \E m, n \in Nonces : m # n /\ pool[m] = pool[n]
    BY <1>1, <1>2, <2>1, WithdrawAssumption, FS_PigeonHole
  <2> QED
    BY <1>3, <2>2 DEF PoolSound
<1>4. \A n \in Nonces : n >= mined \/ n < mined
  BY DEF TypeOK, Nonces
<1> QED
  BY <1>3, <1>4 DEF PoolSound

LEMMA PendingNonceFree ==
  ASSUME TypeOK, PoolSound
  PROVE  PendingNonce \in Nonces
<1> DEFINE F == {n \in Nonces : n >= mined /\ pool[n] = Nobody}
<1>1. F # {} /\ F \subseteq Nat
  BY FreeNonce DEF Nonces
<1>2. Min(F) \in F
  <2> HIDE DEF F
  <2> QED
    BY <1>1, MinOfNaturals
<1> QED
  BY <1>2 DEF PendingNonce

LEMMA InitIInv == Init => IInv
<1> SUFFICES ASSUME Init PROVE IInv
  OBVIOUS
<1> USE WithdrawAssumption DEF Init
<1>1. Cardinality(Requests) \in Nat
  BY FS_CardinalityType
<1>2. TypeOK
  BY <1>1 DEF TypeOK, Nonces, Ended
<1>3. PoolSound
  BY <1>1 DEF PoolSound, InPool, Nonces, Before
<1>4. \A r \in Requests : ChargedAt(r) /\ DeliveryCharged(r)
  BY DEF ChargedAt, DeliveryCharged, InPool, Active, Before
<1>5. ASSUME NEW a \in Accounts PROVE bal[a] + Taken(a) = Opening
  <2>1. charged \cap Of(a) = {} /\ Sum(amount, {}) = 0
    BY SumEmpty
  <2> QED
    BY <2>1 DEF Taken
<1> QED
  BY <1>2, <1>3, <1>4, <1>5 DEF IInv

(* Requests charged to one account with one amount add up to the same. *)
LEMMA TakenSame ==
  ASSUME TypeOK, NEW a \in Accounts,
         charged' \cap Of(a)' = charged \cap Of(a),
         \A r \in charged \cap Of(a) : amount'[r] = amount[r]
  PROVE  Taken(a)' = Taken(a)
<1>1. IsFiniteSet(charged \cap Of(a))
  BY FiniteParts DEF TypeOK
<1>2. Sum(amount', charged \cap Of(a)) = Sum(amount, charged \cap Of(a))
  BY <1>1, SumAgree
<1> QED
  BY <1>2 DEF Taken

(* Steps that leave the ledger and the request's account and amount alone. *)
LEMMA BooksUntouched ==
  ASSUME IInv, UNCHANGED <<bal, charged, acct, amount>>
  PROVE  \A a \in Accounts : bal'[a] + Taken(a)' = Opening
  BY DEF IInv, Taken, Of

(* The node takes r's transaction. *)
LEMMA AcceptSound ==
  ASSUME IInv, NEW r \in Requests, pc[r] = "send", Accept(r),
         NEW l, pc' = [pc EXCEPT ![r] = l], l \in {"sent", "refund"},
         UNCHANGED <<amount, charged>>, unseen \subseteq unseen', l = "sent" \/ r \in unseen'
  PROVE  /\ pool' \in [Nonces -> Requests \cup {Nobody}]
         /\ outcome' \in [Requests -> {"none", "paid", "reverted", "dropped"}]
         /\ PoolSound'
         /\ \A q \in Requests : ChargedAt(q)' /\ DeliveryCharged(q)'
<1> USE WithdrawAssumption DEF IInv, Accept
<1>1. /\ nonce[r] \in Nonces /\ pool \in [Nonces -> Requests \cup {Nobody}]
      /\ pool' = [pool EXCEPT ![nonce[r]] = r] /\ nonce[r] >= mined
      /\ mined' = mined /\ delivered' = delivered /\ \A n \in Nonces : pool[n] # r
  BY DEF TypeOK, PoolSound, InPool, Before
<1>2. pool' \in [Nonces -> Requests \cup {Nobody}]
  BY <1>1
<1>3. outcome' \in [Requests -> {"none", "paid", "reverted", "dropped"}]
  BY <1>1 DEF TypeOK
<1>4. \A q \in Requests : q # r => pc'[q] = pc[q] /\ (InPool(q)' => InPool(q))
  BY <1>1 DEF TypeOK, InPool
<1>5. pc'[r] = l
  BY DEF TypeOK
<1>6. PoolSound'
  <2>1. \A n \in Nonces : n < mined' => pool'[n] # Nobody
    BY <1>1 DEF PoolSound
  <2>2. \A m, n \in Nonces : pool'[m] = pool'[n] /\ pool'[n] # Nobody => m = n
    BY <1>1 DEF PoolSound
  <2>3. \A q \in Requests : InPool(q)' => pc'[q] \notin Before
    BY <1>4, <1>5 DEF PoolSound, Before
  <2> QED
    BY <1>1, <2>1, <2>2, <2>3 DEF PoolSound
<1>7. ASSUME NEW q \in Requests PROVE ChargedAt(q)' /\ DeliveryCharged(q)'
  <2>1. CASE q = r
    <3>1. r \in charged /\ delivered[r] = 0
      BY DEF ChargedAt, DeliveryCharged, Active, Before
    <3> QED
      BY <1>1, <1>5, <2>1, <3>1 DEF ChargedAt, DeliveryCharged, Active, Before
  <2>2. CASE q # r
    <3>1. ChargedAt(q)'
      BY <1>4, <2>2 DEF ChargedAt
    <3>2. DeliveryCharged(q)'
      BY <1>1, <1>4, <2>2 DEF DeliveryCharged
    <3> QED
      BY <3>1, <3>2
  <2> QED
    BY <2>1, <2>2
<1> QED
  BY <1>2, <1>3, <1>6, <1>7

LEMMA StepIInv == IInv /\ [Next]_vars => IInv'
<1> SUFFICES ASSUME IInv, [Next]_vars PROVE IInv'
  OBVIOUS
<1> USE WithdrawAssumption
<1>1. ASSUME NEW r \in Requests, Debit(r) PROVE IInv'
  <2>1. PICK a \in Accounts, x \in Amounts :
          /\ pc[r] = "idle"
          /\ acct' = [acct EXCEPT ![r] = a] /\ amount' = [amount EXCEPT ![r] = x]
          /\ IF bal[a] < x
             THEN Goto(r, "refused") /\ UNCHANGED ledger
             ELSE /\ bal' = [bal EXCEPT ![a] = @ - x]
                  /\ charged' = charged \cup {r} /\ Goto(r, "key")
          /\ UNCHANGED <<nonce, unseen, node>>
    BY <1>1 DEF Debit
  <2> USE <2>1 DEF Goto, ledger, node
  <2>2. /\ r \notin charged /\ ~InPool(r) /\ delivered[r] = 0 /\ x \in Nat
        /\ TypeOK /\ \A n \in Nonces : pool[n] # r
    BY DEF IInv, PoolSound, ChargedAt, DeliveryCharged, Before, InPool
  <2>3. TypeOK'
    BY <2>2 DEF TypeOK, Active, Ended
  <2>4. PoolSound'
    BY <2>2 DEF IInv, TypeOK, PoolSound, InPool, Before
  <2>5. ASSUME NEW q \in Requests PROVE ChargedAt(q)' /\ DeliveryCharged(q)'
    <3>1. CASE q = r
      BY <2>2, <3>1 DEF TypeOK, ChargedAt, DeliveryCharged, InPool, Active, Before
    <3>2. CASE q # r
      <4>1. pc'[q] = pc[q] /\ amount'[q] = amount[q] /\ (q \in charged' <=> q \in charged)
        BY <2>2, <3>2 DEF TypeOK
      <4> QED
        BY <4>1 DEF IInv, ChargedAt, DeliveryCharged, InPool
    <3> QED
      BY <3>1, <3>2
  <2>6. ASSUME NEW b \in Accounts PROVE bal'[b] + Taken(b)' = Opening
    <3>1. \A q \in charged \cap Of(b) : q # r /\ amount'[q] = amount[q] /\ acct'[q] = acct[q]
      BY <2>2 DEF TypeOK
    <3>2. charged \cap Of(b)' = charged \cap Of(b)
      BY <2>2 DEF TypeOK, Of
    <3>3. CASE bal'[b] = bal[b] /\ charged' \cap Of(b)' = charged \cap Of(b)
      BY <2>2, <3>1, <3>3, TakenSame DEF IInv
    <3>4. CASE bal[a] >= x /\ b = a
      <4>1. r \in Of(a)' /\ charged' \cap Of(a)' = (charged \cap Of(a)) \cup {r}
        BY <2>2, <3>2, <3>4 DEF TypeOK, Of
      <4>2. IsFiniteSet(charged \cap Of(a)) /\ r \notin charged \cap Of(a)
        BY <2>2, FiniteParts DEF TypeOK
      <4>3. \A q \in (charged \cap Of(a)) \cup {r} : amount'[q] \in Int
        BY <2>3, <2>2 DEF TypeOK
      <4>4. /\ Sum(amount', (charged \cap Of(a)) \cup {r}) = Sum(amount', charged \cap Of(a)) + amount'[r]
            /\ Sum(amount', charged \cap Of(a)) \in Int
        BY <4>2, <4>3, SumAdd
      <4>5. Sum(amount', charged \cap Of(a)) = Taken(a)
        <5>1. \A q \in charged \cap Of(a) : amount'[q] = amount[q]
          BY <3>1, <3>4
        <5> HIDE <2>1
        <5>2. Sum(amount', charged \cap Of(a)) = Sum(amount, charged \cap Of(a))
          BY <4>2, <5>1, SumAgree
        <5> QED
          BY <5>2 DEF Taken
      <4>6. amount'[r] = x /\ bal'[a] = bal[a] - x /\ bal[a] \in Nat
        BY <2>2, <3>4 DEF TypeOK
      <4>7. bal[a] + Taken(a) = Opening
        BY DEF IInv
      <4>8. Taken(a)' = Sum(amount', (charged \cap Of(a)) \cup {r})
        BY <4>1 DEF Taken
      <4>9. Taken(a)' = Taken(a) + x /\ Taken(a) \in Int
        BY <4>4, <4>5, <4>6, <4>8
      <4> HIDE <2>1
      <4> QED
        BY <2>2, <3>4, <4>6, <4>7, <4>9
    <3>5. bal[a] \in Nat
      BY <2>2 DEF TypeOK
    <3>6. CASE bal[a] < x
      BY <2>2, <3>2, <3>3, <3>6 DEF TypeOK
    <3>7. CASE bal[a] >= x /\ b # a
      <4>1. r \notin Of(b)' /\ bal'[b] = bal[b]
        BY <2>2, <3>7 DEF TypeOK, Of
      <4> QED
        BY <3>2, <3>3, <3>7, <3>5, <2>2, <4>1
    <3> QED
      BY <2>2, <3>4, <3>5, <3>6, <3>7
  <2> QED
    BY <2>3, <2>4, <2>5, <2>6 DEF IInv
<1>2. ASSUME NEW r \in Requests, LoadKey(r) \/ ReadNonce(r) \/ Fail(r) \/ RefundFails(r) \/ Record(r)
      PROVE  IInv'
  <2> USE <1>2 DEF LoadKey, ReadNonce, Fail, RefundFails, Record, Goto, ledger, node
  <2>1. TypeOK /\ PendingNonce \in Nonces
    BY PendingNonceFree DEF IInv
  <2>2. TypeOK'
    BY <2>1 DEF TypeOK, Active, Ended
  <2>3. PoolSound'
    BY DEF IInv, TypeOK, PoolSound, InPool, Before
  <2>4. ASSUME NEW q \in Requests PROVE ChargedAt(q)' /\ DeliveryCharged(q)'
    BY DEF IInv, TypeOK, ChargedAt, DeliveryCharged, PoolSound, InPool, Active, Before
  <2>5. \A a \in Accounts : bal'[a] + Taken(a)' = Opening
    BY BooksUntouched
  <2> QED
    BY <2>2, <2>3, <2>4, <2>5 DEF IInv
<1>3. ASSUME NEW r \in Requests, Broadcast(r) \/ BroadcastUnseen(r) PROVE IInv'
  <2> USE <1>3 DEF Broadcast, BroadcastUnseen, Goto, ledger
  <2>1. /\ pool' \in [Nonces -> Requests \cup {Nobody}]
        /\ outcome' \in [Requests -> {"none", "paid", "reverted", "dropped"}]
        /\ PoolSound'
        /\ \A q \in Requests : ChargedAt(q)' /\ DeliveryCharged(q)'
    BY AcceptSound
  <2>2. TypeOK'
    BY <2>1 DEF IInv, TypeOK, Accept, Active, Ended
  <2>3. \A a \in Accounts : bal'[a] + Taken(a)' = Opening
    BY BooksUntouched
  <2> QED
    BY <2>1, <2>2, <2>3 DEF IInv
<1>4. ASSUME NEW r \in Requests, Refund(r) PROVE IInv'
  <2> USE <1>4 DEF Refund, Goto, node
  <2>1. /\ TypeOK /\ r \in charged /\ r \in Of(acct[r]) /\ acct[r] \in Accounts
        /\ amount[r] \in Nat /\ bal[acct[r]] \in Nat
    BY DEF IInv, TypeOK, ChargedAt, Active, Of
  <2>2. TypeOK'
    BY <2>1 DEF TypeOK, Ended
  <2>3. PoolSound'
    BY DEF IInv, TypeOK, PoolSound, InPool, Before
  <2>4. ASSUME NEW q \in Requests PROVE ChargedAt(q)' /\ DeliveryCharged(q)'
    BY DEF IInv, TypeOK, ChargedAt, DeliveryCharged, InPool, Active, Before
  <2>5. ASSUME NEW a \in Accounts PROVE bal'[a] + Taken(a)' = Opening
    <3>1. CASE a = acct[r]
      <4>1. /\ IsFiniteSet(charged \cap Of(a)) /\ r \in charged \cap Of(a)
            /\ \A q \in charged \cap Of(a) : amount[q] \in Int
            /\ (charged \cap Of(a)) \ {r} = charged' \cap Of(a)'
        BY <2>1, <3>1, FiniteParts DEF TypeOK, Of
      <4>2. Sum(amount, charged \cap Of(a)) = amount[r] + Sum(amount, (charged \cap Of(a)) \ {r})
        BY <4>1, SumRemove
      <4>3. Taken(a) = amount[r] + Taken(a)' /\ Taken(a)' \in Int
        <5>1. IsFiniteSet(charged' \cap Of(a)') /\ \A q \in charged' \cap Of(a)' : amount[q] \in Int
          BY <4>1, FS_Subset
        <5>2. Sum(amount, charged' \cap Of(a)') \in Int
          BY <5>1, SumInt
        <5> QED
          BY <4>1, <4>2, <5>2 DEF Taken
      <4>4. bal[a] + Taken(a) = Opening /\ bal'[a] = bal[a] + amount[r]
        BY <2>1, <3>1 DEF IInv, TypeOK
      <4> QED
        BY <2>1, <3>1, <4>3, <4>4
    <3>2. CASE a # acct[r]
      <4>1. bal'[a] = bal[a] /\ charged' \cap Of(a)' = charged \cap Of(a)
        BY <2>1, <3>2 DEF TypeOK, Of
      <4> QED
        BY <2>1, <4>1, TakenSame DEF IInv
    <3> QED
      BY <3>1, <3>2
  <2> QED
    BY <2>2, <2>3, <2>4, <2>5 DEF IInv
<1>5. CASE Crash
  <2> USE <1>5 DEF Crash, ledger, node
  <2>1. TypeOK'
    BY DEF IInv, TypeOK, Ended
  <2>2. PoolSound'
    BY DEF IInv, TypeOK, PoolSound, InPool, Before
  <2>3. ASSUME NEW q \in Requests PROVE ChargedAt(q)' /\ DeliveryCharged(q)'
    BY DEF IInv, TypeOK, ChargedAt, DeliveryCharged, InPool, PoolSound, Active, Before
  <2>4. \A a \in Accounts : bal'[a] + Taken(a)' = Opening
    BY BooksUntouched
  <2> QED
    BY <2>1, <2>2, <2>3, <2>4 DEF IInv
<1>6. CASE MineOk \/ MineReverted
  <2> USE <1>6 DEF MineOk, MineReverted, ledger, request
  <2> DEFINE r == pool[mined]
  <2>1. /\ TypeOK /\ PoolSound /\ mined \in Nonces /\ r \in Requests /\ InPool(r)
        /\ mined' = mined + 1 /\ pool' = pool /\ delivered[r] \in Nat /\ amount[r] \in Nat
        /\ delivered' = delivered \/ delivered' = [delivered EXCEPT ![r] = Moves(r)]
    BY DEF IInv, TypeOK, InPool
  <2>2. Moves(r) \in Nat /\ Moves(r) <= amount[r]
    BY <2>1 DEF Moves
  <2>3. TypeOK'
    BY <2>1, <2>2 DEF TypeOK
  <2>4. mined + 1 \in Nonces
    <3>1. PICK n \in Nonces : n >= mined /\ pool[n] = Nobody
      BY <2>1, FreeNonce
    <3>2. n # mined /\ mined \in Int /\ Cardinality(Requests) \in Nat
      BY <2>1, <3>1, FS_CardinalityType DEF Nonces
    <3> QED
      BY <3>1, <3>2, <2>1 DEF Nonces
  <2>5. PoolSound'
    <3>1. \A n \in Nonces : n < mined + 1 => n < mined \/ n = mined
      BY <2>1 DEF Nonces
    <3> QED
      BY <2>1, <2>4, <3>1 DEF PoolSound, InPool
  <2>6. ASSUME NEW q \in Requests PROVE ChargedAt(q)' /\ DeliveryCharged(q)'
    <3>1. ChargedAt(q)'
      BY DEF IInv, ChargedAt
    <3>2. CASE q = r
      <4>1. delivered'[r] <= amount[r] /\ pc[r] \notin Before
        BY <2>1, <2>2 DEF IInv, TypeOK, DeliveryCharged, PoolSound
      <4> QED
        BY <2>1, <3>1, <3>2, <4>1 DEF IInv, DeliveryCharged, InPool
    <3>3. CASE q # r
      <4>1. delivered'[q] = delivered[q]
        BY <2>1, <3>3 DEF TypeOK
      <4> QED
        BY <2>1, <3>1, <4>1 DEF IInv, DeliveryCharged, InPool
    <3> QED
      BY <3>2, <3>3
  <2>7. \A a \in Accounts : bal'[a] + Taken(a)' = Opening
    BY BooksUntouched
  <2> QED
    BY <2>3, <2>5, <2>6, <2>7 DEF IInv
<1>7. CASE UNCHANGED vars
  BY <1>7 DEF vars, ledger, request, node, IInv, TypeOK, PoolSound, InPool, ChargedAt, DeliveryCharged,
     Taken, Of
<1> QED
  BY <1>1, <1>2, <1>3, <1>4, <1>5, <1>6, <1>7 DEF Next, Handler, Quiet

----
(* The inductive invariant holds in every reachable state.                   *)
THEOREM WithdrawalsInvariant == Spec => []IInv
  BY InitIInv, StepIInv, PTL DEF Spec

(* Through failures, reversals, crashes and interleaved requests of          *)
(* Withdraw, what is missing from an account is exactly what its unreversed  *)
(* requests charged.                                                         *)
THEOREM WithdrawalsBooksBalance == Spec => []BooksBalance
<1>1. IInv => BooksBalance
  BY DEF IInv, BooksBalance, Taken
<1> QED
  BY <1>1, WithdrawalsInvariant, PTL

(* The platform never pays out for an account more than the ledger took from *)
(* it, unless a broadcast's answer was lost, even when requests of           *)
(* SendTransaction share a nonce.                                            *)
THEOREM WithdrawalsNoOverpay == Spec => []NoOverpay
<1>1. ASSUME IInv PROVE NoOverpay
  <2> SUFFICES ASSUME NEW a \in Accounts, Of(a) \cap unseen = {}
               PROVE  bal[a] + Sum(delivered, Of(a)) <= Opening
    BY DEF NoOverpay
  <2> DEFINE paid == charged \cap Of(a)
  <2>1. /\ IsFiniteSet(Of(a)) /\ IsFiniteSet(paid) /\ paid \subseteq Of(a)
        /\ \A r \in Of(a) : amount[r] \in Int /\ delivered[r] \in Int
    BY <1>1, FiniteParts DEF IInv, TypeOK, Of
  <2>2. \A r \in Of(a) : delivered[r] # 0 => r \in paid
    BY <1>1 DEF IInv, DeliveryCharged, Of
  <2>3. Sum(delivered, Of(a)) = Sum(delivered, paid)
    BY <2>1, <2>2, SumZeroOutside
  <2>4. Sum(delivered, paid) <= Sum(amount, paid)
    <3>1. \A r \in paid : delivered[r] \in Int /\ amount[r] \in Int /\ delivered[r] <= amount[r]
      BY <1>1, <2>1 DEF IInv, DeliveryCharged, Of
    <3> QED
      BY <2>1, <3>1, SumMonotone
  <2>5. bal[a] + Sum(amount, paid) = Opening /\ bal[a] \in Int
    BY <1>1 DEF IInv, Taken, TypeOK
  <2>6. Sum(delivered, paid) \in Int /\ Sum(amount, paid) \in Int
    <3>1. \A r \in paid : amount[r] \in Int /\ delivered[r] \in Int
      BY <2>1
    <3> QED
      BY <2>1, <3>1, SumInt
  <2> QED
    BY <2>3, <2>4, <2>5, <2>6
<1> QED
  BY <1>1, WithdrawalsInvariant, PTL
====
