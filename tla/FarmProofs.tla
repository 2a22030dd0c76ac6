---- MODULE FarmProofs ----
(***************************************************************************)
(* Proofs about Farm for every finite set of users, every rate, scale,     *)
(* window and funding.                                                     *)
(***************************************************************************)
EXTENDS Farm, SumTheorems

RequestSound(p) ==
    /\ req[p].pc \in {"stake", "unstake", "claim"} =>
          req[p].user \in Users /\ req[p].amount \in Amounts /\ req[p].at \in Nat
    /\ Serving(p, "update") =>
          /\ req[p].status \in Statuses
          /\ req[p].start \in Times \cup {-1} /\ req[p].end \in Times \cup {-1}

(* The stream: what was emitted was funded, and took its time.               *)
Emitted ==
    /\ rew.dist <= rew.total /\ rew.total = Budget - funds
    /\ rew.first <= rew.last
    /\ rew.dist <= Rate * (rew.last - rew.first)

Staked ==
    /\ farm.total = Sum(stake, Users)
    /\ \A u \in Users : bal[u] + stake[u] = Opening
    /\ \A u \in Users \ DOMAIN ck : stake[u] = 0
    /\ \A d \in dust : d \in (DOMAIN ck) \X (0..rew.acc)

(* In units of 1/Scale: what u was paid, can claim and will accrue from the  *)
(* emission up to a, and what a later rounding at a may add to it.           *)
Slack(u, x, a, d) == IF <<u, a>> \in d THEN Scale - ((x * a) % Scale) ELSE 0

DueTo(u, c, x, a, d) == Scale * (c.accrued + c.claimed - c.debt) + x * a + Slack(u, x, a, d)

Due(c, s, a, d) == [u \in Users |-> IF u \in DOMAIN c THEN DueTo(u, c[u], s[u], a, d) ELSE 0]

(* What is due was emitted, up to one unit for each rounding.                *)
Covered(c, s, r, d) ==
    /\ \A u \in DOMAIN c : Scale * c[u].debt <= s[u] * r.acc
    /\ Sum(Due(c, s, r.acc, d), Users) <= Scale * (r.dist + Cardinality(d))

Unboosted == boosts = 0 =>
    /\ \A u \in Users : power[u] = 0
    /\ Covered(ck, stake, rew, dust)

IInv ==
    /\ TypeOK /\ DOMAIN req = Procs /\ \A p \in Procs : RequestSound(p)
    /\ Emitted /\ Staked /\ Unboosted

----
(* Division by a positive number. *)
LEMMA Division ==
  ASSUME NEW n \in Nat, NEW s \in Nat \ {0}
  PROVE  /\ n \div s \in Nat /\ n % s \in Nat /\ n % s < s
         /\ n = s * (n \div s) + (n % s)
         /\ \A d \in Int : s * d <= n => d <= n \div s
  OBVIOUS

LEMMA Products == \A a, b \in Nat : a * b \in Nat
  OBVIOUS

LEMMA ProductMonotone ==
  ASSUME NEW a \in Nat, NEW b \in Int, NEW c \in Int, b <= c
  PROVE  a * b <= a * c
  OBVIOUS

(* The boost is at least 1x, and 1x without voting power.                    *)
LEMMA BoostNat ==
  ASSUME TypeOK, NEW u \in Users, NEW x \in Nat
  PROVE  BoostBps(u, x) \in Nat /\ (power[u] = 0 => BoostBps(u, x) = 10000)
<1>1. power[u] \in Nat
  BY DEF TypeOK
<1>2. ASSUME x # 0 PROVE (15000 * power[u]) \div x \in Nat
  BY <1>1, <1>2
<1>3. ASSUME x # 0, power[u] = 0 PROVE (15000 * power[u]) \div x = 0
  BY <1>3
<1>4. ASSUME NEW y \in Nat
      PROVE  Min({25000, 10000 + y}) \in Nat /\ (y = 0 => Min({25000, 10000 + y}) = 10000)
  <2>1. Min({25000, 10000 + y}) = IF 25000 <= 10000 + y THEN 25000 ELSE 10000 + y
    BY MinOfTwo
  <2> QED
    BY <2>1
<1>5. CASE x = 0
  BY <1>5 DEF BoostBps
<1>6. CASE x # 0
  <2>1. BoostBps(u, x) = Min({25000, 10000 + (15000 * power[u]) \div x})
    BY <1>6 DEF BoostBps
  <2> QED
    BY <1>2, <1>3, <1>4, <1>6, <2>1
<1> QED
  BY <1>5, <1>6

LEMMA EffectiveNat ==
  ASSUME TypeOK, NEW u \in Users, NEW x \in Nat
  PROVE  Effective(u, x) \in Nat /\ (power[u] = 0 => Effective(u, x) = x)
<1>1. BoostBps(u, x) \in Nat
  BY BoostNat
<1>2. x * BoostBps(u, x) \in Nat
  BY <1>1, Products
<1>3. (x * BoostBps(u, x)) \div 10000 \in Nat
  BY <1>2, Division
<1>4. (x * 10000) \div 10000 = x
  OBVIOUS
<1> QED
  BY <1>3, <1>4, BoostNat DEF Effective

LEMMA DebtNat ==
  ASSUME NEW x \in Nat, NEW a \in Nat
  PROVE  /\ Debt(x, a) \in Nat
         /\ x * a = Scale * Debt(x, a) + ((x * a) % Scale)
         /\ (x * a) % Scale \in Nat /\ (x * a) % Scale < Scale
         /\ \A d \in Int : Scale * d <= x * a => d <= Debt(x, a)
  BY Products, Division, FarmAssumption DEF Debt

----
(* The stream is advanced: the emission of the time passed is counted once,  *)
(* and what it adds to the shares of the total stake is not more.            *)
LEMMA AdvanceSound ==
  ASSUME TypeOK, Emitted, NEW at \in Nat
  PROVE  LET r == Advanced(at) IN
         /\ r \in [acc : Nat, dist : Nat, total : Nat, first : Times, last : Nat]
         /\ r.total = rew.total /\ r.first = rew.first
         /\ r.first <= r.last /\ r.dist <= r.total /\ r.dist <= Rate * (r.last - r.first)
         /\ rew.acc <= r.acc
         /\ (r.acc - rew.acc) * farm.total <= Scale * (r.dist - rew.dist)
<1> DEFINE c == Checkpoint(at)
           e == Emission(c)
           g == IF e = 0 THEN 0 ELSE (e * Scale) \div farm.total
<1>1. /\ farm.end \in Nat /\ farm.total \in Nat /\ rew.last \in Nat /\ rew.first \in Nat
      /\ rew.acc \in Nat /\ rew.dist \in Nat /\ rew.total \in Nat
      /\ Rate \in Nat /\ Scale \in Nat \ {0} /\ rew.first <= rew.last /\ rew.dist <= rew.total
      /\ rew.dist <= Rate * (rew.last - rew.first)
      /\ rew \in [acc : Nat, dist : Nat, total : Nat, first : Times, last : Nat]
  BY FarmAssumption DEF TypeOK, Emitted
<1> DEFINE m == IF at <= farm.end THEN at ELSE farm.end
<1>2. Min({at, farm.end}) = m /\ m \in Nat
  BY <1>1, MinOfTwo
<1>3. c = IF m <= rew.last THEN rew.last ELSE m
  <2> HIDE DEF m
  <2>1. Max({m, rew.last}) = IF m <= rew.last THEN rew.last ELSE m
    BY <1>1, <1>2, MaxOfTwo
  <2> QED
    BY <1>2, <2>1 DEF Checkpoint
<1>4. c \in Nat /\ rew.last <= c
  BY <1>1, <1>2, <1>3
<1>5. /\ e \in Nat /\ e <= rew.total - rew.dist /\ e <= Rate * (c - rew.last)
      /\ e # 0 => farm.total # 0
  <2> DEFINE n == IF c <= farm.end THEN c ELSE farm.end
             t == Rate * (n - rew.last)
             b == rew.total - rew.dist
  <2>1. Min({c, farm.end}) = n /\ n \in Nat /\ n <= c
    BY <1>1, <1>4, MinOfTwo
  <2>2. Rate * (c - rew.last) \in Nat
    BY <1>1, <1>4, Products
  <2>3. CASE n - rew.last <= 0 \/ farm.total = 0 \/ b <= 0
    <3>1. e = 0
      BY <2>1, <2>3 DEF Emission
    <3> QED
      BY <1>1, <2>2, <3>1
  <2>4. CASE ~(n - rew.last <= 0 \/ farm.total = 0 \/ b <= 0)
    <3>1. e = Min({t, b})
      BY <2>1, <2>4 DEF Emission
    <3>2. n - rew.last \in Nat /\ t \in Nat /\ b \in Nat
      <4>1. n - rew.last \in Nat /\ b \in Nat
        BY <1>1, <2>1, <2>4
      <4> QED
        BY <1>1, <4>1, Products
    <3>3. e = IF t <= b THEN t ELSE b
      BY <3>1, <3>2, MinOfTwo
    <3>4. t <= Rate * (c - rew.last)
      BY <1>1, <1>4, <2>1, ProductMonotone
    <3> QED
      BY <2>2, <2>4, <3>2, <3>3, <3>4
  <2> QED
    BY <2>3, <2>4
<1> HIDE DEF c, e, m
<1>6. g \in Nat /\ g * farm.total <= Scale * e
  <2>1. CASE e = 0
    BY <1>1, <2>1
  <2>2. CASE e # 0
    <3>1. farm.total \in Nat \ {0} /\ e * Scale \in Nat
      BY <1>1, <1>5, <2>2, Products
    <3>2. /\ (e * Scale) \div farm.total \in Nat
          /\ e * Scale = farm.total * ((e * Scale) \div farm.total) + ((e * Scale) % farm.total)
          /\ (e * Scale) % farm.total \in Nat
      BY <3>1, Division
    <3>3. g \in Nat /\ farm.total * g <= e * Scale
      BY <2>2, <3>1, <3>2, Products
    <3> QED
      BY <1>1, <1>5, <3>3
  <2> QED
    BY <2>1, <2>2
<1> HIDE DEF g
<1>7. Advanced(at) = [rew EXCEPT !.last = c, !.dist = rew.dist + e, !.acc = rew.acc + g]
  BY <1>1 DEF Advanced, c, e, g
<1> HIDE DEF Emission
<1>8. /\ Advanced(at) \in [acc : Nat, dist : Nat, total : Nat, first : Times, last : Nat]
      /\ Advanced(at).last = c /\ Advanced(at).dist = rew.dist + e /\ Advanced(at).acc = rew.acc + g
      /\ Advanced(at).total = rew.total /\ Advanced(at).first = rew.first
  <2>1. rew.dist + e \in Nat /\ rew.acc + g \in Nat
    BY <1>1, <1>5, <1>6
  <2> QED
    BY <1>1, <1>4, <1>7, <2>1
<1>9. rew.dist + e <= Rate * (c - rew.first)
  <2>1. Rate * (c - rew.first) = Rate * (c - rew.last) + Rate * (rew.last - rew.first)
    BY <1>1, <1>4
  <2>2. Rate * (c - rew.last) \in Nat /\ Rate * (rew.last - rew.first) \in Nat
    <3>1. c - rew.last \in Nat /\ rew.last - rew.first \in Nat
      BY <1>1, <1>4
    <3> QED
      BY <1>1, <3>1, Products
  <2> QED
    BY <1>1, <1>5, <2>1, <2>2
<1> QED
  BY <1>1, <1>4, <1>5, <1>6, <1>8, <1>9

LEMMA DueInt ==
  ASSUME NEW u, NEW c \in [accrued : Nat, debt : Nat, claimed : Nat], NEW x \in Nat, NEW a \in Nat, NEW d
  PROVE  DueTo(u, c, x, a, d) \in Int /\ Slack(u, x, a, d) \in Nat
<1>1. Slack(u, x, a, d) \in Nat
  BY DebtNat, FarmAssumption DEF Slack
<1>2. c.accrued + c.claimed - c.debt \in Int /\ Scale \in Int
  BY FarmAssumption
<1>3. Scale * (c.accrued + c.claimed - c.debt) \in Int
  BY <1>2
<1>4. x * a \in Nat
  BY Products
<1> QED
  BY <1>1, <1>3, <1>4 DEF DueTo

LEMMA DustFinite == TypeOK /\ Staked => IsFiniteSet(dust) /\ Cardinality(dust) \in Nat
<1> SUFFICES ASSUME TypeOK, Staked PROVE IsFiniteSet(dust) /\ Cardinality(dust) \in Nat
  OBVIOUS
<1>1. IsFiniteSet(DOMAIN ck) /\ IsFiniteSet(0..rew.acc)
  BY FarmAssumption, FS_Subset, FS_Interval DEF TypeOK
<1>2. IsFiniteSet((DOMAIN ck) \X (0..rew.acc))
  BY <1>1, FS_Product
<1>3. dust \subseteq (DOMAIN ck) \X (0..rew.acc)
  BY DEF Staked
<1> QED
  BY <1>2, <1>3, FS_Subset, FS_CardinalityType

(* Advancing the stream keeps what is due covered. *)
LEMMA AdvanceCovered ==
  ASSUME TypeOK, Emitted, Staked, Covered(ck, stake, rew, dust), NEW at \in Nat
  PROVE  Covered(ck, stake, Advanced(at), dust)
<1> DEFINE r == Advanced(at)
           k == r.acc - rew.acc
           f == Due(ck, stake, rew.acc, dust)
           g == Due(ck, stake, r.acc, dust)
           h == [u \in Users |-> f[u] + k * stake[u]]
<1>1. /\ r.acc \in Nat /\ r.dist \in Nat /\ rew.acc <= r.acc /\ rew.acc \in Nat /\ rew.dist \in Nat
      /\ k * farm.total <= Scale * (r.dist - rew.dist) /\ k \in Nat
  <2>1. /\ r \in [acc : Nat, dist : Nat, total : Nat, first : Times, last : Nat]
        /\ rew.acc <= r.acc /\ k * farm.total <= Scale * (r.dist - rew.dist)
    BY AdvanceSound
  <2> HIDE DEF r
  <2>2. rew.acc \in Nat /\ rew.dist \in Nat /\ r.acc \in Nat /\ r.dist \in Nat
    BY <2>1 DEF TypeOK
  <2> QED
    BY <2>1, <2>2
<1> HIDE DEF r
<1>2. ASSUME NEW u \in DOMAIN ck PROVE Scale * ck[u].debt <= stake[u] * r.acc
  <2>1. stake[u] \in Nat /\ ck[u].debt \in Nat /\ Scale * ck[u].debt <= stake[u] * rew.acc
    BY DEF TypeOK, Covered
  <2>2. stake[u] * rew.acc <= stake[u] * r.acc
    BY <1>1, <2>1, ProductMonotone
  <2>3. stake[u] * rew.acc \in Nat /\ stake[u] * r.acc \in Nat /\ Scale * ck[u].debt \in Nat
    BY <1>1, <2>1, Products, FarmAssumption
  <2> QED
    BY <2>1, <2>2, <2>3
<1>3. ASSUME NEW u \in Users
      PROVE  /\ f[u] \in Int /\ g[u] \in Int /\ stake[u] \in Int /\ h[u] \in Int
             /\ h[u] = f[u] + k * stake[u] /\ g[u] <= h[u]
  <2>1. stake[u] \in Nat /\ k * stake[u] \in Nat
    BY <1>1, Products DEF TypeOK
  <2>2. CASE u \notin DOMAIN ck
    BY <2>1, <2>2 DEF Due
  <2>3. CASE u \in DOMAIN ck
    <3>1. f[u] = DueTo(u, ck[u], stake[u], rew.acc, dust) /\ g[u] = DueTo(u, ck[u], stake[u], r.acc, dust)
      BY <2>3 DEF Due
    <3>2. ck[u] \in [accrued : Nat, debt : Nat, claimed : Nat]
      BY <2>3 DEF TypeOK
    <3>3. f[u] \in Int /\ g[u] \in Int
      BY <1>1, <2>1, <3>1, <3>2, DueInt
    <3>4. stake[u] * r.acc = stake[u] * rew.acc + k * stake[u]
      BY <1>1, <2>1
    <3>5. Slack(u, stake[u], r.acc, dust) \in Nat /\ Slack(u, stake[u], rew.acc, dust) \in Nat
      BY <1>1, <2>1, <3>2, DueInt
    <3>6. Slack(u, stake[u], r.acc, dust) <= Slack(u, stake[u], rew.acc, dust)
      <4>1. CASE r.acc = rew.acc
        BY <3>5, <4>1
      <4>2. CASE r.acc # rew.acc
        <5>1. <<u, r.acc>> \notin dust
          BY <1>1, <4>2 DEF Staked
        <5>2. Slack(u, stake[u], r.acc, dust) = 0
          BY <5>1 DEF Slack
        <5> QED
          BY <3>5, <5>2
      <4> QED
        BY <4>1, <4>2
    <3> DEFINE z == Scale * (ck[u].accrued + ck[u].claimed - ck[u].debt)
    <3>7. z \in Int
      BY <3>2, FarmAssumption
    <3>8. stake[u] * r.acc \in Nat /\ stake[u] * rew.acc \in Nat
      BY <1>1, <2>1, Products
    <3>9. /\ f[u] = z + stake[u] * rew.acc + Slack(u, stake[u], rew.acc, dust)
          /\ g[u] = z + stake[u] * r.acc + Slack(u, stake[u], r.acc, dust)
      BY <3>1 DEF DueTo
    <3>10. h[u] = f[u] + k * stake[u]
      OBVIOUS
    <3> HIDE DEF z, f, g, h, k
    <3> QED
      BY <2>1, <3>3, <3>4, <3>5, <3>6, <3>7, <3>8, <3>9, <3>10
  <2> QED
    BY <2>2, <2>3
<1> HIDE DEF f, g, h, k
<1>4. Sum(h, Users) = Sum(f, Users) + k * Sum(stake, Users)
  BY <1>1, <1>3, SumLinear, FarmAssumption
<1>5. Sum(g, Users) <= Sum(h, Users)
  BY <1>3, SumMonotone, FarmAssumption
<1>6. Sum(f, Users) <= Scale * (rew.dist + Cardinality(dust))
  BY DEF Covered, f
<1>7. IsFiniteSet(dust) /\ Cardinality(dust) \in Nat
  BY DustFinite
<1>8. Sum(f, Users) \in Int /\ Sum(g, Users) \in Int /\ Sum(h, Users) \in Int
  BY <1>3, SumInt, FarmAssumption
<1>9. farm.total = Sum(stake, Users) /\ farm.total \in Nat
  BY DEF Staked, TypeOK
<1>10. Sum(g, Users) <= Scale * (r.dist + Cardinality(dust))
  <2> DEFINE n == Cardinality(dust)
  <2>1. k * farm.total \in Nat
    BY <1>1, <1>9, Products
  <2>2. /\ Scale * (r.dist - rew.dist) = Scale * r.dist - Scale * rew.dist
        /\ Scale * (rew.dist + n) = Scale * rew.dist + Scale * n
        /\ Scale * (r.dist + n) = Scale * r.dist + Scale * n
    BY <1>1, <1>7, FarmAssumption
  <2>3. Scale * r.dist \in Nat /\ Scale * rew.dist \in Nat /\ Scale * n \in Nat
    BY <1>1, <1>7, Products, FarmAssumption
  <2> HIDE DEF n
  <2> QED
    BY <1>1, <1>4, <1>5, <1>6, <1>8, <1>9, <2>1, <2>2, <2>3 DEF n
<1> QED
  BY <1>2, <1>10 DEF Covered, g, r

(* One stake is settled: what is due to it grows by no more than the         *)
(* rounding of its new debt.                                                 *)
LEMMA SettleCovered ==
  ASSUME TypeOK, Emitted, Staked, NEW r,
         r \in [acc : Nat, dist : Nat, total : Nat, first : Times, last : Nat],
         Covered(ck, stake, r, dust), rew.acc <= r.acc,
         NEW u \in Users, NEW new \in Nat, NEW c, NEW s, NEW d,
         DOMAIN c = DOMAIN ck \cup {u}, \A v \in DOMAIN ck : v # u => c[v] = ck[v],
         c[u] \in [accrued : Nat, debt : Nat, claimed : Nat],
         c[u].debt = Debt(new, r.acc),
         c[u].accrued + c[u].claimed =
            IF u \in DOMAIN ck
            THEN ck[u].accrued + ck[u].claimed + Debt(stake[u], r.acc) - ck[u].debt ELSE 0,
         s = [stake EXCEPT ![u] = new],
         d = dust \cup {<<u, a>> : a \in {b \in {r.acc} : (new * b) % Scale # 0}}
  PROVE  Covered(c, s, r, d)
<1> DEFINE f == Due(ck, stake, r.acc, dust)
           g == Due(c, s, r.acc, d)
           n == Cardinality(dust)
           rem == (new * r.acc) % Scale
<1>1. /\ r.acc \in Nat /\ r.dist \in Nat /\ stake[u] \in Nat /\ s[u] = new
      /\ \A v \in Users : stake[v] \in Nat /\ s[v] \in Nat
      /\ \A v \in Users : v # u => s[v] = stake[v]
  BY DEF TypeOK
<1>2. IsFiniteSet(dust) /\ n \in Nat
  BY DustFinite
<1>3. /\ new * r.acc = Scale * c[u].debt + rem /\ rem \in Nat /\ rem < Scale
  <2>1. /\ new * r.acc = Scale * Debt(new, r.acc) + ((new * r.acc) % Scale)
        /\ (new * r.acc) % Scale \in Nat /\ (new * r.acc) % Scale < Scale
    BY <1>1, DebtNat
  <2>2. c[u].debt = Debt(new, r.acc)
    OBVIOUS
  <2> QED
    BY <2>1, <2>2
<1> DEFINE held == IF u \in DOMAIN ck
                   THEN ck[u].accrued + ck[u].claimed + Debt(stake[u], r.acc) - ck[u].debt ELSE 0
<1>4. held \in Int /\ c[u].accrued + c[u].claimed = held /\ c[u].debt \in Nat /\ Scale \in Nat \ {0}
  BY <1>1, DebtNat, FarmAssumption DEF TypeOK
<1>5. g[u] = Scale * held + rem + IF <<u, r.acc>> \in d THEN Scale - rem ELSE 0
  <2>1. g[u] = Scale * (held - c[u].debt) + new * r.acc + Slack(u, new, r.acc, d)
    BY <1>1, <1>4 DEF Due, DueTo
  <2>2. Slack(u, new, r.acc, d) = IF <<u, r.acc>> \in d THEN Scale - rem ELSE 0
    BY DEF Slack
  <2>3. Scale * (held - c[u].debt) = Scale * held - Scale * c[u].debt
    BY <1>4
  <2>4. Scale * held \in Int /\ Scale * c[u].debt \in Int
    BY <1>4
  <2> HIDE DEF held, rem, g
  <2> QED
    BY <1>3, <1>4, <2>1, <2>2, <2>3, <2>4
<1>6. f[u] \in Int /\ f[u] >= Scale * held + IF <<u, r.acc>> \in dust THEN Scale ELSE 0
  <2>1. CASE u \notin DOMAIN ck
    <3>1. <<u, r.acc>> \notin dust
      BY <2>1 DEF Staked
    <3>2. f[u] = 0 /\ held = 0 /\ Scale * 0 = 0
      BY <1>4, <2>1 DEF Due
    <3> QED
      BY <3>1, <3>2
  <2>2. CASE u \in DOMAIN ck
    <3> DEFINE paid == ck[u].accrued + ck[u].claimed - ck[u].debt
               b == Debt(stake[u], r.acc)
               q == (stake[u] * r.acc) % Scale
    <3>1. f[u] = Scale * paid + stake[u] * r.acc + Slack(u, stake[u], r.acc, dust)
      BY <2>2 DEF Due, DueTo
    <3>2. b \in Nat /\ stake[u] * r.acc = Scale * b + q /\ q \in Nat /\ q < Scale
      BY <1>1, DebtNat
    <3>3. Slack(u, stake[u], r.acc, dust) = IF <<u, r.acc>> \in dust THEN Scale - q ELSE 0
      BY DEF Slack
    <3>4. paid \in Int
      BY <2>2 DEF TypeOK
    <3>5. held = paid + b
      <4>1. ck[u] \in [accrued : Nat, debt : Nat, claimed : Nat]
        BY <2>2 DEF TypeOK
      <4> HIDE DEF b
      <4>2. held = ck[u].accrued + ck[u].claimed + b - ck[u].debt
        BY <2>2 DEF b
      <4> QED
        BY <3>2, <4>1, <4>2
    <3> HIDE DEF paid, b, q, held, f
    <3>6. Scale * held = Scale * paid + Scale * b /\ Scale * paid \in Int /\ Scale * b \in Int
      BY <1>4, <3>2, <3>4, <3>5
    <3> QED
      BY <1>4, <3>1, <3>2, <3>3, <3>6
  <2> QED
    BY <2>1, <2>2
<1>7. \A v \in Users : v # u => g[v] = f[v]
  <2>1. \A v \in Users : v # u => (<<v, r.acc>> \in d <=> <<v, r.acc>> \in dust)
    OBVIOUS
  <2>2. \A v \in Users : v # u => (v \in DOMAIN c <=> v \in DOMAIN ck)
    OBVIOUS
  <2> QED
    BY <1>1, <2>1, <2>2 DEF Due, DueTo, Slack
<1>8. /\ <<u, r.acc>> \in d <=> <<u, r.acc>> \in dust \/ rem # 0
      /\ Cardinality(d) = IF rem # 0 /\ <<u, r.acc>> \notin dust THEN n + 1 ELSE n
  <2>1. CASE rem = 0
    <3>1. {<<u, a>> : a \in {b \in {r.acc} : (new * b) % Scale # 0}} = {}
      BY <2>1
    <3>2. d = dust
      BY <3>1
    <3> QED
      BY <2>1, <3>2
  <2>2. CASE rem # 0
    <3>1. {<<u, a>> : a \in {b \in {r.acc} : (new * b) % Scale # 0}} = {<<u, r.acc>>}
      BY <2>2
    <3>2. d = dust \cup {<<u, r.acc>>}
      BY <3>1
    <3>3. Cardinality(d) = IF <<u, r.acc>> \in dust THEN n ELSE n + 1
      BY <1>2, <3>2, FS_AddElement
    <3> QED
      BY <2>2, <3>2, <3>3
  <2> QED
    BY <2>1, <2>2
<1> DEFINE m == Cardinality(d)
<1>9. g[u] \in Int /\ g[u] - f[u] <= Scale * (m - n) /\ m \in Nat
  <2>1. Scale * held \in Int
    BY <1>4
  <2>2. Scale * (n - n) = 0 /\ Scale * (n + 1 - n) = Scale
    BY <1>2, <1>4
  <2> HIDE DEF held, rem, f, g, n
  <2>3. m = n \/ m = n + 1
    BY <1>8
  <2>4. m - n = 0 \/ m - n = 1
    BY <1>2, <2>3
  <2>5. Scale * (m - n) = IF m = n THEN 0 ELSE Scale
    BY <1>2, <1>4, <2>2, <2>3
  <2>6. g[u] - f[u] <= IF m = n THEN 0 ELSE Scale
    <3> HIDE DEF m
    <3>1. m = IF rem # 0 /\ <<u, r.acc>> \notin dust THEN n + 1 ELSE n
      BY <1>8 DEF m
    <3> QED
      BY <1>2, <1>3, <1>4, <1>5, <1>6, <1>8, <2>1, <3>1
  <2> QED
    BY <1>2, <1>3, <1>4, <1>5, <2>1, <2>3, <2>5, <2>6
<1>10. ASSUME NEW v \in Users PROVE f[v] \in Int
  <2>1. CASE v \notin DOMAIN ck
    BY <2>1 DEF Due
  <2>2. CASE v \in DOMAIN ck
    <3>1. ck[v] \in [accrued : Nat, debt : Nat, claimed : Nat]
      BY <2>2 DEF TypeOK
    <3>2. f[v] = DueTo(v, ck[v], stake[v], r.acc, dust)
      BY <2>2 DEF Due
    <3> QED
      BY <1>1, <3>1, <3>2, DueInt
  <2> QED
    BY <2>1, <2>2
<1> HIDE DEF f, g, n, m, rem, held
<1>11. Sum(g, Users) = Sum(f, Users) - f[u] + g[u] /\ Sum(f, Users) \in Int
  BY <1>7, <1>9, <1>10, SumUpdate, FarmAssumption
<1>12. Sum(f, Users) <= Scale * (r.dist + n)
  BY DEF Covered, f, n
<1>13. Scale * (r.dist + m) = Scale * (r.dist + n) + Scale * (m - n)
  BY <1>1, <1>2, <1>4, <1>9
<1>14. Scale * (r.dist + n) \in Int /\ Scale * (m - n) \in Int
  BY <1>1, <1>2, <1>4, <1>9
<1>15. Sum(g, Users) <= Scale * (r.dist + m)
  BY <1>6, <1>9, <1>11, <1>12, <1>13, <1>14
<1>16. ASSUME NEW v \in DOMAIN c PROVE Scale * c[v].debt <= s[v] * r.acc
  <2>1. CASE v = u
    <3>1. Scale * c[u].debt \in Nat
      BY <1>4, Products
    <3> QED
      BY <1>1, <1>3, <2>1, <3>1
  <2>2. CASE v # u
    <3>1. v \in DOMAIN ck /\ c[v] = ck[v] /\ s[v] = stake[v]
      BY <1>1, <2>2 DEF TypeOK
    <3> QED
      BY <3>1 DEF Covered
  <2> QED
    BY <2>1, <2>2
<1> QED
  BY <1>15, <1>16 DEF Covered, g, m

(* What accrueStake writes for u. *)
SettlesTo(c, u, new, acc) ==
    /\ DOMAIN c = DOMAIN ck \cup {u} /\ \A v \in DOMAIN ck : v # u => c[v] = ck[v]
    /\ c[u] \in [accrued : Nat, debt : Nat, claimed : Nat]
    /\ boosts = 0 =>
          /\ c[u].debt = Debt(new, acc)
          /\ c[u].accrued + c[u].claimed =
                IF u \in DOMAIN ck
                THEN ck[u].accrued + ck[u].claimed + Debt(stake[u], acc) - ck[u].debt ELSE 0

LEMMA SettledSound ==
  ASSUME IInv, NEW u \in Users, NEW new \in Nat, NEW at \in Nat, NEW c,
         c = Settled(u, Effective(u, stake[u]), Effective(u, new), at)
  PROVE  SettlesTo(c, u, new, Advanced(at).acc)
<1> DEFINE acc == Advanced(at).acc
           old == Effective(u, stake[u])
           eff == Effective(u, new)
<1>1. acc \in Nat /\ (boosts = 0 => Covered(ck, stake, Advanced(at), dust) /\ power[u] = 0)
  BY AdvanceSound, AdvanceCovered DEF IInv, Unboosted
<1>2. /\ stake[u] \in Nat /\ old \in Nat /\ eff \in Nat
      /\ power[u] = 0 => old = stake[u] /\ eff = new
  BY EffectiveNat DEF IInv, TypeOK
<1>3. Debt(old, acc) \in Nat /\ Debt(eff, acc) \in Nat
  BY <1>1, <1>2, DebtNat
<1>4. CASE u \notin DOMAIN ck
  <2>1. c = [v \in DOMAIN ck \cup {u} |-> IF v = u
               THEN [accrued |-> 0, debt |-> Debt(eff, acc), claimed |-> 0] ELSE ck[v]]
    BY <1>4 DEF Settled, FirstDebt
  <2> HIDE DEF acc, old, eff
  <2>2. c[u] = [accrued |-> 0, debt |-> Debt(eff, acc), claimed |-> 0]
    BY <2>1
  <2>3. DOMAIN c = DOMAIN ck \cup {u} /\ \A v \in DOMAIN ck : v # u => c[v] = ck[v]
    BY <2>1
  <2>4. c[u] \in [accrued : Nat, debt : Nat, claimed : Nat]
    BY <1>3, <2>2
  <2>5. c[u].debt = Debt(eff, acc) /\ c[u].accrued + c[u].claimed = 0
    BY <2>2
  <2> QED
    BY <1>1, <1>2, <1>4, <2>3, <2>4, <2>5 DEF acc, SettlesTo
<1>5. CASE u \in DOMAIN ck
  <2>1. ck[u] \in [accrued : Nat, debt : Nat, claimed : Nat]
    BY <1>5 DEF IInv, TypeOK
  <2> DEFINE gain == Debt(old, acc) - ck[u].debt
  <2>2. Max({0, gain}) = IF 0 <= gain THEN gain ELSE 0
    BY <1>3, <2>1, MaxOfTwo
  <2>3. gain \in Int /\ Max({0, gain}) \in Nat
    BY <1>3, <2>1, <2>2
  <2>4. c = [ck EXCEPT ![u] = [accrued |-> ck[u].accrued + Max({0, gain}),
                               debt |-> Debt(eff, acc), claimed |-> ck[u].claimed]]
    BY <1>5 DEF Settled
  <2>5. boosts = 0 => gain >= 0
    <3>1. boosts = 0 => Scale * ck[u].debt <= stake[u] * acc
      BY <1>1, <1>5 DEF Covered
    <3>2. ck[u].debt \in Int
      BY <2>1
    <3>3. boosts = 0 => ck[u].debt <= Debt(stake[u], acc)
      BY <1>1, <1>2, <3>1, <3>2, DebtNat
    <3> QED
      BY <1>1, <1>2, <1>3, <2>1, <3>3
  <2> HIDE DEF acc, old, eff, gain
  <2>6. /\ c[u] = [accrued |-> ck[u].accrued + Max({0, gain}), debt |-> Debt(eff, acc), claimed |-> ck[u].claimed]
        /\ DOMAIN c = DOMAIN ck \cup {u} /\ \A v \in DOMAIN ck : v # u => c[v] = ck[v]
    BY <1>5, <2>4
  <2>7. c[u] \in [accrued : Nat, debt : Nat, claimed : Nat]
    BY <1>3, <2>1, <2>3, <2>6
  <2>8. c[u].debt = Debt(eff, acc) /\ c[u].accrued = ck[u].accrued + Max({0, gain}) /\ c[u].claimed = ck[u].claimed
    BY <2>6
  <2>9. boosts = 0 => /\ Max({0, gain}) = Debt(stake[u], acc) - ck[u].debt
                      /\ Debt(stake[u], acc) \in Nat
    BY <1>1, <1>2, <1>3, <2>2, <2>5 DEF gain
  <2>10. boosts = 0 => c[u].accrued + c[u].claimed = ck[u].accrued + ck[u].claimed + Debt(stake[u], acc) - ck[u].debt
    BY <2>1, <2>8, <2>9
  <2> QED
    BY <1>1, <1>2, <1>5, <2>6, <2>7, <2>8, <2>10 DEF acc, SettlesTo
<1> QED
  BY <1>4, <1>5

(* Stake, Unstake and Claim settle one stake and keep what was proved of the *)
(* stream and of the shares.                                                 *)
LEMMA SettleSound ==
  ASSUME IInv, NEW u \in Users, NEW new \in Nat, NEW at \in Nat, NEW c,
         c = Settled(u, Effective(u, stake[u]), Effective(u, new), at),
         DOMAIN ck' = DOMAIN c, \A v \in DOMAIN c : v # u => ck'[v] = c[v],
         ck'[u] \in [accrued : Nat, debt : Nat, claimed : Nat], ck'[u].debt = c[u].debt,
         ck'[u].accrued + ck'[u].claimed = c[u].accrued + c[u].claimed,
         rew' = Advanced(at), stake' = [stake EXCEPT ![u] = new],
         dust' = dust \cup Rounded(u, Effective(u, new), at),
         UNCHANGED <<funds, power, boosts>>
  PROVE  /\ rew' \in [acc : Nat, dist : Nat, total : Nat, first : Times, last : Nat]
         /\ DOMAIN ck' \subseteq Users
         /\ \A v \in DOMAIN ck' : ck'[v] \in [accrued : Nat, debt : Nat, claimed : Nat]
         /\ Emitted' /\ Unboosted'
         /\ \A d \in dust' : d \in (DOMAIN ck') \X (0..rew'.acc)
         /\ \A v \in Users \ DOMAIN ck' : stake'[v] = 0
<1>1. /\ DOMAIN c = DOMAIN ck \cup {u} /\ \A v \in DOMAIN ck : v # u => c[v] = ck[v]
      /\ c[u] \in [accrued : Nat, debt : Nat, claimed : Nat]
      /\ boosts = 0 =>
            /\ c[u].debt = Debt(new, Advanced(at).acc)
            /\ c[u].accrued + c[u].claimed =
                  IF u \in DOMAIN ck
                  THEN ck[u].accrued + ck[u].claimed + Debt(stake[u], Advanced(at).acc) - ck[u].debt
                  ELSE 0
  <2>1. SettlesTo(c, u, new, Advanced(at).acc)
    BY SettledSound
  <2> QED
    BY <2>1 DEF SettlesTo
<1>2. LET r == Advanced(at) IN
      /\ r \in [acc : Nat, dist : Nat, total : Nat, first : Times, last : Nat]
      /\ r.total = rew.total /\ r.first = rew.first
      /\ r.first <= r.last /\ r.dist <= r.total /\ r.dist <= Rate * (r.last - r.first)
      /\ rew.acc <= r.acc
  BY AdvanceSound DEF IInv
<1>3. rew' \in [acc : Nat, dist : Nat, total : Nat, first : Times, last : Nat] /\ Emitted'
  BY <1>2 DEF IInv, Emitted
<1>4. /\ DOMAIN ck' \subseteq Users
      /\ \A v \in DOMAIN ck' : ck'[v] \in [accrued : Nat, debt : Nat, claimed : Nat]
  BY <1>1 DEF IInv, TypeOK
<1>5. \A v \in Users \ DOMAIN ck' : stake'[v] = 0
  BY <1>1 DEF IInv, TypeOK, Staked
<1>6. rew.acc \in Nat /\ rew'.acc \in Nat /\ rew.acc <= rew'.acc
  BY <1>2 DEF IInv, TypeOK
<1>7. ASSUME NEW d \in dust' PROVE d \in (DOMAIN ck') \X (0..rew'.acc)
  <2>1. CASE d \in dust
    BY <1>1, <1>6, <2>1 DEF IInv, Staked
  <2>2. CASE d \notin dust
    <3>1. d = <<u, rew'.acc>>
      BY <2>2 DEF Rounded
    <3> QED
      BY <1>1, <1>6, <3>1
  <2> QED
    BY <2>1, <2>2
<1>8. ASSUME boosts = 0 PROVE Covered(ck, stake, rew, dust)' /\ \A v \in Users : power'[v] = 0
  <2>1. \A v \in Users : power[v] = 0 /\ power'[v] = 0
    BY <1>8 DEF IInv, Unboosted
  <2>2. Effective(u, new) = new
    BY <2>1, EffectiveNat DEF IInv
  <2>3. dust' = dust \cup {<<u, a>> : a \in {b \in {rew'.acc} : (new * b) % Scale # 0}}
    BY <2>2 DEF Rounded
  <2>4. Covered(ck, stake, rew', dust)
    BY <1>8, AdvanceCovered DEF IInv, Unboosted
  <2>5. /\ DOMAIN ck' = DOMAIN ck \cup {u} /\ \A v \in DOMAIN ck : v # u => ck'[v] = ck[v]
        /\ ck'[u].debt = Debt(new, rew'.acc)
        /\ ck'[u].accrued + ck'[u].claimed =
              IF u \in DOMAIN ck
              THEN ck[u].accrued + ck[u].claimed + Debt(stake[u], rew'.acc) - ck[u].debt ELSE 0
    BY <1>1, <1>8
  <2>6. Covered(ck', stake', rew', dust')
    BY <1>3, <1>6, <2>3, <2>4, <2>5, SettleCovered DEF IInv
  <2> QED
    BY <2>1, <2>6 DEF Covered, Due, DueTo, Slack
<1>9. Unboosted'
  BY <1>8 DEF Unboosted
<1> QED
  BY <1>3, <1>4, <1>5, <1>7, <1>9

(* What one user adds to or takes from the stake moves the total. *)
LEMMA StakesMove ==
  ASSUME NEW u \in Users, NEW old, NEW new, new[u] \in Int,
         \A v \in Users : old[v] \in Int, \A v \in Users : v # u => new[v] = old[v]
  PROVE  Sum(new, Users) = Sum(old, Users) - old[u] + new[u]
  BY SumUpdate, FarmAssumption

LEMMA TotalMoves ==
  ASSUME IInv, NEW u \in Users, NEW new \in Nat, NEW s
  PROVE  s = [stake EXCEPT ![u] = new] =>
            /\ Sum(s, Users) = farm.total - stake[u] + new
            /\ stake[u] \in Nat /\ farm.total \in Nat /\ Sum(s, Users) \in Nat
<1>1. /\ stake \in [Users -> Nat] /\ farm.total = Sum(stake, Users) /\ farm.total \in Nat
  BY DEF IInv, TypeOK, Staked
<1>2. s = [stake EXCEPT ![u] = new] =>
        s \in [Users -> Nat] /\ s[u] = new /\ \A v \in Users : v # u => s[v] = stake[v]
  BY <1>1
<1>3. ASSUME s \in [Users -> Nat], \A v \in Users : v # u => s[v] = stake[v]
      PROVE  Sum(s, Users) = Sum(stake, Users) - stake[u] + s[u] /\ Sum(s, Users) \in Nat
  <2>1. s[u] \in Int /\ \A v \in Users : stake[v] \in Int /\ s[v] \in Nat
    BY <1>1, <1>3
  <2>2. Sum(s, Users) = Sum(stake, Users) - stake[u] + s[u]
    BY <1>3, <2>1, StakesMove
  <2> QED
    BY <2>1, <2>2, SumNat, FarmAssumption
<1> QED
  BY <1>1, <1>2, <1>3

----
LEMMA InitIInv == Init => IInv
<1> SUFFICES ASSUME Init PROVE IInv
  OBVIOUS
<1>1. PICK start, end \in Times : CreateFarm(start, end)
  BY DEF Init
<1> USE <1>1, FarmAssumption DEF Init, CreateFarm
<1>2. TypeOK /\ DOMAIN req = Procs /\ \A p \in Procs : RequestSound(p)
  BY DEF TypeOK, Statuses, RequestSound, Serving, Idle
<1>3. Emitted
  BY DEF Emitted
<1>4. ASSUME NEW f, \A u \in Users : f[u] = 0 PROVE Sum(f, Users) = 0
  <2>1. Sum(f, {}) = 0
    BY SumEmpty
  <2>2. \A u \in Users : f[u] \in Int
    BY <1>4
  <2>3. Sum(f, Users) = Sum(f, {})
    BY <1>4, <2>2, SumZeroOutside
  <2> QED
    BY <2>1, <2>3
<1>5. Staked
  BY <1>4 DEF Staked
<1>6. Unboosted
  <2>1. Sum(Due(ck, stake, rew.acc, dust), Users) = 0
    BY <1>4 DEF Due
  <2>2. Cardinality(dust) = 0 /\ Scale * (0 + 0) = 0
    BY FS_EmptySet
  <2> QED
    BY <2>1, <2>2 DEF Unboosted, Covered
<1> QED
  BY <1>2, <1>3, <1>5, <1>6 DEF IInv

(* A request that is answered, or goes on with sound fields. *)
LEMMA RequestsSound ==
  ASSUME IInv, NEW p \in Procs, NEW r, req' = [req EXCEPT ![p] = r], RequestSound(p)'
  PROVE  DOMAIN req' = Procs /\ \A q \in Procs : RequestSound(q)'
  BY DEF IInv, RequestSound, Serving

LEMMA AnswerSound ==
  ASSUME IInv, NEW p \in Procs, Answer(p)
  PROVE  DOMAIN req' = Procs /\ \A q \in Procs : RequestSound(q)'
<1>1. RequestSound(p)'
  BY DEF IInv, Answer, RequestSound, Serving, Idle
<1> QED
  BY <1>1, RequestsSound DEF Answer

(* Steps that leave the books alone. *)
LEMMA BooksKept ==
  ASSUME IInv, UNCHANGED books, farm'.total = farm.total, boosts' = 0 => UNCHANGED <<power, boosts>>
  PROVE  Emitted' /\ Staked' /\ Unboosted'
<1>1. Emitted'
  BY DEF IInv, Emitted, books
<1>2. Staked'
  BY DEF IInv, Staked, books
<1>3. Unboosted'
  BY DEF IInv, Unboosted, Covered, Due, DueTo, Slack, books
<1> QED
  BY <1>1, <1>2, <1>3

LEMMA StepIInv == IInv /\ [Next]_vars => IInv'
<1> SUFFICES ASSUME IInv, [Next]_vars PROVE IInv'
  OBVIOUS
<1> USE FarmAssumption
<1>0. TypeOK
  BY DEF IInv
<1>1. CASE Tick
  <2>1. TypeOK'
    BY <1>0, <1>1 DEF Tick, TypeOK, books
  <2>2. DOMAIN req' = Procs /\ \A p \in Procs : RequestSound(p)'
    BY <1>1 DEF Tick, IInv, RequestSound, Serving
  <2> QED
    BY <1>1, <2>1, <2>2, BooksKept DEF Tick, IInv
<1>2. ASSUME NEW u \in Users, SetPower(u) PROVE IInv'
  <2>1. TypeOK' /\ boosts' # 0
    BY <1>0, <1>2 DEF SetPower, TypeOK, books
  <2>2. DOMAIN req' = Procs /\ \A p \in Procs : RequestSound(p)'
    BY <1>2 DEF SetPower, IInv, RequestSound, Serving
  <2> QED
    BY <1>2, <2>1, <2>2, BooksKept DEF SetPower, IInv
<1>3. CASE FundFarmReward
  <2>1. PICK x \in Amounts :
          /\ funds >= x /\ funds' = funds - x /\ rew' = [rew EXCEPT !.total = rew.total + x]
          /\ UNCHANGED <<now, farm, stake, ck, bal, power, req, boosts, dust>>
    BY <1>3 DEF FundFarmReward
  <2>2. /\ x \in Nat /\ funds \in Nat
        /\ rew \in [acc : Nat, dist : Nat, total : Nat, first : Times, last : Nat]
    BY <1>0 DEF TypeOK
  <2>3. /\ rew' \in [acc : Nat, dist : Nat, total : Nat, first : Times, last : Nat]
        /\ rew'.acc = rew.acc /\ rew'.dist = rew.dist /\ rew'.total = rew.total + x
        /\ rew'.first = rew.first /\ rew'.last = rew.last
    BY <2>1, <2>2
  <2>4. TypeOK'
    BY <1>0, <2>1, <2>2, <2>3 DEF TypeOK
  <2>5. DOMAIN req' = Procs /\ \A p \in Procs : RequestSound(p)'
    BY <2>1 DEF IInv, RequestSound, Serving
  <2>6. Emitted'
    BY <2>1, <2>2, <2>3 DEF IInv, Emitted
  <2>7. Staked'
    BY <2>1, <2>3 DEF IInv, Staked
  <2>8. Unboosted'
    BY <2>1, <2>3 DEF IInv, Unboosted, Covered, Due, DueTo, Slack
  <2> QED
    BY <2>4, <2>5, <2>6, <2>7, <2>8 DEF IInv
<1>4. ASSUME NEW p \in Procs, UpdateFarmRead(p) PROVE IInv'
  <2>1. PICK start \in Times \cup {-1}, end \in Times \cup {-1}, status \in Statuses :
          /\ req' = [req EXCEPT ![p] = [pc |-> "update", status |-> status, start |-> start, end |-> end]]
          /\ UNCHANGED <<now, farm, books, power, boosts>>
    BY <1>4 DEF UpdateFarmRead
  <2>2. RequestSound(p)'
    BY <2>1 DEF IInv, RequestSound, Serving
  <2>3. DOMAIN req' = Procs /\ \A q \in Procs : RequestSound(q)'
    BY <2>1, <2>2, RequestsSound
  <2>4. TypeOK'
    BY <1>0, <2>1 DEF TypeOK, books
  <2> QED
    BY <2>1, <2>3, <2>4, BooksKept DEF IInv
<1>5. ASSUME NEW p \in Procs, DeleteFarmRead(p) PROVE IInv'
  <2>1. RequestSound(p)'
    BY <1>5 DEF DeleteFarmRead, IInv, RequestSound, Serving
  <2>2. DOMAIN req' = Procs /\ \A q \in Procs : RequestSound(q)'
    BY <1>5, <2>1, RequestsSound DEF DeleteFarmRead
  <2>3. TypeOK'
    BY <1>0, <1>5 DEF DeleteFarmRead, TypeOK, books
  <2> QED
    BY <1>5, <2>2, <2>3, BooksKept DEF DeleteFarmRead, IInv
<1>6. ASSUME NEW p \in Procs, Begin(p) PROVE IInv'
  <2>1. PICK u \in Users, x \in Amounts, op \in {"stake", "unstake", "claim"} :
          /\ req' = [req EXCEPT ![p] = [pc |-> op, user |-> u, amount |-> x, at |-> now]]
          /\ UNCHANGED <<now, farm, books, power, boosts>>
    BY <1>6 DEF Begin
  <2>2. RequestSound(p)'
    BY <1>0, <2>1 DEF IInv, TypeOK, RequestSound, Serving
  <2>3. DOMAIN req' = Procs /\ \A q \in Procs : RequestSound(q)'
    BY <2>1, <2>2, RequestsSound
  <2>4. TypeOK'
    BY <1>0, <2>1 DEF TypeOK, books
  <2> QED
    BY <2>1, <2>3, <2>4, BooksKept DEF IInv
<1>7. ASSUME NEW p \in Procs, Refuse(p) PROVE IInv'
  <2>1. TypeOK'
    BY <1>0, <1>7 DEF Refuse, TypeOK, books
  <2> QED
    BY <1>7, <2>1, AnswerSound, BooksKept DEF Refuse, IInv
<1>8. ASSUME NEW p \in Procs, UpdateFarm(p) \/ DeleteFarm(p) PROVE IInv'
  <2>1. PICK status \in Statuses, start \in Times, end \in Times :
          /\ farm' = [farm EXCEPT !.status = status, !.start = start, !.end = end]
          /\ Answer(p) /\ UNCHANGED <<now, books, power, boosts>>
    <3>1. farm \in [status : Statuses, start : Times, end : Times, total : Nat]
      BY <1>0 DEF TypeOK
    <3>2. CASE UpdateFarm(p)
      <4>1. /\ req[p].status \in Statuses
            /\ req[p].start \in Times \cup {-1} /\ req[p].end \in Times \cup {-1}
        BY <3>2 DEF UpdateFarm, IInv, RequestSound
      <4>2. Asked(req[p].start, farm.start) \in Times /\ Asked(req[p].end, farm.end) \in Times
        BY <3>1, <4>1 DEF Asked
      <4> QED
        BY <3>2, <4>1, <4>2 DEF UpdateFarm
    <3>3. CASE DeleteFarm(p)
      <4>1. farm' = [farm EXCEPT !.status = "closed", !.start = farm.start, !.end = farm.end]
        BY <3>1, <3>3 DEF DeleteFarm
      <4> QED
        BY <3>1, <3>3, <4>1 DEF DeleteFarm, Statuses
    <3> QED
      BY <1>8, <3>2, <3>3
  <2>2. farm' \in [status : Statuses, start : Times, end : Times, total : Nat] /\ farm'.total = farm.total
    BY <1>0, <2>1 DEF TypeOK
  <2>3. TypeOK'
    BY <1>0, <2>1, <2>2 DEF TypeOK, books
  <2> QED
    BY <2>1, <2>2, <2>3, AnswerSound, BooksKept DEF IInv
<1>9. ASSUME NEW p \in Procs, Stake(p) PROVE IInv'
  <2> DEFINE u == req[p].user
             x == req[p].amount
             t == req[p].at
             c == Settled(u, Effective(u, stake[u]), Effective(u, stake[u] + x), t)
  <2>1. u \in Users /\ x \in Nat /\ t \in Nat /\ stake[u] \in Nat /\ stake[u] + x \in Nat
    BY <1>0, <1>9 DEF Stake, IInv, RequestSound, Serving, TypeOK
  <2>2. /\ bal[u] >= x /\ bal' = [bal EXCEPT ![u] = bal[u] - x]
        /\ rew' = Advanced(t) /\ ck' = c
        /\ dust' = dust \cup Rounded(u, Effective(u, stake[u] + x), t)
        /\ stake' = [stake EXCEPT ![u] = stake[u] + x]
        /\ farm' = [farm EXCEPT !.total = farm.total + x]
        /\ Answer(p) /\ UNCHANGED <<now, funds, power, boosts>>
    BY <1>9 DEF Stake, Settle
  <2> HIDE DEF u, x, t, c
  <2>3. SettlesTo(c, u, stake[u] + x, Advanced(t).acc)
    BY <2>1, SettledSound DEF c
  <2>4. /\ rew' \in [acc : Nat, dist : Nat, total : Nat, first : Times, last : Nat]
        /\ DOMAIN ck' \subseteq Users
        /\ \A v \in DOMAIN ck' : ck'[v] \in [accrued : Nat, debt : Nat, claimed : Nat]
        /\ Emitted' /\ Unboosted'
        /\ \A d \in dust' : d \in (DOMAIN ck') \X (0..rew'.acc)
        /\ \A v \in Users \ DOMAIN ck' : stake'[v] = 0
    <3>1. c[u] \in [accrued : Nat, debt : Nat, claimed : Nat]
      BY <2>3 DEF SettlesTo
    <3> QED
      BY <2>1, <2>2, <3>1, SettleSound DEF c
  <2>5. /\ Sum(stake', Users) = farm.total + x /\ farm.total \in Nat
        /\ farm' \in [status : Statuses, start : Times, end : Times, total : Nat]
        /\ farm'.total = Sum(stake', Users)
    <3>1. Sum(stake', Users) = farm.total - stake[u] + (stake[u] + x) /\ farm.total \in Nat
      BY <2>1, <2>2, TotalMoves
    <3> QED
      BY <1>0, <2>1, <2>2, <3>1 DEF TypeOK
  <2>6. \A v \in Users : bal'[v] \in Nat /\ stake'[v] \in Nat /\ bal'[v] + stake'[v] = Opening
    <3>1. \A v \in Users : bal[v] \in Nat /\ stake[v] \in Nat /\ bal[v] + stake[v] = Opening
      BY <1>0 DEF IInv, Staked, TypeOK
    <3> QED
      BY <1>0, <2>1, <2>2, <3>1 DEF TypeOK
  <2>7. TypeOK'
    BY <1>0, <2>1, <2>2, <2>4, <2>5, <2>6 DEF TypeOK
  <2>8. Staked'
    BY <2>4, <2>5, <2>6 DEF Staked
  <2> QED
    BY <2>2, <2>4, <2>7, <2>8, AnswerSound DEF IInv
<1>10. ASSUME NEW p \in Procs, Unstake(p) PROVE IInv'
  <2> DEFINE u == req[p].user
             x == req[p].amount
             t == req[p].at
             c == Settled(u, Effective(u, stake[u]), Effective(u, stake[u] - x), t)
  <2>1. /\ u \in Users /\ x \in Nat /\ t \in Nat /\ stake[u] \in Nat
        /\ stake[u] >= x /\ stake[u] - x \in Nat
    BY <1>0, <1>10 DEF Unstake, StakeCovers, IInv, RequestSound, Serving, TypeOK
  <2>2. /\ bal' = [bal EXCEPT ![u] = bal[u] + x]
        /\ rew' = Advanced(t) /\ ck' = c
        /\ dust' = dust \cup Rounded(u, Effective(u, stake[u] - x), t)
        /\ stake' = [stake EXCEPT ![u] = stake[u] - x]
        /\ farm' = [farm EXCEPT !.total = Max({0, farm.total - x})]
        /\ Answer(p) /\ UNCHANGED <<now, funds, power, boosts>>
    BY <1>10 DEF Unstake, Settle
  <2> HIDE DEF u, x, t, c
  <2>3. SettlesTo(c, u, stake[u] - x, Advanced(t).acc)
    BY <2>1, SettledSound DEF c
  <2>4. /\ rew' \in [acc : Nat, dist : Nat, total : Nat, first : Times, last : Nat]
        /\ DOMAIN ck' \subseteq Users
        /\ \A v \in DOMAIN ck' : ck'[v] \in [accrued : Nat, debt : Nat, claimed : Nat]
        /\ Emitted' /\ Unboosted'
        /\ \A d \in dust' : d \in (DOMAIN ck') \X (0..rew'.acc)
        /\ \A v \in Users \ DOMAIN ck' : stake'[v] = 0
    <3>1. c[u] \in [accrued : Nat, debt : Nat, claimed : Nat]
      BY <2>3 DEF SettlesTo
    <3> QED
      BY <2>1, <2>2, <3>1, SettleSound DEF c
  <2>5. /\ farm' \in [status : Statuses, start : Times, end : Times, total : Nat]
        /\ farm'.total = Sum(stake', Users)
    <3>1. /\ Sum(stake', Users) = farm.total - stake[u] + (stake[u] - x)
          /\ farm.total \in Nat /\ Sum(stake', Users) \in Nat
      BY <2>1, <2>2, TotalMoves
    <3>2. farm.total - x \in Int /\ farm.total - x = Sum(stake', Users) /\ farm.total - x >= 0
      BY <2>1, <3>1
    <3>3. Max({0, farm.total - x}) = farm.total - x
      BY <3>2, MaxOfTwo
    <3> QED
      BY <1>0, <2>1, <2>2, <3>1, <3>2, <3>3 DEF TypeOK
  <2>6. \A v \in Users : bal'[v] \in Nat /\ stake'[v] \in Nat /\ bal'[v] + stake'[v] = Opening
    <3>1. \A v \in Users : bal[v] \in Nat /\ stake[v] \in Nat /\ bal[v] + stake[v] = Opening
      BY <1>0 DEF IInv, Staked, TypeOK
    <3> QED
      BY <1>0, <2>1, <2>2, <3>1 DEF TypeOK
  <2>7. TypeOK'
    BY <1>0, <2>1, <2>2, <2>4, <2>5, <2>6 DEF TypeOK
  <2>8. Staked'
    BY <2>4, <2>5, <2>6 DEF Staked
  <2> QED
    BY <2>2, <2>4, <2>7, <2>8, AnswerSound DEF IInv
<1>11. ASSUME NEW p \in Procs, Claim(p) PROVE IInv'
  <2> DEFINE u == req[p].user
             t == req[p].at
             e == Effective(u, stake[u])
             c == Settled(u, e, e, t)
  <2>1. u \in Users /\ t \in Nat /\ stake[u] \in Nat /\ u \in DOMAIN ck
    BY <1>0, <1>11 DEF Claim, IInv, RequestSound, Serving, TypeOK
  <2>2. /\ rew' = Advanced(t)
        /\ dust' = dust \cup Rounded(u, e, t)
        /\ ck' = [c EXCEPT ![u].accrued = 0, ![u].claimed = c[u].claimed + c[u].accrued]
        /\ Answer(p) /\ UNCHANGED <<now, farm, stake, bal, funds, power, boosts>>
    BY <1>11 DEF Claim
  <2> HIDE DEF u, t, c
  <2>3. SettlesTo(c, u, stake[u], Advanced(t).acc)
    BY <2>1, SettledSound DEF c
  <2> HIDE DEF e
  <2>4. /\ DOMAIN c = DOMAIN ck \cup {u} /\ c[u] \in [accrued : Nat, debt : Nat, claimed : Nat]
    BY <2>3 DEF SettlesTo
  <2>5. /\ DOMAIN ck' = DOMAIN c /\ \A v \in DOMAIN c : v # u => ck'[v] = c[v]
        /\ ck'[u] = [c[u] EXCEPT !.accrued = 0, !.claimed = c[u].claimed + c[u].accrued]
    BY <2>2, <2>4
  <2>6. /\ ck'[u] \in [accrued : Nat, debt : Nat, claimed : Nat] /\ ck'[u].debt = c[u].debt
        /\ ck'[u].accrued + ck'[u].claimed = c[u].accrued + c[u].claimed
    <3>1. c[u].claimed + c[u].accrued \in Nat /\ c[u].accrued \in Nat /\ c[u].claimed \in Nat
      BY <2>4
    <3> DEFINE y == ck'[u]
               z == c[u]
               n == c[u].claimed + c[u].accrued
    <3>2. y = [z EXCEPT !.accrued = 0, !.claimed = n] /\ n \in Nat
          /\ z \in [accrued : Nat, debt : Nat, claimed : Nat]
      BY <2>4, <2>5, <3>1
    <3> HIDE DEF y, z, n
    <3>3. /\ y \in [accrued : Nat, debt : Nat, claimed : Nat]
          /\ y.debt = z.debt /\ y.accrued = 0 /\ y.claimed = n
      BY <3>2
    <3> USE DEF y, z, n
    <3> QED
      BY <3>1, <3>3
  <2>7. stake' = [stake EXCEPT ![u] = stake[u]]
    BY <1>0, <2>2 DEF TypeOK
  <2>8. /\ rew' \in [acc : Nat, dist : Nat, total : Nat, first : Times, last : Nat]
        /\ DOMAIN ck' \subseteq Users
        /\ \A v \in DOMAIN ck' : ck'[v] \in [accrued : Nat, debt : Nat, claimed : Nat]
        /\ Emitted' /\ Unboosted'
        /\ \A d \in dust' : d \in (DOMAIN ck') \X (0..rew'.acc)
        /\ \A v \in Users \ DOMAIN ck' : stake'[v] = 0
    BY <2>1, <2>2, <2>5, <2>6, <2>7, SettleSound DEF c, e
  <2>9. TypeOK'
    BY <1>0, <2>2, <2>8 DEF TypeOK
  <2>10. Staked'
    BY <2>2, <2>8 DEF IInv, Staked
  <2> QED
    BY <2>2, <2>8, <2>9, <2>10, AnswerSound DEF IInv
<1>12. CASE UNCHANGED vars
  <2>1. TypeOK' /\ DOMAIN req' = Procs /\ \A p \in Procs : RequestSound(p)'
    BY <1>0, <1>12 DEF vars, TypeOK, IInv, RequestSound, Serving
  <2> QED
    BY <1>12, <2>1, BooksKept DEF vars, books, IInv
<1> QED
  BY <1>1, <1>2, <1>3, <1>4, <1>5, <1>6, <1>7, <1>8, <1>9, <1>10, <1>11, <1>12 DEF Next

----
(* The inductive invariant holds in every reachable state.                   *)
THEOREM FarmInvariant == Spec => []IInv
  BY InitIInv, StepIInv, PTL DEF Spec

(* The total Stake and Unstake keep is the sum of the stakes, and what left  *)
(* a user's balance is staked, over requests in any order.                   *)
THEOREM FarmStakesBacked == Spec => []StakesBacked
<1>1. IInv => StakesBacked
  BY DEF IInv, Staked, StakesBacked
<1> QED
  BY <1>1, FarmInvariant, PTL

(* advanceReward never emits more than the rate over the time its checkpoint *)
(* moved, nor more than was funded, with clocks read out of order.           *)
THEOREM FarmEmittedOnce == Spec => []EmittedOnce
<1>1. ASSUME IInv PROVE EmittedOnce
  <2>1. rew.total \in Int /\ Rate * (rew.last - rew.first) \in Int
    <3>1. rew.total \in Nat /\ rew.last \in Nat /\ rew.first \in Nat /\ Rate \in Nat
      BY <1>1, FarmAssumption DEF IInv, TypeOK
    <3>2. rew.last - rew.first \in Int
      BY <3>1
    <3> QED
      BY <3>1, <3>2
  <2>2. rew.dist <= rew.total /\ rew.dist <= Rate * (rew.last - rew.first)
    BY <1>1 DEF IInv, Emitted
  <2> QED
    BY <2>1, <2>2, MinOfTwo DEF EmittedOnce
<1> QED
  BY <1>1, FarmInvariant, PTL

(* Without boosts accrueStake and Claim give stakers no more than the stream *)
(* emitted, and one unit for each debt rounded down.                         *)
THEOREM FarmPaidWithinFunded == Spec => []PaidWithinFundedUnboosted
<1>1. ASSUME IInv PROVE PaidWithinFundedUnboosted
  <2> SUFFICES ASSUME boosts = 0
               PROVE  Sum([u \in DOMAIN ck |-> ck[u].claimed + ck[u].accrued], DOMAIN ck)
                         <= rew.dist + Cardinality(dust)
    BY <1>1 DEF IInv, Emitted, PaidWithinFundedUnboosted
  <2> DEFINE paid == [u \in DOMAIN ck |-> ck[u].claimed + ck[u].accrued]
             zero == [u \in DOMAIN ck |-> 0]
             f == Due(ck, stake, rew.acc, dust)
             g == [u \in DOMAIN ck |-> zero[u] + Scale * paid[u]]
             D == DOMAIN ck
  <2>1. /\ D \subseteq Users /\ IsFiniteSet(D) /\ Scale \in Nat \ {0}
        /\ Covered(ck, stake, rew, dust)
    BY <1>1, FarmAssumption, FS_Subset DEF IInv, TypeOK, Unboosted
  <2>2. ASSUME NEW u \in D
        PROVE  /\ f[u] \in Int /\ g[u] \in Int /\ g[u] <= f[u]
               /\ zero[u] \in Int /\ paid[u] \in Int /\ g[u] = zero[u] + Scale * paid[u]
    <3>1. /\ ck[u] \in [accrued : Nat, debt : Nat, claimed : Nat] /\ stake[u] \in Nat /\ rew.acc \in Nat
          /\ Scale * ck[u].debt <= stake[u] * rew.acc /\ u \in Users
      BY <1>1, <2>1 DEF IInv, TypeOK, Covered
    <3>2. f[u] = DueTo(u, ck[u], stake[u], rew.acc, dust)
      BY <3>1 DEF Due
    <3>3. f[u] \in Int /\ Slack(u, stake[u], rew.acc, dust) \in Nat
      BY <3>1, <3>2, DueInt
    <3>4. Scale * (ck[u].accrued + ck[u].claimed - ck[u].debt) = Scale * paid[u] - Scale * ck[u].debt
      BY <2>1, <3>1
    <3>5. Scale * paid[u] \in Nat /\ Scale * ck[u].debt \in Nat /\ stake[u] * rew.acc \in Nat /\ paid[u] \in Int
      BY <2>1, <3>1, Products
    <3>6. f[u] = Scale * paid[u] - Scale * ck[u].debt + stake[u] * rew.acc + Slack(u, stake[u], rew.acc, dust)
      BY <3>2, <3>4 DEF DueTo
    <3>7. zero[u] = 0 /\ g[u] = Scale * paid[u]
      BY <3>5
    <3> HIDE DEF paid, zero, f, g
    <3> QED
      BY <3>1, <3>3, <3>5, <3>6, <3>7
  <2>3. \A u \in Users : f[u] \in Int
    <3> SUFFICES ASSUME NEW u \in Users, u \notin D PROVE f[u] \in Int
      BY <2>2
    <3> QED
      BY DEF Due
  <2>4. \A u \in Users : f[u] # 0 => u \in D
    BY DEF Due
  <2> HIDE DEF f, g, paid, zero, D
  <2>5. Sum(f, Users) = Sum(f, D)
    BY <2>1, <2>3, <2>4, SumZeroOutside, FarmAssumption
  <2>6. Sum(g, D) <= Sum(f, D)
    BY <2>1, <2>2, SumMonotone
  <2>7. Sum(g, D) = Sum(zero, D) + Scale * Sum(paid, D)
    BY <2>1, <2>2, SumLinear
  <2>8. Sum(zero, D) = 0
    <3>1. \A u \in D : zero[u] = 0
      BY DEF zero, D
    <3>2. \A u \in D : zero[u] \in Int /\ (zero[u] # 0 => u \in {})
      BY <3>1
    <3>3. Sum(zero, D) = Sum(zero, {})
      BY <2>1, <3>2, SumZeroOutside
    <3> QED
      BY <3>3, SumEmpty
  <2>9. /\ Sum(paid, D) \in Int /\ Sum(f, D) \in Int /\ rew.dist \in Nat /\ Cardinality(dust) \in Nat
        /\ Sum(f, Users) <= Scale * (rew.dist + Cardinality(dust))
    BY <1>1, <2>1, <2>2, SumInt, DustFinite DEF IInv, TypeOK, Covered, f
  <2>10. Scale * Sum(paid, D) <= Scale * (rew.dist + Cardinality(dust))
    <3>1. Scale * Sum(paid, D) \in Int /\ Scale * (rew.dist + Cardinality(dust)) \in Int
      BY <2>1, <2>9
    <3> QED
      BY <2>5, <2>6, <2>7, <2>8, <2>9, <3>1
  <2>11. Sum(paid, D) <= rew.dist + Cardinality(dust)
    <3>1. ASSUME NEW a \in Int, NEW b \in Int, Scale * a <= Scale * b PROVE a <= b
      BY <2>1, <3>1
    <3> QED
      BY <2>9, <2>10, <3>1
  <2> QED
    BY <2>11 DEF paid, D
<1> QED
  BY <1>1, FarmInvariant, PTL
====
