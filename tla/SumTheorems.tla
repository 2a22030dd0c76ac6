---- MODULE SumTheorems ----
(***************************************************************************)
(* Facts about Sum.                                                        *)
(***************************************************************************)
EXTENDS Sums, FiniteSetTheorems, TLAPS

(* Among subsets of a finite set there is a minimal one: the form of         *)
(* induction all facts below are proved with.                                *)
LEMMA MinimalSubset ==
  ASSUME NEW S, IsFiniteSet(S), NEW F \in SUBSET SUBSET S, F # {}
  PROVE  \E U \in F : \A V \in F : V \subseteq U => V = U
<1>1. IsWellFoundedOn(StrictSubsetOrdering(S), FiniteSubsetsOf(S)) /\ FiniteSubsetsOf(S) = SUBSET S
  BY FS_StrictSubsetOrderingWellFounded, FS_FiniteSubsetsOfFinite
<1>2. PICK U \in F : \A V \in F : <<V, U>> \notin StrictSubsetOrdering(S)
  BY <1>1, WFMin
<1>3. \A V \in F : V \subseteq U => V = U
  BY <1>2 DEF StrictSubsetOrdering
<1> QED
  BY <1>3

(* Induction over the natural numbers, for a set.                            *)
LEMMA NatSetInduction ==
  ASSUME NEW T, 0 \in T, \A n \in Nat : n \in T => n + 1 \in T
  PROVE  Nat \subseteq T
<1> SUFFICES ASSUME Nat \ T # {} PROVE FALSE
  OBVIOUS
<1> DEFINE R == {p \in Nat \X Nat : p[1] < p[2]}
<1>1. IsWellFoundedOn(R, Nat)
  BY NatLessThanWellFounded DEF OpToRel
<1>2. PICK n \in Nat \ T : \A m \in Nat \ T : <<m, n>> \notin R
  BY <1>1, WFMin
<1>3. \A m \in Nat \ T : ~(m < n)
  BY <1>2
<1>4. n # 0 /\ n - 1 \in Nat /\ n - 1 < n
  OBVIOUS
<1>5. n - 1 \in T
  BY <1>3, <1>4
<1> QED
  BY <1>4, <1>5

(* The least element of a set of naturals. *)
LEMMA MinOfNaturals ==
  ASSUME NEW S \in SUBSET Nat, S # {}
  PROVE  Min(S) \in S /\ \A x \in S : Min(S) <= x
<1> DEFINE R == {p \in Nat \X Nat : p[1] < p[2]}
<1>1. IsWellFoundedOn(R, Nat)
  BY NatLessThanWellFounded DEF OpToRel
<1>2. PICK n \in S : \A m \in S : <<m, n>> \notin R
  BY <1>1, WFMin
<1>3. n \in Nat /\ \A m \in S : m \in Nat /\ ~(m < n)
  BY <1>2
<1>4. \A m \in S : n <= m
  BY <1>3
<1> QED
  BY <1>4 DEF Min

LEMMA MinOfTwo ==
  ASSUME NEW a \in Int, NEW b \in Int
  PROVE  Min({a, b}) = IF a <= b THEN a ELSE b
  BY DEF Min

LEMMA MaxOfTwo ==
  ASSUME NEW a \in Int, NEW b \in Int
  PROVE  Max({a, b}) = IF a <= b THEN b ELSE a
  BY DEF Max

Chosen(s) == CHOOSE x \in s : TRUE

(* g sums f over every subset of S, in the order Chosen.                     *)
IsSumming(g, f, S) ==
  g = [s \in SUBSET S |-> IF s = {} THEN 0 ELSE f[Chosen(s)] + g[s \ {Chosen(s)}]]

LEMMA SumDef == \A f, S : Sum(f, S) = (CHOOSE g : IsSumming(g, f, S))[S]
  BY DEF Sum, MapThenSumSet, MapThenFoldSet, IsSumming, Chosen

(* Two summing functions agree where both are defined.                       *)
LEMMA SummingUnique ==
  ASSUME NEW f, NEW S, IsFiniteSet(S), NEW U \in SUBSET S,
         NEW g, IsSumming(g, f, S), NEW h, IsSumming(h, f, U)
  PROVE  \A s \in SUBSET U : g[s] = h[s]
<1> DEFINE F == {s \in SUBSET U : g[s] # h[s]}
<1> SUFFICES ASSUME F # {} PROVE FALSE
  OBVIOUS
<1>1. IsFiniteSet(U)
  BY FS_Subset
<1>2. PICK s \in F : \A t \in F : t \subseteq s => t = s
  <2>1. F \in SUBSET SUBSET U
    OBVIOUS
  <2> HIDE DEF F
  <2> QED
    BY <1>1, <2>1, MinimalSubset
<1>3. /\ g[s] = IF s = {} THEN 0 ELSE f[Chosen(s)] + g[s \ {Chosen(s)}]
      /\ h[s] = IF s = {} THEN 0 ELSE f[Chosen(s)] + h[s \ {Chosen(s)}]
  BY DEF IsSumming
<1>4. s # {}
  BY <1>3
<1>5. Chosen(s) \in s
  BY <1>4 DEF Chosen
<1>6. s \ {Chosen(s)} \in SUBSET U /\ s \ {Chosen(s)} # s
  BY <1>5
<1>7. g[s \ {Chosen(s)}] = h[s \ {Chosen(s)}]
  BY <1>2, <1>6
<1> QED
  BY <1>3, <1>4, <1>7

(* The recursive function Sum is defined by exists: it is built up by size.  *)
LEMMA SummingExists ==
  ASSUME NEW f, NEW S, IsFiniteSet(S)
  PROVE  \E g : IsSumming(g, f, S)
<1> DEFINE Small(n) == {s \in SUBSET S : Cardinality(s) <= n}
           Sums(g, n) == g = [s \in Small(n) |->
                                 IF s = {} THEN 0 ELSE f[Chosen(s)] + g[s \ {Chosen(s)}]]
           T == {n \in Nat : \E g : Sums(g, n)}
<1>1. \A s \in SUBSET S : IsFiniteSet(s) /\ Cardinality(s) \in Nat /\ Cardinality(s) <= Cardinality(S)
  BY FS_Subset, FS_CardinalityType
<1>2. 0 \in T
  <2> DEFINE g == [s \in Small(0) |-> 0]
  <2>1. \A s \in Small(0) : s = {}
    BY <1>1, FS_EmptySet
  <2>2. Sums(g, 0)
    BY <2>1
  <2> QED
    BY <2>2
<1>3. ASSUME NEW n \in Nat, n \in T PROVE n + 1 \in T
  <2>1. PICK h : Sums(h, n)
    BY <1>3
  <2> DEFINE g == [s \in Small(n + 1) |->
                     IF s = {} THEN 0 ELSE f[Chosen(s)] + h[s \ {Chosen(s)}]]
  <2>2. ASSUME NEW s \in Small(n + 1), s # {} PROVE g[s \ {Chosen(s)}] = h[s \ {Chosen(s)}]
    <3> DEFINE t == s \ {Chosen(s)}
    <3>1. Chosen(s) \in s
      BY <2>2 DEF Chosen
    <3>2. Cardinality(t) = Cardinality(s) - 1 /\ t \in SUBSET S
      BY <1>1, <3>1, FS_RemoveElement
    <3>3. t \in Small(n) /\ t \in Small(n + 1)
      BY <1>1, <3>2
    <3>4. g[t] = IF t = {} THEN 0 ELSE f[Chosen(t)] + h[t \ {Chosen(t)}]
      BY <3>3
    <3>5. h[t] = IF t = {} THEN 0 ELSE f[Chosen(t)] + h[t \ {Chosen(t)}]
      BY <2>1, <3>3
    <3> QED
      BY <3>4, <3>5
  <2>3. Sums(g, n + 1)
    BY <2>2
  <2> HIDE DEF g, Sums
  <2> QED
    BY <2>3
<1>4. Cardinality(S) \in T
  <2> HIDE DEF T
  <2> QED
    BY <1>1, <1>2, <1>3, NatSetInduction
<1>5. Small(Cardinality(S)) = SUBSET S
  BY <1>1
<1> QED
  BY <1>4, <1>5 DEF IsSumming

LEMMA SumSumming ==
  ASSUME NEW f, NEW S, IsFiniteSet(S), NEW g, IsSumming(g, f, S), NEW U \in SUBSET S
  PROVE  Sum(f, U) = g[U]
<1>1. IsFiniteSet(U)
  BY FS_Subset
<1> DEFINE h == CHOOSE h : IsSumming(h, f, U)
<1>2. IsSumming(h, f, U) /\ Sum(f, U) = h[U]
  BY <1>1, SummingExists, SumDef
<1> HIDE DEF h
<1> QED
  BY <1>2, SummingUnique

(* Sum takes the elements of a set one after the other.                      *)
LEMMA SumStep ==
  ASSUME NEW f, NEW S, IsFiniteSet(S)
  PROVE  /\ S = {} => Sum(f, S) = 0
         /\ S # {} => Chosen(S) \in S /\ Sum(f, S) = f[Chosen(S)] + Sum(f, S \ {Chosen(S)})
<1>1. PICK g : IsSumming(g, f, S)
  BY SummingExists
<1>2. \A U \in SUBSET S : Sum(f, U) = g[U]
  BY <1>1, SumSumming
<1>3. g[S] = IF S = {} THEN 0 ELSE f[Chosen(S)] + g[S \ {Chosen(S)}]
  BY <1>1 DEF IsSumming
<1>4. Sum(f, S) = g[S] /\ Sum(f, S \ {Chosen(S)}) = g[S \ {Chosen(S)}]
  BY <1>2
<1>5. S # {} => Chosen(S) \in S
  BY DEF Chosen
<1> QED
  BY <1>3, <1>4, <1>5

LEMMA SumInt ==
  ASSUME NEW f, NEW S, IsFiniteSet(S), \A x \in S : f[x] \in Int
  PROVE  Sum(f, S) \in Int
<1> DEFINE F == {U \in SUBSET S : Sum(f, U) \notin Int}
<1> SUFFICES ASSUME F # {} PROVE FALSE
  OBVIOUS
<1>1. PICK U \in F : \A V \in F : V \subseteq U => V = U
  <2>1. F \in SUBSET SUBSET S
    OBVIOUS
  <2> HIDE DEF F
  <2> QED
    BY <2>1, MinimalSubset
<1>2. IsFiniteSet(U)
  BY FS_Subset
<1>3. U # {}
  BY <1>2, SumStep
<1>4. Chosen(U) \in U /\ Sum(f, U) = f[Chosen(U)] + Sum(f, U \ {Chosen(U)})
  BY <1>2, <1>3, SumStep
<1>5. Sum(f, U \ {Chosen(U)}) \in Int
  BY <1>1, <1>4
<1> QED
  BY <1>4, <1>5

LEMMA SumEmpty == \A f : Sum(f, {}) = 0
  BY SumStep, FS_EmptySet

(* ... and the order does not matter.                                        *)
LEMMA SumRemove ==
  ASSUME NEW f, NEW S, IsFiniteSet(S), \A y \in S : f[y] \in Int, NEW x \in S
  PROVE  Sum(f, S) = f[x] + Sum(f, S \ {x})
<1> DEFINE F == {U \in SUBSET S : \E u \in U : Sum(f, U) # f[u] + Sum(f, U \ {u})}
<1>1. F = {}
  <2> SUFFICES ASSUME F # {} PROVE FALSE
    OBVIOUS
  <2>1. PICK U \in F : \A V \in F : V \subseteq U => V = U
    <3>1. F \in SUBSET SUBSET S
      OBVIOUS
    <3> HIDE DEF F
    <3> QED
      BY <3>1, MinimalSubset
  <2>2. PICK u \in U : Sum(f, U) # f[u] + Sum(f, U \ {u})
    OBVIOUS
  <2> DEFINE c == Chosen(U)
             W == (U \ {u}) \ {c}
  <2>3. IsFiniteSet(U) /\ U # {} /\ IsFiniteSet(W)
    BY FS_Subset
  <2>4. c \in U /\ Sum(f, U) = f[c] + Sum(f, U \ {c})
    BY <2>3, SumStep
  <2>5. c # u
    BY <2>2, <2>4
  <2>6. Sum(f, U \ {c}) = f[u] + Sum(f, (U \ {c}) \ {u})
    <3>1. U \ {c} \in SUBSET S /\ U \ {c} # U /\ u \in U \ {c}
      BY <2>4, <2>5
    <3> QED
      BY <2>1, <3>1
  <2>7. Sum(f, U \ {u}) = f[c] + Sum(f, W)
    <3>1. U \ {u} \in SUBSET S /\ U \ {u} # U /\ c \in U \ {u}
      BY <2>4, <2>5
    <3> QED
      BY <2>1, <3>1
  <2>8. (U \ {c}) \ {u} = W
    OBVIOUS
  <2>9. Sum(f, W) \in Int /\ f[c] \in Int /\ f[u] \in Int
    <3>1. Sum(f, W) \in Int
      BY <2>3, SumInt
    <3>2. f[c] \in Int /\ f[u] \in Int
      BY <2>4
    <3> QED
      BY <3>1, <3>2
  <2> HIDE DEF c, W
  <2>10. Sum(f, U) = f[c] + (f[u] + Sum(f, W))
    BY <2>4, <2>6, <2>8
  <2> QED
    BY <2>2, <2>7, <2>9, <2>10
<1> QED
  BY <1>1

(* Functions that agree on S have the same sum.                              *)
LEMMA SumAgree ==
  ASSUME NEW f, NEW g, NEW S, IsFiniteSet(S), \A x \in S : f[x] = g[x]
  PROVE  Sum(f, S) = Sum(g, S)
<1> DEFINE F == {U \in SUBSET S : Sum(f, U) # Sum(g, U)}
<1> SUFFICES ASSUME F # {} PROVE FALSE
  OBVIOUS
<1>1. PICK U \in F : \A V \in F : V \subseteq U => V = U
  <2>1. F \in SUBSET SUBSET S
    OBVIOUS
  <2> HIDE DEF F
  <2> QED
    BY <2>1, MinimalSubset
<1>2. IsFiniteSet(U)
  BY FS_Subset
<1>3. U # {}
  BY <1>2, SumStep
<1>4. Chosen(U) \in U /\ Sum(f, U) = f[Chosen(U)] + Sum(f, U \ {Chosen(U)})
      /\ Sum(g, U) = g[Chosen(U)] + Sum(g, U \ {Chosen(U)})
  BY <1>2, <1>3, SumStep
<1>5. Sum(f, U \ {Chosen(U)}) = Sum(g, U \ {Chosen(U)})
  BY <1>1, <1>4
<1> QED
  BY <1>4, <1>5

(* A new element adds its value.                                             *)
LEMMA SumAdd ==
  ASSUME NEW f, NEW S, IsFiniteSet(S), NEW x, x \notin S, \A y \in S \cup {x} : f[y] \in Int
  PROVE  /\ Sum(f, S \cup {x}) = Sum(f, S) + f[x]
         /\ Sum(f, S) \in Int /\ Sum(f, S \cup {x}) \in Int
<1>1. IsFiniteSet(S \cup {x}) /\ (S \cup {x}) \ {x} = S
  BY FS_AddElement
<1>2. Sum(f, S) \in Int /\ f[x] \in Int
  BY SumInt
<1>3. Sum(f, S \cup {x}) = f[x] + Sum(f, S)
  BY <1>1, SumRemove
<1> QED
  BY <1>2, <1>3

(* One value changes: the sum changes as it does.                            *)
LEMMA SumUpdate ==
  ASSUME NEW f, NEW g, NEW S, IsFiniteSet(S), NEW x \in S,
         \A y \in S : f[y] \in Int, g[x] \in Int, \A y \in S : y # x => g[y] = f[y]
  PROVE  Sum(g, S) = Sum(f, S) - f[x] + g[x] /\ Sum(f, S) \in Int
<1>1. \A h : (\A y \in S : h[y] \in Int) => Sum(h, S) = h[x] + Sum(h, S \ {x})
  BY SumRemove
<1>2. Sum(f, S) = f[x] + Sum(f, S \ {x}) /\ Sum(g, S) = g[x] + Sum(g, S \ {x})
  <2>1. \A y \in S : g[y] \in Int
    OBVIOUS
  <2> QED
    BY <1>1, <2>1
<1>3. Sum(g, S \ {x}) = Sum(f, S \ {x})
  <2>1. IsFiniteSet(S \ {x})
    BY FS_Subset
  <2> QED
    BY <2>1, SumAgree
<1>4. Sum(f, S \ {x}) \in Int /\ f[x] \in Int
  BY SumInt, FS_Subset
<1> QED
  BY <1>2, <1>3, <1>4

(* The sum grows with the values.                                            *)
LEMMA SumMonotone ==
  ASSUME NEW f, NEW g, NEW S, IsFiniteSet(S),
         \A x \in S : f[x] \in Int /\ g[x] \in Int /\ f[x] <= g[x]
  PROVE  Sum(f, S) <= Sum(g, S)
<1> DEFINE F == {U \in SUBSET S : ~(Sum(f, U) <= Sum(g, U))}
<1> SUFFICES ASSUME F # {} PROVE FALSE
  OBVIOUS
<1>1. PICK U \in F : \A V \in F : V \subseteq U => V = U
  <2>1. F \in SUBSET SUBSET S
    OBVIOUS
  <2> HIDE DEF F
  <2> QED
    BY <2>1, MinimalSubset
<1>2. IsFiniteSet(U)
  BY FS_Subset
<1>3. U # {}
  BY SumEmpty
<1> DEFINE c == Chosen(U)
<1>4. c \in U
  BY <1>2, <1>3, SumStep
<1>5. Sum(f, U) = f[c] + Sum(f, U \ {c}) /\ Sum(g, U) = g[c] + Sum(g, U \ {c})
  BY <1>2, <1>3, SumStep
<1>7. IsFiniteSet(U \ {c}) /\ f[c] \in Int /\ g[c] \in Int /\ f[c] <= g[c]
  BY <1>2, <1>4, FS_Subset
<1>8. Sum(f, U \ {c}) \in Int /\ Sum(g, U \ {c}) \in Int
  BY <1>7, SumInt
<1>6. Sum(f, U \ {c}) <= Sum(g, U \ {c})
  BY <1>1, <1>4
<1> QED
  BY <1>5, <1>6, <1>7, <1>8

LEMMA SumNat ==
  ASSUME NEW f, NEW S, IsFiniteSet(S), \A x \in S : f[x] \in Nat
  PROVE  Sum(f, S) \in Nat
<1> DEFINE F == {U \in SUBSET S : Sum(f, U) \notin Nat}
<1> SUFFICES ASSUME F # {} PROVE FALSE
  OBVIOUS
<1>1. PICK U \in F : \A V \in F : V \subseteq U => V = U
  <2>1. F \in SUBSET SUBSET S
    OBVIOUS
  <2> HIDE DEF F
  <2> QED
    BY <2>1, MinimalSubset
<1>2. IsFiniteSet(U)
  BY FS_Subset
<1>3. U # {}
  BY SumEmpty
<1>4. Chosen(U) \in U /\ Sum(f, U) = f[Chosen(U)] + Sum(f, U \ {Chosen(U)})
  BY <1>2, <1>3, SumStep
<1>5. Sum(f, U \ {Chosen(U)}) \in Nat
  BY <1>1, <1>4
<1> QED
  BY <1>4, <1>5

(* Elements of value zero can be left out.                                   *)
LEMMA SumZeroOutside ==
  ASSUME NEW f, NEW S, IsFiniteSet(S), NEW T \in SUBSET S,
         \A x \in S : f[x] \in Int, \A x \in S : f[x] # 0 => x \in T
  PROVE  Sum(f, S) = Sum(f, T)
<1> DEFINE F == {U \in SUBSET S : T \subseteq U /\ Sum(f, U) # Sum(f, T)}
<1> SUFFICES ASSUME F # {} PROVE FALSE
  OBVIOUS
<1>1. PICK U \in F : \A V \in F : V \subseteq U => V = U
  <2>1. F \in SUBSET SUBSET S
    OBVIOUS
  <2> HIDE DEF F
  <2> QED
    BY <2>1, MinimalSubset
<1>2. PICK x \in U : x \notin T
  OBVIOUS
<1>3. IsFiniteSet(U) /\ f[x] = 0 /\ \A y \in U : f[y] \in Int
  BY <1>2, FS_Subset
<1>4. Sum(f, U) = f[x] + Sum(f, U \ {x})
  BY <1>3, SumRemove
<1>5. Sum(f, U \ {x}) = Sum(f, T)
  BY <1>1, <1>2
<1>6. Sum(f, T) \in Int
  <2>1. IsFiniteSet(T) /\ \A y \in T : f[y] \in Int
    BY FS_Subset
  <2> QED
    BY <2>1, SumInt
<1> QED
  BY <1>3, <1>4, <1>5, <1>6

(* Fewer elements, smaller sum. *)
LEMMA SumSubset ==
  ASSUME NEW f, NEW g, NEW S, IsFiniteSet(S), NEW T \in SUBSET S,
         \A x \in S : f[x] \in Nat, \A x \in T : g[x] = f[x]
  PROVE  Sum(g, T) <= Sum(f, S)
<1> DEFINE h == [x \in S |-> IF x \in T THEN f[x] ELSE 0]
<1>1. IsFiniteSet(T)
  BY FS_Subset
<1>2. \A x \in S : h[x] \in Int /\ f[x] \in Int /\ h[x] <= f[x]
  OBVIOUS
<1>3. (\A x \in S : h[x] \in Int) /\ (\A x \in S : h[x] # 0 => x \in T)
  OBVIOUS
<1>4. \A x \in T : g[x] = h[x]
  OBVIOUS
<1> HIDE DEF h
<1>5. Sum(h, S) = Sum(h, T)
  BY <1>3, SumZeroOutside
<1>6. Sum(h, S) <= Sum(f, S)
  BY <1>2, SumMonotone
<1>7. Sum(g, T) = Sum(h, T)
  BY <1>1, <1>4, SumAgree
<1> QED
  BY <1>5, <1>6, <1>7

LEMMA SumLinear ==
  ASSUME NEW f, NEW g, NEW h, NEW S, IsFiniteSet(S), NEW k \in Int,
         \A x \in S : f[x] \in Int /\ g[x] \in Int /\ h[x] = f[x] + k * g[x]
  PROVE  Sum(h, S) = Sum(f, S) + k * Sum(g, S)
<1> SUFFICES ASSUME Sum(h, S) # Sum(f, S) + k * Sum(g, S) PROVE FALSE
  OBVIOUS
<1>1. PICK U \in SUBSET S :
        /\ Sum(h, U) # Sum(f, U) + k * Sum(g, U)
        /\ \A V \in SUBSET S :
              Sum(h, V) # Sum(f, V) + k * Sum(g, V) /\ V \subseteq U => V = U
  <2> DEFINE F == {V \in SUBSET S : Sum(h, V) # Sum(f, V) + k * Sum(g, V)}
  <2>1. F \in SUBSET SUBSET S /\ S \in F
    OBVIOUS
  <2>2. PICK U \in F : \A V \in F : V \subseteq U => V = U
    <3> HIDE DEF F
    <3> QED
      BY <2>1, MinimalSubset
  <2> QED
    BY <2>2
<1>2. IsFiniteSet(U)
  BY FS_Subset
<1>3. U # {}
  <2>1. Sum(f, {}) = 0 /\ Sum(g, {}) = 0 /\ Sum(h, {}) = 0 /\ 0 = 0 + k * 0
    BY SumEmpty
  <2> QED
    BY <1>1, <2>1
<1> DEFINE c == Chosen(U)
           W == U \ {c}
<1>4. /\ c \in U /\ Sum(f, U) = f[c] + Sum(f, W) /\ Sum(g, U) = g[c] + Sum(g, W)
      /\ Sum(h, U) = h[c] + Sum(h, W)
  BY <1>2, <1>3, SumStep
<1>5. Sum(h, W) = Sum(f, W) + k * Sum(g, W)
  BY <1>1, <1>4
<1>6. IsFiniteSet(W) /\ W \subseteq S
  BY <1>2, FS_Subset
<1>7. Sum(f, W) \in Int /\ Sum(g, W) \in Int
  BY <1>6, SumInt
<1>8. f[c] \in Int /\ g[c] \in Int /\ h[c] = f[c] + k * g[c]
  BY <1>4
<1> HIDE DEF c, W
<1>9. k * (g[c] + Sum(g, W)) = k * g[c] + k * Sum(g, W)
  BY <1>7, <1>8
<1> QED
  BY <1>1, <1>4, <1>5, <1>7, <1>8, <1>9

(* The sum of the same number for everyone.                                  *)
LEMMA SumConstant ==
  ASSUME NEW S, IsFiniteSet(S), NEW n \in Int, NEW f, \A x \in S : f[x] = n
  PROVE  Sum(f, S) = n * Cardinality(S)
<1> SUFFICES ASSUME Sum(f, S) # n * Cardinality(S) PROVE FALSE
  OBVIOUS
<1>1. PICK U \in SUBSET S :
        /\ Sum(f, U) # n * Cardinality(U)
        /\ \A V \in SUBSET S : Sum(f, V) # n * Cardinality(V) /\ V \subseteq U => V = U
  <2> DEFINE F == {V \in SUBSET S : Sum(f, V) # n * Cardinality(V)}
  <2>1. F \in SUBSET SUBSET S /\ S \in F
    OBVIOUS
  <2>2. PICK U \in F : \A V \in F : V \subseteq U => V = U
    <3> HIDE DEF F
    <3> QED
      BY <2>1, MinimalSubset
  <2> QED
    BY <2>2
<1>2. IsFiniteSet(U)
  BY FS_Subset
<1>3. U # {}
  <2>1. Sum(f, {}) = 0 /\ Cardinality({}) = 0 /\ n * 0 = 0
    BY SumEmpty, FS_EmptySet
  <2> QED
    BY <1>1, <2>1
<1> DEFINE c == Chosen(U)
           W == U \ {c}
<1>4. c \in U /\ Sum(f, U) = f[c] + Sum(f, W)
  BY <1>2, <1>3, SumStep
<1>5. PICK k \in Nat : k = Cardinality(W) /\ Cardinality(U) = k + 1
  <2>1. IsFiniteSet(W) /\ Cardinality(W) = Cardinality(U) - 1
    BY <1>2, <1>4, FS_RemoveElement
  <2>2. Cardinality(W) \in Nat /\ Cardinality(U) \in Nat
    BY <1>2, <2>1, FS_CardinalityType
  <2> HIDE DEF W
  <2> QED
    BY <2>1, <2>2
<1>6. Sum(f, W) = n * k
  BY <1>1, <1>4, <1>5
<1>7. n + n * k = n * (k + 1)
  BY <1>5
<1> HIDE DEF c, W
<1> QED
  BY <1>1, <1>4, <1>5, <1>6, <1>7
====
