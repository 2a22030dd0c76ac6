---- MODULE GovernanceProofs ----
(***************************************************************************)
(* Proofs about Governance for every finite set of users and gauges and    *)
(* any number of requests under way.                                       *)
(***************************************************************************)
EXTENDS Governance, SumTheorems

VotesFor(v, g) == Sum([u \in Users |-> v[u][g]], Users)
GaugeVotes(g) == VotesFor(votes, g)

Voting(p) == req[p].pc \in {"vote", "total"}

(* What a vote has read still stands, unless its gauge is raced or another   *)
(* vote of the same user was served beside it.                               *)
VoteSound(p) == Voting(p) =>
    /\ {"pc", "user", "gauge", "weight", "power", "alone"} \subseteq DOMAIN req[p]
    /\ req[p].user \in Users /\ req[p].gauge \in Gauges /\ req[p].weight \in Nat
    /\ req[p].alone => req[p].weight + Sum(votes[req[p].user], Gauges \ {req[p].gauge}) <= req[p].power
    /\ Serving(p, "vote") =>
          /\ "previous" \in DOMAIN req[p] /\ req[p].previous \in Nat
          /\ req[p].gauge \notin raced => req[p].previous = votes[req[p].user][req[p].gauge]
    /\ Serving(p, "total") =>
          /\ "newTotal" \in DOMAIN req[p] /\ req[p].newTotal \in Nat
          /\ req[p].gauge \notin raced =>
                req[p].newTotal =
                   total[req[p].gauge] - votes[req[p].user][req[p].gauge] + req[p].weight

Beside(p, q) ==
    /\ req[p].gauge = req[q].gauge => req[p].gauge \in raced
    /\ req[p].user = req[q].user => ~req[p].alone

VotesApart == \A p, q \in Procs : p # q /\ Voting(p) /\ Voting(q) => Beside(p, q)

(* A lock that is being withdrawn has ended; a bribe that is being funded    *)
(* counts the votes as they are; a share that is being claimed is right.     *)
OtherSound(p) ==
    /\ Serving(p, "lock") => req[p].user \in Users /\ req[p].amount \in Nat /\ req[p].dur \in Nat
    /\ Serving(p, "withdraw") => req[p].lock \in DOMAIN locks /\ locks[req[p].lock].unlock <= now
    /\ Serving(p, "bribe") =>
          /\ req[p] \in [pc : {"bribe"}, gauge : Gauges, amount : Nat, frozen : BOOLEAN, weight : Nat]
          /\ req[p].frozen => req[p].weight = GaugeVotes(req[p].gauge)
    /\ Serving(p, "claim") =>
          /\ req[p].user \in Users /\ req[p].bribe \in DOMAIN bribes /\ req[p].share \in Nat
          /\ bribes[req[p].bribe].weight # 0
          /\ bribes[req[p].bribe].frozen => req[p].share = Share(req[p].user, req[p].bribe)

LockType == [user : Users, amount : Nat, start : Nat, unlock : Nat, withdrawn : BOOLEAN]
BribeType == [gauge : Gauges, amount : Nat, weight : Nat, frozen : BOOLEAN, epoch : Nat]

TablesSound ==
    /\ TypeOK
    /\ \A i \in DOMAIN locks : locks[i] \in LockType
    /\ \A b \in DOMAIN bribes :
          /\ bribes[b] \in BribeType
          /\ bribes[b].frozen => bribes[b].weight = GaugeVotes(bribes[b].gauge)

Shares(b) == [u \in Users |-> Share(u, b)]
ClaimedBy(b) == {u \in Users : Claimed(u, b)}

(* While a bribe is frozen, each of its claims is the claimant's share.      *)
ClaimsSound ==
    /\ IsFiniteSet(claims) /\ ClaimedOnce
    /\ \A c \in claims : c.bribe \in DOMAIN bribes /\ bribes[c.bribe].weight # 0
    /\ \A b \in DOMAIN bribes : bribes[b].frozen => Paid(b) = Sum(Shares(b), ClaimedBy(b))

TotalsSound == \A g \in Gauges \ raced : total[g] = GaugeVotes(g)

IInv ==
    /\ TablesSound /\ ClaimsSound /\ TotalsSound
    /\ DOMAIN req = Procs /\ VotesApart
    /\ \A p \in Procs : VoteSound(p) /\ OtherSound(p)

(* Locks that exist stay, and end when they did. *)
LocksStay == /\ now <= now'
             /\ \A i \in DOMAIN locks : i \in DOMAIN locks' /\ locks'[i].unlock = locks[i].unlock

----
LEMMA GaugeVotesNat ==
  ASSUME TypeOK, NEW g \in Gauges, NEW u \in Users
  PROVE  GaugeVotes(g) \in Nat /\ votes[u][g] \in Nat /\ votes[u][g] <= GaugeVotes(g)
<1> DEFINE f == [v \in Users |-> votes[v][g]]
<1>1. \A v \in Users : f[v] \in Nat /\ f[v] \in Int
  BY DEF TypeOK
<1>2. IsFiniteSet(Users) /\ IsFiniteSet(Users \ {u})
  BY GovernanceAssumption, FS_Subset
<1>3. f[u] = votes[u][g] /\ GaugeVotes(g) = Sum(f, Users)
  BY DEF GaugeVotes, VotesFor
<1>4. \A v \in Users \ {u} : f[v] \in Nat
  BY <1>1
<1> HIDE DEF f
<1>5. Sum(f, Users) = f[u] + Sum(f, Users \ {u})
  BY <1>1, <1>2, SumRemove
<1>6. Sum(f, Users) \in Nat /\ Sum(f, Users \ {u}) \in Nat
  BY <1>1, <1>2, <1>4, SumNat
<1> QED
  BY <1>1, <1>3, <1>5, <1>6

LEMMA NoVotesNat == TypeOK => \A g \in Gauges : GaugeVotes(g) \in Nat
<1> SUFFICES ASSUME TypeOK, NEW g \in Gauges PROVE GaugeVotes(g) \in Nat
  OBVIOUS
<1> DEFINE f == [v \in Users |-> votes[v][g]]
<1>1. \A v \in Users : f[v] \in Nat
  BY DEF TypeOK
<1>2. GaugeVotes(g) = Sum(f, Users)
  BY DEF GaugeVotes, VotesFor
<1> HIDE DEF f
<1> QED
  BY <1>1, <1>2, SumNat, GovernanceAssumption

(* One vote is written: u's weight for g, in the table v that becomes e. *)
Writes(e, v, u, g) ==
    /\ \A x \in Users, h \in Gauges : v[x][h] \in Nat /\ e[x][h] \in Nat
    /\ \A x \in Users : x # u => e[x] = v[x]
    /\ \A h \in Gauges : h # g => e[u][h] = v[u][h]

LEMMA VotesMoved ==
  ASSUME NEW e, NEW v, NEW u \in Users, NEW g \in Gauges, Writes(e, v, u, g)
  PROVE  VotesFor(e, g) = VotesFor(v, g) - v[u][g] + e[u][g]
<1> DEFINE before == [x \in Users |-> v[x][g]]
           after == [x \in Users |-> e[x][g]]
<1>1. /\ \A x \in Users : before[x] \in Int
      /\ after[u] \in Int /\ \A x \in Users : x # u => after[x] = before[x]
  BY DEF Writes
<1>2. /\ VotesFor(e, g) = Sum(after, Users) /\ VotesFor(v, g) = Sum(before, Users)
      /\ after[u] = e[u][g] /\ before[u] = v[u][g]
  BY DEF VotesFor
<1> HIDE DEF after, before
<1>3. Sum(after, Users) = Sum(before, Users) - before[u] + after[u]
  BY <1>1, SumUpdate, GovernanceAssumption
<1> QED
  BY <1>2, <1>3

LEMMA VotesKept ==
  ASSUME NEW e, NEW v, NEW u \in Users, NEW g \in Gauges, Writes(e, v, u, g), NEW h \in Gauges, h # g
  PROVE  VotesFor(e, h) = VotesFor(v, h)
<1>1. [x \in Users |-> e[x][h]] = [x \in Users |-> v[x][h]]
  BY DEF Writes
<1> QED
  BY <1>1 DEF VotesFor

LEMMA UserVotes ==
  ASSUME NEW new, NEW old, NEW g \in Gauges,
         \A h \in Gauges : new[h] \in Int, \A h \in Gauges : h # g => new[h] = old[h]
  PROVE  Sum(new, Gauges) = new[g] + Sum(old, Gauges \ {g})
<1>1. Sum(new, Gauges) = new[g] + Sum(new, Gauges \ {g})
  BY SumRemove, GovernanceAssumption
<1>2. IsFiniteSet(Gauges \ {g}) /\ \A h \in Gauges \ {g} : new[h] = old[h]
  BY GovernanceAssumption, FS_Subset
<1>3. Sum(new, Gauges \ {g}) = Sum(old, Gauges \ {g})
  BY <1>2, SumAgree
<1> QED
  BY <1>1, <1>3

LEMMA Division ==
  ASSUME NEW n \in Nat, NEW s \in Nat \ {0}
  PROVE  n \div s \in Nat /\ s * (n \div s) <= n
  OBVIOUS

LEMMA Products == \A a, b \in Nat : a * b \in Nat
  OBVIOUS

(* Rounded down, the shares of the votes a bribe was funded under add up to  *)
(* no more than the bribe.                                                   *)
LEMMA SharesFit ==
  ASSUME TablesSound, NEW b \in DOMAIN bribes, bribes[b].weight # 0
  PROVE  /\ \A u \in Users : Share(u, b) \in Nat
         /\ bribes[b].frozen => Sum(Shares(b), ClaimedBy(b)) <= bribes[b].amount
<1> DEFINE W == bribes[b].weight
           A == bribes[b].amount
           g == bribes[b].gauge
           cast == [u \in Users |-> votes[u][g]]
           zero == [u \in Users |-> 0]
           left == [u \in Users |-> zero[u] + W * Shares(b)[u]]
           right == [u \in Users |-> zero[u] + A * cast[u]]
<1>1. bribes[b] \in BribeType /\ TypeOK
  BY DEF TablesSound
<1>2. W \in Nat \ {0} /\ A \in Nat /\ g \in Gauges
  BY <1>1 DEF BribeType
<1> HIDE DEF W, A, g
<1>3. ASSUME NEW u \in Users
      PROVE  /\ Share(u, b) \in Nat /\ cast[u] \in Int /\ cast[u] \in Nat
             /\ zero[u] = 0 /\ Shares(b)[u] \in Nat /\ Shares(b)[u] \in Int
             /\ left[u] \in Int /\ right[u] \in Int /\ left[u] <= right[u]
             /\ left[u] = zero[u] + W * Shares(b)[u] /\ right[u] = zero[u] + A * cast[u]
  <2>1. votes[u][g] \in Nat
    BY <1>1, <1>2 DEF TypeOK
  <2>2. A * votes[u][g] \in Nat
    BY <1>2, <2>1, Products
  <2>3. Share(u, b) = (A * votes[u][g]) \div W
    BY DEF Share, A, W, g
  <2>4. Share(u, b) \in Nat /\ W * Share(u, b) <= A * votes[u][g] /\ W * Share(u, b) \in Nat
    BY <1>2, <2>2, <2>3, Division, Products
  <2>5. Shares(b)[u] = Share(u, b) /\ cast[u] = votes[u][g] /\ zero[u] = 0
    BY DEF Shares
  <2>6. left[u] = zero[u] + W * Shares(b)[u] /\ right[u] = zero[u] + A * cast[u]
    OBVIOUS
  <2> HIDE DEF left, right, zero, cast
  <2> QED
    BY <2>1, <2>2, <2>4, <2>5, <2>6
<1> HIDE DEF left, right, zero, cast
<1>4. ASSUME bribes[b].frozen PROVE Sum(Shares(b), ClaimedBy(b)) <= A
  <2>1. Sum(cast, Users) = W
    BY <1>4 DEF TablesSound, GaugeVotes, VotesFor, cast, W, g
  <2>2. /\ \A u \in Users : zero[u] \in Int /\ Shares(b)[u] \in Int /\ left[u] = zero[u] + W * Shares(b)[u]
        /\ \A u \in Users : zero[u] \in Int /\ cast[u] \in Int /\ right[u] = zero[u] + A * cast[u]
    BY <1>3
  <2>3. Sum(left, Users) = Sum(zero, Users) + W * Sum(Shares(b), Users)
    BY <1>2, <2>2, SumLinear, GovernanceAssumption
  <2>4. Sum(right, Users) = Sum(zero, Users) + A * Sum(cast, Users)
    BY <1>2, <2>2, SumLinear, GovernanceAssumption
  <2>5. Sum(left, Users) <= Sum(right, Users)
    BY <1>3, SumMonotone, GovernanceAssumption
  <2>6. Sum(Shares(b), ClaimedBy(b)) <= Sum(Shares(b), Users)
    <3>1. ClaimedBy(b) \in SUBSET Users /\ \A u \in ClaimedBy(b) : Shares(b)[u] = Shares(b)[u]
      BY DEF ClaimedBy
    <3>2. \A u \in Users : Shares(b)[u] \in Nat
      BY <1>3
    <3> QED
      BY <3>1, <3>2, SumSubset, GovernanceAssumption
  <2>7. Sum(Shares(b), Users) \in Int /\ Sum(zero, Users) \in Int /\ Sum(Shares(b), ClaimedBy(b)) \in Int
    <3>1. IsFiniteSet(ClaimedBy(b)) /\ \A u \in ClaimedBy(b) : Shares(b)[u] \in Int
      BY <2>2, GovernanceAssumption, FS_Subset DEF ClaimedBy
    <3> QED
      BY <2>2, <3>1, SumInt, GovernanceAssumption
  <2>8. W * Sum(Shares(b), Users) <= W * A
    <3>1. W * Sum(Shares(b), Users) \in Int /\ A * W = W * A /\ A * W \in Int
      BY <1>2, <2>7
    <3> QED
      BY <2>1, <2>3, <2>4, <2>5, <2>7, <3>1
  <2>9. Sum(Shares(b), Users) <= A
    <3>1. ASSUME NEW n \in Int, W * n <= W * A PROVE n <= A
      BY <1>2, <3>1
    <3> QED
      BY <2>7, <2>8, <3>1
  <2> QED
    BY <1>2, <2>6, <2>7, <2>9
<1> QED
  BY <1>3, <1>4 DEF A

LEMMA ReadsKept ==
  ASSUME NEW p \in Procs, req'[p] = req[p], VoteSound(p), OtherSound(p), LocksStay,
         UNCHANGED <<votes, total, bribes, raced>>, TablesSound, TypeOK'
  PROVE  VoteSound(p)' /\ OtherSound(p)'
<1>1. VoteSound(p)'
  BY DEF VoteSound, Voting, Serving
<1>2. OtherSound(p)'
  <2>1. (Serving(p, "lock") => req[p].user \in Users /\ req[p].amount \in Nat /\ req[p].dur \in Nat)'
    BY DEF OtherSound, Serving
  <2>2. (Serving(p, "withdraw") => req[p].lock \in DOMAIN locks /\ locks[req[p].lock].unlock <= now)'
    <3> SUFFICES ASSUME Serving(p, "withdraw")
                 PROVE  req[p].lock \in DOMAIN locks' /\ locks'[req[p].lock].unlock <= now'
      BY DEF Serving
    <3>1. req[p].lock \in DOMAIN locks /\ locks[req[p].lock].unlock <= now
      BY DEF OtherSound
    <3>2. locks[req[p].lock] \in LockType /\ now \in Nat /\ now' \in Nat
      BY <3>1 DEF TablesSound, TypeOK
    <3> QED
      BY <3>1, <3>2 DEF LocksStay, LockType
  <2>3. (Serving(p, "bribe") =>
          /\ req[p] \in [pc : {"bribe"}, gauge : Gauges, amount : Nat, frozen : BOOLEAN, weight : Nat]
          /\ req[p].frozen => req[p].weight = GaugeVotes(req[p].gauge))'
    BY DEF OtherSound, Serving, GaugeVotes, VotesFor
  <2>4. (Serving(p, "claim") =>
          /\ req[p].user \in Users /\ req[p].bribe \in DOMAIN bribes /\ req[p].share \in Nat
          /\ bribes[req[p].bribe].weight # 0
          /\ bribes[req[p].bribe].frozen => req[p].share = Share(req[p].user, req[p].bribe))'
    BY DEF OtherSound, Serving, Share
  <2> QED
    BY <2>1, <2>2, <2>3, <2>4 DEF OtherSound
<1> QED
  BY <1>1, <1>2

(* Steps that only write locks, gauges' status or the clock, and at most     *)
(* change requests that are not votes.                                       *)
LEMMA QuietSound ==
  ASSUME IInv, UNCHANGED <<votes, total, bribes, claims, raced>>, LocksStay, TypeOK',
         \A i \in DOMAIN locks' : locks'[i] \in LockType, DOMAIN req' = Procs,
         \A p \in Procs : req'[p] = req[p] \/ (~Voting(p)' /\ OtherSound(p)')
  PROVE  IInv'
<1>1. TablesSound'
  BY DEF IInv, TablesSound, GaugeVotes, VotesFor
<1>2. ClaimsSound'
  BY DEF IInv, ClaimsSound, ClaimedOnce, Paid, Shares, Share, ClaimedBy, Claimed
<1>3. TotalsSound'
  BY DEF IInv, TotalsSound, GaugeVotes, VotesFor
<1>4. \A p \in Procs : VoteSound(p)' /\ OtherSound(p)'
  <2>1. \A p \in Procs : ~Voting(p)' => VoteSound(p)'
    BY DEF VoteSound
  <2> QED
    BY <2>1, ReadsKept DEF IInv
<1>5. VotesApart'
  <2>1. \A p \in Procs : Voting(p)' => Voting(p) /\ req'[p] = req[p]
    BY DEF Voting
  <2> QED
    BY <2>1 DEF IInv, VotesApart, Beside
<1> QED
  BY <1>1, <1>2, <1>3, <1>4, <1>5 DEF IInv

(* The request p goes on, the others stay. *)
LEMMA OneRequest ==
  ASSUME IInv, NEW p \in Procs, NEW r, req' = [req EXCEPT ![p] = r]
  PROVE  /\ DOMAIN req' = Procs /\ req'[p] = r
         /\ \A q \in Procs : q # p => req'[q] = req[q]
  BY DEF IInv

LEMMA AnswerQuiet ==
  ASSUME IInv, NEW p \in Procs, Answer(p)
  PROVE  /\ DOMAIN req' = Procs
         /\ \A q \in Procs : req'[q] = req[q] \/ (~Voting(q)' /\ OtherSound(q)')
<1>1. req'[p] = Idle /\ DOMAIN req' = Procs /\ \A q \in Procs : q # p => req'[q] = req[q]
  BY OneRequest DEF Answer
<1>2. ~Voting(p)' /\ OtherSound(p)'
  BY <1>1 DEF Voting, OtherSound, Serving, Idle
<1> QED
  BY <1>1, <1>2

(* VoteCheck: a vote begins with fresh reads.                                *)
LEMMA VoteCheckSound == ASSUME IInv, NEW p \in Procs, VoteCheck(p) PROVE IInv'
<1>1. PICK u \in Users, g \in Gauges, w \in Weights :
        /\ Serving(p, "idle") /\ w + Sum(votes[u], Gauges \ {g}) <= Power(u)
        /\ req' = StartVote(p, u, g, w)
        /\ raced' = raced \cup {h \in {g} : \E q \in Procs : VotingOn(q, h)}
        /\ UNCHANGED <<now, locks, status, total, votes, bribes, claims>>
  BY DEF VoteCheck
<1>2. /\ DOMAIN req' = Procs
      /\ req'[p] = [pc |-> "vote", user |-> u, gauge |-> g, weight |-> w,
                    previous |-> votes[u][g], power |-> Power(u),
                    alone |-> \A r \in Procs : ~VotingBy(r, u)]
      /\ \A q \in Procs : q # p =>
            req'[q] = IF VotingBy(q, u) THEN [req[q] EXCEPT !.alone = FALSE] ELSE req[q]
  BY <1>1 DEF StartVote
<1>3. raced \subseteq raced' /\ raced' \subseteq Gauges
  BY <1>1 DEF IInv, TablesSound, TypeOK
<1>4. w \in Nat /\ votes[u][g] \in Nat
  BY GovernanceAssumption DEF IInv, TablesSound, TypeOK
<1>5. TablesSound' /\ ClaimsSound'
  BY <1>1, <1>3 DEF IInv, TablesSound, TypeOK, ClaimsSound, ClaimedOnce, Paid, Shares, Share, ClaimedBy,
     Claimed, GaugeVotes, VotesFor
<1>6. TotalsSound'
  BY <1>1, <1>3 DEF IInv, TotalsSound, GaugeVotes, VotesFor
<1>7. VoteSound(p)' /\ OtherSound(p)'
  <2>1. /\ {"pc", "user", "gauge", "weight", "power", "alone", "previous"} \subseteq DOMAIN req'[p]
        /\ req'[p].pc = "vote" /\ req'[p].user = u /\ req'[p].gauge = g /\ req'[p].weight = w
        /\ req'[p].power = Power(u) /\ req'[p].previous = votes[u][g]
    BY <1>2
  <2> QED
    BY <1>1, <1>4, <2>1 DEF VoteSound, Voting, OtherSound, Serving
<1>8. ASSUME NEW q \in Procs, q # p, VotingBy(q, u)
      PROVE  /\ req'[q].pc = req[q].pc /\ req'[q].user = u /\ req[q].user = u /\ req'[q].gauge = req[q].gauge
             /\ req'[q].weight = req[q].weight /\ req'[q].alone = FALSE
             /\ DOMAIN req'[q] = DOMAIN req[q] /\ Voting(q)
             /\ Serving(q, "vote") => req'[q].previous = req[q].previous
             /\ Serving(q, "total") => req'[q].newTotal = req[q].newTotal
  <2>1. Voting(q) /\ VoteSound(q) /\ req[q].user = u
    BY <1>8 DEF IInv, Voting, VotingBy
  <2>2. req'[q] = [req[q] EXCEPT !.alone = FALSE]
    BY <1>2, <1>8
  <2> QED
    BY <2>1, <2>2 DEF VoteSound
<1>9. ASSUME NEW q \in Procs, q # p PROVE VoteSound(q)' /\ OtherSound(q)'
  <2>1. VoteSound(q) /\ OtherSound(q)
    BY DEF IInv
  <2>2. CASE VotingBy(q, u)
    <3>1. VoteSound(q)'
      BY <1>1, <1>3, <1>8, <1>9, <2>1, <2>2 DEF VoteSound, Voting, Serving
    <3>2. OtherSound(q)'
      BY <1>8, <1>9, <2>2 DEF OtherSound, Voting, Serving
    <3> QED
      BY <3>1, <3>2
  <2>3. CASE ~VotingBy(q, u)
    <3>1. req'[q] = req[q]
      BY <1>2, <1>9, <2>3
    <3>2. VoteSound(q)'
      BY <1>1, <1>3, <2>1, <3>1 DEF VoteSound, Voting, Serving
    <3>3. OtherSound(q)'
      BY <1>1, <2>1, <3>1 DEF OtherSound, Serving, GaugeVotes, VotesFor, Share
    <3> QED
      BY <3>2, <3>3
  <2> QED
    BY <2>2, <2>3
<1>10. \A q \in Procs : q # p =>
         /\ Voting(q)' => Voting(q) /\ req'[q].gauge = req[q].gauge /\ req'[q].user = req[q].user
         /\ ~req[q].alone => ~req'[q].alone
  <2> SUFFICES ASSUME NEW q \in Procs, q # p, Voting(q)' \/ ~req[q].alone
               PROVE  /\ Voting(q)' => Voting(q) /\ req'[q].gauge = req[q].gauge /\ req'[q].user = req[q].user
                      /\ ~req[q].alone => ~req'[q].alone
    OBVIOUS
  <2>1. CASE VotingBy(q, u)
    BY <1>8, <2>1
  <2>2. CASE ~VotingBy(q, u)
    BY <1>2, <2>2 DEF Voting
  <2> QED
    BY <2>1, <2>2
<1>11. ASSUME NEW q \in Procs, q # p, Voting(q)'
       PROVE  Beside(p, q)' /\ Beside(q, p)'
  <2>1. Voting(q) /\ req'[q].gauge = req[q].gauge /\ req'[q].user = req[q].user
    BY <1>10, <1>11
  <2>2. req'[p].gauge = g /\ req'[p].user = u /\ req'[p].alone = (\A r \in Procs : ~VotingBy(r, u))
    BY <1>2
  <2>3. ASSUME req[q].gauge = g PROVE g \in raced'
    BY <1>1, <2>1, <2>3 DEF VotingOn, Voting
  <2>4. ASSUME req[q].user = u PROVE ~req'[p].alone /\ ~req'[q].alone
    BY <1>8, <1>11, <2>1, <2>2, <2>4 DEF VotingBy, Voting
  <2> QED
    BY <2>1, <2>2, <2>3, <2>4 DEF Beside
<1>12. VotesApart'
  <2> SUFFICES ASSUME NEW q \in Procs, NEW r \in Procs, q # r, Voting(q)', Voting(r)'
               PROVE  Beside(q, r)'
    BY DEF VotesApart
  <2>1. CASE q # p /\ r # p
    <3>1. Beside(q, r)
      BY <1>10, <2>1 DEF IInv, VotesApart
    <3> QED
      BY <1>3, <1>10, <2>1, <3>1 DEF Beside
  <2> QED
    BY <1>11, <2>1
<1> QED
  BY <1>2, <1>5, <1>6, <1>7, <1>9, <1>12 DEF IInv

LEMMA InitIInv == Init => IInv
<1> SUFFICES ASSUME Init PROVE IInv
  OBVIOUS
<1>1. TypeOK
  BY GovernanceAssumption DEF Init, TypeOK
<1>2. IsFiniteSet(claims) /\ DOMAIN locks = {} /\ DOMAIN bribes = {}
  BY FS_EmptySet DEF Init
<1>3. ASSUME NEW g \in Gauges PROVE total[g] = GaugeVotes(g)
  <2> DEFINE f == [v \in Users |-> votes[v][g]]
  <2>1. \A v \in Users : f[v] = 0 /\ f[v] \in Int
    BY DEF Init
  <2>2. GaugeVotes(g) = Sum(f, Users)
    BY DEF GaugeVotes, VotesFor
  <2> HIDE DEF f
  <2>3. Sum(f, Users) = Sum(f, {})
    BY <2>1, SumZeroOutside, GovernanceAssumption
  <2> QED
    BY <2>2, <2>3, SumEmpty DEF Init
<1>4. \A p \in Procs : ~Voting(p) /\ VoteSound(p) /\ OtherSound(p)
  BY DEF Init, Idle, Voting, VoteSound, OtherSound, Serving
<1> QED
  BY <1>1, <1>2, <1>3, <1>4
     DEF IInv, TablesSound, ClaimsSound, ClaimedOnce, TotalsSound, VotesApart, Init

(* VoteReadTotal: where the gauge is not raced the total is the sum of its   *)
(* votes, so taking out the previous weight does not go below 0.             *)
LEMMA VoteReadTotalSound == ASSUME IInv, NEW p \in Procs, VoteReadTotal(p) PROVE IInv'
<1> DEFINE r == [pc |-> "total", user |-> req[p].user, gauge |-> req[p].gauge,
                 weight |-> req[p].weight, power |-> req[p].power, alone |-> req[p].alone,
                 newTotal |-> NewTotal(p)]
<1>1. /\ req[p].pc = "vote" /\ req' = [req EXCEPT ![p] = r]
      /\ UNCHANGED <<now, locks, status, total, votes, bribes, claims, raced>>
  BY DEF VoteReadTotal, Serving
<1>2. /\ r.pc = "total" /\ r.user = req[p].user /\ r.gauge = req[p].gauge /\ r.weight = req[p].weight
      /\ r.power = req[p].power /\ r.alone = req[p].alone /\ r.newTotal = NewTotal(p)
      /\ DOMAIN r = {"pc", "user", "gauge", "weight", "power", "alone", "newTotal"}
  OBVIOUS
<1> HIDE DEF r
<1>3. DOMAIN req' = Procs /\ req'[p] = r /\ \A q \in Procs : q # p => req'[q] = req[q]
  BY <1>1, OneRequest
<1>4. /\ VoteSound(p) /\ req[p].user \in Users /\ req[p].gauge \in Gauges /\ req[p].weight \in Nat
      /\ req[p].previous \in Nat
      /\ req[p].gauge \notin raced => req[p].previous = votes[req[p].user][req[p].gauge]
  BY <1>1 DEF IInv, VoteSound, Voting, Serving
<1>5. /\ total[req[p].gauge] \in Nat /\ TypeOK
      /\ req[p].gauge \notin raced => total[req[p].gauge] = GaugeVotes(req[p].gauge)
  BY <1>4 DEF IInv, TablesSound, TypeOK, TotalsSound
<1>6. NewTotal(p) \in Nat /\
      (req[p].gauge \notin raced => NewTotal(p) =
          total[req[p].gauge] - votes[req[p].user][req[p].gauge] + req[p].weight)
  <2> DEFINE n == total[req[p].gauge] - req[p].previous + req[p].weight
  <2>1. n \in Int
    BY <1>4, <1>5
  <2>2. NewTotal(p) = IF 0 <= n THEN n ELSE 0
    BY <2>1, MaxOfTwo DEF NewTotal
  <2>3. votes[req[p].user][req[p].gauge] \in Nat
        /\ votes[req[p].user][req[p].gauge] <= GaugeVotes(req[p].gauge)
    BY <1>4, <1>5, GaugeVotesNat
  <2> QED
    BY <1>4, <1>5, <2>1, <2>2, <2>3
<1>7. TablesSound' /\ ClaimsSound' /\ TotalsSound'
  BY <1>1 DEF IInv, TablesSound, TypeOK, ClaimsSound, ClaimedOnce, Paid, Shares, Share, ClaimedBy,
     Claimed, GaugeVotes, VotesFor, TotalsSound
<1>8. VoteSound(p)' /\ OtherSound(p)'
  <2>1. VoteSound(p)'
    BY <1>1, <1>2, <1>3, <1>4, <1>6 DEF VoteSound, Voting, Serving
  <2>2. OtherSound(p)'
    BY <1>2, <1>3 DEF OtherSound, Serving
  <2> QED
    BY <2>1, <2>2
<1>9. \A q \in Procs : VoteSound(q)' /\ OtherSound(q)'
  <2>1. LocksStay /\ TypeOK'
    BY <1>1, <1>5 DEF LocksStay, TypeOK
  <2> QED
    BY <1>1, <1>3, <1>8, <2>1, ReadsKept DEF IInv
<1>10. VotesApart'
  <2>1. \A q \in Procs : /\ Voting(q)' => Voting(q)
                         /\ Voting(q)' => req'[q].gauge = req[q].gauge /\ req'[q].user = req[q].user
                                          /\ req'[q].alone = req[q].alone
    BY <1>1, <1>2, <1>3 DEF Voting
  <2> QED
    BY <1>1, <2>1 DEF IInv, VotesApart, Beside
<1> QED
  BY <1>3, <1>7, <1>9, <1>10 DEF IInv

(* Vote: the other votes for the gauge are raced and those of the user are   *)
(* not alone, and what counts on the gauge's votes is frozen no more.        *)
LEMMA VoteKeeps == ASSUME IInv, NEW p \in Procs, Vote(p) PROVE IInv'
<1>1. PICK u \in Users, g \in Gauges, w \in Nat :
      /\ u = req[p].user /\ g = req[p].gauge /\ w = req[p].weight
      /\ Voting(p) /\ req[p].pc = "total" /\ req[p].newTotal \in Nat
      /\ g \notin raced => req[p].newTotal = total[g] - votes[u][g] + w
      /\ total' = [total EXCEPT ![g] = req[p].newTotal]
      /\ votes' = [votes EXCEPT ![u][g] = w]
      /\ bribes' = [b \in DOMAIN bribes |-> [bribes[b] EXCEPT !.frozen = @ /\ bribes[b].gauge # g]]
      /\ req' = [q \in Procs |->
            IF q = p THEN Idle
            ELSE IF Serving(q, "bribe") /\ req[q].gauge = g
                 THEN [req[q] EXCEPT !.frozen = FALSE] ELSE req[q]]
      /\ UNCHANGED <<now, locks, status, claims, raced>>
  <2>1. /\ Voting(p) /\ req[p].user \in Users /\ req[p].gauge \in Gauges /\ req[p].weight \in Nat
        /\ req[p].newTotal \in Nat
        /\ req[p].gauge \notin raced => req[p].newTotal =
              total[req[p].gauge] - votes[req[p].user][req[p].gauge] + req[p].weight
    BY DEF IInv, Vote, VoteSound, Voting, Serving
  <2> QED
    BY <2>1 DEF Vote, Serving
<1>3. TypeOK /\ TablesSound /\ ClaimsSound /\ TotalsSound
  BY DEF IInv, TablesSound
<1>4. /\ votes' \in [Users -> [Gauges -> Nat]]
      /\ GaugeVotes(g)' = GaugeVotes(g) - votes[u][g] + w
      /\ \A h \in Gauges : h # g => GaugeVotes(h)' = GaugeVotes(h)
      /\ \A v \in Users : v # u => votes'[v] = votes[v]
      /\ \A h \in Gauges : h # g => \A v \in Users : votes'[v][h] = votes[v][h]
  <2>1. votes \in [Users -> [Gauges -> Nat]]
    BY <1>3 DEF TypeOK
  <2>2. /\ votes' \in [Users -> [Gauges -> Nat]] /\ votes'[u][g] = w
        /\ \A v \in Users : v # u => votes'[v] = votes[v]
        /\ \A h \in Gauges : h # g => \A v \in Users : votes'[v][h] = votes[v][h]
    BY <1>1, <2>1
  <2>3. Writes(votes', votes, u, g)
    BY <2>1, <2>2 DEF Writes
  <2>4. VotesFor(votes', g) = VotesFor(votes, g) - votes[u][g] + votes'[u][g]
    BY <2>3, VotesMoved
  <2>5. ASSUME NEW h \in Gauges, h # g PROVE VotesFor(votes', h) = VotesFor(votes, h)
    BY <2>3, <2>5, VotesKept
  <2> QED
    BY <2>2, <2>4, <2>5 DEF GaugeVotes
<1>5. /\ \A h \in Gauges : h # g => total'[h] = total[h]
      /\ total'[g] = req[p].newTotal /\ total' \in [Gauges -> Nat]
  BY <1>1, <1>3 DEF TypeOK
<1>6. TotalsSound'
  <2> SUFFICES ASSUME NEW h \in Gauges, h \notin raced PROVE total'[h] = GaugeVotes(h)'
    BY <1>1 DEF TotalsSound
  <2>1. total[h] = GaugeVotes(h)
    BY <1>3 DEF TotalsSound
  <2>2. CASE h = g
    BY <1>1, <1>4, <1>5, <2>1, <2>2
  <2>3. CASE h # g
    BY <1>4, <1>5, <2>1, <2>3
  <2> QED
    BY <2>2, <2>3
<1>7. /\ DOMAIN bribes' = DOMAIN bribes
      /\ \A b \in DOMAIN bribes :
            /\ bribes'[b] \in BribeType
            /\ bribes'[b].gauge = bribes[b].gauge /\ bribes'[b].weight = bribes[b].weight
            /\ bribes'[b].amount = bribes[b].amount /\ bribes[b].gauge \in Gauges
            /\ bribes'[b].frozen => bribes[b].frozen /\ bribes[b].gauge # g
  <2>1. \A b \in DOMAIN bribes : bribes[b] \in BribeType
    BY <1>3 DEF TablesSound
  <2>2. ASSUME NEW b \in DOMAIN bribes
        PROVE  /\ bribes'[b] \in BribeType
               /\ bribes'[b].gauge = bribes[b].gauge /\ bribes'[b].weight = bribes[b].weight
               /\ bribes'[b].amount = bribes[b].amount /\ bribes[b].gauge \in Gauges
               /\ bribes'[b].frozen => bribes[b].frozen /\ bribes[b].gauge # g
    <3>1. bribes'[b] = [bribes[b] EXCEPT !.frozen = @ /\ bribes[b].gauge # g]
      BY <1>1
    <3>2. bribes[b] \in BribeType
      BY <2>1
    <3> QED
      BY <3>1, <3>2 DEF BribeType
  <2> QED
    BY <1>1, <2>2
<1>8. TablesSound'
  <2>1. TypeOK'
    BY <1>1, <1>3, <1>4, <1>5, <1>7 DEF TypeOK
  <2>2. \A i \in DOMAIN locks' : locks'[i] \in LockType
    BY <1>1, <1>3 DEF TablesSound
  <2>3. \A b \in DOMAIN bribes : bribes'[b].frozen =>
            bribes'[b].weight = GaugeVotes(bribes[b].gauge)'
    BY <1>3, <1>4, <1>7 DEF TablesSound
  <2> QED
    BY <1>7, <2>1, <2>2, <2>3 DEF TablesSound, LockType, BribeType, GaugeVotes, VotesFor
<1>9. ASSUME NEW b \in DOMAIN bribes, bribes'[b].frozen, NEW v \in Users
      PROVE  Share(v, b)' = Share(v, b)
  BY <1>4, <1>7, <1>9 DEF Share
<1>10. ClaimsSound'
  <2>1. ASSUME NEW b \in DOMAIN bribes, bribes'[b].frozen
        PROVE  Paid(b)' = Sum(Shares(b), ClaimedBy(b))'
    <3>1. Paid(b) = Sum(Shares(b), ClaimedBy(b))
      BY <1>3, <1>7, <2>1 DEF ClaimsSound
    <3>2. Paid(b)' = Paid(b) /\ ClaimedBy(b)' = ClaimedBy(b)
      BY <1>1 DEF Paid, ClaimedBy, Claimed
    <3>3. Shares(b)' = Shares(b)
      BY <1>9, <2>1 DEF Shares
    <3> QED
      BY <3>1, <3>2, <3>3
  <2> QED
    BY <1>1, <1>3, <1>7, <2>1 DEF ClaimsSound, ClaimedOnce
<1>11. DOMAIN req' = Procs /\ req'[p] = Idle
  BY <1>1
<1>12. ASSUME NEW q \in Procs, q # p
       PROVE  \/ req'[q] = req[q] /\ ~(Serving(q, "bribe") /\ req[q].gauge = g)
              \/ Serving(q, "bribe") /\ req'[q] = [req[q] EXCEPT !.frozen = FALSE]
  BY <1>1, <1>12
<1>13. ASSUME NEW q \in Procs, q # p
       PROVE  VoteSound(q)' /\ OtherSound(q)' /\ (Voting(q)' => Voting(q) /\ req'[q] = req[q])
  <2>1. VoteSound(q) /\ OtherSound(q)
    BY DEF IInv
  <2>2. CASE Serving(q, "bribe") /\ req'[q] = [req[q] EXCEPT !.frozen = FALSE]
    <3>1. req[q] \in [pc : {"bribe"}, gauge : Gauges, amount : Nat, frozen : BOOLEAN, weight : Nat]
      BY <2>1, <2>2 DEF OtherSound
    <3>2. /\ req'[q] \in [pc : {"bribe"}, gauge : Gauges, amount : Nat, frozen : BOOLEAN, weight : Nat]
          /\ req'[q].pc = "bribe" /\ req'[q].frozen = FALSE
      BY <2>2, <3>1
    <3> QED
      BY <3>2 DEF VoteSound, Voting, OtherSound, Serving
  <2>3. CASE req'[q] = req[q] /\ ~(Serving(q, "bribe") /\ req[q].gauge = g)
    <3>1. OtherSound(q)'
      <4>1. (Serving(q, "lock") => req[q].user \in Users /\ req[q].amount \in Nat /\ req[q].dur \in Nat)'
        BY <2>1, <2>3 DEF OtherSound, Serving
      <4>2. (Serving(q, "withdraw") => req[q].lock \in DOMAIN locks /\ locks[req[q].lock].unlock <= now)'
        BY <1>1, <2>1, <2>3 DEF OtherSound, Serving
      <4>3. (Serving(q, "bribe") =>
              /\ req[q] \in [pc : {"bribe"}, gauge : Gauges, amount : Nat, frozen : BOOLEAN, weight : Nat]
              /\ req[q].frozen => req[q].weight = GaugeVotes(req[q].gauge))'
        BY <1>4, <2>1, <2>3 DEF OtherSound, Serving
      <4>4. (Serving(q, "claim") =>
              /\ req[q].user \in Users /\ req[q].bribe \in DOMAIN bribes /\ req[q].share \in Nat
              /\ bribes[req[q].bribe].weight # 0
              /\ bribes[req[q].bribe].frozen => req[q].share = Share(req[q].user, req[q].bribe))'
        <5> SUFFICES ASSUME Serving(q, "claim")
                     PROVE  /\ req[q].user \in Users /\ req[q].bribe \in DOMAIN bribes'
                            /\ req[q].share \in Nat
                            /\ bribes'[req[q].bribe].weight # 0
                            /\ bribes'[req[q].bribe].frozen =>
                                  req[q].share = Share(req[q].user, req[q].bribe)'
          BY <2>3 DEF Serving, Share
        <5>1. /\ req[q].user \in Users /\ req[q].bribe \in DOMAIN bribes /\ req[q].share \in Nat
              /\ bribes[req[q].bribe].weight # 0
              /\ bribes[req[q].bribe].frozen => req[q].share = Share(req[q].user, req[q].bribe)
          BY <2>1 DEF OtherSound
        <5> QED
          BY <1>7, <1>9, <2>3, <5>1 DEF Share
      <4> QED
        BY <4>1, <4>2, <4>3, <4>4 DEF OtherSound
    <3>2. VoteSound(q)'
      <4> SUFFICES ASSUME Voting(q) PROVE VoteSound(q)'
        BY <2>3 DEF VoteSound, Voting
      <4>1. /\ req[q].gauge = g => g \in raced
            /\ req[q].user = u => ~req[q].alone
        BY <1>1, <1>13 DEF IInv, VotesApart, Beside
      <4>2. /\ req[q].user \in Users /\ req[q].gauge \in Gauges
            /\ {"pc", "user", "gauge", "weight", "power", "alone"} \subseteq DOMAIN req[q]
            /\ req[q].weight \in Nat
        BY <2>1 DEF VoteSound
      <4>3. req[q].alone => req[q].weight + Sum(votes'[req[q].user], Gauges \ {req[q].gauge}) <= req[q].power
        BY <1>4, <2>1, <4>1, <4>2 DEF VoteSound
      <4>4. req[q].gauge \notin raced =>
              /\ votes'[req[q].user][req[q].gauge] = votes[req[q].user][req[q].gauge]
              /\ total'[req[q].gauge] = total[req[q].gauge]
        BY <1>4, <1>5, <4>1, <4>2
      <4>5. Serving(q, "vote") =>
              /\ "previous" \in DOMAIN req[q] /\ req[q].previous \in Nat
              /\ req[q].gauge \notin raced => req[q].previous = votes'[req[q].user][req[q].gauge]
        BY <2>1, <4>4 DEF VoteSound
      <4>6. Serving(q, "total") =>
              /\ "newTotal" \in DOMAIN req[q] /\ req[q].newTotal \in Nat
              /\ req[q].gauge \notin raced =>
                    req[q].newTotal =
                       total'[req[q].gauge] - votes'[req[q].user][req[q].gauge] + req[q].weight
        BY <2>1, <4>4 DEF VoteSound
      <4> QED
        BY <1>1, <2>3, <4>2, <4>3, <4>5, <4>6 DEF VoteSound, Serving
    <3> QED
      BY <2>3, <3>1, <3>2 DEF Voting
  <2> QED
    BY <1>12, <1>13, <2>2, <2>3
<1>14. ~Voting(p)' /\ VoteSound(p)' /\ OtherSound(p)'
  BY <1>11 DEF Idle, Voting, VoteSound, OtherSound, Serving
<1>15. VotesApart'
  BY <1>1, <1>13, <1>14 DEF IInv, VotesApart, Beside
<1> QED
  BY <1>6, <1>8, <1>10, <1>11, <1>13, <1>14, <1>15 DEF IInv

(* Votes and requests other than p's are as before where neither votes nor   *)
(* totals change and the rows of bribes that were there stay.                *)
LEMMA OthersKept ==
  ASSUME IInv, NEW p \in Procs, Answer(p), UNCHANGED <<now, locks, total, votes, raced>>,
         \A b \in DOMAIN bribes : b \in DOMAIN bribes' /\ bribes'[b] = bribes[b]
  PROVE  /\ DOMAIN req' = Procs /\ VotesApart'
         /\ \A q \in Procs : VoteSound(q)' /\ OtherSound(q)'
<1>1. req'[p] = Idle /\ DOMAIN req' = Procs /\ \A q \in Procs : q # p => req'[q] = req[q]
  BY OneRequest DEF Answer
<1>2. ~Voting(p)' /\ VoteSound(p)' /\ OtherSound(p)'
  BY <1>1 DEF Idle, Voting, VoteSound, OtherSound, Serving
<1>3. ASSUME NEW q \in Procs, q # p PROVE VoteSound(q)' /\ OtherSound(q)'
  <2>1. VoteSound(q) /\ OtherSound(q) /\ req'[q] = req[q]
    BY <1>1, <1>3 DEF IInv
  <2>2. VoteSound(q)'
    BY <2>1 DEF VoteSound, Voting, Serving
  <2>3. (Serving(q, "lock") => req[q].user \in Users /\ req[q].amount \in Nat /\ req[q].dur \in Nat)'
    BY <2>1 DEF OtherSound, Serving
  <2>4. (Serving(q, "withdraw") => req[q].lock \in DOMAIN locks /\ locks[req[q].lock].unlock <= now)'
    BY <2>1 DEF OtherSound, Serving
  <2>5. (Serving(q, "bribe") =>
          /\ req[q] \in [pc : {"bribe"}, gauge : Gauges, amount : Nat, frozen : BOOLEAN, weight : Nat]
          /\ req[q].frozen => req[q].weight = GaugeVotes(req[q].gauge))'
    BY <2>1 DEF OtherSound, Serving, GaugeVotes, VotesFor
  <2>6. (Serving(q, "claim") =>
          /\ req[q].user \in Users /\ req[q].bribe \in DOMAIN bribes /\ req[q].share \in Nat
          /\ bribes[req[q].bribe].weight # 0
          /\ bribes[req[q].bribe].frozen => req[q].share = Share(req[q].user, req[q].bribe))'
    BY <2>1 DEF OtherSound, Serving, Share
  <2> QED
    BY <2>2, <2>3, <2>4, <2>5, <2>6 DEF OtherSound
<1>4. VotesApart'
  <2>1. \A q \in Procs : Voting(q)' => Voting(q) /\ req'[q] = req[q]
    BY <1>1, <1>2 DEF Voting
  <2> QED
    BY <2>1 DEF IInv, VotesApart, Beside
<1> QED
  BY <1>1, <1>2, <1>3, <1>4

(* AddBribe: a bribe that is frozen carries the sum of the gauge's votes, and *)
(* nobody has claimed it yet.                                                *)
LEMMA AddBribeSound == ASSUME IInv, NEW p \in Procs, AddBribe(p) PROVE IInv'
<1>1. PICK b \in Bribes \ DOMAIN bribes :
        /\ Serving(p, "bribe") /\ Answer(p)
        /\ bribes' = Insert(bribes, b,
               [gauge |-> req[p].gauge, amount |-> req[p].amount,
                weight |-> req[p].weight, frozen |-> req[p].frozen, epoch |-> now])
        /\ UNCHANGED <<now, locks, status, total, votes, claims, raced>>
  BY DEF AddBribe
<1>2. TypeOK /\ TablesSound /\ ClaimsSound /\ TotalsSound
  BY DEF IInv, TablesSound
<1>3. /\ DOMAIN bribes' = DOMAIN bribes \cup {b}
      /\ \A a \in DOMAIN bribes : bribes'[a] = bribes[a]
      /\ bribes'[b] = [gauge |-> req[p].gauge, amount |-> req[p].amount,
                       weight |-> req[p].weight, frozen |-> req[p].frozen, epoch |-> now]
  BY <1>1 DEF Insert
<1>4. /\ req[p].gauge \in Gauges /\ req[p].amount \in Nat /\ req[p].weight \in Nat
      /\ req[p].frozen \in BOOLEAN /\ now \in Nat
      /\ req[p].frozen => req[p].weight = GaugeVotes(req[p].gauge)
  <2>1. OtherSound(p)
    BY DEF IInv
  <2>2. req[p] \in [pc : {"bribe"}, gauge : Gauges, amount : Nat, frozen : BOOLEAN, weight : Nat]
    BY <1>1, <2>1 DEF OtherSound
  <2>3. now \in Nat
    BY <1>2 DEF TypeOK
  <2> QED
    BY <1>1, <2>1, <2>2, <2>3 DEF OtherSound
<1>5. TablesSound'
  <2>1. TypeOK'
    BY <1>1, <1>2, <1>3 DEF TypeOK
  <2>2. bribes'[b] \in BribeType /\ bribes'[b].gauge = req[p].gauge
        /\ bribes'[b].frozen = req[p].frozen /\ bribes'[b].weight = req[p].weight
    BY <1>3, <1>4 DEF BribeType
  <2>3. \A h : GaugeVotes(h)' = GaugeVotes(h)
    BY <1>1 DEF GaugeVotes, VotesFor
  <2>4. \A a \in DOMAIN bribes' :
          /\ bribes'[a] \in BribeType
          /\ bribes'[a].frozen => bribes'[a].weight = GaugeVotes(bribes'[a].gauge)
    BY <1>2, <1>3, <1>4, <2>2 DEF TablesSound
  <2>5. \A i \in DOMAIN locks' : locks'[i] \in LockType
    BY <1>1, <1>2 DEF TablesSound
  <2> QED
    BY <1>1, <2>1, <2>4, <2>5 DEF TablesSound, LockType, BribeType, GaugeVotes, VotesFor
<1>6. ClaimsSound'
  <2>1. ASSUME NEW a \in DOMAIN bribes, bribes'[a].frozen
        PROVE  Paid(a)' = Sum(Shares(a), ClaimedBy(a))'
    <3>1. Paid(a) = Sum(Shares(a), ClaimedBy(a))
      BY <1>2, <1>3, <2>1 DEF ClaimsSound
    <3>2. Paid(a)' = Paid(a)
      BY <1>1 DEF Paid
    <3>3. Shares(a)' = Shares(a)
      BY <1>1, <1>3 DEF Shares, Share
    <3>4. ClaimedBy(a)' = ClaimedBy(a)
      BY <1>1 DEF ClaimedBy, Claimed
    <3> QED
      BY <3>1, <3>2, <3>3, <3>4
  <2>2. Paid(b)' = Sum(Shares(b), ClaimedBy(b))'
    <3>1. \A c \in claims : c.bribe # b
      BY <1>2 DEF ClaimsSound
    <3>2. {c \in claims : c.bribe = b}' = {} /\ ClaimedBy(b)' = {}
      BY <1>1, <3>1 DEF ClaimedBy, Claimed
    <3>3. Paid(b)' = 0
      BY <3>2, SumEmpty DEF Paid
    <3> QED
      BY <3>2, <3>3, SumEmpty
  <2> QED
    BY <1>1, <1>2, <1>3, <2>1, <2>2 DEF ClaimsSound, ClaimedOnce
<1>7. TotalsSound'
  BY <1>1, <1>2 DEF TotalsSound, GaugeVotes, VotesFor
<1>8. /\ DOMAIN req' = Procs /\ VotesApart'
      /\ \A q \in Procs : VoteSound(q)' /\ OtherSound(q)'
  BY <1>1, <1>3, OthersKept
<1> QED
  BY <1>5, <1>6, <1>7, <1>8 DEF IInv

(* ClaimBribe: a claim that is not refused is the user's first for the bribe. *)
LEMMA ClaimBribeSound == ASSUME IInv, NEW p \in Procs, ClaimBribe(p) PROVE IInv'
<1>1. PICK u, b, x :
        /\ u = req[p].user /\ b = req[p].bribe /\ x = req[p].share
        /\ u \in Users /\ b \in DOMAIN bribes /\ x \in Nat
        /\ bribes[b].weight # 0
        /\ bribes[b].frozen => x = Share(u, b)
  BY DEF IInv, ClaimBribe, OtherSound
<1>2. TypeOK /\ TablesSound /\ ClaimsSound /\ TotalsSound
  BY DEF IInv, TablesSound
<1>3. PICK n \in Nat : n = Cardinality(claims)
  BY <1>2, FS_CardinalityType DEF ClaimsSound
<1> DEFINE d == [id |-> n, user |-> u, bribe |-> b, amount |-> x]
<1>4. /\ Answer(p) /\ UNCHANGED <<now, locks, status, total, votes, bribes, raced>>
      /\ claims' = IF Claimed(u, b) THEN claims ELSE claims \cup {d}
  BY <1>1, <1>3 DEF ClaimBribe, NewClaim
<1>5. d \in [id : Nat, user : Users, bribe : Bribes, amount : Nat]
      /\ d.user = u /\ d.bribe = b /\ d.amount = x
  BY <1>1, <1>2, <1>3 DEF TypeOK
<1> HIDE DEF d
<1>6. /\ DOMAIN req' = Procs /\ VotesApart'
      /\ \A q \in Procs : VoteSound(q)' /\ OtherSound(q)'
  BY <1>4, OthersKept
<1>7. TotalsSound'
  BY <1>2, <1>4 DEF TotalsSound, GaugeVotes, VotesFor
<1>8. TablesSound'
  <2>1. TypeOK'
    BY <1>2, <1>4, <1>5 DEF TypeOK
  <2> QED
    BY <1>2, <1>4, <2>1 DEF TablesSound, GaugeVotes, VotesFor
<1>9. \A a \in DOMAIN bribes : Shares(a)' = Shares(a)
  BY <1>4 DEF Shares, Share
<1>10. ClaimsSound'
  <2>1. CASE Claimed(u, b)
    <3>1. claims' = claims
      BY <1>4, <2>1
    <3>2. \A a : Paid(a)' = Paid(a) /\ ClaimedBy(a)' = ClaimedBy(a)
      BY <3>1 DEF Paid, ClaimedBy, Claimed
    <3>3. IsFiniteSet(claims') /\ ClaimedOnce'
      BY <1>2, <3>1 DEF ClaimsSound, ClaimedOnce
    <3>4. bribes' = bribes
      BY <1>4
    <3>5. \A a \in DOMAIN bribes : bribes[a].frozen => Paid(a)' = Sum(Shares(a), ClaimedBy(a))'
      BY <1>2, <1>9, <3>2 DEF ClaimsSound
    <3> QED
      BY <1>2, <3>1, <3>3, <3>4, <3>5 DEF ClaimsSound
  <2>2. CASE ~Claimed(u, b)
    <3>1. claims' = claims \cup {d} /\ d \notin claims
      BY <1>4, <1>5, <2>2 DEF Claimed
    <3>2. IsFiniteSet(claims')
      BY <1>2, <3>1, FS_AddElement DEF ClaimsSound
    <3>3. ClaimedOnce'
      BY <1>2, <1>5, <2>2, <3>1 DEF ClaimsSound, ClaimedOnce, Claimed
    <3>4. \A c \in claims' : c.bribe \in DOMAIN bribes' /\ bribes'[c.bribe].weight # 0
      BY <1>1, <1>2, <1>4, <1>5, <3>1 DEF ClaimsSound
    <3>5. ASSUME NEW a \in DOMAIN bribes, bribes[a].frozen, a # b
          PROVE  Paid(a)' = Sum(Shares(a), ClaimedBy(a))'
      <4>1. ClaimedBy(a)' = ClaimedBy(a)
        BY <1>5, <3>1, <3>5 DEF ClaimedBy, Claimed
      <4>2. Paid(a)' = Paid(a)
        <5> DEFINE before == [c \in claims |-> c.amount]
                   after == [c \in claims' |-> c.amount]
                   C == {c \in claims : c.bribe = a}
        <5>1. {c \in claims' : c.bribe = a} = C
          BY <1>5, <3>1, <3>5
        <5>2. IsFiniteSet(C) /\ \A c \in C : after[c] = before[c]
          BY <1>2, <3>1, FS_Subset DEF ClaimsSound
        <5>3. Paid(a) = Sum(before, C) /\ Paid(a)' = Sum(after, C)
          BY <5>1 DEF Paid
        <5> HIDE DEF before, after, C
        <5> QED
          BY <5>2, <5>3, SumAgree
      <4> QED
        BY <1>2, <1>9, <3>5, <4>1, <4>2 DEF ClaimsSound
    <3>6. ASSUME bribes[b].frozen PROVE Paid(b)' = Sum(Shares(b), ClaimedBy(b))'
      <4> DEFINE before == [c \in claims |-> c.amount]
                 after == [c \in claims' |-> c.amount]
                 C == {c \in claims : c.bribe = b}
      <4>1. ClaimedBy(b)' = ClaimedBy(b) \cup {u} /\ u \notin ClaimedBy(b)
        BY <1>1, <1>5, <2>2, <3>1 DEF ClaimedBy, Claimed
      <4>2. /\ Paid(b) = Sum(before, C) /\ Paid(b)' = Sum(after, C \cup {d})
            /\ IsFiniteSet(C) /\ d \notin C
            /\ \A c \in C : before[c] = after[c]
            /\ \A c \in C \cup {d} : after[c] \in Int
            /\ after[d] = x
        <5>1. {c \in claims : c.bribe = b}' = C \cup {d}
          BY <1>5, <3>1
        <5>2. IsFiniteSet(C) /\ d \notin C
          BY <1>2, <3>1, FS_Subset DEF ClaimsSound
        <5>3. \A c \in claims \cup {d} : c.amount \in Nat
          BY <1>2, <1>5 DEF TypeOK
        <5>4. /\ \A c \in C : before[c] = after[c]
              /\ \A c \in C \cup {d} : after[c] \in Int
              /\ after[d] = x
          BY <1>5, <3>1, <5>3
        <5>5. Paid(b) = Sum(before, C) /\ Paid(b)' = Sum(after, C \cup {d})
          BY <5>1 DEF Paid
        <5> QED
          BY <5>2, <5>4, <5>5
      <4> HIDE DEF before, after, C
      <4>3. Paid(b)' = Paid(b) + x
        <5>1. Sum(before, C) = Sum(after, C)
          BY <4>2, SumAgree
        <5>2. Sum(after, C \cup {d}) = Sum(after, C) + after[d]
          BY <4>2, SumAdd
        <5> QED
          BY <4>2, <5>1, <5>2
      <4>4. Sum(Shares(b), ClaimedBy(b) \cup {u}) = Sum(Shares(b), ClaimedBy(b)) + x
        <5>1. Shares(b)[u] = x /\ \A v \in Users : Shares(b)[v] \in Int
          BY <1>1, <1>2, <3>6, SharesFit DEF Shares
        <5>2. IsFiniteSet(ClaimedBy(b)) /\ \A v \in ClaimedBy(b) \cup {u} : Shares(b)[v] \in Int
          BY <1>1, <5>1, GovernanceAssumption, FS_Subset DEF ClaimedBy
        <5> QED
          BY <4>1, <5>1, <5>2, SumAdd
      <4>5. Paid(b) = Sum(Shares(b), ClaimedBy(b))
        BY <1>1, <1>2, <3>6 DEF ClaimsSound
      <4>6. Shares(b)' = Shares(b)
        BY <1>1, <1>9
      <4> QED
        BY <4>1, <4>3, <4>4, <4>5, <4>6
    <3>7. \A a \in DOMAIN bribes : bribes[a].frozen => Paid(a)' = Sum(Shares(a), ClaimedBy(a))'
      BY <3>5, <3>6
    <3> QED
      BY <1>4, <3>2, <3>3, <3>4, <3>7 DEF ClaimsSound
  <2> QED
    BY <2>1, <2>2
<1> QED
  BY <1>6, <1>7, <1>8, <1>10 DEF IInv

(* Steps that change no row at all: a request begins or ends. *)
LEMMA RequestOnly ==
  ASSUME IInv, UNCHANGED <<now, locks, status, total, votes, bribes, claims, raced>>, DOMAIN req' = Procs,
         \A p \in Procs : req'[p] = req[p] \/ (~Voting(p)' /\ OtherSound(p)')
  PROVE  IInv'
<1>1. LocksStay /\ TypeOK'
  BY DEF IInv, TablesSound, TypeOK, LocksStay
<1>2. \A i \in DOMAIN locks' : locks'[i] \in LockType
  BY DEF IInv, TablesSound
<1> QED
  BY <1>1, <1>2, QuietSound

(* The clock, the gauges' switches and the locks. *)
LEMMA LocksSound ==
  ASSUME IInv,
         \/ Tick
         \/ \E g \in Gauges : CreateGauge(g) \/ SetGaugeActive(g)
         \/ \E p \in Procs : CreateLock(p) \/ WithdrawLock(p)
  PROVE  IInv'
<1>1. /\ TypeOK /\ DOMAIN req = Procs
      /\ \A i \in DOMAIN locks : locks[i] \in LockType
      /\ now \in Nat
  BY GovernanceAssumption DEF IInv, TablesSound, TypeOK
<1>2. CASE Tick
  <2>1. UNCHANGED <<locks, status, total, votes, bribes, claims, req, raced>> /\ now' = now + 1 /\ now < MaxTime
    BY <1>2 DEF Tick
  <2>2. TypeOK'
    <3>1. now' \in 0..MaxTime
      BY <1>1, <2>1, GovernanceAssumption DEF TypeOK
    <3>2. \A i \in DOMAIN locks' :
             locks'[i].start <= now' /\ (locks'[i].withdrawn => locks'[i].unlock <= now')
      BY <1>1, <2>1 DEF TypeOK, LockType
    <3> QED
      BY <1>1, <2>1, <3>1, <3>2 DEF TypeOK
  <2>3. LocksStay
    BY <1>1, <2>1 DEF LocksStay
  <2> QED
    BY <1>1, <2>1, <2>2, <2>3, QuietSound
<1>3. ASSUME NEW g \in Gauges, CreateGauge(g) \/ SetGaugeActive(g) PROVE IInv'
  <2>1. UNCHANGED <<now, locks, total, votes, bribes, claims, req, raced>>
    BY <1>3 DEF CreateGauge, SetGaugeActive
  <2>2. TypeOK' /\ LocksStay
    BY <1>1, <1>3, <2>1 DEF TypeOK, CreateGauge, SetGaugeActive, LocksStay
  <2> QED
    BY <1>1, <2>1, <2>2, QuietSound
<1>4. ASSUME NEW p \in Procs, CreateLock(p) PROVE IInv'
  <2>1. PICK i \in LockIds \ DOMAIN locks :
          /\ Serving(p, "lock")
          /\ locks' = Insert(locks, i,
                 [user |-> req[p].user, amount |-> req[p].amount, start |-> now,
                  unlock |-> now + req[p].dur, withdrawn |-> FALSE])
          /\ Answer(p)
          /\ UNCHANGED <<now, status, total, votes, bribes, claims, raced>>
    BY <1>4 DEF CreateLock
  <2>2. req[p].user \in Users /\ req[p].amount \in Nat /\ req[p].dur \in Nat
    BY <2>1 DEF IInv, OtherSound
  <2>3. /\ DOMAIN locks' = DOMAIN locks \cup {i}
        /\ \A j \in DOMAIN locks : locks'[j] = locks[j]
        /\ locks'[i] \in LockType /\ locks'[i].start = now /\ ~locks'[i].withdrawn
    <3>1. [user |-> req[p].user, amount |-> req[p].amount, start |-> now,
           unlock |-> now + req[p].dur, withdrawn |-> FALSE] \in LockType
      BY <1>1, <2>2 DEF LockType
    <3> QED
      BY <2>1, <3>1 DEF Insert
  <2>4. TypeOK'
    <3>1. \A j \in DOMAIN locks :
             locks[j].start <= now /\ (locks[j].withdrawn => locks[j].unlock <= now)
      BY <1>1 DEF TypeOK
    <3>2. now' = now
      BY <2>1
    <3>3. \A j \in DOMAIN locks' :
             locks'[j].start <= now' /\ (locks'[j].withdrawn => locks'[j].unlock <= now')
      BY <1>1, <2>3, <3>1, <3>2
    <3> QED
      BY <1>1, <2>1, <2>3, <3>3 DEF TypeOK
  <2>5. LocksStay
    <3>1. now' = now
      BY <2>1
    <3> QED
      BY <1>1, <2>3, <3>1 DEF LocksStay
  <2>6. \A j \in DOMAIN locks' : locks'[j] \in LockType
    BY <1>1, <2>3
  <2>7. /\ DOMAIN req' = Procs
        /\ \A q \in Procs : req'[q] = req[q] \/ (~Voting(q)' /\ OtherSound(q)')
    BY <2>1, AnswerQuiet
  <2> QED
    BY <2>1, <2>4, <2>5, <2>6, <2>7, QuietSound
<1>5. ASSUME NEW p \in Procs, WithdrawLock(p) PROVE IInv'
  <2>1. PICK i : /\ i = req[p].lock /\ i \in DOMAIN locks /\ locks[i].unlock <= now
                 /\ locks' = [locks EXCEPT ![i].withdrawn = TRUE]
                 /\ Answer(p)
                 /\ UNCHANGED <<now, status, total, votes, bribes, claims, raced>>
    BY <1>5 DEF WithdrawLock, IInv, OtherSound
  <2>2. /\ DOMAIN locks' = DOMAIN locks
        /\ \A j \in DOMAIN locks : j # i => locks'[j] = locks[j]
        /\ locks'[i] = [locks[i] EXCEPT !.withdrawn = TRUE]
    BY <2>1
  <2>3. /\ locks'[i] \in LockType
        /\ locks'[i].start = locks[i].start /\ locks'[i].unlock = locks[i].unlock
    <3>1. locks[i] \in LockType
      BY <1>1, <2>1
    <3> QED
      BY <2>2, <3>1 DEF LockType
  <2>4. TypeOK'
    <3>1. \A j \in DOMAIN locks' :
             locks'[j].start <= now' /\ (locks'[j].withdrawn => locks'[j].unlock <= now')
      BY <1>1, <2>1, <2>2, <2>3 DEF TypeOK
    <3> QED
      BY <1>1, <2>1, <2>2, <3>1 DEF TypeOK
  <2>5. LocksStay
    BY <1>1, <2>1, <2>2, <2>3 DEF LocksStay
  <2>6. \A j \in DOMAIN locks' : locks'[j] \in LockType
    BY <1>1, <2>2, <2>3
  <2>7. /\ DOMAIN req' = Procs
        /\ \A q \in Procs : req'[q] = req[q] \/ (~Voting(q)' /\ OtherSound(q)')
    BY <2>1, AnswerQuiet
  <2> QED
    BY <2>1, <2>4, <2>5, <2>6, <2>7, QuietSound
<1> QED
  BY <1>2, <1>3, <1>4, <1>5

(* What a request other than a vote reads is right when it reads it. *)
LEMMA ReadsSound ==
  ASSUME IInv, NEW p \in Procs,
         \/ CreateLockCheck(p) \/ WithdrawLockCheck(p)
         \/ AddBribeSnapshot(p) \/ ClaimBribeRead(p) \/ Abandon(p)
  PROVE  IInv'
<1> SUFFICES ASSUME UNCHANGED <<now, locks, status, total, votes, bribes, claims, raced>>
             PROVE  /\ DOMAIN req' = Procs
                    /\ \A q \in Procs : req'[q] = req[q] \/ (~Voting(q)' /\ OtherSound(q)')
  BY RequestOnly DEF CreateLockCheck, WithdrawLockCheck, AddBribeSnapshot, ClaimBribeRead, Abandon
<1>1. TypeOK /\ TablesSound
  BY DEF IInv, TablesSound
<1>2. CASE CreateLockCheck(p)
  <2>1. PICK u \in Users, x \in LockAmounts, d \in Durations :
          req' = [req EXCEPT ![p] = [pc |-> "lock", user |-> u, amount |-> x, dur |-> d]]
    BY <1>2 DEF CreateLockCheck
  <2>2. x \in Nat /\ d \in Nat
    BY GovernanceAssumption
  <2>3. /\ DOMAIN req' = Procs /\ \A q \in Procs : q # p => req'[q] = req[q]
        /\ req'[p] = [pc |-> "lock", user |-> u, amount |-> x, dur |-> d]
    BY <2>1, OneRequest
  <2>4. ~Voting(p)' /\ OtherSound(p)'
    BY <2>2, <2>3 DEF Voting, OtherSound, Serving
  <2> QED
    BY <2>3, <2>4
<1>3. CASE WithdrawLockCheck(p)
  <2>1. PICK i \in DOMAIN locks :
          now >= locks[i].unlock /\ req' = [req EXCEPT ![p] = [pc |-> "withdraw", lock |-> i]]
    BY <1>3 DEF WithdrawLockCheck
  <2>2. locks[i].unlock <= now
    BY <1>1, <2>1 DEF TablesSound, TypeOK, LockType
  <2>3. /\ DOMAIN req' = Procs /\ \A q \in Procs : q # p => req'[q] = req[q]
        /\ req'[p] = [pc |-> "withdraw", lock |-> i]
    BY <2>1, OneRequest
  <2>4. ~Voting(p)' /\ OtherSound(p)'
    BY <2>2, <2>3 DEF Voting, OtherSound, Serving
  <2> QED
    BY <2>3, <2>4
<1>4. CASE AddBribeSnapshot(p)
  <2>1. PICK g \in Gauges, x \in BribeAmounts :
          req' = [req EXCEPT ![p] = [pc |-> "bribe", gauge |-> g, amount |-> x, frozen |-> TRUE,
                                     weight |-> GaugeVotes(g)]]
    BY <1>4 DEF AddBribeSnapshot, GaugeVotes, VotesFor
  <2>2. x \in Nat /\ GaugeVotes(g) \in Nat /\ GaugeVotes(g)' = GaugeVotes(g)
    BY <1>1, NoVotesNat, GovernanceAssumption DEF GaugeVotes
  <2>3. /\ DOMAIN req' = Procs /\ \A q \in Procs : q # p => req'[q] = req[q]
        /\ req'[p] = [pc |-> "bribe", gauge |-> g, amount |-> x, frozen |-> TRUE,
                      weight |-> GaugeVotes(g)]
    BY <2>1, OneRequest
  <2>4. /\ req'[p] \in [pc : {"bribe"}, gauge : Gauges, amount : Nat, frozen : BOOLEAN, weight : Nat]
        /\ req'[p].pc = "bribe" /\ req'[p].gauge = g /\ req'[p].weight = GaugeVotes(g)
    BY <2>2, <2>3
  <2>5. ~Voting(p)' /\ OtherSound(p)'
    BY <2>2, <2>4 DEF Voting, OtherSound, Serving
  <2> QED
    BY <2>3, <2>5
<1>5. CASE ClaimBribeRead(p)
  <2>1. PICK u \in Users, b \in DOMAIN bribes :
          /\ bribes[b].weight # 0
          /\ req' = [req EXCEPT ![p] = [pc |-> "claim", user |-> u, bribe |-> b, share |-> Share(u, b)]]
    BY <1>5 DEF ClaimBribeRead
  <2>2. Share(u, b) \in Nat /\ Share(u, b)' = Share(u, b)
    BY <1>1, <2>1, SharesFit DEF Share
  <2>3. /\ DOMAIN req' = Procs /\ \A q \in Procs : q # p => req'[q] = req[q]
        /\ req'[p] = [pc |-> "claim", user |-> u, bribe |-> b, share |-> Share(u, b)]
    BY <2>1, OneRequest
  <2>4. req'[p].pc = "claim" /\ req'[p].user = u /\ req'[p].bribe = b /\ req'[p].share = Share(u, b)
    BY <2>3
  <2>5. ~Voting(p)' /\ OtherSound(p)'
    BY <2>1, <2>2, <2>4 DEF Voting, OtherSound, Serving
  <2> QED
    BY <2>3, <2>5
<1>6. CASE Abandon(p)
  BY <1>6, AnswerQuiet DEF Abandon
<1> QED
  BY <1>2, <1>3, <1>4, <1>5, <1>6

LEMMA StepIInv == IInv /\ [Next]_vars => IInv'
<1> SUFFICES ASSUME IInv, [Next]_vars PROVE IInv'
  OBVIOUS
<1>1. CASE UNCHANGED vars
  BY <1>1, RequestOnly DEF vars, IInv
<1>2. CASE \/ Tick
           \/ \E g \in Gauges : CreateGauge(g) \/ SetGaugeActive(g)
           \/ \E p \in Procs : CreateLock(p) \/ WithdrawLock(p)
  BY <1>2, LocksSound
<1>3. CASE \E p \in Procs : \/ CreateLockCheck(p) \/ WithdrawLockCheck(p)
                            \/ AddBribeSnapshot(p) \/ ClaimBribeRead(p) \/ Abandon(p)
  BY <1>3, ReadsSound
<1>4. CASE \E p \in Procs : VoteCheck(p) \/ VoteReadTotal(p) \/ Vote(p)
  BY <1>4, VoteCheckSound, VoteReadTotalSound, VoteKeeps
<1>5. CASE \E p \in Procs : AddBribe(p) \/ ClaimBribe(p)
  BY <1>5, AddBribeSound, ClaimBribeSound
<1> QED
  BY <1>1, <1>2, <1>3, <1>4, <1>5 DEF Next

----
(* Requests of any number of users are served step by step; the tables, the  *)
(* votes under way and the claims fit together after each.                   *)
THEOREM GovernanceInvariant == Spec => []IInv
  BY InitIInv, StepIInv, PTL DEF Spec

(* The unique index on (bribe_id, user_id) leaves one claim per bribe and    *)
(* user, however many claims are served at once.                             *)
THEOREM GovernanceClaimedOnce == Spec => []ClaimedOnce
<1>1. IInv => ClaimedOnce
  BY DEF IInv, ClaimsSound
<1> QED
  BY <1>1, GovernanceInvariant, PTL

(* Vote takes the previous weight out of a gauge's total_voted and adds the  *)
(* new one: without two votes at once for the gauge, the column is the sum.  *)
THEOREM GovernanceTotalExact == Spec => []TotalExactWithoutRace
<1>1. IInv => TotalExactWithoutRace
  BY DEF IInv, TablesSound, TotalsSound, GaugeVotes, VotesFor, TotalExactWithoutRace
<1> QED
  BY <1>1, GovernanceInvariant, PTL

(* ClaimBribe's shares are rounded down: while the votes it was funded under *)
(* stand, a bribe is never overdrawn.                                        *)
THEOREM GovernancePaidWithinFrozen == Spec => []PaidWithinFrozen
<1>1. IInv => PaidWithinFrozen
  <2> SUFFICES ASSUME IInv, NEW b \in DOMAIN bribes, bribes[b].frozen
               PROVE  Paid(b) <= bribes[b].amount
    BY DEF PaidWithinFrozen
  <2>1. TablesSound /\ ClaimsSound /\ bribes[b].amount \in Nat
    BY DEF IInv, TablesSound, BribeType
  <2>2. CASE bribes[b].weight # 0
    BY <2>1, <2>2, SharesFit DEF ClaimsSound
  <2>3. CASE bribes[b].weight = 0
    <3>1. {c \in claims : c.bribe = b} = {}
      BY <2>1, <2>3 DEF ClaimsSound
    <3>2. Paid(b) = 0
      BY <3>1, SumEmpty DEF Paid
    <3> QED
      BY <2>1, <3>2
  <2> QED
    BY <2>2, <2>3
<1> QED
  BY <1>1, GovernanceInvariant, PTL

(* The vote written by a request that was alone with its user fits the power  *)
(* Vote compared it with, whatever happened in between.                      *)
THEOREM GovernanceVoteFitsPower == Spec => VoteFitsPower
<1> DEFINE Fits == \A p \in Procs :
      Serving(p, "total") /\ votes' # votes /\ req'[p] = Idle /\ req[p].alone
      => Sum(votes'[req[p].user], Gauges) <= req[p].power
<1>1. ASSUME IInv, [Next]_vars PROVE Fits
  <2> SUFFICES ASSUME NEW p \in Procs,
                      Serving(p, "total"), votes' # votes, req'[p] = Idle, req[p].alone
               PROVE  Sum(votes'[req[p].user], Gauges) <= req[p].power
    OBVIOUS
  <2>1. PICK q \in Procs : Vote(q)
    BY <1>1 DEF Next, vars, Tick, CreateGauge, SetGaugeActive, CreateLockCheck, CreateLock,
       WithdrawLockCheck, WithdrawLock, VoteCheck, VoteReadTotal, AddBribeSnapshot, AddBribe,
       ClaimBribeRead, ClaimBribe, Abandon
  <2>2. q = p
    BY <1>1, <2>1 DEF Vote, IInv, Serving, Idle
  <2>3. PICK u \in Users, g \in Gauges, w \in Nat :
          /\ u = req[p].user /\ g = req[p].gauge /\ w = req[p].weight
          /\ votes' = [votes EXCEPT ![u][g] = w]
          /\ w + Sum(votes[u], Gauges \ {g}) <= req[p].power
    BY <1>1, <2>1, <2>2 DEF Vote, IInv, VoteSound, Voting, Serving
  <2>4. votes \in [Users -> [Gauges -> Nat]]
    BY <1>1 DEF IInv, TablesSound, TypeOK
  <2>5. /\ \A h \in Gauges : votes'[u][h] \in Int
        /\ \A h \in Gauges : h # g => votes'[u][h] = votes[u][h]
        /\ votes'[u][g] = w
    BY <2>3, <2>4
  <2>6. Sum(votes'[u], Gauges) = votes'[u][g] + Sum(votes[u], Gauges \ {g})
    BY <2>5, UserVotes
  <2> QED
    BY <2>3, <2>5, <2>6
<1>2. IInv /\ [Next]_vars => [Fits]_vars
  BY <1>1
<1> QED
  BY <1>2, GovernanceInvariant, PTL DEF Spec, VoteFitsPower
====
