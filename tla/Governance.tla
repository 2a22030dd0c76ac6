---- MODULE Governance ----
(***************************************************************************)
(* veTGR locks, gauge votes and bribes: src/backend/services/              *)
(* governance_service.go.  A handler that reads, checks and then writes is *)
(* one action per database round trip, and several requests are under way  *)
(* at once; the transaction of Vote reads the gauge without a lock, and    *)
(* its UPDATE of the gauge row then holds off other votes for that gauge   *)
(* until it commits.                                                       *)
(***************************************************************************)
EXTENDS Sums

CONSTANTS
    Users, Gauges, LockIds, Bribes,
    Procs,          \* goroutines serving requests
    LockAmounts, Durations, Weights, BribeAmounts,
    MaxTime,        \* bound: the clock
    MaxTotal        \* bound: total_voted of a gauge, which lost updates let grow

ASSUME GovernanceAssumption ==
    /\ LockAmounts \subseteq Nat \ {0} /\ Durations \subseteq Nat \ {0}
    /\ Weights \subseteq Nat /\ BribeAmounts \subseteq Nat \ {0}
    /\ MaxTime \in Nat /\ MaxTotal \in Nat
    /\ IsFiniteSet(Users) /\ IsFiniteSet(Gauges)

VARIABLES
    now,        \* the clock
    locks,      \* rows of ve_locks, a function on the ids in use
    status,     \* status[g]: "absent", "active" or "inactive"
    total,      \* total[g]: the gauge's total_voted column
    votes,      \* votes[u][g]: weight of u's gauge_votes row, 0 without one
    bribes,     \* rows of bribes, a function on the ids in use
    claims,     \* rows of bribe_claims
    req,        \* req[p]: the request p serves and what it has read
    raced       \* history: gauges for which two votes were served at once

vars == <<now, locks, status, total, votes, bribes, claims, req, raced>>

Idle == [pc |-> "idle"]
Serving(p, l) == req[p].pc = l
Answer(p) == req' = [req EXCEPT ![p] = Idle]

----
(* votingPower: linear decay, rounded down. *)
PowerOf(l) ==
    IF l.withdrawn \/ now >= l.unlock THEN 0
    ELSE (l.amount * (l.unlock - now)) \div (l.unlock - l.start)

(* totalVotingPower. *)
Power(u) == MapThenSumSet(LAMBDA i : PowerOf(locks[i]),
                          {i \in DOMAIN locks : locks[i].user = u})

OpenLocks(u) == {i \in DOMAIN locks :
    locks[i].user = u /\ ~locks[i].withdrawn /\ locks[i].unlock > now}

Init ==
    /\ now = 0
    /\ locks = <<>>
    /\ status = [g \in Gauges |-> "absent"]
    /\ total = [g \in Gauges |-> 0]
    /\ votes = [u \in Users |-> [g \in Gauges |-> 0]]
    /\ bribes = <<>>
    /\ claims = {}
    /\ req = [p \in Procs |-> Idle]
    /\ raced = {}

Tick ==
    /\ now < MaxTime
    /\ now' = now + 1
    /\ UNCHANGED <<locks, status, total, votes, bribes, claims, req, raced>>

Insert(f, i, row) == [j \in DOMAIN f \cup {i} |-> IF j = i THEN row ELSE f[j]]

----
(* CreateLock counts the caller's open locks ... *)
CreateLockCheck(p) == \E u \in Users, x \in LockAmounts, d \in Durations :
    /\ Serving(p, "idle")
    /\ OpenLocks(u) = {}
    /\ req' = [req EXCEPT ![p] = [pc |-> "lock", user |-> u, amount |-> x, dur |-> d]]
    /\ UNCHANGED <<now, locks, status, total, votes, bribes, claims, raced>>

(* ... and then inserts the new one. *)
CreateLock(p) == \E i \in LockIds \ DOMAIN locks :
    /\ Serving(p, "lock")
    /\ locks' = Insert(locks, i,
           [user |-> req[p].user, amount |-> req[p].amount, start |-> now,
            unlock |-> now + req[p].dur, withdrawn |-> FALSE])
    /\ Answer(p)
    /\ UNCHANGED <<now, status, total, votes, bribes, claims, raced>>

(* WithdrawLock loads the caller's lock and checks it ... *)
WithdrawLockCheck(p) == \E i \in DOMAIN locks :
    /\ Serving(p, "idle")
    /\ ~locks[i].withdrawn
    /\ now >= locks[i].unlock
    /\ req' = [req EXCEPT ![p] = [pc |-> "withdraw", lock |-> i]]
    /\ UNCHANGED <<now, locks, status, total, votes, bribes, claims, raced>>

(* ... and saves it as withdrawn. *)
WithdrawLock(p) ==
    /\ Serving(p, "withdraw")
    /\ locks' = [locks EXCEPT ![req[p].lock].withdrawn = TRUE]
    /\ Answer(p)
    /\ UNCHANGED <<now, status, total, votes, bribes, claims, raced>>

(* CreateGauge. *)
CreateGauge(g) ==
    /\ status[g] = "absent"
    /\ status' = [status EXCEPT ![g] = "active"]
    /\ UNCHANGED <<now, locks, total, votes, bribes, claims, req, raced>>

(* SetGaugeWeight also switches a gauge off or on; its emission weight is   *)
(* read by nothing modelled here.                                           *)
SetGaugeActive(g) ==
    /\ status[g] # "absent"
    /\ status' = [status EXCEPT ![g] = IF @ = "active" THEN "inactive" ELSE "active"]
    /\ UNCHANGED <<now, locks, total, votes, bribes, claims, req, raced>>

----
VotingOn(q, g) == req[q].pc \in {"vote", "total"} /\ req[q].gauge = g
VotingBy(q, u) == req[q].pc \in {"vote", "total"} /\ req[q].user = u

(* What the request keeps of its reads.  alone is history: no other vote of  *)
(* the same user has been served beside it.                                  *)
StartVote(p, u, g, w) == [q \in Procs |->
    IF q = p THEN [pc |-> "vote", user |-> u, gauge |-> g, weight |-> w,
                   previous |-> votes[u][g], power |-> Power(u),
                   alone |-> \A r \in Procs : ~VotingBy(r, u)]
    ELSE IF VotingBy(q, u) THEN [req[q] EXCEPT !.alone = FALSE]
    ELSE req[q]]

\* Mutant of VoteCheck: only the weight asked for is compared with the power.
VoteCheckOneGauge(p) == \E u \in Users, g \in Gauges, w \in Weights :
    /\ Serving(p, "idle")
    /\ status[g] = "active"
    /\ w <= Power(u)
    /\ req' = StartVote(p, u, g, w)
    /\ raced' = raced \cup {h \in {g} : \E q \in Procs : VotingOn(q, h)}
    /\ UNCHANGED <<now, locks, status, total, votes, bribes, claims>>

(* Vote reads the gauge, the power and the caller's votes, and checks that  *)
(* the other gauges' weights and the new one fit the power.                 *)
VoteCheck(p) == \E u \in Users, g \in Gauges, w \in Weights :
    /\ Serving(p, "idle")
    /\ status[g] = "active"
    /\ w + Sum(votes[u], Gauges \ {g}) <= Power(u)
    /\ req' = StartVote(p, u, g, w)
    /\ raced' = raced \cup {h \in {g} : \E q \in Procs : VotingOn(q, h)}
    /\ UNCHANGED <<now, locks, status, total, votes, bribes, claims>>

\* Mutant of NewTotal: the previous weight is not taken out.
NewTotalAddsOnly(p) == total[req[p].gauge] + req[p].weight

(* The gauge total recomputed from the row as read in the transaction and   *)
(* from the previous weight, which was read before it.                      *)
NewTotal(p) == Max({0, total[req[p].gauge] - req[p].previous + req[p].weight})

VoteReadTotal(p) ==
    /\ Serving(p, "vote")
    /\ NewTotal(p) <= MaxTotal
    /\ req' = [req EXCEPT ![p] = [pc |-> "total", user |-> @.user, gauge |-> @.gauge,
               weight |-> @.weight, power |-> @.power, alone |-> @.alone,
               newTotal |-> NewTotal(p)]]
    /\ UNCHANGED <<now, locks, status, total, votes, bribes, claims, raced>>

(* UPDATE of the gauge, then insert or update of the vote; both commit. A   *)
(* bribe of this gauge no longer has the votes it was funded under.         *)
Vote(p) ==
    /\ Serving(p, "total")
    /\ LET u == req[p].user
           g == req[p].gauge
       IN  /\ total' = [total EXCEPT ![g] = req[p].newTotal]
           /\ votes' = [votes EXCEPT ![u][g] = req[p].weight]
           /\ bribes' = [b \in DOMAIN bribes |->
                 [bribes[b] EXCEPT !.frozen = @ /\ bribes[b].gauge # g]]
           /\ req' = [q \in Procs |->
                 IF q = p THEN Idle
                 ELSE IF Serving(q, "bribe") /\ req[q].gauge = g
                      THEN [req[q] EXCEPT !.frozen = FALSE] ELSE req[q]]
    /\ UNCHANGED <<now, locks, status, claims, raced>>

----
(* AddBribe adds up the gauge's votes ... *)
AddBribeSnapshot(p) == \E g \in Gauges, x \in BribeAmounts :
    /\ Serving(p, "idle")
    /\ status[g] = "active"
    /\ req' = [req EXCEPT ![p] = [pc |-> "bribe", gauge |-> g, amount |-> x, frozen |-> TRUE,
               weight |-> Sum([u \in Users |-> votes[u][g]], Users)]]
    /\ UNCHANGED <<now, locks, status, total, votes, bribes, claims, raced>>

(* ... and stores the bribe with that total weight.  frozen is history: no  *)
(* vote for the gauge has been written since.                               *)
AddBribe(p) == \E b \in Bribes \ DOMAIN bribes :
    /\ Serving(p, "bribe")
    /\ bribes' = Insert(bribes, b,
           [gauge |-> req[p].gauge, amount |-> req[p].amount,
            weight |-> req[p].weight, frozen |-> req[p].frozen, epoch |-> now])
    /\ Answer(p)
    /\ UNCHANGED <<now, locks, status, total, votes, claims, raced>>

\* Mutant of Share: the share is rounded up.
ShareRoundedUp(u, b) ==
    (bribes[b].amount * votes[u][bribes[b].gauge] + bribes[b].weight - 1) \div bribes[b].weight

(* The caller's part of the bribe by the vote as it is now, over the total   *)
(* weight when the bribe was funded.                                         *)
Share(u, b) == (bribes[b].amount * votes[u][bribes[b].gauge]) \div bribes[b].weight

(* ClaimBribe reads the bribe and the vote ... *)
ClaimBribeRead(p) == \E u \in Users, b \in DOMAIN bribes :
    /\ Serving(p, "idle")
    /\ bribes[b].weight # 0
    /\ Share(u, b) # 0
    /\ req' = [req EXCEPT ![p] = [pc |-> "claim", user |-> u, bribe |-> b,
               share |-> Share(u, b)]]
    /\ UNCHANGED <<now, locks, status, total, votes, bribes, claims, raced>>

NewClaim(p) == [id |-> Cardinality(claims), user |-> req[p].user,
                bribe |-> req[p].bribe, amount |-> req[p].share]
Claimed(u, b) == \E c \in claims : c.user = u /\ c.bribe = b

\* Mutant of ClaimBribe: no unique index on (bribe_id, user_id).
ClaimBribeAgain(p) ==
    /\ Serving(p, "claim")
    /\ claims' = claims \cup {NewClaim(p)}
    /\ Answer(p)
    /\ UNCHANGED <<now, locks, status, total, votes, bribes, raced>>

(* ... and inserts the claim; the unique index on (bribe, user) refuses a    *)
(* second one.                                                               *)
ClaimBribe(p) ==
    /\ Serving(p, "claim")
    /\ claims' = IF Claimed(req[p].user, req[p].bribe) THEN claims
                 ELSE claims \cup {NewClaim(p)}
    /\ Answer(p)
    /\ UNCHANGED <<now, locks, status, total, votes, bribes, raced>>

(* A statement of the request fails, or the process dies: nothing written. *)
Abandon(p) ==
    /\ ~Serving(p, "idle")
    /\ Answer(p)
    /\ UNCHANGED <<now, locks, status, total, votes, bribes, claims, raced>>

Next ==
    \/ Tick
    \/ \E g \in Gauges : CreateGauge(g) \/ SetGaugeActive(g)
    \/ \E p \in Procs :
          \/ CreateLockCheck(p) \/ CreateLock(p)
          \/ WithdrawLockCheck(p) \/ WithdrawLock(p)
          \/ VoteCheck(p) \/ VoteReadTotal(p) \/ Vote(p)
          \/ AddBribeSnapshot(p) \/ AddBribe(p)
          \/ ClaimBribeRead(p) \/ ClaimBribe(p)
          \/ Abandon(p)

Spec == Init /\ [][Next]_vars

----
TypeOK ==
    /\ now \in 0..MaxTime
    /\ DOMAIN locks \subseteq LockIds /\ DOMAIN bribes \subseteq Bribes
    /\ \A i \in DOMAIN locks : locks[i].start <= now /\ (locks[i].withdrawn => locks[i].unlock <= now)
    /\ status \in [Gauges -> {"absent", "active", "inactive"}]
    /\ total \in [Gauges -> Nat]
    /\ votes \in [Users -> [Gauges -> Nat]]
    /\ claims \subseteq [id : Nat, user : Users, bribe : Bribes, amount : Nat]
    /\ raced \subseteq Gauges

(* The incrementally kept total of a gauge is the sum of its votes as long   *)
(* as no two votes for it were ever served at once.                          *)
TotalExactWithoutRace ==
    /\ TypeOK
    /\ \A g \in Gauges \ raced : total[g] = Sum([u \in Users |-> votes[u][g]], Users)

(* A vote written by a request that had no other vote of the same user       *)
(* beside it leaves the user's weights within the power that was checked.    *)
VoteFitsPower == [][\A p \in Procs :
    Serving(p, "total") /\ votes' # votes /\ req'[p] = Idle /\ req[p].alone
    => Sum(votes'[req[p].user], Gauges) <= req[p].power]_vars

(* "so it can never be paid twice": one claim per bribe and user, however    *)
(* many requests are served at once.                                         *)
ClaimedOnce == \A c, d \in claims : c.user = d.user /\ c.bribe = d.bribe => c = d

Paid(b) == Sum([c \in claims |-> c.amount], {c \in claims : c.bribe = b})

(* While the votes a bribe was funded under stand, its claims never add up   *)
(* to more than the bribe.                                                   *)
PaidWithinFrozen == \A b \in DOMAIN bribes :
    bribes[b].frozen => Paid(b) <= bribes[b].amount
====
