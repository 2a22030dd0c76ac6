---- MODULE Farm ----
(***************************************************************************)
(* Yield farms: src/backend/services/farm_service.go, with the boost of    *)
(* governance_service.go.  One farm with one reward stream: the streams of *)
(* a farm are advanced alike and do not share state.                       *)
(*                                                                         *)
(* A handler reads the farm and the clock, and later runs a transaction    *)
(* that locks the farm row: two actions, so that a request commits with a  *)
(* clock, a status or a total read some time before.  Ledger debits and    *)
(* credits are part of the transaction (Atomic of module Ledger).          *)
(***************************************************************************)
EXTENDS Sums

CONSTANTS
    Users,
    Procs,          \* goroutines serving requests
    Amounts,        \* amounts staked, unstaked and funded
    Opening,        \* a user's balance of the staking token at the start
    Budget,         \* the funder's balance of the reward token at the start
    Rate,           \* rate_per_second
    Scale,          \* accScale, 10^18 in the code
    Powers,         \* voting powers
    Times,          \* start and end times an operator sets
    MaxTime,        \* bound: the clock
    MaxBoosts       \* bound: changes of a voting power

ASSUME FarmAssumption ==
    /\ Amounts \subseteq Nat \ {0} /\ Powers \subseteq Nat /\ Times \subseteq Nat
    /\ Opening \in Nat /\ Budget \in Nat /\ Rate \in Nat
    /\ MaxTime \in Nat /\ MaxBoosts \in Nat
    /\ Scale \in Nat \ {0}
    /\ IsFiniteSet(Users)

VARIABLES
    now,        \* the clock
    farm,       \* the farm_pools row
    rew,        \* the farm_rewards row
    stake,      \* stake[u]: amount of u's farm_stakes row
    ck,         \* farm_stake_rewards, a function on the users that have a row
    bal,        \* bal[u]: u's ledger balance of the staking token
    funds,      \* the funder's ledger balance of the reward token
    power,      \* power[u]: u's voting power
    req,        \* req[p]: the request p serves and what it has read
    boosts,     \* history: number of changes of a voting power
    dust        \* history: <<u, acc>> where u's debt was rounded down

vars == <<now, farm, rew, stake, ck, bal, funds, power, req, boosts, dust>>
books == <<rew, stake, ck, bal, funds, dust>>

Idle == [pc |-> "idle"]
Serving(p, l) == req[p].pc = l
Answer(p) == req' = [req EXCEPT ![p] = Idle]
Statuses == {"paused", "active", "closed"}

(* CreateFarm: paused, unfunded, the stream's clock at the start time. *)
CreateFarm(start, end) ==
    /\ end > start
    /\ farm = [status |-> "paused", start |-> start, end |-> end, total |-> 0]
    /\ rew = [acc |-> 0, dist |-> 0, total |-> 0, first |-> start, last |-> start]

Init ==
    /\ now = 0
    /\ \E start, end \in Times : CreateFarm(start, end)
    /\ stake = [u \in Users |-> 0] /\ ck = <<>>
    /\ bal = [u \in Users |-> Opening] /\ funds = Budget
    /\ power = [u \in Users |-> 0] /\ boosts = 0 /\ dust = {}
    /\ req = [p \in Procs |-> Idle]

Tick ==
    /\ now < MaxTime
    /\ now' = now + 1
    /\ UNCHANGED <<farm, books, power, req, boosts>>

(* A lock of the user is created, decays or is withdrawn. *)
SetPower(u) == \E v \in Powers \ {power[u]} :
    /\ boosts < MaxBoosts
    /\ power' = [power EXCEPT ![u] = v]
    /\ boosts' = boosts + 1
    /\ UNCHANGED <<now, farm, books, req>>

----
(* BoostBps and boostBpsFor: 1x plus 1.5x the power over the amount, capped. *)
BoostBps(u, amount) ==
    IF amount = 0 THEN 10000
    ELSE Min({25000, 10000 + (15000 * power[u]) \div amount})

Effective(u, amount) == (amount * BoostBps(u, amount)) \div 10000

(* rewardStep: what the stream emits up to a time. *)
Emission(at) ==
    LET elapsed == Min({at, farm.end}) - rew.last
        budget  == rew.total - rew.dist
    IN  IF elapsed <= 0 \/ farm.total = 0 \/ budget <= 0 THEN 0
        ELSE Min({Rate * elapsed, budget})

\* Mutant of Checkpoint: it follows the request's clock back.
CheckpointBack(at) == Min({at, farm.end})

(* advanceReward: "a checkpoint is never moved backwards". *)
Checkpoint(at) == Max({Min({at, farm.end}), rew.last})

Advanced(at) ==
    LET c == Checkpoint(at)
        e == Emission(c)
    IN  [rew EXCEPT !.last = c, !.dist = @ + e,
                    !.acc = @ + IF e = 0 THEN 0 ELSE (e * Scale) \div farm.total]

Debt(effective, acc) == (effective * acc) \div Scale

\* Mutant of FirstDebt: a new checkpoint owes nothing.
FirstDebtZero(new, acc) == 0

(* accrueStake: "a new staker cannot claim reward emitted before they staked". *)
FirstDebt(new, acc) == Debt(new, acc)

(* accrueStake: the stream is advanced and the stake settled.  The boost of   *)
(* the old amount is the one of now, whatever it was at the last settlement. *)
Settled(u, old, new, at) ==
    LET acc == Advanced(at).acc IN
    IF u \in DOMAIN ck
    THEN [ck EXCEPT ![u] = [accrued |-> @.accrued + Max({0, Debt(old, acc) - @.debt}),
                            debt |-> Debt(new, acc), claimed |-> @.claimed]]
    ELSE [v \in DOMAIN ck \cup {u} |-> IF v = u
             THEN [accrued |-> 0, debt |-> FirstDebt(new, acc), claimed |-> 0] ELSE ck[v]]

Rounded(u, new, at) == {<<u, acc>> : acc \in {a \in {Advanced(at).acc} : (new * a) % Scale # 0}}

Settle(u, old, new, at) ==
    /\ rew' = Advanced(at)
    /\ ck' = Settled(u, old, new, at)
    /\ dust' = dust \cup Rounded(u, new, at)

----
Asked(value, default) == IF value = -1 THEN default ELSE value

(* UpdateFarm validates the window it was asked for (-1: this end of it was   *)
(* not) against the row it read ...                                           *)
UpdateFarmRead(p) == \E start, end \in Times \cup {-1}, status \in Statuses :
    /\ Serving(p, "idle")
    /\ Asked(end, farm.end) > Asked(start, farm.start)
    /\ req' = [req EXCEPT ![p] =
          [pc |-> "update", status |-> status, start |-> start, end |-> end]]
    /\ UNCHANGED <<now, farm, books, power, boosts>>

(* ... and writes the fields that were asked for. *)
UpdateFarm(p) ==
    /\ Serving(p, "update")
    /\ farm' = [farm EXCEPT !.status = req[p].status,
                            !.start = Asked(req[p].start, @),
                            !.end = Asked(req[p].end, @)]
    /\ Answer(p)
    /\ UNCHANGED <<now, books, power, boosts>>

(* DeleteFarm finds no stake, and then closes the farm. *)
DeleteFarmRead(p) ==
    /\ Serving(p, "idle")
    /\ farm.total = 0
    /\ req' = [req EXCEPT ![p] = [pc |-> "delete"]]
    /\ UNCHANGED <<now, farm, books, power, boosts>>

DeleteFarm(p) ==
    /\ Serving(p, "delete")
    /\ farm' = [farm EXCEPT !.status = "closed"]
    /\ Answer(p)
    /\ UNCHANGED <<now, books, power, boosts>>

(* FundFarmReward: debit and budget in one transaction. *)
FundFarmReward == \E x \in Amounts :
    /\ funds >= x
    /\ funds' = funds - x
    /\ rew' = [rew EXCEPT !.total = @ + x]
    /\ UNCHANGED <<now, farm, stake, ck, bal, power, req, boosts, dust>>

----
OpenAt(t) == farm.status = "active" /\ farm.start <= t /\ t < farm.end

(* Stake, Unstake and Claim read the clock ... *)
Begin(p) == \E u \in Users, x \in Amounts, op \in {"stake", "unstake", "claim"} :
    /\ Serving(p, "idle")
    /\ op = "stake" => OpenAt(now)
    /\ op = "claim" => x = Max(Amounts)
    /\ req' = [req EXCEPT ![p] = [pc |-> op, user |-> u, amount |-> x, at |-> now]]
    /\ UNCHANGED <<now, farm, books, power, boosts>>

(* ... Stake checks the locked farm again, debits, settles and adds. *)
Stake(p) ==
    /\ Serving(p, "stake")
    /\ LET u == req[p].user
           x == req[p].amount
           t == req[p].at
           old == stake[u]
       IN  /\ OpenAt(t)
           /\ bal[u] >= x
           /\ bal' = [bal EXCEPT ![u] = @ - x]
           /\ Settle(u, Effective(u, old), Effective(u, old + x), t)
           /\ stake' = [stake EXCEPT ![u] = old + x]
           /\ farm' = [farm EXCEPT !.total = @ + x]
    /\ Answer(p)
    /\ UNCHANGED <<now, funds, power, boosts>>

\* Mutant of StakeCovers: the amount is not compared with the stake.
StakeCoversAny(u, x) == u \in DOMAIN ck

StakeCovers(u, x) == u \in DOMAIN ck /\ stake[u] >= x

(* Unstake compares the amount with the locked stake, settles, subtracts and *)
(* credits, whatever the status of the farm.                                 *)
Unstake(p) ==
    /\ Serving(p, "unstake")
    /\ LET u == req[p].user
           x == req[p].amount
           t == req[p].at
           new == stake[u] - x
       IN  /\ StakeCovers(u, x)
           /\ Settle(u, Effective(u, stake[u]), Effective(u, new), t)
           /\ stake' = [stake EXCEPT ![u] = new]
           /\ farm' = [farm EXCEPT !.total = Max({0, @ - x})]
           /\ bal' = [bal EXCEPT ![u] = @ + x]
    /\ Answer(p)
    /\ UNCHANGED <<now, funds, power, boosts>>

(* Claim settles and pays what has accrued. *)
Claim(p) ==
    /\ Serving(p, "claim")
    /\ LET u == req[p].user
           e == Effective(u, stake[u])
           s == Settled(u, e, e, req[p].at)
       IN  /\ u \in DOMAIN ck
           /\ rew' = Advanced(req[p].at)
           /\ dust' = dust \cup Rounded(u, e, req[p].at)
           /\ ck' = [s EXCEPT ![u].accrued = 0, ![u].claimed = @ + s[u].accrued]
    /\ Answer(p)
    /\ UNCHANGED <<now, farm, stake, bal, funds, power, boosts>>

(* A check of the transaction fails, or a statement does: nothing is written. *)
Refuse(p) ==
    /\ ~Serving(p, "idle")
    /\ Answer(p)
    /\ UNCHANGED <<now, farm, books, power, boosts>>

Next ==
    \/ Tick \/ FundFarmReward
    \/ \E u \in Users : SetPower(u)
    \/ \E p \in Procs :
          \/ UpdateFarmRead(p) \/ UpdateFarm(p) \/ DeleteFarmRead(p) \/ DeleteFarm(p)
          \/ Begin(p) \/ Stake(p) \/ Unstake(p) \/ Claim(p) \/ Refuse(p)

Spec == Init /\ [][Next]_vars

----
TypeOK ==
    /\ now \in 0..MaxTime
    /\ farm \in [status : Statuses, start : Times, end : Times, total : Nat]
    /\ rew \in [acc : Nat, dist : Nat, total : Nat, first : Times, last : Nat]
    /\ stake \in [Users -> Nat] /\ bal \in [Users -> Nat] /\ funds \in Nat
    /\ DOMAIN ck \subseteq Users
    /\ \A u \in DOMAIN ck : ck[u] \in [accrued : Nat, debt : Nat, claimed : Nat]
    /\ power \in [Users -> Nat] /\ boosts \in 0..MaxBoosts

(* "a stake is always backed by a real holding", "tokens are never credited  *)
(* while still recorded as staked": the farm's total is the sum of the       *)
(* stakes, and what left a balance is staked, over requests in any order.    *)
StakesBacked ==
    /\ TypeOK
    /\ farm.total = Sum(stake, Users)
    /\ \A u \in Users : bal[u] + stake[u] = Opening

(* "a clock skew cannot let the same interval emit twice": the stream never   *)
(* emits more than its rate over the time its checkpoint has moved, nor more  *)
(* than was funded, although requests commit with clocks out of order, the    *)
(* budget runs out and the window is edited.                                  *)
EmittedOnce == rew.dist <= Min({rew.total, Rate * (rew.last - rew.first)})

(* "a farm can never pay out rewards that were not funded": what stakers were *)
(* paid or can claim was funded by a debit.                                   *)
PaidWithinFunded ==
    Sum([u \in DOMAIN ck |-> ck[u].claimed + ck[u].accrued], DOMAIN ck) <= Budget - funds

(* Without boosts it holds up to one unit for each debt that was rounded      *)
(* down; with them it does not, for shares are boosted and the total they are *)
(* paid from is not.                                                          *)
PaidWithinFundedUnboosted == boosts = 0 =>
    /\ rew.total = Budget - funds
    /\ Sum([u \in DOMAIN ck |-> ck[u].claimed + ck[u].accrued], DOMAIN ck)
          <= rew.dist + Cardinality(dust)
====
