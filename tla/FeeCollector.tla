---- MODULE FeeCollector ----
(***************************************************************************)
(* Protocol fees: src/backend/services/fee_collector.go.  Fee records, the *)
(* rates and the revenue of each day in memory under one mutex, which a    *)
(* distribution lets go while it sends.  Each kind of fee has rates of its *)
(* own in the code and the same ones here; a token is worth one dollar.    *)
(***************************************************************************)
EXTENDS Integers, Sequences, SequencesExt, FiniteSetsExt, Sums

CONSTANTS
    Requests,
    Amounts, Percents, Fixed,
    Days,           \* 1..n, the last is a bound
    MaxRecords      \* bound: fees collected between two restarts

VARIABLE db

Kinds == {"swap", "bridge", "wallet", "withdraw", "launchpad"}

(* NewFeeCollectorService: nothing is persisted. *)
NewFeeCollectorService(day, sends) ==
    [percent |-> 50, fixed |-> 0, master |-> FALSE, records |-> <<>>, total |-> 0,
     daily |-> [d \in Days |-> 0], day |-> day,
     job |-> [r \in Requests |-> "idle"],
     sends |-> sends]           \* history: a distribution was sent

Init == db = NewFeeCollectorService(1, FALSE)
Restart == db' = NewFeeCollectorService(db.day, db.sends)
Tick == db.day + 1 \in Days /\ db' = [db EXCEPT !.day = @ + 1]

SetMasterWallet == db' = [db EXCEPT !.master = TRUE]

\* Mutant of ValidRates: negative rates are let through.
ValidRatesAbove(percent, fixed) == percent <= 100

(* validateFeeConfig, before UpdateConfig stores the rates. *)
ValidRates(percent, fixed) == 0 <= percent /\ percent <= 100 /\ 0 <= fixed

UpdateConfig(percent, fixed) ==
    /\ ValidRates(percent, fixed)
    /\ db' = [db EXCEPT !.percent = percent, !.fixed = fixed]

(* calculateFeeExact: the percentage, or the fixed fee when that is more. *)
FeeOn(x) == Max({(x * db.percent) \div 100, db.fixed})

\* Mutant of DailyWith: a day starts with its first fee, and so does every fee.
DailyReset(fee) == [db.daily EXCEPT ![db.day] = fee]

(* updateDailyRevenue *)
DailyWith(fee) == [db.daily EXCEPT ![db.day] = @ + fee]

Collected(kind, x) ==
    /\ Len(db.records) < MaxRecords
    /\ db' = [db EXCEPT !.records = Append(@, [kind |-> kind, fee |-> FeeOn(x), status |-> "collected"]),
                        !.total = @ + FeeOn(x), !.daily = DailyWith(FeeOn(x))]

CollectSwapFee(x) == Collected("swap", x)
CollectBridgeFee(x) == Collected("bridge", x)
CollectWalletFee(x) == Collected("wallet", x)
CollectWithdrawFee(x) == Collected("withdraw", x)
CollectLaunchpadFee(x) == Collected("launchpad", x)

(* DistributeFees reads the wallet, and lets go of the lock to send the      *)
(* amount the operator names, whatever was collected ...                     *)
DistributeFees(r) ==
    /\ db.master /\ db.job[r] = "idle"
    /\ db' = [db EXCEPT !.job[r] = "sending"]

SendFees(r) ==
    /\ db.job[r] = "sending"
    /\ \/ db' = [db EXCEPT !.job[r] = "sent", !.sends = TRUE]
       \/ db' = [db EXCEPT !.job[r] = "idle"]

(* ... then marks every record, those collected meanwhile as well. *)
MarkDistributed(r) ==
    /\ db.job[r] = "sent"
    /\ db' = [db EXCEPT !.job[r] = "idle",
                        !.records = [i \in DOMAIN @ |-> [@[i] EXCEPT !.status = "distributed"]]]

(* GetRevenueReport adds up each kind's records. *)
Report == [kind \in Kinds |->
    Sum([i \in DOMAIN db.records |-> db.records[i].fee],
        {i \in DOMAIN db.records : db.records[i].kind = kind})]

Next ==
    \/ Restart \/ Tick \/ SetMasterWallet
    \/ \E percent \in Percents, fixed \in Fixed : UpdateConfig(percent, fixed)
    \/ \E x \in Amounts :
          \/ CollectSwapFee(x) \/ CollectBridgeFee(x) \/ CollectWalletFee(x)
          \/ CollectWithdrawFee(x) \/ CollectLaunchpadFee(x)
    \/ \E r \in Requests : DistributeFees(r) \/ SendFees(r) \/ MarkDistributed(r)

----
TypeOK == db.total \in Nat /\ \A r \in ToSet(db.records) : r.kind \in Kinds

(* The three accounts of the revenue agree, whenever the rates changed, the  *)
(* day turned or the process restarted: the total, what the report adds up   *)
(* and the days; and nothing is marked distributed that no transfer preceded.*)
FeesAccounted ==
    /\ db.total = Sum(Report, Kinds)
    /\ db.total = Sum(db.daily, Days)
    /\ (\E r \in ToSet(db.records) : r.status = "distributed") => db.sends
====
