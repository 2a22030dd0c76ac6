---- MODULE Bridge ----
(***************************************************************************)
(* The lock-and-mint bridge: src/backend/services/bridge_new.go.  One      *)
(* transfer, the request that locks it, and the relayers of several API    *)
(* processes that mint it; any step that talks to a chain or to the        *)
(* database may fail or never be heard of again.                           *)
(*                                                                         *)
(* The router contracts are not in the repository.  Assumed of the one on  *)
(* the destination chain: it mints a nonce once and reverts afterwards.    *)
(***************************************************************************)
EXTENDS Integers

CONSTANTS
    Relayers,   \* API processes sweeping the table
    MaxStrays   \* bound: mint transactions nobody waits for any more

VARIABLE db     \* the row, the two chains, the request and the relayers

Statuses == {"absent", "pending", "confirmed", "delivered", "failed"}
Outcomes == {"none", "sent", "ok", "reverted"}

Init ==
    db = [status |-> "absent", request |-> "start",
          lock |-> "none", mints |-> 0, strays |-> 0,
          relayer |-> [r \in Relayers |-> "idle"], tx |-> [r \in Relayers |-> "none"]]

(* persist: the whole row is written, or the write fails. *)
Persisted(status) == {status, db.status}

----
(* InitiateTransfer *)
PersistIntent ==
    /\ db.request = "start"
    /\ db' = [db EXCEPT !.status = "pending", !.request = "send"]

(* An error of the node does not say that it has not taken the transaction. *)
SendLock ==
    /\ db.request = "send"
    /\ \/ db' = [db EXCEPT !.lock = "sent", !.request = "await"]
       \/ \E status \in Persisted("failed"), lock \in {"none", "sent"} :
             db' = [db EXCEPT !.lock = lock, !.status = status, !.request = "done"]

MineLock(outcome) == db.lock = "sent" /\ db' = [db EXCEPT !.lock = outcome]

AwaitLock ==
    /\ db.request = "await"
    /\ \E status \in CASE db.lock = "ok" -> Persisted("confirmed")
                       [] db.lock = "reverted" -> Persisted("failed")
                       [] OTHER -> {db.status} :        \* no receipt in five minutes
          db' = [db EXCEPT !.status = status, !.request = "done"]

(* The process ends, or has no key or node: the row stays as it is. *)
CrashRequest ==
    /\ db.request \in {"send", "await"}
    /\ db' = [db EXCEPT !.request = "done"]

----
\* Mutant of Releasable: a lock that is not confirmed yet is minted too.
ReleasableEarly == db.status \in {"pending", "confirmed"}

Releasable == db.status = "confirmed"

(* ProcessPending calls ReleaseMint for the row; its status is read here and *)
(* not again.                                                                *)
ProcessPending(r) ==
    /\ db.relayer[r] = "idle" /\ Releasable
    /\ db' = [db EXCEPT !.relayer[r] = "send"]

(* ReleaseMint *)
SendMint(r) ==
    /\ db.relayer[r] = "send"
    /\ \/ db' = [db EXCEPT !.relayer[r] = "await", !.tx[r] = "sent"]
       \/ db' = [db EXCEPT !.relayer[r] = "idle"]
       \/ db.strays < MaxStrays /\ db' = [db EXCEPT !.relayer[r] = "idle", !.strays = @ + 1]

(* The destination router. *)
Mint(r) ==
    /\ db.tx[r] = "sent"
    /\ \/ db.mints = 0 /\ db' = [db EXCEPT !.mints = 1, !.tx[r] = "ok"]
       \/ db' = [db EXCEPT !.tx[r] = "reverted"]

MintStray ==
    /\ db.strays > 0
    /\ \/ db.mints = 0 /\ db' = [db EXCEPT !.mints = 1, !.strays = @ - 1]
       \/ db' = [db EXCEPT !.strays = @ - 1]

(* A receipt settles the row, whatever it says by now; without one it stays  *)
(* for the next sweep.                                                       *)
AwaitMint(r) ==
    /\ db.relayer[r] = "await"
    /\ \/ /\ db.tx[r] \in {"ok", "reverted"}
          /\ \E status \in Persisted(IF db.tx[r] = "ok" THEN "delivered" ELSE "failed") :
                db' = [db EXCEPT !.status = status, !.relayer[r] = "idle", !.tx[r] = "none"]
       \/ /\ db.tx[r] # "sent" \/ db.strays < MaxStrays
          /\ db' = [db EXCEPT !.relayer[r] = "idle", !.tx[r] = "none",
                              !.strays = IF db.tx[r] = "sent" THEN @ + 1 ELSE @]

Next ==
    \/ PersistIntent \/ SendLock \/ AwaitLock \/ CrashRequest \/ MintStray
    \/ \E outcome \in {"ok", "reverted"} : MineLock(outcome)
    \/ \E r \in Relayers : ProcessPending(r) \/ SendMint(r) \/ Mint(r) \/ AwaitMint(r)

----
TypeOK == db.status \in Statuses /\ db.lock \in Outcomes /\ db.mints \in Nat

(* "Called by the relayer once a source-chain lock is confirmed", "a crash   *)
(* never loses the intent": through crashes, lost answers, retries and two   *)
(* relayers, nothing is minted that is not locked, nothing is locked without *)
(* a row, and a row says delivered only of what was minted.                  *)
BridgeBacked ==
    /\ db.mints > 0 \/ db.status \in {"confirmed", "delivered"} => db.lock = "ok"
    /\ db.lock # "none" => db.status # "absent"
    /\ db.status = "delivered" => db.mints = 1
====
