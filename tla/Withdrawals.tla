---- MODULE Withdrawals ----
(***************************************************************************)
(* Withdrawals from the platform wallet: Withdraw of src/backend/services/ *)
(* wallet_service.go and SendTransaction of blockchain_client.go.          *)
(*                                                                         *)
(* A request debits the ledger, signs with the one platform key, takes the *)
(* account's pending nonce from the node and broadcasts; an error credits  *)
(* the amount back.  Requests run concurrently and share the nonce.  The   *)
(* node's pool and the chain are the environment.  Debit and Credit are    *)
(* single transactions of module Ledger.                                   *)
(***************************************************************************)
EXTENDS Integers, FiniteSets, FiniteSetsExt, Sums

CONSTANTS
    Requests,       \* withdrawal requests
    Users,
    Amounts,        \* amounts asked for
    Opening,        \* ledger balance of every account at the start
    Nobody          \* an empty slot of the node's pool

ASSUME WithdrawAssumption ==
    /\ Amounts \subseteq Nat \ {0} /\ Opening \in Nat
    /\ IsFiniteSet(Requests) /\ Nobody \notin Requests

(* The token field of the request: the watcher credits native deposits      *)
(* under "native" and ERC-20 ones under the contract; rows under the zero   *)
(* address come from operators (CreditDeposit).                             *)
Tokens == {"native", "zero", "erc20"}
Accounts == Users \X Tokens

VARIABLES
    bal,        \* bal[a]: ledger balance of account a
    pc,         \* pc[r]
    acct,       \* acct[r]: account r debits
    amount,     \* amount[r]
    charged,    \* requests debited and not credited back
    nonce,      \* nonce[r]: nonce r signs with
    pool,       \* pool[n]: transaction the node holds for nonce n
    mined,      \* number of nonces mined: the account's next nonce
    outcome,    \* outcome[r]: what became of r's transaction on the chain
    delivered,  \* delivered[r]: amount the recipient got
    unseen      \* history: requests whose broadcast was taken, its answer lost

ledger == <<bal, charged>>
request == <<pc, acct, amount, nonce, unseen>>
node == <<pool, mined, outcome, delivered>>
vars == <<ledger, request, node>>

Nonces == 0..Cardinality(Requests)
Active == {"key", "nonce", "send", "refund", "sent"}
Ended == {"refused", "failed", "done", "crashed"}

Init ==
    /\ bal = [a \in Accounts |-> Opening]
    /\ pc = [r \in Requests |-> "idle"]
    /\ acct \in {[r \in Requests |-> a] : a \in Accounts}
    /\ amount = [r \in Requests |-> 0]
    /\ charged = {}
    /\ nonce = [r \in Requests |-> 0]
    /\ pool = [n \in Nonces |-> Nobody]
    /\ mined = 0
    /\ outcome = [r \in Requests |-> "none"]
    /\ delivered = [r \in Requests |-> 0]
    /\ unseen = {}

Goto(r, l) == pc' = [pc EXCEPT ![r] = l]

----
(* ledger.Debit is the gate; an insufficient balance is answered 409. *)
Debit(r) == \E a \in Accounts, x \in Amounts :
    /\ pc[r] = "idle"
    /\ acct' = [acct EXCEPT ![r] = a]
    /\ amount' = [amount EXCEPT ![r] = x]
    /\ IF bal[a] < x
       THEN Goto(r, "refused") /\ UNCHANGED ledger
       ELSE /\ bal' = [bal EXCEPT ![a] = @ - x]
            /\ charged' = charged \cup {r}
            /\ Goto(r, "key")
    /\ UNCHANGED <<nonce, unseen, node>>

(* platformKey. *)
LoadKey(r) ==
    /\ pc[r] = "key"
    /\ Goto(r, "nonce")
    /\ UNCHANGED <<ledger, acct, amount, nonce, unseen, node>>

(* PendingNonceAt counts what the node's pool holds from mined on. *)
PendingNonce == Min({n \in Nonces : n >= mined /\ pool[n] = Nobody})

ReadNonce(r) ==
    /\ pc[r] = "nonce"
    /\ nonce' = [nonce EXCEPT ![r] = PendingNonce]
    /\ Goto(r, "send")
    /\ UNCHANGED <<ledger, acct, amount, unseen, node>>

(* The node takes the transaction: its nonce is not used up, and one the    *)
(* pool holds for the same nonce is replaced (the gas price has risen).     *)
Accept(r) ==
    /\ nonce[r] >= mined
    /\ pool' = [pool EXCEPT ![nonce[r]] = r]
    /\ outcome' = IF pool[nonce[r]] = Nobody THEN outcome
                  ELSE [outcome EXCEPT ![pool[nonce[r]]] = "dropped"]
    /\ UNCHANGED <<mined, delivered>>

Broadcast(r) ==
    /\ pc[r] = "send"
    /\ Accept(r)
    /\ Goto(r, "sent")
    /\ UNCHANGED <<ledger, acct, amount, nonce, unseen>>

(* The node takes the transaction and the answer is lost: the request's     *)
(* context ends, or the connection breaks.                                  *)
BroadcastUnseen(r) ==
    /\ pc[r] = "send"
    /\ Accept(r)
    /\ unseen' = unseen \cup {r}
    /\ Goto(r, "refund")
    /\ UNCHANGED <<ledger, acct, amount, nonce>>

(* platformKey or SendTransaction returns an error and nothing was sent. *)
Fail(r) ==
    /\ pc[r] \in {"key", "nonce", "send"}
    /\ Goto(r, "refund")
    /\ UNCHANGED <<ledger, acct, amount, nonce, unseen, node>>

\* Mutant of Refund: the reversal is retried after it took effect.
RefundTwice(r) ==
    /\ pc[r] = "refund"
    /\ bal' = [bal EXCEPT ![acct[r]] = @ + 2 * amount[r]]
    /\ charged' = charged \ {r}
    /\ Goto(r, "failed")
    /\ UNCHANGED <<acct, amount, nonce, unseen, node>>

(* ledger.Credit reverses the debit. *)
Refund(r) ==
    /\ pc[r] = "refund"
    /\ bal' = [bal EXCEPT ![acct[r]] = @ + amount[r]]
    /\ charged' = charged \ {r}
    /\ Goto(r, "failed")
    /\ UNCHANGED <<acct, amount, nonce, unseen, node>>

(* The credit fails; the error is logged, or dropped after platformKey. *)
RefundFails(r) ==
    /\ pc[r] = "refund"
    /\ Goto(r, "failed")
    /\ UNCHANGED <<ledger, acct, amount, nonce, unseen, node>>

\* Mutant of Record: a failed insert of the row counts as a failed withdrawal.
RecordFailureReverses(r) ==
    /\ pc[r] = "sent"
    /\ Goto(r, "refund") \/ Goto(r, "done")
    /\ UNCHANGED <<ledger, acct, amount, nonce, unseen, node>>

\* Mutant of Record: the answer waits for the transaction to be executed.
RecordWhenPaid(r) ==
    /\ pc[r] = "sent"
    /\ outcome[r] = "paid"
    /\ Goto(r, "done")
    /\ UNCHANGED <<ledger, acct, amount, nonce, unseen, node>>

(* db.Create of the transactions row, its error ignored; answer 200. *)
Record(r) ==
    /\ pc[r] = "sent"
    /\ Goto(r, "done")
    /\ UNCHANGED <<ledger, acct, amount, nonce, unseen, node>>

(* The process dies with requests under way; nothing was recorded of them. *)
Crash ==
    /\ \E r \in Requests : pc[r] \in Active
    /\ pc' = [r \in Requests |-> IF pc[r] \in Active THEN "crashed" ELSE pc[r]]
    /\ UNCHANGED <<ledger, acct, amount, nonce, unseen, node>>

----
(* What the transaction SendTransaction builds moves: for any token but the *)
(* zero address it is a call with value 0 and transfer data, sent to the    *)
(* recipient itself and not to the token contract.                          *)
Moves(r) == IF acct[r][2] = "zero" THEN amount[r] ELSE 0

(* The chain includes the next transaction, which succeeds or reverts. *)
MineOk ==
    /\ mined \in Nonces /\ pool[mined] # Nobody
    /\ LET r == pool[mined] IN
       /\ outcome' = [outcome EXCEPT ![r] = "paid"]
       /\ delivered' = [delivered EXCEPT ![r] = Moves(r)]
    /\ mined' = mined + 1
    /\ UNCHANGED <<ledger, request, pool>>

MineReverted ==
    /\ mined \in Nonces /\ pool[mined] # Nobody
    /\ outcome' = [outcome EXCEPT ![pool[mined]] = "reverted"]
    /\ mined' = mined + 1
    /\ UNCHANGED <<ledger, request, pool, delivered>>

Quiet ==
    /\ \A r \in Requests : pc[r] \in Ended
    /\ mined \in Nonces => pool[mined] = Nobody
    /\ UNCHANGED vars

Handler(r) ==
    \/ LoadKey(r) \/ ReadNonce(r)
    \/ Broadcast(r) \/ BroadcastUnseen(r) \/ Fail(r)
    \/ Refund(r) \/ RefundFails(r) \/ Record(r)

Next ==
    \/ \E r \in Requests : Debit(r) \/ Handler(r)
    \/ Crash \/ MineOk \/ MineReverted \/ Quiet

(* Handlers run to their answer and the chain goes on. *)
Fairness ==
    /\ \A r \in Requests : WF_vars(Handler(r))
    /\ WF_vars(MineOk \/ MineReverted)

Spec == Init /\ [][Next]_vars /\ Fairness

----
TypeOK ==
    /\ bal \in [Accounts -> Nat]
    /\ pc \in [Requests -> {"idle"} \cup Active \cup Ended]
    /\ acct \in [Requests -> Accounts]
    /\ amount \in [Requests -> Nat]
    /\ charged \subseteq Requests
    /\ nonce \in [Requests -> Nonces]
    /\ pool \in [Nonces -> Requests \cup {Nobody}]
    /\ mined \in Nat
    /\ outcome \in [Requests -> {"none", "paid", "reverted", "dropped"}]
    /\ delivered \in [Requests -> Nat]
    /\ unseen \subseteq Requests

Of(a) == {r \in Requests : acct[r] = a}

(* Through failures, reversals, crashes and interleaved requests, what is   *)
(* missing from an account is exactly what its unreversed requests charged. *)
BooksBalance ==
    /\ TypeOK
    /\ \A a \in Accounts : bal[a] + Sum(amount, charged \cap Of(a)) = Opening

(* "a withdrawal can never exceed what the user holds on the platform": the *)
(* platform never pays out, for an account, more than the ledger took from  *)
(* it, even when transactions share a nonce; but a broadcast whose answer   *)
(* is lost is both paid and reversed.                                       *)
NoOverpay == \A a \in Accounts :
    Of(a) \cap unseen = {} => bal[a] + Sum(delivered, Of(a)) <= Opening

(* Every request is answered, or its process died. *)
EveryRequestAnswered == \A r \in Requests : pc[r] \in Active ~> pc[r] \in Ended

(* Withdraw "signs and broadcasts a withdrawal from the platform wallet": a *)
(* withdrawal the chain has executed has paid the recipient.                *)
PaidIsDelivered == \A r \in Requests :
    outcome[r] = "paid" => delivered[r] = amount[r]
====
