---- MODULE AtomicLedger ----
(***************************************************************************)
(* What the platform ledger promises its callers (src/backend/services/    *)
(* ledger_service.go): a database transaction posts credits and debits     *)
(* that nobody else can see, and its commit adds all of them at once to    *)
(* the balances committed at that moment, or none of them takes effect.    *)
(* A commit that would leave an account below zero does not happen.        *)
(***************************************************************************)
EXTENDS Integers

CONSTANTS
    Accounts,   \* the (user, chain, token) keys of account_balances
    Txs,        \* database transactions
    Entries     \* amounts one posting may add (negative for a debit)

VARIABLES
    bal,        \* bal[a]: committed available balance of a (0 without a row)
    posted,     \* posted[t][a]: net amount t has posted to a so far
    status      \* status[t]: "idle", "running", "committed" or "aborted"

vars == <<bal, posted, status>>

NothingPosted == [a \in Accounts |-> 0]

Init ==
    /\ bal \in [Accounts -> Nat]
    /\ posted = [t \in Txs |-> NothingPosted]
    /\ status = [t \in Txs |-> "idle"]

Begin(t) ==
    /\ status[t] = "idle"
    /\ status' = [status EXCEPT ![t] = "running"]
    /\ UNCHANGED <<bal, posted>>

\* A credit (d > 0) or a debit (d < 0) of one account.
Post(t, a, d) ==
    /\ status[t] = "running"
    /\ posted' = [posted EXCEPT ![t][a] = @ + d]
    /\ UNCHANGED <<bal, status>>

Commit(t) ==
    /\ status[t] = "running"
    /\ \A a \in Accounts : bal[a] + posted[t][a] >= 0
    /\ bal' = [a \in Accounts |-> bal[a] + posted[t][a]]
    /\ status' = [status EXCEPT ![t] = "committed"]
    /\ UNCHANGED posted

Abort(t) ==
    /\ status[t] = "running"
    /\ status' = [status EXCEPT ![t] = "aborted"]
    /\ UNCHANGED <<bal, posted>>

Next == \E t \in Txs :
    \/ Begin(t)
    \/ \E a \in Accounts, d \in Entries : Post(t, a, d)
    \/ Commit(t)
    \/ Abort(t)

Spec == Init /\ [][Next]_vars
====
