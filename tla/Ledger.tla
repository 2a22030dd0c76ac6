---- MODULE Ledger ----
(***************************************************************************)
(* The platform ledger of src/backend/services/ledger_service.go as its    *)
(* callers use it: each runs a database transaction in which it credits    *)
(* and debits account rows (creditWithin, debitWithin), every one through  *)
(* mutateWithin: SELECT ... FOR UPDATE, INSERT of a missing row, re-read,  *)
(* UPDATE with an absolute value.  One action is one SQL statement.        *)
(*                                                                         *)
(* PostgreSQL at READ COMMITTED is the environment: a row lock is held to  *)
(* the end of the transaction; a waiting SELECT FOR UPDATE reads the row   *)
(* version committed last; a row inserted by another open transaction is   *)
(* invisible to SELECT but blocks an INSERT of the same key (the unique    *)
(* index idx_account_balance); a cycle of waiting transactions is broken   *)
(* by aborting one of them.                                                *)
(***************************************************************************)
EXTENDS Integers

CONSTANTS
    Accounts,   \* (user, chain, normalised token) keys of account_balances
    Txs,        \* database transactions, each the body of one request
    Nobody,     \* holder of a free lock
    Amounts,    \* amounts the callers pass, positive or not
    Opening,    \* balances that may be on the books at the start
    MaxOps      \* bound: ledger operations of one transaction

ASSUME LedgerAssumption ==
    /\ Nobody \notin Txs
    /\ Amounts \subseteq Int
    /\ Opening \subseteq Nat
    /\ MaxOps \in Nat

VARIABLES
    stored,     \* accounts that have a committed row
    bal,        \* bal[a]: committed "available" column (0 without a row)
    lock,       \* lock[a]: transaction holding a's row lock, or its insert
    pend,       \* pend[a]: the lock holder's uncommitted version of the row
    stmt,       \* stmt[t]: the next statement of t
    op,         \* op[t]: the mutateWithin call t is executing
    seen,       \* seen[t]: row.Available as t read it
    ops,        \* ops[t]: operations t has started
    posted      \* history: posted[t][a], the net amount t applied to a

ledgerVars == <<stored, bal, lock, pend, stmt, op, seen, ops, posted>>

(* The calls that are made, and the value of op[t] before the first one. *)
Operations == [kind : {"credit", "debit"}, acct : Accounts, amount : Amounts]
NoOperation == [kind |-> "none", acct |-> Nobody, amount |-> 0]

Active == {"open", "select", "create", "reread", "update", "failed"}
Ended == {"committed", "aborted"}

(* The row the current operation of t is about. *)
Row(t) == op[t].acct

(* SELECT sees committed rows and the rows its own transaction inserted. *)
Visible(t, a) == a \in stored \/ lock[a] = t

(* The balance fn of creditWithin and debitWithin computes from what t read. *)
NextBalance(t) ==
    IF op[t].kind = "credit" THEN seen[t] + op[t].amount
                             ELSE seen[t] - op[t].amount

----
LedgerInit ==
    /\ bal \in [Accounts -> Opening]
    /\ stored \in SUBSET Accounts
    /\ \A a \in Accounts \ stored : bal[a] = 0
    /\ lock = [a \in Accounts |-> Nobody]
    /\ pend = [a \in Accounts |-> 0]
    /\ stmt = [t \in Txs |-> "idle"]
    /\ op = [t \in Txs |-> NoOperation]
    /\ seen = [t \in Txs |-> 0]
    /\ ops = [t \in Txs |-> 0]
    /\ posted = [t \in Txs |-> [a \in Accounts |-> 0]]

(* db.Transaction: BEGIN. *)
Begin(t) ==
    /\ stmt[t] = "idle"
    /\ stmt' = [stmt EXCEPT ![t] = "open"]
    /\ UNCHANGED <<stored, bal, lock, pend, op, seen, ops, posted>>

\* Mutant of Call: one operation more than the caller's script has.
CallOneMore(t, o) ==
    /\ stmt[t] = "open"
    /\ ops[t] <= MaxOps
    /\ ops' = [ops EXCEPT ![t] = @ + 1]
    /\ op' = [op EXCEPT ![t] = o]
    /\ stmt' = [stmt EXCEPT ![t] = IF o.amount <= 0 THEN "failed" ELSE "select"]
    /\ UNCHANGED <<stored, bal, lock, pend, seen, posted>>

(* creditWithin or debitWithin: an amount that is not positive is refused, *)
(* and the error returned to db.Transaction rolls the transaction back.    *)
Call(t, o) ==
    /\ stmt[t] = "open"
    /\ ops[t] < MaxOps
    /\ ops' = [ops EXCEPT ![t] = @ + 1]
    /\ op' = [op EXCEPT ![t] = o]
    /\ stmt' = [stmt EXCEPT ![t] = IF o.amount <= 0 THEN "failed" ELSE "select"]
    /\ UNCHANGED <<stored, bal, lock, pend, seen, posted>>

\* Mutant of SelectForUpdate: without clause.Locking the read does not wait.
SelectUnlocked(t) ==
    /\ stmt[t] = "select"
    /\ Visible(t, Row(t))
    /\ LET current == IF lock[Row(t)] = t THEN pend[Row(t)] ELSE bal[Row(t)]
       IN  /\ seen' = [seen EXCEPT ![t] = current]
           /\ pend' = [pend EXCEPT ![Row(t)] = current]
    /\ lock' = [lock EXCEPT ![Row(t)] = t]
    /\ stmt' = [stmt EXCEPT ![t] = "update"]
    /\ UNCHANGED <<stored, bal, op, ops, posted>>

\* Mutant of SelectForUpdate: the read goes through s.db and not tx, and
\* misses what the transaction itself wrote.
SelectOutsideTx(t) ==
    /\ stmt[t] = "select"
    /\ Visible(t, Row(t))
    /\ lock[Row(t)] \in {Nobody, t}
    /\ seen' = [seen EXCEPT ![t] = bal[Row(t)]]
    /\ pend' = [pend EXCEPT ![Row(t)] = bal[Row(t)]]
    /\ lock' = [lock EXCEPT ![Row(t)] = t]
    /\ stmt' = [stmt EXCEPT ![t] = "update"]
    /\ UNCHANGED <<stored, bal, op, ops, posted>>

(* SELECT ... FOR UPDATE finds the row: it waits for the lock, takes it, and *)
(* reads the transaction's own version, or else the committed one.           *)
SelectForUpdate(t) ==
    /\ stmt[t] = "select"
    /\ Visible(t, Row(t))
    /\ lock[Row(t)] \in {Nobody, t}
    /\ LET current == IF lock[Row(t)] = t THEN pend[Row(t)] ELSE bal[Row(t)]
       IN  /\ seen' = [seen EXCEPT ![t] = current]
           /\ pend' = [pend EXCEPT ![Row(t)] = current]
    /\ lock' = [lock EXCEPT ![Row(t)] = t]
    /\ stmt' = [stmt EXCEPT ![t] = "update"]
    /\ UNCHANGED <<stored, bal, op, ops, posted>>

(* The same SELECT returns gorm.ErrRecordNotFound and locks nothing. *)
SelectNotFound(t) ==
    /\ stmt[t] = "select"
    /\ ~Visible(t, Row(t))
    /\ stmt' = [stmt EXCEPT ![t] = "create"]
    /\ UNCHANGED <<stored, bal, lock, pend, op, seen, ops, posted>>

(* tx.Create of the row with balance "0": waits while another open         *)
(* transaction has inserted the key.                                       *)
Create(t) ==
    /\ stmt[t] = "create"
    /\ Row(t) \notin stored
    /\ lock[Row(t)] = Nobody
    /\ lock' = [lock EXCEPT ![Row(t)] = t]
    /\ pend' = [pend EXCEPT ![Row(t)] = 0]
    /\ stmt' = [stmt EXCEPT ![t] = "reread"]
    /\ UNCHANGED <<stored, bal, op, seen, ops, posted>>

(* The INSERT meets a row committed since the SELECT: unique violation. *)
CreateConflict(t) ==
    /\ stmt[t] = "create"
    /\ Row(t) \in stored
    /\ stmt' = [stmt EXCEPT ![t] = "failed"]
    /\ UNCHANGED <<stored, bal, lock, pend, op, seen, ops, posted>>

(* The re-read of the new row under lock. *)
Reread(t) ==
    /\ stmt[t] = "reread"
    /\ seen' = [seen EXCEPT ![t] = pend[Row(t)]]
    /\ stmt' = [stmt EXCEPT ![t] = "update"]
    /\ UNCHANGED <<stored, bal, lock, pend, op, ops, posted>>

\* Mutant of Update: debitWithin without its balance check.
UpdateUnchecked(t) ==
    /\ stmt[t] = "update"
    /\ pend' = [pend EXCEPT ![Row(t)] = NextBalance(t)]
    /\ posted' = [posted EXCEPT ![t][Row(t)] =
                      @ + (IF op[t].kind = "credit" THEN op[t].amount
                                                    ELSE -op[t].amount)]
    /\ stmt' = [stmt EXCEPT ![t] = "open"]
    /\ UNCHANGED <<stored, bal, lock, op, seen, ops>>

(* fn succeeds; UPDATE writes the absolute value next.String(). *)
Update(t) ==
    /\ stmt[t] = "update"
    /\ op[t].kind = "debit" => seen[t] >= op[t].amount
    /\ pend' = [pend EXCEPT ![Row(t)] = NextBalance(t)]
    /\ posted' = [posted EXCEPT ![t][Row(t)] =
                      @ + (IF op[t].kind = "credit" THEN op[t].amount
                                                    ELSE -op[t].amount)]
    /\ stmt' = [stmt EXCEPT ![t] = "open"]
    /\ UNCHANGED <<stored, bal, lock, op, seen, ops>>

(* fn of debitWithin returns ErrInsufficientBalance. *)
Insufficient(t) ==
    /\ stmt[t] = "update"
    /\ op[t].kind = "debit"
    /\ seen[t] < op[t].amount
    /\ stmt' = [stmt EXCEPT ![t] = "failed"]
    /\ UNCHANGED <<stored, bal, lock, pend, op, seen, ops, posted>>

(* The locks of t are released at the end of its transaction. *)
Release(t) == [a \in Accounts |-> IF lock[a] = t THEN Nobody ELSE lock[a]]

(* The callback returned nil: COMMIT publishes every row t wrote. *)
Commit(t) ==
    /\ stmt[t] = "open"
    /\ bal' = [a \in Accounts |-> IF lock[a] = t THEN pend[a] ELSE bal[a]]
    /\ stored' = stored \cup {a \in Accounts : lock[a] = t}
    /\ lock' = Release(t)
    /\ stmt' = [stmt EXCEPT ![t] = "committed"]
    /\ UNCHANGED <<pend, op, seen, ops, posted>>

\* Mutant of Discard: the error path never rolls the transaction back.
DiscardLeaky(t) ==
    /\ stmt' = [stmt EXCEPT ![t] = "aborted"]
    /\ UNCHANGED <<stored, bal, lock, pend, op, seen, ops, posted>>

(* ROLLBACK drops the versions t wrote and the rows it inserted. *)
Discard(t) ==
    /\ lock' = Release(t)
    /\ stmt' = [stmt EXCEPT ![t] = "aborted"]
    /\ UNCHANGED <<stored, bal, pend, op, seen, ops, posted>>

(* The callback returned an error. *)
Rollback(t) ==
    /\ stmt[t] = "failed"
    /\ Discard(t)

(* The process, the connection or a statement of the caller fails. *)
Interrupted(t) ==
    /\ stmt[t] \in Active \ {"failed"}
    /\ Discard(t)

----
(* t cannot run its next statement until u has ended. *)
WaitsFor(t, u) ==
    /\ u # t
    /\ \/ stmt[t] = "select" /\ Row(t) \in stored
       \/ stmt[t] = "create" /\ Row(t) \notin stored
    /\ lock[Row(t)] = u

(* t is on a cycle of waiting transactions: all wait for one another. *)
Deadlocked(t) == \E S \in SUBSET Txs :
    /\ t \in S
    /\ \A u \in S : /\ \E v \in S : WaitsFor(u, v)
                    /\ \E v \in S : WaitsFor(v, u)

(* The database's deadlock detector aborts one transaction of a cycle. *)
DeadlockVictim(t) ==
    /\ stmt[t] \in {"select", "create"}
    /\ Deadlocked(t)
    /\ Discard(t)

(* All requests have been answered. *)
Quiet ==
    /\ \A t \in Txs : stmt[t] \in Ended
    /\ UNCHANGED ledgerVars

Statement(t) ==
    \/ \E o \in Operations : Call(t, o)
    \/ SelectForUpdate(t) \/ SelectNotFound(t)
    \/ Create(t) \/ CreateConflict(t) \/ Reread(t)
    \/ Update(t) \/ Insufficient(t)
    \/ Commit(t) \/ Rollback(t)

LedgerNext ==
    \/ \E t \in Txs : Begin(t) \/ Statement(t) \/ Interrupted(t) \/ DeadlockVictim(t)
    \/ Quiet

(* The goroutine of a request runs its next statement, and the database    *)
(* breaks every deadlock; no request has to arrive and nothing has to crash. *)
LedgerFairness == \A t \in Txs : WF_ledgerVars(Statement(t)) /\ WF_ledgerVars(DeadlockVictim(t))

LedgerSpec == LedgerInit /\ [][LedgerNext]_ledgerVars /\ LedgerFairness

----
LedgerTypeOK ==
    /\ stored \subseteq Accounts
    /\ bal \in [Accounts -> Int]
    /\ lock \in [Accounts -> Txs \cup {Nobody}]
    /\ pend \in [Accounts -> Int]
    /\ stmt \in [Txs -> {"idle"} \cup Active \cup Ended]
    /\ op \in [Txs -> Operations \cup {NoOperation}]
    /\ seen \in [Txs -> Int]
    /\ ops \in [Txs -> 0..MaxOps]
    /\ posted \in [Txs -> [Accounts -> Int]]

(* No committed balance is ever below zero, however debits interleave      *)
(* ("concurrent withdrawals cannot both pass the same balance check").     *)
NonNegative == \A a \in Accounts : bal[a] >= 0

(* No lost update: the absolute value a transaction is about to commit is  *)
(* the committed balance of now plus exactly what it posted, although the  *)
(* balance was read several statements ago.                                *)
NoLostUpdate == \A a \in Accounts, t \in Txs :
    lock[a] = t => pend[a] = bal[a] + posted[t][a]

(* The parts of the inductive invariant that the properties rest on.       *)

(* A mutateWithin under way has a call with a positive amount; once it has *)
(* the row it holds its lock, and what it read is still the row's value.   *)
CallInProgress == \A t \in Txs :
    /\ stmt[t] \in {"select", "create", "reread", "update"} =>
           op[t] \in Operations /\ op[t].amount > 0
    /\ stmt[t] \in {"reread", "update"} => lock[Row(t)] = t
    /\ stmt[t] = "update" => seen[t] = pend[Row(t)]

(* Only an open transaction holds locks. *)
HoldersActive == \A a \in Accounts, t \in Txs : lock[a] = t => stmt[t] \in Active

(* What an open transaction posted, it posted to rows it still holds: no   *)
(* other transaction can have overwritten them before it commits.          *)
PostedIsLocked == \A a \in Accounts, t \in Txs :
    /\ stmt[t] \in Active /\ posted[t][a] # 0 => lock[a] = t
    /\ stmt[t] = "idle" => posted[t][a] = 0

(* A version written but not yet committed is not below zero either. *)
PendingNonNegative == \A a \in Accounts : lock[a] # Nobody => pend[a] >= 0

(* An account without a row has no money. *)
NoRowNoMoney == \A a \in Accounts \ stored : bal[a] = 0

LedgerIInv ==
    /\ LedgerTypeOK
    /\ CallInProgress
    /\ HoldersActive
    /\ PostedIsLocked
    /\ NoLostUpdate
    /\ PendingNonNegative
    /\ NoRowNoMoney
    /\ NonNegative

(* The statements of the ledger implement all-or-nothing transactions.     *)
Abstract == INSTANCE AtomicLedger WITH
    Entries <- Amounts \cup {-x : x \in Amounts},
    status <- [t \in Txs |-> IF stmt[t] \in Active THEN "running"
                             ELSE IF stmt[t] \in Ended THEN stmt[t] ELSE "idle"]
Atomic == Abstract!Spec

(* Every transaction that has started ends: waiting for a row lock never   *)
(* lasts for ever, whatever order two requests lock their rows in.         *)
EveryTxEnds == \A t \in Txs : stmt[t] \in Active ~> stmt[t] \in Ended
====
