---- MODULE WalletProofs ----
(***************************************************************************)
(* Proofs about the two ways money reaches a wallet: Ledger, for every set *)
(* of accounts, transactions, amounts and opening balances; and            *)
(* DepositWatcher, for every number of deposits and scanners, every        *)
(* confirmation depth and any number of faults.                            *)
(***************************************************************************)
EXTENDS Ledger, DepositWatcher, TLAPS

(***************************************************************************)
(* The ledger.                                                             *)
(***************************************************************************)
(* The inductive invariant holds on the opening books. *)
LEMMA LedgerInitIInv == LedgerInit => LedgerIInv
<1> SUFFICES ASSUME LedgerInit PROVE LedgerIInv
  OBVIOUS
<1> USE LedgerAssumption DEF LedgerInit
<1>a. \A a \in Accounts : bal[a] \in Nat
  OBVIOUS
<1>0. bal \in [Accounts -> Nat] /\ bal \in [Accounts -> Int]
  BY <1>a
<1>1. LedgerTypeOK
  BY <1>0 DEF LedgerTypeOK, Active, Ended
<1>2. CallInProgress
  BY DEF CallInProgress
<1>3. HoldersActive /\ PostedIsLocked /\ NoLostUpdate
  BY DEF HoldersActive, PostedIsLocked, NoLostUpdate, Active
<1>4. PendingNonNegative /\ NoRowNoMoney /\ NonNegative
  BY <1>0 DEF PendingNonNegative, NoRowNoMoney, NonNegative
<1> QED
  BY <1>1, <1>2, <1>3, <1>4 DEF LedgerIInv

(* Every statement of every transaction preserves the invariant. *)
LEMMA LedgerStepIInv == LedgerIInv /\ [LedgerNext]_ledgerVars => LedgerIInv'
<1> SUFFICES ASSUME LedgerIInv, [LedgerNext]_ledgerVars PROVE LedgerIInv'
  OBVIOUS
<1> USE LedgerAssumption
<1>1. ASSUME NEW t \in Txs, Begin(t) PROVE LedgerIInv'
  BY <1>1 DEF Begin, LedgerIInv, LedgerTypeOK, CallInProgress, HoldersActive, PostedIsLocked,
     NoLostUpdate, PendingNonNegative, NoRowNoMoney, NonNegative, Row, Active, Ended
<1>2. ASSUME NEW t \in Txs, NEW o \in Operations, Call(t, o) PROVE LedgerIInv'
  <2> USE <1>2 DEF Call, LedgerIInv
  <2>0. o.amount \in Int /\ o.acct \in Accounts
    BY DEF Operations
  <2>1. LedgerTypeOK'
    BY DEF LedgerTypeOK, Active
  <2>2. ASSUME NEW u \in Txs, u # t
        PROVE  op'[u] = op[u] /\ stmt'[u] = stmt[u] /\ lock' = lock /\ seen' = seen /\ pend' = pend
    BY <2>2 DEF LedgerTypeOK
  <2>3. op'[t] = o /\ stmt'[t] \in {"failed", "select"} /\ (stmt'[t] = "select" => o.amount > 0)
    BY <2>0 DEF LedgerTypeOK
  <2>4. CallInProgress'
    BY <2>2, <2>3 DEF CallInProgress, Row
  <2>5. HoldersActive' /\ PostedIsLocked' /\ NoLostUpdate'
    BY DEF LedgerTypeOK, HoldersActive, PostedIsLocked, NoLostUpdate, Active
  <2>6. PendingNonNegative' /\ NoRowNoMoney' /\ NonNegative'
    BY DEF LedgerTypeOK, PendingNonNegative, NoRowNoMoney, NonNegative
  <2> QED
    BY <2>1, <2>4, <2>5, <2>6
<1>3. ASSUME NEW t \in Txs, SelectForUpdate(t) PROVE LedgerIInv'
  BY <1>3 DEF SelectForUpdate, Visible, LedgerIInv, LedgerTypeOK, CallInProgress, HoldersActive, PostedIsLocked,
     NoLostUpdate, PendingNonNegative, NoRowNoMoney, NonNegative, Row, Active, Ended, Operations
<1>4. ASSUME NEW t \in Txs, SelectNotFound(t) PROVE LedgerIInv'
  BY <1>4 DEF SelectNotFound, LedgerIInv, LedgerTypeOK, CallInProgress, HoldersActive, PostedIsLocked,
     NoLostUpdate, PendingNonNegative, NoRowNoMoney, NonNegative, Row, Active, Ended
<1>5. ASSUME NEW t \in Txs, Create(t) PROVE LedgerIInv'
  BY <1>5 DEF Create, LedgerIInv, LedgerTypeOK, CallInProgress, HoldersActive, PostedIsLocked,
     NoLostUpdate, PendingNonNegative, NoRowNoMoney, NonNegative, Row, Active, Ended, Operations
<1>6. ASSUME NEW t \in Txs, CreateConflict(t) PROVE LedgerIInv'
  BY <1>6 DEF CreateConflict, LedgerIInv, LedgerTypeOK, CallInProgress, HoldersActive, PostedIsLocked,
     NoLostUpdate, PendingNonNegative, NoRowNoMoney, NonNegative, Row, Active, Ended
<1>7. ASSUME NEW t \in Txs, Reread(t) PROVE LedgerIInv'
  BY <1>7 DEF Reread, LedgerIInv, LedgerTypeOK, CallInProgress, HoldersActive, PostedIsLocked,
     NoLostUpdate, PendingNonNegative, NoRowNoMoney, NonNegative, Row, Active, Ended, Operations
<1>8. ASSUME NEW t \in Txs, Update(t) PROVE LedgerIInv'
  <2> USE <1>8 DEF LedgerIInv
  <2>0. /\ op[t].amount \in Int /\ op[t].amount > 0 /\ op[t].kind \in {"credit", "debit"}
        /\ Row(t) \in Accounts /\ lock[Row(t)] = t /\ seen[t] = pend[Row(t)] /\ pend[Row(t)] \in Int
    BY DEF Update, LedgerTypeOK, CallInProgress, Operations, Row
  <2> DEFINE d == IF op[t].kind = "credit" THEN op[t].amount ELSE -op[t].amount
  <2>1. d \in Int /\ NextBalance(t) = pend[Row(t)] + d
    BY <2>0 DEF NextBalance
  <2>2. pend[Row(t)] >= 0 => pend[Row(t)] + d >= 0
    BY <2>0 DEF Update
  <2> HIDE DEF d
  <2>3. /\ pend' = [pend EXCEPT ![Row(t)] = pend[Row(t)] + d]
        /\ posted' = [posted EXCEPT ![t][Row(t)] = @ + d]
        /\ stmt' = [stmt EXCEPT ![t] = "open"]
        /\ UNCHANGED <<stored, bal, lock, op, seen, ops>>
    BY <2>1 DEF Update, d
  <2>4. /\ posted'[t][Row(t)] = posted[t][Row(t)] + d
        /\ \A u \in Txs, a \in Accounts : (u # t \/ a # Row(t)) => posted'[u][a] = posted[u][a]
        /\ posted' \in [Txs -> [Accounts -> Int]]
    BY <2>0, <2>1, <2>3 DEF LedgerTypeOK
  <2>5. /\ pend'[Row(t)] = pend[Row(t)] + d
        /\ \A a \in Accounts : a # Row(t) => pend'[a] = pend[a]
        /\ pend' \in [Accounts -> Int]
    BY <2>0, <2>1, <2>3 DEF LedgerTypeOK
  <2>6. LedgerTypeOK'
    BY <2>3, <2>4, <2>5 DEF LedgerTypeOK, Active
  <2>7. CallInProgress'
    BY <2>0, <2>3, <2>5 DEF LedgerTypeOK, CallInProgress, Row, Operations
  <2>8. HoldersActive' /\ PostedIsLocked'
    BY <2>0, <2>3, <2>4, <1>8 DEF LedgerTypeOK, HoldersActive, PostedIsLocked, Active, Update
  <2>9. NoLostUpdate'
    BY <2>0, <2>1, <2>3, <2>4, <2>5 DEF LedgerTypeOK, NoLostUpdate
  <2>10. PendingNonNegative' /\ NoRowNoMoney' /\ NonNegative'
    BY <2>0, <2>2, <2>3, <2>5 DEF LedgerTypeOK, PendingNonNegative, NoRowNoMoney, NonNegative
  <2> QED
    BY <2>6, <2>7, <2>8, <2>9, <2>10
<1>9. ASSUME NEW t \in Txs, Insufficient(t) PROVE LedgerIInv'
  BY <1>9 DEF Insufficient, LedgerIInv, LedgerTypeOK, CallInProgress, HoldersActive, PostedIsLocked,
     NoLostUpdate, PendingNonNegative, NoRowNoMoney, NonNegative, Row, Active, Ended
<1>10. ASSUME NEW t \in Txs, Commit(t) PROVE LedgerIInv'
  <2> USE <1>10 DEF Commit, Release, LedgerIInv
  <2>1. LedgerTypeOK'
    BY DEF LedgerTypeOK, Active, Operations, Ended
  <2>2. CallInProgress'
    BY DEF LedgerTypeOK, CallInProgress, Row, Operations, NoOperation, HoldersActive, Active
  <2>3. HoldersActive' /\ PostedIsLocked' /\ NoLostUpdate'
    BY DEF LedgerTypeOK, CallInProgress, HoldersActive, PostedIsLocked, NoLostUpdate, Active, Row, Operations
  <2>4. PendingNonNegative' /\ NoRowNoMoney' /\ NonNegative'
    BY DEF LedgerTypeOK, CallInProgress, PendingNonNegative, NoRowNoMoney, NonNegative, Row, Operations
  <2> QED
    BY <2>1, <2>2, <2>3, <2>4
<1>11. ASSUME NEW t \in Txs, stmt[t] \in Active, Discard(t) PROVE LedgerIInv'
  <2> USE <1>11 DEF Discard, Release, LedgerIInv
  <2>1. LedgerTypeOK'
    BY DEF LedgerTypeOK, Ended
  <2>2. CallInProgress'
    BY DEF LedgerTypeOK, CallInProgress, HoldersActive, Row, Operations
  <2>3. HoldersActive' /\ PostedIsLocked' /\ NoLostUpdate'
    BY DEF LedgerTypeOK, HoldersActive, PostedIsLocked, NoLostUpdate, Active
  <2>4. PendingNonNegative' /\ NoRowNoMoney' /\ NonNegative'
    BY DEF LedgerTypeOK, PendingNonNegative, NoRowNoMoney, NonNegative
  <2> QED
    BY <2>1, <2>2, <2>3, <2>4
<1>12. CASE UNCHANGED ledgerVars
  BY <1>12 DEF ledgerVars, LedgerIInv, LedgerTypeOK, CallInProgress, HoldersActive, PostedIsLocked,
     NoLostUpdate, PendingNonNegative, NoRowNoMoney, NonNegative, Row, Active, Ended
<1> QED
  BY <1>1, <1>2, <1>3, <1>4, <1>5, <1>6, <1>7, <1>8, <1>9, <1>10, <1>11, <1>12
  DEF LedgerNext, Statement, Rollback, Interrupted, DeadlockVictim, Quiet, Active

(* Types, the absence of lost updates and of negative balances, for any    *)
(* number of concurrent transactions of creditWithin and debitWithin.      *)
THEOREM LedgerInvariant == LedgerSpec => []LedgerIInv
<1> QED
  BY LedgerInitIInv, LedgerStepIInv, PTL DEF LedgerSpec

(* Rows, transactions and requests have their types in every state, with any *)
(* number of transactions open.                                            *)
THEOREM LedgerTypes == LedgerSpec => []LedgerTypeOK
<1>1. LedgerIInv => LedgerTypeOK
  BY DEF LedgerIInv
<1> QED
  BY <1>1, LedgerInvariant, PTL

(* ledger_service.go: concurrent debits never take a row below zero. *)
THEOREM LedgerNonNegative == LedgerSpec => []NonNegative
<1>1. LedgerIInv => NonNegative
  BY DEF LedgerIInv
<1> QED
  BY <1>1, LedgerInvariant, PTL

(* mutateWithin writes an absolute value it computed from an earlier read, *)
(* and still no concurrent posting is overwritten.                         *)
THEOREM LedgerNoLostUpdate == LedgerSpec => []NoLostUpdate
<1>1. LedgerIInv => NoLostUpdate
  BY DEF LedgerIInv
<1> QED
  BY <1>1, LedgerInvariant, PTL

(* Every statement of the ledger is a step of AtomicLedger or leaves its   *)
(* state as it is.                                                         *)
LEMMA StatementAtomic == LedgerIInv /\ [LedgerNext]_ledgerVars => [Abstract!Next]_(Abstract!vars)
<1> DEFINE status == [t \in Txs |-> IF stmt[t] \in Active THEN "running"
                                  ELSE IF stmt[t] \in Ended THEN stmt[t] ELSE "idle"]
<1> SUFFICES ASSUME LedgerIInv, [LedgerNext]_ledgerVars
             PROVE  Abstract!Next \/ (bal' = bal /\ posted' = posted /\ status' = status)
  BY DEF Abstract!vars
<1> USE LedgerAssumption DEF LedgerIInv
<1>1. ASSUME NEW t \in Txs, Begin(t) PROVE Abstract!Begin(t)
  BY <1>1 DEF Begin, Abstract!Begin, LedgerTypeOK, Active, Ended
<1>2. ASSUME NEW t \in Txs, Update(t)
      PROVE  \E a \in Accounts, d \in Amounts \cup {-x : x \in Amounts} : Abstract!Post(t, a, d)
  <2> DEFINE d == IF op[t].kind = "credit" THEN op[t].amount ELSE -op[t].amount
  <2>1. Row(t) \in Accounts /\ op[t].amount \in Amounts
    BY <1>2 DEF Update, CallInProgress, Operations, Row
  <2>2. d \in Amounts \cup {-x : x \in Amounts}
    BY <2>1
  <2>3. /\ posted' = [posted EXCEPT ![t][Row(t)] = @ + d]
        /\ stmt' = [stmt EXCEPT ![t] = "open"]
        /\ stmt[t] = "update" /\ bal' = bal
    BY <1>2 DEF Update
  <2>4. status[t] = "running" /\ status' = status
    BY <2>3 DEF LedgerTypeOK, Active
  <2>5. Abstract!Post(t, Row(t), d)
    BY <2>3, <2>4 DEF Abstract!Post
  <2> QED
    BY <2>1, <2>2, <2>5
<1>3. ASSUME NEW t \in Txs, Commit(t) PROVE Abstract!Commit(t)
  <2>1. \A a \in Accounts : bal'[a] = bal[a] + posted[t][a] /\ bal'[a] >= 0
    BY <1>3 DEF Commit, LedgerTypeOK, Active, PostedIsLocked, NoLostUpdate, PendingNonNegative, NonNegative
  <2>2. bal' = [a \in Accounts |-> bal[a] + posted[t][a]]
    BY <1>3, <2>1 DEF Commit
  <2>3. \A a \in Accounts : bal[a] + posted[t][a] >= 0
    BY <2>1
  <2>4. status[t] = "running" /\ status' = [status EXCEPT ![t] = "committed"] /\ posted' = posted
    BY <1>3 DEF Commit, LedgerTypeOK, Active, Ended
  <2> QED
    BY <2>2, <2>3, <2>4 DEF Abstract!Commit
<1>4. ASSUME NEW t \in Txs, stmt[t] \in Active, Discard(t) PROVE Abstract!Abort(t)
  BY <1>4 DEF Discard, Abstract!Abort, LedgerTypeOK, Active, Ended
<1>5. ASSUME NEW t \in Txs,
             \/ \E o \in Operations : Call(t, o)
             \/ SelectForUpdate(t) \/ SelectNotFound(t)
             \/ Create(t) \/ CreateConflict(t) \/ Reread(t) \/ Insufficient(t)
      PROVE  bal' = bal /\ posted' = posted /\ status' = status
  BY <1>5 DEF Call, SelectForUpdate, SelectNotFound, Create, CreateConflict, Reread,
     Insufficient, LedgerTypeOK, Active, Ended
<1>6. CASE UNCHANGED ledgerVars
  BY <1>6 DEF ledgerVars
<1> QED
  BY <1>1, <1>2, <1>3, <1>4, <1>5, <1>6
  DEF LedgerNext, Statement, Rollback, Interrupted, DeadlockVictim, Quiet, Active, Abstract!Next

(* Transactions built from mutateWithin are all-or-nothing and add exactly *)
(* what they posted: the ledger implements AtomicLedger.                   *)
THEOREM LedgerAtomic == LedgerSpec => Atomic
<1>1. LedgerInit => Abstract!Init
  BY LedgerAssumption DEF LedgerInit, Abstract!Init, Abstract!NothingPosted, Active, Ended
<1> QED
  BY <1>1, StatementAtomic, LedgerInvariant, PTL DEF LedgerSpec, Atomic, Abstract!Spec

(***************************************************************************)
(* The deposit watcher.                                                    *)
(***************************************************************************)
(* Every deposit from the cursor's first block up to h has been dealt with. *)
Passed(h) == \A d \in Deposits :
    seed < incl[d] /\ incl[d] <= h => d \in processed \cup skipped

(* No reorganisation and no new block can put a deposit in that range. *)
Fixed(h) == h = seed \/ h <= Stable

CursorSafe ==
    /\ cursor = -1 <=> seed = -1
    /\ cursor # -1 => Fixed(cursor) /\ Passed(cursor)

(* What a scanner knows at each point of its scan. *)
ScanSafe(g) ==
    /\ pc[g] \in {"wait"} \cup Scanning => cursor # -1
    /\ pc[g] = "head" => Fixed(scan[g].from) /\ Passed(scan[g].from)
    /\ pc[g] \in {"fetch", "block", "insert"} =>
          /\ 1 <= scan[g].blk /\ scan[g].blk <= scan[g].safe /\ scan[g].safe <= Stable
          /\ Passed(scan[g].blk - 1)
    /\ pc[g] \in {"block", "insert"} =>
          /\ \A d \in scan[g].todo : incl[d] = scan[g].blk
          /\ \A d \in Deposits : incl[d] = scan[g].blk => d \in scan[g].todo \cup processed \cup skipped
    /\ pc[g] = "insert" => scan[g].dep \in scan[g].todo

IInv ==
    /\ TypeOK /\ CreditedOnce /\ CreditedIsFinal
    /\ CursorSafe
    /\ \A g \in Scanners : ScanSafe(g)

----
LEMMA InitIInv == Init => IInv
  BY DepositAssumption
  DEF Init, IInv, TypeOK, CreditedOnce, CreditedIsFinal, CursorSafe, ScanSafe, NoScan, Scanning, Heights

(* The block subtraction does not wrap once the head is deep enough. *)
LEMMA SafeHeadIsStable == ASSUME TypeOK, head >= Confirmations PROVE SafeHead = Stable
<1>1. /\ head \in Nat /\ head < Width /\ Width \in Nat
      /\ Confirmations \in Nat /\ head - Confirmations \in 0..(Width - 1)
  BY DepositAssumption DEF TypeOK, Heights
<1>2. \A x \in 0..(Width - 1) : x % Width = x
  BY <1>1
<1> QED
  BY <1>1, <1>2 DEF SafeHead, Stable, Uint

(* What is known of the chain below a fixed block survives new blocks and    *)
(* reorganisations.                                                          *)
LEMMA ChainMoves ==
  ASSUME IInv, Mine \/ Reorg
  PROVE  /\ \A h \in Heights : Fixed(h) => Fixed(h)'
         /\ seed # -1 => \A h \in Heights : Fixed(h) /\ Passed(h) => Passed(h)'
         /\ \A d \in Deposits, h \in Heights : h <= Stable /\ h >= 1 => (incl'[d] = h <=> incl[d] = h)
         /\ Stable' >= Stable /\ Stable' \in Int /\ Stable \in Int
<1> USE DepositAssumption DEF IInv, TypeOK, Heights
<1>1. CASE Mine
  <2>1. head' = head + 1 /\ \A d \in Deposits : incl'[d] = incl[d] \/ (incl[d] = 0 /\ incl'[d] = head + 1)
    BY <1>1 DEF Mine
  <2>2. \A d \in Deposits : incl[d] \in Int
    OBVIOUS
  <2>3. seed' = seed /\ processed' = processed /\ skipped' = skipped /\ seed \in Int
    BY <1>1 DEF Mine, store, rows
  <2>4. ASSUME seed # -1, NEW h \in Heights, Fixed(h), Passed(h) PROVE Passed(h)'
    <3> SUFFICES ASSUME NEW d \in Deposits, seed' < incl'[d], incl'[d] <= h
                 PROVE  d \in processed' \cup skipped'
      BY DEF Passed
    <3> QED
      BY <2>1, <2>2, <2>3, <2>4 DEF Passed, Fixed, Stable
  <2> QED
    BY <2>1, <2>2, <2>3, <2>4 DEF Fixed, Stable
<1>2. CASE Reorg
  <2>1. head' = head
        /\ \A d \in Deposits : \/ incl'[d] = incl[d]
                               \/ /\ incl[d] = 0 \/ incl[d] > Stable
                                  /\ incl'[d] = 0 \/ incl'[d] > Stable
                                  /\ incl'[d] \in Int
    BY <1>2 DEF Reorg, Stable
  <2>2. \A d \in Deposits : incl[d] \in Int
    OBVIOUS
  <2>3. seed' = seed /\ processed' = processed /\ skipped' = skipped /\ seed \in Int /\ seed >= -1
    BY <1>2 DEF Reorg, store, rows
  <2>4. ASSUME seed # -1, NEW h \in Heights, Fixed(h), Passed(h) PROVE Passed(h)'
    <3> SUFFICES ASSUME NEW d \in Deposits, seed' < incl'[d], incl'[d] <= h
                 PROVE  d \in processed' \cup skipped'
      BY DEF Passed
    <3> QED
      BY <2>1, <2>2, <2>3, <2>4 DEF Passed, Fixed, Stable, CursorSafe
  <2> QED
    BY <2>1, <2>2, <2>3, <2>4 DEF Fixed, Stable
<1> QED
  BY <1>1, <1>2

PcType == {"off", "init", "seed", "wait", "gone"} \cup Scanning
ScanType == [from : Heights, safe : Heights, blk : Heights,
             todo : SUBSET Deposits, dep : Deposits \cup {None}]

(* A scan that ends leaves its scanner's variables typed. *)
LEMMA EndScanTyped ==
  ASSUME TypeOK, NEW g \in Scanners, EndScan(g)
  PROVE  pc' \in [Scanners -> PcType] /\ scan' \in [Scanners -> ScanType]
<1>1. NoScan \in ScanType
  BY DepositAssumption DEF NoScan, ScanType, Heights
<1>2. pc \in [Scanners -> PcType] /\ scan \in [Scanners -> ScanType]
  BY DEF TypeOK, PcType, ScanType
<1>3. "wait" \in PcType
  BY DEF PcType
<1> QED
  BY <1>1, <1>2, <1>3 DEF EndScan, Goto

(* So does one that goes on with new heights. *)
LEMMA NextBlockTyped ==
  ASSUME TypeOK, NEW g \in Scanners, NEW s \in Heights, NEW b \in Heights, Goto(g, "fetch"),
         scan' = [scan EXCEPT ![g].safe = s, ![g].blk = b]
  PROVE  pc' \in [Scanners -> PcType] /\ scan' \in [Scanners -> ScanType]
<1>1. scan \in [Scanners -> ScanType] /\ pc \in [Scanners -> PcType]
  BY DEF TypeOK, PcType, ScanType
<1>2. [scan[g] EXCEPT !.safe = s, !.blk = b] \in ScanType
  BY <1>1 DEF ScanType
<1>3. scan' = [scan EXCEPT ![g] = [scan[g] EXCEPT !.safe = s, !.blk = b]]
  BY <1>1
<1>4. pc' \in [Scanners -> PcType]
  BY <1>1 DEF Goto, PcType, Scanning
<1> QED
  BY <1>1, <1>2, <1>3, <1>4

(* A step of one scanner leaves what the others know intact when the chain, *)
(* the seed and their own locals stay and no deposit is forgotten.          *)
LEMMA OthersUndisturbed ==
  ASSUME IInv, NEW g \in Scanners, UNCHANGED <<chain, seed>>,
         processed \subseteq processed', skipped \subseteq skipped',
         cursor # -1 => cursor' # -1,
         \A h \in Scanners \ {g} : pc'[h] = pc[h] /\ scan'[h] = scan[h]
  PROVE  \A h \in Scanners \ {g} : ScanSafe(h)'
  BY DEF IInv, ScanSafe, Passed, Fixed, Stable, chain, Scanning

(* Every action of the chain, of a scanner and of an operator preserves it. *)
LEMMA StepIInv == IInv /\ [Next]_vars => IInv'
<1> SUFFICES ASSUME IInv, [Next]_vars PROVE IInv'
  OBVIOUS
<1> USE DepositAssumption
<1>1. CASE Mine \/ Reorg
  <2>0. UNCHANGED <<cursor, seed, processed, credits, manual, skipped, current, cancelled, pc, scan, faults>>
    BY <1>1 DEF Mine, Reorg, store, rows
  <2>1. TypeOK'
    <3>1. head' \in Heights /\ incl' \in [Deposits -> Heights]
      BY <1>1 DEF IInv, TypeOK, Mine, Reorg, Heights
    <3> QED
      BY <2>0, <3>1 DEF IInv, TypeOK, Heights
  <2>2. CreditedOnce'
    BY <2>0 DEF IInv, CreditedOnce
  <2>3. CreditedIsFinal'
    BY <1>1, <2>0, ChainMoves DEF IInv, TypeOK, CreditedIsFinal, Heights
  <2>4. CursorSafe'
    BY <1>1, <2>0, ChainMoves DEF IInv, TypeOK, CursorSafe, Heights
  <2>5. ASSUME NEW g \in Scanners PROVE ScanSafe(g)'
    <3>1. ScanSafe(g) /\ (cursor # -1 => seed # -1) /\ scan[g].from \in Heights /\ scan[g].blk \in Heights
          /\ scan[g].safe \in Heights /\ scan[g].todo \subseteq Deposits
      BY DEF IInv, TypeOK, CursorSafe
    <3>2. pc'[g] = pc[g] /\ scan'[g] = scan[g] /\ cursor' = cursor
      BY <2>0
    <3>3. CASE pc[g] \in {"fetch", "block", "insert"}
      <4> DEFINE b == scan[g].blk
      <4>1. b >= 1 /\ b <= scan[g].safe /\ scan[g].safe <= Stable /\ Passed(b - 1) /\ cursor # -1
        BY <3>1, <3>3 DEF ScanSafe, Scanning
      <4>2. b - 1 \in Heights /\ b - 1 <= Stable /\ b <= Stable
        BY <3>1, <4>1, <1>1, ChainMoves DEF Heights
      <4>3. Passed(b - 1)' /\ scan[g].safe <= Stable'
        BY <1>1, <3>1, <3>2, <4>1, <4>2, ChainMoves DEF Fixed, Passed, Heights
      <4>4. \A d \in Deposits : incl'[d] = b <=> incl[d] = b
        BY <1>1, <3>1, <4>1, <4>2, ChainMoves
      <4> QED
        BY <2>0, <3>1, <3>2, <3>3, <4>1, <4>3, <4>4 DEF ScanSafe, Scanning
    <3>4. CASE pc[g] \notin {"fetch", "block", "insert"}
      BY <1>1, <3>1, <3>2, <3>4, ChainMoves DEF ScanSafe, Scanning
    <3> QED
      BY <3>3, <3>4
  <2> QED
    BY <2>1, <2>2, <2>3, <2>4, <2>5 DEF IInv
<1>2. ASSUME NEW g \in Scanners, Start(g) PROVE IInv'
  <2>1. TypeOK' /\ CreditedOnce' /\ CreditedIsFinal' /\ CursorSafe'
    BY <1>2 DEF Start, Goto, IInv, TypeOK, CreditedOnce, CreditedIsFinal, CursorSafe, Passed, Fixed,
       Stable, chain, store, rows
  <2>2. \A h \in Scanners \ {g} : ScanSafe(h)'
    BY <1>2, OthersUndisturbed DEF Start, Goto, chain, store, rows, IInv, TypeOK
  <2>3. ScanSafe(g)'
    BY <1>2 DEF Start, Goto, IInv, TypeOK, ScanSafe, Scanning
  <2> QED
    BY <2>1, <2>2, <2>3 DEF IInv
<1>3. CASE Stop
  BY <1>3 DEF Stop, Fault, IInv, TypeOK, CreditedOnce, CreditedIsFinal, CursorSafe, ScanSafe, Passed, Fixed,
     Stable, chain, store, rows
<1>4. CASE Crash
  <2>1. UNCHANGED <<head, incl, cursor, seed, processed, credits, manual, skipped>>
    BY <1>4 DEF Crash, chain, store, rows
  <2>2. TypeOK' /\ CreditedOnce' /\ CreditedIsFinal' /\ CursorSafe'
    BY <1>4, <2>1 DEF Crash, Fault, IInv, TypeOK, CreditedOnce, CreditedIsFinal, CursorSafe, Passed, Fixed,
       Stable, NoScan, Heights
  <2>3. \A g \in Scanners : ScanSafe(g)'
    BY <1>4 DEF Crash, ScanSafe, Scanning
  <2> QED
    BY <2>2, <2>3 DEF IInv
<1>5. ASSUME NEW g \in Scanners, CursorFound(g) \/ CursorMissing(g) \/ CursorInitFails(g) \/ Exit(g) PROVE IInv'
  <2> USE <1>5 DEF CursorFound, CursorMissing, CursorInitFails, Exit, Goto, Fault, chain, store, rows
  <2>1. TypeOK' /\ CreditedOnce' /\ CreditedIsFinal' /\ CursorSafe'
    BY DEF IInv, TypeOK, CreditedOnce, CreditedIsFinal, CursorSafe, Passed, Fixed, Stable, Scanning
  <2>2. \A h \in Scanners \ {g} : ScanSafe(h)'
    BY OthersUndisturbed DEF IInv, TypeOK
  <2>3. ScanSafe(g)'
    BY DEF IInv, TypeOK, ScanSafe, Scanning
  <2> QED
    BY <2>1, <2>2, <2>3 DEF IInv
<1>6. ASSUME NEW g \in Scanners, CreateCursor(g) PROVE IInv'
  <2> USE <1>6 DEF CreateCursor, EndScan, Goto, chain, rows
  <2>0. cursor' \in Heights /\ cursor' = seed' /\ cursor' # -1
    BY DEF IInv, TypeOK, Heights
  <2>1. TypeOK'
    BY <2>0 DEF IInv, TypeOK, NoScan, Heights, Scanning
  <2>2. CreditedOnce' /\ CreditedIsFinal'
    BY DEF IInv, CreditedOnce, CreditedIsFinal, Stable
  <2>3. CursorSafe'
    BY <2>0, <2>1 DEF TypeOK, CursorSafe, Passed, Fixed, Heights
  <2>4. ASSUME NEW h \in Scanners PROVE ScanSafe(h)'
    <3>1. pc'[h] \notin Scanning
      BY DEF IInv, TypeOK, ScanSafe, Scanning
    <3> QED
      BY <2>0, <3>1 DEF ScanSafe, Scanning
  <2> QED
    BY <2>1, <2>2, <2>3, <2>4 DEF IInv
<1>7. ASSUME NEW g \in Scanners, ReadCursor(g) PROVE IInv'
  <2> USE <1>7 DEF ReadCursor, Goto, chain, store, rows
  <2>0. cursor \in Heights /\ Fixed(cursor) /\ Passed(cursor)
    BY DEF IInv, TypeOK, ScanSafe, CursorSafe
  <2>1. TypeOK' /\ CreditedOnce' /\ CreditedIsFinal' /\ CursorSafe'
    BY <2>0 DEF IInv, TypeOK, CreditedOnce, CreditedIsFinal, CursorSafe, Passed, Fixed, Stable, Scanning
  <2>2. \A h \in Scanners \ {g} : ScanSafe(h)'
    BY OthersUndisturbed DEF IInv, TypeOK
  <2>3. pc'[g] = "head" /\ scan'[g].from = cursor /\ cursor' # -1
    BY <2>0 DEF IInv, TypeOK, Heights
  <2>4. ScanSafe(g)'
    BY <2>0, <2>3 DEF ScanSafe, Passed, Fixed, Stable, Scanning
  <2> QED
    BY <2>1, <2>2, <2>4 DEF IInv
<1>8. ASSUME NEW g \in Scanners, ReadHead(g) PROVE IInv'
  <2> USE <1>8 DEF ReadHead, EndScan, Goto, chain, store, rows
  <2>0. /\ cursor # -1 /\ Passed(scan[g].from)
        /\ head \in Heights /\ scan[g].from \in Heights /\ cursor' = cursor
    BY DEF IInv, TypeOK, ScanSafe, Scanning
  <2>1. ~NothingToScan(scan[g].from) =>
           SafeHead = Stable /\ scan[g].from < SafeHead /\ SafeHead \in Heights /\ scan[g].from + 1 \in Heights
    <3>1. SUFFICES ASSUME ~NothingToScan(scan[g].from)
                   PROVE  SafeHead = Stable /\ scan[g].from < SafeHead /\ SafeHead \in Heights
                          /\ scan[g].from + 1 \in Heights
      OBVIOUS
    <3>2. head >= Confirmations
      BY <2>0, <3>1 DEF NothingToScan, Heights
    <3>3. SafeHead = Stable
      BY <3>2, SafeHeadIsStable DEF IInv
    <3> QED
      BY <2>0, <3>1, <3>2, <3>3 DEF NothingToScan, Stable, Heights
  <2>2. TypeOK'
    <3>1. pc' \in [Scanners -> PcType] /\ scan' \in [Scanners -> ScanType]
      <4>1. CASE NothingToScan(scan[g].from)
        BY <4>1, EndScanTyped DEF IInv, EndScan
      <4>2. CASE ~NothingToScan(scan[g].from)
        BY <2>1, <4>2, NextBlockTyped DEF IInv
      <4> QED
        BY <4>1, <4>2
    <3> QED
      BY <3>1 DEF IInv, TypeOK, PcType, ScanType
  <2>3. CreditedOnce' /\ CreditedIsFinal' /\ CursorSafe'
    BY DEF IInv, CreditedOnce, CreditedIsFinal, CursorSafe, Passed, Fixed, Stable
  <2>4. \A h \in Scanners \ {g} : ScanSafe(h)'
    BY OthersUndisturbed DEF IInv, TypeOK
  <2>5. ScanSafe(g)'
    <3>1. CASE NothingToScan(scan[g].from)
      BY <2>0, <3>1 DEF IInv, TypeOK, ScanSafe, Scanning
    <3>2. CASE ~NothingToScan(scan[g].from)
      <4>1. /\ pc'[g] = "fetch" /\ scan'[g].safe = Stable /\ scan'[g].blk = scan[g].from + 1
            /\ scan[g].from + 1 \in Heights /\ scan[g].from + 1 <= Stable /\ Stable \in Int
        BY <2>0, <2>1, <3>2 DEF IInv, TypeOK, Heights
      <4>2. Stable' = Stable /\ \A h : Passed(h) => Passed(h)'
        BY DEF Stable, Passed
      <4>3. scan'[g].blk - 1 = scan[g].from /\ 1 <= scan'[g].blk
        BY <2>0, <4>1 DEF Heights
      <4>4. Passed(scan[g].blk - 1)'
        BY <2>0, <4>2, <4>3 DEF Passed
      <4> QED
        BY <2>0, <4>1, <4>2, <4>3, <4>4 DEF ScanSafe, Scanning
    <3> QED
      BY <3>1, <3>2
  <2> QED
    BY <2>2, <2>3, <2>4, <2>5 DEF IInv
<1>9. ASSUME NEW g \in Scanners, FetchBlock(g) PROVE IInv'
  <2> USE <1>9 DEF FetchBlock, Goto, chain, store, rows
  <2>1. TypeOK' /\ CreditedOnce' /\ CreditedIsFinal' /\ CursorSafe'
    BY DEF IInv, TypeOK, CreditedOnce, CreditedIsFinal, CursorSafe, Passed, Fixed, Stable, Scanning
  <2>2. \A h \in Scanners \ {g} : ScanSafe(h)'
    BY OthersUndisturbed DEF IInv, TypeOK
  <2>3. ScanSafe(g)'
    <3>1. /\ pc'[g] = "block" /\ scan'[g].blk = scan[g].blk /\ scan'[g].safe = scan[g].safe
          /\ scan'[g].todo = {d \in Deposits : incl[d] = scan[g].blk}
      BY DEF IInv, TypeOK
    <3>2. ScanSafe(g)
      BY DEF IInv
    <3> QED
      BY <3>1, <3>2 DEF ScanSafe, Scanning, Passed, Stable
  <2> QED
    BY <2>1, <2>2, <2>3 DEF IInv
<1>10. ASSUME NEW g \in Scanners, NEW d \in Deposits, Lookup(g, d) PROVE IInv'
  <2> USE <1>10 DEF Lookup, Goto, chain, store, rows
  <2>1. TypeOK' /\ CreditedOnce' /\ CreditedIsFinal' /\ CursorSafe'
    BY DEF IInv, TypeOK, CreditedOnce, CreditedIsFinal, CursorSafe, Passed, Fixed, Stable, Scanning
  <2>2. \A h \in Scanners \ {g} : ScanSafe(h)'
    BY OthersUndisturbed DEF IInv, TypeOK
  <2>3. ScanSafe(g)'
    <3>1. /\ scan'[g].blk = scan[g].blk /\ scan'[g].safe = scan[g].safe
          /\ \/ pc'[g] = "block" /\ d \in processed /\ scan'[g].todo = scan[g].todo \ {d}
             \/ pc'[g] = "insert" /\ scan'[g].todo = scan[g].todo /\ scan'[g].dep = d
      BY DEF IInv, TypeOK
    <3>2. ScanSafe(g)
      BY DEF IInv
    <3> QED
      BY <3>1, <3>2 DEF ScanSafe, Scanning, Passed, Stable
  <2> QED
    BY <2>1, <2>2, <2>3 DEF IInv
<1>11. ASSUME NEW g \in Scanners, NEW d \in Deposits, ReceiptNotFound(g, d) PROVE IInv'
  <2> USE <1>11 DEF ReceiptNotFound, Fault, chain
  <2>1. TypeOK' /\ CreditedOnce' /\ CreditedIsFinal' /\ CursorSafe'
    BY DEF IInv, TypeOK, CreditedOnce, CreditedIsFinal, CursorSafe, Passed, Fixed, Stable, Scanning
  <2>2. \A h \in Scanners \ {g} : ScanSafe(h)'
    BY OthersUndisturbed DEF IInv, TypeOK
  <2>3. ScanSafe(g)'
    <3>1. /\ scan'[g].blk = scan[g].blk /\ scan'[g].safe = scan[g].safe
          /\ pc'[g] = "block" /\ scan'[g].todo = scan[g].todo \ {d}
      BY DEF IInv, TypeOK
    <3>2. ScanSafe(g)
      BY DEF IInv
    <3> QED
      BY <3>1, <3>2 DEF ScanSafe, Scanning, Passed, Stable
  <2> QED
    BY <2>1, <2>2, <2>3 DEF IInv
<1>12. ASSUME NEW g \in Scanners, Insert(g) PROVE IInv'
  <2> USE <1>12 DEF Insert, Goto, chain
  <2> DEFINE d == scan[g].dep
  <2>0. /\ ScanSafe(g) /\ d \in Deposits /\ d \in scan[g].todo /\ scan[g].blk \in Heights
        /\ incl[d] = scan[g].blk /\ scan[g].blk >= 1 /\ scan[g].blk <= scan[g].safe
        /\ scan[g].safe <= Stable /\ scan[g].safe \in Heights /\ Stable \in Int
    BY DEF IInv, TypeOK, ScanSafe, Scanning, Stable, Heights
  <2>1. TypeOK'
    <3>1. credits' \in [Deposits -> Nat] /\ processed' \subseteq Deposits
      BY <2>0 DEF IInv, TypeOK, RowsAffected
    <3>2. pc' \in [Scanners -> PcType]
      BY DEF IInv, TypeOK, PcType, Scanning
    <3>3. scan' \in [Scanners -> ScanType]
      <4>1. scan \in [Scanners -> ScanType]
        BY DEF IInv, TypeOK, ScanType
      <4>2. [scan[g] EXCEPT !.todo = @ \ {d}, !.dep = None] \in ScanType
        BY <4>1 DEF ScanType
      <4>3. scan' = [scan EXCEPT ![g] = [scan[g] EXCEPT !.todo = @ \ {d}, !.dep = None]]
        BY <4>1
      <4> QED
        BY <4>1, <4>2, <4>3
    <3> QED
      BY <3>1, <3>2, <3>3 DEF IInv, TypeOK, PcType, ScanType
  <2>2. CreditedOnce'
    BY <2>0 DEF IInv, TypeOK, CreditedOnce, RowsAffected
  <2>3. CreditedIsFinal'
    BY <2>0 DEF IInv, TypeOK, CreditedIsFinal, Stable, Heights
  <2>4. CursorSafe'
    BY DEF IInv, CursorSafe, Passed, Fixed, Stable
  <2>5. \A h \in Scanners \ {g} : ScanSafe(h)'
    BY OthersUndisturbed DEF IInv, TypeOK
  <2>6. ScanSafe(g)'
    <3>1. /\ scan'[g].blk = scan[g].blk /\ scan'[g].safe = scan[g].safe
          /\ pc'[g] = "block" /\ scan'[g].todo = scan[g].todo \ {d}
      BY DEF IInv, TypeOK
    <3> QED
      BY <2>0, <3>1 DEF ScanSafe, Scanning, Passed, Stable
  <2> QED
    BY <2>1, <2>2, <2>3, <2>4, <2>5, <2>6 DEF IInv
<1>13. ASSUME NEW g \in Scanners, AdvanceCursor(g) PROVE IInv'
  <2> SUFFICES ASSUME NEW b, b = scan[g].blk PROVE IInv'
    OBVIOUS
  <2> USE <1>13 DEF AdvanceCursor, EndScan, Goto, NewCursor, chain, rows
  <2>0. /\ cursor # -1 /\ cursor' = b /\ b \in Heights /\ b >= 1 /\ b <= scan[g].safe
        /\ scan[g].safe \in Heights /\ scan[g].safe <= Stable /\ Stable \in Int
        /\ Stable' = Stable
    BY DEF IInv, TypeOK, ScanSafe, Scanning, Stable, Heights
  <2>1. Passed(b) /\ Passed(b)'
    <3>1. Passed(b - 1) /\ \A d \in Deposits : incl[d] = b => d \in processed \cup skipped
      BY DEF IInv, ScanSafe, Scanning
    <3>2. \A d \in Deposits : incl[d] \in Int
      BY DEF IInv, TypeOK, Heights
    <3>3. \A d \in Deposits : incl[d] <= b => incl[d] <= b - 1 \/ incl[d] = b
      BY <2>0, <3>2 DEF Heights
    <3> QED
      BY <3>1, <3>3 DEF Passed
  <2>2. TypeOK'
    <3>1. pc' \in [Scanners -> PcType] /\ scan' \in [Scanners -> ScanType]
      <4>1. CASE b < scan[g].safe
        <5>1. b + 1 \in Heights
          BY <2>0, <4>1 DEF Heights
        <5>2. scan \in [Scanners -> ScanType] /\ Goto(g, "fetch")
              /\ scan' = [scan EXCEPT ![g].blk = @ + 1]
          BY <4>1 DEF IInv, TypeOK, ScanType
        <5>3. [scan[g] EXCEPT !.blk = b + 1] \in ScanType
          BY <5>1, <5>2 DEF ScanType
        <5>4. scan' = [scan EXCEPT ![g] = [scan[g] EXCEPT !.blk = b + 1]]
          BY <5>2
        <5>5. pc' \in [Scanners -> PcType]
          BY <5>2 DEF IInv, TypeOK, PcType, Scanning
        <5> QED
          BY <5>2, <5>3, <5>4, <5>5
      <4>2. CASE ~(b < scan[g].safe)
        BY <4>2, EndScanTyped DEF IInv, EndScan
      <4> QED
        BY <4>1, <4>2
    <3> QED
      BY <2>0, <3>1 DEF IInv, TypeOK, PcType, ScanType
  <2>3. CreditedOnce' /\ CreditedIsFinal'
    BY DEF IInv, CreditedOnce, CreditedIsFinal, Stable
  <2>4. CursorSafe'
    BY <2>0, <2>1 DEF IInv, CursorSafe, Fixed, Heights
  <2>5. \A h \in Scanners \ {g} : ScanSafe(h)'
    BY <2>0, OthersUndisturbed DEF IInv, TypeOK, Heights
  <2>6. ScanSafe(g)'
    <3>1. CASE b < scan[g].safe
      <4>1. /\ pc'[g] = "fetch" /\ scan'[g].safe = scan[g].safe /\ scan'[g].blk = b + 1
            /\ scan'[g].blk - 1 = b
        <5>1. scan \in [Scanners -> ScanType] /\ pc'[g] = "fetch"
              /\ scan' = [scan EXCEPT ![g].blk = @ + 1]
          BY <3>1 DEF IInv, TypeOK, ScanType
        <5>2. scan'[g] = [scan[g] EXCEPT !.blk = b + 1] /\ scan[g] \in ScanType
          BY <5>1
        <5> QED
          BY <2>0, <5>1, <5>2 DEF ScanType, Heights
      <4> QED
        BY <2>0, <2>1, <3>1, <4>1 DEF ScanSafe, Scanning, Heights, Passed
    <3>2. CASE ~(b < scan[g].safe)
      BY <2>0, <3>2 DEF IInv, TypeOK, ScanSafe, Scanning, Heights
    <3> QED
      BY <3>1, <3>2
  <2> QED
    BY <2>2, <2>3, <2>4, <2>5, <2>6 DEF IInv
<1>14. ASSUME NEW g \in Scanners, ScanFails(g) PROVE IInv'
  <2> USE <1>14 DEF ScanFails, EndScan, Goto, Fault, chain, store, rows
  <2>1. TypeOK'
    BY DEF IInv, TypeOK, NoScan, Heights, Scanning
  <2>2. CreditedOnce' /\ CreditedIsFinal' /\ CursorSafe'
    BY DEF IInv, CreditedOnce, CreditedIsFinal, CursorSafe, Passed, Fixed, Stable
  <2>3. \A h \in Scanners \ {g} : ScanSafe(h)'
    BY OthersUndisturbed DEF IInv, TypeOK
  <2>4. ScanSafe(g)'
    BY DEF IInv, TypeOK, ScanSafe, Scanning
  <2> QED
    BY <2>1, <2>2, <2>3, <2>4 DEF IInv
<1>15. ASSUME NEW d \in Deposits, CreditDeposit(d) PROVE IInv'
  BY <1>15 DEF CreditDeposit, Fault, IInv, TypeOK, CreditedOnce, CreditedIsFinal, CursorSafe, ScanSafe,
     Passed, Fixed, Stable, chain
<1>16. CASE UNCHANGED vars
  BY <1>16 DEF vars, chain, store, rows, IInv, TypeOK, CreditedOnce, CreditedIsFinal, CursorSafe, ScanSafe,
     Passed, Fixed, Stable
<1> QED
  BY <1>1, <1>2, <1>3, <1>4, <1>5, <1>6, <1>7, <1>8, <1>9, <1>10, <1>11, <1>12, <1>13, <1>14, <1>15, <1>16
  DEF Next, Step

----
(* The inductive invariant holds in every reachable state. *)
THEOREM DepositInvariant == Spec => []IInv
  BY InitIInv, StepIInv, PTL DEF Spec

(* Cursor, records and every scanner's window keep their types through       *)
(* restarts and overlapping scans.                                           *)
THEOREM DepositTypes == Spec => []TypeOK
<1>1. IInv => TypeOK
  BY DEF IInv
<1> QED
  BY <1>1, DepositInvariant, PTL

(* However many scanners overlap, restart or rescan a block, creditDeposit   *)
(* credits a deposit once, exactly when it records it.                       *)
THEOREM DepositCreditedOnce == Spec => []CreditedOnce
<1>1. IInv => CreditedOnce
  BY DEF IInv
<1> QED
  BY <1>1, DepositInvariant, PTL

(* A deposit scanChain credits is below every reorganisation.               *)
THEOREM DepositCreditedIsFinal == Spec => []CreditedIsFinal
<1>1. IInv => CreditedIsFinal
  BY DEF IInv
<1> QED
  BY <1>1, DepositInvariant, PTL

(* The cursor scanChain writes never passes a deposit.                      *)
THEOREM DepositNothingBehindCursor == Spec => []NothingBehindCursor
<1>1. IInv => NothingBehindCursor
  <2> SUFFICES ASSUME IInv, NEW d \in Deposits, seed < incl[d], incl[d] <= cursor
               PROVE  d \in processed \cup skipped
    BY DEF NothingBehindCursor
  <2>1. CASE cursor = -1
    BY <2>1 DEF IInv, TypeOK, Heights
  <2>2. CASE cursor # -1
    BY <2>2 DEF IInv, CursorSafe, Passed
  <2> QED
    BY <2>1, <2>2
<1> QED
  BY <1>1, DepositInvariant, PTL
====
