---- MODULE DepositWatcher ----
(***************************************************************************)
(* Crediting of on-chain deposits: src/backend/services/deposit_watcher.go.*)
(* One chain.  Its blocks, its reorganisations and the node that serves    *)
(* them are the environment; the scanner goroutines of runChain are the    *)
(* system.  A second scanner runs whenever Start follows Stop while the    *)
(* first is still in its scan, or when two API processes run.              *)
(*                                                                         *)
(* creditWithin inside creditDeposit is atomic with the insert into        *)
(* processed_deposits: that is property Atomic of module Ledger.           *)
(***************************************************************************)
EXTENDS Integers, FiniteSets

CONSTANTS
    Deposits,       \* (tx hash, log index) of transfers to platform addresses
    Erc20,          \* those that are ERC-20 logs; the others are native
    Undescribed,    \* those of tokens whose decimals/symbol call never decodes
    Scanners,       \* goroutines running runChain
    None,           \* no running watcher
    Confirmations,  \* w.confirmations
    Width,          \* values of a block number, 2^64 in the code
    MaxHeight,      \* bound: blocks mined
    MaxFaults       \* bound: failed calls, missing receipts, stops and crashes

ASSUME DepositAssumption ==
    /\ Erc20 \subseteq Deposits /\ Undescribed \subseteq Erc20
    /\ None \notin Scanners
    /\ Confirmations \in Nat /\ MaxHeight \in Nat /\ MaxFaults \in Nat
    /\ Width \in Nat /\ MaxHeight < Width

VARIABLES
    head,       \* number of the newest block
    incl,       \* incl[d]: the block d is in, 0 when in none
    cursor,     \* deposit_cursors.last_scanned_block, -1 without a row
    seed,       \* history: the block the cursor was created at
    processed,  \* rows of processed_deposits
    credits,    \* history: credits[d], ledger credits made for d by scanners
    manual,     \* history: deposits an operator credited
    skipped,    \* history: deposits passed over because of a missing receipt
    current,    \* the goroutine of the running watcher, None when not running
    cancelled,  \* goroutines whose context is cancelled
    pc,         \* pc[g]
    scan,       \* scan[g]: local variables of the scan
    faults

chain == <<head, incl>>
rows == <<processed, credits, manual, skipped>>
store == <<cursor, seed, rows>>
vars == <<chain, store, current, cancelled, pc, scan, faults>>

Heights == 0..MaxHeight
NoScan == [from |-> 0, safe |-> 0, blk |-> 0, todo |-> {}, dep |-> None]
Scanning == {"head", "fetch", "block", "insert"}
Stable == head - Confirmations

Goto(g, l) == pc' = [pc EXCEPT ![g] = l]
EndScan(g) == Goto(g, "wait") /\ scan' = [scan EXCEPT ![g] = NoScan]
Fault == faults < MaxFaults /\ faults' = faults + 1

Init ==
    /\ head = 0
    /\ incl = [d \in Deposits |-> 0]
    /\ cursor = -1 /\ seed = -1
    /\ processed = {} /\ skipped = {} /\ manual = {}
    /\ credits = [d \in Deposits |-> 0]
    /\ current = None /\ cancelled = {} /\ faults = 0
    /\ pc = [g \in Scanners |-> "off"]
    /\ scan = [g \in Scanners |-> NoScan]

----
(* The chain: a new block takes in some of the transfers still pending.     *)
Mine ==
    /\ head < MaxHeight
    /\ head' = head + 1
    /\ \E D \in SUBSET {d \in Deposits : incl[d] = 0} :
          incl' = [d \in Deposits |-> IF d \in D THEN head' ELSE incl[d]]
    /\ UNCHANGED <<store, current, cancelled, pc, scan, faults>>

(* The newest blocks are replaced, at most Confirmations of them: a         *)
(* transfer in them may move to another of them or drop out.               *)
Reorg ==
    /\ \E f \in [Deposits -> {0} \cup {h \in 1..head : h > Stable}] :
          incl' = [d \in Deposits |->
                      IF incl[d] # 0 /\ incl[d] <= Stable THEN incl[d] ELSE f[d]]
    /\ UNCHANGED <<head, store, current, cancelled, pc, scan, faults>>

----
(* Start: refused while running.  A new goroutine and a new context take   *)
(* the name of one that has ended.                                         *)
Start(g) ==
    /\ current = None
    /\ pc[g] \in {"off", "gone"}
    /\ current' = g
    /\ cancelled' = cancelled \ {g}
    /\ Goto(g, "init")
    /\ UNCHANGED <<chain, store, scan, faults>>

(* Stop: cancels the context and returns at once. *)
Stop ==
    /\ current # None
    /\ Fault
    /\ cancelled' = cancelled \cup {current}
    /\ current' = None
    /\ UNCHANGED <<chain, store, pc, scan>>

(* The process dies; the database keeps its committed rows. *)
Crash ==
    /\ Fault
    /\ current' = None
    /\ cancelled' = {}
    /\ pc' = [g \in Scanners |-> "off"]
    /\ scan' = [g \in Scanners |-> NoScan]
    /\ UNCHANGED <<chain, store>>

(* ensureCursor of runChain: the cursor exists, or the head is read so as  *)
(* to create it there.                                                     *)
CursorFound(g) ==
    /\ pc[g] = "init"
    /\ cursor # -1
    /\ Goto(g, "wait")
    /\ UNCHANGED <<chain, store, current, cancelled, scan, faults>>

CursorMissing(g) ==
    /\ pc[g] = "init"
    /\ cursor = -1
    /\ g \notin cancelled
    /\ scan' = [scan EXCEPT ![g].from = head]
    /\ Goto(g, "seed")
    /\ UNCHANGED <<chain, store, current, cancelled, faults>>

CreateCursor(g) ==
    /\ pc[g] = "seed"
    /\ cursor = -1
    /\ cursor' = scan[g].from
    /\ seed' = scan[g].from
    /\ EndScan(g)
    /\ UNCHANGED <<chain, rows, current, cancelled, faults>>

(* ensureCursor fails: another scanner created the row first (the unique    *)
(* index on chain_id), the context is cancelled, or a call failed.  runChain *)
(* logs it and returns.                                                     *)
CursorInitFails(g) ==
    /\ pc[g] \in {"init", "seed"}
    /\ \/ /\ (pc[g] = "seed" /\ cursor # -1) \/ g \in cancelled
          /\ UNCHANGED faults
       \/ Fault
    /\ Goto(g, "gone")
    /\ UNCHANGED <<chain, store, current, cancelled, scan>>

(* The select of runChain sees ctx.Done(). *)
Exit(g) ==
    /\ pc[g] = "wait"
    /\ g \in cancelled
    /\ Goto(g, "gone")
    /\ UNCHANGED <<chain, store, current, cancelled, scan, faults>>

(* A tick: scanChain reads the cursor. *)
ReadCursor(g) ==
    /\ pc[g] = "wait"
    /\ scan' = [scan EXCEPT ![g].from = cursor]
    /\ Goto(g, "head")
    /\ UNCHANGED <<chain, store, current, cancelled, faults>>

(* Block numbers are uint64: subtraction wraps. *)
Uint(x) == x % Width

\* Mutant of SafeHead: one confirmation fewer than asked for.
SafeHeadOneLess == Uint(head - Confirmations + 1)

SafeHead == Uint(head - Confirmations)

\* Mutants of NothingToScan: the subtraction is not guarded; the newest safe
\* block is left for later.
NothingToScanUnguarded(from) == SafeHead <= from
NothingToScanShort(from) == head < Confirmations \/ SafeHead <= from + 1

NothingToScan(from) == head < Confirmations \/ SafeHead <= from

(* ... then the head, and returns when there is nothing safe to scan. *)
ReadHead(g) ==
    /\ pc[g] = "head"
    /\ g \notin cancelled
    /\ IF NothingToScan(scan[g].from)
       THEN EndScan(g)
       ELSE /\ Goto(g, "fetch")
            /\ scan' = [scan EXCEPT ![g].safe = SafeHead, ![g].blk = scan[g].from + 1]
    /\ UNCHANGED <<chain, store, current, cancelled, faults>>

(* scanBlock: BlockByNumber, then the owners of the deposit addresses. *)
FetchBlock(g) ==
    /\ pc[g] = "fetch"
    /\ g \notin cancelled
    /\ scan' = [scan EXCEPT ![g].todo = {d \in Deposits : incl[d] = scan[g].blk}]
    /\ Goto(g, "block")
    /\ UNCHANGED <<chain, store, current, cancelled, faults>>

(* creditDeposit looks the deposit up in processed_deposits.  An ERC-20     *)
(* one needs a receipt and token metadata first, both from the node.       *)
Lookup(g, d) ==
    /\ pc[g] = "block"
    /\ d \in scan[g].todo
    /\ d \in Erc20 => g \notin cancelled /\ d \notin Undescribed
    /\ IF d \in processed
       THEN scan' = [scan EXCEPT ![g].todo = @ \ {d}] /\ UNCHANGED pc
       ELSE scan' = [scan EXCEPT ![g].dep = d] /\ Goto(g, "insert")
    /\ UNCHANGED <<chain, store, current, cancelled, faults>>

(* scanReceiptLogs: no receipt for a transaction of the block. *)
ReceiptNotFound(g, d) ==
    /\ pc[g] = "block"
    /\ d \in scan[g].todo \cap Erc20
    /\ g \notin cancelled
    /\ Fault
    /\ scan' = [scan EXCEPT ![g].todo = @ \ {d}]
    /\ skipped' = skipped \cup {d}
    /\ UNCHANGED <<chain, cursor, seed, processed, credits, manual, current, cancelled, pc>>

\* Mutant of RowsAffected: the insert is taken to have succeeded.
RowsAffectedIgnored(d) == 1

(* INSERT ... ON CONFLICT DO NOTHING inserts the row unless it is there. *)
RowsAffected(d) == IF d \in processed THEN 0 ELSE 1

(* A credit only for the row inserted, and both commit together. *)
Insert(g) ==
    /\ pc[g] = "insert"
    /\ LET d == scan[g].dep IN
       /\ processed' = processed \cup {d}
       /\ credits' = [credits EXCEPT ![d] = @ + RowsAffected(d)]
       /\ scan' = [scan EXCEPT ![g].todo = @ \ {d}, ![g].dep = None]
    /\ Goto(g, "block")
    /\ UNCHANGED <<chain, cursor, seed, manual, skipped, current, cancelled, faults>>

\* Mutant of NewCursor: the whole safe range counts as scanned after one block.
NewCursorAtSafeHead(g) == scan[g].safe

NewCursor(g) == scan[g].blk

(* The block is done: the cursor row is set to it, whatever it holds now,   *)
(* and the loop goes on to the next block.                                 *)
AdvanceCursor(g) ==
    /\ pc[g] = "block"
    /\ scan[g].todo = {}
    /\ cursor' = NewCursor(g)
    /\ IF scan[g].blk < scan[g].safe
       THEN scan' = [scan EXCEPT ![g].blk = @ + 1] /\ Goto(g, "fetch")
       ELSE EndScan(g)
    /\ UNCHANGED <<chain, seed, rows, current, cancelled, faults>>

(* The call under way returns an error, as every call to the node does once *)
(* the context is cancelled, and the metadata call of an undescribed token: *)
(* scanChain returns it, runChain logs it and waits for the next tick.      *)
ScanFails(g) ==
    /\ pc[g] \in Scanning
    /\ \/ /\ g \in cancelled \/ (pc[g] = "block" /\ scan[g].todo \cap Undescribed # {})
          /\ UNCHANGED faults
       \/ Fault
    /\ EndScan(g)
    /\ UNCHANGED <<chain, store, current, cancelled>>

(* CreditDeposit: an operator credits a deposit seen on the chain, outside  *)
(* processed_deposits.                                                      *)
CreditDeposit(d) ==
    /\ incl[d] # 0
    /\ d \notin manual
    /\ Fault
    /\ manual' = manual \cup {d}
    /\ UNCHANGED <<chain, cursor, seed, processed, credits, skipped, current, cancelled, pc, scan>>

----
Step(g) ==
    \/ CursorFound(g) \/ CursorMissing(g) \/ CreateCursor(g)
    \/ ReadCursor(g) \/ ReadHead(g) \/ FetchBlock(g)
    \/ \E d \in Deposits : Lookup(g, d)
    \/ Insert(g) \/ AdvanceCursor(g)

Next ==
    \/ Mine \/ Reorg \/ Stop \/ Crash
    \/ \E d \in Deposits : CreditDeposit(d)
    \/ \E g \in Scanners :
          \/ Start(g) \/ Step(g) \/ CursorInitFails(g) \/ Exit(g) \/ ScanFails(g)
          \/ \E d \in Deposits : ReceiptNotFound(g, d)

(* The process is started again after a stop and its goroutines run; the    *)
(* select between a tick and a cancelled context is not always won by the   *)
(* tick.  Calls fail only finitely often (MaxFaults).                       *)
Fairness ==
    /\ WF_vars(\E g \in Scanners : Start(g))
    /\ \A g \in Scanners :
          /\ WF_vars(Step(g) \/ ScanFails(g) \/ CursorInitFails(g))
          /\ SF_vars(Exit(g))

Spec == Init /\ [][Next]_vars /\ Fairness

----
TypeOK ==
    /\ head \in Heights /\ incl \in [Deposits -> Heights]
    /\ cursor \in Heights \cup {-1} /\ seed \in Heights \cup {-1}
    /\ processed \subseteq Deposits /\ skipped \subseteq Deposits
    /\ credits \in [Deposits -> Nat] /\ manual \subseteq Deposits
    /\ current \in Scanners \cup {None} /\ cancelled \subseteq Scanners
    /\ faults \in 0..MaxFaults
    /\ pc \in [Scanners -> {"off", "init", "seed", "wait", "gone"} \cup Scanning]
    /\ scan \in [Scanners -> [from : Heights, safe : Heights, blk : Heights,
                              todo : SUBSET Deposits, dep : Deposits \cup {None}]]

(* "a replayed block can never credit the same deposit twice": whatever     *)
(* scanners overlap, restart or rescan, a deposit is credited once, exactly *)
(* when it is recorded.                                                    *)
CreditedOnce == \A d \in Deposits : credits[d] = IF d \in processed THEN 1 ELSE 0

(* "a reorg cannot leave a user with spendable funds that later vanish": a  *)
(* credited deposit is in a block no reorganisation replaces any more.      *)
CreditedIsFinal == \A d \in processed : incl[d] # 0 /\ incl[d] <= Stable

(* The cursor never passes a deposit: whatever scanners write it, in        *)
(* whatever order, every deposit between the block it was created at and    *)
(* the cursor is credited (or its receipt was missing).                     *)
NothingBehindCursor == \A d \in Deposits :
    seed < incl[d] /\ incl[d] <= cursor => d \in processed \cup skipped

(* runChain returned although nobody stopped it. *)
ScannerDied == \E g \in Scanners : pc[g] = "gone" /\ g \notin cancelled

(* A deposit that is deep enough is credited at last, through failed calls, *)
(* stops and crashes, unless its receipt was missing or the scanner died.   *)
EveryDepositCredited == \A d \in Deposits \ Undescribed :
    (seed # -1 /\ seed < incl[d] /\ incl[d] <= Stable)
        ~> (d \in processed \cup skipped \/ ScannerDied)
====
