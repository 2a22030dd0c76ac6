# TigerSwap: a TLA+ verification development

TigerSwap is a self-hosted exchange: a Go API server (`backend/cmd/api`,
`backend/services`, rows kept in PostgreSQL through GORM), a set of Go side
services (`backend/go`), C++ and Rust engines, Python and Java libraries, Solidity
contracts and a web front end. This directory holds TLA+ specifications of the
parts where money moves under concurrency and failure, TLC runs that check them on
small instances, and proofs of what matters most for every instance.

Every definition is translated from the source; `PROJECT.json` maps each one to the
lines it stands for.

## 1. Inventory

### 1.1 Parts, state, operations

| part | state it keeps | operations | what is hard | what makes it correct |
|---|---|---|---|---|
| platform ledger `ledger_service.go` | one row per (user, asset); an entry per posting | credit, debit, `Transfer`, alone or inside a caller's transaction (`creditWithin`, `debitWithin`) | row locks, first-use row creation racing another, deadlock between transactions, rollback | no balance below zero, no lost posting, all or nothing |
| deposit watcher `deposit_watcher.go` | a cursor per chain, `processed_deposits` rows, one goroutine per chain | `Start`, `Stop`, `scanChain`, `creditDeposit`, `CreditDeposit` by hand | reorganisations, overlapping scanners after a restart, crash between credit and cursor, calls that always fail | a deposit is credited once, only when final, never passed over, and at last |
| withdrawals `wallet_service.go`, `blockchain_client.go` | ledger rows, the node's pool, one hot wallet | debit, sign, broadcast, reverse, record | lost answers, shared nonces, failed reversals, crash after the debit | what users lose is what was sent |
| governance `governance_service.go` | locks, gauges with running totals, votes, bribes, claims | `CreateLock`, `WithdrawLock`, `Vote`, `AddBribe`, `ClaimBribe` | reads outside the transaction that writes, totals kept by increments, decaying power | totals are sums, a claim is made once, claims fit the bribe |
| perpetual engine `perpetual_engine.go`, `perp_money.go` | positions and orders in memory under one mutex, rows behind them, a price loop | open, close, liquidate, price update, limit orders | oracle calls without the lock, caps checked before they are taken, rows written after the lock is released | a position is settled once, liquidated only at a loss, its row true |
| farms `farm_service.go` | farm rows, reward streams with an accumulator, stakes and their debts | stake, unstake, claim, fund, edit, delete | clocks and farms read before the row is locked, rounding, boosts | an interval is emitted once, nothing is paid that was not funded |
| order matching `go/order_matching` | price levels, an index of ids, in memory | submit, cancel, list and unlist a pair | the engine's and the book's locks are taken in turns, cached totals, self-trade prevention | price-time priority, fair fills, no crossed book, final orders stay final |
| options, NFT market, airdrops, margin (`backend/services`) | rows, escrow through the ledger | per-product handlers | checks outside the row lock, settlement racing exercise, a liquidation in several writes | escrow covers every claim, each claim once |
| OTC, TWAMM, launchpad, bots | rows or maps that record what was agreed | create, take, fill, participate, cancel, expire | fills racing cancels, counts read before inserts | nobody gets more, or other, than was agreed |
| bridge `bridge_new.go` | a row per transfer | request, relay | a crash between sending and recording, two relayers, lost answers | what is minted was locked |
| listings, dynamic integration | market rows; maps of chains, tokens, bridges, farms | create, update, delete; refresh of the perpetual engine's markets | validation against a row read before, refreshes that overlap | rates in order, references known, registry current |
| copy trading, sessions, admin, WebSocket hub, fee collector | maps and channels in memory, some with rows behind | follow, log in and out, switch, connect, collect | restarts, sweeps between two locks, channel closes | memory follows what was said last |
| keeper `go/keeper` | working sets, transactions in flight | poll, liquidate, execute, trigger | a stale view, its own copy of the contract's arithmetic | it acts where the contract would, and forgets nothing that is open |
| indexer, oracle, aggregator (`backend/go`) | a view of the chain | poll, store | an event processed twice | the cursor never skips |
| C++ engine | books, a write-ahead log | match, append, recover | a torn record at recovery | the recovered log is a prefix of the one written |
| Rust crates | order book, lock-free queue, insurance fund, keys | match, push, pop, spend | indices moved by two threads, a day boundary | no element lost or read twice, the limit holds |
| contracts | pools, vaults, orders, locks on a chain | per-contract calls | rounding, call order | assets cover shares |
| admin, auth, SDKs, front end, analytics | rows, caches, views | reads and writes of single rows | little | little beyond input validation |

### 1.2 How they interact

- Every product of the API server that moves money calls `creditWithin` or
  `debitWithin` inside its own database transaction. `Ledger` shows that such a
  transaction is atomic and never overdraws a row; the other modules rely on it and
  treat a posting as one step of the transaction it is part of.
- The deposit watcher and the withdrawal path connect the ledger with the chain:
  the first credits from blocks, the second debits before it broadcasts.
- The farm service asks the governance service for a user's voting power and turns
  it into a boost. Perpetuals take prices from the price aggregator and listings
  from the listing service, which calls `RefreshMarkets` through a hook.
- The matching engine is a process of its own with no ledger behind it.

## 2. Plan

Done: (1) `Ledger` with its abstract `AtomicLedger`, (2) `DepositWatcher`,
(3) `Withdrawals`, (4) `Governance`, (5) `PerpetualEngine`, (6) `Farm`,
(7) `OrderBook`, (8) the sixteen modules that `Platform` composes: `Options`,
`NFTMarket`, `Airdrop`, `MarginEngine`, `BlockTrades`, `Launchpad`, `CopyTrading`,
`Bridge`, `Listings`, `Integrations`, `Sessions`, `Hub`, `AdminConsole`, `Keeper`,
`Bots`, `FeeCollector`, and (9) the proofs of section 5, about (1) to (7) and all
sixteen services of (8).

Next, in this order:

1. *Chain side*: vault and staking shares with integer rounding, lending, the
   indexer's cursor.
2. *Engines*: the write-ahead log of the C++ engine and its recovery, the bounded
   queue of the Rust engine, the insurance fund's daily limit.

Abstract specifications worth stating beside `AtomicLedger`: a deposit register
(each final deposit credited once) for `DepositWatcher`, and a plain priority queue
for `OrderBook`.

## 3. Modules and how they correspond to the code

**`AtomicLedger`** is what callers of the ledger rely on: balances, and transactions
that post all their changes in one step or none. **`Ledger`** is the implementation:
a transaction (`Begin`, any number of `Call`s, `Commit` or `Rollback`) runs the
statements of `creditWithin` and `debitWithin` one by one: `SELECT ... FOR UPDATE`,
the `INSERT` when there is no row (which fails if another transaction has committed
one since), the read again, and the update. PostgreSQL's row locks, its waiting and its deadlock detector are the
environment. The property `Atomic` is `AtomicLedger` under a refinement mapping: the
abstract balances are the committed rows, a transaction's pending change is what it
has posted.

**`DepositWatcher`** has one chain that mines and reorganises at most
`Confirmations` blocks, and goroutines running `runChain`: read or create the cursor,
read the head, fetch a block, look a deposit up, insert it with its credit, move the
cursor. `Stop` cancels and does not wait, so the next `Start` may run a second
scanner beside the first; `Crash` leaves only the rows. Unsigned block arithmetic is
modelled modulo `Width`. `seed`, `credits`, `manual`, `skipped` are history.

**`Withdrawals`** follows `WithdrawHandler`: debit, then the steps of
`SendTransaction` (nonce, gas, sign, broadcast), each of which can fail, then the
row or the reversal. The node keeps one transaction per nonce, mines it, and it may
revert; an answer may be lost after the broadcast took effect. `unseen` is history.

**`Governance`** splits each handler where the code leaves or enters a transaction
(`VoteCheck`, `VoteReadTotal`, `Vote`, ...): values read outside are kept in the
request's record and used later. `raced` is history: the gauges whose votes overlapped.

**`PerpetualEngine`** has the engine's map under its mutex as atomic steps, with the
oracle calls between them: `OpenQuote`, `OpenCheckCap`, `OpenPosition`, `CreateRow`;
`CloseCheck`, `FetchMark`, `ClosePosition`, `SaveRow`; the price loop's
`UpdateCollect`, `UpdateFetch`, `UpdatePositions`. A crash empties memory and keeps
rows. Funding rates change no state (the code computes them for display) and are left out.

**`Farm`** has one farm with one reward stream. `Begin` stands for what a handler
reads before its transaction (the clock, the farm), the action named after the handler
for the transaction, which locks the farm row and advances the stream to the clock read
before. The accumulator and the debts are integers with `Scale` for the code's 10^18.

**`OrderBook`** has one pair and the `Book` objects made for it. `Submit` finds the
book and takes an id, `SubmitMatched` or `SubmitRejected` is `Book.Submit` under the
book's lock, `Index` goes back to the engine; `Cancel` and `BookCancel` likewise. The
order a request carries is chosen when the book sees it, since nothing reads it
before. `Match` is the code's two loops as rounds: each `Round` takes the head of the
best level that crosses and cancels it (its own trader's) or fills it, until the taker
is filled or nothing crosses; the number of orders on the book bounds the rounds. Levels
keep their cached total apart from the orders so that the two can disagree. `arrived`,
`trades` and `prevented` are history.

**`Platform`** picks one of sixteen services and follows it. Between the services
nothing is shared but ledger rows, whose postings `Ledger` shows to be atomic and
which each module gives its own users; so looking at one at a time loses no
interleaving; what one reads of another (a price, whether a pair is listed) is free to
change in the reader's module. Each service is a module with one variable, `db`, its
tables or its memory, and the same shape: what a handler does under one lock or in one
transaction is an action; a handler that reads first and writes later is two, with
other requests in between. Most products model the first half as `Load...`: a slow
request's copy of the row, `db.seen`, which a later action may act on instead of the
current one.

| module | code | what is in it |
|---|---|---|
| `Options` | `option_service.go` | one series, its pool, providers and holders; settlement, withdrawal, exercise and deletion on a stale series |
| `NFTMarket` | `nft_service.go` | tokens, listings, an offer with escrowed payment, the marketplace fee |
| `Airdrop` | `airdrop_service.go` | funding, allocation, claims, pauses, deletion |
| `MarginEngine` | `margin_engine.go` | one account; interest; a liquidation as accrue, seize, reduce, each of which may be the last |
| `BlockTrades` | `otc_service.go` | an OTC order taken, cancelled and expired at once; a TWAMM schedule |
| `Launchpad` | `launchpad.go` | a sale, its caps and status, claims |
| `CopyTrading` | `copy_trading.go` | traders, followers, positions, the price sweep with its unlocked read |
| `Bridge` | `bridge_new.go` | a transfer's row, its lock, relayer sweeps, crashes, lost answers |
| `Listings` | `listing_service.go`, `RefreshMarkets` | three tables, their hook, refreshes that read table after table |
| `Integrations` | `dynamic_integration.go` | four maps and their statistics |
| `Sessions` | `services.go`, `revocation.go` | accounts, tokens, revocation in memory and in rows, restarts |
| `Hub` | `services.go` | the WebSocket hub's goroutine, readers, writers and channels |
| `AdminConsole` | `services.go` | the admin's rows and system switches, two requests at once |
| `Keeper` | `go/keeper`, two contracts | a position and an order on the chain, what the keeper knows, its transactions |
| `Bots` | `bots_service.go` | a bot's configuration, life and pending orders |
| `FeeCollector` | `fee_collector.go` | rates, five kinds of fees, revenue by day, distribution, restart |

`Keeper` holds the contract's arithmetic beside the keeper's: signed division rounds
towards zero in Solidity and down in `big.Int.Div`, and `LiquidationMirrored` says the
two decisions agree up to the one unit this makes.

## 4. Runs

| run | what it shows | bounds |
|---|---|---|
| `ledger` | `NonNegative`, `NoLostUpdate`, `Atomic` (refinement), `EveryTxEnds` (liveness) | 2 transactions of at most 2 postings on 2 rows that may or may not exist: enough for opposite lock orders, the insert race, and a rollback after a posting |
| `deposits` | `CreditedOnce`, `CreditedIsFinal`, `NothingBehindCursor`, `EveryDepositCredited` | 2 deposits (one ERC-20), 2 scanners, 3 blocks, depth 1, 2 faults: two scanners overlap, one is stopped, one rescans after a crash |
| `deposits_stall` | violated: a token whose symbol does not decode stops the chain's cursor | 1 scanner, no other fault |
| `withdrawals` | `BooksBalance`, `NoOverpay`, `EveryRequestAnswered` | 2 requests sharing a hot wallet: the nonce is shared, one replaces the other |
| `withdrawals_paid` | violated: an executed withdrawal has moved nothing | same |
| `governance` | `TotalExactWithoutRace`, `ClaimedOnce`, `PaidWithinFrozen`, `VoteFitsPower` | 2 users, 2 requests at once, 2 locks, and either one gauge with everything, where locks stay as they are beside a bribe, or two gauges with one lock and no bribes (`SmallGovernance`): bribes of different gauges share nothing, and a lock's life meets a bribe only through the votes it leaves |
| `perpetuals` | `LiquidatedAtLoss`, `SettledStays`, `ClosedRowIsTrue`, `CapHoldsWithoutRace` | 2 positions, 1 order, 2 requests and the price loop, 2 prices, cap 3 below the two positions' size; `OneAtATime` keeps orders, positions and leftovers of a crash apart, which share only the listing |
| `perpetuals_side` | violated: a position with side `LONG` is liquidated at a gain | 1 position |
| `farm` | `StakesBacked`, `EmittedOnce`, `PaidWithinFundedUnboosted` | 2 stakers, 2 requests with clocks 0 to 2, budget 2; `Small`: an edit between the steps of another request with one staker, alone with two, and boosts with one staker and one request |
| `farm_boost` | violated: a boosted staker is paid more than was funded | 1 staker |
| `orderbook` | `BookConsistent`, `NotCrossed`, `TradesFair`, `FillOrKill`, `PriceTime`, `FinalStays` | 3 orders, buys of size 2 and sells of size 1 at 2 prices, with one shape of market and of fill-or-kill order, 2 traders, 2 requests at once: two makers at one level, a partial fill, a trader's own order in the way; `Small` lets the listing change where fewer orders run |
| `platform` | `FundsHeld`, `ClaimsBounded`, `TradesAsAgreed`, `BridgeBacked`, `ListingsRight`, `MemoryMatches`, `ChannelsSafe`, `LiquidationMirrored`, `NoStepBack`: what each of the sixteen services promises, one at a time | 2 users, 2 requests, connections, processes or relayers, 2 chains, one campaign, series, token, account, transfer or order each: enough for two requests to race and a third party to come between; prices and amounts up to 4 |

`CHECK_DEADLOCK FALSE` in `OrderBook.cfg`, where everything stops once every order is
submitted and the listing bound is used up, and in `Platform.cfg`, where a hub that
was stopped, a sale that is over and a bridge transfer that is settled have no more to
do. Neither constraints nor symmetry are used in a run that checks liveness;
`platform` is symmetric in users and in the identifiers of requests, which no
definition orders.

What each property of `platform` is made of is at its definition; the conjuncts are
properties of the service's module, commented there.

Each property of a passing run has a mutant of a mapped definition, a bug the code
could have, that TLC finds violated under the same configuration. In `platform` there
are several for a property where it joins the promises of several services.

The type invariant of a module is a property of its own in `ledger`, `deposits` and
`platform`, and otherwise the first conjunct of another: of `BooksBalance`,
`TotalExactWithoutRace`, `StakesBacked`, `ClosedRowIsTrue` and `BookConsistent`.

### Fairness

- `Ledger`: each transaction takes its next statement when it can, and the database
  resolves a deadlock by ending one (PostgreSQL's detector). No transaction is
  obliged to begin.
- `DepositWatcher`: the process is started again (weak fairness on some `Start`), each
  goroutine goes on or fails, and the `select` of `runChain` does not choose the tick
  for ever over a cancelled context (strong fairness on `Exit`): Go picks randomly
  among ready cases. Failures are bounded by `MaxFaults`, which stands for "not for ever".
- `Withdrawals`: a handler goes on, and the node mines what its pool can mine.
- The other modules check safety only and state no fairness.

## 5. Proofs

TLAPS checks what follows for every value of the constants that satisfies the
assumption named in the component's module: `LedgerAssumption`, `DepositAssumption`,
`WithdrawAssumption`, `GovernanceAssumption`, `PerpAssumption`, `FarmAssumption`,
`OrderBookAssumption`, `PlatformAssumption`. They say that amounts and bounds are
numbers, that the marker for "nobody" is nobody, and, where a property adds up over
users, gauges, requests or positions, that there are finitely many of these. The bounds
of the runs (how many blocks, faults, boosts, ...) stay constants in the proofs, so they
are any numbers.

Each proof module has one inductive invariant, `IInv` (in `PlatformProofs` one for
each group of services, in `WalletProofs` one for each of its two components), and the
three facts `InitIInv`, `StepIInv`, and that `IInv` gives the property; `StepIInv` has
one step per action. The invariant is most of the argument, so here it is for each:

**`WalletProofs`** has the two components that put money on an account. *Ledger*
(`LedgerIInv`): beside types: a call in progress is on a row its transaction may
use (`CallInProgress`), locks are held by running transactions only (`HoldersActive`),
a row a transaction has posted to is locked by it (`PostedIsLocked`), and a row's
pending balance is its committed one plus what its holder posted (`NoLostUpdate`).
Neither of `NonNegative` or `NoLostUpdate` is inductive without `PostedIsLocked`: two
transactions might have posted to the same row. Proved: `LedgerTypeOK`, `NonNegative`,
`NoLostUpdate`, and `LedgerAtomic`, that every step maps to a step of `AtomicLedger`
or a stutter.

*Deposit watcher* (`IInv`): `Passed(h)`, every deposit between the seed and block `h` has been
credited or skipped; `Fixed(h)`: `h` is the seed or at least `Confirmations` deep, so
that no reorganisation changes what `Passed` says. The invariant: the cursor is
`Fixed` and `Passed`, and every scanner knows `Passed` of the block below the one it
is at, which is final (`ScanSafe`). The cursor alone is not inductive, since a scanner
writes it from what it read long before. `SafeHeadIsStable` shows that the guarded
unsigned subtraction does not wrap; `ChainMoves` that new blocks and reorganisations
preserve `Passed`; `OthersUndisturbed` that a scanner's step leaves the others'
knowledge. Proved: `TypeOK`, `CreditedOnce`, `CreditedIsFinal`, `NothingBehindCursor`.

**`SumTheorems`** is shared by the next modules. `Sum(f, S)` in `Sums` is the community
modules' fold over a finite set, which is a recursive function on subsets; what it
computes needs induction on the set. The library's induction rules take an operator
and cannot be instantiated here, so `MinimalSubset` says the same with a set: among
subsets of a finite set with some property there is a minimal one (from the library's
fact that strict inclusion is well-founded there). `SummingUnique` and
`SummingExists` then characterise the fold by its recursion; `SumRemove`, `SumUpdate`,
`SumMonotone`, `SumSubset`, `SumLinear`, ... are what the components cite.

**`WithdrawalProofs`.** The nonces below the mined one are all taken, no request holds
two, and a request that has not broadcast holds none (`PoolSound`); who is charged is
known at each point of a request (`ChargedAt`); what reached the chain or may still do
so is charged, or its answer was lost (`DeliveryCharged`). Without the last,
`NoOverpay` is not inductive: the node mines long after the handler has decided. Proved:
`BooksBalance`, `NoOverpay`.

**`GovernanceProofs`.** What a vote under way has read (the user's old weight, the
gauge's new total, the power left) still stands, unless its gauge is raced or another
vote of the same user was beside it (`VoteSound`, `VotesApart`); what a claim or a
bribe under way has computed is what it would compute now as long as the bribe is
frozen (`OtherSound`); and what was paid of a frozen bribe is the sum of its claimants'
shares (`ClaimsSound`), whose rounding down `SharesFit` bounds by the bribe. Proved:
`TotalExactWithoutRace`, `ClaimedOnce`, `PaidWithinFrozen`, and the action property
`VoteFitsPower`.

**`PerpetualProofs`.** Positions cover their size with collateral and leverage; the
position a goroutine remembers between two locks is still in the map (`RequestSound`),
closed where it is about to write its row; a row says closed only of a position that
stays closed (`RecordsSound`); without a race one request opens at a time and what it
checked against the cap still fits (`CapSound`). `Evolves` says what may become of one
position in a step, and each action is shown to be of that kind. Proved:
`LiquidatedAtLoss` under the hypothesis `Sides \subseteq {"long", "short"}`, which the
code does not enforce: the run `perpetuals_side` shows it false without; for any
leverage and maintenance it rests on arithmetic with products. `ClosedRowIsTrue`,
`CapHoldsWithoutRace`, the action property `SettledStays`, and `TypeOK`.

**`FarmProofs`.** In units of 1/`Scale`, `Due` is what a user was paid, can claim and
will accrue from the emission so far, plus the slack a rounding left him; `Covered`
says that the sum of it is at most what was emitted plus one unit for each rounding
(`dust`). What was paid (`PaidWithinFundedUnboosted`) is not inductive by itself: a
claim pays what accrued, so accrual has to be in the invariant, with the same stake it
was accrued on. `AdvanceCovered` shows the accumulator's division keeps it,
`SettleCovered` that a settlement does, `AdvanceSound` that the clamps of the clock
emit an interval once. Proved: `StakesBacked`, `EmittedOnce`,
`PaidWithinFundedUnboosted`.

**`OrderBookProofs`.** Beside the properties themselves: a request waiting for its book
owns an id nobody has seen (`ClientsSound`); only good-till-cancelled orders rest, each
in one book (`RestingSound`); the orders of a level stand in the order of arrival
(`ArrivalSound`). Without the first, two requests might book one id; without the second,
a cancel or a match in one book could change an order that rests in another, the book
of an earlier listing; without the third, `PriceTime` says nothing of a level's head.
A match of any length is one step, so it has an invariant of its own:

- `Sound(i, r)`, kept by every round (`CancelRound`, `FillRound`): the book is
  consistent with the orders, the trades are fair, the taker does not rest, and while it
  wants more every maker it has traded with is used up.
- `Since(i, x, r)`, reflexive and transitive over rounds from `x` to `r`: levels only lose orders
  from the front (`BookShrinks`), only the taker and resting orders change
  (`OrdersKept`), an order is filled only when all in front of it are gone (`InTurn`),
  and what the levels hold for the taker less what it still wants stays the same unless
  one of its trader's orders was cancelled (`Surplus`).
- `RoundMeets` and `BestFound`: there is a best level, its head is the frontmost order.
- `Match` is a recursive function, so that it exists (`RunExists`) and ends with
  `Stopped` (`MatchSound`) is an induction over the rounds, on the set of numbers of
  rounds for which it holds.

`BookReplaced` then carries the invariant over a step that changes one book, and
`Thinning` says what a book that only loses orders keeps. Fill-or-kill follows from
`Surplus`: the check before the match promised a surplus of at least zero, and a taker
left wanting when nothing crosses has a negative one (`NothingLeft`). Proved:
`BookConsistent` (with `TypeOK`), `NotCrossed`, `TradesFair`, `FillOrKill`, and the
action properties `PriceTime` and `FinalStays`.

**`PlatformProofs`**, for any users, connections, relayers and requests; prices and
amounts as `Platform` sets them, unless stated.

- `BridgeBacked`: a relayer that is sending or waiting, and a mint taken for failed,
  come after the mined lock; any number of relayers.
- `ChannelsSafe`: a connection asks to be registered once, and its channel is open
  while it waits for that or is a client.
- `ListingsRight`: what an update saw of the rate that it does not write is the row's,
  unless two updates raced; a refresh that is under way has read what the tables say,
  unless another is due; statistics are counts, references are known or dropped.
- `LiquidationMirrored`: by `Rounded`, the two roundings of a loss differ by at most
  one; `MarketMirrored` proves the agreement for every precision, maintenance margin,
  position and price, and the theorem instantiates it.
- `ClaimsBounded`: of a put series, twice the size held is locked and what is locked is
  there (a sum over users); a token is in escrow exactly if one listing of it is active;
  an allocation that is not marked claimed has not been paid. `PlatformAssumption` asks
  that the marketplace's escrow and its fee account are no users and that no listing is
  called "nothing".
- `FundsHeld`: sums over users, allocations, records and days. The collateral of a series
  and the users' accounts are what the users began with (`PoolHeld`); the accounts and
  the price of the live offer are (`PaymentsRight`), where the fee of a sale is a part of
  its price; what an airdrop was funded with is claimed or in escrow (`EscrowHeld`); a
  margin account's rows are its history also where a liquidation fails between two writes
  (`PaymentHeld`, `PartLeft`); and one more fee adds as much to its kind in the report as
  to its day and to the total (`OneMoreRecord`), which marking records does not change.
- `TradesAsAgreed`: an OTC order that is open has no taker, so it is taken once; a
  schedule's next slice is what is due less what was filled (`Slice`); a sale's raise is
  the sum of its allocations (`BoughtMore`), and at its cap it is not active unless
  somebody reopened it; a bot's pending orders and the requests that have counted are,
  together, at most the limit and the other requests (`Among`, `BotsDone`).
- `MemoryMatches`: the list of a trader's followers has everyone who follows him and
  nobody twice, which taking the first entry of a user out of it preserves (`TakenOut`,
  `ListLeft`); a token whose logout was answered is in the table until it has expired; the
  stored switches have the values last asked for, except those a request saved from a
  copy it had loaded before (`Switched`).
- `NoStepBack`, an action property: a step that borrows checks the whole stored debt,
  which stays a number also while a liquidation is between its writes; a copied
  position, once closed, is not marked or reopened; rows of the admin's tables stay; an
  order that is open or partly filled has in escrow exactly what is left to fill, so one
  that is over has at most the remainder its parts do not divide.
- `TypeOK`, of all sixteen services together: most types are part of the invariants
  above, from which a row cannot be separated (what an account may hold, whom an order
  records); the statuses, phases and keys that no invariant speaks of keep their types
  by themselves (`HubRoom` to `RowsOfMarket`). `PlatformAssumption` asks here that the
  registry's first chain is one of its chains.

**Only model-checked.** Liveness (`EveryTxEnds`, `EveryDepositCredited`,
`EveryRequestAnswered`) is out of the prover's reach, as is anything with `ENABLED`.

## 6. What the models found

Checked as violations, with the line they contradict (`findings` in `PROJECT.json`):

- One deposit of a token with an undecodable symbol stops its chain's scanner.
- A withdrawal of an ERC-20 token, or of `native`, is sent to the recipient with no
  value and no effect.
- A perpetual position opened with side `LONG` earns as a long and is liquidated as a short.
- Farm boosts pay more than a farm was funded with.

Met while modelling and kept in the models as they are, so properties carry the
condition under which they do hold:

- *Deposits.* `Stop` does not wait for the scan under way. One failed `ensureCursor`
  ends a chain's scanner for good (`ScannerDied`). `CreditDeposit` by hand is not
  recorded in `processed_deposits`, so the scanner credits the same deposit again.
- *Withdrawals.* A broadcast whose answer is lost is both executed and reversed
  (`unseen`). A withdrawal that reverts or is replaced is never reversed: nothing reads
  its receipt. Concurrent withdrawals read the same pending nonce.
- *Governance.* Concurrent votes lose updates of a gauge's total (`raced`). Weights
  outlive the decay and the withdrawal of the lock behind them. Two requests can open
  two locks for one user. Bribe shares are taken from current votes over a total
  frozen when the bribe was added, so claims can exceed the bribe once votes move
  (`frozen`). A bribe is claimed once per user; nothing limits claims to one bribe of
  a gauge and epoch, as the model's comment suggests.
- *Perpetuals.* The open-interest cap is checked before the position is added, and per
  spelling of the symbol (`crowded`). `ClosePosition` accepts a position that is already
  liquidatable. `executeOrder` writes a status without the lock, so a cancelled order
  can become filled. After a restart positions are gone and their rows stay open.
- *Farms.* A debt rounded down lets a staker claim a unit that another then lacks
  (`dust`). `DeleteFarm` reads the stake before it locks, and can close a farm with a
  stake in it. `UpdateFarm` validates the window against a row read before.
- *Order book.* The fill-or-kill check counts the trader's own resting orders, which
  matching then cancels, so such an order can fill partly ("rejected without trading
  anything", `book.go`). An order whose book was found before `UnregisterPair` still
  trades and rests in the unlisted book; relisting makes a new book, and the orders of
  the old one can no longer be cancelled. Trades enter the tape before they get their
  id, so the tape serves `trade_id` 0.
- *Options.* A call's locked collateral is its mark price, so calls can be worth more
  than backs them; puts are covered (`PutsCovered`), calls are not claimed to be.
- *NFT market.* `DeleteCollection` races `Mint`, which can leave a token without its
  collection.
- *Airdrops.* `SetAllocations` counts claims before it replaces the rows: a claim made
  in between is forgotten, and can be made again (`raced`).
- *Margin.* `Borrow` checks stored debt without the interest that has accrued since
  (`BufferKept` asks for an account that is up to date). A liquidation that fails after
  the seizure leaves the debt as it was.
- *OTC.* `CancelOrder` looks at the status it loaded: an order matched meanwhile
  becomes cancelled.
- *Bridge.* A mint whose transaction is taken for failed, and is mined later, leaves a
  failed row of a transfer that was minted.
- *Launchpad.* Only a user's first participation can ever be claimed. With a hard cap
  that is no number, a request fails after its allocation is recorded.
- *Copy trading.* `ClosePositionHandler` closes the position before it asks who owns
  it. A trader who registers again starts at zero followers with his followers kept,
  so the count can go below zero.
- *Listings.* Two updates validated against the same old row can leave the rates out of
  order (`listing_service.go` 20-21 promises that they are not). Refreshes that overlap
  can leave a paused market registered until the next change.
- *Sessions.* `Login` does not look at `is_active`. When the revocations cannot be read
  at a start, the process forgets them.
- *Admin.* `UpdateConfig` writes back all the settings it read, so it can undo a
  maintenance switch set meanwhile.
- *Hub.* A connection unregistered before the hub has registered it stays as a dead
  client until a broadcast finds its channel full.
- *Keeper.* The remainder of a TWAP order that its parts do not divide stays in the
  contract. Rounding differs from the contract's by one unit for losses.
- *Bots.* Requests that count at the same time exceed `max_open_orders`; an update that
  loaded the bot before it was stopped starts it again; a deleted bot can be left with
  an order, against the comment at `bots_service.go` 477.
- *Fee collector.* `DistributeFees` marks what was collected during the transfer, and
  moves an amount that has nothing to do with the records it marks.

These need no run of their own to be seen; each is visible in the definition of the
action named, and the properties state what remains true beside it.

## 7. Not modelled, and why

Arithmetic wider than TLC's integers (the contracts' pools, `wide.rs`, Black-Scholes),
cryptography, floating-point analytics, SDKs, HTTP plumbing, authentication rows and
views: `components` in `PROJECT.json` gives the reason for each. Of the modelled parts
these are left out: what `Platform`'s services only read for display; the lost updates
of two margin handlers on one account, and a second liquidation beside the first; the
swap and portfolio handlers of `services.go`, which keep no state; wallet creation and balances in the wallet service; funding
rates and the reading handlers of the perpetual engine; the tape, ids and fees of
trades, decimal conversion, rate limiting and feeds of the matching engine. What section 2 lists as next on the chain side and in the
engines is not modelled yet.

## 8. Running

    tlc -workers 2 -config Ledger.cfg MCLedger.tla      # any row of section 4
    tlapm WalletProofs.tla                              # any module of section 5
