# Verification of the DEX

TLA+ models of the exchange in this repository: its contracts, the indexer, the
HTTP API, and the tools and SDK around them. They are model-checked with TLC on
small instances. The order book's control, its queue and the consistency of its
content, the verdict of a market and the division of its pool, and the capture of
the indexer are also proved with TLAPS for every value of the constants. Line
numbers refer to the files under `src/`.

## The system

The exchange is a set of TVM contracts plus Rust services. A contract handles
one message per transaction: a handler either commits all its effects, outgoing
messages included, or none. Messages between one sender and one receiver arrive
in sending order; between different pairs nothing is ordered. Work that does not
fit one transaction is continued by messages a contract sends to itself. The
indexer captures the events the contracts emit, projects them into tables, and
repairs the tables from account states. The API serves the tables and sends
signed messages to the notes it holds keys for.

| Part | State | Operations | What is hard |
|---|---|---|---|
| `OrderBook.sol` | orders, price levels, owner lists, a ring of queued work, shutdown latches and cursor | `executeBatch`, `cancelAllOrders`, `processHead`, `shutdown`, `setResultStart` | takers matched over several transactions, deferred shutdown, limits, rounding |
| `PrivateNote.sol` | balance, stakes, order locks, busy latch with nonce, coupons, transfers | place, cancel, stake, split, merge, claim, withdraw, transfer, and a callback for each | late callbacks, bounces that must restore reservations |
| `PMP.sol` | pools per outcome, freeze, result, votes, shutdown state, amounts owed | stake, freeze, split, merge, resolve, claim, cancel, forfeit | quorum with changing votes, closing only after the book has drained |
| `RootPN.sol`, `Nullifier.sol` | custody totals per token, fees, spent deposits | deploy, voucher, gas, withdraw | vouchers presented again, withdrawals that come back |
| `OracleEventList.sol`, `Oracle.sol`, `RootOracle.sol` | events, confirmation counts | add, confirm, cancel, delete | one count per market, released once |
| `InferenceOrderBook.sol`, `TokenContract.sol` | offers, escrow, deals | place, match, hand over; fund, open, claim, settle | orders that vanish without an event, funding cycles |
| `services/indexer`, `indexer_repo.rs` | two source cursors, a barrier, raw events | drain pages, filter, decode, persist, project | concurrent streams, crash between commits, retries |
| projectors and reconcilers | tables of markets, orders, trades, books, deals | one projector per event; fetch, write, sweep | events out of order, snapshots older or newer than the rows |
| `services/api`, `application`, `domain` | requests, accounts, credentials | listings, depth, tape, balances; orders, batches, cancels, full sets | several statements per answer, two grids, timeouts |
| `sdk` | pool and state files | mint notes, set up markets, onboard, scan the chain | stopped anywhere and run again |

What each part should guarantee:

- **Order book:** all views of the book agree; it is never crossed at rest; no
  order is lost or ended twice; minimum fills hold over continuations; nobody
  pays more than they locked; every operation is answered and acknowledged
  once; the queue never sticks; a shutdown ends and leaves nothing behind.
- **Note:** tokens and collateral are conserved by orders, bounces and
  shutdown; its record agrees with the book; it becomes free again.
- **Market:** never both resolved and cancelled; pools equal the stakes; payouts
  are exactly the pools; every request is answered; it closes once, and only
  when all is settled and its book is gone; a list's count is released once.
- **RootPN:** holds exactly what notes and open vouchers can ask for.
- **Indexer:** no event is lost or projected twice; in whatever order events are
  applied the rows end up telling what the contracts hold; nothing served as
  final is taken back.
- **API:** what it accepts the chain can accept; what it answers is consistent
  while the indexer writes; a credential acts for its own note only.
- **Tools and SDK:** what a file records exists and obeys the recorded key; scans
  miss nothing that was there all the time.

## Modules

| Module | Models |
|---|---|
| `Absent` | the absent value, and input that is blank or does not parse |
| `BookMatching` | the book as a value, and what placing, matching and cancelling do to it: `_doPlace`, `_insertIntoBook`, `_removeFromBook`, `_doCancel`, `_doCancelAll`, locks, fees and rounding |
| `OrderBook` | the contract as a state machine, one action per message |
| `OrderBookSystem` | the book with its environment and history variables; the properties |
| `OBQueue`, `BoundedFifo` | the ring buffer with wrapping indices and identifiers, and what it promises |
| `Sums` | lemmas about least elements, sums over finite sets and quotients, for the other proofs |
| `BookMatching_proofs`, `MatchLoop_proofs` | proofs about the views of the book as a value, and about the match loop |
| `OrderBook_proofs`, `BookState_proofs`, `OBQueue_proofs` | proofs about the book's control, its content, and the ring |
| `MarketPools` | the arithmetic of a market: freeze remainders, baskets, division of the pool, claims |
| `PMP`, `StakeNote`, `OracleList` | the market contract, the staking side of a note, an oracle event list |
| `Market` | their composition and the messages between them; the properties |
| `Market_proofs` | proofs about the division of the pool and the verdict |
| `MarketSeeder` | runs of `mint_ob_pool` and `deploy_oracle` against the contracts of `Market` |
| `TradingNote` | the trading side of a note: owner's calls, callbacks, bounces |
| `TradingSystem` | trading notes composed with `OrderBook`, the market and RootPN, and the rows the indexer makes of the book's events |
| `TradingApi` | the write side of the API in front of the notes: validation, encoding, sending, timeouts, repeated requests |
| `CaptureBarrier` | two capture streams, page commits, the aggregate barrier, projection passes, failures, crash and restart |
| `CaptureBarrier_proofs` | proofs about cursors and barrier |
| `Ingest` | what becomes of one stream's edges: filters, decoding, storage, reloads, newer builds, pruning |
| `ReadModel` | what projectors have in common |
| `MarketRows`, `OrderRows`, `InferenceRows` | the tables: projectors, what reconcilers write, what the API makes of a row |
| `Reprojection` | the projection loop over the log: passes, deferral, failed rows, retry passes |
| `PredictionIndex`, `InferenceIndex`, `IndexSystem` | the two sides of the indexer with its reconcilers and readers, and their composition |
| `Served` | decimals and grids; what the API answers of a book and a note |
| `ReadApi` | listings walked page by page; depth, tape and balances polled |
| `RootPN`, `NoteTools`, `Accounts` | vouchers and notes; `mint_pn_pool` and `onboard_user`; accounts, seeding, authentication |
| `Scans` | what the SDK reads through the gateway; its limiter |
| `ServiceSystem` | the composition of the last three rows with `Ingest`; the properties |
| `MCOrderBook`, `MCMarket`, `MCSeeder`, `MCIndex`, `MCTrading`, `MCService` | instances for TLC |

### Correspondence and abstractions

**Order book.**

- `book` stands for `_orders`, `_levels`, `_ownerHead/_ownerTail` and
  `_orderCount`. The doubly linked lists of a level and of an owner are
  sequences. The pointer updates themselves are therefore not checked.
- The pair (outcome, epoch) of an order is one value of `Books`, since orders
  of different pairs never meet.
- In `OrderBook` the queue is a sequence. `OBQueue` justifies that: the ring is
  a bounded FIFO. The two are separate specifications; `OrderBook` does not
  instantiate `OBQueue`.
- `selfCalls` holds the self-calls in flight, delivered in sending order. `out`
  holds what the last transaction sent to other contracts.
- A handler is one action, trailing `_processHeadCore` included. `alive`
  becomes false when the drain destroys the account.
- Signatures, address derivation, gas and event texts are left out. Amounts are
  natural numbers; the overflow of 128-bit amounts is not modelled. Identifier
  wrap-around is, in `OBQueue`.
- In `OrderBookSystem` the environment sends any operation of its set at any
  time, subject to the guards of the code, so it allows more interleavings than
  real notes do. `TradingSystem` has the real notes.

**Market.** One market meets several notes and lists. Every pair of a contract
and the market has one FIFO channel in each direction.

- A handler that fails a `require` is rolled back and its message becomes a
  `bounce` in the channel back. A message to an account that does not exist
  bounces too. Votes and `freezeNow` come from outside; refused, they leave no
  trace and are not steps.
- `pmp` is the storage of the market, and `Fresh` that of an account that does
  not exist. `Touched` is the shutdown trigger that `ensureBalance` runs in
  every handler. `Commit`, `Destroy` and `Finish` end a handler: with its new
  storage, with `selfdestruct`, or with whichever of the two the close test
  decides.
- `book` reduces the order book to its life: none, open, closing, done (its
  report is on the way), gone. `OrderBook` models the drain itself, and
  `WorkEnds` is what the step `BookDrained` stands on.
- `pool` stands for `_typedOutcomePools`; the three totals are sums of it.
  Coupons are staked value that is not collateral.
- In `note`, `stake.amount`, `stake.outcome` and `stake.bet` are the candidate
  fields of the record. There is one token type.
- A list sends its oracle's key and its trusted address with its approval. The
  market counts keys, and refuses an approval that brings a new key with an
  address already approved; the list then hears a bounce.
- A note takes an answer only from the account it is busy with. `Unexpected` is an
  answer it would refuse; `EveryRequestAnswered` says that none ever comes, so the
  model has no step for the refusal.
- `burnt` is a history variable: the refunds that reached a note whose owner had
  already given the stake up. `MoneyConserved` counts them.
- Runs of the market tools poll the same contracts; runs started in one second
  share a name and so an oracle, a list and a market. A later run on the same pool
  file keeps what it can read of it and refuses the rest; its own market is
  another one and is not followed.

**Trading.** An operator of `TradingNote` maps the note's state to the one the
handler leaves; `TradingSystem` adds the messages. A note is busy until its call
is answered, so it has at most one message in flight, and the book's messages to
it queue up in `inbox`. The market is reduced to what a trading note sees of it:
full sets are minted and merged, and the winner is fixed once the book has
reported. `TradingApi` puts lanes of clients before the notes: a request is
resolved against the rows, validated, encoded and sent; the wait for it may end
before the message is executed, and the client may repeat it. A decimal stands
for the exact value it parses to, with its number of decimals. RootPN tests a
withdrawal against its reserve and against `_deployedValues`; one figure,
`custody`, stands for both, since the reserve covers the deposits (`Solvent`) and
both lose what is paid.

**Indexer.** In `CaptureBarrier` an event is its position in chain order. A
database transaction is one step, and the chain and the other stream may move
between any two. The gateway is external: a query returns the next page of its
stream and whether there is more. A commit may take effect with its answer lost.
Start-up is one step, since each part of it may safely be repeated. `Ingest`
looks inside the page: one stream, edges with destinations and bodies, the
configuration and its reloads, builds that know more events, pruning.

In `IndexSystem` the contracts are reduced to what their events and getters tell.
A projector maps the tables to new ones and to an outcome (applied, deferred,
failed). A batch of the loop is one row, so that every other task may run between
any two rows. A reconciler fetches an account state in one step and writes from
it in later ones; the books of a batch are selected together, so what was true of a
row may no longer be when its turn comes. Names, codes and amounts that nothing
depends on are left out; a timestamp that is only tested for NULL is TRUE or NULL,
and every event has its time. The local TVM that runs getters is external.

**Services.** A query of `ReadApi` maps the parameters that are present to values;
a row's sort key is a pair; the tables change by commits that the scenario lists.
Every statement of a request is a step of its own unless the code opens a
transaction. In `NoteTools` and `MarketSeeder` a tool may stop between any two
steps, and a file is truncated before it is written. A note's deployment, its gas
(through the nullifier) and the giver's top-up are messages in `transit`, delivered
in any order; a second message for a used voucher comes back with its SHELL. The
budget given to RootPN arrives at once. In `Accounts` a note's address and its
`pn_dih` are one name, so a conflict on either is a conflict on the note; keys,
seals and signatures are symbolic. In `Scans` an event has a place, a second, and a
body that the gateway may deliver later.

In every composition `plan` (in `ServiceSystem` with tables, queries and streams)
says what the users of the scenario may do. It is chosen in the initial state, so
that one run covers many small scenarios.

## Runs

| Run | Configuration | Checks |
|---|---|---|
| `ob_matching` | `MCMatching.cfg` | `BookConsistent`, `FillGuarantee`, `CollateralCovered`, `PriceTimePriority` |
| `ob_queue` | `MCQueue.cfg` | `OrderLifecycle`, `AnsweredOnce`, `NoStuckHead`, `DrainAdvances`, `WorkEnds` |
| `ob_ring` | `OBQueue.cfg` | `QueueIdsDistinct`, `FifoSpec` |
| `ix_capture` | `MCCapture.cfg` | `CursorCoversRows`, `BarrierComplete`, `EventuallyProjected` |
| `pm_life` | `MCLife.cfg` | `PoolsMatchStakes`, `MoneyConserved`, `OneVerdict`, `ClosedWhenSettled`, `DecisionsBacked` |
| `pm_setup` | `MCSetup.cfg` | `SetupUnwinds`, `RecordedMarketsTrade`, `EveryRequestAnswered` |
| `idx` | `MCIndex.cfg` | `RowsMirrorChain`, `ServedSound`, `SweepSound`, `NothingTakenBack`, `EverythingProjected` |
| `trading` | `MCTrading.cfg` | `MoneyConserved`, `NoteMirrorsBook`, `AnswersMirrorBook`, `ValidForChain`, `BusyReleased` |
| `service` | `MCService.cfg` | `Solvent`, `NotesKept`, `CredentialsHold`, `ReadsHold`, `ScansHold`, `CaptureHolds`, `DisabledStaysOut`, `ServicesProgress` |
| `pm_grace` | `MCGrace.cfg` | `RefundAfterGrace`, violated |
| `pm_claim_race` | `MCClaimRace.cfg` | `ClosedWhenSettled`, violated |
| `dropped` | `MCDropped.cfg` | `CancelFindsRecord`, violated |

Several of these are conjunctions of named facts; each fact has its own comment.

- `pm_life` follows five markets from deployment to settlement: stakes of all
  kinds claimed or forfeited; full sets split and merged after a freeze that
  leaves a remainder; all clean stakes merged away, so that a side wins without
  a stake; a market cancelled by votes or past its grace period; three oracles
  that vote on everything and change their votes.
- `pm_setup` has the ways a deployment may fail (mistakes in it, unpaid fees, a
  competing deployer, a list that does not exist, lists of one oracle, lists with
  one trusted address, an event added and deleted in between), requests of every
  kind while a market is set up and closed, and runs of the market tools that end
  at any step and start again on the same pool file.
- `idx` shows that the tables converge to the chain. Its scenarios are a market
  from its oracle to its end, timings set twice, a market its oracle refuses;
  orders matched several times, a market buy, a listing paged meanwhile;
  inference orders that vanish, lag, are lost or expire, account states that go
  back, two versions of a book; a deal matched again after a no-show. Faults fail
  a row or abort a pass.
- `trading` runs the real notes against the real book: crossing limits with
  cancellations that race fills, batches, fill-or-kill, full sets merged while a
  token is for sale, fills too small to cost anything, transfers and withdrawals
  that RootPN cannot pay, a shutdown with orders resting, clients of the API that
  time out and repeat their request. Every kind of order item, on and off the
  grid, and malformed requests go through validation once each.
- `service` runs vouchers and the note tools, accounts, listings, polls, scans,
  the limiter and ingestion. The parts share no state but notes and accounts, so
  each scenario exercises one of them and leaves the others idle.

Three runs record disagreements between a comment and the code:

- `pm_grace`: `PMP.sol:743` says that `cancelStake` "triggers automatic
  cancellation" after the result window. If the market is frozen and nothing
  else has triggered the shutdown of its book, the requirement at line 776
  rolls the cancellation and the trigger back, every time. Any other handler
  that commits after the result start (a vote, a forfeit) unblocks it.
- `pm_claim_race`: line 1518 says the market closes "once the only unclaimed
  winning mass left is the forfeited mass". `claim` does not wait for the
  creator's freeze refund, as `cancelStake` does; the creator's claim may then
  take more off the winning mass than it holds.
- `dropped`: `PrivateNote.sol:1933` keeps an emptied stake record while orders
  rest, so that returned tokens find it. The bounce of a cancellation (line
  2486) deletes it without that test; the tokens of sells that the drain then
  returns are dropped.

### Limits of the properties

Some properties are stated for less than a comment or document suggests,
because the code does something else in the remaining case.

Contracts:

- `PriceTimePriority` is about limit orders and market sells. `OrderBook.sol:866`
  says levels are walked "best-first within our epoch, FIFO inside each". When
  the quote spent by a fill of a market buy rounds down to 0, the remaining quote
  does not shrink (line 993) and the walk goes on past a maker filled only in part.
- No property is about `initialAmount`, "original size at placement" (line 60).
  After a continuation it is the remainder (lines 716 and 1130).
- `Races = FALSE` in the passing runs of the market excludes a freeze that
  overtakes a claim or forfeit of the creator, and the creator's claim or forfeit
  before the refund has arrived. The claim is `pm_claim_race`; a forfeit may
  likewise be counted with the refunded remainder (`PMP.sol:1607`).
- In the plans with several lists the creator has only the initial stakes. A
  further stake sent while a partly approved market is abandoned is deleted with
  the record (`PrivateNote.sol:1571`) and its bounce restores nothing, although
  line 2449 says that funds are returned. For the same reason no property relates
  `_pendingForfeit` to a forfeit in flight, as line 321 does: the failure of the
  initial stakes frees the note and leaves the mark.
- That a market closes with its book gone (`ClosedWhenSettled`) is claimed for the
  first deployment at an address: a rejection left over from an earlier one,
  delayed past the freeze, destroys the later market while its book runs.
- `trading` has no plan that ends as `dropped` does: with both tokens of a set for
  sale when a cancellation bounces.
- A repeated request is not placed twice while its identifier is live
  (`ClientIdUnique`). `docs/api-spec.md:201` says "the server will deduplicate";
  after the order has ended the identifier is free (`PrivateNote.sol:3321`) and
  the same request places a new order.

Indexer:

- An answer that a TokenContract has no SELL (`AbsenceIsTrue` in `ServedSound`) is
  refused while a placement of the book is captured and not projected, or the last
  poll was not at head. The gate sees no more than that: a placement emitted after
  the last poll is missed until the next one, and one the gateway never served is
  missed for good.
- `BarrierComplete` has the full statement at head only. `docs/tech-specs/indexer.md:142`
  says backfill barriers "are safe immediately because their limiting cursor is
  behind the chain head". One stream may reach head, then get a new event, while
  the other stops at the page limit beyond it: the barrier is then above an event
  not yet captured, which is later projected after its successors. Such events are
  of that tick, and `EventuallyProjected` shows that none is lost.
- `ProjectedOnce` assumes that pages are fetched again within the retention time.
  `prune_raw_events.sql` deletes processed rows, and with them the `msg_id` that
  recognises an event; a cold start beyond that projects pruned events again.
- A row stored undecoded by an older build stays undecoded; `CapturedAccountedFor`
  says only that it waits. The counter of failed decodings, "the only durable
  signal" (`indexer_repo.rs:1353`), is in memory.
- The buckets of market states do not "partition the table"
  (`indexer_repo.rs:930`): a superseded inference book is in none.
- A market reconciled before its event is approved becomes visible without
  outcomes, although `indexer.md:559` says clients see "fully-populated markets
  only". `BalancesAnswered` allows the refusals that follow from it.
- A market rejected or cancelled before its timings are set has a terminal status
  and no timings: `validate_invariants` (`postgres_repo.rs:2721`) refuses it, and
  every listing page it falls on, for good. `read-api.md:97` calls the
  inconsistency transient. `TimedServable` is about markets with timings.
- A second market that confirms the event of a list takes over the link from the
  first; the plans have one market per event.
- A late fill reopens an inference order that was expired; `TerminalKept` is about
  prediction orders. A partly spent market buy is served as `FILLED`, which
  `api-spec.md:1960` defines as "completely filled"; `OrdersMirror` compares limit
  orders.
- `InferenceDealClosed` arrives from both notes (`projectors.rs:1247`); the second
  may come after the next cycle was funded. `DealMirrors` therefore claims the
  whole row only without faults.

API:

- Levels and `lastUpdateId` of a depth are two statements (`postgres_repo.rs:402`):
  the identifier may be newer than the levels, never older (`DepthNotAhead`).
- Balances add a getter of the chain to rows that lag behind it
  (`application/src/lib.rs:1669`). `BalancesAddUp` holds once the indexer has
  caught up; before, an order's tokens may be counted twice or not at all.
- A market buy may leave amounts off the display grid. Depth and tape of the
  outcome then answer 503 and the order is left out of the listing
  (`read-api.md:403` describes the persistent 503). The plans of `trading` have none.
- `WalkComplete` leaves out items that change their place between two pages: a
  market that gets its timings moves in the order.
- Seeding at start re-activates the key of a seeded account that was disabled;
  `docs/tech-specs/auth.md:89` says later requests return `-1002`.
  `DisabledStaysOut` is about registrations.
- A registration whose answer is lost leaves the note registered and its client
  without a credential: the next attempt is refused.
- After the KEK is replaced, keys sealed under the old one no longer work.

Tools and SDK:

- `mint_pn_pool` records a note once it is funded. A note that was deployed and
  whose funding failed is in no file, although the header says errors "don't lose
  what already deployed" (line 20). A stop during a write leaves the pool file
  torn; the next run stops at it.
- `onboard_user` persists the keys "we'll need on retry" (line 506) and generates
  new ones in a retry of that step; the deployed note of the first try is lost.
- `mint_ob_pool` starts with the first deployer note in every run, although "one
  note consumed per market" (line 1012).
- Waits look at a bounded number of recent messages (`EXTOUT_WINDOW`,
  `MESSAGE_WINDOW`); one that has passed out of the window is not found.
- `RootOracle.deployOracle` announces an oracle on every call, and the discoveries
  do not deduplicate: an oracle announced twice is listed twice, with its markets.
  `DiscoveryComplete` says that nothing which was there from beginning to end is
  missed and that nothing is listed more often than it was announced.
- A recorded note has its gas or it is on its way (`FundedWhenRecorded`): the tools
  sleep a few seconds and record it without looking.
- A history over several notes shares one cursor; `HistoryWalk` is about one note.
- The limiter divides 1000 by the rate in integers; `RateKept` is stated for the
  interval that results, with a steady clock. Late wakers may bunch.

### Bounds

`MaxOps` operations, `MaxPokes` external calls and a clock up to `MaxTime`
bound the environment of the book. The limits of the code are scaled down so that
they are met: with one or two matches and one pre-check level per transaction
nearly every taker is continued, with a queue of three entries both limits are
reached, and with one identifier per drain pass the drain takes several. Four
operations are enough for two makers, a taker that is continued and an operation
that arrives in between; three, of up to two orders and two cancels, fill the
queue of the shutdown run. Prices above and below `FULL_PERCENT` make the
divisions round. The two notes are symmetric in `ob_matching`. Symmetry is used in
runs without liveness properties only.

The capture run has two streams, three events, one event per page, one page per
tick, one failure and one crash: enough for a stream to be cut off at its limit
while the other runs ahead, and for a row to be captured below the floor.

In a plan of the market `maxOps` bounds deployments, stakes and splits, and
`times` lists the values of the clock: of one in the staking window, one after
it, one in the result window and one beyond the grace period, those the plan
needs. Deployments happen at the first of them, so a market is not deployed
again after it was settled. Two notes are enough for a creator and a second
winner; the second also holds debt or coupons. Two outcomes with initial stakes
of 2 make odd pools leave a remainder. `FULL_PERCENT` is 10, so that the
percentages round at small amounts. Three lists have a quorum of two. Outcomes,
and the lists that are not deployed alone, are symmetric in `pm_life`. Two market
tools run at once.

In `idx` a scenario has at most four orders and one fault (`MaxFaults`); the sweep
probes two rows at a time, so that it takes several steps, and pages hold one
order. In `trading` the two notes have at most seven calls each, matched one maker
at a time; a client repeats its request once. In `service` windows, pages and
limits are one to three, so that they are met; the counters of `plan` bound
runs, stops, payments, presented vouchers, starts, requests and ticks, and
`inFlight` the messages of RootPN under way at once: up to three where
vouchers are presented again, else one or two. Three callers share the limiter.

Deadlock is checked for the ring and the capture run. The other instances really
stop once their bounded users have nothing left to do or a contract is destroyed.

### Fairness

- **Book:** `FairSpec` assumes only that a message the contract sent to itself is
  delivered in the end, which is what the chain provides. It is weak fairness of
  `SelfCall` with the enabling condition written out. Nothing is assumed of
  notes, pokes or the market.
- **Market:** `FairSpec` and `SeedSpec` assume that every message in a channel is
  delivered in the end and that a book told to close reports back and is gone in
  the end. Nothing is assumed of owners, oracles, tools or time. `RetrySpec`, used
  by `pm_grace`, adds, as weak fairness, that time goes on and that owners keep
  asking for their stake: without that, no refund could be expected at all.
- **Trading:** `FairApiSpec` assumes that the chain goes on delivering while there
  is something to deliver. Nothing is assumed of owners and clients.
- **Capture:** `FairSpec` assumes that the process is restarted, that its tasks
  keep running, and that some later pass is a retry pass: the retry timer makes
  the first pass after it expires one. Failures are bounded by `MaxFails`.
- **Indexer:** every task is a loop that goes on after an error, so projection,
  retry passes, capture and the steps of a sweep are weakly fair. A book is
  fetched again and again, and a retry pass comes to an orphan again and again, so
  these two are strongly fair. A book finishes what it has queued. The assumptions
  concern the scenarios marked `live`; in the others `EverythingProjected` claims
  nothing.
- **Services:** a tool that runs goes on, messages under way arrive, a client that
  walks a listing goes on, and the capture loop is started again by its
  supervisor. A configuration that stops the start is mended by the operator in
  the end (`Reload` is fair together with the loop); without that `CaptureGoesOn`
  could not be expected.

## Proofs

All theorems rest on the named assumptions of the modules: capacities and batch
limits are positive, the place limit is within the capacity, and for the ring
the identifier space is larger than the capacity plus one. For the book
prices, lot and denominators are positive, and fee and rebate are at most the whole.
For the market the percentages are at most `FULL_PERCENT`, and the outcomes are a
finite set. For the capture there are finitely many streams.

- `RingSafe`: `RingInv` is inductive as stated. It ties head, tail and size
  together and says which slots are occupied.
- `RingImplementsFifo`: a step of the ring is a step of `BoundedFifo` under the
  mapping that reads `size` slots from the head. `RingInv` is needed to know
  that the slot written is free and that all others keep their place.
- `IdsNeverShared`: `IdsInv` gives each entry the identifier it got, counted back
  from the next one around the cycle that skips 0; the queue is shorter than the
  cycle, so no two are equal.
- `TypeCorrect` and `NeverStuck`: the inductive invariant is `CtrlInv`, the
  type of the control state together with `NoStuckHead` and the shape of the
  queue. Neither is inductive alone: whether a pass sends the next self-call
  depends on the queue it leaves, and the drain's cursor is bounded only as
  long as nothing is queued beside it. The effect of an entry on the book stays
  opaque; the argument does not depend on how orders match.
- `DrainProgress`: from `CtrlInv`, a drain stays latched, hands out no
  identifier, and moves its cursor forward with every self-call.
- `BookStaysConsistent`: orders, levels with their totals, owner lists and the count
  agree and the book is not crossed. The inductive invariant is `CtrlInv` together
  with `BookInv`, which adds that the order a pass has begun to match is the newest,
  is at the head of the queue and is not yet in the book. The match loop is a
  recursive function; what it leaves is proved for every number of matches by a
  least counterexample: it stops only at its cap or with nothing left to trade
  with, so a remainder that rests does not cross.
- `CaptureSafe`: `CaptureInv` is inductive. It says what a page in memory, a cursor
  in memory, a stored cursor and a finished stream have captured. From it follow
  `RestartSkipsNothing`, that stored cursors cover the rows, and `BarrierSound`,
  that a barrier published at head has no uncaptured event below it and any other
  misses at most events of its own tick.
- `VerdictUnique`: no market is both resolved and cancelled. The inductive
  invariant `Good` adds to `OneVerdict` that the storage has the two fields of
  the verdict, since a record update is known to change a field only if the
  record has it. Every handler other than the three votes either keeps both
  fields, or destroys the account, or cancels after the grace period, which
  needs a market without result.
- `DivisionExact`: fee and reward buckets add up to the pool, in whatever way
  the divisions round.
- `DivisionEnough` and `ClaimInFull`: the buckets cover what the formulas give
  to all winners together, and a claim is paid in full and leaves them covering
  what is due to the others. Together they are what `PMP.sol:1440` says of the
  caps, "under correct arithmetic never triggers". The key lemma is that two
  shares rounded down are at most the share of their sum. They are about one
  claim at a time; that they chain over any number of claims is an induction
  over the claims, which is left to the reader, and `PoolsMatchStakes` checks
  it for whole markets.

Only model-checked: the lifecycle of orders, fills, collateral and priority of the
book, answers and acknowledgements; the money, counts, answers and closing of the
market; all of trading, of the indexer behind the capture, of the API, the tools
and the SDK; and liveness, which is out of the prover's reach. So is what a
recursive function over a log or a table computes for every input, on which most
facts of the indexer rest.

## Not modelled

- **Of the note:** the making of coupons, upgrades, the maps of inference orders,
  and staking and trading in one note. **Of RootPN:** write-off, fee collection and
  upgrades. **Of the oracle lists:** range events and their weekly median. **Of the
  market:** deployment again after settlement, and the real book in place of its
  life in `Market`; `TradingSystem` has the real book with a reduced market.
- In the market three branches are modelled and never taken, since the code
  elsewhere excludes them: a second approval by a confirmed list, an approval after
  cancellation, and the bounce of a list's message at a cancelled market.
- **Inference contracts:** only what the indexer sees of them. Escrow, probes and
  disputes would be models of their own, and so would `Multisig`, replay protection
  and the registries, which nothing here depends on.
- **Linked lists** of the book, which are sequences here.
- **Rust:** ABI and BOC encoding and the JSON of requests and responses, HTTP
  routing, OpenAPI, SQL text, logging, metrics and start-up wiring, the SDK's
  generated contract bindings and its bindings for other languages. They are input
  and output without state of their own. The zero-knowledge proof check and
  signatures are predicates; the proof generator is a step.
- **Time and storage:** clocks that go back, a database that loses a commit it has
  acknowledged, two indexers on one database.
