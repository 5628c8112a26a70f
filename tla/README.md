# A TLA+ verification of exchange-orderbook

This directory holds TLA+ models of the exchange in `src/`, the TLC
configurations that check them on small instances, and TLAPS proofs of the
results that matter most. `PROJECT.json` lists every component, run, mutant,
hazard, finding and theorem, and maps each definition to the source lines it
models.

To check a run: `tlc -config Matching.cfg Matching` (the pairs of module and
configuration are in the table of runs). To check the proofs: `tlapm
MatchingProofs.tla`, and likewise for the other modules named `*Proofs`.

## 1. The system

`exchange-orderbook` is a spot exchange: one process (`bin/exchange.rs`,
`lib.rs: start_fullstack`) that runs an axum webserver and one trading engine
task, on a PostgreSQL database, with a Bitcoin Core node reached over gRPC.

```
  clients ── HTTP ──> handlers (web/*.rs) ── AppCx ──┬── mpsc channel ──> engine task ── book in memory
                        │  10 s TimeoutLayer         │      (bounded)        │
                        │                            │   <── oneshot ────────┘
                        │                            └── PgPool ──> users, session_tokens, user_addresses,
                        │                                           accounts, account_tx_journal
                        └── gRPC ──> bitcoind                       trading_event_source <── engine task
```

### Inventory

| component | state | operations | what is hard | what makes it correct |
|---|---|---|---|---|
| Order book (`trading/orderbook.rs`) | per side a sorted vector of `PriceLevel`s, each a vector of orders and a `memo_seq` | `push_bid/ask`, `remove`, `get_mut`, `iter_rel` | binary search on a vector mutated by every call; a `u32` sequence per level; a level forgotten when it empties | the vectors stay sorted and implement a map from `OrderIndex` to orders; `iter_rel` is price-time priority |
| Matching (`trading/try_fill_order.rs`, `pending_fill.rs`, `mod.rs: do_place_order`) | a `PendingFill` computed from the book and applied to it later | scan makers, decide by time in force, commit, rest the remainder | the plan is applied to a book it has itself changed; asserts that would kill the engine task | no panic, book never crossed, quantity conserved, a refused order leaves no trace, the result is the declarative one |
| Trading engine and event log (`spawn_trading_engine.rs`) | book, `running` flag, bounded channel, table `trading_event_source` | place, cancel, suspend, resume, shutdown, replay at start | a command is executed before it is logged; crash at any await; replay through the same channel clients use | the book is the replay of the log, an answered command is in the log, every command is answered or its sender learns that it will not be, shutdown completes |
| Funds reservation (`app_cx.rs: reserve_by_asset, place_order`, `reserve_ok.rs`, `defer_guard.rs`, `web/trade_add_order.rs`) | `account_tx_journal`, the handler's `DeferGuard`, spawned revert tasks | read balance, insert, read again, send, wait, revert | no transaction; the timeout drops the future at any await; revert tasks run later | reverted at most once, a confirmed order is paid for, funds of a refused order come back |
| Deposits (`app_cx.rs: update_user_accounts`, `web/user_balance.rs`) | CHAIN.DEPOSIT rows of the journal | list the wallet, insert what is new | overlapping transactions ordered only by a unique index; a bounded listing | each output credited at most once, no lock cycle, and all that was listed or nothing |
| Users and sessions (`web/user_create.rs`, `session_*.rs`, `user_delete.rs`, `middleware/auth.rs`) | tables `users`, `session_tokens`; the clock | create, log in, log out, validate, delete | several statements without a transaction; a row read before it is used | sessions only for the right password, an email's account stays its creator's, a dead token stays dead |
| Addresses (`web/deposit_*_addr*.rs`, `withdraw_*_addr*.rs`, `html_home.rs`) | table `user_addresses`, labels in bitcoind's wallet | create, list, show, delete | check-then-insert; spellings of an asset; a DELETE that ignores the kind | every deposit address a page shows carries its user's label; a second or a lost one has a known cause |
| Process lifecycle (`lib.rs`, `signal.rs`, `bin/exchange.rs`) | process booting, serving, closing, stopping or down | start, replay, serve, stop | what a crash or a graceful exit takes with it: queued commands, guards, spawned tasks | in the models of the engine, of the funds, and in `Exchange` |
| Bitcoin Core client (`bitcoin/rpc.rs`) and `bitcoind-cli` | none between calls | the RPC methods, `handle_defaults`, `raw_hex` | optional arguments in every combination, one table of defaults per method; two requests that must fit together | what is sent is the argument list with its defaults; no panic, null or doubly encoded transaction but the known ones |
| gRPC proxy, routing, templates, configuration | none of their own | — | — | not modelled, see section 7 |

Handlers call `AppCx`, which talks to the engine through the channel and waits
on a oneshot; funds and orders are tied together only by the handler's guard.
The engine never sees balances, and the database never sees the book except as
logged commands.

## 2. Modules

| module | what it models | extends / instantiates |
|---|---|---|
| `Orders` | sides, types, time in force, order indexes, price condition, priority | — |
| `OrderIndexMap` | abstract specification of one book side: a map from (price, memo) to quantity | `Orders` |
| `PriceLevels` | `MultiplePriceLevels` and `PriceLevel` as vectors; refines `OrderIndexMap` | `Orders`, INSTANCE `OrderIndexMap` |
| `PlaceOrderFn` | what an order does to a book, as a function, without loops | `Orders` |
| `PlaceOrderSpec` | abstract specification of matching: one atomic step per order | `PlaceOrderFn` |
| `Matching` | `do_place_order`, one loop iteration per step; refines `PlaceOrderSpec` | `PlaceOrderFn`, INSTANCE `PlaceOrderSpec` |
| `TradingEngine` | supervisor, channel, event log, the life of the process, panic, crash and replay | `PlaceOrderFn` |
| `Funds` | `trade_add_order` and the reservation, with the engine and the process reduced to what a handler can see of them | — |
| `Exchange` | the handlers of `Funds` and the engine of `TradingEngine` in one process; refines `Funds` | `TradingEngine`, INSTANCE `Funds` |
| `Deposits`, `Sessions`, `Addresses` | the three remaining database-backed components | — |
| `RpcClient` | the methods of the Bitcoin Core client and the subcommands of `bitcoind-cli` | — |
| `PriceLevelsProofs`, `MatchingProofs`, `FundsProofs`, `DepositsProofs`, `SessionsProofs`, `AddressesProofs`, `RpcClientProofs` | TLAPS proofs, section 5 | the module they are named after |
| `ExchangeProofs` | TLAPS proofs of the engine and of the composition | `Exchange`, INSTANCE `MatchingProofs`, INSTANCE `FundsProofs` |
| `MC*` | the orders, requests and transactions of the checked instances | the module they are named after |

### How the models correspond to the code

*Order book.* `inner` is `MultiplePriceLevels::inner`. `binary_search_by_key` is
used by its contract on a sorted vector (that the vector is sorted is the
property). `push_order` keeps the width of `memo_seq`. Both build profiles are
modelled (`profile`): at the end of the range the dev build panics, and the
release build, which the `Dockerfile` ships and whose profile in `Cargo.toml` has
no overflow checks, wraps to 0. `wrapped` remembers the levels this has happened
to, and no guard reads it. `TinyVec` and `shrink_to_fit` change no element and are
left out.

*Matching.* `pc` says where `do_place_order` is: `scan` (the loop of
`try_fill_orders`), `tif` (the time-in-force table), `validate` and `commit`
(`PendingFill::commit`), and back to `idle` when it has answered. Every
`assert!`, `expect` and subtraction is kept; one that would fire leads to
`panic`. The book is the map that `PriceLevels` is shown to implement, bids and
asks together. `book0`, `memo_seq0` and `rems` are auxiliary: they remember the
book the last answer left and the taker's counter before each fill, and no guard
reads them.

*Trading engine.* The channel is a sequence of at most `Capacity` commands.
`RecvTrade` is the first half of `try_event_log!` (execute, start the INSERT),
`Inserted` and `InsertFailed` the second; a failed INSERT may have stored its
row, or may still be under way in the database (`late`) and land at any later
time, in any later life (`LateInsert`), or never. `RecvTradePanics` and
`RecvBootstrapPanics` are the overflow of a level's `memo_seq` in the dev build
(and the `expect` of `do_cancel_order`, which nothing reaches while `order_uuids`
is empty): the panic unwinds the task before the INSERT, so a command that panics
is not logged. A release build has no such panic; what it does instead is in
`PriceLevels`, and the other properties of the engine do not depend on it before
a level has been given 2^32 orders. `RequestShutdown` is the end of the `select!`,
`SendShutdown` the send that waits for room, `Exit` the return of
`start_fullstack` (or the `unwrap` in `init_from_db`) once the engine task has
ended; handlers go on until then. `Die` loses everything but the table and the
INSERT under way. `FetchRow` is the stream of `init_from_db`: the SELECT has no
`ORDER BY`, so it yields any row not yet seen; `Serve` is its end. `strayed` and
`everStrayed` remember, for this life and for all, that the log and the book have
parted: an INSERT was given up, a row given up earlier landed, or a row came out
of the order the rows were stored in. `lost`, `strayed` and `everStrayed` are
auxiliary. A logged command comes back from JSON as the
command it was: the two payloads of the untagged `TradeCmdPayload` have
different fields, so replay needs no conversion. Execution is `PlaceOrderFn`,
which `Matching` is shown to implement.

*Funds.* `pc[r]` is the await the handler of request `r` is at. `Timeout` is
the `TimeoutLayer`, or a client that disconnects, dropping the future there: a
statement under way goes on in the database, and after the send the guard's drop
spawns the revert. A statement nobody waits for any more (`lateReserve`,
`lateRevert`, an order that is `late`) lands at any later time, also in a later
life of the process, or never. The engine is
reduced to its answers: `Ok` for a live order, an error for a refused one,
`Database` for either, or a dropped oneshot. `ProcessDies` covers a crash and the
return of `start_fullstack`: the runtime goes with every handler, every spawned
revert, and the guards whose drop would spawn one; statements under way go on.
`Restart` begins the next life, whose engine may have panicked in the replay.
Migration 0007 makes `txid` mandatory and the reserve INSERT gives none, so on the
schema of this commit `ReserveFails` is the only outcome of that statement and no
order can be placed; `InsertReserve` is what follows where the statement is
accepted, and all results are about the two together.

*Exchange.* The two real models side by side: a handler's send is an append to
the engine's channel, its oneshot is the engine's `answers`. The INSTANCE of
`Funds` computes the engine view from the engine's state: the queue (`Pending`)
is the senders of the commands that are not yet answered, in the order they were
sent in, which are the command whose INSERT is awaited and those in the channel
(the proofs show that these are the same); an order is live if it was executed
with `Ok` and is in the log or in this life's book, and late if it was executed
in an earlier life and its INSERT may still land. `result` and `sender` are
auxiliary.

*Deposits.* One database transaction per balance request at READ COMMITTED: an
INSERT of a txid that another open transaction holds waits for it, then fails on
the unique index. `Listed` is `listtransactions` with the user's label and the
default count; `todo` holds the positions in the wallet a request has still to
look at, the least of which is next (`At`). A request that fails or is dropped
leaves its transaction open until the ROLLBACK, or the COMMIT that was already
sent, gets to the database (`pc` is "rollback" or "commit"). The BEGIN and the
three SELECTs are one step: only the last of them reads what requests write. A
user without a BTC account row (not in `Accounts`) gets no further than the
second SELECT, and has no step here; no code outside the tests creates such a row.
The only caller, `user_balance::f`, is rejected by axum before its body runs
(section 4), so the module says what `update_user_accounts` does for whoever calls
it, and no liveness is claimed of it.

*Users and sessions.* `pc[r]` is the await of each handler; `user_delete` and
`user_get` stand for every handler behind `validate_session_token`, `home` is
the page behind the redirecting variant, and `index` the front page, which asks
`try_validate_session` itself and takes a failed SELECT for "logged out". The SELECT of the session
row and the comparison with the clock are separate steps, so a logout or the
expiry may fall between them. A request creates at most one session, so its
random token is named by the request. One clock that never goes back stands for
`chrono::Utc::now()` and the database's `CURRENT_TIMESTAMP`; skew between the two
is outside the model.

*Addresses.* Requests keep the spelling of the asset ("btc", "BTC"), the table
stores what `Display` prints, and the lists are compared with the request's
spelling, as in the code. `shown` is what a page or list answered:
`fetch_user_details` keeps one deposit address per currency, the last row of an
unordered SELECT. `Interrupt` covers failing statements, the failing
call to bitcoind and the timeout, each with or without effect: a request counts as
in flight while its statement is.

*RPC client.* An argument is `given`, `null` or the `default` of its position; a
method is the command, its numbers of required and optional arguments and its
table of defaults. One iteration of the loop in `handle_defaults` is one step.
`raw_hex` counts how often a transaction is hex-encoded. `get_blockchain_info`
is two requests, between which the node may be replaced by another version.

Actions whose name ends in an underscore and a word (`InsertFailed_Retry`) are
mutated copies of the action that follows them. No specification uses them; they
are put in its place to see that the property concerned notices.

## 3. Runs

| run | module, configuration | expected | shows |
|---|---|---|---|
| `price_levels` | `PriceLevels` | pass | in both build profiles the vectors stay sorted and without empty levels, memos grow within a level until its `memo_seq` has wrapped, and until then `iter_rel` is price-time priority and the vectors implement `OrderIndexMap` |
| `matching` | `Matching` | pass | no panic, never crossed, refused orders leave no trace, quantity conserved, `PlaceOrderSpec` implemented; the inductive invariant of the proofs holds |
| `engine` | `MCTradingEngine`, `TradingEngine.cfg` | pass | answered commands are logged, once and in order; the book is the replay of the log in every life that has not parted from it in one of three named ways, and a boot panics only after such a parting; the book is never crossed; a sender waits exactly as long as a running engine has its command |
| `engine_progress` | `MCTradingEngine`, `TradingEngineProgress.cfg` | pass | every command is answered or dropped, shutdown completes unless the engine is suspended, even with a full channel or a panic meanwhile |
| `engine_resume` | `TradingEngineResume.cfg` | violation | a suspended engine ignores `Resume` |
| `engine_cancel` | `TradingEngineCancel.cfg` | violation | a cancel of a resting order is answered "not found" |
| `funds` | `MCFunds`, `Funds.cfg` | pass | reverted at most once, `Ok` means paid and live, the complete list of causes of unpaid orders, stranded funds and overdrafts, and refunds of refused orders, through the end and restart of the process |
| `deposits` | `MCDeposits`, `Deposits.cfg` | pass | each output credited at most once, no circle of waits among open transactions, an update commits all it listed or nothing |
| `addresses` | `MCAddresses`, `Addresses.cfg` | pass | every deposit address a page or list shows was generated for that user, and the causes of a second deposit address and of a lost one |
| `sessions` | `MCSessions`, `Sessions.cfg` | pass | sessions are authentic, accounts stay their creator's, deleted and expired tokens admit to no handler and no page again |
| `exchange` | `MCExchange`, `Exchange.cfg` | pass | handlers, channel, engine, both tables and restarts implement `Funds`; a logged order has its reservation after any crash; no handler hangs, even without the timeout |
| `rpc_client` | `RpcClient` | pass | `handle_defaults` sends what it should for every method and combination of arguments, and the causes of its panic, of a null or a doubly encoded transaction on the wire, and of an unreadable `getblockchaininfo` |

Several properties are *cause* properties: `UnfundedOrderCause`,
`StrandedFundsCause`, `OverdraftCause`, `SecondDepositCause`,
`DepositLostCause`, `BootPanicCause`, `MissingDefaultCause`,
`MalformedRequestCause`, `InfoUndecodableCause`. The unconditional statement is false of this code; the
property lists every way it fails, and TLC shows that the list is complete
within the bounds. They are the precise form of "this only happens if".

### Bounds

| bound | value | why it is enough |
|---|---|---|
| `MemoMax` (stands for `u32::MAX`) | 3 in `PriceLevels`, 2 in `Matching`, 1 in the engine | in `PriceLevels` small enough that a level reaches it, panics or wraps, and goes on with orders that were there before; in `Matching` the guard of `Receive` stops there, which leaves books of up to two orders a level; in the engine a second resting bid panics, unless a trade emptied the level between |
| `Prices`, `Quantities` | 3 prices, 1 quantity; 2 prices, 3 quantities; 1 price, 2 quantities | sorting needs an insertion between two levels; matching needs a maker that is eligible and one that is not, and fills that are smaller than, equal to and larger than the taker |
| `OrderCap` | 3 | three levels, or one with a removal at either end or in the middle |
| `MaxCmds`, `Capacity` | 3, 2 (liveness: 2, 2) | two orders that trade and a cancel or a third, or an order that is executed, lost from the log, and missing when the others are replayed; a channel that fills up. One control command in the channel at a time |
| in `Exchange` | a request each of 2 users, `MaxCmds` 2, `Capacity` 1 | a bid and a market order in either order, or two bids of which the second panics the engine; one order in the channel while another is executed, and a channel that is full; any number of crashes and restarts. A panic during the replay needs a third command and is left to run `engine` |
| `Requests` in `Funds` | 2, of 1 user | two requests of a user, one after the other or overlapping, with every statement of the first landing late; a second user is in `Exchange`, and the theorems have any number |
| `Amounts`, `Deposited`, `U64Size` | 1 or 2, 3, 100 | one order is covered, two may not be; the cast of a negative balance wraps far above every amount, as 2^64 does |
| `Window`, `MaxFailures` | 2, 1 | stands for the default count of 10: three outputs push the first one out; one failure per behaviour |
| `Outputs` | 3 transactions of 1, 2 and 3 outputs | two outputs to one user, outputs to several, and to a user without an account; 3 requests, so that waits could form a circle |
| `Requests` in `Addresses`, `Sessions` | 3, 4 | create, register and delete, or create twice and look; create, log in, log out and use. In `Sessions` requests are interchangeable and all properties are state predicates, so their permutations are used as a symmetry |
| `MaxAge`, `MaxTime` | 1, 2 | a session that expires while a request is under way |
| `RpcClient` | none | one call at a time, all methods and argument combinations: the client keeps no state between calls |

`CHECK_DEADLOCK FALSE` is used where a behaviour may end: the bounded requests of
`Addresses` and `Sessions` are used up, a call of `RpcClient` is over, the book of
`PriceLevels` has panicked. Everywhere else deadlock is checked; in `Deposits`
that is what PostgreSQL would have to break.

### Fairness

* `TradingEngine`: weak fairness of the supervisor's step (an INSERT completes
  or fails), of the boot stream, of the send of `Shutdown` and of
  `start_fullstack` returning. Tokio polls a task that is ready; nothing is
  assumed of clients or of crashes.
* `Exchange`: weak fairness of the engine's and of each handler's own steps, and
  strong fairness of a handler's send into the channel: room comes and goes
  while others send, but the semaphore behind a tokio channel serves waiting
  senders in the order they came. Nothing is assumed of the timeout, of
  shutdowns or of restarts.
* `Funds`: weak fairness of spawned revert tasks and of a handler whose answer
  has arrived. Nothing is assumed of the engine or of timeouts.

Everything else is checked without fairness.

## 4. Findings

Each violating run compares the code with a line of the repository that says
otherwise (quoted in `PROJECT.json`).

* **Resume is ignored** (`spawn_trading_engine.rs:67`). `if !running { continue }`
  comes before the match, so a suspended engine drops every command, `Resume`
  and `Shutdown` too. Nothing sends `Suspend` yet.
* **Cancels never find an order** (`trading/mod.rs:281`). `order_uuids` is read
  and never written.

Facts about the code met while modelling, which no run turns into a finding:

* the SELECT of `init_from_db` has no `ORDER BY id` (`spawn_trading_engine.rs:21`):
  when the rows come in another order, the book of that life is another one
  (an exception of `BookIsReplayOfLog`), and a boot can panic on a log that is
  complete (one of the causes in `BootPanicCause`);
* balance check and debit are separate statements (`app_cx.rs:460`), so two
  overlapping requests can overdraw an account, and the negative balance then
  passes every check because it is cast to `u64` (`OverdraftCause`). At this commit
  the reserve INSERT fails before it comes to that (migration 0007, below);
* the assert on the second balance read (`app_cx.rs:487`) is about a value that a
  revert task may raise; when it fires the reservation is stranded (one of the
  causes in `StrandedFundsCause`);
* in a dev build a command that was executed but not logged, or whose row landed
  late, can make the replay panic, at every boot from then on (`BootPanicCause`):
  the log then holds an order that the run could place only because of the missing
  one;
* a graceful shutdown drops spawned reverts and waiting guards with the runtime:
  their funds stay reserved. SIGINT is only awaited inside the `select!`, so a
  second one does not end a shutdown that waits for a suspended engine;
* `set_trading_engine_state` is never called: the state handlers check is always
  the initial one;
* `user_balance::f` takes two single-value `Path` extractors on a route with two
  parameters, which axum rejects; and no code outside the tests creates the BTC
  account row that `update_user_accounts` needs;
* `get_network_hash_ps(None, Some(_))` panics, `list_since_block`,
  `get_new_address` and `generate` send nulls, and `bitcoind-cli
  send-raw-transaction` hex-encodes its argument twice;
* the gRPC proxy's `list_transactions` unwraps the RPC result, so an error of the
  node panics the request's task;
* `Asset::from_str` accepts "etc" where the handlers accept "eth"
  (`asset.rs:43`); `config.rs` documents settings that the code reads under other
  names or not at all;
* the front page shows a client as logged out when the session SELECT fails;
* an emptied price level forgets its `memo_seq`, so an `OrderIndex` names a
  second order once the level is refilled (`orderbook.rs:180`); harmless as long
  as nobody keeps indexes. In the release build `memo_seq` wraps to memos that
  live orders may hold;
* migration 0007 makes `account_tx_journal.txid` mandatory, and neither the
  reserve nor the revert INSERT gives one: on that schema every reservation
  fails and the handler panics in `From<ReserveError>`;
* sell orders reserve BTC or ETH, for which the exchange has no account of the
  kind the INSERT selects; a buy reserves `quantity` USD whatever the price;
* `deposit_create_addr` and `withdraw_*_addr` compare the stored "BTC" with the
  request's spelling: for "btc" an existing address is never seen, a second one
  is created, and a withdrawal address cannot be deleted; `withdraw_list_addrs`
  lists the deposit addresses;
* `withdraw_delete_addr` deletes every row of the user with that text, a deposit
  address included;
* `deleted_at` is set and never read; a lost password verification task counts
  as a match (`app_cx.rs:295`); `user_create` without htmx opens a session
  nobody gets the token of;
* a transaction with two outputs to the wallet makes every later update of the
  users it pays roll back: nothing is credited then, rather than a part
  (`ListedIsCredited`); deposits beyond the default count of 10 are never listed;
* good-til-date orders never expire and self-trade protection is never read.

## 5. Proofs

Theorems hold for every value of the constants that satisfies the named
assumptions, on unbounded numbers of orders or requests. Every inductive
invariant below was first checked by TLC on the instance of the run; `IInv`,
the types included, still is an invariant of run `matching`.

**`PriceLevelsProofs`**, for any prices, quantities, `MemoMax` and numbers of
levels and orders, in either build profile: `LevelsStaySorted` (`LevelsSorted`), `MemosKeepGrowing`
(`MemosGrow`), `PriceLevelsImplementMap` (`ImplementsMap`) and `WalksInPriceTime`
(`IterRelIsPriceTime`).

`LevelsSorted` is inductive over the types; the lemmas `Replace`, `Add` and
`Drop` on the vector operations carry it. The refinement reads the vectors
as a relation (`Holds`) that does not mention positions, and shows for each call
what it adds to or takes from it. The last three speak of levels that have not
wrapped: a level that the release build has given 2^32 orders without its ever
being empty may hold a memo twice, and there they say only what still holds. The
walk is a recursive function over the levels; that
it is sorted and complete is shown by induction on the number of levels.

**`MatchingProofs`**, from `PricesAssumption`, `QuantitiesAssumption` and
`MemoMaxAssumption`:

* `MatchingInvariant`: `Spec => []IInv`;
* `MatchingTypeOK`, `BookNeverCrossed`, `MatchingNeverPanics` and
  `RefusedOrderLeavesBook`: what follows from it, the last one an action
  property;
* `QuantityIsConserved`: the action property `QuantityConserved`;
* `MatchingImplementsPlaceOrder`: the refinement `ImplementsPlaceOrder`;
* `CallsAreNeverStuck` and `CallsWindDown`: the model of a call has a next step
  until it answers, and only finitely many.

None of `NotCrossed`, `NoPanic` and `ErrLeavesBook` is inductive. The argument is
that a `PendingFill` always describes the book it is applied to. `FillsLive`:
the fills that are still to be applied name distinct live makers with the
quantities they were computed from. `FillsAddUp`: each fill starts from the
quantity its predecessor left and only the last may be partial. `RemInv`: the
counter of the scan, and later that of commit, agree with those quantities, so
no subtraction underflows and no assert fires. `OutcomeInv` ties
`taker_fill_outcome` to what is left. `Covered` is why the book is not crossed:
an eligible maker is still ahead of the iterator, or has a complete fill still
to be applied, or the taker is filled without it, so a remainder that rests
finds no eligible maker left. `MemoInv` keeps a new index apart from the live
ones, and `BookInv` says that the book is untouched until commit starts. Each
action has a lemma of its own.

`QInv` adds that what commit has taken from the maker side is what its counter has
lost; `SideMoves` says how a total moves with one order.

`RInv` is what the refinement needs on top. `PriorityInv`: the fills are the
eligible makers in price-time order, fill `i` has exactly the makers of the fills
before it ahead of it, and their total is what the taker had lost by then.
`ScanInv`: an eligible maker without a fill comes after all the fills, and is
still ahead of the iterator unless the taker is filled. `AppliedInv`: the book is
the one the order found minus the fills applied so far. `LevelsInv`: a level
without orders has no `memo_seq`. `Accepted`: past the table, the outcome is one
it accepts. From these `Filled`, `Outcome` and `Traded` of `PlaceOrderFn` are what
the loops computed (`ScanFinds`, `CommitTrades`), so `EnforceTimeInForce` and
`Settle` answer as `Place`, `Receive` is `TakeReply` and every other step is a
stutter. `SameFunction` shows that the function inside the instance is the one of
this module.

`CallsAreNeverStuck` says that a guard of `Step` holds whenever a call is under
way (`CanStep`); it needs that a finite set of orders of one side has a first
(`FirstExists`), by induction on the set. `CallsWindDown` says that every step
makes `Work` smaller, twice the makers still to be scanned plus the fills still
to be committed and the steps between: `Work` is a natural number, so a call
ends.

`PlaceKeepsSound` is about the function, not the loops: on any finite book
without a crossing, `do_place_order` leaves none. An order with a remainder has
found less than its quantity, so by additivity of the totals it has taken all
of every order it may trade with (`UnfilledTakesAll`). The engine's proof uses
it.

**`FundsProofs`**, from no assumption on the schedule:

* `RevertsOnce`, `ConfirmedOrderIsFunded`, `UnfundedOrdersExplained` and
  `StrandedFundsExplained`: `RevertedAtMostOnce`, `OkIsFunded`,
  `UnfundedOrderCause` and `StrandedFundsCause`;
* for any finite set of requests, `OverdraftsExplained` (`OverdraftCause`).

`FInv` says for each await of a handler which of its effects exist (`Handler`):
before the INSERT nothing, until the send a reservation and no guard, while
waiting a reservation and a guard, and afterwards at most one revert, pending or
done, with the reason for it or for its absence; the end of the process takes
every handler to that last case at once. `Channel` says that the queue holds
exactly the queued orders, each once, so the engine never changes an order that
was already answered. For overdrafts `BInv` adds that the balance of a user whose
requests come one at a time is not negative and covers the INSERT that is under
way: the balance a handler has read may be stale, but only in the harmless
direction. The balance is a sum over a set; that it moves by what one request
owes, and never exceeds the deposit (so that the cast to `u64` keeps it), is
shown by induction on the set, which is why the requests are finite here. A
reserve INSERT that may still land counts as an overlap with the user's next
request; a revert that may still land only raises the balance.

**`ExchangeProofs`** has two parts. The engine alone (`TradingEngine`), for any
menu of orders, capacity and number of commands:

* `LogIsInOrder` (`LogFollowsChannel`) and `ResultsAreLogged`
  (`AnsweredIsLogged`);
* `BookIsReplayed` (`BookIsReplayOfLog`) and `BootPanicsExplained`
  (`BootPanicCause`);
* `NobodyWaitsInVain` (`WaitsWhileInHand`) and `EngineNeverCrosses`
  (`NeverCrossed`).

None assumes anything of the order in which the SELECT yields the rows, or of when
the INSERT of an engine that is gone lands.

The order of the log is inductive only together with that of the command at its
INSERT, of the channel and of the rows that may still land (`InOrder`). For the book, `BookInv` says how far this
life of the process has replayed the log (`Behind`) and that the log itself
replays without a panic unless some life has parted from it (`Story`). Replay is a recursive
function: what it gives on a longer log, and from the middle of one, is shown by
induction. What an order does to the book is not opened there: the replay is
right whatever execution computes, as long as it is a function of book and
command. `Hands` is `WaitsWhileInHand` with what makes it inductive: an engine
that is gone holds nothing, and results are answers; a command leaves the
engine's hands only together with its oneshot because commands have different
numbers (`InOrder`). `SoundAssets` says that a book is finite, uncrossed and within
its memos; the lemma `PlaceKeepsSound` is taken from an INSTANCE of
`MatchingProofs` that reads the engine's book as the one of `Matching` between
two orders.

The order path (`Exchange`), for any number of clients and orders, crashes,
restarts and failures:

* `LoggedOrdersAreReserved`: `LoggedOrderIsReserved`;
* `ExchangeImplementsFunds`: the refinement `ImplementsFunds`, step by step;
* `ExchangeKeepsFunds` and `ExchangeOverdraftsExplained`: the results of
  `FundsProofs`, which therefore hold of the composition;
* `ExchangeKeepsEngine`: every behaviour of the composition is one of the engine,
  so the results of the first part hold of it too.

`EInv` says which command belongs to which request (`Tagged`), what exists of a
request at each await (`Clients`), that commands are answered in the order they
were sent in and the others sit at the INSERT or in the channel (`Waits`), and
what the engine remembers of those it executed (`Executed`). The invariants of
the engine are inherited: every step of the composition is a step of the engine
or leaves it alone (`EngineNext`).

**`DepositsProofs`**, for any number of requests, outputs and failures and any
window: `NoDepositCreditedTwice` (`CreditedAtMostOnce`), `InsertsDoNotDeadlock`
(`NoLockCycle`) and `UpdatesLeaveNothingOut` (`ListedIsCredited`). `DInv` adds what open transactions hold:
rows of different txids (`Apart`), from outputs older than those still to be
looked at (`Ahead`), in a wallet where the outputs of a transaction are
neighbours (`Blocks`). For `ListedIsCredited`, `LInv` adds that a credited output
is `Alone`: every other output of its transaction to its user has dropped out of
the list for good (`Gone`), since an update that lists two of them runs into the
unique index and rolls back. So what a request skips because it has read the txid
is the very output that was credited.

**`SessionsProofs`**, for any emails, passwords, `max_age` and clock:
`SessionsAreAuthentic`, `AccountsAreCreators` and `RefutedTokensStayOut`. `SInv`
says what a handler between two statements still knows: the password it read is
the account's (`Login`), an account has one creator before it is told so
(`Creators`), the row it validates is the session's while there is one
(`Checks`), a refuted token is never good again (`Bad`).

**`AddressesProofs`**, for any requests and address texts:
`ShownAddressesAreCredited`, `SecondDepositsExplained` and
`LostDepositsExplained`. `AInv` says where the text of every row comes from
(`Sound`), what a handler between its list and its write knows (`Asked`,
`Alone`) and that overlapping requests are on record (`Overlap`).

**`RpcClientProofs`**: `DefaultsAreInPlace`, `MissingDefaultsExplained`,
`MalformedRequestsExplained` and `UndecodableInfoExplained`
(`SentIsWithDefaults`, `MissingDefaultCause`, `MalformedRequestCause`,
`InfoUndecodableCause`). The module has no constants and TLC visits all of its
states; what the proof adds is why. `Scanned` is the invariant of one iteration of
the loop in `handle_defaults`, and the lemmas `ScanStarts` to `ScanEnds` show that
the loop is right for any table of defaults and any argument list that is not
shorter (`IsCall`). Only then the tables of the client come in: which leave a
place without a default in front of another (`Gapless`) and which leave optional
arguments uncovered (`Covered`); those are the named causes. A method added to the
client needs only these two looked at.

**Induction.** The library's induction theorems take an operator as a parameter,
which none of the provers can instantiate. `NatInd` states induction over the
natural numbers for a set instead of a predicate and is proved from the
well-foundedness of `<`; `SubsetInd` is the same for the subsets of a finite set.
They are repeated where they are needed.

**Only model-checked.** The liveness properties, because fairness and ENABLED are
beyond the prover: `Answered`, `ShutdownCompletes`, `RequestsEnd` and
`FailedOrderIsRefunded`. Of the safety properties that passing runs check every one
is stated by a theorem.

## 6. Plan

Done: the order book, matching, the engine with the life of the process, funds,
their composition, deposits, addresses, sessions, the RPC client; proofs of every
safety property of all of these. What is left:

1. `Exchange` with a third request, which would let a panic in the replay meet the
   handlers (beyond five minutes of TLC today; the
   theorems cover it).
2. If user deletion comes to end sessions, the property that it does (see the
   hazard at `user_delete.rs:41`).

## 7. Not modelled

* `bitcoin/mod.rs`, `bitcoin/client.rs`: a gRPC proxy that forwards two calls
  without state; the calls the exchange makes are part of `Deposits` and
  `Addresses`. Of `bitcoin/rpc.rs` the types of the replies and the formatting of
  addresses.
* Routing, msgpack, templates, static files: no state. Which check stands in
  front of which handler is part of `Sessions`, the timeout layer of `Funds`,
  `Deposits`, `Addresses` and `Sessions`.
* Configuration, password strings, asset lists: parsing without state; the
  spellings of an asset are part of `Addresses`.
* `bin/bitcoind-grpc.rs`: a wrapper that starts the proxy.
* Stubs: `trade_edit_order`, `user_edit`, `deposit_status`, `withdraw_status`,
  `withdraw_transfer`, `create_api_key` are unimplemented or not routed.
* Amounts of deposits and confirmations of chain transactions: the code never
  reads confirmations, and amounts decide nothing.
