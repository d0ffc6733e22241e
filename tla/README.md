# A TLA+ model of the Signet SDK

This directory holds TLA+ modules for the parts of the Signet SDK that keep
state, the TLC configurations that check them on small instances, and proofs
for TLAPS of the properties that matter most. Paths are relative to the root of
the repository.

Signet is a rollup whose blocks are derived from host (Ethereum) blocks. Orders
and fills make up its market: a transaction that emits an `Order` may only be
accepted if the outputs it asks for have been filled, on the host or on the
rollup. A *builder* simulates transactions and bundles from a cache and picks
the best one, round after round; a *node* extracts the host's events, executes
the resulting rollup block, and keeps a journal of state changes that it can
unwind.

## 1. Inventory

### Components with state

| Component | Code | State | Operations |
|---|---|---|---|
| Market accounting | `crates/types/src/agg` | `AggregateFills`: amount per asset and recipient; `AggregateOrders`: outputs and inputs | `absorb`, `add_fill`, `check_ru_tx_events`, `unchecked_remove_aggregate`, `checked_remove_ru_tx_events` |
| Block driver | `crates/evm/src/driver.rs`, `sys/` | working context, transactions, receipts, payable gas, minter nonce, passage balance | `run_txns`: transactions, mints, `Transact` events, clearing the passage, crediting the base fee |
| Order detector | `crates/evm/src/orders` | two framed logs: events and the boundaries of open frames | hooks `log`, `call`, `call_end`, `create`, `create_end`, `selfdestruct`; `take_aggregates` |
| Simulation cache | `crates/sim/src/cache` | items by rank, seen identifiers, an LRU of disallowed identifiers | `add_*`, `remove`, `remove_and_disallow`, `clean`, `clear`, `read_best_valid` |
| Block builder | `crates/sim/src/task.rs`, `env/` | the block, gas used, committed state, running simulations, the best outcome | `run_build`, `round`, `sim_round` (async and blocking), the simulation threads |
| Journal set | `crates/journal/src/set.rs` | a deque of journals, latest height and hash | `try_append`, `append_overwrite`, `unwind_to`, `pop_front`, `pop_back`, lookups |
| Bundle driver | `crates/bundle/src/send` | bundle fills and orders, gas, host EVM | `run_bundle` |
| Call bundle | `crates/bundle/src/call` | response, the EVM's detector | `run_bundle`, `accept_and_accumulate` |
| Extraction | `crates/extract` | outputs of one host block: events and fills | `extract_blocks`, `extract_log`, `ingest_event`, `extract_signet` |
| System transactions | `crates/evm/src/sys`, `crates/types/src/magic_sig.rs` | none: one per extracted event | mints, Transacts, `adjust_decimals`, magic signatures |
| Rollup chain | `crates/evm/src/driver.rs`, `crates/types/src/primitives` | blocks, headers, receipts | `finish`, `finish_trevm`, V1 and V2 headers, recovery of senders |
| Block data | `crates/sim/src/built.rs`, `crates/zenith/src/block.rs` | transactions, a memoised encoding, its hash | ingest, seal, encode, decode, edit, copy |
| Preflight check | `crates/sim/src/cache/item.rs`, `validity.rs`, `env/shared.rs` | nonces read so far, the verdict so far | `check`, `check_bundle_tx_list`, `CachedAsyncSource` |
| Order flow | `crates/orders`, `crates/types/src/signing`, `crates/tx-cache` | a filler's orders, signed fills, submitted bundles; a cursor | `sign_order`, `stream_orders`, `sign_fills`, `fill`, `submit_fills` |

Without behaviour over time: the tables of `crates/constants`
(`SystemConstants` has them), the activation of hardforks (`Headers`), sequencer
messages, generated bindings, precompiles. `crates/test-utils` holds fixtures;
its specifications of host blocks and notifications are modelled as the source of
the host chain.

### How they interact

* The EVM calls the order detector's hooks while a transaction runs. The block
  driver, the bundle driver and the simulator take the detected aggregates when
  it has ended, and ask the market whether the orders are covered.
* A call bundle runs the same transactions as the bundle driver on an EVM with an
  order detector, and reports what the market would have to bring for them.
* Users sign orders and send them to the transaction cache; fillers stream them
  from there, sign fills, and submit bundles for the next blocks to it; the
  builder's feeds read them.
* Extraction fills the block driver's working context with the host's fills and
  hands it the `Enter`, `EnterToken` and `Transact` events.
* Feeds write the simulation cache through clones of one lock. `sim_round`
  copies it, awaits a validity check of each item, removes what can never be
  valid, and hands the rest to a blocking task whose threads simulate one item
  each (a bundle through the bundle driver) and remove those that fail. The best
  outcome is published through a watch channel, and its item is taken from the
  cache *by rank*.
* The node appends a journal per block to the journal set, overwrites from a
  height on when the host reorganises, and drains it at the front.

### What is hard, and what makes each component correct

* **Market and block driver.** Every transaction runs before its orders are
  judged; whatever is then discarded must leave nothing behind, in the context,
  the detector, the receipts, or the balances. *Correct if* accepted orders never
  exceed the fills of the host and of accepted transactions; every transaction
  has a receipt with the right cumulative gas; base fees are neither created nor
  lost; minter nonces are never repeated.
* **Order detector.** Two logs must follow one call tree in which frames revert
  at any depth. *Correct if* the events taken are exactly those of the frames
  that survived.
* **Simulation cache.** Three structures are updated by seven operations, and
  ranks are reused while a reader awaits. *Correct if* entries are distinct, are
  known as seen, never carry a disallowed identifier, stay within capacity, and
  no item is disallowed by a verdict on another.
* **Block builder.** Threads, a channel, a blocking task that cannot be
  cancelled, a deadline that drops a round at any await, and feeds that write
  meanwhile. *Correct if* the block holds what was simulated, no item twice,
  within the gas limit, the best candidate of each round, and a round always ends.
* **Journal set.** *Correct if* the journals form one chain whose handed-out
  prefix never changes and every height is found where it is.
* **Bundle driver.** *Correct if* what a bundle's simulation accepts, the block
  driver accepts in the same order.
* **Call bundle.** A response is collected over several transactions on an EVM
  that is used again. *Correct if* it speaks of this bundle only, promises no
  more than its results, and foretells what the bundle driver decides.
* **Extraction.** Notifications bring pieces of a chain, some to be undone.
  *Correct if* every fill and event of the host chain reaches the driver once, at
  the right rollup height, and events of other rollups never do.
* **System transactions, rollup chain.** *Correct if* each is traced back to the
  one log it is for, a deposit keeps its worth, the blocks are linked whatever
  the host reorganises, and a reader recovers the senders they ran with.
* **Block data.** Encoding and hash are memoised apart while transactions are
  edited, copied, and read from data that anyone may have written. *Correct if*
  what is published decodes to what was built, under the hash in the header.
* **Preflight check.** Accounts are read one by one while both chains move.
  *Correct if* what is found never valid is so for good.
* **Order flow.** *Correct if* a stream without an error misses no order, a
  bundle fills what its orders ask, and no failure, repetition or race makes a
  filler pay twice or for nothing.

`PROJECT.json` lists every hazard at its line with the properties that cover it.

## 2. Plan

| Step | Modules | State |
|---|---|---|
| 1 | `Market`, `SignetDriver`, proofs of every property | done |
| 2 | `CallTree` (abstract), `OrderDetector`, proofs with the refinement | done |
| 3 | `SimCache`; `SimRound` composed over it; proofs of all but liveness | done |
| 4 | `JournalChain` (abstract), `JournalSet`, proofs with the refinement | done |
| 5 | `SendBundle` over `Market`, from simulation to settlement; `CallBundle` over it; proofs | done |
| 6 | `SystemConstants`, `Extraction`, `SystemTxs`, `HostFeed`: host events from the host's blocks to system transactions; proofs | done |
| 7 | `Headers`, `RollupChain` over `HostFeed`: the blocks and their journals; proofs | done |
| 8 | `OrderFlow` over `Market`: orders, streams, fills, submissions; proofs | done |
| 9 | `ZenithBlock`, `Preflight`, proofs | done |

Every safety and action property that a run checks is proved, but for the type
invariants that join several modules (section 5); liveness stays with TLC. What the
plan leaves open is outside of the models: the parts under section 6.

## 3. Modules

Definitions keep the source's names, in camel case. Each module opens with the
code it stands for and what it leaves out. Operators introduced by "Mutant of"
are wrong on purpose: each stands for a plausible bug in the definition that
follows it, and no specification uses them.

**`Market`** — the aggregates as partial functions from slots (asset and
recipient) to amounts up to `MaxAmount`. The difference between an entry of zero
and no entry is kept, and so are saturation and the fact that
`unchecked_remove_aggregate` deducts entry after entry and may fail half-way in
an order that depends on a `HashMap`. `CheckedRemove` returns the *set* of
results the code may produce.

**`SignetDriver`** — one rollup block. `phase` follows `run_txns`; `extracts`
says how many items of each sort the block holds, `at` how many are taken.
`ExecuteTransaction`, `MintEnter`, `MintEnterToken`, `MintNative` and
`ExecuteTransact` are one item each; every way in which the code accepts, rejects
or drops an item is a disjunct. `CheckFillsAndAccept` is the function of that
name, with the pushes of `accept_tx`. `DatabaseError` aborts at any point. The
history variables `funded`, `settled`, `feesTaken` and `feesCredited` are what
the properties compare.

**`CallTree`** is the abstract promise of an inspector: a stack of segments, one per
open frame, merged into the caller on return and dropped on revert, with the result
of the last frame to end, so that an implementation cannot mix the two up.
**`OrderDetector`** is `OrderDetector` with `Framed`: `orders` and `filleds` are
records of events and boundaries, `depth` and `result` are the EVM's. `Segments`
cuts the events at the boundaries: the refinement mapping, once for orders and once
for fills. `DetectorSpec` has the transactions in which no contract destroys itself,
`FullDetectorSpec` all.

**`SimCache`** — `items`, `seen` and `disallowed` are the fields of `CacheStore`.
A feed takes the write lock (`BeginAdd`), adds items one by one and releases it;
all other writers wait for it. `read_best_valid` is `BeginRead` (the copy),
`CheckEntry` (one awaited check, best rank first), `ReadError` and `EndRead` (the
removal by copied ranks). What the LRU forgets is left open.

**`SimRound`** extends `SimCache` with the builder: `stage` is where `run_build`
is; `tasks` holds the blocking tasks, with the threads still running, the
outcomes still in the channel and the best one published. `ThreadEnds` is a
simulation's end together with the removal of a failed item, `Receive` the loop
over the channel, `RoundDone`, `RoundTimeout` and `Accept` the rest of
`sim_round` after its select, `Deadline` the biased select of `run_build`, after
which a task goes on by itself. When the deadline wins the select of `sim_round`
instead, `After` ends the build with that round: `run_build` begins none past the
deadline. An item that was applied is not found valid by the preflight check,
because the committed cache overlays the state source.

**`JournalChain`** is the abstract promise: one chain, a prefix of it handed out
and fixed, the rest replaceable by what links. **`JournalSet`** is `JournalSet`;
an `Option` is a set of at most one value; heights are numbers below `Width`.
`popped` records what was handed out at the front, so that
`chain <- popped \o journals` is the refinement mapping.

**`SendBundle`** — one block from simulation to settlement. `BeginBundle`,
`RunHostTx`, `RunRollupTx` and `EndBundle` are `run_bundle` and the end of
`simulate_bundle`, `SimulateTx` is `simulate_tx`, `Drop` every way in which an
item is not accepted. `Accept` is what `sim_round` and `ingest` do with the best
outcome: all the item's transactions enter the block, with the `verdict` that the
simulation had on each. `Submit` starts the block driver with all the fills of the
host transactions, `Settle` is `check_fills_and_accept` on one transaction. The
EVM's part in an outcome is the same in both executions.

**`CallBundle`** extends `SendBundle`: bundles are called on one EVM, one after
another (`BeginCall`, `CallTx` for `run_tx` with `accept_and_accumulate`,
`EndCall`, `CallFails`), and the bundle that was called may then be sent through
the actions of `SendBundle`, with the same outcomes in the EVM.

**`Lists`** — what the models of iterators share: the elements of a list at some
places (`Kept`), as a flattening, which can be reasoned about for any length.

**`SystemConstants`** — tokens, USD records, addresses and heights as operators
on the tables of `crates/constants`; the five named chains are data of it.
**`Extraction`** — the filters of `extract_log`, the deployment height, and the
dispatch of `ingest_event` into an `Extracts` record, as operators on host
chains. **`SystemTxs`** — from extracted event to system transaction, log and
signature: decimals, minter nonces, aliasing, and the fields of `s` that a magic
signature is written to and read from. **`HostFeed`** — the state machine over
the three: a host block is put together log by log, committed with others in a
notification that may revert blocks (`NotificationSpec`), and a follower extracts
what is notified. The follower stands for the node, which is outside of the repository.

**`Headers`** — V1 and V2 headers as the base header with what each may and may not
hold, the genesis header, and the activation of hardforks by height and time.
**`RollupChain`** extends `HostFeed`: `ExecuteOn` gives each extract a header on
its parent, transactions, receipts and a journal; a reverted host block takes its
own with it.

**`ZenithBlock`** — the builder's block and a reader's block, each with
transactions and two Options, the memoised encoding and hash: which operation
fills which and which clears both.

**`Preflight`** — an offered item with its requirements; `CheckRequirement` is
one awaited read of an account with the decision that follows it, `ChainMoves`
what may happen in between, `CommitItem` the overlay that a build puts over the
chain, `NextBuild` its end.

**`OrderFlow`** — users' orders, the cache (external), fillers with their
stream, their signed fills and submissions, and the contracts (external: Permit2
nonces, deadlines, the market's check). `StoreBundle`, `SubmittedFills` and
`SubmissionFails` are the requests of `try_join_all` one by one: any of those not
answered for may have arrived.

The `MC*` modules hold the instances. Four of them hold several, which share
constants but no state: a variable `part`, chosen in the initial state, says which
one of them moves, so that one run checks each of them alone.

The proofs are in `MarketProofs`, `SignetDriverProofs`, `OrderDetectorProofs`,
`SimProofs` (cache, round, preflight), `SendBundleProofs` (bundles and calls),
`ChainProofs` (journals, block data, host feed, rollup), `OrderFlowProofs`, and
`ListProofs`, which has what the last two need of lists.

## 4. Runs

| Run | Question | Bounds |
|---|---|---|
| `driver_market` | Do accepted orders stay covered, and does a discarded item leave no trace? Does the detector that the transactions run with implement the call tree, for orders and for fills? | up to two items of each sort; a host and a rollup asset, one recipient, amounts to 3, seven kinds of transaction; every output positive; call trees of depth 3 with 4 logs |
| `driver_accounting` | Do gas, receipts, nonces and fees come out right on every path? | the same with two gas amounts and unpayable unused gas |
| `driver_zero_output` | Are orders covered when an output has amount zero? **Violated** | the same items, with zero outputs |
| `detector_selfdestruct` | Does `is_complete` mean that all frames were exited? **Violated** | call trees of depth 3 with 4 logs, with self-destructs |
| `cache` | Do the cache's structures agree, and are verdicts only applied to items that were judged or came in during the read? And is a verdict right, although accounts are read one after another while chains and build move? | two versions of a bundle, two transactions, ranks 0..2, capacity 2, LRU of 1; eight offers of up to two transactions on either chain, two signers, nonces to 1, two balances, two verdicts kept in mind, fees that wrap at 4 |
| `round` | Is the best candidate included, once, as simulated, within the gas? | two rounds of two threads, three items, two gas amounts, three scores; feeds between rounds; the deadline at any time, in `run_build` or in `sim_round` |
| `round_late` | Are all simulations dropped when `sim_round` applies what it took out of the cache? **Violated** | the same, one round |
| `round_stale_rank` | Is what is included what was simulated, when feeds write during a round? **Violated** | the same, feeds at any time, the deadline in `run_build` only |
| `round_liveness` | Does every round end while feeds keep writing? | one round, feeds at any time, sim_round's own deadline possible but never forced |
| `bundle` | Does the builder account exactly for what it accepts, and does the node come to its verdicts? Does a call foretell them? Does the order flow stream everything, and pay once? | items of up to two transactions and one host transaction, taken up until the block holds three transactions; a host and a rollup asset, five kinds of transaction, every order positive, fills that never saturate; calls on a block of at most one transaction, a coinbase of at most 3; three orders, two fillers, fills for two blocks, pages of one, heights 0 and 1 |
| `bundle_dropped` | Are only marked transactions of a bundle dropped by the market? **Violated** | the same |
| `chain` | Does the journal set implement one chain, and find every journal? Does extraction follow the host chain through reverts, do system transactions trace back, keep their worth, and make one linked rollup? Does block data read back? | thirteen journals of branching chains over five heights, two of them at height zero, one that skips a height and one without a parent; heights below 8; mainnet and a genesis with USDs of 6, 18 and 20 decimals, host chains of three blocks with two logs each, five tokens, two senders; blocks of two transactions, data that is no list and a list with junk |

*Why the bounds are enough.* Two items of a sort are what it takes for one to see
what another left. The amounts let two fills saturate (at 3) and let one order take
part of a fill. In a block of three transactions a later bundle follows one that
dropped a transaction. Depth three has a frame whose caller has a caller; four logs
put two events in one frame and one on each side of it. A cache of two with four
items evicts; an LRU of one forgets. Two rounds let a task or an item of the first
meet the second. Five heights let an overwrite cut two journals off and the set be
drained and refilled. Three host blocks are the one of the deployment, one that may
stay and one that may be replaced; two logs share a transaction or do not. Two edits
and a copy between two encodings are what a stale memo takes, and a block of two
transactions loses one and keeps one. Two nonces read at different times, with one
step of a chain or of the build between, make a verdict of states that never were.
Fills that never saturate are fills of one unit under a `MaxAmount` of 13, by the
same assumption that the theorems about bundles make; TLC evaluates it.
Two target blocks let one bundle make the other worthless; the second page lets an
order come or go between pages; two fillers race; one fixed nonce is used for two
fills. Two calls follow each other on an EVM, in a coinbase that is paid and pays.

*Deadlock* is not checked: a block, a build or a set that has reached its bound stops.

*Fairness* is used in `round_liveness` only. Weak fairness: a feed that holds the
lock gives it back (`add_txs` is a loop over a finite iterator without awaits), the
blocking task receives what was sent. Strong fairness, since the lock is
taken again and again in between: a check ends (the runtime polls it, state
sources answer or fail), a read's removal, a thread's removal and the builder's
`remove` get the lock (`parking_lot` hands it over fairly after a time), and a
thread ends (simulations carry a `TimeLimit`). No fairness is assumed of feeds,
of cleaning, of the deadlines, or of a simulation's success.

Every property of a passing run has a mutant in `PROJECT.json`: a definition
replaced by the wrong one before it, under which TLC finds the property violated.

### Where code and documentation disagree

Five are shown by runs, which are expected to be violated:

1. `driver_zero_output`: `checked_remove_ru_tx_events` is not atomic. A
   zero-amount output in a slot without an entry passes the balance check (absent
   reads as zero) but fails the removal (absent is an error), after the
   transaction's fills were absorbed; the transaction is discarded and its fills
   pay for a later order (`agg/fill.rs:279-292`, documented as not mutating).
2. `detector_selfdestruct`: `selfdestruct` exits a frame that `call_end` exits
   again (`inspector.rs:209`): the caller's boundary is lost, or a hook unwraps `None`.
3. `round_late`: when the deadline wins the select of `sim_round` (`env/shared.rs:195`),
   its blocking task cannot be cancelled and still holds the environment. With a
   candidate published, the item is taken out of the cache and `Arc::get_mut` fails:
   "sims dropped already" (`env/shared.rs:221`) panics, where the comment says that all
   simulations are done. `run_build` polls the same deadline first, so under it the
   deadline must pass between the two polls; who calls the public `sim_round` directly
   needs no such race.
4. `round_stale_rank`: the included item is whatever sits at the best outcome's
   rank after the round (`env/shared.rs:218`), not necessarily the one simulated.
5. `bundle_dropped`: `ingest_bundle` (`sim/src/built.rs:130`) puts a bundle's rejected
   transactions in the block too. The block driver judges them against all the
   fills of the host block: one may be accepted there with a fill that a
   later bundle brought, and an unmarked transaction of that bundle is dropped.
   `BuilderAndNodeAgree` is what holds of blocks without such transactions.

Met while modelling, without a run of their own:

* `env/shared.rs:231`: the expectation "checked during simulation" fails for a
  zero-amount output without an entry, as in 1.; `bundle` has positive orders.
* `driver.rs:444` speaks of a failure receipt for a transaction that the market
  discards; none is pushed.
* `cache/store.rs:138`: an item that takes a copied rank while checks are awaited is
  removed and disallowed without having been judged. `DisallowedWasJudgedOrNew` is
  what holds instead.
* `cache/store.rs:274`: the search for a free rank stops at zero, where it
  overwrites the earlier item; that one stays in `seen` and is refused until
  `clear`.
* `journal/set.rs:279`: the height below a journal of height zero. A build with
  overflow checks panics, although the comment says the case is handled; a release
  build wraps around, which the model shows to be harmless.
* `sim/src/cache/validity.rs:10` calls a `Never` item always invalid. With the
  overlay of `env/shared.rs:31` it may only be invalid in the block being built,
  which may never be included; the item is disallowed all the same.
* `zenith/src/block.rs:61`: a copy through serde of a block that was read from data
  with junk in it has a hash that is not of its encoding. `header_mut` leaves the
  memo as it is, which is right: the encoding is of the transactions only. Equality
  compares only hashes when both are memoised, whatever the headers. Transactions
  with blobs are encoded and dropped when read.
* `types/src/magic_sig.rs:184` reads the transaction id in the other byte order than
  it is written in. `SystemTxsTraceBack` therefore looks logs up by `r`.
* `evm/src/outcome.rs:76`: for a number below the first block, `receipts_by_block`
  subtracts below zero and panics in a build with overflow checks, where its doc promises
  an empty slice. `RevertsUndo` shows that the numbers of the blocks held never do.
* `extract/src/step.rs:41` speaks of the index in the block; it is the one in the
  receipt, and `magic_sig.rs` needs that one.
* `driver.rs:414`: the experimental header with roots cannot be made of an empty
  block: `SignetHeaderV2` refuses the empty root, and the code expects it not to.
* `constants/src/types/tokens.rs`: `token_for(Native)` is WETH, while
  `address_for(USD)` is the native token on the rollup; mainnet has no USD records,
  so that `HostTokens::usdc` panics there.
* `orders/src/filler.rs:171`: one unknown chain among the orders' outputs fails the
  whole batch. A filler with a fixed nonce cannot have a second fill executed, and
  the default deadline, one slot from now, only reaches the first target block.
  `fee_policy.rs:155` reports failure although some bundles arrived:
  `NothingPaidTwice` shows that Permit2's nonces make that harmless.
* `bundle/src/call/ty.rs:270`: gas fees are counted at the effective price, the base
  fee included, which the coinbase is not paid, so that `eth_sent_to_coinbase` is
  understated. After a failed call the detector still holds the logs of the
  transactions before the failure; the model, like a caller that propagates the
  error, gives the EVM up.

## 5. Theorems

All are checked by TLAPS for every value of the constants under the modules' named
assumptions, which give the constants their types and sizes (each is evaluated by
TLC in the runs). A theorem that needs more says so in its statement:

| Hypothesis | Of | Why |
|---|---|---|
| `PositiveOrders` | the market, the driver, bundles | no order asks for zero: `driver_zero_output` shows what happens otherwise |
| `~UnusedGasMayBeUnpayable` | the driver's market | the EVM reimburses unused gas to the caller before the driver debits it; `driver_accounting` and `FeesAreSettled` do without |
| `FillsFit`, `CallsFit` | bundles | the fills of a block and the orders of a bundle do not add up to `U256::MAX`; what is called may be sent. `MCSendBundle` assumes the three, so that TLC evaluates them on the instance |
| `~FeedsInRound` | two of rounds | feeds write between rounds: `round_stale_rank` shows what happens otherwise |

The assumptions that say more than a type or a size are those about the host's tables and
the genesis. `PermittedAssumption`: the rollup takes the tokens that the host's tables
bridge, and no two USD records share an address, as in the tables of `crates/constants`;
otherwise the driver panics at a deposit. `AliasAssumption`: what is to be aliased
(`to_alias`, `sys/driver.rs:392`) are accounts with code on the host, and nobody can put
code where the minter is or at an alias. `DecimalsAssumption`: no USD record has zero
decimals, which `adjust_decimals` does not convert. `GenesisAssumption`: the hardforks in
the genesis are the enum's, each at a height or a time.

**Market** (`MarketProofs`). `CheckedRemoveAtomic`: `CheckedRemove` leaves the context
as it was, or absorbs all fills and deducts all orders. For positive amounts the check
on balances gives the entries that the removal needs; saturation is the same in both.

**Block driver** (`SignetDriverProofs`).
* `TypeCorrect`, `OrdersAreCovered`, `ContextIsBacked`, `DiscardedAreForgotten`.
  `OrdersCovered` is not inductive: it needs to know what the context holds.
  `ContextBacked`, that the context plus what was settled is at most what was funded,
  is the strengthening, with the detector being empty between items.
  `CheckedRemoveAtomic` and the fact that saturation only loses fills carry the step,
  and show that a discarded item leaves nothing.
* `ReceiptsAreCumulative`: every push appends one transaction and one receipt.
* `FeesAreSettled`: `Books`, what was taken is the price of `payable_gas_used`, on
  every path, and the passage is cleared before the fees.
* `MinterNoncesAreFresh`: `NonceInv`. The nonces of the mints so far rise and lie
  below the next one to be given, and the Enter events reach the offset from which the
  EnterToken events count before these start.

**Order detector** (`OrderDetectorProofs`).
* `FramesFollowCalls`: one boundary per open frame, in order and within the events, so
  that no hook panics and every revert cuts at its own frame.
* `EventsOfSurvivingFrames`: the refinement of `CallTree`, for orders and for fills. The
  mapping cuts the log at its boundaries into one list of events per open frame; one
  lemma per operation of `Framed` says what it does to the pieces.

**Simulation cache** (`SimProofs`).
* `CachedItemsAreDistinct`, `DisallowedItemsStayOut`: the two need each other and the
  bookkeeping of `seen`: an entry of a disallowed identifier could only come in by
  `add_inner`, which refuses it, and an identifier is only disallowed when the one entry
  that carries it goes.
* `OnlyJudgedAreDisallowed`, an action property; `CacheTypeCorrect`.

**Block builder** (`SimProofs`), of the composition with the cache.
* `RoundTypeCorrect`, `GasStaysWithinLimit`, `BestGoesIn`: an outcome keeps to the gas
  that its task was given, which is what the block had left; the top score of a task is
  its best one's or still on its way through the channel (`TasksInv`).
* `ItemsAreAppliedOnce`: what was simulated for the block is applied once, whatever the
  feeds do (`FreshInv`: what was applied is pursued by no later round).
* `SimulatedItemsGoIn`, `ItemsGoInOnce`: with the former, since without writes of feeds
  an entry that is copied or simulated is the one at its rank as long as the rank is in
  use (`CopyInv`).
  None of these depends on where the deadline falls.
* `BuildingKeepsTheCache`: the cache's own invariants hold of the composition too.

**What a node keeps of the chain** (`ChainProofs`).
* `JournalsAreChained`, `LookupIsRight`: the chain ends at the recorded latest height
  and hash; that an emptied set remembers them is part of the invariant. Lookup by
  distance follows from consecutive heights.
* `NodeFollowsChain`: the refinement of `JournalChain`, whose chain is what was handed
  out followed by what is held. It needs that the two are joined: a set that was drained
  continues from the last journal it handed out (`Joined`). With and without overflow
  checks.
* `BlockDataReadsBack`: whatever a block keeps of its data decodes to the transactions it
  holds (`Whole`), and the builder's keeps nothing but the encoding of its own and the
  hash of that (`OwnData`). Decoding what was decoded loses nothing more.

**Bundles** (`SendBundleProofs`).
* `BundleTypeCorrect`, `AcceptNeverFails`: what a bundle's simulation ends with passed
  the check against the fill state that is there when it is accepted (`ShapeInv`).
* `FillStateIsExact`, `NodeFollowsBuilder`: `BooksInv`. Slot by slot the fill state is the
  host's fills plus the net sum of the accepted transactions; each prefix of the block
  leaves no slot negative. The node starts from all host fills of the block, so that at
  each transaction it holds what the builder held and the host fills of later items: it
  accepts what the builder accepted, and in a block without dropped transactions there
  is nothing else to judge.
* `CallsAreReported`: the detector holds, slot by slot, the sums over the results so far,
  the coinbase never gains more than the sum of the differences (each saturates at
  zero), and a bundle that is sent as it was called runs the transactions of the results
  (`CallInv`). `CalledBundlesAreSent`: calls and sends refine `SendBundle`.

**Preflight check** (`SimProofs`). `VerdictsAreRight`: a verdict is to be kept with
its cause. `PreflightInv` says of an item found never valid that one of its nonces is used
up on a chain or in the build, and nonces only grow; that its list is out of order is not
inductive, since an account's nonce may come up to it. Of one that is valid so far it says
that the nonces read are those of the chains unless these have moved.

**Host chain** (`ChainProofs`), for any pair of chains, any number of logs and blocks,
and any commits and reverts.
* `FeedInvariant`. `FeedInv` has the pair of chains, and that whatever blocks there are,
  being put together, fresh, or on the chain, are `Sound`: their receipts hold the
  logs that the contracts emit, next to the record of what they were emitted for; the
  follower holds the extracts of the chain's blocks above the deployment, and the last
  notification reads back. `FeedTypeCorrect` adds the sidecars of notifications.
* `ExtractionFollows`: filters select, in the order of the logs, exactly what is recorded,
  so that extracts are what the records say, at consecutive rollup heights.
* `RevertsUndoWhatWasKept`: extraction does not depend on how a chain is cut into
  notifications, since a block's extract depends on nothing but the block.
* `ExtractedDepositsCanBeMinted`: an Enter of ether or of a token only passes the
  filters if the tables know it.
* `SystemTxsAreTraced`: a system transaction determines the log it is for. A log is found
  by the hash of its transaction and its index there; hashes are of different blocks
  or different places in one, and each extracted event gives one transaction.
* `MintsKeepValue`: powers of the base multiply along the difference of decimals, so that a
  deposit that is multiplied keeps its worth, if the product fits a word, and one that is
  divided loses the rest, which is less than one unit.

**Rollup** (`ChainProofs`), over the host chain.
* `RollupInvariant`: `RollupInv` is `FeedInv` and `Built`, that block by block the rollup is
  what `ExecuteOn` makes of the extracts, each on the one before it. What a revert leaves is
  a prefix of both.
* `LinksSurviveReorgs`: heights, parents, the checks of V1 and V2 headers, and the
  journals, which `JournalSet` relies on.
* `ReadersAgree`: of a block without system transactions a reader recovers the senders that
  it ran with, and one with them is refused, since magic signatures are no points; the header
  with roots is refused for an empty block only; and the two ways to name the newest fork
  agree and never go back, since numbers and times of headers grow and a fork once active
  stays active.
* `RollupFollowsFeed`: the rollup refines the host feed.

**Order flow** (`OrderFlowProofs`), for any users, fillers, pages and failures.
* `FlowTypes`, `StreamsAreWhole`, `FillsPayTheirOrders`, `NobodyPaysTwice`, of one
  invariant, `FlowInv`: the cache's orders are distinct and signed (`CacheOK`); each
  bundle is well made, its transactions and permits being those of the orders that one
  filler signed for (`BundlesOK`); each filler's stage, orders and signatures agree
  with the bundles that are stored (`FillersOK`); a stream has seen what lies before its
  cursor, once, and of what was there when it started (`StreamsOK`); a filler has paid the
  sum of the orders it took, whose nonces are spent, and none is taken twice
  (`PaymentsOK`).
* The market lets each transaction of a bundle pass because the fills come before what
  initiates the orders, and are the sums of what the orders ask on each chain.

**Lists** (`ListProofs`). The library's induction theorems take an operator and
cannot be used. Where a proof goes along a list, it takes the least place where the claim
fails (`LeastNatural`, from the well-foundedness of the naturals) and refutes that one.
`Induction` and `ListInduction` state this for sets of naturals and of lists: a set that
has the empty list and is closed under `Append` has them all. From these follow what
`FlattenSeq` returns and that it keeps concatenations, what a filter keeps (`Kept`), that
filters and maps commute, and that counts add up.

*Only model-checked:*
* `RoundsEnd`, since liveness is out of the prover's reach.
* `MCTypeOK` of the two composed runs, which joins the type invariants of several modules.
  Those of `JournalSet`, `HostFeed`, `SendBundle`, `CallBundle` and `OrderFlow` are proved
  or part of proved invariants.
* The detector's `DetectorTypeOK`, part of its proved invariant, which no run checks by itself.

## 6. What is not modelled, and why

* The EVM: what a transaction does is chosen from constants. State, blob and gas
  price rules, and the contents of receipts, headers and roots are left out.
* Bytes: ABI decoding of events, RLP, the hashing of permits and headers, the
  encoding of journals. Where a conversion decides something (magic signatures, junk in
  block data, decimals, chain ids that are cut to 64 bits) it is modelled by that.
* Sequencer messages, generated bindings, precompiles, confirmations and
  transaction locations: records without a decision.
* HTTP: raw transactions, updates and single lookups of the cache client are
  stateless requests; subscriptions are a stream of the server's.
* `orders/src/preflight.rs`, the permit checks of a filler: reads without an
  effect. They look at each permitted amount by itself, so that two inputs in one
  token may each be affordable and not both.
* Block environments that bundles override, replacement ids, and timestamps:
  stateless checks before an item begins.
* Order inputs: no decision of the code depends on them.
* Host gas in the builder: accounted exactly as rollup gas.
* Failures of `accept_cache_ref`: it fails only if the handle is shared, which
  `Arc::get_mut` has just excluded.
* Fills that saturate in `SendBundle`: the amounts there add up. Nonces and gas of
  transactions that a bundle rejects: only the market's verdicts are compared.
* EVM fixtures, contracts and users of `crates/test-utils`.
* Versions of a bundle in the cache (`cache/store.rs:268`): the repository does
  not say what is expected of a replacement, so there is nothing to check against.
