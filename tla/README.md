# Order book engine: a verification development

TLA+ models of the matching engine in `src/` (an order book, its single-threaded
matching engine, the lock-free command queue in front of it, its risk gate, its
command journal, and the containers they are built on), the TLC runs that check them on
small instances, and TLAPS proofs of what matters most for every value of the
constants.

## 1. Inventory of the system

| Component | Source | State it keeps | Operations |
|---|---|---|---|
| Order book | `OrderBook.{hpp,cpp}`, `Order.hpp`, `Trade.hpp`, `Types.hpp` | two price trees, id index, pool, `next_seq_`, `trades_` | `submit` (with `match`), `cancel`, `best_bid/ask`, `quantity_at`, `snapshot` |
| Price level | `PriceLevel.{hpp,cpp}` | intrusive doubly linked list, `count_`, `total_qty_` | `enqueue`, `unlink`, `on_fill`, `for_each` |
| Order pool | `MemoryPool.hpp` | blocks, LIFO free list threaded through the slots, `live_count_`, `capacity_` | `acquire` (grows when empty), `release` |
| Id index | `FlatHashMap.hpp` | open-addressing table, power-of-two capacity | `find`, `insert` (rehash at 7/8), `erase` (backward shift), `reserve` |
| Command queue | `RingBuffer.hpp` | `head_`, `tail_` (free-running `size_t`), slots | `push` (one producer), `pop` (one consumer), `empty`, `size_approx` |
| Matching engine | `MatchingEngine.{hpp,cpp}`, `Command.hpp` | the book, optional risk gate, optional journal, four counters, consumer thread | `apply`, `start`, `consume_loop`, `join`, `drain_and_join`, `stats` |
| Risk gate | `RiskControls.{hpp,cpp}` | accepted-id set, kill switch (atomic), per-reason counters (atomic) | `check`, `engage_kill_switch`, `metrics` |
| Journal and replay | `EventLog.{hpp,cpp}` | file, `std::ofstream` buffer, `count_` | `append`, `flush`, destructor, `read_event_log`, `replay_log` |
| Order generator | `OrderGenerator.{hpp,cpp}` | RNG, mid price, `next_id_`, `live_ids_` (orders it believes to rest) | `next` (`make_submit` or `make_cancel`) |
| Benchmark driver | `bench/benchmark.cpp` | - | `generate`, `measure_latency` (apply in order), `measure_throughput` (a producer thread with back-pressure) |
| Tests | `tests/` | - | harness code, read as documentation of intent |

**How they interact.** A producer thread builds `Command`s and pushes them into the ring
buffer, spinning when it is full. The engine's consumer thread pops each command and
calls `apply`: append to the journal if there is one, pass the risk gate if there is one
(it reads the opposite best price from the book), then call the book and add to the
counters. A shutdown sentinel in the queue ends the consumer. A third thread (an
operator) flips the kill switch and any thread may read `stats()` and the risk
`metrics()`. The book calls the level lists, the pool and the index synchronously; nobody
else touches them. The generator feeds the engine without seeing its book, so its idea of what
rests is a guess. Replay reads the journal back and applies it to a fresh engine.

**What is hard.** *Ordering and concurrency*: the acquire/release protocol of the queue
and the reuse of its slots; the sentinel behind the last command; the kill switch racing
`check`; counters read one by one while they are being written. *Long protocol
sequences*: partial fills, cancels from the middle of a level, self-trade prevention
inside the matching loop, ids and pool slots used again, levels that appear and vanish -
index, queues, trees, pool and aggregates have to agree through all of it. *Boundaries*: full
and empty queue, index wrap-around, backward-shift deletion across the end of the hash
table, 64-bit wrap in the risk gate's arithmetic and in the level aggregate. *Crash
recovery*: a torn record, an unflushed buffer, a replay that must rebuild the same book.

**What makes each component correct.**

* Order book: never crossed; strict price-time priority; index, queues and pool describe
  the same orders; depth is the sum of what rests; no self-trade; every call has
  the outcome of a declarative allocation; every `submit` returns.
* Price level: the linked list is a FIFO queue whose aggregates are exact.
* Pool: no slot is handed out twice; every slot handed out comes back once.
* Index: it is a map; every stored key stays reachable by probing; every probe ends.
* Command queue: no data race on a slot; FIFO, nothing lost or duplicated.
* Engine: every command pushed is applied once, in order; shutdown happens, after the
  last command; the counters add up.
* Risk gate: nothing over a limit passes; an accepted id is never accepted again; a
  halted gate accepts nothing.
* Generator: every order it makes is valid and fresh; an order that rests is never out of
  its sight; nothing is cancelled twice.
* Journal: what is recovered is a prefix of what was applied, and replay rebuilds the book.

## 2. Modules and how they compose

| Module | Models | State and actions against the code |
|---|---|---|
| `Market` | `Types.hpp` | sides, policies, `Crosses`, and the order of the two price trees |
| `PriceTimePriority` | - | what a book must do with a taker, declaratively: each maker is told how much of the taker reaches it; no loop, queue or tree; `TradesOf` lists the makers hit by their `Turn`, the number of makers ahead of each |
| `PriceTimeBook` | - | the promise of the book: `submit` and `cancel` as single steps with the outcome `PriceTimePriority` defines |
| `OrderBook` | `OrderBook.cpp` and the containers as it uses them | `levels` = keys of `bids_`/`asks_`, `queue` = the intrusive lists, `total` = `total_qty_`, `order`/`live` = the pool, `index`, `trades`, `taker` = the locals of `submit()`; one action per iteration of `match()` (`PreventSelfTrade`, which is `CancelResting` or `CancelAggressing`, and `Fill`), per return (`FullyFilled`, `Rest`), and `Reject`, `Submit`, `Cancel`, `CancelMiss` |
| `OrderBookProps`, `OrderBookRefinement` | - | properties; `snapshot()` and the refinement mapping to `PriceTimeBook` |
| `OrderBookProofs`, `OrderBookRefinementProofs` | - | the inductive invariant `IInv` and what follows from it; sums, depth and the proof of the refinement |
| `FlatHashMap`, `FlatHashMapProps` | `FlatHashMap.hpp` | `table` = the three arrays as one, `size_`, `capacity_`; `Insert`, `Erase`, `Reserve`, with the probe loop, the backward shift and the rehash as operators on tables; `hash` is any function, chosen at the start; the mapping to `IdMap` |
| `IdMap` | - | the promise of the index: a map and its size |
| `MemoryPool` | `MemoryPool.hpp` | a pool is a record (`mem`, `free_list`, `capacity`, `live_count`, `slots_per_block`); `Acquire`, `Release`, `Grow` map pools to pools; `mem[a]` is a `FreeNode` or an order |
| `PriceLevel` | `PriceLevel.hpp`, `Order.hpp` | `Enqueue`, `Unlink`, `OnFill` on the level's fields and (`...Links`) on the `prev_`, `next_`, `level_` of the orders in memory; quantities count modulo `Word` |
| `BookStorage`, `BookStorageProps` | the places in `OrderBook.cpp` that touch them | composes the two with the index: `Rest`, `Trade`, `Cancel`; properties and the mapping to `OrderQueues` |
| `OrderQueues` | - | the promise of levels and pool: one FIFO queue per level |
| `OrderGenerator` | `OrderGenerator.cpp` | `mid`, `next_id`, `live_ids`; `MakeSubmit`, `MakeCancel`; a random draw is any outcome |
| `OrderFlow`, `OrderFlowProofs` | `benchmark.cpp`, `next()` | composes the generator with the book: `FeedSubmit`, `FeedCancel`, and the iterations of the matching loop; its properties |
| `RingBuffer` | `RingBuffer.hpp` | each atomic index is its sequence of stores, each with the release view of its thread; `LoadHead`..`Publish` is `push()`, `LoadTail`..`Retire` is `pop()`, one action per access to shared memory, and `Destroy` |
| `BoundedFifo` | - | the promise of the queue |
| `RingBufferProps`, `RingBufferProofs` | - | properties, the mapping to `BoundedFifo`; the proofs |
| `RiskControls`, `RiskControlsProps`, `RiskControlsProofs` | `RiskControls.cpp` | `check()` as `StartCheck` (the load of the switch) and `FinishCheck` (everything else, private to the matching thread); products are modulo `Word`; `EngageKillSwitch` is the operator's |
| `EventLog`, `EventLogProps`, `EventLogProofs` | `EventLog.cpp` | `file` (what the operating system has) and `buffer` (what the stream holds) as units, `RecordUnits` to a record; `Open`, `AppendRecord`, `Flush`, `Close`, the stream's `Spill` and `WriteFails`, `ProcessDies`, and `Read` |
| `MatchingEngine`, `MatchingEngineProps`, `MatchingEngineProofs` | `MatchingEngine.cpp` | the threads: `Push`/`ProducerEnds`, `PopCommand`/`PopSentinel` and `apply()` step by step, `PushSentinel`/`Join`/`FlushLog`, `ThrowSwitch` |
| `Recovery`, `RecoveryProps`, `RecoveryProofs` | `read_event_log`, `replay` | a live session, a crash at any step, the replay through the same `Apply` |
| `MC*` | - | the small instances |

`MatchingEngine` composes the parts through `INSTANCE`: the queue is the sequence that
`RingBuffer` implements, the book is `PriceTimeBook`, which `OrderBook` implements, the
gate is `RiskControls` and the journal is `EventLog`, with their own actions as conjuncts
of the engine's. `Recovery` extends `MatchingEngine` with the disk and a second process.
So the engine is checked against what its parts promise, and the parts against
their code. The book in turn takes its containers by their promise: its `queue` is what
`BookStorage` implements (`OrderQueues`), its `index` what `FlatHashMap` implements (`IdMap`). That
step is by reading: `OrderBook`'s slots are the addresses of `BookStorage`, but the two are not
joined in one state machine.

Each `...Props` module has a type invariant; only the book's is checked by itself, the others are
a conjunct of the module's first safety invariant (`LifetimesPair`, `IdsAcceptedOnce`,
`ReadsAPrefix`, `CountersAgree`, `RecoversALiveState`, `Searchable`, `SlotsPartitioned`, `OrdersAreValid`).

Definitions marked `mutant` are faulty variants of the definition below them (a dropped
guard, a lost update). No specification uses them: putting one in place of the correct
definition must break the property it is paired with, which shows that the
property notices that mistake.

## 3. Runs

| Run | Instance | What it shows |
|---|---|---|
| `book_cancel_resting` | 3 ids, 3 slots, 2 traders, 2 prices, quantities 0..2, 3 resting orders in a session, default policy; symmetric in ids, slots, traders | the structures agree, never crossed, FIFO, depth exact, priority; `snapshot()` determines the book; each call has the outcome of `PriceTimeBook` |
| `order_flow` | streams of 3 orders and any cancels from the generator, mid 1 or 2, depth 1, 2 traders, the other policy | orders are valid, no open order is forgotten, nothing is cancelled twice; the same outcomes as `PriceTimeBook` (a self-trade is none of them); `submit()` returns: an unfinished one always has a next iteration and each leaves less work |
| `index` | 8 keys, 5 hash functions, tables of 8 to 32 slots, `reserve(7)` | the table stays searchable (no probe runs for ever, no key is cut off), a reserved table does not reallocate, it is a map |
| `storage` | 4 ids, 2 levels, quantities to 3 modulo 4, a pool that starts with one slot | no slot is in two places, lists are right both ways, aggregates survive the wrap, FIFO queues across growth |
| `ring` | capacity 4, 3-bit `size_t`, 10 items | race freedom, lifetimes, FIFO and delivery |
| `risk_limits` | 4-bit `uint64_t`, scale 4, 2 ids, prices -1, 2, 5, quantities 0, 2, 4, four references, 3 checks | ids once; size, notional and collar hold of every accepted order, except for a deviation that does not fit the word (price -1 against 3); the switch takes hold |
| `risk_notional` | the same without a size cap | *violation*: the notional wraps below the cap (`RiskControls.cpp:22`) |
| `log_reads_prefix` | header of 2 units, records of 3, up to 3 records, 2 commands | any crash or failed write leaves a readable prefix or an unreadable header; a flush is kept |
| `log_loses_writes` | the same | *violation*: a record is appended, its write fails behind a complete header, nobody looks, and the orderly close leaves a readable file without it |
| `engine_pipeline` | queue of 2, up to 4 of 5 commands (crossing orders, an oversized one, a reused id with quantity 0, a cancel), collar and size cap on, the switch thrown at will | every command once and in order, journal first, counters, the halt, no id offered to the book twice (the quantity-0 order that passes the gate and is then refused included), shutdown |
| `recovery_replays` | up to 3 of 4 commands, records of 2 units | replay rebuilds a state the live engine was in, and after an orderly, fully written end the state it ended in |
| `recovery_kill_switch` | the same | *violation*: an order the kill switch turned away is accepted on replay, which `EVENT_SOURCING.md:76` rules out |

**Why these bounds are enough.** *Book*: two orders at one level and one at another give every shape
the loop distinguishes (front, middle and last of a level, last level of a side), a third id lets a
taker meet an own and a foreign order, and cancelling makes ids, slots and levels appear again; the
theorems remove the bounds for most of the properties. *Index*: seven of eight keys force a rehash,
and the hash functions are picked so that chains merge, leave room for several shifts, cross the end
of the array, and collide anew after the rehash. *Storage*: four orders need blocks of one, two and
four slots; three on one level have a middle; 3 + 3 wraps a word of 4. *Order flow*: the mid touches
its floor at once and offsets reach below it; three ids let one be filled, one cancelled and one
rest. *Ring*: 10 items through a 3-bit index wrap it, and fill and empty a queue of 4 with each side
lagging behind. *Gate*: with a word of 16 the collar's product wraps (4 * 4): `WithinLimits` meets
such orders and says that they are the only ones outside the collar. That the collar is no limit to
them is the same wrap as that of the notional, which has a run to exhibit it (5 * 4, where no size
cap is set); the collar's has none of its own. Negative notionals (-1 * 2) are met too, and refused.
*Journal*: header and record have an inside to be torn in. *Engine*: four commands and a sentinel
overfill a queue of two; one order can be in flight when the switch is engaged with others behind
it.

Named bounds: `MaxSeq` (resting orders of a session), `OrderIds` in `order_flow` (length of the
stream), `MaxMid` (how far the mid walks up), `MaxLog2` (largest table), `Items`, `MaxChecks`,
`MaxRecords`, `MaxPushes`.

**Fairness.** Only `Delivered` and `Drains` need it. `RingBuffer!FairSpec` lets both threads run and
says that a store is eventually seen by the other thread; C++ asks implementations for
that (a load that returns nothing new changes nothing, so weak fairness
of `<<Producer>>_vars` is about the loads that see more). `MatchingEngine!FairSpec` is weak
fairness of the consumer, the producer and the controller: each is a loop that yields and
tries again, and once its step is possible nobody else can make it impossible (only the
producer, and after it only the controller, pushes; only the consumer pops). The
operator is under no obligation. A crash is never fair.

Deadlock is checked except where the system ends: a destroyed queue (`ring`), a recovered engine
(`recovery_*`), and a stream that is used up (`order_flow`). In `engine_pipeline` the operator may
always act, so it is `Drains` that rules a deadlock out.

## 4. Proofs

The theorems hold for every value of the constants that satisfies the named assumption of the module.

**`OrderBookProofs`**, from `BookConstants` (the bounds are integers and the three "nothing" constants
are none of the values they stand beside), for every set of ids, traders and slots, every price and
quantity range and every policy:

* `BookIsSound`: `Spec => []IInv`. The invariants are not inductive one by one: that a match
  leaves no empty level needs every queue entry to be an order of that level, that `cancel` splices
  the right queue needs the index to be complete and the back-pointers right, FIFO order needs
  `next_seq_` to be ahead of every order (`SequenceFresh`), and that a remainder may rest needs the
  taker not to be on the book yet (`TakerInv`). `IInv` is the conjunction of `TypeOK`,
  `StructuresAgree` (index, queues, back-pointers and pool), `NoEmptyLevel`, `TimePriority`,
  `SequenceFresh`, `NotCrossed` and `TakerInv`. One lemma per action shows that it is kept; the
  three ways of taking an order out share `RemoveKeepsBook`, and `BestIsBest` (which
  rests on `BestExists`, for any range of prices) is what makes a remainder that rests not cross.
* From it: `TypeCorrect`, `NeverCrossed`, `IndexQueuesPoolAgree`, `QueuesAreFifo`, `NoLevelIsEmpty`,
  `PoolNeverLeaks`; and, with the step in hand, `TradesFollowPriceTime` (no trade while a better
  order waits), `SelfTradeIsPrevented`, `RestingOrdersKeepTheirPlace`.

**`OrderBookRefinementProofs`**, from the same assumption, has what needs sums:

* *Sums.* A sum over a finite set is recursive, and the library's induction theorems cannot be
  instantiated, so an induction is done by hand where it is needed: of the parts of a set that violate a claim
  one of least size is taken (`LeastOf`, from the well-foundedness of `<` on the naturals), and the
  part without one element, which obeys, refutes it. `SumsExist` gives the recursive definition a
  value (`SumIs`), and `SumSplit`, `SumCongruence` and `SumNatural` say how it changes.
* `DepthIsExact` (`DepthIsSum`): with `DepthInv` (what is displayed at a price is the sum of what rests
  there, and the pool holds finitely many orders) beside `IInv`, one lemma per way of
  touching a level: `RemoveKeepsDepth`, `ReduceKeepsDepth`, `RestKeepsDepth`.
* `MatchingRefinesPriceTime`: `Spec => ImplementsPriceTimeBook`. The mapping lets a call take effect
  when `submit()` accepts it, so each iteration of the loop must leave the outcome of *what is left*
  of the call as it was (`SameOutcome`) and put the trade it made in front of the trades still to
  come. The order the loop meets is the first in priority of those the taker can trade with
  (`OldestIsFirst`); `PeelFirst` says what becomes of everybody else's budget and share when that
  one is taken off. The cases are a maker used up (`MakerFilled`), a maker reduced (`MakerReduced`,
  the last trade), an own order cancelled (`OwnOrderCancelled`) or in the way
  (`AggressorAbandoned`), and nothing left to trade with (`NobodyToTradeWith`,
  `NothingLeftToTrade`). `TurnsAreFilled` shows that `TradesOf` is a sequence: makers and turns
  correspond one to one, because no two orders share price and sequence number. So the loop can be
  replaced by its promise, as `MatchingEngine` does.

**`OrderFlowProofs`** composes that with the generator. `FlowIsSound`: `FlowSpec => []FlowInv`,
where `FlowInv` is the book's `IInv`, the two properties, and that `live_ids` holds ids only
(`DrawsKnownIds`, without which a drawn cancel could name anything). The lemmas of `OrderBookProofs`
do the book's side, since each step of the flow is a step of the book beside one of the generator.
Hence `NoOrderIsRefused` (`OrdersAreValid`: the price floor and the fresh id survive every walk of
the mid) and `OpenOrdersAreTracked` (the swap with the last element in `live_ids` never loses an id
that is open). `FlowDrivesTheBook`: `FlowSpec => Spec`, every generated command is a call
`OrderBook` allows, so that what is proved of the book holds of the generated stream;
`FlowRefinesPriceTime` is the instance of it that `order_flow` checks (`ImplementsPriceTimeBook`).

**`RingBufferProofs`**, for every capacity that is a power of two and every index width
(`RingConstants`; `PowersOfTwo` states what that gives the arithmetic: the modulus is a multiple of
the capacity. It follows from the exponents, but the provers have no facts about `^`, not even
`2^(n+1) = 2 * 2^n`, so it is a second assumption, and TLC evaluates it):

* `RingIsSafe`: `Spec => []Safe`, `Safe` being `TypeOK`, `Coordinated` (each index counts up modulo
  `2^width`; a thread's own count, what it has seen of the other's, and what it has learnt through
  acquire loads are ordered, and they are at most `Capacity` apart) and `Contents` (what every slot
  holds, from the two counts alone). The code compares wrapped indices; `Safe` speaks of unwrapped
  counts, and `SlotOfIndex`, `AdvanceIndex` and `DistanceOfIndices` turn one into the other. Race
  freedom is not inductive alone: a push is safe because the *old* head it saw bounds the consumer's
  progress from below.
* `RaceFree`, `LifetimesHold`, and `RingImplementsFifo`: `Spec => ImplementsFifo`, step by step (`Publish` is a
  push, `Take` a pop, every other access a stutter), with the mapping `Queue`.

**`RiskControlsProofs`**, from `RiskConstants`: `IdsUnique` (`IdsAcceptedOnce`: by then `seen` is
exactly the accepted ids), `LimitsHold` (`AcceptedTripsNothing` for the early returns, `FitsTheWord`
for the products: one that fits is unchanged, a negative one becomes its complement) and
`HaltHolds`. `LimitsHold` is about all three limits and has no premise that the deviation fits: an
accepted order is inside the collar or its scaled deviation is a word or more.

**`EventLogProofs`**, from `LogConstants`: `LogIsDurable`: `Spec => []Durable`. `Durable` says unit by unit
(`UnitAt`) that the file, and the file with the buffer behind it while the stream is good, is an
initial part of header and records of `appended`; that it is complete while nothing failed; and that
a flush covered what it covered. `CrashLeavesAPrefix`, `FlushedSurvives` and
`OrderlyCloseIsComplete` (what remains true of `ClosedIsComplete`: a stream that is good at the close
gives everything back) follow with `ReadOf`, on division by the record size.

**`MatchingEngineProofs`**, from `EngineConstants`: `EngineIsSafe`: `Spec => []Safe` for any queue
capacity and any interleaving. `Safe` has the properties and what they need of one another: the
consumer holds a command exactly inside `apply()` and the branch fits it (`HoldsCommand`), the gate
works for the consumer (`GateServesWorker`), the book is finite and inside the market
(`BookIsFinite`, so that a touch exists), the sentinel is behind everything (`SentinelIsLast`), an
order that may still enter although the switch is on is the only one (`LateOnce`), an order on its
way has its id remembered (`IdsAreKnown`), and the counters in the middle of a command
(`CountsInFlight`). Hence `NothingDropped`, `WriteAheadHolds`, `EveryOrderAccounted`,
`KillSwitchFreezes`. `GateCovers` (`GateCoversTheIndex`) is about orders that have left the book as
well, so it needs the history: `OfferedOnce`, kept beside `Safe`, says that what the gate remembers
is the ids of all it accepted and that the last of them is the one on its way to the book; an order
that passes the gate has an id that is in none of them.

**`RecoveryProofs`**, from `EngineConstants` and `JournalConstants`, composes the two above:
`SessionIsRestorable`: `RecoverySpec => []Restorable`. A replay can only be compared with a live
engine that may have died in the middle of a command, so the invariant speaks of where the engine is
*going*: `Execute(s, c)` is `apply()` as a function of what an observer sees (gate, book, counters;
the switch off), and `Due` is what the observer will see once the command in hand is finished.
`ApplyKeepsDue` shows that no step of `apply()` changes `Due` unless the switch turns the order
away; that is the determinism `EVENT_SOURCING.md` relies on. `Restorable` then says: the journal is
`Durable` (cited from `EventLogProofs` through `INSTANCE`); while live the engine is `Safe`; each
recorded state is the one before with the next journaled command executed, as long as nothing was
turned away (`HistoryExecutes`); and both the live engine and the replay continue the recorded
history (`LiveInStep`, `ReplayInStep`). Hence `ReplayRestores` (`RecoversALiveState`). After the
join the journal is all that was pushed and the history has a state for each (`JoinedIsJournaled`);
a journal that was flushed whole reads as all of it, so the state replayed to is the last one:
`WholeSessionReturns` (`FlushedSessionIsWhole`). Both except sessions in which the kill switch
turned an order away, and `recovery_kill_switch` shows that they must.

Each of these invariants was checked by TLC on the instance of the component's run before it was proved.

**Only model-checked.** *Liveness and `ENABLED`*: `Delivered`, `Drains`, `SubmitReturns`. *Induction
over data*: `SnapshotIsTheBook` (it sorts a set and folds over a sequence of sequences; only sums
have been given the lemmas such an induction needs), and the containers `FlatHashMap` and
`BookStorage`: what a probe or a walk of pointers computes is a recursive operator, and
`Searchable`, `SlotsPartitioned`, `ListsLinked`, `DepthWraps` and the refinements of `IdMap` and
`OrderQueues` speak of it. The wrap of the level aggregate modulo `2^64` is in `DepthWraps` only:
`DepthIsExact` is about the book's unbounded counters.

## 5. Not modelled

* Tests, and of the benchmark its options, clocks, percentiles and output: harness code.
* The bits of SplitMix64 (any hash function will do) and the probabilities of the generator (any
  outcome may be drawn).
* Queries other than `snapshot` and `quantity_at` (`stats`, `metrics`, `size_approx`, `empty`): they only read.
  A `stats()` taken in the middle of a command mixes several moments and promises nothing.
  `size_approx()` loads its two indices in turn and may wrap; nothing calls it.
* `order_type` and `trigger_price`: recorded and replayed, read by nobody (`EVENT_SOURCING.md:115`).
* The pool's destructor and alignment: blocks are freed together at the end, and the book does not
  outlive them.
* The journal: a failed write is taken to be permanent, bytes are not corrupted, and a flush that
  reached the operating system is kept (power loss is excluded by `EVENT_SOURCING.md:95`).
* Signed overflow of `price - ref` in the collar: prices near the ends of `int64_t` are not inputs.
* Exceptions from allocation.
* A second session over the same journal: `enable_logging()` truncates, and a recovered engine must not
  log to the file it came from (`EventLog.hpp:59`).

Three places where the documentation does not say what the code does, and that no run is spent on.
`src/README.md:97-100` has each command run through the risk gate, then journaled, then applied, and
the diagram above it leads from the gate to the log; `apply()` journals first
(`MatchingEngine.cpp:8-10`, before the gate at 16), as `EVENT_SOURCING.md:19-20` says, so that
replay meets the same orders, refused ones included. `JournalLeads` states the order of the code,
and is false of the order in that README. `Order.hpp:38` calls `quantity()` the original size, but a
partially filled taker rests with its remainder (`OrderBook.cpp:105`); `OrderGenerator.hpp:45` says
that self-trade prevention needs more than one trader, while with a single one every match is a
self-trade.

## 6. Plan

1. Done: the book, its promise and its proofs; queue, gate, journal, engine, recovery; the three
   containers and their promises; the generator and the flow it makes; the proofs of section 4.
2. `FlatHashMap`: the part of `Searchable` that is not recursive (a free slot is always left).
3. A sequential engine (commands applied one by one) as the abstract specification of
   `MatchingEngine` (`Execute` of `RecoveryProofs` is its step).
