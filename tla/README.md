# A TLA+ model of mev-share-node

mev-share-node accepts bundles of transactions over JSON-RPC, simulates them when their
block comes, shares hints about them, and sends them to block builders. This directory
holds TLA+ modules that model its parts, configurations that check them with TLC, and
proofs that TLAPS checks. `PROJECT.json` lists, for every definition, the lines of
`src/` that it models, and every run, mutant, finding, hazard and theorem.

## The system

A request takes this path. The **API** (`mevshare/api.go`) validates it
(`mevshare/bundle_validation.go`), skips bundles it knows, replaces the hash of a bundle
to backrun by that bundle (fetched from Postgres through the **spike manager**,
`spike/manager.go`), takes a replacement nonce from Redis, and pushes the bundle to the
**queue** (`simqueue/queue.go`, a Redis sorted set). **Workers**
(`mevshare/sim_queue.go`) pop it, look up cancellations, simulate it on a node and start
a background job (`mevshare/sim_result_backend.go`) that records it in the **database**
(`mevshare/database.go`), publishes its hint, and sends it to the **builders**
(`mevshare/builders.go`). The queue schedules it again for the next block of its range.
Cancellation writes the database and then a Redis cache that the workers read.

| part | state | operations | what is hard about it |
|---|---|---|---|
| queue | sorted set, current block, what each worker holds | Push, pop, requeue, UpdateBlock, shutdown | check-then-act over Redis, blocks that pass meanwhile, lost items, retry budget, priority by byte order |
| spike manager | task channel, cache, list of waiters per key | GetResult, loop, fetch | one fetch per key, sends under a mutex, full channel |
| API | known-bundle cache, spike cache | SendBundle, CancelBundleByHash | concurrent requests for the same bundle, stale caches, partial failure |
| workers and jobs | the item, two goroutines per job | Process, SimulatedBundle, ProcessHints | jobs of one bundle race, node ahead or behind, data race on the result |
| database, Redis caches | tables, cancellations, nonces | inserts, updates, lookups | known or new, lost commits |
| builders | wait group, goroutine per builder, the bundle | SendBundle | selection rules, release of the wait group, shutdown, a bundle shared with another goroutine |
| block number client | cached number, its age, a lock | BlockNumber | a number read without the lock, a lock held during a request |
| cancellation cache | keys with an age | Add, IsCancelled | expiry in seconds against ranges in blocks |
| validation, hints, conversions | none | ValidateBundle, ExtractHints, ConvertBundleToRefundRecipient, replaceRevertModeForSimulation, RoundUpWithPrecision | nested bundles, merging order, boundaries |

## Modules

`SimQueue` models `simqueue/queue.go`. Every Redis command and every atomic load of
`currentBlock` is a step: a push is load, ZCOUNT, ZCOUNT, check, ZADD. A member of the
sorted set is the tuple that `packData` writes, compared lexicographically as Redis
does; the number of the Push call stands for its timestamp and payload. `retryItem` runs
the same steps as a client's push, and a failed attempt either starts again or gives the
item up. Commands may fail before or after being executed (`CommandFails`, `ReplyLost`,
`PopNothing`, `PopReplyLost`), the context may be cancelled (the Redis client then
refuses the worker's commands), and `Restart` keeps only the sorted set. `asked`,
`accepted`, `dropped`, `sims`, `repliesLost` and `peak` are history variables.

`ItemQueue` is what the queue promises its users: an item is offered, waiting, held,
running or gone, moves only to later blocks of its range, starts only when it is due,
and never comes back. `SimQueueItems` reads these off the sorted set, the clients and
the workers, and instantiates `ItemQueue` with them. `SimQueueLimits` adds a history
variable, the most agents that ever pushed at the same time, which the statement about
the limits needs.

`SpikeManager` models `spike/manager.go`. A critical section of `m.mu` is a step;
`handler.Set`, which is outside, is another. A result channel has one place and `Send`
is enabled only while it is free, so a second send would show as a blocked sender with
the mutex locked. `upstream` counts the versions of what Fetch reads.

`Store`, `Submission`, `Processing` and `Node` model the node from the request to the
builders. `Store` has the tables, Redis caches, hint channel and queue that the parts
share, and the operations on them; `Submission` the API; `Processing` the workers and
jobs; `Node` composes them with blocks and restarts. Each access to shared state is a
step of its own. The queue is abstract here: an item is taken by one worker when it is
due and put back as the error of `Process` tells; the retry budget and failing requeues
are left to `SimQueue`. A node's state may be a block behind or ahead, and a simulation
succeeds only if the bundle asks for the block after that state. The unsynchronised
write to the result of `Process` is a choice between its own error and nil. All requests
have one signer. `Absent` is the empty string, which stands for a missing uuid, hash or
body as in the code, and `MatchedBundle` is what the API makes of a bundle once it has
the one to backrun. The initial states are scenarios: which requests come, what may be
cancelled, how many faults and restarts there are. A job that sends a bundle for its
first block hangs for good when one of the external builders of the bundle has a delay
(`Hangs`), which a request says of its bundle (`delayed`). `added`, `mustDrop`,
`mustSkip`, `matched` and `statsFailed` are history.

`Builders` models one call of `SendBundle`, with every configuration of the builders as
an initial state, and the shutdown in `main` that waits for it. The call starts with
`MergePrivacyBuilders`, since a bundle in the body need not have been validated. Its
goroutines skip a builder for its delay, fail to convert the bundle (`ConvertFails`, for
the refund recipient API), or send it. `SharedBundle` is the bundle that the call shares
with the goroutine that encodes it for the database. `cleanBundle` works on a copy of
the bundle, but on the nested bundles themselves, and the JSON encoder looks at a
pointer and loads it again to follow it: the model has both loads, and a node that ends
in between.

`Chain`, `EthClient`, `CancelCache` and `Timers` are about time. `Chain` has slots of
`SlotTime`, a block at most `Jitter` after the start of a slot, or none. `EthClient` is
`EthCachingClient`: each lock operation and each unlocked access is a step, and the read
outside the lock may give the number under the check or any stored since. `CancelCache`
is the cancellation cache with its expiry. `Timers` composes them. Only ages are kept,
not the time of day, so the states are finite.

`Bundle` is a bundle with the bundles in it: a function from paths, the positions of the
elements that lead to a bundle, to the bundles' own fields. A transaction is at a
position, a path and an index. Any of the three fields of an element may be set:
`cleanBody`, which is to leave one, changes copies of the elements and does nothing.
Each part of the node takes another field then: validation the hash, the transaction and
only then the bundle, hints the bundle first, the simulator both, the conversion the
transaction. A bundle beside a transaction or a hash is thus never validated;
`Validated` has those that are, and the properties say what becomes of the others.
`Validation` is `ValidateBundle` as a state machine, with the hashing left out: `Enter`
has the checks before the loop over a body, then there is one step per element, and
`Return` or `Accept` has the checks after it. `BundleElement` merges a nested bundle
into the outer one and starts the recursive call, whose `path` is the stack. `Inclusion`
is the merging of block ranges, shared with `Submission`; `Utils` has `Intersect` and
`RoundUpWithPrecision`. The recursions that change no shared state are written over all
paths: `Hints` computes what a hint shows, the fields of each transaction and the logs,
by the flags of each bundle's own privacy settings, which go through their JSON
encoding. `Outgoing` has the form in which a bundle is simulated and the conversion for
the refund recipient API, whose list of transactions is modelled as what is at each
position. `BundlePath` applies them to the bundles that `Validation` accepts.

`MC*` modules give TLC its instances. Operators with a suffix, such as `Stale_Early`,
are wrong versions of a definition: each is put in its place to see that the property
named in `PROJECT.json` fails.

## Runs

All passing runs take well under five minutes with two workers.

* **SimQueueConc**: two clients push one item each (any range within two blocks, either
  priority), two workers get success, an error or the error of a lagging node from the
  simulation, the limits are one and two items (428,211 states). Two items are what
  races over room, order and claims need; `MaxRetries = 1` has an item both within and
  at the end of its budget; the three outcomes are the ones that push an item again with
  and without a count, and drop it. Deadlock is checked: the system never stops. An item
  is in one place (`ClaimedOnce`), is given up only for a reason that holds
  (`DropsJustified`), and high priority comes first (`HighPriorityFirst`). The limit for
  later blocks is exceeded by less than the number of agents that pushed at once
  (`LimitExceededByRacesOnly`; here it is exceeded by one). Every step is a step of
  `ItemQueue` or none (`ImplementsItemQueue`): an item starts only in its range, and at
  most `MaxRetries + 1` times.
* **SimQueueFaults**: one item, one worker, every outcome of a simulation with a budget
  of two retries, one failing or half-executed command, one restart and a shutdown at
  any time (161,976 states). The types hold, with no iteration above `MaxRetries`
  (`TypeOK`). The item is simulated only for blocks its sender asked for
  (`ProcessedInRange`), and its iteration counts its simulations, of which there are at
  most `MaxRetries + 1` (`RetriesCounted`; `SimQueueMaxSims` is about the one too many).
  After a ZADD whose reply was lost an item may have two copies, each with its own
  retries: no copy has more retries than the item had simulations (`RetriesCounted`
  too), and these are at most `MaxRetries + 1` for each copy (`SimsBounded`, six here,
  which are reached). The item does not vanish (`NothingVanishes`), an accepted item
  leaves the queue (`EventuallyLeaves`) and cancelled workers return (`WorkersExit`).
* **SpikeManager**: three calls are the least in which one fetches, one joins and one
  arrives between the loop's look and the registration; a channel of one place is full
  as soon as two calls send. One fetch per key (`SingleFlight`), no forgotten and no
  twice-answered call (`TaskInOnePlace`), no call returns an older value than one that
  returned before it began (`MonotoneReads`), every call returns (`CallsReturn`).
* **NodeMatch**: a bundle, a backrun of it for a longer range, cancellation of the
  first, a fault and a restart. What was in the cancellation cache when a worker took
  it, or backruns such a bundle, is not sent (`CancelledNotSent`); what is sent is for a
  block both senders asked for (`SentInRange`); everything scheduled leaves the queue
  and the workers, and all jobs end but those that hang in `SendBundle` of the builders,
  of which nothing else is left to do (`EveryBundleLeaves`; 318,296 states; the first
  bundle has a delayed builder, the backrun has none).
* **NodeSubmit**: two workers, and three scenarios (907,803 states). In one the same
  bundle is submitted for two blocks and may be cancelled, with two faults and a
  restart; in the others two versions of a bundle have one uuid, the older one for two
  blocks, or for one and with a fault. A replaced version is not sent
  (`ReplacedNotSent`), the newest is never held back (`NewestIsSent`), there is at most
  one hint (`HintOnce`), what is hinted can be matched (`HintedIsMatchable`), a request
  answered as known is covered by another for blocks at least as far that was validated
  and then scheduled, is still on its way, or failed with an error to its sender
  (`KnownIsCovered`), rows never forget a cancellation or a success (`RowsOnlyAdvance`).
  `HintOnce` and `HintedIsMatchable` leave out a bundle whose insert into the table has
  failed (`statsFailed`): `SimulatedBundle` goes on and publishes its hint all the same,
  perhaps again, and perhaps without a row to match.
* **Builders**: one internal and two external builders with any API and delay, and lists
  with repeated, unknown and default names; and bundles that contain another, with the
  same or other builders. Exactly the chosen builders get the bundle, once, where a
  builder with the refund recipient API is not chosen for a bundle that cannot be
  converted (`SentExactly`); nothing is under way when the call returns or the node
  exits (`NothingLeftBehind`); no builder sees private fields of a sender, and what is
  stored of the outer bundle is complete (`SentCleanStoredComplete`); a shutdown
  finishes unless an external builder was skipped for its delay or the encoder panicked
  (`ShutdownFinishes`).
* **Validation**: bundles of up to two elements, nested ones included and some with
  several fields in an element, around block 3 (138,005 states, 39,527 of them bundles
  as submitted). The result is compared with a declarative reading: the blocks common to
  a bundle and the bundles validated in its body (`InclusionIsCommon`), and among these
  at most one hash and in front (`OneHashInFront`). Of accepted bundles, with the flags,
  revert modes and refunds that the code tells apart at both levels: only external
  builders that all the bundles in it name, validated or not, get it
  (`BuildersAreCommon`), the hint shows what was asked for and no more
  (`HintsWithinPrivacy`; of a transaction beside a bundle, nothing), the simulator gets
  all transactions with the right to fail that the sender gave them, in bundles that are
  validated (`SimulatedAsAsked`), a converted bundle has the transactions of these, the
  recipient and the percentage asked for (`RefundAsAsked`). `RoundedToLeast`, an
  assumption of `MCValidation` that TLC evaluates, compares `RoundUpWithPrecision` with
  its definition for numbers up to 1200.
* **Timers**: two callers, one cancelled bundle, three slots of three units with a block
  up to one unit late, numbers kept for one unit and answers within one: the extreme
  that `Validity + MaxLatency <= SlotTime - Jitter` allows, so that a number is as old
  as it can be. The number returned was the latest at most one block before the call
  (`AnswersAreFresh`), which `Submission` relies on; it never goes backwards
  (`AnswersNeverDecrease`); with a window of two slots, a cancellation is found until
  one slot less than the window has had its block or missed it (`CancelledForBlocks`);
  every call returns (`CallsReturn`). 605,085 states.

`CHECK_DEADLOCK FALSE` stands in the runs whose system may stop: after a shutdown, when
all requests of the instance have been handled, or when the one call modelled has
returned.

Four runs show a statement of the repository that the code does not keep.

* **SimQueueMaxSims**: `MaxRetries` "is the maximum number of simulations for a single
  item" (`simqueue/queue.go:127`). `retryItem` compares the iteration before it
  increments it, so an item that failed `MaxRetries` times is put back, and simulated
  once more if it is due when it is popped. In the tests that count three simulations it
  is popped before its block, and given up then.
* **NodeHintLost**: hints of a bundle "are extracted and added to the Redis channel"
  (`README.md:40`). A replaceable bundle that fails first and succeeds later is known by
  then, and its hint is not published.
* **ValidationKept**: "don't allow unmatched bundles below 1-st level"
  (`mevshare/bundle_validation.go:167`). In a bundle that `cleanBody` should have
  removed, they are.
* **BuildersDelay**: "wait for queue to finish processing" (`cmd/node/main.go:232`). The
  goroutine of a delayed external builder returns before it defers `wg.Done`.

Other differences met on the way, which have no run. The first four are exceptions that
a property names: what a worker has to put back after the context was cancelled is lost
(`NothingVanishes`), although `simqueue/queue.go:18` speaks of avoiding loss on normal
shutdown; a backrun that found no match is not rejected when it is sent again, as
`README.md:37` says, but answered with its hash and ignored, since it has been in the
cache of known bundles since before it was matched (`KnownIsCovered`); a cancellation is
found for 30 slots of time, which are fewer than the 30 blocks of `cmd/node/main.go:145`
when a slot is missed or the last block comes late (`CancelledForBlocks`); and a hint is
published for a bundle whose insert failed (`HintedIsMatchable`). An unrecoverable item
"should not be retried" (`simqueue/queue.go:104`), but the background goroutine may
overwrite the error of `Process` with nil. Further: the stored body of a bundle may lack
the privacy and metadata of a nested one, and the encoder may panic, since `cleanBundle`
clears them meanwhile; the body that is stored is that of the last job and not the one
with the biggest `maxBlock` (`mevshare/database.go:284`); the refund recipient
conversion refuses every bundle with a transaction that may revert, because the hashes
it would list are removed before; the third example above `RoundUpWithPrecision` gives
200 and not 120; `Intersect` keeps duplicates of its second argument; a nested bundle
without `maxBlock` is refused, because ranges are merged before the default is set.

## Fairness

`SimQueue`: weak fairness of each worker, of a client that has begun a push, and of the
block updater. The Go scheduler runs every runnable goroutine, BZPOPMIN and the
simulation have timeouts, and the updater polls every 100 ms a chain that makes
progress. Nothing is assumed of Push, faults, cancellation or restarts. `SpikeManager`:
weak fairness of the loop, of the goroutines and of receiving; strong fairness of the
send on the task channel, since blocked senders of a Go channel are served in order.
Fetch is a database query that returns; contexts need not end. `Node`: workers, jobs and
blocks. `Builders`: goroutines run and requests end with an answer or with the timeout
of their context; a signal need not come. `Timers`: strong fairness of each call, since
a `sync.RWMutex` lets neither readers nor writers starve, and a node that answers or
fails; time need not pass.

## Proofs

Every safety property that a passing run checks, but for `SimsBounded`, is also proved
for all values of the constants: any number of items, workers, calls, requests,
builders, faults and restarts, and bundles of any size and depth. The proofs use the
named assumptions only. `ConstantsAssumption` and `SpikeAssumption`: naturals, disjoint
clients and workers, a channel with at least one place. `StoreAssumption` and
`NodeAssumption`: a request is what validation lets through, with a range that is not
empty, and a backrun shares no hint. `BuildersAssumption`: no builder is both internal
and external, and a fact about the recursion of `SelectSeq` that the provers do not
have: merging two lists of names leaves those that are in both. TLC evaluates it for
every call of the run. `ChainAssumption`, `EthClientAssumption`, `CancelAssumption`: a
late block is still in its slot, and a number is kept and asked for within the least
distance of two blocks, 5 s and a request against 12 s less the jitter; no timeout in
the code enforces that a node answers within the rest. `InputsAssumption`: what is
validated is a bundle as the decoder builds it, a tree. `ValidationAssumption`: the
current block is at least `MaxBlockRange` (30 in the code), without which a bundle for
block 0 could be merged with a nested one whose missing `maxBlock` is still 0, and
`InclusionIsCommon` would fail. `BundlePathAssumption`: logs have topics and data.

A leaf that names no prover is tried with SMT and then with Zenon. One that only SMT can
prove cites `SMT, SMTT(30)`: tlapm limits the time in which it translates a leaf, and in
a large module a first attempt may run out of it.

* `SimQueueProofs`. `TypeCorrect`: types, and in particular no iteration above
  `MaxRetries`. A lemma, `StepShape`, reduces every step to the few ways in which copies
  of items move; the invariants are shown against these. `SimulatedInRange`
  (`ProcessedInRange`): the property speaks of items under simulation only and is not
  inductive. `CopiesInRange` says of every copy, queued or held, that its range is
  within the one asked for; `NotEarly` says that what is being simulated is due, which
  block updates keep because the block never decreases while a worker runs.
  `SingleClaim` (`ClaimedOnce`): `Unique` says it of pairs of copies, and
  `CopiesInRange`, which bounds the numbers of items by the pushes made, gives a new
  push a fresh one. `RetryBudget` (`RetriesCounted`): with `Unique`, a live item's
  iteration equals its simulations (`Counted`), and an unused number has none
  (`Bounded`); `Paid` is what is left when a reply is lost, that no copy has more
  retries than the item had simulations. `PriorityOrder` (`HighPriorityFirst`): an
  action property, from the order of the sorted set. `LimitHolds`
  (`LimitExceededByRacesOnly`): the bound on the queued items is not inductive. `Room`
  counts with them the agents whose count was below the limit and who may still add:
  while the limit is reached nobody joins these, so the sum does not grow. `CountsSound`
  says which block a count was taken for.
* `SimQueueItemsProofs`. `QueueKeepsPromise` (`ImplementsItemQueue`): with `Unique` and
  the invariants above, the mapping reads each item off its one copy (`MappingSeen`);
  then one lemma per kind of step shows the step of `ItemQueue` it is. Without lost
  replies only: an item pushed twice is in two places. `AcceptedDoNotVanish`
  (`NothingVanishes`): `LossShape` says how a step may take an item from where it is: to
  a worker, to the sorted set, or away with a reason on record. `ClientsApart` makes the
  property inductive: a client that pushes is the only one with its item and has not
  been told that it is accepted, so what a client drops was not accepted.
  `DropsHaveGrounds` (`DropsJustified`): `DropInv` adds that `peak` is never behind the
  block of the process, which a restart sets back, and that only pushed items are
  dropped; with `CopiesInRange`, `Counted` and the type of the iteration, each way to
  drop gives its reason.
* `SpikeManagerProofs`. `TypeCorrect`, strengthened by the fact that only versions are
  stored. `OneFetchPerKey` (`SingleFlight`): inductive together with the fact that a
  fetching goroutine's key is in `currentlyExecuted` (`FlightInv`).
  `NoTaskLostOrAnsweredTwice` (`TaskInOnePlace`): `TaskInv` adds that no task is twice
  in the channel or with the loop and in another place, and that a list of waiters
  exists only for a key of `currentlyExecuted` and has only calls for that key.
  `ReadsAreMonotone` (`MonotoneReads`): `ReadsInv` says that whatever is on its way to a
  call, from the resource, a goroutine or the cache, is at least as new as everything
  calls for the key have seen (`NewestOnTheWay`), and that the goroutine that fetches a
  key finds no entry and is the only one to write it (`FetcherOwnsEntry`), for which
  `OneFetchPerKey` is needed.
* `NodeProofs`. `RefusedIffDisjoint` and `MergeIsIntersection`: merging two block ranges
  gives their intersection, and is refused when that is empty. `TypeCorrect` (`TypeOK`)
  from `Types`, which also types the parts of a bundle, a worker and a job.
  `RowsNeverForget` (`RowsOnlyAdvance`): every step moves every row as `RowMove` says.
  `KnownAreCovered` (`KnownIsCovered`): `KnownInv` adds that what is in the cache of
  known bundles was put there by a request that is past the cache and was not answered
  as known itself (`TakenOn`). For what leaves the node one invariant, `SendInv`,
  carries `CancelledAreNotSent`, `ReplacedAreNotSent`, `NewestIsNotHeldBack` and
  `SentForBlocksAsked`: a bundle has blocks only that its request, and a request of the
  bundle it contains, asks for, and has the hash of that bundle in its body
  (`BundleSound`); a worker that has seen no cancellation, and the job it starts, has
  none to see (`WorkSound`, `JobSound`); what is queued or worked on has been answered,
  so its bundle does not change (`ItemsAreAnswered`, `Stable`). `HintsAreOnce` and
  `HintedAreMatchable`: `HintInv` says that at most one job of a bundle is about to
  publish, only while nothing is published, and that the row is there and matchable from
  then on.
* `BuildersProofs`. `NothingIsLeftBehind` (`NothingLeftBehind`): `CountInv`, the wait
  group counts at least the goroutines under way. It is an inequality, since the
  goroutine of a delayed external builder never counts down: that keeps `SendBundle`
  from returning and never lets it return too early. `SentAreCleanStoredAreComplete`
  (`SentCleanStoredComplete`): `CleanInv` follows the fields one by one through
  `cleanBundle` and says that no goroutine starts before its end.
  `SentToExactlyTheChosen` (`SentExactly`): `LoopInv` says how far the two loops have
  come, in particular that each name of `privacy.builders` stands for the internal
  builders, has been used, or is still in the list (`ListInv`), and `SentInv` ties the
  requests to the goroutines, those that could not convert the bundle included; at the
  end they are the choice that `Chosen` makes without loops (`LoopsChoose`).
* `TimersProofs`. `FreshHolds`, `NeverDecreaseHolds`: `EthInv` bounds the age of the
  latest block from below (`BlockAge`) and says of an answer on its way, and of the
  cached number, that it is the latest or was until its own age ago (`AnswerSound`,
  `CacheSound`); two blocks would not fit. `Ordered` has the order in which numbers were
  learnt, for which the lock is needed (`Exclusive`). `CancellationsHold`
  (`CancelledForBlocks`): an entry is no older than the time since the start of the last
  slot that had had its block, or missed it, when it was made (`AgesBounded`).
* `ValidationProofs`. The properties speak of accepted bundles only, after many steps of
  nested calls. `IInv` (theorem `ValidationInv`) says of every moment what is known: of
  the calls, that those under way are the bundles around `path`, that an element the
  loop of a bundle has passed is a call that is over or under way, and one it has not
  passed is untouched (`CallInv`); of each bundle, which elements have been written
  (`BodyInv`), that its blocks and builders are those common to it and the nested
  bundles passed so far (`BlocksInv`, `PrivacyInv`), which hashes have been seen
  (`HashInv`), and what has been checked once its call is over (`ClosedInv`). That the
  narrowed range is not empty cannot be part of it as it stands: a nested bundle is
  merged before its own range is checked, so `BlocksInv` says it under the condition
  that the merged ranges have passed, which holds when all calls are over. That they all
  are when the outermost is (`AllClosed`) takes the place of an induction over the
  depth: a shortest path without it has an outer bundle with it. All of this is about
  the bundles in `Validated`; a bundle that is not, is as it was submitted. From these
  `InclusionIsCommonThm` and `OneHashInFrontThm`.
* `BundlePathProofs`. From the same invariant: the queue gives a bundle back as it was
  (`QueueKeeps`), and validation keeps every transaction at its position with the revert
  mode `applyRevertMode` gives it (`BodyIs`, `PositionsKept`). `SimulatedAsAskedThm`: a
  case for each revert mode (`SimulatedMayFail`). `RefundAsAskedThm`: the cases of a
  conversion that succeeds (`RefundDataIs`), and rounding. `HintsWithinPrivacyThm`: the
  recursion for a hint comes exactly to the bundles of which all those around ask for
  hints (`VisitedIs`), the logs fit (`LogsFit`), each position shows what was asked for
  (`AtPosition`), and a bundle that is being cleaned has fewer of them (`LateIs`).
  `BuildersAreCommonThm`: the builders that validation leaves are between those that the
  outermost bundle names and those that all bundles in it name, and the merging before
  the bundle is sent closes the gap.

The inductive invariants were model-checked on the instances of the runs before they
were proved.

Only model-checked: `SimsBounded`, a sum over the copies of an item; the liveness
properties `EventuallyLeaves`, `WorkersExit`, `CallsReturn`, `EveryBundleLeaves` and
`ShutdownFinishes` (fairness is outside the prover's reach), and `RoundedToLeast`.
Outside both: that the list of transactions in a converted bundle has the order of their
positions. What a recursion appends to a list takes induction over data, which the
prover does not have, and the model has the positions only.

## What is not modelled

* The JSON-RPC server, which decodes a request and calls a method by reflection and
  keeps no state, and `SimBundle`, which forwards a request to a node behind a rate
  limiter.
* `MultipleWorkers`: closures around one function, with a limiter that never limits
  here; they are the workers of `SimQueue` and `Node`.
* The loading of flags, environment and builder configuration, the metrics, the database
  schema, and the clients of Redis, Postgres and the nodes beyond their results and
  failures.
* The expiry of replacement nonces after three hours, and backoff intervals.
* The contents of transactions, hashes and signatures, several signers, and the gas
  numbers of hints beyond their rounding.
* `CancelBundleByHash` of the builders, which no code of the node calls.

## Plan

1. The queue of `Processing` as an instance of `ItemQueue`.
2. The shutdown of queue, jobs and server composed.
3. The case of builder names in `Validation`: nested lists are merged before they are
   made lowercase.
