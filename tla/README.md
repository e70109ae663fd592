# TLA+ models of the rescue-proxy ExecutionLayer

This directory holds TLA+ models of the fee-recipient oracle in
`src/executionlayer/execution-layer.go`, plus the TLC configurations that
check them. The oracle is an in-memory projection of two Rocket Pool
registries. The proxy uses it to decide which fee recipient a validator may
use.

## 1. Inventory

### Components, state and operations

| Component | Code | State | Operations (state changes) |
|---|---|---|---|
| Indices | `ExecutionLayer.minipoolIndex`, `nodeIndex`, `highestBlock` (l.65-84) | pubkey → node (insert only); node → `*nodeInfo{inSmoothingPool, feeDistributor}`; the watermark | written only by the loader, the handlers and back-fill |
| Snapshot loader | `Init` (l.416-495) | — | pins head B; `GetNodes`, `GetSmoothingPoolRegistrationState`, `GetDistributorAddress`, `GetNodeMinipools` at B; Stores; then `ecEventsConnect` and **ignores its error** (l.492) |
| Event ingestor | `ecEventsConnect` (l.314-413), `handleEvent`/`handleNodeEvent`/`handleMinipoolEvent` (l.122-208) | the `events` and `newHeaders` channels (capacity 32), the two subscriptions, `noMoreEvents/Headers` | subscribe logs, subscribe heads, back-fill, start goroutine; the select has four cases: log-sub error, head-sub error, log, header |
| Back-fill engine | `backfillEvents` (l.217-265) | — | `HeaderByNumber`, `FilterLogs[highestBlock+1, head]`, replay, `highestBlock := head` |
| Reconnector | `handleSubscriptionError` (l.268-311) | loop counter `i` | up to `reconnectRetries` (10) `SubscribeFilterLogs`; on success `SubscribeNewHead` (a failure breaks to panic), `setECShutdownCb`, back-fill (a failure panics), swap the subscriptions |
| Shutdown | `Deinit` (l.498-507) | `shutdown`, `ethclientShutdownCb`, `wg` | set flag, unsubscribe, close both channels, `wg.Wait` |
| Read API | `ForEachNode`, `ValidatorFeeRecipient` (l.512-549) | — | read only |
| Chain adapter | ethclient, rocketpool-go (external) | the chain | logs, headers, view calls, two subscriptions |
| gRPC stubs `src/pb/api_grpc.pb.go` | generated | — | none relevant (not modelled) |
| `src/unnamed/part_000` | CI workflow | — | none (not modelled) |

### Interactions

- The chain feeds two ethclient subscriptions. Each one forwards into its
  buffered channel, starting at the block after the one at which it was made.
  The log subscription sends one notification per log, and a block can carry
  several matching logs.
- A single goroutine is the only writer after `Init`. It multiplexes the
  channels and the two subscriptions' error channels with `select`. It calls
  `handleEvent`, which mutates the indices, and on an error it calls
  `handleSubscriptionError` synchronously.
- `highestBlock` is advanced both by logs and by headers. Back-fill after a
  reconnect starts from `highestBlock + 1`.
- Readers (the gRPC server) call `ValidatorFeeRecipient` concurrently. They use
  `sync.Map` loads and read `nodeInfo` fields that the writer mutates in place.
- `Deinit` runs on another goroutine. It writes `shutdown`, unsubscribes,
  closes the channels and waits on the WaitGroup.

### What is hard

- Two subscriptions deliver independently, and `select` is random. A header
  can therefore be processed before the log of the same block.
- `handleEvent` sets `highestBlock` to a log's block after the first log of
  that block. The block's later logs may still be in flight.
- The init back-fill overlaps the live subscription, so logs arrive twice.
- Subscriptions fail: undelivered logs are lost and buffered logs are still
  pending when the reconnect back-fills.
- RPCs fail in the middle of a handler (`GetMinipoolDetails`), during
  back-fill, or during (re)subscription.
- There is a retry loop with a bound, and panics.
- Shutdown races the goroutine: `wg.Add` runs inside it, and `shutdown` is
  read only at the entry of the reconnector, which then subscribes into
  channels `Deinit` may have closed.
- Readers race the in-place mutation of `nodeInfo` (see section 5 for why no
  run checks this).

### Properties that make each component correct

- Indices:
  - when the goroutine has caught up, they equal the chain's registries at
    the head;
  - no minipool's node is missing;
  - a node's smoothing-pool state is never older than a log already applied;
  - `highestBlock` never decreases (spec 4.2).
- Ingestor and back-fill: after a replay, the state is the same as after an
  uninterrupted run (spec 8.5), and once the chain stops they converge on it.
- Reconnector: it ends, back in the loop or in a panic. A failed header
  re-subscription is retried (spec 4.4).
- Read API: the fee recipient is the smoothing pool or the node's distributor,
  never the zero address.
- Shutdown: pending logs are drained, no send on a closed channel, and no
  reconnect after shutdown.

## 2. Modules

| Module | Models |
|---|---|
| `Chain.tla` | The environment: `chain[b]` is the sequence of matching logs of block b, at most `MaxLogs` of them, and at most `MaxChainLogs` in the whole chain. `MineBlock` appends a block whose logs, one after the other, satisfy the contracts' preconditions (`NextBlocks`, recursive): register once; only a registered node changes its smoothing-pool state, which must flip; a pubkey is used once and only by a registered node. `RegisteredIn`, `SPIn` and `OwnerIn` give the registries' state after a sequence of logs. `RegisteredAt`, `SPAt` and `OwnerAt` apply them to the logs up to block k, which is what a view call pinned at block k returns. |
| `ExecutionLayer.tla` | The ExecutionLayer; see below. It EXTENDS `Chain`. |
| `OracleAbstract.tla` | What the oracle promises, with nothing of how. `nodes` and `owner` are always the registered nodes and owners after some prefix of the mined logs. They only grow, and they reach the head (weak fairness on learning the whole chain). Smoothing-pool state is left out: it is not monotonic, and replays of older logs (`stale_replay_after_reconnect`) make the code fall short of it. |
| `Lifecycle.tla` | The goroutine's life against `Deinit`; see below. The data is abstracted away. |
| `MC_ExecutionLayer.tla` | Model values for TLC: `Nodes = {"n1","n2"}`, `Pubkeys = {"p1"}`. |
| `MC_Lifecycle.tla` | Instantiates `Lifecycle`; the constants are in the cfgs. |

In `ExecutionLayer.tla`, the writer is a single control variable `pc`. `Init`
and then the goroutine run on that one writer, one after the other. The steps
are:

- `Snapshot`: `Init`. It is atomic because every call is pinned at B; it has a
  failure outcome.
- `SubscribeLogs`, `SubscribeHeads`, `InitBackfill`: `ecEventsConnect`. A
  failure goes to `noLoop`, because `Init` ignores the error.
- `LoopLogSubError`, `LoopHeadSubError`, `LoopEvent`, `LoopHeader`: the four
  live cases of the select.
- `ReconnectLogs` (attempt i, counted by `attempt`), `ReconnectHeads`,
  `ReconnectBackfill`: `handleSubscriptionError`.

The handlers are pure operators:

- `HandleNodeEvent` does what the code does, including two things to note. A
  registration replaces any existing entry with a zero distributor. A state
  change for an unknown node is never stored, although the comment at l.148
  says it is added.
- `HandleMinipoolEvent` drops the log when `GetMinipoolDetails` fails.
- `HandleEvent` combines them and then sets `highestBlock` to the log's block
  (l.207), on the record `Indices` of the writer's state. `LoopEvent` takes
  all three fields from it. `Backfill` overwrites `highestBlock` with the head
  afterwards, as the code does.
- `Backfill` folds `HandleEvent` over `FilterLogs(highestBlock+1, head)`
  (the logs of those blocks in block and log-index order) with `FoldLeft`,
  and then sets `highestBlock := head`.

The subscriptions are environment actions:

- `DeliverLog` forwards the next log of a mined block into `events`, with
  its block and log index, or moves past a block with no matching log.
  `DeliverHeader` forwards the next header into `newHeaders`.
- `LogSubFails` and `HeadSubFails` put an error on the error channel. What a
  failed subscription has not forwarded is lost.

`ValidatorFeeRecipient(p, q)` and `ForEachNode` are the read path, as operators. The auxiliary
variable `seen[n]` is not in the code. It records the chain position of the
latest log about node n that the writer has applied, and only the staleness
properties read it.

The unknown-topic and unknown-contract branches are left out. The filter query
(l.321-324, l.234-243) only admits the three topics of the two contracts, so
those branches never run.

`ExecutionLayer` also defines `Oracle == INSTANCE OracleAbstract WITH nodes <-
DOMAIN nodeIndex, owner <- minipoolIndex`. The property `ImplementsOracle ==
Oracle!AbstractSpec` is the refinement.

In `Lifecycle.tla`:

- Data is abstracted away. Blocks carry no logs of their own, and a channel is
  the count of values buffered in it (`evBuf`, `hdBuf`) plus a closed flag.
- Subscriptions are entries of `subs` with state live, failed, dead or
  closed. This follows go-ethereum's `ClientSubscription`:
  - `Err()` yields one error on failure;
  - `Unsubscribe` closes `Err()`, which is then always ready, and stops the
    forwarding before it returns;
  - a forwarder that sends on a closed channel panics (`crashed`).
- The goroutine's steps are:
  - `ConnectLogs`, `ConnectHeads`, `ConnectBackfill`: `ecEventsConnect`.
    A failure goes to `noLoop`, because `Init` ignores it.
  - `GoroutineStart`: `wg.Add(1)`.
  - One action per select case, with the closed-channel cases split out
    (`LoopEventsClosed`, `LoopHeadersClosed`).
  - `AfterSelect`: the `noMoreEvents && noMoreHeaders` check and `wg.Done`.
  - `HandleSubscriptionError`: the `shutdown` early return.
  - `ReconnectLogs`, `ReconnectHeads` (which includes `setECShutdownCb`),
    `ReconnectBackfill` (which includes the pointer swap).
- `Deinit` is called once, at any point after `Init` returns. Its steps are
  `DeinitCall` (the nil check and `shutdown = true`), `DeinitUnsubscribe`,
  `DeinitCloseEvents`, `DeinitCloseHeaders` and `DeinitWait`.

## 3. Runs

All runs use `MC_ExecutionLayer`.

| Run | Constants | Expect | Shows |
|---|---|---|---|
| `reliable` | MaxBlock 3, up to 2 logs per block and 3 in all, no failures | pass (~104k states) | `TypeOK`; `IndexMatchesChain`: once caught up, the indices equal the chain, duplicates of the init back-fill included; `NoOrphanMinipool`; `EventuallyConsistent` (liveness); `ImplementsOracle`: the node set and minipool map refine `OracleAbstract`, overlapping back-fill and replays included |
| `faulty` | MaxBlock 3, up to 2 logs per block and 2 in all, 1 subscription error, RPCs fail, 2 retries | pass (~410k states) | `ReconnectTerminates` (liveness) |
| `highest_block_rewind` | MaxBlock 4, no failures | violation | `highestBlock` decreases when an overlapping log is applied after the init back-fill |
| `zero_fee_distributor` | MaxBlock 4, no failures | violation | a node registered after the snapshot gets fee recipient 0x0 |
| `head_resubscribe_panics` | failures | violation | a failed header re-subscription panics without retrying |
| `lost_log_on_reconnect` | 1 subscription error, 2 logs per block | violation | `highestBlock` passes logs a failed subscription never forwarded, either through a header that outran its block's logs or through the first of two logs of a block; the reconnect back-fill skips them for good. TLC's shortest trace uses the header. With `LoopHeader` changed to leave `highestBlock` alone, TLC still finds the violation through a two-log block. |
| `stale_replay_after_reconnect` | 1 subscription error | violation | buffered older logs applied after the back-fill leave a stale state once caught up |
| `minipool_details_failure` | RPCs fail | violation | a dropped `MinipoolCreated` is never retried |
| `shutdown` (`MC_Lifecycle`) | MaxBlock 3, 2 subscription errors, RPCs fail, 2 retries | pass (~604k states, under a minute) | `TypeOK`; `DrainedOnExit`: the goroutine never exits with a buffered log or header; `DeinitReturns` (liveness): `wg.Wait` returns unless the process died |
| `deinit_returns_early` | no failures | violation | `Deinit` reaches `wg.Wait` before the goroutine ran `wg.Add(1)` and returns while the goroutine still runs (spec 5, scenario 6) |
| `send_on_closed_channel` | 1 subscription error | violation | a reconnect past its `shutdown` check subscribes into the closed `e.events`; the first forwarded log panics |
| `deinit_leaks_subscription` | RPCs fail | violation | after `ecEventsConnect` failed, `Deinit` finds no callback and leaves the log subscription live |

Every run finishes in under three minutes. PROJECT.json lists, for each property of
a passing run, a mutant of the code's definition (a plausible bug) that TLC
must catch.

### Bounds and why they are enough

- `MaxBlock = 3` with up to two logs per block and three in the chain. This
  allows a snapshot at an early block, blocks mined between the snapshot and
  the subscriptions (the overlap), and a registration, a state change and a
  minipool after it. Several of these can share a block, so a block is
  back-filled, replayed or cut by a failure half-way through. `faulty` allows
  two logs in all, which is enough for a failure before, between or after
  the logs of a block. The violation runs use one log per block except
  `lost_log_on_reconnect`. Three blocks of two logs each (~1.4M states, 27 min)
  and four blocks of one log (6 min) were tried. Neither stays
  within a run's time budget with the liveness and refinement checks.
- Two nodes make the "another node's minipool" and "unknown node" cases
  possible. One pubkey is enough, because the minipool index is insert-only
  and per key.
- `ReconnectRetries = 2` instead of 10. The loop is the same at any bound, and
  2 reaches both "retry then succeed" and "exhaust then panic".
- `SubErrorBudget` (0 or 1) bounds the number of subscription failures.
- `shutdown` uses MaxBlock 3 and `SubErrorBudget = 2`. That is enough for a
  value to be buffered when `Deinit` closes a channel and for blocks to be
  forwarded after it. A first reconnect can complete and a second one can
  overlap `Deinit`. The violation runs of `Lifecycle` keep MaxBlock 2 and at
  most one failure, which is all their traces need.
- The channels are unbounded in the model. With at most `MaxChainLogs` entries
  they never reach the code's capacity of 32.

### Fairness

- `WF_vars(Writer)`: the goroutine is scheduled whenever one of its select
  cases (or an Init or reconnect step) is enabled.
- `WF_vars(DeliverLog)` and `WF_vars(DeliverHeader)`: a live subscription
  eventually forwards a block the node has mined.
- There is no fairness on mining or on failures. The chain may stop, and
  failures may never happen.

- `Lifecycle` has weak fairness on each select case separately. Go's
  `select` chooses uniformly at random among the ready cases, so a case
  that stays ready is eventually taken. This matters because the `Err()` of
  an unsubscribed subscription is always ready and competes with the
  closed-channel cases. `Deinit`'s steps are weakly fair once it has been
  called. Calling `Deinit`, mining, forwarding and failures are not fair.

`CHECK_DEADLOCK FALSE` is set because the system really stops. `Init` can fail
and the reconnector can panic. At the model's last block the goroutine waits
in `select` forever.

## 4. Plan

1. Done: `Chain` and `ExecutionLayer`, the core (snapshot, ingestor,
   back-fill, reconnector, read operator), with the runs above.
2. Done: `Lifecycle`, which is `Deinit` against the goroutine and the
   reconnector, with the `shutdown` run and three violations.
3. Done: `OracleAbstract`, with the refinement checked in `reliable`.
4. Done: blocks with several logs, forwarded one log per notification, which
   show the intra-block loss behind `lost_log_on_reconnect`.
5. Done: `HandleEvent` includes the `highestBlock` update, `ForEachNode` is
   an operator, and `shutdown` runs at larger bounds.

## 5. Not modelled

- Generated gRPC stubs and the CI workflow.
- Logging.
- The sleeps of the retry loop: time is only interleaving here; the chain may
  mine blocks between any two steps.
- `GetContract` and `Dial`: they are part of `Snapshot`'s failure outcome.
- Reorgs, which are out of scope in the spec.
- Concurrent readers of `ValidatorFeeRecipient` (l.534). The writer changes
  only the `inSmoothingPool` bool in place. That is a Go data race, and the
  read yields the old or the new value. A registration stores a new
  `nodeInfo`, so a pointer a reader holds is frozen. Both indices only grow.
  Every answer is therefore the answer of some state during the call. A
  reader actor would only recheck this, and no plausible change of the code
  breaks it.
- `ForEachNode`'s early stop. It is modelled as the set of keys it visits
  when the closure never returns false. Which keys an early stop skips is up
  to `sync.Map.Range`'s order, and no property depends on it.
- One model of scenario 6 (`Deinit` with pending events) with the data.
  `Lifecycle` checks the control side: pending logs are drained before the
  goroutine exits (`DrainedOnExit`), and `Deinit` can return first
  (`deinit_returns_early`). `ExecutionLayer` checks what applying those logs
  does to the indices and `highestBlock` (`highest_block_rewind`).
  Composing the two multiplies their state spaces. It would check nothing
  that neither module checks alone. The goroutine is the only writer, and `Deinit` touches
  only the channels and the subscriptions.
