# TLA+ models of the eos-chronicle receiver

These modules model the receiver engine in
`src/chronicle-receiver/receiver_plugin.cpp` and the result types of
`chain_state_types.hpp`. The engine reads blocks from a node's state-history
websocket. It keeps a fork-aware, undoable state in chainbase, maintains a
cache of contract ABIs, publishes fork, block and trace events to exporters,
and throttles itself on exporter acknowledgements and queue depth.

The receiver code is translated into TLA+ actions. A few parts are not code of
this repository, so they are modelled from `spec.md` and marked
`spec_modelled` in `PROJECT.json`:

- the node's server;
- the chainbase store;
- the appbase queue's delivery;
- the downstream consumer;
- the process supervisor.

## The system and how its parts interact

| Part | Code | State | Operations |
|---|---|---|---|
| Connection loop | `start`, `start_read`, `continue_read`, `callback`, `catch_and_close`, `on_fail`, `close` | socket open or closed, read outstanding or not | connect and request, read a frame, fail, close |
| Fork controller | `receive_result` (419-511) | `head`, `head_id`, `irreversible`, `irreversible_id` | one frame: set revision, detect a fork, undo and publish a `fork_event`, check `prev_block`, ring insert and prune, publish the block, apply deltas, push, commit |
| Persistent store | `state_object`, `received_block_object`, `contract_abi_object`, `load_state`, `save_state` | state singleton, received-block ring, ABI records, undo stack, revision | undo all on start (and publish a restart `fork_event`), one scope per frame, `commit(min(irreversible, acked))` |
| ABI registry | `init_contract_abi_ctxt`, `clear_contract_abi`, `save_contract_abi`, `get_contract_abi_ready` | abieos context and `contract_abi_imported` (a cache of the records) | rebuild, clear, save (abieos may reject), lazy import |
| Delta demultiplexer | `receive_deltas` | none of its own | account rows go to the registry (`abi_update`, `abi_removal`, `abi_error`); contract rows import ABIs (`table_row_update` or `abi_error`); each delta ends with `block_table_delta` |
| Block and trace path | `receive_block`, `receive_traces`, blacklist | none of its own | publish the block; publish the traces whose first action is not blacklisted |
| Event bus | the `_..._chan.publish` calls, the appbase priority queue | queued deliveries | publish appends; the reactor delivers in order |
| Backpressure | `check_pause`, `ack_block`, `slowdown`, `exporter_will_ack_blocks` | `pause_time_msec`, `slowdown_requested`, `exporter_acked_block` | pause with exponential backoff, announce long pauses, re-armed by a timer |
| Protocol codec | `get_blocks_result_v0`, `table_delta_v0`, `account_object`, `key_value_object`, `action_trace`, `transaction_trace` | none | only the fields the receiver reads are kept |

Everything runs on one appbase reactor. The only suspension points are:

- the resolve, connect and read callbacks;
- the pause timer;
- the deliveries of published events.

`receive_result` does not yield, so it is one atomic action. `publish` only
queues a delivery. The exporter therefore sees a frame's events later,
interleaved with further frames, forks and pauses. The concurrency that
matters is between the receiver's steps and four actors:

- the server, which produces blocks, advances LIB, switches forks and pushes frames;
- the reactor delivering queued events to the exporter;
- the exporter, whose `ack_block` and `slowdown` run between frames;
- process crashes and restarts, which lose the queue.

## Modules

- **`ChainbaseStore.tla`** (`spec_modelled`). This is the store contract of
  spec.md section 3. A store is a record `[data, stack, rev]`:
  - `PushScope` materialises a scope at the current revision;
  - `undo` restores the top scope and decrements the revision;
  - `commit(n)` drops every oldest scope whose revision is `<= n`;
  - `Baseline` is what an undo of everything would restore.
- **`AbiRegistry.tla`**. A registry is `[ctx, abis]`:
  - `ctx` is the abieos context, and its domain is `contract_abi_imported`;
  - `abis` is the `contract_abi_index`;
  - one operator models each registry function of the code;
  - `AbisOfChain` is the reference definition from spec.md section 3, a fold over a branch's blocks.
- **`ChainFollower.tla`**. This is the abstract specification of what the
  event stream promises a consumer. It has two variables:
  - `branches`: every chain the node has held;
  - `view`: the consumer's chain.

  A step does one of three things:
  - `Learn`: the node moves on;
  - `Rewind`: the consumer drops top blocks;
  - `Adopt`: the consumer takes the next block of a held chain whose beginning it already has.

  So the consumer's chain is always the beginning of a chain the node held.
  It never has a gap and never has a block on top of another branch's blocks.
- **`Receiver.tla`**. This is the whole system: the server environment, the
  receiver, the event queue, the exporter and its downstream consumer, and
  restarts.

  | Action | Code |
  |---|---|
  | `start_after_dependencies` | `plugin_startup`'s call and each 1 s timer call: erase the leading started dependents (`RemainingDependents`), then re-arm the timer or run `start` |
  | `start` (inside `start_after_dependencies`) | `start` + `load_state` (restart `fork_event`, `RestartForkEvents`) + `request_blocks` (`HavePositions`) |
  | `check_pause` | `continue_read` + `check_pause` (`receiver_pause`, `PauseEvents`); the timer keeps the phase `ready` |
  | `receive_result` | `receive_result`, with `UndoWhileAtLeast`, `NetworkForkEvents`, `AddToRing`, `BlockEvent` (`receive_block`), `ApplyDelta` and `DeltaEvents` (`receive_deltas`), `save_state`, `CommitRev` |
  | `read_fails` | `on_fail` / `close` |
  | `deliver_event` | the reactor runs a queued delivery; the exporter forwards it (`Consume`) |
  | `ack_block` | `ack_block`, including the throw for a block below the acknowledged one |
  | `abort_receiver`, `slowdown` | the plugin methods |

  - **Environment actions:** `Restart`, `Produce`, `AdvanceLib`, `Fork`, `Send`, and
    `PluginStarted` (appbase starts one of the plugins registered with
    `donot_start_receiver_before`, in any order).
  - **Startup variables:** `dependent_plugins` (what is left of the
    registered list), `startup_pending` (a call of `start_after_dependencies`
    is due) and `dep_started`. A restart resets them.
  - **History variables:**
    - `accepted`: the branch the receiver has accepted;
    - `rejected`: some `receive_result` threw;
    - `ack_misused`: some `ack_block` threw;
    - `branches`: every chain the server held.
  - **Downstream table:** `exported`, block number to block id.
  - **uint32 subtraction:** `USub`, taken modulo `UIntMod`.
  - **Refinement:** `FollowerSpec` is `ChainFollower!Spec` under the mapping
    `view <- ViewOf(exported)`. A table with a gap maps to a chain the node
    never held.
- **`TraceFilter.tla`**. This models `receive_traces` with the
  `blacklist_actions` map that `plugin_initialize` builds:
  - `std::map::emplace` keeps an existing key;
  - a transaction trace is its sequence of top-level action traces.

  `PublishesExactlyUnlisted` compares what is published with spec.md's
  reference: a trace is dropped exactly when its first (account, action) pair
  is listed.
- **`MCReceiver.tla`**. This instantiates `Receiver` for TLC:
  - one account `a1`;
  - ABIs `v1`, `v2` and a rejected one `bad`;
  - `UIntMod = 2^16`. With all block numbers below 8, wrapping behaves exactly as it does at 2^32;
  - the dependent plugins: two (`follower`), one (`live`) or none (the other runs).

  `MCTraceFilter.cfg` instantiates `TraceFilter` directly with model values.

### The server environment

The server holds a chain of blocks `[id, op]`, where the id is the fork
generation that produced the block. It also holds a LIB and the next block it
will push on the connection.

- `Fork` replaces the chain from some block above LIB and rewinds `next` to the fork point.
- On a new connection the server resumes from `ResumeFrom`. This is
  `start_block_num`, unless a `have_positions` entry names a block id the
  server no longer has.

The constant `ReceiverKeepsUp` decides whether LIB may pass a block the
receiver has not accepted yet. This is the normal regime, since LIB lags the
head by hundreds of blocks. The `late_fork` run drops the assumption.

### The consumer

The consumer keeps blocks by number. A block event stores its block, and a
fork event drops blocks from `fork_block_num` up, as spec.md section 5
describes fork events. With `ConsumerReadsReason`, a restart fork event
instead keeps its `fork_block_num`, which is what `load_state` puts there: the
head it kept.

The consumer also records, for each block, the delta events that follow its
`block_event`: `abi_update`, `abi_removal`, `abi_error` and
`table_row_update`. A `table_row_update` carries the ABI its row was decoded
with. A block is *closed* once a later block event has arrived; every event of
a closed block has been delivered, since the queue is FIFO.
`ConsumerSeesBranchDeltas` compares each closed block's record with
`ExpectedDeltaEvents`, a reference taken from spec.md sections 4.4 and 4.6.
The reference is computed from the branch's blocks and the ABIs their earlier
blocks define (`AbisOfChain`), not from the registry code.

`branches` holds every chain the server held, with block contents.
ChainFollower sees their id sequences.

### The exporter's acknowledgements

`AcksBlockEvents` chooses how the exporter acknowledges blocks:

- `TRUE`: it acks up to the block of the last `block_event` it delivered.
- `FALSE`: it acks only blocks that a later `block_event` has closed.

Nothing in the events marks where a block's events end, so the second is the
earliest point at which an exporter knows it has all of a block.

## Runs

| Run | cfg | Expect | What it shows |
|---|---|---|---|
| safety | `MCReceiver.cfg` | pass (about 8.7M states, about 2 minutes) | `AbiCacheCoherent`: the decoder cache matches the stored records whenever connected. `StoreFollowsAccepted`: the state, ring and ABI records always describe the accepted branch, through a fork, a restart, acks, queued deliveries and a full queue. `NoProtocolError`: no frame from a well-behaved server is rejected. |
| live | `MCReceiverLive.cfg` | pass (about 1M states, about 3 minutes) | `CatchesUp`: under fairness and without forks, an open connection always reaches the server's head; backpressure releases once the exporter acks. `ReceiverLaunches`: a stopped process always runs `start`, polling a dependent plugin that appbase starts late on the 1 s timer. `FollowerSpec` and `ConsumerSeesBranchDeltas` hold with a crash that loses queued events. This needs an exporter that acks only closed blocks and a consumer that reads restart fork events by their reason. Then only blocks whose events were all delivered are committed. |
| follower | `MCReceiverFollower.cfg` | pass (about 4M states) | `FollowerSpec`: through a fork, failing frames, pauses, slowdowns and acks (no crash), the events delivered keep the consumer on a chain the node held. `ConsumerSeesBranchDeltas`: every closed block came with exactly its branch's ABI and row events, rows decoded with their own branch's ABI after the fork's rollback. With an ABI that abieos rejects, `AbiCacheCoherent` and `StoreFollowsAccepted` hold too. `DependentsStartedFirst`: with two dependent plugins started in either order, `start` never runs before both have started. |
| trace_filter | `MCTraceFilter.cfg` | pass | `PublishesExactlyUnlisted` over two block results of up to two traces of up to two actions. |
| fork_crash | `MCReceiver_ForkCrash.cfg` | violation | After a fork, block b's scope is pushed as revision b-1, so an unacknowledged fork block is committed. A crash then loses its queued `block_event`, and the consumer never receives it. |
| double_fork | `MCReceiver_DoubleFork.cfg` | violation | That revision drift lets `commit(irreversible)` commit a reversible fork block; a second fork at the same height then fails with "Cannot rollback", and fails again after every reconnect. |
| late_fork | `MCReceiver_LateFork.cfg` | violation | A fork block that arrives after LIB passed it is not taken for a fork; the duplicate ring insert throws. |
| ring_pruning | `MCReceiver_RingPruned.cfg` | violation | The ring is pruned with the previous frame's irreversible block. |
| ack_on_block_event | `MCReceiver_AckOnBlockEvent.cfg` | violation | The exporter acks block 2 on its `block_event`, and the next frame commits block 2 while its `abi_error` is still queued. A crash loses that event. `load_state` keeps block 2 and the receiver resumes at 3, so the consumer never gets block 2's delta event. |
| reader_wedged | `MCReceiver_ReaderWedged.cfg` | violation | After a fork below the acked block, `head - exporter_acked_block` wraps, the reader pauses, and the pause never ends. |
| ack_after_fork | `MCReceiver_AckAfterFork.cfg` | violation | After that fork, an exporter acking the block it just delivered makes `ack_block` throw. |
| restart_fork_event | `MCReceiver_RestartFork.cfg` | violation | A consumer that reads the restart fork event as section 5 describes drops the head block and then gets head+1, leaving a gap. |

Every property of a passing run has a mutant in `PROJECT.json`: a plausible bug
in the mapped definition that the property catches. The mutants are:

- an uncapped backoff;
- a `clear_contract_abi` that does not rebuild the context;
- a `clear_contract_abi` that only removes imported ABIs;
- the undo loop with `>` instead of `>=`;
- `save_contract_abi` storing or importing before validating;
- a pause timer that never resumes the read;
- a dropped network `fork_event`;
- a commit that ignores acknowledgements;
- a blacklist test on any action of the trace;
- a `clear_contract_abi` that publishes `abi_removal` when there was no record;
- a `get_contract_abi_ready` that never reloads from the store;
- `start_after_dependencies` with an `if` in place of its `while` loop, which launches once the first dependent has started;
- `start_after_dependencies` without re-arming the timer.

Backoff: `pause_time_msec` is doubled while it is below 8000, so it goes
6400, 12800, 12800, ... where spec.md 4.7 says `min(pause * 2, 8000)`.
`TypeOK` bounds the pause at 12800, and a mutant without the cap breaks it.
The divergence is listed as a hazard in `PROJECT.json`.

### Bounds

The runs use:

- `MaxBlock = 3`: a fork needs two blocks above LIB, and a second block on the new branch.
  `live` takes `MaxBlock = 4`. A row decoded after a restart needs an ABI
  block, the restart, the row's block and a block to close it.
- one restart;
- one frame in flight;
- `MaxUnconfirmed = 2`, so a pause happens with two unacknowledged blocks.

The queue bounds are:

- `MaxQueueSize = 0` in `safety` and `follower`, so any queued delivery pauses
  the reader. It is 1 in `fork_crash`, `ack_after_fork` and `restart_fork_event`, and 100 (never full) in the other runs. `live` needs the large bound; see Fairness.
- `MaxEvents = 2` in `safety`, `follower`, `live` and `reader_wedged`, and 4
  elsewhere. This is a model bound: no pause is taken while that many
  deliveries are queued. Deliveries drain the queue, so the bound delays a
  pause and never blocks one for good.

Each frame now queues up to three events: the block, a delta event and the
`block_table_delta`. The runs about block numbers alone (`double_fork`,
`reader_wedged`) therefore use blocks without deltas (`MCBlockOpsNone`).
`fork_crash` turns the delta subscribers off. Slowdown is exercised in
`follower` only.

One fork is enough for every passing run. Two forks are needed only by
`double_fork`.

The refinement runs split the two hazards so that each is checked on its own:

- `follower` has a fork and no restart;
- `live` has a restart and no fork.

With both, `fork_crash` fails. `MaxBlock = 4` is beyond a few minutes of TLC.

### Fairness

`FairSpec` assumes weak fairness of:

- `start_after_dependencies`: `plugin_startup` makes the first call and the
  reactor runs the timer's later calls;
- `PluginStarted`: appbase's startup runs `plugin_startup` of every plugin;
- `check_pause`: the reactor runs the queued `continue_read` and the timer fires;
- `receive_result`: a frame that has arrived is read;
- `deliver_event`: the reactor drains its queue;
- `Send`: the server keeps pushing while the socket is open;
- `ack_block`: an exporter that declared `exporter_will_ack_blocks` acks what it received.

Failures, aborts, restarts, `slowdown` and the server's chain changes are never
forced.

The liveness run disables `slowdown` and takes a large `max-queue-size`, for
two reasons:

- An exporter that requests slowdown forever may legitimately stall the reader.
- A pause of 2 s or more publishes a `receiver_pause` into the queue that the
  next check measures. Whether the queue drains before the timer fires is a
  matter of timing that the model does not represent. With `max-queue-size = 1`,
  TLC finds the loop: each timer fire publishes one `receiver_pause`, and the
  reactor delivers one, so the depth never drops below the limit. That needs
  deliveries as slow as the timer (see the hazard at line 343 in `PROJECT.json`).

## What is not modelled, and why

- Frame, delta, trace and ABI decoding, zlib, and the `chain_state_types.hpp` reflection: pure functions with no state. The result and delta structures are records of the fields the receiver reads.
- The trace events in `Receiver`'s queue. `TraceFilter` checks the trace channel on its own. The blocks of `Receiver` carry no traces.
- More than one delta row per block, and the `added` flag of table rows.
- `exporter_initialized`: a throw at initialisation when a second exporter registers. No state survives it.
- The exact appbase start order. Dependents register in their `plugin_initialize`, after the receiver's, so in a real process they start after the receiver's `plugin_startup`. The model lets them start at any time, which includes that order.
- `plugin_initialize` beyond the blacklist, and the options: they run once, before the loop.
- The real chainbase revision arithmetic. chainbase's session may number revisions differently; the model follows the contract in `spec.md`.

## Plan for later work

1. Trace events in `Receiver`'s queue, to check the full per-block order of
   spec.md section 5.
2. A second abstract specification, of the store: the accepted branch and a
   commit point. `Receiver` would be shown to refine it, mapping `accepted` and
   `Baseline(db)`.
