# TLA+ specifications of the M20-B prefill scheduler

These modules model the MoE chunked-prefill runtime in
`src/runtime/m20/sglang/srt`: how prompt chunks move through the layer groups of
a model in cohorts, which cohort runs next, how the server loop feeds and drains
the cohorts, how a recorded run is replayed, which experts are planned for a
cohort, and how their weights reach the GPU without a layer ever reading the
wrong ones. TLC checks small instances of every module; the theorems in the
`*Proofs` modules are checked by TLAPS for every value of the constants.

## 1. The system

A long prompt is split into chunks. The model's layers are split into groups of
`G` layers. Instead of running a chunk through all the layers at once, the
scheduler runs one *group* for one *cohort* of up to `C` chunks, then chooses
again. Each group needs a set of `S` experts per layer on the GPU; two physical
buffers (A/B) hold the experts of two (group, plan) pairs at a time, and at most
`K` experts per layer are replaced from one plan of a group to its next. Without
group buffers, each layer can swap experts of its own at run time, prefetched
while earlier layers run. Weights are read from files by a pool of threads. A
long prompt may instead run whole layers on the GPU, loaded from the CPU's
weights just before, on all tensor-parallel ranks together.

| Component | Code | State it keeps | Operations | Module |
|---|---|---|---|---|
| Stage ready queues | `kt_stage_scheduler.py` `StageReadyQueues`, `ChunkStageState`, `NextActionTicket` | status, group, version and owner of each chunk; the ready list of each group; the chunk each request has in flight; the epoch | admit, reserve, mark_running, unreserve, complete_group, finalize, fail | `StageReadyQueues` |
| Stage scheduler | `StageScheduler` | last group and its streak, the outstanding ticket | choose_next, mark_running, complete_group, unreserve | `StageScheduler` |
| Working set | `StageScheduler._current_plans` .. `complete_group` | two abstract buffers, last committed plan of each group, pending candidate | plan builders, slot assignment, simulated materialization, commit | `WorkingSet` |
| Event loop and continuations | `scheduler.py` | batch in hand, last batch, waiting queue, `chunked_req`, pending continuations, running decode batch | receive, admit, activate, merge, select, run, advance, finalize, decode, retract, abort, pause, flush | `EventLoop` |
| Stage batch | `kt_stage_batch.py` | none | pack the chunks of a cohort, demultiplex the result | `StageBatch` |
| Action trace and replay | `ActionTraceWriter`, `ActionTrace`, `ActionReplayCursor` | event log, cursor | append, load, reserve_next | `ActionReplay` |
| Group expert buffer | `kt_group_expert_buffer.py` | A/B records with state, plan, versions, events, leases; the lookahead in progress | begin/end action, activate, finish, prefetch, adopt, discard, abort | `GroupExpertBuffer` |
| Runtime expert swap | `kt_ep_wrapper.py` `KTEPWrapperMethod` | three mapping tables per layer, live slots, pending prefetch per layer | plan, schedule, commit, drop, swap in the foreground | `RuntimeSwap` |
| Expert loader | `kt_ep_wrapper.py` `RuntimeHFExpertWeightLoader` | prefetch futures and cache, tensor cache, host registrations | prefetch, consume, load, register, evict | `ExpertLoader` |
| Full-GPU prefill | `kt_ep_wrapper.py` `SharedFullContext`, `KTEPWrapperMethod.apply` | the shared full layer, two pinned buffers on each rank, placement of each layer | load, compute, update from the batch | `FullLayerLoad` |
| Model runner, server args | `model_runner.py`, `server_args.py` | forward state, flags | call the manager around each group; validate flags | in part |
| Tools, scripts, patches, tests | `inter_layer_predictor/`, `scripts/`, `environment/`, `upstream_snapshot/`, `tests/` | files | benchmarking, calibration, installation | none |

How they interact. The event loop (one thread) receives requests, lets the
legacy path form a one-chunk prefill batch, admits it to the queues, asks the
scheduler for a ticket (or the replay cursor for the recorded one), packs the
chunks of the ticket into one batch, marks it running, runs it through one group
and completes the group; after the last group the result is processed and the
chunks are finalized, which hands the continuation of their requests back to
admission. The model runner binds the ticket to a physical buffer through the
group buffer manager, which may fill the other buffer for a recorded next action
on a second thread and a copy stream. What a ticket froze (chunks, versions,
plans, source) is checked again when it is completed.

What is hard:

* *Ordering and ownership.* Tickets outlive their reservation; a caller may
  present any of them. Nothing but the chunks' own status and owner protects the
  queues. A request of several chunks is handed between seven lists of the loop.
* *Fairness.* Streaks, windows, cohort sizes, deadlines and free scoring policies
  interact; chunks keep arriving; decode batches compete for the same loop.
* *Stale state.* The source plan, buffer and versions of a ticket are read at the
  choice and used at the commit; two buffers are shared by all groups; a swap
  planned for a layer is committed when the layer may have swapped by itself.
* *Partial failure.* Packing or running fails between reserve and complete, reads
  and registrations fail on other threads.
* *Concurrency.* The pipeline thread, the copy stream and the compute stream of
  the group buffers; the worker that writes live slots; loader threads that share
  two caches. The GPU runs behind the host, and only events keep a copy from
  overtaking a reader. Rank 0 has the buffers of all ranks written.
* *Restart.* A second process replays what a first one recorded, perhaps not to
  its end, against clients with another timing.

What makes each part correct: each chunk is owned by at most one ticket and
moves through the groups one at a time with its cohort (queues); every admitted
chunk leaves, the oldest is passed over boundedly, expired ones go first
(scheduler); no request is lost, doubled, decoded before its prompt is through or
kept waiting for ever (event loop); every chunk gets its own rows back (stage
batch); replay goes on exactly while the queues hold what was recorded (replay);
a plan that changes a layer copies no more of it than needed and starts from a
source that lags by at most `K` (working set); no buffer is read while it is
written and no partial plan is exposed (group buffer); a layer computes with the weights its mapping names
(runtime swap); registered memory is in the cache, and whoever waits is served
(loader); every rank computes a whole layer with that layer's weights (full-GPU
prefill).

## 2. Modules

| Module | Contents |
|---|---|
| `ChunkPipeline` | What the queues promise: a chunk waits, is held, and moves to the next group or leaves. |
| `StageReadyQueues` | The queue class, one action per method; refines `ChunkPipeline`. |
| `StageScheduler` | `choose_next` and the loop that drives it, over recycled places. |
| `StageSchedulerProofs` | Ownership, anchor, arrival order, deadlines, streaks and how often the oldest is passed over, proved. |
| `EventLoop` | The server loop around the queues; extends `StageBatch`. |
| `EventLoopProofs` | Where every request is, slots, flushes, aborts and the rows of every chunk, proved. |
| `StageBatch` | Pack and demultiplex, as operators. |
| `ActionReplay` | Recording, restart and replay; extends `StageReadyQueues`. |
| `ActionReplayProofs` | Of the queues: invariants, action properties and the refinement, proved. Of the replay, which rests on them: bound tickets, replay exactly as recorded, refusal without a trace. |
| `WorkingSet` | Plans, slot assignment, the two abstract buffers and the commit. |
| `WorkingSetProofs` | What the planners and the slot assignment keep to, the two buffers and the copies, proved. |
| `GroupExpertBuffer` | The two physical buffers: serving thread, pipeline thread, copy and serving stream. |
| `GroupExpertBufferProofs` | Readers, valid records, plans and lookaheads of the two buffers, proved. |
| `RuntimeSwap` | Mapping tables, live slots and prefetches of every layer, main thread and workers. |
| `RuntimeSwapProofs` | The tables and the weights, proved for all safe settings. |
| `ExpertLoader` | Caches, futures and registrations under any number of threads. |
| `ExpertLoaderProofs` | What is registered and when it leaks, that no prefetch is lost, proved. |
| `FullLayerLoad` | Whole layers loaded through two buffers on all ranks: host, kernel, two streams. |
| `FullLayerLoadProofs` | What rank 0 computes with and what other ranks may get instead, proved. |
| `MC*` | Instances for TLC, one `.cfg` for each question. |

### StageReadyQueues

Variables are the fields of `StageReadyQueues.__init__` and of
`ChunkStageState`; `tickets` is what callers keep. `Admit`, `Reserve`,
`MarkRunning`, `Unreserve`, `CompleteInnerGroup`, `CompleteFinalGroup`,
`Finalize` and `Fail` are the methods of those names; a call that raises before
it changes anything is a disabled action. The environment is as hostile as the
interface allows: any ticket ever issued may be presented to any method at any
time. Ready lists are sets: they are sorted after every append, so their order
follows from their members. `assert_invariants` (lines 773-798) is covered by
`ReadyMembership`, `TicketOwnership` and `ActiveMapExact`, together
`AssertInvariants`.

### StageScheduler

The `max_inflight_states` places are the identities: a chunk that leaves frees
its place for a later one, so behaviours admit chunks for ever and liveness is
about a stream, not about a finite batch. Age is a relation (`older`) instead of
the growing `enqueue_seq`. The streak is counted up to `max_consecutive`, the
only value it is compared with. Deadlines are admission time plus a constant,
so they pass in order of age (`DeadlinePasses`). The policy is fixed at the start
(`policy`), and the proofs hold for all of them. A scoring policy may return any
candidate `_policy_candidates` builds (`ChooseScored`); `cost_oracle` may also
fall back to fifo, and its behaviours include those of `min_delta`. A failure of
packing or running leaves the loop, as in `event_loop_normal`: `alive` becomes
false and the process stops, with the cohort given back or failed as a whole
(`TicketOwnsWhatIsOut`).

`bypassed` is a history variable: dispatches since the oldest chunk last ran,
counted up to one more than `PassedOverBound`.

### EventLoop and StageBatch

One iteration of `event_loop_normal` is `BeginIteration` (with `CanAdmit`,
`Activates`, `Merge`), then `AddChunked`, `AddWaiting` or `NoToken` (the legacy
prefill path), a decode (`Decode`, `RetractDecode`) or nothing, then `Admit` and
`Select`, then `AdvanceInner`, `AdvanceFinal` or `RunDecode`. Client messages
(`Arrive`, `Abort`, `PauseInPlace`, `PauseAndRetract`, `Continue`) are handled
between two iterations. What the waiting queue, `chunked_req`, the pending
continuations, the queues, `last_batch` and `running_batch` hold are variables of
their own, as is `running_batch.batch_is_full`. Which cohort is chosen is left
open. Memory is open as well: the prefill adder may refuse (`NoToken`), and the
decode batch may run out a bounded number of times. Whether the loop over the
waiting queue looks at a second request, and so finds the slots used up and sets
`batch_is_full`, is open unless the first one was cut, which ends the loop
(`TakesChunkOf`). `StageBatch` gives a chunk
one row per token, marked with its owner and the groups it went through; the
loop packs, forwards and demultiplexes them when a cohort runs.

The stage options forbid overlap, mixed chunks, preemption, disaggregation and
speculative decoding (`server_args.py` 1165-1243); those paths are absent.

### ActionReplay

The full queues of `StageReadyQueues`, driven by the loop: `AdmitChunk`,
`SkipAdmission`, `Plan` or the cursor (`ReplayNext`, `Await`, `NotSchedulable`,
`Diverged`, `EpochDiffers`, `Missing`), `Dispatch`, `Materialize`, `Complete`,
`FinishChunks`. An iteration that has admitted a chunk must find something to run
(`_prepare_kt_fifo_split_batch`), one that has not may idle; hence the two program
points "admitted" and "select". `Restart` stops a recording after any step, loads what was
written and starts a second process whose clients submit in any order.
`EpochDiffers` is `reserve_next`'s rollback, written out field by field.
`states` is a history of what the queues held at each recorded ticket. The file
format with its hash chain, and the comparison of plans in `materialize_ticket`,
are data and left out.

### RuntimeSwap

`map[l]` holds the three tables `update_gpu_expert_mappings` and
`_apply_runtime_gpu_mapping_delta` keep in step; `weights[l]` what the live slots
really contain. On entering a layer the main thread commits, misses, drops or
forgets the pending prefetch (`CommitPrefetch`, `MissedIt`, `DropMissed`,
`FailedIt`), then schedules prefetches for later layers (`SchedulePrefetch`),
swaps in the foreground or keeps what it has, and computes. The worker
(`WriteLiveSlot`, `FinishJob`, `FailJob`) runs in between. `opt` is the settings
of the process, fixed at the start; `SafeOptions` is described in section 5.
Which experts are wanted is open.

### ExpertLoader

One step for each lock the class takes: look up, read, register, insert with
eviction, unregister; every public entry first drains what is done. Whether to
register is asked before the lock is taken (3611), so a thread that has asked may
register after the registration of another has failed. `locked` marks the tensors
of one read as page-locked, `leaked` remembers that such tensors were dropped while
nobody tries to unregister them, `raced` that two threads had the same expert in
hand. A driver that refuses to unregister is only warned about and the key goes all
the same (3657-3667); its memory does not count as leaked. Modelled with
`SGLANG_KT_RUNTIME_REGISTER_CPU_TENSORS=1` (default 0: pinned tensors, nothing to
register).

### WorkingSet

A plan is a function from slots to experts for every layer of a group. Demand is,
for each layer, any function of a given set; `RankBoundedPlans` is
`_build_rank_bounded_plans` (used by fifo and min_delta) and `CostBoundedPlans`
every result `_build_cost_bounded_plans` may reach, its score being left open.
`AssignSlots` is `_assign_slots`; `CopyKind` is the operation
`_simulate_materialization` issues for a slot. Of `content_version` only the
order of the two buffers matters (`last_written`); `version`, which only counts,
is left out. Any group may be next: what `StageScheduler` would choose is a
subset.

### GroupExpertBuffer

The manager in action mode, as `_forward_raw` drives it for a stage batch:
`BeginAction`, `AdoptPending` or `DiscardPending`, then `ActivateLoaded`,
`ActivateResident` or `LoadForeground`, `PrefetchAction`, `Forward`,
`FinishGroup`, `EndAction`. `_background_materialize` on the pipeline thread is
`PipelinePlans` (what it reads of the records), then the reads of the experts,
which take time and may raise (`PipelineFails`), then `PipelineEnqueues`.

The serving stream is the queue of computes the host has launched, each with the
weights it was launched for; the copy stream is a queue of loads. A CUDA event is
the position in the serving stream it was recorded at, so waiting for it is
waiting until that number has counted down to 0 (`ServeStep`). `mem` is what the
slots really contain: records are claims about it (`ValidMeansLoaded`).

A group is one layer (layers of a group are planned, copied and committed
together). The replacement budget has its default, which refuses no plan. Four
branches are not there because the model shows that nothing reaches them: the
refusal to overwrite the ACTIVE buffer and the rejections of an adopted lookahead
(`record_mismatch`, `zero_plan_changed`) are excluded by `LookaheadStaysGood`, a
LOADING record met by an activation that did not adopt it by `LoadingHasOwner`.
After an abort the exception leaves the scheduler loop (`Stopped`). Why a
lookahead may be in vain is fixed at the start (`upsets`): the reads may fail, or
the action that comes may be another one.

### FullLayerLoad

One program counter for each rank. `StartLoad` is `SharedFullContext.load` up to
the loop of `_prepare_weight_*`: what is on the GPU is copied from the layer
(`Shortcut`; the int4 path takes all experts from the CPU), and rank 0 submits the
first write. `WriteAhead` is rank 0's part of an iteration: wait for the write
(`Written`), wait for its own copy of the expert before (`BufferFree`), submit the
next. `LaunchCopy` is the barrier, which a rank leaves when all have entered it as
often (`AllEntered`), and the launch on the copy stream. The kernel writes the
buffers of the ranks in any order or at once (`BeginWrite`, `EndWrite`); a buffer
being written holds `Torn`. `Copy` and `Post` are the streams: copies of a rank
are done in order, any time after their launch; the int4 format is repacked in
place afterwards. `Loaded` is the wait of the serving stream for both, `Select`
and `Follow` the update from the batch with its broadcast.

External, and assumed: the kernel has written when `sync_write_*` returns; a
barrier is left only after all have entered it and says nothing about other
streams; the ranks reduce their results between two MoE layers (`NextLayer`), so
no rank starts a layer while another computes the one before. `load` starts with
a device-wide synchronization, so nothing is left on its streams. What the update
selects is open.

## 3. Runs

| Run | Question | Bounds and why they suffice |
|---|---|---|
| `ready_queues` | Ownership, membership, in-flight map, refinement | 4 chunks of 3 requests, 2 groups, 4 tickets, 2 requests in flight: an old ticket can meet a new owner of the same chunks, a request submits a second chunk, an inner and a final group exist, the bound is reached with a request waiting. |
| `scheduler` | Arrival order, ownership, streaks, deadlines, how long the oldest waits, starvation | 4 places, 3 groups, C=2, W=3, Q=2, fifo and the free scoring policy: a queue can be longer than the window, which is longer than a cohort, so partners are chosen past older chunks; streaks run out, cohorts straddle groups. |
| `event_loop` | Are requests lost, doubled, decoded early, kept waiting; do rows return home; do aborts arrive | 3 requests, 2 of them of 2 chunks, cohorts of 2, 2 in flight, 1 running: two continuations can be pending at once while a third request waits and a fourth name returns; one retraction, one pause, one impatient client. |
| `event_loop_pause` | The rule that continuations are not merged | violated; see section 5. The same instance with a pause at any time. |
| `action_replay` | Does replay go on exactly as recorded, or stop without a trace | 3 prompts, 2 groups, 2 in flight: continuations, a chunk that is not there yet, ids that name other chunks, an epoch that differs although the chunks agree. |
| `working_set` | Lag of the source, needless copies, doubled plans | 2 groups on 2 buffers (eviction), 2 layers, 4 experts in 2 slots, K=1, both plan builders: a layer can stay as it is while the other one changes, and the two buffers can hold the same experts of a layer in two orders. Two demands for each layer: enough to change it and to change it back. |
| `group_buffers` | Are weights overwritten under a reader; are records true; does an action run on its own plan; what do failed or unwanted lookaheads leave behind; do actions get served | 2 groups, 2 buffers, 3 experts in 2 slots, 2 computes outstanding, two plans that share one expert in different slots: every delta kind (retain, device copy, read), eviction, a lookahead into a buffer still being read; with and without reads that fail and actions that differ. |
| `group_buffers_lost_wait` | The comment on waiting for earlier readers | violated; see section 5. |
| `runtime_swap` | Do layers compute with the weights their mapping names; can a plan raise (deadlock) | 2 layers, 4 experts in 2 slots, no limit of changes: a prefetch for a layer can be late, committed, dropped or fail while the layer swaps itself, and replace one slot or both. |
| `expert_loader` | Registrations, leaks, the prefetch cache, waiting | 2 experts, 3 threads, caches of 1: every insertion evicts, two threads can read one expert at once, the prefetch cache is full after one. |
| `full_layer_load` | Does rank 0 compute with the right weights; what can another rank get | 2 ranks, 2 layers (what is left of another layer shows), 4 experts, 3 or 4 of them through the 2 buffers: each buffer is taken again, and both placements of each layer follow each other. |
| `full_layer_load_ranks` | The comment on waiting for the copy before the buffer is written | violated; see section 5. |

Deadlock is checked in every run but `ready_queues`, whose finite set of chunks
ends. In `StageScheduler` the only stop is `Stopped`, after an exception has left
the loop; `GroupExpertBuffer` stops only after an abort, `ActionReplay` only when
a process has ended. In `runtime_swap` the deadlock check says that
`_build_runtime_swap_plan` never raises for a plan that takes more than it frees;
in `event_loop` it says that admission never raises for lack of room in the
stage queues; in `full_layer_load`, that ranks which enter one barrier for each
expert from the CPU agree on their number. Symmetry (of tickets, in
`ready_queues`) is used only where no liveness is checked.

## 4. Fairness

`StageScheduler`: weak fairness of choosing, dispatching, completing and
finalizing. `event_loop_normal` is a `while True` on one thread that performs
exactly one of them per iteration when it is enabled. Nothing is assumed of
clients, clocks or failures.

`EventLoop`: weak fairness of the iteration, of selection, and of the client that
continues what it paused. Strong fairness of choosing each request
(`ChoosesRequest`) is what `StageScheduler.EveryChunkLeaves` establishes for the
real choice, which is open here. Nobody has to submit, abort or pause.

`ActionReplay`: weak fairness of the loop; that an iteration of a replay without
a chunk to admit skips; strong fairness that some chunk is admitted when one can
be (clients of a replay do submit).

`GroupExpertBuffer`: the two streams and the pipeline thread are weakly fair: the
GPU executes what is queued and the executor's single worker runs what it was
given; either outcome of a read will do. An action that was begun is carried on
by straight-line code. Nobody has to begin one, and the fairness of `AbortStep`
is not assumed.

`ExpertLoader`: every thread takes its next step; nobody has to ask for anything.

## 5. What the checks show

* Every property of the queues holds against any use of old tickets, and the
  queues implement the abstract pipeline.
* Under fifo no chunk overtakes an older one. With any scoring policy every admitted chunk leaves or the process stops, and
  the oldest chunk is passed over at most `(places - 1) * (groups - 1)` times:
  whoever passes it has to queue up behind it at its own group. Starvation
  freedom needs the anchor rule of `_policy_candidates`.
* The loop loses and doubles no request, flushes the KV pools only when no
  request uses them, and brings every request to an end, given the pauses of
  `PauseAllowed`. The slots of the request pool in use are at most
  `MaxRunning + MaxInflight - 1`, not `MaxRunning`: `get_num_allocatable_reqs`
  (3784) does not count what is in the stages.
* **A pause between a cohort's last group and the next admission.**
  `pause_generation` (4838-4869) leaves out of its merge at most `chunked_req`;
  in stage mode the continuations are in `_kt_stage_pending_continuations`. Run
  `event_loop_pause`: requests with prompt chunks left enter the running batch
  and decode. The comment at 2765-2767 says every continuation is excluded.
* `PauseAllowed` excludes one more case from `event_loop`: a pause in place that
  filters a finished `last_batch` while nothing runs leaves
  `running_batch.batch_is_full` set, and the waiting queue is not looked at again.
* An abort of a request whose continuation waits behind another one is lost
  (`abort_request` looks at no such list); `AbortReaches` states the exception.
* Replay goes on exactly when the queues hold what was recorded: epoch, chunk
  versions and groups together decide it, nothing less (`AnyEpoch` breaks it). A
  refused replay restores the queues exactly. A trace cut off after its first
  ticket was planned passes for an old trace without plans (1733-1755), the
  exception in `ReplaysBoundTickets`. While tickets are left, an admitted chunk
  always finds the next of them due, so a replay that never diverges gets to the
  end of its trace (`ReplayEnds`). Then nothing chooses any more: the next chunk
  that is admitted raises "newly admitted stage batch was not schedulable"
  (`scheduler.py` 1474-1477) and the process ends.
* The source check of `complete_group` ("logical source diverged before commit")
  never fires, because one ticket is outstanding at a time.
* A layer whose experts change copies no more of them than any order must
  (`ChangedLayersCopyLeast`). A layer whose experts do not change keeps the order of
  its source whatever the target buffer holds (`_assign_slots` 952-954). When
  another layer of the group changes, so that the ticket is materialized, it may
  then copy more than it had to: with source (1, 2) and target (0, 1) two experts,
  where the order (2, 1) would leave 1 in place. These are copies from the source
  buffer, never reads from the host.
* `docs/09_end_to_end_inference_flow.md:194` says a ticket's source is the plan
  its group committed last; `_current_plans` (883) prefers the surviving buffer
  with the highest `content_version`, which an exact match does not raise.
  `SourceNearLastCommitted` shows the lag is at most `K` experts per layer, so
  two plans committed in a row can differ by up to `2K`.
* No copy overtakes a reader (`OnlyDiscardsLoseReaders`) while background loads
  succeed and every lookahead is for the ticket that comes next (which replay
  guarantees), however far the host is ahead: the wait for the last compute of
  the buffer that is written is what this rests on. The wait for the source's
  last compute and the lease of a source never bite in action mode: a copy only
  reads its source, and the next load is planned after the one before was
  committed or drained, so the copy stream never holds two (`OneLoad`).
* A failed or unwanted lookahead leaves no half-filled record, and every action
  that is begun is served.
* **A failed background load loses the wait for the readers of its buffer.**
  `_discard_pending_action` drains the copy stream only, and
  `_invalidate_record` (line 1397) clears `compute_done_event` with the rest of
  the record. The load that takes its place finds no event to wait for, against
  the comment at lines 1612-1614 ("This storage may still be read by an earlier
  group on the serving stream"). Run `group_buffers_lost_wait`. The host must be
  ahead of the GPU by more than one group, so it takes
  `SGLANG_KT_SYNC_AFTER_CPU_SUBMIT=0`: by default the host waits for the CPU
  experts in every MoE layer (`MaxAhead = 1`), and there the order holds even
  when background loads fail.
* **The copies of ranks other than 0 are not waited for.** In the loops of
  `_prepare_weight_*` (2616-2636 and its siblings) rank 0 waits for the event of
  its own copy and then has the kernel write the buffers of all ranks. The other
  ranks have launched their copies, as the barrier shows, but may not have
  finished them. Run `full_layer_load_ranks`: rank 1 computes with a half written
  expert or with a later one of the same buffer, against the comment at 2624. It
  takes two ranks and a copy slower than the write of one expert.
  `OvertakenByLaterOnly` is what is left for these ranks: never an expert of an
  earlier position or another layer. Rank 0 is right (`MainRankIsRight`), also
  after any number of updates from batches.
* Runtime swap: under `SafeOptions` a layer always computes with the weights its
  mapping names. The settings left out were found by TLC counterexamples and are
  worth knowing (lines of `kt_ep_wrapper.py`):
  - `READY_ONLY=1` with staging and `DISCARD_MISSED=0`: a late plan is committed
    over a foreground swap; with `MAPPING_FULL_COPY` the tables then name
    experts the slots do not hold.
  - `STAGING=0` and `READY_ONLY=1` without the background worker, or with
    `DIRECT_BLOCK_ON_MISS=0`: the layer runs on half-written slots, against the
    docstring of the live-slot path (4267-4273). Without the worker
    `live_slot_write` is never set.
  - `STAGING=0` and a read that fails: the pending record is dropped (5795-5812)
    or never made (6164-6175), and the overwritten slots stay under the old
    mapping.
* Expert loader: what is registered is in the cache (comment at 64-68), or in the
  hands of a thread. Registered tensors can still be dropped, but only after two
  threads had one expert in hand: a second read replaces the registered tensors
  by others under the same key. Once the prefetch cache is full it stays full:
  `prefetch_expert` refuses at the bound where eviction would begin, so later
  prefetches are refused for good.

## 6. What is proved

From the constants' assumptions only (`QueueAssumption`, `SchedulerAssumption`,
`ReplayAssumption`, `SwapAssumption`, `LoaderAssumption`, `BufferAssumption`,
`EventLoopAssumption`, `LoadAssumption`, `WorkingSetAssumption`, which restate checks of the code or say
what a constant is), for the swap `Options \subseteq SafeOptions` and for the event
loop `AnyPause = FALSE`. Both of these name the settings of section 5 under which
the properties are known to fail.

*Queues.* No property of the queues is inductive alone; `QInv` is their
conjunction with `TicketsNameAdmitted`. Membership needs ownership (what a
ticket gives back was queued nowhere), the in-flight map needs that tickets name
only admitted chunks (failing one releases a request), freshness needs ownership
(a new ticket id owns nothing). `QueueConsistency`, `OwnerIsNeverStale`,
`CohortsMoveTogether`, `CohortsAdvanceTogether` and `QueuesImplementPipeline`
follow from it; `BoundedInflight` also needs that the requests in flight are
finitely many and grow by one at a time, an invariant of its own.

*Scheduler.* `SInv` adds that age is a strict total order of what is in flight
(`AgeOrder`), that deadlines pass in that order (`ExpiredInOrder`, which makes an
expired anchor the oldest of its group), that no chunk is FAILED while the loop
lives, that free places are at the entry, and that a fifo ticket leaves nothing
older behind at its group (`FifoTicketIsPrefix`, from `FirstOfIsPrefix` and
`CohortIsPrefix`). The last one is what arrival order rests on: when a cohort
moves on, whatever is older and not in it is already further. `StreaksYield`
carries `StreakReserved` from the choice to the dispatch. `OldestIsNotStarved`
counts without a sum: `StillToPass(o)` is the set of pairs of another chunk and a
group at which that chunk can still be dispatched before it has to queue up behind
the oldest chunk `o`, on its way through the last group and back through the first
ones if it is further on. There are at most `(places - 1) * (groups - 1)` pairs. A
dispatch without `o` takes at least one of them away, because the anchor rule
keeps the ticket off the group of `o` (`TicketElsewhere`); completing, leaving and
coming back as a newcomer adds none. `PassedOver` says that `bypassed` and what is
left never exceed the bound together, for the chunk that is oldest then, which
exists whenever anything is in flight (`SomeOldest`).

*Event loop.* `NoneLostNoneTwice` and the others say little about the lists they
do not mention, so `LoopInv` describes all of them at every point of the
iteration: a live request is in exactly one of the waiting queue, the pending
continuations, the stages, the running batch, the batch that just came out of
the last group, and the batch that is being made (`InOnePlace`), where only the
running and the just prefilled ones may have ended; how much of its prompt is done
follows from the place (`DoneTells`); the stages have room when a chunk is made
(`RoomForOne`), hence `Admit` never raises; requests that hold a slot are few
enough (`FewServed`, from the cardinalities of the batch and of the stages). The
lists are sequences in the code and the model; `Those` and the lemmas on it say
what keeping or dropping some members does. With `AnyPause = TRUE` the invariant
does not hold: a pause may come when a cohort has left the last group and its
continuations are not yet apart, the finding of run `event_loop_pause`.

`RowsReturnHome` rests on `PackedInOrder`: the rows of the n-th payload are found
in the packed batch from the n-th cursor on. Packing and cursor are recursive
functions, so this is an induction over the payloads, made by the least
counterexample (`LeastNumber`), and `Accumulates` shows that such functions exist
at all. `SplitAsPacked` is the round trip for any cohort of any lengths,
`AdvanceReturnsRows` the step of the loop.

*Full-GPU prefill.* `LoadInv` follows the load by positions: the experts that
come from the CPU, in order (`Ordered`: the n-th of a set of n numbers). All
ranks have the same number of them (`RanksAgree`), so the barriers keep the hosts
within one position of each other (`InStep`), and at most one write is under way,
at the position rank 0 is at or has just passed (`WritesInOrder`). The
buffers of rank 0 hold exactly the position it has yet to copy and the one being
written (`BuffersOfMain`), because rank 0 waits for its own copy before it lets the
buffer be written again; for the other ranks there is only `BuffersHoldLater`: a
buffer holds its own position, a later one of the same parity, or a torn value.
`MainRankIsRight` and `OvertakenByLaterOnly` are what `CopiesOfMain` and
`CopiesHoldLater` say when the layer is complete. Updates from a batch change the
placement on every rank to what rank 0 selected, which `RanksAgree` needs `chosen`
for. Any number of ranks, layers and experts, any placement of `NumGpu` of them,
both formats.

*Replay.* `RInv` is `QInv` with the types of the trace and `LastMayBeUnbound`:
while a run that binds plans is recorded, only the ticket that is out can lack
one, so a cut-off trace lacks at most its last. Every step of the loop is a step
of the queues or leaves them alone, except the rollback of `EpochDiffers`;
`UndoRestores` shows that one changes nothing, from membership (what was reserved
was in the ready list) and ownership (it belonged to nobody). That a replay goes on
exactly as recorded needs to know what the few frozen fields imply: `FollowInv`
says that the queues before ticket `k + 1`, in the trace and in either run, are
those before ticket `k` with the chunks of `k` moved by it, nothing else moved, and
perhaps chunks admitted since (`Chains`, `Fits`). Ids are given out in order
(`InOrder`), and the epoch counts admissions and the mutations of the ticket
(`Counts`). So when the epoch agrees, as many chunks were admitted, hence the same
ones, hence every field of every chunk agrees (`SameSnapshot`, `FrozenDecides`);
and when the queues agree, no frozen field can differ, so no replay that follows
the recording is stopped. Any number of prompts, chunks, groups and tickets, any
interleaving of admissions with tickets, a recording cut off anywhere.

*Working set.* `WInv` is small, because the state is: the outstanding candidate
keeps to the budget and to its target (`PendingFits`), the buffers differ
(`NoPlanTwice`, inductive as it stands), and each buffer of a group is near the
plan the group committed last, where one of two holds that very plan
(`BuffersNear`). The last part is what `SourceNearLastCommitted` lacks: when an
exact match is reused, the other buffer of the group must be near it too, which
follows because one of them was the last commit. The work is in the operators.
`DemandedIsNear`: ranks are a numbering (`RanksNumber`, `PlacesNumber`), so at most
`MaxReplacements` slots change and each gets another expert. `FillGapsPermutes` and
`Assigned`: filling the gaps in order gives a plan with exactly the selected
experts, in which those of the target stay where they are; hence
`ChangedLayersAreCheapest`, which also says that a layer with the experts of its
source keeps its order. `SwappedIsNear`: every round of swaps adds at most one new
expert. It is an induction over the rounds, made by the least counterexample
(`LeastNumber`), and that the recursive function exists at all is `StepByStep`.
Any number of groups, layers, experts and slots, any demand, all three policies.

*Swap.* `SwapInv` says what may be pending: a plan is fresh, that is, made for
the placement in force, or it was missed, and then its weights are only staged
(`FreshOrMissed`); a slot holds the expert of the mapping except where a live
job has written (`WeightsFollow`); past a layer's entry nothing is pending but
what was missed (`SettledOnEntry`). `DeltaIsFull` shows that the delta of the
three tables equals rebuilding them when the plan is fresh.

*Loader.* `RegisteredAreCached` is kept by every step once the cache holds an
expert at most once and not more than it may (`CacheOK`, `InsertKeeps`: what an
insertion drops is what the same thread then unregisters). `LeaksOnlyWhenRaced`
needs `HandsApart`: until two threads had one expert in hand, what a thread has
in hand is not in the cache, so an insertion replaces nothing, and what is
page-locked is registered under its key. `TasksInOnePlace` (a future is queued
once or run by one worker) types the steps of the workers. `PrefetchedStay` needs
`FuturesHeld`: what is ready and what is under way never exceed the bound
together, a future of the table is in use, and whoever waits for one has taken it
out of the table and has it alone. Draining splits the table into what goes on,
results and failures (`DrainSplits`, `PartsFit`), so it never makes the sum larger
and nothing gives way (`DrainKeepsAll`). Any number of threads, futures and
experts, any size of the caches.

*Buffers.* `BufferInv` adds four things. `Control`: where the serving thread is
tells what is adopted, active and pending. `RecordsFollow`: what the records say
of the buffers somebody deals with; what is loaded in the background is never
the active buffer. `LoadsAreRight`: the copy stream holds at most one load, whose
owner waits for it (`Awaited`), and every slot it takes from a buffer holds
there what its plan wants; deltas are right because they are planned from valid
records, and these say what is in the memory (`PlanIsRight`, `ValidHasLanded`).
`ReadersCovered`: the computes that read a buffer are among those its record, or
the load planned for it, will be waited for; only a discard forgets them, which
is why the claim is for runs without `upsets`. The other four properties hold
with them. Any number of groups, experts and slots, both materializations, any
distance `MaxAhead` between the host and the GPU.

Only model-checked: liveness (`EveryChunkLeaves`, `EveryRequestEnds`,
`ReplayEnds`, `ActionsGetServed`, `EveryoneIsServed`). Liveness under fairness and
ENABLED are beyond the proof system; no module uses RECURSIVE operators, and the
few inductions over data are made by hand, for the functions they are about.
Every safety invariant and every action property that a passing run checks is
proved.

## 7. Plan

In order:

1. `GroupExpertBuffer`, the rest: step mode (fixed next-group prefetch, CPU
   fallback), lookahead hints in sync mode, a replacement budget below the number
   of slots.
2. Abstract/physical buffers: the abstract buffers of `WorkingSet` as the
   specification of the manager's choice of source and target.

## 8. Not modelled, and why

* Score arithmetic (floating point, left open), tensor layouts, kernels and
  routing statistics: no control.
* Flag parsing, tracing as I/O, the offline tools, installation scripts, tests,
  and the vendored upstream snapshot. The snapshot and the parts of
  `scheduler.py`, `model_runner.py` and `server_args.py` that are upstream's are
  most of the repository's lines; they are modelled only where the stage options
  lead through them. `process_batch_result`, `merge_batch`, `filter_batch` and
  the prefill adder are external to the model.
* Upstream's timeouts of waiting and running requests.
* Of the full-GPU prefill, the MXFP4 and MXFP8 formats, and a server without
  updates from the batch, which does what the model does without `Select`.
* The rollback in `_reserve_candidate` (1480-1497): no state of the models
  reaches it. The request id digest (1502-1544): a collision raises.
* Tickets for an empty working set (`plan_builder`, no frequency plans) commit no
  plans and are not in `WorkingSet`.
* Live-slot writes on the copy stream do not wait for kernels of earlier steps
  that may still read the slots; the GPU is in step with the host in
  `RuntimeSwap`. `async_h2d_capable` is decided by key when a copy is prepared
  (3984-3988), so an eviction may unregister memory whose copy is in flight;
  copies end at once in `ExpertLoader`.
