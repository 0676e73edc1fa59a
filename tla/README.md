# TLA+ models of Elektron

This directory holds TLA+ models of the Elektron power-aware Mesos framework.
The sources are in `src/`. The models are checked with TLC. Every definition
is translated from the Go code. `PROJECT.json` maps each definition to the
lines it models, and lists the runs, the mutants, the findings and the
hazards.

## 1. Inventory

### Components

| Component | Source | State it keeps | Operations that change state |
|---|---|---|---|
| BinPackSortedWatts scheduler | `schedulers/binpacksortedwatts.go` | `tasks` slice (sorted once by watts), `*task.Instances` counters, `running` (slave → task names), `tasksRunning`, `RecordPCP`, channels `Shutdown`, `Done` | `NewBinPackSortedWatts`, `ResourceOffers`, `newTask`, `StatusUpdate` |
| BPSWClassMapWatts scheduler | `schedulers/bpswClassMapWatts.go` | same as BinPack | same, with watts taken from `ClassToWatts[offer class]` |
| MaxGreedyMins policy | `schedulers/MaxGreedyMins.go` | the shared `baseScheduler` (tasks, Shutdown), the active policy | `ConsumeOffers`, `CheckFit`, random policy switch |
| Ranked cluster-wide capping scheduler | `schedulers/proactiveclusterwidecappingranked.go` | as BinPack plus `taskMonitor`, `availablePower`, `totalPower`, `isCapping`, `isRecapping`, package globals `rankedCurrentCapValue`, `rankedRecapValue`, `rankedMutex`, two tickers | `ResourceOffers`, `StatusUpdate`, `Disconnected`, `startCapping` / `startRecapping` goroutines, `stopCapping`, `stopRecapping` |
| Policy-switch controller | `schedulers/schedPolicy.go` | per policy `numTasksScheduled`; scheduler's window size, active policy | `SwitchIfNecessary`, `nextPolicy` |
| Task classifier | `rapl-daemon/main.go` lines 45–137 (package `def`) | none (pure) | `ClassifyTasks`, `labelAndOrder`, `clusterSize` |
| RAPL daemon | `rapl-daemon/main.go` lines 1–44, `unnamed/part_000` | powercap sysfs zones | `powercapEndpoint`, `capNode`, `maxPower`, `capZone` |
| Offer filters | `utilities/mesosUtils/mesosUtils.go` | constants (`DefaultFilter` refuses an agent for 1 s, `LongFilter` for 1000 s) | none; they justify the offer fairness |
| Logging helpers | `unnamed/part_001` | none | none |

Some code that the schedulers call is not under `src/`. This includes
`def.WattsSorter`, `OfferAgg`, `WattsToConsider`, `GetTaskDistributionInWindow`,
the `pcp` capper and the `rapl` client. It is modelled from `spec.md`, and
`PROJECT.json` marks those definitions `spec_modelled`.

### How the parts interact

- The Mesos driver calls the scheduler's callbacks one at a time. The calls
  that matter are `ResourceOffers(batch)` and `StatusUpdate(status)`.
- An offer is the unused resources of one agent. The scheduler either
  launches tasks on the offer or declines it.
- Launched tasks are staged on the agent. A task may then run, and it ends
  in a terminal state; it can also fail while still staging. Each change on
  the agent produces a status update. Mesos delivers the updates of one task
  in order and retries each until it is acknowledged.
- `Shutdown` is closed when the pending queue becomes empty. After that,
  every offer is declined. `Done` is closed when `Shutdown` is closed and
  `tasksRunning` drops to 0. `main` then exits.
- The Ranked scheduler adds two goroutines, the cap ticker (every 10 s) and
  the recap ticker (every 20 s). They share `rankedMutex` with the callbacks.
  Each tick sends an HTTP POST to the RAPL daemon on every host.
- The policy-switching schedulers call `SwitchIfNecessary` after each batch.
  It uses the classifier's task distribution to pick the next policy.

### What is hard

- **Slice mutation during iteration.** Removing a task from `s.tasks` inside
  `for i, task := range s.tasks` shifts the backing array under the loop.
- **Status-update interleaving.** Updates of different tasks arrive in any
  order. A task may skip `TASK_RUNNING`. Updates may be duplicated.
- **Goroutines and a mutex.** The tickers run concurrently with the
  callbacks. Some shared globals are written without the mutex.
- **Rounding at boundaries.** This covers the cap percentage, the daemon's
  `(0, 100]` check and the float computation of the zone limit.
- **Window accounting** across policy switches.

### Properties each component needs

- **Schedulers**
  - No agent is ever overcommitted, and nothing launched on an offer
    exceeds it.
  - MaxGreedyMins leaves no offer with room for a pending task.
  - Each task instance is launched exactly once.
  - The pending queue holds exactly the tasks that have instances left.
  - `Shutdown` is closed exactly when the queue is empty.
  - `Done` is closed only when every launched task has ended, and it is
    eventually closed.
  - The running table forgets ended tasks.
  - The scheduler never panics.
- **Capper**
  - Every cap that is pushed is accepted by the daemon.
  - A recap value that was determined is eventually pushed.
  - Capping resumes after a reconnection.
- **Switch controller**
  - `nextPolicy` returns the policy whose declared distribution is closest,
    with the tie-break that the spec gives.
  - A newly active policy starts its window at 0.
- **Daemon**
  - The written limit is `ceil(max * N / 100)` for `N` in `1..100`
    (spec §8); the code computes it with doubles and may write one
    microwatt more.
  - Any other `N` is rejected with no zone written.
  - A failing zone does not stop the others from being written.

## 2. Plan

Modules, in the order they are built. The most important behaviour comes
first.

1. `BinPackSortedWatts` (**done**). The scheduler and a Mesos environment of
   agents, task lifecycles and status delivery. The offer loop is modelled
   with Go slice semantics.
2. `ProactiveClusterwideCapRanked` (**done**). The Ranked scheduler with the
   cap and recap goroutines and `rankedMutex`, and the capper modelled from
   the spec. It covers the lost recap, the unlocked recap write and the buffered tick after `Ticker.Stop`.
3. `NextPolicy` and `SchedPolicySwitch` (**done**). The `nextPolicy` binary
   search is a RECURSIVE operator, checked against a reference "closest
   declared distribution" over every sorted registry of up to 4 entries.
   `SwitchIfNecessary` is driven by offer batches.
4. `MaxGreedyMins` and `BPSWClassMapWatts` (**done**). Scheduler variants
   in the same model as module 1, selected at startup.
5. `RaplDaemon` (**done**). One goroutine per HTTP request running
   `capNode` over the powercap directory, with the double rounding of the
   limit computed exactly with integers.
6. `OfferScheduler` (**done**), an abstract specification. Pending
   instances, each launched once onto an allowed host within its offer.
   The three scheduler variants are shown to implement it with
   `INSTANCE ... WITH` as a PROPERTY. A panic is a stop of the abstract
   scheduler.
7. `Classifier` (**done**). `labelAndOrder` as an operator, checked
   against "clusters ordered by aggregate watts".

## 3. Modules and runs

### The Mesos environment (`MesosCluster.tla`)

Both scheduler models extend `MesosCluster`, the part of the system that is
not in this repository: agents, offers and task lifecycles.

- `agent`, `phase` and `updates` say where each instance was launched, its
  state on the agent, and the status updates not yet delivered.
- An offer is an agent's capacity minus what this framework's live tasks
  hold (`Offer`, `Used`); `Batches` are the offer batches the master can send.
- `StartTask` and `EndTask` are the agent's steps. `Deliver` hands the oldest
  update of one task to the scheduler, so updates are ordered per task and
  interleaved across tasks.
- `StagingFailures` says whether a task can end before it runs. Runs that
  show a counting bug need it `TRUE`. Runs that show a capping bug use
  `FALSE`, so their traces do not depend on the counting bug.

### Offer-packing schedulers (`BinPackSortedWatts.tla`, `MaxGreedyMins.tla`, `MC_BinPackSortedWatts.tla`)

Three schedulers consume offers from the same pending slice:

- BinPackSortedWatts (`binpacksortedwatts.go`);
- BPSWClassMapWatts (`bpswClassMapWatts.go`);
- MaxGreedyMins (`MaxGreedyMins.go`).

The framework runs one of them, chosen at startup. The model keeps that
choice in the variable `scheduler`, set in `Init` from `Schedulers`.

`BinPackSortedWatts.tla` holds the first two. Line by line they are the same
code, with one difference: the watts a task is packed with.

- `FitWatts` gives `task.Watts` for BinPack.
- For BPSW, `FitWatts` gives `task.ClassToWatts[nodeClass]`, where
  `NodeClass` is the offer's `class` attribute. This is 0, Go's zero value,
  when the task's map has no entry for that class.
- In both schedulers, `newTask` asks Mesos for `task.Watts`.

`MaxGreedyMins.tla` extends `BinPackSortedWatts.tla` with the third
scheduler. It also defines `MGSpec`, the specification in which any of the
three may run.

**State.**

| Variable | Models |
|---|---|
| `scheduler` | the scheduler the framework was started with |
| `tasks` | the backing array of `s.tasks` (`baseSchedRef.tasks` for MaxGreedyMins) |
| `lenTasks` | `len(s.tasks)` |
| `instances` | `*task.Instances` |
| `tasksRunning`, `running`, `recordPCP` | the scheduler fields of the same names |
| `shutdown`, `done` | whether `Shutdown` and `Done` have been closed |
| `panicked` | a Go runtime panic |
| `exited` | `main` has returned |
| `skippedFit` | history, read only by `OfferPackedGreedily`: an offer was left with room for a pending task |
| `agent`, `phase`, `updates` | the Mesos side: where each instance runs, its state on the agent, and the status updates not yet delivered |

A task instance is `<<task, k>>`. Here `k` is the value of `*task.Instances`
when `newTask` named it (`Name-k`). Its TaskID is `<<"electron-", <<task, k>>>>`.

**Actions.**

- `RunBatch(classMap, batch)` is the whole `ResourceOffers` callback of the
  first two schedulers. It is `ResourceOffers` with `classMap` FALSE and
  `BPSWResourceOffers` with `classMap` TRUE.
  - Each offer is folded through `ConsumeOffer`. `ConsumeOffer` uses
    `ScanTasks` (the range loop), `PackTask` (the instance loop), `LaunchOne`
    with `NewTask`, and `RemoveTask` (the `append` removal and
    `close(Shutdown)`).
  - `ScanTasks` reads `tasks[p]` from the current backing array, up to the
    length the range started with.
  - `RemoveTask` panics when `p > lenTasks`. This is the `s.tasks[i+1:]`
    bounds check.
- `MGResourceOffers(batch)` is `MaxGreedyMins.ConsumeOffers`.
  - It first sorts the live slice (`SortTasks`, a stable sort by watts).
  - Then, for each offer, `MGConsumeOffer` runs `BackLoop`: back to front,
    it stops at the first `CheckFit` that takes the offer.
  - Next comes `FrontLoop`: front to back, re-reading the length, with
    `PackInstances` as the `for *task.Instances > 0` loop.
  - `CheckFit` is `takeOffer`, then `LaunchOne` (with its removal).
- `StatusUpdate(id)` and `BPSWStatusUpdate(id)` are the two files' identical
  handlers. `BaseStatusUpdate(id)` is the handler that MaxGreedyMins runs
  under.
- The environment steps are `TaskStarts`, `TaskEnds` and `Exit`.

MaxGreedyMins runs inside `baseScheduler`, which is not in this repository.
Its `StatusUpdate`, `newTask` and `SortTasks` are therefore modelled from
spec sections 4.1, 4.3 and 4.6.

- `BaseStatusUpdate` removes the task's id from the running table. It
  closes `Done` once the queue is drained and nothing runs.
- `newTask` reuses `NewTask`.

**Abstract specification (`OfferScheduler.tla`).** This module states what
any offer-consuming scheduler promises, for every policy:

- Each batch launches the next instances of each task (`remaining` counts
  down), each instance once.
- Each instance goes to a host its `Host` field allows.
- What lands on a host fits that host's offer (spec §3).
- The scheduler may stop for good (`AbsStop`): by a panic, possibly in the
  middle of a batch, or when `main` exits.
- Agents and the driver act as in `MesosCluster`.

`MaxGreedyMins.tla` instantiates it with `remaining <- instances` and
`alive <- Alive`. `OfferSchedulerRefined == OS!Spec` is checked as a
PROPERTY in `bp_safety`, for all three schedulers.

**Bounds.** The instance has three tasks and two hosts:

- `tA` and `tC` fit together.
- `tB` needs 3 of the 4 CPUs and has two instances.
- `tC` requires host `h1`.
- The watts are `tA = tC < tB`, so `sort.Sort` can produce two orders.
- `h1` advertises class `light` and `h2` class `heavy`. Every task's
  `ClassToWatts` has both classes, and `heavy` is one watt above the task's
  `Watts`. BPSW therefore packs differently from BinPack on `h2`, but never
  below what the task reserves.

This is enough to reach:

- several tasks packed on one offer;
- a host mismatch;
- a task split over offers;
- removal in the middle of the slice;
- the slice panic;
- task ends before running;
- interleaved updates;
- MaxGreedyMins' heavy-first step followed by the light pass.

`bp_safety` explores 89,356 distinct states in about 100 s, liveness included. The two
violation runs about the variants change one constant each:

- `bpsw_over_offer` drops the `heavy` entries and lowers the agents' watts
  to 2.
- `mg_offer_not_packed` gives the agents 5 CPUs, leaving room beside `tB`.

**Runs.**

| Run | Expect | What it shows |
|---|---|---|
| `bp_safety` | pass | Under each of the three schedulers, every reachable state satisfies `TypeOK` (which includes "instance counters never go negative"), `NoHostOvercommit`, `PendingQueueExact` and `QueueStaysSorted`. Every step refines `OfferScheduler`. The states after a panic are included. Under `OfferFairSpec`, `EveryInstanceLaunched` holds: every declared instance eventually reaches an agent unless the process panics. |
| `bp_runtime_panic` | violation | In the first batch, `tA` and `tC` fit on `h1`. Removing `tA` shifts `tC` to slot 1, and the range then reads `tC` again from slot 2. Its removal evaluates `s.tasks[2:]` on a slice of length 1 and panics. BPSW has the same loop, and the run allows both. |
| `bpsw_over_offer` | violation | Under BPSW, `h2`'s class has no entry, so `tA` and `tB` are packed with 0 W. They are launched with 1 + 2 W on an agent with 2 W. |
| `mg_offer_not_packed` | violation | MaxGreedyMins places `tB` on `h1`, then `tA`. Removing `tA` shifts `tC` into slot 1, and the loop goes on at slot 2. `tC` still fits in the 5 CPUs but is never tried (spec §4.3). |
| `bp_done_never` | violation | This run uses BinPack with one task and one host. The task fails from staging, `tasksRunning` becomes -1, and `Done` is never closed. The fairness assumed is below. |

Two more behaviours of this code are reachable in the model, but no run
checks them:

- The same counter reaches 0 while a launched task is still staging, and
  `Done` then closes early.
- `StatusUpdate` deletes the TaskID (`electron-` + name) from `s.running`,
  which is keyed by the bare name, so `s.running` never forgets a task.
  `s.running` is read only by the co-location log.

**Fairness** (for `bp_done_never`, `MGFairSpec`). All of it is weak fairness:

- The master keeps sending offers.
- Each agent eventually starts or ends each task it has.
- Each pending status update is eventually delivered, because Mesos retries
  updates until they are acknowledged.
- `main` eventually exits after `Done`.

**Offer fairness** (for `bp_safety`, `OfferFairSpec`). Each scheduler
launches or declines every offer with `DefaultFilter` (`RefuseSeconds` 1),
so the master offers an agent's unused resources again a second later.
After `Shutdown` it declines with `LongFilter` (1000 s), but such offers
change nothing, so the model lets the master offer any agent at any step.
`OfferFairness` assumes:

- each agent eventually starts or ends each task it has (as above);
- weak fairness of `OffersTo(h)` for each agent `h`: a batch with an offer
  of `h`, to the scheduler the framework runs.

TLC evaluates `ENABLED` of these batch actions very slowly, so the weak
fairness is written out as `[]<>~OfferProgresses(h) \/ []<><<OffersTo(h)>>_mgVars`.
`OfferProgresses(h)` says some batch with `h` would change the instance
counters, the queue length, `Shutdown` or the panic flag. Each of these is
assigned from the batch result (`BatchResult`, `MGBatchResult`), so it
implies `ENABLED`, and the assumption is no stronger than weak fairness.
Status updates need no fairness for this property, since the offers read
only the agents' view.

`EveryInstanceLaunched` says every instance of the workload is eventually
staged on an agent, or the process has panicked. It needs the pending queue
to keep every task with instances left, the range loop to try every task of
the slice, and freed agents to be offered again. The mutant `ScanTasksSkipLast`
stops the range loop one task early. `tB`, the heaviest task, is then never
tried, and TLC finds a behaviour where it is never launched.

**Not modelled here.**
- The callbacks that only log: `Registered`, `Disconnected`, `OfferRescinded`,
  `SlaveLost`, `ExecutorLost`, `FrameworkMessage` and `Error`.
- The `PCPLog` channel and the one-second sleep.
- `tasksCreated`, a counter that nothing reads.
- Duplicate status updates.
- MaxGreedyMins' class-map mode. `WattsToConsider` is taken as `task.Watts`;
  `log.Fatal` on its error is not reached.
- MaxGreedyMins' random policy switch (lines 176–187). This model runs
  with switching off. The switch is modelled in `SchedPolicySwitch` (see
  below), where it ends `ConsumeOffers`.

### ProactiveClusterwideCapRanked (`ProactiveClusterwideCapRanked.tla`, `MC_ProactiveClusterwideCapRanked.tla`)

**Processes.** There are three goroutines and the Mesos environment.

- The scheduler goroutine runs the callbacks one at a time:
  - `ResourceOffers(batch, caps)` is the whole callback. It sorts `s.tasks`
    (`sort.Sort` is unstable, so any watts order). It then folds
    `ConsumeOffer` over the offers. Per offer, it takes the first task
    (`SelectInSeq`) that matches the host and `takeOffer`, and calls `Fit`.
    `Fit` starts capping, publishes the capper's result, launches one
    instance, decrements, and calls `RemoveExhausted`. `RemoveExhausted`
    does the swap removal, and at the drain it calls `stopCapping`,
    `startRecapping` and closes `Shutdown`. `caps[i]` is what
    `FCFSDeterminedCap` returns for offer `i`.
  - `StatusUpdate(id)` is split where the code takes and releases
    `rankedMutex`:
    - `StatusUpdate` covers lines 362–388: the counter update under the
      mutex, the `Done` branch, and `CleverRecap`.
    - `RecapWrite` covers lines 389–392: the comparison, and the write of
      `rankedRecapValue` without the mutex.
    - `RecapFlag` covers lines 393–401: `isRecapping` set or cleared under
      the mutex.

    While these steps are in progress (`suPc`), no other callback runs.
  - `Disconnected` stops both tickers and clears `isCapping`. It is bounded
    by `MaxDisconnects`.
- The cap goroutine's round (`CapRound`) is one step. It holds the mutex,
  and nothing it reads can change while it holds it.
- The recap goroutine's round is `RecapRoundBegin`, one `RecapPush` per host
  of `constants.Hosts`, and `RecapRoundEnd`. It is split because
  `RecapWrite` can run in between.
- Tickers (`TickerFires`, `RecapTickerFires`) put a tick in a one-slot
  channel. With Go 1.12, the version CI builds with, `Stop` ends the ticks
  but leaves a tick that is already in the channel.

**Data.** Percentages are in tenths, so `Round(v) = (v + 5) \div 10` is
`int(math.Floor(v/10 + 0.5))`. The capper is not in this repository. It is
modelled by its results: a value of `CapValues` or `CapErr`. `posted[h]` is
the last percentage POSTed to host `h`.

The maps `running`, `taskMonitor`, `availablePower` and `totalPower` are
left out. They are written by the callbacks and read only by the capper,
whose results are already free choices.

The history variables `pendingRecap` and `roundPct` are read
only by properties.

**Bounds.**

- There are three single-instance tasks. `tB` needs 2 of the 3 CPUs, and
  `tC` requires `h1`. Three tasks make a swap removal in the middle of the
  queue possible, and leave two tasks running after a third ends (needed
  for a recap).
- The pass run uses one host. With two hosts it exceeds 860,000 states
  within three minutes. One host already reaches every action, including a
  recap round, a disconnection, a buffered tick after `Stop`, and both
  `Done` paths. The pass run explores 127,050 states in about 40 s,
  including the liveness check.
- Violation runs that need two offers in a batch, or two hosts in a round,
  use `h1, h2`.
- The recap-race run also has the state constraint `MC_NoCapTicks`. It
  keeps `s.ticker.C` empty, which removes cap rounds; they play no part in
  that race. Its trace is still a behaviour of the unconstrained
  specification.

**Fairness** (`FairSpec`, used by `rk_safety`). `CapFairness` assumes only
what the Go runtime gives the cap goroutine:

- weak fairness for `TickerFires`, because a running ticker keeps
  delivering ticks;
- strong fairness for `CapRound`. The goroutine blocks in `select` on a
  ready channel and then on `rankedMutex`. The recap goroutine keeps
  taking that mutex, so `CapRound` is enabled only intermittently.
  `sync.Mutex` switches to starvation mode and hands the mutex to a waiter
  that has waited over 1 ms, which justifies strong fairness;
- weak fairness for `RecapPush` and `RecapRoundEnd`, because a recap
  round that holds the mutex finishes.

Nothing is assumed of Mesos or of the scheduler goroutine. The violation
runs use `Spec`, without fairness.

**Runs.**

| Run | Expect | What it shows |
|---|---|---|
| `rk_safety` | pass | `TypeOK`, `NoHostOvercommit` and `PendingQueueExact` hold, and every step refines `OfferScheduler` (`OfferSchedulerRefined`). `CapReachesHosts` (liveness) says that once a fit has set `isCapping` and published `v` with `s.ticker` running, every host is eventually sent `Round(v)`, unless `v` is replaced, the ticker stops or the process ends. It holds despite the recap round and `StatusUpdate` competing for `rankedMutex`. |
| `rk_recap_lost` | violation | After the drain, a task ends and 59.8 % is determined. Another task ends and 60.2 % rounds the same, so `isRecapping` is cleared and 59.8 % is never pushed. |
| `rk_recap_round_race` | violation | A recap round checks 60 %. `RecapWrite` then stores 70 % without the mutex, and the round pushes 70 %. |
| `rk_cap_after_drain` | violation | A tick buffered before `stopCapping` makes a cap round after the drain (spec §4.5: capping stops when the queue drains). In the shortest trace, that round pushes the cap set by the fit that drained the queue, as the first cap the host gets. Whether it can also land after a recap push is not what this run shows; spec §5 tolerates cap and recap writes racing. |

Four more behaviours of this code are reachable in the model but are not
separate runs:

- Spec §4.3 asks for strictly ascending-watts first-fit. With two hosts in
  one batch, `h1` takes `tC` and the swap removal (line 334) moves `tB`
  (2 W) to the front, so `h2` gets `tB` although `tA` (1 W) fits. The queue
  is sorted again only at the next `ResourceOffers`.

- After `Disconnected`, the next fit sets `isCapping` again and calls
  `startCapping`, but `s.ticker` stays stopped. The new cap is then never
  pushed. `CapReachesHosts` excludes a stopped ticker. Without that
  exclusion, it fails on this trace.

- A capper value in (0, 0.5) % is pushed as 0 by the rounding at line 187.
- `isCapping` is true with a cap value of 0 after a failed first
  `FCFSDeterminedCap`. The `> 0` guard of `CapRound` keeps that 0 from
  being pushed. No property checks this beyond the guard itself.

**Not modelled here.**

- The HTTP client `rapl.Cap`. Every call returns; an error is only logged,
  so it changes nothing the model keeps.
- The maps the capper reads (see above).
- The logging callbacks.

### Policy switching (`NextPolicy.tla`, `Classifier.tla`, `SchedPolicySwitch.tla`)

`schedulers/schedPolicy.go` has two parts:

- `nextPolicy` picks the policy whose declared task distribution is
  closest to the window's.
- `SwitchIfNecessary` decides whether to call `nextPolicy`, and resets the
  counter of scheduled tasks.

**`NextPolicy`** is pure. The registry `schedPoliciesToSwitch` is
abstracted to its sorted declared distributions. Distributions are
integers on a common scale, so comparisons and the two differences at lines
87–88 are exact.

| Definition | Models |
|---|---|
| `NextIndex` | the clamping at lines 64–70 |
| `Search` (RECURSIVE) | the `for low <= high` loop, lines 71–83 |
| `CloserNeighbour` | the comparison after the loop, lines 84–98, including the tie at 96 |
| `Closest` | the reference: the entries nearest to the window's distribution |

**`Classifier`** is pure. It models `labelAndOrder` (`rapl-daemon/main.go`
lines 104–137, package `def`). A cluster is abstracted to its
`clusterSize`, the sum of its tasks' watts, which is exact for integer
watts.

| Definition | Models |
|---|---|
| `Pairs`, `SizeScore` | the tournament of lines 117–130. For each pair `i < j`, `i` scores if `sizeI > sizeJ`; otherwise `j` scores. |
| `SinkLeft`, `InsertionSort` | `sort.SliceStable` with the comparator `score[i] <= score[j]`. For fewer than 20 elements, Go runs an insertion sort. It moves an element left while `less(j, j-1)`, so a non-strict comparator also moves it past equal scores. |
| `LabelAndOrder` | the whole function |

The k-means step that builds the clusters is a library call
(`gokmeans`), so it is not modelled.

`MC_SchedPolicySwitch` checks both functions and the controller in one
run. Besides the controller's start, its initial states include one state
per call of either function. A call state only stutters, because the
function has returned. The inputs for `nextPolicy` are:

- every registry of 1–4 entries over 0..6, sorted, duplicates allowed;
- every window distribution in -1..7.

That gives 2,961 calls. They cover registries of every length up to 4,
values below, on, between and above the entries, and both neighbours of
every gap.

The inputs for `labelAndOrder` are every sequence of 2–4 cluster sizes over
0..3, ties included: 336 calls.

**`SchedPolicySwitch`**

| Variable | Models |
|---|---|
| `active` | `curSchedPolicy` |
| `numTasksScheduled` | the counter of each policy's `baseSchedPolicyState` |
| `hasReceivedResourceOffers` | the scheduler field of that name |
| `schedWindowSize` | the scheduler field of that name |
| `pc` | whether a switch check or an offer batch is next |
| `sinceDeploy` | history: tasks the active policy has launched since it was deployed |

Actions:

- `SwitchIfNecessary(w, d)` is the whole method, lines 104–164. Its inputs
  are `w`, the size the window strategy returns, and `d`, the classifier's
  result: a distribution or `SingleCluster`.
- `ConsumeOffers(n)` launches `n` tasks and counts them. The launching and
  counting are modelled from the spec (§4.4 and §4.6), because
  `BaseScheduler` and the code that counts launches are not in this
  repository. So are the window strategy and the classifier, which are why
  `w` and `d` are nondeterministic.
- The action ends as `MaxGreedyMins.ConsumeOffers` ends (lines 175–187).
  If switching is on and the active policy is in `RandomSwitch`, it
  deploys any policy of `SchedPolicies` (`RandomSwitchTargets`). This
  redeploy bypasses `SwitchIfNecessary` and resets no counter. The other
  policies' `ConsumeOffers` are not in this repository. The model gives
  them no such switch, as spec §4.4 has none.

Bounds:

- four policies declared at 1, 2, 3 and 4, where `mg` (at 3) is
  MaxGreedyMins, the only member of `RandomSwitch`;
- the registry is `p1, p2, p3` in `ps_safety`, where MaxGreedyMins is the
  initial policy. In `ps_mg_random_switch` it is `p1, p2, mg, p3`;
- window sizes 0..3;
- at most 2 launches per batch;
- at most 6 tasks per policy counter.

These allow a policy to be switched out and deployed again after a full
window. That is the case the line-162 reset exists for.

**Runs.**

| Run | Expect | What it shows |
|---|---|---|
| `ps_safety` | pass | `TypeOK` and `WindowCountsFromDeploy` hold. The counter that line 140 compares with the window is the number of tasks launched since the active policy was deployed. This holds even for a policy deployed a second time, because line 162 resets the outgoing policy. It also holds when MaxGreedyMins, the first policy, switches away at random, because nothing deploys it again. `NextIndexClosest`: every call of `nextPolicy` returns a nearest entry, also with duplicate entries and out-of-range inputs. `ClustersOrderedBySize`: `labelAndOrder` returns each cluster once, by size ascending, ties included. This holds because the tournament ranks clusters by (size, index), so the scores are distinct, and the `<=` comparator never meets two equal scores. |
| `ps_mg_random_switch` | violation | `WindowCountsFromDeploy` fails when MaxGreedyMins is in the registry. MaxGreedyMins launches a task and switches at random to `p1`, and its counter stays at 1. A later `SwitchIfNecessary` deploys it again with that stale count. With a window of 1 it is then switched out at the next check without launching anything. |

**Not modelled here.**

- The tie-break. When the window's distribution is equally far from two
  entries, the code returns the lower one, while spec §4.4 asks for the
  higher. `NextIndexClosest` accepts either, and no run checks which one.
- MaxGreedyMins' packing, which is modelled in `MaxGreedyMins.tla`. Here
  its batch is `n` launched tasks. Its file asserts the context to an
  older scheduler type (`*baseScheduler`), while `schedPolicy.go` asserts
  `*BaseScheduler`. Neither type is in this repository. The model assumes
  both name the running scheduler.
- A zero-sized first window. `SwitchIfNecessary` then returns at line 122
  before looking at `nameOfFstSchedPolToDeploy`, and every later call has
  `hasReceivedResourceOffers` set, so the configured first policy is never
  deployed. The model reaches this when the strategy returns 0 on the first
  call. Whether the real strategies do so before any offer cannot be
  determined from this repository.

### RAPL daemon (`RaplDaemon.tla`, `MC_RaplDaemon.tla`)

The daemon runs on every node. `net/http` runs `powercapEndpoint`
(`rapl-daemon/main.go` lines 27–44) in its own goroutine for each request.
That handler decodes the body and calls `capNode` (`unnamed/part_000`
lines 22–62). `capNode` checks `0 < N <= 100`, lists `/sys/class/powercap`
and caps each `intel-rapl:X` entry. Elektron's cap and recap goroutines both
POST to every host, so two requests can run `capNode` at the same time, and
nothing orders their writes.

| Definition | Models |
|---|---|
| `Receive(r)` | decoding (400), `ValidPercentage` (400), `ReadDir` (400 on error; nondeterministic) |
| `CapEntry(r)` | one turn of the loop over the entries, in `ReadDir`'s name order: skip an entry that is not `intel-rapl:X` (`IsZone`), whose maximum cannot be read or parsed, or that has no limit file; otherwise `CapZone` |
| `CapZone(r, e)` | `capZone`: the write, which may fail and is then skipped |
| `Respond(r)` | `capNode` returns nil; 200 |
| `Powercap(M, N)` | `uint64(math.Ceil(float64(M) * (float64(N) / 100)))`, computed exactly |

**Data.** A directory entry is a model value with the `:`-separated fields
of its name, the content of its maximum file (or `Unreadable`), and whether
its limit file exists. The request bodies are `Malformed`, 0, 1, 7, 100
and 101.

**The double rounding.** `float64(N) / 100` is not exact. `Powercap`
decides with small integers whether the product rounds up past an integer
`k = M·N/100`. The double nearest `N/100` lies above it exactly when the
remainder `r` of `N·2^(52+t)` modulo 100 exceeds 50, where `2^-t <= N/100`.
The product then exceeds `k` exactly when `M·(100 - r)` is more than
`100·2^(t + ⌊log2 k⌋ - 1)`. Otherwise the result is the exact ceiling.
This derivation was compared with IEEE doubles (the arithmetic Go uses) for
every `M <= 2000` and `N` in `1..100`, and for 300,000 random
`M < 2^31 / 100`; it agreed on all of them. Maxima stay below `2^31 / 100` µW
so that TLC's integers hold `M·N`.

**Bounds.** There are two requests, a cap and a recap, which is the most
Elektron sends to a host at once. The directory holds seven entries:
`intel-rapl` (one field), `intel-rapl-mmio:0` (other prefix),
`intel-rapl:0` (20 W), its sub-zone `intel-rapl:0:0`, `intel-rapl:1`
(12,345,678 µW, so `M·N` is not a multiple of 100), `intel-rapl:2`
(unreadable) and `intel-rapl:3` (no limit file). 20 W at 7 % is
1,400,000 µW exactly, and the daemon writes 1,400,001; the run reaches that
state. It explores 3,796 states in about a second. Deadlock is not checked,
because the server goes on waiting once both requests are answered.

| Run | Expect | What it shows |
|---|---|---|
| `daemon_safety` | pass | `LimitsFromAcceptedPercentages`: each limit file the daemon wrote belongs to an `intel-rapl:X` zone. It holds the maximum scaled by a percentage in `(0, 100]` that some request carried, never below the exact ceiling, never above the maximum and at most 1 µW above the ceiling. All other files keep their boot value. `AnswerMatchesEffect`: a request answered 400 wrote nothing. A request answered 200 tried every cappable zone, whatever failed before it (spec §4.7: a zone's failure does not abort the request). Both hold with the two requests interleaved zone by zone. |

Spec §8's round trip, a limit equal to `ceil(M·N/100)`, does not hold:
at 20 W and 7 % the daemon writes 1 µW more. A 95 W package at 7 % gives
6,650,001 instead of 6,650,000. It is recorded as a hazard, not a separate
run. The two requests can leave `intel-rapl:0` at one percentage and
`intel-rapl:1` at the other. Spec §5 accepts that cap and recap writes race,
and the property allows it.

**Not modelled here.** The `/` handler, which only writes a message, and
`ListenAndServe`.

## 4. Not modelled

- **Task classifier training** (`ClassifyTasks`, `rapl-daemon/main.go`
  lines 62–89). It runs k-means from a library (`gokmeans`) on float
  vectors. `labelAndOrder` is modelled. `SchedPolicySwitch` takes the
  classifier's result, a distribution or `SingleCluster`, as a
  nondeterministic input.
- **Offer filters** (`mesosUtils.go`) have no state. They are modelled
  through `OfferFairness` (above). The Ranked scheduler's runs assume no
  offer fairness.
- **Logging helpers** (`unnamed/part_001`) and the CI workflow. They have no
  state that the schedulers read.
