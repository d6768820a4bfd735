# A TLA+ model of cpp-concurrency-bench

This directory holds TLA+ specifications of the concurrent code in this
repository, the TLC configurations that model-check them on small instances,
and machine-checked proofs (TLAPS) of the safety properties and the refinements
that those configurations check, for every value of the constants.
Paths below are relative to the repository's `src/` (so `src/bench_barrier.cpp`
is the benchmark file of that name).

## 1. Inventory

The repository is a set of C++20 micro-benchmarks. What it measures is
concurrency primitives; what can go wrong in it is that the harness, the
hand-written primitives and the start/stop protocols around them lose an item,
a wake-up or an operation, or hang. The parts, what they keep and what makes
them correct:

| Part | State | Operations | What makes it correct |
|---|---|---|---|
| `SemaphoreQueue` (`include/semaphore_queue.hpp`) | a FIFO under `mtx_`, semaphores `empty_slots_` and `filled_slots_`, flags `closed_` and `shutdown_` | `push`, `pop`, `close`, `shutdown` | bounded FIFO; a stopped queue drains, then ends the stream for everybody; stopping releases all who wait |
| its clients (`src/bench_pc_semaphore.cpp`) | trackers, the totals | one session per iteration: produce, close, drain, shut down | no push is refused, every item is consumed once, the counts are those of the run |
| `thread_pool` (`include/thread_pool.hpp`) | task queue under `queue_mutex_`, `condition_`, `stop_` | constructor, `submit`, worker loop, destructor | accepted tasks run once; no idle worker sleeps through a task; the destructor returns |
| contention window (`include/bench_harness.hpp`), `affinity`, `spinlock` and the counter benchmarks | each thread's core, `start`, `stop`, per-thread counts, the lock's flag, the counter | spawn, pin, open and close the window, lock, try_lock, unlock, count | threads spread over the cores, core 0 last; mutual exclusion; reported ops are the increments made; the window ends |
| condition-variable producer/consumer (`src/bench_pc_condvar.cpp`) | queue, `done` under `m`, `cv` | produce, consume, set done | no lost wake-up; the queue is drained; the iteration ends |
| `ManualBarrier` (`src/bench_barrier.cpp:36-64`) | `waiting_`, `generation_` under `mtx_` | `arrive_and_wait` | nobody leaves phase k before all have arrived in it, although it is reused at once |
| `std::barrier` benchmarks (the same file) | the barrier, `phase_starts` (a plain vector), completion count | the phase loops | no race on `phase_starts`; crossings of different lines never pair up |
| `TimerService` and coroutine tasks (`src/bench_coroutines.cpp`) | heap of deadlines under `mu_`, worker thread, coroutine frames, done flags | `schedule`, `run`, destructor; launch, resume, final suspend, `wait_all` | each handle resumed once and not early; no frame used after its destruction |
| async/future benchmarks (`src/bench_async_future.cpp`) | promises, futures, `task_index` | fork, collect, time out, chain | each promise set once; completed and timed-out tasks add up |
| reader/writer benchmarks (`src/bench_rw_shared_mutex.cpp`) | maps under a `shared_mutex` and a `mutex`, totals | read, write | readers and writers exclude each other; totals add up |
| `variance_tracker` (`common/variance_tracker.cpp`) | per-thread counts | record, reset, CV | CV is 0 exactly for equal counts |
| runner (`scripts/run_all_benchmarks.sh`) | position in the suite, result files, summary, report, published matrix, exit status | build, run each benchmark under a time limit, summarise, report, publish | a benchmark that hangs, crashes or is missing hides no other; the run ends; its outputs agree |
| matrix builder (`scripts/build_decision_matrix.py`) | none: a function of the result files | `load_benchmarks`, `pick_best` | an entry is a measured mean of the right function, or empty |
| timing, padded, other scripts, CI, docs | none | — | — |

Components interact in three ways: by **calls** (every benchmark calls the
class it measures), by **shared memory** between the threads a benchmark
spawns, and by **files** (three readers take what the benchmarks wrote, complete
or not). Most of the hard behaviour is in the second: flags stored outside the mutex that guards what they
are about (`semaphore_queue.hpp:112-122`, `thread_pool.hpp:62`), notifications
sent outside it (`thread_pool.hpp:87`, `bench_pc_condvar.cpp:31`), an object
reused while threads are slow to leave it (`ManualBarrier`), and lifetimes that
end while another thread is still finishing (`bench_coroutines.cpp:105-108`).
The complete list, line by line, is `hazards` in `PROJECT.json`.

## 2. Modules

| Module | Models | State ↔ code |
|---|---|---|
| `Places` | — | `At(pc, place)`: the threads at a place |
| `BoundedQueue` | what `semaphore_queue.hpp`, and the queue of `PC_CondVar`, promise | abstract: a FIFO, open or stopped, items taken and refused, consumers told the end |
| `SemaphoreQueue` | the class, line by line | `queue_`, the two token counts, the two flags, a place per thread, the loop counter of the wake-ups; histories `taken`, `refused`, `spare_*` |
| `PCSemaphoreSession` | its clients: stopped at any time, or a benchmark session | composes `SemaphoreQueue` with the loops of producers and consumers, the trackers and the main thread (`MainClose`, `MainShutdown`) |
| `TaskPool` | what `thread_pool.hpp` promises | abstract: a queue of accepted tasks, the busy ones, open or not, destroyed or not |
| `ThreadPool` | the class | `tasks_`, `stop_`, a place per thread; `queue_mutex_` is held at "falling" and "insert" only |
| `ContentionWindow` | harness, pinning, spinlock, counter benchmarks | the machine (cores known or not, pinning possible or not), each worker's core, `start`, `stop`, the lock's flag, counter, counts; the read and the write of `counter.value++` are separate steps |
| `CondVarQueue` | one `PC_CondVar` iteration | `q`, `done`, places; history: the items `taken` |
| `PhaseBarrier`, `ManualBarrier` | abstract barrier; the class in its loop | `waiting_`, `generation_`, each thread's `current_gen` |
| `BarrierBenchmarks` | the loops of all five barrier benchmarks | extends `ManualBarrier` with `phase_starts` and the library's barrier as arrivals, completions and tickets (external) |
| `AsyncFutures` | the six patterns of `bench_async_future.cpp` | `shared` and `value` per future, `task_index`, a place and a task per worker, main's place and what it has added up |
| `LockWorkload` | `ReadWriteData`, `BinarySemaphore_vs_Mutex`, the trackers and their fairness | a place per thread (who is inside the lock), operations left, the counts; `CVSquared` is the formula as a fraction |
| `Coroutines` | TimerService, tasks, wait_all, destructors | `heap_`, the worker's place and entry, a state per coroutine frame, the flags |
| `DecisionMatrix` | the matrix builder | pure operators from a directory of files to entries; the first match and the first mean are the least of a set of positions |
| `BenchmarkRunner` | the runner and the benchmark process it waits for | the child (working, stuck, gone), a file per benchmark (none, partial, error, complete), summary, report, published matrix, status; `outcome` is a history of how each benchmark ended |
| `MC...` | — | the constants of the TLC runs |
| `ThreadCounting`, `...Proofs` | — | the lemmas and the theorems of section 4 |

Operators whose comment begins with *Seeded fault* are variants of the operator
that follows them, each with a plausible bug; no specification uses them. They
show that a property can fail: with the variant in place of the original, TLC
finds the property violated.

### Conventions and abstractions

* **Steps.** A step is what other threads can see happen at once. A critical
  section is one step unless something outside the mutex can interleave with
  it; the head of each module says where that is the case and why the other
  merges are sound.
* **Memory order.** Atomics are sequentially consistent in every module. The
  acquire/release pairs and relaxed loads of the code are not weaker in any way
  the properties see: each flag is set once and never cleared, relaxed loads of
  flags are made with a mutex held or again later, and counters are read after
  a join. `bench_counter_atomic.cpp` uses three orders of one read-modify-write,
  which are all the same action.
* **Condition variables** can wake spuriously at any time; a wait releases its
  mutex and falls asleep in one step. **Locks and semaphores** let any waiting
  thread through.
* **Items, tasks and durations** are members of small sets; a work loop is one
  step, `sleep_for` is a step that may take any time.
* **Exceptions** of the standard library (`bad_alloc`, failing thread creation)
  are left out.

## 3. Runs

`tlc -config <cfg> <module>` in this directory. `MCSemaphoreQueue` takes
about a minute, the others a few seconds.

| Run (`.cfg`) | Instance | Shows |
|---|---|---|
| `MCSemaphoreQueue` | 2 producers × 2 pushes, 3 consumers, capacity 1; stopped at any time, or a session | `TypeOK`; `TokensAccounted`: every token of both semaphores is where it can be accounted for; `WithinCapacity`; `EndOfStreamIsFinal`; `ImplementsBoundedQueue` (refinement of `BoundedQueue`); of a session `NothingRefused` and `SessionDelivers`; `EveryoneReturns` |
| `MCThreadPool` | 3 workers, 3 tasks | `ImplementsTaskPool` (refinement of `TaskPool`), `SleepersNotNeeded`, `NothingLeftBehind`, `AcceptedTasksRun` |
| `MCThreadPool_destructor` | 1 worker | **violated**: `DestructorReturns` (finding 1) |
| `MCContentionWindow` | 3 workers × 2 operations, three kinds, 4 machines | `LockExcludes`, `OpsMatchCounter`, `PinnedEvenly`, `WindowEnds` |
| `MCCondVarQueue` | 2 producers, 3 consumers, 4 items | `SleepersNotNeeded`, `ItemsReported`; `ImplementsBoundedQueue`: nothing is pushed after `done`, items leave in their order, and a consumer gives up only on an empty queue that stays so; `IterationEnds` |
| `MCBarrierBenchmarks` | 4 threads, 3 phases, three kinds | `WaitingCounts`, `ImplementsBarrier` (refinement of `PhaseBarrier`), `PublishedBeforeRead`, `SameCrossing`, `AllPhasesEnd` |
| `MCCoroutines_session` | 4 tasks, delay 0 or 2 | `HandlesSuspended`, `NeverEarly`, `NeverOverslept`: the worker never sleeps through a deadline or through `stop_`; `SessionEnds` |
| `MCCoroutines_frames` | 3 tasks that yield | **violated**: `FramesLive` (finding 2) |
| `MCAsyncFutures` | 6 tasks (2 chains of 3), 3 workers, 2 tasks that can throw | `PromisesSetOnce`, `TallyComplete`, `NothingOutlives`, `BenchmarkEnds` |
| `MCLockWorkload` | 3 threads × 2 operations, 2 iterations, three locks | `RaceFree`, `CountsAgree`, `FairnessMeaning`, `BenchmarkEnds` |
| `MCLockWorkload_items` | 3 threads × 2 operations, 2 iterations, three locks | **violated**: `ItemsOfAllIterations` (finding 3) |
| `MCBenchmarkRunner` | 4 benchmarks of 1 or 2 functions, 2 arguments, both modes | `MatrixFaithful`, `OutputsAgree`, `RunEnds` |

Most modules state a type invariant, `TypeOK`. `MCSemaphoreQueue` checks its
own; in the other modules it is the typing part that an inductive invariant
starts from, and can be checked by adding `TypeOK` to the `INVARIANTS` of the
`.cfg`.

**Why the bounds are enough.** In `MCSemaphoreQueue` the
capacity is 1, so that a wake-up releases 2 tokens: two waiters use them up, and
the third consumer is the one that depends on a token being passed on. A queue
of one item has little order to keep; that the order is kept at every capacity
is part of the theorem `Refinement`. Two producers make an insertion by one overlap every step of another. Three workers
and three tasks let a notification reach a worker that finds its task gone while
another task and another sleeper remain. Three phases are the first barrier
generation in which a slow leaver of an old one can meet a new one, which then
completes; the fourth thread is one that neither publishes nor arrives last nor
is slow. In the window, two operations of each worker are one counted before
`stop` and one in flight; the machines have an unknown number of cores, fewer
than workers, one to spare, and threads that cannot be pinned. Four coroutine tasks let some be launched while
others are in the heap, due, and being resumed. A chain of three has a step with
one before and one after it; three workers and six promises let a worker claim
its second task while the others are at their first. Two iterations show what
the first leaves behind for the second. In the runner, two of the benchmarks
have more functions than the matrix or the simple suite takes, files are read in
another order than they are written, one entry has no benchmark, and each of
the three or four benchmarks can end in every way. `MaxPushes`, `Tasks`, `MaxOps`, `N`,
`NumPhases`, `NumTasks`, `Ops` and `Iterations` are the only bounds on behaviours and stand for
the loop bounds of the program; `MaxOps` replaces a loop bounded by time (a
worker that has used it up waits for `stop`).

**Deadlock** is checked in every run. A terminal state is given a step of its
own (`Finished`, `Joined`, `Destroyed`, ...), enabled only when every
thread has returned. In `SemaphoreQueue`, `Close` and `Shutdown` can always
still be called, so what deadlock would miss there is what
`EveryoneReturns` states.

**Fairness.** Weak fairness of each thread's own steps: the operating system
runs a thread that can run. Acquiring a contended lock or semaphore is only
weakly fair, so a particular thread may starve (the spinlock and
`counting_semaphore` promise no more); the liveness properties hold without
more because they speak of all threads when the contention has ended. Nobody is
obliged to call `close`, `shutdown`, `submit` or the destructor (the main thread
of a benchmark session does call the first two), and no spurious wake-up is owed.
In `Coroutines` time advances. In `BenchmarkRunner` the script goes on and
`timeout` does kill (`TimedOut`); the benchmark process owes nothing, as it may
hang.

**Symmetry** is not used: nearly every run has a temporal property.

### Findings

1. `include/thread_pool.hpp:62-63`. The destructor stores `stop_` and notifies
   without `queue_mutex_`. In the counterexample of `MCThreadPool_destructor`
   the worker has tested its predicate (line 47: not stopped, no tasks) and has
   not yet blocked; the notification finds nobody; the worker sleeps for ever
   and `join` never returns, against "Graceful shutdown" (line 23). Benchmarks
   meet it whenever the pool is destroyed right after the last future is ready.
   `CondVarQueue`, whose main thread sets `done` under the mutex, has no such
   behaviour. `NothingLeftBehind` and `AcceptedTasksRun` hold all the same.
2. `src/bench_coroutines.cpp:105-108`. The awaiter of `final_suspend` lives in
   the coroutine frame. It stores the done flag and then reads its member
   `continuation`. In between, `wait_all` may return and `~Task` destroy the
   frame. The run shows it for the last task of three; it contradicts the
   comment at lines 18-19 and CHANGELOG.md:23.
3. `src/bench_rw_shared_mutex.cpp:149` (and 198, 247, 296). `SetItemsProcessed`
   gets the totals that each iteration sets back to 0, so the items of the last
   iteration are divided by the time of all, and `items_per_second` is too small
   by the number of iterations, against `docs/METHODOLOGY.md:10`. The factor is
   also missing in other files, where the items of one iteration are passed:
   `bench_barrier.cpp:181, 223, 255, 295`;
   `bench_thread_pool.cpp:95, 132, 168, 203, 241, 281, 326`;
   `bench_async_future.cpp:90, 127, 187, 235, 284, 331`.
   All iterations are counted by `bench_barrier.cpp:147` and by the coroutine and
   the two producer/consumer files, which multiply by `state.iterations()`, and by
   the counter files, which add up `total_ops`.

Other disagreements met while modelling, about single lines that a model would
only restate:

* `run_all_benchmarks.sh:361`: the exit status is that of the search for
  left-over processes, which is 0 also if benchmarks timed out or crashed; CI
  (`ci.yml:98`) uses it, while `CHANGELOG.md:41` says "fail on benchmark timeouts".
* `run_all_benchmarks.sh:154`: for a result file that ends in the middle `jq`
  prints nothing and `printf` turns that into 0.00, where `N/A` is meant
  (`Zero` in `BenchmarkRunner`).
* `run_all_benchmarks.sh:328`: a run that measured nothing replaces the published
  matrix by one of empty entries.
* `run_all_benchmarks.sh:286` and 157 divide `real_time` by 10^6, and
  `build_decision_matrix.py:154` calls it `real_time_ns`, although the benchmarks
  report milliseconds; `fairness_cv` (155) is looked up in an object that the
  result files do not have, and is always null.
* `build_decision_matrix.py:86` drops the medians that `docs/METHODOLOGY.md:54`
  prefers; the entry of a function is that of its first argument, which for the
  "hot" counters is one thread.
* `debug_benchmarks.sh:60`: under `set -e` the first benchmark that times out
  ends the script before line 66 reports it.

## 4. Proofs

`tlapm <module>` proves, for any finite sets of threads and any numbers of
tasks, items, operations, phases, files:

| Module | Theorem | Statement |
|---|---|---|
| `SemaphoreQueueProofs` | `TypeCorrect`, `TokensBalance`, `CapacityHolds`, `EndOfStream` | `Spec => []` of `TypeOK`; `TokensAccounted`; `WithinCapacity`; `EndOfStreamIsFinal` |
| | `StoppedNeverStuck` | a stopped queue lets all its calls return |
| | `Refinement` | `Spec => ImplementsBoundedQueue` |
| | `SessionSafe`, `SessionRefinement` | the same of `SessionSpec`, which has the clients |
| | `PushesNeverRefused`, `SessionDelivery` | `SessionSpec => []` of `NothingRefused`; `SessionDelivers` |
| | `SessionNeverStuck` | a session gets to its `shutdown` |
| `ThreadPoolProofs` | `PoolInvariance`, `PoolTypes`, `NoTaskWaits`, `GracefulShutdown` | `Spec => []` of `PoolInv`; `TypeOK`; `SleepersNotNeeded`; `NothingLeftBehind` |
| | `PoolRefinement` | `Spec => ImplementsTaskPool` |
| | `StuckOnlyIdle` | threads are stuck only with every accepted task run: sleeping workers, and the destructor that joins them |
| `BarrierProofs` | `BarrierInvariance`, `BarrierCounts`, `PhasesPublished`, `CrossingsMatch` | `BenchSpec => []` of `BenchInv`; `WaitingCounts`; `PublishedBeforeRead`; `SameCrossing` |
| | `BarrierRefinement` | `BenchSpec => ImplementsBarrier` |
| | `BarrierNeverStuck` | until all threads are out, one can go on |
| `ContentionWindowProofs` | `WindowInvariance`, `Exclusion`, `NoOperationLost`, `EvenPinning` | `Spec => []` of `WindowInv`; `LockExcludes`; `OpsMatchCounter`; `PinnedEvenly` |
| | `NoLostUpdate` | `Spec => [][CounterSteps]_vars`: each write adds one operation to the counter |
| | `WindowNeverStuck` | until main has returned, somebody can go on |
| `CondVarProofs` | `CondVarInvariance`, `NoItemWaits`, `QueueDrained`, `ItemsCounted`, `QueueRefinement` | `CondVarQueue`: `Spec => []` of `CondVarInv`; `SleepersNotNeeded`; that all that was pushed is popped in the end; `ItemsReported`; `Spec => ImplementsBoundedQueue` |
| | `IterationNeverStuck` | until the iteration is over, somebody can go on |
| | `TimerInvariance`, `HandlesValid`, `DelaysKept`, `FrameLostAtTheEndOnly` | `Coroutines`: `TimerSpec => []` of `TimerInv`; `HandlesSuspended`; `NeverEarly`; that a frame is there while it is resumed and while its flag is set |
| | `WakeInvariance`, `NoneOverslept`, `TimerNeverStuck` | `TimerSpec => []` of `WakeInv`; `NeverOverslept`; that until the session is over somebody can go on, or time brings a deadline |
| | `FramesLiveOnce` | `TimerSpec => [][AllLiveOn]_timer_vars`: a frame is created, resumed to its end and destroyed, once and in this order |
| `AsyncFuturesProofs` | `FuturesInvariance`, `EveryPromiseOnce`, `AllEnded`, `TallyMatches` | `Spec => []` of `FuturesInv`; `PromisesSetOnce`; `NothingOutlives`; `TallyComplete` |
| | `ResultsFinal` | `Spec => [][ResultsStay]_vars`: a result is never replaced |
| | `FuturesNeverStuck` | until the benchmark is over, somebody can go on |
| `ReportProofs` | `WorkloadInvariance`, `NoRace`, `OperationsCounted`, `CoefficientMeaning` | `LockWorkload`: `Spec => []` of `WorkloadInv`; `RaceFree`; `CountsAgree`; `FairnessMeaning` |
| | `WorkloadNeverStuck` | until the benchmark has reported, a thread can go on or all are out |
| | `RunnerInvariance`, `MatrixIsFaithful`, `OutputsTellTheSame` | `BenchmarkRunner`: `RunnerSpec => []` of `RunnerInv`; `MatrixFaithful`; `OutputsAgree` |
| | `NobodySkipped`, `PublishedIsFinal` | the outputs are made after every benchmark has had its turn; `RunnerSpec => [][PublishedStays]_runner_vars`: from the publication on no file and no output changes |
| `ThreadCounting` | — | lemmas for all of them: counting threads by place, adding up a function |

So each safety property and each refinement that a passing run of section 3
checks is proved for every value of the constants; the runs are what shows that
the hypotheses of the theorems are met, and that each property can fail.

**Two models in one module.** `CondVarProofs` and `ReportProofs` prove about two
models each, and extend both. The actions and the specifications of the second
one have names of their own for that (`TimerSpec`, `RunnerSpec`).

**Assumptions.** The `ASSUME` of each model, which TLC evaluates in every run,
and nothing else but for four theorems:
* `SessionDelivery` is about sessions with at least one consumer. Without one
  no item is taken. The benchmark always has one.
* `ItemsCounted` is about a number of producers that divides `N`, as every number
  that the benchmark registers does (1, 2 and 4, lines 77-79); the run has 2. Nothing
  is claimed of other numbers except by `QueueDrained`, which says that what was
  pushed is popped in any case.
* `SessionNeverStuck` has, like `SessionDelivery`, a consumer, and a positive
  capacity (50, or 10 to 1000: lines 72 and 192); with capacity 0 all producers
  would wait for a slot. `StoppedNeverStuck` needs this only between `close` and
  `shutdown`.

The module `AsyncFutures` assumes a worker, which `FuturesNeverStuck` needs: with
`hardware_concurrency()` = 0 the code starts none (`bench_async_future.cpp:134`)
and waits for ever.

`RunnerAssumption` says that the suites, the functions
and the arguments are sequences, the functions and the arguments not empty; that
no function is registered by two executables; and that simple mode filters for
a function that its executable has.

### Inductive invariants

`Inv` (`SemaphoreQueue`) is the conjunction of the checked invariants and
`FlagsFirst`: wake-up tokens exist only after the flags are set, and the owner's
place agrees with the flags.
* The two balances count threads at places; `AtMoves` says what one thread's
  move does to these counts (one place loses one, another gains one), and each
  action's arithmetic follows.
* `WithinCapacity` is not a consequence of the balance of empty slots once `shutdown` has
  added spare slots. It is inductive because a producer that gets a slot after
  that sees the flags at line 67 and returns it: an insertion begins only with
  the flags clear, when `spare_empty` is still 0.
* `EndOfStreamIsFinal` needs the balance of filled slots: a consumer that holds a token and
  finds the queue empty must hold a wake-up's token, so the flags are set
  (`FlagsFirst`), and if an insertion were under way it would be one that
  passed its check before; the balance and the mutex exclude it.
* `Refinement` maps an insertion to the check of line 67 (the linearisation
  point), because a `close` that comes between that check and `queue_.push`
  does not make `push` return false.
* The clients inherit all this because each of their steps is a step of the
  queue (`TurnIsStep`). `PushesNeverRefused` rests on `StoppedAfterPushes`: main
  joins the producers before `close`. `SessionInv` adds for `SessionDelivery`
  that the items taken, followed by those in the queue, have each producer's
  insertions in the order of its pushes (`StreamInOrder`), and that the trackers
  have what was taken (`Recorded`).

`PoolInv` (`ThreadPool`): every accepted task is at one place, in the queue, with
one worker, or done (`TasksOK`); who falls asleep has just found the queue empty,
and the mutex keeps it so (`MutexOK`); once a worker has exited no task can come
any more (`StopOK`), which is why nothing is left behind although a running task
may submit. `SleepersNotNeeded` is inductive itself. That the destructor returns
is no theorem: it is what finding 1 refutes.

`BenchInv` (`BarrierBenchmarks`): for `ManualBarrier`, a thread's place tells its
phase to within one generation (`ManualPlace`), since the next generation cannot
end without it; for `std::barrier` the same of the number of crossings behind a
thread (`Crossed`, `StdPlace`), from which `SameCrossing` follows, as crossings
with an even number are those of the first line and the others those of the
second; and thread 0 has published all that it has reached (`Published`).

`WindowInv` (`ContentionWindow`): the flag is set exactly while one thread is
between `lock` and `unlock` (`HolderAlone`), what that thread has read is still
the value of the counter (`ReadIsCurrent`), so the counter is the sum of the
counts and of the increments that have yet to be counted (`NoneLost`).
`PinnedEvenly` is number theory on `(thread_id + 1) % cores`.

`WorkloadInv` (`LockWorkload`): each thread's operations are left, under way or
counted (`OwnCounts`). `CoefficientMeaning` is algebra on sums: the squared
deviations add up to 0 only for equal counts, and to their most if one thread
has made all operations.

`CondVarInv` (`CondVarQueue`): items pushed are in the queue or popped
(`ItemsKept`), and a consumer leaves only when `done` is set and the queue is
empty, which it then stays, while nobody sleeps after the last notification
(`EndOK`).

`TimerInv` (`Coroutines`): a handle is with main, in the heap or with the worker,
at one of these, once (`EachHandleOnce`); a coroutine whose handle is anywhere is
suspended, and a frame is destroyed only after its flag is set (`FrameStates`),
as main passes `wait_all` only with all flags set (`AllWaitedFor`).
`FrameLostAtTheEndOnly` follows, and confines finding 2 to the read at line 108.
`WakeInv` adds that the handle of each launched task is somewhere until its flag
is set (`NoHandleLost`), that the worker sleeps until the deadline of an entry
that is in the heap, and that it returns only when told to (`SleepOK`).
`NeverOverslept` is inductive with these: an entry that is inserted before the
deadline for which the worker sleeps comes with a notification that is still to be made.

`FuturesInv` (`AsyncFutures`): what each future holds given the pattern and how far
main is (`Futures`), that chains end in order (`Chained`), that a promise below
`task_index` is set or with one worker, and that `task_index` passes the
number of tasks by the number of workers that have left (`Promised`), and
that the tally is that of the tasks collected so far (`Tallied`).

`RunnerInv` (`BenchmarkRunner`): each file is absent, partial, replaced or the
complete one of its own benchmark, and belongs to a benchmark of the suite
(`FilesOK`); apart from the benchmark that runs, each outcome is what its file
tells (`Settled`); and what has been published was made of the files as they
still are (`OutputsMade`). The rest is about sequences. The mean of a function at
its first argument is the first of the function's means in the file
(`WrittenRows`), hence in the list of all rows, as no other benchmark has that
function, wherever its file comes in the order of names (`MatrixEntries`); and
the first row of a file, which summary and report show, is such a mean.

`NobodySkipped` and `PublishedIsFinal` need `TurnsTaken`, that the benchmarks before
the current position have an outcome and that the outputs are made past the end.

### Nobody is stuck

Liveness is out of the provers' reach, but the part of it that is a matter of
safety is not: that no reachable state leaves every thread waiting. The
`...NeverStuck` theorems say so for any number of threads, where a run checks
deadlock for a few. As `ENABLED` is out of reach too, what each thread needs
for its next step is written out (`PushMoves`, `ThreadMoves`, `SomebodyMoves`,
...); TLC, which evaluates `ENABLED`, finds these guards equivalent to that of
the step they stand for in every state of the instances of section 3.
* A spurious wake-up, a `submit`, a `close` that nobody owes are not among these
  steps. A run of TLC does count them, so that its deadlock check would not see
  a thread that is saved by a spurious wake-up only; these theorems do.
* For the queue, `WakesMade` says that a stopped queue has been given all its
  wake-up tokens, or that the owner still has the rest to release; with the
  balances and more waiters than tokens, somebody must be passing one on
  (`AllWait`). For the window, `Told` relates main's place to `start` and `stop`.
  The others follow from the invariants above.
* `StuckOnlyIdle` is the theorem of `thread_pool`, where finding 1 refutes the
  rest: what is left to hang is the destructor with idle workers, after every
  accepted task has run.

**Recursion over data.** `SumFunction`, `SumSet` and `FlattenSeq` are recursive
functions, and the library's induction theorems take an operator as a parameter,
which the installed provers cannot instantiate. The proofs use a least
counterexample in its place: of a set of numbers (`LeastNumber`) or of a set of
subsets (`SubsetInduction`), from the theorems on well-founded orders, which take
sets. `SelectSeq` is not one of them: its definition is opaque to the
provers, so that `DecisionMatrix` finds its rows as positions.

### Only model-checked

* The liveness properties (`EveryoneReturns`, `AcceptedTasksRun`, `WindowEnds`,
  `IterationEnds`, `SessionEnds`, `AllPhasesEnd`, `BenchmarkEnds`, `RunEnds`): they
  need `ENABLED` and fairness, which the installed provers do not support. That
  nobody is stuck is proved; that everybody gets to the end is not.
* The three violated properties, which are counterexamples.

## 5. Not modelled

* `timing`, `padded`: wrappers of the clock, and layout; no state.
* `size()`, `is_closed()`, `is_shutdown()`: reads.
* `Threads_CPUBound`: fork and join of independent loops.
* Rates that Google Benchmark computes, the arrival statistics of
  `bench_barrier.cpp:126-142`, and the tracker of `StdBarrier_ArrivalPattern`
  (265, 282, 291), in which every thread records each phase once.
* The contents of the maps of `ReadWriteData`: every key is there from the start,
  so an operation only overwrites one value, under the lock that `RaceFree` is
  about.
* Move assignment of `Task` (`src/bench_coroutines.cpp:130-138`), which no benchmark
  executes: tasks are only move-constructed, into a vector.
* `compare_results.sh`, `debug_benchmarks.sh`: straight-line scripts whose output
  nothing reads.
* The metadata of the decision matrix (host, build type, warnings).
* CI, CMake, documentation and the recorded JSON results: data.

## 6. Plan

Done: the queue with its clients, the pool, the window with pinning, the
condition-variable queue, all barrier benchmarks, the coroutines, the async
patterns, the lock workloads, the runner and the matrix, each with its safety
properties and refinements checked and proved, and so is that nobody is stuck.
What is left:

1. Abstract specifications of the parts that have none: a counter for the
   contention window, a store of results for the async patterns.
2. The liveness properties, once the provers do `ENABLED`: the steps that the
   theorems of "Nobody is stuck" provide, with a measure that each one lowers.
