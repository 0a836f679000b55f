# TLA+ models of marl

marl is a C++ library that runs tasks on fibers over a pool of worker threads.
This directory holds TLA+ models of its parts, the TLC configurations that
check them, and `PROJECT.json`, which lists for every definition the source
lines it models, for every run what it checks, and the hazards of the code.

Run a configuration with `tlc -workers 2 -config MCEvent.cfg MCEvent`.

## 1. The system

Source files (under `src/`; several files of the repository are stored under
the name of another, so the table names the file and what it holds):

| File | Holds |
|---|---|
| `include/marl/move_only_function.h` 1–207 | `move_only_function.h` |
| `include/marl/move_only_function.h` 208–732 | `scheduler.h`: `Scheduler`, `Fiber`, `Worker`, `Work`, `WaitingFibers` (declarations, `Fiber::wait`, `schedule`) |
| `unnamed/part_005` 1–462 | `containers.h`: `vector`, `list` |
| `unnamed/part_005` 463–641 | `event.h`: `Event` |
| `unnamed/part_004` | `memory.h`: `aligned_malloc`, `aligned_free` |
| `src/memory.cpp` | `DefaultAllocator`, a unit test |
| `unnamed/part_001` | `thread.cpp`: `Thread` (Windows and POSIX) |
| `src/osfiber_asm.h` | `OSFiber`: a fiber as a context, a function and a stack, over two assembly routines |
| `src/event_test.cpp`, `src/marl_bench.cpp` | tests, benchmark harness |
| `unnamed/part_000`, `part_002`, `part_003`, `kokoro/` | build rules, a development HTTP server, CI scripts |

`scheduler.cpp`, `conditionvariable.h` and the assembly of `osfiber_asm_*.h`
are not among the sources. The bodies
of the `Worker` and `Scheduler` methods are modelled from sections 4.4 and 4.5
of the design specification (`spec.md`), and the condition variable from its
contract; `PROJECT.json` marks those definitions `spec_modelled`.

### Components, their state and operations

**Scheduler** owns the worker threads. State: `workerThreads[]`,
`spinningWorkers[8]` (a ring of worker ids, −1 when empty),
`nextSpinningWorkerIdx`, `nextEnqueueIndex`. Operations: `enqueue(Task)` (take
a spinning worker out of the ring, else round robin, `tryLock` the worker and
move on if it is busy), `stealWork`, `onBeginSpinning`, the destructor (stop
and join every worker), `bind`/`unbind`/`get`.

**Worker** is one thread with its **Work**: `tasks` (queue), `fibers` (ready
queue), `waiting` (**WaitingFibers**: fibers with a timeout, ordered by
timeout), `num`, `numBlockedFibers`, all guarded by `work.mutex`, and the
condition variable `added` an idle worker sleeps on; and
`currentFiber`, `mainFiber`, `idleFibers`, `workerFibers`, `shutdown`.
Operations: `start`, `run` (loop: `waitForWork`, `runUntilIdle`), `spinForWork`
(spin and steal), `enqueueFiberTimeouts`, `wait(lock, timeout, pred)`,
`suspend`, `enqueue(Fiber*)`, `enqueue(Task)`, `steal`, `stop`.

**Fiber** has a state in `Idle, Yielded, Waiting, Queued, Running`.
`Fiber::wait` forwards to `Worker::wait`; `Fiber::notify` to
`Worker::enqueue(Fiber*)`, which is a no-op unless the fiber is `Yielded` or
`Waiting`.

**OSFiber** is what a `Fiber` switches with: `context` (the saved registers),
`target` (the function) and `stack`. `createFiberFromCurrentThread` makes the
object for what the thread already executes, `createFiber` one that starts
`OSFiber::run` on a new stack, and `switchTo` stores the registers in the
object it is called on and loads those of the other.

**Event** is a flag under a mutex with a condition variable: `signal`, `clear`,
`wait`, `wait_for`, `wait_until`, `test`, `isSignalled`, in `Auto` mode (a wait
that gets through takes the flag down) or `Manual` mode.

**containers::vector** keeps `BASE_CAPACITY` elements in a buffer of its own and
moves to a heap block when it grows. **containers::list** is a doubly linked
list whose entries come from blocks that double in size, with a free chain.

**move_only_function** stores a callable in a small inline buffer or on the
heap, behind a table `ops_` of `call` and `manager`.

**aligned_malloc / DefaultAllocator** over-allocate, align the pointer inside
the block, and hide the way back to the block next to the caller's bytes.

**Thread** (Windows) owns an `Impl` with the OS handle and a mutex, condition
variable and `finished` flag; `Impl::run` runs on the new thread and `join()`
waits for `finished`.

### How they interact

`Scheduler::enqueue` and tasks calling `schedule()` push onto a worker's `tasks`
while that worker pops, and other workers steal. A task that blocks calls
`Fiber::wait`, which hands the thread back to the worker's main fiber or to
another fiber; `notify()` from any thread, or the deadline, puts the fiber back
on `fibers`. The destructor sets `shutdown` and joins the thread, which leaves
`run()` only when no fiber is blocked. `Event` is built on the condition
variable, the scheduler's containers are `vector` and `list`, a `Task` wraps a
`move_only_function`, fiber stacks come from the allocator, and a worker thread
is a `Thread`.

### What is hard, and what must hold

* wait and notify from different threads: no wake-up may be lost, a fiber is
  never queued twice, a deadline racing a notify wakes the fiber once;
* a worker that sleeps is woken by whoever gives it work or stops it, also
  when a thief or a second enqueue changes its queue before it runs again;
* a task is run once: by the worker it was given to or by one thief;
* shutdown: the destructor returns only when every task has finished, and it
  does return;
* `Event`: a raised flag is never left with every waiter asleep; one signal of
  an `Auto` event lets one call through;
* containers, function object, allocator: long sequences of legal calls never
  reach undefined behaviour, nothing leaks, contents are kept;
* `Thread`: no thread touches an `Impl` after its owner deleted it;
* `OSFiber`: a context is good for one resumption; a fiber goes on exactly
  where it called `switchTo()`, and never on a stack that was freed;
* deadlines: a timed wait gives up at or after the time the caller named;
* locks: the user lock comes before `work.mutex`, never the other way round.

`PROJECT.json` lists each hazard at its source line, with the properties that
cover it.

## 2. Modules

| Module | Models | Checked by |
|---|---|---|
| `Scheduler`, `SchedulerSpec` | Scheduler, Worker, Work, WaitingFibers, Fiber in multi-threaded mode, and the abstract scheduler they implement | `MCScheduler` |
| `Event`, `EventSpec` | `Event` and the abstract event it implements | `MCEvent` |
| `Vector` | `containers::vector` | `MCVector` |
| `List` | `containers::list` | `MCList` |
| `MoveOnlyFunction`, `FunctionSpec` | `move_only_function` and the abstract function object | `MCMoveOnlyFunction` |
| `Memory` | `aligned_malloc`, `aligned_free`, `DefaultAllocator`, `MemoryTest.AlignedMalloc` | `MCMemory` |
| `Thread` | `Thread` (Windows) | `MCThread` |
| `OSFiber` | `OSFiber` over registers, contexts and stacks | `MCOSFiber` |

### Scheduler

Variables follow the fields of the header: `tasks`, `fibers`, `waiting`, `num`,
`numBlockedFibers` and `added` per worker; `currentFiber`, `idleFibers`, `workerFibers`,
`shutdown`; `fiberState`; `spinningWorkers`, `nextSpinningWorkerIdx`,
`nextEnqueueIndex`, and `bound`, the thread-local `Scheduler::bound` of `Main`
and of every worker thread. What a task does is its `Program`, a sequence of
calls (`schedule`, `wait`, `waitUntil`, `waitUnlocked`, `waitUnlockedUntil`,
`notify`, `set`; for `Main` also `bind` and `unbind`); `Main` is the thread
that owns the scheduler. A condition is a flag `cond[c]` under a user lock `lock[c]` with a
list of waiting fibers, as `ConditionVariable` keeps.

Modelling decisions:

* A critical section of `work.mutex` that neither blocks nor takes another lock
  is one step. `WorkMutexHolder(w)` is the thread that holds `work.mutex` from
  one step to the next: the worker's own thread while its main fiber is inside
  `run()` (`Locked(w)`), or nobody. Every step of another thread that goes to
  the worker's `Work` (`Enqueue`'s `tryLock`, `EnqueuePut`, `StealWork`,
  `Notify`, `NotifyTask`, `StopWorker`) has `WorkMutexHolder(w) = None` in its
  guard. Both definitions are a decision of the model, taken from section 4.4
  of the design specification; the header only declares the mutex and
  annotates `run()` with it. That the fields of `Work` change only under the
  mutex is therefore assumed by the model, not shown by it.
* A wait with a lock is three steps. `WaitEnter`: the caller takes the user
  lock and `Fiber::wait` evaluates the predicate; true ends the wait, false
  leaves the fiber on its way to suspend, the user lock still held. `Suspend`:
  `Worker::wait` takes `work.mutex`, releases the user lock and calls
  `Worker::suspend` (`SuspendFiber`), which marks the fiber `Yielded`, or
  `Waiting` with its deadline in the waiting set, and switches to the first
  ready fiber or, with none, to the main fiber. `Relock`: the resumed fiber,
  `work.mutex` released, takes the user lock again and tests the predicate,
  then the deadline. The waits without a lock share `SuspendFiber`.
* `Fiber::wait()` and `Fiber::wait(timeout)` are `WaitUnlocked` (one critical
  section of `work.mutex` that ends in the switch) and `WaitUnlockedReturn`.
  `Fiber::notify()` called by the program is `NotifyTask`: it reaches the
  fiber that runs the named task, which `Worker::enqueue(Fiber*)` queues only
  if it is `Yielded` or `Waiting`; on a fiber that is not suspended yet, or on
  a task that has no fiber, it does nothing. The untimed wait without a lock
  is an operation of the model, and the program of the run does not use it
  with a notify from another thread: the header says why, and a notify that
  comes early leaves such a fiber suspended for ever.
* `waitForWork` is `BeginSpinning`, any number of `StealWork` from another
  worker, and then the wait on `work.added`, which evaluates its predicate
  (`WorkOrExit`: something queued, or leave to exit) under `work.mutex`. With
  the predicate true, or a deadline of the waiting set passed, the worker
  goes on in `run()` (`Wake`); otherwise its thread sleeps (`Park`). A
  sleeping worker evaluates the predicate again only when it has been
  signalled (`added[w]`) or when the earliest deadline has come.
  `Worker::enqueue` of a task or a fiber and `Worker::stop` signal
  (`NotifyAdded`); a signal to a worker that is not asleep is gone, as with a
  condition variable. The end of the spin budget is not a step of its own: a
  spinning worker may go to the wait at any time.
* `nextEnqueueIndex` is a 32-bit counter and `IndexModulus` stands for 2^32.
  The run makes three `schedule()` calls, so the counter does not reach the
  modulus there; the wrap of an unsigned counter that is only used modulo the
  number of workers is not among the hazards.
* `StopWorker` happens when `Main` has finished its program and every task has
  been submitted, which the specification requires of the caller.
* `schedule()` is `Schedule`: the calling thread must have a scheduler bound
  (`HasBoundScheduler`), and the task goes to `Scheduler::enqueue`. `Start`
  binds the worker's thread, `Bind` and `Unbind` the owner's, and the
  destructor waits until the owner is unbound (`UnboundFromAllThreads`).
* Time is counted in ticks of the caller's time points. `Fiber::wait` converts
  a deadline to a `Scheduler::TimePoint` with `time_point_cast`, a division by
  `TicksPerTimePoint` that drops the remainder (`TimePointCast`), and the
  worker compares it with `SystemNow`, the clock in the same unit.
* `FastRnd` is the xorshift of the header on 64-bit words written as sets of
  bit positions. `MCScheduler` checks it against `FastRndInverse`, its three
  steps undone, over the one-bit words (which span all words, as the function
  is linear over xor) and some others: no seed but zero ever gives zero. It
  also checks that 32 draws from each of these seeds pick every one of 2, 3
  and 4 workers as `rng() % numWorkerThreads`, which is why `StealWork` may
  take any other worker as its victim.
* Not modelled: the flag `notifyAdded`, which spares the signal to a worker
  that is awake; the single-threaded worker that `bind()` creates
  (it gets no task while there are worker threads), what the timed wait
  without a lock returns, the exchange of `OSFiber` contexts (module
  `OSFiber`).

`SchedulerSpec` is the scheduler as a program of tasks sees it: a task is
`unscheduled`, `scheduled`, `running`, `waiting` or `done`; a wait on a true
predicate passes, a wait on a false one is entered and returns the predicate,
on a false predicate only if it had a deadline; `Destroy` needs every task
`unscheduled` or `done`. It has no workers, fibers, queues, clock or locks.
`Scheduler` maps to it by `Status(t)` (`done` from the phase, `waiting` while
the task is inside a wait with a lock between `Suspend` and `Relock`,
`running` when a fiber carries the task, `scheduled` when a `schedule()` that
names it has been executed), `flag <- cond`, `on` and `timed` from the call the
task is at, `ret <- result`. A step that only moves a task between queues, a
fiber between states or a lock between threads is a stuttering step of
`SchedulerSpec`; a notify that resumes a fiber on a false predicate is one too,
since the fiber goes back to `suspended` without leaving `waiting`.

### Event

A method holds `shared->mutex` for its whole body and gives it up only inside
`cv.wait`, so a method is one step and a blocking wait is two (`Wait`,
`WaitReturn`; `WaitFor`, `WaitForReturn`). `wait_until` is `wait_for` with the
deadline computed by the caller. The condition variable is its contract:
`NotifyOne` picks any registered thread, `NotifyAll` all, `Timeout` ends a timed
sleep, `SpuriousWake` any sleep. `Event` is shown to implement `EventSpec`, in
which a call is one atomic step on a flag, by the mapping `flag <- signalled`,
`inWait <-` where the thread is.

`WaitForReturn` returns what `cv.wait_for(lock, duration, pred)` returns, the
predicate at that moment: a `wait_for` whose time is up while the flag is up
returns `true`, and takes the flag of an `Auto` event. The comment in the
header (`event.h`, "If the timeout was reached, then wait_for() return
false") reads as if the timeout alone decided; the code, the model and
`EventSpec` return `false` only when the time is up and the flag is down.

### Vector, List, MoveOnlyFunction, Memory

These are sequential: a method is a function from the object's record to the
new record, built from the same helpers as the code (`Reserve`, `Free`;
`Link`, `Unlink`, `Grow`; `Manage`), and an action applies it. Storage is
explicit: the vector's areas hold the objects alive in them, the list's `next`
and `prev` are functions over entries, the function object's `object` is a cell,
memory is an array of cells with bookkeeping written into it. Undefined
behaviour (a destructor on no object, a write through null, a double free, a
call through a null `ops_`, a free of an address malloc never returned) is
recorded in `fault`, and the object stops. `shadow` in `Vector` and the
abstract `FunctionSpec` say what the object should hold.

`Placement` is the arithmetic of `aligned_malloc` for a block that `new[]`
puts at `base`: the bytes asked for, the pointer handed out, the offset kept in
a `uint8_t`. The action `AlignedMalloc` uses it with the scaled modulus.
`AlignedMallocTest` is `MemoryTest.AlignedMalloc` of `memory.cpp` with its own
sizes and alignments: the `ASSERT_EQ` on the pointer, the `memset` inside the
block, and the `aligned_free` that must get back to `base`.

### Thread

The threads of `Impl::run` take `RunFunc`, `RunLock` (lock, `finished = true`)
and `RunNotify` (`notify_all`, unlock); the owner constructs, moves, joins and
destroys. Every step of `run` uses the `Impl`; using one that was deleted is
the fault. The owner destroys only joined threads and assigns only to empty
`Thread` objects, as `Worker` does; `SpecWithAssign` lets it also assign to a
`Thread` it has joined.

### OSFiber

A thread has registers, `cpu[th]`: the stack it executes on, the step the code
on that stack is at, and the room left on the stack. `marl_fiber_swap` is
`Swap`: `context[from]` takes the registers and the registers take
`context[to]`. Nothing else says which fiber runs. `progress[s]` records the
step the code on stack `s` has really reached, so that registers loaded from a
context that is stale, zeroed or of a deleted fiber are seen. `SizeModulus`
stands for 2^32: `createFiber` takes a `size_t` and hands
`marl_fiber_set_target` a `uint32_t` (`StackSize32`). Undefined behaviour (a
jump through a zeroed context, a start on a stack with no room, a call of an
empty function, a step on a freed stack) is recorded in `fault`. The callers
keep the header's rules, as the scheduler's workers do: `switchTo()` is called
on the executing fiber, a fiber stays on the thread that made it, the
executing fiber is not deleted. The two assembly routines follow section 4.1
of the design specification.

## 3. Runs

| Run | Configuration | Result | Distinct states |
|---|---|---|---|
| `event` | `MCEvent.cfg` | pass | 23 563 |
| `scheduler` | `MCScheduler.cfg` | pass | 336 409 |
| `vector_safety` | `MCVector.cfg` | pass | 13 312 |
| `vector_assign` | `MCVectorAssign.cfg` | `MemorySafe` violated | |
| `list_safety` | `MCList.cfg` | pass | 1 524 |
| `function_safety` | `MCMoveOnlyFunction.cfg` | pass | 2 995 |
| `function_reset` | `MCMoveOnlyFunctionReset.cfg` | `MemorySafe` violated | |
| `memory_safety` | `MCMemory.cfg` | pass | 25 991 |
| `thread` | `MCThread.cfg` | pass | 398 |
| `thread_assign` | `MCThreadAssign.cfg` | `OneOwnerEach` violated | |
| `osfiber` | `MCOSFiber.cfg` | pass | 53 991 |
| `wait_early` | `MCSchedulerTimed.cfg` | `TimeoutNotEarly` violated | |

**event.** Three threads, both modes, either initial flag. `NoLostSignal`:
while the flag is up and someone sleeps, someone else is on the way to take the
flag (`signal()` returns early on a raised flag, so nobody else would wake
them). `ManualReleasesAll`. `ImplementsEventSpec`: every behaviour is one of
the atomic event, results included. `SignalReachesWaiter` (liveness): a waiter
on a raised flag gets out or the flag is taken. Three threads are the least
with two waiters and a signaller, which is where `notify_one` has a choice.

**scheduler.** Two workers, three tasks, one condition (`MCScheduler.tla`):
`Main` binds, schedules T1 and T2 and unbinds; T1 waits for c1 with a deadline;
T2 schedules T3 from inside a task, notifies T3 and signals c1; T3 waits
without a lock until a deadline and then waits for c1 with none. T2's notify
finds T3 not started, running, suspended, or queued again by its deadline; its
signal races T1's deadline and comes before or after T3's second wait; and
when T3's first wait has timed out before the notify, the notify resumes T3
inside its second wait on a false predicate, and T3 suspends again. `MaxFibers = 3` lets
every task block on a fiber of its own; `RingSize = 2` makes the ring of
spinning workers wrap, and `IndexModulus = 4` leaves room for the three
`schedule()` calls; `MaxTime = 1` is the deadline of both
timed waits, so the clock has a step before it and one that reaches it;
`TicksPerTimePoint = 1`, the caller's time points being those of the system
clock. Checked:

* `QueueInvariant` (`num` and the queues agree, no fiber queued twice),
  `FiberPlacement` (a fiber's state says where it is), `TaskConservation` (a
  submitted task is in exactly one place), `NoLostWakeup`,
  `DestroyedMeansDone`;
* `NoSleepOnWork`: a worker asleep on `work.added` while it has a task or a
  fiber queued, or while it may exit, has been signalled. The worker sleeps
  while other threads enqueue to it (round robin, or because its id was still
  in the ring), steal from it, notify its fibers and stop it, in any order;
  a worker that was signalled and finds its queue empty again, because a thief
  was faster, goes back to sleep and must be signalled by the next enqueue;
* `ImplementsSchedulerSpec`: every step is a step of `SchedulerSpec` or leaves
  its variables alone. It is stated as the initial condition and the step
  property, with the stuttering case first, which TLC checks far faster than
  the same formula through `Abstract!Spec`. What a wait returns (the
  predicate, and `false` only with a deadline) is part of it;
* `Termination`: the destructor returns, which needs every wait to return,
  every deadline to wake its fiber and every sleeping worker to be woken.

**wait_early.** One worker and one task that waits until time 3, in ticks of
which two make one tick of `Scheduler::TimePoint`, for a condition nobody
signals. `TimeoutNotEarly` says that a timed wait reports a timeout only at or
after the deadline the caller named; TLC finds the wait returning `false` at
time 2: `time_point_cast` made the deadline 1 system tick, which time 2
reaches.

**vector_safety.** `BaseCapacity = 2`, sizes to 9, two heap blocks: the vector
grows from the buffer to a block of 8 and from that to a larger one.
A vector that is moved from is resized to 0 by the vector that takes its
elements (`MovedFrom`).
`HoldsWhatWasPut`, `NothingLeaked`, `MemorySafe`. **vector_assign** adds
`operator=` on a vector in use and finds `MemorySafe` violated: `free()` leaves
`count` and `allocation` and nulls `elements`, so the `reserve()` that follows
moves out of destroyed objects or frees the block again.

**list_safety.** `MinGrow = 1`, capacity to 4: three growths. `IsTheSequence`,
`EveryEntryOnOneChain` (head and free chains partition the entries and `prev`
mirrors `next`), `ReleasedOnDestruction`.

**function_safety.** Two function objects, a callable that fits the buffer and
one that does not, three heap cells. `EveryCallableOwnedOnce`, `MemorySafe`,
`ImplementsFunctionSpec`. **function_reset** adds `f = nullptr` on an empty
object and finds `MemorySafe` violated: `operator=(nullptr_t)` calls
`ops_->manager` without testing `ops_`.

**memory_safety.** Addresses 0..15, sizes 1..2, alignments 1..4, two live
allocations, `OffsetModulus = 4` in place of 256 so that the offset byte is at
its limit, `PointerSize = 2`. `AlignedInsideABlock`, `OneBlockEach`,
`MemorySafe`. `AlignedMallocTestPasses` is the unit test at full width: the 28
sizes and 8 alignments of `MemoryTest.AlignedMalloc`, the offset modulo 256,
and `new[]` returning every base in 0..255, which stand for all addresses
because every alignment of the test divides 256. The test itself sees only
the few addresses the allocator of the day returns.

**thread.** Two `Thread` objects, two `Impl`s. `MemorySafe` (no use of a
deleted `Impl`), `OneOwnerEach`, `JoinReturns` (liveness). **thread_assign**
lets the owner assign to a `Thread` it has joined and finds `OneOwnerEach`
violated: the open handle of the deleted `Impl` has no owner left.

**osfiber.** Two threads and three objects, so that a thread has the fiber made
from it and two more to switch between, the other thread does the same
meanwhile, and an address is used again after a delete; `MaxSteps = 3` lets a
fiber be left and resumed twice; stack sizes 2 and 5 with `SizeModulus = 4`,
so that one size is changed by the conversion and stays usable. Threads and
objects are symmetric. `MemorySafe` (no undefined behaviour) and
`ResumesWhereItLeft`: the registers of a thread are those of the fiber it
executes at the step its stack has reached, and the context of every other
fiber is that of its own stack at the step where it left.

Every property has a mutant in `PROJECT.json`: a plausible wrong version of a
mapped definition under which TLC finds the property violated.

## 4. Fairness

* `Scheduler`: weak fairness of each worker thread's step, of `Main`'s step and
  of the clock. The operating system runs a runnable thread; what a thread
  waits for (a lock, `work.added`) is in the guard of its step, and the
  critical sections of the others are finite.
* `Event`: weak fairness of `WaitReturn` and `WaitForReturn` only: a woken
  thread gets the mutex. No caller is obliged to call, no timeout to fire.
* `Thread`: weak fairness of each started thread's steps and of the wake-up of
  `join()`; the owner is not obliged to do anything else.
* The sequential modules and `OSFiber` have no fairness and no liveness
  properties: nothing obliges a caller to make the next call.

Deadlock is checked in every run; a finished program stutters by an explicit
action (`Terminated`, `Finished`, `Crashed`).

## 5. Findings

1. `vector::operator=` (`unnamed/part_005:117`) is undefined on a vector that
   holds elements or a heap block (`vector_assign`).
2. `move_only_function::operator=(nullptr_t)`
   (`include/marl/move_only_function.h:112`) dereferences a null `ops_` on an
   empty object (`function_reset`).
3. `Thread::operator=` (`unnamed/part_001:246`) deletes the `Impl` it holds
   without the `CloseHandle` of the destructor: the handle of a joined thread
   that is assigned over stays open (`thread_assign`).
4. `Fiber::wait(lock, timeout, pred)`
   (`include/marl/move_only_function.h:679`) rounds the deadline down to a tick
   of `system_clock`, so a timed wait can report a timeout before the deadline
   the caller gave; the design specification says a wake is never earlier
   (`wait_early`). With the time points of `system_clock` itself nothing is
   rounded.

Read off the sources, without a run:

5. The header starts `nextEnqueueIndex` at 0 and `nextSpinningWorkerIdx` at
   `0x8000000`; the design specification gives `0x8000000` to
   `next_enqueue_index`. The model follows the header.
6. The steps of `wait` in section 4.4 of the design specification take the
   user lock again while `work.mutex` is held, and the same section says the
   order is always user lock, then `work.mutex`. The model releases
   `work.mutex` when the fiber is resumed, before the user lock is retaken,
   which is what the header's annotations of `wait` and `suspend` allow, and
   `Termination` holds of it. With `work.mutex` kept until the user lock is
   retaken (`WorkMutexHolder(w)` also `w` while a task on `w` is in the phase
   `relock`) the run deadlocks: the resumed fiber's thread holds `work.mutex`
   and wants the user lock, the signaller holds the user lock and wants
   `work.mutex` to queue a waiter.

## 6. Not modelled

* The assembly of `marl_fiber_set_target` and `marl_fiber_swap`, and the
  registers it does not save (floating-point control, signal masks): the
  sources hold their declarations only.
* The single-threaded worker, which runs the work of its thread inside
  `wait()` and `unbind()`: its code is in `scheduler.cpp`, which the sources
  do not hold, and the design specification gives it two sentences (`start()`
  binds the worker to the calling thread, work is drained lazily during
  `wait`). That is too little to say what a bound thread does while it waits,
  so `Main` binds, schedules and unbinds and never waits, and a scheduler
  with no worker threads is not modelled.
* What `Fiber::wait(timeout)` without a lock returns: `Worker::wait(timeout)`
  is not in the sources, and the specification does not say what it returns
  after a notify.
* A `schedule()` that races the destructor: it is listed as a hazard, and
  would be a run that expects a violation of a rule the caller is told to
  keep.
* A stack size that the conversion to `uint32_t` changes, as a fault of the
  scheduler: `OSFiber` models the conversion, and the scheduler's only stack
  size, `FiberStackSize` = 2^20, is left as it is.
* Mutual exclusion on the fields of `Work` as a result: the model takes every
  critical section of `work.mutex` as one step, so it assumes it.
* `setWorkerThreadCount` after construction, the thread initializer.
* Processor groups and affinity, `setName`, `numLogicalCPUs`, the POSIX
  `Thread` (a `std::thread`), guard pages (the allocator asserts they are not
  asked for).
* `marl_bench.cpp`: `main` hands the arguments to the benchmark library, and
  `doSomeWork` is arithmetic on one `uint32_t` that no other code reads.
* The unit tests other than `MemoryTest.AlignedMalloc`, build files and
  scripts.

## 7. How the modules fit together

The modules are checked one by one, and each states what it assumes of its
callers in its guards.

* `Scheduler` and `Event`. A condition of `Scheduler` is a flag under a user
  lock with a list of waiting fibers; `set` raises the flag and notifies every
  waiter, which is `Event::signal()` in `Manual` mode, and `wait` is
  `Event::wait()`. `Event` takes the condition variable by its contract
  (a registered thread is woken by a notify, by a timeout or spuriously), and
  `Scheduler` shows fibers keeping that contract: `NoLostWakeup` and
  `ImplementsSchedulerSpec`. The reset of an `Auto` event is checked in `Event`
  only.
* `Scheduler` and `OSFiber`. `OSFiber` is checked for every caller that keeps
  the header's rules. The workers of `Scheduler` keep them: a fiber belongs to
  the worker that made it, a switch leaves that worker's current fiber, and a
  fiber is `Running` only as the current fiber of its worker
  (`FiberPlacement`). `FiberStackSize` is 2^20, which the conversion to
  `uint32_t` leaves as it is.
* `Scheduler` and `Thread`. `Worker::start` constructs the `Thread` and
  `Worker::stop` joins it before the destructor of the worker destroys it,
  which is the order `Thread` asks of its owner.
* `Vector`, `List` and `Memory`. The containers take blocks from an allocator
  that hands out each block once; `Memory` shows `DefaultAllocator` doing so
  (`OneBlockEach`).

## 8. Open

1. Single-threaded mode, once `scheduler.cpp` is at hand.
2. `schedule()` racing the destructor, as a run that expects
   `DestroyedMeansDone` to fail: the design specification promises completion
   only of tasks enqueued before the destructor.
3. A condition with the reset of an `Auto` event in `Scheduler`.
