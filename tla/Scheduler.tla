----------------------------- MODULE Scheduler ------------------------------
(***************************************************************************)
(* The core of marl::Scheduler in multi-threaded mode: worker threads,     *)
(* each with its Work (task queue, ready-fiber queue, waiting set), the    *)
(* fibers tasks run on, Fiber::wait / Fiber::notify, work stealing and the *)
(* ring of spinning workers, Scheduler::enqueue and the shutdown.          *)
(*                                                                         *)
(* The state is declared in include/marl/scheduler.h.  The bodies of the   *)
(* Worker and Scheduler methods are not part of the sources at hand: the   *)
(* actions follow sections 4.4 and 4.5 of the design specification.        *)
(*                                                                         *)
(* Threads.  Every worker has one OS thread, which runs one fiber at a     *)
(* time: the worker's main fiber (inside run()) or a task fiber (inside    *)
(* the task).  One more thread, Main, owns the scheduler.  What a task or  *)
(* Main does is its Program, a list of calls into the scheduler.           *)
(*                                                                         *)
(* work.mutex.  A critical section that neither blocks nor takes a second  *)
(* lock is one step.  The only holder of work.mutex across steps is the    *)
(* worker's own thread while its main fiber is inside run(): Locked(w),    *)
(* WorkMutexHolder(w).                                                     *)
(*                                                                         *)
(* work.added.  A worker with nothing to run sleeps on this condition      *)
(* variable and looks at its queues again only when it is signalled or     *)
(* when the earliest deadline of its waiting set has come: added[w] is the *)
(* signal a sleeping worker has been given and has not yet acted on.  A    *)
(* signal that finds the worker awake is gone.                             *)
(***************************************************************************)
EXTENDS Integers, Sequences, FiniteSets, SequencesExt

CONSTANTS
    NumWorkers,    \* Scheduler::numWorkerThreads, at least 1 here
    Tasks,         \* the tasks that are ever scheduled
    Conds,         \* the conditions tasks wait for, each under its own lock
    Main,          \* the thread that owns the scheduler
    MainFiber,     \* Worker::mainFiber, as a value of currentFiber
    None,          \* no task, no holder, no result
    Program,       \* Program[a]: the calls actor a makes, in order
    MaxFibers,     \* bound on the fibers a worker creates
    RingSize,      \* size of Scheduler::spinningWorkers (8 in the code)
    IndexModulus,  \* stands for 2^32, where nextEnqueueIndex wraps
    TicksPerTimePoint,  \* ticks of the caller's time points in one tick of
                        \* Scheduler::TimePoint (system_clock::duration)
    MaxTime        \* the clock stops here, in the caller's ticks; every
                   \* deadline is at most this

Workers  == 0 .. NumWorkers - 1
FiberIds == 1 .. MaxFibers
Actors   == Tasks \cup {Main}

\* Scheduler::Fiber::State
FiberStates == {"Idle", "Yielded", "Waiting", "Queued", "Running"}

\* Scheduler::WaitingFibers::Timeout, and the order std::set keeps them in.
\* The fiber id stands for the fiber pointer that breaks ties.
Timeouts == [timepoint : 0 .. MaxTime, fiber : FiberIds]
TimeoutLess(a, b) ==
    \/ a.timepoint < b.timepoint
    \/ a.timepoint = b.timepoint /\ a.fiber < b.fiber

\* An empty slot of the ring of spinning workers.
Sentinel == -1

\* The calls of a program.
Ops ==
    [op : {"bind", "unbind"}]
    \cup [op : {"schedule"}, task : Tasks]
    \cup [op : {"set", "wait"}, cond : Conds]
    \cup [op : {"waitUntil"}, cond : Conds, deadline : 0 .. MaxTime]
    \cup [op : {"waitUnlocked"}]
    \cup [op : {"waitUnlockedUntil"}, deadline : 0 .. MaxTime]
    \cup [op : {"notify"}, task : Tasks]

ASSUME /\ NumWorkers \in Nat \ {0}
       /\ MaxFibers \in Nat \ {0}
       /\ RingSize \in Nat \ {0}
       /\ IndexModulus \in Nat \ {0}
       /\ MaxTime \in Nat
       /\ TicksPerTimePoint \in Nat \ {0}
       /\ Program \in [Actors -> Seq(Ops)]
       \* Main is a plain thread: it is not on a fiber and cannot Fiber::wait
       /\ \A k \in DOMAIN Program[Main] :
            Program[Main][k].op \in {"bind", "unbind", "schedule", "set", "notify"}
       \* the worker threads are bound by Worker::start, for good
       /\ \A t \in Tasks : \A k \in DOMAIN Program[t] :
            Program[t][k].op \notin {"bind", "unbind"}
       \* a task is scheduled by exactly one call
       /\ \A t \in Tasks :
            Cardinality({<<a, k>> \in Actors \X (1 .. 8) :
                            /\ k \in DOMAIN Program[a]
                            /\ Program[a][k] = [op |-> "schedule", task |-> t]}) = 1

VARIABLES
    \* Worker::Work, per worker
    tasks,             \* work.tasks
    fibers,            \* work.fibers
    waiting,           \* work.waiting
    num,               \* work.num
    numBlockedFibers,  \* work.numBlockedFibers
    added,             \* work.added has been notified and the worker, asleep
                       \* on it, has not run since
    \* Worker, per worker
    wpc,               \* where the worker's thread is with its main fiber
    currentFiber,      \* Worker::currentFiber
    idleFibers,        \* Worker::idleFibers
    workerFibers,      \* Worker::workerFibers, as the ids created so far
    shutdown,          \* Worker::shutdown
    \* Fiber, per worker and fiber id
    fiberState,        \* Fiber::state
    fiberTask,         \* the task whose body the fiber runs
    \* Scheduler
    nextEnqueueIndex,
    spinningWorkers,
    nextSpinningWorkerIdx,
    bound,             \* bound[th]: Scheduler::bound of thread th is this scheduler
    destroyed,         \* ~Scheduler has returned
    \* the actors
    pc,                \* pc[a]: the call of Program[a] that a is at
    phase,             \* phase[a]: how far a is inside that call
    target,            \* target[a]: the worker a's Scheduler::enqueue chose
    toNotify,          \* toNotify[a]: fibers a has still to notify
    result,            \* result[a]: what a's last wait returned
    \* the conditions
    cond,              \* cond[c]: the predicate waited for
    lock,              \* lock[c]: the actor that holds c's lock
    waiters,           \* waiters[c]: the fibers inside a wait for c
    now                \* the time, in ticks of the caller's time points

workVars   == <<tasks, fibers, waiting, num, numBlockedFibers, added>>
workerVars == <<wpc, currentFiber, idleFibers, workerFibers, shutdown>>
fiberVars  == <<fiberState, fiberTask>>
schedVars  == <<nextEnqueueIndex, spinningWorkers, nextSpinningWorkerIdx, bound,
                destroyed>>
actorVars  == <<pc, phase, target, toNotify, result>>
condVars   == <<cond, lock, waiters>>
vars == <<workVars, workerVars, fiberVars, schedVars, actorVars, condVars, now>>

-----------------------------------------------------------------------------
(* Reading the state.                                                      *)

\* The worker's own thread holds work.mutex: its main fiber is inside run().
Locked(w) == wpc[w] = "run" /\ currentFiber[w] = MainFiber

\* Worker::getCurrentFiber
getCurrentFiber(w) == currentFiber[w]

\* Task t is what worker w's thread executes.
OnCpu(t, w) ==
    /\ getCurrentFiber(w) \in FiberIds
    /\ fiberTask[w][getCurrentFiber(w)] = t

\* work.mutex of worker w, as the thread that holds it from one step to the
\* next: the worker's own thread inside run(), or nobody.
WorkMutexHolder(w) == IF Locked(w) THEN w ELSE None

\* Actor a is at a call of the given kind, and not yet inside it.
AtOp(a, kinds) ==
    /\ pc[a] \in DOMAIN Program[a]
    /\ Program[a][pc[a]].op \in kinds

Op(a) == Program[a][pc[a]]

\* Every task has been handed to Scheduler::enqueue.
AllSubmitted ==
    \A a \in Actors : \A k \in DOMAIN Program[a] :
        Program[a][k].op = "schedule" => pc[a] > k

NothingReady(w) == tasks[w] = <<>> /\ fibers[w] = <<>>

\* Mutant: a worker that ends while fibers of its are still blocked.
ExitConditionIgnoresBlocked(w) ==
    /\ shutdown[w]
    /\ NothingReady(w)

\* Step 5 of the main loop.
ExitCondition(w) ==
    /\ shutdown[w]
    /\ NothingReady(w)
    /\ waiting[w] = {}
    /\ numBlockedFibers[w] = 0

\* std::chrono::system_clock::now(), a Scheduler::TimePoint.
SystemNow == now \div TicksPerTimePoint

\* WaitingFibers::take, as often as it returns a fiber: the waiting entries
\* whose time has come, earliest first.
Expired(w) ==
    SetToSortSeq({e \in waiting[w] : e.timepoint <= SystemNow}, TimeoutLess)

-----------------------------------------------------------------------------
(* Worker::FastRnd, the generator a spinning worker picks its victim with. *)
(* A uint64_t is the set of the positions of its one bits.                 *)

Bits64 == 0 .. 63

Xor(a, b) == (a \ b) \cup (b \ a)
ShiftLeft(a, k) == {i + k : i \in a} \cap Bits64
ShiftRight(a, k) == {i - k : i \in a} \cap Bits64

\* x ^= x << 13; x ^= x >> 7; x ^= x << 17; return x;
FastRnd(x) ==
    LET a == Xor(x, ShiftLeft(x, 13))
        b == Xor(a, ShiftRight(a, 7))
    IN  Xor(b, ShiftLeft(b, 17))

\* The reference FastRnd is checked against: each of its three steps undone.
\* y = x ^ (x << k) gives x = y ^ (y << k) ^ (y << 2k) ^ ..., and the same to
\* the right.
Undo(shift(_, _), y, k) ==
    FoldSet(LAMBDA n, acc : Xor(acc, shift(y, n * k)), {}, 0 .. (63 \div k))

FastRndInverse(y) ==
    LET b == Undo(ShiftLeft, y, 17)
        a == Undo(ShiftRight, b, 7)
    IN  Undo(ShiftLeft, a, 13)

\* rng() % numWorkerThreads, the victim of a steal.
RECURSIVE PowerOfTwoMod(_, _)
PowerOfTwoMod(i, n) ==
    IF i = 0 THEN 1 % n
    ELSE LET half == PowerOfTwoMod(i \div 2, n)
         IN  (half * half * (1 + (i % 2))) % n

WordMod(x, n) ==
    FoldSet(LAMBDA r, acc : acc + r * Cardinality({i \in x : PowerOfTwoMod(i, n) = r}),
            0, 0 .. n - 1) % n

\* The values rng() returns in its first draws from the seed x.
RECURSIVE Draws(_, _)
Draws(x, draws) ==
    IF draws = 0 THEN {} ELSE {FastRnd(x)} \cup Draws(FastRnd(x), draws - 1)

-----------------------------------------------------------------------------
(* The scheduler as it is constructed, its worker threads spawned and not   *)
(* yet running.                                                             *)

InitWork ==
    /\ tasks = [w \in Workers |-> <<>>]
    /\ fibers = [w \in Workers |-> <<>>]
    /\ waiting = [w \in Workers |-> {}]
    /\ num = [w \in Workers |-> 0]
    /\ numBlockedFibers = [w \in Workers |-> 0]
    /\ added = [w \in Workers |-> FALSE]

InitWorker ==
    /\ wpc = [w \in Workers |-> "unstarted"]
    /\ currentFiber = [w \in Workers |-> MainFiber]
    /\ idleFibers = [w \in Workers |-> {}]
    /\ workerFibers = [w \in Workers |-> {}]
    /\ shutdown = [w \in Workers |-> FALSE]
    /\ fiberState = [w \in Workers |-> [i \in FiberIds |-> "Idle"]]
    /\ fiberTask = [w \in Workers |-> [i \in FiberIds |-> None]]

InitScheduler ==
    /\ nextEnqueueIndex = 0
    /\ spinningWorkers = [k \in 0 .. RingSize - 1 |-> Sentinel]
    /\ nextSpinningWorkerIdx = 134217728 % RingSize    \* 0x8000000
    /\ bound = [th \in Workers \cup {Main} |-> FALSE]
    /\ destroyed = FALSE

Init ==
    /\ InitWork /\ InitWorker /\ InitScheduler
    /\ pc = [a \in Actors |-> 1]
    /\ phase = [a \in Actors |-> "ready"]
    /\ target = [a \in Actors |-> 0]
    /\ toNotify = [a \in Actors |-> {}]
    /\ result = [a \in Actors |-> None]
    /\ cond = [c \in Conds |-> FALSE]
    /\ lock = [c \in Conds |-> None]
    /\ waiters = [c \in Conds |-> {}]
    /\ now = 0

-----------------------------------------------------------------------------
(* Changes to a worker's Work, made under work.mutex.                      *)

\* work.added is signalled: the worker's thread is woken if it sleeps on it,
\* and with nobody asleep the signal is gone.
NotifyAdded(w) == added' = [added EXCEPT ![w] = @ \/ wpc[w] = "parked"]

\* Mutant: a task is queued and work.added is not signalled.
EnqueueTaskUnnotified(w, t) ==
    /\ tasks' = [tasks EXCEPT ![w] = Append(@, t)]
    /\ num' = [num EXCEPT ![w] = @ + 1]
    /\ UNCHANGED added

\* Worker::enqueue(Task&&) and Worker::enqueueAndUnlock.
EnqueueTask(w, t) ==
    /\ tasks' = [tasks EXCEPT ![w] = Append(@, t)]
    /\ num' = [num EXCEPT ![w] = @ + 1]
    /\ NotifyAdded(w)

\* Mutant: fibers made ready without counting them in work.num.
MakeReadyUncounted(w, ids) ==
    /\ fibers' = [fibers EXCEPT ![w] = @ \o ids]
    /\ waiting' = [waiting EXCEPT ![w] = {e \in @ : e.fiber \notin ToSet(ids)}]
    /\ fiberState' = [fiberState EXCEPT ![w] =
                         [i \in FiberIds |-> IF i \in ToSet(ids) THEN "Queued" ELSE @[i]]]
    /\ numBlockedFibers' = [numBlockedFibers EXCEPT ![w] = @ - Len(ids)]
    /\ UNCHANGED num

\* Worker::enqueue(Fiber*) and enqueueFiberTimeouts, for the fibers ids (a
\* sequence) in turn: out of the waiting set, onto work.fibers, Queued, and
\* counted.
MakeReady(w, ids) ==
    /\ fibers' = [fibers EXCEPT ![w] = @ \o ids]
    /\ waiting' = [waiting EXCEPT ![w] = {e \in @ : e.fiber \notin ToSet(ids)}]
    /\ fiberState' = [fiberState EXCEPT ![w] =
                         [i \in FiberIds |-> IF i \in ToSet(ids) THEN "Queued" ELSE @[i]]]
    /\ numBlockedFibers' = [numBlockedFibers EXCEPT ![w] = @ - Len(ids)]
    /\ num' = [num EXCEPT ![w] = @ + Len(ids)]

\* Mutant: notify that queues the fiber whatever its state.
NotifyFiberUnguarded(w, i) == MakeReady(w, <<i>>) /\ NotifyAdded(w)

\* Fiber::notify: the fiber is queued on its worker, which is signalled;
\* nothing to do for a fiber that is Queued or Running.
NotifyFiber(w, i) ==
    IF fiberState[w][i] \in {"Yielded", "Waiting"}
    THEN MakeReady(w, <<i>>) /\ NotifyAdded(w)
    ELSE UNCHANGED <<fibers, waiting, fiberState, numBlockedFibers, num, added>>

\* What Worker::wait does once the waiter has the user lock again: "done" with
\* the predicate true, "timeout" with it false and the deadline passed,
\* "again" otherwise.
WaitOutcome(c, deadline) ==
    IF cond[c] THEN "done"
    ELSE IF deadline # None /\ SystemNow >= deadline THEN "timeout"
    ELSE "again"

\* Mutant: the caller's time point taken for a TimePoint as it is.
TimePointUncast(timeout) == timeout

\* std::chrono::time_point_cast to Scheduler::TimePoint: the duration is
\* converted by a division that drops the remainder.
TimePointCast(timeout) == timeout \div TicksPerTimePoint

\* Mutant: the wait without a deadline hands Worker::wait the epoch in place
\* of no time point.
DeadlineForAll(o) ==
    IF o.op \in {"waitUntil", "waitUnlockedUntil"}
    THEN TimePointCast(o.deadline)
    ELSE 0

\* Mutant: Worker::wait is handed no time point by the timed wait either.
DeadlineDropped(o) == None

\* Fiber::wait(lock, timeout, pred) hands Worker::wait the time point it made
\* of the caller's; Fiber::wait(lock, pred) hands it none.
Deadline(o) ==
    IF o.op \in {"waitUntil", "waitUnlockedUntil"}
    THEN TimePointCast(o.deadline)
    ELSE None

-----------------------------------------------------------------------------
(* The worker thread on its main fiber: Worker::run.                       *)

\* The thread Worker::start spawned gets going: it binds the scheduler to
\* itself, takes work.mutex and enters run().
Start(w) ==
    /\ wpc[w] = "unstarted"
    /\ wpc' = [wpc EXCEPT ![w] = "run"]
    /\ bound' = [bound EXCEPT ![w] = TRUE]
    /\ UNCHANGED <<workVars, currentFiber, idleFibers, workerFibers, shutdown,
                   fiberVars, nextEnqueueIndex, spinningWorkers,
                   nextSpinningWorkerIdx, destroyed, actorVars, condVars, now>>

\* Step 2 of the main loop: resume the first ready fiber.  It comes back out
\* of suspend(), releases work.mutex and goes for its user lock.
RunFiber(w) ==
    /\ Locked(w)
    /\ fibers[w] # <<>>
    /\ LET g == Head(fibers[w]) IN
        /\ fibers' = [fibers EXCEPT ![w] = Tail(@)]
        /\ num' = [num EXCEPT ![w] = @ - 1]
        /\ fiberState' = [fiberState EXCEPT ![w][g] = "Running"]
        /\ currentFiber' = [currentFiber EXCEPT ![w] = g]
        /\ phase' = [phase EXCEPT ![fiberTask[w][g]] = "relock"]
    /\ UNCHANGED <<tasks, waiting, numBlockedFibers, added, wpc, idleFibers,
                   workerFibers, shutdown, fiberTask, schedVars, pc, target,
                   toNotify, result, condVars, now>>

\* Step 3: start the first task, on an idle fiber or on a new one.
RunTask(w) ==
    /\ Locked(w)
    /\ fibers[w] = <<>>
    /\ tasks[w] # <<>>
    /\ \E i \in FiberIds :
        /\ IF idleFibers[w] # {}
           THEN i \in idleFibers[w]
           ELSE i = Cardinality(workerFibers[w]) + 1
        /\ idleFibers' = [idleFibers EXCEPT ![w] = @ \ {i}]
        /\ workerFibers' = [workerFibers EXCEPT ![w] = @ \cup {i}]
        /\ fiberState' = [fiberState EXCEPT ![w][i] = "Running"]
        /\ fiberTask' = [fiberTask EXCEPT ![w][i] = Head(tasks[w])]
        /\ currentFiber' = [currentFiber EXCEPT ![w] = i]
    /\ tasks' = [tasks EXCEPT ![w] = Tail(@)]
    /\ num' = [num EXCEPT ![w] = @ - 1]
    /\ UNCHANGED <<fibers, waiting, numBlockedFibers, added, wpc, shutdown,
                   schedVars, actorVars, condVars, now>>

\* Step 1, waitForWork: nothing to run, so publish the worker in the ring of
\* spinning workers (Scheduler::onBeginSpinning), release work.mutex and spin.
BeginSpinning(w) ==
    /\ Locked(w)
    /\ NothingReady(w)
    /\ ~ExitCondition(w)
    /\ spinningWorkers' = [spinningWorkers EXCEPT ![nextSpinningWorkerIdx] = w]
    /\ nextSpinningWorkerIdx' = (nextSpinningWorkerIdx + 1) % RingSize
    /\ wpc' = [wpc EXCEPT ![w] = "spin"]
    /\ UNCHANGED <<workVars, currentFiber, idleFibers, workerFibers, shutdown,
                   fiberVars, nextEnqueueIndex, bound, destroyed, actorVars, condVars,
                   now>>

\* Mutant: a steal that leaves the task on the victim's queue.
StealWorkCopies(w, v) ==
    /\ wpc[w] = "spin"
    /\ v # w
    /\ WorkMutexHolder(v) = None
    /\ tasks[v] # <<>>
    /\ tasks' = [tasks EXCEPT ![w] = Append(@, Head(tasks[v]))]
    /\ num' = [num EXCEPT ![w] = @ + 1]
    /\ wpc' = [wpc EXCEPT ![w] = "wait"]
    /\ UNCHANGED <<fibers, waiting, numBlockedFibers, added, currentFiber,
                   idleFibers, workerFibers, shutdown, fiberVars, schedVars,
                   actorVars, condVars, now>>

\* spinForWork finds a victim (Scheduler::stealWork): Worker::steal gets the
\* victim's mutex by try_lock and pops the FRONT of its tasks; the thief
\* queues the task on itself and stops spinning.  A failed attempt changes
\* nothing.
StealWork(w, v) ==
    /\ wpc[w] = "spin"
    /\ v # w
    /\ WorkMutexHolder(v) = None
    /\ tasks[v] # <<>>
    /\ tasks' = [tasks EXCEPT ![v] = Tail(@), ![w] = Append(@, Head(tasks[v]))]
    /\ num' = [num EXCEPT ![v] = @ - 1, ![w] = @ + 1]
    /\ wpc' = [wpc EXCEPT ![w] = "wait"]
    /\ UNCHANGED <<fibers, waiting, numBlockedFibers, added, currentFiber,
                   idleFibers, workerFibers, shutdown, fiberVars, schedVars,
                   actorVars, condVars, now>>

\* The predicate of the wait on work.added: work to run, or leave to exit.
WorkOrExit(w) == ~NothingReady(w) \/ ExitCondition(w)

\* The wait on work.added looks at its predicate under work.mutex: when the
\* worker comes to it, with its spin budget used up or with a stolen task,
\* and when its sleep is ended by a signal or by the earliest deadline of the
\* waiting set.
AtPredicate(w) ==
    \/ wpc[w] \in {"spin", "wait"}
    \/ wpc[w] = "parked" /\ (added[w] \/ Expired(w) # <<>>)

\* The predicate is false and no deadline has passed: the thread sleeps on
\* work.added, for the first time or again, and work.mutex is free.
Park(w) ==
    /\ AtPredicate(w)
    /\ ~WorkOrExit(w)
    /\ Expired(w) = <<>>
    /\ wpc' = [wpc EXCEPT ![w] = "parked"]
    /\ added' = [added EXCEPT ![w] = FALSE]
    /\ UNCHANGED <<tasks, fibers, waiting, num, numBlockedFibers, currentFiber,
                   idleFibers, workerFibers, shutdown, fiberVars, schedVars,
                   actorVars, condVars, now>>

\* The wait on work.added is over, with its predicate true or at the earliest
\* deadline of the waiting set: the worker has work.mutex again and queues
\* the fibers whose deadline has passed (enqueueFiberTimeouts).
Wake(w) ==
    /\ AtPredicate(w)
    /\ WorkOrExit(w) \/ Expired(w) # <<>>
    /\ MakeReady(w, [k \in DOMAIN Expired(w) |-> Expired(w)[k].fiber])
    /\ wpc' = [wpc EXCEPT ![w] = "run"]
    /\ added' = [added EXCEPT ![w] = FALSE]
    /\ UNCHANGED <<tasks, currentFiber, idleFibers, workerFibers, shutdown,
                   fiberTask, schedVars, actorVars, condVars, now>>

\* Step 5: the worker has been stopped and has drained; its thread ends.
Exit(w) ==
    /\ Locked(w)
    /\ ExitCondition(w)
    /\ wpc' = [wpc EXCEPT ![w] = "done"]
    /\ UNCHANGED <<workVars, currentFiber, idleFibers, workerFibers, shutdown,
                   fiberVars, schedVars, actorVars, condVars, now>>

-----------------------------------------------------------------------------
(* A task on its fiber: Fiber::wait, and the return of the task.           *)

\* Mutant: the waiter lets go of the user lock before it holds work.mutex.
WaitEnterUnlocksEarly(t) ==
    /\ AtOp(t, {"wait", "waitUntil"})
    /\ phase[t] = "ready"
    /\ lock[Op(t).cond] = None
    /\ \E w \in Workers :
        /\ OnCpu(t, w)
        /\ IF cond[Op(t).cond]
           THEN /\ result' = [result EXCEPT ![t] = TRUE]
                /\ pc' = [pc EXCEPT ![t] = @ + 1]
                /\ UNCHANGED <<waiters, phase>>
           ELSE /\ waiters' = [waiters EXCEPT ![Op(t).cond] = @ \cup {<<w, currentFiber[w]>>}]
                /\ phase' = [phase EXCEPT ![t] = "suspending"]
                /\ UNCHANGED <<result, pc>>
    /\ UNCHANGED <<workVars, workerVars, fiberVars, schedVars, target, toNotify,
                   cond, lock, now>>

\* The caller takes the user lock and calls Fiber::wait, which evaluates the
\* predicate: if true the wait is over, if false the fiber is on its way to
\* suspend(), still holding the user lock.
WaitEnter(t) ==
    /\ AtOp(t, {"wait", "waitUntil"})
    /\ phase[t] = "ready"
    /\ lock[Op(t).cond] = None
    /\ \E w \in Workers :
        /\ OnCpu(t, w)
        /\ IF cond[Op(t).cond]
           THEN /\ result' = [result EXCEPT ![t] = TRUE]
                /\ pc' = [pc EXCEPT ![t] = @ + 1]
                /\ UNCHANGED <<lock, waiters, phase>>
           ELSE /\ lock' = [lock EXCEPT ![Op(t).cond] = t]
                /\ waiters' = [waiters EXCEPT ![Op(t).cond] = @ \cup {<<w, currentFiber[w]>>}]
                /\ phase' = [phase EXCEPT ![t] = "suspending"]
                /\ UNCHANGED <<result, pc>>
    /\ UNCHANGED <<workVars, workerVars, fiberVars, schedVars, target, toNotify,
                   cond, now>>

\* Worker::suspend on worker w, for task t with deadline d: the fiber is
\* marked Yielded, or Waiting with its deadline in the waiting set, and the
\* worker switches to the first ready fiber or, with none, to the main
\* fiber, which goes on in run() with work.mutex held.
SuspendFiber(w, t, d) ==
    LET f == currentFiber[w]
        to == IF d = None THEN "Yielded" ELSE "Waiting" IN
    /\ numBlockedFibers' = [numBlockedFibers EXCEPT ![w] = @ + 1]
    /\ waiting' = [waiting EXCEPT ![w] =
                      IF d = None THEN @
                      ELSE @ \cup {[timepoint |-> d, fiber |-> f]}]
    /\ IF fibers[w] # <<>>
       THEN LET g == Head(fibers[w]) IN
            /\ fibers' = [fibers EXCEPT ![w] = Tail(@)]
            /\ num' = [num EXCEPT ![w] = @ - 1]
            /\ fiberState' = [fiberState EXCEPT ![w][f] = to, ![w][g] = "Running"]
            /\ currentFiber' = [currentFiber EXCEPT ![w] = g]
            /\ phase' = [phase EXCEPT ![t] = "suspended",
                                      ![fiberTask[w][g]] = "relock"]
       ELSE /\ fiberState' = [fiberState EXCEPT ![w][f] = to]
            /\ currentFiber' = [currentFiber EXCEPT ![w] = MainFiber]
            /\ phase' = [phase EXCEPT ![t] = "suspended"]
            /\ UNCHANGED <<fibers, num>>

\* Worker::wait locks work.mutex and only then unlocks the user lock, and
\* suspends the fiber.
Suspend(t) ==
    /\ phase[t] = "suspending"
    /\ \E w \in Workers :
        /\ OnCpu(t, w)
        /\ lock' = [lock EXCEPT ![Op(t).cond] = IF @ = t THEN None ELSE @]
        /\ SuspendFiber(w, t, Deadline(Op(t)))
    /\ UNCHANGED <<tasks, added, wpc, idleFibers, workerFibers, shutdown,
                   fiberTask, schedVars, pc, target, toNotify, result, cond,
                   waiters, now>>

\* Fiber::wait() and Fiber::wait(timeout), the waits without a lock and a
\* predicate: the timed one converts its time point, and Worker::wait
\* suspends the fiber under work.mutex.
WaitUnlocked(t) ==
    /\ AtOp(t, {"waitUnlocked", "waitUnlockedUntil"})
    /\ phase[t] = "ready"
    /\ \E w \in Workers : OnCpu(t, w) /\ SuspendFiber(w, t, Deadline(Op(t)))
    /\ UNCHANGED <<tasks, added, wpc, idleFibers, workerFibers, shutdown,
                   fiberTask, schedVars, pc, target, toNotify, result, condVars,
                   now>>

\* The fiber of such a wait is resumed, by a notify or by its deadline:
\* Worker::wait gives work.mutex back and the wait is over.  What the timed
\* wait returns is not modelled.
WaitUnlockedReturn(t) ==
    /\ AtOp(t, {"waitUnlocked", "waitUnlockedUntil"})
    /\ phase[t] = "relock"
    /\ pc' = [pc EXCEPT ![t] = @ + 1]
    /\ phase' = [phase EXCEPT ![t] = "ready"]
    /\ UNCHANGED <<workVars, workerVars, fiberVars, schedVars, target, toNotify,
                   result, condVars, now>>

\* The resumed fiber takes the user lock again and Worker::wait looks at the
\* predicate and at the clock: it returns, or goes round the loop.
Relock(t) ==
    /\ AtOp(t, {"wait", "waitUntil"})
    /\ phase[t] = "relock"
    /\ \E w \in Workers :
        /\ OnCpu(t, w)
        /\ LET c == Op(t).cond
               outcome == WaitOutcome(c, Deadline(Op(t))) IN
            /\ lock[c] = None
            /\ IF outcome = "again"
               THEN /\ lock' = [lock EXCEPT ![c] = t]
                    /\ phase' = [phase EXCEPT ![t] = "suspending"]
                    /\ UNCHANGED <<result, pc, waiters>>
               ELSE /\ result' = [result EXCEPT ![t] = (outcome = "done")]
                    /\ pc' = [pc EXCEPT ![t] = @ + 1]
                    /\ phase' = [phase EXCEPT ![t] = "ready"]
                    /\ waiters' = [waiters EXCEPT ![c] = @ \ {<<w, currentFiber[w]>>}]
                    /\ UNCHANGED lock
    /\ UNCHANGED <<workVars, workerVars, fiberVars, schedVars, target, toNotify,
                   cond, now>>

\* The task returns: its fiber takes work.mutex, becomes Idle and switches to
\* the main fiber, which puts it into the idle pool (step 4 of the main loop).
TaskDone(t) ==
    /\ pc[t] = Len(Program[t]) + 1
    /\ phase[t] = "ready"
    /\ \E w \in Workers :
        /\ OnCpu(t, w)
        /\ fiberState' = [fiberState EXCEPT ![w][currentFiber[w]] = "Idle"]
        /\ fiberTask' = [fiberTask EXCEPT ![w][currentFiber[w]] = None]
        /\ idleFibers' = [idleFibers EXCEPT ![w] = @ \cup {currentFiber[w]}]
        /\ currentFiber' = [currentFiber EXCEPT ![w] = MainFiber]
    /\ phase' = [phase EXCEPT ![t] = "done"]
    /\ UNCHANGED <<workVars, wpc, workerFibers, shutdown, schedVars, pc, target,
                   toNotify, result, condVars, now>>

-----------------------------------------------------------------------------
(* Calls any thread may make: Scheduler::enqueue, and the signalling of a  *)
(* condition with Fiber::notify.                                           *)

\* Actor a is executing: Main always, a task while its fiber is the current
\* fiber of its worker.
Active(a) == a = Main \/ \E w \in Workers : OnCpu(a, w)

\* Mutant: the round-robin index used without the modulo.
RoundRobinWithoutModulo(a) ==
    /\ target' = [target EXCEPT ![a] = nextEnqueueIndex]
    /\ nextEnqueueIndex' = (nextEnqueueIndex + 1) % IndexModulus
    /\ phase' = [phase EXCEPT ![a] = "put"]
    /\ UNCHANGED <<tasks, num, added, pc>>

\* Step 2 of Scheduler::enqueue: the worker is chosen round robin; the task is
\* put on it by EnqueuePut, once its work.mutex is free.
RoundRobin(a) ==
    /\ target' = [target EXCEPT ![a] = nextEnqueueIndex % NumWorkers]
    /\ nextEnqueueIndex' = (nextEnqueueIndex + 1) % IndexModulus
    /\ phase' = [phase EXCEPT ![a] = "put"]
    /\ UNCHANGED <<tasks, num, added, pc>>

\* Scheduler::enqueue.  A worker published in the ring is claimed and gets the
\* task if its mutex can be had by try_lock (Worker::tryLock,
\* enqueueAndUnlock); with no such worker the choice is round robin.
Enqueue(a) ==
    /\ Active(a)
    /\ AtOp(a, {"schedule"})
    /\ phase[a] = "ready"
    /\ \/ \E k \in DOMAIN spinningWorkers :
            /\ spinningWorkers[k] # Sentinel
            /\ spinningWorkers' = [spinningWorkers EXCEPT ![k] = Sentinel]
            /\ IF WorkMutexHolder(spinningWorkers[k]) = None
               THEN /\ EnqueueTask(spinningWorkers[k], Op(a).task)
                    /\ pc' = [pc EXCEPT ![a] = @ + 1]
                    /\ UNCHANGED <<phase, target, nextEnqueueIndex>>
               ELSE RoundRobin(a)
       \/ /\ \A k \in DOMAIN spinningWorkers : spinningWorkers[k] = Sentinel
          /\ RoundRobin(a)
          /\ UNCHANGED spinningWorkers
    /\ UNCHANGED <<fibers, waiting, numBlockedFibers, workerVars, fiberVars,
                   nextSpinningWorkerIdx, bound, destroyed, toNotify, result, condVars,
                   now>>

\* The thread that executes actor a has a scheduler bound:
\* MARL_ASSERT_HAS_BOUND_SCHEDULER, and Scheduler::get() is not null.
HasBoundScheduler(a) ==
    \/ a = Main /\ bound[Main]
    \/ \E w \in Workers : OnCpu(a, w) /\ bound[w]

\* marl::schedule(), each of its three forms: the task goes to the scheduler
\* bound to the calling thread.
Schedule(a) == HasBoundScheduler(a) /\ Enqueue(a)

\* Scheduler::bind() on a thread with no scheduler bound.  The single-threaded
\* worker it makes for the thread gets no task while there are worker
\* threads.
Bind(a) ==
    /\ AtOp(a, {"bind"})
    /\ ~bound[a]
    /\ bound' = [bound EXCEPT ![a] = TRUE]
    /\ pc' = [pc EXCEPT ![a] = @ + 1]
    /\ UNCHANGED <<workVars, workerVars, fiberVars, nextEnqueueIndex,
                   spinningWorkers, nextSpinningWorkerIdx, destroyed, phase,
                   target, toNotify, result, condVars, now>>

\* Scheduler::unbind() on a thread with a scheduler bound.
Unbind(a) ==
    /\ AtOp(a, {"unbind"})
    /\ bound[a]
    /\ bound' = [bound EXCEPT ![a] = FALSE]
    /\ pc' = [pc EXCEPT ![a] = @ + 1]
    /\ UNCHANGED <<workVars, workerVars, fiberVars, nextEnqueueIndex,
                   spinningWorkers, nextSpinningWorkerIdx, destroyed, phase,
                   target, toNotify, result, condVars, now>>

\* Worker::enqueue(Task&&) on the worker chosen round robin.
EnqueuePut(a) ==
    /\ phase[a] = "put"
    /\ WorkMutexHolder(target[a]) = None
    /\ EnqueueTask(target[a], Op(a).task)
    /\ pc' = [pc EXCEPT ![a] = @ + 1]
    /\ phase' = [phase EXCEPT ![a] = "ready"]
    /\ UNCHANGED <<fibers, waiting, numBlockedFibers, workerVars, fiberVars,
                   schedVars, target, toNotify, result, condVars, now>>

\* The signaller takes the user lock, makes the predicate true and sets out
\* to notify the fibers that wait for it.
SetBegin(a) ==
    /\ Active(a)
    /\ AtOp(a, {"set"})
    /\ phase[a] = "ready"
    /\ lock[Op(a).cond] = None
    /\ lock' = [lock EXCEPT ![Op(a).cond] = a]
    /\ cond' = [cond EXCEPT ![Op(a).cond] = TRUE]
    /\ toNotify' = [toNotify EXCEPT ![a] = waiters[Op(a).cond]]
    /\ phase' = [phase EXCEPT ![a] = "notifying"]
    /\ UNCHANGED <<workVars, workerVars, fiberVars, schedVars, pc, target, result,
                   waiters, now>>

\* Fiber::notify on one of them, under the work.mutex of the fiber's worker.
Notify(a, w, i) ==
    /\ phase[a] = "notifying"
    /\ <<w, i>> \in toNotify[a]
    /\ WorkMutexHolder(w) = None
    /\ NotifyFiber(w, i)
    /\ toNotify' = [toNotify EXCEPT ![a] = @ \ {<<w, i>>}]
    /\ UNCHANGED <<tasks, workerVars, fiberTask, schedVars, pc, phase, target, result,
                   condVars, now>>

\* All are notified: the signaller releases the user lock.
SetEnd(a) ==
    /\ phase[a] = "notifying"
    /\ toNotify[a] = {}
    /\ lock' = [lock EXCEPT ![Op(a).cond] = None]
    /\ pc' = [pc EXCEPT ![a] = @ + 1]
    /\ phase' = [phase EXCEPT ![a] = "ready"]
    /\ UNCHANGED <<workVars, workerVars, fiberVars, schedVars, target, toNotify,
                   result, cond, waiters, now>>

\* Fiber::notify() from the program, on the fiber task Op(a).task has made
\* known with Fiber::current(): a task that has not started or has returned
\* has none to notify.
NotifyTask(a) ==
    /\ Active(a)
    /\ AtOp(a, {"notify"})
    /\ phase[a] = "ready"
    /\ \/ \E w \in Workers, i \in FiberIds :
            /\ fiberTask[w][i] = Op(a).task
            /\ WorkMutexHolder(w) = None
            /\ NotifyFiber(w, i)
       \/ /\ \A w \in Workers, i \in FiberIds : fiberTask[w][i] # Op(a).task
          /\ UNCHANGED <<fibers, waiting, fiberState, numBlockedFibers, num, added>>
    /\ pc' = [pc EXCEPT ![a] = @ + 1]
    /\ UNCHANGED <<tasks, workerVars, fiberTask, schedVars, phase, target,
                   toNotify, result, condVars, now>>

-----------------------------------------------------------------------------
(* ~Scheduler, on Main, and the clock.                                     *)

\* "Blocks until the scheduler is unbound from all threads before returning":
\* the threads that called bind() have called unbind().
UnboundFromAllThreads == ~bound[Main]

\* Worker::stop, first half: shutdown is set under work.mutex and work.added
\* is broadcast.  stop() then joins the thread, so the workers are stopped one
\* after the other.  The destructor starts when Main has made its calls and no
\* task is still to be scheduled by another.
StopWorker(w) ==
    /\ pc[Main] = Len(Program[Main]) + 1
    /\ UnboundFromAllThreads
    /\ AllSubmitted
    /\ ~shutdown[w]
    /\ \A v \in Workers : shutdown[v] => wpc[v] = "done"
    /\ WorkMutexHolder(w) = None
    /\ shutdown' = [shutdown EXCEPT ![w] = TRUE]
    /\ NotifyAdded(w)
    /\ UNCHANGED <<tasks, fibers, waiting, num, numBlockedFibers, wpc, currentFiber,
                   idleFibers, workerFibers, fiberVars, schedVars, actorVars,
                   condVars, now>>

\* Every worker thread has been joined: the destructor returns.
Destroy ==
    /\ ~destroyed
    /\ \A w \in Workers : wpc[w] = "done"
    /\ destroyed' = TRUE
    /\ UNCHANGED <<workVars, workerVars, fiberVars, nextEnqueueIndex, spinningWorkers,
                   nextSpinningWorkerIdx, bound, actorVars, condVars, now>>

\* Nothing runs after the scheduler is gone.
Terminated == destroyed /\ UNCHANGED vars

Tick ==
    /\ now < MaxTime
    /\ now' = now + 1
    /\ UNCHANGED <<workVars, workerVars, fiberVars, schedVars, actorVars, condVars>>

-----------------------------------------------------------------------------
MainFiberStep(w) ==
    \/ Start(w) \/ RunFiber(w) \/ RunTask(w) \/ Exit(w)
    \/ BeginSpinning(w) \/ Park(w) \/ Wake(w)
    \/ \E v \in Workers : StealWork(w, v)

ActorStep(a) ==
    \/ Schedule(a) \/ EnqueuePut(a)
    \/ SetBegin(a) \/ SetEnd(a) \/ NotifyTask(a)
    \/ \E w \in Workers, i \in FiberIds : Notify(a, w, i)

TaskStep(t) ==
    \/ WaitEnter(t) \/ Suspend(t) \/ Relock(t) \/ TaskDone(t)
    \/ WaitUnlocked(t) \/ WaitUnlockedReturn(t)
    \/ ActorStep(t)

\* What worker w's thread can do: a step of its main fiber, or of the task on
\* its current fiber.
ThreadStep(w) ==
    \/ MainFiberStep(w)
    \/ \E t \in Tasks : OnCpu(t, w) /\ TaskStep(t)

MainStep ==
    \/ ActorStep(Main)
    \/ Bind(Main) \/ Unbind(Main)
    \/ \E w \in Workers : StopWorker(w)
    \/ Destroy

Next ==
    \/ \E w \in Workers : MainFiberStep(w)
    \/ \E t \in Tasks : TaskStep(t)
    \/ MainStep
    \/ Tick
    \/ Terminated

\* The operating system runs every thread that can run, and the clock goes on.
\* A thread that waits for a lock or for work.added can run when the lock is
\* free or the wait is over; the critical sections of the others are finite.
Fairness ==
    /\ \A w \in Workers : WF_vars(ThreadStep(w))
    /\ WF_vars(MainStep)
    /\ WF_vars(Tick)

Spec == Init /\ [][Next]_vars /\ Fairness

-----------------------------------------------------------------------------
TypeOK ==
    /\ tasks \in [Workers -> Seq(Tasks)]
    /\ fibers \in [Workers -> Seq(FiberIds)]
    /\ waiting \in [Workers -> SUBSET Timeouts]
    /\ num \in [Workers -> Nat]
    /\ numBlockedFibers \in [Workers -> Nat]
    /\ added \in [Workers -> BOOLEAN]
    /\ wpc \in [Workers -> {"unstarted", "run", "spin", "wait", "parked", "done"}]
    /\ currentFiber \in [Workers -> FiberIds \cup {MainFiber}]
    /\ idleFibers \in [Workers -> SUBSET FiberIds]
    /\ workerFibers \in [Workers -> SUBSET FiberIds]
    /\ shutdown \in [Workers -> BOOLEAN]
    /\ fiberState \in [Workers -> [FiberIds -> FiberStates]]
    /\ fiberTask \in [Workers -> [FiberIds -> Tasks \cup {None}]]
    /\ nextEnqueueIndex \in 0 .. IndexModulus - 1
    /\ spinningWorkers \in [0 .. RingSize - 1 -> Workers \cup {Sentinel}]
    /\ nextSpinningWorkerIdx \in 0 .. RingSize - 1
    /\ bound \in [Workers \cup {Main} -> BOOLEAN]
    /\ destroyed \in BOOLEAN
    /\ pc \in [Actors -> 1 .. 9]
    /\ phase \in [Actors -> {"ready", "put", "notifying", "suspending",
                             "suspended", "relock", "done"}]
    /\ target \in [Actors -> Workers]
    /\ toNotify \in [Actors -> SUBSET (Workers \X FiberIds)]
    /\ result \in [Actors -> BOOLEAN \cup {None}]
    /\ cond \in [Conds -> BOOLEAN]
    /\ lock \in [Conds -> Actors \cup {None}]
    /\ waiters \in [Conds -> SUBSET (Workers \X FiberIds)]
    /\ now \in 0 .. MaxTime

Count(s, x) == Cardinality({k \in DOMAIN s : s[k] = x})

\* The queue invariant of Work: num is the number of queued tasks and fibers
\* whenever work.mutex is released.  Stealers and the wait on work.added read
\* num in place of the queues, so every enqueue, steal, resume and timeout has
\* to count.
QueueInvariant ==
    \A w \in Workers : num[w] = Len(tasks[w]) + Len(fibers[w])

\* A fiber is in the one place its state names: Running as the current fiber
\* of its worker, Queued once in work.fibers, Waiting with one entry in the
\* waiting set, Idle in the idle pool, and numBlockedFibers counts the Yielded
\* and the Waiting.  Worker::run, suspend, enqueue(Fiber*) and
\* enqueueFiberTimeouts each move a fiber and must agree on where it is.
FiberPlacement ==
    \A w \in Workers :
        /\ \A i \in workerFibers[w] :
            /\ fiberState[w][i] = "Running" <=> currentFiber[w] = i
            /\ Count(fibers[w], i) = (IF fiberState[w][i] = "Queued" THEN 1 ELSE 0)
            /\ Cardinality({e \in waiting[w] : e.fiber = i})
                  = (IF fiberState[w][i] = "Waiting" THEN 1 ELSE 0)
            /\ fiberState[w][i] = "Idle" <=> i \in idleFibers[w]
        /\ numBlockedFibers[w] =
              Cardinality({i \in workerFibers[w] :
                              fiberState[w][i] \in {"Yielded", "Waiting"}})

\* A task handed to Scheduler::enqueue is in exactly one place: in the hand
\* of the enqueuer, once in one work.tasks, on one fiber, or done; a task not
\* yet handed over is nowhere.  Round robin, the ring of spinning workers and
\* stealing move tasks between threads and may neither lose nor copy one.
Submitted(t) ==
    \E a \in Actors : \E k \in DOMAIN Program[a] :
        /\ pc[a] > k \/ (pc[a] = k /\ phase[a] = "put")
        /\ Program[a][k] = [op |-> "schedule", task |-> t]

Places(t) ==
    Cardinality({w \in Workers : Count(tasks[w], t) > 0})
    + Cardinality({f \in Workers \X FiberIds : fiberTask[f[1]][f[2]] = t})
    + Cardinality({a \in Actors : phase[a] = "put" /\ Op(a).task = t})
    + (IF phase[t] = "done" THEN 1 ELSE 0)

TaskConservation ==
    \A t \in Tasks :
        /\ Places(t) = (IF Submitted(t) THEN 1 ELSE 0)
        /\ \A w \in Workers : Count(tasks[w], t) <= 1

\* No lost wake-up: when the predicate is true and nobody holds the user lock,
\* no fiber inside a wait for it is still suspended.  Fiber::notify does
\* nothing to a Running fiber, so a waiter must not let go of the user lock
\* before it holds work.mutex: a signaller that got in between would notify a
\* fiber that is about to suspend.
NoLostWakeup ==
    \A c \in Conds : \A f \in waiters[c] :
        (cond[c] /\ lock[c] = None)
            => fiberState[f[1]][f[2]] \notin {"Yielded", "Waiting"}

\* No worker sleeps on work: a worker asleep on work.added while it has a task
\* or a fiber queued, or while it may exit, has been signalled and is on its
\* way out of the sleep.  Scheduler::enqueue, a steal from it, Fiber::notify
\* from any thread and Worker::stop all change what the sleeping worker waits
\* for; the worker looks at it only when it is woken, so each of them that
\* makes the predicate true has to signal work.added, whatever the others do
\* to the queue before the worker's thread runs again.
NoSleepOnWork ==
    \A w \in Workers : (wpc[w] = "parked" /\ WorkOrExit(w)) => added[w]

\* The step in which task t's wait(lock, pred) returns.
WaitReturns(t) ==
    /\ AtOp(t, {"wait", "waitUntil"})
    /\ pc'[t] = pc[t] + 1

\* A timed wait does not give up before the time the caller named: "actual
\* wake may be later but never earlier" (design specification, 5, and
\* testable property 5).  Fiber::wait converts the caller's time point to a
\* Scheduler::TimePoint, and Worker::wait compares the clock with that.
TimeoutNotEarly ==
    [][\A t \in Tasks :
          (WaitReturns(t) /\ result'[t] = FALSE) => now >= Op(t).deadline]_vars

\* When ~Scheduler returns every task has run to its end: a worker thread
\* ends only when it has nothing queued, nothing waiting and no fiber blocked.
DestroyedMeansDone ==
    destroyed => \A t \in Tasks : phase[t] = "done"

\* Scheduler implements SchedulerSpec: to the program the workers, fibers,
\* queues, steals and wake-ups are not there.  A task is unscheduled until
\* Scheduler::enqueue has it, scheduled until Worker::run gives it a fiber,
\* waiting from the Fiber::wait that found its predicate false to the return
\* of that wait, and done when it has returned; every step of a worker, of a
\* task or of the owner is one step of that life or none.
InWait(t) ==
    /\ phase[t] \in {"suspending", "suspended", "relock"}
    /\ Op(t).op \in {"wait", "waitUntil"}

Status(t) ==
    CASE phase[t] = "done" -> "done"
      [] InWait(t) -> "waiting"
      [] \E w \in Workers : \E i \in FiberIds : fiberTask[w][i] = t -> "running"
      [] Submitted(t) -> "scheduled"
      [] OTHER -> "unscheduled"

Abstract ==
    INSTANCE SchedulerSpec
    WITH status <- [t \in Tasks |-> Status(t)],
         flag <- cond,
         on <- [t \in Tasks |-> IF InWait(t) THEN Op(t).cond ELSE None],
         timed <- [t \in Tasks |-> InWait(t) /\ Op(t).op = "waitUntil"],
         ret <- [t \in Tasks |-> result[t]]

ImplementsSchedulerSpec ==
    Abstract!Init /\ [][UNCHANGED Abstract!vars \/ Abstract!Next]_vars

\* The destructor returns: every worker thread ends, which takes every task
\* to have been run, every wait to have returned, every timed wait to have
\* been woken at its deadline and every parked worker to have been woken.
Termination == <>destroyed
=============================================================================
