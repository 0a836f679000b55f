------------------------------- MODULE Thread -------------------------------
(***************************************************************************)
(* marl::Thread (src/thread.cpp), the Windows implementation: a Thread     *)
(* object owns an Impl on the heap, which holds the function to run, the   *)
(* handle of the operating system's thread, and a mutex, a condition       *)
(* variable and the flag `finished` by which join() waits for the thread.  *)
(*                                                                         *)
(* Two kinds of thread take steps: the threads Impl::run runs on, one for  *)
(* each Impl, and the owner, the one thread that constructs, moves, joins  *)
(* and destroys the Thread objects.  A critical section of Impl::mutex is  *)
(* one step, except the one of Impl::run, which is two, so that what the   *)
(* owner can do in the middle of it is seen.  Every step of Impl::run uses *)
(* the Impl, and using one that has been deleted is the fault looked for.  *)
(***************************************************************************)
EXTENDS FiniteSets

CONSTANTS Objects,   \* the Thread objects of the owner
          Impls,     \* the Impl objects there can be: bounds the threads made
          None       \* nullptr

VARIABLES
    live,       \* live[o]: o is between its constructor and its destructor
    impl,       \* impl[o]: Thread::impl
    heap,       \* the Impl objects allocated and not deleted
    handles,    \* the Impl objects whose handle is open
    rpc,        \* rpc[i]: where the thread of i is in Impl::run
    finished,   \* finished[i]: Impl::finished
    mutex,      \* mutex[i]: the thread of i holds Impl::mutex
    jpc,        \* where the owner is in join(): "idle" outside it
    jobj,       \* the Thread object the owner joins
    joined,     \* the Impl objects a join() has returned for
    fault       \* the undefined behaviour met, "none" so far

vars == <<live, impl, heap, handles, rpc, finished, mutex, jpc, jobj, joined, fault>>

ownerVars  == <<live, impl, jpc, jobj, joined>>
threadVars == <<rpc, finished, mutex>>

Running == fault = "none"

\* A step that reads or writes the Impl i.
Use(i) == fault' = IF i \in heap THEN fault ELSE "use of a deleted Impl"

\* delete impl
Delete(i) ==
    /\ heap' = heap \ {i}
    /\ fault' = IF i \in heap THEN fault ELSE "Impl deleted twice"

-----------------------------------------------------------------------------
(* Impl::run, on the thread CreateRemoteThreadEx started                   *)

\* func(); func = Func();
RunFunc(i) ==
    /\ Running /\ rpc[i] = "func"
    /\ Use(i)
    /\ rpc' = [rpc EXCEPT ![i] = "lock"]
    /\ UNCHANGED <<ownerVars, heap, handles, finished, mutex>>

\* Mutant: run() that sets the flag and lets go of the mutex before it
\* notifies.
RunLockReleases(i) ==
    /\ Running /\ rpc[i] = "lock"
    /\ Use(i)
    /\ finished' = [finished EXCEPT ![i] = TRUE]
    /\ rpc' = [rpc EXCEPT ![i] = "notify"]
    /\ UNCHANGED <<ownerVars, heap, handles, mutex>>

\* std::unique_lock<std::mutex> lock(mutex); finished = true;
RunLock(i) ==
    /\ Running /\ rpc[i] = "lock"
    /\ Use(i)
    /\ mutex' = [mutex EXCEPT ![i] = TRUE]
    /\ finished' = [finished EXCEPT ![i] = TRUE]
    /\ rpc' = [rpc EXCEPT ![i] = "notify"]
    /\ UNCHANGED <<ownerVars, heap, handles>>

\* The owner blocked in join() on the condition variable of i.
Sleeps(i) == jpc = "blocked" /\ impl[jobj] = i

\* Mutant: run() that unlocks without notifying.
RunUnlockOnly(i) ==
    /\ Running /\ rpc[i] = "notify"
    /\ Use(i)
    /\ mutex' = [mutex EXCEPT ![i] = FALSE]
    /\ rpc' = [rpc EXCEPT ![i] = "exited"]
    /\ UNCHANGED <<live, impl, jpc, jobj, joined, heap, handles, finished>>

\* cv.notify_all(); and the unlock at the end of run()
RunNotify(i) ==
    /\ Running /\ rpc[i] = "notify"
    /\ Use(i)
    /\ jpc' = IF Sleeps(i) THEN "woken" ELSE jpc
    /\ mutex' = [mutex EXCEPT ![i] = FALSE]
    /\ rpc' = [rpc EXCEPT ![i] = "exited"]
    /\ UNCHANGED <<live, impl, jobj, joined, heap, handles, finished>>

-----------------------------------------------------------------------------
(* The Thread object, on the owner's thread                                *)

Idle == Running /\ jpc = "idle"

\* Thread(): impl is nullptr.
ConstructEmpty(o) ==
    /\ Idle /\ ~live[o]
    /\ live' = [live EXCEPT ![o] = TRUE]
    /\ impl' = [impl EXCEPT ![o] = None]
    /\ UNCHANGED <<heap, handles, threadVars, jpc, jobj, joined, fault>>

\* Thread(logicalCpu, func): a new Impl, and a thread started on Impl::run.
Construct(o) ==
    /\ Idle /\ ~live[o]
    /\ \E i \in Impls :
          /\ rpc[i] = "unborn"
          /\ live' = [live EXCEPT ![o] = TRUE]
          /\ impl' = [impl EXCEPT ![o] = i]
          /\ heap' = heap \cup {i}
          /\ handles' = handles \cup {i}
          /\ rpc' = [rpc EXCEPT ![i] = "func"]
    /\ UNCHANGED <<finished, mutex, jpc, jobj, joined, fault>>

\* Mutant: a move constructor that takes the address of the source for its Impl.
MoveConstructTakesSource(o, from) ==
    /\ Idle /\ ~live[o] /\ live[from]
    /\ live' = [live EXCEPT ![o] = TRUE]
    /\ impl' = [impl EXCEPT ![o] = from, ![from] = None]
    /\ UNCHANGED <<heap, handles, threadVars, jpc, jobj, joined, fault>>

\* Mutant: a move constructor that leaves the source its Impl.
MoveConstructKeepsSource(o, from) ==
    /\ Idle /\ ~live[o] /\ live[from]
    /\ live' = [live EXCEPT ![o] = TRUE]
    /\ impl' = [impl EXCEPT ![o] = impl[from]]
    /\ UNCHANGED <<heap, handles, threadVars, jpc, jobj, joined, fault>>

\* Thread(Thread&&)
MoveConstruct(o, from) ==
    /\ Idle /\ ~live[o] /\ live[from]
    /\ live' = [live EXCEPT ![o] = TRUE]
    /\ impl' = [impl EXCEPT ![o] = impl[from], ![from] = None]
    /\ UNCHANGED <<heap, handles, threadVars, jpc, jobj, joined, fault>>

\* operator=(Thread&&): deletes the Impl it has, without closing its handle,
\* and takes the one of rhs.
MoveAssign(o, from) ==
    /\ Idle /\ live[o] /\ live[from]
    /\ IF impl[o] # None THEN Delete(impl[o]) ELSE UNCHANGED <<heap, fault>>
    /\ impl' = [[impl EXCEPT ![o] = None] EXCEPT ![o] = impl[from], ![from] = None]
    /\ UNCHANGED <<live, handles, threadVars, jpc, jobj, joined>>

\* ~Thread: CloseHandle(impl->handle); delete impl;
Destroy(o) ==
    /\ Idle /\ live[o]
    /\ IF impl[o] # None
       THEN Delete(impl[o]) /\ handles' = handles \ {impl[o]}
       ELSE UNCHANGED <<heap, handles, fault>>
    /\ live' = [live EXCEPT ![o] = FALSE]
    /\ impl' = [impl EXCEPT ![o] = None]
    /\ UNCHANGED <<threadVars, jpc, jobj, joined>>

\* The owner has the mutex and looks at the flag, as cv.wait(lock, pred) does
\* before it sleeps and each time it wakes.
Look(o) ==
    /\ ~mutex[impl[o]]
    /\ Use(impl[o])
    /\ IF finished[impl[o]]
       THEN jpc' = "idle" /\ jobj' = None /\ joined' = joined \cup {impl[o]}
       ELSE jpc' = "blocked" /\ jobj' = o /\ UNCHANGED joined

\* join(), up to its return or to the sleep in cv.wait.
Join(o) ==
    /\ Idle /\ live[o]
    /\ impl[o] # None       \* MARL_ASSERT(impl != nullptr)
    /\ Look(o)
    /\ UNCHANGED <<live, impl, heap, handles, threadVars>>

\* join(), woken: cv.wait takes the mutex again and looks at the flag.
JoinWakes ==
    /\ Running /\ jpc = "woken"
    /\ Look(jobj)
    /\ UNCHANGED <<live, impl, heap, handles, threadVars>>

\* A condition variable may wake a sleeper nobody notified.
SpuriousWake ==
    /\ Running /\ jpc = "blocked"
    /\ jpc' = "woken"
    /\ UNCHANGED <<live, impl, heap, handles, threadVars, jobj, joined, fault>>

-----------------------------------------------------------------------------
Init ==
    /\ live = [o \in Objects |-> FALSE]
    /\ impl = [o \in Objects |-> None]
    /\ heap = {}
    /\ handles = {}
    /\ rpc = [i \in Impls |-> "unborn"]
    /\ finished = [i \in Impls |-> FALSE]
    /\ mutex = [i \in Impls |-> FALSE]
    /\ jpc = "idle"
    /\ jobj = None
    /\ joined = {}
    /\ fault = "none"

\* The owner has joined the thread of o, if o has one.
Joined(o) == impl[o] = None \/ impl[o] \in joined

ThreadStep(i) == RunFunc(i) \/ RunLock(i) \/ RunNotify(i)

\* The owner keeps to what a Thread asks of it, as Scheduler::Worker does: a
\* Thread is joined before it is destroyed, and only an empty Thread is
\* assigned to.
OwnerStep ==
    \/ JoinWakes
    \/ \E o \in Objects :
          \/ ConstructEmpty(o) \/ Construct(o) \/ Join(o)
          \/ Joined(o) /\ Destroy(o)
          \/ \E from \in Objects \ {o} :
                \/ MoveConstruct(o, from)
                \/ impl[o] = None /\ MoveAssign(o, from)

Next == OwnerStep \/ SpuriousWake \/ \E i \in Impls : ThreadStep(i)

\* The operating system schedules every thread, and the function a thread is
\* given returns; the owner, woken, takes the mutex when it is free.  Nothing
\* obliges the owner to call, or a wake-up to be spurious.
Fairness ==
    /\ \A i \in Impls : WF_vars(ThreadStep(i))
    /\ WF_vars(JoinWakes)

Spec == Init /\ [][Next]_vars /\ Fairness

\* An owner that also assigns to a Thread that still has its Impl, once it has
\* joined it: nothing runs on that Impl any more, so the delete is safe.
NextWithAssign ==
    \/ Next
    \/ \E o \in Objects : \E from \in Objects \ {o} : Joined(o) /\ MoveAssign(o, from)

SpecWithAssign == Init /\ [][NextWithAssign]_vars

-----------------------------------------------------------------------------
TypeOK ==
    /\ live \in [Objects -> BOOLEAN]
    /\ impl \in [Objects -> Impls \cup {None}]
    /\ heap \subseteq Impls /\ handles \subseteq Impls /\ joined \subseteq Impls
    /\ rpc \in [Impls -> {"unborn", "func", "lock", "notify", "exited"}]
    /\ finished \in [Impls -> BOOLEAN]
    /\ mutex \in [Impls -> BOOLEAN]
    /\ jpc \in {"idle", "blocked", "woken"}
    /\ jobj \in Objects \cup {None}
    /\ fault \in {"none", "use of a deleted Impl", "Impl deleted twice"}

\* A thread never uses an Impl that has been deleted, and no Impl is deleted
\* twice, as long as the owner destroys a Thread only after join() returned:
\* join() returns only when the thread is past its last use of the Impl,
\* because Impl::run sets the flag and notifies inside one critical section
\* and join() looks at the flag only with the mutex.
MemorySafe == Running

\* Every Impl and every thread handle has one owner: the Impl objects on the
\* heap and the open handles are those of the live Thread objects, no two
\* Thread objects share one, and when the Thread objects are gone nothing is
\* left.  The move constructor and operator= hand the Impl over; the
\* destructor closes the handle and deletes the Impl.
OneOwnerEach ==
    Running =>
        /\ heap = {impl[o] : o \in Objects} \ {None}
        /\ handles = heap
        /\ \A o, p \in Objects : (impl[o] = impl[p] /\ impl[o] # None) => o = p

\* join() returns: once the owner is inside join(), the thread finishes its
\* function and the owner is woken and gets out.  It fails if Impl::run can
\* set the flag without waking a join() that sleeps.
JoinReturns == (jpc # "idle") ~> (jpc = "idle")
=============================================================================
