------------------------------- MODULE Event --------------------------------
(***************************************************************************)
(* marl::Event (include/marl/event.h): a flag guarded by a mutex, and a    *)
(* condition variable on which wait() blocks until the flag is up.         *)
(*                                                                         *)
(* Every method of Event takes shared->mutex for its whole body, and the   *)
(* only place a body gives the mutex up is inside cv.wait(): so a method   *)
(* is one step, and a wait that blocks is the step that blocks and the     *)
(* step that runs when the thread has the mutex again.                     *)
(*                                                                         *)
(* The condition variable is modelled by its contract.  A thread stays     *)
(* registered with it from the moment it blocks until its wait returns;    *)
(* notify_one() picks any registered thread, which wakes it if it still    *)
(* sleeps and does nothing if it is already on its way out (notified       *)
(* before, or timed out).  That is what a list of waiting fibers does and  *)
(* it allows everything std::condition_variable does.                      *)
(***************************************************************************)
EXTENDS Naturals, FiniteSets

CONSTANTS Threads,   \* the threads and fibers that call the event
          None       \* the result of a call that returns void

VARIABLES mode,      \* Data::mode, chosen by the constructor and const
          signalled, \* Data::signalled
          pc,        \* pc[t]: where t is inside cv.wait(), "idle" outside
          timed,     \* timed[t]: t's wait is a wait_for()/wait_until()
          ret        \* ret[t]: what t's last call returned

vars == <<mode, signalled, pc, timed, ret>>

\* Event::Mode
Modes == {"Auto", "Manual"}

Results == BOOLEAN \cup {None}

\* The threads registered with the condition variable, the ones of them that
\* sleep, and the ones that will run again without another notify.
Waiting == {t \in Threads : pc[t] # "idle"}
Blocked == {t \in Threads : pc[t] = "blocked"}
Pending == {t \in Threads : pc[t] \in {"notified", "timedout"}}

-----------------------------------------------------------------------------
(* The condition variable, by its contract.                                *)

Wake(p) == [pc EXCEPT ![p] = IF @ = "blocked" THEN "notified" ELSE @]

NotifyOne ==
    \/ Waiting = {} /\ UNCHANGED pc
    \/ \E p \in Waiting : pc' = Wake(p)

NotifyAll ==
    pc' = [t \in Threads |-> IF pc[t] = "blocked" THEN "notified" ELSE pc[t]]

\* cv.wait finds the predicate false: register, release the mutex and sleep.
Block(t, isTimed) ==
    /\ pc' = [pc EXCEPT ![t] = "blocked"]
    /\ timed' = [timed EXCEPT ![t] = isTimed]

-----------------------------------------------------------------------------
(* The mutants of the properties below.                                    *)

\* signal() that raises the flag and forgets to notify.
SignalWithoutNotify(t) ==
    /\ pc[t] = "idle"
    /\ signalled' = TRUE
    /\ ret' = [ret EXCEPT ![t] = None]
    /\ UNCHANGED <<mode, pc, timed>>

\* signal() that notifies one waiter whatever the mode.
SignalNotifiesOne(t) ==
    /\ pc[t] = "idle"
    /\ ret' = [ret EXCEPT ![t] = None]
    /\ IF signalled
       THEN UNCHANGED <<signalled, pc>>
       ELSE signalled' = TRUE /\ NotifyOne
    /\ UNCHANGED <<mode, timed>>

\* wait_for() that reports the timeout without looking at the flag again.
WaitForReturnIgnoresFlag(t) ==
    /\ timed[t]
    /\ \/ /\ pc[t] = "timedout"
          /\ pc' = [pc EXCEPT ![t] = "idle"]
          /\ ret' = [ret EXCEPT ![t] = FALSE]
          /\ UNCHANGED signalled
       \/ /\ pc[t] = "notified"
          /\ IF signalled
             THEN /\ signalled' = (mode = "Manual")
                  /\ pc' = [pc EXCEPT ![t] = "idle"]
                  /\ ret' = [ret EXCEPT ![t] = TRUE]
             ELSE /\ pc' = [pc EXCEPT ![t] = "blocked"]
                  /\ UNCHANGED <<signalled, ret>>
    /\ UNCHANGED <<mode, timed>>

\* wait() that returns without resetting an Auto event.
WaitReturnKeepsSignal(t) ==
    /\ pc[t] = "notified"
    /\ ~timed[t]
    /\ IF signalled
       THEN /\ pc' = [pc EXCEPT ![t] = "idle"]
            /\ ret' = [ret EXCEPT ![t] = None]
       ELSE /\ pc' = [pc EXCEPT ![t] = "blocked"]
            /\ UNCHANGED ret
    /\ UNCHANGED <<mode, signalled, timed>>

\* Data::Data that leaves `signalled` out of its initialisers: the flag is
\* read before anything has been written to it.
InitSignalledUninitialised ==
    /\ mode \in Modes
    /\ signalled = None
    /\ pc = [t \in Threads |-> "idle"]
    /\ timed = [t \in Threads |-> FALSE]
    /\ ret = [t \in Threads |-> None]

-----------------------------------------------------------------------------
(* The event.                                                              *)

Init ==
    /\ mode \in Modes
    /\ signalled \in BOOLEAN
    /\ pc = [t \in Threads |-> "idle"]
    /\ timed = [t \in Threads |-> FALSE]
    /\ ret = [t \in Threads |-> None]

\* `if (mode == Auto) signalled = false`, the tail of wait() and test().
Reset == signalled' = (mode = "Manual" /\ signalled)

Signal(t) ==
    /\ pc[t] = "idle"
    /\ ret' = [ret EXCEPT ![t] = None]
    /\ IF signalled
       THEN UNCHANGED <<signalled, pc>>
       ELSE /\ signalled' = TRUE
            /\ IF mode = "Auto" THEN NotifyOne ELSE NotifyAll
    /\ UNCHANGED <<mode, timed>>

Clear(t) ==
    /\ pc[t] = "idle"
    /\ signalled' = FALSE
    /\ ret' = [ret EXCEPT ![t] = None]
    /\ UNCHANGED <<mode, pc, timed>>

Test(t) ==
    /\ pc[t] = "idle"
    /\ ret' = [ret EXCEPT ![t] = signalled]
    /\ Reset
    /\ UNCHANGED <<mode, pc, timed>>

IsSignalled(t) ==
    /\ pc[t] = "idle"
    /\ ret' = [ret EXCEPT ![t] = signalled]
    /\ UNCHANGED <<mode, signalled, pc, timed>>

Wait(t) ==
    /\ pc[t] = "idle"
    /\ IF signalled
       THEN Reset /\ ret' = [ret EXCEPT ![t] = None] /\ UNCHANGED <<pc, timed>>
       ELSE Block(t, FALSE) /\ UNCHANGED <<signalled, ret>>
    /\ UNCHANGED mode

WaitFor(t) ==
    /\ pc[t] = "idle"
    /\ IF signalled
       THEN Reset /\ ret' = [ret EXCEPT ![t] = TRUE] /\ UNCHANGED <<pc, timed>>
       ELSE Block(t, TRUE) /\ UNCHANGED <<signalled, ret>>
    /\ UNCHANGED mode

\* The woken thread has the mutex again and cv.wait evaluates the predicate.
WaitReturn(t) ==
    /\ pc[t] = "notified"
    /\ ~timed[t]
    /\ IF signalled
       THEN /\ Reset
            /\ pc' = [pc EXCEPT ![t] = "idle"]
            /\ ret' = [ret EXCEPT ![t] = None]
       ELSE /\ pc' = [pc EXCEPT ![t] = "blocked"]
            /\ UNCHANGED <<signalled, ret>>
    /\ UNCHANGED <<mode, timed>>

\* The same for a timed wait, which also ends when its time is up: cv.wait_for
\* then returns the predicate, and the event resets only if that is true.
WaitForReturn(t) ==
    /\ pc[t] \in {"notified", "timedout"}
    /\ timed[t]
    /\ IF signalled
       THEN /\ Reset
            /\ pc' = [pc EXCEPT ![t] = "idle"]
            /\ ret' = [ret EXCEPT ![t] = TRUE]
       ELSE /\ pc' = [pc EXCEPT ![t] = IF @ = "timedout" THEN "idle" ELSE "blocked"]
            /\ ret' = [ret EXCEPT ![t] = IF pc[t] = "timedout" THEN FALSE ELSE @]
            /\ UNCHANGED signalled
    /\ UNCHANGED <<mode, timed>>

\* The duration of a wait_for() elapses while the thread sleeps.
Timeout(t) ==
    /\ pc[t] = "blocked"
    /\ timed[t]
    /\ pc' = [pc EXCEPT ![t] = "timedout"]
    /\ UNCHANGED <<mode, signalled, timed, ret>>

\* A condition variable may wake a sleeper nobody notified.
SpuriousWake(t) ==
    /\ pc[t] = "blocked"
    /\ pc' = Wake(t)
    /\ UNCHANGED <<mode, signalled, timed, ret>>

Next ==
    \E t \in Threads :
        \/ Signal(t) \/ Clear(t) \/ Test(t) \/ IsSignalled(t)
        \/ Wait(t) \/ WaitFor(t)
        \/ WaitReturn(t) \/ WaitForReturn(t)
        \/ Timeout(t) \/ SpuriousWake(t)

\* A thread that was woken, or whose wait timed out, is scheduled again and
\* gets the mutex: every critical section of the event is finite.  Nothing
\* obliges a caller to call, a timeout to fire or a wake-up to be spurious.
Fairness ==
    \A t \in Threads : WF_vars(WaitReturn(t)) /\ WF_vars(WaitForReturn(t))

Spec == Init /\ [][Next]_vars /\ Fairness

-----------------------------------------------------------------------------
TypeOK ==
    /\ mode \in Modes
    /\ signalled \in BOOLEAN
    /\ pc \in [Threads -> {"idle", "blocked", "notified", "timedout"}]
    /\ timed \in [Threads -> BOOLEAN]
    /\ ret \in [Threads -> Results]

\* No lost signal: while the event is signalled, threads never all sleep in
\* wait().  signal() returns early when the flag is already up and notifies
\* nobody, so the flag being up must always mean that someone is on the way to
\* take it: the waiter the earlier signal() picked, or one whose wait_for()
\* timed out and will look at the flag before it returns.
NoLostSignal ==
    (signalled /\ Blocked # {}) => Pending # {}

\* While a Manual event is signalled no thread sleeps in wait(): signal()
\* notifies them all, and a later wait() does not block.
ManualReleasesAll ==
    (mode = "Manual" /\ signalled) => Blocked = {}

\* Event implements EventSpec: a wait() returns only on a raised flag and, in
\* Auto mode, takes it with it, so one signal() lets one call through; a
\* wait_for() returns false only when the flag is down at that moment; test()
\* and isSignalled() return the flag.
Abstract ==
    INSTANCE EventSpec
    WITH flag <- signalled,
         inWait <- [t \in Threads |->
                       IF pc[t] = "idle" THEN "out"
                       ELSE IF timed[t] THEN "timed" ELSE "untimed"]

ImplementsEventSpec == Abstract!Spec

\* A signal reaches the waiters: a thread inside wait() while the event is
\* signalled gets out, or the signal is taken (by another waiter, a test() or
\* a clear()).  It fails if a thread can sleep on a raised flag for ever.
SignalReachesWaiter ==
    \A t \in Threads :
        (signalled /\ t \in Waiting) ~> (~signalled \/ t \notin Waiting)
=============================================================================
