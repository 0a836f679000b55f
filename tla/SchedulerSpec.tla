--------------------------- MODULE SchedulerSpec ----------------------------
(***************************************************************************)
(* What marl::Scheduler promises a program of tasks, with no workers, no   *)
(* fibers, no queues and no work.mutex: a task that is scheduled is run    *)
(* once, from its start to its end; inside the task a wait for a condition *)
(* returns true only on a true predicate and false only when it was given  *)
(* a deadline and the predicate is false; and the destructor returns only  *)
(* when every task that was scheduled has run to its end, after which      *)
(* nothing is scheduled or run.                                            *)
(***************************************************************************)
CONSTANTS Tasks,   \* the tasks of the program
          Conds,   \* the conditions they wait for
          None     \* no condition, no result

VARIABLES status,     \* status[t]: how far task t has come
          flag,       \* flag[c]: the predicate of condition c
          on,         \* on[t]: the condition t is waiting for, or None
          timed,      \* timed[t]: that wait was given a deadline
          ret,        \* ret[t]: what t's last wait returned
          destroyed   \* the destructor has returned

vars == <<status, flag, on, timed, ret, destroyed>>

Init ==
    /\ status = [t \in Tasks |-> "unscheduled"]
    /\ flag = [c \in Conds |-> FALSE]
    /\ on = [t \in Tasks |-> None]
    /\ timed = [t \in Tasks |-> FALSE]
    /\ ret = [t \in Tasks |-> None]
    /\ destroyed = FALSE

\* Task t goes from one status to the next while the scheduler lives.
Advance(t, from, to) ==
    /\ ~destroyed
    /\ status[t] = from
    /\ status' = [status EXCEPT ![t] = to]

Schedule(t) ==
    /\ Advance(t, "unscheduled", "scheduled")
    /\ UNCHANGED <<flag, on, timed, ret, destroyed>>

Start(t) ==
    /\ Advance(t, "scheduled", "running")
    /\ UNCHANGED <<flag, on, timed, ret, destroyed>>

Finish(t) ==
    /\ Advance(t, "running", "done")
    /\ UNCHANGED <<flag, on, timed, ret, destroyed>>

\* Somebody makes the predicate of c true and notifies.
Signal(c) ==
    /\ flag' = [flag EXCEPT ![c] = TRUE]
    /\ UNCHANGED <<status, on, timed, ret, destroyed>>

\* A wait that finds its predicate true returns at once.
Pass(t, c) ==
    /\ status[t] = "running"
    /\ flag[c]
    /\ ret' = [ret EXCEPT ![t] = TRUE]
    /\ UNCHANGED <<status, flag, on, timed, destroyed>>

Enter(t, c, deadline) ==
    /\ ~flag[c]
    /\ Advance(t, "running", "waiting")
    /\ on' = [on EXCEPT ![t] = c]
    /\ timed' = [timed EXCEPT ![t] = deadline]
    /\ UNCHANGED <<flag, ret, destroyed>>

\* The wait of t is over: with true on a true predicate, with false on a
\* false one, and then only if the wait had a deadline.
Return(t) ==
    /\ status[t] = "waiting"
    /\ flag[on[t]] \/ timed[t]
    /\ Advance(t, "waiting", "running")
    /\ ret' = [ret EXCEPT ![t] = flag[on[t]]]
    /\ on' = [on EXCEPT ![t] = None]
    /\ timed' = [timed EXCEPT ![t] = FALSE]
    /\ UNCHANGED <<flag, destroyed>>

Destroy ==
    /\ ~destroyed
    /\ \A t \in Tasks : status[t] \in {"unscheduled", "done"}
    /\ destroyed' = TRUE
    /\ UNCHANGED <<status, flag, on, timed, ret>>

Next ==
    \/ \E t \in Tasks : Schedule(t) \/ Start(t) \/ Finish(t) \/ Return(t)
    \/ \E t \in Tasks, c \in Conds :
          Pass(t, c) \/ \E deadline \in BOOLEAN : Enter(t, c, deadline)
    \/ \E c \in Conds : Signal(c)
    \/ Destroy

Spec == Init /\ [][Next]_vars
=============================================================================
