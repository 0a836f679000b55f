---------------------------- MODULE MCScheduler -----------------------------
(***************************************************************************)
(* Scheduler for TLC: two workers and three tasks.                         *)
(*                                                                         *)
(*   Main  binds, schedules T1 and T2, unbinds and destroys the scheduler  *)
(*   T1    waits for c1 until time 1, with T2's signal racing the clock    *)
(*   T2    schedules T3 from inside a task, notifies T3's fiber wherever   *)
(*         T3 is by then, and signals c1                                   *)
(*   T3    waits without a lock until time 1, which T2's notify may cut    *)
(*         short or miss, then waits for c1, where the notify is a wake-up *)
(*         on a false predicate                                            *)
(***************************************************************************)
EXTENDS Scheduler

CONSTANTS T1, T2, T3, c1

MCTasks == {T1, T2, T3}
MCConds == {c1}

MCProgram ==
    (Main :> << [op |-> "bind"],
                [op |-> "schedule", task |-> T1],
                [op |-> "schedule", task |-> T2],
                [op |-> "unbind"] >>)
    @@ (T1 :> << [op |-> "waitUntil", cond |-> c1, deadline |-> 1] >>)
    @@ (T2 :> << [op |-> "schedule", task |-> T3],
                 [op |-> "notify", task |-> T3],
                 [op |-> "set", cond |-> c1] >>)
    @@ (T3 :> << [op |-> "waitUnlockedUntil", deadline |-> 1],
                 [op |-> "wait", cond |-> c1] >>)

(***************************************************************************)
(* Worker::FastRnd over a sample of seeds: the words of one bit, which span *)
(* all words as FastRnd is linear over xor, and some words of many bits.    *)
(* FastRnd can be undone, so it never turns a seed that is not zero into    *)
(* zero; and the victims it picks, rng() % numWorkerThreads, are not always *)
(* the same worker, which is why StealWork may take any worker as victim.   *)
(***************************************************************************)
MCSeeds ==
    {{i} : i \in Bits64} \cup {Bits64, {0, 1, 2, 3}, {0, 13, 20, 30, 63}}

ASSUME \A x \in MCSeeds : FastRndInverse(FastRnd(x)) = x /\ FastRnd(x) # {}

ASSUME \A x \in MCSeeds, n \in 2 .. 4 :
          {WordMod(y, n) : y \in Draws(x, 32)} = 0 .. n - 1

(***************************************************************************)
(* One worker and one task with a timed wait for a condition that nobody   *)
(* signals, to see when the wait gives up.                                 *)
(***************************************************************************)
MCTimedTasks == {T1}
MCTimedConds == {c1}

MCTimedProgram ==
    (Main :> << [op |-> "bind"],
                [op |-> "schedule", task |-> T1],
                [op |-> "unbind"] >>)
    @@ (T1 :> << [op |-> "waitUntil", cond |-> c1, deadline |-> 3] >>)
=============================================================================
