----------------------------- MODULE EventSpec ------------------------------
(***************************************************************************)
(* What marl::Event promises its callers, with no condition variable and   *)
(* no wake-ups: a flag, and the calls that are inside wait().              *)
(*                                                                         *)
(*   Auto    the flag is a token: a wait() or a successful test() that     *)
(*           returns takes it, so one signal() lets one call through.      *)
(*   Manual  the flag is a gate: while it is up every wait() passes and    *)
(*           nothing but clear() lowers it.                                *)
(*                                                                         *)
(* A timed wait may give up, and only while the flag is down: a call that  *)
(* returns false has not seen the signal.                                  *)
(***************************************************************************)
CONSTANTS Threads,   \* the threads that call the event
          None       \* the result of a call that returns void

VARIABLES mode,      \* "Auto" or "Manual", fixed when the event is built
          flag,      \* the signalled state
          inWait,    \* inWait[t]: "out", or the wait t is inside of
          ret        \* ret[t]: what t's last call returned

vars == <<mode, flag, inWait, ret>>

Results == BOOLEAN \cup {None}

\* The flag after a call has been let through.
Taken == mode = "Manual" /\ flag

Returns(t, r) == ret' = [ret EXCEPT ![t] = r]

Init ==
    /\ mode \in {"Auto", "Manual"}
    /\ flag \in BOOLEAN
    /\ inWait = [t \in Threads |-> "out"]
    /\ ret = [t \in Threads |-> None]

Signal(t) ==
    /\ inWait[t] = "out"
    /\ flag' = TRUE
    /\ Returns(t, None)
    /\ UNCHANGED <<mode, inWait>>

Clear(t) ==
    /\ inWait[t] = "out"
    /\ flag' = FALSE
    /\ Returns(t, None)
    /\ UNCHANGED <<mode, inWait>>

Test(t) ==
    /\ inWait[t] = "out"
    /\ flag' = Taken
    /\ Returns(t, flag)
    /\ UNCHANGED <<mode, inWait>>

IsSignalled(t) ==
    /\ inWait[t] = "out"
    /\ Returns(t, flag)
    /\ UNCHANGED <<mode, flag, inWait>>

\* The call finds the flag up and passes without waiting.
Pass(t, kind) ==
    /\ inWait[t] = "out"
    /\ flag
    /\ flag' = Taken
    /\ Returns(t, IF kind = "timed" THEN TRUE ELSE None)
    /\ UNCHANGED <<mode, inWait>>

Enter(t, kind) ==
    /\ inWait[t] = "out"
    /\ ~flag
    /\ inWait' = [inWait EXCEPT ![t] = kind]
    /\ UNCHANGED <<mode, flag, ret>>

Return(t) ==
    /\ inWait[t] # "out"
    /\ flag
    /\ flag' = Taken
    /\ inWait' = [inWait EXCEPT ![t] = "out"]
    /\ Returns(t, IF inWait[t] = "timed" THEN TRUE ELSE None)
    /\ UNCHANGED mode

GiveUp(t) ==
    /\ inWait[t] = "timed"
    /\ ~flag
    /\ inWait' = [inWait EXCEPT ![t] = "out"]
    /\ Returns(t, FALSE)
    /\ UNCHANGED <<mode, flag>>

Next ==
    \E t \in Threads :
        \/ Signal(t) \/ Clear(t) \/ Test(t) \/ IsSignalled(t)
        \/ \E kind \in {"untimed", "timed"} : Pass(t, kind) \/ Enter(t, kind)
        \/ Return(t) \/ GiveUp(t)

Spec == Init /\ [][Next]_vars

TypeOK ==
    /\ mode \in {"Auto", "Manual"}
    /\ flag \in BOOLEAN
    /\ inWait \in [Threads -> {"out", "untimed", "timed"}]
    /\ ret \in [Threads -> Results]
=============================================================================
