---------------------------- MODULE FunctionSpec ----------------------------
(***************************************************************************)
(* What marl::move_only_function promises: a function object is empty or   *)
(* holds one callable, a move takes the callable away from its source, and *)
(* a call runs the callable that is held.  Nothing here says where the     *)
(* callable is stored.                                                     *)
(***************************************************************************)
CONSTANTS Functions,   \* the function objects of the program
          Callables,   \* what a function object can be given to hold
          None         \* no callable

VARIABLES exists,      \* exists[f]: f is between its constructor and destructor
          holds,       \* holds[f]: the callable of f, None when f is empty
          call,        \* the last call made: its name, its object, its argument
          result       \* what the last call or conversion to bool returned

vars == <<exists, holds, call, result>>

Called(op, f, arg) == call' = <<op, f, arg>>

Init ==
    /\ exists = [f \in Functions |-> FALSE]
    /\ holds = [f \in Functions |-> None]
    /\ call = <<"none", None, None>>
    /\ result = None

\* f is constructed, empty (c = None) or from a callable.
Construct(f, c) ==
    /\ ~exists[f]
    /\ exists' = [exists EXCEPT ![f] = TRUE]
    /\ holds' = [holds EXCEPT ![f] = c]
    /\ Called("construct", f, c)
    /\ UNCHANGED result

\* f is assigned a callable, or nullptr (c = None).
Assign(f, c) ==
    /\ exists[f]
    /\ holds' = [holds EXCEPT ![f] = c]
    /\ Called("assign", f, c)
    /\ UNCHANGED <<exists, result>>

\* What the function objects hold after f has taken the callable of g.
Moved(f, g) == IF f = g THEN holds ELSE [holds EXCEPT ![f] = holds[g], ![g] = None]

MoveConstruct(f, g) ==
    /\ ~exists[f] /\ exists[g]
    /\ exists' = [exists EXCEPT ![f] = TRUE]
    /\ holds' = Moved(f, g)
    /\ Called("move_construct", f, g)
    /\ UNCHANGED result

MoveAssign(f, g) ==
    /\ exists[f] /\ exists[g]
    /\ holds' = Moved(f, g)
    /\ Called("move_assign", f, g)
    /\ UNCHANGED <<exists, result>>

Destruct(f) ==
    /\ exists[f]
    /\ exists' = [exists EXCEPT ![f] = FALSE]
    /\ holds' = [holds EXCEPT ![f] = None]
    /\ Called("destruct", f, None)
    /\ UNCHANGED result

Invoke(f) ==
    /\ exists[f] /\ holds[f] # None
    /\ result' = holds[f]
    /\ Called("invoke", f, None)
    /\ UNCHANGED <<exists, holds>>

Test(f) ==
    /\ exists[f]
    /\ result' = (holds[f] # None)
    /\ Called("bool", f, None)
    /\ UNCHANGED <<exists, holds>>

Next ==
    \E f \in Functions :
        \/ \E c \in Callables \cup {None} : Construct(f, c) \/ Assign(f, c)
        \/ \E g \in Functions : MoveConstruct(f, g) \/ MoveAssign(f, g)
        \/ Destruct(f) \/ Invoke(f) \/ Test(f)

Spec == Init /\ [][Next]_vars
=============================================================================
