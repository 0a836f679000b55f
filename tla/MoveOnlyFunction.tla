-------------------------- MODULE MoveOnlyFunction --------------------------
(***************************************************************************)
(* marl::move_only_function (include/marl/move_only_function.h): a type-   *)
(* erased callable.  A function object is the pointer ops_ to the invoker  *)
(* and the manager of the erased type, and the buffer object_: a callable  *)
(* of at most three pointers lives in the buffer, a larger one on the heap *)
(* with its address in the buffer.                                         *)
(*                                                                         *)
(* The class is single-threaded and a method is one step.  The memory of   *)
(* all function objects is one record, and a method a function on it, put  *)
(* together from the constructors and the destructor as the code does.     *)
(* Undefined behaviour stops the program with the fault recorded.          *)
(***************************************************************************)
EXTENDS Naturals

CONSTANTS
    Functions,        \* the function objects of the program
    Callables,        \* what a function object can be given to hold
    SmallCallables,   \* the callables of at most kMaximumOptimizableSize bytes
    None,             \* no callable, and nullptr
    Cells             \* the addresses of the heap, as many as the bound on it

ASSUME SmallCallables \subseteq Callables /\ None \notin Callables \cup Cells

VARIABLES
    mem,      \* ops_ and object_ of every function object, and the heap
    exists,   \* exists[f]: f is between its constructor and its destructor
    call,     \* the last call made: its name, its object, its argument
    result    \* what the last call or conversion to bool returned

vars == <<mem, exists, call, result>>

\* The TypeOps a function object points at: none, EraseCopySmall's or
\* EraseCopyLarge's.
Ops == {"null", "small", "large"}

\* object_: the callable constructed in the buffer, and the pointer in it.
Raw == [inline |-> None, ptr |-> None]

Ok(m) == m.fault = "none"

Fault(m, what) == [m EXCEPT !.fault = what]

FreeCells(m) == {p \in Cells : m.heap[p] = None}

\* TypeOps::manager: with a source, moves the callable from src to dest and
\* destroys the source; without, destroys the callable of dest.
Manage(m, dest, src) ==
    CASE ~Ok(m) -> m
      [] m.ops[dest] = "null" -> Fault(m, "call through null ops_")
      [] m.ops[dest] = "small" /\ src # None ->
            IF m.object[src].inline = None THEN Fault(m, "moved from no object")
            ELSE [m EXCEPT !.object[dest] = [Raw EXCEPT !.inline = m.object[src].inline],
                           !.object[src].inline = None]
      [] m.ops[dest] = "small" /\ src = None ->
            IF m.object[dest].inline = None THEN Fault(m, "destroyed twice")
            ELSE [m EXCEPT !.object[dest].inline = None]
      [] m.ops[dest] = "large" /\ src # None ->
            [m EXCEPT !.object[dest] = [Raw EXCEPT !.ptr = m.object[src].ptr]]
      [] m.ops[dest] = "large" /\ src = None ->
            IF m.object[dest].ptr \notin Cells \ FreeCells(m) THEN Fault(m, "freed twice")
            ELSE [m EXCEPT !.heap[m.object[dest].ptr] = None]

\* move_only_function(), move_only_function(nullptr_t)
CtorEmpty(m, f) == [m EXCEPT !.ops[f] = "null"]

\* move_only_function(F&&): EraseCopySmall or EraseCopyLarge by the size of F.
CtorFrom(m, f, c) ==
    IF ~Ok(m) THEN m
    ELSE IF c \in SmallCallables
    THEN [m EXCEPT !.ops[f] = "small", !.object[f] = [Raw EXCEPT !.inline = c]]
    ELSE LET p == CHOOSE q \in FreeCells(m) : TRUE
         IN  [m EXCEPT !.ops[f] = "large", !.object[f] = [Raw EXCEPT !.ptr = p],
                       !.heap[p] = c]

\* Mutant: a move constructor that leaves ops_ of the source as it was.
CtorMoveKeepsSource(m, f, g) ==
    LET t == [m EXCEPT !.ops[f] = m.ops[g]]
    IN  IF t.ops[f] = "null" THEN t ELSE Manage(t, f, g)

\* move_only_function(move_only_function&&)
CtorMove(m, f, g) ==
    LET t == [m EXCEPT !.ops[f] = m.ops[g], !.ops[g] = "null"]
    IN  IF ~Ok(m) \/ t.ops[f] = "null" THEN t ELSE Manage(t, f, g)

\* Mutant: a destructor that does not test ops_.
DtorUnchecked(m, f) == Manage(m, f, None)

\* ~move_only_function
Dtor(m, f) == IF m.ops[f] = "null" THEN m ELSE Manage(m, f, None)

\* operator=(F&&): the destructor, then the constructor in place.
AssignFrom(m, f, c) == CtorFrom(CtorEmpty(Dtor(m, f), f), f, c)

\* Mutant: move assignment without the test for self-assignment.
AssignMoveUnguarded(m, f, g) == CtorMove(Dtor(m, f), f, g)

\* operator=(move_only_function&&)
AssignMove(m, f, g) == IF f = g THEN m ELSE CtorMove(Dtor(m, f), f, g)

\* operator=(nullptr_t)
AssignNull(m, f) == [Manage(m, f, None) EXCEPT !.ops[f] = "null"]

\* Mutant: an invoker of EraseCopyLarge that takes the pointer for the callable.
CalleeOneDereference(m, f) ==
    CASE m.ops[f] = "small" -> m.object[f].inline
      [] m.ops[f] = "large" -> m.object[f].ptr
      [] OTHER -> None

\* operator(): what TypeOps::invoker runs.
Callee(m, f) ==
    CASE m.ops[f] = "small" -> m.object[f].inline
      [] m.ops[f] = "large" -> IF m.object[f].ptr \in Cells THEN m.heap[m.object[f].ptr] ELSE None
      [] OTHER -> None

\* operator bool
ToBool(m, f) == m.ops[f] # "null"

-----------------------------------------------------------------------------
Init ==
    /\ mem = [ops |-> [f \in Functions |-> "null"],
              object |-> [f \in Functions |-> Raw],
              heap |-> [p \in Cells |-> None],
              fault |-> "none"]
    /\ exists = [f \in Functions |-> FALSE]
    /\ call = <<"none", None, None>>
    /\ result = None

Running == Ok(mem)

\* A large callable needs a cell of the heap.
Fits(c) == c \in SmallCallables \/ FreeCells(mem) # {}

Create(f) == exists' = [exists EXCEPT ![f] = TRUE]

Called(op, f, arg) == call' = <<op, f, arg>>

ConstructEmpty(f) ==
    /\ Running /\ ~exists[f]
    /\ mem' = CtorEmpty(mem, f)
    /\ Create(f)
    /\ Called("construct", f, None)
    /\ UNCHANGED result

Construct(f, c) ==
    /\ Running /\ ~exists[f] /\ Fits(c)
    /\ mem' = CtorFrom(CtorEmpty(mem, f), f, c)
    /\ Create(f)
    /\ Called("construct", f, c)
    /\ UNCHANGED result

MoveConstruct(f, g) ==
    /\ Running /\ ~exists[f] /\ exists[g]
    /\ mem' = CtorMove(mem, f, g)
    /\ Create(f)
    /\ Called("move_construct", f, g)
    /\ UNCHANGED result

Destruct(f) ==
    /\ Running /\ exists[f]
    /\ mem' = Dtor(mem, f)
    /\ exists' = [exists EXCEPT ![f] = FALSE]
    /\ Called("destruct", f, None)
    /\ UNCHANGED result

Assign(f, c) ==
    /\ Running /\ exists[f] /\ Fits(c)
    /\ mem' = AssignFrom(mem, f, c)
    /\ Called("assign", f, c)
    /\ UNCHANGED <<exists, result>>

MoveAssign(f, g) ==
    /\ Running /\ exists[f] /\ exists[g]
    /\ mem' = AssignMove(mem, f, g)
    /\ Called("move_assign", f, g)
    /\ UNCHANGED <<exists, result>>

\* f = nullptr
Reset(f) ==
    /\ Running /\ exists[f]
    /\ mem' = AssignNull(mem, f)
    /\ Called("assign", f, None)
    /\ UNCHANGED <<exists, result>>

\* f(args...), which the header leaves undefined for an empty f.
Invoke(f) ==
    /\ Running /\ exists[f] /\ ToBool(mem, f)
    /\ result' = Callee(mem, f)
    /\ Called("invoke", f, None)
    /\ UNCHANGED <<mem, exists>>

Test(f) ==
    /\ Running /\ exists[f]
    /\ result' = ToBool(mem, f)
    /\ Called("bool", f, None)
    /\ UNCHANGED <<mem, exists>>

\* A program that ran into undefined behaviour makes no more calls.
Crashed == ~Running /\ UNCHANGED vars

Step(f) ==
    \/ ConstructEmpty(f) \/ Destruct(f) \/ Invoke(f) \/ Test(f)
    \/ \E c \in Callables : Construct(f, c) \/ Assign(f, c)
    \/ \E g \in Functions \ {f} : MoveConstruct(f, g)
    \/ \E g \in Functions : MoveAssign(f, g)

\* The program resets only function objects that hold a callable.
Next == \E f \in Functions : Step(f) \/ (ToBool(mem, f) /\ Reset(f))

\* The program resets any function object.
NextWithReset == (\E f \in Functions : Step(f) \/ Reset(f)) \/ Crashed

Spec == Init /\ [][Next]_vars

SpecWithReset == Init /\ [][NextWithReset]_vars

-----------------------------------------------------------------------------
TypeOK ==
    /\ mem.ops \in [Functions -> Ops]
    /\ mem.object \in [Functions -> [inline : Callables \cup {None}, ptr : Cells \cup {None}]]
    /\ mem.heap \in [Cells -> Callables \cup {None}]
    /\ exists \in [Functions -> BOOLEAN]
    /\ call \in {"none", "construct", "assign", "move_construct", "move_assign",
                 "destruct", "invoke", "bool"}
                    \X (Functions \cup {None}) \X (Functions \cup Callables \cup {None})
    /\ result \in Callables \cup {None} \cup BOOLEAN

\* The function objects that own a callable in their buffer, and on the heap.
Small == {f \in Functions : exists[f] /\ mem.ops[f] = "small"}
Large == {f \in Functions : exists[f] /\ mem.ops[f] = "large"}

\* Every callable has one owner: a callable alive in a buffer belongs to the
\* function object of that buffer, a cell of the heap in use is pointed at by
\* exactly one function object, and nothing is left when the function objects
\* are gone.  The move constructor hands the callable over and empties its
\* source; operator= destroys what was held before it takes the new callable.
EveryCallableOwnedOnce ==
    Ok(mem) =>
        /\ \A f \in Functions : mem.object[f].inline # None <=> f \in Small
        /\ \A p \in Cells : mem.heap[p] # None <=>
                                \E f \in Large : mem.object[f].ptr = p
        /\ \A f, g \in Large : mem.object[f].ptr = mem.object[g].ptr => f = g

\* No method runs into undefined behaviour: the manager is never called
\* through a null ops_, never destroys or moves what is not an object and
\* never deletes a pointer twice.
MemorySafe == Ok(mem)

\* move_only_function implements FunctionSpec: whether the callable sits in
\* the buffer or on the heap, a function object holds what it was last given,
\* a move (also of an object to itself) takes it from the source, and a call
\* runs it.
Abstract ==
    INSTANCE FunctionSpec
    WITH holds <- [f \in Functions |-> IF exists[f] THEN Callee(mem, f) ELSE None]

ImplementsFunctionSpec == Abstract!Spec
=============================================================================
