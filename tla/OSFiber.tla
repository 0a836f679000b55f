------------------------------ MODULE OSFiber -------------------------------
(***************************************************************************)
(* marl::OSFiber (src/osfiber_asm.h): a fiber as a saved set of registers  *)
(* (marl_fiber_context), the function it runs and the stack it owns.       *)
(*                                                                         *)
(* The model is mechanical.  Every thread has registers, cpu[th]: the      *)
(* stack it executes on and how far the code on that stack has got.        *)
(* marl_fiber_swap stores the registers in one context and loads them from *)
(* another; which fiber "runs" is nothing but what the registers say.      *)
(* progress[s] records how far the code on stack s really is, so that a    *)
(* context loaded twice, or loaded from the wrong object, is seen: the     *)
(* registers then disagree with the stack they point into.                 *)
(*                                                                         *)
(* marl_fiber_set_target and marl_fiber_swap are assembly that is not part *)
(* of the sources; they follow section 4.1 of the design specification.    *)
(* The callers are the worker threads of the scheduler, which keep to the  *)
(* header's rules: switchTo() is called on the executing fiber, a fiber    *)
(* stays on the thread that made it, and its function never returns.       *)
(***************************************************************************)
EXTENDS Integers, FiniteSets

CONSTANTS
    Threads,      \* the threads that use fibers
    Fibers,       \* the OSFiber objects there can be (addresses new returns)
    None,         \* nullptr, and the stack of a zeroed context
    StackSizes,   \* the stack sizes createFiber is called with
    SizeModulus,  \* stands for 2^32: stack_size is a uint32_t
    MaxSteps      \* bound on the steps the code on one stack takes

ASSUME /\ SizeModulus \in Nat \ {0}
       /\ MaxSteps \in Nat \ {0}
       /\ StackSizes \subseteq Nat \ {0}
       /\ Threads \cap Fibers = {}

VARIABLES
    heap,      \* the OSFiber objects allocated and not deleted
    context,   \* context[f]: OSFiber::context
    target,    \* target[f]: OSFiber::target holds a function
    stack,     \* stack[f]: bytes of OSFiber::stack, 0 for none
    cpu,       \* cpu[th]: the registers of thread th
    progress,  \* progress[s]: the step the code on stack s has reached
    current,   \* current[th]: the fiber the thread's caller takes to execute
    owner,     \* owner[f]: the thread that made f
    fault      \* the undefined behaviour met, "none" so far

vars == <<heap, context, target, stack, cpu, progress, current, owner, fault>>

\* A thread has its own stack; a fiber made by createFiber has the one it owns.
Stacks == Threads \cup Fibers

\* What marl_fiber_context holds: the stack pointer (as the stack it points
\* into and the bytes below it) and the place execution goes on at.
Registers == [stack : Stacks \cup {None}, ip : 0 .. MaxSteps, room : Nat]

\* out->context = {};
ZeroContext == [stack |-> None, ip |-> 0, room |-> 0]

Running == fault = "none"

-----------------------------------------------------------------------------
(* The assembly                                                            *)

\* Mutant: the stack size handed on without its conversion to uint32_t.
StackSizeUnconverted(size) == size

\* The stack size as marl_fiber_set_target receives it: a uint32_t made from a
\* size_t.
StackSize32(size) == size % SizeModulus

\* marl_fiber_set_target: a context that starts at OSFiber::run(self), at the
\* top of the stack.
SetTarget(f, size32) == [stack |-> f, ip |-> 0, room |-> size32]

\* A swap that loads the new registers and forgets the old ones (used by a
\* mutant of switchTo()).
SwapWithoutSave(th, from, to) ==
    /\ cpu' = [cpu EXCEPT ![th] = context[to]]
    /\ fault' = IF context[to].stack = None THEN "jump through a zeroed context"
                ELSE fault
    /\ UNCHANGED context

\* marl_fiber_swap(from, to): the registers are stored in *from and loaded
\* from *to.  Registers loaded from a zeroed context point nowhere.
Swap(th, from, to) ==
    /\ context' = [context EXCEPT ![from] = cpu[th]]
    /\ cpu' = [cpu EXCEPT ![th] = context[to]]
    /\ fault' = IF context[to].stack = None THEN "jump through a zeroed context"
                ELSE fault

-----------------------------------------------------------------------------
(* OSFiber                                                                 *)

\* The rule of switchTo(): it is called on the fiber that executes.
OnCurrentFiber(th, f) == current[th] = f

\* createFiberFromCurrentThread(), called once on a thread: the object stands
\* for what the thread executes already, on the thread's own stack.
CreateFiberFromCurrentThread(th, f) ==
    /\ Running /\ f \notin heap
    /\ current[th] = None
    /\ heap' = heap \cup {f}
    /\ context' = [context EXCEPT ![f] = ZeroContext]
    /\ target' = [target EXCEPT ![f] = FALSE]
    /\ stack' = [stack EXCEPT ![f] = 0]
    /\ current' = [current EXCEPT ![th] = f]
    /\ owner' = [owner EXCEPT ![f] = th]
    /\ UNCHANGED <<cpu, progress, fault>>

\* Mutant: createFiber that allocates the stack and never sets the target.
CreateFiberUnprepared(th, f, size) ==
    /\ Running /\ f \notin heap
    /\ current[th] # None
    /\ heap' = heap \cup {f}
    /\ context' = [context EXCEPT ![f] = ZeroContext]
    /\ target' = [target EXCEPT ![f] = TRUE]
    /\ stack' = [stack EXCEPT ![f] = size]
    /\ progress' = [progress EXCEPT ![f] = 0]
    /\ owner' = [owner EXCEPT ![f] = th]
    /\ UNCHANGED <<cpu, current, fault>>

\* createFiber(stackSize, func), called by a thread that is on a fiber: a new
\* object with the function, a stack of stackSize bytes and a context set to
\* start OSFiber::run on that stack.
CreateFiber(th, f, size) ==
    /\ Running /\ f \notin heap
    /\ current[th] # None
    /\ heap' = heap \cup {f}
    /\ context' = [context EXCEPT ![f] = SetTarget(f, StackSize32(size))]
    /\ target' = [target EXCEPT ![f] = TRUE]
    /\ stack' = [stack EXCEPT ![f] = size]
    /\ progress' = [progress EXCEPT ![f] = 0]
    /\ owner' = [owner EXCEPT ![f] = th]
    /\ UNCHANGED <<cpu, current, fault>>

\* OSFiber::run(self), the first step on a new stack: self->target().  The
\* call needs room on the stack and a function to call.
Run(th) ==
    /\ Running
    /\ cpu[th].stack \in Fibers /\ cpu[th].ip = 0
    /\ cpu' = [cpu EXCEPT ![th].ip = 1]
    /\ progress' = [progress EXCEPT ![cpu[th].stack] = 1]
    /\ fault' = IF cpu[th].room = 0 THEN "stack overrun"
                ELSE IF ~target[cpu[th].stack] THEN "call of an empty function"
                ELSE fault
    /\ UNCHANGED <<heap, context, target, stack, current, owner>>

\* Mutant: switchTo() that loads the other fiber's registers and does not
\* store its own.
SwitchToWithoutSave(th, to) ==
    /\ Running
    /\ to \in heap /\ owner[to] = th
    /\ current[th] # None /\ ~OnCurrentFiber(th, to)
    /\ cpu[th].ip > 0
    /\ SwapWithoutSave(th, current[th], to)
    /\ current' = [current EXCEPT ![th] = to]
    /\ UNCHANGED <<heap, target, stack, progress, owner>>

\* from->switchTo(to), as the scheduler calls it: from is the fiber the thread
\* executes, to another fiber of the same thread.
SwitchTo(th, to) ==
    /\ Running
    /\ to \in heap /\ owner[to] = th
    /\ current[th] # None /\ ~OnCurrentFiber(th, to)
    /\ cpu[th].ip > 0
    /\ Swap(th, current[th], to)
    /\ current' = [current EXCEPT ![th] = to]
    /\ UNCHANGED <<heap, target, stack, progress, owner>>

\* delete of an OSFiber that does not execute: its members go, the stack with
\* them.  What the freed object held is of no account, and is written here as
\* the values of an object never made.
Destroy(th, f) ==
    /\ Running
    /\ f \in heap /\ owner[f] = th
    /\ ~OnCurrentFiber(th, f)
    /\ heap' = heap \ {f}
    /\ stack' = [stack EXCEPT ![f] = 0]
    /\ target' = [target EXCEPT ![f] = FALSE]
    /\ context' = [context EXCEPT ![f] = ZeroContext]
    /\ progress' = [progress EXCEPT ![f] = 0]
    /\ owner' = [owner EXCEPT ![f] = None]
    /\ UNCHANGED <<cpu, current, fault>>

\* The code on the thread's stack goes one step on (the function of a fiber,
\* or what the thread did before it made fibers).
Step(th) ==
    /\ Running
    /\ cpu[th].stack # None
    /\ cpu[th].ip \in 1 .. MaxSteps - 1
    /\ cpu' = [cpu EXCEPT ![th].ip = @ + 1]
    /\ progress' = [progress EXCEPT ![cpu[th].stack] = cpu[th].ip + 1]
    /\ fault' = IF cpu[th].stack \in Fibers /\ stack[cpu[th].stack] = 0
                THEN "use of a freed stack" ELSE fault
    /\ UNCHANGED <<heap, context, target, stack, current, owner>>

-----------------------------------------------------------------------------
Init ==
    /\ heap = {}
    /\ context = [f \in Fibers |-> ZeroContext]
    /\ target = [f \in Fibers |-> FALSE]
    /\ stack = [f \in Fibers |-> 0]
    /\ cpu = [th \in Threads |-> [stack |-> th, ip |-> 1, room |-> 1]]
    /\ progress = [s \in Stacks |-> IF s \in Threads THEN 1 ELSE 0]
    /\ current = [th \in Threads |-> None]
    /\ owner = [f \in Fibers |-> None]
    /\ fault = "none"

ThreadStep(th) ==
    \/ Run(th) \/ Step(th)
    \/ \E f \in Fibers :
          \/ CreateFiberFromCurrentThread(th, f)
          \/ \E size \in StackSizes : CreateFiber(th, f, size)
          \/ SwitchTo(th, f)
          \/ Destroy(th, f)

Next == \E th \in Threads : ThreadStep(th)

Spec == Init /\ [][Next]_vars

-----------------------------------------------------------------------------
TypeOK ==
    /\ heap \subseteq Fibers
    /\ context \in [Fibers -> [stack : Stacks \cup {None}, ip : 0 .. MaxSteps,
                               room : 0 .. SizeModulus - 1]]
    /\ target \in [Fibers -> BOOLEAN]
    /\ stack \in [Fibers -> Nat]
    /\ cpu \in [Threads -> [stack : Stacks, ip : 0 .. MaxSteps,
                            room : 0 .. SizeModulus - 1]]
    /\ progress \in [Stacks -> 0 .. MaxSteps]
    /\ current \in [Threads -> Fibers \cup {None}]
    /\ owner \in [Fibers -> Threads \cup {None}]

\* The stack fiber f executes on: its own, or, for the fiber made from the
\* thread, the thread's.
StackOf(f) == IF stack[f] = 0 THEN owner[f] ELSE f

\* No thread jumps through a zeroed context, calls an empty function, starts
\* on a stack with no room or runs on a stack that has been freed: createFiber
\* prepares the context before anybody can switch to it, and switchTo() saves
\* the registers of the fiber it leaves before another switch can load them.
MemorySafe == Running

\* A fiber goes on where it left off.  The registers of every thread are those
\* of the fiber it executes, at the step that stack has really reached, and
\* the context of every other fiber is that of its own stack at the step where
\* it called switchTo() (or at the start, if it never ran).  It fails if
\* marl_fiber_swap does not store the registers of the fiber that is left, or
\* stores them in another object than the one switchTo() was called on: a
\* later switch then resumes a fiber at a step it is already past.
ResumesWhereItLeft ==
    Running =>
        /\ \A th \in Threads :
              /\ cpu[th].ip = progress[cpu[th].stack]
              /\ cpu[th].stack = IF current[th] = None THEN th
                                 ELSE StackOf(current[th])
        /\ \A f \in heap :
              (\A th \in Threads : ~OnCurrentFiber(th, f)) =>
                  /\ context[f].stack = StackOf(f)
                  /\ context[f].ip = progress[StackOf(f)]
=============================================================================
