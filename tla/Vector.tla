------------------------------- MODULE Vector -------------------------------
(***************************************************************************)
(* marl::containers::vector (include/marl/containers.h): a vector that     *)
(* keeps its first BASE_CAPACITY elements in a buffer of its own and moves *)
(* to a block of the allocator when it grows past that.                    *)
(*                                                                         *)
(* The vector is single-threaded, so a method is one step; what is hard in *)
(* it is the sequence of calls.  A method is a function from the vector to *)
(* the vector, put together from reserve() and free() as the code does.    *)
(* Storage is kept as the objects that are alive in it: store[a] are the   *)
(* constructed elements at the front of area a, where area Buffer is the   *)
(* internal buffer and the others are blocks of the allocator.             *)
(*                                                                         *)
(* Undefined behaviour (a destructor run on what is not an object, a write *)
(* through a null pointer, a block freed twice) stops the vector with the  *)
(* fault recorded.                                                         *)
(***************************************************************************)
EXTENDS Integers, Sequences, FiniteSets

CONSTANTS
    BaseCapacity,   \* BASE_CAPACITY
    Values,         \* what an element can be
    Default,        \* T(), the element resize() constructs
    MaxSize,        \* bound on the sizes asked for
    MaxBlocks       \* bound on the allocations made

ASSUME /\ BaseCapacity \in Nat /\ MaxSize \in Nat /\ MaxBlocks \in Nat
       /\ Default \in Values

VARIABLES
    vec,      \* the vector: the fields of the class, the storage and the heap
    shadow,   \* the sequence a vector of these calls holds
    alive     \* the vector has not been destroyed

vars == <<vec, shadow, alive>>

Buffer == 0                     \* elements == buffer
Null   == -1                    \* elements == nullptr
Blocks == 1 .. MaxBlocks        \* allocation.ptr; 0 is nullptr
Areas  == {Buffer} \cup Blocks

Largest(a, b) == IF a >= b THEN a ELSE b

\* vector::vector(Allocator*)
Fresh ==
    [count |-> 0, capacity |-> BaseCapacity, elements |-> Buffer, allocation |-> 0,
     store |-> [a \in Areas |-> <<>>], heap |-> {}, allocated |-> 0, fault |-> "none"]

Ok(v) == v.fault = "none"

Fault(v, what) == [v EXCEPT !.fault = what]

\* The first n slots of v.elements hold objects.
Constructed(v, n) == n = 0 \/ (v.elements # Null /\ Len(v.store[v.elements]) >= n)

\* Mutant: free() that leaves the block with the allocator.
FreeKeepsBlock(v) ==
    IF ~Constructed(v, v.count) THEN Fault(v, "destroyed twice")
    ELSE IF v.count = 0 THEN v
    ELSE [v EXCEPT !.store[v.elements] = SubSeq(@, v.count + 1, Len(@))]

\* vector::free: the destructors of the count elements, then the block back to
\* the allocator.  count, capacity and allocation stay as they are.
Free(v) ==
    IF ~Constructed(v, v.count) THEN Fault(v, "destroyed twice")
    ELSE LET d == IF v.count = 0 THEN v
                  ELSE [v EXCEPT !.store[v.elements] = SubSeq(@, v.count + 1, Len(@))]
         IN  IF d.allocation = 0 THEN d
             ELSE IF d.allocation \notin d.heap THEN Fault(d, "freed twice")
             ELSE [d EXCEPT !.heap = @ \ {d.allocation},
                            !.store[d.allocation] = <<>>,
                            !.elements = Null]

\* Mutant: reserve() that moves slot 0 into every slot of the new block.
ReserveMovesFirst(v, n) ==
    IF ~Ok(v) \/ n <= v.capacity THEN v
    ELSE LET b == v.allocated + 1
             moved == [v EXCEPT !.capacity = Largest(n * 2, 8),
                                !.allocated = b,
                                !.heap = @ \cup {b},
                                !.store[b] = [i \in 1 .. v.count |-> v.store[v.elements][1]]]
             freed == Free(moved)
         IN  IF Ok(freed) THEN [freed EXCEPT !.elements = b, !.allocation = b] ELSE freed

\* Mutant: reserve() that frees the old storage before it moves out of it.
ReserveFreesFirst(v, n) ==
    IF ~Ok(v) \/ n <= v.capacity THEN v
    ELSE LET f == Free(v)
         IN  IF ~Constructed(f, f.count) THEN Fault(f, "moved from no object") ELSE f

\* vector::reserve: a block of max(2n, 8) elements, the elements moved into it,
\* the old storage freed.
Reserve(v, n) ==
    IF ~Ok(v) \/ n <= v.capacity THEN v
    ELSE IF ~Constructed(v, v.count) THEN Fault(v, "moved from no object")
    ELSE LET b == v.allocated + 1
             moved == [v EXCEPT !.capacity = Largest(n * 2, 8),
                                !.allocated = b,
                                !.heap = @ \cup {b},
                                !.store[b] = IF v.count = 0 THEN <<>>
                                             ELSE SubSeq(v.store[v.elements], 1, v.count)]
             freed == Free(moved)
         IN  IF Ok(freed) THEN [freed EXCEPT !.elements = b, !.allocation = b] ELSE freed

\* Placement new of the elements xs behind the first count ones.
Construct(v, xs) ==
    IF ~Ok(v) \/ xs = <<>> THEN v
    ELSE IF v.elements = Null THEN Fault(v, "write through null")
    ELSE IF Len(v.store[v.elements]) # v.count THEN Fault(v, "object overwritten")
    ELSE [v EXCEPT !.store[v.elements] = @ \o xs, !.count = @ + Len(xs)]

\* The destructors of the elements behind the first n.
Destruct(v, n) ==
    IF ~Ok(v) \/ n >= v.count THEN v
    ELSE IF ~Constructed(v, v.count) THEN Fault(v, "destroyed twice")
    ELSE [v EXCEPT !.store[v.elements] = SubSeq(@, 1, n) \o SubSeq(@, v.count + 1, Len(@)),
                   !.count = n]

\* vector::push_back, vector::emplace_back
PushBackOp(v, x) == Construct(Reserve(v, v.count + 1), <<x>>)

\* vector::pop_back
PopBackOp(v) == Destruct(v, v.count - 1)

\* vector::resize
ResizeOp(v, n) ==
    LET r == Reserve(v, n)
    IN  Destruct(Construct(r, [k \in 1 .. n - r.count |-> Default]), n)

\* vector::operator=, copying or moving: free(), reserve(other.size()), and the
\* elements of the other vector constructed in place from slot 0 on.
AssignOp(v, xs) ==
    LET r == Reserve(Free(v), Len(xs))
    IN  Construct(IF Ok(r) THEN [r EXCEPT !.count = 0] ELSE r, xs)

\* vector::size, operator[], front, back, begin, end: what a reader sees.
Contents(v) == [i \in 1 .. v.count |-> v.store[v.elements][i]]

Inputs == UNION {[1 .. n -> Values] : n \in 0 .. BaseCapacity + 1}

-----------------------------------------------------------------------------
\* A vector is default-constructed, or constructed from another vector, which
\* is operator= on the fresh vector.
Init ==
    /\ \E xs \in Inputs : vec = AssignOp(Fresh, xs) /\ shadow = xs
    /\ alive = TRUE

Usable == alive /\ Ok(vec)

\* The allocator still has a block if a size of n needs one.
CanGrow(n) == n > vec.capacity => vec.allocated < MaxBlocks

PushBack(x) ==
    /\ Usable
    /\ vec.count < MaxSize
    /\ CanGrow(vec.count + 1)
    /\ vec' = PushBackOp(vec, x)
    /\ shadow' = Append(shadow, x)
    /\ UNCHANGED alive

\* Mutant: pop_back() without its assertion.
PopBackUnchecked ==
    /\ Usable
    /\ vec' = PopBackOp(vec)
    /\ shadow' = SubSeq(shadow, 1, Len(shadow) - 1)
    /\ UNCHANGED alive

PopBack ==
    /\ Usable
    /\ vec.count > 0
    /\ vec' = PopBackOp(vec)
    /\ shadow' = SubSeq(shadow, 1, Len(shadow) - 1)
    /\ UNCHANGED alive

Resize(n) ==
    /\ Usable
    /\ CanGrow(n)
    /\ vec' = ResizeOp(vec, n)
    /\ shadow' = [k \in 1 .. n |-> IF k <= Len(shadow) THEN shadow[k] ELSE Default]
    /\ UNCHANGED alive

ReserveCall(n) ==
    /\ Usable
    /\ CanGrow(n)
    /\ vec' = Reserve(vec, n)
    /\ UNCHANGED <<shadow, alive>>

\* operator= on a vector that is in use.
Assign(xs) ==
    /\ Usable
    /\ CanGrow(Len(xs))
    /\ vec' = AssignOp(vec, xs)
    /\ shadow' = xs
    /\ UNCHANGED alive

\* The vector is the one another vector is move-constructed or move-assigned
\* from: its elements are moved out of, and `other.resize(0)` destroys them.
MovedFrom ==
    /\ Usable
    /\ vec.count > 0
    /\ vec' = ResizeOp(vec, 0)
    /\ shadow' = <<>>
    /\ UNCHANGED alive

\* vector::~vector
Destroy ==
    /\ Usable
    /\ vec' = Free(vec)
    /\ alive' = FALSE
    /\ UNCHANGED shadow

\* A destroyed vector and a crashed program make no more calls.
Finished == ~Usable /\ UNCHANGED vars

Next ==
    \/ \E x \in Values : PushBack(x)
    \/ PopBack
    \/ \E n \in 0 .. MaxSize : Resize(n) \/ ReserveCall(n)
    \/ MovedFrom
    \/ Destroy
    \/ Finished

NextWithAssign ==
    \/ Next
    \/ \E xs \in Inputs : Assign(xs)

Spec == Init /\ [][Next]_vars

SpecWithAssign == Init /\ [][NextWithAssign]_vars

-----------------------------------------------------------------------------
TypeOK ==
    /\ vec.count \in Nat /\ vec.capacity \in Nat
    /\ vec.elements \in Areas \cup {Null}
    /\ vec.allocation \in Blocks \cup {0}
    /\ vec.store \in [Areas -> Seq(Values)]
    /\ vec.heap \subseteq Blocks
    /\ vec.allocated \in 0 .. MaxBlocks
    /\ vec.fault \in {"none", "destroyed twice", "freed twice", "moved from no object",
                      "write through null", "object overwritten"}
    /\ shadow \in Seq(Values)
    /\ alive \in BOOLEAN

\* The vector holds what was put into it: through every growth from the
\* internal buffer to a block and from a block to a larger one, a reader sees
\* the sequence that the calls made so far produce.
HoldsWhatWasPut ==
    Usable => Contents(vec) = shadow

\* Every object and every block is accounted for: the elements of the vector
\* are the only objects alive and its allocation the only block held, and a
\* destroyed vector leaves nothing behind.  reserve() moves into the new
\* block before free() gives up the old one, and free() runs from reserve(),
\* from operator= and from the destructor.
NothingLeaked ==
    Ok(vec) =>
        /\ alive => /\ vec.count <= vec.capacity
                    /\ vec.elements = (IF vec.allocation = 0 THEN Buffer ELSE vec.allocation)
                    /\ vec.heap = {vec.allocation} \ {0}
                    /\ \A a \in Areas : Len(vec.store[a]) = (IF a = vec.elements THEN vec.count ELSE 0)
        /\ ~alive => vec.heap = {} /\ \A a \in Areas : vec.store[a] = <<>>

\* No call on a vector runs into undefined behaviour: no destructor runs on
\* storage that holds no object, nothing is written through a null elements
\* pointer and no block is given back to the allocator twice.  operator=
\* calls free() and then reserve() and constructs in place, and free() leaves
\* count, capacity and allocation as they were.
MemorySafe == Ok(vec)
=============================================================================
