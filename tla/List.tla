-------------------------------- MODULE List --------------------------------
(***************************************************************************)
(* marl::containers::list (include/marl/containers.h): a doubly linked     *)
(* list whose entries come from blocks it allocates and never gives back   *)
(* before it is destroyed.  An entry is always on one of two chains: head, *)
(* the elements of the list, or free, the entries to reuse.                *)
(*                                                                         *)
(* The list is single-threaded and a method is one step.  Entries are      *)
(* numbered in the order grow() lays them out; the pointers next and prev  *)
(* are functions on them, and 0 is nullptr.                                *)
(***************************************************************************)
EXTENDS Integers, Sequences, FiniteSets, SequencesExt, Functions

CONSTANTS
    Values,        \* what an element can be
    MinGrow,       \* the least number of entries grow() is asked for (8)
    MaxCapacity    \* bound on the entries allocated

ASSUME MinGrow \in Nat \ {0} /\ MaxCapacity \in Nat

VARIABLES
    lst,      \* the list: the fields of the class, the entries and the heap
    shadow,   \* the sequence a list of these calls holds
    alive     \* the list has not been destroyed

vars == <<lst, shadow, alive>>

Null    == 0
Entries == 1 .. MaxCapacity
Chains  == {"head", "free"}

Largest(a, b) == IF a >= b THEN a ELSE b

\* list::list(Allocator*)
Fresh ==
    [size |-> 0, capacity |-> 0, allocations |-> <<>>, free |-> Null, head |-> Null,
     next |-> [e \in Entries |-> Null], prev |-> [e \in Entries |-> Null],
     data |-> <<>>, heap |-> {}]

\* iterator: begin() at the chain's first entry, ++ along next, end() at nullptr.
RECURSIVE Walk(_, _, _)
Walk(l, e, fuel) ==
    IF e = Null \/ fuel = 0 THEN <<>> ELSE <<e>> \o Walk(l, l.next[e], fuel - 1)

Chain(l, chain) == Walk(l, l[chain], MaxCapacity + 1)

\* Mutant: unlink() that leaves the chain pointing at the entry it removes.
UnlinkKeepsList(l, e, chain) ==
    [l EXCEPT !.next = [x \in Entries |-> IF x = e THEN Null
                                          ELSE IF x = l.prev[e] THEN l.next[e] ELSE @[x]],
              !.prev = [x \in Entries |-> IF x = e THEN Null
                                          ELSE IF x = l.next[e] THEN l.prev[e] ELSE @[x]]]

\* list::unlink
Unlink(l, e, chain) ==
    [l EXCEPT ![chain] = IF @ = e THEN l.next[e] ELSE @,
              !.next = [x \in Entries |-> IF x = e THEN Null
                                          ELSE IF x = l.prev[e] THEN l.next[e] ELSE @[x]],
              !.prev = [x \in Entries |-> IF x = e THEN Null
                                          ELSE IF x = l.next[e] THEN l.prev[e] ELSE @[x]]]

\* Mutant: link() that does not point the old first entry back at the new one.
LinkWithoutPrev(l, e, chain) ==
    [l EXCEPT ![chain] = e, !.next[e] = l[chain]]

\* list::link
Link(l, e, chain) ==
    IF l[chain] = Null THEN [l EXCEPT ![chain] = e]
    ELSE [l EXCEPT ![chain] = e, !.next[e] = l[chain], !.prev[l[chain]] = e]

\* Mutant: grow() that does not chain the new block to the earlier ones.
GrowForgetsChain(l, count) ==
    LET new == (l.capacity + 1) .. (l.capacity + count)
    IN  [l EXCEPT !.next = [x \in Entries |-> IF x \notin new THEN @[x]
                                              ELSE IF x = l.capacity + 1 THEN l.free
                                              ELSE x - 1],
                  !.prev = [x \in Entries |-> IF x \in new THEN (IF x = l.capacity + count THEN Null ELSE x + 1)
                                              ELSE IF x = l.free THEN l.capacity + 1
                                              ELSE @[x]],
                  !.free = l.capacity + count,
                  !.allocations = <<Len(@) + 1>>,
                  !.heap = @ \cup {Len(l.allocations) + 1},
                  !.capacity = @ + count]

\* list::grow: one block of count entries, each pushed on the front of free,
\* and the block put on the front of the chain of allocations.
Grow(l, count) ==
    LET new == (l.capacity + 1) .. (l.capacity + count)
    IN  [l EXCEPT !.next = [x \in Entries |-> IF x \notin new THEN @[x]
                                              ELSE IF x = l.capacity + 1 THEN l.free
                                              ELSE x - 1],
                  !.prev = [x \in Entries |-> IF x \in new THEN (IF x = l.capacity + count THEN Null ELSE x + 1)
                                              ELSE IF x = l.free THEN l.capacity + 1
                                              ELSE @[x]],
                  !.free = l.capacity + count,
                  !.allocations = <<Len(@) + 1>> \o @,
                  !.heap = @ \cup {Len(l.allocations) + 1},
                  !.capacity = @ + count]

\* `free != nullptr`: an entry is there to reuse.
HasFree(l) == l.free # Null

\* list::emplace_front
EmplaceFrontOp(l, x) ==
    LET g == IF HasFree(l) THEN l ELSE Grow(l, Largest(l.capacity, MinGrow))
        e == g.free
        m == Link(Unlink(g, e, "free"), e, "head")
    IN  [m EXCEPT !.data = (e :> x) @@ @, !.size = @ + 1]

\* Mutant: erase() that does not count the element out.
EraseKeepsSize(l, e) ==
    LET m == Link(Unlink(l, e, "head"), e, "free")
    IN  [m EXCEPT !.data = Restrict(@, DOMAIN @ \ {e})]

\* list::erase
EraseOp(l, e) ==
    LET m == Link(Unlink(l, e, "head"), e, "free")
    IN  [m EXCEPT !.data = Restrict(@, DOMAIN @ \ {e}), !.size = @ - 1]

\* list::~list: the destructors of the elements on head, then every block of
\* the chain of allocations back to the allocator.
DestroyOp(l) ==
    [l EXCEPT !.data = Restrict(@, DOMAIN @ \ ToSet(Chain(l, "head"))),
              !.heap = @ \ ToSet(l.allocations)]

\* What a reader sees from begin() to end().
Contents(l) == [i \in 1 .. Len(Chain(l, "head")) |-> l.data[Chain(l, "head")[i]]]

-----------------------------------------------------------------------------
Init ==
    /\ lst = Fresh
    /\ shadow = <<>>
    /\ alive = TRUE

\* The next block fits the bound on the entries.
CanGrow == HasFree(lst) \/ lst.capacity + Largest(lst.capacity, MinGrow) <= MaxCapacity

EmplaceFront(x) ==
    /\ alive
    /\ CanGrow
    /\ lst' = EmplaceFrontOp(lst, x)
    /\ shadow' = <<x>> \o shadow
    /\ UNCHANGED alive

\* erase(it) for an iterator that points into the list.
Erase(i) ==
    /\ alive
    /\ i \in 1 .. Len(Chain(lst, "head"))
    /\ lst' = EraseOp(lst, Chain(lst, "head")[i])
    /\ shadow' = RemoveAt(shadow, i)
    /\ UNCHANGED alive

Destroy ==
    /\ alive
    /\ lst' = DestroyOp(lst)
    /\ alive' = FALSE
    /\ UNCHANGED shadow

\* A destroyed list makes no more calls.
Finished == ~alive /\ UNCHANGED vars

Next ==
    \/ \E x \in Values : EmplaceFront(x)
    \/ \E i \in Entries : Erase(i)
    \/ Destroy
    \/ Finished

Spec == Init /\ [][Next]_vars

-----------------------------------------------------------------------------
TypeOK ==
    /\ lst.size \in 0 .. MaxCapacity /\ lst.capacity \in 0 .. MaxCapacity
    /\ lst.free \in Entries \cup {Null} /\ lst.head \in Entries \cup {Null}
    /\ lst.next \in [Entries -> Entries \cup {Null}]
    /\ lst.prev \in [Entries -> Entries \cup {Null}]
    /\ DOMAIN lst.data \subseteq Entries
    /\ \A e \in DOMAIN lst.data : lst.data[e] \in Values
    /\ lst.allocations \in Seq(Nat) /\ lst.heap \subseteq Nat
    /\ shadow \in Seq(Values)
    /\ alive \in BOOLEAN

\* The list is the sequence its calls produce: from begin() to end() a reader
\* meets the elements emplace_front() put in front and erase() did not take
\* out, in order, every one of them a constructed object, and size() is their
\* number.  emplace_front() and erase() move an entry between the two chains
\* with unlink() and link().
IsTheSequence ==
    alive => /\ ToSet(Chain(lst, "head")) = DOMAIN lst.data
             /\ Contents(lst) = shadow
             /\ lst.size = Len(shadow)

\* Every allocated entry is on exactly one of the chains head and free, once,
\* and each chain is linked both ways: prev of an entry is the entry before
\* it and prev of the first is nullptr.  unlink() and link() rewrite up to
\* four pointers and the chain's first entry, and grow() threads a block onto
\* free.
EveryEntryOnOneChain ==
    alive =>
        LET h == Chain(lst, "head")
            f == Chain(lst, "free")
            all == h \o f
        IN  /\ Len(all) = lst.capacity
            /\ ToSet(all) = 1 .. lst.capacity
            /\ \A c \in {h, f} : \A i \in 1 .. Len(c) :
                   lst.prev[c[i]] = (IF i = 1 THEN Null ELSE c[i - 1])

\* The list holds every block it allocated for as long as it lives, and the
\* destructor destroys every element and gives every block back: grow() puts
\* each block on the chain the destructor follows.
ReleasedOnDestruction ==
    /\ alive => lst.heap = 1 .. Len(lst.allocations)
    /\ ~alive => lst.heap = {} /\ DOMAIN lst.data = {}
=============================================================================
