----------------------------- MODULE Collector -----------------------------
(***************************************************************************)
(* GarbageCollector::collect() loop by loop (garbage-collector.cpp) over   *)
(* the objects allocator (traced-allocator.hpp), between the steps of a    *)
(* program that respects the object store: it creates objects, copies the  *)
(* references it can reach and overwrites reference members.  Slots stand  *)
(* for the flagged registers and the accumulator, in scanning order.       *)
(***************************************************************************)
EXTENDS Heap, FiniteSets, FiniteSetsExt, SequencesExt

CONSTANTS
    NumSlots,   \* places for references in frames and accumulator
    Length,     \* lengths of the arrays the program creates
    MaxNative,  \* activations of markObjects() the native stack can hold
    Size        \* capacity of the allocator, in words

ASSUME CollectorAssumption ==
    /\ NumSlots \in Nat
    /\ Length \subseteq Nat \cap Scalar
    /\ MaxNative \in Nat \ {0}
    /\ Size \in Nat

VARIABLES
    slots,        \* the references the program holds
    heap,         \* the blocks in use
    marked,       \* blocks whose header has isMarked_ set
    allocations,  \* TracedByteAllocator::allocations_
    allocated,    \* TracedByteAllocator::allocated_
    roots,        \* GarbageCollector::roots_
    stack,        \* activations of markObjects() and markObjectArrays()
    cursor,       \* position of the loop collect() is in
    phase         \* "program", the loop collect() is in, or how it died

mutator == <<slots, heap, allocations, allocated>>
collector == <<roots, stack, cursor>>
vars == <<mutator, marked, collector, phase>>

Slot == 1 .. NumSlots
Ref == Addr \cup {CHAI_NULL}
Held == ToSet(slots) \ {CHAI_NULL}
Phase == {"program", "roots", "mark", "sweep", "erase", "aborted", "overflowed"}

(* An activation: the object being marked and the members left to visit.   *)
Activation == [obj : Addr, todo : SUBSET (Nat \ {0})]

TypeOK ==
    /\ slots \in [Slot -> Ref]
    /\ \E A \in SUBSET Addr : heap \in [A -> Object]
    /\ marked \subseteq DOMAIN heap
    /\ allocations \in Seq([ptr : Addr, isFree : BOOLEAN])
    /\ allocated \in Nat
    /\ roots \in Seq(Addr)
    /\ stack \in Seq(Activation)
    /\ cursor \in Nat
    /\ phase \in Phase

-----------------------------------------------------------------------------
(* The program.                                                            *)

Program == phase = "program" /\ UNCHANGED <<marked, collector, phase>>

(* TracedByteAllocator::allocate(); the block comes zeroed, so unmarked.   *)
Create(s, a, obj) ==
    /\ Program
    /\ a \notin DOMAIN heap
    /\ allocated + Words(obj) <= Size
    /\ heap' = [b \in DOMAIN heap \cup {a} |-> IF b = a THEN obj ELSE heap[b]]
    /\ allocations' = Append(allocations, [ptr |-> a, isFree |-> FALSE])
    /\ allocated' = allocated + Words(obj)
    /\ slots' = [slots EXCEPT ![s] = a]

Copy(s) ==
    /\ Program
    /\ \E v \in Held \cup {CHAI_NULL} \cup UNION {Children(heap[a]) : a \in Held} :
          slots' = [slots EXCEPT ![s] = v]
    /\ UNCHANGED <<heap, allocations, allocated>>

Store(a, i) ==
    /\ Program
    /\ a \in Held
    /\ i \in RefSlots(heap[a])
    /\ \E v \in Held \cup {CHAI_NULL} :
          heap' = [heap EXCEPT ![a].members[i] = v]
    /\ UNCHANGED <<slots, allocations, allocated>>

-----------------------------------------------------------------------------
(* collectRoots(), one place after the other: no attempt is made to drop   *)
(* duplicates.                                                             *)
(* Mutations: null slots become roots; the last slot, acc, is forgotten.   *)
CollectNull ==
    /\ phase = "roots" /\ cursor <= Len(slots)
    /\ roots' = Append(roots, slots[cursor])
    /\ cursor' = cursor + 1
    /\ UNCHANGED <<mutator, marked, stack, phase>>
CollectAllButLast ==
    /\ phase = "roots" /\ cursor <= Len(slots)
    /\ IF slots[cursor] # CHAI_NULL /\ cursor < Len(slots)
       THEN roots' = Append(roots, slots[cursor])
       ELSE UNCHANGED roots
    /\ cursor' = cursor + 1
    /\ UNCHANGED <<mutator, marked, stack, phase>>

Begin ==
    /\ phase = "program"
    /\ phase' = "roots"
    /\ cursor' = 1
    /\ UNCHANGED <<mutator, marked, roots, stack>>

CollectRoot ==
    /\ phase = "roots" /\ cursor <= Len(slots)
    /\ IF slots[cursor] # CHAI_NULL
       THEN roots' = Append(roots, slots[cursor])
       ELSE UNCHANGED roots
    /\ cursor' = cursor + 1
    /\ UNCHANGED <<mutator, marked, stack, phase>>

EndRoots ==
    /\ phase = "roots" /\ cursor > Len(slots)
    /\ phase' = "mark"
    /\ cursor' = 1
    /\ UNCHANGED <<mutator, marked, roots, stack>>

(* Entering markObjects() or markObjectArrays() above the activations st.  *)
(* Whether the object is marked already is not looked at.                  *)
Enter(a, st) ==
    /\ marked' = marked \cup {a}
    /\ stack' = Append(st, [obj |-> a, todo |-> RefSlots(heap[a])])
    /\ UNCHANGED phase

Die(p) ==
    /\ phase' = p
    /\ UNCHANGED <<marked, stack>>

(* Mutations: mark() without its case for arrays; its loop does not        *)
(* advance.                                                                *)
MarkRootAsObject ==
    /\ phase = "mark" /\ stack = <<>> /\ cursor <= Len(roots)
    /\ IF IsArray(heap[roots[cursor]])
       THEN Die("aborted")
       ELSE Enter(roots[cursor], <<>>)
    /\ cursor' = cursor + 1
    /\ UNCHANGED <<mutator, roots>>
MarkRootForever ==
    /\ phase = "mark" /\ stack = <<>> /\ cursor <= Len(roots)
    /\ Enter(roots[cursor], <<>>)
    /\ UNCHANGED <<mutator, roots, cursor>>

MarkRoot ==
    /\ phase = "mark" /\ stack = <<>> /\ cursor <= Len(roots)
    /\ Enter(roots[cursor], <<>>)
    /\ cursor' = cursor + 1
    /\ UNCHANGED <<mutator, roots>>

(* One iteration of the loop over the members of the object on top; the    *)
(* recursive call returns to the next iteration.                           *)
Top == stack[Len(stack)]
Visited(i) == [stack EXCEPT ![Len(stack)].todo = @ \ {i}]

MarkMember ==
    /\ phase = "mark" /\ stack # <<>> /\ Top.todo # {}
    /\ LET i == Min(Top.todo)
           child == heap[Top.obj].members[i]
       IN  \/ /\ child = CHAI_NULL
              /\ stack' = Visited(i)
              /\ UNCHANGED <<marked, phase>>
           \/ /\ child # CHAI_NULL /\ IsArray(heap[child])
              /\ Die("aborted")
           \/ /\ child # CHAI_NULL /\ ~IsArray(heap[child])
              /\ Len(stack) = MaxNative
              /\ Die("overflowed")
           \/ /\ child # CHAI_NULL /\ ~IsArray(heap[child])
              /\ Len(stack) < MaxNative
              /\ Enter(child, Visited(i))
    /\ UNCHANGED <<mutator, roots, cursor>>

Return ==
    /\ phase = "mark" /\ stack # <<>> /\ Top.todo = {}
    /\ stack' = Front(stack)
    /\ UNCHANGED <<mutator, marked, roots, cursor, phase>>

EndMark ==
    /\ phase = "mark" /\ stack = <<>> /\ cursor > Len(roots)
    /\ phase' = "sweep"
    /\ cursor' = 1
    /\ UNCHANGED <<mutator, marked, roots, stack>>

-----------------------------------------------------------------------------
(* sweep(): the loop that frees, the loop that erases, the reset of        *)
(* roots_.                                                                 *)
(* Mutations: unmark() is left out; isFree is not set.                     *)
UnmarkNothing(a) ==
    /\ a \in marked
    /\ UNCHANGED <<marked, heap, allocated, allocations>>
DeallocateUntraced(a) ==
    /\ a \notin marked
    /\ heap' = Restrict(heap, DOMAIN heap \ {a})
    /\ allocated' = allocated - Words(heap[a])
    /\ UNCHANGED <<marked, allocations>>

Unmark(a) ==
    /\ a \in marked
    /\ marked' = marked \ {a}
    /\ UNCHANGED <<heap, allocated, allocations>>

Deallocate(a) ==
    /\ a \notin marked
    /\ heap' = Restrict(heap, DOMAIN heap \ {a})
    /\ allocated' = allocated - Words(heap[a])
    /\ allocations' = [allocations EXCEPT ![cursor].isFree = TRUE]
    /\ UNCHANGED marked

SweepNext ==
    /\ phase = "sweep" /\ cursor <= Len(allocations)
    /\ LET a == allocations[cursor].ptr
       IN  Unmark(a) \/ Deallocate(a)
    /\ cursor' = cursor + 1
    /\ UNCHANGED <<slots, roots, stack, phase>>

EndSweep ==
    /\ phase = "sweep" /\ cursor > Len(allocations)
    /\ phase' = "erase"
    /\ cursor' = 1
    /\ UNCHANGED <<mutator, marked, roots, stack>>

(* erase() closes the gap: the next entry is where the erased one was.     *)
EraseNext ==
    /\ phase = "erase" /\ cursor <= Len(allocations)
    /\ IF allocations[cursor].isFree
       THEN allocations' = RemoveAt(allocations, cursor) /\ UNCHANGED cursor
       ELSE cursor' = cursor + 1 /\ UNCHANGED allocations
    /\ UNCHANGED <<slots, heap, allocated, marked, roots, stack, phase>>

(* Mutation: roots_ is not emptied.                                        *)
EndKeepingRoots ==
    /\ phase = "erase" /\ cursor > Len(allocations)
    /\ phase' = "program"
    /\ cursor' = 0
    /\ UNCHANGED <<mutator, marked, roots, stack>>

EndErase ==
    /\ phase = "erase" /\ cursor > Len(allocations)
    /\ phase' = "program"
    /\ roots' = <<>>
    /\ cursor' = 0
    /\ UNCHANGED <<mutator, marked, stack>>

-----------------------------------------------------------------------------
Init ==
    /\ slots = [s \in Slot |-> CHAI_NULL]
    /\ heap = [a \in {} |-> CHAI_NULL]
    /\ marked = {}
    /\ allocations = <<>>
    /\ allocated = 0
    /\ roots = <<>>
    /\ stack = <<>>
    /\ cursor = 0
    /\ phase = "program"

Collect ==
    \/ CollectRoot \/ EndRoots
    \/ MarkRoot \/ MarkMember \/ Return \/ EndMark
    \/ SweepNext \/ EndSweep \/ EraseNext \/ EndErase

Next ==
    \/ \E s \in Slot, a \in Addr :
          \/ \E k \in Klass : Create(s, a, NewInstance(k))
          \/ \E len \in Length : Create(s, a, NewArray(len))
    \/ \E s \in Slot : Copy(s)
    \/ \E a \in DOMAIN heap : \E i \in RefSlots(heap[a]) : Store(a, i)
    \/ Begin
    \/ Collect

(* A collection is a call on the interpreter's only thread: once begun it  *)
(* goes on.  Nothing obliges the program to begin one.                     *)
Spec == Init /\ [][Next]_vars /\ WF_vars(Collect)

-----------------------------------------------------------------------------
(* The collector implements the object store under any such program: every *)
(* block sweep() gives back, one at a time, is out of the program's reach. *)
ObjStore == INSTANCE ObjectStore WITH
    held <- Held,
    graph <- [a \in DOMAIN heap |-> Children(heap[a])]

ImplementsObjectStore == ObjStore!Spec

(* A finished sweep leaves exactly what the program can reach, although    *)
(* roots_ has duplicates and shared objects are entered again and again    *)
(* (garbage-collector.cpp:38-40, 49).                                      *)
SweepIsExact ==
    phase = "erase" => DOMAIN heap = Reach(heap, Held)

(* Marks do not outlive a collection: a stale one would keep a dead object *)
(* through the next collection (garbage-collector.cpp:83).                 *)
MarksAreCleared == phase \in {"program", "erase"} => marked = {}

(* The allocator's trace names each block in use exactly once while the    *)
(* program runs, no block freed during a sweep, and allocated() is the     *)
(* size of the blocks in use, also between two deallocations               *)
(* (traced-allocator.hpp:35-47; garbage-collector.cpp:86-99).              *)
TraceMatchesBlocks ==
    LET inUse == {n \in DOMAIN allocations : ~allocations[n].isFree}
    IN  /\ \A m, n \in inUse : allocations[m].ptr = allocations[n].ptr => m = n
        /\ {allocations[n].ptr : n \in inUse} = DOMAIN heap
        /\ phase = "program" => inUse = DOMAIN allocations
        /\ allocated = TotalWords(heap, DOMAIN heap)

(* A collection dies only on a heap of the shapes that kill it: an array   *)
(* in a member, a cycle, or more objects in a row than the native stack    *)
(* has room for (garbage-collector.cpp:48-75).                             *)
DiesOnlyOnBadShapes ==
    /\ phase = "aborted" => HasNestedArray(heap, Held)
    /\ phase = "overflowed" =>
          HasCycle(heap, Held) \/ Cardinality(Reach(heap, Held)) > MaxNative

(* On any other heap a collection that has begun comes to its end,         *)
(* however often the objects are shared.                                   *)
TameHeap ==
    /\ ~HasNestedArray(heap, Held) /\ ~HasCycle(heap, Held)
    /\ Cardinality(Reach(heap, Held)) <= MaxNative
CollectionEnds == (phase = "roots" /\ TameHeap) ~> (phase = "program")
=============================================================================
