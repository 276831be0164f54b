-------------------------- MODULE CollectorProofs --------------------------
(***************************************************************************)
(* The collector, loop by loop, under every program, for any klasses,      *)
(* memory and native stack: marking finds exactly what the program can     *)
(* reach, sweeping keeps exactly that, the trace of the allocator names    *)
(* the blocks in use, marks and roots do not outlive a collection.         *)
(*                                                                         *)
(* What is kept is known between the loops only.  The inductive invariant  *)
(* says for each loop how far it has come: marking, that a reference in a  *)
(* marked object leads to a marked object or is still to be visited by an  *)
(* activation of that object; sweeping, that what has survived so far      *)
(* together with what is still marked is all that can be reached.          *)
(***************************************************************************)
EXTENDS Collector, HeapProofs

(* The trace.                                                              *)
Names(a, n) == n \in DOMAIN allocations /\ allocations[n].ptr = a

PtrsDistinct ==
    \A m, n \in DOMAIN allocations :
        allocations[m].ptr = allocations[n].ptr => m = n
InUseTraced ==
    \A a \in DOMAIN heap :
        \E n \in DOMAIN allocations : Names(a, n) /\ ~allocations[n].isFree
TracedInUse ==
    \A n \in DOMAIN allocations :
        ~allocations[n].isFree => allocations[n].ptr \in DOMAIN heap
FreesBehind ==
    \A n \in DOMAIN allocations :
        allocations[n].isFree =>
            \/ phase = "sweep" /\ n < cursor
            \/ phase = "erase" /\ n >= cursor
SizesAddUp == allocated = TotalWords(heap, DOMAIN heap)

Trace == PtrsDistinct /\ InUseTraced /\ TracedInUse /\ FreesBehind /\ SizesAddUp

(* The heap.  A swept heap may hold objects that refer to freed ones, but  *)
(* they are swept next.                                                    *)
Kept ==
    IF phase = "sweep"
    THEN marked \cup {a \in DOMAIN heap : \E n \in 1 .. cursor - 1 : Names(a, n)}
    ELSE DOMAIN heap

Shaped ==
    \A a \in DOMAIN heap : WellFormedObject(heap[a]) /\ Children(heap[a]) \subseteq Addr
KeptIsClosed ==
    /\ Held \subseteq Kept
    /\ \A a \in Kept : Children(heap[a]) \subseteq Kept
KeptIsReachable == phase \in {"sweep", "erase"} => Kept \subseteq Reach(heap, Held)

(* The loops.                                                              *)
Idle == phase = "program" => marked = {} /\ roots = <<>> /\ stack = <<>>

Rooting ==
    phase = "roots" =>
        /\ marked = {} /\ stack = <<>>
        /\ \A n \in DOMAIN roots : roots[n] \in Held
        /\ \A s \in Slot : s < cursor /\ slots[s] # CHAI_NULL =>
              \E n \in DOMAIN roots : roots[n] = slots[s]

RootsAreHeld ==
    phase = "mark" =>
        /\ \A n \in DOMAIN roots : roots[n] \in Held
        /\ \A v \in Held : \E n \in DOMAIN roots : roots[n] = v
RootsMarked ==
    phase = "mark" => \A n \in DOMAIN roots : n < cursor => roots[n] \in marked
MarkedIsReachable == phase = "mark" => marked \subseteq Reach(heap, Held)

(* Member i of a is a loop iteration some activation has still to do.      *)
Pending(a, i) == \E k \in DOMAIN stack : stack[k].obj = a /\ i \in stack[k].todo

ActivationsMarked ==
    phase = "mark" =>
        \A k \in DOMAIN stack :
            /\ stack[k].obj \in marked
            /\ stack[k].todo \subseteq RefSlots(heap[stack[k].obj])
MarkedOrPending ==
    phase = "mark" =>
        \A a \in marked : \A i \in RefSlots(heap[a]) :
            \/ heap[a].members[i] \in marked \cup {CHAI_NULL}
            \/ Pending(a, i)
StackIsPath ==
    phase = "mark" =>
        \A k \in DOMAIN stack : k + 1 \in DOMAIN stack =>
            stack[k + 1].obj \in Children(heap[stack[k].obj])

Marking ==
    /\ RootsAreHeld /\ RootsMarked /\ MarkedIsReachable
    /\ ActivationsMarked /\ MarkedOrPending /\ StackIsPath

Sweeping ==
    phase = "sweep" =>
        /\ stack = <<>>
        /\ \A a \in marked : \E n \in DOMAIN allocations : n >= cursor /\ Names(a, n)
Erasing == phase = "erase" => marked = {} /\ stack = <<>>

CursorStarts == phase \in {"roots", "mark", "sweep", "erase"} => cursor >= 1

IInv ==
    /\ TypeOK
    /\ Trace
    /\ Shaped /\ KeptIsClosed /\ KeptIsReachable
    /\ Idle /\ Rooting /\ Marking /\ Sweeping /\ Erasing /\ CursorStarts
    /\ DiesOnlyOnBadShapes

-----------------------------------------------------------------------------
(* Types.                                                                  *)
LEMMA HeapType ==
    ASSUME TypeOK
    PROVE  /\ DOMAIN heap \subseteq Addr
           /\ heap \in [DOMAIN heap -> Object]
           /\ \A a \in DOMAIN heap : heap[a] \in Object
<1>1. PICK A \in SUBSET Addr : heap \in [A -> Object]
  BY DEF TypeOK
<1> QED BY <1>1

LEMMA NullIsNoAddr == CHAI_NULL \notin Addr
BY HeapAssumption

LEMMA SlotsType ==
    ASSUME TypeOK
    PROVE  /\ slots \in Seq(Ref) /\ Len(slots) = NumSlots /\ NumSlots \in Nat
           /\ DOMAIN slots = Slot
           /\ \A s \in Slot : slots[s] \in Addr \cup {CHAI_NULL}
<1>1. slots \in [1 .. NumSlots -> Ref] /\ NumSlots \in Nat
  BY CollectorAssumption DEF TypeOK, Slot
<1>2. slots \in Seq(Ref)
  BY <1>1, SeqDef
<1>3. Len(slots) = NumSlots
  BY <1>1, <1>2
<1> QED BY <1>1, <1>2, <1>3 DEF Slot, Ref

LEMMA HeldAre ==
    ASSUME TypeOK, NEW v
    PROVE  v \in Held <=> v # CHAI_NULL /\ \E s \in Slot : slots[s] = v
BY SlotsType DEF Held, ToSet

LEMMA HeldAddresses == ASSUME TypeOK PROVE Held \subseteq Addr
BY HeldAre, SlotsType

(* There are no more blocks in use than entries in the trace.              *)
LEMMA FiniteHeap ==
    ASSUME TypeOK, InUseTraced
    PROVE  IsFiniteSet(DOMAIN heap)
<1> DEFINE entry == [a \in DOMAIN heap |-> CHOOSE n \in DOMAIN allocations : Names(a, n)]
<1>1. \A a \in DOMAIN heap : entry[a] \in DOMAIN allocations /\ Names(a, entry[a])
  BY DEF InUseTraced
<1>2. DOMAIN allocations = 1 .. Len(allocations) /\ Len(allocations) \in Nat
  BY DEF TypeOK
<1>3. entry \in [DOMAIN heap -> 1 .. Len(allocations)]
  BY <1>1, <1>2
<1> HIDE DEF entry
<1>4. \A a, b \in DOMAIN heap : entry[a] = entry[b] => a = b
  BY <1>1 DEF Names
<1>5. entry \in Injection(DOMAIN heap, 1 .. Len(allocations))
  BY <1>3, <1>4 DEF Injection, IsInjective
<1>6. IsFiniteSet(1 .. Len(allocations))
  BY <1>2, FS_Interval
<1> QED BY <1>5, <1>6, FS_Injection

-----------------------------------------------------------------------------
(* The program.                                                            *)
LEMMA ProgramKeeps ==
    ASSUME IInv, Program, TypeOK', Trace', Shaped',
           Held' \subseteq DOMAIN heap',
           \A a \in DOMAIN heap' : Children(heap'[a]) \subseteq DOMAIN heap'
    PROVE  IInv'
<1>1. phase = "program" /\ phase' = "program"
  BY DEF Program
<1>2. KeptIsClosed'
  BY <1>1 DEF KeptIsClosed, Kept
<1>3. Idle'
  BY <1>1 DEF IInv, Idle, Program, collector
<1>4. /\ KeptIsReachable' /\ Rooting' /\ Marking' /\ Sweeping' /\ Erasing'
      /\ CursorStarts' /\ DiesOnlyOnBadShapes'
  BY <1>1 DEF KeptIsReachable, Rooting, Marking, RootsAreHeld, RootsMarked,
     MarkedIsReachable, ActivationsMarked, MarkedOrPending, StackIsPath, Sweeping,
     Erasing, CursorStarts, DiesOnlyOnBadShapes
<1> QED BY <1>2, <1>3, <1>4 DEF IInv

LEMMA ProgramHolds ==
    ASSUME IInv, phase = "program"
    PROVE  /\ Held \subseteq DOMAIN heap
           /\ \A a \in DOMAIN heap : Children(heap[a]) \subseteq DOMAIN heap
BY DEF IInv, KeptIsClosed, Kept

LEMMA CopyKeeps ==
    ASSUME IInv, NEW s \in Slot, Copy(s)
    PROVE  IInv'
<1>1. PICK v \in Held \cup {CHAI_NULL} \cup UNION {Children(heap[a]) : a \in Held} :
          slots' = [slots EXCEPT ![s] = v]
  BY DEF Copy
<1>2. /\ Held \subseteq DOMAIN heap /\ DOMAIN heap \subseteq Addr
      /\ \A a \in DOMAIN heap : Children(heap[a]) \subseteq DOMAIN heap
  BY ProgramHolds, HeapType DEF IInv, Copy, Program
<1>3. v \in DOMAIN heap \cup {CHAI_NULL}
  BY <1>2
<1>4. TypeOK'
  <2>1. slots' \in [Slot -> Ref]
    BY <1>1, <1>2, <1>3 DEF IInv, TypeOK, Ref
  <2> QED BY <2>1 DEF IInv, TypeOK, Copy, Program, collector
<1>5. Trace' /\ Shaped'
  BY DEF IInv, Copy, Program, collector, Trace, PtrsDistinct, InUseTraced, TracedInUse,
     FreesBehind, SizesAddUp, Names, Shaped
<1>6. Held' \subseteq DOMAIN heap
  <2> SUFFICES ASSUME NEW w \in Held' PROVE w \in DOMAIN heap
    OBVIOUS
  <2>1. DOMAIN slots' = Slot /\ DOMAIN slots = Slot
    BY <1>4, SlotsType DEF IInv, TypeOK
  <2>2. w # CHAI_NULL /\ \E r \in Slot : slots'[r] = w
    BY <2>1 DEF Held, ToSet
  <2>3. w = v \/ \E r \in Slot : slots[r] = w
    BY <1>1, <2>1, <2>2
  <2> QED BY <1>2, <1>3, <2>2, <2>3, HeldAre DEF IInv
<1> QED BY <1>2, <1>4, <1>5, <1>6, ProgramKeeps DEF Copy

LEMMA CreateKeeps ==
    ASSUME IInv, NEW s \in Slot, NEW a \in Addr, NEW obj \in Object,
           WellFormedObject(obj), Children(obj) = {}, Create(s, a, obj)
    PROVE  IInv'
<1> DEFINE entry == [ptr |-> a, isFree |-> FALSE]
           Entry == [ptr : Addr, isFree : BOOLEAN]
<1>1. /\ phase = "program" /\ phase' = "program" /\ a \notin DOMAIN heap
      /\ heap' = [b \in DOMAIN heap \cup {a} |-> IF b = a THEN obj ELSE heap[b]]
      /\ allocations' = Append(allocations, entry)
      /\ allocated' = allocated + Words(obj)
      /\ slots' = [slots EXCEPT ![s] = a]
      /\ UNCHANGED <<marked, roots, stack, cursor>>
  BY DEF Create, Program, collector
<1>2. TypeOK /\ Trace /\ Shaped
  BY DEF IInv
<1>3. /\ DOMAIN heap' = DOMAIN heap \cup {a}
      /\ heap'[a] = obj /\ \A b \in DOMAIN heap : heap'[b] = heap[b] /\ b # a
  BY <1>1
<1>4. /\ allocations \in Seq(Entry) /\ entry \in Entry
      /\ Len(allocations) \in Nat /\ DOMAIN allocations = 1 .. Len(allocations)
  BY <1>2 DEF TypeOK
<1> HIDE DEF entry, Entry
<1>5. /\ allocations' \in Seq(Entry) /\ Len(allocations') = Len(allocations) + 1
      /\ DOMAIN allocations' = 1 .. Len(allocations) + 1
      /\ \A n \in 1 .. Len(allocations) : allocations'[n] = allocations[n]
      /\ allocations'[Len(allocations) + 1] = entry
  BY <1>1, <1>4, AppendProperties
<1>6. entry.ptr = a /\ entry.isFree = FALSE
  BY DEF entry
<1>7. \A n \in DOMAIN allocations : ~allocations[n].isFree /\ allocations[n].ptr # a
  BY <1>1, <1>2 DEF Trace, FreesBehind, TracedInUse
<1>8. TypeOK'
  <2>1. heap' \in [DOMAIN heap \cup {a} -> Object] /\ DOMAIN heap \cup {a} \in SUBSET Addr
    BY <1>1, <1>2, <1>3, HeapType
  <2>2. allocated' \in Nat
    BY <1>1, <1>2, WordsType DEF TypeOK
  <2>3. slots' \in [Slot -> Ref]
    BY <1>1, <1>2 DEF TypeOK, Ref
  <2> QED BY <1>1, <1>2, <1>3, <1>5, <2>1, <2>2, <2>3 DEF TypeOK, Entry
<1>9. Trace'
  <2>1. PtrsDistinct'
    BY <1>2, <1>4, <1>5, <1>6, <1>7 DEF Trace, PtrsDistinct
  <2>2. InUseTraced'
    <3> SUFFICES ASSUME NEW b \in DOMAIN heap'
                 PROVE  \E n \in DOMAIN allocations' :
                            allocations'[n].ptr = b /\ ~allocations'[n].isFree
      BY DEF InUseTraced, Names
    <3>1. CASE b = a
      BY <1>4, <1>5, <1>6, <3>1
    <3>2. CASE b \in DOMAIN heap
      BY <1>2, <1>4, <1>5, <3>2 DEF Trace, InUseTraced, Names
    <3> QED BY <1>3, <3>1, <3>2
  <2>3. TracedInUse'
    BY <1>2, <1>3, <1>4, <1>5, <1>6 DEF Trace, TracedInUse
  <2>4. FreesBehind'
    BY <1>4, <1>5, <1>6, <1>7 DEF FreesBehind
  <2>5. SizesAddUp'
    <3>1. IsFiniteSet(DOMAIN heap) /\ \A b \in DOMAIN heap : heap[b] \in Object
      BY <1>2, FiniteHeap, HeapType DEF Trace
    <3>2. a \notin DOMAIN heap
      BY <1>1
    <3>3. \A g : g = [b \in DOMAIN heap \cup {a} |-> IF b = a THEN obj ELSE heap[b]] =>
                TotalWords(g, DOMAIN g) = TotalWords(heap, DOMAIN heap) + Words(obj)
      BY <3>1, <3>2, HeapGrows
    <3>4. TotalWords(heap', DOMAIN heap') = TotalWords(heap, DOMAIN heap) + Words(obj)
      BY <1>1, <3>3
    <3> QED BY <1>1, <1>2, <3>4 DEF Trace, SizesAddUp
  <2> QED BY <2>1, <2>2, <2>3, <2>4, <2>5 DEF Trace
<1>10. Shaped'
  BY <1>2, <1>3 DEF Shaped
<1>11. Held' \subseteq DOMAIN heap'
  <2> SUFFICES ASSUME NEW w \in Held' PROVE w \in DOMAIN heap'
    OBVIOUS
  <2>1. DOMAIN slots' = Slot /\ DOMAIN slots = Slot
    BY <1>2, <1>8, SlotsType DEF TypeOK
  <2>2. w # CHAI_NULL /\ \E r \in Slot : slots'[r] = w
    BY <2>1 DEF Held, ToSet
  <2>3. w = a \/ \E r \in Slot : slots[r] = w
    BY <1>1, <2>1, <2>2
  <2> QED BY <1>1, <1>2, <1>3, <2>2, <2>3, HeldAre, ProgramHolds
<1>12. \A b \in DOMAIN heap' : Children(heap'[b]) \subseteq DOMAIN heap'
  BY <1>1, <1>3, ProgramHolds
<1> QED BY <1>8, <1>9, <1>10, <1>11, <1>12, ProgramKeeps DEF Create

LEMMA StoreKeeps ==
    ASSUME IInv, NEW a \in DOMAIN heap, NEW i \in RefSlots(heap[a]), Store(a, i)
    PROVE  IInv'
<1>1. /\ phase = "program" /\ phase' = "program" /\ a \in Held
      /\ UNCHANGED <<slots, allocations, allocated, marked, roots, stack, cursor>>
  BY DEF Store, Program, collector
<1>2. PICK v \in Held \cup {CHAI_NULL} : heap' = [heap EXCEPT ![a].members[i] = v]
  BY DEF Store
<1> DEFINE new == [heap[a] EXCEPT !.members[i] = v]
<1>3. /\ TypeOK /\ Trace /\ Shaped
      /\ Held \subseteq DOMAIN heap /\ DOMAIN heap \subseteq Addr
      /\ \A b \in DOMAIN heap : Children(heap[b]) \subseteq DOMAIN heap
      /\ heap[a] \in Object /\ WellFormedObject(heap[a])
      /\ heap \in [DOMAIN heap -> Object]
  BY <1>1, ProgramHolds, HeapType DEF IInv, Shaped
<1>4. i \in 1 .. Len(heap[a].members) /\ Len(heap[a].members) \in Nat
  <2>1. Len(heap[a].members) \in Nat
    BY <1>3 DEF Object
  <2> QED BY <1>3, <2>1 DEF RefSlots, WellFormedObject
<1>5. v \in Value
  BY <1>3, HeapAssumption DEF Value
<1>6. new \in Object /\ WellFormedObject(new) /\ Children(new) \subseteq DOMAIN heap
  BY <1>3, <1>4, <1>5, MemberWritten
<1>7. heap' = [heap EXCEPT ![a] = new]
  BY <1>2
<1>8. Words(new) = Words(heap[a])
  BY <1>3, <1>4, <1>5 DEF Words, Object
<1> HIDE DEF new
<1>9. /\ DOMAIN heap' = DOMAIN heap
      /\ \A b \in DOMAIN heap : heap'[b] = IF b = a THEN new ELSE heap[b]
      /\ heap' \in [DOMAIN heap -> Object]
  BY <1>3, <1>6, <1>7
<1>10. TypeOK'
  BY <1>1, <1>3, <1>9 DEF TypeOK
<1>11. Trace'
  <2>1. IsFiniteSet(DOMAIN heap)
    BY <1>3, FiniteHeap DEF Trace
  <2>2. \A b \in DOMAIN heap : Words(heap[b]) = Words(heap'[b])
    BY <1>8, <1>9
  <2>3. TotalWords(heap, DOMAIN heap) = TotalWords(heap', DOMAIN heap)
    BY <1>9, <2>1, <2>2, TotalWordsSame
  <2>4. SizesAddUp'
    BY <1>1, <1>3, <1>9, <2>3 DEF Trace, SizesAddUp
  <2> QED
    BY <1>1, <1>3, <1>9, <2>4
       DEF Trace, PtrsDistinct, InUseTraced, TracedInUse, FreesBehind, Names
<1>12. Shaped'
  BY <1>3, <1>6, <1>9 DEF Shaped
<1>13. Held' \subseteq DOMAIN heap'
  BY <1>1, <1>3, <1>9 DEF Held
<1>14. \A b \in DOMAIN heap' : Children(heap'[b]) \subseteq DOMAIN heap'
  BY <1>3, <1>6, <1>9
<1> QED BY <1>10, <1>11, <1>12, <1>13, <1>14, ProgramKeeps DEF Store

-----------------------------------------------------------------------------
(* Up to the end of marking memory does not change.                        *)
LEMMA MemoryKeeps ==
    ASSUME IInv, UNCHANGED mutator, phase \notin {"sweep", "erase"},
           phase' \notin {"sweep", "erase", "program"}
    PROVE  /\ Trace' /\ Shaped' /\ KeptIsClosed' /\ KeptIsReachable'
           /\ Idle' /\ Sweeping' /\ Erasing'
<1>1. Trace' /\ Shaped'
  BY DEF IInv, mutator, Trace, PtrsDistinct, InUseTraced, TracedInUse, FreesBehind,
     SizesAddUp, Names, Shaped
<1>2. Held' = Held /\ Kept' = Kept
  BY DEF mutator, Held, Kept
<1>3. KeptIsClosed'
  BY <1>2 DEF IInv, mutator, KeptIsClosed
<1> QED BY <1>1, <1>3 DEF KeptIsReachable, Idle, Sweeping, Erasing

LEMMA MarkingBegins ==
    ASSUME phase' \in {"roots", "mark"}
    PROVE  DiesOnlyOnBadShapes'
BY DEF DiesOnlyOnBadShapes

LEMMA BeginKeeps ==
    ASSUME IInv, Begin
    PROVE  IInv'
<1>1. /\ phase = "program" /\ phase' = "roots" /\ cursor' = 1
      /\ UNCHANGED <<mutator, marked, roots, stack>>
  BY DEF Begin
<1>2. TypeOK'
  BY <1>1 DEF IInv, TypeOK, mutator, Phase
<1>3. Rooting'
  <2>1. roots' = <<>> /\ stack' = <<>> /\ marked' = {}
    BY <1>1 DEF IInv, Idle
  <2> QED BY <1>1, <2>1 DEF Rooting, Slot
<1>4. Marking' /\ CursorStarts'
  BY <1>1 DEF Marking, RootsAreHeld, RootsMarked, MarkedIsReachable, ActivationsMarked,
     MarkedOrPending, StackIsPath, CursorStarts
<1> QED BY <1>1, <1>2, <1>3, <1>4, MemoryKeeps, MarkingBegins DEF IInv

LEMMA CollectRootKeeps ==
    ASSUME IInv, CollectRoot
    PROVE  IInv'
<1> DEFINE v == slots[cursor]
<1>1. /\ phase = "roots" /\ phase' = "roots" /\ cursor <= Len(slots)
      /\ cursor' = cursor + 1
      /\ v # CHAI_NULL => roots' = Append(roots, v)
      /\ v = CHAI_NULL => roots' = roots
      /\ UNCHANGED <<mutator, marked, stack>>
  BY DEF CollectRoot
<1>2. /\ TypeOK /\ Rooting /\ roots \in Seq(Addr) /\ cursor \in Nat /\ cursor >= 1
  BY <1>1 DEF IInv, TypeOK, CursorStarts
<1>3. /\ cursor \in Slot /\ Slot = 1 .. NumSlots /\ NumSlots \in Nat
      /\ v \in Addr \cup {CHAI_NULL}
      /\ v # CHAI_NULL => v \in Held
  BY <1>1, <1>2, SlotsType, HeldAre DEF Slot
<1> HIDE DEF v
<1>4. /\ roots' \in Seq(Addr)
      /\ \A n \in DOMAIN roots : n \in DOMAIN roots' /\ roots'[n] = roots[n]
      /\ \A n \in DOMAIN roots' : n \in DOMAIN roots \/ (roots'[n] = v /\ v # CHAI_NULL)
      /\ v # CHAI_NULL => \E n \in DOMAIN roots' : roots'[n] = v
  <2>1. CASE v # CHAI_NULL
    <3>1. /\ roots' = Append(roots, v) /\ v \in Addr
      BY <1>1, <1>3, <2>1
    <3>2. /\ roots' \in Seq(Addr) /\ Len(roots') = Len(roots) + 1
          /\ \A n \in 1 .. Len(roots) : roots'[n] = roots[n]
          /\ roots'[Len(roots) + 1] = v
      BY <1>2, <3>1, AppendProperties
    <3>3. /\ DOMAIN roots = 1 .. Len(roots) /\ Len(roots) \in Nat
          /\ DOMAIN roots' = 1 .. Len(roots) + 1
      BY <1>2, <3>2
    <3> QED BY <2>1, <3>2, <3>3
  <2>2. CASE v = CHAI_NULL
    <3>1. roots' = roots
      BY <1>1, <2>2
    <3> QED BY <1>2, <2>2, <3>1, Zenon
  <2> QED BY <2>1, <2>2
<1>5. TypeOK'
  BY <1>1, <1>2, <1>4 DEF TypeOK, mutator
<1>6. Rooting'
  <2>1. Held' = Held /\ slots' = slots
    BY <1>1 DEF mutator, Held
  <2>2. \A n \in DOMAIN roots' : roots'[n] \in Held
    BY <1>1, <1>2, <1>3, <1>4 DEF Rooting
  <2>3. ASSUME NEW s \in Slot, s < cursor + 1, slots[s] # CHAI_NULL
        PROVE  \E n \in DOMAIN roots' : roots'[n] = slots[s]
    <3>1. CASE s = cursor
      BY <1>4, <2>3, <3>1 DEF v
    <3>2. CASE s < cursor
      BY <1>1, <1>2, <1>4, <2>3, <3>2 DEF Rooting
    <3> QED BY <1>2, <1>3, <2>3, <3>1, <3>2
  <2> QED BY <1>1, <1>2, <2>1, <2>2, <2>3 DEF Rooting
<1>7. Marking' /\ CursorStarts'
  BY <1>1, <1>2 DEF Marking, RootsAreHeld, RootsMarked, MarkedIsReachable,
     ActivationsMarked, MarkedOrPending, StackIsPath, CursorStarts
<1> QED BY <1>1, <1>5, <1>6, <1>7, MemoryKeeps, MarkingBegins DEF IInv

LEMMA EndRootsKeeps ==
    ASSUME IInv, EndRoots
    PROVE  IInv'
<1>1. /\ phase = "roots" /\ phase' = "mark" /\ cursor > Len(slots) /\ cursor' = 1
      /\ UNCHANGED <<mutator, marked, roots, stack>>
  BY DEF EndRoots
<1>2. TypeOK /\ Rooting /\ cursor \in Nat
  BY DEF IInv, TypeOK
<1>3. TypeOK'
  BY <1>1, <1>2 DEF TypeOK, mutator, Phase
<1>4. Rooting' /\ CursorStarts'
  BY <1>1 DEF Rooting, CursorStarts
<1>5. marked' = {} /\ stack' = <<>> /\ DOMAIN stack' = {} /\ Held' = Held
  BY <1>1, <1>2 DEF Rooting, Held, mutator
<1>6. RootsAreHeld'
  <2>1. \A s \in Slot : s < cursor
    BY <1>1, <1>2, SlotsType DEF Slot
  <2>2. \A v \in Held : \E n \in DOMAIN roots : roots[n] = v
    BY <1>1, <1>2, <2>1, HeldAre DEF Rooting
  <2> QED BY <1>1, <1>2, <1>5, <2>2 DEF RootsAreHeld, Rooting
<1>7. RootsMarked'
  <2>1. DOMAIN roots' = 1 .. Len(roots') /\ Len(roots') \in Nat
    BY <1>3 DEF TypeOK
  <2> QED BY <1>1, <2>1 DEF RootsMarked
<1>8. /\ MarkedIsReachable' /\ ActivationsMarked' /\ MarkedOrPending' /\ StackIsPath'
  BY <1>5 DEF MarkedIsReachable, ActivationsMarked, MarkedOrPending, StackIsPath
<1> QED BY <1>1, <1>3, <1>4, <1>6, <1>7, <1>8, MemoryKeeps, MarkingBegins
     DEF IInv, Marking

-----------------------------------------------------------------------------
(* Marking.                                                                *)
LEMMA MarkingHolds ==
    ASSUME IInv, phase = "mark"
    PROVE  /\ Held \subseteq DOMAIN heap /\ marked \subseteq DOMAIN heap
           /\ \A a \in DOMAIN heap : Children(heap[a]) \subseteq DOMAIN heap
           /\ DOMAIN heap \subseteq Addr
           /\ stack \in Seq(Activation) /\ Len(stack) \in Nat
           /\ DOMAIN stack = 1 .. Len(stack)
           /\ roots \in Seq(Addr) /\ cursor \in Nat /\ cursor >= 1
BY HeapType DEF IInv, KeptIsClosed, Kept, TypeOK, CursorStarts

LEMMA RefSlotsPositive ==
    ASSUME NEW obj \in Object
    PROVE  RefSlots(obj) \subseteq Nat \ {0}
BY DEF RefSlots, Object

LEMMA ChildIs ==
    ASSUME NEW obj, NEW i \in RefSlots(obj), obj.members[i] # CHAI_NULL
    PROVE  obj.members[i] \in Children(obj)
BY DEF Children

LEMMA HeldIsReachable == ASSUME TypeOK PROVE Held \subseteq Reach(heap, Held)
BY HeldAddresses, ReachContains

LEMMA ReachSteps ==
    ASSUME NEW R, NEW a \in Reach(heap, R) \cap DOMAIN heap,
           NEW c \in Children(heap[a]) \cap Addr
    PROVE  c \in Reach(heap, R)
BY ReachClosed DEF Closed

(* An activation is added for object a, over st.                           *)
LEMMA Entered ==
    ASSUME IInv, phase = "mark", UNCHANGED mutator,
           NEW a \in DOMAIN heap, a \in Reach(heap, Held),
           NEW st \in Seq(Activation),
           \A k \in DOMAIN st :
               /\ st[k].obj \in marked
               /\ st[k].todo \subseteq RefSlots(heap[st[k].obj]),
           \A b \in marked : \A i \in RefSlots(heap[b]) :
               \/ heap[b].members[i] \in marked \cup {CHAI_NULL, a}
               \/ \E k \in DOMAIN st : st[k].obj = b /\ i \in st[k].todo,
           \A k \in DOMAIN st : k + 1 \in DOMAIN st =>
               st[k + 1].obj \in Children(heap[st[k].obj]),
           st # <<>> => a \in Children(heap[st[Len(st)].obj]),
           Enter(a, st)
    PROVE  /\ stack' \in Seq(Activation) /\ marked' \subseteq DOMAIN heap
           /\ MarkedIsReachable' /\ ActivationsMarked' /\ MarkedOrPending'
           /\ StackIsPath'
<1> DEFINE act == [obj |-> a, todo |-> RefSlots(heap[a])]
<1>1. /\ marked' = marked \cup {a} /\ stack' = Append(st, act) /\ phase' = "mark"
      /\ heap' = heap /\ Held' = Held
  BY DEF Enter, mutator, Held
<1>2. /\ marked \subseteq DOMAIN heap /\ DOMAIN heap \subseteq Addr
      /\ MarkedIsReachable
  BY MarkingHolds DEF IInv, Marking
<1>3. act \in Activation /\ act.obj = a /\ act.todo = RefSlots(heap[a])
  BY <1>2, HeapType, RefSlotsPositive DEF IInv, Activation
<1> HIDE DEF act
<1>4. /\ stack' \in Seq(Activation) /\ Len(stack') = Len(st) + 1
      /\ \A k \in 1 .. Len(st) : stack'[k] = st[k]
      /\ stack'[Len(st) + 1] = act
  BY <1>1, <1>3, AppendProperties
<1>5. /\ Len(st) \in Nat /\ DOMAIN st = 1 .. Len(st)
      /\ DOMAIN stack' = 1 .. Len(st) + 1
  BY <1>4
<1>6. MarkedIsReachable'
  BY <1>1, <1>2 DEF MarkedIsReachable
<1>7. ActivationsMarked'
  BY <1>1, <1>3, <1>4, <1>5 DEF ActivationsMarked
<1>8. MarkedOrPending'
  <2> SUFFICES ASSUME NEW b \in marked', NEW i \in RefSlots(heap[b]),
                      heap[b].members[i] \notin marked' \cup {CHAI_NULL}
               PROVE  \E k \in DOMAIN stack' : stack'[k].obj = b /\ i \in stack'[k].todo
    BY <1>1 DEF MarkedOrPending, Pending
  <2>1. CASE b = a
    BY <1>3, <1>4, <1>5, <2>1
  <2>2. CASE b \in marked
    <3>1. heap[b].members[i] \notin marked \cup {CHAI_NULL, a}
      BY <1>1
    <3>2. PICK k \in DOMAIN st : st[k].obj = b /\ i \in st[k].todo
      BY <2>2, <3>1
    <3> QED BY <1>4, <1>5, <3>2
  <2> QED BY <1>1, <2>1, <2>2
<1>9. StackIsPath'
  <2> SUFFICES ASSUME NEW k \in DOMAIN stack', k + 1 \in DOMAIN stack'
               PROVE  stack'[k + 1].obj \in Children(heap[stack'[k].obj])
    BY <1>1 DEF StackIsPath
  <2>1. k \in 1 .. Len(st)
    BY <1>5
  <2>2. CASE k = Len(st)
    <3>1. st # <<>>
      BY <2>1
    <3> QED BY <1>3, <1>4, <2>1, <2>2, <3>1
  <2>3. CASE k # Len(st)
    BY <1>4, <1>5, <2>1, <2>3
  <2> QED BY <2>2, <2>3
<1> QED BY <1>1, <1>2, <1>4, <1>6, <1>7, <1>8, <1>9

LEMMA MarkRootKeeps ==
    ASSUME IInv, MarkRoot
    PROVE  IInv'
<1> DEFINE r == roots[cursor]
<1>1. /\ phase = "mark" /\ stack = <<>> /\ cursor <= Len(roots)
      /\ Enter(r, <<>>) /\ cursor' = cursor + 1
      /\ UNCHANGED <<mutator, roots>>
  BY DEF MarkRoot
<1>2. phase' = "mark" /\ marked' = marked \cup {r}
  BY <1>1 DEF Enter
<1>3. /\ TypeOK /\ Marking /\ Held \subseteq DOMAIN heap /\ roots \in Seq(Addr)
      /\ cursor \in Nat /\ cursor >= 1
  BY <1>1, MarkingHolds DEF IInv
<1>4. DOMAIN roots = 1 .. Len(roots) /\ Len(roots) \in Nat /\ cursor \in DOMAIN roots
  BY <1>1, <1>3
<1>5. r \in Held /\ r \in DOMAIN heap /\ r \in Reach(heap, Held)
  BY <1>1, <1>3, <1>4, HeldIsReachable DEF Marking, RootsAreHeld
<1> HIDE DEF r
<1>6. <<>> \in Seq(Activation) /\ DOMAIN <<>> = {}
  OBVIOUS
<1>7. \A b \in marked : \A i \in RefSlots(heap[b]) :
          heap[b].members[i] \in marked \cup {CHAI_NULL, r}
  BY <1>1, <1>3, <1>6 DEF Marking, MarkedOrPending, Pending
<1>8. /\ stack' \in Seq(Activation) /\ marked' \subseteq DOMAIN heap
      /\ MarkedIsReachable' /\ ActivationsMarked' /\ MarkedOrPending'
      /\ StackIsPath'
  BY <1>1, <1>5, <1>6, <1>7, Entered
<1>9. TypeOK'
  BY <1>1, <1>2, <1>3, <1>8 DEF TypeOK, mutator
<1>10. RootsAreHeld'
  BY <1>1, <1>3 DEF Marking, RootsAreHeld, mutator, Held
<1>11. RootsMarked'
  <2>1. \A n \in DOMAIN roots : n < cursor + 1 => n < cursor \/ n = cursor
    BY <1>3, <1>4
  <2> QED BY <1>1, <1>2, <1>3, <2>1 DEF Marking, RootsMarked, r
<1>12. Rooting' /\ CursorStarts'
  BY <1>1, <1>2, <1>3 DEF Rooting, CursorStarts
<1> QED BY <1>1, <1>2, <1>8, <1>9, <1>10, <1>11, <1>12, MemoryKeeps, MarkingBegins
     DEF IInv, Marking

LEMMA ReachIsFinite ==
    ASSUME IInv, phase = "mark"
    PROVE  Reach(heap, Held) \subseteq DOMAIN heap /\ IsFiniteSet(Reach(heap, Held))
<1>1. /\ Held \subseteq DOMAIN heap /\ DOMAIN heap \subseteq Addr
      /\ \A a \in DOMAIN heap : Children(heap[a]) \subseteq DOMAIN heap
  BY MarkingHolds
<1>2. Closed(heap, DOMAIN heap)
  BY <1>1 DEF Closed
<1>3. Reach(heap, Held) \subseteq DOMAIN heap
  BY <1>1, <1>2, ReachLeast
<1>4. IsFiniteSet(DOMAIN heap)
  BY FiniteHeap DEF IInv, Trace
<1> QED BY <1>3, <1>4, FS_Subset

(* A full native stack is a chain of as many objects and one more.         *)
LEMMA Overflows ==
    ASSUME IInv, phase = "mark", stack # <<>>, Len(stack) = MaxNative,
           NEW c \in Children(heap[Top.obj])
    PROVE  HasCycle(heap, Held) \/ Cardinality(Reach(heap, Held)) > MaxNative
<1> DEFINE n == Len(stack)
           p == [k \in 1 .. n + 1 |-> IF k <= n THEN stack[k].obj ELSE c]
<1>1. /\ n \in Nat /\ n >= 1 /\ DOMAIN stack = 1 .. n /\ DOMAIN heap \subseteq Addr
      /\ marked \subseteq DOMAIN heap
      /\ \A a \in DOMAIN heap : Children(heap[a]) \subseteq DOMAIN heap
  BY MarkingHolds
<1>2. \A k \in 1 .. n : stack[k].obj \in marked /\ stack[k].obj \in Reach(heap, Held)
  BY <1>1 DEF IInv, Marking, ActivationsMarked, MarkedIsReachable
<1>3. c \in DOMAIN heap /\ c \in Reach(heap, Held) /\ c \in Children(heap[stack[n].obj])
  <2>1. stack[n].obj \in DOMAIN heap /\ stack[n].obj \in Reach(heap, Held)
    BY <1>1, <1>2
  <2>2. c \in Children(heap[stack[n].obj])
    BY DEF Top
  <2> QED BY <1>1, <2>1, <2>2, ReachSteps
<1>4. \A k \in 1 .. n : k + 1 <= n => stack[k + 1].obj \in Children(heap[stack[k].obj])
  BY <1>1 DEF IInv, Marking, StackIsPath
<1>5. n + 1 \in Nat /\ \A k \in 1 .. n + 1 : k \in 1 .. n \/ k = n + 1
  BY <1>1
<1>6. p \in [1 .. n + 1 -> DOMAIN heap] /\ \A k \in 1 .. n + 1 : p[k] \in Reach(heap, Held)
  BY <1>1, <1>2, <1>3, <1>5
<1>7. \A k \in 1 .. n + 1 : k + 1 <= n + 1 => p[k + 1] \in Children(heap[p[k]])
  <2> SUFFICES ASSUME NEW k \in 1 .. n + 1, k + 1 <= n + 1
               PROVE  p[k + 1] \in Children(heap[p[k]])
    OBVIOUS
  <2> k \in 1 .. n
    BY <1>1
  <2>1. p[k] = stack[k].obj /\ p[k + 1] = IF k = n THEN c ELSE stack[k + 1].obj
    BY <1>1
  <2> QED BY <1>1, <1>3, <1>4, <2>1
<1> HIDE DEF p, n
<1>8. HasCycle(heap, Held) \/ n + 1 <= Cardinality(Reach(heap, Held))
  BY <1>1, <1>5, <1>6, <1>7, ReachIsFinite, LongPath
<1>9. Cardinality(Reach(heap, Held)) \in Nat
  BY ReachIsFinite, FS_CardinalityType
<1> QED BY <1>1, <1>8, <1>9 DEF n

(* One loop iteration of the activation on top is done.                    *)
LEMMA VisitedIs ==
    ASSUME NEW st \in Seq(Activation), st # <<>>, NEW i,
           NEW new, new = [st EXCEPT ![Len(st)].todo = @ \ {i}]
    PROVE  /\ new \in Seq(Activation) /\ Len(new) = Len(st)
           /\ DOMAIN new = DOMAIN st /\ new # <<>>
           /\ \A k \in DOMAIN st :
                 /\ new[k].obj = st[k].obj
                 /\ new[k].todo = IF k = Len(st) THEN st[k].todo \ {i} ELSE st[k].todo
<1> DEFINE n == Len(st)
           act == [st[n] EXCEPT !.todo = @ \ {i}]
<1>1. n \in Nat /\ n >= 1 /\ DOMAIN st = 1 .. n /\ \A k \in 1 .. n : st[k] \in Activation
  OBVIOUS
<1>2. act \in Activation /\ act.obj = st[n].obj /\ act.todo = st[n].todo \ {i}
  BY <1>1 DEF Activation
<1>3. new = [st EXCEPT ![n] = act]
  OBVIOUS
<1> HIDE DEF act
<1>4. /\ [st EXCEPT ![n] = act] \in Seq(Activation)
      /\ Len([st EXCEPT ![n] = act]) = n
      /\ \A k \in 1 .. n : [st EXCEPT ![n] = act][k] = IF k = n THEN act ELSE st[k]
  BY <1>1, <1>2, ExceptSeq
<1> HIDE DEF n
<1>5. /\ new \in Seq(Activation) /\ Len(new) = n
      /\ \A k \in 1 .. n : new[k] = IF k = n THEN act ELSE st[k]
  BY <1>3, <1>4
<1>6. DOMAIN new = 1 .. n /\ new # <<>>
  BY <1>1, <1>5
<1> QED BY <1>1, <1>2, <1>5, <1>6 DEF n

LEMMA MinIsElement ==
    ASSUME NEW S \in SUBSET Nat, S # {}
    PROVE  Min(S) \in S
BY LeastNatural DEF Min

LEMMA MarkMemberKeeps ==
    ASSUME IInv, MarkMember
    PROVE  IInv'
<1> DEFINE i == Min(Top.todo)
           child == heap[Top.obj].members[i]
           n == Len(stack)
<1>1. /\ phase = "mark" /\ stack # <<>> /\ Top.todo # {}
      /\ UNCHANGED <<mutator, roots, cursor>>
      /\ \/ /\ child = CHAI_NULL
            /\ stack' = Visited(i) /\ UNCHANGED <<marked, phase>>
         \/ child # CHAI_NULL /\ IsArray(heap[child]) /\ Die("aborted")
         \/ child # CHAI_NULL /\ Len(stack) = MaxNative /\ Die("overflowed")
         \/ child # CHAI_NULL /\ Enter(child, Visited(i))
  BY DEF MarkMember
<1>2. /\ Held \subseteq DOMAIN heap /\ marked \subseteq DOMAIN heap
      /\ \A a \in DOMAIN heap : Children(heap[a]) \subseteq DOMAIN heap
      /\ DOMAIN heap \subseteq Addr
      /\ stack \in Seq(Activation) /\ Len(stack) \in Nat /\ DOMAIN stack = 1 .. Len(stack)
      /\ roots \in Seq(Addr) /\ cursor \in Nat /\ cursor >= 1
  BY <1>1, MarkingHolds
<1>3. TypeOK /\ Marking
  BY DEF IInv
<1>4. n \in DOMAIN stack /\ Top = stack[n] /\ Top \in Activation
  BY <1>1, <1>2 DEF Top
<1>5. /\ Top.obj \in marked /\ Top.obj \in DOMAIN heap /\ Top.obj \in Reach(heap, Held)
      /\ Top.todo \subseteq RefSlots(heap[Top.obj])
  BY <1>1, <1>2, <1>3, <1>4 DEF Marking, ActivationsMarked, MarkedIsReachable
<1>6. i \in Top.todo
  BY <1>1, <1>4, MinIsElement DEF Activation
<1>7. child # CHAI_NULL => child \in Children(heap[Top.obj]) /\ child \in DOMAIN heap
                           /\ child \in Reach(heap, Held)
  BY <1>2, <1>5, <1>6, ChildIs, ReachSteps
<1> DEFINE st == Visited(i)
<1>8. /\ st \in Seq(Activation) /\ Len(st) = n /\ DOMAIN st = DOMAIN stack /\ st # <<>>
      /\ \A k \in DOMAIN stack :
            /\ st[k].obj = stack[k].obj
            /\ st[k].todo = IF k = n THEN stack[k].todo \ {i} ELSE stack[k].todo
  <2> HIDE DEF i
  <2>1. \A new : new = [stack EXCEPT ![Len(stack)].todo = @ \ {i}] =>
          /\ new \in Seq(Activation) /\ Len(new) = Len(stack)
          /\ DOMAIN new = DOMAIN stack /\ new # <<>>
          /\ \A k \in DOMAIN stack :
                /\ new[k].obj = stack[k].obj
                /\ new[k].todo = IF k = Len(stack) THEN stack[k].todo \ {i}
                                                 ELSE stack[k].todo
    BY <1>1, <1>2, VisitedIs
  <2>2. st = [stack EXCEPT ![Len(stack)].todo = @ \ {i}]
    BY DEF Visited
  <2> QED BY <2>1, <2>2
<1> HIDE DEF st, i, n
<1>9. \A k \in DOMAIN st :
          /\ st[k].obj \in marked
          /\ st[k].todo \subseteq RefSlots(heap[st[k].obj])
  BY <1>1, <1>3, <1>8 DEF Marking, ActivationsMarked
<1>10. \A b \in marked : \A j \in RefSlots(heap[b]) :
           \/ heap[b].members[j] \in marked \cup {CHAI_NULL, child}
           \/ \E k \in DOMAIN st : st[k].obj = b /\ j \in st[k].todo
  <2> SUFFICES ASSUME NEW b \in marked, NEW j \in RefSlots(heap[b]),
                      heap[b].members[j] \notin marked \cup {CHAI_NULL, child}
               PROVE  \E k \in DOMAIN st : st[k].obj = b /\ j \in st[k].todo
    OBVIOUS
  <2>1. PICK k \in DOMAIN stack : stack[k].obj = b /\ j \in stack[k].todo
    BY <1>1, <1>3 DEF Marking, MarkedOrPending, Pending
  <2>2. ~(k = n /\ j = i)
    BY <1>4, <2>1
  <2> QED BY <1>8, <2>1, <2>2
<1>11. \A k \in DOMAIN st : k + 1 \in DOMAIN st =>
           st[k + 1].obj \in Children(heap[st[k].obj])
  BY <1>1, <1>3, <1>8 DEF Marking, StackIsPath
<1>12. st[Len(st)].obj = Top.obj
  BY <1>4, <1>8
<1>13. /\ phase' # "program" /\ phase' # "roots" /\ phase' # "sweep" /\ phase' # "erase"
       /\ phase' \in Phase
       /\ UNCHANGED <<mutator, roots, cursor>> /\ Held' = Held
  BY <1>1 DEF Die, Enter, Held, mutator, Phase
<1>14. /\ phase' = "mark" => /\ stack' \in Seq(Activation) /\ marked' \subseteq DOMAIN heap
                             /\ MarkedIsReachable' /\ ActivationsMarked'
                             /\ MarkedOrPending' /\ StackIsPath' /\ marked \subseteq marked'
       /\ phase' # "mark" => UNCHANGED <<stack, marked>>
       /\ DiesOnlyOnBadShapes'
  <2>1. CASE child = CHAI_NULL /\ stack' = st /\ UNCHANGED <<marked, phase>>
    <3>1. heap' = heap /\ phase' = "mark"
      BY <1>1, <2>1 DEF mutator
    <3>2. MarkedIsReachable' /\ ActivationsMarked' /\ MarkedOrPending' /\ StackIsPath'
      BY <1>3, <1>8, <1>9, <1>10, <1>11, <1>13, <2>1, <3>1
         DEF Marking, MarkedIsReachable, ActivationsMarked, MarkedOrPending, Pending,
             StackIsPath
    <3> QED BY <1>2, <1>8, <2>1, <3>1, <3>2, MarkingBegins
  <2>2. CASE child # CHAI_NULL /\ IsArray(heap[child]) /\ Die("aborted")
    <3>1. HasNestedArray(heap, Held)
      BY <1>5, <1>7, <2>2 DEF HasNestedArray
    <3> QED BY <1>13, <2>2, <3>1 DEF Die, DiesOnlyOnBadShapes, mutator
  <2>3. CASE child # CHAI_NULL /\ Len(stack) = MaxNative /\ Die("overflowed")
    <3>1. HasCycle(heap, Held) \/ Cardinality(Reach(heap, Held)) > MaxNative
      BY <1>1, <1>7, <2>3, Overflows
    <3> QED BY <1>13, <2>3, <3>1 DEF Die, DiesOnlyOnBadShapes, mutator
  <2>4. CASE child # CHAI_NULL /\ Enter(child, st)
    <3>1. phase' = "mark" /\ marked \subseteq marked'
      BY <1>1, <2>4 DEF Enter
    <3>2. child \in DOMAIN heap /\ child \in Reach(heap, Held)
          /\ child \in Children(heap[st[Len(st)].obj])
      BY <1>7, <1>12, <2>4
    <3> HIDE DEF child
    <3>3. /\ stack' \in Seq(Activation) /\ marked' \subseteq DOMAIN heap
          /\ MarkedIsReachable' /\ ActivationsMarked' /\ MarkedOrPending'
          /\ StackIsPath'
      BY <1>1, <1>8, <1>9, <1>10, <1>11, <2>4, <3>2, Entered
    <3> QED BY <3>1, <3>3, MarkingBegins
  <2> QED BY <1>1, <2>1, <2>2, <2>3, <2>4 DEF st
<1>15. TypeOK'
  <2>1. stack' \in Seq(Activation) /\ marked' \subseteq DOMAIN heap
    BY <1>2, <1>14
  <2> QED BY <1>3, <1>13, <2>1 DEF TypeOK, mutator
<1>16. RootsAreHeld' /\ RootsMarked'
  BY <1>1, <1>3, <1>13, <1>14 DEF Marking, RootsAreHeld, RootsMarked
<1>17. Rooting' /\ CursorStarts'
  BY <1>2, <1>13 DEF Rooting, CursorStarts
<1>18. Marking'
  BY <1>14, <1>16 DEF Marking, MarkedIsReachable, ActivationsMarked, MarkedOrPending,
     StackIsPath
<1> QED BY <1>1, <1>13, <1>14, <1>15, <1>17, <1>18, MemoryKeeps DEF IInv


LEMMA ReturnKeeps ==
    ASSUME IInv, Return
    PROVE  IInv'
<1> DEFINE n == Len(stack)
<1>1. /\ phase = "mark" /\ phase' = "mark" /\ stack # <<>> /\ Top.todo = {}
      /\ stack' = Front(stack)
      /\ UNCHANGED <<mutator, marked, roots, cursor>>
  BY DEF Return
<1>2. /\ TypeOK /\ Marking /\ n \in Nat /\ n >= 1 /\ DOMAIN stack = 1 .. n
      /\ stack \in Seq(Activation) /\ roots \in Seq(Addr) /\ cursor \in Nat /\ cursor >= 1
      /\ \A k \in 1 .. n : stack[k] \in Activation
  BY <1>1, MarkingHolds DEF IInv
<1>3. stack[n].todo = {}
  BY <1>1 DEF Top
<1>4. /\ stack' \in Seq(Activation) /\ DOMAIN stack' = 1 .. n - 1
      /\ \A k \in 1 .. n - 1 : stack'[k] = stack[k]
  <2> HIDE DEF n
  <2>1. /\ SubSeq(stack, 1, n - 1) \in Seq(Activation)
        /\ Len(SubSeq(stack, 1, n - 1)) = IF 1 <= n - 1 THEN n - 1 - 1 + 1 ELSE 0
        /\ \A k \in 1 .. n - 1 - 1 + 1 : SubSeq(stack, 1, n - 1)[k] = stack[1 + k - 1]
    BY <1>2, SubSeqProperties
  <2>2. stack' = SubSeq(stack, 1, n - 1)
    BY <1>1 DEF Front, n
  <2>3. stack' \in Seq(Activation) /\ Len(stack') = n - 1
    BY <1>2, <2>1, <2>2
  <2>4. \A k \in 1 .. n - 1 : 1 + k - 1 = k /\ k \in 1 .. n - 1 - 1 + 1
    BY <1>2
  <2> QED BY <2>1, <2>2, <2>3, <2>4
<1> HIDE DEF n
<1>5. TypeOK'
  BY <1>1, <1>2, <1>4 DEF TypeOK, mutator
<1>6. heap' = heap /\ Held' = Held
  BY <1>1 DEF mutator, Held
<1>7. RootsAreHeld' /\ RootsMarked' /\ MarkedIsReachable'
  BY <1>1, <1>2, <1>6 DEF Marking, RootsAreHeld, RootsMarked, MarkedIsReachable
<1>8. ActivationsMarked' /\ StackIsPath'
  <2>1. DOMAIN stack' \subseteq DOMAIN stack
    BY <1>2, <1>4
  <2>2. ActivationsMarked'
    BY <1>1, <1>2, <1>4, <1>6, <2>1 DEF Marking, ActivationsMarked
  <2>3. StackIsPath'
    BY <1>1, <1>2, <1>4, <1>6, <2>1 DEF Marking, StackIsPath
  <2> QED BY <2>2, <2>3
<1>9. MarkedOrPending'
  <2>1. ASSUME NEW a, NEW i, Pending(a, i) PROVE Pending(a, i)'
    <3>1. PICK k \in DOMAIN stack : stack[k].obj = a /\ i \in stack[k].todo
      BY <2>1 DEF Pending
    <3>2. k \in 1 .. n - 1
      BY <1>2, <1>3, <3>1
    <3> QED BY <1>4, <3>1, <3>2 DEF Pending
  <2> QED BY <1>1, <1>2, <1>6, <2>1 DEF Marking, MarkedOrPending
<1>10. Rooting' /\ CursorStarts'
  BY <1>1, <1>2 DEF Rooting, CursorStarts
<1> QED BY <1>1, <1>5, <1>7, <1>8, <1>9, <1>10, MemoryKeeps, MarkingBegins
     DEF IInv, Marking

(* No activation is left and every root is marked: what is marked is       *)
(* closed, so it is all that can be reached.                               *)
LEMMA EndMarkKeeps ==
    ASSUME IInv, EndMark
    PROVE  IInv'
<1>1. /\ phase = "mark" /\ phase' = "sweep" /\ stack = <<>> /\ cursor > Len(roots)
      /\ cursor' = 1
      /\ UNCHANGED <<mutator, marked, roots, stack>>
  BY DEF EndMark
<1>2. /\ TypeOK /\ Marking /\ Trace /\ Shaped
      /\ marked \subseteq DOMAIN heap /\ DOMAIN heap \subseteq Addr
      /\ roots \in Seq(Addr) /\ cursor \in Nat
  BY <1>1, MarkingHolds DEF IInv
<1>3. heap' = heap /\ Held' = Held /\ allocations' = allocations /\ allocated' = allocated
      /\ marked' = marked /\ stack' = <<>> /\ slots' = slots
  BY <1>1 DEF mutator, Held
<1>4. TypeOK'
  BY <1>1, <1>2, <1>3 DEF TypeOK, Phase
<1>5. \A n \in DOMAIN allocations : ~allocations[n].isFree
  BY <1>1, <1>2 DEF Trace, FreesBehind
<1>6. Trace'
  BY <1>2, <1>3, <1>5
     DEF Trace, PtrsDistinct, InUseTraced, TracedInUse, FreesBehind, SizesAddUp, Names
<1>7. Shaped'
  BY <1>2, <1>3 DEF Shaped
<1>8. Kept' = marked
  BY <1>1, <1>3 DEF Kept
<1>9. Held \subseteq marked
  <2>1. \A n \in DOMAIN roots : n < cursor
    BY <1>1, <1>2
  <2> QED BY <1>1, <1>2, <2>1 DEF Marking, RootsAreHeld, RootsMarked
<1>10. \A a \in marked : Children(heap[a]) \subseteq marked
  <2> SUFFICES ASSUME NEW a \in marked, NEW c \in Children(heap[a]) PROVE c \in marked
    OBVIOUS
  <2>1. PICK i \in RefSlots(heap[a]) : c = heap[a].members[i] /\ c # CHAI_NULL
    BY DEF Children
  <2>2. ~Pending(a, i)
    BY <1>1 DEF Pending
  <2> QED BY <1>1, <1>2, <2>1, <2>2 DEF Marking, MarkedOrPending
<1>11. KeptIsClosed' /\ KeptIsReachable'
  BY <1>1, <1>2, <1>3, <1>8, <1>9, <1>10
     DEF KeptIsClosed, KeptIsReachable, Marking, MarkedIsReachable
<1>12. Sweeping'
  <2> SUFFICES ASSUME NEW a \in marked
               PROVE  \E n \in DOMAIN allocations : n >= 1 /\ Names(a, n)
    BY <1>1, <1>3 DEF Sweeping, Names
  <2>1. PICK n \in DOMAIN allocations : Names(a, n)
    BY <1>2 DEF Trace, InUseTraced
  <2>2. DOMAIN allocations = 1 .. Len(allocations)
    BY <1>2 DEF TypeOK
  <2> QED BY <2>1, <2>2
<1>13. Idle' /\ Rooting' /\ Marking' /\ Erasing' /\ CursorStarts' /\ DiesOnlyOnBadShapes'
  BY <1>1 DEF Idle, Rooting, Marking, RootsAreHeld, RootsMarked, MarkedIsReachable,
     ActivationsMarked, MarkedOrPending, StackIsPath, Erasing, CursorStarts,
     DiesOnlyOnBadShapes
<1> QED BY <1>4, <1>6, <1>7, <1>11, <1>12, <1>13 DEF IInv

-----------------------------------------------------------------------------
(* Sweeping.                                                               *)
LEMMA SweepingHolds ==
    ASSUME IInv, phase = "sweep"
    PROVE  /\ Kept \subseteq DOMAIN heap /\ DOMAIN heap \subseteq Addr
           /\ Held \subseteq Kept /\ \A a \in Kept : Children(heap[a]) \subseteq Kept
           /\ Kept \subseteq Reach(heap, Held)
           /\ \A a : a \in Kept <=>
                  a \in marked \/ (a \in DOMAIN heap /\ \E n \in 1 .. cursor - 1 : Names(a, n))
           /\ allocations \in Seq([ptr : Addr, isFree : BOOLEAN])
           /\ Len(allocations) \in Nat /\ DOMAIN allocations = 1 .. Len(allocations)
           /\ cursor \in Nat /\ cursor >= 1
BY HeapType DEF IInv, KeptIsClosed, KeptIsReachable, Kept, TypeOK, CursorStarts

(* Nothing else is said of the program, of its references and of marking.  *)
LEMMA SweepKeeps ==
    ASSUME phase' \in {"sweep", "erase"}, TypeOK', Trace', Shaped', KeptIsClosed',
           KeptIsReachable', Sweeping', Erasing', cursor' >= 1
    PROVE  IInv'
<1>1. Idle' /\ Rooting' /\ Marking' /\ CursorStarts' /\ DiesOnlyOnBadShapes'
  BY DEF Idle, Rooting, Marking, RootsAreHeld, RootsMarked, MarkedIsReachable,
     ActivationsMarked, MarkedOrPending, StackIsPath, CursorStarts, DiesOnlyOnBadShapes
<1> QED BY <1>1 DEF IInv

LEMMA UnmarkKeeps ==
    ASSUME IInv, SweepNext, Unmark(allocations[cursor].ptr)
    PROVE  IInv'
<1> DEFINE a == allocations[cursor].ptr
<1>1. /\ phase = "sweep" /\ phase' = "sweep" /\ cursor <= Len(allocations)
      /\ a \in marked /\ marked' = marked \ {a} /\ cursor' = cursor + 1
      /\ UNCHANGED <<slots, heap, allocations, allocated, roots, stack>>
  BY DEF SweepNext, Unmark
<1>2. /\ Kept \subseteq DOMAIN heap /\ DOMAIN heap \subseteq Addr
      /\ Held \subseteq Kept /\ \A b \in Kept : Children(heap[b]) \subseteq Kept
      /\ Kept \subseteq Reach(heap, Held)
      /\ \A b : b \in Kept <=>
             b \in marked \/ (b \in DOMAIN heap /\ \E n \in 1 .. cursor - 1 : Names(b, n))
      /\ Len(allocations) \in Nat /\ DOMAIN allocations = 1 .. Len(allocations)
      /\ cursor \in Nat /\ cursor >= 1
  BY <1>1, SweepingHolds
<1>3. TypeOK /\ Trace /\ Shaped /\ Sweeping /\ cursor \in DOMAIN allocations /\ Names(a, cursor)
  BY <1>1, <1>2 DEF IInv, Names
<1> HIDE DEF a
<1>4. TypeOK'
  BY <1>1, <1>2, <1>3 DEF TypeOK
<1>5. Held' = Held /\ \A b, n : Names(b, n)' <=> Names(b, n)
  BY <1>1 DEF Held, Names
<1>6. Trace'
  <2>1. FreesBehind'
    BY <1>1, <1>2, <1>3 DEF Trace, FreesBehind
  <2> QED
    BY <1>1, <1>3, <1>5, <2>1 DEF Trace, PtrsDistinct, InUseTraced, TracedInUse, SizesAddUp
<1>7. Shaped'
  BY <1>1, <1>3 DEF Shaped
<1>8. a \in DOMAIN heap
  BY <1>1, <1>3 DEF TypeOK
<1>9. Kept' = Kept
  <2>1. Kept' = (marked \ {a}) \cup {b \in DOMAIN heap : \E n \in 1 .. cursor : Names(b, n)}
    <3>1. Kept' = marked' \cup {b \in DOMAIN heap' : \E n \in 1 .. cursor' - 1 : Names(b, n)'}
      BY <1>1 DEF Kept
    <3>2. cursor' - 1 = cursor
      BY <1>1, <1>2
    <3> QED BY <1>1, <1>5, <3>1, <3>2
  <2>2. \A n \in 1 .. cursor : n \in 1 .. cursor - 1 \/ n = cursor
    BY <1>2
  <2>3. \A n \in 1 .. cursor - 1 : n \in 1 .. cursor
    BY <1>2
  <2>4. \A b : Names(b, cursor) => b = a
    BY <1>3 DEF Names
  <2>5. cursor \in 1 .. cursor
    BY <1>2
  <2>6. ASSUME NEW b \in Kept PROVE b \in Kept'
    BY <1>2, <1>3, <1>8, <2>1, <2>3, <2>5, <2>6
  <2>7. ASSUME NEW b \in Kept' PROVE b \in Kept
    BY <1>1, <1>2, <2>1, <2>2, <2>4, <2>7
  <2> QED BY <2>6, <2>7
<1>10. KeptIsClosed' /\ KeptIsReachable'
  BY <1>1, <1>2, <1>5, <1>9 DEF KeptIsClosed, KeptIsReachable
<1>11. Sweeping'
  <2>1. ASSUME NEW b \in marked \ {a}
        PROVE  \E n \in DOMAIN allocations : n >= cursor + 1 /\ Names(b, n)
    <3>1. PICK n \in DOMAIN allocations : n >= cursor /\ Names(b, n)
      BY <1>1, <1>3 DEF Sweeping
    <3>2. n # cursor
      BY <1>3, <3>1 DEF Names
    <3> QED BY <1>2, <3>1, <3>2
  <2> QED BY <1>1, <1>3, <1>5, <2>1 DEF Sweeping
<1>12. Erasing' /\ phase' \in {"sweep", "erase"} /\ cursor' >= 1
  BY <1>1, <1>2 DEF Erasing
<1> QED BY <1>4, <1>6, <1>7, <1>10, <1>11, <1>12, SweepKeeps

(* The trace al once entry i is marked free.                               *)
Freed(al, i) == [al EXCEPT ![i].isFree = TRUE]

LEMMA FreedIs ==
    ASSUME NEW al \in Seq([ptr : Addr, isFree : BOOLEAN]), NEW i \in 1 .. Len(al)
    PROVE  /\ Freed(al, i) \in Seq([ptr : Addr, isFree : BOOLEAN])
           /\ Len(Freed(al, i)) = Len(al)
           /\ \A n \in 1 .. Len(al) :
                 /\ Freed(al, i)[n].ptr = al[n].ptr
                 /\ Freed(al, i)[n].isFree <=> n = i \/ al[n].isFree
<1> DEFINE Entry == [ptr : Addr, isFree : BOOLEAN]
           e == [al[i] EXCEPT !.isFree = TRUE]
<1>1. al[i] \in Entry
  <2>1. al \in Seq(Entry)
    OBVIOUS
  <2> HIDE DEF Entry
  <2> QED BY <2>1
<1>2. e \in Entry /\ e.ptr = al[i].ptr /\ e.isFree = TRUE
  BY <1>1, Zenon
<1>3. Freed(al, i) = [al EXCEPT ![i] = e]
  BY Zenon DEF Freed
<1> HIDE DEF e, Entry
<1>4. /\ [al EXCEPT ![i] = e] \in Seq(Entry)
      /\ Len([al EXCEPT ![i] = e]) = Len(al)
      /\ \A n \in 1 .. Len(al) : [al EXCEPT ![i] = e][n] = IF n = i THEN e ELSE al[n]
  BY <1>2, ExceptSeq DEF Entry
<1>5. ASSUME NEW n \in 1 .. Len(al)
      PROVE  /\ Freed(al, i)[n].ptr = al[n].ptr
             /\ Freed(al, i)[n].isFree <=> n = i \/ al[n].isFree
  BY <1>2, <1>3, <1>4, Zenon
<1> QED BY <1>3, <1>4, <1>5 DEF Entry

(* A block that is not marked when sweep() comes to it is not kept.        *)
LEMMA FreedIsDead ==
    ASSUME IInv, phase = "sweep", cursor <= Len(allocations),
           NEW a, a = allocations[cursor].ptr, a \notin marked
    PROVE  /\ ~allocations[cursor].isFree /\ a \in DOMAIN heap /\ a \notin Kept
           /\ \A n \in 1 .. Len(allocations) : allocations[n].ptr = a => n = cursor
<1>1. /\ \A b : b \in Kept <=>
             b \in marked \/ (b \in DOMAIN heap /\ \E n \in 1 .. cursor - 1 : Names(b, n))
      /\ Len(allocations) \in Nat /\ DOMAIN allocations = 1 .. Len(allocations)
      /\ cursor \in 1 .. Len(allocations)
  BY SweepingHolds
<1>2. Trace
  BY DEF IInv
<1>3. ~allocations[cursor].isFree /\ a \in DOMAIN heap
  BY <1>1, <1>2 DEF Trace, FreesBehind, TracedInUse
<1>4. \A n \in 1 .. Len(allocations) : allocations[n].ptr = a => n = cursor
  BY <1>1, <1>2 DEF Trace, PtrsDistinct
<1>5. a \notin Kept
  <2> SUFFICES ASSUME NEW n \in 1 .. cursor - 1, Names(a, n) PROVE FALSE
    BY <1>1
  <2> QED BY <1>1, <1>4 DEF Names
<1> QED BY <1>3, <1>4, <1>5

LEMMA DeallocateKeeps ==
    ASSUME IInv, SweepNext, Deallocate(allocations[cursor].ptr)
    PROVE  IInv'
<1> DEFINE a == allocations[cursor].ptr
<1>1. /\ phase = "sweep" /\ phase' = "sweep" /\ cursor <= Len(allocations)
      /\ a \notin marked /\ cursor' = cursor + 1
      /\ heap' = [b \in DOMAIN heap \ {a} |-> heap[b]]
      /\ allocated' = allocated - Words(heap[a])
      /\ allocations' = [allocations EXCEPT ![cursor].isFree = TRUE]
      /\ UNCHANGED <<slots, marked, roots, stack>>
  BY DEF SweepNext, Deallocate, Restrict
<1>2. /\ Kept \subseteq DOMAIN heap /\ DOMAIN heap \subseteq Addr
      /\ Held \subseteq Kept /\ \A b \in Kept : Children(heap[b]) \subseteq Kept
      /\ Kept \subseteq Reach(heap, Held)
      /\ \A b : b \in Kept <=>
             b \in marked \/ (b \in DOMAIN heap /\ \E n \in 1 .. cursor - 1 : Names(b, n))
      /\ allocations \in Seq([ptr : Addr, isFree : BOOLEAN])
      /\ Len(allocations) \in Nat /\ DOMAIN allocations = 1 .. Len(allocations)
      /\ cursor \in Nat /\ cursor >= 1
  BY <1>1, SweepingHolds
<1>3. TypeOK /\ Trace /\ Shaped /\ Sweeping /\ cursor \in 1 .. Len(allocations)
  BY <1>1, <1>2 DEF IInv
<1>4. /\ allocations' \in Seq([ptr : Addr, isFree : BOOLEAN])
      /\ Len(allocations') = Len(allocations)
      /\ \A n \in 1 .. Len(allocations) :
            /\ allocations'[n].ptr = allocations[n].ptr
            /\ allocations'[n].isFree <=> n = cursor \/ allocations[n].isFree
  <2>1. allocations' = Freed(allocations, cursor)
    BY <1>1 DEF Freed
  <2> QED BY <1>2, <1>3, <2>1, FreedIs
<1>5. DOMAIN allocations' = DOMAIN allocations
  BY <1>2, <1>4
<1>6. ~allocations[cursor].isFree /\ a \in DOMAIN heap
  BY <1>1, FreedIsDead
<1>7. \A n \in 1 .. Len(allocations) : allocations[n].ptr = a => n = cursor
  BY <1>1, FreedIsDead
<1>8. a \notin Kept
  BY <1>1, FreedIsDead
<1>9. a = allocations[cursor].ptr
  OBVIOUS
<1> HIDE DEF a
<1>10. DOMAIN heap' = DOMAIN heap \ {a} /\ \A b \in DOMAIN heap' : heap'[b] = heap[b]
  BY <1>1
<1>11. Held' = Held /\ \A b, n : Names(b, n)' <=> Names(b, n)
  BY <1>1, <1>2, <1>4, <1>5 DEF Held, Names
<1>12. IsFiniteSet(DOMAIN heap) /\ \A b \in DOMAIN heap : heap[b] \in Object
  BY <1>3, FiniteHeap, HeapType DEF Trace
<1>13. SizesAddUp'
  <2>1. \A g : g = [b \in DOMAIN heap \ {a} |-> heap[b]] =>
            TotalWords(g, DOMAIN g) = TotalWords(heap, DOMAIN heap) - Words(heap[a])
    BY <1>6, <1>12, HeapShrinks
  <2>2. TotalWords(heap', DOMAIN heap') = TotalWords(heap, DOMAIN heap) - Words(heap[a])
    BY <1>1, <2>1
  <2> QED BY <1>1, <1>3, <2>2 DEF Trace, SizesAddUp
<1>14. TypeOK'
  <2>1. DOMAIN heap' \in SUBSET Addr /\ heap' \in [DOMAIN heap' -> Object]
    BY <1>1, <1>2, <1>10, <1>12
  <2>2. allocated' \in Nat
    <3>1. IsFiniteSet(DOMAIN heap')
      BY <1>10, <1>12, FS_RemoveElement
    <3>2. TotalWords(heap', DOMAIN heap') \in Nat
      BY <2>1, <3>1, TotalWordsType
    <3> QED BY <1>13, <3>2 DEF SizesAddUp
  <2>3. marked' \subseteq DOMAIN heap'
    BY <1>1, <1>3, <1>10 DEF TypeOK
  <2>4. /\ slots' \in [Slot -> Ref] /\ roots' \in Seq(Addr) /\ stack' \in Seq(Activation)
        /\ cursor' \in Nat /\ phase' \in Phase
    BY <1>1, <1>2, <1>3 DEF TypeOK, Phase
  <2>5. \E A \in SUBSET Addr : heap' \in [A -> Object]
    BY <2>1
  <2> QED BY <1>4, <2>2, <2>3, <2>4, <2>5 DEF TypeOK
<1>15. Trace'
  <2>1. PtrsDistinct'
    BY <1>2, <1>3, <1>4, <1>5 DEF Trace, PtrsDistinct
  <2>2. InUseTraced'
    <3> SUFFICES ASSUME NEW b \in DOMAIN heap'
                 PROVE  \E n \in DOMAIN allocations' : Names(b, n)' /\ ~allocations'[n].isFree
      BY DEF InUseTraced
    <3>1. b \in DOMAIN heap /\ b # a
      BY <1>10
    <3>2. PICK n \in DOMAIN allocations : Names(b, n) /\ ~allocations[n].isFree
      BY <1>3, <3>1 DEF Trace, InUseTraced
    <3>3. n # cursor
      BY <1>9, <3>1, <3>2 DEF Names
    <3> QED BY <1>2, <1>4, <1>5, <1>11, <3>2, <3>3
  <2>3. TracedInUse'
    <3> SUFFICES ASSUME NEW n \in 1 .. Len(allocations), ~allocations'[n].isFree
                 PROVE  allocations'[n].ptr \in DOMAIN heap'
      BY <1>2, <1>5 DEF TracedInUse
    <3>1. n # cursor /\ ~allocations[n].isFree
      BY <1>4
    <3>2. allocations[n].ptr \in DOMAIN heap /\ allocations[n].ptr # a
      BY <1>2, <1>3, <1>7, <3>1 DEF Trace, TracedInUse
    <3> QED BY <1>4, <1>10, <3>2
  <2>4. FreesBehind'
    <3> SUFFICES ASSUME NEW n \in 1 .. Len(allocations), allocations'[n].isFree
                 PROVE  n < cursor + 1
      BY <1>1, <1>2, <1>5 DEF FreesBehind
    <3>1. n = cursor \/ allocations[n].isFree
      BY <1>4
    <3> QED BY <1>1, <1>2, <1>3, <3>1 DEF Trace, FreesBehind
  <2> QED BY <1>13, <2>1, <2>2, <2>3, <2>4 DEF Trace
<1>16. Shaped'
  BY <1>3, <1>10 DEF Shaped
<1>17. Kept' = Kept
  <2>1. Kept' = marked \cup {b \in DOMAIN heap' : \E n \in 1 .. cursor : Names(b, n)}
    <3>1. Kept' = marked' \cup {b \in DOMAIN heap' : \E n \in 1 .. cursor' - 1 : Names(b, n)'}
      BY <1>1 DEF Kept
    <3>2. cursor' - 1 = cursor
      BY <1>1, <1>2
    <3> QED BY <1>1, <1>11, <3>1, <3>2
  <2>2. \A n \in 1 .. cursor : n \in 1 .. cursor - 1 \/ n = cursor
    BY <1>2
  <2>3. \A n \in 1 .. cursor - 1 : n \in 1 .. cursor
    BY <1>2
  <2>4. \A b : Names(b, cursor) => b = a
    BY <1>9 DEF Names
  <2>5. ASSUME NEW b \in Kept PROVE b \in Kept'
    BY <1>2, <1>8, <1>10, <2>1, <2>3, <2>5
  <2>6. ASSUME NEW b \in Kept' PROVE b \in Kept
    BY <1>2, <1>10, <2>1, <2>2, <2>4, <2>6
  <2> QED BY <2>5, <2>6
<1>18. \A b \in Kept : b \in DOMAIN heap' /\ heap'[b] = heap[b]
  BY <1>2, <1>8, <1>10
<1>19. KeptIsClosed'
  BY <1>2, <1>11, <1>17, <1>18 DEF KeptIsClosed
<1>20. KeptIsReachable'
  <2>1. Kept \in SUBSET Addr /\ Held \cap Addr \subseteq Kept
    BY <1>2
  <2>2. Closed(heap, Kept)
    BY <1>2 DEF Closed
  <2>3. \A b \in Kept \cap DOMAIN heap : b \in DOMAIN heap' /\ heap'[b] = heap[b]
    BY <1>18
  <2>4. Kept \subseteq Reach(heap', Held)
    BY <1>2, <2>1, <2>2, <2>3, ReachAgrees
  <2> QED BY <1>11, <1>17, <2>4 DEF KeptIsReachable
<1>21. Sweeping'
  <2>1. ASSUME NEW b \in marked
        PROVE  \E n \in DOMAIN allocations : n >= cursor + 1 /\ Names(b, n)
    <3>1. PICK n \in DOMAIN allocations : n >= cursor /\ Names(b, n)
      BY <1>1, <1>3 DEF Sweeping
    <3>2. n # cursor
      BY <1>1, <1>9, <3>1 DEF Names
    <3> QED BY <1>2, <3>1, <3>2
  <2> QED BY <1>1, <1>3, <1>5, <1>11, <2>1 DEF Sweeping
<1>22. Erasing' /\ phase' \in {"sweep", "erase"} /\ cursor' >= 1
  BY <1>1, <1>2 DEF Erasing
<1> QED BY <1>14, <1>15, <1>16, <1>19, <1>20, <1>21, <1>22, SweepKeeps


LEMMA EndSweepKeeps ==
    ASSUME IInv, EndSweep
    PROVE  IInv'
<1>1. /\ phase = "sweep" /\ phase' = "erase" /\ cursor > Len(allocations) /\ cursor' = 1
      /\ UNCHANGED <<slots, heap, allocations, allocated, marked, roots, stack>>
  BY DEF EndSweep, mutator
<1>2. /\ TypeOK /\ Trace /\ Shaped /\ Sweeping
      /\ Held \subseteq Kept /\ \A a \in Kept : Children(heap[a]) \subseteq Kept
      /\ Kept \subseteq Reach(heap, Held) /\ Kept \subseteq DOMAIN heap
      /\ \A a : a \in Kept <=>
             a \in marked \/ (a \in DOMAIN heap /\ \E n \in 1 .. cursor - 1 : Names(a, n))
      /\ Len(allocations) \in Nat /\ DOMAIN allocations = 1 .. Len(allocations)
      /\ cursor \in Nat /\ cursor >= 1
  BY <1>1, SweepingHolds DEF IInv
<1>3. marked = {} /\ stack = <<>>
  BY <1>1, <1>2 DEF Sweeping
<1>4. Held' = Held
  BY <1>1 DEF Held
<1>5. Kept' = Kept
  <2>1. Kept' = DOMAIN heap
    BY <1>1 DEF Kept
  <2>2. \A n \in DOMAIN allocations : n \in 1 .. cursor - 1
    BY <1>1, <1>2
  <2>3. DOMAIN heap \subseteq Kept
    BY <1>2, <2>2 DEF Trace, InUseTraced
  <2> QED BY <1>2, <2>1, <2>3
<1>6. TypeOK'
  BY <1>1, <1>2 DEF TypeOK, Phase
<1>7. Trace'
  BY <1>1, <1>2
     DEF Trace, PtrsDistinct, InUseTraced, TracedInUse, FreesBehind, SizesAddUp, Names
<1>8. Shaped' /\ KeptIsClosed' /\ KeptIsReachable'
  BY <1>1, <1>2, <1>4, <1>5 DEF Shaped, KeptIsClosed, KeptIsReachable
<1>9. Sweeping' /\ Erasing'
  BY <1>1, <1>3 DEF Sweeping, Erasing
<1> QED BY <1>1, <1>6, <1>7, <1>8, <1>9, SweepKeeps

-----------------------------------------------------------------------------
(* Erasing.                                                                *)
LEMMA RemoveAtIs ==
    ASSUME NEW S, NEW s \in Seq(S), NEW i \in 1 .. Len(s)
    PROVE  /\ RemoveAt(s, i) \in Seq(S) /\ Len(RemoveAt(s, i)) = Len(s) - 1
           /\ \A n \in 1 .. Len(s) - 1 :
                 RemoveAt(s, i)[n] = IF n < i THEN s[n] ELSE s[n + 1]
<1> DEFINE l == Len(s)
           u == SubSeq(s, 1, i - 1)
           v == SubSeq(s, i + 1, l)
<1>1. l \in Nat /\ i \in 1 .. l /\ \A n \in 1 .. l : s[n] \in S
  OBVIOUS
<1>2. RemoveAt(s, i) = u \o v
  BY DEF RemoveAt
<1>3. /\ u \in Seq(S) /\ Len(u) = i - 1
      /\ \A n \in 1 .. i - 1 : u[n] = s[n]
  <2> HIDE DEF l
  <2>1. 1 \in Int /\ i - 1 \in Int /\ \A n \in 1 .. i - 1 : s[n] \in S
    BY <1>1
  <2>2. /\ u \in Seq(S) /\ Len(u) = IF 1 <= i - 1 THEN i - 1 - 1 + 1 ELSE 0
        /\ \A n \in 1 .. i - 1 - 1 + 1 : u[n] = s[1 + n - 1]
    BY <2>1, SubSeqProperties
  <2> HIDE DEF u
  <2> QED BY <1>1, <2>2
<1>4. /\ v \in Seq(S) /\ Len(v) = l - i
      /\ \A n \in 1 .. l - i : v[n] = s[i + n]
  <2> HIDE DEF l
  <2>1. i + 1 \in Int /\ l \in Int /\ \A n \in i + 1 .. l : s[n] \in S
    BY <1>1
  <2>2. /\ v \in Seq(S) /\ Len(v) = IF i + 1 <= l THEN l - (i + 1) + 1 ELSE 0
        /\ \A n \in 1 .. l - (i + 1) + 1 : v[n] = s[i + 1 + n - 1]
    BY <2>1, SubSeqProperties
  <2> HIDE DEF v
  <2>3. \A n \in 1 .. l - i : n \in 1 .. l - (i + 1) + 1 /\ i + 1 + n - 1 = i + n
    BY <1>1
  <2>4. Len(v) = l - i
    BY <1>1, <2>2
  <2> QED BY <2>2, <2>3, <2>4
<1> HIDE DEF u, v, l
<1>5. /\ u \o v \in Seq(S) /\ Len(u \o v) = Len(u) + Len(v)
      /\ \A n \in 1 .. Len(u) + Len(v) :
            (u \o v)[n] = IF n <= Len(u) THEN u[n] ELSE v[n - Len(u)]
  BY <1>3, <1>4, ConcatProperties
<1>6. Len(u \o v) = l - 1
  BY <1>1, <1>3, <1>4, <1>5
<1>7. ASSUME NEW n \in 1 .. l - 1
      PROVE  (u \o v)[n] = IF n < i THEN s[n] ELSE s[n + 1]
  <2>1. n \in 1 .. Len(u) + Len(v)
    BY <1>1, <1>3, <1>4
  <2>2. CASE n < i
    <3>1. n <= Len(u) /\ n \in 1 .. i - 1
      BY <1>1, <1>3, <2>2
    <3> QED BY <1>3, <1>5, <2>1, <2>2, <3>1
  <2>3. CASE ~(n < i)
    <3>1. ~(n <= Len(u)) /\ n - Len(u) \in 1 .. l - i /\ i + (n - Len(u)) = n + 1
      BY <1>1, <1>3, <2>3
    <3> QED BY <1>4, <1>5, <2>1, <2>3, <3>1
  <2> QED BY <2>2, <2>3
<1> QED BY <1>2, <1>5, <1>6, <1>7 DEF l

LEMMA EraseNextKeeps ==
    ASSUME IInv, EraseNext
    PROVE  IInv'
<1> DEFINE l == Len(allocations)
<1>1. /\ phase = "erase" /\ phase' = "erase" /\ cursor <= l
      /\ \/ /\ allocations[cursor].isFree /\ cursor' = cursor
            /\ allocations' = RemoveAt(allocations, cursor)
         \/ /\ ~allocations[cursor].isFree /\ cursor' = cursor + 1
            /\ allocations' = allocations
      /\ UNCHANGED <<slots, heap, allocated, marked, roots, stack>>
  BY DEF EraseNext
<1>2. /\ TypeOK /\ Trace /\ Shaped /\ KeptIsClosed /\ KeptIsReachable /\ Erasing
      /\ cursor \in 1 .. l /\ l \in Nat
      /\ allocations \in Seq([ptr : Addr, isFree : BOOLEAN])
      /\ DOMAIN allocations = 1 .. l
      /\ cursor' \in Nat /\ cursor' >= 1
  BY <1>1 DEF IInv, TypeOK, CursorStarts
<1> HIDE DEF l
<1>3. /\ PtrsDistinct /\ InUseTraced /\ TracedInUse /\ SizesAddUp
      /\ \A n \in 1 .. l : allocations[n].isFree => n >= cursor
  BY <1>1, <1>2 DEF Trace, FreesBehind
<1>4. /\ allocations' \in Seq([ptr : Addr, isFree : BOOLEAN])
      /\ PtrsDistinct' /\ InUseTraced' /\ TracedInUse' /\ FreesBehind'
  <2>1. CASE allocations[cursor].isFree /\ cursor' = cursor
             /\ allocations' = RemoveAt(allocations, cursor)
    <3>1. /\ allocations' \in Seq([ptr : Addr, isFree : BOOLEAN])
          /\ Len(allocations') = l - 1
          /\ \A n \in 1 .. l - 1 :
                allocations'[n] = IF n < cursor THEN allocations[n] ELSE allocations[n + 1]
      BY <1>2, <2>1, RemoveAtIs DEF l
    <3>2. DOMAIN allocations' = 1 .. l - 1
      BY <3>1
    <3> DEFINE old(n) == IF n < cursor THEN n ELSE n + 1
    <3>3. \A n \in 1 .. l - 1 : old(n) \in 1 .. l /\ allocations'[n] = allocations[old(n)]
                                /\ (n < cursor => old(n) < cursor)
      BY <1>2, <3>1
    <3>4. \A m, n \in 1 .. l - 1 : old(m) = old(n) => m = n
      BY <1>2
    <3>5. \A n \in 1 .. l : n # cursor => \E m \in 1 .. l - 1 : old(m) = n
      <4> SUFFICES ASSUME NEW n \in 1 .. l, n # cursor
                   PROVE  \E m \in 1 .. l - 1 : old(m) = n
        OBVIOUS
      <4>1. CASE n < cursor
        <5>1. n \in 1 .. l - 1 /\ old(n) = n
          BY <1>2, <4>1
        <5> QED BY <5>1
      <4>2. CASE ~(n < cursor)
        <5>1. n - 1 \in 1 .. l - 1 /\ old(n - 1) = n
          BY <1>2, <4>2
        <5> QED BY <5>1
      <4> QED BY <4>1, <4>2
    <3> HIDE DEF old
    <3>6. PtrsDistinct'
      BY <1>2, <1>3, <3>2, <3>3, <3>4 DEF PtrsDistinct
    <3>7. InUseTraced'
      <4> SUFFICES ASSUME NEW a \in DOMAIN heap
                   PROVE  \E m \in 1 .. l - 1 :
                             allocations'[m].ptr = a /\ ~allocations'[m].isFree
        BY <1>1, <3>2 DEF InUseTraced, Names
      <4>1. PICK n \in 1 .. l : allocations[n].ptr = a /\ ~allocations[n].isFree
        BY <1>2, <1>3 DEF InUseTraced, Names
      <4>2. PICK m \in 1 .. l - 1 : old(m) = n
        BY <2>1, <3>5, <4>1
      <4> QED BY <3>3, <4>1, <4>2
    <3>8. TracedInUse'
      BY <1>1, <1>2, <1>3, <3>2, <3>3 DEF TracedInUse
    <3>9. FreesBehind'
      <4> SUFFICES ASSUME NEW n \in 1 .. l - 1, allocations'[n].isFree
                   PROVE  n >= cursor
        BY <1>1, <2>1, <3>2 DEF FreesBehind
      <4>1. old(n) >= cursor /\ old(n) \in 1 .. l
        BY <1>3, <3>3
      <4> QED BY <1>2, <3>3, <4>1
    <3> QED BY <3>1, <3>6, <3>7, <3>8, <3>9
  <2>2. CASE ~allocations[cursor].isFree /\ cursor' = cursor + 1
             /\ allocations' = allocations
    <3>1. PtrsDistinct' /\ InUseTraced' /\ TracedInUse'
      BY <1>1, <1>3, <2>2 DEF PtrsDistinct, InUseTraced, TracedInUse, Names
    <3>2. \A n \in 1 .. l : allocations[n].isFree => n >= cursor + 1
      BY <1>2, <1>3, <2>2
    <3>3. FreesBehind'
      BY <1>1, <1>2, <2>2, <3>2 DEF FreesBehind
    <3> QED BY <1>2, <2>2, <3>1, <3>3
  <2> QED BY <1>1, <2>1, <2>2
<1>5. TypeOK'
  BY <1>1, <1>2, <1>4 DEF TypeOK
<1>6. Trace'
  BY <1>1, <1>3, <1>4 DEF Trace, SizesAddUp
<1>7. Held' = Held /\ Kept' = Kept
  BY <1>1 DEF Held, Kept
<1>8. Shaped' /\ KeptIsClosed' /\ KeptIsReachable'
  BY <1>1, <1>2, <1>7 DEF Shaped, KeptIsClosed, KeptIsReachable
<1>9. Sweeping' /\ Erasing'
  BY <1>1, <1>2 DEF Sweeping, Erasing
<1> QED BY <1>1, <1>2, <1>5, <1>6, <1>8, <1>9, SweepKeeps

LEMMA EndEraseKeeps ==
    ASSUME IInv, EndErase
    PROVE  IInv'
<1>1. /\ phase = "erase" /\ phase' = "program" /\ cursor > Len(allocations)
      /\ roots' = <<>> /\ cursor' = 0
      /\ UNCHANGED <<slots, heap, allocations, allocated, marked, stack>>
  BY DEF EndErase, mutator
<1>2. /\ TypeOK /\ Trace /\ Shaped /\ KeptIsClosed /\ KeptIsReachable /\ Erasing
      /\ cursor \in Nat /\ Len(allocations) \in Nat
      /\ DOMAIN allocations = 1 .. Len(allocations)
  BY <1>1 DEF IInv, TypeOK
<1>3. \A n \in DOMAIN allocations : ~allocations[n].isFree
  BY <1>1, <1>2 DEF Trace, FreesBehind
<1>4. TypeOK'
  BY <1>1, <1>2 DEF TypeOK, Phase
<1>5. Trace'
  BY <1>1, <1>2, <1>3
     DEF Trace, PtrsDistinct, InUseTraced, TracedInUse, FreesBehind, SizesAddUp, Names
<1>6. Held' = Held /\ Kept' = Kept
  BY <1>1 DEF Held, Kept
<1>7. Shaped' /\ KeptIsClosed' /\ KeptIsReachable'
  BY <1>1, <1>2, <1>6 DEF Shaped, KeptIsClosed, KeptIsReachable
<1>8. Idle'
  BY <1>1, <1>2 DEF Idle, Erasing
<1>9. Rooting' /\ Marking' /\ Sweeping' /\ Erasing' /\ CursorStarts' /\ DiesOnlyOnBadShapes'
  BY <1>1 DEF Rooting, Marking, RootsAreHeld, RootsMarked, MarkedIsReachable,
     ActivationsMarked, MarkedOrPending, StackIsPath, Sweeping, Erasing, CursorStarts,
     DiesOnlyOnBadShapes
<1> QED BY <1>4, <1>5, <1>7, <1>8, <1>9 DEF IInv

-----------------------------------------------------------------------------
(* The invariant is inductive.                                             *)
LEMMA InitEstablishes ==
    ASSUME Init
    PROVE  IInv
<1>1. /\ DOMAIN heap = {} /\ marked = {} /\ allocations = <<>> /\ DOMAIN allocations = {}
      /\ allocated = 0 /\ roots = <<>> /\ stack = <<>> /\ cursor = 0
      /\ phase = "program" /\ slots = [s \in Slot |-> CHAI_NULL]
  BY DEF Init
<1>2. TypeOK
  <2>1. {} \in SUBSET Addr /\ heap \in [{} -> Object]
    BY DEF Init
  <2>2. slots \in [Slot -> Ref]
    BY <1>1 DEF Ref
  <2> QED BY <1>1, <2>1, <2>2 DEF TypeOK, Phase
<1>3. Trace
  <2>1. allocated = TotalWords(heap, DOMAIN heap)
    BY <1>1, EmptyHeapSize
  <2> QED
    BY <1>1, <2>1 DEF Trace, PtrsDistinct, InUseTraced, TracedInUse, FreesBehind, SizesAddUp
<1>4. Held = {}
  BY <1>1, <1>2, HeldAre
<1> QED
  BY <1>1, <1>2, <1>3, <1>4
     DEF IInv, Shaped, KeptIsClosed, KeptIsReachable, Kept, Idle, Rooting, Marking,
         RootsAreHeld, RootsMarked, MarkedIsReachable, ActivationsMarked, MarkedOrPending,
         StackIsPath, Sweeping, Erasing, CursorStarts, DiesOnlyOnBadShapes

LEMMA StutterKeeps ==
    ASSUME IInv, UNCHANGED vars
    PROVE  IInv'
<1> USE DEF vars, mutator, collector
<1>1. Held' = Held /\ Kept' = Kept
  BY DEF Held, Kept, Names
<1>2. TypeOK' /\ Trace' /\ Shaped' /\ KeptIsClosed' /\ KeptIsReachable'
  BY <1>1 DEF IInv, TypeOK, Trace, PtrsDistinct, InUseTraced, TracedInUse, FreesBehind,
     SizesAddUp, Names, Shaped, KeptIsClosed, KeptIsReachable
<1>3. Idle' /\ Rooting' /\ Sweeping' /\ Erasing' /\ CursorStarts' /\ DiesOnlyOnBadShapes'
  BY <1>1 DEF IInv, Idle, Rooting, Sweeping, Erasing, CursorStarts, DiesOnlyOnBadShapes,
     Names
<1>4. Marking'
  BY <1>1 DEF IInv, Marking, RootsAreHeld, RootsMarked, MarkedIsReachable,
     ActivationsMarked, MarkedOrPending, Pending, StackIsPath
<1> QED BY <1>2, <1>3, <1>4 DEF IInv

(* The objects a program creates hold no reference.                        *)
LEMMA CreatedObjects ==
    /\ \A k \in Klass : /\ NewInstance(k) \in Object /\ WellFormedObject(NewInstance(k))
                        /\ Children(NewInstance(k)) = {}
    /\ \A len \in Length : /\ NewArray(len) \in Object /\ WellFormedObject(NewArray(len))
                           /\ Children(NewArray(len)) = {}
<1>1. \A len \in Length : len \in Scalar /\ len >= 0
  BY CollectorAssumption
<1> QED BY <1>1, NewInstanceIsEmpty, NewArrayIsEmpty

LEMMA NextKeeps ==
    ASSUME IInv, [Next]_vars
    PROVE  IInv'
<1>1. ASSUME NEW s \in Slot, NEW a \in Addr, NEW k \in Klass, Create(s, a, NewInstance(k))
      PROVE  IInv'
  BY <1>1, CreatedObjects, CreateKeeps
<1>2. ASSUME NEW s \in Slot, NEW a \in Addr, NEW len \in Length, Create(s, a, NewArray(len))
      PROVE  IInv'
  BY <1>2, CreatedObjects, CreateKeeps
<1>3. ASSUME NEW s \in Slot, Copy(s) PROVE IInv'
  BY <1>3, CopyKeeps
<1>4. ASSUME NEW a \in DOMAIN heap, NEW i \in RefSlots(heap[a]), Store(a, i) PROVE IInv'
  BY <1>4, StoreKeeps
<1>5. CASE Begin
  BY <1>5, BeginKeeps
<1>6. CASE Collect
  <2>1. CASE SweepNext
    <3>1. Unmark(allocations[cursor].ptr) \/ Deallocate(allocations[cursor].ptr)
      BY <2>1 DEF SweepNext
    <3> QED BY <2>1, <3>1, UnmarkKeeps, DeallocateKeeps
  <2> QED
    BY <1>6, <2>1, CollectRootKeeps, EndRootsKeeps, MarkRootKeeps, MarkMemberKeeps,
       ReturnKeeps, EndMarkKeeps, EndSweepKeeps, EraseNextKeeps, EndEraseKeeps DEF Collect
<1>7. CASE UNCHANGED vars
  BY <1>7, StutterKeeps
<1> QED BY <1>1, <1>2, <1>3, <1>4, <1>5, <1>6, <1>7 DEF Next


-----------------------------------------------------------------------------
(* Safety.                                                                 *)

(* The invariant that carries the proofs, for every program.               *)
THEOREM Inductive == Spec => []IInv
<1>1. Init => IInv
  BY InitEstablishes
<1>2. IInv /\ [Next]_vars => IInv'
  BY NextKeeps
<1> QED BY <1>1, <1>2, PTL DEF Spec

(* Blocks, trace, roots and activations have their types: every mark is in *)
(* the header of a block in use, and freeing never takes more from the     *)
(* count of allocated words than there is (garbage-collector.cpp:7-101).   *)
THEOREM TypeCorrect == Spec => []TypeOK
<1>1. IInv => TypeOK
  BY DEF IInv
<1> QED BY <1>1, Inductive, PTL

(* A sweep of any heap, whatever is shared and whatever was garbage before *)
(* it, leaves the objects the program can reach, all of them and no others *)
(* (garbage-collector.cpp:12-101).                                         *)
THEOREM SweepsExactly == Spec => []SweepIsExact
<1>1. ASSUME IInv, phase = "erase" PROVE DOMAIN heap = Reach(heap, Held)
  <2>1. /\ DOMAIN heap \subseteq Addr /\ Held \subseteq DOMAIN heap
        /\ \A a \in DOMAIN heap : Children(heap[a]) \subseteq DOMAIN heap
        /\ DOMAIN heap \subseteq Reach(heap, Held)
    BY <1>1, HeapType DEF IInv, KeptIsClosed, KeptIsReachable, Kept
  <2>2. Closed(heap, DOMAIN heap)
    BY <2>1 DEF Closed
  <2>3. Reach(heap, Held) \subseteq DOMAIN heap
    BY <2>1, <2>2, ReachLeast
  <2> QED BY <2>1, <2>3
<1>2. IInv => SweepIsExact
  BY <1>1 DEF SweepIsExact
<1> QED BY <1>2, Inductive, PTL

(* The program never runs over a marked header: a mark left over would     *)
(* keep a dead object through the next sweep (garbage-collector.cpp:83).   *)
THEOREM MarksCleared == Spec => []MarksAreCleared
<1>1. IInv => MarksAreCleared
  BY DEF IInv, Idle, Erasing, MarksAreCleared
<1> QED BY <1>1, Inductive, PTL

(* The list allocations_ names each block in use once, at every step of    *)
(* a collection, and allocated_ is the size of these blocks: the threshold *)
(* that starts a collection compares the right number                      *)
(* (traced-allocator.hpp:35-47; garbage-collector.cpp:86-99).              *)
THEOREM TraceIsTrue == Spec => []TraceMatchesBlocks
<1>1. ASSUME IInv PROVE TraceMatchesBlocks
  <2> DEFINE inUse == {n \in DOMAIN allocations : ~allocations[n].isFree}
  <2>1. PtrsDistinct /\ InUseTraced /\ TracedInUse /\ FreesBehind /\ SizesAddUp
    BY <1>1 DEF IInv, Trace
  <2>2. \A m, n \in inUse : allocations[m].ptr = allocations[n].ptr => m = n
    BY <2>1 DEF PtrsDistinct
  <2>3. {allocations[n].ptr : n \in inUse} = DOMAIN heap
    BY <2>1 DEF InUseTraced, TracedInUse, Names
  <2>4. phase = "program" => inUse = DOMAIN allocations
    BY <2>1 DEF FreesBehind
  <2> HIDE DEF inUse
  <2> QED BY <2>1, <2>2, <2>3, <2>4 DEF TraceMatchesBlocks, SizesAddUp, inUse
<1>2. IInv => TraceMatchesBlocks
  BY <1>1
<1> QED BY <1>2, Inductive, PTL

(* The recursion of markObjects() fails on no heap without an array in a   *)
(* member, a cycle, or more reachable objects than native activations:     *)
(* sharing alone, which makes it enter an object again and again, does     *)
(* not kill it (garbage-collector.cpp:48-75).                              *)
THEOREM DiesAsExpected == Spec => []DiesOnlyOnBadShapes
<1>1. IInv => DiesOnlyOnBadShapes
  BY DEF IInv
<1> QED BY <1>1, Inductive, PTL

-----------------------------------------------------------------------------
(* The object store, step by step.                                         *)
graph == [a \in DOMAIN heap |-> Children(heap[a])]

LEMMA SilentStep ==
    ASSUME UNCHANGED <<slots, heap>>
    PROVE  UNCHANGED ObjStore!vars
BY DEF ObjStore!vars, Held

LEMMA CopyStep ==
    ASSUME IInv, NEW s \in Slot, Copy(s)
    PROVE  ObjStore!Next
<1>1. PICK v \in Held \cup {CHAI_NULL} \cup UNION {Children(heap[a]) : a \in Held} :
          slots' = [slots EXCEPT ![s] = v]
  BY DEF Copy
<1>2. heap' = heap /\ phase = "program"
  BY DEF Copy, Program
<1>3. TypeOK /\ TypeOK'
  BY CopyKeeps DEF IInv
<1>4. Held \subseteq DOMAIN heap
  BY <1>2, ProgramHolds
<1>5. ASSUME NEW w \in Held'
      PROVE  w \in Held \cup UNION {graph[a] : a \in Held \cap DOMAIN graph}
  <2>1. DOMAIN slots' = Slot /\ DOMAIN slots = Slot
    BY <1>3 DEF TypeOK
  <2>2. w # CHAI_NULL /\ \E r \in Slot : slots'[r] = w
    BY <2>1 DEF Held, ToSet
  <2>3. w = v \/ \E r \in Slot : slots[r] = w
    BY <1>1, <2>1, <2>2
  <2>4. CASE w \in Held
    BY <2>4
  <2>5. CASE w \notin Held
    <3>1. PICK a \in Held : w \in Children(heap[a])
      BY <1>1, <1>3, <2>2, <2>3, <2>5, HeldAre
    <3> QED BY <1>4, <3>1 DEF graph
  <2> QED BY <2>4, <2>5
<1>6. graph' = graph
  BY <1>2 DEF graph
<1>7. ObjStore!Copy
  BY <1>5, <1>6 DEF ObjStore!Copy, ObjStore!Existing, graph
<1> QED BY <1>7 DEF ObjStore!Next

LEMMA CreateStep ==
    ASSUME IInv, NEW s \in Slot, NEW a \in Addr, NEW obj \in Object, Children(obj) = {},
           WellFormedObject(obj), Create(s, a, obj)
    PROVE  ObjStore!Next
<1>1. /\ a \notin DOMAIN heap /\ slots' = [slots EXCEPT ![s] = a]
      /\ heap' = [b \in DOMAIN heap \cup {a} |-> IF b = a THEN obj ELSE heap[b]]
  BY DEF Create
<1>2. TypeOK /\ TypeOK'
  BY CreateKeeps DEF IInv
<1>3. ASSUME NEW w \in Held' PROVE w \in Held \cup {a}
  <2>1. DOMAIN slots' = Slot /\ DOMAIN slots = Slot
    BY <1>2 DEF TypeOK
  <2>2. w # CHAI_NULL /\ \E r \in Slot : slots'[r] = w
    BY <2>1 DEF Held, ToSet
  <2>3. w = a \/ \E r \in Slot : slots[r] = w
    BY <1>1, <2>1, <2>2
  <2> QED BY <1>2, <2>2, <2>3, HeldAre
<1>4. graph' = [b \in DOMAIN graph \cup {a} |-> IF b = a THEN {} ELSE graph[b]]
  BY <1>1 DEF graph
<1>5. a \in Addr \ DOMAIN graph
  BY <1>1 DEF graph
<1>6. ObjStore!Create(a)
  BY <1>3, <1>4, <1>5 DEF ObjStore!Create, ObjStore!Existing, graph
<1> QED BY <1>6 DEF ObjStore!Next


LEMMA StoreStep ==
    ASSUME IInv, NEW a \in DOMAIN heap, NEW i \in RefSlots(heap[a]), Store(a, i)
    PROVE  ObjStore!Next
<1>1. /\ phase = "program" /\ a \in Held /\ slots' = slots
  BY DEF Store, Program
<1>2. PICK v \in Held \cup {CHAI_NULL} : heap' = [heap EXCEPT ![a].members[i] = v]
  BY DEF Store
<1> DEFINE obj == heap[a]
           new == [obj EXCEPT !.members[i] = v]
<1>3. /\ Held \subseteq DOMAIN heap /\ DOMAIN heap \subseteq Addr
      /\ obj \in Object /\ WellFormedObject(obj) /\ Children(obj) \subseteq Addr
  BY <1>1, ProgramHolds, HeapType DEF IInv, Shaped
<1>4. i \in 1 .. Len(obj.members)
  <2>1. Len(obj.members) \in Nat
    BY <1>3 DEF Object
  <2> QED BY <1>3, <2>1 DEF RefSlots, WellFormedObject
<1>5. v \in Value
  BY <1>3, HeapAssumption DEF Value
<1>6. PICK b \in Held : Children(new) \subseteq Children(obj) \cup {b}
  <2> DEFINE E == Children(obj) \cup ({v} \ {CHAI_NULL})
  <2>1. v \in E \cup {CHAI_NULL} /\ Children(obj) \subseteq E
    OBVIOUS
  <2>2. Children(new) \subseteq E
    <3> HIDE DEF E
    <3> QED BY <1>3, <1>4, <1>5, <2>1, MemberWritten
  <2>3. CASE v \in Held
    BY <2>2, <2>3
  <2>4. CASE v = CHAI_NULL
    BY <1>1, <2>2, <2>4
  <2> QED BY <2>3, <2>4
<1>7. PICK c \in Addr : Children(obj) \ {c} \subseteq Children(new)
  <2>1. Children(obj) \ {obj.members[i]} \subseteq Children(new)
    BY <1>3, <1>4, <1>5, MemberLost
  <2>2. CASE obj.members[i] \in Addr
    BY <2>1, <2>2
  <2>3. CASE obj.members[i] \notin Addr
    BY <1>1, <1>3, <2>1, <2>3
  <2> QED BY <2>2, <2>3
<1>8. heap' = [heap EXCEPT ![a] = new]
  BY <1>2
<1> HIDE DEF new
<1>9. graph' = [graph EXCEPT ![a] = Children(new)] /\ graph[a] = Children(obj)
  BY <1>8 DEF graph
<1>10. Children(new) \in SUBSET Addr
  BY <1>3, <1>6
<1>11. Held' = Held
  BY <1>1 DEF Held
<1>12. ObjStore!Store(a)
  BY <1>1, <1>3, <1>6, <1>7, <1>9, <1>10, <1>11
     DEF ObjStore!Store, ObjStore!Existing, graph
<1> QED BY <1>3, <1>12 DEF ObjStore!Next

(* What sweep() frees is dead: what is kept is closed.                     *)
LEMMA DeallocateStep ==
    ASSUME IInv, SweepNext, Deallocate(allocations[cursor].ptr)
    PROVE  ObjStore!Next
<1> DEFINE a == allocations[cursor].ptr
           A == DOMAIN heap \ {a}
<1>1. /\ phase = "sweep" /\ cursor <= Len(allocations) /\ a \notin marked
      /\ heap' = [b \in A |-> heap[b]] /\ slots' = slots
  BY DEF SweepNext, Deallocate, Restrict
<1>2. a \notin Kept
  BY <1>1, FreedIsDead
<1>3. /\ Kept \subseteq DOMAIN heap /\ DOMAIN heap \subseteq Addr
      /\ Held \subseteq Kept /\ \A b \in Kept : Children(heap[b]) \subseteq Kept
  BY <1>1, SweepingHolds
<1> HIDE DEF a
<1>4. ObjStore!Live \subseteq Kept
  <2>1. \A b \in Kept \cap DOMAIN graph : graph[b] \subseteq Kept
    BY <1>3 DEF graph
  <2>2. Kept \in SUBSET Addr /\ Held \subseteq Kept
    BY <1>3
  <2> QED BY <2>1, <2>2 DEF ObjStore!Live, ObjStore!Existing, graph
<1>5. graph' = [b \in A |-> graph[b]] /\ A \in SUBSET DOMAIN graph
      /\ ObjStore!Live \cap DOMAIN graph \subseteq A
  BY <1>1, <1>2, <1>4 DEF graph
<1>6. Held' = Held
  BY <1>1 DEF Held
<1> HIDE DEF A
<1>7. ObjStore!Discard
  BY <1>5, <1>6 DEF ObjStore!Discard, ObjStore!Existing, graph
<1> QED BY <1>7 DEF ObjStore!Next

LEMMA NextIsStoreStep ==
    ASSUME IInv, [Next]_vars
    PROVE  ObjStore!Next \/ UNCHANGED ObjStore!vars
<1>1. ASSUME NEW s \in Slot, NEW a \in Addr, NEW k \in Klass, Create(s, a, NewInstance(k))
      PROVE  ObjStore!Next
  BY <1>1, CreatedObjects, CreateStep
<1>2. ASSUME NEW s \in Slot, NEW a \in Addr, NEW len \in Length, Create(s, a, NewArray(len))
      PROVE  ObjStore!Next
  BY <1>2, CreatedObjects, CreateStep
<1>3. ASSUME NEW s \in Slot, Copy(s) PROVE ObjStore!Next
  BY <1>3, CopyStep
<1>4. ASSUME NEW a \in DOMAIN heap, NEW i \in RefSlots(heap[a]), Store(a, i)
      PROVE  ObjStore!Next
  BY <1>4, StoreStep
<1>5. CASE SweepNext
  <2>1. Unmark(allocations[cursor].ptr) \/ Deallocate(allocations[cursor].ptr)
    BY <1>5 DEF SweepNext
  <2>2. CASE Unmark(allocations[cursor].ptr)
    BY <1>5, <2>2, SilentStep DEF Unmark, SweepNext
  <2> QED BY <1>5, <2>1, <2>2, DeallocateStep
<1>6. CASE Begin \/ (Collect /\ ~SweepNext) \/ UNCHANGED vars
  <2>1. UNCHANGED <<slots, heap>>
    BY <1>6 DEF Begin, Collect, CollectRoot, EndRoots, MarkRoot, MarkMember, Return, EndMark,
       EndSweep, EraseNext, EndErase, vars, mutator
  <2> QED BY <2>1, SilentStep
<1> QED BY <1>1, <1>2, <1>3, <1>4, <1>5, <1>6 DEF Next

(* The collector gives the program an object store, for any klasses,       *)
(* memory, native stack and number of references it holds: every block     *)
(* sweep() frees, one at a time, is out of its reach, and marking and      *)
(* erasing change nothing it can see (garbage-collector.cpp:7-101,         *)
(* traced-allocator.hpp:27-47).                                            *)
THEOREM CollectorIsStore == Spec => ImplementsObjectStore
<1>1. Init => ObjStore!Init
  <2> SUFFICES ASSUME Init PROVE ObjStore!Init
    OBVIOUS
  <2>1. DOMAIN heap = {} /\ slots = [s \in Slot |-> CHAI_NULL]
    BY DEF Init
  <2>2. Held = {}
    BY <2>1, InitEstablishes, HeldAre DEF IInv
  <2> QED BY <2>1, <2>2 DEF ObjStore!Init
<1>2. IInv /\ [Next]_vars => [ObjStore!Next]_(ObjStore!vars)
  BY NextIsStoreStep
<1> QED BY <1>1, <1>2, Inductive, PTL DEF Spec, ImplementsObjectStore, ObjStore!Spec
=============================================================================
