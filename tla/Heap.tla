-------------------------------- MODULE Heap --------------------------------
(***************************************************************************)
(* Objects and object arrays as the interpreter lays them out in the       *)
(* objects buffer (objects.hpp, klass.hpp), and the graph their references *)
(* form.  A heap is a function from the addresses of the allocated blocks  *)
(* to objects.  Sizes count 8-byte words: a header is two words, a member  *)
(* one.                                                                    *)
(***************************************************************************)
EXTENDS Integers, Sequences, Functions

CONSTANTS
    Addr,         \* addresses the objects allocator can hand out
    Scalar,       \* the 64-bit values that are not addresses of objects
    Immidiate,    \* operands naming a klass
    klasses,      \* CodeManager::klasses_: the isObject_ flags of each klass
    OBJ_ARR_IMM   \* the klass id that marks an array of references

CHAI_NULL == 0

(* Numbers of the klasses the code manager has loaded.                     *)
Klass == DOMAIN klasses

ASSUME HeapAssumption ==
    /\ Scalar \subseteq Int
    /\ CHAI_NULL \in Scalar
    /\ Addr \cap Int = {}
    /\ \A k \in Klass : klasses[k] \in Seq(BOOLEAN)
    /\ Klass \subseteq Immidiate
    /\ OBJ_ARR_IMM \in Immidiate \ Klass

Value == Scalar \cup Addr

HeaderWords == 2

(* members[1] of an array is its length, the elements follow.              *)
Object == [klassId : Klass \cup {OBJ_ARR_IMM}, members : Seq(Value)]

IsArray(obj) == obj.klassId = OBJ_ARR_IMM

Words(obj) == HeaderWords + Len(obj.members)

(* ObjectArray::length() and ObjectArray::operator[]: a negative index     *)
(* counts from the end.  Both are computed from the block's size alone.    *)
ArrayLength(obj) == Len(obj.members) - 1
ElementIndex(obj, i) == IF i < 0 THEN i + ArrayLength(obj) ELSE i
ElementInBounds(obj, i) == ElementIndex(obj, i) \in 0 .. ArrayLength(obj) - 1
ElementSlot(obj, i) == ElementIndex(obj, i) + 2

(* A fresh instance, every field zero, and a fresh array of len nulls.     *)
NewInstance(k) ==
    [klassId |-> k, members |-> [i \in 1 .. Len(klasses[k]) |-> CHAI_NULL]]
NewArray(len) ==
    [klassId |-> OBJ_ARR_IMM,
     members |-> [i \in 1 .. len + 1 |-> IF i = 1 THEN len ELSE CHAI_NULL]]

(* The members the collector follows: the fields declared as objects, the  *)
(* elements of an array.                                                   *)
RefSlots(obj) ==
    IF IsArray(obj)
    THEN 2 .. Len(obj.members)
    ELSE {i \in 1 .. Len(klasses[obj.klassId]) : klasses[obj.klassId][i]}

Children(obj) == {obj.members[i] : i \in RefSlots(obj)} \ {CHAI_NULL}

(* A set of addresses closed under the members of the objects of heap h.   *)
Closed(h, S) == \A a \in S \cap DOMAIN h : Children(h[a]) \cap Addr \subseteq S

(* The addresses reachable from the references R: the least closed set     *)
(* that contains them.                                                     *)
Reach(h, R) ==
    {a \in Addr : \A S \in SUBSET Addr :
                      (R \cap Addr \subseteq S /\ Closed(h, S)) => a \in S}

(* Two shapes the marking recursion cannot digest: a member that refers to *)
(* an array (markObjects() passes its klass id to getKlass(), which        *)
(* asserts) and a cycle (marked objects are entered again).                *)
HasNestedArray(h, R) ==
    \E a \in Reach(h, R) \cap DOMAIN h :
        \E c \in Children(h[a]) \cap DOMAIN h : IsArray(h[c])

HasCycle(h, R) ==
    \E a \in Reach(h, R) \cap DOMAIN h : a \in Reach(h, Children(h[a]))

(* A chain of n objects: markObjects() enters each from the one before, in *)
(* an activation of its own.  Only the first can be an array.              *)
HasChain(h, R, n) ==
    \E p \in [1 .. n -> DOMAIN h] :
        /\ p[1] \in R
        /\ \A k \in 1 .. n - 1 :
              p[k + 1] \in Children(h[p[k]]) /\ ~IsArray(h[p[k + 1]])

TotalWords(h, A) == SumFunctionOnSet([a \in DOMAIN h |-> Words(h[a])], A)
=============================================================================
