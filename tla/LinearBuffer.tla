---------------------------- MODULE LinearBuffer ----------------------------
(***************************************************************************)
(* A LinearBuffer and the LinearAllocators over it (linear-allocator.hpp,  *)
(* linear-buffer.cpp).  The buffer is a high-water mark: deallocate() does *)
(* not look at the pointer it is given, it lowers the mark.  A client that *)
(* gives blocks back in another order than last in, first out hands out    *)
(* memory that is still in use.                                            *)
(***************************************************************************)
EXTENDS Integers, Sequences

CONSTANTS
    Size,       \* size_ of the buffer
    ElemSize,   \* sizeof(T) of the allocators over it
    Count       \* numbers of elements clients ask for

ASSUME LinearBufferAssumption ==
    /\ Size \in Nat
    /\ ElemSize \subseteq Nat \ {0}
    /\ Count \subseteq Nat

VARIABLES
    offset,     \* offset_ of the buffer
    live        \* blocks clients have not given back, oldest first

vars == <<offset, live>>

Block == [base : Nat, size : Nat]

TypeOK ==
    /\ offset \in Nat
    /\ live \in Seq(Block)

Init == offset = 0 /\ live = <<>>

(* Throws bad_array_new_length, changing nothing, when the rest of the     *)
(* buffer has no room for n elements.                                      *)
(* Mutation: the request is compared with the size of the whole buffer.    *)
AllocateUnbounded(sz, n) ==
    /\ n <= Size \div sz
    /\ live' = Append(live, [base |-> offset, size |-> n * sz])
    /\ offset' = offset + n * sz

Allocate(sz, n) ==
    /\ n <= (Size - offset) \div sz
    /\ live' = Append(live, [base |-> offset, size |-> n * sz])
    /\ offset' = offset + n * sz

RemoveBlock(k) ==
    [j \in 1 .. Len(live) - 1 |-> IF j < k THEN live[j] ELSE live[j + 1]]

(* The mark drops by the size of block k, wherever the block is.           *)
Deallocate(k) ==
    /\ live[k].size <= offset
    /\ offset' = offset - live[k].size
    /\ live' = RemoveBlock(k)

LifoNext ==
    \/ \E sz \in ElemSize, n \in Count : Allocate(sz, n)
    \/ live # <<>> /\ Deallocate(Len(live))

LifoSpec == Init /\ [][LifoNext]_vars

-----------------------------------------------------------------------------
(* Blocks in use do not overlap, and all lie in the buffer below the mark, *)
(* where the next allocation begins (linear-buffer.cpp:20-25).             *)
Disjoint ==
    /\ offset <= Size
    /\ \A i \in 1 .. Len(live) : live[i].base + live[i].size <= offset
    /\ \A i, j \in 1 .. Len(live) :
          i < j => live[i].base + live[i].size <= live[j].base
=============================================================================
