----------------------------- MODULE ArrayStore -----------------------------
(***************************************************************************)
(* What arrays of primitives promise: each is a function of its own, zero  *)
(* when it is made, and an element changes only when it is stored to.  A   *)
(* store reaches one element or the neighbouring parts of two, the second  *)
(* of which may be in an array that was made later.                        *)
(***************************************************************************)
EXTENDS Integers, Sequences

CONSTANTS
    Length,     \* lengths of arrays
    Element     \* values of elements

VARIABLE arrays

Init == arrays = <<>>

Make(n) == arrays' = Append(arrays, [i \in 0 .. n - 1 |-> 0])

(* Element j of array l comes right after element i of array k.            *)
Neighbours(k, i, l, j) ==
    \/ l = k /\ j = i + 1
    \/ /\ l > k /\ i + 1 \notin DOMAIN arrays[k] /\ j = 0
       /\ \A m \in k + 1 .. l - 1 : DOMAIN arrays[m] = {}

Store ==
    /\ Len(arrays') = Len(arrays)
    /\ \A k \in 1 .. Len(arrays) : arrays'[k] \in [DOMAIN arrays[k] -> Element]
    /\ \A k, l \in 1 .. Len(arrays) :
          \A i \in DOMAIN arrays[k], j \in DOMAIN arrays[l] :
             arrays'[k][i] # arrays[k][i] /\ arrays'[l][j] # arrays[l][j] =>
                (k = l /\ i = j) \/ Neighbours(k, i, l, j) \/ Neighbours(l, j, k, i)

Next == (\E n \in Length : Make(n)) \/ Store

Spec == Init /\ [][Next]_arrays
=============================================================================
