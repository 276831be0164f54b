---------------------------- MODULE ObjectStore ----------------------------
(***************************************************************************)
(* What the interpreter's memory promises to a program: a store of objects *)
(* that only grows as far as anybody can tell.  A program holds            *)
(* references; it obtains one by creating an object, by copying one it     *)
(* holds or by reading it from an object it can name.  An object may       *)
(* disappear only when no held reference leads to it.                      *)
(***************************************************************************)
CONSTANT Addr

VARIABLES
    held,    \* references in flagged registers and the accumulator
    graph    \* the references each existing object contains

vars == <<held, graph>>

Existing == DOMAIN graph

TypeOK ==
    /\ held \subseteq Addr
    /\ \E A \in SUBSET Addr : graph \in [A -> SUBSET Addr]

(* Everything held references lead to.                                     *)
Live ==
    {a \in Addr : \A S \in SUBSET Addr :
        /\ held \subseteq S
        /\ \A b \in S \cap Existing : graph[b] \subseteq S
        => a \in S}

Init == held = {} /\ graph = [a \in {} |-> {}]

(* A new object contains no reference.  Where its reference is put, others *)
(* may be overwritten; the same holds for Copy.                            *)
Create(a) ==
    /\ a \in Addr \ Existing
    /\ graph' = [b \in Existing \cup {a} |-> IF b = a THEN {} ELSE graph[b]]
    /\ held' \subseteq held \cup {a}

Copy ==
    /\ held' \subseteq held \cup UNION {graph[a] : a \in held \cap Existing}
    /\ UNCHANGED graph

(* Overwriting a member loses at most one reference.                       *)
Store(a) ==
    /\ a \in held \cap Existing
    /\ \E S \in SUBSET Addr :
          /\ \E b \in held : S \subseteq graph[a] \cup {b}
          /\ \E c \in Addr : graph[a] \ {c} \subseteq S
          /\ graph' = [graph EXCEPT ![a] = S]
    /\ UNCHANGED held

(* Collection.                                                             *)
Discard ==
    /\ \E A \in SUBSET Existing :
          /\ Live \cap Existing \subseteq A
          /\ graph' = [a \in A |-> graph[a]]
    /\ UNCHANGED held

Next == Copy \/ Discard \/ \E a \in Addr : Create(a) \/ Store(a)

Spec == Init /\ [][Next]_vars

(* No reference a program can get hold of is to an object that is gone.    *)
NoDangling ==
    /\ held \subseteq Existing
    /\ \A a \in Existing : graph[a] \subseteq Existing
=============================================================================
