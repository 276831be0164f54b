----------------------------- MODULE HeapProofs -----------------------------
(***************************************************************************)
(* Lemmas on heaps that the proofs about the executor and about the        *)
(* collector share: the objects programs create and change, what is        *)
(* reachable, and the size of the blocks in use.                           *)
(*                                                                         *)
(* The size is a sum over a set, and needs induction.  The induction       *)
(* theorems of the library take an operator as a parameter, which the      *)
(* provers cannot instantiate; the existence of least elements takes a     *)
(* set.  A lemma that needs induction assumes that the set of its          *)
(* counterexamples is not empty and looks at a least one.                  *)
(***************************************************************************)
EXTENDS Heap, FiniteSetTheorems, SequenceTheorems, TLAPS

-----------------------------------------------------------------------------
(* Objects.                                                                *)

WellFormedObject(obj) ==
    IF IsArray(obj)
    THEN Len(obj.members) >= 1
    ELSE Len(obj.members) = Len(klasses[obj.klassId])

(* A fresh instance and a fresh array hold no reference.                   *)
LEMMA NewInstanceIsEmpty ==
    ASSUME NEW k \in Klass
    PROVE  /\ NewInstance(k) \in Object
           /\ WellFormedObject(NewInstance(k))
           /\ Children(NewInstance(k)) = {}
<1> DEFINE obj == NewInstance(k)
<1>1. /\ klasses[k] \in Seq(BOOLEAN)
      /\ k # OBJ_ARR_IMM
      /\ CHAI_NULL \in Value
  BY HeapAssumption DEF Value
<1>2. Len(klasses[k]) \in Nat
  BY <1>1
<1>3. /\ obj.klassId = k
      /\ obj.members = [i \in 1 .. Len(klasses[k]) |-> CHAI_NULL]
      /\ obj = [klassId |-> obj.klassId, members |-> obj.members]
  BY DEF NewInstance
<1>4. /\ obj.members \in Seq(Value)
      /\ Len(obj.members) = Len(klasses[k])
  <2>1. obj.members \in [1 .. Len(klasses[k]) -> Value]
    BY <1>1, <1>3
  <2>2. obj.members \in Seq(Value)
    BY <1>2, <2>1, SeqDef
  <2> QED
    BY <1>2, <2>1, <2>2
<1>5. obj \in Object
  BY <1>3, <1>4 DEF Object
<1>6. WellFormedObject(obj)
  BY <1>1, <1>3, <1>4 DEF WellFormedObject, IsArray
<1>7. Children(obj) = {}
  BY <1>1, <1>3 DEF Children, RefSlots, IsArray
<1> QED
  BY <1>5, <1>6, <1>7

LEMMA NewArrayIsEmpty ==
    ASSUME NEW len \in Scalar, len >= 0
    PROVE  /\ NewArray(len) \in Object
           /\ WellFormedObject(NewArray(len))
           /\ Children(NewArray(len)) = {}
<1> DEFINE obj == NewArray(len)
<1>1. len \in Value /\ CHAI_NULL \in Value /\ len \in Nat
  BY HeapAssumption DEF Value
<1>2. /\ obj.klassId = OBJ_ARR_IMM
      /\ obj.members = [i \in 1 .. len + 1 |-> IF i = 1 THEN len ELSE CHAI_NULL]
      /\ obj = [klassId |-> obj.klassId, members |-> obj.members]
  BY DEF NewArray
<1>3. /\ obj.members \in Seq(Value)
      /\ Len(obj.members) = len + 1
  <2>1. obj.members \in [1 .. len + 1 -> Value]
    BY <1>1, <1>2
  <2>2. obj.members \in Seq(Value)
    BY <1>1, <2>1, SeqDef
  <2> QED
    BY <1>1, <2>1, <2>2
<1>4. obj \in Object
  BY <1>2, <1>3 DEF Object
<1>5. WellFormedObject(obj)
  BY <1>1, <1>2, <1>3 DEF WellFormedObject, IsArray
<1>6. Children(obj) = {}
  BY <1>1, <1>2, <1>3 DEF Children, RefSlots, IsArray
<1> QED
  BY <1>4, <1>5, <1>6

(* A member is overwritten, by a reference to somewhere in D if the        *)
(* collector follows it.                                                   *)
LEMMA MemberWritten ==
    ASSUME NEW obj \in Object, WellFormedObject(obj),
           NEW i \in 1 .. Len(obj.members), NEW v \in Value, NEW D,
           Children(obj) \subseteq D,
           i \in RefSlots(obj) => v \in D \cup {CHAI_NULL}
    PROVE  LET new == [obj EXCEPT !.members[i] = v]
           IN  new \in Object /\ WellFormedObject(new) /\ Children(new) \subseteq D
<1> DEFINE new == [obj EXCEPT !.members[i] = v]
<1>1. /\ obj.members \in Seq(Value)
      /\ obj.klassId \in Klass \cup {OBJ_ARR_IMM}
  BY DEF Object
<1>2. /\ new.klassId = obj.klassId
      /\ new.members = [obj.members EXCEPT ![i] = v]
      /\ new = [klassId |-> new.klassId, members |-> new.members]
  BY DEF Object
<1>3. /\ new.members \in Seq(Value)
      /\ Len(new.members) = Len(obj.members)
      /\ \A j \in 1 .. Len(obj.members) :
            new.members[j] = IF j = i THEN v ELSE obj.members[j]
  BY <1>1, <1>2
<1>4. new \in Object
  BY <1>1, <1>2, <1>3 DEF Object
<1>5. WellFormedObject(new)
  BY <1>2, <1>3 DEF WellFormedObject, IsArray
<1>6. RefSlots(new) = RefSlots(obj)
  BY <1>2, <1>3 DEF RefSlots, IsArray
<1>7. RefSlots(obj) \subseteq 1 .. Len(obj.members)
  <2>1. Len(obj.members) \in Nat
    BY <1>1
  <2> QED
    BY <2>1 DEF RefSlots, WellFormedObject
<1>8. ASSUME NEW c \in Children(new)
      PROVE  c \in D
  <2>1. PICK j \in RefSlots(new) : c = new.members[j] /\ c # CHAI_NULL
    BY <1>8 DEF Children
  <2>2. CASE j = i
    BY <1>3, <1>6, <1>7, <2>1, <2>2
  <2>3. CASE j # i
    <3>1. c = obj.members[j]
      BY <1>3, <1>6, <1>7, <2>1, <2>3
    <3>2. c \in Children(obj)
      BY <1>6, <2>1, <3>1 DEF Children
    <3> QED
      BY <3>2
  <2> QED
    BY <2>2, <2>3
<1> QED
  BY <1>4, <1>5, <1>8

(* Only the reference that was there is lost.                              *)
LEMMA MemberLost ==
    ASSUME NEW obj \in Object, WellFormedObject(obj),
           NEW i \in 1 .. Len(obj.members), NEW v \in Value
    PROVE  Children(obj) \ {obj.members[i]} \subseteq Children([obj EXCEPT !.members[i] = v])
<1> DEFINE new == [obj EXCEPT !.members[i] = v]
<1>1. /\ obj.members \in Seq(Value) /\ Len(obj.members) \in Nat
      /\ new.klassId = obj.klassId
      /\ new.members = [obj.members EXCEPT ![i] = v]
  BY DEF Object
<1>2. Len(new.members) = Len(obj.members)
  BY <1>1
<1>3. RefSlots(new) = RefSlots(obj)
  BY <1>1, <1>2 DEF RefSlots, IsArray
<1> SUFFICES ASSUME NEW x \in Children(obj), x # obj.members[i]
             PROVE  x \in Children(new)
  OBVIOUS
<1>4. PICK j \in RefSlots(obj) : x = obj.members[j] /\ x # CHAI_NULL
  BY DEF Children
<1>5. j \in DOMAIN obj.members /\ j # i
  BY <1>1, <1>4 DEF RefSlots, WellFormedObject
<1>6. new.members[j] = obj.members[j]
  BY <1>1, <1>5
<1> QED BY <1>3, <1>4, <1>6 DEF Children

-----------------------------------------------------------------------------
(* Reachability.                                                           *)

(* Reach contains the references it starts from, and is closed.            *)
LEMMA ReachContains ==
    ASSUME NEW h, NEW R
    PROVE  R \cap Addr \subseteq Reach(h, R)
BY DEF Reach

LEMMA ReachClosed ==
    ASSUME NEW h, NEW R
    PROVE  Closed(h, Reach(h, R))
<1> SUFFICES ASSUME NEW a \in Reach(h, R) \cap DOMAIN h,
                    NEW c \in Children(h[a]) \cap Addr
             PROVE  c \in Reach(h, R)
  BY DEF Closed
<1> SUFFICES ASSUME NEW S \in SUBSET Addr,
                    R \cap Addr \subseteq S, Closed(h, S)
             PROVE  c \in S
  BY DEF Reach
<1>1. a \in S
  BY DEF Reach
<1> QED
  BY <1>1 DEF Closed

(* Nothing else is reachable: a closed set holds all that is.              *)
LEMMA ReachLeast ==
    ASSUME NEW h, NEW R, NEW S \in SUBSET Addr, R \cap Addr \subseteq S, Closed(h, S)
    PROVE  Reach(h, R) \subseteq S
BY DEF Reach

(* What is reachable stays so when the rest is swept.                      *)
LEMMA ReachSurvives ==
    ASSUME NEW h, NEW R, NEW D, D = DOMAIN h \cap Reach(h, R)
    PROVE  D \subseteq Reach([a \in D |-> h[a]], R)
<1> SUFFICES ASSUME NEW a \in D, NEW S \in SUBSET Addr,
                    R \cap Addr \subseteq S, Closed([b \in D |-> h[b]], S)
             PROVE  a \in S /\ a \in Addr
  BY DEF Reach
<1> DEFINE T == S \cap Reach(h, R)
<1>1. R \cap Addr \subseteq T /\ T \in SUBSET Addr
  BY ReachContains
<1>2. ASSUME NEW b \in T \cap DOMAIN h
      PROVE  Children(h[b]) \cap Addr \subseteq T
  <2>1. b \in S \cap D /\ b \in Reach(h, R) \cap DOMAIN h
    OBVIOUS
  <2>2. Children(h[b]) \cap Addr \subseteq S
    BY <2>1 DEF Closed
  <2>3. Children(h[b]) \cap Addr \subseteq Reach(h, R)
    BY <2>1, ReachClosed DEF Closed
  <2> QED BY <2>2, <2>3
<1>3. Closed(h, T)
  BY <1>2 DEF Closed
<1> HIDE DEF T
<1>4. a \in T
  BY <1>1, <1>3 DEF Reach
<1> QED BY <1>1, <1>4 DEF T

(* What is reachable stays so in a heap that agrees with the first where   *)
(* it can be reached.                                                      *)
LEMMA ReachAgrees ==
    ASSUME NEW h, NEW R, NEW K \in SUBSET Addr, R \cap Addr \subseteq K, Closed(h, K),
           K \subseteq Reach(h, R),
           NEW g, \A a \in K \cap DOMAIN h : a \in DOMAIN g /\ g[a] = h[a]
    PROVE  K \subseteq Reach(g, R)
<1> SUFFICES ASSUME NEW S \in SUBSET Addr, R \cap Addr \subseteq S, Closed(g, S)
             PROVE  K \subseteq S
  BY DEF Reach
<1>1. Closed(h, S \cap K)
  BY DEF Closed
<1>2. Reach(h, R) \subseteq S \cap K
  BY <1>1, ReachLeast
<1> QED BY <1>2

-----------------------------------------------------------------------------
(* Least elements.                                                         *)

(* Every set of naturals has a least element.                              *)
LEMMA LeastNatural ==
    ASSUME NEW T \in SUBSET Nat, T # {}
    PROVE  \E m \in T : \A n \in T : m <= n
<1> DEFINE R == OpToRel(<, Nat)
<1>1. IsWellFoundedOn(R, Nat)
  BY NatLessThanWellFounded
<1>2. \A x, y \in T : <<y, x>> \in R <=> y < x
  BY DEF OpToRel
<1> HIDE DEF R
<1>3. PICK m \in T : \A n \in T : <<n, m>> \notin R
  BY <1>1, WFMin
<1>4. ASSUME NEW n \in T PROVE m <= n
  <2>1. ~(n < m)
    BY <1>2, <1>3
  <2>2. m \in Nat /\ n \in Nat
    OBVIOUS
  <2> QED BY <2>1, <2>2
<1> QED
  BY <1>4

(* Every set of subsets of a finite set has a least one.                   *)
LEMMA SmallestSubset ==
    ASSUME NEW S, IsFiniteSet(S), NEW F \in SUBSET SUBSET S, F # {}
    PROVE  \E A \in F : \A B \in F : B \subseteq A => B = A
<1> DEFINE R == StrictSubsetOrdering(S)
<1>1. IsWellFoundedOn(R, FiniteSubsetsOf(S))
  BY FS_StrictSubsetOrderingWellFounded
<1>2. F \subseteq FiniteSubsetsOf(S)
  BY FS_FiniteSubsetsOfFinite
<1>3. \A A, B \in F : <<B, A>> \in R <=> (B \subseteq A /\ B # A)
  BY DEF StrictSubsetOrdering
<1> HIDE DEF R
<1>4. PICK A \in F : \A B \in F : <<B, A>> \notin R
  BY <1>1, <1>2, WFMin
<1>5. ASSUME NEW B \in F, B \subseteq A PROVE B = A
  BY <1>3, <1>4, <1>5
<1> QED BY <1>5

-----------------------------------------------------------------------------
(* Sums.  The fold that SumFunctionOnSet() stands for is a recursive       *)
(* function on the subsets of a set: it exists, is the same whatever set   *)
(* it is taken from, and may be begun at any element.                      *)

Some(s) == CHOOSE x \in s : TRUE

Iterates(g, f, T) ==
    g = [s \in SUBSET T |->
            IF s = {} THEN 0 ELSE f[Some(s)] + g[s \ {Some(s)}]]

LEMMA SumIs ==
    ASSUME NEW f, NEW S
    PROVE  SumFunctionOnSet(f, S) = (CHOOSE g : Iterates(g, f, S))[S]
BY DEF SumFunctionOnSet, FoldFunctionOnSet, MapThenFoldSet, Iterates, Some

LEMMA IterStep ==
    ASSUME NEW f, NEW T, NEW g, Iterates(g, f, T), NEW s \in SUBSET T
    PROVE  g[s] = IF s = {} THEN 0 ELSE f[Some(s)] + g[s \ {Some(s)}]
BY DEF Iterates

LEMMA SomeIsElement ==
    ASSUME NEW s, s # {}
    PROVE  Some(s) \in s
BY DEF Some

LEMMA IterUnique ==
    ASSUME NEW f, NEW T, NEW U, NEW g, Iterates(g, f, T), NEW h, Iterates(h, f, U),
           NEW s, IsFiniteSet(s), s \subseteq T, s \subseteq U
    PROVE  g[s] = h[s]
<1> DEFINE F == {A \in SUBSET s : g[A] # h[A]}
<1> SUFFICES ASSUME F # {} PROVE FALSE
  OBVIOUS
<1>0. F \in SUBSET SUBSET s
  OBVIOUS
<1> HIDE DEF F
<1>1. PICK A \in F : \A B \in F : B \subseteq A => B = A
  BY <1>0, SmallestSubset
<1> USE DEF F
<1>2. A \subseteq s /\ g[A] # h[A]
  OBVIOUS
<1>3. A # {}
  <2>1. g[{}] = 0 /\ h[{}] = 0
    BY IterStep
  <2> QED BY <1>2, <2>1
<1>4. Some(A) \in A
  BY <1>3, SomeIsElement
<1>5. g[A \ {Some(A)}] = h[A \ {Some(A)}]
  BY <1>1, <1>2, <1>4
<1> QED
  BY <1>2, <1>3, <1>5, IterStep

LEMMA IterExists ==
    ASSUME NEW f, NEW S, IsFiniteSet(S)
    PROVE  \E g : Iterates(g, f, S)
<1> DEFINE F == {T \in SUBSET S : ~ \E g : Iterates(g, f, T)}
<1> SUFFICES ASSUME F # {} PROVE FALSE
  OBVIOUS
<1>0. F \in SUBSET SUBSET S
  OBVIOUS
<1> HIDE DEF F
<1>1. PICK T \in F : \A B \in F : B \subseteq T => B = T
  BY <1>0, SmallestSubset
<1> USE DEF F
<1>2. T \subseteq S /\ ~ \E g : Iterates(g, f, T)
  OBVIOUS
<1>3. \A u : u \subseteq T /\ u # T => \E g : Iterates(g, f, u)
  BY <1>1, <1>2
<1> HIDE DEF F
<1> DEFINE It(u) == CHOOSE g : Iterates(g, f, u)
           H == [s \in SUBSET T |->
                    IF s = {} THEN 0 ELSE f[Some(s)] + It(s \ {Some(s)})[s \ {Some(s)}]]
<1>4. ASSUME NEW u, u \subseteq T, u # T PROVE Iterates(It(u), f, u) /\ IsFiniteSet(u)
  BY <1>2, <1>3, <1>4, FS_Subset
<1>5. \A s \in SUBSET T : H[s] =
          IF s = {} THEN 0 ELSE f[Some(s)] + It(s \ {Some(s)})[s \ {Some(s)}]
  OBVIOUS
<1> HIDE DEF It, H
<1>6. ASSUME NEW u, u \subseteq T, u # T PROVE H[u] = It(u)[u]
  <2>1. CASE u = {}
    <3>1. Iterates(It(u), f, u) /\ u \in SUBSET u /\ u \in SUBSET T
      BY <1>4, <1>6
    <3>2. It(u)[u] = 0
      BY <2>1, <3>1, IterStep
    <3> QED BY <1>5, <2>1, <3>1, <3>2
  <2>2. CASE u # {}
    <3> DEFINE w == u \ {Some(u)}
    <3>1. w \subseteq u /\ w \subseteq T /\ w # T
      BY <1>6, <2>2, SomeIsElement
    <3>2. /\ Iterates(It(u), f, u) /\ Iterates(It(w), f, w) /\ IsFiniteSet(w)
      BY <1>4, <1>6, <3>1
    <3>3. It(u)[w] = It(w)[w]
      BY <3>1, <3>2, IterUnique
    <3> QED
      BY <1>5, <1>6, <2>2, <3>2, <3>3, IterStep
  <2> QED BY <2>1, <2>2
<1>7. \A s \in SUBSET T : s # {} =>
          H[s \ {Some(s)}] = It(s \ {Some(s)})[s \ {Some(s)}]
  BY <1>6, SomeIsElement
<1>8. Iterates(H, f, T)
  <2>1. H = [s \in SUBSET T |-> H[s]]
    BY DEF H
  <2>2. \A s \in SUBSET T : H[s] = IF s = {} THEN 0 ELSE f[Some(s)] + H[s \ {Some(s)}]
    BY <1>5, <1>7
  <2> QED BY <2>1, <2>2, Zenon DEF Iterates
<1> QED
  BY <1>2, <1>8

LEMMA SumEmpty ==
    ASSUME NEW f
    PROVE  SumFunctionOnSet(f, {}) = 0
BY SumIs, IterExists, IterStep, FS_EmptySet

LEMMA SumFirst ==
    ASSUME NEW f, NEW S, IsFiniteSet(S), S # {}
    PROVE  SumFunctionOnSet(f, S)
             = f[Some(S)] + SumFunctionOnSet(f, S \ {Some(S)})
<1> DEFINE w == S \ {Some(S)}
           g == CHOOSE g : Iterates(g, f, S)
           h == CHOOSE h : Iterates(h, f, w)
<1>1. IsFiniteSet(w)
  BY FS_Subset
<1>2. Iterates(g, f, S) /\ Iterates(h, f, w)
  BY <1>1, IterExists
<1>3. SumFunctionOnSet(f, S) = g[S] /\ SumFunctionOnSet(f, w) = h[w]
  BY SumIs
<1> HIDE DEF g, h
<1>4. g[S] = f[Some(S)] + g[w]
  BY <1>2, IterStep
<1>5. g[w] = h[w]
  BY <1>1, <1>2, IterUnique
<1> QED BY <1>3, <1>4, <1>5

LEMMA SumType ==
    ASSUME NEW f, NEW S, IsFiniteSet(S), \A x \in S : f[x] \in Nat
    PROVE  SumFunctionOnSet(f, S) \in Nat
<1> DEFINE F == {A \in SUBSET S : SumFunctionOnSet(f, A) \notin Nat}
<1> SUFFICES ASSUME F # {} PROVE FALSE
  OBVIOUS
<1>0. F \in SUBSET SUBSET S
  OBVIOUS
<1> HIDE DEF F
<1>1. PICK A \in F : \A B \in F : B \subseteq A => B = A
  BY <1>0, SmallestSubset
<1> USE DEF F
<1>2. A \subseteq S /\ SumFunctionOnSet(f, A) \notin Nat /\ IsFiniteSet(A)
  BY FS_Subset
<1>3. A # {}
  BY <1>2, SumEmpty
<1>4. Some(A) \in A
  BY <1>3, SomeIsElement
<1>5. SumFunctionOnSet(f, A \ {Some(A)}) \in Nat
  BY <1>1, <1>2, <1>4
<1> QED
  BY <1>2, <1>3, <1>4, <1>5, SumFirst

(* Any element may be taken out first.                                     *)
LEMMA SumSplit ==
    ASSUME NEW f, NEW S, IsFiniteSet(S), \A x \in S : f[x] \in Nat, NEW e \in S
    PROVE  SumFunctionOnSet(f, S) = f[e] + SumFunctionOnSet(f, S \ {e})
<1> DEFINE F == {A \in SUBSET S : \E x \in A :
                    SumFunctionOnSet(f, A) # f[x] + SumFunctionOnSet(f, A \ {x})}
<1> SUFFICES ASSUME F # {} PROVE FALSE
  OBVIOUS
<1>0. F \in SUBSET SUBSET S
  OBVIOUS
<1> HIDE DEF F
<1>1. PICK A \in F : \A B \in F : B \subseteq A => B = A
  BY <1>0, SmallestSubset
<1> USE DEF F
<1>2. PICK x \in A : SumFunctionOnSet(f, A) # f[x] + SumFunctionOnSet(f, A \ {x})
  OBVIOUS
<1>3. A \subseteq S /\ IsFiniteSet(A)
  BY FS_Subset
<1> DEFINE y == Some(A)
           w == A \ {x, y}
<1>4. y \in A /\ SumFunctionOnSet(f, A) = f[y] + SumFunctionOnSet(f, A \ {y})
  BY <1>2, <1>3, SomeIsElement, SumFirst
<1> HIDE DEF y
<1>5. x # y
  BY <1>2, <1>4
<1>6. A \ {x} \notin F /\ A \ {y} \notin F
  BY <1>1, <1>2, <1>4
<1>7. SumFunctionOnSet(f, A \ {x}) = f[y] + SumFunctionOnSet(f, w)
  <2>1. y \in A \ {x} /\ (A \ {x}) \ {y} = w
    BY <1>4, <1>5
  <2> HIDE DEF w
  <2> QED BY <1>3, <1>6, <2>1
<1>8. SumFunctionOnSet(f, A \ {y}) = f[x] + SumFunctionOnSet(f, w)
  <2>1. x \in A \ {y} /\ (A \ {y}) \ {x} = w
    BY <1>4, <1>5
  <2> HIDE DEF w
  <2> QED BY <1>3, <1>6, <2>1
<1>9. SumFunctionOnSet(f, w) \in Nat /\ f[x] \in Nat /\ f[y] \in Nat
  <2>1. IsFiniteSet(w) /\ \A z \in w : f[z] \in Nat
    BY <1>3, FS_Subset
  <2> HIDE DEF w
  <2> QED BY <1>2, <1>3, <1>4, <2>1, SumType
<1> QED
  BY <1>2, <1>4, <1>7, <1>8, <1>9

(* Only the values on the set count.                                       *)
LEMMA SumSame ==
    ASSUME NEW f, NEW g, NEW S, IsFiniteSet(S), \A x \in S : f[x] = g[x]
    PROVE  SumFunctionOnSet(f, S) = SumFunctionOnSet(g, S)
<1> DEFINE F == {A \in SUBSET S : SumFunctionOnSet(f, A) # SumFunctionOnSet(g, A)}
<1> SUFFICES ASSUME F # {} PROVE FALSE
  OBVIOUS
<1>0. F \in SUBSET SUBSET S
  OBVIOUS
<1> HIDE DEF F
<1>1. PICK A \in F : \A B \in F : B \subseteq A => B = A
  BY <1>0, SmallestSubset
<1> USE DEF F
<1>2. /\ A \subseteq S /\ IsFiniteSet(A)
      /\ SumFunctionOnSet(f, A) # SumFunctionOnSet(g, A)
  BY FS_Subset
<1>3. A # {}
  BY <1>2, SumEmpty
<1>4. Some(A) \in A
  BY <1>3, SomeIsElement
<1>5. SumFunctionOnSet(f, A \ {Some(A)}) = SumFunctionOnSet(g, A \ {Some(A)})
  BY <1>1, <1>2, <1>4
<1> QED
  BY <1>2, <1>3, <1>4, <1>5, SumFirst

-----------------------------------------------------------------------------
(* The size of the blocks of a heap.                                       *)
LEMMA WordsType ==
    ASSUME NEW obj \in Object
    PROVE  Words(obj) \in Nat
BY DEF Object, Words, HeaderWords

LEMMA TotalWordsType ==
    ASSUME NEW h, NEW A, IsFiniteSet(A), A \subseteq DOMAIN h,
           \A a \in A : h[a] \in Object
    PROVE  TotalWords(h, A) \in Nat
<1> DEFINE f == [a \in DOMAIN h |-> Words(h[a])]
<1>1. \A a \in A : f[a] \in Nat
  BY WordsType
<1> HIDE DEF f
<1>2. SumFunctionOnSet(f, A) \in Nat
  BY <1>1, SumType
<1> QED BY <1>2 DEF TotalWords, f

LEMMA TotalWordsSame ==
    ASSUME NEW h, NEW g, NEW A, IsFiniteSet(A), A \subseteq DOMAIN h, A \subseteq DOMAIN g,
           \A a \in A : Words(h[a]) = Words(g[a])
    PROVE  TotalWords(h, A) = TotalWords(g, A)
<1> DEFINE f == [a \in DOMAIN h |-> Words(h[a])]
           e == [a \in DOMAIN g |-> Words(g[a])]
<1>1. \A a \in A : f[a] = e[a]
  OBVIOUS
<1> HIDE DEF f, e
<1>2. SumFunctionOnSet(f, A) = SumFunctionOnSet(e, A)
  BY <1>1, SumSame
<1> QED BY <1>2 DEF TotalWords, f, e

LEMMA TotalWordsWithout ==
    ASSUME NEW h, NEW A, IsFiniteSet(A), A \subseteq DOMAIN h,
           \A a \in A : h[a] \in Object, NEW b \in A
    PROVE  TotalWords(h, A) = Words(h[b]) + TotalWords(h, A \ {b})
<1> DEFINE f == [a \in DOMAIN h |-> Words(h[a])]
<1>1. f[b] = Words(h[b]) /\ \A a \in A : f[a] \in Nat
  BY WordsType
<1> HIDE DEF f
<1>2. SumFunctionOnSet(f, A) = f[b] + SumFunctionOnSet(f, A \ {b})
  BY <1>1, SumSplit
<1> QED BY <1>1, <1>2 DEF TotalWords, f

LEMMA EmptyHeapSize ==
    ASSUME NEW h, DOMAIN h = {}
    PROVE  TotalWords(h, DOMAIN h) = 0
BY SumEmpty DEF TotalWords

(* A block is added, a block is taken away.                                *)
LEMMA HeapGrows ==
    ASSUME NEW h, IsFiniteSet(DOMAIN h), \A b \in DOMAIN h : h[b] \in Object,
           NEW a, a \notin DOMAIN h, NEW obj \in Object,
           NEW g, g = [b \in DOMAIN h \cup {a} |-> IF b = a THEN obj ELSE h[b]]
    PROVE  TotalWords(g, DOMAIN g) = TotalWords(h, DOMAIN h) + Words(obj)
<1>1. IsFiniteSet(DOMAIN g)
  BY FS_AddElement
<1>2. /\ DOMAIN g = DOMAIN h \cup {a} /\ a \in DOMAIN g
      /\ DOMAIN g \ {a} = DOMAIN h /\ DOMAIN h \subseteq DOMAIN g
      /\ g[a] = obj /\ \A b \in DOMAIN h : g[b] = h[b]
      /\ \A b \in DOMAIN g : g[b] \in Object
  OBVIOUS
<1>3. TotalWords(g, DOMAIN g) = Words(obj) + TotalWords(g, DOMAIN h)
  BY <1>1, <1>2, TotalWordsWithout
<1>4. TotalWords(g, DOMAIN h) = TotalWords(h, DOMAIN h)
  BY <1>2, TotalWordsSame
<1>5. Words(obj) \in Nat /\ TotalWords(h, DOMAIN h) \in Nat
  BY WordsType, TotalWordsType
<1> QED BY <1>3, <1>4, <1>5

LEMMA HeapShrinks ==
    ASSUME NEW h, IsFiniteSet(DOMAIN h), \A b \in DOMAIN h : h[b] \in Object,
           NEW a \in DOMAIN h,
           NEW g, g = [b \in DOMAIN h \ {a} |-> h[b]]
    PROVE  TotalWords(g, DOMAIN g) = TotalWords(h, DOMAIN h) - Words(h[a])
<1>1. IsFiniteSet(DOMAIN g)
  BY FS_RemoveElement
<1>2. /\ DOMAIN g = DOMAIN h \ {a} /\ DOMAIN g \subseteq DOMAIN h
      /\ \A b \in DOMAIN g : g[b] = h[b] /\ h[b] \in Object
  OBVIOUS
<1>3. TotalWords(h, DOMAIN h) = Words(h[a]) + TotalWords(h, DOMAIN g)
  BY <1>2, TotalWordsWithout
<1>4. TotalWords(g, DOMAIN g) = TotalWords(h, DOMAIN g)
  BY <1>1, <1>2, TotalWordsSame
<1>5. Words(h[a]) \in Nat /\ TotalWords(h, DOMAIN g) \in Nat
  BY <1>1, <1>2, WordsType, TotalWordsType
<1> QED BY <1>3, <1>4, <1>5

-----------------------------------------------------------------------------
(* Chains of references.                                                   *)

(* An object on a chain is reachable from the children of those before it. *)
LEMMA PathReaches ==
    ASSUME NEW h, DOMAIN h \subseteq Addr, NEW n \in Nat, NEW p \in [1 .. n -> DOMAIN h],
           \A k \in 1 .. n : k + 1 <= n => p[k + 1] \in Children(h[p[k]]),
           NEW j \in 1 .. n, NEW k \in 1 .. n, j < k
    PROVE  p[k] \in Reach(h, Children(h[p[j]]))
<1> DEFINE R == Children(h[p[j]])
           T == {m \in 1 .. n : j < m /\ p[m] \notin Reach(h, R)}
<1>0. T \in SUBSET Nat
  OBVIOUS
<1> SUFFICES ASSUME T # {} PROVE FALSE
  OBVIOUS
<1> HIDE DEF T
<1>1. PICK m \in T : \A l \in T : m <= l
  BY <1>0, LeastNatural
<1>2. m \in 1 .. n /\ j < m /\ p[m] \notin Reach(h, R) /\ m - 1 \notin T
  BY <1>1 DEF T
<1>3. p[m] \in Children(h[p[m - 1]]) /\ p[m] \in Addr /\ p[m - 1] \in DOMAIN h
  BY <1>2
<1>4. CASE m - 1 = j
  BY <1>2, <1>3, <1>4, ReachContains
<1>5. CASE m - 1 # j
  <2>1. p[m - 1] \in Reach(h, R)
    BY <1>2, <1>5 DEF T
  <2>2. p[m] \in Reach(h, R)
    BY <1>3, <2>1, ReachClosed DEF Closed
  <2> QED BY <1>2, <2>2
<1> QED BY <1>4, <1>5

(* A chain of reachable objects is no longer than there are such objects,  *)
(* unless it comes back to where it was.                                   *)
LEMMA LongPath ==
    ASSUME NEW h, DOMAIN h \subseteq Addr, NEW R, IsFiniteSet(Reach(h, R)),
           NEW n \in Nat, NEW p \in [1 .. n -> DOMAIN h],
           \A k \in 1 .. n : p[k] \in Reach(h, R),
           \A k \in 1 .. n : k + 1 <= n => p[k + 1] \in Children(h[p[k]])
    PROVE  HasCycle(h, R) \/ n <= Cardinality(Reach(h, R))
<1> SUFFICES ASSUME ~HasCycle(h, R) PROVE n <= Cardinality(Reach(h, R))
  OBVIOUS
<1>1. ASSUME NEW j \in 1 .. n, NEW k \in 1 .. n, j < k PROVE p[j] # p[k]
  <2>1. p[k] \in Reach(h, Children(h[p[j]]))
    BY <1>1, PathReaches
  <2> QED BY <2>1 DEF HasCycle
<1>2. \A j, k \in 1 .. n : p[j] = p[k] => j = k
  BY <1>1
<1>3. p \in Injection(1 .. n, Reach(h, R))
  <2>1. p \in [1 .. n -> Reach(h, R)]
    OBVIOUS
  <2> QED BY <1>2, <2>1 DEF Injection, IsInjective
<1>4. IsFiniteSet(1 .. n) /\ Cardinality(1 .. n) = n
  BY FS_Interval
<1> QED BY <1>3, <1>4, FS_Injection
=============================================================================
