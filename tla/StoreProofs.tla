----------------------------- MODULE StoreProofs -----------------------------
(***************************************************************************)
(* The interpreter's memory is an object store: every step of a program    *)
(* that keeps the rules of module Bytecode is a step of ObjectStore, over  *)
(* the references in flagged registers and the accumulator, and what a     *)
(* collection leaves is all in use.                                        *)
(***************************************************************************)
EXTENDS BytecodeProofs

graph == [a \in DOMAIN heap |-> Children(heap[a])]

(* What a program can hold after a step without new objects.               *)
Readable == Roots \cup UNION {Children(heap[a]) : a \in Roots \cap DOMAIN heap}

-----------------------------------------------------------------------------
(* Roots, reference by reference.                                          *)
LEMMA RootsAre ==
    ASSUME NEW v
    PROVE  v \in Roots <=>
              /\ v # CHAI_NULL
              /\ \/ \E k \in 1 .. Len(frames) : v \in Flagged(frames[k])
                 \/ isAccRef /\ v = acc
BY DEF Roots

LEMMA RootsAfter ==
    ASSUME NEW v
    PROVE  v \in Roots' <=>
              /\ v # CHAI_NULL
              /\ \/ \E k \in 1 .. Len(frames') : v \in Flagged(frames'[k])
                 \/ isAccRef' /\ v = acc'
BY DEF Roots

(* A step that loads a reference into acc.                                 *)
LEMMA RootsLoaded ==
    ASSUME NEW S, frames' = frames, isAccRef' => acc' \in S \cup {CHAI_NULL}
    PROVE  Roots' \subseteq Roots \cup S
BY RootsAre, RootsAfter

(* A step that changes the current frame.                                  *)
LEMMA RootsReplaced ==
    ASSUME NEW S, NEW g \in Frame,
           frames \in Seq(Frame), frames # <<>>,
           frames' = [frames EXCEPT ![Len(frames)] = g],
           UNCHANGED <<acc, isAccRef>>,
           Flagged(g) \subseteq Flagged(CurrentFrame) \cup S \cup {CHAI_NULL}
    PROVE  Roots' \subseteq Roots \cup S
<1> SUFFICES ASSUME NEW v \in Roots', v \notin S
             PROVE  v \in Roots
  OBVIOUS
<1>1. /\ Len(frames') = Len(frames)
      /\ \A k \in 1 .. Len(frames) :
            frames'[k] = IF k = Len(frames) THEN g ELSE frames[k]
  BY FrameReplaced
<1>2. v # CHAI_NULL
  BY RootsAfter
<1>3. CASE isAccRef' /\ v = acc'
  BY <1>2, <1>3, RootsAre
<1>4. ASSUME NEW k \in 1 .. Len(frames), v \in Flagged(frames'[k])
      PROVE  v \in Flagged(frames[k])
  BY <1>1, <1>2, <1>4 DEF CurrentFrame
<1> QED
  BY <1>1, <1>2, <1>3, <1>4, RootsAre, RootsAfter

(* A frame without references is pushed; a frame is popped.                *)
LEMMA RootsPushed ==
    ASSUME NEW g \in Frame, Flagged(g) \subseteq {CHAI_NULL}, frames \in Seq(Frame),
           frames' = Append(frames, g), UNCHANGED <<acc, isAccRef>>
    PROVE  Roots' \subseteq Roots
<1>1. /\ Len(frames) \in Nat
      /\ Len(frames') = Len(frames) + 1
      /\ \A k \in 1 .. Len(frames) : frames'[k] = frames[k]
      /\ frames'[Len(frames) + 1] = g
  BY AppendProperties
<1>2. ASSUME NEW v, NEW k \in 1 .. Len(frames'), v \in Flagged(frames'[k]),
             v # CHAI_NULL
      PROVE  k \in 1 .. Len(frames) /\ v \in Flagged(frames[k])
  <2>1. k = Len(frames) + 1 => v \in Flagged(g)
    BY <1>1, <1>2
  <2> QED BY <1>1, <1>2, <2>1
<1>3. ASSUME NEW v \in Roots' PROVE v \in Roots
  <2>1. v # CHAI_NULL
    BY RootsAfter
  <2> QED BY <1>2, <2>1, RootsAre, RootsAfter
<1> QED BY <1>3

LEMMA RootsPopped ==
    ASSUME frames \in Seq(Frame), frames # <<>>,
           frames' = SubSeq(frames, 1, Len(frames) - 1),
           UNCHANGED <<acc, isAccRef>>
    PROVE  Roots' \subseteq Roots
<1> DEFINE m == Len(frames) - 1
<1>1. m \in Nat /\ m + 1 = Len(frames)
  BY EmptySeq
<1>2. \A k \in 1 .. m : frames[k] \in Frame
  BY <1>1, ElementOfSeq
<1> HIDE DEF m
<1>3. Len(SubSeq(frames, 1, m)) = m /\ \A k \in 1 .. m : SubSeq(frames, 1, m)[k] = frames[k]
  BY <1>1, <1>2, SubSeqProperties
<1>4. Len(frames') = m /\ \A k \in 1 .. m : frames'[k] = frames[k]
  BY <1>3 DEF m
<1>5. \A k \in 1 .. Len(frames') : k \in 1 .. Len(frames) /\ frames'[k] = frames[k]
  BY <1>1, <1>4
<1> QED BY <1>5, RootsAre, RootsAfter

-----------------------------------------------------------------------------
(* Steps of the object store.                                              *)

(* Copy: the heap is as it was and what is held was readable.              *)
LEMMA CopyStep ==
    ASSUME UNCHANGED heap, Roots' \subseteq Readable
    PROVE  Store!Next
<1>1. graph' = graph
  BY DEF graph
<1>2. DOMAIN graph = DOMAIN heap /\ \A a \in DOMAIN heap : graph[a] = Children(heap[a])
  BY DEF graph
<1>3. UNION {graph[a] : a \in Roots \cap DOMAIN graph}
        = UNION {Children(heap[a]) : a \in Roots \cap DOMAIN heap}
  BY <1>2
<1>4. Store!Copy
  BY <1>1, <1>3 DEF Store!Copy, Store!Existing, Readable, graph
<1> QED BY <1>4 DEF Store!Next

(* A new object without references, which alone may be newly held.         *)
LEMMA CreateStep ==
    ASSUME NEW a \in Addr \ DOMAIN heap, NEW obj, Children(obj) = {},
           heap' = [b \in DOMAIN heap \cup {a} |-> IF b = a THEN obj ELSE heap[b]],
           Roots' \subseteq Roots \cup {a}
    PROVE  Store!Next
<1>1. graph' = [b \in DOMAIN graph \cup {a} |-> IF b = a THEN {} ELSE graph[b]]
  BY DEF graph
<1>2. a \in Addr \ DOMAIN graph
  BY DEF graph
<1>3. Store!Create(a)
  BY <1>1, <1>2 DEF Store!Create, Store!Existing, graph
<1> QED BY <1>3 DEF Store!Next

(* A member overwritten by a held reference or by null.                    *)
LEMMA StoreStep ==
    ASSUME NEW a \in Addr, a \in Roots \cap DOMAIN heap,
           NEW obj, heap' = [heap EXCEPT ![a] = obj],
           Children(obj) \subseteq Addr,
           NEW b \in Roots, Children(obj) \subseteq Children(heap[a]) \cup {b},
           NEW c \in Addr, Children(heap[a]) \ {c} \subseteq Children(obj),
           Roots' = Roots
    PROVE  Store!Next
<1>1. graph' = [graph EXCEPT ![a] = Children(obj)]
  BY DEF graph
<1>2. graph[a] = Children(heap[a]) /\ DOMAIN graph = DOMAIN heap
  BY DEF graph
<1>3. Store!Store(a)
  BY <1>1, <1>2 DEF Store!Store, Store!Existing, graph
<1> QED BY <1>3 DEF Store!Next

(* A sweep keeps what held references lead to.                             *)
LEMMA DiscardStep ==
    ASSUME IInv, Roots' = Roots,
           heap' = [a \in DOMAIN heap \cap Reach(heap, Roots) |-> heap[a]]
    PROVE  Store!Next
<1> DEFINE A == DOMAIN heap \cap Reach(heap, Roots)
<1>1. graph' = [a \in A |-> graph[a]] /\ A \in SUBSET DOMAIN graph
  BY DEF graph
<1>2. Roots \subseteq Addr /\ DOMAIN heap \subseteq Addr
  BY NothingDangles, HeapType DEF NoDangling, IInv
<1>3. \A a \in DOMAIN heap : Children(heap[a]) \subseteq Addr
  BY <1>2 DEF IInv, MembersSafe
<1>4. Store!Live \subseteq Reach(heap, Roots)
  <2> SUFFICES ASSUME NEW a \in Store!Live, NEW S \in SUBSET Addr,
                      Roots \cap Addr \subseteq S, Closed(heap, S)
               PROVE  a \in S /\ a \in Addr
    BY DEF Reach, Store!Live
  <2>1. \A b \in S \cap DOMAIN graph : graph[b] \subseteq S
    BY <1>3 DEF Closed, graph
  <2>2. Roots \subseteq S
    BY <1>2
  <2> QED BY <2>1, <2>2 DEF Store!Live, Store!Existing, graph
<1>5. Store!Live \cap DOMAIN graph \subseteq A
  BY <1>4 DEF graph
<1> HIDE DEF A
<1>6. Store!Discard
  BY <1>1, <1>5 DEF Store!Discard, Store!Existing, graph
<1> QED BY <1>6 DEF Store!Next

-----------------------------------------------------------------------------
(* One lemma per handler, or family of handlers.                           *)

LEMMA SameRootsStep ==
    ASSUME UNCHANGED <<frames, acc, isAccRef, heap>>
    PROVE  Store!Next
BY RootsAre, RootsAfter, CopyStep DEF Readable

LEMMA EndStep == ASSUME NEW m, End(m) PROVE Store!Next
BY SameRootsStep DEF End

LEMMA AbortStep == ASSUME Abort PROVE Store!Next
BY EndStep DEF Abort

LEMMA ThrowStep == ASSUME Throw PROVE Store!Next
BY EndStep DEF Throw

LEMMA SteppingStep ==
    ASSUME \/ Nop \/ Inv \/ MovRef \/ IfAcmp \/ IfNull
           \/ \E r \in RegisterId : IfIcmp(r)
    PROVE  Store!Next
BY SameRootsStep, AbortStep, ThrowStep
   DEF Nop, Inv, MovRef, IfAcmp, IfNull, IfIcmp, Asserting, Step

(* Handlers that leave a value in the accumulator.                         *)
LEMMA LoadStep ==
    ASSUME UNCHANGED <<frames, heap>>,
           isAccRef' => acc' \in Readable \cup {CHAI_NULL}
    PROVE  Store!Next
<1>1. Roots' \subseteq Roots \cup Readable
  BY RootsLoaded
<1> QED BY <1>1, CopyStep DEF Readable

LEMMA ScalarStep ==
    ASSUME UNCHANGED <<frames, heap>>, NEW v, LoadScalar(v)
    PROVE  Store!Next
BY LoadStep DEF LoadScalar

(* A flagged register holds a held reference or null.                      *)
LEMMA FlaggedIsRoot ==
    ASSUME IInv, Running, NEW r, HasRegister(r), IsRegisterReference(r)
    PROVE  Register(r) \in Roots \cup {CHAI_NULL}
<1>1. CurrentFrame \in Frame /\ Len(frames) \in Nat /\ Len(frames) >= 1
  BY CurrentFrameType DEF IInv, Running
<1>2. DOMAIN CurrentFrame.isRegRef = DOMAIN CurrentFrame.registers
  BY <1>1, FrameType
<1>3. Register(r) \in Flagged(frames[Len(frames)])
  BY <1>2 DEF Flagged, Register, HasRegister, IsRegisterReference, CurrentFrame
<1> QED BY <1>1, <1>3, RootsAre

LEMMA LoadingStep ==
    ASSUME IInv,
           \/ \E v \in Scalar : Ldia(v)
           \/ \E v \in Value : ArithImm(v)
           \/ \E r \in RegisterId :
                 Ldra(r) \/ LdraRef(r) \/ \E v \in Value : Arith(r, v)
    PROVE  Store!Next
<1>1. CASE \E v \in Scalar : Ldia(v)
  BY <1>1, ScalarStep DEF Ldia
<1>2. CASE \E v \in Value : ArithImm(v)
  BY <1>2, ScalarStep, AbortStep DEF ArithImm, Asserting
<1>3. ASSUME NEW r \in RegisterId, Ldra(r) PROVE Store!Next
  BY <1>3, ScalarStep, AbortStep DEF Ldra, Asserting
<1>4. ASSUME NEW r \in RegisterId, LdraRef(r) PROVE Store!Next
  BY <1>4, FlaggedIsRoot, LoadStep, AbortStep DEF LdraRef, LoadRef, Asserting, Readable
<1>5. ASSUME NEW r \in RegisterId, NEW v \in Value, Arith(r, v) PROVE Store!Next
  BY <1>5, ScalarStep, AbortStep DEF Arith, Asserting
<1> QED BY <1>1, <1>2, <1>3, <1>4, <1>5

-----------------------------------------------------------------------------
(* Registers.                                                              *)

(* A write to an unflagged register changes no root.                       *)
LEMMA UnflaggedWritten ==
    ASSUME NEW f \in Frame, NEW r \in DOMAIN f.registers, ~f.isRegRef[r],
           NEW v \in Value
    PROVE  LET g == [f EXCEPT !.registers[r] = v]
           IN  g \in Frame /\ Flagged(g) \subseteq Flagged(f)
<1> DEFINE g == [f EXCEPT !.registers[r] = v]
<1>1. /\ f.func \in Func
      /\ f.registers \in [Registers(f.func) -> Value]
      /\ f.isRegRef \in [Registers(f.func) -> BOOLEAN]
      /\ f = [func |-> f.func, registers |-> f.registers,
              isRegRef |-> f.isRegRef]
  BY FrameType
<1>2. g = [func |-> f.func, registers |-> [f.registers EXCEPT ![r] = v],
           isRegRef |-> f.isRegRef]
  BY <1>1
<1>3. [f.registers EXCEPT ![r] = v] \in [Registers(f.func) -> Value]
  BY <1>1
<1> HIDE DEF g
<1>4. g \in Frame
  BY <1>1, <1>2, <1>3, FrameMade
<1>5. \A q \in DOMAIN g.isRegRef : g.isRegRef[q] =>
         q \in DOMAIN f.isRegRef /\ f.isRegRef[q] /\ g.registers[q] = f.registers[q]
  BY <1>1, <1>2
<1> QED BY <1>4, <1>5 DEF Flagged, g

(* A reference stored with its bit is one root more.                       *)
LEMMA FlaggedWritten ==
    ASSUME NEW f \in Frame, NEW r \in DOMAIN f.registers, NEW v \in Value
    PROVE  LET g == [f EXCEPT !.registers[r] = v, !.isRegRef[r] = TRUE]
           IN  g \in Frame /\ Flagged(g) \subseteq Flagged(f) \cup {v}
<1> DEFINE stored == [f EXCEPT !.registers[r] = v]
           regs == [f.registers EXCEPT ![r] = v]
           refs == [f.isRegRef EXCEPT ![r] = TRUE]
           g == [f EXCEPT !.registers[r] = v, !.isRegRef[r] = TRUE]
<1>1. /\ f.func \in Func
      /\ f.registers \in [Registers(f.func) -> Value]
      /\ f.isRegRef \in [Registers(f.func) -> BOOLEAN]
      /\ f = [func |-> f.func, registers |-> f.registers,
              isRegRef |-> f.isRegRef]
  BY FrameType
<1>2. stored = [func |-> f.func, registers |-> regs, isRegRef |-> f.isRegRef]
  BY <1>1
<1>3. g = [stored EXCEPT !.isRegRef[r] = TRUE]
  OBVIOUS
<1>4. regs \in [Registers(f.func) -> Value] /\ refs \in [Registers(f.func) -> BOOLEAN]
  BY <1>1
<1>5. \A q \in DOMAIN refs : refs[q] => q = r \/ (q \in DOMAIN f.isRegRef /\ f.isRegRef[q])
  BY <1>1
<1>6. \A q \in DOMAIN refs : regs[q] = IF q = r THEN v ELSE f.registers[q]
  BY <1>1
<1>7. stored.isRegRef = f.isRegRef
  BY <1>2
<1> HIDE DEF stored, regs
<1>8. [stored EXCEPT !.isRegRef[r] = TRUE] =
        [func |-> f.func, registers |-> regs,
         isRegRef |-> [stored.isRegRef EXCEPT ![r] = TRUE]]
  <2>1. ASSUME NEW b
        PROVE  [stored EXCEPT !.isRegRef[r] = b] =
                 [func |-> f.func, registers |-> regs,
                  isRegRef |-> [stored.isRegRef EXCEPT ![r] = b]]
    BY <1>2, FlagSet
  <2> QED BY <2>1, Zenon
<1> HIDE DEF g
<1>9. g = [func |-> f.func, registers |-> regs, isRegRef |-> refs]
  BY <1>3, <1>7, <1>8
<1> HIDE DEF refs
<1>10. g \in Frame
  BY <1>1, <1>4, <1>9, FrameMade
<1>11. g.isRegRef = refs /\ g.registers = regs
  BY <1>9
<1>12. Flagged(g) \subseteq Flagged(f) \cup {v}
  <2> SUFFICES ASSUME NEW q \in DOMAIN refs, refs[q]
               PROVE  regs[q] \in Flagged(f) \cup {v}
    BY <1>11 DEF Flagged
  <2> QED BY <1>5, <1>6 DEF Flagged
<1> QED BY <1>10, <1>12 DEF g

LEMMA ScalarStored ==
    ASSUME IInv, Running, UNCHANGED <<acc, isAccRef, heap>>,
           NEW r, HasRegister(r), ~IsRegisterReference(r),
           NEW v \in Value, SetRegister(r, v)
    PROVE  Store!Next
<1> DEFINE g == [CurrentFrame EXCEPT !.registers[r] = v]
<1>1. /\ CurrentFrame \in Frame /\ frames \in Seq(Frame) /\ frames # <<>>
      /\ Len(frames) \in Nat /\ Len(frames) >= 1
  BY CurrentFrameType DEF IInv, Running
<1>2. frames' = [frames EXCEPT ![Len(frames)] = g]
  BY <1>1 DEF SetRegister, CurrentFrame
<1>3. g \in Frame /\ Flagged(g) \subseteq Flagged(CurrentFrame)
  BY <1>1, UnflaggedWritten DEF HasRegister, IsRegisterReference
<1> HIDE DEF g
<1>4. Roots' \subseteq Roots \cup {}
  BY <1>1, <1>2, <1>3, RootsReplaced
<1> QED BY <1>4, CopyStep DEF Readable

LEMMA ReferenceStored ==
    ASSUME IInv, Running, UNCHANGED <<acc, isAccRef, heap>>,
           NEW r, HasRegister(r),
           NEW v \in Value, v \in Roots \cup {CHAI_NULL}, SetReference(r, v)
    PROVE  Store!Next
<1> DEFINE g == [CurrentFrame EXCEPT !.registers[r] = v, !.isRegRef[r] = TRUE]
<1>1. /\ CurrentFrame \in Frame /\ frames \in Seq(Frame) /\ frames # <<>>
      /\ Len(frames) \in Nat /\ Len(frames) >= 1
  BY CurrentFrameType DEF IInv, Running
<1>2. frames' = [frames EXCEPT ![Len(frames)] = g]
  BY <1>1 DEF SetReference, CurrentFrame
<1>3. g \in Frame /\ Flagged(g) \subseteq Flagged(CurrentFrame) \cup {v}
  BY <1>1, FlaggedWritten DEF HasRegister
<1> HIDE DEF g
<1>4. Flagged(g) \subseteq Flagged(CurrentFrame) \cup Roots \cup {CHAI_NULL}
  BY <1>3
<1>5. Roots' \subseteq Roots \cup Roots
  BY <1>1, <1>2, <1>3, <1>4, RootsReplaced
<1> QED BY <1>5, CopyStep DEF Readable

LEMMA StoringStep ==
    ASSUME IInv, NEW r \in RegisterId,
           \/ Star(r) /\ Reusable(r)
           \/ StarRef(r)
           \/ \E q \in RegisterId : Mov(r, q) /\ Reusable(q)
    PROVE  Store!Next
<1>0. acc \in Value
  BY DEF IInv, TypeOK
<1>1. CASE Star(r) /\ Reusable(r)
  BY <1>0, <1>1, ScalarStored, AbortStep DEF Star, Reusable, Asserting
<1>2. CASE StarRef(r)
  <2>1. isAccRef => acc \in Roots \cup {CHAI_NULL}
    BY RootsAre
  <2> QED BY <1>0, <1>2, <2>1, ReferenceStored, AbortStep DEF StarRef, Asserting
<1>3. ASSUME NEW q \in RegisterId, Mov(r, q), Reusable(q) PROVE Store!Next
  BY <1>3, RegisterType, ScalarStored, AbortStep DEF Mov, Reusable, Asserting
<1> QED BY <1>1, <1>2, <1>3

-----------------------------------------------------------------------------
(* Allocation.                                                             *)
LEMMA AllocateStep ==
    ASSUME NEW obj, Children(obj) = {}, Allocate(obj)
    PROVE  Store!Next
<1>1. ASSUME NEW a \in Addr \ DOMAIN heap,
             heap' = [b \in DOMAIN heap \cup {a} |-> IF b = a THEN obj ELSE heap[b]],
             LoadRef(a), UNCHANGED frames
      PROVE  Store!Next
  <2>1. Roots' \subseteq Roots \cup {a}
    BY <1>1, RootsLoaded DEF LoadRef
  <2> QED BY <1>1, <2>1, CreateStep
<1> QED BY <1>1, ThrowStep DEF Allocate

LEMMA AllocatingStep ==
    ASSUME \/ \E imm \in Immidiate : AllocRef(imm)
           \/ NewRefArr /\ (acc \in Scalar => Measured(acc))
    PROVE  Store!Next
<1>1. ASSUME NEW imm \in Immidiate, AllocRef(imm) PROVE Store!Next
  BY <1>1, NewInstanceIsEmpty, AllocateStep, AbortStep DEF AllocRef, Asserting
<1>2. CASE NewRefArr /\ (acc \in Scalar => Measured(acc))
  <2>1. CASE acc \in Scalar /\ Measured(acc) /\ Allocate(NewArray(acc))
    BY <2>1, NewArrayIsEmpty, AllocateStep DEF Measured
  <2> QED BY <1>2, <2>1, ThrowStep, AbortStep DEF NewRefArr, Asserting
<1> QED BY <1>1, <1>2

-----------------------------------------------------------------------------
(* Members.                                                                *)

(* A member read from the object acc names is readable.                    *)
LEMMA MemberIsReadable ==
    ASSUME isAccRef, NotNull, acc \in DOMAIN heap, NEW i \in RefSlots(Target)
    PROVE  Target.members[i] \in Readable \cup {CHAI_NULL}
<1>1. acc \in Roots
  BY RootsAre DEF NotNull
<1>2. Target.members[i] \in Children(heap[acc]) \cup {CHAI_NULL}
  BY DEF Children, Target
<1> QED BY <1>1, <1>2 DEF Readable

(* A member overwritten by a held reference, by null or, where no          *)
(* reference is, by a scalar.                                              *)
LEMMA MemberStep ==
    ASSUME IInv, isAccRef, NotNull, UNCHANGED <<frames, acc, isAccRef>>,
           NEW i \in 1 .. Len(Target.members), NEW v \in Value,
           i \in RefSlots(Target) => v \in Roots \cup {CHAI_NULL},
           SetMember(i, v)
    PROVE  Store!Next
<1> DEFINE obj == heap[acc]
           new == [obj EXCEPT !.members[i] = v]
           D == DOMAIN heap
<1>1. /\ acc \in D /\ obj \in Object /\ WellFormedObject(obj)
      /\ Children(obj) \subseteq D
      /\ i \in 1 .. Len(obj.members)
  BY TargetType DEF Target
<1>2. Roots \subseteq D /\ D \subseteq Addr
  BY NothingDangles, HeapType DEF NoDangling, IInv
<1>3. Children(new) \subseteq D
  <2>1. i \in RefSlots(obj) => v \in D \cup {CHAI_NULL}
    BY <1>2 DEF Target
  <2> QED BY <1>1, <2>1, MemberWritten
<1>4. PICK b \in Roots : Children(new) \subseteq Children(obj) \cup {b}
  <2> DEFINE E == Children(obj) \cup (IF i \in RefSlots(obj) THEN {v} \ {CHAI_NULL} ELSE {})
  <2>1. i \in RefSlots(obj) => v \in E \cup {CHAI_NULL}
    OBVIOUS
  <2>2. Children(obj) \subseteq E
    OBVIOUS
  <2>3. Children(new) \subseteq E
    <3> HIDE DEF E
    <3> QED BY <1>1, <2>1, <2>2, MemberWritten
  <2>4. acc \in Roots
    BY RootsAre DEF NotNull
  <2>5. i \in RefSlots(obj) => v \in Roots \cup {CHAI_NULL}
    BY DEF Target
  <2>6. CASE i \in RefSlots(obj) /\ v \in Roots
    BY <2>3, <2>6
  <2>7. CASE ~(i \in RefSlots(obj) /\ v \in Roots)
    BY <2>3, <2>4, <2>5, <2>7
  <2> QED BY <2>6, <2>7
<1>5. PICK c \in Addr : Children(obj) \ {c} \subseteq Children(new)
  <2>1. Children(obj) \ {obj.members[i]} \subseteq Children(new)
    BY <1>1, MemberLost
  <2>2. CASE obj.members[i] \in Addr
    BY <2>1, <2>2
  <2>3. CASE obj.members[i] \notin Addr
    BY <1>1, <1>2, <2>1, <2>3
  <2> QED BY <2>2, <2>3
<1>6. heap' = [heap EXCEPT ![acc] = new]
  BY DEF SetMember
<1>7. Roots' = Roots /\ acc \in Roots
  BY RootsAre, RootsAfter DEF NotNull
<1> HIDE DEF new
<1> QED BY <1>1, <1>2, <1>3, <1>4, <1>5, <1>6, <1>7, StoreStep

LEMMA ElementsStep ==
    ASSUME IInv, NEW r \in RegisterId, IsArrayRef,
           GetRefFromArr(r) \/ \E q \in RegisterId : SetRefInArr(r, q)
    PROVE  Store!Next
<1>1. isAccRef =>
        /\ acc \in DOMAIN heap /\ Target \in Object /\ IsArray(Target)
        /\ HasMember(1) /\ Len(Target.members) \in Nat
  <2> SUFFICES ASSUME isAccRef
               PROVE  /\ acc \in DOMAIN heap /\ Target \in Object /\ IsArray(Target)
                      /\ HasMember(1) /\ Len(Target.members) \in Nat
    OBVIOUS
  <2>1. /\ acc \in DOMAIN heap /\ Target \in Object
        /\ WellFormedObject(Target) /\ IsArray(Target)
    BY TargetType DEF IsArrayRef
  <2>2. Len(Target.members) \in Nat /\ Len(Target.members) >= 1
    BY <2>1 DEF WellFormedObject, Object
  <2> QED BY <2>1, <2>2 DEF HasMember
<1>2. ASSUME isAccRef, ElementExists(r)
      PROVE  ElementSlot(Target, Register(r)) \in RefSlots(Target)
  <2>1. Register(r) \in Int
    BY <1>2, HeapAssumption DEF ElementExists
  <2> QED BY <1>1, <1>2, <2>1 DEF RefSlots, ElementExists, ElementInBounds,
                                  ElementSlot, ElementIndex, ArrayLength
<1>3. CASE GetRefFromArr(r)
  <2>1. CASE Abort \/ Throw
    BY <2>1, AbortStep, ThrowStep
  <2>2. CASE /\ isAccRef /\ ElementExists(r)
             /\ LoadRef(Target.members[ElementSlot(Target, Register(r))])
             /\ UNCHANGED <<frames, heap>>
    BY <1>1, <1>2, <2>2, MemberIsReadable, LoadStep DEF IsArrayRef, LoadRef
  <2> QED BY <1>1, <1>3, <2>1, <2>2 DEF GetRefFromArr, Asserting
<1>4. ASSUME NEW q \in RegisterId, SetRefInArr(r, q) PROVE Store!Next
  <2>1. CASE Abort \/ Throw
    BY <2>1, AbortStep, ThrowStep
  <2>2. CASE /\ Running /\ isAccRef /\ ElementExists(r)
             /\ HasRegister(q) /\ IsRegisterReference(q)
             /\ SetMember(ElementSlot(Target, Register(r)), Register(q))
             /\ UNCHANGED <<frames, acc, isAccRef>>
    <3>1. ElementSlot(Target, Register(r)) \in 1 .. Len(Target.members)
      BY <2>2, ElementType
    <3>2. Register(q) \in Value /\ Register(q) \in Roots \cup {CHAI_NULL}
      BY <2>2, RegisterType, FlaggedIsRoot
    <3>3. NotNull
      BY DEF IsArrayRef
    <3> QED BY <2>2, <3>1, <3>2, <3>3, MemberStep
  <2> QED BY <1>1, <1>4, <2>1, <2>2 DEF SetRefInArr, Asserting
<1> QED BY <1>3, <1>4

LEMMA FieldsStep ==
    ASSUME IInv, NEW o \in Offset, IsObjectWith(o),
           GetField(o) \/ \E r \in RegisterId : SetField(o, r)
    PROVE  Store!Next
<1>0. NotNull
  BY DEF IsObjectWith
<1>1. CASE GetField(o)
  <2>1. CASE Abort
    BY <2>1, AbortStep
  <2>2. CASE /\ isAccRef
             /\ acc' = Target.members[MemberAt(o)]
             /\ isAccRef' = FieldIsObject(o)
             /\ UNCHANGED <<frames, heap>>
    <3>1. acc \in DOMAIN heap
      BY <2>2, TargetType, <1>0
    <3>2. isAccRef' => MemberAt(o) \in RefSlots(Target)
      BY <2>2, FieldType
    <3> QED BY <1>0, <2>2, <3>1, <3>2, MemberIsReadable, LoadStep
  <2> QED BY <1>1, <2>1, <2>2, FieldType DEF GetField, Asserting
<1>2. ASSUME NEW r \in RegisterId, SetField(o, r) PROVE Store!Next
  <2>1. CASE Abort
    BY <2>1, AbortStep
  <2>2. CASE /\ Running /\ isAccRef /\ HasRegister(r) /\ FitsField(o, r)
             /\ SetMember(MemberAt(o), Register(r))
             /\ UNCHANGED <<frames, acc, isAccRef>>
    <3>1. MemberAt(o) \in 1 .. Len(Target.members)
      BY <2>2, FieldType DEF HasMember
    <3>2. Register(r) \in Value
      BY <2>2, RegisterType
    <3>3. MemberAt(o) \in RefSlots(Target) => IsRegisterReference(r)
      BY <2>2, FieldType DEF FitsField
    <3>4. MemberAt(o) \in RefSlots(Target) => Register(r) \in Roots \cup {CHAI_NULL}
      BY <2>2, <3>3, FlaggedIsRoot
    <3> QED BY <1>0, <2>2, <3>1, <3>2, <3>4, MemberStep
  <2> QED BY <1>2, <2>1, <2>2, FieldType DEF SetField, Asserting
<1> QED BY <1>1, <1>2

-----------------------------------------------------------------------------
(* Calls, returns and collections.                                         *)
LEMMA PushStep ==
    ASSUME IInv, NEW g \in Frame, \A D : SafeFrame(g, D),
           UNCHANGED <<acc, isAccRef, heap>>, frames' = Append(frames, g)
    PROVE  Store!Next
<1>1. Flagged(g) \subseteq {CHAI_NULL}
  <2>1. SafeFrame(g, {})
    OBVIOUS
  <2> QED BY <2>1 DEF SafeFrame, Flagged
<1>2. frames \in Seq(Frame)
  BY DEF IInv, TypeOK
<1> QED BY <1>1, <1>2, RootsPushed, CopyStep DEF Readable

LEMMA CallStep ==
    ASSUME IInv, NEW f \in Func, Call(f)
    PROVE  Store!Next
BY PassArgsType, PushStep, AbortStep, ThrowStep DEF Call

LEMMA RunStep ==
    ASSUME IInv, Run
    PROVE  Store!Next
<1>1. CASE Abort
  BY <1>1, AbortStep
<1>2. CASE /\ frames = <<>> /\ frames' = <<NewFrame(Main)>>
           /\ UNCHANGED <<acc, isAccRef, heap>>
  <2>1. NewFrame(Main) \in Frame /\ \A D : SafeFrame(NewFrame(Main), D)
    BY NewFrameType, ExecutorAssumption
  <2>2. frames' = Append(frames, NewFrame(Main))
    BY <1>2
  <2> QED BY <1>2, <2>1, <2>2, PushStep
<1> QED BY <1>1, <1>2 DEF Run

LEMMA RetStep ==
    ASSUME IInv, Ret
    PROVE  Store!Next
<1>1. frames \in Seq(Frame) /\ frames # <<>>
  BY CurrentFrameType DEF IInv, Ret, Running
<1>2. Roots' \subseteq Roots
  BY <1>1, RootsPopped DEF Ret
<1> QED BY <1>2, CopyStep DEF Ret, Readable

LEMMA TriggerGCStep ==
    ASSUME IInv, TriggerGC
    PROVE  Store!Next
<1>1. CASE UNCHANGED heap
  BY <1>1, SameRootsStep DEF TriggerGC
<1>2. CASE Sweep
  <2>1. Roots' = Roots
    BY RootsAre, RootsAfter DEF TriggerGC
  <2>2. heap' = [a \in DOMAIN heap \cap Reach(heap, Roots) |-> heap[a]]
    BY <1>2 DEF Sweep, Restrict
  <2> QED BY <2>1, <2>2, DiscardStep
<1> QED BY <1>1, <1>2 DEF TriggerGC

-----------------------------------------------------------------------------
(* The theorems.                                                           *)
LEMMA NextIsStoreStep ==
    ASSUME IInv, DisciplinedNext
    PROVE  Store!Next
<1>1. CASE Run \/ TriggerGC \/ Ret \/ \E f \in Func : Call(f)
  BY <1>1, RunStep, TriggerGCStep, RetStep, CallStep
<1>2. CASE \/ Nop \/ Inv \/ MovRef \/ IfAcmp \/ IfNull
           \/ \E r \in RegisterId : IfIcmp(r)
  BY <1>2, SteppingStep
<1>3. CASE \/ \E v \in Scalar : Ldia(v)
           \/ \E v \in Value : ArithImm(v)
           \/ \E r \in RegisterId :
                 Ldra(r) \/ LdraRef(r) \/ \E v \in Value : Arith(r, v)
  BY <1>3, LoadingStep
<1>4. CASE \E r \in RegisterId :
              \/ Star(r) /\ Reusable(r)
              \/ StarRef(r)
              \/ \E q \in RegisterId : Mov(r, q) /\ Reusable(q)
  BY <1>4, StoringStep
<1>5. CASE \/ \E imm \in Immidiate : AllocRef(imm)
           \/ NewRefArr /\ (acc \in Scalar => Measured(acc))
  BY <1>5, AllocatingStep
<1>6. CASE \E r \in RegisterId :
              /\ IsArrayRef
              /\ GetRefFromArr(r) \/ \E q \in RegisterId : SetRefInArr(r, q)
  BY <1>6, ElementsStep
<1>7. CASE \E o \in Offset :
              /\ IsObjectWith(o)
              /\ GetField(o) \/ \E r \in RegisterId : SetField(o, r)
  BY <1>7, FieldsStep
<1> QED
  BY <1>1, <1>2, <1>3, <1>4, <1>5, <1>6, <1>7, Zenon DEF DisciplinedNext, DisciplinedStep

(* The executor with its collector is an object store, for any functions,  *)
(* klasses, heap and program that keeps the rules: no handler forges a     *)
(* reference, a store changes one member, and what a program can reach     *)
(* never disappears (executor.cpp, garbage-collector.cpp:12-101).          *)
THEOREM ExecutorIsStore == DisciplinedSpec => ImplementsObjectStore
<1>1. Init => Store!Init
  <2> SUFFICES ASSUME Init PROVE Store!Init
    OBVIOUS
  <2>1. Len(frames) = 0 /\ DOMAIN heap = {} /\ ~isAccRef
    BY DEF Init
  <2>2. Roots = {}
    BY <2>1, RootsAre
  <2> QED BY <2>1, <2>2 DEF Store!Init
<1>2. IInv /\ [DisciplinedNext]_vars => [Store!Next]_(Store!vars)
  <2>1. IInv /\ UNCHANGED vars => Store!Next
    BY SameRootsStep DEF vars
  <2> QED BY <2>1, NextIsStoreStep
<1> QED BY <1>1, <1>2, Inductive, PTL DEF DisciplinedSpec, ImplementsObjectStore, Store!Spec

-----------------------------------------------------------------------------
(* No garbage over the threshold.                                          *)

(* A handler never leaves the executor ready for the next one: triggerGC() *)
(* comes first.                                                            *)
LEMMA HandlersDispatch ==
    ASSUME DisciplinedStep
    PROVE  ~Running'
<1> DEFINE Ends == triggered' = FALSE \/ mode' # "running"
<1>1. Abort \/ Throw \/ Undefined \/ Continue => Ends
  BY DEF Abort, Throw, Undefined, End, Continue
<1> SUFFICES Ends
  BY DEF Running
<1> HIDE DEF Ends
<1>2. CASE Run \/ Ret \/ \E f \in Func : Call(f)
  BY <1>1, <1>2 DEF Run, Ret, Call, Ends
<1>3. CASE \/ Nop \/ Inv \/ MovRef \/ IfAcmp \/ IfNull
           \/ \E r \in RegisterId : IfIcmp(r)
  BY <1>1, <1>3 DEF Nop, Inv, MovRef, IfAcmp, IfNull, IfIcmp, Asserting, Step
<1>4. CASE \/ \E v \in Scalar : Ldia(v)
           \/ \E v \in Value : ArithImm(v)
           \/ \E r \in RegisterId :
                 Ldra(r) \/ LdraRef(r) \/ \E v \in Value : Arith(r, v)
  BY <1>1, <1>4 DEF Ldia, ArithImm, Ldra, LdraRef, Arith, Asserting
<1>5. CASE \E r \in RegisterId :
              Star(r) \/ StarRef(r) \/ \E q \in RegisterId : Mov(r, q)
  BY <1>1, <1>5 DEF Star, StarRef, Mov, Asserting
<1>6. CASE NewRefArr \/ \E imm \in Immidiate : AllocRef(imm)
  <2>1. \A obj : Allocate(obj) => Ends
    BY <1>1 DEF Allocate
  <2> QED BY <1>1, <1>6, <2>1 DEF NewRefArr, AllocRef, Asserting
<1>7. CASE \E r \in RegisterId :
              GetRefFromArr(r) \/ \E q \in RegisterId : SetRefInArr(r, q)
  BY <1>1, <1>7 DEF GetRefFromArr, SetRefInArr, Asserting
<1>8. CASE \E o \in Offset :
              GetField(o) \/ \E r \in RegisterId : SetField(o, r)
  BY <1>1, <1>8 DEF GetField, SetField, Asserting
<1> QED
  BY <1>2, <1>3, <1>4, <1>5, <1>6, <1>7, <1>8, Zenon DEF DisciplinedStep

(* No handler starts over the threshold with garbage in the heap: one that *)
(* runs out of memory has live objects to blame, or an allocator that was  *)
(* under its threshold (executor.cpp:10-16, 582-587).                      *)
THEOREM GarbageIsCollected == DisciplinedSpec => []NoGarbageWhenTight
<1>1. Init => NoGarbageWhenTight
  BY DEF Init, NoGarbageWhenTight, Running
<1>2. NoGarbageWhenTight /\ [DisciplinedNext]_vars => NoGarbageWhenTight'
  <2>1. ASSUME NoGarbageWhenTight, UNCHANGED vars PROVE NoGarbageWhenTight'
    <3>1. Roots' = Roots
      BY <2>1, RootsAre, RootsAfter DEF vars
    <3>2. Reach(heap, Roots)' = Reach(heap, Roots)
      BY <2>1, <3>1 DEF vars
    <3> QED BY <2>1, <3>2 DEF vars, NoGarbageWhenTight, Running, OverThreshold
  <2>2. ASSUME DisciplinedStep PROVE NoGarbageWhenTight'
    BY <2>2, HandlersDispatch DEF NoGarbageWhenTight
  <2>3. ASSUME TriggerGC PROVE NoGarbageWhenTight'
    <3>1. CASE ~OverThreshold /\ UNCHANGED allocated
      BY <3>1 DEF NoGarbageWhenTight, OverThreshold
    <3>2. CASE mode' \in MarkFaults
      BY <3>2 DEF MarkFaults, Dead, NoGarbageWhenTight, Running
    <3>3. CASE Sweep
      <4> DEFINE D == DOMAIN heap \cap Reach(heap, Roots)
      <4>1. heap' = [a \in D |-> heap[a]] /\ DOMAIN heap' = D
        BY <3>3 DEF Sweep, Restrict
      <4>2. Roots' = Roots
        BY <2>3, RootsAre, RootsAfter DEF TriggerGC
      <4>3. D \subseteq Reach([a \in D |-> heap[a]], Roots)
        BY ReachSurvives
      <4> HIDE DEF D
      <4>4. DOMAIN heap' \subseteq Reach(heap', Roots')
        BY <4>1, <4>2, <4>3
      <4> QED BY <4>4 DEF NoGarbageWhenTight
    <3> QED BY <2>3, <3>1, <3>2, <3>3 DEF TriggerGC
  <2> QED BY <2>1, <2>2, <2>3 DEF DisciplinedNext
<1> QED BY <1>1, <1>2, PTL DEF DisciplinedSpec
=============================================================================
