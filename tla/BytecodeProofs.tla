--------------------------- MODULE BytecodeProofs ---------------------------
(***************************************************************************)
(* Memory safety of the interpreter: a program that keeps the rules of     *)
(* module Bytecode never holds a dangling reference and never makes a      *)
(* handler or the collector touch memory that is not an object, whatever   *)
(* the functions, klasses, memory sizes and instructions.                  *)
(*                                                                         *)
(* NoDangling speaks of Roots, a union over frames; the inductive          *)
(* invariant says the same frame by frame, so that a step that changes one *)
(* frame disturbs one conjunct, and adds what the handlers rely on: a      *)
(* block has as many members as its klass says, and there is a frame       *)
(* while a program runs.                                                   *)
(***************************************************************************)
EXTENDS Bytecode, HeapProofs

SafeFrame(f, D) ==
    \A r \in DOMAIN f.isRegRef :
        f.isRegRef[r] => f.registers[r] \in D \cup {CHAI_NULL}

FramesThere == mode = "running" => frames # <<>>
FramesSafe == \A k \in 1 .. Len(frames) : SafeFrame(frames[k], DOMAIN heap)
AccSafe == isAccRef => acc \in DOMAIN heap \cup {CHAI_NULL}
MembersSafe == \A a \in DOMAIN heap : Children(heap[a]) \subseteq DOMAIN heap
WellFormed == \A a \in DOMAIN heap : WellFormedObject(heap[a])

IInv ==
    /\ TypeOK
    /\ FramesThere
    /\ FramesSafe
    /\ AccSafe
    /\ MembersSafe
    /\ WellFormed
    /\ NeverUndefined

-----------------------------------------------------------------------------
(* Types of frames.                                                        *)

(* A frame is that of one function: three fields, of its size.             *)
LEMMA FrameType ==
    ASSUME NEW f \in Frame
    PROVE  /\ f.func \in Func
           /\ f.registers \in [Registers(f.func) -> Value]
           /\ f.isRegRef \in [Registers(f.func) -> BOOLEAN]
           /\ f = [func |-> f.func, registers |-> f.registers,
                   isRegRef |-> f.isRegRef]
<1>1. PICK g \in Func : f \in FrameOf(g)
  BY DEF Frame
<1> QED
  BY <1>1 DEF FrameOf

(* A frame of a function, from its registers and bits.                     *)
LEMMA FrameMade ==
    ASSUME NEW g \in Func,
           NEW regs \in [Registers(g) -> Value],
           NEW refs \in [Registers(g) -> BOOLEAN]
    PROVE  [func |-> g, registers |-> regs, isRegRef |-> refs] \in Frame
<1>1. [func |-> g, registers |-> regs, isRegRef |-> refs] \in FrameOf(g)
  BY DEF FrameOf
<1> QED
  BY <1>1 DEF Frame

(* Putting another frame in place of the current one.                      *)
LEMMA FrameReplaced ==
    ASSUME NEW fr \in Seq(Frame), fr # <<>>, NEW g \in Frame
    PROVE  /\ [fr EXCEPT ![Len(fr)] = g] \in Seq(Frame)
           /\ [fr EXCEPT ![Len(fr)] = g] # <<>>
           /\ Len([fr EXCEPT ![Len(fr)] = g]) = Len(fr)
           /\ \A k \in 1 .. Len(fr) :
                 [fr EXCEPT ![Len(fr)] = g][k] = IF k = Len(fr) THEN g ELSE fr[k]
<1> DEFINE new == [fr EXCEPT ![Len(fr)] = g]
<1>1. /\ Len(fr) \in Nat /\ Len(fr) >= 1
      /\ DOMAIN fr = 1 .. Len(fr)
      /\ \A k \in 1 .. Len(fr) : fr[k] \in Frame
  OBVIOUS
<1>2. /\ DOMAIN new = 1 .. Len(fr)
      /\ \A k \in 1 .. Len(fr) : new[k] = IF k = Len(fr) THEN g ELSE fr[k]
  BY <1>1
<1>3. \A k \in 1 .. Len(fr) : new[k] \in Frame
  BY <1>1, <1>2
<1>4. new = [k \in 1 .. Len(fr) |-> new[k]]
  BY <1>2
<1>5. new \in [1 .. Len(fr) -> Frame]
  BY <1>3, <1>4
<1>6. new \in Seq(Frame)
  BY <1>1, <1>5, SeqDef
<1>7. Len(new) = Len(fr)
  BY <1>1, <1>2, <1>6
<1>8. new # <<>>
  BY <1>1, <1>7
<1> QED
  BY <1>2, <1>6, <1>7, <1>8

(* The current frame of a running program.                                 *)
LEMMA CurrentFrameType ==
    ASSUME TypeOK, FramesThere, mode = "running"
    PROVE  /\ frames \in Seq(Frame)
           /\ Len(frames) \in Nat /\ Len(frames) >= 1
           /\ CurrentFrame \in Frame
           /\ frames # <<>>
<1>1. frames \in Seq(Frame) /\ frames # <<>>
  BY DEF TypeOK, FramesThere
<1>2. Len(frames) \in Nat /\ Len(frames) >= 1
  BY <1>1
<1>3. frames[Len(frames)] \in Frame
  BY <1>1, <1>2, ElementOfSeq
<1> QED
  BY <1>1, <1>2, <1>3 DEF CurrentFrame

(* The heap is a function on the allocated addresses.                      *)
LEMMA HeapType ==
    ASSUME TypeOK
    PROVE  /\ DOMAIN heap \subseteq Addr
           /\ heap \in [DOMAIN heap -> Object]
<1>1. PICK A \in SUBSET Addr : heap \in [A -> Object]
  BY DEF TypeOK
<1> QED
  BY <1>1

-----------------------------------------------------------------------------
(* The ways a step ends.                                                   *)

(* A step that ends the run, short of undefined behaviour.                 *)
LEMMA EndKeeps ==
    ASSUME IInv, NEW m \in {"threw", "aborted", "overflowed"}, End(m)
    PROVE  IInv'
<1>1. TypeOK'
  BY DEF IInv, TypeOK, End, Mode
<1>2. FramesThere' /\ NeverUndefined'
  BY DEF End, FramesThere, NeverUndefined
<1>3. FramesSafe'
  BY DEF IInv, End, FramesSafe
<1>4. AccSafe'
  BY DEF IInv, End, AccSafe
<1>5. MembersSafe' /\ WellFormed'
  BY DEF IInv, End, MembersSafe, WellFormed
<1> QED
  BY <1>1, <1>2, <1>3, <1>4, <1>5 DEF IInv

(* A step that changes the accumulator and nothing else in memory.         *)
LEMMA LoadKeeps ==
    ASSUME IInv, Running, Continue,
           UNCHANGED <<frames, heap, allocated>>,
           acc' \in Value, isAccRef' \in BOOLEAN,
           isAccRef' => acc' \in DOMAIN heap \cup {CHAI_NULL}
    PROVE  IInv'
<1>1. TypeOK'
  BY DEF IInv, TypeOK, Continue, Mode
<1>2. FramesThere' /\ NeverUndefined'
  BY DEF IInv, Running, Continue, FramesThere, NeverUndefined
<1>3. FramesSafe'
  BY DEF IInv, FramesSafe
<1>4. AccSafe'
  BY DEF AccSafe
<1>5. MembersSafe' /\ WellFormed'
  BY DEF IInv, MembersSafe, WellFormed
<1> QED
  BY <1>1, <1>2, <1>3, <1>4, <1>5 DEF IInv

(* A handler that only asserts and chooses the next instruction.           *)
LEMMA StepKeeps ==
    ASSUME IInv, Running, Step
    PROVE  IInv'
<1>1. acc' \in Value /\ isAccRef' \in BOOLEAN
  BY DEF IInv, TypeOK, Step
<1>2. isAccRef' => acc' \in DOMAIN heap \cup {CHAI_NULL}
  BY DEF IInv, AccSafe, Step
<1> QED
  BY <1>1, <1>2, LoadKeeps DEF Step

(* A step that changes the current frame.                                  *)
LEMMA FrameKeeps ==
    ASSUME IInv, Running, Continue,
           UNCHANGED <<acc, isAccRef, heap, allocated>>,
           NEW g \in Frame, SafeFrame(g, DOMAIN heap),
           frames' = [frames EXCEPT ![Len(frames)] = g]
    PROVE  IInv'
<1>0. frames \in Seq(Frame) /\ frames # <<>>
  BY CurrentFrameType DEF IInv, Running
<1>1. /\ frames' \in Seq(Frame)
      /\ frames' # <<>>
      /\ Len(frames') = Len(frames)
      /\ \A k \in 1 .. Len(frames) :
            frames'[k] = IF k = Len(frames) THEN g ELSE frames[k]
  BY <1>0, FrameReplaced
<1>2. TypeOK'
  BY <1>1 DEF IInv, TypeOK, Continue, Mode
<1>3. FramesThere' /\ NeverUndefined'
  BY <1>1 DEF Continue, FramesThere, NeverUndefined
<1>4. \A k \in 1 .. Len(frames) : SafeFrame(frames'[k], DOMAIN heap)
  BY <1>1 DEF IInv, FramesSafe
<1>5. FramesSafe'
  BY <1>1, <1>4 DEF FramesSafe
<1>6. AccSafe'
  BY DEF IInv, AccSafe
<1>7. MembersSafe' /\ WellFormed'
  BY DEF IInv, MembersSafe, WellFormed
<1> QED
  BY <1>2, <1>3, <1>5, <1>6, <1>7 DEF IInv

(* A step that writes member i of the object acc names.                    *)
LEMMA MemberKeeps ==
    ASSUME IInv, Running, Continue,
           UNCHANGED <<frames, acc, isAccRef, allocated>>,
           acc \in DOMAIN heap,
           NEW i \in 1 .. Len(Target.members), NEW v \in Value,
           i \in RefSlots(Target) => v \in DOMAIN heap \cup {CHAI_NULL},
           SetMember(i, v)
    PROVE  IInv'
<1> DEFINE new == [heap[acc] EXCEPT !.members[i] = v]
<1>1. DOMAIN heap \subseteq Addr /\ heap \in [DOMAIN heap -> Object]
  BY HeapType DEF IInv
<1>2. /\ heap[acc] \in Object
      /\ WellFormedObject(heap[acc])
      /\ Children(heap[acc]) \subseteq DOMAIN heap
  BY <1>1 DEF IInv, WellFormed, MembersSafe
<1>3. /\ new \in Object
      /\ WellFormedObject(new)
      /\ Children(new) \subseteq DOMAIN heap
  BY <1>2, MemberWritten DEF Target
<1> HIDE DEF new
<1>4. heap' = [heap EXCEPT ![acc] = new]
  BY DEF SetMember, new
<1>5. /\ DOMAIN heap' = DOMAIN heap
      /\ \A a \in DOMAIN heap : heap'[a] = IF a = acc THEN new ELSE heap[a]
  BY <1>1, <1>4
<1>6. heap' \in [DOMAIN heap -> Object]
  BY <1>1, <1>3, <1>4
<1>7. TypeOK'
  BY <1>1, <1>6 DEF IInv, TypeOK, Continue, Mode
<1>8. FramesThere' /\ NeverUndefined'
  BY DEF IInv, Running, Continue, FramesThere, NeverUndefined
<1>9. FramesSafe' /\ AccSafe'
  BY <1>5 DEF IInv, FramesSafe, AccSafe
<1>10. MembersSafe' /\ WellFormed'
  BY <1>3, <1>5 DEF IInv, MembersSafe, WellFormed
<1> QED
  BY <1>7, <1>8, <1>9, <1>10 DEF IInv

(* A step that allocates an object without references, or fails to.        *)
LEMMA AllocateKeeps ==
    ASSUME IInv, Running, NEW obj \in Object,
           WellFormedObject(obj), Children(obj) = {}, Allocate(obj)
    PROVE  IInv'
<1>1. CASE Throw
  BY <1>1, EndKeeps DEF Throw
<1>2. CASE \E a \in Addr \ DOMAIN heap :
          /\ MayGive(Words(obj))
          /\ heap' = [b \in DOMAIN heap \cup {a} |->
                        IF b = a THEN obj ELSE heap[b]]
          /\ allocated' = allocated + Words(obj)
          /\ LoadRef(a)
          /\ Continue
          /\ UNCHANGED frames
  <2>1. PICK a \in Addr \ DOMAIN heap :
          /\ heap' = [b \in DOMAIN heap \cup {a} |->
                        IF b = a THEN obj ELSE heap[b]]
          /\ allocated' = allocated + Words(obj)
          /\ LoadRef(a)
          /\ Continue
          /\ UNCHANGED frames
    BY <1>2
  <2>2. DOMAIN heap \subseteq Addr /\ heap \in [DOMAIN heap -> Object]
    BY HeapType DEF IInv
  <2>3. /\ DOMAIN heap' = DOMAIN heap \cup {a}
        /\ \A b \in DOMAIN heap' : heap'[b] = IF b = a THEN obj ELSE heap[b]
    BY <2>1
  <2>4. heap' \in [DOMAIN heap \cup {a} -> Object]
    BY <2>1, <2>2
  <2>5. allocated' \in Int
    <3>1. Len(obj.members) \in Nat
      BY DEF Object
    <3> QED
      BY <2>1, <3>1 DEF IInv, TypeOK, Words, HeaderWords
  <2>6. acc' = a /\ acc' \in Value /\ isAccRef' = TRUE
    BY <2>1 DEF LoadRef, Value
  <2>7. TypeOK'
    BY <2>1, <2>2, <2>4, <2>5, <2>6 DEF IInv, TypeOK, Continue, Mode
  <2>8. FramesThere' /\ NeverUndefined'
    BY <2>1 DEF IInv, Running, Continue, FramesThere, NeverUndefined
  <2>9. FramesSafe'
    BY <2>1, <2>3 DEF IInv, FramesSafe, SafeFrame
  <2>10. AccSafe'
    BY <2>3, <2>6 DEF AccSafe
  <2>11. MembersSafe' /\ WellFormed'
    BY <2>3 DEF IInv, MembersSafe, WellFormed
  <2> QED
    BY <2>7, <2>8, <2>9, <2>10, <2>11 DEF IInv
<1> QED
  BY <1>1, <1>2 DEF Allocate

-----------------------------------------------------------------------------
(* Registers.                                                              *)

(* What a register of the current frame holds.                             *)
LEMMA RegisterType ==
    ASSUME IInv, Running, NEW r, HasRegister(r)
    PROVE  /\ r \in Registers(CurrentFrame.func)
           /\ Register(r) \in Value
           /\ IsRegisterReference(r) \in BOOLEAN
           /\ IsRegisterReference(r) => Register(r) \in DOMAIN heap \cup {CHAI_NULL}
<1>1. CurrentFrame \in Frame /\ Len(frames) \in Nat /\ Len(frames) >= 1
  BY CurrentFrameType DEF IInv, Running
<1>2. /\ CurrentFrame.registers \in [Registers(CurrentFrame.func) -> Value]
      /\ CurrentFrame.isRegRef \in [Registers(CurrentFrame.func) -> BOOLEAN]
  BY <1>1, FrameType
<1>3. r \in Registers(CurrentFrame.func)
  BY <1>2 DEF HasRegister
<1>4. SafeFrame(CurrentFrame, DOMAIN heap)
  BY <1>1 DEF IInv, FramesSafe, CurrentFrame
<1>5. IsRegisterReference(r) => Register(r) \in DOMAIN heap \cup {CHAI_NULL}
  BY <1>2, <1>3, <1>4 DEF SafeFrame, IsRegisterReference, Register
<1>6. Register(r) \in Value /\ IsRegisterReference(r) \in BOOLEAN
  BY <1>2, <1>3 DEF IsRegisterReference, Register
<1> QED
  BY <1>3, <1>5, <1>6

(* A scalar, or a reference nobody protects, goes to an unflagged register. *)
LEMMA RegisterKeeps ==
    ASSUME IInv, Running, Continue,
           UNCHANGED <<acc, isAccRef, heap, allocated>>,
           NEW r, HasRegister(r), ~IsRegisterReference(r),
           NEW v \in Value, SetRegister(r, v)
    PROVE  IInv'
<1> DEFINE f == CurrentFrame
           g == [f EXCEPT !.registers[r] = v]
<1>1. /\ f \in Frame /\ Len(frames) \in Nat /\ Len(frames) >= 1
      /\ frames \in Seq(Frame)
  BY CurrentFrameType DEF IInv, Running
<1>2. /\ f.func \in Func
      /\ f.registers \in [Registers(f.func) -> Value]
      /\ f.isRegRef \in [Registers(f.func) -> BOOLEAN]
      /\ f = [func |-> f.func, registers |-> f.registers,
              isRegRef |-> f.isRegRef]
  BY <1>1, FrameType
<1>3. r \in Registers(f.func)
  BY RegisterType
<1>4. SafeFrame(f, DOMAIN heap)
  BY <1>1 DEF IInv, FramesSafe, CurrentFrame
<1>5. frames' = [frames EXCEPT ![Len(frames)] = g]
  BY <1>1 DEF SetRegister, CurrentFrame
<1>6. ~f.isRegRef[r]
  BY DEF IsRegisterReference
<1> HIDE DEF f
<1>7. g = [func |-> f.func, registers |-> [f.registers EXCEPT ![r] = v],
           isRegRef |-> f.isRegRef]
  BY <1>2
<1>8. [f.registers EXCEPT ![r] = v] \in [Registers(f.func) -> Value]
  BY <1>2
<1> HIDE DEF g
<1>9. g \in Frame
  BY <1>2, <1>7, <1>8, FrameMade
<1>10. SafeFrame(g, DOMAIN heap)
  <2> SUFFICES ASSUME NEW q \in DOMAIN g.isRegRef, g.isRegRef[q]
               PROVE  g.registers[q] \in DOMAIN heap \cup {CHAI_NULL}
    BY DEF SafeFrame
  <2>1. q \in DOMAIN f.isRegRef /\ f.isRegRef[q] /\ q # r
    BY <1>6, <1>7
  <2>2. g.registers[q] = f.registers[q]
    BY <1>2, <1>7, <2>1
  <2> QED
    BY <1>4, <2>1, <2>2 DEF SafeFrame
<1> QED
  BY <1>5, <1>9, <1>10, FrameKeeps

(* Setting one bit of a frame leaves its other fields alone.               *)
LEMMA FlagSet ==
    ASSUME NEW fn, NEW regs, NEW refs, NEW r, NEW b, NEW f,
           f = [func |-> fn, registers |-> regs, isRegRef |-> refs]
    PROVE  [f EXCEPT !.isRegRef[r] = b] =
             [func |-> fn, registers |-> regs,
              isRegRef |-> [f.isRegRef EXCEPT ![r] = b]]
OBVIOUS

(* A reference goes to a register and its bit is set.                      *)
LEMMA ReferenceKeeps ==
    ASSUME IInv, Running, Continue,
           UNCHANGED <<acc, isAccRef, heap, allocated>>,
           NEW r, HasRegister(r),
           NEW v \in Value, v \in DOMAIN heap \cup {CHAI_NULL},
           SetReference(r, v)
    PROVE  IInv'
<1> DEFINE f == CurrentFrame
           g == [f EXCEPT !.registers[r] = v, !.isRegRef[r] = TRUE]
<1>1. /\ f \in Frame /\ Len(frames) \in Nat /\ Len(frames) >= 1
      /\ frames \in Seq(Frame)
  BY CurrentFrameType DEF IInv, Running
<1>2. /\ f.func \in Func
      /\ f.registers \in [Registers(f.func) -> Value]
      /\ f.isRegRef \in [Registers(f.func) -> BOOLEAN]
      /\ f = [func |-> f.func, registers |-> f.registers,
              isRegRef |-> f.isRegRef]
  BY <1>1, FrameType
<1>3. r \in Registers(f.func)
  BY RegisterType
<1>4. SafeFrame(f, DOMAIN heap)
  BY <1>1 DEF IInv, FramesSafe, CurrentFrame
<1>5. frames' = [frames EXCEPT ![Len(frames)] = g]
  BY <1>1 DEF SetReference, CurrentFrame
<1> HIDE DEF f
<1>6. g = [func |-> f.func, registers |-> [f.registers EXCEPT ![r] = v],
           isRegRef |-> [f.isRegRef EXCEPT ![r] = TRUE]]
  <2> DEFINE stored == [f EXCEPT !.registers[r] = v]
             regs == [f.registers EXCEPT ![r] = v]
  <2>1. stored = [func |-> f.func, registers |-> regs, isRegRef |-> f.isRegRef]
    BY <1>2
  <2>2. g = [stored EXCEPT !.isRegRef[r] = TRUE]
    OBVIOUS
  <2> HIDE DEF stored, regs
  <2>3. [stored EXCEPT !.isRegRef[r] = TRUE] =
          [func |-> f.func, registers |-> regs,
           isRegRef |-> [stored.isRegRef EXCEPT ![r] = TRUE]]
    <3>1. ASSUME NEW b
          PROVE  [stored EXCEPT !.isRegRef[r] = b] =
                   [func |-> f.func, registers |-> regs,
                    isRegRef |-> [stored.isRegRef EXCEPT ![r] = b]]
      BY <2>1, FlagSet
    <3> QED
      BY <3>1, Zenon
  <2>4. stored.isRegRef = f.isRegRef
    BY <2>1
  <2> HIDE DEF g
  <2> QED
    BY <2>2, <2>3, <2>4 DEF regs
<1>7. /\ [f.registers EXCEPT ![r] = v] \in [Registers(f.func) -> Value]
      /\ [f.isRegRef EXCEPT ![r] = TRUE] \in [Registers(f.func) -> BOOLEAN]
  BY <1>2
<1> HIDE DEF g
<1>8. g \in Frame
  BY <1>2, <1>6, <1>7, FrameMade
<1>9. SafeFrame(g, DOMAIN heap)
  <2> SUFFICES ASSUME NEW q \in DOMAIN g.isRegRef, g.isRegRef[q]
               PROVE  g.registers[q] \in DOMAIN heap \cup {CHAI_NULL}
    BY DEF SafeFrame
  <2>1. CASE q = r
    BY <1>2, <1>3, <1>6, <2>1
  <2>2. CASE q # r
    <3>1. q \in DOMAIN f.isRegRef /\ f.isRegRef[q]
      BY <1>2, <1>6, <2>2
    <3>2. g.registers[q] = f.registers[q]
      BY <1>2, <1>6, <2>2, <3>1
    <3> QED
      BY <1>4, <3>1, <3>2 DEF SafeFrame
  <2> QED
    BY <2>1, <2>2
<1> QED
  BY <1>5, <1>8, <1>9, FrameKeeps

-----------------------------------------------------------------------------
(* One lemma per handler, or family of handlers.                           *)

(* Failed assertions and exceptions.                                       *)
LEMMA AbortKeeps == ASSUME IInv, Abort PROVE IInv'
BY EndKeeps DEF Abort

LEMMA ThrowKeeps == ASSUME IInv, Throw PROVE IInv'
BY EndKeeps DEF Throw

(* The handlers without an effect on memory, one group after another.      *)
LEMMA SteppingKeeps ==
    ASSUME IInv,
           \/ Nop \/ Inv \/ MovRef \/ IfAcmp \/ IfNull
           \/ \E r \in RegisterId : IfIcmp(r)
    PROVE  IInv'
BY StepKeeps, AbortKeeps, ThrowKeeps
   DEF Nop, Inv, MovRef, IfAcmp, IfNull, IfIcmp, Asserting

(* Handlers that leave a value in the accumulator.                         *)
LEMMA ScalarKeeps ==
    ASSUME IInv, Running, Continue, UNCHANGED <<frames, heap, allocated>>,
           NEW v \in Value, LoadScalar(v)
    PROVE  IInv'
BY LoadKeeps DEF LoadScalar

LEMMA LoadRefKeeps ==
    ASSUME IInv, Running, Continue, UNCHANGED <<frames, heap, allocated>>,
           NEW v \in Value, v \in DOMAIN heap \cup {CHAI_NULL}, LoadRef(v)
    PROVE  IInv'
BY LoadKeeps DEF LoadRef

LEMMA LoadingKeeps ==
    ASSUME IInv,
           \/ \E v \in Scalar : Ldia(v)
           \/ \E v \in Value : ArithImm(v)
           \/ \E r \in RegisterId :
                 Ldra(r) \/ LdraRef(r) \/ \E v \in Value : Arith(r, v)
    PROVE  IInv'
<1>1. CASE \E v \in Scalar : Ldia(v)
  BY <1>1, ScalarKeeps DEF Ldia, Value
<1>2. CASE \E v \in Value : ArithImm(v)
  BY <1>2, ScalarKeeps, AbortKeeps DEF ArithImm, Asserting
<1>3. ASSUME NEW r \in RegisterId, Ldra(r) PROVE IInv'
  BY <1>3, ScalarKeeps, AbortKeeps, RegisterType DEF Ldra, Asserting
<1>4. ASSUME NEW r \in RegisterId, LdraRef(r) PROVE IInv'
  BY <1>4, LoadRefKeeps, AbortKeeps, RegisterType DEF LdraRef, Asserting
<1>5. ASSUME NEW r \in RegisterId, NEW v \in Value, Arith(r, v) PROVE IInv'
  BY <1>5, ScalarKeeps, AbortKeeps DEF Arith, Asserting
<1> QED
  BY <1>1, <1>2, <1>3, <1>4, <1>5

(* Handlers that write a register.                                         *)
LEMMA StoringKeeps ==
    ASSUME IInv, NEW r \in RegisterId,
           \/ Star(r) /\ Reusable(r)
           \/ StarRef(r)
           \/ \E q \in RegisterId : Mov(r, q) /\ Reusable(q)
    PROVE  IInv'
<1>0. acc \in Value
  BY DEF IInv, TypeOK
<1>1. CASE Star(r) /\ Reusable(r)
  BY <1>0, <1>1, RegisterKeeps, AbortKeeps DEF Star, Reusable, Asserting
<1>2. CASE StarRef(r)
  <2>1. isAccRef => acc \in DOMAIN heap \cup {CHAI_NULL}
    BY DEF IInv, AccSafe
  <2> QED
    BY <1>0, <1>2, <2>1, ReferenceKeeps, AbortKeeps DEF StarRef, Asserting
<1>3. ASSUME NEW q \in RegisterId, Mov(r, q), Reusable(q) PROVE IInv'
  BY <1>3, RegisterType, RegisterKeeps, AbortKeeps DEF Mov, Reusable, Asserting
<1> QED
  BY <1>1, <1>2, <1>3

(* Handlers that allocate.                                                 *)
LEMMA AllocatingKeeps ==
    ASSUME IInv,
           \/ \E imm \in Immidiate : AllocRef(imm)
           \/ NewRefArr /\ (acc \in Scalar => Measured(acc))
    PROVE  IInv'
<1>1. ASSUME NEW imm \in Immidiate, AllocRef(imm) PROVE IInv'
  BY <1>1, NewInstanceIsEmpty, AllocateKeeps, AbortKeeps DEF AllocRef, Asserting
<1>2. CASE NewRefArr /\ (acc \in Scalar => Measured(acc))
  <2>1. CASE Running /\ acc \in Scalar /\ Measured(acc) /\ Allocate(NewArray(acc))
    BY <2>1, NewArrayIsEmpty, AllocateKeeps DEF Measured
  <2> QED
    BY <1>2, <2>1, ThrowKeeps, AbortKeeps DEF NewRefArr, Asserting
<1> QED
  BY <1>1, <1>2

-----------------------------------------------------------------------------
(* Members.  A flagged accumulator that is not null names an object.       *)

(* The object the accumulator names, in a program that keeps the rules.    *)
LEMMA TargetType ==
    ASSUME IInv, isAccRef, NotNull
    PROVE  /\ acc \in DOMAIN heap
           /\ Target \in Object
           /\ WellFormedObject(Target)
           /\ Children(Target) \subseteq DOMAIN heap
           /\ DOMAIN heap \subseteq Value
<1>1. acc \in DOMAIN heap
  BY DEF IInv, AccSafe, NotNull
<1>2. DOMAIN heap \subseteq Addr /\ heap \in [DOMAIN heap -> Object]
  BY HeapType DEF IInv
<1> QED
  BY <1>1, <1>2 DEF IInv, WellFormed, MembersSafe, Target, Value

(* An index in bounds names an element, which is a reference or null.      *)
LEMMA ElementType ==
    ASSUME IInv, isAccRef, IsArrayRef, NEW r, ElementExists(r)
    PROVE  /\ ElementSlot(Target, Register(r)) \in 1 .. Len(Target.members)
           /\ Target.members[ElementSlot(Target, Register(r))]
                 \in (DOMAIN heap \cup {CHAI_NULL}) \cap Value
<1> DEFINE i == ElementSlot(Target, Register(r))
<1>1. /\ acc \in DOMAIN heap
      /\ Target \in Object
      /\ IsArray(Target)
      /\ Children(Target) \subseteq DOMAIN heap
      /\ DOMAIN heap \subseteq Value
  BY TargetType DEF IsArrayRef
<1>2. Target.members \in Seq(Value) /\ Len(Target.members) \in Nat
  BY <1>1 DEF Object
<1>3. Register(r) \in Int
  BY HeapAssumption DEF ElementExists
<1>4. i \in 2 .. Len(Target.members)
  BY <1>2, <1>3 DEF ElementExists, ElementInBounds, ElementSlot, ElementIndex,
                    ArrayLength
<1>5. i \in RefSlots(Target)
  BY <1>1, <1>4 DEF RefSlots
<1>6. Target.members[i] \in DOMAIN heap \cup {CHAI_NULL}
  BY <1>1, <1>5 DEF Children
<1>7. CHAI_NULL \in Value
  BY HeapAssumption DEF Value
<1> QED
  BY <1>1, <1>2, <1>4, <1>6, <1>7

(* Array instructions on arrays.                                           *)
LEMMA ElementsKeep ==
    ASSUME IInv, NEW r \in RegisterId, IsArrayRef,
           GetRefFromArr(r) \/ \E q \in RegisterId : SetRefInArr(r, q)
    PROVE  IInv'
<1>1. isAccRef => HasMember(1)
  <2> SUFFICES ASSUME isAccRef PROVE HasMember(1)
    OBVIOUS
  <2>1. /\ acc \in DOMAIN heap /\ Target \in Object
        /\ WellFormedObject(Target) /\ IsArray(Target)
    BY TargetType DEF IsArrayRef
  <2>2. Len(Target.members) \in Nat /\ Len(Target.members) >= 1
    BY <2>1 DEF WellFormedObject, Object
  <2> QED
    BY <2>1, <2>2 DEF HasMember
<1>2. CASE GetRefFromArr(r)
  <2>1. CASE Abort \/ Throw
    BY <2>1, AbortKeeps, ThrowKeeps
  <2>2. CASE /\ Running /\ isAccRef /\ ElementExists(r)
             /\ LoadRef(Target.members[ElementSlot(Target, Register(r))])
             /\ Continue
             /\ UNCHANGED <<frames, heap, allocated>>
    BY <2>2, ElementType, LoadRefKeeps
  <2> QED
    BY <1>1, <1>2, <2>1, <2>2 DEF GetRefFromArr, Asserting
<1>3. ASSUME NEW q \in RegisterId, SetRefInArr(r, q) PROVE IInv'
  <2>1. CASE Abort \/ Throw
    BY <2>1, AbortKeeps, ThrowKeeps
  <2>2. CASE /\ Running /\ isAccRef /\ ElementExists(r)
             /\ HasRegister(q) /\ IsRegisterReference(q)
             /\ SetMember(ElementSlot(Target, Register(r)), Register(q))
             /\ Continue
             /\ UNCHANGED <<frames, acc, isAccRef, allocated>>
    <3>1. acc \in DOMAIN heap
      BY <2>2, TargetType DEF IsArrayRef
    <3>2. ElementSlot(Target, Register(r)) \in 1 .. Len(Target.members)
      BY <2>2, ElementType
    <3>3. Register(q) \in Value /\ Register(q) \in DOMAIN heap \cup {CHAI_NULL}
      BY <2>2, RegisterType
    <3> QED
      BY <2>2, <3>1, <3>2, <3>3, MemberKeeps
  <2> QED
    BY <1>1, <1>3, <2>1, <2>2 DEF SetRefInArr, Asserting
<1> QED
  BY <1>2, <1>3

(* Field o of an instance is followed by the collector iff declared object. *)
LEMMA FieldType ==
    ASSUME IInv, isAccRef, NEW o, IsObjectWith(o)
    PROVE  /\ HasMember(MemberAt(o))
           /\ FieldIsObject(o) \in BOOLEAN
           /\ FieldIsObject(o) => MemberAt(o) \in RefSlots(Target)
           /\ ~IsArray(Target) /\ ~FieldIsObject(o)
                 => MemberAt(o) \notin RefSlots(Target)
           /\ Target.members[MemberAt(o)] \in Value
           /\ FieldIsObject(o) =>
                 Target.members[MemberAt(o)] \in DOMAIN heap \cup {CHAI_NULL}
<1> DEFINE n == MemberAt(o)
<1>1. /\ acc \in DOMAIN heap
      /\ Target \in Object
      /\ WellFormedObject(Target)
      /\ Children(Target) \subseteq DOMAIN heap
  BY TargetType DEF IsObjectWith
<1>2. HasMember(n) /\ n \in 1 .. Len(Target.members)
  BY <1>1 DEF IsObjectWith, HasMember
<1> HIDE DEF n
<1>3. Target.members \in Seq(Value)
  BY <1>1 DEF Object
<1>4. Target.members[n] \in Value
  BY <1>2, <1>3
<1>5. CASE IsArray(Target)
  <2>1. FieldIsObject(o) = FALSE
    BY <1>5 DEF FieldIsObject
  <2> QED
    BY <1>2, <1>4, <1>5, <2>1 DEF n
<1>6. CASE ~IsArray(Target)
  <2>1. /\ klasses[Target.klassId] \in Seq(BOOLEAN)
        /\ Len(Target.members) = Len(klasses[Target.klassId])
    BY <1>1, <1>6, HeapAssumption DEF Object, IsArray, WellFormedObject
  <2>2. klasses[Target.klassId][n] \in BOOLEAN
    BY <1>2, <2>1
  <2>3. FieldIsObject(o) = klasses[Target.klassId][n]
    BY <1>6, <2>2 DEF FieldIsObject, n
  <2>4. n \in RefSlots(Target) <=> klasses[Target.klassId][n]
    BY <1>2, <1>6, <2>1 DEF RefSlots
  <2>5. n \in RefSlots(Target) => Target.members[n] \in DOMAIN heap \cup {CHAI_NULL}
    BY <1>1 DEF Children
  <2> QED
    BY <1>2, <1>4, <2>2, <2>3, <2>4, <2>5 DEF n
<1> QED
  BY <1>5, <1>6

(* Field instructions on objects that have the field.                      *)
LEMMA FieldsKeep ==
    ASSUME IInv, NEW o \in Offset, IsObjectWith(o),
           GetField(o) \/ \E r \in RegisterId : SetField(o, r)
    PROVE  IInv'
<1>1. CASE GetField(o)
  <2>1. CASE Abort
    BY <2>1, AbortKeeps
  <2>2. CASE /\ Running /\ isAccRef
             /\ acc' = Target.members[MemberAt(o)]
             /\ isAccRef' = FieldIsObject(o)
             /\ Continue
             /\ UNCHANGED <<frames, heap, allocated>>
    <3>1. acc' \in Value /\ isAccRef' \in BOOLEAN
      BY <2>2, FieldType
    <3>2. isAccRef' => acc' \in DOMAIN heap \cup {CHAI_NULL}
      BY <2>2, FieldType
    <3> QED
      BY <2>2, <3>1, <3>2, LoadKeeps
  <2> QED
    BY <1>1, <2>1, <2>2, FieldType DEF GetField, Asserting
<1>2. ASSUME NEW r \in RegisterId, SetField(o, r) PROVE IInv'
  <2>1. CASE Abort
    BY <2>1, AbortKeeps
  <2>2. CASE /\ Running /\ isAccRef /\ HasRegister(r) /\ FitsField(o, r)
             /\ SetMember(MemberAt(o), Register(r))
             /\ Continue
             /\ UNCHANGED <<frames, acc, isAccRef, allocated>>
    <3>1. acc \in DOMAIN heap /\ MemberAt(o) \in 1 .. Len(Target.members)
      BY <2>2, FieldType DEF HasMember
    <3>2. Register(r) \in Value
      BY <2>2, RegisterType
    <3>3. MemberAt(o) \in RefSlots(Target) => IsRegisterReference(r)
      BY <2>2, FieldType DEF FitsField
    <3>4. MemberAt(o) \in RefSlots(Target) =>
            Register(r) \in DOMAIN heap \cup {CHAI_NULL}
      BY <2>2, <3>3, RegisterType
    <3> QED
      BY <2>2, <3>1, <3>2, <3>4, MemberKeeps
  <2> QED
    BY <1>2, <2>1, <2>2, FieldType DEF SetField, Asserting
<1> QED
  BY <1>1, <1>2

-----------------------------------------------------------------------------
(* Calls and returns.                                                      *)

(* A new frame, with or without arguments, has no reference bit set.       *)
LEMMA NewFrameType ==
    ASSUME NEW f \in Func
    PROVE  /\ NewFrame(f) \in Frame
           /\ \A D : SafeFrame(NewFrame(f), D)
<1>1. CHAI_NULL \in Value
  BY HeapAssumption DEF Value
<1>2. /\ [r \in Registers(f) |-> CHAI_NULL] \in [Registers(f) -> Value]
      /\ [r \in Registers(f) |-> FALSE] \in [Registers(f) -> BOOLEAN]
  BY <1>1
<1>3. NewFrame(f) \in Frame
  BY <1>2, FrameMade DEF NewFrame
<1> QED
  BY <1>3 DEF NewFrame, SafeFrame

LEMMA PassArgsType ==
    ASSUME IInv, Running, NEW f \in Func, ArgsFit(f)
    PROVE  PassArgs(f) \in Frame /\ \A D : SafeFrame(PassArgs(f), D)
<1> DEFINE regs == [r \in Registers(f) |->
              IF r >= numRegs[f] - numArgs[f]
              THEN Register(r - numRegs[f] + numRegs[CurrentFrame.func])
              ELSE CHAI_NULL]
           refs == [r \in Registers(f) |-> FALSE]
<1>1. CHAI_NULL \in Value
  BY HeapAssumption DEF Value
<1>2. CurrentFrame \in Frame
  BY CurrentFrameType DEF IInv, Running
<1>3. /\ CurrentFrame.func \in Func
      /\ CurrentFrame.registers \in [Registers(CurrentFrame.func) -> Value]
  BY <1>2, FrameType
<1>4. /\ numRegs[f] \in Nat /\ numArgs[f] \in Nat
      /\ numRegs[CurrentFrame.func] \in Nat
      /\ numArgs[f] <= numRegs[f]
      /\ numArgs[f] <= numRegs[CurrentFrame.func]
  BY <1>3, ExecutorAssumption DEF ArgsFit
<1>5. ASSUME NEW r \in Registers(f), r >= numRegs[f] - numArgs[f]
      PROVE  Register(r - numRegs[f] + numRegs[CurrentFrame.func]) \in Value
  <2>1. r - numRegs[f] + numRegs[CurrentFrame.func]
          \in 0 .. numRegs[CurrentFrame.func] - 1
    BY <1>4, <1>5 DEF Registers
  <2> QED
    BY <1>3, <2>1 DEF Registers, Register
<1>6. regs \in [Registers(f) -> Value] /\ refs \in [Registers(f) -> BOOLEAN]
  BY <1>1, <1>5
<1>7. PassArgs(f) = [func |-> f, registers |-> regs, isRegRef |-> refs]
  <2> DEFINE nulls == [r \in Registers(f) |-> CHAI_NULL]
  <2>1. NewFrame(f) = [func |-> f, registers |-> nulls, isRegRef |-> refs]
    BY DEF NewFrame
  <2>2. PassArgs(f) = [NewFrame(f) EXCEPT !.registers = regs]
    BY Zenon DEF PassArgs
  <2> HIDE DEF nulls, refs, regs
  <2>3. [[func |-> f, registers |-> nulls, isRegRef |-> refs]
           EXCEPT !.registers = regs]
          = [func |-> f, registers |-> regs, isRegRef |-> refs]
    OBVIOUS
  <2> QED
    BY <2>1, <2>2, <2>3, Zenon
<1> HIDE DEF regs
<1>8. PassArgs(f) \in Frame
  BY <1>6, <1>7, FrameMade
<1> QED
  BY <1>7, <1>8 DEF SafeFrame

(* A frame without references on top of the others.                        *)
LEMMA FramePushed ==
    ASSUME IInv, NEW g \in Frame, \A D : SafeFrame(g, D),
           Continue, UNCHANGED <<acc, isAccRef, heap, allocated>>,
           frames' = Append(frames, g)
    PROVE  IInv'
<1>1. frames \in Seq(Frame) /\ Len(frames) \in Nat
  BY DEF IInv, TypeOK
<1>2. /\ frames' \in Seq(Frame)
      /\ Len(frames') = Len(frames) + 1
      /\ \A k \in 1 .. Len(frames) : frames'[k] = frames[k]
      /\ frames'[Len(frames) + 1] = g
  BY <1>1, AppendProperties
<1>3. TypeOK'
  BY <1>2 DEF IInv, TypeOK, Continue, Mode
<1>4. FramesThere' /\ NeverUndefined'
  BY <1>1, <1>2 DEF Continue, FramesThere, NeverUndefined
<1>5. \A k \in 1 .. Len(frames) + 1 : SafeFrame(frames'[k], DOMAIN heap)
  BY <1>1, <1>2 DEF IInv, FramesSafe
<1>6. FramesSafe' /\ AccSafe'
  BY <1>2, <1>5 DEF IInv, FramesSafe, AccSafe
<1>7. MembersSafe' /\ WellFormed'
  BY DEF IInv, MembersSafe, WellFormed
<1> QED
  BY <1>3, <1>4, <1>6, <1>7 DEF IInv

(* Calls, the start of a run, and returns.                                 *)
LEMMA CallKeeps ==
    ASSUME IInv, NEW f \in Func, Call(f)
    PROVE  IInv'
BY PassArgsType, FramePushed, AbortKeeps, ThrowKeeps DEF Call

LEMMA RunKeeps ==
    ASSUME IInv, Run
    PROVE  IInv'
<1>1. CASE Abort
  BY <1>1, AbortKeeps
<1>2. CASE /\ frames = <<>> /\ frames' = <<NewFrame(Main)>> /\ Continue
           /\ UNCHANGED <<acc, isAccRef, heap, allocated>>
  <2>1. NewFrame(Main) \in Frame /\ \A D : SafeFrame(NewFrame(Main), D)
    BY NewFrameType, ExecutorAssumption
  <2>2. frames' = Append(frames, NewFrame(Main))
    BY <1>2
  <2> QED
    BY <1>2, <2>1, <2>2, FramePushed
<1> QED
  BY <1>1, <1>2 DEF Run

LEMMA RetKeeps ==
    ASSUME IInv, Ret
    PROVE  IInv'
<1> DEFINE n == Len(frames)
<1>1. frames \in Seq(Frame) /\ n \in Nat /\ n >= 1
  BY CurrentFrameType DEF IInv, Ret, Running
<1>2. frames' = SubSeq(frames, 1, n - 1)
  BY DEF Ret
<1> HIDE DEF n
<1>3. /\ frames' \in Seq(Frame)
      /\ Len(frames') = n - 1
      /\ \A k \in 1 .. n - 1 : frames'[k] = frames[k]
  <2>1. \A k \in 1 .. n - 1 : frames[k] \in Frame
    BY <1>1, ElementOfSeq DEF n
  <2> DEFINE m == n - 1
  <2>2. m \in Nat
    BY <1>1
  <2> HIDE DEF m
  <2>3. \A k \in 1 .. m : frames[k] \in Frame
    BY <2>1 DEF m
  <2>4. /\ SubSeq(frames, 1, m) \in Seq(Frame)
        /\ Len(SubSeq(frames, 1, m)) = m
        /\ \A k \in 1 .. m : SubSeq(frames, 1, m)[k] = frames[k]
    BY <2>2, <2>3, SubSeqProperties
  <2> QED
    BY <1>2, <2>4 DEF m
<1>4. TypeOK'
  BY <1>3 DEF IInv, TypeOK, Ret, Mode
<1>5. FramesThere' /\ NeverUndefined'
  <2>1. n # 1 => frames' # <<>>
    BY <1>1, <1>3
  <2> QED
    BY <2>1 DEF Ret, n, FramesThere, NeverUndefined
<1>6. FramesSafe' /\ AccSafe'
  BY <1>1, <1>3 DEF IInv, Ret, FramesSafe, AccSafe, n
<1>7. MembersSafe' /\ WellFormed'
  BY DEF IInv, Ret, MembersSafe, WellFormed
<1> QED
  BY <1>4, <1>5, <1>6, <1>7 DEF IInv

-----------------------------------------------------------------------------
(* The collector.                                                          *)

(* The invariant frame by frame is the property about the roots.           *)
LEMMA NothingDangles ==
    ASSUME IInv
    PROVE  NoDangling
<1>1. frames \in Seq(Frame) /\ Len(frames) \in Nat
  BY DEF IInv, TypeOK
<1>2. ASSUME NEW k \in 1 .. Len(frames)
      PROVE  Flagged(frames[k]) \subseteq DOMAIN heap \cup {CHAI_NULL}
  BY <1>2 DEF IInv, FramesSafe, SafeFrame, Flagged
<1>3. isAccRef => acc \in DOMAIN heap \cup {CHAI_NULL}
  BY DEF IInv, AccSafe
<1>4. Roots \subseteq DOMAIN heap
  <2> SUFFICES ASSUME NEW v \in Roots
               PROVE  v \in DOMAIN heap
    OBVIOUS
  <2>1. v # CHAI_NULL
    BY DEF Roots
  <2>2. CASE \E k \in 1 .. Len(frames) : v \in Flagged(frames[k])
    BY <1>2, <2>1, <2>2
  <2>3. CASE isAccRef /\ v = acc
    BY <1>3, <2>1, <2>3
  <2> QED
    BY <2>2, <2>3 DEF Roots
<1> QED
  BY <1>4 DEF IInv, MembersSafe, NoDangling

(* Marking never leaves the heap.                                          *)
LEMMA MarkingIsDefined ==
    ASSUME IInv
    PROVE  "undefined" \notin MarkFaults
<1>1. Roots \subseteq DOMAIN heap
  BY NothingDangles DEF NoDangling
<1>2. \A a \in Reach(heap, Roots) \cap DOMAIN heap :
          Children(heap[a]) \subseteq DOMAIN heap
  BY DEF IInv, MembersSafe
<1> QED
  BY <1>1, <1>2 DEF MarkFaults

(* What a sweep keeps refers to nothing a sweep frees.                     *)
LEMMA SweepKeeps ==
    ASSUME IInv, Sweep, UNCHANGED <<frames, acc, isAccRef, mode>>,
           triggered' = TRUE
    PROVE  IInv'
<1> DEFINE D == DOMAIN heap \cap Reach(heap, Roots)
<1>1. /\ heap' = [a \in D |-> heap[a]]
      /\ DOMAIN heap' = D
      /\ \A a \in D : heap'[a] = heap[a]
  BY DEF Sweep, Restrict
<1>2. DOMAIN heap \subseteq Addr /\ heap \in [DOMAIN heap -> Object]
  BY HeapType DEF IInv
<1>3. TypeOK'
  <2>1. heap' \in [D -> Object] /\ D \in SUBSET Addr
    BY <1>1, <1>2
  <2> HIDE DEF D
  <2>2. \E A \in SUBSET Addr : heap' \in [A -> Object]
    BY <2>1
  <2> QED
    BY <2>2 DEF IInv, TypeOK
<1>4. Roots \subseteq DOMAIN heap
  BY NothingDangles DEF NoDangling
<1>5. Roots \subseteq D
  BY <1>2, <1>4, ReachContains
<1>6. ASSUME NEW a \in D
      PROVE  Children(heap'[a]) \subseteq D
  <2>1. heap'[a] = heap[a] /\ Children(heap[a]) \subseteq DOMAIN heap
    BY <1>1 DEF IInv, MembersSafe
  <2>2. Children(heap[a]) \cap Addr \subseteq Reach(heap, Roots)
    BY ReachClosed DEF Closed
  <2> QED
    BY <1>2, <2>1, <2>2
<1>7. MembersSafe'
  BY <1>1, <1>6 DEF MembersSafe
<1>8. WellFormed'
  BY <1>1 DEF IInv, WellFormed
<1> HIDE DEF D
<1>9. FramesSafe'
  <2> SUFFICES ASSUME NEW k \in 1 .. Len(frames),
                      NEW r \in DOMAIN frames[k].isRegRef,
                      frames[k].isRegRef[r]
               PROVE  frames[k].registers[r] \in D \cup {CHAI_NULL}
    BY <1>1 DEF FramesSafe, SafeFrame
  <2>1. frames[k].registers[r] \in Flagged(frames[k])
    BY DEF Flagged
  <2> QED
    BY <1>5, <2>1 DEF Roots
<1>10. AccSafe'
  <2>1. isAccRef => acc \in Roots \cup {CHAI_NULL}
    BY DEF Roots
  <2> QED
    BY <1>1, <1>5, <2>1 DEF AccSafe
<1>11. FramesThere' /\ NeverUndefined'
  BY DEF IInv, FramesThere, NeverUndefined
<1> QED
  BY <1>3, <1>7, <1>8, <1>9, <1>10, <1>11 DEF IInv

(* The step before each handler: nothing, a sweep, or a fault.             *)
LEMMA TriggerGCKeeps ==
    ASSUME IInv, TriggerGC
    PROVE  IInv'
<1>1. CASE /\ triggered' = TRUE
           /\ UNCHANGED <<frames, acc, isAccRef, heap, allocated, mode>>
  <2>1. TypeOK'
    BY <1>1 DEF IInv, TypeOK
  <2>2. FramesThere' /\ FramesSafe' /\ AccSafe' /\ NeverUndefined'
    BY <1>1 DEF IInv, FramesThere, FramesSafe, AccSafe, NeverUndefined
  <2>3. MembersSafe' /\ WellFormed'
    BY <1>1 DEF IInv, MembersSafe, WellFormed
  <2> QED
    BY <2>1, <2>2, <2>3 DEF IInv
<1>2. CASE Sweep /\ triggered' = TRUE /\ UNCHANGED <<frames, acc, isAccRef, mode>>
  BY <1>2, SweepKeeps
<1>3. ASSUME NEW m \in MarkFaults, End(m)
      PROVE  IInv'
  <2>1. m \in Dead /\ m # "undefined"
    BY MarkingIsDefined DEF MarkFaults
  <2> QED
    BY <1>3, <2>1, EndKeeps DEF Dead
<1> QED
  BY <1>1, <1>2, <1>3 DEF TriggerGC, End

-----------------------------------------------------------------------------
(* The theorems.                                                           *)

(* The three facts a temporal proof needs: the start, a step, a stutter.   *)
LEMMA InitEstablishes ==
    ASSUME Init
    PROVE  IInv
<1>1. frames \in Seq(Frame) /\ Len(frames) = 0
  BY DEF Init
<1>2. DOMAIN heap = {} /\ heap \in [{} -> Object]
  BY DEF Init
<1>3. TypeOK
  BY <1>1, <1>2 DEF Init, TypeOK, Mode
<1>4. FramesThere /\ FramesSafe /\ AccSafe /\ NeverUndefined
  BY <1>1 DEF Init, FramesThere, FramesSafe, AccSafe, NeverUndefined
<1>5. MembersSafe /\ WellFormed
  BY <1>2 DEF MembersSafe, WellFormed
<1> QED
  BY <1>3, <1>4, <1>5 DEF IInv

LEMMA NextKeeps ==
    ASSUME IInv, DisciplinedNext
    PROVE  IInv'
<1>1. CASE Run \/ TriggerGC \/ Ret \/ \E f \in Func : Call(f)
  BY <1>1, RunKeeps, TriggerGCKeeps, RetKeeps, CallKeeps
<1>2. CASE \/ Nop \/ Inv \/ MovRef \/ IfAcmp \/ IfNull
           \/ \E r \in RegisterId : IfIcmp(r)
  BY <1>2, SteppingKeeps
<1>3. CASE \/ \E v \in Scalar : Ldia(v)
           \/ \E v \in Value : ArithImm(v)
           \/ \E r \in RegisterId :
                 Ldra(r) \/ LdraRef(r) \/ \E v \in Value : Arith(r, v)
  BY <1>3, LoadingKeeps
<1>4. CASE \E r \in RegisterId :
              \/ Star(r) /\ Reusable(r)
              \/ StarRef(r)
              \/ \E q \in RegisterId : Mov(r, q) /\ Reusable(q)
  BY <1>4, StoringKeeps
<1>5. CASE \/ \E imm \in Immidiate : AllocRef(imm)
           \/ NewRefArr /\ (acc \in Scalar => Measured(acc))
  BY <1>5, AllocatingKeeps
<1>6. CASE \E r \in RegisterId :
              /\ IsArrayRef
              /\ GetRefFromArr(r) \/ \E q \in RegisterId : SetRefInArr(r, q)
  BY <1>6, ElementsKeep
<1>7. CASE \E o \in Offset :
              /\ IsObjectWith(o)
              /\ GetField(o) \/ \E r \in RegisterId : SetField(o, r)
  BY <1>7, FieldsKeep
<1> QED
  BY <1>1, <1>2, <1>3, <1>4, <1>5, <1>6, <1>7, Zenon DEF DisciplinedNext, DisciplinedStep

LEMMA StutterKeeps ==
    ASSUME IInv, UNCHANGED vars
    PROVE  IInv'
<1>1. TypeOK'
  BY DEF IInv, TypeOK, vars
<1>2. FramesThere' /\ FramesSafe' /\ AccSafe' /\ NeverUndefined'
  BY DEF IInv, vars, FramesThere, FramesSafe, AccSafe, NeverUndefined
<1>3. MembersSafe' /\ WellFormed'
  BY DEF IInv, vars, MembersSafe, WellFormed
<1> QED
  BY <1>1, <1>2, <1>3 DEF IInv

(* The inductive invariant holds of every disciplined program.             *)
THEOREM Inductive == DisciplinedSpec => []IInv
<1>1. Init => IInv
  BY InitEstablishes
<1>2. IInv /\ [DisciplinedNext]_vars => IInv'
  BY NextKeeps, StutterKeeps
<1> QED
  BY <1>1, <1>2, PTL DEF DisciplinedSpec

(* Every frame on the stack keeps one register and one reference bit per   *)
(* register of its function (frame.hpp), and a heap block a header and     *)
(* members, through any calls, throws and collections.                     *)
THEOREM TypeSafety == DisciplinedSpec => []TypeOK
<1>1. IInv => TypeOK
  BY DEF IInv
<1> QED
  BY <1>1, Inductive, PTL

(* The collector's roots (garbage-collector.cpp:12-35) and the references  *)
(* in objects never dangle, for any functions, klasses, heap size and      *)
(* sequence of instructions of a disciplined program: what the sweep frees *)
(* no frame, object or accumulator can still name.                         *)
THEOREM RootsAreLive == DisciplinedSpec => []NoDangling
<1> QED
  BY NothingDangles, Inductive, PTL

(* No handler and no collection of a disciplined program touches memory    *)
(* that is not an allocated object, though objects.hpp:51-82 and           *)
(* markObjects() check nothing.                                            *)
THEOREM MemorySafety == DisciplinedSpec => []NeverUndefined
<1>1. IInv => NeverUndefined
  BY DEF IInv
<1> QED
  BY <1>1, Inductive, PTL
=============================================================================
