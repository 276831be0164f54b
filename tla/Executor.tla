------------------------------ MODULE Executor ------------------------------
(***************************************************************************)
(* The interpreter's reference machine: call frames, the accumulator, the  *)
(* is-a-reference bits, the objects heap and the collector that runs       *)
(* before an instruction (executor.cpp, frame.cpp, objects.hpp,            *)
(* traced-allocator.hpp).                                                  *)
(*                                                                         *)
(* The instruction executed next is any instruction, so the behaviours     *)
(* are those of every bytecode program; the program counter, which only    *)
(* picks the instruction, is left out.  DO_NEXT_INS is two steps:          *)
(* TriggerGC, then the handler of one instruction.  collect() is one step  *)
(* here; module Collector has its loops.  Arrays of primitives and strings *)
(* keep their contents elsewhere and are not part of this machine; their   *)
(* handles are scalars.                                                    *)
(***************************************************************************)
EXTENDS Heap, FiniteSets

CONSTANTS
    Func,         \* functions of the loaded file
    Main,         \* the one getStartFunc() returns
    numRegs,      \* registers of each function
    numArgs,      \* arguments of each function
    RegisterId,   \* register operands of instructions
    Offset,       \* field operands of instructions, in bytes
    MaxFrames,    \* frames that fit in framesBuffer
    MaxNative,    \* activations of markObjects() the native stack can hold
    AddressSpace, \* 2^61: words of which a 64-bit word counts the bytes
    Size          \* capacity of the objects allocator, in words

ASSUME ExecutorAssumption ==
    /\ Main \in Func
    /\ numRegs \in [Func -> Nat]
    /\ numArgs \in [Func -> Nat]
    /\ RegisterId \subseteq Nat
    /\ Offset \subseteq Nat
    /\ MaxFrames \in Nat \ {0}
    /\ MaxNative \in Nat \ {0}
    /\ AddressSpace \in Nat \ {0}
    /\ Size \in Nat

VARIABLES
    frames,       \* call frames, the current one last
    acc,          \* the accumulator
    isAccRef,     \* Executor::isAccRef_
    heap,         \* the allocated objects; its domain is also allocations_
    allocated,    \* TracedByteAllocator::allocated_
    triggered,    \* triggerGC() has run for the instruction to execute
    mode          \* what run() is doing, or how it ended

vars == <<frames, acc, isAccRef, heap, allocated, triggered, mode>>

Registers(f) == 0 .. numRegs[f] - 1
FrameOf(f) ==
    [func : {f}, registers : [Registers(f) -> Value],
     isRegRef : [Registers(f) -> BOOLEAN]]
Frame == UNION {FrameOf(f) : f \in Func}

Mode == {"idle", "running", "threw", "aborted", "undefined", "overflowed"}
Dead == {"aborted", "undefined", "overflowed"}

TypeOK ==
    /\ frames \in Seq(Frame)
    /\ acc \in Value
    /\ isAccRef \in BOOLEAN
    /\ \E A \in SUBSET Addr : heap \in [A -> Object]
    /\ triggered \in BOOLEAN
    /\ mode \in Mode

-----------------------------------------------------------------------------
(* How a handler ends.  A failed assert, undefined behaviour or a native   *)
(* stack overflow ends the process: nothing else is observable after it.   *)

(* Mutation: the dispatch at the end of a handler forgets triggerGC().     *)
ContinueUntriggered ==
    /\ mode' = "running"
    /\ triggered' = TRUE

Continue ==
    /\ mode' = "running"
    /\ triggered' = FALSE

End(m) ==
    /\ mode' = m
    /\ UNCHANGED <<frames, acc, isAccRef, heap, allocated, triggered>>

Abort == End("aborted")
Throw == End("threw")
Undefined == End("undefined")

Running == mode = "running" /\ triggered

CurrentFrame == frames[Len(frames)]
HasRegister(r) == r \in DOMAIN CurrentFrame.registers
Register(r) == CurrentFrame.registers[r]
IsRegisterReference(r) == CurrentFrame.isRegRef[r]

SetRegister(r, v) ==
    frames' = [frames EXCEPT ![Len(frames)].registers[r] = v]
SetReference(r, v) ==
    frames' = [frames EXCEPT ![Len(frames)].registers[r] = v,
                             ![Len(frames)].isRegRef[r] = TRUE]

LoadScalar(v) == acc' = v /\ isAccRef' = FALSE
LoadRef(v) == acc' = v /\ isAccRef' = TRUE

-----------------------------------------------------------------------------
(* Roots: the flagged registers of every frame and the flagged accumulator *)

Flagged(f) == {f.registers[r] : r \in {q \in DOMAIN f.isRegRef : f.isRegRef[q]}}

(* Mutations: only the current frame is scanned; acc is not a root.        *)
RootsOfCurrentFrame ==
    ((IF frames = <<>> THEN {} ELSE Flagged(CurrentFrame))
        \cup (IF isAccRef THEN {acc} ELSE {})) \ {CHAI_NULL}
RootsWithoutAcc ==
    (UNION {Flagged(frames[k]) : k \in 1 .. Len(frames)}) \ {CHAI_NULL}

Roots ==
    ((UNION {Flagged(frames[k]) : k \in 1 .. Len(frames)})
        \cup (IF isAccRef THEN {acc} ELSE {})) \ {CHAI_NULL}

(* triggerGC(): allocated > 0.6 * size.                                    *)
OverThreshold == allocated * 5 > Size * 3

(* How marking can fail.  Following a reference that names no block reads  *)
(* wild memory; a cycle is a chain of any length.  If several apply, any   *)
(* may come first.                                                         *)
MarkFaults ==
    LET met == Roots \cup UNION {Children(heap[a]) :
                                   a \in Reach(heap, Roots) \cap DOMAIN heap}
    IN  {m \in Dead :
           \/ m = "undefined" /\ ~ (met \subseteq DOMAIN heap)
           \/ m = "aborted" /\ HasNestedArray(heap, Roots)
           \/ m = "overflowed" /\ HasChain(heap, Roots, MaxNative + 1)}

Sweep ==
    LET garbage == DOMAIN heap \ Reach(heap, Roots)
    IN  /\ heap' = Restrict(heap, DOMAIN heap \cap Reach(heap, Roots))
        /\ allocated' = allocated - TotalWords(heap, garbage)

TriggerGC ==
    /\ mode = "running" /\ ~triggered
    /\ \/ /\ ~OverThreshold
          /\ triggered' = TRUE
          /\ UNCHANGED <<heap, allocated, mode>>
       \/ /\ OverThreshold /\ MarkFaults = {}
          /\ Sweep
          /\ triggered' = TRUE
          /\ UNCHANGED mode
       \/ /\ OverThreshold
          /\ mode' \in MarkFaults
          /\ UNCHANGED <<heap, allocated, triggered>>
    /\ UNCHANGED <<frames, acc, isAccRef>>

-----------------------------------------------------------------------------
(* The host calls run(): init() asserts that no frame is left, which an    *)
(* exception that escaped an earlier run() does leave.                     *)

(* Mutation: the register vector has one element too many.                 *)
NewFrameOffByOne(f) ==
    [func |-> f, registers |-> [r \in 0 .. numRegs[f] |-> CHAI_NULL],
     isRegRef |-> [r \in Registers(f) |-> FALSE]]

NewFrame(f) ==
    [func |-> f, registers |-> [r \in Registers(f) |-> CHAI_NULL],
     isRegRef |-> [r \in Registers(f) |-> FALSE]]

Run ==
    /\ mode \in {"idle", "threw"}
    /\ \/ /\ frames = <<>>
          /\ frames' = <<NewFrame(Main)>>
          /\ Continue
          /\ UNCHANGED <<acc, isAccRef, heap, allocated>>
       \/ /\ frames # <<>>
          /\ Abort

-----------------------------------------------------------------------------
(* Handlers.  An assertion that fails aborts; register operands are        *)
(* asserted against the size of the frame.                                 *)

Asserting(assertion, effect) ==
    /\ Running
    /\ \/ assertion /\ effect
       \/ ~assertion /\ Abort

(* Nop and Goto; the integer comparisons; If_acmp* and If_null: what they  *)
(* do besides asserting is to choose the next instruction.  (If_acmp*      *)
(* chooses itself, for ever.)                                              *)
Step == Continue /\ UNCHANGED <<frames, acc, isAccRef, heap, allocated>>

Nop == Running /\ Step
IfIcmp(r) == Asserting(~isAccRef /\ HasRegister(r), Step)
IfAcmp == Asserting(~isAccRef, Step)
IfNull == Asserting(isAccRef, Step)

Inv == Running /\ Throw
MovRef == Running /\ Abort
UnknownOpcode == Running /\ Undefined

Ret ==
    /\ Running
    /\ frames' = SubSeq(frames, 1, Len(frames) - 1)
    /\ mode' = IF Len(frames) = 1 THEN "idle" ELSE "running"
    /\ triggered' = FALSE
    /\ UNCHANGED <<acc, isAccRef, heap, allocated>>

(* passArgs(): the last numArgs registers of the caller become the last    *)
(* ones of the callee; the reference bits are not passed.                  *)
PassArgs(f) ==
    [NewFrame(f) EXCEPT
        !.registers = [r \in Registers(f) |->
            IF r >= numRegs[f] - numArgs[f]
            THEN Register(r - numRegs[f] + numRegs[CurrentFrame.func])
            ELSE CHAI_NULL]]

ArgsFit(f) ==
    numArgs[f] <= numRegs[f] /\ numArgs[f] <= numRegs[CurrentFrame.func]

Call(f) ==
    /\ Running
    /\ \/ Len(frames) >= MaxFrames /\ Throw
       \/ Len(frames) < MaxFrames /\ ~ArgsFit(f) /\ Abort
       \/ /\ Len(frames) < MaxFrames /\ ArgsFit(f)
          /\ frames' = Append(frames, PassArgs(f))
          /\ Continue
          /\ UNCHANGED <<acc, isAccRef, heap, allocated>>

Mov(r1, r2) ==
    Asserting(HasRegister(r1) /\ HasRegister(r2),
        /\ SetRegister(r2, Register(r1))
        /\ Continue
        /\ UNCHANGED <<acc, isAccRef, heap, allocated>>)

Star(r) ==
    Asserting(~isAccRef /\ HasRegister(r),
        /\ SetRegister(r, acc)
        /\ Continue
        /\ UNCHANGED <<acc, isAccRef, heap, allocated>>)

StarRef(r) ==
    Asserting(isAccRef /\ HasRegister(r),
        /\ SetReference(r, acc)
        /\ Continue
        /\ UNCHANGED <<acc, isAccRef, heap, allocated>>)

(* Constants, scans, and every other handler that leaves a scalar in acc.  *)
Ldia(v) ==
    /\ Running
    /\ LoadScalar(v)
    /\ Continue
    /\ UNCHANGED <<frames, heap, allocated>>

Ldra(r) ==
    Asserting(HasRegister(r),
        /\ LoadScalar(Register(r))
        /\ Continue
        /\ UNCHANGED <<frames, heap, allocated>>)

(* Mutation: LdraRef without its assertion on the reference bit.           *)
LdraRefUnchecked(r) ==
    Asserting(HasRegister(r),
        /\ LoadRef(Register(r))
        /\ Continue
        /\ UNCHANGED <<frames, heap, allocated>>)

LdraRef(r) ==
    Asserting(HasRegister(r) /\ IsRegisterReference(r),
        /\ LoadRef(Register(r))
        /\ Continue
        /\ UNCHANGED <<frames, heap, allocated>>)

(* Integer and f64 arithmetic, with a register, a constant or no operand.  *)
(* Over scalars the result is some scalar; over an address loaded by Ldra  *)
(* it may be any bit pattern.  An integer division by zero is undefined.   *)
Arith(r, v) ==
    Asserting(~isAccRef /\ HasRegister(r),
        /\ {acc, Register(r)} \subseteq Scalar => v \in Scalar
        /\ LoadScalar(v)
        /\ Continue
        /\ UNCHANGED <<frames, heap, allocated>>)

ArithImm(v) ==
    Asserting(~isAccRef,
        /\ acc \in Scalar => v \in Scalar
        /\ LoadScalar(v)
        /\ Continue
        /\ UNCHANGED <<frames, heap, allocated>>)

DivideByZero(r) ==
    Asserting(~isAccRef /\ HasRegister(r), Register(r) = 0 /\ Undefined)
DivideByZeroImm == Asserting(~isAccRef, Undefined)

-----------------------------------------------------------------------------
(* Allocation.  The free-list allocator is external: it hands out a free   *)
(* block when it has one, and may find none once blocks are in use.        *)

MayGive(words) == Addr # DOMAIN heap /\ allocated + words <= Size
MayRefuse(words) == DOMAIN heap # {} \/ words > Size

Allocate(obj) ==
    \/ \E a \in Addr \ DOMAIN heap :
          /\ MayGive(Words(obj))
          /\ heap' = [b \in DOMAIN heap \cup {a} |->
                        IF b = a THEN obj ELSE heap[b]]
          /\ allocated' = allocated + Words(obj)
          /\ LoadRef(a)
          /\ Continue
          /\ UNCHANGED frames
    \/ MayRefuse(Words(obj)) /\ Throw

AllocRef(imm) == Asserting(imm \in Klass, Allocate(NewInstance(imm)))

(* sizeOfObjectArray() wraps.  Where it does, as for every negative length,*)
(* the block is smaller than the array: the handler writes past its end.   *)
(* An address as length asks for far more than there is.                   *)
BlockWords(len) == (HeaderWords + 1 + len) % AddressSpace
Measured(len) == len >= 0 /\ HeaderWords + 1 + len < AddressSpace

NewRefArr ==
    Asserting(~isAccRef,
        \/ acc \in Scalar /\ Measured(acc) /\ Allocate(NewArray(acc))
        \/ /\ acc \in Scalar /\ ~Measured(acc)
           /\ \/ MayGive(BlockWords(acc)) /\ Undefined
              \/ MayRefuse(BlockWords(acc)) /\ Throw
        \/ acc \notin Scalar /\ Throw)

-----------------------------------------------------------------------------
(* Members.  Nothing checks that acc is allocated, is an array, or has     *)
(* such a field: the block is read as it stands.                           *)

Target == heap[acc]
HasMember(n) == acc \in DOMAIN heap /\ n \in 1 .. Len(Target.members)
ElementExists(r) == Register(r) \in Scalar /\ ElementInBounds(Target, Register(r))

SetMember(i, v) == heap' = [heap EXCEPT ![acc].members[i] = v]

GetRefFromArr(r) ==
    Asserting(isAccRef /\ HasRegister(r) /\ ~IsRegisterReference(r),
        \/ ~HasMember(1) /\ Undefined
        \/ HasMember(1) /\ ~ElementExists(r) /\ Throw
        \/ /\ HasMember(1) /\ ElementExists(r)
           /\ LoadRef(Target.members[ElementSlot(Target, Register(r))])
           /\ Continue
           /\ UNCHANGED <<frames, heap, allocated>>)

SetRefInArr(r1, r2) ==
    Asserting(/\ isAccRef
              /\ HasRegister(r1) /\ ~IsRegisterReference(r1)
              /\ HasRegister(r2) /\ IsRegisterReference(r2),
        \/ ~HasMember(1) /\ Undefined
        \/ HasMember(1) /\ ~ElementExists(r1) /\ Throw
        \/ /\ HasMember(1) /\ ElementExists(r1)
           /\ SetMember(ElementSlot(Target, Register(r1)), Register(r2))
           /\ Continue
           /\ UNCHANGED <<frames, acc, isAccRef, allocated>>)

(* Fields are named by their byte offset, asserted to be a multiple of 8.  *)
Aligned(o) == o % 8 = 0
MemberAt(o) == o \div 8 + 1
FieldIsObject(o) == ~IsArray(Target) /\ klasses[Target.klassId][MemberAt(o)]

GetField(o) ==
    Asserting(isAccRef /\ Aligned(o),
        \/ ~HasMember(MemberAt(o)) /\ Undefined
        \/ /\ HasMember(MemberAt(o))
           /\ acc' = Target.members[MemberAt(o)]
           /\ isAccRef' = FieldIsObject(o)
           /\ Continue
           /\ UNCHANGED <<frames, heap, allocated>>)

(* On an array getKlass() asserts, after the write.                        *)
FitsField(o, r) ==
    ~IsArray(Target) /\ FieldIsObject(o) = IsRegisterReference(r)

SetField(o, r) ==
    Asserting(isAccRef /\ Aligned(o) /\ HasRegister(r),
        \/ ~HasMember(MemberAt(o)) /\ Undefined
        \/ HasMember(MemberAt(o)) /\ ~FitsField(o, r) /\ Abort
        \/ /\ HasMember(MemberAt(o)) /\ FitsField(o, r)
           /\ SetMember(MemberAt(o), Register(r))
           /\ Continue
           /\ UNCHANGED <<frames, acc, isAccRef, allocated>>)

-----------------------------------------------------------------------------
(* acc_ has no initializer: its first value is whatever the memory held.   *)
Init ==
    /\ frames = <<>>
    /\ acc \in Value
    /\ isAccRef = FALSE
    /\ heap = [a \in {} |-> CHAI_NULL]
    /\ allocated = 0
    /\ triggered = FALSE
    /\ mode = "idle"

Next ==
    \/ Run \/ TriggerGC
    \/ \E o \in Offset :
          GetField(o) \/ \E r \in RegisterId : SetField(o, r)
    \/ \E imm \in Immidiate : AllocRef(imm)
    \/ \E r \in RegisterId :
          \/ Star(r) \/ StarRef(r) \/ Ldra(r) \/ LdraRef(r)
          \/ GetRefFromArr(r)
          \/ \E q \in RegisterId : Mov(r, q) \/ SetRefInArr(r, q)
          \/ \E v \in Value : Arith(r, v)
          \/ DivideByZero(r)
          \/ IfIcmp(r)
    \/ \E v \in Scalar : Ldia(v)
    \/ \E v \in Value : ArithImm(v)
    \/ DivideByZeroImm
    \/ \E f \in Func : Call(f)
    \/ NewRefArr \/ Ret
    \/ Nop \/ IfNull \/ IfAcmp \/ Inv \/ MovRef \/ UnknownOpcode

Spec == Init /\ [][Next]_vars
=============================================================================
