------------------------------ MODULE Machine ------------------------------
(***************************************************************************)
(* Control flow of the interpreter: the code of loaded functions, a stack  *)
(* of frames with a pc each, and the dispatch of one handler by another    *)
(* (DO_NEXT_INS, executor.cpp:10-16).  Data is abstract: a condition holds *)
(* or not, and a handler that works on data may fail, as Executor,         *)
(* CodeManager and Primitives say when.  Code is any words whatever.       *)
(*                                                                         *)
(* A handler ends by calling the next one.  Whether the call is a jump is  *)
(* the compiler's choice, handler by handler; where it is not, the native  *)
(* stack grows with every execution and shrinks only when run() returns.   *)
(***************************************************************************)
EXTENDS FunctionTable

CONSTANTS
    Ret, Goto,         \* opcodes, as is Call
    Inv, MovRef,       \* handlers that always fail
    If,                \* If_icmp* and If_null
    Acmp,              \* If_acmpeq and If_acmpne
    Straight,          \* the other handlers: they go to the next instruction
    Sibling,           \* handlers compiled to jump to the next
    MaxFrames,         \* frames that fit framesBuffer
    NativeLimit        \* handlers that fit the native stack

Handlers == {Ret, Call, Goto, Inv, MovRef} \cup If \cup Acmp \cup Straight

ASSUME MachineAssumption ==
    /\ Handlers \subseteq Byte
    /\ If \cap Acmp = {} /\ Straight \cap (If \cup Acmp) = {}
    /\ {Ret, Call, Goto, Inv, MovRef} \cap (If \cup Acmp \cup Straight) = {}
    /\ Call # Ret /\ Goto \notin {Call, Ret} /\ Inv \notin {Call, Ret, Goto}
    /\ MovRef \notin {Call, Ret, Goto, Inv}
    /\ MaxFrames \in Nat \ {0} /\ NativeLimit \in Nat

VARIABLES
    frames,    \* from the frame of main to currentFrame_
    native,    \* handlers that have called the next and not returned
    mode

machineVars == <<funcs, frames, native, mode>>

Mode == {"idle", "running", "ended", "threw", "aborted", "failed", "undefined",
         "overflowed"}

MachineTypeOK ==
    /\ funcs \in Seq(Function)
    /\ frames \in Seq([func : DOMAIN funcs, pc : Int])
    /\ native \in 0 .. NativeLimit
    /\ mode \in Mode
    /\ mode = "running" => frames # <<>>

-----------------------------------------------------------------------------
Current == frames[Len(frames)]

(* A pc counts instructions; code[pc / sizeof(bytecode_t)] is unchecked.   *)
InCode(f, pc) == pc \in 0 .. Len(Code(f)) - 1
At(f, pc) == Parse(Code(f)[pc + 1])

Instr == At(Current.func, Current.pc)

SignedImm(imm) == IF 2 * imm < ImmSize THEN imm ELSE imm - ImmSize

Stop(how) == mode' = how /\ UNCHANGED <<funcs, frames, native>>

(* The handler of op ends: DO_NEXT_INS.                                    *)
Dispatch(op) ==
    /\ UNCHANGED funcs
    /\ \/ op \in Sibling /\ UNCHANGED <<native, mode>>
       \/ op \notin Sibling /\ native < NativeLimit
             /\ native' = native + 1 /\ UNCHANGED mode
       \/ op \notin Sibling /\ native = NativeLimit
             /\ mode' = "overflowed" /\ UNCHANGED native

MoveTo(pc) == frames' = [frames EXCEPT ![Len(frames)].pc = pc]

(* Mutation: a jump counts from the next instruction.                      *)
BranchFromNext(op) ==
    MoveTo(Current.pc + 1 + SignedImm(Instr.immidiate)) /\ Dispatch(op)

Advance(op) == MoveTo(Current.pc + 1) /\ Dispatch(op)
Branch(op) == MoveTo(Current.pc + SignedImm(Instr.immidiate)) /\ Dispatch(op)

ExecStraight ==
    \E op \in Straight :
        /\ Instr.operation = op
        /\ Advance(op) \/ Stop("failed")

ExecIf ==
    \E op \in If :
        /\ Instr.operation = op
        /\ Advance(op) \/ Branch(op) \/ Stop("failed")

(* Neither advances: unless its assertion fails the handler dispatches     *)
(* itself again.                                                           *)
ExecAcmp ==
    \E op \in Acmp :
        /\ Instr.operation = op
        /\ (Dispatch(op) /\ UNCHANGED frames) \/ Stop("failed")

ExecGoto == Instr.operation = Goto /\ Branch(Goto)

ArgsFit(f) ==
    /\ funcs[f].numArgs <= funcs[f].numRegs
    /\ funcs[f].numArgs <= funcs[Current.func].numRegs

(* The frame is allocated first; getFunc() does not check the id.  Frames  *)
(* have one size here.                                                     *)
Callee == Instr.immidiate + 1

(* Mutation: the caller advances before the call and again at the return.  *)
ExecCallAdvanced ==
    /\ Instr.operation = Call
    /\ IF Len(frames) = MaxFrames THEN Stop("threw")
       ELSE IF Callee \notin DOMAIN funcs THEN Stop("undefined")
       ELSE IF ~ArgsFit(Callee) THEN Stop("aborted")
       ELSE /\ frames' = Append([frames EXCEPT ![Len(frames)].pc = @ + 1],
                                [func |-> Callee, pc |-> 0])
            /\ Dispatch(Call)

ExecCall ==
    /\ Instr.operation = Call
    /\ \/ Len(frames) = MaxFrames /\ Stop("threw")
       \/ /\ Len(frames) < MaxFrames
          /\ Callee \notin DOMAIN funcs /\ Stop("undefined")
       \/ /\ Callee \in DOMAIN funcs /\ Len(frames) < MaxFrames
          /\ ~ArgsFit(Callee) /\ Stop("aborted")
       \/ /\ Callee \in DOMAIN funcs /\ Len(frames) < MaxFrames
          /\ ArgsFit(Callee)
          /\ frames' = Append(frames, [func |-> Callee, pc |-> 0])
          /\ Dispatch(Call)

(* The caller's pc is still at its call.                                   *)

(* Mutation: the caller does not go on.                                    *)
ExecRetInPlace ==
    /\ Instr.operation = Ret
    /\ frames' = SubSeq(frames, 1, Len(frames) - 1)
    /\ \/ Len(frames) > 1 /\ Dispatch(Ret)
       \/ Len(frames) = 1 /\ mode' = "ended" /\ UNCHANGED <<funcs, native>>

ExecRet ==
    LET n == Len(frames) - 1 IN
    /\ Instr.operation = Ret
    /\ \/ /\ n > 0
          /\ frames' = [SubSeq(frames, 1, n) EXCEPT ![n].pc = @ + 1]
          /\ Dispatch(Ret)
       \/ n = 0 /\ frames' = <<>> /\ mode' = "ended" /\ UNCHANGED <<funcs, native>>

ExecFailing ==
    \/ Instr.operation = Inv /\ Stop("threw")
    \/ Instr.operation = MovRef /\ Stop("aborted")
    \/ Instr.operation \notin Handlers /\ Stop("undefined")

(* init(): a frame for funcs_[0], which is there.                          *)
Start ==
    /\ mode = "idle" /\ funcs # <<>>
    /\ frames' = <<[func |-> 1, pc |-> 0]>>
    /\ mode' = "running"
    /\ UNCHANGED <<funcs, native>>

Step ==
    /\ mode = "running"
    /\ \/ ~InCode(Current.func, Current.pc) /\ Stop("undefined")
       \/ /\ InCode(Current.func, Current.pc)
          /\ \/ ExecStraight \/ ExecIf \/ ExecAcmp \/ ExecGoto
             \/ ExecCall \/ ExecRet \/ ExecFailing

(* The code manager loads before a run, never during one.                  *)
Loading ==
    /\ mode = "idle" /\ funcs' \in Seq(Function)
    /\ UNCHANGED <<frames, native, mode>>

MachineInit ==
    /\ funcs \in Seq(Function)
    /\ frames = <<>> /\ native = 0 /\ mode = "idle"

MachineNext == Loading \/ Start \/ Step

MachineSpec == MachineInit /\ [][MachineNext]_machineVars

-----------------------------------------------------------------------------
(* Code whose execution stays in it: it has instructions, the last is no   *)
(* place to fall through, jumps land inside and calls are of functions.    *)
Falls(op) == op \in Straight \cup If \cup {Call}
Jumps(op) == op \in If \cup {Goto}

InstrOK(f, pc) ==
    LET ins == At(f, pc) IN
    /\ ins.operation \in Handlers
    /\ Falls(ins.operation) => InCode(f, pc + 1)
    /\ Jumps(ins.operation) => InCode(f, pc + SignedImm(ins.immidiate))
    /\ ins.operation = Call => ins.immidiate + 1 \in DOMAIN funcs

WellFormed ==
    \A f \in DOMAIN funcs :
        /\ Code(f) # <<>>
        /\ \A pc \in 0 .. Len(Code(f)) - 1 : InstrOK(f, pc)

(* A program whose code is well formed never fetches outside it, never     *)
(* calls what is no function nor dispatches what is no handler, through    *)
(* any calls and returns (executor.cpp:10-16, 68-79, 380-387).             *)
StaysInCode == WellFormed => mode # "undefined"

(* A frame below the current one waits at the call that made the next, and *)
(* a return goes on after it (executor.cpp:68-79, 380-387).                *)
CallersWaitAtCalls ==
    \A k \in 1 .. Len(frames) - 1 :
        LET f == frames[k].func IN
        /\ InCode(f, frames[k].pc)
        /\ At(f, frames[k].pc).operation = Call
        /\ At(f, frames[k].pc).immidiate + 1 = frames[k + 1].func

(* Without loops: jumps go forward, no If_acmp, and calls are of functions *)
(* later in the file.                                                      *)
Forward(f, pc) ==
    LET ins == At(f, pc) IN
    /\ Jumps(ins.operation) => SignedImm(ins.immidiate) > 0
    /\ ins.operation \notin Acmp
    /\ ins.operation = Call => ins.immidiate + 1 > f

LoopFree ==
    \A f \in DOMAIN funcs :
        \A pc \in 0 .. Len(Code(f)) - 1 : Forward(f, pc)

(* A run of such a program ends, one way or another.                       *)
LoopFreeEnds == mode = "running" /\ LoopFree ~> mode # "running"
=============================================================================
