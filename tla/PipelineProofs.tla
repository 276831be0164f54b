--------------------------- MODULE PipelineProofs ---------------------------
(***************************************************************************)
(* From text to the end of a run, for every text, table of mnemonics, set  *)
(* of handlers and choice of the compiler.                                 *)
(*                                                                         *)
(* The machine: frames wait at the calls that made the next, and           *)
(* well-formed code is never left.  The assembler: every word it has given *)
(* to the builder means a piece of the text, and the names of the          *)
(* functions so far are those of the text so far, in its order.  With what *)
(* the loader gives back, what is run is what was written.                 *)
(***************************************************************************)
EXTENDS Pipeline, LoaderProofs, FiniteSetTheorems

-----------------------------------------------------------------------------
(* The machine.                                                            *)

FrameRecord == [func : Nat, pc : Int]

FramesOK ==
    /\ frames \in Seq(FrameRecord)
    /\ \A k \in 1 .. Len(frames) : frames[k].func \in DOMAIN funcs
    /\ mode = "idle" => frames = <<>>
    /\ mode = "running" => frames # <<>>

(* What makes StaysInCode inductive: the current pc is in the code too.    *)
PcInCode ==
    WellFormed =>
        /\ mode # "undefined"
        /\ mode = "running" => InCode(Current.func, Current.pc)

MachineInv ==
    /\ funcs \in Seq(Function)
    /\ native \in 0 .. NativeLimit /\ mode \in Mode
    /\ FramesOK
    /\ CallersWaitAtCalls
    /\ PcInCode

-----------------------------------------------------------------------------
LEMMA ImmidiateInt ==
    ASSUME NEW word \in Nat PROVE SignedImm(Parse(word).immidiate) \in Int
<1>1. ImmSize \in Nat /\ ImmSize > 0
  BY ByteAssumption, Z3 DEF ImmSize
<1>2. word \div ImmSize \in Int
  BY <1>1
<1>3. (word \div ImmSize) % ImmSize \in Int
  BY <1>1, <1>2
<1> QED BY <1>1, <1>3 DEF Parse, SignedImm

(* Code is words.                                                          *)
LEMMA WordsOfCode ==
    ASSUME funcs \in Seq(Function), NEW f \in DOMAIN funcs
    PROVE  /\ Code(f) \in Seq(Nat) /\ Len(Code(f)) \in Nat
           /\ \A pc \in Int : InCode(f, pc) =>
                 SignedImm(At(f, pc).immidiate) \in Int
<1>1. funcs[f] \in Function
  BY ElementOfSeq, LenProperties
<1>2. Code(f) \in Seq(Nat) /\ Len(Code(f)) \in Nat
  BY <1>1 DEF Function, Code
<1>3. ASSUME NEW pc \in Int, InCode(f, pc)
      PROVE  SignedImm(At(f, pc).immidiate) \in Int
  <2>1. pc + 1 \in 1 .. Len(Code(f))
    BY <1>2, <1>3 DEF InCode
  <2>2. Code(f)[pc + 1] \in Nat
    BY <1>2, <2>1, ElementOfSeq
  <2> QED BY <2>2, ImmidiateInt DEF At
<1> QED BY <1>2, <1>3

LEMMA CurrentFrame ==
    ASSUME FramesOK, mode = "running"
    PROVE  /\ Len(frames) \in Nat /\ Len(frames) >= 1
           /\ Current \in FrameRecord
           /\ Current.func \in DOMAIN funcs /\ Current.pc \in Int
<1>1. frames \in Seq(FrameRecord) /\ frames # <<>>
  BY DEF FramesOK
<1>2. Len(frames) \in Nat /\ Len(frames) >= 1
  BY <1>1, EmptySeq
<1>3. Current \in FrameRecord
  BY <1>1, <1>2, ElementOfSeq DEF Current
<1>4. Current.func \in DOMAIN funcs
  BY <1>2 DEF FramesOK, Current
<1> QED BY <1>2, <1>3, <1>4 DEF FrameRecord

(* Nothing but the mode changes, and it is one in which nothing runs.      *)
LEMMA StopKeepsInv ==
    ASSUME MachineInv, mode = "running", NEW how, Stop(how),
           how \in {"ended", "threw", "aborted", "failed", "undefined"},
           WellFormed => how # "undefined"
    PROVE  MachineInv'
<1>1. /\ mode' = how /\ funcs' = funcs /\ frames' = frames /\ native' = native
  BY DEF Stop
<1>2. WellFormed' <=> WellFormed
  BY <1>1 DEF WellFormed, InstrOK, At, InCode, Code
<1>3. FramesOK'
  BY <1>1 DEF MachineInv, FramesOK
<1>4. CallersWaitAtCalls'
  BY <1>1 DEF MachineInv, CallersWaitAtCalls, At, InCode, Code
<1>5. PcInCode'
  BY <1>1, <1>2 DEF PcInCode
<1>6. mode' \in Mode
  BY <1>1 DEF Mode
<1> QED BY <1>1, <1>3, <1>4, <1>5, <1>6 DEF MachineInv

(* A dispatch leaves code alone; it may overflow the native stack.         *)
LEMMA DispatchEffect ==
    ASSUME MachineInv, mode = "running", InCode(Current.func, Current.pc),
           NEW op, Instr.operation = op, Dispatch(op)
    PROVE  /\ funcs' = funcs
           /\ native' \in 0 .. NativeLimit /\ mode' \in {"running", "overflowed"}
           /\ WellFormed' <=> WellFormed
<1>1. funcs' = funcs
  BY DEF Dispatch
<1>2. native' \in 0 .. NativeLimit /\ mode' \in {"running", "overflowed"}
  BY MachineAssumption DEF Dispatch, MachineInv
<1>3. WellFormed' <=> WellFormed
  BY <1>1 DEF WellFormed, InstrOK, At, InCode, Code
<1> QED BY <1>1, <1>2, <1>3

(* The current frame moves to an instruction that is there, if code is     *)
(* well formed: straight on, by a branch, or not at all.                   *)
LEMMA MoveKeepsInv ==
    ASSUME MachineInv, mode = "running", InCode(Current.func, Current.pc),
           NEW op, Instr.operation = op, Dispatch(op),
           NEW pc \in Int, MoveTo(pc),
           WellFormed => InCode(Current.func, pc)
    PROVE  MachineInv'
<1> DEFINE n == Len(frames)
<1>1. /\ funcs' = funcs
      /\ native' \in 0 .. NativeLimit /\ mode' \in {"running", "overflowed"}
      /\ WellFormed' <=> WellFormed
  BY DispatchEffect
<1>2. /\ n \in Nat /\ n >= 1 /\ frames \in Seq(FrameRecord)
      /\ Current \in FrameRecord /\ Current = frames[n]
  BY CurrentFrame DEF MachineInv, FramesOK, Current
<1>3. /\ frames' = [frames EXCEPT ![n] = [Current EXCEPT !.pc = pc]]
      /\ [Current EXCEPT !.pc = pc] \in FrameRecord
  BY <1>2 DEF MoveTo, FrameRecord
<1> HIDE DEF n
<1>4. /\ frames' \in Seq(FrameRecord) /\ Len(frames') = n
      /\ \A k \in 1 .. n : /\ frames'[k].func = frames[k].func
                           /\ k < n => frames'[k] = frames[k]
      /\ frames'[n].pc = pc
  <2> DEFINE new == [Current EXCEPT !.pc = pc]
  <2>1. new.func = Current.func /\ new.pc = pc /\ new \in FrameRecord
    BY <1>2, <1>3 DEF FrameRecord
  <2>2. frames' = [frames EXCEPT ![n] = new]
    BY <1>3
  <2>3. n = Len(frames) /\ n \in 1 .. Len(frames)
    BY <1>2 DEF n
  <2> HIDE DEF new
  <2>4. /\ frames' \in Seq(FrameRecord) /\ Len(frames') = n
        /\ \A k \in 1 .. n : frames'[k] = IF k = n THEN new ELSE frames[k]
    BY <1>2, <2>1, <2>2, <2>3, ExceptSeq
  <2> QED BY <1>2, <2>1, <2>4
<1>5. FramesOK'
  <2>1. \A k \in 1 .. n : frames[k].func \in DOMAIN funcs
    BY DEF MachineInv, FramesOK, n
  <2>2. frames' # <<>>
    BY <1>2, <1>4, EmptySeq
  <2> QED BY <1>1, <1>4, <2>1, <2>2 DEF FramesOK
<1>6. CallersWaitAtCalls'
  <2>1. \A k \in 1 .. n - 1 :
           /\ InCode(frames[k].func, frames[k].pc)
           /\ At(frames[k].func, frames[k].pc).operation = Call
           /\ At(frames[k].func, frames[k].pc).immidiate + 1 = frames[k + 1].func
    BY DEF MachineInv, CallersWaitAtCalls, n
  <2>2. \A k \in 1 .. n - 1 : /\ k \in 1 .. n /\ k < n /\ k + 1 \in 1 .. n
    BY <1>2
  <2> QED
    BY <1>1, <1>4, <2>1, <2>2 DEF CallersWaitAtCalls, InCode, At, Code
<1>7. PcInCode'
  <2>1. Current'.func = Current.func /\ Current'.pc = pc
    <3>1. n \in 1 .. n
      BY <1>2
    <3> QED BY <1>2, <1>4, <3>1 DEF Current
  <2> QED BY <1>1, <2>1 DEF PcInCode, InCode, Code
<1>8. funcs' \in Seq(Function) /\ mode' \in Mode
  BY <1>1 DEF MachineInv, Mode
<1> QED BY <1>1, <1>5, <1>6, <1>7, <1>8 DEF MachineInv

-----------------------------------------------------------------------------
(* What well-formed code says of the instruction at hand.                  *)
LEMMA InstrIsOK ==
    ASSUME MachineInv, mode = "running", InCode(Current.func, Current.pc)
    PROVE  /\ Current.pc \in Int /\ Current.func \in DOMAIN funcs
           /\ SignedImm(Instr.immidiate) \in Int
           /\ WellFormed => InstrOK(Current.func, Current.pc)
<1>1. Current.pc \in Int /\ Current.func \in DOMAIN funcs
  BY CurrentFrame DEF MachineInv
<1>2. SignedImm(Instr.immidiate) \in Int
  BY <1>1, WordsOfCode DEF MachineInv, Instr
<1>3. WellFormed => InstrOK(Current.func, Current.pc)
  BY <1>1 DEF WellFormed, InCode
<1> QED BY <1>1, <1>2, <1>3

LEMMA AdvanceKeepsInv ==
    ASSUME MachineInv, mode = "running", InCode(Current.func, Current.pc),
           NEW op \in Straight \cup If, Instr.operation = op, Advance(op)
    PROVE  MachineInv'
<1>1. Current.pc + 1 \in Int
  BY InstrIsOK
<1>2. WellFormed => InCode(Current.func, Current.pc + 1)
  BY InstrIsOK DEF InstrOK, Falls, Instr
<1>3. MoveTo(Current.pc + 1) /\ Dispatch(op)
  BY DEF Advance
<1> QED BY <1>1, <1>2, <1>3, MoveKeepsInv

LEMMA BranchKeepsInv ==
    ASSUME MachineInv, mode = "running", InCode(Current.func, Current.pc),
           NEW op \in If \cup {Goto}, Instr.operation = op, Branch(op)
    PROVE  MachineInv'
<1> DEFINE target == Current.pc + SignedImm(Instr.immidiate)
<1>1. target \in Int
  BY InstrIsOK
<1>2. WellFormed => InCode(Current.func, target)
  BY InstrIsOK DEF InstrOK, Jumps, Instr
<1>3. MoveTo(target) /\ Dispatch(op)
  BY DEF Branch
<1> QED BY <1>1, <1>2, <1>3, MoveKeepsInv

LEMMA AcmpKeepsInv ==
    ASSUME MachineInv, mode = "running", InCode(Current.func, Current.pc), ExecAcmp
    PROVE  MachineInv'
<1>0. CASE Stop("failed")
  BY <1>0, StopKeepsInv
<1> SUFFICES ASSUME NEW op \in Acmp, Instr.operation = op, Dispatch(op), UNCHANGED frames
             PROVE  MachineInv'
  BY <1>0 DEF ExecAcmp
<1>1. /\ funcs' = funcs
      /\ native' \in 0 .. NativeLimit /\ mode' \in {"running", "overflowed"}
      /\ WellFormed' <=> WellFormed
  BY DispatchEffect
<1>2. FramesOK'
  BY <1>1 DEF MachineInv, FramesOK
<1>3. CallersWaitAtCalls'
  BY <1>1 DEF MachineInv, CallersWaitAtCalls, InCode, At, Code
<1>4. PcInCode'
  BY <1>1 DEF PcInCode, InCode, Code, Current
<1>5. mode' \in Mode /\ funcs' \in Seq(Function)
  BY <1>1 DEF Mode, MachineInv
<1> QED BY <1>1, <1>2, <1>3, <1>4, <1>5 DEF MachineInv

(* A call: the caller stays, a frame at instruction 0 is on top.           *)
LEMMA CallKeepsInv ==
    ASSUME MachineInv, mode = "running", InCode(Current.func, Current.pc), ExecCall
    PROVE  MachineInv'
<1> DEFINE n == Len(frames)
           new == [func |-> Callee, pc |-> 0]
<1>0. Instr.operation = Call
  BY DEF ExecCall
<1>1. CASE Stop("threw") \/ Stop("aborted")
  BY <1>1, StopKeepsInv
<1>2. CASE Callee \notin DOMAIN funcs /\ Stop("undefined")
  <2>1. WellFormed => Callee \in DOMAIN funcs
    BY <1>0, InstrIsOK DEF InstrOK, Callee, Instr
  <2> QED BY <1>2, <2>1, StopKeepsInv
<1>3. CASE Callee \in DOMAIN funcs /\ frames' = Append(frames, new) /\ Dispatch(Call)
  <2>1. /\ funcs' = funcs
        /\ native' \in 0 .. NativeLimit /\ mode' \in {"running", "overflowed"}
        /\ WellFormed' <=> WellFormed
    BY <1>0, <1>3, DispatchEffect
  <2>2. /\ n \in Nat /\ n >= 1 /\ frames \in Seq(FrameRecord) /\ Current = frames[n]
        /\ Callee \in DOMAIN funcs
    BY <1>3, CurrentFrame DEF MachineInv, FramesOK, Current
  <2>3. new \in FrameRecord /\ new.func = Callee /\ new.pc = 0
    <3>1. Callee \in 1 .. Len(funcs) /\ Len(funcs) \in Nat
      BY <1>3, LenProperties DEF MachineInv
    <3> QED BY <3>1 DEF FrameRecord
  <2> HIDE DEF new, n
  <2>4. /\ frames' \in Seq(FrameRecord) /\ Len(frames') = n + 1
        /\ frames'[n + 1] = new
        /\ \A k \in 1 .. n : frames'[k] = frames[k]
    BY <1>3, <2>2, <2>3, AppendProperties DEF n
  <2>5. FramesOK'
    <3>1. \A k \in 1 .. n : frames[k].func \in DOMAIN funcs
      BY DEF MachineInv, FramesOK, n
    <3>2. frames' # <<>>
      BY <2>2, <2>4, EmptySeq
    <3>3. ASSUME NEW k \in 1 .. n + 1 PROVE frames'[k].func \in DOMAIN funcs
      <4>1. k = n + 1 \/ k \in 1 .. n
        BY <2>2
      <4> QED BY <2>2, <2>3, <2>4, <3>1, <4>1
    <3> QED BY <2>1, <2>4, <3>2, <3>3 DEF FramesOK
  <2>6. CallersWaitAtCalls'
    <3>1. \A k \in 1 .. n - 1 :
             /\ InCode(frames[k].func, frames[k].pc)
             /\ At(frames[k].func, frames[k].pc).operation = Call
             /\ At(frames[k].func, frames[k].pc).immidiate + 1 = frames[k + 1].func
      BY DEF MachineInv, CallersWaitAtCalls, n
    <3>2. /\ InCode(frames[n].func, frames[n].pc)
          /\ At(frames[n].func, frames[n].pc).operation = Call
          /\ At(frames[n].func, frames[n].pc).immidiate + 1 = new.func
      BY <1>0, <2>2, <2>3 DEF Instr, Callee
    <3>3. ASSUME NEW k \in 1 .. n
          PROVE  /\ InCode(frames'[k].func, frames'[k].pc)
                 /\ At(frames'[k].func, frames'[k].pc).operation = Call
                 /\ At(frames'[k].func, frames'[k].pc).immidiate + 1
                       = frames'[k + 1].func
      <4>1. CASE k = n
        BY <2>2, <2>4, <3>2, <4>1
      <4>2. CASE k # n
        <5>1. k \in 1 .. n - 1 /\ k + 1 \in 1 .. n
          BY <2>2, <4>2
        <5> QED BY <2>4, <3>1, <5>1
      <4> QED BY <4>1, <4>2
    <3>4. Len(frames') - 1 = n
      BY <2>2, <2>4
    <3> HIDE DEF n
    <3> QED BY <2>1, <3>3, <3>4 DEF CallersWaitAtCalls, InCode, At, Code
  <2>7. PcInCode'
    <3>1. Current'.func = Callee /\ Current'.pc = 0
      BY <2>3, <2>4 DEF Current
    <3>2. WellFormed => InCode(Callee, 0)
      <4>1. Code(Callee) \in Seq(Nat) /\ Len(Code(Callee)) \in Nat
        BY <2>2, WordsOfCode DEF MachineInv
      <4>2. WellFormed => Code(Callee) # <<>>
        BY <2>2 DEF WellFormed
      <4> QED BY <4>1, <4>2, EmptySeq DEF InCode
    <3> QED BY <2>1, <3>1, <3>2 DEF PcInCode, InCode, Code
  <2>8. mode' \in Mode /\ funcs' \in Seq(Function)
    BY <2>1 DEF Mode, MachineInv
  <2> QED BY <2>1, <2>5, <2>6, <2>7, <2>8 DEF MachineInv
<1> QED BY <1>1, <1>2, <1>3 DEF ExecCall

(* A return: the caller, which was at its call, is past it.                *)
LEMMA RetKeepsInv ==
    ASSUME MachineInv, mode = "running", InCode(Current.func, Current.pc), ExecRet
    PROVE  MachineInv'
<1> DEFINE n == Len(frames) - 1
<1>0. Instr.operation = Ret
  BY DEF ExecRet
<1>1. Len(frames) \in Nat /\ Len(frames) >= 1 /\ frames \in Seq(FrameRecord)
  BY CurrentFrame DEF MachineInv, FramesOK
<1>2. CASE n = 0 /\ frames' = <<>> /\ mode' = "ended" /\ UNCHANGED <<funcs, native>>
  <2>1. WellFormed' <=> WellFormed
    BY <1>2 DEF WellFormed, InstrOK, At, InCode, Code
  <2>2. FramesOK'
    BY <1>2 DEF FramesOK
  <2>3. CallersWaitAtCalls'
    BY <1>2 DEF CallersWaitAtCalls
  <2>4. PcInCode' /\ mode' \in Mode
    BY <1>2 DEF PcInCode, Mode
  <2> QED BY <1>2, <2>2, <2>3, <2>4 DEF MachineInv
<1>3. CASE /\ n > 0
           /\ frames' = [SubSeq(frames, 1, n) EXCEPT ![n].pc = @ + 1]
           /\ Dispatch(Ret)
  <2>1. /\ funcs' = funcs
        /\ native' \in 0 .. NativeLimit /\ mode' \in {"running", "overflowed"}
        /\ WellFormed' <=> WellFormed
    BY <1>0, <1>3, DispatchEffect
  <2>2. n \in Nat /\ n >= 1 /\ n <= Len(frames) /\ n \in 1 .. Len(frames)
    BY <1>1, <1>3
  <2> DEFINE rest == SubSeq(frames, 1, n)
             new == [frames[n] EXCEPT !.pc = frames[n].pc + 1]
  <2>3. frames[n] \in FrameRecord /\ frames[n].func \in DOMAIN funcs
    BY <1>1, <2>2, ElementOfSeq DEF MachineInv, FramesOK
  <2>4. /\ new \in FrameRecord /\ new.func = frames[n].func
        /\ new.pc = frames[n].pc + 1 /\ frames[n].pc \in Int
    BY <2>3 DEF FrameRecord
  <2> HIDE DEF n
  <2>5. /\ rest \in Seq(FrameRecord) /\ Len(rest) = n
        /\ \A k \in 1 .. n : rest[k] = frames[k]
    <3>1. 1 \in Nat /\ 1 + n - 1 = n
      BY <2>2
    <3> QED BY <1>1, <2>2, SubSeqProperties
  <2>6. rest[n] = frames[n]
    BY <2>2, <2>5
  <2> HIDE DEF rest
  <2>7. frames' = [rest EXCEPT ![n] = new]
    BY <1>3, <2>6 DEF rest
  <2> HIDE DEF new
  <2>8. /\ frames' \in Seq(FrameRecord) /\ Len(frames') = n
        /\ \A k \in 1 .. n : frames'[k] = IF k = n THEN new ELSE frames[k]
    <3>1. n \in 1 .. Len(rest)
      BY <2>2, <2>5
    <3> QED BY <2>4, <2>5, <2>7, <3>1, ExceptSeq
  <2>9. \A k \in 1 .. n : /\ frames'[k].func = frames[k].func
                          /\ k < n => frames'[k] = frames[k]
    BY <2>2, <2>4, <2>8
  <2>10. \A k \in 1 .. n :
             /\ InCode(frames[k].func, frames[k].pc)
             /\ At(frames[k].func, frames[k].pc).operation = Call
             /\ At(frames[k].func, frames[k].pc).immidiate + 1 = frames[k + 1].func
    BY <1>1 DEF MachineInv, CallersWaitAtCalls, n
  <2>11. FramesOK'
    <3>1. \A k \in 1 .. n : frames[k].func \in DOMAIN funcs
      BY <1>1, <2>2 DEF MachineInv, FramesOK
    <3>2. frames' # <<>>
      BY <2>2, <2>8, EmptySeq
    <3> QED BY <2>1, <2>8, <2>9, <3>1, <3>2 DEF FramesOK
  <2>12. CallersWaitAtCalls'
    <3>1. \A k \in 1 .. n - 1 : k \in 1 .. n /\ k < n /\ k + 1 \in 1 .. n
      BY <2>2
    <3> QED
      BY <2>1, <2>8, <2>9, <2>10, <3>1 DEF CallersWaitAtCalls, InCode, At, Code
  <2>13. PcInCode'
    <3>1. n \in 1 .. n
      BY <2>2
    <3>2. Current'.func = frames[n].func /\ Current'.pc = frames[n].pc + 1
      BY <2>4, <2>8, <3>1 DEF Current
    <3>3. InCode(frames[n].func, frames[n].pc)
          /\ At(frames[n].func, frames[n].pc).operation = Call
      BY <2>10, <3>1
    <3>4. WellFormed => InCode(frames[n].func, frames[n].pc + 1)
      BY <2>3, <3>3 DEF WellFormed, InstrOK, InCode, Falls
    <3> QED BY <2>1, <3>2, <3>4 DEF PcInCode, InCode, Code
  <2>14. mode' \in Mode /\ funcs' \in Seq(Function)
    BY <2>1 DEF Mode, MachineInv
  <2> QED BY <2>1, <2>11, <2>12, <2>13, <2>14 DEF MachineInv
<1> QED BY <1>2, <1>3 DEF ExecRet

LEMMA StepKeepsInv == ASSUME MachineInv, Step PROVE MachineInv'
<1>0. mode = "running"
  BY DEF Step
<1>1. CASE ~InCode(Current.func, Current.pc) /\ Stop("undefined")
  <2>1. ~WellFormed
    BY <1>0, <1>1 DEF MachineInv, PcInCode
  <2> QED BY <1>0, <1>1, <2>1, StopKeepsInv
<1>2. CASE InCode(Current.func, Current.pc) /\ ExecStraight
  BY <1>0, <1>2, AdvanceKeepsInv, StopKeepsInv DEF ExecStraight
<1>3. CASE InCode(Current.func, Current.pc) /\ ExecIf
  BY <1>0, <1>3, AdvanceKeepsInv, BranchKeepsInv, StopKeepsInv DEF ExecIf
<1>4. CASE InCode(Current.func, Current.pc) /\ ExecAcmp
  BY <1>0, <1>4, AcmpKeepsInv
<1>5. CASE InCode(Current.func, Current.pc) /\ ExecGoto
  BY <1>0, <1>5, BranchKeepsInv DEF ExecGoto
<1>6. CASE InCode(Current.func, Current.pc) /\ ExecCall
  BY <1>0, <1>6, CallKeepsInv
<1>7. CASE InCode(Current.func, Current.pc) /\ ExecRet
  BY <1>0, <1>7, RetKeepsInv
<1>8. CASE InCode(Current.func, Current.pc) /\ ExecFailing
  <2>1. CASE Stop("threw") \/ Stop("aborted")
    BY <1>0, <2>1, StopKeepsInv
  <2>2. CASE Instr.operation \notin Handlers /\ Stop("undefined")
    <3>1. ~WellFormed
      BY <1>0, <1>8, <2>2, InstrIsOK DEF InstrOK, Instr
    <3> QED BY <1>0, <2>2, <3>1, StopKeepsInv
  <2> QED BY <1>8, <2>1, <2>2 DEF ExecFailing
<1> QED BY <1>0, <1>1, <1>2, <1>3, <1>4, <1>5, <1>6, <1>7, <1>8 DEF Step

LEMMA LoadingKeepsInv == ASSUME MachineInv, Loading PROVE MachineInv'
<1>1. /\ mode = "idle" /\ mode' = "idle" /\ frames' = frames /\ native' = native
      /\ frames = <<>> /\ funcs' \in Seq(Function)
  BY DEF Loading, MachineInv, FramesOK
<1> QED
  BY <1>1 DEF MachineInv, FramesOK, CallersWaitAtCalls, PcInCode

LEMMA StartKeepsInv == ASSUME MachineInv, Start PROVE MachineInv'
<1> DEFINE first == [func |-> 1, pc |-> 0]
<1>1. /\ funcs # <<>> /\ funcs \in Seq(Function) /\ funcs' = funcs
      /\ frames' = <<first>> /\ mode' = "running" /\ native' = native
  BY DEF Start, MachineInv
<1>2. 1 \in DOMAIN funcs
  BY <1>1, EmptySeq, LenProperties
<1>3. /\ first \in FrameRecord
      /\ frames' \in Seq(FrameRecord) /\ Len(frames') = 1 /\ frames'[1] = first
  BY <1>1 DEF FrameRecord
<1>4. FramesOK'
  BY <1>1, <1>2, <1>3 DEF FramesOK
<1>5. CallersWaitAtCalls'
  BY <1>3 DEF CallersWaitAtCalls
<1>6. PcInCode'
  <2>1. Current'.func = 1 /\ Current'.pc = 0
    BY <1>3 DEF Current
  <2>2. Code(1) \in Seq(Nat) /\ Len(Code(1)) \in Nat
    BY <1>1, <1>2, WordsOfCode
  <2>3. WellFormed => InCode(1, 0)
    BY <1>2, <2>2, EmptySeq DEF WellFormed, InCode
  <2>4. WellFormed' <=> WellFormed
    BY <1>1 DEF WellFormed, InstrOK, At, InCode, Code
  <2> QED BY <1>1, <2>1, <2>3, <2>4 DEF PcInCode, InCode, Code
<1>7. mode' \in Mode /\ native' \in 0 .. NativeLimit
  BY <1>1 DEF Mode, MachineInv
<1> QED BY <1>1, <1>4, <1>5, <1>6, <1>7 DEF MachineInv

LEMMA MachineInvariant == MachineSpec => []MachineInv
<1>1. MachineInit => MachineInv
  BY MachineAssumption
     DEF MachineInit, MachineInv, FramesOK, CallersWaitAtCalls, PcInCode,
         Mode
<1>2. MachineInv /\ [MachineNext]_machineVars => MachineInv'
  <2> SUFFICES ASSUME MachineInv, [MachineNext]_machineVars PROVE MachineInv'
    OBVIOUS
  <2>1. CASE UNCHANGED machineVars
    BY <2>1 DEF machineVars, MachineInv, FramesOK, CallersWaitAtCalls, PcInCode,
       WellFormed, InstrOK, InCode, At, Code, Current
  <2> QED
    BY <2>1, LoadingKeepsInv, StartKeepsInv, StepKeepsInv DEF MachineNext
<1> QED BY <1>1, <1>2, PTL DEF MachineSpec

(* The types of all variables, a frame's function being one that is loaded.*)
THEOREM MachineTyped == MachineSpec => []MachineTypeOK
<1>1. ASSUME MachineInv PROVE MachineTypeOK
  <2>1. frames \in Seq(FrameRecord) /\ Len(frames) \in Nat
    BY <1>1, LenProperties DEF MachineInv, FramesOK
  <2>2. ASSUME NEW k \in 1 .. Len(frames)
        PROVE  frames[k] \in [func : DOMAIN funcs, pc : Int]
    <3>1. frames[k] \in FrameRecord
      BY <2>1, ElementOfSeq
    <3>2. frames[k].func \in DOMAIN funcs
      BY <1>1 DEF MachineInv, FramesOK
    <3> QED BY <3>1, <3>2 DEF FrameRecord
  <2>3. frames \in [1 .. Len(frames) -> [func : DOMAIN funcs, pc : Int]]
    BY <2>1, <2>2, LenProperties
  <2>4. frames \in Seq([func : DOMAIN funcs, pc : Int])
    <3> DEFINE S == [func : DOMAIN funcs, pc : Int]
               n == Len(frames)
    <3>1. n \in Nat /\ frames \in [1 .. n -> S]
      BY <2>1, <2>3
    <3> HIDE DEF S, n
    <3>2. frames \in Seq(S)
      BY <3>1, SeqDef, Zenon
    <3> QED BY <3>2 DEF S
  <2> QED BY <1>1, <2>4 DEF MachineInv, FramesOK, MachineTypeOK
<1> QED BY <1>1, MachineInvariant, PTL

-----------------------------------------------------------------------------
(* The functions of a text, in its order.                                  *)

Ordinal(i) == Cardinality({j \in FuncAt : j <= i})

CalleeOf(n) == IF n \in Declared THEN ToImm(Ordinal(FirstOf(n))) ELSE 0

(* ns are the names of the functions that begin before place p.            *)
NamesBefore(p, ns) ==
    /\ Ordinal(p - 1) = Len(ns)
    /\ \A i \in FuncAt : i < p => ns[Ordinal(i)] = Lexeme(i + 1).value
    /\ \A g \in 1 .. Len(ns) : \E i \in FuncAt : i < p /\ Ordinal(i) = g

(* An id of a constant that the builder gave out.                          *)
ConstantAt(id, c) ==
    /\ c.tag \in {CNST_I64, CNST_F64, CNST_RAW_STR}
    /\ Len(pool) < ImmSize => id + 1 \in 1 .. Len(pool) /\ pool[id + 1] = c

MeansRegister(r, lexeme) ==
    /\ lexeme.value \in DOMAIN RegisterNumber
    /\ r = ToByte(RegisterNumber[lexeme.value])

(* A word has the operation and the operands of its text; if it is a call, *)
(* the id of the function of that name.                                    *)
MeansInstr(word, text) ==
    LET ins == Parse(word)
        m == Mnemonic[text[1].value]
    IN  /\ word \in Nat /\ text[1].value \in DOMAIN Mnemonic
        /\ ins.operation = m.op
        /\ m.format \in {"R", "RR", "RI"} => MeansRegister(ins.r1, text[2])
        /\ m.format = "RR" => MeansRegister(ins.r2, text[4])
        /\ m.format = "RI" =>
              text[4].value \in Int /\ ins.immidiate = ToImm(text[4].value)
        /\ m.op = Call => ins.immidiate = CalleeOf(text[2].value)
        /\ m.format = "I" /\ m.op # Call =>
              ConstantAt(ins.immidiate, ConstantOf(text[2]))

CodeMeans(code, texts) ==
    /\ IsSequence(code) /\ IsSequence(texts) /\ Len(code) = Len(texts)
    /\ \A i \in 1 .. Len(texts) : MeansInstr(code[i], texts[i])

(* What is built so far means what is read so far, function by function.   *)
AsmBuilt ==
    /\ CodeMeans(rawInstrs, meantMain)
    /\ CodeMeans(instrs, meant)
    /\ IsSequence(meantBodies) /\ Len(meantBodies) = Len(functions)
    /\ \A f \in 1 .. Len(functions) : CodeMeans(functions[f].code, meantBodies[f])
    /\ IsSequence(names) /\ Len(names) = Len(functions)

(* The functions that are built are those of the text up to here: ids      *)
(* count both.                                                             *)
NamesKnown ==
    /\ asm = "main" => names = <<>> /\ NamesBefore(pos, names)
    /\ asm = "top" => NamesBefore(pos, names)
    /\ asm = "body" => NamesBefore(pos, Append(names, header.name))
    /\ asm \in {"write", "written"} => NamesBefore(Len(source) + 1, names)

(* A name that was looked up in vain is known from then on, as main.       *)
IdsKnown ==
    asm \in {"main", "top", "body"} =>
        /\ pos # 0
        /\ Declared \subseteq DOMAIN ids
        /\ \A n \in DOMAIN ids : ids[n] = CalleeOf(n)

AsmTyped ==
    /\ source \in Source
    /\ pos \in 0 .. Len(source) + 1
    /\ asm \in Phase
    /\ asm = "collect" => pos = 0
    /\ header.regs \in Byte /\ header.args \in Byte
    /\ asm = "written" <=> stage # "building"
    /\ mode # "idle" => stage = "running"
    /\ acc = 0 /\ reg = 0
    /\ klasses = <<>> /\ constantOf = {}
    /\ asm \in {"collect", "main"} => functions = <<>> /\ names = <<>>

AsmInv == AsmTyped /\ AsmBuilt /\ NamesKnown /\ IdsKnown

-----------------------------------------------------------------------------
(* Lexemes.                                                                *)

LEMMA SourceIs ==
    ASSUME source \in Source
    PROVE  /\ IsSequence(source) /\ Len(source) \in Nat
           /\ \A i \in 1 .. Len(source) : LexemeOK(source[i])
<1>1. IsSequence(source)
  BY AssemblerAssumption DEF IsSequence
<1>2. Len(source) \in Nat /\ DOMAIN source = 1 .. Len(source)
  BY <1>1, LenProperties DEF IsSequence
<1> QED
  BY <1>1, <1>2, AssemblerAssumption

(* A lexeme that is not the end of the text is in the text.                *)
LEMMA InText ==
    ASSUME source \in Source, NEW i \in Nat \ {0}, NEW type, Is(i, type), type # "EOF"
    PROVE  /\ i \in 1 .. Len(source) /\ Lexeme(i) = source[i]
           /\ LexemeOK(Lexeme(i)) /\ Lexeme(i).type = type
<1>1. i <= Len(source)
  BY DEF Is, Lexeme, EndOfFile
<1>2. i \in 1 .. Len(source) /\ Lexeme(i) = source[i]
  BY <1>1, SourceIs DEF Lexeme
<1> QED
  BY <1>2, SourceIs DEF Is

LEMMA EndOfText1 ==
    ASSUME source \in Source, NEW i \in 1 .. Len(source) + 1, Is(i, "EOF")
    PROVE  i = Len(source) + 1
<1>1. Len(source) \in Nat
  BY SourceIs
<1>2. ASSUME i \in 1 .. Len(source) PROVE FALSE
  <2>1. LexemeOK(source[i]) /\ Lexeme(i) = source[i]
    BY <1>2, SourceIs DEF Lexeme
  <2> QED BY <2>1 DEF LexemeOK, Is
<1> QED
  BY <1>1, <1>2

-----------------------------------------------------------------------------
(* The order of functions.                                                 *)

LEMMA FuncsAreNat ==
    FuncAt \in SUBSET Nat /\ 0 \notin FuncAt /\ \A i \in FuncAt : i \in Nat /\ i >= 1
BY DEF FuncAt

LEMMA OrdinalTyped ==
    ASSUME source \in Source, NEW p \in Int
    PROVE  /\ IsFiniteSet({j \in FuncAt : j <= p})
           /\ Ordinal(p) \in Nat
<1>1. Len(source) \in Nat
  BY SourceIs
<1>2. IsFiniteSet(1 .. Len(source)) /\ {j \in FuncAt : j <= p} \in SUBSET (1 .. Len(source))
  BY <1>1, FS_Interval DEF FuncAt
<1>3. IsFiniteSet({j \in FuncAt : j <= p})
  BY <1>2, FS_Subset
<1>4. Ordinal(p) \in Nat
  BY <1>3, FS_CardinalityType DEF Ordinal
<1> QED
  BY <1>3, <1>4

(* A step over a lexeme counts it if it begins a function.                 *)
LEMMA OrdinalSteps ==
    ASSUME source \in Source, NEW p \in Int
    PROVE  Ordinal(p) = IF p \in FuncAt THEN Ordinal(p - 1) + 1 ELSE Ordinal(p - 1)
<1> DEFINE S(n) == {j \in FuncAt : j <= n}
<1>1. FuncAt \in SUBSET Nat
  BY FuncsAreNat
<1>2. p \notin S(p - 1)
  OBVIOUS
<1>5. IsFiniteSet(S(p - 1))
  BY OrdinalTyped
<1>6. \A j \in FuncAt : j <= p <=> j <= p - 1 \/ j = p
  <2>1. \A j \in Nat : j <= p <=> j <= p - 1 \/ j = p
    OBVIOUS
  <2> QED BY <1>1, <2>1
<1>3. CASE p \in FuncAt
  <2>1. S(p) = S(p - 1) \cup {p}
    BY <1>3, <1>6
  <2>2. Ordinal(p) = Cardinality(S(p)) /\ Ordinal(p - 1) = Cardinality(S(p - 1))
    BY DEF Ordinal
  <2> HIDE DEF S
  <2> QED BY <1>2, <1>3, <1>5, <2>1, <2>2, FS_AddElement
<1>4. CASE p \notin FuncAt
  <2>1. S(p) = S(p - 1)
    BY <1>4, <1>6
  <2> QED BY <1>4, <2>1 DEF Ordinal
<1> QED
  BY <1>3, <1>4

LEMMA OrdinalGrows ==
    ASSUME source \in Source, NEW p \in Int, NEW q \in Int, p <= q
    PROVE  /\ Ordinal(p) <= Ordinal(q)
           /\ q \in FuncAt /\ p < q => Ordinal(p) < Ordinal(q)
<1> DEFINE S(n) == {j \in FuncAt : j <= n}
<1>1. FuncAt \in SUBSET Nat /\ IsFiniteSet(S(q)) /\ Ordinal(p) \in Nat /\ Ordinal(q) \in Nat
  BY FuncsAreNat, OrdinalTyped
<1>2. S(p) \in SUBSET S(q)
  <2>1. \A j \in Nat : j <= p => j <= q
    OBVIOUS
  <2> QED BY <1>1, <2>1
<1>3. Ordinal(p) <= Ordinal(q) /\ (Ordinal(q) = Ordinal(p) => S(q) = S(p))
  BY <1>1, <1>2, FS_Subset DEF Ordinal
<1>4. ASSUME q \in FuncAt, p < q PROVE S(q) # S(p)
  <2>1. q \in S(q) /\ q \notin S(p)
    BY <1>4
  <2> QED BY <2>1
<1> QED
  BY <1>1, <1>3, <1>4

LEMMA FirstIs ==
    ASSUME source \in Source, NEW n \in Declared
    PROVE  /\ FirstOf(n) \in NamesFunction(n)
           /\ \A j \in NamesFunction(n) : FirstOf(n) <= j
           /\ NamesFunction(n) \subseteq FuncAt
<1>1. NamesFunction(n) # {} /\ NamesFunction(n) \subseteq FuncAt
  BY DEF Declared, NamesFunction
<1>2. NamesFunction(n) \in SUBSET Nat
  BY <1>1, FuncsAreNat
<1>3. \E i \in NamesFunction(n) : \A j \in NamesFunction(n) : i <= j
  BY <1>1, <1>2, LeastNatural
<1> QED
  BY <1>1, <1>3 DEF FirstOf

LEMMA CalleeTyped ==
    ASSUME source \in Source, NEW n
    PROVE  CalleeOf(n) \in Imm
<1>1. CASE n \in Declared
  <2>1. FirstOf(n) \in Int
    <3>1. FirstOf(n) \in FuncAt
      BY <1>1, FirstIs
    <3>2. \A x : x \in FuncAt => x \in Int
      BY FuncsAreNat
    <3> QED BY <3>1, <3>2, Zenon
  <2>2. Ordinal(FirstOf(n)) \in Nat
    BY <2>1, OrdinalTyped
  <2> QED BY <1>1, <2>2, Sizes DEF CalleeOf
<1>2. CASE n \notin Declared
  BY <1>2, Sizes DEF CalleeOf
<1> QED
  BY <1>1, <1>2

(* Nothing begins a function between p and q.                              *)
LEMMA NamesStay ==
    ASSUME source \in Source, NEW p \in Nat, NEW q \in Nat, p <= q,
           NEW ns, NamesBefore(p, ns), \A i \in p .. q - 1 : i \notin FuncAt
    PROVE  NamesBefore(q, ns)
<1> DEFINE S(n) == {j \in FuncAt : j <= n}
<1>1. FuncAt \in SUBSET Nat
  BY FuncsAreNat
<1>2. ASSUME NEW i \in FuncAt PROVE i < q <=> i < p
  <2>1. i \in Nat
    BY <1>1
  <2>2. i \notin p .. q - 1
    OBVIOUS
  <2> QED BY <2>1, <2>2
<1>3. S(p - 1) = S(q - 1)
  <2>1. \A i \in FuncAt : i <= q - 1 <=> i <= p - 1
    BY <1>1, <1>2
  <2> QED BY <2>1
<1>4. Ordinal(p - 1) = Ordinal(q - 1)
  BY <1>3 DEF Ordinal
<1> QED
  BY <1>2, <1>4 DEF NamesBefore

LEMMA NamesGrow ==
    ASSUME source \in Source, NEW p \in FuncAt, NEW ns, IsSequence(ns), NamesBefore(p, ns)
    PROVE  NamesBefore(p + 1, Append(ns, Lexeme(p + 1).value))
<1> DEFINE more == Append(ns, Lexeme(p + 1).value)
           n == Len(ns)
<1>1. /\ n \in Nat /\ Len(more) = n + 1
      /\ \A i \in 1 .. n : more[i] = ns[i]
      /\ more[n + 1] = Lexeme(p + 1).value
  BY LongerSequence
<1>2. p \in Nat /\ FuncAt \in SUBSET Nat
  BY FuncsAreNat
<1>3. Ordinal(p - 1) = n /\ Ordinal(p) = n + 1 /\ (p + 1) - 1 = p
  BY <1>2, OrdinalSteps DEF NamesBefore
<1> HIDE DEF more, n
<1>4. ASSUME NEW i \in FuncAt, i < p + 1
      PROVE  more[Ordinal(i)] = Lexeme(i + 1).value
  <2>1. CASE i = p
    BY <1>1, <1>3, <2>1
  <2>2. CASE i < p
    <3>1. i \in Int /\ i - 1 \in Int /\ i <= p - 1 /\ p - 1 \in Int /\ i - 1 < i
      BY <1>2, <2>2
    <3>2. Ordinal(i) \in Nat /\ Ordinal(i - 1) \in Nat
      BY <3>1, OrdinalTyped
    <3>4. Ordinal(i) <= n
      BY <1>3, <3>1, OrdinalGrows
    <3>5. Ordinal(i - 1) < Ordinal(i)
      BY <1>4, <3>1, OrdinalGrows
    <3>3. Ordinal(i) \in 1 .. n
      BY <1>1, <3>2, <3>4, <3>5
    <3> QED BY <1>1, <2>2, <3>3 DEF NamesBefore
  <2>3. i \in Nat /\ p \in Nat
    BY <1>2
  <2> QED BY <1>4, <2>1, <2>2, <2>3
<1>5. ASSUME NEW g \in 1 .. n + 1
      PROVE  \E i \in FuncAt : i < p + 1 /\ Ordinal(i) = g
  <2>1. CASE g = n + 1
    BY <1>2, <1>3, <2>1
  <2>2. CASE g # n + 1
    <3>1. g \in 1 .. n
      BY <1>1, <2>2
    <3>2. PICK i \in FuncAt : i < p /\ Ordinal(i) = g
      BY <3>1 DEF NamesBefore, n
    <3>3. i < p + 1
      BY <1>2, <3>2
    <3> QED BY <3>2, <3>3
  <2> QED BY <2>1, <2>2
<1>6. NamesBefore(p + 1, more)
  BY <1>1, <1>3, <1>4, <1>5 DEF NamesBefore
<1> QED
  BY <1>6 DEF more

LEMMA NoNamesYet ==
    ASSUME source \in Source
    PROVE  NamesBefore(1, <<>>)
<1>1. FuncAt \in SUBSET Nat /\ 0 \notin FuncAt
  BY FuncsAreNat
<1>4. \A i \in FuncAt : ~(i < 1) /\ ~(i <= 0)
  BY <1>1
<1>2. {j \in FuncAt : j <= 0} = {} /\ \A i \in FuncAt : ~(i < 1)
  BY <1>4
<1>3. Ordinal(0) = 0
  BY <1>2, FS_EmptySet DEF Ordinal
<1> QED
  BY <1>2, <1>3 DEF NamesBefore

-----------------------------------------------------------------------------
(* One instruction.                                                        *)

LEMMA Narrowed ==
    ASSUME NEW n \in Int
    PROVE  ToByte(n) \in Byte /\ ToImm(n) \in Imm /\ n % WordSize \in Nat
<1>1. ByteSize \in Nat /\ ByteSize >= 2 /\ ImmSize \in Nat /\ ImmSize >= 2
  BY Sizes
<1>2. ToByte(n) \in Byte
  BY <1>1 DEF ToByte, Byte
<1>3. ToImm(n) \in Imm
  BY <1>1 DEF ToImm, Imm
<1>4. n % WordSize \in Nat
  BY AssemblerAssumption
<1> QED
  BY <1>2, <1>3, <1>4

LEMMA RegisterTyped ==
    ASSUME NEW i, IsRegister(i)
    PROVE  RegisterAt(i) \in Byte
<1>1. RegisterNumber[Lexeme(i).value] \in Int
  BY AssemblerAssumption DEF IsRegister, Named
<1> QED
  BY <1>1, Narrowed DEF RegisterAt

LEMMA WordsTyped ==
    ASSUME NEW op \in Byte, NEW r1 \in Byte, NEW r2 \in Byte, NEW imm \in Imm
    PROVE  /\ RawN(op) \in Nat /\ RawI(op, imm) \in Nat
           /\ RawRI(op, r1, imm) \in Nat /\ RawRR(op, r1, r2) \in Nat
<1>1. /\ op \in Nat /\ r1 \in Nat /\ r2 \in Nat /\ imm \in Nat
      /\ ByteSize \in Nat /\ ImmSize \in Nat
  BY Sizes
<1>2. ByteSize * r1 \in Nat /\ ImmSize * r2 \in Nat /\ ImmSize * imm \in Nat
  BY <1>1, Z3
<1> QED
  BY <1>1, <1>2 DEF RawN, RawI, RawRI, RawRR

LEMMA ConstantOfIs ==
    ASSUME source \in Source, NEW i \in Nat \ {0}, IsConstant(i)
    PROVE  /\ WellFormedConstant(ConstantOf(Lexeme(i)))
           /\ ConstantOf(Lexeme(i)).tag \in {CNST_I64, CNST_F64, CNST_RAW_STR}
<1> DEFINE lexeme == Lexeme(i)
           c == ConstantOf(lexeme)
<1>1. lexeme.type \in {"INTEGER", "FLOAT", "STRING"}
  BY DEF IsConstant
<1>2. LexemeOK(lexeme)
  BY <1>1, InText DEF Is
<1> HIDE DEF lexeme
<1>3. CASE lexeme.type = "INTEGER"
  <2>1. c = ConstNumber(CNST_I64, lexeme.value % WordSize)
    BY <1>3 DEF ConstantOf
  <2>2. lexeme.value % WordSize \in Nat
    BY <1>2, <1>3, Narrowed DEF LexemeOK
  <2> HIDE DEF c
  <2>3. c.tag = CNST_I64 /\ c.data \in Nat
    BY <2>1, <2>2 DEF ConstNumber
  <2> QED BY <2>3 DEF WellFormedConstant, CNST_I64, CNST_F64, CNST_RAW_STR,
                      CNST_FUNC_NAME_AND_TYPE, c, lexeme
<1>4. CASE lexeme.type = "FLOAT"
  <2>1. c = ConstNumber(CNST_F64, lexeme.value)
    BY <1>4 DEF ConstantOf
  <2>2. lexeme.value \in Nat
    BY <1>2, <1>4 DEF LexemeOK
  <2> HIDE DEF c
  <2>3. c.tag = CNST_F64 /\ c.data \in Nat
    BY <2>1, <2>2 DEF ConstNumber
  <2> QED BY <2>3 DEF WellFormedConstant, CNST_I64, CNST_F64, CNST_RAW_STR,
                      CNST_FUNC_NAME_AND_TYPE, c, lexeme
<1>5. CASE lexeme.type = "STRING"
  <2>1. c = ConstRawStr(lexeme.value)
    BY <1>5 DEF ConstantOf
  <2>2. Len(lexeme.value) \in Nat
    BY <1>2, <1>5, LenProperties DEF LexemeOK
  <2> HIDE DEF c
  <2>3. c.tag = CNST_RAW_STR /\ c.text = lexeme.value
    BY <2>1 DEF ConstRawStr
  <2> QED BY <2>2, <2>3 DEF WellFormedConstant, CNST_I64, CNST_F64, CNST_RAW_STR,
                      CNST_FUNC_NAME_AND_TYPE, c, lexeme
<1> QED
  BY <1>1, <1>3, <1>4, <1>5

(* The lexemes of an instruction: none of them begins a function.          *)
Operand(i) == \E type \in LexemType \ {"EOF", "FUNC"} : Is(i, type)

LEMMA OperandIs ==
    ASSUME source \in Source, NEW i \in Nat \ {0}, Operand(i)
    PROVE  /\ i \in 1 .. Len(source) /\ Lexeme(i) = source[i]
           /\ i \notin FuncAt
<1> PICK type \in LexemType \ {"EOF", "FUNC"} : Is(i, type)
  BY DEF Operand
<1>1. i \in 1 .. Len(source) /\ Lexeme(i) = source[i] /\ Lexeme(i).type = type
  BY InText
<1> QED
  BY <1>1 DEF FuncAt, Is

LEMMA MnemonicIs ==
    ASSUME Named(pos, DOMAIN Mnemonic)
    PROVE  /\ Op \in Byte /\ Format \in {"N", "R", "RR", "I", "RI"}
           /\ Op = Call => Format = "I"
           /\ FollowedBy(Format) \in {0, 1, 3}
           /\ Lexeme(pos).value \in DOMAIN Mnemonic
<1>1. Lexeme(pos).value \in DOMAIN Mnemonic
  BY DEF Named
<1>2. /\ Op \in Byte /\ Format \in {"N", "R", "RR", "I", "RI"}
      /\ Op = Call => Format = "I"
  BY <1>1, AssemblerAssumption DEF Op, Format
<1>3. FollowedBy(Format) \in {0, 1, 3}
  BY <1>2 DEF FollowedBy
<1> QED
  BY <1>1, <1>2, <1>3

LEMMA OperandsAre ==
    ASSUME pos \in Nat, Named(pos, DOMAIN Mnemonic), OperandsFit,
           NEW d \in 0 .. FollowedBy(Format)
    PROVE  Operand(pos + d)
<1> DEFINE k == FollowedBy(Format)
<1>1. /\ Format \in {"N", "R", "RR", "I", "RI"} /\ (Op = Call => Format = "I")
  BY MnemonicIs
<1>3. \A i : IsRegister(i) => Operand(i)
  BY DEF IsRegister, Named, Operand, LexemType
<1>4. \A i : IsConstant(i) => Operand(i)
  BY DEF IsConstant, Is, Operand, LexemType
<1>5. \A i : Is(i, "COMMA") \/ Is(i, "INTEGER") \/ Is(i, "IDENTIFIER") => Operand(i)
  BY DEF Operand, LexemType
<1>2. Operand(pos + 0)
  <2>1. pos + 0 = pos /\ Is(pos, "IDENTIFIER")
    BY DEF Named
  <2> QED BY <1>5, <2>1
<1>6. CASE d = 0
  BY <1>2, <1>6
<1>7. CASE d # 0 /\ Op = Call
  <2>1. k = 1 /\ Is(pos + 1, "IDENTIFIER")
    BY <1>1, <1>7 DEF FollowedBy, OperandsFit
  <2>2. d = 1
    BY <1>7, <2>1
  <2> QED BY <1>5, <2>1, <2>2
<1>8. CASE d # 0 /\ Op # Call /\ Format \in {"N", "I", "R"}
  <2>1. CASE Format = "N"
    BY <1>8, <2>1 DEF FollowedBy
  <2>2. CASE Format = "I"
    <3>1. k = 1 /\ IsConstant(pos + 1)
      BY <1>8, <2>2 DEF FollowedBy, OperandsFit
    <3> QED BY <1>4, <1>8, <3>1
  <2>3. CASE Format = "R"
    <3>1. k = 1 /\ IsRegister(pos + 1)
      BY <1>8, <2>3 DEF FollowedBy, OperandsFit
    <3> QED BY <1>3, <1>8, <3>1
  <2> QED BY <1>8, <2>1, <2>2, <2>3
<1>9. CASE d # 0 /\ Op # Call /\ Format \in {"RR", "RI"}
  <2>1. /\ k = 3 /\ Operand(pos + 1) /\ Operand(pos + 2) /\ Operand(pos + 3)
    <3>1. CASE Format = "RR"
      BY <1>3, <1>5, <1>9, <3>1 DEF FollowedBy, OperandsFit
    <3>2. CASE Format = "RI"
      BY <1>3, <1>5, <1>9, <3>2 DEF FollowedBy, OperandsFit
    <3> QED BY <1>9, <3>1, <3>2
  <2>2. d = 1 \/ d = 2 \/ d = 3
    BY <1>9, <2>1
  <2> QED BY <2>1, <2>2
<1> QED
  BY <1>1, <1>6, <1>7, <1>8, <1>9

(* The text of an instruction: its lexemes, all in the source.             *)
LEMMA WrittenIs ==
    ASSUME source \in Source, pos \in Nat \ {0},
           Named(pos, DOMAIN Mnemonic), OperandsFit
    PROVE  /\ pos + FollowedBy(Format) <= Len(source)
           /\ \A d \in 0 .. FollowedBy(Format) :
                 /\ Written[d + 1] = Lexeme(pos + d)
                 /\ pos + d \notin FuncAt
           /\ Len(source) \in Nat /\ FollowedBy(Format) \in Nat
<1> DEFINE k == FollowedBy(Format)
           w == Written
<1>1. k \in Nat /\ k \in 0 .. k
  BY MnemonicIs
<1>2. \A d \in 0 .. k : /\ pos + d \in 1 .. Len(source) /\ pos + d \in Nat \ {0}
                        /\ Lexeme(pos + d) = source[pos + d]
                        /\ pos + d \notin FuncAt
  <2> SUFFICES ASSUME NEW d \in 0 .. k
               PROVE  /\ pos + d \in 1 .. Len(source) /\ pos + d \in Nat \ {0}
                      /\ Lexeme(pos + d) = source[pos + d]
                      /\ pos + d \notin FuncAt
    OBVIOUS
  <2>1. pos + d \in Nat \ {0}
    BY <1>1
  <2>2. Operand(pos + d)
    BY OperandsAre
  <2> QED BY <2>1, <2>2, OperandIs
<1>3. source \in Seq(Range(source)) /\ Len(source) \in Nat
  BY SourceIs DEF IsSequence
<1>4. pos + k \in 1 .. Len(source) /\ pos \in 1 .. Len(source)
  <2>1. 0 \in 0 .. k /\ pos + 0 = pos
    BY <1>1
  <2> QED BY <1>1, <1>2, <2>1
<1>5. w = SubSeq(source, pos, pos + k)
  BY DEF Written
<1> HIDE DEF k, w
<1>6. \A i \in 1 .. (pos + k) - pos + 1 : w[i] = source[pos + i - 1]
  BY <1>1, <1>3, <1>4, <1>5, SubSeqProperties
<1>7. \A d \in 0 .. k : w[d + 1] = source[pos + d]
  <2> SUFFICES ASSUME NEW d \in 0 .. k PROVE w[d + 1] = source[pos + d]
    OBVIOUS
  <2>1. d + 1 \in 1 .. (pos + k) - pos + 1 /\ pos + (d + 1) - 1 = pos + d
    BY <1>1
  <2> QED BY <1>6, <2>1
<1> QED
  BY <1>1, <1>2, <1>3, <1>4, <1>7 DEF k, w

LEMMA SourceStays ==
    ASSUME UNCHANGED source
    PROVE  /\ \A i : Lexeme(i)' = Lexeme(i)
           /\ Declared' = Declared
           /\ \A n : CalleeOf(n)' = CalleeOf(n)
           /\ \A p, ns : NamesBefore(p, ns)' <=> NamesBefore(p, ns)
<1>1. \A i : Lexeme(i)' = Lexeme(i)
  BY DEF Lexeme, EndOfFile
<1>2. FuncAt' = FuncAt
  BY <1>1 DEF FuncAt, Is
<1>3. Declared' = Declared
  BY <1>1, <1>2 DEF Declared
<1>4. \A p : Ordinal(p)' = Ordinal(p)
  BY <1>2 DEF Ordinal
<1>5. \A n : NamesFunction(n)' = NamesFunction(n)
  BY <1>1, <1>2 DEF NamesFunction
<1>6. \A n : FirstOf(n)' = FirstOf(n)
  BY <1>5 DEF FirstOf
<1>7. ASSUME NEW n PROVE CalleeOf(n)' = CalleeOf(n)
  BY <1>3, <1>4, <1>6 DEF CalleeOf, Ordinal, FuncAt
<1>8. \A p, ns : NamesBefore(p, ns)' <=> NamesBefore(p, ns)
  BY <1>1, <1>2, <1>4 DEF NamesBefore
<1> QED
  BY <1>1, <1>3, <1>7, <1>8

PoolKept ==
    /\ PoolOK(pool) /\ PoolOK(pool')
    /\ Len(pool) \in Nat /\ Len(pool') \in Nat /\ Len(pool) <= Len(pool')
    /\ \A i \in 1 .. Len(pool) : pool'[i] = pool[i]

(* What was assembled means the same in a longer pool.                     *)
LEMMA MeaningStays ==
    ASSUME UNCHANGED source, PoolKept
    PROVE  /\ \A word, text : MeansInstr(word, text) => MeansInstr(word, text)'
           /\ \A code, texts : CodeMeans(code, texts) => CodeMeans(code, texts)'
<1>1. \A id, c : ConstantAt(id, c) => ConstantAt(id, c)'
  <2> SUFFICES ASSUME NEW id, NEW c, ConstantAt(id, c) PROVE ConstantAt(id, c)'
    OBVIOUS
  <2>1. Len(pool') < ImmSize => Len(pool) < ImmSize
    BY Sizes DEF PoolKept
  <2>2. ASSUME Len(pool') < ImmSize
        PROVE  id + 1 \in 1 .. Len(pool') /\ pool'[id + 1] = c
    BY <2>1, <2>2 DEF ConstantAt, PoolKept
  <2> QED BY <2>2 DEF ConstantAt
<1>2. \A n : CalleeOf(n)' = CalleeOf(n)
  BY SourceStays
<1>3. \A word, text : MeansInstr(word, text) => MeansInstr(word, text)'
  BY <1>1, <1>2 DEF MeansInstr, MeansRegister
<1> QED
  BY <1>3 DEF CodeMeans, IsSequence

LEMMA CalleeIdIs ==
    ASSUME source \in Source, IdsKnown, asm \in {"main", "body"}
    PROVE  CalleeId = CalleeOf(Lexeme(pos + 1).value) /\ CalleeId \in Imm
<1> DEFINE n == Lexeme(pos + 1).value
<1>1. CASE n \in DOMAIN ids
  BY <1>1, CalleeTyped DEF CalleeId, IdsKnown
<1>2. CASE n \notin DOMAIN ids
  BY <1>2, CalleeTyped DEF CalleeId, IdsKnown, CalleeOf
<1> QED
  BY <1>1, <1>2

TakesConstant == Format = "I" /\ Op # Call

LEMMA PoolStep ==
    ASSUME source \in Source, pos \in Nat \ {0}, PoolOK(pool), ProcessInstruction
    PROVE  /\ PoolKept
           /\ TakesConstant =>
                 LET c == ConstantOf(Lexeme(pos + 1)) IN
                 /\ ConstantId(1) \in Imm
                 /\ \A id, x : id = ConstantId(1) /\ x = c => ConstantAt(id, x)'
<1> DEFINE c == ConstantOf(Lexeme(pos + 1))
<1>1. CASE TakesConstant
  <2>1. pool' = pool \o <<c>>
    BY <1>1 DEF ProcessInstruction, TakesConstant
  <2>2. pos + 1 \in Nat \ {0} /\ IsConstant(pos + 1)
    BY <1>1 DEF ProcessInstruction, OperandsFit, TakesConstant
  <2>3. WellFormedConstant(c) /\ c.tag \in {CNST_I64, CNST_F64, CNST_RAW_STR}
    BY <2>2, ConstantOfIs
  <2> HIDE DEF c
  <2> DEFINE t == <<c>>
  <2>4. PoolOK(t) /\ Len(t) = 1 /\ t[1] = c
    <3>1. t \in Seq({c}) /\ Len(t) = 1 /\ t[1] = c
      OBVIOUS
    <3> HIDE DEF t
    <3>2. \A i \in 1 .. Len(t) : t[i] = c
      BY <3>1
    <3> QED BY <2>3, <3>1, <3>2, SequenceIs DEF PoolOK
  <2>5. pool' = pool \o t
    BY <2>1
  <2> HIDE DEF t
  <2>6. /\ PoolOK(pool \o t) /\ Len(pool) \in Nat /\ Len(pool \o t) = Len(pool) + Len(t)
        /\ \A i \in 1 .. Len(pool) : (pool \o t)[i] = pool[i]
    BY <2>4, PoolGrowsBy
  <2>7. Joins(pool \o t, pool, t)
    BY <2>4, LongerBy DEF PoolOK
  <2> DEFINE n == Len(pool)
  <2>8. /\ PoolOK(pool') /\ n \in Nat /\ Len(pool') = n + 1
        /\ \A i \in 1 .. n : pool'[i] = pool[i]
        /\ pool'[n + 1] = c
    <3>1. 1 \in 1 .. Len(t)
      BY <2>4
    <3> QED BY <2>4, <2>5, <2>6, <2>7, <3>1 DEF Joins
  <2>9. ConstantId(1) = ToImm(n)
    <3>1. (n + 1) - 1 = n
      BY <2>8
    <3> QED BY <3>1 DEF ConstantId
  <2> HIDE DEF n
  <2>10. ConstantId(1) \in Imm /\ (n < ImmSize => ConstantId(1) = n)
    BY <2>8, <2>9, Sizes
  <2>11. \A id, x : id = ConstantId(1) /\ x = c => ConstantAt(id, x)'
    <3>1. Len(pool') < ImmSize =>
             /\ n < ImmSize /\ n + 1 \in 1 .. Len(pool')
      BY <2>8, Sizes
    <3> SUFFICES ASSUME NEW id, NEW x, id = ConstantId(1), x = c
                 PROVE  ConstantAt(id, x)'
      OBVIOUS
    <3>2. Len(pool') < ImmSize => id + 1 \in 1 .. Len(pool') /\ pool'[id + 1] = x
      BY <2>8, <2>10, <3>1
    <3> QED BY <2>3, <3>2 DEF ConstantAt
  <2>12. PoolKept
    BY <2>8 DEF PoolKept, n
  <2> QED BY <2>10, <2>11, <2>12 DEF c
<1>2. CASE ~TakesConstant
  <2>1. pool' = pool \o <<>>
    BY <1>2 DEF ProcessInstruction, TakesConstant
  <2>2. pool' = pool
    <3>1. pool \in Seq(Range(pool))
      BY DEF PoolOK, IsSequence
    <3> QED BY <2>1, <3>1, ConcatEmptySeq
  <2>3. Len(pool) \in Nat
    BY LenProperties DEF PoolOK, IsSequence
  <2> QED BY <1>2, <2>2, <2>3 DEF PoolKept
<1> QED
  BY <1>1, <1>2

(* The word of an instruction means its text, once its constant is pooled. *)
LEMMA WordMeans ==
    ASSUME source \in Source, pos \in Nat \ {0}, PoolOK(pool), IdsKnown,
           asm \in {"main", "body"}, ProcessInstruction, UNCHANGED source
    PROVE  \A word, text : word = WordOf /\ text = Written => MeansInstr(word, text)'
<1> SUFFICES ASSUME NEW word, NEW text, word = WordOf, text = Written
             PROVE  MeansInstr(word, text)'
  OBVIOUS
<1> DEFINE k == FollowedBy(Format)
<1>1. Named(pos, DOMAIN Mnemonic) /\ OperandsFit
  BY DEF ProcessInstruction
<1>2. /\ Op \in Byte /\ Format \in {"N", "R", "RR", "I", "RI"}
      /\ Op = Call => Format = "I"
      /\ Lexeme(pos).value \in DOMAIN Mnemonic
  BY <1>1, MnemonicIs
<1>3. \A d \in 0 .. k : text[d + 1] = Lexeme(pos + d)
  BY <1>1, WrittenIs
<1>4. text[1] = Lexeme(pos)
  <2>1. 0 \in 0 .. k /\ 0 + 1 = 1 /\ pos + 0 = pos
    BY <1>1, MnemonicIs
  <2> QED BY <1>3, <2>1
<1>5. k >= 1 => text[2] = Lexeme(pos + 1)
  <2>1. k >= 1 => 1 \in 0 .. k /\ 1 + 1 = 2
    BY <1>1, MnemonicIs
  <2> QED BY <1>3, <2>1
<1>6. k = 3 => text[4] = Lexeme(pos + 3)
  <2>1. k = 3 => 3 \in 0 .. k /\ 3 + 1 = 4
    BY <1>1, MnemonicIs
  <2> QED BY <1>3, <2>1
<1>7. /\ Mnemonic[text[1].value].op = Op /\ Mnemonic[text[1].value].format = Format
      /\ text[1].value \in DOMAIN Mnemonic
  BY <1>2, <1>4 DEF Op, Format
<1>8. \A n : CalleeOf(n)' = CalleeOf(n)
  BY SourceStays
<1>9. 0 \in Byte
  BY Sizes
<1>10. CASE Op = Call
  <2>1. CalleeId = CalleeOf(Lexeme(pos + 1).value) /\ CalleeId \in Imm
    BY CalleeIdIs
  <2>2. ToByte(CalleeId) \in Byte
    <3>1. CalleeId \in Int
      BY <2>1, Sizes
    <3> QED BY <3>1, Narrowed
  <2>3. word = RawRI(Op, ToByte(CalleeId), CalleeId)
    BY <1>10 DEF WordOf
  <2>4. word \in Nat /\ Parse(word).operation = Op /\ Parse(word).immidiate = CalleeId
    BY <1>2, <1>9, <2>1, <2>2, <2>3, WordsTyped, ParseUndoesRaw
  <2>5. Format = "I" /\ text[2] = Lexeme(pos + 1)
    BY <1>2, <1>5, <1>10 DEF FollowedBy
  <2>6. Parse(word).immidiate = CalleeOf(text[2].value)'
    BY <1>8, <2>1, <2>4, <2>5
  <2> QED BY <1>7, <1>10, <2>4, <2>5, <2>6 DEF MeansInstr
<1>11. CASE Op # Call /\ Format = "N"
  <2>1. word = RawN(Op)
    BY <1>11 DEF WordOf
  <2>2. 0 \in Imm
    BY Sizes
  <2>3. word \in Nat /\ Parse(word).operation = Op
    BY <1>2, <1>9, <2>1, <2>2, WordsTyped, ParseUndoesRaw
  <2> QED BY <1>7, <1>11, <2>3 DEF MeansInstr
<1>12. CASE Op # Call /\ Format = "R"
  <2>1. word = RawRR(Op, RegisterAt(pos + 1), 0)
    BY <1>12 DEF WordOf
  <2>2. RegisterAt(pos + 1) \in Byte /\ 0 \in Imm
    BY <1>1, <1>12, RegisterTyped, Sizes DEF OperandsFit
  <2>3. /\ word \in Nat /\ Parse(word).operation = Op
        /\ Parse(word).r1 = RegisterAt(pos + 1)
    BY <1>2, <1>9, <2>1, <2>2, WordsTyped, ParseUndoesRaw
  <2>4. text[2] = Lexeme(pos + 1)
    BY <1>5, <1>12 DEF FollowedBy
  <2>5. MeansRegister(Parse(word).r1, text[2])
    BY <1>1, <1>12, <2>3, <2>4 DEF RegisterAt, MeansRegister, OperandsFit, IsRegister, Named
  <2> QED BY <1>7, <1>12, <2>3, <2>5 DEF MeansInstr
<1>13. CASE Op # Call /\ Format = "RR"
  <2>1. word = RawRR(Op, RegisterAt(pos + 1), RegisterAt(pos + 3))
    BY <1>13 DEF WordOf
  <2>2. RegisterAt(pos + 1) \in Byte /\ RegisterAt(pos + 3) \in Byte /\ 0 \in Imm
    BY <1>1, <1>13, RegisterTyped, Sizes DEF OperandsFit
  <2>3. /\ word \in Nat /\ Parse(word).operation = Op
        /\ Parse(word).r1 = RegisterAt(pos + 1)
        /\ Parse(word).r2 = RegisterAt(pos + 3)
    BY <1>2, <2>1, <2>2, WordsTyped, ParseUndoesRaw
  <2>4. text[2] = Lexeme(pos + 1) /\ text[4] = Lexeme(pos + 3)
    BY <1>5, <1>6, <1>13 DEF FollowedBy
  <2>5. MeansRegister(Parse(word).r1, text[2]) /\ MeansRegister(Parse(word).r2, text[4])
    BY <1>1, <1>13, <2>3, <2>4 DEF RegisterAt, MeansRegister, OperandsFit, IsRegister, Named
  <2> QED BY <1>7, <1>13, <2>3, <2>5 DEF MeansInstr
<1>14. CASE Op # Call /\ Format = "I"
  <2>1. word = RawI(Op, ConstantId(1))
    BY <1>14 DEF WordOf
  <2>2. text[2] = Lexeme(pos + 1)
    BY <1>5, <1>14 DEF FollowedBy
  <2> DEFINE c == ConstantOf(text[2])
  <2>3. ConstantId(1) \in Imm /\ \A id : id = ConstantId(1) => ConstantAt(id, c)'
    BY <1>14, <2>2, PoolStep DEF TakesConstant
  <2>4. /\ word \in Nat /\ Parse(word).operation = Op
        /\ Parse(word).immidiate = ConstantId(1)
    BY <1>2, <1>9, <2>1, <2>3, WordsTyped, ParseUndoesRaw
  <2>5. \A id : id = Parse(word).immidiate => ConstantAt(id, c)'
    BY <2>3, <2>4
  <2>6. ConstantAt(Parse(word).immidiate, c)'
    BY <2>5
  <2> QED BY <1>7, <1>14, <2>4, <2>6 DEF MeansInstr
<1>15. CASE Op # Call /\ Format = "RI"
  <2>1. word = RawRI(Op, RegisterAt(pos + 1), ToImm(Lexeme(pos + 3).value))
    BY <1>15 DEF WordOf
  <2>2. RegisterAt(pos + 1) \in Byte
    BY <1>1, <1>15, RegisterTyped DEF OperandsFit
  <2>3. Lexeme(pos + 3).value \in Int /\ ToImm(Lexeme(pos + 3).value) \in Imm
    <3>1. Is(pos + 3, "INTEGER") /\ pos + 3 \in Nat \ {0}
      BY <1>1, <1>15 DEF OperandsFit
    <3>2. Lexeme(pos + 3).value \in Int
      BY <3>1, InText DEF LexemeOK
    <3> QED BY <3>2, Narrowed
  <2>4. /\ word \in Nat /\ Parse(word).operation = Op
        /\ Parse(word).r1 = RegisterAt(pos + 1)
        /\ Parse(word).immidiate = ToImm(Lexeme(pos + 3).value)
    BY <1>2, <1>9, <2>1, <2>2, <2>3, WordsTyped, ParseUndoesRaw
  <2>5. text[2] = Lexeme(pos + 1) /\ text[4] = Lexeme(pos + 3)
    BY <1>5, <1>6, <1>15 DEF FollowedBy
  <2>6. /\ MeansRegister(Parse(word).r1, text[2])
        /\ text[4].value \in Int /\ Parse(word).immidiate = ToImm(text[4].value)
    BY <1>1, <1>15, <2>3, <2>4, <2>5
       DEF RegisterAt, MeansRegister, OperandsFit, IsRegister, Named
  <2> QED BY <1>7, <1>15, <2>4, <2>6 DEF MeansInstr
<1> QED
  BY <1>2, <1>10, <1>11, <1>12, <1>13, <1>14, <1>15

-----------------------------------------------------------------------------
(* The steps of the assembler.                                             *)

LEMMA CodeGrows ==
    ASSUME NEW code, NEW texts, CodeMeans(code, texts), UNCHANGED source, PoolKept,
           NEW word, NEW text, MeansInstr(word, text)'
    PROVE  CodeMeans(Append(code, word), Append(texts, text))'
<1> DEFINE c == Append(code, word)
           t == Append(texts, text)
<1>1. /\ IsSequence(c) /\ Len(code) \in Nat /\ Len(c) = Len(code) + 1
      /\ \A i \in 1 .. Len(code) : c[i] = code[i]
      /\ c[Len(code) + 1] = word
  BY LongerSequence DEF CodeMeans
<1>2. /\ IsSequence(t) /\ Len(texts) \in Nat /\ Len(t) = Len(texts) + 1
      /\ \A i \in 1 .. Len(texts) : t[i] = texts[i]
      /\ t[Len(texts) + 1] = text
  BY LongerSequence DEF CodeMeans
<1>3. Len(code) = Len(texts) /\ CodeMeans(code, texts)'
  BY MeaningStays DEF CodeMeans
<1> HIDE DEF c, t
<1>4. ASSUME NEW i \in 1 .. Len(t) PROVE MeansInstr(c[i], t[i])'
  <2>1. CASE i = Len(texts) + 1
    BY <1>1, <1>2, <1>3, <2>1
  <2>2. CASE i # Len(texts) + 1
    <3>1. i \in 1 .. Len(texts)
      BY <1>2, <2>2
    <3> QED BY <1>1, <1>2, <1>3, <3>1 DEF CodeMeans
  <2> QED BY <2>1, <2>2
<1> QED
  BY <1>1, <1>2, <1>3, <1>4 DEF CodeMeans, IsSequence, c, t

PipelineInv == AsmInv /\ LoaderInv

(* What the assembler leaves alone.                                        *)
Rest == UNCHANGED <<told, istream, left, stage, loaded, acc, reg, machine>>

LEMMA InvFacts ==
    ASSUME PipelineInv
    PROVE  /\ source \in Source /\ IsSequence(source) /\ Len(source) \in Nat
           /\ pos \in Nat /\ pos <= Len(source) + 1
           /\ PoolOK(pool) /\ WellBuilt
           /\ AsmTyped /\ AsmBuilt /\ NamesKnown /\ IdsKnown /\ LoaderInv
<1>1. /\ WellBuilt /\ LoaderInv /\ AsmTyped /\ AsmBuilt /\ NamesKnown /\ IdsKnown
      /\ source \in Source
  BY DEF PipelineInv, AsmInv, AsmTyped, LoaderInv
<1>2. IsSequence(source) /\ Len(source) \in Nat
  BY <1>1, SourceIs
<1>3. pos \in Nat /\ pos <= Len(source) + 1
  BY <1>1, <1>2 DEF AsmTyped
<1> QED
  BY <1>1, <1>2, <1>3, WellBuiltPool

LEMMA BuiltStays ==
    ASSUME AsmBuilt, WellBuilt,
           UNCHANGED <<builder, source, meantMain, meantBodies, meant, names>>
    PROVE  AsmBuilt'
<1>1. /\ UNCHANGED <<pool, rawInstrs, functions, instrs, source>>
      /\ UNCHANGED <<meantMain, meantBodies, meant, names>>
  BY DEF builder
<1>2. PoolKept
  <2>1. PoolOK(pool) /\ Len(pool) \in Nat
    BY WellBuiltPool, PoolPart
  <2> QED BY <1>1, <2>1 DEF PoolKept
<1>3. \A code, texts : CodeMeans(code, texts) => CodeMeans(code, texts)'
  BY <1>1, <1>2, MeaningStays
<1>4. CodeMeans(rawInstrs, meantMain)' /\ CodeMeans(instrs, meant)'
  BY <1>1, <1>3 DEF AsmBuilt
<1>5. \A f \in 1 .. Len(functions') : CodeMeans(functions[f].code, meantBodies[f])'
  BY <1>1, <1>3 DEF AsmBuilt
<1> QED
  BY <1>1, <1>4, <1>5 DEF AsmBuilt, IsSequence

LEMMA FailsKeeps ==
    ASSUME PipelineInv, asm # "written", NEW how \in {"error", "undefined"}, Fails(how), Rest
    PROVE  PipelineInv'
<1>1. /\ asm' = how /\ UNCHANGED <<builder, source, pos, ids, header>>
      /\ UNCHANGED <<meantMain, meantBodies, meant, names>>
      /\ UNCHANGED <<istream, left, stage, loaded>>
      /\ UNCHANGED <<told, acc, reg, mode>>
  BY DEF Fails, Rest, machine
<1>2. AsmBuilt' /\ LoaderInv'
  BY <1>1, InvFacts, BuiltStays, LoaderStutters
<1>3. AsmTyped'
  BY <1>1, InvFacts DEF AsmTyped, builder, told, Phase
<1>4. NamesKnown' /\ IdsKnown'
  BY <1>1 DEF NamesKnown, IdsKnown
<1> QED
  BY <1>2, <1>3, <1>4 DEF PipelineInv, AsmInv

LEMMA CollectKeeps ==
    ASSUME PipelineInv, Collect, UNCHANGED builder, Rest
    PROVE  PipelineInv'
<1>1. /\ asm = "collect" /\ UNCHANGED <<builder, source, header>>
      /\ UNCHANGED <<meantMain, meantBodies, meant, names>>
      /\ UNCHANGED <<istream, left, stage, loaded>>
      /\ UNCHANGED <<told, acc, reg, mode>>
  BY DEF Collect, Rest, machine
<1>2. AsmBuilt' /\ LoaderInv'
  BY <1>1, InvFacts, BuiltStays, LoaderStutters
<1>3. CASE asm' = "error"
  <2>1. pos' \in 0 .. Len(source) + 1
    BY <1>3, InvFacts DEF Collect
  <2>2. AsmTyped'
    BY <1>1, <1>3, <2>1, InvFacts DEF AsmTyped, builder, told, Phase
  <2>3. NamesKnown' /\ IdsKnown'
    BY <1>3 DEF NamesKnown, IdsKnown
  <2> QED BY <1>2, <2>2, <2>3 DEF PipelineInv, AsmInv
<1>4. CASE asm' # "error"
  <2>1. /\ asm' = "main" /\ pos' = 1
        /\ ids' = [n \in Declared |->
                      ToImm(Cardinality({i \in FuncAt : i <= FirstOf(n)}))]
    BY <1>4 DEF Collect
  <2>2. AsmTyped'
    <3>1. 1 \in 0 .. Len(source) + 1
      BY InvFacts
    <3> QED BY <1>1, <2>1, <3>1, InvFacts DEF AsmTyped, builder, told, Phase
  <2>3. names' = <<>> /\ names = <<>>
    BY <1>1, InvFacts DEF AsmTyped
  <2>4. NamesBefore(1, <<>>)'
    BY <1>1, InvFacts, NoNamesYet, SourceStays
  <2>5. NamesKnown'
    BY <2>1, <2>3, <2>4 DEF NamesKnown
  <2>6. Declared \subseteq DOMAIN ids' /\ \A n \in DOMAIN ids' : ids'[n] = CalleeOf(n)
    BY <2>1 DEF CalleeOf, Ordinal
  <2>7. IdsKnown'
    BY <1>1, <2>1, <2>6, SourceStays DEF IdsKnown
  <2> QED BY <1>2, <2>2, <2>5, <2>7 DEF PipelineInv, AsmInv
<1> QED
  BY <1>3, <1>4

LEMMA EndMainKeeps ==
    ASSUME PipelineInv, EndMain, Rest
    PROVE  PipelineInv'
<1>1. /\ asm = "main" /\ asm' = "top" /\ UNCHANGED <<builder, source, pos, ids, header>>
      /\ UNCHANGED <<meantMain, meantBodies, meant, names>>
      /\ UNCHANGED <<istream, left, stage, loaded>>
      /\ UNCHANGED <<told, acc, reg, mode>>
  BY DEF EndMain, Rest, machine
<1>2. AsmBuilt' /\ LoaderInv'
  BY <1>1, InvFacts, BuiltStays, LoaderStutters
<1>3. AsmTyped'
  BY <1>1, InvFacts DEF AsmTyped, builder, told, Phase
<1>4. NamesKnown'
  BY <1>1, InvFacts, SourceStays DEF NamesKnown
<1>5. IdsKnown'
  BY <1>1, InvFacts, SourceStays DEF IdsKnown
<1> QED
  BY <1>2, <1>3, <1>4, <1>5 DEF PipelineInv, AsmInv

LEMMA EndOfTextKeeps ==
    ASSUME PipelineInv, EndOfText, Rest
    PROVE  PipelineInv'
<1>1. /\ asm = "top" /\ Is(pos, "EOF")
      /\ asm' = "write" /\ UNCHANGED <<builder, source, pos, ids, header>>
      /\ UNCHANGED <<meantMain, meantBodies, meant, names>>
      /\ UNCHANGED <<istream, left, stage, loaded>>
      /\ UNCHANGED <<told, acc, reg, mode>>
  BY DEF EndOfText, Rest, machine
<1>2. AsmBuilt' /\ LoaderInv'
  BY <1>1, InvFacts, BuiltStays, LoaderStutters
<1>3. AsmTyped'
  BY <1>1, InvFacts DEF AsmTyped, builder, told, Phase
<1>4. pos = Len(source) + 1
  <2>1. pos # 0
    BY <1>1, InvFacts DEF IdsKnown
  <2>2. pos \in 1 .. Len(source) + 1
    BY <2>1, InvFacts
  <2> QED BY <1>1, <2>2, InvFacts, EndOfText1
<1>5. NamesBefore(Len(source) + 1, names)
  BY <1>1, <1>4, InvFacts DEF NamesKnown
<1>6. NamesKnown'
  BY <1>1, <1>5, SourceStays DEF NamesKnown
<1>7. IdsKnown'
  BY <1>1 DEF IdsKnown
<1> QED
  BY <1>2, <1>3, <1>6, <1>7 DEF PipelineInv, AsmInv

LEMMA BeginFunctionKeeps ==
    ASSUME PipelineInv, BeginFunction, Rest
    PROVE  PipelineInv'
<1>1. /\ asm = "top" /\ pos \in Nat \ {0}
  BY InvFacts DEF BeginFunction, IdsKnown
<1>2. CASE Fails("error")
  BY <1>1, <1>2, FailsKeeps
<1>3. CASE ~Fails("error")
  <2>1. /\ HeaderAt(pos)
        /\ header' = [name |-> Lexeme(pos + 1).value,
                      regs |-> ToByte(Lexeme(pos + 2).value),
                      args |-> ToByte(Lexeme(pos + 3).value)]
        /\ asm' = "body" /\ pos' = pos + 5
        /\ UNCHANGED <<builder, source, ids, meantMain, meantBodies, meant, names>>
    BY <1>3 DEF BeginFunction
  <2>2. UNCHANGED <<istream, left, stage, loaded>> /\ UNCHANGED <<told, acc, reg, mode>>
    BY DEF Rest, machine
  <2>3. AsmBuilt' /\ LoaderInv'
    BY <2>1, <2>2, InvFacts, BuiltStays, LoaderStutters
  <2>4. /\ pos + 1 \in Nat \ {0} /\ pos + 2 \in Nat \ {0} /\ pos + 3 \in Nat \ {0}
        /\ pos + 4 \in Nat \ {0}
    BY <1>1
  <2>5. /\ Is(pos, "FUNC") /\ Is(pos + 1, "IDENTIFIER") /\ Is(pos + 2, "INTEGER")
        /\ Is(pos + 3, "INTEGER") /\ Is(pos + 4, "OPEN")
    BY <2>1 DEF HeaderAt
  <2>6. Lexeme(pos + 2).value \in Int /\ Lexeme(pos + 3).value \in Int
    BY <2>4, <2>5, InvFacts, InText DEF LexemeOK
  <2>7. header'.regs \in Byte /\ header'.args \in Byte
    BY <2>1, <2>6, Narrowed
  <2>8. pos + 4 \in 1 .. Len(source) /\ pos \in 1 .. Len(source)
    BY <1>1, <2>4, <2>5, InvFacts, InText
  <2>9. AsmTyped'
    <3>1. pos + 5 \in 0 .. Len(source) + 1
      BY <1>1, <2>8, InvFacts
    <3>2. klasses' = klasses /\ constantOf' = constantOf
      BY <2>1, <2>2 DEF builder, told
    <3> QED BY <1>1, <2>1, <2>2, <2>7, <3>1, <3>2, InvFacts DEF AsmTyped, Phase
  <2> DEFINE ns == Append(names, Lexeme(pos + 1).value)
  <2>10. NamesBefore(pos + 5, ns)
    <3>1. pos \in FuncAt
      BY <2>5, <2>8 DEF FuncAt
    <3>2. IsSequence(names) /\ NamesBefore(pos, names)
      BY <1>1, InvFacts DEF NamesKnown, AsmBuilt
    <3>3. NamesBefore(pos + 1, ns)
      BY <3>1, <3>2, InvFacts, NamesGrow
    <3>4. ASSUME NEW i \in pos + 1 .. (pos + 5) - 1 PROVE i \notin FuncAt
      <4>1. i = pos + 1 \/ i = pos + 2 \/ i = pos + 3 \/ i = pos + 4
        BY <1>1
      <4> QED BY <2>5, <4>1 DEF FuncAt, Is
    <3>5. pos + 1 <= pos + 5 /\ pos + 1 \in Nat /\ pos + 5 \in Nat
      BY <1>1
    <3> HIDE DEF ns
    <3> QED BY <3>3, <3>4, <3>5, InvFacts, NamesStay
  <2>11. NamesKnown'
    BY <2>1, <2>10, SourceStays DEF NamesKnown
  <2>12. IdsKnown'
    BY <1>1, <2>1, InvFacts, SourceStays DEF IdsKnown
  <2> QED BY <2>3, <2>9, <2>11, <2>12 DEF PipelineInv, AsmInv
<1> QED
  BY <1>2, <1>3

(* What an instruction of main and one of a function have in common.       *)
LEMMA InstructionStep ==
    ASSUME PipelineInv, asm \in {"main", "body"}, ProcessInstruction,
           UNCHANGED <<source, asm>>
    PROVE  /\ PoolKept /\ IdsKnown'
           /\ pos' \in 0 .. Len(source) + 1
           /\ \A ns : NamesBefore(pos, ns) => NamesBefore(pos', ns)
           /\ \A word, text : word = WordOf /\ text = Written =>
                 word \in Nat /\ MeansInstr(word, text)'
<1> DEFINE k == FollowedBy(Format)
           n == Lexeme(pos + 1).value
<1>1. pos \in Nat \ {0}
  BY InvFacts DEF IdsKnown
<1>2. PoolKept
  BY <1>1, InvFacts, PoolStep
<1>3. /\ pos + k <= Len(source) /\ k \in Nat
      /\ \A d \in 0 .. k : pos + d \notin FuncAt
      /\ pos' = pos + k + 1
  BY <1>1, InvFacts, WrittenIs DEF ProcessInstruction
<1> HIDE DEF k
<1>4. pos' \in 0 .. Len(source) + 1 /\ pos' # 0
  BY <1>1, <1>3, InvFacts
<1>5. ASSUME NEW ns, NamesBefore(pos, ns) PROVE NamesBefore(pos', ns)
  <2>1. ASSUME NEW i \in pos .. pos' - 1 PROVE i \notin FuncAt
    <3>1. i - pos \in 0 .. k /\ pos + (i - pos) = i
      BY <1>1, <1>3
    <3> QED BY <1>3, <3>1
  <2>2. pos <= pos' /\ pos' \in Nat
    BY <1>1, <1>3
  <2> DEFINE q == pos'
  <2>3. q \in Nat /\ pos <= q /\ \A i \in pos .. q - 1 : i \notin FuncAt
    BY <2>1, <2>2
  <2> HIDE DEF q
  <2>4. NamesBefore(q, ns)
    BY <1>1, <1>5, <2>3, InvFacts, NamesStay
  <2> QED BY <2>4 DEF q
<1>6. Declared \subseteq DOMAIN ids' /\ \A m \in DOMAIN ids' : ids'[m] = CalleeOf(m)
  <2>1. Declared \subseteq DOMAIN ids /\ \A m \in DOMAIN ids : ids[m] = CalleeOf(m)
    BY InvFacts DEF IdsKnown
  <2>2. CASE Op = Call
    <3>1. ids' = WithCallee(n) /\ CalleeId = CalleeOf(n)
      BY <2>2, InvFacts, CalleeIdIs DEF ProcessInstruction
    <3> HIDE DEF n
    <3> QED BY <2>1, <3>1 DEF WithCallee
  <2>3. CASE Op # Call
    BY <2>1, <2>3 DEF ProcessInstruction
  <2> QED BY <2>2, <2>3
<1>7. IdsKnown'
  BY <1>4, <1>6, SourceStays DEF IdsKnown
<1>8. \A word, text : word = WordOf /\ text = Written =>
         word \in Nat /\ MeansInstr(word, text)'
  <2>1. \A word, text : word = WordOf /\ text = Written => MeansInstr(word, text)'
    BY <1>1, InvFacts, WordMeans
  <2> QED BY <2>1 DEF MeansInstr
<1> QED
  BY <1>2, <1>4, <1>5, <1>7, <1>8

LEMMA MainInstructionKeeps ==
    ASSUME PipelineInv, MainInstruction, Rest
    PROVE  PipelineInv'
<1>1. asm = "main"
  BY DEF MainInstruction
<1>2. CASE InstructionFails
  BY <1>1, <1>2, FailsKeeps DEF InstructionFails
<1>3. CASE ~InstructionFails
  <2> DEFINE word == WordOf
             text == Written
  <2>1. /\ ProcessInstruction
        /\ rawInstrs' = Append(rawInstrs, word)
        /\ meantMain' = Append(meantMain, text)
        /\ UNCHANGED <<klasses, functions, instrs, source, asm, header>>
        /\ UNCHANGED <<meantBodies, meant, names>>
    BY <1>3 DEF MainInstruction
  <2>2. UNCHANGED <<istream, left, stage, loaded>> /\ UNCHANGED <<told, acc, reg, mode>>
    BY DEF Rest, machine
  <2>3. /\ PoolKept /\ IdsKnown'
        /\ pos' \in 0 .. Len(source) + 1
        /\ \A ns : NamesBefore(pos, ns) => NamesBefore(pos', ns)
        /\ word \in Nat
        /\ \A w, t : w = word /\ t = text => MeansInstr(w, t)'
    BY <1>1, <2>1, InstructionStep
  <2> HIDE DEF word, text
  <2>4. WellBuilt'
    <3>1. WellBuilt /\ rawInstrs \in Seq(Nat)
      BY InvFacts DEF WellBuilt
    <3>2. rawInstrs' \in Seq(Nat)
      BY <2>1, <2>3, <3>1, AppendProperties
    <3> QED BY <2>1, <2>3, <3>1, <3>2 DEF WellBuilt, PoolKept, PoolOK
  <2>5. stage = "building"
    BY <1>1, InvFacts DEF AsmTyped
  <2>6. LoaderInv'
    BY <2>2, <2>4, <2>5, InvFacts, BuilderKeeps
  <2>7. AsmTyped'
    <3>1. constantOf' = constantOf
      BY <2>2 DEF told
    <3> QED BY <1>1, <2>1, <2>2, <2>3, <3>1, InvFacts DEF AsmTyped
  <2>8. AsmBuilt'
    <3>1. \A code, texts : CodeMeans(code, texts) => CodeMeans(code, texts)'
      BY <2>1, <2>3, MeaningStays
    <3>2. \A c, t : c = rawInstrs' /\ t = meantMain' => CodeMeans(c, t)'
      <4> DEFINE c == Append(rawInstrs, word)
                 t == Append(meantMain, text)
      <4>1. \A x, y : /\ CodeMeans(rawInstrs, meantMain)
                      /\ x = Append(rawInstrs, word) /\ y = Append(meantMain, text)
                      => CodeMeans(x, y)'
        <5>1. ASSUME NEW code, NEW texts, CodeMeans(code, texts),
                     NEW w, NEW z, w = word, z = text
              PROVE  CodeMeans(Append(code, w), Append(texts, z))'
          <6>1. MeansInstr(w, z)'
            BY <2>3, <5>1
          <6> QED BY <2>1, <2>3, <5>1, <6>1, CodeGrows
        <5> QED BY <5>1
      <4>2. CodeMeans(rawInstrs, meantMain)
        BY InvFacts DEF AsmBuilt
      <4> QED BY <2>1, <4>1, <4>2
    <3>3. CodeMeans(rawInstrs, meantMain)'
      BY <3>2
    <3>4. CodeMeans(instrs, meant)'
      BY <2>1, <3>1, InvFacts DEF AsmBuilt
    <3>5. \A f \in 1 .. Len(functions') : CodeMeans(functions[f].code, meantBodies[f])'
      BY <2>1, <3>1, InvFacts DEF AsmBuilt
    <3> QED BY <2>1, <3>3, <3>4, <3>5, InvFacts DEF AsmBuilt, IsSequence
  <2>9. NamesKnown'
    <3>1. names = <<>> /\ NamesBefore(pos, names)
      BY <1>1, InvFacts DEF NamesKnown
    <3>2. NamesBefore(pos', names)
      BY <2>3, <3>1
    <3>3. NamesBefore(pos, names)'
      <4>1. \A p, ns : NamesBefore(p, ns)' <=> NamesBefore(p, ns)
        BY <2>1, SourceStays
      <4> QED BY <2>1, <3>2, <4>1
    <3> QED BY <1>1, <2>1, <3>1, <3>3 DEF NamesKnown
  <2> QED BY <2>3, <2>6, <2>7, <2>8, <2>9 DEF PipelineInv, AsmInv
<1> QED
  BY <1>2, <1>3

LEMMA BodyInstructionKeeps ==
    ASSUME PipelineInv, BodyInstruction, Rest
    PROVE  PipelineInv'
<1>1. asm = "body"
  BY DEF BodyInstruction
<1>2. CASE InstructionFails \/ Fails("undefined")
  BY <1>1, <1>2, FailsKeeps DEF InstructionFails
<1>3. CASE ~(InstructionFails \/ Fails("undefined"))
  <2> DEFINE word == WordOf
             text == Written
  <2>1. /\ ProcessInstruction
        /\ instrs' = Append(instrs, word)
        /\ meant' = Append(meant, text)
        /\ UNCHANGED <<rawInstrs, klasses, functions, source, asm, header>>
        /\ UNCHANGED <<meantMain, meantBodies, names>>
    BY <1>3 DEF BodyInstruction
  <2>2. UNCHANGED <<istream, left, stage, loaded>> /\ UNCHANGED <<told, acc, reg, mode>>
    BY DEF Rest, machine
  <2>3. /\ PoolKept /\ IdsKnown'
        /\ pos' \in 0 .. Len(source) + 1
        /\ \A ns : NamesBefore(pos, ns) => NamesBefore(pos', ns)
        /\ word \in Nat
        /\ \A w, t : w = word /\ t = text => MeansInstr(w, t)'
    BY <1>1, <2>1, InstructionStep
  <2> HIDE DEF word, text
  <2>4. WellBuilt'
    BY <2>1, <2>3, InvFacts DEF WellBuilt, PoolKept, PoolOK
  <2>5. stage = "building"
    BY <1>1, InvFacts DEF AsmTyped
  <2>6. LoaderInv'
    BY <2>2, <2>4, <2>5, InvFacts, BuilderKeeps
  <2>7. AsmTyped'
    <3>1. constantOf' = constantOf
      BY <2>2 DEF told
    <3> QED BY <1>1, <2>1, <2>2, <2>3, <3>1, InvFacts DEF AsmTyped
  <2>8. AsmBuilt'
    <3>1. \A code, texts : CodeMeans(code, texts) => CodeMeans(code, texts)'
      BY <2>1, <2>3, MeaningStays
    <3>2. \A c, t : c = instrs' /\ t = meant' => CodeMeans(c, t)'
      <4>1. \A x, y : /\ CodeMeans(instrs, meant)
                      /\ x = Append(instrs, word) /\ y = Append(meant, text)
                      => CodeMeans(x, y)'
        <5>1. ASSUME NEW code, NEW texts, CodeMeans(code, texts),
                     NEW w, NEW z, w = word, z = text
              PROVE  CodeMeans(Append(code, w), Append(texts, z))'
          <6>1. MeansInstr(w, z)'
            BY <2>3, <5>1
          <6> QED BY <2>1, <2>3, <5>1, <6>1, CodeGrows
        <5> QED BY <5>1
      <4>2. CodeMeans(instrs, meant)
        BY InvFacts DEF AsmBuilt
      <4> QED BY <2>1, <4>1, <4>2
    <3>3. CodeMeans(instrs, meant)'
      BY <3>2
    <3>4. CodeMeans(rawInstrs, meantMain)'
      BY <2>1, <3>1, InvFacts DEF AsmBuilt
    <3>5. \A f \in 1 .. Len(functions') : CodeMeans(functions[f].code, meantBodies[f])'
      BY <2>1, <3>1, InvFacts DEF AsmBuilt
    <3> QED BY <2>1, <3>3, <3>4, <3>5, InvFacts DEF AsmBuilt, IsSequence
  <2>9. NamesKnown'
    <3> DEFINE ns == Append(names, header.name)
    <3>1. NamesBefore(pos, ns)
      BY <1>1, InvFacts DEF NamesKnown
    <3>2. NamesBefore(pos', ns)
      BY <2>3, <3>1
    <3>3. NamesBefore(pos, ns)'
      <4>1. \A p, x : NamesBefore(p, x)' <=> NamesBefore(p, x)
        BY <2>1, SourceStays
      <4> QED BY <2>1, <3>2, <4>1
    <3> QED BY <1>1, <2>1, <3>3 DEF NamesKnown
  <2> QED BY <2>3, <2>6, <2>7, <2>8, <2>9 DEF PipelineInv, AsmInv
<1> QED
  BY <1>2, <1>3

(* Code that means something is words.                                     *)
LEMMA CodeIsWords ==
    ASSUME NEW code, NEW texts, CodeMeans(code, texts)
    PROVE  code \in Seq(Nat) /\ code \o <<>> = code
<1> DEFINE n == Len(code)
<1>1. /\ code \in Seq(Range(code)) /\ n \in Nat /\ DOMAIN code = 1 .. n
      /\ \A i \in 1 .. n : code[i] \in Nat
  BY LenProperties DEF CodeMeans, IsSequence, MeansInstr
<1>2. code \in [1 .. n -> Range(code)]
  BY <1>1, LenProperties
<1>3. code \in [1 .. n -> Nat]
  BY <1>1, <1>2
<1> HIDE DEF n
<1>4. code \in Seq(Nat)
  BY <1>1, <1>3, MapPart
<1> QED
  BY <1>4, ConcatEmptySeq

LEMMA EndFunctionKeeps ==
    ASSUME PipelineInv, EndFunction,
           UNCHANGED <<istream, left, stage, loaded, acc, reg, machine>>
    PROVE  PipelineInv'
<1> DEFINE body == [numRegs |-> header.regs, numArgs |-> header.args, code |-> instrs]
           n == Len(functions)
<1>1. CodeMeans(instrs, meant)
  BY InvFacts DEF AsmBuilt
<1>2. instrs \in Seq(Nat) /\ instrs \o <<>> = instrs
  BY <1>1, CodeIsWords
<1>3. /\ asm = "body" /\ Is(pos, "CLOSE")
      /\ AddFunction(header.regs, header.args, FALSE)
      /\ meantBodies' = Append(meantBodies, meant) /\ meant' = <<>>
      /\ names' = Append(names, header.name)
      /\ asm' = "top" /\ pos' = pos + 1
      /\ UNCHANGED <<source, ids, header, meantMain>>
  BY DEF EndFunction
<1>4. /\ pool' = pool \o NameAndType(Len(pool), Name, Name)
      /\ functions' = Append(functions, body)
      /\ instrs' = <<>>
      /\ rawInstrs' = rawInstrs /\ klasses' = klasses
      /\ constantOf' = constantOf
  BY <1>2, <1>3 DEF AddFunction
<1>5. UNCHANGED <<istream, left, stage, loaded>> /\ UNCHANGED <<acc, reg, mode>>
  BY DEF machine
<1>6. PoolKept
  <2> DEFINE t == NameAndType(Len(pool), Name, Name)
  <2>1. Len(pool) \in Nat /\ PoolOK(pool)
    BY InvFacts, PoolPart
  <2>2. PoolOK(t) /\ Len(t) = 3
    BY <2>1, NameAndTypeOK
  <2>3. pool' = pool \o t
    BY <1>4
  <2> HIDE DEF t
  <2>4. /\ PoolOK(pool \o t) /\ Len(pool \o t) = Len(pool) + Len(t)
        /\ \A i \in 1 .. Len(pool) : (pool \o t)[i] = pool[i]
    BY <2>1, <2>2, PoolGrowsBy
  <2> QED BY <2>1, <2>2, <2>3, <2>4 DEF PoolKept, PoolOK
<1>7. body \in FunctionInfo /\ body.code = instrs
  BY <1>2, InvFacts DEF FunctionInfo, AsmTyped
<1> HIDE DEF body
<1>8. /\ functions \in Seq(FunctionInfo) /\ n \in Nat
      /\ functions' \in Seq(FunctionInfo) /\ Len(functions') = n + 1
      /\ \A f \in 1 .. n : functions'[f] = functions[f]
      /\ functions'[n + 1] = body
  <2>1. functions \in Seq(FunctionInfo)
    BY InvFacts DEF WellBuilt
  <2> QED BY <1>4, <1>7, <2>1, AppendProperties, LenProperties
<1>9. WellBuilt'
  BY <1>4, <1>6, <1>8, InvFacts DEF WellBuilt, PoolKept, PoolOK
<1>10. LoaderInv'
  <2>1. stage = "building"
    BY <1>3, InvFacts DEF AsmTyped
  <2> QED BY <1>5, <1>9, <2>1, InvFacts, BuilderKeeps
<1>11. pos \in 1 .. Len(source) /\ pos + 1 \in 0 .. Len(source) + 1
  <2>1. pos \in Nat \ {0}
    BY <1>3, InvFacts DEF IdsKnown
  <2>2. pos \in 1 .. Len(source)
    BY <1>3, <2>1, InvFacts, InText
  <2> QED BY <2>2, InvFacts
<1>12. AsmTyped'
  BY <1>3, <1>4, <1>5, <1>11, InvFacts DEF AsmTyped, Phase
<1>13. AsmBuilt'
  <2>1. \A code, texts : CodeMeans(code, texts) => CodeMeans(code, texts)'
    BY <1>3, <1>6, MeaningStays
  <2>2. CodeMeans(rawInstrs, meantMain)'
    BY <1>3, <1>4, <2>1, InvFacts DEF AsmBuilt
  <2>3. IsSequence(<<>>)
    BY EmptySeq DEF IsSequence
  <2>4. CodeMeans(instrs, meant)'
    BY <1>3, <1>4, <2>3 DEF CodeMeans, IsSequence
  <2>5. /\ IsSequence(meantBodies') /\ Len(meantBodies) = n /\ Len(meantBodies') = n + 1
        /\ \A f \in 1 .. n : meantBodies'[f] = meantBodies[f]
        /\ meantBodies'[n + 1] = meant
    BY <1>3, InvFacts, LongerSequence DEF AsmBuilt
  <2>6. IsSequence(names') /\ Len(names') = n + 1
    BY <1>3, InvFacts, LongerSequence DEF AsmBuilt
  <2>7. ASSUME NEW f \in 1 .. n + 1
        PROVE  \A c, t : c = functions'[f].code /\ t = meantBodies'[f]
                            => CodeMeans(c, t)'
    <3>1. CASE f = n + 1
      BY <1>1, <1>7, <1>8, <2>1, <2>5, <3>1
    <3>2. CASE f # n + 1
      <4>1. f \in 1 .. n
        BY <1>8, <3>2
      <4>2. CodeMeans(functions[f].code, meantBodies[f])
        BY <4>1, InvFacts DEF AsmBuilt
      <4> QED BY <1>8, <2>1, <2>5, <4>1, <4>2
    <3> QED BY <3>1, <3>2
  <2>8. ASSUME NEW f \in 1 .. Len(functions')
        PROVE  CodeMeans(functions[f].code, meantBodies[f])'
    <3>1. f \in 1 .. n + 1
      BY <1>8
    <3> QED BY <2>7, <3>1
  <2> QED BY <1>8, <2>2, <2>4, <2>5, <2>6, <2>8 DEF AsmBuilt, IsSequence
<1>14. NamesKnown'
  <2> DEFINE ns == Append(names, header.name)
  <2>1. NamesBefore(pos, ns)
    BY <1>3, InvFacts DEF NamesKnown
  <2>2. NamesBefore(pos + 1, ns)
    <3>1. /\ pos \in Nat /\ pos + 1 \in Nat /\ pos <= pos + 1
          /\ \A i \in pos .. (pos + 1) - 1 : i = pos
      BY <1>11
    <3>2. pos \notin FuncAt
      BY <1>3 DEF FuncAt, Is
    <3> HIDE DEF ns
    <3> QED BY <2>1, <3>1, <3>2, InvFacts, NamesStay
  <2>3. NamesBefore(pos, names)'
    BY <1>3, <2>2, SourceStays
  <2> QED BY <1>3, <2>3 DEF NamesKnown
<1>15. IdsKnown'
  <2>1. pos' # 0
    BY <1>3, <1>11
  <2> QED BY <1>3, <2>1, InvFacts, SourceStays DEF IdsKnown
<1> QED
  BY <1>10, <1>12, <1>13, <1>14, <1>15 DEF PipelineInv, AsmInv

(* Steps that assemble nothing leave what was assembled as it is.          *)
LEMMA AssembledStays ==
    ASSUME AsmBuilt, WellBuilt, NamesKnown, IdsKnown, UNCHANGED builder, UNCHANGED asmVars
    PROVE  AsmBuilt' /\ NamesKnown' /\ IdsKnown'
<1>1. /\ UNCHANGED <<source, pos, asm, ids, header>>
      /\ UNCHANGED <<meantMain, meantBodies, meant, names>>
  BY DEF asmVars
<1>2. AsmBuilt'
  BY <1>1, BuiltStays
<1>3. NamesKnown' /\ IdsKnown'
  BY <1>1, SourceStays DEF NamesKnown, IdsKnown
<1> QED
  BY <1>2, <1>3

LEMMA WriteFileKeeps ==
    ASSUME PipelineInv, WriteFile, UNCHANGED machine
    PROVE  PipelineInv'
<1>1. /\ asm = "write" /\ asm' = "written" /\ WriteAndOpen
      /\ UNCHANGED <<source, pos, ids, header, meantMain, meantBodies, meant, names>>
  BY DEF WriteFile
<1>2. /\ stage = "building" /\ stage' = "pool" /\ UNCHANGED builder
      /\ UNCHANGED <<told, acc, reg, mode>>
  BY <1>1 DEF WriteAndOpen, machine
<1>3. LoaderInv'
  BY <1>1, InvFacts, Opens
<1>4. AsmBuilt'
  BY <1>1, <1>2, InvFacts, BuiltStays
<1>5. AsmTyped'
  BY <1>1, <1>2, InvFacts DEF AsmTyped, builder, told, Phase
<1>6. NamesKnown' /\ IdsKnown'
  BY <1>1, InvFacts, SourceStays DEF NamesKnown, IdsKnown
<1> QED
  BY <1>3, <1>4, <1>5, <1>6 DEF PipelineInv, AsmInv

LEMMA LoadingTouches ==
    ASSUME Load
    PROVE  /\ UNCHANGED <<acc, reg>>
           /\ stage \in {"pool", "klasses", "functions"} /\ stage' # "building"
BY DEF Load, LoadConstant, EndPool, LoadKlass, EndKlasses, LoadFunction, EndFunctions,
       ReadCount, Read, Misread

LEMMA PipelineLoadKeeps ==
    ASSUME PipelineInv, Load, UNCHANGED asmVars, UNCHANGED machine
    PROVE  PipelineInv'
<1>1. LoaderInv'
  BY InvFacts, LoadKeeps
<1>2. UNCHANGED <<builder, told>> /\ UNCHANGED builder
  BY LoadingTellsNothing
<1>3. AsmBuilt' /\ NamesKnown' /\ IdsKnown'
  BY <1>2, InvFacts, AssembledStays
<1>4. AsmTyped'
  BY <1>2, LoadingTouches, InvFacts DEF AsmTyped, asmVars, machine, builder, told
<1> QED
  BY <1>1, <1>3, <1>4 DEF PipelineInv, AsmInv

(* A run changes no function.                                              *)
LEMMA RunKeepsCode ==
    ASSUME Start \/ Step
    PROVE  funcs' = funcs
<1>1. \A how : Stop(how) => funcs' = funcs
  BY DEF Stop
<1>2. \A op : Dispatch(op) => funcs' = funcs
  BY DEF Dispatch
<1>3. \A op : Advance(op) \/ Branch(op) => funcs' = funcs
  BY <1>2 DEF Advance, Branch
<1> QED
  BY <1>1, <1>2, <1>3 DEF Start, Step, ExecStraight, ExecIf, ExecAcmp, ExecGoto, ExecCall,
                          ExecRet, ExecFailing

LEMMA ExecutionKeeps ==
    ASSUME PipelineInv, Execution
    PROVE  PipelineInv'
<1>1. /\ stage = "running" /\ funcs' = funcs
      /\ UNCHANGED <<builder, told, istream, left, stage, constantPool,
                     stringPool, loadedKlasses, acc, reg, asmVars>>
  BY RunKeepsCode DEF Execution, Running
<1>2. UNCHANGED builder /\ UNCHANGED asmVars /\ UNCHANGED <<istream, left, stage, loaded>>
  BY <1>1 DEF loaded
<1>3. LoaderInv' /\ AsmBuilt' /\ NamesKnown' /\ IdsKnown'
  BY <1>2, InvFacts, LoaderStutters, AssembledStays
<1>4. AsmTyped'
  BY <1>1, InvFacts DEF AsmTyped, asmVars, builder, told
<1> QED
  BY <1>3, <1>4 DEF PipelineInv, AsmInv

LEMMA PipelineInvInitially ==
    ASSUME PipelineInit
    PROVE  PipelineInv
<1>1. LoaderInv
  BY InvInitially DEF PipelineInit, AssemblerInit, CodeInv
<1>2. /\ stage = "building" /\ rawInstrs = <<>> /\ klasses = <<>> /\ functions = <<>>
      /\ instrs = <<>> /\ constantOf = {} /\ acc = 0 /\ reg = 0 /\ mode = "idle"
      /\ source \in Source /\ pos = 0 /\ asm = "collect" /\ ids = <<>>
      /\ header.regs = 0 /\ header.args = 0
      /\ meantMain = <<>> /\ meantBodies = <<>> /\ meant = <<>> /\ names = <<>>
  BY DEF PipelineInit, AssemblerInit, MachineInit, LoaderInit, Init
<1>3. IsSequence(<<>>)
  BY EmptySeq DEF IsSequence
<1>4. AsmBuilt
  <2>1. CodeMeans(<<>>, <<>>)
    BY <1>3 DEF CodeMeans
  <2>2. Len(functions) = 0 /\ Len(meantBodies) = 0 /\ Len(names) = 0
    BY <1>2
  <2> QED BY <1>2, <1>3, <2>1, <2>2 DEF AsmBuilt
<1>5. AsmTyped
  <2>1. Len(source) \in Nat
    BY <1>2, SourceIs
  <2>2. pos \in 0 .. Len(source) + 1
    BY <1>2, <2>1
  <2>3. header.regs \in Byte /\ header.args \in Byte
    BY <1>2, Sizes
  <2> QED BY <1>2, <2>2, <2>3 DEF AsmTyped, Phase
<1>6. NamesKnown /\ IdsKnown
  BY <1>2 DEF NamesKnown, IdsKnown
<1> QED
  BY <1>1, <1>4, <1>5, <1>6 DEF PipelineInv, AsmInv

LEMMA PipelineInvStep ==
    ASSUME PipelineInv, [PipelineNext]_pipelineVars
    PROVE  PipelineInv'
<1>1. CASE Assemble /\ UNCHANGED machine
  <2>1. UNCHANGED <<istream, left, stage, loaded, acc, reg, machine>>
    BY <1>1 DEF Assemble
  <2>2. CASE EndFunction
    BY <2>1, <2>2, EndFunctionKeeps
  <2>3. CASE ~EndFunction
    <3>1. UNCHANGED told /\ Rest
      BY <1>1, <2>1, <2>3 DEF Assemble, Rest
    <3> QED
      BY <1>1, <2>3, <3>1, CollectKeeps, MainInstructionKeeps, EndMainKeeps,
         BeginFunctionKeeps, BodyInstructionKeeps, EndOfTextKeeps DEF Assemble
  <2> QED BY <2>2, <2>3
<1>2. CASE WriteFile /\ UNCHANGED machine
  BY <1>2, WriteFileKeeps
<1>3. CASE Load /\ UNCHANGED asmVars /\ UNCHANGED machine
  BY <1>3, PipelineLoadKeeps
<1>4. CASE Execution
  BY <1>4, ExecutionKeeps
<1>5. CASE UNCHANGED pipelineVars
  <2>1. /\ UNCHANGED builder /\ UNCHANGED asmVars /\ UNCHANGED <<told, acc, reg, mode>>
        /\ UNCHANGED <<istream, left, stage, loaded>>
    BY <1>5 DEF pipelineVars, vars, machine
  <2>2. LoaderInv' /\ AsmBuilt' /\ NamesKnown' /\ IdsKnown'
    BY <2>1, InvFacts, LoaderStutters, AssembledStays
  <2>3. AsmTyped'
    BY <2>1, InvFacts DEF AsmTyped, asmVars, builder, told
  <2> QED BY <2>2, <2>3 DEF PipelineInv, AsmInv
<1> QED
  BY <1>1, <1>2, <1>3, <1>4, <1>5 DEF PipelineNext, AssembleAndLoad

LEMMA PipelineInvariant == PipelineSpec => []PipelineInv
<1>1. PipelineInit => PipelineInv
  BY PipelineInvInitially
<1>2. PipelineInv /\ [PipelineNext]_pipelineVars => PipelineInv'
  BY PipelineInvStep
<1> QED
  BY <1>1, <1>2, PTL DEF PipelineSpec

-----------------------------------------------------------------------------
(* The executor of the pipeline is a machine: what is shown of a machine   *)
(* with any code whatever holds of one whose code was assembled.           *)

LEMMA PipelineStepsAreMachines ==
    ASSUME PipelineInv, [PipelineNext]_pipelineVars
    PROVE  [MachineNext]_machineVars
<1>1. CASE Assemble /\ UNCHANGED machine
  BY <1>1 DEF Assemble, loaded, machine, machineVars
<1>2. CASE WriteFile /\ UNCHANGED machine
  BY <1>2 DEF WriteFile, WriteAndOpen, loaded, machine, machineVars
<1>3. CASE Load /\ UNCHANGED machine
  <2>1. mode = "idle" /\ UNCHANGED <<frames, native, mode>>
    BY <1>3, LoadingTouches, InvFacts DEF AsmTyped, machine
  <2>2. LoaderInv'
    BY <1>3, InvFacts, LoadKeeps
  <2>3. funcs' \in Seq(FunctionInfo)
    BY <2>2 DEF LoaderInv, LoadTypeOK
  <2>4. FunctionInfo \subseteq Function
    BY Sizes DEF FunctionInfo, Function
  <2>5. funcs' \in Seq(Function)
    BY <2>3, <2>4, SeqMonotonic
  <2> QED BY <2>1, <2>5 DEF MachineNext, Loading
<1>4. CASE Execution
  BY <1>4 DEF Execution, MachineNext
<1>5. CASE UNCHANGED pipelineVars
  BY <1>5 DEF pipelineVars, vars, loaded, machine, machineVars
<1> QED
  BY <1>1, <1>2, <1>3, <1>4, <1>5 DEF PipelineNext, AssembleAndLoad

LEMMA PipelineIsMachine == PipelineSpec => MachineSpec
<1>1. PipelineInit => MachineInit
  BY DEF PipelineInit
<1>2. PipelineInv /\ [PipelineNext]_pipelineVars => [MachineNext]_machineVars
  BY PipelineStepsAreMachines
<1> QED
  BY <1>1, <1>2, PipelineInvariant, PTL DEF PipelineSpec, MachineSpec

LEMMA PipelineRuns == PipelineSpec => [](PipelineInv /\ MachineInv)
  BY PipelineIsMachine, PipelineInvariant, MachineInvariant, PTL

(* Well-formed code is never left and never asks for a function or a       *)
(* handler that does not exist, whatever the calls and returns             *)
(* (executor.cpp:10-16, 68-79, 380-387): code made of any words, and code  *)
(* that was assembled.                                                     *)
THEOREM CodeIsNeverLeft == MachineSpec \/ PipelineSpec => []StaysInCode
<1>1. MachineInv => StaysInCode
  BY DEF MachineInv, PcInCode, StaysInCode
<1> QED BY <1>1, PipelineIsMachine, MachineInvariant, PTL

(* Every frame below the current one is at the call that made the next     *)
(* (executor.cpp:68-79, 380-387), in any code and in assembled code.       *)
THEOREM ReturnsFollowCalls == MachineSpec \/ PipelineSpec => []CallersWaitAtCalls
<1>1. MachineInv => CallersWaitAtCalls
  BY DEF MachineInv
<1> QED BY <1>1, PipelineIsMachine, MachineInvariant, PTL

-----------------------------------------------------------------------------
(* What is loaded is what was written.                                     *)

(* The types of all that the three parts keep (assembler.hpp,              *)
(* code-manager.hpp, executor.hpp): among them, that an assembler at work  *)
(* has as many names and texts as functions, and has not opened its file.  *)
THEOREM PipelineTyped == PipelineSpec => []PipelineTypeOK
<1>1. ASSUME PipelineInv PROVE TypeOK /\ AssemblerTypeOK
  <2>1. /\ stage \in Stage /\ left \in Imm /\ constantPool \in Seq(Nat)
        /\ funcs \in Seq(FunctionInfo)
    BY <1>1, InvFacts DEF LoaderInv, LoadTypeOK
  <2>2. \A i \in 1 .. Len(funcs) : funcs[i].numRegs \in Byte /\ funcs[i].numArgs \in Byte
    <3> SUFFICES ASSUME NEW i \in 1 .. Len(funcs)
                 PROVE  funcs[i].numRegs \in Byte /\ funcs[i].numArgs \in Byte
      OBVIOUS
    <3>1. funcs[i] \in FunctionInfo
      BY <2>1, ElementOfSeq
    <3> QED BY <3>1 DEF FunctionInfo
  <2>3. TypeOK
    BY <1>1, <2>1, <2>2, InvFacts DEF TypeOK, AsmTyped
  <2>4. AssemblerTypeOK
    BY <1>1, InvFacts DEF AssemblerTypeOK, AsmTyped, AsmBuilt
  <2> QED BY <2>3, <2>4
<1>2. PipelineSpec => []MachineTypeOK
  BY PipelineIsMachine, MachineTyped, PTL
<1> QED
  BY <1>1, <1>2, PipelineInvariant, PTL DEF PipelineTypeOK

LEMMA ParseTyped ==
    ASSUME NEW word \in Nat
    PROVE  Parse(word).immidiate \in Nat
<1>1. ImmSize \in Nat /\ ImmSize > 0
  BY Sizes
<1>2. word \div ImmSize \in Int
  BY <1>1
<1>3. (word \div ImmSize) % ImmSize \in Nat
  BY <1>1, <1>2
<1> QED BY <1>3 DEF Parse

LEMMA MeantIs ==
    ASSUME PipelineInv
    PROVE  /\ Len(Meant) = Len(functions) + 1 /\ Len(functions) \in Nat
           /\ Meant[1] = meantMain
           /\ \A f \in 1 .. Len(functions) : Meant[f + 1] = meantBodies[f]
<1> DEFINE first == <<meantMain>>
<1>1. IsSequence(first) /\ Len(first) = 1 /\ first[1] = meantMain
  <2>1. first \in Seq({meantMain}) /\ Len(first) = 1 /\ first[1] = meantMain
    OBVIOUS
  <2> HIDE DEF first
  <2> QED BY <2>1, SequenceIs
<1> HIDE DEF first
<1>2. IsSequence(meantBodies) /\ Len(meantBodies) = Len(functions)
  BY InvFacts DEF AsmBuilt
<1>3. Joins(first \o meantBodies, first, meantBodies)
  BY <1>1, <1>2, LongerBy
<1>4. Meant = first \o meantBodies
  BY DEF Meant, first
<1>5. Len(functions) \in Nat
  BY InvFacts, FunctionsAre
<1>6. 1 \in 1 .. Len(first)
  BY <1>1
<1>7. \A f \in 1 .. Len(functions) : 1 + f = f + 1
  BY <1>5
<1> DEFINE n == Len(functions)
<1>8. /\ Len(Meant) = 1 + n
      /\ Meant[1] = meantMain
      /\ \A f \in 1 .. n : Meant[1 + f] = meantBodies[f]
  BY <1>1, <1>2, <1>3, <1>4, <1>6 DEF Joins
<1> QED
  BY <1>5, <1>7, <1>8

LEMMA LoadedIsMeant ==
    ASSUME PipelineInv, stage = "running", WithinLimits
    PROVE  /\ Len(funcs) = Len(functions) + 1 /\ DOMAIN funcs = 1 .. Len(functions) + 1
           /\ Len(functions) \in Nat /\ Len(functions) + 1 < ImmSize
           /\ Len(Meant) = Len(funcs)
           /\ \A f \in 1 .. Len(funcs) : CodeMeans(funcs[f].code, Meant[f])
           /\ PoolLoaded(Len(pool)) /\ Len(pool) \in Nat /\ Len(pool) < ImmSize
           /\ Len(constantPool) \in Nat
<1>1. WellBuilt /\ LoadTypeOK
  BY DEF PipelineInv, LoaderInv
<1>2. AllLoaded
  BY DEF PipelineInv, LoaderInv, LoadedSoFar, InPlace
<1>3. /\ Len(functions) \in Nat /\ Len(functions) + 1 < ImmSize
      /\ Len(pool) \in Nat /\ Len(pool) < ImmSize
  BY <1>1, LimitsAre
<1>4. /\ Len(funcs) = Len(functions) + 1
      /\ \A f \in 1 .. Len(functions) + 1 : funcs[f] = FunctionAt(f)
  BY <1>2 DEF AllLoaded, FunctionsLoaded
<1>5. DOMAIN funcs = 1 .. Len(functions) + 1 /\ Len(constantPool) \in Nat
  BY <1>1, <1>4, LenProperties DEF LoadTypeOK
<1> DEFINE n == Len(functions)
<1>6. ASSUME NEW f \in 1 .. n + 1 PROVE CodeMeans(funcs[f].code, Meant[f])
  <2>1. CASE f = 1
    <3>1. funcs[f].code = rawInstrs
      BY <1>4, <2>1 DEF FunctionAt, MainFunc
    <3>2. CodeMeans(rawInstrs, meantMain)
      BY InvFacts DEF AsmBuilt
    <3> QED BY <2>1, <3>1, <3>2, MeantIs
  <2>2. CASE f # 1
    <3>1. f - 1 \in 1 .. n /\ (f - 1) + 1 = f
      BY <1>3, <2>2
    <3>2. funcs[f].code = functions[f - 1].code
      BY <1>4, <2>2 DEF FunctionAt
    <3>3. CodeMeans(functions[f - 1].code, meantBodies[f - 1])
      BY <3>1, InvFacts DEF AsmBuilt
    <3>4. Meant[f] = meantBodies[f - 1]
      BY <3>1, MeantIs
    <3> QED BY <3>2, <3>3, <3>4
  <2> QED BY <2>1, <2>2
<1>7. PoolLoaded(Len(pool))
  BY <1>2 DEF AllLoaded
<1> QED
  BY <1>3, <1>4, <1>5, <1>6, <1>7, MeantIs

(* A number that fits its field is read back as it is.                     *)
LEMMA FittingIsRead ==
    /\ \A r, lexeme : MeansRegister(r, lexeme) /\ RegisterNumber[lexeme.value] < ByteSize
                          => r = RegisterNumber[lexeme.value]
    /\ \A n \in Int : Fits(n) => Reads(ToImm(n), n)
<1>1. ByteSize \in Nat /\ ByteSize > 0 /\ ImmSize \in Nat /\ ImmSize > 0
  BY Sizes
<1>2. ASSUME NEW r, NEW lexeme, MeansRegister(r, lexeme),
             RegisterNumber[lexeme.value] < ByteSize
      PROVE  r = RegisterNumber[lexeme.value]
  <2> DEFINE n == RegisterNumber[lexeme.value]
  <2>1. n \in Nat /\ r = n % ByteSize
    BY <1>2, AssemblerAssumption DEF MeansRegister, ToByte
  <2>2. n < ByteSize
    BY <1>2
  <2> HIDE DEF n
  <2>3. n % ByteSize = n
    BY <1>1, <2>1, <2>2
  <2> QED BY <2>1, <2>3 DEF n
<1>3. ASSUME NEW n \in Int, Fits(n) PROVE Reads(ToImm(n), n)
  <2>1. -ImmSize <= 2 * n /\ n < ImmSize
    BY <1>3 DEF Fits
  <2>2. n % ImmSize = IF n < 0 THEN n + ImmSize ELSE n
    <3>1. CASE n >= 0
      BY <1>1, <2>1, <3>1
    <3>2. CASE n < 0
      <4>1. n + ImmSize \in 0 .. ImmSize - 1
        BY <1>1, <2>1, <3>2
      <4>2. n % ImmSize = n + ImmSize
        BY <1>1, <4>1
      <4> QED BY <3>2, <4>2
    <3> QED BY <3>1, <3>2
  <2> QED BY <2>2 DEF Reads, ToImm
<1> QED BY <1>2, <1>3

(* An instruction that means a text is loaded as that text says.           *)
LEMMA MeantIsAsWritten ==
    ASSUME PipelineInv, stage = "running", WithinLimits,
           NEW word, NEW text, MeansInstr(word, text)
    PROVE  IsAsWritten(word, text)
<1> DEFINE m == Mnemonic[text[1].value]
           id == Parse(word).immidiate
<1>1. ASSUME m.format = "I", m.op \in FromPool
      PROVE  HasCnst(id) /\ Represents(GetCnst(id), ConstantOf(text[2]))
  <2> DEFINE c == ConstantOf(text[2])
  <2>1. ConstantAt(id, c)
    BY <1>1, AssemblerAssumption DEF MeansInstr
  <2> HIDE DEF c
  <2>2. /\ PoolLoaded(Len(pool)) /\ Len(pool) \in Nat /\ Len(pool) < ImmSize
        /\ Len(constantPool) \in Nat
    BY LoadedIsMeant
  <2>3. id \in Nat
    BY ParseTyped DEF MeansInstr
  <2>4. id + 1 \in 1 .. Len(pool) /\ pool[id + 1] = c
    BY <2>1, <2>2 DEF ConstantAt
  <2>5. /\ Len(pool) <= Len(constantPool)
        /\ Means(stringPool, constantPool[id + 1], c)
    BY <2>2, <2>4 DEF PoolLoaded, Pooled
  <2>6. HasCnst(id)
    <3> HIDE DEF id
    <3> QED BY <2>2, <2>3, <2>4, <2>5 DEF HasCnst
  <2>7. c.tag \in {CNST_I64, CNST_F64, CNST_RAW_STR}
    BY <2>1 DEF ConstantAt
  <2>8. Represents(GetCnst(id), c)
    BY <2>5, <2>7 DEF Means, Represents, GetCnst, IsString, String, CNST_I64, CNST_F64,
                      CNST_RAW_STR, CNST_FUNC_NAME_AND_TYPE
  <2> QED BY <2>6, <2>8 DEF c
<1>2. m.format = "RI" /\ Fits(text[4].value) => Reads(id, text[4].value)
  <2>1. \A i, n : i = ToImm(n) /\ n \in Int /\ Fits(n) => Reads(i, n)
    BY FittingIsRead
  <2> QED BY <2>1 DEF MeansInstr
<1> QED
  BY <1>1, <1>2, FittingIsRead DEF MeansInstr, IsAsWritten

(* Every instruction the executor fetches decodes to the operation the     *)
(* text has there and to its registers and its offset, if they fit the     *)
(* bits they have (assembler.hpp:109-208); the constant of a handler that  *)
(* looks one up is found in the loaded pool (code-manager.cpp:11-28), as   *)
(* long as the file holds what it counts.  Of the operands of other        *)
(* handlers with one immediate NumbersAreOperands says what is expected.   *)
THEOREM TextIsLoaded == PipelineSpec => []AssembledAsWritten
<1>1. ASSUME PipelineInv, Running, WithinLimits
      PROVE  /\ Len(funcs) = Len(Meant)
             /\ \A f \in 1 .. Len(funcs) :
                   /\ Len(funcs[f].code) = Len(Meant[f])
                   /\ \A i \in 1 .. Len(Meant[f]) :
                         IsAsWritten(funcs[f].code[i], Meant[f][i])
  <2>1. stage = "running"
    BY <1>1 DEF Running
  <2>2. /\ Len(funcs) = Len(Meant)
        /\ \A f \in 1 .. Len(funcs) : CodeMeans(funcs[f].code, Meant[f])
    BY <1>1, <2>1, LoadedIsMeant
  <2>3. \A word, text : MeansInstr(word, text) => IsAsWritten(word, text)
    BY <1>1, <2>1, MeantIsAsWritten
  <2> QED BY <2>2, <2>3 DEF CodeMeans
<1>2. PipelineInv => AssembledAsWritten
  BY <1>1 DEF AssembledAsWritten
<1> QED
  BY <1>2, PipelineInvariant, PTL

-----------------------------------------------------------------------------
(* Calls.                                                                  *)

(* What a callee's id is, once all names are known.                        *)
LEMMA CalleeIs ==
    ASSUME PipelineInv, stage = "running", WithinLimits, NEW n
    PROVE  LET named == {g \in 2 .. Len(funcs) : MeantName(g) = n}
               callee == CalleeOf(n) + 1
           IN  IF named = {} THEN callee = 1
               ELSE callee \in named /\ \A h \in named : callee <= h
<1> DEFINE N == Len(names)
           last == Len(source)
           named == {g \in 2 .. Len(funcs) : MeantName(g) = n}
           callee == CalleeOf(n) + 1
           x == FirstOf(n)
<1>1. /\ source \in Source /\ last \in Nat /\ asm = "written"
      /\ NamesBefore(last + 1, names)
  BY InvFacts DEF AsmTyped, NamesKnown
<1>2. /\ N \in Nat /\ N + 1 < ImmSize /\ Len(funcs) = N + 1
  BY LoadedIsMeant, InvFacts DEF AsmBuilt
<1>3. (last + 1) - 1 = last
  BY <1>1
<1>4. /\ Ordinal(last) = N
      /\ \A i \in FuncAt : i < last + 1 => names[Ordinal(i)] = Lexeme(i + 1).value
      /\ \A g \in 1 .. N : \E i \in FuncAt : i < last + 1 /\ Ordinal(i) = g
  BY <1>1, <1>3 DEF NamesBefore
<1>5. \A i \in FuncAt : i \in Int /\ i <= last /\ i < last + 1
  BY <1>1 DEF FuncAt
<1> HIDE DEF N, last
<1>6. ASSUME NEW i \in FuncAt
      PROVE  /\ Ordinal(i) \in 1 .. N
             /\ Ordinal(i) + 1 \in 2 .. Len(funcs)
             /\ MeantName(Ordinal(i) + 1) = Lexeme(i + 1).value
  <2>1. i \in Int /\ i - 1 \in Int /\ i - 1 <= i /\ i - 1 < i /\ i <= last /\ last \in Int
    BY <1>1, <1>5
  <2>2. Ordinal(i) \in Nat /\ Ordinal(i - 1) \in Nat
    BY <1>1, <2>1, OrdinalTyped
  <2>3. Ordinal(i) <= N
    BY <1>1, <1>4, <2>1, OrdinalGrows
  <2>4. Ordinal(i - 1) < Ordinal(i)
    BY <1>1, <2>1, OrdinalGrows
  <2> DEFINE o == Ordinal(i)
  <2>5. o \in 1 .. N
    <3> HIDE DEF o
    <3>1. o \in Nat /\ Ordinal(i - 1) < o /\ o <= N
      BY <2>2, <2>3, <2>4 DEF o
    <3> QED BY <1>2, <2>2, <3>1
  <2>6. names[o] = Lexeme(i + 1).value
    BY <1>4, <1>5
  <2> HIDE DEF o
  <2>7. o + 1 \in 2 .. Len(funcs) /\ (o + 1) - 1 = o /\ o + 1 # 1
    BY <1>2, <2>5
  <2> QED BY <2>5, <2>6, <2>7 DEF MeantName, o
<1>7. ASSUME NEW g \in named
      PROVE  \E i \in NamesFunction(n) : g = Ordinal(i) + 1
  <2>1. g \in 2 .. N + 1 /\ names[g - 1] = n
    <3>1. g \in 2 .. Len(funcs) /\ MeantName(g) = n
      OBVIOUS
    <3> HIDE DEF named
    <3>2. g \in 2 .. N + 1 /\ g # 1
      BY <1>2, <3>1
    <3>3. MeantName(g) = names[g - 1]
      BY <3>2, Zenon DEF MeantName
    <3> QED BY <3>1, <3>2, <3>3
  <2>2. g - 1 \in 1 .. N /\ g = (g - 1) + 1
    BY <1>2, <2>1
  <2>3. PICK i \in FuncAt : i < last + 1 /\ Ordinal(i) = g - 1
    BY <1>4, <2>2
  <2>4. Lexeme(i + 1).value = n
    BY <1>4, <2>1, <2>3
  <2> QED BY <2>2, <2>3, <2>4 DEF NamesFunction
<1>8. CASE n \in Declared
  <2>1. /\ x \in NamesFunction(n) /\ x \in FuncAt
        /\ \A j \in NamesFunction(n) : x <= j
        /\ NamesFunction(n) \subseteq FuncAt
    BY <1>1, <1>8, FirstIs
  <2>2. Lexeme(x + 1).value = n
    BY <2>1 DEF NamesFunction
  <2>3. CalleeOf(n) = Ordinal(x)
    <3>1. Ordinal(x) \in Nat /\ Ordinal(x) < ImmSize
      <4>1. Ordinal(x) \in 1 .. N
        BY <1>6, <2>1
      <4> DEFINE o == Ordinal(x)
      <4>2. ImmSize \in Nat
        BY Sizes
      <4>3. o \in 1 .. N
        BY <4>1
      <4> HIDE DEF o, x
      <4>4. o \in Nat /\ o < ImmSize
        BY <1>2, <4>2, <4>3
      <4> QED BY <4>4 DEF o
    <3> QED BY <1>8, <3>1, Sizes DEF CalleeOf
  <2>4. callee \in named
    BY <1>6, <2>1, <2>2, <2>3
  <2>5. ASSUME NEW h \in named PROVE callee <= h
    <3>1. PICK i \in NamesFunction(n) : h = Ordinal(i) + 1
      BY <1>7
    <3>2. x <= i /\ i \in FuncAt
      BY <2>1
    <3>3. Ordinal(x) <= Ordinal(i)
      <4>1. \A y \in FuncAt : y \in Int
        BY <1>5
      <4>2. \A p, q \in Int : p <= q => Ordinal(p) <= Ordinal(q)
        BY <1>1, OrdinalGrows
      <4> HIDE DEF x
      <4> QED BY <2>1, <3>2, <4>1, <4>2
    <3>4. Ordinal(x) \in 1 .. N /\ Ordinal(i) \in 1 .. N
      BY <1>6, <2>1, <3>2
    <3> QED BY <1>2, <2>3, <3>1, <3>3, <3>4
  <2> QED BY <2>4, <2>5
<1>9. CASE n \notin Declared
  <2>1. ASSUME NEW g \in named PROVE FALSE
    <3>1. PICK i \in NamesFunction(n) : g = Ordinal(i) + 1
      BY <1>7
    <3> QED BY <1>9, <3>1 DEF NamesFunction, Declared
  <2>2. named = {}
    BY <2>1
  <2>3. callee = 1
    BY <1>9 DEF CalleeOf
  <2> QED BY <2>2, <2>3
<1> QED
  BY <1>8, <1>9

(* A call reaches the first function of its name wherever in the text it   *)
(* is, before or after the call, and main when there is none               *)
(* (assembler.hpp:30-41, 138-143): the ids that the first reading of the   *)
(* text gave out are the places in the file the second reading fills.      *)
THEOREM NamesAreCalled == PipelineSpec => []CallsReachNames
<1>1. ASSUME PipelineInv, Running, WithinLimits,
             NEW f \in 1 .. Len(funcs), NEW i \in 1 .. Len(Meant[f]),
             Mnemonic[Meant[f][i][1].value].op = Call
      PROVE  LET text == Meant[f][i]
                 callee == Parse(funcs[f].code[i]).immidiate + 1
                 named == {g \in 2 .. Len(funcs) : MeantName(g) = text[2].value}
             IN  callee = IF named = {} THEN 1
                          ELSE CHOOSE g \in named : \A h \in named : g <= h
  <2> DEFINE n == Meant[f][i][2].value
             named == {g \in 2 .. Len(funcs) : MeantName(g) = n}
             callee == CalleeOf(n) + 1
  <2>1. stage = "running"
    BY <1>1 DEF Running
  <2>2. MeansInstr(funcs[f].code[i], Meant[f][i])
    BY <1>1, <2>1, LoadedIsMeant DEF CodeMeans
  <2>3. Parse(funcs[f].code[i]).immidiate = CalleeOf(n)
    BY <1>1, <2>2 DEF MeansInstr
  <2>4. IF named = {} THEN callee = 1
        ELSE callee \in named /\ \A h \in named : callee <= h
    BY <1>1, <2>1, CalleeIs
  <2>5. \A g \in named : g \in Int
    OBVIOUS
  <2> HIDE DEF named, callee
  <2>6. CASE named # {}
    <3> DEFINE g == CHOOSE g \in named : \A h \in named : g <= h
    <3>1. g \in named /\ \A h \in named : g <= h
      BY <2>4, <2>6
    <3> HIDE DEF g
    <3>2. g = callee
      BY <2>4, <2>5, <2>6, <3>1
    <3> QED BY <2>3, <2>6, <3>2 DEF g, named, callee
  <2>7. CASE named = {}
    BY <2>3, <2>4, <2>7 DEF named, callee
  <2> QED BY <2>6, <2>7
<1>2. PipelineInv => CallsReachNames
  BY <1>1 DEF CallsReachNames
<1> QED
  BY <1>2, PipelineInvariant, PTL

(* An instruction of a loaded text has a handler, and if it is a call the  *)
(* callee is there.                                                        *)
LEMMA AssembledIsKnown ==
    ASSUME PipelineInv, MachineInv, mode = "running", stage = "running", WithinLimits,
           InCode(Current.func, Current.pc)
    PROVE  /\ Instr.operation \in Handlers
           /\ Instr.operation = Call => Callee \in DOMAIN funcs
<1> DEFINE f == Current.func
           i == Current.pc + 1
           word == Code(f)[i]
           text == Meant[f][i]
<1>1. f \in DOMAIN funcs /\ Current.pc \in Int
  BY CurrentFrame DEF MachineInv
<1>2. f \in 1 .. Len(funcs)
  BY <1>1, LoadedIsMeant
<1>3. CodeMeans(Code(f), Meant[f])
  BY <1>2, LoadedIsMeant DEF Code
<1>4. i \in 1 .. Len(Code(f))
  <2>1. Len(Code(f)) \in Nat
    BY <1>1, WordsOfCode DEF MachineInv
  <2> QED BY <1>1, <2>1 DEF InCode
<1>5. MeansInstr(word, text)
  BY <1>3, <1>4 DEF CodeMeans
<1>6. Instr = Parse(word)
  BY DEF Instr, At
<1> DEFINE n == text[2].value
<1> HIDE DEF word, text
<1>7. Instr.operation \in Handlers
  BY <1>5, <1>6, PipelineAssumption DEF MeansInstr
<1>8. ASSUME Instr.operation = Call PROVE Callee \in DOMAIN funcs
  <2>1. Callee = CalleeOf(n) + 1
    BY <1>5, <1>6, <1>8 DEF MeansInstr, Callee
  <2>2. DOMAIN funcs = 1 .. Len(funcs) /\ Len(funcs) \in Nat /\ Len(funcs) >= 1
    BY LoadedIsMeant
  <2>3. CalleeOf(n) + 1 = 1 \/ CalleeOf(n) + 1 \in 2 .. Len(funcs)
    BY CalleeIs
  <2> QED BY <2>1, <2>2, <2>3
<1> QED
  BY <1>7, <1>8

LEMMA UndefinedByPc ==
    ASSUME PipelineInv, MachineInv, LeavesCodeByPcOnly, [PipelineNext]_pipelineVars
    PROVE  LeavesCodeByPcOnly'
<1> SUFFICES ASSUME mode' = "undefined", WithinLimits'
             PROVE  ~InCode(Current.func, Current.pc)'
  BY DEF LeavesCodeByPcOnly
<1>1. mode # "idle" => stage = "running" /\ asm = "written"
  BY InvFacts DEF AsmTyped
<1>2. CASE mode = "undefined"
  <2>1. UNCHANGED <<funcs, frames, mode>> /\ UNCHANGED builder
    <3>1. CASE Assemble \/ WriteFile
      BY <1>1, <1>2, <3>1 DEF Assemble, Collect, MainInstruction, EndMain, BeginFunction,
                              BodyInstruction, EndFunction, EndOfText, WriteFile
    <3>2. CASE Load
      BY <1>1, <1>2, <3>2, LoadingTouches
    <3>3. CASE Execution
      BY <1>2, <3>3 DEF Execution, Start, Step
    <3>4. CASE UNCHANGED pipelineVars
      BY <3>4 DEF pipelineVars, vars, loaded, machine
    <3> QED BY <3>1, <3>2, <3>3, <3>4 DEF PipelineNext, AssembleAndLoad
  <2>2. WithinLimits
    BY <2>1, LimitsStay
  <2>3. ~InCode(Current.func, Current.pc)
    BY <1>2, <2>2 DEF LeavesCodeByPcOnly
  <2> QED BY <2>1, <2>3 DEF InCode, Current, Code
<1>3. CASE mode # "undefined"
  <2>1. Execution
    BY <1>3 DEF PipelineNext, AssembleAndLoad, pipelineVars, machine
  <2>2. /\ Step /\ mode = "running" /\ stage = "running"
        /\ UNCHANGED builder
    BY <1>1, <2>1 DEF Execution, Start, Step
  <2>3. WithinLimits
    BY <2>2, LimitsStay
  <2>4. ASSUME InCode(Current.func, Current.pc) PROVE FALSE
    <3>1. /\ Instr.operation \in Handlers
          /\ Instr.operation = Call => Callee \in DOMAIN funcs
      BY <2>2, <2>3, <2>4, AssembledIsKnown
    <3>2. \A op : Dispatch(op) => mode' # "undefined"
      BY <2>2 DEF Dispatch
    <3>3. \A how : Stop(how) => how = "undefined"
      BY DEF Stop
    <3> QED
      BY <2>2, <2>4, <3>1, <3>2, <3>3
         DEF Step, ExecStraight, ExecIf, ExecAcmp, ExecGoto, ExecCall, ExecRet,
             ExecFailing, Advance, Branch
  <2>5. UNCHANGED <<funcs, frames>>
    BY <2>2, <2>4 DEF Step, Stop
  <2> QED BY <2>4, <2>5 DEF InCode, Current, Code
<1> QED
  BY <1>2, <1>3

(* A text that is accepted dispatches only operations that have a handler  *)
(* and calls only functions that are there (assembler.hpp:109-143,         *)
(* executor.cpp:10-16, 380-387): the one way it can make the executor read *)
(* what is no instruction is a pc outside the function.                    *)
THEOREM OnlyThePcLeavesCode == PipelineSpec => []LeavesCodeByPcOnly
<1>1. PipelineInit => LeavesCodeByPcOnly
  BY DEF PipelineInit, MachineInit, LeavesCodeByPcOnly
<1>2. PipelineInv /\ MachineInv /\ LeavesCodeByPcOnly /\ [PipelineNext]_pipelineVars
        => LeavesCodeByPcOnly'
  BY UndefinedByPc
<1> QED
  BY <1>1, <1>2, PipelineRuns, PTL DEF PipelineSpec
=============================================================================
