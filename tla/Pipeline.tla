------------------------------ MODULE Pipeline ------------------------------
(***************************************************************************)
(* From text to the end of its run: the assembler builds and writes a      *)
(* file, the code manager loads it, the executor runs it.                  *)
(***************************************************************************)
EXTENDS Assembler, Machine

(* The table of mnemonics is generated and HANDLER_ARR is written by hand: *)
(* each of the mnemonics has a handler in it (executor.hpp:113-178).       *)
ASSUME PipelineAssumption ==
    \A name \in DOMAIN Mnemonic : Mnemonic[name].op \in Handlers

machine == <<frames, native, mode>>
pipelineVars == <<vars, asmVars, machine>>

PipelineInit == AssemblerInit /\ MachineInit

(* The program is run only when all of it is loaded.                       *)
Execution ==
    /\ Running /\ (Start \/ Step)
    /\ UNCHANGED <<builder, told, istream, left, stage, constantPool,
                   stringPool, loadedKlasses, acc, reg, asmVars>>

PipelineNext ==
    \/ AssembleAndLoad /\ UNCHANGED machine
    \/ Execution

(* Nothing but the text and the stacks keeps a program going.              *)
PipelineSpec ==
    PipelineInit /\ [][PipelineNext]_pipelineVars /\ WF_pipelineVars(PipelineNext)

-----------------------------------------------------------------------------
PipelineTypeOK == TypeOK /\ AssemblerTypeOK /\ MachineTypeOK

(* All that the assembler leaves to chance: a program it accepts dispatches*)
(* known operations and calls functions that are there, so that the only   *)
(* way to undefined behaviour of control is a pc outside of the function,  *)
(* by a jump or past its last instruction (assembler.hpp:109-143,          *)
(* executor.cpp:10-16).                                                    *)
LeavesCodeByPcOnly ==
    mode = "undefined" /\ WithinLimits =>
        ~InCode(Current.func, Current.pc)
=============================================================================
