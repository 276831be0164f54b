---------------------------- MODULE Interpreter ----------------------------
(***************************************************************************)
(* The executor with its collector: triggerGC() is the loops of collect()  *)
(* (module Collector), step by step, over the frames and the accumulator   *)
(* of a disciplined program and over the trace its allocations left.  It   *)
(* implements the executor in which a collection is one step.              *)
(***************************************************************************)
EXTENDS Bytecode, SequencesExt

VARIABLES marked, allocations, roots, stack, cursor, phase     \* as in Collector

collection == <<marked, roots, stack, cursor, phase>>
interpreterVars == <<vars, allocations, collection>>

-----------------------------------------------------------------------------
(* What collectRoots() looks at: registers from the current frame back to  *)
(* main, then acc; null for what is no reference.                          *)
SlotsOf(f) ==
    [i \in 1 .. numRegs[f.func] |->
        IF f.isRegRef[i - 1] THEN f.registers[i - 1] ELSE CHAI_NULL]
AccSlot == <<IF isAccRef THEN acc ELSE CHAI_NULL>>

(* Mutation: frame->back() is not followed.                                *)
ScannedHere == (IF frames = <<>> THEN <<>> ELSE SlotsOf(CurrentFrame)) \o AccSlot

Scanned ==
    FlattenSeq([k \in 1 .. Len(frames) |-> SlotsOf(Reverse(frames)[k])]) \o AccSlot

Gc == INSTANCE Collector WITH slots <- Scanned, NumSlots <- 0, Length <- {}

(* A handler; allocate() leaves an entry in the trace.                     *)
Handler ==
    /\ phase = "program"
    /\ DisciplinedStep
    /\ allocations' = allocations \o
          SetToSeq({[ptr |-> a, isFree |-> FALSE] : a \in DOMAIN heap' \ DOMAIN heap})
    /\ UNCHANGED collection

(* triggerGC(): nothing to do, or collect() until erase is done.           *)
Pass ==
    /\ ~OverThreshold /\ TriggerGC
    /\ UNCHANGED <<allocations, collection>>

Begin ==
    /\ mode = "running" /\ ~triggered /\ OverThreshold
    /\ UNCHANGED <<frames, acc, isAccRef, triggered, mode>>
    /\ Gc!Begin

Collecting ==
    /\ UNCHANGED <<frames, acc, isAccRef>>
    /\ Gc!Collect
    /\ triggered' = (triggered \/ phase = "erase")
    /\ mode' = IF phase' \in Dead THEN phase' ELSE mode

InterpreterInit ==
    /\ Init
    /\ allocations = <<>> /\ roots = <<>> /\ stack = <<>>
    /\ marked = {} /\ cursor = 0 /\ phase = "program"

InterpreterNext == Handler \/ Pass \/ Begin \/ Collecting

(* A collection is a call on the only thread; a program may stop.          *)
InterpreterSpec ==
    InterpreterInit /\ [][InterpreterNext]_interpreterVars
        /\ WF_interpreterVars(Collecting)

-----------------------------------------------------------------------------
(* Marking is the executor's still waiting for triggerGC(); when it ends,  *)
(* the executor has swept, and what the loops of sweep() go on to free is  *)
(* gone already.                                                           *)
Sweeping == phase \in {"sweep", "erase"}
Kept == DOMAIN heap \cap Reach(heap, Roots)

OneStep == INSTANCE Bytecode WITH
    heap <- IF Sweeping THEN Restrict(heap, Kept) ELSE heap,
    allocated <- IF Sweeping THEN TotalWords(heap, Kept) ELSE allocated,
    triggered <- triggered \/ Sweeping

(* With its loops, its marks, its roots and its trace, the collector does  *)
(* to a running program what the one step of Executor says: it dies where  *)
(* that may die and in that way, and otherwise keeps exactly what is       *)
(* reachable (garbage-collector.cpp:7-101, executor.cpp:582-587).          *)
ImplementsExecutor == OneStep!DisciplinedSpec

(* A collection of a program's heap ends, however its objects are shared.  *)
CollectionEnds == Gc!CollectionEnds
=============================================================================
