------------------------------ MODULE Bytecode ------------------------------
(***************************************************************************)
(* The executor checks little of what it runs.  A disciplined program      *)
(* keeps the rules ISA.md implies by giving each instruction the kind of   *)
(* value it works on: these are the rules the executor's memory safety     *)
(* rests on, and the only ones.                                            *)
(***************************************************************************)
EXTENDS Executor

(* A register that has held a reference is not reused for a scalar: Star   *)
(* and Mov do not clear its reference bit.                                 *)
Reusable(r) == HasRegister(r) => ~IsRegisterReference(r)

(* Array instructions get arrays, field instructions an object with the    *)
(* field, neither gets null.  (Nothing is asked about freed memory.)  No   *)
(* array is asked for whose size in bytes a word cannot hold.              *)
NotNull == acc # CHAI_NULL
IsArrayRef == NotNull /\ (acc \in DOMAIN heap => IsArray(Target))
IsObjectWith(o) == NotNull /\ (acc \in DOMAIN heap => HasMember(MemberAt(o)))

DisciplinedStep ==
    \/ Run
    \/ \E o \in Offset :
          \/ GetField(o) /\ IsObjectWith(o)
          \/ \E r \in RegisterId : SetField(o, r) /\ IsObjectWith(o)
    \/ \E imm \in Immidiate : AllocRef(imm)
    \/ \E r \in RegisterId :
          \/ Star(r) /\ Reusable(r)
          \/ StarRef(r) \/ Ldra(r) \/ LdraRef(r)
          \/ GetRefFromArr(r) /\ IsArrayRef
          \/ \E q \in RegisterId :
                \/ Mov(r, q) /\ Reusable(q)
                \/ SetRefInArr(r, q) /\ IsArrayRef
          \/ \E v \in Value : Arith(r, v)
          \/ IfIcmp(r)
    \/ \E v \in Scalar : Ldia(v)
    \/ \E v \in Value : ArithImm(v)
    \/ \E f \in Func : Call(f)
    \/ NewRefArr /\ (acc \in Scalar => Measured(acc))
    \/ Ret
    \/ Nop \/ IfNull \/ IfAcmp \/ Inv \/ MovRef

DisciplinedNext == TriggerGC \/ DisciplinedStep

DisciplinedSpec == Init /\ [][DisciplinedNext]_vars

-----------------------------------------------------------------------------
(* Every flagged register of every frame, the flagged accumulator and      *)
(* every reference member of an allocated object are null or name an       *)
(* allocated object: the collector's roots are complete and right          *)
(* (garbage-collector.cpp:12-35) whatever calls, returns, stores and       *)
(* collections came before.                                                *)
NoDangling ==
    /\ Roots \subseteq DOMAIN heap
    /\ \A a \in DOMAIN heap : Children(heap[a]) \subseteq DOMAIN heap

(* A disciplined program never makes the interpreter touch memory that is  *)
(* not an allocated object (objects.hpp:51-82 checks nothing).              *)
NeverUndefined == mode # "undefined"

(* A handler that finds the allocator over its 60% threshold has no        *)
(* garbage to complain about: DO_NEXT_INS has collected it all.            *)
NoGarbageWhenTight ==
    Running /\ OverThreshold => DOMAIN heap \subseteq Reach(heap, Roots)

(* The executor with its collector is an object store: references are      *)
(* never forged and what a program can reach never disappears.             *)
Store == INSTANCE ObjectStore WITH
    held <- Roots,
    graph <- [a \in DOMAIN heap |-> Children(heap[a])]

ImplementsObjectStore == Store!Spec

-----------------------------------------------------------------------------
(* What the repository's documents say and the code does not do.           *)

(* executor.hpp:34 on isAccRef(): "true if accumulator stores reference".  *)
FlaggedAccIsReference == isAccRef => acc \in Addr \cup {CHAI_NULL}

(* ISA.md:67 on GetField: "Value can be ref, array or String": a field     *)
(* that holds an array does not stop the interpreter.                      *)
ArraysMayBeFields == [][TriggerGC => mode' # "aborted"]_vars
=============================================================================
