------------------------------ MODULE ChaiFile ------------------------------
(***************************************************************************)
(* The builder of .chai files (chai-file.cpp, constant.cpp, klass-info.cpp,*)
(* function-info.cpp) and what it writes.  Its clients (the assembler, the *)
(* tests) get numbers back: ids of constants inside instructions, ids of   *)
(* functions and klasses, offsets of fields.  Every number has a width.    *)
(*                                                                         *)
(* A written file is a sequence of items; an item is what one iteration of *)
(* a loop of the loader, or one count, reads if all is well.               *)
(***************************************************************************)
EXTENDS Encoding, SequencesExt

CONSTANTS
    Ldia,         \* an opcode: an operation on a constant
    Word,         \* 64-bit patterns of numeric constants
    Text,         \* strings of constants, sequences of characters
    Name,         \* a string naming a function, a klass or a field
    Signature,    \* registers and arguments of functions
    MaxPool,      \* bound: constants of a file
    MaxLoads,     \* bound: instructions with a constant
    MaxInstrs,    \* bound: instructions of main without a constant
    MaxFields     \* bound: fields of a klass

ASSUME ChaiFileAssumption ==
    /\ {Ldia, Call} \subseteq Byte /\ Ldia # Call
    /\ Word \subseteq Nat
    /\ \A t \in Text \cup {Name} : t \in Seq(Range(t))
    /\ Signature \subseteq Byte \X Byte

CNST_I64 == 1
CNST_F64 == 2
CNST_FUNC_NAME_AND_TYPE == 3
CNST_RAW_STR == 4

ConstNumber(tag, w) == [tag |-> tag, data |-> w]
ConstRawStr(t) == [tag |-> CNST_RAW_STR, text |-> t]
ConstFuncNameAndType(n, d) ==
    [tag |-> CNST_FUNC_NAME_AND_TYPE, name |-> n, descriptor |-> d]

VARIABLES
    pool,         \* ChaiFile::pool_
    rawInstrs,    \* ChaiFile::rawInstrs_, the code of main
    klasses,      \* ChaiFile::klasses_: isObject_ of each field, and nFields_
    functions,    \* ChaiFile::functions_, all but main
    instrs        \* a client's code, not yet given to addFunction()

(* History: what a client has been told.                                   *)
VARIABLES
    constantOf,   \* <<word, constant>>: the instruction loads the constant
    bodyOf,       \* <<id, body>>: the id calls the function
    fieldAt       \* <<klass, offset, isObject>>

builder == <<pool, rawInstrs, klasses, functions, instrs>>
told == <<constantOf, bodyOf, fieldAt>>

-----------------------------------------------------------------------------
(* addConst(): what is returned is the last index, in an Immidiate.        *)

ConstantId(n) == ToImm(Len(pool) + n - 1)     \* of the n-th constant added

(* The name and the type of a function are constants, then their pair is.  *)
NameAndType(before, n, d) ==
    <<ConstRawStr(n), ConstRawStr(d),
      ConstFuncNameAndType(ToImm(before), ToImm(before + 1))>>

AddInstr(word) ==
    /\ rawInstrs' = Append(rawInstrs, word)
    /\ UNCHANGED <<pool, klasses, functions, instrs, told>>

WithConst(c) ==
    LET word == RawI(Ldia, ConstantId(1))
    IN  /\ pool' = Append(pool, c)
        /\ constantOf' = constantOf \cup {<<word, c>>}
        /\ \/ rawInstrs' = Append(rawInstrs, word) /\ UNCHANGED instrs
           \/ instrs' = Append(instrs, word) /\ UNCHANGED rawInstrs
        /\ UNCHANGED <<klasses, functions, bodyOf, fieldAt>>

(* Mutation: main is not counted.                                          *)
NextFuncWithoutMain == ToImm(Len(functions))

NextFunc == ToImm(Len(functions) + 1)

(* addFunction(), of a client's code that may end in a call of itself.     *)
AddFunction(regs, args, recursive) ==
    LET code == instrs \o
                  (IF recursive THEN <<RawRI(Call, 0, NextFunc)>> ELSE <<>>)
        body == [numRegs |-> regs, numArgs |-> args, code |-> code]
    IN  /\ pool' = pool \o NameAndType(Len(pool), Name, Name)
        /\ functions' = Append(functions, body)
        /\ instrs' = <<>>
        /\ bodyOf' = bodyOf \cup {<<ToImm(Len(functions')), body>>}
        /\ UNCHANGED <<rawInstrs, klasses, constantOf, fieldAt>>

RegisterKlass ==
    /\ pool' = Append(pool, ConstRawStr(Name))
    /\ klasses' = Append(klasses, [nFields |-> 0, fields |-> <<>>])
    /\ UNCHANGED <<rawInstrs, functions, instrs, told>>

(* KlassInfo::addField() counts the fields in a byte; what it returns is   *)
(* computed as an int from that byte and narrowed, the offset in words     *)
(* being 8 times smaller here.                                             *)

(* Mutation: the count is not maintained.                                  *)
AddFieldUncounted(k, isObject) ==
    /\ k \in DOMAIN klasses
    /\ pool' = Append(pool, ConstRawStr(Name))
    /\ klasses' = [klasses EXCEPT ![k].fields = Append(@, isObject)]
    /\ fieldAt' = fieldAt \cup {<<k, Len(klasses[k].fields), isObject>>}
    /\ UNCHANGED <<rawInstrs, functions, instrs, constantOf, bodyOf>>
(* Mutation: the offset is that of the next field.                         *)
AddFieldOffByOne(k, isObject) ==
    /\ k \in DOMAIN klasses
    /\ pool' = Append(pool, ConstRawStr(Name))
    /\ klasses' = [klasses EXCEPT
          ![k].fields = Append(@, isObject),
          ![k].nFields = (@ + 1) % ByteSize]
    /\ fieldAt' = fieldAt \cup {<<k, klasses'[k].nFields, isObject>>}
    /\ UNCHANGED <<rawInstrs, functions, instrs, constantOf, bodyOf>>

AddField(k, isObject) ==
    /\ k \in DOMAIN klasses
    /\ pool' = Append(pool, ConstRawStr(Name))
    /\ klasses' = [klasses EXCEPT
          ![k].fields = Append(@, isObject),
          ![k].nFields = (@ + 1) % ByteSize]
    /\ fieldAt' = fieldAt \cup {<<k, ToImm(klasses'[k].nFields - 1), isObject>>}
    /\ UNCHANGED <<rawInstrs, functions, instrs, constantOf, bodyOf>>

Constant ==
    {ConstNumber(tag, w) : tag \in {CNST_I64, CNST_F64}, w \in Word}
        \cup {ConstRawStr(t) : t \in Text}

Build ==
    \/ Len(rawInstrs) < MaxInstrs /\ AddInstr(RawRR(0, 1, 2))
    \/ /\ Len(pool) < MaxPool /\ Cardinality(constantOf) < MaxLoads
       /\ \E c \in Constant : WithConst(c)
    \/ /\ Len(pool) + 3 <= MaxPool
       /\ \E sig \in Signature, recursive \in BOOLEAN :
             AddFunction(sig[1], sig[2], recursive)
    \/ Len(pool) < MaxPool /\ RegisterKlass
    \/ \E k \in DOMAIN klasses, isObject \in BOOLEAN :
          /\ Len(pool) < MaxPool /\ Len(klasses[k].fields) < MaxFields
          /\ AddField(k, isObject)

(* The constructor adds main's name and type, and "Code".                  *)
Init ==
    /\ pool = Append(NameAndType(0, Name, Name), ConstRawStr(Name))
    /\ rawInstrs = <<>> /\ klasses = <<>> /\ functions = <<>> /\ instrs = <<>>
    /\ constantOf = {} /\ bodyOf = {} /\ fieldAt = {}

-----------------------------------------------------------------------------
(* toFile(): counts are narrowed to the width of their field, what is      *)
(* counted is written in full.                                             *)

Count(n) == <<[count |-> ToImm(n)]>>

MAIN_REGISTERS == ByteSize - 1     \* 100, some number that fits a byte
MainFunc ==
    [numRegs |-> MAIN_REGISTERS, numArgs |-> MAIN_REGISTERS, code |-> rawInstrs]

WriteConstant(c) ==
    [constant |-> c,
     len |-> IF c.tag = CNST_RAW_STR THEN ToImm(Len(c.text)) ELSE 0]
WriteKlass(klass) ==
    <<[nFields |-> klass.nFields]>>
        \o [i \in 1 .. Len(klass.fields) |-> [isObject |-> klass.fields[i]]]
WriteFunction(body) == [function |-> body]

Map(Op(_), s) == [i \in 1 .. Len(s) |-> Op(s[i])]

File ==
    Count(Len(pool)) \o Map(WriteConstant, pool)
        \o Count(Len(klasses)) \o FlattenSeq(Map(WriteKlass, klasses))
        \o Count(Len(functions) + 1)
        \o Map(WriteFunction, <<MainFunc>> \o functions)
=============================================================================
