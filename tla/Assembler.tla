----------------------------- MODULE Assembler -----------------------------
(***************************************************************************)
(* The assembler (assembler.hpp) over a stream of lexemes (asmlex.hpp): it *)
(* reads the text twice, once for the names of functions and once for the  *)
(* code, builds a ChaiFile, and writes it for the code manager to load.    *)
(***************************************************************************)
EXTENDS CodeManager

CONSTANTS
    Source,          \* texts, as sequences of lexemes
    Mnemonic,        \* OP_TO_STR and OP_TO_FORMAT: [name -> [op, format]],
                     \* without Inv, which is refused like an unknown name
    FromPool,        \* operations whose handlers look their immediate up in
                     \* the pool: getCnst(ins.immidiate)
    RegisterNumber,  \* std::stoi of what follows the r, for names with one
    WordSize         \* 2^64: patterns of 64 bits

LexemType == {"INTEGER", "FLOAT", "IDENTIFIER", "FUNC", "STRING",
              "OPEN", "CLOSE", "COMMA", "EOF", "UNKNOWN"}

(* The value of an integer is a number, that of a float its 64 bits.       *)
LexemeOK(lexeme) ==
    /\ lexeme.type \in LexemType \ {"EOF"}
    /\ lexeme.type = "INTEGER" => lexeme.value \in Int
    /\ lexeme.type = "FLOAT" => lexeme.value \in Nat
    /\ lexeme.type = "STRING" => lexeme.value \in Seq(Range(lexeme.value))

ASSUME AssemblerAssumption ==
    /\ \A text \in Source :
          /\ text \in Seq(Range(text))
          /\ \A i \in DOMAIN text : LexemeOK(text[i])
    /\ \A name \in DOMAIN Mnemonic :
          /\ Mnemonic[name].op \in Byte
          /\ Mnemonic[name].format \in {"N", "R", "RR", "I", "RI"}
          /\ Mnemonic[name].op = Call => Mnemonic[name].format = "I"
    /\ FromPool \subseteq Byte \ {Call}
    /\ \A name \in DOMAIN RegisterNumber : RegisterNumber[name] \in Nat
    /\ WordSize \in Nat \ {0}

VARIABLES
    source,     \* inputFile_
    pos,        \* place of currentLexem_ in it
    asm,        \* where assemble() is
    ids,        \* funcsIdByName_
    header      \* name, registers and arguments of the current function

(* History: what was written, function by function, and their names.       *)
VARIABLES meantMain, meantBodies, meant, names

asmVars == <<source, pos, asm, ids, header, meantMain, meantBodies, meant, names>>

Phase == {"collect", "main", "top", "body", "write", "written",
          "error", "undefined"}

-----------------------------------------------------------------------------
(* At the end of the text the lexer answers EOF again and again.           *)
EndOfFile == [type |-> "EOF"]
Lexeme(i) == IF i <= Len(source) THEN source[i] ELSE EndOfFile

Is(i, type) == Lexeme(i).type = type
Named(i, set) == Is(i, "IDENTIFIER") /\ Lexeme(i).value \in set

(* collectFunstions(), where a name keeps the id of its first function, and *)
(* the first lexeme of processMain().                                      *)
FuncAt == {i \in 1 .. Len(source) : Is(i, "FUNC")}
NamesFunction(n) == {i \in FuncAt : Lexeme(i + 1).value = n}
Declared == {Lexeme(i + 1).value : i \in FuncAt}
FirstOf(n) == CHOOSE i \in NamesFunction(n) : \A j \in NamesFunction(n) : i <= j

(* Mutation: a name takes the id of its last function.                     *)
CollectLast ==
    LET LastOf(n) == CHOOSE i \in NamesFunction(n) :
                        \A j \in NamesFunction(n) : j <= i
    IN  /\ asm = "collect"
        /\ \A i \in FuncAt : Is(i + 1, "IDENTIFIER")
        /\ ids' = [n \in Declared |->
                      ToImm(Cardinality({i \in FuncAt : i <= LastOf(n)}))]
        /\ asm' = "main" /\ pos' = 1
        /\ UNCHANGED <<source, header, meantMain, meantBodies, meant, names>>

Collect ==
    /\ asm = "collect"
    /\ IF \A i \in FuncAt : Is(i + 1, "IDENTIFIER")
       THEN /\ ids' = [n \in Declared |->
                          ToImm(Cardinality({i \in FuncAt : i <= FirstOf(n)}))]
            /\ pos' = 1
            /\ asm' = IF Is(1, "UNKNOWN") THEN "error" ELSE "main"
       ELSE asm' = "error" /\ UNCHANGED <<ids, pos>>
    /\ UNCHANGED <<source, header, meantMain, meantBodies, meant, names>>

-----------------------------------------------------------------------------
(* Operands of the instruction whose mnemonic is the current lexeme.       *)
Op == Mnemonic[Lexeme(pos).value].op
Format == Mnemonic[Lexeme(pos).value].format

IsRegister(i) == Named(i, DOMAIN RegisterNumber)
IsConstant(i) == Lexeme(i).type \in {"INTEGER", "FLOAT", "STRING"}

(* regNameToRegId() narrows the number to a byte.                          *)
ToByte(n) == n % ByteSize
RegisterAt(i) == ToByte(RegisterNumber[Lexeme(i).value])

ConstantOf(lexeme) ==
    CASE lexeme.type = "INTEGER" -> ConstNumber(CNST_I64, lexeme.value % WordSize)
      [] lexeme.type = "FLOAT"   -> ConstNumber(CNST_F64, lexeme.value)
      [] lexeme.type = "STRING"  -> ConstRawStr(lexeme.value)

FollowedBy(format) ==
    CASE format = "N"  -> 0
      [] format = "I"  -> 1
      [] format = "R"  -> 1
      [] format = "RR" -> 3
      [] format = "RI" -> 3

OperandsFit ==
    IF Op = Call THEN Is(pos + 1, "IDENTIFIER")
    ELSE CASE Format = "N"  -> TRUE
           [] Format = "R"  -> IsRegister(pos + 1)
           [] Format = "RR" -> /\ IsRegister(pos + 1) /\ Is(pos + 2, "COMMA")
                               /\ IsRegister(pos + 3)
           [] Format = "I"  -> IsConstant(pos + 1)
           [] Format = "RI" -> /\ IsRegister(pos + 1) /\ Is(pos + 2, "COMMA")
                               /\ Is(pos + 3, "INTEGER")

(* Looking an undefined function up defines it as 0, which is main.        *)

(* Mutation: it is given the id of a function to come.                     *)
CalleeIdToCome ==
    IF Lexeme(pos + 1).value \in DOMAIN ids THEN ids[Lexeme(pos + 1).value]
    ELSE Cardinality(FuncAt) + 1

CalleeId ==
    IF Lexeme(pos + 1).value \in DOMAIN ids THEN ids[Lexeme(pos + 1).value] ELSE 0

(* Every operand of a format I is a constant, a jump's or a field's too.   *)

(* Mutation: the operands of RR are swapped.                               *)
WordSwapped ==
    IF Op = Call THEN RawRI(Op, ToByte(CalleeId), CalleeId)
    ELSE CASE Format = "N"  -> RawN(Op)
           [] Format = "R"  -> RawRR(Op, RegisterAt(pos + 1), 0)
           [] Format = "RR" -> RawRR(Op, RegisterAt(pos + 3), RegisterAt(pos + 1))
           [] Format = "I"  -> RawI(Op, ConstantId(1))
           [] Format = "RI" ->
                 RawRI(Op, RegisterAt(pos + 1), ToImm(Lexeme(pos + 3).value))

WordOf ==
    IF Op = Call THEN RawRI(Op, ToByte(CalleeId), CalleeId)
    ELSE CASE Format = "N"  -> RawN(Op)
           [] Format = "R"  -> RawRR(Op, RegisterAt(pos + 1), 0)
           [] Format = "RR" -> RawRR(Op, RegisterAt(pos + 1), RegisterAt(pos + 3))
           [] Format = "I"  -> RawI(Op, ConstantId(1))
           [] Format = "RI" ->
                 RawRI(Op, RegisterAt(pos + 1), ToImm(Lexeme(pos + 3).value))

(* What the text says: the lexemes of the instruction.                     *)
Written == SubSeq(source, pos, pos + FollowedBy(Format))

Fails(how) ==
    /\ asm' = how
    /\ UNCHANGED <<builder, source, pos, ids, header,
                   meantMain, meantBodies, meant, names>>

WithCallee(n) ==
    [m \in DOMAIN ids \cup {n} |-> IF m = n THEN CalleeId ELSE ids[m]]

ProcessInstruction ==
    /\ Named(pos, DOMAIN Mnemonic) /\ OperandsFit
    /\ LET takesConstant == Format = "I" /\ Op # Call IN
       pool' = pool \o (IF takesConstant THEN <<ConstantOf(Lexeme(pos + 1))>> ELSE <<>>)
    /\ ids' = IF Op = Call THEN WithCallee(Lexeme(pos + 1).value) ELSE ids
    /\ pos' = pos + FollowedBy(Format) + 1

(* A call without a name after it is a null dynamic_cast.                  *)
InstructionFails ==
    /\ Is(pos, "IDENTIFIER")
    /\ \/ ~Named(pos, DOMAIN Mnemonic) /\ Fails("error")
       \/ /\ Named(pos, DOMAIN Mnemonic) /\ ~OperandsFit
          /\ Fails(IF Op = Call THEN "undefined" ELSE "error")

(* processMain(): as long as there are identifiers.                        *)
MainInstruction ==
    /\ asm = "main" /\ Is(pos, "IDENTIFIER")
    /\ \/ /\ ProcessInstruction
          /\ rawInstrs' = Append(rawInstrs, WordOf)
          /\ meantMain' = Append(meantMain, Written)
          /\ UNCHANGED <<klasses, functions, instrs, source, asm, header,
                         meantBodies, meant, names>>
       \/ InstructionFails

EndMain ==
    /\ asm = "main" /\ ~Is(pos, "IDENTIFIER")
    /\ asm' = "top"
    /\ UNCHANGED <<builder, source, pos, ids, header,
                   meantMain, meantBodies, meant, names>>

(* processFunction(): numbers of registers and arguments are cast to bytes.*)
HeaderAt(i) ==
    /\ Is(i, "FUNC") /\ Is(i + 1, "IDENTIFIER")
    /\ Is(i + 2, "INTEGER") /\ Is(i + 3, "INTEGER") /\ Is(i + 4, "OPEN")

BeginFunction ==
    /\ asm = "top" /\ ~Is(pos, "EOF")
    /\ \/ /\ HeaderAt(pos)
          /\ header' = [name |-> Lexeme(pos + 1).value,
                        regs |-> ToByte(Lexeme(pos + 2).value),
                        args |-> ToByte(Lexeme(pos + 3).value)]
          /\ asm' = "body" /\ pos' = pos + 5
          /\ UNCHANGED <<builder, source, ids, meantMain, meantBodies, meant, names>>
       \/ ~HeaderAt(pos) /\ Fails("error")

(* Mutation: anything but an identifier is skipped.                        *)
BodyInstructionSkipping ==
    /\ asm = "body" /\ ~Is(pos, "CLOSE")
    /\ \/ /\ ProcessInstruction
          /\ instrs' = Append(instrs, WordOf)
          /\ meant' = Append(meant, Written)
          /\ UNCHANGED <<rawInstrs, klasses, functions, source, asm, header,
                         meantMain, meantBodies, names>>
       \/ InstructionFails
       \/ /\ ~Is(pos, "IDENTIFIER")
          /\ pos' = IF Is(pos, "EOF") THEN pos ELSE pos + 1
          /\ UNCHANGED <<builder, source, asm, ids, header,
                         meantMain, meantBodies, meant, names>>

BodyInstruction ==
    /\ asm = "body" /\ ~Is(pos, "CLOSE")
    /\ \/ /\ ProcessInstruction
          /\ instrs' = Append(instrs, WordOf)
          /\ meant' = Append(meant, Written)
          /\ UNCHANGED <<rawInstrs, klasses, functions, source, asm, header,
                         meantMain, meantBodies, names>>
       \/ InstructionFails
       \/ ~Is(pos, "IDENTIFIER") /\ Fails("undefined")

EndFunction ==
    /\ asm = "body" /\ Is(pos, "CLOSE")
    /\ AddFunction(header.regs, header.args, FALSE)
    /\ meantBodies' = Append(meantBodies, meant) /\ meant' = <<>>
    /\ names' = Append(names, header.name)
    /\ asm' = "top" /\ pos' = pos + 1
    /\ UNCHANGED <<source, ids, header, meantMain>>

EndOfText ==
    /\ asm = "top" /\ Is(pos, "EOF")
    /\ asm' = "write"
    /\ UNCHANGED <<builder, source, pos, ids, header,
                   meantMain, meantBodies, meant, names>>

Assemble ==
    /\ \/ Collect /\ UNCHANGED <<builder, told>>
       \/ (MainInstruction \/ EndMain \/ BeginFunction \/ BodyInstruction \/ EndOfText)
             /\ UNCHANGED told
       \/ EndFunction
    /\ UNCHANGED <<istream, left, stage, loaded, acc, reg>>

(* toFile(), then the program loads the file.                              *)

(* Mutation: the file is written before the text has ended.                *)
WriteFileEarly ==
    /\ asm \in {"top", "write"} /\ WriteAndOpen
    /\ UNCHANGED asmVars

WriteFile ==
    /\ asm = "write" /\ WriteAndOpen
    /\ asm' = "written"
    /\ UNCHANGED <<source, pos, ids, header, meantMain, meantBodies, meant, names>>

AssembleAndLoad ==
    \/ Assemble
    \/ WriteFile
    \/ Load /\ UNCHANGED asmVars

AssemblerInit ==
    /\ LoaderInit
    /\ source \in Source
    /\ pos = 0 /\ asm = "collect" /\ ids = <<>>
    /\ header = [name |-> "", regs |-> 0, args |-> 0]
    /\ meantMain = <<>> /\ meantBodies = <<>> /\ meant = <<>> /\ names = <<>>

-----------------------------------------------------------------------------
AssemblerTypeOK ==
    /\ asm \in Phase
    /\ pos \in 0 .. Len(source) + 1
    /\ Len(names) = Len(functions) /\ Len(meantBodies) = Len(functions)
    /\ asm \in {"main", "top", "body", "write"} => stage = "building"

Meant == <<meantMain>> \o meantBodies
MeantName(f) == IF f = 1 THEN "" ELSE names[f - 1]

(* A number fits an immediate read as a signed or as an unsigned one.      *)
Fits(n) == -ImmSize <= 2 * n /\ n < ImmSize
Reads(imm, n) == imm = IF n < 0 THEN n + ImmSize ELSE n

(* An instruction that is loaded decodes to the operation and the operands *)
(* the text has at that place (assembler.hpp:109-208): the registers and   *)
(* the offset, where its field has room for the number, and for a handler  *)
(* that looks its operand up, through the loaded pool, the constant.       *)
IsAsWritten(word, text) ==
    LET ins == Parse(word)
        m == Mnemonic[text[1].value]
        IsReg(r, i) == LET n == RegisterNumber[text[i].value] IN
                       n < ByteSize => r = n
    IN  /\ ins.operation = m.op
        /\ m.format \in {"R", "RR", "RI"} => IsReg(ins.r1, 2)
        /\ m.format = "RR" => IsReg(ins.r2, 4)
        /\ m.format = "RI" /\ Fits(text[4].value) =>
              Reads(ins.immidiate, text[4].value)
        /\ m.format = "I" /\ m.op \in FromPool =>
              /\ HasCnst(ins.immidiate)
              /\ Represents(GetCnst(ins.immidiate), ConstantOf(text[2]))

AssembledAsWritten ==
    Running /\ WithinLimits =>
        /\ Len(funcs) = Len(Meant)
        /\ \A f \in 1 .. Len(funcs) :
              /\ Len(funcs[f].code) = Len(Meant[f])
              /\ \A i \in 1 .. Len(Meant[f]) :
                    IsAsWritten(funcs[f].code[i], Meant[f][i])

(* ISA.md:3 "`imm` is raw value, `[imm]` is value from constant pool by    *)
(* number imm"; ISA.md:48 on Goto, "Goes to another instruction at         *)
(* branchoffset(instructions) imm": an operand that is no constant is the  *)
(* number in the text.                                                     *)
NumbersAreOperands ==
    Running /\ WithinLimits =>
        \A f \in 1 .. Len(funcs) :
            \A i \in 1 .. Len(Meant[f]) :
                LET text == Meant[f][i]
                    m == Mnemonic[text[1].value]
                IN  /\ m.format = "I" /\ m.op \notin FromPool \cup {Call}
                    /\ text[2].type = "INTEGER" /\ Fits(text[2].value)
                    => Reads(Parse(funcs[f].code[i]).immidiate, text[2].value)

(* A call is of the first function of its name, wherever in the text that  *)
(* is, and of main when the text has none (assembler.hpp:30-41, 138-143);  *)
(* never of what is not a function.                                        *)
CallsReachNames ==
    Running /\ WithinLimits =>
        \A f \in 1 .. Len(funcs) :
            \A i \in 1 .. Len(Meant[f]) :
                LET text == Meant[f][i]
                    callee == Parse(funcs[f].code[i]).immidiate + 1
                    named == {g \in 2 .. Len(funcs) : MeantName(g) = text[2].value}
                IN  Mnemonic[text[1].value].op = Call =>
                       callee = IF named = {} THEN 1
                                ELSE CHOOSE g \in named : \A h \in named : g <= h

(* assemble() ends, and load() after it, whatever the text.                *)
AssemblyEnds == <>(asm \in {"error", "undefined"} \/ stage \notin {"building",
                      "pool", "klasses", "functions"})
=============================================================================
