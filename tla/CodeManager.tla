---------------------------- MODULE CodeManager ----------------------------
(***************************************************************************)
(* The code manager: it loads a file (code-manager.cpp) into klasses,      *)
(* functions, a pool of 64-bit constants and a pool of strings, and then   *)
(* serves a program, which loads constants and makes strings of strings    *)
(* (string handlers of executor.cpp).  One file is built, written, loaded  *)
(* and run; the program has an accumulator and one register.               *)
(*                                                                         *)
(* The loader knows where it is only by counting.  If an item is not what  *)
(* it expects, it reads bytes of something else: it has misread the file,  *)
(* and what follows means nothing.                                         *)
(***************************************************************************)
EXTENDS ChaiFile, FunctionTable

CONSTANTS
    NUL,              \* the character that ends a C string
    MaxMade,          \* bound: constants made by the running program
    MaxText           \* bound: characters of a string made at run time

VARIABLES
    istream,          \* what is left to read
    left,             \* iterations left in the current loop
    stage,            \* where load() or run() is
    constantPool, stringPool, loadedKlasses,
    acc, reg          \* of the running program

loaded == <<constantPool, stringPool, loadedKlasses, funcs>>
vars == <<builder, told, istream, left, stage, loaded, acc, reg>>

Stage == {"building", "pool", "klasses", "functions", "running",
          "misread", "aborted", "threw", "undefined"}

TypeOK ==
    /\ \A p \in constantOf : p[1] \in Nat /\ p[2] \in Constant
    /\ stage \in Stage /\ left \in Imm
    /\ constantPool \in Seq(Nat)
    /\ \A i \in 1 .. Len(funcs) :
          funcs[i].numRegs \in Byte /\ funcs[i].numArgs \in Byte
    /\ acc \in Nat /\ reg \in Nat

-----------------------------------------------------------------------------
(* Loading.                                                                *)

Expect(field) == istream # <<>> /\ field \in DOMAIN Head(istream)

Misread ==
    /\ stage' = "misread"
    /\ UNCHANGED <<builder, told, istream, left, loaded, acc, reg>>

(* A count starts the loop whose stage is next.                            *)
ReadCount(next) ==
    IF Expect("count")
    THEN /\ left' = Head(istream).count
         /\ istream' = Tail(istream)
         /\ stage' = next
         /\ UNCHANGED <<builder, told, loaded, acc, reg>>
    ELSE Misread

(* toFile(), then load() from that path.                                   *)
WriteAndOpen ==
    /\ stage = "building"
    /\ istream' = Tail(File)
    /\ left' = Head(File).count
    /\ stage' = "pool"
    /\ UNCHANGED <<builder, told, loaded, acc, reg>>

Read ==
    /\ left' = left - 1
    /\ istream' = Tail(istream)
    /\ UNCHANGED <<builder, told, stage, acc, reg>>

(* A loaded string ends at its first NUL.                                  *)
NulFree(t) == \A i \in 1 .. Len(t) : t[i] # NUL
CString(t) ==
    IF NulFree(t) THEN t
    ELSE SubSeq(t, 1, SelectInSeq(t, LAMBDA ch : ch = NUL) - 1)

Packed(c) == c.tag * ImmSize * ImmSize + c.name * ImmSize + c.descriptor

LoadConstant ==
    /\ stage = "pool" /\ left > 0
    /\ IF Expect("constant") THEN
          LET c == Head(istream).constant IN
          \/ /\ c.tag \in {CNST_I64, CNST_F64}
             /\ constantPool' = Append(constantPool, c.data)
             /\ UNCHANGED stringPool
             /\ Read /\ UNCHANGED <<loadedKlasses, funcs>>
          \/ /\ c.tag = CNST_FUNC_NAME_AND_TYPE
             /\ constantPool' = Append(constantPool, Packed(c))
             /\ UNCHANGED stringPool
             /\ Read /\ UNCHANGED <<loadedKlasses, funcs>>
          \/ /\ c.tag = CNST_RAW_STR /\ Head(istream).len = Len(c.text)
             /\ stringPool' = Append(stringPool, CString(c.text))
             /\ constantPool' = Append(constantPool, Len(stringPool') - 1)
             /\ Read /\ UNCHANGED <<loadedKlasses, funcs>>
          \/ /\ c.tag = CNST_RAW_STR /\ Head(istream).len # Len(c.text)
             /\ Misread
       ELSE Misread

EndPool == stage = "pool" /\ left = 0 /\ ReadCount("klasses")

LoadKlass ==
    /\ stage = "klasses" /\ left > 0
    /\ LET n == IF Expect("nFields") THEN Head(istream).nFields ELSE 0
           isField(i) == i <= Len(istream) /\ "isObject" \in DOMAIN istream[i]
       IN  IF Expect("nFields") /\ \A i \in 2 .. n + 1 : isField(i)
           THEN /\ loadedKlasses' = Append(loadedKlasses,
                      [i \in 1 .. n |-> istream[i + 1].isObject])
                /\ istream' = SubSeq(istream, n + 2, Len(istream))
                /\ left' = left - 1
                /\ UNCHANGED <<builder, told, stage, constantPool, stringPool,
                               funcs, acc, reg>>
           ELSE Misread

EndKlasses == stage = "klasses" /\ left = 0 /\ ReadCount("functions")

LoadFunction ==
    /\ stage = "functions" /\ left > 0
    /\ IF Expect("function")
       THEN /\ funcs' = Append(funcs, Head(istream).function)
            /\ Read /\ UNCHANGED <<constantPool, stringPool, loadedKlasses>>
       ELSE Misread

(* run() asserts that there is a function to start with; what is left in   *)
(* the file is not looked at.                                              *)
EndFunctions ==
    /\ stage = "functions" /\ left = 0
    /\ stage' = IF funcs = <<>> THEN "aborted" ELSE "running"
    /\ UNCHANGED <<builder, told, istream, left, loaded, acc, reg>>

Load ==
    LoadConstant \/ EndPool \/ LoadKlass \/ EndKlasses \/ LoadFunction \/ EndFunctions

-----------------------------------------------------------------------------
(* The running program.                                                    *)

Running == stage = "running"
Ends(s) == stage' = s /\ UNCHANGED <<acc, loaded>>
Continue == UNCHANGED stage

(* getCnst(): pools are indexed from 0.                                    *)
HasCnst(id) == id < Len(constantPool)
GetCnst(id) == constantPool[id + 1]
IsString(v) == v < Len(stringPool)
String(v) == stringPool[v + 1]

(* addCnstString(), then getCnst() of the id it returns, an Immidiate.     *)

(* Mutation: the place in the pool of strings is taken for an id.          *)
MakeStringAtPosition(t) ==
    /\ constantPool' = Append(constantPool, Len(stringPool))
    /\ stringPool' = Append(stringPool, t)
    /\ acc' = constantPool'[ToImm(Len(stringPool') - 1) + 1]
    /\ UNCHANGED <<loadedKlasses, funcs>>
(* Mutation: the next string takes the place of the last one.              *)
MakeStringInPlace(t) ==
    /\ constantPool' = Append(constantPool, Len(stringPool) - 1)
    /\ stringPool' = [stringPool EXCEPT ![Len(stringPool)] = t]
    /\ acc' = constantPool'[ToImm(Len(constantPool') - 1) + 1]
    /\ UNCHANGED <<loadedKlasses, funcs>>

MakeString(t) ==
    /\ constantPool' = Append(constantPool, Len(stringPool))
    /\ stringPool' = Append(stringPool, t)
    /\ acc' = constantPool'[ToImm(Len(constantPool') - 1) + 1]
    /\ UNCHANGED <<loadedKlasses, funcs>>

ExecLdia(id) ==
    \/ HasCnst(id) /\ acc' = GetCnst(id) /\ Continue /\ UNCHANGED loaded
    \/ ~HasCnst(id) /\ Ends("aborted")

StringLen ==
    \/ IsString(acc) /\ acc' = Len(String(acc)) /\ Continue /\ UNCHANGED loaded
    \/ ~IsString(acc) /\ Ends("undefined")

StringConcat ==
    \/ /\ IsString(acc) /\ IsString(reg)
       /\ MakeString(String(acc) \o String(reg))
       /\ Continue
    \/ ~(IsString(acc) /\ IsString(reg)) /\ Ends("undefined")

(* substr(from, to - from) on unsigned words: a start beyond the end       *)
(* throws, an end before the start means all the rest.                     *)
StringSlice(from, to) ==
    LET n == Len(String(acc))
        last == IF to < from \/ to > n THEN n ELSE to
    IN  \/ /\ IsString(acc) /\ from <= n
           /\ MakeString(SubSeq(String(acc), from + 1, last))
           /\ Continue
        \/ IsString(acc) /\ from > n /\ Ends("threw")
        \/ ~IsString(acc) /\ Ends("undefined")

Room(n) == Len(constantPool) < Len(pool) + MaxMade /\ n <= MaxText

Execute ==
    /\ Running
    /\ \/ \E id \in Imm : ExecLdia(id) /\ UNCHANGED reg
       \/ StringLen /\ UNCHANGED reg
       \/ /\ IsString(acc) /\ IsString(reg)
               => Room(Len(String(acc)) + Len(String(reg)))
          /\ StringConcat /\ UNCHANGED reg
       \/ /\ Room(0)
          /\ \E from, to \in 0 .. MaxText + 1 : StringSlice(from, to)
          /\ UNCHANGED reg
       \/ reg' = acc /\ Continue /\ UNCHANGED <<acc, loaded>>
    /\ UNCHANGED <<builder, told, istream, left>>

-----------------------------------------------------------------------------
LoaderInit ==
    /\ Init
    /\ istream = <<>> /\ left = 0 /\ stage = "building"
    /\ constantPool = <<>> /\ stringPool = <<>>
    /\ loadedKlasses = <<>> /\ funcs = <<>>
    /\ acc = 0 /\ reg = 0

BuildAndLoad ==
    \/ /\ stage = "building" /\ Build
       /\ UNCHANGED <<istream, left, stage, loaded, acc, reg>>
    \/ WriteAndOpen \/ Load

Next == BuildAndLoad \/ Execute

Spec == LoaderInit /\ [][Next]_vars

-----------------------------------------------------------------------------
(* What a file can hold: one constant less than an id can name, because    *)
(* their number is written at the width of an id; likewise the rest.       *)
WithinLimits ==
    /\ Len(pool) < ImmSize
    /\ Len(klasses) < ImmSize /\ Len(functions) + 1 < ImmSize
    /\ \A k \in 1 .. Len(klasses) : Len(klasses[k].fields) < ByteSize
    /\ \A i \in 1 .. Len(pool) :
          pool[i].tag = CNST_RAW_STR => Len(pool[i].text) < ImmSize

(* The loader reads back what the builder wrote (chai-file.cpp:105-154,    *)
(* code-manager.cpp:11-28): within the limits the two never lose step, up  *)
(* to the last constant, field or character that fits.                     *)
ReadsWhatIsWritten == stage = "misread" => ~WithinLimits

Represents(v, c) ==
    \/ c.tag \in {CNST_I64, CNST_F64} /\ v = c.data
    \/ c.tag = CNST_RAW_STR /\ (NulFree(c.text) => IsString(v) /\ String(v) = c.text)

(* An instruction built with a constant loads that constant                *)
(* (chai-file.cpp:32-58, executor.cpp:85-89) however many functions,       *)
(* klasses and fields were added before and after it, and whatever strings *)
(* the program has made since.                                             *)
ConstantsAsTold ==
    Running /\ WithinLimits =>
        \A p \in constantOf :
            LET id == Parse(p[1]).immidiate
            IN  HasCnst(id) /\ Represents(GetCnst(id), p[2])

(* The id nextFunc() promises and addFunction() returns calls the function *)
(* it was given for, main being function 0 (chai-file.cpp:60-87,           *)
(* code-manager.cpp:110-136); the calls inside are of the function itself. *)
FunctionsAsTold ==
    Running /\ WithinLimits =>
        /\ funcs[1].code = rawInstrs
        /\ \A p \in bodyOf :
              /\ p[1] + 1 \in DOMAIN funcs /\ funcs[p[1] + 1] = p[2]
              /\ \A i \in 1 .. Len(p[2].code) :
                    LET ins == Parse(p[2].code[i])
                    IN  ins.operation = Call => ins.immidiate = p[1]

(* The offset addField() returns is that of the field in the loaded klass  *)
(* (klass-info.cpp:5-9, code-manager.cpp:76-100), which decides what the   *)
(* collector follows.                                                      *)
FieldsAsTold ==
    Running /\ WithinLimits =>
        \A p \in fieldAt :
            /\ p[1] \in DOMAIN loadedKlasses
            /\ p[2] + 1 \in DOMAIN loadedKlasses[p[1]]
            /\ loadedKlasses[p[1]][p[2] + 1] = p[3]

ConcatMade ==
    /\ stringPool'[acc' + 1] = String(acc) \o String(reg)
    /\ acc' \notin 0 .. Len(stringPool) - 1

(* ISA.md:60 on StringConcat: "Create new String, concatenating String in  *)
(* getAcc and String in r1.  Result in getAcc."  addCnst() returns the     *)
(* index of what it added in an Immidiate (code-manager.cpp:151-155), so   *)
(* the string past the last id is made, and another is put in getAcc.      *)
ConcatInAcc == [][Running /\ StringConcat /\ stage' = "running" => ConcatMade]_vars

(* What the code does keep of it: the result is in getAcc, and no earlier  *)
(* string gave way to it, as long as there is an id left                   *)
(* (executor.cpp:485-494, code-manager.cpp:138-155).                       *)
ConcatWhileIdsLast ==
    [][Running /\ StringConcat /\ stage' = "running" /\ Len(constantPool) < ImmSize
         => ConcatMade]_vars
=============================================================================
