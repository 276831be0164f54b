----------------------------- MODULE Primitives -----------------------------
(***************************************************************************)
(* Arithmetic and arrays of primitives.  A program computes with words in  *)
(* an accumulator and registers.  An array of i64 or f64 is a raw address  *)
(* in the buffer of primitives, a LinearBuffer which no one gives anything *)
(* back to: element accesses scale an index and add it to whatever word is *)
(* in the accumulator, and neither is looked at.  The program is any       *)
(* sequence of these instructions.                                         *)
(*                                                                         *)
(* Memory is kept as words, the mark counts words, and addresses count     *)
(* bytes: an address between two words reaches the end of one and the      *)
(* beginning of the next, lower bytes first.  f64 handlers, which move the *)
(* same bits, do what the i64 ones do.                                     *)
(***************************************************************************)
EXTENDS Arithmetic, LinearBuffer

CONSTANTS
    ByteSize,     \* 256: a word has WordBytes bytes
    Origin,       \* address of the buffer
    RegisterId,   \* registers of the function
    Literal,      \* constants of the pool
    MaxArrays     \* bound: arrays of all runs

(* What byte d of a word counts.                                           *)
Weight(d) == ByteSize ^ d

ASSUME BytesAssumption ==
    /\ Weight(0) = 1
    /\ \A d \in 0 .. WordBytes :
          /\ Weight(d) \in Nat \ {0}
          /\ Weight(d) * Weight(WordBytes - d) = WordSize

ASSUME PrimitivesAssumption ==
    /\ Origin \in Nat \ {0}
    /\ Origin + WordBytes * Size <= Half      \* positive as int64_t
    /\ Literal \subseteq Word
    /\ ElemSize = {1}
    /\ Count = 0 .. Half - 1

VARIABLES
    acc, registers,
    memory,       \* cells of the buffer
    mode

primVars == <<offset, live, acc, registers, memory, mode>>

Mode == {"idle", "running", "threw", "trapped", "aborted", "undefined"}
Cells == 0 .. Size - 1

PrimTypeOK ==
    /\ offset \in 0 .. Size
    /\ live \in Seq([base : 0 .. Size, size : 0 .. Size])
    /\ acc \in Word
    /\ registers \in [RegisterId -> Word]
    /\ memory \in [Cells -> Word]
    /\ mode \in Mode

(* acc_ and the buffer are not initialized; what is in the buffer does not *)
(* matter before a handler has written there.                              *)
PrimInit ==
    /\ Init
    /\ acc \in Word
    /\ registers = [r \in RegisterId |-> 0]
    /\ memory = [c \in Cells |-> WordSize - 1]
    /\ mode = "idle"

(* run(), by this executor or by a new one over the same buffer, which is  *)
(* what is left to do after an exception.                                  *)

(* Mutation: a run empties the buffer.                                     *)
RunAfresh ==
    /\ mode \in {"idle", "threw"}
    /\ mode' = "running"
    /\ registers' = [r \in RegisterId |-> 0]
    /\ acc' \in IF mode = "idle" THEN {acc} ELSE Word
    /\ offset' = 0 /\ live' = <<>>
    /\ UNCHANGED memory

Run ==
    /\ mode \in {"idle", "threw"}
    /\ mode' = "running"
    /\ registers' = [r \in RegisterId |-> 0]
    /\ acc' \in IF mode = "idle" THEN {acc} ELSE Word
    /\ UNCHANGED <<offset, live, memory>>

Ret ==
    /\ mode' = "idle"
    /\ UNCHANGED <<offset, live, acc, registers, memory>>

-----------------------------------------------------------------------------
Stops(how) ==
    /\ mode' = how
    /\ UNCHANGED <<offset, live, acc, registers, memory>>

SetAcc(w) ==
    /\ acc' = w
    /\ UNCHANGED <<offset, live, registers, memory, mode>>

(* A second operand is a register or a constant.                           *)
Operand == {registers[r] : r \in RegisterId} \cup Literal

Ldia(w) == SetAcc(w)
Ldra(r) == SetAcc(registers[r])
Star(r) ==
    /\ registers' = [registers EXCEPT ![r] = acc]
    /\ UNCHANGED <<offset, live, acc, memory, mode>>
Mov(r, s) ==
    /\ registers' = [registers EXCEPT ![s] = registers[r]]
    /\ UNCHANGED <<offset, live, acc, memory, mode>>

Linear(b) ==
    \/ SetAcc(Add(acc, b))
    \/ SetAcc(Sub(acc, b))
    \/ SetAcc(Mul(acc, b))

Division(b) ==
    \/ ~DivTraps(acc, b) /\ SetAcc(Div(acc, b))
    \/ ~DivTraps(acc, b) /\ SetAcc(Mod(acc, b))
    \/ DivTraps(acc, b) /\ Stops("trapped")

-----------------------------------------------------------------------------
(* The assertion on the length comes after the allocator is made, before   *)
(* anything is allocated.                                                  *)

(* Mutation: the elements are not zeroed.                                  *)
NewArrayUncleared ==
    LET n == Signed(acc) IN
    \/ n < 0 /\ Stops("aborted")
    \/ n > Size - offset /\ Stops("threw")
    \/ /\ n \in Count
       /\ Allocate(1, n)
       /\ acc' = Origin + WordBytes * offset
       /\ UNCHANGED <<registers, memory, mode>>

NewArray ==
    LET n == Signed(acc) IN
    \/ n < 0 /\ Stops("aborted")
    \/ n > Size - offset /\ Stops("threw")
    \/ /\ n \in Count
       /\ Allocate(1, n)
       /\ memory' = [c \in Cells |->
                        IF c \in offset .. offset + n - 1 THEN 0 ELSE memory[c]]
       /\ acc' = Origin + WordBytes * offset
       /\ UNCHANGED <<registers, mode>>

(* arr[i], where arr is the word in the accumulator: its place in the      *)
(* buffer, in bytes.                                                       *)

(* Mutation: the first element is counted as the length.                   *)
PlaceAfterLength(r) == Unsigned(acc + WordBytes * (registers[r] + 1)) - Origin

Place(r) == Unsigned(acc + WordBytes * registers[r]) - Origin

InBuffer(at) == at \in 0 .. WordBytes * (Size - 1)

(* Place at is d bytes into cell c.                                        *)
LoadFrom(at) ==
    LET c == at \div WordBytes
        d == at % WordBytes
    IN  IF d = 0 THEN memory[c]
        ELSE (memory[c] \div Weight(d))
                + (memory[c + 1] % Weight(d)) * Weight(WordBytes - d)

StoreTo(at, w) ==
    LET c == at \div WordBytes
        d == at % WordBytes
        low == w % Weight(WordBytes - d)
        high == w \div Weight(WordBytes - d)
    IN  memory' = [x \in Cells |->
            CASE x = c     -> (memory[x] % Weight(d)) + low * Weight(d)
              [] x = c + 1 -> memory[x] - (memory[x] % Weight(d)) + high
              [] OTHER     -> memory[x]]

GetElement(r) ==
    \/ InBuffer(Place(r)) /\ SetAcc(LoadFrom(Place(r)))
    \/ ~InBuffer(Place(r)) /\ Stops("undefined")

SetElement(r, s) ==
    \/ /\ InBuffer(Place(r))
       /\ StoreTo(Place(r), registers[s])
       /\ UNCHANGED <<offset, live, acc, registers, mode>>
    \/ ~InBuffer(Place(r)) /\ Stops("undefined")

Execute ==
    \/ Ret
    \/ \E w \in Literal : Ldia(w)
    \/ \E r \in RegisterId : Ldra(r) \/ Star(r) \/ GetElement(r)
    \/ \E b \in Operand : Linear(b) \/ Division(b)
    \/ Len(live) < MaxArrays /\ NewArray
    \/ \E r, s \in RegisterId : Mov(r, s) \/ SetElement(r, s)

PrimNext ==
    \/ Run
    \/ mode = "running" /\ Execute

PrimSpec == PrimInit /\ [][PrimNext]_primVars

-----------------------------------------------------------------------------
(* Arrays of primitives implement the store of arrays: a new array is all  *)
(* zeros even where a stray store hit the free part of the buffer before,  *)
(* and nothing but a store changes an element, one or, from an address     *)
(* between two words, two next to each other (executor.cpp:388-436).       *)
contents ==
    [k \in 1 .. Len(live) |->
        [i \in 0 .. live[k].size - 1 |-> memory[live[k].base + i]]]

Arrays == INSTANCE ArrayStore
             WITH arrays <- contents, Length <- Count, Element <- Word

ImplementsArrayStore == Arrays!Spec

(* An access with the reference of an array and an index inside it is one  *)
(* of that element and no other: it is never undefined, a load gives what  *)
(* the array holds, a store changes there (executor.cpp:398-412).          *)
Refers(k) == acc = Origin + WordBytes * live[k].base

ElementIsReached ==
    [][\A k \in 1 .. Len(live), r, s \in RegisterId :
          LET i == registers[r] IN
          mode = "running" /\ Refers(k) /\ i < live[k].size =>
             /\ GetElement(r) => acc' = contents[k][i] /\ mode' = "running"
             /\ SetElement(r, s) =>
                   contents' = [contents EXCEPT ![k] = [@ EXCEPT ![i] = registers[s]]]]_primVars

(* A length for which there is no room is refused for ever, whatever the   *)
(* program drops and however often it is run (executor.cpp:391-393,        *)
(* linear-allocator.hpp:19-30).                                            *)
ExhaustionIsForEver ==
    [][\A n \in Count : n > Size - offset => n > (Size - offset)']_primVars

(* Division is that of int64_t, towards zero: quotient and remainder give  *)
(* the dividend back, the remainder is less than the divisor and has the   *)
(* dividend's sign (executor.cpp:137-168).                                 *)
DivisionIsSigned ==
    \A b \in Operand :
        LET m == Signed(acc)
            n == Signed(b)
            rest == Signed(Mod(acc, b))
        IN  ~DivTraps(acc, b) =>
               /\ m = Signed(Div(acc, b)) * n + rest
               /\ Magnitude(rest) < Magnitude(n)
               /\ rest # 0 => (rest < 0) = (m < 0)

(* ISA.md:39, on If_icmpgt: "i64, if getAcc > r1 then branch to            *)
(* instruction at offset(instructions) imm".  The handlers compare words:  *)
(* a negative accumulator is greater than every positive register          *)
(* (executor.cpp:297-332).                                                 *)
IcmpIsSigned ==
    mode = "running" => \A r \in RegisterId :
        Greater(acc, registers[r]) <=> Signed(acc) > Signed(registers[r])

(* For an array of references whose length is in the accumulator, the size *)
(* the code computes is room for the length and the elements exactly up to *)
(* the longest array a word can measure: every greater length, negative    *)
(* ones included, gets the block of a shorter array (executor.cpp:439-451, *)
(* objects.hpp:156-158).                                                   *)
LongestArray == (WordSize - 1 - BytesOf(0)) \div WordBytes

RefArrayFits ==
    LET fits == SizeOfObjectArray(acc) >= BytesOf(acc) IN
    /\ fits <=> acc <= LongestArray
    /\ fits => SizeOfObjectArray(acc) = BytesOf(acc)
=============================================================================
