------------------------------ MODULE Encoding ------------------------------
(***************************************************************************)
(* Instructions as words (instr2Raw.cpp) and back (decoder.cpp).  A word   *)
(* is an opcode byte, then a register byte, then either two more register  *)
(* bytes or one immidiate of two bytes.                                    *)
(***************************************************************************)
EXTENDS Integers

CONSTANTS
    ByteSize,    \* 256: values of a byte
    Call         \* an opcode, the one that names a function

ASSUME ByteAssumption == ByteSize \in Nat \ {0, 1}

ImmSize == ByteSize * ByteSize
Byte == 0 .. ByteSize - 1
Imm == 0 .. ImmSize - 1

ToImm(n) == n % ImmSize

(* The formats N, I, RI and RR; R is RR with a second register 0.  The     *)
(* fields occupy different bits, so that the code's | is a sum.            *)
RawN(op) == op
RawI(op, imm) == op + ImmSize * imm
RawRI(op, r1, imm) == op + ByteSize * r1 + ImmSize * imm
RawRR(op, r1, r2) == op + ByteSize * r1 + ImmSize * r2

Parse(word) ==
    [operation |-> word % ByteSize,
     immidiate |-> (word \div ImmSize) % ImmSize,
     r1 |-> (word \div ByteSize) % ByteSize,
     r2 |-> (word \div ImmSize) % ByteSize]
=============================================================================
