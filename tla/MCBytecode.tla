----------------------------- MODULE MCBytecode -----------------------------
(* Small values for the constants of Bytecode.                             *)
EXTENDS Bytecode, TLC

CONSTANTS a1, a2, main, foo

(* One klass with one object field.                                        *)
MCKlasses == <<<<TRUE>>>>
MCNumRegs == [f \in Func |-> IF f = Main THEN 2 ELSE 1]
MCNumArgs == [f \in Func |-> IF f = Main THEN 0 ELSE 1]

(* As lengths of arrays: one that wraps by its sign, one by its size.      *)
MCScalar == {-1, 0, 1, 15}

AddrSymmetry == Permutations(Addr)
=============================================================================
