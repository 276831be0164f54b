--------------------------- MODULE MCInterpreter ---------------------------
(* Small values for the constants of Interpreter.                          *)
EXTENDS Interpreter

CONSTANTS a1, a2, a3, main, foo

(* An object and an array can be shared, nested and cyclic with one field; *)
(* foo gets the one register of its caller.                                *)
MCKlasses == <<<<TRUE>>>>
MCNumRegs == [f \in Func |-> 1]
MCNumArgs == [f \in Func |-> IF f = Main THEN 0 ELSE 1]
=============================================================================
