---------------------------- MODULE MCFrameStack ----------------------------
(* A main with more registers than a Frame has words, so that it can fail  *)
(* twice, and functions with two registers and none.                       *)
EXTENDS FrameStack

CONSTANTS main, foo, bar

MCNumRegs == [f \in Func |-> IF f = main THEN 3 ELSE IF f = foo THEN 2 ELSE 0]
=============================================================================
