--------------------------- MODULE FunctionTable ---------------------------
(***************************************************************************)
(* What the code manager and the executor share: the functions of the      *)
(* loaded program (code-manager.hpp, func-struct.hpp).  The first is main. *)
(***************************************************************************)
EXTENDS Encoding, Sequences

VARIABLE funcs     \* CodeManager::funcs_

Function == [numRegs : Nat, numArgs : Nat, code : Seq(Nat)]

Code(f) == funcs[f].code
=============================================================================
