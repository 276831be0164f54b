----------------------------- MODULE Arithmetic -----------------------------
(***************************************************************************)
(* Integers as the interpreter computes them: a register is an unsigned    *)
(* word (chsize_t), which some handlers convert to int64_t and others do   *)
(* not (executor.cpp:101-168, 278-332; objects.hpp:156-158).               *)
(***************************************************************************)
EXTENDS Integers

CONSTANT Half     \* 2^63: words from Half on are negative as int64_t

ASSUME HalfAssumption == Half \in Nat \ {0}

WordSize == 2 * Half
Word == 0 .. WordSize - 1

Signed(w) == IF w < Half THEN w ELSE w - WordSize
Unsigned(n) == n % WordSize

-----------------------------------------------------------------------------
(* Add, Sub and Mul stay on unsigned words.                                *)

(* Mutation: a difference below zero is not wrapped.                       *)
SubUnwrapped(a, b) == a - b

Add(a, b) == Unsigned(a + b)
Sub(a, b) == Unsigned(a - b)
Mul(a, b) == Unsigned(a * b)

(* Div and Mod convert.  C++ rounds the quotient towards zero, and has no  *)
(* quotient for a zero divisor or the smallest integer over -1.            *)
Magnitude(n) == IF n < 0 THEN -n ELSE n
Quotient(m, n) ==
    LET q == Magnitude(m) \div Magnitude(n)
    IN  IF (m < 0) = (n < 0) THEN q ELSE -q

DivTraps(a, b) == b = 0 \/ (Signed(a) = -Half /\ Signed(b) = -1)

(* Mutation: the operands are not converted.                               *)
ModUnconverted(a, b) == Unsigned(a - b * Quotient(a, b))

Div(a, b) == Unsigned(Quotient(Signed(a), Signed(b)))
Mod(a, b) == Unsigned(Signed(a) - Signed(b) * Quotient(Signed(a), Signed(b)))

(* If_icmpgt and its like compare unsigned words.                          *)
Greater(a, b) == a > b

-----------------------------------------------------------------------------
(* sizeOfObjectArray(): a header of two words, the length, the elements.   *)
(* In words of WordBytes bytes; the product wraps.                         *)
CONSTANT WordBytes     \* sizeof(chsize_t)

ASSUME WordBytesAssumption == WordBytes \in Nat \ {0}

HeaderBytes == 2 * WordBytes
BytesOf(len) == HeaderBytes + (1 + len) * WordBytes

(* Mutation: no place for the member that holds the length.                *)
SizeWithoutLength(len) == Unsigned(HeaderBytes + len * WordBytes)

SizeOfObjectArray(len) == Unsigned(BytesOf(Signed(len)))
=============================================================================
