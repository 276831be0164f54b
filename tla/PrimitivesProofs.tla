-------------------------- MODULE PrimitivesProofs --------------------------
(***************************************************************************)
(* For every buffer, every element size and every request, clients that    *)
(* give blocks back last in, first out never share memory.  For every      *)
(* width of a word and every program besides, arrays of primitives are a   *)
(* store of arrays, room is never given back, and arithmetic stays within  *)
(* words.                                                                  *)
(***************************************************************************)
EXTENDS Primitives, SequenceTheorems, TLAPS

-----------------------------------------------------------------------------
(* The buffer, whose clients give back what they took last.                *)

BlockEnd(b) == b.base + b.size

(* What makes Disjoint inductive: blocks are back to back, up to the mark. *)
Contiguous ==
    /\ offset = IF live = <<>> THEN 0 ELSE BlockEnd(live[Len(live)])
    /\ \A i \in 1 .. Len(live) : i # 1 => live[i].base = BlockEnd(live[i - 1])
    /\ live # <<>> => live[1].base = 0

LifoInv == TypeOK /\ Contiguous /\ Disjoint

(* The room left, in whole elements: the allocator's floor division never  *)
(* admits a request that does not fit.                                     *)
LEMMA FloorFits ==
    ASSUME NEW room \in Int, NEW sz \in Nat, sz > 0, NEW n \in Nat,
           n <= room \div sz
    PROVE  n * sz <= room
<1> DEFINE q == room \div sz
<1>1. q \in Int /\ q * sz <= room
  OBVIOUS
<1>2. n * sz <= q * sz
  OBVIOUS
<1> QED BY <1>1, <1>2

LEMMA InitLifo == Init => LifoInv
BY LinearBufferAssumption DEF Init, LifoInv, TypeOK, Contiguous, Disjoint

LEMMA AllocateLifo ==
    ASSUME LifoInv, NEW sz \in ElemSize, NEW n \in Count, Allocate(sz, n)
    PROVE  LifoInv'
<1> DEFINE new == [base |-> offset, size |-> n * sz]
<1>1. /\ sz \in Nat /\ sz > 0 /\ n \in Nat /\ Size \in Nat
      /\ offset \in Nat /\ live \in Seq(Block)
  BY LinearBufferAssumption DEF LifoInv, TypeOK
<1>2. n * sz \in Nat /\ n * sz <= Size - offset
  BY <1>1, FloorFits DEF Allocate
<1>3. offset' = offset + n * sz /\ offset' \in Nat /\ offset' <= Size
  BY <1>1, <1>2 DEF Allocate
<1>4. new \in Block /\ new.base = offset /\ BlockEnd(new) = offset'
  BY <1>1, <1>2, <1>3 DEF Block, BlockEnd
<1>5. live' = Append(live, new)
  BY DEF Allocate
<1> HIDE DEF new
<1>6. /\ live' \in Seq(Block) /\ live' # <<>>
      /\ Len(live') = Len(live) + 1
      /\ live'[Len(live) + 1] = new
      /\ \A k \in 1 .. Len(live) : live'[k] = live[k]
  BY <1>1, <1>4, <1>5, AppendProperties
<1>7. \A k \in 1 .. Len(live) : live[k] \in Block
  BY <1>1, ElementOfSeq
<1>8. Len(live) \in Nat
  BY <1>1
<1>9. TypeOK'
  BY <1>3, <1>6 DEF TypeOK
<1>10. Contiguous'
  <2>1. ASSUME NEW i \in 1 .. Len(live'), i # 1
        PROVE  live'[i].base = BlockEnd(live'[i - 1])
    <3>1. CASE i = Len(live) + 1
      <4>1. Len(live) >= 1 /\ live # <<>> /\ i - 1 = Len(live)
        BY <1>8, <2>1, <3>1
      <4>2. offset = BlockEnd(live[Len(live)])
        BY <4>1 DEF LifoInv, Contiguous
      <4> QED BY <1>4, <1>6, <1>8, <3>1, <4>1, <4>2
    <3>2. CASE i \in 1 .. Len(live)
      <4>1. i - 1 \in 1 .. Len(live)
        BY <1>8, <2>1, <3>2
      <4>2. live[i].base = BlockEnd(live[i - 1])
        BY <2>1, <3>2 DEF LifoInv, Contiguous
      <4> QED BY <1>6, <3>2, <4>1, <4>2
    <3> QED BY <1>6, <1>8, <3>1, <3>2
  <2>2. live'[1].base = 0
    <3>1. CASE live = <<>>
      BY <1>4, <1>6, <3>1 DEF LifoInv, Contiguous
    <3>2. CASE live # <<>>
      <4>1. 1 \in 1 .. Len(live)
        BY <1>1, <1>8, <3>2, EmptySeq
      <4> QED BY <1>6, <3>2, <4>1 DEF LifoInv, Contiguous
    <3> QED BY <3>1, <3>2
  <2> QED BY <1>4, <1>6, <2>1, <2>2 DEF Contiguous
<1>11. Disjoint'
  <2>1. \A i \in 1 .. Len(live) : live[i].base + live[i].size <= offset
    BY DEF LifoInv, Disjoint
  <2>2. new.base + new.size = offset'
    BY <1>4 DEF BlockEnd
  <2>3. ASSUME NEW i \in 1 .. Len(live')
        PROVE  live'[i].base + live'[i].size <= offset'
    <3>1. CASE i = Len(live) + 1
      BY <1>3, <1>6, <2>2, <3>1
    <3>2. CASE i \in 1 .. Len(live)
      <4>1. live[i].base \in Nat /\ live[i].size \in Nat
        BY <1>7, <3>2 DEF Block
      <4>2. live[i].base + live[i].size <= offset
        BY <2>1, <3>2
      <4>3. live'[i] = live[i]
        BY <1>6, <3>2
      <4>4. offset <= offset'
        BY <1>1, <1>2, <1>3
      <4> HIDE DEF new
      <4> QED BY <1>1, <1>3, <4>1, <4>2, <4>3, <4>4
    <3> QED BY <1>6, <1>8, <3>1, <3>2
  <2>4. ASSUME NEW i \in 1 .. Len(live'), NEW j \in 1 .. Len(live'), i < j
        PROVE  live'[i].base + live'[i].size <= live'[j].base
    <3>1. i \in 1 .. Len(live)
      BY <1>6, <1>8, <2>4
    <3>2. CASE j = Len(live) + 1
      BY <1>4, <1>6, <2>1, <3>1, <3>2
    <3>3. CASE j \in 1 .. Len(live)
      BY <1>6, <2>4, <3>1, <3>3 DEF LifoInv, Disjoint
    <3> QED BY <1>6, <1>8, <3>2, <3>3
  <2> QED BY <1>3, <2>3, <2>4 DEF Disjoint
<1> QED BY <1>9, <1>10, <1>11 DEF LifoInv

LEMMA DeallocateLifo ==
    ASSUME LifoInv, live # <<>>, Deallocate(Len(live))
    PROVE  LifoInv'
<1> DEFINE last == Len(live)
<1>1. offset \in Nat /\ live \in Seq(Block) /\ Size \in Nat
  BY LinearBufferAssumption DEF LifoInv, TypeOK
<1>2. last \in Nat /\ last >= 1
  BY <1>1, EmptySeq
<1>3. \A k \in 1 .. last : /\ live[k] \in Block
                           /\ live[k].base \in Nat /\ live[k].size \in Nat
  <2> HIDE DEF last
  <2>1. \A k \in 1 .. Len(live) : live[k] \in Block
    BY <1>1, ElementOfSeq
  <2> QED BY <2>1 DEF Block, last
<1>4. live' = [j \in 1 .. last - 1 |-> live[j]]
  BY <1>2 DEF Deallocate, RemoveBlock
<1>5. /\ live' \in Seq(Block)
      /\ Len(live') = last - 1
      /\ \A k \in 1 .. last - 1 : live'[k] = live[k]
  <2>1. live' \in [1 .. last - 1 -> Block]
    BY <1>2, <1>3, <1>4
  <2>2. last - 1 \in Nat
    BY <1>2
  <2>3. live' \in Seq(Block)
    BY <2>1, <2>2, SeqDef
  <2> QED BY <1>4, <2>1, <2>2, <2>3, LenProperties
<1>6. offset = live[last].base + live[last].size /\ offset' = live[last].base
  <2>1. offset = live[last].base + live[last].size
    BY DEF LifoInv, Contiguous, BlockEnd
  <2>2. offset' = offset - live[last].size
    BY DEF Deallocate
  <2>3. live[last].base \in Nat /\ live[last].size \in Nat
    BY <1>2, <1>3
  <2> QED BY <2>1, <2>2, <2>3
<1>7. offset' \in Nat /\ offset' <= Size
  <2>1. offset <= Size
    BY DEF LifoInv, Disjoint
  <2> QED BY <1>1, <1>2, <1>3, <1>6, <2>1
<1>8. TypeOK'
  BY <1>5, <1>7 DEF TypeOK
<1>9. Contiguous'
  <2>1. \A i \in 1 .. last : i # 1 => live[i].base = BlockEnd(live[i - 1])
    BY DEF LifoInv, Contiguous
  <2>2. live[1].base = 0
    BY DEF LifoInv, Contiguous
  <2>3. ASSUME NEW i \in 1 .. Len(live'), i # 1
        PROVE  live'[i].base = BlockEnd(live'[i - 1])
    <3>1. i \in 1 .. last /\ i \in 1 .. last - 1 /\ i - 1 \in 1 .. last - 1
      BY <1>2, <1>5, <2>3
    <3> QED BY <1>5, <2>1, <2>3, <3>1
  <2>4. CASE last = 1
    <3>1. live' = <<>>
      BY <1>5, <2>4, EmptySeq
    <3> QED BY <1>6, <2>2, <2>3, <2>4, <3>1 DEF Contiguous
  <2>5. CASE last # 1
    <3>1. /\ last - 1 \in 1 .. last - 1 /\ 1 \in 1 .. last - 1
          /\ last \in 1 .. last
      <4>1. last >= 2
        <5> HIDE DEF last
        <5> QED BY <1>2, <2>5
      <4> QED BY <1>2, <4>1
    <3>2. live' # <<>>
      <4>1. Len(live') # 0
        BY <1>2, <1>5, <2>5
      <4> QED BY <4>1, EmptySeq
    <3>3. offset' = BlockEnd(live'[Len(live')])
      BY <1>5, <1>6, <2>1, <2>5, <3>1
    <3> QED BY <1>5, <2>2, <2>3, <3>1, <3>2, <3>3 DEF Contiguous
  <2> QED BY <2>4, <2>5
<1>10. Disjoint'
  <2>1. \A i, j \in 1 .. last : i < j =>
            live[i].base + live[i].size <= live[j].base
    BY DEF LifoInv, Disjoint
  <2>2. \A i \in 1 .. last - 1 : i \in 1 .. last /\ i < last
    BY <1>2
  <2>3. last \in 1 .. last
    BY <1>2
  <2>4. \A i \in 1 .. last - 1 : live'[i].base + live'[i].size <= offset'
    BY <1>5, <1>6, <2>1, <2>2, <2>3
  <2>5. \A i, j \in 1 .. last - 1 : i < j =>
            live'[i].base + live'[i].size <= live'[j].base
    BY <1>5, <2>1, <2>2
  <2> QED BY <1>5, <1>7, <2>4, <2>5 DEF Disjoint
<1> QED BY <1>8, <1>9, <1>10 DEF LifoInv

(* Blocks handed out by a linear buffer to a LIFO client never overlap.    *)
THEOREM LifoDisjoint == LifoSpec => []Disjoint
<1>1. LifoInv /\ [LifoNext]_vars => LifoInv'
  <2> SUFFICES ASSUME LifoInv, [LifoNext]_vars PROVE LifoInv'
    OBVIOUS
  <2>1. CASE UNCHANGED vars
    BY <2>1 DEF vars, LifoInv, TypeOK, Contiguous, Disjoint
  <2> QED BY <2>1, AllocateLifo, DeallocateLifo DEF LifoNext
<1>2. LifoInv => Disjoint
  BY DEF LifoInv
<1> QED BY InitLifo, <1>1, <1>2, PTL DEF LifoSpec

-----------------------------------------------------------------------------
(* A program over the buffer.                                              *)

StateOK ==
    /\ acc \in Word
    /\ registers \in [RegisterId -> Word]
    /\ memory \in [Cells -> Word]
    /\ mode \in Mode

PrimInv == LifoInv /\ StateOK

-----------------------------------------------------------------------------
(* Arithmetic.                                                             *)
LEMMA WordSizeNat == /\ WordSize \in Nat /\ WordSize > 0 /\ Half \in Nat /\ Half > 0
                     /\ \A w \in Word : w \in Nat /\ w < WordSize
BY HalfAssumption DEF WordSize, Word

LEMMA UnsignedWord == ASSUME NEW n \in Int PROVE Unsigned(n) \in Word
BY WordSizeNat DEF Unsigned, Word

LEMMA UnsignedOfWord == ASSUME NEW w \in Word PROVE Unsigned(w) = w
BY WordSizeNat DEF Unsigned, Word

LEMMA SignedInt ==
    ASSUME NEW w \in Word
    PROVE  Signed(w) \in Int /\ -Half <= Signed(w) /\ Signed(w) < Half
BY WordSizeNat, HalfAssumption DEF Signed, Word, WordSize

LEMMA QuotientInt ==
    ASSUME NEW m \in Int, NEW n \in Int, n # 0
    PROVE  Quotient(m, n) \in Int
<1>1. Magnitude(m) \in Nat /\ Magnitude(n) \in Nat /\ Magnitude(n) > 0
  BY DEF Magnitude
<1>2. Magnitude(m) \div Magnitude(n) \in Int
  BY <1>1
<1> QED BY <1>2 DEF Quotient

LEMMA LinearWord ==
    ASSUME NEW a \in Word, NEW b \in Word
    PROVE  Add(a, b) \in Word /\ Sub(a, b) \in Word /\ Mul(a, b) \in Word
<1>1. a \in Int /\ b \in Int
  BY WordSizeNat
<1>2. a + b \in Int /\ a - b \in Int /\ a * b \in Int
  BY <1>1
<1> QED BY <1>2, UnsignedWord DEF Add, Sub, Mul

LEMMA DivisionWord ==
    ASSUME NEW a \in Word, NEW b \in Word, ~DivTraps(a, b)
    PROVE  Div(a, b) \in Word /\ Mod(a, b) \in Word
<1> DEFINE m == Signed(a)
           n == Signed(b)
           q == Quotient(m, n)
<1>1. m \in Int /\ n \in Int
  BY SignedInt
<1>2. n # 0
  BY WordSizeNat, HalfAssumption DEF DivTraps, Signed, Word, WordSize
<1>3. q \in Int
  BY <1>1, <1>2, QuotientInt
<1>4. m - n * q \in Int
  <2> HIDE DEF m, n, q
  <2> QED BY <1>1, <1>3
<1> QED BY <1>3, <1>4, UnsignedWord DEF Div, Mod

LEMMA OperandWord == ASSUME StateOK, NEW b \in Operand PROVE b \in Word
BY PrimitivesAssumption DEF StateOK, Operand

-----------------------------------------------------------------------------
LEMMA BlocksInBuffer ==
    ASSUME PrimInv
    PROVE  /\ Size \in Nat /\ offset \in 0 .. Size
           /\ live \in Seq(Block) /\ Len(live) \in Nat
           /\ \A k \in 1 .. Len(live) :
                 /\ live[k].base \in Nat /\ live[k].size \in Nat
                 /\ live[k].base + live[k].size <= offset
<1>1. /\ offset \in Nat /\ offset <= Size /\ Size \in Nat
      /\ live \in Seq(Block) /\ Len(live) \in Nat
  BY LinearBufferAssumption DEF PrimInv, LifoInv, TypeOK, Disjoint
<1>2. \A k \in 1 .. Len(live) : live[k].base + live[k].size <= offset
  BY DEF PrimInv, LifoInv, Disjoint
<1>3. \A k \in 1 .. Len(live) : live[k] \in Block
  BY <1>1, ElementOfSeq
<1> QED BY <1>1, <1>2, <1>3 DEF Block

LEMMA BlockOf ==
    ASSUME PrimInv, NEW k \in 1 .. Len(live)
    PROVE  k \in Nat /\ live[k].base \in Nat /\ live[k].size \in Nat
BY BlocksInBuffer

LEMMA InvGivesType == PrimInv => PrimTypeOK
<1> SUFFICES ASSUME PrimInv PROVE PrimTypeOK
  OBVIOUS
<1> DEFINE Spot == [base : 0 .. Size, size : 0 .. Size]
<1>1. \A k \in 1 .. Len(live) : live[k] \in Spot
  <2> SUFFICES ASSUME NEW k \in 1 .. Len(live) PROVE live[k] \in Spot
    OBVIOUS
  <2>1. live[k] \in Block
    BY BlocksInBuffer, ElementOfSeq
  <2>2. live[k].base \in 0 .. Size /\ live[k].size \in 0 .. Size
    BY BlocksInBuffer
  <2> QED BY <2>1, <2>2 DEF Block
<1>2. live \in Seq(Spot)
  <2> HIDE DEF Spot
  <2>1. Len(live) \in Nat /\ live \in Seq(Block)
    BY BlocksInBuffer
  <2>2. live = [k \in 1 .. Len(live) |-> live[k]]
    BY <2>1
  <2>3. live \in [1 .. Len(live) -> Spot]
    BY <1>1, <2>2
  <2> QED BY <2>1, <2>3, SeqDef
<1> QED BY <1>2, BlocksInBuffer DEF PrimTypeOK, PrimInv, StateOK

(* The buffer's part of the invariant looks at its two variables only.     *)
LEMMA SameBlocks ==
    ASSUME LifoInv, UNCHANGED <<offset, live>> PROVE LifoInv'
BY DEF LifoInv, TypeOK, Contiguous, Disjoint, BlockEnd

LEMMA SetAccKeepsInv ==
    ASSUME PrimInv, NEW w \in Word, SetAcc(w) PROVE PrimInv'
<1>1. LifoInv'
  BY SameBlocks DEF PrimInv, SetAcc
<1> QED BY <1>1 DEF PrimInv, StateOK, SetAcc

LEMMA StopsKeepsInv ==
    ASSUME PrimInv, NEW how \in Mode, Stops(how) PROVE PrimInv'
<1>1. LifoInv'
  BY SameBlocks DEF PrimInv, Stops
<1> QED BY <1>1 DEF PrimInv, StateOK, Stops

(* The address of a word of the buffer, and of the end, is a word.         *)
LEMMA AddressWord ==
    ASSUME NEW n \in 0 .. Size
    PROVE  /\ Origin + WordBytes * n \in Word
           /\ Origin \in Nat /\ WordBytes * n \in Nat
<1>1. /\ Origin \in Nat /\ WordBytes \in Nat /\ Size \in Nat /\ n \in Nat
      /\ Half \in Nat /\ WordSize = 2 * Half /\ Half > 0
  BY PrimitivesAssumption, WordBytesAssumption, LinearBufferAssumption,
     HalfAssumption DEF WordSize
<1>2. Origin + WordBytes * Size <= Half
  BY PrimitivesAssumption
<1>3. WordBytes * n <= WordBytes * Size /\ WordBytes * n \in Nat
      /\ WordBytes * Size \in Nat
  BY <1>1, Z3
<1>4. Origin + WordBytes * n \in 0 .. WordSize - 1
  BY <1>1, <1>2, <1>3
<1> QED BY <1>1, <1>3, <1>4 DEF Word

(* A new array: its words are zero, everyone else's stay.                  *)
Fresh(n) ==
    /\ n = Signed(acc) /\ n \in Count
    /\ Allocate(1, n)
    /\ memory' = [c \in Cells |->
                     IF c \in offset .. offset + n - 1 THEN 0 ELSE memory[c]]
    /\ acc' = Origin + WordBytes * offset
    /\ UNCHANGED <<registers, mode>>

LEMMA FreshKeepsInv ==
    ASSUME PrimInv, NEW n, Fresh(n)
    PROVE  PrimInv'
<1>1. 1 \in ElemSize
  BY PrimitivesAssumption
<1>2. LifoInv'
  BY <1>1, AllocateLifo DEF Fresh, PrimInv
<1>3. 0 \in Word
  BY WordSizeNat DEF Word
<1>4. memory' \in [Cells -> Word]
  BY <1>3 DEF Fresh, PrimInv, StateOK
<1>5. acc' \in Word
  <2>1. offset \in 0 .. Size /\ Size \in Nat
    BY BlocksInBuffer
  <2>2. acc' = Origin + WordBytes * offset
    BY DEF Fresh
  <2> QED BY <2>1, <2>2, AddressWord
<1> QED BY <1>2, <1>4, <1>5 DEF PrimInv, StateOK, Fresh

(* The ways NewArray can go.                                               *)
LEMMA NewArrayCases ==
    NewArray => Stops("aborted") \/ Stops("threw") \/ Fresh(Signed(acc))
BY DEF NewArray, Fresh

(* A word in two parts: the lower of P values, the upper of Q.             *)
LEMMA TwoParts ==
    ASSUME NEW P \in Nat, NEW Q \in Nat, P > 0, Q > 0
    PROVE  /\ \A a \in 0 .. P - 1, b \in 0 .. Q - 1 : a + b * P \in 0 .. P * Q - 1
           /\ \A n \in 0 .. P * Q - 1 :
                 /\ n % P \in 0 .. P - 1 /\ n \div P \in 0 .. Q - 1
                 /\ n - (n % P) = (n \div P) * P
<1>0. P * Q \in Nat /\ (Q - 1) * P = P * Q - P
  BY Z3
<1>1. ASSUME NEW a \in 0 .. P - 1, NEW b \in 0 .. Q - 1
      PROVE  a + b * P \in 0 .. P * Q - 1
  <2>1. b * P <= (Q - 1) * P /\ b * P \in Nat
    BY Z3
  <2> QED BY <1>0, <2>1
<1>2. ASSUME NEW n \in 0 .. P * Q - 1
      PROVE  /\ n % P \in 0 .. P - 1 /\ n \div P \in 0 .. Q - 1
             /\ n - (n % P) = (n \div P) * P
  <2> DEFINE d == n \div P
             m == n % P
  <2>1. m \in 0 .. P - 1 /\ d \in Int /\ n = P * d + m /\ n \in Nat
    BY Z3
  <2> HIDE DEF d, m
  <2>2. P * d = d * P /\ d * P \in Int
    BY <2>1
  <2>3. d >= 0
    <3> SUFFICES ASSUME d < 0 PROVE FALSE
      BY <2>1
    <3>1. P * d <= -P
      BY <2>1, Z3
    <3> QED BY <2>1, <2>2, <3>1
  <2>4. d <= Q - 1
    <3> SUFFICES ASSUME d >= Q PROVE FALSE
      BY <2>1
    <3>1. P * d >= P * Q
      BY <2>1, Z3
    <3> QED BY <1>0, <2>1, <2>2, <3>1
  <2> QED BY <2>1, <2>2, <2>3, <2>4 DEF d, m
<1> QED BY <1>1, <1>2

(* The weights of the two parts of a word that begins d bytes into one.    *)
LEMMA PartsOfWord ==
    ASSUME NEW d \in 0 .. WordBytes
    PROVE  /\ Weight(d) \in Nat /\ Weight(d) > 0
           /\ Weight(WordBytes - d) \in Nat /\ Weight(WordBytes - d) > 0
           /\ Weight(d) * Weight(WordBytes - d) = WordSize
           /\ Weight(WordBytes - d) * Weight(d) = WordSize
<1>1. WordBytes - d \in 0 .. WordBytes
  BY WordBytesAssumption
<1>2. /\ Weight(d) \in Nat \ {0} /\ Weight(WordBytes - d) \in Nat \ {0}
      /\ Weight(d) * Weight(WordBytes - d) = WordSize
  BY <1>1, BytesAssumption
<1> DEFINE P == Weight(d)
           Q == Weight(WordBytes - d)
<1> HIDE DEF P, Q
<1>3. P \in Nat /\ P > 0 /\ Q \in Nat /\ Q > 0 /\ P * Q = WordSize
  BY <1>2 DEF P, Q
<1>4. Q * P = P * Q
  BY <1>3
<1> QED BY <1>3, <1>4 DEF P, Q

(* Where a place in the buffer is: d bytes into cell c, and if it is not   *)
(* its beginning, the next cell is there too.                              *)
LEMMA PlaceOf ==
    ASSUME NEW at, InBuffer(at)
    PROVE  /\ at \div WordBytes \in Cells /\ at % WordBytes \in 0 .. WordBytes
           /\ at % WordBytes # 0 => at \div WordBytes + 1 \in Cells
<1> DEFINE c == at \div WordBytes
           d == at % WordBytes
<1>1. WordBytes \in Nat /\ WordBytes > 0 /\ Size \in Nat
  BY WordBytesAssumption, LinearBufferAssumption
<1>2. WordBytes * (Size - 1) \in Int
  BY <1>1
<1>3. at \in Nat /\ at <= WordBytes * (Size - 1)
  BY <1>2 DEF InBuffer
<1>4. d \in 0 .. WordBytes - 1 /\ c \in Int /\ at = WordBytes * c + d
  BY <1>1, <1>3, Z3
<1> HIDE DEF c, d
<1>5. WordBytes * c \in Int
  BY <1>1, <1>4
<1>6. c >= 0
  <2> SUFFICES ASSUME c < 0 PROVE FALSE
    BY <1>4
  <2>1. WordBytes * c <= -WordBytes
    BY <1>1, <1>4, Z3
  <2> QED BY <1>1, <1>3, <1>4, <1>5, <2>1
<1>7. c <= Size - 1
  <2> SUFFICES ASSUME c >= Size PROVE FALSE
    BY <1>1, <1>4
  <2>1. WordBytes * c >= WordBytes * (Size - 1) + WordBytes
    BY <1>1, <1>4, Z3
  <2> QED BY <1>1, <1>2, <1>3, <1>4, <1>5, <2>1
<1>8. d # 0 => c <= Size - 2
  <2> SUFFICES ASSUME d # 0, c >= Size - 1 PROVE FALSE
    BY <1>1, <1>4
  <2>1. WordBytes * c >= WordBytes * (Size - 1)
    BY <1>1, <1>4, Z3
  <2> QED BY <1>1, <1>2, <1>3, <1>4, <1>5, <2>1
<1> QED BY <1>1, <1>4, <1>6, <1>7, <1>8 DEF Cells, c, d

LEMMA LoadedWord ==
    ASSUME PrimInv, NEW at, InBuffer(at)
    PROVE  LoadFrom(at) \in Word
<1> DEFINE c == at \div WordBytes
           d == at % WordBytes
           P == Weight(d)
           Q == Weight(WordBytes - d)
           lo == memory[c]
           hi == memory[c + 1]
<1>1. c \in Cells /\ d \in 0 .. WordBytes /\ (d # 0 => c + 1 \in Cells)
  BY PlaceOf
<1>2. lo \in Word /\ (d # 0 => hi \in Word)
  BY <1>1 DEF PrimInv, StateOK
<1>3. /\ P \in Nat /\ P > 0 /\ Q \in Nat /\ Q > 0
      /\ P * Q = WordSize /\ Q * P = WordSize
  BY <1>1, PartsOfWord
<1>4. LoadFrom(at) = IF d = 0 THEN lo ELSE (lo \div P) + (hi % P) * Q
  BY DEF LoadFrom
<1> HIDE DEF c, d, P, Q, lo, hi
<1>5. ASSUME d # 0 PROVE (lo \div P) + (hi % P) * Q \in Word
  <2>1. lo \in 0 .. P * Q - 1 /\ hi \in 0 .. P * Q - 1
    BY <1>2, <1>3, <1>5 DEF Word
  <2>2. lo \div P \in 0 .. Q - 1 /\ hi % P \in 0 .. P - 1
    BY <1>3, <2>1, TwoParts
  <2>3. (lo \div P) + (hi % P) * Q \in 0 .. Q * P - 1
    BY <1>3, <2>2, TwoParts
  <2> QED BY <1>3, <2>3 DEF Word
<1> QED BY <1>2, <1>4, <1>5

(* What a store does: it changes at most two cells next to each other.     *)
Stored(c) ==
    /\ c \in Cells
    /\ memory' \in [Cells -> Word]
    /\ \A x \in Cells : memory'[x] # memory[x] => x \in {c, c + 1}
    /\ UNCHANGED <<offset, live, acc, registers, mode>>

SetsCell(c, w) == memory' = [memory EXCEPT ![c] = w]

LEMMA StoreIsStored ==
    ASSUME PrimInv, NEW at, InBuffer(at), NEW w \in Word, StoreTo(at, w),
           UNCHANGED <<offset, live, acc, registers, mode>>
    PROVE  /\ Stored(at \div WordBytes)
           /\ at % WordBytes = 0 =>
                 SetsCell(at \div WordBytes, w)
<1> DEFINE c == at \div WordBytes
           d == at % WordBytes
           P == Weight(d)
           Q == Weight(WordBytes - d)
           low == w % Q
           high == w \div Q
<1>1. c \in Cells /\ c \in Int /\ d \in 0 .. WordBytes
  BY PlaceOf DEF Cells
<1>2. /\ P \in Nat /\ P > 0 /\ Q \in Nat /\ Q > 0
      /\ P * Q = WordSize /\ Q * P = WordSize
  BY <1>1, PartsOfWord
<1>3. memory' = [x \in Cells |->
                    CASE x = c     -> (memory[x] % P) + low * P
                      [] x = c + 1 -> memory[x] - (memory[x] % P) + high
                      [] OTHER     -> memory[x]]
  BY DEF StoreTo
<1>4. memory \in [Cells -> Word]
  BY DEF PrimInv, StateOK
<1>5. d = 0 => P = 1
  BY BytesAssumption
<1> HIDE DEF c, d, P, Q
<1>6. low \in 0 .. Q - 1 /\ high \in 0 .. P - 1
  <2>1. w \in 0 .. Q * P - 1
    BY <1>2 DEF Word
  <2> QED BY <1>2, <2>1, TwoParts
<1>7. ASSUME P = 1 PROVE low = w /\ high = 0
  <2>1. Q = WordSize /\ w \in 0 .. Q - 1
    BY <1>2, <1>7 DEF Word
  <2>2. w % Q = w
    BY <1>2, <2>1
  <2> QED BY <1>6, <1>7, <2>2
<1> HIDE DEF low, high
<1>8. ASSUME NEW n \in Word
      PROVE  /\ (n % P) + low * P \in Word /\ n - (n % P) + high \in Word
             /\ P = 1 => (n % P) + low * P = low /\ n - (n % P) + high = n + high
  <2>1. n \in 0 .. P * Q - 1 /\ n \in Nat
    BY <1>2, WordSizeNat DEF Word
  <2>2. /\ n % P \in 0 .. P - 1 /\ n \div P \in 0 .. Q - 1
        /\ n - (n % P) = (n \div P) * P
    BY <1>2, <2>1, TwoParts
  <2>3. (n % P) + low * P \in 0 .. P * Q - 1
    BY <1>2, <1>6, <2>2, TwoParts
  <2>4. high + (n \div P) * P \in 0 .. P * Q - 1
    BY <1>2, <1>6, <2>2, TwoParts
  <2> DEFINE m == n % P
             q == (n \div P) * P
  <2>5. m \in Int /\ q \in Int /\ n - m = q /\ high \in Int /\ low \in Int
    BY <1>2, <1>6, <2>2
  <2>6. P = 1 => m = 0
    BY <2>2
  <2> HIDE DEF m, q
  <2>7. n - m + high = high + q
    BY <2>1, <2>5
  <2>8. P = 1 => m + low * P = low /\ n - m + high = n + high
    BY <2>1, <2>5, <2>6
  <2> QED BY <1>2, <2>3, <2>4, <2>7, <2>8 DEF Word, m, q
<1>9. memory' \in [Cells -> Word]
  <2> SUFFICES ASSUME NEW x \in Cells PROVE memory'[x] \in Word
    BY <1>3
  <2>1. memory[x] \in Word
    BY <1>4
  <2> QED BY <1>3, <1>8, <2>1
<1>10. \A x \in Cells : memory'[x] # memory[x] => x \in {c, c + 1}
  BY <1>3
<1>11. ASSUME d = 0 PROVE memory' = [memory EXCEPT ![c] = w]
  <2>1. P = 1 /\ low = w /\ high = 0
    BY <1>5, <1>7, <1>11
  <2>2. ASSUME NEW x \in Cells PROVE memory'[x] = IF x = c THEN w ELSE memory[x]
    <3>1. memory[x] \in Word /\ memory[x] \in Int
      BY <1>4, WordSizeNat
    <3>2. /\ (memory[x] % P) + low * P = low
          /\ memory[x] - (memory[x] % P) + high = memory[x] + high
      BY <1>8, <2>1, <3>1
    <3>3. memory[x] + high = memory[x]
      BY <2>1, <3>1
    <3>4. memory'[x] = CASE x = c     -> low
                         [] x = c + 1 -> memory[x]
                         [] OTHER     -> memory[x]
      BY <1>3, <3>2, <3>3
    <3> QED BY <1>1, <2>1, <3>4
  <2> QED BY <1>3, <1>4, <2>2
<1> QED BY <1>1, <1>9, <1>10, <1>11 DEF Stored, SetsCell, c, d

LEMMA StoredKeepsInv ==
    ASSUME PrimInv, NEW c, Stored(c)
    PROVE  PrimInv'
<1>1. LifoInv'
  BY SameBlocks DEF PrimInv, Stored
<1> QED BY <1>1 DEF PrimInv, StateOK, Stored

LEMMA SetElementCases ==
    ASSUME PrimInv, NEW r \in RegisterId, NEW s \in RegisterId, SetElement(r, s)
    PROVE  Stops("undefined") \/ Stored(Place(r) \div WordBytes)
<1>1. registers[s] \in Word
  BY DEF PrimInv, StateOK
<1> QED BY <1>1, StoreIsStored DEF SetElement

LEMMA NextKeepsInv == PrimInv /\ [PrimNext]_primVars => PrimInv'
<1> SUFFICES ASSUME PrimInv, [PrimNext]_primVars PROVE PrimInv'
  OBVIOUS
<1>0. StateOK /\ LifoInv
  BY DEF PrimInv
<1>00. {"idle", "running", "threw", "trapped", "aborted", "undefined"} \subseteq Mode
  BY DEF Mode
<1>1. CASE UNCHANGED primVars
  BY <1>0, <1>1, SameBlocks DEF primVars, PrimInv, StateOK
<1>2. CASE Run
  <2>1. LifoInv'
    BY <1>0, <1>2, SameBlocks DEF Run
  <2>2. acc' \in Word
    BY <1>0, <1>2 DEF Run, StateOK
  <2>3. registers' \in [RegisterId -> Word]
    BY <1>2, WordSizeNat DEF Run, Word
  <2> QED BY <1>0, <1>00, <1>2, <2>1, <2>2, <2>3 DEF Run, PrimInv, StateOK
<1>3. CASE Ret
  BY <1>0, <1>00, <1>3, SameBlocks DEF Ret, PrimInv, StateOK
<1>4. ASSUME NEW w \in Literal, Ldia(w) PROVE PrimInv'
  BY <1>4, PrimitivesAssumption, SetAccKeepsInv DEF Ldia
<1>5. ASSUME NEW r \in RegisterId, Ldra(r) PROVE PrimInv'
  BY <1>0, <1>5, SetAccKeepsInv DEF Ldra, StateOK
<1>6. ASSUME NEW r \in RegisterId, Star(r) PROVE PrimInv'
  <2>1. LifoInv'
    BY <1>0, <1>6, SameBlocks DEF Star
  <2> QED BY <1>0, <1>6, <2>1 DEF Star, PrimInv, StateOK
<1>7. ASSUME NEW r \in RegisterId, NEW s \in RegisterId, Mov(r, s) PROVE PrimInv'
  <2>1. LifoInv'
    BY <1>0, <1>7, SameBlocks DEF Mov
  <2> QED BY <1>0, <1>7, <2>1 DEF Mov, PrimInv, StateOK
<1>8. ASSUME NEW b \in Operand, Linear(b) PROVE PrimInv'
  <2>1. b \in Word /\ acc \in Word
    BY <1>0, OperandWord DEF StateOK
  <2> QED BY <1>8, <2>1, LinearWord, SetAccKeepsInv DEF Linear
<1>9. ASSUME NEW b \in Operand, Division(b) PROVE PrimInv'
  <2>1. b \in Word /\ acc \in Word
    BY <1>0, OperandWord DEF StateOK
  <2>2. CASE ~DivTraps(acc, b)
    BY <1>9, <2>1, <2>2, DivisionWord, SetAccKeepsInv DEF Division
  <2> QED BY <1>00, <1>9, <2>2, StopsKeepsInv DEF Division
<1>10. CASE NewArray
  BY <1>00, <1>10, NewArrayCases, FreshKeepsInv, StopsKeepsInv
<1>11. ASSUME NEW r \in RegisterId, GetElement(r) PROVE PrimInv'
  <2>1. CASE InBuffer(Place(r))
    BY <1>11, <2>1, LoadedWord, SetAccKeepsInv DEF GetElement
  <2> QED BY <1>00, <1>11, <2>1, StopsKeepsInv DEF GetElement
<1>12. ASSUME NEW r \in RegisterId, NEW s \in RegisterId, SetElement(r, s)
       PROVE  PrimInv'
  BY <1>00, <1>12, SetElementCases, StoredKeepsInv, StopsKeepsInv
<1> QED
  BY <1>1, <1>2, <1>3, <1>4, <1>5, <1>6, <1>7, <1>8, <1>9, <1>10, <1>11, <1>12
     DEF PrimNext, Execute

LEMMA InitPrim == PrimInit => PrimInv
<1> SUFFICES ASSUME PrimInit PROVE PrimInv
  OBVIOUS
<1>1. LifoInv
  BY InitLifo DEF PrimInit
<1>2. WordSize - 1 \in Word /\ 0 \in Word
  BY WordSizeNat DEF Word
<1> QED BY <1>1, <1>2 DEF PrimInit, PrimInv, StateOK, Mode

LEMMA PrimInvariant == PrimSpec => []PrimInv
BY InitPrim, NextKeepsInv, PTL DEF PrimSpec

(* Types of all variables.                                                 *)
THEOREM PrimTyped == PrimSpec => []PrimTypeOK
BY PrimInvariant, InvGivesType, PTL

-----------------------------------------------------------------------------
(* What a step does to the buffer: an array is made, one cell or two next  *)
(* to each other are stored to, or neither.                                *)
LEMMA BufferSteps ==
    ASSUME PrimInv, [PrimNext]_primVars
    PROVE  \/ UNCHANGED <<offset, live, memory>>
           \/ Fresh(Signed(acc))
           \/ \E c \in Cells : Stored(c)
<1>1. CASE NewArray
  BY <1>1, NewArrayCases DEF Stops
<1>2. ASSUME NEW r \in RegisterId, NEW s \in RegisterId, SetElement(r, s)
      PROVE  UNCHANGED <<offset, live, memory>> \/ \E c \in Cells : Stored(c)
  BY <1>2, SetElementCases DEF Stored, Stops
<1> QED
  BY <1>1, <1>2
     DEF PrimNext, primVars, Execute, Run, Ret, Ldia, Ldra, Star, Mov, Linear,
         Division, GetElement, SetAcc, Stops

(* The cells of an array are cells.                                        *)
LEMMA CellsOfArrays ==
    ASSUME PrimInv, NEW k \in 1 .. Len(live), NEW i \in 0 .. live[k].size - 1
    PROVE  /\ live[k].base + i \in Cells /\ live[k].base + i < offset
           /\ memory[live[k].base + i] \in Word
<1>1. /\ live[k].base \in Nat /\ live[k].size \in Nat
      /\ live[k].base + live[k].size <= offset
      /\ offset \in 0 .. Size /\ Size \in Nat
  BY BlocksInBuffer
<1>2. live[k].base + i \in Cells /\ live[k].base + i < offset
  BY <1>1 DEF Cells
<1> QED BY <1>2 DEF PrimInv, StateOK

ArrayOf(k) == [i \in 0 .. live[k].size - 1 |-> memory[live[k].base + i]]

Contents == UNION {[0 .. n - 1 -> Word] : n \in Nat}

ContentsArray ==
    /\ contents \in Seq(Contents) /\ Len(contents) = Len(live)
    /\ \A k \in 1 .. Len(live) : contents[k] = ArrayOf(k) /\ ArrayOf(k) \in Contents

LEMMA ContentsAreArrays == PrimInv => ContentsArray
<1> SUFFICES ASSUME PrimInv PROVE ContentsArray
  OBVIOUS
<1>1. ASSUME NEW k \in 1 .. Len(live) PROVE ArrayOf(k) \in Contents
  <2>1. live[k].size \in Nat
    BY BlocksInBuffer
  <2>2. ArrayOf(k) \in [0 .. live[k].size - 1 -> Word]
    BY CellsOfArrays DEF ArrayOf
  <2> QED BY <2>1, <2>2 DEF Contents
<1>2. contents = [k \in 1 .. Len(live) |-> ArrayOf(k)]
  BY DEF contents, ArrayOf
<1>3. contents \in [1 .. Len(live) -> Contents] /\ Len(live) \in Nat
  BY <1>1, <1>2, BlocksInBuffer
<1>4. contents \in Seq(Contents)
  BY <1>3, SeqDef
<1>5. Len(contents) = Len(live)
  BY <1>2, <1>3, <1>4, LenProperties
<1> QED BY <1>1, <1>2, <1>4, <1>5 DEF ContentsArray

LEMMA NextContents == PrimInv' => ContentsArray'
BY ContentsAreArrays, PTL

(* Arrays of another step have the same contents if they have the same     *)
(* blocks and cells.                                                       *)
LEMMA SameContents ==
    ASSUME UNCHANGED <<live, memory>> PROVE contents' = contents
BY DEF contents

(* Making an array.                                                        *)
LEMMA FreshMakes ==
    ASSUME PrimInv, NEW n, Fresh(n)
    PROVE  n \in Count /\ Arrays!Make(n)
<1> DEFINE zeros == [i \in 0 .. n - 1 |-> 0]
           len == Len(live)
           new == [base |-> offset, size |-> n * 1]
<1>1. /\ n \in Count /\ n \in Nat /\ n * 1 = n /\ n <= Size - offset
      /\ live' = Append(live, new)
      /\ memory' = [c \in Cells |->
                       IF c \in offset .. offset + n - 1 THEN 0 ELSE memory[c]]
  BY LinearBufferAssumption, BlocksInBuffer DEF Fresh, Allocate
<1>2. PrimInv'
  BY FreshKeepsInv
<1>3. live \in Seq(Block) /\ len \in Nat /\ offset \in Nat
  BY BlocksInBuffer
<1>4. new \in Block /\ new.base = offset /\ new.size = n
  BY <1>1, <1>3 DEF Block
<1> HIDE DEF new, len
<1>5. /\ Len(live') = len + 1 /\ live'[len + 1] = new
      /\ \A k \in 1 .. len : live'[k] = live[k]
  BY <1>1, <1>3, <1>4, AppendProperties DEF len
<1>6. /\ contents \in Seq(Contents) /\ Len(contents) = len
      /\ \A k \in 1 .. len : contents[k] = ArrayOf(k)
  BY ContentsAreArrays DEF len, ContentsArray
<1>7. /\ contents' \in Seq(Contents) /\ Len(contents') = len + 1
      /\ \A k \in 1 .. len + 1 : contents'[k] = ArrayOf(k)'
  BY <1>2, <1>5, NextContents DEF ContentsArray
<1>8. zeros \in Contents
  <2>1. zeros \in [0 .. n - 1 -> Word]
    BY WordSizeNat DEF Word
  <2> QED BY <1>1, <2>1 DEF Contents
<1>9. ASSUME NEW k, k = len + 1 PROVE ArrayOf(k)' = zeros
  <2>1. ArrayOf(k)' = [i \in 0 .. n - 1 |-> memory'[offset + i]]
    BY <1>4, <1>5, <1>9 DEF ArrayOf
  <2>2. ASSUME NEW i \in 0 .. n - 1 PROVE memory'[offset + i] = 0
    <3>1. offset + i \in offset .. offset + n - 1 /\ offset + i \in Cells
      BY <1>1, <1>3, LinearBufferAssumption DEF Cells
    <3> QED BY <1>1, <3>1
  <2> QED BY <2>1, <2>2
<1>10. ASSUME NEW k \in 1 .. len PROVE ArrayOf(k)' = ArrayOf(k)
  <2>1. ArrayOf(k)' = [i \in 0 .. live[k].size - 1 |-> memory'[live[k].base + i]]
    BY <1>5 DEF ArrayOf
  <2>2. ASSUME NEW i \in 0 .. live[k].size - 1
        PROVE  memory'[live[k].base + i] = memory[live[k].base + i]
    <3>1. live[k].base + i \in Cells /\ live[k].base + i < offset
      BY CellsOfArrays DEF len
    <3>2. live[k].base + i \in Int
      BY BlocksInBuffer DEF len
    <3>3. live[k].base + i \notin offset .. offset + n - 1
      BY <1>3, <3>1, <3>2
    <3> QED BY <1>1, <3>1, <3>3
  <2> QED BY <2>1, <2>2 DEF ArrayOf
<1> HIDE DEF zeros
<1>11. /\ Append(contents, zeros) \in Seq(Contents)
       /\ Len(Append(contents, zeros)) = len + 1
       /\ Append(contents, zeros)[len + 1] = zeros
       /\ \A k \in 1 .. len : Append(contents, zeros)[k] = contents[k]
  BY <1>6, <1>8, AppendProperties
<1>12. \A k \in 1 .. len + 1 : contents'[k] = Append(contents, zeros)[k]
  <2> TAKE k \in 1 .. len + 1
  <2>1. k \in 1 .. len \/ k = len + 1
    BY <1>3
  <2>2. CASE k \in 1 .. len
    BY <1>6, <1>7, <1>10, <1>11, <2>2
  <2>3. CASE k = len + 1
    BY <1>7, <1>9, <1>11, <2>3
  <2> QED BY <2>1, <2>2, <2>3
<1>13. contents' = Append(contents, zeros)
  BY <1>7, <1>11, <1>12, SeqEqual
<1> QED BY <1>1, <1>13 DEF Arrays!Make, zeros

(* A store into array k changes that element and nothing else.             *)
LEMMA StoreIntoArray ==
    ASSUME PrimInv, NEW k \in 1 .. Len(live), NEW i \in 0 .. live[k].size - 1,
           NEW w \in Word, Stored(live[k].base + i),
           SetsCell(live[k].base + i, w)
    PROVE  contents' = [contents EXCEPT ![k] = [@ EXCEPT ![i] = w]]
<1> DEFINE c == live[k].base + i
           len == Len(live)
           stored == [ArrayOf(k) EXCEPT ![i] = w]
<1>1. /\ memory' = [memory EXCEPT ![c] = w] /\ c \in Cells
      /\ live' = live /\ memory \in [Cells -> Word]
  BY DEF Stored, SetsCell, PrimInv, StateOK
<1>2. /\ contents \in Seq(Contents) /\ Len(contents) = len /\ len \in Nat
      /\ \A j \in 1 .. len : contents[j] = ArrayOf(j)
  BY ContentsAreArrays, BlocksInBuffer DEF ContentsArray
<1>3. /\ contents' \in Seq(Contents) /\ Len(contents') = len
      /\ \A j \in 1 .. len : contents'[j] = ArrayOf(j)' /\ ArrayOf(j)' \in Contents
  BY <1>1, StoredKeepsInv, NextContents DEF ContentsArray
<1>4. ASSUME NEW j \in 1 .. len, NEW h \in 0 .. live[j].size - 1
      PROVE  /\ live[j].base + h \in Cells
             /\ live[j].base + h = c => j = k /\ h = i
  <2> DEFINE bj == live[j].base
             sj == live[j].size
             bk == live[k].base
             sk == live[k].size
  <2>1. /\ bj \in Nat /\ sj \in Nat /\ bk \in Nat /\ sk \in Nat
        /\ j \in Nat /\ k \in Nat
        /\ h \in Nat /\ h < sj /\ i \in Nat /\ i < sk /\ c = bk + i
    BY BlockOf
  <2>2. /\ j < k => bj + sj <= bk
        /\ k < j => bk + sk <= bj
    BY DEF PrimInv, LifoInv, Disjoint
  <2>3. j = k => bj = bk
    OBVIOUS
  <2>4. bj + h \in Cells
    BY CellsOfArrays
  <2> HIDE DEF bj, sj, bk, sk, c
  <2>5. bj + h = c => j = k /\ h = i
    BY <2>1, <2>2, <2>3
  <2> QED BY <2>4, <2>5 DEF bj
<1> HIDE DEF c
<1>5. ASSUME NEW j \in 1 .. len, NEW h \in 0 .. live[j].size - 1
      PROVE  memory'[live[j].base + h]
                = IF j = k /\ h = i THEN w ELSE memory[live[j].base + h]
  <2>1. CASE j = k /\ h = i
    BY <1>1, <2>1 DEF c
  <2>2. CASE ~(j = k /\ h = i)
    <3>1. live[j].base + h \in Cells /\ live[j].base + h # c
      BY <1>4, <2>2
    <3> QED BY <1>1, <2>2, <3>1
  <2> QED BY <2>1, <2>2
<1>6. ArrayOf(k)' = stored
  <2>1. ArrayOf(k)' = [h \in 0 .. live[k].size - 1 |-> memory'[live[k].base + h]]
    BY <1>1 DEF ArrayOf
  <2>2. stored = [h \in 0 .. live[k].size - 1 |->
                     IF h = i THEN w ELSE memory[live[k].base + h]]
    BY DEF ArrayOf
  <2> QED BY <1>5, <2>1, <2>2
<1>7. ASSUME NEW j \in 1 .. len, j # k PROVE ArrayOf(j)' = ArrayOf(j)
  <2>1. ArrayOf(j)' = [h \in 0 .. live[j].size - 1 |-> memory'[live[j].base + h]]
    BY <1>1 DEF ArrayOf
  <2> QED BY <1>5, <1>7, <2>1 DEF ArrayOf
<1>8. stored \in Contents
  BY <1>2, <1>3, <1>6
<1> HIDE DEF stored
<1>9. /\ [contents EXCEPT ![k] = stored] \in Seq(Contents)
      /\ Len([contents EXCEPT ![k] = stored]) = len
      /\ \A j \in 1 .. len : [contents EXCEPT ![k] = stored][j]
                                = IF j = k THEN stored ELSE contents[j]
  BY <1>2, <1>8, ExceptSeq
<1>10. contents' = [contents EXCEPT ![k] = stored]
  <2>1. \A j \in 1 .. len : contents'[j] = [contents EXCEPT ![k] = stored][j]
    BY <1>2, <1>3, <1>6, <1>7, <1>9
  <2> QED BY <1>3, <1>9, <2>1, SeqEqual
<1>11. contents[k] = ArrayOf(k)
  BY <1>2
<1> QED BY <1>10, <1>11 DEF stored

(* Cells of arrays are their own; a cell after another is the next element *)
(* of its array or the first of an array made later.                       *)
LEMMA CellsAreOwn ==
    ASSUME PrimInv, NEW k \in 1 .. Len(live), NEW i \in 0 .. live[k].size - 1,
           NEW l \in 1 .. Len(live), NEW j \in 0 .. live[l].size - 1
    PROVE  /\ live[k].base + i = live[l].base + j => k = l /\ i = j
           /\ live[l].base + j = live[k].base + i + 1 =>
                 \/ l = k /\ j = i + 1
                 \/ /\ l > k /\ i + 1 = live[k].size /\ j = 0
                    /\ \A m \in k + 1 .. l - 1 : live[m].size = 0
<1>1. \A m \in 1 .. Len(live) :
         m \in Nat /\ live[m].base \in Nat /\ live[m].size \in Nat
  BY BlockOf
<1>2. \A m, n \in 1 .. Len(live) :
         m < n => live[m].base + live[m].size <= live[n].base
  BY DEF PrimInv, LifoInv, Disjoint
<1>3. Len(live) \in Nat
  BY BlocksInBuffer
<1> DEFINE bk == live[k].base
           sk == live[k].size
           bl == live[l].base
           sl == live[l].size
<1>4. /\ bk \in Nat /\ sk \in Nat /\ bl \in Nat /\ sl \in Nat
      /\ k \in Nat /\ l \in Nat
      /\ i \in Nat /\ i < sk /\ j \in Nat /\ j < sl
      /\ k < l => bk + sk <= bl
      /\ l < k => bl + sl <= bk
  BY <1>1, <1>2
<1>5. ASSUME k < l, bl + j = bk + i + 1, NEW m \in k + 1 .. l - 1
      PROVE  live[m].size = 0
  <2>1. m \in 1 .. Len(live) /\ k < m /\ m < l
    BY <1>3, <1>4, <1>5
  <2> DEFINE bm == live[m].base
             sm == live[m].size
  <2>2. bm \in Nat /\ sm \in Nat /\ bk + sk <= bm /\ bm + sm <= bl
    BY <1>1, <1>2, <2>1
  <2> HIDE DEF bk, sk, bl, sl, bm, sm
  <2>3. sm = 0
    BY <1>4, <1>5, <2>2
  <2> QED BY <2>3 DEF sm
<1> HIDE DEF bk, sk, bl, sl
<1>6. bk + i = bl + j => k = l /\ i = j
  <2>1. CASE k = l
    <3>1. bk = bl
      BY <2>1 DEF bk, bl
    <3> QED BY <1>4, <2>1, <3>1
  <2> QED BY <1>4, <2>1
<1>7. bl + j = bk + i + 1 =>
         (l = k /\ j = i + 1) \/ (l > k /\ i + 1 = sk /\ j = 0)
  <2>1. CASE k = l
    <3>1. bk = bl
      BY <2>1 DEF bk, bl
    <3> QED BY <1>4, <2>1, <3>1
  <2> QED BY <1>4, <2>1
<1>8. l > k <=> k < l
  BY <1>4
<1> QED BY <1>5, <1>6, <1>7, <1>8 DEF bk, sk, bl, sl

(* A store is one of arrays, or is not seen.                               *)
LEMMA StoredIsStore ==
    ASSUME PrimInv, NEW c \in Cells, Stored(c)
    PROVE  Arrays!Store
<1> DEFINE len == Len(live)
<1>1. /\ Len(contents) = len /\ Len(contents') = len
      /\ \A k \in 1 .. len : /\ contents[k] = ArrayOf(k)
                              /\ contents'[k] = ArrayOf(k)'
  BY StoredKeepsInv, ContentsAreArrays, NextContents DEF ContentsArray, Stored
<1>2. /\ live' = live /\ c \in Int
      /\ \A x \in Cells : memory'[x] \in Word
      /\ \A x \in Cells : memory'[x] # memory[x] => x \in {c, c + 1}
  BY DEF Stored, Cells
<1>3. ASSUME NEW k \in 1 .. len
      PROVE  /\ DOMAIN contents[k] = 0 .. live[k].size - 1
             /\ contents'[k] \in [DOMAIN contents[k] -> Word]
             /\ \A i \in 0 .. live[k].size - 1 :
                   /\ live[k].base + i \in Cells
                   /\ contents[k][i] = memory[live[k].base + i]
                   /\ contents'[k][i] = memory'[live[k].base + i]
  <2>1. \A i \in 0 .. live[k].size - 1 : live[k].base + i \in Cells
    BY CellsOfArrays
  <2>2. /\ contents[k] = [i \in 0 .. live[k].size - 1 |-> memory[live[k].base + i]]
        /\ contents'[k] = [i \in 0 .. live[k].size - 1 |-> memory'[live[k].base + i]]
    BY <1>1, <1>2 DEF ArrayOf
  <2> QED BY <1>2, <2>1, <2>2
<1>4. ASSUME NEW k \in 1 .. len, NEW l \in 1 .. len,
             NEW i \in DOMAIN contents[k], NEW j \in DOMAIN contents[l],
             contents'[k][i] # contents[k][i], contents'[l][j] # contents[l][j]
      PROVE  \/ k = l /\ i = j
             \/ Arrays!Neighbours(k, i, l, j) \/ Arrays!Neighbours(l, j, k, i)
  <2> DEFINE p == live[k].base + i
             q == live[l].base + j
  <2>1. i \in 0 .. live[k].size - 1 /\ j \in 0 .. live[l].size - 1
    BY <1>3
  <2>2. p \in {c, c + 1} /\ q \in {c, c + 1}
    BY <1>2, <1>3, <1>4, <2>1
  <2>3. p \in Int /\ q \in Int
    BY <1>2, <2>2
  <2>4. \A m, n \in 1 .. len : \A g \in 0 .. live[m].size - 1,
                                   h \in 0 .. live[n].size - 1 :
           live[n].base + h = live[m].base + g + 1 => Arrays!Neighbours(m, g, n, h)
    <3> SUFFICES ASSUME NEW m \in 1 .. len, NEW n \in 1 .. len,
                        NEW g \in 0 .. live[m].size - 1,
                        NEW h \in 0 .. live[n].size - 1,
                        live[n].base + h = live[m].base + g + 1
                 PROVE  Arrays!Neighbours(m, g, n, h)
      OBVIOUS
    <3>1. \/ n = m /\ h = g + 1
          \/ /\ n > m /\ g + 1 = live[m].size /\ h = 0
             /\ \A o \in m + 1 .. n - 1 : live[o].size = 0
      BY CellsAreOwn
    <3>2. \A o \in m + 1 .. n - 1 : o \in 1 .. len
      <4>1. len \in Nat
        BY BlocksInBuffer
      <4> HIDE DEF len
      <4> QED BY <4>1
    <3>3. ASSUME NEW o \in m + 1 .. n - 1, live[o].size = 0 PROVE DOMAIN contents[o] = {}
      BY <1>3, <3>2, <3>3
    <3>4. g + 1 = live[m].size => g + 1 \notin DOMAIN contents[m]
      BY <1>3, BlockOf
    <3> QED BY <3>1, <3>3, <3>4 DEF Arrays!Neighbours
  <2>5. CASE p = q
    BY <2>1, <2>5, CellsAreOwn
  <2>6. CASE q = p + 1
    BY <2>1, <2>4, <2>6
  <2>7. CASE p = q + 1
    BY <2>1, <2>4, <2>7
  <2> HIDE DEF p, q
  <2>8. p = q \/ q = p + 1 \/ p = q + 1
    BY <1>2, <2>2, <2>3
  <2> QED BY <2>5, <2>6, <2>7, <2>8
<1> HIDE DEF len
<1>5. Len(contents) = len /\ Len(contents') = Len(contents)
  BY <1>1
<1> QED BY <1>3, <1>4, <1>5 DEF Arrays!Store

(* Arrays of primitives implement the store of arrays, for every program.  *)
THEOREM PrimImplements == PrimSpec => ImplementsArrayStore
<1>1. PrimInit => Arrays!Init
  BY DEF PrimInit, Init, Arrays!Init, contents
<1>2. PrimInv /\ [PrimNext]_primVars => [Arrays!Next]_contents
  <2> SUFFICES ASSUME PrimInv, [PrimNext]_primVars
               PROVE  Arrays!Next \/ contents' = contents
    OBVIOUS
  <2>1. CASE UNCHANGED <<offset, live, memory>>
    BY <2>1, SameContents
  <2>2. CASE Fresh(Signed(acc))
    BY <2>2, FreshMakes DEF Arrays!Next
  <2>3. ASSUME NEW c \in Cells, Stored(c) PROVE Arrays!Next
    BY <2>3, StoredIsStore DEF Arrays!Next
  <2> QED BY <2>1, <2>2, <2>3, BufferSteps
<1> QED BY <1>1, <1>2, PrimInvariant, PTL DEF PrimSpec, ImplementsArrayStore, Arrays!Spec

(* An access in bounds of an array is one of its element.                  *)
LEMMA PlaceOfElement ==
    ASSUME PrimInv, NEW k \in 1 .. Len(live), NEW r \in RegisterId,
           Refers(k), registers[r] < live[k].size
    PROVE  LET c == live[k].base + registers[r] IN
           /\ registers[r] \in 0 .. live[k].size - 1 /\ c \in Cells
           /\ InBuffer(Place(r))
           /\ Place(r) \div WordBytes = c /\ Place(r) % WordBytes = 0
<1> DEFINE b == live[k].base
           i == registers[r]
           c == b + i
<1>1. /\ b \in Nat /\ live[k].size \in Nat
      /\ b + live[k].size <= Size /\ Size \in Nat
  BY BlocksInBuffer
<1>2. i \in Nat
  BY WordSizeNat DEF PrimInv, StateOK
<1>3. i \in 0 .. live[k].size - 1 /\ c \in Cells
  BY <1>1, <1>2 DEF Cells
<1>4. acc = Origin + WordBytes * b
  BY DEF Refers
<1>5. Place(r) = Unsigned(acc + WordBytes * i) - Origin
  BY DEF Place
<1>6. WordBytes \in Nat /\ WordBytes > 0 /\ c \in Nat /\ c <= Size - 1
  BY <1>1, <1>3, WordBytesAssumption DEF Cells
<1>7. /\ Origin + WordBytes * c \in Word
      /\ Origin \in Nat /\ WordBytes * c \in Nat
  <2> HIDE DEF c
  <2>1. c \in 0 .. Size
    BY <1>1, <1>6
  <2> QED BY <2>1, AddressWord
<1>8. WordBytes * c = WordBytes * b + WordBytes * i
      /\ WordBytes * b \in Nat /\ WordBytes * i \in Nat
  <2>1. c = b + i
    OBVIOUS
  <2> HIDE DEF b, i, c
  <2> QED BY <1>1, <1>2, <1>6, <2>1, Z3
<1> HIDE DEF b, i, c
<1>9. acc + WordBytes * i = Origin + WordBytes * c
  BY <1>4, <1>7, <1>8
<1>10. Place(r) = WordBytes * c
  BY <1>5, <1>7, <1>9, UnsignedOfWord
<1>11. WordBytes * c <= WordBytes * (Size - 1) /\ WordBytes * (Size - 1) \in Int
  <2> DEFINE last == Size - 1
  <2>1. last \in Int /\ c <= last
    BY <1>1, <1>6
  <2> HIDE DEF last
  <2>2. WordBytes * c <= WordBytes * last /\ WordBytes * last \in Int
    BY <1>6, <2>1, Z3
  <2> QED BY <2>2 DEF last
<1>12. (WordBytes * c) \div WordBytes = c /\ (WordBytes * c) % WordBytes = 0
  BY <1>6, Z3
<1> QED BY <1>3, <1>7, <1>10, <1>11, <1>12 DEF InBuffer, b, i, c

(* A reference and an index inside its array reach that element, for every *)
(* program.                                                                *)
THEOREM PrimReached == PrimSpec => ElementIsReached
<1>1. ASSUME PrimInv, NEW k \in 1 .. Len(live), NEW r \in RegisterId,
             NEW s \in RegisterId, mode = "running",
             Refers(k), registers[r] < live[k].size
      PROVE  /\ GetElement(r) => acc' = contents[k][registers[r]] /\ mode' = "running"
             /\ SetElement(r, s) =>
                   contents' = [contents EXCEPT
                                   ![k] = [@ EXCEPT ![registers[r]] = registers[s]]]
  <2> DEFINE c == live[k].base + registers[r]
  <2>1. /\ registers[r] \in 0 .. live[k].size - 1 /\ c \in Cells
        /\ InBuffer(Place(r))
        /\ Place(r) \div WordBytes = c /\ Place(r) % WordBytes = 0
    BY <1>1, PlaceOfElement
  <2>2. contents[k][registers[r]] = LoadFrom(Place(r))
    <3>1. contents[k] = ArrayOf(k)
      BY <1>1, ContentsAreArrays DEF ContentsArray
    <3>2. ArrayOf(k)[registers[r]] = memory[c]
      BY <2>1 DEF ArrayOf
    <3>3. LoadFrom(Place(r)) = memory[c]
      BY <2>1 DEF LoadFrom
    <3> QED BY <3>1, <3>2, <3>3
  <2>3. ASSUME GetElement(r)
        PROVE  acc' = contents[k][registers[r]] /\ mode' = "running"
    BY <1>1, <2>1, <2>2, <2>3 DEF GetElement, SetAcc
  <2>4. ASSUME SetElement(r, s)
        PROVE  contents' = [contents EXCEPT
                               ![k] = [@ EXCEPT ![registers[r]] = registers[s]]]
    <3>1. registers[s] \in Word
      BY <1>1 DEF PrimInv, StateOK
    <3>2. Stored(c) /\ SetsCell(c, registers[s])
      BY <1>1, <2>1, <2>4, <3>1, StoreIsStored DEF SetElement
    <3> DEFINE i == registers[r]
               w == registers[s]
    <3>3. /\ i \in 0 .. live[k].size - 1 /\ w \in Word
          /\ Stored(live[k].base + i)
          /\ SetsCell(live[k].base + i, w)
      BY <2>1, <3>1, <3>2
    <3> HIDE DEF i, w
    <3>4. contents' = [contents EXCEPT ![k] = [@ EXCEPT ![i] = w]]
      BY <1>1, <3>3, StoreIntoArray
    <3> QED BY <3>4 DEF i, w
  <2> QED BY <2>3, <2>4
<1>2. PrimInv /\ [PrimNext]_primVars =>
         [\A k \in 1 .. Len(live), r, s \in RegisterId :
             LET i == registers[r] IN
             mode = "running" /\ Refers(k) /\ i < live[k].size =>
                /\ GetElement(r) => acc' = contents[k][i] /\ mode' = "running"
                /\ SetElement(r, s) =>
                      contents' = [contents EXCEPT
                                      ![k] = [@ EXCEPT ![i] = registers[s]]]]_primVars
  BY <1>1
<1> QED BY <1>2, PrimInvariant, PTL DEF PrimSpec, ElementIsReached

(* Room is never given back.                                               *)
THEOREM PrimExhaustion == PrimSpec => ExhaustionIsForEver
<1>1. ASSUME PrimInv, [PrimNext]_primVars PROVE offset <= offset' /\ offset' \in Nat
  <2>1. offset \in Nat
    BY <1>1, BlocksInBuffer
  <2>2. CASE Fresh(Signed(acc))
    <3>1. Signed(acc) \in Nat /\ offset' = offset + Signed(acc) * 1
      BY <2>2, LinearBufferAssumption DEF Fresh, Allocate
    <3> QED BY <2>1, <3>1
  <2> QED BY <1>1, <2>1, <2>2, BufferSteps DEF Stored
<1>2. PrimInv /\ [PrimNext]_primVars =>
         [\A n \in Count : n > Size - offset => n > (Size - offset)']_primVars
  <2> SUFFICES ASSUME PrimInv, [PrimNext]_primVars, NEW n \in Count, n > Size - offset
               PROVE  n > (Size - offset)'
    OBVIOUS
  <2>1. offset \in Nat /\ n \in Nat /\ Size \in Nat
    BY BlocksInBuffer, LinearBufferAssumption
  <2> QED BY <1>1, <2>1
<1> QED BY <1>2, PrimInvariant, PTL DEF PrimSpec, ExhaustionIsForEver

-----------------------------------------------------------------------------
(* A representable integer comes back from its word.                       *)
LEMMA SignedOfUnsigned ==
    ASSUME NEW n \in Int, -Half <= n, n < Half
    PROVE  Signed(Unsigned(n)) = n
<1>0. Half \in Nat /\ Half > 0 /\ WordSize = 2 * Half /\ WordSize \in Nat
  BY HalfAssumption DEF WordSize
<1>1. CASE n >= 0
  <2>1. n % WordSize = n
    BY <1>0, <1>1
  <2> QED BY <1>0, <1>1, <2>1 DEF Signed, Unsigned
<1>2. CASE n < 0
  <2>1. n % WordSize = n + WordSize
    <3>1. (n + WordSize) % WordSize = n + WordSize
      BY <1>0, <1>2
    <3>2. (n + WordSize) % WordSize = n % WordSize
      BY <1>0
    <3> QED BY <3>1, <3>2
  <2> QED BY <1>0, <1>2, <2>1 DEF Signed, Unsigned
<1> QED BY <1>0, <1>1, <1>2

(* Division of magnitudes.                                                *)
LEMMA NatDivision ==
    ASSUME NEW a \in Nat, NEW b \in Nat, b > 0
    PROVE  /\ a \div b \in Nat /\ a \div b <= a
           /\ a - (a \div b) * b \in Nat /\ a - (a \div b) * b < b
<1>1. a \div b \in Int /\ a % b \in 0 .. b - 1 /\ a = b * (a \div b) + (a % b)
  BY Z3
<1>2. a \div b >= 0
  BY Z3
<1>3. (a \div b) * b = b * (a \div b)
  BY <1>1
<1>4. a \div b <= a
  <2> DEFINE q == a \div b
  <2>1. q \in Nat /\ a = b * q + (a % b) /\ a % b \in Nat
    BY <1>1, <1>2
  <2> HIDE DEF q
  <2>2. b * q >= q
    BY <2>1, Z3
  <2>3. b * q \in Nat
    BY <2>1
  <2> QED BY <2>1, <2>2, <2>3
<1> QED BY <1>1, <1>2, <1>3, <1>4

(* A quotient rounded towards zero.                                        *)
LEMMA QuotientOf ==
    ASSUME NEW m \in Int, NEW n \in Int, n # 0
    PROVE  LET q == Quotient(m, n)
               rest == m - n * q
           IN  /\ q \in Int /\ rest \in Int
               /\ m = q * n + rest
               /\ Magnitude(q) <= Magnitude(m)
               /\ Magnitude(rest) < Magnitude(n)
               /\ rest # 0 => (rest < 0) = (m < 0)
<1> DEFINE a == Magnitude(m)
           b == Magnitude(n)
           d == a \div b
           r == a - d * b
           q == Quotient(m, n)
           rest == m - n * q
<1>1. a \in Nat /\ b \in Nat /\ b > 0
  BY DEF Magnitude
<1>2. d \in Nat /\ d <= a /\ r \in Nat /\ r < b
  BY <1>1, NatDivision
<1>3. q = IF (m < 0) = (n < 0) THEN d ELSE -d
  BY DEF Quotient
<1>4. /\ m = IF m < 0 THEN -a ELSE a
      /\ n = IF n < 0 THEN -b ELSE b
  BY DEF Magnitude
<1>5. d * b \in Nat /\ r = a - d * b
  BY <1>1, <1>2
<1>6. n * q = IF m < 0 THEN -(d * b) ELSE d * b
  <2> HIDE DEF a, b, d, q
  <2>1. CASE m < 0 /\ n < 0
    BY <1>1, <1>2, <1>3, <1>4, <2>1
  <2>2. CASE m < 0 /\ ~(n < 0)
    BY <1>1, <1>2, <1>3, <1>4, <2>2
  <2>3. CASE ~(m < 0) /\ n < 0
    BY <1>1, <1>2, <1>3, <1>4, <2>3
  <2>4. CASE ~(m < 0) /\ ~(n < 0)
    BY <1>1, <1>2, <1>3, <1>4, <2>4
  <2> QED BY <2>1, <2>2, <2>3, <2>4
<1>7. rest = IF m < 0 THEN -r ELSE r
  <2> HIDE DEF a, b, d, q
  <2> QED BY <1>1, <1>4, <1>5, <1>6
<1>8. q \in Int /\ n * q \in Int /\ rest \in Int
  <2>1. q \in Int
    BY <1>2, <1>3
  <2> HIDE DEF q
  <2> QED BY <2>1
<1>9. m = q * n + rest
  <2> HIDE DEF q
  <2>1. q * n = n * q
    BY <1>8
  <2> QED BY <1>8, <2>1
<1>10. Magnitude(q) <= Magnitude(m)
  <2> HIDE DEF d
  <2> QED BY <1>1, <1>2, <1>3, <1>8 DEF Magnitude
<1>11. Magnitude(rest) < Magnitude(n)
  <2> HIDE DEF r, rest
  <2> QED BY <1>1, <1>2, <1>7, <1>8 DEF Magnitude
<1>12. rest # 0 => (rest < 0) = (m < 0)
  <2> HIDE DEF r, rest
  <2> QED BY <1>2, <1>7, <1>8
<1> QED BY <1>8, <1>9, <1>10, <1>11, <1>12

(* Only the smallest integer over -1 has a quotient that is no word.       *)
LEMMA DivisionOfWords ==
    ASSUME NEW a \in Word, NEW b \in Word, ~DivTraps(a, b)
    PROVE  LET m == Signed(a)
               n == Signed(b)
               rest == Signed(Mod(a, b))
           IN  /\ m = Signed(Div(a, b)) * n + rest
               /\ Magnitude(rest) < Magnitude(n)
               /\ rest # 0 => (rest < 0) = (m < 0)
<1> DEFINE m == Signed(a)
           n == Signed(b)
           q == Quotient(m, n)
           rest == m - n * q
<1>1. /\ m \in Int /\ -Half <= m /\ m < Half
      /\ n \in Int /\ -Half <= n /\ n < Half
      /\ Half \in Nat /\ Half > 0
  BY SignedInt, HalfAssumption
<1>2. n # 0 /\ ~(m = -Half /\ n = -1)
  BY WordSizeNat, HalfAssumption DEF DivTraps, Signed, Word, WordSize
<1>3. /\ q \in Int /\ rest \in Int /\ m = q * n + rest
      /\ Magnitude(q) <= Magnitude(m) /\ Magnitude(rest) < Magnitude(n)
      /\ rest # 0 => (rest < 0) = (m < 0)
  <2> HIDE DEF m, n
  <2> QED BY <1>1, <1>2, QuotientOf
<1> HIDE DEF m, n, q, rest
<1>4. -Half <= rest /\ rest < Half
  BY <1>1, <1>3 DEF Magnitude
<1>5. q # Half
  <2> SUFFICES ASSUME q = Half PROVE FALSE
    OBVIOUS
  <2>1. m = -Half
    BY <1>1, <1>3 DEF Magnitude
  <2>2. -Half = Half * n + rest
    BY <1>3, <2>1
  <2>3. CASE n >= 0
    <3>1. Half * n \in Nat /\ (rest = 0 \/ rest < 0) /\ n > 0
      BY <1>1, <1>2, <1>3, <2>1, <2>3
    <3>2. Half * n >= Half
      BY <1>1, <3>1, Z3
    <3> QED BY <1>1, <1>3, <1>4, <2>2, <3>1, <3>2
  <2>4. CASE n < -1
    <3>1. Half * n <= -(2 * Half)
      BY <1>1, <2>4, Z3
    <3>2. Half * n \in Int
      BY <1>1
    <3> QED BY <1>1, <1>3, <1>4, <2>2, <3>1, <3>2
  <2>5. n # -1
    BY <1>2, <2>1
  <2> QED BY <1>1, <2>3, <2>4, <2>5
<1>6. -Half <= q /\ q < Half
  BY <1>1, <1>3, <1>5 DEF Magnitude
<1>7. Signed(Div(a, b)) = q
  BY <1>3, <1>6, SignedOfUnsigned DEF Div, m, n, q
<1>8. Signed(Mod(a, b)) = rest
  BY <1>3, <1>4, SignedOfUnsigned DEF Mod, m, n, q, rest
<1> QED BY <1>3, <1>7, <1>8 DEF m, n

(* Division of words is that of int64_t wherever the processor does not    *)
(* trap, for every width (executor.cpp:137-168).                           *)
THEOREM PrimDivides == PrimSpec => []DivisionIsSigned
<1>1. ASSUME PrimInv, NEW b \in Operand, ~DivTraps(acc, b)
      PROVE  LET m == Signed(acc)
                 n == Signed(b)
                 rest == Signed(Mod(acc, b))
             IN  /\ m = Signed(Div(acc, b)) * n + rest
                 /\ Magnitude(rest) < Magnitude(n)
                 /\ rest # 0 => (rest < 0) = (m < 0)
  <2>1. acc \in Word /\ b \in Word
    BY <1>1, OperandWord DEF PrimInv, StateOK
  <2> QED BY <1>1, <2>1, DivisionOfWords
<1>2. PrimInv => DivisionIsSigned
  BY <1>1 DEF DivisionIsSigned
<1> QED BY <1>2, PrimInvariant, PTL

-----------------------------------------------------------------------------
(* Sizes of arrays of references.                                          *)
LEMMA AddWords ==
    ASSUME NEW n \in Int, NEW k \in Int
    PROVE  Unsigned(n + k * WordSize) = Unsigned(n)
<1> DEFINE q == n \div WordSize
           r == n % WordSize
<1>1. WordSize \in Nat /\ WordSize > 0
  BY WordSizeNat
<1>2. q \in Int /\ r \in 0 .. WordSize - 1 /\ n = q * WordSize + r
  BY <1>1
<1> HIDE DEF q, r
<1>3. n + k * WordSize = (q + k) * WordSize + r
  BY <1>1, <1>2, Z3
<1>4. ((q + k) * WordSize + r) % WordSize = r
  BY <1>1, <1>2, Z3
<1> QED BY <1>3, <1>4 DEF Unsigned, r

LEMMA SizesOfArrays ==
    ASSUME NEW len \in Word
    PROVE  LET fits == SizeOfObjectArray(len) >= BytesOf(len) IN
           /\ fits <=> len <= LongestArray
           /\ fits => SizeOfObjectArray(len) = BytesOf(len)
<1> DEFINE size == SizeOfObjectArray(len)
           top == WordSize - 1 - BytesOf(0)
<1>1. /\ len \in Nat /\ WordBytes \in Nat /\ WordBytes > 0
      /\ WordSize \in Nat /\ WordSize > 0
  BY WordSizeNat, WordBytesAssumption
<1>2. /\ BytesOf(len) \in Nat
      /\ BytesOf(len) = BytesOf(0) + len * WordBytes
      /\ BytesOf(0) \in Nat
  <2>1. len * WordBytes \in Nat
    BY <1>1
  <2>2. (1 + len) * WordBytes = WordBytes + len * WordBytes
    BY <1>1, Z3
  <2>3. (1 + 0) * WordBytes = WordBytes
    BY <1>1
  <2> QED BY <1>1, <2>1, <2>2, <2>3 DEF BytesOf, HeaderBytes
<1>3. size = Unsigned(BytesOf(len))
  <2>1. CASE len < Half
    BY <2>1 DEF SizeOfObjectArray, Signed
  <2>2. CASE ~(len < Half)
    <3>1. Signed(len) = len - WordSize
      BY <2>2 DEF Signed
    <3>2. (1 + (len - WordSize)) * WordBytes = (1 + len) * WordBytes + (-WordBytes) * WordSize
      BY <1>1, Z3
    <3>3. (1 + len) * WordBytes \in Int /\ (-WordBytes) * WordSize \in Int
      BY <1>1
    <3>4. BytesOf(len - WordSize) = BytesOf(len) + (-WordBytes) * WordSize
      BY <1>1, <3>2, <3>3 DEF BytesOf, HeaderBytes
    <3>5. BytesOf(len) \in Int /\ -WordBytes \in Int
      BY <1>1, <1>2
    <3> QED BY <3>1, <3>4, <3>5, AddWords DEF SizeOfObjectArray
  <2> QED BY <2>1, <2>2
<1>4. size \in 0 .. WordSize - 1
  BY <1>2, <1>3, UnsignedWord DEF Word
<1>5. BytesOf(len) <= WordSize - 1 => size = BytesOf(len)
  BY <1>1, <1>2, <1>3, UnsignedOfWord DEF Word
<1>6. BytesOf(len) <= WordSize - 1 <=> len * WordBytes <= top
  <2>1. len * WordBytes \in Nat
    BY <1>1
  <2> QED BY <1>1, <1>2, <2>1
<1>7. len * WordBytes <= top <=> len <= top \div WordBytes
  <2>1. top \in Int
    BY <1>1, <1>2
  <2> HIDE DEF top
  <2> DEFINE q == top \div WordBytes
             r == top % WordBytes
  <2>2. q \in Int /\ r \in 0 .. WordBytes - 1 /\ top = q * WordBytes + r
    BY <1>1, <2>1
  <2> HIDE DEF q, r
  <2>3. len <= q => len * WordBytes <= top
    <3>1. len <= q => len * WordBytes <= q * WordBytes
      BY <1>1, <2>2, Z3
    <3>2. q * WordBytes \in Int /\ len * WordBytes \in Int
      BY <1>1, <2>2
    <3> QED BY <1>1, <2>2, <3>1, <3>2
  <2>4. len > q => len * WordBytes > top
    <3>1. len > q => len * WordBytes >= (q + 1) * WordBytes
      BY <1>1, <2>2, Z3
    <3>2. (q + 1) * WordBytes = q * WordBytes + WordBytes
      BY <1>1, <2>2, Z3
    <3>3. q * WordBytes \in Int /\ len * WordBytes \in Int
      BY <1>1, <2>2
    <3> QED BY <1>1, <2>2, <3>1, <3>2, <3>3
  <2>5. len * WordBytes \in Int
    BY <1>1
  <2> QED BY <1>1, <2>1, <2>2, <2>3, <2>4, <2>5 DEF q
<1>8. LongestArray = top \div WordBytes
  BY DEF LongestArray
<1> HIDE DEF size, top
<1>9. size >= BytesOf(len) <=> BytesOf(len) <= WordSize - 1
  BY <1>1, <1>2, <1>4, <1>5
<1> QED BY <1>5, <1>6, <1>7, <1>8, <1>9 DEF size

(* The block of an array of references is too small for exactly the        *)
(* lengths a word cannot measure, for every width (objects.hpp:156-158).   *)
THEOREM PrimArraySizes == PrimSpec => []RefArrayFits
<1>1. PrimInv => RefArrayFits
  BY SizesOfArrays DEF PrimInv, StateOK, RefArrayFits
<1> QED BY <1>1, PrimInvariant, PTL
=============================================================================
