---------------------------- MODULE LoaderProofs ----------------------------
(***************************************************************************)
(* The decoder undoes the encoder, the loader undoes the writer of files,  *)
(* and what clients of the builder were told is what they get.             *)
(*                                                                         *)
(* While a file is read, the loader is at a place of it that the counts    *)
(* tell, and what it has loaded so far is what was written so far.         *)
(***************************************************************************)
EXTENDS CodeManager, SequenceTheorems, NaturalsInduction, WellFoundedInduction, TLAPS

-----------------------------------------------------------------------------
(* Instructions.                                                           *)

(* Division of a number given as quotient and remainder.                   *)
LEMMA DivisionUnique ==
    ASSUME NEW b \in Nat \ {0}, NEW q \in Nat, NEW r \in 0 .. b - 1
    PROVE  (b * q + r) \div b = q /\ (b * q + r) % b = r
<1> DEFINE n == b * q + r
<1>1. b * q \in Nat
  BY Z3
<1>2. n \in Nat
  BY <1>1
<1>3. n = b * (n \div b) + (n % b) /\ n \div b \in Int /\ n % b \in 0 .. b - 1
  BY <1>2, SMTT(60)
<1> QED
  BY <1>3, SMTT(60)

(* The three fields of a word, in base ByteSize.                           *)
LEMMA WordFields ==
    ASSUME NEW op \in Byte, NEW r \in Byte, NEW imm \in Nat,
           NEW word, word = op + ByteSize * r + ByteSize * ByteSize * imm
    PROVE  /\ word % ByteSize = op
           /\ (word \div ByteSize) % ByteSize = r
           /\ word \div (ByteSize * ByteSize) = imm
<1> DEFINE b == ByteSize
           m == r + b * imm
<1>1. b \in Nat \ {0} /\ op \in 0 .. b - 1 /\ r \in 0 .. b - 1
  BY ByteAssumption DEF Byte
<1>2. word = op + b * r + b * b * imm
  OBVIOUS
<1> HIDE DEF b
<1>3. b * imm \in Nat
  BY <1>1, Z3
<1>4. m \in Nat
  BY <1>1, <1>3
<1>5. word = b * m + op
  BY <1>1, <1>2, Z3
<1>6. word \div b = m /\ word % b = op
  <2> HIDE DEF m
  <2> QED
    BY <1>1, <1>4, <1>5, DivisionUnique
<1>7. m % b = r
  <2>1. m = b * imm + r
    BY <1>1, <1>3
  <2> QED
    BY <1>1, <2>1, DivisionUnique
<1>8. b * b \in Nat \ {0} /\ op + b * r \in 0 .. b * b - 1
  BY <1>1, Z3
<1>9. ((b * b) * imm + (op + b * r)) \div (b * b) = imm
  BY <1>8, DivisionUnique
<1>10. word = (b * b) * imm + (op + b * r)
  BY <1>1, <1>2, Z3
<1>11. word \div (b * b) = imm
  BY <1>9, <1>10, Zenon
<1> QED
  BY <1>6, <1>7, <1>11, Zenon DEF b

(* What a word of opcode, register and immidiate parses to.                *)
LEMMA ParseWord ==
    ASSUME NEW op \in Byte, NEW r \in Byte, NEW imm \in Imm,
           NEW word, word = op + ByteSize * r + ImmSize * imm
    PROVE  Parse(word) =
             [operation |-> op, immidiate |-> imm, r1 |-> r,
              r2 |-> imm % ByteSize]
<1>1. /\ ByteSize \in Nat \ {0}
      /\ op \in 0 .. ByteSize - 1 /\ r \in 0 .. ByteSize - 1
  BY ByteAssumption DEF Byte
<1>2. ImmSize \in Nat \ {0}
  BY <1>1, Z3 DEF ImmSize
<1>3. imm \in Nat /\ imm \in 0 .. ImmSize - 1
  BY <1>2 DEF Imm
<1>4. word = op + ByteSize * r + ByteSize * ByteSize * imm
  BY DEF ImmSize
<1>5. /\ word % ByteSize = op
      /\ (word \div ByteSize) % ByteSize = r
      /\ word \div (ByteSize * ByteSize) = imm
  BY <1>3, <1>4, WordFields
<1>6. imm % ImmSize = imm
  BY <1>2, <1>3
<1>7. word \div ImmSize = imm
  BY <1>5 DEF ImmSize
<1> QED
  BY <1>5, <1>6, <1>7 DEF Parse

(* The instruction the executor decodes (decoder.cpp:7) has the operation, *)
(* registers and immidiate that the builder or the assembler encoded       *)
(* (instr2Raw.cpp:12-25), in each of the formats, whatever the operands.   *)
THEOREM ParseUndoesRaw ==
    ASSUME NEW op \in Byte, NEW r1 \in Byte, NEW r2 \in Byte, NEW imm \in Imm
    PROVE  /\ Parse(RawN(op)).operation = op
           /\ Parse(RawI(op, imm)).operation = op
           /\ Parse(RawI(op, imm)).immidiate = imm
           /\ Parse(RawRI(op, r1, imm)).operation = op
           /\ Parse(RawRI(op, r1, imm)).r1 = r1
           /\ Parse(RawRI(op, r1, imm)).immidiate = imm
           /\ Parse(RawRR(op, r1, r2)).operation = op
           /\ Parse(RawRR(op, r1, r2)).r1 = r1
           /\ Parse(RawRR(op, r1, r2)).r2 = r2
<1>1. /\ ByteSize \in Nat \ {0} /\ ImmSize \in Nat
      /\ ByteSize <= ImmSize
  BY ByteAssumption, Z3 DEF ImmSize
<1>2. 0 \in Byte /\ 0 \in Imm /\ r2 \in Imm /\ r2 % ByteSize = r2
  BY <1>1 DEF Byte, Imm
<1>3. op \in Int /\ imm \in Int
  BY <1>1 DEF Byte, Imm
<1>4. op = op + ByteSize * 0 + ImmSize * 0
  BY <1>1, <1>3
<1>5. op + ImmSize * imm = op + ByteSize * 0 + ImmSize * imm
  BY <1>1, <1>3
<1>6. Parse(RawN(op)).operation = op
  BY <1>2, <1>4, ParseWord DEF RawN
<1>7. Parse(RawI(op, imm)).operation = op /\ Parse(RawI(op, imm)).immidiate = imm
  BY <1>2, <1>5, ParseWord DEF RawI
<1>8. /\ Parse(RawRI(op, r1, imm)).operation = op
      /\ Parse(RawRI(op, r1, imm)).r1 = r1
      /\ Parse(RawRI(op, r1, imm)).immidiate = imm
  BY ParseWord DEF RawRI
<1>9. /\ Parse(RawRR(op, r1, r2)).operation = op
      /\ Parse(RawRR(op, r1, r2)).r1 = r1
      /\ Parse(RawRR(op, r1, r2)).r2 = r2
  BY <1>2, ParseWord DEF RawRR
<1> QED
  BY <1>6, <1>7, <1>8, <1>9

-----------------------------------------------------------------------------
(* Sequences.                                                              *)

IsSequence(s) == s \in Seq(Range(s))

LEMMA SequenceIs ==
    ASSUME NEW S, NEW s \in Seq(S)
    PROVE  IsSequence(s)
BY SeqOfRange DEF IsSequence

LEMMA LongerSequence ==
    ASSUME NEW s, IsSequence(s), NEW x
    PROVE  /\ IsSequence(Append(s, x))
           /\ Len(s) \in Nat
           /\ Len(Append(s, x)) = Len(s) + 1
           /\ \A i \in 1 .. Len(s) : Append(s, x)[i] = s[i]
           /\ Append(s, x)[Len(s) + 1] = x
<1> DEFINE S == Range(s) \cup {x}
<1>1. s \in Seq(S) /\ x \in S
  BY SeqMonotonic DEF IsSequence
<1> HIDE DEF S
<1>2. /\ Append(s, x) \in Seq(S)
      /\ Len(Append(s, x)) = Len(s) + 1
      /\ \A i \in 1 .. Len(s) : Append(s, x)[i] = s[i]
      /\ Append(s, x)[Len(s) + 1] = x
  BY <1>1, AppendProperties
<1>3. IsSequence(Append(s, x)) /\ Len(s) \in Nat
  BY <1>1, <1>2, LenProperties, SequenceIs
<1> QED
  BY <1>2, <1>3

LEMMA LeastNatural ==
    ASSUME NEW T \in SUBSET Nat, T # {}
    PROVE  \E m \in T : \A n \in T : m <= n
<1> DEFINE R == OpToRel(<, Nat)
<1>1. IsWellFoundedOn(R, Nat)
  BY NatLessThanWellFounded
<1>2. \A x, y \in T : <<y, x>> \in R <=> y < x
  BY DEF OpToRel
<1> HIDE DEF R
<1>3. PICK m \in T : \A n \in T : <<n, m>> \notin R
  BY <1>1, WFMin
<1>4. ASSUME NEW n \in T PROVE m <= n
  <2>1. ~(n < m)
    BY <1>2, <1>3
  <2>2. m \in Nat /\ n \in Nat
    OBVIOUS
  <2> QED BY <2>1, <2>2
<1> QED
  BY <1>4

(* The recursive function of FlattenSeq exists.                            *)
Flattens(f, ss, n) ==
    f = [i \in 1 .. n |-> IF i = 1 THEN ss[i] ELSE f[i - 1] \o ss[i]]

LEMMA FlattensStep ==
    ASSUME NEW f, NEW ss, NEW n \in Nat, Flattens(f, ss, n), NEW i \in 1 .. n
    PROVE  f[i] = IF i = 1 THEN ss[i] ELSE f[i - 1] \o ss[i]
BY Zenon DEF Flattens

LEMMA FlattensExists ==
    ASSUME NEW ss, NEW N \in Nat
    PROVE  \E f : Flattens(f, ss, N)
<1> DEFINE T == {n \in Nat : ~ \E f : Flattens(f, ss, n)}
<1> SUFFICES ASSUME T # {} PROVE FALSE
  OBVIOUS
<1>0. T \in SUBSET Nat
  OBVIOUS
<1> HIDE DEF T
<1>1. PICK n \in T : \A m \in T : n <= m
  BY <1>0, LeastNatural
<1> USE DEF T
<1>2. n \in Nat /\ ~ \E f : Flattens(f, ss, n)
  OBVIOUS
<1>3. n - 1 \in Nat => \E f : Flattens(f, ss, n - 1)
  BY <1>1, <1>2
<1> HIDE DEF T
<1>4. n # 0
  <2> SUFFICES ASSUME n = 0 PROVE FALSE
    OBVIOUS
  <2> DEFINE e == [i \in 1 .. n |-> ss[i]]
  <2>1. 1 .. n = {}
    BY <1>2
  <2>2. e = [i \in 1 .. n |-> IF i = 1 THEN ss[i] ELSE e[i - 1] \o ss[i]]
    BY <2>1
  <2>3. Flattens(e, ss, n)
    BY <2>2, Zenon DEF Flattens
  <2> QED BY <1>2, <2>3
<1>5. PICK g : Flattens(g, ss, n - 1)
  BY <1>2, <1>3, <1>4
<1> DEFINE h == [i \in 1 .. n |-> IF i = 1 THEN ss[i] ELSE g[i - 1] \o ss[i]]
<1>6. \A i \in 1 .. n : h[i] = IF i = 1 THEN ss[i] ELSE g[i - 1] \o ss[i]
  OBVIOUS
<1>7. \A i \in 1 .. n : i # 1 => h[i - 1] = g[i - 1]
  <2> SUFFICES ASSUME NEW i \in 1 .. n, i # 1 PROVE h[i - 1] = g[i - 1]
    OBVIOUS
  <2>1. i - 1 \in 1 .. n - 1 /\ i - 1 \in 1 .. n /\ n - 1 \in Nat
    BY <1>2, <1>4
  <2>2. g[i - 1] = IF i - 1 = 1 THEN ss[i - 1] ELSE g[i - 1 - 1] \o ss[i - 1]
    BY <1>5, <2>1, FlattensStep
  <2> QED BY <1>6, <2>1, <2>2
<1>8. h = [i \in 1 .. n |-> IF i = 1 THEN ss[i] ELSE h[i - 1] \o ss[i]]
  <2>1. h = [i \in 1 .. n |-> h[i]]
    BY DEF h
  <2>2. \A i \in 1 .. n : h[i] = IF i = 1 THEN ss[i] ELSE h[i - 1] \o ss[i]
    BY <1>6, <1>7
  <2> HIDE DEF h
  <2> QED BY <2>1, <2>2, Zenon
<1>9. Flattens(h, ss, n)
  BY <1>8, Zenon DEF Flattens
<1> QED
  BY <1>2, <1>9


LEMMA FlattenSeqIs ==
    ASSUME NEW ss
    PROVE  FlattenSeq(ss) =
             IF Len(ss) = 0 THEN ss
             ELSE (CHOOSE f : Flattens(f, ss, Len(ss)))[Len(ss)]
BY Zenon DEF FlattenSeq, Flattens

(* Flattened, the sequences follow each other, each at its offset.         *)
Offset(o, ss) ==
    /\ o \in [0 .. Len(ss) -> Nat]
    /\ o[0] = 0
    /\ \A k \in 1 .. Len(ss) : o[k] = o[k - 1] + Len(ss[k])

LEMMA FlattenOffsets ==
    ASSUME NEW S, NEW ss \in Seq(Seq(S))
    PROVE  /\ FlattenSeq(ss) \in Seq(S)
           /\ \E o : /\ Offset(o, ss)
                     /\ Len(FlattenSeq(ss)) = o[Len(ss)]
                     /\ \A k \in 1 .. Len(ss) : \A j \in 1 .. Len(ss[k]) :
                           FlattenSeq(ss)[o[k - 1] + j] = ss[k][j]
<1> DEFINE N == Len(ss)
           g == CHOOSE f : Flattens(f, ss, N)
           F == [k \in 0 .. N |-> IF k = 0 THEN <<>> ELSE g[k]]
           o == [k \in 0 .. N |-> Len(F[k])]
<1>1. N \in Nat /\ \A k \in 1 .. N : ss[k] \in Seq(S) /\ Len(ss[k]) \in Nat
  BY LenProperties
<1>2. Flattens(g, ss, N)
  BY <1>1, FlattensExists
<1>3. FlattenSeq(ss) = IF N = 0 THEN ss ELSE g[N]
  BY FlattenSeqIs
<1> HIDE DEF N, g
<1>4. \A k \in 0 .. N : F[k] = IF k = 0 THEN <<>> ELSE g[k]
  BY DEF F
<1>5. F[0] = <<>>
  BY <1>1, <1>4
<1>6. \A k \in 1 .. N : F[k] = F[k - 1] \o ss[k]
  <2> SUFFICES ASSUME NEW k \in 1 .. N PROVE F[k] = F[k - 1] \o ss[k]
    OBVIOUS
  <2>1. g[k] = IF k = 1 THEN ss[k] ELSE g[k - 1] \o ss[k]
    BY <1>1, <1>2, FlattensStep
  <2>2. k \in 0 .. N /\ k - 1 \in 0 .. N /\ k # 0 /\ (k - 1 = 0 <=> k = 1)
    BY <1>1
  <2>3. F[k] = g[k] /\ F[k - 1] = IF k = 1 THEN <<>> ELSE g[k - 1]
    BY <1>4, <2>2
  <2>4. <<>> \o ss[k] = ss[k]
    BY <1>1, ConcatEmptySeq
  <2> QED BY <2>1, <2>3, <2>4
<1> HIDE DEF F
<1>7. \A k \in 0 .. N : F[k] \in Seq(S)
  <2> DEFINE T == {k \in 0 .. N : F[k] \notin Seq(S)}
  <2> SUFFICES ASSUME T # {} PROVE FALSE
    OBVIOUS
  <2>1. T \in SUBSET Nat
    BY <1>1
  <2> HIDE DEF T
  <2>2. PICK k \in T : \A m \in T : k <= m
    BY <2>1, LeastNatural
  <2> USE DEF T
  <2>3. k \in 0 .. N /\ F[k] \notin Seq(S)
    OBVIOUS
  <2>4. k # 0
    BY <1>5, <2>3, EmptySeq
  <2>5. k \in 1 .. N /\ k - 1 \in 0 .. N
    BY <1>1, <2>3, <2>4
  <2>6. F[k - 1] \in Seq(S)
    BY <1>1, <2>2, <2>5
  <2> QED
    BY <1>1, <1>6, <2>3, <2>5, <2>6, ConcatProperties
<1>8. FlattenSeq(ss) = F[N]
  <2>1. CASE N = 0
    <3>1. ss = <<>>
      BY <2>1, EmptySeq DEF N
    <3> QED BY <1>3, <1>5, <2>1, <3>1
  <2>2. CASE N # 0
    BY <1>1, <1>3, <1>4, <2>2
  <2> QED BY <2>1, <2>2
<1>9. \A k \in 1 .. N :
         /\ k - 1 \in 0 .. N /\ k \in 0 .. N
         /\ Len(F[k]) = Len(F[k - 1]) + Len(ss[k])
         /\ \A j \in 1 .. Len(F[k - 1]) : F[k][j] = F[k - 1][j]
         /\ \A j \in 1 .. Len(ss[k]) : F[k][Len(F[k - 1]) + j] = ss[k][j]
  <2> SUFFICES ASSUME NEW k \in 1 .. N
               PROVE  /\ k - 1 \in 0 .. N /\ k \in 0 .. N
                      /\ Len(F[k]) = Len(F[k - 1]) + Len(ss[k])
                      /\ \A j \in 1 .. Len(F[k - 1]) : F[k][j] = F[k - 1][j]
                      /\ \A j \in 1 .. Len(ss[k]) :
                            F[k][Len(F[k - 1]) + j] = ss[k][j]
    OBVIOUS
  <2>1. k - 1 \in 0 .. N /\ k \in 0 .. N
    BY <1>1
  <2>2. F[k - 1] \in Seq(S) /\ ss[k] \in Seq(S) /\ F[k] = F[k - 1] \o ss[k]
    BY <1>1, <1>6, <1>7, <2>1
  <2>3. /\ Len(F[k]) = Len(F[k - 1]) + Len(ss[k])
        /\ \A i \in 1 .. Len(F[k - 1]) + Len(ss[k]) :
              F[k][i] = IF i <= Len(F[k - 1]) THEN F[k - 1][i]
                        ELSE ss[k][i - Len(F[k - 1])]
    <3> DEFINE s == F[k - 1]
               t == ss[k]
    <3>1. s \in Seq(S) /\ t \in Seq(S) /\ F[k] = s \o t
      BY <2>2
    <3> HIDE DEF s, t
    <3>2. /\ Len(s \o t) = Len(s) + Len(t)
          /\ \A i \in 1 .. Len(s) + Len(t) :
                (s \o t)[i] = IF i <= Len(s) THEN s[i] ELSE t[i - Len(s)]
      BY <3>1, ConcatProperties
    <3> QED BY <3>1, <3>2 DEF s, t
  <2>4. Len(F[k - 1]) \in Nat /\ Len(ss[k]) \in Nat
    BY <2>2, LenProperties
  <2> DEFINE a == Len(F[k - 1])
             b == Len(ss[k])
  <2>5. \A j \in 1 .. Len(F[k - 1]) : F[k][j] = F[k - 1][j]
    <3>1. \A j \in 1 .. a : j \in 1 .. a + b /\ j <= a
      <4>1. a \in Nat /\ b \in Nat
        BY <2>4
      <4> HIDE DEF a, b
      <4> QED BY <4>1
    <3> QED BY <2>3, <3>1
  <2>6. \A j \in 1 .. Len(ss[k]) : F[k][Len(F[k - 1]) + j] = ss[k][j]
    <3> SUFFICES ASSUME NEW j \in 1 .. Len(ss[k])
                 PROVE  F[k][Len(F[k - 1]) + j] = ss[k][j]
      OBVIOUS
    <3> DEFINE i == a + j
    <3>1. a \in Nat /\ b \in Nat /\ j \in 1 .. b
      BY <2>4
    <3>2. i \in 1 .. a + b /\ ~(i <= a) /\ i - a = j
      <4> HIDE DEF a, b
      <4> QED BY <3>1
    <3> HIDE DEF i
    <3>3. F[k][i] = ss[k][i - a]
      BY <2>3, <3>2
    <3>4. F[k][i] = ss[k][j]
      BY <3>2, <3>3
    <3> QED BY <3>4 DEF i
  <2> QED BY <2>1, <2>3, <2>5, <2>6
<1>10. \A k \in 0 .. N : Len(F[k]) \in Nat
  BY <1>7, LenProperties
<1>11. \A k \in 0 .. N : o[k] = Len(F[k])
  OBVIOUS
<1>12. Offset(o, ss)
  <2>1. o \in [0 .. N -> Nat]
    BY <1>10
  <2>2. 0 \in 0 .. N /\ o[0] = 0
    BY <1>1, <1>5, <1>11
  <2> HIDE DEF o
  <2>3. \A k \in 1 .. N : o[k] = o[k - 1] + Len(ss[k])
    BY <1>9, <1>11
  <2> QED BY <2>1, <2>2, <2>3 DEF Offset, N
<1> HIDE DEF o
<1>13. \A k \in 1 .. N : \A j \in 1 .. Len(ss[k]) : F[N][o[k - 1] + j] = ss[k][j]
  <2> SUFFICES ASSUME NEW k \in 1 .. N, NEW j \in 1 .. Len(ss[k])
               PROVE  F[N][o[k - 1] + j] = ss[k][j]
    OBVIOUS
  <2> DEFINE p == Len(F[k - 1]) + j
             T == {m \in k .. N : ~(p \in 1 .. Len(F[m]) /\ F[m][p] = ss[k][j])}
  <2>1. /\ k - 1 \in 0 .. N /\ Len(F[k - 1]) \in Nat /\ Len(ss[k]) \in Nat
        /\ p \in Nat /\ p >= 1
    BY <1>1, <1>9, <1>10
  <2>2. k \notin T
    <3>1. /\ Len(F[k]) = Len(F[k - 1]) + Len(ss[k])
          /\ F[k][Len(F[k - 1]) + j] = ss[k][j]
      BY <1>9
    <3> DEFINE a == Len(F[k - 1])
               b == Len(ss[k])
    <3>2. p \in 1 .. Len(F[k])
      <4>1. a \in Nat /\ b \in Nat /\ j \in 1 .. b /\ Len(F[k]) = a + b
        BY <2>1, <3>1
      <4> HIDE DEF a, b
      <4>2. a + j \in 1 .. a + b
        BY <4>1
      <4> QED BY <4>1, <4>2 DEF a
    <3> QED BY <3>1, <3>2
  <2>3. T = {}
    <3> SUFFICES ASSUME T # {} PROVE FALSE
      OBVIOUS
    <3>1. T \in SUBSET Nat
      BY <1>1
    <3> HIDE DEF T
    <3>2. PICK m \in T : \A n \in T : m <= n
      BY <3>1, LeastNatural
    <3> USE DEF T
    <3> HIDE DEF p
    <3>3. /\ m \in k .. N /\ m # k
          /\ ~(p \in 1 .. Len(F[m]) /\ F[m][p] = ss[k][j])
      BY <2>2
    <3>4. /\ m - 1 \in k .. N /\ m \in 1 .. N /\ m - 1 \notin T
      BY <1>1, <3>2, <3>3
    <3>5. p \in 1 .. Len(F[m - 1]) /\ F[m - 1][p] = ss[k][j]
      BY <3>4
    <3>6. /\ Len(F[m]) = Len(F[m - 1]) + Len(ss[m])
          /\ F[m][p] = F[m - 1][p]
          /\ Len(ss[m]) \in Nat /\ Len(F[m - 1]) \in Nat
      BY <1>1, <1>9, <1>10, <3>4, <3>5
    <3> HIDE DEF T
    <3> DEFINE a == Len(F[m - 1])
               b == Len(ss[m])
    <3>7. p \in 1 .. Len(F[m])
      <4>1. a \in Nat /\ b \in Nat /\ p \in 1 .. a /\ Len(F[m]) = a + b
        BY <3>5, <3>6
      <4> HIDE DEF a, b
      <4> QED BY <4>1
    <3> QED BY <3>3, <3>5, <3>6, <3>7
  <2>4. N \in k .. N /\ N \notin T
    BY <1>1, <2>3
  <2>5. F[N][p] = ss[k][j]
    <3> HIDE DEF p
    <3> QED BY <2>4
  <2> QED BY <1>11, <2>1, <2>5
<1>14. FlattenSeq(ss) \in Seq(S) /\ Len(FlattenSeq(ss)) = o[N]
  <2>1. N \in 0 .. N
    BY <1>1
  <2> QED BY <1>7, <1>8, <1>11, <2>1
<1> DEFINE flat == FlattenSeq(ss)
<1>15. flat \in Seq(S) /\ flat = F[N]
  BY <1>8, <1>14
<1>16. Len(flat) = o[N]
  BY <1>14
<1> HIDE DEF flat, o, F
<1>17. \A k \in 1 .. N : \A j \in 1 .. Len(ss[k]) : flat[o[k - 1] + j] = ss[k][j]
  BY <1>13, <1>15
<1>18. /\ flat \in Seq(S)
       /\ \E q : /\ Offset(q, ss)
                 /\ Len(flat) = q[N]
                 /\ \A k \in 1 .. N : \A j \in 1 .. Len(ss[k]) :
                       flat[q[k - 1] + j] = ss[k][j]
  BY <1>12, <1>15, <1>16, <1>17
<1> QED
  BY <1>18 DEF flat, N


(* u is s followed by t.                                                   *)
Joins(u, s, t) ==
    /\ Len(s) \in Nat /\ Len(t) \in Nat
    /\ Len(u) = Len(s) + Len(t)
    /\ \A i \in 1 .. Len(s) : u[i] = s[i]
    /\ \A j \in 1 .. Len(t) : u[Len(s) + j] = t[j]

LEMMA ConcatJoins ==
    ASSUME NEW S, NEW s \in Seq(S), NEW t \in Seq(S)
    PROVE  s \o t \in Seq(S) /\ Joins(s \o t, s, t)
<1> DEFINE a == Len(s)
           b == Len(t)
<1>1. /\ s \o t \in Seq(S)
      /\ Len(s \o t) = Len(s) + Len(t)
      /\ \A i \in 1 .. a + b : (s \o t)[i] = IF i <= a THEN s[i] ELSE t[i - a]
  BY ConcatProperties
<1>2. a \in Nat /\ b \in Nat
  BY LenProperties
<1>3. \A i \in 1 .. a : i \in 1 .. a + b /\ i <= a
  <2> HIDE DEF a, b
  <2> QED BY <1>2
<1>4. \A j \in 1 .. b : a + j \in 1 .. a + b /\ ~(a + j <= a) /\ (a + j) - a = j
  <2> HIDE DEF a, b
  <2> QED BY <1>2
<1>5. \A i \in 1 .. a : (s \o t)[i] = s[i]
  BY <1>1, <1>3
<1>6. \A j \in 1 .. b : (s \o t)[a + j] = t[j]
  <2> SUFFICES ASSUME NEW j \in 1 .. b PROVE (s \o t)[a + j] = t[j]
    OBVIOUS
  <2> DEFINE i == a + j
  <2>1. i \in 1 .. a + b /\ ~(i <= a) /\ i - a = j
    BY <1>4
  <2> HIDE DEF i
  <2>2. (s \o t)[i] = t[i - a]
    BY <1>1, <2>1
  <2>3. (s \o t)[i] = t[j]
    BY <2>1, <2>2
  <2> QED BY <2>3 DEF i
<1> QED
  BY <1>1, <1>2, <1>5, <1>6 DEF Joins

(* Where the parts of a file are.                                          *)
AreParts(f, s1, s2, s3, s4, s5, s6) ==
    /\ Len(f) = 3 + Len(s2) + Len(s4) + Len(s6)
    /\ f[1] = s1[1]
    /\ \A i \in 1 .. Len(s2) : f[1 + i] = s2[i]
    /\ f[2 + Len(s2)] = s3[1]
    /\ \A i \in 1 .. Len(s4) : f[2 + Len(s2) + i] = s4[i]
    /\ f[3 + Len(s2) + Len(s4)] = s5[1]
    /\ \A i \in 1 .. Len(s6) : f[3 + Len(s2) + Len(s4) + i] = s6[i]

LEMMA PartsOfFile ==
    ASSUME NEW S,
           NEW s1 \in Seq(S), NEW s2 \in Seq(S), NEW s3 \in Seq(S),
           NEW s4 \in Seq(S), NEW s5 \in Seq(S), NEW s6 \in Seq(S),
           Len(s1) = 1, Len(s3) = 1, Len(s5) = 1
    PROVE  LET f == s1 \o s2 \o s3 \o s4 \o s5 \o s6
           IN  f \in Seq(S) /\ AreParts(f, s1, s2, s3, s4, s5, s6)
<1> DEFINE f == s1 \o s2 \o s3 \o s4 \o s5 \o s6
<1> DEFINE t2 == s1 \o s2
           t3 == t2 \o s3
           t4 == t3 \o s4
           t5 == t4 \o s5
           a == Len(s2)
           b == Len(s4)
           c == Len(s6)
<1>1. f = t5 \o s6
  OBVIOUS
<1>2. /\ t2 \in Seq(S) /\ Len(t2) = 1 + a /\ a \in Nat
      /\ t2[1] = s1[1]
      /\ \A i \in 1 .. a : t2[1 + i] = s2[i]
  <2>1. t2 \in Seq(S) /\ Joins(t2, s1, s2)
    BY ConcatJoins
  <2> HIDE DEF t2
  <2>2. 1 \in 1 .. 1
    OBVIOUS
  <2> QED BY <2>1, <2>2 DEF Joins
<1>3. /\ t3 \in Seq(S) /\ Len(t3) = 1 + a + 1
      /\ \A i \in 1 .. 1 + a : t3[i] = t2[i]
      /\ t3[1 + a + 1] = s3[1]
  <2> HIDE DEF t2
  <2>1. t3 \in Seq(S) /\ Joins(t3, t2, s3)
    BY <1>2, ConcatJoins
  <2> HIDE DEF t3
  <2>2. 1 \in 1 .. 1
    OBVIOUS
  <2> QED BY <1>2, <2>1, <2>2 DEF Joins
<1>4. /\ t4 \in Seq(S) /\ Len(t4) = 1 + a + 1 + b /\ b \in Nat
      /\ \A i \in 1 .. 1 + a + 1 : t4[i] = t3[i]
      /\ \A i \in 1 .. b : t4[1 + a + 1 + i] = s4[i]
  <2> HIDE DEF t3
  <2>1. t4 \in Seq(S) /\ Joins(t4, t3, s4)
    BY <1>3, ConcatJoins
  <2> HIDE DEF t4
  <2> QED BY <1>3, <2>1 DEF Joins
<1>5. /\ t5 \in Seq(S) /\ Len(t5) = 1 + a + 1 + b + 1
      /\ \A i \in 1 .. 1 + a + 1 + b : t5[i] = t4[i]
      /\ t5[1 + a + 1 + b + 1] = s5[1]
  <2> HIDE DEF t4
  <2>1. t5 \in Seq(S) /\ Joins(t5, t4, s5)
    BY <1>4, ConcatJoins
  <2> HIDE DEF t5
  <2>2. 1 \in 1 .. 1
    OBVIOUS
  <2> QED BY <1>4, <2>1, <2>2 DEF Joins
<1>6. /\ f \in Seq(S) /\ Len(f) = 1 + a + 1 + b + 1 + c /\ c \in Nat
      /\ \A i \in 1 .. 1 + a + 1 + b + 1 : f[i] = t5[i]
      /\ \A i \in 1 .. c : f[1 + a + 1 + b + 1 + i] = s6[i]
  <2> HIDE DEF t5
  <2>1. f \in Seq(S) /\ Joins(f, t5, s6)
    BY <1>1, <1>5, ConcatJoins
  <2> HIDE DEF f
  <2> QED BY <1>5, <2>1 DEF Joins
<1> HIDE DEF t2, t3, t4, t5, a, b, c, f
<1>7. \A i \in 1 .. 1 + a : f[i] = t2[i]
  <2> SUFFICES ASSUME NEW i \in 1 .. 1 + a PROVE f[i] = t2[i]
    OBVIOUS
  <2>1. i \in 1 .. 1 + a + 1 /\ i \in 1 .. 1 + a + 1 + b /\ i \in 1 .. 1 + a + 1 + b + 1
    BY <1>2, <1>4
  <2> QED BY <1>3, <1>4, <1>5, <1>6, <2>1
<1>8. f[1] = s1[1] /\ \A i \in 1 .. a : f[1 + i] = s2[i]
  <2>1. 1 \in 1 .. 1 + a /\ \A i \in 1 .. a : 1 + i \in 1 .. 1 + a
    BY <1>2
  <2> QED BY <1>2, <1>7, <2>1
<1>9. f[2 + a] = s3[1]
  <2>1. 1 + a + 1 = 2 + a /\ 2 + a \in 1 .. 1 + a + 1
    BY <1>2
  <2>2. 2 + a \in 1 .. 1 + a + 1 + b /\ 2 + a \in 1 .. 1 + a + 1 + b + 1
    BY <1>2, <1>4
  <2>3. t3[2 + a] = s3[1]
    BY <1>3, <2>1
  <2>4. t4[2 + a] = t3[2 + a]
    BY <1>4, <2>1
  <2>5. t5[2 + a] = t4[2 + a]
    BY <1>5, <2>2
  <2>6. f[2 + a] = t5[2 + a]
    BY <1>6, <2>2
  <2> QED BY <2>3, <2>4, <2>5, <2>6
<1>10. \A i \in 1 .. b : f[2 + a + i] = s4[i]
  <2> SUFFICES ASSUME NEW i \in 1 .. b PROVE f[2 + a + i] = s4[i]
    OBVIOUS
  <2>1. /\ 1 + a + 1 + i = 2 + a + i
        /\ 2 + a + i \in 1 .. 1 + a + 1 + b
        /\ 2 + a + i \in 1 .. 1 + a + 1 + b + 1
    <3>1. a \in Nat /\ b \in Nat
      BY <1>2, <1>4
    <3> QED BY <3>1
  <2>2. t4[2 + a + i] = s4[i]
    BY <1>4, <2>1
  <2>3. t5[2 + a + i] = t4[2 + a + i]
    BY <1>5, <2>1
  <2>4. f[2 + a + i] = t5[2 + a + i]
    BY <1>6, <2>1
  <2> QED BY <2>2, <2>3, <2>4
<1>11. f[3 + a + b] = s5[1]
  <2>1. 1 + a + 1 + b + 1 = 3 + a + b /\ 3 + a + b \in 1 .. 1 + a + 1 + b + 1
    BY <1>2, <1>4
  <2> QED BY <1>5, <1>6, <2>1
<1>12. \A i \in 1 .. c : f[3 + a + b + i] = s6[i]
  <2> SUFFICES ASSUME NEW i \in 1 .. c PROVE f[3 + a + b + i] = s6[i]
    OBVIOUS
  <2>1. 1 + a + 1 + b + 1 + i = 3 + a + b + i
    BY <1>2, <1>4, <1>6
  <2> QED BY <1>6, <2>1
<1>13. Len(f) = 3 + a + b + c
  BY <1>2, <1>4, <1>6
<1> QED
  BY <1>6, <1>8, <1>9, <1>10, <1>11, <1>12, <1>13 DEF a, b, c, f, AreParts


-----------------------------------------------------------------------------
(* What a file holds, and where.                                           *)

WellFormedConstant(c) ==
    /\ c.tag \in {CNST_I64, CNST_F64, CNST_FUNC_NAME_AND_TYPE, CNST_RAW_STR}
    /\ c.tag \in {CNST_I64, CNST_F64} => c.data \in Nat
    /\ c.tag = CNST_FUNC_NAME_AND_TYPE => c.name \in Nat /\ c.descriptor \in Nat
    /\ c.tag = CNST_RAW_STR => Len(c.text) \in Nat

KlassInfo == [nFields : Byte, fields : Seq(BOOLEAN)]
FunctionInfo == [numRegs : Byte, numArgs : Byte, code : Seq(Nat)]

WellBuilt ==
    /\ IsSequence(pool) /\ \A i \in 1 .. Len(pool) : WellFormedConstant(pool[i])
    /\ klasses \in Seq(KlassInfo)
    /\ \A k \in 1 .. Len(klasses) :
          klasses[k].nFields = Len(klasses[k].fields) % ByteSize
    /\ functions \in Seq(FunctionInfo)
    /\ rawInstrs \in Seq(Nat)

Item ==
    [count : Imm] \cup [constant : Range(pool), len : Nat]
        \cup [nFields : Byte] \cup [isObject : BOOLEAN]
        \cup [function : FunctionInfo]

FunctionAt(f) == IF f = 1 THEN MainFunc ELSE functions[f - 1]

(* The items of klass k begin after o[k - 1] items of the klasses before.  *)
Layout(o) ==
    /\ o \in [0 .. Len(klasses) -> Nat]
    /\ o[0] = 0
    /\ \A k \in 1 .. Len(klasses) :
          /\ o[k] = o[k - 1] + 1 + Len(klasses[k].fields)
          /\ o[k - 1] + 1 + Len(klasses[k].fields) <= o[Len(klasses)]
    /\ Len(File) = 4 + Len(pool) + o[Len(klasses)] + Len(functions)
    /\ File[1] = [count |-> ToImm(Len(pool))]
    /\ \A i \in 1 .. Len(pool) : File[1 + i] = WriteConstant(pool[i])
    /\ File[2 + Len(pool)] = [count |-> ToImm(Len(klasses))]
    /\ \A k \in 1 .. Len(klasses) :
          /\ File[3 + Len(pool) + o[k - 1]] = [nFields |-> klasses[k].nFields]
          /\ \A j \in 1 .. Len(klasses[k].fields) :
                File[3 + Len(pool) + o[k - 1] + j] =
                    [isObject |-> klasses[k].fields[j]]
    /\ File[3 + Len(pool) + o[Len(klasses)]] =
          [count |-> ToImm(Len(functions) + 1)]
    /\ \A f \in 1 .. Len(functions) + 1 :
          File[3 + Len(pool) + o[Len(klasses)] + f] =
              [function |-> FunctionAt(f)]

LEMMA Sizes ==
    /\ ByteSize \in Nat /\ ByteSize >= 2
    /\ ImmSize \in Nat /\ ImmSize >= 2
    /\ \A n \in Nat : ToImm(n) \in Imm /\ (n < ImmSize => ToImm(n) = n)
    /\ \A n \in Nat : n % ByteSize \in Byte /\ (n < ByteSize => n % ByteSize = n)
    /\ 0 \in Imm /\ 0 \in Byte
    /\ Imm \subseteq Nat /\ Byte \subseteq Nat
<1>1. ByteSize \in Nat /\ ByteSize >= 2
  BY ByteAssumption
<1>2. ImmSize \in Nat /\ ImmSize >= 2
  BY <1>1, Z3 DEF ImmSize
<1> QED
  BY <1>1, <1>2 DEF ToImm, Imm, Byte

LEMMA CountPart ==
    ASSUME NEW n \in Nat
    PROVE  /\ Count(n) \in Seq(Item)
           /\ Len(Count(n)) = 1
           /\ Count(n)[1] = [count |-> ToImm(n)]
<1>1. [count |-> ToImm(n)] \in Item
  BY Sizes DEF Item
<1> QED
  BY <1>1 DEF Count

LEMMA MapPart ==
    ASSUME NEW S, NEW n \in Nat, NEW s \in [1 .. n -> S]
    PROVE  s \in Seq(S) /\ Len(s) = n
<1>1. s \in Seq(S)
  BY SeqDef
<1> QED
  BY <1>1, LenProperties

LEMMA PoolPart ==
    ASSUME WellBuilt
    PROVE  /\ Len(pool) \in Nat
           /\ Map(WriteConstant, pool) \in Seq(Item)
           /\ Len(Map(WriteConstant, pool)) = Len(pool)
           /\ \A i \in 1 .. Len(pool) :
                 Map(WriteConstant, pool)[i] = WriteConstant(pool[i])
<1> DEFINE s == Map(WriteConstant, pool)
<1>1. Len(pool) \in Nat /\ \A i \in 1 .. Len(pool) : pool[i] \in Range(pool)
  BY LenProperties DEF WellBuilt, IsSequence
<1>2. s = [i \in 1 .. Len(pool) |-> WriteConstant(pool[i])]
  BY DEF Map
<1>3. ASSUME NEW i \in 1 .. Len(pool) PROVE WriteConstant(pool[i]) \in Item
  <2>1. WellFormedConstant(pool[i])
    BY DEF WellBuilt
  <2>2. pool[i].tag = CNST_RAW_STR => Len(pool[i].text) \in Nat
    BY <2>1 DEF WellFormedConstant
  <2>3. (IF pool[i].tag = CNST_RAW_STR THEN ToImm(Len(pool[i].text)) ELSE 0) \in Nat
    BY <2>2, Sizes
  <2> QED BY <1>1, <2>3 DEF WriteConstant, Item
<1>4. s \in [1 .. Len(pool) -> Item]
  BY <1>2, <1>3
<1>5. \A i \in 1 .. Len(pool) : s[i] = WriteConstant(pool[i])
  BY <1>2
<1> HIDE DEF s
<1>6. s \in Seq(Item) /\ Len(s) = Len(pool)
  BY <1>1, <1>4, MapPart
<1> QED
  BY <1>1, <1>5, <1>6 DEF s

LEMMA KlassPart ==
    ASSUME NEW klass \in KlassInfo
    PROVE  /\ Len(klass.fields) \in Nat
           /\ WriteKlass(klass) \in Seq(Item)
           /\ Len(WriteKlass(klass)) = 1 + Len(klass.fields)
           /\ WriteKlass(klass)[1] = [nFields |-> klass.nFields]
           /\ \A j \in 1 .. Len(klass.fields) :
                 WriteKlass(klass)[1 + j] = [isObject |-> klass.fields[j]]
<1> DEFINE n == Len(klass.fields)
           s == <<[nFields |-> klass.nFields]>>
           t == [i \in 1 .. n |-> [isObject |-> klass.fields[i]]]
<1>1. klass.nFields \in Byte /\ klass.fields \in Seq(BOOLEAN)
  BY DEF KlassInfo
<1>2. n \in Nat /\ \A i \in 1 .. n : klass.fields[i] \in BOOLEAN
  BY <1>1, LenProperties
<1>3. s \in Seq(Item) /\ Len(s) = 1 /\ s[1] = [nFields |-> klass.nFields]
  <2>1. [nFields |-> klass.nFields] \in Item
    BY <1>1 DEF Item
  <2> QED BY <2>1
<1>4. t \in Seq(Item) /\ Len(t) = n
  <2> HIDE DEF n
  <2>1. t \in [1 .. n -> Item]
    BY <1>2 DEF Item
  <2> HIDE DEF t
  <2> QED BY <1>2, <2>1, MapPart
<1>5. WriteKlass(klass) = s \o t
  BY DEF WriteKlass
<1>6. \A j \in 1 .. n : t[j] = [isObject |-> klass.fields[j]]
  OBVIOUS
<1> HIDE DEF s, t
<1>7. WriteKlass(klass) \in Seq(Item) /\ Joins(WriteKlass(klass), s, t)
  BY <1>3, <1>4, <1>5, ConcatJoins
<1>8. 1 \in 1 .. 1
  OBVIOUS
<1> HIDE DEF n
<1>9. /\ Len(WriteKlass(klass)) = 1 + n
      /\ WriteKlass(klass)[1] = [nFields |-> klass.nFields]
      /\ \A j \in 1 .. n : WriteKlass(klass)[1 + j] = [isObject |-> klass.fields[j]]
  BY <1>3, <1>4, <1>6, <1>7, <1>8 DEF Joins
<1> QED
  BY <1>2, <1>7, <1>9 DEF n

LEMMA KlassesPart ==
    ASSUME WellBuilt
    PROVE  /\ Len(klasses) \in Nat
           /\ FlattenSeq(Map(WriteKlass, klasses)) \in Seq(Item)
           /\ \E o : /\ o \in [0 .. Len(klasses) -> Nat]
                     /\ o[0] = 0
                     /\ Len(FlattenSeq(Map(WriteKlass, klasses))) = o[Len(klasses)]
                     /\ \A k \in 1 .. Len(klasses) :
                           /\ Len(klasses[k].fields) \in Nat
                           /\ o[k] = o[k - 1] + 1 + Len(klasses[k].fields)
                           /\ FlattenSeq(Map(WriteKlass, klasses))[o[k - 1] + 1] =
                                 [nFields |-> klasses[k].nFields]
                           /\ \A j \in 1 .. Len(klasses[k].fields) :
                                 FlattenSeq(Map(WriteKlass, klasses))[o[k - 1] + 1 + j] =
                                     [isObject |-> klasses[k].fields[j]]
<1> DEFINE ss == Map(WriteKlass, klasses)
           N == Len(klasses)
           flat == FlattenSeq(ss)
<1>1. N \in Nat /\ \A k \in 1 .. N : klasses[k] \in KlassInfo
  BY LenProperties DEF WellBuilt
<1>2. ss = [k \in 1 .. N |-> WriteKlass(klasses[k])]
  BY DEF Map
<1>3. /\ ss \in Seq(Seq(Item)) /\ Len(ss) = N
      /\ \A k \in 1 .. N : ss[k] = WriteKlass(klasses[k])
  <2> HIDE DEF N
  <2>1. ss \in [1 .. N -> Seq(Item)]
    BY <1>1, <1>2, KlassPart
  <2>2. \A k \in 1 .. N : ss[k] = WriteKlass(klasses[k])
    BY <1>2
  <2> HIDE DEF ss
  <2> QED BY <1>1, <2>1, <2>2, MapPart
<1> HIDE DEF ss
<1>4. /\ flat \in Seq(Item)
      /\ \E o : /\ Offset(o, ss)
                /\ Len(flat) = o[Len(ss)]
                /\ \A k \in 1 .. Len(ss) : \A j \in 1 .. Len(ss[k]) :
                      flat[o[k - 1] + j] = ss[k][j]
  BY <1>3, FlattenOffsets
<1>5. PICK o : /\ Offset(o, ss)
               /\ Len(flat) = o[N]
               /\ \A k \in 1 .. N : \A j \in 1 .. Len(ss[k]) :
                     flat[o[k - 1] + j] = ss[k][j]
  BY <1>3, <1>4
<1>6. o \in [0 .. N -> Nat] /\ o[0] = 0 /\ \A k \in 1 .. N : o[k] = o[k - 1] + Len(ss[k])
  BY <1>3, <1>5 DEF Offset
<1>7. ASSUME NEW k \in 1 .. N
      PROVE  /\ Len(klasses[k].fields) \in Nat
             /\ o[k] = o[k - 1] + 1 + Len(klasses[k].fields)
             /\ flat[o[k - 1] + 1] = [nFields |-> klasses[k].nFields]
             /\ \A j \in 1 .. Len(klasses[k].fields) :
                   flat[o[k - 1] + 1 + j] = [isObject |-> klasses[k].fields[j]]
  <2> DEFINE n == Len(klasses[k].fields)
             p == o[k - 1]
  <2>1. /\ n \in Nat
        /\ Len(ss[k]) = 1 + n
        /\ ss[k][1] = [nFields |-> klasses[k].nFields]
        /\ \A j \in 1 .. n : ss[k][1 + j] = [isObject |-> klasses[k].fields[j]]
    <3>1. klasses[k] \in KlassInfo /\ ss[k] = WriteKlass(klasses[k])
      BY <1>1, <1>3
    <3> HIDE DEF n
    <3> QED BY <3>1, KlassPart DEF n
  <2>2. p \in Nat
    <3>1. k - 1 \in 0 .. N
      BY <1>1
    <3> QED BY <1>6, <3>1
  <2>3. o[k] = p + (1 + n) /\ \A j \in 1 .. 1 + n : flat[p + j] = ss[k][j]
    BY <1>5, <1>6, <2>1
  <2> HIDE DEF n, p, flat
  <2>4. o[k] = p + 1 + n
    BY <2>1, <2>2, <2>3
  <2>5. flat[p + 1] = [nFields |-> klasses[k].nFields]
    <3>1. 1 \in 1 .. 1 + n
      BY <2>1
    <3> QED BY <2>1, <2>3, <3>1
  <2>6. \A j \in 1 .. n : flat[p + 1 + j] = [isObject |-> klasses[k].fields[j]]
    <3> SUFFICES ASSUME NEW j \in 1 .. n
                 PROVE  flat[p + 1 + j] = [isObject |-> klasses[k].fields[j]]
      OBVIOUS
    <3>1. 1 + j \in 1 .. 1 + n /\ p + (1 + j) = p + 1 + j
      BY <2>1, <2>2
    <3> QED BY <2>1, <2>3, <3>1
  <2> QED BY <2>1, <2>4, <2>5, <2>6 DEF n, p
<1> HIDE DEF flat
<1> QED
  BY <1>1, <1>4, <1>5, <1>6, <1>7 DEF flat, ss


LEMMA FunctionsAre ==
    ASSUME WellBuilt
    PROVE  /\ Len(functions) \in Nat
           /\ MainFunc \in FunctionInfo
           /\ \A f \in 1 .. Len(functions) + 1 : FunctionAt(f) \in FunctionInfo
           /\ Len(<<MainFunc>> \o functions) = Len(functions) + 1
           /\ \A f \in 1 .. Len(functions) + 1 :
                 (<<MainFunc>> \o functions)[f] = FunctionAt(f)
<1> DEFINE n == Len(functions)
           s == <<MainFunc>>
           u == s \o functions
<1>1. /\ functions \in Seq(FunctionInfo) /\ n \in Nat
      /\ \A f \in 1 .. n : functions[f] \in FunctionInfo
  BY LenProperties DEF WellBuilt
<1>2. MainFunc \in FunctionInfo
  <2>1. ByteSize - 1 \in Byte
    BY Sizes DEF Byte
  <2> QED BY <2>1 DEF WellBuilt, MainFunc, MAIN_REGISTERS, FunctionInfo
<1>3. s \in Seq(FunctionInfo) /\ Len(s) = 1 /\ s[1] = MainFunc
  BY <1>2
<1> HIDE DEF s
<1>4. Joins(u, s, functions)
  BY <1>1, <1>3, ConcatJoins
<1> HIDE DEF u, n
<1>5. Len(u) = 1 + n /\ u[1] = MainFunc /\ \A f \in 1 .. n : u[1 + f] = functions[f]
  <2>1. 1 \in 1 .. 1
    OBVIOUS
  <2> QED BY <1>3, <1>4, <2>1 DEF Joins, n
<1>6. ASSUME NEW f \in 1 .. n + 1
      PROVE  u[f] = FunctionAt(f) /\ FunctionAt(f) \in FunctionInfo
  <2>1. CASE f = 1
    BY <1>2, <1>5, <2>1 DEF FunctionAt
  <2>2. CASE f # 1
    <3> DEFINE g == f - 1
    <3>1. g \in 1 .. n /\ 1 + g = f
      BY <1>1, <2>2
    <3>2. u[f] = functions[g] /\ functions[g] \in FunctionInfo
      <4> HIDE DEF g
      <4> QED BY <1>1, <1>5, <3>1
    <3> QED BY <2>2, <3>2 DEF FunctionAt
  <2> QED BY <2>1, <2>2
<1>7. Len(u) = n + 1
  BY <1>1, <1>5
<1> QED
  BY <1>1, <1>2, <1>6, <1>7 DEF n, u, s

LEMMA FunctionsPart ==
    ASSUME WellBuilt
    PROVE  LET s == Map(WriteFunction, <<MainFunc>> \o functions)
           IN  /\ s \in Seq(Item)
               /\ Len(s) = Len(functions) + 1
               /\ \A f \in 1 .. Len(functions) + 1 :
                     s[f] = [function |-> FunctionAt(f)]
<1> DEFINE u == <<MainFunc>> \o functions
           n == Len(functions) + 1
           s == Map(WriteFunction, u)
<1>1. /\ n \in Nat /\ Len(u) = n
      /\ \A f \in 1 .. n : u[f] = FunctionAt(f) /\ FunctionAt(f) \in FunctionInfo
  BY FunctionsAre
<1> HIDE DEF u, n
<1>2. s = [f \in 1 .. n |-> [function |-> u[f]]]
  BY <1>1 DEF Map, WriteFunction
<1>3. /\ s \in [1 .. n -> Item]
      /\ \A f \in 1 .. n : s[f] = [function |-> FunctionAt(f)]
  BY <1>1, <1>2 DEF Item
<1> HIDE DEF s
<1>4. s \in Seq(Item) /\ Len(s) = n
  BY <1>1, <1>3, MapPart
<1> QED
  BY <1>3, <1>4 DEF s, n, u

LEMMA FileLayout ==
    ASSUME WellBuilt
    PROVE  File \in Seq(Item) /\ \E o : Layout(o)
<1> DEFINE a == Len(pool)
           K == Len(klasses)
           n == Len(functions)
           s1 == Count(a)
           s2 == Map(WriteConstant, pool)
           s3 == Count(K)
           s4 == FlattenSeq(Map(WriteKlass, klasses))
           s5 == Count(n + 1)
           s6 == Map(WriteFunction, <<MainFunc>> \o functions)
<1>1. a \in Nat /\ K \in Nat /\ n \in Nat
  BY PoolPart, KlassesPart, FunctionsAre
<1>2. File = s1 \o s2 \o s3 \o s4 \o s5 \o s6
  BY DEF File
<1>3. /\ s1 \in Seq(Item) /\ Len(s1) = 1 /\ s1[1] = [count |-> ToImm(a)]
      /\ s3 \in Seq(Item) /\ Len(s3) = 1 /\ s3[1] = [count |-> ToImm(K)]
      /\ s5 \in Seq(Item) /\ Len(s5) = 1 /\ s5[1] = [count |-> ToImm(n + 1)]
  <2> HIDE DEF a, K, n
  <2> QED BY <1>1, CountPart
<1>4. /\ s2 \in Seq(Item) /\ Len(s2) = a
      /\ \A i \in 1 .. a : s2[i] = WriteConstant(pool[i])
  BY PoolPart
<1>5. /\ s6 \in Seq(Item) /\ Len(s6) = n + 1
      /\ \A f \in 1 .. n + 1 : s6[f] = [function |-> FunctionAt(f)]
  BY FunctionsPart
<1>6. PICK o : /\ o \in [0 .. K -> Nat]
               /\ o[0] = 0
               /\ Len(s4) = o[K]
               /\ \A k \in 1 .. K :
                     /\ Len(klasses[k].fields) \in Nat
                     /\ o[k] = o[k - 1] + 1 + Len(klasses[k].fields)
                     /\ s4[o[k - 1] + 1] = [nFields |-> klasses[k].nFields]
                     /\ \A j \in 1 .. Len(klasses[k].fields) :
                           s4[o[k - 1] + 1 + j] = [isObject |-> klasses[k].fields[j]]
  BY KlassesPart
<1>7. s4 \in Seq(Item)
  BY KlassesPart
<1> HIDE DEF s1, s2, s3, s4, s5, s6
<1>8. /\ File \in Seq(Item)
      /\ AreParts(File, s1, s2, s3, s4, s5, s6)
  <2> HIDE DEF a, K, n
  <2>1. Len(s1) = 1 /\ Len(s3) = 1 /\ Len(s5) = 1
    BY <1>3
  <2>2. s1 \in Seq(Item) /\ s2 \in Seq(Item) /\ s3 \in Seq(Item)
    BY <1>3, <1>4
  <2>3. s4 \in Seq(Item) /\ s5 \in Seq(Item) /\ s6 \in Seq(Item)
    BY <1>3, <1>5, <1>7
  <2> QED BY <1>2, <2>1, <2>2, <2>3, PartsOfFile
<1> DEFINE L == o[K]
<1>9. /\ \A k \in 0 .. K : o[k] \in Nat
      /\ L \in Nat
      /\ \A k \in 1 .. K : k - 1 \in 0 .. K
  <2> HIDE DEF K
  <2> QED BY <1>1, <1>6
<1> DEFINE q(k) == o[k - 1]
           m(k) == Len(klasses[k].fields)
<1>10. \A k \in 1 .. K : q(k) \in Nat /\ m(k) \in Nat /\ q(k) + 1 + m(k) <= L
  <2> DEFINE T == {k \in 0 .. K : ~ \A i \in 0 .. K : i <= k => o[i] <= o[k]}
  <2> HIDE DEF K
  <2>1. \A k \in 1 .. K : q(k) \in Nat /\ m(k) \in Nat /\ o[k] = q(k) + 1 + m(k)
    BY <1>6, <1>9
  <2>2. T = {}
    <3> SUFFICES ASSUME T # {} PROVE FALSE
      OBVIOUS
    <3>1. T \in SUBSET Nat
      BY <1>1
    <3> HIDE DEF T
    <3>2. PICK k \in T : \A i \in T : k <= i
      BY <3>1, LeastNatural
    <3> USE DEF T
    <3>3. PICK i \in 0 .. K : i <= k /\ ~(o[i] <= o[k])
      OBVIOUS
    <3>4. k \in 0 .. K /\ i # k /\ k # 0
      BY <1>1, <1>9, <3>3
    <3>5. k \in 1 .. K /\ k - 1 \in 0 .. K /\ i <= k - 1 /\ k - 1 \notin T
      BY <1>1, <3>2, <3>3, <3>4
    <3>6. o[i] <= o[k - 1]
      BY <3>3, <3>5
    <3> HIDE DEF T
    <3> DEFINE x == o[i]
               y == o[k - 1]
               z == m(k)
    <3>7. x \in Nat /\ y \in Nat /\ z \in Nat /\ o[k] = y + 1 + z /\ x <= y
      BY <1>9, <2>1, <3>3, <3>5, <3>6
    <3>8. x <= y + 1 + z
      <4> HIDE DEF x, y, z
      <4> QED BY <3>7
    <3> QED BY <3>3, <3>7, <3>8
  <2>3. \A k \in 1 .. K : o[k] <= L
    <3>1. K \in 0 .. K /\ K \notin T
      BY <1>1, <2>2
    <3> QED BY <1>1, <3>1
  <2> QED BY <2>1, <2>3
<1> HIDE DEF a, K, n, L
<1>11. /\ Len(File) = 4 + a + L + n
       /\ File[1] = [count |-> ToImm(a)]
       /\ \A i \in 1 .. a : File[1 + i] = WriteConstant(pool[i])
       /\ File[2 + a] = [count |-> ToImm(K)]
       /\ File[3 + a + L] = [count |-> ToImm(n + 1)]
       /\ \A f \in 1 .. n + 1 : File[3 + a + L + f] = [function |-> FunctionAt(f)]
       /\ \A i \in 1 .. L : File[2 + a + i] = s4[i]
  BY <1>1, <1>3, <1>4, <1>5, <1>6, <1>8, <1>9 DEF L, AreParts
<1>12. ASSUME NEW k \in 1 .. K
       PROVE  /\ File[3 + a + q(k)] = [nFields |-> klasses[k].nFields]
              /\ \A j \in 1 .. m(k) :
                    File[3 + a + q(k) + j] = [isObject |-> klasses[k].fields[j]]
  <2>1. /\ s4[q(k) + 1] = [nFields |-> klasses[k].nFields]
        /\ \A j \in 1 .. m(k) : s4[q(k) + 1 + j] = [isObject |-> klasses[k].fields[j]]
    BY <1>6
  <2>2. q(k) \in Nat /\ m(k) \in Nat /\ q(k) + 1 + m(k) <= L
    BY <1>10
  <2> DEFINE x == q(k)
             y == m(k)
  <2> HIDE DEF q, m, x, y
  <2>3. x + 1 \in 1 .. L /\ 2 + a + (x + 1) = 3 + a + x
    BY <1>1, <1>9, <2>2 DEF x, y
  <2>4. \A j \in 1 .. y : x + 1 + j \in 1 .. L /\ 2 + a + (x + 1 + j) = 3 + a + x + j
    BY <1>1, <1>9, <2>2 DEF x, y
  <2>5. File[3 + a + x] = s4[x + 1]
    BY <1>11, <2>3
  <2>6. \A j \in 1 .. y : File[3 + a + x + j] = s4[x + 1 + j]
    BY <1>11, <2>4
  <2> QED BY <2>1, <2>5, <2>6 DEF x, y
<1>13. \A k \in 1 .. K : o[k] = q(k) + 1 + m(k)
  BY <1>6
<1>14. Layout(o)
  BY <1>6, <1>10, <1>11, <1>12, <1>13 DEF Layout, a, K, n, L
<1> QED
  BY <1>8, <1>14


LEMMA FileStays ==
    ASSUME UNCHANGED builder
    PROVE  /\ WellBuilt' <=> WellBuilt
           /\ Item' = Item
           /\ File' = File
           /\ \A o : Layout(o)' <=> Layout(o)
<1>1. /\ pool' = pool /\ rawInstrs' = rawInstrs /\ klasses' = klasses
      /\ functions' = functions
  BY DEF builder
<1>2. Item' = Item
  BY <1>1 DEF Item
<1>3. WellBuilt' <=> WellBuilt
  BY <1>1 DEF WellBuilt
<1>4. MainFunc' = MainFunc
  BY <1>1 DEF MainFunc
<1>5. File' = File
  BY <1>1, <1>4 DEF File, Map
<1>6. \A f : FunctionAt(f)' = FunctionAt(f)
  BY <1>1, <1>4 DEF FunctionAt
<1>7. \A o : Layout(o)' <=> Layout(o)
  BY <1>1, <1>5, <1>6 DEF Layout
<1> QED
  BY <1>2, <1>3, <1>5, <1>7


-----------------------------------------------------------------------------
(* What is loaded, and where in the file the loader is.                    *)

(* A value of the pool of constants stands for a constant of the file.     *)
Means(strings, v, c) ==
    \/ c.tag \in {CNST_I64, CNST_F64} /\ v = c.data
    \/ c.tag = CNST_FUNC_NAME_AND_TYPE
    \/ /\ c.tag = CNST_RAW_STR
       /\ NulFree(c.text) => v < Len(strings) /\ strings[v + 1] = c.text

Pooled(values, strings, constants, n) ==
    /\ n <= Len(values)
    /\ \A i \in 1 .. n : Means(strings, values[i], constants[i])

LEMMA MeansStill ==
    ASSUME NEW strings, IsSequence(strings), NEW v \in Nat, NEW c, NEW x,
           Means(strings, v, c)
    PROVE  Means(Append(strings, x), v, c)
<1> DEFINE more == Append(strings, x)
<1>1. /\ Len(strings) \in Nat
      /\ Len(more) = Len(strings) + 1
      /\ \A i \in 1 .. Len(strings) : more[i] = strings[i]
  BY LongerSequence
<1> HIDE DEF more
<1>2. ASSUME v < Len(strings) PROVE v < Len(more) /\ more[v + 1] = strings[v + 1]
  <2>1. v + 1 \in 1 .. Len(strings)
    BY <1>1, <1>2
  <2> QED BY <1>1, <1>2, <2>1
<1>3. Means(more, v, c)
  BY <1>2 DEF Means
<1> QED BY <1>3 DEF more

LEMMA PooledStill ==
    ASSUME NEW values \in Seq(Nat), NEW strings, IsSequence(strings),
           NEW constants, NEW n \in Nat, NEW v \in Nat, NEW x,
           Pooled(values, strings, constants, n)
    PROVE  /\ Pooled(Append(values, v), strings, constants, n)
           /\ Pooled(Append(values, v), Append(strings, x), constants, n)
<1> DEFINE more == Append(values, v)
<1>1. /\ Len(values) \in Nat
      /\ Len(more) = Len(values) + 1
      /\ \A i \in 1 .. Len(values) : more[i] = values[i] /\ values[i] \in Nat
  BY AppendProperties, LenProperties
<1>2. n <= Len(values) /\ \A i \in 1 .. n : Means(strings, values[i], constants[i])
  BY DEF Pooled
<1> HIDE DEF more
<1>3. n <= Len(more)
  BY <1>1, <1>2
<1>4. \A i \in 1 .. n : more[i] = values[i] /\ values[i] \in Nat
  <2>1. \A i \in 1 .. n : i \in 1 .. Len(values)
    BY <1>1, <1>2
  <2> QED BY <1>1, <2>1
<1>5. \A i \in 1 .. n : /\ Means(strings, more[i], constants[i])
                        /\ Means(Append(strings, x), more[i], constants[i])
  BY <1>2, <1>4, MeansStill
<1>6. /\ Pooled(more, strings, constants, n)
      /\ Pooled(more, Append(strings, x), constants, n)
  BY <1>3, <1>5 DEF Pooled
<1> QED BY <1>6 DEF more

LEMMA PooledNext ==
    ASSUME NEW values \in Seq(Nat), NEW strings, NEW constants, NEW n \in Nat,
           Pooled(values, strings, constants, n), Len(values) = n + 1,
           Means(strings, values[n + 1], constants[n + 1])
    PROVE  Pooled(values, strings, constants, n + 1)
<1>1. \A i \in 1 .. n + 1 : i \in 1 .. n \/ i = n + 1
  OBVIOUS
<1> QED BY <1>1 DEF Pooled

(* s is what is left of the file after p items.                            *)
After(s, p) ==
    /\ p \in Nat
    /\ s \in Seq(Item)
    /\ Len(s) = Len(File) - p
    /\ \A j \in 1 .. Len(s) : s[j] = File[p + j]

LEMMA ReadSome ==
    ASSUME File \in Seq(Item), NEW s, NEW p, After(s, p), NEW n \in Nat,
           p + n <= Len(File)
    PROVE  After(SubSeq(s, n + 1, Len(s)), p + n)
<1> DEFINE L == Len(s)
           t == SubSeq(s, n + 1, L)
<1>1. /\ p \in Nat /\ s \in Seq(Item) /\ L = Len(File) - p
      /\ \A j \in 1 .. L : s[j] = File[p + j]
      /\ Len(File) \in Nat
  BY LenProperties DEF After
<1>2. L \in Nat /\ n + p <= Len(File) /\ n <= L
  <2> HIDE DEF L
  <2> QED BY <1>1
<1>3. \A i \in n + 1 .. L : i \in 1 .. L
  <2> HIDE DEF L
  <2> QED BY <1>2
<1>4. \A i \in n + 1 .. L : s[i] \in Item
  BY <1>1, <1>3, ElementOfSeq
<1>5. /\ t \in Seq(Item)
      /\ Len(t) = IF n + 1 <= L THEN L - (n + 1) + 1 ELSE 0
      /\ \A i \in 1 .. L - (n + 1) + 1 : t[i] = s[(n + 1) + i - 1]
  <2>1. n + 1 \in Int /\ L \in Int
    BY <1>2
  <2> HIDE DEF L
  <2> QED BY <1>4, <2>1, SubSeqProperties
<1> HIDE DEF L, t
<1>6. Len(t) = L - n /\ L - (n + 1) + 1 = L - n
  BY <1>2, <1>5
<1>7. Len(t) = Len(File) - (p + n) /\ p + n \in Nat
  BY <1>1, <1>2, <1>6
<1>8. \A j \in 1 .. Len(t) : t[j] = File[p + n + j]
  <2> SUFFICES ASSUME NEW j \in 1 .. Len(t) PROVE t[j] = File[p + n + j]
    OBVIOUS
  <2>1. /\ (n + 1) + j - 1 = n + j /\ n + j \in 1 .. L
        /\ p + (n + j) = p + n + j
    BY <1>1, <1>2, <1>6
  <2>2. t[j] = s[n + j]
    BY <1>5, <1>6, <2>1
  <2> QED BY <1>1, <2>1, <2>2
<1> QED
  BY <1>5, <1>7, <1>8 DEF After, t, L

LEMMA ReadOne ==
    ASSUME File \in Seq(Item), NEW s, NEW p, After(s, p), p + 1 <= Len(File)
    PROVE  /\ s # <<>>
           /\ Head(s) = File[p + 1]
           /\ After(Tail(s), p + 1)
<1>1. /\ p \in Nat /\ s \in Seq(Item) /\ Len(s) = Len(File) - p
      /\ \A j \in 1 .. Len(s) : s[j] = File[p + j]
      /\ Len(File) \in Nat
  BY LenProperties DEF After
<1>2. Len(s) >= 1
  BY <1>1
<1>3. s # <<>>
  BY <1>2, EmptySeq
<1>4. Head(s) = s[1] /\ s[1] = File[p + 1]
  BY <1>1, <1>2, <1>3
<1>5. Tail(s) = SubSeq(s, 2, Len(s))
  BY <1>1, <1>3, TailIsSubSeq
<1>6. After(SubSeq(s, 1 + 1, Len(s)), p + 1)
  <2>1. 1 \in Nat
    OBVIOUS
  <2> QED BY <2>1, ReadSome
<1>7. After(SubSeq(s, 2, Len(s)), p + 1)
  <2>1. 1 + 1 = 2
    OBVIOUS
  <2> QED BY <1>6, <2>1, Zenon
<1> QED
  BY <1>3, <1>4, <1>5, <1>7


LoadTypeOK ==
    /\ istream \in Seq(Item)
    /\ left \in Imm
    /\ stage \in Stage
    /\ constantPool \in Seq(Nat)
    /\ IsSequence(stringPool)
    /\ loadedKlasses \in Seq(Seq(BOOLEAN))
    /\ funcs \in Seq(FunctionInfo)

PoolLoaded(n) == Pooled(constantPool, stringPool, pool, n)

KlassesLoaded(n) ==
    /\ Len(loadedKlasses) = n
    /\ \A k \in 1 .. n : loadedKlasses[k] = klasses[k].fields

FunctionsLoaded(n) ==
    /\ Len(funcs) = n
    /\ \A f \in 1 .. n : funcs[f] = FunctionAt(f)

(* In the middle of a loop, what is left to read and what has been loaded  *)
(* are those of the iterations that are left.                              *)
InPool ==
    /\ left <= Len(pool)
    /\ After(istream, 1 + (Len(pool) - left))
    /\ Len(constantPool) = Len(pool) - left
    /\ PoolLoaded(Len(pool) - left)
    /\ KlassesLoaded(0) /\ FunctionsLoaded(0)

InKlasses(o) ==
    /\ left <= Len(klasses)
    /\ After(istream, 2 + Len(pool) + o[Len(klasses) - left])
    /\ PoolLoaded(Len(pool))
    /\ KlassesLoaded(Len(klasses) - left)
    /\ FunctionsLoaded(0)

InFunctions(o) ==
    /\ left <= Len(functions) + 1
    /\ After(istream, 3 + Len(pool) + o[Len(klasses)]
                        + ((Len(functions) + 1) - left))
    /\ PoolLoaded(Len(pool))
    /\ KlassesLoaded(Len(klasses))
    /\ FunctionsLoaded((Len(functions) + 1) - left)

AllLoaded ==
    /\ PoolLoaded(Len(pool))
    /\ KlassesLoaded(Len(klasses))
    /\ FunctionsLoaded(Len(functions) + 1)

InPlace(o) ==
    CASE stage = "pool"      -> InPool
      [] stage = "klasses"   -> InKlasses(o)
      [] stage = "functions" -> InFunctions(o)
      [] OTHER               -> stage # "misread" /\ AllLoaded

NothingLoaded ==
    /\ istream = <<>>
    /\ constantPool = <<>> /\ stringPool = <<>>
    /\ loadedKlasses = <<>> /\ funcs = <<>>

LoadedSoFar ==
    IF stage = "building" THEN NothingLoaded
    ELSE WithinLimits => \E o : Layout(o) /\ InPlace(o)

LoaderInv == WellBuilt /\ LoadTypeOK /\ LoadedSoFar

(* The shapes of items are told apart by their fields.                     *)
LEMMA ItemShapes ==
    ASSUME NEW it \in Item
    PROVE  /\ "count" \in DOMAIN it => it.count \in Imm
           /\ "constant" \in DOMAIN it => it.constant \in Range(pool)
           /\ "nFields" \in DOMAIN it => it.nFields \in Byte
           /\ "isObject" \in DOMAIN it => it.isObject \in BOOLEAN
           /\ "function" \in DOMAIN it => it.function \in FunctionInfo
<1>1. CASE it \in [count : Imm]
  <2>1. DOMAIN it = {"count"} /\ it.count \in Imm
    BY <1>1
  <2> QED BY <2>1
<1>2. CASE it \in [constant : Range(pool), len : Nat]
  <2>1. DOMAIN it = {"constant", "len"} /\ it.constant \in Range(pool)
    BY <1>2
  <2> QED BY <2>1
<1>3. CASE it \in [nFields : Byte]
  <2>1. DOMAIN it = {"nFields"} /\ it.nFields \in Byte
    BY <1>3
  <2> QED BY <2>1
<1>4. CASE it \in [isObject : BOOLEAN]
  <2>1. DOMAIN it = {"isObject"} /\ it.isObject \in BOOLEAN
    BY <1>4
  <2> QED BY <2>1
<1>5. CASE it \in [function : FunctionInfo]
  <2>1. DOMAIN it = {"function"} /\ it.function \in FunctionInfo
    BY <1>5
  <2> QED BY <2>1
<1> QED
  BY <1>1, <1>2, <1>3, <1>4, <1>5 DEF Item

LEMMA HeadShapes ==
    ASSUME istream \in Seq(Item), istream # <<>>
    PROVE  Head(istream) \in Item /\ Tail(istream) \in Seq(Item)
BY HeadTailProperties

LEMMA PooledConstants ==
    ASSUME WellBuilt, NEW c \in Range(pool)
    PROVE  WellFormedConstant(c)
BY RangeEquality DEF WellBuilt, IsSequence

LEMMA LimitsStay ==
    ASSUME UNCHANGED builder
    PROVE  /\ WithinLimits' <=> WithinLimits
           /\ Len(pool)' = Len(pool) /\ Len(klasses)' = Len(klasses)
           /\ Len(functions)' = Len(functions)
           /\ \A f : FunctionAt(f)' = FunctionAt(f)
           /\ pool' = pool /\ klasses' = klasses
           /\ \A s, p : After(s, p)' <=> After(s, p)
<1>1. /\ pool' = pool /\ rawInstrs' = rawInstrs /\ klasses' = klasses
      /\ functions' = functions
  BY DEF builder
<1>2. WithinLimits' <=> WithinLimits
  BY <1>1 DEF WithinLimits
<1>3. MainFunc' = MainFunc
  BY <1>1 DEF MainFunc
<1>4. \A f : FunctionAt(f)' = FunctionAt(f)
  BY <1>1, <1>3 DEF FunctionAt
<1>5. \A s, p : After(s, p)' <=> After(s, p)
  BY FileStays DEF After
<1> QED
  BY <1>1, <1>2, <1>4, <1>5

(* Every item that is due can be found in the file.                        *)
LEMMA LimitsAre ==
    ASSUME WellBuilt, WithinLimits
    PROVE  /\ Len(pool) \in Nat /\ Len(pool) < ImmSize
           /\ Len(klasses) \in Nat /\ Len(klasses) < ImmSize
           /\ Len(functions) \in Nat /\ Len(functions) + 1 < ImmSize
           /\ \A k \in 1 .. Len(klasses) :
                 /\ klasses[k].fields \in Seq(BOOLEAN)
                 /\ Len(klasses[k].fields) \in Nat
                 /\ klasses[k].nFields = Len(klasses[k].fields)
           /\ \A i \in 1 .. Len(pool) : pool[i].tag = CNST_RAW_STR =>
                 /\ Len(pool[i].text) \in Nat
                 /\ ToImm(Len(pool[i].text)) = Len(pool[i].text)
<1>1. Len(pool) \in Nat /\ Len(klasses) \in Nat /\ Len(functions) \in Nat
  BY PoolPart, KlassesPart, FunctionsAre
<1>2. ASSUME NEW k \in 1 .. Len(klasses)
      PROVE  /\ klasses[k].fields \in Seq(BOOLEAN)
             /\ Len(klasses[k].fields) \in Nat
             /\ klasses[k].nFields = Len(klasses[k].fields)
  <2>1. klasses[k] \in KlassInfo
    BY DEF WellBuilt
  <2>2. klasses[k].fields \in Seq(BOOLEAN)
    BY <2>1 DEF KlassInfo
  <2>3. Len(klasses[k].fields) \in Nat
    BY <2>1, KlassPart
  <2>4. /\ klasses[k].nFields = Len(klasses[k].fields) % ByteSize
        /\ Len(klasses[k].fields) < ByteSize
    BY DEF WellBuilt, WithinLimits
  <2> QED BY <2>2, <2>3, <2>4, Sizes
<1>3. ASSUME NEW i \in 1 .. Len(pool), pool[i].tag = CNST_RAW_STR
      PROVE  /\ Len(pool[i].text) \in Nat
             /\ ToImm(Len(pool[i].text)) = Len(pool[i].text)
  <2>1. Len(pool[i].text) \in Nat /\ Len(pool[i].text) < ImmSize
    BY <1>3 DEF WellBuilt, WellFormedConstant, WithinLimits
  <2> QED BY <2>1, Sizes
<1> QED
  BY <1>1, <1>2, <1>3 DEF WithinLimits


-----------------------------------------------------------------------------
(* The steps of the loader.                                                *)

LEMMA Misreads ==
    ASSUME LoaderInv, Misread, ~WithinLimits
    PROVE  LoaderInv'
<1>1. UNCHANGED builder /\ UNCHANGED <<istream, left, loaded>> /\ stage' = "misread"
  BY DEF Misread
<1>2. WellBuilt'
  BY <1>1, FileStays DEF LoaderInv
<1>3. LoadTypeOK'
  BY <1>1, FileStays DEF LoaderInv, LoadTypeOK, loaded, Stage
<1>4. LoadedSoFar'
  <2>1. stage' # "building" /\ ~WithinLimits'
    BY <1>1, LimitsStay
  <2> QED BY <2>1 DEF LoadedSoFar
<1> QED
  BY <1>2, <1>3, <1>4 DEF LoaderInv

LEMMA Opens ==
    ASSUME LoaderInv, WriteAndOpen
    PROVE  LoaderInv'
<1>1. /\ UNCHANGED builder /\ UNCHANGED loaded
      /\ stage = "building" /\ stage' = "pool"
      /\ istream' = Tail(File) /\ left' = Head(File).count
  BY DEF WriteAndOpen
<1>2. WellBuilt /\ File \in Seq(Item)
  BY FileLayout DEF LoaderInv
<1>3. PICK o : Layout(o)
  BY <1>2, FileLayout
<1>4. /\ File[1] = [count |-> ToImm(Len(pool))]
      /\ Len(pool) \in Nat /\ Len(klasses) \in Nat /\ Len(functions) \in Nat
      /\ o[Len(klasses)] \in Nat
      /\ Len(File) = 4 + Len(pool) + o[Len(klasses)] + Len(functions)
  <2>1. Len(pool) \in Nat /\ Len(klasses) \in Nat /\ Len(functions) \in Nat
    BY <1>2, PoolPart, KlassesPart, FunctionsAre
  <2>2. /\ o \in [0 .. Len(klasses) -> Nat]
        /\ File[1] = [count |-> ToImm(Len(pool))]
        /\ Len(File) = 4 + Len(pool) + o[Len(klasses)] + Len(functions)
    BY <1>3 DEF Layout
  <2>3. Len(klasses) \in 0 .. Len(klasses)
    BY <2>1
  <2> QED BY <2>1, <2>2, <2>3
<1>5. After(File, 0)
  <2>1. Len(File) = Len(File) - 0 /\ \A j \in 1 .. Len(File) : 0 + j = j
    BY <1>4
  <2> QED BY <1>2, <2>1 DEF After
<1>6. File # <<>> /\ Head(File) = File[1] /\ After(Tail(File), 1)
  <2>1. 0 + 1 <= Len(File) /\ 0 + 1 = 1
    BY <1>4
  <2>2. /\ File # <<>> /\ Head(File) = File[0 + 1]
        /\ After(Tail(File), 0 + 1)
    BY <1>2, <1>5, <2>1, ReadOne
  <2> QED BY <2>1, <2>2, Zenon
<1>7. left' = ToImm(Len(pool)) /\ left' \in Imm
  <2>1. Head(File) = [count |-> ToImm(Len(pool))]
    BY <1>4, <1>6
  <2>2. left' = ToImm(Len(pool))
    BY <1>1, <2>1
  <2> QED BY <1>4, <2>2, Sizes
<1>8. NothingLoaded
  BY <1>1 DEF LoaderInv, LoadedSoFar
<1>9. LoadTypeOK'
  <2>1. istream' \in Seq(Item')
    BY <1>1, <1>6, FileStays DEF After
  <2>2. stage' \in Stage
    BY <1>1 DEF Stage
  <2> QED BY <1>1, <1>7, <2>1, <2>2 DEF LoadTypeOK, LoaderInv, loaded
<1>10. ASSUME WithinLimits' PROVE \E oo : Layout(oo)' /\ InPlace(oo)'
  <2>1. WithinLimits
    BY <1>1, <1>10, LimitsStay
  <2>2. left' = Len(pool)
    BY <1>2, <1>7, <2>1, LimitsAre, Sizes
  <2>3. Len(pool) - Len(pool) = 0 /\ 1 + 0 = 1
    BY <1>4
  <2>4. Pooled(constantPool', stringPool', pool', 0)
    <3>1. Len(<<>>) = 0 /\ constantPool' = <<>>
      BY <1>1, <1>8 DEF NothingLoaded, loaded
    <3> QED BY <3>1 DEF Pooled
  <2>5. /\ loadedKlasses' = <<>> /\ funcs' = <<>> /\ constantPool' = <<>>
        /\ Len(<<>>) = 0
    BY <1>1, <1>8 DEF NothingLoaded, loaded
  <2>6. After(istream, 1 + (Len(pool) - left))'
    <3>1. 1 + (Len(pool') - left') = 1
      BY <1>1, <2>2, <2>3, LimitsStay
    <3>2. After(istream', 1)
      BY <1>1, <1>6
    <3> QED BY <1>1, <3>1, <3>2, LimitsStay
  <2>7. InPool'
    <3>1. Len(pool') - left' = 0 /\ left' <= Len(pool')
      BY <1>1, <1>4, <2>2, LimitsStay
    <3>2. KlassesLoaded(0)' /\ FunctionsLoaded(0)'
      BY <2>5 DEF KlassesLoaded, FunctionsLoaded
    <3>3. PoolLoaded(0)'
      BY <2>4 DEF PoolLoaded
    <3>4. PoolLoaded(Len(pool) - left)'
      BY <3>1, <3>3
    <3>5. (Len(constantPool) = Len(pool) - left)'
      BY <2>5, <3>1
    <3> QED BY <2>6, <3>1, <3>2, <3>4, <3>5 DEF InPool
  <2>8. InPlace(o)'
    BY <1>1, <2>7 DEF InPlace
  <2> QED BY <1>1, <1>3, <2>8, FileStays
<1>11. LoadedSoFar'
  BY <1>1, <1>10 DEF LoadedSoFar
<1> QED
  BY <1>1, <1>2, <1>9, <1>11, FileStays DEF LoaderInv


(* Reading at one place of the file leads to the next.                     *)
LEMMA CountsDown ==
    ASSUME left \in Imm, left > 0
    PROVE  left \in Nat /\ left - 1 \in Imm
BY Sizes DEF Imm

LEMMA CStringIs ==
    ASSUME NEW t, NulFree(t)
    PROVE  CString(t) = t
BY DEF CString

LEMMA LoadConstantTyped ==
    ASSUME WellBuilt, LoadTypeOK, LoadConstant
    PROVE  LoadTypeOK'
<1>1. stage = "pool" /\ left > 0 /\ UNCHANGED builder
  BY DEF LoadConstant, Read, Misread
<1>2. CASE Misread
  BY <1>1, <1>2, FileStays DEF Misread, LoadTypeOK, loaded, Stage
<1>3. CASE Expect("constant") /\ ~Misread
  <2> DEFINE c == Head(istream).constant
  <2>1. istream # <<>> /\ "constant" \in DOMAIN Head(istream)
    BY <1>3 DEF Expect
  <2>2. c \in Range(pool) /\ Tail(istream) \in Seq(Item)
    BY <2>1, HeadShapes, ItemShapes DEF LoadTypeOK
  <2>3. WellFormedConstant(c)
    BY <2>2, PooledConstants
  <2>4. Read /\ UNCHANGED <<loadedKlasses, funcs>>
    BY <1>3 DEF LoadConstant
  <2> HIDE DEF c
  <2>5. /\ istream' \in Seq(Item') /\ left' \in Imm /\ stage' \in Stage
        /\ loadedKlasses' \in Seq(Seq(BOOLEAN)) /\ funcs' \in Seq(FunctionInfo)
    BY <1>1, <2>2, <2>4, FileStays, CountsDown DEF Read, LoadTypeOK
  <2>6. constantPool' \in Seq(Nat) /\ IsSequence(stringPool)'
    <3>1. CASE c.tag \in {CNST_I64, CNST_F64}
      <4>1. /\ constantPool' = Append(constantPool, c.data)
            /\ stringPool' = stringPool
        BY <1>3, <3>1 DEF LoadConstant, c, CNST_I64, CNST_F64,
                          CNST_FUNC_NAME_AND_TYPE, CNST_RAW_STR
      <4>2. c.data \in Nat
        BY <2>3, <3>1 DEF WellFormedConstant
      <4>3. IsSequence(stringPool')
        BY <4>1 DEF LoadTypeOK
      <4> QED BY <4>1, <4>2, <4>3, AppendProperties DEF LoadTypeOK, IsSequence
    <3>2. CASE c.tag = CNST_FUNC_NAME_AND_TYPE
      <4>1. /\ constantPool' = Append(constantPool, Packed(c))
            /\ stringPool' = stringPool
        BY <1>3, <3>2 DEF LoadConstant, c, CNST_I64, CNST_F64,
                          CNST_FUNC_NAME_AND_TYPE, CNST_RAW_STR
      <4>2. Packed(c) \in Nat
        <5>1. /\ c.tag \in Nat /\ c.name \in Nat /\ c.descriptor \in Nat
              /\ ImmSize \in Nat
          BY <2>3, <3>2, Sizes DEF WellFormedConstant, CNST_FUNC_NAME_AND_TYPE
        <5> QED BY <5>1, Z3 DEF Packed
      <4>3. IsSequence(stringPool')
        BY <4>1 DEF LoadTypeOK
      <4> QED BY <4>1, <4>2, <4>3, AppendProperties DEF LoadTypeOK, IsSequence
    <3>3. CASE c.tag = CNST_RAW_STR
      <4>1. /\ stringPool' = Append(stringPool, CString(c.text))
            /\ constantPool' = Append(constantPool, Len(stringPool') - 1)
        BY <1>3, <3>3 DEF LoadConstant, c, CNST_I64, CNST_F64,
                          CNST_FUNC_NAME_AND_TYPE, CNST_RAW_STR
      <4>2. /\ IsSequence(stringPool')
            /\ Len(stringPool') = Len(stringPool) + 1 /\ Len(stringPool) \in Nat
        BY <4>1, LongerSequence DEF LoadTypeOK
      <4>3. Len(stringPool') - 1 \in Nat
        BY <4>2
      <4> QED BY <4>1, <4>2, <4>3, AppendProperties DEF LoadTypeOK, IsSequence
    <3> QED BY <2>3, <3>1, <3>2, <3>3 DEF WellFormedConstant
  <2> QED BY <2>5, <2>6 DEF LoadTypeOK
<1>4. CASE ~Expect("constant")
  <2>1. Misread
    BY <1>4 DEF LoadConstant
  <2> QED BY <1>2, <2>1
<1> QED
  BY <1>2, <1>3, <1>4

(* The constant that is due is there.                                      *)
LEMMA ConstantDue ==
    ASSUME WellBuilt, LoadTypeOK, WithinLimits, NEW o, Layout(o), InPool,
           stage = "pool", left > 0
    PROVE  LET i == Len(pool) - left + 1
           IN  /\ i \in 1 .. Len(pool) /\ i - 1 = Len(pool) - left
               /\ i = Len(pool) - (left - 1)
               /\ Expect("constant")
               /\ Head(istream) = WriteConstant(pool[i])
               /\ After(Tail(istream), 1 + i)
<1> DEFINE n == Len(pool)
           i == n - left + 1
<1>1. /\ left \in Nat /\ left > 0 /\ left <= n /\ n \in Nat
      /\ o[Len(klasses)] \in Nat /\ Len(functions) \in Nat
      /\ Len(File) = 4 + n + o[Len(klasses)] + Len(functions)
  <2>1. n \in Nat /\ Len(klasses) \in Nat /\ Len(functions) \in Nat
    BY LimitsAre
  <2>2. o[Len(klasses)] \in Nat
    BY <2>1 DEF Layout
  <2>3. left \in Nat /\ left <= n
    BY CountsDown DEF LoadTypeOK, InPool
  <2> QED BY <2>1, <2>2, <2>3 DEF Layout
<1>2. After(istream, 1 + (n - left))
  BY DEF InPool
<1> HIDE DEF n
<1>3. /\ i \in 1 .. n /\ 1 + (n - left) = i /\ i + 1 <= Len(File) /\ i + 1 = 1 + i
      /\ i = n - (left - 1) /\ i - 1 = n - left
  BY <1>1
<1> HIDE DEF i
<1>4. istream # <<>> /\ Head(istream) = File[i + 1] /\ After(Tail(istream), i + 1)
  BY <1>2, <1>3, FileLayout, ReadOne
<1>5. File[1 + i] = WriteConstant(pool[i])
  BY <1>3 DEF Layout, n
<1>6. "constant" \in DOMAIN WriteConstant(pool[i])
  BY DEF WriteConstant
<1>7. Head(istream) = WriteConstant(pool[i]) /\ After(Tail(istream), 1 + i)
  BY <1>3, <1>4, <1>5
<1>8. Expect("constant")
  BY <1>4, <1>6, <1>7 DEF Expect
<1> QED
  BY <1>3, <1>7, <1>8 DEF n, i

LEMMA LoadConstantKeeps ==
    ASSUME LoaderInv, LoadConstant
    PROVE  LoaderInv'
<1>1. stage = "pool" /\ left > 0 /\ UNCHANGED builder
  BY DEF LoadConstant, Read, Misread
<1>2. WellBuilt /\ LoadTypeOK
  BY DEF LoaderInv
<1>3. WellBuilt' /\ LoadTypeOK'
  BY <1>1, <1>2, FileStays, LoadConstantTyped
<1>4. CASE ~WithinLimits
  <2>1. ~WithinLimits' /\ stage' # "building"
    BY <1>1, <1>4, LimitsStay DEF LoadConstant, Read, Misread
  <2>2. LoadedSoFar'
    BY <2>1 DEF LoadedSoFar
  <2> QED BY <1>3, <2>2 DEF LoaderInv
<1>5. CASE WithinLimits
  <2>1. PICK o : Layout(o) /\ InPlace(o)
    BY <1>1, <1>5 DEF LoaderInv, LoadedSoFar
  <2>2. InPool
    BY <1>1, <2>1 DEF InPlace
  <2> DEFINE n == Len(pool)
             i == n - left + 1
             c == pool[i]
  <2>3. /\ i \in 1 .. n /\ i - 1 = n - left /\ i = n - (left - 1)
        /\ Expect("constant")
        /\ Head(istream) = WriteConstant(c)
        /\ After(Tail(istream), 1 + i)
    BY <1>1, <1>2, <1>5, <2>1, <2>2, ConstantDue
  <2>4. /\ left <= n /\ n \in Nat /\ left \in Nat
        /\ Len(constantPool) = n - left
        /\ Pooled(constantPool, stringPool, pool, n - left)
        /\ KlassesLoaded(0) /\ FunctionsLoaded(0)
    BY <1>1, <1>2, <1>5, <2>2, LimitsAre, CountsDown DEF InPool, PoolLoaded, LoadTypeOK
  <2> HIDE DEF n, i
  <2>5. /\ Head(istream).constant = c
        /\ c.tag = CNST_RAW_STR => Head(istream).len = Len(c.text)
    <3>1. c.tag = CNST_RAW_STR => ToImm(Len(c.text)) = Len(c.text)
      BY <1>2, <1>5, <2>3, LimitsAre DEF n
    <3> HIDE DEF c
    <3> QED BY <2>3, <3>1 DEF WriteConstant
  <2>6. WellFormedConstant(c)
    BY <1>2, <2>3 DEF WellBuilt, n
  <2>7. i - 1 \in Nat /\ n - left = i - 1 /\ (i - 1) + 1 = i
    BY <2>3
  <2> HIDE DEF c
  <2>8. /\ Read /\ UNCHANGED <<loadedKlasses, funcs>>
        /\ Pooled(constantPool', stringPool', pool, i)
        /\ Len(constantPool') = i
    <3> DEFINE cp == constantPool
               sp == stringPool
    <3>1. /\ cp \in Seq(Nat) /\ IsSequence(sp)
          /\ Len(cp) = i - 1 /\ Pooled(cp, sp, pool, i - 1)
      BY <1>2, <2>4, <2>7 DEF LoadTypeOK
    <3>2. ASSUME NEW v \in Nat, constantPool' = Append(constantPool, v),
                 \/ stringPool' = stringPool
                 \/ \E x : stringPool' = Append(stringPool, x),
                 Means(stringPool', v, c)
          PROVE  Pooled(constantPool', stringPool', pool, i) /\ Len(constantPool') = i
      <4>1. /\ constantPool' \in Seq(Nat) /\ Len(constantPool') = (i - 1) + 1
            /\ constantPool'[(i - 1) + 1] = v
        BY <3>1, <3>2, AppendProperties
      <4>2. Pooled(constantPool', stringPool', pool, i - 1)
        BY <2>7, <3>1, <3>2, PooledStill
      <4>3. Means(stringPool', constantPool'[(i - 1) + 1], pool[(i - 1) + 1])
        BY <2>7, <3>2, <4>1 DEF c
      <4>4. Pooled(constantPool', stringPool', pool, (i - 1) + 1)
        BY <2>7, <4>1, <4>2, <4>3, PooledNext
      <4> QED BY <2>7, <4>1, <4>4
    <3>3. CASE c.tag \in {CNST_I64, CNST_F64}
      <4>1. /\ constantPool' = Append(constantPool, c.data)
            /\ stringPool' = stringPool
            /\ Read /\ UNCHANGED <<loadedKlasses, funcs>>
        BY <2>3, <2>5, <3>3 DEF LoadConstant, CNST_I64, CNST_F64,
                          CNST_FUNC_NAME_AND_TYPE, CNST_RAW_STR
      <4>2. c.data \in Nat /\ Means(stringPool', c.data, c)
        BY <2>6, <3>3 DEF WellFormedConstant, Means
      <4> QED BY <3>2, <4>1, <4>2
    <3>4. CASE c.tag = CNST_FUNC_NAME_AND_TYPE
      <4>1. /\ constantPool' = Append(constantPool, Packed(c))
            /\ stringPool' = stringPool
            /\ Read /\ UNCHANGED <<loadedKlasses, funcs>>
        BY <2>3, <2>5, <3>4 DEF LoadConstant, CNST_I64, CNST_F64,
                          CNST_FUNC_NAME_AND_TYPE, CNST_RAW_STR
      <4>2. Packed(c) \in Nat
        <5>1. /\ c.tag \in Nat /\ c.name \in Nat /\ c.descriptor \in Nat
              /\ ImmSize \in Nat
          BY <2>6, <3>4, Sizes DEF WellFormedConstant, CNST_FUNC_NAME_AND_TYPE
        <5> QED BY <5>1, Z3 DEF Packed
      <4>3. Means(stringPool', Packed(c), c)
        BY <3>4 DEF Means
      <4> QED BY <3>2, <4>1, <4>2, <4>3
    <3>5. CASE c.tag = CNST_RAW_STR
      <4>1. /\ stringPool' = Append(stringPool, CString(c.text))
            /\ constantPool' = Append(constantPool, Len(stringPool') - 1)
            /\ Read /\ UNCHANGED <<loadedKlasses, funcs>>
        BY <2>3, <2>5, <3>5 DEF LoadConstant, CNST_I64, CNST_F64,
                          CNST_FUNC_NAME_AND_TYPE, CNST_RAW_STR
      <4> DEFINE v == Len(stringPool') - 1
      <4>2. /\ Len(stringPool') = Len(stringPool) + 1 /\ Len(stringPool) \in Nat
            /\ stringPool'[Len(stringPool) + 1] = CString(c.text)
        BY <3>1, <4>1, LongerSequence
      <4>3. /\ v \in Nat /\ v < Len(stringPool') /\ v + 1 = Len(stringPool) + 1
        BY <4>2
      <4>4. Means(stringPool', v, c)
        BY <3>5, <4>2, <4>3, CStringIs DEF Means
      <4> HIDE DEF v
      <4>5. constantPool' = Append(constantPool, v)
        BY <4>1 DEF v
      <4> QED BY <3>2, <4>1, <4>3, <4>4, <4>5
    <3> QED BY <2>6, <3>3, <3>4, <3>5 DEF WellFormedConstant
  <2>9. InPool'
    <3>1. left' = left - 1 /\ istream' = Tail(istream) /\ stage' = stage
      BY <2>8 DEF Read
    <3>2. Len(pool') - left' = i /\ left' <= Len(pool')
      BY <1>1, <2>3, <2>4, <3>1, LimitsStay DEF n
    <3>3. After(istream, 1 + (Len(pool) - left))'
      BY <1>1, <2>3, <3>1, <3>2, LimitsStay
    <3>4. PoolLoaded(Len(pool) - left)'
      BY <1>1, <2>8, <3>2, LimitsStay DEF PoolLoaded
    <3>5. KlassesLoaded(0)' /\ FunctionsLoaded(0)'
      BY <2>4, <2>8 DEF KlassesLoaded, FunctionsLoaded
    <3> QED BY <2>8, <3>2, <3>3, <3>4, <3>5 DEF InPool
  <2>10. stage' = "pool"
    BY <1>1, <2>8 DEF Read
  <2>11. Layout(o)' /\ InPlace(o)'
    BY <1>1, <2>1, <2>9, <2>10, FileStays DEF InPlace
  <2>12. LoadedSoFar'
    BY <2>10, <2>11 DEF LoadedSoFar
  <2> QED BY <1>3, <2>12 DEF LoaderInv
<1> QED
  BY <1>4, <1>5


LEMMA CountsOfLayout ==
    ASSUME WellBuilt, WithinLimits, NEW o, Layout(o)
    PROVE  /\ Len(pool) \in Nat /\ Len(klasses) \in Nat /\ Len(functions) \in Nat
           /\ o[0] = 0 /\ \A k \in 0 .. Len(klasses) : o[k] \in Nat
           /\ o[Len(klasses)] \in Nat
           /\ Len(File) = 4 + Len(pool) + o[Len(klasses)] + Len(functions)
<1>1. Len(pool) \in Nat /\ Len(klasses) \in Nat /\ Len(functions) \in Nat
  BY LimitsAre
<1>2. \A k \in 0 .. Len(klasses) : o[k] \in Nat
  BY DEF Layout
<1>3. Len(klasses) \in 0 .. Len(klasses)
  BY <1>1
<1> QED
  BY <1>1, <1>2, <1>3 DEF Layout

LEMMA CountTyped ==
    ASSUME WellBuilt, LoadTypeOK, NEW next \in Stage, ReadCount(next)
    PROVE  UNCHANGED builder /\ LoadTypeOK'
<1>1. UNCHANGED builder /\ UNCHANGED loaded
  BY DEF ReadCount, Misread
<1>2. CASE Misread
  BY <1>1, <1>2, FileStays DEF Misread, LoadTypeOK, loaded, Stage
<1>3. CASE Expect("count") /\ ~Misread
  <2>1. istream # <<>> /\ "count" \in DOMAIN Head(istream)
    BY <1>3 DEF Expect
  <2>2. Head(istream).count \in Imm /\ Tail(istream) \in Seq(Item)
    BY <2>1, HeadShapes, ItemShapes DEF LoadTypeOK
  <2>3. left' = Head(istream).count /\ istream' = Tail(istream) /\ stage' = next
    BY <1>3 DEF ReadCount
  <2> QED BY <1>1, <2>2, <2>3, FileStays DEF LoadTypeOK, loaded
<1>4. CASE ~Expect("count")
  <2>1. Misread
    BY <1>4 DEF ReadCount
  <2> QED BY <1>2, <2>1
<1> QED
  BY <1>1, <1>2, <1>3, <1>4

(* The count that is due is there.                                         *)
LEMMA CountDue ==
    ASSUME WellBuilt, NEW p \in Nat, After(istream, p), p + 1 <= Len(File),
           NEW n \in Nat, n < ImmSize, File[p + 1] = [count |-> ToImm(n)],
           NEW next, ReadCount(next)
    PROVE  /\ left' = n /\ After(istream', p + 1) /\ stage' = next
           /\ UNCHANGED loaded
<1>1. istream # <<>> /\ Head(istream) = File[p + 1] /\ After(Tail(istream), p + 1)
  BY FileLayout, ReadOne
<1>2. Head(istream) = [count |-> n]
  BY <1>1, Sizes
<1>3. "count" \in DOMAIN Head(istream) /\ Head(istream).count = n
  BY <1>2
<1>4. Expect("count")
  BY <1>1, <1>3 DEF Expect
<1> QED
  BY <1>1, <1>3, <1>4 DEF ReadCount

LEMMA EndPoolKeeps ==
    ASSUME LoaderInv, EndPool
    PROVE  LoaderInv'
<1>1. stage = "pool" /\ left = 0 /\ ReadCount("klasses")
  BY DEF EndPool
<1>2. WellBuilt /\ LoadTypeOK
  BY DEF LoaderInv
<1>3. UNCHANGED builder /\ LoadTypeOK' /\ WellBuilt'
  BY <1>1, <1>2, CountTyped, FileStays DEF Stage
<1>4. CASE ~WithinLimits
  <2>1. ~WithinLimits' /\ stage' # "building"
    BY <1>1, <1>3, <1>4, LimitsStay DEF ReadCount, Misread
  <2>2. LoadedSoFar'
    BY <2>1 DEF LoadedSoFar
  <2> QED BY <1>3, <2>2 DEF LoaderInv
<1>5. CASE WithinLimits
  <2>1. PICK o : Layout(o) /\ InPlace(o)
    BY <1>1, <1>5 DEF LoaderInv, LoadedSoFar
  <2>2. InPool
    BY <1>1, <2>1 DEF InPlace
  <2> DEFINE n == Len(pool)
             K == Len(klasses)
             p == 1 + n
  <2>3. /\ n \in Nat /\ K \in Nat /\ p \in Nat /\ o[0] = 0
        /\ p + 1 <= Len(File) /\ K < ImmSize
        /\ n - left = n /\ K - K = 0 /\ 2 + n + 0 = p + 1 /\ p + 1 = 2 + n
        /\ K - 0 = K /\ K <= K
    BY <1>1, <1>2, <1>5, <2>1, CountsOfLayout, LimitsAre
  <2>4. After(istream, p) /\ PoolLoaded(n) /\ KlassesLoaded(0) /\ FunctionsLoaded(0)
    BY <2>2, <2>3 DEF InPool
  <2>5. File[p + 1] = [count |-> ToImm(K)]
    BY <2>1, <2>3 DEF Layout
  <2> HIDE DEF p, n, K
  <2>6. left' = K /\ After(istream', p + 1) /\ stage' = "klasses" /\ UNCHANGED loaded
    BY <1>1, <1>2, <2>3, <2>4, <2>5, CountDue
  <2>7. /\ Len(klasses') = K /\ Len(pool') = n /\ pool' = pool
    BY <1>3, LimitsStay DEF n, K
  <2>8. After(istream, 2 + Len(pool) + o[Len(klasses) - left])'
    BY <1>3, <2>3, <2>6, <2>7, LimitsStay
  <2>9. PoolLoaded(Len(pool))'
    BY <2>4, <2>6, <2>7 DEF PoolLoaded, loaded
  <2>10. KlassesLoaded(0)' /\ FunctionsLoaded(0)'
    BY <2>4, <2>6 DEF KlassesLoaded, FunctionsLoaded, loaded
  <2>11. KlassesLoaded(Len(klasses) - left)'
    BY <2>3, <2>6, <2>7, <2>10
  <2>12. InKlasses(o)'
    BY <2>3, <2>6, <2>7, <2>8, <2>9, <2>10, <2>11 DEF InKlasses
  <2>13. Layout(o)' /\ InPlace(o)'
    BY <1>3, <2>1, <2>6, <2>12, FileStays DEF InPlace
  <2>14. LoadedSoFar'
    BY <2>6, <2>13 DEF LoadedSoFar
  <2> QED BY <1>3, <2>14 DEF LoaderInv
<1> QED
  BY <1>4, <1>5

LEMMA EndKlassesKeeps ==
    ASSUME LoaderInv, EndKlasses
    PROVE  LoaderInv'
<1>1. stage = "klasses" /\ left = 0 /\ ReadCount("functions")
  BY DEF EndKlasses
<1>2. WellBuilt /\ LoadTypeOK
  BY DEF LoaderInv
<1>3. UNCHANGED builder /\ LoadTypeOK' /\ WellBuilt'
  BY <1>1, <1>2, CountTyped, FileStays DEF Stage
<1>4. CASE ~WithinLimits
  <2>1. ~WithinLimits' /\ stage' # "building"
    BY <1>1, <1>3, <1>4, LimitsStay DEF ReadCount, Misread
  <2>2. LoadedSoFar'
    BY <2>1 DEF LoadedSoFar
  <2> QED BY <1>3, <2>2 DEF LoaderInv
<1>5. CASE WithinLimits
  <2>1. PICK o : Layout(o) /\ InPlace(o)
    BY <1>1, <1>5 DEF LoaderInv, LoadedSoFar
  <2>2. InKlasses(o)
    BY <1>1, <2>1 DEF InPlace
  <2> DEFINE n == Len(pool)
             K == Len(klasses)
             F == Len(functions) + 1
             L == o[K]
             p == 2 + n + L
  <2>3. /\ n \in Nat /\ K \in Nat /\ L \in Nat /\ F \in Nat /\ p \in Nat
        /\ Len(File) = 3 + n + L + F /\ F < ImmSize /\ F >= 1
    BY <1>1, <1>2, <1>5, <2>1, CountsOfLayout, LimitsAre
  <2>4. K - left = K
    BY <1>1, <2>3
  <2>5. After(istream, p) /\ PoolLoaded(n) /\ KlassesLoaded(K) /\ FunctionsLoaded(0)
    BY <2>2, <2>4 DEF InKlasses
  <2>6. File[3 + n + L] = [count |-> ToImm(F)]
    BY <2>1 DEF Layout
  <2>7. Len(klasses') = K /\ Len(pool') = n /\ Len(functions') + 1 = F
    BY <1>3, LimitsStay
  <2>8. pool' = pool /\ klasses' = klasses
    BY <1>3, LimitsStay
  <2> HIDE DEF n, K, F, L
  <2>9. p + 1 = 3 + n + L /\ p + 1 <= Len(File) /\ F - F = 0 /\ F <= F /\ p + 1 + 0 = p + 1
    BY <2>3
  <2> HIDE DEF p
  <2>10. left' = F /\ After(istream', p + 1) /\ stage' = "functions" /\ UNCHANGED loaded
    BY <1>1, <1>2, <2>3, <2>5, <2>6, <2>9, CountDue
  <2>11. After(istream', 3 + n + L + (F - left'))
    BY <2>3, <2>9, <2>10
  <2>12. After(istream, 3 + Len(pool) + o[Len(klasses)]
                           + ((Len(functions) + 1) - left))'
    <3>1. 3 + Len(pool') + o[Len(klasses')] + ((Len(functions') + 1) - left')
            = 3 + n + L + (F - left')
      BY <2>7, Zenon DEF L
    <3> QED BY <1>3, <2>11, <3>1, LimitsStay
  <2>13. PoolLoaded(Len(pool))' /\ KlassesLoaded(Len(klasses))'
    BY <2>5, <2>7, <2>8, <2>10 DEF PoolLoaded, KlassesLoaded, loaded
  <2>14. FunctionsLoaded(0)'
    BY <2>5, <2>10 DEF FunctionsLoaded, loaded
  <2>15. FunctionsLoaded((Len(functions) + 1) - left)'
    BY <2>7, <2>9, <2>10, <2>14
  <2>16. InFunctions(o)'
    BY <2>7, <2>9, <2>10, <2>12, <2>13, <2>15 DEF InFunctions
  <2>17. Layout(o)' /\ InPlace(o)'
    BY <1>3, <2>1, <2>10, <2>16, FileStays DEF InPlace
  <2>18. LoadedSoFar'
    BY <2>10, <2>17 DEF LoadedSoFar
  <2> QED BY <1>3, <2>18 DEF LoaderInv
<1> QED
  BY <1>4, <1>5


LEMMA LoadFunctionKeeps ==
    ASSUME LoaderInv, LoadFunction
    PROVE  LoaderInv'
<1>1. stage = "functions" /\ left > 0 /\ UNCHANGED builder
  BY DEF LoadFunction, Read, Misread
<1>2. WellBuilt /\ LoadTypeOK /\ WellBuilt'
  BY <1>1, FileStays DEF LoaderInv
<1>3. LoadTypeOK'
  <2>1. CASE Misread
    BY <1>1, <1>2, <2>1, FileStays DEF Misread, LoadTypeOK, loaded, Stage
  <2>2. CASE Expect("function") /\ ~Misread
    <3>1. istream # <<>> /\ "function" \in DOMAIN Head(istream)
      BY <2>2 DEF Expect
    <3>2. Head(istream).function \in FunctionInfo /\ Tail(istream) \in Seq(Item)
      BY <1>2, <3>1, HeadShapes, ItemShapes DEF LoadTypeOK
    <3>3. /\ funcs' = Append(funcs, Head(istream).function)
          /\ Read /\ UNCHANGED <<constantPool, stringPool, loadedKlasses>>
      BY <2>2 DEF LoadFunction
    <3>4. funcs' \in Seq(FunctionInfo)
      BY <1>2, <3>2, <3>3, AppendProperties DEF LoadTypeOK
    <3> QED
      BY <1>1, <1>2, <3>2, <3>3, <3>4, FileStays, CountsDown
      DEF Read, LoadTypeOK, IsSequence
  <2>3. CASE ~Expect("function")
    BY <2>1, <2>3 DEF LoadFunction
  <2> QED BY <2>1, <2>2, <2>3
<1>4. CASE ~WithinLimits
  <2>1. ~WithinLimits' /\ stage' # "building"
    BY <1>1, <1>4, LimitsStay DEF LoadFunction, Read, Misread
  <2>2. LoadedSoFar'
    BY <2>1 DEF LoadedSoFar
  <2> QED BY <1>2, <1>3, <2>2 DEF LoaderInv
<1>5. CASE WithinLimits
  <2>1. PICK o : Layout(o) /\ InPlace(o)
    BY <1>1, <1>5 DEF LoaderInv, LoadedSoFar
  <2>2. InFunctions(o)
    BY <1>1, <2>1 DEF InPlace
  <2> DEFINE n == Len(pool)
             K == Len(klasses)
             F == Len(functions) + 1
             L == o[K]
             f == F - left + 1
             p == 3 + n + L + (F - left)
  <2>3. /\ n \in Nat /\ K \in Nat /\ L \in Nat /\ F \in Nat
        /\ Len(File) = 3 + n + L + F
    BY <1>1, <1>2, <1>5, <2>1, CountsOfLayout, LimitsAre
  <2>4. /\ left <= F /\ After(istream, p)
        /\ PoolLoaded(n) /\ KlassesLoaded(K) /\ FunctionsLoaded(F - left)
    BY <2>2, Zenon DEF InFunctions
  <2>5. \A g \in 1 .. F : File[3 + n + L + g] = [function |-> FunctionAt(g)]
    BY <2>1 DEF Layout
  <2>6. Len(klasses') = K /\ Len(pool') = n /\ Len(functions') + 1 = F
    BY <1>1, LimitsStay
  <2>7. pool' = pool /\ klasses' = klasses
    BY <1>1, LimitsStay
  <2>8. left \in Nat
    BY <1>1, <1>2, CountsDown DEF LoadTypeOK
  <2> HIDE DEF n, K, F, L
  <2>9. /\ f \in 1 .. F /\ p + 1 = 3 + n + L + f /\ p + 1 <= Len(File)
        /\ F - (left - 1) = f /\ f - 1 = F - left /\ f \in Nat
    BY <1>1, <2>3, <2>4, <2>8
  <2> HIDE DEF p, f
  <2>10. istream # <<>> /\ Head(istream) = File[p + 1] /\ After(Tail(istream), p + 1)
    BY <1>2, <2>4, <2>9, FileLayout, ReadOne
  <2>11. Head(istream) = [function |-> FunctionAt(f)]
    BY <2>5, <2>9, <2>10
  <2>12. "function" \in DOMAIN Head(istream) /\ Head(istream).function = FunctionAt(f)
    BY <2>11
  <2>13. /\ funcs' = Append(funcs, FunctionAt(f))
         /\ left' = left - 1 /\ istream' = Tail(istream) /\ stage' = "functions"
         /\ UNCHANGED <<constantPool, stringPool, loadedKlasses>>
    BY <1>1, <2>10, <2>12 DEF LoadFunction, Expect, Read
  <2>14. FunctionAt(f) \in FunctionInfo
    BY <1>2, <2>9, FunctionsAre DEF F
  <2>15. /\ Len(funcs') = f
         /\ \A g \in 1 .. f : funcs'[g] = FunctionAt(g)
    <3>1. /\ Len(funcs) = f - 1
          /\ \A g \in 1 .. f - 1 : funcs[g] = FunctionAt(g)
      BY <2>4, <2>9 DEF FunctionsLoaded
    <3>2. /\ Len(funcs') = (f - 1) + 1
          /\ \A g \in 1 .. f - 1 : funcs'[g] = funcs[g]
          /\ funcs'[(f - 1) + 1] = FunctionAt(f)
      BY <1>2, <2>13, <2>14, <3>1, AppendProperties DEF LoadTypeOK
    <3>3. \A g \in 1 .. f : g \in 1 .. f - 1 \/ g = f
      BY <2>9
    <3>4. (f - 1) + 1 = f
      BY <2>9
    <3> QED BY <3>1, <3>2, <3>3, <3>4
  <2>16. F - left' = f /\ left' <= F
    BY <2>3, <2>4, <2>8, <2>9, <2>13
  <2>17. After(istream, 3 + Len(pool) + o[Len(klasses)]
                           + ((Len(functions) + 1) - left))'
    <3>1. 3 + Len(pool') + o[Len(klasses')] + ((Len(functions') + 1) - left')
            = 3 + n + L + f
      BY <2>6, <2>16, Zenon DEF L
    <3> QED BY <1>1, <2>9, <2>10, <2>13, <3>1, LimitsStay
  <2>18. PoolLoaded(Len(pool))' /\ KlassesLoaded(Len(klasses))'
    BY <2>4, <2>6, <2>7, <2>13 DEF PoolLoaded, KlassesLoaded
  <2>19. FunctionsLoaded((Len(functions) + 1) - left)'
    <3>1. (Len(functions') + 1) - left' = f
      BY <2>6, <2>16, Zenon
    <3> QED BY <1>1, <2>15, <3>1, LimitsStay DEF FunctionsLoaded
  <2>20. InFunctions(o)'
    BY <2>6, <2>16, <2>17, <2>18, <2>19 DEF InFunctions
  <2>21. Layout(o)' /\ InPlace(o)'
    BY <1>1, <2>1, <2>13, <2>20, FileStays DEF InPlace
  <2>22. LoadedSoFar'
    BY <2>13, <2>21 DEF LoadedSoFar
  <2> QED BY <1>2, <1>3, <2>22 DEF LoaderInv
<1> QED
  BY <1>4, <1>5

LEMMA EndFunctionsKeeps ==
    ASSUME LoaderInv, EndFunctions
    PROVE  LoaderInv'
<1>1. /\ stage = "functions" /\ left = 0
      /\ UNCHANGED builder /\ UNCHANGED <<istream, left, loaded>>
      /\ stage' \in {"aborted", "running"}
  BY DEF EndFunctions
<1>2. WellBuilt /\ LoadTypeOK /\ WellBuilt'
  BY <1>1, FileStays DEF LoaderInv
<1>3. LoadTypeOK'
  BY <1>1, <1>2, FileStays DEF LoadTypeOK, loaded, Stage
<1>4. ASSUME WithinLimits' PROVE \E o : Layout(o)' /\ InPlace(o)'
  <2>1. WithinLimits
    BY <1>1, <1>4, LimitsStay
  <2>2. PICK o : Layout(o) /\ InPlace(o)
    BY <1>1, <2>1 DEF LoaderInv, LoadedSoFar
  <2>3. InFunctions(o)
    BY <1>1, <2>2 DEF InPlace
  <2>4. (Len(functions) + 1) - left = Len(functions) + 1
    BY <1>1, <1>2, <2>1, LimitsAre
  <2>5. AllLoaded
    BY <2>3, <2>4 DEF InFunctions, AllLoaded
  <2>6. AllLoaded'
    <3>1. /\ pool' = pool /\ klasses' = klasses /\ Len(functions') = Len(functions)
          /\ UNCHANGED <<constantPool, stringPool, loadedKlasses, funcs>>
      BY <1>1, LimitsStay DEF loaded
    <3>2. PoolLoaded(Len(pool))' /\ KlassesLoaded(Len(klasses))'
      BY <2>5, <3>1 DEF AllLoaded, PoolLoaded, KlassesLoaded
    <3>3. FunctionsLoaded(Len(functions) + 1)'
      BY <1>1, <2>5, <3>1, LimitsStay DEF AllLoaded, FunctionsLoaded
    <3> QED BY <3>2, <3>3 DEF AllLoaded
  <2>7. InPlace(o)'
    BY <1>1, <2>6 DEF InPlace
  <2> QED BY <1>1, <2>2, <2>7, FileStays
<1>5. LoadedSoFar'
  BY <1>1, <1>4 DEF LoadedSoFar
<1> QED
  BY <1>2, <1>3, <1>5 DEF LoaderInv


(* The klass that is due is there, with all its fields.                    *)
LEMMA KlassDue ==
    ASSUME WellBuilt, LoadTypeOK, WithinLimits, NEW o, Layout(o), InKlasses(o),
           left > 0
    PROVE  LET k == (Len(klasses) - left) + 1
               m == Len(klasses[k].fields)
           IN  /\ k \in 1 .. Len(klasses) /\ m \in Nat
               /\ Len(klasses) - (left - 1) = k /\ Len(klasses) - left = k - 1
               /\ Expect("nFields") /\ Head(istream).nFields = m
               /\ \A i \in 1 .. m :
                     /\ i + 1 <= Len(istream)
                     /\ istream[i + 1] = [isObject |-> klasses[k].fields[i]]
               /\ After(SubSeq(istream, m + 2, Len(istream)),
                        2 + Len(pool) + o[k])
<1> DEFINE n == Len(pool)
           K == Len(klasses)
           L == o[K]
           k == (K - left) + 1
           m == Len(klasses[k].fields)
           x == o[k - 1]
           p == 2 + n + x
<1>1. /\ n \in Nat /\ K \in Nat /\ L \in Nat /\ Len(functions) \in Nat
      /\ Len(File) = 4 + n + L + Len(functions)
      /\ \A i \in 0 .. K : o[i] \in Nat
  BY CountsOfLayout
<1>2. left \in Nat /\ left <= K /\ After(istream, 2 + n + o[K - left])
  BY CountsDown DEF LoadTypeOK, InKlasses
<1>3. k \in 1 .. K /\ K - (left - 1) = k /\ K - left = k - 1 /\ k - 1 \in 0 .. K
  <2> HIDE DEF K
  <2> QED BY <1>1, <1>2
<1>4. m \in Nat /\ klasses[k].nFields = m /\ klasses[k].fields \in Seq(BOOLEAN)
  <2> HIDE DEF k
  <2> QED BY <1>3, LimitsAre
<1>5. /\ o[k] = x + 1 + m /\ x + 1 + m <= L
      /\ File[3 + n + x] = [nFields |-> klasses[k].nFields]
      /\ \A j \in 1 .. m : File[3 + n + x + j] = [isObject |-> klasses[k].fields[j]]
  <2> HIDE DEF k
  <2> QED BY <1>3 DEF Layout
<1>6. x \in Nat
  <2> HIDE DEF k
  <2> QED BY <1>1, <1>3
<1>7. After(istream, p)
  <2> HIDE DEF K, n
  <2> QED BY <1>2, <1>3
<1> HIDE DEF n, K, L, x, k, m
<1>8. /\ p \in Nat /\ p + 1 = 3 + n + x /\ p + 1 <= Len(File)
      /\ p + (m + 1) <= Len(File) /\ p + (m + 1) = 2 + n + o[k]
      /\ (m + 1) + 1 = m + 2 /\ m + 1 \in Nat
      /\ \A i \in 1 .. m : p + (i + 1) = 3 + n + x + i
  <2> DEFINE F == Len(functions)
             Z == Len(File)
             y == o[k]
  <2>1. /\ n \in Nat /\ L \in Nat /\ F \in Nat /\ x \in Nat /\ m \in Nat
        /\ Z = 4 + n + L + F /\ y = x + 1 + m /\ x + 1 + m <= L
    BY <1>1, <1>4, <1>5, <1>6
  <2> HIDE DEF F, Z, y
  <2>2. /\ p \in Nat /\ p + 1 = 3 + n + x /\ p + 1 <= Z
        /\ p + (m + 1) <= Z /\ p + (m + 1) = 2 + n + y
        /\ (m + 1) + 1 = m + 2 /\ m + 1 \in Nat
    BY <2>1
  <2>3. \A i \in 1 .. m : p + (i + 1) = 3 + n + x + i
    BY <2>1
  <2> QED BY <2>2, <2>3 DEF Z, y
<1> HIDE DEF p
<1>9. istream # <<>> /\ Head(istream) = File[p + 1]
  BY <1>7, <1>8, FileLayout, ReadOne
<1>10. Head(istream) = [nFields |-> m]
  BY <1>4, <1>5, <1>8, <1>9
<1>11. "nFields" \in DOMAIN Head(istream) /\ Head(istream).nFields = m
  BY <1>10
<1>12. Expect("nFields")
  BY <1>9, <1>11 DEF Expect
<1>13. After(SubSeq(istream, (m + 1) + 1, Len(istream)), p + (m + 1))
  BY <1>7, <1>8, FileLayout, ReadSome
<1>14. After(SubSeq(istream, m + 2, Len(istream)), 2 + n + o[k])
  BY <1>8, <1>13
<1>15. Len(istream) = Len(File) - p /\ Len(File) \in Nat
       /\ \A j \in 1 .. Len(istream) : istream[j] = File[p + j]
  BY <1>1, <1>7 DEF After
<1>16. ASSUME NEW i \in 1 .. m
       PROVE  /\ i + 1 <= Len(istream)
              /\ istream[i + 1] = [isObject |-> klasses[k].fields[i]]
  <2>1. /\ i + 1 <= Len(istream) /\ i + 1 \in 1 .. Len(istream)
    BY <1>4, <1>8, <1>15
  <2>2. istream[i + 1] = File[p + (i + 1)]
    BY <1>15, <2>1
  <2>3. File[p + (i + 1)] = File[3 + n + x + i]
    BY <1>8
  <2> QED BY <1>5, <2>1, <2>2, <2>3
<1> QED
  BY <1>3, <1>4, <1>11, <1>12, <1>14, <1>16 DEF k, m, K, n

LEMMA LoadKlassTyped ==
    ASSUME WellBuilt, LoadTypeOK, LoadKlass
    PROVE  LoadTypeOK'
<1>1. stage = "klasses" /\ left > 0 /\ UNCHANGED builder
  BY DEF LoadKlass, Misread
<1>2. CASE Misread
  BY <1>1, <1>2, FileStays DEF Misread, LoadTypeOK, loaded, Stage
<1> DEFINE n == IF Expect("nFields") THEN Head(istream).nFields ELSE 0
           isField(i) == i <= Len(istream) /\ "isObject" \in DOMAIN istream[i]
           new == [i \in 1 .. n |-> istream[i + 1].isObject]
<1>3. CASE /\ Expect("nFields") /\ \A i \in 2 .. n + 1 : isField(i)
           /\ ~Misread
  <2>1. /\ loadedKlasses' = Append(loadedKlasses, new)
        /\ istream' = SubSeq(istream, n + 2, Len(istream))
        /\ left' = left - 1
        /\ UNCHANGED <<stage, constantPool, stringPool, funcs>>
    BY <1>3 DEF LoadKlass
  <2>2. n \in Nat
    <3>1. istream # <<>> /\ "nFields" \in DOMAIN Head(istream)
      BY <1>3 DEF Expect
    <3>2. Head(istream).nFields \in Byte
      BY <3>1, HeadShapes, ItemShapes DEF LoadTypeOK
    <3> QED BY <1>3, <3>2, Sizes
  <2>3. \A i \in 2 .. n + 1 : isField(i)
    BY <1>3
  <2>4. istream \in Seq(Item) /\ Len(istream) \in Nat
    BY LenProperties DEF LoadTypeOK
  <2> HIDE DEF n
  <2>5. \A i \in 1 .. n : istream[i + 1].isObject \in BOOLEAN
    <3> SUFFICES ASSUME NEW i \in 1 .. n PROVE istream[i + 1].isObject \in BOOLEAN
      OBVIOUS
    <3>1. i + 1 \in 2 .. n + 1 /\ i + 1 \in Nat /\ i + 1 >= 1
      BY <2>2
    <3>2. isField(i + 1)
      BY <2>3, <3>1
    <3>3. istream[i + 1] \in Item
      BY <2>4, <3>1, <3>2, ElementOfSeq
    <3> QED BY <3>2, <3>3, ItemShapes
  <2>6. new \in [1 .. n -> BOOLEAN]
    BY <2>5
  <2> HIDE DEF new
  <2>7. new \in Seq(BOOLEAN)
    BY <2>2, <2>6, MapPart
  <2>8. loadedKlasses' \in Seq(Seq(BOOLEAN))
    BY <2>1, <2>7, AppendProperties DEF LoadTypeOK
  <2>9. istream' \in Seq(Item)
    <3>1. \A i \in n + 2 .. Len(istream) : i \in 1 .. Len(istream)
      BY <2>2, <2>4
    <3>2. \A i \in n + 2 .. Len(istream) : istream[i] \in Item
      BY <2>4, <3>1, ElementOfSeq
    <3>3. n + 2 \in Int /\ Len(istream) \in Int
      BY <2>2, <2>4
    <3> QED BY <2>1, <3>2, <3>3, SubSeqProperties
  <2> QED BY <1>1, <2>1, <2>8, <2>9, FileStays, CountsDown DEF LoadTypeOK, IsSequence
<1>4. CASE ~(Expect("nFields") /\ \A i \in 2 .. n + 1 : isField(i))
  <2>1. Misread
    BY <1>4 DEF LoadKlass
  <2> QED BY <1>2, <2>1
<1> QED
  BY <1>2, <1>3, <1>4

LEMMA LoadKlassKeeps ==
    ASSUME LoaderInv, LoadKlass
    PROVE  LoaderInv'
<1>1. stage = "klasses" /\ left > 0 /\ UNCHANGED builder
  BY DEF LoadKlass, Misread
<1>2. WellBuilt /\ LoadTypeOK
  BY DEF LoaderInv
<1>3. WellBuilt' /\ LoadTypeOK'
  BY <1>1, <1>2, FileStays, LoadKlassTyped
<1>4. CASE ~WithinLimits
  <2>1. ~WithinLimits' /\ stage' # "building"
    BY <1>1, <1>4, LimitsStay DEF LoadKlass, Misread
  <2>2. LoadedSoFar'
    BY <2>1 DEF LoadedSoFar
  <2> QED BY <1>3, <2>2 DEF LoaderInv
<1>5. CASE WithinLimits
  <2>1. PICK o : Layout(o) /\ InPlace(o)
    BY <1>1, <1>5 DEF LoaderInv, LoadedSoFar
  <2>2. InKlasses(o)
    BY <1>1, <2>1 DEF InPlace
  <2> DEFINE K == Len(klasses)
             k == (K - left) + 1
             fs == klasses[k].fields
             m == Len(fs)
  <2>3. /\ k \in 1 .. K /\ m \in Nat
        /\ K - (left - 1) = k /\ K - left = k - 1
        /\ Expect("nFields") /\ Head(istream).nFields = m
        /\ \A i \in 1 .. m :
              /\ i + 1 <= Len(istream)
              /\ istream[i + 1] = [isObject |-> klasses[k].fields[i]]
        /\ After(SubSeq(istream, m + 2, Len(istream)), 2 + Len(pool) + o[k])
    BY <1>1, <1>2, <1>5, <2>1, <2>2, KlassDue
  <2>4. /\ PoolLoaded(Len(pool)) /\ KlassesLoaded(k - 1) /\ FunctionsLoaded(0)
        /\ left <= K
    BY <2>2, <2>3 DEF InKlasses
  <2>5. fs \in Seq(BOOLEAN) /\ K \in Nat
    BY <1>2, <1>5, <2>3, LimitsAre
  <2> HIDE DEF k, K
  <2> DEFINE new == [i \in 1 .. m |-> istream[i + 1].isObject]
  <2>6. new = fs
    <3>1. \A i \in 1 .. m : istream[i + 1].isObject = fs[i]
      <4> SUFFICES ASSUME NEW i \in 1 .. m PROVE istream[i + 1].isObject = fs[i]
        OBVIOUS
      <4>1. istream[i + 1] = [isObject |-> fs[i]]
        BY <2>3
      <4> QED BY <4>1
    <3>2. fs = [i \in 1 .. m |-> fs[i]]
      BY <2>5
    <3> HIDE DEF fs, m
    <3> QED BY <3>1, <3>2
  <2>7. \A i \in 2 .. m + 1 : i <= Len(istream) /\ "isObject" \in DOMAIN istream[i]
    <3> SUFFICES ASSUME NEW i \in 2 .. m + 1
                 PROVE  i <= Len(istream) /\ "isObject" \in DOMAIN istream[i]
      OBVIOUS
    <3> DEFINE j == i - 1
    <3>1. j \in 1 .. m /\ j + 1 = i
      BY <2>3
    <3> HIDE DEF j
    <3>2. j + 1 <= Len(istream) /\ istream[j + 1] = [isObject |-> klasses[k].fields[j]]
      BY <2>3, <3>1
    <3>3. "isObject" \in DOMAIN istream[j + 1]
      BY <3>2
    <3> QED BY <3>1, <3>2, <3>3
  <2> HIDE DEF fs, m
  <2>8. /\ loadedKlasses' = Append(loadedKlasses, new)
        /\ istream' = SubSeq(istream, m + 2, Len(istream))
        /\ left' = left - 1 /\ stage' = "klasses"
        /\ UNCHANGED <<constantPool, stringPool, funcs>>
    BY <1>1, <2>3, <2>7 DEF LoadKlass
  <2> HIDE DEF new
  <2>9. Len(klasses') = K /\ Len(pool') = Len(pool) /\ pool' = pool /\ klasses' = klasses
    BY <1>1, LimitsStay DEF K
  <2>10. K - left' = k /\ left' <= K
    BY <1>2, <1>1, <2>3, <2>4, <2>5, <2>8, CountsDown DEF LoadTypeOK
  <2>11. /\ Len(loadedKlasses') = k
         /\ \A g \in 1 .. k : loadedKlasses'[g] = klasses[g].fields
    <3>1. /\ Len(loadedKlasses) = k - 1
          /\ \A g \in 1 .. k - 1 : loadedKlasses[g] = klasses[g].fields
      BY <2>4 DEF KlassesLoaded
    <3>2. /\ Len(loadedKlasses') = (k - 1) + 1
          /\ \A g \in 1 .. k - 1 : loadedKlasses'[g] = loadedKlasses[g]
          /\ loadedKlasses'[(k - 1) + 1] = fs
      BY <1>2, <2>5, <2>6, <2>8, <3>1, AppendProperties DEF LoadTypeOK
    <3>3. (\A g \in 1 .. k : g \in 1 .. k - 1 \/ g = k) /\ (k - 1) + 1 = k
      BY <2>3, <2>5
    <3> QED BY <3>1, <3>2, <3>3 DEF fs
  <2>12. After(istream, 2 + Len(pool) + o[Len(klasses) - left])'
    BY <1>1, <2>3, <2>8, <2>9, <2>10, LimitsStay
  <2>13. PoolLoaded(Len(pool))' /\ FunctionsLoaded(0)'
    BY <2>4, <2>8, <2>9 DEF PoolLoaded, FunctionsLoaded
  <2>14. KlassesLoaded(Len(klasses) - left)'
    BY <2>9, <2>10, <2>11 DEF KlassesLoaded
  <2>15. InKlasses(o)'
    BY <2>9, <2>10, <2>12, <2>13, <2>14 DEF InKlasses
  <2>16. Layout(o)' /\ InPlace(o)'
    BY <1>1, <2>1, <2>8, <2>15, FileStays DEF InPlace
  <2>17. LoadedSoFar'
    BY <2>8, <2>16 DEF LoadedSoFar
  <2> QED BY <1>3, <2>17 DEF LoaderInv
<1> QED
  BY <1>4, <1>5

LEMMA LoadKeeps ==
    ASSUME LoaderInv, Load
    PROVE  LoaderInv'
BY LoadConstantKeeps, EndPoolKeeps, LoadKlassKeeps, EndKlassesKeeps,
   LoadFunctionKeeps, EndFunctionsKeeps DEF Load


-----------------------------------------------------------------------------
(* The builder, and what its clients are told.                             *)

LoadWord == {RawI(Ldia, id) : id \in Imm}

(* An instruction that is told to load a constant has its index, a body    *)
(* that is told an id is there, with no call but of itself, and so is the  *)
(* field at an offset.                                                     *)
ConstantIsThere(p) ==
    /\ p[2] \in Constant
    /\ Len(pool) < ImmSize =>
          \E i \in 1 .. Len(pool) : p[1] = RawI(Ldia, i - 1) /\ pool[i] = p[2]

CallsItself(code, id) ==
    \A i \in 1 .. Len(code) :
        Parse(code[i]).operation = Call => Parse(code[i]).immidiate = id

BodyIsThere(p) ==
    /\ CallsItself(p[2].code, p[1])
    /\ Len(functions) + 1 < ImmSize =>
          p[1] \in 1 .. Len(functions) /\ functions[p[1]] = p[2]

FieldIsThere(p) ==
    /\ p[1] \in 1 .. Len(klasses)
    /\ Len(klasses[p[1]].fields) < ByteSize =>
          /\ p[2] + 1 \in 1 .. Len(klasses[p[1]].fields)
          /\ klasses[p[1]].fields[p[2] + 1] = p[3]

ToldRight ==
    /\ instrs \in Seq(LoadWord)
    /\ \A p \in constantOf : ConstantIsThere(p)
    /\ \A p \in bodyOf : BodyIsThere(p)
    /\ \A p \in fieldAt : FieldIsThere(p)

LEMMA LongerBy ==
    ASSUME NEW s, IsSequence(s), NEW t, IsSequence(t)
    PROVE  IsSequence(s \o t) /\ Joins(s \o t, s, t)
<1> DEFINE S == Range(s) \cup Range(t)
<1>1. s \in Seq(S) /\ t \in Seq(S)
  BY SeqMonotonic DEF IsSequence
<1> HIDE DEF S
<1> QED
  BY <1>1, ConcatJoins, SequenceIs

(* More constants do not disturb those that are there.                     *)
PoolOK(p) == IsSequence(p) /\ \A i \in 1 .. Len(p) : WellFormedConstant(p[i])

LEMMA PoolGrows ==
    ASSUME NEW p, PoolOK(p), NEW c, WellFormedConstant(c)
    PROVE  /\ PoolOK(Append(p, c))
           /\ Len(p) \in Nat /\ Len(Append(p, c)) = Len(p) + 1
           /\ \A i \in 1 .. Len(p) : Append(p, c)[i] = p[i]
           /\ Append(p, c)[Len(p) + 1] = c
<1> DEFINE q == Append(p, c)
<1>1. /\ IsSequence(q) /\ Len(p) \in Nat /\ Len(q) = Len(p) + 1
      /\ \A i \in 1 .. Len(p) : q[i] = p[i]
      /\ q[Len(p) + 1] = c
  BY LongerSequence DEF PoolOK
<1> HIDE DEF q
<1>2. \A i \in 1 .. Len(q) : i \in 1 .. Len(p) \/ i = Len(p) + 1
  BY <1>1
<1>3. \A i \in 1 .. Len(q) : WellFormedConstant(q[i])
  BY <1>1, <1>2 DEF PoolOK
<1> QED
  BY <1>1, <1>3 DEF PoolOK, q

LEMMA ConstantsAreWellFormed ==
    /\ \A c \in Constant : WellFormedConstant(c) /\ c.tag # CNST_FUNC_NAME_AND_TYPE
    /\ WellFormedConstant(ConstRawStr(Name))
<1>1. ASSUME NEW t \in Text \cup {Name}
      PROVE  WellFormedConstant(ConstRawStr(t)) /\ ConstRawStr(t).tag = CNST_RAW_STR
  <2>1. Len(t) \in Nat
    BY ChaiFileAssumption, LenProperties
  <2> QED BY <2>1 DEF ConstRawStr, WellFormedConstant, CNST_RAW_STR, CNST_I64,
                       CNST_F64, CNST_FUNC_NAME_AND_TYPE
<1>2. ASSUME NEW tag \in {CNST_I64, CNST_F64}, NEW w \in Word
      PROVE  /\ WellFormedConstant(ConstNumber(tag, w))
             /\ ConstNumber(tag, w).tag # CNST_FUNC_NAME_AND_TYPE
  <2>1. w \in Nat
    BY ChaiFileAssumption
  <2> QED BY <2>1 DEF ConstNumber, WellFormedConstant, CNST_RAW_STR, CNST_I64,
                       CNST_F64, CNST_FUNC_NAME_AND_TYPE
<1>3. \A c \in Constant : WellFormedConstant(c) /\ c.tag # CNST_FUNC_NAME_AND_TYPE
  <2> SUFFICES ASSUME NEW c \in Constant
               PROVE  WellFormedConstant(c) /\ c.tag # CNST_FUNC_NAME_AND_TYPE
    OBVIOUS
  <2>1. CASE \E tag \in {CNST_I64, CNST_F64}, w \in Word : c = ConstNumber(tag, w)
    BY <1>2, <2>1
  <2>2. CASE \E t \in Text : c = ConstRawStr(t)
    <3>1. PICK t \in Text : c = ConstRawStr(t)
      BY <2>2
    <3>2. WellFormedConstant(c) /\ c.tag = CNST_RAW_STR
      BY <1>1, <3>1
    <3> QED BY <3>2 DEF CNST_RAW_STR, CNST_FUNC_NAME_AND_TYPE
  <2> QED BY <2>1, <2>2 DEF Constant
<1> QED
  BY <1>1, <1>3

LEMMA NameAndTypeOK ==
    ASSUME NEW before \in Nat
    PROVE  /\ PoolOK(NameAndType(before, Name, Name))
           /\ Len(NameAndType(before, Name, Name)) = 3
<1> DEFINE a == ConstRawStr(Name)
           b == ConstFuncNameAndType(ToImm(before), ToImm(before + 1))
           t == NameAndType(before, Name, Name)
<1>1. WellFormedConstant(a)
  BY ConstantsAreWellFormed
<1>2. WellFormedConstant(b)
  <2>1. ToImm(before) \in Nat /\ ToImm(before + 1) \in Nat
    <3>1. before + 1 \in Nat
      OBVIOUS
    <3>2. ToImm(before) \in Imm /\ ToImm(before + 1) \in Imm
      BY <3>1, Sizes
    <3> QED BY <3>2, Sizes
  <2> QED BY <2>1 DEF ConstFuncNameAndType, WellFormedConstant, CNST_RAW_STR,
                       CNST_I64, CNST_F64, CNST_FUNC_NAME_AND_TYPE
<1>3. t = <<a, a, b>>
  BY DEF NameAndType
<1> HIDE DEF a, b, t
<1>4. t \in Seq({a, b}) /\ Len(t) = 3 /\ \A i \in 1 .. 3 : t[i] \in {a, b}
  BY <1>3
<1>5. PoolOK(t)
  BY <1>1, <1>2, <1>4, SequenceIs DEF PoolOK
<1> QED
  BY <1>4, <1>5 DEF t

LEMMA PoolGrowsBy ==
    ASSUME NEW p, PoolOK(p), NEW t, PoolOK(t)
    PROVE  /\ PoolOK(p \o t)
           /\ Len(p) \in Nat /\ Len(t) \in Nat
           /\ Len(p \o t) = Len(p) + Len(t)
           /\ \A i \in 1 .. Len(p) : (p \o t)[i] = p[i]
<1> DEFINE q == p \o t
<1>1. IsSequence(q) /\ Joins(q, p, t)
  BY LongerBy DEF PoolOK
<1> HIDE DEF q
<1>2. /\ Len(p) \in Nat /\ Len(t) \in Nat /\ Len(q) = Len(p) + Len(t)
      /\ \A i \in 1 .. Len(p) : q[i] = p[i]
      /\ \A i \in 1 .. Len(t) : q[Len(p) + i] = t[i]
  BY <1>1 DEF Joins
<1>3. ASSUME NEW i \in 1 .. Len(q) PROVE WellFormedConstant(q[i])
  <2>1. CASE i <= Len(p)
    <3>1. i \in 1 .. Len(p)
      BY <1>2, <2>1
    <3> QED BY <1>2, <3>1 DEF PoolOK
  <2>2. CASE i > Len(p)
    <3> DEFINE j == i - Len(p)
    <3>1. j \in 1 .. Len(t) /\ Len(p) + j = i
      BY <1>2, <2>2
    <3> HIDE DEF j
    <3>2. q[i] = t[j]
      BY <1>2, <3>1
    <3> QED BY <3>1, <3>2 DEF PoolOK
  <2> QED BY <1>2, <2>1, <2>2
<1>4. PoolOK(q)
  BY <1>1, <1>3 DEF PoolOK
<1> QED
  BY <1>2, <1>4 DEF q

(* What was told of constants stays right when the pool grows.             *)
LEMMA ConstantsStay ==
    ASSUME Len(pool) \in Nat, Len(pool') \in Nat, Len(pool) <= Len(pool'),
           \A i \in 1 .. Len(pool) : pool'[i] = pool[i],
           NEW p, ConstantIsThere(p)
    PROVE  ConstantIsThere(p)'
<1>1. p[2] \in Constant'
  BY DEF ConstantIsThere, Constant
<1>2. ASSUME Len(pool') < ImmSize
      PROVE  \E i \in 1 .. Len(pool') : p[1] = RawI(Ldia, i - 1) /\ pool'[i] = p[2]
  <2>1. Len(pool) < ImmSize
    BY <1>2, Sizes
  <2>2. PICK i \in 1 .. Len(pool) : p[1] = RawI(Ldia, i - 1) /\ pool[i] = p[2]
    BY <2>1 DEF ConstantIsThere
  <2> QED BY <2>2
<1> QED
  BY <1>1, <1>2 DEF ConstantIsThere


LEMMA WellBuiltPool ==
    ASSUME WellBuilt
    PROVE  PoolOK(pool)
BY DEF WellBuilt, PoolOK

BuildInv == WellBuilt /\ ToldRight

LEMMA AddInstrKeeps ==
    ASSUME BuildInv, NEW word \in Nat, AddInstr(word)
    PROVE  BuildInv'
<1>1. /\ rawInstrs' = Append(rawInstrs, word)
      /\ pool' = pool /\ klasses' = klasses /\ functions' = functions
      /\ instrs' = instrs /\ constantOf' = constantOf /\ bodyOf' = bodyOf
      /\ fieldAt' = fieldAt
  BY DEF AddInstr, told
<1>2. WellBuilt'
  BY <1>1, AppendProperties DEF BuildInv, WellBuilt
<1>3. ToldRight'
  BY <1>1 DEF BuildInv, ToldRight, ConstantIsThere, BodyIsThere, FieldIsThere, Constant
<1> QED
  BY <1>2, <1>3 DEF BuildInv

LEMMA WithConstKeeps ==
    ASSUME BuildInv, NEW c \in Constant, WithConst(c)
    PROVE  BuildInv'
<1> DEFINE id == ConstantId(1)
           word == RawI(Ldia, id)
<1>1. /\ pool' = Append(pool, c)
      /\ constantOf' = constantOf \cup {<<word, c>>}
      /\ \/ rawInstrs' = Append(rawInstrs, word) /\ instrs' = instrs
         \/ instrs' = Append(instrs, word) /\ rawInstrs' = rawInstrs
      /\ klasses' = klasses /\ functions' = functions
      /\ bodyOf' = bodyOf /\ fieldAt' = fieldAt
  BY DEF WithConst
<1>2. PoolOK(pool) /\ WellFormedConstant(c)
  BY WellBuiltPool, ConstantsAreWellFormed DEF BuildInv
<1>3. /\ PoolOK(pool') /\ Len(pool) \in Nat /\ Len(pool') = Len(pool) + 1
      /\ \A i \in 1 .. Len(pool) : pool'[i] = pool[i]
      /\ pool'[Len(pool) + 1] = c
  BY <1>1, <1>2, PoolGrows
<1>4. id \in Imm /\ (Len(pool) < ImmSize => id = Len(pool))
  <2>1. id = ToImm(Len(pool))
    BY <1>3 DEF ConstantId
  <2> QED BY <1>3, <2>1, Sizes
<1> HIDE DEF id
<1>5. word \in LoadWord /\ word \in Nat
  <2>1. Ldia \in Nat /\ ImmSize \in Nat /\ id \in Nat
    BY <1>4, Sizes, ChaiFileAssumption
  <2>2. word \in Nat
    BY <2>1, Z3 DEF RawI
  <2> QED BY <1>4, <2>2 DEF LoadWord
<1> HIDE DEF word
<1>6. WellBuilt'
  <2>1. rawInstrs' \in Seq(Nat)
    <3>1. rawInstrs \in Seq(Nat)
      BY DEF BuildInv, WellBuilt
    <3>2. Append(rawInstrs, word) \in Seq(Nat)
      BY <1>5, <3>1, AppendProperties
    <3> QED BY <1>1, <3>1, <3>2
  <2> QED BY <1>1, <1>3, <2>1 DEF BuildInv, WellBuilt, PoolOK
<1>7. instrs' \in Seq(LoadWord)
  BY <1>1, <1>5, AppendProperties DEF BuildInv, ToldRight
<1>8. \A p : p = <<word, c>> => ConstantIsThere(p)'
  <2> SUFFICES ASSUME NEW p, p = <<word, c>> PROVE ConstantIsThere(p)'
    OBVIOUS
  <2>1. p[1] = word /\ p[2] = c
    OBVIOUS
  <2>2. ASSUME Len(pool') < ImmSize
        PROVE  \E i \in 1 .. Len(pool') : p[1] = RawI(Ldia, i - 1) /\ pool'[i] = p[2]
    <3> DEFINE j == Len(pool) + 1
    <3>0. Len(pool) < ImmSize /\ j \in 1 .. Len(pool') /\ j - 1 = Len(pool)
      <4> DEFINE a == Len(pool)
                 b == Len(pool')
      <4>1. a \in Nat /\ b = a + 1 /\ b < ImmSize /\ ImmSize \in Nat
        BY <1>3, <2>2, Sizes
      <4> HIDE DEF a, b
      <4>2. a < ImmSize /\ a + 1 \in 1 .. b /\ (a + 1) - 1 = a
        BY <4>1
      <4> QED BY <4>2 DEF a, b
    <3>1. j \in 1 .. Len(pool') /\ j - 1 = Len(pool) /\ id = Len(pool)
      BY <1>4, <3>0
    <3>2. word = RawI(Ldia, j - 1) /\ pool'[j] = c
      BY <1>3, <3>1 DEF word
    <3> QED BY <2>1, <3>1, <3>2
  <2>3. p[2] \in Constant'
    BY <2>1 DEF Constant
  <2> QED BY <2>2, <2>3 DEF ConstantIsThere
<1>9. ToldRight'
  <2>1. \A p \in constantOf' : ConstantIsThere(p)'
    <3>1. Len(pool) <= Len(pool') /\ Len(pool') \in Nat
      BY <1>3
    <3>2. \A p \in constantOf : ConstantIsThere(p)'
      BY <1>3, <3>1, ConstantsStay DEF BuildInv, ToldRight
    <3> QED BY <1>1, <1>8, <3>2
  <2>2. \A p \in bodyOf' : BodyIsThere(p)'
    BY <1>1 DEF BuildInv, ToldRight, BodyIsThere
  <2>3. \A p \in fieldAt' : FieldIsThere(p)'
    BY <1>1 DEF BuildInv, ToldRight, FieldIsThere
  <2> QED BY <1>7, <2>1, <2>2, <2>3 DEF ToldRight
<1> QED
  BY <1>6, <1>9 DEF BuildInv

LEMMA RegisterKlassKeeps ==
    ASSUME BuildInv, RegisterKlass
    PROVE  BuildInv'
<1> DEFINE new == [nFields |-> 0, fields |-> <<>>]
<1>1. /\ pool' = Append(pool, ConstRawStr(Name))
      /\ klasses' = Append(klasses, new)
      /\ rawInstrs' = rawInstrs /\ functions' = functions /\ instrs' = instrs
      /\ constantOf' = constantOf /\ bodyOf' = bodyOf /\ fieldAt' = fieldAt
  BY DEF RegisterKlass, told
<1>2. PoolOK(pool) /\ WellFormedConstant(ConstRawStr(Name))
  BY WellBuiltPool, ConstantsAreWellFormed DEF BuildInv
<1>3. /\ PoolOK(pool') /\ Len(pool) \in Nat /\ Len(pool') = Len(pool) + 1
      /\ \A i \in 1 .. Len(pool) : pool'[i] = pool[i]
  BY <1>1, <1>2, PoolGrows
<1>4. new \in KlassInfo /\ new.nFields = Len(new.fields) % ByteSize
  <2>1. 0 % ByteSize = 0
    BY Sizes
  <2> QED BY <2>1, Sizes DEF KlassInfo
<1> HIDE DEF new
<1>5. /\ klasses' \in Seq(KlassInfo) /\ Len(klasses) \in Nat
      /\ Len(klasses') = Len(klasses) + 1
      /\ \A k \in 1 .. Len(klasses) : klasses'[k] = klasses[k]
      /\ klasses'[Len(klasses) + 1] = new
  BY <1>1, <1>4, AppendProperties, LenProperties DEF BuildInv, WellBuilt
<1>6. \A k \in 1 .. Len(klasses') : k \in 1 .. Len(klasses) \/ k = Len(klasses) + 1
  BY <1>5
<1>7. \A k \in 1 .. Len(klasses') :
         klasses'[k].nFields = Len(klasses'[k].fields) % ByteSize
  BY <1>4, <1>5, <1>6 DEF BuildInv, WellBuilt
<1>8. WellBuilt'
  BY <1>1, <1>3, <1>5, <1>7 DEF BuildInv, WellBuilt, PoolOK
<1>9. ToldRight'
  <2>1. \A p \in constantOf' : ConstantIsThere(p)'
    BY <1>1, <1>3, ConstantsStay DEF BuildInv, ToldRight
  <2>2. \A p \in bodyOf' : BodyIsThere(p)'
    BY <1>1 DEF BuildInv, ToldRight, BodyIsThere
  <2>3. \A p \in fieldAt' : FieldIsThere(p)'
    <3> SUFFICES ASSUME NEW p \in fieldAt' PROVE FieldIsThere(p)'
      OBVIOUS
    <3>1. FieldIsThere(p)
      BY <1>1 DEF BuildInv, ToldRight
    <3>2. p[1] \in 1 .. Len(klasses') /\ klasses'[p[1]] = klasses[p[1]]
      BY <1>5, <3>1 DEF FieldIsThere
    <3> QED BY <3>1, <3>2 DEF FieldIsThere
  <2> QED BY <1>1, <2>1, <2>2, <2>3 DEF BuildInv, ToldRight
<1> QED
  BY <1>8, <1>9 DEF BuildInv

LEMMA CountModulo ==
    ASSUME NEW n \in Nat, NEW r, r = n % ByteSize
    PROVE  (r + 1) % ByteSize = (n + 1) % ByteSize
<1> DEFINE q == n \div ByteSize
           b == ByteSize
<1>1. b \in Nat \ {0} /\ b >= 2
  BY Sizes
<1>2. q \in Nat /\ r \in 0 .. b - 1 /\ n = b * q + r
  BY <1>1, SMTT(60)
<1> HIDE DEF q, b
<1>3. CASE r + 1 < b
  <2>1. r + 1 \in 0 .. b - 1 /\ n + 1 = b * q + (r + 1)
    BY <1>1, <1>2, <1>3, Z3
  <2>2. (b * q + (r + 1)) % b = r + 1
    BY <1>1, <1>2, <2>1, DivisionUnique
  <2>3. (r + 1) % b = r + 1
    BY <1>1, <2>1
  <2> QED BY <2>1, <2>2, <2>3, Zenon DEF b
<1>4. CASE r + 1 = b
  <2>1. n + 1 = b * (q + 1) + 0 /\ r + 1 = b * 1 + 0 /\ q + 1 \in Nat
    BY <1>1, <1>2, <1>4, Z3
  <2>2. 0 \in 0 .. b - 1 /\ 1 \in Nat
    BY <1>1
  <2>3. (b * (q + 1) + 0) % b = 0 /\ (b * 1 + 0) % b = 0
    BY <1>1, <2>1, <2>2, DivisionUnique
  <2> QED BY <2>1, <2>3, Zenon DEF b
<1> QED
  BY <1>1, <1>2, <1>3, <1>4

LEMMA AddFieldKeeps ==
    ASSUME BuildInv, NEW k \in DOMAIN klasses, NEW isObject \in BOOLEAN,
           AddField(k, isObject)
    PROVE  BuildInv'
<1> DEFINE old == klasses[k]
           n == Len(old.fields)
           fs == Append(old.fields, isObject)
<1>1. /\ pool' = Append(pool, ConstRawStr(Name))
      /\ klasses' = [klasses EXCEPT ![k].fields = Append(@, isObject),
                                    ![k].nFields = (@ + 1) % ByteSize]
      /\ fieldAt' = fieldAt \cup {<<k, ToImm(klasses'[k].nFields - 1), isObject>>}
      /\ rawInstrs' = rawInstrs /\ functions' = functions /\ instrs' = instrs
      /\ constantOf' = constantOf /\ bodyOf' = bodyOf
  BY DEF AddField
<1>2. PoolOK(pool) /\ WellFormedConstant(ConstRawStr(Name))
  BY WellBuiltPool, ConstantsAreWellFormed DEF BuildInv
<1>3. /\ PoolOK(pool') /\ Len(pool) \in Nat /\ Len(pool') = Len(pool) + 1
      /\ \A i \in 1 .. Len(pool) : pool'[i] = pool[i]
  BY <1>1, <1>2, PoolGrows
<1>4. /\ klasses \in Seq(KlassInfo) /\ k \in 1 .. Len(klasses) /\ Len(klasses) \in Nat
      /\ old \in KlassInfo
      /\ old.nFields = n % ByteSize
  BY LenProperties DEF BuildInv, WellBuilt
<1>5. /\ old.fields \in Seq(BOOLEAN) /\ n \in Nat /\ old.nFields \in Byte
      /\ fs \in Seq(BOOLEAN) /\ Len(fs) = n + 1
      /\ \A i \in 1 .. n : fs[i] = old.fields[i]
      /\ fs[n + 1] = isObject
  BY <1>4, AppendProperties, LenProperties DEF KlassInfo
<1> DEFINE new == [old EXCEPT !.fields = fs, !.nFields = (old.nFields + 1) % ByteSize]
<1>6. klasses' = [klasses EXCEPT ![k] = new]
  BY <1>1
<1>7. new.fields = fs /\ new.nFields = (old.nFields + 1) % ByteSize
  BY <1>4 DEF KlassInfo
<1>8. (old.nFields + 1) % ByteSize = (n + 1) % ByteSize
  <2> HIDE DEF n
  <2> QED BY <1>4, <1>5, CountModulo
<1>9. new \in KlassInfo
  <2>1. (n + 1) % ByteSize \in Byte
    <3>1. n + 1 \in Nat
      BY <1>5
    <3> QED BY <3>1, Sizes
  <2> HIDE DEF fs
  <2> QED BY <1>4, <1>5, <1>8, <2>1 DEF KlassInfo
<1> HIDE DEF new, fs
<1>10. /\ klasses' \in Seq(KlassInfo) /\ Len(klasses') = Len(klasses)
       /\ \A j \in 1 .. Len(klasses) :
             klasses'[j] = IF j = k THEN new ELSE klasses[j]
  BY <1>4, <1>6, <1>9, ExceptSeq
<1>11. \A j \in 1 .. Len(klasses') :
          klasses'[j].nFields = Len(klasses'[j].fields) % ByteSize
  BY <1>5, <1>7, <1>8, <1>10 DEF BuildInv, WellBuilt
<1>12. WellBuilt'
  BY <1>1, <1>3, <1>10, <1>11 DEF BuildInv, WellBuilt, PoolOK
<1>13. klasses'[k] = new
  BY <1>4, <1>10
<1>14. \A t : t = <<k, ToImm(klasses'[k].nFields - 1), isObject>> => FieldIsThere(t)'
  <2> SUFFICES ASSUME NEW t, t = <<k, ToImm(klasses'[k].nFields - 1), isObject>>
               PROVE  FieldIsThere(t)'
    OBVIOUS
  <2>1. t[1] = k /\ t[2] = ToImm(new.nFields - 1) /\ t[3] = isObject
    BY <1>13
  <2>2. ASSUME Len(klasses'[k].fields) < ByteSize
        PROVE  t[2] = n
    <3> HIDE DEF n
    <3>1. n + 1 < ByteSize /\ n + 1 \in Nat
      BY <1>5, <1>7, <1>13, <2>2
    <3>2. new.nFields = (n + 1) % ByteSize
      BY <1>7, <1>8
    <3>3. (n + 1) % ByteSize = n + 1
      BY <3>1, Sizes
    <3>4. ByteSize \in Nat /\ ImmSize \in Nat /\ ByteSize <= ImmSize
      BY Sizes, Z3 DEF ImmSize
    <3>5. n < ImmSize /\ (n + 1) - 1 = n
      BY <1>5, <3>1, <3>4
    <3>6. ToImm(n) = n
      BY <1>5, <3>5, Sizes
    <3> QED BY <2>1, <3>2, <3>3, <3>5, <3>6
  <2>3. ASSUME Len(klasses'[t[1]].fields) < ByteSize
        PROVE  /\ t[2] + 1 \in 1 .. Len(klasses'[t[1]].fields)
               /\ klasses'[t[1]].fields[t[2] + 1] = t[3]
    <3>1. t[2] = n
      BY <2>1, <2>2, <2>3
    <3>2. klasses'[t[1]].fields = fs
      BY <1>7, <1>13, <2>1
    <3> QED BY <1>5, <2>1, <3>1, <3>2
  <2>4. t[1] \in 1 .. Len(klasses')
    BY <1>4, <1>10, <2>1
  <2> QED BY <2>3, <2>4 DEF FieldIsThere
<1>15. \A p \in fieldAt : FieldIsThere(p)'
  <2> SUFFICES ASSUME NEW p \in fieldAt PROVE FieldIsThere(p)'
    OBVIOUS
  <2>1. FieldIsThere(p)
    BY DEF BuildInv, ToldRight
  <2>2. p[1] \in 1 .. Len(klasses)
    BY <2>1 DEF FieldIsThere
  <2>3. CASE p[1] # k
    <3>1. klasses'[p[1]] = klasses[p[1]] /\ p[1] \in 1 .. Len(klasses')
      BY <1>10, <2>2, <2>3
    <3> QED BY <2>1, <3>1 DEF FieldIsThere
  <2>4. CASE p[1] = k
    <3>1. klasses'[p[1]].fields = fs /\ klasses[p[1]].fields = old.fields
      BY <1>7, <1>13, <2>4
    <3>2. ASSUME Len(fs) < ByteSize
          PROVE  p[2] + 1 \in 1 .. Len(fs) /\ fs[p[2] + 1] = p[3]
      <4>1. n < ByteSize
        <5>1. n \in Nat /\ Len(fs) = n + 1 /\ ByteSize \in Nat
          BY <1>5, Sizes
        <5> HIDE DEF n
        <5> QED BY <3>2, <5>1
      <4>2. p[2] + 1 \in 1 .. n /\ old.fields[p[2] + 1] = p[3]
        BY <2>1, <3>1, <4>1 DEF FieldIsThere
      <4> QED BY <1>5, <4>2
    <3> QED BY <1>10, <2>2, <3>1, <3>2 DEF FieldIsThere
  <2> QED BY <2>3, <2>4
<1>16. ToldRight'
  <2>1. \A p \in constantOf' : ConstantIsThere(p)'
    BY <1>1, <1>3, ConstantsStay DEF BuildInv, ToldRight
  <2>2. \A p \in bodyOf' : BodyIsThere(p)'
    BY <1>1 DEF BuildInv, ToldRight, BodyIsThere
  <2>3. \A p \in fieldAt' : FieldIsThere(p)'
    BY <1>1, <1>14, <1>15
  <2> QED BY <1>1, <2>1, <2>2, <2>3 DEF BuildInv, ToldRight
<1> QED
  BY <1>12, <1>16 DEF BuildInv


LEMMA LoadWordsAre ==
    ASSUME NEW w \in LoadWord
    PROVE  w \in Nat /\ Parse(w).operation # Call
<1>1. PICK id \in Imm : w = RawI(Ldia, id)
  BY DEF LoadWord
<1>2. Ldia \in Byte /\ Ldia # Call /\ 0 \in Byte
  BY ChaiFileAssumption, Sizes
<1>3. Parse(w).operation = Ldia
  BY <1>1, <1>2, ParseUndoesRaw
<1>4. w \in Nat
  <2>1. Ldia \in Nat /\ ImmSize \in Nat /\ id \in Nat
    BY <1>2, Sizes
  <2> QED BY <1>1, <2>1, Z3 DEF RawI
<1> QED
  BY <1>2, <1>3, <1>4

(* A client's code, with or without a call of itself at its end.           *)
LEMMA BodyCode ==
    ASSUME instrs \in Seq(LoadWord), NEW id \in Imm, NEW recursive \in BOOLEAN
    PROVE  LET code == instrs \o (IF recursive THEN <<RawRI(Call, 0, id)>> ELSE <<>>)
           IN  code \in Seq(Nat) /\ CallsItself(code, id)
<1> DEFINE call == RawRI(Call, 0, id)
           t == IF recursive THEN <<call>> ELSE <<>>
           code == instrs \o t
<1>1. Call \in Byte /\ 0 \in Byte
  BY ChaiFileAssumption, Sizes
<1>2. call \in Nat /\ Parse(call).immidiate = id
  <2>1. Parse(call).immidiate = id
    BY <1>1, ParseUndoesRaw
  <2>2. Call \in Nat /\ ImmSize \in Nat /\ id \in Nat /\ ByteSize \in Nat
    BY <1>1, Sizes
  <2>3. call \in Nat
    BY <2>2, Z3 DEF RawRI
  <2> QED BY <2>1, <2>3
<1> HIDE DEF call
<1>3. LoadWord \subseteq Nat
  BY LoadWordsAre
<1>4. instrs \in Seq(Nat)
  BY <1>3, SeqMonotonic
<1>5. t \in Seq(Nat) /\ \A i \in 1 .. Len(t) : t[i] = call
  BY <1>2
<1> HIDE DEF t
<1>6. code \in Seq(Nat) /\ Joins(code, instrs, t)
  BY <1>4, <1>5, ConcatJoins
<1> HIDE DEF code
<1>7. ASSUME NEW i \in 1 .. Len(code), Parse(code[i]).operation = Call
      PROVE  Parse(code[i]).immidiate = id
  <2> DEFINE n == Len(instrs)
  <2>1. /\ n \in Nat /\ Len(t) \in Nat /\ Len(code) = n + Len(t)
        /\ \A j \in 1 .. n : code[j] = instrs[j]
        /\ \A j \in 1 .. Len(t) : code[n + j] = t[j]
    BY <1>6 DEF Joins
  <2>2. CASE i <= n
    <3>1. i \in 1 .. n
      BY <2>1, <2>2
    <3>2. code[i] = instrs[i] /\ instrs[i] \in LoadWord
      BY <2>1, <3>1, ElementOfSeq
    <3> QED BY <1>7, <3>2, LoadWordsAre
  <2>3. CASE i > n
    <3> DEFINE j == i - n
    <3> HIDE DEF n
    <3>1. j \in 1 .. Len(t) /\ n + j = i
      BY <2>1, <2>3
    <3> HIDE DEF j
    <3>2. code[i] = call
      BY <1>5, <2>1, <3>1
    <3> QED BY <1>2, <3>2
  <2> QED BY <2>1, <2>2, <2>3
<1>8. code \in Seq(Nat) /\ CallsItself(code, id)
  BY <1>6, <1>7 DEF CallsItself
<1> QED
  BY <1>8 DEF code, t, call

LEMMA AddFunctionKeeps ==
    ASSUME BuildInv, NEW regs \in Byte, NEW args \in Byte, NEW recursive \in BOOLEAN,
           AddFunction(regs, args, recursive)
    PROVE  BuildInv'
<1> DEFINE code == instrs \o (IF recursive THEN <<RawRI(Call, 0, NextFunc)>> ELSE <<>>)
           body == [numRegs |-> regs, numArgs |-> args, code |-> code]
           n == Len(functions)
<1>1. /\ pool' = pool \o NameAndType(Len(pool), Name, Name)
      /\ functions' = Append(functions, body)
      /\ instrs' = <<>>
      /\ bodyOf' = bodyOf \cup {<<ToImm(Len(functions')), body>>}
      /\ rawInstrs' = rawInstrs /\ klasses' = klasses
      /\ constantOf' = constantOf /\ fieldAt' = fieldAt
  BY DEF AddFunction
<1>2. PoolOK(pool) /\ Len(pool) \in Nat
  BY WellBuiltPool, PoolPart DEF BuildInv
<1>3. /\ PoolOK(pool') /\ Len(pool') = Len(pool) + 3
      /\ \A i \in 1 .. Len(pool) : pool'[i] = pool[i]
  <2> DEFINE t == NameAndType(Len(pool), Name, Name)
  <2>1. PoolOK(t) /\ Len(t) = 3
    BY <1>2, NameAndTypeOK
  <2>2. pool' = pool \o t
    BY <1>1
  <2> HIDE DEF t
  <2>3. /\ PoolOK(pool \o t) /\ Len(pool \o t) = Len(pool) + Len(t)
        /\ \A i \in 1 .. Len(pool) : (pool \o t)[i] = pool[i]
    BY <1>2, <2>1, PoolGrowsBy
  <2> QED BY <2>1, <2>2, <2>3 DEF PoolOK
<1>4. /\ functions \in Seq(FunctionInfo) /\ n \in Nat
  BY LenProperties DEF BuildInv, WellBuilt
<1>5. NextFunc = ToImm(n + 1) /\ NextFunc \in Imm
  <2>1. n + 1 \in Nat
    BY <1>4
  <2> QED BY <2>1, Sizes DEF NextFunc
<1>6. code \in Seq(Nat) /\ CallsItself(code, NextFunc)
  BY <1>5, BodyCode DEF BuildInv, ToldRight
<1> HIDE DEF code
<1>7. body \in FunctionInfo /\ body.code = code
  BY <1>6 DEF FunctionInfo
<1> HIDE DEF body
<1>8. /\ functions' \in Seq(FunctionInfo) /\ Len(functions') = n + 1
      /\ \A i \in 1 .. n : functions'[i] = functions[i]
      /\ functions'[n + 1] = body
  BY <1>1, <1>4, <1>7, AppendProperties
<1>9. WellBuilt'
  BY <1>1, <1>3, <1>8 DEF BuildInv, WellBuilt, PoolOK
<1>10. \A p : p = <<ToImm(Len(functions')), body>> => BodyIsThere(p)'
  <2> SUFFICES ASSUME NEW p, p = <<ToImm(Len(functions')), body>>
               PROVE  BodyIsThere(p)'
    OBVIOUS
  <2>1. p[1] = NextFunc /\ p[2] = body
    BY <1>5, <1>8
  <2>2. CallsItself(p[2].code, p[1])
    BY <1>6, <1>7, <2>1
  <2>3. ASSUME Len(functions') + 1 < ImmSize
        PROVE  p[1] \in 1 .. Len(functions') /\ functions'[p[1]] = p[2]
    <3> HIDE DEF n
    <3>1. n + 1 < ImmSize /\ n + 1 \in Nat
      BY <1>4, <1>8, <2>3, Sizes
    <3>2. p[1] = n + 1
      BY <1>5, <2>1, <3>1, Sizes
    <3> QED BY <1>4, <1>8, <2>1, <3>2
  <2>4. CallsItself(p[2].code, p[1])'
    BY <2>2 DEF CallsItself
  <2> QED BY <2>3, <2>4 DEF BodyIsThere
<1>11. \A p \in bodyOf : BodyIsThere(p)'
  <2> SUFFICES ASSUME NEW p \in bodyOf PROVE BodyIsThere(p)'
    OBVIOUS
  <2>1. BodyIsThere(p)
    BY DEF BuildInv, ToldRight
  <2>2. CallsItself(p[2].code, p[1])'
    BY <2>1 DEF BodyIsThere, CallsItself
  <2>3. ASSUME Len(functions') + 1 < ImmSize
        PROVE  p[1] \in 1 .. Len(functions') /\ functions'[p[1]] = p[2]
    <3>1. n + 1 < ImmSize
      <4> HIDE DEF n
      <4> QED BY <1>4, <1>8, <2>3, Sizes
    <3>2. p[1] \in 1 .. n /\ functions[p[1]] = p[2]
      BY <2>1, <3>1 DEF BodyIsThere
    <3> QED BY <1>4, <1>8, <3>2
  <2> QED BY <2>2, <2>3 DEF BodyIsThere
<1>12. ToldRight'
  <2>1. \A p \in constantOf' : ConstantIsThere(p)'
    <3>1. Len(pool) <= Len(pool') /\ Len(pool') \in Nat
      BY <1>2, <1>3
    <3> QED BY <1>1, <1>2, <1>3, <3>1, ConstantsStay DEF BuildInv, ToldRight
  <2>2. \A p \in bodyOf' : BodyIsThere(p)'
    BY <1>1, <1>10, <1>11
  <2>3. \A p \in fieldAt' : FieldIsThere(p)'
    BY <1>1 DEF BuildInv, ToldRight, FieldIsThere
  <2>4. instrs' \in Seq(LoadWord)
    BY <1>1
  <2> QED BY <2>1, <2>2, <2>3, <2>4 DEF ToldRight
<1> QED
  BY <1>9, <1>12 DEF BuildInv

LEMMA BuildKeeps ==
    ASSUME BuildInv, Build
    PROVE  BuildInv'
<1>1. RawRR(0, 1, 2) \in Nat
  <2>1. ByteSize \in Nat /\ ImmSize \in Nat
    BY Sizes
  <2> QED BY <2>1, Z3 DEF RawRR
<1>2. CASE AddInstr(RawRR(0, 1, 2))
  BY <1>1, <1>2, AddInstrKeeps
<1>3. CASE \E c \in Constant : WithConst(c)
  BY <1>3, WithConstKeeps
<1>4. CASE \E sig \in Signature, recursive \in BOOLEAN :
              AddFunction(sig[1], sig[2], recursive)
  <2>1. PICK sig \in Signature, recursive \in BOOLEAN :
              AddFunction(sig[1], sig[2], recursive)
    BY <1>4
  <2>2. sig[1] \in Byte /\ sig[2] \in Byte
    BY ChaiFileAssumption
  <2> QED BY <2>1, <2>2, AddFunctionKeeps
<1>5. CASE RegisterKlass
  BY <1>5, RegisterKlassKeeps
<1>6. CASE \E k \in DOMAIN klasses, isObject \in BOOLEAN : AddField(k, isObject)
  BY <1>6, AddFieldKeeps
<1> QED
  BY <1>2, <1>3, <1>4, <1>5, <1>6 DEF Build

LEMMA InitBuilds ==
    ASSUME Init
    PROVE  BuildInv
<1> DEFINE t == NameAndType(0, Name, Name)
<1>1. pool = Append(t, ConstRawStr(Name))
  BY DEF Init
<1>2. PoolOK(t)
  BY NameAndTypeOK
<1> HIDE DEF t
<1>3. PoolOK(pool)
  BY <1>1, <1>2, PoolGrows, ConstantsAreWellFormed
<1>4. WellBuilt
  BY <1>3 DEF Init, WellBuilt, PoolOK
<1>5. ToldRight
  BY DEF Init, ToldRight
<1> QED
  BY <1>4, <1>5 DEF BuildInv



-----------------------------------------------------------------------------
(* The running program adds to what is loaded and changes none of it.      *)

LEMMA StillLoaded ==
    ASSUME LoaderInv, stage = "running", UNCHANGED builder,
           UNCHANGED <<istream, left, loadedKlasses, funcs>>,
           stage' \in {"running", "aborted", "threw", "undefined"},
           \/ UNCHANGED <<constantPool, stringPool>>
           \/ \E t : /\ constantPool' = Append(constantPool, Len(stringPool))
                     /\ stringPool' = Append(stringPool, t)
    PROVE  LoaderInv'
<1>1. WellBuilt /\ LoadTypeOK /\ WellBuilt'
  BY FileStays DEF LoaderInv
<1>2. /\ pool' = pool /\ klasses' = klasses /\ Len(pool') = Len(pool)
      /\ Len(klasses') = Len(klasses) /\ Len(functions') = Len(functions)
      /\ \A f : FunctionAt(f)' = FunctionAt(f)
      /\ WithinLimits' <=> WithinLimits
  BY LimitsStay
<1>3. LoadTypeOK' /\ (PoolLoaded(Len(pool)) => PoolLoaded(Len(pool))')
  <2>1. CASE UNCHANGED <<constantPool, stringPool>>
    BY <1>1, <1>2, <2>1, FileStays DEF LoadTypeOK, Stage, PoolLoaded
  <2>2. CASE \E t : /\ constantPool' = Append(constantPool, Len(stringPool))
                    /\ stringPool' = Append(stringPool, t)
    <3>1. PICK t : /\ constantPool' = Append(constantPool, Len(stringPool))
                   /\ stringPool' = Append(stringPool, t)
      BY <2>2
    <3>2. /\ constantPool \in Seq(Nat) /\ IsSequence(stringPool)
          /\ Len(pool) \in Nat
      BY <1>1, PoolPart DEF LoadTypeOK
    <3>3. /\ Len(stringPool) \in Nat /\ IsSequence(stringPool')
          /\ constantPool' \in Seq(Nat)
      BY <3>1, <3>2, LongerSequence, AppendProperties
    <3>4. IsSequence(stringPool)'
      BY <3>3 DEF IsSequence
    <3>5. LoadTypeOK'
      BY <1>1, <3>3, <3>4, FileStays DEF LoadTypeOK, Stage
    <3>6. ASSUME PoolLoaded(Len(pool)) PROVE PoolLoaded(Len(pool))'
      <4>1. Pooled(constantPool', stringPool', pool, Len(pool))
        BY <3>1, <3>2, <3>3, <3>6, PooledStill DEF PoolLoaded
      <4> QED BY <1>2, <4>1 DEF PoolLoaded
    <3> QED BY <3>5, <3>6
  <2> QED BY <2>1, <2>2
<1>4. ASSUME WithinLimits' PROVE \E o : Layout(o)' /\ InPlace(o)'
  <2>1. PICK o : Layout(o) /\ InPlace(o)
    BY <1>2, <1>4 DEF LoaderInv, LoadedSoFar
  <2>2. AllLoaded
    BY <2>1 DEF InPlace
  <2>3. KlassesLoaded(Len(klasses))' /\ FunctionsLoaded(Len(functions) + 1)'
    BY <1>2, <2>2 DEF AllLoaded, KlassesLoaded, FunctionsLoaded
  <2>4. AllLoaded'
    BY <1>3, <2>2, <2>3 DEF AllLoaded
  <2>5. InPlace(o)'
    BY <2>4 DEF InPlace
  <2> QED BY <2>1, <2>5, FileStays
<1>5. LoadedSoFar'
  BY <1>4 DEF LoadedSoFar
<1> QED
  BY <1>1, <1>3, <1>5 DEF LoaderInv

LEMMA ExecuteKeeps ==
    ASSUME LoaderInv, Execute
    PROVE  LoaderInv'
<1>1. /\ stage = "running" /\ UNCHANGED builder /\ UNCHANGED <<istream, left>>
  BY DEF Execute, Running
<1>2. ASSUME NEW t, MakeString(t), UNCHANGED stage PROVE LoaderInv'
  BY <1>1, <1>2, StillLoaded DEF MakeString
<1>3. ASSUME NEW s \in {"aborted", "threw", "undefined"}, Ends(s) PROVE LoaderInv'
  BY <1>1, <1>3, StillLoaded DEF Ends, loaded
<1>4. ASSUME UNCHANGED stage, UNCHANGED loaded PROVE LoaderInv'
  BY <1>1, <1>4, StillLoaded DEF loaded
<1>5. CASE \E id \in Imm : ExecLdia(id)
  BY <1>3, <1>4, <1>5 DEF ExecLdia, Continue
<1>6. CASE StringLen
  BY <1>3, <1>4, <1>6 DEF StringLen, Continue
<1>7. CASE StringConcat
  BY <1>2, <1>3, <1>7 DEF StringConcat, Continue
<1>8. CASE \E from, to \in 0 .. MaxText + 1 : StringSlice(from, to)
  BY <1>2, <1>3, <1>8 DEF StringSlice, Continue
<1>9. CASE Continue /\ UNCHANGED <<acc, loaded>>
  BY <1>4, <1>9 DEF Continue
<1> QED
  BY <1>5, <1>6, <1>7, <1>8, <1>9 DEF Execute


-----------------------------------------------------------------------------
(* The whole life of a file.                                               *)

CodeInv == LoaderInv /\ ToldRight

LEMMA InvInitially ==
    ASSUME LoaderInit
    PROVE  CodeInv
<1>1. WellBuilt /\ ToldRight
  BY InitBuilds DEF LoaderInit, BuildInv
<1>2. NothingLoaded /\ stage = "building"
  BY DEF LoaderInit, NothingLoaded
<1>3. IsSequence(<<>>)
  BY EmptySeq DEF IsSequence
<1>4. LoadTypeOK
  BY <1>3, EmptySeq, Sizes DEF LoaderInit, LoadTypeOK, Stage
<1> QED
  BY <1>1, <1>2, <1>4 DEF CodeInv, LoaderInv, LoadedSoFar

(* What clients were told is about the file only.                          *)
LEMMA ToldStays ==
    ASSUME ToldRight, UNCHANGED <<builder, told>>
    PROVE  ToldRight'
<1>1. /\ UNCHANGED <<pool, klasses, functions, instrs>>
      /\ UNCHANGED <<constantOf, bodyOf, fieldAt>>
  BY DEF builder, told
<1>2. \A p \in constantOf' : ConstantIsThere(p)'
  BY <1>1 DEF ToldRight, ConstantIsThere
<1>3. \A p \in bodyOf' : BodyIsThere(p)'
  BY <1>1 DEF ToldRight, BodyIsThere, CallsItself
<1>4. \A p \in fieldAt' : FieldIsThere(p)'
  BY <1>1 DEF ToldRight, FieldIsThere
<1> QED
  BY <1>1, <1>2, <1>3, <1>4 DEF ToldRight

(* Nothing is loaded while a file is built, whatever is built.             *)
LEMMA BuilderKeeps ==
    ASSUME LoaderInv, stage = "building", WellBuilt',
           UNCHANGED <<istream, left, stage, loaded>>
    PROVE  LoaderInv'
<1>1. NothingLoaded /\ LoadTypeOK
  BY DEF LoaderInv, LoadedSoFar
<1>2. LoadTypeOK'
  BY <1>1, EmptySeq DEF LoadTypeOK, NothingLoaded, loaded, IsSequence
<1>3. LoadedSoFar'
  BY <1>1 DEF LoadedSoFar, NothingLoaded, loaded
<1> QED
  BY <1>2, <1>3 DEF LoaderInv

LEMMA LoadingTellsNothing ==
    ASSUME Load \/ WriteAndOpen \/ Execute
    PROVE  UNCHANGED <<builder, told>>
BY DEF Load, LoadConstant, EndPool, LoadKlass, EndKlasses, LoadFunction, EndFunctions,
       WriteAndOpen, Execute, ReadCount, Read, Misread

LEMMA LoaderStutters ==
    ASSUME LoaderInv, UNCHANGED builder, UNCHANGED <<istream, left, stage, loaded>>
    PROVE  LoaderInv'
<1>1. WellBuilt'
  BY FileStays DEF LoaderInv
<1>2. LoadTypeOK'
  BY FileStays DEF LoaderInv, LoadTypeOK, loaded
<1>3. LoadedSoFar'
  <2>1. CASE stage = "building"
    BY <2>1 DEF LoaderInv, LoadedSoFar, NothingLoaded, loaded
  <2>2. CASE stage # "building" /\ WithinLimits
    <3>1. PICK o : Layout(o) /\ InPlace(o)
      BY <2>2 DEF LoaderInv, LoadedSoFar
    <3>2. /\ UNCHANGED <<pool, klasses, stage, istream, left>>
          /\ UNCHANGED <<constantPool, stringPool, loadedKlasses, funcs>>
          /\ Len(functions') = Len(functions)
      BY LimitsStay DEF loaded
    <3>3. /\ \A n : PoolLoaded(n)' <=> PoolLoaded(n)
          /\ \A n : KlassesLoaded(n)' <=> KlassesLoaded(n)
          /\ \A n : FunctionsLoaded(n)' <=> FunctionsLoaded(n)
          /\ \A s, p : After(s, p)' <=> After(s, p)
      BY <3>2, LimitsStay DEF PoolLoaded, KlassesLoaded, FunctionsLoaded
    <3>4. InPool => InPool'
      BY <3>2, <3>3 DEF InPool
    <3>5. InKlasses(o) => InKlasses(o)'
      BY <3>2, <3>3 DEF InKlasses
    <3>6. InFunctions(o) => InFunctions(o)'
      BY <3>2, <3>3 DEF InFunctions
    <3>7. AllLoaded => AllLoaded'
      BY <3>2, <3>3 DEF AllLoaded
    <3>8. InPlace(o)'
      BY <3>1, <3>2, <3>4, <3>5, <3>6, <3>7 DEF InPlace
    <3>9. Layout(o)'
      BY <3>1, FileStays
    <3> QED BY <2>2, <3>8, <3>9 DEF LoadedSoFar
  <2>3. CASE stage # "building" /\ ~WithinLimits
    BY <2>3, LimitsStay DEF LoadedSoFar
  <2> QED BY <2>1, <2>2, <2>3
<1> QED
  BY <1>1, <1>2, <1>3 DEF LoaderInv

LEMMA InvStep ==
    ASSUME CodeInv, [Next]_vars
    PROVE  CodeInv'
<1>1. CASE stage = "building" /\ Build /\ UNCHANGED <<istream, left, stage, loaded, acc, reg>>
  <2>1. BuildInv'
    BY <1>1, BuildKeeps DEF CodeInv, LoaderInv, BuildInv
  <2> QED BY <1>1, <2>1, BuilderKeeps DEF CodeInv, BuildInv
<1>2. CASE Load \/ WriteAndOpen \/ Execute
  <2>1. LoaderInv'
    BY <1>2, LoadKeeps, Opens, ExecuteKeeps DEF CodeInv
  <2>2. ToldRight'
    BY <1>2, LoadingTellsNothing, ToldStays DEF CodeInv
  <2> QED BY <2>1, <2>2 DEF CodeInv
<1>3. CASE UNCHANGED vars
  <2>1. UNCHANGED <<builder, told>> /\ UNCHANGED builder
        /\ UNCHANGED <<istream, left, stage, loaded>>
    BY <1>3 DEF vars
  <2>2. LoaderInv' /\ ToldRight'
    BY <2>1, LoaderStutters, ToldStays DEF CodeInv
  <2> QED BY <2>2 DEF CodeInv
<1> QED
  BY <1>1, <1>2, <1>3 DEF Next, BuildAndLoad


THEOREM InvAlways ==
    Spec => []CodeInv
<1>1. LoaderInit => CodeInv
  BY InvInitially
<1>2. CodeInv /\ [Next]_vars => CodeInv'
  BY InvStep
<1> QED
  BY <1>1, <1>2, PTL DEF Spec

LEMMA RunsLoaded ==
    ASSUME CodeInv, Running, WithinLimits
    PROVE  AllLoaded
BY DEF CodeInv, LoaderInv, LoadedSoFar, Running, InPlace

(* Within the limits of the format the loader never loses its place in a   *)
(* file the builder wrote (chai-file.cpp:105-154, code-manager.cpp:11-28): *)
(* whatever the constants, klasses, fields and functions, each count it    *)
(* reads is a count, each item the item due.                               *)
THEOREM LoaderKeepsItsPlace ==
    Spec => []ReadsWhatIsWritten
<1>1. CodeInv => ReadsWhatIsWritten
  BY DEF CodeInv, LoaderInv, LoadedSoFar, InPlace, ReadsWhatIsWritten
<1> QED
  BY <1>1, InvAlways, PTL

LEMMA FunctionsAreAsTold ==
    CodeInv => FunctionsAsTold
<1> SUFFICES ASSUME CodeInv, Running, WithinLimits
             PROVE  /\ funcs[1].code = rawInstrs
                    /\ \A p \in bodyOf :
                          /\ p[1] + 1 \in DOMAIN funcs /\ funcs[p[1] + 1] = p[2]
                          /\ \A i \in 1 .. Len(p[2].code) :
                                LET ins == Parse(p[2].code[i])
                                IN  ins.operation = Call => ins.immidiate = p[1]
  BY DEF FunctionsAsTold
<1>1. WellBuilt /\ LoadTypeOK /\ ToldRight
  BY DEF CodeInv, LoaderInv
<1>2. /\ Len(funcs) = Len(functions) + 1
      /\ \A f \in 1 .. Len(functions) + 1 : funcs[f] = FunctionAt(f)
  BY RunsLoaded DEF AllLoaded, FunctionsLoaded
<1>3. Len(functions) \in Nat /\ Len(functions) + 1 < ImmSize
  BY <1>1, LimitsAre
<1>4. DOMAIN funcs = 1 .. Len(functions) + 1
  BY <1>1, <1>2, LenProperties DEF LoadTypeOK
<1>5. funcs[1].code = rawInstrs
  <2>1. 1 \in 1 .. Len(functions) + 1
    BY <1>3
  <2>2. funcs[1] = MainFunc
    BY <1>2, <2>1 DEF FunctionAt
  <2> QED BY <2>2 DEF MainFunc
<1>6. ASSUME NEW p \in bodyOf
      PROVE  /\ p[1] + 1 \in DOMAIN funcs /\ funcs[p[1] + 1] = p[2]
             /\ CallsItself(p[2].code, p[1])
  <2>1. /\ p[1] \in 1 .. Len(functions) /\ functions[p[1]] = p[2]
        /\ CallsItself(p[2].code, p[1])
    BY <1>1, <1>3 DEF ToldRight, BodyIsThere
  <2>2. /\ p[1] + 1 \in 1 .. Len(functions) + 1
        /\ p[1] + 1 # 1 /\ (p[1] + 1) - 1 = p[1]
    BY <1>3, <2>1
  <2>3. funcs[p[1] + 1] = functions[p[1]]
    BY <1>2, <2>2 DEF FunctionAt
  <2> QED BY <1>4, <2>1, <2>2, <2>3
<1> QED
  BY <1>5, <1>6 DEF CallsItself

(* The id nextFunc() promises and addFunction() returns calls, in every    *)
(* loaded file, the function it was given for, main is function 0, and a   *)
(* function that calls the id it was promised calls itself                 *)
(* (chai-file.cpp:60-87, code-manager.cpp:110-136).                        *)
THEOREM IdsCallTheirFunctions ==
    Spec => []FunctionsAsTold
BY FunctionsAreAsTold, InvAlways, PTL

LEMMA FieldsAreAsTold ==
    CodeInv => FieldsAsTold
<1> SUFFICES ASSUME CodeInv, Running, WithinLimits, NEW p \in fieldAt
             PROVE  /\ p[1] \in DOMAIN loadedKlasses
                    /\ p[2] + 1 \in DOMAIN loadedKlasses[p[1]]
                    /\ loadedKlasses[p[1]][p[2] + 1] = p[3]
  BY DEF FieldsAsTold
<1>1. WellBuilt /\ LoadTypeOK /\ ToldRight
  BY DEF CodeInv, LoaderInv
<1>2. /\ Len(loadedKlasses) = Len(klasses)
      /\ \A k \in 1 .. Len(klasses) : loadedKlasses[k] = klasses[k].fields
  BY RunsLoaded DEF AllLoaded, KlassesLoaded
<1>3. p[1] \in 1 .. Len(klasses) /\ Len(klasses[p[1]].fields) < ByteSize
  BY <1>1 DEF ToldRight, FieldIsThere, WithinLimits
<1>4. /\ p[2] + 1 \in 1 .. Len(klasses[p[1]].fields)
      /\ klasses[p[1]].fields[p[2] + 1] = p[3]
  BY <1>1, <1>3 DEF ToldRight, FieldIsThere
<1>5. DOMAIN loadedKlasses = 1 .. Len(klasses)
  BY <1>1, <1>2, LenProperties DEF LoadTypeOK
<1>6. DOMAIN loadedKlasses[p[1]] = 1 .. Len(klasses[p[1]].fields)
  BY <1>1, <1>2, <1>3, LimitsAre, LenProperties
<1> QED
  BY <1>2, <1>3, <1>4, <1>5, <1>6

(* The offset addField() returns is the place of that field, with its      *)
(* kind, in the loaded klass (klass-info.cpp:5-9, code-manager.cpp:76-100),*)
(* for as many fields as a byte can count.                                 *)
THEOREM OffsetsFindTheirFields ==
    Spec => []FieldsAsTold
BY FieldsAreAsTold, InvAlways, PTL

LEMMA ConstantsAreAsTold ==
    CodeInv => ConstantsAsTold
<1> SUFFICES ASSUME CodeInv, Running, WithinLimits, NEW p \in constantOf
             PROVE  /\ HasCnst(Parse(p[1]).immidiate)
                    /\ Represents(GetCnst(Parse(p[1]).immidiate), p[2])
  BY DEF ConstantsAsTold
<1>1. WellBuilt /\ LoadTypeOK /\ ToldRight
  BY DEF CodeInv, LoaderInv
<1>2. Len(pool) \in Nat /\ Len(pool) < ImmSize /\ Len(constantPool) \in Nat
  BY <1>1, LimitsAre, LenProperties DEF LoadTypeOK
<1>3. /\ Len(pool) <= Len(constantPool)
      /\ \A i \in 1 .. Len(pool) : Means(stringPool, constantPool[i], pool[i])
  BY RunsLoaded DEF AllLoaded, PoolLoaded, Pooled
<1>4. p[2] \in Constant
  BY <1>1 DEF ToldRight, ConstantIsThere
<1>5. PICK i \in 1 .. Len(pool) : p[1] = RawI(Ldia, i - 1) /\ pool[i] = p[2]
  BY <1>1, <1>2 DEF ToldRight, ConstantIsThere
<1>6. Parse(p[1]).immidiate = i - 1
  <2>1. i - 1 \in Imm
    BY <1>2, Sizes DEF Imm
  <2>2. Ldia \in Byte /\ 0 \in Byte
    BY ChaiFileAssumption, Sizes
  <2> QED BY <1>5, <2>1, <2>2, ParseUndoesRaw
<1>7. i - 1 < Len(constantPool) /\ (i - 1) + 1 = i
  BY <1>2, <1>3
<1>8. p[2].tag # CNST_FUNC_NAME_AND_TYPE
  BY <1>4 DEF Constant, ConstNumber, ConstRawStr, CNST_I64, CNST_F64,
              CNST_FUNC_NAME_AND_TYPE, CNST_RAW_STR
<1>9. Means(stringPool, constantPool[i], p[2])
  BY <1>3, <1>5
<1>10. Represents(constantPool[i], p[2])
  BY <1>8, <1>9 DEF Means, Represents, IsString, String
<1> QED
  BY <1>6, <1>7, <1>10 DEF HasCnst, GetCnst

(* An instruction that was built with a constant loads that constant       *)
(* (chai-file.cpp:32-58, executor.cpp:85-89), whatever was added to the    *)
(* file before and after it and whatever strings the program made since.   *)
THEOREM InstructionsLoadTheirConstants ==
    Spec => []ConstantsAsTold
BY ConstantsAreAsTold, InvAlways, PTL

(* A string made by StringConcat is what the accumulator then names, and   *)
(* it took the place of no other (executor.cpp:485-494), as long as there  *)
(* is an id for it; without one, ConcatInAcc fails.                        *)
THEOREM ConcatLeavesItsResult ==
    Spec => ConcatWhileIdsLast
<1>1. CodeInv /\ [Next]_vars =>
        [Running /\ StringConcat /\ stage' = "running" /\ Len(constantPool) < ImmSize
           => ConcatMade]_vars
  <2> SUFFICES ASSUME CodeInv, Next, Running, StringConcat, stage' = "running",
                      Len(constantPool) < ImmSize
               PROVE  ConcatMade
    OBVIOUS
  <2> DEFINE t == String(acc) \o String(reg)
             n == Len(constantPool)
             m == Len(stringPool)
  <2>1. IsSequence(stringPool) /\ constantPool \in Seq(Nat) /\ n \in Nat
    BY LenProperties DEF CodeInv, LoaderInv, LoadTypeOK
  <2>2. MakeString(t)
    BY DEF StringConcat, Ends
  <2>3. /\ m \in Nat /\ stringPool' = Append(stringPool, t)
        /\ stringPool'[m + 1] = t
    BY <2>1, <2>2, LongerSequence DEF MakeString
  <2>4. /\ constantPool' = Append(constantPool, m)
        /\ Len(constantPool') = n + 1 /\ constantPool'[n + 1] = m
    BY <2>1, <2>2, <2>3, AppendProperties DEF MakeString
  <2>5. ToImm(Len(constantPool') - 1) = n
    BY <2>1, <2>4, Sizes
  <2>6. acc' = m
    BY <2>2, <2>4, <2>5 DEF MakeString
  <2>7. m \notin 0 .. m - 1
    <3> HIDE DEF m
    <3> QED BY <2>3
  <2> QED BY <2>3, <2>6, <2>7 DEF ConcatMade
<1> QED
  BY <1>1, InvAlways, PTL DEF Spec, ConcatWhileIdsLast
=============================================================================
