-------------------------- MODULE FrameStackProofs --------------------------
(***************************************************************************)
(* For every buffer size, every size of a Frame and every set of           *)
(* functions: frames never overlap, runs do not leak, returns undo calls,  *)
(* and the blocks of the buffer are given back last in, first out.         *)
(***************************************************************************)
EXTENDS FrameStack, SequenceTheorems, TLAPS

(* The blocks of a frame, and the one of its registers in list L.          *)
Blocks(f) == IF numRegs[f.func] > 0 THEN 2 ELSE 1

EndIn(L, f) == L[f.block].base + FrameWords + numRegs[f.func]

HasRegs(L, f) ==
    numRegs[f.func] > 0 =>
        /\ f.block + 1 <= Len(L)
        /\ L[f.block + 1].base = L[f.block].base + FrameWords
        /\ L[f.block + 1].size = numRegs[f.func]

(* The frames F have their blocks in L one after another, from place s.    *)
InPlace(L, F, s) ==
    \A k \in 1 .. Len(F) :
        /\ F[k].block <= Len(L)
        /\ L[F[k].block].size = FrameWords
        /\ k = 1 => L[F[k].block].base = s
        /\ k # 1 => /\ L[F[k].block].base = EndIn(L, F[k - 1])
                    /\ F[k].block = F[k - 1].block + Blocks(F[k - 1])
        /\ \A j \in 1 .. k - 1 :
              F[j].block + Blocks(F[j]) <= F[k].block /\ HasRegs(L, F[j])

(* The last block and the mark m are those of the current frame.           *)
Topped(n, m) ==
    /\ frames # <<>>
    /\ HasRegs(live, Current)
    /\ n = Current.block + Blocks(Current) - 1
    /\ m = FrameEnd(Current)

(* Between the two allocations the last block is a Frame without registers,*)
(* where the next frame begins; in a retry of a main that does not fit, it *)
(* lies beyond that place.                                                 *)
EnteringInv ==
    LET b == live[Len(live)] IN
    /\ live # <<>> /\ b.size = FrameWords /\ offset = b.base + FrameWords
    /\ frames = <<>> =>
          /\ callee = Main
          /\ b.base >= start
          /\ b.base = start \/ FrameWords + numRegs[Main] > Size - b.base
    /\ frames # <<>> => Topped(Len(live) - 1, b.base)

LeavingInv ==
    /\ frames # <<>>
    /\ Len(live) = Current.block
    /\ offset = FrameBase(Current) + FrameWords

(* The invariant that is inductive: NoLeak and LeakIsOneFrame speak of     *)
(* words, and follow from where each frame's blocks stand in live.         *)
FrameInv ==
    /\ StackTypeOK
    /\ offset <= Size
    /\ InPlace(live, frames, start)
    /\ mode = "running" => Topped(Len(live), offset)
    /\ mode = "entering" => EnteringInv
    /\ mode = "leaving" => LeavingInv
    /\ mode = "idle" => frames = <<>> /\ offset = start
    /\ LeakIsOneFrame

-----------------------------------------------------------------------------
LEMMA FrameFacts ==
    ASSUME NEW L \in Seq(Block), NEW f \in Frame, f.block <= Len(L)
    PROVE  /\ f.block \in 1 .. Len(L)
           /\ L[f.block].base \in Nat /\ L[f.block].size \in Nat
           /\ numRegs[f.func] \in Nat
           /\ Blocks(f) \in {1, 2}
           /\ EndIn(L, f) \in Nat
<1>1. f.block \in Nat /\ f.block # 0 /\ f.func \in Func
  BY DEF Frame
<1>2. f.block \in 1 .. Len(L)
  BY <1>1
<1>3. L[f.block] \in Block
  BY <1>2
<1>4. numRegs[f.func] \in Nat
  BY <1>1, FrameStackAssumption
<1>5. FrameWords \in Nat /\ L[f.block].base \in Nat /\ L[f.block].size \in Nat
  BY <1>3, FrameStackAssumption DEF Block
<1>6. EndIn(L, f) \in Nat
  BY <1>4, <1>5 DEF EndIn
<1> QED BY <1>2, <1>4, <1>5, <1>6 DEF Blocks

(* Frames stay in place when the list of blocks keeps those they have.     *)
LEMMA SameInPlace ==
    ASSUME NEW L \in Seq(Block), NEW M \in Seq(Block), NEW F \in Seq(Frame),
           NEW s, InPlace(L, F, s),
           \A j \in 1 .. Len(L) :
              (Len(F) > 0 => j <= F[Len(F)].block) => j <= Len(M) /\ M[j] = L[j]
    PROVE  InPlace(M, F, s)
<1> SUFFICES ASSUME NEW k \in 1 .. Len(F)
             PROVE  /\ F[k].block <= Len(M)
                    /\ M[F[k].block].size = FrameWords
                    /\ k = 1 => M[F[k].block].base = s
                    /\ k # 1 => /\ M[F[k].block].base = EndIn(M, F[k - 1])
                                /\ F[k].block = F[k - 1].block + Blocks(F[k - 1])
                    /\ \A j \in 1 .. k - 1 :
                          F[j].block + Blocks(F[j]) <= F[k].block /\ HasRegs(M, F[j])
  BY DEF InPlace
<1> DEFINE n == Len(F)
<1>1. n \in Nat /\ n > 0 /\ n \in 1 .. n /\ \A j \in 1 .. n : F[j] \in Frame
  OBVIOUS
<1>2. \A j \in 1 .. n : F[j].block <= Len(L)
  BY DEF InPlace
<1>3. \A j \in 1 .. n : /\ F[j].block \in 1 .. Len(L)
                        /\ Blocks(F[j]) \in {1, 2}
                        /\ numRegs[F[j].func] \in Nat
  BY <1>1, <1>2, FrameFacts
<1>4. \A j \in 1 .. n : j # n => F[j].block + Blocks(F[j]) <= F[n].block
  <2>1. \A j \in 1 .. n : j # n => j \in 1 .. n - 1
    BY <1>1
  <2>2. \A j \in 1 .. n - 1 : F[j].block + Blocks(F[j]) <= F[n].block
    BY <1>1 DEF InPlace
  <2> QED BY <2>1, <2>2
<1>5. \A j \in 1 .. n : F[j].block <= F[n].block
  <2> SUFFICES ASSUME NEW j \in 1 .. n PROVE F[j].block <= F[n].block
    OBVIOUS
  <2>1. F[j].block \in Nat /\ F[n].block \in Nat /\ Blocks(F[j]) \in Nat
    BY <1>1, <1>3
  <2>2. j # n => F[j].block + Blocks(F[j]) <= F[n].block
    BY <1>4
  <2> QED BY <2>1, <2>2
<1>6. \A j \in 1 .. n : F[j].block <= Len(M) /\ M[F[j].block] = L[F[j].block]
  BY <1>1, <1>3, <1>5
<1>7. \A j \in 1 .. n : j # n /\ HasRegs(L, F[j]) => HasRegs(M, F[j])
  <2> SUFFICES ASSUME NEW j \in 1 .. n, j # n, HasRegs(L, F[j]), numRegs[F[j].func] > 0
               PROVE  /\ F[j].block + 1 <= Len(M)
                      /\ M[F[j].block + 1] = L[F[j].block + 1]
    BY <1>6 DEF HasRegs
  <2>1. F[j].block + 2 <= F[n].block
    BY <1>4 DEF Blocks
  <2>2. F[j].block + 1 \in 1 .. Len(L) /\ F[j].block + 1 <= F[n].block
    <3>1. /\ F[j].block \in Nat /\ F[j].block > 0
          /\ F[n].block \in Nat /\ F[n].block <= Len(L) /\ Len(L) \in Nat
      BY <1>1, <1>3
    <3> HIDE DEF n
    <3> QED BY <2>1, <3>1
  <2> QED BY <2>2, <1>1
<1>8. k # 1 => k - 1 \in 1 .. n /\ EndIn(M, F[k - 1]) = EndIn(L, F[k - 1])
  BY <1>1, <1>6 DEF EndIn
<1>9. \A j \in 1 .. k - 1 : j \in 1 .. n /\ j # n
  BY <1>1
<1>10. /\ L[F[k].block].size = FrameWords
       /\ k = 1 => L[F[k].block].base = s
       /\ k # 1 => /\ L[F[k].block].base = EndIn(L, F[k - 1])
                   /\ F[k].block = F[k - 1].block + Blocks(F[k - 1])
       /\ \A j \in 1 .. k - 1 :
             F[j].block + Blocks(F[j]) <= F[k].block /\ HasRegs(L, F[j])
  BY DEF InPlace
<1> HIDE DEF n
<1>11. M[F[k].block] = L[F[k].block] /\ F[k].block <= Len(M)
  BY <1>6 DEF n
<1>12. \A j \in 1 .. k - 1 :
          F[j].block + Blocks(F[j]) <= F[k].block /\ HasRegs(M, F[j])
  BY <1>7, <1>9, <1>10
<1> QED BY <1>8, <1>10, <1>11, <1>12

(* A frame whose Frame is the last block, put where the last one ends.     *)
LEMMA PushInPlace ==
    ASSUME NEW L \in Seq(Block), NEW F \in Seq(Frame), NEW f \in Frame,
           NEW s, InPlace(L, F, s),
           f.block <= Len(L), L[f.block].size = FrameWords,
           Len(F) = 0 => L[f.block].base = s,
           Len(F) > 0 => /\ L[f.block].base = EndIn(L, F[Len(F)])
                         /\ f.block = F[Len(F)].block + Blocks(F[Len(F)])
                         /\ HasRegs(L, F[Len(F)])
    PROVE  InPlace(L, Append(F, f), s)
<1> DEFINE n == Len(F)
           G == Append(F, f)
<1>1. /\ n \in Nat /\ Len(G) = n + 1 /\ G[n + 1] = f
      /\ \A j \in 1 .. n : G[j] = F[j] /\ F[j] \in Frame
  OBVIOUS
<1>2. \A j \in 1 .. n : /\ F[j].block \in 1 .. Len(L)
                        /\ Blocks(F[j]) \in {1, 2}
  BY <1>1, FrameFacts DEF InPlace
<1>3. n > 0 => \A j \in 1 .. n - 1 :
         F[j].block + Blocks(F[j]) <= F[n].block /\ HasRegs(L, F[j])
  <2>1. n > 0 => n \in 1 .. Len(F)
    BY <1>1
  <2> QED BY <2>1 DEF InPlace
<1>4. \A j \in 1 .. n : F[j].block + Blocks(F[j]) <= f.block /\ HasRegs(L, F[j])
  <2> SUFFICES ASSUME NEW j \in 1 .. n
               PROVE  F[j].block + Blocks(F[j]) <= f.block /\ HasRegs(L, F[j])
    OBVIOUS
  <2>1. n > 0 /\ n \in 1 .. n
    BY <1>1
  <2>2. CASE j = n
    BY <2>1, <2>2, <1>2
  <2>3. CASE j # n
    <3>1. j \in 1 .. n - 1
      BY <2>3, <1>1
    <3>2. F[j].block + Blocks(F[j]) <= F[n].block /\ HasRegs(L, F[j])
      BY <3>1, <2>1, <1>3
    <3>3. f.block = F[n].block + Blocks(F[n])
      BY <2>1
    <3>4. F[n].block \in Nat /\ Blocks(F[n]) \in Nat /\ F[j].block \in Nat /\ Blocks(F[j]) \in Nat
      BY <2>1, <1>2
    <3> QED BY <3>2, <3>3, <3>4
  <2> QED BY <2>2, <2>3
<1> SUFFICES ASSUME NEW k \in 1 .. n + 1
             PROVE  /\ G[k].block <= Len(L)
                    /\ L[G[k].block].size = FrameWords
                    /\ k = 1 => L[G[k].block].base = s
                    /\ k # 1 => /\ L[G[k].block].base = EndIn(L, G[k - 1])
                                /\ G[k].block = G[k - 1].block + Blocks(G[k - 1])
                    /\ \A j \in 1 .. k - 1 :
                          G[j].block + Blocks(G[j]) <= G[k].block /\ HasRegs(L, G[j])
  BY <1>1 DEF InPlace
<1>5. CASE k = n + 1
  BY <1>1, <1>4, <1>5
<1>6. CASE k # n + 1
  <2>1. k \in 1 .. n /\ G[k] = F[k] /\ (k # 1 => G[k - 1] = F[k - 1])
    BY <1>1, <1>6
  <2>2. \A j \in 1 .. k - 1 : G[j] = F[j]
    BY <1>1, <2>1
  <2>3. /\ F[k].block <= Len(L)
        /\ L[F[k].block].size = FrameWords
        /\ k = 1 => L[F[k].block].base = s
        /\ k # 1 => /\ L[F[k].block].base = EndIn(L, F[k - 1])
                    /\ F[k].block = F[k - 1].block + Blocks(F[k - 1])
        /\ \A j \in 1 .. k - 1 :
              F[j].block + Blocks(F[j]) <= F[k].block /\ HasRegs(L, F[j])
    BY <2>1 DEF InPlace
  <2> HIDE DEF G, n
  <2> QED BY <2>1, <2>2, <2>3
<1> QED BY <1>5, <1>6

(* Without the last frame, and without the blocks from it on.              *)
LEMMA PopInPlace ==
    ASSUME NEW L \in Seq(Block), NEW M \in Seq(Block), NEW F \in Seq(Frame),
           NEW s, InPlace(L, F, s), Len(F) > 0,
           Len(M) = F[Len(F)].block - 1,
           \A j \in 1 .. Len(M) : M[j] = L[j]
    PROVE  LET G == SubSeq(F, 1, Len(F) - 1) IN
           /\ G \in Seq(Frame) /\ Len(G) = Len(F) - 1
           /\ \A k \in 1 .. Len(G) : G[k] = F[k]
           /\ InPlace(M, G, s)
           /\ Len(G) > 0 =>
                 /\ HasRegs(M, G[Len(G)])
                 /\ Len(M) = G[Len(G)].block + Blocks(G[Len(G)]) - 1
                 /\ L[F[Len(F)].block].base = EndIn(M, G[Len(G)])
           /\ Len(G) = 0 => L[F[Len(F)].block].base = s
<1> DEFINE n == Len(F)
           G == SubSeq(F, 1, n - 1)
           top == F[n]
<1>1. n \in Nat /\ n > 0 /\ n \in 1 .. n /\ n - 1 \in Nat /\ \A j \in 1 .. n : F[j] \in Frame
  OBVIOUS
<1>2. G \in Seq(Frame) /\ Len(G) = n - 1 /\ \A k \in 1 .. n - 1 : G[k] = F[k]
  <2> DEFINE m == n - 1
  <2>1. m \in Nat /\ \A k \in 1 .. m : F[k] \in Frame
    BY <1>1
  <2> HIDE DEF m
  <2>2. /\ SubSeq(F, 1, m) \in Seq(Frame)
        /\ Len(SubSeq(F, 1, m)) = m
        /\ \A k \in 1 .. m : SubSeq(F, 1, m)[k] = F[k]
    BY <2>1, SubSeqProperties
  <2> QED BY <2>2 DEF m
<1>3. \A j \in 1 .. n : /\ F[j].block \in 1 .. Len(L)
                        /\ Blocks(F[j]) \in {1, 2}
                        /\ numRegs[F[j].func] \in Nat
  BY <1>1, FrameFacts DEF InPlace
<1>4. \A j \in 1 .. n - 1 : F[j].block + Blocks(F[j]) <= top.block /\ HasRegs(L, F[j])
  BY <1>1 DEF InPlace
<1>5. /\ n = 1 => L[top.block].base = s
      /\ n # 1 => /\ L[top.block].base = EndIn(L, F[n - 1])
                  /\ top.block = F[n - 1].block + Blocks(F[n - 1])
  BY <1>1 DEF InPlace
<1>6. \A j \in 1 .. n - 1 : /\ j \in 1 .. n
                            /\ F[j].block \in 1 .. Len(M)
                            /\ M[F[j].block] = L[F[j].block]
  <2> SUFFICES ASSUME NEW j \in 1 .. n - 1
               PROVE  /\ j \in 1 .. n
                      /\ F[j].block \in 1 .. Len(M)
                      /\ M[F[j].block] = L[F[j].block]
    OBVIOUS
  <2>1. j \in 1 .. n
    BY <1>1
  <2>2. F[j].block <= top.block - 1
    <3>1. F[j].block \in Nat /\ top.block \in Nat /\ Blocks(F[j]) \in {1, 2}
      BY <2>1, <1>1, <1>3
    <3>2. F[j].block + Blocks(F[j]) <= top.block
      BY <1>4
    <3> QED BY <3>1, <3>2
  <2> QED BY <2>1, <2>2, <1>3
<1>7. \A j \in 1 .. n - 1 : HasRegs(M, F[j])
  <2> SUFFICES ASSUME NEW j \in 1 .. n - 1, numRegs[F[j].func] > 0
               PROVE  /\ F[j].block + 1 <= Len(M)
                      /\ M[F[j].block + 1] = L[F[j].block + 1]
                      /\ HasRegs(L, F[j])
    BY <1>6 DEF HasRegs
  <2>1. F[j].block + 2 <= top.block
    BY <1>4 DEF Blocks
  <2>2. F[j].block + 1 \in 1 .. Len(M)
    <3>1. /\ F[j].block \in Nat /\ F[j].block > 0
          /\ Len(M) \in Nat /\ top.block \in Nat /\ Len(M) = top.block - 1
      BY <1>1, <1>3, <1>6
    <3>2. \A x, y, m \in Nat : x > 0 /\ x + 2 <= y /\ m = y - 1 => x + 1 \in 1 .. m
      OBVIOUS
    <3> HIDE DEF top, n, G
    <3> QED BY <2>1, <3>1, <3>2
  <2> QED BY <2>2, <1>4
<1>8. InPlace(M, G, s)
  <2> SUFFICES ASSUME NEW k \in 1 .. n - 1
               PROVE  /\ G[k].block <= Len(M)
                      /\ M[G[k].block].size = FrameWords
                      /\ k = 1 => M[G[k].block].base = s
                      /\ k # 1 => /\ M[G[k].block].base = EndIn(M, G[k - 1])
                                  /\ G[k].block = G[k - 1].block + Blocks(G[k - 1])
                      /\ \A j \in 1 .. k - 1 :
                            G[j].block + Blocks(G[j]) <= G[k].block /\ HasRegs(M, G[j])
    BY <1>2 DEF InPlace
  <2>1. k \in 1 .. n /\ G[k] = F[k]
    BY <1>1, <1>2
  <2>2. k # 1 => k - 1 \in 1 .. n - 1 /\ G[k - 1] = F[k - 1]
    BY <1>1, <1>2
  <2>3. \A j \in 1 .. k - 1 : j \in 1 .. n - 1 /\ G[j] = F[j]
    BY <1>1, <1>2
  <2>4. /\ L[F[k].block].size = FrameWords
        /\ k = 1 => L[F[k].block].base = s
        /\ k # 1 => /\ L[F[k].block].base = EndIn(L, F[k - 1])
                    /\ F[k].block = F[k - 1].block + Blocks(F[k - 1])
        /\ \A j \in 1 .. k - 1 :
              F[j].block + Blocks(F[j]) <= F[k].block /\ HasRegs(L, F[j])
    BY <2>1 DEF InPlace
  <2>5. F[k].block <= Len(M) /\ M[F[k].block] = L[F[k].block]
    BY <1>6
  <2>6. k # 1 => EndIn(M, F[k - 1]) = EndIn(L, F[k - 1])
    BY <2>2, <1>6 DEF EndIn
  <2>7. \A j \in 1 .. k - 1 :
           G[j].block + Blocks(G[j]) <= G[k].block /\ HasRegs(M, G[j])
    BY <2>1, <2>3, <2>4, <1>7
  <2> HIDE DEF G, n
  <2> QED BY <2>1, <2>2, <2>4, <2>5, <2>6, <2>7
<1>9. ASSUME n # 1
      PROVE  /\ G[Len(G)] = F[n - 1]
             /\ HasRegs(M, F[n - 1])
             /\ Len(M) = F[n - 1].block + Blocks(F[n - 1]) - 1
             /\ L[top.block].base = EndIn(M, F[n - 1])
  <2>1. n - 1 \in 1 .. n - 1
    <3> HIDE DEF n
    <3> QED BY <1>1, <1>9
  <2>2. EndIn(M, F[n - 1]) = EndIn(L, F[n - 1])
    BY <2>1, <1>6 DEF EndIn
  <2>3. /\ L[top.block].base = EndIn(L, F[n - 1])
        /\ top.block = F[n - 1].block + Blocks(F[n - 1])
    BY <1>5, <1>9
  <2>4. G[Len(G)] = F[n - 1] /\ HasRegs(M, F[n - 1])
    BY <2>1, <1>2, <1>7
  <2>5. top.block \in Nat /\ F[n - 1].block \in Nat /\ Blocks(F[n - 1]) \in {1, 2}
    <3>1. n - 1 \in 1 .. n
      BY <2>1, <1>6
    <3> QED BY <3>1, <1>1, <1>3
  <2>6. Len(M) = F[n - 1].block + Blocks(F[n - 1]) - 1
    BY <2>3, <2>5
  <2> QED BY <2>2, <2>3, <2>4, <2>6
<1>10. Len(G) > 0 => n # 1
  BY <1>1, <1>2
<1>11. Len(G) = 0 => n = 1
  BY <1>1, <1>2
<1> QED BY <1>2, <1>5, <1>8, <1>9, <1>10, <1>11

LEMMA SizeFacts ==
    /\ Size \in Nat /\ FrameWords \in Nat /\ FrameWords > 0
    /\ \A f \in Func : numRegs[f] \in Nat
    /\ Main \in Func
BY FrameStackAssumption, LinearBufferAssumption

LEMMA CurrentFacts ==
    ASSUME FrameInv, frames # <<>>
    PROVE  /\ Len(frames) \in Nat /\ Len(frames) > 0
           /\ Current \in Frame
           /\ Current.block \in 1 .. Len(live)
           /\ live[Current.block].size = FrameWords
           /\ FrameBase(Current) \in Nat
           /\ numRegs[Current.func] \in Nat
           /\ Blocks(Current) \in {1, 2}
           /\ FrameEnd(Current) = EndIn(live, Current)
           /\ FrameEnd(Current) = FrameBase(Current) + FrameWords + numRegs[Current.func]
<1>1. Len(frames) \in Nat /\ Len(frames) > 0 /\ Len(frames) \in 1 .. Len(frames)
  BY DEF FrameInv, StackTypeOK
<1>2. Current \in Frame
  BY <1>1 DEF FrameInv, StackTypeOK, Current
<1>3. Current.block <= Len(live) /\ live[Current.block].size = FrameWords
  BY <1>1 DEF FrameInv, InPlace, Current
<1>4. live \in Seq(Block)
  BY DEF FrameInv, StackTypeOK, TypeOK
<1> HIDE DEF FrameInv
<1> QED BY <1>1, <1>2, <1>3, <1>4, FrameFacts DEF FrameBase, FrameEnd, EndIn

LEMMA InitFrames == StackInit => FrameInv
<1> SUFFICES ASSUME StackInit PROVE FrameInv
  OBVIOUS
<1> USE SizeFacts DEF StackInit, Init
<1>1. StackTypeOK
  BY DEF StackTypeOK, TypeOK
<1>2. InPlace(live, frames, start)
  BY DEF InPlace
<1> QED BY <1>1, <1>2 DEF FrameInv, LeakIsOneFrame

(* A step that leaves blocks and frames alone, in mode m.                  *)
LEMMA SamePlaces ==
    ASSUME FrameInv, UNCHANGED <<vars, frames, start>>, callee' \in Func,
           mode' \in {"threw", "aborted"},
           mode' = "threw" => LeakIsOneFrame'
    PROVE  FrameInv'
<1>1. StackTypeOK' /\ offset' <= Size /\ InPlace(live, frames, start)'
  BY DEF FrameInv, StackTypeOK, TypeOK, vars, InPlace, HasRegs, EndIn
<1>2. LeakIsOneFrame'
  BY DEF LeakIsOneFrame
<1> QED BY <1>1, <1>2 DEF FrameInv

(* Entering a function.                                                    *)
LEMMA TakeFrames ==
    ASSUME FrameInv, NEW f \in Func, TakeFrame(f),
           \/ mode = "running"
           \/ frames = <<>> /\ f = Main /\ mode \in {"idle", "threw"}
    PROVE  FrameInv'
<1> USE SizeFacts
<1>1. /\ live \in Seq(Block) /\ frames \in Seq(Frame)
      /\ offset \in Nat /\ start \in Nat /\ offset <= Size
      /\ InPlace(live, frames, start)
  BY DEF FrameInv, StackTypeOK, TypeOK
<1>2. CASE 1 > Room \div FrameWords /\ mode' = "threw" /\ UNCHANGED <<vars, callee>>
  <2>1. Room \in Nat /\ FrameWords > Room
    BY <1>1, <1>2 DEF Room
  <2>2. LeakIsOneFrame'
    <3>1. CASE frames = <<>>
      <4>1. offset >= start
        BY <1>1, <3>1 DEF FrameInv, LeakIsOneFrame, Topped
      <4> QED BY <1>1, <1>2, <2>1, <3>1, <4>1
              DEF TakeFrame, LeakIsOneFrame, vars, Room
    <3>2. CASE frames # <<>>
      <4>1. offset = FrameEnd(Current)
        BY <3>2 DEF FrameInv, Topped
      <4>2. (offset - FrameEnd(Current))' = offset - FrameEnd(Current)
        BY <1>2 DEF TakeFrame, FrameEnd, FrameBase, Current, vars
      <4>3. (offset - FrameEnd(Current))' = 0
        BY <1>1, <4>1, <4>2
      <4>4. frames' # <<>>
        BY <3>2 DEF TakeFrame
      <4> QED BY <4>3, <4>4 DEF LeakIsOneFrame
    <3> QED BY <3>1, <3>2
  <2>3. callee' \in Func
    BY <1>2 DEF FrameInv, StackTypeOK
  <2> QED BY <1>2, <2>2, <2>3, SamePlaces DEF TakeFrame, vars
<1>3. CASE Allocate(FrameWords, 1) /\ mode' = "entering" /\ callee' = f
  <2> DEFINE b == [base |-> offset, size |-> FrameWords]
  <2>1. live' = Append(live, b) /\ offset' = offset + FrameWords
    BY <1>3 DEF Allocate
  <2>2. FrameWords <= Size - offset
    <3>1. 1 <= (Size - offset) \div FrameWords
      BY <1>3 DEF Allocate
    <3> QED BY <3>1, <1>1
  <2>3. UNCHANGED <<frames, start>>
    BY DEF TakeFrame
  <2>4. b \in Block
    BY <1>1 DEF Block
  <2>5. /\ live' \in Seq(Block) /\ Len(live') = Len(live) + 1
        /\ live'[Len(live')] = b
        /\ \A j \in 1 .. Len(live) : j <= Len(live') /\ live'[j] = live[j]
    BY <1>1, <2>1, <2>4
  <2>6. StackTypeOK' /\ offset' <= Size
    BY <1>1, <1>3, <2>1, <2>2, <2>3, <2>5 DEF StackTypeOK, TypeOK
  <2>7. InPlace(live', frames', start')
    BY <1>1, <2>3, <2>5, SameInPlace
  <2>8. ASSUME frames # <<>>
        PROVE  Topped(Len(live) - 1, live[Len(live)].base)'
    <3>1. mode = "running"
      BY <2>8
    <3>2. Topped(Len(live), offset)
      BY <3>1 DEF FrameInv
    <3>3. Current' = Current
      BY <2>3 DEF Current
    <3>4. Current.block \in 1 .. Len(live) /\ Current.block \in Nat
      BY <2>8, CurrentFacts
    <3>5. live'[Current.block] = live[Current.block]
      BY <3>4, <2>5
    <3>6. HasRegs(live', Current)
      <4> SUFFICES ASSUME numRegs[Current.func] > 0
                   PROVE  /\ Current.block + 1 <= Len(live')
                          /\ live'[Current.block + 1] = live[Current.block + 1]
                          /\ HasRegs(live, Current)
        BY <3>5 DEF HasRegs
      <4>1. HasRegs(live, Current)
        BY <3>2 DEF Topped
      <4>2. Current.block + 1 \in 1 .. Len(live)
        BY <4>1, <3>4 DEF HasRegs
      <4> QED BY <4>1, <4>2, <2>5
    <3>7. FrameEnd(Current)' = FrameEnd(Current)
      BY <3>3, <3>5 DEF FrameEnd, FrameBase
    <3>8. /\ Len(live) = Current.block + Blocks(Current) - 1
          /\ offset = FrameEnd(Current)
      BY <3>2 DEF Topped
    <3>9. Len(live') - 1 = Len(live) /\ live'[Len(live')].base = offset
      BY <2>5, <1>1
    <3> QED BY <2>3, <2>8, <3>3, <3>6, <3>7, <3>8, <3>9 DEF Topped, Blocks
  <2>9. ASSUME frames = <<>>
        PROVE  /\ f = Main /\ offset >= start
               /\ offset = start \/ FrameWords + numRegs[Main] > Size - offset
    <3>1. mode # "running"
      BY <2>9 DEF FrameInv, Topped
    <3> QED BY <1>1, <2>9, <3>1 DEF FrameInv, LeakIsOneFrame, Room
  <2>10. EnteringInv'
    <3>1. live' # <<>>
      BY <2>5, <1>1
    <3> QED BY <1>3, <2>1, <2>3, <2>5, <2>8, <2>9, <3>1 DEF EnteringInv
  <2> QED BY <1>3, <2>6, <2>7, <2>10 DEF FrameInv, LeakIsOneFrame
<1> QED BY <1>2, <1>3 DEF TakeFrame

(* Building the Frame that was taken.                                      *)
LEMMA ConstructFrames ==
    ASSUME FrameInv, Construct
    PROVE  FrameInv'
<1> USE SizeFacts
<1> DEFINE n == numRegs[callee]
           b == live[Len(live)]
           f == [block |-> Len(live), func |-> callee]
<1>1. /\ live \in Seq(Block) /\ frames \in Seq(Frame)
      /\ offset \in Nat /\ start \in Nat /\ offset <= Size
      /\ InPlace(live, frames, start)
      /\ callee \in Func
  BY DEF FrameInv, StackTypeOK, TypeOK
<1>2. EnteringInv
  BY DEF FrameInv, Construct
<1>3. /\ live # <<>> /\ Len(live) \in Nat /\ Len(live) \in 1 .. Len(live)
      /\ b \in Block /\ n \in Nat
  BY <1>1, <1>2 DEF EnteringInv
<1>4. b.size = FrameWords /\ b.base \in Nat /\ offset = b.base + FrameWords
  BY <1>2, <1>3 DEF EnteringInv, Block
<1>5. f \in Frame /\ f.block = Len(live) /\ f.func = callee
  BY <1>1, <1>3 DEF Frame
<1>6. frames = <<>> => Len(frames) = 0
  OBVIOUS
<1>7. UNCHANGED <<callee, start>>
  BY DEF Construct
<1>8. CASE n > Room /\ mode' = "threw" /\ UNCHANGED <<vars, frames>>
  <2>1. LeakIsOneFrame'
    <3>1. CASE frames = <<>>
      <4>1. callee = Main /\ offset >= start
        BY <1>1, <1>2, <1>4, <3>1 DEF EnteringInv
      <4> QED BY <1>1, <1>7, <1>8, <3>1, <4>1 DEF LeakIsOneFrame, Room, vars
    <3>2. CASE frames # <<>>
      <4>1. b.base = FrameEnd(Current)
        BY <1>2, <3>2 DEF EnteringInv, Topped
      <4>2. offset' = offset /\ FrameEnd(Current)' = FrameEnd(Current) /\ frames' # <<>>
        BY <1>8, <3>2 DEF FrameEnd, FrameBase, Current, vars
      <4>3. offset' - FrameEnd(Current)' = FrameWords
        BY <1>4, <4>1, <4>2
      <4> QED BY <4>2, <4>3 DEF LeakIsOneFrame
    <3> QED BY <3>1, <3>2
  <2> QED BY <1>1, <1>7, <1>8, <2>1, SamePlaces
<1>9. CASE /\ \/ n > 0 /\ Allocate(1, n)
              \/ n = 0 /\ UNCHANGED vars
           /\ frames' = Append(frames, f)
           /\ mode' = "running"
  <2>1. /\ live' \in Seq(Block)
        /\ Len(live) <= Len(live')
        /\ Len(live') = Len(live) + Blocks(f) - 1
        /\ \A j \in 1 .. Len(live) : j <= Len(live') /\ live'[j] = live[j]
        /\ n > 0 => live'[Len(live) + 1] = [base |-> offset, size |-> n]
        /\ offset' = offset + n
        /\ n <= Size - offset
    <3>1. CASE n > 0 /\ Allocate(1, n)
      <4>1. /\ live' = Append(live, [base |-> offset, size |-> n])
            /\ offset' = offset + n
            /\ n <= Size - offset
        BY <1>1, <1>3, <3>1 DEF Allocate
      <4>2. [base |-> offset, size |-> n] \in Block
        BY <1>1, <1>3 DEF Block
      <4>3. Blocks(f) = 2
        BY <1>5, <3>1 DEF Blocks
      <4> HIDE DEF n, f
      <4> QED BY <1>1, <1>3, <4>1, <4>2, <4>3
    <3>2. CASE n = 0 /\ UNCHANGED vars
      <4>1. Blocks(f) = 1
        BY <1>5, <3>2 DEF Blocks
      <4> QED BY <1>1, <1>3, <3>2, <4>1 DEF vars
    <3> QED BY <1>9, <3>1, <3>2
  <2>2. live'[Len(live)] = b /\ f.block <= Len(live')
    BY <1>3, <1>5, <2>1
  <2>3. InPlace(live', frames, start)
    BY <1>1, <2>1, SameInPlace
  <2>4. Len(frames) = 0 => live'[f.block].base = start
    <3> SUFFICES ASSUME Len(frames) = 0 PROVE b.base = start
      BY <1>5, <2>2
    <3>1. frames = <<>>
      BY <1>1
    <3>2. callee = Main /\ (b.base = start \/ FrameWords + numRegs[Main] > Size - b.base)
      BY <1>2, <3>1 DEF EnteringInv
    <3>3. FrameWords + n <= Size - b.base
      <4>1. n <= Size - offset
        BY <2>1
      <4> HIDE DEF n, b
      <4> QED BY <1>1, <1>3, <1>4, <4>1
    <3> QED BY <3>2, <3>3, <1>1, <1>3, <1>4
  <2>5. ASSUME Len(frames) > 0
        PROVE  /\ live'[f.block].base = EndIn(live', frames[Len(frames)])
               /\ f.block = frames[Len(frames)].block + Blocks(frames[Len(frames)])
               /\ HasRegs(live', frames[Len(frames)])
    <3>1. frames # <<>>
      BY <2>5, <1>6
    <3>2. Topped(Len(live) - 1, b.base)
      BY <1>2, <3>1 DEF EnteringInv
    <3>3. /\ Current.block \in 1 .. Len(live) /\ Current.block \in Nat
          /\ Blocks(Current) \in {1, 2}
          /\ FrameEnd(Current) = EndIn(live, Current)
      BY <3>1, CurrentFacts
    <3>4. live'[Current.block] = live[Current.block]
      BY <3>3, <2>1
    <3>5. b.base = EndIn(live', Current)
      BY <3>2, <3>3, <3>4 DEF Topped, EndIn
    <3>6. Len(live) - 1 = Current.block + Blocks(Current) - 1
      BY <3>2 DEF Topped
    <3>7. Len(live) = Current.block + Blocks(Current)
      BY <3>3, <3>6, <1>3
    <3>8. HasRegs(live', Current)
      <4> SUFFICES ASSUME numRegs[Current.func] > 0
                   PROVE  /\ Current.block + 1 <= Len(live')
                          /\ live'[Current.block + 1] = live[Current.block + 1]
                          /\ HasRegs(live, Current)
        BY <3>4 DEF HasRegs
      <4>1. HasRegs(live, Current)
        BY <3>2 DEF Topped
      <4>2. Current.block + 1 \in 1 .. Len(live)
        BY <4>1, <3>3, <1>3 DEF HasRegs
      <4> QED BY <4>1, <4>2, <2>1
    <3> QED BY <1>5, <2>2, <3>5, <3>7, <3>8 DEF Current
  <2>6. InPlace(live', Append(frames, f), start)
    <3>1. live'[f.block].size = FrameWords
      BY <1>4, <1>5, <2>2
    <3> HIDE DEF f, b
    <3> QED BY <1>1, <1>5, <2>1, <2>2, <2>3, <2>4, <2>5, <3>1, PushInPlace
  <2>7. /\ frames' \in Seq(Frame) /\ frames' # <<>>
        /\ frames'[Len(frames')] = f
    <3> HIDE DEF f
    <3> QED BY <1>1, <1>5, <1>9
  <2>8. StackTypeOK' /\ offset' <= Size
    <3>1. offset' \in Nat /\ offset' <= Size
      BY <2>1, <1>1, <1>3
    <3> QED BY <1>1, <1>7, <1>9, <2>1, <2>7, <3>1 DEF StackTypeOK, TypeOK
  <2>9. Topped(Len(live), offset)'
    <3>1. Current' = f
      BY <2>7 DEF Current
    <3>2. HasRegs(live', f)
      <4> SUFFICES ASSUME n > 0
                   PROVE  /\ f.block + 1 <= Len(live')
                          /\ live'[f.block + 1].base = live'[f.block].base + FrameWords
                          /\ live'[f.block + 1].size = n
        BY <1>5 DEF HasRegs
      <4>1. Blocks(f) = 2
        BY <1>5 DEF Blocks
      <4>2. live'[f.block + 1] = [base |-> offset, size |-> n]
        BY <1>5, <2>1
      <4> QED BY <1>3, <1>4, <1>5, <2>1, <2>2, <4>1, <4>2
    <3>3. Len(live') = f.block + Blocks(f) - 1
      BY <1>5, <2>1
    <3>4. offset' = live'[f.block].base + FrameWords + numRegs[f.func]
      BY <1>3, <1>4, <1>5, <2>1, <2>2
    <3> HIDE DEF f, n, b
    <3> QED BY <2>7, <3>1, <3>2, <3>3, <3>4 DEF Topped, FrameEnd, FrameBase, Blocks
  <2> QED BY <1>7, <1>9, <2>6, <2>8, <2>9 DEF FrameInv, LeakIsOneFrame
<1> QED BY <1>8, <1>9 DEF Construct

(* What giving back the last block leaves.                                 *)
LEMMA DropLast ==
    ASSUME live \in Seq(Block), live # <<>>, Deallocate(Len(live)), offset \in Nat
    PROVE  /\ live' \in Seq(Block)
           /\ Len(live') = Len(live) - 1
           /\ \A j \in 1 .. Len(live') : live'[j] = live[j]
           /\ offset' = offset - live[Len(live)].size
<1> DEFINE m == Len(live) - 1
<1>1. m \in Nat /\ \A j \in 1 .. m : j < Len(live) /\ live[j] \in Block
  OBVIOUS
<1>2. live' = [j \in 1 .. m |-> IF j < Len(live) THEN live[j] ELSE live[j + 1]]
  BY DEF Deallocate, RemoveBlock
<1>3. live' = [j \in 1 .. m |-> live[j]]
  BY <1>1, <1>2
<1> HIDE DEF m
<1>4. live' \in [1 .. m -> Block] /\ \A j \in 1 .. m : live'[j] = live[j]
  BY <1>1, <1>3
<1>5. live' \in Seq(Block) /\ Len(live') = m
  BY <1>1, <1>4
<1> QED BY <1>4, <1>5 DEF m, Deallocate

(* ret(): the registers go first ...                                       *)
LEMMA DestroyFrames ==
    ASSUME FrameInv, Destroy
    PROVE  FrameInv' /\ (UNCHANGED vars \/ (live # <<>> /\ Deallocate(Len(live))))
<1> USE SizeFacts
<1>1. /\ live \in Seq(Block) /\ frames \in Seq(Frame)
      /\ offset \in Nat /\ offset <= Size
      /\ InPlace(live, frames, start)
  BY DEF FrameInv, StackTypeOK, TypeOK
<1>2. frames # <<>> /\ Topped(Len(live), offset)
  BY DEF FrameInv, Destroy, Topped
<1>3. /\ Current.block \in 1 .. Len(live) /\ Current.block \in Nat
      /\ FrameBase(Current) \in Nat /\ numRegs[Current.func] \in Nat
      /\ FrameEnd(Current) = FrameBase(Current) + FrameWords + numRegs[Current.func]
  BY <1>2, CurrentFacts
<1>4. /\ HasRegs(live, Current) /\ offset = FrameEnd(Current)
      /\ Len(live) = Current.block + Blocks(Current) - 1
      /\ live # <<>>
  BY <1>2, <1>3 DEF Topped
<1>5. UNCHANGED <<frames, callee, start>> /\ mode' = "leaving" /\ Current' = Current
  BY DEF Destroy, Current
<1>6. CASE numRegs[Current.func] > 0 /\ Deallocate(Current.block + 1)
  <2>1. Len(live) = Current.block + 1 /\ live[Len(live)].size = numRegs[Current.func]
    BY <1>3, <1>4, <1>6 DEF Blocks, HasRegs
  <2>2. Deallocate(Len(live))
    BY <1>6, <2>1
  <2>3. /\ live' \in Seq(Block) /\ Len(live') = Current.block
        /\ \A j \in 1 .. Len(live') : live'[j] = live[j]
        /\ offset' = FrameBase(Current) + FrameWords
    BY <1>1, <1>3, <1>4, <2>1, <2>2, DropLast
  <2>4. InPlace(live', frames', start')
    <3>1. Len(frames) > 0 /\ Current = frames[Len(frames)]
      BY <1>1, <1>2 DEF Current
    <3>2. \A j \in 1 .. Len(live) :
             (Len(frames) > 0 => j <= frames[Len(frames)].block)
                => j <= Len(live') /\ live'[j] = live[j]
      BY <1>3, <2>3, <3>1
    <3> QED BY <1>1, <1>5, <2>3, <3>2, SameInPlace
  <2>5. offset' \in Nat /\ offset' <= Size
    BY <1>1, <1>3, <1>4, <2>3
  <2>6. LeavingInv'
    <3>1. live'[Current.block] = live[Current.block]
      BY <1>3, <2>3
    <3> QED BY <1>2, <1>5, <2>3, <3>1 DEF LeavingInv, FrameBase
  <2>7. StackTypeOK'
    BY <1>5, <2>3, <2>5 DEF FrameInv, StackTypeOK, TypeOK
  <2> QED BY <1>4, <1>5, <2>2, <2>4, <2>5, <2>6, <2>7 DEF FrameInv, LeakIsOneFrame
<1>7. CASE numRegs[Current.func] = 0 /\ UNCHANGED vars
  <2>1. Len(live) = Current.block /\ offset = FrameBase(Current) + FrameWords
    BY <1>3, <1>4, <1>7 DEF Blocks
  <2>2. LeavingInv'
    BY <1>2, <1>5, <1>7, <2>1 DEF LeavingInv, FrameBase, vars
  <2>3. StackTypeOK' /\ offset' <= Size /\ InPlace(live', frames', start')
    BY <1>1, <1>5, <1>7 DEF FrameInv, StackTypeOK, TypeOK, vars
  <2> QED BY <1>5, <1>7, <2>2, <2>3 DEF FrameInv, LeakIsOneFrame
<1> QED BY <1>6, <1>7 DEF Destroy

(* ... and the Frame after them.                                           *)
LEMMA RetFrames ==
    ASSUME FrameInv, Ret
    PROVE  /\ FrameInv'
           /\ live # <<>> /\ Deallocate(Len(live))
           /\ offset' = FrameBase(Current)
<1> USE SizeFacts
<1>1. /\ live \in Seq(Block) /\ frames \in Seq(Frame)
      /\ offset \in Nat /\ start \in Nat /\ offset <= Size
      /\ InPlace(live, frames, start)
  BY DEF FrameInv, StackTypeOK, TypeOK
<1>2. frames # <<>> /\ Len(live) = Current.block /\ offset = FrameBase(Current) + FrameWords
  BY DEF FrameInv, Ret, LeavingInv
<1>3. /\ Len(frames) \in Nat /\ Len(frames) > 0
      /\ Current.block \in 1 .. Len(live) /\ Current.block \in Nat
      /\ live[Current.block].size = FrameWords
      /\ FrameBase(Current) \in Nat
  BY <1>2, CurrentFacts
<1>4. live # <<>> /\ Deallocate(Len(live))
  BY <1>2, <1>3 DEF Ret
<1>5. /\ live' \in Seq(Block) /\ Len(live') = Current.block - 1
      /\ \A j \in 1 .. Len(live') : live'[j] = live[j]
      /\ offset' = FrameBase(Current)
  BY <1>1, <1>2, <1>3, <1>4, DropLast
<1>6. offset' \in Nat /\ offset' <= Size
  BY <1>1, <1>2, <1>3, <1>5
<1>7. /\ frames' = SubSeq(frames, 1, Len(frames) - 1)
      /\ mode' = IF Len(frames) = 1 THEN "idle" ELSE "running"
      /\ UNCHANGED <<callee, start>>
  BY DEF Ret, Leave
<1>8. /\ frames' \in Seq(Frame) /\ Len(frames') = Len(frames) - 1
      /\ InPlace(live', frames', start)
      /\ Len(frames') > 0 =>
            /\ HasRegs(live', frames'[Len(frames')])
            /\ Len(live') = frames'[Len(frames')].block + Blocks(frames'[Len(frames')]) - 1
            /\ live[Current.block].base = EndIn(live', frames'[Len(frames')])
      /\ Len(frames') = 0 => live[Current.block].base = start
  <2>1. Len(live') = frames[Len(frames)].block - 1
    BY <1>5 DEF Current
  <2> QED BY <1>1, <1>3, <1>5, <1>7, <2>1, PopInPlace DEF Current
<1>9. StackTypeOK'
  BY <1>5, <1>6, <1>7, <1>8 DEF FrameInv, StackTypeOK, TypeOK
<1>10. CASE Len(frames) = 1
  <2>1. Len(frames') = 0 /\ mode' = "idle"
    BY <1>7, <1>8, <1>10
  <2>2. frames' = <<>>
    <3>1. frames' \in Seq(Frame)
      BY <1>8
    <3> QED BY <2>1, <3>1
  <2>3. offset' = start'
    BY <1>5, <1>7, <1>8, <2>1 DEF FrameBase
  <2> QED BY <1>4, <1>5, <1>6, <1>7, <1>8, <1>9, <2>1, <2>2, <2>3
          DEF FrameInv, LeakIsOneFrame
<1>11. CASE Len(frames) # 1
  <2>1. Len(frames') > 0 /\ mode' = "running" /\ frames' # <<>>
    <3>1. Len(frames') = Len(frames) - 1
      BY <1>8
    <3>2. Len(frames') > 0
      BY <1>3, <1>11, <3>1
    <3>3. frames' # <<>>
      BY <3>2
    <3> QED BY <1>7, <1>11, <3>2, <3>3
  <2>2. Topped(Len(live), offset)'
    <3>1. Current' = frames'[Len(frames')]
      BY DEF Current
    <3>2. offset' = EndIn(live', Current')
      BY <1>5, <1>8, <2>1, <3>1 DEF FrameBase
    <3> QED BY <1>8, <2>1, <3>1, <3>2 DEF Topped, FrameEnd, FrameBase, EndIn, Blocks
  <2> QED BY <1>4, <1>5, <1>6, <1>7, <1>8, <1>9, <2>1, <2>2
          DEF FrameInv, LeakIsOneFrame
<1> QED BY <1>10, <1>11

LEMMA NextFrames ==
    ASSUME FrameInv, [StackNext]_stackVars
    PROVE  FrameInv'
<1>1. CASE Run
  <2>1. CASE frames = <<>> /\ TakeFrame(Main)
    BY <1>1, <2>1, SizeFacts, TakeFrames DEF Run
  <2>2. CASE /\ frames # <<>> /\ mode' = "aborted"
             /\ UNCHANGED <<vars, frames, callee, start>>
    <3>1. callee' \in Func
      BY <2>2 DEF FrameInv, StackTypeOK
    <3> QED BY <2>2, <3>1, SamePlaces
  <2> QED BY <1>1, <2>1, <2>2 DEF Run
<1>2. ASSUME NEW f \in Func, Call(f) PROVE FrameInv'
  BY <1>2, TakeFrames DEF Call
<1>3. CASE Construct
  BY <1>3, ConstructFrames
<1>4. CASE Destroy
  BY <1>4, DestroyFrames
<1>5. CASE Ret
  BY <1>5, RetFrames
<1>6. CASE Throw
  <2>1. frames # <<>> /\ offset = FrameEnd(Current)
    BY <1>6 DEF Throw, FrameInv, Topped
  <2>2. callee' \in Func
    BY <1>6 DEF Throw, FrameInv, StackTypeOK
  <2>3. (offset - FrameEnd(Current))' = offset - FrameEnd(Current) /\ frames' # <<>>
    BY <1>6, <2>1 DEF Throw, FrameEnd, FrameBase, Current, vars
  <2>4. (offset - FrameEnd(Current))' = 0
    BY <2>1, <2>3 DEF FrameInv, StackTypeOK, TypeOK
  <2>5. LeakIsOneFrame'
    BY <2>3, <2>4 DEF LeakIsOneFrame
  <2> QED BY <1>6, <2>2, <2>5, SamePlaces DEF Throw
<1>7. CASE NewExecutor
  <2>1. InPlace(live', frames', start')
    BY <1>7 DEF NewExecutor, InPlace
  <2>2. StackTypeOK' /\ offset' <= Size
    BY <1>7 DEF NewExecutor, FrameInv, StackTypeOK, TypeOK, vars
  <2> QED BY <1>7, <2>1, <2>2 DEF NewExecutor, FrameInv, LeakIsOneFrame, vars
<1>8. CASE UNCHANGED stackVars
  BY <1>8 DEF stackVars, FrameInv, StackTypeOK, TypeOK, InPlace, HasRegs, EndIn,
              Topped, EnteringInv, LeavingInv, LeakIsOneFrame, FrameEnd,
              FrameBase, Current, Room, Blocks
<1> QED BY <1>1, <1>2, <1>3, <1>4, <1>5, <1>6, <1>7, <1>8 DEF StackNext

-----------------------------------------------------------------------------
(* Frames lie back to back inside the buffer in every reachable state.     *)
THEOREM FramesStacked == StackSpec => []Stacked
<1>1. FrameInv => Stacked
  BY DEF FrameInv, Stacked, InPlace, FrameBase, FrameEnd, EndIn
<1> QED BY InitFrames, NextFrames, <1>1, PTL DEF StackSpec

(* Runs that end without an exception give back what they took.            *)
THEOREM FramesNoLeak == StackSpec => []NoLeak
<1>1. FrameInv => NoLeak
  BY DEF FrameInv, NoLeak, Topped
<1> QED BY InitFrames, NextFrames, <1>1, PTL DEF StackSpec

(* An exception leaves at most one Frame behind beyond the frames.         *)
THEOREM FramesLeakIsOneFrame == StackSpec => []LeakIsOneFrame
<1>1. FrameInv => LeakIsOneFrame
  BY DEF FrameInv
<1> QED BY InitFrames, NextFrames, <1>1, PTL DEF StackSpec

(* Every return restores the mark of the matching call.                    *)
THEOREM FramesRetUndoesCall == StackSpec => RetUndoesCall
<1>1. FrameInv /\ [StackNext]_stackVars
        => [Ret => offset' = FrameBase(Current)]_stackVars
  BY RetFrames
<1> QED BY InitFrames, NextFrames, <1>1, PTL DEF StackSpec, RetUndoesCall

(* The executor is a client of the linear buffer that gives its blocks     *)
(* back last in, first out, whatever is called, thrown and run again.      *)
THEOREM FramesLifo == StackSpec => LastInFirstOut
<1>1. StackInit => Init
  BY DEF StackInit
<1>2. \A f \in Func : TakeFrame(f) => [LifoNext]_vars
  <2>1. FrameWords \in ElemSize /\ 1 \in Count
    BY FrameStackAssumption
  <2> QED BY <2>1 DEF TakeFrame, LifoNext
<1>3. Construct /\ FrameInv => [LifoNext]_vars
  <2>1. 1 \in ElemSize
    BY FrameStackAssumption
  <2>2. FrameInv => numRegs[callee] \in Count
    BY FrameStackAssumption DEF FrameInv, StackTypeOK
  <2> QED BY <2>1, <2>2 DEF Construct, LifoNext
<1>4. FrameInv /\ (Destroy \/ Ret) => [LifoNext]_vars
  BY DestroyFrames, RetFrames DEF LifoNext
<1>5. FrameInv /\ [StackNext]_stackVars => [LifoNext]_vars
  BY <1>2, <1>3, <1>4, SizeFacts
     DEF StackNext, Run, Call, Throw, NewExecutor, stackVars, vars
<1> QED BY InitFrames, NextFrames, <1>1, <1>5, PTL
        DEF StackSpec, LastInFirstOut, LifoSpec
=============================================================================
