----------------------- MODULE DescriptorList_proofs -----------------------
(***************************************************************************)
(* Proofs about DescriptorList, for any buffers, any layout of physical    *)
(* memory, any number of pieces and every offset and count.                *)
(*                                                                         *)
(* BytesUpTo is a recursive function: that it satisfies its recursion, and *)
(* what follows by induction, comes from < being well-founded on Nat.      *)
(*                                                                         *)
(* A list is the one that was filled (Filled), or that one cut for a       *)
(* transfer (Cut), which restoreSavedData undoes (RestoreUndoes).  The     *)
(* board, when it has a descriptor of the transfer loaded, has moved the   *)
(* bytes before it (Reached), and these are the transfer's (Beginning).    *)
(***************************************************************************)
EXTENDS DescriptorList, WellFoundedInduction, TLAPS

\* A set of natural numbers has a least element: < is well-founded on them.
LEMMA LeastElement ==
    ASSUME NEW S \in SUBSET Nat, S # {}
    PROVE  \E n \in S : \A m \in S : n <= m
<1> DEFINE R == OpToRel(<, Nat)
<1>1. IsWellFoundedOn(R, Nat)
  BY NatLessThanWellFounded
<1>2. \A m, n \in Nat : m < n => <<m, n>> \in R
  BY DEF OpToRel
<1> HIDE DEF R
<1>3. PICK n \in S : \A m \in S : ~ (<<m, n>> \in R)
  BY <1>1, WFMin
<1>4. ASSUME NEW m \in S PROVE n <= m
  <2>1. m \in Nat /\ n \in Nat
    OBVIOUS
  <2>2. ~ (m < n)
    BY <1>2, <1>3, <2>1, Zenon
  <2>3. QED
    BY <2>1, <2>2
<1>5. QED
  BY <1>4

\* What holds of 0 and of the successor of whatever it holds of, holds of every
\* natural number.
LEMMA Induction ==
    ASSUME NEW S, 0 \in S, \A n \in Nat : n \in S => n + 1 \in S
    PROVE  Nat \subseteq S
<1>1. SUFFICES ASSUME Nat \ S # {} PROVE FALSE
  OBVIOUS
<1>2. PICK n \in Nat \ S : \A m \in Nat \ S : n <= m
  BY <1>1, LeastElement
<1>3. n # 0 /\ n - 1 \in Nat
  BY <1>2
<1>4. n - 1 \in S
  BY <1>2, <1>3
<1>5. QED
  BY <1>4, <1>3

\* What has lengths to sum up.
Sized(s) == Len(s) \in Nat /\ \A i \in 1 .. Len(s) : s[i].len \in Nat

\* The recursion by which BytesUpTo is defined has a solution.
LEMMA SumExists ==
    ASSUME NEW s, Sized(s)
    PROVE  \E f : f = [i \in 0 .. Len(s) |-> IF i = 0 THEN 0 ELSE f[i - 1] + s[i].len]
<1> DEFINE Sum(f, n) == f = [i \in 0 .. n |-> IF i = 0 THEN 0 ELSE f[i - 1] + s[i].len]
           S == {n \in Nat : \E f : Sum(f, n)}
<1>1. 0 \in S
  <2> DEFINE f == [i \in 0 .. 0 |-> 0]
  <2>1. Sum(f, 0)
    OBVIOUS
  <2>2. QED
    BY <2>1
<1>2. ASSUME NEW n \in Nat, n \in S
      PROVE  n + 1 \in S
  <2>1. PICK f : Sum(f, n)
    BY <1>2
  <2> DEFINE g == [i \in 0 .. n + 1 |-> IF i = n + 1 THEN f[n] + s[n + 1].len ELSE f[i]]
  <2>2. DOMAIN g = 0 .. n + 1
    OBVIOUS
  <2>3. ASSUME NEW i \in 0 .. n + 1
        PROVE  g[i] = IF i = 0 THEN 0 ELSE g[i - 1] + s[i].len
    <3>1. CASE i = n + 1
      BY <3>1
    <3>2. CASE i # n + 1
      <4>1. i \in 0 .. n /\ g[i] = f[i] /\ (i # 0 => i - 1 \in 0 .. n /\ g[i - 1] = f[i - 1])
        BY <3>2
      <4>2. QED
        BY <2>1, <4>1
    <3>3. QED
      BY <3>1, <3>2
  <2>4. Sum(g, n + 1)
    BY <2>2, <2>3
  <2>5. \E h : Sum(h, n + 1)
    <3> HIDE DEF g, Sum
    <3>1. QED
      BY <2>4
  <2>6. QED
    BY <2>5
<1>3. Len(s) \in S
  <2> HIDE DEF S
  <2>1. QED
    BY <1>1, <1>2, Induction DEF Sized
<1>4. QED
  BY <1>3

\* BytesUpTo is therefore what its recursion says.
LEMMA SumStep ==
    ASSUME NEW s, Sized(s)
    PROVE  /\ BytesUpTo(s, 0) = 0
           /\ \A i \in 1 .. Len(s) : BytesUpTo(s, i) = BytesUpTo(s, i - 1) + s[i].len
<1> DEFINE sum == CHOOSE f : f = [i \in 0 .. Len(s) |-> IF i = 0 THEN 0 ELSE f[i - 1] + s[i].len]
<1>1. sum = [i \in 0 .. Len(s) |-> IF i = 0 THEN 0 ELSE sum[i - 1] + s[i].len]
  BY SumExists
<1>2. \A n : BytesUpTo(s, n) = sum[n]
  BY DEF BytesUpTo
<1> HIDE DEF sum
<1>3. sum[0] = 0
  BY <1>1 DEF Sized
<1>4. ASSUME NEW i \in 1 .. Len(s)
      PROVE  sum[i] = sum[i - 1] + s[i].len
  <2>1. i \in 0 .. Len(s) /\ i # 0
    BY DEF Sized
  <2>2. QED
    BY <1>1, <2>1
<1>5. QED
  BY <1>2, <1>3, <1>4

\* Sums of lengths are natural numbers.
LEMMA SumNat ==
    ASSUME NEW s, Sized(s), NEW i \in 0 .. Len(s)
    PROVE  BytesUpTo(s, i) \in Nat
<1> DEFINE S == {n \in Nat : n <= Len(s) => BytesUpTo(s, n) \in Nat}
<1>0. i \in Nat /\ i <= Len(s)
  BY DEF Sized
<1>1. 0 \in S
  BY SumStep
<1>2. ASSUME NEW n \in Nat, n \in S
      PROVE  n + 1 \in S
  <2>1. CASE n + 1 <= Len(s)
    <3>1. n + 1 \in 1 .. Len(s) /\ (n + 1) - 1 = n
      BY <2>1 DEF Sized
    <3>2. BytesUpTo(s, n + 1) = BytesUpTo(s, n) + s[n + 1].len
      BY <3>1, SumStep
    <3>3. QED
      BY <1>2, <2>1, <3>1, <3>2 DEF Sized
  <2>2. QED
    BY <2>1
<1>3. i \in S
  <2> HIDE DEF S
  <2>1. QED
    BY <1>0, <1>1, <1>2, Induction
<1>4. QED
  BY <1>0, <1>3

\* More blocks are no fewer bytes.
LEMMA SumMonotone ==
    ASSUME NEW s, Sized(s), NEW j \in 0 .. Len(s), NEW i \in 0 .. j
    PROVE  BytesUpTo(s, i) <= BytesUpTo(s, j)
<1> DEFINE S == {n \in Nat : i + n <= Len(s) => BytesUpTo(s, i) <= BytesUpTo(s, i + n)}
<1>0. i \in Nat /\ i \in 0 .. Len(s) /\ j - i \in Nat /\ i + (j - i) = j
  BY DEF Sized
<1>1. 0 \in S
  BY <1>0, SumNat
<1>2. ASSUME NEW n \in Nat, n \in S
      PROVE  n + 1 \in S
  <2>1. CASE i + n + 1 <= Len(s)
    <3>1. i + n + 1 \in 1 .. Len(s) /\ (i + n + 1) - 1 = i + n /\ i + n \in 0 .. Len(s)
      BY <2>1, <1>0 DEF Sized
    <3>2. BytesUpTo(s, i + n + 1) = BytesUpTo(s, i + n) + s[i + n + 1].len
      BY <3>1, SumStep
    <3>3. /\ BytesUpTo(s, i) \in Nat /\ BytesUpTo(s, i + n) \in Nat
          /\ s[i + n + 1].len \in Nat
      BY <3>1, <1>0, SumNat DEF Sized
    <3>4. i + n <= Len(s) /\ BytesUpTo(s, i) <= BytesUpTo(s, i + n)
      BY <1>2, <3>1, <1>0 DEF Sized
    <3>5. BytesUpTo(s, i) <= BytesUpTo(s, i + n + 1)
      BY <3>2, <3>3, <3>4
    <3>6. i + (n + 1) = i + n + 1
      BY <1>0
    <3>7. QED
      BY <3>5, <3>6
  <2>2. QED
    BY <2>1, <1>0
<1>3. j - i \in S
  <2> HIDE DEF S
  <2>1. QED
    BY <1>0, <1>1, <1>2, Induction DEF Sized
<1>4. QED
  BY <1>0, <1>3

\* A buffer with a list.
Listed(b) == b \in Buffers /\ Type[b] # "KERNEL"

\* The first byte of the buffer behind descriptor j.
Pos(b, j) == BytesUpTo(Filled(b), j)

\* The physical blocks of a buffer have lengths to sum up.
LEMMA BlocksSized ==
    ASSUME NEW b \in Buffers
    PROVE  /\ SG[b] \in Seq(Block) /\ Len(SG[b]) \in Nat \ {0}
           /\ \A j \in 1 .. Len(SG[b]) : SG[b][j] \in Block
           /\ Sized(SG[b])
           /\ Size(b) \in Nat
<1>1. SG[b] \in Seq(Block) /\ SG[b] # <<>>
  BY BuffersAssumption
<1>2. Len(SG[b]) \in Nat \ {0} /\ \A j \in 1 .. Len(SG[b]) : SG[b][j] \in Block
  BY <1>1
<1>3. Sized(SG[b])
  BY <1>2 DEF Sized, Block
<1>4. Size(b) \in Nat
  BY <1>2, <1>3, SumNat DEF Size
<1>5. QED
  BY <1>1, <1>2, <1>3, <1>4

\* The pieces of a buffer of Pieces equal ones but the last.
Step(b) == Size(b) \div Pieces

\* The pieces of a kernel buffer are in it.
LEMMA StepFits ==
    ASSUME NEW b \in Buffers
    PROVE  Step(b) \in Nat /\ Pieces * Step(b) <= Size(b)
<1>1. Size(b) \in Nat /\ Pieces \in Nat \ {0}
  BY BlocksSized, WordAssumption
<1>2. QED
  BY <1>1, SMTT(30) DEF Step

\* A kernel buffer is one block.
LEMMA OneBlock ==
    ASSUME NEW b \in Buffers, Type[b] # "USER"
    PROVE  /\ Len(SG[b]) = 1 /\ SG[b][1] \in Block
           /\ Size(b) = SG[b][1].len /\ Size(b) > 0
<1>1. Len(SG[b]) = 1
  BY BuffersAssumption
<1>2. SG[b][1] \in Block
  BY <1>1, BlocksSized
<1>3. Size(b) = BytesUpTo(SG[b], 0) + SG[b][1].len /\ BytesUpTo(SG[b], 0) = 0
  BY <1>1, BlocksSized, SumStep DEF Size
<1>4. QED
  BY <1>1, <1>2, <1>3 DEF Block

\* fillDescriptorList for user memory: a descriptor for each block.
LEMMA FilledUser ==
    ASSUME NEW b \in Buffers, Type[b] = "USER"
    PROVE  /\ Len(Filled(b)) = Len(SG[b])
           /\ Filled(b) = [j \in 1 .. Len(SG[b]) |->
                 [addr |-> SG[b][j].addr, len |-> SG[b][j].len,
                  next |-> NextOf(j, Len(SG[b])), per |-> 0, control |-> {}]]
<1>1. DOMAIN SG[b] = 1 .. Len(SG[b]) /\ Len(SG[b]) \in Nat
  BY BlocksSized
<1>2. Filled(b) = [j \in 1 .. Len(SG[b]) |->
                 [addr |-> SG[b][j].addr, len |-> SG[b][j].len,
                  next |-> NextOf(j, Len(SG[b])), per |-> 0, control |-> {}]]
  BY <1>1 DEF Filled
<1>3. QED
  BY <1>1, <1>2

\* fillDescriptorList for a kernel buffer in pieces: a descriptor for each piece.
LEMMA FilledPieces ==
    ASSUME NEW b \in Buffers, Type[b] = "KERNEL_PIECES"
    PROVE  /\ Len(Filled(b)) = Pieces
           /\ Filled(b) = [j \in 1 .. Pieces |->
                 [addr |-> SG[b][1].addr + (j - 1) * Step(b),
                  len |-> IF j = Pieces THEN Size(b) - (Pieces - 1) * Step(b) ELSE Step(b),
                  next |-> NextOf(j, Pieces), per |-> 0, control |-> {}]]
<1>1. Filled(b) = [j \in 1 .. Pieces |->
                 [addr |-> SG[b][1].addr + (j - 1) * Step(b),
                  len |-> IF j = Pieces THEN Size(b) - (Pieces - 1) * Step(b) ELSE Step(b),
                  next |-> NextOf(j, Pieces), per |-> 0, control |-> {}]]
  BY DEF Filled, Step
<1>2. QED
  BY <1>1, WordAssumption

\* What both kinds of list have in common, field by field.
LEMMA FilledFields ==
    ASSUME NEW b, Listed(b)
    PROVE  /\ Len(Filled(b)) \in Nat \ {0}
           /\ Filled(b) = [j \in 1 .. Len(Filled(b)) |->
                 [addr |-> Filled(b)[j].addr, len |-> Filled(b)[j].len,
                  next |-> NextOf(j, Len(Filled(b))), per |-> 0, control |-> {}]]
           /\ \A j \in 1 .. Len(Filled(b)) :
                 Filled(b)[j].addr \in Nat /\ Filled(b)[j].len \in Nat
           /\ Filled(b)[Len(Filled(b))].len > 0
<1>1. CASE Type[b] = "USER"
  <2>1. \A j \in 1 .. Len(SG[b]) : SG[b][j].addr \in Nat /\ SG[b][j].len \in Nat \ {0}
    BY BlocksSized DEF Block, Listed
  <2>2. b \in Buffers /\ Len(SG[b]) \in Nat \ {0}
    BY BlocksSized DEF Listed
  <2>3. QED
    BY <1>1, <2>1, <2>2, FilledUser
<1>2. CASE Type[b] = "KERNEL_PIECES"
  <2>1. /\ b \in Buffers /\ SG[b][1].addr \in Nat /\ Size(b) \in Nat \ {0}
        /\ Step(b) \in Nat /\ Pieces * Step(b) <= Size(b) /\ Pieces \in Nat \ {0}
    BY <1>2, OneBlock, StepFits, BlocksSized, WordAssumption DEF Listed, Block
  <2>2. Size(b) - (Pieces - 1) * Step(b) \in Nat \ {0}
    <3>1. (Pieces - 1) * Step(b) + Step(b) = Pieces * Step(b) /\ (Pieces - 1) * Step(b) \in Nat
      BY <2>1, SMTT(30)
    <3>2. CASE Step(b) = 0
      BY <2>1, <3>1, <3>2
    <3>3. QED
      BY <2>1, <3>1, <3>2
  <2>3. \A j \in 1 .. Pieces : SG[b][1].addr + (j - 1) * Step(b) \in Nat
    <3>1. ASSUME NEW j \in 1 .. Pieces PROVE (j - 1) * Step(b) \in Nat
      <4>1. j - 1 \in Nat
        BY <2>1
      <4>2. QED
        BY <2>1, <4>1, SMTT(30)
    <3>2. QED
      BY <2>1, <3>1
  <2>4. Len(Filled(b)) = Pieces
    BY <1>2, <2>1, FilledPieces
  <2> DEFINE addr(j) == SG[b][1].addr + (j - 1) * Step(b)
             len(j) == IF j = Pieces THEN Size(b) - (Pieces - 1) * Step(b) ELSE Step(b)
  <2>5. ASSUME NEW j \in 1 .. Pieces
        PROVE  Filled(b)[j] = [addr |-> addr(j), len |-> len(j),
                               next |-> NextOf(j, Pieces), per |-> 0, control |-> {}]
    BY <1>2, <2>1, FilledPieces
  <2>6. \A j \in 1 .. Pieces : addr(j) \in Nat /\ len(j) \in Nat /\ len(Pieces) > 0
    BY <2>1, <2>2, <2>3
  <2> HIDE DEF addr, len
  <2>9. Pieces \in 1 .. Pieces
    BY <2>1
  <2>7. Filled(b) = [j \in 1 .. Pieces |-> Filled(b)[j]]
    BY <1>2, <2>1, FilledPieces
  <2>8. QED
    BY <2>1, <2>4, <2>5, <2>6, <2>7, <2>9
<1>3. QED
  BY <1>1, <1>2, BuffersAssumption DEF Listed

\* Where the descriptors of user memory end in the buffer: where its blocks do.
LEMMA PosUser ==
    ASSUME NEW b \in Buffers, Type[b] = "USER", NEW j \in 0 .. Len(SG[b])
    PROVE  Pos(b, j) = BytesUpTo(SG[b], j)
<1> DEFINE S == {n \in Nat : n <= Len(SG[b]) => Pos(b, n) = BytesUpTo(SG[b], n)}
<1>0. /\ Len(SG[b]) \in Nat /\ j \in Nat /\ j <= Len(SG[b])
      /\ Len(Filled(b)) = Len(SG[b]) /\ Sized(SG[b]) /\ Sized(Filled(b))
      /\ \A i \in 1 .. Len(SG[b]) : Filled(b)[i].len = SG[b][i].len
  <2>1. Len(SG[b]) \in Nat /\ Len(Filled(b)) = Len(SG[b]) /\ Sized(SG[b])
    BY BlocksSized, FilledUser
  <2>2. \A i \in 1 .. Len(SG[b]) : Filled(b)[i].len = SG[b][i].len
    BY FilledUser
  <2>3. QED
    BY <2>1, <2>2 DEF Sized
<1>1. 0 \in S
  BY <1>0, SumStep DEF Pos
<1>2. ASSUME NEW n \in Nat, n \in S
      PROVE  n + 1 \in S
  <2>1. CASE n + 1 <= Len(SG[b])
    <3>1. n + 1 \in 1 .. Len(SG[b]) /\ (n + 1) - 1 = n
      BY <2>1, <1>0
    <3>2. Pos(b, n + 1) = Pos(b, n) + Filled(b)[n + 1].len
      BY <1>0, <3>1, SumStep DEF Pos
    <3>3. BytesUpTo(SG[b], n + 1) = BytesUpTo(SG[b], n) + SG[b][n + 1].len
      BY <1>0, <3>1, SumStep
    <3>4. Pos(b, n) = BytesUpTo(SG[b], n) /\ Filled(b)[n + 1].len = SG[b][n + 1].len
      BY <1>0, <1>2, <3>1
    <3>5. QED
      BY <3>2, <3>3, <3>4
  <2>2. QED
    BY <2>1
<1>3. j \in S
  <2> HIDE DEF S
  <2>1. QED
    BY <1>0, <1>1, <1>2, Induction
<1>4. QED
  BY <1>0, <1>3

\* Where those of a kernel buffer in pieces end.
LEMMA PosPieces ==
    ASSUME NEW b \in Buffers, Type[b] = "KERNEL_PIECES", NEW j \in 0 .. Pieces
    PROVE  Pos(b, j) = IF j = Pieces THEN Size(b) ELSE j * Step(b)
<1> DEFINE S == {n \in Nat : n <= Pieces =>
                    Pos(b, n) = IF n = Pieces THEN Size(b) ELSE n * Step(b)}
<1>0. /\ Pieces \in Nat \ {0} /\ j \in Nat /\ j <= Pieces
      /\ Step(b) \in Nat /\ Size(b) \in Nat
      /\ Len(Filled(b)) = Pieces /\ Sized(Filled(b))
      /\ \A i \in 1 .. Pieces : Filled(b)[i].len =
            IF i = Pieces THEN Size(b) - (Pieces - 1) * Step(b) ELSE Step(b)
  <2>1. /\ Pieces \in Nat \ {0} /\ Step(b) \in Nat /\ Size(b) \in Nat
        /\ Len(Filled(b)) = Pieces /\ Sized(Filled(b))
    BY StepFits, BlocksSized, WordAssumption, FilledPieces, FilledFields DEF Listed, Sized
  <2>2. QED
    BY <2>1, FilledPieces
<1>1. 0 \in S
  BY <1>0, SumStep DEF Pos
<1>2. ASSUME NEW n \in Nat, n \in S
      PROVE  n + 1 \in S
  <2>1. CASE n + 1 <= Pieces
    <3>1. n + 1 \in 1 .. Pieces /\ (n + 1) - 1 = n /\ n # Pieces
      BY <2>1, <1>0
    <3>2. Pos(b, n + 1) = Pos(b, n) + Filled(b)[n + 1].len
      BY <1>0, <3>1, SumStep DEF Pos
    <3>3. Pos(b, n) = n * Step(b)
      BY <1>0, <1>2, <3>1
    <3>4. n * Step(b) + Step(b) = (n + 1) * Step(b) /\ n * Step(b) \in Nat
      BY <1>0, SMTT(30)
    <3>5. CASE n + 1 = Pieces
      <4>1. Filled(b)[n + 1].len = Size(b) - n * Step(b)
        BY <1>0, <3>1, <3>5
      <4>2. QED
        BY <1>0, <3>2, <3>3, <3>4, <3>5, <4>1
    <3>6. CASE n + 1 # Pieces
      BY <1>0, <3>1, <3>2, <3>3, <3>4, <3>6
    <3>7. QED
      BY <3>5, <3>6
  <2>2. QED
    BY <2>1
<1>3. j \in S
  <2> HIDE DEF S
  <2>1. QED
    BY <1>0, <1>1, <1>2, Induction
<1>4. QED
  BY <1>0, <1>3

\* The descriptors of a list follow each other and cover the buffer.
LEMMA PosSteps ==
    ASSUME NEW b, Listed(b)
    PROVE  /\ Pos(b, 0) = 0 /\ Pos(b, Len(Filled(b))) = Size(b)
           /\ \A j \in 0 .. Len(Filled(b)) : Pos(b, j) \in Nat
           /\ \A j \in 1 .. Len(Filled(b)) : Pos(b, j) = Pos(b, j - 1) + Filled(b)[j].len
           /\ \A j \in 0 .. Len(Filled(b)), i \in Nat : i <= j => Pos(b, i) <= Pos(b, j)
<1>1. b \in Buffers /\ Len(Filled(b)) \in Nat /\ Sized(Filled(b))
  BY FilledFields DEF Listed, Sized
<1>2. Pos(b, Len(Filled(b))) = Size(b)
  <2>1. CASE Type[b] = "USER"
    BY <1>1, <2>1, FilledUser, PosUser DEF Size
  <2>2. CASE Type[b] = "KERNEL_PIECES"
    BY <1>1, <2>2, FilledPieces, PosPieces
  <2>3. QED
    BY <1>1, <2>1, <2>2, BuffersAssumption DEF Listed
<1>3. \A j \in 0 .. Len(Filled(b)), i \in Nat : i <= j => Pos(b, i) <= Pos(b, j)
  <2>1. SUFFICES ASSUME NEW j \in 0 .. Len(Filled(b)), NEW i \in Nat, i <= j
                 PROVE  Pos(b, i) <= Pos(b, j)
    OBVIOUS
  <2>2. i \in 0 .. j
    BY <1>1, <2>1
  <2>3. QED
    BY <1>1, <2>2, SumMonotone DEF Pos
<1>4. QED
  BY <1>1, <1>2, <1>3, SumStep, SumNat DEF Pos

\* The bytes of a kernel buffer follow its address.
LEMMA KernelByte ==
    ASSUME NEW b \in Buffers, Type[b] # "USER", NEW k \in Nat, k < Size(b)
    PROVE  HostByte(b, k) = SG[b][1].addr + k
<1>1. /\ Len(SG[b]) = 1 /\ SG[b][1].addr \in Nat /\ Size(b) = SG[b][1].len
      /\ DOMAIN SG[b] = {1} /\ Sized(SG[b])
  <2>1. Len(SG[b]) = 1 /\ SG[b][1].addr \in Nat /\ Size(b) = SG[b][1].len
    BY OneBlock DEF Block
  <2>2. QED
    BY <2>1, BlocksSized
<1>2. BytesUpTo(SG[b], 0) = 0 /\ BytesUpTo(SG[b], 1) = Size(b) /\ 1 - 1 = 0
  BY <1>1, SumStep DEF Size
<1> DEFINE In(i) == BytesUpTo(SG[b], i - 1) <= k /\ k < BytesUpTo(SG[b], i)
<1>3. In(1)
  BY <1>2
<1>4. HostByte(b, k) = SG[b][CHOOSE i \in DOMAIN SG[b] : In(i)].addr + k
                          - BytesUpTo(SG[b], (CHOOSE i \in DOMAIN SG[b] : In(i)) - 1)
  BY DEF HostByte
<1> HIDE DEF In
<1>5. (CHOOSE i \in DOMAIN SG[b] : In(i)) = 1
  BY <1>1, <1>3
<1>6. HostByte(b, k) = SG[b][1].addr + k - 0
  BY <1>2, <1>4, <1>5
<1>7. QED
  BY <1>1, <1>6

\* The physical address of a byte of a buffer is that of its descriptor and how
\* far the byte is in it: the list describes the memory it was filled from.
LEMMA Layout ==
    ASSUME NEW b, Listed(b), NEW j \in 1 .. Len(Filled(b)), NEW k \in Nat,
           Pos(b, j - 1) <= k, k < Pos(b, j)
    PROVE  HostByte(b, k) = Filled(b)[j].addr + (k - Pos(b, j - 1))
<1>1. CASE Type[b] = "USER"
  <2>1. /\ b \in Buffers /\ Len(Filled(b)) = Len(SG[b]) /\ Len(SG[b]) \in Nat
        /\ DOMAIN SG[b] = 1 .. Len(SG[b]) /\ Filled(b)[j].addr = SG[b][j].addr
        /\ Sized(SG[b])
    BY <1>1, FilledUser, BlocksSized DEF Listed
  <2>2. \A i \in 0 .. Len(SG[b]) : Pos(b, i) = BytesUpTo(SG[b], i) /\ Pos(b, i) \in Nat
    BY <1>1, <2>1, PosUser, SumNat
  <2> DEFINE In(i) == BytesUpTo(SG[b], i - 1) <= k /\ k < BytesUpTo(SG[b], i)
  <2>3. In(j)
    BY <2>1, <2>2
  <2>4. ASSUME NEW i \in 1 .. Len(SG[b]), In(i) PROVE i = j
    <3>1. /\ i - 1 \in 0 .. Len(SG[b]) /\ i \in 0 .. Len(SG[b])
          /\ j - 1 \in 0 .. Len(SG[b]) /\ j \in 0 .. Len(SG[b])
      BY <2>1
    <3>2. CASE i < j
      <4>1. i \in 0 .. (j - 1)
        BY <2>1, <3>2
      <4>2. BytesUpTo(SG[b], i) <= BytesUpTo(SG[b], j - 1)
        BY <2>1, <3>1, <4>1, SumMonotone
      <4>3. QED
        BY <2>2, <2>3, <2>4, <3>1, <4>2
    <3>3. CASE j < i
      <4>1. j \in 0 .. (i - 1)
        BY <2>1, <3>3
      <4>2. BytesUpTo(SG[b], j) <= BytesUpTo(SG[b], i - 1)
        BY <2>1, <3>1, <4>1, SumMonotone
      <4>3. QED
        BY <2>2, <2>3, <2>4, <3>1, <4>2
    <3>4. QED
      BY <2>1, <3>2, <3>3
  <2>5. (CHOOSE i \in DOMAIN SG[b] : In(i)) = j
    BY <2>1, <2>3, <2>4
  <2>6. HostByte(b, k) = SG[b][j].addr + k - BytesUpTo(SG[b], j - 1)
    BY <2>5 DEF HostByte
  <2>7. SG[b][j].addr \in Nat /\ j - 1 \in 0 .. Len(SG[b])
    BY <2>1, BlocksSized DEF Block
  <2>8. QED
    BY <2>1, <2>2, <2>6, <2>7
<1>2. CASE Type[b] = "KERNEL_PIECES"
  <2>1. /\ b \in Buffers /\ Len(Filled(b)) = Pieces /\ Pieces \in Nat \ {0}
        /\ DOMAIN SG[b] = {1} /\ SG[b][1].addr \in Nat /\ Size(b) = SG[b][1].len
        /\ BytesUpTo(SG[b], 0) = 0 /\ BytesUpTo(SG[b], 1) = Size(b)
    <3>1. b \in Buffers /\ Len(Filled(b)) = Pieces /\ Pieces \in Nat \ {0}
      BY <1>2, FilledPieces, WordAssumption DEF Listed
    <3>2. Len(SG[b]) = 1 /\ SG[b][1].addr \in Nat /\ Size(b) = SG[b][1].len
      BY <1>2, <3>1, OneBlock DEF Block
    <3>3. DOMAIN SG[b] = {1} /\ Sized(SG[b])
      BY <3>1, <3>2, BlocksSized
    <3>4. BytesUpTo(SG[b], 0) = 0 /\ BytesUpTo(SG[b], 1) = Size(b)
      BY <3>1, <3>2, <3>3, SumStep DEF Size
    <3>5. QED
      BY <3>1, <3>2, <3>3, <3>4
  <2>2. Pos(b, j) <= Size(b)
    BY <2>1, PosSteps
  <2>3. HostByte(b, k) = SG[b][1].addr + k
    <3>1. j \in 0 .. Len(Filled(b)) /\ Size(b) \in Nat
      BY <2>1, BlocksSized
    <3>2. Pos(b, j) \in Nat
      BY <3>1, PosSteps
    <3>3. k < Size(b) /\ Type[b] # "USER"
      BY <1>2, <2>2, <3>1, <3>2
    <3>4. QED
      BY <2>1, <3>3, KernelByte
  <2>4. Pos(b, j - 1) = (j - 1) * Step(b)
    BY <1>2, <2>1, PosPieces
  <2>5. Filled(b)[j].addr = SG[b][1].addr + (j - 1) * Step(b)
    BY <1>2, <2>1, FilledPieces
  <2>6. Pos(b, j - 1) \in Nat
    BY <2>1, PosSteps
  <2>7. QED
    BY <2>1, <2>3, <2>4, <2>5, <2>6
<1>3. QED
  BY <1>1, <1>2, BuffersAssumption DEF Listed

-----------------------------------------------------------------------------
\* A descriptor.
Desc(a, x, y, p, z) == [addr |-> a, len |-> x, next |-> y, per |-> p, control |-> z]

\* Descriptor n of a list of L is d.
At(f, L, n, d) == DOMAIN f = 1 .. L /\ n \in 1 .. L /\ f[n] = d

\* Edits of descriptor n of a list: where it starts, its control word, its end.
StartEdit(f, g, n, aa, xx) == g = [f EXCEPT ![n].addr = aa, ![n].len = xx]
ControlEdit(f, g, n, zz) == g = [f EXCEPT ![n].control = zz]
EndEdit(f, g, n, xx, yy, zz) ==
    \/ g = [f EXCEPT ![n].len = xx, ![n].control = zz, ![n].next = yy]
    \/ g = [f EXCEPT ![n].len = xx, ![n].next = yy, ![n].control = zz]

\* The start of a descriptor is changed and nothing else.
LEMMA EditStart ==
    ASSUME NEW L, NEW f, NEW n,
           NEW a, NEW x, NEW y, NEW p, NEW z, At(f, L, n, Desc(a, x, y, p, z)),
           NEW aa, NEW xx, NEW g, StartEdit(f, g, n, aa, xx)
    PROVE  /\ g = [j \in 1 .. L |-> g[j]] /\ \A j \in 1 .. L : j # n => g[j] = f[j]
           /\ g[n] = Desc(aa, xx, y, p, z)
<1> DEFINE h == [f EXCEPT ![n].addr = aa]
<1>1. /\ DOMAIN h = 1 .. L /\ \A j \in 1 .. L : j # n => h[j] = f[j]
      /\ h[n] = [f[n] EXCEPT !.addr = aa]
  BY DEF At
<1>2. h[n] = Desc(aa, x, y, p, z)
  BY <1>1 DEF Desc, At
<1>3. g = [h EXCEPT ![n].len = xx]
  BY DEF StartEdit
<1> HIDE DEF h
<1>4. /\ g = [j \in 1 .. L |-> g[j]] /\ \A j \in 1 .. L : j # n => g[j] = h[j]
      /\ g[n] = [h[n] EXCEPT !.len = xx]
  BY <1>1, <1>3 DEF At
<1>5. g[n] = Desc(aa, xx, y, p, z)
  BY <1>2, <1>4 DEF Desc
<1>6. QED
  BY <1>1, <1>4, <1>5

\* Its control word is.
LEMMA EditControl ==
    ASSUME NEW L, NEW f, NEW n,
           NEW a, NEW x, NEW y, NEW p, NEW z, At(f, L, n, Desc(a, x, y, p, z)),
           NEW zz, NEW g, ControlEdit(f, g, n, zz)
    PROVE  /\ g = [j \in 1 .. L |-> g[j]] /\ \A j \in 1 .. L : j # n => g[j] = f[j]
           /\ g[n] = Desc(a, x, y, p, zz)
<1>1. /\ g = [j \in 1 .. L |-> g[j]] /\ \A j \in 1 .. L : j # n => g[j] = f[j]
      /\ g[n] = [f[n] EXCEPT !.control = zz]
  BY DEF ControlEdit, At
<1>2. g[n] = Desc(a, x, y, p, zz)
  BY <1>1 DEF Desc, At
<1>3. QED
  BY <1>1, <1>2

\* Its end is: length, link and control word.
LEMMA EditEnd ==
    ASSUME NEW L, NEW f, NEW n,
           NEW a, NEW x, NEW y, NEW p, NEW z, At(f, L, n, Desc(a, x, y, p, z)),
           NEW xx, NEW yy, NEW zz, NEW g, EndEdit(f, g, n, xx, yy, zz)
    PROVE  /\ g = [j \in 1 .. L |-> g[j]] /\ \A j \in 1 .. L : j # n => g[j] = f[j]
           /\ g[n] = Desc(a, xx, yy, p, zz)
<1> DEFINE h == [f EXCEPT ![n].len = xx]
           hc == [h EXCEPT ![n].control = zz]
           hn == [h EXCEPT ![n].next = yy]
<1>1. /\ DOMAIN h = 1 .. L /\ \A j \in 1 .. L : j # n => h[j] = f[j]
      /\ h[n] = [f[n] EXCEPT !.len = xx]
  BY DEF At
<1>2. h[n] = Desc(a, xx, y, p, z)
  BY <1>1 DEF Desc, At
<1>3. g = [hc EXCEPT ![n].next = yy] \/ g = [hn EXCEPT ![n].control = zz]
  BY DEF EndEdit
<1> HIDE DEF h
<1>4. /\ DOMAIN hc = 1 .. L /\ \A j \in 1 .. L : j # n => hc[j] = h[j]
      /\ hc[n] = [h[n] EXCEPT !.control = zz]
      /\ DOMAIN hn = 1 .. L /\ \A j \in 1 .. L : j # n => hn[j] = h[j]
      /\ hn[n] = [h[n] EXCEPT !.next = yy]
  BY <1>1 DEF At
<1>5. hc[n] = Desc(a, xx, y, p, zz) /\ hn[n] = Desc(a, xx, yy, p, z)
  BY <1>2, <1>4 DEF Desc
<1> HIDE DEF hc, hn
<1>6. CASE g = [hc EXCEPT ![n].next = yy]
  <2>1. /\ g = [j \in 1 .. L |-> g[j]] /\ \A j \in 1 .. L : j # n => g[j] = hc[j]
        /\ g[n] = [hc[n] EXCEPT !.next = yy]
    BY <1>4, <1>6 DEF At
  <2>2. g[n] = Desc(a, xx, yy, p, zz)
    BY <1>5, <2>1 DEF Desc
  <2>3. QED
    BY <1>1, <1>4, <2>1, <2>2
<1>7. CASE g = [hn EXCEPT ![n].control = zz]
  <2>1. /\ g = [j \in 1 .. L |-> g[j]] /\ \A j \in 1 .. L : j # n => g[j] = hn[j]
        /\ g[n] = [hn[n] EXCEPT !.control = zz]
    BY <1>4, <1>7 DEF At
  <2>2. g[n] = Desc(a, xx, yy, p, zz)
    BY <1>5, <2>1 DEF Desc
  <2>3. QED
    BY <1>1, <1>4, <2>1, <2>2
<1>8. QED
  BY <1>3, <1>6, <1>7

-----------------------------------------------------------------------------
\* Bytes o to o + bytes of a buffer, a transfer's, lie in the descriptors i to n.
Span(b, o, bytes, i, n) ==
    /\ o \in Nat /\ bytes \in Nat \ {0}
    /\ n \in 1 .. Len(Filled(b)) /\ i \in 1 .. n
    /\ Pos(b, i - 1) <= o /\ o <= Pos(b, i)
    /\ o + bytes <= Pos(b, n)
    /\ i < n => Pos(b, n - 1) < o + bytes

\* Where the transfer enters a descriptor and where it leaves it.
Enter(b, o, i, j) == IF j = i THEN o ELSE Pos(b, j - 1)
Leave(b, o, bytes, n, j) == IF j = n THEN o + bytes ELSE Pos(b, j)

\* The list, cut for the transfer.
CutLen(b, o, bytes, i, n, j) ==
    IF j = i \/ j = n THEN Leave(b, o, bytes, n, j) - Enter(b, o, i, j) ELSE Filled(b)[j].len

Cut(b, o, bytes, i, n) ==
    [j \in 1 .. Len(Filled(b)) |->
        Desc(IF j = i THEN Filled(b)[j].addr + (o - Pos(b, i - 1)) ELSE Filled(b)[j].addr,
             CutLen(b, o, bytes, i, n, j),
             IF j = n THEN 0 ELSE NextOf(j, Len(Filled(b))),
             0,
             IF j = n THEN {"V", "LAST"} ELSE IF j = i + 1 /\ j < n THEN {"V"} ELSE {})]

\* The first descriptor, as the board gets it.
First(b, o, bytes, i, n) ==
    Desc(Filled(b)[i].addr + (o - Pos(b, i - 1)), CutLen(b, o, bytes, i, n, i),
         IF i = n THEN 0 ELSE NextOf(i, Len(Filled(b))), BoardAddr * Word,
         {"V", "UPA"} \cup (IF i = n THEN {"LAST"} ELSE {}))

\* What is saved of it.
Kept(b, o, i, n) ==
    [buf |-> b, init |-> i, last |-> n, offset |-> o - Pos(b, i - 1), length |-> Filled(b)[n].len]

\* Min is the least of a set of natural numbers.
LEMMA MinIsLeast ==
    ASSUME NEW S \in SUBSET Nat, S # {}
    PROVE  Min(S) \in S /\ \A m \in S : Min(S) <= m
  BY LeastElement DEF Min

\* sendDescriptorList finds the descriptors that a part of the buffer lies in: the
\* searches end before the end of the list.
LEMMA SearchStops ==
    ASSUME NEW b, Listed(b), NEW o \in Nat, NEW bytes \in Nat \ {0}, o + bytes <= Size(b)
    PROVE  Span(b, o, bytes, InitDescriptor(Filled(b), o),
                LastDescriptor(Filled(b), o, bytes))
<1> DEFINE l == Filled(b)
           L == Len(Filled(b))
           i == InitDescriptor(l, o)
           n == LastDescriptor(l, o, bytes)
<1>0. /\ L \in Nat \ {0} /\ DOMAIN l = 1 .. L /\ Pos(b, 0) = 0 /\ Pos(b, L) = Size(b)
      /\ \A j \in 0 .. L : Pos(b, j) \in Nat
      /\ Size(b) \in Nat
  <2>1. L \in Nat \ {0} /\ DOMAIN l = 1 .. L
    BY FilledFields
  <2>2. QED
    BY <2>1, PosSteps, BlocksSized DEF Listed
<1> HIDE DEF l, L
<1>a. o <= Pos(b, L) /\ o + bytes <= Pos(b, L)
  BY <1>0
<1>b. L \in 1 .. L
  BY <1>0
<1>1. i \in 1 .. L /\ Pos(b, i - 1) <= o /\ o <= Pos(b, i)
  <2>1. CASE o = 0
    <3>1. i = 1 /\ 1 - 1 = 0
      BY <2>1 DEF InitDescriptor
    <3>2. QED
      BY <1>0, <2>1, <3>1
  <2>2. CASE o # 0
    <3> DEFINE S == {j \in DOMAIN l : o <= BytesUpTo(l, j)} \cup {Len(l) + 1}
    <3>0. S = {j \in 1 .. L : o <= Pos(b, j)} \cup {L + 1}
      BY <1>0 DEF Pos, l, L
    <3>1. i = Min(S)
      BY <2>2 DEF InitDescriptor, l, L
    <3> HIDE DEF S
    <3>2. L \in S /\ S \subseteq Nat
      <4>1. L \in S
        BY <1>a, <1>b, <3>0
      <4>2. \A m \in S : m \in Nat
        BY <1>0, <3>0
      <4>3. QED
        BY <4>1, <4>2
    <3>3. i \in S /\ \A m \in S : i <= m
      <4> HIDE DEF i
      <4>1. QED
        BY <3>1, <3>2, MinIsLeast
    <3> HIDE DEF i
    <3>4. i \in 1 .. L /\ o <= Pos(b, i)
      <4>1. i # L + 1
        BY <1>0, <3>2, <3>3
      <4>2. QED
        BY <3>0, <3>3, <4>1
    <3>5. CASE i = 1
      <4>1. i - 1 = 0
        BY <3>5
      <4>2. QED
        BY <1>0, <3>4, <4>1
    <3>6. CASE i # 1
      <4>1. i - 1 \in 1 .. L /\ ~ (i <= i - 1)
        BY <1>0, <3>4, <3>6
      <4>2. i - 1 \notin S
        BY <3>3, <4>1
      <4>3. ~ (o <= Pos(b, i - 1))
        BY <1>0, <3>0, <4>1, <4>2
      <4>4. Pos(b, i - 1) \in Nat
        BY <1>0, <4>1
      <4>5. QED
        BY <3>4, <4>3, <4>4
    <3>7. QED
      BY <3>5, <3>6
  <2>3. QED
    BY <2>1, <2>2
<1> HIDE DEF i
<1>2. /\ n \in i .. L /\ o + bytes <= Pos(b, n)
      /\ i < n => Pos(b, n - 1) < o + bytes
  <2> DEFINE S == {j \in i .. Len(l) : o + bytes <= BytesUpTo(l, j)} \cup {Len(l) + 1}
  <2>0. S = {j \in i .. L : o + bytes <= Pos(b, j)} \cup {L + 1}
    BY DEF Pos, l, L
  <2>1. n = Min(S)
    BY DEF LastDescriptor, i, l, L
  <2> HIDE DEF S, n
  <2>2. L \in S /\ S \subseteq Nat
    <3>1. L \in i .. L
      BY <1>0, <1>1
    <3>2. L \in S
      BY <1>a, <2>0, <3>1
    <3>3. \A m \in S : m \in Nat
      BY <1>0, <1>1, <2>0
    <3>4. QED
      BY <3>2, <3>3
  <2>3. n \in S /\ \A m \in S : n <= m
    BY <2>1, <2>2, MinIsLeast
  <2>4. n \in i .. L /\ o + bytes <= Pos(b, n)
    <3>1. n # L + 1
      BY <1>0, <2>2, <2>3
    <3>2. QED
      BY <2>0, <2>3, <3>1
  <2>5. ASSUME i < n PROVE Pos(b, n - 1) < o + bytes
    <3>1. n - 1 \in i .. L /\ ~ (n <= n - 1) /\ n - 1 \in 0 .. L
      BY <1>0, <1>1, <2>4, <2>5
    <3>2. n - 1 \notin S
      BY <2>3, <3>1
    <3>3. ~ (o + bytes <= Pos(b, n - 1))
      BY <1>0, <2>0, <3>1, <3>2
    <3>4. QED
      BY <1>0, <3>1, <3>3
  <2>6. QED
    BY <2>4, <2>5
<1> HIDE DEF n
<1>3. n \in 1 .. L /\ i \in 1 .. n
  BY <1>0, <1>1, <1>2
<1>4. QED
  BY <1>1, <1>2, <1>3 DEF Span, i, n, l, L

\* All of the buffer lies in all of its descriptors.
LEMMA WholeSpan ==
    ASSUME NEW b, Listed(b)
    PROVE  Span(b, 0, Size(b), 1, Len(Filled(b)))
<1>1. /\ Len(Filled(b)) \in Nat \ {0} /\ Filled(b)[Len(Filled(b))].len > 0
      /\ Filled(b)[Len(Filled(b))].len \in Nat
  BY FilledFields
<1>2. /\ Pos(b, 0) = 0 /\ Pos(b, Len(Filled(b))) = Size(b) /\ Pos(b, 1) \in Nat
      /\ Pos(b, Len(Filled(b)) - 1) \in Nat /\ Size(b) \in Nat
      /\ Size(b) = Pos(b, Len(Filled(b)) - 1) + Filled(b)[Len(Filled(b))].len
  BY <1>1, PosSteps
<1>3. 1 - 1 = 0
  OBVIOUS
<1>4. Size(b) # 0 /\ Pos(b, Len(Filled(b)) - 1) < Size(b)
  BY <1>1, <1>2
<1>5. QED
  BY <1>1, <1>2, <1>3, <1>4 DEF Span

\* A descriptor of a filled list, as a record.
LEMMA FilledDesc ==
    ASSUME NEW b, Listed(b), NEW j \in 1 .. Len(Filled(b))
    PROVE  Filled(b)[j] = Desc(Filled(b)[j].addr, Filled(b)[j].len,
                               NextOf(j, Len(Filled(b))), 0, {})
  BY FilledFields DEF Desc

\* The lengths of the descriptors of a transfer.
LEMMA SpanFacts ==
    ASSUME NEW b, Listed(b), NEW o, NEW bytes, NEW i, NEW n, Span(b, o, bytes, i, n)
    PROVE  /\ Len(Filled(b)) \in Nat \ {0} /\ i \in 1 .. n /\ n \in 1 .. Len(Filled(b))
           /\ i \in 1 .. Len(Filled(b))
           /\ o - Pos(b, i - 1) \in Nat
           /\ \A j \in 1 .. Len(Filled(b)) : CutLen(b, o, bytes, i, n, j) \in Int
           /\ \A j \in i .. n : CutLen(b, o, bytes, i, n, j) \in Nat
           /\ \A j \in i .. n : CutLen(b, o, bytes, i, n, j)
                    = Leave(b, o, bytes, n, j) - Enter(b, o, i, j)
           /\ \A j \in 1 .. Len(Filled(b)) : j # n /\ j # i =>
                   CutLen(b, o, bytes, i, n, j) = Filled(b)[j].len
           /\ i # n => CutLen(b, o, bytes, i, n, i) = Filled(b)[i].len - (o - Pos(b, i - 1))
<1> DEFINE L == Len(Filled(b))
<1>1. /\ L \in Nat \ {0} /\ i \in 1 .. n /\ n \in 1 .. L /\ i \in 1 .. L
      /\ i - 1 \in 0 .. L /\ n - 1 \in 0 .. L /\ o \in Nat /\ bytes \in Nat \ {0}
  <2>1. L \in Nat \ {0}
    BY FilledFields
  <2>2. QED
    BY <2>1 DEF Span
<1>2. /\ \A j \in 0 .. L : Pos(b, j) \in Nat
      /\ \A j \in 1 .. L : Pos(b, j) = Pos(b, j - 1) + Filled(b)[j].len /\ Filled(b)[j].len \in Nat
      /\ \A j \in 0 .. L, k \in Nat : k <= j => Pos(b, k) <= Pos(b, j)
  BY PosSteps, FilledFields
<1>3. /\ o - Pos(b, i - 1) \in Nat /\ Pos(b, i - 1) \in Nat
      /\ Pos(b, i) = Pos(b, i - 1) + Filled(b)[i].len /\ Filled(b)[i].len \in Nat
  <2>1. Pos(b, i - 1) <= o
    BY DEF Span
  <2>2. /\ Pos(b, i - 1) \in Nat
        /\ Pos(b, i) = Pos(b, i - 1) + Filled(b)[i].len /\ Filled(b)[i].len \in Nat
    BY <1>1, <1>2
  <2>3. QED
    BY <1>1, <2>1, <2>2
<1>4. ASSUME NEW j \in 1 .. L
      PROVE  CutLen(b, o, bytes, i, n, j) \in Int
  <2>1. j \in 0 .. L /\ j - 1 \in 0 .. L
    BY <1>1
  <2>2. Leave(b, o, bytes, n, j) \in Int /\ Enter(b, o, i, j) \in Int
    BY <1>1, <1>2, <2>1 DEF Leave, Enter
  <2>3. QED
    BY <1>2, <2>2 DEF CutLen
<1>5. ASSUME NEW j \in i .. n
      PROVE  /\ CutLen(b, o, bytes, i, n, j) \in Nat
             /\ CutLen(b, o, bytes, i, n, j) = Leave(b, o, bytes, n, j) - Enter(b, o, i, j)
  <2>1. /\ j \in 1 .. L /\ j \in 0 .. L /\ j - 1 \in 0 .. L /\ j \in Nat /\ i \in Nat /\ n \in Nat
    BY <1>1
  <2>2. /\ Pos(b, j) \in Nat /\ Pos(b, j - 1) \in Nat /\ Filled(b)[j].len \in Nat
        /\ Pos(b, j) = Pos(b, j - 1) + Filled(b)[j].len
    BY <1>2, <2>1
  <2>3. CutLen(b, o, bytes, i, n, j) = Leave(b, o, bytes, n, j) - Enter(b, o, i, j)
    BY <2>2 DEF CutLen, Leave, Enter
  <2>4. CASE j = i /\ j = n
    BY <1>1, <2>3, <2>4 DEF Leave, Enter
  <2>5. CASE j = i /\ j # n
    <3>1. o <= Pos(b, j)
      BY <2>5 DEF Span
    <3>2. QED
      BY <1>1, <2>2, <2>3, <2>5, <3>1 DEF Leave, Enter
  <2>6. CASE j # i /\ j = n
    <3>1. Pos(b, j - 1) < o + bytes
      BY <2>1, <2>6 DEF Span
    <3>2. QED
      BY <1>1, <2>2, <2>3, <2>6, <3>1 DEF Leave, Enter
  <2>7. CASE j # i /\ j # n
    BY <2>2, <2>3, <2>7 DEF Leave, Enter
  <2>8. QED
    BY <2>3, <2>4, <2>5, <2>6, <2>7
<1>6. i # n => CutLen(b, o, bytes, i, n, i) = Filled(b)[i].len - (o - Pos(b, i - 1))
  BY <1>1, <1>3 DEF CutLen, Enter, Leave
<1>7. \A j \in 1 .. L : j # n /\ j # i => CutLen(b, o, bytes, i, n, j) = Filled(b)[j].len
  BY DEF CutLen
<1>8. QED
  BY <1>1, <1>3, <1>4, <1>5, <1>6, <1>7

\* restoreSavedData undoes the cut: what is kept of a transfer is enough to get the
\* filled list back, the first and the last descriptor being the same included.
LEMMA RestoreUndoes ==
    ASSUME NEW b, Listed(b), NEW o, NEW bytes, NEW i, NEW n, Span(b, o, bytes, i, n)
    PROVE  Restored(Cut(b, o, bytes, i, n), Kept(b, o, i, n)) = Filled(b)
<1> DEFINE F == Filled(b)
           L == Len(Filled(b))
           C == Cut(b, o, bytes, i, n)
           skip == o - Pos(b, i - 1)
           len(j) == CutLen(b, o, bytes, i, n, j)
           next(j) == IF j = n THEN 0 ELSE NextOf(j, L)
           control(j) == IF j = n THEN {"V", "LAST"} ELSE IF j = i + 1 /\ j < n THEN {"V"} ELSE {}
           l1 == IF skip # 0 THEN [C EXCEPT ![i].addr = @ - skip, ![i].len = @ + skip] ELSE C
           l2 == IF i # Len(C) THEN [l1 EXCEPT ![i + 1].control = {}] ELSE l1
           l3 == [l2 EXCEPT ![n].len = F[n].len, ![n].control = {}, ![n].next = NextOf(n, Len(C))]
<1>1. Restored(C, Kept(b, o, i, n)) = l3
  BY DEF Restored, Kept
<1>2. /\ L \in Nat \ {0} /\ i \in 1 .. n /\ n \in 1 .. L /\ i \in 1 .. L /\ skip \in Nat
      /\ i \in Nat /\ n \in Nat
      /\ \A j \in 1 .. L : len(j) \in Int /\ F[j].addr \in Nat /\ F[j].len \in Nat
      /\ \A j \in 1 .. L : j # n => F[j].len = IF j = i THEN len(j) + skip ELSE len(j)
  <2>1. /\ L \in Nat \ {0} /\ i \in 1 .. n /\ n \in 1 .. L /\ i \in 1 .. L /\ skip \in Nat
        /\ \A j \in 1 .. L : len(j) \in Int
        /\ \A j \in 1 .. L : j # n /\ j # i => len(j) = F[j].len
        /\ i # n => len(i) = F[i].len - skip
    BY SpanFacts
  <2>2. \A j \in 1 .. L : F[j].addr \in Nat /\ F[j].len \in Nat
    BY FilledFields
  <2> HIDE DEF len, F, L, skip
  <2>3. QED
    BY <2>1, <2>2
<1>3. /\ Len(C) = L /\ DOMAIN C = 1 .. L /\ C = [j \in 1 .. L |-> C[j]]
      /\ \A j \in 1 .. L : C[j] = Desc(IF j = i THEN F[j].addr + skip ELSE F[j].addr,
                                     len(j), next(j), 0, control(j))
  BY <1>2 DEF Cut
<1>4. F = [j \in 1 .. L |-> F[j]] /\ \A j \in 1 .. L :
         F[j] = Desc(F[j].addr, F[j].len, NextOf(j, L), 0, {})
  BY FilledFields, FilledDesc
<1> HIDE DEF C, skip, F, L, len
<1>5. /\ DOMAIN l1 = 1 .. L
      /\ \A j \in 1 .. L : l1[j] =
             Desc(F[j].addr, IF j = i THEN len(j) + skip ELSE len(j), next(j), 0, control(j))
  <2> HIDE DEF next, control
  <2>1. CASE skip = 0
    <3>1. l1 = C /\ \A j \in 1 .. L : F[j].addr + skip = F[j].addr /\ len(j) + skip = len(j)
      BY <1>2, <2>1
    <3>2. QED
      BY <1>3, <3>1
  <2>2. CASE skip # 0
    <3>1. At(C, L, i, Desc(F[i].addr + skip, len(i), next(i), 0, control(i)))
      BY <1>2, <1>3 DEF At
    <3>2. C[i].addr - skip = F[i].addr /\ C[i].len + skip = len(i) + skip
      BY <1>2, <3>1 DEF Desc, At
    <3>3. l1 = [C EXCEPT ![i].addr = C[i].addr - skip, ![i].len = C[i].len + skip]
      BY <2>2
    <3>4. StartEdit(C, l1, i, F[i].addr, len(i) + skip)
      BY <3>2, <3>3 DEF StartEdit
    <3>5. /\ l1 = [j \in 1 .. L |-> l1[j]] /\ \A j \in 1 .. L : j # i => l1[j] = C[j]
          /\ l1[i] = Desc(F[i].addr, len(i) + skip, next(i), 0, control(i))
      <4> HIDE DEF l1
      <4>1. QED
        BY <1>2, <1>3, <3>1, <3>4, EditStart
    <3> HIDE DEF l1
    <3>6. QED
      BY <1>3, <3>5
  <2>3. QED
    BY <2>1, <2>2
<1> HIDE DEF l1
<1>6. /\ DOMAIN l2 = 1 .. L
      /\ \A j \in 1 .. L : l2[j] =
             Desc(F[j].addr, IF j = i THEN len(j) + skip ELSE len(j), next(j), 0,
                  IF j = i + 1 THEN {} ELSE control(j))
  <2> HIDE DEF next, control
  <2>1. CASE i # L
    <3>1. PICK k : k = i + 1
      OBVIOUS
    <3>2. ControlEdit(l1, l2, k, {}) /\ k \in 1 .. L /\ k # i
      BY <1>2, <1>3, <2>1, <3>1 DEF ControlEdit
    <3>3. At(l1, L, k, Desc(F[k].addr, len(k), next(k), 0, control(k)))
      BY <1>5, <3>2 DEF At
    <3> HIDE DEF l2
    <3>4. /\ l2 = [j \in 1 .. L |-> l2[j]] /\ \A j \in 1 .. L : j # k => l2[j] = l1[j]
          /\ l2[k] = Desc(F[k].addr, len(k), next(k), 0, {})
      BY <3>2, <3>3, EditControl
    <3>5. QED
      BY <1>5, <3>1, <3>2, <3>4
  <2>2. CASE i = L
    <3>1. l2 = l1 /\ i + 1 \notin 1 .. L
      BY <1>2, <1>3, <2>2
    <3>2. QED
      BY <1>5, <3>1
  <2>3. QED
    BY <2>1, <2>2
<1> HIDE DEF l2
<1>7. /\ l3 = [j \in 1 .. L |-> l3[j]] /\ \A j \in 1 .. L : j # n => l3[j] = l2[j]
      /\ l3[n] = Desc(F[n].addr, F[n].len, NextOf(n, L), 0, {})
  <2> HIDE DEF next, control
  <2>1. EndEdit(l2, l3, n, F[n].len, NextOf(n, L), {})
    BY <1>3 DEF EndEdit
  <2> HIDE DEF l3
  <2> DEFINE x == IF n = i THEN len(n) + skip ELSE len(n)
             z == IF n = i + 1 THEN {} ELSE control(n)
  <2>2. At(l2, L, n, Desc(F[n].addr, x, next(n), 0, z))
    BY <1>2, <1>6 DEF At
  <2> HIDE DEF x, z
  <2>3. QED
    BY <1>2, <1>6, <2>1, <2>2, EditEnd
<1> HIDE DEF l3
<1>8. ASSUME NEW j \in 1 .. L PROVE l3[j] = F[j]
  <2>1. CASE j = n
    BY <1>4, <1>7, <2>1
  <2>2. CASE j # n
    <3>1. next(j) = NextOf(j, L) /\ (j # i + 1 => control(j) = {})
      BY <2>2
    <3>2. F[j].len = IF j = i THEN len(j) + skip ELSE len(j)
      BY <1>2, <2>2
    <3>3. (IF j = i + 1 THEN {} ELSE control(j)) = {}
      BY <3>1
    <3> HIDE DEF next, control
    <3>4. l3[j] = Desc(F[j].addr, IF j = i THEN len(j) + skip ELSE len(j), next(j), 0,
                       IF j = i + 1 THEN {} ELSE control(j))
      BY <1>6, <1>7, <2>2
    <3>5. F[j] = Desc(F[j].addr, F[j].len, NextOf(j, L), 0, {})
      BY <1>4
    <3>6. QED
      BY <3>1, <3>2, <3>3, <3>4, <3>5
  <2>3. QED
    BY <2>1, <2>2
<1>9. l3 = F
  BY <1>4, <1>7, <1>8
<1>10. QED
  BY <1>1, <1>9 DEF F, C

\* The editing of a list for a part of its buffer.
PartEdit(l, i, n, len, skip) ==
    LET l1 == IF n > Len(l) THEN l
              ELSE [l EXCEPT ![n].len = len, ![n].next = 0, ![n].control = {"V", "LAST"}]
        l2 == IF i + 1 < n THEN [l1 EXCEPT ![i + 1].control = {"V"}] ELSE l1
    IN  [l2 EXCEPT ![i].addr = @ + skip, ![i].len = IF i = n THEN @ ELSE @ - skip]

\* The edits of sendDescriptorList for a part of the buffer cut the list.
LEMMA PartEdited ==
    ASSUME NEW b, Listed(b), NEW o, NEW bytes, NEW i, NEW n, Span(b, o, bytes, i, n)
    PROVE  PartEdit(Filled(b), i, n, CutLen(b, o, bytes, i, n, n), o - Pos(b, i - 1))
              = Cut(b, o, bytes, i, n)
<1> DEFINE F == Filled(b)
           L == Len(Filled(b))
           C == Cut(b, o, bytes, i, n)
           skip == o - Pos(b, i - 1)
           len(j) == CutLen(b, o, bytes, i, n, j)
           next(j) == IF j = n THEN 0 ELSE NextOf(j, L)
           control(j) == IF j = n THEN {"V", "LAST"} ELSE IF j = i + 1 /\ j < n THEN {"V"} ELSE {}
           l1 == [F EXCEPT ![n].len = len(n), ![n].next = 0, ![n].control = {"V", "LAST"}]
           l2 == IF i + 1 < n THEN [l1 EXCEPT ![i + 1].control = {"V"}] ELSE l1
           l3 == [l2 EXCEPT ![i].addr = @ + skip, ![i].len = IF i = n THEN @ ELSE @ - skip]
<1>1. PartEdit(F, i, n, len(n), skip) = l3
  <2>1. n \in 1 .. L /\ L \in Nat
    BY SpanFacts
  <2>2. ~ (n > L)
    BY <2>1
  <2> HIDE DEF F, L, len, skip
  <2>3. ~ (n > Len(F))
    BY <2>2 DEF F, L
  <2>4. QED
    BY <2>3 DEF PartEdit
<1>2. /\ L \in Nat \ {0} /\ i \in 1 .. n /\ n \in 1 .. L /\ i \in 1 .. L /\ skip \in Nat
      /\ i \in Nat /\ n \in Nat
      /\ \A j \in 1 .. L : len(j) \in Int /\ F[j].addr \in Nat /\ F[j].len \in Nat
      /\ \A j \in 1 .. L : j # n => len(j) = IF j = i THEN F[j].len - skip ELSE F[j].len
  <2>1. /\ L \in Nat \ {0} /\ i \in 1 .. n /\ n \in 1 .. L /\ i \in 1 .. L /\ skip \in Nat
        /\ \A j \in 1 .. L : len(j) \in Int
        /\ \A j \in 1 .. L : j # n /\ j # i => len(j) = F[j].len
        /\ i # n => len(i) = F[i].len - skip
    BY SpanFacts
  <2>2. \A j \in 1 .. L : F[j].addr \in Nat /\ F[j].len \in Nat
    BY FilledFields
  <2> HIDE DEF len, F, L, skip
  <2>3. QED
    BY <2>1, <2>2
<1>3. /\ C = [j \in 1 .. L |-> C[j]]
      /\ \A j \in 1 .. L : C[j] = Desc(IF j = i THEN F[j].addr + skip ELSE F[j].addr,
                                     len(j), next(j), 0, control(j))
  BY <1>2 DEF Cut
<1>4. DOMAIN F = 1 .. L /\ \A j \in 1 .. L :
         F[j] = Desc(F[j].addr, F[j].len, NextOf(j, L), 0, {})
  BY FilledFields, FilledDesc
<1> HIDE DEF C, skip, F, L, len
<1>5. /\ l1 = [j \in 1 .. L |-> l1[j]] /\ \A j \in 1 .. L : j # n => l1[j] = F[j]
      /\ l1[n] = Desc(F[n].addr, len(n), 0, 0, {"V", "LAST"})
  <2>1. At(F, L, n, Desc(F[n].addr, F[n].len, NextOf(n, L), 0, {}))
    BY <1>2, <1>4 DEF At
  <2>2. EndEdit(F, l1, n, len(n), 0, {"V", "LAST"})
    BY DEF EndEdit
  <2> HIDE DEF l1
  <2>3. QED
    BY <2>1, <2>2, EditEnd
<1> HIDE DEF l1
<1>6. /\ DOMAIN l2 = 1 .. L
      /\ \A j \in 1 .. L : l2[j] =
            Desc(F[j].addr, IF j = n THEN len(j) ELSE F[j].len, next(j), 0, control(j))
  <2>1. \A j \in 1 .. L : l1[j] =
            Desc(F[j].addr, IF j = n THEN len(j) ELSE F[j].len, next(j), 0,
                 IF j = n THEN {"V", "LAST"} ELSE {})
    <3>1. SUFFICES ASSUME NEW j \in 1 .. L
                   PROVE  l1[j] = Desc(F[j].addr, IF j = n THEN len(j) ELSE F[j].len, next(j), 0,
                                       IF j = n THEN {"V", "LAST"} ELSE {})
      OBVIOUS
    <3>2. CASE j = n
      BY <1>5, <3>2
    <3>3. CASE j # n
      BY <1>4, <1>5, <3>3
    <3>4. QED
      BY <3>2, <3>3
  <2>2. CASE i + 1 < n
    <3>1. PICK k : k = i + 1
      OBVIOUS
    <3>2. ControlEdit(l1, l2, k, {"V"}) /\ k \in 1 .. L /\ k # n /\ k < n
      BY <1>2, <2>2, <3>1 DEF ControlEdit
    <3>3. At(l1, L, k, Desc(F[k].addr, F[k].len, next(k), 0, {}))
      BY <1>5, <2>1, <3>2 DEF At
    <3> HIDE DEF l2
    <3>4. /\ l2 = [j \in 1 .. L |-> l2[j]] /\ \A j \in 1 .. L : j # k => l2[j] = l1[j]
          /\ l2[k] = Desc(F[k].addr, F[k].len, next(k), 0, {"V"})
      BY <3>2, <3>3, EditControl
    <3>5. \A j \in 1 .. L : j # k => control(j) = IF j = n THEN {"V", "LAST"} ELSE {}
      BY <3>1
    <3>6. control(k) = {"V"}
      BY <3>1, <3>2
    <3> HIDE DEF control, next
    <3>7. QED
      BY <2>1, <3>2, <3>4, <3>5, <3>6
  <2>3. CASE ~ (i + 1 < n)
    <3>1. l2 = l1
      BY <2>3
    <3>2. \A j \in 1 .. L : control(j) = IF j = n THEN {"V", "LAST"} ELSE {}
      BY <2>3
    <3> HIDE DEF l2, control, next
    <3>3. QED
      BY <1>5, <2>1, <3>1, <3>2
  <2>4. QED
    BY <2>2, <2>3
<1> HIDE DEF l2
<1>7. /\ l3 = [j \in 1 .. L |-> l3[j]] /\ \A j \in 1 .. L : j # i => l3[j] = l2[j]
      /\ l3[i] = Desc(F[i].addr + skip, len(i), next(i), 0, control(i))
  <2> HIDE DEF next, control
  <2> DEFINE x == IF i = n THEN len(i) ELSE F[i].len
  <2>1. At(l2, L, i, Desc(F[i].addr, x, next(i), 0, control(i)))
    BY <1>2, <1>6 DEF At
  <2>2. l2[i].addr + skip = F[i].addr + skip /\ (IF i = n THEN l2[i].len ELSE l2[i].len - skip) = len(i)
    BY <1>2, <2>1 DEF Desc, At
  <2>3. l3 = [l2 EXCEPT ![i].addr = l2[i].addr + skip,
                        ![i].len = IF i = n THEN l2[i].len ELSE l2[i].len - skip]
    OBVIOUS
  <2>4. StartEdit(l2, l3, i, F[i].addr + skip, len(i))
    BY <2>2, <2>3 DEF StartEdit
  <2> HIDE DEF l3, x
  <2>5. QED
    BY <2>1, <2>4, EditStart
<1> HIDE DEF l3
<1>8. ASSUME NEW j \in 1 .. L PROVE l3[j] = C[j]
  <2> HIDE DEF next, control
  <2>1. CASE j = i
    BY <1>3, <1>7, <2>1
  <2>2. CASE j # i
    <3>1. len(j) = IF j = n THEN len(j) ELSE F[j].len
      BY <1>2, <2>2
    <3>2. QED
      BY <1>3, <1>6, <1>7, <2>2, <3>1
  <2>3. QED
    BY <2>1, <2>2
<1>9. l3 = C
  BY <1>3, <1>7, <1>8
<1>10. QED
  BY <1>1, <1>9 DEF F, C, L, skip, len

\* The editing for all of it.
WholeEdit(l, n) ==
    LET l1 == IF n > 2 THEN [l EXCEPT ![2].control = {"V"}] ELSE l
    IN  [l1 EXCEPT ![n].control = {"V", "LAST"}]

\* So do those for all of it, which do not touch addresses and lengths.
LEMMA WholeEdited ==
    ASSUME NEW b, Listed(b)
    PROVE  /\ WholeEdit(Filled(b), Len(Filled(b))) = Cut(b, 0, Size(b), 1, Len(Filled(b)))
           /\ CutLen(b, 0, Size(b), 1, Len(Filled(b)), 1) = Filled(b)[1].len
           /\ Pos(b, 1 - 1) = 0
<1> DEFINE F == Filled(b)
           L == Len(Filled(b))
           C == Cut(b, 0, Size(b), 1, L)
           len(j) == CutLen(b, 0, Size(b), 1, L, j)
           next(j) == IF j = L THEN 0 ELSE NextOf(j, L)
           control(j) == IF j = L THEN {"V", "LAST"} ELSE IF j = 1 + 1 /\ j < L THEN {"V"} ELSE {}
           l1 == IF L > 2 THEN [F EXCEPT ![2].control = {"V"}] ELSE F
           l2 == [l1 EXCEPT ![L].control = {"V", "LAST"}]
<1>1. WholeEdit(F, L) = l2
  BY DEF WholeEdit
<1>2. /\ L \in Nat \ {0} /\ 1 \in 1 .. L /\ L \in 1 .. L
      /\ \A j \in 1 .. L : F[j].addr \in Nat /\ F[j].len \in Nat
      /\ F = [j \in 1 .. L |-> F[j]]
      /\ \A j \in 1 .. L : F[j] = Desc(F[j].addr, F[j].len, NextOf(j, L), 0, {})
  BY FilledFields, FilledDesc
<1>3. Pos(b, 1 - 1) = 0 /\ Pos(b, L) = Size(b) /\ Size(b) \in Nat /\ 1 - 1 = 0
  BY PosSteps, BlocksSized DEF Listed
<1>4. /\ \A j \in 1 .. L : Pos(b, j) = Pos(b, j - 1) + F[j].len
      /\ \A j \in 1 .. L : Pos(b, j) \in Nat /\ Pos(b, j - 1) \in Nat
  <2>1. \A j \in 1 .. L : j \in 0 .. L /\ j - 1 \in 0 .. L
    BY <1>2
  <2>2. QED
    BY <2>1, PosSteps
<1> HIDE DEF F, L
<1>5. \A j \in 1 .. L : len(j) = F[j].len
  <2>1. SUFFICES ASSUME NEW j \in 1 .. L PROVE len(j) = F[j].len
    OBVIOUS
  <2>2. CASE j = 1
    BY <1>2, <1>3, <1>4, <2>2 DEF CutLen, Leave, Enter, F
  <2>3. CASE j # 1
    BY <1>2, <1>3, <1>4, <2>3 DEF CutLen, Leave, Enter, F
  <2>4. QED
    BY <2>2, <2>3
<1>6. /\ C = [j \in 1 .. L |-> C[j]]
      /\ \A j \in 1 .. L : C[j] = Desc(F[j].addr, F[j].len, next(j), 0, control(j))
  <2>1. C = [j \in 1 .. L |-> Desc(IF j = 1 THEN F[j].addr + (0 - Pos(b, 1 - 1)) ELSE F[j].addr,
                                   len(j), next(j), 0, control(j))]
    BY DEF Cut, F, L
  <2>2. ASSUME NEW j \in 1 .. L PROVE C[j] = Desc(F[j].addr, F[j].len, next(j), 0, control(j))
    <3>1. (IF j = 1 THEN F[j].addr + (0 - Pos(b, 1 - 1)) ELSE F[j].addr) = F[j].addr
      BY <1>2, <1>3
    <3> HIDE DEF C, len, next, control
    <3>2. QED
      BY <1>5, <2>1, <3>1
  <2>3. QED
    BY <2>1, <2>2
<1> HIDE DEF C, len
<1>7. /\ DOMAIN l1 = 1 .. L
      /\ \A j \in 1 .. L : l1[j] = Desc(F[j].addr, F[j].len, NextOf(j, L), 0,
                                        IF j = 2 /\ L > 2 THEN {"V"} ELSE {})
  <2>1. CASE L > 2
    <3>1. ControlEdit(F, l1, 2, {"V"}) /\ 2 \in 1 .. L
      BY <1>2, <2>1 DEF ControlEdit
    <3>2. At(F, L, 2, Desc(F[2].addr, F[2].len, NextOf(2, L), 0, {}))
      BY <1>2, <3>1 DEF At
    <3> HIDE DEF l1
    <3>3. /\ l1 = [j \in 1 .. L |-> l1[j]] /\ \A j \in 1 .. L : j # 2 => l1[j] = F[j]
          /\ l1[2] = Desc(F[2].addr, F[2].len, NextOf(2, L), 0, {"V"})
      BY <3>1, <3>2, EditControl
    <3>4. QED
      BY <1>2, <2>1, <3>3
  <2>2. CASE ~ (L > 2)
    BY <1>2, <2>2
  <2>3. QED
    BY <2>1, <2>2
<1> HIDE DEF l1
<1>8. /\ l2 = [j \in 1 .. L |-> l2[j]] /\ \A j \in 1 .. L : j # L => l2[j] = l1[j]
      /\ l2[L] = Desc(F[L].addr, F[L].len, NextOf(L, L), 0, {"V", "LAST"})
  <2> DEFINE z == IF L = 2 /\ L > 2 THEN {"V"} ELSE {}
  <2>1. At(l1, L, L, Desc(F[L].addr, F[L].len, NextOf(L, L), 0, z))
    BY <1>2, <1>7 DEF At
  <2>2. ControlEdit(l1, l2, L, {"V", "LAST"})
    BY DEF ControlEdit
  <2> HIDE DEF l2, z
  <2>3. QED
    BY <2>1, <2>2, EditControl
<1> HIDE DEF l2
<1>9. ASSUME NEW j \in 1 .. L PROVE l2[j] = C[j]
  <2>1. CASE j = L
    <3>1. NextOf(L, L) = next(j) /\ control(j) = {"V", "LAST"}
      BY <2>1 DEF NextOf
    <3> HIDE DEF next, control
    <3>2. QED
      BY <1>6, <1>8, <2>1, <3>1
  <2>2. CASE j # L
    <3>1. /\ NextOf(j, L) = next(j)
          /\ control(j) = IF j = 2 /\ L > 2 THEN {"V"} ELSE {}
      BY <1>2, <2>2
    <3> HIDE DEF next, control
    <3>2. QED
      BY <1>6, <1>7, <1>8, <2>2, <3>1
  <2>3. QED
    BY <2>1, <2>2
<1>10. l2 = C
  BY <1>6, <1>8, <1>9
<1>11. QED
  BY <1>1, <1>2, <1>3, <1>5, <1>10 DEF F, L, C, len

\* A list as fillDescriptorList left it is cut for a transfer, what was changed is
\* kept for the channel, and the channel gets the first descriptor.
Sent(c, b, o, bytes, i, n) ==
    /\ Span(b, o, bytes, i, n)
    /\ list' = [list EXCEPT ![b] = Cut(b, o, bytes, i, n)]
    /\ savedData' = [savedData EXCEPT ![c] = Kept(b, o, i, n)]
    /\ saved' = [saved EXCEPT ![c] = TRUE]
    /\ cur' = [cur EXCEPT ![c] = First(b, o, bytes, i, n)]

\* What sendDescriptorList makes of the first descriptor for the board.
AsFirst(d, last) ==
    [d EXCEPT !.per = BoardAddr * Word,
              !.control = {"V", "UPA"} \cup (IF last THEN {"LAST"} ELSE {})]

\* What the board gets is the first descriptor of the cut list.
LEMMA FirstCut ==
    ASSUME NEW b, Listed(b), NEW o, NEW bytes, NEW i, NEW n, Span(b, o, bytes, i, n)
    PROVE  AsFirst(Cut(b, o, bytes, i, n)[i], i = n) = First(b, o, bytes, i, n)
<1> DEFINE a == Filled(b)[i].addr + (o - Pos(b, i - 1))
           x == CutLen(b, o, bytes, i, n, i)
           y == IF i = n THEN 0 ELSE NextOf(i, Len(Filled(b)))
           z == IF i = n THEN {"V", "LAST"} ELSE IF i = i + 1 /\ i < n THEN {"V"} ELSE {}
           p == BoardAddr * Word
           w == {"V", "UPA"} \cup (IF i = n THEN {"LAST"} ELSE {})
<1>1. i \in 1 .. Len(Filled(b))
  BY SpanFacts
<1>2. Cut(b, o, bytes, i, n)[i] = Desc(a, x, y, 0, z)
  BY <1>1 DEF Cut
<1>3. First(b, o, bytes, i, n) = Desc(a, x, y, p, w)
  BY DEF First
<1> HIDE DEF a, x, y, z, p, w
<1>4. [Desc(a, x, y, 0, z) EXCEPT !.per = p] = Desc(a, x, y, p, z)
  BY DEF Desc
<1>5. [Desc(a, x, y, p, z) EXCEPT !.control = w] = Desc(a, x, y, p, w)
  BY DEF Desc
<1>6. AsFirst(Desc(a, x, y, 0, z), i = n) = [[Desc(a, x, y, 0, z) EXCEPT !.per = p] EXCEPT !.control = w]
  BY DEF AsFirst, p, w, Desc
<1>7. QED
  BY <1>2, <1>3, <1>4, <1>5, <1>6

\* SendPart cuts the list and keeps what was changed.
LEMMA PartSent ==
    ASSUME NEW c \in Channels, NEW b, Listed(b), list[b] = Filled(b),
           NEW o \in Nat, NEW bytes \in Nat \ {0}, o + bytes <= Size(b),
           SendPart(c, b, o, bytes)
    PROVE  \E i, n : Sent(c, b, o, bytes, i, n)
<1> DEFINE l == list[b]
           i == InitDescriptor(l, o)
           n == LastDescriptor(l, o, bytes)
           skip == BlockOffset(l, o)
           edited == PartEdit(l, i, n, BytesInLast(l, o, bytes), skip)
<1>1. Span(b, o, bytes, i, n)
  BY SearchStops
<1>2. /\ i \in 1 .. n /\ n \in 1 .. Len(l) /\ n <= Len(l) /\ ~ (n > Len(l))
  <2>1. i \in 1 .. n /\ n \in 1 .. Len(l) /\ Len(l) \in Nat
    BY <1>1, SpanFacts
  <2> HIDE DEF i, n, l
  <2>2. QED
    BY <2>1
<1>3. skip = o - Pos(b, i - 1)
  BY DEF BlockOffset, Pos
<1>4. BytesInLast(l, o, bytes) = CutLen(b, o, bytes, i, n, n)
  <2>1. BytesInLast(l, o, bytes) = IF i = n THEN bytes ELSE o + bytes - Pos(b, n - 1)
    BY DEF BytesInLast, Pos
  <2>2. CutLen(b, o, bytes, i, n, n) = IF i = n THEN o + bytes - o ELSE o + bytes - Pos(b, n - 1)
    <3>p. Pos(b, n - 1) \in Nat
      <4>1. n \in 1 .. Len(Filled(b)) /\ Len(Filled(b)) \in Nat
        BY <1>1, SpanFacts
      <4> HIDE DEF n
      <4>2. n - 1 \in 0 .. Len(Filled(b))
        BY <4>1
      <4>3. QED
        BY <4>2, PosSteps
    <3> HIDE DEF i, n, l
    <3>1. CASE i = n
      BY <3>1 DEF CutLen, Leave, Enter
    <3>2. CASE i # n
      <4>1. Leave(b, o, bytes, n, n) = o + bytes
        BY DEF Leave
      <4>2. Enter(b, o, i, n) = Pos(b, n - 1)
        BY <3>2 DEF Enter
      <4>3. CutLen(b, o, bytes, i, n, n) = Leave(b, o, bytes, n, n) - Enter(b, o, i, n)
        BY DEF CutLen
      <4>4. QED
        BY <3>2, <3>p, <4>1, <4>2, <4>3
    <3>3. QED
      BY <3>1, <3>2
  <2> HIDE DEF i, n, l
  <2>3. o + bytes - o = bytes
    OBVIOUS
  <2>4. QED
    BY <2>1, <2>2, <2>3
<1>5. edited = Cut(b, o, bytes, i, n)
  <2> HIDE DEF i, n, skip
  <2>1. QED
    BY <1>1, <1>3, <1>4, PartEdited
<1>6. /\ list' = [list EXCEPT ![b] = edited]
      /\ savedData' = IF n > Len(l) THEN savedData ELSE [savedData EXCEPT ![c] =
              [buf |-> b, init |-> i, last |-> n, offset |-> skip, length |-> l[n].len]]
      /\ saved' = [saved EXCEPT ![c] = @ \/ n <= Len(l)]
      /\ cur' = [cur EXCEPT ![c] =
              [edited[i] EXCEPT !.per = BoardAddr * Word,
                 !.control = {"V", "UPA"} \cup (IF i = n THEN {"LAST"} ELSE {})]]
  <2>1. list' = [list EXCEPT ![b] = edited]
    BY DEF SendPart, PartEdit
  <2>2. savedData' = IF n > Len(l) THEN savedData ELSE [savedData EXCEPT ![c] =
              [buf |-> b, init |-> i, last |-> n, offset |-> skip, length |-> l[n].len]]
    BY DEF SendPart
  <2>3. saved' = [saved EXCEPT ![c] = @ \/ n <= Len(l)]
    BY DEF SendPart
  <2>4. cur' = [cur EXCEPT ![c] =
              [edited[i] EXCEPT !.per = BoardAddr * Word,
                 !.control = {"V", "UPA"} \cup (IF i = n THEN {"LAST"} ELSE {})]]
    BY DEF SendPart, PartEdit
  <2>5. QED
    BY <2>1, <2>2, <2>3, <2>4
<1> HIDE DEF i, n, skip, edited
<1>7. AsFirst(edited[i], i = n)
       = First(b, o, bytes, i, n)
  BY <1>1, <1>5, FirstCut
<1>8. Sent(c, b, o, bytes, i, n)
  <2>1. [buf |-> b, init |-> i, last |-> n, offset |-> skip, length |-> l[n].len]
            = Kept(b, o, i, n)
    BY <1>3 DEF Kept
  <2>2. saved' = [saved EXCEPT ![c] = TRUE]
    BY <1>2, <1>6
  <2>3. savedData' = [savedData EXCEPT ![c] = Kept(b, o, i, n)]
    BY <1>2, <1>6, <2>1
  <2>4. cur' = [cur EXCEPT ![c] = AsFirst(edited[i], i = n)]
    BY <1>6 DEF AsFirst
  <2>5. QED
    BY <1>1, <1>5, <1>6, <1>7, <2>2, <2>3, <2>4 DEF Sent
<1>9. QED
  BY <1>8

\* So does SendWhole.
LEMMA WholeSent ==
    ASSUME NEW c \in Channels, NEW b, Listed(b), list[b] = Filled(b), SendWhole(c, b)
    PROVE  \E i, n : Sent(c, b, 0, Size(b), i, n)
<1> DEFINE l == list[b]
           n == Len(l)
           edited == WholeEdit(l, n)
           C == Cut(b, 0, Size(b), 1, n)
<1>1. Span(b, 0, Size(b), 1, n)
  BY WholeSpan
<1>2. edited = C /\ Pos(b, 1 - 1) = 0
  BY WholeEdited
<1>3. /\ list' = [list EXCEPT ![b] = edited]
      /\ savedData' = [savedData EXCEPT ![c] =
              [buf |-> b, init |-> 1, last |-> n, offset |-> 0, length |-> l[n].len]]
      /\ saved' = [saved EXCEPT ![c] = TRUE]
      /\ cur' = [cur EXCEPT ![c] =
              AsFirst(edited[1], n = 1)]
  BY DEF SendWhole, WholeEdit, AsFirst
<1> HIDE DEF n, edited, C
<1>4. [buf |-> b, init |-> 1, last |-> n, offset |-> 0, length |-> l[n].len]
        = Kept(b, 0, 1, n)
  BY <1>2 DEF Kept
<1>5. AsFirst(C[1], 1 = n)
       = First(b, 0, Size(b), 1, n)
  BY <1>1, FirstCut DEF C
<1>6. (n = 1) <=> (1 = n)
  OBVIOUS
<1>7. cur' = [cur EXCEPT ![c] = First(b, 0, Size(b), 1, n)]
  BY <1>2, <1>3, <1>5, <1>6
<1>8. Sent(c, b, 0, Size(b), 1, n)
  BY <1>1, <1>2, <1>3, <1>4, <1>7 DEF Sent, C
<1>9. QED
  BY <1>8

-----------------------------------------------------------------------------
\* The transfer of a channel: its buffer and its bytes.
Target(c) == request[c].buf
From(c) == request[c].offset * Word
Total(c) == request[c].count * Word

\* Byte k of a transfer from byte o of a buffer on, and a beginning of it.
Byte(b, o, k) == <<BoardAddr * Word + k - 1, HostByte(b, o + k - 1)>>
Beginning(b, o, s) == \A k \in 1 .. Len(s) : s[k] = Byte(b, o, k)

\* Descriptor j of the transfer when the board has loaded it, and a channel that
\* has it loaded, or any.
Loaded(b, o, bytes, i, n, j) ==
    Desc(Filled(b)[j].addr + (Enter(b, o, i, j) - Pos(b, j - 1)),
         CutLen(b, o, bytes, i, n, j),
         IF j = n THEN 0 ELSE NextOf(j, Len(Filled(b))),
         BoardAddr * Word + (Enter(b, o, i, j) - o),
         (IF j = i THEN {"V", "UPA"} ELSE {"V"}) \cup (IF j = n THEN {"LAST"} ELSE {}))

HasLoaded(b, o, bytes, i, n, j, s, d) ==
    j \in i .. n /\ d = Loaded(b, o, bytes, i, n, j) /\ Len(s) = Enter(b, o, i, j) - o

Reached(b, o, bytes, i, n, s, d) == \E j : HasLoaded(b, o, bytes, i, n, j, s, d)

KernelBytes(b, bytes) ==
    [addr |-> SG[b][1].addr, len |-> bytes, next |-> 0,
     per |-> BoardAddr * Word, control |-> {"V", "UPA", "LAST"}]

\* The inductive invariant.
SavedRecords == [buf : Buffers, init : Nat, last : Nat, offset : Nat, length : Nat]
Requests == [buf : Buffers, offset : Dwords, count : Dwords]

Typed ==
    /\ DOMAIN list = Buffers
    /\ list = [b \in Buffers |-> list[b]]
    /\ saved \in [Channels -> BOOLEAN]
    /\ savedData \in [Channels -> SavedRecords]
    /\ engine \in [Channels -> {"idle", "busy", "timeout"}]
    /\ cur \in [Channels -> Descriptors]
    /\ moved \in [Channels -> Seq(Nat \X Nat)]
    /\ request \in [Channels -> Requests]
    /\ phase \in [Channels -> {"fresh", "started", "waited"}]

\* Channels that were started use different buffers.
Apart == \A c, d \in Channels : Begun(c) /\ Begun(d) /\ c # d => Target(c) # Target(d)

\* The descriptor a channel goes on with is one of its buffer's.
LinkInList(c) == engine[c] = "busy" => cur[c].next \in 0 .. Len(Filled(Target(c)))

\* A transfer of a buffer with a list has its list cut for it, and what was
\* changed is kept; a wait leaves nothing kept.
IsCut(c, b, o, bytes, i, n) ==
    /\ Span(b, o, bytes, i, n)
    /\ saved[c]
    /\ savedData[c] = Kept(b, o, i, n)
    /\ list[b] = Cut(b, o, bytes, i, n)

CutKept(c) ==
    /\ phase[c] = "waited" => ~ saved[c]
    /\ Begun(c) /\ Listed(Target(c)) =>
          IsCut(c, Target(c), From(c), Total(c), savedData[c].init, savedData[c].last)
    /\ Begun(c) /\ ~ Listed(Target(c)) =>
          ~ saved[c] /\ list[Target(c)] = Filled(Target(c))

\* How far a transfer is.
Going(c) ==
    /\ Beginning(Target(c), From(c), moved[c])
    /\ Len(moved[c]) <= Total(c)
    /\ engine[c] = "idle" => Len(moved[c]) = Total(c)
    /\ engine[c] = "busy" /\ Listed(Target(c)) =>
          Reached(Target(c), From(c), Total(c), savedData[c].init, savedData[c].last,
                  moved[c], cur[c])
    /\ engine[c] = "busy" /\ ~ Listed(Target(c)) =>
          /\ moved[c] = <<>> /\ cur[c] = KernelBytes(Target(c), Total(c))
          /\ From(c) = 0 /\ Total(c) <= Size(Target(c))

ChannelInv(c) ==
    LinkInList(c) /\ CutKept(c) /\ (Begun(c) /\ ~ Unscaled(c) => Going(c))

IInv == Typed /\ Apart /\ ListsRestored /\ \A c \in Channels : ChannelInv(c)

\* Where the transfer enters and leaves the descriptors it lies in.
LEMMA SpanPositions ==
    ASSUME NEW b, Listed(b), NEW o, NEW bytes, NEW i, NEW n, Span(b, o, bytes, i, n),
           NEW j \in i .. n
    PROVE  /\ j \in 1 .. Len(Filled(b)) /\ j \in Nat /\ i \in Nat /\ n \in Nat
           /\ o \in Nat /\ bytes \in Nat \ {0}
           /\ Pos(b, j - 1) \in Nat /\ Pos(b, j) \in Nat
           /\ Enter(b, o, i, j) \in Nat /\ Leave(b, o, bytes, n, j) \in Nat
           /\ Pos(b, j - 1) <= Enter(b, o, i, j) /\ Leave(b, o, bytes, n, j) <= Pos(b, j)
           /\ o <= Enter(b, o, i, j) /\ Enter(b, o, i, j) <= Leave(b, o, bytes, n, j)
           /\ Leave(b, o, bytes, n, j) <= o + bytes
           /\ CutLen(b, o, bytes, i, n, j) = Leave(b, o, bytes, n, j) - Enter(b, o, i, j)
<1> DEFINE L == Len(Filled(b))
<1>1. /\ L \in Nat \ {0} /\ i \in 1 .. n /\ n \in 1 .. L /\ i \in Nat /\ n \in Nat
      /\ i \in 1 .. L /\ j \in 1 .. L /\ j \in Nat /\ i <= j /\ j <= n
      /\ j \in 0 .. L /\ j - 1 \in 0 .. L /\ i - 1 \in 0 .. L /\ n - 1 \in 0 .. L
      /\ i \in 0 .. L /\ n \in 0 .. L
      /\ o \in Nat /\ bytes \in Nat \ {0}
  <2>1. L \in Nat \ {0} /\ i \in 1 .. n /\ n \in 1 .. L
    BY SpanFacts
  <2>2. o \in Nat /\ bytes \in Nat \ {0}
    BY DEF Span
  <2> HIDE DEF L
  <2>3. QED
    BY <2>1, <2>2
<1>2. /\ \A k \in 0 .. L : Pos(b, k) \in Nat
      /\ \A k \in 0 .. L, m \in Nat : m <= k => Pos(b, m) <= Pos(b, k)
  BY PosSteps
<1>3. /\ CutLen(b, o, bytes, i, n, j) \in Nat
      /\ CutLen(b, o, bytes, i, n, j) = Leave(b, o, bytes, n, j) - Enter(b, o, i, j)
  BY SpanFacts
<1>4. /\ Pos(b, i - 1) <= o /\ o <= Pos(b, i) /\ o + bytes <= Pos(b, n)
      /\ i < n => Pos(b, n - 1) < o + bytes
  BY DEF Span
<1>5. /\ Pos(b, j) \in Nat /\ Pos(b, j - 1) \in Nat /\ Pos(b, i) \in Nat /\ Pos(b, n - 1) \in Nat
  BY <1>1, <1>2
<1>6. j # i => Pos(b, i) <= Pos(b, j - 1)
  BY <1>1, <1>2
<1>7. j # n => Pos(b, j) <= Pos(b, n - 1)
  BY <1>1, <1>2
<1>8. /\ Enter(b, o, i, j) \in Nat /\ Pos(b, j - 1) <= Enter(b, o, i, j)
      /\ o <= Enter(b, o, i, j)
  BY <1>1, <1>4, <1>5, <1>6 DEF Enter
<1>9. /\ Leave(b, o, bytes, n, j) \in Nat /\ Leave(b, o, bytes, n, j) <= Pos(b, j)
      /\ Leave(b, o, bytes, n, j) <= o + bytes
  BY <1>1, <1>4, <1>5, <1>7 DEF Leave
<1>10. Enter(b, o, i, j) <= Leave(b, o, bytes, n, j)
  BY <1>3, <1>8, <1>9
<1>11. QED
  BY <1>1, <1>3, <1>5, <1>8, <1>9, <1>10

\* The board address, in bytes.
LEMMA BoardBytes ==
    BoardAddr * Word \in Nat
<1>1. BoardAddr \in Nat /\ Word \in Nat
  BY WordAssumption
<1>2. QED
  BY <1>1, SMTT(30)

\* The descriptor written to the channel is the first of the transfer.
LEMMA LoadFirst ==
    ASSUME NEW b, Listed(b), NEW o, NEW bytes, NEW i, NEW n, Span(b, o, bytes, i, n)
    PROVE  Reached(b, o, bytes, i, n, <<>>, First(b, o, bytes, i, n))
<1>1. i \in i .. n /\ o \in Nat
  <2>1. i \in 1 .. n /\ n \in 1 .. Len(Filled(b)) /\ Len(Filled(b)) \in Nat
    BY SpanFacts
  <2>2. i \in i .. n
    BY <2>1
  <2>3. QED
    BY <2>2 DEF Span
<1>2. Enter(b, o, i, i) = o /\ o - o = 0 /\ BoardAddr * Word + (o - o) = BoardAddr * Word
  BY <1>1, BoardBytes DEF Enter
<1>3. First(b, o, bytes, i, n) = Loaded(b, o, bytes, i, n, i)
  BY <1>2 DEF First, Loaded
<1>4. Len(<<>>) = Enter(b, o, i, i) - o
  BY <1>2
<1>5. QED
  BY <1>1, <1>3, <1>4 DEF Reached, HasLoaded

\* Descriptor e of a list is loaded behind descriptor d: its control word and its
\* address on the board.
LoadsNext(l, d, e, z, p) ==
    /\ e = l[d.next]
    /\ z = IF "V" \in e.control THEN e.control ELSE d.control
    /\ p = IF "UPA" \in z THEN e.per ELSE d.per + d.len

\* Descriptor e with another control word and board address.
WithControl(e, z, p) == [e EXCEPT !.control = z, !.per = p]

\* The board goes from a descriptor of the transfer to the next one: the control
\* word it takes on is right, and the board address goes on.
LEMMA LoadNext ==
    ASSUME NEW b, Listed(b), NEW o, NEW bytes, NEW i, NEW n, Span(b, o, bytes, i, n),
           NEW j, NEW s, NEW d, HasLoaded(b, o, bytes, i, n, j, s, d), j # n,
           NEW e, NEW z, NEW p, LoadsNext(Cut(b, o, bytes, i, n), d, e, z, p)
    PROVE  /\ d.next = j + 1 /\ d.next # 0 /\ "LAST" \notin d.control
           /\ d.next \in i .. n
           /\ WithControl(e, z, p) = Loaded(b, o, bytes, i, n, d.next)
           /\ Leave(b, o, bytes, n, j) = Enter(b, o, i, d.next)
<1> DEFINE L == Len(Filled(b))
<1>0. j \in i .. n /\ d = Loaded(b, o, bytes, i, n, j)
  BY DEF HasLoaded
<1>1. /\ i \in 1 .. n /\ n \in 1 .. L /\ L \in Nat /\ j \in Nat /\ i \in Nat /\ n \in Nat
      /\ Enter(b, o, i, j) \in Nat /\ Leave(b, o, bytes, n, j) \in Nat
      /\ CutLen(b, o, bytes, i, n, j) = Leave(b, o, bytes, n, j) - Enter(b, o, i, j)
      /\ o \in Nat
  BY <1>0, SpanFacts, SpanPositions
<1>2. PICK k : k = j + 1
  OBVIOUS
<1> HIDE DEF L
<1>3. /\ k \in i .. n /\ k \in 1 .. L /\ k # i /\ k # 0 /\ k - 1 = j /\ NextOf(j, L) = k /\ i < k
      /\ j # L
  BY <1>0, <1>1, <1>2 DEF NextOf
<1>4. /\ d.next = k /\ d.len = CutLen(b, o, bytes, i, n, j)
      /\ d.per = BoardAddr * Word + (Enter(b, o, i, j) - o)
      /\ d.control = (IF j = i THEN {"V", "UPA"} ELSE {"V"}) \cup {}
  BY <1>0, <1>3 DEF Loaded, Desc, L
<1>5. Leave(b, o, bytes, n, j) = Pos(b, j) /\ Enter(b, o, i, k) = Pos(b, j)
  BY <1>3 DEF Leave, Enter
<1> DEFINE a == Filled(b)[k].addr
           x == CutLen(b, o, bytes, i, n, k)
           y == IF k = n THEN 0 ELSE NextOf(k, Len(Filled(b)))
           w == IF k = n THEN {"V", "LAST"} ELSE IF k = i + 1 /\ k < n THEN {"V"} ELSE {}
           q == {"V"} \cup (IF k = n THEN {"LAST"} ELSE {})
           r == BoardAddr * Word + (Enter(b, o, i, k) - o)
<1>6. e = Desc(a, x, y, 0, w)
  BY <1>3, <1>4 DEF Cut, L, LoadsNext
<1>7. z = q
  <2>0. z = IF "V" \in e.control THEN e.control ELSE d.control
    BY DEF LoadsNext
  <2>1. e.control = w
    BY <1>6 DEF Desc
  <2>2. CASE k = n
    BY <2>0, <2>1, <2>2
  <2>3. CASE k # n /\ k = i + 1
    <3>1. k < n
      BY <1>1, <1>3, <2>3
    <3>2. QED
      BY <2>0, <2>1, <2>3, <3>1
  <2>4. CASE k # n /\ k # i + 1
    <3>1. j # i
      BY <1>2, <2>4
    <3>2. w = {} /\ d.control = {"V"}
      BY <1>4, <2>4, <3>1
    <3>3. QED
      BY <2>0, <2>1, <2>4, <3>2
  <2>5. QED
    BY <2>2, <2>3, <2>4
<1>8. p = r
  <2>1. "UPA" \notin z
    BY <1>7
  <2>2. p = d.per + d.len
    BY <2>1 DEF LoadsNext
  <2>3. d.per + d.len = BoardAddr * Word + (Enter(b, o, i, k) - o)
    BY <1>1, <1>4, <1>5, BoardBytes
  <2>4. QED
    BY <2>2, <2>3
<1>9. [e EXCEPT !.control = z, !.per = p] = Desc(a, x, y, r, q)
  <2> HIDE DEF a, x, y, w, q, r
  <2>1. [Desc(a, x, y, 0, w) EXCEPT !.control = z] = Desc(a, x, y, 0, z)
    BY DEF Desc
  <2>2. [Desc(a, x, y, 0, z) EXCEPT !.per = p] = Desc(a, x, y, p, z)
    BY DEF Desc
  <2>3. [e EXCEPT !.control = z, !.per = p] = [[e EXCEPT !.control = z] EXCEPT !.per = p]
    BY <1>6 DEF Desc
  <2>4. QED
    BY <1>6, <1>7, <1>8, <2>1, <2>2, <2>3
<1>10. Loaded(b, o, bytes, i, n, k) = Desc(a, x, y, r, q)
  <2>1. Enter(b, o, i, k) - Pos(b, k - 1) = 0
    BY <1>1, <1>3, <1>5
  <2>2. Filled(b)[k].addr \in Nat
    BY <1>3, FilledFields DEF L
  <2>3. Filled(b)[k].addr + (Enter(b, o, i, k) - Pos(b, k - 1)) = a
    BY <2>1, <2>2
  <2>4. QED
    BY <1>3, <2>3 DEF Loaded
<1>11. QED
  BY <1>2, <1>3, <1>4, <1>5, <1>9, <1>10 DEF WithControl

\* It stops behind the last descriptor of the transfer, and not before.
LEMMA LoadLast ==
    ASSUME NEW b, NEW o, NEW bytes, NEW i, NEW n,
           NEW j, NEW s, NEW d, HasLoaded(b, o, bytes, i, n, j, s, d)
    PROVE  /\ "LAST" \in d.control <=> j = n
           /\ j = n => Leave(b, o, bytes, n, j) = o + bytes
  BY DEF Loaded, HasLoaded, Desc, Leave

\* The bytes of a descriptor.
LEMMA BytesOf ==
    ASSUME NEW d, d.len \in Nat
    PROVE  /\ Len(Bytes(d)) = d.len /\ DOMAIN Bytes(d) = 1 .. d.len
           /\ Bytes(d) = [k \in 1 .. d.len |-> <<d.per + k - 1, d.addr + k - 1>>]
  BY DEF Bytes

\* They are pairs of addresses.
LEMMA BytesTyped ==
    ASSUME NEW d \in Descriptors
    PROVE  Bytes(d) \in Seq(Nat \X Nat)
<1>1. d.len \in Nat /\ d.per \in Nat /\ d.addr \in Nat
  BY DEF Descriptors
<1>2. \A k \in 1 .. d.len : <<d.per + k - 1, d.addr + k - 1>> \in Nat \X Nat
  BY <1>1
<1>3. Bytes(d) \in [1 .. d.len -> Nat \X Nat]
  BY <1>2 DEF Bytes
<1>4. QED
  BY <1>1, <1>3

\* A sequence is a function.
LEMMA Itself ==
    ASSUME NEW S, NEW s \in Seq(S)
    PROVE  s = [k \in 1 .. Len(s) |-> s[k]]
  OBVIOUS

\* What concatenation is.
LEMMA Concatenated ==
    ASSUME NEW S, NEW s \in Seq(S), NEW t \in Seq(S)
    PROVE  /\ s \o t \in Seq(S) /\ Len(s \o t) = Len(s) + Len(t)
           /\ Len(s) \in Nat /\ Len(t) \in Nat
           /\ \A k \in 1 .. (Len(s) + Len(t)) :
                 (s \o t)[k] = IF k <= Len(s) THEN s[k] ELSE t[k - Len(s)]
  OBVIOUS

\* What goes on behind the first m bytes.
Behind(b, o, m, t) == \A k \in 1 .. Len(t) : t[k] = Byte(b, o, m + k)

\* The m bytes of s are the transfer's first, and t goes on behind them.
GoesOn(b, o, m, s, t) ==
    /\ o \in Nat /\ m \in Nat /\ s \in Seq(Nat \X Nat) /\ t \in Seq(Nat \X Nat)
    /\ Beginning(b, o, s) /\ Len(s) = m /\ Behind(b, o, m, t)

\* Bytes that go on behind a beginning of the transfer make a longer one.
LEMMA Appended ==
    ASSUME NEW b, NEW o, NEW m, NEW s, NEW t, GoesOn(b, o, m, s, t)
    PROVE  Beginning(b, o, s \o t) /\ Len(s \o t) = m + Len(t)
<1>0. /\ o \in Nat /\ m \in Nat /\ s \in Seq(Nat \X Nat) /\ t \in Seq(Nat \X Nat)
      /\ Beginning(b, o, s) /\ Len(s) = m /\ Behind(b, o, m, t)
  BY DEF GoesOn
<1>1. /\ Len(s \o t) = m + Len(t) /\ Len(t) \in Nat
      /\ \A k \in 1 .. (m + Len(t)) : (s \o t)[k] = IF k <= m THEN s[k] ELSE t[k - m]
  BY <1>0, Concatenated
<1>2. ASSUME NEW k \in 1 .. Len(s \o t) PROVE (s \o t)[k] = Byte(b, o, k)
  <2>1. CASE k <= m
    <3>1. k \in 1 .. Len(s) /\ (s \o t)[k] = s[k]
      BY <1>0, <1>1, <2>1
    <3>2. QED
      BY <1>0, <3>1 DEF Beginning
  <2>2. CASE ~ (k <= m)
    <3>1. k - m \in 1 .. Len(t) /\ (s \o t)[k] = t[k - m] /\ m + (k - m) = k
      BY <1>0, <1>1, <2>2
    <3>2. t[k - m] = Byte(b, o, m + (k - m))
      BY <1>0, <3>1 DEF Behind
    <3>3. QED
      BY <3>1, <3>2
  <2>3. QED
    BY <2>1, <2>2
<1>3. QED
  BY <1>1, <1>2 DEF Beginning

\* A loaded descriptor of the transfer is one.
LEMMA LoadedTyped ==
    ASSUME NEW b, Listed(b), NEW o, NEW bytes, NEW i, NEW n, Span(b, o, bytes, i, n),
           NEW j \in i .. n, NEW d, d = Loaded(b, o, bytes, i, n, j)
    PROVE  /\ d \in Descriptors /\ d.next \in 0 .. Len(Filled(b))
           /\ d.addr = Filled(b)[j].addr + (Enter(b, o, i, j) - Pos(b, j - 1))
           /\ d.len = Leave(b, o, bytes, n, j) - Enter(b, o, i, j)
           /\ d.per = BoardAddr * Word + (Enter(b, o, i, j) - o)
<1> DEFINE a == Filled(b)[j].addr + (Enter(b, o, i, j) - Pos(b, j - 1))
           x == CutLen(b, o, bytes, i, n, j)
           y == IF j = n THEN 0 ELSE NextOf(j, Len(Filled(b)))
           p == BoardAddr * Word + (Enter(b, o, i, j) - o)
           z == (IF j = i THEN {"V", "UPA"} ELSE {"V"}) \cup (IF j = n THEN {"LAST"} ELSE {})
<1>1. d = Desc(a, x, y, p, z)
  BY DEF Loaded
<1>2. /\ j \in 1 .. Len(Filled(b)) /\ j \in Nat /\ o \in Nat
      /\ Pos(b, j - 1) \in Nat
      /\ Enter(b, o, i, j) \in Nat /\ Leave(b, o, bytes, n, j) \in Nat
      /\ Pos(b, j - 1) <= Enter(b, o, i, j)
      /\ o <= Enter(b, o, i, j) /\ Enter(b, o, i, j) <= Leave(b, o, bytes, n, j)
      /\ x = Leave(b, o, bytes, n, j) - Enter(b, o, i, j)
      /\ Len(Filled(b)) \in Nat
  BY SpanPositions, SpanFacts
<1>3. Filled(b)[j].addr \in Nat
  BY <1>2, FilledFields
<1>4. a \in Nat
  BY <1>2, <1>3
<1>5. x \in Nat
  <2> HIDE DEF x
  <2>1. QED
    BY <1>2
<1>6. p \in Nat
  <2>1. Enter(b, o, i, j) - o \in Nat
    BY <1>2
  <2>2. QED
    BY <2>1, BoardBytes
<1>7. y \in 0 .. Len(Filled(b))
  <2>1. CASE j = n
    BY <1>2, <2>1
  <2>2. CASE j # n
    BY <1>2, <2>2 DEF NextOf
  <2>3. QED
    BY <2>1, <2>2
<1>8. z \in SUBSET {"V", "UPA", "LAST"}
  OBVIOUS
<1>9. /\ d.addr = a /\ d.len = x /\ d.next = y /\ d.per = p
      /\ d \in Descriptors
  <2> HIDE DEF a, x, y, p, z
  <2>1. y \in Nat
    BY <1>2, <1>7
  <2>2. QED
    BY <1>1, <1>4, <1>5, <1>6, <1>8, <2>1 DEF Desc, Descriptors
<1>10. QED
  BY <1>2, <1>7, <1>9

\* The bytes of a loaded descriptor are the transfer's next.
LEMMA MovedOn ==
    ASSUME NEW b, Listed(b), NEW o, NEW bytes, NEW i, NEW n, Span(b, o, bytes, i, n),
           NEW j, NEW d, NEW s, HasLoaded(b, o, bytes, i, n, j, s, d),
           s \in Seq(Nat \X Nat), Beginning(b, o, s)
    PROVE  /\ Beginning(b, o, s \o Bytes(d))
           /\ Len(s \o Bytes(d)) = Leave(b, o, bytes, n, j) - o
           /\ Leave(b, o, bytes, n, j) - o <= bytes
<1> DEFINE enter == Enter(b, o, i, j)
           leave == Leave(b, o, bytes, n, j)
           start == Pos(b, j - 1)
           F == Filled(b)[j]
           t == Bytes(d)
<1>0. j \in i .. n /\ d = Loaded(b, o, bytes, i, n, j) /\ Len(s) = enter - o
  BY DEF HasLoaded
<1>1. /\ j \in 1 .. Len(Filled(b)) /\ j \in Nat /\ o \in Nat /\ bytes \in Nat
      /\ start \in Nat /\ Pos(b, j) \in Nat /\ enter \in Nat /\ leave \in Nat
      /\ start <= enter /\ o <= enter /\ enter <= leave
      /\ leave <= Pos(b, j) /\ leave <= o + bytes
  BY <1>0, SpanPositions
<1>2. /\ d \in Descriptors /\ d.addr = F.addr + (enter - start)
      /\ d.len = leave - enter /\ d.per = BoardAddr * Word + (enter - o)
  BY <1>0, LoadedTyped
<1>3. F.addr \in Nat /\ BoardAddr * Word \in Nat
  BY <1>1, FilledFields, BoardBytes
<1>4. d.len \in Nat
  BY <1>2 DEF Descriptors
<1>5. t \in Seq(Nat \X Nat) /\ Len(t) = leave - enter
  BY <1>2, <1>4, BytesOf, BytesTyped
<1> HIDE DEF enter, leave, start, F
<1>6. ASSUME NEW k \in 1 .. Len(t) PROVE t[k] = Byte(b, o, (enter - o) + k)
  <2>0. k \in 1 .. d.len /\ d.len = leave - enter
    BY <1>4, <1>5, BytesOf
  <2>1. k \in Nat /\ k >= 1 /\ k <= leave - enter
    BY <1>4, <2>0
  <2>a. t[k] = <<d.per + k - 1, d.addr + k - 1>>
    BY <1>4, <2>0, BytesOf
  <2> DEFINE y == enter + k - 1
  <2>2. y \in Nat /\ start <= y /\ y < Pos(b, j)
    <3>1. y \in Nat /\ start <= y /\ y < leave
      BY <1>1, <2>1
    <3>2. QED
      BY <1>1, <3>1
  <2>3. HostByte(b, y) = F.addr + (y - start)
    BY <1>1, <2>2, Layout DEF F, start
  <2>4. o + ((enter - o) + k) - 1 = y
    BY <1>1, <2>1
  <2>5. d.addr + k - 1 = HostByte(b, o + ((enter - o) + k) - 1)
    <3>1. d.addr + k - 1 = F.addr + (y - start)
      BY <1>1, <1>2, <1>3, <2>1
    <3>2. QED
      BY <2>3, <2>4, <3>1
  <2>6. d.per + k - 1 = BoardAddr * Word + ((enter - o) + k) - 1
    BY <1>1, <1>2, <1>3, <2>1
  <2>7. QED
    BY <2>a, <2>5, <2>6 DEF Byte
<1>7. enter - o \in Nat /\ Len(s) = enter - o
  BY <1>0, <1>1 DEF enter
<1> HIDE DEF t
<1>8. Beginning(b, o, s \o t) /\ Len(s \o t) = (enter - o) + Len(t)
  <2>1. PICK m : m = enter - o
    OBVIOUS
  <2>2. m \in Nat /\ Len(s) = m /\ Behind(b, o, m, t)
    BY <1>6, <1>7, <2>1 DEF Behind
  <2>3. o \in Nat /\ t \in Seq(Nat \X Nat)
    BY <1>1, <1>5
  <2>4. GoesOn(b, o, m, s, t)
    BY <2>2, <2>3 DEF GoesOn
  <2>5. QED
    BY <2>1, <2>4, Appended
<1>9. Len(s \o t) = leave - o /\ leave - o <= bytes
  BY <1>1, <1>5, <1>8
<1>10. QED
  BY <1>8, <1>9 DEF t, leave

\* The descriptor of a transfer without a list is one.
LEMMA KernelTyped ==
    ASSUME NEW b \in Buffers, Type[b] = "KERNEL", NEW o \in Nat, NEW bytes \in Nat,
           NEW d, d = [addr |-> SG[b][1].addr + o, len |-> bytes, next |-> 0,
                       per |-> BoardAddr * Word, control |-> {"V", "UPA", "LAST"}]
    PROVE  d \in Descriptors /\ d.next = 0
<1>1. SG[b][1].addr + o \in Nat
  BY OneBlock DEF Block
<1>2. BoardAddr * Word \in Nat
  BY BoardBytes
<1>3. QED
  BY <1>1, <1>2 DEF Descriptors

\* From the beginning of the buffer on it moves the bytes asked for.
LEMMA KernelMoved ==
    ASSUME NEW b \in Buffers, Type[b] = "KERNEL", NEW bytes \in Nat, bytes <= Size(b),
           NEW d, d = KernelBytes(b, bytes)
    PROVE  /\ Beginning(b, 0, <<>> \o Bytes(d)) /\ Len(<<>> \o Bytes(d)) = bytes
           /\ "LAST" \in d.control
<1>1. /\ d.len = bytes /\ d.addr = SG[b][1].addr /\ d.per = BoardAddr * Word
      /\ "LAST" \in d.control
  BY DEF KernelBytes
<1>2. SG[b][1].addr \in Nat /\ BoardAddr * Word \in Nat /\ Size(b) \in Nat
  BY OneBlock, BoardBytes, BlocksSized DEF Block
<1>3. d \in Descriptors
  BY <1>2 DEF KernelBytes, Descriptors
<1>4. Bytes(d) \in Seq(Nat \X Nat) /\ Len(Bytes(d)) = bytes
  BY <1>1, <1>3, BytesOf, BytesTyped
<1>5. ASSUME NEW k \in 1 .. Len(Bytes(d)) PROVE Bytes(d)[k] = Byte(b, 0, k)
  <2>1. Bytes(d)[k] = <<d.per + k - 1, d.addr + k - 1>> /\ k \in 1 .. bytes
    BY <1>1, <1>4, BytesOf
  <2>2. 0 + k - 1 \in Nat /\ 0 + k - 1 < Size(b)
    BY <1>2, <2>1
  <2>3. HostByte(b, 0 + k - 1) = SG[b][1].addr + (0 + k - 1)
    BY <2>2, KernelByte
  <2>4. SG[b][1].addr + (0 + k - 1) = d.addr + k - 1
    BY <1>1, <1>2, <2>1
  <2>5. QED
    BY <1>1, <2>1, <2>3, <2>4 DEF Byte
<1>6. <<>> \o Bytes(d) = Bytes(d)
  BY <1>4
<1>7. QED
  BY <1>1, <1>4, <1>5, <1>6 DEF Beginning

-----------------------------------------------------------------------------
\* A list is as long as the one that was filled, and its links stay in it.
IsList(l, b) ==
    /\ l \in Seq(Descriptors) /\ Len(l) = Len(Filled(b))
    /\ \A j \in 1 .. Len(l) : l[j].next \in 0 .. Len(l) /\ l[j].len <= Size(b)

\* A buffer without a list.
LEMMA FilledKernel ==
    ASSUME NEW b \in Buffers, Type[b] = "KERNEL"
    PROVE  Filled(b) = <<>> /\ Len(Filled(b)) = 0 /\ IsList(Filled(b), b)
<1>1. Filled(b) = <<>>
  BY DEF Filled
<1>2. QED
  BY <1>1 DEF IsList

\* A record of the right fields is a descriptor.
LEMMA DescTyped ==
    ASSUME NEW a \in Nat, NEW x \in Nat, NEW y \in Nat, NEW p \in Nat,
           NEW z \in SUBSET {"V", "UPA", "LAST"}
    PROVE  Desc(a, x, y, p, z) \in Descriptors
  BY DEF Desc, Descriptors

\* The descriptors are in the buffer.
LEMMA PosInSize ==
    ASSUME NEW b, Listed(b), NEW j \in 1 .. Len(Filled(b))
    PROVE  /\ Pos(b, j) \in Nat /\ Pos(b, j) <= Size(b) /\ Size(b) \in Nat
           /\ Filled(b)[j].len <= Size(b) /\ Filled(b)[j].len \in Nat
<1>1. /\ Len(Filled(b)) \in Nat /\ j \in 0 .. Len(Filled(b)) /\ j - 1 \in 0 .. Len(Filled(b))
      /\ j \in Nat /\ Len(Filled(b)) \in 0 .. Len(Filled(b)) /\ j <= Len(Filled(b))
  BY FilledFields
<1>2. /\ Pos(b, j) \in Nat /\ Pos(b, j - 1) \in Nat /\ Pos(b, Len(Filled(b))) = Size(b)
      /\ Pos(b, j) <= Pos(b, Len(Filled(b))) /\ Pos(b, Len(Filled(b))) \in Nat
      /\ Pos(b, j) = Pos(b, j - 1) + Filled(b)[j].len /\ Filled(b)[j].len \in Nat
  BY <1>1, PosSteps, FilledFields
<1>3. QED
  BY <1>2

\* A filled list is a list.
LEMMA FilledIsList ==
    ASSUME NEW b \in Buffers
    PROVE  IsList(Filled(b), b)
<1>1. CASE Type[b] = "KERNEL"
  BY <1>1, FilledKernel
<1>2. CASE Type[b] # "KERNEL"
  <2> DEFINE F == Filled(b)
             L == Len(Filled(b))
  <2>1. Listed(b)
    BY <1>2 DEF Listed
  <2>2. L \in Nat /\ F = [j \in 1 .. L |-> F[j]]
    BY <2>1, FilledFields
  <2>3. ASSUME NEW j \in 1 .. L
        PROVE  F[j] \in Descriptors /\ F[j].next \in 0 .. L /\ F[j].len <= Size(b)
    <3>1. NextOf(j, L) \in 0 .. L /\ NextOf(j, L) \in Nat
      BY <2>2 DEF NextOf
    <3>2. F[j].addr \in Nat /\ F[j].len \in Nat
      BY <2>1, FilledFields
    <3>3. F[j] = Desc(F[j].addr, F[j].len, NextOf(j, L), 0, {})
      BY <2>1, FilledDesc
    <3>4. Desc(F[j].addr, F[j].len, NextOf(j, L), 0, {}) \in Descriptors
      BY <3>1, <3>2, DescTyped
    <3>5. F[j].next = NextOf(j, L)
      <4> HIDE DEF F, L
      <4>1. QED
        BY <3>3 DEF Desc
    <3>6. F[j].len <= Size(b)
      BY <2>1, PosInSize
    <3>7. QED
      BY <3>1, <3>3, <3>4, <3>5, <3>6
  <2> HIDE DEF F
  <2>4. F \in Seq(Descriptors) /\ Len(F) = L
    <3> HIDE DEF L
    <3>1. F \in [1 .. L -> Descriptors]
      BY <2>2, <2>3
    <3>2. QED
      BY <2>2, <3>1
  <2>5. QED
    BY <2>3, <2>4 DEF IsList, F
<1>3. QED
  BY <1>1, <1>2

\* A cut one is.
LEMMA CutIsList ==
    ASSUME NEW b, Listed(b), NEW o, NEW bytes, NEW i, NEW n, Span(b, o, bytes, i, n)
    PROVE  IsList(Cut(b, o, bytes, i, n), b)
<1> DEFINE F == Filled(b)
           L == Len(Filled(b))
           C == Cut(b, o, bytes, i, n)
           a(j) == IF j = i THEN F[j].addr + (o - Pos(b, i - 1)) ELSE F[j].addr
           x(j) == CutLen(b, o, bytes, i, n, j)
           y(j) == IF j = n THEN 0 ELSE NextOf(j, L)
           z(j) == IF j = n THEN {"V", "LAST"} ELSE IF j = i + 1 /\ j < n THEN {"V"} ELSE {}
<1>1. /\ L \in Nat /\ o - Pos(b, i - 1) \in Nat /\ i \in 1 .. n /\ n \in 1 .. L
      /\ \A j \in 1 .. L : j # n /\ j # i => x(j) = F[j].len
  BY SpanFacts
<1>2. C = [j \in 1 .. L |-> Desc(a(j), x(j), y(j), 0, z(j))]
  BY DEF Cut
<1>3. \A j \in 1 .. L : F[j].addr \in Nat
  BY FilledFields
<1>4. ASSUME NEW j \in 1 .. L
      PROVE  x(j) \in Nat /\ x(j) <= Size(b)
  <2>1. CASE j # n /\ j # i
    BY <1>1, <2>1, PosInSize
  <2>2. CASE j = n \/ j = i
    <3>1. j \in i .. n
      <4> HIDE DEF L, x
      <4>1. QED
        BY <1>1, <2>2
    <3>2. /\ x(j) = Leave(b, o, bytes, n, j) - Enter(b, o, i, j)
          /\ Leave(b, o, bytes, n, j) \in Nat /\ Enter(b, o, i, j) \in Nat
          /\ Enter(b, o, i, j) <= Leave(b, o, bytes, n, j)
          /\ Leave(b, o, bytes, n, j) <= Pos(b, j)
      BY <3>1, SpanPositions
    <3>3. Pos(b, j) \in Nat /\ Pos(b, j) <= Size(b) /\ Size(b) \in Nat
      BY PosInSize
    <3> HIDE DEF x
    <3>4. QED
      BY <3>2, <3>3
  <2>3. QED
    BY <2>1, <2>2
<1> HIDE DEF C, L, F, x
<1>5. ASSUME NEW j \in 1 .. L
      PROVE  C[j] \in Descriptors /\ C[j].next \in 0 .. L /\ C[j].len <= Size(b)
  <2>1. y(j) \in 0 .. L /\ y(j) \in Nat
    BY <1>1 DEF NextOf
  <2>2. a(j) \in Nat
    BY <1>1, <1>3
  <2>3. z(j) \in SUBSET {"V", "UPA", "LAST"}
    OBVIOUS
  <2> HIDE DEF a, y, z
  <2>4. C[j] = Desc(a(j), x(j), y(j), 0, z(j))
    BY <1>2
  <2>5. C[j] \in Descriptors
    BY <1>4, <2>1, <2>2, <2>3, <2>4, DescTyped
  <2>6. C[j].next = y(j) /\ C[j].len = x(j)
    BY <2>4 DEF Desc
  <2>7. QED
    BY <1>4, <2>1, <2>5, <2>6
<1>6. C \in Seq(Descriptors) /\ Len(C) = L
  <2>1. C \in [1 .. L -> Descriptors]
    BY <1>2, <1>5
  <2>2. QED
    BY <1>1, <2>1
<1>7. QED
  BY <1>5, <1>6 DEF IsList, L, C

\* Under the invariant every list is.
LEMMA ListIs ==
    ASSUME IInv, NEW b \in Buffers
    PROVE  IsList(list[b], b)
<1>1. CASE \A c \in Channels : Begun(c) => Target(c) # b
  <2>1. list[b] = Filled(b)
    BY <1>1 DEF IInv, ListsRestored, Target
  <2>2. QED
    BY <2>1, FilledIsList
<1>2. ASSUME NEW c \in Channels, Begun(c), Target(c) = b
      PROVE  IsList(list[b], b)
  <2>1. CutKept(c)
    BY DEF IInv, ChannelInv
  <2>2. CASE Listed(b)
    <3>1. PICK o, bytes, i, n : Span(b, o, bytes, i, n) /\ list[b] = Cut(b, o, bytes, i, n)
      BY <1>2, <2>1, <2>2 DEF CutKept, IsCut
    <3>2. QED
      BY <2>2, <3>1, CutIsList
  <2>3. CASE ~ Listed(b)
    BY <1>2, <2>1, <2>3, FilledIsList DEF CutKept
  <2>4. QED
    BY <2>2, <2>3
<1>3. QED
  BY <1>1, <1>2

\* The channels an action does not concern.
Alike(d) ==
    /\ request'[d] = request[d] /\ phase'[d] = phase[d]
    /\ saved'[d] = saved[d] /\ savedData'[d] = savedData[d]
    /\ engine'[d] = engine[d] /\ cur'[d] = cur[d] /\ moved'[d] = moved[d]
    /\ Begun(d) => list'[Target(d)] = list[Target(d)]

\* An action keeps the invariant of a channel it does not concern.
LEMMA OthersKeep ==
    ASSUME NEW d \in Channels, ChannelInv(d), Alike(d)
    PROVE  ChannelInv(d)'
<1>1. /\ Target(d)' = Target(d) /\ From(d)' = From(d) /\ Total(d)' = Total(d)
      /\ Begun(d)' = Begun(d) /\ Unscaled(d)' = Unscaled(d)
  BY DEF Alike, Target, From, Total, Begun, Unscaled
<1>2. LinkInList(d)'
  BY <1>1 DEF ChannelInv, LinkInList, Alike
<1>3. CutKept(d)'
  <2>1. phase'[d] = "waited" => ~ saved'[d]
    BY DEF ChannelInv, CutKept, Alike
  <2>2. ASSUME Begun(d), Listed(Target(d))
        PROVE  IsCut(d, Target(d), From(d), Total(d), savedData[d].init, savedData[d].last)'
    <3>1. IsCut(d, Target(d), From(d), Total(d), savedData[d].init, savedData[d].last)
      BY <2>2 DEF ChannelInv, CutKept
    <3>2. list'[Target(d)] = list[Target(d)]
      BY <2>2 DEF Alike
    <3>3. QED
      BY <1>1, <3>1, <3>2 DEF IsCut, Alike
  <2>3. ASSUME Begun(d), ~ Listed(Target(d))
        PROVE  ~ saved'[d] /\ list'[Target(d)] = Filled(Target(d))
    BY <2>3 DEF ChannelInv, CutKept, Alike
  <2>4. QED
    BY <1>1, <2>1, <2>2, <2>3 DEF CutKept
<1>4. (Begun(d) /\ ~ Unscaled(d) => Going(d))'
  <2>1. ASSUME Going(d) PROVE Going(d)'
    BY <1>1, <2>1 DEF Going, Alike
  <2>2. QED
    BY <1>1, <2>1 DEF ChannelInv
<1>5. QED
  BY <1>2, <1>3, <1>4 DEF ChannelInv

\* The invariant holds when the driver of the board has been constructed.
LEMMA InitInv ==
    ASSUME Init
    PROVE  IInv
<1>1. Typed
  <2>1. PICK x \in Buffers : x = CHOOSE y \in Buffers : TRUE
    BY BuffersAssumption
  <2>2. NoData \in SavedRecords
    BY <2>1 DEF NoData, SavedRecords
  <2>3. NoRequest \in Requests
    BY <2>1, ChannelsAssumption DEF NoRequest, Requests, Dwords
  <2>4. Unloaded \in Descriptors
    BY DEF Unloaded, Descriptors
  <2>5. <<>> \in Seq(Nat \X Nat)
    OBVIOUS
  <2>6. QED
    BY <2>2, <2>3, <2>4, <2>5 DEF Init, Typed
<1>2. \A c \in Channels : ~ Begun(c) /\ phase[c] = "fresh" /\ engine[c] = "idle"
  BY DEF Init, Begun
<1>3. ListsRestored
  BY DEF Init, ListsRestored
<1>4. Apart
  BY <1>2 DEF Apart
<1>5. ASSUME NEW c \in Channels PROVE ChannelInv(c)
  BY <1>2 DEF ChannelInv, LinkInList, CutKept
<1>6. QED
  BY <1>1, <1>3, <1>4, <1>5 DEF IInv

\* A transfer is of a buffer and of bytes.
LEMMA RequestTyped ==
    ASSUME IInv, NEW c \in Channels
    PROVE  /\ request[c] \in Requests /\ Target(c) \in Buffers
           /\ From(c) \in Nat /\ Total(c) \in Nat
<1>1. request[c] \in Requests
  BY DEF IInv, Typed
<1>2. request[c].buf \in Buffers /\ request[c].offset \in Nat /\ request[c].count \in Nat
  BY <1>1, ChannelsAssumption DEF Requests, Dwords
<1>3. Word \in Nat
  BY WordAssumption
<1>4. From(c) \in Nat /\ Total(c) \in Nat
  BY <1>2, <1>3, SMTT(30) DEF From, Total
<1>5. QED
  BY <1>1, <1>2, <1>4 DEF Target

-----------------------------------------------------------------------------
\* At a wait the list of a started channel's buffer is as it was filled, and no
\* other list is touched.
LEMMA RestoreList ==
    ASSUME IInv, NEW c \in Channels, Restore(c), phase[c] # "fresh"
    PROVE  list' = [b \in Buffers |-> IF Begun(c) /\ Target(c) = b THEN Filled(b) ELSE list[b]]
<1>1. CutKept(c) /\ DOMAIN list = Buffers /\ list = [b \in Buffers |-> list[b]]
  BY DEF IInv, ChannelInv, Typed
<1>2. Target(c) \in Buffers
  BY RequestTyped
<1>3. CASE Begun(c) /\ Listed(Target(c))
  <2> DEFINE b == Target(c)
             o == From(c)
             bytes == Total(c)
             i == savedData[c].init
             n == savedData[c].last
  <2>1. IsCut(c, b, o, bytes, i, n)
    BY <1>1, <1>3 DEF CutKept
  <2> HIDE DEF b, o, bytes, i, n
  <2>2. list' = [list EXCEPT ![savedData[c].buf] = Restored(@, savedData[c])]
    BY <2>1 DEF Restore, IsCut
  <2>3. savedData[c].buf = b /\ savedData[c] = Kept(b, o, i, n) /\ list[b] = Cut(b, o, bytes, i, n)
    BY <2>1 DEF IsCut, Kept
  <2>4. list' = [list EXCEPT ![b] = Restored(Cut(b, o, bytes, i, n), Kept(b, o, i, n))]
    BY <2>2, <2>3
  <2>5. Restored(Cut(b, o, bytes, i, n), Kept(b, o, i, n)) = Filled(b)
    <3>1. Listed(b) /\ Span(b, o, bytes, i, n)
      BY <1>3, <2>1 DEF IsCut, b
    <3>2. QED
      BY <3>1, RestoreUndoes
  <2>6. list' = [list EXCEPT ![b] = Filled(b)]
    BY <2>4, <2>5
  <2>7. QED
    BY <1>1, <1>3, <2>6 DEF b
<1>4. CASE ~ Begun(c) \/ ~ Listed(Target(c))
  <2>1. ~ saved[c]
    <3>1. phase[c] \in {"fresh", "started", "waited"}
      BY DEF IInv, Typed
    <3>2. QED
      BY <1>1, <1>4, <3>1 DEF CutKept, Begun
  <2>2. list' = list
    BY <2>1 DEF Restore
  <2>3. Begun(c) => list[Target(c)] = Filled(Target(c))
    BY <1>1, <1>4 DEF CutKept
  <2>4. QED
    BY <1>1, <2>2, <2>3
<1>5. QED
  BY <1>3, <1>4

\* What Wait and WaitTimeout have in common.
Ends(c) ==
    /\ Restore(c)
    /\ phase[c] # "fresh"
    /\ phase' = [phase EXCEPT ![c] = "waited"]
    /\ moved' = [moved EXCEPT ![c] = <<>>]
    /\ \E r \in Requests : /\ request' = [request EXCEPT ![c] = r]
                           /\ engine[c] = "busy" => r.buf = Target(c)
    /\ UNCHANGED <<engine, cur>>

\* Wait and WaitTimeout do.
LEMMA WaitEnds ==
    ASSUME IInv, NEW c \in Channels, Wait(c) \/ WaitTimeout(c)
    PROVE  Ends(c)
<1>1. request[c] \in Requests /\ request \in [Channels -> Requests]
  BY RequestTyped DEF IInv, Typed
<1>2. PICK x \in Buffers : x = CHOOSE y \in Buffers : TRUE
  BY BuffersAssumption
<1>3. NoRequest \in Requests
  BY <1>2, ChannelsAssumption DEF NoRequest, Requests, Dwords
<1>4. CASE Wait(c)
  BY <1>3, <1>4 DEF Wait, Ends
<1>5. CASE WaitTimeout(c)
  <2> DEFINE r == [request[c] EXCEPT !.offset = 0, !.count = 0]
  <2>1. r \in Requests /\ r.buf = Target(c)
    <3>1. request[c] \in [buf : Buffers, offset : Dwords, count : Dwords]
      BY <1>1 DEF Requests
    <3>2. r = [buf |-> request[c].buf, offset |-> 0, count |-> 0]
      <4>1. PICK u, v, w : request[c] = [buf |-> u, offset |-> v, count |-> w]
        BY <3>1
      <4>2. PICK q : q = [request[c] EXCEPT !.offset = 0]
        OBVIOUS
      <4>3. q = [buf |-> u, offset |-> 0, count |-> w] /\ r = [q EXCEPT !.count = 0]
        BY <4>1, <4>2
      <4>4. r = [buf |-> u, offset |-> 0, count |-> 0]
        <5> HIDE DEF r
        <5>1. QED
          BY <4>3
      <4>5. request[c].buf = u
        BY <4>1
      <4>6. QED
        BY <4>4, <4>5
    <3>3. 0 \in Dwords /\ request[c].buf \in Buffers
      BY <3>1, ChannelsAssumption DEF Dwords
    <3> HIDE DEF r
    <3>4. QED
      BY <3>2, <3>3 DEF Requests, Target
  <2>2. request' = [request EXCEPT ![c] = r]
    BY <1>1, <1>5 DEF WaitTimeout
  <2> HIDE DEF r
  <2>3. QED
    BY <1>5, <2>1, <2>2 DEF WaitTimeout, Ends
<1>6. QED
  BY <1>4, <1>5

\* A wait keeps the invariant.
LEMMA EndsKeeps ==
    ASSUME IInv, NEW c \in Channels, Ends(c)
    PROVE  IInv'
<1>1. PICK r \in Requests : /\ request' = [request EXCEPT ![c] = r]
                            /\ engine[c] = "busy" => r.buf = Target(c)
  BY DEF Ends
<1>2. list' = [b \in Buffers |-> IF Begun(c) /\ Target(c) = b THEN Filled(b) ELSE list[b]]
  BY RestoreList DEF Ends
<1>3. /\ phase' = [phase EXCEPT ![c] = "waited"] /\ moved' = [moved EXCEPT ![c] = <<>>]
      /\ saved' = [saved EXCEPT ![c] = FALSE] /\ savedData' = [savedData EXCEPT ![c] = NoData]
      /\ engine' = engine /\ cur' = cur
  BY DEF Ends, Restore
<1>4. Typed
  BY DEF IInv
<1>5. Typed'
  <2>1. PICK x \in Buffers : x = CHOOSE y \in Buffers : TRUE
    BY BuffersAssumption
  <2>2. NoData \in SavedRecords
    BY <2>1 DEF NoData, SavedRecords
  <2>3. <<>> \in Seq(Nat \X Nat)
    OBVIOUS
  <2>4. DOMAIN list' = Buffers /\ list' = [b \in Buffers |-> list'[b]]
    BY <1>2
  <2>5. /\ saved' \in [Channels -> BOOLEAN] /\ savedData' \in [Channels -> SavedRecords]
        /\ request' \in [Channels -> Requests]
    BY <1>1, <1>3, <1>4, <2>2 DEF Typed
  <2>6. /\ engine' \in [Channels -> {"idle", "busy", "timeout"}]
        /\ cur' \in [Channels -> Descriptors]
        /\ moved' \in [Channels -> Seq(Nat \X Nat)]
        /\ phase' \in [Channels -> {"fresh", "started", "waited"}]
    BY <1>3, <1>4, <2>3 DEF Typed
  <2>7. QED
    BY <2>4, <2>5, <2>6 DEF Typed
<1>6. /\ ~ Begun(c)' /\ phase'[c] = "waited"
      /\ \A d \in Channels : d # c => Begun(d)' = Begun(d) /\ Target(d)' = Target(d)
  BY <1>1, <1>3, <1>4 DEF Typed, Begun, Target
<1>7. Apart'
  BY <1>6 DEF IInv, Apart
<1>8. ListsRestored'
  <2>1. SUFFICES ASSUME NEW b \in Buffers, \A d \in Channels : Begun(d)' => Target(d)' # b
                 PROVE  list'[b] = Filled(b)
    BY DEF ListsRestored, Target
  <2>2. CASE Begun(c) /\ Target(c) = b
    BY <1>2, <2>2
  <2>3. CASE ~ (Begun(c) /\ Target(c) = b)
    <3>1. \A d \in Channels : Begun(d) => Target(d) # b
      BY <1>6, <2>1, <2>3
    <3>2. list[b] = Filled(b)
      BY <3>1 DEF IInv, ListsRestored, Target
    <3>3. QED
      BY <1>2, <2>3, <3>2
  <2>4. QED
    BY <2>2, <2>3
<1>9. ChannelInv(c)'
  <2>1. LinkInList(c)'
    <3>1. Target(c)' = r.buf
      BY <1>1, <1>4 DEF Typed, Target
    <3>2. LinkInList(c)
      BY DEF IInv, ChannelInv
    <3>3. QED
      BY <1>1, <1>3, <3>1, <3>2 DEF LinkInList
  <2>2. CutKept(c)'
    BY <1>3, <1>4, <1>6 DEF CutKept, Typed
  <2>3. QED
    BY <1>6, <2>1, <2>2 DEF ChannelInv
<1>10. ASSUME NEW d \in Channels, d # c PROVE ChannelInv(d)'
  <2>1. Begun(d) => list'[Target(d)] = list[Target(d)]
    <3>1. Target(d) \in Buffers
      BY RequestTyped
    <3>2. Begun(d) /\ Begun(c) => Target(c) # Target(d)
      BY <1>10 DEF IInv, Apart
    <3>3. QED
      BY <1>2, <3>1, <3>2
  <2>2. Alike(d)
    BY <1>1, <1>3, <1>4, <1>10, <2>1 DEF Alike, Typed
  <2>3. QED
    BY <2>2, OthersKeep DEF IInv
<1>11. QED
  BY <1>5, <1>7, <1>8, <1>9, <1>10 DEF IInv

-----------------------------------------------------------------------------
\* A buffer with a list, and one without.
StartsListed(c, b, offset, count) ==
    \E i, n : Sent(c, b, offset * Word, count * Word, i, n)

StartsKernel(c, b, offset, count) ==
    SendKernel(c, b, offset, count * Word)

\* What a start comes to for a buffer with a list and for one without.
LEMMA StartCases ==
    ASSUME IInv, NEW c \in Channels, NEW b \in Buffers,
           NEW offset \in Dwords, NEW count \in Dwords, Start(c, b, offset, count)
    PROVE  /\ offset \in Nat /\ count \in Nat \ {0}
           /\ offset * Word \in Nat /\ count * Word \in Nat \ {0}
           /\ offset * Word + count * Word <= Size(b)
           /\ ~ Begun(c) /\ \A d \in Channels : Begun(d) => Target(d) # b
           /\ \/ Listed(b) /\ StartsListed(c, b, offset, count)
              \/ Type[b] = "KERNEL" /\ StartsKernel(c, b, offset, count)
<1>1. /\ offset \in Nat /\ count \in Nat \ {0} /\ Word \in Nat \ {0} /\ Size(b) \in Nat
      /\ (offset + count) * Word <= Size(b)
  BY ChannelsAssumption, WordAssumption, BlocksSized DEF Dwords, Start
<1>2. /\ offset * Word \in Nat /\ count * Word \in Nat \ {0}
      /\ (offset + count) * Word = offset * Word + count * Word
  <2>1. count * Word # 0
    BY <1>1, SMTT(30)
  <2>2. QED
    BY <1>1, <2>1, SMTT(30)
<1>3. ~ Begun(c) /\ \A d \in Channels : Begun(d) => Target(d) # b
  BY DEF Start, Begun, Target
<1>4. list[b] = Filled(b)
  BY <1>3 DEF IInv, ListsRestored, Target
<1> DEFINE o == offset * Word
           bytes == count * Word
<1>5. CASE Type[b] = "KERNEL"
  BY <1>1, <1>2, <1>3, <1>5 DEF Start, StartsKernel
<1>6. CASE Type[b] # "KERNEL" /\ offset = 0 /\ bytes = Size(b)
  <2>1. Listed(b) /\ SendWhole(c, b)
    BY <1>6 DEF Start, Listed
  <2>2. \E i, n : Sent(c, b, 0, Size(b), i, n)
    BY <1>4, <2>1, WholeSent
  <2>3. o = 0
    BY <1>1, <1>6
  <2>4. StartsListed(c, b, offset, count)
    BY <1>6, <2>2, <2>3 DEF StartsListed
  <2>5. QED
    BY <1>1, <1>2, <1>3, <2>1, <2>4
<1>7. CASE Type[b] # "KERNEL" /\ ~ (offset = 0 /\ bytes = Size(b))
  <2>1. Listed(b) /\ SendPart(c, b, o, bytes)
    BY <1>7 DEF Start, Listed
  <2>2. o \in Nat /\ bytes \in Nat \ {0} /\ o + bytes <= Size(b)
    BY <1>1, <1>2
  <2>3. \E i, n : Sent(c, b, o, bytes, i, n)
    <3> HIDE DEF o, bytes
    <3>1. QED
      BY <1>4, <2>1, <2>2, PartSent
  <2>4. StartsListed(c, b, offset, count)
    BY <2>3 DEF StartsListed
  <2>5. QED
    BY <1>1, <1>2, <1>3, <2>1, <2>4
<1>8. QED
  BY <1>5, <1>6, <1>7

\* What is written to the channel and kept for it has its type.
LEMMA FirstTyped ==
    ASSUME NEW b, Listed(b), NEW o, NEW bytes, NEW i, NEW n, Span(b, o, bytes, i, n)
    PROVE  /\ First(b, o, bytes, i, n) \in Descriptors
           /\ First(b, o, bytes, i, n).next \in 0 .. Len(Filled(b))
           /\ Kept(b, o, i, n) \in SavedRecords
<1>1. PICK j \in i .. n : First(b, o, bytes, i, n) = Loaded(b, o, bytes, i, n, j)
  BY LoadFirst DEF Reached, HasLoaded
<1>2. /\ First(b, o, bytes, i, n) \in Descriptors
      /\ First(b, o, bytes, i, n).next \in 0 .. Len(Filled(b))
  BY <1>1, LoadedTyped
<1>3. /\ i \in Nat /\ n \in Nat /\ o - Pos(b, i - 1) \in Nat /\ Filled(b)[n].len \in Nat
      /\ b \in Buffers
  <2>1. n \in 1 .. Len(Filled(b)) /\ o - Pos(b, i - 1) \in Nat
    BY SpanFacts
  <2>2. QED
    BY <1>1, <2>1, SpanPositions, FilledFields DEF Listed
<1>4. Kept(b, o, i, n) \in SavedRecords
  BY <1>3 DEF Kept, SavedRecords
<1>5. QED
  BY <1>2, <1>4

\* A start keeps the invariant.
LEMMA StartKeeps ==
    ASSUME IInv, NEW c \in Channels, NEW b \in Buffers,
           NEW offset \in Dwords, NEW count \in Dwords, Start(c, b, offset, count)
    PROVE  IInv'
<1> DEFINE o == offset * Word
           bytes == count * Word
           r == [buf |-> b, offset |-> offset, count |-> count]
<1>1. /\ offset \in Nat /\ count \in Nat \ {0}
      /\ o \in Nat /\ bytes \in Nat \ {0} /\ o + bytes <= Size(b)
      /\ ~ Begun(c) /\ \A d \in Channels : Begun(d) => Target(d) # b
      /\ \/ Listed(b) /\ StartsListed(c, b, offset, count)
         \/ Type[b] = "KERNEL" /\ StartsKernel(c, b, offset, count)
  BY StartCases
<1>2. /\ engine' = [engine EXCEPT ![c] = "busy"]
      /\ moved' = [moved EXCEPT ![c] = <<>>]
      /\ request' = [request EXCEPT ![c] = r]
      /\ phase' = [phase EXCEPT ![c] = "started"]
  BY DEF Start
<1>3. Typed
  BY DEF IInv
<1>4. r \in Requests /\ r.buf = b /\ r.offset = offset /\ r.count = count
  BY DEF Requests
<1>5. /\ request' \in [Channels -> Requests]
      /\ engine' \in [Channels -> {"idle", "busy", "timeout"}]
      /\ moved' \in [Channels -> Seq(Nat \X Nat)]
      /\ phase' \in [Channels -> {"fresh", "started", "waited"}]
      /\ request'[c] = r /\ engine'[c] = "busy" /\ moved'[c] = <<>> /\ phase'[c] = "started"
  <2>1. <<>> \in Seq(Nat \X Nat)
    OBVIOUS
  <2> HIDE DEF r
  <2>2. QED
    BY <1>2, <1>3, <1>4, <2>1 DEF Typed
<1>6. /\ Begun(c)' /\ Target(c)' = b /\ From(c)' = o /\ Total(c)' = bytes
      /\ \A d \in Channels : d # c => Begun(d)' = Begun(d) /\ Target(d)' = Target(d)
  <2>1. Begun(c)' /\ \A d \in Channels : d # c => Begun(d)' = Begun(d)
    BY <1>2, <1>3 DEF Typed, Begun
  <2>2. Target(c)' = b /\ From(c)' = o /\ Total(c)' = bytes
    BY <1>4, <1>5 DEF Target, From, Total
  <2>3. \A d \in Channels : d # c => Target(d)' = Target(d)
    BY <1>2, <1>3 DEF Typed, Target
  <2>4. QED
    BY <2>1, <2>2, <2>3
<1>7. Apart'
  BY <1>1, <1>6 DEF IInv, Apart
<1> HIDE DEF r
\* What the two kinds of buffers have in common.
<1> DEFINE OthersAlike ==
        /\ DOMAIN list' = Buffers /\ list' = [x \in Buffers |-> list'[x]]
        /\ \A x \in Buffers : x # b => list'[x] = list[x]
        /\ saved' \in [Channels -> BOOLEAN] /\ savedData' \in [Channels -> SavedRecords]
        /\ cur' \in [Channels -> Descriptors]
        /\ \A d \in Channels : d # c => /\ saved'[d] = saved[d] /\ savedData'[d] = savedData[d]
                                        /\ cur'[d] = cur[d]
<1>8. ASSUME OthersAlike, ChannelInv(c)' PROVE IInv'
  <2>1. Typed'
    BY <1>5, <1>8 DEF Typed
  <2>2. ListsRestored'
    <3>1. SUFFICES ASSUME NEW x \in Buffers, \A d \in Channels : Begun(d)' => Target(d)' # x
                   PROVE  list'[x] = Filled(x)
      BY DEF ListsRestored, Target
    <3>2. x # b /\ \A d \in Channels : Begun(d) => Target(d) # x
      BY <1>1, <1>6, <3>1
    <3>3. list[x] = Filled(x)
      BY <3>2 DEF IInv, ListsRestored, Target
    <3>4. QED
      BY <1>8, <3>2, <3>3
  <2>3. ASSUME NEW d \in Channels, d # c PROVE ChannelInv(d)'
    <3>1. Begun(d) => list'[Target(d)] = list[Target(d)]
      BY <1>1, <1>8, RequestTyped
    <3>2. /\ request'[d] = request[d] /\ phase'[d] = phase[d]
          /\ engine'[d] = engine[d] /\ moved'[d] = moved[d]
      BY <1>2, <1>3, <2>3 DEF Typed
    <3>3. Alike(d)
      BY <1>8, <2>3, <3>1, <3>2 DEF Alike
    <3>4. QED
      BY <3>3, OthersKeep DEF IInv
  <2>4. QED
    BY <1>7, <1>8, <2>1, <2>2, <2>3 DEF IInv
<1>9. CASE Listed(b) /\ StartsListed(c, b, offset, count)
  <2>1. PICK i, n : Sent(c, b, o, bytes, i, n)
    BY <1>9 DEF StartsListed
  <2> HIDE DEF o, bytes
  <2>2. /\ Span(b, o, bytes, i, n)
        /\ list' = [list EXCEPT ![b] = Cut(b, o, bytes, i, n)]
        /\ savedData' = [savedData EXCEPT ![c] = Kept(b, o, i, n)]
        /\ saved' = [saved EXCEPT ![c] = TRUE]
        /\ cur' = [cur EXCEPT ![c] = First(b, o, bytes, i, n)]
    BY <2>1 DEF Sent
  <2>3. /\ First(b, o, bytes, i, n) \in Descriptors
        /\ First(b, o, bytes, i, n).next \in 0 .. Len(Filled(b))
        /\ Kept(b, o, i, n) \in SavedRecords
    BY <1>9, <2>2, FirstTyped
  <2>4. OthersAlike
    BY <1>3, <2>2, <2>3 DEF Typed
  <2>5. /\ list'[b] = Cut(b, o, bytes, i, n) /\ savedData'[c] = Kept(b, o, i, n)
        /\ saved'[c] /\ cur'[c] = First(b, o, bytes, i, n)
    BY <1>3, <2>2 DEF Typed
  <2>6. savedData'[c].init = i /\ savedData'[c].last = n
    BY <2>5 DEF Kept
  <2>7. LinkInList(c)'
    BY <1>6, <2>3, <2>5 DEF LinkInList
  <2>8. CutKept(c)'
    <3>1. IsCut(c, b, o, bytes, i, n)'
      BY <2>2, <2>5 DEF IsCut
    <3>2. IsCut(c, Target(c), From(c), Total(c), savedData[c].init, savedData[c].last)'
      BY <1>6, <2>6, <3>1 DEF IsCut
    <3>3. phase'[c] # "waited"
      BY <1>5
    <3>4. QED
      BY <1>6, <1>9, <3>2, <3>3 DEF CutKept
  <2>9. Going(c)'
    <3>1. Beginning(b, o, <<>>) /\ Len(<<>>) = 0
      BY DEF Beginning
    <3>2. Reached(b, o, bytes, i, n, <<>>, First(b, o, bytes, i, n))
      BY <1>9, <2>2, LoadFirst
    <3>3. 0 <= bytes
      BY <1>1
    <3>4. Beginning(Target(c), From(c), moved[c])' /\ Len(moved'[c]) <= Total(c)'
      BY <1>5, <1>6, <3>1, <3>3
    <3>5. Reached(Target(c), From(c), Total(c), savedData[c].init, savedData[c].last,
                  moved[c], cur[c])'
      BY <1>5, <1>6, <2>5, <2>6, <3>2
    <3>6. engine'[c] = "busy" /\ Listed(Target(c))'
      BY <1>5, <1>6, <1>9
    <3>7. QED
      BY <3>4, <3>5, <3>6 DEF Going
  <2>10. QED
    BY <1>8, <2>4, <2>7, <2>8, <2>9 DEF ChannelInv
<1>10. CASE Type[b] = "KERNEL" /\ StartsKernel(c, b, offset, count)
  <2> DEFINE e == [addr |-> SG[b][1].addr + offset, len |-> bytes, next |-> 0,
                   per |-> BoardAddr * Word, control |-> {"V", "UPA", "LAST"}]
  <2>1. /\ cur' = [cur EXCEPT ![c] = e] /\ saved' = [saved EXCEPT ![c] = FALSE]
        /\ savedData' = [savedData EXCEPT ![c] = NoData] /\ list' = list
    BY <1>10 DEF StartsKernel, SendKernel
  <2>2. e \in Descriptors /\ e.next = 0
    BY <1>1, <1>10, KernelTyped
  <2>3. NoData \in SavedRecords
    <3>1. PICK x \in Buffers : x = CHOOSE y \in Buffers : TRUE
      BY BuffersAssumption
    <3>2. QED
      BY <3>1 DEF NoData, SavedRecords
  <2>4. ~ Listed(b) /\ Len(Filled(b)) = 0
    BY <1>10, FilledKernel DEF Listed
  <2>e. e = [addr |-> SG[b][1].addr + offset, len |-> bytes, next |-> 0,
             per |-> BoardAddr * Word, control |-> {"V", "UPA", "LAST"}]
    OBVIOUS
  <2> HIDE DEF e, o, bytes
  <2>5. OthersAlike
    BY <1>3, <2>1, <2>2, <2>3 DEF Typed
  <2>6. cur'[c] = e /\ ~ saved'[c]
    BY <1>3, <2>1 DEF Typed
  <2>7. LinkInList(c)'
    BY <1>6, <2>2, <2>4, <2>6 DEF LinkInList
  <2>8. CutKept(c)'
    <3>1. list'[b] = Filled(b)
      BY <1>1, <2>1 DEF IInv, ListsRestored, Target
    <3>2. QED
      BY <1>5, <1>6, <2>4, <2>6, <3>1 DEF CutKept
  <2>9. ASSUME ~ Unscaled(c)' PROVE Going(c)'
    <3>1. offset = 0
      BY <1>4, <1>5, <1>10, <2>9 DEF Unscaled
    <3>2. o = 0
      <4>1. Word \in Nat
        BY WordAssumption
      <4>2. QED
        BY <3>1, <4>1 DEF o
    <3>3. e = KernelBytes(b, bytes)
      <4>1. SG[b][1].addr + offset = SG[b][1].addr
        BY <1>10, <3>1, OneBlock DEF Block
      <4>2. QED
        BY <2>e, <4>1 DEF KernelBytes
    <3>4. Beginning(b, o, <<>>) /\ Len(<<>>) = 0 /\ 0 <= bytes /\ bytes <= Size(b)
      <4>1. 0 <= bytes /\ bytes <= Size(b)
        <5>1. Size(b) \in Nat
          BY BlocksSized
        <5>2. QED
          BY <1>1, <3>2, <5>1
      <4>2. QED
        BY <4>1 DEF Beginning
    <3>5. Beginning(Target(c), From(c), moved[c])' /\ Len(moved'[c]) <= Total(c)'
      BY <1>5, <1>6, <3>4
    <3>6. engine'[c] = "busy" /\ ~ Listed(Target(c))'
      BY <1>5, <1>6, <2>4
    <3>7. /\ moved'[c] = <<>> /\ cur'[c] = KernelBytes(Target(c), Total(c))'
          /\ From(c)' = 0 /\ Total(c)' <= Size(Target(c))'
      BY <1>5, <1>6, <2>6, <3>2, <3>3, <3>4
    <3>8. QED
      BY <3>5, <3>6, <3>7 DEF Going
  <2>10. QED
    BY <1>8, <2>5, <2>7, <2>8, <2>9 DEF ChannelInv
<1>11. QED
  BY <1>1, <1>9, <1>10

-----------------------------------------------------------------------------
\* The three ways a step of the board ends.
WalkLast(c) ==
    /\ "LAST" \in cur[c].control
    /\ engine' = [engine EXCEPT ![c] = "idle"]
    /\ cur' = [cur EXCEPT ![c] = Unloaded]

WalkEnds(c) ==
    /\ "LAST" \notin cur[c].control
    /\ cur[c].next = 0
    /\ engine' = [engine EXCEPT ![c] = "timeout"]
    /\ cur' = [cur EXCEPT ![c] = Unloaded]

NextIs(c, e, z, p) ==
    /\ LoadsNext(list[Target(c)], cur[c], e, z, p)
    /\ cur' = [cur EXCEPT ![c] = [e EXCEPT !.control = z, !.per = p]]

WalkNext(c) ==
    /\ "LAST" \notin cur[c].control
    /\ cur[c].next # 0
    /\ \E e, z, p : NextIs(c, e, z, p)
    /\ engine' = engine

\* A step of the board, said by its ways to end.
LEMMA WalkCases ==
    ASSUME NEW c \in Channels, Walk(c)
    PROVE  /\ engine[c] = "busy"
           /\ moved' = [moved EXCEPT ![c] = IF Begun(c) THEN @ \o Bytes(cur[c]) ELSE @]
           /\ WalkLast(c) \/ WalkEnds(c) \/ WalkNext(c)
           /\ list' = list /\ saved' = saved /\ savedData' = savedData
           /\ request' = request /\ phase' = phase
<1>1. /\ engine[c] = "busy"
      /\ moved' = [moved EXCEPT ![c] = IF Begun(c) THEN @ \o Bytes(cur[c]) ELSE @]
      /\ list' = list /\ saved' = saved /\ savedData' = savedData
      /\ request' = request /\ phase' = phase
  BY DEF Walk, Begun
<1>2. CASE /\ "LAST" \notin cur[c].control /\ cur[c].next # 0
           /\ LET d == list[request[c].buf][cur[c].next]
                  control == IF "V" \in d.control THEN d.control ELSE cur[c].control
              IN  cur' = [cur EXCEPT ![c] =
                     [d EXCEPT !.control = control,
                        !.per = IF "UPA" \in control THEN @ ELSE cur[c].per + cur[c].len]]
           /\ UNCHANGED engine
  <2>1. PICK e : e = list[Target(c)][cur[c].next]
    OBVIOUS
  <2>2. PICK z : z = IF "V" \in e.control THEN e.control ELSE cur[c].control
    OBVIOUS
  <2>3. PICK p : p = IF "UPA" \in z THEN e.per ELSE cur[c].per + cur[c].len
    OBVIOUS
  <2>4. cur' = [cur EXCEPT ![c] = [e EXCEPT !.control = z, !.per = p]]
    BY <1>2, <2>1, <2>2, <2>3 DEF Target
  <2>5. LoadsNext(list[Target(c)], cur[c], e, z, p)
    BY <2>1, <2>2, <2>3 DEF LoadsNext
  <2>6. NextIs(c, e, z, p)
    BY <2>4, <2>5 DEF NextIs
  <2>7. "LAST" \notin cur[c].control /\ cur[c].next # 0 /\ engine' = engine
    BY <1>2
  <2>8. WalkNext(c)
    BY <2>6, <2>7 DEF WalkNext
  <2>9. QED
    BY <1>1, <2>8
<1>3. CASE WalkLast(c) \/ WalkEnds(c)
  BY <1>1, <1>3
<1>4. QED
  BY <1>2, <1>3 DEF Walk, WalkLast, WalkEnds

\* What is loaded next is a descriptor whose link is in the list.
LEMMA NextTyped ==
    ASSUME NEW b, NEW l, IsList(l, b), NEW d \in Descriptors,
           d.next \in 0 .. Len(Filled(b)), d.next # 0,
           NEW e, NEW z, NEW p, LoadsNext(l, d, e, z, p)
    PROVE  /\ [e EXCEPT !.control = z, !.per = p] \in Descriptors
           /\ [e EXCEPT !.control = z, !.per = p].next \in 0 .. Len(Filled(b))
<1>1. d.next \in 1 .. Len(l) /\ l \in Seq(Descriptors) /\ Len(l) = Len(Filled(b))
  BY DEF IsList
<1>2. e \in Descriptors /\ e.next \in 0 .. Len(Filled(b))
  BY <1>1 DEF IsList, LoadsNext
<1>3. PICK ae, xe, ye, pe, ze : e = Desc(ae, xe, ye, pe, ze) /\ ae \in Nat /\ xe \in Nat
          /\ ye \in Nat /\ pe \in Nat /\ ze \in SUBSET {"V", "UPA", "LAST"}
  BY <1>2 DEF Descriptors, Desc
<1>4. z \in SUBSET {"V", "UPA", "LAST"} /\ p \in Nat
  <2>1. d.control \in SUBSET {"V", "UPA", "LAST"} /\ d.per \in Nat /\ d.len \in Nat
    BY DEF Descriptors
  <2>2. e.control = ze /\ e.per = pe
    BY <1>3 DEF Desc
  <2>3. d.per + d.len \in Nat
    BY <2>1
  <2>4. z \in SUBSET {"V", "UPA", "LAST"}
    BY <1>3, <2>1, <2>2 DEF LoadsNext
  <2>5. p \in Nat
    BY <1>3, <2>2, <2>3 DEF LoadsNext
  <2>6. QED
    BY <2>4, <2>5
<1>5. [e EXCEPT !.control = z, !.per = p] = Desc(ae, xe, ye, p, z)
  <2>1. [Desc(ae, xe, ye, pe, ze) EXCEPT !.control = z] = Desc(ae, xe, ye, pe, z)
    BY DEF Desc
  <2>2. [Desc(ae, xe, ye, pe, z) EXCEPT !.per = p] = Desc(ae, xe, ye, p, z)
    BY DEF Desc
  <2>3. [e EXCEPT !.control = z, !.per = p] = [[e EXCEPT !.control = z] EXCEPT !.per = p]
    BY <1>3 DEF Desc
  <2>4. QED
    BY <1>3, <2>1, <2>2, <2>3
<1>6. Desc(ae, xe, ye, p, z) \in Descriptors
  BY <1>3, <1>4, DescTyped
<1>7. Desc(ae, xe, ye, p, z).next = ye /\ e.next = ye
  BY <1>3 DEF Desc
<1>8. QED
  BY <1>2, <1>5, <1>6, <1>7

\* A step of the board keeps the types, the link and the other channels.
LEMMA WalkTyped ==
    ASSUME IInv, NEW c \in Channels, Walk(c)
    PROVE  Typed' /\ LinkInList(c)' /\ (WalkLast(c) \/ WalkEnds(c) => engine'[c] # "busy")
           /\ \A d \in Channels : d # c => Alike(d)
<1>1. /\ engine[c] = "busy"
      /\ moved' = [moved EXCEPT ![c] = IF Begun(c) THEN @ \o Bytes(cur[c]) ELSE @]
      /\ WalkLast(c) \/ WalkEnds(c) \/ WalkNext(c)
      /\ list' = list /\ saved' = saved /\ savedData' = savedData
      /\ request' = request /\ phase' = phase
  BY WalkCases
<1>2. Typed
  BY DEF IInv
<1>3. moved' \in [Channels -> Seq(Nat \X Nat)]
  <2>1. cur[c] \in Descriptors /\ moved[c] \in Seq(Nat \X Nat)
    BY <1>2 DEF Typed
  <2>2. Bytes(cur[c]) \in Seq(Nat \X Nat)
    BY <2>1, BytesTyped
  <2>3. PICK t : t = IF Begun(c) THEN moved[c] \o Bytes(cur[c]) ELSE moved[c]
    OBVIOUS
  <2>4. t \in Seq(Nat \X Nat)
    BY <2>1, <2>2, <2>3, Concatenated
  <2>5. moved' = [moved EXCEPT ![c] = t]
    BY <1>1, <2>3
  <2>6. QED
    BY <1>2, <2>4, <2>5 DEF Typed
<1>4. Target(c) \in Buffers /\ Target(c)' = Target(c)
  BY <1>1, RequestTyped DEF Target
<1>5. \E e \in Descriptors, x \in {"idle", "busy", "timeout"} :
          /\ cur' = [cur EXCEPT ![c] = e] /\ engine' = [engine EXCEPT ![c] = x]
          /\ x = "busy" => e.next \in 0 .. Len(Filled(Target(c)))
          /\ WalkLast(c) \/ WalkEnds(c) => x # "busy"
  <2>1. Unloaded \in Descriptors
    BY DEF Unloaded, Descriptors
  <2>2. CASE WalkLast(c)
    BY <2>1, <2>2 DEF WalkLast, WalkEnds
  <2>3. CASE WalkEnds(c)
    BY <2>1, <2>3 DEF WalkLast, WalkEnds
  <2>4. CASE WalkNext(c)
    <3>1. PICK e, z, p :
              /\ LoadsNext(list[Target(c)], cur[c], e, z, p)
              /\ cur' = [cur EXCEPT ![c] = [e EXCEPT !.control = z, !.per = p]]
      BY <2>4 DEF WalkNext, NextIs
    <3>2. IsList(list[Target(c)], Target(c))
      BY <1>4, ListIs
    <3>3. cur[c] \in Descriptors /\ cur[c].next \in 0 .. Len(Filled(Target(c))) /\ cur[c].next # 0
      BY <1>1, <1>2, <2>4 DEF Typed, IInv, ChannelInv, LinkInList, WalkNext
    <3>4. /\ [e EXCEPT !.control = z, !.per = p] \in Descriptors
          /\ [e EXCEPT !.control = z, !.per = p].next \in 0 .. Len(Filled(Target(c)))
      BY <3>1, <3>2, <3>3, NextTyped
    <3>5. engine' = [engine EXCEPT ![c] = "busy"]
      BY <1>1, <1>2, <2>4 DEF WalkNext, Typed
    <3>6. ~ WalkLast(c) /\ ~ WalkEnds(c)
      BY <2>4 DEF WalkNext, WalkLast, WalkEnds
    <3>7. QED
      BY <3>1, <3>4, <3>5, <3>6
  <2>5. QED
    BY <1>1, <2>2, <2>3, <2>4
<1>6. PICK e \in Descriptors, x \in {"idle", "busy", "timeout"} :
          /\ cur' = [cur EXCEPT ![c] = e] /\ engine' = [engine EXCEPT ![c] = x]
          /\ x = "busy" => e.next \in 0 .. Len(Filled(Target(c)))
          /\ WalkLast(c) \/ WalkEnds(c) => x # "busy"
  BY <1>5
<1>7. /\ engine' \in [Channels -> {"idle", "busy", "timeout"}]
      /\ cur' \in [Channels -> Descriptors] /\ cur'[c] = e /\ engine'[c] = x
  BY <1>2, <1>6 DEF Typed
<1>8. Typed'
  BY <1>1, <1>2, <1>3, <1>7 DEF Typed
<1>9. LinkInList(c)'
  BY <1>4, <1>6, <1>7 DEF LinkInList
<1>10. ASSUME NEW d \in Channels, d # c PROVE Alike(d)
  BY <1>1, <1>2, <1>6, <1>10 DEF Alike, Typed
<1>11. QED
  BY <1>6, <1>7, <1>8, <1>9, <1>10

\* It brings a started transfer on.
LEMMA WalkGoes ==
    ASSUME IInv, NEW c \in Channels, Walk(c), Begun(c), ~ Unscaled(c)
    PROVE  Going(c)'
<1>0. PICK b, o, bytes, i, n, s, d :
          /\ b = Target(c) /\ o = From(c) /\ bytes = Total(c)
          /\ i = savedData[c].init /\ n = savedData[c].last
          /\ s = moved[c] /\ d = cur[c]
  OBVIOUS
<1>1. /\ engine[c] = "busy"
      /\ moved' = [moved EXCEPT ![c] = IF Begun(c) THEN @ \o Bytes(cur[c]) ELSE @]
      /\ WalkLast(c) \/ WalkEnds(c) \/ WalkNext(c)
      /\ list' = list /\ saved' = saved /\ savedData' = savedData
      /\ request' = request /\ phase' = phase
  BY WalkCases
<1>2. /\ Target(c)' = b /\ From(c)' = o /\ Total(c)' = bytes
      /\ savedData'[c].init = i /\ savedData'[c].last = n
  BY <1>0, <1>1 DEF Target, From, Total
<1>3. Typed /\ Going(c) /\ CutKept(c)
  BY DEF IInv, ChannelInv
<1>4. moved'[c] = s \o Bytes(d) /\ s \in Seq(Nat \X Nat)
  BY <1>0, <1>1, <1>3 DEF Typed
<1>5. b \in Buffers /\ o \in Nat /\ bytes \in Nat
  BY <1>0, RequestTyped
<1>6. Beginning(b, o, s)
  BY <1>0, <1>3 DEF Going
<1>7. CASE Listed(b)
  <2>1. IsCut(c, b, o, bytes, i, n)
    BY <1>0, <1>3, <1>7 DEF CutKept
  <2>2. Reached(b, o, bytes, i, n, s, d)
    BY <1>0, <1>1, <1>3, <1>7 DEF Going
  <2>3. Span(b, o, bytes, i, n) /\ list[b] = Cut(b, o, bytes, i, n)
    BY <2>1 DEF IsCut
  <2>4. PICK j : HasLoaded(b, o, bytes, i, n, j, s, d)
    BY <2>2 DEF Reached
  <2>5. /\ Beginning(b, o, s \o Bytes(d))
        /\ Len(s \o Bytes(d)) = Leave(b, o, bytes, n, j) - o
        /\ Leave(b, o, bytes, n, j) - o <= bytes
    <3>1. s \in Seq(Nat \X Nat)
      BY <1>4
    <3>2. QED
      BY <1>6, <1>7, <2>3, <2>4, <3>1, MovedOn
  <2>6. Beginning(b, o, moved'[c]) /\ Len(moved'[c]) <= bytes
    BY <1>4, <2>5
  <2>7. CASE j = n
    <3>1. "LAST" \in d.control /\ Leave(b, o, bytes, n, j) = o + bytes
      BY <2>4, <2>7, LoadLast
    <3>2. WalkLast(c)
      BY <1>0, <1>1, <3>1 DEF WalkEnds, WalkNext
    <3>3. engine'[c] # "busy"
      BY <3>2, WalkTyped
    <3>4. Len(moved'[c]) = bytes
      <4>1. o + bytes - o = bytes
        BY <1>5
      <4>2. QED
        BY <1>4, <1>5, <2>5, <3>1
    <3>5. QED
      BY <1>2, <2>6, <3>3, <3>4 DEF Going
  <2>8. CASE j # n
    <3>1. "LAST" \notin d.control
      BY <2>4, <2>8, LoadLast
    <3>2. d.next # 0
      <4>1. PICK e : e = Cut(b, o, bytes, i, n)[d.next]
        OBVIOUS
      <4>2. PICK z : z = IF "V" \in e.control THEN e.control ELSE d.control
        OBVIOUS
      <4>3. PICK p : p = IF "UPA" \in z THEN e.per ELSE d.per + d.len
        OBVIOUS
      <4>4. LoadsNext(Cut(b, o, bytes, i, n), d, e, z, p)
        BY <4>1, <4>2, <4>3 DEF LoadsNext
      <4>5. QED
        BY <1>7, <2>3, <2>4, <2>8, <4>4, LoadNext
    <3>3. WalkNext(c)
      BY <1>0, <1>1, <3>1, <3>2 DEF WalkLast, WalkEnds
    <3>4. PICK e, z, p : NextIs(c, e, z, p)
      BY <3>3 DEF WalkNext
    <3>5. LoadsNext(Cut(b, o, bytes, i, n), d, e, z, p)
      BY <1>0, <2>3, <3>4 DEF NextIs
    <3>6. /\ d.next \in i .. n
          /\ WithControl(e, z, p) = Loaded(b, o, bytes, i, n, d.next)
          /\ Leave(b, o, bytes, n, j) = Enter(b, o, i, d.next)
      BY <1>7, <2>3, <2>4, <2>8, <3>5, LoadNext
    <3>7. cur'[c] = WithControl(e, z, p) /\ engine'[c] = "busy"
      BY <1>1, <1>3, <3>3, <3>4 DEF Typed, NextIs, WalkNext, WithControl
    <3>8. cur'[c] = Loaded(b, o, bytes, i, n, d.next)
      BY <3>6, <3>7
    <3>9. Len(moved'[c]) = Enter(b, o, i, d.next) - o
      BY <1>4, <2>5, <3>6
    <3>10. Reached(b, o, bytes, i, n, moved'[c], cur'[c])
      BY <3>6, <3>8, <3>9 DEF Reached, HasLoaded
    <3>11. QED
      BY <1>2, <1>7, <2>6, <3>7, <3>10 DEF Going
  <2>9. QED
    BY <2>7, <2>8
<1>8. CASE ~ Listed(b)
  <2>1. s = <<>> /\ d = KernelBytes(b, bytes) /\ o = 0 /\ bytes <= Size(b)
    BY <1>0, <1>1, <1>3, <1>8 DEF Going
  <2>2. Type[b] = "KERNEL"
    BY <1>5, <1>8 DEF Listed
  <2>3. /\ Beginning(b, 0, <<>> \o Bytes(d)) /\ Len(<<>> \o Bytes(d)) = bytes
        /\ "LAST" \in d.control
    BY <1>5, <2>1, <2>2, KernelMoved
  <2>4. WalkLast(c)
    BY <1>0, <1>1, <2>3 DEF WalkEnds, WalkNext
  <2>5. engine'[c] # "busy"
    BY <2>4, WalkTyped
  <2>6. Beginning(b, o, moved'[c]) /\ Len(moved'[c]) = bytes /\ bytes <= bytes
    BY <1>4, <1>5, <2>1, <2>3
  <2>7. QED
    BY <1>2, <2>5, <2>6 DEF Going
<1>9. QED
  BY <1>7, <1>8

\* A step of the board keeps the invariant.
LEMMA WalkKeeps ==
    ASSUME IInv, NEW c \in Channels, Walk(c)
    PROVE  IInv'
<1>1. /\ list' = list /\ saved' = saved /\ savedData' = savedData
      /\ request' = request /\ phase' = phase
  BY WalkCases
<1>2. Typed' /\ LinkInList(c)' /\ \A d \in Channels : d # c => Alike(d)
  BY WalkTyped
<1>3. Apart' /\ ListsRestored'
  BY <1>1 DEF IInv, Apart, ListsRestored, Begun, Target
<1>4. CutKept(c)'
  BY <1>1 DEF IInv, ChannelInv, CutKept, IsCut, Begun, Target, From, Total
<1>5. (Begun(c) /\ ~ Unscaled(c))' => Going(c)'
  BY <1>1, WalkGoes DEF Begun, Unscaled
<1>6. ASSUME NEW d \in Channels PROVE ChannelInv(d)'
  <2>1. CASE d = c
    BY <1>2, <1>4, <1>5, <2>1 DEF ChannelInv
  <2>2. CASE d # c
    BY <1>2, <2>2, OthersKeep DEF IInv
  <2>3. QED
    BY <2>1, <2>2
<1>7. QED
  BY <1>2, <1>3, <1>6 DEF IInv

\* So does giving a transfer up.
LEMMA GiveUpKeeps ==
    ASSUME IInv, NEW c \in Channels, GiveUp(c)
    PROVE  IInv'
<1>1. /\ list' = list /\ saved' = saved /\ savedData' = savedData
      /\ request' = request /\ phase' = phase /\ moved' = moved
      /\ engine' = [engine EXCEPT ![c] = "timeout"] /\ cur' = [cur EXCEPT ![c] = Unloaded]
  BY DEF GiveUp
<1>2. Typed
  BY DEF IInv
<1>3. Unloaded \in Descriptors
  BY DEF Unloaded, Descriptors
<1>4. Typed' /\ engine'[c] = "timeout"
  BY <1>1, <1>2, <1>3 DEF Typed
<1>5. Apart' /\ ListsRestored'
  BY <1>1 DEF IInv, Apart, ListsRestored, Begun, Target
<1>6. LinkInList(c)'
  BY <1>4 DEF LinkInList
<1>7. CutKept(c)'
  BY <1>1 DEF IInv, ChannelInv, CutKept, IsCut, Begun, Target, From, Total
<1>8. (Begun(c) /\ ~ Unscaled(c))' => Going(c)'
  BY <1>1, <1>4 DEF IInv, ChannelInv, Going, Begun, Unscaled, Target, From, Total
<1>9. ASSUME NEW d \in Channels PROVE ChannelInv(d)'
  <2>1. CASE d = c
    BY <1>6, <1>7, <1>8, <2>1 DEF ChannelInv
  <2>2. CASE d # c
    <3>1. Alike(d)
      BY <1>1, <1>2, <2>2 DEF Alike, Typed
    <3>2. QED
      BY <3>1, OthersKeep DEF IInv
  <2>3. QED
    BY <2>1, <2>2
<1>10. QED
  BY <1>4, <1>5, <1>9 DEF IInv

-----------------------------------------------------------------------------
\* The inductive invariant holds in every state.
THEOREM Invariance == Spec => []IInv
<1>1. Init => IInv
  BY InitInv
<1>2. IInv /\ [Next]_vars => IInv'
  <2>1. SUFFICES ASSUME IInv, [Next]_vars PROVE IInv'
    OBVIOUS
  <2>2. ASSUME NEW c \in Channels, NEW b \in Buffers, NEW offset \in Dwords,
               NEW count \in Dwords, Start(c, b, offset, count)
        PROVE  IInv'
    BY <2>1, <2>2, StartKeeps
  <2>3. ASSUME NEW c \in Channels, Wait(c) \/ WaitTimeout(c) PROVE IInv'
    BY <2>1, <2>3, WaitEnds, EndsKeeps
  <2>4. ASSUME NEW c \in Channels, Walk(c) PROVE IInv'
    BY <2>1, <2>4, WalkKeeps
  <2>5. ASSUME NEW c \in Channels, GiveUp(c) PROVE IInv'
    BY <2>1, <2>5, GiveUpKeeps
  <2>6. CASE UNCHANGED vars
    <3>1. \A c \in Channels : Alike(c)
      BY <2>6 DEF Alike, vars, board
    <3>2. \A c \in Channels : ChannelInv(c)'
      BY <2>1, <3>1, OthersKeep DEF IInv
    <3>3. Typed' /\ Apart' /\ ListsRestored'
      BY <2>1, <2>6 DEF vars, board, IInv, Typed, Apart, ListsRestored, Begun, Target
    <3>4. QED
      BY <3>2, <3>3 DEF IInv
  <2>7. QED
    BY <2>1, <2>2, <2>3, <2>4, <2>5, <2>6 DEF Next
<1>3. QED
  BY <1>1, <1>2, PTL DEF Spec

\* A list that no started channel uses is as fillDescriptorList left it, whatever
\* transfers it was cut for before, and after timeouts as after waits: nothing that
\* restoreSavedData puts back is lost (DMAEngineWG.cpp:222-257).
THEOREM ListsKept == Spec => []ListsRestored
<1>1. IInv => ListsRestored
  BY DEF IInv
<1>2. QED
  BY <1>1, Invariance, PTL

\* Types, the length of the lists and their links (TypeOK).
THEOREM TypeCorrect == Spec => []TypeOK
<1>1. ASSUME IInv PROVE TypeOK
  <2>1. Typed
    BY <1>1 DEF IInv
  <2>2. ASSUME NEW b \in Buffers
        PROVE  /\ list[b] \in Seq(Descriptors) /\ Len(list[b]) = Len(Filled(b))
               /\ \A j \in DOMAIN list[b] :
                     list[b][j].next \in 0 .. Len(list[b]) /\ list[b][j].len <= Size(b)
    <3>1. IsList(list[b], b)
      BY <1>1, ListIs
    <3>2. DOMAIN list[b] = 1 .. Len(list[b])
      BY <3>1 DEF IsList
    <3>3. QED
      BY <3>1, <3>2 DEF IsList
  <2>3. ASSUME NEW c \in Channels
        PROVE  /\ savedData[c].buf \in Buffers
               /\ {savedData[c].init, savedData[c].last, savedData[c].offset,
                   savedData[c].length} \subseteq Nat
               /\ request[c].buf \in Buffers
               /\ {request[c].offset, request[c].count} \subseteq Dwords
               /\ moved[c] \in Seq(Nat \X Nat)
    <3>1. savedData[c] \in SavedRecords /\ request[c] \in Requests /\ moved[c] \in Seq(Nat \X Nat)
      BY <2>1 DEF Typed
    <3>2. QED
      BY <3>1 DEF SavedRecords, Requests
  <2>4. QED
    BY <2>1, <2>2, <2>3 DEF Typed, TypeOK
<1>2. QED
  BY <1>1, Invariance, PTL

\* The board moves the bytes that were asked for, in order, and has moved all of
\* them when the channel is idle, for every buffer with a list, every layout of
\* physical memory, every offset and count (DMAEngineWG.cpp:439-583).
THEOREM RequestMoved == Spec => []ListMovesRequest
<1>1. ASSUME IInv PROVE ListMovesRequest
  <2>1. SUFFICES ASSUME NEW c \in Channels, Begun(c), ~ Unscaled(c)
                 PROVE  /\ IsPrefix(moved[c], Wanted(c))
                        /\ engine[c] = "idle" => moved[c] = Wanted(c)
    BY DEF ListMovesRequest
  <2> DEFINE s == moved[c]
             w == Wanted(c)
  <2>2. Going(c) /\ s \in Seq(Nat \X Nat)
    BY <1>1, <2>1 DEF IInv, ChannelInv, Typed
  <2>3. Total(c) \in Nat
    BY <1>1, RequestTyped
  <2>4. w = [k \in 1 .. Total(c) |-> Byte(Target(c), From(c), k)]
    BY DEF Wanted, Total, From, Target, Byte
  <2>5. Len(w) = Total(c)
    BY <2>3, <2>4
  <2>6. /\ Len(s) \in Nat /\ Len(s) <= Total(c)
        /\ \A k \in 1 .. Len(s) : s[k] = Byte(Target(c), From(c), k)
        /\ engine[c] = "idle" => Len(s) = Total(c)
    BY <2>2 DEF Going, Beginning
  <2>7. s = [k \in 1 .. Len(s) |-> s[k]]
    BY <2>2, Itself
  <2> HIDE DEF s, w
  <2>8. \A k \in 1 .. Len(s) : k \in 1 .. Total(c) /\ s[k] = w[k]
    BY <2>3, <2>4, <2>6
  <2>9. SubSeq(w, 1, Len(s)) = s
    <3>1. SubSeq(w, 1, Len(s)) = [k \in 1 .. Len(s) |-> w[k]]
      BY <2>3, <2>4, <2>5, <2>6
    <3>2. QED
      BY <2>7, <2>8, <3>1
  <2>10. IsPrefix(s, w)
    BY <2>5, <2>6, <2>9 DEF IsPrefix
  <2>11. ASSUME engine[c] = "idle" PROVE s = w
    BY <2>4, <2>6, <2>7, <2>8, <2>11
  <2>12. QED
    BY <2>10, <2>11 DEF s, w
<1>2. QED
  BY <1>1, Invariance, PTL
=============================================================================
