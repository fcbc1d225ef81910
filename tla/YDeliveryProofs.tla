---------------------------- MODULE YDeliveryProofs ----------------------------
(***************************************************************************)
(* DiskInv and NamesInv are invariants: at each place of the sender the    *)
(* receiver has on its disk what it should, under the names it should.  So *)
(* its files are prefixes of those sent, a file the sender reports is all  *)
(* there, and the program implements BatchDelivery.                        *)
(***************************************************************************)
EXTENDS YReportProofs, WellFoundedInduction

USE DEF sFile, sBlk, away, flags, rStore, far

-----------------------------------------------------------------------------
(* Picking places of a sequence.  A set of numbers that has 0 and with     *)
(* each number the next has them all.                                      *)

LEMMA Smallest ==
  ASSUME NEW T, T \subseteq Nat, T # {}
  PROVE  \E n \in T : \A m \in T : n <= m
<1>1. PICK n \in T : \A m \in T : ~ (<<m, n>> \in OpToRel(<, Nat))
  BY NatLessThanWellFounded, WFMin
<1>2. \A m \in T : ~(m < n)
  BY <1>1 DEF OpToRel
<1>3. \A m \in T : n <= m
  BY <1>2
<1> QED
  BY <1>3

LEMMA ByInduction ==
  ASSUME NEW T, 0 \in T, \A n \in Nat : n \in T => n + 1 \in T
  PROVE  \A n \in Nat : n \in T
<1>1. SUFFICES ASSUME NEW k \in Nat, k \notin T PROVE FALSE
  OBVIOUS
<1>2. PICK n \in Nat \ T : \A m \in Nat \ T : n <= m
  BY <1>1, Smallest
<1>3. n # 0 /\ n - 1 \in Nat /\ n - 1 \in T
  BY <1>2
<1> QED
  BY <1>2, <1>3

PickStep(f, seq, S, i) ==
  IF i = 0 THEN <<>> ELSE IF i \in S THEN Append(f[i - 1], seq[i]) ELSE f[i - 1]

IsPick(f, seq, S, n) == f = [i \in 0..n |-> PickStep(f, seq, S, i)]

LEMMA PickAt ==
  ASSUME NEW seq, NEW S, NEW n \in Nat, NEW f, IsPick(f, seq, S, n)
  PROVE  \A i \in 0..n : f[i] = PickStep(f, seq, S, i)
  BY DEF IsPick

LEMMA PickExists ==
  ASSUME NEW seq, NEW S
  PROVE  \A n \in Nat : \E f : IsPick(f, seq, S, n)
<1> DEFINE T == {n \in Nat : \E f : IsPick(f, seq, S, n)}
<1>1. 0 \in T
  <2>1. [i \in 0..0 |-> <<>>] = [i \in 0..0 |-> PickStep([j \in 0..0 |-> <<>>], seq, S, i)]
    BY DEF PickStep
  <2> QED
    BY <2>1 DEF IsPick
<1>2. \A n \in Nat : n \in T => n + 1 \in T
  <2> SUFFICES ASSUME NEW n \in Nat, n \in T PROVE n + 1 \in T
    OBVIOUS
  <2>1. PICK f : IsPick(f, seq, S, n)
    OBVIOUS
  <2> DEFINE g == [i \in 0..(n + 1) |-> IF i = n + 1 THEN PickStep(f, seq, S, n + 1) ELSE f[i]]
  <2>2. \A i \in 0..(n + 1) : g[i] = PickStep(g, seq, S, i)
    <3> TAKE i \in 0..(n + 1)
    <3>1. \A j \in 0..n : g[j] = f[j] /\ f[j] = PickStep(f, seq, S, j)
      BY <2>1, PickAt
    <3>2. g[n + 1] = PickStep(f, seq, S, n + 1)
      OBVIOUS
    <3> HIDE DEF g
    <3>3. i # 0 => g[i - 1] = f[i - 1]
      BY <3>1
    <3>4. CASE i = n + 1
      BY <3>2, <3>3, <3>4 DEF PickStep
    <3>5. CASE i \in 0..n
      BY <3>1, <3>3, <3>5 DEF PickStep
    <3> QED
      BY <3>4, <3>5
  <2>3. g = [i \in 0..(n + 1) |-> PickStep(g, seq, S, i)]
    BY <2>2
  <2>4. \E h : IsPick(h, seq, S, n + 1)
    <3> HIDE DEF g
    <3> QED
      BY <2>3 DEF IsPick
  <2> QED
    BY <2>4
<1> HIDE DEF T
<1>3. \A n \in Nat : n \in T
  BY <1>1, <1>2, ByInduction
<1> QED
  BY <1>3 DEF T

LEMMA PickDef ==
  ASSUME NEW seq, NEW S, NEW n \in Nat
  PROVE  \E f : IsPick(f, seq, S, n) /\ Picked(seq, S, n) = f[n]
<1> DEFINE up == CHOOSE f : IsPick(f, seq, S, n)
<1>1. IsPick(up, seq, S, n)
  BY PickExists
<1>2. Picked(seq, S, n) = up[n]
  BY DEF Picked, PickStep, IsPick
<1> HIDE DEF up
<1> QED
  BY <1>1, <1>2

\* What is picked depends on the places up to n only.
LEMMA SamePicks ==
  ASSUME NEW seq, NEW S, NEW other, NEW O, NEW n \in Nat, NEW m \in Nat, n <= m,
         \A i \in 1..n : seq[i] = other[i] /\ (i \in S <=> i \in O),
         NEW f, IsPick(f, seq, S, n),
         NEW g, IsPick(g, other, O, m)
  PROVE  \A i \in 0..n : f[i] = g[i]
<1> DEFINE T == {i \in Nat : i <= n => f[i] = g[i]}
<1>0. /\ \A i \in 0..n : f[i] = PickStep(f, seq, S, i)
      /\ \A i \in 0..m : g[i] = PickStep(g, other, O, i)
  BY PickAt
<1>1. 0 \in T
  <2>1. 0 \in 0..n /\ 0 \in 0..m
    OBVIOUS
  <2>2. f[0] = <<>> /\ g[0] = <<>>
    BY <1>0, <2>1 DEF PickStep
  <2> QED
    BY <2>2
<1>2. \A i \in Nat : i \in T => i + 1 \in T
  <2> SUFFICES ASSUME NEW i \in Nat, i \in T, i + 1 <= n PROVE f[i + 1] = g[i + 1]
    OBVIOUS
  <2>1. i + 1 \in 0..n /\ i + 1 \in 0..m /\ i + 1 \in 1..n /\ i + 1 # 0 /\ (i + 1) - 1 = i /\ i <= n
    OBVIOUS
  <2>2. f[i] = g[i]
    BY <2>1
  <2>3. f[i + 1] = PickStep(f, seq, S, i + 1) /\ g[i + 1] = PickStep(g, other, O, i + 1)
    BY <1>0, <2>1
  <2>4. seq[i + 1] = other[i + 1] /\ (i + 1 \in S <=> i + 1 \in O)
    BY <2>1
  <2> QED
    BY <2>1, <2>2, <2>3, <2>4 DEF PickStep
<1> HIDE DEF T
<1>3. \A i \in Nat : i \in T
  BY <1>1, <1>2, ByInduction
<1> QED
  BY <1>3 DEF T

LEMMA PickedSame ==
  ASSUME NEW seq, NEW S, NEW other, NEW O, NEW n \in Nat,
         \A i \in 1..n : seq[i] = other[i] /\ (i \in S <=> i \in O)
  PROVE  Picked(seq, S, n) = Picked(other, O, n)
<1>1. PICK f : IsPick(f, seq, S, n) /\ Picked(seq, S, n) = f[n]
  BY PickDef
<1>2. PICK g : IsPick(g, other, O, n) /\ Picked(other, O, n) = g[n]
  BY PickDef
<1>3. n <= n /\ n \in 0..n
  OBVIOUS
<1>4. \A i \in 0..n : f[i] = g[i]
  BY <1>1, <1>2, <1>3, SamePicks
<1> QED
  BY <1>1, <1>2, <1>3, <1>4

LEMMA PickedNone == \A seq, S : Picked(seq, S, 0) = <<>>
<1> TAKE seq, S
<1>1. PICK f : IsPick(f, seq, S, 0) /\ Picked(seq, S, 0) = f[0]
  BY PickDef
<1>2. f[0] = PickStep(f, seq, S, 0)
  BY <1>1, PickAt
<1> QED
  BY <1>1, <1>2 DEF PickStep

LEMMA PickedNext ==
  ASSUME NEW seq, NEW S, NEW n \in Nat
  PROVE  Picked(seq, S, n + 1) = IF n + 1 \in S THEN Append(Picked(seq, S, n), seq[n + 1])
                                                 ELSE Picked(seq, S, n)
<1>1. PICK f : IsPick(f, seq, S, n) /\ Picked(seq, S, n) = f[n]
  BY PickDef
<1>2. n + 1 \in Nat /\ n <= n + 1 /\ n \in 0..n /\ n + 1 \in 0..(n + 1) /\ n + 1 # 0 /\ (n + 1) - 1 = n
  OBVIOUS
<1>3. PICK g : IsPick(g, seq, S, n + 1) /\ Picked(seq, S, n + 1) = g[n + 1]
  BY <1>2, PickDef
<1>4. \A i \in 0..n : f[i] = g[i]
  <2>1. \A i \in 1..n : seq[i] = seq[i] /\ (i \in S <=> i \in S)
    OBVIOUS
  <2>2. IsPick(f, seq, S, n) /\ IsPick(g, seq, S, n + 1)
    BY <1>1, <1>3
  <2> QED
    BY <2>1, <2>2, <1>2, SamePicks
<1>5. g[n + 1] = PickStep(g, seq, S, n + 1)
  BY <1>2, <1>3, PickAt
<1> QED
  BY <1>1, <1>2, <1>3, <1>4, <1>5 DEF PickStep

LEMMA PickedType ==
  ASSUME NEW A, NEW seq, NEW S, NEW n \in Nat, \A i \in 1..n : seq[i] \in A
  PROVE  Picked(seq, S, n) \in Seq(A)
<1> DEFINE T == {i \in Nat : i <= n => Picked(seq, S, i) \in Seq(A)}
<1>1. 0 \in T
  <2>1. Picked(seq, S, 0) \in Seq(A)
    BY PickedNone, EmptySeq
  <2> QED
    BY <2>1
<1>2. \A i \in Nat : i \in T => i + 1 \in T
  <2> SUFFICES ASSUME NEW i \in Nat, i \in T, i + 1 <= n
               PROVE  Picked(seq, S, i + 1) \in Seq(A)
    OBVIOUS
  <2>1. seq[i + 1] \in A /\ Picked(seq, S, i) \in Seq(A)
    OBVIOUS
  <2>2. Append(Picked(seq, S, i), seq[i + 1]) \in Seq(A)
    BY <2>1, AppendProperties
  <2> QED
    BY <2>1, <2>2, PickedNext
<1> HIDE DEF T
<1>3. \A i \in Nat : i \in T
  BY <1>1, <1>2, ByInduction
<1> QED
  BY <1>3 DEF T

-----------------------------------------------------------------------------
(* What is written without the copies.                                     *)

MergeStep(f, w, sent, i) == IF i = 0 THEN <<>> ELSE Shown(f[i - 1], w, i, sent)

IsMerge(f, w, sent, n) == f = [i \in 0..n |-> MergeStep(f, w, sent, i)]

LEMMA MergeAt ==
  ASSUME NEW w, NEW sent, NEW n \in Nat, NEW f, IsMerge(f, w, sent, n)
  PROVE  \A i \in 0..n : f[i] = MergeStep(f, w, sent, i)
  BY DEF IsMerge

LEMMA MergeExists ==
  ASSUME NEW w, NEW sent
  PROVE  \A n \in Nat : \E f : IsMerge(f, w, sent, n)
<1> DEFINE T == {n \in Nat : \E f : IsMerge(f, w, sent, n)}
<1>1. 0 \in T
  <2>1. [i \in 0..0 |-> <<>>] = [i \in 0..0 |-> MergeStep([j \in 0..0 |-> <<>>], w, sent, i)]
    BY DEF MergeStep
  <2> QED
    BY <2>1 DEF IsMerge
<1>2. \A n \in Nat : n \in T => n + 1 \in T
  <2> SUFFICES ASSUME NEW n \in Nat, n \in T PROVE n + 1 \in T
    OBVIOUS
  <2>1. PICK f : IsMerge(f, w, sent, n)
    OBVIOUS
  <2> DEFINE g == [i \in 0..(n + 1) |-> IF i = n + 1 THEN MergeStep(f, w, sent, n + 1) ELSE f[i]]
  <2>2. \A i \in 0..(n + 1) : g[i] = MergeStep(g, w, sent, i)
    <3> TAKE i \in 0..(n + 1)
    <3>1. \A j \in 0..n : g[j] = f[j] /\ f[j] = MergeStep(f, w, sent, j)
      BY <2>1, MergeAt
    <3>2. g[n + 1] = MergeStep(f, w, sent, n + 1)
      OBVIOUS
    <3> HIDE DEF g
    <3>3. i # 0 => g[i - 1] = f[i - 1]
      BY <3>1
    <3>4. CASE i = n + 1
      BY <3>2, <3>3, <3>4 DEF MergeStep
    <3>5. CASE i \in 0..n
      BY <3>1, <3>3, <3>5 DEF MergeStep
    <3> QED
      BY <3>4, <3>5
  <2>3. g = [i \in 0..(n + 1) |-> MergeStep(g, w, sent, i)]
    BY <2>2
  <2>4. \E h : IsMerge(h, w, sent, n + 1)
    <3> HIDE DEF g
    <3> QED
      BY <2>3 DEF IsMerge
  <2> QED
    BY <2>4
<1> HIDE DEF T
<1>3. \A n \in Nat : n \in T
  BY <1>1, <1>2, ByInduction
<1> QED
  BY <1>3 DEF T

LEMMA MergeDef ==
  ASSUME NEW w, NEW sent, Len(w) \in Nat
  PROVE  \E f : IsMerge(f, w, sent, Len(w)) /\ Merged(w, sent) = f[Len(w)]
<1> DEFINE up == CHOOSE f : IsMerge(f, w, sent, Len(w))
<1>1. IsMerge(up, w, sent, Len(w))
  BY MergeExists
<1>2. Merged(w, sent) = up[Len(w)]
  BY DEF Merged, MergeStep, IsMerge
<1> HIDE DEF up
<1> QED
  BY <1>1, <1>2

Alike(w, v, n) == \A i \in 1..n : w[i] = v[i]

\* What is shown depends on the chunks written so far only.
LEMMA SameMerge ==
  ASSUME NEW w, NEW v, NEW sent, NEW n \in Nat, NEW m \in Nat, n <= m,
         Alike(w, v, n),
         NEW f, IsMerge(f, w, sent, n),
         NEW g, IsMerge(g, v, sent, m)
  PROVE  \A i \in 0..n : f[i] = g[i]
<1> DEFINE T == {i \in Nat : i <= n => f[i] = g[i]}
<1>0. /\ \A i \in 0..n : f[i] = MergeStep(f, w, sent, i)
      /\ \A i \in 0..m : g[i] = MergeStep(g, v, sent, i)
  BY MergeAt
<1>1. 0 \in T
  <2>1. 0 \in 0..n /\ 0 \in 0..m
    OBVIOUS
  <2>2. f[0] = <<>> /\ g[0] = <<>>
    BY <1>0, <2>1 DEF MergeStep
  <2> QED
    BY <2>2
<1>2. \A i \in Nat : i \in T => i + 1 \in T
  <2> SUFFICES ASSUME NEW i \in Nat, i \in T, i + 1 <= n PROVE f[i + 1] = g[i + 1]
    OBVIOUS
  <2>1. /\ i + 1 \in 0..n /\ i + 1 \in 0..m /\ i + 1 \in 1..n /\ i + 1 # 0
        /\ (i + 1) - 1 = i /\ i <= n /\ (i + 1 > 1 => i \in 1..n)
    OBVIOUS
  <2>2. f[i] = g[i]
    BY <2>1
  <2>3. f[i + 1] = Shown(f[i], w, i + 1, sent) /\ g[i + 1] = Shown(g[i], v, i + 1, sent)
    BY <1>0, <2>1 DEF MergeStep
  <2>4. w[i + 1] = v[i + 1] /\ (i + 1 > 1 => w[i] = v[i])
    BY <2>1 DEF Alike
  <2>5. Shown(f[i], w, i + 1, sent) = Shown(f[i], v, i + 1, sent)
    BY <2>1, <2>4 DEF Shown
  <2> QED
    BY <2>2, <2>3, <2>5
<1> HIDE DEF T
<1>3. \A i \in Nat : i \in T
  BY <1>1, <1>2, ByInduction
<1> QED
  BY <1>3 DEF T

LEMMA MergedNone == \A sent : Merged(<<>>, sent) = <<>>
<1> TAKE sent
<1>1. Len(<<>>) = 0
  OBVIOUS
<1>2. PICK f : IsMerge(f, <<>>, sent, 0) /\ Merged(<<>>, sent) = f[0]
  BY <1>1, MergeDef
<1>3. f[0] = MergeStep(f, <<>>, sent, 0)
  BY <1>2, MergeAt
<1> QED
  BY <1>2, <1>3 DEF MergeStep

LEMMA MergedNext ==
  ASSUME NEW w, NEW v, NEW sent, NEW n \in Nat, Len(w) = n, Len(v) = n + 1,
         \A i \in 1..n : w[i] = v[i]
  PROVE  Merged(v, sent) = Shown(Merged(w, sent), v, n + 1, sent)
<1>1. PICK f : IsMerge(f, w, sent, n) /\ Merged(w, sent) = f[n]
  BY MergeDef
<1>2. n + 1 \in Nat /\ n <= n + 1 /\ n \in 0..n /\ n + 1 \in 0..(n + 1) /\ n + 1 # 0 /\ (n + 1) - 1 = n
  OBVIOUS
<1>3. PICK g : IsMerge(g, v, sent, n + 1) /\ Merged(v, sent) = g[n + 1]
  BY <1>2, MergeDef
<1>4. \A i \in 0..n : f[i] = g[i]
  <2>1. Alike(w, v, n)
    BY DEF Alike
  <2>2. IsMerge(f, w, sent, n) /\ IsMerge(g, v, sent, n + 1)
    BY <1>1, <1>3
  <2> DEFINE k == n + 1
  <2>3. k \in Nat /\ n <= k /\ IsMerge(g, v, sent, k)
    BY <1>2, <2>2
  <2> HIDE DEF k
  <2> QED
    BY <2>1, <2>2, <2>3, SameMerge
<1>5. g[n + 1] = MergeStep(g, v, sent, n + 1)
  BY <1>2, <1>3, MergeAt
<1> QED
  BY <1>1, <1>2, <1>3, <1>4, <1>5 DEF MergeStep

LEMMA MergedAppend ==
  ASSUME NEW A, NEW w \in Seq(A), NEW c \in A, NEW sent
  PROVE  Merged(Append(w, c), sent) =
           IF /\ w # <<>> /\ c = w[Len(w)]
              /\ Len(Merged(w, sent)) < Len(sent) => c # sent[Len(Merged(w, sent)) + 1]
           THEN Merged(w, sent) ELSE Append(Merged(w, sent), c)
<1> DEFINE v == Append(w, c)
           n == Len(w)
           m == Merged(w, sent)
<1>1. /\ n \in Nat /\ Len(v) = n + 1
      /\ \A i \in 1..n : w[i] = v[i]
      /\ v[n + 1] = c
  BY AppendProperties, LenProperties
<1>2. w # <<>> <=> n > 0
  BY <1>1, EmptySeq
<1> HIDE DEF v
<1>3. Merged(v, sent) = Shown(m, v, n + 1, sent)
  BY <1>1, MergedNext
<1> HIDE DEF m, n
<1>4. (n + 1) - 1 = n /\ (n + 1 > 1 <=> n > 0) /\ (n > 0 => v[n] = w[n])
  BY <1>1
<1>5. Merged(v, sent) = IF n > 0 /\ c = w[n] /\ (Len(m) < Len(sent) => c # sent[Len(m) + 1])
                        THEN m ELSE Append(m, c)
  BY <1>1, <1>3, <1>4 DEF Shown
<1> QED
  BY <1>2, <1>5 DEF v, n, m

LEMMA MergedType ==
  ASSUME NEW A, NEW w \in Seq(A), NEW sent
  PROVE  Merged(w, sent) \in Seq(A)
<1> DEFINE n == Len(w)
<1>1. n \in Nat /\ \A i \in 1..n : w[i] \in A
  BY LenProperties, ElementOfSeq
<1>2. PICK f : IsMerge(f, w, sent, n) /\ Merged(w, sent) = f[n]
  BY <1>1, MergeDef
<1> HIDE DEF n
<1>3. \A i \in 0..n : f[i] = MergeStep(f, w, sent, i)
  BY <1>1, <1>2, MergeAt
<1> DEFINE T == {i \in Nat : i <= n => f[i] \in Seq(A)}
<1>4. 0 \in T
  <2>1. f[0] = <<>>
    BY <1>1, <1>3 DEF MergeStep
  <2> QED
    BY <2>1, EmptySeq
<1>5. \A i \in Nat : i \in T => i + 1 \in T
  <2> SUFFICES ASSUME NEW i \in Nat, i \in T, i + 1 <= n PROVE f[i + 1] \in Seq(A)
    OBVIOUS
  <2>1. i + 1 \in 0..n /\ i + 1 \in 1..n /\ i + 1 # 0 /\ (i + 1) - 1 = i /\ i <= n
    BY <1>1
  <2>2. f[i] \in Seq(A) /\ w[i + 1] \in A
    BY <1>1, <2>1
  <2>3. f[i + 1] = Shown(f[i], w, i + 1, sent)
    BY <1>3, <2>1 DEF MergeStep
  <2>4. Append(f[i], w[i + 1]) \in Seq(A)
    BY <2>2, AppendProperties
  <2> QED
    BY <2>2, <2>3, <2>4 DEF Shown
<1> HIDE DEF T
<1>6. \A i \in Nat : i \in T
  BY <1>4, <1>5, ByInduction
<1> QED
  BY <1>1, <1>2, <1>6 DEF T

LEMMA BeginsIsPrefix ==
  ASSUME NEW A, NEW s \in Seq(A), NEW t \in Seq(A), Begins(s, t)
  PROVE  IsPrefix(s, t)
<1> DEFINE n == Len(s)
           a == SubSeq(s, 1, n)
           b == SubSeq(t, 1, n)
<1>1. n \in Nat /\ Len(t) \in Nat /\ n <= Len(t)
  BY LenProperties DEF Begins
<1>2. /\ a \in Seq(A) /\ Len(a) = n /\ \A i \in 1..n : a[i] = s[i]
      /\ b \in Seq(A) /\ Len(b) = n /\ \A i \in 1..n : b[i] = t[i]
  <2>1. (\A i \in 1..n : s[i] \in A) /\ (\A i \in 1..Len(t) : t[i] \in A)
    BY ElementOfSeq
  <2> HIDE DEF n
  <2>2. \A i \in 1..n : s[i] \in A /\ t[i] \in A
    BY <1>1, <2>1
  <2>3. 1 \in Int /\ n \in Int /\ (n - 1) + 1 = n /\ (1 > n => n = 0) /\ \A i \in Nat : (1 + i) - 1 = i
    BY <1>1
  <2> QED
    BY <2>2, <2>3, SubSeqProperties
<1>3. \A i \in 1..n : a[i] = b[i]
  BY <1>2 DEF Begins
<1> HIDE DEF a, b
<1>4. a = b
  BY <1>2, <1>3, SeqEqual
<1> QED
  BY <1>1, <1>4 DEF IsPrefix, a, b

LEMMA AppendBegins ==
  ASSUME NEW A, NEW s \in Seq(A), NEW t \in Seq(A), NEW c \in A, Begins(s, t)
  PROVE  Begins(s, Append(t, c))
<1>1. Len(s) \in Nat /\ Len(t) \in Nat /\ Len(Append(t, c)) = Len(t) + 1
      /\ \A i \in 1..Len(t) : Append(t, c)[i] = t[i]
  BY AppendProperties, LenProperties
<1> QED
  BY <1>1 DEF Begins

LEMMA LastOfAppend ==
  ASSUME NEW A, NEW w \in Seq(A), NEW c \in A
  PROVE  Append(w, c) # <<>> /\ Append(w, c)[Len(Append(w, c))] = c
  BY AppendProperties, LenProperties, EmptySeq

-----------------------------------------------------------------------------
(* Copies that are written.                                                *)

LEMMA CoversNone ==
  ASSUME NEW A, NEW sent \in Seq(A)
  PROVE  Covers(<<>>, sent, 0)
<1>1. Len(<<>>) = 0 /\ Len(sent) \in Nat
  BY LenProperties
<1> QED
  BY <1>1, MergedNone DEF Covers, Begins

\* One more chunk, that is the last shown or the next of sent
LEMMA CoversMore ==
  ASSUME NEW A, NEW sent \in Seq(A), NEW w \in Seq(A), NEW c \in Nat, NEW d \in Nat, NEW x \in A,
         Covers(w, sent, c), d \in 1..Len(sent), x = sent[d], d = c \/ d = c + 1
  PROVE  Covers(Append(w, x), sent, d)
<1> DEFINE m == Merged(w, sent)
           M == Len(m)
           n == Len(sent)
           v == Append(w, x)
           k == Merged(v, sent)
<1>1. /\ w = <<>> <=> m = <<>>
      /\ w # <<>> => w[Len(w)] = m[M]
      /\ c <= M /\ M <= n /\ \A i \in 1..M : m[i] = sent[i]
      /\ M > c => c > 0 /\ \A i \in c..M : m[i] = m[c]
  BY DEF Covers, Begins
<1>2. m \in Seq(A) /\ M \in Nat /\ n \in Nat /\ d \in 1..n
  BY MergedType, LenProperties
<1>3. m = <<>> <=> M = 0
  BY <1>2, EmptySeq
<1>4. v # <<>> /\ v[Len(v)] = x
  BY LastOfAppend
<1>5. k = IF w # <<>> /\ x = w[Len(w)] /\ (M < n => x # sent[M + 1]) THEN m ELSE Append(m, x)
  BY MergedAppend
<1>6. /\ Append(m, x) \in Seq(A) /\ Len(Append(m, x)) = M + 1
      /\ \A i \in 1..M : Append(m, x)[i] = m[i]
      /\ Append(m, x)[M + 1] = x
  BY <1>2, AppendProperties
<1>7. Append(m, x) # <<>>
  BY <1>2, LastOfAppend
<1> DEFINE more == Append(m, x)
<1> HIDE DEF m, M, n, more
\* the chunks of m from place d on are x
<1>8. M >= d => m[M] = x /\ \A i \in d..M : m[i] = x
  <2> SUFFICES ASSUME M >= d PROVE m[M] = x /\ \A i \in d..M : m[i] = x
    OBVIOUS
  <2>1. d \in 1..M /\ m[d] = x
    BY <1>1, <1>2
  <2>2. M > c => \A i \in c..M : m[i] = x
    <3> SUFFICES ASSUME M > c PROVE \A i \in c..M : m[i] = x
      OBVIOUS
    <3>1. \A i \in c..M : m[i] = m[c]
      BY <1>1
    <3>2. d \in c..M
      BY <1>2, <2>1
    <3>3. m[d] = m[c]
      BY <3>1, <3>2
    <3> QED
      BY <2>1, <3>1, <3>3
  <2>3. M = c => d = M
    BY <1>2
  <2>4. M = c \/ M > c
    BY <1>1, <1>2
  <2>5. CASE M = c
    <3>1. \A i \in d..M : i = d
      BY <1>2, <2>3, <2>5
    <3> QED
      BY <2>1, <2>3, <2>5, <3>1
  <2>6. CASE M > c
    <3>1. M \in c..M /\ \A i \in d..M : i \in c..M
      BY <1>2, <2>6
    <3> QED
      BY <2>2, <2>6, <3>1
  <2> QED
    BY <2>4, <2>5, <2>6
<1>9. CASE k = m
  <2>1. w # <<>> /\ x = m[M] /\ M # 0
    <3>1. m # more
      BY <1>2, <1>6 DEF more
    <3>2. w # <<>> /\ x = w[Len(w)] /\ (M < n => x # sent[M + 1])
      BY <1>5, <1>9, <3>1 DEF more
    <3> QED
      BY <1>1, <1>3, <3>2
  <2>2. d <= M
    <3> SUFFICES ASSUME ~(d <= M) PROVE FALSE
      OBVIOUS
    <3>1. M = c /\ d = M + 1 /\ M < n
      BY <1>1, <1>2
    <3>2. m # more
      BY <1>2, <1>6 DEF more
    <3>3. M < n => x # sent[M + 1]
      BY <1>5, <1>9, <3>2 DEF more
    <3> QED
      BY <3>1, <3>3
  <2>3. \A i \in d..M : m[i] = m[d]
    <3>1. d \in d..M
      BY <1>2, <2>2
    <3> QED
      BY <1>8, <2>2, <3>1
  <2>4. Begins(m, sent)
    BY <1>1 DEF Begins, M, n
  <2> QED
    BY <1>1, <1>2, <1>3, <1>4, <1>9, <2>1, <2>2, <2>3, <2>4 DEF Covers, M, n
<1>10. CASE k = more /\ k # m
  <2>1. Len(more) = M + 1 /\ more[M + 1] = x /\ more # <<>> /\ \A i \in 1..M : more[i] = m[i]
    BY <1>6, <1>7 DEF more
  <2>2. M < n /\ x = sent[M + 1]
    <3>1. ~(w # <<>> /\ x = w[Len(w)] /\ (M < n => x # sent[M + 1]))
      BY <1>5, <1>10
    <3>2. CASE w = <<>> \/ (w # <<>> /\ x # m[M])
      <4>1. ~(M >= d)
        BY <1>1, <1>2, <1>3, <1>8, <3>2
      <4> QED
        BY <1>1, <1>2, <4>1
    <3>3. CASE w # <<>> /\ x = m[M]
      BY <1>1, <3>1, <3>3
    <3> QED
      BY <3>2, <3>3
  <2>3. d <= M + 1
    BY <1>1, <1>2
  <2>4. Begins(more, sent)
    <3>1. \A i \in 1..(M + 1) : more[i] = sent[i]
      BY <1>1, <1>2, <2>1, <2>2
    <3> QED
      BY <1>2, <2>1, <2>2, <3>1 DEF Begins, n
  <2>5. M + 1 > d => \A i \in d..(M + 1) : more[i] = more[d]
    <3> SUFFICES ASSUME M + 1 > d, NEW i \in d..(M + 1) PROVE more[i] = more[d]
      OBVIOUS
    <3>1. \A j \in d..M : m[j] = x
      BY <1>2, <1>8
    <3>2. \A j \in d..M : more[j] = x
      BY <1>2, <2>1, <3>1
    <3>3. i \in d..M \/ i = M + 1
      BY <1>2
    <3>4. d \in d..M
      BY <1>2
    <3> QED
      BY <2>1, <3>2, <3>3, <3>4
  <2> QED
    BY <1>2, <1>4, <1>10, <2>1, <2>3, <2>4, <2>5 DEF Covers, n
<1> QED
  BY <1>5, <1>9, <1>10 DEF more

LEMMA CoversAll ==
  ASSUME NEW A, NEW sent \in Seq(A), NEW w \in Seq(A), Covers(w, sent, Len(sent))
  PROVE  Merged(w, sent) = sent
<1> DEFINE m == Merged(w, sent)
<1>1. Len(sent) <= Len(m) /\ Begins(m, sent)
  BY DEF Covers
<1>2. m \in Seq(A) /\ Len(m) \in Nat /\ Len(sent) \in Nat
  BY MergedType, LenProperties
<1> HIDE DEF m
<1>3. Len(m) = Len(sent) /\ \A i \in 1..Len(m) : m[i] = sent[i]
  BY <1>1, <1>2 DEF Begins
<1>4. m = sent
  BY <1>2, <1>3, SeqEqual
<1> QED
  BY <1>4 DEF m

-----------------------------------------------------------------------------
(* The chunks of a file.                                                   *)

LEMMA KeptNext ==
  ASSUME NEW data, NEW n \in Nat
  PROVE  Kept(data, n + 1) = IF n + 1 \in KeptPlaces(data)
                             THEN Append(Kept(data, n), ChunksOf(data)[n + 1])
                             ELSE Kept(data, n)
  BY PickedNext DEF Kept

LEMMA ChunksOfType ==
  ASSUME NEW data \in Seq(Byte)
  PROVE  /\ Len(data) \in Nat
         /\ \A k \in 1..Len(data) : ChunksOf(data)[k] = DataChunk(data, (k - 1) * CHUNK_SZ)
         /\ \A k \in 1..Len(data) : ChunksOf(data)[k] \in Chunk
<1>1. Len(data) \in Nat
  BY LenProperties
<1>2. \A k \in 1..Len(data) : ChunksOf(data)[k] = DataChunk(data, (k - 1) * CHUNK_SZ)
  BY DEF ChunksOf
<1>3. ASSUME NEW k \in 1..Len(data) PROVE (k - 1) * CHUNK_SZ \in Nat
  <2>1. k - 1 \in Nat
    BY <1>1
  <2> QED
    BY <2>1, ChunkSzAssumption
<1>4. ASSUME NEW k \in 1..Len(data) PROVE DataChunk(data, (k - 1) * CHUNK_SZ) \in Chunk
  BY <1>3, DataChunkType
<1> QED
  BY <1>1, <1>2, <1>4

LEMMA KeptType ==
  ASSUME NEW data \in Seq(Byte), NEW n \in 0..Len(data)
  PROVE  Kept(data, n) \in Seq(Chunk)
<1>1. Len(data) \in Nat /\ \A k \in 1..Len(data) : ChunksOf(data)[k] \in Chunk
  BY ChunksOfType
<1>2. n \in Nat /\ \A k \in 1..n : ChunksOf(data)[k] \in Chunk
  BY <1>1
<1> QED
  BY <1>2, PickedType DEF Kept

\* The chunks of the first n blocks come first.
LEMMA KeptBegins ==
  ASSUME NEW data \in Seq(Byte), NEW n \in 0..Len(data)
  PROVE  Begins(Kept(data, n), KeptChunks(data))
<1> DEFINE T == {i \in Nat : n + i <= Len(data) => Begins(Kept(data, n), Kept(data, n + i))}
<1>1. Len(data) \in Nat /\ n \in Nat /\ n <= Len(data)
  BY LenProperties
<1>2. Kept(data, n) \in Seq(Chunk)
  BY KeptType
<1>3. 0 \in T
  <2>1. n + 0 = n
    BY <1>1
  <2>2. Begins(Kept(data, n), Kept(data, n))
    BY <1>2, LenProperties DEF Begins
  <2> QED
    BY <2>1, <2>2
<1>4. \A i \in Nat : i \in T => i + 1 \in T
  <2> SUFFICES ASSUME NEW i \in Nat, i \in T, n + (i + 1) <= Len(data)
               PROVE  Begins(Kept(data, n), Kept(data, n + (i + 1)))
    OBVIOUS
  <2> DEFINE m == n + i
  <2>1. m \in Nat /\ m \in 0..Len(data) /\ m + 1 \in 1..Len(data) /\ n + (i + 1) = m + 1
    BY <1>1
  <2>2. Begins(Kept(data, n), Kept(data, m))
    BY <2>1
  <2> HIDE DEF T, m
  <2>3. Kept(data, m) \in Seq(Chunk) /\ ChunksOf(data)[m + 1] \in Chunk
    BY <2>1, KeptType, ChunksOfType
  <2>4. \/ Kept(data, m + 1) = Kept(data, m)
        \/ Kept(data, m + 1) = Append(Kept(data, m), ChunksOf(data)[m + 1])
    BY <2>1, KeptNext
  <2>5. Begins(Kept(data, n), Kept(data, m + 1))
    BY <1>2, <2>2, <2>3, <2>4, AppendBegins
  <2> QED
    BY <2>1, <2>5
<1> HIDE DEF T
<1>5. \A i \in Nat : i \in T
  BY <1>3, <1>4, ByInduction
<1>6. Len(data) - n \in Nat /\ n + (Len(data) - n) = Len(data)
  BY <1>1
<1>7. \A i \in Nat : n + i = Len(data) => Begins(Kept(data, n), Kept(data, Len(data)))
  BY <1>1, <1>5 DEF T
<1> QED
  BY <1>6, <1>7 DEF KeptChunks

\* A block that begins at the end of the file or behind it has nothing.
LEMMA KeptAll ==
  ASSUME NEW data \in Seq(Byte), NEW n \in 0..Len(data), Len(data) <= n * CHUNK_SZ
  PROVE  Kept(data, n) = KeptChunks(data)
<1> DEFINE T == {i \in Nat : n + i <= Len(data) => Kept(data, n + i) = Kept(data, n)}
<1>1. Len(data) \in Nat /\ n \in Nat /\ n <= Len(data) /\ n * CHUNK_SZ \in Nat
  BY LenProperties, ChunkSzAssumption
<1>2. 0 \in T
  <2>1. n + 0 = n
    BY <1>1
  <2> QED
    BY <2>1
<1>3. \A i \in Nat : i \in T => i + 1 \in T
  <2> SUFFICES ASSUME NEW i \in Nat, i \in T, n + (i + 1) <= Len(data)
               PROVE  Kept(data, n + (i + 1)) = Kept(data, n)
    OBVIOUS
  <2> DEFINE m == n + i
  <2>1. m \in Nat /\ n + (i + 1) = m + 1 /\ (m + 1) - 1 = m /\ m <= Len(data)
    BY <1>1
  <2>2. Kept(data, m) = Kept(data, n)
    BY <2>1
  <2>3. m * CHUNK_SZ = n * CHUNK_SZ + i * CHUNK_SZ /\ i * CHUNK_SZ \in Nat
    BY <1>1, ChunkSzAssumption
  <2> HIDE DEF T, m
  <2>4. ~((m + 1) - 1) * CHUNK_SZ < Len(data)
    BY <1>1, <2>1, <2>3
  <2>5. m + 1 \notin KeptPlaces(data)
    BY <2>4 DEF KeptPlaces
  <2> QED
    BY <2>1, <2>2, <2>5, KeptNext
<1> HIDE DEF T
<1>4. \A i \in Nat : i \in T
  BY <1>2, <1>3, ByInduction
<1>5. Len(data) - n \in Nat /\ n + (Len(data) - n) = Len(data)
  BY <1>1
<1> QED
  BY <1>4, <1>5 DEF T, KeptChunks

LEMMA KeptChunksType ==
  ASSUME NEW data \in Seq(Byte)
  PROVE  KeptChunks(data) \in Seq(Chunk) /\ Len(KeptChunks(data)) \in Nat
<1>1. Len(data) \in 0..Len(data)
  BY LenProperties
<1>2. KeptChunks(data) \in Seq(Chunk)
  BY <1>1, KeptType DEF KeptChunks
<1> QED
  BY <1>2, LenProperties

LEMMA NoneIsKept ==
  ASSUME NEW data \in Seq(Byte)
  PROVE  Covers(<<>>, KeptChunks(data), Len(Kept(data, 0)))
<1>1. Kept(data, 0) = <<>> /\ Len(<<>>) = 0
  BY PickedNone DEF Kept
<1> QED
  BY <1>1, KeptChunksType, CoversNone

LEMMA BlankIsTrimmed ==
  ASSUME NEW chunk \in Chunk
  PROVE  TrimmedLen(chunk) \in Nat /\ (TrimmedLen(chunk) > 0 <=> ~Blank(chunk))
<1> DEFINE B == {n \in 1..CHUNK_SZ : \A i \in n..CHUNK_SZ : chunk[i] = CTRL_Z}
           N == 1..CHUNK_SZ
<1>1. CHUNK_SZ \in Nat /\ CHUNK_SZ > 0
  BY ChunkSzAssumption
<1>2. IsFiniteSet(N) /\ Cardinality(N) = CHUNK_SZ
  BY <1>1, FS_Interval
<1>3. B \subseteq N
  OBVIOUS
<1>4. /\ IsFiniteSet(B) /\ Cardinality(B) <= Cardinality(N)
      /\ Cardinality(B) = Cardinality(N) => B = N
  <2> HIDE DEF B, N
  <2> QED
    BY <1>2, <1>3, FS_Subset
<1>5. Cardinality(B) \in Nat
  BY <1>4, FS_CardinalityType
<1>6. B = N <=> Blank(chunk)
  <2>1. ASSUME B = N PROVE Blank(chunk)
    <3>1. 1 \in N
      BY <1>1
    <3>2. 1 \in B
      BY <2>1, <3>1
    <3> QED
      BY <3>2 DEF Blank
  <2>2. ASSUME Blank(chunk), NEW n \in N PROVE n \in B
    <3>1. \A i \in n..CHUNK_SZ : i \in 1..CHUNK_SZ
      BY <1>1
    <3> QED
      BY <2>2, <3>1 DEF Blank
  <2> QED
    BY <1>3, <2>1, <2>2
<1>7. TrimmedLen(chunk) = CHUNK_SZ - Cardinality(B)
  BY DEF TrimmedLen
<1> HIDE DEF B, N
<1>8. Cardinality(B) = Cardinality(N) <=> B = N
  BY <1>4
<1> QED
  BY <1>1, <1>2, <1>4, <1>5, <1>6, <1>7, <1>8

\* Without a blank chunk inside the file, what writeChunk() keeps is all that
\* has to arrive.
LEMMA KeptIsExpected ==
  ASSUME NEW data \in Seq(Byte), ~BlankInside(data)
  PROVE  KeptChunks(data) = Expected(data)
<1>1. Len(data) \in Nat /\ \A k \in 1..Len(data) : ChunksOf(data)[k] \in Chunk
  BY ChunksOfType
<1>2. ASSUME NEW k \in 1..Len(data) PROVE k \in KeptPlaces(data) <=> k \in Due(data)
  <2>1. TrimmedLen(ChunksOf(data)[k]) > 0 <=> ~Blank(ChunksOf(data)[k])
    BY <1>1, BlankIsTrimmed
  <2>2. Blank(ChunksOf(data)[k]) => ~(k * CHUNK_SZ < Len(data))
    BY DEF BlankInside
  <2> QED
    BY <2>1, <2>2 DEF KeptPlaces, Due
<1>3. Picked(ChunksOf(data), KeptPlaces(data), Len(data)) = Picked(ChunksOf(data), Due(data), Len(data))
  BY <1>1, <1>2, PickedSame
<1> QED
  BY <1>3 DEF KeptChunks, Kept, Expected

-----------------------------------------------------------------------------
(* Which file the sender is at.                                            *)

LEMMA StoreTypes ==
  ASSUME IInv
  PROVE  /\ batch \in Seq(File) /\ Len(batch) \in Nat /\ Len(batch) >= 1
         /\ sPc \in SPcs /\ fileNameIndex \in Nat
         /\ sResult \in Seq(Pieces) /\ Len(sResult) \in Nat
         /\ m2s \in Seq(Byte) /\ r2m \in Seq(Byte)
         /\ rFiles \in Seq([name : Seq(Byte), chunks : Seq(Chunk)]) /\ Len(rFiles) \in Nat
<1>1. batch \in Seq(File) /\ batch # <<>>
  BY BatchesAssumption DEF IInv, SInv, SenderTypeOK
<1>2. Len(batch) \in Nat /\ Len(batch) >= 1
  BY <1>1, LenProperties, EmptySeq
<1>3. sResult \in Seq(Pieces) /\ sPc \in SPcs /\ fileNameIndex \in Nat
  BY DEF IInv, SInv, SenderTypeOK, Result
<1>4. m2s \in Seq(Byte) /\ r2m \in Seq(Byte)
  BY DEF IInv, WireTypeOK
<1>5. rFiles \in Seq([name : Seq(Byte), chunks : Seq(Chunk)])
  BY DEF IInv, RInv, ReceiverTypeOK
<1> QED
  BY <1>1, <1>2, <1>3, <1>4, <1>5, LenProperties

\* What prepStatBlk() chooses.
LEMMA NextFile ==
  ASSUME IInv, PrepStatBlk, batch' = batch,
         fileNameIndex <= Len(batch), errCnt' = 0, Len(sResult') = fileNameIndex
  PROVE  PlaceInv' /\ sPc' \in {"readC", "finMost"} /\ fileNameIndex' = fileNameIndex + 1
<1>1. Len(batch) \in Nat /\ fileNameIndex \in Nat
  BY StoreTypes
<1>2. /\ fileNameIndex' = fileNameIndex + 1
      /\ sPc' = IF Len(batch) >= fileNameIndex + 1 THEN "readC" ELSE "finMost"
  BY DEF PrepStatBlk
<1>3. CASE Len(batch) >= fileNameIndex + 1
  BY <1>1, <1>2, <1>3 DEF PlaceInv, AfterLast, OfAFile
<1>4. CASE ~(Len(batch) >= fileNameIndex + 1)
  BY <1>1, <1>2, <1>4 DEF PlaceInv, AfterLast, OfAFile
<1> QED
  BY <1>3, <1>4

LEMMA EraseTailLen ==
  ASSUME NEW res \in Seq(Pieces)
  PROVE  Len(EraseTail(res)) = Len(res)
  BY LenProperties DEF EraseTail

LEMMA OneMorePiece ==
  ASSUME NEW res \in Seq(Pieces), NEW piece \in Pieces, NEW n \in Nat, Len(res) = n - 1
  PROVE  Append(res, piece) \in Seq(Pieces) /\ Len(Append(res, piece)) = n
  BY AppendProperties, LenProperties

DonePiece == "Done, "

LEMMA ReadEotAckParts ==
  ASSUME ReadEotAck
  PROVE  /\ sPc = "eotAck" /\ ReadByte /\ PrepStatBlk
         /\ sResult' = Append(sResult, DonePiece) /\ DonePiece \in Pieces
         /\ UNCHANGED <<s2m, m2r, r2m, exited, batch, bytesRd, blkSent, errCnt>>
<1>1. /\ sPc = "eotAck" /\ ReadByte /\ PrepStatBlk
      /\ sResult' = Append(sResult, DonePiece)
      /\ UNCHANGED <<s2m, away, batch, bytesRd, blkSent, errCnt>>
  BY Zenon DEF ReadEotAck, DonePiece
<1>2. DonePiece \in Pieces
  BY Zenon DEF Pieces, DonePiece
<1> QED
  BY <1>1, <1>2

LEMMA NextFileOf ==
  ASSUME Start \/ ReadEotAck
  PROVE  sPc' \in {"readC", "finMost"} /\ fileNameIndex' = fileNameIndex + 1
<1>1. PrepStatBlk
  BY ReadEotAckParts DEF Start
<1> QED
  BY <1>1 DEF PrepStatBlk

LEMMA SenderPlace ==
  ASSUME IInv, PInv, PlaceInv, ~Canceled', SenderStep
  PROVE  PlaceInv' /\ batch' = batch
<1>1. ~exited /\ Protocol /\ HeaderBlk
  BY DEF SenderStep, SenderNext, PInv
<1>2. /\ Len(batch) \in Nat /\ Len(batch) >= 1 /\ fileNameIndex \in Nat
      /\ sResult \in Seq(Pieces) /\ Len(sResult) \in Nat
  BY StoreTypes
<1>3. CASE Start
  <2>1. fileNameIndex = 0 /\ Len(sResult) = 0 /\ errCnt = 0
    BY <1>3 DEF Start, PlaceInv
  <2> QED
    BY <1>2, <1>3, <2>1, NextFile DEF Start
<1>4. CASE ReadC
  <2>1. /\ sPc = "readC" /\ sPc' = "statLast" /\ sFileD # -1 /\ sFileD = fileNameIndex
    BY <1>1, <1>2, <1>4 DEF ReadC, HeaderBlk, Canceled
  <2> QED
    BY <1>4, <2>1 DEF ReadC, PlaceInv, AfterLast, OfAFile
<1>5. CASE PrepNextSendLast
  <2>1. UNCHANGED sPc \/ sPc' \in {"statAck", "reply"}
    BY <1>5 DEF PrepNextSendLast
  <2> QED
    BY <1>5, <2>1 DEF PrepNextSendLast, PlaceInv, AfterLast, OfAFile
<1>6. CASE ReadStatAck \/ ResendLast
  BY <1>6 DEF ReadStatAck, ResendLast, PlaceInv, AfterLast, OfAFile
<1>7. CASE ReadStatC
  BY <1>7 DEF ReadStatC, NextBlkOrEot, PlaceInv, AfterLast, OfAFile
<1>8. CASE ReadReply
  BY <1>8 DEF ReadReply, NextBlkOrEot, PlaceInv, AfterLast, OfAFile
<1>9. CASE ReadEotNak \/ SendFinalMost \/ SendFinalLast
  BY <1>9 DEF ReadEotNak, SendFinalMost, SendFinalLast, PlaceInv, AfterLast, OfAFile
<1>10. CASE ReadEotAck
  <2>0. /\ sPc = "eotAck" /\ PrepStatBlk /\ UNCHANGED <<batch, errCnt>>
        /\ sResult' = Append(sResult, DonePiece) /\ DonePiece \in Pieces
    BY <1>10, ReadEotAckParts
  <2>1. fileNameIndex \in 1..Len(batch) /\ Len(sResult) = fileNameIndex - 1 /\ errCnt = 0
    BY <2>0 DEF PlaceInv, AfterLast
  <2>2. Len(sResult') = fileNameIndex
    BY <1>2, <2>0, <2>1, OneMorePiece
  <2>3. fileNameIndex <= Len(batch) /\ errCnt' = 0 /\ batch' = batch
    BY <1>2, <2>0, <2>1
  <2> QED
    BY <2>0, <2>2, <2>3, NextFile
<1>11. CASE ReadFinalAck
  <2>1. Len(sResult') = Len(sResult)
    BY <1>2, <1>11, EraseTailLen DEF ReadFinalAck
  <2> QED
    BY <1>11, <2>1 DEF ReadFinalAck, PlaceInv, AfterLast, OfAFile
<1> QED
  BY <1>3, <1>4, <1>5, <1>6, <1>7, <1>8, <1>9, <1>10, <1>11 DEF SenderStep, SenderNext

-----------------------------------------------------------------------------
(* The steps of the sender.                                                *)

LEMMA SenderLeaves ==
  ASSUME SenderStep, batch' = batch
  PROVE  /\ UNCHANGED <<rPc, rcvBlk, numLastGoodBlk, rFileD, rFiles>>
         /\ FileOpen' <=> FileOpen
         /\ \A k : Complete(k)' <=> Complete(k)
         /\ fileNameIndex' = fileNameIndex => \A n : Holds(n)' <=> Holds(n)
<1>1. UNCHANGED <<rPc, rcvBlk, numLastGoodBlk, rFileD, rFiles>>
  BY DEF SenderStep, rVars
<1>2. FileOpen' <=> FileOpen
  BY <1>1 DEF FileOpen
<1>3. \A k : Complete(k)' <=> Complete(k)
  BY <1>1 DEF Complete, CreatedAgain
<1>4. ASSUME fileNameIndex' = fileNameIndex, NEW n PROVE Holds(n)' <=> Holds(n)
  BY <1>1, <1>4 DEF Holds, StoredTo, Sending
<1> QED
  BY <1>1, <1>2, <1>3, <1>4

\* The block in transit, or the one on its way to be confirmed, is of the file
\* that Data and Sending both name.
LEMMA SameFile ==
  ASSUME PlaceInv, sPc \in OfAFile
  PROVE  Data = Sending /\ sFileD = fileNameIndex /\ fileNameIndex \in 1..Len(batch)
  BY DEF PlaceInv, OfAFile, AfterLast, Data, Sending

\* Before a file's first block is sent nothing of it is kept.
LEMMA NothingYet ==
  ASSUME IInv, Protocol, StoreInv, sPc = "statC", m2s # <<>>
  PROVE  FileOpen => Holds(0)
<1>1. rPc = "blk1" \/ rPc = "done"
  BY WireSeqs, NoneComing DEF Protocol, HdrAnswered, Replies
<1>2. ASSUME FileOpen PROVE StoredTo(0)
  <2>1. rFiles[fileNameIndex].chunks = <<>>
    BY <1>2 DEF StoreInv, ChunksInv
  <2>2. Sending \in Seq(Byte)
    <3>1. fileNameIndex \in 1..Len(batch)
      BY SameFile DEF StoreInv, OfAFile
    <3> QED
      BY <3>1, FileOfBatch DEF Sending, IInv, SInv
  <2> QED
    BY <2>1, <2>2, NoneIsKept DEF StoredTo
<1> QED
  BY <1>1, <1>2 DEF Holds

\* The sender goes on after a reply only if it is an ACK, and then the receiver
\* has the block.
LEMMA AckIsRead ==
  ASSUME IInv, Protocol, StoreInv, ReadReply
  PROVE  /\ FileOpen /\ errCnt' = 0
         /\ Head(m2s) # NAK => Acked
<1>1. sPc \in {"reply", "reReply"} /\ m2s # <<>> /\ errCnt' = 0
  BY DEF ReadReply, ReadByte, StoreInv, PlaceInv
<1>2. BlkTaken
  <2>1. BlkComing(BLK_SZ) \/ BlkTaken
    BY <1>1 DEF Protocol
  <2> QED
    BY <1>1, <2>1, WireSeqs, NoneComing DEF BlkComing, Replies
<1>3. Head(m2s) \in Yes
  BY <1>1, <1>2, WireSeqs, ReadReplies DEF BlkTaken, Replies
<1>4. Len(m2s) \in Nat /\ 1 \in 1..Len(m2s) /\ Head(m2s) = m2s[1]
  BY <1>1, WireSeqs, EmptySeq, LenProperties, HeadTailProperties
<1> QED
  BY <1>1, <1>2, <1>3, <1>4 DEF BlkTaken, FileOpen, Yes, Acked

\* With the last byte of a block the sender throws away what has arrived.
LEMMA NoAck ==
  ASSUME IInv, BlkComing(BLK_SZ - 1), r2m' = r2m, m2s' = <<>>
  PROVE  ~Acked'
<1>1. r2m = <<>>
  BY WireSeqs, NoneComing DEF BlkComing, Replies
<1> QED
  BY <1>1 DEF Acked

LEMMA StartStore ==
  ASSUME IInv, StoreInv, Start, SenderStep, PlaceInv', batch' = batch,
         sPc' \in {"readC", "finMost"}, fileNameIndex' = fileNameIndex + 1
  PROVE  StoreInv'
<1>1. fileNameIndex = 0 /\ rFiles = <<>> /\ rFiles' = rFiles
  BY SenderLeaves DEF Start, StoreInv, PlaceInv, CountsInv
<1>2. fileNameIndex' = 1 /\ Len(rFiles') = 0
  BY <1>1
<1>3. CountsInv'
  BY <1>2 DEF CountsInv, OfAFile
<1>4. ChunksInv'
  BY <1>2 DEF ChunksInv
<1> QED
  BY <1>3, <1>4 DEF StoreInv

\* Steps that only move the sender on to a place that asks no more.
LEMMA StillComplete ==
  ASSUME StoreInv, SenderStep, batch' = batch, fileNameIndex' = fileNameIndex
  PROVE  \A k \in 1..(fileNameIndex' - 1) : Complete(k)'
  BY SenderLeaves DEF StoreInv, ChunksInv

LEMMA HeaderStore ==
  ASSUME IInv, Protocol, StoreInv, ReadC \/ ReadStatAck, SenderStep, PlaceInv', batch' = batch
  PROVE  StoreInv'
<1>1. /\ fileNameIndex' = fileNameIndex
      /\ \/ sPc = "readC" /\ sPc' = "statLast"
         \/ sPc = "statAck" /\ sPc' = "statC"
  BY DEF ReadC, ReadStatAck
<1>2. UNCHANGED <<rPc, rFileD, rFiles>> /\ (FileOpen' <=> FileOpen)
  BY SenderLeaves
<1>3. CountsInv'
  BY <1>1, <1>2 DEF StoreInv, CountsInv, OfAFile
<1>4. ChunksInv'
  BY <1>1, <1>2, StillComplete DEF StoreInv, ChunksInv
<1> QED
  BY <1>3, <1>4 DEF StoreInv

LEMMA HeaderSentStore ==
  ASSUME IInv, Protocol, StoreInv, PrepNextSendLast, sPc = "statLast", SenderStep,
         PlaceInv', batch' = batch
  PROVE  StoreInv'
<1>1. fileNameIndex' = fileNameIndex /\ sPc' = "statAck"
  <2>1. sFileD = fileNameIndex /\ fileNameIndex \in 1..Len(batch)
    BY SameFile DEF StoreInv, OfAFile
  <2>2. sFileD # -1
    BY <2>1, StoreTypes
  <2> QED
    BY <2>2 DEF PrepNextSendLast
<1>2. UNCHANGED <<rPc, rFileD, rFiles>> /\ (FileOpen' <=> FileOpen)
  BY SenderLeaves
<1>3. ~FileOpen
  BY DEF Protocol, HdrComing, FileOpen
<1>4. CountsInv'
  BY <1>1, <1>2, <1>3 DEF StoreInv, CountsInv, OfAFile
<1>5. ChunksInv'
  BY <1>1, <1>2, <1>3, StillComplete DEF StoreInv, ChunksInv
<1> QED
  BY <1>4, <1>5 DEF StoreInv

LEMMA BlkSentStore ==
  ASSUME IInv, Protocol, StoreInv, PrepNextSendLast, sPc = "blkLast", SenderStep,
         PlaceInv', batch' = batch
  PROVE  StoreInv'
<1>1. sFileD # -1 /\ UNCHANGED <<fileNameIndex, sFileD, r2m>> /\ m2s' = <<>> /\ sPc' = "reply"
  <2>1. sFileD = fileNameIndex /\ fileNameIndex \in 1..Len(batch)
    BY SameFile DEF StoreInv, OfAFile
  <2>2. sFileD # -1
    BY <2>1, StoreTypes
  <2> QED
    BY <2>2 DEF PrepNextSendLast, SendLastByte
<1>2. /\ UNCHANGED <<rPc, rFileD, rFiles>> /\ (FileOpen' <=> FileOpen)
      /\ \A n : Holds(n)' <=> Holds(n)
  BY <1>1, SenderLeaves
<1>3. ~Acked'
  BY <1>1, NoAck DEF Protocol
<1>4. PICK k \in 1..Len(Data) : HasBlk(k) /\ SendingBlk(k) /\ (FileOpen => Holds(k - 1))
  BY DEF StoreInv, ChunksInv
<1>5. AwaitingReply(k)' /\ HasBlk(k)' /\ k \in 1..Len(Data')
  <2>1. AwaitingReply(k)'
    BY <1>4, BlkIsSent DEF IInv
  <2>2. Data' = Data
    BY <1>1 DEF Data
  <2> QED
    BY <1>4, <2>1, <2>2 DEF HasBlk
<1>6. CountsInv'
  BY <1>1, <1>2 DEF StoreInv, CountsInv, OfAFile
<1>7. ChunksInv'
  BY <1>1, <1>2, <1>3, <1>4, <1>5, StillComplete DEF ChunksInv
<1> QED
  BY <1>6, <1>7 DEF StoreInv

\* The block kept for a resend and the one prepared are untouched.
LEMMA ResendStore ==
  ASSUME IInv, Protocol, StoreInv, SenderStep, PlaceInv',
         UNCHANGED <<batch, fileNameIndex, sFileD, sPos, bytesRd, blkNum, blkBuf, blkSent>>,
         sPc \in {"reply", "reReply", "reLast"},
         sPc' = "reLast" \/ (sPc' = "reReply" /\ ~Acked')
  PROVE  StoreInv'
<1>2. /\ UNCHANGED <<rPc, rFileD, rFiles>> /\ (FileOpen' <=> FileOpen)
      /\ \A n : Holds(n)' <=> Holds(n)
  BY SenderLeaves
<1>4. PICK k \in 1..Len(Data) :
        HasBlk(k) /\ AwaitingReply(k) /\ (FileOpen => Holds(k - 1) \/ Holds(k))
  BY DEF StoreInv, ChunksInv
<1>5. AwaitingReply(k)' /\ HasBlk(k)' /\ k \in 1..Len(Data')
  BY <1>4 DEF HasBlk, AwaitingReply, Data
<1>6. CountsInv'
  BY <1>2 DEF StoreInv, CountsInv, OfAFile
<1>7. ChunksInv'
  BY <1>2, <1>4, <1>5, StillComplete DEF ChunksInv
<1> QED
  BY <1>6, <1>7 DEF StoreInv

\* From a place at which the receiver has the first n blocks, and no more are
\* prepared unless there are more, the sender goes on to the next or to the EOT.
LEMMA NextBlkStore ==
  ASSUME IInv, StoreInv, SenderStep, PlaceInv', NextBlkOrEot,
         sPc \in {"statC", "reply", "reReply"},
         UNCHANGED <<batch, fileNameIndex>>,
         NEW n \in 0..Len(Data), FileOpen => Holds(n),
         bytesRd = 0 => Len(Data) <= n * CHUNK_SZ,
         bytesRd # 0 => n + 1 \in 1..Len(Data) /\ HasBlk(n + 1) /\ SendingBlk(n + 1)'
  PROVE  StoreInv'
<1>1. /\ UNCHANGED <<rPc, rFileD, rFiles>> /\ (FileOpen' <=> FileOpen)
      /\ Holds(n)' <=> Holds(n)
  BY SenderLeaves
<1>2. Data = Sending /\ Sending' = Sending
  BY SameFile DEF StoreInv, OfAFile, Sending
<1>3. CASE bytesRd = 0
  <2>1. sPc' = "eotNak"
    BY <1>3 DEF NextBlkOrEot
  <2>2. CountsInv'
    BY <1>1, <2>1 DEF StoreInv, CountsInv, OfAFile
  <2>3. FileOpen' => \E m \in 0..Len(Sending') : Holds(m)' /\ Len(Sending') <= m * CHUNK_SZ
    BY <1>1, <1>2, <1>3
  <2>4. ChunksInv'
    BY <2>1, <2>3, StillComplete DEF ChunksInv
  <2> QED
    BY <2>2, <2>4 DEF StoreInv
<1>4. CASE bytesRd # 0
  <2>1. sPc' = "blkLast" /\ sFileD' = sFileD
    BY <1>4 DEF NextBlkOrEot
  <2>2. CountsInv'
    BY <1>1, <2>1 DEF StoreInv, CountsInv, OfAFile
  <2>3. Data' = Data /\ HasBlk(n + 1)' /\ n + 1 \in 1..Len(Data') /\ (n + 1) - 1 = n
    BY <1>4, <2>1 DEF HasBlk, Data
  <2>4. FileOpen' => Holds((n + 1) - 1)'
    BY <1>1, <2>3
  <2>5. \E k \in 1..Len(Data') : HasBlk(k)' /\ SendingBlk(k)' /\ (FileOpen' => Holds(k - 1)')
    BY <1>4, <2>3, <2>4
  <2>6. ChunksInv'
    BY <2>1, <2>5, StillComplete DEF ChunksInv
  <2> QED
    BY <2>2, <2>6 DEF StoreInv
<1> QED
  BY <1>3, <1>4

LEMMA ReadStatCStore ==
  ASSUME IInv, Protocol, StoreInv, ReadStatC, SenderStep, PlaceInv', batch' = batch
  PROVE  StoreInv'
<1>1. /\ sPc = "statC" /\ m2s # <<>> /\ NextBlkOrEot
      /\ UNCHANGED <<fileNameIndex, sPos>>
  BY DEF ReadStatC, ReadByte
<1>2. FileOpen => Holds(0)
  BY <1>1, NothingYet
<1>3. Len(Data) \in Nat /\ 0 \in 0..Len(Data) /\ 0 * CHUNK_SZ = 0
  <2>1. sFileD \in 1..Len(batch)
    BY <1>1 DEF IInv, SInv, SenderFileInv
  <2>2. Len(Data) \in Nat
    BY <2>1, FileOfBatch DEF Data, IInv, SInv
  <2> QED
    BY <2>2, ChunkSzAssumption
<1>4. bytesRd = 0 => Len(Data) <= 0 * CHUNK_SZ
  BY <1>1, <1>3 DEF IInv, SInv, HeaderInv
<1>5. bytesRd # 0 => 0 + 1 \in 1..Len(Data) /\ HasBlk(0 + 1) /\ SendingBlk(0 + 1)'
  <2>1. 0 + 1 = 1
    OBVIOUS
  <2> QED
    BY <1>1, <2>1, FirstBlkAfter DEF IInv
<1> QED
  BY <1>1, <1>2, <1>3, <1>4, <1>5, NextBlkStore

LEMMA ReadReplyStore ==
  ASSUME IInv, Protocol, StoreInv, ReadReply, SenderStep, PlaceInv', batch' = batch
  PROVE  StoreInv'
<1>1. /\ sPc \in {"reply", "reReply"}
      /\ UNCHANGED <<fileNameIndex, sPos, bytesRd, blkBuf>>
  BY DEF ReadReply
<1>2. /\ FileOpen /\ errCnt' = 0
      /\ Head(m2s) # NAK => Acked
  BY AckIsRead
<1>3. CASE sPc' = "reLast" /\ UNCHANGED <<sFileD, blkNum, blkSent>>
  BY <1>1, <1>3, ResendStore
<1>4. CASE ~Resends(Head(m2s), errCnt') /\ NextBlkOrEot
  <2>1. Acked
    BY <1>2, <1>4 DEF Resends, errB
  <2>2. PICK k \in 1..Len(Data) : HasBlk(k) /\ AwaitingReply(k) /\ Holds(k)
    BY <1>1, <1>2, <2>1 DEF StoreInv, ChunksInv
  <2>3. k \in 0..Len(Data)
    OBVIOUS
  <2>4. bytesRd = 0 => Len(Data) <= k * CHUNK_SZ
    BY <2>2 DEF AwaitingReply
  <2>5. bytesRd # 0 => k + 1 \in 1..Len(Data) /\ HasBlk(k + 1) /\ SendingBlk(k + 1)'
    BY <1>1, <1>4, <2>2, NextBlkAfter DEF IInv
  <2> QED
    BY <1>1, <1>4, <2>2, <2>3, <2>4, <2>5, NextBlkStore
<1> QED
  BY <1>3, <1>4 DEF ReadReply

LEMMA ReadEotNakStore ==
  ASSUME IInv, Protocol, StoreInv, ReadEotNak, SenderStep, PlaceInv', batch' = batch
  PROVE  StoreInv'
<1>1. sPc = "eotNak" /\ sPc' = "eotAck" /\ m2s # <<>> /\ fileNameIndex' = fileNameIndex
  BY DEF ReadEotNak, ReadByte
<1>2. rPc = "eot2"
  BY <1>1, WireSeqs, NoneComing DEF Protocol, FirstEot, Replies
<1>3. /\ UNCHANGED <<rPc, rFileD, rFiles>>
      /\ \A k : Complete(k)' <=> Complete(k)
  BY SenderLeaves
<1>4. Len(rFiles) = fileNameIndex
  BY <1>1, <1>2 DEF StoreInv, CountsInv, FileOpen
<1>5. PICK n \in 0..Len(Sending) : Holds(n) /\ Len(Sending) <= n * CHUNK_SZ
  BY <1>1, <1>2 DEF StoreInv, ChunksInv, FileOpen
<1>6. fileNameIndex \in 1..Len(batch) /\ fileNameIndex \in 1..Len(rFiles)
  BY <1>1, <1>4, StoreTypes DEF StoreInv, PlaceInv, AfterLast
<1>7. Complete(fileNameIndex)
  <2>1. Sending \in Seq(Byte)
    BY <1>6, FileOfBatch DEF Sending, IInv, SInv
  <2>2. Kept(Sending, n) = KeptChunks(Sending)
    BY <1>5, <2>1, KeptAll
  <2>3. StoredTo(n)
    BY <1>2, <1>5 DEF Holds
  <2>4. rFiles[fileNameIndex].chunks \in Seq(Chunk)
    <3>1. rFiles[fileNameIndex] \in [name : Seq(Byte), chunks : Seq(Chunk)]
      BY <1>6, StoreTypes, ElementOfSeq
    <3> QED
      BY <3>1
  <2>5. Merged(rFiles[fileNameIndex].chunks, KeptChunks(Sending)) = KeptChunks(Sending)
    BY <2>1, <2>2, <2>3, <2>4, KeptChunksType, CoversAll DEF StoredTo
  <2> QED
    BY <1>6, <2>5 DEF Complete, Sending
<1>8. CountsInv'
  BY <1>1, <1>3, <1>4 DEF CountsInv, OfAFile
<1>9. Complete(fileNameIndex)'
  BY <1>1, <1>3, <1>7 DEF Complete, CreatedAgain
<1>10. ChunksInv'
  BY <1>1, <1>9, StillComplete DEF ChunksInv
<1> QED
  BY <1>8, <1>10 DEF StoreInv

LEMMA ReadEotAckStore ==
  ASSUME IInv, StoreInv, SenderStep, sPc = "eotAck", sPc' \in {"readC", "finMost"},
         fileNameIndex' = fileNameIndex + 1, PlaceInv', batch' = batch
  PROVE  StoreInv'
<1>1. Len(rFiles) = fileNameIndex /\ fileNameIndex \in Nat
  BY StoreTypes DEF StoreInv, CountsInv
<1>2. /\ UNCHANGED <<rPc, rFileD, rFiles>>
      /\ \A k : Complete(k)' <=> Complete(k)
  BY SenderLeaves
<1>3. \A k \in 1..(fileNameIndex' - 1) : Complete(k)'
  <2>1. \A k \in 1..(fileNameIndex' - 1) : k \in 1..(fileNameIndex - 1) \/ k = fileNameIndex
    BY <1>1
  <2>2. Complete(fileNameIndex) /\ \A k \in 1..(fileNameIndex - 1) : Complete(k)
    BY DEF StoreInv, ChunksInv
  <2> QED
    BY <1>2, <2>1, <2>2
<1>4. CountsInv'
  BY <1>1, <1>2 DEF CountsInv, OfAFile
<1>5. ChunksInv'
  BY <1>3 DEF ChunksInv
<1> QED
  BY <1>4, <1>5 DEF StoreInv

LEMMA FinalStore ==
  ASSUME StoreInv, SendFinalMost \/ SendFinalLast \/ ReadFinalAck, SenderStep, PlaceInv', batch' = batch
  PROVE  StoreInv'
<1>1. /\ fileNameIndex' = fileNameIndex
      /\ \/ sPc = "finMost" /\ sPc' = "finLast"
         \/ sPc' \in {"finAck", "done"}
  BY DEF SendFinalMost, SendFinalLast, ReadFinalAck
<1>2. UNCHANGED <<rPc, rFileD, rFiles>>
  BY SenderLeaves
<1>3. CountsInv'
  BY <1>1, <1>2 DEF StoreInv, CountsInv, OfAFile
<1>4. ChunksInv'
  BY <1>1, StillComplete DEF ChunksInv
<1> QED
  BY <1>3, <1>4 DEF StoreInv

LEMMA SenderStore ==
  ASSUME IInv, PInv, StoreInv, ~Canceled', SenderStep
  PROVE  StoreInv'
<1>1. PlaceInv' /\ batch' = batch
  BY SenderPlace DEF StoreInv
<1>2. Protocol
  BY DEF SenderStep, SenderNext, PInv
<1>3. CASE Start
  BY <1>1, <1>3, NextFileOf, StartStore
<1>4. CASE ReadC \/ ReadStatAck
  BY <1>1, <1>2, <1>4, HeaderStore
<1>5. CASE PrepNextSendLast
  BY <1>1, <1>2, <1>5, HeaderSentStore, BlkSentStore DEF PrepNextSendLast
<1>6. CASE ReadStatC
  BY <1>1, <1>2, <1>6, ReadStatCStore
<1>7. CASE ReadReply
  BY <1>1, <1>2, <1>7, ReadReplyStore
<1>8. CASE ResendLast
  <2>1. /\ sPc = "reLast" /\ sPc' = "reReply" /\ r2m' = r2m /\ m2s' = <<>>
        /\ UNCHANGED <<fileNameIndex, sFileD, sPos, bytesRd, blkNum, blkBuf, blkSent>>
    BY <1>8 DEF ResendLast, SendLastByte
  <2>2. ~Acked'
    BY <1>2, <2>1, NoAck DEF Protocol
  <2> QED
    BY <1>1, <1>2, <2>1, <2>2, ResendStore
<1>9. CASE ReadEotNak
  BY <1>1, <1>2, <1>9, ReadEotNakStore
<1>10. CASE ReadEotAck
  BY <1>1, <1>10, ReadEotAckParts, NextFileOf, ReadEotAckStore
<1>11. CASE SendFinalMost \/ SendFinalLast \/ ReadFinalAck
  BY <1>1, <1>11, FinalStore
<1> QED
  BY <1>3, <1>4, <1>5, <1>6, <1>7, <1>8, <1>9, <1>10, <1>11 DEF SenderStep, SenderNext

-----------------------------------------------------------------------------
(* The steps of the receiver.                                              *)

LEMMA SenderStays ==
  ASSUME UNCHANGED sVars
  PROVE  /\ UNCHANGED <<batch, fileNameIndex, sPc, sFileD, errCnt, sResult, Data, Sending>>
         /\ PlaceInv => PlaceInv'
         /\ \A k : (HasBlk(k)' <=> HasBlk(k)) /\ (SendingBlk(k)' <=> SendingBlk(k))
                   /\ (AwaitingReply(k)' <=> AwaitingReply(k))
<1>1. UNCHANGED <<batch, fileNameIndex, sPc, sFileD, sPos, bytesRd, blkNum, blkBuf, blkSent,
                  errCnt, sResult>>
  BY DEF sVars
<1>2. Data' = Data /\ Sending' = Sending
  BY <1>1 DEF Data, Sending
<1>3. PlaceInv => PlaceInv'
  BY <1>1 DEF PlaceInv
<1>4. \A k : (HasBlk(k)' <=> HasBlk(k)) /\ (SendingBlk(k)' <=> SendingBlk(k))
             /\ (AwaitingReply(k)' <=> AwaitingReply(k))
  BY <1>1, <1>2 DEF HasBlk, SendingBlk, AwaitingReply
<1> QED
  BY <1>1, <1>2, <1>3, <1>4

LEMMA SentPlaces ==
  ASSUME IInv, StoreInv, sPc \in {"blkLast", "reply", "reReply", "reLast"}, NEW k \in 1..Len(Data)
  PROVE  /\ Data = Sending /\ Len(Sending) \in Nat /\ Sending \in Seq(Byte)
         /\ k - 1 \in 0..Len(Sending) /\ k \in 0..Len(Sending) /\ k \in 1..Len(Sending)
<1>1. Data = Sending /\ fileNameIndex \in 1..Len(batch)
  BY SameFile DEF StoreInv, OfAFile
<1>2. Sending \in Seq(Byte) /\ Len(Sending) \in Nat
  BY <1>1, FileOfBatch DEF Sending, IInv, SInv
<1> QED
  BY <1>1, <1>2

\* What is on the disk of the file that is open may grow to what the receiver
\* holds of it already; no ACK is new.
LEMMA KeepsStore ==
  ASSUME IInv, StoreInv, UNCHANGED sVars,
         FileOpen' <=> FileOpen, FileOpen => rFileD' = rFileD, Len(rFiles') = Len(rFiles),
         rFiles = <<>> => rFiles' = <<>>,
         \A k \in 1..(fileNameIndex - 1) : Complete(k) => Complete(k)',
         sPc = "eotAck" => (Complete(fileNameIndex) => Complete(fileNameIndex)'),
         sPc \in {"statAck", "statC"} /\ FileOpen =>
           rFiles'[fileNameIndex].chunks = rFiles[fileNameIndex].chunks,
         FileOpen => \A n \in 0..Len(Sending) : Holds(n) => Holds(n)',
         Acked' => Acked
  PROVE  StoreInv'
<1>1. /\ UNCHANGED <<batch, fileNameIndex, sPc, Data, Sending>> /\ PlaceInv'
      /\ \A k : (HasBlk(k)' <=> HasBlk(k)) /\ (SendingBlk(k)' <=> SendingBlk(k))
                /\ (AwaitingReply(k)' <=> AwaitingReply(k))
  BY SenderStays DEF StoreInv
<1>2. CountsInv'
  BY <1>1 DEF StoreInv, CountsInv
<1>3. sPc = "blkLast" => \E k \in 1..Len(Data') :
        HasBlk(k)' /\ SendingBlk(k)' /\ (FileOpen' => Holds(k - 1)')
  <2> SUFFICES ASSUME sPc = "blkLast"
               PROVE  \E k \in 1..Len(Data') :
                        HasBlk(k)' /\ SendingBlk(k)' /\ (FileOpen' => Holds(k - 1)')
    OBVIOUS
  <2>1. PICK k \in 1..Len(Data) : HasBlk(k) /\ SendingBlk(k) /\ (FileOpen => Holds(k - 1))
    BY DEF StoreInv, ChunksInv
  <2>2. k - 1 \in 0..Len(Sending)
    BY SentPlaces
  <2> QED
    BY <1>1, <2>1, <2>2
<1>4. sPc \in {"reply", "reReply", "reLast"} =>
        \E k \in 1..Len(Data') :
          /\ HasBlk(k)' /\ AwaitingReply(k)'
          /\ FileOpen' => Holds(k - 1)' \/ Holds(k)'
          /\ FileOpen' /\ Acked' /\ sPc' # "reLast" => Holds(k)'
  <2> SUFFICES ASSUME sPc \in {"reply", "reReply", "reLast"}
               PROVE  \E k \in 1..Len(Data') :
                        /\ HasBlk(k)' /\ AwaitingReply(k)'
                        /\ FileOpen' => Holds(k - 1)' \/ Holds(k)'
                        /\ FileOpen' /\ Acked' /\ sPc' # "reLast" => Holds(k)'
    OBVIOUS
  <2>1. PICK k \in 1..Len(Data) :
          /\ HasBlk(k) /\ AwaitingReply(k)
          /\ FileOpen => Holds(k - 1) \/ Holds(k)
          /\ FileOpen /\ Acked /\ sPc # "reLast" => Holds(k)
    BY DEF StoreInv, ChunksInv
  <2>2. k - 1 \in 0..Len(Sending) /\ k \in 0..Len(Sending)
    BY SentPlaces
  <2> QED
    BY <1>1, <2>1, <2>2
<1>5. ChunksInv'
  BY <1>1, <1>3, <1>4 DEF StoreInv, ChunksInv
<1> QED
  BY <1>1, <1>2, <1>5 DEF StoreInv

\* Nothing is written and nothing is taken.
LEMMA SameStore ==
  ASSUME IInv, StoreInv, UNCHANGED <<sVars, numLastGoodBlk, rFileD, rFiles>>,
         FileOpen' <=> FileOpen, Acked' => Acked,
         \/ UNCHANGED <<rPc, rcvBlk>>
         \/ rPc # "write" /\ rPc' # "write"
  PROVE  StoreInv'
<1>1. UNCHANGED <<sVars, batch, fileNameIndex, rFileD, rFiles>>
  BY SenderStays
<1>2. \A k : Complete(k) => Complete(k)'
  BY <1>1 DEF Complete, CreatedAgain
<1>3. \A n : Holds(n) => Holds(n)'
  BY <1>1 DEF Holds, StoredTo, Sending
<1> QED
  BY <1>1, <1>2, <1>3, KeepsStore

\* No file is open before the step and none is after it.
LEMMA NotOpenStore ==
  ASSUME StoreInv, UNCHANGED <<sVars, rFiles>>, ~FileOpen',
         ~FileOpen \/ sPc = "eotAck"
  PROVE  StoreInv'
<1>1. /\ UNCHANGED <<batch, fileNameIndex, sPc, rFiles>> /\ PlaceInv' /\ Data' = Data
      /\ \A k : (HasBlk(k)' <=> HasBlk(k)) /\ (SendingBlk(k)' <=> SendingBlk(k))
                /\ (AwaitingReply(k)' <=> AwaitingReply(k))
  BY SenderStays DEF StoreInv
<1>2. \A k : Complete(k) => Complete(k)'
  BY <1>1 DEF Complete, CreatedAgain
<1>3. CountsInv'
  BY <1>1 DEF StoreInv, CountsInv, OfAFile
<1>4. ChunksInv'
  BY <1>1, <1>2 DEF StoreInv, ChunksInv
<1> QED
  BY <1>1, <1>3, <1>4 DEF StoreInv

\* A reply that is not an ACK.
LEMMA NoNewAck ==
  ASSUME IInv, NEW byte \in Byte, byte # ACK, r2m' = r2m \o <<byte>>, m2s' = m2s
  PROVE  Acked' => Acked
<1>1. r2m \in Seq(Byte) /\ <<byte>> \in Seq(Byte)
  BY WireSeqs
<1>2. /\ Len(r2m) \in Nat /\ Len(r2m') = Len(r2m) + 1
      /\ \A i \in 1..Len(r2m) : r2m'[i] = r2m[i]
      /\ r2m'[Len(r2m) + 1] = byte
  <2>1. Len(<<byte>>) = 1 /\ <<byte>>[1] = byte /\ 1 \in 1..1
    OBVIOUS
  <2> QED
    BY <1>1, <2>1, ConcatAt, LenProperties
<1>3. ASSUME NEW i \in 1..Len(r2m'), r2m'[i] = ACK PROVE Acked
  <2>1. i \in 1..Len(r2m) \/ i = Len(r2m) + 1
    BY <1>2
  <2>2. i \in 1..Len(r2m)
    BY <1>2, <1>3, <2>1
  <2> QED
    BY <1>2, <1>3, <2>2 DEF Acked
<1> QED
  BY <1>3 DEF Acked

\* The chunk is written, or nothing is left of it: either way the file then
\* holds what it should of the first n blocks.
LEMMA ChunkIsWritten ==
  ASSUME NEW data \in Seq(Byte), NEW n \in 1..Len(data), (n - 1) * CHUNK_SZ < Len(data),
         NEW w \in Seq(Chunk), NEW c, c = ChunksOf(data)[n],
         \/ Covers(w, KeptChunks(data), Len(Kept(data, n - 1)))
         \/ Covers(w, KeptChunks(data), Len(Kept(data, n)))
  PROVE  Covers(IF TrimmedLen(c) > 0 THEN Append(w, c) ELSE w,
                KeptChunks(data), Len(Kept(data, n)))
<1> DEFINE before == Kept(data, n - 1)
           after  == Kept(data, n)
           sent   == KeptChunks(data)
<1>1. Len(data) \in Nat /\ c \in Chunk /\ n - 1 \in 0..Len(data) /\ n \in 0..Len(data)
  BY ChunksOfType
<1>2. before \in Seq(Chunk) /\ after \in Seq(Chunk) /\ sent \in Seq(Chunk)
  <2>1. Len(data) \in 0..Len(data)
    BY <1>1
  <2> QED
    BY <1>1, <2>1, KeptType DEF KeptChunks
<1>3. n \in KeptPlaces(data) <=> TrimmedLen(c) > 0
  BY DEF KeptPlaces
<1>4. after = IF TrimmedLen(c) > 0 THEN Append(before, c) ELSE before
  <2> DEFINE m == n - 1
  <2>1. m \in Nat /\ m + 1 = n
    BY <1>1
  <2> HIDE DEF m
  <2>2. Kept(data, m + 1) = IF m + 1 \in KeptPlaces(data)
                            THEN Append(Kept(data, m), ChunksOf(data)[m + 1])
                            ELSE Kept(data, m)
    BY <2>1, KeptNext
  <2> QED
    BY <1>3, <2>1, <2>2 DEF m
<1>5. Begins(after, sent)
  BY <1>1, KeptBegins
<1>6. Covers(w, sent, Len(before)) \/ Covers(w, sent, Len(after))
  OBVIOUS
<1> HIDE DEF before, after, sent
<1>7. CASE TrimmedLen(c) > 0
  <2>1. Len(before) \in Nat /\ Len(after) = Len(before) + 1 /\ after[Len(before) + 1] = c
    BY <1>1, <1>2, <1>4, <1>7, AppendProperties, LenProperties
  <2>2. Len(sent) \in Nat /\ Len(after) <= Len(sent) /\ \A i \in 1..Len(after) : after[i] = sent[i]
    BY <1>2, <1>5, LenProperties DEF Begins
  <2> DEFINE d == Len(after)
  <2>3. d \in Nat /\ d \in 1..Len(sent) /\ sent[d] = c /\ d = Len(before) + 1
    BY <2>1, <2>2
  <2>4. Covers(w, sent, Len(before)) \/ Covers(w, sent, d)
    BY <1>6
  <2> HIDE DEF d
  <2>5. Covers(Append(w, c), sent, d)
    BY <1>1, <1>2, <2>1, <2>3, <2>4, CoversMore
  <2> QED
    BY <1>7, <2>5 DEF d, after, sent
<1>8. CASE ~(TrimmedLen(c) > 0)
  BY <1>4, <1>6, <1>8 DEF before, after, sent
<1> QED
  BY <1>7, <1>8

\* Where the sender is when the receiver has to write, and which file is open.
LEMMA WritePlace ==
  ASSUME IInv, Protocol, StoreInv, rPc = "write"
  PROVE  /\ sPc \in {"blkLast", "reply", "reReply", "reLast", "eotNak"} /\ FileOpen
         /\ rFileD = fileNameIndex /\ Len(rFiles) = fileNameIndex
         /\ fileNameIndex \in 1..Len(batch) /\ fileNameIndex \in 1..Len(rFiles)
         /\ Sending \in Seq(Byte)
         /\ rFiles[fileNameIndex].chunks \in Seq(Chunk)
<1>1. sPc \in {"blkLast", "reply", "reReply", "reLast", "eotNak"}
  <2>1. sPc \in SPcs
    BY StoreTypes
  <2> QED
    BY <2>1 DEF Protocol, BeforeHdr, HdrComing, HdrTaken, HdrAnswered, SecondEot, LastSent,
       LastComing, LastTaken, Returned, SPcs, ReadingPcs
<1>2. FileOpen
  BY DEF FileOpen
<1>3. rFileD = fileNameIndex /\ Len(rFiles) = fileNameIndex
  BY <1>1, <1>2 DEF StoreInv, CountsInv, OfAFile
<1>4. fileNameIndex \in 1..Len(batch) /\ fileNameIndex \in 1..Len(rFiles)
  <2>1. fileNameIndex \in 1..Len(batch)
    BY <1>1 DEF StoreInv, PlaceInv, AfterLast
  <2>2. Len(batch) \in Nat
    BY StoreTypes
  <2> QED
    BY <1>3, <2>1, <2>2
<1>5. Sending \in Seq(Byte)
  BY <1>4, FileOfBatch DEF Sending, IInv, SInv
<1>6. rFiles[fileNameIndex].chunks \in Seq(Chunk)
  <2>1. rFiles[fileNameIndex] \in [name : Seq(Byte), chunks : Seq(Chunk)]
    BY <1>4, StoreTypes, ElementOfSeq
  <2> QED
    BY <2>1
<1> QED
  BY <1>1, <1>2, <1>3, <1>4, <1>5, <1>6

\* What a chunk changes on the disk.
LEMMA MoreFiles ==
  ASSUME IInv, NEW n \in 1..Len(rFiles), NEW chunk
  PROVE  LET more == [rFiles EXCEPT ![n].chunks = Append(@, chunk)]
         IN /\ Len(more) = Len(rFiles)
            /\ \A k \in 1..Len(rFiles) : k # n => more[k] = rFiles[k]
            /\ \A k \in 1..Len(rFiles) : more[k].name = rFiles[k].name
            /\ more[n].chunks = Append(rFiles[n].chunks, chunk)
<1> DEFINE more  == [rFiles EXCEPT ![n].chunks = Append(@, chunk)]
           files == Seq([name : Seq(Byte), chunks : Seq(Chunk)])
<1>1. rFiles \in files
  BY StoreTypes
<1>2. \A k \in 1..Len(rFiles) : rFiles[k] \in [name : Seq(Byte), chunks : Seq(Chunk)]
  BY <1>1, ElementOfSeq
<1>3. Len(more) = Len(rFiles)
  BY <1>1, ExceptSeq
<1>4. n \in DOMAIN rFiles /\ 1..Len(rFiles) = DOMAIN rFiles
  BY <1>1, LenProperties
<1>5. \A k \in 1..Len(rFiles) : k # n => more[k] = rFiles[k]
  BY <1>4
<1>6. more[n].chunks = Append(rFiles[n].chunks, chunk) /\ more[n].name = rFiles[n].name
  BY <1>2, <1>4
<1>7. \A k \in 1..Len(rFiles) : more[k].name = rFiles[k].name
  BY <1>5, <1>6
<1> QED
  BY <1>3, <1>5, <1>6, <1>7

LEMMA WrittenFiles ==
  ASSUME WriteChunk, rPc' # rPc, rFileD = fileNameIndex
  PROVE  LET chunk == ChunkOf(rcvBlk)
             kept  == IF numLastGoodBlk # 0 THEN TrimmedLen(chunk) ELSE CHUNK_SZ
         IN rFiles' = IF kept > 0 THEN [rFiles EXCEPT ![fileNameIndex].chunks = Append(@, chunk)]
                                  ELSE rFiles
<1> DEFINE chunk == ChunkOf(rcvBlk)
           kept  == IF numLastGoodBlk # 0 THEN TrimmedLen(chunk) ELSE CHUNK_SZ
           more  == [rFiles EXCEPT ![fileNameIndex].chunks = Append(@, chunk)]
<1>1. kept = 0 => ~(kept > 0)
  OBVIOUS
<1>2. \/ kept > 0 /\ rFiles' = [rFiles EXCEPT ![rFileD].chunks = Append(@, chunk)]
      \/ kept = 0 /\ rFiles' = rFiles
  BY DEF WriteChunk
<1>3. [rFiles EXCEPT ![rFileD].chunks = Append(@, chunk)] = more
  OBVIOUS
<1> HIDE DEF kept, more
<1>4. rFiles' = IF kept > 0 THEN more ELSE rFiles
  BY <1>1, <1>2, <1>3
<1> QED
  BY <1>4 DEF kept, more

LEMMA SameNames ==
  ASSUME Len(rFiles') = Len(rFiles), NEW k \in 1..Len(rFiles),
         \A j \in 1..Len(rFiles) : rFiles'[j].name = rFiles[j].name
  PROVE  CreatedAgain(k)' <=> CreatedAgain(k)
<1>1. \A j \in (k + 1)..Len(rFiles) : j \in 1..Len(rFiles)
  OBVIOUS
<1> QED
  BY <1>1 DEF CreatedAgain

LEMMA WriteChunkStore ==
  ASSUME IInv, Protocol, StoreInv, WriteChunk, UNCHANGED sVars
  PROVE  StoreInv'
<1>1. /\ rPc = "write" /\ UNCHANGED <<rcvBlk, numLastGoodBlk, rFileD, r2m, m2s>>
      /\ Acked' => Acked
  BY DEF WriteChunk, Acked
<1>2. /\ sPc \in {"blkLast", "reply", "reReply", "reLast", "eotNak"} /\ FileOpen
      /\ rFileD = fileNameIndex /\ Len(rFiles) = fileNameIndex
      /\ fileNameIndex \in 1..Len(batch) /\ fileNameIndex \in 1..Len(rFiles)
      /\ Sending \in Seq(Byte)
      /\ rFiles[fileNameIndex].chunks \in Seq(Chunk)
  BY <1>1, WritePlace
<1>3. CASE UNCHANGED <<rPc, rFiles>>
  <2>1. FileOpen' <=> FileOpen
    BY <1>3 DEF FileOpen
  <2> QED
    BY <1>1, <1>3, <2>1, SameStore
<1>4. CASE rPc' = "blk1" /\ rPc' # rPc
  <2> DEFINE chunk == ChunkOf(rcvBlk)
             kept  == IF numLastGoodBlk # 0 THEN TrimmedLen(chunk) ELSE CHUNK_SZ
             w     == rFiles[fileNameIndex].chunks
             more  == [rFiles EXCEPT ![fileNameIndex].chunks = Append(@, chunk)]
  <2>1. rFiles' = IF kept > 0 THEN more ELSE rFiles
    BY <1>2, <1>4, WrittenFiles
  <2>2. /\ Len(more) = Len(rFiles)
        /\ \A k \in 1..Len(rFiles) : k # fileNameIndex => more[k] = rFiles[k]
        /\ \A k \in 1..Len(rFiles) : more[k].name = rFiles[k].name
        /\ more[fileNameIndex].chunks = Append(w, chunk)
    BY <1>2, MoreFiles
  <2> HIDE DEF more
  <2>3. Len(rFiles') = Len(rFiles) /\ FileOpen' /\ (rFiles = <<>> => rFiles' = <<>>)
    <3>1. rFiles # <<>>
      BY <1>2
    <3> QED
      BY <1>4, <2>1, <2>2, <3>1 DEF FileOpen
  <2>4. UNCHANGED <<batch, fileNameIndex, Sending>>
    BY SenderStays
  <2>5. ASSUME NEW k \in 1..(fileNameIndex - 1), Complete(k) PROVE Complete(k)'
    <3>1. k \in 1..Len(rFiles) /\ k # fileNameIndex
      BY <1>2
    <3>2. rFiles'[k] = rFiles[k] /\ \A j \in 1..Len(rFiles) : rFiles'[j].name = rFiles[j].name
      BY <2>1, <2>2, <3>1
    <3>3. CreatedAgain(k)' <=> CreatedAgain(k)
      BY <2>3, <3>1, <3>2, SameNames
    <3> QED
      BY <2>3, <2>4, <2>5, <3>1, <3>2, <3>3 DEF Complete
  <2>6. ASSUME NEW n \in 0..Len(Sending), Holds(n) PROVE Holds(n)'
    <3>1. /\ n > 0 /\ (n - 1) * CHUNK_SZ < Len(Sending) /\ numLastGoodBlk # 0
          /\ chunk = ChunksOf(Sending)[n] /\ (StoredTo(n - 1) \/ StoredTo(n))
      BY <1>1, <2>6 DEF Holds
    <3>2. n \in 1..Len(Sending)
      BY <1>2, <3>1, LenProperties
    <3>3. Covers(IF TrimmedLen(chunk) > 0 THEN Append(w, chunk) ELSE w,
                 KeptChunks(Sending), Len(Kept(Sending, n)))
      <4> HIDE DEF w, chunk
      <4>1. w \in Seq(Chunk)
        BY <1>2 DEF w
      <4>2. \/ Covers(w, KeptChunks(Sending), Len(Kept(Sending, n - 1)))
            \/ Covers(w, KeptChunks(Sending), Len(Kept(Sending, n)))
        BY <3>1 DEF StoredTo, w
      <4> QED
        BY <1>2, <3>1, <3>2, <4>1, <4>2, ChunkIsWritten
    <3>4. rFiles'[fileNameIndex].chunks = IF TrimmedLen(chunk) > 0 THEN Append(w, chunk) ELSE w
      BY <2>1, <2>2, <3>1
    <3>5. StoredTo(n)'
      BY <2>4, <3>3, <3>4 DEF StoredTo
    <3> QED
      BY <1>1, <1>4, <2>4, <3>1, <3>5 DEF Holds
  <2> QED
    BY <1>1, <1>2, <2>3, <2>5, <2>6, KeepsStore
<1> QED
  BY <1>1, <1>3, <1>4 DEF WriteChunk

LEMMA HeaderPlaces ==
  ASSUME IInv, Protocol, Protocol', rPc = "hdrRest", rPc' = "ncg2", sPc' = sPc
  PROVE  sPc \in {"statAck", "finAck", "done"}
<1>1. sPc \in SPcs
  BY StoreTypes
<1>2. sPc \notin {"statLast", "finLast"}
  BY <1>1 DEF Protocol, HdrComing, LastSent
<1>3. sPc \notin {"start", "readC", "finMost", "statC", "blkLast", "reLast", "reply", "reReply",
                  "eotNak", "eotAck"}
  BY DEF Protocol, BeforeHdr, HdrAnswered, BlkComing, BlkTaken, FirstEot, SecondEot
<1> QED
  BY <1>1, <1>2, <1>3 DEF SPcs, ReadingPcs

LEMMA FileCreated ==
  ASSUME IInv, GetHdrRest, rFiles' = Created(rFiles, CString(rcvBlk'))
  PROVE  /\ Len(rFiles) \in Nat /\ Len(rFiles') = Len(rFiles) + 1
         /\ rFiles'[Len(rFiles) + 1].name = CString(rcvBlk')
         /\ rFiles'[Len(rFiles) + 1].chunks = <<>>
         /\ \A k \in 1..Len(rFiles) :
              /\ rFiles'[k].name = rFiles[k].name
              /\ rFiles[k].name # CString(rcvBlk') => rFiles'[k] = rFiles[k]
              /\ rFiles[k].name = CString(rcvBlk') => rFiles'[k].chunks = <<>>
<1> DEFINE name == CString(rcvBlk')
<1>1. rFiles \in Seq(StoredFiles)
  BY StoreTypes DEF StoredFiles
<1>2. name \in Seq(Byte)
  <2>1. rcvBlk' \in Block
    BY GetRestBlkType DEF GetHdrRest, IInv, RInv
  <2> QED
    BY <2>1, CStringType
<1> HIDE DEF name
<1>3. rFiles' = Created(rFiles, name)
  BY DEF name
<1>4. /\ Len(rFiles) \in Nat /\ Len(rFiles') = Len(rFiles) + 1
      /\ rFiles'[Len(rFiles) + 1] = [name |-> name, chunks |-> <<>>]
      /\ \A k \in 1..Len(rFiles) :
           rFiles'[k] = IF rFiles[k].name = name THEN Emptied(rFiles[k]) ELSE rFiles[k]
  BY <1>1, <1>2, <1>3, CreatedType
<1>5. ASSUME NEW k \in 1..Len(rFiles)
      PROVE  Emptied(rFiles[k]).name = rFiles[k].name /\ Emptied(rFiles[k]).chunks = <<>>
  <2>1. rFiles[k] \in StoredFiles
    BY <1>1, ElementOfSeq
  <2> QED
    BY <2>1 DEF Emptied, StoredFiles
<1>6. ASSUME NEW k \in 1..Len(rFiles)
      PROVE  /\ rFiles'[k].name = rFiles[k].name
             /\ rFiles[k].name # name => rFiles'[k] = rFiles[k]
             /\ rFiles[k].name = name => rFiles'[k].chunks = <<>>
  <2>1. CASE rFiles[k].name = name
    BY <1>4, <1>5, <2>1
  <2>2. CASE rFiles[k].name # name
    BY <1>4, <2>2
  <2> QED
    BY <2>1, <2>2
<1>7. rFiles'[Len(rFiles) + 1].name = name /\ rFiles'[Len(rFiles) + 1].chunks = <<>>
  BY <1>4
<1> QED
  BY <1>4, <1>6, <1>7 DEF name

\* A file that was complete still is, or it is created again.
LEMMA CreatedKeeps ==
  ASSUME IInv, GetHdrRest, rFiles' = Created(rFiles, CString(rcvBlk')), batch' = batch,
         NEW k \in Nat, Complete(k)
  PROVE  Complete(k)'
<1> DEFINE n    == Len(rFiles)
           name == CString(rcvBlk')
<1>1. /\ n \in Nat /\ Len(rFiles') = n + 1
      /\ rFiles'[n + 1].name = name
      /\ \A j \in 1..n :
           /\ rFiles'[j].name = rFiles[j].name
           /\ rFiles[j].name # name => rFiles'[j] = rFiles[j]
           /\ rFiles[j].name = name => rFiles'[j].chunks = <<>>
  BY FileCreated
<1>2. k \in 1..n
  BY DEF Complete
<1> HIDE DEF name
<1>3. k \in 1..Len(rFiles')
  BY <1>1, <1>2
<1>4. CreatedAgain(k) => CreatedAgain(k)'
  <2> SUFFICES ASSUME NEW j \in (k + 1)..n, rFiles[j].name = rFiles[k].name
               PROVE  CreatedAgain(k)'
    BY DEF CreatedAgain
  <2>1. j \in 1..n /\ j \in (k + 1)..(n + 1)
    BY <1>1, <1>2
  <2>2. rFiles'[j].name = rFiles'[k].name
    BY <1>1, <1>2, <2>1
  <2> QED
    BY <1>1, <2>1, <2>2 DEF CreatedAgain
<1>5. CASE rFiles[k].name = name
  <2>1. n + 1 \in (k + 1)..(n + 1) /\ rFiles'[n + 1].name = rFiles'[k].name
    BY <1>1, <1>2, <1>5
  <2>2. CreatedAgain(k)'
    BY <1>1, <2>1 DEF CreatedAgain
  <2> QED
    BY <1>1, <1>2, <1>3, <1>5, <2>2 DEF Complete
<1>6. CASE rFiles[k].name # name
  <2>1. rFiles'[k] = rFiles[k]
    BY <1>1, <1>2, <1>6
  <2> QED
    BY <1>3, <1>4, <2>1 DEF Complete
<1> QED
  BY <1>5, <1>6

\* A header has come: the receiver creates the file, or it does not.
LEMMA GetHdrRestStore ==
  ASSUME IInv, Protocol, ~exited' => Protocol', StoreInv, GetHdrRest, UNCHANGED <<sVars, mVars>>, ~exited
  PROVE  StoreInv'
<1>1. rPc = "hdrRest" /\ ~FileOpen /\ UNCHANGED <<s2m, m2s, exited, sPc>>
  BY SenderStays DEF GetHdrRest, FileOpen
<1>2. CASE rPc' = "done" /\ rFiles' = rFiles
  BY <1>1, <1>2, NotOpenStore DEF FileOpen
<1>3. CASE /\ rPc' = "ncg2"
           /\ rFiles' = Created(rFiles, CString(rcvBlk'))
           /\ rFileD' = Len(rFiles) + 1
  <2>1. sPc \in {"statAck", "finAck", "done"}
    BY <1>1, <1>3, HeaderPlaces
  <2>2. /\ Len(rFiles) \in Nat /\ Len(rFiles') = Len(rFiles) + 1
        /\ rFiles'[Len(rFiles) + 1].chunks = <<>>
    BY <1>3, FileCreated
  <2>3. /\ UNCHANGED <<batch, fileNameIndex, Data, Sending>> /\ PlaceInv' /\ FileOpen'
    BY <1>3, SenderStays DEF StoreInv, FileOpen
  <2>4. \A k \in 1..(fileNameIndex - 1) : Complete(k)'
    <3> SUFFICES ASSUME NEW k \in 1..(fileNameIndex - 1) PROVE Complete(k)'
      OBVIOUS
    <3>1. Complete(k) /\ k \in Nat
      BY DEF StoreInv, ChunksInv
    <3> QED
      BY <1>3, <2>3, <3>1, CreatedKeeps
  <2>5. CASE sPc = "statAck"
    <3>1. Len(rFiles) = fileNameIndex - 1 /\ fileNameIndex \in Nat
      BY <1>1, <2>5, StoreTypes DEF StoreInv, CountsInv, OfAFile
    <3>2. Len(rFiles') = fileNameIndex /\ rFileD' = fileNameIndex
          /\ rFiles'[fileNameIndex].chunks = <<>>
      BY <1>3, <2>2, <3>1
    <3>3. CountsInv'
      BY <1>1, <2>3, <2>5, <3>2 DEF CountsInv, OfAFile
    <3>4. ChunksInv'
      BY <1>1, <2>3, <2>4, <2>5, <3>2 DEF ChunksInv
    <3> QED
      BY <2>3, <3>3, <3>4 DEF StoreInv
  <2>6. CASE sPc \in {"finAck", "done"}
    <3>1. CountsInv'
      BY <1>1, <2>6 DEF CountsInv, OfAFile
    <3>2. ChunksInv'
      BY <1>1, <2>3, <2>4, <2>6 DEF ChunksInv
    <3> QED
      BY <2>3, <3>1, <3>2 DEF StoreInv
  <2> QED
    BY <2>1, <2>5, <2>6
<1> QED
  BY <1>2, <1>3 DEF GetHdrRest

\* The chunk of the block that was sent, and its number if it is the first.
LEMMA SentChunk ==
  ASSUME NEW data \in Seq(Byte), NEW k \in 1..Len(data)
  PROVE  /\ ChunkOf(DataBlk(data, k)) = ChunksOf(data)[k]
         /\ DataBlk(data, k)[2] = k % 256
<1>1. /\ Len(data) \in Nat /\ ChunksOf(data)[k] = DataChunk(data, (k - 1) * CHUNK_SZ)
      /\ ChunksOf(data)[k] \in Chunk
  BY ChunksOfType
<1>2. k % 256 \in Byte
  BY <1>1 DEF Byte
<1> QED
  BY <1>1, <1>2, MakeBlkBytes DEF DataBlk

\* A good block is block k of the file, and from the first on numLastGoodBlk is
\* not 0: only then does writeChunk() cut the padding.
LEMMA GoodBlkStore ==
  ASSUME IInv, PInv, StoreInv, ReceiverStep, GetBlkRest, goodBlk',
         NEW k \in 1..Len(Data), AwaitingReply(k), HasBlk(k), Holds(k - 1) \/ Holds(k),
         sPc \in {"reply", "reReply"}
  PROVE  Holds(k)'
<1>1. /\ rPc = "blkRest" /\ rPc' = "write" /\ UNCHANGED <<rFiles, sVars>>
      /\ numLastGoodBlk' = IF rcvBlk'[2] = numLastGoodBlk + 1 THEN rcvBlk'[2] ELSE numLastGoodBlk
  BY DEF GetBlkRest, GetRestBlk, Classify, Successor, ReceiverStep
<1>2. rcvBlk' = blkSent
  <2>1. [rPc = "blkRest" /\ rPc' = "write" => rcvBlk' = blkSent]_vars
    BY AcceptedWasSent DEF Next, DialogueInv, Canceled
  <2>2. vars' # vars
    BY <1>1 DEF vars, rVars
  <2> QED
    BY <1>1, <2>1, <2>2
<1>3. Data = Sending /\ Sending \in Seq(Byte) /\ k \in 1..Len(Sending) /\ Len(Sending) \in Nat
  BY SentPlaces
<1>4. /\ ChunkOf(rcvBlk') = ChunksOf(Sending)[k] /\ rcvBlk'[2] = k % 256
  BY <1>2, <1>3, SentChunk DEF AwaitingReply
<1>5. StoredTo(k - 1) \/ StoredTo(k)
  BY <1>1 DEF Holds
<1>6. numLastGoodBlk' # 0
  <2>1. numLastGoodBlk \in Nat
    BY DEF IInv, RInv, ReceiverTypeOK, Byte
  <2>2. k # 1 => numLastGoodBlk # 0
    <3>1. k # 1 => k > 0 /\ k - 1 > 0
      BY <1>3
    <3> QED
      BY <3>1 DEF Holds
  <2>3. k = 1 => rcvBlk'[2] = 1
    BY <1>4
  <2> QED
    BY <1>1, <2>1, <2>2, <2>3
<1>7. UNCHANGED <<fileNameIndex, Sending>>
  BY <1>1, SenderStays
<1>8. StoredTo(k - 1)' \/ StoredTo(k)'
  BY <1>1, <1>5, <1>7 DEF StoredTo
<1>9. k > 0 /\ (k - 1) * CHUNK_SZ < Len(Sending)
  BY <1>3 DEF HasBlk
<1> QED
  BY <1>1, <1>4, <1>6, <1>7, <1>8, <1>9 DEF Holds

LEMMA GetBlkRestStore ==
  ASSUME IInv, PInv, StoreInv, ReceiverStep, GetBlkRest
  PROVE  StoreInv'
<1>1. /\ rPc = "blkRest" /\ FileOpen /\ FileOpen'
      /\ UNCHANGED <<sVars, sPc, blkSent, blkBuf, mPc, rFileD, rFiles, m2s>>
      /\ Protocol /\ HeaderBlk /\ FirstByte
  BY DEF GetBlkRest, ReceiverStep, ReceiverNext, FileOpen, PInv, sVars, mVars
<1>2. sPc \in {"reply", "reReply"}
  BY <1>1, GetBlkRestDialogue
<1>3. CASE ~goodBlk'
  <2>1. rPc' = "blk1" /\ r2m' = r2m \o <<NAK>> /\ numLastGoodBlk' = numLastGoodBlk
    BY <1>3 DEF GetBlkRest, GetRestBlk, Classify, Reply
  <2>2. Acked' => Acked
    BY <1>1, <2>1, ControlBytes, NoNewAck DEF NAK, ACK
  <2> QED
    BY <1>1, <2>1, <2>2, SameStore
<1>4. CASE goodBlk'
  <2>1. PICK k \in 1..Len(Data) : HasBlk(k) /\ AwaitingReply(k) /\ (Holds(k - 1) \/ Holds(k))
    BY <1>1, <1>2 DEF StoreInv, ChunksInv
  <2>2. Holds(k)'
    BY <1>2, <1>4, <2>1, GoodBlkStore
  <2>3. /\ UNCHANGED <<batch, fileNameIndex, Data, Sending>> /\ PlaceInv'
        /\ HasBlk(k)' /\ AwaitingReply(k)'
    BY <1>1, <2>1, SenderStays DEF StoreInv
  <2>4. \A n \in 1..(fileNameIndex - 1) : Complete(n)'
    BY <1>1, <2>3 DEF StoreInv, ChunksInv, Complete, CreatedAgain
  <2>5. CountsInv'
    BY <1>1, <1>2, <2>3 DEF StoreInv, CountsInv, OfAFile
  <2>6. ChunksInv'
    BY <1>1, <1>2, <2>2, <2>3, <2>4 DEF ChunksInv
  <2> QED
    BY <2>3, <2>5, <2>6 DEF StoreInv
<1> QED
  BY <1>3, <1>4

LEMMA ReceiverStore ==
  ASSUME IInv, PInv, PInv', StoreInv, ReceiverStep
  PROVE  StoreInv'
<1>1. /\ ~exited /\ Protocol /\ HeaderBlk /\ (~exited' => Protocol')
      /\ UNCHANGED <<sVars, mVars, sPc, blkSent, blkBuf, mPc>>
  BY DEF ReceiverStep, ReceiverNext, PInv, sVars, mVars
<1>2. CASE SendNCG \/ ReadHdrFirst
  <2>1. ~FileOpen /\ ~FileOpen' /\ UNCHANGED rFiles
    BY <1>2 DEF SendNCG, ReadHdrFirst, FileOpen
  <2> QED
    BY <1>1, <2>1, NotOpenStore
<1>3. CASE GetHdrRest
  BY <1>1, <1>3, GetHdrRestStore
<1>4. CASE SendSecondNCG \/ ReadBlkFirst
  <2>1. /\ FileOpen' <=> FileOpen
        /\ UNCHANGED <<numLastGoodBlk, rFileD, rFiles, m2s>>
        /\ rPc # "write" /\ rPc' # "write"
        /\ \/ r2m' = r2m \o <<NCG>>
           \/ r2m' = r2m \o <<NAK>>
           \/ r2m' = r2m
    BY <1>4 DEF SendSecondNCG, ReadBlkFirst, FileOpen, Reply
  <2>2. Acked' => Acked
    <3>1. NCG \in Byte /\ NAK \in Byte /\ NCG # ACK /\ NAK # ACK
      BY ControlBytes DEF NCG, NAK, ACK
    <3>2. CASE r2m' = r2m
      BY <2>1, <3>2 DEF Acked
    <3>3. CASE r2m' = r2m \o <<NCG>>
      BY <2>1, <3>1, <3>3, NoNewAck
    <3>4. CASE r2m' = r2m \o <<NAK>>
      BY <2>1, <3>1, <3>4, NoNewAck
    <3> QED
      BY <2>1, <3>2, <3>3, <3>4
  <2> QED
    BY <1>1, <2>1, <2>2, SameStore
<1>5. CASE GetBlkRest
  BY <1>5, GetBlkRestStore
<1>6. CASE WriteChunk
  BY <1>1, <1>6, WriteChunkStore
<1>7. CASE ReadSecondEot
  <2>1. sPc = "eotAck"
    BY <1>1, <1>7, ReadSecondEotDialogue
  <2>2. rPc' = "ncg" /\ rFiles' = rFiles
    BY <1>7, Zenon DEF ReadSecondEot
  <2>3. ~FileOpen'
    BY <2>2 DEF FileOpen
  <2> QED
    BY <1>1, <2>1, <2>2, <2>3, NotOpenStore
<1> QED
  BY <1>2, <1>3, <1>4, <1>5, <1>6, <1>7 DEF ReceiverStep, ReceiverNext

-----------------------------------------------------------------------------
(* The invariant, and what follows from it.                                *)

\* The medium makes no ACK.
LEMMA PassedAcks ==
  ASSUME IInv, MsgFromTerm1
  PROVE  Acked' => Acked
<1> DEFINE bytes == Taken(r2m, CAN_LEN)
           rest  == Left(r2m, CAN_LEN)
           k     == IF Len(r2m) < CAN_LEN THEN Len(r2m) ELSE CAN_LEN
           given == [bytes EXCEPT ![1] = NAK]
<1>1. m2s' = m2s \o given \/ m2s' = m2s \o bytes
  BY DEF MsgFromTerm1
<1>2. r2m' = rest /\ r2m # <<>>
  BY DEF MsgFromTerm1
<1>3. /\ r2m \in Seq(Byte) /\ Len(r2m) \in Nat /\ m2s \in Seq(Byte) /\ Len(m2s) \in Nat
      /\ Len(r2m) # 0
  BY <1>2, WireSeqs, LenProperties, EmptySeq
<1>4. CAN_LEN \in Nat /\ k \in 1..Len(r2m) /\ k \in Nat
  BY <1>3 DEF CAN_LEN
<1>5. /\ bytes \in Seq(Byte) /\ Len(bytes) = k /\ \A i \in 1..k : bytes[i] = r2m[i]
      /\ rest \in Seq(Byte) /\ Len(rest) = Len(r2m) - k
      /\ \A i \in 1..(Len(r2m) - k) : rest[i] = r2m[k + i]
  BY <1>3, <1>4, TakenAt
<1> HIDE DEF bytes, rest, k
<1>6. /\ given \in Seq(Byte) /\ Len(given) = k
      /\ \A i \in 1..k : given[i] = ACK => r2m[i] = ACK
  <2>1. 1 \in 1..Len(bytes) /\ NAK \in Byte /\ NAK # ACK
    BY <1>4, <1>5, ControlBytes DEF NAK, ACK
  <2>2. /\ given \in Seq(Byte) /\ Len(given) = Len(bytes)
        /\ \A i \in 1..Len(bytes) : given[i] = IF i = 1 THEN NAK ELSE bytes[i]
    BY <1>5, <2>1, ExceptSeq
  <2> QED
    BY <1>5, <2>1, <2>2
<1> HIDE DEF given
<1>7. ASSUME NEW more \in Seq(Byte), Len(more) = k, \A i \in 1..k : more[i] = ACK => r2m[i] = ACK,
             m2s' = m2s \o more, NEW i \in 1..Len(m2s'), m2s'[i] = ACK
      PROVE  Acked
  <2>1. /\ Len(m2s') = Len(m2s) + k
        /\ \A j \in 1..Len(m2s) : m2s'[j] = m2s[j]
        /\ \A j \in 1..k : m2s'[Len(m2s) + j] = more[j]
    BY <1>3, <1>7, ConcatAt
  <2>2. CASE i \in 1..Len(m2s)
    BY <1>7, <2>1, <2>2 DEF Acked
  <2>3. CASE i \notin 1..Len(m2s)
    <3>1. i - Len(m2s) \in 1..k /\ Len(m2s) + (i - Len(m2s)) = i
      BY <1>3, <1>4, <2>1, <2>3
    <3>2. r2m[i - Len(m2s)] = ACK
      BY <1>7, <2>1, <3>1
    <3>3. i - Len(m2s) \in 1..Len(r2m)
      BY <1>3, <1>4, <3>1
    <3> QED
      BY <3>2, <3>3 DEF Acked
  <2> QED
    BY <2>2, <2>3
<1>8. ASSUME NEW i \in 1..Len(r2m'), r2m'[i] = ACK PROVE Acked
  <2>1. i \in 1..(Len(r2m) - k) /\ k + i \in 1..Len(r2m)
    BY <1>2, <1>3, <1>4, <1>5, <1>8
  <2>2. r2m[k + i] = ACK
    BY <1>2, <1>5, <1>8, <2>1
  <2> QED
    BY <2>1, <2>2 DEF Acked
<1>9. ASSUME NEW i \in 1..Len(m2s'), m2s'[i] = ACK PROVE Acked
  <2>1. CASE m2s' = m2s \o given
    BY <1>6, <1>7, <1>9, <2>1
  <2>2. CASE m2s' = m2s \o bytes
    BY <1>5, <1>7, <1>9, <2>2
  <2> QED
    BY <1>1, <2>1, <2>2
<1> QED
  BY <1>8, <1>9 DEF Acked

LEMMA InitStoreInv ==
  ASSUME Init
  PROVE  StoreInv
<1>1. /\ sPc = "start" /\ fileNameIndex = 0 /\ errCnt = 0 /\ sResult = <<>>
      /\ rPc = "ncg" /\ rFiles = <<>>
  BY DEF Init, SenderInit, ReceiverInit
<1>2. PlaceInv
  BY <1>1 DEF PlaceInv, AfterLast, OfAFile
<1>3. CountsInv
  BY <1>1 DEF CountsInv, OfAFile
<1>4. ChunksInv
  BY <1>1 DEF ChunksInv
<1> QED
  BY <1>2, <1>3, <1>4 DEF StoreInv

LEMMA NextStoreInv ==
  ASSUME IInv, PInv, PInv', ~Canceled', StoreInv, [Next]_vars
  PROVE  StoreInv'
<1>1. CASE SenderStep
  BY <1>1, SenderStore
<1>2. CASE ReceiverStep
  BY <1>2, ReceiverStore
<1>3. CASE M2to1Step \/ M1to2Step \/ UNCHANGED vars
  <2>1. UNCHANGED <<sVars, rVars, rPc, rcvBlk, numLastGoodBlk, rFileD, rFiles>>
    BY <1>3 DEF M2to1Step, M1to2Step, vars, rVars
  <2>2. Acked' => Acked
    <3>1. CASE M1to2Step
      BY <3>1, PassedAcks DEF M1to2Step
    <3>2. CASE M2to1Step \/ UNCHANGED vars
      <4>1. UNCHANGED <<r2m, m2s>>
        BY <3>2 DEF M2to1Step, MsgFromTerm2, ReadOneFromTerm2, ReadCans, ReadRestFromTerm2, vars, wires
      <4> QED
        BY <4>1 DEF Acked
    <3> QED
      BY <1>3, <3>1, <3>2
  <2>3. FileOpen' <=> FileOpen
    BY <2>1 DEF FileOpen
  <2> QED
    BY <2>1, <2>2, <2>3, SameStore
<1> QED
  BY <1>1, <1>2, <1>3 DEF Next

\* The process is ending because a file cannot be opened: what is on the disk
\* when that begins, and until it has ended.
LEMMA CancelsStore ==
  ASSUME IInv, PInv, StoreInv, ~Canceled, Canceled', Next
  PROVE  CanceledStore'
<1>1. ReadC
  BY CancelsStep
<1>2. /\ sPc = "readC" /\ m2s # <<>> /\ sFileD = -1 /\ sResult' = <<"CreatError">>
      /\ UNCHANGED <<batch, fileNameIndex>>
  BY <1>1 DEF ReadC, ReadByte, Canceled
<1>3. ~exited /\ UNCHANGED <<rPc, rFiles>>
  <2>1. SenderStep
    <3>1. ~UNCHANGED sVars
      BY DEF Canceled, sVars
    <3> QED
      BY <3>1 DEF Next, ReceiverStep, M2to1Step, M1to2Step
  <2> QED
    BY <2>1 DEF SenderStep, SenderNext, rVars
<1>4. ~FileOpen'
  BY <1>2, <1>3 DEF PInv, Protocol, BeforeHdr, FileOpen
<1>5. Len(rFiles') = fileNameIndex' - 1
  BY <1>2, <1>3 DEF StoreInv, CountsInv
<1>6. \A k : Complete(k)' <=> Complete(k)
  BY <1>2, <1>3 DEF Complete, CreatedAgain
<1>7. \A k \in 1..(fileNameIndex' - 1) : Complete(k)'
  BY <1>2, <1>6 DEF StoreInv, ChunksInv
<1> QED
  BY <1>2, <1>4, <1>5, <1>7 DEF CanceledStore

LEMMA CanceledStoreStep ==
  ASSUME IInv, Canceled, AfterCans, CanceledStore, [Next]_vars
  PROVE  CanceledStore'
<1>1. UNCHANGED <<batch, fileNameIndex, sResult>>
  <2>1. CASE SenderStep
    <3>1. PrepNextSendLast
      BY <2>1 DEF SenderStep, SenderNext, Start, ReadC, ReadStatAck, ReadStatC, ReadReply, ResendLast,
         ReadEotNak, ReadEotAck, SendFinalMost, SendFinalLast, ReadFinalAck, Canceled
    <3> QED
      BY <3>1 DEF PrepNextSendLast
  <2> QED
    BY <2>1 DEF Next, ReceiverStep, M2to1Step, M1to2Step, vars, sVars
<1>2. CASE rFiles' = rFiles /\ (FileOpen' <=> FileOpen)
  <2>1. \A k : Complete(k)' <=> Complete(k)
    BY <1>1, <1>2 DEF Complete, CreatedAgain
  <2> QED
    BY <1>1, <1>2, <2>1 DEF CanceledStore
<1>3. CASE ReceiverStep /\ GetHdrRest /\ rPc' = "ncg2"
  <2>1. /\ rPc = "hdrRest" /\ ~FileOpen /\ FileOpen'
        /\ rFiles' = Created(rFiles, CString(rcvBlk'))
    BY <1>3 DEF GetHdrRest, FileOpen
  <2>2. /\ Len(rFiles) \in Nat /\ Len(rFiles') = Len(rFiles) + 1
        /\ rFiles'[Len(rFiles) + 1].chunks = <<>>
    BY <1>3, <2>1, FileCreated
  <2>3. Len(rFiles) = fileNameIndex - 1 /\ fileNameIndex \in Nat
    BY <2>1, StoreTypes DEF CanceledStore
  <2>4. Len(rFiles') = fileNameIndex /\ rFiles'[fileNameIndex].chunks = <<>>
    BY <2>2, <2>3
  <2>5. ASSUME NEW k \in 1..(fileNameIndex - 1) PROVE Complete(k)'
    <3>1. Complete(k) /\ k \in Nat
      BY DEF CanceledStore
    <3> QED
      BY <1>1, <1>3, <2>1, <3>1, CreatedKeeps
  <2> QED
    BY <1>1, <2>1, <2>4, <2>5 DEF CanceledStore
<1>4. CASE ReceiverStep /\ ~(GetHdrRest /\ rPc' = "ncg2")
  <2>1. ~exited /\ Len(s2m) \in Nat /\ Len(m2r) \in Nat
    BY <1>4, WireSeqs DEF ReceiverStep, ReceiverNext
  <2>2. ~WriteChunk
    BY <2>1 DEF WriteChunk, AfterCans
  <2>3. ~ReadSecondEot
    <3> SUFFICES ASSUME rPc = "eot2", m2r # <<>> PROVE FALSE
      BY Zenon DEF ReadSecondEot, ReadFirst
    <3>1. Len(s2m) + Len(m2r) <= 0
      BY <2>1 DEF AfterCans, LeftOver
    <3>2. Len(m2r) # 0
      BY WireSeqs, EmptySeq
    <3> QED
      BY <2>1, <3>1, <3>2
  <2>4. SendNCG \/ ReadHdrFirst \/ SendSecondNCG \/ ReadBlkFirst \/ GetBlkRest \/ GetHdrRest
    BY <1>4, <2>2, <2>3 DEF ReceiverStep, ReceiverNext
  <2>5. rFiles' = rFiles /\ (FileOpen' <=> FileOpen)
    BY <1>4, <2>4 DEF SendNCG, ReadHdrFirst, SendSecondNCG, ReadBlkFirst, GetBlkRest, GetHdrRest, FileOpen
  <2> QED
    BY <1>2, <2>5
<1>5. CASE SenderStep \/ M2to1Step \/ M1to2Step \/ UNCHANGED vars
  <2>1. UNCHANGED <<rPc, rFiles>>
    BY <1>5 DEF SenderStep, M2to1Step, M1to2Step, vars, rVars
  <2> QED
    BY <1>2, <2>1 DEF FileOpen
<1> QED
  BY <1>3, <1>4, <1>5 DEF Next

LEMMA NextDisk ==
  ASSUME IInv, DiskInv, [Next]_vars, SenderStep \/ UNCHANGED vars \/ Canceled \/ Whole
  PROVE  DiskInv'
<1>1. DialogueInv'
  BY NextDialogue DEF DiskInv
<1>2. CASE Canceled
  <2>1. Canceled' /\ CanceledStore'
    BY <1>2, CanceledStep, CanceledStoreStep DEF DiskInv, DialogueInv
  <2> QED
    BY <1>1, <2>1 DEF DiskInv
<1>3. CASE ~Canceled /\ ~Canceled'
  <2>1. PInv /\ PInv' /\ StoreInv
    BY <1>1, <1>3 DEF DiskInv, DialogueInv
  <2> QED
    BY <1>1, <1>3, <2>1, NextStoreInv DEF DiskInv
<1>4. CASE ~Canceled /\ Canceled'
  <2>1. PInv /\ StoreInv
    BY <1>4 DEF DiskInv, DialogueInv
  <2>2. Next
    BY <1>4 DEF vars, sVars, Canceled
  <2> QED
    BY <1>1, <1>4, <2>1, <2>2, CancelsStore DEF DiskInv
<1> QED
  BY <1>2, <1>3, <1>4

LEMMA InitDisk ==
  ASSUME Init
  PROVE  DiskInv
  BY InitPInv, InitStoreInv DEF Init, SenderInit, DiskInv, DialogueInv, Canceled

\* Of the file that is open the first n blocks are on the disk, for some n.
LEMMA SomeStored ==
  ASSUME IInv, StoreInv, FileOpen, sPc \in (OfAFile \ {"statLast"}) \cup {"eotNak"}
  PROVE  \E n \in 0..Len(Sending) : StoredTo(n)
<1>1. fileNameIndex \in 1..Len(batch)
  BY DEF StoreInv, PlaceInv, OfAFile, AfterLast
<1>2. Sending \in Seq(Byte) /\ Len(Sending) \in Nat
  BY <1>1, FileOfBatch DEF Sending, IInv, SInv
<1>3. ASSUME NEW n \in 0..Len(Sending), Holds(n)
      PROVE  \E m \in 0..Len(Sending) : StoredTo(m)
  <2>1. n > 0 => n - 1 \in 0..Len(Sending)
    BY <1>2
  <2> QED
    BY <1>3, <2>1 DEF Holds
<1>4. CASE sPc \in {"statAck", "statC"}
  <2>1. rFiles[fileNameIndex].chunks = <<>>
    BY <1>4 DEF StoreInv, ChunksInv
  <2>2. 0 \in 0..Len(Sending)
    BY <1>2
  <2> QED
    BY <1>2, <2>1, <2>2, NoneIsKept DEF StoredTo
<1>5. CASE sPc = "blkLast"
  <2>1. PICK k \in 1..Len(Data) : Holds(k - 1)
    BY <1>5 DEF StoreInv, ChunksInv
  <2> QED
    BY <1>3, <1>5, <2>1, SentPlaces
<1>6. CASE sPc \in {"reply", "reReply", "reLast"}
  <2>1. PICK k \in 1..Len(Data) : Holds(k - 1) \/ Holds(k)
    BY <1>6 DEF StoreInv, ChunksInv
  <2> QED
    BY <1>3, <1>6, <2>1, SentPlaces
<1>7. CASE sPc = "eotNak"
  BY <1>3, <1>7 DEF StoreInv, ChunksInv
<1> QED
  BY <1>4, <1>5, <1>6, <1>7 DEF OfAFile

Content(k) == KeptChunks(batch[k].data)
OnDisk(k)  == Merged(rFiles[k].chunks, Content(k))

LEMMA ContentTypes ==
  ASSUME IInv
  PROVE  /\ \A k \in 1..Len(batch) : Content(k) \in Seq(Chunk)
         /\ \A k \in 1..Len(rFiles) : rFiles[k].chunks \in Seq(Chunk) /\ OnDisk(k) \in Seq(Chunk)
<1>1. ASSUME NEW k \in 1..Len(batch) PROVE Content(k) \in Seq(Chunk)
  <2>1. batch[k].data \in Seq(Byte)
    BY FileOfBatch DEF IInv, SInv
  <2> QED
    BY <2>1, KeptChunksType DEF Content
<1>2. ASSUME NEW k \in 1..Len(rFiles) PROVE rFiles[k].chunks \in Seq(Chunk) /\ OnDisk(k) \in Seq(Chunk)
  <2>1. rFiles[k] \in [name : Seq(Byte), chunks : Seq(Chunk)]
    BY StoreTypes, ElementOfSeq
  <2>2. rFiles[k].chunks \in Seq(Chunk)
    BY <2>1
  <2> QED
    BY <2>2, MergedType DEF OnDisk
<1> QED
  BY <1>1, <1>2

LEMMA CompleteIsAll ==
  ASSUME NEW k \in Nat, Complete(k)
  PROVE  /\ k \in 1..Len(rFiles)
         /\ OnDisk(k) = Content(k) \/ (CreatedAgain(k) /\ rFiles[k].chunks = <<>>)
  BY DEF Complete, OnDisk, Content

\* Nothing on the disk, or everything: either is a beginning.
LEMMA EndsBegin ==
  ASSUME IInv, NEW k \in 1..Len(rFiles), k \in 1..Len(batch),
         OnDisk(k) = Content(k) \/ rFiles[k].chunks = <<>>
  PROVE  Begins(OnDisk(k), Content(k))
<1>1. Content(k) \in Seq(Chunk) /\ Len(Content(k)) \in Nat
  BY ContentTypes, LenProperties
<1>2. CASE OnDisk(k) = Content(k)
  BY <1>1, <1>2 DEF Begins
<1>3. CASE rFiles[k].chunks = <<>>
  <2>1. OnDisk(k) = <<>> /\ Len(<<>>) = 0
    BY <1>3, MergedNone DEF OnDisk
  <2> QED
    BY <1>1, <2>1 DEF Begins
<1> QED
  BY <1>2, <1>3

LEMMA StoredBegins ==
  ASSUME IInv, StoreInv, NEW k \in 1..Len(rFiles), k <= Len(batch)
  PROVE  Begins(OnDisk(k), Content(k))
<1>1. Len(batch) \in Nat /\ Len(rFiles) \in Nat /\ fileNameIndex \in Nat /\ sPc \in SPcs
  BY StoreTypes
<1>2. k \in 1..Len(batch) /\ k \in Nat
  BY <1>1
<1>3. ASSUME Complete(k) PROVE Begins(OnDisk(k), Content(k))
  <2>1. OnDisk(k) = Content(k) \/ rFiles[k].chunks = <<>>
    BY <1>2, <1>3, CompleteIsAll
  <2> QED
    BY <1>2, <2>1, EndsBegin
<1>4. CASE k <= fileNameIndex - 1
  <2>1. Complete(k)
    BY <1>1, <1>4 DEF StoreInv, ChunksInv
  <2> QED
    BY <1>3, <2>1
<1>5. CASE k > fileNameIndex - 1
  <2>1. sPc \notin {"readC", "statLast"} \cup AfterLast
    <3>1. sPc \notin AfterLast
      BY <1>1, <1>2, <1>5 DEF StoreInv, PlaceInv
    <3>2. sPc \notin {"readC", "statLast"}
      BY <1>1, <1>5 DEF StoreInv, CountsInv
    <3> QED
      BY <3>1, <3>2
  <2>2. sPc # "start"
    BY <1>1 DEF StoreInv, CountsInv
  <2>3. CASE sPc = "eotAck"
    <3>1. k = fileNameIndex /\ Complete(fileNameIndex)
      BY <1>1, <1>5, <2>3 DEF StoreInv, CountsInv, ChunksInv
    <3> QED
      BY <1>3, <3>1
  <2>4. CASE sPc \in (OfAFile \ {"statLast"}) \cup {"eotNak"}
    <3>1. FileOpen /\ k = fileNameIndex
      BY <1>1, <1>5, <2>4 DEF StoreInv, CountsInv
    <3>2. PICK n \in 0..Len(Sending) : StoredTo(n)
      BY <2>4, <3>1, SomeStored
    <3>3. OnDisk(k) = Merged(rFiles[fileNameIndex].chunks, KeptChunks(Sending))
          /\ Content(k) = KeptChunks(Sending)
      BY <3>1 DEF OnDisk, Content, Sending
    <3> QED
      BY <3>2, <3>3 DEF StoredTo, Covers
  <2> QED
    BY <1>1, <2>1, <2>2, <2>3, <2>4 DEF SPcs, ReadingPcs, AfterLast, OfAFile
<1> QED
  BY <1>1, <1>4, <1>5

\* While the process is ending: the newest file is empty, or there is none.
LEMMA CanceledBegins ==
  ASSUME IInv, CanceledStore, NEW k \in 1..Len(rFiles), k \in 1..Len(batch)
  PROVE  Begins(OnDisk(k), Content(k))
<1>1. Len(rFiles) \in Nat /\ fileNameIndex \in Nat
  BY StoreTypes
<1>2. CASE k \in 1..(fileNameIndex - 1)
  <2>1. Complete(k) /\ k \in Nat
    BY <1>2 DEF CanceledStore
  <2> QED
    BY <2>1, CompleteIsAll, EndsBegin
<1>3. CASE k \notin 1..(fileNameIndex - 1)
  <2>1. rFiles[k].chunks = <<>>
    BY <1>1, <1>3 DEF CanceledStore
  <2> QED
    BY <2>1, EndsBegin
<1> QED
  BY <1>2, <1>3

LEMMA StoredInOrder ==
  ASSUME IInv, DiskInv
  PROVE  InOrder
<1> SUFFICES ASSUME NEW k \in 1..Len(rFiles), k <= Len(batch), ~BlankInside(batch[k].data)
             PROVE  IsPrefix(Merged(rFiles[k].chunks, Expected(batch[k].data)), Expected(batch[k].data))
  BY DEF InOrder
<1>1. k \in 1..Len(batch)
  BY StoreTypes
<1>2. Begins(OnDisk(k), Content(k))
  <2>1. CASE ~Canceled
    BY <2>1, StoredBegins DEF DiskInv
  <2>2. CASE Canceled
    BY <1>1, <2>2, CanceledBegins DEF DiskInv
  <2> QED
    BY <2>1, <2>2
<1>3. IsPrefix(OnDisk(k), Content(k))
  BY <1>1, <1>2, ContentTypes, BeginsIsPrefix
<1>4. Content(k) = Expected(batch[k].data)
  BY <1>1, FileOfBatch, KeptIsExpected DEF Content, IInv, SInv
<1> QED
  BY <1>3, <1>4 DEF OnDisk

LEMMA DoneIsStored ==
  ASSUME IInv, DiskInv
  PROVE  DoneMeansStored
<1> SUFFICES ASSUME NEW k \in 1..Len(batch), Reported(k), ~BlankInside(batch[k].data)
             PROVE  HasAll(k) \/ CreatedAgain(k)
  BY DEF DoneMeansStored
<1>0. Len(sResult) >= k
  BY Zenon DEF Reported
<1>4. ~Canceled /\ StoreInv
  <2> SUFFICES ASSUME CanceledStore PROVE FALSE
    BY DEF DiskInv
  <2>1. sResult[k] # "CreatError"
    BY Zenon DEF Reported
  <2>2. sResult = <<"CreatError">> /\ k \in Nat /\ k >= 1
    BY StoreTypes DEF CanceledStore
  <2> QED
    BY <1>0, <2>1, <2>2
<1>1. Len(sResult) >= k /\ Len(sResult) = IF sPc = "start" THEN 0 ELSE fileNameIndex - 1
  BY <1>0, <1>4 DEF StoreInv, PlaceInv
<1>2. k \in 1..(fileNameIndex - 1) /\ k \in Nat
  BY <1>1, StoreTypes
<1>3. Complete(k)
  BY <1>2, <1>4 DEF StoreInv, ChunksInv
<1>5. Content(k) = Expected(batch[k].data)
  BY FileOfBatch, KeptIsExpected DEF Content, IInv, SInv
<1>6. k \in 1..Len(rFiles) /\ (OnDisk(k) = Content(k) \/ CreatedAgain(k))
  BY <1>2, <1>3, CompleteIsAll
<1> QED
  BY <1>5, <1>6 DEF HasAll, OnDisk

-----------------------------------------------------------------------------
(* The names of the files.                                                 *)

LEMMA BatchStays ==
  ASSUME [Next]_vars
  PROVE  batch' = batch
<1>1. CASE SenderStep
  <2>1. CASE ReadEotAck
    BY <2>1, ReadEotAckParts
  <2>2. CASE ~ReadEotAck
    BY <1>1, <2>2 DEF SenderStep, SenderNext, Start, ReadC, PrepNextSendLast, ReadStatAck, ReadStatC, ReadReply,
       ResendLast, ReadEotNak, SendFinalMost, SendFinalLast, ReadFinalAck, PrepStatBlk, sFile
  <2> QED
    BY <2>1, <2>2
<1> QED
  BY <1>1 DEF Next, ReceiverStep, M2to1Step, M1to2Step, vars, sVars

\* A byte and its complement
LEMMA ComplementOfByte ==
  ASSUME NEW b \in Byte
  PROVE  Complement(b) \in Byte
BY DEF Byte, Complement

\* What may have become of two names is apart if the names are.
LEMMA OneNameInTwo ==
  ASSUME NEW a \in Byte, NEW b \in Byte, NEW x, x \in {a, Complement(a)}, x \in {b, Complement(b)}
  PROVE  a \in {b, Complement(b)}
<1>1. a \in Int /\ b \in Int /\ Complement(a) = 255 - a /\ Complement(b) = 255 - b
  BY DEF Byte, Complement
<1>2. CASE x = a
  BY <1>2
<1>3. CASE x = Complement(a)
  <2>1. CASE x = b
    <3>1. a = Complement(b)
      BY <1>1, <1>3, <2>1
    <3> QED
      BY <3>1
  <2>2. CASE x = Complement(b)
    <3>1. a = b
      BY <1>1, <1>3, <2>2
    <3> QED
      BY <3>1
  <2> QED
    BY <2>1, <2>2
<1> QED
  BY <1>2, <1>3

\* Nor is it what may have become of the last, empty block.
LEMMA NotTheEnd ==
  ASSUME NEW a \in Byte, a # 0, a # 255, NEW x, x # 0,
         x \in {a, Complement(a)}, x \in {0, Complement(0)}
  PROVE  FALSE
<1>1. a \in Int /\ x = 255 /\ Complement(a) = 255 - a
  BY DEF Byte, Complement
<1>2. CASE x = a
  BY <1>1, <1>2
<1>3. CASE x = Complement(a)
  BY <1>1, <1>3
<1> QED
  BY <1>2, <1>3

\* The name in a header that the medium passed, one byte of it damaged or none
LEMMA HitName ==
  ASSUME NEW name \in Byte, NEW x \in {0} \cup 2..BLK_SZ, NEW blk, blk = Hit(StatBlk(name), x),
         blk[DATA_POS + 1] # 0
  PROVE  /\ Len(CString(blk)) > 0 /\ CString(blk)[1] # 0
         /\ CString(blk)[1] \in {name, Complement(name)}
<1> DEFINE n == Cardinality(NameLengths(blk))
<1>1. StatBlk(name) \in Block /\ StatBlk(name)[DATA_POS + 1] = name
  <2>1. StatChunk(name) \in Chunk /\ 0 \in Byte
    BY DEF StatChunk, Chunk, Byte
  <2>2. StatBlk(name) \in Block /\ ChunkOf(StatBlk(name)) = StatChunk(name)
    BY <2>1, MakeBlkBytes DEF StatBlk
  <2>3. 1 \in 1..CHUNK_SZ
    BY ChunkSzAssumption
  <2>4. ChunkOf(StatBlk(name))[1] = StatBlk(name)[DATA_POS + 1] /\ StatChunk(name)[1] = name
    BY <2>3 DEF ChunkOf, StatChunk
  <2> QED
    BY <2>2, <2>4
<1>2. DATA_POS + 1 \in 1..BLK_SZ /\ CHUNK_SZ + 2 \in Nat /\ BLK_SZ = DATA_POS + (CHUNK_SZ + 2)
  BY ChunkSzAssumption DEF DATA_POS, BLK_SZ
<1>3. blk[DATA_POS + 1] \in {name, Complement(name)}
  BY <1>1, <1>2 DEF Hit
<1>4. blk \in Block
  <2>1. \A i \in 1..BLK_SZ : StatBlk(name)[i] \in Byte /\ Complement(StatBlk(name)[i]) \in Byte
    BY <1>1, ComplementOfByte DEF Block
  <2>2. Hit(StatBlk(name), x) \in Block
    BY <2>1 DEF Hit, Block
  <2> QED
    BY <2>2
<1>5. n \in Nat /\ n >= 1 /\ n <= CHUNK_SZ + 2
  <2>1. 1 \in NameLengths(blk)
    <3>1. 1 \in 1..(CHUNK_SZ + 2) /\ \A i \in 1..1 : i = 1
      BY <1>2, ChunkSzAssumption
    <3> QED
      BY <3>1 DEF NameLengths
  <2>2. /\ IsFiniteSet(1..(CHUNK_SZ + 2))
        /\ Cardinality(1..(CHUNK_SZ + 2)) = CHUNK_SZ + 2
    BY <1>2, FS_Interval, ChunkSzAssumption
  <2>3. NameLengths(blk) \subseteq 1..(CHUNK_SZ + 2)
    BY DEF NameLengths
  <2>4. IsFiniteSet(NameLengths(blk)) /\ n <= CHUNK_SZ + 2
    BY <2>2, <2>3, FS_Subset
  <2>5. n \in Nat /\ n # 0
    BY <2>1, <2>4, FS_CardinalityType, FS_EmptySet
  <2> QED
    BY <2>4, <2>5
<1> HIDE DEF n
<1>6. CString(blk) = SubSeq(blk, DATA_POS + 1, DATA_POS + n)
  BY DEF CString, n
<1>7. blk \in Seq(Byte) /\ Len(blk) = BLK_SZ
  BY <1>4, BlockIsSeq
<1>8. Len(CString(blk)) = n /\ CString(blk)[1] = blk[DATA_POS + 1]
  <2> DEFINE a == DATA_POS + 1
             b == DATA_POS + n
  <2>1. /\ a \in 1..BLK_SZ /\ b \in Int /\ b <= BLK_SZ /\ a <= b /\ (b - a) + 1 = n
        /\ 1 \in 1..n /\ (a + 1) - 1 = a
    BY <1>2, <1>5 DEF DATA_POS
  <2>2. \A i \in a..b : blk[i] \in Byte
    <3>1. \A i \in a..b : i \in 1..BLK_SZ
      BY <1>2, <2>1
    <3> QED
      BY <1>4, <3>1 DEF Block
  <2>3. a \in Int /\ ~(a > b)
    BY <1>2, <2>1
  <2> HIDE DEF a, b
  <2>4. Len(SubSeq(blk, a, b)) = n /\ SubSeq(blk, a, b)[1] = blk[a]
    BY <2>1, <2>2, <2>3, SubSeqProperties
  <2> QED
    BY <1>6, <2>4 DEF a, b
<1> QED
  BY <1>3, <1>5, <1>8

\* The block of which the receiver takes the name
LEMMA HeaderRead ==
  ASSUME IInv, Protocol, Protocol', HeaderBlk, FirstByte, GetHdrRest, rPc' = "ncg2",
         UNCHANGED <<sPc, mPc>>
  PROVE  \/ /\ sPc = "statAck" /\ fileNameIndex \in 1..Len(batch)
            /\ \E x \in {0} \cup 2..BLK_SZ : rcvBlk' = Hit(StatBlk(batch[fileNameIndex].name), x)
         \/ /\ sPc \in {"finAck", "done"}
            /\ \E x \in {0} \cup 2..BLK_SZ : rcvBlk' = Hit(StatBlk(0), x)
<1>1. rPc = "hdrRest" /\ GetRestBlk /\ UNCHANGED s2m
  BY DEF GetHdrRest, far
<1>2. sPc \in {"statAck", "finAck", "done"}
  BY <1>1, HeaderPlaces
<1>3. BLK_SZ \in {BLK_SZ - 1, BLK_SZ}
  OBVIOUS
<1>4. CASE sPc = "statAck"
  <2>1. InFlight(blkSent, 1, BLK_SZ)
    BY <1>1, <1>4 DEF Protocol, HdrComing, HdrTaken
  <2>2. fileNameIndex \in 1..Len(batch) /\ blkSent = StatBlk(batch[fileNameIndex].name) /\ IsBlk(blkSent)
    BY <1>4, SentIsBlk DEF HeaderBlk
  <2> QED
    BY <1>1, <1>3, <1>4, <2>1, <2>2, RestIsThere
<1>5. CASE sPc \in {"finAck", "done"}
  <2>1. InFlight(blkBuf, 1, BLK_SZ)
    BY <1>1, <1>5 DEF Protocol, LastComing, LastTaken, Returned
  <2>2. blkBuf = StatBlk(0) /\ IsBlk(blkBuf)
    BY <1>5, SentIsBlk DEF HeaderBlk
  <2> QED
    BY <1>1, <1>3, <1>5, <2>1, <2>2, RestIsThere
<1> QED
  BY <1>2, <1>4, <1>5

\* The names stay as they are, or one is added for the header just read.
LEMMA NamesGrow ==
  ASSUME IInv, PInv, PInv', StoreInv, [Next]_vars
  PROVE  \/ /\ Len(rFiles') = Len(rFiles)
            /\ \A k \in 1..Len(rFiles) : rFiles'[k].name = rFiles[k].name
         \/ /\ ReceiverStep /\ GetHdrRest /\ rPc' = "ncg2" /\ Protocol /\ Protocol'
            /\ rcvBlk'[DATA_POS + 1] # 0
            /\ rFiles' = Created(rFiles, CString(rcvBlk'))
<1>1. CASE rFiles' = rFiles
  BY <1>1
<1>2. CASE ReceiverStep /\ WriteChunk
  <2>1. Protocol /\ rPc = "write"
    BY <1>2 DEF ReceiverStep, ReceiverNext, PInv, WriteChunk
  <2>2. rFileD = fileNameIndex /\ fileNameIndex \in 1..Len(rFiles)
    BY <2>1, WritePlace
  <2> DEFINE more == [rFiles EXCEPT ![rFileD].chunks = Append(@, ChunkOf(rcvBlk))]
  <2>3. rFiles' = more \/ rFiles' = rFiles
    BY <1>2 DEF WriteChunk
  <2>4. Len(more) = Len(rFiles) /\ \A k \in 1..Len(rFiles) : more[k].name = rFiles[k].name
    BY <2>2, MoreFiles
  <2> HIDE DEF more
  <2> QED
    BY <2>3, <2>4
<1>3. CASE ReceiverStep /\ GetHdrRest
  <2>1. \/ rFiles' = rFiles
        \/ /\ rPc' = "ncg2" /\ rcvBlk'[DATA_POS + 1] # 0
           /\ rFiles' = Created(rFiles, CString(rcvBlk'))
    BY <1>3 DEF GetHdrRest, rStore
  <2>2. Protocol /\ (~exited' => Protocol') /\ ~exited /\ exited' = exited
    BY <1>3 DEF ReceiverStep, ReceiverNext, PInv, GetHdrRest, far
  <2> QED
    BY <1>1, <1>3, <2>1, <2>2
<1>4. CASE ReceiverStep /\ ~WriteChunk /\ ~GetHdrRest
  BY <1>1, <1>4 DEF ReceiverStep, ReceiverNext, SendNCG, ReadHdrFirst, SendSecondNCG, ReadBlkFirst,
     GetBlkRest, ReadSecondEot, rStore
<1>5. CASE ~ReceiverStep
  BY <1>1, <1>5 DEF Next, SenderStep, M2to1Step, M1to2Step, vars, rVars
<1> QED
  BY <1>2, <1>3, <1>4, <1>5

\* When the sender is past its last file and the receiver before a header
LEMMA LastCount ==
  ASSUME IInv, IInv', PInv, StoreInv, StoreInv', NamesInv, [Next]_vars, Len(rFiles') = Len(rFiles),
         sPc' \in AfterLast, rPc' \in {"ncg", "hdr1", "hdrRest"}
  PROVE  Len(rFiles') = Len(batch)
<1>1. batch' = batch /\ Len(batch) \in Nat
  BY BatchStays, StoreTypes
<1>2. CASE sPc' \in {"finMost", "finLast"}
  <2>1. fileNameIndex' = Len(batch) + 1
    BY <1>1, <1>2 DEF StoreInv, PlaceInv, AfterLast
  <2>2. Len(rFiles') = fileNameIndex' - 1
    BY <1>2 DEF StoreInv, CountsInv
  <2> QED
    BY <1>1, <2>1, <2>2
<1>3. CASE sPc' \in {"finAck", "done"}
  <2>1. sPc \in AfterLast
    <3>1. CASE SenderStep
      <4>1. SendFinalLast \/ ReadFinalAck
        <5>1. ~ReadEotAck /\ ~Start
          BY <1>3, NextFileOf
        <5> QED
          BY <1>3, <3>1, <5>1 DEF SenderStep, SenderNext, ReadC, PrepNextSendLast, ReadStatAck, ReadStatC, ReadReply,
             ResendLast, ReadEotNak, SendFinalMost, NextBlkOrEot
      <4> QED
        BY <4>1 DEF SendFinalLast, ReadFinalAck, AfterLast
    <3>2. CASE ~SenderStep
      <4>1. sPc' = sPc
        BY <3>2 DEF Next, ReceiverStep, M2to1Step, M1to2Step, vars, sVars
      <4> QED
        BY <1>3, <4>1 DEF AfterLast
    <3> QED
      BY <3>1, <3>2
  <2>2. rPc \in {"ncg", "hdr1", "hdrRest"}
    <3>1. CASE ReceiverStep
      <4>1. Protocol /\ sPc' = sPc
        BY <3>1 DEF ReceiverStep, ReceiverNext, PInv, sVars
      <4>2. rPc # "eot2"
        BY <1>3, <4>1 DEF Protocol, LastComing, LastTaken, Returned
      <4>3. SendNCG \/ ReadHdrFirst
        BY <3>1, <4>2 DEF ReceiverStep, ReceiverNext, SendNCG, ReadHdrFirst, GetHdrRest, SendSecondNCG,
           ReadBlkFirst, GetBlkRest, WriteChunk, ReadSecondEot
      <4> QED
        BY <4>3 DEF SendNCG, ReadHdrFirst
    <3>2. CASE ~ReceiverStep
      BY <3>2 DEF Next, SenderStep, M2to1Step, M1to2Step, vars, rVars
    <3> QED
      BY <3>1, <3>2
  <2> QED
    BY <2>1, <2>2 DEF NamesInv
<1> QED
  BY <1>2, <1>3 DEF AfterLast

LEMMA NextNames ==
  ASSUME IInv, IInv', PInv, PInv', StoreInv, StoreInv', NamesInv, [Next]_vars
  PROVE  NamesInv'
<1>1. batch' = batch /\ Len(batch) \in Nat /\ Len(rFiles) \in Nat
  BY BatchStays, StoreTypes
<1>2. \A k : NamesOf(k)' = NamesOf(k)
  BY <1>1 DEF NamesOf
<1>3. CASE /\ Len(rFiles') = Len(rFiles)
           /\ \A k \in 1..Len(rFiles) : rFiles'[k].name = rFiles[k].name
  <2>1. sPc' \in AfterLast /\ rPc' \in {"ncg", "hdr1", "hdrRest"} => Len(rFiles') = Len(batch')
    BY <1>1, <1>3, LastCount
  <2>2. Len(rFiles') <= Len(batch') + 1
    BY <1>1, <1>3 DEF NamesInv
  <2>3. ASSUME NEW k \in 1..Len(rFiles')
        PROVE  /\ Len(rFiles'[k].name) > 0 /\ rFiles'[k].name[1] # 0
               /\ rFiles'[k].name[1] \in NamesOf(k)'
    BY <1>2, <1>3, <2>3 DEF NamesInv
  <2> QED
    BY <2>1, <2>2, <2>3 DEF NamesInv
<1>4. CASE /\ ReceiverStep /\ GetHdrRest /\ rPc' = "ncg2" /\ Protocol /\ Protocol'
           /\ rcvBlk'[DATA_POS + 1] # 0
           /\ rFiles' = Created(rFiles, CString(rcvBlk'))
  <2> DEFINE n    == Len(rFiles)
             name == CString(rcvBlk')
  <2>1. /\ n \in Nat /\ Len(rFiles') = n + 1
        /\ rFiles'[n + 1].name = name
        /\ \A k \in 1..n : rFiles'[k].name = rFiles[k].name
    BY <1>4, FileCreated
  <2>2. n <= Len(batch) /\ Len(name) > 0 /\ name[1] # 0 /\ name[1] \in NamesOf(n + 1)
    <3>1. /\ HeaderBlk /\ FirstByte /\ UNCHANGED <<sPc, mPc>> /\ rPc = "hdrRest"
      BY <1>4 DEF ReceiverStep, PInv, sVars, mVars, GetHdrRest
    <3>2. CASE /\ sPc = "statAck" /\ fileNameIndex \in 1..Len(batch)
               /\ \E x \in {0} \cup 2..BLK_SZ : rcvBlk' = Hit(StatBlk(batch[fileNameIndex].name), x)
      <4>1. n = fileNameIndex - 1
        BY <3>1, <3>2 DEF StoreInv, CountsInv, FileOpen, OfAFile
      <4>2. batch[fileNameIndex].name \in Byte
        BY <3>2, FileOfBatch DEF IInv, SInv
      <4>3. /\ Len(name) > 0 /\ name[1] # 0
            /\ name[1] \in {batch[fileNameIndex].name, Complement(batch[fileNameIndex].name)}
        BY <1>4, <3>2, <4>2, HitName
      <4>4. n + 1 = fileNameIndex /\ n + 1 <= Len(batch) /\ n <= Len(batch)
        BY <1>1, <3>2, <4>1
      <4> QED
        BY <4>3, <4>4 DEF NamesOf
    <3>3. CASE /\ sPc \in {"finAck", "done"}
               /\ \E x \in {0} \cup 2..BLK_SZ : rcvBlk' = Hit(StatBlk(0), x)
      <4>1. n = Len(batch)
        BY <3>1, <3>3 DEF NamesInv, AfterLast
      <4>2. Len(name) > 0 /\ name[1] # 0 /\ name[1] \in {0, Complement(0)}
        <5>1. 0 \in Byte
          BY DEF Byte
        <5> QED
          BY <1>4, <3>3, <5>1, HitName
      <4>3. ~(n + 1 <= Len(batch)) /\ n <= Len(batch)
        BY <1>1, <4>1
      <4> QED
        BY <4>2, <4>3 DEF NamesOf
    <3> QED
      BY <1>4, <3>1, <3>2, <3>3, HeaderRead
  <2> HIDE DEF name
  <2>3. Len(rFiles') <= Len(batch') + 1
    BY <1>1, <2>1, <2>2
  <2>4. ASSUME NEW k \in 1..Len(rFiles')
        PROVE  /\ Len(rFiles'[k].name) > 0 /\ rFiles'[k].name[1] # 0
               /\ rFiles'[k].name[1] \in NamesOf(k)'
    <3>1. CASE k \in 1..n
      BY <1>2, <2>1, <3>1 DEF NamesInv
    <3>2. CASE k = n + 1
      BY <1>2, <2>1, <2>2, <3>2
    <3> QED
      BY <2>1, <3>1, <3>2
  <2> QED
    BY <1>4, <2>3, <2>4 DEF NamesInv
<1> QED
  BY <1>3, <1>4, NamesGrow

LEMMA InitNames ==
  ASSUME Init
  PROVE  NamesInv
<1>1. sPc = "start" /\ rFiles = <<>> /\ batch \in Seq(File)
  BY BatchesAssumption DEF Init, SenderInit, ReceiverInit
<1>2. Len(rFiles) = 0 /\ Len(batch) \in Nat
  BY <1>1, LenProperties
<1> QED
  BY <1>1, <1>2 DEF NamesInv, AfterLast

\* Of names that are apart none comes twice.
LEMMA NoneAgain ==
  ASSUME IInv, NamesInv, NamesApart(batch), NEW k \in 1..Len(rFiles)
  PROVE  ~CreatedAgain(k)
<1> SUFFICES ASSUME NEW j \in (k + 1)..Len(rFiles), rFiles[j].name = rFiles[k].name
             PROVE  FALSE
  BY DEF CreatedAgain
<1>1. /\ Len(batch) \in Nat /\ Len(rFiles) \in Nat /\ Len(rFiles) <= Len(batch) + 1
  BY StoreTypes DEF NamesInv
<1>2. /\ j \in 1..Len(rFiles) /\ k \in 1..Len(batch) /\ j # k
      /\ j \in 1..Len(batch) \/ j = Len(batch) + 1
  BY <1>1
<1>3. /\ batch[k].name \in Byte /\ batch[k].name # 0 /\ batch[k].name # 255
  <2>1. batch[k] \in File
    BY <1>2, StoreTypes, ElementOfSeq
  <2>2. batch[k].name \in Byte /\ batch[k].name # 0
    BY <2>1 DEF File
  <2> QED
    BY <1>2, <2>2 DEF NamesApart
<1> DEFINE first == rFiles[k].name[1]
<1>4. first # 0 /\ first \in NamesOf(k) /\ first \in NamesOf(j)
  BY <1>2 DEF NamesInv
<1>5. first \in {batch[k].name, Complement(batch[k].name)}
  BY <1>2, <1>4 DEF NamesOf
<1>6. CASE j \in 1..Len(batch)
  <2>1. batch[j].name \in Byte
    BY <1>6, FileOfBatch DEF IInv, SInv
  <2>2. first \in {batch[j].name, Complement(batch[j].name)}
    BY <1>4, <1>6 DEF NamesOf
  <2>3. batch[k].name \notin {batch[j].name, Complement(batch[j].name)}
    BY <1>2, <1>6 DEF NamesApart
  <2> HIDE DEF first
  <2> QED
    BY <1>3, <1>5, <2>1, <2>2, <2>3, OneNameInTwo
<1>7. CASE j = Len(batch) + 1
  <2>1. first \in {0, Complement(0)}
    <3>1. ~(j <= Len(batch))
      BY <1>1, <1>7
    <3> QED
      BY <1>4, <3>1 DEF NamesOf
  <2> HIDE DEF first
  <2> QED
    BY <1>3, <1>4, <1>5, <2>1, NotTheEnd
<1> QED
  BY <1>2, <1>6, <1>7

LEMMA NamesAreApart ==
  ASSUME IInv, NamesInv
  PROVE  NamesStayApart
  BY NoneAgain DEF NamesStayApart

-----------------------------------------------------------------------------
(* The theorems.                                                           *)

\* Of every interleaving of the four threads, with faults of the disk or not:
\* the receiver has what the sender's place says of the chunks that writeChunk()
\* keeps, for every list of files whose blocks end safely, whether they open
\* or not and whatever their names.
THEOREM Storage ==
  ASSUME FreelySafe
  PROVE  Spec => [](IInv /\ DiskInv)
<1>1. IInv /\ DiskInv /\ [Next]_vars => DiskInv'
  <2> SUFFICES ASSUME IInv, DiskInv, [Next]_vars PROVE DiskInv'
    OBVIOUS
  <2>1. SafeBatch(batch)
    BY DEF FreelySafe, IInv, SInv, SenderTypeOK
  <2>2. ~Canceled => Whole
    BY <2>1, SafeIsWhole DEF DiskInv, DialogueInv, PInv
  <2> QED
    BY <2>2, NextDisk
<1> QED
  BY <1>1, InitDisk, InitIInv, NextIInv, PTL DEF Spec

\* What is on the receiver's disk for a file is always a prefix of the chunks
\* that the sender cuts it into, copies of a block sent again aside (the loops
\* of sendFiles and receiveFiles, SenderY.cpp:267-279 and ReceiverY.cpp:209-220).
\* InOrder excepts the files of which a chunk before the last is nothing but
\* CTRL_Zs: writeChunk() loses it.
THEOREM FilesArriveInOrder ==
  ASSUME FreelySafe
  PROVE  Spec => []InOrder
<1>1. IInv /\ DiskInv => InOrder
  BY StoredInOrder
<1> QED
  BY <1>1, Storage, PTL

\* A file of which the sender says "Done, " (SenderY.cpp:285) is on the
\* receiver's disk, every chunk of it, until creat() is called again with its
\* name (ReceiverY.cpp:134).  DoneMeansStored excepts the same files as InOrder.
THEOREM DoneIsNeverEarly ==
  ASSUME FreelySafe
  PROVE  Spec => []DoneMeansStored
<1>1. IInv /\ DiskInv => DoneMeansStored
  BY DoneIsStored
<1> QED
  BY <1>1, Storage, PTL

\* Of a batch with no missing file.
LEMMA OpenDisk ==
  ASSUME IInv, DiskInv, AllOpenable(batch)
  PROVE  PInv /\ StoreInv /\ ~Canceled
  BY NoneMissing DEF DiskInv

OpenInv == IInv /\ PInv /\ StoreInv /\ ~Canceled

\* Of files that all open, the k-th on the receiver's disk was made from the
\* header of the k-th of the batch, and at most one more from the last, empty
\* block: getRestBlk() reads a header once, whether its CRC is right or not.
THEOREM Names ==
  ASSUME FreelySendable
  PROVE  Spec => [](OpenInv /\ NamesInv)
<1>1. IInv /\ DiskInv => OpenInv
  <2>1. IInv => AllOpenable(batch)
    BY DEF FreelySendable, IInv, SInv, SenderTypeOK
  <2> QED
    BY <2>1, OpenDisk DEF OpenInv
<1>2. OpenInv /\ OpenInv' /\ NamesInv /\ [Next]_vars => NamesInv'
  BY NextNames DEF OpenInv
<1>3. Spec => [](IInv /\ DiskInv)
  BY Storage DEF FreelySendable, FreelySafe
<1> QED
  BY <1>1, <1>2, <1>3, InitNames, PTL DEF Spec

\* No creat() of the receiver (ReceiverY.cpp:134) empties a file that was
\* received before, if the names are apart and all files open: a name damaged
\* in a header is not the name of another file.
THEOREM NoFileEmptied ==
  ASSUME FreelySendable
  PROVE  Spec => []NamesStayApart
<1>1. OpenInv /\ NamesInv => NamesStayApart
  BY NamesAreApart DEF OpenInv
<1> QED
  BY <1>1, Names, PTL

\* The same under the priorities of the program, for files of any bytes if they
\* are in the cache.
THEOREM ScheduledStorage ==
  ASSUME ScheduledSafe
  PROVE  PrioSpec => [](IInv /\ DiskInv)
<1>1. IInv /\ DiskInv /\ [PrioNext]_vars => DiskInv'
  <2> SUFFICES ASSUME IInv, DiskInv, [PrioNext]_vars PROVE DiskInv'
    OBVIOUS
  <2>1. [Next]_vars
    BY PrioStep
  <2>2. SenderStep \/ UNCHANGED vars \/ Canceled \/ Whole
    <3>1. CASE SenderBlocked
      BY <3>1, ScheduledIsWhole DEF DiskInv, DialogueInv, PInv
    <3>2. CASE ~SenderBlocked
      BY <3>2 DEF PrioNext
    <3> QED
      BY <3>1, <3>2
  <2> QED
    BY <2>1, <2>2, NextDisk
<1>2. IInv /\ [PrioNext]_vars => IInv'
  BY PrioStep, NextIInv
<1> QED
  BY <1>1, <1>2, InitDisk, InitIInv, PTL DEF PrioSpec

\* As FilesArriveInOrder, under the priorities of the program.
THEOREM ScheduledInOrder ==
  ASSUME ScheduledSafe
  PROVE  PrioSpec => []InOrder
<1>1. IInv /\ DiskInv => InOrder
  BY StoredInOrder
<1> QED
  BY <1>1, ScheduledStorage, PTL

\* As DoneIsNeverEarly, under the priorities of the program.
THEOREM ScheduledDone ==
  ASSUME ScheduledSafe
  PROVE  PrioSpec => []DoneMeansStored
<1>1. IInv /\ DiskInv => DoneMeansStored
  BY DoneIsStored
<1> QED
  BY <1>1, ScheduledStorage, PTL

\* As Names, under the priorities of the program.
THEOREM ScheduledNames ==
  ASSUME ScheduledSendable
  PROVE  PrioSpec => [](OpenInv /\ NamesInv)
<1>1. IInv /\ DiskInv => OpenInv
  <2>1. IInv => AllOpenable(batch)
    BY DEF ScheduledSendable, IInv, SInv, SenderTypeOK
  <2> QED
    BY <2>1, OpenDisk DEF OpenInv
<1>2. OpenInv /\ OpenInv' /\ NamesInv /\ [PrioNext]_vars => NamesInv'
  BY NextNames, PrioStep DEF OpenInv
<1>3. PrioSpec => [](IInv /\ DiskInv)
  BY ScheduledStorage DEF ScheduledSendable
<1> QED
  BY <1>1, <1>2, <1>3, InitNames, PTL DEF PrioSpec

\* As NoFileEmptied, under the priorities of the program.
THEOREM ScheduledNoFileEmptied ==
  ASSUME ScheduledSendable
  PROVE  PrioSpec => []NamesStayApart
<1>1. OpenInv /\ NamesInv => NamesStayApart
  BY NamesAreApart DEF OpenInv
<1> QED
  BY <1>1, ScheduledNames, PTL

-----------------------------------------------------------------------------
(* The program implements BatchDelivery.                                   *)

CutPiece == "Done"

\* How many files a report says are done.
LEMMA DonesCounted ==
  ASSUME NEW n \in Nat
  PROVE  DoneCount(Dones(n)) = n /\ DoneCount(EraseTail(Dones(n))) = n
<1>1. Cardinality(1..n) = n
  BY FS_Interval
<1>2. ASSUME NEW res, Len(res) = n, \A k \in 1..n : res[k] \in {DonePiece, CutPiece}
      PROVE  DoneCount(res) = n
  <2>1. {k \in 1..Len(res) : res[k] \in {"Done, ", "Done"}} = 1..n
    BY <1>2, Zenon DEF DonePiece, CutPiece
  <2> QED
    BY <1>1, <2>1, Zenon DEF DoneCount
<1>3. Dones(n) \in Seq(Pieces) /\ Len(Dones(n)) = n
  BY DonesStep, Zenon DEF Result
<1>4. \A k \in 1..n : Dones(n)[k] = DonePiece
  BY Zenon DEF Dones, DonePiece
<1>5. CutTwo(DonePiece) = CutPiece
  BY Zenon DEF CutTwo, DonePiece, CutPiece
<1> DEFINE d == Dones(n)
<1> HIDE DEF d
<1>6. d \in Seq(Pieces) /\ Len(d) = n /\ \A k \in 1..n : d[k] = DonePiece
  BY <1>3, <1>4 DEF d
<1>7. Len(EraseTail(d)) = n
  BY <1>6, EraseTailLen
<1>8. ASSUME NEW k \in 1..n PROVE EraseTail(d)[k] \in {DonePiece, CutPiece}
  <2>1. d # <<>> /\ n \in 1..n
    BY <1>6, EmptySeq
  <2>2. EraseTail(d) = [d EXCEPT ![n] = CutTwo(d[n])]
    BY <1>6, <2>1 DEF EraseTail
  <2>3. k \in DOMAIN d /\ n \in DOMAIN d
    BY <1>6, <2>1, LenProperties
  <2>4. EraseTail(d)[k] = IF k = n THEN CutTwo(d[n]) ELSE d[k]
    BY <2>2, <2>3
  <2> QED
    BY <1>5, <1>6, <2>1, <2>4
<1>9. DoneCount(d) = n
  BY <1>2, <1>6
<1>10. DoneCount(EraseTail(d)) = n
  BY <1>2, <1>7, <1>8
<1> QED
  BY <1>9, <1>10 DEF d

NotedBySender   == IF sPc = "start" THEN 0 ELSE fileNameIndex - 1
NotedByReceiver == IF sPc = "eotAck" /\ rPc \in {"ncg", "hdr1"} THEN fileNameIndex ELSE NotedBySender

LEMMA ReportsCounted ==
  ASSUME IInv, ReportInv
  PROVE  /\ NotedBySender \in Nat /\ NotedByReceiver \in Nat
         /\ DoneCount(sResult) = NotedBySender /\ DoneCount(rResult) = NotedByReceiver
<1>1. fileNameIndex \in Nat /\ sPc \in SPcs /\ (sPc # "start" => fileNameIndex - 1 \in Nat)
  <2>1. fileNameIndex \in Nat /\ sPc \in SPcs /\ Len(batch) \in Nat
    BY StoreTypes
  <2>2. sPc # "start" => fileNameIndex >= 1
    BY <2>1 DEF ReportInv
  <2> QED
    BY <2>1, <2>2
<1>2. NotedBySender \in Nat /\ NotedByReceiver \in Nat
  BY <1>1 DEF NotedBySender, NotedByReceiver
<1>3. /\ sResult = Dones(NotedBySender) \/ sResult = EraseTail(Dones(NotedBySender))
      /\ rResult = Dones(NotedByReceiver) \/ rResult = EraseTail(Dones(NotedByReceiver))
  BY Zenon DEF ReportInv, SenderReports, ReceiverReports, NotedBySender, NotedByReceiver
<1> HIDE DEF NotedBySender, NotedByReceiver
<1> QED
  BY <1>2, <1>3, DonesCounted

Counted == DoneCount(sResult) = NotedBySender /\ DoneCount(rResult) = NotedByReceiver

LEMMA ReportsCountedNext ==
  IInv' /\ ReportInv' =>
    DoneCount(sResult)' = NotedBySender' /\ DoneCount(rResult)' = NotedByReceiver'
<1>1. IInv /\ ReportInv => Counted
  BY ReportsCounted DEF Counted
<1>2. IInv' /\ ReportInv' => Counted'
  BY <1>1, PTL
<1> QED
  BY <1>2 DEF Counted

Both == Smaller(Len(rFiles), Len(batch))

\* What has to arrive of an ordinary batch is what writeChunk() keeps of it.
LEMMA AllIsKept ==
  ASSUME IInv, Ordinary(batch), NEW k \in 1..Len(batch)
  PROVE  Expected(batch[k].data) = Content(k)
<1>1. batch[k].data \in Seq(Byte)
  BY FileOfBatch DEF IInv, SInv
<1>2. ~BlankInside(batch[k].data)
  BY DEF Ordinary
<1> QED
  BY <1>1, <1>2, KeptIsExpected DEF Content

LEMMA DiskTypes ==
  ASSUME IInv, Ordinary(batch)
  PROVE  /\ Both \in Nat /\ Both <= Len(rFiles) /\ Both <= Len(batch)
         /\ OnTheDisk \in Seq(Seq(Chunk)) /\ Len(OnTheDisk) = Both
         /\ OnTheDisk = [k \in 1..Both |-> OnDisk(k)]
         /\ \A k \in 1..Both : OnTheDisk[k] = OnDisk(k)
         /\ Contents[batch] \in Seq(Seq(Chunk)) /\ Len(Contents[batch]) = Len(batch)
         /\ \A k \in 1..Len(batch) : Contents[batch][k] = Content(k)
<1>1. Len(rFiles) \in Nat /\ Len(batch) \in Nat /\ batch \in Batches
  BY StoreTypes DEF IInv, SInv, SenderTypeOK
<1>2. Both \in Nat /\ Both <= Len(rFiles) /\ Both <= Len(batch)
  BY <1>1 DEF Both, Smaller
<1> DEFINE exp(k)  == Expected(batch[k].data)
           disk(k) == Merged(rFiles[k].chunks, Expected(batch[k].data))
<1>3. /\ \A k \in 1..Len(batch) : exp(k) = Content(k)
      /\ \A k \in 1..Both : disk(k) = OnDisk(k)
  BY <1>1, <1>2, AllIsKept DEF OnDisk
<1>4. OnTheDisk = [k \in 1..Both |-> disk(k)]
  BY DEF OnTheDisk, Both
<1>5. Contents[batch] = [k \in 1..Len(batch) |-> exp(k)]
  BY <1>1 DEF Contents
<1>6. \A k \in 1..Both : OnDisk(k) \in Seq(Chunk)
  BY <1>1, <1>2, ContentTypes
<1>7. \A k \in 1..Len(batch) : Content(k) \in Seq(Chunk)
  BY ContentTypes
<1> HIDE DEF Both, exp, disk
<1>8. /\ OnTheDisk = [k \in 1..Both |-> OnDisk(k)]
      /\ Contents[batch] = [k \in 1..Len(batch) |-> Content(k)]
  BY <1>3, <1>4, <1>5
<1>9. OnTheDisk \in Seq(Seq(Chunk)) /\ Len(OnTheDisk) = Both
  BY <1>2, <1>6, <1>8, IsASeq
<1>10. Contents[batch] \in Seq(Seq(Chunk)) /\ Len(Contents[batch]) = Len(batch)
  BY <1>1, <1>7, <1>8, IsASeq
<1> QED
  BY <1>2, <1>8, <1>9, <1>10

LEMMA SameDisk ==
  ASSUME batch' = batch, rFiles' = rFiles
  PROVE  OnTheDisk' = OnTheDisk /\ Contents[batch]' = Contents[batch]
  BY DEF OnTheDisk, Contents

\* No file on the disk was emptied by a creat() for a later one.
Fresh == \A k \in 1..Len(rFiles) : ~CreatedAgain(k)

LEMMA InitDelivery ==
  ASSUME IInv, ReportInv, Ordinary(batch), Init
  PROVE  Delivery!Init
<1>1. sPc = "start" /\ rPc = "ncg" /\ rFiles = <<>> /\ exited = FALSE
  BY DEF Init, SenderInit, ReceiverInit, WireInit
<1>2. OnTheDisk = <<>> /\ Contents[batch] \in Seq(Seq(Chunk))
  <2>1. Len(rFiles) = 0 /\ Both = 0
    BY <1>1, DiskTypes
  <2> QED
    BY <2>1, DiskTypes, EmptySeq
<1>3. DoneCount(sResult) = 0 /\ DoneCount(rResult) = 0
  <2>1. NotedBySender = 0 /\ NotedByReceiver = 0
    BY <1>1 DEF NotedBySender, NotedByReceiver
  <2> QED
    BY <2>1, ReportsCounted
<1> QED
  BY <1>1, <1>2, <1>3 DEF Delivery!Init

\* The sender reports a file that the receiver has accepted.
LEMMA SenderDelivery ==
  ASSUME IInv, IInv', PInv, StoreInv, ReportInv, ReportInv', AllOpenable(batch), SenderStep
  PROVE  [Delivery!Next]_(Delivery!vars)
<1>1. /\ UNCHANGED <<batch, rFiles, rResult, rPc>> /\ exited = FALSE
      /\ OnTheDisk' = OnTheDisk /\ Contents[batch]' = Contents[batch]
  <2>1. ~exited /\ exited \in BOOLEAN
    BY DEF SenderStep, SenderNext, IInv, SInv, WireTypeOK
  <2>2. UNCHANGED <<rFiles, rResult, rPc>>
    BY DEF SenderStep, rVars
  <2>3. batch' = batch
    <3>1. CASE ReadEotAck
      BY <3>1, ReadEotAckParts
    <3>2. CASE ~ReadEotAck
      BY <3>2 DEF SenderStep, SenderNext, Start, ReadC, PrepNextSendLast, ReadStatAck, ReadStatC, ReadReply,
         ResendLast, ReadEotNak, SendFinalMost, SendFinalLast, ReadFinalAck, PrepStatBlk, sFile
    <3> QED
      BY <3>1, <3>2
  <2> QED
    BY <2>1, <2>2, <2>3, SameDisk
<1>2. DoneCount(rResult)' = DoneCount(rResult)
  BY <1>1
<1>3. fileNameIndex \in Nat /\ Len(batch) \in Nat /\ ~exited /\ Protocol
  BY <1>1, StoreTypes DEF PInv
<1>4. CASE ReadEotAck
  <2>1. /\ sPc = "eotAck" /\ m2s # <<>> /\ exited' = exited
        /\ sPc' \in {"readC", "finMost"} /\ fileNameIndex' = fileNameIndex + 1
    BY <1>4, ReadEotAckParts DEF PrepStatBlk, ReadByte
  <2>2. rPc \in {"ncg", "hdr1"}
    BY <1>3, <2>1 DEF Protocol, SecondEot, Replies, Coming
  <2>3. /\ NotedBySender = fileNameIndex - 1 /\ NotedByReceiver = fileNameIndex
        /\ NotedBySender' = fileNameIndex
    BY <1>3, <2>1, <2>2 DEF NotedBySender, NotedByReceiver
  <2>4. /\ DoneCount(sResult) = fileNameIndex - 1 /\ DoneCount(rResult) = fileNameIndex
    BY <2>3, ReportsCounted
  <2>5. DoneCount(sResult)' = fileNameIndex
    BY <2>3, ReportsCountedNext
  <2>6. /\ DoneCount(sResult) < DoneCount(rResult)
        /\ DoneCount(sResult)' = DoneCount(sResult) + 1
    BY <1>3, <2>4, <2>5
  <2>7. Delivery!Report
    BY <1>1, <1>2, <2>6 DEF Delivery!Report
  <2> QED
    BY <1>1, <2>1, <2>7 DEF Delivery!Next, Delivery!Work
<1>5. CASE ~ReadEotAck
  <2>1. exited' = exited
    <3>1. CASE PrepNextSendLast
      <4>1. sPc \in {"statLast", "blkLast"}
        BY <3>1 DEF PrepNextSendLast
      <4>2. sFileD # -1
        BY <4>1, <1>3 DEF StoreInv, PlaceInv, OfAFile
      <4> QED
        BY <3>1, <4>2 DEF PrepNextSendLast
    <3> QED
      BY <1>5, <3>1 DEF SenderStep, SenderNext, Start, ReadC, ReadStatAck, ReadStatC, ReadReply,
           ResendLast, ReadEotNak, SendFinalMost, SendFinalLast, ReadFinalAck, away, wires
  <2>2. DoneCount(sResult)' = DoneCount(sResult)
    <3>1. NotedBySender' = NotedBySender
      <4>1. CASE Start
        <5>1. sPc = "start" /\ fileNameIndex = 0 /\ fileNameIndex' = 1 /\ sPc' # "start"
          BY <4>1, <1>3 DEF Start, PrepStatBlk, ReportInv
        <5> QED
          BY <5>1 DEF NotedBySender
      <4>2. CASE ~Start
        <5>1. sPc # "start" /\ sPc' # "start" /\ fileNameIndex' = fileNameIndex
          BY <1>5, <4>2 DEF SenderStep, SenderNext, ReadC, PrepNextSendLast, ReadStatAck, ReadStatC, ReadReply,
             ResendLast, ReadEotNak, SendFinalMost, SendFinalLast, ReadFinalAck, sFile, NextBlkOrEot
        <5> QED
          BY <5>1 DEF NotedBySender
      <4> QED
        BY <4>1, <4>2
    <3> QED
      BY <3>1, ReportsCounted, ReportsCountedNext
  <2> QED
    BY <1>1, <1>2, <2>1, <2>2 DEF Delivery!vars
<1> QED
  BY <1>4, <1>5

AllBegin == \A k \in 1..Len(rFiles) : k <= Len(batch) => Begins(OnDisk(k), Content(k))

LEMMA BeginsNext == IInv' /\ StoreInv' => AllBegin'
<1>1. IInv /\ StoreInv => AllBegin
  BY StoredBegins DEF AllBegin
<1> QED
  BY <1>1, PTL

\* A chunk written is the next of its file, or the one before it once more.
LEMMA ChunkDelivery ==
  ASSUME IInv, IInv', Protocol, StoreInv, StoreInv', ReportInv, Ordinary(batch), WriteChunk,
         UNCHANGED sVars, exited = FALSE
  PROVE  [Delivery!Next]_(Delivery!vars)
<1> DEFINE n     == fileNameIndex
           chunk == ChunkOf(rcvBlk)
           w     == rFiles[n].chunks
<1>1. /\ UNCHANGED <<batch, sPc, fileNameIndex, sResult, rResult>> /\ rPc = "write"
      /\ UNCHANGED <<DoneCount(sResult), DoneCount(rResult)>>
  BY DEF sVars, WriteChunk
<1>2. Contents[batch]' = Contents[batch]
  BY <1>1 DEF Contents
<1>3. CASE UNCHANGED rFiles
  <2>1. OnTheDisk' = OnTheDisk
    BY <1>1, <1>3, SameDisk
  <2>2. exited' \in {FALSE, TRUE}
    BY <1>1 DEF WriteChunk
  <2> QED
    BY <1>1, <1>2, <2>1, <2>2 DEF Delivery!Next, Delivery!Fail, Delivery!vars
<1>4. CASE ~UNCHANGED rFiles
  <2>1. exited' = exited /\ rPc' # rPc
    BY <1>1, <1>4 DEF WriteChunk
  <2>2. /\ rFileD = n /\ Len(rFiles) = n /\ n \in 1..Len(batch) /\ n \in 1..Len(rFiles)
        /\ w \in Seq(Chunk) /\ n \in Nat /\ Len(batch) \in Nat
        /\ sPc \in {"blkLast", "reply", "reReply", "reLast", "eotNak"}
    BY <1>1, WritePlace, StoreTypes
  <2>3. /\ Len(rFiles') = Len(rFiles)
        /\ \A k \in 1..Len(rFiles) : k # n => rFiles'[k] = rFiles[k]
        /\ rFiles'[n].chunks = Append(w, chunk)
    <3> DEFINE more == [rFiles EXCEPT ![n].chunks = Append(@, chunk)]
    <3>1. rFiles' = more
      BY <1>4, <2>1, <2>2, WrittenFiles
    <3>2. /\ Len(more) = Len(rFiles)
          /\ \A k \in 1..Len(rFiles) : k # n => more[k] = rFiles[k]
          /\ more[n].chunks = Append(w, chunk)
      BY <2>2, MoreFiles
    <3> HIDE DEF more
    <3> QED
      BY <3>1, <3>2
  <2>4. Both = n /\ Both' = n
    BY <1>1, <2>2, <2>3 DEF Both, Smaller
  <2>5. /\ OnTheDisk \in Seq(Seq(Chunk)) /\ Len(OnTheDisk) = n
        /\ \A k \in 1..n : OnTheDisk[k] = OnDisk(k)
    BY <2>4, DiskTypes
  <2>6. OnTheDisk' = [OnTheDisk EXCEPT ![n] = Merged(Append(w, chunk), Content(n))]
    <3> DEFINE now(k)  == OnDisk(k)
               next(k) == Merged(rFiles'[k].chunks, Expected(batch[k].data))
               more    == Merged(Append(w, chunk), Content(n))
    <3>1. OnTheDisk = [k \in 1..n |-> now(k)]
      BY <2>4, DiskTypes
    <3>2. OnTheDisk' = [k \in 1..n |-> next(k)]
      BY <1>1, <2>4 DEF OnTheDisk, Both
    <3>3. \A k \in 1..n : next(k) = IF k = n THEN more ELSE now(k)
      <4> SUFFICES ASSUME NEW k \in 1..n PROVE next(k) = IF k = n THEN more ELSE now(k)
        OBVIOUS
      <4>1. Expected(batch[k].data) = Content(k)
        <5>1. k \in 1..Len(batch)
          BY <2>2
        <5> QED
          BY <5>1, AllIsKept
      <4>2. CASE k = n
        BY <2>3, <4>1, <4>2
      <4>3. CASE k # n
        <5>1. rFiles'[k] = rFiles[k]
          BY <2>2, <2>3, <4>3
        <5> QED
          BY <4>1, <4>3, <5>1 DEF OnDisk
      <4> QED
        BY <4>2, <4>3
    <3> HIDE DEF now, next, more
    <3>4. OnTheDisk' = [OnTheDisk EXCEPT ![n] = more]
      BY <3>1, <3>2, <3>3
    <3> QED
      BY <3>4 DEF more
  <2>7. chunk \in Chunk
    <3>1. rcvBlk \in Block
      BY DEF IInv, RInv, ReceiverTypeOK
    <3> QED
      BY <3>1, ChunkSzAssumption DEF ChunkOf, Chunk, Block, BLK_SZ, DATA_POS
  <2>8. CASE Merged(Append(w, chunk), Content(n)) = OnDisk(n)
    <3>1. OnTheDisk' = OnTheDisk
      BY <2>2, <2>5, <2>6, <2>8, LenProperties
    <3> QED
      BY <1>1, <1>2, <2>1, <3>1 DEF Delivery!vars
  <2>9. CASE Merged(Append(w, chunk), Content(n)) # OnDisk(n)
    <3>1. Merged(Append(w, chunk), Content(n)) = Append(OnDisk(n), chunk)
      BY <2>2, <2>7, <2>9, MergedAppend DEF OnDisk
    <3>2. Begins(Append(OnDisk(n), chunk), Content(n))
      <4>1. AllBegin'
        BY BeginsNext
      <4>2. n \in 1..Len(rFiles') /\ n <= Len(batch)
        BY <2>2, <2>3
      <4>3. Begins(Merged(rFiles'[n].chunks, Content(n)), Content(n))
        BY <1>1, <4>1, <4>2 DEF AllBegin, OnDisk, Content
      <4> QED
        BY <2>3, <3>1, <4>3
    <3>3. OnDisk(n) \in Seq(Chunk) /\ Content(n) \in Seq(Chunk) /\ Contents[batch][n] = Content(n)
      BY <2>2, ContentTypes, DiskTypes
    <3>4. Len(OnDisk(n)) < Len(Content(n)) /\ Content(n)[Len(OnDisk(n)) + 1] = chunk
      <4> DEFINE d == OnDisk(n)
                 c == Content(n)
      <4> HIDE DEF d, c, chunk
      <4>1. d \in Seq(Chunk) /\ Len(d) \in Nat /\ Len(c) \in Nat
        BY <3>3, LenProperties DEF d, c
      <4>2. Len(Append(d, chunk)) = Len(d) + 1 /\ Append(d, chunk)[Len(d) + 1] = chunk
        BY <2>7, <4>1, AppendProperties
      <4>3. Begins(Append(d, chunk), c)
        BY <3>2 DEF d, c
      <4>4. Len(d) + 1 <= Len(c) /\ Len(d) + 1 \in 1..(Len(d) + 1)
        BY <4>1, <4>2, <4>3 DEF Begins
      <4>5. c[Len(d) + 1] = chunk
        BY <4>2, <4>3, <4>4 DEF Begins
      <4>6. Len(d) < Len(c) /\ c[Len(d) + 1] = chunk
        BY <4>1, <4>4, <4>5
      <4> QED
        BY <4>6 DEF d, c
    <3>5. DoneCount(rResult) < n
      <4>1. NotedByReceiver = n - 1
        BY <2>2 DEF NotedByReceiver, NotedBySender
      <4> QED
        BY <2>2, <4>1, ReportsCounted
    <3>6. OnTheDisk' = [OnTheDisk EXCEPT ![n] = Append(OnTheDisk[n], Contents[batch][n][Len(OnTheDisk[n]) + 1])]
      BY <2>2, <2>5, <2>6, <3>1, <3>3, <3>4
    <3>7. Delivery!Deliver
      BY <1>1, <2>5, <2>2, <3>3, <3>4, <3>5, <3>6 DEF Delivery!Deliver, Delivery!Newest
    <3> QED
      BY <1>2, <2>1, <3>7 DEF Delivery!Next, Delivery!Work
  <2> QED
    BY <2>8, <2>9
<1> QED
  BY <1>3, <1>4

\* A header makes a new file, unless it is taken for the last one.
LEMMA HeaderDelivery ==
  ASSUME IInv, IInv', Protocol, Protocol', StoreInv, ReportInv, ReportInv',
         Ordinary(batch), Fresh', GetHdrRest, UNCHANGED sVars, exited = FALSE, ~CreatMayFail
  PROVE  [Delivery!Next]_(Delivery!vars)
<1>1. UNCHANGED <<batch, sPc, fileNameIndex, sResult, exited, DoneCount(sResult)>> /\ rPc = "hdrRest"
  BY DEF sVars, GetHdrRest, far
<1>2. Contents[batch]' = Contents[batch]
  BY <1>1 DEF Contents
<1>3. NotedByReceiver = NotedBySender /\ NotedByReceiver' = NotedBySender' /\ NotedBySender' = NotedBySender
  <2>1. rPc' \in {"done", "ncg2"}
    BY DEF GetHdrRest
  <2> QED
    BY <1>1, <2>1 DEF NotedBySender, NotedByReceiver
<1>4. DoneCount(rResult)' = DoneCount(rResult) /\ DoneCount(sResult) = NotedBySender
  BY <1>3, ReportsCounted, ReportsCountedNext
<1>5. CASE rFiles' = rFiles
  <2>1. OnTheDisk' = OnTheDisk
    BY <1>1, <1>5, SameDisk
  <2> QED
    BY <1>1, <1>2, <1>4, <2>1 DEF Delivery!vars
<1>6. CASE /\ rPc' = "ncg2"
           /\ rFiles' = Created(rFiles, CString(rcvBlk'))
  <2> DEFINE m == Len(rFiles)
  <2>1. /\ m \in Nat /\ Len(rFiles') = m + 1
        /\ \A k \in 1..m : rFiles'[k] = rFiles[k]
        /\ rFiles'[m + 1].chunks = <<>>
    <3>1. /\ m \in Nat /\ Len(rFiles') = m + 1 /\ rFiles'[m + 1].chunks = <<>>
          /\ rFiles'[m + 1].name = CString(rcvBlk')
          /\ \A k \in 1..m : rFiles'[k].name = rFiles[k].name
          /\ \A k \in 1..m : rFiles[k].name # CString(rcvBlk') => rFiles'[k] = rFiles[k]
      BY <1>6, FileCreated
    <3>2. \A k \in 1..m : rFiles'[k].name # rFiles'[m + 1].name
      BY <3>1 DEF Fresh, CreatedAgain
    <3> QED
      BY <3>1, <3>2
  <2>2. sPc \in {"statAck", "finAck", "done"}
    BY <1>1, <1>6, HeaderPlaces
  <2>3. Len(batch) \in Nat /\ fileNameIndex \in Nat
    BY StoreTypes
  <2> HIDE DEF m
  <2>4. CASE sPc = "statAck"
    <3>1. m = fileNameIndex - 1 /\ fileNameIndex \in 1..Len(batch)
      <4>1. rPc \notin {"ncg2", "blk1", "blkRest", "write", "eot2"}
        BY <1>1
      <4>2. m = fileNameIndex - 1
        BY <4>1, <2>4 DEF StoreInv, CountsInv, FileOpen, OfAFile, m
      <4>3. fileNameIndex \in 1..Len(batch)
        BY <2>4 DEF StoreInv, PlaceInv, AfterLast
      <4> QED
        BY <4>2, <4>3
    <3>2. Both = m /\ Both' = m + 1
      BY <1>1, <2>1, <2>3, <3>1 DEF Both, Smaller, m
    <3>3. OnTheDisk \in Seq(Seq(Chunk)) /\ Len(OnTheDisk) = m
      BY <3>2, DiskTypes
    <3>4. OnTheDisk' = Append(OnTheDisk, <<>>)
      <4> DEFINE f(k) == Merged(rFiles[k].chunks, Expected(batch[k].data))
                 g(k) == Merged(rFiles'[k].chunks, Expected(batch[k].data))
      <4>1. OnTheDisk = [k \in 1..m |-> f(k)]
        BY <3>2 DEF OnTheDisk, Both
      <4>2. OnTheDisk' = [k \in 1..(m + 1) |-> g(k)]
        BY <1>1, <3>2 DEF OnTheDisk, Both
      <4>3. g(m + 1) = <<>>
        BY <2>1, MergedNone
      <4>4. \A k \in 1..m : g(k) = f(k)
        BY <2>1
      <4>5. g(m + 1) = <<>> /\ \A k \in 1..m : g(k) = f(k)
        BY <4>3, <4>4
      <4>6. OnTheDisk = [k \in 1..m |-> f(k)] /\ OnTheDisk' = [k \in 1..(m + 1) |-> g(k)]
        BY <4>1, <4>2
      <4> HIDE DEF f, g
      <4>7. [k \in 1..(m + 1) |-> g(k)] = Append([k \in 1..m |-> f(k)], <<>>)
        BY <2>1, <3>3, <4>5, <4>6
      <4> QED
        BY <4>6, <4>7
    <3>5. NotedBySender = m
      BY <2>4, <3>1 DEF NotedBySender
    <3>6. Len(Contents[batch]) = Len(batch) /\ m < Len(batch)
      BY <2>1, <2>3, <3>1, DiskTypes
    <3>7. Delivery!Create
      BY <1>1, <1>4, <3>3, <3>4, <3>5, <3>6 DEF Delivery!Create, Delivery!Newest
    <3> QED
      BY <1>1, <1>2, <3>7 DEF Delivery!Next, Delivery!Work
  <2>5. CASE sPc \in {"finAck", "done"}
    <3>1. fileNameIndex = Len(batch) + 1
      BY <2>5 DEF StoreInv, PlaceInv, AfterLast
    <3>2. Len(batch) \in 1..(fileNameIndex - 1)
      BY <2>3, <3>1, StoreTypes
    <3>3. Len(batch) \in 1..m
      BY <3>2 DEF StoreInv, ChunksInv, Complete, m
    <3>4. Both = Len(batch) /\ Both' = Len(batch)
      BY <1>1, <2>1, <2>3, <3>3 DEF Both, Smaller, m
    <3>5. OnTheDisk' = OnTheDisk
      <4> DEFINE f(k) == Merged(rFiles[k].chunks, Expected(batch[k].data))
                 g(k) == Merged(rFiles'[k].chunks, Expected(batch[k].data))
      <4>1. /\ OnTheDisk = [k \in 1..Len(batch) |-> f(k)]
            /\ OnTheDisk' = [k \in 1..Len(batch) |-> g(k)]
        BY <1>1, <3>4 DEF OnTheDisk, Both
      <4>2. \A k \in 1..Len(batch) : g(k) = f(k)
        <5>1. \A k \in 1..Len(batch) : rFiles'[k] = rFiles[k]
          BY <2>1, <2>3, <3>3
        <5> QED
          BY <5>1
      <4> HIDE DEF f, g
      <4> QED
        BY <4>1, <4>2
    <3> QED
      BY <1>1, <1>2, <1>4, <3>5 DEF Delivery!vars
  <2> QED
    BY <2>2, <2>4, <2>5
<1> QED
  BY <1>5, <1>6 DEF GetHdrRest, rStore

\* The receiver accepts a file when all of it is on the disk.
LEMMA AcceptDelivery ==
  ASSUME IInv, IInv', Protocol, StoreInv, ReportInv, ReportInv',
         Ordinary(batch), Fresh, ReadSecondEot,
         UNCHANGED sVars, UNCHANGED mVars, exited = FALSE, ~CloseMayFail
  PROVE  [Delivery!Next]_(Delivery!vars)
<1>1. /\ UNCHANGED <<batch, sPc, fileNameIndex, sResult, blkSent, blkBuf, mPc, DoneCount(sResult)>>
  BY DEF sVars, mVars
<1>2. rPc = "eot2" /\ rPc' = "ncg" /\ UNCHANGED <<rFiles, exited>>
  BY Zenon DEF ReadSecondEot, far
<1>3. sPc = "eotAck"
  BY <1>1, ReadSecondEotDialogue
<1>4. OnTheDisk' = OnTheDisk /\ Contents[batch]' = Contents[batch]
  BY <1>1, <1>2, SameDisk
<1>5. fileNameIndex \in 1..Len(batch) /\ Len(rFiles) = fileNameIndex /\ Complete(fileNameIndex)
  BY <1>3 DEF StoreInv, PlaceInv, CountsInv, ChunksInv, AfterLast
<1>6. NotedByReceiver = fileNameIndex - 1 /\ NotedByReceiver' = fileNameIndex
  BY <1>1, <1>2, <1>3 DEF NotedBySender, NotedByReceiver
<1>7. DoneCount(rResult) = fileNameIndex - 1 /\ DoneCount(rResult)' = fileNameIndex
  BY <1>6, ReportsCounted, ReportsCountedNext
<1>8. Both = fileNameIndex /\ fileNameIndex \in Nat
  BY <1>5, StoreTypes DEF Both, Smaller
<1>9. Len(OnTheDisk) = fileNameIndex /\ OnTheDisk[fileNameIndex] = Contents[batch][fileNameIndex]
  <2>1. OnDisk(fileNameIndex) = Content(fileNameIndex)
    BY <1>5, <1>8, CompleteIsAll DEF Fresh
  <2> QED
    BY <1>5, <1>8, <2>1, DiskTypes
<1>10. DoneCount(rResult) < fileNameIndex /\ DoneCount(rResult)' = DoneCount(rResult) + 1
  BY <1>7, <1>8
<1>11. Delivery!Accept
  BY <1>1, <1>4, <1>9, <1>10 DEF Delivery!Accept, Delivery!Newest
<1> QED
  BY <1>2, <1>4, <1>11 DEF Delivery!Next, Delivery!Work

LEMMA ReceiverDelivery ==
  ASSUME IInv, IInv', PInv, PInv', StoreInv, StoreInv', ReportInv, ReportInv',
         Ordinary(batch), Fresh, Fresh', ReceiverStep, ~CreatMayFail, ~CloseMayFail
  PROVE  [Delivery!Next]_(Delivery!vars)
<1>1. /\ UNCHANGED <<sVars, mVars, batch, sResult>> /\ Protocol
  BY DEF ReceiverStep, ReceiverNext, sVars, PInv
<1>2. exited = FALSE
  BY DEF ReceiverStep, ReceiverNext, IInv, SInv, WireTypeOK
<1>3. CASE GetHdrRest
  <2>1. exited' = FALSE
    BY <1>2, <1>3 DEF GetHdrRest, far
  <2>2. Protocol'
    BY <2>1 DEF PInv
  <2> QED
    BY <1>1, <1>2, <1>3, <2>2, HeaderDelivery
<1>4. CASE WriteChunk
  BY <1>1, <1>2, <1>4, ChunkDelivery
<1>5. CASE ReadSecondEot
  BY <1>1, <1>2, <1>5, AcceptDelivery
<1>6. CASE ~GetHdrRest /\ ~WriteChunk /\ ~ReadSecondEot
  <2>1. UNCHANGED <<rFiles, rResult, exited>>
    BY <1>6 DEF ReceiverStep, ReceiverNext, SendNCG, ReadHdrFirst, SendSecondNCG, ReadBlkFirst,
                GetBlkRest, far, rStore
  <2>2. UNCHANGED <<OnTheDisk, Contents[batch], DoneCount(sResult), DoneCount(rResult)>>
    BY <1>1, <2>1, SameDisk
  <2> QED
    BY <2>1, <2>2 DEF Delivery!vars
<1> QED
  BY <1>3, <1>4, <1>5, <1>6

\* The medium may end the process, and touches nothing else.
LEMMA MediumDelivery ==
  ASSUME IInv, IInv', M2to1Step \/ M1to2Step \/ UNCHANGED vars
  PROVE  [Delivery!Next]_(Delivery!vars)
<1>1. UNCHANGED <<batch, sResult, rFiles, rResult>>
  BY DEF M2to1Step, M1to2Step, vars, sVars, rVars
<1>2. UNCHANGED <<OnTheDisk, Contents[batch], DoneCount(sResult), DoneCount(rResult)>>
  BY <1>1, SameDisk
<1>3. exited' = exited \/ exited' = TRUE
  <2>1. CASE UNCHANGED vars
    BY <2>1 DEF vars, wires
  <2>2. CASE M2to1Step \/ M1to2Step
    <3>1. exited' \in BOOLEAN /\ exited \in BOOLEAN
      BY DEF IInv, SInv, WireTypeOK
    <3>2. ~exited
      BY <2>2 DEF M2to1Step, M1to2Step
    <3> QED
      BY <3>1, <3>2
  <2> QED
    BY <2>1, <2>2
<1> QED
  BY <1>2, <1>3 DEF Delivery!Next, Delivery!Fail, Delivery!vars

LEMMA NextDelivery ==
  ASSUME IInv, IInv', PInv, PInv', StoreInv, StoreInv', ReportInv, ReportInv',
         AllOpenable(batch), Ordinary(batch), Fresh, Fresh',
         [Next]_vars, ~CreatMayFail, ~CloseMayFail
  PROVE  [Delivery!Next]_(Delivery!vars)
<1>1. CASE SenderStep
  BY <1>1, SenderDelivery
<1>2. CASE ReceiverStep
  BY <1>2, ReceiverDelivery
<1>3. CASE M2to1Step \/ M1to2Step \/ UNCHANGED vars
  BY <1>3, MediumDelivery
<1> QED
  BY <1>1, <1>2, <1>3 DEF Next

\* Of ordinary files that all open no file was emptied.
LEMMA NoneEmptied ==
  ASSUME NamesApart(batch)
  PROVE  OpenInv /\ NamesInv => Fresh
  BY NoneAgain DEF OpenInv, Fresh

AllOrdinary == \A b \in Batches : Ordinary(b)

\* The four threads, in every interleaving, do what a YMODEM batch transfer
\* promises (BatchDelivery), for every list of files that open and whose blocks
\* end safely, if the names are apart, no chunk inside a file is nothing but
\* CTRL_Zs, and the receiver's disk makes every file and closes it: no chunk is
\* lost, overtaken or put in another file, the receiver's "Done, "
\* (ReceiverY.cpp:232) comes after the file's last chunk, and the sender's
\* (SenderY.cpp:285) after that.
THEOREM ImplementsBatchDelivery ==
  ASSUME FreelySendable, AllOrdinary, ~CreatMayFail, ~CloseMayFail
  PROVE  Spec => ImplementsDelivery
<1>1. Init => ReportInv
  BY InitReportInv
<1>2. OpenInv /\ OpenInv' /\ ReportInv /\ [Next]_vars => ReportInv'
  BY NextReportInv DEF OpenInv
<1>3. OpenInv => AllOpenable(batch) /\ Ordinary(batch)
  BY DEF FreelySendable, AllOrdinary, OpenInv, IInv, SInv, SenderTypeOK
<1>4. OpenInv /\ ReportInv /\ Init => Delivery!Init
  BY <1>3, InitDelivery DEF OpenInv
<1>5. OpenInv /\ NamesInv => Fresh
  BY <1>3, NoneEmptied DEF Ordinary
<1>6. OpenInv /\ OpenInv' /\ Fresh /\ Fresh' /\ ReportInv /\ ReportInv' /\ [Next]_vars
      => [Delivery!Next]_(Delivery!vars)
  BY <1>3, NextDelivery DEF OpenInv
<1> QED
  BY <1>1, <1>2, <1>4, <1>5, <1>6, Names, PTL DEF Spec, ImplementsDelivery, Delivery!Spec

\* The same under the priorities of the program.
THEOREM ScheduledDelivery ==
  ASSUME ScheduledSendable, AllOrdinary, ~CreatMayFail, ~CloseMayFail
  PROVE  PrioSpec => ImplementsDelivery
<1>1. Init => ReportInv
  BY InitReportInv
<1>2. OpenInv /\ OpenInv' /\ ReportInv /\ [PrioNext]_vars => ReportInv'
  BY NextReportInv, PrioStep DEF OpenInv
<1>3. OpenInv => AllOpenable(batch) /\ Ordinary(batch)
  BY DEF ScheduledSendable, AllOrdinary, OpenInv, IInv, SInv, SenderTypeOK
<1>4. OpenInv /\ ReportInv /\ Init => Delivery!Init
  BY <1>3, InitDelivery DEF OpenInv
<1>5. OpenInv /\ NamesInv => Fresh
  BY <1>3, NoneEmptied DEF Ordinary
<1>6. OpenInv /\ OpenInv' /\ Fresh /\ Fresh' /\ ReportInv /\ ReportInv' /\ [PrioNext]_vars
      => [Delivery!Next]_(Delivery!vars)
  BY <1>3, NextDelivery, PrioStep DEF OpenInv
<1> QED
  BY <1>1, <1>2, <1>4, <1>5, <1>6, ScheduledNames, PTL DEF PrioSpec, ImplementsDelivery, Delivery!Spec

-----------------------------------------------------------------------------
(* The same of the process from its start to its end.                      *)

\* The process ends because the log cannot be created or a file to send fails.
Ended == exited' = TRUE /\ UNCHANGED <<s2m, m2r, r2m, m2s, sVars, rVars, mVars>>

LEMMA ProgStep == [ProgNext]_<<vars, progVars>> => [Next]_vars \/ Ended
  BY DEF ProgNext, TransferStep, MediumStart, SourceFails, T2Close, Next, Ended, vars, wires

LEMMA EndedKeeps ==
  ASSUME IInv, DiskInv, Ended
  PROVE  DiskInv'
<1>1. /\ UNCHANGED <<s2m, m2r, r2m, m2s, sVars, rVars, mVars, rPc, rcvBlk, numLastGoodBlk, rFileD, rFiles>>
      /\ UNCHANGED <<batch, fileNameIndex, sPc, sFileD, sResult>> /\ exited'
  BY DEF Ended, rVars, sVars
<1>2. (Canceled' <=> Canceled) /\ (Acked' => Acked) /\ (FileOpen' <=> FileOpen)
  BY <1>1 DEF Canceled, Acked, FileOpen
<1>3. CASE Canceled
  <2>1. AfterCans'
    BY <1>1, <1>3 DEF DiskInv, DialogueInv, AfterCans
  <2>2. \A k : Complete(k)' <=> Complete(k)
    BY <1>1 DEF Complete, CreatedAgain
  <2>3. CanceledStore'
    BY <1>1, <1>2, <1>3, <2>2 DEF DiskInv, CanceledStore
  <2> QED
    BY <1>2, <1>3, <2>1, <2>3 DEF DiskInv, DialogueInv
<1>4. CASE ~Canceled
  <2>1. PInv /\ StoreInv
    BY <1>4 DEF DiskInv, DialogueInv
  <2>2. HeaderBlk' /\ FirstByte' /\ StopAndWait'
    BY <1>1, <2>1 DEF PInv, HeaderBlk, FirstByte, StopAndWait, sVars
  <2>3. PInv'
    BY <1>1, <2>2 DEF PInv
  <2>4. StoreInv'
    BY <1>1, <1>2, <2>1, SameStore
  <2> QED
    BY <1>2, <1>4, <2>3, <2>4 DEF DiskInv, DialogueInv
<1> QED
  BY <1>3, <1>4

\* Whatever the order in which the threads start, and with a log that cannot be
\* created and files to send that fail: the dialogue, and what is on the disk.
THEOREM ProgramStorage ==
  ASSUME FreelySafe
  PROVE  ProgSpec => [](IInv /\ DiskInv)
<1>1. ProgInit => DiskInv
  BY InitDisk DEF ProgInit
<1>2. IInv /\ DiskInv /\ [ProgNext]_<<vars, progVars>> => DiskInv'
  <2> SUFFICES ASSUME IInv, DiskInv, [ProgNext]_<<vars, progVars>> PROVE DiskInv'
    OBVIOUS
  <2>1. SafeBatch(batch)
    BY DEF FreelySafe, IInv, SInv, SenderTypeOK
  <2>2. CASE [Next]_vars
    <3>1. ~Canceled => Whole
      BY <2>1, SafeIsWhole DEF DiskInv, DialogueInv, PInv
    <3> QED
      BY <2>2, <3>1, NextDisk
  <2>3. CASE Ended
    BY <2>3, EndedKeeps
  <2> QED
    BY <2>2, <2>3, ProgStep
<1> QED
  BY <1>1, <1>2, AlwaysProgIInv, PTL DEF ProgSpec

\* As FilesArriveInOrder, of the process from its start to its end.
THEOREM ProgramInOrder ==
  ASSUME FreelySafe
  PROVE  ProgSpec => []InOrder
<1>1. IInv /\ DiskInv => InOrder
  BY StoredInOrder
<1> QED
  BY <1>1, ProgramStorage, PTL

\* As DoneIsNeverEarly, of the process from its start to its end.
THEOREM ProgramDone ==
  ASSUME FreelySafe
  PROVE  ProgSpec => []DoneMeansStored
<1>1. IInv /\ DiskInv => DoneMeansStored
  BY DoneIsStored
<1> QED
  BY <1>1, ProgramStorage, PTL

\* As Names, of the process from its start to its end.
THEOREM ProgramNames ==
  ASSUME FreelySendable
  PROVE  ProgSpec => [](OpenInv /\ NamesInv)
<1>1. IInv /\ DiskInv => OpenInv
  <2>1. IInv => AllOpenable(batch)
    BY DEF FreelySendable, IInv, SInv, SenderTypeOK
  <2> QED
    BY <2>1, OpenDisk DEF OpenInv
<1>2. OpenInv /\ OpenInv' /\ NamesInv /\ [ProgNext]_<<vars, progVars>> => NamesInv'
  <2> SUFFICES ASSUME NamesInv, Ended PROVE NamesInv'
    BY ProgStep, NextNames DEF OpenInv
  <2>1. UNCHANGED <<batch, sPc, rPc, rFiles>>
    BY DEF Ended, sVars, rVars
  <2> QED
    BY <2>1 DEF NamesInv, NamesOf
<1>3. ProgSpec => [](IInv /\ DiskInv)
  BY ProgramStorage DEF FreelySendable, FreelySafe
<1>4. ProgInit => NamesInv
  BY InitNames DEF ProgInit
<1> QED
  BY <1>1, <1>2, <1>3, <1>4, PTL DEF ProgSpec

\* As NoFileEmptied, of the process from its start to its end.
THEOREM ProgramNoFileEmptied ==
  ASSUME FreelySendable
  PROVE  ProgSpec => []NamesStayApart
<1>1. OpenInv /\ NamesInv => NamesStayApart
  BY NamesAreApart DEF OpenInv
<1> QED
  BY <1>1, ProgramNames, PTL

\* As ImplementsBatchDelivery, of the process from its start to its end.
THEOREM ProgramDelivery ==
  ASSUME FreelySendable, AllOrdinary, ~CreatMayFail, ~CloseMayFail
  PROVE  ProgSpec => ImplementsDelivery
<1>1. ProgInit => Init /\ ReportInv
  BY InitReportInv DEF ProgInit
<1>2. OpenInv /\ OpenInv' /\ ReportInv /\ [ProgNext]_<<vars, progVars>> => ReportInv'
  <2> SUFFICES ASSUME OpenInv, OpenInv', ReportInv, Ended PROVE ReportInv'
    BY ProgStep, NextReportInv DEF OpenInv
  <2>1. UNCHANGED <<batch, sPc, fileNameIndex, sResult, rResult, rPc>>
    BY DEF Ended, sVars, rVars
  <2> QED
    BY <2>1, Zenon DEF ReportInv, SenderReports, ReceiverReports, Dones
<1>3. OpenInv => AllOpenable(batch) /\ Ordinary(batch)
  BY DEF FreelySendable, AllOrdinary, OpenInv, IInv, SInv, SenderTypeOK
<1>4. OpenInv /\ ReportInv /\ Init => Delivery!Init
  BY <1>3, InitDelivery DEF OpenInv
<1>5. OpenInv /\ NamesInv => Fresh
  BY <1>3, NoneEmptied DEF Ordinary
<1>6. OpenInv /\ OpenInv' /\ Fresh /\ Fresh' /\ ReportInv /\ ReportInv'
      /\ [ProgNext]_<<vars, progVars>> => [Delivery!Next]_(Delivery!vars)
  <2> SUFFICES ASSUME Ended PROVE [Delivery!Next]_(Delivery!vars)
    BY <1>3, ProgStep, NextDelivery DEF OpenInv
  <2>1. UNCHANGED <<batch, sResult, rFiles, rResult>>
    BY DEF Ended, sVars, rVars
  <2>2. UNCHANGED <<OnTheDisk, Contents[batch], DoneCount(sResult), DoneCount(rResult)>>
    BY <2>1, SameDisk
  <2> QED
    BY <2>2 DEF Ended, Delivery!Next, Delivery!Fail
<1> QED
  BY <1>1, <1>2, <1>4, <1>5, <1>6, ProgramNames, PTL DEF ProgSpec, ImplementsDelivery, Delivery!Spec
=============================================================================
