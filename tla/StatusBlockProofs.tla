-------------------------- MODULE StatusBlockProofs --------------------------
(***************************************************************************)
(* Theorems about StatusBlock for every size of chunk, name and file.      *)
(***************************************************************************)
EXTENDS StatusBlock, FiniteSetTheorems, TLAPS

\* Where index is at each step.
IndexInv ==
  /\ nameLen \in Nat \cup {-1}
  /\ digits \in Nat \ {0}
  /\ index \in Nat
  /\ pc \in {"number", "name"} => index = DATA_POS
  /\ pc = "name" => nameLen \in Nat
  /\ pc = "size" => /\ nameLen \in Nat
                    /\ index = DATA_POS + nameLen + 1
                    /\ nameLen + 2 <= CHUNK_SZ
  /\ pc = "pad" => IF nameLen = -1
                   THEN index = DATA_POS
                   ELSE /\ index = DATA_POS + nameLen + digits + 2
                        /\ nameLen + digits + 1 <= CHUNK_SZ

\* The name, once it is copied, stays where it is.
NameInv ==
  pc \in {"size", "pad", "seal", "ready"} /\ nameLen \in Nat =>
     /\ \A i \in 0..(nameLen - 1) : Chunk(i) = "name"
     /\ nameLen < CHUNK_SZ /\ Chunk(nameLen) = "nul"

IInv == IndexInv /\ mem \in [Mem -> Kinds] /\ InsideTheBuffers /\ NameInv

-----------------------------------------------------------------------------
\* What a copy does: its n bytes, and no other, are of the new kind.
LEMMA PutWhere ==
  ASSUME NEW m \in [Mem -> Kinds], NEW at \in Int, NEW n \in Int, NEW kind \in Kinds
  PROVE  /\ Put(m, at, n, kind) \in [Mem -> Kinds]
         /\ \A i \in Mem : at <= i /\ i < at + n => Put(m, at, n, kind)[i] = kind
         /\ \A i \in Mem : ~(at <= i /\ i < at + n) => Put(m, at, n, kind)[i] = m[i]
  BY DEF Put

\* The bytes of the chunk are in the memory, and before its end.
LEMMA Layout ==
  /\ CHUNK_SZ \in Nat \ {0} /\ DATA_POS = 3 /\ BLK_SZ = CHUNK_SZ + 5
  /\ PAST = 3 * CHUNK_SZ + 15 /\ Mem = 0..(5 * CHUNK_SZ + 15)
  BY StatusAssumption DEF DATA_POS, BLK_SZ, PAST, Mem

LEMMA AllKinds == {"num", "name", "nul", "digit", "pad", "crc", "old", "other"} \subseteq Kinds
  BY DEF Kinds

LEMMA InitIInv == Init => IInv
<1> SUFFICES ASSUME Init PROVE IInv
  OBVIOUS
<1>1. IndexInv
  BY StatusAssumption DEF Init, IndexInv, DATA_POS
<1>2. mem \in [Mem -> Kinds] /\ InsideTheBuffers
  BY Layout, AllKinds DEF Init, InsideTheBuffers
<1>3. NameInv
  BY DEF Init, NameInv
<1> QED
  BY <1>1, <1>2, <1>3 DEF IInv

LEMMA PutNumberKeeps ==
  ASSUME IInv, PutNumber
  PROVE  IInv'
<1>1. IndexInv'
  BY DEF IInv, IndexInv, PutNumber
<1>2. mem' \in [Mem -> Kinds] /\ \A i \in Mem : i >= PAST => mem'[i] = mem[i]
  BY Layout, AllKinds, PutWhere DEF PutNumber, IInv
<1>3. NameInv'
  BY <1>1 DEF PutNumber, NameInv, IInv, IndexInv
<1> QED
  BY <1>1, <1>2, <1>3 DEF IInv, InsideTheBuffers

LEMMA CopyNameKeeps ==
  ASSUME IInv, CopyName
  PROVE  IInv'
<1> USE Layout, AllKinds
<1>1. CASE Exit
  BY <1>1 DEF CopyName, Exit, IInv, IndexInv, InsideTheBuffers, NameInv
<1>2. CASE ~Exit
  <2> DEFINE all == Put(mem, index, nameLen + 1, "nul")
  <2>1. /\ nameLen \in Nat /\ nameLen + 2 <= CHUNK_SZ /\ index = 3
        /\ mem' = Put(all, index, nameLen, "name") /\ index' = index + nameLen + 1
        /\ pc' = "size" /\ UNCHANGED <<nameLen, digits>>
    BY <1>2 DEF CopyName, IInv, IndexInv, TooLong, FileNameLengthPlus1
  <2>2. /\ all \in [Mem -> Kinds]
        /\ \A i \in Mem : 3 <= i /\ i <= 3 + nameLen => all[i] = "nul"
        /\ \A i \in Mem : i > 3 + nameLen => all[i] = mem[i]
    BY <2>1, PutWhere DEF IInv
  <2> HIDE DEF all
  <2>3. /\ mem' \in [Mem -> Kinds]
        /\ \A i \in Mem : 3 <= i /\ i < 3 + nameLen => mem'[i] = "name"
        /\ \A i \in Mem : i >= 3 + nameLen => mem'[i] = all[i]
    BY <2>1, <2>2, PutWhere
  <2>4. IndexInv'
    BY <2>1 DEF IInv, IndexInv
  <2>5. InsideTheBuffers'
    BY <2>1, <2>2, <2>3 DEF IInv, InsideTheBuffers
  <2>6. NameInv'
    BY <2>1, <2>2, <2>3 DEF NameInv, Chunk
  <2> QED
    BY <2>3, <2>4, <2>5, <2>6 DEF IInv
<1> QED
  BY <1>1, <1>2

LEMMA PutSizeKeeps ==
  ASSUME IInv, PutSize
  PROVE  IInv'
<1> USE Layout, AllKinds
<1>1. CASE Exit
  BY <1>1 DEF PutSize, Exit, IInv, IndexInv, InsideTheBuffers, NameInv
<1>2. CASE ~Exit
  <2> DEFINE n    == Printed(SpaceAvailable(index))
             some == Put(mem, index, n, "digit")
  <2>1. /\ nameLen \in Nat /\ digits \in Nat \ {0} /\ index = nameLen + 4
        /\ digits <= CHUNK_SZ + 3 - index
        /\ mem' = Put(some, index + n, 1, "nul") /\ index' = index + digits + 1
        /\ pc' = "pad" /\ UNCHANGED <<nameLen, digits>>
    BY <1>2 DEF PutSize, IInv, IndexInv, SpaceAvailable
  <2>2. n \in Nat /\ n < CHUNK_SZ + 3 - index
    BY <2>1 DEF Printed, SpaceAvailable
  <2> HIDE DEF n
  <2>3. /\ some \in [Mem -> Kinds]
        /\ \A i \in Mem : i < index \/ i >= index + n => some[i] = mem[i]
    BY <2>1, <2>2, PutWhere DEF IInv
  <2> HIDE DEF some
  <2>4. /\ mem' \in [Mem -> Kinds]
        /\ \A i \in Mem : i < index + n \/ i > index + n => mem'[i] = some[i]
    BY <2>1, <2>2, <2>3, PutWhere
  <2>5. \A i \in Mem : i < index \/ i >= CHUNK_SZ + 3 => mem'[i] = mem[i]
    BY <2>1, <2>2, <2>3, <2>4
  <2>6. IndexInv'
    BY <2>1 DEF IInv, IndexInv
  <2>7. InsideTheBuffers'
    BY <2>5 DEF IInv, InsideTheBuffers
  <2>8. NameInv'
    BY <2>1, <2>5 DEF IInv, IndexInv, NameInv, Chunk, PutSize
  <2> QED
    BY <2>4, <2>6, <2>7, <2>8 DEF IInv
<1> QED
  BY <1>1, <1>2

\* The one write that can leave the block: padSize wraps to 255 when index is
\* one past the chunk, and 255 bytes from there end inside blkBufs.
LEMMA PadKeeps ==
  ASSUME CHUNK_SZ >= 122, IInv, Pad
  PROVE  IInv'
<1> USE Layout, AllKinds
<1> DEFINE n == PadSize(index)
<1>1. /\ mem' = Put(mem, index, n, "pad") /\ pc' = "seal" /\ pc = "pad"
      /\ UNCHANGED <<nameLen, digits, index>>
  BY DEF Pad
<1>2. index \in Nat /\ 3 <= index /\ index <= CHUNK_SZ + 4
  BY <1>1 DEF IInv, IndexInv
<1>3. n \in 0..255
  BY <1>2 DEF PadSize
<1> HIDE DEF n
<1>4. /\ mem' \in [Mem -> Kinds]
      /\ \A i \in Mem : i < index \/ i >= index + n => mem'[i] = mem[i]
  BY <1>1, <1>2, <1>3, PutWhere DEF IInv
<1>5. InsideTheBuffers'
  BY <1>2, <1>3, <1>4 DEF IInv, InsideTheBuffers
<1>6. IndexInv'
  BY <1>1 DEF IInv, IndexInv
<1>7. NameInv'
  BY <1>1, <1>4 DEF IInv, IndexInv, NameInv, Chunk
<1> QED
  BY <1>4, <1>5, <1>6, <1>7 DEF IInv

LEMMA SealKeeps ==
  ASSUME IInv, Seal
  PROVE  IInv'
<1> USE Layout, AllKinds
<1> DEFINE first == Put(mem, 0, 1, "num")
<1>1. /\ mem' = Put(first, 3 + CHUNK_SZ, 2, "crc") /\ pc = "seal" /\ pc' = "ready"
      /\ UNCHANGED <<nameLen, digits, index>>
  BY DEF Seal
<1>2. first \in [Mem -> Kinds] /\ \A i \in Mem : i >= 1 => first[i] = mem[i]
  BY PutWhere DEF IInv
<1> HIDE DEF first
<1>3. /\ mem' \in [Mem -> Kinds]
      /\ \A i \in Mem : i < 3 + CHUNK_SZ \/ i >= 5 + CHUNK_SZ => mem'[i] = first[i]
  BY <1>1, <1>2, PutWhere
<1>4. InsideTheBuffers' /\ IndexInv'
  BY <1>1, <1>2, <1>3 DEF IInv, IndexInv, InsideTheBuffers
<1>5. NameInv'
  BY <1>1, <1>2, <1>3 DEF IInv, NameInv, Chunk
<1> QED
  BY <1>3, <1>4, <1>5 DEF IInv

LEMMA NextIInv == CHUNK_SZ >= 122 /\ IInv /\ [Next]_sbVars => IInv'
<1> SUFFICES ASSUME CHUNK_SZ >= 122, IInv, [Next]_sbVars PROVE IInv'
  OBVIOUS
<1>1. CASE UNCHANGED sbVars
  BY <1>1 DEF sbVars, IInv, IndexInv, InsideTheBuffers, NameInv, Chunk
<1> QED
  BY <1>1, PutNumberKeeps, CopyNameKeeps, PutSizeKeeps, PadKeeps, SealKeeps DEF Next

LEMMA AlwaysIInv == CHUNK_SZ >= 122 => (Spec => []IInv)
<1> SUFFICES ASSUME CHUNK_SZ >= 122 PROVE Spec => []IInv
  OBVIOUS
<1>1. IInv /\ [Next]_sbVars => IInv'
  BY NextIInv
<1> QED
  BY InitIInv, <1>1, PTL DEF Spec

\* genStatBlk never writes past blkBufs, whatever the name and the size: the
\* overrun of the padding, when they fill the block exactly, stays inside as
\* long as a chunk has at least 122 bytes (SenderY.cpp:126-127).
THEOREM WritesStayInside == CHUNK_SZ >= 122 => (Spec => []InsideTheBuffers)
<1>1. IInv => InsideTheBuffers
  BY DEF IInv
<1> QED
  BY <1>1, AlwaysIInv, PTL

\* The receiver finds the base name as a C string at the start of the chunk.
THEOREM NameAlwaysArrives == CHUNK_SZ >= 122 => (Spec => []NameArrives)
<1>1. IInv => NameArrives
  BY DEF IInv, IndexInv, NameInv, NameArrives
<1> QED
  BY <1>1, AlwaysIInv, PTL

-----------------------------------------------------------------------------
\* What has been written at each step: everything before index that is in the
\* block, and after the padding the whole block but its ends.
FilledInv ==
  \A i \in Mem :
    /\ pc \in {"name", "size", "pad"} /\ 1 <= i /\ i < index /\ i < DATA_POS + CHUNK_SZ
         => mem[i] # "old"
    /\ pc = "seal" /\ 1 <= i /\ i < DATA_POS + CHUNK_SZ => mem[i] # "old"
    /\ pc = "ready" /\ i < BLK_SZ => mem[i] # "old"

\* The digits that snprintf leaves of the size, and their place.
DigitsPut == IF nameLen + digits = CHUNK_SZ - 1 THEN digits - 1 ELSE digits
DigitInv ==
  /\ pc \in {"number", "name", "size"} => \A i \in Mem : mem[i] # "digit"
  /\ pc \in {"pad", "seal", "ready"} /\ nameLen \in Nat =>
       /\ nameLen + digits + 1 <= CHUNK_SZ
       /\ \A i \in Mem : mem[i] = "digit" <=> i \in (nameLen + 4)..(nameLen + 3 + DigitsPut)

LEMMA PutNumberFills ==
  ASSUME IInv, PutNumber
  PROVE  FilledInv' /\ (DigitInv => DigitInv')
<1> USE Layout, AllKinds
<1>1. /\ mem' = Put(mem, 1, 2, "num") /\ pc = "number" /\ pc' \in {"name", "pad"}
      /\ pc' = "name" <=> nameLen >= 0
      /\ index = 3 /\ UNCHANGED <<nameLen, digits, index>>
      /\ nameLen \in Nat \cup {-1}
  BY DEF PutNumber, IInv, IndexInv
<1>2. /\ \A i \in Mem : 1 <= i /\ i < 3 => mem'[i] = "num"
      /\ \A i \in Mem : mem'[i] = "num" \/ mem'[i] = mem[i]
  BY PutWhere DEF PutNumber, IInv
<1>3. FilledInv'
  BY <1>1, <1>2 DEF FilledInv
<1>4. DigitInv => DigitInv'
  BY <1>1, <1>2 DEF DigitInv
<1> QED
  BY <1>3, <1>4

LEMMA CopyNameFills ==
  ASSUME IInv, FilledInv, CopyName
  PROVE  FilledInv' /\ (DigitInv => DigitInv')
<1> USE Layout, AllKinds
<1>1. CASE Exit
  BY <1>1 DEF CopyName, Exit, FilledInv, DigitInv
<1>2. CASE ~Exit
  <2> DEFINE all == Put(mem, index, nameLen + 1, "nul")
  <2>1. /\ nameLen \in Nat /\ index = 3 /\ pc = "name"
        /\ mem' = Put(all, index, nameLen, "name") /\ index' = index + nameLen + 1
        /\ pc' = "size"
    BY <1>2 DEF CopyName, IInv, IndexInv, TooLong, FileNameLengthPlus1
  <2>2. /\ all \in [Mem -> Kinds]
        /\ \A i \in Mem : 3 <= i /\ i < 3 + nameLen + 1 => all[i] = "nul"
        /\ \A i \in Mem : ~(3 <= i /\ i < 3 + nameLen + 1) => all[i] = mem[i]
    BY <2>1, PutWhere DEF IInv
  <2> HIDE DEF all
  <2>3. \A i \in Mem : mem'[i] = "name" \/ mem'[i] = all[i]
    BY <2>1, <2>2, PutWhere
  <2>4. FilledInv'
    BY <2>1, <2>2, <2>3 DEF FilledInv
  <2>5. DigitInv => DigitInv'
    BY <2>1, <2>2, <2>3 DEF DigitInv
  <2> QED
    BY <2>4, <2>5
<1> QED
  BY <1>1, <1>2

LEMMA PutSizeFills ==
  ASSUME IInv, FilledInv, PutSize
  PROVE  FilledInv' /\ (DigitInv => DigitInv')
<1> USE Layout, AllKinds
<1>1. CASE Exit
  BY <1>1 DEF PutSize, Exit, FilledInv, DigitInv
<1>2. CASE ~Exit
  <2> DEFINE n    == Printed(SpaceAvailable(index))
             some == Put(mem, index, n, "digit")
  <2>1. /\ nameLen \in Nat /\ digits \in Nat \ {0} /\ index = nameLen + 4 /\ pc = "size"
        /\ digits <= CHUNK_SZ + 3 - index
        /\ mem' = Put(some, index + n, 1, "nul") /\ index' = index + digits + 1
        /\ pc' = "pad" /\ UNCHANGED <<nameLen, digits>>
    BY <1>2 DEF PutSize, IInv, IndexInv, SpaceAvailable
  <2>2. n \in Nat /\ n = DigitsPut /\ (n = digits \/ (n = digits - 1 /\ index + n = CHUNK_SZ + 2))
    BY <2>1 DEF Printed, SpaceAvailable, DigitsPut
  <2> HIDE DEF n
  <2>3. /\ some \in [Mem -> Kinds]
        /\ \A i \in Mem : index <= i /\ i < index + n => some[i] = "digit"
        /\ \A i \in Mem : ~(index <= i /\ i < index + n) => some[i] = mem[i]
    BY <2>1, <2>2, PutWhere DEF IInv
  <2> HIDE DEF some
  <2>4. /\ \A i \in Mem : i # index + n => mem'[i] = some[i]
        /\ \A i \in Mem : i = index + n => mem'[i] = "nul"
    BY <2>1, <2>2, <2>3, PutWhere
  <2>5. FilledInv'
    BY <2>1, <2>2, <2>3, <2>4 DEF FilledInv
  <2>6. ASSUME DigitInv PROVE DigitInv'
    <3>1. DigitsPut' = DigitsPut
      BY <2>1 DEF DigitsPut
    <3>2. \A i \in Mem : mem'[i] = "digit" <=> index <= i /\ i < index + n
      BY <2>1, <2>2, <2>3, <2>4, <2>6 DEF DigitInv
    <3> QED
      BY <2>1, <2>2, <3>1, <3>2 DEF DigitInv
  <2> QED
    BY <2>5, <2>6
<1> QED
  BY <1>1, <1>2

\* A chunk of more than 255 bytes would not be filled: padSize is a uint8_t.
LEMMA PadFills ==
  ASSUME IInv, FilledInv, Pad
  PROVE  (CHUNK_SZ <= 255 => FilledInv') /\ (DigitInv => DigitInv')
<1> USE Layout, AllKinds
<1> DEFINE n == PadSize(index)
<1>1. /\ mem' = Put(mem, index, n, "pad") /\ pc' = "seal" /\ pc = "pad"
      /\ UNCHANGED <<nameLen, digits, index>>
  BY DEF Pad
<1>2. /\ index \in Nat /\ 3 <= index /\ index <= CHUNK_SZ + 4 /\ digits \in Nat \ {0}
      /\ nameLen \in Nat => index = nameLen + digits + 5
  BY <1>1 DEF IInv, IndexInv
<1>3. n \in 0..255 /\ (CHUNK_SZ <= 255 /\ index <= CHUNK_SZ + 3 => n = CHUNK_SZ + 3 - index)
  BY <1>2 DEF PadSize
<1> HIDE DEF n
<1>4. /\ \A i \in Mem : index <= i /\ i < index + n => mem'[i] = "pad"
      /\ \A i \in Mem : ~(index <= i /\ i < index + n) => mem'[i] = mem[i]
  BY <1>1, <1>2, <1>3, PutWhere DEF IInv
<1>5. ASSUME CHUNK_SZ <= 255 PROVE FilledInv'
  <2>1. ASSUME NEW i \in Mem, 1 <= i, i < 3 + CHUNK_SZ PROVE mem'[i] # "old"
    <3>1. CASE i < index
      BY <1>1, <1>2, <1>4, <2>1, <3>1 DEF FilledInv
    <3>2. CASE i >= index
      BY <1>2, <1>3, <1>4, <1>5, <2>1, <3>2
    <3> QED
      BY <1>2, <3>1, <3>2
  <2> QED
    BY <1>1, <2>1 DEF FilledInv
<1>6. ASSUME DigitInv PROVE DigitInv'
  <2> SUFFICES ASSUME nameLen \in Nat
               PROVE  /\ nameLen + digits + 1 <= CHUNK_SZ
                      /\ \A i \in Mem : mem'[i] = "digit"
                           <=> i \in (nameLen + 4)..(nameLen + 3 + DigitsPut)
    BY <1>1 DEF DigitInv, DigitsPut
  <2>1. /\ nameLen + digits + 1 <= CHUNK_SZ
        /\ \A i \in Mem : mem[i] = "digit" <=> i \in (nameLen + 4)..(nameLen + 3 + DigitsPut)
    BY <1>1, <1>6 DEF DigitInv
  <2>2. nameLen + 3 + DigitsPut < index
    BY <1>2 DEF DigitsPut
  <2> HIDE DEF DigitsPut
  <2>3. DigitsPut \in Int
    BY <1>2 DEF DigitsPut
  <2>4. \A i \in Mem : mem'[i] = mem[i] \/ (mem'[i] = "pad" /\ i >= index)
    BY <1>2, <1>3, <1>4
  <2>5. \A i \in Mem : i >= index => i \notin (nameLen + 4)..(nameLen + 3 + DigitsPut)
    BY <1>2, <2>2, <2>3
  <2> QED
    BY <2>1, <2>4, <2>5
<1> QED
  BY <1>5, <1>6

LEMMA SealFills ==
  ASSUME IInv, FilledInv, Seal
  PROVE  FilledInv' /\ (DigitInv => DigitInv')
<1> USE Layout, AllKinds
<1> DEFINE first == Put(mem, 0, 1, "num")
<1>1. /\ mem' = Put(first, 3 + CHUNK_SZ, 2, "crc") /\ pc = "seal" /\ pc' = "ready"
      /\ UNCHANGED <<nameLen, digits, index>>
  BY DEF Seal
<1>2. /\ first \in [Mem -> Kinds]
      /\ \A i \in Mem : i >= 1 => first[i] = mem[i]
      /\ \A i \in Mem : i = 0 => first[i] = "num"
  BY PutWhere DEF IInv
<1> HIDE DEF first
<1>3. /\ \A i \in Mem : 3 + CHUNK_SZ <= i /\ i < 5 + CHUNK_SZ => mem'[i] = "crc"
      /\ \A i \in Mem : ~(3 + CHUNK_SZ <= i /\ i < 5 + CHUNK_SZ) => mem'[i] = first[i]
  BY <1>1, <1>2, PutWhere
<1>4. FilledInv'
  BY <1>1, <1>2, <1>3 DEF FilledInv
<1>5. ASSUME DigitInv PROVE DigitInv'
  <2> SUFFICES ASSUME nameLen \in Nat
               PROVE  /\ nameLen + digits + 1 <= CHUNK_SZ
                      /\ \A i \in Mem : mem'[i] = "digit"
                           <=> i \in (nameLen + 4)..(nameLen + 3 + DigitsPut)
    BY <1>1 DEF DigitInv, DigitsPut
  <2>1. /\ nameLen + digits + 1 <= CHUNK_SZ
        /\ \A i \in Mem : mem[i] = "digit" <=> i \in (nameLen + 4)..(nameLen + 3 + DigitsPut)
    BY <1>1, <1>5 DEF DigitInv
  <2>2. /\ nameLen + 3 + DigitsPut < CHUNK_SZ + 3
        /\ DigitsPut \in Int
    BY <2>1 DEF DigitsPut, IInv, IndexInv
  <2>3. ASSUME NEW i \in Mem
        PROVE  mem'[i] = "digit" <=> mem[i] = "digit"
    <3>1. CASE i = 0 \/ i >= CHUNK_SZ + 3
      <4>1. mem'[i] # "digit" \/ mem'[i] = mem[i]
        BY <1>2, <1>3, <3>1
      <4>2. i \notin (nameLen + 4)..(nameLen + 3 + DigitsPut)
        BY <2>2, <3>1
      <4> QED
        BY <2>1, <4>1, <4>2
    <3>2. CASE i # 0 /\ i < CHUNK_SZ + 3
      BY <1>2, <1>3, <3>2
    <3> QED
      BY <3>1, <3>2
  <2> QED
    BY <2>1, <2>3
<1> QED
  BY <1>4, <1>5

LEMMA InitFills == Init => FilledInv /\ DigitInv
  BY Layout DEF Init, FilledInv, DigitInv

LEMMA NextFills ==
  ASSUME CHUNK_SZ <= 255, IInv, FilledInv, DigitInv, [Next]_sbVars
  PROVE  FilledInv' /\ DigitInv'
<1>1. CASE UNCHANGED sbVars
  BY <1>1 DEF sbVars, FilledInv, DigitInv, DigitsPut
<1> QED
  BY <1>1, PutNumberFills, CopyNameFills, PutSizeFills, PadFills, SealFills DEF Next

LEMMA AlwaysFilled == CHUNK_SZ \in 122..255 => (Spec => [](IInv /\ FilledInv /\ DigitInv))
<1> SUFFICES ASSUME CHUNK_SZ \in 122..255 PROVE Spec => [](IInv /\ FilledInv /\ DigitInv)
  OBVIOUS
<1>1. CHUNK_SZ >= 122 /\ CHUNK_SZ <= 255
  OBVIOUS
<1>2. IInv /\ FilledInv /\ DigitInv /\ [Next]_sbVars => FilledInv' /\ DigitInv'
  BY <1>1, NextFills
<1>3. Spec => []IInv
  BY <1>1, AlwaysIInv
<1> QED
  BY InitFills, <1>2, <1>3, PTL DEF Spec

\* No byte of a status block goes out with what another block left in the
\* buffer: number, name, size, padding and CRC leave no gap, as long as the
\* padding can be counted in a uint8_t (SenderY.cpp:88-137).
THEOREM NothingStaleGoesOut == CHUNK_SZ \in 122..255 => (Spec => []NothingStale)
<1>1. FilledInv => NothingStale
  BY Layout DEF FilledInv, NothingStale
<1> QED
  BY <1>1, AlwaysFilled, PTL

\* The size goes out whole, or without its last digit when the name and the
\* size fill the chunk exactly, and in no other case (SenderY.cpp:112-120).
THEOREM SizeIsCutOnce == CHUNK_SZ \in 122..255 => (Spec => []SizeCutOnlyWhenFull)
<1>1. IInv /\ DigitInv => SizeCutOnlyWhenFull
  <2> SUFFICES ASSUME IInv, DigitInv, pc = "ready", nameLen >= 0
               PROVE  Cardinality({i \in Mem : mem[i] = "digit"}) = DigitsPut
    BY DEF SizeCutOnlyWhenFull, DigitsPut
  <2>1. nameLen \in Nat /\ digits \in Nat \ {0}
    BY DEF IInv, IndexInv
  <2>2. /\ nameLen + digits + 1 <= CHUNK_SZ
        /\ \A i \in Mem : mem[i] = "digit" <=> i \in (nameLen + 4)..(nameLen + 3 + DigitsPut)
    BY <2>1 DEF DigitInv
  <2>3. DigitsPut \in Nat /\ nameLen + 3 + DigitsPut <= CHUNK_SZ + 2
    BY <2>1, <2>2, Layout DEF DigitsPut
  <2> HIDE DEF DigitsPut
  <2>4. \A i \in (nameLen + 4)..(nameLen + 3 + DigitsPut) : i \in Mem
    BY <2>1, <2>3, Layout
  <2>5. {i \in Mem : mem[i] = "digit"} = (nameLen + 4)..(nameLen + 3 + DigitsPut)
    BY <2>2, <2>4
  <2> DEFINE a == nameLen + 4
             b == nameLen + 3 + DigitsPut
  <2>6. a \in Int /\ b \in Int /\ (IF a > b THEN 0 ELSE b - a + 1) = DigitsPut
    BY <2>1, <2>3
  <2> HIDE DEF a, b
  <2>7. Cardinality(a..b) = IF a > b THEN 0 ELSE b - a + 1
    BY <2>6, FS_Interval
  <2> QED
    BY <2>5, <2>6, <2>7 DEF a, b
<1> QED
  BY <1>1, AlwaysFilled, PTL
=============================================================================
