--------------------------- MODULE YProtocolProofs ---------------------------
(***************************************************************************)
(* The dialogue of YProtocol is an invariant, whatever is damaged, NAKed,  *)
(* resent or fails, for every batch that can be sent: with free            *)
(* interleaving if the blocks end safely, and under the priorities of the  *)
(* program if those do that may be cut in two by a wait for the disk.      *)
(* First the lemmas about what is on its way between the peers: a block    *)
(* that is damaged is not good, how a block travels, how the replies do.   *)
(***************************************************************************)
EXTENDS YSystemProofs

-----------------------------------------------------------------------------
(* Blocks.                                                                 *)

LEMMA BlkSz == BLK_SZ \in Nat /\ BLK_SZ = CHUNK_SZ + 5 /\ BLK_SZ >= 7 /\ REST_BLK_SZ = BLK_SZ - 1
  BY ChunkSzAssumption DEF BLK_SZ, DATA_POS, REST_BLK_SZ

LEMMA BlkEnd ==
  /\ (BLK_SZ - 1) + 1 = BLK_SZ
  /\ BLK_SZ - ((BLK_SZ - 1) + 1) = 0
  /\ BLK_SZ - BLK_SZ = 0
  BY BlkSz

LEMMA BeforeLast ==
  ASSUME NEW got \in {0, 1}, NEW i \in 1..(BLK_SZ - got), got + i # BLK_SZ
  PROVE  i \in 1..((BLK_SZ - 1) - got)
  BY BlkSz

\* What stands where in a block.
LEMMA MakeBlkBytes ==
  ASSUME NEW num \in Byte, NEW chunk \in Chunk
  PROVE  LET blk == MakeBlk(num, chunk)
         IN /\ blk \in Block
            /\ blk[1] = SOH /\ blk[2] = num /\ blk[3] = Complement(num)
            /\ ChunkOf(blk) = chunk
            /\ CrcOf(blk) = Crc[chunk]
<1> DEFINE head  == <<SOH, num, Complement(num)>>
           front == head \o chunk
           back  == Crc[chunk]
           blk   == MakeBlk(num, chunk)
<1>1. /\ back \in Byte \X Byte
      /\ back \in Seq(Byte) /\ Len(back) = 2
  <2>1. back \in Byte \X Byte
    BY CrcAssumption
  <2>2. PICK a \in Byte, b \in Byte : back = <<a, b>>
    BY <2>1
  <2>3. <<a, b>> \in Seq(Byte) /\ Len(<<a, b>>) = 2
    OBVIOUS
  <2> QED
    BY <2>1, <2>2, <2>3
<1>2. chunk \in Seq(Byte) /\ Len(chunk) = CHUNK_SZ
  BY ChunkSzAssumption DEF Chunk
<1>3. /\ head \in Seq(Byte) /\ Len(head) = 3
      /\ head[1] = SOH /\ head[2] = num /\ head[3] = Complement(num)
  BY DEF SOH, Complement, Byte
<1>4. /\ front \in Seq(Byte) /\ Len(front) = 3 + CHUNK_SZ
      /\ \A i \in 1..3 : front[i] = head[i]
      /\ \A i \in 1..CHUNK_SZ : front[3 + i] = chunk[i]
  <2> HIDE DEF head
  <2>1. front \in Seq(Byte) /\ Len(front) = Len(head) + Len(chunk)
        /\ \A i \in 1..(Len(head) + Len(chunk)) :
             front[i] = IF i <= Len(head) THEN head[i] ELSE chunk[i - Len(head)]
    BY <1>2, <1>3, ConcatProperties
  <2> QED
    BY <1>2, <1>3, <2>1, ChunkSzAssumption
<1>5. blk = front \o back
  BY DEF MakeBlk
<1>6. \A i \in 1..((3 + CHUNK_SZ) + 2) :
        blk[i] = IF i <= 3 + CHUNK_SZ THEN front[i] ELSE back[i - (3 + CHUNK_SZ)]
  <2> HIDE DEF front, back, blk
  <2>1. \A i \in 1..(Len(front) + Len(back)) :
          (front \o back)[i] = IF i <= Len(front) THEN front[i] ELSE back[i - Len(front)]
    BY <1>1, <1>4, ConcatProperties
  <2> QED
    BY <1>1, <1>4, <1>5, <2>1
<1> HIDE DEF head, front, back, blk
<1>7. blk[1] = SOH /\ blk[2] = num /\ blk[3] = Complement(num)
  <2>1. \A i \in 1..3 : blk[i] = head[i]
    <3>1. \A i \in 1..3 : i \in 1..((3 + CHUNK_SZ) + 2) /\ i <= 3 + CHUNK_SZ
      BY ChunkSzAssumption, SMT
    <3> QED
      BY <1>4, <1>6, <3>1
  <2> QED
    BY <1>3, <2>1
<1>8. \A i \in 1..CHUNK_SZ : blk[3 + i] = chunk[i]
  BY <1>4, <1>6, ChunkSzAssumption
<1>9. blk[4 + CHUNK_SZ] = back[1] /\ blk[5 + CHUNK_SZ] = back[2]
  BY <1>6, ChunkSzAssumption
<1>10. ChunkOf(blk) = chunk
  BY <1>8 DEF ChunkOf, DATA_POS, Chunk
<1>11. CrcOf(blk) = back
  <2>1. CrcOf(blk) = <<back[1], back[2]>>
    BY <1>9, ChunkSzAssumption DEF CrcOf, BLK_SZ, DATA_POS
  <2> QED
    BY <1>1, <2>1
<1> QED
  BY <1>7, <1>10, <1>11, MakeBlkType DEF blk, back

\* A block of which one byte was damaged is not good: the CRC gives a byte of
\* the data or of the CRC away, the complement gives the number away.
LEMMA GoodIsWhole ==
  ASSUME NEW num \in Byte, NEW chunk \in Chunk, NEW x \in {0} \cup 2..BLK_SZ,
         GoodBlk(Hit(MakeBlk(num, chunk), x))
  PROVE  Hit(MakeBlk(num, chunk), x) = MakeBlk(num, chunk)
<1> DEFINE blk == MakeBlk(num, chunk)
           hit == Hit(blk, x)
<1>1. /\ blk \in Block
      /\ blk[2] = num /\ blk[3] = Complement(num)
      /\ ChunkOf(blk) = chunk /\ CrcOf(blk) = Crc[chunk]
  BY MakeBlkBytes
<1>2. /\ Complement(hit[3]) = hit[2]
      /\ Crc[ChunkOf(hit)] = CrcOf(hit)
  BY DEF GoodBlk
<1>3. \A i \in 1..BLK_SZ : hit[i] = IF i = x THEN Complement(blk[i]) ELSE blk[i]
  BY DEF Hit
<1> HIDE DEF blk, hit
<1>4. CASE x = 0
  <2>1. \A i \in 1..BLK_SZ : hit[i] = blk[i]
    BY <1>3, <1>4, BlkSz
  <2> QED
    BY <1>1, <2>1 DEF hit, Hit, Block, blk
<1>5. CASE x \in {2, 3}
  <2>1. 2 \in 1..BLK_SZ /\ 3 \in 1..BLK_SZ
    BY BlkSz
  <2>2. x = 2 => hit[2] = 255 - num /\ hit[3] = 255 - num
    BY <1>1, <1>3, <2>1 DEF Complement
  <2>3. x = 3 => hit[2] = num /\ hit[3] = 255 - (255 - num)
    BY <1>1, <1>3, <2>1 DEF Complement
  <2>4. Complement(hit[3]) = 255 - hit[3]
    BY DEF Complement
  <2> QED
    BY <1>2, <1>5, <2>2, <2>3, <2>4 DEF Byte
<1>6. CASE x \in 4..(BLK_SZ - 2)
  <2> DEFINE i == x - 3
  <2>1. i \in 1..CHUNK_SZ
    BY <1>6, BlkSz, ChunkSzAssumption
  <2>2. ChunkOf(hit) = [chunk EXCEPT ![i] = Complement(chunk[i])]
    <3>1. \A j \in 1..CHUNK_SZ : chunk[j] = blk[3 + j]
      BY <1>1 DEF ChunkOf, DATA_POS
    <3>2. \A j \in 1..CHUNK_SZ :
            hit[3 + j] = IF j = i THEN Complement(chunk[j]) ELSE chunk[j]
      <4> TAKE j \in 1..CHUNK_SZ
      <4>1. 3 + j \in 1..BLK_SZ /\ (3 + j = x <=> j = i)
        BY <1>6, BlkSz, ChunkSzAssumption
      <4> QED
        BY <1>3, <3>1, <4>1
    <3> HIDE DEF i
    <3> QED
      BY <2>1, <3>2 DEF ChunkOf, DATA_POS, Chunk
  <2>3. CrcOf(hit) = CrcOf(blk)
    <3>1. /\ BLK_SZ \in 1..BLK_SZ /\ BLK_SZ - 1 \in 1..BLK_SZ
          /\ x # BLK_SZ /\ x # BLK_SZ - 1
      BY <1>6, BlkSz
    <3> QED
      BY <1>3, <3>1 DEF CrcOf
  <2> QED
    BY <1>1, <1>2, <2>1, <2>2, <2>3, CrcAssumption
<1>7. CASE x \in {BLK_SZ - 1, BLK_SZ}
  <2>1. ChunkOf(hit) = chunk
    <3>1. \A j \in 1..CHUNK_SZ : 3 + j \in 1..BLK_SZ /\ 3 + j # x
      BY <1>7, BlkSz, ChunkSzAssumption
    <3>2. ChunkOf(hit) = ChunkOf(blk)
      BY <1>3, <3>1 DEF ChunkOf, DATA_POS
    <3> QED
      BY <1>1, <3>2
  <2>2. CrcOf(hit) # CrcOf(blk)
    <3>1. BLK_SZ \in 1..BLK_SZ /\ BLK_SZ - 1 \in 1..BLK_SZ
      BY BlkSz
    <3>2. blk[x] \in 0..255 /\ hit[x] = 255 - blk[x]
      BY <1>1, <1>3, <1>7, <3>1 DEF Block, Byte, Complement
    <3>3. hit[x] # blk[x]
      BY <3>2
    <3> QED
      BY <1>7, <3>3 DEF CrcOf
  <2> QED
    BY <1>1, <1>2, <2>1, <2>2
<1> QED
  BY <1>4, <1>5, <1>6, <1>7, BlkSz

-----------------------------------------------------------------------------
(* A block on its way.                                                     *)

LEMMA ComplementType == \A b \in Byte : Complement(b) \in Byte
  BY DEF Byte, Complement

LEMMA HitType ==
  ASSUME NEW blk \in Block, NEW x
  PROVE  /\ Hit(blk, x) \in Block
         /\ \A i \in 1..BLK_SZ :
              Hit(blk, x)[i] = IF i = x THEN Complement(blk[i]) ELSE blk[i]
<1>1. \A i \in 1..BLK_SZ : blk[i] \in Byte
  BY DEF Block
<1> QED
  BY <1>1, ComplementType DEF Hit, Block

\* The medium never damages the first byte of a block.
LEMMA HitFirst ==
  ASSUME NEW blk \in Block, NEW x \in {0} \cup 2..BLK_SZ
  PROVE  Hit(blk, x)[1] = blk[1]
<1>1. 1 \in 1..BLK_SZ /\ 1 # x
  BY BlkSz
<1> QED
  BY <1>1, HitType

\* Two queues one after the other, byte by byte.
LEMMA ConcatAt ==
  ASSUME NEW s \in Seq(Byte), NEW t \in Seq(Byte)
  PROVE  /\ s \o t \in Seq(Byte)
         /\ Len(s \o t) = Len(s) + Len(t)
         /\ \A i \in 1..Len(s) : (s \o t)[i] = s[i]
         /\ \A i \in 1..Len(t) : (s \o t)[Len(s) + i] = t[i]
<1>1. Len(s) \in Nat /\ Len(t) \in Nat
  BY LenProperties
<1>2. /\ s \o t \in Seq(Byte)
      /\ Len(s \o t) = Len(s) + Len(t)
      /\ \A i \in 1..(Len(s) + Len(t)) :
            (s \o t)[i] = IF i <= Len(s) THEN s[i] ELSE t[i - Len(s)]
  BY ConcatProperties
<1> QED
  BY <1>1, <1>2

\* sendMostBlk puts a block on its way.
LEMMA TravelStarts ==
  ASSUME NEW blk \in Block
  PROVE  Travels(blk, 0, BLK_SZ - 1, MostOf(blk), <<>>, "first")
<1>1. \A i \in 1..(BLK_SZ - 1) : blk[i] \in Byte
  BY BlkSz DEF Block
<1>2. /\ Len(MostOf(blk)) = BLK_SZ - 1
      /\ \A i \in 1..(BLK_SZ - 1) : MostOf(blk)[i] = blk[i]
  <2>1. /\ Len(SubSeq(blk, 1, BLK_SZ - 1)) = IF 1 <= BLK_SZ - 1 THEN (BLK_SZ - 1) - 1 + 1 ELSE 0
        /\ \A i \in 1..((BLK_SZ - 1) - 1 + 1) : SubSeq(blk, 1, BLK_SZ - 1)[i] = blk[1 + i - 1]
    BY <1>1, BlkSz, SubSeqProperties
  <2> QED
    BY <2>1, BlkSz DEF MostOf
<1>3. /\ 0 <= 0 /\ 0 <= BLK_SZ - 1 /\ 0 # BLK_SZ - 1
      /\ "first" = IF 0 = 1 THEN "soh" ELSE "first"
      /\ Len(MostOf(blk)) = (BLK_SZ - 1) - 0
      /\ \A i \in 1..((BLK_SZ - 1) - 0) : MostOf(blk)[i] = blk[0 + i]
      /\ Len(<<>>) = 0 - 0
      /\ \A i \in 1..(0 - 0) : <<>>[i] = Hit(blk, 0)[0 + i]
  BY <1>2, BlkSz
<1> QED
  BY <1>3 DEF Travels

\* sendLastByte adds its last byte.
LEMMA TravelEnds ==
  ASSUME NEW blk \in Block, NEW got \in {0, 1}, NEW out \in Seq(Byte), NEW in \in Seq(Byte),
         NEW pc, Travels(blk, got, BLK_SZ - 1, out, in, pc)
  PROVE  Travels(blk, got, BLK_SZ, Append(out, blk[BLK_SZ]), in, pc)
<1>1. PICK p \in {0, 1, BLK_SZ - 1, BLK_SZ}, x \in {0} \cup 2..BLK_SZ :
        /\ got <= p /\ p <= BLK_SZ - 1
        /\ pc = IF p = 1 THEN "soh" ELSE "first"
        /\ p = BLK_SZ - 1 => SafeEnd(blk)
        /\ Len(out) = (BLK_SZ - 1) - p /\ \A i \in 1..((BLK_SZ - 1) - p) : out[i] = blk[p + i]
        /\ Len(in) = p - got   /\ \A i \in 1..(p - got)  : in[i] = Hit(blk, x)[got + i]
  BY DEF Travels
<1> DEFINE more == Append(out, blk[BLK_SZ])
<1>2. /\ Len(more) = Len(out) + 1
      /\ \A i \in 1..Len(out) : more[i] = out[i]
      /\ more[Len(out) + 1] = blk[BLK_SZ]
  BY BlockIsSeq, AppendProperties
<1> HIDE DEF more
<1> DEFINE rem == (BLK_SZ - 1) - p
<1>3. /\ p \in Nat /\ p <= BLK_SZ /\ rem \in Nat
      /\ BLK_SZ - p = rem + 1 /\ p + (rem + 1) = BLK_SZ
  <2>1. p \in Nat /\ BLK_SZ \in Nat
    BY BlkSz
  <2>2. p <= BLK_SZ - 1
    BY <1>1
  <2> QED
    BY <2>1, <2>2
<1>4. Len(more) = BLK_SZ - p /\ \A i \in 1..(BLK_SZ - p) : more[i] = blk[p + i]
  <2>1. Len(out) = rem /\ \A i \in 1..rem : out[i] = blk[p + i]
    BY <1>1
  <2> HIDE DEF rem
  <2>2. ASSUME NEW i \in 1..(rem + 1) PROVE more[i] = blk[p + i]
    <3>1. i \in 1..rem \/ i = rem + 1
      BY <1>3
    <3>2. CASE i \in 1..rem
      BY <1>2, <2>1, <3>2
    <3>3. CASE i = rem + 1
      BY <1>2, <1>3, <2>1, <3>3
    <3> QED
      BY <3>1, <3>2, <3>3
  <2>3. Len(more) = BLK_SZ - p
    BY <1>2, <1>3, <2>1
  <2>4. 1..(BLK_SZ - p) = 1..(rem + 1)
    BY <1>3
  <2> QED
    BY <2>2, <2>3, <2>4
<1>5. Travels(blk, got, BLK_SZ, more, in, pc)
  BY <1>1, <1>3, <1>4 DEF Travels
<1> QED
  BY <1>5 DEF more

\* The medium passes a byte alone: the first of the block, or the last.
LEMMA TravelOne ==
  ASSUME NEW blk \in Block, blk[1] = SOH, NEW got \in {0, 1},
         NEW sent \in {BLK_SZ - 1, BLK_SZ}, NEW out \in Seq(Byte), NEW in \in Seq(Byte),
         Travels(blk, got, sent, out, in, "first"), out # <<>>
  PROVE  LET next == CASE Head(out) = CAN -> "can"
                       [] Head(out) = SOH -> "soh"
                       [] OTHER           -> "first"
         IN  Travels(blk, got, sent, Tail(out), Append(in, Head(out)), next)
<1> DEFINE next == CASE Head(out) = CAN -> "can"
                     [] Head(out) = SOH -> "soh"
                     [] OTHER           -> "first"
           more == Append(in, Head(out))
           rest == Tail(out)
<1>1. PICK p \in {0, 1, BLK_SZ - 1, BLK_SZ}, x \in {0} \cup 2..BLK_SZ :
        /\ got <= p /\ p <= sent
        /\ "first" = IF p = 1 THEN "soh" ELSE "first"
        /\ p = BLK_SZ - 1 => SafeEnd(blk)
        /\ Len(out) = sent - p /\ \A i \in 1..(sent - p) : out[i] = blk[p + i]
        /\ Len(in) = p - got   /\ \A i \in 1..(p - got)  : in[i] = Hit(blk, x)[got + i]
  BY DEF Travels
<1>2. Len(out) = sent - p /\ Len(in) = p - got /\ got <= p /\ p <= sent /\ p # 1
  BY <1>1
<1>3. Len(out) \in Nat /\ Len(out) > 0 /\ out[1] = Head(out) /\ Head(out) \in Byte
  BY EmptySeq, HeadTailProperties
<1>4. /\ Len(rest) = Len(out) - 1
      /\ \A i \in 1..Len(rest) : rest[i] = out[i + 1]
  BY HeadTailProperties
<1>5. /\ Len(more) = Len(in) + 1
      /\ \A i \in 1..Len(in) : more[i] = in[i]
      /\ more[Len(in) + 1] = Head(out)
  BY <1>3, AppendProperties
<1>6. p \in Nat /\ sent \in Nat /\ p < sent
  BY <1>2, <1>3, BlkSz
<1>7. p = 0 \/ (p = BLK_SZ - 1 /\ sent = BLK_SZ)
  BY <1>2, <1>6, BlkSz
<1>8. 1 \in 1..(sent - p)
  BY <1>6
<1>9. Head(out) = blk[p + 1]
  BY <1>1, <1>3, <1>8
<1>10. \A i \in 1..(sent - (p + 1)) : rest[i] = blk[(p + 1) + i]
  <2> SUFFICES ASSUME NEW i \in 1..(sent - (p + 1)) PROVE rest[i] = blk[(p + 1) + i]
    OBVIOUS
  <2>1. i \in 1..Len(rest) /\ i + 1 \in 1..(sent - p) /\ p + (i + 1) = (p + 1) + i
    BY <1>2, <1>4, <1>6
  <2>2. rest[i] = out[i + 1]
    BY <1>4, <2>1
  <2>3. out[i + 1] = blk[p + (i + 1)]
    BY <1>1, <2>1
  <2> QED
    BY <2>1, <2>2, <2>3
<1>11. Len(rest) = sent - (p + 1) /\ Len(more) = (p + 1) - got
  BY <1>2, <1>4, <1>5, <1>6
<1> HIDE DEF next, more, rest
<1>12. CASE p = 0
  <2>1. Head(out) = SOH /\ next = "soh"
    BY <1>9, <1>12 DEF next, SOH, CAN
  <2>2. got = 0
    BY <1>2, <1>12
  <2>3. \A i \in 1..(1 - got) : more[i] = Hit(blk, 0)[got + i]
    <3>1. more[1] = SOH
      BY <1>2, <1>5, <1>12, <2>1, <2>2
    <3>2. Hit(blk, 0)[1] = SOH
      BY HitType, BlkSz
    <3> QED
      BY <2>2, <3>1, <3>2
  <2>4. /\ got <= 1 /\ 1 <= sent /\ 1 # BLK_SZ - 1
        /\ Len(rest) = sent - 1 /\ Len(more) = 1 - got
        /\ \A i \in 1..(sent - 1) : rest[i] = blk[1 + i]
    BY <1>6, <1>10, <1>11, <1>12, BlkSz
  <2>5. Travels(blk, got, sent, rest, more, next)
    BY <2>1, <2>3, <2>4 DEF Travels
  <2> QED
    BY <2>5 DEF next, more, rest
<1>13. CASE p = BLK_SZ - 1 /\ sent = BLK_SZ
  <2>1. Head(out) = blk[BLK_SZ] /\ SafeEnd(blk)
    BY <1>1, <1>9, <1>13, BlkSz
  <2>2. next = "first"
    BY <2>1 DEF SafeEnd, next
  <2>7. Len(in) = (BLK_SZ - 1) - got /\ Len(rest) = BLK_SZ - ((BLK_SZ - 1) + 1)
        /\ Len(more) = ((BLK_SZ - 1) + 1) - got
    BY <1>2, <1>11, <1>13
  <2> DEFINE y == IF x = BLK_SZ THEN 0 ELSE x
  <2>3. \A i \in 1..(BLK_SZ - got) : more[i] = Hit(blk, y)[got + i]
    <3> SUFFICES ASSUME NEW i \in 1..(BLK_SZ - got) PROVE more[i] = Hit(blk, y)[got + i]
      OBVIOUS
    <3>1. got + i \in 1..BLK_SZ
      BY BlkSz
    <3>2. CASE got + i = BLK_SZ
      <4>1. i = Len(in) + 1
        BY <2>7, <3>2, BlkSz
      <4>2. Hit(blk, y)[BLK_SZ] = blk[BLK_SZ]
        BY HitType, BlkSz
      <4> QED
        BY <1>5, <2>1, <3>2, <4>1, <4>2
    <3>3. CASE got + i # BLK_SZ
      <4>1. i \in 1..(p - got) /\ i \in 1..Len(in)
        <5>1. i \in 1..((BLK_SZ - 1) - got)
          BY <3>3, BeforeLast
        <5> QED
          BY <1>13, <2>7, <5>1
      <4>2. more[i] = Hit(blk, x)[got + i]
        BY <1>1, <1>5, <4>1
      <4>3. Hit(blk, x)[got + i] = Hit(blk, y)[got + i]
        BY <3>1, <3>3, HitType
      <4> QED
        BY <4>2, <4>3
    <3> QED
      BY <3>2, <3>3
  <2>4. /\ got <= BLK_SZ /\ BLK_SZ <= sent /\ BLK_SZ # 1 /\ BLK_SZ # BLK_SZ - 1
        /\ Len(rest) = sent - BLK_SZ /\ Len(more) = BLK_SZ - got
        /\ \A i \in 1..(sent - BLK_SZ) : rest[i] = blk[BLK_SZ + i]
    <3>1. Len(rest) = sent - BLK_SZ /\ Len(more) = BLK_SZ - got
      BY <1>13, <2>7, BlkEnd
    <3>2. \A i \in 1..(sent - BLK_SZ) : rest[i] = blk[BLK_SZ + i]
      BY <1>13, BlkSz
    <3>3. got <= BLK_SZ /\ BLK_SZ <= sent
      BY <1>13, BlkSz
    <3>4. BLK_SZ # 1 /\ BLK_SZ # BLK_SZ - 1
      BY BlkSz
    <3> QED
      BY <3>1, <3>2, <3>3, <3>4
  <2>5. y \in {0} \cup 2..BLK_SZ
    BY BlkSz
  <2> HIDE DEF y
  <2>6. Travels(blk, got, sent, rest, more, next)
    BY <2>2, <2>3, <2>4, <2>5 DEF Travels
  <2> QED
    BY <2>6 DEF next, more, rest
<1> QED
  BY <1>7, <1>12, <1>13

\* The medium passes all the rest there is, with one byte damaged or none.
LEMMA TravelPiece ==
  ASSUME NEW blk \in Block, NEW got \in {0, 1}, NEW sent \in {BLK_SZ - 1, BLK_SZ},
         NEW in \in Seq(Byte), NEW piece \in Seq(Byte), NEW y \in {0} \cup 2..BLK_SZ,
         Len(in) = 1 - got, got = 0 => in[1] = blk[1],
         Len(piece) = sent - 1, \A i \in 1..(sent - 1) : piece[i] = Hit(blk, y)[1 + i],
         sent = BLK_SZ - 1 => SafeEnd(blk)
  PROVE  Travels(blk, got, sent, <<>>, in \o piece, "first")
<1> DEFINE all == in \o piece
<1>1. /\ Len(all) = Len(in) + Len(piece)
      /\ \A i \in 1..Len(in) : all[i] = in[i]
      /\ \A i \in 1..Len(piece) : all[Len(in) + i] = piece[i]
  BY ConcatAt
<1> HIDE DEF all
<1>2. Len(all) = sent - got
  BY <1>1, BlkSz
<1>3. ASSUME NEW i \in 1..(sent - got)
      PROVE  all[i] = Hit(blk, y)[got + i]
  <2>1. CASE got = 0 /\ i = 1
    <3>1. Hit(blk, y)[1] = blk[1]
      BY HitFirst
    <3> QED
      BY <1>1, <2>1, <3>1
  <2>2. CASE got = 0 /\ i # 1
    <3>1. i - 1 \in 1..(sent - 1) /\ 1 + (i - 1) = i
      BY <2>2, BlkSz
    <3>2. all[1 + (i - 1)] = piece[i - 1]
      BY <1>1, <2>2, <3>1
    <3> QED
      BY <2>2, <3>1, <3>2
  <2>3. CASE got = 1
    <3>1. i \in 1..(sent - 1) /\ 0 + i = i
      BY <2>3, BlkSz
    <3>2. all[0 + i] = piece[i]
      BY <1>1, <2>3, <3>1
    <3> QED
      BY <2>3, <3>1, <3>2
  <2> QED
    BY <2>1, <2>2, <2>3
<1>4. /\ got <= sent /\ sent # 1
      /\ Len(<<>>) = sent - sent
      /\ \A i \in 1..(sent - sent) : <<>>[i] = blk[sent + i]
  BY BlkSz
<1>5. sent \in {0, 1, BLK_SZ - 1, BLK_SZ} /\ sent <= sent
  BY BlkSz
<1>6. Travels(blk, got, sent, <<>>, all, "first")
  BY <1>2, <1>3, <1>4, <1>5 DEF Travels
<1> QED
  BY <1>6 DEF all

LEMMA TravelRest ==
  ASSUME NEW blk \in Block, NEW got \in {0, 1}, NEW sent \in {BLK_SZ - 1, BLK_SZ},
         NEW out \in Seq(Byte), NEW in \in Seq(Byte),
         Travels(blk, got, sent, out, in, "soh"),
         sent = BLK_SZ - 1 => SafeEnd(blk)
  PROVE  /\ Taken(out, REST_BLK_SZ) = out
         /\ Left(out, REST_BLK_SZ) = <<>>
         /\ Travels(blk, got, sent, <<>>, in \o out, "first")
         /\ \A place \in 0..(Len(out) - 1) :
              Travels(blk, got, sent, <<>>, in \o Damaged(out, place), "first")
<1>1. PICK x \in {0} \cup 2..BLK_SZ :
        /\ Len(out) = sent - 1 /\ \A i \in 1..(sent - 1) : out[i] = blk[1 + i]
        /\ Len(in) = 1 - got   /\ \A i \in 1..(1 - got)  : in[i] = Hit(blk, x)[got + i]
  <2>1. "soh" # "first"
    OBVIOUS
  <2> QED
    BY <2>1 DEF Travels
<1>2. Len(out) = sent - 1 /\ Len(out) \in Nat /\ Len(out) <= REST_BLK_SZ /\ REST_BLK_SZ \in Nat
  <2>1. Len(out) = sent - 1
    BY <1>1
  <2>2. sent - 1 \in Nat /\ sent - 1 <= REST_BLK_SZ /\ REST_BLK_SZ \in Nat
    BY BlkSz
  <2> QED
    BY <2>1, <2>2
<1>3. Taken(out, REST_BLK_SZ) = out
  <2>1. Taken(out, REST_BLK_SZ) = SubSeq(out, 1, Len(out))
    BY <1>2 DEF Taken
  <2> QED
    BY <2>1, SubSeqFull
<1>4. Left(out, REST_BLK_SZ) = <<>>
  <2>1. Left(out, REST_BLK_SZ) = SubSeq(out, Len(out) + 1, Len(out))
    BY <1>2 DEF Left
  <2> QED
    BY <1>2, <2>1, SubSeqEmpty
<1>5. Len(in) = 1 - got /\ (got = 0 => in[1] = blk[1])
  <2>1. Len(in) = 1 - got
    BY <1>1
  <2>2. CASE got = 0
    <3>1. in[1] = Hit(blk, x)[1]
      BY <1>1, <2>2
    <3>2. Hit(blk, x)[1] = blk[1]
      BY HitFirst
    <3> QED
      BY <2>1, <3>1, <3>2
  <2> QED
    BY <2>1, <2>2
<1>6. Travels(blk, got, sent, <<>>, in \o out, "first")
  <2>1. \A i \in 1..(sent - 1) : out[i] = Hit(blk, 0)[1 + i]
    <3> TAKE i \in 1..(sent - 1)
    <3>1. 1 + i \in 1..BLK_SZ /\ 1 + i # 0
      BY BlkSz
    <3> QED
      BY <1>1, <3>1, HitType
  <2> QED
    <3>1. 0 \in {0} \cup 2..BLK_SZ
      OBVIOUS
    <3> QED
      BY <1>2, <1>5, <2>1, <3>1, TravelPiece
<1>7. ASSUME NEW place \in 0..(Len(out) - 1)
      PROVE  Travels(blk, got, sent, <<>>, in \o Damaged(out, place), "first")
  <2> DEFINE piece == Damaged(out, place)
  <2>1. place + 1 \in 1..Len(out) /\ place + 2 \in 2..BLK_SZ
    BY <1>2, BlkSz
  <2>2. out[place + 1] \in Byte /\ Complement(out[place + 1]) \in Byte
    <3> DEFINE j == place + 1
    <3>1. j \in 1..Len(out)
      BY <2>1
    <3> HIDE DEF j
    <3>2. out[j] \in Byte
      BY <3>1, ElementOfSeq
    <3>3. Complement(out[j]) \in Byte
      BY <3>2, ComplementType
    <3> QED
      BY <3>2, <3>3 DEF j
  <2>3. /\ piece \in Seq(Byte) /\ Len(piece) = Len(out)
        /\ \A j \in 1..Len(out) :
             piece[j] = IF j = place + 1 THEN Complement(out[place + 1]) ELSE out[j]
    BY <2>1, <2>2, ExceptSeq DEF Damaged
  <2> HIDE DEF piece
  <2>4. ASSUME NEW i \in 1..(sent - 1)
        PROVE  piece[i] = Hit(blk, place + 2)[1 + i]
    <3>1. 1 + i \in 1..BLK_SZ /\ (1 + i = place + 2 <=> i = place + 1) /\ i \in 1..Len(out)
      BY <1>2, BlkSz
    <3>2. Hit(blk, place + 2)[1 + i] =
            IF i = place + 1 THEN Complement(blk[1 + i]) ELSE blk[1 + i]
      BY <3>1, HitType
    <3>3. out[i] = blk[1 + i]
      BY <1>1
    <3> QED
      BY <2>3, <3>1, <3>2, <3>3
  <2>5. Travels(blk, got, sent, <<>>, in \o piece, "first")
    <3>1. place + 2 \in {0} \cup 2..BLK_SZ /\ Len(piece) = sent - 1 /\ piece \in Seq(Byte)
      BY <1>2, <2>1, <2>3
    <3> QED
      BY <1>5, <2>4, <3>1, TravelPiece
  <2> QED
    BY <2>5 DEF piece
<1> QED
  BY <1>3, <1>4, <1>6, <1>7

\* The receiver reads the first byte of the block.
LEMMA TravelGot ==
  ASSUME NEW blk \in Block, blk[1] = SOH, NEW sent \in {BLK_SZ - 1, BLK_SZ},
         NEW out \in Seq(Byte), NEW in \in Seq(Byte), NEW pc,
         Travels(blk, 0, sent, out, in, pc), in # <<>>
  PROVE  Head(in) = SOH /\ Travels(blk, 1, sent, out, Tail(in), pc)
<1>1. PICK p \in {0, 1, BLK_SZ - 1, BLK_SZ}, x \in {0} \cup 2..BLK_SZ :
        /\ 0 <= p /\ p <= sent
        /\ pc = IF p = 1 THEN "soh" ELSE "first"
        /\ p = BLK_SZ - 1 => SafeEnd(blk)
        /\ Len(out) = sent - p /\ \A i \in 1..(sent - p) : out[i] = blk[p + i]
        /\ Len(in) = p - 0   /\ \A i \in 1..(p - 0)  : in[i] = Hit(blk, x)[0 + i]
  BY DEF Travels
<1>2. /\ Len(in) \in Nat /\ Len(in) > 0 /\ in[1] = Head(in)
      /\ Len(Tail(in)) = Len(in) - 1
      /\ \A i \in 1..Len(Tail(in)) : Tail(in)[i] = in[i + 1]
  BY EmptySeq, HeadTailProperties
<1>3. p \in Nat /\ Len(in) = p /\ p >= 1
  BY <1>1, <1>2, BlkSz
<1>4. in[1] = Hit(blk, x)[1]
  BY <1>1, <1>3
<1>5. Head(in) = SOH
  BY <1>2, <1>4, HitFirst
<1>6. Len(Tail(in)) = p - 1
  BY <1>2, <1>3
<1>7. ASSUME NEW i \in 1..(p - 1)
      PROVE  Tail(in)[i] = Hit(blk, x)[1 + i]
  <2>1. i \in 1..Len(Tail(in)) /\ i + 1 \in 1..(p - 0) /\ 0 + (i + 1) = 1 + i
    BY <1>3, <1>6
  <2> QED
    BY <1>1, <1>2, <2>1
<1>8. Travels(blk, 1, sent, out, Tail(in), pc)
  BY <1>1, <1>3, <1>6, <1>7 DEF Travels
<1> QED
  BY <1>5, <1>8

\* The receiver has the rest of the block when it is there, and it is all.
LEMMA TravelIsRead ==
  ASSUME NEW blk \in Block, blk[1] = SOH, NEW sent \in {BLK_SZ - 1, BLK_SZ},
         NEW out \in Seq(Byte), NEW in \in Seq(Byte), NEW pc,
         Travels(blk, 1, sent, out, in, pc), Len(in) >= REST_BLK_SZ
  PROVE  /\ sent = BLK_SZ /\ out = <<>> /\ pc = "first"
         /\ Left(in, REST_BLK_SZ) = <<>>
         /\ \E x \in {0} \cup 2..BLK_SZ :
              [i \in 1..BLK_SZ |-> IF i = 1 THEN SOH ELSE in[i - 1]] = Hit(blk, x)
<1>1. PICK p \in {0, 1, BLK_SZ - 1, BLK_SZ}, x \in {0} \cup 2..BLK_SZ :
        /\ 1 <= p /\ p <= sent
        /\ pc = IF p = 1 THEN "soh" ELSE "first"
        /\ p = BLK_SZ - 1 => SafeEnd(blk)
        /\ Len(out) = sent - p /\ \A i \in 1..(sent - p) : out[i] = blk[p + i]
        /\ Len(in) = p - 1   /\ \A i \in 1..(p - 1)  : in[i] = Hit(blk, x)[1 + i]
  BY DEF Travels
<1>2. Len(in) = p - 1 /\ p <= sent /\ Len(out) = sent - p /\ pc = IF p = 1 THEN "soh" ELSE "first"
  BY <1>1
<1>3. p = BLK_SZ /\ sent = BLK_SZ
  BY <1>2, BlkSz
<1>4. Len(in) = BLK_SZ - 1 /\ Len(out) = 0 /\ pc = "first"
  BY <1>2, <1>3, BlkSz
<1>5. out = <<>>
  BY <1>4, EmptySeq
<1>6. Left(in, REST_BLK_SZ) = <<>>
  <2>1. Left(in, REST_BLK_SZ) = SubSeq(in, REST_BLK_SZ + 1, REST_BLK_SZ)
    BY <1>4, BlkSz DEF Left
  <2> QED
    BY <2>1, BlkSz, SubSeqEmpty
<1>7. \A i \in 1..BLK_SZ : (IF i = 1 THEN SOH ELSE in[i - 1]) = Hit(blk, x)[i]
  <2> TAKE i \in 1..BLK_SZ
  <2>1. CASE i = 1
    BY <2>1, HitFirst
  <2>2. CASE i # 1
    <3>1. i - 1 \in 1..(p - 1) /\ 1 + (i - 1) = i
      BY <1>3, <2>2, BlkSz
    <3> QED
      BY <1>1, <2>2, <3>1
  <2> QED
    BY <2>1, <2>2
<1>8. [i \in 1..BLK_SZ |-> IF i = 1 THEN SOH ELSE in[i - 1]] = Hit(blk, x)
  <2>1. Hit(blk, x) = [i \in 1..BLK_SZ |-> Hit(blk, x)[i]]
    BY DEF Hit
  <2> QED
    BY <1>7, <2>1
<1> QED
  BY <1>3, <1>4, <1>5, <1>6, <1>8

-----------------------------------------------------------------------------
(* Replies on their way.                                                   *)

\* Both queues as one, and what Coming says of it byte by byte.
LEMMA ComingAll ==
  ASSUME NEW m \in Seq(Byte), NEW r \in Seq(Byte), NEW expected,
         Len(expected) \in Nat
  PROVE  Coming(m, r, expected) <=>
           /\ Len(m) + Len(r) = Len(expected)
           /\ \A i \in 1..Len(m) : m[i] \in expected[i]
           /\ \A i \in 1..Len(r) : r[i] \in expected[Len(m) + i]
<1>1. /\ \A i \in 1..Len(m) : (m \o r)[i] = m[i]
      /\ \A i \in 1..Len(r) : (m \o r)[Len(m) + i] = r[i]
      /\ Len(m) \in Nat /\ Len(r) \in Nat
  BY ConcatAt, LenProperties
<1>2. ASSUME Coming(m, r, expected)
      PROVE  /\ Len(m) + Len(r) = Len(expected)
             /\ \A i \in 1..Len(m) : m[i] \in expected[i]
             /\ \A i \in 1..Len(r) : r[i] \in expected[Len(m) + i]
  <2>1. Len(m) + Len(r) = Len(expected) /\ \A i \in 1..Len(expected) : (m \o r)[i] \in expected[i]
    BY <1>2 DEF Coming
  <2>2. \A i \in 1..Len(m) : i \in 1..Len(expected)
    BY <1>1, <2>1
  <2>3. \A i \in 1..Len(r) : Len(m) + i \in 1..Len(expected)
    BY <1>1, <2>1
  <2> QED
    BY <1>1, <2>1, <2>2, <2>3
<1>3. ASSUME Len(m) + Len(r) = Len(expected),
             \A i \in 1..Len(m) : m[i] \in expected[i],
             \A i \in 1..Len(r) : r[i] \in expected[Len(m) + i]
      PROVE  Coming(m, r, expected)
  <2>1. ASSUME NEW i \in 1..Len(expected) PROVE (m \o r)[i] \in expected[i]
    <3>1. CASE i \in 1..Len(m)
      BY <1>1, <1>3, <3>1
    <3>2. CASE i \notin 1..Len(m)
      <4>1. i - Len(m) \in 1..Len(r) /\ Len(m) + (i - Len(m)) = i
        BY <1>1, <1>3, <3>2
      <4> QED
        BY <1>1, <1>3, <4>1
    <3> QED
      BY <3>1, <3>2
  <2> QED
    BY <1>3, <2>1 DEF Coming
<1> QED
  BY <1>2, <1>3

\* No reply is coming if none is expected.
LEMMA NoneComing ==
  ASSUME NEW m \in Seq(Byte), NEW r \in Seq(Byte)
  PROVE  Coming(m, r, <<>>) <=> m = <<>> /\ r = <<>>
<1>1. Len(m) \in Nat /\ Len(r) \in Nat /\ (Len(m) = 0 => m = <<>>) /\ (Len(r) = 0 => r = <<>>)
  BY EmptySeq, LenProperties
<1>2. Len(<<>>) = 0 /\ <<>> \in Seq(Byte)
  BY EmptySeq
<1>3. Coming(m, r, <<>>) => m = <<>> /\ r = <<>>
  BY <1>1, <1>2 DEF Coming
<1>4. Coming(<<>>, <<>>, <<>>)
  BY <1>2 DEF Coming
<1> QED
  BY <1>3, <1>4

\* A read takes the oldest of them.
LEMMA OldestComing ==
  ASSUME NEW m \in Seq(Byte), NEW r \in Seq(Byte), NEW expected, NEW rest,
         Len(rest) \in Nat, Len(expected) = Len(rest) + 1, \A i \in 1..Len(rest) : rest[i] = expected[i + 1],
         Coming(m, r, expected), m # <<>>
  PROVE  Head(m) \in expected[1] /\ Coming(Tail(m), r, rest)
<1>1. /\ Len(m) \in Nat /\ Len(m) > 0 /\ m[1] = Head(m)
      /\ Tail(m) \in Seq(Byte)
      /\ Len(Tail(m)) = Len(m) - 1
      /\ \A i \in 1..Len(Tail(m)) : Tail(m)[i] = m[i + 1]
      /\ Len(r) \in Nat
  BY EmptySeq, HeadTailProperties, LenProperties
<1>2. /\ Len(m) + Len(r) = Len(rest) + 1
      /\ \A i \in 1..Len(m) : m[i] \in expected[i]
      /\ \A i \in 1..Len(r) : r[i] \in expected[Len(m) + i]
  <2>1. Len(expected) \in Nat
    OBVIOUS
  <2>2. /\ Len(m) + Len(r) = Len(expected)
        /\ \A i \in 1..Len(m) : m[i] \in expected[i]
        /\ \A i \in 1..Len(r) : r[i] \in expected[Len(m) + i]
    BY <2>1, ComingAll
  <2> QED
    BY <2>2
<1>3. Len(Tail(m)) + Len(r) = Len(rest)
  BY <1>1, <1>2
<1>4. ASSUME NEW i \in 1..Len(Tail(m)) PROVE Tail(m)[i] \in rest[i]
  <2>1. i + 1 \in 1..Len(m) /\ i \in 1..Len(rest)
    BY <1>1, <1>2
  <2> QED
    BY <1>1, <1>2, <2>1
<1>5. ASSUME NEW i \in 1..Len(r) PROVE r[i] \in rest[Len(Tail(m)) + i]
  <2>1. Len(Tail(m)) + i \in 1..Len(rest) /\ (Len(Tail(m)) + i) + 1 = Len(m) + i
    BY <1>1, <1>2
  <2> QED
    BY <1>2, <2>1
<1>6. Coming(Tail(m), r, rest)
  BY <1>1, <1>3, <1>4, <1>5, ComingAll
<1>7. 1 \in 1..Len(m)
  BY <1>1
<1> QED
  BY <1>1, <1>2, <1>6, <1>7

\* A reply of the receiver is the last to come.
LEMMA ReplyComing ==
  ASSUME NEW m \in Seq(Byte), NEW r \in Seq(Byte), NEW n \in Nat, NEW expected, NEW more,
         NEW byte \in Byte, Len(expected) = n, Len(more) = n + 1,
         \A i \in 1..n : more[i] = expected[i], byte \in more[n + 1],
         Coming(m, r, expected)
  PROVE  Coming(m, r \o <<byte>>, more)
<1> DEFINE s == <<byte>>
           rr == r \o s
<1>1. s \in Seq(Byte) /\ Len(s) = 1 /\ s[1] = byte
  OBVIOUS
<1>2. /\ rr \in Seq(Byte) /\ Len(rr) = Len(r) + 1
      /\ \A i \in 1..Len(r) : rr[i] = r[i]
      /\ rr[Len(r) + 1] = byte
  <2> HIDE DEF s
  <2>1. /\ rr \in Seq(Byte) /\ Len(rr) = Len(r) + Len(s)
        /\ \A i \in 1..Len(r) : rr[i] = r[i]
        /\ \A i \in 1..Len(s) : rr[Len(r) + i] = s[i]
    BY <1>1, ConcatAt
  <2>2. 1 \in 1..Len(s)
    BY <1>1
  <2> QED
    BY <1>1, <2>1, <2>2
<1>3. /\ Len(m) + Len(r) = n
      /\ \A i \in 1..Len(m) : m[i] \in expected[i]
      /\ \A i \in 1..Len(r) : r[i] \in expected[Len(m) + i]
      /\ Len(m) \in Nat /\ Len(r) \in Nat
  <2>1. Len(expected) \in Nat
    OBVIOUS
  <2> QED
    BY <2>1, ComingAll, LenProperties
<1> HIDE DEF s, rr
<1>4. Len(m) + Len(rr) = n + 1
  <2>1. Len(m) \in Nat /\ Len(r) \in Nat /\ Len(m) + Len(r) = n /\ Len(rr) = Len(r) + 1
    BY <1>2, <1>3
  <2> QED
    BY <2>1
<1>5. ASSUME NEW i \in 1..Len(m) PROVE m[i] \in more[i]
  <2>1. i \in 1..n
    BY <1>2, <1>3
  <2> QED
    BY <1>3, <2>1
<1>6. ASSUME NEW i \in 1..Len(rr) PROVE rr[i] \in more[Len(m) + i]
  <2>1. CASE i \in 1..Len(r)
    <3>1. Len(m) + i \in 1..n
      BY <1>2, <1>3, <2>1
    <3> QED
      BY <1>2, <1>3, <2>1, <3>1
  <2>2. CASE i = Len(r) + 1
    <3>1. rr[Len(r) + 1] = byte
      BY <1>2
    <3>2. Len(m) + i = n + 1
      BY <1>2, <1>3, <2>2
    <3> QED
      BY <2>2, <3>1, <3>2
  <2> QED
    BY <1>2, <2>1, <2>2
<1>7. n + 1 \in Nat
  OBVIOUS
<1>8. Coming(m, rr, more)
  BY <1>2, <1>4, <1>5, <1>6, <1>7, ComingAll
<1> QED
  BY <1>8 DEF rr, s

\* A read of at most n bytes, byte by byte.
LEMMA TakenAt ==
  ASSUME NEW q \in Seq(Byte), NEW n \in Nat
  PROVE  LET k == IF Len(q) < n THEN Len(q) ELSE n
         IN  /\ Taken(q, n) \in Seq(Byte) /\ Len(Taken(q, n)) = k
             /\ \A i \in 1..k : Taken(q, n)[i] = q[i]
             /\ Left(q, n) \in Seq(Byte) /\ Len(Left(q, n)) = Len(q) - k
             /\ \A i \in 1..(Len(q) - k) : Left(q, n)[i] = q[k + i]
<1> DEFINE k == IF Len(q) < n THEN Len(q) ELSE n
<1>1. k \in Nat /\ Len(q) \in Nat /\ k <= Len(q) /\ \A i \in 1..Len(q) : q[i] \in Byte
  BY LenProperties, ElementOfSeq
<1>2. Taken(q, n) = SubSeq(q, 1, k) /\ Left(q, n) = SubSeq(q, k + 1, Len(q))
  BY DEF Taken, Left
<1> HIDE DEF k
<1>3. /\ SubSeq(q, 1, k) \in Seq(Byte)
      /\ Len(SubSeq(q, 1, k)) = IF 1 <= k THEN k - 1 + 1 ELSE 0
      /\ \A i \in 1..(k - 1 + 1) : SubSeq(q, 1, k)[i] = q[1 + i - 1]
  <2>1. \A i \in 1..k : q[i] \in Byte
    BY <1>1
  <2> QED
    BY <1>1, <2>1, SubSeqProperties
<1>4. /\ SubSeq(q, k + 1, Len(q)) \in Seq(Byte)
      /\ Len(SubSeq(q, k + 1, Len(q))) = IF k + 1 <= Len(q) THEN Len(q) - (k + 1) + 1 ELSE 0
      /\ \A i \in 1..(Len(q) - (k + 1) + 1) :
           SubSeq(q, k + 1, Len(q))[i] = q[(k + 1) + i - 1]
  <2>1. k + 1 \in Int /\ \A i \in (k + 1)..Len(q) : q[i] \in Byte
    BY <1>1
  <2> QED
    BY <1>1, <2>1, SubSeqProperties
<1>5. /\ Len(SubSeq(q, 1, k)) = k
      /\ \A i \in 1..k : SubSeq(q, 1, k)[i] = q[i]
  BY <1>1, <1>3
<1>6. /\ Len(SubSeq(q, k + 1, Len(q))) = Len(q) - k
      /\ \A i \in 1..(Len(q) - k) : SubSeq(q, k + 1, Len(q))[i] = q[k + i]
  BY <1>1, <1>4
<1> QED
  BY <1>2, <1>3, <1>4, <1>5, <1>6 DEF k

LEMMA SplitSum ==
  ASSUME NEW a \in Nat, NEW b \in Nat, NEW k \in 1..b
  PROVE  (a + k) + (b - k) = a + b
  OBVIOUS

\* The medium passes the replies on, maybe with a NAK for an ACK.
LEMMA PassedComing ==
  ASSUME NEW m \in Seq(Byte), NEW r \in Seq(Byte), NEW expected, Len(expected) \in Nat,
         \A i \in 1..Len(expected) : ACK \in expected[i] => NAK \in expected[i],
         Coming(m, r, expected), r # <<>>, NEW n \in Nat \ {0}, NEW turn \in BOOLEAN,
         turn => Head(Taken(r, n)) = ACK
  PROVE  Coming(m \o (IF turn THEN [Taken(r, n) EXCEPT ![1] = NAK] ELSE Taken(r, n)),
                Left(r, n), expected)
<1> DEFINE k     == IF Len(r) < n THEN Len(r) ELSE n
           bytes == Taken(r, n)
           out   == IF turn THEN [bytes EXCEPT ![1] = NAK] ELSE bytes
           left  == Left(r, n)
           mm    == m \o out
<1>1. /\ bytes \in Seq(Byte) /\ Len(bytes) = k
      /\ \A i \in 1..k : bytes[i] = r[i]
      /\ left \in Seq(Byte) /\ Len(left) = Len(r) - k
      /\ \A i \in 1..(Len(r) - k) : left[i] = r[k + i]
  BY TakenAt
<1>2. Len(r) \in Nat /\ Len(m) \in Nat /\ Len(r) > 0 /\ k \in 1..Len(r)
  BY EmptySeq, LenProperties
<1>3. /\ Len(m) + Len(r) = Len(expected)
      /\ \A i \in 1..Len(m) : m[i] \in expected[i]
      /\ \A i \in 1..Len(r) : r[i] \in expected[Len(m) + i]
  BY ComingAll
<1> HIDE DEF k, left
<1>4. /\ out \in Seq(Byte) /\ Len(out) = k
      /\ \A i \in 1..k : out[i] \in expected[Len(m) + i]
  <2>1. \A i \in 1..k : bytes[i] \in expected[Len(m) + i]
    <3> TAKE i \in 1..k
    <3>1. i \in 1..Len(r)
      BY <1>2
    <3> QED
      BY <1>1, <1>3, <3>1
  <2>2. CASE turn
    <3>1. 1 \in 1..Len(bytes) /\ NAK \in Byte
      BY <1>1, <1>2, ControlBytes
    <3>2. /\ out \in Seq(Byte) /\ Len(out) = k
          /\ \A i \in 1..Len(bytes) : out[i] = IF i = 1 THEN NAK ELSE bytes[i]
      <4>1. out = [bytes EXCEPT ![1] = NAK]
        BY <2>2
      <4> HIDE DEF out, bytes
      <4> QED
        BY <1>1, <3>1, <4>1, ExceptSeq
    <3>3. bytes[1] = ACK
      BY <1>1, <2>2, <3>1
    <3>4. Len(m) + 1 \in 1..Len(expected)
      BY <1>2, <1>3
    <3>5. NAK \in expected[Len(m) + 1]
      BY <1>1, <2>1, <3>1, <3>3, <3>4
    <3> HIDE DEF out, bytes
    <3> QED
      BY <1>1, <2>1, <3>2, <3>5
  <2>3. CASE ~turn
    BY <1>1, <2>1, <2>3
  <2> QED
    BY <2>2, <2>3
<1> HIDE DEF out, bytes
<1>5. /\ mm \in Seq(Byte) /\ Len(mm) = Len(m) + k
      /\ \A i \in 1..Len(m) : mm[i] = m[i]
      /\ \A i \in 1..k : mm[Len(m) + i] = out[i]
  BY <1>4, ConcatAt
<1> HIDE DEF mm
<1>6. Len(mm) + Len(left) = Len(expected)
  <2>1. Len(mm) = Len(m) + k /\ Len(left) = Len(r) - k /\ Len(m) + Len(r) = Len(expected)
    BY <1>1, <1>3, <1>5
  <2>2. (Len(m) + k) + (Len(r) - k) = Len(m) + Len(r)
    BY <1>2, SplitSum
  <2> QED
    BY <2>1, <2>2
<1>7. ASSUME NEW i \in 1..Len(mm) PROVE mm[i] \in expected[i]
  <2>1. CASE i \in 1..Len(m)
    BY <1>3, <1>5, <2>1
  <2>2. CASE i \notin 1..Len(m)
    <3>1. i - Len(m) \in 1..k /\ Len(m) + (i - Len(m)) = i
      BY <1>2, <1>5, <2>2
    <3> QED
      BY <1>4, <1>5, <3>1
  <2> QED
    BY <2>1, <2>2
<1>8. ASSUME NEW i \in 1..Len(left) PROVE left[i] \in expected[Len(mm) + i]
  <2>1. k + i \in 1..Len(r) /\ Len(m) + (k + i) = Len(mm) + i /\ i \in 1..(Len(r) - k)
    <3>1. Len(left) = Len(r) - k /\ Len(mm) = Len(m) + k
      BY <1>1, <1>5
    <3> QED
      BY <1>2, <3>1
  <2>2. r[k + i] \in expected[Len(m) + (k + i)]
    BY <1>3, <2>1
  <2> QED
    BY <1>1, <2>1, <2>2
<1>9. Coming(mm, left, expected)
  BY <1>1, <1>5, <1>6, <1>7, <1>8, ComingAll
<1> QED
  BY <1>9 DEF mm, out, bytes, left

\* The cases that occur: up to three replies.
LEMMA ReadReplies ==
  ASSUME NEW m \in Seq(Byte), NEW r \in Seq(Byte), m # <<>>, NEW a, NEW b, NEW c
  PROVE  /\ Coming(m, r, <<a>>) => Head(m) \in a /\ Coming(Tail(m), r, <<>>)
         /\ Coming(m, r, <<a, b>>) => Head(m) \in a /\ Coming(Tail(m), r, <<b>>)
         /\ Coming(m, r, <<a, b, c>>) => Head(m) \in a /\ Coming(Tail(m), r, <<b, c>>)
<1>1. ASSUME Coming(m, r, <<a>>) PROVE Head(m) \in a /\ Coming(Tail(m), r, <<>>)
  <2> DEFINE e == <<a>>
             f == <<>>
  <2>1. Len(f) \in Nat /\ Len(e) = Len(f) + 1 /\ (\A i \in 1..Len(f) : f[i] = e[i + 1]) /\ e[1] = a
    OBVIOUS
  <2> HIDE DEF e, f
  <2>2. Coming(m, r, e)
    BY <1>1 DEF e
  <2>3. Head(m) \in e[1] /\ Coming(Tail(m), r, f)
    BY <2>1, <2>2, OldestComing
  <2> QED
    BY <2>1, <2>3 DEF f
<1>2. ASSUME Coming(m, r, <<a, b>>) PROVE Head(m) \in a /\ Coming(Tail(m), r, <<b>>)
  <2> DEFINE e == <<a, b>>
             f == <<b>>
  <2>1. Len(f) \in Nat /\ Len(e) = Len(f) + 1 /\ (\A i \in 1..Len(f) : f[i] = e[i + 1]) /\ e[1] = a
    OBVIOUS
  <2> HIDE DEF e, f
  <2>2. Coming(m, r, e)
    BY <1>2 DEF e
  <2>3. Head(m) \in e[1] /\ Coming(Tail(m), r, f)
    BY <2>1, <2>2, OldestComing
  <2> QED
    BY <2>1, <2>3 DEF f
<1>3. ASSUME Coming(m, r, <<a, b, c>>) PROVE Head(m) \in a /\ Coming(Tail(m), r, <<b, c>>)
  <2> DEFINE e == <<a, b, c>>
             f == <<b, c>>
  <2>1. Len(f) \in Nat /\ Len(e) = Len(f) + 1 /\ (\A i \in 1..Len(f) : f[i] = e[i + 1]) /\ e[1] = a
    OBVIOUS
  <2> HIDE DEF e, f
  <2>2. Coming(m, r, e)
    BY <1>3 DEF e
  <2>3. Head(m) \in e[1] /\ Coming(Tail(m), r, f)
    BY <2>1, <2>2, OldestComing
  <2> QED
    BY <2>1, <2>3 DEF f
<1> QED
  BY <1>1, <1>2, <1>3

LEMMA AddReply ==
  ASSUME NEW m \in Seq(Byte), NEW r \in Seq(Byte), NEW byte \in Byte, NEW a, NEW b, NEW c
  PROVE  /\ Coming(m, r, <<>>) /\ byte \in a => Coming(m, r \o <<byte>>, <<a>>)
         /\ Coming(m, r, <<a>>) /\ byte \in b => Coming(m, r \o <<byte>>, <<a, b>>)
         /\ Coming(m, r, <<a, b>>) /\ byte \in c => Coming(m, r \o <<byte>>, <<a, b, c>>)
<1>1. ASSUME Coming(m, r, <<>>), byte \in a PROVE Coming(m, r \o <<byte>>, <<a>>)
  <2>1. Len(<<>>) = 0 /\ Len(<<a>>) = 0 + 1 /\ <<a>>[0 + 1] = a
        /\ \A i \in 1..0 : <<a>>[i] = <<>>[i]
    OBVIOUS
  <2> QED
    BY <1>1, <2>1, ReplyComing
<1>2. ASSUME Coming(m, r, <<a>>), byte \in b PROVE Coming(m, r \o <<byte>>, <<a, b>>)
  <2>1. Len(<<a>>) = 1 /\ Len(<<a, b>>) = 1 + 1 /\ <<a, b>>[1 + 1] = b
        /\ \A i \in 1..1 : <<a, b>>[i] = <<a>>[i]
    OBVIOUS
  <2> QED
    BY <1>2, <2>1, ReplyComing
<1>3. ASSUME Coming(m, r, <<a, b>>), byte \in c PROVE Coming(m, r \o <<byte>>, <<a, b, c>>)
  <2>1. Len(<<a, b>>) = 2 /\ Len(<<a, b, c>>) = 2 + 1 /\ <<a, b, c>>[2 + 1] = c
        /\ \A i \in 1..2 : <<a, b, c>>[i] = <<a, b>>[i]
    OBVIOUS
  <2> QED
    BY <1>3, <2>1, ReplyComing
<1> QED
  BY <1>1, <1>2, <1>3

\* sendLastByte throws away what has come.
LEMMA DumpedReplies ==
  ASSUME NEW m \in Seq(Byte), NEW r \in Seq(Byte), NEW a
  PROVE  /\ Coming(m, r, <<>>) => Coming(<<>>, r, <<>>)
         /\ Coming(m, r, <<a>>) => Coming(<<>>, r, <<>>) \/ Coming(<<>>, r, <<a>>)
<1>1. Coming(m, r, <<>>) => Coming(<<>>, r, <<>>)
  BY NoneComing, EmptySeq
<1>2. ASSUME Coming(m, r, <<a>>)
      PROVE  Coming(<<>>, r, <<>>) \/ Coming(<<>>, r, <<a>>)
  <2>1. Len(<<a>>) = 1
    OBVIOUS
  <2>2. Len(m) + Len(r) = 1 /\ Len(m) \in Nat /\ Len(r) \in Nat
    BY <1>2, <2>1, LenProperties DEF Coming
  <2>3. CASE Len(m) = 0
    <3>1. m = <<>>
      BY <2>3, EmptySeq
    <3> QED
      BY <1>2, <3>1
  <2>4. CASE Len(r) = 0
    <3>1. r = <<>>
      BY <2>4, EmptySeq
    <3> QED
      BY <3>1, NoneComing, EmptySeq
  <2> QED
    BY <2>2, <2>3, <2>4
<1> QED
  BY <1>1, <1>2

-----------------------------------------------------------------------------
(* The blocks the sender sends and the medium passes.                      *)

IsBlk(blk) == \E num \in Byte, chunk \in Chunk : blk = MakeBlk(num, chunk)

LEMMA BlkBytes ==
  ASSUME NEW blk, IsBlk(blk)
  PROVE  blk \in Block /\ blk[1] = SOH
  BY MakeBlkBytes DEF IsBlk

LEMMA StatBlkIsBlk == \A name \in Byte : IsBlk(StatBlk(name))
<1> TAKE name \in Byte
<1>1. StatChunk(name) \in Chunk /\ 0 \in Byte
  BY DEF StatChunk, Chunk, Byte
<1> QED
  BY <1>1 DEF IsBlk, StatBlk

LEMMA DataBlkIsBlk ==
  ASSUME NEW data \in Seq(Byte), NEW k \in Nat \ {0}
  PROVE  IsBlk(DataBlk(data, k))
<1>1. k % 256 \in Byte
  BY DEF Byte
<1>2. (k - 1) * CHUNK_SZ \in Nat
  <2>1. k - 1 \in Nat /\ CHUNK_SZ \in Nat
    BY ChunkSzAssumption
  <2> QED
    BY <2>1
<1>3. DataChunk(data, (k - 1) * CHUNK_SZ) \in Chunk
  BY <1>2, DataChunkType
<1> QED
  BY <1>1, <1>3 DEF IsBlk, DataBlk

LEMMA SentIsBlk ==
  ASSUME IInv, HeaderBlk
  PROVE  /\ sPc \in {"statLast", "statAck", "blkLast", "reLast", "reply", "reReply"}
              => IsBlk(blkSent)
         /\ sPc \in {"finMost", "finLast", "finAck", "done"} => IsBlk(blkBuf)
<1>1. SenderTypeOK /\ BlocksInv /\ SenderFileInv
  BY DEF IInv, SInv
<1>2. CASE sPc \in {"statLast", "statAck"}
  <2>1. fileNameIndex \in 1..Len(batch) /\ blkSent = StatBlk(batch[fileNameIndex].name)
    BY <1>2 DEF HeaderBlk
  <2> QED
    BY <1>1, <1>2, <2>1, FileOfBatch, StatBlkIsBlk
<1>3. CASE sPc \in {"blkLast", "reLast", "reply", "reReply"}
  <2>1. sFileD \in 1..Len(batch)
    BY <1>1, <1>3 DEF SenderFileInv
  <2>2. Data \in Seq(Byte) /\ Len(Data) \in Nat
    BY <1>1, <2>1, FileOfBatch DEF Data
  <2>3. PICK k \in 1..Len(Data) : blkSent = DataBlk(Data, k)
    BY <1>1, <1>3 DEF BlocksInv, SendingBlk, AwaitingReply
  <2>4. k \in Nat \ {0}
    BY <2>2
  <2> QED
    BY <1>3, <2>2, <2>3, <2>4, DataBlkIsBlk
<1>4. CASE sPc \in {"finMost", "finLast", "finAck", "done"}
  <2>1. 0 \in Byte
    BY DEF Byte
  <2> QED
    BY <1>4, <2>1, StatBlkIsBlk DEF HeaderBlk
<1> QED
  BY <1>2, <1>3, <1>4

-----------------------------------------------------------------------------
(* The steps of the sender.                                                *)

USE DEF sFile, sBlk, away, flags, rStore, far

LEMMA WireSeqs ==
  ASSUME IInv
  PROVE  /\ s2m \in Seq(Byte) /\ m2r \in Seq(Byte) /\ r2m \in Seq(Byte) /\ m2s \in Seq(Byte)
         /\ blkBuf \in Block /\ blkSent \in Block
         /\ Len(batch) \in Nat /\ fileNameIndex \in Nat
<1>1. Len(batch) \in Nat
  BY BatchesAssumption, LenProperties DEF IInv, SInv, SenderTypeOK
<1> QED
  BY <1>1 DEF IInv, WireTypeOK, SInv, SenderTypeOK

\* prepStatBlk prepares the header of the next file, or the empty one.
LEMMA PreparedHeader ==
  ASSUME IInv, PrepStatBlk, batch' = batch
  PROVE  HeaderBlk' /\ sPc' \in {"readC", "finMost"}
<1>1. Len(batch) \in Nat /\ fileNameIndex \in Nat
  BY WireSeqs
<1>2. CASE fileNameIndex < Len(batch)
  <2>1. fileNameIndex + 1 \in 1..Len(batch)
    BY <1>1, <1>2
  <2>2. CASE batch[fileNameIndex + 1].openable
    <3>1. /\ sFileD' = fileNameIndex + 1 /\ fileNameIndex' = fileNameIndex + 1
          /\ blkBuf' = StatBlk(batch[fileNameIndex + 1].name)
          /\ sPc' = "readC"
      BY <1>1, <1>2, <2>1, <2>2 DEF PrepStatBlk
    <3> QED
      BY <2>1, <3>1 DEF HeaderBlk
  <2>3. CASE ~batch[fileNameIndex + 1].openable
    <3>1. sFileD' = -1 /\ fileNameIndex' = fileNameIndex + 1 /\ sPc' = "readC"
      BY <1>1, <1>2, <2>1, <2>3 DEF PrepStatBlk
    <3> QED
      BY <2>1, <2>3, <3>1 DEF HeaderBlk
  <2> QED
    BY <2>2, <2>3
<1>3. CASE ~(fileNameIndex < Len(batch))
  <2>1. blkBuf' = StatBlk(0) /\ sPc' = "finMost"
    BY <1>1, <1>3 DEF PrepStatBlk
  <2> QED
    BY <2>1 DEF HeaderBlk
<1> QED
  BY <1>2, <1>3

\* An empty wire and what is written to it.
\* The sender writes all of a block but its last byte.
LEMMA MostLen ==
  ASSUME NEW blk \in Block
  PROVE  MostOf(blk) \in Seq(Byte) /\ Len(MostOf(blk)) = BLK_SZ - 1
<1>1. MostOf(blk) \in Seq(Byte)
  BY MostOfType
<1>2. Travels(blk, 0, BLK_SZ - 1, MostOf(blk), <<>>, "first")
  BY TravelStarts
<1>3. PICK p \in {0, 1, BLK_SZ - 1, BLK_SZ} :
        Len(MostOf(blk)) = (BLK_SZ - 1) - p /\ Len(<<>>) = p - 0
  BY <1>2 DEF Travels
<1>4. p = 0
  BY <1>3, BlkSz
<1> QED
  BY <1>1, <1>3, <1>4, BlkSz

LEMMA WrittenMost ==
  ASSUME NEW blk \in Block, NEW s \in Seq(Byte), s = <<>>
  PROVE  s \o <<>> \o MostOf(blk) = MostOf(blk) /\ s \o MostOf(blk) = MostOf(blk)
<1>1. MostOf(blk) \in Seq(Byte)
  BY MostOfType
<1>2. s \o <<>> = <<>>
  BY ConcatEmptySeq
<1> QED
  BY <1>1, <1>2, ConcatEmptySeq

LEMMA StartDialogue ==
  ASSUME IInv, Protocol, Start, UNCHANGED <<rVars, mVars>>
  PROVE  Protocol' /\ HeaderBlk'
<1>1. /\ sPc = "start" /\ PrepStatBlk /\ batch' = batch
      /\ UNCHANGED <<s2m, m2r, r2m, m2s, rPc, mPc>>
  BY DEF Start, wires, rVars, mVars
<1>2. BeforeHdr
  BY <1>1 DEF Protocol
<1>3. BeforeHdr'
  BY <1>1, <1>2 DEF BeforeHdr, Quiet, Replies
<1>4. HeaderBlk' /\ sPc' \in {"readC", "finMost"}
  BY <1>1, PreparedHeader
<1> QED
  BY <1>3, <1>4 DEF Protocol

LEMMA ReadCDialogue ==
  ASSUME IInv, Protocol, HeaderBlk, ReadC, sFileD # -1, UNCHANGED <<rVars, mVars>>
  PROVE  Protocol' /\ HeaderBlk'
<1>1. /\ sPc = "readC" /\ sPc' = "statLast" /\ m2s # <<>> /\ m2s' = Tail(m2s)
      /\ UNCHANGED <<m2r, r2m, batch, fileNameIndex, blkBuf, rPc, mPc>>
      /\ SendMostNew(IF sFileD = -1 THEN CANs ELSE <<>>)
  BY DEF ReadC, ReadByte, rVars, mVars
<1>2. /\ sFileD = fileNameIndex /\ fileNameIndex \in 1..Len(batch)
      /\ blkBuf = StatBlk(batch[fileNameIndex].name)
  BY <1>1 DEF HeaderBlk
<1>4. blkSent' = blkBuf /\ s2m' = s2m \o <<>> \o MostOf(blkBuf)
  BY <1>1 DEF SendMostNew
<1>5. BeforeHdr
  BY <1>1 DEF Protocol
<1>6. Quiet /\ rPc = "hdr1" /\ Replies(<<Cs>>)
  BY <1>1, <1>5, WireSeqs, NoneComing DEF BeforeHdr, Replies
<1>7. Replies(<<>>)'
  BY <1>1, <1>6, WireSeqs, ReadReplies DEF Replies
<1>8. s2m' = MostOf(blkBuf)
  BY <1>4, <1>6, WireSeqs, WrittenMost DEF Quiet
<1>9. InFlight(blkBuf, 0, BLK_SZ - 1)'
  BY <1>1, <1>4, <1>6, <1>8, WireSeqs, TravelStarts DEF Quiet, InFlight
<1> QED
  BY <1>1, <1>2, <1>4, <1>6, <1>7, <1>9 DEF Protocol, HdrComing, HeaderBlk, InFlight

LEMMA SendLastDialogue ==
  ASSUME IInv, Protocol, HeaderBlk, PrepNextSendLast \/ ResendLast, UNCHANGED <<rVars, mVars>>
  PROVE  (~exited' => Protocol') /\ HeaderBlk'
<1>1. /\ sPc \in {"statLast", "blkLast", "reLast"}
      /\ UNCHANGED <<m2r, r2m, batch, fileNameIndex, blkSent, rPc, mPc>>
  BY DEF PrepNextSendLast, ResendLast, rVars, mVars
<1>2. CASE exited' = TRUE
  <2>1. sPc' = sPc \/ sPc' \in {"statAck", "reply", "reReply"}
    BY DEF PrepNextSendLast, ResendLast
  <2>2. sPc' = "statAck" => sPc = "statLast"
    BY DEF PrepNextSendLast, ResendLast
  <2> QED
    BY <1>1, <1>2, <2>1, <2>2 DEF HeaderBlk
<1>3. CASE exited' # TRUE
  <2>1. /\ SendLastByte(blkSent)
        /\ sPc' = CASE sPc = "statLast" -> "statAck"
                    [] sPc = "blkLast"  -> "reply"
                    [] OTHER            -> "reReply"
    BY <1>1, <1>3 DEF PrepNextSendLast, ResendLast
  <2>2. s2m' = Append(s2m, blkSent[BLK_SZ]) /\ m2s' = <<>>
    BY <2>1 DEF SendLastByte
  <2>3. blkSent \in Block
    BY WireSeqs
  <2>4. ASSUME NEW got \in {0, 1}, InFlight(blkSent, got, BLK_SZ - 1)
        PROVE  InFlight(blkSent, got, BLK_SZ)'
    BY <1>1, <2>2, <2>3, <2>4, WireSeqs, TravelEnds DEF InFlight
  <2>5. ASSUME Replies(<<>>) PROVE Replies(<<>>)'
    BY <1>1, <2>2, <2>5, WireSeqs, NoneComing DEF Replies
  <2>6. CASE sPc = "statLast"
    <3>1. HdrComing(BLK_SZ - 1)
      BY <2>6 DEF Protocol
    <3>2. HdrComing(BLK_SZ)'
      BY <1>1, <2>4, <2>5, <3>1 DEF HdrComing
    <3>3. sPc' = "statAck"
      BY <2>1, <2>6
    <3> QED
      BY <1>1, <2>6, <3>2, <3>3 DEF Protocol, HeaderBlk
  <2>7. CASE sPc \in {"blkLast", "reLast"}
    <3>1. BlkComing(BLK_SZ - 1)
      BY <2>7 DEF Protocol
    <3>2. BlkComing(BLK_SZ)'
      BY <1>1, <2>4, <2>5, <3>1 DEF BlkComing
    <3>3. sPc' \in {"reply", "reReply"}
      BY <2>1, <2>7
    <3> QED
      BY <3>2, <3>3 DEF Protocol, HeaderBlk
  <2> QED
    BY <1>1, <2>6, <2>7
<1> QED
  BY <1>2, <1>3

LEMMA ReadStatAckDialogue ==
  ASSUME IInv, Protocol, ReadStatAck, UNCHANGED <<rVars, mVars>>
  PROVE  Protocol' /\ HeaderBlk'
<1>1. /\ sPc = "statAck" /\ sPc' = "statC" /\ m2s # <<>> /\ m2s' = Tail(m2s)
      /\ UNCHANGED <<s2m, m2r, r2m, rPc, mPc>>
  BY DEF ReadStatAck, ReadByte, rVars, mVars
<1>2. HdrTaken
  <2>1. HdrComing(BLK_SZ) \/ HdrTaken
    BY <1>1 DEF Protocol
  <2> QED
    BY <1>1, <2>1, WireSeqs, NoneComing DEF HdrComing, Replies
<1>3. HdrAnswered'
  BY <1>1, <1>2, WireSeqs, ReadReplies DEF HdrTaken, HdrAnswered, Quiet, Replies
<1> QED
  BY <1>1, <1>3 DEF Protocol, HeaderBlk

\* After a reply the next block is on its way, or the first EOT.
LEMMA NextBlkDialogue ==
  ASSUME IInv, NextBlkOrEot, UNCHANGED <<m2r, r2m, rPc, mPc, blkBuf>>,
         Quiet, Replies(<<>>)',
         rPc \in {"blk1", "write"} \/ (rPc = "done" /\ CreatMayFail)
  PROVE  Protocol' /\ HeaderBlk'
<1>1. CASE bytesRd = 0
  <2>1. s2m' = Append(s2m, EOT) /\ sPc' = "eotNak"
    BY <1>1 DEF NextBlkOrEot
  <2>2. EotComing'
    BY <2>1 DEF Quiet, EotComing
  <2> QED
    BY <2>1, <2>2 DEF FirstEot, Protocol, HeaderBlk
<1>2. CASE bytesRd # 0
  <2>1. /\ s2m' = s2m \o <<>> \o MostOf(blkBuf) /\ blkSent' = blkBuf
        /\ sPc' = "blkLast"
    BY <1>2 DEF NextBlkOrEot, SendMostNew
  <2>2. s2m' = MostOf(blkBuf)
    BY <2>1, WireSeqs, WrittenMost DEF Quiet
  <2>3. InFlight(blkSent, 0, BLK_SZ - 1)'
    BY <2>1, <2>2, WireSeqs, TravelStarts DEF Quiet, InFlight
  <2>4. BlkComing(BLK_SZ - 1)'
    BY <2>3 DEF BlkComing
  <2> QED
    BY <2>1, <2>4 DEF Protocol, HeaderBlk
<1> QED
  BY <1>1, <1>2

LEMMA ReadStatCDialogue ==
  ASSUME IInv, Protocol, ReadStatC, UNCHANGED <<rVars, mVars>>
  PROVE  Protocol' /\ HeaderBlk'
<1>1. /\ sPc = "statC" /\ m2s # <<>> /\ m2s' = Tail(m2s) /\ NextBlkOrEot
      /\ UNCHANGED <<m2r, r2m, blkBuf, rPc, mPc>>
  BY DEF ReadStatC, ReadByte, rVars, mVars
<1>2. HdrAnswered
  BY <1>1 DEF Protocol
<1>3. Quiet /\ \/ rPc = "blk1" /\ Replies(<<Cs>>)
               \/ rPc = "done" /\ CreatMayFail /\ Replies(<<Cancel>>)
  BY <1>1, <1>2, WireSeqs, NoneComing DEF HdrAnswered, Replies
<1>4. Replies(<<>>)'
  BY <1>1, <1>3, WireSeqs, ReadReplies DEF Replies
<1> QED
  BY <1>1, <1>3, <1>4, NextBlkDialogue

LEMMA ReadReplyDialogue ==
  ASSUME IInv, Protocol, ReadReply, UNCHANGED <<rVars, mVars>>
  PROVE  Protocol' /\ HeaderBlk'
<1>1. /\ sPc \in {"reply", "reReply"} /\ m2s # <<>> /\ m2s' = Tail(m2s)
      /\ UNCHANGED <<m2r, r2m, blkBuf, rPc, mPc>>
      /\ \/ s2m' = s2m \o MostOf(blkSent) /\ sPc' = "reLast" /\ blkSent' = blkSent
         \/ NextBlkOrEot
  BY DEF ReadReply, ReadByte, rVars, mVars
<1>2. BlkTaken
  <2>1. BlkComing(BLK_SZ) \/ BlkTaken
    BY <1>1 DEF Protocol
  <2> QED
    BY <1>1, <2>1, WireSeqs, NoneComing DEF BlkComing, Replies
<1>3. Quiet /\ rPc \in {"write", "blk1"} /\ Replies(<<>>)'
  BY <1>1, <1>2, WireSeqs, ReadReplies DEF BlkTaken, Replies
<1>4. CASE s2m' = s2m \o MostOf(blkSent) /\ sPc' = "reLast" /\ blkSent' = blkSent
  <2>1. s2m' = MostOf(blkSent)
    BY <1>3, <1>4, WireSeqs, WrittenMost DEF Quiet
  <2>2. InFlight(blkSent, 0, BLK_SZ - 1)'
    BY <1>1, <1>3, <1>4, <2>1, WireSeqs, TravelStarts DEF Quiet, InFlight
  <2>3. BlkComing(BLK_SZ - 1)'
    BY <1>1, <1>3, <2>2 DEF BlkComing
  <2> QED
    BY <1>4, <2>3 DEF Protocol, HeaderBlk
<1>5. CASE NextBlkOrEot
  BY <1>1, <1>3, <1>5, NextBlkDialogue
<1> QED
  BY <1>1, <1>4, <1>5

LEMMA ReadEotNakDialogue ==
  ASSUME IInv, Protocol, ReadEotNak, UNCHANGED <<rVars, mVars>>
  PROVE  Protocol' /\ HeaderBlk'
<1>1. /\ sPc = "eotNak" /\ sPc' = "eotAck" /\ m2s # <<>> /\ m2s' = Tail(m2s)
      /\ s2m' = Append(s2m, EOT)
      /\ UNCHANGED <<m2r, r2m, rPc, mPc>>
  BY DEF ReadEotNak, ReadByte, rVars, mVars
<1>2. FirstEot
  BY <1>1 DEF Protocol
<1>3. Quiet /\ rPc = "eot2" /\ Replies(<<No>>)
  BY <1>1, <1>2, WireSeqs, NoneComing DEF FirstEot, Replies
<1>4. Replies(<<>>)'
  BY <1>1, <1>3, WireSeqs, ReadReplies DEF Replies
<1>5. EotComing'
  BY <1>1, <1>3 DEF Quiet, EotComing
<1>6. SecondEot'
  BY <1>1, <1>3, <1>4, <1>5 DEF SecondEot
<1> QED
  BY <1>1, <1>6 DEF Protocol, HeaderBlk

LEMMA ReadEotAckDialogue ==
  ASSUME IInv, Protocol, ReadEotAck, UNCHANGED <<rVars, mVars>>
  PROVE  Protocol' /\ HeaderBlk'
<1>1. /\ sPc = "eotAck" /\ m2s # <<>> /\ m2s' = Tail(m2s) /\ PrepStatBlk /\ batch' = batch
      /\ UNCHANGED <<s2m, m2r, r2m, rPc, mPc>>
  BY DEF ReadEotAck, ReadByte, rVars, mVars
<1>2. SecondEot
  BY <1>1 DEF Protocol
<1>3. /\ Quiet
      /\ \/ rPc = "ncg" /\ Replies(<<Yes>>)
         \/ rPc = "hdr1" /\ Replies(<<Yes, Cs>>)
         \/ rPc = "hdr1" /\ CloseMayFail /\ Replies(<<Cs>>)
  BY <1>1, <1>2, WireSeqs, NoneComing DEF SecondEot, Replies
<1>4. BeforeHdr'
  BY <1>1, <1>3, WireSeqs, ReadReplies DEF BeforeHdr, Quiet, Replies
<1>5. HeaderBlk' /\ sPc' \in {"readC", "finMost"}
  BY <1>1, PreparedHeader
<1> QED
  BY <1>4, <1>5 DEF Protocol

LEMMA SendFinalDialogue ==
  ASSUME IInv, Protocol, HeaderBlk, SendFinalMost \/ SendFinalLast, UNCHANGED <<rVars, mVars>>
  PROVE  Protocol' /\ HeaderBlk'
<1>1. UNCHANGED <<m2r, r2m, blkBuf, rPc, mPc>>
  BY DEF SendFinalMost, SendFinalLast, rVars, mVars
<1>2. CASE SendFinalMost
  <2>1. sPc = "finMost" /\ sPc' = "finLast" /\ m2s' = m2s /\ s2m' = s2m \o MostOf(blkBuf)
    BY <1>2 DEF SendFinalMost
  <2>2. BeforeHdr
    BY <2>1 DEF Protocol
  <2>3. s2m' = MostOf(blkBuf)
    BY <2>1, <2>2, WireSeqs, WrittenMost DEF BeforeHdr, Quiet
  <2>4. InFlight(blkBuf, 0, BLK_SZ - 1)'
    BY <1>1, <2>2, <2>3, WireSeqs, TravelStarts DEF BeforeHdr, Quiet, InFlight
  <2>5. LastSent'
    BY <1>1, <2>1, <2>2, <2>4 DEF BeforeHdr, LastSent, Replies
  <2>6. HeaderBlk'
    BY <1>1, <2>1 DEF HeaderBlk
  <2> QED
    BY <2>1, <2>5, <2>6 DEF Protocol
<1>3. CASE SendFinalLast
  <2>1. sPc = "finLast" /\ sPc' = "finAck" /\ m2s' = <<>> /\ s2m' = Append(s2m, blkBuf[BLK_SZ])
    BY <1>3 DEF SendFinalLast, SendLastByte
  <2>2. LastSent
    BY <2>1 DEF Protocol
  <2>3. ASSUME NEW got \in {0, 1}, InFlight(blkBuf, got, BLK_SZ - 1)
        PROVE  InFlight(blkBuf, got, BLK_SZ)'
    BY <1>1, <2>1, <2>3, WireSeqs, TravelEnds DEF InFlight
  <2>4. /\ Replies(<<>>) => Replies(<<>>)'
        /\ Replies(<<Cs>>) => Replies(<<>>)' \/ Replies(<<Cs>>)'
    BY <1>1, <2>1, WireSeqs, DumpedReplies DEF Replies
  <2>5. LastComing'
    BY <1>1, <2>2, <2>3, <2>4 DEF LastSent, LastComing
  <2>6. HeaderBlk'
    BY <1>1, <2>1 DEF HeaderBlk
  <2> QED
    BY <2>1, <2>5, <2>6 DEF Protocol
<1> QED
  BY <1>2, <1>3

LEMMA ReadFinalAckDialogue ==
  ASSUME IInv, Protocol, HeaderBlk, ReadFinalAck, UNCHANGED <<rVars, mVars>>
  PROVE  Protocol' /\ HeaderBlk'
<1>1. /\ sPc = "finAck" /\ sPc' = "done" /\ m2s # <<>> /\ m2s' = Tail(m2s)
      /\ UNCHANGED <<s2m, m2r, r2m, blkBuf, rPc, mPc>>
  BY DEF ReadFinalAck, ReadByte, rVars, mVars
<1>2. LastComing \/ LastTaken
  BY <1>1 DEF Protocol
<1>3. ~Replies(<<>>)
  BY <1>1, WireSeqs, NoneComing DEF Replies
<1>4. CASE LastComing
  <2>1. /\ Replies(<<Cs>>)
        /\ \/ rPc = "hdr1" /\ InFlight(blkBuf, 0, BLK_SZ)
           \/ rPc = "hdrRest" /\ InFlight(blkBuf, 1, BLK_SZ)
    BY <1>3, <1>4 DEF LastComing
  <2>2. Replies(<<>>)'
    BY <1>1, <2>1, WireSeqs, ReadReplies DEF Replies
  <2>3. Returned'
    BY <1>1, <2>1, <2>2 DEF Returned, InFlight
  <2> QED
    BY <1>1, <2>3 DEF Protocol, HeaderBlk
<1>5. CASE LastTaken
  <2>1. Quiet'
    BY <1>1, <1>5 DEF LastTaken, Quiet
  <2>2. /\ Replies(<<Yes>>) => Replies(<<>>)'
        /\ Replies(<<Cs, Yes>>) => Replies(<<Yes>>)'
        /\ Replies(<<Yes, Cs>>) => Replies(<<Cs>>)'
        /\ Replies(<<Cs, Yes, Cs>>) => Replies(<<Yes, Cs>>)'
        /\ Replies(<<Cancel, Cancel>>) => Replies(<<Cancel>>)'
        /\ Replies(<<Cs, Cancel, Cancel>>) => Replies(<<Cancel, Cancel>>)'
    BY <1>1, WireSeqs, ReadReplies DEF Replies
  <2>3. Returned'
    BY <1>1, <1>5, <2>1, <2>2 DEF LastTaken, Returned
  <2> QED
    BY <1>1, <2>3 DEF Protocol, HeaderBlk
<1> QED
  BY <1>2, <1>4, <1>5

LEMMA SenderDialogue ==
  ASSUME IInv, PInv, ~Canceled', SenderStep
  PROVE  (~exited' => Protocol') /\ HeaderBlk'
<1>1. ~exited /\ UNCHANGED <<rVars, mVars>> /\ Protocol /\ HeaderBlk
  BY DEF SenderStep, SenderNext, PInv
<1>2. ReadC => sFileD # -1
  BY DEF ReadC, sFile, Canceled
<1> QED
  BY <1>1, <1>2, StartDialogue, ReadCDialogue, SendLastDialogue, ReadStatAckDialogue,
     ReadStatCDialogue, ReadReplyDialogue, ReadEotNakDialogue, ReadEotAckDialogue,
     SendFinalDialogue, ReadFinalAckDialogue DEF SenderStep, SenderNext

-----------------------------------------------------------------------------
(* The steps of the receiver.                                              *)

\* What a reply adds to those that are coming.
LEMMA Replied ==
  ASSUME IInv, m2s' = m2s
  PROVE  /\ r2m' = r2m \o <<NCG>> =>
              /\ Replies(<<>>) => Replies(<<Cs>>)'
              /\ Replies(<<Yes>>) => Replies(<<Yes, Cs>>)'
              /\ Replies(<<Cs, Yes>>) => Replies(<<Cs, Yes, Cs>>)'
         /\ r2m' = r2m \o <<ACK>> =>
              /\ Replies(<<>>) => Replies(<<Yes>>)'
              /\ Replies(<<Cs>>) => Replies(<<Cs, Yes>>)'
         /\ r2m' = r2m \o <<NAK>> =>
              /\ Replies(<<>>) => Replies(<<Yes>>)'
              /\ Replies(<<>>) => Replies(<<No>>)'
         /\ r2m' = r2m \o CANs =>
              /\ Replies(<<>>) => Replies(<<Cancel, Cancel>>)'
              /\ Replies(<<Cs>>) => Replies(<<Cs, Cancel, Cancel>>)'
<1>1. /\ NCG \in Byte /\ ACK \in Byte /\ NAK \in Byte /\ CAN \in Byte
      /\ NCG \in Cs /\ ACK \in Yes /\ NAK \in Yes /\ NAK \in No /\ CAN \in Cancel
  BY ControlBytes DEF Cs, Yes, No, Cancel
<1>2. r2m \in Seq(Byte) /\ m2s \in Seq(Byte)
  BY WireSeqs
<1>3. \A byte \in Byte : r2m \o <<byte>> \in Seq(Byte)
  <2> TAKE byte \in Byte
  <2>1. <<byte>> \in Seq(Byte)
    OBVIOUS
  <2> QED
    BY <1>2, <2>1, ConcatBytes
<1>4. r2m \o CANs = (r2m \o <<CAN>>) \o <<CAN>>
  <2> DEFINE s == <<CAN>>
  <2>1. s \in Seq(Byte) /\ Len(s) = 1 /\ s[1] = CAN
    BY <1>1
  <2>2. CANs \in Seq(Byte) /\ Len(CANs) = 2 /\ CANs[1] = CAN /\ CANs[2] = CAN
    BY <1>1 DEF CANs
  <2> HIDE DEF s
  <2>3. /\ s \o s \in Seq(Byte) /\ Len(s \o s) = Len(s) + Len(s)
        /\ \A i \in 1..Len(s) : (s \o s)[i] = s[i]
        /\ \A i \in 1..Len(s) : (s \o s)[Len(s) + i] = s[i]
    BY <2>1, ConcatAt
  <2>4. Len(s \o s) = 2 /\ (s \o s)[1] = CAN /\ (s \o s)[2] = CAN
    <3>1. 1 \in 1..Len(s)
      BY <2>1
    <3> QED
      BY <2>1, <2>3, <3>1
  <2>5. \A i \in 1..Len(CANs) : CANs[i] = (s \o s)[i]
    BY <2>2, <2>4
  <2>6. CANs = s \o s
    BY <2>2, <2>3, <2>4, <2>5, SeqEqual
  <2>7. r2m \o (s \o s) = (r2m \o s) \o s
    <3>1. r2m \in Seq(Byte)
      BY <1>2
    <3>2. s \in Seq(Byte)
      BY <2>1
    <3>3. \A u, v, w \in Seq(Byte) : (u \o v) \o w = u \o (v \o w)
      BY ConcatAssociative
    <3> HIDE DEF s
    <3> QED
      BY <3>1, <3>2, <3>3
  <2> QED
    BY <2>6, <2>7 DEF s
<1>5. ASSUME r2m' = r2m \o <<NCG>>
      PROVE  /\ Replies(<<>>) => Replies(<<Cs>>)'
             /\ Replies(<<Yes>>) => Replies(<<Yes, Cs>>)'
             /\ Replies(<<Cs, Yes>>) => Replies(<<Cs, Yes, Cs>>)'
  BY <1>1, <1>2, <1>5, AddReply DEF Replies
<1>6. ASSUME r2m' = r2m \o <<ACK>>
      PROVE  /\ Replies(<<>>) => Replies(<<Yes>>)'
             /\ Replies(<<Cs>>) => Replies(<<Cs, Yes>>)'
  BY <1>1, <1>2, <1>6, AddReply DEF Replies
<1>7. ASSUME r2m' = r2m \o <<NAK>>
      PROVE  /\ Replies(<<>>) => Replies(<<Yes>>)'
             /\ Replies(<<>>) => Replies(<<No>>)'
  BY <1>1, <1>2, <1>7, AddReply DEF Replies
<1>8. ASSUME r2m' = r2m \o CANs
      PROVE  /\ Replies(<<>>) => Replies(<<Cancel, Cancel>>)'
             /\ Replies(<<Cs>>) => Replies(<<Cs, Cancel, Cancel>>)'
  <2> DEFINE r1 == r2m \o <<CAN>>
  <2>1. r1 \in Seq(Byte) /\ r2m' = r1 \o <<CAN>>
    BY <1>1, <1>3, <1>4, <1>8
  <2>2. /\ Coming(m2s, r2m, <<>>) => Coming(m2s, r1, <<Cancel>>)
        /\ Coming(m2s, r2m, <<Cs>>) => Coming(m2s, r1, <<Cs, Cancel>>)
    BY <1>1, <1>2, AddReply
  <2> HIDE DEF r1
  <2>3. /\ Coming(m2s, r1, <<Cancel>>) => Coming(m2s, r1 \o <<CAN>>, <<Cancel, Cancel>>)
        /\ Coming(m2s, r1, <<Cs, Cancel>>) => Coming(m2s, r1 \o <<CAN>>, <<Cs, Cancel, Cancel>>)
    BY <1>1, <1>2, <2>1, AddReply
  <2> QED
    BY <2>1, <2>2, <2>3 DEF Replies
<1> QED
  BY <1>5, <1>6, <1>7, <1>8

\* The receiver's steps leave the sender alone.
LEMMA SenderWaits ==
  ASSUME UNCHANGED sVars, HeaderBlk
  PROVE  /\ HeaderBlk'
         /\ UNCHANGED <<sPc, blkSent, blkBuf>>
  BY DEF sVars, HeaderBlk

LEMMA SendNCGDialogue ==
  ASSUME IInv, Protocol, SendNCG, UNCHANGED <<sPc, blkSent, blkBuf, mPc>>
  PROVE  Protocol' /\ FirstByte'
<1>1. /\ rPc = "ncg" /\ rPc' = "hdr1" /\ r2m' = r2m \o <<NCG>>
      /\ UNCHANGED <<s2m, m2r, m2s>>
  BY DEF SendNCG, Reply
<1>2. /\ Replies(<<>>) => Replies(<<Cs>>)'
      /\ Replies(<<Yes>>) => Replies(<<Yes, Cs>>)'
  BY <1>1, Replied
<1>3. \A got, sent : InFlight(blkBuf, got, sent)' <=> InFlight(blkBuf, got, sent)
  BY <1>1 DEF InFlight
<1>4. BeforeHdr => BeforeHdr'
  BY <1>1, <1>2 DEF BeforeHdr, Quiet
<1>5. SecondEot => SecondEot'
  BY <1>1, <1>2 DEF SecondEot, Quiet
<1>6. LastSent => LastSent'
  BY <1>1, <1>2, <1>3 DEF LastSent
<1>7. LastComing => LastComing'
  BY <1>1, <1>2, <1>3 DEF LastComing
<1>8. sPc \in {"start", "readC", "finMost", "eotAck", "finLast", "finAck"} /\ ~LastTaken
  <2>1. sPc \in SPcs
    BY DEF IInv, SInv, SenderTypeOK
  <2>2. /\ ~HdrTaken /\ ~HdrAnswered /\ ~BlkTaken /\ ~FirstEot /\ ~LastTaken /\ ~Returned
        /\ \A q : ~HdrComing(q) /\ ~BlkComing(q)
    BY <1>1 DEF HdrComing, HdrTaken, HdrAnswered, BlkComing, BlkTaken, FirstEot, LastTaken, Returned
  <2> QED
    BY <2>1, <2>2 DEF Protocol, SPcs, ReadingPcs
<1> QED
  BY <1>1, <1>4, <1>5, <1>6, <1>7, <1>8 DEF Protocol, FirstByte

\* The receiver reads the first byte of a header.
LEMMA ReadHdrFirstDialogue ==
  ASSUME IInv, Protocol, HeaderBlk, ReadHdrFirst, UNCHANGED <<sPc, blkSent, blkBuf, mPc>>
  PROVE  Protocol' /\ FirstByte'
<1>1. /\ rPc = "hdr1" /\ rPc' = "hdrRest" /\ m2r # <<>> /\ m2r' = Tail(m2r)
      /\ rcvBlk' = [rcvBlk EXCEPT ![1] = Head(m2r)]
      /\ UNCHANGED <<s2m, m2s, r2m>>
  BY DEF ReadHdrFirst, ReadFirst
<1>2. \A expected : Replies(expected)' <=> Replies(expected)
  BY <1>1 DEF Replies
<1>3. ASSUME NEW blk, IsBlk(blk), NEW q \in {BLK_SZ - 1, BLK_SZ}, InFlight(blk, 0, q)
      PROVE  Head(m2r) = SOH /\ Travels(blk, 1, q, s2m', m2r', mPc')
  BY <1>1, <1>3, WireSeqs, BlkBytes, TravelGot DEF InFlight
<1>4. ~Quiet
  BY <1>1 DEF Quiet
<1>5. BLK_SZ \in {BLK_SZ - 1, BLK_SZ} /\ BLK_SZ - 1 \in {BLK_SZ - 1, BLK_SZ}
  OBVIOUS
<1>6. ASSUME sPc \in {"statLast", "statAck"}, NEW q \in {BLK_SZ - 1, BLK_SZ}, HdrComing(q)
      PROVE  HdrComing(q)' /\ Head(m2r) = SOH
  <2>1. Replies(<<>>) /\ InFlight(blkSent, 0, q)
    BY <1>1, <1>6 DEF HdrComing
  <2> QED
    BY <1>1, <1>2, <1>3, <1>6, <2>1, SentIsBlk DEF HdrComing, InFlight
<1>7. ASSUME sPc = "finLast", LastSent
      PROVE  LastSent' /\ Head(m2r) = SOH
  <2>1. (Replies(<<Cs>>) \/ (CloseMayFail /\ Replies(<<>>))) /\ InFlight(blkBuf, 0, BLK_SZ - 1)
    BY <1>1, <1>7 DEF LastSent
  <2> QED
    BY <1>1, <1>2, <1>3, <1>5, <1>7, <2>1, SentIsBlk DEF LastSent, InFlight
<1>8. ASSUME sPc = "finAck", LastComing
      PROVE  LastComing' /\ Head(m2r) = SOH
  <2>1. (Replies(<<>>) \/ Replies(<<Cs>>)) /\ InFlight(blkBuf, 0, BLK_SZ)
    BY <1>1, <1>8 DEF LastComing
  <2> QED
    BY <1>1, <1>2, <1>3, <1>5, <1>8, <2>1, SentIsBlk DEF LastComing, InFlight
<1>9. ASSUME sPc = "done", Returned
      PROVE  Returned' /\ Head(m2r) = SOH
  <2>1. Replies(<<>>) /\ InFlight(blkBuf, 0, BLK_SZ)
    BY <1>1, <1>4, <1>9 DEF Returned
  <2> QED
    BY <1>1, <1>2, <1>3, <1>5, <1>9, <2>1, SentIsBlk DEF Returned, InFlight
<1>10. sPc \in {"statLast", "statAck", "finLast", "finAck", "done"} /\ ~HdrTaken /\ ~LastTaken
  <2>1. sPc \in SPcs
    BY DEF IInv, SInv, SenderTypeOK
  <2>2. /\ ~BeforeHdr /\ ~HdrTaken /\ ~HdrAnswered /\ ~BlkTaken /\ ~FirstEot /\ ~SecondEot
        /\ ~LastTaken /\ \A q : ~BlkComing(q)
    BY <1>1, <1>4 DEF BeforeHdr, HdrTaken, HdrAnswered, BlkComing, BlkTaken, FirstEot, SecondEot,
                      LastTaken
  <2> QED
    BY <2>1, <2>2 DEF Protocol, SPcs, ReadingPcs
<1>11. Protocol' /\ Head(m2r) = SOH
  BY <1>1, <1>5, <1>6, <1>7, <1>8, <1>9, <1>10 DEF Protocol
<1>12. rcvBlk'[1] = SOH
  <2>1. rcvBlk \in Block /\ 1 \in 1..BLK_SZ
    BY BlkSz DEF IInv, RInv, ReceiverTypeOK
  <2> QED
    BY <1>1, <1>11, <2>1 DEF Block
<1> QED
  BY <1>11, <1>12 DEF FirstByte

\* A block the receiver can read to its end has been sent to its end.
LEMMA RestIsThere ==
  ASSUME IInv, FirstByte, rPc \in {"hdrRest", "blkRest"}, GetRestBlk, UNCHANGED <<s2m, mPc>>,
         NEW blk, IsBlk(blk), NEW q \in {BLK_SZ - 1, BLK_SZ}, InFlight(blk, 1, q)
  PROVE  /\ q = BLK_SZ /\ Quiet'
         /\ \E x \in {0} \cup 2..BLK_SZ : rcvBlk' = Hit(blk, x)
<1>1. /\ Len(m2r) >= REST_BLK_SZ /\ m2r' = Left(m2r, REST_BLK_SZ)
      /\ rcvBlk' = [i \in 1..BLK_SZ |-> IF i = 1 THEN SOH ELSE m2r[i - 1]]
  BY DEF GetRestBlk, Classify, FirstByte
<1>2. /\ q = BLK_SZ /\ s2m = <<>> /\ mPc = "first"
      /\ Left(m2r, REST_BLK_SZ) = <<>>
      /\ \E x \in {0} \cup 2..BLK_SZ :
           [i \in 1..BLK_SZ |-> IF i = 1 THEN SOH ELSE m2r[i - 1]] = Hit(blk, x)
  BY <1>1, WireSeqs, BlkBytes, TravelIsRead DEF InFlight
<1> QED
  BY <1>1, <1>2 DEF Quiet

LEMMA GetHdrRestDialogue ==
  ASSUME IInv, Protocol, HeaderBlk, FirstByte, GetHdrRest,
         UNCHANGED <<sPc, blkSent, blkBuf, mPc>>
  PROVE  Protocol' /\ FirstByte'
<1>1. /\ rPc = "hdrRest" /\ GetRestBlk /\ UNCHANGED <<s2m, m2s>>
      /\ \/ rPc' \in {"done", "ncg2"} /\ r2m' = r2m \o <<ACK>>
         \/ rPc' = "done" /\ CreatMayFail /\ r2m' = r2m \o CANs
  BY DEF GetHdrRest, Reply
<1>2. ASSUME NEW blk, IsBlk(blk), NEW q \in {BLK_SZ - 1, BLK_SZ}, InFlight(blk, 1, q)
      PROVE  q = BLK_SZ /\ Quiet'
  BY <1>1, <1>2, RestIsThere
<1>3. /\ r2m' = r2m \o <<ACK>> =>
              /\ Replies(<<>>) => Replies(<<Yes>>)'
              /\ Replies(<<Cs>>) => Replies(<<Cs, Yes>>)'
      /\ r2m' = r2m \o CANs =>
              /\ Replies(<<>>) => Replies(<<Cancel, Cancel>>)'
              /\ Replies(<<Cs>>) => Replies(<<Cs, Cancel, Cancel>>)'
  BY <1>1, Replied
<1>4. BLK_SZ \in {BLK_SZ - 1, BLK_SZ} /\ BLK_SZ - 1 \in {BLK_SZ - 1, BLK_SZ} /\ BLK_SZ - 1 # BLK_SZ
  BY BlkSz
<1>5. ~Quiet
  BY <1>1, BlkSz, EmptySeq DEF Quiet, GetRestBlk
<1>6. ASSUME sPc \in {"statLast", "statAck"}, NEW q \in {BLK_SZ - 1, BLK_SZ}, HdrComing(q)
      PROVE  q = BLK_SZ /\ HdrTaken'
  <2>1. Replies(<<>>) /\ InFlight(blkSent, 1, q)
    BY <1>1, <1>6 DEF HdrComing
  <2>2. q = BLK_SZ /\ Quiet'
    BY <1>2, <1>6, <2>1, SentIsBlk
  <2> QED
    BY <1>1, <1>3, <2>1, <2>2 DEF HdrTaken
<1>7. ~(sPc = "finLast" /\ LastSent)
  BY <1>1, <1>2, <1>4, SentIsBlk DEF LastSent
<1>8. ASSUME sPc = "finAck", LastComing
      PROVE  LastTaken'
  <2>1. (Replies(<<>>) \/ Replies(<<Cs>>)) /\ InFlight(blkBuf, 1, BLK_SZ)
    BY <1>1, <1>8 DEF LastComing
  <2>2. Quiet'
    BY <1>2, <1>4, <1>8, <2>1, SentIsBlk
  <2> QED
    BY <1>1, <1>3, <2>1, <2>2 DEF LastTaken
<1>9. ASSUME sPc = "done", Returned
      PROVE  Returned'
  <2>1. Replies(<<>>) /\ InFlight(blkBuf, 1, BLK_SZ)
    BY <1>1, <1>5, <1>9 DEF Returned
  <2>2. Quiet'
    BY <1>2, <1>4, <1>9, <2>1, SentIsBlk
  <2> QED
    BY <1>1, <1>3, <2>1, <2>2 DEF Returned
<1>10. sPc \in {"statLast", "statAck", "finLast", "finAck", "done"} /\ ~HdrTaken /\ ~LastTaken
  <2>1. sPc \in SPcs
    BY DEF IInv, SInv, SenderTypeOK
  <2>2. /\ ~BeforeHdr /\ ~HdrTaken /\ ~HdrAnswered /\ ~BlkTaken /\ ~FirstEot /\ ~SecondEot
        /\ ~LastTaken /\ \A q : ~BlkComing(q)
    BY <1>1, <1>5 DEF BeforeHdr, HdrTaken, HdrAnswered, BlkComing, BlkTaken, FirstEot, SecondEot,
                      LastTaken
  <2> QED
    BY <2>1, <2>2 DEF Protocol, SPcs, ReadingPcs
<1> QED
  BY <1>1, <1>4, <1>6, <1>7, <1>8, <1>9, <1>10 DEF Protocol, FirstByte

LEMMA SendSecondNCGDialogue ==
  ASSUME IInv, Protocol, SendSecondNCG, UNCHANGED <<sPc, blkSent, blkBuf, mPc>>
  PROVE  Protocol' /\ FirstByte'
<1>1. /\ rPc = "ncg2" /\ rPc' = "blk1" /\ r2m' = r2m \o <<NCG>>
      /\ UNCHANGED <<s2m, m2r, m2s>>
  BY DEF SendSecondNCG, Reply
<1>2. /\ Replies(<<>>) => Replies(<<Cs>>)'
      /\ Replies(<<Yes>>) => Replies(<<Yes, Cs>>)'
      /\ Replies(<<Cs, Yes>>) => Replies(<<Cs, Yes, Cs>>)'
  BY <1>1, Replied
<1>3. HdrTaken => HdrTaken'
  BY <1>1, <1>2 DEF HdrTaken, Quiet
<1>4. HdrAnswered => HdrAnswered'
  BY <1>1, <1>2 DEF HdrAnswered, Quiet
<1>5. LastTaken => LastTaken'
  BY <1>1, <1>2 DEF LastTaken, Quiet
<1>6. Returned => Returned'
  BY <1>1, <1>2 DEF Returned, Quiet
<1>7. sPc \in {"statAck", "statC", "finAck", "done"}
  <2>1. sPc \in SPcs
    BY DEF IInv, SInv, SenderTypeOK
  <2>2. /\ ~BeforeHdr /\ ~BlkTaken /\ ~FirstEot /\ ~SecondEot /\ ~LastSent /\ ~LastComing
        /\ \A q : ~HdrComing(q) /\ ~BlkComing(q)
    BY <1>1 DEF BeforeHdr, HdrComing, BlkComing, BlkTaken, FirstEot, SecondEot, LastSent, LastComing
  <2> QED
    BY <2>1, <2>2 DEF Protocol, SPcs, ReadingPcs
<1>8. ~LastComing /\ \A q : ~HdrComing(q)
  BY <1>1 DEF HdrComing, LastComing
<1> QED
  BY <1>1, <1>3, <1>4, <1>5, <1>6, <1>7, <1>8 DEF Protocol, FirstByte

\* The receiver reads the first byte of a block, or the first EOT.
LEMMA ReadBlkFirstDialogue ==
  ASSUME IInv, Protocol, HeaderBlk, ReadBlkFirst, UNCHANGED <<sPc, blkSent, blkBuf, mPc>>
  PROVE  /\ Protocol' /\ FirstByte'
         /\ rPc' = "eot2" => Head(m2r) = EOT
<1>1. /\ rPc = "blk1" /\ m2r # <<>> /\ m2r' = Tail(m2r)
      /\ rcvBlk' = [rcvBlk EXCEPT ![1] = Head(m2r)]
      /\ UNCHANGED <<s2m, m2s>>
      /\ \/ Head(m2r) = SOH /\ rPc' = "blkRest" /\ r2m' = r2m
         \/ Head(m2r) # SOH /\ rPc' = "eot2" /\ r2m' = r2m \o <<NAK>>
  BY DEF ReadBlkFirst, ReadFirst, Reply
<1>2. ~Quiet
  BY <1>1 DEF Quiet
<1>3. BLK_SZ \in {BLK_SZ - 1, BLK_SZ} /\ BLK_SZ - 1 \in {BLK_SZ - 1, BLK_SZ}
  OBVIOUS
<1>4. ASSUME sPc \in {"blkLast", "reLast", "reply", "reReply"},
             NEW q \in {BLK_SZ - 1, BLK_SZ}, BlkComing(q)
      PROVE  BlkComing(q)' /\ rPc' = "blkRest" /\ Head(m2r) = SOH
  <2>1. Replies(<<>>) /\ InFlight(blkSent, 0, q)
    BY <1>1, <1>4 DEF BlkComing
  <2>2. IsBlk(blkSent)
    BY <1>4, SentIsBlk
  <2>3. Head(m2r) = SOH /\ Travels(blkSent, 1, q, s2m', m2r', mPc')
    BY <1>1, <2>1, <2>2, WireSeqs, BlkBytes, TravelGot DEF InFlight
  <2>4. Replies(<<>>)'
    BY <1>1, <2>1, <2>3 DEF Replies
  <2> QED
    BY <1>1, <2>3, <2>4 DEF BlkComing, InFlight
<1>5. ASSUME sPc = "eotNak", FirstEot
      PROVE  FirstEot' /\ rPc' = "eot2" /\ Head(m2r) = EOT
  <2>1. EotComing /\ Replies(<<>>)
    BY <1>1, <1>2, <1>5 DEF FirstEot
  <2>2. s2m = <<>> /\ m2r = <<EOT>> /\ mPc = "first"
    BY <1>1, <2>1 DEF EotComing
  <2>3. Head(m2r) = EOT /\ Tail(m2r) = <<>>
    BY <2>2
  <2>4. rPc' = "eot2" /\ r2m' = r2m \o <<NAK>>
    BY <1>1, <2>3 DEF SOH, EOT
  <2>5. Replies(<<No>>)'
    BY <1>1, <2>1, <2>4, Replied
  <2> QED
    BY <1>1, <2>2, <2>3, <2>4, <2>5 DEF FirstEot, Quiet
<1>6. sPc \in {"blkLast", "reLast", "reply", "reReply", "eotNak"} /\ ~BlkTaken
  <2>1. sPc \in SPcs
    BY DEF IInv, SInv, SenderTypeOK
  <2>2. /\ ~BeforeHdr /\ ~HdrTaken /\ ~HdrAnswered /\ ~BlkTaken /\ ~SecondEot /\ ~LastSent
        /\ ~LastComing /\ ~LastTaken /\ ~Returned /\ \A q : ~HdrComing(q)
    BY <1>1, <1>2 DEF BeforeHdr, HdrComing, HdrTaken, HdrAnswered, BlkTaken, SecondEot, LastSent,
                      LastComing, LastTaken, Returned
  <2> QED
    BY <2>1, <2>2 DEF Protocol, SPcs, ReadingPcs
<1>7. Protocol' /\ (rPc' = "eot2" => Head(m2r) = EOT) /\ (rPc' = "blkRest" => Head(m2r) = SOH)
  BY <1>1, <1>3, <1>4, <1>5, <1>6 DEF Protocol
<1>8. rPc' = "blkRest" => rcvBlk'[1] = SOH
  <2>1. rcvBlk \in Block /\ 1 \in 1..BLK_SZ
    BY BlkSz DEF IInv, RInv, ReceiverTypeOK
  <2> QED
    BY <1>1, <1>7, <2>1 DEF Block
<1>9. rPc' # "hdrRest"
  BY <1>1
<1> QED
  BY <1>7, <1>8, <1>9 DEF FirstByte

LEMMA GetBlkRestDialogue ==
  ASSUME IInv, Protocol, HeaderBlk, FirstByte, GetBlkRest,
         UNCHANGED <<sPc, blkSent, blkBuf, mPc>>
  PROVE  /\ Protocol' /\ FirstByte'
         /\ \E x \in {0} \cup 2..BLK_SZ : rcvBlk' = Hit(blkSent, x)
         /\ sPc \in {"reply", "reReply"}
<1>1. /\ rPc = "blkRest" /\ GetRestBlk /\ UNCHANGED <<s2m, m2s>>
      /\ \/ rPc' = "write" /\ r2m' = r2m \o <<ACK>>
         \/ rPc' = "blk1" /\ r2m' = r2m \o <<NAK>>
  BY DEF GetBlkRest, Reply
<1>2. ~Quiet
  BY <1>1, BlkSz, EmptySeq DEF Quiet, GetRestBlk
<1>3. BLK_SZ \in {BLK_SZ - 1, BLK_SZ} /\ BLK_SZ - 1 \in {BLK_SZ - 1, BLK_SZ} /\ BLK_SZ - 1 # BLK_SZ
  BY BlkSz
<1>4. ASSUME sPc \in {"blkLast", "reLast", "reply", "reReply"},
             NEW q \in {BLK_SZ - 1, BLK_SZ}, BlkComing(q)
      PROVE  /\ q = BLK_SZ /\ BlkTaken'
             /\ \E x \in {0} \cup 2..BLK_SZ : rcvBlk' = Hit(blkSent, x)
  <2>1. Replies(<<>>) /\ InFlight(blkSent, 1, q)
    BY <1>1, <1>4 DEF BlkComing
  <2>2. IsBlk(blkSent)
    BY <1>4, SentIsBlk
  <2>3. /\ q = BLK_SZ /\ Quiet'
        /\ \E x \in {0} \cup 2..BLK_SZ : rcvBlk' = Hit(blkSent, x)
    BY <1>1, <2>1, <2>2, RestIsThere
  <2>4. Replies(<<Yes>>)'
    BY <1>1, <2>1, Replied
  <2> QED
    BY <1>1, <2>3, <2>4 DEF BlkTaken
<1>5. sPc \in {"blkLast", "reLast", "reply", "reReply"} /\ ~BlkTaken
  <2>1. sPc \in SPcs
    BY DEF IInv, SInv, SenderTypeOK
  <2>2. /\ ~BeforeHdr /\ ~HdrTaken /\ ~HdrAnswered /\ ~BlkTaken /\ ~FirstEot /\ ~SecondEot
        /\ ~LastSent /\ ~LastComing /\ ~LastTaken /\ ~Returned /\ \A q : ~HdrComing(q)
    BY <1>1, <1>2 DEF BeforeHdr, HdrComing, HdrTaken, HdrAnswered, BlkTaken, FirstEot, SecondEot,
                      LastSent, LastComing, LastTaken, Returned
  <2> QED
    BY <2>1, <2>2 DEF Protocol, SPcs, ReadingPcs
<1>6. ~(sPc \in {"blkLast", "reLast"})
  BY <1>3, <1>4, <1>5 DEF Protocol
<1> QED
  BY <1>1, <1>3, <1>4, <1>5, <1>6 DEF Protocol, FirstByte

LEMMA WriteChunkDialogue ==
  ASSUME IInv, Protocol, WriteChunk, UNCHANGED <<sPc, blkSent, blkBuf, mPc>>
  PROVE  (~exited' => Protocol') /\ FirstByte'
<1>1. /\ rPc = "write" /\ UNCHANGED <<s2m, m2r, r2m, m2s>>
      /\ rPc' = "blk1" \/ (rPc' = "write" /\ exited' = TRUE)
  BY DEF WriteChunk
<1>2. CASE rPc' = "blk1"
  <2>1. /\ \A expected : Replies(expected)' <=> Replies(expected)
        /\ \A got, sent : InFlight(blkSent, got, sent)' <=> InFlight(blkSent, got, sent)
        /\ Quiet' <=> Quiet
        /\ EotComing' <=> EotComing
    BY <1>1 DEF Replies, InFlight, Quiet, EotComing
  <2>2. \A q : BlkComing(q) => BlkComing(q)'
    BY <1>1, <1>2, <2>1 DEF BlkComing
  <2>3. BlkTaken => BlkTaken'
    BY <1>1, <1>2, <2>1 DEF BlkTaken
  <2>4. FirstEot => FirstEot'
    BY <1>1, <1>2, <2>1 DEF FirstEot
  <2>5. sPc \in {"blkLast", "reLast", "reply", "reReply", "eotNak"}
    <3>1. sPc \in SPcs
      BY DEF IInv, SInv, SenderTypeOK
    <3>2. /\ ~BeforeHdr /\ ~HdrTaken /\ ~HdrAnswered /\ ~SecondEot
          /\ ~LastSent /\ ~LastComing /\ ~LastTaken /\ ~Returned /\ \A q : ~HdrComing(q)
      BY <1>1 DEF BeforeHdr, HdrComing, HdrTaken, HdrAnswered, SecondEot,
                  LastSent, LastComing, LastTaken, Returned
    <3> QED
      BY <3>1, <3>2 DEF Protocol, SPcs, ReadingPcs
  <2> QED
    BY <1>2, <2>2, <2>3, <2>4, <2>5 DEF Protocol, FirstByte
<1>3. CASE rPc' = "write" /\ exited' = TRUE
  BY <1>3 DEF FirstByte
<1> QED
  BY <1>1, <1>2, <1>3

LEMMA ReadSecondEotDialogue ==
  ASSUME IInv, Protocol, ReadSecondEot, UNCHANGED <<sPc, blkSent, blkBuf, mPc>>
  PROVE  Protocol' /\ FirstByte' /\ sPc = "eotAck"
<1>1. /\ rPc = "eot2" /\ rPc' = "ncg" /\ m2r # <<>> /\ m2r' = Tail(m2r)
      /\ UNCHANGED <<s2m, m2s>>
      /\ \/ r2m' = r2m \o <<ACK>>
         \/ CloseMayFail /\ r2m' = r2m
  BY DEF ReadSecondEot, ReadFirst, Reply
<1>2. ~Quiet
  BY <1>1 DEF Quiet
<1>3. sPc = "eotAck"
  <2>1. sPc \in SPcs
    BY DEF IInv, SInv, SenderTypeOK
  <2>2. /\ ~BeforeHdr /\ ~HdrTaken /\ ~HdrAnswered /\ ~BlkTaken /\ ~FirstEot
        /\ ~LastSent /\ ~LastComing /\ ~LastTaken /\ ~Returned
        /\ \A q : ~HdrComing(q) /\ ~BlkComing(q)
    BY <1>1, <1>2 DEF BeforeHdr, HdrComing, HdrTaken, HdrAnswered, BlkComing, BlkTaken, FirstEot,
                      LastSent, LastComing, LastTaken, Returned
  <2> QED
    BY <2>1, <2>2 DEF Protocol, SPcs, ReadingPcs
<1>4. EotComing /\ Replies(<<>>)
  <2>1. SecondEot
    BY <1>3 DEF Protocol
  <2> QED
    BY <1>1, <1>2, <2>1 DEF SecondEot
<1>5. Quiet'
  <2>1. s2m = <<>> /\ m2r = <<EOT>> /\ mPc = "first"
    BY <1>1, <1>4 DEF EotComing
  <2>2. Tail(m2r) = <<>>
    BY <2>1
  <2> QED
    BY <1>1, <2>1, <2>2 DEF Quiet
<1>6. Replies(<<Yes>>)' \/ (CloseMayFail /\ Replies(<<>>)')
  <2>1. CASE r2m' = r2m \o <<ACK>>
    BY <1>1, <1>4, <2>1, Replied
  <2>2. CASE CloseMayFail /\ r2m' = r2m
    BY <1>1, <1>4, <2>2 DEF Replies
  <2> QED
    BY <1>1, <2>1, <2>2
<1>7. SecondEot'
  BY <1>1, <1>5, <1>6 DEF SecondEot
<1> QED
  BY <1>1, <1>3, <1>7 DEF Protocol, FirstByte

LEMMA ReceiverDialogue ==
  ASSUME IInv, PInv, ReceiverStep
  PROVE  (~exited' => Protocol') /\ HeaderBlk' /\ FirstByte'
<1>1. /\ ~exited /\ Protocol /\ HeaderBlk /\ FirstByte
      /\ UNCHANGED sVars /\ UNCHANGED mPc
  BY DEF ReceiverStep, ReceiverNext, PInv, mVars
<1>2. HeaderBlk' /\ UNCHANGED <<sPc, blkSent, blkBuf>>
  BY <1>1, SenderWaits
<1> QED
  BY <1>1, <1>2, SendNCGDialogue, ReadHdrFirstDialogue, GetHdrRestDialogue,
     SendSecondNCGDialogue, ReadBlkFirstDialogue, GetBlkRestDialogue, WriteChunkDialogue,
     ReadSecondEotDialogue DEF ReceiverStep, ReceiverNext

-----------------------------------------------------------------------------
(* The steps of the medium.                                                *)

\* M1to2 passes the replies on.
LEMMA PassedReplies ==
  ASSUME IInv, MsgFromTerm1, NEW expected, Len(expected) \in Nat,
         \A i \in 1..Len(expected) : ACK \in expected[i] => NAK \in expected[i],
         Replies(expected)
  PROVE  Replies(expected)'
<1> DEFINE bytes == Taken(r2m, CAN_LEN)
           turn  == Head(bytes) = ACK /\ (ACKreceived + 1) % ACK_PERIOD = 0
<1>1. /\ r2m # <<>> /\ r2m' = Left(r2m, CAN_LEN)
      /\ m2s' = m2s \o (IF turn THEN [bytes EXCEPT ![1] = NAK] ELSE bytes)
  BY DEF MsgFromTerm1
<1>2. turn \in BOOLEAN /\ (turn => Head(bytes) = ACK)
  OBVIOUS
<1>3. CAN_LEN \in Nat \ {0}
  BY DEF CAN_LEN
<1>4. r2m \in Seq(Byte) /\ m2s \in Seq(Byte)
  BY WireSeqs
<1> HIDE DEF turn
<1>5. Coming(m2s \o (IF turn THEN [bytes EXCEPT ![1] = NAK] ELSE bytes), Left(r2m, CAN_LEN),
             expected)
  BY <1>1, <1>2, <1>3, <1>4, PassedComing DEF Replies
<1> QED
  BY <1>1, <1>5 DEF Replies

LEMMA RepliesPass ==
  ASSUME IInv, MsgFromTerm1
  PROVE  /\ Replies(<<>>) => Replies(<<>>)'
         /\ Replies(<<Yes>>) => Replies(<<Yes>>)'
         /\ Replies(<<No>>) => Replies(<<No>>)'
         /\ Replies(<<Cs>>) => Replies(<<Cs>>)'
         /\ Replies(<<Cancel>>) => Replies(<<Cancel>>)'
         /\ Replies(<<Yes, Cs>>) => Replies(<<Yes, Cs>>)'
         /\ Replies(<<Cs, Yes>>) => Replies(<<Cs, Yes>>)'
         /\ Replies(<<Cs, Yes, Cs>>) => Replies(<<Cs, Yes, Cs>>)'
         /\ Replies(<<Cancel, Cancel>>) => Replies(<<Cancel, Cancel>>)'
         /\ Replies(<<Cs, Cancel, Cancel>>) => Replies(<<Cs, Cancel, Cancel>>)'
<1>1. \A s \in {Yes, No, Cs, Cancel} : ACK \in s => NAK \in s
  BY DEF Yes, No, Cs, Cancel, ACK, NAK, NCG, CAN
<1>2. Replies(<<>>) => Replies(<<>>)'
  <2> DEFINE e == <<>>
  <2>1. Len(e) \in Nat /\ \A i \in 1..Len(e) : ACK \in e[i] => NAK \in e[i]
    OBVIOUS
  <2> HIDE DEF e
  <2>2. Replies(e) => Replies(e)'
    BY <2>1, PassedReplies
  <2> QED
    BY <2>2 DEF e
<1>3. ASSUME NEW a \in {Yes, No, Cs, Cancel}
      PROVE  Replies(<<a>>) => Replies(<<a>>)'
  <2> DEFINE e == <<a>>
  <2>1. Len(e) \in Nat /\ \A i \in 1..Len(e) : ACK \in e[i] => NAK \in e[i]
    BY <1>1
  <2> HIDE DEF e
  <2>2. Replies(e) => Replies(e)'
    BY <2>1, PassedReplies
  <2> QED
    BY <2>2 DEF e
<1>4. ASSUME NEW a \in {Yes, No, Cs, Cancel}, NEW b \in {Yes, No, Cs, Cancel}
      PROVE  Replies(<<a, b>>) => Replies(<<a, b>>)'
  <2> DEFINE e == <<a, b>>
  <2>1. Len(e) \in Nat /\ \A i \in 1..Len(e) : ACK \in e[i] => NAK \in e[i]
    BY <1>1
  <2> HIDE DEF e
  <2>2. Replies(e) => Replies(e)'
    BY <2>1, PassedReplies
  <2> QED
    BY <2>2 DEF e
<1>5. ASSUME NEW a \in {Yes, No, Cs, Cancel}, NEW b \in {Yes, No, Cs, Cancel},
             NEW c \in {Yes, No, Cs, Cancel}
      PROVE  Replies(<<a, b, c>>) => Replies(<<a, b, c>>)'
  <2> DEFINE e == <<a, b, c>>
  <2>1. Len(e) \in Nat /\ \A i \in 1..Len(e) : ACK \in e[i] => NAK \in e[i]
    BY <1>1
  <2> HIDE DEF e
  <2>2. Replies(e) => Replies(e)'
    BY <2>1, PassedReplies
  <2> QED
    BY <2>2 DEF e
<1> QED
  BY <1>2, <1>3, <1>4, <1>5

LEMMA M1to2Dialogue ==
  ASSUME IInv, PInv, M1to2Step
  PROVE  Protocol' /\ HeaderBlk' /\ FirstByte'
<1>1. /\ ~exited /\ Protocol /\ HeaderBlk /\ FirstByte /\ MsgFromTerm1
      /\ UNCHANGED <<sVars, rVars, s2m, m2r, mPc>>
  BY DEF M1to2Step, MsgFromTerm1, PInv
<1>2. /\ UNCHANGED <<sPc, fileNameIndex, sFileD, batch, blkBuf, blkSent, rPc, rcvBlk>>
  BY <1>1 DEF sVars, rVars
<1>3. HeaderBlk' /\ FirstByte'
  BY <1>1, <1>2 DEF HeaderBlk, FirstByte
<1>4. /\ \A blk, got, sent : InFlight(blk, got, sent) => Travels(blk, got, sent, s2m', m2r', mPc')
      /\ Quiet' <=> Quiet
      /\ EotComing' <=> EotComing
  BY <1>1 DEF InFlight, Quiet, EotComing
<1>5. /\ \A got, sent : InFlight(blkSent, got, sent) => InFlight(blkSent, got, sent)'
      /\ \A got, sent : InFlight(blkBuf, got, sent) => InFlight(blkBuf, got, sent)'
  BY <1>2, <1>4 DEF InFlight
<1>6. /\ BeforeHdr => BeforeHdr'
      /\ HdrTaken => HdrTaken'
      /\ HdrAnswered => HdrAnswered'
      /\ BlkTaken => BlkTaken'
      /\ FirstEot => FirstEot'
      /\ SecondEot => SecondEot'
  BY <1>1, <1>2, <1>4, RepliesPass
     DEF BeforeHdr, HdrTaken, HdrAnswered, BlkTaken, FirstEot, SecondEot
<1>7. /\ \A sent : HdrComing(sent) => HdrComing(sent)'
      /\ \A sent : BlkComing(sent) => BlkComing(sent)'
  BY <1>1, <1>2, <1>5, RepliesPass DEF HdrComing, BlkComing
<1>8. LastSent => LastSent'
  BY <1>1, <1>2, <1>5, RepliesPass DEF LastSent
<1>9. LastComing => LastComing'
  BY <1>1, <1>2, <1>5, RepliesPass DEF LastComing
<1>10. LastTaken => LastTaken'
  BY <1>1, <1>2, <1>4, RepliesPass DEF LastTaken
<1>11. Returned => Returned'
  BY <1>1, <1>2, <1>4, <1>5, RepliesPass DEF Returned
<1>12. Protocol'
  BY <1>1, <1>2, <1>6, <1>7, <1>8, <1>9, <1>10, <1>11 DEF Protocol
<1> QED
  BY <1>3, <1>12

\* M2to1 reads a byte, or the rest of a block.
LEMMA PassedBlk ==
  ASSUME IInv, MsgFromTerm2, mPc # "can", NEW blk, IsBlk(blk), NEW got \in {0, 1},
         NEW sent \in {BLK_SZ - 1, BLK_SZ}, sent = BLK_SZ - 1 => SafeEnd(blk),
         InFlight(blk, got, sent)
  PROVE  ~exited' => Travels(blk, got, sent, s2m', m2r', mPc')
<1>1. blk \in Block /\ blk[1] = SOH
  BY BlkBytes
<1>2. s2m \in Seq(Byte) /\ m2r \in Seq(Byte)
  BY WireSeqs
<1>3. CASE ReadOneFromTerm2
  <2>1. /\ mPc = "first" /\ s2m # <<>>
        /\ m2r' = Append(m2r, Head(s2m)) /\ s2m' = Tail(s2m)
        /\ mPc' = CASE Head(s2m) = CAN -> "can"
                    [] Head(s2m) = SOH -> "soh"
                    [] OTHER           -> "first"
    BY <1>3 DEF ReadOneFromTerm2
  <2>2. Travels(blk, got, sent, s2m, m2r, "first")
    BY <2>1 DEF InFlight
  <2>3. Travels(blk, got, sent, Tail(s2m), Append(m2r, Head(s2m)),
                CASE Head(s2m) = CAN -> "can"
                  [] Head(s2m) = SOH -> "soh"
                  [] OTHER           -> "first")
    BY <1>1, <1>2, <2>1, <2>2, TravelOne
  <2> QED
    BY <2>1, <2>3
<1>4. CASE ReadRestFromTerm2
  <2>1. Travels(blk, got, sent, s2m, m2r, "soh")
    BY <1>4 DEF InFlight, ReadRestFromTerm2
  <2>2. /\ Taken(s2m, REST_BLK_SZ) = s2m
        /\ Left(s2m, REST_BLK_SZ) = <<>>
        /\ Travels(blk, got, sent, <<>>, m2r \o s2m, "first")
        /\ \A place \in 0..(Len(s2m) - 1) :
             Travels(blk, got, sent, <<>>, m2r \o Damaged(s2m, place), "first")
    BY <1>1, <1>2, <2>1, TravelRest
  <2> DEFINE n     == Len(s2m)
             cnt   == CountAfter(byteCount + n)
             place == ByteToCorrupt(n, cnt)
  <2>3. /\ s2m' = Left(s2m, REST_BLK_SZ) /\ mPc' = "first"
        /\ ~exited' => \/ place < n /\ place >= 0 /\ m2r' = m2r \o Damaged(s2m, place)
                       \/ m2r' = m2r \o s2m
    BY <1>4, <2>2 DEF ReadRestFromTerm2
  <2>4. place \in Int /\ n \in Nat
    <3>1. n \in Nat
      BY <1>2, LenProperties
    <3>2. byteCount \in Nat /\ T2toT1_CORRUPT_BYTE \in Nat
      BY MediumAssumption DEF IInv, MediumTypeOK
    <3> QED
      BY <3>1, <3>2 DEF CountAfter, ByteToCorrupt
  <2> HIDE DEF place, n
  <2>5. place < n /\ place >= 0 => place \in 0..(n - 1)
    BY <2>4
  <2>6. place \in 0..(n - 1) => Travels(blk, got, sent, <<>>, m2r \o Damaged(s2m, place), "first")
    BY <2>2 DEF n
  <2> QED
    BY <2>2, <2>3, <2>5, <2>6
<1> QED
  BY <1>3, <1>4 DEF MsgFromTerm2, ReadCans

LEMMA PassedEot ==
  ASSUME EotComing, MsgFromTerm2
  PROVE  EotComing'
<1>1. mPc = "first" /\ ReadOneFromTerm2
  BY DEF EotComing, MsgFromTerm2, ReadCans, ReadRestFromTerm2
<1>2. s2m = <<EOT>> /\ m2r = <<>>
  BY <1>1 DEF EotComing, ReadOneFromTerm2
<1>3. Head(s2m) = EOT /\ Tail(s2m) = <<>> /\ Append(m2r, Head(s2m)) = <<EOT>>
  BY <1>2
<1>4. mPc' = "first"
  BY <1>1, <1>3 DEF ReadOneFromTerm2, EOT, CAN, SOH
<1> QED
  BY <1>1, <1>3, <1>4 DEF EotComing, ReadOneFromTerm2

LEMMA M2to1Dialogue ==
  ASSUME IInv, PInv, Whole, M2to1Step
  PROVE  (~exited' => Protocol') /\ HeaderBlk' /\ FirstByte'
<1>1. /\ ~exited /\ Protocol /\ HeaderBlk /\ FirstByte /\ MsgFromTerm2 /\ s2m # <<>>
      /\ UNCHANGED <<sVars, rVars, r2m, m2s>>
  BY DEF M2to1Step, MsgFromTerm2, ReadOneFromTerm2, ReadCans, ReadRestFromTerm2, PInv
<1>2. /\ UNCHANGED <<sPc, fileNameIndex, sFileD, batch, blkBuf, blkSent, rPc, rcvBlk>>
  BY <1>1 DEF sVars, rVars
<1>3. HeaderBlk' /\ FirstByte'
  BY <1>1, <1>2 DEF HeaderBlk, FirstByte
<1> SUFFICES ASSUME ~exited'
             PROVE  Protocol'
  BY <1>3
<1>4. ~Quiet
  BY <1>1 DEF Quiet
<1>5. /\ ~BeforeHdr /\ ~HdrTaken /\ ~HdrAnswered /\ ~BlkTaken /\ ~LastTaken
      /\ \A expected : Replies(expected) => Replies(expected)'
  BY <1>1, <1>4 DEF BeforeHdr, HdrTaken, HdrAnswered, BlkTaken, LastTaken, Replies
<1>6. ASSUME NEW blk, NEW got, NEW sent, InFlight(blk, got, sent)
      PROVE  mPc # "can"
  BY <1>6 DEF InFlight, Travels
<1>7. ASSUME NEW blk, IsBlk(blk), NEW got \in {0, 1}, NEW sent \in {BLK_SZ - 1, BLK_SZ},
             sent = BLK_SZ - 1 => SafeEnd(blk), InFlight(blk, got, sent)
      PROVE  Travels(blk, got, sent, s2m', m2r', mPc')
  <2>1. mPc # "can"
    BY <1>6, <1>7
  <2> QED
    BY <1>1, <1>7, <2>1, PassedBlk
<1>8. BLK_SZ \in {BLK_SZ - 1, BLK_SZ} /\ BLK_SZ - 1 \in {BLK_SZ - 1, BLK_SZ}
      /\ BLK_SZ # BLK_SZ - 1 /\ 0 \in {0, 1} /\ 1 \in {0, 1}
  BY BlkSz
<1>9. ASSUME sPc \in {"statLast", "statAck", "blkLast", "reLast", "reply", "reReply"},
             NEW got \in {0, 1}, NEW sent \in {BLK_SZ - 1, BLK_SZ},
             sent = BLK_SZ - 1 => sPc \in {"statLast", "blkLast", "reLast"},
             InFlight(blkSent, got, sent)
      PROVE  InFlight(blkSent, got, sent)'
  <2>1. IsBlk(blkSent)
    BY <1>1, <1>9, SentIsBlk
  <2>2. sent = BLK_SZ - 1 => SafeEnd(blkSent)
    BY <1>9 DEF Whole
  <2>3. Travels(blkSent, got, sent, s2m', m2r', mPc')
    BY <1>7, <1>9, <2>1, <2>2
  <2> QED
    BY <1>2, <2>3 DEF InFlight
<1>10. ASSUME sPc \in {"finLast", "finAck", "done"},
              NEW got \in {0, 1}, NEW sent \in {BLK_SZ - 1, BLK_SZ},
              sent = BLK_SZ - 1 => sPc = "finLast",
              InFlight(blkBuf, got, sent)
       PROVE  InFlight(blkBuf, got, sent)'
  <2>1. IsBlk(blkBuf)
    BY <1>1, <1>10, SentIsBlk
  <2>2. sent = BLK_SZ - 1 => SafeEnd(blkBuf)
    BY <1>10 DEF Whole
  <2>3. Travels(blkBuf, got, sent, s2m', m2r', mPc')
    BY <1>7, <1>10, <2>1, <2>2
  <2> QED
    BY <1>2, <2>3 DEF InFlight
<1>11. CASE sPc \in {"statLast", "statAck"}
  <2>1. PICK q \in {BLK_SZ - 1, BLK_SZ} :
          /\ HdrComing(q) /\ q = IF sPc = "statLast" THEN BLK_SZ - 1 ELSE BLK_SZ
    BY <1>1, <1>5, <1>8, <1>11 DEF Protocol
  <2>2. q = BLK_SZ - 1 => sPc = "statLast"
    BY <1>8, <1>11, <2>1
  <2>3. \A got \in {0, 1} : InFlight(blkSent, got, q) => InFlight(blkSent, got, q)'
    BY <1>9, <1>11, <2>2
  <2>4. HdrComing(q)'
    BY <1>2, <1>5, <2>1, <2>3 DEF HdrComing
  <2> QED
    BY <1>2, <1>11, <2>1, <2>4 DEF Protocol
<1>12. CASE sPc \in {"blkLast", "reLast", "reply", "reReply"}
  <2>1. PICK q \in {BLK_SZ - 1, BLK_SZ} :
          /\ BlkComing(q) /\ q = IF sPc \in {"blkLast", "reLast"} THEN BLK_SZ - 1 ELSE BLK_SZ
    BY <1>1, <1>5, <1>8, <1>12 DEF Protocol
  <2>2. q = BLK_SZ - 1 => sPc \in {"blkLast", "reLast"}
    BY <1>8, <1>12, <2>1
  <2>3. \A got \in {0, 1} : InFlight(blkSent, got, q) => InFlight(blkSent, got, q)'
    BY <1>9, <1>12, <2>2
  <2>4. BlkComing(q)'
    BY <1>2, <1>5, <2>1, <2>3 DEF BlkComing
  <2> QED
    BY <1>2, <1>12, <2>1, <2>4 DEF Protocol
<1>13. CASE sPc = "eotNak"
  <2>1. FirstEot
    BY <1>1, <1>13 DEF Protocol
  <2>2. FirstEot'
    BY <1>1, <1>2, <1>4, <1>5, <2>1, PassedEot DEF FirstEot
  <2> QED
    BY <1>2, <1>13, <2>2 DEF Protocol
<1>14. CASE sPc = "eotAck"
  <2>1. SecondEot
    BY <1>1, <1>14 DEF Protocol
  <2>2. SecondEot'
    BY <1>1, <1>2, <1>4, <1>5, <2>1, PassedEot DEF SecondEot
  <2> QED
    BY <1>2, <1>14, <2>2 DEF Protocol
<1>15. CASE sPc = "finLast"
  <2>1. LastSent
    BY <1>1, <1>15 DEF Protocol
  <2>2. \A got \in {0, 1} :
          InFlight(blkBuf, got, BLK_SZ - 1) => InFlight(blkBuf, got, BLK_SZ - 1)'
    BY <1>8, <1>10, <1>15
  <2>3. LastSent'
    BY <1>2, <1>5, <2>1, <2>2 DEF LastSent
  <2> QED
    BY <1>2, <1>15, <2>3 DEF Protocol
<1>16. CASE sPc \in {"finAck", "done"}
  <2>1. \A got \in {0, 1} : InFlight(blkBuf, got, BLK_SZ) => InFlight(blkBuf, got, BLK_SZ)'
    BY <1>8, <1>10, <1>16
  <2>2. LastComing => LastComing'
    BY <1>2, <1>5, <2>1 DEF LastComing
  <2>3. Returned => Returned'
    BY <1>2, <1>4, <1>5, <2>1 DEF Returned
  <2> QED
    BY <1>1, <1>2, <1>5, <1>16, <2>2, <2>3 DEF Protocol
<1>17. sPc \notin {"start", "readC", "finMost", "statC"}
  BY <1>1, <1>5 DEF Protocol
<1>18. sPc \in SPcs
  BY DEF IInv, SInv, SenderTypeOK
<1> QED
  BY <1>11, <1>12, <1>13, <1>14, <1>15, <1>16, <1>17, <1>18 DEF SPcs, ReadingPcs

-----------------------------------------------------------------------------
(* The dialogue is an invariant, and what follows from it.                 *)

LEMMA InFlightLen ==
  ASSUME IInv, NEW blk, NEW got \in {0, 1}, NEW sent \in {BLK_SZ - 1, BLK_SZ},
         InFlight(blk, got, sent)
  PROVE  Len(s2m) + Len(m2r) <= BLK_SZ
<1>1. PICK p \in {0, 1, BLK_SZ - 1, BLK_SZ} : Len(s2m) = sent - p /\ Len(m2r) = p - got
  BY DEF InFlight, Travels
<1> QED
  BY <1>1, BlkSz

\* The dialogue bounds what is on its way.
LEMMA ProtocolBounds == IInv /\ Protocol => StopAndWait
<1> SUFFICES ASSUME IInv, Protocol PROVE StopAndWait
  OBVIOUS
<1>1. /\ s2m \in Seq(Byte) /\ m2r \in Seq(Byte) /\ r2m \in Seq(Byte) /\ m2s \in Seq(Byte)
  BY WireSeqs
<1>2. Quiet => Len(s2m) + Len(m2r) <= BLK_SZ
  BY BlkSz, EmptySeq DEF Quiet
<1>3. EotComing => Len(s2m) + Len(m2r) <= BLK_SZ
  <2>1. Len(<<EOT>>) = 1 /\ Len(<<>>) = 0
    OBVIOUS
  <2> QED
    BY <2>1, BlkSz DEF EotComing
<1>4. BLK_SZ \in {BLK_SZ - 1, BLK_SZ} /\ BLK_SZ - 1 \in {BLK_SZ - 1, BLK_SZ}
      /\ 0 \in {0, 1} /\ 1 \in {0, 1}
  OBVIOUS
<1>5. \A blk : \A got \in {0, 1}, sent \in {BLK_SZ - 1, BLK_SZ} :
        InFlight(blk, got, sent) => Len(s2m) + Len(m2r) <= BLK_SZ
  BY InFlightLen
<1>6. \A a, b, c :
        Replies(<<>>) \/ Replies(<<a>>) \/ Replies(<<a, b>>) \/ Replies(<<a, b, c>>)
          => Len(r2m) + Len(m2s) <= 3
  <2> TAKE a, b, c
  <2>1. Len(r2m) \in Nat /\ Len(m2s) \in Nat
    BY <1>1, LenProperties
  <2>2. Len(<<>>) \in 0..3 /\ Len(<<a>>) \in 0..3 /\ Len(<<a, b>>) \in 0..3
        /\ Len(<<a, b, c>>) \in 0..3
    OBVIOUS
  <2>3. ASSUME NEW e, Replies(e), Len(e) \in 0..3
        PROVE  Len(r2m) + Len(m2s) <= 3
    <3>1. Len(m2s) + Len(r2m) = Len(e)
      BY <2>3 DEF Replies, Coming
    <3> QED
      BY <2>1, <2>3, <3>1
  <2> HIDE DEF Replies
  <2> QED
    BY <2>2, <2>3, Zenon
<1>7. sPc \in SPcs
  BY DEF IInv, SInv, SenderTypeOK
<1>8. Len(s2m) + Len(m2r) <= BLK_SZ
  <2>1. /\ BeforeHdr \/ HdrTaken \/ HdrAnswered \/ BlkTaken \/ LastTaken
              => Len(s2m) + Len(m2r) <= BLK_SZ
        /\ FirstEot \/ SecondEot => Len(s2m) + Len(m2r) <= BLK_SZ
    BY <1>2, <1>3
       DEF BeforeHdr, HdrTaken, HdrAnswered, BlkTaken, LastTaken, FirstEot, SecondEot
  <2>2. \A sent \in {BLK_SZ - 1, BLK_SZ} :
          HdrComing(sent) \/ BlkComing(sent) => Len(s2m) + Len(m2r) <= BLK_SZ
    BY <1>4, <1>5 DEF HdrComing, BlkComing
  <2>3. LastSent \/ LastComing => Len(s2m) + Len(m2r) <= BLK_SZ
    BY <1>4, <1>5 DEF LastSent, LastComing
  <2>4. Returned => Len(s2m) + Len(m2r) <= BLK_SZ
    BY <1>2, <1>4, <1>5 DEF Returned
  <2> QED
    BY <1>4, <1>7, <2>1, <2>2, <2>3, <2>4 DEF Protocol, SPcs, ReadingPcs
<1>9. Len(r2m) + Len(m2s) <= 3
  <2>1. /\ BeforeHdr => Len(r2m) + Len(m2s) <= 3
        /\ \A sent : HdrComing(sent) \/ BlkComing(sent) => Len(r2m) + Len(m2s) <= 3
        /\ HdrTaken \/ HdrAnswered \/ BlkTaken => Len(r2m) + Len(m2s) <= 3
    BY <1>6 DEF BeforeHdr, HdrComing, BlkComing, HdrTaken, HdrAnswered, BlkTaken
  <2>2. FirstEot \/ SecondEot => Len(r2m) + Len(m2s) <= 3
    BY <1>6 DEF FirstEot, SecondEot
  <2>3. LastSent \/ LastComing \/ LastTaken \/ Returned => Len(r2m) + Len(m2s) <= 3
    BY <1>6 DEF LastSent, LastComing, LastTaken, Returned
  <2> QED
    BY <1>7, <2>1, <2>2, <2>3 DEF Protocol, SPcs, ReadingPcs
<1> QED
  BY <1>8, <1>9 DEF StopAndWait

\* A step with which the process ends only takes from the queues.
LEMMA ExitBounds ==
  ASSUME IInv, PInv, Next, exited'
  PROVE  StopAndWait'
<1>1. ~exited /\ StopAndWait
  BY DEF PInv, Next, SenderStep, SenderNext, ReceiverStep, ReceiverNext, M2to1Step, M1to2Step
<1>2. \/ UNCHANGED <<s2m, m2r, r2m, m2s>>
      \/ UNCHANGED <<m2r, r2m, m2s>> /\ s2m' = Left(s2m, REST_BLK_SZ)
  <2>1. CASE SenderStep
    BY <1>1, <2>1, ControlBytes DEF SenderStep, SenderNext, Start, wires, ReadC, PrepNextSendLast, ReadStatAck,
       ReadStatC, ReadReply, ResendLast, ReadEotNak, ReadEotAck, SendFinalMost, SendFinalLast,
       ReadFinalAck
  <2>2. CASE ReceiverStep
    BY <1>1, <2>2 DEF ReceiverStep, ReceiverNext, SendNCG, ReadHdrFirst, GetHdrRest,
       SendSecondNCG, ReadBlkFirst, GetBlkRest, WriteChunk, ReadSecondEot
  <2>3. CASE M2to1Step
    BY <1>1, <2>3 DEF M2to1Step, MsgFromTerm2, ReadOneFromTerm2, ReadCans, ReadRestFromTerm2
  <2>4. CASE M1to2Step
    BY <1>1, <2>4 DEF M1to2Step, MsgFromTerm1
  <2> QED
    BY <2>1, <2>2, <2>3, <2>4 DEF Next
<1>3. s2m \in Seq(Byte) /\ m2r \in Seq(Byte) /\ REST_BLK_SZ \in Nat
  BY WireSeqs, BlkSz
<1>4. Len(Left(s2m, REST_BLK_SZ)) <= Len(s2m) /\ Len(Left(s2m, REST_BLK_SZ)) \in Nat
  <2> DEFINE k == IF Len(s2m) < REST_BLK_SZ THEN Len(s2m) ELSE REST_BLK_SZ
  <2>1. Left(s2m, REST_BLK_SZ) \in Seq(Byte) /\ Len(Left(s2m, REST_BLK_SZ)) = Len(s2m) - k
    BY <1>3, TakenAt
  <2>2. Len(s2m) \in Nat /\ k \in Nat /\ Len(Left(s2m, REST_BLK_SZ)) \in Nat
    BY <1>3, <2>1, LenProperties
  <2> HIDE DEF k
  <2> QED
    BY <2>1, <2>2
<1>5. Len(s2m) \in Nat /\ Len(m2r) \in Nat
  BY <1>3, LenProperties
<1>6. Len(s2m') + Len(m2r') <= BLK_SZ
  BY <1>1, <1>2, <1>4, <1>5, BlkSz DEF StopAndWait
<1>7. Len(r2m') + Len(m2s') <= 3
  BY <1>1, <1>2 DEF StopAndWait
<1> QED
  BY <1>6, <1>7 DEF StopAndWait

LEMMA InitPInv ==
  ASSUME Init
  PROVE  PInv
<1>1. /\ sPc = "start" /\ rPc = "ncg" /\ mPc = "first"
      /\ s2m = <<>> /\ m2r = <<>> /\ r2m = <<>> /\ m2s = <<>>
  BY DEF Init, WireInit, SenderInit, ReceiverInit, MediumInit
<1>2. Replies(<<>>)
  BY <1>1, NoneComing, EmptySeq DEF Replies
<1>3. Protocol
  BY <1>1, <1>2 DEF Protocol, BeforeHdr, Quiet
<1>4. StopAndWait
  BY <1>3, InitIInv, ProtocolBounds
<1> QED
  BY <1>1, <1>3, <1>4 DEF PInv, HeaderBlk, FirstByte

\* A step keeps the dialogue, if the medium cuts no block that ends unsafely.
LEMMA NextPInv ==
  ASSUME IInv, PInv, ~Canceled', [Next]_vars, SenderStep \/ UNCHANGED vars \/ Whole
  PROVE  PInv'
<1>1. CASE UNCHANGED vars
  BY <1>1 DEF vars, wires, sVars, rVars, mVars, PInv, HeaderBlk, FirstByte, StopAndWait, Protocol,
     BeforeHdr, HdrComing, HdrTaken, HdrAnswered, BlkComing, BlkTaken, FirstEot, SecondEot, LastSent,
     LastComing, LastTaken, Returned, Quiet, EotComing, Replies, InFlight
<1>2. CASE Next /\ ~UNCHANGED vars
  <2>1. (~exited' => Protocol') /\ HeaderBlk' /\ FirstByte'
    <3>1. CASE SenderStep
      <4>1. FirstByte'
        BY <3>1 DEF SenderStep, rVars, PInv, FirstByte
      <4> QED
        BY <3>1, <4>1, SenderDialogue
    <3>2. CASE ReceiverStep
      BY <3>2, ReceiverDialogue
    <3>3. CASE M2to1Step /\ Whole
      BY <3>3, M2to1Dialogue
    <3>4. CASE M1to2Step
      BY <3>4, M1to2Dialogue
    <3> QED
      BY <1>1, <1>2, <3>1, <3>2, <3>3, <3>4 DEF Next
  <2>2. (IInv /\ Protocol => StopAndWait)'
    BY ProtocolBounds, PTL
  <2>3. IInv'
    BY <1>2, NextIInv
  <2>4. StopAndWait'
    BY <1>2, <2>1, <2>2, <2>3, ExitBounds
  <2> QED
    BY <2>1, <2>4 DEF PInv
<1> QED
  BY <1>1, <1>2

\* Every block of a batch that is safe ends safely.
LEMMA SafeIsWhole ==
  ASSUME IInv, HeaderBlk, SafeBatch(batch)
  PROVE  Whole
<1>1. CASE sPc = "statLast"
  BY <1>1 DEF HeaderBlk, SafeBatch, Whole
<1>2. CASE sPc \in {"blkLast", "reLast"}
  <2>1. sFileD \in 1..Len(batch)
    BY <1>2 DEF IInv, SInv, SenderFileInv
  <2>2. \E k \in 1..Len(batch[sFileD].data) : blkSent = DataBlk(batch[sFileD].data, k)
    BY <1>2 DEF IInv, SInv, BlocksInv, SendingBlk, AwaitingReply, Data
  <2>3. SafeEnd(blkSent)
    BY <2>1, <2>2 DEF SafeBatch
  <2> QED
    BY <1>2, <2>3 DEF Whole
<1>3. CASE sPc = "finLast"
  BY <1>3 DEF HeaderBlk, SafeBatch, Whole
<1> QED
  BY <1>1, <1>2, <1>3 DEF Whole

\* Under the priorities a block is cut only while the sender waits for the disk.
LEMMA ScheduledIsWhole ==
  ASSUME IInv, HeaderBlk, ScheduledSafe, SenderBlocked
  PROVE  Whole
<1>1. batch \in Batches
  BY DEF IInv, SInv, SenderTypeOK
<1>2. CASE batch \in CachedBatches
  <2>1. sPc = "done" \/ sPc \in ReadingPcs
    BY <1>2 DEF SenderBlocked, DiskMayWait
  <2> QED
    BY <2>1 DEF Whole, ReadingPcs
<1>3. CASE batch \notin CachedBatches
  BY <1>1, <1>3, SafeIsWhole DEF ScheduledSafe
<1> QED
  BY <1>2, <1>3

\* A block that is found good is the one that was sent: the CRC tells every
\* damage the medium can do.
LEMMA AcceptedWasSent ==
  ASSUME IInv, DialogueInv, [Next]_vars
  PROVE  [rPc = "blkRest" /\ rPc' = "write" => rcvBlk' = blkSent]_vars
<1> SUFFICES ASSUME Next, rPc = "blkRest", rPc' = "write"
             PROVE  rcvBlk' = blkSent
  BY DEF vars, rVars
<1>1. ReceiverStep
  <2>1. ~SenderStep /\ ~M2to1Step /\ ~M1to2Step
    BY DEF SenderStep, M2to1Step, M1to2Step, rVars
  <2> QED
    BY <2>1 DEF Next
<1>2. GetBlkRest /\ ~exited
  BY <1>1 DEF ReceiverStep, ReceiverNext, SendNCG, ReadHdrFirst, GetHdrRest, SendSecondNCG,
     ReadBlkFirst, WriteChunk, ReadSecondEot
<1>3. /\ Protocol /\ HeaderBlk /\ FirstByte
      /\ UNCHANGED <<sPc, blkSent, blkBuf, mPc>>
  <2>1. ~Canceled
    <3> SUFFICES ASSUME AfterCans PROVE FALSE
      BY DEF DialogueInv
    <3>1. Len(s2m) + Len(m2r) <= 0
      BY <1>2 DEF AfterCans, LeftOver
    <3>2. Len(s2m) \in Nat /\ Len(m2r) \in Nat
      BY WireSeqs
    <3>3. Len(m2r) >= REST_BLK_SZ
      BY <1>2 DEF GetBlkRest, GetRestBlk
    <3> QED
      BY <3>1, <3>2, <3>3, BlkSz
  <2> QED
    BY <1>1, <1>2, <2>1 DEF ReceiverStep, DialogueInv, PInv, sVars, mVars
<1>4. /\ \E x \in {0} \cup 2..BLK_SZ : rcvBlk' = Hit(blkSent, x)
      /\ sPc \in {"reply", "reReply"}
  BY <1>2, <1>3, GetBlkRestDialogue
<1>5. IsBlk(blkSent)
  BY <1>3, <1>4, SentIsBlk
<1>6. GoodBlk(rcvBlk')
  BY <1>2 DEF GetBlkRest, GetRestBlk, Classify
<1> QED
  BY <1>4, <1>5, <1>6, GoodIsWhole DEF IsBlk

LEMMA EotWasSent ==
  ASSUME IInv, PInv, [Next]_vars
  PROVE  [rPc = "blk1" /\ rPc' = "eot2" => Head(m2r) = EOT]_vars
<1> SUFFICES ASSUME Next, rPc = "blk1", rPc' = "eot2"
             PROVE  Head(m2r) = EOT
  BY DEF vars, rVars
<1>1. ReceiverStep
  <2>1. ~SenderStep /\ ~M2to1Step /\ ~M1to2Step
    BY DEF SenderStep, M2to1Step, M1to2Step, rVars
  <2> QED
    BY <2>1 DEF Next
<1>2. ReadBlkFirst /\ ~exited
  BY <1>1 DEF ReceiverStep, ReceiverNext, SendNCG, ReadHdrFirst, GetHdrRest, SendSecondNCG,
     GetBlkRest, WriteChunk, ReadSecondEot
<1>3. /\ Protocol /\ HeaderBlk
      /\ UNCHANGED <<sPc, blkSent, blkBuf, mPc>>
  BY <1>1, <1>2 DEF ReceiverStep, PInv, sVars, mVars
<1> QED
  BY <1>2, <1>3, ReadBlkFirstDialogue

-----------------------------------------------------------------------------
(* The end of a batch with a file that cannot be opened.                   *)

\* What the sender has written when it has answered the 'C' is all there is.
LEMMA CancelsStep ==
  ASSUME IInv, PInv, ~Canceled, Canceled', Next
  PROVE  AfterCans' /\ ReadC
<1>1. SenderStep /\ ReadC /\ sFileD = -1
  <2>1. SenderStep
    <3>1. ~UNCHANGED sVars
      BY DEF Canceled, sVars, sFile
    <3> QED
      BY <3>1 DEF Next, ReceiverStep, M2to1Step, M1to2Step
  <2>2. sPc' = "statLast" /\ sFileD' = -1
    BY DEF Canceled
  <2> QED
    BY <2>1, <2>2 DEF SenderStep, SenderNext, Start, PrepStatBlk, ReadC, PrepNextSendLast, ReadStatAck,
       ReadStatC, ReadReply, NextBlkOrEot, ResendLast, ReadEotNak, ReadEotAck, SendFinalMost,
       SendFinalLast, ReadFinalAck, Canceled, sFile
<1>2. /\ sPc = "readC" /\ m2s # <<>> /\ s2m' = s2m \o CANs \o MostOf(blkBuf)
      /\ UNCHANGED <<m2r, r2m, batch, fileNameIndex, rPc, exited>>
  BY <1>1 DEF ReadC, ReadByte, SendMostNew, SenderStep, rVars, sFile, away
<1>3. s2m = <<>> /\ m2r = <<>> /\ rPc = "hdr1"
  <2>1. ~exited /\ BeforeHdr
    BY <1>1, <1>2 DEF SenderStep, SenderNext, PInv, Protocol
  <2>2. ~Replies(<<>>)
    BY <1>2, WireSeqs, NoneComing DEF Replies
  <2> QED
    BY <2>1, <2>2 DEF BeforeHdr, Quiet
<1>4. Len(s2m') = BLK_SZ + 1
  <2>1. /\ MostOf(blkBuf) \in Seq(Byte) /\ Len(MostOf(blkBuf)) = BLK_SZ - 1
        /\ CANs \in Seq(Byte) /\ Len(CANs) = 2
    BY WireSeqs, MostLen DEF CANs, Byte, CAN
  <2>2. s2m' = CANs \o MostOf(blkBuf)
    BY <1>2, <1>3, <2>1
  <2>3. Len(CANs \o MostOf(blkBuf)) = 2 + (BLK_SZ - 1)
    <3> DEFINE most == MostOf(blkBuf)
               cans == CANs
    <3>1. cans \in Seq(Byte) /\ most \in Seq(Byte) /\ Len(cans) = 2 /\ Len(most) = BLK_SZ - 1
      BY <2>1
    <3> HIDE DEF most, cans
    <3>2. Len(cans \o most) = Len(cans) + Len(most)
      BY <3>1, ConcatAt
    <3> QED
      BY <3>1, <3>2 DEF most, cans
  <2> QED
    BY <2>2, <2>3, BlkSz
<1>5. Len(m2r') = 0
  BY <1>2, <1>3
<1>6. fileNameIndex' \in 1..Len(batch') /\ ~batch'[fileNameIndex'].openable
  <2>1. HeaderBlk
    BY DEF PInv
  <2>2. fileNameIndex \in 1..Len(batch) /\ ~batch[fileNameIndex].openable
    BY <1>1, <1>2, <2>1, WireSeqs DEF HeaderBlk
  <2> QED
    BY <1>2, <2>2
<1> QED
  BY <1>1, <1>2, <1>3, <1>4, <1>5, <1>6, BlkSz DEF AfterCans, LeftOver

LEMMA PassedAll ==
  ASSUME IInv, MsgFromTerm2
  PROVE  ~exited' => Len(s2m') + Len(m2r') = Len(s2m) + Len(m2r)
<1>1. s2m \in Seq(Byte) /\ m2r \in Seq(Byte) /\ Len(s2m) \in Nat /\ Len(m2r) \in Nat
  BY WireSeqs
<1>2. CASE ReadOneFromTerm2
  <2>1. /\ s2m # <<>> /\ s2m' = Tail(s2m) /\ m2r' = Append(m2r, Head(s2m))
    BY <1>2 DEF ReadOneFromTerm2
  <2>2. Len(s2m') = Len(s2m) - 1 /\ Len(m2r') = Len(m2r) + 1
    BY <1>1, <2>1
  <2> QED
    BY <1>1, <2>2
<1>3. ASSUME NEW n \in Nat, s2m' = Left(s2m, n), NEW bytes \in Seq(Byte), m2r' = m2r \o bytes,
             Len(bytes) = Len(Taken(s2m, n))
      PROVE  Len(s2m') + Len(m2r') = Len(s2m) + Len(m2r)
  <2> DEFINE k == IF Len(s2m) < n THEN Len(s2m) ELSE n
  <2>1. Len(bytes) = k /\ Len(s2m') = Len(s2m) - k
    BY <1>1, <1>3, TakenAt
  <2>2. Len(m2r') = Len(m2r) + Len(bytes)
    BY <1>1, <1>3, ConcatAt
  <2>3. k \in Nat
    BY <1>1
  <2> HIDE DEF k
  <2> QED
    BY <1>1, <2>1, <2>2, <2>3
<1>4. CASE ReadCans
  <2>1. CAN_LEN - 1 \in Nat
    BY DEF CAN_LEN
  <2>2. Taken(s2m, CAN_LEN - 1) \in Seq(Byte)
    BY <1>1, <2>1, TakenAt
  <2> QED
    BY <1>3, <1>4, <2>1, <2>2 DEF ReadCans
<1>5. CASE ReadRestFromTerm2 /\ ~exited'
  <2> DEFINE bytes == Taken(s2m, REST_BLK_SZ)
  <2>1. REST_BLK_SZ \in Nat /\ bytes \in Seq(Byte)
    BY <1>1, TakenAt, BlkSz
  <2>2. s2m' = Left(s2m, REST_BLK_SZ)
    BY <1>5 DEF ReadRestFromTerm2
  <2>3. \/ m2r' = m2r \o bytes
        \/ \E place \in Int : m2r' = m2r \o Damaged(bytes, place) /\ place >= 0 /\ place < Len(bytes)
    <3>1. CountAfter(byteCount + Len(bytes)) \in Int
      <4>1. byteCount \in Nat /\ Len(bytes) \in Nat /\ T2toT1_CORRUPT_BYTE \in Nat
        BY <2>1, MediumAssumption DEF IInv, MediumTypeOK
      <4> QED
        BY <4>1 DEF CountAfter
    <3>2. ByteToCorrupt(Len(bytes), CountAfter(byteCount + Len(bytes))) \in Int
      BY <2>1, <3>1 DEF ByteToCorrupt
    <3> QED
      BY <1>5, <3>2 DEF ReadRestFromTerm2
  <2>4. ASSUME NEW place \in Int, place >= 0, place < Len(bytes)
        PROVE  Damaged(bytes, place) \in Seq(Byte) /\ Len(Damaged(bytes, place)) = Len(bytes)
    <3>1. place + 1 \in 1..Len(bytes)
      BY <2>1, <2>4
    <3>2. bytes[place + 1] \in Byte
      BY <2>1, <3>1
    <3>3. Complement(bytes[place + 1]) \in Byte
      BY <3>2, ComplementType
    <3> HIDE DEF bytes
    <3> QED
      BY <2>1, <3>1, <3>3 DEF Damaged
  <2> HIDE DEF bytes
  <2>5. Len(bytes) = Len(Taken(s2m, REST_BLK_SZ))
    BY DEF bytes
  <2> QED
    BY <1>3, <2>1, <2>2, <2>3, <2>4, <2>5
<1> QED
  BY <1>2, <1>4, <1>5 DEF MsgFromTerm2

\* Nothing but the end of the process comes after it.
LEMMA CanceledStep ==
  ASSUME IInv, Canceled, AfterCans, [Next]_vars
  PROVE  Canceled' /\ AfterCans'
<1>1. CASE UNCHANGED vars
  BY <1>1 DEF vars, wires, sVars, rVars, sFile, Canceled, AfterCans, LeftOver
<1>2. CASE SenderStep
  <2>1. PrepNextSendLast /\ UNCHANGED rVars
    BY <1>2 DEF SenderStep, SenderNext, Start, ReadC, ReadStatAck, ReadStatC, ReadReply, ResendLast,
       ReadEotNak, ReadEotAck, SendFinalMost, SendFinalLast, ReadFinalAck, Canceled
  <2> QED
    BY <2>1 DEF PrepNextSendLast, Canceled, AfterCans
<1>3. CASE ReceiverStep
  <2>1. ~exited /\ UNCHANGED <<sPc, sFileD, batch, fileNameIndex>>
    BY <1>3 DEF ReceiverStep, ReceiverNext, sVars, sFile
  <2>2. s2m \in Seq(Byte) /\ m2r \in Seq(Byte) /\ Len(s2m) \in Nat /\ Len(m2r) \in Nat
    BY WireSeqs
  <2>3. m2r # <<>> => Len(m2r) >= 1 /\ Len(Tail(m2r)) = Len(m2r) - 1
    BY <2>2
  <2>4. rPc # "done" => rPc \notin {"ncg", "write"} /\ Len(s2m) + Len(m2r) <= LeftOver
    BY <2>1 DEF AfterCans
  <2>5. rPc' = "done" \/ (rPc' \notin {"ncg", "write"} /\ Len(s2m') + Len(m2r') <= LeftOver')
    <3>1. CASE SendNCG \/ WriteChunk
      BY <2>4, <3>1 DEF SendNCG, WriteChunk
    <3>2. CASE ReadHdrFirst
      BY <2>2, <2>3, <2>4, <3>2, BlkSz DEF ReadHdrFirst, ReadFirst, far, LeftOver
    <3>3. CASE GetHdrRest
      <4>1. /\ rPc = "hdrRest" /\ rPc' \in {"done", "ncg2"} /\ s2m' = s2m
            /\ Len(m2r) >= REST_BLK_SZ /\ m2r' = Left(m2r, REST_BLK_SZ)
        BY <3>3 DEF GetHdrRest, GetRestBlk, far
      <4>2. Len(m2r') = Len(m2r) - REST_BLK_SZ
        BY <2>2, <4>1, TakenAt, BlkSz
      <4>3. Len(s2m) + Len(m2r) <= BLK_SZ
        BY <2>4, <4>1 DEF LeftOver
      <4>4. Len(s2m') + Len(m2r') <= 1
        BY <2>2, <4>1, <4>2, <4>3, BlkSz
      <4> QED
        BY <4>1, <4>4 DEF LeftOver
    <3>4. CASE SendSecondNCG
      BY <2>4, <3>4 DEF SendSecondNCG, far, LeftOver
    <3>5. CASE ReadBlkFirst
      BY <2>2, <2>3, <2>4, <3>5 DEF ReadBlkFirst, ReadFirst, far, LeftOver
    <3>6. CASE GetBlkRest
      <4>1. rPc = "blkRest" /\ Len(m2r) >= REST_BLK_SZ
        BY <3>6 DEF GetBlkRest, GetRestBlk
      <4> QED
        BY <2>2, <2>4, <4>1, BlkSz DEF LeftOver
    <3>7. CASE ReadSecondEot
      <4>1. rPc = "eot2" /\ m2r # <<>>
        BY <3>7, Zenon DEF ReadSecondEot, ReadFirst
      <4> QED
        BY <2>2, <2>3, <2>4, <4>1 DEF LeftOver
    <3> QED
      BY <1>3, <3>1, <3>2, <3>3, <3>4, <3>5, <3>6, <3>7 DEF ReceiverStep, ReceiverNext
  <2> QED
    BY <2>1, <2>5 DEF Canceled, AfterCans
<1>4. CASE M2to1Step
  <2>1. ~exited /\ UNCHANGED <<sPc, sFileD, batch, fileNameIndex, rPc>>
    BY <1>4 DEF M2to1Step, sVars, rVars, sFile
  <2>2. ~exited' => Len(s2m') + Len(m2r') = Len(s2m) + Len(m2r)
    BY <1>4, PassedAll DEF M2to1Step
  <2> QED
    BY <2>1, <2>2 DEF Canceled, AfterCans, LeftOver
<1>5. CASE M1to2Step
  BY <1>5 DEF M1to2Step, MsgFromTerm1, sVars, rVars, sFile, Canceled, AfterCans, LeftOver
<1> QED
  BY <1>1, <1>2, <1>3, <1>4, <1>5 DEF Next

\* A step keeps the dialogue, or ends it, if the medium cuts no block that ends
\* unsafely.
LEMMA NextDialogue ==
  ASSUME IInv, DialogueInv, [Next]_vars, SenderStep \/ UNCHANGED vars \/ Canceled \/ Whole
  PROVE  DialogueInv'
<1>1. CASE Canceled
  BY <1>1, CanceledStep DEF DialogueInv
<1>2. CASE ~Canceled /\ ~Canceled'
  BY <1>2, NextPInv DEF DialogueInv
<1>3. CASE ~Canceled /\ Canceled'
  <2>1. Next
    BY <1>3 DEF vars, sVars, sFile, Canceled
  <2> QED
    BY <1>3, <2>1, CancelsStep DEF DialogueInv
<1> QED
  BY <1>1, <1>2, <1>3

\* Of a batch with no missing file the process is not ended.
LEMMA NoneMissing ==
  ASSUME DialogueInv, AllOpenable(batch)
  PROVE  ~Canceled /\ PInv
  BY DEF DialogueInv, AfterCans, AllOpenable

-----------------------------------------------------------------------------
(* The threads interleaving freely.                                        *)

\* The dialogue of YProtocol, of every interleaving of the four threads, for
\* every list of files whose blocks end safely, whether they open or not.
THEOREM Dialogue ==
  ASSUME FreelySafe
  PROVE  Spec => [](IInv /\ DialogueInv)
<1>1. Init => IInv /\ DialogueInv
  BY InitIInv, InitPInv DEF Init, SenderInit, DialogueInv, Canceled
<1>2. IInv /\ DialogueInv /\ [Next]_vars => (IInv /\ DialogueInv)'
  <2> SUFFICES ASSUME IInv, DialogueInv, [Next]_vars PROVE IInv' /\ DialogueInv'
    OBVIOUS
  <2>1. SafeBatch(batch)
    BY DEF FreelySafe, IInv, SInv, SenderTypeOK
  <2>2. ~Canceled => Whole
    BY <2>1, SafeIsWhole DEF DialogueInv, PInv
  <2> QED
    BY <2>2, NextIInv, NextDialogue
<1> QED
  BY <1>1, <1>2, PTL DEF Spec

\* The same with no phase for the end of the process, of files that all open.
THEOREM OpenDialogue ==
  ASSUME FreelySendable
  PROVE  Spec => [](IInv /\ PInv /\ ~Canceled)
<1>1. FreelySafe
  BY DEF FreelySendable, FreelySafe
<1>2. IInv /\ DialogueInv => IInv /\ PInv /\ ~Canceled
  <2> SUFFICES ASSUME IInv, DialogueInv PROVE PInv /\ ~Canceled
    OBVIOUS
  <2>1. AllOpenable(batch)
    BY DEF FreelySendable, IInv, SInv, SenderTypeOK
  <2> QED
    BY <2>1, NoneMissing
<1>3. Spec => [](IInv /\ DialogueInv)
  BY <1>1, Dialogue
<1> QED
  BY <1>2, <1>3, PTL

\* No write of the peers or of the medium can ever block: at most one block
\* and three replies are on their way (SenderY.cpp:252-289).
THEOREM OneBlockAtATime ==
  ASSUME FreelySendable
  PROVE  Spec => []StopAndWait
<1>1. PInv => StopAndWait
  BY DEF PInv
<1> QED
  BY <1>1, OpenDialogue, PTL

\* The block the receiver is about to write is the block the sender waits to
\* have acknowledged (ReceiverY.cpp:212-215).
THEOREM WritesWhatWasSent ==
  ASSUME FreelySafe
  PROVE  Spec => AcceptsWhatWasSent
<1>1. IInv /\ DialogueInv /\ [Next]_vars => [rPc = "blkRest" /\ rPc' = "write" => rcvBlk' = blkSent]_vars
  BY AcceptedWasSent
<1> QED
  BY <1>1, Dialogue, PTL DEF Spec, AcceptsWhatWasSent

\* What the receiver takes for the EOT that ends a file is one
\* (ReceiverY.cpp:221).
THEOREM FilesEndWithEot ==
  ASSUME FreelySendable
  PROVE  Spec => EotEndsTheFile
<1>1. IInv /\ PInv /\ [Next]_vars => [rPc = "blk1" /\ rPc' = "eot2" => Head(m2r) = EOT]_vars
  BY EotWasSent
<1> QED
  BY <1>1, OpenDialogue, PTL DEF Spec, EotEndsTheFile

-----------------------------------------------------------------------------
(* The threads under their priorities.                                     *)

\* The dialogue of YProtocol, of the program as it is scheduled, for every
\* list of files, whatever their bytes if they are in the cache.
THEOREM ScheduledDialogue ==
  ASSUME ScheduledSafe
  PROVE  PrioSpec => [](IInv /\ DialogueInv)
<1>1. Init => IInv /\ DialogueInv
  BY InitIInv, InitPInv DEF Init, SenderInit, DialogueInv, Canceled
<1>2. IInv /\ DialogueInv /\ [PrioNext]_vars => (IInv /\ DialogueInv)'
  <2> SUFFICES ASSUME IInv, DialogueInv, [PrioNext]_vars PROVE IInv' /\ DialogueInv'
    OBVIOUS
  <2>1. [Next]_vars
    BY PrioStep
  <2>2. SenderStep \/ UNCHANGED vars \/ Canceled \/ Whole
    <3>1. CASE SenderBlocked
      BY <3>1, ScheduledIsWhole DEF DialogueInv, PInv
    <3>2. CASE ~SenderBlocked
      BY <3>2 DEF PrioNext
    <3> QED
      BY <3>1, <3>2
  <2> QED
    BY <2>1, <2>2, NextIInv, NextDialogue
<1> QED
  BY <1>1, <1>2, PTL DEF PrioSpec

\* As OpenDialogue, under the priorities of the program.
THEOREM ScheduledOpen ==
  ASSUME ScheduledSendable
  PROVE  PrioSpec => [](IInv /\ PInv /\ ~Canceled)
<1>1. ScheduledSafe
  BY DEF ScheduledSendable, ScheduledSafe
<1>2. IInv /\ DialogueInv => IInv /\ PInv /\ ~Canceled
  <2> SUFFICES ASSUME IInv, DialogueInv PROVE PInv /\ ~Canceled
    OBVIOUS
  <2>1. AllOpenable(batch)
    BY DEF ScheduledSendable, IInv, SInv, SenderTypeOK
  <2> QED
    BY <2>1, NoneMissing
<1>3. PrioSpec => [](IInv /\ DialogueInv)
  BY <1>1, ScheduledDialogue
<1> QED
  BY <1>2, <1>3, PTL

\* As OneBlockAtATime, under the priorities of the program.
THEOREM ScheduledOneBlock ==
  ASSUME ScheduledSendable
  PROVE  PrioSpec => []StopAndWait
<1>1. PInv => StopAndWait
  BY DEF PInv
<1> QED
  BY <1>1, ScheduledOpen, PTL

\* As WritesWhatWasSent, under the priorities of the program.
THEOREM ScheduledWrites ==
  ASSUME ScheduledSafe
  PROVE  PrioSpec => AcceptsWhatWasSent
<1>1. IInv /\ DialogueInv /\ [Next]_vars => [rPc = "blkRest" /\ rPc' = "write" => rcvBlk' = blkSent]_vars
  BY AcceptedWasSent
<1>2. [PrioNext]_vars => [Next]_vars
  BY PrioStep
<1> QED
  BY <1>1, <1>2, ScheduledDialogue, PTL DEF PrioSpec, AcceptsWhatWasSent

\* No byte from the middle of a block is taken for the first byte of one, for
\* files of any bytes if they are in the cache (ReceiverY.cpp:221).
THEOREM ScheduledFilesEnd ==
  ASSUME ScheduledSendable
  PROVE  PrioSpec => EotEndsTheFile
<1>1. IInv /\ PInv /\ [Next]_vars => [rPc = "blk1" /\ rPc' = "eot2" => Head(m2r) = EOT]_vars
  BY EotWasSent
<1>2. [PrioNext]_vars => [Next]_vars
  BY PrioStep
<1> QED
  BY <1>1, <1>2, ScheduledOpen, PTL DEF PrioSpec, EotEndsTheFile
=============================================================================
