---------------------------- MODULE YSystemProofs ----------------------------
(***************************************************************************)
(* Theorems for every chunk size, CRC, batch of files and setting of the   *)
(* medium: the type invariant, and that the sender's two buffers always    *)
(* hold consecutive blocks of the open file; for the threads as they       *)
(* interleave freely, under their priorities and in the life of the whole  *)
(* process.                                                                *)
(***************************************************************************)
EXTENDS YScheduled, YProgram, SequenceTheorems, FiniteSetTheorems, TLAPS

-----------------------------------------------------------------------------
(* The inductive invariant: what is true between two steps of a thread and *)
(* makes the next step well typed and the next block the right one.        *)

\* The descriptor the sender holds at each point of sendFiles.
SenderFileInv ==
  /\ sPc \in {"readC", "statLast"} => sFileD # -2
  /\ sPc \in {"statAck", "statC", "blkLast", "reply", "reReply", "reLast"}
       => sFileD \in 1..Len(batch)

\* Before the first data block: the header is block 0 and nothing is read.
HeaderInv ==
  /\ sPc = "readC" => blkNum = 0 /\ (sFileD # -1 => sPos = 0)
  /\ sPc = "statLast" => blkNum = 1 /\ (sFileD # -1 => sPos = 0)
  /\ sPc \in {"statAck", "statC"} =>
       /\ blkNum = 1
       /\ bytesRd >= 0
       /\ sPos = Smaller(CHUNK_SZ, Len(Data))
       /\ IF bytesRd > 0 THEN blkBuf = DataBlk(Data, 1) /\ Len(Data) > 0
                         ELSE Len(Data) = 0

BlocksInv ==
  /\ sPc = "blkLast" => \E k \in 1..Len(Data) : HasBlk(k) /\ SendingBlk(k)
  /\ sPc \in {"reply", "reReply", "reLast"} =>
       \E k \in 1..Len(Data) : HasBlk(k) /\ AwaitingReply(k)

\* The receiver writes only to a file it has created.
ReceiverFileInv ==
  rPc \in {"ncg2", "blk1", "blkRest", "write", "eot2"} => rFileD \in 1..Len(rFiles)

SInv == SenderTypeOK /\ SenderFileInv /\ HeaderInv /\ BlocksInv
RInv == ReceiverTypeOK /\ ReceiverFileInv
IInv == WireTypeOK /\ SInv /\ RInv /\ MediumTypeOK

-----------------------------------------------------------------------------
(* The operators of the model return what their names say. *)

\* Blocks and chunks are sequences of bytes.
LEMMA BlockIsSeq ==
  ASSUME NEW blk \in Block
  PROVE  /\ blk \in Seq(Byte)
         /\ Len(blk) = BLK_SZ
         /\ blk[BLK_SZ] \in Byte
  BY ChunkSzAssumption, IsASeq DEF Block, BLK_SZ, DATA_POS

\* Two writes in a row.
LEMMA ConcatBytes ==
  ASSUME NEW s \in Seq(Byte), NEW t \in Seq(Byte)
  PROVE  s \o t \in Seq(Byte) /\ Len(s \o t) = Len(s) + Len(t)
  BY ConcatProperties

\* A block built from a number and a chunk is a block.
LEMMA MakeBlkType ==
  ASSUME NEW num \in Byte, NEW chunk \in Chunk
  PROVE  MakeBlk(num, chunk) \in Block
<1> DEFINE head == <<SOH, num, Complement(num)>>
<1>1. Crc[chunk] \in Seq(Byte) /\ Len(Crc[chunk]) = 2
  <2>1. Crc[chunk] \in Byte \X Byte
    BY CrcAssumption
  <2>2. PICK a \in Byte, b \in Byte : Crc[chunk] = <<a, b>>
    BY <2>1
  <2> QED
    BY <2>2
<1>2. chunk \in Seq(Byte) /\ Len(chunk) = CHUNK_SZ
  BY ChunkSzAssumption DEF Chunk
<1>3. head \in Seq(Byte) /\ Len(head) = 3
  BY DEF SOH, Complement, Byte
<1> DEFINE front == head \o chunk
           back  == Crc[chunk]
<1>4. front \in Seq(Byte) /\ Len(front) = 3 + CHUNK_SZ
  <2> HIDE DEF head
  <2> QED
    BY <1>2, <1>3, ConcatBytes, ChunkSzAssumption
<1>5. front \o back \in Seq(Byte) /\ Len(front \o back) = (3 + CHUNK_SZ) + 2
  <2>1. back \in Seq(Byte) /\ Len(back) = 2
    BY <1>1
  <2> HIDE DEF front, back
  <2> QED
    BY <1>4, <2>1, ConcatBytes, ChunkSzAssumption
<1>6. MakeBlk(num, chunk) = front \o back
  BY DEF MakeBlk
<1>7. (3 + CHUNK_SZ) + 2 = BLK_SZ
  BY ChunkSzAssumption DEF BLK_SZ, DATA_POS
<1> QED
  BY <1>5, <1>6, <1>7, LenProperties DEF Block

\* So are the headers and the data blocks of a file.
LEMMA StatBlkType ==
  ASSUME NEW name \in Byte
  PROVE  StatBlk(name) \in Block
<1>1. StatChunk(name) \in Chunk
  BY DEF StatChunk, Chunk, Byte
<1> QED
  BY <1>1, MakeBlkType DEF StatBlk, Byte

LEMMA DataChunkType ==
  ASSUME NEW data \in Seq(Byte), NEW pos \in Nat
  PROVE  DataChunk(data, pos) \in Chunk
<1>1. ASSUME NEW i \in 1..CHUNK_SZ
      PROVE  (IF pos + i <= Len(data) THEN data[pos + i] ELSE CTRL_Z) \in Byte
  <2>1. CASE pos + i <= Len(data)
    BY <2>1, ChunkSzAssumption, ElementOfSeq
  <2>2. CASE ~(pos + i <= Len(data))
    BY <2>2 DEF CTRL_Z, Byte
  <2> QED
    BY <2>1, <2>2
<1> QED
  BY <1>1 DEF DataChunk, Chunk

LEMMA MostOfType ==
  ASSUME NEW blk \in Block
  PROVE  MostOf(blk) \in Seq(Byte)
<1>1. BLK_SZ - 1 <= BLK_SZ /\ BLK_SZ \in Nat
  BY ChunkSzAssumption DEF BLK_SZ, DATA_POS
<1> QED
  BY <1>1, BlockIsSeq, SubSeqProperties DEF MostOf

\* A read takes bytes from the front of a queue and leaves the others.
LEMMA TakenType ==
  ASSUME NEW q \in Seq(Byte), NEW n \in Nat
  PROVE  /\ Taken(q, n) \in Seq(Byte)
         /\ Len(Taken(q, n)) = (IF Len(q) < n THEN Len(q) ELSE n)
         /\ Left(q, n) \in Seq(Byte)
<1>1. Len(q) \in Nat
  BY LenProperties
<1>2. Taken(q, n) \in Seq(Byte) /\ Len(Taken(q, n)) = (IF Len(q) < n THEN Len(q) ELSE n)
  BY <1>1, SubSeqProperties DEF Taken
<1>3. Left(q, n) \in Seq(Byte)
  BY <1>1, SubSeqProperties DEF Left
<1> QED
  BY <1>2, <1>3

LEMMA EraseTailType ==
  ASSUME NEW res \in Result
  PROVE  EraseTail(res) \in Result
<1>1. \A piece \in Pieces : CutTwo(piece) \in Pieces
  BY DEF CutTwo, Pieces
<1>2. CASE res = <<>>
  BY <1>2 DEF EraseTail
<1>3. CASE res # <<>>
  <2>1. res \in Seq(Pieces)
    BY DEF Result
  <2>2. Len(res) \in 1..Len(res)
    BY <1>3, <2>1, EmptySeq
  <2>3. res[Len(res)] \in Pieces
    BY <2>1, <2>2, ElementOfSeq
  <2>4. [res EXCEPT ![Len(res)] = CutTwo(res[Len(res)])] \in Seq(Pieces)
    BY <1>1, <2>1, <2>2, <2>3, ExceptSeq
  <2> QED
    BY <1>3, <2>4 DEF EraseTail, Result
<1> QED
  BY <1>2, <1>3

LEMMA OnePiece ==
  ASSUME NEW piece \in Pieces
  PROVE  <<piece>> \in Result
  BY DEF Result

\* A name has bytes only.
LEMMA CStringType ==
  ASSUME NEW blk \in Block
  PROVE  CString(blk) \in Seq(Byte)
<1>1. NameLengths(blk) \subseteq 1..(CHUNK_SZ + 2)
  BY DEF NameLengths
<1>2. /\ IsFiniteSet(1..(CHUNK_SZ + 2))
      /\ Cardinality(1..(CHUNK_SZ + 2)) = CHUNK_SZ + 2
  BY ChunkSzAssumption, FS_Interval
<1>3. Cardinality(NameLengths(blk)) \in Nat /\ Cardinality(NameLengths(blk)) <= CHUNK_SZ + 2
  BY <1>1, <1>2, FS_Subset, FS_CardinalityType
<1> QED
  BY <1>3, ChunkSzAssumption, BlockIsSeq, SubSeqProperties DEF CString, BLK_SZ, DATA_POS

\* What creat() makes of the files that are there.
StoredFiles == [name : Seq(Byte), chunks : Seq(Chunk)]
Emptied(file) == [file EXCEPT !.chunks = <<>>]

LEMMA CreatedType ==
  ASSUME NEW files \in Seq(StoredFiles), NEW name \in Seq(Byte)
  PROVE  LET made == Created(files, name)
         IN /\ made \in Seq(StoredFiles) /\ Len(files) \in Nat /\ Len(made) = Len(files) + 1
            /\ made[Len(files) + 1] = [name |-> name, chunks |-> <<>>]
            /\ \A k \in 1..Len(files) :
                 made[k] = IF files[k].name = name THEN Emptied(files[k]) ELSE files[k]
<1> DEFINE new  == [name |-> name, chunks |-> <<>>]
           kept == [k \in 1..Len(files) |->
                      IF files[k].name = name THEN Emptied(files[k]) ELSE files[k]]
<1>1. new \in StoredFiles
  BY EmptySeq DEF StoredFiles
<1>2. Len(files) \in Nat
  BY LenProperties
<1>3. ASSUME NEW k \in 1..Len(files) PROVE kept[k] \in StoredFiles
  <2>1. files[k] \in StoredFiles
    BY ElementOfSeq
  <2>2. Emptied(files[k]) \in StoredFiles
    BY <2>1, EmptySeq DEF Emptied, StoredFiles
  <2> QED
    BY <2>1, <2>2
<1>4. kept \in [1..Len(files) -> StoredFiles]
  BY <1>3
<1>5. kept \in Seq(StoredFiles) /\ Len(kept) = Len(files)
  <2> HIDE DEF kept
  <2> QED
    BY <1>2, <1>4, SeqDef
<1>6. \A k \in 1..Len(files) :
        kept[k] = IF files[k].name = name THEN Emptied(files[k]) ELSE files[k]
  OBVIOUS
<1>7. Created(files, name) = Append(kept, new)
  BY DEF Created, Emptied
<1> HIDE DEF new, kept
<1>8. /\ Append(kept, new) \in Seq(StoredFiles) /\ Len(Append(kept, new)) = Len(files) + 1
      /\ Append(kept, new)[Len(files) + 1] = new
      /\ \A k \in 1..Len(files) : Append(kept, new)[k] = kept[k]
  BY <1>1, <1>2, <1>5, AppendProperties
<1> QED
  BY <1>2, <1>6, <1>7, <1>8 DEF new

-----------------------------------------------------------------------------
(* The steps of the sender. *)

USE DEF sFile, sBlk, away, flags, rStore, far

\* A file of the batch has a name and data.
LEMMA FileOfBatch ==
  ASSUME SenderTypeOK, NEW k \in 1..Len(batch)
  PROVE  /\ batch[k].name \in Byte
         /\ batch[k].data \in Seq(Byte)
         /\ Len(batch[k].data) \in Nat
<1>1. batch \in Seq(File)
  BY BatchesAssumption DEF SenderTypeOK
<1>2. batch[k] \in File
  BY <1>1, ElementOfSeq
<1>3. batch[k].name \in Byte /\ batch[k].data \in Seq(Byte)
  BY <1>2 DEF File
<1> QED
  BY <1>3, LenProperties

\* The k-th block of a file begins where the block before it ends.
LEMMA BlkPlaces ==
  ASSUME NEW k \in Nat, k >= 1
  PROVE  /\ k * CHUNK_SZ \in Nat
         /\ (k + 1) * CHUNK_SZ = k * CHUNK_SZ + CHUNK_SZ
         /\ ((k + 1) - 1) * CHUNK_SZ = k * CHUNK_SZ
         /\ k <= (k - 1) * CHUNK_SZ + 1
<1>1. k * CHUNK_SZ \in Nat /\ (k + 1) * CHUNK_SZ = k * CHUNK_SZ + CHUNK_SZ
  BY ChunkSzAssumption
<1>2. ((k + 1) - 1) * CHUNK_SZ = k * CHUNK_SZ
  BY ChunkSzAssumption
<1>3. (k - 1) * CHUNK_SZ = (k - 1) * (CHUNK_SZ - 1) + (k - 1)
  BY ChunkSzAssumption
<1>4. (k - 1) * (CHUNK_SZ - 1) \in Nat
  <2>1. k - 1 \in Nat /\ CHUNK_SZ - 1 \in Nat
    BY ChunkSzAssumption
  <2> QED
    BY <2>1
<1>5. k <= (k - 1) * CHUNK_SZ + 1
  BY <1>3, <1>4
<1> QED
  BY <1>1, <1>2, <1>5

\* genBlk reads on from where it stopped and builds the block it read.
LEMMA GenBlkStep ==
  ASSUME SenderTypeOK, sFileD \in 1..Len(batch), sPos <= Len(Data), GenBlk
  PROVE  /\ bytesRd' = Smaller(CHUNK_SZ, Len(Data) - sPos)
         /\ bytesRd' \in 0..CHUNK_SZ
         /\ sPos' = sPos + bytesRd'
         /\ sPos' \in Nat
         /\ blkBuf' \in Block
         /\ bytesRd' > 0 => blkBuf' = MakeBlk(blkNum, DataChunk(Data, sPos))
<1>1. Len(Data) \in Nat /\ Data \in Seq(Byte)
  BY FileOfBatch DEF Data
<1>2. sPos \in Nat /\ blkNum \in Byte /\ blkBuf \in Block
  BY DEF SenderTypeOK
<1>3. MakeBlk(blkNum, DataChunk(Data, sPos)) \in Block
  BY <1>1, <1>2, DataChunkType, MakeBlkType
<1>4. /\ bytesRd' = Smaller(CHUNK_SZ, Len(Data) - sPos)
      /\ sPos' = sPos + Smaller(CHUNK_SZ, Len(Data) - sPos)
      /\ blkBuf' = IF Smaller(CHUNK_SZ, Len(Data) - sPos) > 0
                   THEN MakeBlk(blkNum, DataChunk(Data, sPos)) ELSE blkBuf
  BY DEF GenBlk, Data
<1>5. Smaller(CHUNK_SZ, Len(Data) - sPos) \in 0..CHUNK_SZ
  BY <1>1, <1>2, ChunkSzAssumption DEF Smaller
<1> QED
  BY <1>2, <1>3, <1>4, <1>5

\* prepStatBlk leaves the sender before a header with nothing read of the file.
LEMMA PrepStatBlkStep ==
  ASSUME SenderTypeOK, PrepStatBlk
  PROVE  /\ blkNum' = 0
         /\ fileNameIndex' \in Nat
         /\ sFileD' \in {-1, -2} \cup (1..Len(batch))
         /\ sPos' \in Nat
         /\ blkBuf' \in Block
         /\ sPc' \in {"readC", "finMost"}
         /\ sPc' = "readC" => sFileD' # -2
         /\ sFileD' \notin {-1, -2} => sPos' = 0
<1>1. fileNameIndex \in Nat /\ sPos \in Nat /\ blkBuf \in Block
  BY DEF SenderTypeOK
<1>2. Len(batch) \in Nat
  BY BatchesAssumption, LenProperties DEF SenderTypeOK
<1>3. CASE fileNameIndex < Len(batch) /\ batch[fileNameIndex + 1].openable
  <2>1. fileNameIndex + 1 \in 1..Len(batch)
    BY <1>1, <1>2, <1>3
  <2>2. StatBlk(batch[fileNameIndex + 1].name) \in Block
    BY <2>1, FileOfBatch, StatBlkType
  <2> QED
    BY <1>1, <1>2, <1>3, <2>1, <2>2 DEF PrepStatBlk
<1>4. CASE fileNameIndex < Len(batch) /\ ~batch[fileNameIndex + 1].openable
  BY <1>1, <1>2, <1>4 DEF PrepStatBlk
<1>5. CASE fileNameIndex >= Len(batch)
  <2>1. StatBlk(0) \in Block
    BY StatBlkType DEF Byte
  <2> QED
    BY <1>1, <1>2, <1>5, <2>1 DEF PrepStatBlk
<1> QED
  BY <1>1, <1>2, <1>3, <1>4, <1>5

\* Reading a reply and the three ways the sender writes keep the wires typed.
LEMMA ReadByteType ==
  ASSUME WireTypeOK, ReadByte
  PROVE  m2s' \in Seq(Byte)
  BY HeadTailProperties DEF WireTypeOK, ReadByte

LEMMA SendLastByteType ==
  ASSUME WireTypeOK, NEW blk \in Block, SendLastByte(blk)
  PROVE  s2m' \in Seq(Byte) /\ m2s' \in Seq(Byte)
<1>1. blk[BLK_SZ] \in Byte
  BY BlockIsSeq
<1> QED
  BY <1>1, AppendProperties, EmptySeq DEF WireTypeOK, SendLastByte

LEMMA SendMostNewType ==
  ASSUME WireTypeOK, SenderTypeOK, NEW before \in Seq(Byte), SendMostNew(before)
  PROVE  /\ s2m' \in Seq(Byte)
         /\ blkNum' = (blkNum + 1) % 256 /\ blkNum' \in Byte
         /\ blkSent' = blkBuf /\ blkSent' \in Block
<1>1. blkBuf \in Block /\ blkNum \in Byte /\ s2m \in Seq(Byte)
  BY DEF SenderTypeOK, WireTypeOK
<1>2. MostOf(blkBuf) \in Seq(Byte)
  BY <1>1, MostOfType
<1>3. s2m \o before \in Seq(Byte)
  BY <1>1, ConcatBytes
<1>4. (s2m \o before) \o MostOf(blkBuf) \in Seq(Byte)
  BY <1>2, <1>3, ConcatBytes
<1>5. (blkNum + 1) % 256 \in Byte
  BY <1>1 DEF Byte
<1> QED
  BY <1>1, <1>4, <1>5 DEF SendMostNew, NextBlkNum

LEMMA AppendByte ==
  ASSUME WireTypeOK, NEW byte \in Byte
  PROVE  Append(s2m, byte) \in Seq(Byte)
  BY AppendProperties DEF WireTypeOK

\* The control bytes are bytes.
LEMMA ControlBytes ==
  {SOH, EOT, ACK, NAK, CAN, NCG} \subseteq Byte /\ CANs \in Seq(Byte)
  BY DEF SOH, EOT, ACK, NAK, CAN, NCG, CANs, Byte

\* After the reply to a header or to a block: block 1, or block k+1, is sent
\* for the first time, or the file is at its end.
\* The block sent after the reply to the header is block 1.
LEMMA FirstBlkAfter ==
  ASSUME SInv, sPc = "statC", NextBlkOrEot, bytesRd # 0, UNCHANGED <<batch, sPos>>
  PROVE  /\ 1 \in 1..Len(Data) /\ HasBlk(1)
         /\ SendingBlk(1)'
<1>1. sFileD \in 1..Len(batch) /\ bytesRd \in Int /\ bytesRd >= 0
  BY DEF SInv, SenderFileInv, SenderTypeOK, HeaderInv
<1>2. Len(Data) \in Nat
  BY <1>1, FileOfBatch DEF SInv, Data
<1>3. SendMostNew(<<>>) /\ sFileD' = sFileD
  BY DEF NextBlkOrEot
<1>4. blkNum' = (blkNum + 1) % 256 /\ blkSent' = blkBuf /\ Data' = Data
  BY <1>3 DEF SendMostNew, NextBlkNum, Data
<1>5. /\ blkNum = 1 /\ sPos = Smaller(CHUNK_SZ, Len(Data))
      /\ blkBuf = DataBlk(Data, 1) /\ Len(Data) > 0
  BY <1>1 DEF SInv, HeaderInv
<1>6. (1 - 1) * CHUNK_SZ = 0 /\ 1 * CHUNK_SZ = CHUNK_SZ
  BY ChunkSzAssumption
<1>7. 1 \in 1..Len(Data) /\ HasBlk(1)
  BY <1>2, <1>5, <1>6 DEF HasBlk
<1> QED
  BY <1>4, <1>5, <1>6, <1>7 DEF SendingBlk

\* The block sent after the reply to block k is block k+1.
LEMMA NextBlkAfter ==
  ASSUME SInv, sPc \in {"reply", "reReply"}, NextBlkOrEot, bytesRd # 0, UNCHANGED <<batch, sPos>>,
         NEW k \in 1..Len(Data), AwaitingReply(k)
  PROVE  /\ k + 1 \in 1..Len(Data) /\ HasBlk(k + 1)
         /\ SendingBlk(k + 1)'
<1>1. sFileD \in 1..Len(batch) /\ bytesRd \in Int /\ bytesRd >= 0
  BY DEF SInv, SenderFileInv, SenderTypeOK, AwaitingReply
<1>2. Len(Data) \in Nat
  BY <1>1, FileOfBatch DEF SInv, Data
<1>3. SendMostNew(<<>>) /\ sFileD' = sFileD
  BY DEF NextBlkOrEot
<1>4. blkNum' = (blkNum + 1) % 256 /\ blkSent' = blkBuf
  BY <1>3 DEF SendMostNew, NextBlkNum
<1>5. k \in Nat /\ k >= 1 /\ (k + 1) - 1 = k
  BY <1>2
<1>6. /\ blkNum = (k + 1) % 256
      /\ blkBuf = DataBlk(Data, k + 1)
      /\ k * CHUNK_SZ < Len(Data)
      /\ sPos = Smaller((k + 1) * CHUNK_SZ, Len(Data))
  BY <1>1 DEF AwaitingReply
<1>7. ((k + 1) - 1) * CHUNK_SZ < Len(Data)
  BY <1>5, <1>6
<1>8. k + 1 \in 1..Len(Data)
  <2>1. k + 1 <= ((k + 1) - 1) * CHUNK_SZ + 1 /\ ((k + 1) - 1) * CHUNK_SZ \in Nat
    BY <1>5, BlkPlaces
  <2> QED
    BY <2>1, <1>2, <1>5, <1>7
<1>9. blkNum' = ((k + 1) + 1) % 256
  BY <1>4, <1>5, <1>6
<1>10. Data' = Data
  BY <1>3 DEF Data
<1>11. SendingBlk(k + 1)'
  BY <1>4, <1>6, <1>9, <1>10 DEF SendingBlk
<1> QED
  BY <1>7, <1>8, <1>11 DEF HasBlk

LEMMA NextBlkOrEotStep ==
  ASSUME WireTypeOK, SInv, sPc \in {"statC", "reply", "reReply"}, NextBlkOrEot,
         batch' = batch, sPos' = sPos, bytesRd' = bytesRd, blkBuf' = blkBuf
  PROVE  /\ s2m' \in Seq(Byte)
         /\ blkNum' \in Byte /\ blkSent' \in Block
         /\ \/ /\ sPc' = "blkLast"
               /\ sFileD' = sFileD
               /\ \E k \in 1..Len(Data) : HasBlk(k) /\ SendingBlk(k)'
            \/ sPc' = "eotNak" /\ sFileD' = -1
<1> USE DEF SInv
<1>1. sFileD \in 1..Len(batch) /\ bytesRd \in Int /\ bytesRd >= 0 /\ blkNum \in Byte
  BY DEF SenderFileInv, HeaderInv, BlocksInv, AwaitingReply, SenderTypeOK
<1>2. Len(Data) \in Nat
  BY <1>1, FileOfBatch DEF Data
<1>3. CASE bytesRd = 0
  <2>1. /\ s2m' = Append(s2m, EOT) /\ sFileD' = -1 /\ sPc' = "eotNak"
        /\ blkNum' = blkNum /\ blkSent' = blkSent
    BY <1>3 DEF NextBlkOrEot
  <2> QED
    BY <2>1, AppendByte, ControlBytes DEF SenderTypeOK
<1>4. CASE bytesRd # 0
  <2>1. SendMostNew(<<>>) /\ sPc' = "blkLast" /\ sFileD' = sFileD
    BY <1>4 DEF NextBlkOrEot
  <2>2. /\ s2m' \in Seq(Byte)
        /\ blkNum' = (blkNum + 1) % 256 /\ blkNum' \in Byte
        /\ blkSent' = blkBuf /\ blkSent' \in Block
    BY <2>1, SendMostNewType, EmptySeq
  <2>3. CASE sPc = "statC"
    <3>1. 1 \in 1..Len(Data) /\ HasBlk(1) /\ SendingBlk(1)'
      BY <1>4, <2>3, FirstBlkAfter
    <3> QED
      BY <2>1, <2>2, <3>1
  <2>4. CASE sPc \in {"reply", "reReply"}
    <3>1. PICK k \in 1..Len(Data) : HasBlk(k) /\ AwaitingReply(k)
      BY <2>4 DEF BlocksInv
    <3>2. k + 1 \in 1..Len(Data) /\ HasBlk(k + 1) /\ SendingBlk(k + 1)'
      BY <1>4, <2>4, <3>1, NextBlkAfter
    <3> QED
      BY <2>1, <2>2, <3>2
  <2> QED
    BY <2>3, <2>4
<1> QED
  BY <1>3, <1>4

\* A step that changes only the wires, the place in the code and the result.
LEMMA WiresOnly ==
  ASSUME WireTypeOK, SInv, s2m' \in Seq(Byte), m2s' \in Seq(Byte),
         UNCHANGED <<m2r, r2m, exited, batch, fileNameIndex, sFileD, sPos, bytesRd,
                     blkNum, blkBuf, blkSent, errCnt>>,
         sResult' \in Result,
         \/ sPc = "statAck" /\ sPc' = "statC"
         \/ sPc = "reLast" /\ sPc' = "reReply"
         \/ sPc' \in {"eotAck", "finLast", "finAck", "done"}
  PROVE  WireTypeOK' /\ SInv'
<1>1. WireTypeOK'
  BY DEF WireTypeOK
<1>2. SenderTypeOK'
  BY DEF SInv, SenderTypeOK, SPcs, ReadingPcs
<1>3. SenderFileInv' /\ HeaderInv'
  BY DEF SInv, SenderFileInv, HeaderInv, Data
<1>4. BlocksInv'
  BY DEF SInv, BlocksInv, HasBlk, SendingBlk, AwaitingReply, Data
<1> QED
  BY <1>1, <1>2, <1>3, <1>4 DEF SInv

LEMMA BeforeHeader ==
  ASSUME SenderTypeOK, PrepStatBlk, batch' = batch, bytesRd' = bytesRd,
         blkSent' = blkSent, errCnt' = errCnt, sResult' \in Result
  PROVE  SenderTypeOK' /\ SenderFileInv' /\ HeaderInv' /\ BlocksInv'
<1>1. /\ blkNum' = 0
      /\ fileNameIndex' \in Nat
      /\ sFileD' \in {-1, -2} \cup (1..Len(batch))
      /\ sPos' \in Nat
      /\ blkBuf' \in Block
      /\ sPc' \in {"readC", "finMost"}
      /\ sPc' = "readC" => sFileD' # -2
      /\ sFileD' \notin {-1, -2} => sPos' = 0
  BY PrepStatBlkStep
<1>2. blkNum' \in Byte
  BY <1>1 DEF Byte
<1>3. sPc' \in SPcs
  BY <1>1 DEF SPcs, ReadingPcs
<1>4. SenderTypeOK'
  BY <1>1, <1>2, <1>3 DEF SenderTypeOK
<1>5. SenderFileInv' /\ HeaderInv' /\ BlocksInv'
  BY <1>1 DEF SenderFileInv, HeaderInv, BlocksInv
<1> QED
  BY <1>4, <1>5

LEMMA StartKeeps ==
  ASSUME WireTypeOK, SInv, Start
  PROVE  WireTypeOK' /\ SInv'
<1>1. PrepStatBlk /\ UNCHANGED <<wires, batch, bytesRd, blkSent, errCnt, sResult>>
  BY DEF Start
<1>2. SenderTypeOK
  BY DEF SInv
<1>3. SenderTypeOK' /\ SenderFileInv' /\ HeaderInv' /\ BlocksInv'
  BY <1>1, <1>2, BeforeHeader DEF SenderTypeOK, wires
<1> QED
  BY <1>1, <1>3 DEF SInv, WireTypeOK, wires

LEMMA ReadCKeeps ==
  ASSUME WireTypeOK, SInv, ReadC
  PROVE  WireTypeOK' /\ SInv'
<1> DEFINE before == IF sFileD = -1 THEN CANs ELSE <<>>
<1>1. /\ sPc = "readC" /\ ReadByte /\ SendMostNew(before) /\ sPc' = "statLast"
      /\ sResult' = IF sFileD = -1 THEN <<"CreatError">> ELSE sResult
      /\ UNCHANGED <<m2r, r2m, exited, batch, fileNameIndex, sFileD, sPos, bytesRd,
                     blkBuf, errCnt>>
  BY DEF ReadC
<1>2. SenderTypeOK /\ blkNum = 0
  BY <1>1 DEF SInv, HeaderInv
<1>3. before \in Seq(Byte)
  BY ControlBytes, EmptySeq
<1>4. /\ s2m' \in Seq(Byte) /\ blkSent' \in Block
      /\ blkNum' = (blkNum + 1) % 256 /\ blkNum' \in Byte
  <2> HIDE DEF before
  <2> QED
    BY <1>1, <1>2, <1>3, SendMostNewType
<1>5. blkNum' = 1
  BY <1>2, <1>4
<1>6. sResult' \in Result
  <2>1. "CreatError" \in Pieces
    BY DEF Pieces
  <2>2. <<"CreatError">> \in Result
    BY <2>1 DEF Result
  <2> QED
    BY <1>1, <1>2, <2>2 DEF SenderTypeOK
<1>7. SenderTypeOK'
  BY <1>1, <1>2, <1>4, <1>6 DEF SenderTypeOK, SPcs, ReadingPcs
<1>8. SenderFileInv' /\ HeaderInv' /\ BlocksInv'
  BY <1>1, <1>5 DEF SInv, SenderFileInv, HeaderInv, BlocksInv
<1>9. WireTypeOK'
  BY <1>1, <1>4, ReadByteType DEF WireTypeOK
<1> QED
  BY <1>7, <1>8, <1>9 DEF SInv

\* With its last byte sent, block k awaits its reply and block k+1 is prepared.
LEMMA BlkIsSent ==
  ASSUME SInv, PrepNextSendLast, sPc = "blkLast", NEW k \in 1..Len(Data), SendingBlk(k)
  PROVE  /\ AwaitingReply(k)' /\ sPc' = "reply"
         /\ sPos' \in Nat /\ blkBuf' \in Block /\ bytesRd' \in 0..CHUNK_SZ
<1>1. sFileD \in 1..Len(batch) /\ SenderTypeOK /\ sFileD # -1
  BY DEF SInv, SenderFileInv
<1>2. /\ GenBlk /\ sPc' = "reply"
      /\ UNCHANGED <<batch, sFileD, blkNum, blkSent>>
  BY <1>1 DEF PrepNextSendLast
<1>3. Len(Data) \in Nat /\ Data' = Data
  BY <1>1, <1>2, FileOfBatch DEF Data
<1>4. /\ k \in Nat /\ k >= 1 /\ (k + 1) - 1 = k
      /\ blkSent = DataBlk(Data, k) /\ blkNum = (k + 1) % 256
      /\ sPos = Smaller(k * CHUNK_SZ, Len(Data))
  BY <1>3 DEF SendingBlk
<1>5. k * CHUNK_SZ \in Nat /\ (k + 1) * CHUNK_SZ = k * CHUNK_SZ + CHUNK_SZ
  BY <1>4, BlkPlaces
<1>6. sPos <= Len(Data)
  BY <1>3, <1>4, <1>5 DEF Smaller
<1>7. /\ bytesRd' = Smaller(CHUNK_SZ, Len(Data) - sPos)
      /\ bytesRd' \in 0..CHUNK_SZ
      /\ sPos' = sPos + bytesRd' /\ sPos' \in Nat
      /\ blkBuf' \in Block
      /\ bytesRd' > 0 => blkBuf' = MakeBlk(blkNum, DataChunk(Data, sPos))
  BY <1>1, <1>2, <1>6, GenBlkStep
<1>8. DataBlk(Data, k + 1) = MakeBlk((k + 1) % 256, DataChunk(Data, k * CHUNK_SZ))
  BY <1>4 DEF DataBlk
<1>9. AwaitingReply(k)'
  <2>1. CASE k * CHUNK_SZ < Len(Data)
    <3>1. sPos = k * CHUNK_SZ /\ bytesRd' > 0
      BY <1>3, <1>4, <1>5, <1>7, <2>1, ChunkSzAssumption DEF Smaller
    <3>2. sPos' = Smaller((k + 1) * CHUNK_SZ, Len(Data))
      <4> DEFINE from == k * CHUNK_SZ
                 to   == (k + 1) * CHUNK_SZ
      <4>1. from \in Nat /\ to = from + CHUNK_SZ /\ sPos = from
        BY <1>5, <3>1
      <4>2. sPos' = from + Smaller(CHUNK_SZ, Len(Data) - from)
        BY <1>7, <4>1
      <4>3. sPos' = Smaller(to, Len(Data))
        <5> HIDE DEF from, to
        <5> QED
          BY <1>3, <4>1, <4>2, ChunkSzAssumption DEF Smaller
      <4> QED
        BY <4>3
    <3>3. blkBuf' = DataBlk(Data, k + 1)
      BY <1>4, <1>7, <1>8, <3>1
    <3> QED
      BY <1>2, <1>3, <1>4, <1>7, <2>1, <3>1, <3>2, <3>3 DEF AwaitingReply
  <2>2. CASE ~(k * CHUNK_SZ < Len(Data))
    <3>1. Len(Data) <= k * CHUNK_SZ /\ sPos = Len(Data)
      BY <1>3, <1>4, <1>5, <2>2 DEF Smaller
    <3>2. bytesRd' = 0
      BY <1>3, <1>7, <3>1, ChunkSzAssumption DEF Smaller
    <3> QED
      BY <1>2, <1>3, <1>4, <3>1, <3>2 DEF AwaitingReply
  <2> QED
    BY <2>1, <2>2
<1> QED
  BY <1>2, <1>7, <1>9

LEMMA PrepNextSendLastKeeps ==
  ASSUME WireTypeOK, SInv, PrepNextSendLast
  PROVE  WireTypeOK' /\ SInv'
<1>1. /\ sPc \in {"statLast", "blkLast"}
      /\ UNCHANGED <<m2r, r2m, batch, fileNameIndex, sFileD, blkNum, blkSent, errCnt, sResult>>
  BY DEF PrepNextSendLast
<1>2. SenderTypeOK
  BY DEF SInv
<1>3. CASE sFileD = -1
  <2>1. UNCHANGED <<s2m, m2s, sPc, bytesRd, sPos, blkBuf>> /\ exited' = TRUE
    BY <1>3 DEF PrepNextSendLast
  <2>2. SenderTypeOK' /\ WireTypeOK'
    BY <1>1, <1>2, <2>1 DEF SenderTypeOK, WireTypeOK
  <2>3. SenderFileInv' /\ HeaderInv'
    BY <1>1, <2>1 DEF SInv, SenderFileInv, HeaderInv, Data
  <2>4. BlocksInv'
    BY <1>1, <2>1 DEF SInv, BlocksInv, HasBlk, SendingBlk, AwaitingReply, Data
  <2> QED
    BY <2>2, <2>3, <2>4 DEF SInv
<1>4. CASE sFileD # -1
  <2>1. /\ GenBlk /\ SendLastByte(blkSent) /\ exited' = exited
        /\ sPc' = IF sPc = "statLast" THEN "statAck" ELSE "reply"
    BY <1>4 DEF PrepNextSendLast
  <2>2. sFileD \in 1..Len(batch)
    BY <1>1, <1>2, <1>4 DEF SInv, SenderFileInv, SenderTypeOK
  <2>3. Len(Data) \in Nat /\ Data' = Data /\ blkSent \in Block
    BY <1>1, <1>2, <2>2, FileOfBatch DEF Data, SenderTypeOK
  <2>4. WireTypeOK'
    BY <1>1, <2>1, <2>3, SendLastByteType DEF WireTypeOK
  <2>5. CASE sPc = "statLast"
    <3>1. sPos = 0 /\ blkNum = 1 /\ sPos <= Len(Data)
      BY <1>4, <2>3, <2>5 DEF SInv, HeaderInv
    <3>2. /\ bytesRd' = Smaller(CHUNK_SZ, Len(Data) - sPos)
          /\ bytesRd' \in 0..CHUNK_SZ
          /\ sPos' = sPos + bytesRd' /\ sPos' \in Nat
          /\ blkBuf' \in Block
          /\ bytesRd' > 0 => blkBuf' = MakeBlk(blkNum, DataChunk(Data, sPos))
      BY <1>2, <2>1, <2>2, <3>1, GenBlkStep
    <3>3. bytesRd' = Smaller(CHUNK_SZ, Len(Data)) /\ sPos' = Smaller(CHUNK_SZ, Len(Data))
      BY <2>3, <3>1, <3>2
    <3>4. DataBlk(Data, 1) = MakeBlk(1, DataChunk(Data, 0))
      <4>1. 1 % 256 = 1 /\ (1 - 1) * CHUNK_SZ = 0
        BY ChunkSzAssumption
      <4> QED
        BY <4>1 DEF DataBlk
    <3>5. SenderTypeOK'
      BY <1>1, <1>2, <2>1, <2>5, <3>2 DEF SenderTypeOK, SPcs, ReadingPcs
    <3>6. HeaderInv'
      <4>1. sPc' = "statAck" /\ blkNum' = 1 /\ bytesRd' >= 0
        BY <1>1, <2>1, <2>5, <3>1, <3>2
      <4>2. IF bytesRd' > 0 THEN blkBuf' = DataBlk(Data, 1) /\ Len(Data) > 0 ELSE Len(Data) = 0
        BY <2>3, <3>1, <3>2, <3>3, <3>4, ChunkSzAssumption DEF Smaller
      <4> QED
        BY <2>3, <3>3, <4>1, <4>2 DEF HeaderInv
    <3>7. SenderFileInv' /\ BlocksInv'
      BY <1>1, <2>1, <2>2, <2>5 DEF SenderFileInv, BlocksInv
    <3> QED
      BY <2>4, <3>5, <3>6, <3>7 DEF SInv
  <2>6. CASE sPc = "blkLast"
    <3>1. PICK k \in 1..Len(Data) : HasBlk(k) /\ SendingBlk(k)
      BY <2>6 DEF SInv, BlocksInv
    <3>2. /\ AwaitingReply(k)' /\ sPc' = "reply"
          /\ sPos' \in Nat /\ blkBuf' \in Block /\ bytesRd' \in 0..CHUNK_SZ
      BY <2>6, <3>1, BlkIsSent
    <3>3. SenderTypeOK'
      BY <1>1, <1>2, <2>1, <2>6, <3>2 DEF SenderTypeOK, SPcs, ReadingPcs
    <3>4. BlocksInv'
      BY <2>3, <3>1, <3>2 DEF BlocksInv, HasBlk
    <3>5. SenderFileInv' /\ HeaderInv'
      BY <1>1, <2>2, <3>2 DEF SenderFileInv, HeaderInv
    <3> QED
      BY <2>4, <3>3, <3>4, <3>5 DEF SInv
  <2> QED
    BY <1>1, <2>5, <2>6
<1> QED
  BY <1>3, <1>4

\* A reply after which the next block or the first EOT is sent.
LEMMA AfterReply ==
  ASSUME WireTypeOK, SInv, sPc \in {"statC", "reply", "reReply"}, ReadByte, NextBlkOrEot,
         errCnt' \in Nat,
         UNCHANGED <<m2r, r2m, exited, batch, fileNameIndex, sPos, bytesRd, blkBuf, sResult>>
  PROVE  WireTypeOK' /\ SInv'
<1>1. /\ s2m' \in Seq(Byte) /\ blkNum' \in Byte /\ blkSent' \in Block
      /\ \/ /\ sPc' = "blkLast" /\ sFileD' = sFileD
            /\ \E k \in 1..Len(Data) : HasBlk(k) /\ SendingBlk(k)'
         \/ sPc' = "eotNak" /\ sFileD' = -1
  BY NextBlkOrEotStep
<1>2. WireTypeOK'
  BY <1>1, ReadByteType DEF WireTypeOK
<1>3. SenderTypeOK'
  BY <1>1 DEF SInv, SenderTypeOK, SPcs, ReadingPcs
<1>4. SenderFileInv' /\ HeaderInv'
  BY <1>1 DEF SInv, SenderFileInv, HeaderInv
<1>5. BlocksInv'
  <2>1. CASE sPc' = "blkLast" /\ sFileD' = sFileD
    <3>1. PICK k \in 1..Len(Data) : HasBlk(k) /\ SendingBlk(k)'
      BY <1>1, <2>1
    <3>2. Data' = Data
      BY <2>1 DEF Data
    <3> QED
      BY <2>1, <3>1, <3>2 DEF BlocksInv, HasBlk
  <2>2. CASE sPc' = "eotNak"
    BY <2>2 DEF BlocksInv
  <2> QED
    BY <1>1, <2>1, <2>2
<1> QED
  BY <1>2, <1>3, <1>4, <1>5 DEF SInv

LEMMA ReadReplyKeeps ==
  ASSUME WireTypeOK, SInv, ReadReply
  PROVE  WireTypeOK' /\ SInv'
<1>1. /\ sPc \in {"reply", "reReply"} /\ ReadByte
      /\ errCnt' = IF sPc = "reply" THEN 0 ELSE errCnt
      /\ UNCHANGED <<m2r, r2m, exited, batch, fileNameIndex, sPos, bytesRd, blkBuf, sResult>>
  BY DEF ReadReply
<1>2. SenderTypeOK /\ errCnt' \in Nat
  BY <1>1 DEF SInv, SenderTypeOK
<1>3. CASE Resends(Head(m2s), errCnt')
  <2>1. s2m' = s2m \o MostOf(blkSent) /\ sPc' = "reLast" /\ UNCHANGED <<sFileD, blkNum, blkSent>>
    BY <1>3 DEF ReadReply
  <2>2. s2m' \in Seq(Byte)
    BY <1>2, <2>1, MostOfType, ConcatBytes DEF WireTypeOK, SenderTypeOK
  <2>3. WireTypeOK'
    BY <1>1, <2>2, ReadByteType DEF WireTypeOK
  <2>4. SenderTypeOK'
    BY <1>1, <1>2, <2>1 DEF SenderTypeOK, SPcs, ReadingPcs
  <2>5. SenderFileInv' /\ HeaderInv'
    BY <1>1, <2>1 DEF SInv, SenderFileInv, HeaderInv
  <2>6. BlocksInv'
    BY <1>1, <2>1 DEF SInv, BlocksInv, HasBlk, AwaitingReply, Data
  <2> QED
    BY <2>3, <2>4, <2>5, <2>6 DEF SInv
<1>4. CASE ~Resends(Head(m2s), errCnt')
  <2>1. NextBlkOrEot
    BY <1>4 DEF ReadReply
  <2> QED
    BY <1>1, <1>2, <2>1, AfterReply
<1> QED
  BY <1>3, <1>4

LEMMA ReadStatCKeeps ==
  ASSUME WireTypeOK, SInv, ReadStatC
  PROVE  WireTypeOK' /\ SInv'
<1>1. /\ sPc = "statC" /\ ReadByte /\ NextBlkOrEot
      /\ UNCHANGED <<m2r, r2m, exited, batch, fileNameIndex, sPos, bytesRd, blkBuf,
                     errCnt, sResult>>
  BY DEF ReadStatC
<1>2. errCnt' \in Nat
  BY <1>1 DEF SInv, SenderTypeOK
<1> QED
  BY <1>1, <1>2, AfterReply

LEMMA ReadEotAckKeeps ==
  ASSUME WireTypeOK, SInv, ReadEotAck
  PROVE  WireTypeOK' /\ SInv'
<1>1. /\ ReadByte /\ PrepStatBlk /\ sResult' = Append(sResult, "Done, ")
      /\ UNCHANGED <<s2m, m2r, r2m, exited, batch, bytesRd, blkSent, errCnt>>
  BY DEF ReadEotAck
<1>2. SenderTypeOK
  BY DEF SInv
<1>3. sResult' \in Result
  <2>1. "Done, " \in Pieces
    BY DEF Pieces
  <2> QED
    BY <1>1, <1>2, <2>1, AppendProperties DEF SenderTypeOK, Result
<1>4. WireTypeOK'
  BY <1>1, ReadByteType DEF WireTypeOK
<1>5. SenderTypeOK' /\ SenderFileInv' /\ HeaderInv' /\ BlocksInv'
  BY <1>1, <1>2, <1>3, BeforeHeader
<1> QED
  BY <1>4, <1>5 DEF SInv

\* Every step of the sender keeps the sender's part and the wires'.
LEMMA SenderKeeps ==
  ASSUME WireTypeOK, SInv, SenderNext
  PROVE  WireTypeOK' /\ SInv'
<1> SenderTypeOK /\ sResult \in Result /\ s2m \in Seq(Byte) /\ m2s \in Seq(Byte)
    /\ blkBuf \in Block /\ blkSent \in Block
  BY DEF SInv, SenderTypeOK, WireTypeOK
<1>1. CASE Start
  BY <1>1, StartKeeps
<1>2. CASE ReadC
  BY <1>2, ReadCKeeps
<1>3. CASE PrepNextSendLast
  BY <1>3, PrepNextSendLastKeeps
<1>4. CASE ReadStatAck
  <2>1. m2s' \in Seq(Byte) /\ s2m' \in Seq(Byte)
    BY <1>4, ReadByteType DEF ReadStatAck
  <2> QED
    BY <1>4, <2>1, WiresOnly DEF ReadStatAck
<1>5. CASE ReadStatC
  BY <1>5, ReadStatCKeeps
<1>6. CASE ReadReply
  BY <1>6, ReadReplyKeeps
<1>7. CASE ResendLast
  <2>1. m2s' \in Seq(Byte) /\ s2m' \in Seq(Byte)
    BY <1>7, SendLastByteType DEF ResendLast
  <2> QED
    BY <1>7, <2>1, WiresOnly DEF ResendLast
<1>8. CASE ReadEotNak
  <2>1. m2s' \in Seq(Byte) /\ s2m' \in Seq(Byte)
    BY <1>8, ReadByteType, AppendByte, ControlBytes DEF ReadEotNak
  <2> QED
    BY <1>8, <2>1, WiresOnly DEF ReadEotNak
<1>9. CASE ReadEotAck
  BY <1>9, ReadEotAckKeeps
<1>10. CASE SendFinalMost
  <2>1. m2s' \in Seq(Byte) /\ s2m' \in Seq(Byte)
    BY <1>10, MostOfType, ConcatBytes DEF SendFinalMost
  <2> QED
    BY <1>10, <2>1, WiresOnly DEF SendFinalMost
<1>11. CASE SendFinalLast
  <2>1. m2s' \in Seq(Byte) /\ s2m' \in Seq(Byte)
    BY <1>11, SendLastByteType DEF SendFinalLast
  <2> QED
    BY <1>11, <2>1, WiresOnly DEF SendFinalLast
<1>12. CASE ReadFinalAck
  <2>1. m2s' \in Seq(Byte) /\ s2m' \in Seq(Byte) /\ sResult' \in Result
    BY <1>12, ReadByteType, EraseTailType DEF ReadFinalAck
  <2> QED
    BY <1>12, <2>1, WiresOnly DEF ReadFinalAck
<1> QED
  BY <1>1, <1>2, <1>3, <1>4, <1>5, <1>6, <1>7, <1>8, <1>9, <1>10, <1>11, <1>12
  DEF SenderNext

-----------------------------------------------------------------------------
(* The steps of the receiver. *)

LEMMA ReplyType ==
  ASSUME WireTypeOK, NEW bytes \in Seq(Byte), Reply(bytes)
  PROVE  r2m' \in Seq(Byte)
  BY ConcatBytes DEF WireTypeOK, Reply

LEMMA OneByteReplies ==
  <<NCG>> \in Seq(Byte) /\ <<ACK>> \in Seq(Byte) /\ <<NAK>> \in Seq(Byte) /\ CANs \in Seq(Byte)
<1>1. NCG \in Byte /\ ACK \in Byte /\ NAK \in Byte
  BY ControlBytes
<1> QED
  BY <1>1, ControlBytes

LEMMA ReadFirstType ==
  ASSUME WireTypeOK, ReceiverTypeOK, ReadFirst
  PROVE  rcvBlk' \in Block /\ m2r' \in Seq(Byte)
<1>1. Head(m2r) \in Byte /\ Tail(m2r) \in Seq(Byte)
  BY HeadTailProperties DEF WireTypeOK, ReadFirst
<1>2. rcvBlk \in Block
  BY DEF ReceiverTypeOK
<1> QED
  BY <1>1, <1>2 DEF ReadFirst, Block

\* getRestBlk leaves a block and a verdict on it.
LEMMA GetRestBlkType ==
  ASSUME WireTypeOK, ReceiverTypeOK, GetRestBlk
  PROVE  /\ rcvBlk' \in Block
         /\ m2r' \in Seq(Byte)
         /\ goodBlk' \in BOOLEAN /\ goodBlk1st' \in BOOLEAN /\ syncLoss' \in BOOLEAN
         /\ numLastGoodBlk' \in Byte
<1> DEFINE blk == [i \in 1..BLK_SZ |-> IF i = 1 THEN rcvBlk[1] ELSE m2r[i - 1]]
<1>1. BLK_SZ \in Nat /\ BLK_SZ >= 3 /\ REST_BLK_SZ = BLK_SZ - 1 /\ REST_BLK_SZ \in Nat
  BY ChunkSzAssumption DEF BLK_SZ, DATA_POS, REST_BLK_SZ
<1>2. rcvBlk \in Block /\ numLastGoodBlk \in Byte /\ syncLoss \in BOOLEAN
      /\ m2r \in Seq(Byte) /\ Len(m2r) \in Nat
  BY LenProperties DEF ReceiverTypeOK, WireTypeOK
<1>3. m2r' \in Seq(Byte)
  BY <1>1, <1>2, TakenType DEF GetRestBlk
<1>4. blk \in Block
  <2>1. ASSUME NEW i \in 1..BLK_SZ
        PROVE  (IF i = 1 THEN rcvBlk[1] ELSE m2r[i - 1]) \in Byte
    <3>1. CASE i = 1
      BY <1>1, <1>2, <3>1 DEF Block
    <3>2. CASE i # 1
      <4>1. i - 1 \in 1..Len(m2r)
        BY <1>1, <1>2, <3>2 DEF GetRestBlk
      <4> QED
        BY <1>2, <3>2, <4>1, ElementOfSeq
    <3> QED
      BY <3>1, <3>2
  <2> QED
    BY <2>1 DEF Block
<1>5. Classify(blk)
  BY DEF GetRestBlk
<1> HIDE DEF blk
<1>6. blk[2] \in Byte
  BY <1>1, <1>4 DEF Block
<1>7. rcvBlk' = blk
  BY <1>5 DEF Classify
<1>8. numLastGoodBlk' \in Byte
  BY <1>2, <1>5, <1>6 DEF Classify
<1>9. goodBlk' \in BOOLEAN
  BY <1>5 DEF Classify, GoodBlk
<1>10. goodBlk1st' \in BOOLEAN
  BY <1>5 DEF Classify
<1>11. syncLoss' \in BOOLEAN
  BY <1>2, <1>5 DEF Classify
<1> QED
  BY <1>3, <1>4, <1>7, <1>8, <1>9, <1>10, <1>11

\* Every step of the receiver keeps the receiver's part and the wires'.
LEMMA ReceiverKeeps ==
  ASSUME WireTypeOK, RInv, ReceiverNext
  PROVE  WireTypeOK' /\ RInv'
<1> USE DEF RInv
<1>1. CASE SendNCG
  <2>1. r2m' \in Seq(Byte)
    BY <1>1, ReplyType, OneByteReplies DEF SendNCG
  <2> QED
    BY <1>1, <2>1 DEF SendNCG, WireTypeOK, ReceiverTypeOK, ReceiverFileInv, RPcs
<1>2. CASE ReadHdrFirst
  <2>1. rcvBlk' \in Block /\ m2r' \in Seq(Byte)
    BY <1>2, ReadFirstType DEF ReadHdrFirst
  <2> QED
    BY <1>2, <2>1 DEF ReadHdrFirst, WireTypeOK, ReceiverTypeOK, ReceiverFileInv, RPcs
<1>3. CASE GetHdrRest
  <2>1. /\ rcvBlk' \in Block /\ m2r' \in Seq(Byte)
        /\ goodBlk' \in BOOLEAN /\ goodBlk1st' \in BOOLEAN /\ syncLoss' \in BOOLEAN
        /\ numLastGoodBlk' \in Byte /\ UNCHANGED <<s2m, m2s, exited>>
    BY <1>3, GetRestBlkType DEF GetHdrRest
  <2>2. CASE /\ Reply(<<ACK>>) /\ rResult' = EraseTail(rResult) /\ rPc' = "done"
             /\ UNCHANGED <<rFileD, rFiles>>
    <3>1. r2m' \in Seq(Byte) /\ rResult' \in Result
      BY <2>2, ReplyType, OneByteReplies, EraseTailType DEF ReceiverTypeOK
    <3> QED
      BY <2>1, <2>2, <3>1 DEF WireTypeOK, ReceiverTypeOK, ReceiverFileInv, RPcs
  <2>3. CASE /\ rFiles' = Created(rFiles, CString(rcvBlk'))
             /\ rFileD' = Len(rFiles) + 1 /\ Reply(<<ACK>>) /\ rPc' = "ncg2"
             /\ UNCHANGED rResult
    <3>1. r2m' \in Seq(Byte)
      BY <2>3, ReplyType, OneByteReplies
    <3>3. rFiles \in Seq(StoredFiles) /\ Len(rFiles) \in Nat
      BY LenProperties DEF ReceiverTypeOK, StoredFiles
    <3>4. rFiles' \in Seq(StoredFiles) /\ Len(rFiles') = Len(rFiles) + 1
      <4>1. CString(rcvBlk') \in Seq(Byte)
        BY <2>1, CStringType
      <4> QED
        BY <2>3, <3>3, <4>1, CreatedType
    <3>5. rFileD' \in 1..Len(rFiles')
      BY <2>3, <3>3, <3>4
    <3>6. WireTypeOK'
      BY <2>1, <3>1 DEF WireTypeOK
    <3>7. ReceiverTypeOK'
      BY <2>1, <2>3, <3>4, <3>5 DEF ReceiverTypeOK, RPcs, StoredFiles
    <3> QED
      BY <3>5, <3>6, <3>7 DEF ReceiverFileInv
  <2>4. CASE /\ rFileD' = -1 /\ Reply(CANs) /\ rResult' = <<"CreatError">> /\ rPc' = "done"
             /\ UNCHANGED rFiles
    <3>1. r2m' \in Seq(Byte)
      BY <2>4, ReplyType, OneByteReplies
    <3>2. rResult' \in Result
      <4>1. "CreatError" \in Pieces
        BY DEF Pieces
      <4> QED
        BY <2>4, <4>1 DEF Result
    <3> QED
      BY <2>1, <2>4, <3>1, <3>2 DEF WireTypeOK, ReceiverTypeOK, ReceiverFileInv, RPcs
  <2> QED
    BY <1>3, <2>2, <2>3, <2>4 DEF GetHdrRest
<1>4. CASE SendSecondNCG
  <2>1. r2m' \in Seq(Byte)
    BY <1>4, ReplyType, OneByteReplies DEF SendSecondNCG
  <2> QED
    BY <1>4, <2>1 DEF SendSecondNCG, WireTypeOK, ReceiverTypeOK, ReceiverFileInv, RPcs
<1>5. CASE ReadBlkFirst
  <2>1. rcvBlk' \in Block /\ m2r' \in Seq(Byte)
    BY <1>5, ReadFirstType DEF ReadBlkFirst
  <2>2. r2m' \in Seq(Byte)
    BY <1>5, ReplyType, OneByteReplies DEF ReadBlkFirst, WireTypeOK
  <2>3. rPc = "blk1" /\ rPc' \in {"blkRest", "eot2"}
        /\ UNCHANGED <<s2m, m2s, exited, goodBlk, goodBlk1st, syncLoss, numLastGoodBlk,
                       rFileD, rFiles, rResult>>
    BY <1>5 DEF ReadBlkFirst
  <2> QED
    BY <2>1, <2>2, <2>3 DEF WireTypeOK, ReceiverTypeOK, ReceiverFileInv, RPcs
<1>6. CASE GetBlkRest
  <2>1. /\ rcvBlk' \in Block /\ m2r' \in Seq(Byte)
        /\ goodBlk' \in BOOLEAN /\ goodBlk1st' \in BOOLEAN /\ syncLoss' \in BOOLEAN
        /\ numLastGoodBlk' \in Byte
    BY <1>6, GetRestBlkType DEF GetBlkRest
  <2>2. r2m' \in Seq(Byte)
    BY <1>6, ReplyType, OneByteReplies DEF GetBlkRest
  <2>3. rPc = "blkRest" /\ rPc' \in {"write", "blk1"}
        /\ UNCHANGED <<s2m, m2s, exited, rFileD, rFiles, rResult>>
    BY <1>6 DEF GetBlkRest
  <2> QED
    BY <2>1, <2>2, <2>3 DEF WireTypeOK, ReceiverTypeOK, ReceiverFileInv, RPcs
<1>7. CASE WriteChunk
  <2> DEFINE Files == [name : Seq(Byte), chunks : Seq(Chunk)]
             file  == rFiles[rFileD]
             more  == [file EXCEPT !.chunks = Append(@, ChunkOf(rcvBlk))]
  <2>1. /\ rPc = "write" /\ rPc' \in {"write", "blk1"} /\ exited' \in BOOLEAN
        /\ rFiles' \in {rFiles, [rFiles EXCEPT ![rFileD] = more]}
        /\ UNCHANGED <<s2m, m2r, r2m, m2s, rcvBlk, goodBlk, goodBlk1st, syncLoss,
                       numLastGoodBlk, rFileD, rResult>>
    BY <1>7 DEF WriteChunk, WireTypeOK
  <2>2. rFiles \in Seq(Files) /\ rFileD \in 1..Len(rFiles) /\ rcvBlk \in Block
    BY <2>1 DEF ReceiverTypeOK, ReceiverFileInv
  <2>3. ChunkOf(rcvBlk) \in Chunk
    BY <2>2, ChunkSzAssumption DEF ChunkOf, Chunk, Block, BLK_SZ, DATA_POS
  <2>4. more \in Files
    <3>1. file \in Files
      <4> HIDE DEF Files
      <4> QED
        BY <2>2, ElementOfSeq
    <3>2. Append(file.chunks, ChunkOf(rcvBlk)) \in Seq(Chunk)
      BY <2>3, <3>1, AppendProperties
    <3> QED
      BY <3>1, <3>2
  <2>5. rFiles' \in Seq(Files) /\ Len(rFiles') = Len(rFiles)
    <3> HIDE DEF Files, more
    <3> QED
      BY <2>1, <2>2, <2>4, ExceptSeq
  <2>6. WireTypeOK'
    BY <2>1 DEF WireTypeOK
  <2> QED
    BY <2>1, <2>2, <2>5, <2>6 DEF ReceiverTypeOK, ReceiverFileInv, RPcs
<1>8. CASE ReadSecondEot
  <2>1. rcvBlk' \in Block /\ m2r' \in Seq(Byte)
    BY <1>8, ReadFirstType DEF ReadSecondEot
  <2>2. r2m' \in Seq(Byte)
    BY <1>8, ReplyType, OneByteReplies DEF ReadSecondEot, WireTypeOK
  <2>3. rResult' \in Result
    <3>1. "Done, " \in Pieces /\ "CloseError" \in Pieces
      BY DEF Pieces
    <3>2. Append(rResult, "Done, ") \in Result
      BY <3>1, AppendProperties DEF ReceiverTypeOK, Result
    <3>3. <<"CloseError">> \in Result
      BY <3>1, OnePiece
    <3> QED
      BY <1>8, <3>2, <3>3 DEF ReadSecondEot
  <2>4. /\ rFileD' = -1 \/ rFileD' = rFileD
        /\ numLastGoodBlk' = 255 \/ numLastGoodBlk' = numLastGoodBlk
        /\ rPc' = "ncg"
        /\ UNCHANGED <<s2m, m2s, exited, goodBlk, goodBlk1st, syncLoss, rFiles>>
    BY <1>8 DEF ReadSecondEot
  <2>5. 255 \in Byte
    BY DEF Byte
  <2> QED
    BY <2>1, <2>2, <2>3, <2>4, <2>5 DEF WireTypeOK, ReceiverTypeOK, ReceiverFileInv, RPcs
<1> QED
  BY <1>1, <1>2, <1>3, <1>4, <1>5, <1>6, <1>7, <1>8 DEF ReceiverNext

-----------------------------------------------------------------------------
(* The steps of the medium. *)

LEMMA ReadRestKeeps ==
  ASSUME WireTypeOK, MediumTypeOK, ReadRestFromTerm2
  PROVE  WireTypeOK' /\ MediumTypeOK'
<1> DEFINE bytes == Taken(s2m, REST_BLK_SZ)
           n     == Len(bytes)
           total == byteCount + n
           due   == total >= T2toT1_CORRUPT_BYTE
           cnt   == CountAfter(total)
           place == ByteToCorrupt(n, cnt)
           hit   == due /\ place < n
<1>1. /\ mPc' = "first" /\ s2m' = Left(s2m, REST_BLK_SZ) /\ byteCount' = cnt
      /\ UNCHANGED <<r2m, m2s, ACKreceived>>
      /\ \/ hit /\ place >= 0 /\ m2r' = m2r \o Damaged(bytes, place) /\ exited' = exited
         \/ m2r' = m2r \o bytes /\ exited' = exited
         \/ exited' = TRUE /\ m2r' = m2r
  BY DEF ReadRestFromTerm2
<1>2. REST_BLK_SZ \in Nat
  BY ChunkSzAssumption DEF REST_BLK_SZ, BLK_SZ, DATA_POS
<1>3. bytes \in Seq(Byte) /\ s2m' \in Seq(Byte) /\ m2r \in Seq(Byte)
  BY <1>1, <1>2, TakenType DEF WireTypeOK
<1> HIDE DEF bytes
<1>4. n \in Nat
  BY <1>3, LenProperties
<1>5. byteCount' \in Nat
  <2> HIDE DEF n
  <2> QED
    BY <1>1, <1>4, MediumAssumption DEF MediumTypeOK, CountAfter
<1>6. ASSUME hit, place >= 0
      PROVE  Damaged(bytes, place) \in Seq(Byte)
  <2>1. cnt \in Int /\ place \in Int
    <3> HIDE DEF n
    <3> QED
      BY <1>4, MediumAssumption DEF MediumTypeOK, ByteToCorrupt, CountAfter
  <2> HIDE DEF place, cnt
  <2>2. place + 1 \in 1..n
    <3> HIDE DEF n
    <3> QED
      BY <1>4, <1>6, <2>1
  <2>3. bytes[place + 1] \in Byte
    BY <1>3, <2>2, ElementOfSeq
  <2>4. Complement(bytes[place + 1]) \in Byte
    BY <2>3 DEF Complement, Byte
  <2> QED
    BY <1>3, <2>2, <2>4, ExceptSeq DEF Damaged
<1>7. m2r' \in Seq(Byte) /\ exited' \in BOOLEAN
  <2>1. CASE hit /\ place >= 0 /\ m2r' = m2r \o Damaged(bytes, place) /\ exited' = exited
    <3>1. Damaged(bytes, place) \in Seq(Byte)
      BY <1>6, <2>1
    <3> HIDE DEF place
    <3> QED
      BY <1>3, <2>1, <3>1, ConcatBytes DEF WireTypeOK
  <2>2. CASE m2r' = m2r \o bytes /\ exited' = exited
    BY <1>3, <2>2, ConcatBytes DEF WireTypeOK
  <2>3. CASE exited' = TRUE /\ m2r' = m2r
    BY <1>3, <2>3
  <2> QED
    BY <1>1, <2>1, <2>2, <2>3
<1> QED
  BY <1>1, <1>3, <1>5, <1>7 DEF WireTypeOK, MediumTypeOK

LEMMA MsgFromTerm2Keeps ==
  ASSUME WireTypeOK, MediumTypeOK, MsgFromTerm2
  PROVE  WireTypeOK' /\ MediumTypeOK'
<1>1. CASE ReadOneFromTerm2
  <2>1. Head(s2m) \in Byte /\ Tail(s2m) \in Seq(Byte)
    BY <1>1, HeadTailProperties DEF ReadOneFromTerm2, WireTypeOK
  <2>2. Append(m2r, Head(s2m)) \in Seq(Byte)
    BY <2>1, AppendProperties DEF WireTypeOK
  <2>3. mPc' \in {"first", "can", "soh"}
    BY <1>1 DEF ReadOneFromTerm2
  <2> QED
    BY <1>1, <2>1, <2>2, <2>3 DEF ReadOneFromTerm2, WireTypeOK, MediumTypeOK
<1>2. CASE ReadCans
  <2>1. CAN_LEN - 1 \in Nat
    BY DEF CAN_LEN
  <2>2. Taken(s2m, CAN_LEN - 1) \in Seq(Byte) /\ Left(s2m, CAN_LEN - 1) \in Seq(Byte)
    BY <2>1, TakenType DEF WireTypeOK
  <2>3. m2r \o Taken(s2m, CAN_LEN - 1) \in Seq(Byte)
    BY <2>2, ConcatBytes DEF WireTypeOK
  <2> QED
    BY <1>2, <2>2, <2>3 DEF ReadCans, WireTypeOK, MediumTypeOK
<1>3. CASE ReadRestFromTerm2
  BY <1>3, ReadRestKeeps
<1> QED
  BY <1>1, <1>2, <1>3 DEF MsgFromTerm2

LEMMA MsgFromTerm1Keeps ==
  ASSUME WireTypeOK, MediumTypeOK, MsgFromTerm1
  PROVE  WireTypeOK' /\ MediumTypeOK'
<1> DEFINE bytes == Taken(r2m, CAN_LEN)
           isAck == Head(bytes) = ACK
           turn  == isAck /\ (ACKreceived + 1) % ACK_PERIOD = 0
<1>1. CAN_LEN \in Nat /\ CAN_LEN = 2
  BY DEF CAN_LEN
<1>2. /\ bytes \in Seq(Byte) /\ Left(r2m, CAN_LEN) \in Seq(Byte)
      /\ Len(bytes) = IF Len(r2m) < CAN_LEN THEN Len(r2m) ELSE CAN_LEN
  BY <1>1, TakenType DEF WireTypeOK
<1>3. r2m # <<>> /\ r2m \in Seq(Byte)
  BY DEF MsgFromTerm1, WireTypeOK
<1>4. /\ r2m' = Left(r2m, CAN_LEN)
      /\ m2s' = m2s \o (IF turn THEN [bytes EXCEPT ![1] = NAK] ELSE bytes)
      /\ ACKreceived' = IF turn THEN 0 ELSE IF isAck THEN ACKreceived + 1 ELSE ACKreceived
      /\ UNCHANGED <<s2m, m2r, exited, mPc, byteCount>>
  BY DEF MsgFromTerm1
<1> HIDE DEF bytes
<1>5. 1 \in 1..Len(bytes)
  BY <1>1, <1>2, <1>3, EmptySeq
<1>6. [bytes EXCEPT ![1] = NAK] \in Seq(Byte)
  BY <1>2, <1>5, ControlBytes, ExceptSeq
<1>7. m2s' \in Seq(Byte)
  BY <1>2, <1>4, <1>6, ConcatBytes DEF WireTypeOK
<1>8. ACKreceived' \in 0..(ACK_PERIOD - 1)
  <2>1. ACKreceived \in 0..(ACK_PERIOD - 1) /\ ACK_PERIOD \in Nat \ {0}
    BY MediumAssumption DEF MediumTypeOK
  <2>2. ACKreceived + 1 = ACK_PERIOD => (ACKreceived + 1) % ACK_PERIOD = 0
    BY <2>1
  <2> QED
    BY <1>4, <2>1, <2>2
<1> QED
  BY <1>2, <1>4, <1>7, <1>8 DEF WireTypeOK, MediumTypeOK

-----------------------------------------------------------------------------
(* The system: initially, at every step, and so always. *)

LEMMA InitIInv == Init => IInv
<1> SUFFICES ASSUME Init PROVE IInv
  OBVIOUS
<1> USE DEF Init
<1>1. WireTypeOK
  BY EmptySeq DEF WireInit, WireTypeOK
<1>2. SInv
  <2>1. blkBuf \in Block /\ blkSent \in Block
    BY UninitAssumption DEF SenderInit
  <2>2. sResult \in Result
    BY EmptySeq DEF SenderInit, Result
  <2>3. SenderTypeOK
    BY <2>1, <2>2, ChunkSzAssumption DEF SenderInit, SenderTypeOK, SPcs, ReadingPcs, Byte
  <2>4. SenderFileInv /\ HeaderInv /\ BlocksInv
    BY DEF SenderInit, SenderFileInv, HeaderInv, BlocksInv
  <2> QED
    BY <2>3, <2>4 DEF SInv
<1>3. RInv
  <2>1. rcvBlk \in Block
    BY DEF ReceiverInit, Block, Byte
  <2>2. rFiles \in Seq([name : Seq(Byte), chunks : Seq(Chunk)]) /\ rResult \in Result
    BY EmptySeq DEF ReceiverInit, Result
  <2>3. goodBlk \in BOOLEAN /\ goodBlk1st \in BOOLEAN /\ syncLoss \in BOOLEAN
    BY DEF ReceiverInit
  <2>4. rPc \in RPcs /\ numLastGoodBlk \in Byte /\ rFileD \in {-1}
    BY DEF ReceiverInit, RPcs, Byte
  <2>5. ReceiverTypeOK
    BY <2>1, <2>2, <2>3, <2>4 DEF ReceiverTypeOK
  <2> QED
    BY <2>5 DEF ReceiverInit, RInv, ReceiverFileInv
<1>4. MediumTypeOK
  BY MediumAssumption DEF MediumInit, MediumTypeOK
<1> QED
  BY <1>1, <1>2, <1>3, <1>4 DEF IInv

\* Threads have no variable in common but the wires.
LEMMA SenderUnchanged ==
  ASSUME SInv, UNCHANGED sVars
  PROVE  SInv'
<1>1. SenderTypeOK'
  BY DEF SInv, SenderTypeOK, sVars
<1>2. SenderFileInv' /\ HeaderInv'
  BY DEF SInv, SenderFileInv, HeaderInv, Data, sVars
<1>3. BlocksInv'
  BY DEF SInv, BlocksInv, HasBlk, SendingBlk, AwaitingReply, Data, sVars
<1> QED
  BY <1>1, <1>2, <1>3 DEF SInv

LEMMA ReceiverUnchanged ==
  ASSUME RInv, UNCHANGED rVars
  PROVE  RInv'
  BY DEF RInv, ReceiverTypeOK, ReceiverFileInv, rVars

LEMMA MediumUnchanged ==
  ASSUME MediumTypeOK, UNCHANGED mVars
  PROVE  MediumTypeOK'
  BY DEF MediumTypeOK, mVars

LEMMA NextIInv == IInv /\ [Next]_vars => IInv'
<1> SUFFICES ASSUME IInv, [Next]_vars PROVE IInv'
  OBVIOUS
<1> USE DEF IInv
<1>1. CASE SenderStep
  BY <1>1, SenderKeeps, ReceiverUnchanged, MediumUnchanged DEF SenderStep
<1>2. CASE ReceiverStep
  BY <1>2, ReceiverKeeps, SenderUnchanged, MediumUnchanged DEF ReceiverStep
<1>3. CASE M2to1Step
  BY <1>3, MsgFromTerm2Keeps, SenderUnchanged, ReceiverUnchanged DEF M2to1Step
<1>4. CASE M1to2Step
  BY <1>4, MsgFromTerm1Keeps, SenderUnchanged, ReceiverUnchanged DEF M1to2Step
<1>5. CASE UNCHANGED vars
  <2>1. UNCHANGED sVars /\ UNCHANGED rVars /\ UNCHANGED mVars
    BY <1>5 DEF vars
  <2>2. WireTypeOK'
    BY <1>5 DEF vars, wires, WireTypeOK
  <2> QED
    BY <2>1, <2>2, SenderUnchanged, ReceiverUnchanged, MediumUnchanged
<1> QED
  BY <1>1, <1>2, <1>3, <1>4, <1>5 DEF Next

LEMMA IInvTypeOK == IInv => TypeOK
  BY DEF IInv, SInv, RInv, TypeOK

LEMMA IInvConsecutive == IInv => ConsecutiveBlocks
  BY DEF IInv, SInv, BlocksInv, HasBlk, AwaitingReply, ConsecutiveBlocks, Data

LEMMA AlwaysIInv == Spec => []IInv
  BY InitIInv, NextIInv, PTL DEF Spec

\* Every variable keeps its type: in particular the sender never reads beyond
\* the end of a file, no thread uses a file it does not hold, and blkNum and
\* m_numLastGoodBlk stay bytes (SenderY.cpp:145-205, ReceiverY.cpp:74-157).
THEOREM TypeCorrect == Spec => []TypeOK
  BY AlwaysIInv, IInvTypeOK, PTL

\* For every chunk size, every file and every sequence of replies, damaged,
\* late or out of place as they may be: the block kept for a resend is the one
\* sent last and the block prepared is the one that follows it in the file
\* (SenderY.cpp:197-215).
THEOREM ResendsAreRight == Spec => []ConsecutiveBlocks
  BY AlwaysIInv, IInvConsecutive, PTL
-----------------------------------------------------------------------------
(* The program as it is scheduled, for the priorities only take            *)
(* interleavings away, and the whole process, from the start of the medium *)
(* to the close at the end.                                                *)

LEMMA PrioStep == PrioNext => Next
  BY DEF PrioNext, Next

LEMMA ScheduledIsFree == PrioSpec => Spec
<1>1. [PrioNext]_vars => [Next]_vars
  BY PrioStep
<1> QED
  BY <1>1, PTL DEF PrioSpec, Spec

\* The right block in every resend under the program's priorities, whatever is
\* in the cache.
THEOREM ScheduledResends == PrioSpec => []ConsecutiveBlocks
  BY ScheduledIsFree, ResendsAreRight, PTL

-----------------------------------------------------------------------------
\* Ending the process changes nothing else.
LEMMA ExitKeeps ==
  ASSUME IInv, exited' = TRUE,
         UNCHANGED <<s2m, m2r, r2m, m2s, sVars, rVars, mVars>>
  PROVE  IInv'
<1>1. WireTypeOK'
  BY DEF IInv, WireTypeOK
<1> QED
  BY <1>1, SenderUnchanged, ReceiverUnchanged, MediumUnchanged DEF IInv

LEMMA ProgStepIInv == IInv /\ [ProgNext]_<<vars, progVars>> => IInv'
<1> SUFFICES ASSUME IInv, [ProgNext]_<<vars, progVars>> PROVE IInv'
  OBVIOUS
<1>1. CASE TransferStep
  BY <1>1, NextIInv DEF TransferStep, Next
<1>2. CASE MediumStart
  <2>1. CASE exited' = exited
    BY <1>2, <2>1, NextIInv DEF MediumStart, vars, wires
  <2>2. CASE exited' = TRUE
    BY <1>2, <2>2, ExitKeeps DEF MediumStart
  <2> QED
    BY <1>2, <2>1, <2>2 DEF MediumStart
<1>3. CASE T2Close \/ UNCHANGED <<vars, progVars>>
  BY <1>3, NextIInv DEF T2Close
<1>4. CASE SourceFails
  BY <1>4, ExitKeeps DEF SourceFails
<1> QED
  BY <1>1, <1>2, <1>3, <1>4 DEF ProgNext

\* The types of all the state, and the right block in every resend, hold of
\* the process from its start to its end, if the log can be created or not.
LEMMA AlwaysProgIInv == ProgSpec => []IInv
<1>1. ProgInit => IInv
  BY InitIInv DEF ProgInit
<1> QED
  BY <1>1, ProgStepIInv, PTL DEF ProgSpec

\* As TypeCorrect, over the life of the process.
THEOREM ProgramTypeCorrect == ProgSpec => []TypeOK
  BY AlwaysProgIInv, IInvTypeOK, PTL

\* As ResendsAreRight, over the life of the process.
THEOREM ProgramResends == ProgSpec => []ConsecutiveBlocks
  BY AlwaysProgIInv, IInvConsecutive, PTL

-----------------------------------------------------------------------------
\* Until the medium is up nothing arrives anywhere: the sender waits for the
\* first 'C', the receiver for the first byte of the first header.
NotUpInv ==
  ~mediumUp =>
    /\ m2r = <<>> /\ m2s = <<>>
    /\ sPc \in {"start", "readC"} /\ (sPc = "start" => fileNameIndex = 0)
    /\ rPc \in {"ncg", "hdr1"}
    /\ rFiles = <<>> /\ sResult = <<>> /\ rResult = <<>>

LEMMA SenderNotUp ==
  ASSUME IInv, NotUpInv, ~mediumUp, SenderStep
  PROVE  NotUpInv'
<1>1. /\ m2r = <<>> /\ m2s = <<>> /\ sPc \in {"start", "readC"}
      /\ sPc = "start" => fileNameIndex = 0
      /\ rPc \in {"ncg", "hdr1"} /\ rFiles = <<>> /\ sResult = <<>> /\ rResult = <<>>
  BY DEF NotUpInv
<1>2. Start
  BY <1>1 DEF SenderStep, SenderNext, ReadC, PrepNextSendLast, ReadStatAck, ReadStatC, ReadReply,
     ResendLast, ReadEotNak, ReadEotAck, SendFinalMost, SendFinalLast, ReadFinalAck, ReadByte
<1>3. batch \in Seq(File) /\ batch # <<>>
  BY BatchesAssumption DEF IInv, SInv, SenderTypeOK
<1>4. Len(batch) \in Nat /\ Len(batch) # 0
  BY <1>3, LenProperties, EmptySeq
<1>5. sPc = "start" /\ fileNameIndex = 0
  BY <1>1, <1>2 DEF Start
<1>6. sPc' = "readC"
  BY <1>2, <1>4, <1>5 DEF Start, PrepStatBlk
<1> QED
  BY <1>1, <1>2, <1>6 DEF NotUpInv, Start, SenderStep, wires, rVars

LEMMA ReceiverNotUp ==
  ASSUME NotUpInv, ~mediumUp, ReceiverStep
  PROVE  NotUpInv'
<1>1. m2r = <<>> /\ rPc \in {"ncg", "hdr1"}
  BY DEF NotUpInv
<1>2. SendNCG
  BY <1>1 DEF ReceiverStep, ReceiverNext, ReadHdrFirst, GetHdrRest, SendSecondNCG, ReadBlkFirst,
     GetBlkRest, WriteChunk, ReadSecondEot, ReadFirst
<1> QED
  BY <1>2 DEF NotUpInv, SendNCG, ReceiverStep, sVars, far, rStore

LEMMA ProgStepNotUp == IInv /\ NotUpInv /\ [ProgNext]_<<vars, progVars>> => NotUpInv'
<1> SUFFICES ASSUME IInv, NotUpInv, [ProgNext]_<<vars, progVars>>, ~mediumUp' PROVE NotUpInv'
  BY DEF NotUpInv
<1>1. ~mediumUp
  BY DEF ProgNext, TransferStep, MediumStart, SourceFails, T2Close, progVars
<1>2. CASE TransferStep
  <2>1. SenderStep \/ ReceiverStep
    BY <1>1, <1>2 DEF TransferStep, MediumMayRun
  <2> QED
    BY <1>1, <2>1, SenderNotUp, ReceiverNotUp
<1>3. CASE MediumStart
  BY <1>1, <1>3 DEF MediumStart, NotUpInv, sVars, rVars
<1>4. CASE T2Close \/ UNCHANGED <<vars, progVars>>
  BY <1>1, <1>4 DEF T2Close, NotUpInv, vars, wires, sVars, rVars, progVars
<1>5. CASE SourceFails
  BY <1>1, <1>5 DEF SourceFails, NotUpInv, sVars, rVars
<1> QED
  BY <1>2, <1>3, <1>4, <1>5 DEF ProgNext

\* If the medium cannot create its log the process ends with nothing on the
\* receiver's disk, and nothing reported, whatever the peers have done until
\* then (Medium.cpp:45, Ensc351Part2.cpp:111-122).
THEOREM NoFileWithoutLog == ProgSpec => []NoLogNoFile
<1>1. ProgInit => NotUpInv
  BY DEF ProgInit, Init, WireInit, SenderInit, ReceiverInit, NotUpInv
<1>2. NotUpInv => NoLogNoFile
  BY DEF NotUpInv, NoLogNoFile
<1> QED
  BY <1>1, <1>2, ProgStepNotUp, AlwaysProgIInv, PTL DEF ProgSpec
=============================================================================
