------------------------------- MODULE SenderY -------------------------------
(***************************************************************************)
(* The sending peer, SenderY::sendFiles of Part 2, run by the thread T2.   *)
(*                                                                         *)
(* The program counter sPc names the call the thread is about to make.  An *)
(* action is one blocking read of the reply byte and the code up to the    *)
(* next call whose outcome depends on the other threads, or the emission   *)
(* of the last byte of a block (which first throws away what has arrived). *)
(***************************************************************************)
EXTENDS Wire

CONSTANTS
  Batches,      \* the lists of files the sender may be asked to send
  UninitBlks    \* what blkBuf may hold before anything is written to it

VARIABLES
  batch,          \* fileNames, with what opening and reading each gives
  sPc,
  fileNameIndex,
  sFileD,         \* transferringFileD: -1, -2, or the place in batch of the open file
  sPos,           \* bytes already read from the open file
  bytesRd,
  blkNum,
  blkBuf,         \* the block prepared
  blkSent,        \* blkBufs[1]: the block sent last, kept for a resend
  errCnt,
  sResult

sVars == <<batch, sPc, fileNameIndex, sFileD, sPos, bytesRd, blkNum, blkBuf,
           blkSent, errCnt, sResult>>
\* what most steps of the sender leave alone
sFile == <<batch, fileNameIndex, sFileD, sPos>>
sBlk  == <<bytesRd, blkNum, blkBuf, blkSent>>
away  == <<m2r, r2m, exited>>

File == [name : Byte \ {0}, openable : BOOLEAN, data : Seq(Byte)]

ASSUME BatchesAssumption == Batches \subseteq Seq(File) \ {<<>>}
ASSUME UninitAssumption == UninitBlks \subseteq Block /\ UninitBlks # {}

ReadingPcs == {"readC", "statAck", "statC", "reply", "reReply",
               "eotNak", "eotAck", "finAck"}
SPcs == ReadingPcs \cup
        {"start", "statLast", "blkLast", "reLast", "finMost", "finLast", "done"}

-----------------------------------------------------------------------------
\* The data of a status block: the file name, NUL, padded with zeros.  (The
\* size that follows the name is left out: no receiver code reads it.)
StatChunk(name) == [i \in 1..CHUNK_SZ |-> IF i = 1 THEN name ELSE 0]
\* genStatBlk(blkBuf, fileName), and genStatBlk(blkBuf, "") with name 0
StatBlk(name) == MakeBlk(0, StatChunk(name))

Smaller(a, b) == IF a < b THEN a ELSE b

\* The chunk read from the file at offset pos, padded with CTRL_Z.
DataChunk(data, pos) ==
  [i \in 1..CHUNK_SZ |-> IF pos + i <= Len(data) THEN data[pos + i] ELSE CTRL_Z]

\* prepStatBlk(), and the test of the while that follows each call of it
PrepStatBlk ==
  /\ blkNum' = 0
  /\ fileNameIndex' = fileNameIndex + 1
  /\ \/ /\ fileNameIndex < Len(batch)
        /\ batch[fileNameIndex + 1].openable
        /\ sFileD' = fileNameIndex + 1
        /\ sPos' = 0
        /\ blkBuf' = StatBlk(batch[fileNameIndex + 1].name)
     \/ /\ fileNameIndex < Len(batch)
        /\ ~batch[fileNameIndex + 1].openable
        /\ sFileD' = -1
        /\ UNCHANGED <<sPos, blkBuf>>
     \/ /\ fileNameIndex >= Len(batch)
        /\ sFileD' = -2
        /\ blkBuf' = StatBlk(0)
        /\ UNCHANGED sPos
  /\ sPc' = IF Len(batch) >= fileNameIndex + 1 THEN "readC" ELSE "finMost"

\* genBlk(blkBuf): read the next chunk and, unless at the end, build the block
GenBlk ==
  LET left == Len(batch[sFileD].data) - sPos
      n    == Smaller(CHUNK_SZ, left)
  IN /\ bytesRd' = n
     /\ sPos' = sPos + n
     /\ blkBuf' = IF n > 0
                  THEN MakeBlk(blkNum, DataChunk(batch[sFileD].data, sPos))
                  ELSE blkBuf

\* sendMostBlk: all the bytes of the block but the last
MostOfAll(blk) == blk
MostOf(blk)    == SubSeq(blk, 1, BLK_SZ - 1)

\* sendLastByte: tcdrain does nothing on a socket, dumpGlitches empties the
\* incoming queue, and the last byte follows.
SendLastByteNoDump(blk) ==
  /\ s2m' = Append(s2m, blk[BLK_SZ])
  /\ m2s' = m2s
SendLastByte(blk) ==
  /\ s2m' = Append(s2m, blk[BLK_SZ])
  /\ m2s' = <<>>

\* A blocking read of one reply byte
ReadByte == m2s # <<>> /\ m2s' = Tail(m2s)

\* blkNum is a uint8_t.
NextBlkNumStuck(num) == IF num = 255 THEN 255 ELSE num + 1
NextBlkNum(num)      == (num + 1) % 256

\* First half of sendBlkPrepNext: count, copy the block, send most of it
SendMostNotCounted(before) ==
  /\ blkNum' = blkNum
  /\ blkSent' = blkBuf
  /\ s2m' = s2m \o before \o MostOf(blkBuf)
SendMostNew(before) ==
  /\ blkNum' = NextBlkNum(blkNum)
  /\ blkSent' = blkBuf
  /\ s2m' = s2m \o before \o MostOf(blkBuf)

\* The test of "while (bytesRd)": another block, or the first EOT
NextBlkOrEot ==
  \/ /\ bytesRd # 0
     /\ SendMostNew(<<>>)
     /\ sPc' = "blkLast"
     /\ UNCHANGED sFileD
  \/ /\ bytesRd = 0
     /\ s2m' = Append(s2m, EOT)
     /\ sFileD' = -1
     /\ sPc' = "eotNak"
     /\ UNCHANGED <<blkNum, blkSent>>

-----------------------------------------------------------------------------
Start ==
  /\ sPc = "start"
  /\ PrepStatBlk
  /\ UNCHANGED <<wires, batch, bytesRd, blkSent, errCnt, sResult>>

\* The 'C'; cans() when the file could not be opened (and no return there);
\* then the status block.
ReadC ==
  /\ sPc = "readC"
  /\ ReadByte
  /\ SendMostNew(IF sFileD = -1 THEN CANs ELSE <<>>)
  /\ sResult' = IF sFileD = -1 THEN <<"CreatError">> ELSE sResult
  /\ sPc' = "statLast"
  /\ UNCHANGED <<away, sFile, bytesRd, blkBuf, errCnt>>

\* Second half of sendBlkPrepNext: prepare the next block, send the last byte.
\* Reading from descriptor -1 fails, and PE() then ends the process.
PrepNextSendLast ==
  /\ sPc \in {"statLast", "blkLast"}
  /\ \/ /\ sFileD # -1
        /\ GenBlk
        /\ SendLastByte(blkSent)
        /\ sPc' = IF sPc = "statLast" THEN "statAck" ELSE "reply"
        /\ UNCHANGED exited
     \/ /\ sFileD = -1
        /\ exited' = TRUE
        /\ UNCHANGED <<s2m, m2s, sPc, bytesRd, sPos, blkBuf>>
  /\ UNCHANGED <<m2r, r2m, batch, fileNameIndex, sFileD, blkNum, blkSent,
                 errCnt, sResult>>

ReadStatAck ==
  /\ sPc = "statAck"
  /\ ReadByte
  /\ sPc' = "statC"
  /\ UNCHANGED <<s2m, away, sFile, sBlk, errCnt, sResult>>

ReadStatC ==
  /\ sPc = "statC"
  /\ ReadByte
  /\ NextBlkOrEot
  /\ UNCHANGED <<away, batch, fileNameIndex, sPos, bytesRd, blkBuf, errCnt,
                 sResult>>

\* The condition of the loop that resends a block
ResendsWhenCounted(byte, count) == byte = NAK /\ count \in 1..errB
Resends(byte, count)            == byte = NAK /\ count < errB

\* The reply to a data block.  errCnt is reset after the first reply and is
\* never incremented.
ReadReply ==
  /\ sPc \in {"reply", "reReply"}
  /\ ReadByte
  /\ errCnt' = IF sPc = "reply" THEN 0 ELSE errCnt
  /\ \/ /\ Resends(Head(m2s), errCnt')
        /\ s2m' = s2m \o MostOf(blkSent)
        /\ sPc' = "reLast"
        /\ UNCHANGED <<sFileD, blkNum, blkSent>>
     \/ /\ ~Resends(Head(m2s), errCnt')
        /\ NextBlkOrEot
  /\ UNCHANGED <<away, batch, fileNameIndex, sPos, bytesRd, blkBuf, sResult>>

\* The end of resendBlk
ResendLast ==
  /\ sPc = "reLast"
  /\ SendLastByte(blkSent)
  /\ sPc' = "reReply"
  /\ UNCHANGED <<away, sFile, sBlk, errCnt, sResult>>

ReadEotNakOneEot ==
  /\ sPc = "eotNak"
  /\ ReadByte
  /\ sPc' = "eotAck"
  /\ UNCHANGED <<s2m, away, sFile, sBlk, errCnt, sResult>>
SendEotsTogether ==
  /\ sPc = "eotNak"
  /\ s2m' = Append(s2m, EOT)
  /\ sPc' = "eotAck"
  /\ UNCHANGED <<m2s, away, sFile, sBlk, errCnt, sResult>>
ReadEotNak ==
  /\ sPc = "eotNak"
  /\ ReadByte
  /\ s2m' = Append(s2m, EOT)
  /\ sPc' = "eotAck"
  /\ UNCHANGED <<away, sFile, sBlk, errCnt, sResult>>

ReadEotAck ==
  /\ sPc = "eotAck"
  /\ ReadByte
  /\ sResult' = Append(sResult, "Done, ")
  /\ PrepStatBlk
  /\ UNCHANGED <<s2m, away, batch, bytesRd, blkSent, errCnt>>

\* The empty status block that ends the batch: no 'C' is read before it.
SendFinalMost ==
  /\ sPc = "finMost"
  /\ s2m' = s2m \o MostOf(blkBuf)
  /\ sPc' = "finLast"
  /\ UNCHANGED <<away, m2s, sFile, sBlk, errCnt, sResult>>

SendFinalLast ==
  /\ sPc = "finLast"
  /\ SendLastByte(blkBuf)
  /\ sPc' = "finAck"
  /\ UNCHANGED <<away, sFile, sBlk, errCnt, sResult>>

ReadFinalAckUntrimmed ==
  /\ sPc = "finAck"
  /\ ReadByte
  /\ sPc' = "done"
  /\ UNCHANGED <<s2m, away, sFile, sBlk, errCnt, sResult>>
ReadFinalAck ==
  /\ sPc = "finAck"
  /\ ReadByte
  /\ sResult' = EraseTail(sResult)
  /\ sPc' = "done"
  /\ UNCHANGED <<s2m, away, sFile, sBlk, errCnt>>

SenderInit ==
  /\ batch \in Batches
  /\ sPc = "start"
  /\ fileNameIndex = 0
  /\ sFileD = -1
  /\ sPos = 0
  /\ bytesRd = -1
  /\ blkNum = 0
  /\ blkBuf \in UninitBlks
  /\ blkSent = blkBuf
  /\ errCnt = 0
  /\ sResult = <<>>

SenderNext ==
  /\ ~exited
  /\ \/ Start \/ ReadC \/ PrepNextSendLast \/ ReadStatAck \/ ReadStatC
     \/ ReadReply \/ ResendLast \/ ReadEotNak \/ ReadEotAck
     \/ SendFinalMost \/ SendFinalLast \/ ReadFinalAck

SenderTypeOK ==
  /\ batch \in Batches
  /\ sPc \in SPcs
  /\ fileNameIndex \in Nat
  /\ sFileD \in {-1, -2} \cup (1..Len(batch))
  /\ sPos \in Nat
  /\ bytesRd \in -1..CHUNK_SZ
  /\ blkNum \in Byte
  /\ blkBuf \in Block
  /\ blkSent \in Block
  /\ errCnt \in Nat
  /\ sResult \in Result

-----------------------------------------------------------------------------
\* Block k of the data of a file, counted from 1; block 0 is the header.
DataBlk(data, k) == MakeBlk(k % 256, DataChunk(data, (k - 1) * CHUNK_SZ))

\* The open file has a block k: block k is sent for the first time, or it has
\* been sent and block k+1 is prepared.
Data      == batch[sFileD].data
HasBlk(k) == k \in 1..Len(Data) /\ (k - 1) * CHUNK_SZ < Len(Data)
SendingBlk(k) ==
  /\ blkSent = DataBlk(Data, k)
  /\ blkNum = (k + 1) % 256
  /\ sPos = Smaller(k * CHUNK_SZ, Len(Data))
AwaitingReply(k) ==
  /\ blkSent = DataBlk(Data, k)
  /\ blkNum = (k + 1) % 256
  /\ bytesRd >= 0
  /\ IF bytesRd > 0
     THEN /\ blkBuf = DataBlk(Data, k + 1)
          /\ k * CHUNK_SZ < Len(Data)
          /\ sPos = Smaller((k + 1) * CHUNK_SZ, Len(Data))
     ELSE Len(Data) <= k * CHUNK_SZ

\* While the sender waits for the reply to block k of the open file, the block
\* kept for a resend is exactly block k and the block prepared ahead of time
\* is exactly block k+1, or the file has no block k+1 (sendBlkPrepNext and
\* resendBlk, SenderY.cpp:197-215): whatever the replies, nothing is skipped,
\* repeated or resent in the place of another block, past block 255 too.
ConsecutiveBlocks ==
  sPc \in {"reply", "reReply", "reLast"} =>
    LET data == batch[sFileD].data
    IN \E k \in 1..Len(data) :
          /\ (k - 1) * CHUNK_SZ < Len(data)
          /\ blkSent = DataBlk(data, k)
          /\ IF bytesRd > 0 THEN blkBuf = DataBlk(data, k + 1) /\ k * CHUNK_SZ < Len(data)
                            ELSE Len(data) <= k * CHUNK_SZ
=============================================================================
