------------------------------ MODULE ReceiverY ------------------------------
(***************************************************************************)
(* The receiving peer, ReceiverY::receiveFiles of Part 2, run by the       *)
(* primary thread.  As in SenderY, rPc names the next call, and an action  *)
(* is a blocking read with the code up to the next call on a socket or on  *)
(* the disk.  rFiles is what the receiver has put on the disk: a record    *)
(* for each creat(), in order, with the chunks written through it that are *)
(* still there.                                                            *)
(***************************************************************************)
EXTENDS Wire, FiniteSets

CONSTANTS
  CreatMayFail, CloseMayFail, WriteMayFail   \* faults of the receiver's disk

VARIABLES
  rPc,
  rcvBlk,           \* m_rcvBlk
  goodBlk, goodBlk1st, syncLoss,
  numLastGoodBlk,
  rFileD,           \* transferringFileD: -1, or the place in rFiles
  rFiles,
  rResult

rVars == <<rPc, rcvBlk, goodBlk, goodBlk1st, syncLoss, numLastGoodBlk, rFileD,
           rFiles, rResult>>
\* what most steps of the receiver leave alone
flags  == <<goodBlk, goodBlk1st, syncLoss>>
rStore == <<rFileD, rFiles>>
far    == <<s2m, m2s, exited>>

ASSUME FaultsAssumption ==
  /\ CreatMayFail \in BOOLEAN
  /\ CloseMayFail \in BOOLEAN
  /\ WriteMayFail \in BOOLEAN

RPcs == {"ncg", "hdr1", "hdrRest", "ncg2", "blk1", "blkRest", "write", "eot2", "done"}

-----------------------------------------------------------------------------
\* The file name is the C string at m_rcvBlk[DATA_POS]: the bytes before the
\* first zero, or up to the end of the block when there is none.
NameLengths(blk) == {n \in 1..(CHUNK_SZ + 2) : \A i \in 1..n : blk[DATA_POS + i] # 0}
CStringOneEarly(blk) == SubSeq(blk, DATA_POS, DATA_POS + Cardinality(NameLengths(blk)) - 1)
CString(blk)     == SubSeq(blk, DATA_POS + 1, DATA_POS + Cardinality(NameLengths(blk)))


\* creat(): a file of that name that is there already is emptied.
Created(files, name) ==
  Append([k \in 1..Len(files) |-> IF files[k].name = name THEN [files[k] EXCEPT !.chunks = <<>>]
                                                         ELSE files[k]],
         [name |-> name, chunks |-> <<>>])

\* byteToWrite: what is left of a chunk without the CTRL_Zs at its end
TrimmedLen(chunk) ==
  CHUNK_SZ - Cardinality({n \in 1..CHUNK_SZ : \A i \in n..CHUNK_SZ : chunk[i] = CTRL_Z})

\* The C integer m_numLastGoodBlk + 1: an int, that does not wrap at 256
Successor(num) == num + 1

\* The number and its complement agree, and the CRC is that of the data.
GoodByNumber(blk) == Complement(blk[3]) = blk[2]
GoodBlk(blk) ==
  /\ Complement(blk[3]) = blk[2]
  /\ Crc[ChunkOf(blk)] = CrcOf(blk)

\* getRestBlk(), once the rest of the block has arrived: blk is m_rcvBlk.
Classify(blk) ==
  LET num      == blk[2]
      expected == num = Successor(numLastGoodBlk)
      good     == GoodBlk(blk)
  IN /\ rcvBlk' = blk
     /\ goodBlk' = good
     /\ syncLoss' = (IF good THEN FALSE ELSE (~expected \/ syncLoss))
     /\ goodBlk1st' = (good => expected)
     /\ numLastGoodBlk' = IF good /\ expected THEN num ELSE numLastGoodBlk

\* readcond(d, &m_rcvBlk[1], n, n, 0, 0) waits for all the n bytes.
GetRestBlk ==
  /\ Len(m2r) >= REST_BLK_SZ
  /\ m2r' = Left(m2r, REST_BLK_SZ)
  /\ Classify([i \in 1..BLK_SZ |-> IF i = 1 THEN rcvBlk[1] ELSE m2r[i - 1]])

\* PE_NOT(myRead(mediumD, m_rcvBlk, 1), 1)
ReadFirst ==
  /\ m2r # <<>>
  /\ rcvBlk' = [rcvBlk EXCEPT ![1] = Head(m2r)]
  /\ m2r' = Tail(m2r)

Reply(bytes) == r2m' = r2m \o bytes

-----------------------------------------------------------------------------
SendNCG ==
  /\ rPc = "ncg"
  /\ Reply(<<NCG>>)
  /\ rPc' = "hdr1"
  /\ UNCHANGED <<far, m2r, rcvBlk, flags, numLastGoodBlk, rStore, rResult>>

ReadHdrFirst ==
  /\ rPc = "hdr1"
  /\ ReadFirst
  /\ rPc' = "hdrRest"
  /\ UNCHANGED <<far, r2m, flags, numLastGoodBlk, rStore, rResult>>

\* The status block: its goodness is computed and not looked at.
GetHdrRest ==
  /\ rPc = "hdrRest"
  /\ GetRestBlk
  /\ \/ /\ rcvBlk'[DATA_POS + 1] = 0
        /\ Reply(<<ACK>>)
        /\ rResult' = EraseTail(rResult)
        /\ rPc' = "done"
        /\ UNCHANGED rStore
     \/ /\ rcvBlk'[DATA_POS + 1] # 0
        /\ rFiles' = Created(rFiles, CString(rcvBlk'))
        /\ rFileD' = Len(rFiles) + 1
        /\ Reply(<<ACK>>)
        /\ rPc' = "ncg2"
        /\ UNCHANGED rResult
     \/ /\ rcvBlk'[DATA_POS + 1] # 0
        /\ CreatMayFail
        /\ rFileD' = -1
        /\ Reply(CANs)
        /\ rResult' = <<"CreatError">>
        /\ rPc' = "done"
        /\ UNCHANGED rFiles
  /\ UNCHANGED far

SendSecondNCG ==
  /\ rPc = "ncg2"
  /\ Reply(<<NCG>>)
  /\ rPc' = "blk1"
  /\ UNCHANGED <<far, m2r, rcvBlk, flags, numLastGoodBlk, rStore, rResult>>

\* Any byte that is not SOH is taken for the first EOT, and NAKed.
ReadBlkFirst ==
  /\ rPc = "blk1"
  /\ ReadFirst
  /\ \/ /\ Head(m2r) = SOH
        /\ rPc' = "blkRest"
        /\ UNCHANGED r2m
     \/ /\ Head(m2r) # SOH
        /\ Reply(<<NAK>>)
        /\ rPc' = "eot2"
  /\ UNCHANGED <<far, flags, numLastGoodBlk, rStore, rResult>>

GetBlkRest ==
  /\ rPc = "blkRest"
  /\ GetRestBlk
  /\ \/ /\ goodBlk'
        /\ Reply(<<ACK>>)
        /\ rPc' = "write"
     \/ /\ ~goodBlk'
        /\ Reply(<<NAK>>)
        /\ rPc' = "blk1"
  /\ UNCHANGED <<far, rStore, rResult>>

\* writeChunk(): the whole chunk is written unless nothing is left of it
\* without its CTRL_Zs; a failing write ends the process.
WriteChunk ==
  LET chunk == ChunkOf(rcvBlk)
      kept  == IF numLastGoodBlk # 0 THEN TrimmedLen(chunk) ELSE CHUNK_SZ
  IN /\ rPc = "write"
     /\ \/ /\ kept > 0
           /\ rFiles' = [rFiles EXCEPT ![rFileD].chunks = Append(@, chunk)]
           /\ rPc' = "blk1"
           /\ UNCHANGED exited
        \/ /\ kept = 0
           /\ rPc' = "blk1"
           /\ UNCHANGED <<rFiles, exited>>
        \/ /\ kept > 0 /\ WriteMayFail
           /\ exited' = TRUE
           /\ UNCHANGED <<rFiles, rPc>>
     /\ UNCHANGED <<s2m, m2r, r2m, m2s, rcvBlk, flags, numLastGoodBlk, rFileD,
                    rResult>>

\* The byte taken for the second EOT, closeTransferredFile() and its outcome.
ReadSecondEot ==
  /\ rPc = "eot2"
  /\ ReadFirst
  /\ \/ /\ rFileD' = -1
        /\ numLastGoodBlk' = 255
        /\ Reply(<<ACK>>)
        /\ rResult' = Append(rResult, "Done, ")
     \/ /\ CloseMayFail
        /\ rResult' = <<"CloseError">>
        /\ UNCHANGED <<r2m, rFileD, numLastGoodBlk>>
  /\ rPc' = "ncg"
  /\ UNCHANGED <<far, flags, rFiles>>

ReceiverInit ==
  /\ rPc = "ncg"
  /\ rcvBlk = [i \in 1..BLK_SZ |-> 0]
  /\ goodBlk = FALSE
  /\ goodBlk1st = FALSE
  /\ syncLoss = FALSE
  /\ numLastGoodBlk = 0
  /\ rFileD = -1
  /\ rFiles = <<>>
  /\ rResult = <<>>

ReceiverNext ==
  /\ ~exited
  /\ \/ SendNCG \/ ReadHdrFirst \/ GetHdrRest \/ SendSecondNCG
     \/ ReadBlkFirst \/ GetBlkRest \/ WriteChunk \/ ReadSecondEot

ReceiverTypeOK ==
  /\ rPc \in RPcs
  /\ rcvBlk \in Block
  /\ goodBlk \in BOOLEAN
  /\ goodBlk1st \in BOOLEAN
  /\ syncLoss \in BOOLEAN
  /\ numLastGoodBlk \in Byte
  /\ rFiles \in Seq([name : Seq(Byte), chunks : Seq(Chunk)])
  /\ rFileD \in {-1} \cup (1..Len(rFiles))
  /\ rResult \in Result
=============================================================================
