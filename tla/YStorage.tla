------------------------------ MODULE YStorage ------------------------------
(***************************************************************************)
(* What is on the receiver's disk at each place of the sender: the         *)
(* inductive invariant behind InOrder, DoneMeansStored, NamesStayApart and *)
(* the refinement of BatchDelivery.  It is about the chunks that           *)
(* writeChunk() keeps, which are those that the sender cuts the file into  *)
(* unless a chunk before the last is nothing but CTRL_Zs.                  *)
(***************************************************************************)
EXTENDS YRefinement, YProtocol

-----------------------------------------------------------------------------
\* The places of the chunks of a file of which writeChunk() keeps anything, what
\* it keeps of the first n, and of all of them.
KeptPlaces(data) ==
  {k \in 1..Len(data) : (k - 1) * CHUNK_SZ < Len(data) /\ TrimmedLen(ChunksOf(data)[k]) > 0}
Kept(data, n)    == Picked(ChunksOf(data), KeptPlaces(data), n)
KeptChunks(data) == Kept(data, Len(data))

Begins(s, t) == Len(s) <= Len(t) /\ \A i \in 1..Len(s) : s[i] = t[i]

\* What is written is the first c chunks of sent, with copies; copies that look
\* like the chunks which follow in sent may make it look like more than c.
Covers(written, sent, c) ==
  LET shown == Merged(written, sent)
  IN /\ written = <<>> <=> shown = <<>>
     /\ written # <<>> => written[Len(written)] = shown[Len(shown)]
     /\ c <= Len(shown) /\ Begins(shown, sent)
     /\ Len(shown) > c => c > 0 /\ \A i \in c..Len(shown) : shown[i] = shown[c]

\* The k-th file of the batch is on the disk, all that writeChunk() keeps of it,
\* or it was, until creat() was called again with its name.
Complete(k) ==
  LET sent == KeptChunks(batch[k].data)
  IN /\ k \in 1..Len(rFiles)
     /\ Merged(rFiles[k].chunks, sent) = sent \/ (CreatedAgain(k) /\ rFiles[k].chunks = <<>>)

\* The file of the batch that the sender is at, which is the newest on the disk.
Sending     == batch[fileNameIndex].data
StoredTo(n) ==
  Covers(rFiles[fileNameIndex].chunks, KeptChunks(Sending), Len(Kept(Sending, n)))

\* The receiver has taken n of its blocks and may still have to write the last,
\* perhaps for a second time.  From its first block on numLastGoodBlk is not 0.
Holds(n) ==
  /\ n > 0 => (n - 1) * CHUNK_SZ < Len(Sending) /\ numLastGoodBlk # 0
  /\ IF rPc = "write"
     THEN n > 0 /\ ChunkOf(rcvBlk) = ChunksOf(Sending)[n] /\ (StoredTo(n - 1) \/ StoredTo(n))
     ELSE StoredTo(n)

Acked ==
  \/ \E i \in 1..Len(m2s) : m2s[i] = ACK
  \/ \E i \in 1..Len(r2m) : r2m[i] = ACK

FileOpen    == rPc \in {"ncg2", "blk1", "blkRest", "write", "eot2"}
OfAFile     == {"statLast", "statAck", "statC", "blkLast", "reply", "reReply", "reLast"}
AfterLast   == {"finMost", "finLast", "finAck", "done"}

-----------------------------------------------------------------------------
\* Which file the sender is at.
PlaceInv ==
  /\ errCnt = 0
  /\ sPc = "start" => fileNameIndex = 0
  /\ sPc \notin {"start"} \cup AfterLast => fileNameIndex \in 1..Len(batch)
  /\ sPc \in AfterLast => fileNameIndex = Len(batch) + 1
  /\ sPc \in OfAFile => sFileD = fileNameIndex
  /\ Len(sResult) = IF sPc = "start" THEN 0 ELSE fileNameIndex - 1

\* How many files there are, and which one is open.
CountsInv ==
  /\ sPc = "start" => rFiles = <<>>
  /\ sPc \in {"readC", "statLast", "finMost", "finLast"} => Len(rFiles) = fileNameIndex - 1
  /\ sPc \in (OfAFile \ {"statLast"}) \cup {"eotNak"} =>
       IF FileOpen THEN rFileD = fileNameIndex /\ Len(rFiles) = fileNameIndex
                   ELSE Len(rFiles) = fileNameIndex - 1
  /\ sPc = "eotAck" => Len(rFiles) = fileNameIndex

\* What they hold.
ChunksInv ==
  /\ \A k \in 1..(fileNameIndex - 1) : Complete(k)
  /\ sPc \in {"statAck", "statC"} /\ FileOpen => rFiles[fileNameIndex].chunks = <<>>
  /\ sPc = "blkLast" =>
       \E k \in 1..Len(Data) :
         HasBlk(k) /\ SendingBlk(k) /\ (FileOpen => Holds(k - 1))
  /\ sPc \in {"reply", "reReply", "reLast"} =>
       \E k \in 1..Len(Data) :
         /\ HasBlk(k) /\ AwaitingReply(k)
         /\ FileOpen => Holds(k - 1) \/ Holds(k)
         /\ FileOpen /\ Acked /\ sPc # "reLast" => Holds(k)
  /\ sPc = "eotNak" /\ FileOpen =>
       \E n \in 0..Len(Sending) : Holds(n) /\ Len(Sending) <= n * CHUNK_SZ
  /\ sPc = "eotAck" => Complete(fileNameIndex)

\* Whatever is damaged, NAKed and resent, and however creat() and close() end:
\* the files before the one the sender is at are complete at the receiver, and
\* the newest has the blocks before the one in blkSent, and that one too when
\* an ACK is on its way (SenderY.cpp:267-285, ReceiverY.cpp:209-220).
StoreInv == PlaceInv /\ CountsInv /\ ChunksInv

\* While the process is ending because a file cannot be opened: the files before
\* it are complete, and what the receiver takes for its header makes a file of
\* no chunks at most.
CanceledStore ==
  /\ \A k \in 1..(fileNameIndex - 1) : Complete(k)
  /\ sResult = <<"CreatError">>
  /\ IF FileOpen THEN Len(rFiles) = fileNameIndex /\ rFiles[fileNameIndex].chunks = <<>>
                 ELSE Len(rFiles) = fileNameIndex - 1

\* The dialogue (YProtocol) and what is on the disk, of any batch: a file that
\* cannot be opened ends the process with every file before it complete.
DiskInv == DialogueInv /\ (IF Canceled THEN CanceledStore ELSE StoreInv)

-----------------------------------------------------------------------------
(* The names of the files, if all files of the batch can be opened.        *)

\* What the header of the k-th file may have become in the medium, or, past the
\* end of the batch, the last, empty block
NamesOf(k) ==
  LET name == IF k <= Len(batch) THEN batch[k].name ELSE 0
  IN {name, Complement(name)}

\* The k-th file on the disk was made from the header of the k-th of the batch,
\* and at most one from the last, empty block.
NamesInv ==
  /\ Len(rFiles) <= Len(batch) + 1
  /\ sPc \in AfterLast /\ rPc \in {"ncg", "hdr1", "hdrRest"} => Len(rFiles) = Len(batch)
  /\ \A k \in 1..Len(rFiles) :
       LET name == rFiles[k].name
       IN Len(name) > 0 /\ name[1] # 0 /\ name[1] \in NamesOf(k)

\* A batch of which all that is sent can be told on the disk.
Ordinary(files) ==
  NamesApart(files) /\ \A k \in 1..Len(files) : ~BlankInside(files[k].data)
=============================================================================
