----------------------------- MODULE YProperties -----------------------------
(***************************************************************************)
(* What the transfer of a batch must satisfy, and what the comments of the *)
(* sources claim of it.                                                    *)
(***************************************************************************)
EXTENDS YSystem, SequencesExt

-----------------------------------------------------------------------------
\* The elements of seq at those of the places 1..n that are in S, in order.
Picked(seq, S, n) ==
  LET upTo[i \in 0..n] ==
        IF i = 0 THEN <<>>
        ELSE IF i \in S THEN Append(upTo[i - 1], seq[i])
        ELSE upTo[i - 1]
  IN upTo[n]

\* The chunks of a file as the sender cuts and pads them (a file of n bytes has
\* no more than n), and those of them that have to arrive: all but a last one
\* of CTRL_Zs only, which no receiver can tell from padding.
ChunksOf(data) == [k \in 1..Len(data) |-> DataChunk(data, (k - 1) * CHUNK_SZ)]
Blank(chunk)   == \A i \in 1..CHUNK_SZ : chunk[i] = CTRL_Z
Due(data)      ==
  {k \in 1..Len(data) : /\ (k - 1) * CHUNK_SZ < Len(data)
                        /\ Blank(ChunksOf(data)[k]) => k * CHUNK_SZ < Len(data)}
Expected(data) == Picked(ChunksOf(data), Due(data), Len(data))

\* A chunk before the last is nothing but CTRL_Zs.
BlankInside(data) ==
  \E k \in 1..Len(data) : k * CHUNK_SZ < Len(data) /\ Blank(ChunksOf(data)[k])

\* A block whose ACK became a NAK is sent, and written, again.  Shown adds the
\* i-th chunk written to those shown so far unless it is such a copy: the same
\* as the one before it, when sent does not go on with one more like it.
Shown(shown, written, i, sent) ==
  IF /\ i > 1 /\ written[i] = written[i - 1]
     /\ Len(shown) < Len(sent) => written[i] # sent[Len(shown) + 1]
  THEN shown ELSE Append(shown, written[i])

\* The chunks written for a file without the copies
Merged(written, sent) ==
  LET upTo[i \in 0..Len(written)] ==
        IF i = 0 THEN <<>> ELSE Shown(upTo[i - 1], written, i, sent)
  IN upTo[Len(written)]

\* creat() was called again with the name under which the k-th file is kept.
CreatedAgain(k) == \E j \in (k + 1)..Len(rFiles) : rFiles[j].name = rFiles[k].name

\* Names that differ, and still do if the medium complements the first byte of
\* some of them.  (255 is what it makes of the name of the last, empty block.)
NamesApart(files) ==
  \A i \in 1..Len(files) :
     /\ files[i].name # 255
     /\ \A j \in 1..Len(files) : i # j => files[i].name \notin {files[j].name, Complement(files[j].name)}

Reported(k)  == Len(sResult) >= k /\ sResult[k] \in {"Done, ", "Done"}
AllDone      == sPc = "done" /\ rPc = "done"

\* A file that exists at the receiver only: the empty block that ends the
\* batch was damaged on its first data byte and taken for a file's header.
PhantomFile  == Len(rFiles) > Len(batch)

-----------------------------------------------------------------------------
(* Safety of the transfer. *)

\* What is on the receiver's disk for the k-th file is at every moment a
\* prefix of the chunks that the sender cuts that file into, copies of a block
\* sent again aside, whatever was damaged, NAKed and resent: no chunk is lost,
\* none overtakes another and none goes to the file of another (the loops of
\* sendFiles and receiveFiles, SenderY.cpp:267-279 and ReceiverY.cpp:209-220).
\* Of a file with a blank chunk before its last nothing is said: writeChunk()
\* loses that chunk (OnlyPaddingLeftOut).
InOrder ==
  \A k \in 1..Len(rFiles) : k <= Len(batch) =>
     LET sent == Expected(batch[k].data)
     IN ~BlankInside(batch[k].data) => IsPrefix(Merged(rFiles[k].chunks, sent), sent)

\* The k-th file is on the receiver's disk, every chunk of it.
HasAll(k) ==
  LET sent == Expected(batch[k].data)
  IN k \in 1..Len(rFiles) /\ Merged(rFiles[k].chunks, sent) = sent

\* When the sender appends "Done, " for a file (SenderY.cpp:285) the receiver
\* has every chunk of it on its disk, and keeps it unless it calls creat() with
\* the same name once more: the sender's report is never early.  (Not said of a
\* file with a blank chunk before its last, as in InOrder.)
DoneMeansStored ==
  \A k \in 1..Len(batch) :
     Reported(k) /\ ~BlankInside(batch[k].data) => HasAll(k) \/ CreatedAgain(k)

\* No creat() empties a file that was received before (ReceiverY.cpp:134): for
\* names that are apart in the sense of NamesApart, the names that the receiver
\* reads from headers of which it does not check the CRC stay apart.
NamesStayApart == NamesApart(batch) => \A k \in 1..Len(rFiles) : ~CreatedAgain(k)

\* A block the receiver finds good and is about to write is the block the
\* sender is waiting to have acknowledged: never an older one, a damaged one,
\* or two halves of different ones (ReceiverY.cpp:212-215).
AcceptsWhatWasSent ==
  [][rPc = "blkRest" /\ rPc' = "write" => rcvBlk' = blkSent]_vars

\* Stop and wait: at most one block, with an EOT before it or after it, is on
\* its way to the receiver, and at most three replies are on their way back
\* (an ACK and a 'C' after a header, after a 'C' the sender did not read), so
\* no write of the peers or of the medium can ever block (SenderY.cpp:252-289).
StopAndWait ==
  /\ Len(s2m) + Len(m2r) <= BLK_SZ
  /\ Len(r2m) + Len(m2s) <= 3

\* When both peers have returned they report the same, and say of every file
\* of the batch that it is done (the results printed at Ensc351Part2.cpp:66, 74).
SameReport ==
  AllDone => sResult = rResult /\ Len(sResult) = Len(batch)

\* The answer to the question of Medium.cpp:93, "how small could byteToCorrupt
\* be?": the first byte of a message counts and is not tested, so the place of
\* the byte to damage may be before the array, but never by more than the three
\* bytes that can follow the last tested one (the end of a block that was read
\* in two parts, the two EOTs and the next SOH).
IndexNearTheArray ==
  mPc = "soh" => ByteToCorrupt(0, byteCount - T2toT1_CORRUPT_BYTE) >= -3

-----------------------------------------------------------------------------
(* Liveness. *)

\* If no disk fails, both peers return or the process has ended, unless a
\* damaged last header made the receiver open a file that nobody sends: the
\* resends, the two EOTs and the unread 'C's never leave both sides waiting.
TransferEnds == <>(AllDone \/ exited \/ PhantomFile)

-----------------------------------------------------------------------------
(* What the comments of the sources say, and the code does not do. *)

\* ReceiverY.h:42-45: goodBlk1st is the indication that the data in the
\* block can be written to disk, so that a chunk is written once.
WrittenOnce ==
  [][rPc = "write" /\ rFiles' # rFiles => goodBlk1st]_vars

\* ReceiverY.cpp:115, 118: what writeChunk() leaves out is padding in the last
\* block: a file that the sender reports as done is on the disk, all of it.
OnlyPaddingLeftOut ==
  \A k \in 1..Len(batch) : Reported(k) => HasAll(k) \/ CreatedAgain(k)

\* ReceiverY.cpp:159-160: two CANs inform the sender of the cancelling of a
\* transfer, so that it does not wait for more.
CancelIsHeard == (rResult = <<"CreatError">>) ~> (sPc = "done" \/ exited)

\* SenderY.cpp:284: the sender assumes an ACK after the second EOT.
\* (The medium may have made it a NAK.)
AckAfterEot ==
  [][sPc = "eotAck" /\ sPc' # "eotAck" => Head(m2s) \in {ACK, NAK}]_vars
=============================================================================
