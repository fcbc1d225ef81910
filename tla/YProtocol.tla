------------------------------ MODULE YProtocol ------------------------------
(***************************************************************************)
(* The dialogue of the two peers: for each place the sender can be at, the *)
(* places the receiver can be at, the block or the EOT on its way between  *)
(* them and the replies on their way back, and one phase more for the end  *)
(* of a batch with a file that cannot be opened.  It is the inductive      *)
(* invariant behind StopAndWait, AcceptsWhatWasSent and EotEndsTheFile;    *)
(* what the peers report and how far the medium has counted are added to   *)
(* it at the end, for SameReport and IndexNearTheArray.                    *)
(***************************************************************************)
EXTENDS YProperties

-----------------------------------------------------------------------------
(* The batches the dialogue is right for.                                  *)

AllOpenable(files) == \A f \in 1..Len(files) : files[f].openable

\* A last byte that the medium, seeing it alone, takes for no message's start.
SafeEnd(blk) == blk[BLK_SZ] \notin {SOH, CAN}

\* Every block of the batch, the headers and the last, empty one included.
SafeBatch(files) ==
  /\ SafeEnd(StatBlk(0))
  /\ \A f \in 1..Len(files) :
       /\ SafeEnd(StatBlk(files[f].name))
       /\ \A k \in 1..Len(files[f].data) : SafeEnd(DataBlk(files[f].data, k))

\* Threads that interleave freely may cut any block in two.
FreelySafe     == \A b \in Batches : SafeBatch(b)
FreelySendable == \A b \in Batches : AllOpenable(b) /\ SafeBatch(b)

-----------------------------------------------------------------------------
(* What is on its way.                                                     *)

\* A block of which the medium has damaged the byte at x, or none if x is 0.
Hit(blk, x) == [i \in 1..BLK_SZ |-> IF i = x THEN Complement(blk[i]) ELSE blk[i]]

\* The block blk between a sender that has written its first sent bytes and a
\* receiver that has read its first got bytes.  The medium, which has passed p
\* of them, is before the block, behind its first byte, between its two parts
\* or behind it; in the third case the last byte travels alone.
Travels(blk, got, sent, out, in, pc) ==
  \E p \in {0, 1, BLK_SZ - 1, BLK_SZ}, x \in {0} \cup 2..BLK_SZ :
    /\ got <= p /\ p <= sent
    /\ pc = IF p = 1 THEN "soh" ELSE "first"
    /\ p = BLK_SZ - 1 => SafeEnd(blk)
    /\ Len(out) = sent - p /\ \A i \in 1..(sent - p) : out[i] = blk[p + i]
    /\ Len(in) = p - got   /\ \A i \in 1..(p - got)  : in[i] = Hit(blk, x)[got + i]

\* The replies that are coming, the oldest first: m past the medium and r
\* before it together have one byte out of each set of expected.
Coming(m, r, expected) ==
  /\ Len(m) + Len(r) = Len(expected)
  /\ \A i \in 1..Len(expected) : (m \o r)[i] \in expected[i]

Yes    == {ACK, NAK}      \* an ACK or a NAK, or an ACK that became a NAK
No     == {NAK}
Cs     == {NCG}
Cancel == {CAN}

InFlight(blk, got, sent) == Travels(blk, got, sent, s2m, m2r, mPc)
Replies(expected)        == Coming(m2s, r2m, expected)
Quiet                    == s2m = <<>> /\ m2r = <<>> /\ mPc = "first"
EotComing ==
  /\ mPc = "first"
  /\ \/ s2m = <<EOT>> /\ m2r = <<>>
     \/ s2m = <<>> /\ m2r = <<EOT>>

-----------------------------------------------------------------------------
(* The phases of the dialogue.                                             *)

\* The receiver is about to ask for a header, or has.  If its close failed
\* before, the sender took that 'C' for the ACK of its second EOT.
BeforeHdr ==
  /\ Quiet
  /\ \/ rPc = "ncg" /\ Replies(<<>>)
     \/ rPc = "hdr1" /\ Replies(<<Cs>>)
     \/ rPc = "hdr1" /\ CloseMayFail /\ Replies(<<>>)

HdrComing(sent) ==
  /\ Replies(<<>>)
  /\ \/ rPc = "hdr1" /\ InFlight(blkSent, 0, sent)
     \/ rPc = "hdrRest" /\ InFlight(blkSent, 1, sent)

\* The receiver has the header: it goes on, calls it the last one (its name is
\* damaged) or cannot create the file.
HdrTaken ==
  /\ Quiet
  /\ \/ rPc \in {"ncg2", "done"} /\ Replies(<<Yes>>)
     \/ rPc = "blk1" /\ Replies(<<Yes, Cs>>)
     \/ rPc = "done" /\ CreatMayFail /\ Replies(<<Cancel, Cancel>>)

HdrAnswered ==
  /\ Quiet
  /\ \/ rPc \in {"ncg2", "done"} /\ Replies(<<>>)
     \/ rPc = "blk1" /\ Replies(<<Cs>>)
     \/ rPc = "done" /\ CreatMayFail /\ Replies(<<Cancel>>)

BlkComing(sent) ==
  /\ Replies(<<>>)
  /\ \/ rPc \in {"blk1", "write"} /\ InFlight(blkSent, 0, sent)
     \/ rPc = "blkRest" /\ InFlight(blkSent, 1, sent)
     \/ rPc = "done" /\ CreatMayFail /\ InFlight(blkSent, 0, sent)

BlkTaken == Quiet /\ rPc \in {"write", "blk1"} /\ Replies(<<Yes>>)

FirstEot ==
  \/ EotComing /\ rPc \in {"blk1", "write"} /\ Replies(<<>>)
  \/ EotComing /\ rPc = "done" /\ CreatMayFail /\ Replies(<<>>)
  \/ Quiet /\ rPc = "eot2" /\ Replies(<<No>>)

SecondEot ==
  \/ EotComing /\ rPc = "eot2" /\ Replies(<<>>)
  \/ Quiet /\ rPc = "ncg" /\ Replies(<<Yes>>)
  \/ Quiet /\ rPc = "hdr1" /\ Replies(<<Yes, Cs>>)
  \/ Quiet /\ rPc = "ncg" /\ CloseMayFail /\ Replies(<<>>)
  \/ Quiet /\ rPc = "hdr1" /\ CloseMayFail /\ Replies(<<Cs>>)

\* The last, empty block, and the 'C' that nobody reads.
LastSent ==
  \/ rPc = "ncg" /\ Replies(<<>>) /\ InFlight(blkBuf, 0, BLK_SZ - 1)
  \/ /\ Replies(<<Cs>>) \/ (CloseMayFail /\ Replies(<<>>))
     /\ \/ rPc = "hdr1" /\ InFlight(blkBuf, 0, BLK_SZ - 1)
        \/ rPc = "hdrRest" /\ InFlight(blkBuf, 1, BLK_SZ - 1)

LastComing ==
  \/ rPc = "ncg" /\ Replies(<<>>) /\ InFlight(blkBuf, 0, BLK_SZ)
  \/ /\ Replies(<<>>) \/ Replies(<<Cs>>)
     /\ \/ rPc = "hdr1" /\ InFlight(blkBuf, 0, BLK_SZ)
        \/ rPc = "hdrRest" /\ InFlight(blkBuf, 1, BLK_SZ)

LastTaken ==
  /\ Quiet
  /\ \/ rPc \in {"ncg2", "done"} /\ (Replies(<<Yes>>) \/ Replies(<<Cs, Yes>>))
     \/ rPc = "blk1" /\ (Replies(<<Yes, Cs>>) \/ Replies(<<Cs, Yes, Cs>>))
     \/ /\ rPc = "done" /\ CreatMayFail
        /\ Replies(<<Cancel, Cancel>>) \/ Replies(<<Cs, Cancel, Cancel>>)

\* The sender has returned, maybe on that 'C' and before the block was read.
Returned ==
  \/ /\ Replies(<<>>)
     /\ \/ rPc = "hdr1" /\ InFlight(blkBuf, 0, BLK_SZ)
        \/ rPc = "hdrRest" /\ InFlight(blkBuf, 1, BLK_SZ)
  \/ /\ Quiet
     /\ \/ rPc \in {"ncg2", "done"} /\ (Replies(<<Yes>>) \/ Replies(<<>>))
        \/ rPc = "blk1" /\ (Replies(<<Yes, Cs>>) \/ Replies(<<Cs>>))
        \/ /\ rPc = "done" /\ CreatMayFail
           /\ Replies(<<Cancel, Cancel>>) \/ Replies(<<Cancel>>)

Protocol ==
  /\ sPc \in {"start", "readC", "finMost"} => BeforeHdr
  /\ sPc = "statLast" => HdrComing(BLK_SZ - 1)
  /\ sPc = "statAck" => HdrComing(BLK_SZ) \/ HdrTaken
  /\ sPc = "statC" => HdrAnswered
  /\ sPc \in {"blkLast", "reLast"} => BlkComing(BLK_SZ - 1)
  /\ sPc \in {"reply", "reReply"} => BlkComing(BLK_SZ) \/ BlkTaken
  /\ sPc = "eotNak" => FirstEot
  /\ sPc = "eotAck" => SecondEot
  /\ sPc = "finLast" => LastSent
  /\ sPc = "finAck" => LastComing \/ LastTaken
  /\ sPc = "done" => Returned

\* Which header the sender has prepared and sent.  (None, for a file that it
\* could not open.)
HeaderBlk ==
  /\ sPc = "readC" =>
       /\ fileNameIndex \in 1..Len(batch)
       /\ \/ sFileD = fileNameIndex /\ blkBuf = StatBlk(batch[fileNameIndex].name)
          \/ sFileD = -1 /\ ~batch[fileNameIndex].openable
  /\ sPc \in {"statLast", "statAck"} =>
       /\ fileNameIndex \in 1..Len(batch)
       /\ blkSent = StatBlk(batch[fileNameIndex].name)
  /\ sPc \in {"finMost", "finLast", "finAck", "done"} => blkBuf = StatBlk(0)

\* The byte that was read alone is the first of the block.
FirstByte == rPc \in {"hdrRest", "blkRest"} => rcvBlk[1] = SOH

\* The phases above are all there are: whatever the medium damages, the sender
\* is never at a read (SenderY.cpp:254-289) with the receiver (ReceiverY.cpp:
\* 190-238) at a place, or with bytes between them, that the phase of the
\* dialogue does not have, and what is sent is the header of the file it is at.
PInv ==
  /\ HeaderBlk
  /\ FirstByte
  /\ StopAndWait
  /\ ~exited => Protocol

-----------------------------------------------------------------------------
(* The end of a batch with a file that cannot be opened: after the 'C' the *)
(* sender writes two CANs and a block less its last byte, and before that  *)
(* byte it ends the process (SenderY.cpp:256-259).                         *)

\* Until it has, those bytes are no more than what the receiver takes for a
\* header and for one byte after it.
Canceled == sPc = "statLast" /\ sFileD = -1
LeftOver ==
  CASE rPc = "hdr1"               -> BLK_SZ + 1
    [] rPc = "hdrRest"            -> BLK_SZ
    [] rPc \in {"ncg2", "blk1"}   -> 1
    [] rPc \in {"blkRest", "eot2"} -> 0
AfterCans ==
  /\ fileNameIndex \in 1..Len(batch) /\ ~batch[fileNameIndex].openable
  /\ ~exited => rPc = "done" \/ (rPc \notin {"ncg", "write"} /\ Len(s2m) + Len(m2r) <= LeftOver)

\* The dialogue of any batch, files that cannot be opened included: the phases,
\* and once the sender has given up on a file, what is left to be read.
DialogueInv == IF Canceled THEN AfterCans ELSE PInv

\* The block of which the sender has still to write the last byte ends safely.
\* (With free interleaving by FreelySafe; under the priorities the medium
\* runs between the two writes of a block only if the sender waits for the disk.)
Whole ==
  /\ sPc \in {"statLast", "blkLast", "reLast"} => SafeEnd(blkSent)
  /\ sPc = "finLast" => SafeEnd(blkBuf)

-----------------------------------------------------------------------------
(* What the peers report, if no creat() and no close() fails.              *)

Dones(n) == [k \in 1..n |-> "Done, "]

\* The sender reports the files before the one it is at; while it waits for
\* the reply to the second EOT the receiver may be one report ahead.
SenderReports   == Dones(IF sPc = "start" THEN 0 ELSE fileNameIndex - 1)
ReceiverReports ==
  IF sPc = "eotAck" /\ rPc \in {"ncg", "hdr1"} THEN Dones(fileNameIndex) ELSE SenderReports

ReportInv ==
  /\ sPc = "start" => fileNameIndex = 0
  /\ sPc \notin {"start", "finMost", "finLast", "finAck", "done"} => fileNameIndex \in 1..Len(batch)
  /\ sPc \in {"finMost", "finLast", "finAck", "done"} => fileNameIndex = Len(batch) + 1
  /\ sResult = IF sPc = "done" THEN EraseTail(SenderReports) ELSE SenderReports
  /\ rResult = IF rPc = "done" THEN EraseTail(ReceiverReports) ELSE ReceiverReports

-----------------------------------------------------------------------------
(* How far the count of the medium is past the byte it damages: one for    *)
(* each byte that came alone since the last rest of a block.               *)

MayBePast ==
  IF mPc = "soh" THEN 3
  ELSE CASE sPc \in {"start", "readC", "finMost"} -> 2
         [] sPc = "eotNak" -> 1 - Len(s2m)
         [] sPc = "eotAck" -> 2 - Len(s2m)
         [] sPc \in {"statLast", "blkLast", "reLast", "finLast"} ->
              IF s2m = <<>> THEN -1 ELSE 2
         [] OTHER -> IF Len(s2m) > 1 THEN 2 ELSE 0 - Len(s2m)

CountInv == byteCount - T2toT1_CORRUPT_BYTE <= MayBePast
=============================================================================
