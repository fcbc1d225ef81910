----------------------------- MODULE YScheduled -----------------------------
(***************************************************************************)
(* YSystem as the program runs it: on one processor (run.sh), under        *)
(* SCHED_FIFO, with T2 (the sender) at priority 70, P-T1 (the receiver) at *)
(* 60, M2to1 at 45 and M1to2 at the 40 it inherits.  A thread runs only    *)
(* while every thread of higher priority is blocked: in a read on an empty *)
(* socket, or in a call that waits for the disk, which it does only when   *)
(* the files of the batch are not in the cache.                            *)
(***************************************************************************)
EXTENDS YStorage

CONSTANT CachedBatches     \* the batches whose files are in the cache

ASSUME CacheAssumption == CachedBatches \subseteq Batches

-----------------------------------------------------------------------------
DiskMayWait == batch \notin CachedBatches

SenderBlocked ==
  \/ sPc = "done"
  \/ sPc \in ReadingPcs /\ m2s = <<>>
  \/ DiskMayWait /\ sPc \in {"statLast", "blkLast"}   \* genBlk reads the file

ReceiverBlocked ==
  \/ rPc = "done"
  \/ rPc \in {"hdr1", "blk1", "eot2"} /\ m2r = <<>>
  \/ rPc \in {"hdrRest", "blkRest"} /\ Len(m2r) < REST_BLK_SZ
  \/ DiskMayWait /\ rPc = "write"                     \* writeChunk

M2to1Blocked == s2m = <<>>

PrioNext ==
  \/ SenderStep
  \/ SenderBlocked /\ ReceiverStep
  \/ SenderBlocked /\ ReceiverBlocked /\ M2to1Step
  \/ SenderBlocked /\ ReceiverBlocked /\ M2to1Blocked /\ M1to2Step

PrioSpec == Init /\ [][PrioNext]_vars

\* Under the priorities only a wait for the disk can cut a block in two.
ScheduledSafe     == \A b \in Batches : b \in CachedBatches \/ SafeBatch(b)
ScheduledSendable == ScheduledSafe /\ \A b \in Batches : AllOpenable(b)

-----------------------------------------------------------------------------
\* The bytes a read of the sender may return if the comments "assuming get a
\* ..." are right, an ACK that the medium made a NAK counted as an ACK.
Assumed(pc) ==
  CASE pc \in {"readC", "statC"} -> {NCG}
    [] pc = "eotNak"             -> {NAK}
    [] OTHER                     -> {ACK, NAK}

\* Every read of the sender returns the reply it is meant for: none is taken
\* for another, and the 'C' that is never read is gone before the last read
\* (sendFiles, SenderY.cpp:254-289, dumpGlitches, SenderY.cpp:65-71).
RepliesAsAssumed ==
  [][sPc' # sPc /\ sPc \in ReadingPcs => Head(m2s) \in Assumed(sPc)]_vars

\* ReceiverY.cpp:221: what ends the loop over the blocks is an EOT: no byte
\* from the middle of a block is taken for the first byte of one.
EotEndsTheFile ==
  [][rPc = "blk1" /\ rPc' = "eot2" => Head(m2r) = EOT]_vars

\* Under the priorities M1to2 passes the ACK of the second EOT together with
\* the 'C' behind it, so that 'C' is there to be thrown away with the last byte
\* of the last block.
UnreadInv ==
  /\ sPc = "eotAck" /\ m2s # <<>> => rPc = "hdr1" /\ r2m = <<>>
  /\ sPc \in {"finMost", "finLast"} => rPc = "hdr1" /\ r2m = <<>>
  /\ sPc = "finAck" =>
       \/ rPc \in {"hdr1", "hdrRest"} /\ Replies(<<>>)
       \/ rPc \in {"ncg2", "done"} /\ Replies(<<Yes>>)
       \/ rPc = "blk1" /\ Replies(<<Yes, Cs>>)
=============================================================================
