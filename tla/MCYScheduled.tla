---------------------------- MODULE MCYScheduled ----------------------------
(***************************************************************************)
(* Small instances of YScheduled for TLC.                                  *)
(***************************************************************************)
EXTENDS YScheduled

MCCrc == [c \in Chunk |-> <<(c[1] + 2 * c[2]) % 256, (c[1] + c[2]) % 256>>]
MCFile(name, data) == [name |-> name, openable |-> TRUE, data |-> data]
MCUninit == { [i \in 1..BLK_SZ |-> 0] }

\* Blocks whose data or CRC hold SOH, CAN, EOT and CTRL_Z: under MCCrc the last
\* byte of the block of <<12, 12>> is CAN and that of <<1, 0>> is SOH.  The 26s are
\* a blank chunk inside of some files, the last of others, or in no chunk alone.
Tricky == <<12, 12, 1, 0, 0, 26, 26, 1, 23, 1, 4>>
TrickyBatches ==
  { <<MCFile(97, SubSeq(Tricky, 1, i)), MCFile(98, SubSeq(Tricky, j, 11))>> :
      i \in 0..11, j \in 1..12 }

\* The same shapes of batches with letters only.
PlainBatches ==
  { <<MCFile(97, [k \in 1..i |-> 64 + k]), MCFile(98, [k \in 1..j |-> 80 + k])>> :
      i, j \in 0..9 }

\* One file whose block numbers go past 255.
LongBatch == { <<MCFile(97, [i \in 1..517 |-> 65 + (i % 57)])>> }

AllBatches   == TrickyBatches \cup LongBatch \cup PlainBatches
InTheCache   == TrickyBatches \cup LongBatch
NoneInCache  == {}

\* The hypothesis under which YProtocolProofs proves the dialogue: what is not
\* in the cache is safe.  Some of what is in the cache is not.
ASSUME AllBatchesAreSendable ==
  /\ \A b \in AllBatches : AllOpenable(b) /\ (b \in InTheCache \/ SafeBatch(b))
  /\ \E b \in InTheCache : ~SafeBatch(b)
=============================================================================
