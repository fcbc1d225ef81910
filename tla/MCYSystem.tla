----------------------------- MODULE MCYSystem -----------------------------
(***************************************************************************)
(* Small instances of YSystem for TLC.                                     *)
(***************************************************************************)
EXTENDS YStorage

\* A function of a chunk of two bytes that, as CrcAssumption asks, changes
\* with the complement of either byte.
MCCrc == [c \in Chunk |-> <<(c[1] + 2 * c[2]) % 256, (c[1] + c[2]) % 256>>]

MCFile(name, data) == [name |-> name, openable |-> TRUE, data |-> data]
Missing(name)      == [name |-> name, openable |-> FALSE, data |-> <<>>]

\* No byte of these files or of their blocks' CRC is SOH or CAN.
Letters == <<65, 66, 67, 68, 69, 70, 71, 72, 73>>
FirstBytes(n) == SubSeq(Letters, 1, n)

\* Neighbouring chunks that are the same, a blank chunk at the end and one inside.
Twice      == <<65, 66, 65, 66, 65>>
BlankLast  == <<65, 66, CTRL_Z>>
BlankInner == <<65, 66, CTRL_Z, CTRL_Z, 67>>

\* All pairs of files of up to five blocks, all single files, and copies.
MCBatches ==
  { <<MCFile(97, FirstBytes(i)), MCFile(98, FirstBytes(j))>> : i, j \in 0..9 }
  \cup { <<MCFile(97, FirstBytes(i))>> : i \in 0..9 }
  \cup { <<MCFile(97, Twice), MCFile(98, BlankLast)>> }

\* The hypotheses of the theorems about the dialogue and about the refinement.
ASSUME MCBatchesAreSendable == \A b \in MCBatches : AllOpenable(b) /\ SafeBatch(b)
ASSUME MCBatchesAreOrdinary == \A b \in MCBatches : Ordinary(b)

\* Fewer files, among them some that cannot be opened, and two of one name.
FaultyBatches ==
  { <<MCFile(97, FirstBytes(i)), MCFile(98, BlankInner)>> : i \in {0, 3, 8} }
  \cup { <<MCFile(97, BlankInner), Missing(98)>>, <<Missing(97)>>,
         <<Missing(97), MCFile(98, FirstBytes(2))>>, <<MCFile(97, BlankInner)>>,
         <<MCFile(97, Twice), MCFile(97, BlankLast)>>,
         <<MCFile(97, BlankLast), MCFile(98, Twice)>> }

\* One file of two blocks.
OneBatch == { <<MCFile(97, FirstBytes(3))>> }

\* The hypothesis of the theorems about files that may be missing.
ASSUME FaultyBatchesAreSafe == \A b \in FaultyBatches : SafeBatch(b)

MCUninit == { [i \in 1..BLK_SZ |-> 0] }
=============================================================================
