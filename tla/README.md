# A verification project for the YMODEM peers of ENSC 351

The repository holds two course projects. `Ensc351Part1` is a starter: a sender whose
loop is there and whose writes are not. `Ensc351Part2` is a program of four threads: a
YMODEM sender, a YMODEM receiver and a "kind medium" between them that damages bytes and
turns ACKs into NAKs. This directory models both in TLA+, checks them with TLC and
proves with TLAPS, for every value of the constants, what TLC finds to hold of them, save liveness and one
comparison with a recursive reference. Paths below are under `src/Ensc351Part2/src/` unless said otherwise.

## 1. The system

| Component | State | Operations |
|---|---|---|
| `SenderY` (thread T2) | file list and index, open descriptor, block prepared (`blkBuf`), block kept for a resend (`blkBufs[1]`), `blkNum`, `bytesRd`, `errCnt`, `result` | `sendFiles`, which calls `prepStatBlk`, `sendBlkPrepNext`, `resendBlk`, `genBlk`, `sendMostBlk`, `sendLastByte`, `dumpGlitches`, `cans`, `closeTransferredFile` |
| `ReceiverY` (thread P-T1) | block received, `m_goodBlk`, `m_goodBlk1st`, `m_syncLoss`, `m_numLastGoodBlk`, open descriptor, `result`, the files on the disk | `receiveFiles`, which calls `getRestBlk`, `writeChunk`, `openFileForTransfer`, `closeTransferredFile`, `checkForAnotherFile`, `cans` |
| `Medium` (threads M2to1, M1to2) | `m_byteCount`, `m_ACKreceived`, where M2to1 is inside a message | `MsgFromTerm2`, `MsgFromTerm1` |
| `PeerY` | the constants, the CRC | `sendByte`, `updcrc`, `crc16ns` |
| `Ensc351Part2`, `main`, `run.sh` | two socket pairs, the threads and their SCHED_FIFO priorities, one processor | start, wiring, the close at the end of T2 |
| `myIO` | none | wrappers of system calls |
| `Ensc351Part1` | file list, `blkNum`, `bytesRd`, `result` | `sendFiles`, which calls `statBlk`, `genBlk` and the empty `sendBlk`, `cans` |

The threads share nothing but two stream socket pairs: sender - medium and medium -
receiver. All that is hard follows from this:

* **a block is sent in two writes** with a read of the file in between, so the medium
  may see it in two pieces, and takes the last byte for the start of a new message;
* the sender **throws away** what has come back (`dumpGlitches`) before the last byte
  of every block, so that a reply that comes early is lost;
* **one reply is never read**: no `'C'` is read before the last, empty block;
* an ACK may come back as a **NAK**: after data it means a resend of a block the
  receiver already wrote; after a header or an EOT it is not looked at;
* the sender **prepares block k+1 while block k is not acknowledged**, and has to
  resend k from a copy;
* `blkNum` is a byte, `m_numLastGoodBlk + 1` an `int`;
* `open`, `creat`, `close` and `write` fail, and one side goes on without the other;
* the **peers run before the medium does**, whose first act, creating its log, may fail;
* T2 closes a descriptor when its sender has returned, maybe before the last reply;
* `genStatBlk` computes in `int`, `size_t` and `uint8_t` how much of a block is left.

What makes it correct: the receiver's files are, in order and without gaps, the
chunks of the sender's files; the sender does not report a file done before the
receiver has it; no file is emptied for another; nobody waits for ever; and both report the same.

## 2. The modules

| Module | Contents |
|---|---|
| `Wire` | constants and layout of a block, the four directions of the two socket pairs, `EraseTail` (what `result.erase` cuts) |
| `SenderY` | the sender; `ConsecutiveBlocks` |
| `ReceiverY` | the receiver and its disk |
| `Medium` | both threads of the medium |
| `YSystem` | the four together: `Spec` lets them interleave freely, `FairSpec` adds fairness |
| `YProperties` | the properties of a transfer, and the claims of comments that fail |
| `BatchDelivery` | the abstract specification: files that appear item by item, are accepted when complete and reported after that |
| `YRefinement` | the mapping under which `YSystem` implements `BatchDelivery` |
| `YScheduled` | the same system under the program's priorities (`PrioSpec`) |
| `YProgram` | `YSystem` inside the life of the process: the start of the medium, files to send that fail, and the end of T2 (`ProgSpec`, `FairProgSpec`) |
| `StatusBlock` | `genStatBlk` alone, with the real sizes and the arithmetic of the code |
| `YProtocol` | the dialogue: at each place of the sender, what is in the queues and where the receiver is (`PInv`, `DialogueInv`) |
| `YStorage` | at each place of the sender, what is on the receiver's disk (`StoreInv`, `DiskInv`), and under which names (`NamesInv`) |
| `Crc16`, `Crc16Division` | `updcrc` and `crc16ns`; the division of polynomials that they are compared with |
| `Part1` | the sender of the starter project |
| `MCYSystem`, `MCYScheduled`, `MCYProgram`, `MCStatusBlock`, `MCCrc16`, `MCPart1` | instances for TLC |
| `YSystemProofs` | types, resends, and what holds because of the priorities or of the life of the process |
| `YProtocolProofs` | `DialogueInv` is an invariant; what follows from it alone |
| `YReportProofs` | the reports, the replies that are read, the count of the medium |
| `YDeliveryProofs` | `DiskInv` and `NamesInv` are invariants; the refinement of `BatchDelivery` |
| `BatchDeliveryProofs`, `StatusBlockProofs`, `Part1Proofs`, `Crc16Proofs` | theorems about those four |

`YSystem` composes `SenderY`, `ReceiverY` and `Medium` over the queues of `Wire`;
`YProperties` extends it, `YProtocol` and `YRefinement` extend that, `YStorage` both of them and
`YScheduled` that; `YProgram` extends `YProperties` with three variables of its own. The four proof
modules whose names begin with Y extend each other in the order of the table. `StatusBlock`, `Crc16` and
`Part1` stand alone.

### How state and actions correspond to the code

The variables have the names of the members, with a prefix `s` or `r` where both
peers have one (`sFileD` and `rFileD` are `transferringFileD`). `blkSent` is
`blkBufs[1]`. `sPc`, `rPc` and `mPc` name the call a thread is about to make.

A socket direction is a sequence of bytes: a `write` appends, a `read` of at most n
takes what there is, `readcond` with `min = n` waits for n bytes. **Step size**: an action is
one blocking read (or one wait for the disk) and all the code up to the next one.
This loses nothing: what a thread does between two such calls is local, except for its
writes, and two adjacent actions are kept apart wherever another thread could react in
between. So the two writes of a block are two actions (`SendMostNew` in `ReadC`,
`ReadStatC`, `ReadReply`, then `PrepNextSendLast`), `sendByte(ACK)` and
`sendByte('C')` are two, the first byte of a message and its rest are two, the ACK of
a block and `writeChunk` are two. `dumpGlitches` and the write of the last byte are
one: no other thread changes its course on what happens between them.

Blocks, CRCs, numbers and complements are real bytes, because the damage is done to a
byte at a computed place. Abstracted: the size after the name in a status block (the
receiver never reads it), names longer than one byte, messages on the console, the
contents of the medium's log. `errCnt` starts at 0; in the code it has no value until
line 273 sets it, and nothing reads it before.

The receiver's disk (`rFiles`) is a sequence with one record for each `creat`, in the order of the calls.
`creat` of a name that is there empties that file (`Created`): the older record keeps its name and loses its chunks,
and the new one is what is written from then on. In YProgram a `stat`, `read` or `close` of a file to send may fail (`SourceFails`), which
ends the process.

`StatusBlock` takes what `SenderY` leaves out: a byte of memory is known by what was
written to it last (`"name"`, `"nul"`, `"digit"`, `"pad"`, ...), places and lengths are
the numbers of the code. The memory is `blkBuf`, `blkBufs[0]` and `blkBufs[1]`, which
follow each other in a `SenderY` (`SenderY.h:45-46`), and what comes after.

`VNPE.h`, `SocketReadcond.h`, `posixThread.hpp` and `AtomicCOUT.h` are not in the
repository. `PE` and `PE_NOT` are taken to end the process if the call fails, as
`ErrorPrinter` (`PeerY.cpp`) does: `exited` is then TRUE and no thread takes a step.
A write outside an array (`Medium.cpp:95` with a negative index) either harms nothing
or ends the process. `blkBuf` before its first use is any block of `UninitBlks`.

## 3. The runs

Constants of the runs of the whole system: `CHUNK_SZ = 2` (128 in the code), one
byte in 20 damaged (395 in the code: about one in three blocks in both), one ACK in 4
turned into a NAK (10 in the code). Among the batches there is damage to headers, data
blocks, the last block and resent blocks, and a NAK in place of the ACK of each kind of
message: later headers, data, EOTs and the last block (the first ACK of a
transfer is never hit, in the code either).

| Run | Question |
|---|---|
| `Core` | 111 batches of one or two files of 0 to 9 bytes (0 to 5 blocks), one of them with neighbouring chunks that are the same and a last chunk of CTRL_Zs, every interleaving of four threads: types, `ImplementsDelivery`, `AcceptsWhatWasSent`, `ConsecutiveBlocks`, `StopAndWait`, `SameReport`, `IndexNearTheArray`, the inductive invariant `DiskInv` and, with fairness, `TransferEnds` |
| `Faults` | the life of the process (`ProgSpec`) with missing files, files to send whose `stat`, `read` or `close` fails, failing `creat` (of a file and of the log), `write` and `close` at the other side, two files of one name, chunks of CTRL_Z inside and at the end of files: `InOrder`, `DoneMeansStored`, `NamesStayApart`, `NoLogNoFile`, `DiskInv` |
| `Scheduled` | the priorities of the program. Files in the cache, so that `genBlk` and `writeChunk` never wait: 144 batches of data with SOH, CAN, EOT and CTRL_Z in every position, and a file of 259 blocks whose `blkNum` wraps with damage and resends nearby. Files on the disk, so that they may wait: 100 batches of letters. `RepliesAsAssumed`, `EotEndsTheFile`, `AcceptsWhatWasSent`, `ConsecutiveBlocks`, `DoneMeansStored`, `SameReport` |
| `Crc` | the program's CRC, 128-byte chunks, all 128 places of damage |
| `Status` | `genStatBlk` with `CHUNK_SZ = 128`, names of 0-3 and 105-130 characters, and the empty one that ends a batch, sizes of 1 to 19 digits |
| `Starter` | Part 1: all lists of up to three files of 0-2 chunks or missing; two files of 258 and 256 chunks |

What they show. `ImplementsDelivery`: every step of the four threads is a step of
`BatchDelivery` or changes nothing it speaks of: copies of a block sent again aside,
chunks are appended in order, to the newest file only, until it is complete; the
receiver accepts only then; the sender reports only what was accepted; and the next file
is created only after that. The refinement is about disks that do not fail: with a failed
`creat` or `close` the code replaces `result` by "CreatError" or "CloseError"
(`ReceiverY.cpp:199, 228`), so that files it had called done no longer are. There, in
`Faults`, the two weaker properties are checked by themselves.

*What has to arrive.* `Expected` is said of the data alone, not of what the receiver does: the chunks into which the sender
cuts and pads a file, all but a last one of CTRL_Zs only, which no receiver can tell from padding. `Merged` is what was
written without the copies: a chunk that is the same as the one before it, when the file does not go on with one
more like it. `writeChunk` loses every chunk of CTRL_Zs only, wherever in the file it is. That is a defect
(`OnlyPaddingLeftOut`, below), so `InOrder` and `DoneMeansStored` say nothing of a file with such a chunk before its last
(`BlankInside`), and the refinement is of batches without such files (`Ordinary`). `DiskInv` speaks of these files too, but only of the chunks
that `writeChunk` keeps (`KeptChunks`); for other files the two are the same (lemma `KeptIsExpected`).

*Names.* `creat` empties a file that is there, and the receiver does not look at the CRC of a header.
`NamesStayApart`: if the names of a batch differ, and still do when the first byte of some is complemented (`NamesApart`), no file received before
is emptied. `DoneMeansStored` excepts a file whose name came once more (`CreatedAgain`), as in the batch of `Faults` with two files of one name.

`AcceptsWhatWasSent`: a block about to be
written is the block the sender is waiting for. `StopAndWait`: never more than a
block and three replies in the sockets, so no write can block and the unbounded
queues of the model are honest. `SameReport`: the two reports agree. `TransferEnds`:
nobody waits for ever, with one exception, stated in the
property (`PhantomFile`): if the byte that is damaged is the first data byte of the last,
empty block, the receiver takes it for a header, creates a file and waits for data.

`IndexNearTheArray` answers the question of the comment `Medium.cpp:93`, "how small could
byteToCorrupt be?": -3, with no more than the three untested bytes that can follow each
other; -2 is not an invariant. (The comment one line above, "how
large could byteCount end up? (CB - 1) + 133 - CB = 132", overlooks those bytes.)

`NoLogNoFile`: all the receiver does on the disk comes after the log exists.

`InsideTheBuffers`: when name and size fill the chunk to the last byte, `index` is one past
it, `padSize` is 255 and the `memset` of line 127 runs over the CRC (written after it) and both
`blkBufs` (not in use then), but not further. `SizeCutOnlyWhenFull`: that is also the only
case in which a digit of the size is lost, as `snprintf` does not count its NUL. `NameArrives`,
`NothingStale`: the rest of the block is right in all cases.

*Data in Core and Faults.* No block of those batches ends in SOH or CAN (`FreelySafe`). With free
interleaving the medium may take the last byte of a block for the start of a message, and what follows
then depends on that byte. `Scheduled` shows that the priorities rule this out as long as `genBlk` does
not wait, for files cut out of a sequence of control bytes; the run `finding_EotEndsTheFile` shows what
happens if it waits. These are also the hypotheses of the theorems below, and TLC evaluates that the
batches of the runs satisfy them (`MCBatchesAreSendable`, `MCBatchesAreOrdinary`, `FaultyBatchesAreSafe`, `AllBatchesAreSendable`; the last
says too that some batch in the cache is not safe).

In `Scheduled` some of the files have a blank chunk inside, of which `DoneMeansStored` says nothing; the others, with the two
CTRL_Zs in different chunks or at the end of a file, are the larger part.

*Bounds.* Five blocks and two files reach every combination of (header, data, last data,
EOT, last block) with (damage, NAK, both, none); a third file starts from the same
state as a second one (`numLastGoodBlk` 255, `blkNum` 0), save for the medium's
two counters, whose values the batches of `Core` already vary. A chunk has two bytes so that it
can be partly padding, and so that the last byte and the rest of the CRC are different bytes.

`Status` takes every length around the limit
of 126 and every number of digits of a `long`; the two sums that matter, 126 and 127, occur with
many pairs of them. In `Starter` three files show a first, a middle and a last one.

*Fairness.* Weak fairness of each thread, and in `FairProgSpec` of the medium's start and T2's close. Each is a loop around a blocking read, and
the sockets of the kernel return from a read once there is data. Under the
priorities a thread that can run is only kept from running by threads of higher priority, which
all block in a read in the end (`StopAndWait`), so those executions are fair too.

### Claims of the comments that the code does not keep

One run each, with one property, and TLC's counterexample.

* `WrittenOnce`: a resent block is written twice (`ReceiverY.cpp:213`).
* `OnlyPaddingLeftOut`: a chunk of CTRL_Zs in the middle of a file is not written, and both sides report the file
  done (`ReceiverY.cpp:124`; the comments at 115 and 118 speak of padding in the last block). The counterexample also shows what the
  comment at 115 excludes, the padding of the last chunk in the file: line 125 writes `CHUNK_SZ` bytes whatever was counted.
* `CancelIsHeard`: after a failed `creat` the sender takes the receiver's two CANs for an ACK and a `'C'`, sends a block and
  waits for ever (`SenderY.cpp:264-265`; `ReceiverY.cpp:159` says that the CANs inform it).
* `AckAfterEot`: after a failed `close` the sender takes a `'C'` for the ACK and reports the file done.
* `EotEndsTheFile`: a block cut in two by a wait for the disk, whose last byte is SOH, makes the medium damage an EOT.
* `MediumEnds`: T2 closes an entry of a pair that is never made, so the sender's end of the socket stays open and the medium
  never "detects that the Term2 (sender) socket has closed" (`Medium.cpp:51`).

Seen while modelling, and visible in the modules, without a run: a damaged header is ACKed and its name used, `m_goodBlk` is not looked at
(`ReceiverY.cpp:194`; what comes of it is `NamesStayApart`); after a `close` no block is ever "expected", for `m_numLastGoodBlk + 1` is 256, so that
`m_goodBlk1st` is false from the second file on, against `ReceiverY.cpp:139-140` (`Successor`); with a base name of
126 characters and a size of one digit no digit is stored, against `SenderY.cpp:106` (`SizeCutOnlyWhenFull`); `m_goodBlk1st` stays true for a
damaged block and `m_syncLoss` is set for one (`ReceiverY.cpp:78-97`, nothing
reads them); a file whose path ends in '/' has an empty base name, which the receiver would take for the
end of the batch (`SenderY.cpp:102`); two files with one base name leave one file (`ReceiverY.cpp:134`); a damaged last block may
be taken for a header, and the receiver then waits for ever (`ReceiverY.cpp:195`); `errCnt` is never
incremented, so resends are not bounded (`SenderY.cpp:274`); "CloseError" is cut to "CloseErr" (`ReceiverY.cpp:240`);
a sender whose file is missing goes on after its CANs and ends in a failing read (`SenderY.cpp:256-262`).

## 4. The proofs

Every safety property of a passing run is proved, for every value of the constants, except
`CrcIsRemainder`. The assumptions used are those that the modules name (`ChunkSzAssumption`,
`CrcAssumption`, `BatchesAssumption`, `UninitAssumption`, `FaultsAssumption`, `MediumAssumption`,
`StatusAssumption`, `Part1Assumption`, `BufsAssumption`), and the hypotheses of section 4.2.

### 4.1 Types and resends (`YSystemProofs`)

`TypeCorrect` and `ResendsAreRight` (`ConsecutiveBlocks`) hold of `Spec` without a hypothesis: whatever
replies come, what would be resent is block k and what is prepared is block k+1, past the wrap of
`blkNum` too. Neither is inductive. `TypeOK` needs to know that a file is open when it is read
(`SenderFileInv`) or written (`ReceiverFileInv`). `ConsecutiveBlocks` needs the place in the file:
`HeaderInv` (before block 1) and `BlocksInv` (number, offset and the two buffers belong to the same k).
`IInv` is their conjunction, and every later proof starts from it. As the steps of `PrioSpec` are
steps of `Spec`, both hold under the priorities; `ProgramTypeCorrect` and `ProgramResends` hold
because the other steps of the process leave all that `IInv` speaks of but `exited` alone.

`NoFileWithoutLog` rests on `NotUpInv`: until the medium is up nothing arrives anywhere, so that the
receiver is at its first reads.

### 4.2 The dialogue (`YProtocol`, `YProtocolProofs`)

That nothing is lost, late or out of place between the four threads is `DialogueInv`. For each `sPc` it
names the *phases* in which the other three can be: where the receiver is, which bytes
travel towards it (`InFlight`) and which replies come back (`Replies`). `Travels` says how a block
does: the medium has passed 0, 1, all but the last or all of its bytes, with at most one damaged;
`Coming` says, for each reply on its way, the set it is from (an ACK may be a NAK by then). Among the
phases are the ones a reader would not expect: the `'C'` left over, the header that is taken
for the last block or the last block for a header, the receiver that has returned after a failed
`creat`, and the reply that is missing after a failed `close`.

A file that cannot be opened ends the dialogue: two CANs and a block less its last byte are sent, and the
read of a file that is not open ends the process. `AfterCans` bounds what is then left to be read by what
the receiver can still take for a header (`LeftOver`).

*Hypotheses.* With free interleaving any block may be cut in two by the medium, which then takes the
last byte for the start of a message. `FreelySafe` says that no block of a batch ends in SOH or CAN:
without it the theorems are false (`finding_EotEndsTheFile`). Under the priorities the sender is only
overtaken between the two writes if it waits for the disk, so that `ScheduledSafe` asks this only of
the batches that are not in the cache; for the rest the data is arbitrary. `FreelySendable` and `ScheduledSendable`
add that every file can be opened, where the property needs it: the names (`NamesStayApart`) cannot be told when CANs are taken for a header; with CANs there is more than a block in the
sockets (`StopAndWait`), a file ends on a CAN (`EotEndsTheFile`), and its report does not stay what it was
(`ImplementsDelivery`). The ASSUMEs of the MC modules evaluate these of the runs' batches.

From the dialogue alone follow `OneBlockAtATime` (`StopAndWait`), `WritesWhatWasSent`
(`AcceptsWhatWasSent`) and `FilesEndWithEot` (`EotEndsTheFile`), and the same of `PrioSpec`.

### 4.3 Reports, replies and the count (`YReportProofs`)

`BothReportTheSame` (`SameReport`): `ReportInv` says that each side has reported the files before the one
the sender is at, the receiver one more while the sender waits for the reply to its second EOT.
`ScheduledReplies` (`RepliesAsAssumed`): under the priorities the `'C'` that nobody reads is always
there when the last byte of the last block is sent, so that `dumpGlitches` throws it away (`UnreadInv`).
Both exclude a failed `creat` or `close`, which change the reports and the replies; writes may fail.

`IndexStaysNear` (`IndexNearTheArray`) asks that the rate of damage is at least a block and two bytes, 135;
the code has 395. `CountInv` bounds how far `m_byteCount` is past the byte to damage by which
single bytes can still come before the rest of the next block. The bound is sharp: with
`T2toT1_CORRUPT_BYTE = BLK_SZ + 1` TLC finds it violated.

### 4.4 The disk and the refinement (`YStorage`, `YDeliveryProofs`)

`Storage` proves `DiskInv`, with every disk fault, any names, and files that cannot be opened: `PlaceInv` (which file
the sender is at), `CountsInv` (how many files the receiver has and which is open) and `ChunksInv`:
the files before that one are `Complete`, and of that one the receiver `Holds` the blocks before
`blkSent`, and `blkSent` too once an ACK is on its way. The last is why a NAK made from an ACK does no
harm beyond a repeated copy, and why a file is complete when the EOT is answered. `CanceledStore`
says what is left after a file that cannot be opened. From `Storage`: `FilesArriveInOrder` (`InOrder`) and
`DoneIsNeverEarly` (`DoneMeansStored`), and both of `PrioSpec` and of `ProgSpec`, as the runs check them.

`Covers` is the subtle part. Only `written` is on the disk, and a copy of a chunk cannot be told from the next chunk if that
is the same. So after c chunks with copies, what is shown (`Merged`) may be more than the first c: what
is beyond them repeats the c-th and is still a beginning of the file. `CoversMore` proves this is kept
when the next chunk is written, `CoversAll` that after the last one nothing is beyond.

`Names` proves `NamesInv`, from `Storage` and the dialogue: the k-th record on the disk was made from the header of the k-th file of the batch,
with at most its first byte complemented (`HitName`), and one more at most from the last block. From it follows
`NoFileEmptied` (`NamesStayApart`), also of `PrioSpec` and `ProgSpec`; a batch with a file that cannot be opened is left to `Faults`.

`ImplementsBatchDelivery`, `ScheduledDelivery` and `ProgramDelivery` prove the refinement step by step. The abstract
`accepted` and `reported` are the numbers of reports, which are where the sender is (`NotedBySender`, `NotedByReceiver`).
There is one lemma per kind of step: `HeaderDelivery` (a file appears), `ChunkDelivery` (an item is added, or a
repeated copy is nothing), `AcceptDelivery` (the second EOT), `SenderDelivery` (the sender's report);
the medium's steps stutter. `creat` and `close` do not fail there, and the batches are `Ordinary` (names
apart, no blank chunk inside), for the reasons given in section 3.

`Picked` and `Merged` are recursive over data. What is needed of them (`MergedAppend`, `MergedNext`, `KeptBegins`,
`KeptIsExpected`) is proved over the set of the numbers at which two such functions differ, which has a least element (`Smallest`,
`ByInduction`).

### 4.5 The other components

`StatusBlockProofs`: `WritesStayInside` and `NameAlwaysArrives` for chunks of at least 122 bytes, the least with
which 255 bytes from one past the chunk end inside `blkBufs[1]`. `NothingStaleGoesOut` and `SizeIsCutOnce`
for 122 to 255, as `padSize` is a `uint8_t` and would leave bytes of a longer block as they were. Names and sizes are of
any length. The invariants say what `index` is at each step, what every byte of the chunk
is (`FilledInv`) and how many digits of the size were put (`DigitInv`).

`Crc16Proofs`: `DamageIsDetected`, for chunks of any size and content, is what Wire assumes (`CrcAssumption`)
proved of `updcrc` and `crc16ns`. A turn of the loop with the same bit coming in is injective modulo
2^16: the lowest bit of the result tells which top bit was tested (`TurnedParity`), and complementing the bits of 0x1021
can be undone (`XorPolyInjective`). So CRCs that differ stay apart over equal bytes (`SameByte`) and over the two
zeros. A byte and its complement take equal CRCs apart (`OtherByte`): above the bits that have come in the two agree
(`LevelRises`), the last turn tests the same top bit, and its own bits differ. `CrcInv` puts this together.

`Part1Proofs`: `NumbersAreRight` and `ReportIsAlwaysRight`, for lists and files of any length.

`BatchDeliveryProofs`: `DeliveredInOrder` and `DoneFilesComplete`; the invariant adds
`reported <= accepted <= Newest <= reported + 1`, so that only the newest file may be incomplete.

### 4.6 Model-checked only

`TransferEnds`: liveness under fairness is not for TLAPS. `CrcIsRemainder`: its reference, `Mod`, is recursive over the
degree of a polynomial. `NamesStayApart` of batches with a file that cannot be opened (`Faults`). The claims that fail are counterexamples of TLC's.

## 5. Not modelled

What the medium writes to its log, and the closes at the end of `Medium::run`, which are never reached
(`finding_MediumEnds`). The joins of the threads and the end of the process: they are in
`posixThread`, which is not in the repository. The catch in `main`. The order in memory of the
CRC's bytes (`PeerY.cpp:128`), which only another program could notice. `SEND_EXTRA_ACKS`, which is not
compiled in. The wrappers of `myIO` that nothing calls. In Part 1, `Ensc351Part1.cpp` (it calls one
sender), and the contents of blocks, which nothing sends.

## 6. Plan

Done: 1. `Wire`, `SenderY`, `ReceiverY`, `Medium`, `YSystem`, `YProperties`; 2. `YScheduled`; 3. types and resends
proved; 4. `Crc16`; 5. `BatchDelivery` and the refinement; 6. `YProgram`; 7. `StatusBlock`; 8. `Part1`; 9. theorems
about `PrioSpec`, `ProgSpec`, `BatchDelivery`, `StatusBlock`, `Part1`; 10. the dialogue and all that follows from it;
11. what is on the disk, and the refinement proved; 12. the CRC; 13. the names of the files, and what is emptied.

Next, in this order:

1. `NamesStayApart` of batches with a file that cannot be opened: what CANs and a stale block can spell as a name.
2. `StopAndWait` of `ProgSpec`, and a bound on the bytes in the sockets for batches with a file that cannot be opened.
3. `CrcIsRemainder` against a remainder that is stated without recursion (a multiple of the generator exists).
4. The sender against an arbitrary peer.
