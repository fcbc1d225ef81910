----------------------------- MODULE StatusBlock -----------------------------
(***************************************************************************)
(* genStatBlk of Part 2: how the name and the size of a file are put into  *)
(* blkBuf, step by step and with the arithmetic of the code.  The memory   *)
(* starts at blkBuf and goes on with blkBufs[0] and blkBufs[1], which      *)
(* follow it in a SenderY; a byte is known by what was written to it last. *)
(***************************************************************************)
EXTENDS Integers, FiniteSets

CONSTANTS
  CHUNK_SZ,     \* 128 in the code
  NameLengths,  \* lengths of a base name; 0 for a path that ends in '/'
  Digits        \* decimal digits of st_size

VARIABLES
  pc,
  nameLen,      \* strlen(c_basename), or -1 when fileName is ""
  digits,
  index,
  mem

sbVars == <<pc, nameLen, digits, index, mem>>

DATA_POS == 3
BLK_SZ   == DATA_POS + CHUNK_SZ + 2
PAST     == 3 * BLK_SZ                  \* the first byte after blkBufs[1]
Mem      == 0..(PAST + 2 * CHUNK_SZ)
Kinds    == {"old", "other", "num", "name", "nul", "digit", "pad", "crc"}

ASSUME StatusAssumption ==
  /\ CHUNK_SZ \in Nat \ {0}
  /\ NameLengths \subseteq Nat
  /\ Digits \subseteq Nat \ {0}

-----------------------------------------------------------------------------
\* memcpy, memset: n bytes from place at on, n being a size_t
Put(m, at, n, kind) ==
  [i \in Mem |-> IF at <= i /\ i < at + n THEN kind ELSE m[i]]

\* fileNameLengthPlus1: the bytes copied, the NUL with them
WithoutNul(len)          == len
FileNameLengthPlus1(len) == len + 1
TooLong(len)             == FileNameLengthPlus1(len) + 1 > CHUNK_SZ

\* the space for snprintf when the next free byte is at
SpaceFromBlk(at)   == CHUNK_SZ - at
SpaceAvailable(at) == CHUNK_SZ + DATA_POS - at

\* uint8_t padSize
PadShort(at) == (CHUNK_SZ + DATA_POS - at - 1) % 256
PadWide(at)  == (CHUNK_SZ + DATA_POS - at) % 65536
PadSize(at)  == (CHUNK_SZ + DATA_POS - at) % 256

\* snprintf: at most space - 1 characters, then a NUL
Printed(space) == IF digits < space THEN digits ELSE space - 1

Exit == pc' = "exit" /\ UNCHANGED <<index, mem>>

-----------------------------------------------------------------------------
\* The two bytes of the number; the empty name goes straight to the padding.
PutNumber ==
  /\ pc = "number"
  /\ mem' = Put(mem, 1, 2, "num")
  /\ pc' = IF nameLen >= 0 THEN "name" ELSE "pad"
  /\ UNCHANGED <<nameLen, digits, index>>

CopyName ==
  /\ pc = "name"
  /\ \/ TooLong(nameLen) /\ Exit
     \/ /\ ~TooLong(nameLen)
        /\ mem' = Put(Put(mem, index, FileNameLengthPlus1(nameLen), "nul"),
                      index, nameLen, "name")
        /\ index' = index + FileNameLengthPlus1(nameLen)
        /\ pc' = "size"
  /\ UNCHANGED <<nameLen, digits>>

\* stat(), which may fail although the file is open, and snprintf(); the exit
\* is also the outcome when spaceNeeded > spaceAvailable.
PutSize ==
  /\ pc = "size"
  /\ \/ Exit
     \/ /\ digits <= SpaceAvailable(index)
        /\ mem' = Put(Put(mem, index, Printed(SpaceAvailable(index)), "digit"),
                      index + Printed(SpaceAvailable(index)), 1, "nul")
        /\ index' = index + digits + 1
        /\ pc' = "pad"
  /\ UNCHANGED <<nameLen, digits>>

Pad ==
  /\ pc = "pad"
  /\ mem' = Put(mem, index, PadSize(index), "pad")
  /\ pc' = "seal"
  /\ UNCHANGED <<nameLen, digits, index>>

\* SOH and the CRC
Seal ==
  /\ pc = "seal"
  /\ mem' = Put(Put(mem, 0, 1, "num"), DATA_POS + CHUNK_SZ, 2, "crc")
  /\ pc' = "ready"
  /\ UNCHANGED <<nameLen, digits, index>>

Init ==
  /\ pc = "number"
  /\ nameLen \in NameLengths \cup {-1}
  /\ digits \in Digits
  /\ index = DATA_POS
  /\ mem = [i \in Mem |-> IF i < PAST THEN "old" ELSE "other"]

Next == PutNumber \/ CopyName \/ PutSize \/ Pad \/ Seal

Spec == Init /\ [][Next]_sbVars

-----------------------------------------------------------------------------
\* Nothing is written past the three buffers, not even when the name and the
\* size fill the block to the last byte: index is then one past the chunk and
\* padSize wraps to 255 (SenderY.cpp:126-127).
InsideTheBuffers == \A i \in Mem : i >= PAST => mem[i] = "other"

Chunk(i) == mem[DATA_POS + i]

\* What ReceiverY.cpp:134 reads as the file's name, a C string at the start of
\* the chunk, is the base name, and it ends inside the chunk.
NameArrives ==
  pc = "ready" /\ nameLen >= 0 =>
     /\ \A i \in 0..(nameLen - 1) : Chunk(i) = "name"
     /\ nameLen < CHUNK_SZ /\ Chunk(nameLen) = "nul"

\* No byte of a block goes out with what the last block left in the buffer.
NothingStale == pc = "ready" => \A i \in 0..(BLK_SZ - 1) : mem[i] # "old"

\* The whole size is in the block, except when name and size fill it exactly:
\* then snprintf has cut the last digit, for the number it returns does not
\* count the NUL and passes the test (SenderY.cpp:117-118).  With a name of 126
\* characters no digit is left, against the comment at SenderY.cpp:106.
SizeCutOnlyWhenFull ==
  pc = "ready" /\ nameLen >= 0 =>
     LET put == Cardinality({i \in Mem : mem[i] = "digit"})
     IN IF nameLen + digits = CHUNK_SZ - 1 THEN put = digits - 1 ELSE put = digits
=============================================================================
