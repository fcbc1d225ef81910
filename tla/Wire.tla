-------------------------------- MODULE Wire --------------------------------
(***************************************************************************)
(* What the two peers and the medium share: the constants of PeerY.h, the  *)
(* layout of a block, and the four directions of the two socket pairs      *)
(* (daSktPrT1M and daSktPrMT2 of Ensc351Part2.cpp).                        *)
(*                                                                         *)
(* A stream socket is the sequence of bytes written to it and not yet read.*)
(* A write appends all its bytes at once; a read of at most n bytes blocks *)
(* while there is none and then takes the bytes there are, n at most.      *)
(*                                                                         *)
(* A byte is a number.  The chunk of a block has CHUNK_SZ bytes (128 in    *)
(* the code) and its CRC is the parameter Crc, a pair of bytes for each    *)
(* chunk, of which only what a receiver relies on is assumed.              *)
(***************************************************************************)
EXTENDS Integers, Sequences

CONSTANTS
  CHUNK_SZ,   \* data bytes in a block
  Crc         \* Crc[chunk]: the two CRC bytes crc16ns computes for a chunk

VARIABLES
  s2m,        \* written by the sender, not yet read by the medium
  m2r,        \* written by the medium, not yet read by the receiver
  r2m,        \* written by the receiver, not yet read by the medium
  m2s,        \* written by the medium, not yet read by the sender
  exited      \* the process has called exit(): every thread is gone

wires == <<s2m, m2r, r2m, m2s, exited>>

-----------------------------------------------------------------------------
Byte   == 0..255
SOH    == 1
EOT    == 4
ACK    == 6
NAK    == 21
CAN    == 24
CTRL_Z == 26
NCG    == 67          \* 'C'

CAN_LEN      == 2
errB         == 10
CANs         == <<CAN, CAN>>

DATA_POS     == 3                      \* C index of the first data byte
BLK_SZ       == DATA_POS + CHUNK_SZ + 2
REST_BLK_SZ  == BLK_SZ - 1
Complement(b) == 255 - b

Chunk == [1..CHUNK_SZ -> Byte]
Block == [1..BLK_SZ -> Byte]

\* The block on the wire: header byte, number, its complement, data, CRC.
MakeBlk(num, chunk) == <<SOH, num, Complement(num)>> \o chunk \o Crc[chunk]

ChunkOf(blk) == [i \in 1..CHUNK_SZ |-> blk[DATA_POS + i]]
CrcOf(blk)   == <<blk[BLK_SZ - 1], blk[BLK_SZ]>>

ASSUME ChunkSzAssumption == CHUNK_SZ \in Nat \ {0, 1}

\* crc16ns is a function of the chunk, and complementing one byte of the
\* chunk always changes it: Crc16Proofs proves this of the program's crc16ns.
ASSUME CrcAssumption ==
  /\ Crc \in [Chunk -> Byte \X Byte]
  /\ \A c \in Chunk, i \in 1..CHUNK_SZ :
        Crc[[c EXCEPT ![i] = Complement(c[i])]] # Crc[c]

-----------------------------------------------------------------------------
\* read(): the first n bytes of a queue, or all of them when there are fewer.
Taken(q, n) == SubSeq(q, 1, IF Len(q) < n THEN Len(q) ELSE n)
Left(q, n)  == SubSeq(q, (IF Len(q) < n THEN Len(q) ELSE n) + 1, Len(q))

WireTypeOK ==
  /\ s2m \in Seq(Byte)
  /\ m2r \in Seq(Byte)
  /\ r2m \in Seq(Byte)
  /\ m2s \in Seq(Byte)
  /\ exited \in BOOLEAN

WireInit ==
  /\ s2m = <<>>
  /\ m2r = <<>>
  /\ r2m = <<>>
  /\ m2s = <<>>
  /\ exited = FALSE

\* The string a peer reports: a sequence of the pieces the code appends.
\* result.erase(result.size() - 2) cuts the last two characters.
Pieces == {"Done, ", "Done", "CreatError", "CloseError", "CreatErr", "CloseErr"}
Result == Seq(Pieces)
CutOne(piece) ==
  CASE piece = "Done, "     -> "Done,"
    [] piece = "CloseError" -> "CloseErro"
    [] piece = "CreatError" -> "CreatErro"
    [] OTHER                -> piece
CutTwo(piece) ==
  CASE piece = "Done, "     -> "Done"
    [] piece = "CloseError" -> "CloseErr"
    [] piece = "CreatError" -> "CreatErr"
    [] OTHER                -> piece
EraseTail(res) ==
  IF res = <<>> THEN res ELSE [res EXCEPT ![Len(res)] = CutTwo(@)]
=============================================================================
