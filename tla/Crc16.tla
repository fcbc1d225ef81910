-------------------------------- MODULE Crc16 --------------------------------
(***************************************************************************)
(* crc16ns and updcrc of PeerY.cpp, on a chunk of any size.                *)
(* Wire takes the CRC of a chunk as a parameter and assumes that it tells  *)
(* a chunk from the same chunk with one byte complemented; here the        *)
(* program's own CRC is computed for two such chunks side by side.         *)
(***************************************************************************)
EXTENDS Integers

CONSTANTS
  CHUNK_SZ,
  Bufs          \* the chunks given to crc16ns

VARIABLES
  buf,          \* the chunk
  place,        \* the byte of it that the medium complements
  wcj,          \* bytes left in the loop of crc16ns, -1 after the two zeros
  oldcrc,       \* the CRC so far of the chunk
  dmgcrc        \* the CRC so far of the damaged chunk

vars == <<buf, place, wcj, oldcrc, dmgcrc>>

ASSUME BufsAssumption == CHUNK_SZ \in Nat \ {0} /\ Bufs \subseteq [1..CHUNK_SZ -> 0..255]

-----------------------------------------------------------------------------
\* The bit of weight w, a power of two
Bit(n, w)  == (n \div w) % 2
Flip(n, w) == IF Bit(n, w) = 1 THEN n - w ELSE n + w

\* crc ^= 0x1021
XorPoly(crc) == Flip(Flip(Flip(crc, 4096), 32), 1)

\* One turn of the loop: the top bit of c moves into crc.  crc is unsigned
\* int and loses its bits above 15 only in the return.
ShiftIn(r) ==
  LET c       == 2 * r.c
      shifted == 2 * r.crc + Bit(c, 256)
  IN [c |-> c, crc |-> IF Bit(r.crc, 32768) = 1 THEN XorPoly(shifted) ELSE shifted]

\* The return as unsigned short
Short(n) == n % 65536

TwoTurns(r)  == ShiftIn(ShiftIn(r))
FourTurns(r) == TwoTurns(TwoTurns(r))
updcrcSevenTurns(c, crc) == Short(ShiftIn(TwoTurns(FourTurns([c |-> c, crc |-> crc]))).crc)
updcrc(c, crc)           == Short(FourTurns(FourTurns([c |-> c, crc |-> crc])).crc)

\* The byte that the loop reads when wcj bytes are left.
NextByteSkipsOne(bytes) == bytes[IF wcj = CHUNK_SZ THEN 1 ELSE CHUNK_SZ - wcj]
NextByte(bytes)         == bytes[CHUNK_SZ - wcj + 1]

Damaged == [buf EXCEPT ![place] = 255 - @]

NextChar ==
  /\ wcj > 0
  /\ oldcrc' = updcrc(NextByte(buf), oldcrc)
  /\ dmgcrc' = updcrc(NextByte(Damaged), dmgcrc)
  /\ wcj' = wcj - 1
  /\ UNCHANGED <<buf, place>>

\* The two zero bytes that end the computation
TwoZeros ==
  /\ wcj = 0
  /\ oldcrc' = updcrc(0, updcrc(0, oldcrc))
  /\ dmgcrc' = updcrc(0, updcrc(0, dmgcrc))
  /\ wcj' = -1
  /\ UNCHANGED <<buf, place>>

Init ==
  /\ buf \in Bufs
  /\ place \in 1..CHUNK_SZ
  /\ wcj = CHUNK_SZ
  /\ oldcrc = 0
  /\ dmgcrc = 0

Next == NextChar \/ TwoZeros

Spec == Init /\ [][Next]_vars

-----------------------------------------------------------------------------
\* The CRC of the chunk and that of the chunk with one byte complemented
\* differ: the receiver's comparison (ReceiverY.cpp:95) always notices what
\* the medium does to the data (Medium.cpp:95).  It is what Wire assumes.
DamageDetected == wcj = -1 => oldcrc # dmgcrc
=============================================================================
