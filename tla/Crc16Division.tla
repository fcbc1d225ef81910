---------------------------- MODULE Crc16Division ----------------------------
(***************************************************************************)
(* The reference for the CRC: polynomials over the field of two elements,  *)
(* as the sets of the exponents of their terms.  A sum is a symmetric      *)
(* difference.                                                             *)
(***************************************************************************)
EXTENDS Crc16, FiniteSetsExt

Sum2(p, q)   == (p \cup q) \ (p \cap q)
TimesX(p, k) == {e + k : e \in p}
Bits(n)      == {i \in 0..15 : Bit(n, 2^i) = 1}
Generator    == {16, 12, 5, 0}

RECURSIVE Mod(_)
Mod(p) ==
  IF p = {} \/ Max(p) < 16 THEN p ELSE Mod(Sum2(p, TimesX(Generator, Max(p) - 16)))

\* Every byte takes the CRC from a remainder r modulo x^16 + x^12 + x^5 + 1 to
\* the remainder of r * x^8 + byte, and the two zeros to that of r * x^16: the
\* shifts and bit tests of updcrc (PeerY.cpp:77-90) divide polynomials, and
\* crc16ns reads each byte of the chunk once, in order.
CrcIsRemainder ==
  [][Bits(oldcrc') =
       IF wcj' >= 0 THEN Mod(Sum2(TimesX(Bits(oldcrc), 8), Bits(buf[CHUNK_SZ - wcj'])))
                    ELSE Mod(TimesX(Bits(oldcrc), 16))]_vars
=============================================================================
