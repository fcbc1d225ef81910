----------------------------- MODULE Crc16Proofs -----------------------------
(***************************************************************************)
(* The program's CRC of a chunk of any size tells it from the chunk with   *)
(* one byte complemented: what Wire assumes of the parameter Crc.          *)
(***************************************************************************)
EXTENDS Crc16, TLAPS

Weights == {1, 32, 4096}

LEMMA BitIsBit ==
  ASSUME NEW n \in Nat, NEW w \in {1, 32, 256, 4096, 32768}
  PROVE  Bit(n, w) \in {0, 1}
  BY DEF Bit

\* Complementing a bit twice, and modulo 2^16.
LEMMA FlipBack ==
  ASSUME NEW n \in Nat, NEW w \in Weights
  PROVE  /\ Flip(n, w) \in Nat
         /\ Bit(Flip(n, w), w) = 1 - Bit(n, w)
         /\ Flip(Flip(n, w), w) = n
<1>1. CASE w = 1
  BY <1>1 DEF Flip, Bit
<1>2. CASE w = 32
  BY <1>2 DEF Flip, Bit
<1>3. CASE w = 4096
  BY <1>3 DEF Flip, Bit
<1> QED
  BY <1>1, <1>2, <1>3 DEF Weights

LEMMA FlipModulo ==
  ASSUME NEW m \in Nat, NEW n \in Nat, NEW w \in Weights, m % 65536 = n % 65536
  PROVE  Flip(m, w) % 65536 = Flip(n, w) % 65536
<1>1. CASE w = 1
  BY <1>1 DEF Flip, Bit
<1>2. CASE w = 32
  BY <1>2 DEF Flip, Bit
<1>3. CASE w = 4096
  BY <1>3 DEF Flip, Bit
<1> QED
  BY <1>1, <1>2, <1>3 DEF Weights

LEMMA XorPolyFacts ==
  ASSUME NEW n \in Nat
  PROVE  XorPoly(n) \in Nat /\ XorPoly(n) % 2 = 1 - (n % 2)
<1> DEFINE f1 == Flip(n, 4096)
           f2 == Flip(f1, 32)
<1>1. f1 \in Nat /\ f1 % 2 = n % 2
  BY FlipBack DEF Weights, Flip, Bit
<1>2. f2 \in Nat /\ f2 % 2 = f1 % 2
  <2> HIDE DEF f1
  <2> QED
    BY <1>1, FlipBack DEF Weights, Flip, Bit
<1>3. Flip(f2, 1) \in Nat /\ Flip(f2, 1) % 2 = 1 - (f2 % 2)
  <2> HIDE DEF f2
  <2> QED
    BY <1>2, FlipBack DEF Weights, Flip, Bit
<1>4. XorPoly(n) = Flip(f2, 1)
  BY DEF XorPoly
<1> HIDE DEF f1, f2
<1> QED
  BY <1>1, <1>2, <1>3, <1>4

LEMMA XorPolyInjective ==
  ASSUME NEW m \in Nat, NEW n \in Nat, XorPoly(m) % 65536 = XorPoly(n) % 65536
  PROVE  m % 65536 = n % 65536
<1>1. ASSUME NEW w \in Weights, NEW x \in Nat, NEW y \in Nat,
             Flip(x, w) % 65536 = Flip(y, w) % 65536
      PROVE  x % 65536 = y % 65536
  <2>1. Flip(x, w) \in Nat /\ Flip(y, w) \in Nat
    BY FlipBack
  <2>2. Flip(Flip(x, w), w) % 65536 = Flip(Flip(y, w), w) % 65536
    BY <1>1, <2>1, FlipModulo
  <2>3. Flip(Flip(x, w), w) = x /\ Flip(Flip(y, w), w) = y
    BY FlipBack
  <2> QED
    BY <2>2, <2>3
<1>2. 4096 \in Weights /\ 32 \in Weights /\ 1 \in Weights
  BY DEF Weights
<1>3. /\ Flip(m, 4096) \in Nat /\ Flip(Flip(m, 4096), 32) \in Nat
      /\ Flip(n, 4096) \in Nat /\ Flip(Flip(n, 4096), 32) \in Nat
  BY <1>2, FlipBack
<1>4. Flip(Flip(Flip(m, 4096), 32), 1) % 65536 = Flip(Flip(Flip(n, 4096), 32), 1) % 65536
  BY DEF XorPoly
<1>5. Flip(Flip(m, 4096), 32) % 65536 = Flip(Flip(n, 4096), 32) % 65536
  BY <1>1, <1>2, <1>3, <1>4
<1>6. Flip(m, 4096) % 65536 = Flip(n, 4096) % 65536
  BY <1>1, <1>2, <1>3, <1>5
<1> QED
  BY <1>1, <1>2, <1>6

-----------------------------------------------------------------------------
(* One turn and one byte.  What a turn does to a CRC, given the bit that   *)
(* comes in.                                                               *)

Turned(crc, b) == IF Bit(crc, 32768) = 1 THEN XorPoly(2 * crc + b) ELSE 2 * crc + b

LEMMA TurnedType ==
  ASSUME NEW m \in Nat, NEW b \in {0, 1}
  PROVE  Turned(m, b) \in Nat
<1>1. 2 * m + b \in Nat
  OBVIOUS
<1> QED
  BY <1>1, XorPolyFacts DEF Turned

\* The lowest bit of the result.
LEMMA TurnedParity ==
  ASSUME NEW m \in Nat, NEW b \in {0, 1}
  PROVE  Turned(m, b) % 2 = IF Bit(m, 32768) = 1 THEN 1 - b ELSE b
<1>1. 2 * m + b \in Nat /\ (2 * m + b) % 2 = b
  OBVIOUS
<1> QED
  BY <1>1, XorPolyFacts DEF Turned

\* With the same bit coming in, CRCs that differ stay different.
LEMMA TurnedInjective ==
  ASSUME NEW m \in Nat, NEW n \in Nat, NEW b \in {0, 1},
         Turned(m, b) % 65536 = Turned(n, b) % 65536
  PROVE  m % 65536 = n % 65536
<1>1. Turned(m, b) % 2 = Turned(n, b) % 2
  <2>1. Turned(m, b) \in Nat /\ Turned(n, b) \in Nat
    BY TurnedType
  <2>2. \A x, y \in Nat : x % 65536 = y % 65536 => x % 2 = y % 2
    OBVIOUS
  <2> QED
    BY <2>1, <2>2
<1>2. Bit(m, 32768) = Bit(n, 32768)
  BY <1>1, TurnedParity, BitIsBit
<1>3. (2 * m + b) % 65536 = (2 * n + b) % 65536
  <2>1. 2 * m + b \in Nat /\ 2 * n + b \in Nat
    OBVIOUS
  <2>2. CASE Bit(m, 32768) = 1
    BY <1>2, <2>1, <2>2, XorPolyInjective DEF Turned
  <2>3. CASE Bit(m, 32768) # 1
    BY <1>2, <2>3 DEF Turned
  <2> QED
    BY <2>2, <2>3
<1>4. m % 32768 = n % 32768
  BY <1>3
<1>5. (m \div 32768) % 2 = (n \div 32768) % 2
  BY <1>2 DEF Bit
<1> QED
  BY <1>4, <1>5

\* What lies above the lowest bits that the turns have filled.
LEMMA FlipAbove ==
  ASSUME NEW m \in Nat, NEW n \in Nat, NEW w \in Weights,
         NEW k \in {2, 4, 8, 16, 32, 64, 128}, m \div k = n \div k
  PROVE  Flip(m, w) \div k = Flip(n, w) \div k
<1>1. CASE w = 1
  BY <1>1 DEF Flip, Bit
<1>2. CASE w = 32
  BY <1>2 DEF Flip, Bit
<1>3. CASE w = 4096
  BY <1>3 DEF Flip, Bit
<1> QED
  BY <1>1, <1>2, <1>3 DEF Weights

LEMMA TurnedAbove ==
  ASSUME NEW m \in Nat, NEW n \in Nat, NEW b \in {0, 1}, NEW c \in {0, 1},
         NEW k \in {1, 2, 4, 8, 16, 32, 64}, m \div k = n \div k
  PROVE  Turned(m, b) \div (2 * k) = Turned(n, c) \div (2 * k)
<1> DEFINE x == 2 * m + b
           y == 2 * n + c
           h == 2 * k
<1>1. x \in Nat /\ y \in Nat /\ h \in {2, 4, 8, 16, 32, 64, 128}
  OBVIOUS
<1>2. x \div h = y \div h
  OBVIOUS
<1>3. Bit(m, 32768) = Bit(n, 32768)
  BY DEF Bit
<1>4. XorPoly(x) \div h = XorPoly(y) \div h
  <2> HIDE DEF x, y, h
  <2>1. 4096 \in Weights /\ 32 \in Weights /\ 1 \in Weights
    BY DEF Weights
  <2>2. /\ Flip(x, 4096) \in Nat /\ Flip(Flip(x, 4096), 32) \in Nat
        /\ Flip(y, 4096) \in Nat /\ Flip(Flip(y, 4096), 32) \in Nat
    BY <1>1, <2>1, FlipBack
  <2>3. Flip(x, 4096) \div h = Flip(y, 4096) \div h
    BY <1>1, <1>2, <2>1, FlipAbove
  <2>4. Flip(Flip(x, 4096), 32) \div h = Flip(Flip(y, 4096), 32) \div h
    BY <1>1, <2>1, <2>2, <2>3, FlipAbove
  <2>5. Flip(Flip(Flip(x, 4096), 32), 1) \div h = Flip(Flip(Flip(y, 4096), 32), 1) \div h
    BY <1>1, <2>1, <2>2, <2>4, FlipAbove
  <2> QED
    BY <2>5 DEF XorPoly
<1>5. Turned(m, b) = (IF Bit(m, 32768) = 1 THEN XorPoly(x) ELSE x)
  BY DEF Turned
<1>6. Turned(n, c) = (IF Bit(n, 32768) = 1 THEN XorPoly(y) ELSE y)
  BY DEF Turned
<1> HIDE DEF x, y, h
<1>7. Turned(m, b) \div h = Turned(n, c) \div h
  BY <1>2, <1>3, <1>4, <1>5, <1>6
<1> QED
  BY <1>7 DEF h

-----------------------------------------------------------------------------
(* The registers of updcrc.                                                *)

Regs == [c : Nat, crc : Nat]

LEMMA ShiftInTurns ==
  ASSUME NEW r \in Regs
  PROVE  /\ ShiftIn(r) = [c |-> 2 * r.c, crc |-> Turned(r.crc, Bit(2 * r.c, 256))]
         /\ ShiftIn(r) \in Regs
         /\ ShiftIn(r).c = 2 * r.c
         /\ ShiftIn(r).crc = Turned(r.crc, Bit(2 * r.c, 256))
         /\ Bit(2 * r.c, 256) \in {0, 1}
<1>1. r.c \in Nat /\ r.crc \in Nat /\ 2 * r.c \in Nat
  BY DEF Regs
<1>2. Bit(2 * r.c, 256) \in {0, 1}
  BY <1>1, BitIsBit
<1>3. ShiftIn(r) = [c |-> 2 * r.c, crc |-> Turned(r.crc, Bit(2 * r.c, 256))]
  BY DEF ShiftIn, Turned
<1>4. Turned(r.crc, Bit(2 * r.c, 256)) \in Nat
  BY <1>1, <1>2, TurnedType
<1> QED
  BY <1>1, <1>2, <1>3, <1>4 DEF Regs

\* The same bits come in and the CRCs differ.
Apart(r, s) == r.c = s.c /\ Short(r.crc) # Short(s.crc)

LEMMA StayApart ==
  ASSUME NEW r \in Regs, NEW s \in Regs, Apart(r, s)
  PROVE  Apart(ShiftIn(r), ShiftIn(s))
<1>1. r.crc \in Nat /\ s.crc \in Nat
  BY DEF Regs
<1>2. Turned(r.crc, Bit(2 * r.c, 256)) % 65536 # Turned(s.crc, Bit(2 * s.c, 256)) % 65536
  <2>1. r.crc % 65536 # s.crc % 65536 /\ r.c = s.c
    BY SMT DEF Apart, Short
  <2> QED
    BY <1>1, <2>1, ShiftInTurns, TurnedInjective, SMT
<1> QED
  BY <1>2, ShiftInTurns, SMT DEF Apart, Short

\* The CRCs agree from the bit of weight k up.
Level(r, s, k) == r.crc \div k = s.crc \div k

LEMMA LevelRises ==
  ASSUME NEW r \in Regs, NEW s \in Regs, NEW k \in {1, 2, 4, 8, 16, 32, 64}, Level(r, s, k)
  PROVE  Level(ShiftIn(r), ShiftIn(s), 2 * k)
<1>1. r.crc \in Nat /\ s.crc \in Nat
  BY DEF Regs
<1>2. Turned(r.crc, Bit(2 * r.c, 256)) \div (2 * k) = Turned(s.crc, Bit(2 * s.c, 256)) \div (2 * k)
  BY <1>1, ShiftInTurns, TurnedAbove DEF Level
<1> QED
  BY <1>2, ShiftInTurns DEF Level

LEMMA TwoTurnsFacts ==
  ASSUME NEW r \in Regs, NEW s \in Regs
  PROVE  /\ TwoTurns(r) \in Regs /\ TwoTurns(r).c = 4 * r.c
         /\ Apart(r, s) => Apart(TwoTurns(r), TwoTurns(s))
         /\ \A k \in {1, 2, 4, 8, 16, 32} : Level(r, s, k) => Level(TwoTurns(r), TwoTurns(s), 4 * k)
<1>1. /\ ShiftIn(r) \in Regs /\ ShiftIn(s) \in Regs
      /\ ShiftIn(r).c = 2 * r.c /\ ShiftIn(ShiftIn(r)).c = 2 * ShiftIn(r).c
      /\ ShiftIn(ShiftIn(r)) \in Regs
  BY ShiftInTurns
<1>2. r.c \in Nat
  BY DEF Regs
<1>3. Apart(r, s) => Apart(ShiftIn(ShiftIn(r)), ShiftIn(ShiftIn(s)))
  BY <1>1, StayApart
<1>4. ASSUME NEW k \in {1, 2, 4, 8, 16, 32}, Level(r, s, k)
      PROVE  Level(ShiftIn(ShiftIn(r)), ShiftIn(ShiftIn(s)), 4 * k)
  <2>1. Level(ShiftIn(r), ShiftIn(s), 2 * k)
    BY <1>4, LevelRises
  <2>2. 2 * k \in {1, 2, 4, 8, 16, 32, 64} /\ 2 * (2 * k) = 4 * k
    OBVIOUS
  <2>3. Level(ShiftIn(ShiftIn(r)), ShiftIn(ShiftIn(s)), 2 * (2 * k))
    BY <1>1, <2>1, <2>2, LevelRises
  <2> QED
    BY <2>2, <2>3
<1>5. ShiftIn(ShiftIn(r)).c = 4 * r.c
  BY <1>1, <1>2
<1> QED
  BY <1>1, <1>3, <1>4, <1>5 DEF TwoTurns

LEMMA FourTurnsFacts ==
  ASSUME NEW r \in Regs, NEW s \in Regs
  PROVE  /\ FourTurns(r) \in Regs /\ FourTurns(r).c = 16 * r.c
         /\ Apart(r, s) => Apart(FourTurns(r), FourTurns(s))
         /\ Level(r, s, 1) => Level(FourTurns(r), FourTurns(s), 16)
<1>1. /\ TwoTurns(r) \in Regs /\ TwoTurns(s) \in Regs
      /\ TwoTurns(r).c = 4 * r.c /\ TwoTurns(TwoTurns(r)).c = 4 * TwoTurns(r).c
      /\ TwoTurns(TwoTurns(r)) \in Regs
  BY TwoTurnsFacts
<1>2. r.c \in Nat
  BY DEF Regs
<1>3. Apart(r, s) => Apart(TwoTurns(TwoTurns(r)), TwoTurns(TwoTurns(s)))
  BY <1>1, TwoTurnsFacts
<1>4. ASSUME Level(r, s, 1)
      PROVE  Level(TwoTurns(TwoTurns(r)), TwoTurns(TwoTurns(s)), 16)
  <2>1. Level(TwoTurns(r), TwoTurns(s), 4 * 1)
    BY <1>4, TwoTurnsFacts
  <2>2. Level(TwoTurns(TwoTurns(r)), TwoTurns(TwoTurns(s)), 4 * 4)
    BY <1>1, <2>1, TwoTurnsFacts
  <2> QED
    BY <2>2
<1>5. TwoTurns(TwoTurns(r)).c = 16 * r.c
  BY <1>1, <1>2
<1> QED
  BY <1>1, <1>3, <1>4, <1>5 DEF FourTurns

-----------------------------------------------------------------------------
(* One byte.                                                               *)

Word(x) == x \in Nat /\ x < 65536

LEMMA ShortWord ==
  /\ \A x \in Nat : Word(Short(x))
  /\ \A x : Word(x) => x \in Nat /\ Short(x) = x
  BY SMT DEF Word, Short

LEMMA ParityTells ==
  ASSUME NEW x \in Nat, NEW y \in Nat, x % 2 # y % 2
  PROVE  Short(x) # Short(y)
  BY SMT DEF Short

Loaded(c, crc) == [c |-> c, crc |-> crc]

LEMMA LoadedRegs ==
  ASSUME NEW c \in Nat, NEW crc \in Nat
  PROVE  /\ Loaded(c, crc) \in Regs
         /\ Loaded(c, crc).c = c /\ Loaded(c, crc).crc = crc
         /\ updcrc(c, crc) = Short(FourTurns(FourTurns(Loaded(c, crc))).crc)
<1>1. updcrc(c, crc) = Short(FourTurns(FourTurns(Loaded(c, crc))).crc)
  BY Zenon DEF updcrc, Loaded
<1> QED
  BY <1>1 DEF Regs, Loaded

LEMMA UpdcrcType ==
  ASSUME NEW c \in Nat, NEW crc \in Nat
  PROVE  Word(updcrc(c, crc))
<1> DEFINE x == FourTurns(FourTurns(Loaded(c, crc)))
<1>1. x \in Regs /\ updcrc(c, crc) = Short(x.crc)
  BY LoadedRegs, FourTurnsFacts
<1>2. x.crc \in Nat
  BY <1>1 DEF Regs
<1> QED
  BY <1>1, <1>2, ShortWord, Zenon

\* The same byte keeps CRCs that differ apart.
LEMMA SameByte ==
  ASSUME NEW c \in Nat, NEW m, NEW n, Word(m), Word(n), m # n
  PROVE  updcrc(c, m) # updcrc(c, n)
<1> DEFINE r == Loaded(c, m)
           s == Loaded(c, n)
<1>1. /\ m \in Nat /\ n \in Nat /\ Short(m) = m /\ Short(n) = n
  BY ShortWord
<1>2. /\ r \in Regs /\ s \in Regs /\ r.c = s.c /\ r.crc = m /\ s.crc = n
      /\ updcrc(c, m) = Short(FourTurns(FourTurns(r)).crc)
      /\ updcrc(c, n) = Short(FourTurns(FourTurns(s)).crc)
  BY <1>1, LoadedRegs
<1>3. Apart(r, s)
  BY <1>1, <1>2, Zenon DEF Apart
<1> HIDE DEF r, s
<1>4. Apart(FourTurns(FourTurns(r)), FourTurns(FourTurns(s)))
  BY <1>2, <1>3, FourTurnsFacts
<1> QED
  BY <1>2, <1>4, Zenon DEF Apart

\* A byte and its complement take equal CRCs apart: above the bits that have
\* come in the CRCs agree, so that the last turn tests the same top bit, and
\* the last bits to come in differ.
LEMMA OtherByte ==
  ASSUME NEW c \in 0..255, NEW crc, Word(crc)
  PROVE  updcrc(c, crc) # updcrc(255 - c, crc)
<1> DEFINE d  == 255 - c
           r  == Loaded(c, crc)
           s  == Loaded(d, crc)
           r4 == FourTurns(r)
           s4 == FourTurns(s)
           r7 == ShiftIn(TwoTurns(r4))
           s7 == ShiftIn(TwoTurns(s4))
<1>1. /\ r \in Regs /\ s \in Regs /\ r.crc = crc /\ s.crc = crc
      /\ r.c = c /\ s.c = d /\ d \in 0..255 /\ c \in Nat /\ d \in Nat
      /\ updcrc(c, crc) = Short(FourTurns(r4).crc)
      /\ updcrc(d, crc) = Short(FourTurns(s4).crc)
  <2>1. c \in Nat /\ d \in 0..255 /\ d \in Nat
    OBVIOUS
  <2>2. crc \in Nat
    BY ShortWord
  <2> HIDE DEF d
  <2> QED
    BY <2>1, <2>2, LoadedRegs
<1>2. Level(r, s, 1)
  BY <1>1, Zenon DEF Level
<1>3. FourTurns(r4) = ShiftIn(r7) /\ FourTurns(s4) = ShiftIn(s7)
  BY Zenon DEF FourTurns, TwoTurns
<1>4. /\ r4 \in Regs /\ s4 \in Regs /\ Level(r4, s4, 16)
      /\ r4.c = 16 * c /\ s4.c = 16 * d
  <2> HIDE DEF r, s, d
  <2> QED
    BY <1>1, <1>2, FourTurnsFacts
<1>5. /\ r7 \in Regs /\ s7 \in Regs /\ Level(r7, s7, 128)
      /\ r7.c = 128 * c /\ s7.c = 128 * d
  <2> HIDE DEF r4, s4
  <2>1. /\ TwoTurns(r4) \in Regs /\ TwoTurns(s4) \in Regs
        /\ Level(TwoTurns(r4), TwoTurns(s4), 4 * 16)
        /\ TwoTurns(r4).c = 4 * r4.c /\ TwoTurns(s4).c = 4 * s4.c
    BY <1>4, TwoTurnsFacts
  <2>2. Level(r7, s7, 2 * 64)
    BY <2>1, LevelRises
  <2>3. r7 \in Regs /\ s7 \in Regs /\ r7.c = 2 * TwoTurns(r4).c /\ s7.c = 2 * TwoTurns(s4).c
    BY <2>1, ShiftInTurns
  <2> QED
    BY <1>1, <1>4, <2>1, <2>2, <2>3
<1> HIDE DEF d, r, s, r4, s4, r7, s7
<1>6. r7.crc \in Nat /\ s7.crc \in Nat /\ Bit(r7.crc, 32768) = Bit(s7.crc, 32768)
  BY <1>5 DEF Regs, Level, Bit
<1>7. Bit(2 * r7.c, 256) = 1 - Bit(2 * s7.c, 256)
  <2>1. Bit(2 * (128 * c), 256) = c % 2 /\ Bit(2 * (128 * d), 256) = (255 - c) % 2
    BY DEF Bit, d
  <2>2. (255 - c) % 2 = 1 - (c % 2) /\ c % 2 \in {0, 1}
    OBVIOUS
  <2> QED
    BY <1>5, <2>1, <2>2
<1>8. /\ ShiftIn(r7).crc \in Nat /\ ShiftIn(s7).crc \in Nat
      /\ ShiftIn(r7).crc % 2 = 1 - (ShiftIn(s7).crc % 2)
  <2>1. /\ ShiftIn(r7).crc = Turned(r7.crc, Bit(2 * r7.c, 256)) /\ Bit(2 * r7.c, 256) \in {0, 1}
        /\ ShiftIn(s7).crc = Turned(s7.crc, Bit(2 * s7.c, 256)) /\ Bit(2 * s7.c, 256) \in {0, 1}
    BY <1>5, ShiftInTurns
  <2>2. /\ ShiftIn(r7).crc % 2 = IF Bit(r7.crc, 32768) = 1 THEN 1 - Bit(2 * r7.c, 256) ELSE Bit(2 * r7.c, 256)
        /\ ShiftIn(s7).crc % 2 = IF Bit(s7.crc, 32768) = 1 THEN 1 - Bit(2 * s7.c, 256) ELSE Bit(2 * s7.c, 256)
    BY <1>6, <2>1, TurnedParity
  <2>3. ShiftIn(r7).crc \in Nat /\ ShiftIn(s7).crc \in Nat
    BY <1>6, <2>1, TurnedType
  <2> QED
    BY <1>6, <1>7, <2>1, <2>2, <2>3
<1>9. Short(ShiftIn(r7).crc) # Short(ShiftIn(s7).crc)
  <2>1. ShiftIn(r7).crc % 2 # ShiftIn(s7).crc % 2
    BY <1>8
  <2> QED
    BY <1>8, <2>1, ParityTells
<1> QED
  BY <1>1, <1>3, <1>9 DEF d

-----------------------------------------------------------------------------
(* The loop.                                                               *)

\* The CRCs are equal as long as only bytes before the damaged one have been
\* read, and differ from then on.
CrcInv ==
  /\ buf \in Bufs /\ place \in 1..CHUNK_SZ
  /\ wcj \in -1..CHUNK_SZ
  /\ Word(oldcrc) /\ Word(dmgcrc)
  /\ IF CHUNK_SZ - wcj < place THEN oldcrc = dmgcrc ELSE oldcrc # dmgcrc

LEMMA NextCharStep ==
  ASSUME CrcInv, NextChar
  PROVE  CrcInv'
<1> DEFINE i == CHUNK_SZ - wcj + 1
           c == buf[i]
<1>1. /\ CHUNK_SZ \in Nat /\ wcj \in 1..CHUNK_SZ /\ i \in 1..CHUNK_SZ
      /\ buf \in [1..CHUNK_SZ -> 0..255] /\ wcj' = wcj - 1 /\ wcj' \in -1..CHUNK_SZ
      /\ CHUNK_SZ - wcj' = i
  <2>1. CHUNK_SZ \in Nat /\ buf \in [1..CHUNK_SZ -> 0..255]
    BY BufsAssumption DEF CrcInv
  <2>2. wcj \in -1..CHUNK_SZ /\ wcj > 0 /\ wcj' = wcj - 1
    BY DEF CrcInv, NextChar
  <2> HIDE DEF c
  <2> QED
    BY <2>1, <2>2
<1>2. c \in 0..255 /\ Damaged[i] = IF i = place THEN 255 - c ELSE c
  <2> HIDE DEF i
  <2> QED
    BY <1>1 DEF Damaged
<1>3. oldcrc' = updcrc(c, oldcrc) /\ dmgcrc' = updcrc(Damaged[i], dmgcrc)
  BY DEF NextChar, NextByte
<1>4. buf' = buf /\ place' = place
  BY DEF NextChar
<1>5. CHUNK_SZ - wcj = i - 1 /\ place \in 1..CHUNK_SZ /\ Word(oldcrc) /\ Word(dmgcrc)
  BY <1>1 DEF CrcInv
<1> HIDE DEF i, c
<1>6. Damaged[i] \in 0..255 /\ Word(oldcrc') /\ Word(dmgcrc')
  <2>1. c \in Nat /\ Damaged[i] \in 0..255 /\ Damaged[i] \in Nat
    BY <1>2
  <2>2. oldcrc \in Nat /\ dmgcrc \in Nat
    BY <1>5, ShortWord
  <2> QED
    BY <1>3, <2>1, <2>2, UpdcrcType
<1>7. IF i < place THEN oldcrc' = dmgcrc' ELSE oldcrc' # dmgcrc'
  <2>1. CASE i < place
    BY <1>1, <1>2, <1>3, <1>5, <2>1 DEF CrcInv
  <2>2. CASE i = place
    <3>1. oldcrc = dmgcrc
      BY <1>1, <1>5, <2>2 DEF CrcInv
    <3> QED
      BY <1>2, <1>3, <1>5, <2>2, <3>1, OtherByte
  <2>3. CASE i > place
    <3>1. oldcrc # dmgcrc
      BY <1>1, <1>5, <2>3 DEF CrcInv
    <3> QED
      BY <1>1, <1>2, <1>3, <1>5, <2>3, <3>1, SameByte
  <2> QED
    BY <1>1, <1>5, <2>1, <2>2, <2>3
<1> QED
  BY <1>1, <1>4, <1>6, <1>7 DEF CrcInv

LEMMA TwoZerosStep ==
  ASSUME CrcInv, TwoZeros
  PROVE  CrcInv'
<1>1. /\ CHUNK_SZ \in Nat \ {0} /\ wcj = 0 /\ place \in 1..CHUNK_SZ
      /\ Word(oldcrc) /\ Word(dmgcrc) /\ oldcrc # dmgcrc
  BY BufsAssumption DEF CrcInv, TwoZeros
<1>2. Word(updcrc(0, oldcrc)) /\ Word(updcrc(0, dmgcrc))
  BY <1>1, ShortWord, UpdcrcType
<1>3. updcrc(0, oldcrc) # updcrc(0, dmgcrc)
  BY <1>1, SameByte
<1>4. Word(oldcrc') /\ Word(dmgcrc')
  BY <1>2, ShortWord, UpdcrcType DEF TwoZeros
<1>5. oldcrc' # dmgcrc'
  BY <1>2, <1>3, SameByte DEF TwoZeros
<1>6. wcj' = -1 /\ buf' = buf /\ place' = place
  BY DEF TwoZeros
<1>7. ~(CHUNK_SZ - wcj' < place')
  BY <1>1, <1>6
<1>8. wcj' \in -1..CHUNK_SZ /\ buf' \in Bufs /\ place' \in 1..CHUNK_SZ
  BY <1>1, <1>6 DEF CrcInv
<1> QED
  BY <1>4, <1>5, <1>7, <1>8 DEF CrcInv

\* For chunks of any size and content the CRC that crc16ns computes
\* (PeerY.cpp:97-112) changes when the medium complements any one byte of the
\* chunk (Medium.cpp:95): what Wire assumes of Crc is true of the program's.
THEOREM DamageIsDetected == Spec => []DamageDetected
<1>1. Init => CrcInv
  BY BufsAssumption DEF Init, CrcInv, Word
<1>2. CrcInv /\ [Next]_vars => CrcInv'
  <2> SUFFICES ASSUME CrcInv, [Next]_vars PROVE CrcInv'
    OBVIOUS
  <2>1. CASE NextChar
    BY <2>1, NextCharStep
  <2>2. CASE TwoZeros
    BY <2>2, TwoZerosStep
  <2>3. CASE UNCHANGED vars
    BY <2>3 DEF vars, CrcInv
  <2> QED
    BY <2>1, <2>2, <2>3 DEF Next
<1>3. CrcInv => DamageDetected
  BY BufsAssumption DEF CrcInv, DamageDetected
<1> QED
  BY <1>1, <1>2, <1>3, PTL DEF Spec
=============================================================================
