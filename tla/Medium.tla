------------------------------- MODULE Medium -------------------------------
(***************************************************************************)
(* The "kind" medium of Medium.cpp: thread M2to1 carries the sender's      *)
(* bytes to the receiver and damages one in T2toT1_CORRUPT_BYTE of them,   *)
(* thread M1to2 carries the replies back and turns one ACK in ACK_PERIOD   *)
(* into a NAK.  The writes to the log are left out.                        *)
(***************************************************************************)
EXTENDS Wire

CONSTANTS
  T2toT1_CORRUPT_BYTE,   \* 395 in the code
  ACK_PERIOD             \* 10 in the code

VARIABLES
  mPc,           \* where MsgFromTerm2 is: "first", "can" or "soh"
  byteCount,     \* m_byteCount
  ACKreceived    \* m_ACKreceived

mVars == <<mPc, byteCount, ACKreceived>>

ASSUME MediumAssumption ==
  /\ T2toT1_CORRUPT_BYTE \in Nat /\ T2toT1_CORRUPT_BYTE > BLK_SZ
  /\ ACK_PERIOD \in Nat \ {0}

-----------------------------------------------------------------------------
\* m_byteCount once the rest of a block is added to it
CountAfterNoReset(total) == total
CountAfter(total) ==
  IF total >= T2toT1_CORRUPT_BYTE THEN total - T2toT1_CORRUPT_BYTE ELSE total

\* 0-based place, in the n bytes just read, of the byte to damage, when the
\* count (after subtracting T2toT1_CORRUPT_BYTE) is cnt.
ByteToCorrupt(n, cnt) == n - cnt

Damaged(bytes, place) ==
  [bytes EXCEPT ![place + 1] = Complement(bytes[place + 1])]

\* The first read of MsgFromTerm2: one byte, counted and forwarded.
ReadOneFromTerm2 ==
  /\ mPc = "first"
  /\ s2m # <<>>
  /\ byteCount' = byteCount + 1
  /\ m2r' = Append(m2r, Head(s2m))
  /\ s2m' = Tail(s2m)
  /\ mPc' = CASE Head(s2m) = CAN -> "can"
              [] Head(s2m) = SOH -> "soh"
              [] OTHER           -> "first"
  /\ UNCHANGED <<r2m, m2s, exited, ACKreceived>>

\* After a CAN: the CAN_LEN - 1 bytes that follow, uncounted.
ReadCans ==
  /\ mPc = "can"
  /\ s2m # <<>>
  /\ m2r' = m2r \o Taken(s2m, CAN_LEN - 1)
  /\ s2m' = Left(s2m, CAN_LEN - 1)
  /\ mPc' = "first"
  /\ UNCHANGED <<r2m, m2s, exited, byteCount, ACKreceived>>

\* After an SOH: what has arrived of the rest of a block, one byte of which is
\* complemented when the count reaches T2toT1_CORRUPT_BYTE.  A negative place
\* is outside the array: the write there may harm nothing or end the process.
ReadRestFromTerm2 ==
  LET bytes == Taken(s2m, REST_BLK_SZ)
      n     == Len(bytes)
      total == byteCount + n
      due   == total >= T2toT1_CORRUPT_BYTE
      cnt   == CountAfter(total)
      place == ByteToCorrupt(n, cnt)
      hit   == due /\ place < n
  IN /\ mPc = "soh"
     /\ s2m # <<>>
     /\ s2m' = Left(s2m, REST_BLK_SZ)
     /\ byteCount' = cnt
     /\ mPc' = "first"
     /\ \/ /\ hit /\ place >= 0
           /\ m2r' = m2r \o Damaged(bytes, place)
           /\ UNCHANGED exited
        \/ /\ ~hit \/ place < 0
           /\ m2r' = m2r \o bytes
           /\ UNCHANGED exited
        \/ /\ hit /\ place < 0
           /\ exited' = TRUE
           /\ UNCHANGED m2r
     /\ UNCHANGED <<r2m, m2s, ACKreceived>>

\* MsgFromTerm1: at most CAN_LEN bytes, of which only the first is looked at.
MsgFromTerm1 ==
  LET bytes == Taken(r2m, CAN_LEN)
      isAck == Head(bytes) = ACK
      turn  == isAck /\ (ACKreceived + 1) % ACK_PERIOD = 0
  IN /\ r2m # <<>>
     /\ r2m' = Left(r2m, CAN_LEN)
     /\ m2s' = m2s \o (IF turn THEN [bytes EXCEPT ![1] = NAK] ELSE bytes)
     /\ ACKreceived' = IF turn THEN 0
                       ELSE IF isAck THEN ACKreceived + 1 ELSE ACKreceived
     /\ UNCHANGED <<s2m, m2r, exited, mPc, byteCount>>

MediumInit ==
  /\ mPc = "first"
  /\ byteCount = 0
  /\ ACKreceived = 0

MsgFromTerm2 == ReadOneFromTerm2 \/ ReadCans \/ ReadRestFromTerm2

MediumTypeOK ==
  /\ mPc \in {"first", "can", "soh"}
  /\ byteCount \in Nat
  /\ ACKreceived \in 0..(ACK_PERIOD - 1)
=============================================================================
