---------------------------- MODULE YReportProofs ----------------------------
(***************************************************************************)
(* What follows from the dialogue of YProtocol for the reports of the two  *)
(* peers, the replies the sender reads and the count of the medium.        *)
(***************************************************************************)
EXTENDS YProtocolProofs

USE DEF sFile, sBlk, away, flags, rStore, far

-----------------------------------------------------------------------------
(* The reports.                                                            *)

LEMMA DonesStep ==
  ASSUME NEW n \in Nat
  PROVE  /\ Append(Dones(n), "Done, ") = Dones(n + 1)
         /\ Dones(0) = <<>>
         /\ Len(Dones(n)) = n /\ Dones(n) \in Result
<1>1. /\ Dones(n) \in Seq({"Done, "}) /\ Len(Dones(n)) = n
      /\ Dones(n + 1) \in Seq({"Done, "}) /\ Len(Dones(n + 1)) = n + 1
  BY IsASeq DEF Dones
<1> DEFINE more == Append(Dones(n), "Done, ")
           S    == {"Done, "}
<1>2. /\ more \in Seq(S) /\ Len(more) = Len(Dones(n)) + 1
      /\ \A k \in 1..Len(Dones(n)) : more[k] = Dones(n)[k]
      /\ more[Len(Dones(n)) + 1] = "Done, "
  <2> DEFINE d == "Done, "
             s == Dones(n)
  <2>1. s \in Seq(S) /\ d \in S
    BY <1>1
  <2> HIDE DEF S, d, s
  <2>2. /\ Append(s, d) \in Seq(S) /\ Len(Append(s, d)) = Len(s) + 1
        /\ \A k \in 1..Len(s) : Append(s, d)[k] = s[k]
        /\ Append(s, d)[Len(s) + 1] = d
    BY <2>1, AppendProperties
  <2> QED
    BY <2>2 DEF s, d
<1>3. Len(more) = n + 1 /\ \A k \in 1..(n + 1) : more[k] = "Done, "
  <2>1. \A k \in 1..n : Dones(n)[k] = "Done, "
    BY DEF Dones
  <2> HIDE DEF more
  <2>2. \A k \in 1..(n + 1) : k \in 1..n \/ k = n + 1
    OBVIOUS
  <2> QED
    BY <1>1, <1>2, <2>1, <2>2
<1> HIDE DEF more
<1>4. \A k \in 1..(n + 1) : Dones(n + 1)[k] = "Done, "
  BY DEF Dones
<1>5. more = Dones(n + 1)
  BY <1>1, <1>2, <1>3, <1>4, SeqEqual DEF S
<1>6. Dones(0) = <<>>
  BY DEF Dones
<1>7. Dones(n) \in Result
  <2>1. "Done, " \in Pieces
    BY DEF Pieces
  <2>2. Dones(n) \in [1..n -> Pieces]
    BY <2>1 DEF Dones
  <2> QED
    BY <2>2, IsASeq DEF Result
<1> QED
  BY <1>1, <1>5, <1>6, <1>7 DEF more

\* The places at which the sender is with a file.
WithFile == {"readC", "statLast", "statAck", "statC", "blkLast", "reLast", "reply", "reReply",
             "eotNak", "eotAck"}
Ending   == {"finMost", "finLast", "finAck", "done"}

LEMMA StartReport ==
  ASSUME IInv, ReportInv, Protocol, Start, UNCHANGED <<rVars, mVars>>
  PROVE  ReportInv'
<1>1. /\ sPc = "start" /\ fileNameIndex = 0 /\ Len(batch) \in Nat /\ Len(batch) # 0
  <2>1. batch # <<>> /\ \E S : batch \in Seq(S)
    BY BatchesAssumption DEF IInv, SInv, SenderTypeOK
  <2> QED
    BY <2>1, EmptySeq, WireSeqs DEF Start, ReportInv
<1>2. /\ sPc' = "readC" /\ fileNameIndex' = 1
      /\ UNCHANGED <<batch, sResult, rResult, rPc>>
  BY <1>1 DEF Start, PrepStatBlk, rVars
<1>3. rPc \in {"ncg", "hdr1"}
  BY <1>1 DEF Protocol, BeforeHdr
<1> QED
  BY <1>1, <1>2, <1>3 DEF ReportInv, SenderReports, ReceiverReports

\* Most steps of the sender leave what it reports alone.
LEMMA SameReports ==
  ASSUME ReportInv, UNCHANGED <<rVars, batch, fileNameIndex, sResult>>,
         \/ sPc \in WithFile \ {"eotAck"} /\ sPc' \in WithFile \ {"eotAck"}
         \/ sPc \in Ending \ {"done"} /\ sPc' \in Ending \ {"done"}
  PROVE  ReportInv'
<1>1. SenderReports' = SenderReports /\ ReceiverReports' = ReceiverReports
      /\ UNCHANGED <<rPc, rResult>>
  BY DEF SenderReports, ReceiverReports, WithFile, Ending, rVars
<1> QED
  BY <1>1 DEF ReportInv, WithFile, Ending

LEMMA ReadEotNakReport ==
  ASSUME IInv, ReportInv, Protocol, ReadEotNak, UNCHANGED <<rVars, mVars>>
  PROVE  ReportInv'
<1>1. /\ sPc = "eotNak" /\ sPc' = "eotAck" /\ m2s # <<>>
      /\ UNCHANGED <<batch, fileNameIndex, sResult, rResult, rPc>>
  BY DEF ReadEotNak, ReadByte, rVars
<1>2. rPc = "eot2"
  BY <1>1, WireSeqs, NoneComing DEF Protocol, FirstEot, Replies
<1>3. SenderReports' = SenderReports /\ ReceiverReports' = ReceiverReports
  BY <1>1, <1>2 DEF SenderReports, ReceiverReports
<1> QED
  BY <1>1, <1>3 DEF ReportInv

LEMMA ReadEotAckReport ==
  ASSUME IInv, ReportInv, Protocol, ReadEotAck, UNCHANGED <<rVars, mVars>>
  PROVE  ReportInv'
<1>1. /\ sPc = "eotAck" /\ m2s # <<>> /\ sResult' = Append(sResult, "Done, ")
      /\ sPc' = (IF Len(batch) >= fileNameIndex + 1 THEN "readC" ELSE "finMost")
      /\ fileNameIndex' = fileNameIndex + 1
      /\ UNCHANGED <<batch, rResult, rPc>>
  BY DEF ReadEotAck, PrepStatBlk, ReadByte, rVars
<1>2. rPc \in {"ncg", "hdr1"}
  BY <1>1, WireSeqs, NoneComing DEF Protocol, SecondEot, Replies
<1>3. /\ fileNameIndex \in 1..Len(batch) /\ Len(batch) \in Nat
      /\ fileNameIndex - 1 \in Nat /\ (fileNameIndex - 1) + 1 = fileNameIndex
      /\ fileNameIndex' - 1 = fileNameIndex
  <2>1. fileNameIndex \in 1..Len(batch)
    BY <1>1 DEF ReportInv
  <2>2. Len(batch) \in Nat
    BY WireSeqs
  <2>3. fileNameIndex' = fileNameIndex + 1
    BY <1>1
  <2>4. fileNameIndex \in Nat /\ fileNameIndex - 1 \in Nat
    BY <2>1, <2>2
  <2> QED
    BY <2>1, <2>2, <2>3, <2>4
<1>4. sResult = Dones(fileNameIndex - 1) /\ rResult = Dones(fileNameIndex)
  BY <1>1, <1>2 DEF ReportInv, SenderReports, ReceiverReports
<1>5. sResult' = Dones(fileNameIndex)
  BY <1>1, <1>3, <1>4, DonesStep
<1>6. SenderReports' = Dones(fileNameIndex) /\ ReceiverReports' = Dones(fileNameIndex)
  BY <1>1, <1>3 DEF SenderReports, ReceiverReports
<1>7. CASE Len(batch) >= fileNameIndex + 1
  <2>1. fileNameIndex' \in 1..Len(batch') /\ sPc' = "readC"
    <3>1. fileNameIndex + 1 \in 1..Len(batch)
      BY <1>3, <1>7
    <3> QED
      BY <1>1, <1>7, <3>1
  <2> QED
    BY <1>1, <1>2, <1>4, <1>5, <1>6, <1>7, <2>1 DEF ReportInv
<1>8. CASE ~(Len(batch) >= fileNameIndex + 1)
  <2>1. fileNameIndex' = Len(batch') + 1 /\ sPc' = "finMost"
    <3>1. fileNameIndex = Len(batch)
      BY <1>3, <1>8
    <3> QED
      BY <1>1, <1>8, <3>1
  <2> QED
    BY <1>1, <1>2, <1>4, <1>5, <1>6, <1>8, <2>1 DEF ReportInv
<1> QED
  BY <1>7, <1>8

LEMMA ReadFinalAckReport ==
  ASSUME IInv, ReportInv, ReadFinalAck, UNCHANGED <<rVars, mVars>>
  PROVE  ReportInv'
<1>1. /\ sPc = "finAck" /\ sPc' = "done" /\ sResult' = EraseTail(sResult)
      /\ UNCHANGED <<batch, fileNameIndex, rResult, rPc>>
  BY DEF ReadFinalAck, rVars
<1>2. SenderReports' = SenderReports /\ ReceiverReports' = ReceiverReports
  BY <1>1 DEF SenderReports, ReceiverReports
<1> QED
  BY <1>1, <1>2 DEF ReportInv

LEMMA SenderReport ==
  ASSUME IInv, PInv, ReportInv, SenderStep, ~Canceled'
  PROVE  ReportInv'
<1>1. ~exited /\ Protocol /\ HeaderBlk /\ UNCHANGED <<rVars, mVars>>
  BY DEF SenderStep, SenderNext, PInv
<1>2. CASE ReadC
  <2>1. sFileD # -1
    BY <1>2 DEF ReadC, Canceled
  <2> QED
    BY <1>1, <1>2, <2>1, SameReports DEF ReadC, WithFile
<1>3. CASE PrepNextSendLast
  <2>1. UNCHANGED sPc \/ sPc' \in {"statAck", "reply"}
    BY <1>3 DEF PrepNextSendLast
  <2> QED
    BY <1>1, <1>3, <2>1, SameReports DEF PrepNextSendLast, WithFile
<1>4. CASE ReadStatAck \/ ReadStatC \/ ReadReply \/ ResendLast
  BY <1>1, <1>4, SameReports
     DEF ReadStatAck, ReadStatC, ReadReply, ResendLast, NextBlkOrEot, WithFile
<1>5. CASE SendFinalMost \/ SendFinalLast
  BY <1>1, <1>5, SameReports DEF SendFinalMost, SendFinalLast, Ending
<1> QED
  BY <1>1, <1>2, <1>3, <1>4, <1>5, StartReport, ReadEotNakReport, ReadEotAckReport,
     ReadFinalAckReport DEF SenderStep, SenderNext

LEMMA ReceiverReport ==
  ASSUME IInv, PInv, ReportInv, ReceiverStep, ~CreatMayFail, ~CloseMayFail
  PROVE  ReportInv'
<1>1. /\ ~exited /\ Protocol /\ UNCHANGED mPc
      /\ UNCHANGED <<batch, sPc, fileNameIndex, sResult, blkSent, blkBuf>>
  BY DEF ReceiverStep, ReceiverNext, PInv, sVars, mVars
<1>2. SenderReports' = SenderReports
  BY <1>1 DEF SenderReports
<1>3. CASE SendNCG
  <2>1. rPc = "ncg" /\ rPc' = "hdr1" /\ rResult' = rResult
    BY <1>3 DEF SendNCG
  <2>2. ReceiverReports' = ReceiverReports
    BY <1>1, <1>2, <2>1 DEF ReceiverReports
  <2> QED
    BY <1>1, <1>2, <2>1, <2>2 DEF ReportInv
<1>4. CASE ReadHdrFirst
  <2>1. rPc = "hdr1" /\ rPc' = "hdrRest" /\ rResult' = rResult /\ m2r # <<>>
    BY <1>4 DEF ReadHdrFirst, ReadFirst
  <2>2. sPc # "eotAck"
    BY <1>1, <2>1 DEF Protocol, SecondEot, Quiet
  <2>3. ReceiverReports' = ReceiverReports
    BY <1>1, <1>2, <2>1, <2>2 DEF ReceiverReports
  <2> QED
    BY <1>1, <1>2, <2>1, <2>3 DEF ReportInv
<1>5. CASE GetHdrRest
  <2>1. /\ rPc = "hdrRest"
        /\ \/ rPc' = "done" /\ rResult' = EraseTail(rResult)
           \/ rPc' = "ncg2" /\ rResult' = rResult
    BY <1>5 DEF GetHdrRest
  <2>2. ReceiverReports' = ReceiverReports
    BY <1>1, <1>2, <2>1 DEF ReceiverReports
  <2> QED
    BY <1>1, <1>2, <2>1, <2>2 DEF ReportInv
<1>6. CASE SendSecondNCG \/ ReadBlkFirst \/ GetBlkRest \/ WriteChunk
  <2>1. /\ rPc \in {"ncg2", "blk1", "blkRest", "write"}
        /\ rPc' \in {"blk1", "blkRest", "write", "eot2"} /\ rResult' = rResult
    BY <1>6 DEF SendSecondNCG, ReadBlkFirst, GetBlkRest, WriteChunk
  <2>2. ReceiverReports' = ReceiverReports
    BY <1>1, <1>2, <2>1 DEF ReceiverReports
  <2> QED
    BY <1>1, <1>2, <2>1, <2>2 DEF ReportInv
<1>7. CASE ReadSecondEot
  <2>1. rPc = "eot2" /\ rPc' = "ncg" /\ rResult' = Append(rResult, "Done, ")
    BY <1>7 DEF ReadSecondEot
  <2>2. sPc = "eotAck"
    BY <1>1, <1>7, ReadSecondEotDialogue
  <2>3. /\ fileNameIndex - 1 \in Nat /\ (fileNameIndex - 1) + 1 = fileNameIndex
    BY <2>2, WireSeqs DEF ReportInv
  <2>4. rResult = Dones(fileNameIndex - 1)
    BY <2>1, <2>2 DEF ReportInv, ReceiverReports, SenderReports
  <2>5. rResult' = Dones(fileNameIndex)
    BY <2>1, <2>3, <2>4, DonesStep
  <2>6. ReceiverReports' = Dones(fileNameIndex)
    BY <1>1, <2>1, <2>2 DEF ReceiverReports
  <2> QED
    BY <1>1, <1>2, <2>1, <2>2, <2>5, <2>6 DEF ReportInv
<1> QED
  BY <1>3, <1>4, <1>5, <1>6, <1>7 DEF ReceiverStep, ReceiverNext

LEMMA NextReportInv ==
  ASSUME IInv, PInv, ReportInv, [Next]_vars, ~Canceled', ~CreatMayFail, ~CloseMayFail
  PROVE  ReportInv'
<1>1. CASE SenderStep
  BY <1>1, SenderReport
<1>2. CASE ReceiverStep
  BY <1>2, ReceiverReport
<1>3. CASE M2to1Step \/ M1to2Step \/ UNCHANGED vars
  <2>1. UNCHANGED <<batch, sPc, fileNameIndex, sResult, rResult, rPc>>
    BY <1>3 DEF M2to1Step, M1to2Step, vars, sVars, rVars
  <2> QED
    BY <2>1 DEF ReportInv, SenderReports, ReceiverReports
<1> QED
  BY <1>1, <1>2, <1>3 DEF Next

LEMMA InitReportInv ==
  ASSUME Init
  PROVE  ReportInv
<1>1. /\ sPc = "start" /\ rPc = "ncg" /\ fileNameIndex = 0 /\ sResult = <<>> /\ rResult = <<>>
  BY DEF Init, SenderInit, ReceiverInit
<1> QED
  BY <1>1, DonesStep DEF ReportInv, SenderReports, ReceiverReports

LEMMA ReportsAgree ==
  ASSUME IInv, ReportInv
  PROVE  SameReport
<1> SUFFICES ASSUME sPc = "done", rPc = "done"
             PROVE  sResult = rResult /\ Len(sResult) = Len(batch)
  BY DEF SameReport, AllDone
<1> DEFINE n == Len(batch)
<1>1. n \in Nat /\ (n + 1) - 1 = n
  BY WireSeqs
<1>2. sResult = EraseTail(Dones(n)) /\ rResult = EraseTail(Dones(n))
  BY <1>1 DEF ReportInv, SenderReports, ReceiverReports
<1>3. Dones(n) \in Result /\ Len(Dones(n)) = n
  BY <1>1, DonesStep
<1>4. Len(EraseTail(Dones(n))) = n
  <2>1. CASE Dones(n) = <<>>
    BY <1>3, <2>1 DEF EraseTail
  <2>2. CASE Dones(n) # <<>>
    BY <1>3, <2>2, ExceptSeq DEF EraseTail, Result
  <2> QED
    BY <2>1, <2>2
<1> QED
  BY <1>2, <1>4

\* While the process is ending nothing more is reported to the sender.
LEMMA NextReports ==
  ASSUME IInv, DialogueInv, Canceled \/ ReportInv, [Next]_vars, ~CreatMayFail, ~CloseMayFail
  PROVE  Canceled' \/ ReportInv'
<1>1. CASE Canceled
  BY <1>1, CanceledStep DEF DialogueInv
<1>2. CASE ~Canceled /\ ~Canceled'
  BY <1>2, NextReportInv DEF DialogueInv
<1> QED
  BY <1>1, <1>2

\* When both peers have returned, they report the same and say of every file
\* that it is done: no reply, damaged or not, makes one of them stop a file
\* early or count one twice (Ensc351Part2.cpp:66, 74).
THEOREM BothReportTheSame ==
  ASSUME FreelySafe, ~CreatMayFail, ~CloseMayFail
  PROVE  Spec => []SameReport
<1>1. Init => Canceled \/ ReportInv
  BY InitReportInv
<1>2. (IInv /\ DialogueInv) /\ (Canceled \/ ReportInv) /\ [Next]_vars => (Canceled \/ ReportInv)'
  BY NextReports
<1>3. IInv /\ (Canceled \/ ReportInv) => SameReport
  BY ReportsAgree DEF Canceled, SameReport, AllDone
<1> QED
  BY <1>1, <1>2, <1>3, Dialogue, PTL DEF Spec

\* As BothReportTheSame, under the priorities of the program.
THEOREM ScheduledReports ==
  ASSUME ScheduledSafe, ~CreatMayFail, ~CloseMayFail
  PROVE  PrioSpec => []SameReport
<1>1. Init => Canceled \/ ReportInv
  BY InitReportInv
<1>2. (IInv /\ DialogueInv) /\ (Canceled \/ ReportInv) /\ [Next]_vars => (Canceled \/ ReportInv)'
  BY NextReports
<1>3. IInv /\ (Canceled \/ ReportInv) => SameReport
  BY ReportsAgree DEF Canceled, SameReport, AllDone
<1>4. [PrioNext]_vars => [Next]_vars
  BY PrioStep
<1> QED
  BY <1>1, <1>2, <1>3, <1>4, ScheduledDialogue, PTL DEF PrioSpec

-----------------------------------------------------------------------------
(* The replies.                                                            *)

\* A 'C' nobody has read is thrown away with the last byte of the last block.
LEMMA SenderUnread ==
  ASSUME IInv, PInv, ReportInv, UnreadInv, SenderStep
  PROVE  UnreadInv'
<1>1. ~exited /\ Protocol /\ UNCHANGED rPc /\ UNCHANGED r2m
  BY DEF SenderStep, SenderNext, PInv, rVars, Start, wires, ReadC, PrepNextSendLast, ReadStatAck,
     ReadStatC, ReadReply, ResendLast, ReadEotNak, ReadEotAck, SendFinalMost, SendFinalLast,
     ReadFinalAck
<1>2. CASE sPc' \notin {"eotAck", "finMost", "finLast", "finAck"}
  BY <1>2 DEF UnreadInv
<1>3. CASE ReadEotNak
  <2>1. sPc = "eotNak" /\ m2s # <<>> /\ m2s' = Tail(m2s)
    BY <1>3 DEF ReadEotNak, ReadByte
  <2>2. Replies(<<No>>)
    BY <1>1, <2>1, WireSeqs, NoneComing DEF Protocol, FirstEot, Replies
  <2>3. Replies(<<>>)'
    BY <1>1, <2>1, <2>2, WireSeqs, ReadReplies DEF Replies
  <2>4. m2s' = <<>>
    <3>1. m2s' \in Seq(Byte) /\ r2m \in Seq(Byte)
      BY <2>1, WireSeqs
    <3> QED
      BY <1>1, <2>3, <3>1, NoneComing DEF Replies
  <2> QED
    BY <1>3, <2>4 DEF ReadEotNak, UnreadInv
<1>4. CASE ReadEotAck
  <2>1. sPc = "eotAck" /\ m2s # <<>> /\ sPc' \in {"readC", "finMost"}
    BY <1>4 DEF ReadEotAck, ReadByte, PrepStatBlk
  <2> QED
    BY <1>1, <2>1 DEF UnreadInv
<1>5. CASE SendFinalMost
  BY <1>1, <1>5 DEF SendFinalMost, UnreadInv
<1>6. CASE SendFinalLast
  <2>1. sPc = "finLast" /\ sPc' = "finAck" /\ m2s' = <<>>
    BY <1>6 DEF SendFinalLast, SendLastByte
  <2>2. rPc' = "hdr1" /\ r2m' = <<>>
    BY <1>1, <2>1 DEF UnreadInv
  <2>3. Replies(<<>>)'
    BY <2>1, <2>2, NoneComing, EmptySeq DEF Replies
  <2> QED
    BY <2>1, <2>2, <2>3 DEF UnreadInv
<1>7. CASE Start
  <2>1. sPc' = "readC"
    <3>1. batch # <<>> /\ \E S : batch \in Seq(S)
      BY BatchesAssumption DEF IInv, SInv, SenderTypeOK
    <3>2. Len(batch) \in Nat /\ Len(batch) # 0
      BY <3>1, EmptySeq, WireSeqs
    <3>3. fileNameIndex = 0
      BY <1>7 DEF Start, ReportInv
    <3> QED
      BY <1>7, <3>2, <3>3 DEF Start, PrepStatBlk
  <2> QED
    BY <1>2, <2>1
<1>8. sPc' \notin {"eotAck", "finMost", "finLast", "finAck"} \/ Start \/ ReadEotNak \/ ReadEotAck
      \/ SendFinalMost \/ SendFinalLast
  BY DEF SenderStep, SenderNext, ReadC, PrepNextSendLast, ReadStatAck, ReadStatC, ReadReply,
     NextBlkOrEot, ResendLast, ReadFinalAck
<1> QED
  BY <1>2, <1>3, <1>4, <1>5, <1>6, <1>7, <1>8

LEMMA ReceiverUnread ==
  ASSUME IInv, PInv, UnreadInv, ReceiverStep, SenderBlocked, ~CreatMayFail
  PROVE  UnreadInv'
<1>1. ~exited /\ Protocol /\ UNCHANGED sPc /\ UNCHANGED m2s
  BY DEF ReceiverStep, ReceiverNext, PInv, sVars, SendNCG, ReadHdrFirst, GetHdrRest,
     SendSecondNCG, ReadBlkFirst, GetBlkRest, WriteChunk, ReadSecondEot
<1>2. CASE sPc = "eotAck"
  <2>1. m2s' = <<>>
    BY <1>1, <1>2 DEF SenderBlocked, ReadingPcs
  <2> QED
    BY <1>1, <1>2, <2>1 DEF UnreadInv
<1>3. CASE sPc = "finAck"
  <2>1. sPc' = "finAck"
    BY <1>1, <1>3
  <2>2. CASE ReadHdrFirst
    BY <1>1, <1>3, <2>1, <2>2 DEF ReadHdrFirst, UnreadInv, Replies
  <2>3. CASE GetHdrRest
    <3>1. rPc = "hdrRest" /\ Replies(<<>>)
      BY <1>3, <2>3 DEF GetHdrRest, UnreadInv
    <3>2. r2m' = r2m \o <<ACK>> /\ rPc' \in {"done", "ncg2"}
      BY <2>3 DEF GetHdrRest, Reply
    <3>3. Replies(<<Yes>>)'
      BY <1>1, <3>1, <3>2, Replied
    <3> QED
      BY <2>1, <3>2, <3>3 DEF UnreadInv
  <2>4. CASE SendSecondNCG
    <3>1. rPc = "ncg2" /\ Replies(<<Yes>>)
      BY <1>3, <2>4 DEF SendSecondNCG, UnreadInv
    <3>2. r2m' = r2m \o <<NCG>> /\ rPc' = "blk1"
      BY <2>4 DEF SendSecondNCG, Reply
    <3>3. Replies(<<Yes, Cs>>)'
      BY <1>1, <3>1, <3>2, Replied
    <3> QED
      BY <2>1, <3>2, <3>3 DEF UnreadInv
  <2>5. CASE ReadBlkFirst
    <3>1. rPc = "blk1" /\ m2r # <<>>
      BY <2>5 DEF ReadBlkFirst, ReadFirst
    <3> QED
      BY <1>1, <1>3, <3>1 DEF Protocol, LastComing, LastTaken, Quiet
  <2>6. ~SendNCG /\ ~GetBlkRest /\ ~WriteChunk /\ ~ReadSecondEot
    BY <1>3 DEF UnreadInv, SendNCG, GetBlkRest, WriteChunk, ReadSecondEot
  <2> QED
    BY <2>2, <2>3, <2>4, <2>5, <2>6 DEF ReceiverStep, ReceiverNext
<1>4. CASE sPc \notin {"eotAck", "finAck"}
  <2>1. sPc \notin {"finMost", "finLast"}
    BY DEF SenderBlocked, ReadingPcs
  <2> QED
    BY <1>1, <1>4, <2>1 DEF UnreadInv
<1> QED
  BY <1>2, <1>3, <1>4

\* M1to2 runs only when everyone else is blocked, and then passes an ACK
\* together with the 'C' behind it.
LEMMA MediumUnread ==
  ASSUME IInv, PInv, UnreadInv, SenderBlocked,
         ReceiverBlocked /\ (M2to1Step \/ (M2to1Blocked /\ M1to2Step))
  PROVE  UnreadInv'
<1>1. ~exited /\ Protocol /\ UNCHANGED <<sPc, rPc>>
  BY DEF M2to1Step, M1to2Step, PInv, sVars, rVars
<1>2. CASE M2to1Step
  <2>1. UNCHANGED <<r2m, m2s>>
    BY <1>2 DEF M2to1Step, MsgFromTerm2, ReadOneFromTerm2, ReadCans, ReadRestFromTerm2
  <2> QED
    BY <1>1, <2>1 DEF UnreadInv, Replies
<1>3. CASE M1to2Step /\ M2to1Blocked
  <2>1. MsgFromTerm1 /\ r2m # <<>> /\ r2m' = Left(r2m, CAN_LEN)
    BY <1>3 DEF M1to2Step, MsgFromTerm1
  <2>2. CASE sPc = "eotAck"
    <3>1. ~Replies(<<>>) /\ s2m = <<>> /\ m2s = <<>>
      BY <1>3, <2>1, <2>2, WireSeqs, NoneComing
         DEF Replies, M2to1Blocked, SenderBlocked, ReadingPcs
    <3>2. rPc # "ncg"
      BY DEF ReceiverBlocked
    <3>3. rPc = "hdr1" /\ (Replies(<<Yes, Cs>>) \/ Replies(<<Cs>>))
      BY <1>1, <2>2, <3>1, <3>2 DEF Protocol, SecondEot
    <3>4. Len(r2m) <= 2
      <4>1. Len(<<Yes, Cs>>) = 2 /\ Len(<<Cs>>) = 1 /\ Len(<<>>) = 0
        OBVIOUS
      <4>2. Len(r2m) \in Nat /\ Len(m2s) = 0
        BY <3>1, WireSeqs, LenProperties, <4>1
      <4>3. Len(m2s) + Len(r2m) = 2 \/ Len(m2s) + Len(r2m) = 1
        BY <3>3, <4>1 DEF Replies, Coming
      <4> DEFINE m == Len(m2s)
                 r == Len(r2m)
      <4>4. r \in Nat /\ m = 0 /\ (m + r = 2 \/ m + r = 1)
        BY <4>2, <4>3
      <4> HIDE DEF m, r
      <4>5. r <= 2
        BY <4>4
      <4> QED
        BY <4>5 DEF r
    <3>5. r2m' = <<>>
      <4> DEFINE k == IF Len(r2m) < CAN_LEN THEN Len(r2m) ELSE CAN_LEN
      <4>1. CAN_LEN = 2 /\ r2m \in Seq(Byte) /\ Len(r2m) \in Nat
        BY WireSeqs, LenProperties DEF CAN_LEN
      <4>2. r2m' \in Seq(Byte) /\ Len(r2m') = Len(r2m) - k
        BY <2>1, <4>1, TakenAt
      <4>3. k = Len(r2m)
        <5>1. \A n \in Nat : n <= 2 => (IF n < 2 THEN n ELSE 2) = n
          OBVIOUS
        <5> QED
          BY <3>4, <4>1, <5>1
      <4> HIDE DEF k
      <4> QED
        BY <4>1, <4>2, <4>3, EmptySeq
    <3> QED
      BY <1>1, <2>2, <3>3, <3>5 DEF UnreadInv
  <2>3. CASE sPc = "finAck"
    BY <1>1, <2>1, <2>3, RepliesPass DEF UnreadInv
  <2>4. CASE sPc \notin {"eotAck", "finAck"}
    <3>1. sPc \notin {"finMost", "finLast"}
      BY DEF SenderBlocked, ReadingPcs
    <3> QED
      BY <1>1, <2>4, <3>1 DEF UnreadInv
  <2> QED
    BY <2>2, <2>3, <2>4
<1> QED
  BY <1>2, <1>3

LEMMA NextUnread ==
  ASSUME IInv, PInv, ReportInv, UnreadInv, [PrioNext]_vars, ~CreatMayFail
  PROVE  UnreadInv'
<1>1. CASE UNCHANGED vars
  BY <1>1 DEF vars, wires, sVars, rVars, UnreadInv, Replies
<1>2. CASE PrioNext
  BY <1>2, SenderUnread, ReceiverUnread, MediumUnread DEF PrioNext
<1> QED
  BY <1>1, <1>2

\* Every byte the sender reads is the reply its comments expect there.
LEMMA ReplyIsAssumed ==
  ASSUME IInv, PInv, UnreadInv, [Next]_vars, ~CreatMayFail, ~CloseMayFail
  PROVE  [sPc' # sPc /\ sPc \in ReadingPcs => Head(m2s) \in Assumed(sPc)]_vars
<1> SUFFICES ASSUME Next, sPc' # sPc, sPc \in ReadingPcs
             PROVE  Head(m2s) \in Assumed(sPc)
  BY DEF vars, sVars
<1>1. SenderStep
  <2>1. ~ReceiverStep /\ ~M2to1Step /\ ~M1to2Step
    BY DEF ReceiverStep, M2to1Step, M1to2Step, sVars
  <2> QED
    BY <2>1 DEF Next
<1>2. m2s # <<>> /\ ~exited /\ Protocol
  BY <1>1 DEF SenderStep, SenderNext, PInv, ReadingPcs, ReadByte, Start, ReadC, PrepNextSendLast,
     ReadStatAck, ReadStatC, ReadReply, ResendLast, ReadEotNak, ReadEotAck, SendFinalMost,
     SendFinalLast, ReadFinalAck
<1>3. ~Replies(<<>>)
  BY <1>2, WireSeqs, NoneComing DEF Replies
<1>4. \A a, b :
        /\ Replies(<<a>>) => Head(m2s) \in a
        /\ Replies(<<a, b>>) => Head(m2s) \in a
  BY <1>2, WireSeqs, ReadReplies DEF Replies
<1>5. CASE sPc = "readC"
  BY <1>2, <1>3, <1>4, <1>5 DEF Protocol, BeforeHdr, Assumed, Cs
<1>6. CASE sPc = "statAck"
  BY <1>2, <1>3, <1>4, <1>6 DEF Protocol, HdrComing, HdrTaken, Assumed, Yes
<1>7. CASE sPc = "statC"
  BY <1>2, <1>3, <1>4, <1>7 DEF Protocol, HdrAnswered, Assumed, Cs
<1>8. CASE sPc \in {"reply", "reReply"}
  BY <1>2, <1>3, <1>4, <1>8 DEF Protocol, BlkComing, BlkTaken, Assumed, Yes
<1>9. CASE sPc = "eotNak"
  BY <1>2, <1>3, <1>4, <1>9 DEF Protocol, FirstEot, Assumed, No
<1>10. CASE sPc = "eotAck"
  BY <1>2, <1>3, <1>4, <1>10 DEF Protocol, SecondEot, Assumed, Yes
<1>11. CASE sPc = "finAck"
  BY <1>2, <1>3, <1>4, <1>11 DEF UnreadInv, Assumed, Yes
<1> QED
  BY <1>5, <1>6, <1>7, <1>8, <1>9, <1>10, <1>11 DEF ReadingPcs

LEMMA InitUnread ==
  ASSUME Init
  PROVE  UnreadInv
  BY DEF Init, SenderInit, UnreadInv

\* Under the priorities the comments "assuming get a ..." are right of every
\* read of the sender, the unread 'C' included (SenderY.cpp:254-289).
THEOREM ScheduledReplies ==
  ASSUME ScheduledSafe, ~CreatMayFail, ~CloseMayFail
  PROVE  PrioSpec => RepliesAsAssumed
<1>1. Init => Canceled \/ (ReportInv /\ UnreadInv)
  BY InitReportInv, InitUnread
<1>2. IInv /\ DialogueInv /\ (Canceled \/ (ReportInv /\ UnreadInv)) /\ [PrioNext]_vars
        => (Canceled \/ (ReportInv /\ UnreadInv))'
  <2> SUFFICES ASSUME IInv, DialogueInv, Canceled \/ (ReportInv /\ UnreadInv), [PrioNext]_vars,
                      ~Canceled'
               PROVE  ReportInv' /\ UnreadInv'
    OBVIOUS
  <2>1. [Next]_vars
    BY PrioStep
  <2>2. ~Canceled
    BY <2>1, CanceledStep DEF DialogueInv
  <2> QED
    BY <2>1, <2>2, NextReportInv, NextUnread DEF DialogueInv
<1>3. IInv /\ DialogueInv /\ (Canceled \/ (ReportInv /\ UnreadInv)) /\ [PrioNext]_vars
        => [sPc' # sPc /\ sPc \in ReadingPcs => Head(m2s) \in Assumed(sPc)]_vars
  <2> SUFFICES ASSUME IInv, DialogueInv, Canceled \/ (ReportInv /\ UnreadInv), [PrioNext]_vars
               PROVE  [sPc' # sPc /\ sPc \in ReadingPcs => Head(m2s) \in Assumed(sPc)]_vars
    OBVIOUS
  <2>1. [Next]_vars
    BY PrioStep
  <2>2. CASE Canceled
    BY <2>2 DEF Canceled, ReadingPcs
  <2>3. CASE ~Canceled
    BY <2>1, <2>3, ReplyIsAssumed DEF DialogueInv
  <2> QED
    BY <2>2, <2>3
<1> QED
  BY <1>1, <1>2, <1>3, ScheduledDialogue, PTL DEF PrioSpec, RepliesAsAssumed

-----------------------------------------------------------------------------
(* The count of the medium.                                                *)

\* What the medium has before it.
LEMMA BeforeMedium ==
  ASSUME IInv, Protocol, HeaderBlk, s2m # <<>>
  PROVE  \/ sPc \in {"eotNak", "eotAck"} /\ EotComing
         \/ /\ sPc \in {"statLast", "blkLast", "reLast", "finLast"}
            /\ \E blk : \E got \in {0, 1} : IsBlk(blk) /\ InFlight(blk, got, BLK_SZ - 1)
         \/ /\ sPc \in {"statAck", "reply", "reReply", "finAck", "done"}
            /\ \E blk : \E got \in {0, 1} : IsBlk(blk) /\ InFlight(blk, got, BLK_SZ)
<1>1. ~Quiet
  BY DEF Quiet
<1>2. /\ ~BeforeHdr /\ ~HdrTaken /\ ~HdrAnswered /\ ~BlkTaken /\ ~LastTaken
      /\ FirstEot \/ SecondEot => EotComing
  BY <1>1 DEF BeforeHdr, HdrTaken, HdrAnswered, BlkTaken, LastTaken, FirstEot, SecondEot
<1>3. /\ \A q : HdrComing(q) \/ BlkComing(q) => \E got \in {0, 1} : InFlight(blkSent, got, q)
      /\ LastSent => \E got \in {0, 1} : InFlight(blkBuf, got, BLK_SZ - 1)
      /\ LastComing \/ Returned => \E got \in {0, 1} : InFlight(blkBuf, got, BLK_SZ)
  BY <1>1 DEF HdrComing, BlkComing, LastSent, LastComing, Returned
<1>4. /\ sPc \in {"statLast", "statAck", "blkLast", "reLast", "reply", "reReply"} => IsBlk(blkSent)
      /\ sPc \in {"finMost", "finLast", "finAck", "done"} => IsBlk(blkBuf)
  BY SentIsBlk
<1>5. CASE sPc \in {"start", "readC", "finMost", "statC"}
  BY <1>2, <1>5 DEF Protocol
<1>6. CASE sPc \in {"eotNak", "eotAck"}
  BY <1>2, <1>6 DEF Protocol
<1>7. CASE sPc \in {"statLast", "blkLast", "reLast"}
  <2>1. \E got \in {0, 1} : InFlight(blkSent, got, BLK_SZ - 1)
    BY <1>2, <1>3, <1>7 DEF Protocol
  <2> QED
    BY <1>4, <1>7, <2>1
<1>8. CASE sPc = "finLast"
  <2>1. \E got \in {0, 1} : InFlight(blkBuf, got, BLK_SZ - 1)
    BY <1>3, <1>8 DEF Protocol
  <2> QED
    BY <1>4, <1>8, <2>1
<1>9. CASE sPc \in {"statAck", "reply", "reReply"}
  <2>1. \E got \in {0, 1} : InFlight(blkSent, got, BLK_SZ)
    BY <1>2, <1>3, <1>9 DEF Protocol
  <2> QED
    BY <1>4, <1>9, <2>1
<1>10. CASE sPc \in {"finAck", "done"}
  <2>1. \E got \in {0, 1} : InFlight(blkBuf, got, BLK_SZ)
    BY <1>2, <1>3, <1>10 DEF Protocol
  <2> QED
    BY <1>4, <1>10, <2>1
<1> QED
  BY <1>5, <1>6, <1>7, <1>8, <1>9, <1>10 DEF IInv, SInv, SenderTypeOK, SPcs, ReadingPcs

\* A byte read alone begins a block, or is the end of one.
LEMMA AloneOrSOH ==
  ASSUME IInv, NEW blk, IsBlk(blk), NEW got \in {0, 1}, NEW sent \in {BLK_SZ - 1, BLK_SZ},
         InFlight(blk, got, sent), mPc = "first", s2m # <<>>
  PROVE  Head(s2m) = SOH \/ (sent = BLK_SZ /\ Len(s2m) = 1)
<1>1. PICK p \in {0, 1, BLK_SZ - 1, BLK_SZ} :
        /\ p <= sent /\ p # 1
        /\ Len(s2m) = sent - p /\ \A i \in 1..(sent - p) : s2m[i] = blk[p + i]
  BY DEF InFlight, Travels
<1>2. blk[1] = SOH
  BY BlkBytes
<1>3. Len(s2m) # 0 /\ Head(s2m) = s2m[1]
  BY WireSeqs, EmptySeq
<1>4. CASE p = 0
  <2>1. 1 \in 1..(sent - p) /\ p + 1 = 1
    BY <1>4, BlkSz
  <2>2. s2m[1] = blk[p + 1]
    BY <1>1, <2>1
  <2> QED
    BY <1>2, <1>3, <2>1, <2>2
<1>5. CASE p \in {BLK_SZ - 1, BLK_SZ}
  BY <1>1, <1>3, <1>5, BlkSz
<1> QED
  BY <1>1, <1>4, <1>5

\* The rest of a block that is there.
LEMMA RestLength ==
  ASSUME IInv, NEW blk, IsBlk(blk), NEW got \in {0, 1}, NEW sent \in {BLK_SZ - 1, BLK_SZ},
         InFlight(blk, got, sent), mPc = "soh"
  PROVE  Len(s2m) = sent - 1 /\ Taken(s2m, REST_BLK_SZ) = s2m /\ Left(s2m, REST_BLK_SZ) = <<>>
<1>1. Len(s2m) = sent - 1
  BY DEF InFlight, Travels
<1> DEFINE k == IF Len(s2m) < REST_BLK_SZ THEN Len(s2m) ELSE REST_BLK_SZ
           n == Len(s2m)
<1>2. n \in Nat /\ REST_BLK_SZ \in Nat /\ s2m \in Seq(Byte) /\ k = n
  <2>1. n \in Nat /\ s2m \in Seq(Byte)
    BY WireSeqs, LenProperties
  <2>2. n <= REST_BLK_SZ /\ REST_BLK_SZ \in Nat
    BY <1>1, BlkSz
  <2> HIDE DEF n
  <2>3. (IF n < REST_BLK_SZ THEN n ELSE REST_BLK_SZ) = n
    BY <2>1, <2>2
  <2> QED
    BY <2>1, <2>2, <2>3 DEF n
<1>3. /\ Taken(s2m, REST_BLK_SZ) \in Seq(Byte) /\ Len(Taken(s2m, REST_BLK_SZ)) = k
      /\ \A i \in 1..k : Taken(s2m, REST_BLK_SZ)[i] = s2m[i]
      /\ Left(s2m, REST_BLK_SZ) \in Seq(Byte) /\ Len(Left(s2m, REST_BLK_SZ)) = Len(s2m) - k
  BY <1>2, TakenAt
<1> HIDE DEF k
<1>4. Taken(s2m, REST_BLK_SZ) = s2m
  BY <1>2, <1>3, SeqEqual
<1>5. Len(Left(s2m, REST_BLK_SZ)) = 0
  BY <1>2, <1>3
<1> QED
  BY <1>1, <1>3, <1>4, <1>5, EmptySeq

\* Where the count is after the rest of a block.
LEMMA CountOfRest ==
  ASSUME NEW count \in Nat, NEW n \in {BLK_SZ - 2, BLK_SZ - 1}, T2toT1_CORRUPT_BYTE >= BLK_SZ + 2,
         count - T2toT1_CORRUPT_BYTE <= 3
  PROVE  /\ CountAfter(count + n) - T2toT1_CORRUPT_BYTE <= 0
         /\ n = BLK_SZ - 2 => CountAfter(count + n) - T2toT1_CORRUPT_BYTE <= -1
  BY BlkSz, MediumAssumption DEF CountAfter

LEMMA WrittenIsThere ==
  ASSUME NEW s \in Seq(Byte), NEW blk \in Block
  PROVE  /\ s \o MostOf(blk) \in Seq(Byte) /\ s \o MostOf(blk) # <<>>
         /\ s \o <<>> \o MostOf(blk) \in Seq(Byte) /\ s \o <<>> \o MostOf(blk) # <<>>
<1> DEFINE most == MostOf(blk)
<1>1. most \in Seq(Byte) /\ Len(most) = BLK_SZ - 1
  BY MostLen
<1>2. s \o <<>> = s
  BY ConcatProperties
<1> HIDE DEF most
<1>3. /\ s \o most \in Seq(Byte) /\ Len(s \o most) = Len(s) + Len(most)
      /\ Len(s) \in Nat
  BY <1>1, ConcatAt, LenProperties
<1>4. Len(s \o most) # 0
  BY <1>1, <1>3, BlkSz
<1>5. s \o most # <<>>
  BY <1>4
<1> QED
  BY <1>2, <1>3, <1>5 DEF most

\* What a step of the sender leaves to the medium.
LEMMA SenderBound ==
  ASSUME IInv, PInv, ~Canceled', SenderStep, mPc # "soh"
  PROVE  MayBePast \in Int /\ MayBePast' \in Int /\ MayBePast <= MayBePast'
<1>1. Protocol /\ HeaderBlk /\ mPc' = mPc /\ ~exited
  BY DEF SenderStep, SenderNext, PInv, mVars
<1>2. /\ s2m \in Seq(Byte) /\ Len(s2m) \in Nat /\ (s2m = <<>> <=> Len(s2m) = 0)
      /\ blkSent \in Block /\ blkBuf \in Block
  BY WireSeqs, LenProperties, EmptySeq
<1>3. ASSUME NEW b \in Byte
      PROVE  Append(s2m, b) \in Seq(Byte) /\ Len(Append(s2m, b)) = Len(s2m) + 1 /\ Append(s2m, b) # <<>>
  BY <1>2, AppendProperties
<1>4. blkSent[BLK_SZ] \in Byte /\ blkBuf[BLK_SZ] \in Byte /\ EOT \in Byte
  <2>1. BLK_SZ \in 1..BLK_SZ
    BY BlkSz
  <2>2. \A blk \in Block : blk[BLK_SZ] \in Byte
    BY <2>1 DEF Block
  <2> QED
    BY <1>2, <2>2 DEF Byte, EOT
<1>5. CASE Start
  <2>1. sPc = "start" /\ sPc' \in {"readC", "finMost"}
    BY <1>5 DEF Start, PrepStatBlk
  <2> QED
    BY <1>1, <2>1 DEF MayBePast
<1>6. CASE ReadC \/ SendFinalMost
  <2>1. sPc \in {"readC", "finMost"} /\ sPc' \in {"statLast", "finLast"}
    BY <1>6 DEF ReadC, SendFinalMost
  <2>2. ReadC => sFileD # -1
    BY DEF ReadC, Canceled
  <2>3. s2m' # <<>>
    BY <1>2, <1>6, <2>2, WrittenIsThere DEF ReadC, SendFinalMost, SendMostNew
  <2> QED
    BY <1>1, <2>1, <2>3 DEF MayBePast
<1>7. CASE PrepNextSendLast \/ ResendLast \/ SendFinalLast
  <2>1. CASE UNCHANGED <<s2m, sPc>>
    BY <1>1, <1>2, <1>7, <2>1 DEF MayBePast, PrepNextSendLast, ResendLast, SendFinalLast
  <2>2. CASE /\ sPc \in {"statLast", "blkLast", "reLast", "finLast"}
             /\ sPc' \in {"statAck", "reply", "reReply", "finAck"}
             /\ Len(s2m') = Len(s2m) + 1
    <3>1. MayBePast = IF Len(s2m) = 0 THEN -1 ELSE 2
      BY <1>1, <1>2, <2>2 DEF MayBePast
    <3>2. MayBePast' = IF Len(s2m') > 1 THEN 2 ELSE 0 - Len(s2m')
      BY <1>1, <2>2 DEF MayBePast
    <3> QED
      BY <1>2, <2>2, <3>1, <3>2
  <2> QED
    BY <1>3, <1>4, <1>7, <2>1, <2>2
       DEF PrepNextSendLast, ResendLast, SendFinalLast, SendLastByte
<1>8. CASE ReadStatAck \/ ReadFinalAck
  <2>1. sPc \in {"statAck", "finAck"} /\ sPc' \in {"statC", "done"} /\ s2m' = s2m
    BY <1>8 DEF ReadStatAck, ReadFinalAck
  <2> QED
    BY <1>1, <1>2, <2>1 DEF MayBePast
<1>9. CASE ReadStatC \/ ReadReply
  <2>1. m2s # <<>> /\ sPc \in {"statC", "reply", "reReply"}
    BY <1>9 DEF ReadStatC, ReadReply, ReadByte
  <2>2. ~Replies(<<>>)
    BY <2>1, WireSeqs, NoneComing DEF Replies
  <2>3. s2m = <<>>
    BY <1>1, <2>1, <2>2 DEF Protocol, HdrAnswered, BlkComing, BlkTaken, Quiet
  <2>4. MayBePast = 0
    <3>1. Len(s2m) = 0
      BY <1>2, <2>3
    <3>2. MayBePast = IF Len(s2m) > 1 THEN 2 ELSE 0 - Len(s2m)
      BY <2>1 DEF MayBePast
    <3> QED
      BY <3>1, <3>2
  <2>5. \/ s2m' # <<>> /\ sPc' \in {"blkLast", "reLast"}
        \/ Len(s2m') = 1 /\ sPc' = "eotNak"
    <3>1. CASE s2m' = s2m \o MostOf(blkSent) /\ sPc' = "reLast"
      BY <1>2, <3>1, WrittenIsThere
    <3>2. CASE s2m' = s2m \o <<>> \o MostOf(blkBuf) /\ sPc' = "blkLast"
      BY <1>2, <3>2, WrittenIsThere
    <3>3. CASE s2m' = Append(s2m, EOT) /\ sPc' = "eotNak"
      <4>1. Len(s2m) = 0
        BY <1>2, <2>3
      <4> QED
        BY <1>3, <1>4, <3>3, <4>1
    <3> QED
      BY <1>9, <3>1, <3>2, <3>3 DEF ReadStatC, ReadReply, NextBlkOrEot, SendMostNew
  <2>6. MayBePast' \in {2, 0}
    BY <1>1, <2>5 DEF MayBePast
  <2> QED
    BY <2>4, <2>6
<1>10. CASE ReadEotNak
  <2>1. sPc = "eotNak" /\ sPc' = "eotAck" /\ Len(s2m') = Len(s2m) + 1
    BY <1>3, <1>4, <1>10 DEF ReadEotNak
  <2> QED
    BY <1>1, <1>2, <2>1 DEF MayBePast
<1>11. CASE ReadEotAck
  <2>1. sPc = "eotAck" /\ sPc' \in {"readC", "finMost"}
    BY <1>11 DEF ReadEotAck, PrepStatBlk
  <2> QED
    BY <1>1, <1>2, <2>1 DEF MayBePast
<1> QED
  BY <1>5, <1>6, <1>7, <1>8, <1>9, <1>10, <1>11 DEF SenderStep, SenderNext

LEMMA SenderCount ==
  ASSUME IInv, PInv, ~Canceled', CountInv, SenderStep
  PROVE  CountInv'
<1>1. /\ mPc' = mPc /\ byteCount' = byteCount
      /\ byteCount \in Nat /\ T2toT1_CORRUPT_BYTE \in Nat
  BY MediumAssumption DEF SenderStep, SenderNext, mVars, IInv, MediumTypeOK
<1>2. CASE mPc = "soh"
  BY <1>1, <1>2 DEF CountInv, MayBePast
<1>3. CASE mPc # "soh"
  <2>1. MayBePast \in Int /\ MayBePast' \in Int /\ MayBePast <= MayBePast'
    BY <1>3, SenderBound
  <2>2. byteCount - T2toT1_CORRUPT_BYTE <= MayBePast
    BY DEF CountInv
  <2>3. byteCount - T2toT1_CORRUPT_BYTE <= MayBePast'
    BY <1>1, <2>1, <2>2
  <2> QED
    BY <1>1, <2>3 DEF CountInv
<1> QED
  BY <1>2, <1>3

\* It is a block, unless the sender waits for the answer to an EOT.
LEMMA BlockBefore ==
  ASSUME IInv, Protocol, HeaderBlk, s2m # <<>>, sPc \notin {"eotNak", "eotAck"} \/ mPc = "soh"
  PROVE  \E blk : \E got \in {0, 1} : \E sent \in {BLK_SZ - 1, BLK_SZ} :
           /\ IsBlk(blk) /\ InFlight(blk, got, sent)
           /\ sent = BLK_SZ - 1 => sPc \in {"statLast", "blkLast", "reLast", "finLast"}
           /\ sent = BLK_SZ => sPc \in {"statAck", "reply", "reReply", "finAck", "done"}
<1> DEFINE most == BLK_SZ - 1
<1>1. most # BLK_SZ
  BY BlkSz
<1>2. ~(sPc \in {"eotNak", "eotAck"} /\ EotComing)
  BY DEF EotComing
<1>3. \/ /\ sPc \in {"statLast", "blkLast", "reLast", "finLast"}
         /\ \E blk : \E got \in {0, 1} : IsBlk(blk) /\ InFlight(blk, got, most)
      \/ /\ sPc \in {"statAck", "reply", "reReply", "finAck", "done"}
         /\ \E blk : \E got \in {0, 1} : IsBlk(blk) /\ InFlight(blk, got, BLK_SZ)
  BY <1>2, BeforeMedium
<1> HIDE DEF most
<1>4. CASE /\ sPc \in {"statLast", "blkLast", "reLast", "finLast"}
           /\ \E blk : \E got \in {0, 1} : IsBlk(blk) /\ InFlight(blk, got, most)
  <2>0. PICK blk : \E got \in {0, 1} : IsBlk(blk) /\ InFlight(blk, got, most)
    BY <1>4
  <2>1. PICK got \in {0, 1} : IsBlk(blk) /\ InFlight(blk, got, most)
    BY <2>0
  <2>2. \E sent \in {most, BLK_SZ} :
           /\ IsBlk(blk) /\ InFlight(blk, got, sent)
           /\ sent = most => sPc \in {"statLast", "blkLast", "reLast", "finLast"}
           /\ sent = BLK_SZ => sPc \in {"statAck", "reply", "reReply", "finAck", "done"}
    <3> WITNESS most \in {most, BLK_SZ}
    <3> QED
      BY <1>1, <1>4, <2>1
  <2> QED
    BY <2>2 DEF most
<1>5. CASE /\ sPc \in {"statAck", "reply", "reReply", "finAck", "done"}
           /\ \E blk : \E got \in {0, 1} : IsBlk(blk) /\ InFlight(blk, got, BLK_SZ)
  <2>0. PICK blk : \E got \in {0, 1} : IsBlk(blk) /\ InFlight(blk, got, BLK_SZ)
    BY <1>5
  <2>1. PICK got \in {0, 1} : IsBlk(blk) /\ InFlight(blk, got, BLK_SZ)
    BY <2>0
  <2>2. \E sent \in {most, BLK_SZ} :
           /\ IsBlk(blk) /\ InFlight(blk, got, sent)
           /\ sent = most => sPc \in {"statLast", "blkLast", "reLast", "finLast"}
           /\ sent = BLK_SZ => sPc \in {"statAck", "reply", "reReply", "finAck", "done"}
    <3> WITNESS BLK_SZ \in {most, BLK_SZ}
    <3> QED
      BY <1>1, <1>5, <2>1
  <2> QED
    BY <2>2 DEF most
<1> QED
  BY <1>3, <1>4, <1>5

\* An EOT, or a byte of a block read alone, counts for one.
LEMMA ReadOneCount ==
  ASSUME IInv, PInv, CountInv, ReadOneFromTerm2, UNCHANGED sVars, ~exited
  PROVE  CountInv'
<1>1. /\ mPc = "first" /\ s2m # <<>> /\ byteCount' = byteCount + 1 /\ s2m' = Tail(s2m)
      /\ mPc' = CASE Head(s2m) = CAN -> "can"
                  [] Head(s2m) = SOH -> "soh"
                  [] OTHER           -> "first"
      /\ sPc' = sPc /\ Protocol /\ HeaderBlk
      /\ byteCount \in Nat /\ T2toT1_CORRUPT_BYTE \in Nat
  BY MediumAssumption DEF ReadOneFromTerm2, sVars, PInv, IInv, MediumTypeOK
<1>2. /\ Len(s2m) \in Nat /\ Len(s2m) > 0 /\ s2m' \in Seq(Byte)
      /\ Len(s2m') = Len(s2m) - 1 /\ (s2m' = <<>> <=> Len(s2m') = 0)
  <2>1. s2m \in Seq(Byte) /\ s2m # <<>>
    BY <1>1, WireSeqs
  <2>2. s2m' \in Seq(Byte) /\ Len(s2m') = Len(s2m) - 1 /\ Len(s2m) \in Nat
    BY <1>1, <2>1, HeadTailProperties, LenProperties
  <2> QED
    BY <2>1, <2>2, EmptySeq
<1>3. CASE sPc \in {"eotNak", "eotAck"}
  <2>1. EotComing
    BY <1>1, <1>3, BeforeMedium
  <2>2. s2m = <<EOT>> /\ Head(s2m) = EOT
    BY <1>1, <2>1 DEF EotComing
  <2>3. mPc' = "first"
    BY <1>1, <2>2 DEF EOT, CAN, SOH
  <2>4. Len(s2m) = 1 /\ Len(s2m') = 0
    BY <1>2, <2>2
  <2>5. MayBePast' = MayBePast + 1 /\ MayBePast \in Int
    <3>1. CASE sPc = "eotNak"
      <4>1. MayBePast = 1 - Len(s2m)
        BY <1>1, <3>1 DEF MayBePast
      <4>2. MayBePast' = 1 - Len(s2m')
        BY <1>1, <2>3, <3>1 DEF MayBePast
      <4> QED
        BY <2>4, <4>1, <4>2
    <3>2. CASE sPc = "eotAck"
      BY <1>1, <2>3, <2>4, <3>2 DEF MayBePast
    <3> QED
      BY <1>3, <3>1, <3>2
  <2> HIDE DEF MayBePast
  <2>6. byteCount - T2toT1_CORRUPT_BYTE <= MayBePast
    BY DEF CountInv
  <2>7. (byteCount + 1) - T2toT1_CORRUPT_BYTE <= MayBePast + 1
    BY <1>1, <2>5, <2>6
  <2> QED
    BY <1>1, <2>5, <2>7, MediumAssumption DEF CountInv
<1>4. CASE sPc \notin {"eotNak", "eotAck"}
  <2>0. PICK blk : \E got \in {0, 1} : \E sent \in {BLK_SZ - 1, BLK_SZ} :
          /\ IsBlk(blk) /\ InFlight(blk, got, sent)
          /\ sent = BLK_SZ - 1 => sPc \in {"statLast", "blkLast", "reLast", "finLast"}
          /\ sent = BLK_SZ => sPc \in {"statAck", "reply", "reReply", "finAck", "done"}
    BY <1>1, <1>4, BlockBefore
  <2>1. PICK got \in {0, 1}, sent \in {BLK_SZ - 1, BLK_SZ} :
          /\ IsBlk(blk) /\ InFlight(blk, got, sent)
          /\ sent = BLK_SZ - 1 => sPc \in {"statLast", "blkLast", "reLast", "finLast"}
          /\ sent = BLK_SZ => sPc \in {"statAck", "reply", "reReply", "finAck", "done"}
    BY <2>0
  <2>2. Head(s2m) = SOH \/ (sent = BLK_SZ /\ Len(s2m) = 1)
    BY <1>1, <2>1, AloneOrSOH
  <2>3. CASE Head(s2m) = SOH
    <3>1. mPc' = "soh"
      BY <1>1, <2>3 DEF SOH, CAN
    <3>2. MayBePast \in Int /\ MayBePast <= 2
      BY <1>1, <1>2, <1>4, <2>1, BlkSz DEF MayBePast
    <3>3. byteCount - T2toT1_CORRUPT_BYTE <= MayBePast
      BY DEF CountInv
    <3>4. (byteCount + 1) - T2toT1_CORRUPT_BYTE <= 3
      BY <1>1, <3>2, <3>3
    <3> QED
      BY <1>1, <3>1, <3>4 DEF CountInv, MayBePast
  <2>4. CASE sent = BLK_SZ /\ Len(s2m) = 1 /\ Head(s2m) # SOH
    <3>1. MayBePast = -1
      BY <1>1, <2>1, <2>4 DEF MayBePast
    <3>2. MayBePast' = 0
      BY <1>1, <1>2, <2>1, <2>4 DEF MayBePast
    <3> QED
      BY <1>1, <3>1, <3>2 DEF CountInv
  <2> QED
    BY <2>2, <2>3, <2>4
<1> QED
  BY <1>3, <1>4

\* After the rest of a block, the count is past its end by no more than the
\* bytes of the block that did not come with it.
LEMMA ReadRestCount ==
  ASSUME IInv, PInv, CountInv, ReadRestFromTerm2, UNCHANGED sVars, ~exited,
         T2toT1_CORRUPT_BYTE >= BLK_SZ + 2
  PROVE  CountInv'
<1> DEFINE n == Len(Taken(s2m, REST_BLK_SZ))
<1>1. /\ mPc = "soh" /\ s2m # <<>> /\ byteCount' = CountAfter(byteCount + n)
      /\ s2m' = Left(s2m, REST_BLK_SZ) /\ mPc' = "first"
      /\ sPc' = sPc /\ Protocol /\ HeaderBlk
      /\ byteCount \in Nat /\ T2toT1_CORRUPT_BYTE \in Nat
  BY MediumAssumption DEF ReadRestFromTerm2, sVars, PInv, IInv, MediumTypeOK
<1>2. PICK blk : \E got \in {0, 1} : \E sent \in {BLK_SZ - 1, BLK_SZ} :
        /\ IsBlk(blk) /\ InFlight(blk, got, sent)
        /\ sent = BLK_SZ - 1 => sPc \in {"statLast", "blkLast", "reLast", "finLast"}
        /\ sent = BLK_SZ => sPc \in {"statAck", "reply", "reReply", "finAck", "done"}
  BY <1>1, BlockBefore
<1>3. PICK got \in {0, 1}, sent \in {BLK_SZ - 1, BLK_SZ} :
        /\ IsBlk(blk) /\ InFlight(blk, got, sent)
        /\ sent = BLK_SZ - 1 => sPc \in {"statLast", "blkLast", "reLast", "finLast"}
        /\ sent = BLK_SZ => sPc \in {"statAck", "reply", "reReply", "finAck", "done"}
  BY <1>2
<1>4. n = sent - 1 /\ s2m' = <<>>
  BY <1>1, <1>3, RestLength
<1> HIDE DEF n
<1>5. byteCount - T2toT1_CORRUPT_BYTE <= 3
  BY <1>1 DEF CountInv, MayBePast
<1>6. n \in {BLK_SZ - 2, BLK_SZ - 1} /\ (sent = BLK_SZ - 1 => n = BLK_SZ - 2)
  BY <1>4, BlkSz
<1>7. /\ byteCount' - T2toT1_CORRUPT_BYTE <= 0
      /\ n = BLK_SZ - 2 => byteCount' - T2toT1_CORRUPT_BYTE <= -1
  BY <1>1, <1>5, <1>6, CountOfRest
<1>8. CASE sent = BLK_SZ - 1
  <2>1. MayBePast' = -1
    BY <1>1, <1>3, <1>4, <1>8 DEF MayBePast
  <2> QED
    BY <1>6, <1>7, <1>8, <2>1 DEF CountInv
<1>9. CASE sent = BLK_SZ
  <2>1. MayBePast' = 0
    <3>1. sPc' \in {"statAck", "reply", "reReply", "finAck", "done"}
      BY <1>1, <1>3, <1>9
    <3>2. MayBePast' = IF Len(s2m') > 1 THEN 2 ELSE 0 - Len(s2m')
      BY <1>1, <3>1 DEF MayBePast
    <3>3. Len(s2m') = 0
      BY <1>4
    <3> QED
      BY <3>2, <3>3
  <2> QED
    BY <1>7, <2>1 DEF CountInv
<1> QED
  BY <1>8, <1>9

LEMMA NextCountInv ==
  ASSUME IInv, PInv, ~Canceled', CountInv, [Next]_vars, T2toT1_CORRUPT_BYTE >= BLK_SZ + 2
  PROVE  CountInv'
<1>1. CASE SenderStep
  BY <1>1, SenderCount
<1>2. CASE M2to1Step
  <2>1. UNCHANGED sVars /\ ~exited /\ MsgFromTerm2
    BY <1>2 DEF M2to1Step
  <2>2. ~ReadCans
    <3>1. Protocol /\ (s2m # <<>> => mPc # "can")
      <4>1. Protocol /\ HeaderBlk
        BY <2>1 DEF PInv
      <4>2. EotComing => mPc # "can"
        BY DEF EotComing
      <4>3. \A blk, got, sent : InFlight(blk, got, sent) => mPc # "can"
        BY DEF InFlight, Travels
      <4> QED
        BY <4>1, <4>2, <4>3, BeforeMedium
    <3> QED
      BY <3>1 DEF ReadCans
  <2> QED
    BY <2>1, <2>2, ReadOneCount, ReadRestCount DEF MsgFromTerm2
<1>3. CASE ReceiverStep \/ M1to2Step \/ UNCHANGED vars
  <2>1. UNCHANGED <<s2m, sPc, mPc, byteCount>>
    BY <1>3 DEF ReceiverStep, ReceiverNext, M1to2Step, MsgFromTerm1, vars, wires, sVars, mVars,
       SendNCG, ReadHdrFirst, GetHdrRest, GetRestBlk, SendSecondNCG, ReadBlkFirst, GetBlkRest,
       WriteChunk, ReadSecondEot
  <2> QED
    BY <2>1 DEF CountInv, MayBePast
<1> QED
  BY <1>1, <1>2, <1>3 DEF Next

LEMMA InitCountInv ==
  ASSUME Init
  PROVE  CountInv
  BY MediumAssumption DEF Init, WireInit, SenderInit, MediumInit, CountInv, MayBePast

(***************************************************************************)
(* Medium.cpp:93 asks whether byteToCorrupt can be negative.  It can, but  *)
(* never by more than the three bytes that may have come alone since the   *)
(* block before, provided the period of the damage (395) exceeds a block   *)
(* (133 bytes) by two: the write is at most three bytes before the array.  *)
(***************************************************************************)
THEOREM IndexStaysNear ==
  ASSUME FreelySendable, T2toT1_CORRUPT_BYTE >= BLK_SZ + 2
  PROVE  Spec => []IndexNearTheArray
<1>1. Init => CountInv
  BY InitCountInv
<1>2. (IInv /\ PInv) /\ (~Canceled)' /\ CountInv /\ [Next]_vars => CountInv'
  BY NextCountInv
<1>3. (IInv /\ PInv) /\ CountInv => IndexNearTheArray
  <2> SUFFICES ASSUME IInv, CountInv, mPc = "soh"
               PROVE  ByteToCorrupt(0, byteCount - T2toT1_CORRUPT_BYTE) >= -3
    BY DEF IndexNearTheArray
  <2>1. byteCount \in Nat /\ T2toT1_CORRUPT_BYTE \in Nat
    BY MediumAssumption DEF IInv, MediumTypeOK
  <2> QED
    BY <2>1 DEF CountInv, MayBePast, ByteToCorrupt
<1> QED
  BY <1>1, <1>2, <1>3, OpenDialogue, PTL DEF Spec
=============================================================================
