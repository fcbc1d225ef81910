----------------------------- MODULE Part1Proofs -----------------------------
(***************************************************************************)
(* Theorems about the sender of the starter project, for every list of     *)
(* files and every number of blocks.                                       *)
(***************************************************************************)
EXTENDS Part1, SequenceTheorems, TLAPS

File   == [openable : BOOLEAN, chunks : Nat]
Piece  == "Done, "
Report == {Piece, "Done", "OpenError"}

TypeInv ==
  /\ fileNames \in Seq(File)
  /\ pc \in {"open", "genBlk", "while", "returned", "exit"}
  /\ fileNo \in Nat \ {0}
  /\ left \in Nat
  /\ bytesRd \in {-1, 0, 1}
  /\ blkNum \in Nat
  /\ result \in Seq(Report)

\* All the files before this one could be opened and are reported done.
DoneBefore(no) ==
  /\ Len(result) = no - 1
  /\ \A k \in 1..(no - 1) : result[k] = Piece /\ fileNames[k].openable

\* Which file is being sent, and how much of it is left.
PlaceInv ==
  /\ pc = "open" => fileNo <= Len(fileNames) + 1 /\ DoneBefore(fileNo)
  /\ pc \in {"genBlk", "while"} =>
       /\ fileNo <= Len(fileNames) /\ fileNames[fileNo].openable /\ DoneBefore(fileNo)
       /\ left <= fileNames[fileNo].chunks
  /\ pc = "while" => bytesRd \in {0, 1} /\ (bytesRd = 1 => left < fileNames[fileNo].chunks)

IInv == TypeInv /\ PlaceInv /\ NumbersFollowChunks /\ ReportIsRight

-----------------------------------------------------------------------------
LEMMA InitIInv == Init => IInv
<1> SUFFICES ASSUME Init PROVE IInv
  OBVIOUS
<1>1. fileNames \in Seq(File) /\ Len(fileNames) \in Nat
  BY Part1Assumption DEF Init, File
<1>2. TypeInv
  BY <1>1 DEF Init, TypeInv
<1>3. PlaceInv
  BY <1>1 DEF Init, PlaceInv, DoneBefore
<1> QED
  BY <1>2, <1>3 DEF Init, IInv, NumbersFollowChunks, ReportIsRight


\* The file at a place of the list.
LEMMA FileAt ==
  ASSUME IInv, fileNo \in 1..Len(fileNames)
  PROVE  fileNames[fileNo].openable \in BOOLEAN /\ fileNames[fileNo].chunks \in Nat
<1>1. fileNames[fileNo] \in File
  BY ElementOfSeq DEF IInv, TypeInv
<1> QED
  BY <1>1 DEF File

\* The report once one piece is added to it.
LEMMA OneMore ==
  ASSUME IInv, NEW piece \in Report, result' = Append(result, piece), Len(result) = fileNo - 1
  PROVE  /\ result' \in Seq(Report) /\ Len(result') = fileNo
         /\ \A k \in 1..(fileNo - 1) : result'[k] = result[k]
         /\ result'[fileNo] = piece
<1>1. result \in Seq(Report) /\ fileNo \in Nat \ {0}
  BY DEF IInv, TypeInv
<1> QED
  BY <1>1, AppendProperties

LEMMA OpenFileKeeps ==
  ASSUME IInv, OpenFile
  PROVE  IInv'
<1>1. /\ pc = "open" /\ fileNo \in 1..Len(fileNames) /\ Len(fileNames) \in Nat
      /\ fileNames \in Seq(File) /\ DoneBefore(fileNo)
      /\ UNCHANGED <<fileNames, fileNo, bytesRd>>
  BY DEF OpenFile, IInv, TypeInv, PlaceInv
<1>2. fileNames[fileNo].openable \in BOOLEAN /\ fileNames[fileNo].chunks \in Nat
  BY <1>1, FileAt
<1>3. CASE fileNames[fileNo].openable
  <2>1. /\ left' = fileNames[fileNo].chunks /\ blkNum' = 0 /\ pc' = "genBlk" /\ result' = result
    BY <1>3 DEF OpenFile
  <2>2. TypeInv'
    BY <1>1, <1>2, <2>1 DEF IInv, TypeInv
  <2>3. PlaceInv'
    <3>1. DoneBefore(fileNo)'
      BY <1>1, <2>1 DEF DoneBefore
    <3>2. fileNo' <= Len(fileNames') /\ left' <= fileNames'[fileNo'].chunks
      BY <1>1, <1>2, <2>1
    <3> QED
      BY <1>1, <1>3, <2>1, <3>1, <3>2 DEF PlaceInv
  <2>4. NumbersFollowChunks'
    <3>1. (fileNames[fileNo].chunks - left)' = 0
      BY <1>1, <1>2, <2>1
    <3> QED
      BY <2>1, <3>1 DEF NumbersFollowChunks
  <2>5. ReportIsRight'
    BY <2>1 DEF ReportIsRight
  <2> QED
    BY <2>2, <2>3, <2>4, <2>5 DEF IInv
<1>4. CASE ~fileNames[fileNo].openable
  <2>1. /\ result' = Append(result, "OpenError") /\ pc' = "returned" /\ UNCHANGED <<left, blkNum>>
    BY <1>4 DEF OpenFile
  <2>2. /\ Len(result) = fileNo - 1
        /\ \A k \in 1..(fileNo - 1) : result[k] = Piece /\ fileNames[k].openable
    BY <1>1 DEF DoneBefore
  <2>3. /\ result' \in Seq(Report) /\ Len(result') = fileNo
        /\ \A k \in 1..(fileNo - 1) : result'[k] = result[k]
        /\ result'[fileNo] = "OpenError"
    BY <2>1, <2>2, OneMore DEF Report
  <2>4. TypeInv' /\ PlaceInv'
    BY <1>1, <2>1, <2>3 DEF IInv, TypeInv, PlaceInv
  <2>5. ReportIsRight'
    <3> DEFINE bad == {k \in 1..Len(fileNames) : ~fileNames[k].openable}
    <3>1. fileNo \in bad /\ \A k \in bad : fileNo <= k
      <4>1. fileNo \in bad
        BY <1>1, <1>4
      <4>2. ASSUME NEW k \in bad PROVE fileNo <= k
        <5>1. k \in 1..Len(fileNames) /\ ~fileNames[k].openable
          OBVIOUS
        <5>2. k \notin 1..(fileNo - 1)
          BY <2>2, <5>1
        <5> QED
          BY <1>1, <5>1, <5>2
      <4> QED
        BY <4>1, <4>2
    <3>2. bad # {} /\ bad' = bad
      BY <1>1, <3>1
    <3>3. \A k \in 1..fileNo : result'[k] = IF k = fileNo THEN "OpenError" ELSE Piece
      <4>1. \A k \in 1..fileNo : k = fileNo \/ k \in 1..(fileNo - 1)
        BY <1>1
      <4> QED
        BY <2>2, <2>3, <4>1
    <3> HIDE DEF bad
    <3>4. /\ Len(result)' \in bad' /\ \A k \in bad' : Len(result)' <= k
          /\ \A k \in 1..Len(result)' :
                result'[k] = IF k = Len(result)' THEN "OpenError" ELSE Piece
      BY <2>3, <3>1, <3>2, <3>3
    <3> QED
      BY <3>2, <3>4 DEF ReportIsRight, Piece, bad
  <2> QED
    BY <2>1, <2>4, <2>5 DEF IInv, NumbersFollowChunks
<1> QED
  BY <1>3, <1>4

LEMMA GenBlkKeeps ==
  ASSUME IInv, GenBlk
  PROVE  IInv'
<1>1. /\ pc = "genBlk" /\ pc' = "while" /\ left \in Nat /\ left <= fileNames[fileNo].chunks
      /\ fileNo \in 1..Len(fileNames) /\ fileNames \in Seq(File)
      /\ bytesRd' = IF left > 0 THEN 1 ELSE 0
      /\ left' = left - bytesRd'
      /\ UNCHANGED <<fileNames, fileNo, blkNum, result>>
  BY DEF GenBlk, IInv, TypeInv, PlaceInv
<1>2. fileNames[fileNo].chunks \in Nat
  BY <1>1, FileAt
<1>3. /\ left' \in Nat /\ left' <= fileNames[fileNo].chunks
      /\ bytesRd' \in {0, 1} /\ (bytesRd' = 1 => left' < fileNames[fileNo].chunks)
      /\ fileNames[fileNo].chunks - left' = (fileNames[fileNo].chunks - left) + bytesRd'
  BY <1>1, <1>2
<1>4. NumbersFollowChunks'
  <2>1. blkNum = (fileNames[fileNo].chunks - left) % 256
    BY <1>1 DEF IInv, NumbersFollowChunks
  <2>2. (IF pc' = "while" /\ bytesRd' # 0 THEN (fileNames[fileNo].chunks - left') - 1
                                        ELSE fileNames[fileNo].chunks - left')
        = fileNames[fileNo].chunks - left
    BY <1>1, <1>2, <1>3
  <2> QED
    BY <1>1, <2>1, <2>2 DEF NumbersFollowChunks
<1>5. TypeInv'
  BY <1>1, <1>3 DEF IInv, TypeInv
<1>6. PlaceInv'
  BY <1>1, <1>3 DEF IInv, PlaceInv, DoneBefore
<1> QED
  BY <1>1, <1>4, <1>5, <1>6 DEF IInv, ReportIsRight

\* Counting after the block is sent keeps the number and the place together.
LEMMA SendBlkKeeps ==
  ASSUME IInv, SendBlk
  PROVE  IInv'
<1>1. /\ pc = "while" /\ bytesRd = 1 /\ pc' = "genBlk" /\ left \in Nat
      /\ left < fileNames[fileNo].chunks
      /\ fileNo \in 1..Len(fileNames) /\ fileNames \in Seq(File)
      /\ blkNum' = (blkNum + 1) % 256 /\ blkNum \in Nat
      /\ UNCHANGED <<fileNames, fileNo, left, bytesRd, result>>
  BY DEF SendBlk, IInv, TypeInv, PlaceInv, NextNum
<1>2. fileNames[fileNo].chunks \in Nat
  BY <1>1, FileAt
<1>3. NumbersFollowChunks'
  <2> DEFINE sent == fileNames[fileNo].chunks - left - 1
  <2>1. blkNum = sent % 256
    BY <1>1 DEF IInv, NumbersFollowChunks
  <2>2. sent \in Nat /\ fileNames[fileNo].chunks - left = sent + 1
    BY <1>1, <1>2
  <2> HIDE DEF sent
  <2>3. ((sent % 256) + 1) % 256 = (sent + 1) % 256
    BY <2>2
  <2>4. blkNum' = (fileNames[fileNo].chunks - left) % 256
    BY <1>1, <2>1, <2>2, <2>3
  <2> QED
    BY <1>1, <2>4 DEF NumbersFollowChunks
<1>4. TypeInv'
  BY <1>1 DEF IInv, TypeInv
<1>5. PlaceInv'
  BY <1>1 DEF IInv, PlaceInv, DoneBefore
<1> QED
  BY <1>1, <1>3, <1>4, <1>5 DEF IInv, ReportIsRight

LEMMA CloseFileKeeps ==
  ASSUME IInv, CloseFile
  PROVE  IInv'
<1>1. /\ pc = "while" /\ pc' = "open" /\ fileNo' = fileNo + 1
      /\ fileNo \in 1..Len(fileNames) /\ Len(fileNames) \in Nat
      /\ result' = Append(result, Piece)
      /\ UNCHANGED <<fileNames, left, bytesRd, blkNum>>
  <2>1. /\ pc = "while" /\ pc' = "open" /\ fileNo' = fileNo + 1 /\ result' = Append(result, Piece)
        /\ UNCHANGED <<fileNames, left, bytesRd, blkNum>>
    BY DEF CloseFile, Piece
  <2>2. fileNo \in Nat \ {0} /\ fileNo <= Len(fileNames) /\ fileNames \in Seq(File)
    BY <2>1 DEF IInv, TypeInv, PlaceInv
  <2> QED
    BY <2>1, <2>2, LenProperties
<1>2. fileNames[fileNo].openable /\ DoneBefore(fileNo)
  BY <1>1 DEF IInv, PlaceInv
<1>3. /\ Len(result) = fileNo - 1
      /\ \A k \in 1..(fileNo - 1) : result[k] = Piece /\ fileNames[k].openable
  BY <1>2 DEF DoneBefore
<1>4. /\ result' \in Seq(Report) /\ Len(result') = fileNo
      /\ \A k \in 1..(fileNo - 1) : result'[k] = result[k]
      /\ result'[fileNo] = Piece
  BY <1>1, <1>3, OneMore DEF Report
<1>5. fileNo' - 1 = fileNo /\ fileNo' <= Len(fileNames) + 1
  BY <1>1
<1>6. \A k \in 1..fileNo : result'[k] = Piece /\ fileNames[k].openable
  <2>1. \A k \in 1..fileNo : k = fileNo \/ k \in 1..(fileNo - 1)
    BY <1>1
  <2>2. \A k \in 1..(fileNo - 1) : result'[k] = Piece /\ fileNames[k].openable
    BY <1>3, <1>4
  <2> QED
    BY <1>4, <1>2, <2>1, <2>2
<1>7. PlaceInv'
  <2>1. DoneBefore(fileNo)'
    BY <1>1, <1>4, <1>5, <1>6 DEF DoneBefore
  <2> QED
    BY <1>1, <1>5, <2>1 DEF PlaceInv
<1>8. TypeInv'
  BY <1>1, <1>4 DEF IInv, TypeInv
<1> QED
  BY <1>1, <1>7, <1>8 DEF IInv, NumbersFollowChunks, ReportIsRight

LEMMA EndBatchKeeps ==
  ASSUME IInv, EndBatch
  PROVE  IInv'
<1> DEFINE n == Len(fileNames)
<1>1. /\ pc = "open" /\ pc' = "returned" /\ n \in Nat
      /\ blkNum' = 0 /\ result' = CutTail(result) /\ result \in Seq(Report)
      /\ Len(result) = n
      /\ \A k \in 1..n : result[k] = Piece /\ fileNames[k].openable
      /\ UNCHANGED <<fileNames, fileNo, left, bytesRd>>
  <2>1. fileNo = n + 1 /\ n \in Nat /\ fileNo - 1 = n /\ DoneBefore(fileNo)
    BY DEF EndBatch, IInv, TypeInv, PlaceInv
  <2>2. Len(result) = n /\ \A k \in 1..n : result[k] = Piece /\ fileNames[k].openable
    BY <2>1 DEF DoneBefore
  <2> QED
    BY <2>1, <2>2 DEF EndBatch, IInv, TypeInv
<1>2. /\ result' \in Seq(Report) /\ Len(result') = n
      /\ \A k \in 1..n : result'[k] = IF k = n THEN "Done" ELSE Piece
  <2> HIDE DEF n
  <2>0. n \in Nat /\ Len(result) = n /\ result \in Seq(Report) /\ result' = CutTail(result)
        /\ \A k \in 1..n : result[k] = Piece
    BY <1>1
  <2>1. CASE result = <<>>
    <3>1. n = 0 /\ result' = <<>>
      BY <2>0, <2>1 DEF CutTail
    <3> QED
      BY <3>1
  <2>2. CASE result # <<>>
    <3>1. result' = [result EXCEPT ![Len(result)] = "Done"] /\ "Done" \in Report
      BY <2>0, <2>2 DEF CutTail, Report
    <3>2. Len(result) \in Nat \ {0}
      BY <2>0, <2>2, EmptySeq
    <3>3. Len(result) \in 1..Len(result)
      BY <3>2
    <3>4. /\ result' \in Seq(Report) /\ Len(result') = Len(result)
          /\ \A k \in 1..Len(result) :
                result'[k] = IF k = Len(result) THEN "Done" ELSE result[k]
      BY <2>0, <3>1, <3>3, ExceptSeq
    <3> QED
      BY <2>0, <3>2, <3>4
  <2> QED
    BY <2>1, <2>2
<1>3. ReportIsRight'
  <2> DEFINE bad == {k \in 1..n : ~fileNames[k].openable}
  <2>1. bad' = {}
    BY <1>1
  <2> QED
    BY <1>1, <1>2, <2>1 DEF ReportIsRight, Piece
<1>4. TypeInv' /\ PlaceInv'
  BY <1>1, <1>2 DEF IInv, TypeInv, PlaceInv
<1> QED
  BY <1>1, <1>3, <1>4 DEF IInv, NumbersFollowChunks

LEMMA NextIInv == IInv /\ [Next]_p1Vars => IInv'
<1> SUFFICES ASSUME IInv, [Next]_p1Vars PROVE IInv'
  OBVIOUS
<1>1. CASE Exit
  <2>1. TypeInv' /\ PlaceInv'
    BY <1>1 DEF Exit, IInv, TypeInv, PlaceInv
  <2> QED
    BY <1>1, <2>1 DEF Exit, IInv, NumbersFollowChunks, ReportIsRight
<1>2. CASE UNCHANGED p1Vars
  BY <1>2 DEF p1Vars, IInv, TypeInv, PlaceInv, DoneBefore, NumbersFollowChunks, ReportIsRight
<1> QED
  BY <1>1, <1>2, OpenFileKeeps, GenBlkKeeps, SendBlkKeeps, CloseFileKeeps, EndBatchKeeps DEF Next

LEMMA AlwaysIInv == Spec => []IInv
  BY InitIInv, NextIInv, PTL DEF Spec

\* The number of every block of every file is the place of its chunk modulo
\* 256, for files of any length (SenderY.cpp:113, 139-149 of Part 1).
THEOREM NumbersAreRight == Spec => []NumbersFollowChunks
<1>1. IInv => NumbersFollowChunks
  BY DEF IInv
<1> QED
  BY <1>1, AlwaysIInv, PTL

\* The report has one "Done" for each of exactly the files before the first
\* that cannot be opened, for lists of any length (SenderY.cpp:122-164).
THEOREM ReportIsAlwaysRight == Spec => []ReportIsRight
<1>1. IInv => ReportIsRight
  BY DEF IInv
<1> QED
  BY <1>1, AlwaysIInv, PTL
=============================================================================
