-------------------------------- MODULE Part1 --------------------------------
(***************************************************************************)
(* The sender of the starter program, Ensc351Part1.  The bodies of cans    *)
(* and sendBlk are empty there, so what is left of sendFiles is the loop   *)
(* over the files and their blocks, the numbers and the report.            *)
(***************************************************************************)
EXTENDS Integers, Sequences

CONSTANTS Lists, DiskMayFail    \* lists of files; read and close may fail

VARIABLES
  fileNames, pc,
  fileNo,       \* the file of the list being sent
  left,         \* chunks of the open file not yet read
  bytesRd,      \* -1, 0 or, for any number of bytes, 1
  blkNum, result

p1Vars == <<fileNames, pc, fileNo, left, bytesRd, blkNum, result>>

ASSUME Part1Assumption ==
  Lists \subseteq Seq([openable : BOOLEAN, chunks : Nat]) /\ DiskMayFail \in BOOLEAN

-----------------------------------------------------------------------------
\* The head of the loop over fileNames; an open that fails ends sendFiles.
OpenFile ==
  /\ pc = "open" /\ fileNo <= Len(fileNames)
  /\ \/ /\ fileNames[fileNo].openable
        /\ left' = fileNames[fileNo].chunks
        /\ blkNum' = 0
        /\ pc' = "genBlk"
        /\ UNCHANGED result
     \/ /\ ~fileNames[fileNo].openable
        /\ result' = Append(result, "OpenError")
        /\ pc' = "returned"
        /\ UNCHANGED <<left, blkNum>>
  /\ UNCHANGED <<fileNames, fileNo, bytesRd>>

\* A read or a close that fails ends the program: ErrorPrinter.
Exit ==
  /\ DiskMayFail
  /\ pc = "genBlk" \/ (pc = "while" /\ bytesRd = 0)
  /\ pc' = "exit"
  /\ UNCHANGED <<fileNames, fileNo, left, bytesRd, blkNum, result>>

GenBlk ==
  /\ pc = "genBlk"
  /\ bytesRd' = IF left > 0 THEN 1 ELSE 0
  /\ left' = left - bytesRd'
  /\ pc' = "while"
  /\ UNCHANGED <<fileNames, fileNo, blkNum, result>>

\* blkNum is a uint8_t.
NextNumStuck(num) == IF num = 255 THEN 255 ELSE num + 1
NextNum(num)      == (num + 1) % 256

SendBlk ==
  /\ pc = "while" /\ bytesRd # 0
  /\ blkNum' = NextNum(blkNum)
  /\ pc' = "genBlk"
  /\ UNCHANGED <<fileNames, fileNo, left, bytesRd, result>>

CloseFile ==
  /\ pc = "while" /\ bytesRd = 0
  /\ result' = Append(result, "Done, ")
  /\ fileNo' = fileNo + 1
  /\ pc' = "open"
  /\ UNCHANGED <<fileNames, left, bytesRd, blkNum>>

\* statBlk("") and the erase of the last ", "
Uncut(res)   == res
CutTail(res) == IF res = <<>> THEN res ELSE [res EXCEPT ![Len(res)] = "Done"]

EndBatch ==
  /\ pc = "open" /\ fileNo > Len(fileNames)
  /\ blkNum' = 0
  /\ result' = CutTail(result)
  /\ pc' = "returned"
  /\ UNCHANGED <<fileNames, fileNo, left, bytesRd>>

Init ==
  /\ fileNames \in Lists
  /\ pc = "open" /\ fileNo = 1 /\ left = 0
  /\ bytesRd = -1 /\ blkNum = 0 /\ result = <<>>

Next == OpenFile \/ Exit \/ GenBlk \/ SendBlk \/ CloseFile \/ EndBatch

Spec == Init /\ [][Next]_p1Vars

-----------------------------------------------------------------------------
\* The number of a block is the place of its chunk in the file, modulo 256,
\* although a block is read before its number is counted, and a file that
\* follows another starts again from 0 (SenderY.cpp:113, 139-149).
NumbersFollowChunks ==
  pc \in {"genBlk", "while"} =>
    LET read == fileNames[fileNo].chunks - left
        sent == IF pc = "while" /\ bytesRd # 0 THEN read - 1 ELSE read
    IN blkNum = sent % 256

\* What the sender reports when it returns: "Done" for each file before the
\* first that cannot be opened, and "OpenError" last if there is one
\* (SenderY.cpp:122-164).
ReportIsRight ==
  pc = "returned" =>
    LET bad  == {k \in 1..Len(fileNames) : ~fileNames[k].openable}
        last == IF bad = {} THEN "Done" ELSE "OpenError"
    IN /\ IF bad = {} THEN Len(result) = Len(fileNames)
                      ELSE Len(result) \in bad /\ \A k \in bad : Len(result) <= k
       /\ \A k \in 1..Len(result) : result[k] = IF k = Len(result) THEN last ELSE "Done, "
=============================================================================
