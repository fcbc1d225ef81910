------------------------------ MODULE YProgram ------------------------------
(***************************************************************************)
(* The life of the whole process around YSystem: the peers run before the  *)
(* medium does, the medium starts by creating its log, and T2 closes a     *)
(* descriptor when its sender has returned.  The descriptors are named     *)
(* after the ends of the two socket pairs: T1 and M1 of daSktPrT1M, M2 and *)
(* T2 of daSktPrMT2.                                                       *)
(***************************************************************************)
EXTENDS YProperties

CONSTANTS
  LogMayFail,            \* creat() of ymodemData.dat may fail
  SourceMayFail          \* stat(), read() and close() of a file to send may fail

VARIABLES
  mediumUp,              \* Medium's constructor has returned
  openFds,               \* the descriptors that are open
  t2Returned             \* termFunc(Term2) has returned

progVars == <<mediumUp, openFds, t2Returned>>

ASSUME LogAssumption == LogMayFail \in BOOLEAN /\ SourceMayFail \in BOOLEAN

\* socketpair() is never called for daSktPr, a static array: its entries are 0,
\* which is the descriptor of the standard input.
SenderEnd  == "T2"
DaSktPrEnd == "stdin"

-----------------------------------------------------------------------------
ProgInit ==
  /\ Init
  /\ mediumUp = FALSE
  /\ openFds = {"stdin", "T1", "M1", "M2", "T2"}
  /\ t2Returned = FALSE

\* The peers as they are; the medium once its constructor has returned.
MediumAnyTime == TRUE
MediumMayRun  == mediumUp
TransferStep ==
  /\ \/ SenderStep
     \/ ReceiverStep
     \/ MediumMayRun /\ (M2to1Step \/ M1to2Step)
  /\ UNCHANGED progVars

\* PE2(myCreat(fname, mode), fname) ends the process when it fails.
MediumStart ==
  /\ ~exited /\ ~mediumUp
  /\ \/ mediumUp' = TRUE /\ exited' = exited
     \/ LogMayFail /\ exited' = TRUE /\ mediumUp' = mediumUp
  /\ UNCHANGED <<s2m, m2r, r2m, m2s, sVars, rVars, mVars, openFds, t2Returned>>

\* PE(stat()), or the name is too long: genStatBlk(), in the place of Start or
\* behind the read of ReadEotAck
StatMayFail ==
  /\ sPc = "start" \/ (sPc = "eotAck" /\ m2s # <<>>)
  /\ fileNameIndex < Len(batch) /\ batch[fileNameIndex + 1].openable
\* PE(myRead()): genBlk(), before the last byte of the block is sent
ReadMayFail == sPc \in {"statLast", "blkLast"} /\ sFileD # -1
\* PE(myClose()): behind the last reply to a block
CloseSourceMayFail ==
  /\ sPc \in {"statC", "reply", "reReply"} /\ m2s # <<>> /\ bytesRd = 0
  /\ sPc # "statC" => ~Resends(Head(m2s), IF sPc = "reply" THEN 0 ELSE errCnt)

\* The process ends in the middle of a step of the sender.  (What that step
\* still reads or writes before, nobody sees any more.)
SourceFails ==
  /\ SourceMayFail /\ ~exited
  /\ StatMayFail \/ ReadMayFail \/ CloseSourceMayFail
  /\ exited' = TRUE
  /\ UNCHANGED <<s2m, m2r, r2m, m2s, sVars, rVars, mVars, progVars>>

T2Close ==
  /\ ~exited /\ sPc = "done" /\ ~t2Returned
  /\ openFds' = openFds \ {DaSktPrEnd}
  /\ t2Returned' = TRUE
  /\ UNCHANGED <<vars, mediumUp>>

ProgNext == TransferStep \/ MediumStart \/ SourceFails \/ T2Close

ProgSpec == ProgInit /\ [][ProgNext]_<<vars, progVars>>

FairProgSpec ==
  /\ ProgSpec
  /\ WF_<<vars, progVars>>(SenderStep /\ UNCHANGED progVars)
  /\ WF_<<vars, progVars>>(ReceiverStep /\ UNCHANGED progVars)
  /\ WF_<<vars, progVars>>(MediumMayRun /\ M2to1Step /\ UNCHANGED progVars)
  /\ WF_<<vars, progVars>>(MediumMayRun /\ M1to2Step /\ UNCHANGED progVars)
  /\ WF_<<vars, progVars>>(MediumStart)
  /\ WF_<<vars, progVars>>(T2Close)

-----------------------------------------------------------------------------
\* Nothing is on the receiver's disk before the medium has its log: when that
\* cannot be created, the process ends with no file created or truncated
\* (Medium.cpp:45, Ensc351Part2.cpp:111-122).
NoLogNoFile == ~mediumUp => rFiles = <<>> /\ sResult = <<>> /\ rResult = <<>>

\* Medium.cpp:51-59: M2to1 detects "that the Term2 (sender) socket has closed"
\* when T2 is through with it, and ends.
M2to1SeesTheEnd == s2m = <<>> /\ SenderEnd \notin openFds
MediumEnds      == t2Returned ~> (M2to1SeesTheEnd \/ exited)
=============================================================================
