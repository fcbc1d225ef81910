------------------------------- MODULE YSystem -------------------------------
(***************************************************************************)
(* The whole program of Part 2: the sender (thread T2), the receiver       *)
(* (thread P-T1) and the two threads of the medium between them, one       *)
(* socket pair on each side of the medium.                                 *)
(***************************************************************************)
EXTENDS SenderY, ReceiverY, Medium

vars == <<wires, sVars, rVars, mVars>>

Init == WireInit /\ SenderInit /\ ReceiverInit /\ MediumInit

SenderStep   == SenderNext   /\ UNCHANGED <<rVars, mVars>>
ReceiverStep == ReceiverNext /\ UNCHANGED <<sVars, mVars>>
M2to1Step    == ~exited /\ MsgFromTerm2 /\ UNCHANGED <<sVars, rVars>>
M1to2Step    == ~exited /\ MsgFromTerm1 /\ UNCHANGED <<sVars, rVars>>

Next == SenderStep \/ ReceiverStep \/ M2to1Step \/ M1to2Step

Spec == Init /\ [][Next]_vars

\* A thread that can run eventually does: a blocking call returns once there
\* is something to return, and no thread waits for a turn for ever.
FairSpec == Spec /\ WF_vars(SenderStep) /\ WF_vars(ReceiverStep)
                 /\ WF_vars(M2to1Step) /\ WF_vars(M1to2Step)

TypeOK == WireTypeOK /\ SenderTypeOK /\ ReceiverTypeOK /\ MediumTypeOK
=============================================================================
