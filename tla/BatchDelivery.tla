---------------------------- MODULE BatchDelivery ----------------------------
(***************************************************************************)
(* What a YMODEM batch transfer promises: the files of a batch appear at   *)
(* the other side one after the other, each item by item in order; the     *)
(* receiving side accepts a file that is complete, and only then does the  *)
(* sending side report it and start the next one.                          *)
(***************************************************************************)
EXTENDS Naturals, Sequences

CONSTANT Item     \* what a file is made of

VARIABLES
  content,        \* the files to send, each a sequence of items
  delivered,      \* the files on the other side, as far as they are there
  accepted,       \* how many of them the receiving side has called done
  reported,       \* how many the sending side has called done
  failed          \* the program has ended early

vars == <<content, delivered, accepted, reported, failed>>

Newest == Len(delivered)

Init ==
  /\ content \in Seq(Seq(Item))
  /\ delivered = <<>>
  /\ accepted = 0
  /\ reported = 0
  /\ failed = FALSE

Create ==
  /\ reported = Newest
  /\ Newest < Len(content)
  /\ delivered' = Append(delivered, <<>>)
  /\ UNCHANGED <<accepted, reported>>

Deliver ==
  /\ accepted < Newest
  /\ Len(delivered[Newest]) < Len(content[Newest])
  /\ delivered' = [delivered EXCEPT ![Newest] =
                     Append(@, content[Newest][Len(@) + 1])]
  /\ UNCHANGED <<accepted, reported>>

Accept ==
  /\ accepted < Newest
  /\ delivered[Newest] = content[Newest]
  /\ accepted' = accepted + 1
  /\ UNCHANGED <<delivered, reported>>

Report ==
  /\ reported < accepted
  /\ reported' = reported + 1
  /\ UNCHANGED <<delivered, accepted>>

Work == ~failed /\ UNCHANGED <<content, failed>> /\ (Create \/ Deliver \/ Accept \/ Report)
Fail == failed' = TRUE /\ UNCHANGED <<content, delivered, accepted, reported>>

Next == Work \/ Fail

Spec == Init /\ [][Next]_vars

-----------------------------------------------------------------------------
\* A file is a prefix of what was sent.
InOrder ==
  \A k \in 1..Newest :
     /\ Len(delivered[k]) <= Len(content[k])
     /\ \A i \in 1..Len(delivered[k]) : delivered[k][i] = content[k][i]

\* A file that either side has called done is complete.
DoneIsComplete == \A k \in 1..accepted : delivered[k] = content[k]
=============================================================================
