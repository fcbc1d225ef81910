------------------------- MODULE BatchDeliveryProofs -------------------------
(***************************************************************************)
(* What BatchDelivery promises, proved for every kind of item and every    *)
(* list of files: whatever implements it delivers in order, and calls a    *)
(* file done only when it is complete.                                     *)
(***************************************************************************)
EXTENDS BatchDelivery, SequenceTheorems, TLAPS

\* A file is opened once the one before is reported, so only the newest file
\* may be incomplete, and none that a side has called done.
Counts ==
  /\ content \in Seq(Seq(Item))
  /\ delivered \in Seq(Seq(Item))
  /\ accepted \in Nat /\ reported \in Nat
  /\ reported <= accepted /\ accepted <= Newest /\ Newest <= reported + 1
  /\ Newest <= Len(content)

IInv == Counts /\ InOrder /\ DoneIsComplete

LEMMA OneMorePlace == \A n \in Nat : \A i \in 1..(n + 1) : i \in 1..n \/ i = n + 1
  OBVIOUS

LEMMA InitIInv == Init => IInv
<1> SUFFICES ASSUME Init PROVE IInv
  OBVIOUS
<1>1. Len(delivered) = 0 /\ delivered \in Seq(Seq(Item))
  BY DEF Init
<1>2. Counts
  BY <1>1, LenProperties DEF Init, Counts, Newest
<1>3. InOrder /\ DoneIsComplete
  BY <1>1 DEF Init, InOrder, DoneIsComplete, Newest
<1> QED
  BY <1>2, <1>3 DEF IInv

\* Opening a file: the files before it stay as they are, and it is empty.
LEMMA CreateKeeps ==
  ASSUME IInv, Create, UNCHANGED content
  PROVE  IInv'
<1> USE DEF IInv, Counts, Newest
<1>1. <<>> \in Seq(Item)
  OBVIOUS
<1>2. /\ delivered' \in Seq(Seq(Item))
      /\ Len(delivered') = Len(delivered) + 1
      /\ \A k \in 1..Len(delivered) : delivered'[k] = delivered[k]
      /\ delivered'[Len(delivered) + 1] = <<>>
  BY <1>1, AppendProperties DEF Create
<1>3. Len(delivered) \in Nat /\ Len(content) \in Nat
  BY LenProperties
<1>4. Counts'
  BY <1>2, <1>3 DEF Create
<1>5. InOrder'
  <2>1. SUFFICES ASSUME NEW k \in 1..Len(delivered')
                 PROVE  /\ Len(delivered'[k]) <= Len(content[k])
                        /\ \A i \in 1..Len(delivered'[k]) : delivered'[k][i] = content[k][i]
    BY DEF InOrder
  <2>2. CASE k \in 1..Len(delivered)
    BY <1>2, <2>2 DEF InOrder
  <2>3. CASE k = Len(delivered) + 1
    <3>1. content[k] \in Seq(Item)
      BY <1>3, <2>3, ElementOfSeq DEF Create
    <3>2. Len(content[k]) \in Nat /\ Len(<<>>) = 0
      BY <3>1, LenProperties
    <3>3. delivered'[k] = <<>>
      BY <1>2, <2>3
    <3> QED
      BY <3>2, <3>3
  <2> QED
    BY <1>2, <1>3, <2>2, <2>3
<1>6. DoneIsComplete'
  <2>1. \A k \in 1..accepted : k \in 1..Len(delivered)
    BY <1>3
  <2> QED
    BY <1>2, <2>1 DEF DoneIsComplete, Create
<1> QED
  BY <1>4, <1>5, <1>6

\* One more item: the newest file is not one that has been called done.
LEMMA DeliverKeeps ==
  ASSUME IInv, Deliver, UNCHANGED content
  PROVE  IInv'
<1> USE DEF IInv, Counts, Newest
<1> DEFINE n    == Len(delivered)
           file == delivered[n]
           full == content[n]
           item == full[Len(file) + 1]
<1>1. n \in Nat /\ Len(content) \in Nat /\ n \in 1..Len(delivered) /\ n \in 1..Len(content)
  BY LenProperties DEF Deliver
<1>2. file \in Seq(Item) /\ full \in Seq(Item)
  BY <1>1, ElementOfSeq
<1>3. Len(file) \in Nat /\ Len(full) \in Nat /\ Len(file) < Len(full)
  BY <1>2, LenProperties DEF Deliver
<1>4. item \in Item
  BY <1>2, <1>3, ElementOfSeq
<1>5. /\ Append(file, item) \in Seq(Item)
      /\ Len(Append(file, item)) = Len(file) + 1
      /\ \A i \in 1..Len(file) : Append(file, item)[i] = file[i]
      /\ Append(file, item)[Len(file) + 1] = item
  BY <1>2, <1>4, AppendProperties
<1>6. delivered' = [delivered EXCEPT ![n] = Append(file, item)]
  BY DEF Deliver
<1>7. /\ delivered' \in Seq(Seq(Item))
      /\ Len(delivered') = n
      /\ delivered'[n] = Append(file, item)
      /\ \A k \in 1..n : k # n => delivered'[k] = delivered[k]
  BY <1>1, <1>5, <1>6, ExceptSeq
<1>8. Counts'
  BY <1>7 DEF Deliver
<1>9. InOrder'
  <2>1. SUFFICES ASSUME NEW k \in 1..n
                 PROVE  /\ Len(delivered'[k]) <= Len(content[k])
                        /\ \A i \in 1..Len(delivered'[k]) : delivered'[k][i] = content[k][i]
    BY <1>7 DEF InOrder
  <2>2. CASE k # n
    BY <1>7, <2>2 DEF InOrder
  <2>3. CASE k = n
    <3>1. \A i \in 1..Len(file) : file[i] = full[i]
      BY <1>1 DEF InOrder
    <3> DEFINE longer == Append(file, item)
    <3>2. content[k] = full /\ delivered'[k] = longer
      BY <1>7, <2>3
    <3>3. Len(longer) = Len(file) + 1 /\ Len(longer) <= Len(full)
      <4>1. Len(longer) = Len(file) + 1
        BY <1>5
      <4> HIDE DEF longer, file, full
      <4> QED
        BY <1>3, <4>1
    <3>4. \A i \in 1..Len(longer) : longer[i] = full[i]
      <4> HIDE DEF file, full
      <4>1. Len(file) \in Nat /\ Len(longer) = Len(file) + 1
        BY <1>3, <3>3
      <4>2. \A i \in 1..Len(file) : longer[i] = file[i]
        BY <1>5
      <4>3. longer[Len(file) + 1] = full[Len(file) + 1]
        BY <1>5
      <4> HIDE DEF longer, item
      <4>4. TAKE i \in 1..Len(longer)
      <4>5. i \in 1..Len(file) \/ i = Len(file) + 1
        BY <4>1, OneMorePlace
      <4> QED
        BY <3>1, <4>2, <4>3, <4>5
    <3> HIDE DEF longer, full
    <3> QED
      BY <3>2, <3>3, <3>4
  <2> QED
    BY <2>2, <2>3
<1>10. DoneIsComplete'
  <2>1. accepted \in Nat /\ accepted < n
    BY DEF Deliver
  <2>2. \A k \in 1..accepted : k \in 1..n /\ k # n
    <3> HIDE DEF n
    <3> QED
      BY <1>1, <2>1
  <2> QED
    BY <1>7, <2>2 DEF DoneIsComplete, Deliver
<1> QED
  BY <1>8, <1>9, <1>10

\* Accepting and reporting count files that are complete.
LEMMA AcceptKeeps ==
  ASSUME IInv, Accept \/ Report, UNCHANGED content
  PROVE  IInv'
<1> USE DEF IInv, Counts, Newest
<1>1. Len(delivered) \in Nat
  BY LenProperties
<1>2. CASE Accept
  <2>1. accepted + 1 = Len(delivered)
    BY <1>1, <1>2 DEF Accept
  <2>2. DoneIsComplete'
    BY <1>2, <2>1 DEF Accept, DoneIsComplete
  <2> QED
    BY <1>1, <1>2, <2>1, <2>2 DEF Accept, InOrder
<1>3. CASE Report
  BY <1>1, <1>3 DEF Report, InOrder, DoneIsComplete
<1> QED
  BY <1>2, <1>3

LEMMA NextIInv == IInv /\ [Next]_vars => IInv'
<1> SUFFICES ASSUME IInv, [Next]_vars PROVE IInv'
  OBVIOUS
<1>1. CASE Work
  BY <1>1, CreateKeeps, DeliverKeeps, AcceptKeeps DEF Work
<1>2. CASE Fail \/ UNCHANGED vars
  BY <1>2 DEF Fail, vars, IInv, Counts, InOrder, DoneIsComplete, Newest
<1> QED
  BY <1>1, <1>2 DEF Next

LEMMA AlwaysIInv == Spec => []IInv
  BY InitIInv, NextIInv, PTL DEF Spec

\* Every file on the other side is at every moment a prefix of the file sent.
THEOREM DeliveredInOrder == Spec => []InOrder
<1>1. IInv => InOrder
  BY DEF IInv
<1> QED
  BY <1>1, AlwaysIInv, PTL

\* A file that the receiving side has accepted, or the sending side reported,
\* is complete on the other side, and stays so.
THEOREM DoneFilesComplete == Spec => []DoneIsComplete
<1>1. IInv => DoneIsComplete
  BY DEF IInv
<1> QED
  BY <1>1, AlwaysIInv, PTL
=============================================================================
