----------------------------- MODULE YRefinement -----------------------------
(***************************************************************************)
(* The program implements BatchDelivery: the items are the chunks of a    *)
(* file, copies of a block that was sent again do not count, and neither   *)
(* does a file that exists at the receiver only.  This is so for batches   *)
(* whose names are apart and whose files have no blank chunk inside.       *)
(***************************************************************************)
EXTENDS YProperties

Contents == [files \in Batches |-> [k \in 1..Len(files) |-> Expected(files[k].data)]]
OnTheDisk ==
  [k \in 1..Smaller(Len(rFiles), Len(batch)) |->
     Merged(rFiles[k].chunks, Expected(batch[k].data))]
DoneCount(result) == Cardinality({k \in 1..Len(result) : result[k] \in {"Done, ", "Done"}})

Delivery == INSTANCE BatchDelivery WITH
  Item      <- Chunk,
  content   <- Contents[batch],
  delivered <- OnTheDisk,
  accepted  <- DoneCount(rResult),
  reported  <- DoneCount(sResult),
  failed    <- exited

\* Every step of the four threads is a step of BatchDelivery or changes nothing
\* it speaks of: no chunk is lost, overtaken or put in another file, the
\* sender's "Done, " (SenderY.cpp:285) comes after the receiver's
\* (ReceiverY.cpp:232) and that one after the last chunk is on the disk.
ImplementsDelivery == Delivery!Spec
=============================================================================
