------------------------------- MODULE MCPart1 -------------------------------
(***************************************************************************)
(* Part1 with every list of up to three files of 0 to 2 chunks or missing, *)
(* and with two files whose block numbers wrap.                            *)
(***************************************************************************)
EXTENDS Part1

MCFile(n) == [openable |-> n >= 0, chunks |-> IF n >= 0 THEN n ELSE 0]
MCLists ==
  { [k \in 1..n |-> MCFile(f[k])] : n \in 0..3, f \in [1..3 -> -1..2] }
  \cup { <<MCFile(258), MCFile(256)>> }
=============================================================================
