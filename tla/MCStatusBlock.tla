---------------------------- MODULE MCStatusBlock ----------------------------
(***************************************************************************)
(* StatusBlock with the chunk of the code, every length of a base name     *)
(* around the limit and a few short ones, and every number of digits of a  *)
(* size that fits a long.                                                  *)
(***************************************************************************)
EXTENDS StatusBlock

MCNameLengths == 0..3 \cup 105..130
MCDigits      == 1..19
=============================================================================
