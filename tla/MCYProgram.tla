----------------------------- MODULE MCYProgram -----------------------------
(***************************************************************************)
(* Small instances of YProgram for TLC.                                    *)
(***************************************************************************)
EXTENDS YProgram, MCYSystem
=============================================================================
