------------------------------- MODULE MCCrc16 -------------------------------
(***************************************************************************)
(* Chunks of the real size: letters, padding, one byte out of zeros.       *)
(***************************************************************************)
EXTENDS Crc16Division

MCBufs == { [i \in 1..CHUNK_SZ |-> 65 + (i % 57)],
            [i \in 1..CHUNK_SZ |-> IF i < 20 THEN (i * i * 37) % 256 ELSE 26],
            [i \in 1..CHUNK_SZ |-> IF i = 100 THEN 128 ELSE 0] }
=============================================================================
