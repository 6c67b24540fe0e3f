------------------------------ MODULE MCYQueue ------------------------------
(* YQueue with addresses that only matter up to renaming. *)
EXTENDS YQueue, TLC

Addresses == Permutations(Chunks)
=============================================================================
