----------------------------- MODULE MCTakeMean -----------------------------
(* TakeMean for TLC: two chunks of two words of two bits.                  *)
EXTENDS TakeMean, TLC, Sequences

MCRecorded == <<3, 0, 0, 3>>
=============================================================================
