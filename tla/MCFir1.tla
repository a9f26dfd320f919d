------------------------------- MODULE MCFir1 -------------------------------
(* Fir1 for TLC: four taps, two sample values besides the reset value.     *)
EXTENDS Fir1, TLC

CONSTANTS a, b, zero
=============================================================================
