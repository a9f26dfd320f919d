----------------------------- MODULE MCDenoise ------------------------------
(* Denoise for TLC: three taps, buffers of four words, two recordings.     *)
EXTENDS Denoise, TLC

CONSTANT zero

MCSample == [chan : Channel, at : Index, rec : 1 .. Recordings]
=============================================================================
