------------------------------ MODULE MCAudio ------------------------------
(* AudioFirmware for TLC: two chunks of seven units, FIFOs of four.         *)
EXTENDS AudioFirmware, TLC
=============================================================================
