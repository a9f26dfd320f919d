----------------------------- MODULE MCJtagUart -----------------------------
(* JtagUart for TLC: a program that writes and closes, or one that reads.  *)
EXTENDS JtagUart

MCPrograms == {{"w_snap", "close"}, {"r_snap"}}
=============================================================================
