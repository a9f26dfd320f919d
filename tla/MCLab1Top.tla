----------------------------- MODULE MCLab1Top -----------------------------
(* Lab1Top for TLC: two taps, three edges a bit, and two samples that are  *)
(* each other's bytes exchanged.                                           *)
EXTENDS Lab1Top, TLC

CONSTANTS a, b

MCSample == {[hi |-> a, lo |-> b], [hi |-> b, lo |-> a]}
=============================================================================
