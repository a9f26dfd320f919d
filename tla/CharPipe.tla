------------------------------ MODULE CharPipe ------------------------------
(***************************************************************************)
(* What a character device promises in one direction: characters come out  *)
(* in the order they were put in, none lost, none twice, and no more than  *)
(* Capacity are under way.  A character is its number in the stream,       *)
(* modulo Chars.                                                           *)
(***************************************************************************)
EXTENDS Naturals, Sequences

CONSTANTS Chars, Capacity

VARIABLES pipe, put, got     \* the number that is put, or comes out, next

PipeInit == pipe = <<>> /\ put = 0 /\ got = 0

Put == \E n \in 1 .. Capacity - Len(pipe) :
           /\ pipe' = pipe \o [i \in 1 .. n |-> (put + i - 1) % Chars]
           /\ put' = (put + n) % Chars
           /\ UNCHANGED got

Get == \E n \in 1 .. Len(pipe) :
           /\ pipe' = SubSeq(pipe, n + 1, Len(pipe))
           /\ got' = (pipe[n] + 1) % Chars
           /\ UNCHANGED put

PipeSpec == PipeInit /\ [][Put \/ Get]_<<pipe, put, got>>
=============================================================================
