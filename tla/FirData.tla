------------------------------ MODULE FirData ------------------------------
(***************************************************************************)
(* The data of the FIR filters: those of Lab#1 (FIR1/*.sv and FIR2/*.v)    *)
(* and the serial one of Lab#3.                                            *)
(*                                                                         *)
(* A sample is an uninterpreted value.  A sum of products is kept          *)
(* symbolically: sum[k][x] is how often the product coef[k] * x has been   *)
(* added to the accumulator.  Addition is commutative, so this is what an  *)
(* accumulator is worth to a reader who does not know the coefficients.    *)
(* Products of the reset value of a register, Zero, add nothing and are    *)
(* not counted.  No carry is lost in the code: 64 products of two signed   *)
(* 16-bit numbers stay within 2^36, and the accumulator is 38 bits wide;   *)
(* in Lab#3 the coefficients' magnitudes add up to less than 2, the range  *)
(* of the accumulator.                                                     *)
(***************************************************************************)
EXTENDS Naturals

CONSTANTS Taps,    \* number of coefficients (coefnum, 64 in the code)
          Sample,  \* the values an input sample can have
          Zero     \* the content of a register after reset

ASSUME TapsAssumption == Taps \in Nat \ {0}
ASSUME ZeroAssumption == Zero \notin Sample

Tap  == 0 .. Taps - 1
Word == Sample \cup {Zero}
Line == [Tap -> Word]
Sum  == [Tap -> [Sample -> Nat]]

\* The delay line and the accumulator after reset.
EmptyLine  == [k \in Tap |-> Zero]
NoProducts == [k \in Tap |-> [x \in Sample |-> 0]]

\* A new sample enters at register 0, every register takes its neighbour's.
Shift(line, x) == [k \in Tap |-> IF k = 0 THEN x ELSE line[k - 1]]

\* One multiply-accumulate: coef[k] times the k-th register of the line.
Accumulate(sum, line, k) ==
    [sum EXCEPT ![k] = [x \in Sample |-> @[x] + (IF x = line[k] THEN 1 ELSE 0)]]

\* The sum of the first n products of the line, each counted once ...
PartialSum(line, n) ==
    [k \in Tap |-> [x \in Sample |-> IF k < n /\ x = line[k] THEN 1 ELSE 0]]

\* ... and the convolution a filter owes its reader: every tap exactly once.
Convolution(line) == PartialSum(line, Taps)
=============================================================================
