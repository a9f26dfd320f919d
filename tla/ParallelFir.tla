---------------------------- MODULE ParallelFir -----------------------------
(***************************************************************************)
(* The fully parallel filter of Lab#3 (MATLAB/hdlsrc/fully_parallel/       *)
(* FIR_filter.v), generated from the same design as the serial one: a      *)
(* multiplier per tap and a chain of adders, so that every clock takes a   *)
(* sample and registers the answer to the line before it.  Products and    *)
(* the sum are rounded as in the serial filter, by the same expressions.   *)
(***************************************************************************)
EXTENDS FirData

VARIABLES delay_pipeline, output_register

vars == <<delay_pipeline, output_register>>

Init == delay_pipeline = EmptyLine /\ output_register = NoProducts

\* product1 .. product64: what tap k adds to the sum.
product(k) == [x \in Sample |-> IF x = delay_pipeline[k] THEN 1 ELSE 0]

\* sum63, at the end of the chain of adders.
sum_last == [k \in Tap |-> product(k)]

\* A clock with clk_enable.
Enabled(filter_in) ==
    /\ delay_pipeline' = Shift(delay_pipeline, filter_in)
    /\ output_register' = sum_last

Reset == delay_pipeline' = EmptyLine /\ output_register' = NoProducts

Next == Reset \/ \E filter_in \in Word : Enabled(filter_in)

Spec == Init /\ [][Next]_vars
=============================================================================
