----------------------------- MODULE SerialFir ------------------------------
(***************************************************************************)
(* The fully serial filter of Lab#3 (MATLAB/hdlsrc/fully serial/           *)
(* FIR_filter.v): one multiplier that takes the taps in turn, a new sample *)
(* every Taps clocks, and three registers one behind the other, so that    *)
(* while a sample's products are added up the sum before it and the output *)
(* before that are still held.                                             *)
(***************************************************************************)
EXTENDS FirData

ASSUME SerialAssumption == Taps > 1

VARIABLES cur_count, delay_pipeline, acc_out_1, acc_final, output_register,
          behind   \* history: the delay lines one and two samples ago

vars == <<cur_count, delay_pipeline, acc_out_1, acc_final, output_register,
          behind>>

Init ==
    /\ cur_count = Taps - 1
    /\ delay_pipeline = EmptyLine
    /\ acc_out_1 = NoProducts
    /\ acc_final = NoProducts
    /\ output_register = NoProducts
    /\ behind = [i \in {1, 2} |-> EmptyLine]

phase_0 == cur_count = 0
\* phase_63.  Mutated form: the count does not wrap there.
phase_lastMissed == cur_count = Taps
phase_last == cur_count = Taps - 1

\* Mutated form: the sum goes on over the end of a sample.
acc_in_1Endless == Accumulate(acc_out_1, delay_pipeline, cur_count)
acc_in_1 ==
    Accumulate(IF phase_0 THEN NoProducts ELSE acc_out_1,
               delay_pipeline, cur_count)

Counter == cur_count' = IF phase_last THEN 0 ELSE cur_count + 1

Delay_Pipeline(filter_in) ==
    delay_pipeline' = IF phase_last THEN Shift(delay_pipeline, filter_in)
                                    ELSE delay_pipeline

Acc_reg_1 == acc_out_1' = acc_in_1

\* Mutated form: the sum is taken over with the last product missing.
FinalsumEarly == acc_final' = IF phase_last THEN acc_out_1 ELSE acc_final
Finalsum == acc_final' = IF phase_0 THEN acc_out_1 ELSE acc_final

\* Mutated form: the output follows the sum at once.
Output_RegisterFree == output_register' = acc_final
Output_Register ==
    output_register' = IF phase_last THEN acc_final ELSE output_register

\* A clock with clk_enable.
Enabled(filter_in) ==
    /\ Counter /\ Delay_Pipeline(filter_in)
    /\ Acc_reg_1 /\ Finalsum /\ Output_Register
    /\ behind' = IF phase_last
                   THEN [behind EXCEPT ![1] = delay_pipeline, ![2] = behind[1]]
                   ELSE behind

Reset ==
    /\ cur_count' = Taps - 1
    /\ delay_pipeline' = EmptyLine
    /\ acc_out_1' = NoProducts
    /\ acc_final' = NoProducts
    /\ output_register' = NoProducts
    /\ behind' = [i \in {1, 2} |-> EmptyLine]

Next == Reset \/ \E filter_in \in Word : Enabled(filter_in)

Spec == Init /\ [][Next]_vars

-----------------------------------------------------------------------------
(* Properties.                                                             *)

TypeOK == /\ cur_count \in Tap
          /\ delay_pipeline \in Line
          /\ behind \in [{1, 2} -> Line]

(***************************************************************************)
(* The output is the convolution of the delay line two samples ago, at     *)
(* every clock, whatever comes in, with pauses and resets anywhere.        *)
(***************************************************************************)
OutputTwoBehind == output_register = Convolution(behind[2])

(***************************************************************************)
(* Why: the first register holds the products taken so far and turns into  *)
(* the whole sum at the very clock that lets the next sample in; the       *)
(* second takes it over one clock later.                                   *)
(***************************************************************************)
SumsInTurn ==
    /\ OutputTwoBehind
    /\ acc_out_1 = IF phase_0 THEN Convolution(behind[1])
                              ELSE PartialSum(delay_pipeline, cur_count)
    /\ acc_final = Convolution(behind[IF phase_0 THEN 2 ELSE 1])

(***************************************************************************)
(* The two filters the generator made of one design are the same filter:   *)
(* seen once per sample, and one sample later, the serial one does what    *)
(* the parallel one does, resets included.                                 *)
(***************************************************************************)
Parallel == INSTANCE ParallelFir WITH delay_pipeline <- behind[1]

ImplementsParallel == Parallel!Spec
=============================================================================
