-------------------------------- MODULE Fir1 --------------------------------
(***************************************************************************)
(* The FIR filter of Lab#1/FIR1 (TopModule.sv: Controller and DataPath;    *)
(* ca1/ holds the same text).  As in Fir2 an action is a rising edge of    *)
(* clk in one state of the controller.  Two things differ from Fir2: the   *)
(* counter has one bit more than the address it drives, and the controller *)
(* sees rst only at an edge while the data path is cleared at once.        *)
(***************************************************************************)
EXTENDS FirData

VARIABLES ps,             \* Controller.sv
          cnt_temp,       \* Counter.sv: the 7-bit counter
          register_file,  \* RegisterFile.sv: the delay line
          out_reg,        \* DataPath.sv: the accumulator
          output_data,    \* DataPath.sv: the latch that drives the output
          rst             \* the reset input, "low", "rising" or "high"

vars == <<ps, cnt_temp, register_file, out_reg, output_data, rst>>

State == {"WAITING", "TAKE_INPUT", "CALCULATING", "OUTPUT_READY"}

Init == /\ ps = "WAITING"
        /\ cnt_temp = 0
        /\ register_file = EmptyLine
        /\ out_reg = NoProducts
        /\ output_data = NoProducts
        /\ rst = "low"

output_valid == ps = "OUTPUT_READY"

\* Counter.sv: cout is the 65th value of the counter, out_cnt its low bits,
\* so that the tap addressed together with cout is tap 0 again.
cnt_cout == cnt_temp = Taps
out_cnt  == cnt_temp % Taps

\* output_data = output_valid ? out_reg : output_data, a transparent latch.
Latch == output_data' = IF output_valid' THEN out_reg' ELSE output_data

Waiting(input_valid) ==
    /\ rst = "low"
    /\ ps = "WAITING"
    /\ ps' = IF input_valid THEN "TAKE_INPUT" ELSE "WAITING"
    /\ out_reg' = NoProducts
    /\ UNCHANGED <<cnt_temp, register_file, rst>>
    /\ Latch

TakeInput(input_data) ==
    /\ rst = "low"
    /\ ps = "TAKE_INPUT"
    /\ ps' = "CALCULATING"
    /\ register_file' = Shift(register_file, input_data)
    /\ UNCHANGED <<cnt_temp, out_reg, rst>>
    /\ Latch

Calculating ==
    /\ rst = "low"
    /\ ps = "CALCULATING"
    /\ ps' = IF cnt_cout THEN "OUTPUT_READY" ELSE "CALCULATING"
    /\ cnt_temp' = IF cnt_cout THEN 0 ELSE cnt_temp + 1
    /\ out_reg' = Accumulate(out_reg, register_file, out_cnt)
    /\ UNCHANGED <<register_file, rst>>
    /\ Latch

OutputReady ==
    /\ rst = "low"
    /\ ps = "OUTPUT_READY"
    /\ ps' = "WAITING"
    /\ UNCHANGED <<cnt_temp, register_file, out_reg, rst>>
    /\ Latch

\* rst rises: counter, registers and accumulator clear at once, and a latch
\* that is open follows; the controller waits for an edge.
RstRises ==
    /\ rst = "low"
    /\ rst' = "rising"
    /\ cnt_temp' = 0
    /\ register_file' = EmptyLine
    /\ out_reg' = NoProducts
    /\ UNCHANGED ps
    /\ Latch

\* An edge under rst.
RstEdge ==
    /\ rst \in {"rising", "high"}
    /\ rst' = "high"
    /\ ps' = "WAITING"
    /\ UNCHANGED <<cnt_temp, register_file, out_reg>>
    /\ Latch

\* rst falls.  FIRtb.sv holds it over an edge, and so is it assumed here.
RstFalls ==
    /\ rst = "high"
    /\ rst' = "low"
    /\ UNCHANGED <<ps, cnt_temp, register_file, out_reg, output_data>>

Next == \/ \E input_valid \in BOOLEAN : Waiting(input_valid)
        \/ \E input_data \in Word : TakeInput(input_data)
        \/ Calculating
        \/ OutputReady
        \/ RstRises
        \/ RstEdge
        \/ RstFalls

Spec == Init /\ [][Next]_vars

-----------------------------------------------------------------------------
(* Properties.                                                             *)

(***************************************************************************)
(* Every register holds a value it can represent.                          *)
(***************************************************************************)
TypeOK == /\ ps \in State
          /\ cnt_temp \in 0 .. Taps
          /\ register_file \in Line
          /\ out_reg \in Sum
          /\ output_data \in Sum
          /\ rst \in {"low", "rising", "high"}

(***************************************************************************)
(* FIRtb.sv:53 compares the output with the same reference, outputs.txt,   *)
(* as FIR_TB.v:61 does for FIR2: the convolution of the 64 samples with    *)
(* the 64 coefficients.                                                    *)
(***************************************************************************)
OutputIsConvolution ==
    output_valid /\ rst = "low" => output_data = Convolution(register_file)

\* The convolution with the product of tap 0 counted once more.
WithNewestTwice(line) ==
    [Convolution(line) EXCEPT
         ![0] = [x \in Sample |-> IF x = line[0] THEN 2 ELSE 0]]

(***************************************************************************)
(* What the filter computes instead: the counter runs through Taps + 1     *)
(* values and addresses tap 0 at both ends, so the newest sample is        *)
(* weighted with twice its coefficient and every other tap is right.       *)
(***************************************************************************)
NewestTapTwice ==
    output_valid /\ rst = "low" =>
        output_data = WithNewestTwice(register_file)

\* The inductive invariant behind NewestTapTwice.
PartialSums ==
    /\ rst = "high" => ps = "WAITING"
    /\ ps \in {"WAITING", "TAKE_INPUT"} \/ rst # "low" => cnt_temp = 0
    /\ ps = "TAKE_INPUT" \/ rst # "low" => out_reg = NoProducts
    /\ rst = "low" /\ ps = "CALCULATING" =>
           out_reg = PartialSum(register_file, cnt_temp)
    /\ rst = "low" /\ ps = "OUTPUT_READY" =>
           /\ cnt_temp = 0
           /\ out_reg = WithNewestTwice(register_file)
           /\ output_data = out_reg
=============================================================================
