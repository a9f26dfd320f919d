-------------------------------- MODULE Fir2 --------------------------------
(***************************************************************************)
(* The FIR filter of Lab#1/FIR2 (FIR.v: ControlUnit and DataPath), the one *)
(* the FPGA top level is built with.  One action per state of the control  *)
(* unit; an action is one rising edge of clock, and its primed variables   *)
(* are every register the edge loads.  input_valid and in are the values   *)
(* of the input wires at the edge.                                         *)
(*                                                                         *)
(* The register R1 of the data path has clr_res on its asynchronous reset, *)
(* and clr_res is decoded from wait_input: result is cleared at once when  *)
(* the control unit enters wait_input, and not by reset itself.            *)
(***************************************************************************)
EXTENDS FirData

VARIABLES ps,     \* CU.v: state of the control unit
          d_out,  \* counter.v: the coefficient counter, the address adr
          X,      \* DataPath.v: the delay line X[0 .. coefnum-1]
          result  \* DataPath.v: R1, which drives FIR_output

vars == <<ps, d_out, X, result>>

State == {"wait_input", "getX", "calc", "finish"}

Init == /\ ps = "wait_input"
        /\ d_out = 0
        /\ X = EmptyLine
        /\ result = NoProducts

-----------------------------------------------------------------------------
(* Wires.                                                                  *)

output_valid == ps = "finish"

\* co is the conjunction of the counter's bits: the last of its 2^n values.
\* Mutated form: one coefficient short.
coEarly == d_out = IF Taps > 1 THEN Taps - 2 ELSE 0
co == d_out = Taps - 1

\* Mutated forms: the counter has a bit too many; it is not enabled.
CountNoWrap == d_out' = d_out + 1
CountStuck == d_out' = d_out
Count == d_out' = IF co THEN 0 ELSE d_out + 1

-----------------------------------------------------------------------------
(* One rising edge of clock in each state.                                 *)

WaitInput(input_valid) ==
    /\ ps = "wait_input"
    /\ ps' = IF input_valid THEN "getX" ELSE "wait_input"
    /\ UNCHANGED <<d_out, X, result>>

\* load: the word on the wires one edge after input_valid enters the line.
GetX(in) ==
    /\ ps = "getX"
    /\ ps' = "calc"
    /\ X' = Shift(X, in)
    /\ UNCHANGED <<d_out, result>>

\* loadres and cnt_en: accumulate the product of the tap the counter names.
Calc ==
    /\ ps = "calc"
    /\ ps' = IF co THEN "finish" ELSE "calc"
    /\ result' = Accumulate(result, X, d_out)
    /\ Count
    /\ UNCHANGED X

\* output_valid lasts this one cycle; clr_res of wait_input clears result.
\* Mutated form: the accumulator is not cleared between two samples.
FinishKeepsResult ==
    /\ ps = "finish"
    /\ ps' = "wait_input"
    /\ UNCHANGED <<d_out, X, result>>
Finish ==
    /\ ps = "finish"
    /\ ps' = "wait_input"
    /\ result' = NoProducts
    /\ UNCHANGED <<d_out, X>>

\* The asynchronous reset (SW[1] of the board), at any time.
\* Mutated form: reset forgets the counter.
ResetKeepsCounter ==
    /\ ps' = "wait_input"
    /\ X' = EmptyLine
    /\ result' = NoProducts
    /\ UNCHANGED d_out
Reset ==
    /\ ps' = "wait_input"
    /\ d_out' = 0
    /\ X' = EmptyLine
    /\ result' = NoProducts

Clock(input_valid, in) ==
    \/ WaitInput(input_valid)
    \/ GetX(in)
    \/ Calc
    \/ Finish

\* Any input at any edge: the filter makes no demand on who drives it.
Next == \/ \E input_valid \in BOOLEAN, in \in Word : Clock(input_valid, in)
        \/ Reset

Spec == Init /\ [][Next]_vars

\* The clock does not stop: outside wait_input, where the filter may idle
\* for ever, the next edge comes.
FairSpec == /\ Spec
            /\ WF_vars(\E in \in Word : GetX(in))
            /\ WF_vars(Calc)
            /\ WF_vars(Finish)

-----------------------------------------------------------------------------
(* Properties.                                                             *)

(***************************************************************************)
(* Every register holds a value it can represent; the counter of           *)
(* counter.v never addresses a coefficient that does not exist.            *)
(***************************************************************************)
TypeOK == /\ ps \in State
          /\ d_out \in Tap
          /\ X \in Line
          /\ result \in Sum

(***************************************************************************)
(* While output_valid is up, FIR_output is the convolution of the delay    *)
(* line: each of the coefnum taps was accumulated once, no tap twice, and  *)
(* nothing is left over from the previous sample or from a run of the      *)
(* filter that a reset cut short.                                          *)
(***************************************************************************)
OutputIsConvolution == output_valid => result = Convolution(X)

(***************************************************************************)
(* Why it holds: before the k-th product is added, exactly the products of *)
(* the taps below k are in the accumulator, and outside calc the counter   *)
(* is back at 0 and the accumulator empty.  A reset between any two edges  *)
(* keeps this.  This is the inductive invariant of the proofs.             *)
(***************************************************************************)
PartialSums ==
    /\ ps \in {"wait_input", "getX"} => d_out = 0 /\ result = NoProducts
    /\ ps = "calc" => result = PartialSum(X, d_out)
    /\ ps = "finish" => d_out = 0 /\ result = Convolution(X)

\* The filter is ready until a word enters the delay line, works while it
\* accumulates, and its answer is what it shows while output_valid is up.
stageBar  == [wait_input |-> "ready", getX |-> "ready",
              calc |-> "working", finish |-> "answered"][ps]
answerBar == IF output_valid THEN result ELSE NoProducts

F == INSTANCE Fir WITH line <- X, stage <- stageBar, answer <- answerBar

(***************************************************************************)
(* The clocked filter implements the promise of module Fir, and every word *)
(* that enters the delay line is answered unless a reset comes first.      *)
(***************************************************************************)
ImplementsFir == F!FairSpec
=============================================================================
