------------------------------- MODULE Fir2Tb -------------------------------
(***************************************************************************)
(* The test bench of Lab#1/FIR2/FIR_TB.v driving the filter.  Between two  *)
(* rising edges of clk the bench runs until it next waits, so a step is    *)
(* one edge of the filter followed by what the bench does before the next  *)
(* edge (its delays #1 and #5 are shorter than half a period).             *)
(*                                                                         *)
(* The samples of inputs.txt are chosen freely.  driven and since are      *)
(* history variables: what the bench compares with, and what its first     *)
(* assertion counts.                                                       *)
(***************************************************************************)
EXTENDS Fir2

VARIABLES tb,        \* what the bench waits for
          in_valid,  \* its output wires
          inData,
          driven,    \* the last Taps words it sent, newest first
          since      \* edges since the one that saw in_valid, 0 when idle

tbVars == <<tb, in_valid, inData, driven, since>>
tbAllVars == <<vars, tbVars>>

Idle == 0
MaxSince == Taps + 3   \* since is not counted further

TbInit == /\ Init
          /\ tb = "settle"
          /\ in_valid = FALSE
          /\ inData = Zero
          /\ driven = EmptyLine
          /\ since = Idle

\* The edge the bench lets pass after it has released reset.
Settle == /\ tb = "settle"
          /\ tb' = "next_sample"
          /\ UNCHANGED <<in_valid, inData, driven>>

\* @(posedge clk); #1; in_valid=1; inData=input_data[i].
\* Mutated form: the bench does not put the sample on the wires.
DriveLate ==
    /\ tb = "next_sample"
    /\ tb' = "driving"
    /\ in_valid' = TRUE
    /\ \E x \in Word : driven' = Shift(driven, x)
    /\ UNCHANGED inData
Drive ==
    /\ tb = "next_sample"
    /\ tb' = "driving"
    /\ in_valid' = TRUE
    /\ \E x \in Word : inData' = x /\ driven' = Shift(driven, x)

\* @(posedge clk); #5; in_valid=0.  inData keeps its value.
Drop == /\ tb = "driving"
        /\ tb' = "await_out_valid"
        /\ in_valid' = FALSE
        /\ UNCHANGED <<inData, driven>>

\* @(posedge out_valid): the answer is read, the loop continues.
AwaitOutValid ==
    /\ tb = "await_out_valid"
    /\ tb' = IF output_valid' THEN "next_sample" ELSE "await_out_valid"
    /\ UNCHANGED <<in_valid, inData, driven>>

Bench == Settle \/ Drive \/ Drop \/ AwaitOutValid

\* The assertion samples in_valid and out_valid just before each edge.
Since == since' = CASE in_valid -> 1
                    [] ~in_valid /\ since # Idle /\ ~output_valid
                         -> IF since < MaxSince THEN since + 1 ELSE since
                    [] OTHER -> Idle

TbEdge == Clock(in_valid, inData) /\ Bench /\ Since

TbSpec == TbInit /\ [][TbEdge]_tbAllVars /\ WF_tbAllVars(TbEdge)

-----------------------------------------------------------------------------
(* Properties.                                                             *)

(***************************************************************************)
(* FIR_TB.v:76, (in_valid==1'b1) |-> ##[66:67] out_valid for 64 taps: the  *)
(* edge that samples out_valid comes Taps+2 edges after the one that       *)
(* sampled in_valid, no sooner and no later, whatever was sent before.     *)
(***************************************************************************)
OutValidInTime ==
    /\ output_valid => since = Taps + 2
    /\ since # Idle => since <= Taps + 2

(***************************************************************************)
(* FIR_TB.v:61: what the bench reads when out_valid rises is the           *)
(* convolution of the last Taps samples it sent, in the order it sent      *)
(* them, the one just sent included.  The filter reads inData one edge     *)
(* after in_valid, so this also needs the bench to hold it.                *)
(***************************************************************************)
ExpectedData == output_valid => result = Convolution(driven)

(***************************************************************************)
(* FIR_TB.v:50-69: the loop never hangs in @(posedge out_valid), and       *)
(* after each answer the next sample is sent.                              *)
(***************************************************************************)
EverySampleAnswered == /\ tb = "await_out_valid" ~> tb = "next_sample"
                       /\ tb = "next_sample" ~> tb = "await_out_valid"
=============================================================================
