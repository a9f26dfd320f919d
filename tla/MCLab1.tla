------------------------------- MODULE MCLab1 -------------------------------
(* The three models of Lab#1 for TLC, side by side: a behaviour is one of   *)
(* the board, of the filter under its bench, or of the receiver, and the    *)
(* variables of the others keep their initial values.                       *)
EXTENDS MCLab1Top, AsyncReceiver

VARIABLES part,
          benchPs, benchCount, benchX, benchResult,     \* the bench's filter
          tb, in_valid, inData, driven, since

Parts == {"board", "bench", "receiver"}

benchVars == <<benchPs, benchCount, benchX, benchResult, tb, in_valid,
               inData, driven, since>>
lab1Vars == <<part, allVars, benchVars, receiverVars>>

\* The bench has a filter of its own.
Bench == INSTANCE Fir2Tb WITH
             ps <- benchPs, d_out <- benchCount, X <- benchX,
             result <- benchResult

Lab1Init == part \in Parts /\ TopInit /\ Bench!TbInit /\ RxInit

Board    == /\ part = "board" /\ TopNext
            /\ UNCHANGED <<part, benchVars, receiverVars>>
UnderTb  == /\ part = "bench" /\ Bench!TbEdge
            /\ UNCHANGED <<part, allVars, receiverVars>>
Receiver == /\ part = "receiver" /\ RxNext
            /\ UNCHANGED <<part, allVars, benchVars>>

Lab1Next == Board \/ UnderTb \/ Receiver

\* The fairness of each part, while it is the one that runs.
Lab1Spec == /\ Lab1Init /\ [][Lab1Next]_lab1Vars
            /\ WF_allVars(part = "board" /\ Edge)
            /\ WF_benchVars(part = "bench" /\ Bench!TbEdge)

\* FIR_TB.v:76, :61 and :50-69, as Fir2Tb states them.
OutValidInTime      == Bench!OutValidInTime
ExpectedData        == Bench!ExpectedData
EverySampleAnswered == Bench!EverySampleAnswered
=============================================================================
