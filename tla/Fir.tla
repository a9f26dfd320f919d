-------------------------------- MODULE Fir --------------------------------
(***************************************************************************)
(* What a FIR filter promises, with no clock and no counter: it accepts a  *)
(* sample, and before it accepts another one it answers with the           *)
(* convolution of the samples it has accepted, once.  A reset forgets      *)
(* everything.                                                             *)
(***************************************************************************)
EXTENDS FirData

VARIABLES line,    \* the last Taps samples accepted, newest first
          stage,   \* "ready", "working" on an answer, or "answered"
          answer   \* the answer on the output, NoProducts when there is none

vars == <<line, stage, answer>>

Init == /\ line = EmptyLine
        /\ stage = "ready"
        /\ answer = NoProducts

Accept(x) == /\ stage = "ready"
             /\ line' = Shift(line, x)
             /\ stage' = "working"
             /\ UNCHANGED answer

Answer == /\ stage = "working"
          /\ stage' = "answered"
          /\ answer' = Convolution(line)
          /\ UNCHANGED line

Release == /\ stage = "answered"
           /\ stage' = "ready"
           /\ answer' = NoProducts
           /\ UNCHANGED line

Reset == /\ line' = EmptyLine
         /\ stage' = "ready"
         /\ answer' = NoProducts

Next == \/ \E x \in Word : Accept(x)
        \/ Answer
        \/ Release
        \/ Reset

Spec == Init /\ [][Next]_vars

(***************************************************************************)
(* An accepted sample is answered, or reset away, and the output becomes   *)
(* free again.                                                             *)
(***************************************************************************)
FairSpec == Spec /\ WF_vars(Answer) /\ WF_vars(Release)
=============================================================================
