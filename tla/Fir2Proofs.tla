----------------------------- MODULE Fir2Proofs -----------------------------
(***************************************************************************)
(* The filter of FIR2 computes the convolution for every number of taps    *)
(* and every set of samples, and implements module Fir.  Then the two      *)
(* designs it is part of: its test bench gets the right answer in time,    *)
(* and the board's top level filters what it receives, and sends it.       *)
(***************************************************************************)
EXTENDS Fir2Tb, Lab1Top, FirDataProofs

(***************************************************************************)
(* No edge and no reset takes a register out of its type.                  *)
(***************************************************************************)
LEMMA StepTypes == TypeOK /\ [Next]_vars => TypeOK'
<1> SUFFICES ASSUME TypeOK, [Next]_vars PROVE TypeOK'
  OBVIOUS
<1> USE DEF TypeOK, State
<1>1. ASSUME NEW input_valid \in BOOLEAN, WaitInput(input_valid)
      PROVE  TypeOK'
  BY <1>1 DEF WaitInput
<1>2. ASSUME NEW in \in Word, GetX(in)
      PROVE  TypeOK'
  <2>1. X' \in Line
    BY <1>2, ShiftType DEF GetX
  <2> QED  BY <1>2, <2>1 DEF GetX
<1>3. CASE Calc
  <2>1. d_out' \in Tap
    BY <1>3, TapsAssumption DEF Calc, Count, co, Tap
  <2>2. result' \in Sum
    BY <1>3, AccumulateType DEF Calc
  <2> QED  BY <1>3, <2>1, <2>2 DEF Calc
<1>4. CASE Finish
  BY <1>4, EmptyTypes DEF Finish
<1>5. CASE Reset
  <2>1. 0 \in Tap
    BY TapsAssumption DEF Tap
  <2> QED  BY <1>5, <2>1, EmptyTypes DEF Reset
<1>6. CASE UNCHANGED vars
  BY <1>6 DEF vars
<1> QED  BY <1>1, <1>2, <1>3, <1>4, <1>5, <1>6 DEF Next, Clock

(***************************************************************************)
(* Fir2 keeps its types: in particular counter.v stays an address of the   *)
(* coefficient memory.                                                     *)
(***************************************************************************)
THEOREM TypeCorrect == Spec => []TypeOK
<1>1. Init => TypeOK
  <2> SUFFICES ASSUME Init PROVE TypeOK
    OBVIOUS
  <2>1. 0 \in Tap
    BY TapsAssumption DEF Tap
  <2> QED  BY <2>1, EmptyTypes DEF Init, TypeOK, State
<1> QED  BY <1>1, StepTypes, PTL DEF Spec

(***************************************************************************)
(* A step of calc adds the next product and no other, and the edge that    *)
(* sees co leaves the whole convolution in the accumulator.                *)
(***************************************************************************)
LEMMA CalcStep ==
    ASSUME TypeOK, PartialSums, Calc
    PROVE  /\ ~co => result' = PartialSum(X, d_out') /\ d_out' = d_out + 1
           /\ co => result' = Convolution(X) /\ d_out' = 0
<1>1. result = PartialSum(X, d_out) /\ d_out \in Tap
  BY DEF PartialSums, Calc, TypeOK
<1>2. result' = PartialSum(X, d_out + 1)
  BY <1>1, AccumulateNext DEF Calc
<1>3. CASE co
  <2>1. d_out + 1 = Taps
    BY <1>3, TapsAssumption DEF co
  <2> QED  BY <1>2, <1>3, <2>1 DEF Calc, Count, Convolution
<1>4. CASE ~co
  BY <1>2, <1>4 DEF Calc, Count
<1> QED  BY <1>3, <1>4

(***************************************************************************)
(* No edge and no reset lets a product into the accumulator twice, or out. *)
(***************************************************************************)
LEMMA StepSums == TypeOK /\ PartialSums /\ [Next]_vars => PartialSums'
<1> SUFFICES ASSUME TypeOK, PartialSums, [Next]_vars PROVE PartialSums'
  OBVIOUS
<1>1. ASSUME NEW input_valid \in BOOLEAN, WaitInput(input_valid)
      PROVE  PartialSums'
  BY <1>1 DEF WaitInput, PartialSums
<1>2. ASSUME NEW in \in Word, GetX(in)
      PROVE  PartialSums'
  <2>1. d_out' = 0 /\ result' = NoProducts /\ ps' = "calc"
    BY <1>2 DEF GetX, PartialSums
  <2>2. result' = PartialSum(X', d_out')
    BY <2>1, PartialSumZero
  <2> QED  BY <2>1, <2>2 DEF PartialSums
<1>3. CASE Calc
  <2>1. CASE co
    <3>1. ps' = "finish" /\ X' = X
      BY <1>3, <2>1 DEF Calc
    <3>2. result' = Convolution(X) /\ d_out' = 0
      BY <1>3, <2>1, CalcStep
    <3> QED  BY <3>1, <3>2 DEF PartialSums
  <2>2. CASE ~co
    <3>1. ps' = "calc" /\ X' = X
      BY <1>3, <2>2 DEF Calc
    <3>2. result' = PartialSum(X, d_out')
      BY <1>3, <2>2, CalcStep
    <3> QED  BY <3>1, <3>2 DEF PartialSums
  <2> QED  BY <2>1, <2>2
<1>4. CASE Finish
  BY <1>4 DEF Finish, PartialSums
<1>5. CASE Reset
  BY <1>5 DEF Reset, PartialSums
<1>6. CASE UNCHANGED vars
  BY <1>6 DEF vars, PartialSums
<1> QED  BY <1>1, <1>2, <1>3, <1>4, <1>5, <1>6 DEF Next, Clock

(***************************************************************************)
(* PartialSums is inductive: the accumulator holds, at every edge and      *)
(* after every reset, exactly the products of the taps already visited.    *)
(***************************************************************************)
THEOREM PartialSumsInvariant == Spec => []PartialSums
<1>1. Init => PartialSums
  BY DEF Init, PartialSums
<1> QED  BY <1>1, StepSums, TypeCorrect, PTL DEF Spec

(***************************************************************************)
(* Whenever output_valid is up, FIR_output is the convolution of the delay *)
(* line, each tap counted once.                                            *)
(***************************************************************************)
THEOREM OutputCorrect == Spec => []OutputIsConvolution
<1>1. PartialSums => OutputIsConvolution
  BY DEF PartialSums, OutputIsConvolution, output_valid
<1> QED  BY <1>1, PartialSumsInvariant, PTL

(***************************************************************************)
(* Module Fir, instantiated, works on the same data.                       *)
(***************************************************************************)
LEMMA SameData ==
    /\ F!EmptyLine = EmptyLine
    /\ F!NoProducts = NoProducts
    /\ F!Word = Word
    /\ \A line, x : F!Shift(line, x) = Shift(line, x)
    /\ \A line : F!Convolution(line) = Convolution(line)
<1>1. F!Tap = Tap /\ F!Word = Word
  BY DEF F!Tap, Tap, F!Word, Word
<1>2. F!EmptyLine = EmptyLine /\ F!NoProducts = NoProducts
  BY <1>1 DEF F!EmptyLine, EmptyLine, F!NoProducts, NoProducts
<1>3. ASSUME NEW line, NEW x
      PROVE  F!Shift(line, x) = Shift(line, x)
  BY <1>1 DEF F!Shift, Shift
<1>4. ASSUME NEW line
      PROVE  F!Convolution(line) = Convolution(line)
  BY <1>1 DEF F!Convolution, Convolution, F!PartialSum, PartialSum
<1> QED  BY <1>1, <1>2, <1>3, <1>4

(***************************************************************************)
(* Every step of the clocked filter is a step of the filter of module Fir  *)
(* or changes nothing there: getX accepts the sample, the edge of calc     *)
(* that sees co answers, finish releases the output.                       *)
(***************************************************************************)
THEOREM Refinement == Spec => F!Spec
<1>1. Init => F!Init
  BY SameData DEF Init, F!Init, stageBar, answerBar, output_valid
<1>2. TypeOK /\ PartialSums /\ [Next]_vars => [F!Next]_(F!vars)
  <2> SUFFICES ASSUME TypeOK, PartialSums, [Next]_vars
               PROVE  [F!Next]_(F!vars)
    OBVIOUS
  <2>1. ASSUME NEW input_valid \in BOOLEAN, WaitInput(input_valid)
        PROVE  UNCHANGED F!vars
    <3>1. stageBar' = "ready" /\ stageBar = "ready"
      BY <2>1 DEF WaitInput, stageBar
    <3>2. answerBar' = NoProducts /\ answerBar = NoProducts
      BY <2>1 DEF WaitInput, answerBar, output_valid
    <3> QED  BY <2>1, <3>1, <3>2 DEF WaitInput, F!vars
  <2>2. ASSUME NEW in \in Word, GetX(in)
        PROVE  F!Accept(in)
    <3>1. stageBar' = "working" /\ stageBar = "ready"
      BY <2>2 DEF GetX, stageBar
    <3>2. answerBar' = NoProducts /\ answerBar = NoProducts
      BY <2>2 DEF GetX, answerBar, output_valid
    <3> QED  BY <2>2, <3>1, <3>2, SameData DEF GetX, F!Accept
  <2>3. CASE Calc
    <3>1. answerBar = NoProducts /\ stageBar = "working" /\ X' = X
      BY <2>3 DEF Calc, answerBar, stageBar, output_valid
    <3>2. CASE co
      <4>1. stageBar' = "answered" /\ answerBar' = result'
        BY <2>3, <3>2 DEF Calc, stageBar, answerBar, output_valid
      <4>2. result' = Convolution(X)
        BY <2>3, <3>2, CalcStep
      <4>3. F!Answer
        BY <3>1, <4>1, <4>2, SameData DEF F!Answer
      <4> QED  BY <4>3 DEF F!Next
    <3>3. CASE ~co
      <4>1. stageBar' = "working" /\ answerBar' = NoProducts
        BY <2>3, <3>3 DEF Calc, stageBar, answerBar, output_valid
      <4> QED  BY <3>1, <4>1 DEF F!vars
    <3> QED  BY <3>2, <3>3
  <2>4. CASE Finish
    <3>1. stageBar = "answered" /\ stageBar' = "ready"
      BY <2>4 DEF Finish, stageBar
    <3>2. answerBar' = NoProducts /\ X' = X
      BY <2>4 DEF Finish, answerBar, output_valid
    <3> QED  BY <3>1, <3>2, SameData DEF F!Release, F!Next
  <2>5. CASE Reset
    <3>1. stageBar' = "ready" /\ answerBar' = NoProducts
      BY <2>5 DEF Reset, stageBar, answerBar, output_valid
    <3> QED  BY <2>5, <3>1, SameData DEF Reset, F!Reset, F!Next
  <2>6. CASE UNCHANGED vars
    BY <2>6 DEF vars, F!vars, stageBar, answerBar, output_valid
  <2> QED
    BY <2>1, <2>2, <2>3, <2>4, <2>5, <2>6, SameData DEF Next, Clock, F!Next
<1> QED
  BY <1>1, <1>2, TypeCorrect, PartialSumsInvariant, PTL DEF Spec, F!Spec
(***************************************************************************)
(* The test bench of FIR2.                                                 *)
(*                                                                         *)
(* Where the bench is tells where the filter is: it waits for an answer    *)
(* from the edge that sees in_valid to the one that shows out_valid, and   *)
(* on that way since counts the edges.  The word on the wires stays until  *)
(* the filter has it, one edge after in_valid.                             *)
(***************************************************************************)
TbTypes == /\ tb \in {"settle", "next_sample", "driving", "await_out_valid"}
           /\ in_valid \in BOOLEAN
           /\ inData \in Word

InHand == ps \in {"wait_input", "getX"} /\ driven = Shift(X, inData)
InLine == driven = X

TbAtRest ==
    /\ in_valid <=> tb = "driving"
    /\ tb \in {"settle", "next_sample"} =>
           /\ InLine
           /\ \/ ps = "wait_input" /\ since = Idle
              \/ ps = "finish" /\ since = Taps + 2
    /\ tb = "driving" => ps = "wait_input" /\ InHand /\ since = Idle

TbAwaits ==
    tb = "await_out_valid" =>
        \/ ps = "getX" /\ InHand /\ since = 1
        \/ ps = "calc" /\ InLine /\ since = d_out + 2

TbInv == TypeOK /\ PartialSums /\ TbTypes /\ TbAtRest /\ TbAwaits

(***************************************************************************)
(* An edge of the bench is an edge of the filter with some input.          *)
(***************************************************************************)
LEMMA TbEdgeIsStep ==
    ASSUME TbTypes, TbEdge
    PROVE  Next
BY DEF TbTypes, TbEdge, Next
(***************************************************************************)
(* The counter below the last tap, and at it, as numbers.                  *)
(***************************************************************************)
LEMMA Numbers ==
    ASSUME TypeOK
    PROVE  /\ Taps \in Nat /\ Taps > 0
           /\ d_out \in Nat /\ d_out < Taps
           /\ co <=> d_out = Taps - 1
BY TapsAssumption DEF TypeOK, Tap, co

(***************************************************************************)
(* After every edge the bench stands where the filter's state says.        *)
(***************************************************************************)
LEMMA TbStep == TbInv /\ [TbEdge]_tbAllVars => TbInv'
<1> SUFFICES ASSUME TbInv, [TbEdge]_tbAllVars PROVE TbInv'
  OBVIOUS
<1> USE DEF TbInv
<1>1. CASE UNCHANGED tbAllVars
  BY <1>1 DEF tbAllVars, vars, tbVars, TypeOK, PartialSums, TbTypes, TbAtRest,
              TbAwaits, InHand, InLine
<1>2. CASE TbEdge
  <2>1. TypeOK' /\ PartialSums'
    BY <1>2, TbEdgeIsStep, StepTypes, StepSums
  <2>2. Clock(in_valid, inData) /\ Since
    BY <1>2 DEF TbEdge
  <2>3. CASE Settle
    <3>1. ~in_valid /\ ps \in {"wait_input", "finish"} /\ InLine
          /\ (ps = "wait_input" => since = Idle)
      BY <2>3 DEF Settle, TbAtRest
    <3>2. ps' = "wait_input" /\ X' = X
      BY <2>2, <3>1 DEF Clock, WaitInput, GetX, Calc, Finish
    <3>3. since' = Idle
      BY <2>2, <3>1 DEF Since, output_valid
    <3> QED  BY <2>1, <2>3, <3>1, <3>2, <3>3
             DEF Settle, TbTypes, TbAtRest, TbAwaits, InLine
  <2>4. CASE Drive
    <3>1. ~in_valid /\ ps \in {"wait_input", "finish"} /\ InLine
          /\ (ps = "wait_input" => since = Idle)
      BY <2>4 DEF Drive, TbAtRest
    <3>2. ps' = "wait_input" /\ X' = X
      BY <2>2, <3>1 DEF Clock, WaitInput, GetX, Calc, Finish
    <3>3. since' = Idle
      BY <2>2, <3>1 DEF Since, output_valid
    <3>4. inData' \in Word /\ driven' = Shift(X, inData')
      BY <2>4, <3>1 DEF Drive, InLine
    <3>5. /\ tb' = "driving" /\ in_valid' = TRUE
      BY <2>4 DEF Drive
    <3> QED  BY <2>1, <3>2, <3>3, <3>4, <3>5
             DEF TbTypes, TbAtRest, TbAwaits, InHand
  <2>5. CASE Drop
    <3>1. in_valid /\ ps = "wait_input" /\ InHand
      BY <2>5 DEF Drop, TbAtRest
    <3>2. ps' = "getX" /\ X' = X
      BY <2>2, <3>1 DEF Clock, WaitInput, GetX, Calc, Finish
    <3>3. since' = 1
      BY <2>2, <3>1 DEF Since
    <3> QED  BY <2>1, <2>5, <3>1, <3>2, <3>3
             DEF Drop, TbTypes, TbAtRest, TbAwaits, InHand
  <2>6. CASE AwaitOutValid
    <3>1. ~in_valid /\ tb = "await_out_valid"
          /\ tb' = (IF output_valid' THEN "next_sample" ELSE "await_out_valid")
          /\ UNCHANGED <<in_valid, inData, driven>>
      BY <2>6 DEF AwaitOutValid, TbAtRest
    <3>2. CASE ps = "getX" /\ InHand /\ since = 1
      <4>1. ps' = "calc" /\ X' = Shift(X, inData) /\ d_out' = 0
        BY <2>2, <3>2 DEF Clock, WaitInput, GetX, Calc, Finish, PartialSums
      <4>2. since' = 2
        BY <2>2, <3>1, <3>2, Numbers
        DEF Since, Idle, MaxSince, output_valid
      <4>3. tb' = "await_out_valid"
        BY <3>1, <4>1 DEF output_valid
      <4> QED  BY <2>1, <3>1, <3>2, <4>1, <4>2, <4>3
               DEF TbTypes, TbAtRest, TbAwaits, InHand, InLine
    <3>3. CASE ps = "calc" /\ InLine /\ since = d_out + 2
      <4>1. Calc
        BY <2>2, <3>3 DEF Clock, WaitInput, GetX, Finish
      <4>2. since' = since + 1
        BY <2>2, <3>1, <3>3, Numbers
        DEF Since, Idle, MaxSince, output_valid
      <4>3. CASE co
        <5>1. ps' = "finish" /\ X' = X
          BY <4>1, <4>3 DEF Calc
        <5>2. since' = Taps + 2
          BY <3>3, <4>2, <4>3, Numbers
        <5> QED  BY <2>1, <3>1, <3>3, <5>1, <5>2
                 DEF TbTypes, TbAtRest, TbAwaits, InLine, output_valid
      <4>4. CASE ~co
        <5>1. ps' = "calc" /\ X' = X /\ d_out' = d_out + 1
          BY <4>1, <4>4 DEF Calc, Count
        <5>2. since' = d_out' + 2
          BY <3>3, <4>2, <5>1, Numbers
        <5> QED  BY <2>1, <3>1, <3>3, <5>1, <5>2
                 DEF TbTypes, TbAtRest, TbAwaits, InLine, output_valid
      <4> QED  BY <4>3, <4>4
    <3> QED  BY <3>1, <3>2, <3>3 DEF TbAwaits
  <2> QED  BY <1>2, <2>3, <2>4, <2>5, <2>6 DEF TbEdge, Bench
<1> QED  BY <1>1, <1>2

(***************************************************************************)
(* The bench and the filter keep step, for every number of taps.           *)
(***************************************************************************)
THEOREM BenchInvariant == TbSpec => []TbInv
<1>1. TbInit => TbInv
  <2> SUFFICES ASSUME TbInit PROVE TbInv
    OBVIOUS
  <2>1. 0 \in Tap /\ Zero \in Word
    BY TapsAssumption DEF Tap, Word
  <2>2. TypeOK /\ PartialSums
    BY <2>1, EmptyTypes DEF TbInit, Init, TypeOK, State, PartialSums
  <2> QED  BY <2>1, <2>2 DEF TbInv, TbInit, Init, TbTypes, TbAtRest, TbAwaits,
                             InLine
<1> QED  BY <1>1, TbStep, PTL DEF TbSpec

(***************************************************************************)
(* FIR_TB.v:76 for every number of taps: out_valid is up Taps + 2 edges    *)
(* after in_valid, and at no other edge.                                   *)
(***************************************************************************)
THEOREM AnswerInTime == TbSpec => []OutValidInTime
<1>1. TbInv => OutValidInTime
  <2> SUFFICES ASSUME TbInv PROVE OutValidInTime
    OBVIOUS
  <2> USE DEF TbInv, TbTypes, TbAtRest, TbAwaits, output_valid, Idle
  <2>1. output_valid => since = Taps + 2
    OBVIOUS
  <2>2. since = Idle \/ since = Taps + 2 \/ since = 1 \/ since = d_out + 2
    OBVIOUS
  <2> QED  BY <2>1, <2>2, Numbers DEF OutValidInTime
<1> QED  BY <1>1, BenchInvariant, PTL

(***************************************************************************)
(* FIR_TB.v:61 for every number of taps and every file of samples: what    *)
(* the bench reads is the convolution of what it sent.                     *)
(***************************************************************************)
THEOREM AnswerIsExpected == TbSpec => []ExpectedData
<1>1. TbInv => ExpectedData
  <2> SUFFICES ASSUME TbInv, output_valid PROVE result = Convolution(driven)
    BY DEF ExpectedData
  <2>1. ps = "finish" /\ result = Convolution(X)
    BY DEF output_valid, TbInv, PartialSums
  <2>2. driven = X
    BY <2>1 DEF TbInv, TbTypes, TbAtRest, TbAwaits, InLine
  <2> QED  BY <2>1, <2>2
<1> QED  BY <1>1, BenchInvariant, PTL
(***************************************************************************)
(* The top level of Lab#1.                                                 *)
(*                                                                         *)
(* rec_cu follows the host: when the low byte is complete it is waiting    *)
(* for it, with the high byte in ff1.  From then on a sample is Pending    *)
(* until the filter has shown its answer, and its Age is the number of     *)
(* edges since.  NextDone is the least number of edges to the next sample. *)
(***************************************************************************)
HostTypes ==
    /\ BytePairs
    /\ rx \in 0 .. 10 * Look /\ free \in 0 .. RxByte - 1
    /\ rx > 0 \/ RxD_ready => free - rx >= RxByte - 1 - 10 * Look
    /\ RxD_ready \in BOOLEAN /\ FIR_strt \in BOOLEAN
    /\ recPs \in {"idle", "get_msb", "get_lsb", "input_valid"}
    /\ coming.part \in {"hi", "lo"}
    /\ coming = [sample |-> coming.sample, part |-> coming.part]
    /\ ff1 = [hi |-> ff1.hi, lo |-> ff1.lo]
    /\ trnPs \in {"idle", "load_res", "get_lsb", "get_msb1", "get_msb2"}
    /\ rst \in {0, 1, 2}

AtRest   == coming.part = "lo" /\ rx = 0 /\ ~RxD_ready
HighIn   == coming.part = "hi" /\ rx = 0 /\ ~RxD_ready
NewByte(part) == coming.part = part /\ rx >= 9 * Look /\ ~RxD_ready
Complete == coming.part = "lo" /\ rx = 0 /\ RxD_ready

RecFollows ==
    /\ RxD_ready => rx = 0
    /\ ~(coming.part = "lo" /\ rx = 0) => coming.sample \in Sample
    /\ recPs = "idle" =>
         \/ AtRest
         \/ coming.part = "hi" /\ rx > 0
         \/ coming.part = "hi" /\ RxD_ready /\ uart_in = coming.sample.hi
    /\ recPs = "get_msb" =>
         /\ uart_in = coming.sample.hi
         /\ HighIn \/ NewByte("lo")
    /\ recPs = "get_lsb" =>
         /\ ff1.hi = coming.sample.hi
         /\ \/ HighIn
            \/ coming.part = "lo" /\ rx > 0
            \/ /\ Complete /\ coming.sample \in Sample
               /\ ff1 = coming.sample /\ uart_in = ff1.lo
    /\ recPs = "input_valid" => AtRest \/ NewByte("hi")

Arrived  == recPs = "get_lsb" /\ RxD_ready
Entering == Arrived \/ recPs = "input_valid" \/ FIR_strt \/ ps = "getX"
Pending  == Entering \/ ps \in {"calc", "finish"}

Age == IF Arrived THEN 0
       ELSE IF recPs = "input_valid" THEN 1
       ELSE IF FIR_strt THEN 2
       ELSE IF ps = "getX" THEN 3
       ELSE IF ps = "calc" THEN 4 + d_out
       ELSE 4 + Taps

NextDone == IF coming.part = "hi" THEN free + 1 + 9 * Look
            ELSE IF rx > 0 THEN rx ELSE free + RxByte + 1 + 9 * Look

FilterFollows ==
    /\ Entering => sent = Shift(X, ff1) /\ ff1 \in Sample
    /\ ~Entering => sent = X
    /\ Arrived \/ recPs = "input_valid" => ps = "wait_input" /\ ~FIR_strt
    /\ FIR_strt => recPs = "idle" /\ ~RxD_ready /\ ps = "wait_input"
    /\ ps = "getX" => recPs = "idle"
    /\ Pending => NextDone + Age >= 2 * RxByte - Look

(***************************************************************************)
(* The transmitter needs Remaining edges to be ready again.  trn_cu and it *)
(* are at work for no more than BusyFor edges, which must end before the   *)
(* filter shows the next result, in NextFinish edges at the least; and     *)
(* they begin the second byte within AwaitedFor edges, which must be       *)
(* before the next sample is complete.                                     *)
(***************************************************************************)
TxInv ==
    /\ tick \in BOOLEAN /\ count \in 0 .. TickGen - 1 /\ TxD_state \in 0 .. 10
    /\ tick => count = 0 /\ TxD_state # 0

Remaining == IF TxD_state = 0 THEN 0
             ELSE (10 - TxD_state) * TickGen
                    + (IF tick THEN 1 ELSE TickGen - count + 1)

BusyFor == CASE trnPs = "idle"     -> Remaining
             [] trnPs = "get_msb2" -> Remaining + 1
             [] trnPs = "get_msb1" -> 10 * TickGen + 2
             [] trnPs = "get_lsb"  -> Remaining + 10 * TickGen + 3
             [] trnPs = "load_res" -> 20 * TickGen + 5 - count

NextFinish == IF Pending THEN 4 + Taps - Age ELSE NextDone + 4 + Taps

Sending == trnPs \in {"load_res", "get_lsb", "get_msb1"}

AwaitedFor == CASE trnPs = "load_res" -> 10 * TickGen + 4 - count
                [] trnPs = "get_lsb"  -> Remaining + 2
                [] OTHER -> 1

InTime ==
    /\ BusyFor <= NextFinish
    /\ Sending => ~Pending /\ AwaitedFor < NextDone
    /\ trnPs \in {"load_res", "get_msb1"} => TxD_state = 0
    /\ trnPs \in {"get_lsb", "get_msb1"} /\ TxD_state = 0 => count = 1

Owed ==
    /\ Pending => awaited = {"hi", "lo"}
    /\ ~Pending => awaited = CASE trnPs = "load_res" -> {"hi", "lo"}
                               [] trnPs \in {"get_lsb", "get_msb1"} -> {"lo"}
                               [] OTHER -> {}
    /\ trnPs = "idle" => ff2 = result
    /\ Sending => ff2 = Convolution(sent)

\* The first edge of a reset leaves FIR_strt as it was.
FirstEdge == recPs = "idle" /\ ps = "wait_input" /\ sent = X /\ trnPs = "idle"
             /\ coming.part = "lo" /\ rx = 0 /\ ~RxD_ready
             /\ ff2 = result /\ awaited = {}

TopInv ==
    /\ TypeOK /\ PartialSums /\ HostTypes /\ TxInv
    /\ rst # 0 => recPs = "idle"
    /\ rst = 1 => FirstEdge
    /\ rst # 1 => /\ RecFollows /\ FilterFollows
                  /\ HostPauses => InTime /\ Owed
(***************************************************************************)
(* The constants, as numbers.                                              *)
(***************************************************************************)
LEMMA TopNumbers ==
    /\ Taps \in Nat /\ Taps > 0 /\ TickGen \in Nat /\ TickGen >= 2
    /\ Look \in Nat /\ Look >= 2 /\ RxByte \in Nat /\ RxByte > 10 * Look
    /\ Taps + 6 + Look < RxByte
BY TapsAssumption, TickGenAssumption, RxByteAssumption, FilterAssumption

(***************************************************************************)
(* The baud counter counts to TickGen - 1 and starts over.                 *)
(***************************************************************************)
LEMMA CountNext ==
    ASSUME NEW c \in 0 .. TickGen - 1
    PROVE  (c + 1) % TickGen = IF c = TickGen - 1 THEN 0 ELSE c + 1
BY TopNumbers

(***************************************************************************)
(* A bit less to send is TickGen edges less.                               *)
(***************************************************************************)
LEMMA BitsLeft ==
    ASSUME NEW s \in 1 .. 10
    PROVE  /\ (10 - s) * TickGen \in Nat
           /\ (10 - s) * TickGen <= 9 * TickGen
           /\ (10 - (s + 1)) * TickGen = (10 - s) * TickGen - TickGen
           /\ s = 10 => (10 - s) * TickGen = 0
           /\ s = 1 => (10 - s) * TickGen = 9 * TickGen
<1>1. TickGen \in Nat
  BY TopNumbers
<1>2. s = 1 \/ s = 2 \/ s = 3 \/ s = 4 \/ s = 5 \/ s = 6 \/ s = 7 \/ s = 8
      \/ s = 9 \/ s = 10
  OBVIOUS
<1> QED  BY <1>1, <1>2

(***************************************************************************)
(* What a byte takes: at most ten bits and one edge, whatever the counter  *)
(* was left at; while it is sent, each edge is one less.                   *)
(***************************************************************************)
LEMMA RemainingOf ==
    ASSUME NEW t \in BOOLEAN, NEW c \in 0 .. TickGen - 1, NEW s \in 0 .. 10,
           NEW m, m = IF s = 0 THEN 0
                      ELSE (10 - s) * TickGen
                             + (IF t THEN 1 ELSE TickGen - c + 1)
    PROVE  /\ m \in Nat /\ m <= 10 * TickGen + 1
           /\ s = 0 <=> m = 0
           /\ c \in Nat /\ c <= TickGen - 1
<1>1. TickGen \in Nat /\ TickGen >= 2 /\ c \in Nat /\ c <= TickGen - 1
  BY TopNumbers
<1>2. CASE s = 0
  BY <1>1, <1>2
<1>3. CASE s # 0
  <2> DEFINE k == (10 - s) * TickGen
  <2>1. k \in Nat /\ k <= 9 * TickGen
    BY <1>3, BitsLeft
  <2>2. m = k + (IF t THEN 1 ELSE TickGen - c + 1)
    BY <1>3
  <2> HIDE DEF k
  <2> QED  BY <1>1, <1>3, <2>1, <2>2
<1> QED  BY <1>2, <1>3

(* The same, said of the registers.                                        *)
LEMMA RemainingBounds ==
    TxInv => /\ Remaining \in Nat /\ Remaining <= 10 * TickGen + 1
             /\ TxD_state = 0 <=> Remaining = 0
             /\ count \in Nat /\ count <= TickGen - 1
BY RemainingOf DEF TxInv, Remaining

LEMMA TxStep ==
    ASSUME TxInv, NEW start \in BOOLEAN, NEW data, TxEdge(start, data)
    PROVE  /\ TxInv'
           /\ TxD_state = 0 /\ ~start => TxD_state' = 0 /\ count' = count
           /\ TxD_state = 0 /\ start =>
                TxD_state' = 1 /\ Remaining' = 10 * TickGen + 1 - count
           /\ TxD_state # 0 =>
                /\ Remaining' = Remaining - 1
                /\ TxD_state' = 0 => count' = 1
<1>1. /\ TickGen \in Nat /\ TickGen >= 2
      /\ count \in Nat /\ count <= TickGen - 1
      /\ count \in 0 .. TickGen - 1
  BY TopNumbers DEF TxInv
<1>2. /\ tick' \in BOOLEAN
      /\ tick' <=> TxD_state # 0 /\ count = TickGen - 1
      /\ count' = IF TxD_state = 0 THEN count ELSE (count + 1) % TickGen
      /\ TxD_state' = CASE TxD_state = 0 -> IF start THEN 1 ELSE 0
                        [] TxD_state # 0 /\ tick -> (TxD_state + 1) % 11
                        [] OTHER -> TxD_state
  BY DEF TxEdge, BaudTickGen, TxD_busy
<1>3. CASE TxD_state = 0
  <2>1. ~tick' /\ count' = count /\ TxD_state' = IF start THEN 1 ELSE 0
    BY <1>2, <1>3
  <2>2. TxInv'
    BY <1>1, <1>2, <2>1 DEF TxInv
  <2>3. start => Remaining' = 9 * TickGen + (TickGen - count + 1)
    BY <2>1, BitsLeft DEF Remaining
  <2> QED  BY <1>1, <1>3, <2>1, <2>2, <2>3
<1>4. CASE TxD_state # 0 /\ tick
  <2>1. TxD_state \in 1 .. 10 /\ count = 0
    BY <1>4 DEF TxInv
  <2>2. ~tick' /\ count' = 1
    <3>1. count # TickGen - 1 /\ count + 1 = 1
      BY <1>1, <2>1
    <3>2. (count + 1) % TickGen = 1
      BY <1>1, <3>1, CountNext
    <3> QED  BY <1>2, <1>4, <3>1, <3>2
  <2>3. TxD_state' = IF TxD_state = 10 THEN 0 ELSE TxD_state + 1
    BY <1>2, <1>4, <2>1
  <2>4. TxInv'
    BY <1>1, <1>2, <2>1, <2>2, <2>3 DEF TxInv
  <2>5. Remaining = (10 - TxD_state) * TickGen + 1
    BY <1>4 DEF Remaining
  <2>6. CASE TxD_state = 10
    <3>1. Remaining' = 0 /\ Remaining = 1
      BY <2>3, <2>5, <2>6, <1>1, BitsLeft DEF Remaining
    <3> QED  BY <1>4, <2>2, <2>4, <3>1
  <2>7. CASE TxD_state # 10
    <3> DEFINE m == (10 - TxD_state) * TickGen
    <3>1. TxD_state' = TxD_state + 1 /\ TxD_state' # 0
      BY <2>1, <2>3, <2>7
    <3>2. Remaining' = (10 - (TxD_state + 1)) * TickGen + (TickGen - 1 + 1)
      BY <2>2, <3>1 DEF Remaining
    <3>3. /\ (10 - (TxD_state + 1)) * TickGen = m - TickGen
          /\ m \in Nat /\ Remaining = m + 1
      BY <2>1, <2>5, BitsLeft
    <3> HIDE DEF m
    <3>4. Remaining' = Remaining - 1
      BY <1>1, <3>2, <3>3
    <3> QED  BY <1>4, <2>4, <3>1, <3>4
  <2> QED  BY <2>6, <2>7
<1>5. CASE TxD_state # 0 /\ ~tick
  <2>1. TxD_state \in 1 .. 10 /\ TxD_state' = TxD_state
    BY <1>2, <1>5 DEF TxInv
  <2> DEFINE m == (10 - TxD_state) * TickGen
  <2>2. m \in Nat
    BY <2>1, BitsLeft
  <2>3. /\ Remaining = m + (TickGen - count + 1)
        /\ Remaining' = m + (IF tick' THEN 1 ELSE TickGen - count' + 1)
    BY <1>5, <2>1 DEF Remaining
  <2> HIDE DEF m
  <2>4. /\ tick' <=> count = TickGen - 1
        /\ count' = IF count = TickGen - 1 THEN 0 ELSE count + 1
    BY <1>1, <1>2, <1>5, CountNext
  <2>5. Remaining' = Remaining - 1
    BY <1>1, <2>2, <2>3, <2>4
  <2>6. TxInv'
    BY <1>1, <1>2, <2>1, <2>4 DEF TxInv
  <2> QED  BY <1>5, <2>1, <2>5, <2>6
<1> QED  BY <1>3, <1>4, <1>5
(***************************************************************************)
(* The host and the receiver: one edge brings the next sample one edge     *)
(* nearer at most, and completes it when it is one edge away.              *)
(***************************************************************************)
LowDone == RxD_ready' /\ coming.part = "lo"

LEMMA HostStep ==
    ASSUME HostTypes, RecFollows, Line16
    PROVE  /\ rx' \in 0 .. 10 * Look /\ free' \in 0 .. RxByte - 1
           /\ rx' > 0 \/ RxD_ready' => free' - rx' >= RxByte - 1 - 10 * Look
           /\ RxD_ready' \in BOOLEAN
           /\ coming'.part \in {"hi", "lo"}
           /\ coming' = [sample |-> coming'.sample, part |-> coming'.part]
           /\ RxD_ready' => rx = 1 /\ rx' = 0 /\ coming' = coming
                            /\ uart_in' = coming.sample[coming.part]
           /\ ~(coming'.part = "lo" /\ rx' = 0) => coming'.sample \in Sample
           /\ NextDone \in Nat /\ NextDone >= 1 /\ NextDone' \in Nat
           /\ LowDone <=> NextDone = 1
           /\ LowDone => NextDone' >= 2 * RxByte - Look
           /\ ~LowDone => NextDone' >= NextDone - 1
<1> USE DEF HostTypes, LowDone
<1>1. /\ RxByte \in Nat /\ Look \in Nat /\ Look >= 2 /\ RxByte > 10 * Look
      /\ rx \in Nat /\ rx <= 10 * Look /\ coming.part \in {"hi", "lo"}
      /\ free \in Nat /\ free < RxByte
  BY TopNumbers
<1>2. free = 0 => rx = 0
  BY <1>1
<1>3. NextDone \in Nat /\ NextDone >= 1
  BY <1>1 DEF NextDone
<1>4. CASE HostStarts
  <2>1. /\ free = 0 /\ free' = RxByte - 1 /\ rx' \in 9 * Look .. 10 * Look
        /\ ~RxD_ready' /\ RxD_ready' \in BOOLEAN
    BY <1>4 DEF HostStarts
  <2> DEFINE r == rx'
  <2>2. r \in Nat /\ r >= 9 * Look /\ r <= 10 * Look /\ rx = 0 /\ r > 0
    BY <1>1, <1>2, <2>1
  <2>3. /\ r \in 0 .. 10 * Look /\ free' \in 0 .. RxByte - 1
        /\ free' - r >= RxByte - 1 - 10 * Look
    BY <1>1, <2>1, <2>2
  <2>4. CASE coming.part = "lo"
    <3>1. /\ coming'.part = "hi" /\ coming'.sample \in Sample
          /\ coming' = [sample |-> coming'.sample, part |-> coming'.part]
      BY <1>4, <2>4 DEF HostStarts
    <3>2. /\ NextDone = 0 + RxByte + 1 + 9 * Look
          /\ NextDone' = RxByte - 1 + 1 + 9 * Look
      BY <2>1, <2>2, <2>4, <3>1 DEF NextDone
    <3>3. NextDone' \in Nat /\ NextDone # 1 /\ NextDone' >= NextDone - 1
      BY <1>1, <3>2
    <3> QED  BY <1>3, <2>1, <2>2, <2>3, <3>1, <3>3
  <2>5. CASE coming.part = "hi"
    <3>1. /\ coming'.part = "lo" /\ coming'.sample = coming.sample
          /\ coming' = [sample |-> coming'.sample, part |-> coming'.part]
      BY <1>4, <2>5 DEF HostStarts
    <3>2. NextDone = 0 + 1 + 9 * Look /\ NextDone' = r
      BY <2>1, <2>2, <2>5, <3>1 DEF NextDone
    <3>3. NextDone' \in Nat /\ NextDone # 1 /\ NextDone' >= NextDone - 1
      BY <1>1, <2>2, <3>2
    <3>4. coming.sample \in Sample
      BY <2>5 DEF RecFollows
    <3> QED  BY <1>3, <2>1, <2>2, <2>3, <3>1, <3>3, <3>4
  <2> QED  BY <1>1, <2>4, <2>5
<1>5. CASE HostWaits
  <2>1. /\ rx = 0 /\ ~RxD_ready' /\ RxD_ready' \in BOOLEAN
        /\ UNCHANGED <<rx, free, coming>>
    BY <1>2, <1>5 DEF HostWaits
  <2>2. NextDone' = NextDone /\ NextDone # 1
    BY <1>1, <2>1 DEF NextDone
  <2>3. ~(coming.part = "lo" /\ rx = 0) => coming.sample \in Sample
    BY DEF RecFollows
  <2> QED  BY <1>1, <1>3, <2>1, <2>2, <2>3
<1>6. CASE Receive
  <2>1. /\ free > 0 /\ free' = free - 1 /\ coming' = coming
        /\ rx' = IF rx > 0 THEN rx - 1 ELSE 0
        /\ RxD_ready' \in BOOLEAN /\ (RxD_ready' <=> rx = 1)
        /\ rx = 1 => uart_in' = coming.sample[coming.part]
    <3>1. /\ free > 0 /\ free' = free - 1 /\ coming' = coming
          /\ rx' = IF rx > 0 THEN rx - 1 ELSE 0
          /\ RxD_ready' = (rx = 1)
      BY <1>6 DEF Receive
    <3>2. RxD_ready' \in BOOLEAN /\ (RxD_ready' <=> rx = 1)
      BY <3>1
    <3>3. rx = 1 => uart_in' = coming.sample[coming.part]
      <4> DEFINE byte == coming.sample[coming.part]
      <4>1. uart_in' = CASE rx' > 8 * Look -> uart_in
                         [] rx' <= Look -> byte
                         [] OTHER -> Mixed
        BY <1>6, Zenon DEF Receive
      <4>2. rx = 1 => ~(rx' > 8 * Look) /\ rx' <= Look
        BY <1>1, <3>1
      <4> HIDE DEF byte
      <4>3. rx = 1 => uart_in' = byte
        BY <4>1, <4>2
      <4> QED  BY <4>3 DEF byte
    <3> QED  BY <3>1, <3>2, <3>3
  <2> DEFINE r == rx'
             g == free'
             n == NextDone'
  <2>2. ~(coming.part = "lo" /\ rx = 0) => coming.sample \in Sample
    BY DEF RecFollows
  <2>3. /\ r \in 0 .. 10 * Look /\ g \in 0 .. RxByte - 1
        /\ r > 0 \/ rx = 1 => g - r >= RxByte - 1 - 10 * Look
    <3>1. r = (IF rx > 0 THEN rx - 1 ELSE 0) /\ g = free - 1 /\ free > 0
      BY <2>1
    <3>2. rx > 0 => free - rx >= RxByte - 1 - 10 * Look
      OBVIOUS
    <3> HIDE DEF r, g
    <3> QED  BY <1>1, <3>1, <3>2
  <2>4. /\ n \in Nat /\ (LowDone <=> NextDone = 1)
        /\ LowDone => n >= 2 * RxByte - Look
        /\ ~LowDone => n >= NextDone - 1
    <3>1. /\ n = IF coming.part = "hi" THEN g + 1 + 9 * Look
                 ELSE IF r > 0 THEN r ELSE g + RxByte + 1 + 9 * Look
          /\ NextDone = IF coming.part = "hi" THEN free + 1 + 9 * Look
                 ELSE IF rx > 0 THEN rx ELSE free + RxByte + 1 + 9 * Look
      BY <2>1 DEF NextDone
    <3>2. LowDone <=> rx = 1 /\ coming.part = "lo"
      BY <2>1
    <3>3. r = (IF rx > 0 THEN rx - 1 ELSE 0) /\ g = free - 1 /\ g \in Nat
      BY <1>1, <2>1
    <3> HIDE DEF r, g, n
    <3>4. CASE coming.part = "hi"
      BY <1>1, <3>1, <3>2, <3>3, <3>4
    <3>5. CASE coming.part = "lo" /\ rx = 0
      BY <1>1, <3>1, <3>2, <3>3, <3>5
    <3>6. CASE coming.part = "lo" /\ rx = 1
      <4>1. r = 0 /\ n = g + RxByte + 1 + 9 * Look /\ NextDone = 1
        BY <1>1, <3>1, <3>3, <3>6
      <4>2. g >= RxByte - 1 - 10 * Look
        BY <1>1, <2>3, <3>3, <3>6, <4>1
      <4> QED  BY <1>1, <3>2, <3>3, <3>6, <4>1, <4>2
    <3>7. CASE coming.part = "lo" /\ rx > 1
      BY <1>1, <3>1, <3>2, <3>3, <3>7
    <3> QED  BY <1>1, <3>4, <3>5, <3>6, <3>7
  <2>5. RxD_ready' => rx = 1 /\ rx' = 0
    BY <2>1
  <2>6. ~(coming.part = "lo" /\ rx' = 0) => coming.sample \in Sample
    BY <1>1, <2>1, <2>2
  <2>7. /\ rx' > 0 \/ RxD_ready' => free' - rx' >= RxByte - 1 - 10 * Look
        /\ rx' \in 0 .. 10 * Look /\ free' \in 0 .. RxByte - 1
    BY <2>1, <2>3
  <2>8. coming = [sample |-> coming.sample, part |-> coming.part]
    OBVIOUS
  <2>9. RxD_ready' => uart_in' = coming.sample[coming.part]
    BY <2>1
  <2> HIDE DEF r, g, n
  <2>10. /\ coming'.part \in {"hi", "lo"}
         /\ coming' = [sample |-> coming'.sample, part |-> coming'.part]
         /\ ~(coming'.part = "lo" /\ rx' = 0) => coming'.sample \in Sample
    BY <1>1, <2>1, <2>6, <2>8
  <2>11. /\ NextDone' \in Nat /\ (LowDone <=> NextDone = 1)
         /\ LowDone => NextDone' >= 2 * RxByte - Look
         /\ ~LowDone => NextDone' >= NextDone - 1
    BY <2>4 DEF n
  <2> QED  BY <1>3, <2>1, <2>5, <2>7, <2>9, <2>10, <2>11
<1> QED  BY <1>4, <1>5, <1>6 DEF Line16
(***************************************************************************)
(* A byte stays in uart_in for two edges at least: while no byte comes in, *)
(* and at the first edge of the next.                                      *)
(***************************************************************************)
LEMMA ByteStays ==
    ASSUME HostTypes, Line16
    PROVE  /\ rx = 0 =>
                /\ ~RxD_ready'
                /\ uart_in' = uart_in \/ uart_in' = coming.sample[coming.part]
                /\ \/ coming' = coming /\ rx' = 0
                   \/ /\ rx' >= 9 * Look /\ rx' > 0
                      /\ coming.part = "lo" => coming'.part = "hi"
                      /\ coming.part = "hi" =>
                           coming'.part = "lo" /\ coming'.sample = coming.sample
           /\ rx >= 9 * Look =>
                /\ uart_in' = uart_in /\ ~RxD_ready'
                /\ rx' > 0 /\ coming' = coming
           /\ rx > 0 =>
                /\ rx' = rx - 1 /\ coming' = coming
                /\ RxD_ready' <=> rx = 1
<1>1. /\ RxByte \in Nat /\ Look \in Nat /\ Look >= 2 /\ RxByte > 10 * Look
      /\ rx \in Nat /\ coming.part \in {"hi", "lo"} /\ free \in Nat
      /\ rx > 0 => free - rx >= RxByte - 1 - 10 * Look
  BY TopNumbers DEF HostTypes
<1>2. ASSUME HostStarts \/ HostWaits
      PROVE  /\ rx = 0 /\ uart_in' = uart_in /\ ~RxD_ready'
             /\ \/ coming' = coming /\ rx' = 0
                \/ /\ rx' >= 9 * Look /\ rx' > 0
                   /\ coming.part = "lo" => coming'.part = "hi"
                   /\ coming.part = "hi" =>
                        coming'.part = "lo" /\ coming'.sample = coming.sample
  <2>1. free = 0 => rx = 0
    BY <1>1
  <2>2. CASE HostStarts
    <3>1. coming = [sample |-> coming.sample, part |-> coming.part]
      BY DEF HostTypes
    <3>2. rx' \in 9 * Look .. 10 * Look /\ free = 0 /\ uart_in' = uart_in
          /\ ~RxD_ready'
      BY <2>2 DEF HostStarts
    <3>3. rx' >= 9 * Look /\ rx' > 0
      BY <1>1, <3>2
    <3>4. /\ coming.part = "lo" => coming'.part = "hi"
          /\ coming.part = "hi" =>
               coming'.part = "lo" /\ coming'.sample = coming.sample
      BY <2>2, <3>1 DEF HostStarts
    <3> QED  BY <2>1, <3>2, <3>3, <3>4
  <2>3. CASE HostWaits
    BY <2>1, <2>3 DEF HostWaits
  <2> QED  BY <1>2, <2>2, <2>3
<1>3. ASSUME Receive
      PROVE  /\ rx > 0 => rx' = rx - 1
             /\ rx = 0 => /\ rx' = 0
                          /\ uart_in' = coming.sample[coming.part]
             /\ coming' = coming
             /\ RxD_ready' <=> rx = 1
             /\ rx >= 9 * Look => uart_in' = uart_in
  <2>1. /\ rx' = IF rx > 0 THEN rx - 1 ELSE 0
        /\ coming' = coming /\ RxD_ready' = (rx = 1)
    BY <1>3 DEF Receive
  <2>2. RxD_ready' <=> rx = 1
    BY <2>1
  <2> DEFINE byte == coming.sample[coming.part]
             r == rx'
  <2>3. uart_in' = CASE r > 8 * Look -> uart_in
                     [] r <= Look -> byte
                     [] OTHER -> Mixed
    BY <1>3, Zenon DEF Receive
  <2>4. rx > 0 => r = rx - 1
    BY <1>1, <2>1
  <2>5. rx = 0 => r = 0
    BY <1>1, <2>1
  <2> HIDE DEF byte, r
  <2>6. rx = 0 => uart_in' = byte
    <3>1. rx = 0 => ~(r > 8 * Look) /\ r <= Look
      BY <1>1, <2>5
    <3> QED  BY <2>3, <3>1
  <2>7. rx >= 9 * Look => uart_in' = uart_in
    <3>1. rx >= 9 * Look => r > 8 * Look
      BY <1>1, <2>4
    <3>2. r > 8 * Look => ~(r <= Look)
      BY <1>1, <2>4, <2>5
    <3> QED  BY <2>3, <3>1, <3>2
  <2> QED  BY <2>1, <2>2, <2>4, <2>5, <2>6, <2>7 DEF byte, r
<1>4. CASE HostStarts \/ HostWaits
  <2>1. ~(rx >= 9 * Look) /\ ~(rx > 0)
    BY <1>1, <1>2, <1>4
  <2> QED  BY <1>2, <1>4, <2>1
<1>5. CASE Receive
  <2>1. rx = 0 => rx # 1
    OBVIOUS
  <2>2. rx >= 9 * Look => rx > 0 /\ rx # 1 /\ rx - 1 > 0
    BY <1>1
  <2> QED  BY <1>3, <1>5, <2>1, <2>2
<1> QED  BY <1>4, <1>5 DEF Line16

(***************************************************************************)
(* ff1 takes the high byte in get_msb, follows uart_in in get_lsb, and is  *)
(* closed otherwise, because ff1_load is a register.                       *)
(***************************************************************************)
LEMMA Ff1Step ==
    ASSUME RecOutputs, Ff1
    PROVE  /\ recPs = "get_msb" => ff1' = [ff1 EXCEPT !.hi = uart_in']
           /\ recPs = "get_lsb" => ff1' = [ff1 EXCEPT !.lo = uart_in']
           /\ recPs \notin {"get_msb", "get_lsb"} => ff1' = ff1
           /\ FIR_strt' \in BOOLEAN /\ (FIR_strt' <=> recPs = "input_valid")
<1>1. /\ ff1_Sel' = (recPs = "get_msb")
      /\ ff1_load' = (recPs \in {"get_msb", "get_lsb"})
      /\ FIR_strt' = (recPs = "input_valid")
  BY DEF RecOutputs
<1>2. /\ ff1_Sel' <=> recPs = "get_msb"
      /\ ff1_load' <=> recPs \in {"get_msb", "get_lsb"}
      /\ FIR_strt' \in BOOLEAN /\ (FIR_strt' <=> recPs = "input_valid")
  BY <1>1
<1> QED  BY <1>2 DEF Ff1

(***************************************************************************)
(* rec_cu stays in step with the bytes that come in, and when the second   *)
(* is complete ff1 holds the sample the host sent.                         *)
(***************************************************************************)
RecEdge == Line16 /\ RecOutputs /\ RecNext /\ Ff1

LEMMA RecStep ==
    ASSUME HostTypes, RecFollows, RecEdge
    PROVE  /\ RecFollows'
           /\ recPs' \in {"idle", "get_msb", "get_lsb", "input_valid"}
           /\ ff1' = [hi |-> ff1'.hi, lo |-> ff1'.lo]
           /\ Arrived' <=> LowDone
           /\ LowDone => /\ recPs = "get_lsb" /\ recPs' = "get_lsb" /\ ~Arrived
                         /\ ff1' = coming.sample /\ coming.sample \in Sample
           /\ recPs' = "input_valid" <=> Arrived
           /\ Arrived \/ recPs \in {"idle", "input_valid"} => ff1' = ff1
           /\ recPs = "input_valid" => recPs' = "idle" /\ ~RxD_ready'
<1> USE DEF RecEdge
<1>1. /\ Look \in Nat /\ Look >= 2
      /\ rx \in Nat /\ coming.part \in {"hi", "lo"}
      /\ RxD_ready \in BOOLEAN
  BY TopNumbers DEF HostTypes
<1>2. RxD_ready' => rx = 1 /\ rx' = 0 /\ coming' = coming
                    /\ uart_in' = coming.sample[coming.part]
  BY HostStep
<1>3. ~(coming'.part = "lo" /\ rx' = 0) => coming'.sample \in Sample
  BY HostStep
<1>4. coming.part = "hi" => coming'.sample = coming.sample
  BY <1>1, ByteStays
<1>5. ff1 = [hi |-> ff1.hi, lo |-> ff1.lo]
  BY DEF HostTypes
<1>6. ASSUME recPs = "idle"
      PROVE  /\ RecFollows' /\ ff1' = ff1 /\ ~LowDone
             /\ recPs' \in {"idle", "get_msb"}
  <2>1. recPs' = IF RxD_ready THEN "get_msb" ELSE "idle"
    BY <1>6 DEF RecNext
  <2>2. ff1' = ff1
    BY <1>6, Ff1Step
  <2>3. CASE AtRest
    <3>1. rx = 0 /\ ~RxD_ready' /\ recPs' = "idle"
      BY <2>1, <2>3, ByteStays DEF AtRest
    <3>2. AtRest' \/ (coming'.part = "hi" /\ rx' > 0)
      BY <1>1, <2>3, <3>1, ByteStays DEF AtRest
    <3> QED  BY <1>3, <2>2, <3>1, <3>2 DEF RecFollows, LowDone
  <2>4. CASE coming.part = "hi" /\ rx > 0
    <3>1. ~RxD_ready /\ recPs' = "idle"
      BY <1>1, <2>1, <2>4 DEF RecFollows
    <3>2. rx' = rx - 1 /\ coming' = coming /\ (RxD_ready' <=> rx = 1)
      BY <2>4, ByteStays
    <3>3. RxD_ready' => uart_in' = coming'.sample.hi
      BY <1>2, <2>4
    <3> QED  BY <1>1, <1>2, <1>3, <2>2, <2>4, <3>1, <3>2, <3>3
             DEF RecFollows, LowDone
  <2>5. CASE coming.part = "hi" /\ RxD_ready /\ uart_in = coming.sample.hi
    <3>1. rx = 0 /\ recPs' = "get_msb"
      BY <2>1, <2>5 DEF RecFollows
    <3>2. uart_in' = coming'.sample.hi /\ ~RxD_ready'
      BY <1>4, <2>5, <3>1, ByteStays
    <3>3. HighIn' \/ NewByte("lo")'
      BY <2>5, <3>1, <3>2, ByteStays DEF HighIn, NewByte
    <3> QED  BY <1>3, <2>2, <3>1, <3>2, <3>3 DEF RecFollows, LowDone
  <2> QED  BY <1>6, <2>3, <2>4, <2>5 DEF RecFollows
<1>7. ASSUME recPs = "get_msb"
      PROVE  /\ RecFollows' /\ ~LowDone /\ ~RxD_ready' /\ recPs' = "get_lsb"
             /\ ff1' = [hi |-> ff1'.hi, lo |-> ff1'.lo]
  <2>1. recPs' = "get_lsb"
    BY <1>7 DEF RecNext
  <2>2. ff1' = [hi |-> uart_in', lo |-> ff1.lo]
    BY <1>5, <1>7, Ff1Step
  <2>3. uart_in = coming.sample.hi /\ (HighIn \/ NewByte("lo"))
    BY <1>7 DEF RecFollows
  <2>4. /\ uart_in' = uart_in /\ ~RxD_ready'
        /\ coming'.sample = coming.sample
        /\ HighIn' \/ (coming'.part = "lo" /\ rx' > 0)
    <3>1. CASE HighIn
      BY <1>1, <1>4, <2>3, <3>1, ByteStays DEF HighIn
    <3>2. CASE NewByte("lo")
      BY <1>1, <3>2, ByteStays DEF NewByte
    <3> QED  BY <2>3, <3>1, <3>2
  <2> QED  BY <1>3, <2>1, <2>2, <2>3, <2>4 DEF RecFollows, LowDone
<1>8. ASSUME recPs = "get_lsb", ~RxD_ready
      PROVE  /\ RecFollows' /\ recPs' = "get_lsb"
             /\ ff1' = [hi |-> ff1'.hi, lo |-> ff1'.lo]
             /\ RxD_ready' => LowDone
             /\ LowDone => ff1' = coming.sample /\ coming.sample \in Sample
  <2>1. recPs' = "get_lsb"
    BY <1>8 DEF RecNext
  <2>2. ff1' = [hi |-> ff1.hi, lo |-> uart_in']
    BY <1>5, <1>8, Ff1Step
  <2>3. ff1.hi = coming.sample.hi
    BY <1>8 DEF RecFollows
  <2>4. CASE HighIn
    <3>1. ~RxD_ready' /\ coming'.sample = coming.sample
          /\ (HighIn' \/ (coming'.part = "lo" /\ rx' > 0))
      BY <1>1, <1>4, <2>4, ByteStays DEF HighIn
    <3> QED  BY <1>3, <2>1, <2>2, <2>3, <3>1 DEF RecFollows, LowDone
  <2>5. CASE coming.part = "lo" /\ rx > 0
    <3>1. rx' = rx - 1 /\ coming' = coming /\ (RxD_ready' <=> rx = 1)
      BY <2>5, ByteStays
    <3>2. coming.sample \in Sample
      BY <2>5 DEF RecFollows
    <3>3. RxD_ready' => ff1' = coming.sample /\ uart_in' = ff1'.lo
      <4>1. coming.sample = [hi |-> coming.sample.hi, lo |-> coming.sample.lo]
        BY <3>2 DEF HostTypes, BytePairs
      <4> QED  BY <1>2, <2>2, <2>3, <2>5, <4>1
    <3>4. ~RxD_ready' => rx' > 0
      BY <1>1, <2>5, <3>1
    <3> QED  BY <1>1, <1>2, <1>3, <2>1, <2>2, <2>3, <2>5, <3>1, <3>2, <3>3, <3>4
             DEF RecFollows, LowDone, Complete
  <2> QED  BY <1>8, <2>4, <2>5 DEF RecFollows, Complete
<1>9. ASSUME Arrived
      PROVE  RecFollows' /\ ff1' = ff1 /\ recPs' = "input_valid" /\ ~RxD_ready'
  <2>1. recPs' = "input_valid"
    BY <1>9 DEF RecNext, Arrived
  <2>2. Complete /\ ff1 = coming.sample /\ uart_in = ff1.lo
    BY <1>9 DEF RecFollows, Arrived, HighIn
  <2>3. rx = 0 /\ uart_in' = uart_in /\ ~RxD_ready'
    BY <2>2, ByteStays DEF Complete
  <2>4. ff1' = ff1
    BY <1>5, <1>9, <2>2, <2>3, Ff1Step DEF Arrived
  <2>5. AtRest' \/ NewByte("hi")'
    BY <2>2, <2>3, ByteStays DEF Complete, AtRest, NewByte
  <2> QED  BY <1>3, <2>1, <2>3, <2>4, <2>5 DEF RecFollows
<1>10. ASSUME recPs = "input_valid"
       PROVE  RecFollows' /\ ff1' = ff1 /\ recPs' = "idle" /\ ~RxD_ready'
  <2>1. recPs' = "idle"
    BY <1>10 DEF RecNext
  <2>2. ff1' = ff1
    BY <1>10, Ff1Step
  <2>3. AtRest \/ NewByte("hi")
    BY <1>10 DEF RecFollows
  <2>4. ~RxD_ready' /\ (AtRest' \/ (coming'.part = "hi" /\ rx' > 0))
    <3>1. CASE AtRest
      BY <1>1, <3>1, ByteStays DEF AtRest
    <3>2. CASE NewByte("hi")
      BY <1>1, <3>2, ByteStays DEF NewByte
    <3> QED  BY <2>3, <3>1, <3>2
  <2> QED  BY <1>3, <2>1, <2>2, <2>4 DEF RecFollows
<1>11. recPs \in {"idle", "get_msb", "get_lsb", "input_valid"}
  BY DEF HostTypes
<1>12. Arrived <=> recPs = "get_lsb" /\ RxD_ready
  BY DEF Arrived
<1>13. Arrived' <=> recPs' = "get_lsb" /\ RxD_ready'
  BY DEF Arrived
<1>14. LowDone => RxD_ready'
  BY DEF LowDone
<1>15. RecFollows'
  BY <1>6, <1>7, <1>8, <1>9, <1>10, <1>11, <1>12
<1>16. recPs' \in {"idle", "get_msb", "get_lsb", "input_valid"}
  BY <1>6, <1>7, <1>8, <1>9, <1>10, <1>11, <1>12
<1>17. ff1' = [hi |-> ff1'.hi, lo |-> ff1'.lo]
  <2>1. ff1' = ff1 \/ ff1' = [hi |-> ff1'.hi, lo |-> ff1'.lo]
    BY <1>6, <1>7, <1>8, <1>9, <1>10, <1>11, <1>12
  <2> QED  BY <1>5, <2>1
<1>18. Arrived' <=> LowDone
  <2>1. CASE recPs \in {"idle", "input_valid"}
    <3>1. ~LowDone /\ recPs' # "get_lsb"
      BY <1>6, <1>10, <1>14, <2>1
    <3> QED  BY <1>13, <3>1
  <2>2. CASE recPs = "get_msb"
    <3>1. ~LowDone /\ recPs' = "get_lsb" /\ ~RxD_ready'
      BY <1>7, <2>2
    <3> QED  BY <1>13, <3>1
  <2>3. CASE recPs = "get_lsb" /\ ~RxD_ready
    BY <1>8, <1>13, <1>14, <2>3
  <2>4. CASE Arrived
    BY <1>9, <1>13, <1>14, <2>4
  <2> QED  BY <1>11, <1>12, <2>1, <2>2, <2>3, <2>4
<1>19. LowDone => /\ recPs = "get_lsb" /\ recPs' = "get_lsb" /\ ~Arrived
                  /\ ff1' = coming.sample /\ coming.sample \in Sample
  BY <1>6, <1>7, <1>8, <1>9, <1>10, <1>11, <1>12, <1>14
<1>20. recPs' = "input_valid" <=> Arrived
  BY <1>6, <1>7, <1>8, <1>9, <1>10, <1>11, <1>12
<1>21. Arrived \/ recPs \in {"idle", "input_valid"} => ff1' = ff1
  BY <1>6, <1>9, <1>10
<1>22. recPs = "input_valid" => recPs' = "idle" /\ ~RxD_ready'
  BY <1>10
<1> QED  BY <1>15, <1>16, <1>17, <1>18, <1>19, <1>20, <1>21, <1>22

(***************************************************************************)
(* A pending sample is one edge older at every edge; the next is complete  *)
(* when the filter has shown the answer.                                   *)
(***************************************************************************)
LEMMA FilterStep ==
    ASSUME TypeOK, PartialSums, HostTypes, RecFollows, FilterFollows,
           RecEdge, Clock(FIR_strt, ff1), Account
    PROVE  /\ FilterFollows'
           /\ LowDone => /\ ~Pending /\ Pending' /\ Age' = 0
                         /\ sent' = Shift(sent, coming.sample)
           /\ ~LowDone => sent' = sent
           /\ Pending => Age \in 0 .. 4 + Taps
           /\ Pending => (Age = 4 + Taps <=> ps = "finish")
           /\ Pending /\ ps # "finish" => Pending' /\ Age' = Age + 1
           /\ ps = "finish" => Pending /\ ~Pending'
           /\ ~Pending /\ ~LowDone => ~Pending'
           /\ NextDone \in Nat /\ NextDone >= 1 /\ NextDone' \in Nat
           /\ LowDone <=> NextDone = 1
           /\ ~LowDone => NextDone' >= NextDone - 1
           /\ Pending => NextDone + Age >= 2 * RxByte - Look
<1>1. /\ Taps \in Nat /\ Taps > 0 /\ RxByte \in Nat /\ Look \in Nat
      /\ Taps + 6 + Look < RxByte /\ RxByte > 10 * Look
      /\ d_out \in Nat /\ d_out < Taps
  BY TopNumbers DEF TypeOK, Tap
<1>2. /\ NextDone \in Nat /\ NextDone >= 1
      /\ LowDone <=> NextDone = 1
      /\ LowDone => NextDone' >= 2 * RxByte - Look
      /\ ~LowDone => NextDone' >= NextDone - 1
      /\ NextDone' \in Nat
  BY HostStep DEF RecEdge
<1>3. /\ Arrived' <=> LowDone
      /\ recPs' = "input_valid" <=> Arrived
      /\ FIR_strt' \in BOOLEAN /\ (FIR_strt' <=> recPs = "input_valid")
  BY RecStep, Ff1Step DEF RecEdge
<1>4. /\ Arrived \/ recPs \in {"idle", "input_valid"} => ff1' = ff1
      /\ LowDone => /\ recPs = "get_lsb" /\ recPs' = "get_lsb" /\ ~Arrived
                    /\ ff1' = coming.sample /\ coming.sample \in Sample
      /\ recPs = "input_valid" => recPs' = "idle" /\ ~RxD_ready'
  BY RecStep
<1>5. sent' = IF LowDone THEN Shift(sent, coming.sample) ELSE sent
  BY DEF Account, LowDone
<1>6. /\ ps = "wait_input" => /\ ps' = IF FIR_strt THEN "getX" ELSE "wait_input"
                              /\ X' = X /\ d_out' = d_out
      /\ ps = "getX" => ps' = "calc" /\ X' = Shift(X, ff1) /\ d_out' = d_out
      /\ ps = "calc" => /\ X' = X
                        /\ ps' = IF d_out = Taps - 1 THEN "finish" ELSE "calc"
                        /\ d_out' = IF d_out = Taps - 1 THEN 0 ELSE d_out + 1
      /\ ps = "finish" => ps' = "wait_input" /\ X' = X /\ d_out' = d_out
  BY DEF Clock, WaitInput, GetX, Calc, Finish, co, Count
<1>7. ps \in {"wait_input", "getX", "calc", "finish"}
  BY DEF TypeOK, State
<1>8. /\ Arrived \/ recPs = "input_valid" => ps = "wait_input" /\ ~FIR_strt
      /\ FIR_strt => recPs = "idle" /\ ~RxD_ready /\ ps = "wait_input"
      /\ ps = "getX" => recPs = "idle"
      /\ Pending => NextDone + Age >= 2 * RxByte - Look
      /\ Entering => sent = Shift(X, ff1) /\ ff1 \in Sample
      /\ ~Entering => sent = X
  BY DEF FilterFollows
<1>9. FIR_strt \in BOOLEAN /\ (Arrived => recPs = "get_lsb")
  BY DEF HostTypes, Arrived
<1>10. /\ Entering <=> Arrived \/ recPs = "input_valid" \/ FIR_strt \/ ps = "getX"
       /\ Entering' <=> Arrived' \/ recPs' = "input_valid" \/ FIR_strt' \/ ps' = "getX"
       /\ Pending <=> Entering \/ ps = "calc" \/ ps = "finish"
       /\ Pending' <=> Entering' \/ ps' = "calc" \/ ps' = "finish"
  BY DEF Entering, Pending
<1>11. Pending => /\ Age \in 0 .. 4 + Taps
                  /\ Age = 4 + Taps <=> ps = "finish"
  BY <1>1, <1>7, <1>8, <1>10 DEF Age
<1>12. LowDone => ~Pending
  BY <1>1, <1>2, <1>8, <1>11
<1> SUFFICES /\ FilterFollows'
             /\ LowDone => /\ ~Pending /\ Pending' /\ Age' = 0
                           /\ sent' = Shift(sent, coming.sample)
             /\ ~LowDone => sent' = sent
             /\ Pending => Age \in 0 .. 4 + Taps
             /\ Pending => (Age = 4 + Taps <=> ps = "finish")
             /\ Pending /\ ps # "finish" => Pending' /\ Age' = Age + 1
             /\ ps = "finish" => Pending /\ ~Pending'
             /\ ~Pending /\ ~LowDone => ~Pending'
  BY <1>2, <1>8
\* One step for each age of a pending sample.
<1> DEFINE Older == Pending' /\ Age' = Age + 1 /\ FilterFollows'
<1>13. ASSUME Pending, Age' \in Nat, Age' = Age + 1
       PROVE  Pending' => NextDone' + Age' >= 2 * RxByte - Look
  <2>1. NextDone' >= NextDone - 1
    BY <1>2, <1>12, <1>13
  <2> QED  BY <1>1, <1>2, <1>8, <1>11, <1>13, <2>1
<1>14. CASE Arrived
  <2>1. /\ ~Arrived' /\ recPs' = "input_valid" /\ ~FIR_strt' /\ ps' = "wait_input"
        /\ X' = X /\ sent' = sent /\ ff1' = ff1
    BY <1>3, <1>4, <1>5, <1>6, <1>8, <1>9, <1>14
  <2>2. Age' = Age + 1 /\ Age' \in Nat /\ Pending
    BY <1>14, <2>1 DEF Age, Pending, Entering
  <2>3. Older
    BY <1>8, <1>10, <1>13, <1>14, <2>1, <2>2 DEF FilterFollows
  <2> QED  BY <1>5, <1>8, <1>10, <1>11, <1>12, <1>14, <2>1, <2>3
<1>15. CASE recPs = "input_valid"
  <2>1. /\ ~Arrived' /\ recPs' = "idle" /\ FIR_strt' /\ ps' = "wait_input"
        /\ X' = X /\ sent' = sent /\ ff1' = ff1 /\ ~RxD_ready'
    BY <1>3, <1>4, <1>5, <1>6, <1>8, <1>9, <1>15
  <2>2. Age' = Age + 1 /\ Age' \in Nat /\ Pending
    BY <1>9, <1>15, <2>1 DEF Age, Pending, Entering
  <2>3. Older
    BY <1>8, <1>10, <1>13, <1>15, <2>1, <2>2 DEF FilterFollows
  <2> QED  BY <1>5, <1>8, <1>10, <1>11, <1>12, <1>15, <2>1, <2>3
<1>16. CASE FIR_strt
  <2>1. recPs' = "idle"
    BY <1>8, <1>16 DEF RecEdge, RecNext
  <2>2. /\ ~Arrived' /\ ~FIR_strt' /\ ps' = "getX"
        /\ X' = X /\ sent' = sent /\ ff1' = ff1
    BY <1>3, <1>4, <1>5, <1>6, <1>8, <1>9, <1>16
  <2>3. Age' = Age + 1 /\ Age' \in Nat /\ Pending
    BY <1>8, <1>9, <1>16, <2>1, <2>2 DEF Age, Pending, Entering
  <2>4. Older
    BY <1>8, <1>10, <1>13, <1>16, <2>1, <2>2, <2>3 DEF FilterFollows
  <2> QED  BY <1>5, <1>8, <1>10, <1>11, <1>12, <1>16, <2>1, <2>2, <2>4
<1>17. CASE ps = "getX"
  <2>1. /\ ~Arrived' /\ recPs' # "input_valid" /\ ~FIR_strt' /\ ps' = "calc"
        /\ X' = Shift(X, ff1) /\ sent' = sent /\ d_out' = 0
    BY <1>3, <1>4, <1>5, <1>6, <1>8, <1>9, <1>17 DEF PartialSums
  <2>2. Age' = Age + 1 /\ Age' \in Nat /\ Pending
    BY <1>8, <1>9, <1>17, <2>1 DEF Age, Pending, Entering
  <2>3. Older
    BY <1>8, <1>10, <1>13, <1>17, <2>1, <2>2 DEF FilterFollows
  <2> QED  BY <1>5, <1>8, <1>10, <1>11, <1>12, <1>17, <2>1, <2>3
<1>18. CASE ps = "calc"
  <2>1. ~Entering /\ ~LowDone /\ Pending
    BY <1>8, <1>9, <1>10, <1>12, <1>18
  <2>2. /\ ~Arrived' /\ recPs' # "input_valid" /\ ~FIR_strt'
        /\ X' = X /\ sent' = sent
        /\ ps' = IF d_out = Taps - 1 THEN "finish" ELSE "calc"
        /\ d_out' = IF d_out = Taps - 1 THEN 0 ELSE d_out + 1
    BY <1>3, <1>5, <1>6, <1>10, <1>18, <2>1
  <2>3. Age = 4 + d_out
    BY <1>10, <1>18, <2>1 DEF Age
  <2>4. Age' = IF d_out = Taps - 1 THEN 4 + Taps ELSE 4 + (d_out + 1)
    BY <2>2 DEF Age
  <2>5. Age' = Age + 1 /\ Age' \in Nat
    BY <1>1, <2>3, <2>4
  <2>6. Older
    BY <1>8, <1>10, <1>13, <1>18, <2>1, <2>2, <2>5 DEF FilterFollows
  <2> QED  BY <1>5, <1>8, <1>10, <1>11, <1>18, <2>1, <2>2, <2>6
<1>19. CASE ps = "finish"
  <2>1. ~Entering /\ ~LowDone /\ Pending
    BY <1>8, <1>9, <1>10, <1>12, <1>19
  <2>2. /\ ~Arrived' /\ recPs' # "input_valid" /\ ~FIR_strt'
        /\ X' = X /\ sent' = sent /\ ps' = "wait_input"
    BY <1>3, <1>5, <1>6, <1>10, <1>19, <2>1
  <2>3. ~Pending' /\ FilterFollows'
    BY <1>8, <1>10, <1>19, <2>1, <2>2 DEF FilterFollows
  <2> QED  BY <1>5, <1>11, <1>19, <2>1, <2>2, <2>3
<1>20. CASE ~Pending
  <2>1. /\ ps = "wait_input" /\ ~FIR_strt /\ recPs # "input_valid" /\ ~Arrived
        /\ sent = X
    BY <1>7, <1>8, <1>10, <1>20
  <2>2. /\ ps' = "wait_input" /\ X' = X /\ ~FIR_strt' /\ recPs' # "input_valid"
    BY <1>3, <1>6, <2>1
  <2>3. CASE LowDone
    <3>1. Arrived' /\ sent' = Shift(X', ff1') /\ ff1' \in Sample
      BY <1>3, <1>4, <1>5, <2>1, <2>2, <2>3
    <3>2. Age' = 0
      BY <3>1 DEF Age
    <3>3. NextDone' + Age' >= 2 * RxByte - Look
      <4> DEFINE n == NextDone'
      <4>1. n \in Nat /\ n >= 2 * RxByte - Look
        BY <1>2, <2>3
      <4> HIDE DEF n
      <4>2. n + 0 >= 2 * RxByte - Look
        BY <1>1, <4>1
      <4> QED  BY <3>2, <4>2 DEF n
    <3>4. FilterFollows' /\ Pending'
      BY <1>10, <2>2, <2>3, <3>1, <3>3 DEF FilterFollows
    <3> QED  BY <1>5, <1>20, <2>1, <2>2, <2>3, <3>2, <3>4
  <2>4. CASE ~LowDone
    <3>1. ~Pending' /\ ~Entering'
      BY <1>3, <1>10, <2>2, <2>4
    <3>2. FilterFollows' /\ sent' = sent
      BY <1>5, <1>10, <2>1, <2>2, <2>4, <3>1 DEF FilterFollows
    <3> QED  BY <1>20, <2>1, <2>2, <2>4, <3>1, <3>2
  <2> QED  BY <2>3, <2>4
<1> QED  BY <1>10, <1>14, <1>15, <1>16, <1>17, <1>18, <1>19, <1>20

(***************************************************************************)
(* The filter shows its next answer one edge sooner at every edge, and     *)
(* after it has shown one not before two more bytes have come in.          *)
(***************************************************************************)
LEMMA FinishStep ==
    ASSUME TypeOK, PartialSums, HostTypes, RecFollows, FilterFollows,
           RecEdge, Clock(FIR_strt, ff1), Account
    PROVE  /\ NextFinish \in Nat /\ NextFinish' \in Nat
           /\ ps # "finish" => NextFinish >= 1 /\ NextFinish' >= NextFinish - 1
           /\ ps = "finish" => /\ NextFinish = 0
                               /\ NextFinish' >= 2 * RxByte - Look - 1
                               /\ NextDone' >= RxByte + 2
<1> DEFINE n == NextDone'
           a == Age'
           f == NextFinish'
<1>1. /\ Taps \in Nat /\ RxByte \in Nat /\ Look \in Nat
      /\ Taps + 6 + Look < RxByte
  BY TopNumbers
<1>2. /\ NextDone \in Nat /\ NextDone >= 1 /\ n \in Nat
      /\ LowDone <=> NextDone = 1
      /\ ~LowDone => n >= NextDone - 1
      /\ LowDone => ~Pending /\ Pending' /\ a = 0
      /\ Pending => Age \in 0 .. 4 + Taps /\ NextDone + Age >= 2 * RxByte - Look
      /\ Pending => (Age = 4 + Taps <=> ps = "finish")
      /\ Pending /\ ps # "finish" => Pending' /\ a = Age + 1
      /\ ps = "finish" => Pending /\ ~Pending'
      /\ ~Pending /\ ~LowDone => ~Pending'
  BY FilterStep
<1>3. /\ NextFinish = IF Pending THEN 4 + Taps - Age ELSE NextDone + 4 + Taps
      /\ f = IF Pending' THEN 4 + Taps - a ELSE n + 4 + Taps
  BY DEF NextFinish
<1> HIDE DEF n, a, f
<1>4. ASSUME ps = "finish"
      PROVE  /\ NextFinish = 0 /\ f \in Nat /\ f >= 2 * RxByte - Look - 1
             /\ n >= RxByte + 2
  <2>1. Pending /\ ~Pending' /\ ~LowDone /\ Age = 4 + Taps
    BY <1>2, <1>4
  <2>2. NextDone + (4 + Taps) >= 2 * RxByte - Look /\ n >= NextDone - 1
    BY <1>2, <2>1
  <2>3. NextFinish = 0 /\ f = n + 4 + Taps
    BY <1>1, <1>3, <2>1
  <2> QED  BY <1>1, <1>2, <2>2, <2>3
<1> DEFINE Sooner == /\ NextFinish \in Nat /\ NextFinish >= 1
                     /\ f \in Nat /\ f >= NextFinish - 1
<1>5. ASSUME Pending, ps # "finish" PROVE Sooner
  <2>1. Pending' /\ a = Age + 1 /\ Age \in 0 .. 4 + Taps /\ Age # 4 + Taps
    BY <1>2, <1>5
  <2>2. NextFinish = 4 + Taps - Age /\ f = 4 + Taps - a
    BY <1>3, <1>5, <2>1
  <2> QED  BY <1>1, <2>1, <2>2
<1>6. ASSUME ~Pending, LowDone PROVE Sooner
  <2>1. Pending' /\ a = 0 /\ NextDone = 1
    BY <1>2, <1>6
  <2>2. NextFinish = NextDone + 4 + Taps /\ f = 4 + Taps - a
    BY <1>3, <1>6, <2>1
  <2> QED  BY <1>1, <2>1, <2>2
<1>7. ASSUME ~Pending, ~LowDone PROVE Sooner
  <2>1. ~Pending' /\ n >= NextDone - 1
    BY <1>2, <1>7
  <2>2. NextFinish = NextDone + 4 + Taps /\ f = n + 4 + Taps
    BY <1>3, <1>7, <2>1
  <2> QED  BY <1>1, <1>2, <2>1, <2>2
<1>8. ps # "finish" => Sooner
  BY <1>5, <1>6, <1>7
<1> QED  BY <1>4, <1>8 DEF f, n

(***************************************************************************)
(* trn_cu is in time: it is idle when the filter shows a result, and has   *)
(* begun both bytes before the next sample is complete.                    *)
(***************************************************************************)
LEMMA TrnStep ==
    ASSUME TypeOK, PartialSums, HostTypes, TxInv, RecFollows, FilterFollows,
           HostPauses, InTime, Owed,
           RecEdge, Clock(FIR_strt, ff1), Account,
           TrnNext, Ff2, TxEdge(TxD_start, uart_out)
    PROVE  InTime' /\ Owed'
<1> DEFINE n == NextDone'
           f == NextFinish'
           r == Remaining'
           c == count'
           b == BusyFor'
           w == AwaitedFor'
<1>1. /\ TickGen \in Nat /\ TickGen >= 2 /\ RxByte \in Nat /\ Look \in Nat
      /\ 2 * RxByte - Look >= 20 * TickGen + 6
      /\ RxByte >= 10 * TickGen + 3
  BY TopNumbers DEF HostPauses
<1>2. /\ NextDone \in Nat /\ NextDone >= 1 /\ n \in Nat
      /\ LowDone <=> NextDone = 1
      /\ ~LowDone => n >= NextDone - 1
      /\ LowDone => ~Pending /\ Pending'
      /\ Pending /\ ps # "finish" => Pending'
      /\ ps = "finish" => Pending /\ ~Pending'
      /\ ~Pending /\ ~LowDone => ~Pending'
      /\ ~LowDone => sent' = sent
  BY FilterStep
<1>3. /\ NextFinish \in Nat /\ f \in Nat
      /\ ps # "finish" => NextFinish >= 1 /\ f >= NextFinish - 1
      /\ ps = "finish" => /\ NextFinish = 0 /\ f >= 2 * RxByte - Look - 1
                          /\ n >= RxByte + 2
  BY FinishStep
<1>4. TxD_start \in BOOLEAN
  BY DEF TxD_start
<1>5. /\ TxD_state = 0 /\ ~TxD_start => TxD_state' = 0 /\ c = count
      /\ TxD_state = 0 /\ TxD_start =>
           TxD_state' = 1 /\ r = 10 * TickGen + 1 - count
      /\ TxD_state # 0 => r = Remaining - 1 /\ (TxD_state' = 0 => c = 1)
      /\ TxInv'
  BY <1>4, TxStep
<1>6. /\ Remaining \in Nat /\ (TxD_state = 0 <=> Remaining = 0)
      /\ count \in Nat /\ count <= TickGen - 1
  BY RemainingBounds
<1>7. /\ r \in Nat /\ (TxD_state' = 0 <=> r = 0)
      /\ c \in Nat /\ c <= TickGen - 1
  <2>1. tick' \in BOOLEAN /\ c \in 0 .. TickGen - 1 /\ TxD_state' \in 0 .. 10
    BY <1>5 DEF TxInv
  <2>2. r = IF TxD_state' = 0 THEN 0
            ELSE (10 - TxD_state') * TickGen
                   + (IF tick' THEN 1 ELSE TickGen - c + 1)
    BY DEF Remaining
  <2> HIDE DEF r, c
  <2> QED  BY <2>1, <2>2, RemainingOf
<1>8. trnPs \in {"idle", "load_res", "get_lsb", "get_msb1", "get_msb2"}
  BY DEF HostTypes
<1>9. /\ BusyFor <= NextFinish
      /\ Sending => ~Pending /\ AwaitedFor < NextDone
      /\ trnPs \in {"load_res", "get_msb1"} => TxD_state = 0
      /\ trnPs \in {"get_lsb", "get_msb1"} /\ TxD_state = 0 => count = 1
      /\ Sending <=> trnPs \in {"load_res", "get_lsb", "get_msb1"}
      /\ Sending' <=> trnPs' \in {"load_res", "get_lsb", "get_msb1"}
  BY DEF InTime, Sending
<1>10. /\ trnPs = "idle" => BusyFor = Remaining
       /\ trnPs = "get_msb2" => BusyFor = Remaining + 1
       /\ trnPs = "get_msb1" => BusyFor = 10 * TickGen + 2 /\ AwaitedFor = 1
       /\ trnPs = "get_lsb" => /\ BusyFor = Remaining + 10 * TickGen + 3
                               /\ AwaitedFor = Remaining + 2
       /\ trnPs = "load_res" => /\ BusyFor = 20 * TickGen + 5 - count
                                /\ AwaitedFor = 10 * TickGen + 4 - count
  BY DEF BusyFor, AwaitedFor
<1>11. /\ trnPs' = "idle" => b = r
       /\ trnPs' = "get_msb2" => b = r + 1
       /\ trnPs' = "get_msb1" => b = 10 * TickGen + 2 /\ w = 1
       /\ trnPs' = "get_lsb" => b = r + 10 * TickGen + 3 /\ w = r + 2
       /\ trnPs' = "load_res" => /\ b = 20 * TickGen + 5 - c
                                 /\ w = 10 * TickGen + 4 - c
  BY DEF BusyFor, AwaitedFor
<1>12. /\ TxD_start <=> trnPs = "load_res" \/ trnPs = "get_msb1"
       /\ TxD_busy <=> TxD_state # 0
       /\ TxD_start => Begun = IF TxD_state = 0 THEN {uart_out.part} ELSE {}
       /\ ~TxD_start => Begun = {}
       /\ trnPs = "load_res" => uart_out.part = "hi"
       /\ trnPs = "get_msb1" => uart_out.part = "lo"
  BY <1>4 DEF TxD_start, TxD_busy, Begun, uart_out, ff2_Sel
<1>13. awaited' = IF LowDone THEN {"hi", "lo"} ELSE awaited \ Begun
  BY DEF Account, LowDone
<1>14. ff2' = IF trnPs' = "idle" THEN result' ELSE ff2
  BY DEF Ff2
<1>15. /\ Pending => awaited = {"hi", "lo"}
       /\ ~Pending /\ trnPs = "load_res" => awaited = {"hi", "lo"}
       /\ ~Pending /\ trnPs \in {"get_lsb", "get_msb1"} => awaited = {"lo"}
       /\ ~Pending /\ trnPs \in {"idle", "get_msb2"} => awaited = {}
       /\ trnPs = "idle" => ff2 = result
       /\ Sending => ff2 = Convolution(sent)
  BY <1>8 DEF Owed
<1> HIDE DEF n, f, r, c, b, w
\* What is left to show, for each state trn_cu can be in.
<1>16. ASSUME b <= f,
              Sending' => ~Pending' /\ w < n,
              trnPs' \in {"load_res", "get_msb1"} => TxD_state' = 0,
              trnPs' \in {"get_lsb", "get_msb1"} /\ TxD_state' = 0 => c = 1
       PROVE  InTime'
  BY <1>16 DEF InTime, b, f, w, n, c
<1>17. ASSUME Pending' => awaited' = {"hi", "lo"},
              ~Pending' => awaited' = CASE trnPs' = "load_res" -> {"hi", "lo"}
                               [] trnPs' \in {"get_lsb", "get_msb1"} -> {"lo"}
                               [] OTHER -> {},
              trnPs' = "idle" => ff2' = result',
              Sending' => ff2' = Convolution(sent')
       PROVE  Owed'
  BY <1>17 DEF Owed
<1>18. CASE trnPs = "idle" /\ ps # "finish"
  <2>1. trnPs' = "idle" /\ ~TxD_start
    BY <1>12, <1>18 DEF TrnNext, output_valid
  <2>2. b <= f
    <3>1. Remaining <= NextFinish /\ b = r
      BY <1>9, <1>10, <1>11, <1>18, <2>1
    <3>2. TxD_state = 0 => r = 0
      BY <1>5, <1>7, <2>1
    <3>3. TxD_state # 0 => r = Remaining - 1
      BY <1>5
    <3> QED  BY <1>3, <1>6, <1>18, <3>1, <3>2, <3>3
  <2>3. InTime'
    BY <1>9, <1>16, <2>1, <2>2
  <2>4. awaited' = IF LowDone THEN {"hi", "lo"} ELSE awaited
    BY <1>2, <1>12, <1>13, <1>15, <1>18, <2>1
  <2>5. Owed'
    BY <1>2, <1>9, <1>14, <1>15, <1>17, <1>18, <2>1, <2>4
  <2> QED  BY <2>3, <2>5
<1>19. CASE trnPs = "idle" /\ ps = "finish"
  <2>1. trnPs' = "load_res" /\ ~TxD_start
    BY <1>12, <1>19 DEF TrnNext, output_valid
  <2>2. TxD_state = 0 /\ TxD_state' = 0 /\ c = count
    BY <1>3, <1>5, <1>6, <1>9, <1>10, <1>19, <2>1
  <2>3. ~Pending' /\ ~LowDone /\ Pending
    BY <1>2, <1>19
  <2>4. b <= f /\ w < n
    <3>1. b = 20 * TickGen + 5 - c /\ w = 10 * TickGen + 4 - c
      BY <1>11, <2>1
    <3>2. f >= 2 * RxByte - Look - 1 /\ n >= RxByte + 2
      BY <1>3, <1>19
    <3> QED  BY <1>1, <1>2, <1>3, <1>7, <3>1, <3>2
  <2>5. InTime'
    BY <1>9, <1>16, <2>1, <2>2, <2>3, <2>4
  <2>6. awaited' = {"hi", "lo"}
    BY <1>12, <1>13, <1>15, <2>1, <2>3
  <2>7. ff2' = Convolution(sent')
    <3>1. ff2' = ff2 /\ ff2 = result /\ result = Convolution(X)
      BY <1>14, <1>15, <1>19, <2>1 DEF PartialSums
    <3>2. ~Entering
      BY <1>19 DEF FilterFollows, Entering
    <3>3. sent' = sent /\ sent = X
      BY <1>2, <2>3, <3>2 DEF FilterFollows
    <3> QED  BY <3>1, <3>3
  <2>8. Owed'
    BY <1>17, <2>1, <2>3, <2>6, <2>7
  <2> QED  BY <2>5, <2>8
<1>20. ASSUME Sending
       PROVE  /\ ~Pending /\ ~Pending' /\ ~LowDone /\ ps # "finish"
              /\ AwaitedFor < NextDone /\ n >= NextDone - 1
              /\ BusyFor <= NextFinish /\ f >= NextFinish - 1
              /\ awaited' = awaited \ Begun
              /\ ff2 = Convolution(sent')
  <2>1. ~Pending /\ AwaitedFor < NextDone
    BY <1>9, <1>20
  <2>2. AwaitedFor >= 1 /\ AwaitedFor \in Nat
    BY <1>1, <1>6, <1>9, <1>10, <1>20
  <2>3. ~LowDone
    BY <1>2, <2>1, <2>2
  <2> QED  BY <1>2, <1>3, <1>9, <1>13, <1>15, <1>20, <2>1, <2>3
<1>21. CASE trnPs = "load_res"
  <2>1. Sending /\ TxD_state = 0 /\ TxD_start /\ awaited = {"hi", "lo"}
        /\ Begun = {"hi"}
    BY <1>9, <1>12, <1>15, <1>20, <1>21
  <2>2. trnPs' = "get_lsb"
    BY <1>21 DEF TrnNext
  <2>3. TxD_state' = 1 /\ r = 10 * TickGen + 1 - count
    BY <1>5, <2>1
  <2>4. b <= f /\ w < n
    <3>1. b = r + 10 * TickGen + 3 /\ w = r + 2
      BY <1>11, <2>2
    <3>2. /\ BusyFor = 20 * TickGen + 5 - count
          /\ AwaitedFor = 10 * TickGen + 4 - count
      BY <1>10, <1>21
    <3>3. /\ AwaitedFor < NextDone /\ n >= NextDone - 1
          /\ BusyFor <= NextFinish /\ f >= NextFinish - 1
      BY <1>20, <2>1
    <3> QED  BY <1>1, <1>2, <1>3, <1>6, <2>3, <3>1, <3>2, <3>3
  <2>5. InTime'
    BY <1>9, <1>16, <1>20, <2>1, <2>2, <2>3, <2>4
  <2>6. awaited' = {"lo"} /\ ff2' = ff2
    BY <1>14, <1>20, <2>1, <2>2
  <2>7. Owed'
    BY <1>17, <1>20, <2>1, <2>2, <2>6
  <2> QED  BY <2>5, <2>7
<1>22. CASE trnPs = "get_lsb" /\ TxD_state # 0
  <2>1. Sending /\ ~TxD_start /\ awaited = {"lo"} /\ Begun = {}
    BY <1>9, <1>12, <1>15, <1>20, <1>22
  <2>2. trnPs' = "get_lsb"
    BY <1>12, <1>22 DEF TrnNext
  <2>3. r = Remaining - 1 /\ (TxD_state' = 0 => c = 1)
    BY <1>5, <1>22
  <2>4. b <= f /\ w < n
    <3>1. b = r + 10 * TickGen + 3 /\ w = r + 2
      BY <1>11, <2>2
    <3>2. /\ BusyFor = Remaining + 10 * TickGen + 3
          /\ AwaitedFor = Remaining + 2
      BY <1>10, <1>22
    <3>3. /\ AwaitedFor < NextDone /\ n >= NextDone - 1
          /\ BusyFor <= NextFinish /\ f >= NextFinish - 1
      BY <1>20, <2>1
    <3> QED  BY <1>1, <1>2, <1>3, <1>6, <2>3, <3>1, <3>2, <3>3
  <2>5. InTime'
    BY <1>9, <1>16, <1>20, <2>1, <2>2, <2>3, <2>4
  <2>6. awaited' = {"lo"} /\ ff2' = ff2
    BY <1>14, <1>20, <2>1, <2>2
  <2>7. Owed'
    BY <1>17, <1>20, <2>1, <2>2, <2>6
  <2> QED  BY <2>5, <2>7
<1>23. CASE trnPs = "get_lsb" /\ TxD_state = 0
  <2>1. Sending /\ ~TxD_start /\ awaited = {"lo"} /\ Begun = {}
    BY <1>9, <1>12, <1>15, <1>20, <1>23
  <2>2. trnPs' = "get_msb1"
    BY <1>12, <1>23 DEF TrnNext
  <2>3. TxD_state' = 0 /\ c = 1 /\ Remaining = 0
    BY <1>5, <1>6, <1>9, <1>23, <2>1
  <2>4. b <= f /\ w < n
    <3>1. b = 10 * TickGen + 2 /\ w = 1
      BY <1>11, <2>2
    <3>2. /\ BusyFor = Remaining + 10 * TickGen + 3
          /\ AwaitedFor = Remaining + 2
      BY <1>10, <1>23
    <3>3. /\ AwaitedFor < NextDone /\ n >= NextDone - 1
          /\ BusyFor <= NextFinish /\ f >= NextFinish - 1
      BY <1>20, <2>1
    <3> QED  BY <1>1, <1>2, <1>3, <1>6, <2>3, <3>1, <3>2, <3>3
  <2>5. InTime'
    BY <1>9, <1>16, <1>20, <2>1, <2>2, <2>3, <2>4
  <2>6. awaited' = {"lo"} /\ ff2' = ff2
    BY <1>14, <1>20, <2>1, <2>2
  <2>7. Owed'
    BY <1>17, <1>20, <2>1, <2>2, <2>6
  <2> QED  BY <2>5, <2>7
<1>24. CASE trnPs = "get_msb1"
  <2>1. Sending /\ TxD_state = 0 /\ count = 1 /\ TxD_start /\ awaited = {"lo"}
        /\ Begun = {"lo"}
    BY <1>9, <1>12, <1>15, <1>20, <1>24
  <2>2. trnPs' = "get_msb2"
    BY <1>24 DEF TrnNext
  <2>3. TxD_state' = 1 /\ r = 10 * TickGen + 1 - count
    BY <1>5, <2>1
  <2>4. b <= f
    <3>1. b = r + 1
      BY <1>11, <2>2
    <3>2. BusyFor = 10 * TickGen + 2
      BY <1>10, <1>24
    <3>3. BusyFor <= NextFinish /\ f >= NextFinish - 1
      BY <1>20, <2>1
    <3> QED  BY <1>1, <1>2, <1>3, <1>6, <2>1, <2>3, <3>1, <3>2, <3>3
  <2>5. InTime'
    BY <1>9, <1>16, <2>2, <2>4
  <2>6. awaited' = {}
    BY <1>20, <2>1
  <2>7. Owed'
    BY <1>9, <1>17, <1>20, <2>1, <2>2, <2>6
  <2> QED  BY <2>5, <2>7
<1>25. CASE trnPs = "get_msb2"
  <2>1. ps # "finish" /\ ~TxD_start /\ Begun = {}
    <3>1. BusyFor = Remaining + 1 /\ BusyFor <= NextFinish
      BY <1>9, <1>10, <1>25
    <3>2. ps # "finish"
      BY <1>3, <1>6, <3>1
    <3> QED  BY <1>12, <1>25, <3>2
  <2>2. trnPs' = IF TxD_state = 0 THEN "idle" ELSE "get_msb2"
    BY <1>12, <1>25 DEF TrnNext
  <2>3. b <= f
    <3>1. Remaining + 1 <= NextFinish /\ b = IF TxD_state = 0 THEN r ELSE r + 1
      BY <1>9, <1>10, <1>11, <1>25, <2>2
    <3>2. TxD_state = 0 => r = 0
      BY <1>5, <1>7, <2>1
    <3>3. TxD_state # 0 => r = Remaining - 1
      BY <1>5
    <3> QED  BY <1>3, <1>6, <2>1, <3>1, <3>2, <3>3
  <2>4. InTime'
    BY <1>9, <1>16, <2>2, <2>3
  <2>5. awaited' = IF LowDone THEN {"hi", "lo"} ELSE awaited
    BY <1>2, <1>13, <1>15, <1>25, <2>1
  <2>6. Owed'
    BY <1>2, <1>9, <1>14, <1>15, <1>17, <1>25, <2>1, <2>2, <2>5
  <2> QED  BY <2>4, <2>6
<1> QED  BY <1>8, <1>18, <1>19, <1>21, <1>22, <1>23, <1>24, <1>25

(***************************************************************************)
(* At the start, and after the second edge of a reset, no sample is in the *)
(* board and no result; the byte the transmitter is still sending then     *)
(* ends before the first result.                                           *)
(***************************************************************************)
LEMMA AtStart ==
    FirstEdge /\ ~FIR_strt /\ HostTypes /\ TxInv =>
        RecFollows /\ FilterFollows /\ (HostPauses => InTime /\ Owed)
<1> SUFFICES ASSUME FirstEdge, ~FIR_strt, HostTypes, TxInv
             PROVE  RecFollows /\ FilterFollows /\ (HostPauses => InTime /\ Owed)
  OBVIOUS
<1>1. /\ recPs = "idle" /\ ps = "wait_input" /\ sent = X /\ trnPs = "idle"
      /\ coming.part = "lo" /\ rx = 0 /\ ~RxD_ready
      /\ ff2 = result /\ awaited = {}
  BY DEF FirstEdge
<1>2. ~Arrived /\ ~Entering /\ ~Pending /\ ~Sending
  BY <1>1 DEF Arrived, Entering, Pending, Sending
<1>3. RecFollows
  BY <1>1 DEF RecFollows, AtRest
<1>4. FilterFollows
  BY <1>1, <1>2 DEF FilterFollows
<1>5. ASSUME HostPauses PROVE InTime
  <2>1. BusyFor = Remaining /\ Remaining <= 10 * TickGen + 1 /\ Remaining \in Nat
    BY <1>1, RemainingBounds DEF BusyFor
  <2>2. /\ NextFinish = free + RxByte + 1 + 9 * Look + 4 + Taps
        /\ free \in Nat
    BY <1>1, <1>2, TopNumbers DEF NextFinish, NextDone, HostTypes
  <2>3. RxByte >= 10 * TickGen + 3
    BY <1>5, TopNumbers DEF HostPauses
  <2>4. BusyFor <= NextFinish
    BY <2>1, <2>2, <2>3, TopNumbers
  <2> QED  BY <1>1, <1>2, <2>4 DEF InTime
<1>6. Owed
  BY <1>1, <1>2 DEF Owed
<1> QED  BY <1>3, <1>4, <1>5, <1>6

(***************************************************************************)
(* At an edge the filter does a step of its own: what it takes is a sample.*)
(***************************************************************************)
LEMMA FilterNext ==
    ASSUME FilterFollows, Clock(FIR_strt, ff1), FIR_strt \in BOOLEAN
    PROVE  Next
<1>1. CASE WaitInput(FIR_strt)
  <2>1. Clock(FIR_strt, Zero)
    BY <1>1 DEF Clock
  <2>2. Zero \in Word
    BY DEF Word
  <2> QED  BY <2>1, <2>2 DEF Next
<1>2. CASE GetX(ff1)
  <2>1. ff1 \in Word
    BY <1>2 DEF FilterFollows, Entering, GetX, Word
  <2> QED  BY <2>1 DEF Next
<1>3. CASE Calc \/ Finish
  <2>1. Clock(FIR_strt, Zero)
    BY <1>3 DEF Clock
  <2>2. Zero \in Word
    BY DEF Word
  <2> QED  BY <2>1, <2>2 DEF Next
<1> QED  BY <1>1, <1>2, <1>3 DEF Clock

(***************************************************************************)
(* An edge of the clock keeps the invariant.                               *)
(***************************************************************************)
LEMMA EdgeStep == TopInv /\ Edge => TopInv' /\ Next
<1> SUFFICES ASSUME TopInv, Edge PROVE TopInv' /\ Next
  OBVIOUS
<1>1. /\ TypeOK /\ PartialSums /\ HostTypes /\ TxInv
      /\ RecFollows /\ FilterFollows
      /\ HostPauses => InTime /\ Owed
  BY DEF TopInv, Edge
<1>2. /\ RecEdge /\ Clock(FIR_strt, ff1) /\ Account /\ rst' = 0
      /\ TrnNext /\ Ff2 /\ TxEdge(TxD_start, uart_out)
  BY DEF Edge, RecEdge
<1>3. Next
  BY <1>1, <1>2, FilterNext DEF HostTypes
<1>4. TypeOK' /\ PartialSums'
  BY <1>1, <1>3, StepTypes, StepSums
<1>5. TxInv'
  <2>1. TxD_start \in BOOLEAN
    BY DEF TxD_start
  <2> QED  BY <1>1, <1>2, <2>1, TxStep
<1>6. HostTypes'
  <2>1. /\ rx' \in 0 .. 10 * Look /\ free' \in 0 .. RxByte - 1
        /\ rx' > 0 \/ RxD_ready' => free' - rx' >= RxByte - 1 - 10 * Look
        /\ RxD_ready' \in BOOLEAN
        /\ coming'.part \in {"hi", "lo"}
        /\ coming' = [sample |-> coming'.sample, part |-> coming'.part]
    BY <1>1, <1>2, HostStep DEF RecEdge
  <2>2. /\ recPs' \in {"idle", "get_msb", "get_lsb", "input_valid"}
        /\ ff1' = [hi |-> ff1'.hi, lo |-> ff1'.lo]
    BY <1>1, <1>2, RecStep
  <2>3. FIR_strt' \in BOOLEAN
    BY <1>2, Ff1Step DEF RecEdge
  <2>4. trnPs' \in {"idle", "load_res", "get_lsb", "get_msb1", "get_msb2"}
    BY <1>1, <1>2 DEF TrnNext, HostTypes
  <2>5. BytePairs'
    BY <1>1 DEF HostTypes, BytePairs
  <2> QED  BY <1>2, <2>1, <2>2, <2>3, <2>4, <2>5 DEF HostTypes
<1>7. RecFollows' /\ FilterFollows'
  BY <1>1, <1>2, RecStep, FilterStep
<1>8. HostPauses' => InTime' /\ Owed'
  <2>1. HostPauses' <=> HostPauses
    BY DEF HostPauses
  <2> QED  BY <1>1, <1>2, <2>1, TrnStep
<1> QED  BY <1>2, <1>3, <1>4, <1>5, <1>6, <1>7, <1>8 DEF TopInv

(***************************************************************************)
(* An edge with the switch on keeps it too.                                *)
(***************************************************************************)
LEMMA ResetStep == TopInv /\ ResetEdge => TopInv' /\ Next
<1> SUFFICES ASSUME TopInv, ResetEdge PROVE TopInv' /\ Next
  OBVIOUS
<1>1. Reset /\ Next
  BY DEF ResetEdge, Next
<1>2. TypeOK' /\ PartialSums'
  BY <1>1, StepTypes, StepSums DEF TopInv
<1>3. TxInv'
  <2>1. TxD_start \in BOOLEAN
    BY DEF TxD_start
  <2>2. TxInv /\ TxEdge(TxD_start, uart_out)
    BY DEF TopInv, ResetEdge
  <2> QED  BY <2>1, <2>2, TxStep
<1>4. /\ recPs' = "idle" /\ trnPs' = "idle" /\ rx' = 0
      /\ free' = 0
      /\ coming' = [sample |-> Zero16, part |-> "lo"]
      /\ RxD_ready' = FALSE /\ ff1' = Zero16
      /\ ff2' = NoProducts /\ sent' = EmptyLine /\ awaited' = {}
      /\ rst' = IF rst = 0 THEN 1 ELSE 2
  BY DEF ResetEdge
<1>5. FIR_strt' \in BOOLEAN /\ (FIR_strt' <=> recPs = "input_valid")
  <2>1. FIR_strt' = (recPs = "input_valid")
    BY DEF ResetEdge, RecOutputs
  <2> QED  BY <2>1
<1>6. HostTypes'
  <2>1. 0 \in 0 .. 10 * Look /\ 0 \in 0 .. RxByte - 1
    BY TopNumbers
  <2>2. ff1' = [hi |-> ff1'.hi, lo |-> ff1'.lo]
    BY <1>4 DEF Zero16
  <2>3. BytePairs'
    BY DEF TopInv, HostTypes, BytePairs
  <2>4. rst' \in {0, 1, 2}
    BY <1>4
  <2>5. ~(rx' > 0 \/ RxD_ready')
    BY <1>4
  <2> QED  BY <1>4, <1>5, <2>1, <2>2, <2>3, <2>4, <2>5 DEF HostTypes
<1>7. FirstEdge'
  BY <1>1, <1>4 DEF FirstEdge, Reset
<1>8. ASSUME rst' # 1
      PROVE  RecFollows' /\ FilterFollows' /\ (HostPauses => InTime /\ Owed)'
  <2>1. ~FIR_strt'
    BY <1>4, <1>5, <1>8 DEF TopInv
  <2>2. (FirstEdge /\ ~FIR_strt /\ HostTypes /\ TxInv)'
    BY <1>3, <1>6, <1>7, <2>1
  <2> QED  BY <2>2, AtStart, PTL
<1> QED  BY <1>1, <1>2, <1>3, <1>4, <1>6, <1>7, <1>8 DEF TopInv

(***************************************************************************)
(* The top level keeps its invariant, and inside it the filter goes        *)
(* through steps of module Fir2 only.                                      *)
(***************************************************************************)
THEOREM TopInvariant == BytePairs => (TopSpec => []TopInv)
<1> SUFFICES ASSUME BytePairs PROVE TopSpec => []TopInv
  OBVIOUS
<1>1. TopInit => TopInv
  <2> SUFFICES ASSUME TopInit PROVE TopInv
    OBVIOUS
  <2>1. TypeOK /\ PartialSums
    <3>1. 0 \in Tap
      BY TapsAssumption DEF Tap
    <3> QED  BY <3>1, EmptyTypes DEF TopInit, Init, TypeOK, State, PartialSums
  <2>2. TxInv
    <3>1. tick = FALSE /\ count = 0 /\ TxD_state = 0
      BY DEF TopInit, TxInit
    <3>2. 0 \in 0 .. TickGen - 1 /\ 0 \in 0 .. 10
      BY TopNumbers
    <3> QED  BY <3>1, <3>2, Zenon DEF TxInv
  <2>3. HostTypes
    <3>1. /\ rx = 0 /\ free = 0 /\ RxD_ready = FALSE /\ FIR_strt = FALSE /\ recPs = "idle"
          /\ coming = [sample |-> Zero16, part |-> "lo"] /\ ff1 = Zero16
          /\ trnPs = "idle" /\ rst = 0
      BY DEF TopInit
    <3>2. 0 \in 0 .. 10 * Look /\ 0 \in 0 .. RxByte - 1
      BY TopNumbers
    <3>3. ff1 = [hi |-> ff1.hi, lo |-> ff1.lo]
      BY <3>1 DEF Zero16
    <3>4. ~(rx > 0 \/ RxD_ready)
      BY <3>1
    <3> QED  BY <3>1, <3>2, <3>3, <3>4 DEF HostTypes
  <2>4. FirstEdge /\ ~FIR_strt
    BY DEF TopInit, Init, FirstEdge
  <2> QED  BY <2>1, <2>2, <2>3, <2>4, AtStart DEF TopInv, TopInit
<1>2. TopInv /\ [TopNext]_allVars => TopInv'
  <2> USE DEF allVars, vars, txVars, rxVars, recVars, trnVars
  <2>1. ASSUME TopInv, UNCHANGED allVars PROVE TopInv'
    <3>1. TypeOK' /\ PartialSums'
      BY <2>1, StepTypes, StepSums DEF TopInv
    <3>2. HostTypes' /\ TxInv' /\ (rst # 0 => recPs = "idle")'
      BY <2>1 DEF TopInv, HostTypes, TxInv
    <3>3. (rst = 1 => FirstEdge)'
      BY <2>1 DEF TopInv, FirstEdge
    <3>4. RecFollows => RecFollows'
      BY <2>1 DEF RecFollows, AtRest, HighIn, NewByte, Complete
    <3>5. /\ Pending' <=> Pending
          /\ Entering' <=> Entering
          /\ Arrived' <=> Arrived
          /\ Age' = Age /\ NextDone' = NextDone
      BY <2>1 DEF Pending, Entering, Arrived, Age, NextDone
    <3>6. FilterFollows => FilterFollows'
      BY <2>1, <3>5 DEF FilterFollows
    <3>7. BusyFor' = BusyFor /\ AwaitedFor' = AwaitedFor
      BY <2>1 DEF BusyFor, AwaitedFor, Remaining
    <3>8. InTime => InTime'
      BY <2>1, <3>5, <3>7 DEF InTime, NextFinish, Sending
    <3>9. Owed => Owed'
      BY <2>1, <3>5 DEF Owed, Sending
    <3>10. HostPauses' <=> HostPauses
      BY DEF HostPauses
    <3>11. rst' = rst
      BY <2>1
    <3> QED  BY <2>1, <3>1, <3>2, <3>3, <3>4, <3>6, <3>8, <3>9, <3>10, <3>11
             DEF TopInv
  <2> QED  BY <2>1, EdgeStep, ResetStep DEF TopNext
<1> QED  BY <1>1, <1>2, PTL DEF TopSpec

(***************************************************************************)
(* Whatever is proved of the filter alone holds in the board: it goes      *)
(* through states of module Fir2.                                          *)
(***************************************************************************)
THEOREM FilterInTop == BytePairs => (TopSpec => Spec)
<1> SUFFICES ASSUME BytePairs PROVE TopSpec => Spec
  OBVIOUS
<1>1. TopInit => Init
  BY DEF TopInit
<1>2. TopInv /\ [TopNext]_allVars => [Next]_vars
  BY EdgeStep, ResetStep DEF TopNext, allVars
<1> QED  BY <1>1, <1>2, TopInvariant, PTL DEF TopSpec, Spec

(***************************************************************************)
(* FIR_strt and the latch ff1 give the filter what the host sent: each     *)
(* sample once, whole and in order.                                        *)
(***************************************************************************)
THEOREM FilterSees == BytePairs => (TopSpec => []FilterSeesSamples)
<1> SUFFICES ASSUME BytePairs PROVE TopSpec => []FilterSeesSamples
  OBVIOUS
<1>1. TopInv => FilterSeesSamples
  <2> SUFFICES ASSUME TopInv, ps \in {"calc", "finish"} PROVE X = sent
    BY DEF FilterSeesSamples
  <2>1. rst # 1
    BY DEF TopInv, FirstEdge
  <2>2. FilterFollows
    BY <2>1 DEF TopInv
  <2>3. ~Entering
    BY <2>2 DEF FilterFollows, Entering
  <2> QED  BY <2>2, <2>3 DEF FilterFollows
<1> QED  BY <1>1, TopInvariant, PTL

(***************************************************************************)
(* With a host that leaves a sample the time of two bytes going out, and   *)
(* that of a look, trn_cu is idle when the filter shows a result.          *)
(***************************************************************************)
THEOREM NeverLost == BytePairs => (TopSpec => [](HostPauses => NothingLost))
<1> SUFFICES ASSUME BytePairs PROVE TopSpec => [](HostPauses => NothingLost)
  OBVIOUS
<1>1. TopInv => (HostPauses => NothingLost)
  <2> SUFFICES ASSUME TopInv, HostPauses, ps = "finish" PROVE trnPs = "idle"
    BY DEF NothingLost, output_valid
  <2>1. rst # 1 /\ RecFollows /\ FilterFollows /\ InTime
    BY DEF TopInv, FirstEdge
  <2>2. Pending /\ NextFinish = 0
    <3>1. ~Arrived /\ recPs # "input_valid" /\ ~FIR_strt
      BY <2>1 DEF FilterFollows
    <3>2. Age = 4 + Taps
      BY <3>1 DEF Age
    <3> QED  BY <3>2, TopNumbers DEF Pending, NextFinish
  <2>3. BusyFor <= 0 /\ ~Sending
    BY <2>1, <2>2 DEF InTime
  <2>4. trnPs # "get_msb2"
    BY <2>3, RemainingBounds DEF TopInv, BusyFor
  <2> QED  BY <2>3, <2>4 DEF Sending, TopInv, HostTypes
<1> QED  BY <1>1, TopInvariant, PTL

(***************************************************************************)
(* With such a host, what goes out is the convolution of what came in,     *)
(* high byte first.                                                        *)
(***************************************************************************)
THEOREM AnswersAreSent ==
    BytePairs /\ HostPauses => (TopSpec => ResultsAreSent)
<1> DEFINE Begins == rst' = 0 /\ TxD_state = 0 /\ TxD_state' = 1
           Right  == /\ TxD_shift'.sum = Convolution(sent)
                     /\ TxD_shift'.part = "hi" => awaited = {"hi", "lo"}
                     /\ TxD_shift'.part = "lo" => awaited = {"lo"}
<1>1. ASSUME HostPauses, TopInv, TopNext, Begins PROVE Right
  <2>1. Edge
    BY <1>1 DEF TopNext, ResetEdge
  <2>2. InTime /\ Owed
    BY <1>1, <2>1 DEF TopInv, Edge
  <2>3. TxEdge(TxD_start, uart_out)
    BY <2>1 DEF Edge
  <2>4. TxD_start /\ TxD_shift' = uart_out
    BY <1>1, <2>3 DEF TxEdge, TxD_busy
  <2>5. trnPs = "load_res" \/ trnPs = "get_msb1"
    BY <2>4 DEF TxD_start
  <2>6. TxD_shift'.sum = ff2 /\ TxD_shift'.part = IF ff2_Sel THEN "hi" ELSE "lo"
    BY <2>4 DEF uart_out
  <2>7. Sending /\ ~Pending /\ ff2 = Convolution(sent)
    BY <2>2, <2>5 DEF InTime, Owed, Sending
  <2>8. CASE trnPs = "load_res"
    <3>1. TxD_shift'.part = "hi"
      BY <2>6, <2>8 DEF ff2_Sel
    <3>2. awaited = {"hi", "lo"}
      BY <2>2, <2>7, <2>8 DEF Owed
    <3> QED  BY <2>6, <2>7, <3>1, <3>2
  <2>9. CASE trnPs = "get_msb1"
    <3>1. TxD_shift'.part = "lo"
      BY <2>6, <2>9 DEF ff2_Sel
    <3>2. awaited = {"lo"}
      BY <2>2, <2>7, <2>9 DEF Owed
    <3> QED  BY <2>6, <2>7, <3>1, <3>2
  <2> QED  BY <2>5, <2>8, <2>9
<1> SUFFICES ASSUME BytePairs, HostPauses PROVE TopSpec => ResultsAreSent
  OBVIOUS
<1>2. TopInv /\ [TopNext]_allVars => [Begins => Right]_allVars
  BY <1>1
<1> QED  BY <1>2, TopInvariant, PTL DEF TopSpec, ResultsAreSent
=============================================================================
