----------------------------- MODULE Fir1Proofs -----------------------------
(***************************************************************************)
(* What the filter of FIR1 computes, for every number of taps: the         *)
(* convolution, with the product of the newest sample added once more.     *)
(***************************************************************************)
EXTENDS Fir1, FirDataProofs

(***************************************************************************)
(* Fir1 keeps its types: Counter.sv never counts past 64 and its low bits  *)
(* address a register.                                                     *)
(***************************************************************************)
THEOREM TypeCorrect == Spec => []TypeOK
<1>1. Init => TypeOK
  BY EmptyTypes, TapsAssumption DEF Init, TypeOK, State
<1>2. TypeOK /\ [Next]_vars => TypeOK'
  <2> SUFFICES ASSUME TypeOK, [Next]_vars PROVE TypeOK'
    OBVIOUS
  <2> USE DEF TypeOK, State, Latch
  <2>1. ASSUME NEW input_valid \in BOOLEAN, Waiting(input_valid)
        PROVE  TypeOK'
    BY <2>1, EmptyTypes DEF Waiting
  <2>2. ASSUME NEW input_data \in Word, TakeInput(input_data)
        PROVE  TypeOK'
    <3>1. register_file' \in Line
      BY <2>2, ShiftType DEF TakeInput
    <3> QED  BY <2>2, <3>1 DEF TakeInput
  <2>3. CASE Calculating
    <3>1. out_cnt \in Tap
      BY TapsAssumption DEF out_cnt, Tap
    <3>2. out_reg' \in Sum
      BY <2>3, <3>1, AccumulateType DEF Calculating
    <3>3. cnt_temp' \in 0 .. Taps
      BY <2>3, TapsAssumption DEF Calculating, cnt_cout
    <3> QED  BY <2>3, <3>2, <3>3 DEF Calculating
  <2>4. CASE OutputReady
    BY <2>4 DEF OutputReady
  <2>5. CASE RstRises
    BY <2>5, EmptyTypes, TapsAssumption DEF RstRises
  <2>6. CASE RstEdge
    BY <2>6 DEF RstEdge
  <2>7. CASE RstFalls
    BY <2>7 DEF RstFalls
  <2>8. CASE UNCHANGED vars
    BY <2>8 DEF vars
  <2> QED  BY <2>1, <2>2, <2>3, <2>4, <2>5, <2>6, <2>7, <2>8 DEF Next
<1> QED  BY <1>1, <1>2, PTL DEF Spec

(***************************************************************************)
(* A step of calculating either adds the next product or, with cnt_cout,   *)
(* the product of tap 0 to the full convolution.                           *)
(***************************************************************************)
LEMMA CalculatingStep ==
    ASSUME TypeOK, PartialSums, Calculating
    PROVE  /\ ~cnt_cout =>
                  /\ cnt_temp' = cnt_temp + 1
                  /\ out_reg' = PartialSum(register_file, cnt_temp')
           /\ cnt_cout =>
                  /\ cnt_temp' = 0
                  /\ out_reg' = WithNewestTwice(register_file)
<1>1. out_reg = PartialSum(register_file, cnt_temp) /\ cnt_temp \in 0 .. Taps
  BY DEF PartialSums, Calculating, TypeOK
<1>2. CASE ~cnt_cout
  <2>1. cnt_temp \in Tap /\ out_cnt = cnt_temp
    BY <1>1, <1>2, TapsAssumption DEF cnt_cout, out_cnt, Tap
  <2> QED  BY <1>1, <1>2, <2>1, AccumulateNext DEF Calculating
<1>3. CASE cnt_cout
  <2> DEFINE conv == Convolution(register_file)
  <2>1. out_cnt = 0 /\ 0 \in Tap /\ 0 < Taps
    BY <1>3, TapsAssumption DEF cnt_cout, out_cnt, Tap
  <2>2. out_reg = conv
    BY <1>1, <1>3 DEF cnt_cout, Convolution
  <2>3. out_reg' = Accumulate(conv, register_file, 0)
    BY <2>1, <2>2 DEF Calculating
  <2>4. \A x \in Sample : conv[0][x] + (IF x = register_file[0] THEN 1 ELSE 0)
                             = IF x = register_file[0] THEN 2 ELSE 0
    BY <2>1 DEF Convolution, PartialSum
  <2> HIDE DEF conv
  <2>5. [x \in Sample |-> conv[0][x] + (IF x = register_file[0] THEN 1 ELSE 0)]
           = [x \in Sample |-> IF x = register_file[0] THEN 2 ELSE 0]
    BY <2>4
  <2>6. out_reg' = [conv EXCEPT
            ![0] = [x \in Sample |-> IF x = register_file[0] THEN 2 ELSE 0]]
    BY <2>3, <2>5 DEF Accumulate
  <2> QED  BY <1>3, <2>6 DEF Calculating, WithNewestTwice, conv
<1> QED  BY <1>2, <1>3

(***************************************************************************)
(* PartialSums is inductive, resets included.                              *)
(***************************************************************************)
THEOREM PartialSumsInvariant == Spec => []PartialSums
<1>1. Init => PartialSums
  BY DEF Init, PartialSums
<1>2. TypeOK /\ PartialSums /\ [Next]_vars => PartialSums'
  <2> SUFFICES ASSUME TypeOK, PartialSums, [Next]_vars PROVE PartialSums'
    OBVIOUS
  <2>1. ASSUME NEW input_valid \in BOOLEAN, Waiting(input_valid)
        PROVE  PartialSums'
    BY <2>1 DEF Waiting, PartialSums
  <2>2. ASSUME NEW input_data \in Word, TakeInput(input_data)
        PROVE  PartialSums'
    BY <2>2, PartialSumZero DEF TakeInput, PartialSums
  <2>3. CASE Calculating
    <3>1. CASE cnt_cout
      <4>1. ps' = "OUTPUT_READY" /\ rst' = rst /\ rst = "low"
            /\ register_file' = register_file
        BY <2>3, <3>1 DEF Calculating
      <4>2. output_data' = out_reg'
        BY <2>3, <4>1 DEF Calculating, Latch, output_valid
      <4>3. cnt_temp' = 0 /\ out_reg' = WithNewestTwice(register_file)
        BY <2>3, <3>1, CalculatingStep
      <4> QED  BY <4>1, <4>2, <4>3 DEF PartialSums
    <3>2. CASE ~cnt_cout
      <4>1. ps' = "CALCULATING" /\ rst' = rst /\ rst = "low"
            /\ register_file' = register_file
        BY <2>3, <3>2 DEF Calculating
      <4>2. out_reg' = PartialSum(register_file, cnt_temp')
        BY <2>3, <3>2, CalculatingStep
      <4> QED  BY <4>1, <4>2 DEF PartialSums
    <3> QED  BY <3>1, <3>2
  <2>4. CASE OutputReady
    BY <2>4 DEF OutputReady, PartialSums
  <2>5. CASE RstRises
    BY <2>5 DEF RstRises, PartialSums
  <2>6. CASE RstEdge
    BY <2>6 DEF RstEdge, PartialSums
  <2>7. CASE RstFalls
    BY <2>7 DEF RstFalls, PartialSums
  <2>8. CASE UNCHANGED vars
    BY <2>8 DEF vars, PartialSums
  <2> QED  BY <2>1, <2>2, <2>3, <2>4, <2>5, <2>6, <2>7, <2>8 DEF Next
<1> QED  BY <1>1, <1>2, TypeCorrect, PTL DEF Spec

(***************************************************************************)
(* Every answer of FIR1 is the convolution with tap 0 counted twice.       *)
(***************************************************************************)
THEOREM NewestCountedTwice == Spec => []NewestTapTwice
<1>1. PartialSums => NewestTapTwice
  BY DEF PartialSums, NewestTapTwice, output_valid
<1> QED  BY <1>1, PartialSumsInvariant, PTL
=============================================================================
