-------------------------- MODULE SerialFirProofs ---------------------------
(***************************************************************************)
(* The serial filter answers every sample with the convolution, two        *)
(* samples later, for every number of taps and every set of samples.       *)
(***************************************************************************)
EXTENDS Denoise, FirDataProofs, SequenceTheorems

(***************************************************************************)
(* No clock and no reset takes the count or a line out of its type.        *)
(***************************************************************************)
LEMMA StepTypes == TypeOK /\ [Next]_vars => TypeOK'
<1> SUFFICES ASSUME TypeOK, [Next]_vars PROVE TypeOK'
  OBVIOUS
<1> USE DEF TypeOK
<1>1. CASE Reset
  <2>1. Taps - 1 \in Tap
    BY TapsAssumption DEF Tap
  <2> QED  BY <1>1, <2>1, EmptyTypes DEF Reset
<1>2. ASSUME NEW filter_in \in Word, Enabled(filter_in)
      PROVE  TypeOK'
  <2>1. cur_count' \in Tap
    BY <1>2, TapsAssumption DEF Enabled, Counter, phase_last, Tap
  <2>2. delay_pipeline' \in Line
    BY <1>2, ShiftType DEF Enabled, Delay_Pipeline
  <2>3. behind' \in [{1, 2} -> Line]
    BY <1>2 DEF Enabled
  <2> QED  BY <2>1, <2>2, <2>3
<1>3. CASE UNCHANGED vars
  BY <1>3 DEF vars
<1> QED  BY <1>1, <1>2, <1>3 DEF Next

(***************************************************************************)
(* SerialFir keeps its types: the count stays the number of a tap.         *)
(***************************************************************************)
THEOREM TypeCorrect == Spec => []TypeOK
<1>1. Init => TypeOK
  <2> SUFFICES ASSUME Init PROVE TypeOK
    OBVIOUS
  <2>1. Taps - 1 \in Tap
    BY TapsAssumption DEF Tap
  <2> QED  BY <2>1, EmptyTypes DEF Init, TypeOK
<1> QED  BY <1>1, StepTypes, PTL DEF Spec

(***************************************************************************)
(* After a reset every register holds the sum of a line of zeros.          *)
(***************************************************************************)
LEMMA EmptySum ==
    ASSUME NEW n
    PROVE  PartialSum(EmptyLine, n) = NoProducts
<1>1. \A k \in Tap, x \in Sample : x # EmptyLine[k]
  BY ZeroAssumption DEF EmptyLine
<1> QED  BY <1>1 DEF PartialSum, NoProducts

(***************************************************************************)
(* The registers when the count is Taps - 1 and everything is cleared.     *)
(***************************************************************************)
LEMMA ClearedSums ==
    /\ NoProducts = Convolution(EmptyLine)
    /\ NoProducts = PartialSum(EmptyLine, Taps - 1)
    /\ Taps - 1 # 0
BY EmptySum, SerialAssumption, TapsAssumption DEF Convolution

(***************************************************************************)
(* One clock adds the product of the tap that is counted: the first opens  *)
(* the sum, the last closes it.                                            *)
(***************************************************************************)
LEMMA AccStep ==
    ASSUME TypeOK, SumsInTurn, NEW filter_in, Enabled(filter_in)
    PROVE  acc_out_1' = PartialSum(delay_pipeline, cur_count + 1)
<1>1. cur_count \in Tap /\ acc_out_1' = acc_in_1
  BY DEF TypeOK, Enabled, Acc_reg_1
<1>2. acc_in_1 = Accumulate(PartialSum(delay_pipeline, cur_count),
                            delay_pipeline, cur_count)
  BY PartialSumZero DEF acc_in_1, SumsInTurn, phase_0
<1> QED  BY <1>1, <1>2, AccumulateNext

(***************************************************************************)
(* At every clock each register takes over from the one before it a sum    *)
(* that is complete.                                                       *)
(***************************************************************************)
LEMMA StepSums == TypeOK /\ SumsInTurn /\ [Next]_vars => SumsInTurn'
<1> SUFFICES ASSUME TypeOK, SumsInTurn, [Next]_vars PROVE SumsInTurn'
  OBVIOUS
<1>1. CASE Reset
  BY <1>1, ClearedSums DEF Reset, SumsInTurn, OutputTwoBehind, phase_0
<1>2. ASSUME NEW filter_in \in Word, Enabled(filter_in)
      PROVE  SumsInTurn'
  <2>1. acc_out_1' = PartialSum(delay_pipeline, cur_count + 1)
    BY <1>2, AccStep
  <2>2. cur_count \in 0 .. Taps - 1 /\ Taps > 1 /\ Taps \in Nat
    BY SerialAssumption, TapsAssumption DEF TypeOK, Tap
  <2>3. CASE phase_last
    <3>1. /\ cur_count' = 0 /\ ~phase_0 /\ phase_0'
          /\ cur_count + 1 = Taps
      BY <1>2, <2>2, <2>3 DEF Enabled, Counter, phase_0, phase_last
    <3>2. behind'[1] = delay_pipeline /\ behind'[2] = behind[1]
      BY <1>2, <2>3 DEF Enabled, TypeOK
    <3>3. acc_out_1' = Convolution(behind'[1])
      BY <2>1, <3>1, <3>2 DEF Convolution
    <3>4. acc_final' = Convolution(behind'[2])
      BY <1>2, <3>1, <3>2 DEF Enabled, Finalsum, SumsInTurn
    <3>5. output_register' = Convolution(behind'[2])
      BY <1>2, <2>3, <3>1, <3>2 DEF Enabled, Output_Register, SumsInTurn
    <3> QED  BY <3>1, <3>3, <3>4, <3>5 DEF SumsInTurn, OutputTwoBehind
  <2>4. CASE ~phase_last
    <3>1. cur_count' = cur_count + 1 /\ ~phase_0'
      BY <1>2, <2>2, <2>4 DEF Enabled, Counter, phase_0
    <3>2. UNCHANGED <<behind, delay_pipeline, output_register>>
      BY <1>2, <2>4 DEF Enabled, Delay_Pipeline, Output_Register
    <3>3. acc_final' = Convolution(behind[1])
      BY <1>2 DEF Enabled, Finalsum, SumsInTurn
    <3> QED  BY <2>1, <3>1, <3>2, <3>3 DEF SumsInTurn, OutputTwoBehind
  <2> QED  BY <2>3, <2>4
<1>3. CASE UNCHANGED vars
  BY <1>3 DEF vars, SumsInTurn, OutputTwoBehind, phase_0
<1> QED  BY <1>1, <1>2, <1>3 DEF Next

(***************************************************************************)
(* SumsInTurn is inductive: whichever register is looked at, at every      *)
(* clock it holds the sum of one sample's line and of no other.            *)
(***************************************************************************)
THEOREM SumsInvariant == Spec => []SumsInTurn
<1>1. Init => SumsInTurn
  BY ClearedSums DEF Init, SumsInTurn, OutputTwoBehind, phase_0
<1> QED  BY <1>1, StepSums, TypeCorrect, PTL DEF Spec

(***************************************************************************)
(* filter_out is the convolution of the delay line two samples ago.        *)
(***************************************************************************)
THEOREM OutputCorrect == Spec => []OutputTwoBehind
<1>1. SumsInTurn => OutputTwoBehind
  BY DEF SumsInTurn
<1> QED  BY <1>1, SumsInvariant, PTL

(***************************************************************************)
(* Module ParallelFir, instantiated, works on the same data, and its chain *)
(* of adders sums every product of the line it holds.                      *)
(***************************************************************************)
LEMMA SameData ==
    /\ Parallel!EmptyLine = EmptyLine
    /\ Parallel!NoProducts = NoProducts
    /\ Parallel!Word = Word
    /\ \A line, x : Parallel!Shift(line, x) = Shift(line, x)
    /\ Parallel!sum_last = Convolution(behind[1])
<1>1. Parallel!Tap = Tap /\ Parallel!Word = Word
  BY DEF Parallel!Tap, Tap, Parallel!Word, Word
<1>2. \A k \in Tap : k < Taps
  BY TapsAssumption DEF Tap
<1>3. Parallel!EmptyLine = EmptyLine /\ Parallel!NoProducts = NoProducts
  BY <1>1 DEF Parallel!EmptyLine, EmptyLine, Parallel!NoProducts, NoProducts
<1>4. \A line, x : Parallel!Shift(line, x) = Shift(line, x)
  BY <1>1 DEF Parallel!Shift, Shift
<1>5. Parallel!sum_last = Convolution(behind[1])
  BY <1>1, <1>2
  DEF Parallel!sum_last, Parallel!product, Convolution, PartialSum
<1> QED  BY <1>1, <1>3, <1>4, <1>5

(***************************************************************************)
(* The delay line is the one before it with one word shifted in: what the  *)
(* parallel filter does when the serial one passes that line on.           *)
(***************************************************************************)
OneWordApart == \E x \in Word : delay_pipeline = Shift(behind[1], x)

LEMMA OneWordApartInvariant == Spec => []OneWordApart
<1>1. EmptyLine = Shift(EmptyLine, Zero) /\ Zero \in Word
  BY TapsAssumption DEF EmptyLine, Shift, Tap, Word
<1>2. Init => OneWordApart
  BY <1>1 DEF Init, OneWordApart
<1>3. TypeOK /\ OneWordApart /\ [Next]_vars => OneWordApart'
  <2> SUFFICES ASSUME TypeOK, OneWordApart, [Next]_vars PROVE OneWordApart'
    OBVIOUS
  <2>1. CASE Reset
    BY <2>1, <1>1 DEF Reset, OneWordApart
  <2>2. ASSUME NEW filter_in \in Word, Enabled(filter_in)
        PROVE  OneWordApart'
    <3>1. CASE phase_last
      <4>1. delay_pipeline' = Shift(delay_pipeline, filter_in)
        BY <2>2, <3>1 DEF Enabled, Delay_Pipeline
      <4>2. behind'[1] = delay_pipeline
        BY <2>2, <3>1 DEF Enabled, TypeOK
      <4> QED  BY <4>1, <4>2 DEF OneWordApart
    <3>2. CASE ~phase_last
      BY <2>2, <3>2 DEF Enabled, Delay_Pipeline, OneWordApart
    <3> QED  BY <3>1, <3>2
  <2>3. CASE UNCHANGED vars
    BY <2>3 DEF vars, OneWordApart
  <2> QED  BY <2>1, <2>2, <2>3 DEF Next
<1> QED  BY <1>2, <1>3, TypeCorrect, PTL DEF Spec

(***************************************************************************)
(* The serial filter implements the parallel one, seen one sample later:   *)
(* the last clock of a sample is a clock of the parallel filter, all       *)
(* others change nothing of it.                                            *)
(***************************************************************************)
THEOREM Refinement == Spec => ImplementsParallel
<1>1. Init => Parallel!Init
  BY SameData DEF Init, Parallel!Init
<1>2. TypeOK /\ SumsInTurn /\ OneWordApart /\ [Next]_vars
      => [Parallel!Next]_(Parallel!vars)
  <2> SUFFICES ASSUME TypeOK, SumsInTurn, OneWordApart, [Next]_vars
               PROVE  [Parallel!Next]_(Parallel!vars)
    OBVIOUS
  <2>1. CASE Reset
    <3>1. Parallel!Reset
      BY <2>1, SameData DEF Reset, Parallel!Reset
    <3> QED  BY <3>1 DEF Parallel!Next
  <2>2. ASSUME NEW filter_in \in Word, Enabled(filter_in)
        PROVE  [Parallel!Next]_(Parallel!vars)
    <3>1. CASE phase_last
      <4>1. PICK x \in Word : delay_pipeline = Shift(behind[1], x)
        BY DEF OneWordApart
      <4>2. behind'[1] = Parallel!Shift(behind[1], x)
        BY <2>2, <3>1, <4>1, SameData DEF Enabled, TypeOK
      <4>3. ~phase_0
        BY <3>1, SerialAssumption, TapsAssumption DEF phase_0, phase_last
      <4>4. output_register' = Parallel!sum_last
        BY <2>2, <3>1, <4>3, SameData DEF Enabled, Output_Register, SumsInTurn
      <4>5. Parallel!Enabled(x)
        BY <4>2, <4>4 DEF Parallel!Enabled
      <4> QED  BY <4>1, <4>5, SameData DEF Parallel!Next
    <3>2. CASE ~phase_last
      BY <2>2, <3>2 DEF Enabled, Output_Register, Parallel!vars
    <3> QED  BY <3>1, <3>2
  <2>3. CASE UNCHANGED vars
    BY <2>3 DEF vars, Parallel!vars
  <2> QED  BY <2>1, <2>2, <2>3 DEF Next
<1> QED  BY <1>1, <1>2, TypeCorrect, SumsInvariant, OneWordApartInvariant, PTL
         DEF Spec, ImplementsParallel, Parallel!Spec
(***************************************************************************)
(* The programs of Lab#3, with the serial filter inside.                   *)
(*                                                                         *)
(* A delay line holds the last m of the first n words of s; what is not    *)
(* of them is zero.  The lines of the filter, mem of filter.c and the line *)
(* a denoised word was made of are all of this form.                       *)
(***************************************************************************)
LineSince(s, n, m) == [k \in Tap |-> IF k < m THEN s[n - k] ELSE Zero]

\* Where a denoised word stands in a run of make_Denoise, how many of them
\* are there, and how many words were filtered before that run.
Offset(c)   == IF c = "l" THEN 0 ELSE BUF_SIZE
Place(c, k) == Offset(c) + k
Position    == Place(Channels[chan], i)
Done == IF pc = "denoise" THEN Position
        ELSE IF pc = "main" /\ fed # <<>> THEN 2 * BUF_SIZE ELSE 0
Before == Len(fed) - Done

ProgramTypes ==
    /\ hardware \in BOOLEAN
    /\ buf \in [Channel -> [Index -> Word]]
    /\ buf_Denoise \in [Channel -> [Index -> Sum]]
    /\ buf_index_record \in 0 .. BUF_SIZE
    /\ reading \in BOOLEAN
    /\ pc \in {"main", "enable", "denoise"}
    /\ chan \in {1, 2} /\ i \in Index
    /\ cycle \in 0 .. Taps - 1
    /\ rec \in 0 .. Recordings
    /\ fed \in Seq(Word)

\* A recording is counted before anything reads it; the loops start over.
Begun == /\ reading \/ pc = "enable" => rec > 0
         /\ pc # "denoise" => chan = 1 /\ i = 0 /\ cycle = 0
         /\ Done <= Len(fed)

\* The instruction and the filter's count move together.
HardwareLines ==
    hardware =>
        LET n == Len(fed) IN
        /\ cycle = 0 =>
             /\ cur_count = Taps - 1
             /\ delay_pipeline = LineSince(fed, n, n)
             /\ behind[1] = LineSince(fed, n - 1, n - 1)
             /\ behind[2] = LineSince(fed, n - 2, n - 2)
        /\ cycle > 0 =>
             /\ cur_count = cycle - 1
             /\ delay_pipeline = Shift(LineSince(fed, n, n), word)
             /\ behind[1] = LineSince(fed, n, n)
             /\ behind[2] = LineSince(fed, n - 1, n - 1)

SoftwareLine ==
    ~hardware => cycle = 0 /\ mem = LineSince(fed, Len(fed), i)

\* The line that the word at a place was made of.
LineOf(c, k) ==
    LET n == Before + Place(c, k) + 1 IN
    IF hardware THEN LineSince(fed, n - 2, n - 2) ELSE LineSince(fed, n, k + 1)

Denoised == \A c \in Channel, k \in Index :
                Place(c, k) < Done => buf_Denoise[c][k] = Convolution(LineOf(c, k))

ProgramInv == /\ TypeOK /\ SumsInTurn /\ ProgramTypes /\ Begun
              /\ HardwareLines /\ SoftwareLine /\ Denoised
(***************************************************************************)
(* What Append does to a stream of words.                                  *)
(***************************************************************************)
LEMMA Fed ==
    ASSUME NEW s \in Seq(Word), NEW w \in Word
    PROVE  /\ Append(s, w) \in Seq(Word)
           /\ Len(s) \in Nat /\ Len(Append(s, w)) = Len(s) + 1
           /\ \A n \in 1 .. Len(s) : Append(s, w)[n] = s[n]
           /\ Append(s, w)[Len(s) + 1] = w
BY AppendProperties, LenProperties

(***************************************************************************)
(* The next word enters the line of the words before it.                   *)
(***************************************************************************)
LEMMA LineShift ==
    ASSUME NEW s \in Seq(Word), NEW w \in Word, NEW m \in Nat, m <= Len(s)
    PROVE  Shift(LineSince(s, Len(s), m), w)
             = LineSince(Append(s, w), Len(s) + 1, m + 1)
<1> DEFINE a == Append(s, w)
<1> DEFINE n == Len(s)
<1>1. /\ n \in Nat /\ a[n + 1] = w
      /\ \A j \in 1 .. n : a[j] = s[j]
  BY Fed
<1> HIDE DEF a, n
<1>2. ASSUME NEW k \in Tap
      PROVE  (IF k = 0 THEN w ELSE LineSince(s, n, m)[k - 1])
               = (IF k < m + 1 THEN a[(n + 1) - k] ELSE Zero)
  <2>0. k \in 0 .. Taps - 1 /\ Taps \in Nat
    BY TapsAssumption DEF Tap
  <2>1. CASE k = 0
    <3>1. (n + 1) - k = n + 1 /\ k < m + 1
      BY <1>1, <2>1
    <3> QED  BY <1>1, <2>1, <3>1
  <2>2. CASE k # 0
    <3>1. k - 1 \in Tap /\ n - (k - 1) = (n + 1) - k /\ (k - 1 < m <=> k < m + 1)
      BY <1>1, <2>0, <2>2 DEF Tap
    <3>2. LineSince(s, n, m)[k - 1] = IF k < m + 1 THEN s[(n + 1) - k] ELSE Zero
      BY <3>1 DEF LineSince
    <3>3. k < m + 1 => (n + 1) - k \in 1 .. n
      BY <1>1, <2>0, <2>2 DEF n
    <3> QED  BY <1>1, <2>2, <3>2, <3>3
  <2> QED  BY <2>1, <2>2
<1>3. Shift(LineSince(s, n, m), w) = LineSince(a, n + 1, m + 1)
  <2>1. Shift(LineSince(s, n, m), w)
          = [k \in Tap |-> IF k = 0 THEN w ELSE LineSince(s, n, m)[k - 1]]
    BY DEF Shift
  <2>2. LineSince(a, n + 1, m + 1)
          = [k \in Tap |-> IF k < m + 1 THEN a[(n + 1) - k] ELSE Zero]
    BY <1>1 DEF LineSince
  <2> QED  BY <1>2, <2>1, <2>2
<1> QED  BY <1>3 DEF a, n

(***************************************************************************)
(* A line of earlier words does not change when another word comes.        *)
(***************************************************************************)
LEMMA LineKept ==
    ASSUME NEW s \in Seq(Word), NEW w \in Word,
           NEW n \in Int, NEW m \in Int, n <= Len(s), m <= n
    PROVE  LineSince(Append(s, w), n, m) = LineSince(s, n, m)
<1>1. ASSUME NEW k \in Tap, k < m
      PROVE  Append(s, w)[n - k] = s[n - k]
  <2>1. k \in Nat /\ n - k \in 1 .. Len(s)
    BY <1>1, Fed, TapsAssumption DEF Tap
  <2> QED  BY <2>1, Fed
<1> QED  BY <1>1 DEF LineSince

(***************************************************************************)
(* A line with none of the words is the line after reset.                  *)
(***************************************************************************)
LEMMA LineEmpty ==
    ASSUME NEW s, NEW n, NEW m \in Int, m <= 0
    PROVE  LineSince(s, n, m) = EmptyLine
<1>1. \A k \in Tap : ~ (k < m)
  BY TapsAssumption DEF Tap
<1> QED  BY <1>1 DEF LineSince, EmptyLine

(***************************************************************************)
(* Where make_Denoise stands, as numbers.                                  *)
(***************************************************************************)
LEMMA Numbers ==
    ASSUME ProgramTypes
    PROVE  /\ BUF_SIZE \in Nat /\ BUF_SIZE > 0 /\ Taps \in Nat /\ Taps > 1
           /\ Len(fed) \in Nat /\ i \in Nat /\ i < BUF_SIZE /\ cycle \in Nat
           /\ Channels[chan] \in Channel
           /\ chan = 1 => Channels[chan] = "l" /\ Position = i
           /\ chan = 2 => Channels[chan] = "r" /\ Position = BUF_SIZE + i
           /\ Position \in Nat /\ Position < 2 * BUF_SIZE
<1>1. /\ BUF_SIZE \in Nat /\ BUF_SIZE > 0 /\ Taps \in Nat /\ Taps > 1
      /\ i \in Nat /\ i < BUF_SIZE /\ cycle \in Nat
  BY DenoiseAssumption, TapsAssumption, SerialAssumption
  DEF ProgramTypes, Index
<1>2. Len(fed) \in Nat
  BY LenProperties DEF ProgramTypes
<1>3. chan \in {1, 2} /\ Channels[1] = "l" /\ Channels[2] = "r"
  BY DEF ProgramTypes, Channels
<1>4. /\ chan = 1 => Channels[chan] = "l" /\ Position = i
      /\ chan = 2 => Channels[chan] = "r" /\ Position = BUF_SIZE + i
  BY <1>1, <1>3 DEF Position, Place, Offset
<1> QED  BY <1>1, <1>2, <1>3, <1>4 DEF Channel

(***************************************************************************)
(* The word make_Denoise is at is one of the filter's words.               *)
(***************************************************************************)
LEMMA WordType == ProgramTypes => word \in Word
BY Numbers DEF ProgramTypes, word
(***************************************************************************)
(* The loops of make_Denoise go on to the next place, or end.              *)
(***************************************************************************)
LEMMA NextPlace ==
    ASSUME ProgramTypes, pc = "denoise", NEW result, Keep(result)
    PROVE  /\ pc' \in {"main", "enable", "denoise"}
           /\ chan' \in {1, 2} /\ i' \in Index
           /\ pc' # "denoise" => chan' = 1 /\ i' = 0
           /\ fed' = Append(fed, word)
           /\ fed' \in Seq(Word) /\ Len(fed') = Len(fed) + 1
           /\ Done' = Done + 1 /\ Before' = Before
<1>1. fed' = Append(fed, word) /\ Done = Position
  BY DEF Keep, Done
<1>2. fed' \in Seq(Word) /\ Len(fed') = Len(fed) + 1
  BY <1>1, Fed, WordType DEF ProgramTypes
<1>3. fed' # <<>>
  BY <1>2, Numbers, EmptySeq
<1> DEFINE Goes == /\ pc' \in {"main", "enable", "denoise"}
                   /\ chan' \in {1, 2} /\ i' \in Index
                   /\ pc' # "denoise" => chan' = 1 /\ i' = 0
                   /\ Done' = Done + 1
<1>4. ASSUME ~ChannelEnds PROVE Goes
  <2>0. i + 1 \in Index
    BY <1>4, Numbers DEF ChannelEnds, Index
  <2>1. i' = i + 1 /\ chan' = chan /\ pc' = "denoise"
    BY <1>4 DEF Keep
  <2>2. Done' = Offset(Channels[chan]) + (i + 1)
    BY <2>1 DEF Done, Position, Place, Channels
  <2>3. Done = Offset(Channels[chan]) + i
    BY <1>1 DEF Position, Place
  <2>4. Offset(Channels[chan]) \in Nat
    BY Numbers DEF Offset
  <2>5. Done' = Done + 1
    BY <2>2, <2>3, <2>4, Numbers
  <2> QED  BY <2>0, <2>1, <2>5 DEF ProgramTypes
<1>5. ASSUME ChannelEnds, chan = 1 PROVE Goes
  <2>1. /\ i' = 0 /\ chan' = 2 /\ pc' = "denoise" /\ 0 \in Index
    BY <1>5, Numbers DEF Keep, ChannelEnds, Index
  <2>2. Done' = BUF_SIZE
    BY <2>1, Numbers DEF Done, Position, Place, Offset, Channels
  <2>3. Done = BUF_SIZE - 1
    BY <1>1, <1>5, Numbers DEF ChannelEnds
  <2>4. Done' = Done + 1
    BY <2>2, <2>3, Numbers
  <2> QED  BY <2>1, <2>4
<1>6. ASSUME ChannelEnds, chan = 2 PROVE Goes
  <2>1. /\ i' = 0 /\ chan' = 1 /\ pc' = "main" /\ 0 \in Index
    BY <1>6, Numbers DEF Keep, ChannelEnds, Index
  <2>2. Done' = 2 * BUF_SIZE
    BY <2>1, <1>3 DEF Done
  <2>3. Done = 2 * BUF_SIZE - 1
    BY <1>1, <1>6, Numbers DEF ChannelEnds
  <2>4. Done' = Done + 1
    BY <2>2, <2>3, Numbers
  <2> QED  BY <2>1, <2>4
<1>7. Goes
  BY <1>4, <1>5, <1>6 DEF ProgramTypes
<1>8. Before' = Before
  <2>1. Before = Len(fed) - Done /\ Before' = Len(fed') - Done'
    BY DEF Before
  <2>2. Len(fed) \in Nat /\ Done \in Nat
    BY <1>1, Numbers
  <2> QED  BY <1>2, <1>7, <2>1, <2>2
<1> QED  BY <1>1, <1>2, <1>7, <1>8

(***************************************************************************)
(* What is kept at a place is the answer to that place's line, and the     *)
(* answers kept before stay what they are.                                 *)
(***************************************************************************)
LEMMA KeepStep ==
    ASSUME ProgramInv, pc = "denoise", UNCHANGED hardware, NEW line,
           Keep(Convolution(line)),
           line = IF hardware
                    THEN LineSince(fed, Len(fed) - 1, Len(fed) - 1)
                    ELSE LineSince(Append(fed, word), Len(fed) + 1, i + 1)
    PROVE  /\ Denoised'
           /\ Done' <= Len(fed')
           /\ buf_Denoise' \in [Channel -> [Index -> Sum]]
<1>1. ProgramTypes /\ Begun /\ Denoised
  BY DEF ProgramInv
<1>2. /\ fed' = Append(fed, word) /\ Len(fed') = Len(fed) + 1
      /\ Done' = Done + 1 /\ Before' = Before
  BY <1>1, NextPlace
<1>3. Done = Position /\ Done <= Len(fed) /\ Before = Len(fed) - Done
  BY <1>1 DEF Done, Before, Begun
<1>4. fed \in Seq(Word) /\ word \in Word
  BY <1>1, WordType DEF ProgramTypes
<1>5. Convolution(line) \in Sum
  BY PartialSumType DEF Convolution
<1>6. buf_Denoise' = [buf_Denoise EXCEPT ![Channels[chan]][i] = Convolution(line)]
  BY DEF Keep
<1>7. buf_Denoise' \in [Channel -> [Index -> Sum]]
  BY <1>1, <1>5, <1>6, Numbers DEF ProgramTypes
<1>8. Done' <= Len(fed')
  BY <1>1, <1>2, <1>3, Numbers
<1>9. ASSUME NEW c \in Channel, NEW k \in Index, Place(c, k) < Done'
      PROVE  buf_Denoise'[c][k] = Convolution(LineOf(c, k)')
  <2> DEFINE p == Before + Place(c, k) + 1
  <2>0. /\ LineOf(c, k)' = IF hardware THEN LineSince(fed', p - 2, p - 2)
                                       ELSE LineSince(fed', p, k + 1)
        /\ LineOf(c, k) = IF hardware THEN LineSince(fed, p - 2, p - 2)
                                      ELSE LineSince(fed, p, k + 1)
    BY <1>2 DEF LineOf, Place, Offset
  <2>1. k \in Nat /\ k < BUF_SIZE /\ Place(c, k) \in Nat /\ k <= Place(c, k)
    BY Numbers, <1>1 DEF Place, Offset, Index
  <2>2. p \in Nat /\ k + 1 <= p
    <3>1. Before \in Nat
      BY <1>1, <1>3, Numbers
    <3> QED  BY <2>1, <3>1
  <2>3. CASE c = Channels[chan] /\ k = i
    <3>1. p = Len(fed) + 1
      <4>1. Place(c, k) = Position
        BY <2>3 DEF Position
      <4> QED  BY <1>1, <1>3, <4>1, Numbers
    <3>2. buf_Denoise'[c][k] = Convolution(line)
      BY <1>1, <1>6, <2>3, Numbers DEF ProgramTypes
    <3>3. p - 2 = Len(fed) - 1
      BY <1>1, <3>1, Numbers
    <3>4. CASE hardware
      <4>1. LineSince(fed', p - 2, p - 2)
              = LineSince(fed, Len(fed) - 1, Len(fed) - 1)
        <5>1. Len(fed) - 1 \in Int /\ Len(fed) - 1 <= Len(fed)
          BY <1>1, Numbers
        <5> QED  BY <1>2, <1>4, <3>3, <5>1, LineKept
      <4> QED  BY <2>0, <3>2, <3>4, <4>1
    <3>5. CASE ~hardware
      BY <1>2, <2>0, <2>3, <3>1, <3>2, <3>5
    <3> QED  BY <3>4, <3>5
  <2>4. CASE ~(c = Channels[chan] /\ k = i)
    <3>1. Place(c, k) # Position
      <4>1. /\ chan \in {1, 2} /\ BUF_SIZE \in Nat /\ i \in Nat /\ i < BUF_SIZE
            /\ chan = 1 => Channels[chan] = "l" /\ Position = i
            /\ chan = 2 => Channels[chan] = "r" /\ Position = BUF_SIZE + i
        BY <1>1, Numbers DEF ProgramTypes
      <4>2. /\ c = "l" => Place(c, k) = k
            /\ c = "r" => Place(c, k) = BUF_SIZE + k
        BY <2>1, <4>1 DEF Place, Offset
      <4> QED  BY <2>1, <2>4, <4>1, <4>2 DEF Channel
    <3>2. Place(c, k) < Done
      <4>1. Done = Position /\ Done' = Done + 1 /\ Position \in Nat
        BY <1>1, <1>2, <1>3, Numbers
      <4> QED  BY <1>9, <2>1, <3>1, <4>1
    <3>3. buf_Denoise'[c][k] = buf_Denoise[c][k]
      <4>1. /\ buf_Denoise \in [Channel -> [Index -> Sum]]
            /\ Channels[chan] \in Channel /\ i \in Index
        BY <1>1, Numbers DEF ProgramTypes
      <4> HIDE DEF p
      <4> QED  BY <1>6, <2>4, <4>1
    <3>4. buf_Denoise[c][k] = Convolution(LineOf(c, k))
      BY <1>1, <3>2 DEF Denoised
    <3>5. p <= Len(fed) /\ p - 2 \in Int /\ p - 2 <= Len(fed)
      <4>1. Len(fed) \in Nat /\ Done \in Nat /\ Before = Len(fed) - Done
        BY <1>1, <1>3, Numbers
      <4>2. p <= Len(fed)
        BY <2>1, <3>2, <4>1
      <4> HIDE DEF p
      <4> QED  BY <2>2, <4>1, <4>2
    <3>6. LineSince(fed', p - 2, p - 2) = LineSince(fed, p - 2, p - 2)
      BY <1>2, <1>4, <3>5, LineKept
    <3>7. LineSince(fed', p, k + 1) = LineSince(fed, p, k + 1)
      <4>1. p \in Int /\ k + 1 \in Int
        BY <2>1, <2>2
      <4> QED  BY <1>2, <1>4, <2>2, <3>5, <4>1, LineKept
    <3> QED  BY <2>0, <3>3, <3>4, <3>6, <3>7
  <2> QED  BY <2>3, <2>4
<1> QED  BY <1>7, <1>8, <1>9 DEF Denoised, Place, Offset
(***************************************************************************)
(* A clock of the custom instruction is a clock of the filter.             *)
(***************************************************************************)
LEMMA InstructionClocks ==
    ASSUME ProgramInv, ALT_CI_FIR_SER_0
    PROVE  TypeOK' /\ SumsInTurn' /\ Next
<1>1. word \in Word /\ Enabled(word)
  BY WordType DEF ProgramInv, ALT_CI_FIR_SER_0
<1>2. Next
  BY <1>1 DEF Next
<1> QED  BY <1>2, StepTypes, StepSums DEF ProgramInv

(***************************************************************************)
(* The first clock of the instruction lets its word into the line, the     *)
(* last finds the answer to the word two before, and there are as many in  *)
(* between as the count needs to come round.                               *)
(***************************************************************************)
LEMMA InstructionStep ==
    ASSUME ProgramInv, ALT_CI_FIR_SER_0
    PROVE  ProgramInv'
<1> DEFINE n == Len(fed)
<1> USE DEF ProgramInv
<1>1. TypeOK' /\ SumsInTurn'
  BY InstructionClocks
<1>2. /\ hardware /\ pc = "denoise" /\ Enabled(word)
      /\ UNCHANGED <<hardware, recordVars, mem>>
  BY DEF ALT_CI_FIR_SER_0
<1>3. fed \in Seq(Word) /\ word \in Word /\ n \in Nat
  BY WordType, Numbers DEF ProgramTypes
<1>4. cycle \in Nat /\ cycle <= Taps - 1 /\ Taps \in Nat /\ Taps > 1
  BY Numbers DEF ProgramTypes
<1>5. LineSince(fed, n, n) = LineSince(Append(fed, word), n, n)
  BY <1>3, LineKept
<1>6. CASE cycle = Taps - 1
  <2>1. cycle' = 0 /\ Keep(output_register)
    BY <1>6 DEF ALT_CI_FIR_SER_0, clockCycle
  <2>2. /\ cur_count = Taps - 2 /\ cycle > 0
        /\ delay_pipeline = Shift(LineSince(fed, n, n), word)
        /\ behind[1] = LineSince(fed, n, n)
        /\ behind[2] = LineSince(fed, n - 1, n - 1)
    BY <1>2, <1>4, <1>6 DEF HardwareLines
  <2>3. /\ cur_count' = Taps - 1
        /\ UNCHANGED <<delay_pipeline, behind>>
    BY <1>2, <1>4, <2>2 DEF Enabled, Counter, Delay_Pipeline, phase_last
  <2>4. Keep(Convolution(LineSince(fed, n - 1, n - 1)))
    BY <2>1, <2>2 DEF SumsInTurn, OutputTwoBehind
  <2>5. /\ pc' \in {"main", "enable", "denoise"}
        /\ chan' \in {1, 2} /\ i' \in Index
        /\ pc' # "denoise" => chan' = 1 /\ i' = 0
        /\ fed' = Append(fed, word) /\ fed' \in Seq(Word) /\ Len(fed') = n + 1
    BY <1>2, <2>1, NextPlace
  <2>6. /\ Denoised' /\ Done' <= Len(fed')
        /\ buf_Denoise' \in [Channel -> [Index -> Sum]]
    BY <1>2, <2>4, KeepStep
  <2>7. 0 \in 0 .. Taps - 1
    BY <1>4
  <2>8. ProgramTypes'
    BY <1>2, <2>1, <2>5, <2>6, <2>7 DEF ProgramTypes, recordVars
  <2>9. Begun'
    <3>1. UNCHANGED <<rec, reading>> /\ (reading => rec > 0)
      BY <1>2 DEF recordVars, Begun
    <3>2. pc' # "enable"
      BY <2>1 DEF Keep
    <3> QED  BY <2>1, <2>5, <2>6, <3>1, <3>2 DEF Begun
  <2>10. HardwareLines'
    <3>1. /\ Len(fed') - 1 = n /\ Len(fed') - 2 = n - 1
          /\ n - 1 \in Int /\ n - 1 <= n
      BY <1>3, <2>5
    <3>2. delay_pipeline' = LineSince(fed', Len(fed'), Len(fed'))
      BY <1>3, <2>2, <2>3, <2>5, LineShift
    <3>3. behind'[1] = LineSince(fed', n, n)
      BY <1>5, <2>2, <2>3, <2>5
    <3>4. behind'[2] = LineSince(fed', n - 1, n - 1)
      BY <1>3, <2>2, <2>3, <2>5, <3>1, LineKept
    <3>5. cycle' = 0 /\ ~(cycle' > 0)
      BY <2>1
    <3> QED  BY <2>3, <3>1, <3>2, <3>3, <3>4, <3>5 DEF HardwareLines
  <2> QED  BY <1>1, <1>2, <2>6, <2>8, <2>9, <2>10 DEF SoftwareLine
<1>7. CASE cycle # Taps - 1
  <2>1. cycle' = cycle + 1 /\ UNCHANGED <<buf_Denoise, fed, i, chan, pc>>
    BY <1>7 DEF ALT_CI_FIR_SER_0, clockCycle
  <2>2. cycle' \in 0 .. Taps - 1 /\ cycle' > 0 /\ cycle' # 0 /\ cycle' - 1 = cycle
    BY <1>4, <1>7, <2>1
  <2>3. ProgramTypes' /\ Begun' /\ Denoised' /\ word' = word
    <3>1. Done' = Done /\ Before' = Before /\ word' = word
      BY <1>2, <2>1 DEF Done, Before, Position, Place, Offset, word, recordVars
    <3>2. ProgramTypes'
      BY <1>2, <2>1, <2>2 DEF ProgramTypes, recordVars
    <3>3. Begun'
      BY <1>2, <2>1, <3>1 DEF Begun, recordVars
    <3>4. Denoised'
      BY <1>2, <2>1, <3>1 DEF Denoised, LineOf, Place, Offset
    <3> QED  BY <3>1, <3>2, <3>3, <3>4
  <2>4. CASE cycle = 0
    <3>1. /\ cur_count = Taps - 1
          /\ delay_pipeline = LineSince(fed, n, n)
          /\ behind[1] = LineSince(fed, n - 1, n - 1)
      BY <1>2, <2>4 DEF HardwareLines
    <3>2. /\ cur_count' = 0
          /\ delay_pipeline' = Shift(delay_pipeline, word)
          /\ behind'[1] = delay_pipeline /\ behind'[2] = behind[1]
      BY <1>2, <3>1 DEF Enabled, Counter, Delay_Pipeline, phase_last, TypeOK
    <3>3. cur_count' = cycle' - 1
      BY <2>2, <2>4, <3>2
    <3>4. HardwareLines'
      BY <2>1, <2>2, <2>3, <3>1, <3>2, <3>3 DEF HardwareLines
    <3> QED  BY <1>1, <1>2, <2>3, <3>4 DEF SoftwareLine
  <2>5. CASE cycle # 0
    <3>1. /\ cur_count = cycle - 1
          /\ delay_pipeline = Shift(LineSince(fed, n, n), word)
          /\ behind[1] = LineSince(fed, n, n)
          /\ behind[2] = LineSince(fed, n - 1, n - 1)
      BY <1>2, <1>4, <2>5 DEF HardwareLines
    <3>2. ~phase_last
      BY <1>4, <3>1 DEF phase_last
    <3>3. /\ cur_count' = cycle' - 1
          /\ UNCHANGED <<delay_pipeline, behind>>
      <4>1. cur_count' = cur_count + 1
        BY <1>2, <3>2 DEF Enabled, Counter
      <4>2. cur_count + 1 = cycle
        BY <1>4, <3>1
      <4> QED  BY <1>2, <2>2, <3>2, <4>1, <4>2 DEF Enabled, Delay_Pipeline
    <3>4. HardwareLines'
      BY <2>1, <2>2, <2>3, <3>1, <3>3 DEF HardwareLines
    <3> QED  BY <1>1, <1>2, <2>3, <3>4 DEF SoftwareLine
  <2> QED  BY <2>4, <2>5
<1> QED  BY <1>6, <1>7
(***************************************************************************)
(* In Software/ a word is answered at once, out of its channel's line.     *)
(***************************************************************************)
LEMMA SoftwareStep ==
    ASSUME ProgramInv, filter
    PROVE  ProgramInv'
<1> DEFINE n == Len(fed)
<1> DEFINE line == Shift(mem, word)
<1> USE DEF ProgramInv
<1>1. /\ ~hardware /\ pc = "denoise" /\ Keep(Convolution(line))
      /\ mem' = Cleared(line)
      /\ UNCHANGED <<firVars, hardware, recordVars, cycle>>
  BY DEF filter
<1>2. TypeOK' /\ SumsInTurn'
  <2>1. [Next]_vars
    BY <1>1 DEF firVars
  <2> QED  BY <2>1, StepTypes, StepSums
<1>3. fed \in Seq(Word) /\ word \in Word /\ n \in Nat /\ i \in Nat
  BY WordType, Numbers DEF ProgramTypes
<1>4. i <= n
  <2>1. Position <= n
    BY <1>1 DEF Begun, Done
  <2>2. chan \in {1, 2} /\ i <= Position
    BY Numbers DEF ProgramTypes
  <2> QED  BY <1>3, <2>1, <2>2, Numbers
<1>5. line = LineSince(Append(fed, word), n + 1, i + 1)
  BY <1>1, <1>3, <1>4, LineShift DEF SoftwareLine
<1>6. /\ pc' \in {"main", "enable", "denoise"}
      /\ chan' \in {1, 2} /\ i' \in Index
      /\ pc' # "denoise" => chan' = 1 /\ i' = 0
      /\ fed' = Append(fed, word) /\ fed' \in Seq(Word) /\ Len(fed') = n + 1
  BY <1>1, NextPlace
<1>7. /\ Denoised' /\ Done' <= Len(fed')
      /\ buf_Denoise' \in [Channel -> [Index -> Sum]]
  <2>1. line = IF hardware THEN LineSince(fed, n - 1, n - 1)
                           ELSE LineSince(Append(fed, word), n + 1, i + 1)
    BY <1>1, <1>5
  <2> HIDE DEF line, ProgramInv
  <2> QED  BY <1>1, <2>1, KeepStep
<1>8. ProgramTypes'
  BY <1>1, <1>6, <1>7 DEF ProgramTypes, recordVars
<1>9. Begun'
  <2>1. UNCHANGED <<rec, reading>> /\ (reading => rec > 0)
    BY <1>1 DEF recordVars, Begun
  <2>2. pc' # "enable"
    BY <1>1 DEF Keep
  <2>3. cycle' = 0
    BY <1>1 DEF SoftwareLine
  <2> QED  BY <1>6, <1>7, <2>1, <2>2, <2>3 DEF Begun
<1>10. SoftwareLine'
  <2>1. cycle' = 0
    BY <1>1 DEF SoftwareLine
  <2>2. CASE ChannelEnds
    <3>1. i' = 0 /\ mem' = EmptyLine
      BY <1>1, <2>2 DEF Keep, Cleared
    <3>2. LineSince(fed', Len(fed'), 0) = EmptyLine
      BY LineEmpty
    <3> QED  BY <2>1, <3>1, <3>2 DEF SoftwareLine
  <2>3. CASE ~ChannelEnds
    <3>1. i' = i + 1 /\ mem' = line
      BY <1>1, <2>3 DEF Keep, Cleared
    <3> QED  BY <1>5, <1>6, <2>1, <3>1 DEF SoftwareLine
  <2> QED  BY <2>2, <2>3
<1> QED  BY <1>1, <1>2, <1>7, <1>8, <1>9, <1>10 DEF HardwareLines

(***************************************************************************)
(* Interrupts come between instructions, and change what will be filtered, *)
(* never what has been.                                                    *)
(***************************************************************************)
LEMMA InterruptStep ==
    ASSUME ProgramInv, pushbutton_ISR \/ audio_ISR
    PROVE  ProgramInv'
<1> USE DEF ProgramInv
<1>1. /\ cycle = 0
      /\ UNCHANGED <<firVars, hardware, buf_Denoise, pc, chan, i, cycle, mem, fed>>
  BY DEF pushbutton_ISR, audio_ISR, Interruptible, loopVars
<1>2. TypeOK' /\ SumsInTurn'
  BY <1>1, StepTypes, StepSums DEF firVars
<1>3. /\ buf' \in [Channel -> [Index -> Word]]
      /\ buf_index_record' \in 0 .. BUF_SIZE
      /\ reading' \in BOOLEAN
      /\ rec' \in 0 .. Recordings
      /\ (reading' => rec' > 0) /\ (rec > 0 => rec' > 0)
  <2>1. BUF_SIZE \in Nat /\ Recordings \in Nat
    BY DenoiseAssumption
  <2>2. CASE pushbutton_ISR
    <3>1. /\ rec' = rec + 1 /\ rec < Recordings
          /\ buf' = buf /\ buf_index_record' = 0 /\ reading' = TRUE
      BY <2>2 DEF pushbutton_ISR, Begin
    <3> QED  BY <2>1, <3>1 DEF ProgramTypes
  <2>3. CASE audio_ISR
    <3>1. PICK n \in 1 .. BUF_SIZE - buf_index_record :
            /\ buf' = [c \in Channel |-> [k \in Index |->
                         IF k \in buf_index_record .. buf_index_record + n - 1
                         THEN [chan |-> c, at |-> k, rec |-> rec]
                         ELSE buf[c][k]]]
            /\ buf_index_record' = buf_index_record + n
      BY <2>3 DEF audio_ISR
    <3>2. reading /\ rec' = rec /\ reading' = (buf_index_record' < BUF_SIZE)
      BY <2>3 DEF audio_ISR
    <3>3. rec \in 1 .. Recordings
      BY <2>1, <3>2 DEF Begun, ProgramTypes
    <3>4. ASSUME NEW c \in Channel, NEW k \in Index
          PROVE  [chan |-> c, at |-> k, rec |-> rec] \in Word
      BY <3>3, DenoiseAssumption DEF Word
    <3>5. buf' \in [Channel -> [Index -> Word]]
      BY <3>1, <3>4 DEF ProgramTypes
    <3>6. buf_index_record' \in 0 .. BUF_SIZE
      BY <2>1, <3>1 DEF ProgramTypes
    <3>7. reading' \in BOOLEAN
      BY <3>2
    <3>8. rec' \in 0 .. Recordings /\ rec' > 0
      BY <2>1, <3>2, <3>3
    <3> QED  BY <3>5, <3>6, <3>7, <3>8
  <2> QED  BY <2>2, <2>3
<1>4. ProgramTypes'
  BY <1>1, <1>3 DEF ProgramTypes
<1>5. Done' = Done /\ Before' = Before
  BY <1>1 DEF Done, Before, Position, Place, Offset
<1>6. Begun'
  BY <1>1, <1>3, <1>5 DEF Begun
<1>7. HardwareLines' /\ SoftwareLine'
  BY <1>1 DEF HardwareLines, SoftwareLine, firVars, vars
<1>8. Denoised'
  BY <1>1, <1>5 DEF Denoised, LineOf, Place, Offset
<1> QED  BY <1>2, <1>4, <1>6, <1>7, <1>8

(***************************************************************************)
(* The command starts a recording and then the loops.                      *)
(***************************************************************************)
LEMMA CommandStep ==
    ASSUME ProgramInv, Record \/ EnableRead
    PROVE  ProgramInv'
<1> USE DEF ProgramInv
<1>1. /\ pc \in {"main", "enable"} /\ pc' \in {"enable", "denoise"}
      /\ pc' = "denoise" => pc = "enable"
      /\ UNCHANGED <<firVars, hardware, buf, buf_Denoise, chan, i, cycle, mem, fed>>
  BY DEF Record, EnableRead, Begin, loopVars
<1>2. TypeOK' /\ SumsInTurn'
  BY <1>1, StepTypes, StepSums DEF firVars
<1>3. /\ buf_index_record' \in 0 .. BUF_SIZE
      /\ reading' \in BOOLEAN
      /\ rec' \in 0 .. Recordings /\ rec' > 0
  <2>1. BUF_SIZE \in Nat /\ Recordings \in Nat
    BY DenoiseAssumption
  <2>2. CASE Record
    BY <2>1, <2>2 DEF Record, Begin, ProgramTypes
  <2>3. CASE EnableRead
    <3>1. rec > 0
      BY <2>3 DEF EnableRead, Begun
    <3> QED  BY <2>1, <2>3, <3>1 DEF EnableRead, ProgramTypes
  <2> QED  BY <2>2, <2>3
<1>4. ProgramTypes'
  BY <1>1, <1>3 DEF ProgramTypes
<1>5. chan = 1 /\ i = 0 /\ cycle = 0
  BY <1>1 DEF Begun
<1>6. Done' = 0
  BY <1>1, <1>5 DEF Done, Position, Place, Offset, Channels
<1>7. Begun'
  <2>1. Done' <= Len(fed')
    BY <1>4, <1>6, LenProperties DEF ProgramTypes
  <2> QED  BY <1>1, <1>3, <1>5, <2>1 DEF Begun
<1>8. HardwareLines' /\ SoftwareLine'
  BY <1>1, <1>5 DEF HardwareLines, SoftwareLine, firVars, vars
<1>9. Denoised'
  <2>1. ASSUME NEW c \in Channel, NEW k \in Index
        PROVE  ~ (Place(c, k) < 0)
    <3>1. BUF_SIZE \in Nat /\ k \in Nat
      BY DenoiseAssumption DEF Index
    <3> QED  BY <3>1 DEF Place, Offset
  <2> QED  BY <1>6, <2>1 DEF Denoised, Place, Offset
<1> QED  BY <1>2, <1>4, <1>7, <1>8, <1>9
(***************************************************************************)
(* Both programs keep ProgramInv, wherever the interrupts come.            *)
(***************************************************************************)
THEOREM ProgramInvariant == DenoiseSpec => []ProgramInv
<1>1. DenoiseInit => ProgramInv
  <2> SUFFICES ASSUME DenoiseInit PROVE ProgramInv
    OBVIOUS
  <2> USE DEF DenoiseInit
  <2>1. /\ Taps - 1 \in Tap /\ 0 \in 0 .. Taps - 1
        /\ BUF_SIZE \in Nat /\ Recordings \in Nat
        /\ 0 \in Index /\ 0 \in 0 .. BUF_SIZE /\ 0 \in 0 .. Recordings
    BY TapsAssumption, DenoiseAssumption DEF Tap, Index
  <2>2. TypeOK
    BY <2>1, EmptyTypes DEF Init, TypeOK
  <2>3. SumsInTurn
    BY ClearedSums DEF Init, SumsInTurn, OutputTwoBehind, phase_0
  <2>4. ProgramTypes
    <3>1. Zero \in Word /\ fed \in Seq(Word)
      BY DEF Word
    <3> QED  BY <2>1, <3>1, EmptyTypes DEF ProgramTypes
  <2>5. Len(fed) = 0 /\ Done = 0
    BY DEF Done
  <2>6. Begun
    BY <2>5 DEF Begun
  <2>7. HardwareLines
    <3>1. /\ LineSince(fed, 0, 0) = EmptyLine
          /\ LineSince(fed, 0 - 1, 0 - 1) = EmptyLine
          /\ LineSince(fed, 0 - 2, 0 - 2) = EmptyLine
      BY LineEmpty
    <3> QED  BY <2>5, <3>1 DEF Init, HardwareLines
  <2>8. SoftwareLine
    BY LineEmpty DEF SoftwareLine
  <2>9. Denoised
    <3>1. ASSUME NEW c \in Channel, NEW k \in Index
          PROVE  ~ (Place(c, k) < 0)
      <4>1. BUF_SIZE \in Nat /\ k \in Nat
        BY DenoiseAssumption DEF Index
      <4> QED  BY <4>1 DEF Place, Offset
    <3> QED  BY <2>5, <3>1 DEF Denoised
  <2> QED  BY <2>2, <2>3, <2>4, <2>6, <2>7, <2>8, <2>9 DEF ProgramInv
<1>2. ProgramInv /\ [DenoiseNext]_allVars => ProgramInv'
  <2> SUFFICES ASSUME ProgramInv, [DenoiseNext]_allVars PROVE ProgramInv'
    OBVIOUS
  <2>1. CASE UNCHANGED allVars
    BY <2>1 DEF allVars, firVars, vars, recordVars, loopVars, ProgramInv,
       TypeOK, SumsInTurn, OutputTwoBehind, phase_0, ProgramTypes, Begun,
       HardwareLines, SoftwareLine, Denoised, LineOf, Before, Done, Position,
       Place, Offset, word
  <2> QED  BY <2>1, InstructionStep, SoftwareStep, InterruptStep, CommandStep
           DEF DenoiseNext
<1> QED  BY <1>1, <1>2, PTL DEF DenoiseSpec

(***************************************************************************)
(* What the filter does in the program is what it does by itself: all that *)
(* is proved of it above holds there.                                      *)
(***************************************************************************)
THEOREM FilterInside == DenoiseSpec => Spec
<1>1. DenoiseInit => Init
  BY DEF DenoiseInit
<1>2. ProgramInv /\ [DenoiseNext]_allVars => [Next]_vars
  <2> SUFFICES ASSUME ProgramInv, [DenoiseNext]_allVars PROVE [Next]_vars
    OBVIOUS
  <2>1. CASE ALT_CI_FIR_SER_0
    BY <2>1, InstructionClocks
  <2>2. CASE ~ALT_CI_FIR_SER_0
    BY <2>2 DEF DenoiseNext, pushbutton_ISR, audio_ISR, Interruptible, Record,
                EnableRead, filter, firVars, allVars
  <2> QED  BY <2>1, <2>2
<1> QED  BY <1>1, <1>2, ProgramInvariant, PTL DEF DenoiseSpec, Spec

(***************************************************************************)
(* When make_Denoise has run, every place of both channels is denoised.    *)
(***************************************************************************)
LEMMA AllPlaces ==
    ASSUME ProgramInv, pc = "main", fed # <<>>, NEW c \in Channel, NEW k \in Index
    PROVE  /\ buf_Denoise[c][k] = Convolution(LineOf(c, k))
           /\ k \in Nat /\ k < BUF_SIZE /\ Len(fed) \in Nat
           /\ Before = Len(fed) - 2 * BUF_SIZE /\ Before >= 0
           /\ Place(c, k) = k + (IF c = "l" THEN 0 ELSE BUF_SIZE)
<1>1. Done = 2 * BUF_SIZE /\ Done <= Len(fed)
  BY DEF Done, ProgramInv, Begun
<1>2. BUF_SIZE \in Nat /\ BUF_SIZE > 0 /\ Len(fed) \in Nat
  BY Numbers DEF ProgramInv
<1>3. k \in Nat /\ k < BUF_SIZE
  BY <1>2 DEF Index
<1>4. Place(c, k) = k + (IF c = "l" THEN 0 ELSE BUF_SIZE)
  BY <1>2, <1>3 DEF Place, Offset
<1>5. Place(c, k) < Done
  BY <1>1, <1>2, <1>3, <1>4
<1>6. buf_Denoise[c][k] = Convolution(LineOf(c, k))
  BY <1>5 DEF ProgramInv, Denoised
<1>7. Before = Len(fed) - 2 * BUF_SIZE /\ Before >= 0
  BY <1>1, <1>2 DEF Before
<1> QED  BY <1>2, <1>3, <1>4, <1>6, <1>7

(***************************************************************************)
(* Hardware/ for every number of taps, any buffers and any recordings: a   *)
(* denoised word answers the word two before it in one stream of all words *)
(* ever filtered, and the filter's phase never slips.                      *)
(***************************************************************************)
THEOREM HardwareCorrect == DenoiseSpec => []HardwareTwoBehind
<1>1. ProgramInv => HardwareTwoBehind
  <2> SUFFICES ASSUME ProgramInv, hardware, pc = "main", fed # <<>>,
                      NEW c \in Channel, NEW k \in Index
               PROVE  LET from == Len(fed) - (IF c = "l" THEN 2 ELSE 1) * BUF_SIZE
                      IN  buf_Denoise[c][k] = AnswerTo(fed, from + k + 1 - 2)
    BY DEF HardwareTwoBehind
  <2> DEFINE from == Len(fed) - (IF c = "l" THEN 2 ELSE 1) * BUF_SIZE
             m == from + k + 1 - 2
  <2>1. BUF_SIZE \in Nat /\ BUF_SIZE > 0
    BY Numbers DEF ProgramInv
  <2>2. m = (Before + Place(c, k) + 1) - 2 /\ m \in Int /\ m <= Len(fed)
    BY <2>1, AllPlaces
  <2>3. buf_Denoise[c][k] = Convolution(LineSince(fed, m, m))
    BY <2>2, AllPlaces DEF LineOf
  <2> HIDE DEF m
  <2>4. ASSUME NEW j \in Tap
        PROVE  m - j \in 1 .. Len(fed) <=> j < m
    BY <2>2, AllPlaces, TapsAssumption DEF Tap
  <2>5. AnswerTo(fed, m) = Convolution(LineSince(fed, m, m))
    BY <2>4 DEF AnswerTo, LineSince
  <2> QED  BY <2>3, <2>5 DEF m
<1> QED  BY <1>1, ProgramInvariant, PTL

(***************************************************************************)
(* Software/ for every number of taps, any buffers and any recordings: a   *)
(* denoised word answers the word at its own place, in its own channel.    *)
(***************************************************************************)
THEOREM SoftwareCorrect == DenoiseSpec => []SoftwareInPlace
<1>1. ProgramInv => SoftwareInPlace
  <2> SUFFICES ASSUME ProgramInv, ~hardware, pc = "main", fed # <<>>,
                      NEW c \in Channel, NEW k \in Index
               PROVE  buf_Denoise[c][k] = AnswerTo(LastFed(c), k + 1)
    BY DEF SoftwareInPlace
  <2> DEFINE from == Len(fed) - (IF c = "l" THEN 2 ELSE 1) * BUF_SIZE
             s == SubSeq(fed, from + 1, from + BUF_SIZE)
  <2>1. BUF_SIZE \in Nat /\ BUF_SIZE > 0 /\ fed \in Seq(Word)
    BY Numbers DEF ProgramInv, ProgramTypes
  <2>2. /\ from \in Nat /\ from + BUF_SIZE <= Len(fed)
        /\ Before + Place(c, k) + 1 = from + k + 1
        /\ k \in Nat /\ k < BUF_SIZE /\ Len(fed) \in Nat
    BY <2>1, AllPlaces
  <2>3. buf_Denoise[c][k] = Convolution(LineSince(fed, from + k + 1, k + 1))
    BY <2>2, AllPlaces DEF LineOf
  <2> HIDE DEF from
  <2>4. Len(s) = BUF_SIZE /\ \A j \in 1 .. BUF_SIZE : s[j] = fed[from + j]
    BY <2>1, <2>2, SubSeqProperties
  <2> HIDE DEF s
  <2>5. ASSUME NEW j \in Tap
        PROVE  (IF (k + 1) - j \in 1 .. Len(s) THEN s[(k + 1) - j] ELSE Zero)
                 = (IF j < k + 1 THEN fed[(from + k + 1) - j] ELSE Zero)
    <3>1. j \in Nat /\ ((k + 1) - j \in 1 .. Len(s) <=> j < k + 1)
      BY <2>1, <2>2, <2>4, TapsAssumption DEF Tap
    <3>2. j < k + 1 => s[(k + 1) - j] = fed[(from + k + 1) - j]
      <4>1. from + ((k + 1) - j) = (from + k + 1) - j
        BY <2>2, <3>1
      <4> QED  BY <2>4, <3>1, <4>1
    <3> QED  BY <3>1, <3>2
  <2>6. AnswerTo(s, k + 1) = Convolution(LineSince(fed, from + k + 1, k + 1))
    BY <2>5 DEF AnswerTo, LineSince
  <2>7. LastFed(c) = s
    BY DEF LastFed, s, from
  <2> QED  BY <2>3, <2>6, <2>7
<1> QED  BY <1>1, ProgramInvariant, PTL
=============================================================================
