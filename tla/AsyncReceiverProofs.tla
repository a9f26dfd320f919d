------------------------ MODULE AsyncReceiverProofs -------------------------
(***************************************************************************)
(* The serial receiver, for every pair of rates that is close enough: each *)
(* byte is made ready once, with each bit where the phase of the receiver  *)
(* puts it, and in a stream without pauses a wrong byte is followed by Run *)
(* right ones.                                                             *)
(***************************************************************************)
EXTENDS AsyncReceiver, TLAPS

TypeOK ==
    /\ RxD_state \in 0 .. 9 /\ RxD_data_ready \in BOOLEAN
    /\ RxD_data \in [0 .. 7 -> {0, 1} \X (0 .. 9)]
    /\ pos \in 0 .. ByteTime - 1 /\ byte \in {0, 1}
    /\ late \in BOOLEAN /\ good \in 0 .. Run

(***************************************************************************)
(* Count numbers the looks at a byte, the tenth is the one that makes it   *)
(* ready, and Seen is where its first look was.                            *)
(***************************************************************************)
Busy  == RxD_state # 0 \/ RxD_data_ready
Count == IF RxD_state = 0 THEN 10 ELSE RxD_state
Seen  == pos - (Count - 1) * SampleTime

(***************************************************************************)
(* In step, the receiver is busy from the start bit to the look at which   *)
(* the byte is ready, and waits in the stop bit.                           *)
(***************************************************************************)
InStep ==
    ~late => /\ owed = (IF RxD_state = 0 THEN 0 ELSE 1)
             /\ RxD_data_ready => RxD_state = 0
             /\ IF Busy THEN Seen \in 0 .. SampleTime
                        ELSE pos >= 9 * BitTime

(***************************************************************************)
(* Where the bits that were looked at are in the register.                 *)
(***************************************************************************)
Placed ==
    ~late /\ Busy =>
        \A k \in 1 .. 8 :
            k < Count =>
                RxD_data[k - 1] =
                    <<byte, IF Seen >= k * Ahead THEN k ELSE k - 1>>

(***************************************************************************)
(* After a wrong byte the next start bit is seen at its end; from there    *)
(* the place moves by Drift with each byte.                                *)
(***************************************************************************)
Streak ==
    ~late /\ good < Run =>
        /\ RxD_state # 0 => Seen >= SampleTime - (good + 1) * Drift
        /\ RxD_data_ready => IF good = 0 THEN Seen < Drift
                             ELSE Seen >= SampleTime - good * Drift
        /\ ~Busy => pos >= ByteTime - Drift

IInv == TypeOK /\ InStep /\ Placed /\ Streak

-----------------------------------------------------------------------------
(***************************************************************************)
(* The clocks: a look is a little shorter than a bit, and ten looks and    *)
(* the clock for which the baud generator stops reach the stop bit.        *)
(***************************************************************************)
LEMMA Clocks ==
    /\ BitTime \in Nat /\ SampleTime \in Nat /\ Run \in Nat
    /\ Ahead \in Nat /\ Drift \in Nat /\ Ahead >= 1
    /\ SampleTime >= 4 /\ SampleTime + Ahead = BitTime
    /\ ByteTime = 10 * BitTime /\ Drift = 10 * Ahead - 1
    /\ 10 * SampleTime + 1 >= 9 * BitTime
    /\ ByteTime - Drift = 10 * SampleTime + 1
BY RatesAssumption DEF Ahead, Drift, SampleTime, Oversampling, ByteTime

(***************************************************************************)
(* Division.                                                               *)
(***************************************************************************)
LEMMA Division ==
    ASSUME NEW m \in Nat \ {0}, NEW p \in Nat
    PROVE  p \div m \in Nat /\ (p \div m) * m <= p
OBVIOUS

(***************************************************************************)
(* Bit n of a byte is on the line for the n-th BitTime clocks.             *)
(***************************************************************************)
LEMMA BitAt ==
    ASSUME NEW p \in Nat, NEW n \in Nat,
           n * BitTime <= p, p < (n + 1) * BitTime
    PROVE  p \div BitTime = n
BY Clocks

LEMMA StartBit ==
    ASSUME pos' \in Nat, pos' < BitTime
    PROVE  LineBit = 0
<1>1. 0 * BitTime = 0 /\ (0 + 1) * BitTime = BitTime
  BY Clocks
<1> QED  BY <1>1, BitAt DEF LineBit

LEMMA StopBit ==
    ASSUME pos' \in Nat, pos' >= 9 * BitTime, pos' < 10 * BitTime
    PROVE  LineBit = 9
<1>1. (9 + 1) * BitTime = 10 * BitTime
  BY Clocks
<1> QED  BY <1>1, BitAt, Clocks DEF LineBit

(***************************************************************************)
(* d clocks on the line: the same byte, or its stop bit held, or another   *)
(* byte that began in them.                                                *)
(***************************************************************************)
LEMMA LineMoves ==
    ASSUME TypeOK, NEW d \in 0 .. BitTime, SerialLine(d)
    PROVE  /\ pos' \in 0 .. ByteTime - 1 /\ byte' \in {0, 1}
           /\ pos + d < ByteTime => pos' = pos + d /\ ~Begins /\ byte' = byte
           /\ pos + d >= ByteTime =>
                 \/ pos' = Silent /\ ~Begins /\ byte' = byte
                 \/ pos' \in 0 .. pos + d - ByteTime /\ Begins
<1> USE Clocks DEF TypeOK
<1>1. CASE pos + d < ByteTime
  BY <1>1 DEF SerialLine, Begins
<1>2. CASE pos + d >= ByteTime
  BY <1>2 DEF SerialLine, Begins, Silent
<1> QED  BY <1>1, <1>2

(***************************************************************************)
(* The bit that is looked at is one of the ten.                            *)
(***************************************************************************)
LEMMA LineBitType ==
    ASSUME pos' \in 0 .. ByteTime - 1
    PROVE  LineBit \in 0 .. 9
<1>1. BitTime \in Nat \ {0} /\ pos' \in Nat /\ pos' < 10 * BitTime
  BY Clocks
<1>2. LineBit \in Nat /\ LineBit * BitTime <= pos'
  BY <1>1, Division DEF LineBit
<1>3. LineBit >= 10 => LineBit * BitTime >= 10 * BitTime
  BY <1>1, <1>2, Clocks
<1> QED  BY <1>1, <1>2, <1>3, Clocks

(***************************************************************************)
(* The registers keep their types.                                         *)
(***************************************************************************)
LEMMA UntilSampleType ==
    ASSUME TypeOK
    PROVE  UntilSample \in 0 .. BitTime
BY Clocks DEF TypeOK, UntilSample

LEMMA TypeStep == TypeOK /\ [RxNext]_receiverVars => TypeOK'
<1> SUFFICES ASSUME TypeOK, [RxNext]_receiverVars PROVE TypeOK'
  OBVIOUS
<1>1. CASE LookAtLine
  <2>1. pos' \in 0 .. ByteTime - 1 /\ byte' \in {0, 1}
    BY <1>1, LineMoves, UntilSampleType DEF LookAtLine
  <2>2. RxD_state' \in 0 .. 9
    BY <1>1 DEF LookAtLine, NextState, TypeOK
  <2>3. RxD_data' \in [0 .. 7 -> {0, 1} \X (0 .. 9)]
    <3>1. <<byte', LineBit>> \in {0, 1} \X (0 .. 9)
      BY <2>1, LineBitType
    <3> HIDE DEF LineBit
    <3> QED  BY <1>1, <3>1 DEF LookAtLine, StoreBit, TypeOK
  <2>4. late' \in BOOLEAN /\ RxD_data_ready' \in BOOLEAN
    BY <1>1 DEF LookAtLine, KeepCount, TypeOK
  <2>5. good' \in 0 .. Run
    BY <1>1, Clocks DEF LookAtLine, KeepCount, TypeOK
  <2> QED  BY <2>1, <2>2, <2>3, <2>4, <2>5 DEF TypeOK
<1>2. CASE RxReset
  <2>1. RxTickGen \in 0 .. BitTime /\ 0 \in 0 .. BitTime
    BY RatesAssumption DEF SampleTime, Oversampling
  <2>2. pos' \in 0 .. ByteTime - 1 /\ byte' \in {0, 1}
    BY <1>2, <2>1, LineMoves DEF RxReset
  <2>3. RxD_data' \in [0 .. 7 -> {0, 1} \X (0 .. 9)]
    BY <1>2 DEF RxReset, Nothing
  <2>4. late' \in BOOLEAN
    BY <1>2, Zenon DEF RxReset
  <2>5. RxD_state' = 0 /\ RxD_data_ready' = FALSE /\ good' = Run
    BY <1>2, Zenon DEF RxReset
  <2>6. RxD_state' \in 0 .. 9 /\ good' \in 0 .. Run
    BY <2>5, Clocks
  <2> QED  BY <2>2, <2>3, <2>4, <2>5, <2>6 DEF TypeOK
<1>3. CASE UNCHANGED receiverVars
  BY <1>3 DEF receiverVars, lineVars, TypeOK
<1> QED  BY <1>1, <1>2, <1>3 DEF RxNext

-----------------------------------------------------------------------------
(***************************************************************************)
(* A byte is made ready by the look in state 9 and by no other.            *)
(***************************************************************************)
LEMMA ReadyAtEnd ==
    ASSUME LookAtLine
    PROVE  RxD_data_ready' <=> RxD_state = 9
BY Zenon DEF LookAtLine

(***************************************************************************)
(* Nothing but a reset puts the receiver out of step.                      *)
(***************************************************************************)
LEMMA StaysInStep ==
    ASSUME ~late, LookAtLine
    PROVE  ~late'
BY Zenon DEF LookAtLine, KeepCount

(***************************************************************************)
(* A look while the receiver waits: at the stop bit, or at the start bit   *)
(* of a byte that began since the look before.                             *)
(***************************************************************************)
LEMMA WaitingLook ==
    ASSUME TypeOK, InStep, ~late, LookAtLine, RxD_state = 0
    PROVE  /\ pos + UntilSample >= 10 * SampleTime + 1 \/ ~RxD_data_ready
           /\ \/ /\ RxD_state' = 0 /\ ~Begins
                 /\ pos' >= 9 * BitTime
                 /\ pos' \in {Silent, pos + UntilSample}
              \/ /\ RxD_state' = 1 /\ Begins
                 /\ pos' \in 0 .. pos + UntilSample - ByteTime
                 /\ pos' <= SampleTime
<1> USE Clocks
<1>1. pos \in 0 .. ByteTime - 1 /\ UntilSample \in 0 .. BitTime
  BY UntilSampleType DEF TypeOK
<1>2. /\ UntilSample >= SampleTime
      /\ UntilSample <= SampleTime + 1
      /\ RxD_data_ready => UntilSample = SampleTime + 1
  BY DEF TypeOK, UntilSample
<1>3. IF RxD_data_ready THEN pos >= 9 * SampleTime ELSE pos >= 9 * BitTime
  BY DEF TypeOK, InStep, Busy, Seen, Count
<1>4. \/ RxDLow(TRUE) /\ RxD_state' = 1
      \/ RxDLow(FALSE) /\ RxD_state' = 0
  BY DEF LookAtLine, NextState
<1>5. pos + UntilSample >= 9 * BitTime
  BY <1>1, <1>2, <1>3
<1>6. pos' \in Nat /\ pos' < 10 * BitTime
  BY <1>1, LineMoves DEF LookAtLine
<1>7. CASE pos + UntilSample < ByteTime
  <2>1. pos' = pos + UntilSample /\ ~Begins
    BY <1>1, <1>7, LineMoves DEF LookAtLine
  <2>2. LineBit = 9
    BY <1>5, <1>6, <2>1, StopBit
  <2> QED  BY <1>1, <1>2, <1>3, <1>4, <1>5, <2>1, <2>2 DEF RxDLow
<1>8. CASE pos + UntilSample >= ByteTime /\ pos' = Silent /\ ~Begins
  <2>1. pos' >= 9 * BitTime
    BY <1>8 DEF Silent
  <2>2. LineBit = 9
    BY <1>6, <2>1, StopBit
  <2> QED  BY <1>1, <1>2, <1>3, <1>4, <1>8, <2>1, <2>2 DEF RxDLow
<1>9. CASE /\ pos + UntilSample >= ByteTime
           /\ pos' \in 0 .. pos + UntilSample - ByteTime /\ Begins
  <2>1. pos' <= SampleTime /\ pos' < BitTime
    BY <1>1, <1>2, <1>9
  <2>2. LineBit = 0
    BY <1>6, <2>1, StartBit
  <2> QED  BY <1>1, <1>2, <1>3, <1>4, <1>9, <2>1, <2>2 DEF RxDLow
<1> QED  BY <1>1, <1>7, <1>8, <1>9, LineMoves DEF LookAtLine

(***************************************************************************)
(* A look at a byte: the byte stays the same, and the next look is counted *)
(* from the same place.                                                    *)
(***************************************************************************)
LEMMA BusyLook ==
    ASSUME TypeOK, InStep, ~late, LookAtLine, RxD_state # 0
    PROVE  /\ ~Begins /\ byte' = byte /\ pos' # Silent
           /\ pos' = Seen + RxD_state * SampleTime
           /\ Seen \in 0 .. SampleTime
           /\ Seen' = Seen /\ Count' = RxD_state + 1
           /\ RxD_state' = IF RxD_state = 9 THEN 0 ELSE RxD_state + 1
           /\ (RxD_data_ready' <=> RxD_state = 9)
<1> USE Clocks
<1>1. RxD_state \in 1 .. 9 /\ pos \in 0 .. ByteTime - 1
  BY DEF TypeOK
<1>2. UntilSample = SampleTime
  BY DEF InStep, TypeOK, UntilSample
<1>3. RxD_state' = IF RxD_state = 9 THEN 0 ELSE RxD_state + 1
  BY <1>1 DEF LookAtLine, NextState
<1>4. /\ Seen = pos - (RxD_state - 1) * SampleTime
      /\ Seen \in 0 .. SampleTime
  BY <1>1 DEF InStep, Busy, Seen, Count
<1>5. /\ (RxD_state - 1) * SampleTime \in Nat
      /\ RxD_state * SampleTime = (RxD_state - 1) * SampleTime + SampleTime
      /\ RxD_state * SampleTime <= 9 * SampleTime
  BY <1>1
<1>6. pos + SampleTime < ByteTime - 1
  BY <1>1, <1>4, <1>5
<1>7. pos' = pos + SampleTime /\ ~Begins /\ byte' = byte
  BY <1>1, <1>2, <1>6, LineMoves DEF LookAtLine
<1>8. Count' = RxD_state + 1
  BY <1>1, <1>3 DEF Count
<1>9. Seen' = Seen
  BY <1>1, <1>4, <1>5, <1>7, <1>8 DEF Seen
<1>10. RxD_data_ready' <=> RxD_state = 9
  BY ReadyAtEnd
<1> QED
  BY <1>1, <1>3, <1>4, <1>5, <1>6, <1>7, <1>8, <1>9, <1>10 DEF Silent

(***************************************************************************)
(* The first look at a byte is its own place.                              *)
(***************************************************************************)
LEMMA FirstLook ==
    ASSUME pos' \in Nat, RxD_state' = 1
    PROVE  Seen' = pos'
<1>1. ASSUME NEW p \in Nat, NEW c, c = 1
      PROVE  p - (c - 1) * SampleTime = p
  BY <1>1, Clocks
<1>2. Count' = 1
  BY DEF Count
<1>3. Seen' = pos' - (Count' - 1) * SampleTime
  BY DEF Seen
<1> QED  BY <1>1, <1>2, <1>3

(***************************************************************************)
(* Idle is how the receiver comes back into step: nothing under way, in    *)
(* the last clock of the stop bit.                                         *)
(***************************************************************************)
Idle == /\ RxD_state = 0 /\ ~RxD_data_ready /\ pos = Silent
        /\ owed = 0 /\ good = Run

LEMMA IdleInStep ==
    ASSUME TypeOK, Idle
    PROVE  InStep /\ Placed /\ Streak
BY Clocks DEF TypeOK, Idle, Silent, InStep, Placed, Streak, Busy

LEMMA IdleAgain ==
    ASSUME TypeOK', Idle'
    PROVE  (InStep /\ Placed /\ Streak)'
BY Clocks DEF TypeOK, Idle, Silent, InStep, Placed, Streak, Busy

LEMMA LateLook ==
    ASSUME TypeOK, late, LookAtLine, ~late'
    PROVE  Idle'
<1>1. RxD_state = 0 /\ pos' = Silent
  BY DEF LookAtLine, KeepCount
<1>2. LineBit = 9
  <2>1. Silent >= 9 * BitTime /\ Silent \in Nat /\ Silent < 10 * BitTime
    BY Clocks DEF Silent
  <2> QED  BY <1>1, <2>1, StopBit
<1>3. RxD_state' = 0
  BY <1>1, <1>2 DEF LookAtLine, NextState, RxDLow
<1>4. ~RxD_data_ready'
  BY <1>1, ReadyAtEnd
<1>5. owed' = 0 /\ good' = Run
  BY <1>4 DEF LookAtLine, KeepCount
<1> QED  BY <1>1, <1>3, <1>4, <1>5 DEF Idle, Silent

LEMMA ResetIdle ==
    ASSUME RxReset, ~late'
    PROVE  Idle'
<1>1. pos' = Silent
  BY Zenon DEF RxReset
<1>2. RxD_state' = 0 /\ RxD_data_ready' = FALSE /\ owed' = 0 /\ good' = Run
  BY Zenon DEF RxReset
<1> QED  BY <1>1, <1>2 DEF Idle, Silent

(***************************************************************************)
(* A look in step: the next byte is owed when its start bit is seen, and   *)
(* is so until the tenth look.                                             *)
(***************************************************************************)
LEMMA LookInStep ==
    ASSUME TypeOK, TypeOK', InStep, ~late, LookAtLine
    PROVE  InStep'
<1> USE Clocks
<1>1. owed' = owed + (IF Begins THEN 1 ELSE 0)
                   - (IF RxD_data_ready' THEN 1 ELSE 0)
  BY DEF LookAtLine, KeepCount
<1>2. CASE RxD_state = 0
  <2>1. ~RxD_data_ready'
    BY <1>2, ReadyAtEnd
  <2>2. owed = 0
    BY <1>2 DEF InStep
  <2>3. CASE RxD_state' = 0 /\ ~Begins /\ pos' >= 9 * BitTime
    BY <1>1, <2>1, <2>2, <2>3 DEF InStep, Busy
  <2>4. CASE RxD_state' = 1 /\ Begins /\ pos' <= SampleTime
    <3>1. pos' \in 0 .. SampleTime
      BY <2>4 DEF TypeOK
    <3>2. Seen' = pos'
      BY <2>4, <3>1, FirstLook
    <3>3. Seen' \in 0 .. SampleTime
      BY <3>1, <3>2
    <3> QED  BY <1>1, <2>1, <2>2, <2>4, <3>3 DEF InStep, Busy
  <2> QED  BY <1>2, <2>3, <2>4, WaitingLook
<1>3. CASE RxD_state # 0
  <2>1. owed = 1
    BY <1>3 DEF InStep
  <2>2. /\ ~Begins /\ Seen' \in 0 .. SampleTime
        /\ RxD_state' = IF RxD_state = 9 THEN 0 ELSE RxD_state + 1
        /\ (RxD_data_ready' <=> RxD_state = 9)
    BY <1>3, BusyLook
  <2>3. CASE RxD_state = 9
    <3>1. RxD_state' = 0 /\ RxD_data_ready'
      BY <2>2, <2>3
    <3> QED  BY <1>1, <2>1, <2>2, <3>1 DEF InStep, Busy
  <2>4. CASE RxD_state # 9
    <3>1. RxD_state' # 0 /\ ~RxD_data_ready'
      BY <1>3, <2>2, <2>4 DEF TypeOK
    <3> QED  BY <1>1, <2>1, <2>2, <3>1 DEF InStep, Busy
  <2> QED  BY <2>3, <2>4
<1> QED  BY <1>2, <1>3

(***************************************************************************)
(* The bit that the k-th look after the first stores.                      *)
(***************************************************************************)
LEMMA BitSeen ==
    ASSUME NEW p \in 0 .. SampleTime, NEW k \in 1 .. 8
    PROVE  (p + k * SampleTime) \div BitTime
              = IF p >= k * Ahead THEN k ELSE k - 1
<1> USE Clocks
<1>1. /\ k * SampleTime \in Nat /\ k * Ahead \in Nat /\ k * BitTime \in Nat
      /\ k * SampleTime + k * Ahead = k * BitTime
      /\ (k + 1) * BitTime = k * BitTime + BitTime
      /\ (k - 1) * BitTime = k * BitTime - BitTime
  OBVIOUS
<1>2. k * Ahead <= 8 * Ahead /\ 8 * Ahead <= BitTime
  OBVIOUS
<1>3. p + k * SampleTime \in Nat
  BY <1>1
<1>4. CASE p >= k * Ahead
  BY <1>1, <1>2, <1>3, <1>4, BitAt
<1>5. CASE p < k * Ahead
  <2>1. k - 1 \in Nat /\ (k - 1) + 1 = k
    OBVIOUS
  <2>2. /\ (k - 1) * BitTime <= p + k * SampleTime
        /\ p + k * SampleTime < k * BitTime
    BY <1>1, <1>2, <1>5
  <2> QED  BY <1>1, <1>3, <1>5, <2>1, <2>2, BitAt
<1> QED  BY <1>1, <1>4, <1>5

(***************************************************************************)
(* A look puts its bit next to those that are there.                       *)
(***************************************************************************)
LEMMA LookPlaces ==
    ASSUME TypeOK, InStep, Placed, ~late, LookAtLine
    PROVE  Placed'
<1> USE Clocks
<1>1. CASE RxD_state = 0
  <2>1. ~RxD_data_ready'
    BY <1>1, ReadyAtEnd
  <2>2. RxD_state' = 0 \/ RxD_state' = 1
    BY <1>1, WaitingLook
  <2>3. Busy' => Count' = 1
    BY <2>1, <2>2 DEF Busy, Count
  <2> QED  BY <2>3 DEF Placed
<1>2. CASE RxD_state # 0
  <2>1. /\ byte' = byte /\ Seen' = Seen /\ Count' = RxD_state + 1
        /\ pos' = Seen + RxD_state * SampleTime /\ Seen \in 0 .. SampleTime
    BY <1>2, BusyLook
  <2>2. RxD_state \in 1 .. 9 /\ Count = RxD_state /\ Busy
    BY <1>2 DEF TypeOK, Busy, Count
  <2> DEFINE Bit(k) == <<byte, IF Seen >= k * Ahead THEN k ELSE k - 1>>
  <2>3. \A k \in 1 .. 8 : k < RxD_state => RxD_data[k - 1] = Bit(k)
    BY <2>2 DEF Placed
  <2>4. RxD_state \in 1 .. 8 => <<byte', LineBit>> = Bit(RxD_state)
    BY <2>1, <2>2, BitSeen DEF LineBit
  <2>5. \A k \in 1 .. 8 :
           RxD_data'[k - 1] = IF k = RxD_state THEN <<byte', LineBit>>
                                               ELSE RxD_data[k - 1]
    <3> HIDE DEF LineBit
    <3> QED  BY <2>2 DEF LookAtLine, StoreBit, TypeOK
  <2>6. \A k \in 1 .. 8 : k < RxD_state + 1 => RxD_data'[k - 1] = Bit(k)
    <3> HIDE DEF Bit
    <3> QED  BY <2>2, <2>3, <2>4, <2>5
  <2> QED  BY <2>1, <2>6 DEF Placed
<1> QED  BY <1>1, <1>2

(***************************************************************************)
(* A byte whose start bit was seen 8 * Ahead clocks after it began, or     *)
(* later, is right.                                                        *)
(***************************************************************************)
LEMMA LateIsRight ==
    ASSUME TypeOK, TypeOK', InStep, Placed, ~late, LookAtLine, RxD_state = 9,
           Seen >= 8 * Ahead
    PROVE  Right'
<1> USE Clocks
<1>1. /\ Seen' = Seen /\ Seen \in Nat /\ Count' = 10
      /\ RxD_data_ready' /\ ~late'
  BY BusyLook, StaysInStep
<1>2. \A k \in 1 .. 8 :
         RxD_data'[k - 1] = <<byte', IF Seen >= k * Ahead THEN k ELSE k - 1>>
  <2>1. \A k \in 1 .. 8 : k < Count'
    BY <1>1
  <2>2. ~late' /\ Busy'
    BY <1>1 DEF Busy
  <2>3. Placed'
    BY LookPlaces
  <2> QED  BY <1>1, <2>1, <2>2, <2>3 DEF Placed
<1>3. \A k \in 1 .. 8 : k * Ahead <= 8 * Ahead /\ k * Ahead \in Nat
  OBVIOUS
<1>4. \A k \in 1 .. 8 : RxD_data'[k - 1] = <<byte', k>>
  BY <1>1, <1>2, <1>3
<1>5. \A i \in 0 .. 7 : RxD_data'[i] = <<byte', i + 1>>
  <2> TAKE i \in 0 .. 7
  <2>1. i + 1 \in 1 .. 8 /\ (i + 1) - 1 = i
    OBVIOUS
  <2> QED  BY <1>4, <2>1
<1>6. RxD_data' = [i \in 0 .. 7 |-> RxD_data'[i]]
  BY DEF TypeOK
<1> QED  BY <1>5, <1>6 DEF Right

(***************************************************************************)
(* How the count of right bytes goes on.                                   *)
(***************************************************************************)
LEMMA CountGoesOn ==
    ASSUME TypeOK, InStep, ~late, LookAtLine, good' < Run
    PROVE  /\ RxD_state = 0 =>
                 /\ good' = good /\ pos' # Silent
                 /\ Begins => pos' = pos + UntilSample - ByteTime
           /\ RxD_state \in 1 .. 8 => good' = good
           /\ RxD_state = 9 =>
                 \/ ~Right' /\ good' = 0
                 \/ Right' /\ good < Run /\ good' = good + 1
<1> USE Clocks
<1>1. RxD_data_ready' <=> RxD_state = 9
  BY ReadyAtEnd
<1> DEFINE paused == \/ pos' = Silent
                     \/ Begins /\ pos' # pos + UntilSample - ByteTime
<1>2. good' = CASE RxD_data_ready' /\ ~Right' -> 0
                [] paused -> Run
                [] RxD_data_ready' /\ Right' /\ good < Run -> good + 1
                [] OTHER -> good
  BY DEF LookAtLine, KeepCount
<1>3. RxD_state # 0 => ~paused
  BY BusyLook
<1> HIDE DEF paused
<1>4. RxD_state = 0 => good' = good /\ ~paused
  BY <1>1, <1>2
<1>5. RxD_state \in 1 .. 8 => good' = good
  BY <1>1, <1>2, <1>3
<1>6. RxD_state = 9 => \/ ~Right' /\ good' = 0
                       \/ Right' /\ good < Run /\ good' = good + 1
  BY <1>1, <1>2, <1>3 DEF TypeOK
<1> QED  BY <1>4, <1>5, <1>6 DEF paused

(***************************************************************************)
(* A look keeps the start bits of a stream where Streak has them.          *)
(***************************************************************************)
LEMMA LookStreak ==
    ASSUME TypeOK, TypeOK', InStep, Placed, Streak, ~late, LookAtLine
    PROVE  Streak'
<1> SUFFICES ASSUME good' < Run
             PROVE  /\ RxD_state' # 0 =>
                          Seen' >= SampleTime - (good' + 1) * Drift
                    /\ RxD_data_ready' =>
                          IF good' = 0 THEN Seen' < Drift
                          ELSE Seen' >= SampleTime - good' * Drift
                    /\ ~Busy' => pos' >= ByteTime - Drift
  BY DEF Streak
<1> USE Clocks
<1>1. /\ good \in Nat /\ good * Drift \in Nat
      /\ (good + 1) * Drift = good * Drift + Drift
  BY DEF TypeOK
<1>2. CASE RxD_state = 0
  <2>1. /\ good' = good /\ good < Run /\ ~RxD_data_ready'
        /\ pos' # Silent
        /\ Begins => pos' = pos + UntilSample - ByteTime
    BY <1>2, CountGoesOn, ReadyAtEnd
  <2>2. pos \in Nat /\ UntilSample \in Nat /\ pos' \in Nat
    BY UntilSampleType DEF TypeOK
  <2>3. ~RxD_data_ready => pos >= ByteTime - Drift /\ UntilSample = SampleTime
    BY <1>2, <2>1 DEF Streak, Busy, UntilSample
  <2>4. CASE RxD_state' = 0 /\ pos' \in {Silent, pos + UntilSample}
    <3>1. pos' >= ByteTime - Drift
      BY <1>2, <2>1, <2>2, <2>3, <2>4, WaitingLook
    <3> QED  BY <2>1, <2>4, <3>1
  <2>5. CASE RxD_state' = 1 /\ Begins
    <3>1. Seen' = pos' /\ pos' = pos + UntilSample - ByteTime
      BY <2>1, <2>2, <2>5, FirstLook
    <3>2. CASE ~RxD_data_ready
      BY <1>1, <2>1, <2>2, <2>3, <2>5, <3>1, <3>2 DEF Busy
    <3>3. CASE RxD_data_ready
      <4>1. UntilSample = SampleTime + 1 /\ Seen = pos - 9 * SampleTime
        BY <1>2, <3>3 DEF UntilSample, Seen, Count
      <4>2. IF good = 0 THEN Seen < Drift
                        ELSE Seen >= SampleTime - good * Drift
        BY <2>1, <3>3 DEF Streak
      <4>3. pos' = Seen - Drift
        BY <2>2, <3>1, <4>1
      <4>4. Seen \in Int /\ Seen' = Seen - Drift
        BY <2>2, <3>1, <4>1, <4>3
      <4> QED  BY <1>1, <2>1, <2>2, <2>5, <3>1, <4>2, <4>3, <4>4 DEF Busy
    <3> QED  BY <3>2, <3>3
  <2> QED  BY <1>2, <2>4, <2>5, WaitingLook
<1>3. CASE RxD_state \in 1 .. 8
  <2>1. good' = good /\ good < Run
    BY <1>3, CountGoesOn
  <2>2. Seen' = Seen /\ RxD_state' # 0 /\ ~RxD_data_ready'
    BY <1>3, BusyLook
  <2>3. Seen >= SampleTime - (good + 1) * Drift
    BY <1>3, <2>1 DEF Streak
  <2> QED  BY <2>1, <2>2, <2>3 DEF Busy
<1>4. CASE RxD_state = 9
  <2>1. /\ Seen' = Seen /\ RxD_state' = 0 /\ RxD_data_ready'
        /\ Seen \in 0 .. SampleTime
    BY <1>4, BusyLook
  <2>2. CASE ~Right' /\ good' = 0
    <3>1. ~(Seen >= 8 * Ahead)
      BY <1>4, <2>2, LateIsRight
    <3> QED  BY <2>1, <2>2, <3>1 DEF Busy
  <2>3. CASE good < Run /\ good' = good + 1
    <3>1. Seen >= SampleTime - good' * Drift
      BY <1>4, <2>3 DEF Streak
    <3> QED  BY <1>1, <2>1, <2>3, <3>1 DEF Busy
  <2> QED  BY <1>4, <2>2, <2>3, CountGoesOn
<1> QED  BY <1>2, <1>3, <1>4 DEF TypeOK

-----------------------------------------------------------------------------
(***************************************************************************)
(* The inductive invariant, from the reset and over every step.            *)
(***************************************************************************)
LEMMA InitIInv == RxInit => IInv
<1> SUFFICES ASSUME RxInit PROVE IInv
  OBVIOUS
<1> USE Clocks
<1>1. RxD_data \in [0 .. 7 -> {0, 1} \X (0 .. 9)]
  BY DEF RxInit, Nothing
<1>2. TypeOK
  <2>1. /\ RxD_state = 0 /\ RxD_data_ready = FALSE /\ pos = ByteTime - 1
        /\ byte = 0 /\ late = FALSE /\ good = Run
    BY DEF RxInit
  <2>2. /\ RxD_state \in 0 .. 9 /\ pos \in 0 .. ByteTime - 1
        /\ good \in 0 .. Run
    BY <2>1
  <2> QED  BY <1>1, <2>1, <2>2, Zenon DEF TypeOK
<1>3. Idle
  BY DEF RxInit, Idle, Silent
<1> QED  BY <1>2, <1>3, IdleInStep DEF IInv

LEMMA StepIInv == IInv /\ [RxNext]_receiverVars => IInv'
<1> SUFFICES ASSUME IInv, [RxNext]_receiverVars PROVE IInv'
  OBVIOUS
<1>1. TypeOK /\ TypeOK'
  BY TypeStep DEF IInv
<1>2. Idle' => IInv'
  BY <1>1, IdleAgain DEF IInv
<1>3. CASE late'
  BY <1>1, <1>3 DEF IInv, InStep, Placed, Streak
<1>4. CASE LookAtLine /\ ~late'
  <2>1. CASE late
    BY <1>1, <1>2, <1>4, <2>1, LateLook
  <2>2. CASE ~late
    BY <1>1, <1>4, <2>2, LookInStep, LookPlaces, LookStreak DEF IInv
  <2> QED  BY <2>1, <2>2
<1>5. CASE RxReset /\ ~late'
  BY <1>2, <1>5, ResetIdle
<1>6. CASE UNCHANGED receiverVars
  <2>1. UNCHANGED <<RxD_state, RxD_data, RxD_data_ready, pos, byte, late,
                    owed, good>>
    BY <1>6 DEF receiverVars, lineVars
  <2>2. Busy' = Busy /\ Count' = Count /\ Seen' = Seen
    BY <2>1 DEF Busy, Count, Seen
  <2>3. InStep'
    BY <2>1, <2>2 DEF IInv, InStep
  <2>4. Placed'
    BY <2>1, <2>2 DEF IInv, Placed
  <2>5. Streak'
    BY <2>1, <2>2 DEF IInv, Streak
  <2> QED  BY <1>1, <2>3, <2>4, <2>5 DEF IInv
<1> QED  BY <1>3, <1>4, <1>5, <1>6 DEF RxNext

(***************************************************************************)
(* The receiver is in step with the line, its bits are placed, and its     *)
(* phase has moved as far as the right bytes since a wrong one say.        *)
(***************************************************************************)
THEOREM Invariant == RxSpec => []IInv
BY InitIInv, StepIInv, PTL DEF RxSpec

(***************************************************************************)
(* Every byte is made ready exactly once: the receiver is busy exactly     *)
(* while a byte is owed.                                                   *)
(***************************************************************************)
THEOREM ReadyOnce == RxSpec => []OneReadyPerByte
<1>1. IInv => OneReadyPerByte
  BY DEF IInv, InStep, OneReadyPerByte
<1> QED  BY <1>1, Invariant, PTL

(***************************************************************************)
(* A byte is ready nine looks after its first one, which comes within a    *)
(* look of its start: never sooner and never later.                        *)
(***************************************************************************)
THEOREM ReadyInTime == RxSpec => []ReadyAtTenthLook
<1>1. IInv => ReadyAtTenthLook
  <2> SUFFICES ASSUME IInv, RxD_data_ready, ~late
               PROVE  pos \in 9 * SampleTime .. 10 * SampleTime
    BY DEF ReadyAtTenthLook
  <2>1. RxD_state = 0 /\ pos \in Nat
    BY Clocks DEF IInv, InStep, TypeOK
  <2>2. pos - 9 * SampleTime \in 0 .. SampleTime
    BY <2>1 DEF IInv, InStep, Busy, Seen, Count
  <2> QED  BY <2>1, <2>2, Clocks
<1> QED  BY <1>1, Invariant, PTL

(***************************************************************************)
(* What is in the register of a ready byte, bit by bit.                    *)
(***************************************************************************)
THEOREM BitsWherePlaced == RxSpec => []BitsInPlace
<1>1. IInv => BitsInPlace
  <2> SUFFICES ASSUME IInv, RxD_data_ready, ~late PROVE BitsInPlace
    BY DEF BitsInPlace
  <2>1. RxD_state = 0
    BY DEF IInv, InStep
  <2>2. Busy /\ Count = 10 /\ Seen = SeenAt
    BY <2>1 DEF Busy, Count, Seen, SeenAt
  <2>3. \A k \in 1 .. 8 : k < Count
    BY <2>2
  <2> QED  BY <2>2, <2>3 DEF IInv, Placed, BitsInPlace
<1> QED  BY <1>1, Invariant, PTL

(***************************************************************************)
(* A wrong byte comes after Run right ones, or after a pause.              *)
(***************************************************************************)
THEOREM WrongRarely == RxSpec => WrongIsRare
<1>1. IInv /\ IInv' /\ [RxNext]_receiverVars
        => [RxD_data_ready' /\ ~late' /\ ~Right' => good = Run]_receiverVars
  <2> SUFFICES ASSUME IInv, IInv', RxNext,
                      RxD_data_ready', ~late', ~Right', good # Run
               PROVE  FALSE
    OBVIOUS
  <2>1. ~RxReset
    BY Zenon DEF RxReset
  <2>2. LookAtLine
    BY <2>1 DEF RxNext
  <2>3. RxD_state = 9
    BY <2>2, ReadyAtEnd
  <2>4. ~late
    BY <2>2, <2>3, LateLook DEF IInv, Idle
  <2>5. good + 1 \in 1 .. Run /\ good < Run
    BY Clocks DEF IInv, TypeOK
  <2>6. Seen >= SampleTime - (good + 1) * Drift
    BY <2>3, <2>4, <2>5 DEF IInv, Streak
  <2>7. (good + 1) * Drift <= Run * Drift /\ (good + 1) * Drift \in Nat
    BY <2>5, Clocks
  <2>8. Seen \in Nat
    BY <2>2, <2>3, <2>4, BusyLook DEF IInv
  <2>9. Run * Drift \in Nat
    BY Clocks
  <2>10. Seen >= 8 * Ahead
    BY <2>6, <2>7, <2>8, <2>9, RunAssumption, Clocks
  <2> QED  BY <2>2, <2>3, <2>4, <2>10, LateIsRight DEF IInv
<1> QED  BY <1>1, Invariant, PTL DEF RxSpec, WrongIsRare
=============================================================================
