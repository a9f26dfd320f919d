--------------------------- MODULE FirDataProofs ---------------------------
(***************************************************************************)
(* What the operators of FirData return, for every number of taps.         *)
(***************************************************************************)
EXTENDS FirData, TLAPS

(***************************************************************************)
(* Reset leaves a delay line and an empty sum.                             *)
(***************************************************************************)
LEMMA EmptyTypes == EmptyLine \in Line /\ NoProducts \in Sum
BY DEF EmptyLine, NoProducts, Line, Sum, Word

(***************************************************************************)
(* A delay line stays one when a word is shifted in (DataPath.v:29-38).    *)
(***************************************************************************)
LEMMA ShiftType ==
    ASSUME NEW line \in Line, NEW x \in Word
    PROVE  Shift(line, x) \in Line
BY TapsAssumption DEF Shift, Line, Tap

(***************************************************************************)
(* The products of some taps of a line form a sum.                         *)
(***************************************************************************)
LEMMA PartialSumType ==
    ASSUME NEW line, NEW n
    PROVE  PartialSum(line, n) \in Sum
BY DEF PartialSum, Sum

(***************************************************************************)
(* Before the first product, nothing is in the sum.                        *)
(***************************************************************************)
LEMMA PartialSumZero ==
    ASSUME NEW line
    PROVE  PartialSum(line, 0) = NoProducts
<1>1. \A k \in Tap : ~ (k < 0)
  BY DEF Tap
<1> QED  BY <1>1 DEF PartialSum, NoProducts

(***************************************************************************)
(* One multiply-accumulate keeps the accumulator a sum of products.        *)
(***************************************************************************)
LEMMA AccumulateType ==
    ASSUME NEW sum \in Sum, NEW line, NEW k \in Tap
    PROVE  Accumulate(sum, line, k) \in Sum
<1> DEFINE new == [x \in Sample |-> sum[k][x] + (IF x = line[k] THEN 1 ELSE 0)]
<1>1. \A x \in Sample : sum[k][x] + (IF x = line[k] THEN 1 ELSE 0) \in Nat
  BY DEF Sum
<1>2. new \in [Sample -> Nat]
  BY <1>1
<1>3. Accumulate(sum, line, k) = [sum EXCEPT ![k] = new]
  BY DEF Accumulate
<1> QED  BY <1>2, <1>3 DEF Sum

(***************************************************************************)
(* The step the filters repeat: from the products of the taps below k, one *)
(* multiply-accumulate at k makes the products of the taps up to k.        *)
(***************************************************************************)
LEMMA AccumulateNext ==
    ASSUME NEW line, NEW k \in Tap
    PROVE  Accumulate(PartialSum(line, k), line, k) = PartialSum(line, k + 1)
<1> DEFINE old == PartialSum(line, k)
<1> DEFINE new == PartialSum(line, k + 1)
<1>1. \A j \in Tap : j # k => (j < k + 1 <=> j < k)
  BY TapsAssumption DEF Tap
<1>2. ~ (k < k) /\ k < k + 1
  BY TapsAssumption DEF Tap
<1>3. \A j \in Tap : j # k => new[j] = old[j]
  BY <1>1 DEF PartialSum
<1>4. new[k] = [x \in Sample |-> old[k][x] + (IF x = line[k] THEN 1 ELSE 0)]
  <2>1. \A x \in Sample : old[k][x] = 0
    BY <1>2 DEF PartialSum
  <2>2. new[k] = [x \in Sample |-> IF x = line[k] THEN 1 ELSE 0]
    BY <1>2 DEF PartialSum
  <2>3. \A x \in Sample : (IF x = line[k] THEN 1 ELSE 0)
                             = old[k][x] + (IF x = line[k] THEN 1 ELSE 0)
    BY <2>1
  <2> HIDE DEF old
  <2> QED  BY <2>2, <2>3
<1>5. Accumulate(old, line, k)
         = [j \in Tap |-> IF j = k THEN new[k] ELSE old[j]]
  BY <1>4 DEF Accumulate, PartialSum
<1>6. new = [j \in Tap |-> new[j]]
  BY DEF PartialSum
<1> HIDE DEF old, new
<1>7. [j \in Tap |-> IF j = k THEN new[k] ELSE old[j]] = [j \in Tap |-> new[j]]
  BY <1>3
<1> QED  BY <1>5, <1>6, <1>7 DEF old, new
=============================================================================
