--------------------------- MODULE AsyncReceiver ---------------------------
(***************************************************************************)
(* modelsim/async_receiver.v with its BaudTickGen, and the serial line.    *)
(*                                                                         *)
(* count runs through 0 .. 3 with every tick and is never set back (with   *)
(* two bits it never equals 4), so the line is looked at every             *)
(* Oversampling ticks, at a phase that has nothing to do with the start    *)
(* bit.  A step is one such look; what happens between two of them is the  *)
(* line's.  A bit on the line is a bit of the byte being sent, not 0 or 1. *)
(***************************************************************************)
EXTENDS Integers

CONSTANTS BitTime,    \* clocks per bit on the line: 434
          RxTickGen,  \* tick_gen of BaudTickGen: 108
          Run         \* right bytes after a wrong one, counted to this

Oversampling == 4
SampleTime   == Oversampling * RxTickGen
ByteTime     == 10 * BitTime

ASSUME RatesAssumption ==
    /\ BitTime \in Nat /\ RxTickGen \in Nat \ {0} /\ Run \in Nat
    /\ SampleTime + 1 <= BitTime
    /\ 10 * SampleTime + 1 >= 9 * BitTime

\* Ahead is what the receiver gains on the line with every bit, Drift what it
\* gains with a byte.  Run is what they leave of the start bit: with the
\* code's rates, 2 and 19 clocks of 432, it may be up to 21.
Ahead == BitTime - SampleTime
Drift == 10 * Ahead - 1
ASSUME RunAssumption == Run * Drift + 8 * Ahead <= SampleTime

VARIABLES RxD_state,  \* 0, then one per sample: the last digit of the code's
          RxD_data, RxD_data_ready,
          pos,        \* clocks since the byte on the line began
          byte,       \* the byte on the line, by its parity
          late,       \* history: out of step since a reset in a byte
          owed,       \* history: bytes begun and not yet ready
          good        \* history: right bytes since the last wrong one

lineVars == <<pos, byte>>
receiverVars ==
    <<RxD_state, RxD_data, RxD_data_ready, lineVars, late, owed, good>>

Nothing == <<0, 9>>  \* stands for a bit that was cleared

RxInit ==
    /\ RxD_state = 0
    /\ RxD_data = [k \in 0 .. 7 |-> Nothing] /\ RxD_data_ready = FALSE
    /\ pos = ByteTime - 1 /\ byte = 0
    /\ late = FALSE /\ owed = 0 /\ good = Run

-----------------------------------------------------------------------------
(* The line: a start bit, eight data bits, and a stop bit that lasts until *)
(* the host sends again, which it may do at once or at any time.           *)

Silent  == ByteTime - 1
Begins  == pos' < pos
LineBit == pos' \div BitTime

\* d clocks pass.
SerialLine(d) ==
    /\ pos' \in IF pos + d < ByteTime
                  THEN {pos + d} ELSE {Silent} \cup 0 .. pos + d - ByteTime
    /\ byte' = IF Begins THEN 1 - byte ELSE byte

\* Whether RxD is low: a data bit may be either.
RxDLow(low) == /\ LineBit = 0 => low
               /\ LineBit = 9 => ~low

-----------------------------------------------------------------------------
(* The receiver.                                                           *)

\* The clocks to the next look: RxD_data_ready stops BaudTickGen for one.
\* Mutated form: BaudTickGen is never stopped.
UntilSampleFree == SampleTime
UntilSample == SampleTime + (IF RxD_data_ready THEN 1 ELSE 0)

\* Mutated form: the state after the last bit does not go back to 0.
NextStateStuck(low) ==
    IF RxD_state = 0 THEN IF low THEN 1 ELSE 0
                     ELSE IF RxD_state = 9 THEN 1 ELSE RxD_state + 1
NextState(low) ==
    IF RxD_state = 0 THEN IF low THEN 1 ELSE 0 ELSE (RxD_state + 1) % 10

\* Mutated form: the data bits are stored from the start bit on.
ShiftEarly == RxD_data' = IF RxD_state \in 0 .. 7
                            THEN [RxD_data EXCEPT ![RxD_state] =
                                                      <<byte', LineBit>>]
                            ELSE RxD_data
StoreBit == RxD_data' = IF RxD_state \in 1 .. 8
                          THEN [RxD_data EXCEPT ![RxD_state - 1] =
                                                    <<byte', LineBit>>]
                          ELSE RxD_data

\* The register holds the eight bits of the byte on the line.
Right == RxD_data = [k \in 0 .. 7 |-> <<byte, k + 1>>]

\* Bookkeeping.  In step again: between two bytes, and nothing coming.
KeepCount(d) ==
    LET inStep == RxD_state = 0 /\ pos' = Silent
        paused == pos' = Silent \/ (Begins /\ pos' # pos + d - ByteTime) IN
    /\ late' = (late /\ ~inStep)
    /\ owed' = IF late THEN 0 ELSE owed + (IF Begins THEN 1 ELSE 0)
                                        - (IF RxD_data_ready' THEN 1 ELSE 0)
    /\ good' = CASE RxD_data_ready' /\ ~Right' -> 0
                 [] paused \/ late -> Run
                 [] RxD_data_ready' /\ Right' /\ good < Run -> good + 1
                 [] OTHER -> good

LookAtLine ==
    /\ SerialLine(UntilSample)
    /\ \E low \in BOOLEAN : RxDLow(low) /\ RxD_state' = NextState(low)
    /\ StoreBit
    /\ RxD_data_ready' = (RxD_state = 9)
    /\ KeepCount(UntilSample)

\* rst is on, shortly or while a tick passes, which count then misses.  The
\* host goes on.
RxReset ==
    /\ \E d \in {0, RxTickGen} : SerialLine(d)
    /\ RxD_state' = 0
    /\ RxD_data' = [k \in 0 .. 7 |-> Nothing]
    /\ RxD_data_ready' = FALSE
    /\ late' = (pos' # Silent)
    /\ owed' = 0
    /\ good' = Run

RxNext == LookAtLine \/ RxReset

RxSpec == RxInit /\ [][RxNext]_receiverVars
-----------------------------------------------------------------------------
(* Properties.                                                             *)

(***************************************************************************)
(* The receiver runs freely, sees a start bit anywhere in it, counts the   *)
(* bits without looking at the line, and does not look at the stop bit;    *)
(* still every byte is made ready exactly once, however the host pauses or *)
(* not: it is busy exactly while a byte is owed, and so is back in state 0 *)
(* before the next one begins.                                             *)
(***************************************************************************)
OneReadyPerByte == ~late => owed = (IF RxD_state = 0 THEN 0 ELSE 1)

(***************************************************************************)
(* When a byte is ready: at the tenth look at it, and the first was within *)
(* a look of its start.  So the time from a byte to its ready pulse is not *)
(* fixed, it may be a whole look more for one byte than for the next:      *)
(* Lab1Top builds on this and on no more.                                  *)
(***************************************************************************)
ReadyAtTenthLook ==
    RxD_data_ready /\ ~late => pos \in 9 * SampleTime .. 10 * SampleTime

(***************************************************************************)
(* What async_receiver.v:6 says of RxD_data: "data received, valid only    *)
(* (for one clock cycle) when RxD_data_ready is asserted".  It does not    *)
(* hold: the look is shorter than a bit, and the k-th bit is right only if *)
(* the start bit was seen k * Ahead clocks after its beginning or later.   *)
(***************************************************************************)
DataReceived == RxD_data_ready /\ ~late => Right

(***************************************************************************)
(* What the register holds instead: each bit whose time had not come is    *)
(* the one before it.                                                      *)
(***************************************************************************)
SeenAt == pos - 9 * SampleTime
BitsInPlace ==
    RxD_data_ready /\ ~late =>
        \A k \in 1 .. 8 :
            RxD_data[k - 1] =
                <<byte, IF SeenAt >= k * Ahead
                          THEN k ELSE k - 1>>

(***************************************************************************)
(* A byte with a bit in the wrong place is rare in a stream without        *)
(* pauses: the phase moves by a bit's clocks per byte, and it takes Run    *)
(* bytes until it is early in the start bit again.                         *)
(***************************************************************************)
WrongIsRare ==
    [][RxD_data_ready' /\ ~late' /\ ~Right' => good = Run]_receiverVars
=============================================================================
