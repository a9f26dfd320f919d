------------------------------ MODULE Lab1Top ------------------------------
(***************************************************************************)
(* modelsim/LAB1_top.v: samples come in over the serial line as two bytes, *)
(* high byte first, go through the FIR filter, and the result goes out as  *)
(* two bytes.  rec_cu assembles a sample in the latch ff1, trn_cu holds a  *)
(* result in the latch ff2 while the transmitter sends it.  Edge is one    *)
(* rising edge of CLOCK_50 in all parts.                                   *)
(*                                                                         *)
(* The filter is connected by the names of its ports, which is what the    *)
(* rest of the file expects; the file lists them in another order.         *)
(*                                                                         *)
(* The receiver is reduced to what rec_cu sees of it.  It looks at the     *)
(* line on a grid of its own (AsyncReceiver), so the time from the start   *)
(* of a byte to its RxD_ready is not fixed: the tenth look in the byte is  *)
(* the one that makes it ready (ReadyAtTenthLook there).  The looks of two *)
(* bytes are taken to be independent, and the bits to be the right ones.   *)
(* The host (Matlab.m) sends two bytes per sample, waits as long as it     *)
(* likes in between, and starts again after a reset.                       *)
(***************************************************************************)
EXTENDS Fir2, AsyncTransmitter

CONSTANTS Look,    \* edges between two looks at the line: 432
          RxByte,  \* edges from the start of a byte to that of the next,
                   \* at the least
          Mixed    \* uart_in while a byte is coming in

\* A byte is ready before the next one begins.
ASSUME RxByteAssumption ==
    Look \in Nat /\ Look >= 2 /\ RxByte \in Nat /\ RxByte > 10 * Look

\* A filter that is done before the next byte is, even if that is seen early.
ASSUME FilterAssumption == Taps + 6 + Look < RxByte

\* Samples are pairs of bytes, and so are the words of the filter.
BytePairs == \A x \in Sample : x = [hi |-> x.hi, lo |-> x.lo]

VARIABLES rx,         \* edges until the byte coming in is ready, or 0
          free,       \* edges until the host may begin the next byte
          coming,     \* the sample the host is sending, and the part of it
          RxD_ready, uart_in,
          recPs, ff1_Sel, ff1_load, FIR_strt,  \* rec_cu.v
          ff1,
          trnPs,                               \* trn_cu.v
          ff2,
          rst,        \* edges SW[1] has been on, counted to 2
          sent,       \* history: the last Taps samples sent, newest first
          awaited     \* history: parts of the last result not yet sent

rxVars  == <<rx, free, coming, RxD_ready, uart_in>>
recVars == <<recPs, ff1_Sel, ff1_load, FIR_strt, ff1>>
trnVars == <<trnPs, ff2>>
allVars == <<vars, txVars, rxVars, recVars, trnVars, rst, sent, awaited>>

\* Samples and results are pairs of bytes; a result is shown by its sum.
Zero16 == [hi |-> Zero, lo |-> Zero]

TopInit ==
    /\ Init
    /\ TxInit([sum |-> NoProducts, part |-> "hi"])
    /\ rx = 0 /\ free = 0
    /\ coming = [sample |-> Zero16, part |-> "lo"]
    /\ RxD_ready = FALSE /\ uart_in = Zero
    /\ recPs = "idle"
    /\ ff1_Sel = FALSE /\ ff1_load = FALSE /\ FIR_strt = FALSE
    /\ ff1 = Zero16
    /\ trnPs = "idle" /\ ff2 = NoProducts
    /\ rst = 0
    /\ sent = EmptyLine /\ awaited = {}

-----------------------------------------------------------------------------
(* The host and the receiver.                                              *)

\* The next byte begins, somewhere between two looks.
HostStarts ==
    /\ free = 0
    /\ free' = RxByte - 1
    /\ rx' \in 9 * Look .. 10 * Look
    /\ \E x \in Sample :
           coming' = IF coming.part = "lo"
                       THEN [sample |-> x, part |-> "hi"]
                       ELSE [coming EXCEPT !.part = "lo"]
    /\ RxD_ready' = FALSE
    /\ UNCHANGED uart_in

HostWaits ==
    /\ free = 0
    /\ RxD_ready' = FALSE
    /\ UNCHANGED <<rx, free, coming, uart_in>>

\* The first of the eight bits is stored eight looks before the byte is
\* ready, the last one look before.
Receive ==
    /\ free > 0
    /\ free' = free - 1
    /\ rx' = IF rx > 0 THEN rx - 1 ELSE 0
    /\ RxD_ready' = (rx = 1)
    /\ uart_in' = CASE rx' > 8 * Look -> uart_in
                     [] rx' <= Look -> coming.sample[coming.part]
                     [] OTHER -> Mixed
    /\ UNCHANGED coming

Line16 == HostStarts \/ HostWaits \/ Receive

-----------------------------------------------------------------------------
(* rec_cu and ff1.  Its outputs are registers, loaded from the state.      *)

RecOutputs == /\ ff1_Sel' = (recPs = "get_msb")
              /\ ff1_load' = (recPs \in {"get_msb", "get_lsb"})
              /\ FIR_strt' = (recPs = "input_valid")

\* Mutated form: the second byte is not waited for.
RecNextEager ==
    recPs' = CASE recPs = "idle" -> IF RxD_ready THEN "get_msb" ELSE "idle"
               [] recPs = "get_msb" -> "get_lsb"
               [] recPs = "get_lsb" -> "input_valid"
               [] OTHER -> "idle"
RecNext ==
    recPs' = CASE recPs = "idle" -> IF RxD_ready THEN "get_msb" ELSE "idle"
               [] recPs = "get_msb" -> "get_lsb"
               [] recPs = "get_lsb" -> IF RxD_ready THEN "input_valid"
                                                    ELSE "get_lsb"
               [] OTHER -> "idle"

\* ff1 is transparent while ff1_load is up.
Ff1 == ff1' = CASE ff1_load' /\ ff1_Sel' -> [ff1 EXCEPT !.hi = uart_in']
                [] ff1_load' /\ ~ff1_Sel' -> [ff1 EXCEPT !.lo = uart_in']
                [] OTHER -> ff1

-----------------------------------------------------------------------------
(* trn_cu and ff2.                                                         *)

ff2_Sel   == trnPs \in {"idle", "load_res", "get_lsb"}
TxD_start == trnPs \in {"load_res", "get_msb1"}
uart_out  == [sum |-> ff2, part |-> IF ff2_Sel THEN "hi" ELSE "lo"]

\* Mutated form: it does not wait for the end of the first byte.
TrnNextHasty ==
    trnPs' = CASE trnPs = "idle" -> IF output_valid THEN "load_res" ELSE "idle"
               [] trnPs = "load_res" -> "get_lsb"
               [] trnPs = "get_lsb" -> "get_msb1"
               [] trnPs = "get_msb1" -> "get_msb2"
               [] OTHER -> IF ~TxD_busy THEN "idle" ELSE "get_msb2"
TrnNext ==
    trnPs' = CASE trnPs = "idle" -> IF output_valid THEN "load_res" ELSE "idle"
               [] trnPs = "load_res" -> "get_lsb"
               [] trnPs = "get_lsb" -> IF ~TxD_busy THEN "get_msb1"
                                                    ELSE "get_lsb"
               [] trnPs = "get_msb1" -> "get_msb2"
               [] OTHER -> IF ~TxD_busy THEN "idle" ELSE "get_msb2"

\* ff2 is transparent in idle.  Mutated form: in load_res too.
Ff2Late == ff2' = IF trnPs' \in {"idle", "load_res"} THEN result' ELSE ff2
Ff2 == ff2' = IF trnPs' = "idle" THEN result' ELSE ff2

-----------------------------------------------------------------------------
(* One edge of the whole board.                                            *)

Begun == IF ~TxD_busy /\ TxD_start THEN {uart_out.part} ELSE {}

\* Bookkeeping: a sample is sent when its low byte has been received.
Account ==
    LET complete == RxD_ready' /\ coming.part = "lo" IN
    /\ sent' = IF complete THEN Shift(sent, coming.sample) ELSE sent
    /\ awaited' = IF complete THEN {"hi", "lo"} ELSE awaited \ Begun

Edge ==
    /\ rst \in {0, 2}
    /\ rst' = 0
    /\ Line16
    /\ RecOutputs /\ RecNext /\ Ff1
    /\ Clock(FIR_strt, ff1)
    /\ TrnNext /\ Ff2
    /\ TxEdge(TxD_start, uart_out)
    /\ Account

\* An edge with the switch SW[1] on.  It stays on for two edges at least.
\* The transmitter has no reset and goes on.
ResetEdge ==
    /\ rst' = IF rst = 0 THEN 1 ELSE 2
    /\ rx' = 0 /\ free' = 0
    /\ coming' = [sample |-> Zero16, part |-> "lo"]
    /\ RxD_ready' = FALSE /\ uart_in' = Zero
    /\ RecOutputs
    /\ recPs' = "idle"
    /\ ff1' = Zero16
    /\ Reset
    /\ trnPs' = "idle" /\ ff2' = NoProducts
    /\ TxEdge(TxD_start, uart_out)
    /\ sent' = EmptyLine /\ awaited' = {}

TopNext == Edge \/ ResetEdge

TopSpec == TopInit /\ [][TopNext]_allVars

\* The clock runs; the switch is not moved for ever.
TopFairSpec == TopSpec /\ WF_allVars(Edge)

-----------------------------------------------------------------------------
(* Properties.                                                             *)

\* Two bytes come in no faster than a result goes out, even if the first
\* was seen late and the second early.
HostPauses == 2 * RxByte - Look >= 2 * (10 * TickGen + 3)

(***************************************************************************)
(* What the filter works on is what the host sent: high and low byte of    *)
(* one sample, each sample once, in order, although ff1 is a latch that    *)
(* follows the receiver's register while the low byte is coming in.        *)
(***************************************************************************)
FilterSeesSamples == ps \in {"calc", "finish"} => X = sent

(***************************************************************************)
(* What goes out is the convolution of the samples sent so far, high byte  *)
(* first: ff2 does not move while its two bytes are sent, although the     *)
(* filter clears its output as soon as it has shown it.                    *)
(***************************************************************************)
ResultsAreSent ==
    [][rst' = 0 /\ TxD_state = 0 /\ TxD_state' = 1 =>
         /\ TxD_shift'.sum = Convolution(sent)
         /\ TxD_shift'.part = "hi" => awaited = {"hi", "lo"}
         /\ TxD_shift'.part = "lo" => awaited = {"lo"}]_allVars

(***************************************************************************)
(* Matlab.m:38-40 takes two bytes of answer per sample: trn_cu, which sees *)
(* the filter's pulse in idle only (trn_cu.v:30), is idle whenever a       *)
(* result comes, although the transmitter is the slower side.              *)
(***************************************************************************)
NothingLost == output_valid => trnPs = "idle"

(***************************************************************************)
(* Both bytes of a result are sent in the end, unless a reset comes.       *)
(***************************************************************************)
ResultSentInTheEnd == awaited # {} ~> awaited = {}
=============================================================================
