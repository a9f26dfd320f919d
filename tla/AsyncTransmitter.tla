-------------------------- MODULE AsyncTransmitter --------------------------
(***************************************************************************)
(* modelsim/async_transmitter.v with its BaudTickGen.  A byte is a value,  *)
(* sent as a whole: TxD_shift keeps it while the bits go out.              *)
(***************************************************************************)
EXTENDS Naturals

CONSTANT TickGen  \* tick_gen: clock edges per bit

ASSUME TickGenAssumption == TickGen \in Nat \ {0, 1}

VARIABLES tick, count,  \* BaudTickGen
          TxD_state,    \* 0 ready, 1 start bit, 2 .. 9 data, 10 stop bit
          TxD_shift

txVars == <<tick, count, TxD_state, TxD_shift>>

TxInit(nothing) == /\ tick = FALSE
                   /\ count = 0
                   /\ TxD_state = 0
                   /\ TxD_shift = nothing

TxD_busy == TxD_state # 0

\* The counter keeps its value while it is not enabled.
\* Mutated form: the counter is not stopped at the end of a bit.
BaudTickGenFree ==
    /\ tick' = (TxD_busy /\ count = TickGen)
    /\ count' = IF ~TxD_busy THEN count ELSE (count + 1) % TickGen
BaudTickGen ==
    /\ tick' = (TxD_busy /\ count = TickGen - 1)
    /\ count' = IF ~TxD_busy THEN count ELSE (count + 1) % TickGen

\* One edge.
TxEdge(TxD_start, TxD_data) ==
    /\ BaudTickGen
    /\ TxD_shift' = IF ~TxD_busy /\ TxD_start THEN TxD_data ELSE TxD_shift
    /\ TxD_state' = CASE ~TxD_busy -> IF TxD_start THEN 1 ELSE 0
                      [] TxD_busy /\ tick -> (TxD_state + 1) % 11
                      [] OTHER -> TxD_state
=============================================================================
