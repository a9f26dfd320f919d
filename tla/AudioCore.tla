----------------------------- MODULE AudioCore -----------------------------
(***************************************************************************)
(* The audio core as its driver altera_up_avalon_audio.c sees it: a        *)
(* control register with the two interrupt enables, and the two FIFOs.     *)
(* Left and right channel move together and are one FIFO here.  FIFO       *)
(* levels and buffer indexes count units of 32 words: BUF_THRESHOLD is 3   *)
(* of Depth 4, as 96 is of 128.                                            *)
(*                                                                         *)
(* The driver changes an enable bit by a read and a write of the register, *)
(* two accesses an interrupt may come between.  A caller that cannot be    *)
(* interrupted uses a register value at once; one that can keeps it in a   *)
(* variable of its own.                                                    *)
(***************************************************************************)
EXTENDS Naturals

CONSTANTS Depth,         \* capacity of a FIFO
          BUF_THRESHOLD  \* level from which a FIFO interrupts

ASSUME DepthAssumption == Depth \in Nat /\ BUF_THRESHOLD \in 1 .. Depth - 1

VARIABLES control,  \* RE and WE
          rfifo,    \* words recorded and not read yet
          wfifo     \* words written and not played yet

coreVars == <<control, rfifo, wfifo>>

CoreInit == /\ control = [RE |-> FALSE, WE |-> FALSE]
            /\ rfifo = 0
            /\ wfifo = 0

\* RI and WI: the core reports from 75% on, and only if enabled.
read_interrupt_pending  == control.RE /\ rfifo >= BUF_THRESHOLD
write_interrupt_pending == control.WE /\ Depth - wfifo >= BUF_THRESHOLD

\* The codec takes one unit from each FIFO and adds one; a full FIFO drops.
Codec == /\ rfifo' = IF rfifo < Depth THEN rfifo + 1 ELSE rfifo
         /\ wfifo' = IF wfifo > 0 THEN wfifo - 1 ELSE 0
         /\ UNCHANGED control

-----------------------------------------------------------------------------
(* Driver.                                                                 *)

\* Units moved by a call with room for len.  The drivers' threshold test is
\* strict: at exactly 75% nothing moves and the interrupt stays pending.
\* Mutated forms: the room is not looked at; the FIFO must hold more than fits.
AllOf(level, len) == level
AtMost(level, len) == IF level <= len THEN level ELSE len
record_rMore(len) == IF rfifo <= Depth THEN 0 ELSE AtMost(rfifo, len)
record_r(len) == IF rfifo <= BUF_THRESHOLD THEN 0 ELSE AtMost(rfifo, len)
play_r(len) == IF Depth - wfifo <= BUF_THRESHOLD THEN 0
                                            ELSE AtMost(Depth - wfifo, len)

\* IOWR of a register value ctrl_reg.
WriteControl(ctrl_reg) == control' = ctrl_reg /\ UNCHANGED <<rfifo, wfifo>>

\* The first of the two writes of reset_audio_core, CR and CW set: both
\* FIFOs are emptied.
ClearFifos(ctrl_reg) == control' = ctrl_reg /\ rfifo' = 0 /\ wfifo' = 0
=============================================================================
