------------------------------ MODULE JtagUart ------------------------------
(***************************************************************************)
(* The console of the Nios II programs: the interrupt driven driver of the *)
(* JTAG UART with its two ring buffers, the core's two FIFOs, a host that  *)
(* comes and goes, and the alarm by which the driver notices that.         *)
(*                                                                         *)
(* A handler runs with interrupts disabled, and the host only ever adds to *)
(* what it may take or send, so a pass of its loop is one action.  The     *)
(* program goes on when no interrupt is pending.  A character is its       *)
(* number in its stream.                                                   *)
(***************************************************************************)
EXTENDS Alarm, Sequences

CONSTANTS BufLen,      \* ALTERA_AVALON_JTAG_UART_BUF_LEN
          WriteDepth, ReadDepth,   \* of the core's FIFOs
          Threshold,   \* of the core's write interrupt
          Timeout, MaxInactive,   \* alarms: sp->timeout, INT_MAX - 2
          Chars, MaxCount,        \* bounds: numbers, characters per call
          Programs                \* the sets of calls a program makes

ASSUME JtagAssumption ==
    /\ BufLen \in Nat /\ BufLen > 1
    /\ WriteDepth \in Nat \ {0} /\ Threshold \in 0 .. WriteDepth - 1
    /\ ReadDepth \in Nat \ {0}
    /\ Timeout \in Nat /\ MaxInactive \in Nat /\ Timeout <= MaxInactive
    /\ Chars \in Nat
    /\ Chars > BufLen - 1 + WriteDepth /\ Chars > BufLen - 1 + ReadDepth
    /\ MaxCount \in Nat \ {0}
    /\ \A program \in Programs : program \subseteq {"w_snap", "r_snap", "close"}

VARIABLES tx_buf, tx_in, tx_out, rx_buf, rx_in, rx_out,
          irq_enable, host_inactive,
          wfifo, rfifo, ac,        \* the core
          typed, seen,             \* numbers: next it types, next it sees
          calls, pc, nonblock,     \* the program, the flag of its call
          left,                    \* count, space: what is left of the call
          stable,                  \* "a stable value" of tx_out, of rx_in
          next, got                \* numbers: next to write, next to be read

txVars   == <<tx_buf, tx_in, tx_out, wfifo>>
rxVars   == <<rx_buf, rx_in, rx_out, rfifo>>
hostVars == <<typed, seen>>
callVars == <<calls, nonblock, left, stable, next, got>>
vars == <<txVars, rxVars, irq_enable, host_inactive, ac, hostVars, pc,
          callVars, alarmVars>>

Smaller(a, b) == IF a < b THEN a ELSE b
\* How many characters a ring buffer holds, and which.
Held(in, out) == (in + BufLen - out) % BufLen
Ring(buf, out, in) ==
    [i \in 1 .. Held(in, out) |-> buf[(out + i - 1) % BufLen]]

Init ==
    /\ tx_buf = [i \in 0 .. BufLen - 1 |-> 0] /\ tx_in = 0 /\ tx_out = 0
    /\ rx_buf = [i \in 0 .. BufLen - 1 |-> 0] /\ rx_in = 0 /\ rx_out = 0
    /\ irq_enable = {"RE"} /\ host_inactive = 0
    /\ wfifo = <<>> /\ rfifo = <<>> /\ ac \in BOOLEAN
    /\ typed = 0 /\ seen = 0
    /\ calls \in Programs /\ pc = "idle"
    /\ nonblock = FALSE /\ left = 0 /\ stable = 0
    /\ next = 0 /\ got = 0
    /\ AlarmInit

-----------------------------------------------------------------------------
(* The core and the host.  Whatever a host does sets AC.                   *)

RI == "RE" \in irq_enable /\ rfifo # <<>>
WI == "WE" \in irq_enable /\ Len(wfifo) <= Threshold

Host == /\ ac' = TRUE
        /\ UNCHANGED <<tx_buf, tx_in, tx_out, rx_buf, rx_in, rx_out,
                       irq_enable, host_inactive, pc, callVars, alarmVars>>

HostReads == /\ wfifo # <<>> /\ wfifo' = Tail(wfifo)
             /\ seen' = (Head(wfifo) + 1) % Chars
             /\ UNCHANGED <<rfifo, typed>>
             /\ Host

HostTypes == /\ Len(rfifo) < ReadDepth /\ rfifo' = Append(rfifo, typed)
             /\ typed' = (typed + 1) % Chars
             /\ UNCHANGED <<wfifo, seen>>
             /\ Host

HostPolls == UNCHANGED <<wfifo, rfifo, hostVars>> /\ Host

-----------------------------------------------------------------------------
(* altera_avalon_jtag_uart_irq: a pass, the receive and the transmit part. *)

\* Mutated form: the slot that tells full from empty is used.
RxSpaceAll == BufLen - Held(rx_in, rx_out)
RxSpace == BufLen - 1 - Held(rx_in, rx_out)

Receive ==
    LET n == IF RI THEN Smaller(Len(rfifo), RxSpace) ELSE 0 IN
    /\ rx_buf' = [i \in 0 .. BufLen - 1 |->
                    LET k == Held(i, rx_in) IN
                    IF k < n THEN rfifo[k + 1] ELSE rx_buf[i]]
    /\ rx_in' = (rx_in + n) % BufLen
    /\ rfifo' = SubSeq(rfifo, n + 1, Len(rfifo))
    /\ UNCHANGED rx_out

\* Mutated form: the interrupt is turned off as soon as the FIFO is full.
NothingLeftFull(n, space) == n <= space
NothingLeft(n, space) == n < space

Transmit ==
    LET space == WriteDepth - Len(wfifo)
        n == IF WI THEN Smaller(space, Held(tx_in, tx_out)) ELSE 0 IN
    /\ wfifo' = wfifo \o SubSeq(Ring(tx_buf, tx_out, tx_in), 1, n)
    /\ tx_out' = (tx_out + n) % BufLen
    /\ irq_enable' = irq_enable
           \ ((IF RI /\ rfifo' # <<>> THEN {"RE"} ELSE {})
              \cup (IF WI /\ NothingLeft(n, space) THEN {"WE"} ELSE {}))
    /\ UNCHANGED <<tx_buf, tx_in>>

Irq == /\ RI \/ WI
       /\ Receive /\ Transmit
       /\ UNCHANGED <<host_inactive, ac, hostVars, pc, callVars, alarmVars>>

\* The alarm's callback.  Mutated form: AC is not cleared.
ClearAcNot == ac
ClearAc == FALSE

altera_avalon_jtag_uart_timeout ==
    /\ ac' = ClearAc
    /\ host_inactive' = IF ac THEN 0
                        ELSE Smaller(host_inactive + 1, MaxInactive)

\* alt_avalon_timer_sc_irq.
Tick ==
    /\ alt_tick
    /\ IF Expires THEN altera_avalon_jtag_uart_timeout
                  ELSE UNCHANGED <<ac, host_inactive>>
    /\ UNCHANGED <<txVars, rxVars, irq_enable, hostVars, pc, callVars>>

-----------------------------------------------------------------------------
(* The calls.                                                              *)

Inactive == host_inactive >= Timeout

Goto(from, to) ==
    /\ pc = from /\ ~RI /\ ~WI
    /\ pc' = to
    /\ UNCHANGED <<wfifo, rfifo, tx_out, rx_in, rx_buf, host_inactive, ac,
                   hostVars, alarmVars>>

SameBuffers == UNCHANGED <<tx_buf, tx_in, rx_out, irq_enable>>
SameCall    == UNCHANGED callVars

Return(from) == /\ Goto(from, "idle")
                /\ left' = 0 /\ stable' = 0 /\ nonblock' = FALSE
                /\ UNCHANGED <<calls, next, got>>

Call ==
    /\ \E to \in calls : Goto("idle", to)
    /\ nonblock' \in BOOLEAN
    /\ left' \in IF pc' = "close" THEN {0} ELSE 1 .. MaxCount
    /\ UNCHANGED <<calls, stable, next, got>>
    /\ SameBuffers

\* Mutated form: all BufLen slots are filled.
TxSpaceAll(in, out) == IF in < out THEN out - in ELSE BufLen - in
TxSpace(in, out) == IF in < out THEN out - 1 - in
                    ELSE IF out > 0 THEN BufLen - in
                    ELSE BufLen - 1 - in
TxN == Smaller(TxSpace(tx_in, stable), left)

\* The loop copies until nothing is left or there is no space.
WriteSnapshot ==
    /\ left > 0
    /\ stable' = tx_out
    /\ Goto("w_snap", IF TxSpace(tx_in, tx_out) = 0 THEN "w_enable"
                                                    ELSE "w_copy")
    /\ UNCHANGED <<calls, nonblock, left, next, got>>
    /\ SameBuffers

WriteAllCopied == left = 0 /\ Goto("w_snap", "w_enable")
                  /\ SameCall /\ SameBuffers

WriteCopy ==
    /\ Goto("w_copy", "w_publish")
    /\ tx_buf' = [i \in 0 .. BufLen - 1 |->
                    IF i \in tx_in .. tx_in + TxN - 1
                    THEN (next + i - tx_in) % Chars ELSE tx_buf[i]]
    /\ SameCall
    /\ UNCHANGED <<tx_in, rx_out, irq_enable>>

WritePublish ==
    /\ Goto("w_publish", "w_snap")
    /\ tx_in' = (tx_in + TxN) % BufLen
    /\ next' = (next + TxN) % Chars /\ left' = left - TxN
    /\ UNCHANGED <<calls, nonblock, stable, got, tx_buf, rx_out, irq_enable>>

\* Mutated form: the interrupt is enabled when the buffer is full only.
KickWhenFull == IF left > 0 THEN {"WE"} ELSE {}
Kick == {"WE"}

WriteEnable ==
    /\ irq_enable' = irq_enable \cup Kick
    /\ \/ (left = 0 \/ nonblock) /\ Return("w_enable")
       \/ left > 0 /\ ~nonblock /\ Goto("w_enable", "w_spin") /\ SameCall
    /\ UNCHANGED <<tx_buf, tx_in, rx_out>>

WriteSpin == /\ tx_out # stable \/ Inactive
             /\ Goto("w_spin", "w_check") /\ SameCall /\ SameBuffers

WriteCheck == /\ \/ tx_out = stable /\ Return("w_check")
                 \/ tx_out # stable /\ Goto("w_check", "w_snap") /\ SameCall
              /\ SameBuffers

RxN == Smaller(IF stable >= rx_out THEN stable - rx_out
                                   ELSE BufLen - rx_out, left)

\* "r_snap": nothing was read in this call; "r_more": something was.
ReadSnapshot ==
    \E from \in {"r_snap", "r_more"} :
      /\ left > 0
      /\ stable' = rx_in
      /\ Goto(from, IF rx_in # rx_out THEN "r_copy"
                    ELSE IF from = "r_more" THEN "r_enable" ELSE "r_empty")
      /\ UNCHANGED <<calls, nonblock, left, next, got>>
      /\ SameBuffers

ReadFilled == left = 0 /\ Goto("r_more", "r_enable") /\ SameCall /\ SameBuffers

ReadCopy == /\ Goto("r_copy", "r_publish")
            /\ got' = (rx_buf[(rx_out + RxN - 1) % BufLen] + 1) % Chars
            /\ UNCHANGED <<calls, nonblock, left, stable, next>>
            /\ SameBuffers

ReadPublish == /\ Goto("r_publish", "r_more")
               /\ rx_out' = (rx_out + RxN) % BufLen /\ left' = left - RxN
               /\ UNCHANGED <<calls, nonblock, stable, next, got>>
               /\ UNCHANGED <<tx_buf, tx_in, irq_enable>>

ReadSpin == /\ \/ nonblock /\ Return("r_empty")
               \/ /\ ~nonblock /\ (rx_in # stable \/ Inactive)
                  /\ Goto("r_empty", "r_check") /\ SameCall
            /\ SameBuffers

ReadCheck == /\ \/ rx_in = stable /\ Return("r_check")
                \/ rx_in # stable /\ Goto("r_check", "r_snap") /\ SameCall
             /\ SameBuffers

ReadEnable == /\ irq_enable' = irq_enable \cup {"RE"}
              /\ Return("r_enable")
              /\ UNCHANGED <<tx_buf, tx_in, rx_out>>

Close == /\ tx_out = tx_in \/ Inactive \/ nonblock
         /\ Return("close") /\ SameBuffers

Program == \/ WriteSnapshot \/ WriteAllCopied \/ WriteCopy \/ WritePublish
           \/ WriteEnable \/ WriteSpin \/ WriteCheck
           \/ ReadSnapshot \/ ReadFilled \/ ReadCopy \/ ReadPublish
           \/ ReadSpin \/ ReadCheck \/ ReadEnable \/ Close
Next == HostReads \/ HostTypes \/ HostPolls \/ Irq \/ Tick \/ Call \/ Program

Spec == Init /\ [][Next]_vars

\* The processor runs.  The host may do what it likes, and so may the ticks:
\* they end for good where the program registers a timer handler of its own.
FairSpec == Spec /\ WF_vars(Irq) /\ WF_vars(Program)

-----------------------------------------------------------------------------
(* Properties.                                                             *)

(***************************************************************************)
(* From write to the host, and from the host to read, the driver and the   *)
(* core are a pipe: nothing is lost, doubled or overtaken, whichever of    *)
(* the pointers the program holds an old value of.                         *)
(***************************************************************************)
TxPipe == INSTANCE CharPipe WITH
              Capacity <- BufLen - 1 + WriteDepth, put <- next, got <- seen,
              pipe <- wfifo \o Ring(tx_buf, tx_out, tx_in)
RxPipe == INSTANCE CharPipe WITH
              Capacity <- BufLen - 1 + ReadDepth, put <- typed,
              pipe <- Ring(rx_buf, IF pc = "r_publish"
                                     THEN (rx_out + RxN) % BufLen ELSE rx_out,
                           rx_in) \o rfifo
TxIsPipe == TxPipe!PipeSpec
RxIsPipe == RxPipe!PipeSpec

(***************************************************************************)
(* No wake-up is lost: what waits in the transmit buffer has its interrupt *)
(* on, or the writer is about to turn it on; the receive interrupt is off  *)
(* only while the buffer is full or a reader is about to turn it on.       *)
(***************************************************************************)
InterruptsOn ==
    /\ tx_in # tx_out =>
           "WE" \in irq_enable
           \/ pc \in {"w_snap", "w_copy", "w_publish", "w_enable"}
    /\ "RE" \notin irq_enable =>
           \/ Held(rx_in, rx_out) = BufLen - 1
           \/ pc \in {"r_more", "r_copy", "r_publish", "r_enable"}

(***************************************************************************)
(* A write and a close return if the host goes on reading, or if it is     *)
(* gone and the ticks go on.  A read for which a character waits returns.  *)
(***************************************************************************)
Writing == pc \in {"w_snap", "w_copy", "w_publish", "w_enable", "w_spin",
                   "w_check", "close"}
HostGone == <>[][ac' => ac]_ac
CallsReturn ==
    /\ []<><<HostReads>>_vars \/ ([]<><<Tick>>_vars /\ HostGone)
           => (Writing ~> pc = "idle")
    /\ pc # "idle" /\ ~Writing /\ rfifo # <<>> ~> pc = "idle"

(***************************************************************************)
(* What the driver says of a host that is gone: its alarm goes off "every  *)
(* second to check for presence of host" (altera_avalon_jtag_uart_init.c:  *)
(* 86), and a write is to "delay for at most 2s" (.._write.c:145).  It     *)
(* does not hold: the program has replaced the handler that ticks.         *)
(***************************************************************************)
ReturnsWithoutHost == HostGone => (pc = "w_spin" ~> pc = "idle")

(***************************************************************************)
(* What waits in the transmit buffer gets to the core when its FIFO is     *)
(* empty, also when no call follows.                                       *)
(***************************************************************************)
NothingStaysBehind == tx_in # tx_out /\ wfifo = <<>> ~> wfifo # <<>>
=============================================================================
