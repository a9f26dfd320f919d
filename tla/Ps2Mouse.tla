------------------------------ MODULE Ps2Mouse ------------------------------
(***************************************************************************)
(* The mouse of the firmware: PS2_ISR, the driver functions it and main    *)
(* call, Mouse_ISR in the main loop, and the PS/2 port with a mouse that   *)
(* may be unplugged, plugged in again, and whose bytes may be lost.        *)
(*                                                                         *)
(* A byte is what it is and where it comes from: the answer to a command,  *)
(* the two bytes of the self-test, or one of the three bytes of a packet.  *)
(* valid_byte1..3 are written together; valid counts how often, by parity. *)
(***************************************************************************)
EXTENDS Naturals, Sequences

CONSTANTS Packets,  \* three bytes each, as the ISR tells them apart
          MaxFifo   \* bytes in the port's FIFO

ASSUME Ps2Assumption == MaxFifo \in Nat \ {0}

VARIABLES fifo,                  \* the port
          mode, unsent,          \* the mouse: mode, bytes to send
          boot,                  \* alt_up_ps2_init and main, before the loop
          isr,                   \* "wait": PS2_ISR waits for the ACK
          cnt, last, valid, flag_mouse,   \* last: byte1, byte2, byte3
          main, taken,           \* Mouse_ISR; the writings it read from
          broken,                \* history: a fault since a whole insertion
          raced                  \* history: a packet came during Mouse_ISR

mouseVars   == <<mode, unsent>>
ps2IsrVars  == <<isr, cnt, last, valid, flag_mouse>>
ps2MainVars == <<main, taken>>
ps2Vars == <<fifo, mouseVars, boot, ps2IsrVars, ps2MainVars, broken, raced>>

Answer(v, p) == [val |-> v, part |-> p]
Ack  == Answer("FA", "ackF4")
Test == <<Answer("AA", "bat"), Answer("00", "id")>>
None == Answer("x", "none")

Part == <<"byte1", "byte2", "byte3">>
IsPacket(b) == \A i \in 1 .. 3 : b[i].part = Part[i]
Inserted(b) == b[2].part = "bat" /\ b[3].part = "id"

MouseInit ==
    /\ fifo = <<>>
    /\ mode \in {"off", "mute", "stream"} /\ unsent = <<>>
    /\ boot = "reset"
    /\ isr = "idle" /\ cnt = 0
    /\ last = <<None, None, None>>
    /\ valid = 0 /\ flag_mouse = FALSE
    /\ main = "loop" /\ taken = {0}
    /\ broken = TRUE /\ raced = FALSE

-----------------------------------------------------------------------------
(* The mouse.  A command makes it drop what it has not sent.  While it     *)
(* tests itself it hears no command but a reset.                           *)

Command(c) ==
    CASE c = "FF" /\ mode # "off" ->
             /\ mode' = "test" /\ unsent' = <<Answer("FA", "ackFF")>> \o Test
      [] c = "F4" /\ mode \in {"mute", "stream"} ->
             /\ mode' = "stream" /\ unsent' = <<Ack>>
      [] OTHER -> UNCHANGED mouseVars

\* By then the processor has dealt with what came before.
Plug ==
    /\ mode = "off" /\ isr = "idle" /\ (boot = "on" => fifo = <<>>)
    /\ mode' = "test" /\ unsent' = Test
    /\ broken' = TRUE
    /\ UNCHANGED <<fifo, boot, ps2IsrVars, ps2MainVars, raced>>

Unplug ==
    /\ mode # "off"
    /\ mode' = "off" /\ unsent' = <<>>
    /\ broken' = TRUE
    /\ UNCHANGED <<fifo, boot, ps2IsrVars, ps2MainVars, raced>>

\* Nobody moves the mouse before the program runs.
Move ==
    /\ mode = "stream" /\ unsent = <<>> /\ boot = "on"
    /\ \E v \in Packets :
           unsent' = [i \in 1 .. 3 |-> Answer(v[i], Part[i])]
    /\ UNCHANGED <<fifo, mode, boot, ps2IsrVars, ps2MainVars, broken, raced>>

\* A byte leaves the mouse.  The self-test takes longer than the ISR waits.
Leave == /\ unsent # <<>>
         /\ Head(unsent).part = "bat" => isr = "idle"
         /\ unsent' = Tail(unsent)
         /\ mode' = IF Head(unsent).part = "id" THEN "mute" ELSE mode

Send ==
    /\ Leave
    /\ Len(fifo) < MaxFifo
    /\ fifo' = Append(fifo, Head(unsent))
    /\ UNCHANGED <<boot, ps2IsrVars, ps2MainVars, broken, raced>>

\* One fault at a time: where one was, the properties promise nothing.
Lose ==
    /\ ~broken /\ Leave
    /\ broken' = TRUE
    /\ UNCHANGED <<fifo, boot, ps2IsrVars, ps2MainVars, raced>>

-----------------------------------------------------------------------------
(* alt_up_ps2_init, then main, which resets the mouse once more.  Each     *)
(* wait of the driver ends with a byte or its timeout.                     *)

Booting(from) ==
    boot = from /\ UNCHANGED <<ps2IsrVars, ps2MainVars, broken, raced>>

WriteByte(c) == /\ Command(c)
            /\ UNCHANGED fifo

\* With the error bit set nothing is waited for.
InitReset == Booting("reset") /\ WriteByte("FF") /\ boot' \in {"ack", "main"}

\* wait_for_ack, the result of the test, the identification.
InitByte ==
    /\ boot \in {"ack", "bat", "id"}
    /\ Booting(boot)
    /\ fifo # <<>> /\ fifo' = Tail(fifo)
    /\ LET v == Head(fifo).val IN
       CASE boot = "ack" -> /\ boot' = IF v = "FA" THEN "bat" ELSE "ack"
                            /\ UNCHANGED mouseVars
         [] boot = "bat" -> /\ boot' = IF v = "AA" THEN "id" ELSE "main"
                            /\ UNCHANGED mouseVars
         [] boot = "id"  -> /\ boot' = "main"
                            /\ IF v = "00" THEN Command("F4")
                                           ELSE UNCHANGED mouseVars

InitTimeout ==
    /\ boot \in {"ack", "bat", "id"}
    /\ Booting(boot)
    /\ fifo = <<>>
    /\ boot' = "main"
    /\ UNCHANGED <<fifo, mouseVars>>

MainReset == Booting("main") /\ WriteByte("FF") /\ boot' = "on"

-----------------------------------------------------------------------------
(* PS2_ISR.                                                                *)

PacketEnds(n) == IF n = 4 THEN 1 ELSE n

\* Mutated form: a count that is under way goes on.
CntAtInsertionKept(n) == IF n = 0 THEN 1 ELSE PacketEnds(n)
CntAtInsertion(n) == 1

IsAck(b) == b.val = "FA"

\* Mutated form: the two bytes are looked for one byte too early.
InsertionLate(b) == b[1].val = "AA" /\ b[2].val = "00"
Insertion(b) == b[2].val = "AA" /\ b[3].val = "00"

\* Mutated form: the flag is raised by the second byte.
FlagEarly(n) == n = 3
FlagsMouse(n) == n = 4

\* The byte read now is the last one the mouse has sent.
Newest == mode = "mute" /\ Tail(fifo) = <<>>

\* One byte.  At an insertion F4 is written; if the port then shows its
\* error bit there is no wait.
PS2_ISR ==
    LET last3 == Append(Tail(last), Head(fifo))
        n     == IF cnt >= 1 THEN cnt + 1 ELSE cnt IN
    /\ boot = "on" /\ isr = "idle"
    /\ fifo # <<>> /\ fifo' = Tail(fifo)
    /\ last' = last3
    /\ valid' = IF n = 4 THEN 1 - valid ELSE valid
    /\ flag_mouse' = (flag_mouse \/ FlagsMouse(n))
    /\ raced' = (raced \/ (n = 4 /\ main # "loop"))
    /\ IF Insertion(last3)
         THEN /\ cnt' = CntAtInsertion(n)
              /\ Command("F4")
              /\ \/ /\ isr' = "wait"
                    /\ broken' = (broken /\ ~(Inserted(last3) /\ Newest))
                 \/ UNCHANGED isr /\ broken' = TRUE
         ELSE /\ cnt' = PacketEnds(n)
              /\ UNCHANGED <<mouseVars, isr, broken>>
    /\ UNCHANGED <<boot, ps2MainVars>>

\* wait_for_ack: other bytes are thrown away.
WaitAck ==
    LET b == Head(fifo) IN
    /\ isr = "wait"
    /\ fifo # <<>> /\ fifo' = Tail(fifo)
    /\ isr' = IF IsAck(b) THEN "idle" ELSE "wait"
    /\ broken' = (broken \/ (IsAck(b) /\ b # Ack))
    /\ UNCHANGED <<mouseVars, boot, cnt, last, valid, flag_mouse, ps2MainVars,
                   raced>>

WaitTimeout ==
    /\ isr = "wait" /\ fifo = <<>>
    /\ isr' = "idle"
    /\ broken' = TRUE
    /\ UNCHANGED <<fifo, mouseVars, boot, cnt, last, valid, flag_mouse,
                   ps2MainVars, raced>>

-----------------------------------------------------------------------------
(* The main loop.  It moves when no interrupt is pending.                  *)

MainGoto(from, to) ==
    /\ boot = "on" /\ isr = "idle" /\ fifo = <<>>
    /\ main = from /\ main' = to
    /\ UNCHANGED <<fifo, mouseVars, boot, isr, cnt, last, valid, broken>>

CheckFlag == MainGoto("loop", "b1") /\ flag_mouse
             /\ raced' = FALSE /\ UNCHANGED <<flag_mouse, taken>>
Read(from, to, before) == MainGoto(from, to) /\ taken' = before \cup {valid}
                          /\ UNCHANGED <<flag_mouse, raced>>
Read1 == Read("b1", "b2", {})
Read2 == Read("b2", "b3", taken)
Read3 == Read("b3", "clear", taken)
ClearFlag == MainGoto("clear", "loop") /\ flag_mouse' = FALSE
             /\ UNCHANGED <<taken, raced>>

Boot   == InitReset \/ InitByte \/ InitTimeout \/ MainReset
Driver == PS2_ISR \/ WaitAck \/ WaitTimeout
MouseMain == CheckFlag \/ Read1 \/ Read2 \/ Read3 \/ ClearFlag
MouseNext == \/ Plug \/ Unplug \/ Move \/ Send \/ Lose
             \/ Boot \/ Driver \/ MouseMain

MouseSpec == MouseInit /\ [][MouseNext]_ps2Vars

\* The mouse sends what it has to send, and the processor runs.
MouseFairSpec == /\ MouseSpec
                 /\ WF_ps2Vars(Send) /\ WF_ps2Vars(Boot)
                 /\ WF_ps2Vars(Driver) /\ WF_ps2Vars(MouseMain)

-----------------------------------------------------------------------------
(* Properties.                                                             *)

(***************************************************************************)
(* Since PS2_ISR last answered an insertion (with nothing of an earlier    *)
(* time left in the port), and unless a byte was lost or came too late, or *)
(* a packet's byte FA was taken for the acknowledgment: what it hands to   *)
(* main is one packet, from its first byte to its third, even if a packet  *)
(* holds the bytes AA 00 and a handshake is made in the middle of it.      *)
(***************************************************************************)
Aligned == [][valid' # valid /\ ~broken => IsPacket(last')]_ps2Vars

(***************************************************************************)
(* main.c:393-396: when nothing is left to do, what Mouse_ISR has read is  *)
(* the last packet, unless that came in while Mouse_ISR was at work, whose *)
(* flag main then clears.                                                  *)
(***************************************************************************)
ShownUnlessRaced ==
    main \in {"loop", "clear"} /\ (flag_mouse => main = "clear") =>
        taken = {valid} \/ raced

(***************************************************************************)
(* A mouse that was plugged in or reset is told to send its packets, if it *)
(* stays and the bytes of its self-test are not lost.                      *)
(***************************************************************************)
EnabledInTheEnd == mode \in {"test", "mute"} ~> mode \in {"stream", "off"}
=============================================================================
