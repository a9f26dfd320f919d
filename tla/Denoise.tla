------------------------------ MODULE Denoise -------------------------------
(***************************************************************************)
(* The two programs of Lab#3 that take the noise out of a recording: the   *)
(* one in Hardware/ sends each word through the serial filter by a custom  *)
(* instruction, the one in Software/ through filter.c.  Both do it in the  *)
(* command that starts the recording, with audio_ISR filling the buffers   *)
(* at the same time.                                                       *)
(*                                                                         *)
(* Enabling the read interrupt is one step here, and the audio FIFOs are   *)
(* as full as audio_ISR likes (AudioFirmware has both in detail).  Playing *)
(* changes no buffer.  A recorded word says where it belongs.              *)
(***************************************************************************)
EXTENDS SerialFir, Sequences

CONSTANTS BUF_SIZE,
          Recordings     \* bound: recordings that are started

Channels == <<"l", "r">>
Channel  == {"l", "r"}
Index    == 0 .. BUF_SIZE - 1

ASSUME DenoiseAssumption ==
    /\ BUF_SIZE \in Nat \ {0} /\ Recordings \in Nat
    /\ Sample = [chan : Channel, at : Index, rec : 1 .. Recordings]

VARIABLES hardware,              \* which of the two programs
          buf, buf_Denoise,      \* of both channels
          buf_index_record, reading,      \* the read interrupt is enabled
          pc, chan, i, cycle,    \* main: in make_Denoise's loops
          mem,                   \* the delay line of filter.c
          rec, fed               \* history: recordings, words filtered

firVars    == vars
recordVars == <<buf, buf_index_record, reading, rec>>
loopVars   == <<chan, i, cycle>>
allVars == <<firVars, recordVars, hardware, buf_Denoise, pc, loopVars, mem,
             fed>>

DenoiseInit ==
    /\ Init
    /\ hardware \in BOOLEAN
    /\ buf = [c \in Channel |-> [k \in Index |-> Zero]]
    /\ buf_Denoise = [c \in Channel |-> [k \in Index |-> NoProducts]]
    /\ buf_index_record = 0 /\ reading = FALSE
    /\ pc = "main" /\ chan = 1 /\ i = 0 /\ cycle = 0
    /\ mem = EmptyLine
    /\ rec = 0 /\ fed = <<>>

-----------------------------------------------------------------------------
(* The interrupts.  An instruction that has begun is not interrupted.      *)

Interruptible ==
    /\ cycle = 0
    /\ UNCHANGED <<firVars, hardware, buf_Denoise, pc, loopVars, mem, fed>>

Begin == /\ rec < Recordings /\ rec' = rec + 1
         /\ buf_index_record' = 0
         /\ UNCHANGED buf

\* KEY1.
pushbutton_ISR == Interruptible /\ Begin /\ reading' = TRUE

audio_ISR ==
    /\ Interruptible
    /\ reading /\ buf_index_record < BUF_SIZE
    /\ \E n \in 1 .. BUF_SIZE - buf_index_record :
           /\ buf' = [c \in Channel |-> [k \in Index |->
                        IF k \in buf_index_record .. buf_index_record + n - 1
                        THEN [chan |-> c, at |-> k, rec |-> rec]
                        ELSE buf[c][k]]]
           /\ buf_index_record' = buf_index_record + n
    /\ reading' = (buf_index_record' < BUF_SIZE)
    /\ UNCHANGED rec

-----------------------------------------------------------------------------
(* run_command for the command Record.                                     *)

Record == /\ pc = "main" /\ pc' = "enable"
          /\ Begin
          /\ UNCHANGED <<firVars, hardware, buf_Denoise, reading, loopVars,
                         mem, fed>>

EnableRead == /\ pc = "enable" /\ pc' = "denoise"
              /\ reading' = TRUE
              /\ UNCHANGED <<firVars, hardware, buf, buf_Denoise,
                             buf_index_record, rec, loopVars, mem, fed>>

\* The word make_Denoise is at, and what it does with the filter's answer.
word == buf[Channels[chan]][i]
ChannelEnds == i = BUF_SIZE - 1

Keep(result) ==
    /\ buf_Denoise' = [buf_Denoise EXCEPT ![Channels[chan]][i] = result]
    /\ fed' = Append(fed, word)
    /\ i' = IF ChannelEnds THEN 0 ELSE i + 1
    /\ chan' = IF ChannelEnds THEN 3 - chan ELSE chan
    /\ pc' = IF ChannelEnds /\ chan = 2 THEN "main" ELSE "denoise"

\* Of FIR_ser.  Mutated form: one clock fewer.
clockCycleShort == Taps - 1
clockCycle == Taps

ALT_CI_FIR_SER_0 ==
    /\ hardware /\ pc = "denoise"
    /\ Enabled(word)
    /\ IF cycle = clockCycle - 1
         THEN cycle' = 0 /\ Keep(output_register)
         ELSE /\ cycle' = cycle + 1
              /\ UNCHANGED <<buf_Denoise, fed, i, chan, pc>>
    /\ UNCHANGED <<hardware, recordVars, mem>>

\* Mutated form: mem is not cleared between the channels.
ClearedKept(line) == line
Cleared(line) == IF ChannelEnds THEN EmptyLine ELSE line

filter ==
    LET line == Shift(mem, word) IN
    /\ ~hardware /\ pc = "denoise"
    /\ Keep(Convolution(line))
    /\ mem' = Cleared(line)
    /\ UNCHANGED <<firVars, hardware, recordVars, cycle>>

DenoiseNext == \/ pushbutton_ISR \/ audio_ISR
               \/ Record \/ EnableRead \/ ALT_CI_FIR_SER_0 \/ filter

DenoiseSpec == DenoiseInit /\ [][DenoiseNext]_allVars

-----------------------------------------------------------------------------
(* Properties.                                                             *)

\* The answer to the n-th of the words s.
AnswerTo(s, n) ==
    Convolution([k \in Tap |-> IF n - k \in 1 .. Len(s) THEN s[n - k]
                                                      ELSE Zero])

\* The words of a channel the last time make_Denoise ran.
LastFed(c) == LET from == Len(fed) - (IF c = "l" THEN 2 ELSE 1) * BUF_SIZE
              IN  SubSeq(fed, from + 1, from + BUF_SIZE)

(***************************************************************************)
(* In Software/ every denoised word is the filter's answer to the word at  *)
(* the same place, and to words of its own channel only.                   *)
(***************************************************************************)
SoftwareInPlace ==
    ~hardware /\ pc = "main" /\ fed # <<>> =>
        \A c \in Channel, k \in Index :
            buf_Denoise[c][k] = AnswerTo(LastFed(c), k + 1)

(***************************************************************************)
(* In Hardware/ the words of both channels and of all runs are one stream, *)
(* and every denoised word is the answer to the word two before it: the    *)
(* instruction takes as long as the filter per word, so neither slips      *)
(* however long the program and the interrupts take in between.            *)
(***************************************************************************)
HardwareTwoBehind ==
    hardware /\ pc = "main" /\ fed # <<>> =>
        \A c \in Channel, k \in Index :
            LET from == Len(fed) - (IF c = "l" THEN 2 ELSE 1) * BUF_SIZE IN
            buf_Denoise[c][k] = AnswerTo(fed, from + k + 1 - 2)
=============================================================================
