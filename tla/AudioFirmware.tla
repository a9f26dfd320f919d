--------------------------- MODULE AudioFirmware ---------------------------
(***************************************************************************)
(* Recording and playback in the Nios II program of Lab#4: the main loop   *)
(* of media_interrupt_HAL.c, which runs the command the mouse points at,   *)
(* and the two interrupt handlers audio_ISR and pushbutton_ISR.            *)
(*                                                                         *)
(* Interrupts are not nested: a handler runs to its end, the lowest        *)
(* pending number first, and main goes on when nothing is pending          *)
(* (alt_irq_handler.c:128-159).  So a handler is one action, and main is   *)
(* one action per access to what it shares with a handler.                 *)
(*                                                                         *)
(* The codec runs in real time.  late counts the units that arrive while   *)
(* no interrupt is pending, from one round of the main loop to the next;   *)
(* it is bounded by MaxLate because a round takes far less time than a     *)
(* buffer, or than one of its N chunks, takes to play.                     *)
(*                                                                         *)
(* What the mouse points at with its button down is chosen freely.         *)
(* take_mean (module TakeMean) is taken to return.                         *)
(***************************************************************************)
EXTENDS AudioCore

CONSTANTS BUF_SIZE,   \* units in a recording
          N,          \* bars of the progress display
          MaxLate,    \* see above
          Patient     \* TRUE: the user waits until the system is at rest

Chunk == BUF_SIZE \div N

ASSUME SizeAssumption == /\ N \in Nat \ {0, 1}
                         /\ BUF_SIZE \in Nat /\ BUF_SIZE = N * Chunk
                         /\ Chunk > Depth
                         /\ MaxLate \in Nat \ {0}
                         /\ Patient \in BOOLEAN

\* A round of the main loop is shorter than a recording: what the codec adds
\* in a round, and a FIFO full of what it added before, do not fill a buffer.
ASSUME RoundAssumption ==
    Depth * (BUF_THRESHOLD + MaxLate) < BUF_SIZE * BUF_THRESHOLD

\* And two rounds, in which a bar that is asked for is drawn for certain, are
\* shorter than what a bar stands for.
ASSUME ChunkAssumption ==
    Depth * (BUF_THRESHOLD + 2 * MaxLate) < Chunk * BUF_THRESHOLD

KEY1 == 1
KEY2 == 2
Nothing == 255                \* command_det returns -1 as unsigned char
Commands == {0, 1, 2}         \* record, play, denoise

VARIABLES buf_index_record, buf_index_play, eq,        \* audio_ISR
          new_record_flag, flag_play, flag_is_playing,
          flag_denoise, command, rect_th,              \* main
          pc,          \* where main is
          ctrl_reg,    \* main's copy of the control register
          edge,        \* the edge capture register of the keys
          pointed,     \* what command_det would find
          late,
          owed         \* history: what was started and not finished

mainVars == <<rect_th, command, pc, ctrl_reg>>
vars == <<coreVars, buf_index_record, buf_index_play, eq, new_record_flag,
          flag_play, flag_is_playing, flag_denoise, mainVars, edge, pointed,
          late, owed>>

Init == /\ CoreInit
        /\ buf_index_record = 0 /\ buf_index_play = 0 /\ eq = 0
        /\ new_record_flag = TRUE
        /\ flag_play = FALSE /\ flag_is_playing = FALSE
        /\ flag_denoise = FALSE
        /\ command = 0 /\ rect_th = 0
        /\ pc = "loop" /\ ctrl_reg = control
        /\ edge = {}
        /\ pointed = Nothing
        /\ late = 0
        /\ owed = {}

Pending == \/ edge # {}
           \/ read_interrupt_pending
           \/ write_interrupt_pending

-----------------------------------------------------------------------------
(* The user and the codec.                                                 *)

AtRest == /\ owed = {} /\ edge = {} /\ pointed = Nothing
          /\ pc \in {"loop", "check"}
          /\ ~new_record_flag /\ ~flag_play

Press(key) == /\ Patient => AtRest
              /\ edge' = edge \cup {key}
              /\ UNCHANGED <<coreVars, buf_index_record, buf_index_play, eq,
                    new_record_flag, flag_play, flag_is_playing,
                    flag_denoise, mainVars, pointed, late, owed>>

PointTo(what) ==
    /\ what # pointed
    /\ Patient /\ what # Nothing => AtRest
    /\ pointed' = what
    /\ UNCHANGED <<coreVars, buf_index_record, buf_index_play, eq,
          new_record_flag, flag_play, flag_is_playing, flag_denoise,
          mainVars, edge, late, owed>>

\* A patient user does not hold the button down for a whole playback.
Sample ==
    /\ late < MaxLate \/ Pending
    /\ Patient /\ "play" \in owed /\ pointed # Nothing =>
           buf_index_play <= Chunk
    /\ Codec
    /\ late' = IF Pending THEN late ELSE late + 1
    /\ UNCHANGED <<buf_index_record, buf_index_play, eq, new_record_flag,
          flag_play, flag_is_playing, flag_denoise, mainVars, edge, pointed,
          owed>>

-----------------------------------------------------------------------------
(* Interrupt handlers.                                                     *)

\* KEY1 and KEY2 are told apart by the whole register, read and cleared at
\* once: both together, or KEY3, start nothing.
pushbutton_ISR ==
    /\ edge # {}
    /\ edge' = {}
    /\ CASE edge = {KEY1} ->
                /\ buf_index_record' = 0
                /\ ClearFifos([control EXCEPT !.RE = TRUE])
                /\ owed' = owed \cup {"record"}
                /\ UNCHANGED buf_index_play
         [] edge = {KEY2} ->
                /\ buf_index_play' = 0
                /\ ClearFifos([control EXCEPT !.WE = TRUE])
                /\ owed' = owed \cup {"play"}
                /\ UNCHANGED buf_index_record
         [] OTHER ->
                UNCHANGED <<coreVars, buf_index_record, buf_index_play, owed>>
    /\ UNCHANGED <<eq, new_record_flag, flag_play, flag_is_playing,
          flag_denoise, mainVars, pointed, late>>

\* The read half.  finished: the buffer is full now, take_mean has run.
Record(num_read, finished) ==
    /\ buf_index_record' = buf_index_record + num_read
    /\ rfifo' = rfifo - num_read
    /\ new_record_flag' = (new_record_flag \/ finished)

\* The write half.  playing: there was something left to play.
\* Mutated form: flag_is_playing stays up at the end.
PlayForEver(num_written, playing, finished) ==
    /\ buf_index_play' = buf_index_play + num_written
    /\ wfifo' = wfifo + num_written
    /\ flag_is_playing' = (flag_is_playing \/ playing)
    /\ LET mark == playing /\ buf_index_play' >= eq IN
         /\ flag_play' = (flag_play \/ mark)
         /\ eq' = CASE finished -> 0
                    [] ~finished /\ mark -> eq + Chunk
                    [] OTHER -> eq
Play(num_written, playing, finished) ==
    /\ buf_index_play' = buf_index_play + num_written
    /\ wfifo' = wfifo + num_written
    /\ flag_is_playing' = IF playing THEN ~finished ELSE flag_is_playing
    /\ LET mark == playing /\ buf_index_play' >= eq IN
         /\ flag_play' = (flag_play \/ mark)
         /\ eq' = CASE finished -> 0
                    [] ~finished /\ mark -> eq + Chunk
                    [] OTHER -> eq

\* What is finished is disabled.  Mutated form: reading is not.
DisableWriteOnly(recorded, played) ==
    control' = [control EXCEPT !.WE = @ /\ ~played]
Disable(recorded, played) ==
    control' = [RE |-> control.RE /\ ~recorded, WE |-> control.WE /\ ~played]

audio_ISR ==
    /\ edge = {}
    /\ read_interrupt_pending \/ write_interrupt_pending
    /\ LET recording == read_interrupt_pending /\ buf_index_record < BUF_SIZE
           playing == write_interrupt_pending /\ buf_index_play < BUF_SIZE
           num_read == IF recording THEN record_r(BUF_SIZE - buf_index_record)
                                    ELSE 0
           num_written == IF playing THEN play_r(BUF_SIZE - buf_index_play)
                                     ELSE 0
           recorded == recording /\ buf_index_record + num_read = BUF_SIZE
           played == playing /\ buf_index_play + num_written = BUF_SIZE
       IN /\ Record(num_read, recorded)
          /\ Play(num_written, playing, played)
          /\ Disable(recorded, played)
          /\ owed' = owed \ ((IF recorded THEN {"record"} ELSE {})
                              \cup (IF played THEN {"play"} ELSE {}))
    /\ UNCHANGED <<flag_denoise, mainVars, edge, pointed, late>>

-----------------------------------------------------------------------------
(* The main loop.                                                          *)

isrVars == <<buf_index_record, buf_index_play, eq, flag_is_playing>>

Goto(from, to) == /\ ~Pending
                  /\ pc = from
                  /\ pc' = to
                  /\ UNCHANGED <<edge, pointed>>

\* if (new_record_flag): a new round begins.
Loop == /\ Goto("loop", IF new_record_flag THEN "redraw" ELSE "progress")
        /\ late' = 0
        /\ UNCHANGED <<coreVars, isrVars, new_record_flag, flag_play,
              flag_denoise, rect_th, command, ctrl_reg, owed>>

\* The screen has been drawn.
Redraw == /\ Goto("redraw", "progress")
          /\ rect_th' = 0
          /\ new_record_flag' = FALSE
          /\ UNCHANGED <<coreVars, isrVars, flag_play, flag_denoise, command,
                ctrl_reg, late, owed>>

\* if (flag_play)
Progress == /\ Goto("progress", IF flag_play THEN "bar" ELSE "check")
            /\ UNCHANGED <<coreVars, isrVars, new_record_flag, flag_play,
                  flag_denoise, rect_th, command, ctrl_reg, late, owed>>

\* One more bar, rects[rect_th], has been drawn.  Mutated form: the number
\* of bars wraps one bar early.
BarEarly ==
    /\ Goto("bar", "check")
    /\ flag_play' = FALSE
    /\ rect_th' = IF rect_th + 1 >= N THEN 0 ELSE rect_th + 1
    /\ UNCHANGED <<coreVars, isrVars, new_record_flag, flag_denoise, command,
          ctrl_reg, late, owed>>
Bar ==
    /\ Goto("bar", "check")
    /\ flag_play' = FALSE
    /\ rect_th' = IF rect_th + 1 > N THEN 0 ELSE rect_th + 1
    /\ UNCHANGED <<coreVars, isrVars, new_record_flag, flag_denoise, command,
          ctrl_reg, late, owed>>

\* if (!flag_is_playing) command = command_det(...); run_command(...)
Check ==
    /\ Goto("check", IF ~flag_is_playing /\ pointed \in Commands
                       THEN "index" ELSE "last")
    /\ command' = IF flag_is_playing THEN command ELSE pointed
    /\ UNCHANGED <<coreVars, isrVars, new_record_flag, flag_play,
          flag_denoise, rect_th, ctrl_reg, late, owed>>

\* run_command: the index, then reset_audio_core and the enable function,
\* each as read, (change,) write.
ResetIndex ==
    /\ Goto("index", "read_reset")
    /\ buf_index_record' = IF command = 0 THEN 0 ELSE buf_index_record
    /\ buf_index_play' = IF command = 0 THEN buf_index_play ELSE 0
    /\ UNCHANGED <<coreVars, eq, flag_is_playing, new_record_flag, flag_play,
          flag_denoise, rect_th, command, ctrl_reg, late, owed>>

ReadControl(from, to) ==
    /\ Goto(from, to)
    /\ ctrl_reg' = control
    /\ UNCHANGED <<coreVars, isrVars, new_record_flag, flag_play,
          flag_denoise, rect_th, command, late, owed>>

SetReset ==
    /\ Goto("set_reset", "clear_reset")
    /\ ClearFifos(ctrl_reg)
    /\ UNCHANGED <<isrVars, new_record_flag, flag_play, flag_denoise,
          rect_th, command, ctrl_reg, late, owed>>

ClearReset ==
    /\ Goto("clear_reset", "read_enable")
    /\ WriteControl(ctrl_reg)
    /\ UNCHANGED <<isrVars, new_record_flag, flag_play, flag_denoise,
          rect_th, command, ctrl_reg, late, owed>>

\* Mutated form: the two mask bits are swapped.
EnableSwapped ==
    /\ Goto("enable", IF command = 0 THEN "last" ELSE "denoise")
    /\ WriteControl([RE |-> ctrl_reg.RE \/ command # 0,
                     WE |-> ctrl_reg.WE \/ command = 0])
    /\ owed' = owed \cup {IF command = 0 THEN "record" ELSE "play"}
    /\ UNCHANGED <<isrVars, new_record_flag, flag_play, flag_denoise,
          rect_th, command, ctrl_reg, late>>
Enable ==
    /\ Goto("enable", IF command = 0 THEN "last" ELSE "denoise")
    /\ WriteControl([RE |-> ctrl_reg.RE \/ command = 0,
                     WE |-> ctrl_reg.WE \/ command # 0])
    /\ owed' = owed \cup {IF command = 0 THEN "record" ELSE "play"}
    /\ UNCHANGED <<isrVars, new_record_flag, flag_play, flag_denoise,
          rect_th, command, ctrl_reg, late>>

\* flag_denoise is set after the interrupt was enabled.
SetDenoise ==
    /\ Goto("denoise", "last")
    /\ flag_denoise' = (command = 2)
    /\ UNCHANGED <<coreVars, isrVars, new_record_flag, flag_play, rect_th,
          command, ctrl_reg, late, owed>>

\* if (command == 1) the bars are erased.
EraseBars ==
    /\ Goto("last", "loop")
    /\ command' = IF command = 1 THEN 0 ELSE command
    /\ UNCHANGED <<coreVars, isrVars, new_record_flag, flag_play,
          flag_denoise, rect_th, ctrl_reg, late, owed>>

Main == \/ Loop \/ Redraw \/ Progress \/ Bar \/ Check \/ ResetIndex
        \/ ReadControl("read_reset", "set_reset") \/ SetReset \/ ClearReset
        \/ ReadControl("read_enable", "enable") \/ Enable \/ SetDenoise
        \/ EraseBars

Next == \/ \E key \in {KEY1, KEY2} : Press(key)
        \/ \E what \in Commands \cup {Nothing} : PointTo(what)
        \/ Sample
        \/ pushbutton_ISR
        \/ audio_ISR
        \/ Main

Spec == Init /\ [][Next]_vars

\* The codec and the processor do not stop; the user lets the button go.
FairSpec == /\ Spec
            /\ WF_vars(Sample)
            /\ WF_vars(pushbutton_ISR)
            /\ WF_vars(audio_ISR)
            /\ WF_vars(Main)
            /\ WF_vars(PointTo(Nothing))

-----------------------------------------------------------------------------
(* Properties.                                                             *)

(***************************************************************************)
(* The indexes stay in their buffers, whoever resets them meanwhile, and   *)
(* the FIFOs hold what they can.                                           *)
(***************************************************************************)
TypeOK ==
    /\ buf_index_record \in 0 .. BUF_SIZE
    /\ buf_index_play \in 0 .. BUF_SIZE
    /\ rfifo \in 0 .. Depth /\ wfifo \in 0 .. Depth
    /\ control \in [RE : BOOLEAN, WE : BOOLEAN]
    /\ ctrl_reg \in [RE : BOOLEAN, WE : BOOLEAN]
    /\ eq \in {Chunk * k : k \in 0 .. N}
    /\ rect_th \in 0 .. N
    /\ command \in Commands \cup {Nothing}

(***************************************************************************)
(* No interrupt storm: audio_ISR tests the index before it disables        *)
(* anything, so an interrupt enabled with its buffer finished would be     *)
(* pending for ever and keep main from running.  The driver's comments     *)
(* promise it, "set WE to 1 while maintaining other bits the same"         *)
(* (altera_up_avalon_audio.c:72, and :106, :110): what the handler has     *)
(* disabled stays disabled.  It does not hold for a user who may act at    *)
(* any time: main writes back the bit of a recording or playback that      *)
(* ended since it read the register.                                       *)
(***************************************************************************)
NoStorm == /\ control.RE => buf_index_record < BUF_SIZE
           /\ control.WE => buf_index_play < BUF_SIZE

(***************************************************************************)
(* What is left of it for every user: a storm begins in no handler,        *)
(* whatever keys come together and whichever buffer ends, nor anywhere     *)
(* else than in one of run_command's three writes of the control register  *)
(* (media_interrupt_HAL.c's run_command, through reset_audio_core and the  *)
(* enable functions).                                                      *)
(***************************************************************************)
StormOnlyByMain ==
    [][NoStorm => \/ NoStorm'
                  \/ /\ pc \in {"set_reset", "clear_reset", "enable"}
                     /\ pc' # pc]_vars

(***************************************************************************)
(* The bar display keeps in step with the playback: as many bars are drawn *)
(* or asked for as marks were passed, in the N + 1 bars the code cycles    *)
(* through, so that the next playback starts at the first one.             *)
(***************************************************************************)
BarsInStep ==
    pc # "redraw" /\ ~new_record_flag =>
        (rect_th + IF flag_play THEN 1 ELSE 0) % (N + 1)
            = (eq \div Chunk) % (N + 1)

(***************************************************************************)
(* Header of media_interrupt_HAL.c: what KEY1, KEY2 or a click started is  *)
(* recorded or played to the end (about 10 seconds).                       *)
(***************************************************************************)
RecordingCompletes == "record" \in owed ~> buf_index_record = BUF_SIZE
PlaybackCompletes == "play" \in owed ~> ~flag_is_playing /\ "play" \notin owed

(***************************************************************************)
(* media_interrupt_HAL.c:74, "pressing KEY[1] ... controlled by using      *)
(* interrupts", and :77 for KEY[2]: what was started keeps its interrupt   *)
(* enabled until it is finished, when main is not just changing the        *)
(* register.                                                               *)
(***************************************************************************)
RequestsArmed ==
    pc \in {"loop", "redraw", "progress", "bar", "check"} =>
        /\ "record" \in owed => control.RE
        /\ "play" \in owed => control.WE
=============================================================================
