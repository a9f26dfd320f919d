------------------------ MODULE AudioFirmwareProofs -------------------------
(***************************************************************************)
(* Recording and playback with a patient user, for every size of buffer    *)
(* and FIFOs: the control register, which main changes in two accesses and *)
(* the handlers in one, always enables what is owed and nothing else; and  *)
(* the progress display, which the handler and main share, stays in step.  *)
(* With any user, an interrupt storm begins in one of main's writes of     *)
(* that register or not at all (StormBegins).                              *)
(***************************************************************************)
EXTENDS AudioFirmware, TLAPS

(***************************************************************************)
(* run_command up to the enable function, and the part of it after the     *)
(* index was reset.  Stale is where main holds a copy of the register.     *)
(***************************************************************************)
Started == {"read_reset", "set_reset", "clear_reset", "read_enable", "enable"}
Setting == {"index"} \cup Started
Stale   == {"set_reset", "clear_reset", "enable"}
Cleared == {"clear_reset", "read_enable", "enable"}

(***************************************************************************)
(* The register says what is owed, and what is owed is not finished.       *)
(***************************************************************************)
Armed ==
    /\ owed \in {{}, {"record"}, {"play"}}
    /\ control.RE <=> "record" \in owed
    /\ control.WE <=> "play" \in owed
    /\ "record" \in owed => buf_index_record < BUF_SIZE
    /\ "play" \in owed => buf_index_play < BUF_SIZE
    /\ "play" \in owed /\ ~flag_is_playing => wfifo = 0

(***************************************************************************)
(* What a patient user leaves possible: a key only when nothing else goes  *)
(* on, and a command that is of the kind of what is owed.                  *)
(***************************************************************************)
Polite ==
    /\ edge # {} => /\ edge \in {{KEY1}, {KEY2}}
                    /\ owed = {} /\ pointed = Nothing
                    /\ pc \in {"loop", "check"}
    /\ "play" \in owed => pointed # 0
    /\ "record" \in owed => pointed \in {0, Nothing}
    /\ pc \in Setting => /\ command \in Commands
                         /\ pointed \in {Nothing, command}
                         /\ "play" \notin owed
                         /\ "record" \in owed => command = 0

(***************************************************************************)
(* The copy main holds is what is in the register, since nothing can be    *)
(* finished while it is held: of a recording that is started again there   *)
(* can be no more than what came late in this round, FIFO by FIFO.         *)
(***************************************************************************)
Waiting == IF rfifo < BUF_THRESHOLD THEN rfifo ELSE BUF_THRESHOLD

Prompt ==
    /\ late \in 0 .. MaxLate
    /\ pc \in Stale => ctrl_reg = control
    /\ pc \in Cleared /\ command # 0 => wfifo = 0
    /\ pc \in Started /\ command # 0 => buf_index_play < BUF_SIZE
    /\ pc \in Started /\ command = 0 =>
          BUF_THRESHOLD * buf_index_record + Depth * Waiting
             <= Depth * (BUF_THRESHOLD + late)

Types == TypeOK /\ pointed \in Commands \cup {Nothing}

IInv == Types /\ (Patient => Armed /\ Polite /\ Prompt)

-----------------------------------------------------------------------------
(***************************************************************************)
(* The numbers of the system.                                              *)
(***************************************************************************)
LEMMA Division ==
    ASSUME NEW m \in Nat \ {0}, NEW p \in Nat
    PROVE  p \div m \in Nat
OBVIOUS

LEMMA Constants ==
    /\ Depth \in Nat /\ BUF_THRESHOLD \in Nat
    /\ 0 < BUF_THRESHOLD /\ BUF_THRESHOLD < Depth
    /\ N \in Nat /\ N > 1 /\ Chunk \in Nat /\ Chunk > Depth
    /\ BUF_SIZE \in Nat /\ BUF_SIZE = N * Chunk /\ BUF_SIZE > Depth
    /\ MaxLate \in Nat
<1>1. /\ Depth \in Nat /\ BUF_THRESHOLD \in 1 .. Depth - 1
      /\ N \in Nat \ {0, 1} /\ BUF_SIZE \in Nat /\ BUF_SIZE = N * Chunk
      /\ Chunk > Depth /\ MaxLate \in Nat
  BY DepthAssumption, SizeAssumption
<1>2. Chunk \in Nat
  BY <1>1, Division DEF Chunk
<1>3. N * Chunk >= Chunk
  BY <1>1, <1>2
<1> QED  BY <1>1, <1>2, <1>3

(***************************************************************************)
(* The control register and its two bits.                                  *)
(***************************************************************************)
Register == [RE : BOOLEAN, WE : BOOLEAN]

LEMMA RegisterTypes ==
    /\ \A re, we \in BOOLEAN : [RE |-> re, WE |-> we] \in Register
    /\ \A reg \in Register : /\ [reg EXCEPT !.RE = TRUE] \in Register
                             /\ [reg EXCEPT !.WE = TRUE] \in Register
                             /\ reg.RE \in BOOLEAN /\ reg.WE \in BOOLEAN
BY DEF Register

LEMMA RegisterBits ==
    ASSUME NEW reg, NEW re \in BOOLEAN, NEW we \in BOOLEAN,
           NEW recordedBit, NEW playedBit,
           reg = [RE |-> re /\ ~recordedBit, WE |-> we /\ ~playedBit]
    PROVE  /\ reg.RE <=> re /\ ~recordedBit
           /\ reg.WE <=> we /\ ~playedBit
           /\ ~recordedBit /\ ~playedBit => reg = [RE |-> re, WE |-> we]
<1>1. /\ (re /\ ~recordedBit) \in BOOLEAN /\ (we /\ ~playedBit) \in BOOLEAN
  OBVIOUS
<1>2. reg.RE = (re /\ ~recordedBit) /\ reg.WE = (we /\ ~playedBit)
  BY Zenon
<1>3. ~recordedBit /\ ~playedBit => reg = [RE |-> re, WE |-> we]
  <2> SUFFICES ASSUME ~recordedBit, ~playedBit
               PROVE  reg = [RE |-> re, WE |-> we]
    OBVIOUS
  <2>1. (re /\ ~recordedBit) = re /\ (we /\ ~playedBit) = we
    OBVIOUS
  <2> QED  BY <2>1, Zenon
<1> QED  BY <1>2, <1>3, Zenon

(***************************************************************************)
(* What a call of the driver moves is there to be moved, and there is room *)
(* for it; if it stops short of a FIFO's end, the buffer is at its end.    *)
(***************************************************************************)
LEMMA RecordMoves ==
    ASSUME TypeOK, NEW len \in Nat
    PROVE  /\ record_r(len) \in 0 .. rfifo /\ record_r(len) <= len
           /\ record_r(len) # 0 => rfifo > BUF_THRESHOLD
           /\ record_r(len) \in {0, len, rfifo}
BY Constants DEF TypeOK, record_r, AtMost

LEMMA PlayMoves ==
    ASSUME TypeOK, NEW len \in Nat
    PROVE  play_r(len) \in 0 .. Depth - wfifo /\ play_r(len) <= len
BY Constants DEF TypeOK, play_r, AtMost

(***************************************************************************)
(* A mark that was passed before the end is not the last one.              *)
(***************************************************************************)
Marks == {Chunk * k : k \in 0 .. N}

LEMMA MarkType ==
    /\ 0 \in Marks
    /\ \A mark \in Marks : mark < BUF_SIZE => mark + Chunk \in Marks
<1>1. 0 \in Marks
  <2>1. Chunk * 0 = 0 /\ 0 \in 0 .. N
    BY Constants
  <2> QED  BY <2>1 DEF Marks
<1>2. ASSUME NEW k \in 0 .. N, Chunk * k < BUF_SIZE
      PROVE  Chunk * k + Chunk \in Marks
  <2>1. k # N
    BY <1>2, Constants
  <2>2. k + 1 \in 0 .. N /\ Chunk * k + Chunk = Chunk * (k + 1)
    BY <2>1, Constants
  <2> QED  BY <2>2 DEF Marks
<1> QED  BY <1>1, <1>2 DEF Marks

LEMMA MarksAreNumbers == Marks \subseteq Nat
BY Constants DEF Marks

-----------------------------------------------------------------------------
(***************************************************************************)
(* audio_ISR, by what it moves.                                            *)
(***************************************************************************)
recording == read_interrupt_pending /\ buf_index_record < BUF_SIZE
playing   == write_interrupt_pending /\ buf_index_play < BUF_SIZE
num_read    == IF recording THEN record_r(BUF_SIZE - buf_index_record) ELSE 0
num_written == IF playing THEN play_r(BUF_SIZE - buf_index_play) ELSE 0
recorded == recording /\ buf_index_record + num_read = BUF_SIZE
played   == playing /\ buf_index_play + num_written = BUF_SIZE

LEMMA IsrParts ==
    ASSUME audio_ISR
    PROVE  /\ Record(num_read, recorded)
           /\ Play(num_written, playing, played)
           /\ Disable(recorded, played)
           /\ owed' = owed \ ((IF recorded THEN {"record"} ELSE {})
                                \cup (IF played THEN {"play"} ELSE {}))
           /\ edge = {}
           /\ UNCHANGED <<mainVars, edge, pointed, late>>
BY DEF audio_ISR, recording, playing, num_read, num_written, recorded, played

LEMMA IsrMoves ==
    ASSUME TypeOK
    PROVE  /\ num_read \in 0 .. rfifo
           /\ buf_index_record + num_read \in 0 .. BUF_SIZE
           /\ num_written \in 0 .. Depth - wfifo
           /\ buf_index_play + num_written \in 0 .. BUF_SIZE
<1>1. /\ buf_index_record \in 0 .. BUF_SIZE /\ rfifo \in 0 .. Depth
      /\ buf_index_play \in 0 .. BUF_SIZE /\ wfifo \in 0 .. Depth
  BY DEF TypeOK
<1>2. /\ num_read \in 0 .. rfifo
      /\ buf_index_record + num_read \in 0 .. BUF_SIZE
  <2>1. CASE recording
    <3>1. BUF_SIZE - buf_index_record \in Nat
      BY <1>1, Constants
    <3>2. /\ num_read \in 0 .. rfifo
          /\ num_read <= BUF_SIZE - buf_index_record
      BY <2>1, <3>1, RecordMoves DEF num_read
    <3> QED  BY <1>1, <3>1, <3>2, Constants
  <2>2. CASE ~recording
    <3>1. num_read = 0
      BY <2>2 DEF num_read
    <3> QED  BY <1>1, <3>1, Constants
  <2> QED  BY <2>1, <2>2
<1>3. /\ num_written \in 0 .. Depth - wfifo
      /\ buf_index_play + num_written \in 0 .. BUF_SIZE
  <2>1. CASE playing
    <3>1. BUF_SIZE - buf_index_play \in Nat
      BY <1>1, Constants
    <3>2. /\ num_written \in 0 .. Depth - wfifo
          /\ num_written <= BUF_SIZE - buf_index_play
      BY <2>1, <3>1, PlayMoves DEF num_written
    <3> QED  BY <1>1, <3>1, <3>2, Constants
  <2>2. CASE ~playing
    <3>1. num_written = 0
      BY <2>2 DEF num_written
    <3> QED  BY <1>1, <3>1, Constants
  <2> QED  BY <2>1, <2>2
<1> QED  BY <1>2, <1>3

(***************************************************************************)
(* The handler keeps the types.                                            *)
(***************************************************************************)
LEMMA IsrTypes ==
    ASSUME TypeOK, audio_ISR
    PROVE  TypeOK'
<1>1. /\ buf_index_record' = buf_index_record + num_read
      /\ rfifo' = rfifo - num_read
      /\ buf_index_play' = buf_index_play + num_written
      /\ wfifo' = wfifo + num_written
  BY IsrParts DEF Record, Play
<1>2. /\ buf_index_record' \in 0 .. BUF_SIZE /\ rfifo' \in 0 .. Depth
      /\ buf_index_play' \in 0 .. BUF_SIZE /\ wfifo' \in 0 .. Depth
  BY <1>1, IsrMoves, Constants DEF TypeOK
<1>3. control' \in Register
  <2>1. /\ (control.RE /\ ~recorded) \in BOOLEAN
        /\ (control.WE /\ ~played) \in BOOLEAN
    OBVIOUS
  <2> QED  BY <2>1, IsrParts, RegisterTypes, Zenon DEF Disable
<1>4. eq \in Marks
  BY DEF TypeOK, Marks
<1>5. eq' \in Marks
  <2> DEFINE mark == playing /\ buf_index_play' >= eq
  <2>1. eq' = CASE played -> 0
                [] ~played /\ mark -> eq + Chunk
                [] OTHER -> eq
    BY IsrParts DEF Play
  <2>2. CASE played
    BY <2>1, <2>2, MarkType
  <2>3. CASE ~played /\ mark
    <3>1. eq \in Nat /\ eq < BUF_SIZE
      BY <1>1, <1>2, <1>4, <2>3, MarksAreNumbers, Constants DEF played
    <3> QED  BY <1>4, <2>1, <2>3, <3>1, MarkType
  <2>4. CASE ~played /\ ~mark
    BY <1>4, <2>1, <2>4
  <2> QED  BY <2>2, <2>3, <2>4
<1>6. UNCHANGED <<ctrl_reg, rect_th, command>>
  BY IsrParts DEF mainVars
<1> QED  BY <1>2, <1>3, <1>5, <1>6 DEF TypeOK, Marks, Register

LEMMA TypeStep == Types /\ [Next]_vars => Types'
<1> SUFFICES ASSUME Types, [Next]_vars PROVE Types'
  OBVIOUS
<1> USE Constants DEF Types, TypeOK, Goto, coreVars, isrVars, mainVars
<1>1. ASSUME NEW key \in {KEY1, KEY2}, Press(key) PROVE Types'
  BY <1>1 DEF Press
<1>2. ASSUME NEW what \in Commands \cup {Nothing}, PointTo(what)
      PROVE  Types'
  BY <1>2 DEF PointTo
<1>3. CASE Sample
  BY <1>3 DEF Sample, Codec
<1>4. CASE pushbutton_ISR
  <2> HIDE DEF TypeOK
  <2>1. control \in Register
    BY DEF TypeOK, Register
  <2>2. control' \in Register
    BY <1>4, <2>1, RegisterTypes DEF pushbutton_ISR, ClearFifos
  <2>3. buf_index_record' \in {0, buf_index_record}
    BY <1>4 DEF pushbutton_ISR, ClearFifos
  <2>4. buf_index_play' \in {0, buf_index_play}
    BY <1>4 DEF pushbutton_ISR, ClearFifos
  <2>5. rfifo' \in {0, rfifo} /\ wfifo' \in {0, wfifo}
    BY <1>4 DEF pushbutton_ISR, ClearFifos
  <2>6. UNCHANGED <<ctrl_reg, eq, rect_th, command, pointed>>
    BY <1>4 DEF pushbutton_ISR
  <2> QED  BY <2>2, <2>3, <2>4, <2>5, <2>6 DEF TypeOK, Register
<1>5. CASE audio_ISR
  BY <1>5, IsrTypes, IsrParts
<1>6. CASE Loop
  BY <1>6 DEF Loop
<1>7. CASE Redraw
  BY <1>7 DEF Redraw
<1>8. CASE Progress
  BY <1>8 DEF Progress
<1>9. CASE Bar
  BY <1>9 DEF Bar
<1>10. CASE Check
  BY <1>10 DEF Check
<1>11. CASE ResetIndex
  BY <1>11 DEF ResetIndex
<1>12. CASE \/ ReadControl("read_reset", "set_reset")
            \/ ReadControl("read_enable", "enable")
  BY <1>12 DEF ReadControl
<1>13. CASE SetReset
  BY <1>13 DEF SetReset, ClearFifos
<1>14. CASE ClearReset
  BY <1>14 DEF ClearReset, WriteControl
<1>15. CASE Enable
  BY <1>15 DEF Enable, WriteControl
<1>16. CASE SetDenoise
  BY <1>16 DEF SetDenoise
<1>17. CASE EraseBars
  BY <1>17 DEF EraseBars, Commands
<1>18. CASE UNCHANGED vars
  BY <1>18 DEF vars
<1> QED
  BY <1>1, <1>2, <1>3, <1>4, <1>5, <1>6, <1>7, <1>8, <1>9, <1>10, <1>11,
     <1>12, <1>13, <1>14, <1>15, <1>16, <1>17, <1>18 DEF Next, Main

-----------------------------------------------------------------------------
(***************************************************************************)
(* The patient user's steps.                                               *)
(***************************************************************************)
Patiently == Armed /\ Polite /\ Prompt

LEMMA PressPatiently ==
    ASSUME Patient, Types, Patiently, NEW key \in {KEY1, KEY2}, Press(key)
    PROVE  Patiently'
<1>1. edge' = {key} /\ AtRest
  BY DEF Press, AtRest
<1>2. UNCHANGED <<control, rfifo, wfifo, buf_index_record, buf_index_play,
                  flag_is_playing, command, pc, ctrl_reg, pointed, late,
                  owed>>
  BY DEF Press, coreVars, mainVars
<1>3. Armed'
  BY <1>2 DEF Patiently, Armed
<1>4. Polite'
  BY <1>1, <1>2 DEF Patiently, Polite, AtRest, Setting, Started
<1>5. Prompt'
  BY <1>2 DEF Patiently, Prompt, Waiting
<1> QED  BY <1>3, <1>4, <1>5 DEF Patiently

LEMMA PointPatiently ==
    ASSUME Patient, Types, Patiently, NEW what \in Commands \cup {Nothing},
           PointTo(what)
    PROVE  Patiently'
<1>1. what # Nothing => AtRest
  BY DEF PointTo
<1>2. UNCHANGED <<control, rfifo, wfifo, buf_index_record, buf_index_play,
                  flag_is_playing, command, pc, ctrl_reg, edge, late, owed>>
  BY DEF PointTo, coreVars, mainVars
<1>3. pointed' = what
  BY DEF PointTo
<1>4. Armed'
  BY <1>2 DEF Patiently, Armed
<1>5. Polite'
  BY <1>1, <1>2, <1>3
  DEF Patiently, Polite, AtRest, Setting, Started, Nothing, Commands
<1>6. Prompt'
  BY <1>2 DEF Patiently, Prompt, Waiting
<1> QED  BY <1>4, <1>5, <1>6 DEF Patiently

(***************************************************************************)
(* While a recording is started again, nothing but its own FIFO interrupts *)
(* main.                                                                   *)
(***************************************************************************)
LEMMA OnlyReading ==
    ASSUME Types, Patiently, pc \in Started, Pending, command = 0
    PROVE  edge = {} /\ rfifo >= BUF_THRESHOLD
<1>1. edge = {}
  BY DEF Patiently, Polite, Started
<1>2. ~write_interrupt_pending
  BY DEF Patiently, Polite, Armed, Setting, write_interrupt_pending
<1> QED  BY <1>1, <1>2 DEF Pending, read_interrupt_pending

(***************************************************************************)
(* Of a unit that arrives, the clock of the round or the FIFO takes note.  *)
(***************************************************************************)
LEMMA SamplePatiently ==
    ASSUME Patient, Types, Patiently, Sample
    PROVE  Patiently'
<1>1. UNCHANGED <<control, buf_index_record, buf_index_play,
                  flag_is_playing, command, pc, ctrl_reg, edge, pointed,
                  owed>>
  BY DEF Sample, Codec, mainVars
<1>2. /\ rfifo' = IF rfifo < Depth THEN rfifo + 1 ELSE rfifo
      /\ wfifo' = IF wfifo > 0 THEN wfifo - 1 ELSE 0
  BY DEF Sample, Codec
<1>3. /\ late' = IF Pending THEN late ELSE late + 1
      /\ late < MaxLate \/ Pending
  BY DEF Sample
<1>4. rfifo \in 0 .. Depth /\ wfifo \in 0 .. Depth /\ late \in 0 .. MaxLate
  BY DEF Types, TypeOK, Patiently, Prompt
<1>5. Armed'
  BY <1>1, <1>2, <1>4 DEF Patiently, Armed
<1>6. Polite'
  BY <1>1 DEF Patiently, Polite
<1>7. late' \in 0 .. MaxLate
  BY <1>3, <1>4, Constants
<1>8. ASSUME pc \in Started, command = 0
      PROVE  BUF_THRESHOLD * buf_index_record + Depth * Waiting'
                <= Depth * (BUF_THRESHOLD + late')
  <2> USE Constants
  <2>1. Waiting' \in Nat /\ Waiting \in Nat
    BY <1>2, <1>4 DEF Waiting
  <2>2. \/ Waiting' = Waiting
        \/ Waiting' = Waiting + 1 /\ ~Pending
    BY <1>2, <1>4, <1>8, OnlyReading DEF Waiting
  <2>3. BUF_THRESHOLD * buf_index_record + Depth * Waiting
           <= Depth * (BUF_THRESHOLD + late)
    BY <1>8 DEF Patiently, Prompt
  <2>4. /\ buf_index_record \in Nat
        /\ BUF_THRESHOLD * buf_index_record \in Nat
        /\ Depth * Waiting \in Nat
        /\ Depth * (Waiting + 1) = Depth * Waiting + Depth
        /\ Depth * (BUF_THRESHOLD + late) \in Nat
        /\ Depth * (BUF_THRESHOLD + (late + 1))
              = Depth * (BUF_THRESHOLD + late) + Depth
    BY <1>4, <2>1 DEF Types, TypeOK
  <2>5. CASE Pending
    BY <1>3, <2>2, <2>3, <2>5
  <2>6. CASE ~Pending
    BY <1>3, <2>2, <2>3, <2>4, <2>6
  <2> QED  BY <2>5, <2>6
<1>9. Prompt'
  <2>1. /\ pc \in Stale => ctrl_reg = control
        /\ pc \in Started /\ command # 0 => buf_index_play < BUF_SIZE
    BY DEF Patiently, Prompt
  <2>2. pc \in Cleared /\ command # 0 => wfifo' = 0
    BY <1>2 DEF Patiently, Prompt
  <2> QED  BY <1>1, <1>7, <1>8, <2>1, <2>2 DEF Prompt
<1> QED  BY <1>5, <1>6, <1>9 DEF Patiently

-----------------------------------------------------------------------------
(***************************************************************************)
(* A key starts what it is for, with nothing else owed.                    *)
(***************************************************************************)
LEMMA KeyPatiently ==
    ASSUME Patient, Types, Patiently, pushbutton_ISR
    PROVE  Patiently'
<1>1. /\ edge \in {{KEY1}, {KEY2}} /\ edge' = {} /\ owed = {}
      /\ pointed = Nothing /\ pc \in {"loop", "check"}
  BY DEF pushbutton_ISR, Patiently, Polite
<1>2. UNCHANGED <<flag_is_playing, command, pc, ctrl_reg, pointed, late>>
  BY DEF pushbutton_ISR, mainVars
<1>3. control \in Register /\ ~control.RE /\ ~control.WE
  BY <1>1 DEF Types, TypeOK, Register, Patiently, Armed
<1>4. {KEY1} # {KEY2}
  BY DEF KEY1, KEY2
<1>5. CASE edge = {KEY1}
  <2>1. /\ buf_index_record' = 0 /\ owed' = {"record"} /\ wfifo' = 0
        /\ control' = [control EXCEPT !.RE = TRUE]
    BY <1>1, <1>4, <1>5 DEF pushbutton_ISR, ClearFifos
  <2>2. control'.RE /\ ~control'.WE
    BY <1>3, <2>1 DEF Register
  <2> QED
    BY <1>1, <1>2, <2>1, <2>2, Constants
    DEF Patiently, Armed, Polite, Prompt, Setting, Started, Stale, Cleared,
        Nothing
<1>6. CASE edge = {KEY2}
  <2>1. /\ buf_index_play' = 0 /\ owed' = {"play"} /\ wfifo' = 0
        /\ control' = [control EXCEPT !.WE = TRUE]
    BY <1>1, <1>4, <1>6 DEF pushbutton_ISR, ClearFifos
  <2>2. control'.WE /\ ~control'.RE
    BY <1>3, <2>1 DEF Register
  <2> QED
    BY <1>1, <1>2, <2>1, <2>2, Constants
    DEF Patiently, Armed, Polite, Prompt, Setting, Started, Stale, Cleared,
        Nothing
<1> QED  BY <1>1, <1>5, <1>6

(***************************************************************************)
(* A recording that is started again cannot be finished by what arrives    *)
(* until main has enabled it: this is where the round has to be short.     *)
(***************************************************************************)
LEMMA NotFinished ==
    ASSUME Types, Patiently, pc \in Started, command = 0,
           rfifo > BUF_THRESHOLD
    PROVE  /\ buf_index_record + Depth < BUF_SIZE
           /\ BUF_THRESHOLD * (buf_index_record + rfifo)
                 <= Depth * (BUF_THRESHOLD + late)
<1> USE Constants
<1>1. /\ buf_index_record \in Nat /\ rfifo \in 0 .. Depth
      /\ late \in 0 .. MaxLate
  BY DEF Types, TypeOK, Patiently, Prompt
<1>2. BUF_THRESHOLD * buf_index_record + Depth * BUF_THRESHOLD
         <= Depth * (BUF_THRESHOLD + late)
  BY <1>1 DEF Patiently, Prompt, Waiting
<1>3. Depth * (BUF_THRESHOLD + late) <= Depth * (BUF_THRESHOLD + MaxLate)
  BY <1>1
<1>4. BUF_THRESHOLD * (buf_index_record + Depth)
         = BUF_THRESHOLD * buf_index_record + Depth * BUF_THRESHOLD
  BY <1>1
<1>5. BUF_THRESHOLD * (buf_index_record + Depth) < BUF_THRESHOLD * BUF_SIZE
  <2>1. /\ Depth * (BUF_THRESHOLD + MaxLate) < BUF_SIZE * BUF_THRESHOLD
        /\ BUF_SIZE * BUF_THRESHOLD = BUF_THRESHOLD * BUF_SIZE
    BY RoundAssumption
  <2>2. /\ Depth * (BUF_THRESHOLD + late) \in Nat
        /\ Depth * (BUF_THRESHOLD + MaxLate) \in Nat
        /\ BUF_THRESHOLD * BUF_SIZE \in Nat
        /\ BUF_THRESHOLD * (buf_index_record + Depth) \in Nat
    BY <1>1
  <2> QED  BY <1>2, <1>3, <1>4, <2>1, <2>2
<1>6. buf_index_record + Depth < BUF_SIZE
  <2>1. buf_index_record + Depth >= BUF_SIZE =>
           BUF_THRESHOLD * (buf_index_record + Depth)
              >= BUF_THRESHOLD * BUF_SIZE
    BY <1>1
  <2> QED  BY <1>1, <1>5, <2>1
<1>7. BUF_THRESHOLD * (buf_index_record + rfifo)
         <= BUF_THRESHOLD * (buf_index_record + Depth)
  BY <1>1
<1> QED  BY <1>1, <1>2, <1>4, <1>6, <1>7

(***************************************************************************)
(* audio_ISR disables what it has finished, and never while main holds a   *)
(* copy of the register.                                                   *)
(***************************************************************************)
LEMMA IsrQuiet ==
    ASSUME Types, Patiently, audio_ISR, pc \in Started
    PROVE  /\ ~recorded /\ ~played /\ num_written = 0
           /\ num_read \in {0, rfifo}
           /\ num_read # 0 => rfifo > BUF_THRESHOLD
<1>1. ~control.WE /\ (command # 0 => ~control.RE)
  BY DEF Patiently, Polite, Armed, Setting
<1>2. ~playing
  BY <1>1 DEF playing, write_interrupt_pending
<1>3. num_written = 0 /\ ~played
  BY <1>2 DEF num_written, played
<1>4. CASE command # 0 \/ ~recording
  <2>1. ~recording
    BY <1>1, <1>4 DEF recording, read_interrupt_pending
  <2> QED  BY <1>3, <2>1 DEF num_read, recorded
<1>5. CASE command = 0 /\ recording
  <2> DEFINE len == BUF_SIZE - buf_index_record
  <2>1. len \in Nat /\ rfifo \in 0 .. Depth /\ buf_index_record \in Nat
    BY Constants DEF Types, TypeOK
  <2>2. num_read = record_r(len)
    BY <1>5 DEF num_read
  <2>3. /\ record_r(len) # 0 => rfifo > BUF_THRESHOLD
        /\ record_r(len) \in {0, len, rfifo} /\ record_r(len) \in 0 .. rfifo
    BY <2>1, RecordMoves DEF Types
  <2>4. record_r(len) # 0 => buf_index_record + Depth < BUF_SIZE
    BY <1>5, <2>3, NotFinished
  <2>5. num_read \in {0, rfifo}
    BY <2>1, <2>2, <2>3, <2>4, Constants
  <2>6. buf_index_record + num_read # BUF_SIZE
    <3>1. buf_index_record < BUF_SIZE
      BY <1>5 DEF recording
    <3> QED  BY <2>1, <2>2, <2>4, <2>5, <3>1, Constants
  <2> QED  BY <1>3, <2>2, <2>3, <2>5, <2>6 DEF recorded
<1> QED  BY <1>4, <1>5

LEMMA IsrPatiently ==
    ASSUME Patient, Types, Patiently, audio_ISR
    PROVE  Patiently'
<1>1. /\ buf_index_record' = buf_index_record + num_read
      /\ rfifo' = rfifo - num_read
      /\ buf_index_play' = buf_index_play + num_written
      /\ wfifo' = wfifo + num_written
      /\ flag_is_playing' = IF playing THEN ~played ELSE flag_is_playing
  BY IsrParts DEF Record, Play
<1>2. UNCHANGED <<command, pc, ctrl_reg, edge, pointed, late>> /\ edge = {}
  BY IsrParts DEF mainVars
<1>3. /\ buf_index_record \in 0 .. BUF_SIZE /\ rfifo \in 0 .. Depth
      /\ buf_index_play \in 0 .. BUF_SIZE /\ wfifo \in 0 .. Depth
      /\ late \in 0 .. MaxLate /\ control \in Register
  BY DEF Types, TypeOK, Register, Patiently, Prompt
<1>4. /\ control'.RE <=> control.RE /\ ~recorded
      /\ control'.WE <=> control.WE /\ ~played
      /\ ~recorded /\ ~played => control' = control
  <2>1. control' = [RE |-> control.RE /\ ~recorded,
                    WE |-> control.WE /\ ~played]
    BY IsrParts, Zenon DEF Disable
  <2>2. control.RE \in BOOLEAN /\ control.WE \in BOOLEAN
    BY <1>3, RegisterTypes
  <2>3. control = [RE |-> control.RE, WE |-> control.WE]
    BY <1>3 DEF Register
  <2> QED  BY <2>1, <2>2, <2>3, RegisterBits, Zenon
<1>5. /\ "record" \in owed' <=> "record" \in owed /\ ~recorded
      /\ "play" \in owed' <=> "play" \in owed /\ ~played
      /\ owed' \in {{}, {"record"}, {"play"}}
  BY IsrParts DEF Patiently, Armed
<1>6. Armed'
  <2>1. "record" \in owed' => buf_index_record' < BUF_SIZE
    <3> SUFFICES ASSUME "record" \in owed' PROVE buf_index_record' < BUF_SIZE
      OBVIOUS
    <3>1. buf_index_record < BUF_SIZE /\ ~recorded
      BY <1>5 DEF Patiently, Armed
    <3>2. CASE recording
      BY <1>1, <1>3, <3>1, <3>2, IsrMoves, Constants DEF recorded, Types
    <3>3. CASE ~recording
      BY <1>1, <1>3, <3>1, <3>3 DEF num_read
    <3> QED  BY <3>2, <3>3
  <2>2. "play" \in owed' => /\ buf_index_play' < BUF_SIZE
                            /\ flag_is_playing' \/ wfifo' = 0
    <3> SUFFICES ASSUME "play" \in owed'
                 PROVE  /\ buf_index_play' < BUF_SIZE
                        /\ flag_is_playing' \/ wfifo' = 0
      OBVIOUS
    <3>1. /\ buf_index_play < BUF_SIZE /\ ~played
          /\ flag_is_playing \/ wfifo = 0
      BY <1>5 DEF Patiently, Armed
    <3>2. CASE playing
      <4>1. buf_index_play' < BUF_SIZE
        BY <1>1, <3>1, <3>2, IsrMoves, Constants DEF played, Types
      <4>2. flag_is_playing'
        BY <1>1, <3>1, <3>2, Zenon
      <4> QED  BY <4>1, <4>2
    <3>3. CASE ~playing
      BY <1>1, <1>3, <3>1, <3>3 DEF num_written
    <3> QED  BY <3>2, <3>3
  <2> QED  BY <1>4, <1>5, <2>1, <2>2 DEF Patiently, Armed
<1>7. Polite'
  BY <1>2, <1>5 DEF Patiently, Polite
<1>8. ASSUME pc \in Started
      PROVE  /\ control' = control /\ wfifo' = wfifo
             /\ buf_index_play' = buf_index_play
  <2>1. ~recorded /\ ~played /\ num_written = 0
    BY <1>8, IsrQuiet
  <2>2. control' = control
    BY <1>4, <2>1
  <2> QED  BY <1>1, <1>3, <2>1, <2>2
<1>9. ASSUME pc \in Started, command = 0
      PROVE  BUF_THRESHOLD * buf_index_record' + Depth * Waiting'
                <= Depth * (BUF_THRESHOLD + late)
  <2>1. CASE num_read = 0
    <3>1. buf_index_record' = buf_index_record /\ rfifo' = rfifo
      BY <1>1, <1>3, <2>1
    <3> QED  BY <1>9, <3>1 DEF Patiently, Prompt, Waiting
  <2>2. CASE num_read # 0
    <3>1. rfifo > BUF_THRESHOLD /\ num_read = rfifo
      BY <1>9, <2>2, IsrQuiet
    <3>2. rfifo' = 0 /\ buf_index_record' = buf_index_record + rfifo
      BY <1>1, <1>3, <3>1
    <3>3. Waiting' = 0 /\ Depth * 0 = 0
      BY <3>2, Constants DEF Waiting
    <3>4. BUF_THRESHOLD * (buf_index_record + rfifo)
             <= Depth * (BUF_THRESHOLD + late)
      BY <1>9, <3>1, NotFinished
    <3>5. BUF_THRESHOLD * (buf_index_record + rfifo) \in Nat
      BY <1>3, Constants
    <3> QED  BY <3>2, <3>3, <3>4, <3>5
  <2> QED  BY <2>1, <2>2
<1>10. Stale \subseteq Started /\ Cleared \subseteq Started
  BY DEF Stale, Cleared, Started
<1>11. Prompt'
  <2>1. /\ pc \in Stale => ctrl_reg = control'
        /\ pc \in Cleared /\ command # 0 => wfifo' = 0
        /\ pc \in Started /\ command # 0 => buf_index_play' < BUF_SIZE
    BY <1>8, <1>10 DEF Patiently, Prompt
  <2> QED  BY <1>2, <1>3, <1>9, <2>1 DEF Prompt
<1> QED  BY <1>6, <1>7, <1>11 DEF Patiently

-----------------------------------------------------------------------------
(***************************************************************************)
(* Main away from run_command changes nothing of what the handlers use.    *)
(***************************************************************************)
Outside == \/ Loop \/ Redraw \/ Progress \/ Bar \/ SetDenoise \/ EraseBars
           \/ Check /\ pc' = "last"

LEMMA OutsidePatiently ==
    ASSUME Patient, Types, Patiently, Outside
    PROVE  Patiently'
<1>1. /\ UNCHANGED <<control, rfifo, wfifo, buf_index_record, buf_index_play,
                     flag_is_playing, edge, pointed, owed>>
      /\ edge = {} /\ late' \in {0, late}
      /\ pc' \in {"loop", "redraw", "progress", "bar", "check", "last"}
  BY DEF Outside, Loop, Redraw, Progress, Bar, SetDenoise, EraseBars, Check,
         Goto, Pending, coreVars, isrVars
<1>2. Armed'
  BY <1>1 DEF Patiently, Armed
<1>3. Polite'
  BY <1>1 DEF Patiently, Polite, Setting, Started
<1>4. late' \in 0 .. MaxLate
  BY <1>1, Constants DEF Patiently, Prompt
<1>5. pc' \notin Started /\ pc' \notin Stale /\ pc' \notin Cleared
  BY <1>1 DEF Started, Stale, Cleared
<1>6. Prompt'
  BY <1>4, <1>5 DEF Prompt
<1> QED  BY <1>2, <1>3, <1>6 DEF Patiently

(***************************************************************************)
(* A command is taken up only when nothing plays: with a playback owed and *)
(* nothing played yet the FIFO is empty, and its interrupt comes first.    *)
(***************************************************************************)
LEMMA CheckPatiently ==
    ASSUME Patient, Types, Patiently, Check, pc' = "index"
    PROVE  Patiently'
<1>1. UNCHANGED <<control, rfifo, wfifo, buf_index_record, buf_index_play,
                  flag_is_playing, edge, pointed, owed, late>>
  BY DEF Check, Goto, coreVars, isrVars
<1>2. ~Pending /\ edge = {}
  BY DEF Check, Goto, Pending
<1>3. ~flag_is_playing /\ pointed \in Commands
  BY DEF Check, Goto
<1>4. command' = pointed
  BY <1>3 DEF Check
<1>5. "play" \notin owed
  <2> SUFFICES ASSUME "play" \in owed PROVE FALSE
    OBVIOUS
  <2>1. control.WE /\ wfifo = 0
    BY <1>3 DEF Patiently, Armed
  <2>2. write_interrupt_pending
    BY <2>1, Constants DEF write_interrupt_pending
  <2> QED  BY <1>2, <2>2 DEF Pending
<1>6. "record" \in owed => pointed = 0
  BY <1>3 DEF Patiently, Polite, Commands, Nothing
<1>7. Armed'
  BY <1>1 DEF Patiently, Armed
<1>8. Polite'
  BY <1>1, <1>2, <1>3, <1>4, <1>5, <1>6 DEF Patiently, Polite
<1>9. Prompt'
  BY <1>1 DEF Patiently, Prompt, Started, Stale, Cleared
<1> QED  BY <1>7, <1>8, <1>9 DEF Patiently

(***************************************************************************)
(* The index is reset: from here on the recording fills again.             *)
(***************************************************************************)
LEMMA ResetIndexPatiently ==
    ASSUME Patient, Types, Patiently, ResetIndex
    PROVE  Patiently'
<1>1. UNCHANGED <<control, rfifo, wfifo, flag_is_playing, edge, pointed, owed,
                  late, command>>
  BY DEF ResetIndex, Goto, coreVars
<1>2. /\ pc = "index" /\ pc' = "read_reset" /\ edge = {}
      /\ buf_index_record' = IF command = 0 THEN 0 ELSE buf_index_record
      /\ buf_index_play' = IF command = 0 THEN buf_index_play ELSE 0
  BY DEF ResetIndex, Goto, Pending
<1>3. /\ command \in Commands /\ pointed \in {Nothing, command}
      /\ "play" \notin owed /\ ("record" \in owed => command = 0)
  BY <1>2 DEF Patiently, Polite, Setting
<1>4. Armed'
  <2>1. "record" \in owed => buf_index_record' < BUF_SIZE
    BY <1>2, <1>3, Constants
  <2> QED  BY <1>1, <1>3, <2>1 DEF Patiently, Armed
<1>5. Polite'
  BY <1>1, <1>2, <1>3 DEF Patiently, Polite, Setting
<1>6. ASSUME command = 0
      PROVE  BUF_THRESHOLD * buf_index_record' + Depth * Waiting'
                <= Depth * (BUF_THRESHOLD + late)
  <2>1. late \in Nat /\ rfifo \in Nat
    BY Constants DEF Patiently, Prompt, Types, TypeOK
  <2>2. Waiting' \in Nat /\ Waiting' <= BUF_THRESHOLD
    BY <1>1, <2>1, Constants DEF Waiting
  <2>3. BUF_THRESHOLD * buf_index_record' = 0
    BY <1>2, <1>6, Constants
  <2>4. /\ Depth * Waiting' \in Nat
        /\ Depth * Waiting' <= Depth * (BUF_THRESHOLD + late)
    <3>1. \A low, high \in Nat : low <= high => Depth * low <= Depth * high
      BY Constants
    <3> HIDE DEF Waiting
    <3>2. BUF_THRESHOLD + late \in Nat /\ Waiting' <= BUF_THRESHOLD + late
      BY <2>1, <2>2, Constants
    <3>3. Depth * Waiting' <= Depth * (BUF_THRESHOLD + late)
      BY <2>2, <3>1, <3>2, Zenon
    <3>4. \A low \in Nat : Depth * low \in Nat
      BY Constants
    <3> QED  BY <2>2, <3>3, <3>4, Zenon
  <2>5. Depth * (BUF_THRESHOLD + late) \in Nat
    BY <2>1, Constants
  <2> QED  BY <2>3, <2>4, <2>5
<1>7. Prompt'
  <2>1. pc' \notin Stale /\ pc' \notin Cleared
    BY <1>2 DEF Stale, Cleared
  <2>2. command # 0 => buf_index_play' < BUF_SIZE
    BY <1>2, Constants
  <2>3. late \in 0 .. MaxLate
    BY DEF Patiently, Prompt
  <2> QED  BY <1>1, <1>6, <2>1, <2>2, <2>3 DEF Prompt
<1> QED  BY <1>4, <1>5, <1>7 DEF Patiently

(***************************************************************************)
(* Reading the register and writing the copy back change nothing of it.    *)
(***************************************************************************)
LEMMA ReadControlPatiently ==
    ASSUME Patient, Types, Patiently,
           \/ ReadControl("read_reset", "set_reset")
           \/ ReadControl("read_enable", "enable")
    PROVE  Patiently'
<1>1. UNCHANGED <<control, rfifo, wfifo, buf_index_record, buf_index_play,
                  flag_is_playing, edge, pointed, owed, late, command>>
  BY DEF ReadControl, Goto, coreVars, isrVars
<1>2. /\ pc \in {"read_reset", "read_enable"} /\ pc' \in {"set_reset", "enable"}
      /\ (pc' = "enable" => pc = "read_enable") /\ ctrl_reg' = control
      /\ edge = {}
  BY DEF ReadControl, Goto, Pending
<1>3. Armed'
  BY <1>1 DEF Patiently, Armed
<1>4. Polite'
  BY <1>1, <1>2 DEF Patiently, Polite, Setting, Started
<1>5. Prompt'
  BY <1>1, <1>2 DEF Patiently, Prompt, Started, Stale, Cleared, Waiting
<1> QED  BY <1>3, <1>4, <1>5 DEF Patiently

LEMMA SetResetPatiently ==
    ASSUME Patient, Types, Patiently, SetReset
    PROVE  Patiently'
<1>1. UNCHANGED <<buf_index_record, buf_index_play, flag_is_playing, edge,
                  pointed, owed, late, command, ctrl_reg>>
  BY DEF SetReset, Goto, isrVars
<1>2. /\ pc = "set_reset" /\ pc' = "clear_reset" /\ edge = {}
      /\ control' = ctrl_reg /\ rfifo' = 0 /\ wfifo' = 0
  BY DEF SetReset, Goto, Pending, ClearFifos
<1>3. control' = control
  BY <1>2 DEF Patiently, Prompt, Stale
<1>4. Armed'
  BY <1>1, <1>2, <1>3 DEF Patiently, Armed
<1>5. Polite'
  BY <1>1, <1>2 DEF Patiently, Polite, Setting, Started
<1>6. ASSUME command = 0
      PROVE  BUF_THRESHOLD * buf_index_record + Depth * Waiting'
                <= Depth * (BUF_THRESHOLD + late)
  <2> USE Constants
  <2>1. late \in Nat /\ rfifo \in Nat /\ buf_index_record \in Nat
    BY DEF Patiently, Prompt, Types, TypeOK
  <2>2. BUF_THRESHOLD * buf_index_record + Depth * Waiting
           <= Depth * (BUF_THRESHOLD + late)
    BY <1>2, <1>6 DEF Patiently, Prompt, Started
  <2>3. Waiting' = 0 /\ Waiting \in Nat
    BY <1>2, <2>1 DEF Waiting
  <2>4. Depth * Waiting' = 0 /\ Depth * Waiting \in Nat
    BY <2>3
  <2>5. /\ BUF_THRESHOLD * buf_index_record \in Nat
        /\ Depth * (BUF_THRESHOLD + late) \in Nat
    BY <2>1
  <2> QED  BY <2>2, <2>4, <2>5
<1>7. Prompt'
  <2>1. /\ command # 0 => buf_index_play < BUF_SIZE
        /\ late \in 0 .. MaxLate
    BY <1>2 DEF Patiently, Prompt, Started
  <2> QED  BY <1>1, <1>2, <1>6, <2>1 DEF Prompt
<1> QED  BY <1>4, <1>5, <1>7 DEF Patiently

LEMMA ClearResetPatiently ==
    ASSUME Patient, Types, Patiently, ClearReset
    PROVE  Patiently'
<1>1. UNCHANGED <<rfifo, wfifo, buf_index_record, buf_index_play,
                  flag_is_playing, edge, pointed, owed, late, command>>
  BY DEF ClearReset, Goto, isrVars, WriteControl
<1>2. /\ pc = "clear_reset" /\ pc' = "read_enable" /\ edge = {}
      /\ control' = ctrl_reg
  BY DEF ClearReset, Goto, Pending, WriteControl
<1>3. control' = control
  BY <1>2 DEF Patiently, Prompt, Stale
<1>4. Armed'
  BY <1>1, <1>3 DEF Patiently, Armed
<1>5. Polite'
  BY <1>1, <1>2 DEF Patiently, Polite, Setting, Started
<1>6. Prompt'
  BY <1>1, <1>2 DEF Patiently, Prompt, Started, Stale, Cleared, Waiting
<1> QED  BY <1>4, <1>5, <1>6 DEF Patiently

(***************************************************************************)
(* The enable function: the index is still in the buffer.                  *)
(***************************************************************************)
LEMMA EnablePatiently ==
    ASSUME Patient, Types, Patiently, Enable
    PROVE  Patiently'
<1>1. UNCHANGED <<rfifo, wfifo, buf_index_record, buf_index_play,
                  flag_is_playing, edge, pointed, late, command>>
  BY DEF Enable, Goto, isrVars, WriteControl
<1>2. /\ pc = "enable" /\ pc' \in {"last", "denoise"} /\ edge = {}
      /\ owed' = owed \cup {IF command = 0 THEN "record" ELSE "play"}
  BY DEF Enable, Goto, Pending
<1>3. /\ command \in Commands /\ pointed \in {Nothing, command}
      /\ "play" \notin owed /\ ("record" \in owed => command = 0)
      /\ owed \in {{}, {"record"}}
  BY <1>2 DEF Patiently, Polite, Armed, Setting, Started
<1>4. /\ ctrl_reg = control /\ (command # 0 => wfifo = 0)
      /\ (command # 0 => buf_index_play < BUF_SIZE)
      /\ late \in 0 .. MaxLate
  BY <1>2 DEF Patiently, Prompt, Stale, Cleared, Started
<1>5. command = 0 => buf_index_record < BUF_SIZE
  <2> SUFFICES ASSUME command = 0 PROVE buf_index_record < BUF_SIZE
    OBVIOUS
  <2> USE Constants
  <2>1. late \in 0 .. MaxLate /\ rfifo \in Nat /\ buf_index_record \in Nat
    BY <1>4 DEF Types, TypeOK
  <2>2. BUF_THRESHOLD * buf_index_record + Depth * Waiting
           <= Depth * (BUF_THRESHOLD + late)
    BY <1>2 DEF Patiently, Prompt, Started
  <2>3. Waiting \in Nat
    BY <2>1 DEF Waiting
  <2>4. /\ Depth * Waiting \in Nat /\ BUF_THRESHOLD * buf_index_record \in Nat
        /\ Depth * (BUF_THRESHOLD + late) \in Nat
        /\ Depth * (BUF_THRESHOLD + MaxLate) \in Nat
        /\ BUF_THRESHOLD * BUF_SIZE \in Nat
    BY <2>1, <2>3
  <2>5. Depth * (BUF_THRESHOLD + late) <= Depth * (BUF_THRESHOLD + MaxLate)
    BY <2>1
  <2>6. Depth * (BUF_THRESHOLD + MaxLate) < BUF_THRESHOLD * BUF_SIZE
    <3>1. BUF_SIZE * BUF_THRESHOLD = BUF_THRESHOLD * BUF_SIZE
      OBVIOUS
    <3> QED  BY <3>1, RoundAssumption
  <2>7. BUF_THRESHOLD * buf_index_record < BUF_THRESHOLD * BUF_SIZE
    BY <2>2, <2>4, <2>5, <2>6
  <2>8. buf_index_record >= BUF_SIZE =>
           BUF_THRESHOLD * buf_index_record >= BUF_THRESHOLD * BUF_SIZE
    BY <2>1
  <2> QED  BY <2>1, <2>4, <2>7, <2>8
<1>6. /\ control'.RE <=> control.RE \/ command = 0
      /\ control'.WE <=> control.WE \/ command # 0
  <2>1. control' = [RE |-> control.RE \/ command = 0,
                    WE |-> control.WE \/ command # 0]
    BY <1>4, Zenon DEF Enable, WriteControl
  <2> QED  BY <2>1, Zenon
<1>7. CASE command = 0
  <2>1. owed' = {"record"}
    BY <1>2, <1>3, <1>7
  <2>2. control'.RE /\ ~control'.WE
    BY <1>3, <1>6, <1>7 DEF Patiently, Armed
  <2>3. Armed'
    BY <1>1, <1>5, <1>7, <2>1, <2>2 DEF Armed
  <2>4. Polite'
    BY <1>1, <1>2, <1>3, <1>7, <2>1 DEF Polite, Setting, Started, Nothing
  <2> QED
    BY <1>1, <1>2, <1>4, <2>3, <2>4
    DEF Patiently, Prompt, Started, Stale, Cleared
<1>8. CASE command # 0
  <2>1. owed' = {"play"}
    BY <1>2, <1>3, <1>8
  <2>2. control'.WE /\ ~control'.RE
    BY <1>3, <1>6, <1>8 DEF Patiently, Armed
  <2>3. Armed'
    BY <1>1, <1>4, <1>8, <2>1, <2>2 DEF Armed
  <2>4. Polite'
    BY <1>1, <1>2, <1>3, <1>8, <2>1 DEF Polite, Setting, Started, Nothing
  <2> QED
    BY <1>1, <1>2, <1>4, <2>3, <2>4
    DEF Patiently, Prompt, Started, Stale, Cleared
<1> QED  BY <1>7, <1>8

-----------------------------------------------------------------------------
(***************************************************************************)
(* The invariant.                                                          *)
(***************************************************************************)
LEMMA InitIInv == Init => IInv
<1> SUFFICES ASSUME Init PROVE IInv
  OBVIOUS
<1>1. Types
  <2>1. eq \in {Chunk * k : k \in 0 .. N}
    BY MarkType DEF Init, Marks
  <2>2. control \in Register /\ ctrl_reg \in Register
    BY RegisterTypes DEF Init, CoreInit
  <2> QED
    BY <2>1, <2>2, Constants
    DEF Init, CoreInit, Types, TypeOK, Register, Commands
<1>2. ~control.RE /\ ~control.WE
  BY DEF Init, CoreInit
<1>3. Armed
  BY <1>2 DEF Init, CoreInit, Armed
<1>4. Polite
  BY DEF Init, Polite, Setting, Started
<1>5. Prompt
  BY Constants DEF Init, Prompt, Started, Stale, Cleared
<1> QED  BY <1>1, <1>3, <1>4, <1>5 DEF IInv

LEMMA PatientStep ==
    ASSUME Patient, Types, Patiently, [Next]_vars
    PROVE  Patiently'
<1>1. CASE \E key \in {KEY1, KEY2} : Press(key)
  BY <1>1, PressPatiently
<1>2. CASE \E what \in Commands \cup {Nothing} : PointTo(what)
  BY <1>2, PointPatiently
<1>3. CASE Check /\ pc' # "last"
  <2>1. pc' = "index"
    BY <1>3 DEF Check, Goto
  <2> QED  BY <1>3, <2>1, CheckPatiently
<1>4. CASE Main /\ ~(Check /\ pc' # "last")
  BY <1>4, OutsidePatiently, ResetIndexPatiently, ReadControlPatiently,
     SetResetPatiently, ClearResetPatiently, EnablePatiently
  DEF Main, Outside
<1>5. CASE UNCHANGED vars
  <2>1. UNCHANGED <<control, rfifo, wfifo, buf_index_record, buf_index_play,
                    flag_is_playing, edge, pointed, owed, late, command, pc,
                    ctrl_reg>>
    BY <1>5 DEF vars, coreVars, mainVars
  <2> QED
    BY <2>1 DEF Patiently, Armed, Polite, Prompt, Waiting
<1> QED
  BY <1>1, <1>2, <1>3, <1>4, <1>5, SamplePatiently, KeyPatiently,
     IsrPatiently
  DEF Next, Main

LEMMA StepIInv == IInv /\ [Next]_vars => IInv'
<1> SUFFICES ASSUME IInv, [Next]_vars PROVE IInv'
  OBVIOUS
<1>1. Types'
  BY TypeStep DEF IInv
<1>2. Patient => Patiently'
  BY PatientStep DEF IInv, Patiently
<1> QED  BY <1>1, <1>2 DEF IInv, Patiently

(***************************************************************************)
(* The types; with a patient user the register enables what is owed, and   *)
(* main's copy of it is true while main holds one.                         *)
(***************************************************************************)
THEOREM Invariant == Spec => []IInv
<1> QED  BY InitIInv, StepIInv, PTL DEF Spec

(***************************************************************************)
(* The indexes stay in their buffers and the FIFOs hold what they can,     *)
(* whatever the user does: the handlers move no more than there is room    *)
(* for, and main resets an index at any moment.                            *)
(***************************************************************************)
THEOREM TypeCorrect == Spec => []TypeOK
<1>1. IInv => TypeOK
  BY DEF IInv, Types
<1> QED  BY <1>1, Invariant, PTL

(***************************************************************************)
(* The handler begins no storm: what it fills or empties to the end, and   *)
(* nothing else that is enabled, is disabled.                              *)
(***************************************************************************)
LEMMA IsrNoStorm ==
    ASSUME TypeOK, NoStorm, audio_ISR
    PROVE  NoStorm'
<1>1. /\ control.RE \in BOOLEAN /\ control.WE \in BOOLEAN
      /\ control' = [RE |-> control.RE /\ ~recorded,
                     WE |-> control.WE /\ ~played]
  BY IsrParts DEF Disable, TypeOK
<1>2. /\ control.RE' <=> control.RE /\ ~recorded
      /\ control.WE' <=> control.WE /\ ~played
  BY <1>1, RegisterBits, Zenon
<1>3. /\ buf_index_record' = buf_index_record + num_read
      /\ buf_index_play' = buf_index_play + num_written
  BY IsrParts DEF Record, Play
<1>4. /\ buf_index_record \in 0 .. BUF_SIZE /\ buf_index_play \in 0 .. BUF_SIZE
      /\ buf_index_record + num_read \in 0 .. BUF_SIZE
      /\ buf_index_play + num_written \in 0 .. BUF_SIZE
  BY IsrMoves DEF TypeOK
<1>5. ASSUME control.RE' PROVE buf_index_record' < BUF_SIZE
  <2>1. control.RE /\ ~recorded /\ buf_index_record < BUF_SIZE
    BY <1>2, <1>5 DEF NoStorm
  <2>2. CASE recording
    <3>1. buf_index_record + num_read # BUF_SIZE
      BY <2>1, <2>2 DEF recorded
    <3> QED  BY <1>3, <1>4, <3>1, Constants
  <2>3. CASE ~recording
    <3>1. num_read = 0
      BY <2>3 DEF num_read
    <3> QED  BY <1>3, <1>4, <2>1, <3>1
  <2> QED  BY <2>2, <2>3
<1>6. ASSUME control.WE' PROVE buf_index_play' < BUF_SIZE
  <2>1. control.WE /\ ~played /\ buf_index_play < BUF_SIZE
    BY <1>2, <1>6 DEF NoStorm
  <2>2. CASE playing
    <3>1. buf_index_play + num_written # BUF_SIZE
      BY <2>1, <2>2 DEF played
    <3> QED  BY <1>3, <1>4, <3>1, Constants
  <2>3. CASE ~playing
    <3>1. num_written = 0
      BY <2>3 DEF num_written
    <3> QED  BY <1>3, <1>4, <2>1, <3>1
  <2> QED  BY <2>2, <2>3
<1> QED  BY <1>5, <1>6 DEF NoStorm

(***************************************************************************)
(* A key starts its buffer anew, with the interrupt that goes with it.     *)
(***************************************************************************)
LEMMA KeyNoStorm ==
    ASSUME TypeOK, NoStorm, pushbutton_ISR
    PROVE  NoStorm'
<1>1. control \in Register /\ 0 < BUF_SIZE
  BY Constants DEF TypeOK, Register
<1>2. /\ [control EXCEPT !.RE = TRUE].WE = control.WE
      /\ [control EXCEPT !.WE = TRUE].RE = control.RE
  BY <1>1 DEF Register
<1>3. \/ /\ control' = [control EXCEPT !.RE = TRUE]
         /\ buf_index_record' = 0 /\ buf_index_play' = buf_index_play
      \/ /\ control' = [control EXCEPT !.WE = TRUE]
         /\ buf_index_play' = 0 /\ buf_index_record' = buf_index_record
      \/ UNCHANGED <<control, buf_index_record, buf_index_play>>
  BY DEF pushbutton_ISR, ClearFifos, coreVars
<1> QED  BY <1>1, <1>2, <1>3 DEF NoStorm

(***************************************************************************)
(* For every user: a storm begins in one of main's three writes of the     *)
(* control register or not at all.                                         *)
(***************************************************************************)
THEOREM StormBegins == Spec => StormOnlyByMain
<1> DEFINE Writes == /\ pc \in {"set_reset", "clear_reset", "enable"}
                     /\ pc' # pc
<1>1. TypeOK /\ [Next]_vars => [NoStorm => NoStorm' \/ Writes]_vars
  <2> SUFFICES ASSUME TypeOK, Next, NoStorm PROVE NoStorm' \/ Writes
    OBVIOUS
  <2>1. CASE SetReset \/ ClearReset \/ Enable
    BY <2>1 DEF SetReset, ClearReset, Enable, Goto
  <2>2. CASE audio_ISR
    BY <2>2, IsrNoStorm
  <2>3. CASE pushbutton_ISR
    BY <2>3, KeyNoStorm
  <2>4. CASE ResetIndex
    <3>1. /\ control' = control
          /\ buf_index_record' \in {0, buf_index_record}
          /\ buf_index_play' \in {0, buf_index_play}
      BY <2>4 DEF ResetIndex, coreVars
    <3>2. 0 < BUF_SIZE
      BY Constants
    <3> QED  BY <3>1, <3>2 DEF NoStorm
  <2>5. CASE \/ \E key \in {KEY1, KEY2} : Press(key)
             \/ \E what \in Commands \cup {Nothing} : PointTo(what)
             \/ Sample \/ Loop \/ Redraw \/ Progress \/ Bar \/ Check
             \/ ReadControl("read_reset", "set_reset")
             \/ ReadControl("read_enable", "enable")
             \/ SetDenoise \/ EraseBars
    <3>1. UNCHANGED <<control, buf_index_record, buf_index_play>>
      BY <2>5
      DEF Press, PointTo, Sample, Codec, Loop, Redraw, Progress, Bar, Check,
          ReadControl, SetDenoise, EraseBars, coreVars, isrVars
    <3> QED  BY <3>1 DEF NoStorm
  <2> QED  BY <2>1, <2>2, <2>3, <2>4, <2>5 DEF Next, Main
<1> QED  BY <1>1, TypeCorrect, PTL DEF Spec, StormOnlyByMain

(***************************************************************************)
(* With a patient user what was started keeps its interrupt enabled until  *)
(* it is finished: no write of main's copy of the register loses it.       *)
(***************************************************************************)
THEOREM OwedIsArmed == Spec => [](Patient => RequestsArmed)
<1>1. IInv => (Patient => RequestsArmed)
  BY DEF IInv, Armed, RequestsArmed
<1> QED  BY <1>1, Invariant, PTL

-----------------------------------------------------------------------------
(***************************************************************************)
(* The progress display.  eq is the mark the playback passes next, and 0   *)
(* until it has begun.                                                     *)
(***************************************************************************)
Marked ==
    /\ "play" \notin owed => eq = 0
    /\ "play" \in owed /\ eq = 0 => buf_index_play = 0
    /\ "play" \in owed /\ eq # 0 => /\ eq - Chunk <= buf_index_play
                                    /\ buf_index_play < eq
    /\ pc \in Started /\ command # 0 => buf_index_play = 0

(***************************************************************************)
(* No bar is asked for when a playback or a recording begins, or may begin,*)
(* and a new recording is drawn before anything is played.                 *)
(***************************************************************************)
Resting == \/ "play" \in owed /\ eq = 0
           \/ "play" \notin owed /\ pointed # Nothing
           \/ "record" \in owed
           \/ edge # {}
           \/ pc \in Setting
           \/ new_record_flag

Fresh ==
    /\ Resting => ~flag_play
    /\ pc = "bar" => flag_play
    /\ pc = "redraw" => new_record_flag
    /\ new_record_flag => /\ "play" \notin owed
                          /\ edge = {}
                          /\ pointed \in {0, Nothing}
                          /\ pc \in Setting => command = 0

(***************************************************************************)
(* The user lets the button go before a playback ends.                     *)
(***************************************************************************)
Held == "play" \in owed /\ pointed # Nothing =>
            \/ buf_index_play <= Chunk
            \/ buf_index_play <= Chunk + Depth /\ wfifo = Depth

(***************************************************************************)
(* Since the last mark was passed no more was played than what came late   *)
(* in this round and, before the bar is drawn, in the round before it.     *)
(***************************************************************************)
Wanting == IF Depth - wfifo < BUF_THRESHOLD THEN Depth - wfifo
                                            ELSE BUF_THRESHOLD
Earlier == IF pc \in {"redraw", "progress", "bar"} THEN MaxLate ELSE 0

Pace == "play" \in owed /\ flag_play =>
            BUF_THRESHOLD * (buf_index_play - (eq - Chunk)) + Depth * Wanting
               <= Depth * (BUF_THRESHOLD + (late + Earlier))

(***************************************************************************)
(* As many bars are drawn or asked for as marks were passed; the last mark *)
(* is passed when eq is 0 again.                                           *)
(***************************************************************************)
Passed(k) == /\ eq = Chunk * k
             /\ ~flag_play => rect_th = k
             /\ flag_play => rect_th + 1 = k \/ (rect_th = N /\ k = 0)

Counted == ~new_record_flag => \E k \in 0 .. N : Passed(k)

InSync == Marked /\ Fresh /\ Held /\ Pace /\ Counted

-----------------------------------------------------------------------------
(***************************************************************************)
(* The number of a mark, and of the bar it stands for.                     *)
(***************************************************************************)
LEMMA Quotient ==
    ASSUME NEW m \in Nat, NEW k \in Nat, m > 0
    PROVE  (m * k) \div m = k
OBVIOUS

LEMMA Remainder ==
    ASSUME NEW m \in Nat, NEW k \in 0 .. m
    PROVE  k % (m + 1) = k /\ (m + 1) % (m + 1) = 0
OBVIOUS

(***************************************************************************)
(* The count, as the property puts it.                                     *)
(***************************************************************************)
LEMMA CountedIsInStep ==
    ASSUME Types, Counted
    PROVE  BarsInStep
<1> SUFFICES ASSUME ~new_record_flag
             PROVE  (rect_th + IF flag_play THEN 1 ELSE 0) % (N + 1)
                       = (eq \div Chunk) % (N + 1)
  BY DEF BarsInStep
<1>1. PICK k \in 0 .. N : Passed(k)
  BY DEF Counted
<1>2. eq \div Chunk = k /\ k % (N + 1) = k
  BY <1>1, Quotient, Remainder, Constants DEF Passed
<1>3. CASE ~flag_play
  BY <1>1, <1>2, <1>3, Constants DEF Passed
<1>4. CASE flag_play /\ rect_th + 1 = k
  BY <1>2, <1>4
<1>5. CASE flag_play /\ rect_th = N /\ k = 0
  BY <1>2, <1>5, Remainder, Constants
<1> QED  BY <1>1, <1>3, <1>4, <1>5 DEF Passed

-----------------------------------------------------------------------------
(***************************************************************************)
(* The user, who touches nothing while a bar is asked for.                 *)
(***************************************************************************)
LEMMA PressInSync ==
    ASSUME Patient, Types, Patiently, InSync, NEW key \in {KEY1, KEY2},
           Press(key)
    PROVE  InSync'
<1>1. AtRest
  BY DEF Press
<1>2. UNCHANGED <<wfifo, buf_index_play, eq, new_record_flag, flag_play,
                  rect_th, command, pc, pointed, late, owed>>
  BY DEF Press, coreVars, mainVars
<1>3. Marked' /\ Held' /\ Pace' /\ Counted'
  BY <1>2 DEF InSync, Marked, Held, Pace, Wanting, Earlier, Counted, Passed
<1>4. Fresh'
  BY <1>1, <1>2 DEF InSync, Fresh, AtRest, Setting, Started
<1> QED  BY <1>3, <1>4 DEF InSync

LEMMA PointInSync ==
    ASSUME Patient, Types, Patiently, InSync,
           NEW what \in Commands \cup {Nothing}, PointTo(what)
    PROVE  InSync'
<1>1. (what # Nothing => AtRest) /\ pointed' = what
  BY DEF PointTo
<1>2. UNCHANGED <<wfifo, buf_index_play, eq, new_record_flag, flag_play,
                  rect_th, command, pc, edge, late, owed>>
  BY DEF PointTo, coreVars, mainVars
<1>3. Marked' /\ Pace' /\ Counted'
  BY <1>2 DEF InSync, Marked, Pace, Wanting, Earlier, Counted, Passed
<1>4. Fresh' /\ Held'
  BY <1>1, <1>2 DEF InSync, Fresh, Resting, Held, AtRest, Setting, Started
<1> QED  BY <1>3, <1>4 DEF InSync

(***************************************************************************)
(* A unit that is played is owed by the FIFO, or came late.                *)
(***************************************************************************)
LEMMA SampleInSync ==
    ASSUME Patient, Types, Patiently, InSync, Sample
    PROVE  InSync'
<1>1. UNCHANGED <<buf_index_play, eq, new_record_flag, flag_play, rect_th,
                  command, pc, edge, pointed, owed>>
  BY DEF Sample, mainVars
<1>2. wfifo' = IF wfifo > 0 THEN wfifo - 1 ELSE 0
  BY DEF Sample, Codec
<1>3. late' = IF Pending THEN late ELSE late + 1
  BY DEF Sample
<1>4. wfifo \in 0 .. Depth /\ late \in 0 .. MaxLate
  BY DEF Types, TypeOK, Patiently, Prompt
<1>5. Marked' /\ Fresh' /\ Counted'
  BY <1>1 DEF InSync, Marked, Fresh, Resting, Counted, Passed
<1>6. Held'
  BY <1>1 DEF Sample, InSync, Held
<1>7. ASSUME "play" \in owed, flag_play
      PROVE  BUF_THRESHOLD * (buf_index_play - (eq - Chunk)) + Depth * Wanting'
                <= Depth * (BUF_THRESHOLD + (late' + Earlier))
  <2> USE Constants
  <2> DEFINE since == buf_index_play - (eq - Chunk)
  <2>1. Wanting' \in Nat /\ Wanting \in Nat
    BY <1>2, <1>4 DEF Wanting
  <2>2. Pending => Wanting' = Wanting
    <3>1. edge = {} /\ ~control.RE /\ control.WE
      BY <1>7 DEF Patiently, Armed, Polite, InSync, Fresh, Resting
    <3>2. Pending => Depth - wfifo >= BUF_THRESHOLD
      BY <3>1 DEF Pending, read_interrupt_pending, write_interrupt_pending
    <3> QED  BY <1>2, <1>4, <3>2 DEF Wanting
  <2>3. Wanting' \in {Wanting, Wanting + 1}
    BY <1>2, <1>4 DEF Wanting
  <2>4. BUF_THRESHOLD * since + Depth * Wanting
           <= Depth * (BUF_THRESHOLD + (late + Earlier))
    BY <1>7 DEF InSync, Pace
  <2>5. eq \in Nat /\ buf_index_play \in Nat
    BY MarksAreNumbers DEF Types, TypeOK, Marks
  <2>6. since \in Nat
    BY <1>7, <2>5 DEF InSync, Fresh, Resting, Marked
  <2>7. BUF_THRESHOLD * since \in Nat
    <3> HIDE DEF since
    <3> QED  BY <2>6
  <2>8. Earlier \in Nat
    BY DEF Earlier
  <2>9. /\ Depth * Wanting \in Nat
        /\ Depth * (Wanting + 1) = Depth * Wanting + Depth
        /\ Depth * (BUF_THRESHOLD + (late + Earlier)) \in Nat
        /\ Depth * (BUF_THRESHOLD + ((late + 1) + Earlier))
              = Depth * (BUF_THRESHOLD + (late + Earlier)) + Depth
    BY <1>4, <2>1, <2>8
  <2> HIDE DEF since
  <2>10. BUF_THRESHOLD * since + Depth * Wanting'
            <= Depth * (BUF_THRESHOLD + (late' + Earlier))
    <3>1. CASE Pending
      BY <1>3, <2>2, <2>4, <3>1
    <3>2. CASE ~Pending
      BY <1>3, <2>3, <2>4, <2>7, <2>9, <3>2
    <3> QED  BY <3>1, <3>2
  <2> QED  BY <2>10 DEF since
<1>8. Pace'
  BY <1>1, <1>7 DEF Pace, Earlier
<1> QED  BY <1>5, <1>6, <1>8 DEF InSync

(***************************************************************************)
(* A key finds the display at rest.                                        *)
(***************************************************************************)
LEMMA KeyInSync ==
    ASSUME Patient, Types, Patiently, InSync, pushbutton_ISR
    PROVE  InSync'
<1>1. /\ edge \in {{KEY1}, {KEY2}} /\ edge' = {} /\ owed = {}
      /\ pointed = Nothing /\ pc \in {"loop", "check"}
  BY DEF pushbutton_ISR, Patiently, Polite
<1>2. UNCHANGED <<eq, new_record_flag, flag_play, rect_th, command, pc,
                  pointed, late>>
  BY DEF pushbutton_ISR, mainVars
<1>3. eq = 0 /\ ~flag_play /\ ~new_record_flag
  BY <1>1 DEF InSync, Marked, Fresh, Resting
<1>4. {KEY1} # {KEY2}
  BY DEF KEY1, KEY2
<1>5. /\ owed' \in {{"record"}, {"play"}}
      /\ "play" \in owed' => buf_index_play' = 0
  BY <1>1, <1>4 DEF pushbutton_ISR
<1>6. Marked'
  BY <1>1, <1>2, <1>3, <1>5 DEF Marked, Started
<1>7. Fresh'
  BY <1>1, <1>2, <1>3, <1>5 DEF Fresh
<1>8. Held' /\ Pace' /\ Counted'
  BY <1>1, <1>2, <1>3 DEF Held, Pace, InSync, Counted, Passed
<1> QED  BY <1>6, <1>7, <1>8 DEF InSync
-----------------------------------------------------------------------------
(***************************************************************************)
(* What is left of a buffer when a playback ends is less than a bar.       *)
(***************************************************************************)
LEMMA LastMark ==
    ASSUME NEW k \in 0 .. N, NEW index \in Nat,
           index < Chunk * k, index + Depth >= BUF_SIZE
    PROVE  k = N
<1> SUFFICES ASSUME k # N PROVE FALSE
  OBVIOUS
<1>1. k <= N - 1 /\ N - 1 \in Nat
  BY Constants
<1>2. Chunk * k <= Chunk * (N - 1)
  BY <1>1, Constants
<1>3. Chunk * (N - 1) = BUF_SIZE - Chunk
  BY Constants
<1>4. Chunk * k \in Nat
  BY Constants
<1> QED  BY <1>2, <1>3, <1>4, Constants

(***************************************************************************)
(* A mark before the end of the buffer has a successor.                    *)
(***************************************************************************)
LEMMA NextMark ==
    ASSUME NEW k \in 0 .. N, Chunk * k < BUF_SIZE
    PROVE  k + 1 \in 0 .. N /\ Chunk * k + Chunk = Chunk * (k + 1)
<1>1. k # N
  BY Constants
<1> QED  BY <1>1, Constants

(***************************************************************************)
(* The handler while something is played: a write fills the FIFO or ends   *)
(* the playback.                                                           *)
(***************************************************************************)
LEMMA IsrPlays ==
    ASSUME Types, Patiently, playing
    PROVE  /\ "play" \in owed /\ ~recorded /\ "record" \notin owed
           /\ Depth - wfifo >= BUF_THRESHOLD
           /\ num_written \in 0 .. Depth
           /\ buf_index_play + num_written \in 0 .. BUF_SIZE
           /\ \/ num_written = 0
              \/ num_written = Depth - wfifo
              \/ played
<1>1. control.WE
  BY DEF playing, write_interrupt_pending
<1>2. "play" \in owed /\ "record" \notin owed /\ ~control.RE
  BY <1>1 DEF Patiently, Armed
<1>3. ~recorded
  BY <1>2 DEF recorded, recording, read_interrupt_pending
<1>4. /\ wfifo \in 0 .. Depth /\ buf_index_play \in 0 .. BUF_SIZE
      /\ Depth - wfifo >= BUF_THRESHOLD
  BY DEF Types, TypeOK, playing, write_interrupt_pending
<1>5. /\ num_written \in 0 .. Depth - wfifo
      /\ buf_index_play + num_written \in 0 .. BUF_SIZE
  BY IsrMoves DEF Types
<1>6. \/ num_written = 0
      \/ num_written = Depth - wfifo
      \/ num_written = BUF_SIZE - buf_index_play
  BY DEF num_written, play_r, AtMost
<1>7. num_written = BUF_SIZE - buf_index_play => played
  BY <1>4, Constants DEF played, playing
<1> QED  BY <1>2, <1>3, <1>4, <1>5, <1>6, <1>7, Constants

(***************************************************************************)
(* A mark is not passed while a bar is still asked for: what was played    *)
(* since the last mark is less than a bar stands for.                      *)
(***************************************************************************)
LEMMA BarDrawnInTime ==
    ASSUME Types, Patiently, InSync, playing, flag_play
    PROVE  buf_index_play + num_written < eq
<1> USE Constants
<1> DEFINE since == buf_index_play - (eq - Chunk)
<1>1. /\ "play" \in owed /\ Depth - wfifo >= BUF_THRESHOLD
      /\ num_written \in 0 .. Depth
  BY IsrPlays
<1>2. eq \in Nat /\ buf_index_play \in Nat /\ late \in 0 .. MaxLate
      /\ wfifo \in 0 .. Depth
  BY MarksAreNumbers DEF Types, TypeOK, Marks, Patiently, Prompt
<1>3. eq # 0 /\ eq - Chunk <= buf_index_play
  BY <1>1 DEF InSync, Fresh, Resting, Marked
<1>4. since \in Nat
  BY <1>2, <1>3
<1>5. Wanting = BUF_THRESHOLD
  BY <1>1, <1>2 DEF Wanting
<1>6. BUF_THRESHOLD * since + Depth * BUF_THRESHOLD
         <= Depth * (BUF_THRESHOLD + (late + Earlier))
  BY <1>1, <1>5 DEF InSync, Pace
<1>7. Earlier \in 0 .. MaxLate
  BY DEF Earlier
<1> HIDE DEF since
<1>8. Depth * (BUF_THRESHOLD + (late + Earlier))
         <= Depth * (BUF_THRESHOLD + 2 * MaxLate)
  BY <1>2, <1>7
<1>9. Depth * (BUF_THRESHOLD + 2 * MaxLate) < BUF_THRESHOLD * Chunk
  <2>1. Chunk * BUF_THRESHOLD = BUF_THRESHOLD * Chunk
    OBVIOUS
  <2> QED  BY <2>1, ChunkAssumption
<1>10. BUF_THRESHOLD * (since + Depth)
          = BUF_THRESHOLD * since + Depth * BUF_THRESHOLD
  BY <1>4
<1>11. BUF_THRESHOLD * (since + Depth) < BUF_THRESHOLD * Chunk
  <2>1. /\ BUF_THRESHOLD * (since + Depth) \in Nat
        /\ BUF_THRESHOLD * Chunk \in Nat
        /\ Depth * (BUF_THRESHOLD + (late + Earlier)) \in Nat
        /\ Depth * (BUF_THRESHOLD + 2 * MaxLate) \in Nat
    BY <1>2, <1>4, <1>7
  <2> QED  BY <1>6, <1>8, <1>9, <1>10, <2>1
<1>12. since + Depth < Chunk
  <2>1. since + Depth >= Chunk =>
           BUF_THRESHOLD * (since + Depth) >= BUF_THRESHOLD * Chunk
    BY <1>4
  <2>2. /\ BUF_THRESHOLD * (since + Depth) \in Nat
        /\ BUF_THRESHOLD * Chunk \in Nat
    BY <1>4
  <2> QED  BY <1>4, <1>11, <2>1, <2>2
<1> QED  BY <1>1, <1>2, <1>12 DEF since

(***************************************************************************)
(* The handler, by what it does to the display.                            *)
(***************************************************************************)
LEMMA IsrShows ==
    ASSUME Types, Patiently, audio_ISR
    PROVE  /\ buf_index_play' = buf_index_play + num_written
           /\ wfifo' = wfifo + num_written
           /\ new_record_flag' <=> new_record_flag \/ recorded
           /\ flag_play' <=> flag_play
                               \/ (playing /\ buf_index_play' >= eq)
           /\ played => eq' = 0
           /\ ~played /\ playing /\ buf_index_play' >= eq => eq' = eq + Chunk
           /\ ~played /\ ~(playing /\ buf_index_play' >= eq) => eq' = eq
           /\ "play" \in owed' <=> "play" \in owed /\ ~played
           /\ "record" \in owed' <=> "record" \in owed /\ ~recorded
           /\ UNCHANGED <<rect_th, command, pc, edge, pointed, late>>
           /\ edge = {}
<1> DEFINE mark == playing /\ buf_index_play' >= eq
<1>1. /\ buf_index_play' = buf_index_play + num_written
      /\ wfifo' = wfifo + num_written
      /\ new_record_flag' = (new_record_flag \/ recorded)
      /\ flag_play' = (flag_play \/ mark)
      /\ eq' = CASE played -> 0
                 [] ~played /\ mark -> eq + Chunk
                 [] OTHER -> eq
  BY IsrParts DEF Record, Play
<1>2. /\ new_record_flag' <=> new_record_flag \/ recorded
      /\ flag_play' <=> flag_play \/ mark
  BY <1>1, Zenon
<1>3. /\ played => eq' = 0
      /\ ~played /\ mark => eq' = eq + Chunk
      /\ ~played /\ ~mark => eq' = eq
  <2> HIDE DEF mark
  <2> QED  BY <1>1
<1>4. /\ "play" \in owed' <=> "play" \in owed /\ ~played
      /\ "record" \in owed' <=> "record" \in owed /\ ~recorded
  BY IsrParts DEF Patiently, Armed
<1>5. UNCHANGED <<rect_th, command, pc, edge, pointed, late>> /\ edge = {}
  BY IsrParts DEF mainVars
<1> QED  BY <1>1, <1>2, <1>3, <1>4, <1>5, Zenon

(***************************************************************************)
(* Recording only: the display is at rest and stays so.                    *)
(***************************************************************************)
LEMMA IsrIdleInSync ==
    ASSUME Patient, Types, Patiently, InSync, audio_ISR, ~playing
    PROVE  InSync'
<1>1. /\ ~played /\ num_written = 0
  BY DEF played, num_written
<1>2. buf_index_play \in 0 .. BUF_SIZE /\ wfifo \in 0 .. Depth
  BY DEF Types, TypeOK
<1>3. /\ UNCHANGED <<buf_index_play, wfifo, eq, rect_th, command, pc, edge,
                     pointed, late>>
      /\ (flag_play' <=> flag_play)
      /\ (new_record_flag' <=> new_record_flag \/ recorded)
      /\ ("play" \in owed' <=> "play" \in owed)
      /\ ("record" \in owed' <=> "record" \in owed /\ ~recorded)
      /\ edge = {}
  BY <1>1, <1>2, Constants, IsrShows
<1>4. recorded => "record" \in owed /\ "play" \notin owed
  BY DEF recorded, recording, read_interrupt_pending, Patiently, Armed
<1>5. Marked'
  BY <1>3 DEF InSync, Marked
<1>6. Fresh'
  <2>1. Resting' => Resting
    BY <1>3, <1>4 DEF Resting
  <2>2. recorded => /\ pointed \in {0, Nothing}
                    /\ pc \in Setting => command = 0
    BY <1>4 DEF Patiently, Polite
  <2>3. Resting' => ~flag_play'
    BY <1>3, <2>1 DEF InSync, Fresh
  <2>4. pc' = "bar" => flag_play'
    BY <1>3 DEF InSync, Fresh
  <2>5. pc' = "redraw" => new_record_flag'
    BY <1>3 DEF InSync, Fresh
  <2>6. new_record_flag' => /\ "play" \notin owed'
                            /\ edge' = {}
                            /\ pointed' \in {0, Nothing}
                            /\ pc' \in Setting => command' = 0
    BY <1>3, <1>4, <2>2 DEF InSync, Fresh
  <2> QED  BY <2>3, <2>4, <2>5, <2>6 DEF Fresh
<1>7. Held'
  BY <1>3 DEF InSync, Held
<1>8. Pace'
  BY <1>3 DEF InSync, Pace, Wanting, Earlier
<1>9. Counted'
  BY <1>3 DEF InSync, Counted, Passed
<1> QED  BY <1>5, <1>6, <1>7, <1>8, <1>9 DEF InSync

(***************************************************************************)
(* The last units are written: the last mark is passed, and the display    *)
(* was in step with it.                                                    *)
(***************************************************************************)
LEMMA IsrEndsInSync ==
    ASSUME Patient, Types, Patiently, InSync, audio_ISR, played
    PROVE  InSync'
<1> USE Constants
<1>1. playing
  BY DEF played
<1>2. /\ "play" \in owed /\ ~recorded /\ "record" \notin owed
      /\ num_written \in 0 .. Depth
  BY <1>1, IsrPlays
<1>3. /\ buf_index_play \in Nat /\ eq \in Nat
      /\ buf_index_play + num_written = BUF_SIZE
  BY MarksAreNumbers DEF Types, TypeOK, Marks, played
<1>4. /\ UNCHANGED <<rect_th, command, pc, edge, pointed, late>>
      /\ "play" \notin owed' /\ eq' = 0 /\ edge = {}
      /\ (new_record_flag' <=> new_record_flag)
      /\ "record" \notin owed'
      /\ buf_index_play' = BUF_SIZE
  BY <1>2, <1>3, IsrShows
<1>5. ~new_record_flag /\ pc \notin Setting
  BY <1>2 DEF InSync, Fresh, Patiently, Polite
<1>6. eq # 0 /\ buf_index_play < eq
  BY <1>2, <1>3 DEF InSync, Marked
<1>7. PICK k \in 0 .. N : Passed(k)
  BY <1>5 DEF InSync, Counted
<1>8. k = N
  <2>1. eq = Chunk * k
    BY <1>7 DEF Passed
  <2> QED  BY <1>2, <1>3, <1>6, <2>1, LastMark
<1>9. eq = BUF_SIZE
  BY <1>7, <1>8 DEF Passed
<1>10. ~flag_play /\ flag_play'
  <2>1. ~flag_play
    BY <1>1, <1>3, <1>9, BarDrawnInTime
  <2>2. buf_index_play' >= eq
    BY <1>4, <1>9
  <2> QED  BY <1>1, <2>1, <2>2, IsrShows
<1>11. rect_th = N
  BY <1>7, <1>8, <1>10 DEF Passed
<1>12. pointed = Nothing
  <2> SUFFICES ASSUME pointed # Nothing PROVE FALSE
    OBVIOUS
  <2>1. CASE buf_index_play <= Chunk
    <3>1. 2 * Chunk <= N * Chunk
      OBVIOUS
    <3> QED  BY <1>2, <1>3, <2>1, <3>1
  <2>2. CASE wfifo = Depth
    BY <1>1, <2>2, IsrPlays
  <2> QED  BY <1>2, <2>1, <2>2 DEF InSync, Held
<1>13. Marked'
  BY <1>4, <1>5 DEF Marked, Setting
<1>14. Fresh'
  BY <1>4, <1>5, <1>10, <1>12 DEF Fresh, Resting, InSync
<1>15. Counted'
  <2>1. Passed(0)'
    BY <1>4, <1>10, <1>11 DEF Passed
  <2> QED  BY <2>1 DEF Counted
<1>16. Held' /\ Pace'
  BY <1>4 DEF Held, Pace
<1> QED  BY <1>13, <1>14, <1>15, <1>16 DEF InSync

(***************************************************************************)
(* The playback goes on, with a mark passed or without.                    *)
(***************************************************************************)
LEMMA IsrPlaysInSync ==
    ASSUME Patient, Types, Patiently, InSync, audio_ISR, playing, ~played
    PROVE  InSync'
<1> USE Constants
<1> DEFINE index == buf_index_play + num_written
           mark == index >= eq
<1>1. /\ "play" \in owed /\ ~recorded /\ "record" \notin owed
      /\ Depth - wfifo >= BUF_THRESHOLD
      /\ num_written \in 0 .. Depth /\ index \in 0 .. BUF_SIZE
      /\ num_written = 0 \/ num_written = Depth - wfifo
  BY IsrPlays
<1>2. /\ buf_index_play \in Nat /\ wfifo \in 0 .. Depth
      /\ eq \in Nat /\ late \in 0 .. MaxLate /\ index < BUF_SIZE
  BY <1>1, MarksAreNumbers
  DEF Types, TypeOK, Marks, Patiently, Prompt, played
<1>3. /\ UNCHANGED <<rect_th, command, pc, edge, pointed, late>>
      /\ "play" \in owed' /\ "record" \notin owed' /\ edge = {}
      /\ (new_record_flag' <=> new_record_flag)
      /\ buf_index_play' = index /\ wfifo' = wfifo + num_written
      /\ (flag_play' <=> flag_play \/ mark)
      /\ (mark => eq' = eq + Chunk) /\ (~mark => eq' = eq)
  BY <1>1, IsrShows
<1>4. ~new_record_flag /\ pc \notin Setting
  BY <1>1 DEF InSync, Fresh, Patiently, Polite
<1>5. mark => ~flag_play
  <2> SUFFICES ASSUME mark, flag_play PROVE FALSE
    OBVIOUS
  <2>1. index < eq
    BY BarDrawnInTime
  <2> QED  BY <1>1, <1>2, <2>1
<1>6. wfifo' \in 0 .. Depth /\ (num_written # 0 => wfifo' = Depth)
  BY <1>1, <1>2, <1>3
<1>7. /\ ~mark => eq # 0 /\ eq - Chunk <= buf_index_play
      /\ mark => index <= eq + Depth
  BY <1>1, <1>2 DEF InSync, Marked
<1>8. eq' # 0 /\ eq' \in Nat /\ eq' - Chunk <= index /\ index < eq'
  BY <1>1, <1>2, <1>3, <1>7
<1>9. Marked'
  BY <1>3, <1>4, <1>8 DEF Marked, Setting
<1>10. Fresh'
  BY <1>3, <1>4, <1>8 DEF InSync, Fresh, Resting
<1>11. Held'
  <2> SUFFICES ASSUME pointed # Nothing
               PROVE  \/ index <= Chunk
                      \/ index <= Chunk + Depth /\ wfifo' = Depth
    BY <1>3 DEF Held
  <2>1. buf_index_play <= Chunk
    BY <1>1, <1>2 DEF InSync, Held
  <2> QED  BY <1>1, <1>2, <1>6, <2>1
<1>12. ASSUME flag_play'
       PROVE  BUF_THRESHOLD * (index - (eq' - Chunk)) + Depth * Wanting'
                 <= Depth * (BUF_THRESHOLD + (late + Earlier))
  <2> DEFINE since == buf_index_play - (eq - Chunk)
             then == index - (eq' - Chunk)
             allowed == Depth * (BUF_THRESHOLD + (late + Earlier))
  <2>1. then \in Nat
    <3> HIDE DEF index, mark
    <3>1. index \in Nat
      BY <1>1
    <3>2. \A next, now, length \in Nat :
             next - length <= now => now - (next - length) \in Nat
      OBVIOUS
    <3> QED  BY <1>8, <3>1, <3>2, Zenon
  <2> SUFFICES BUF_THRESHOLD * then + Depth * Wanting' <= allowed
    OBVIOUS
  <2>2. /\ num_written = 0 => Wanting' = BUF_THRESHOLD
        /\ num_written # 0 => Wanting' = 0
    BY <1>1, <1>2, <1>3, <1>6 DEF Wanting
  <2>3. allowed \in Nat /\ Depth * BUF_THRESHOLD <= allowed
    <3>1. Earlier \in Nat
      BY DEF Earlier
    <3>2. \A more \in Nat : /\ Depth * (BUF_THRESHOLD + more) \in Nat
                            /\ Depth * BUF_THRESHOLD
                                  <= Depth * (BUF_THRESHOLD + more)
      OBVIOUS
    <3> QED  BY <1>2, <3>1, <3>2
  <2>4. CASE mark
    <3>1. then = index - eq /\ then <= Depth
      BY <1>1, <1>2, <1>3, <1>7, <2>4
    <3>2. num_written = 0 => then = 0
      BY <1>1, <1>2, <2>4, <3>1 DEF InSync, Marked
    <3> HIDE DEF then, allowed
    <3>3. CASE num_written = 0
      <4>1. BUF_THRESHOLD * then = 0 /\ Depth * BUF_THRESHOLD \in Nat
        BY <3>2, <3>3
      <4>2. Wanting' = BUF_THRESHOLD
        BY <2>2, <3>3
      <4> QED  BY <2>3, <4>1, <4>2
    <3>4. CASE num_written # 0
      <4>1. BUF_THRESHOLD * then <= Depth * BUF_THRESHOLD
        BY <2>1, <3>1
      <4>2. BUF_THRESHOLD * then \in Nat /\ Depth * BUF_THRESHOLD \in Nat
        BY <2>1
      <4>3. Wanting' = 0 /\ Depth * 0 = 0
        BY <2>2, <3>4
      <4> QED  BY <2>3, <4>1, <4>2, <4>3
    <3> QED  BY <3>3, <3>4
  <2>5. CASE ~mark
    <3>1. /\ flag_play /\ since \in Nat /\ then = since + num_written
          /\ Wanting = BUF_THRESHOLD
      BY <1>1, <1>2, <1>3, <1>7, <1>12, <2>5 DEF Wanting
    <3>2. BUF_THRESHOLD * since + Depth * BUF_THRESHOLD <= allowed
      BY <1>1, <3>1 DEF InSync, Pace
    <3> HIDE DEF since, then, allowed
    <3>3. CASE num_written = 0
      <4>1. then = since /\ Wanting' = BUF_THRESHOLD
        BY <2>2, <3>1, <3>3
      <4> QED  BY <3>2, <4>1
    <3>4. CASE num_written # 0
      <4>1. /\ BUF_THRESHOLD * (since + num_written)
                  <= BUF_THRESHOLD * since + Depth * BUF_THRESHOLD
            /\ BUF_THRESHOLD * (since + num_written) \in Nat
            /\ BUF_THRESHOLD * since + Depth * BUF_THRESHOLD \in Nat
        BY <1>1, <3>1
      <4>2. /\ then = since + num_written
            /\ Wanting' = 0 /\ Depth * 0 = 0
        BY <2>2, <3>1, <3>4
      <4> QED  BY <2>3, <3>2, <4>1, <4>2
    <3> QED  BY <3>3, <3>4
  <2> QED  BY <2>4, <2>5
<1>13. Pace'
  BY <1>3, <1>12 DEF Pace, Earlier
<1>14. Counted'
  <2>1. PICK k \in 0 .. N : Passed(k)
    BY <1>4 DEF InSync, Counted
  <2>2. CASE mark
    <3>1. Chunk * k < BUF_SIZE
      <4>1. eq < BUF_SIZE /\ eq = Chunk * k
        BY <1>1, <1>2, <2>1, <2>2 DEF Passed
      <4> QED  BY <4>1
    <3>2. k + 1 \in 0 .. N /\ Chunk * k + Chunk = Chunk * (k + 1)
      BY <3>1, NextMark
    <3>3. Passed(k + 1)'
      BY <1>3, <1>5, <2>1, <2>2, <3>2 DEF Passed
    <3> QED  BY <3>2, <3>3 DEF Counted
  <2>3. CASE ~mark
    <3>1. Passed(k)'
      BY <1>3, <2>1, <2>3 DEF Passed
    <3> QED  BY <2>1, <3>1 DEF Counted
  <2> QED  BY <2>2, <2>3
<1> QED  BY <1>9, <1>10, <1>11, <1>13, <1>14 DEF InSync

(***************************************************************************)
(* The handler keeps the display in step.                                  *)
(***************************************************************************)
LEMMA IsrInSync ==
    ASSUME Patient, Types, Patiently, InSync, audio_ISR
    PROVE  InSync'
BY IsrIdleInSync, IsrEndsInSync, IsrPlaysInSync

-----------------------------------------------------------------------------
(***************************************************************************)
(* A new round: what came late in the last one is earlier now.             *)
(***************************************************************************)
LEMMA LoopInSync ==
    ASSUME Patient, Types, Patiently, InSync, Loop
    PROVE  InSync'
<1>1. /\ pc = "loop" /\ late' = 0
      /\ pc' = IF new_record_flag THEN "redraw" ELSE "progress"
  BY DEF Loop, Goto
<1>2. UNCHANGED <<wfifo, buf_index_play, eq, new_record_flag, flag_play,
                  rect_th, command, edge, pointed, owed>>
  BY DEF Loop, Goto, coreVars, isrVars
<1>3. Marked' /\ Fresh' /\ Held' /\ Counted'
  BY <1>1, <1>2
  DEF InSync, Marked, Fresh, Resting, Held, Counted, Passed, Setting, Started
<1>4. Pace'
  <2> SUFFICES ASSUME "play" \in owed, flag_play
               PROVE  BUF_THRESHOLD * (buf_index_play - (eq - Chunk))
                         + Depth * Wanting'
                         <= Depth * (BUF_THRESHOLD + (late' + Earlier'))
    BY <1>2 DEF Pace
  <2>1. Wanting' = Wanting
    BY <1>2 DEF Wanting
  <2>2. Earlier = 0 /\ Earlier' = MaxLate
    BY <1>1 DEF Earlier
  <2>3. late \in 0 .. MaxLate
    BY DEF Patiently, Prompt
  <2> DEFINE used == BUF_THRESHOLD * (buf_index_play - (eq - Chunk))
                        + Depth * Wanting
  <2>4. used <= Depth * (BUF_THRESHOLD + late)
    BY <2>2, <2>3 DEF InSync, Pace
  <2>5. used \in Nat
    <3>1. eq \in Nat /\ buf_index_play \in Nat /\ wfifo \in 0 .. Depth
      BY MarksAreNumbers, Constants DEF Types, TypeOK, Marks
    <3>2. buf_index_play - (eq - Chunk) \in Nat
      BY <3>1, Constants DEF InSync, Fresh, Resting, Marked
    <3>3. Wanting \in Nat
      BY <3>1, Constants DEF Wanting
    <3>4. \A n1, n2 \in Nat : BUF_THRESHOLD * n1 + Depth * n2 \in Nat
      BY Constants
    <3> QED  BY <3>2, <3>3, <3>4
  <2> HIDE DEF used
  <2>6. /\ Depth * (BUF_THRESHOLD + late) <= Depth * (BUF_THRESHOLD + MaxLate)
        /\ Depth * (BUF_THRESHOLD + late) \in Nat
        /\ Depth * (BUF_THRESHOLD + MaxLate) \in Nat
    BY <2>3, Constants
  <2>7. used <= Depth * (BUF_THRESHOLD + MaxLate)
    BY <2>4, <2>5, <2>6
  <2>8. late' + Earlier' = MaxLate
    BY <1>1, <2>2, Constants
  <2> QED  BY <2>1, <2>7, <2>8 DEF used
<1> QED  BY <1>3, <1>4 DEF InSync

(***************************************************************************)
(* The display of a new recording begins without bars.                     *)
(***************************************************************************)
LEMMA RedrawInSync ==
    ASSUME Patient, Types, Patiently, InSync, Redraw
    PROVE  InSync'
<1>1. /\ pc = "redraw" /\ pc' = "progress" /\ rect_th' = 0
      /\ ~new_record_flag'
  BY DEF Redraw, Goto
<1>2. UNCHANGED <<wfifo, buf_index_play, eq, flag_play, command, edge,
                  pointed, late, owed>>
  BY DEF Redraw, Goto, coreVars, isrVars
<1>3. new_record_flag /\ ~flag_play /\ "play" \notin owed /\ eq = 0
  BY <1>1 DEF InSync, Fresh, Resting, Marked
<1>4. Marked' /\ Held' /\ Pace'
  BY <1>1, <1>2, <1>3 DEF Marked, Held, Pace, Started
<1>5. Fresh'
  BY <1>1, <1>2, <1>3 DEF Fresh
<1>6. Counted'
  <2>1. Chunk * 0 = 0 /\ 0 \in 0 .. N
    BY Constants
  <2>2. Passed(0)'
    BY <1>1, <1>2, <1>3, <2>1 DEF Passed
  <2> QED  BY <2>1, <2>2 DEF Counted
<1> QED  BY <1>4, <1>5, <1>6 DEF InSync

(***************************************************************************)
(* The bar that was asked for is drawn.                                    *)
(***************************************************************************)
LEMMA BarInSync ==
    ASSUME Patient, Types, Patiently, InSync, Bar
    PROVE  InSync'
<1>1. /\ pc = "bar" /\ pc' = "check" /\ ~flag_play'
      /\ rect_th' = IF rect_th + 1 > N THEN 0 ELSE rect_th + 1
  BY DEF Bar, Goto
<1>2. UNCHANGED <<wfifo, buf_index_play, eq, new_record_flag, command, edge,
                  pointed, late, owed>>
  BY DEF Bar, Goto, coreVars, isrVars
<1>3. flag_play
  BY <1>1 DEF InSync, Fresh
<1>4. Marked' /\ Held' /\ Pace'
  BY <1>1, <1>2 DEF InSync, Marked, Held, Pace, Started
<1>5. Fresh'
  BY <1>1, <1>2, <1>3 DEF InSync, Fresh, Setting, Started
<1>6. Counted'
  <2> SUFFICES ASSUME ~new_record_flag PROVE \E k \in 0 .. N : Passed(k)'
    BY <1>2 DEF Counted
  <2>1. PICK k \in 0 .. N : Passed(k)
    BY DEF InSync, Counted
  <2>2. rect_th' = k
    BY <1>1, <1>3, <2>1, Constants DEF Passed, Types, TypeOK
  <2>3. Passed(k)'
    BY <1>1, <1>2, <2>1, <2>2 DEF Passed
  <2> QED  BY <2>3
<1> QED  BY <1>4, <1>5, <1>6 DEF InSync

(***************************************************************************)
(* The steps that only move main on.                                       *)
(***************************************************************************)
LEMMA MainInSync ==
    ASSUME Patient, Types, Patiently, InSync,
           \/ Progress \/ Check \/ SetDenoise \/ EraseBars
    PROVE  InSync'
<1>1. /\ UNCHANGED <<wfifo, buf_index_play, eq, new_record_flag, flag_play,
                     rect_th, edge, pointed, late, owed>>
      /\ edge = {}
  BY DEF Progress, Check, SetDenoise, EraseBars, Goto, Pending, coreVars,
         isrVars
<1>2. \/ /\ pc = "progress" /\ ~flag_play /\ pc' = "check"
      \/ /\ pc = "progress" /\ flag_play /\ pc' = "bar"
      \/ /\ pc \in {"check", "denoise", "last"} /\ pc' \in {"last", "loop"}
      \/ /\ pc = "check" /\ pc' = "index" /\ command' = pointed
         /\ pointed \in Commands /\ ~flag_is_playing
  BY DEF Progress, Check, SetDenoise, EraseBars, Goto
<1>3. pc' = "index" => "play" \notin owed
  <2> SUFFICES ASSUME pc' = "index", "play" \in owed PROVE FALSE
    OBVIOUS
  <2>1. Check
    BY DEF Progress, SetDenoise, EraseBars, Goto
  <2>2. ~Pending /\ ~flag_is_playing
    BY <2>1 DEF Check, Goto
  <2>3. control.WE /\ wfifo = 0
    BY <2>2 DEF Patiently, Armed
  <2> QED
    BY <2>2, <2>3, Constants DEF Pending, write_interrupt_pending
<1>4. Marked' /\ Held' /\ Counted'
  BY <1>1, <1>2
  DEF InSync, Marked, Held, Counted, Passed, Started
<1>5. Fresh'
  BY <1>1, <1>2, <1>3
  DEF InSync, Fresh, Resting, Setting, Started, Commands, Nothing
<1>6. Pace'
  <2> SUFFICES ASSUME "play" \in owed, flag_play PROVE Pace'
    BY <1>1 DEF Pace
  <2>1. Earlier' = Earlier
    BY <1>2, <1>3 DEF Earlier
  <2> QED  BY <1>1, <2>1 DEF InSync, Pace, Wanting
<1> QED  BY <1>4, <1>5, <1>6 DEF InSync

(***************************************************************************)
(* run_command: nothing is played before it is enabled.                    *)
(***************************************************************************)
LEMMA CommandInSync ==
    ASSUME Patient, Types, Patiently, InSync,
           \/ ResetIndex
           \/ ReadControl("read_reset", "set_reset")
           \/ ReadControl("read_enable", "enable")
           \/ SetReset \/ ClearReset
    PROVE  InSync'
<1>1. /\ UNCHANGED <<eq, new_record_flag, flag_play, rect_th, command, edge,
                     pointed, late, owed>>
      /\ pc \in Setting /\ pc' \in Started
      /\ pc \in Started => buf_index_play' = buf_index_play
      /\ pc \notin Started /\ command # 0 => buf_index_play' = 0
  BY DEF ResetIndex, ReadControl, SetReset, ClearReset, ClearFifos,
         WriteControl, Goto, coreVars, isrVars, Setting, Started
<1>2. "play" \notin owed
  BY <1>1 DEF Patiently, Polite
<1>3. Marked'
  BY <1>1, <1>2 DEF InSync, Marked
<1>4. Fresh'
  BY <1>1, <1>2 DEF InSync, Fresh, Resting, Setting, Started
<1>5. Held' /\ Pace' /\ Counted'
  BY <1>1, <1>2 DEF InSync, Held, Pace, Counted, Passed
<1> QED  BY <1>3, <1>4, <1>5 DEF InSync

(***************************************************************************)
(* A playback begins at the first mark, with no bar asked for.             *)
(***************************************************************************)
LEMMA EnableInSync ==
    ASSUME Patient, Types, Patiently, InSync, Enable
    PROVE  InSync'
<1>1. UNCHANGED <<buf_index_play, eq, new_record_flag, flag_play, rect_th,
                  command, edge, pointed, late>>
  BY DEF Enable, Goto, isrVars
<1>2. /\ pc = "enable" /\ pc' \in {"last", "denoise"}
      /\ owed' = owed \cup {IF command = 0 THEN "record" ELSE "play"}
  BY DEF Enable, Goto
<1>3. /\ "play" \notin owed /\ pc \in Setting /\ pc \in Started
      /\ ("record" \in owed => command = 0) /\ command \in Commands
      /\ pointed \in {Nothing, command}
  BY <1>2 DEF Patiently, Polite, Setting, Started
<1>4. /\ eq = 0 /\ ~flag_play /\ edge = {}
      /\ command # 0 => buf_index_play = 0 /\ ~new_record_flag
  BY <1>2, <1>3 DEF InSync, Marked, Fresh, Resting, Patiently, Polite
<1>5. "play" \in owed' <=> command # 0
  BY <1>2, <1>3
<1>6. Marked'
  BY <1>1, <1>2, <1>4, <1>5 DEF Marked, Started
<1>7. Fresh'
  BY <1>1, <1>2, <1>3, <1>4, <1>5 DEF Fresh, Setting, Started
<1>8. Held' /\ Pace' /\ Counted'
  BY <1>1, <1>4, <1>5, Constants DEF Held, Pace, InSync, Counted, Passed
<1> QED  BY <1>6, <1>7, <1>8 DEF InSync

-----------------------------------------------------------------------------
(***************************************************************************)
(* The display is in step initially, and stays so.                         *)
(***************************************************************************)
LEMMA InitInSync == Init => InSync
<1> SUFFICES ASSUME Init PROVE InSync
  OBVIOUS
<1>1. Marked /\ Held /\ Pace /\ Counted
  BY DEF Init, Marked, Held, Pace, Counted, Started
<1>2. Fresh
  BY DEF Init, Fresh, Setting, Started
<1> QED  BY <1>1, <1>2 DEF InSync

LEMMA InSyncStep ==
    ASSUME Patient, Types, Patiently, InSync, [Next]_vars
    PROVE  InSync'
<1>1. CASE \E key \in {KEY1, KEY2} : Press(key)
  BY <1>1, PressInSync
<1>2. CASE \E what \in Commands \cup {Nothing} : PointTo(what)
  BY <1>2, PointInSync
<1>3. CASE Main
  BY <1>3, LoopInSync, RedrawInSync, BarInSync, MainInSync, CommandInSync,
     EnableInSync
  DEF Main
<1>4. CASE UNCHANGED vars
  <2>1. UNCHANGED <<wfifo, buf_index_play, eq, new_record_flag, flag_play,
                    rect_th, command, pc, edge, pointed, late, owed>>
    BY <1>4 DEF vars, coreVars, mainVars
  <2>2. Marked' /\ Fresh' /\ Held'
    BY <2>1 DEF InSync, Marked, Fresh, Resting, Held
  <2>3. Pace' /\ Counted'
    BY <2>1 DEF InSync, Pace, Wanting, Earlier, Counted, Passed
  <2> QED  BY <2>2, <2>3 DEF InSync
<1> QED
  BY <1>1, <1>2, <1>3, <1>4, SampleInSync, KeyInSync, IsrInSync DEF Next

(***************************************************************************)
(* With a patient user the bars keep in step with the playback, for every  *)
(* number of bars and length of a bar: a bar is drawn before the next mark *)
(* is passed, so that no mark is lost, and a playback and the display of a *)
(* new recording both begin at the first bar.                              *)
(***************************************************************************)
THEOREM DisplayInStep == Spec => [](Patient => BarsInStep)
<1> DEFINE All == IInv /\ (Patient => InSync)
<1>1. Init => All
  BY InitIInv, InitInSync
<1>2. All /\ [Next]_vars => All'
  BY StepIInv, InSyncStep DEF IInv, Patiently
<1>3. All => (Patient => BarsInStep)
  BY CountedIsInStep DEF IInv, InSync
<1> QED  BY <1>1, <1>2, <1>3, PTL DEF Spec
=============================================================================
