# Verification of FPGA_Lab

TLA+ models of the hardware and the firmware written in this repository,
model-checked with TLC, with theorems checked by TLAPS.

The repository holds four lab exercises on an Altera DE2 board with a Nios II
processor. Most of its 1583 files come from the vendor's tools (board support
packages, Quartus databases, reports, generated HDL). The code written by its
authors, which is what is modelled here, is

- Lab#1: two FIR filters (`FIR1`, SystemVerilog, and `FIR2`, Verilog), a UART,
  and a board top level that filters samples sent over a serial line;
- Lab#3: two programs that take the noise out of a recording, one with a filter
  in C, one with a generated serial filter as a custom instruction;
- Lab#4: an accelerator that averages a sound recording chunk by chunk, the
  firmware that records, plays and displays sound, and drives the accelerator.

Of the vendor's code, what the firmware's behaviour hangs on is modelled as
well: the interrupt dispatcher, the audio and PS/2 drivers, the interrupt driven
console driver and the HAL's alarms. `src/ca1` and `Lab#1/modelsim` hold copies
of the filters; Lab#2 and the rest of Lab#3 hold earlier versions of the
firmware of Lab#4.

## 1. Inventory

| Component | State | Operations | Module |
|---|---|---|---|
| FIR2 filter (`FIR2/FIR.v`, `CU.v`, `DataPath.v`, `counter.v`) | control unit `ps`, counter `d_out`, delay line `X`, accumulator `result` | one clock edge in each control state; asynchronous reset | `Fir2` |
| FIR2 test bench (`FIR_TB.v`) | the point its `initial` block has reached, its wires, edges counted by the assertion | drive a sample, drop `in_valid`, wait for `out_valid`, compare | `Fir2Tb` |
| FIR1 filter (`FIR1/*.sv`) | `ps`, 7-bit counter, register file, accumulator, output latch | clock edge per state; reset, which data path and controller see at different times | `Fir1` |
| UART transmitter (`async_transmitter.v`, `BaudTickGen.v`) | `TxD_state`, `TxD_shift`, baud counter and tick | one clock edge | `AsyncTransmitter` |
| Board top level (`LAB1_top.v`, `rec_cu.v`, `trn_cu.v`) | two control units, latches `ff1`, `ff2` | one clock edge of everything; switch SW[1] | `Lab1Top` |
| UART receiver (`async_receiver.v`, `BaudTickGen.v`) | `RxD_state`, `RxD_data`, phase of the baud counter | one look at the line; reset; arrival of a byte | `AsyncReceiver`, `Lab1Top` |
| Serial and parallel filter (`Lab#3/MATLAB/hdlsrc`) | count, delay line, accumulator, final sum, output | one clock edge; reset | `SerialFir`, `ParallelFir` |
| Denoising programs (`Lab#3/Hardware/software/flab3`, `Lab#3/Software`) | buffers, indexes, main's place, `mem` | key, audio handler, `make_Denoise` word by word | `Denoise` |
| Accelerator (`accelerator*.v`) | state machine S0..S11, counters, addresses; slave registers; bus master | one clock edge of the three parts | `Accelerator`, `AccSlave`, `AccMaster` |
| `take_mean` (`audio_ISR.c:103-133`) | program counter, one register copy | every access to the slave | `TakeMean` |
| Audio core driver (`altera_up_avalon_audio.c`) and core | FIFO levels, interrupt enables, reset bits | read and write FIFOs, interrupt queries, control register | `AudioCore` |
| Firmware (`media_interrupt_HAL.c`, `audio_ISR.c`, `pushbutton_ISR.c`) | indexes, flags, command, bar number, main's place | codec unit arrives, keys, mouse, two handlers, steps of the main loop | `AudioFirmware` |
| PS/2 mouse (`PS2_ISR.c`, `altera_up_avalon_ps2.c`) | port FIFO, byte counter, `valid_byte1..3`, `flag_mouse` | initialisation, handler, wait for an answer, `Mouse_ISR`; mouse plugged, moved, reset | `Ps2Mouse` |
| Console driver (`altera_avalon_jtag_uart_*.c`) | two ring buffers, interrupt enables, `host_inactive` | handler, timeout callback, write, read, close | `JtagUart`, `CharPipe` |
| HAL alarms (`alt_tick.c`, `alt_alarm_start.c`) | tick counter, time, rollover flag | tick, callback | `Alarm` |
| Timer handler, drawing, other drivers, `FIRtb.sv`, Lab 2 | | | not modelled (section 8) |

How they interact. Within the FPGA design of Lab#1 everything runs on one
clock, so components interact by wires that are read at the same edge: the
receiver pulses `RxD_ready`, `rec_cu` assembles two bytes in `ff1` and starts
the filter, the filter pulses `output_valid`, `trn_cu` freezes the result in
`ff2` and starts the transmitter twice. There are no queues: every pulse is seen
at its edge or lost. In Lab#4 the processor and the accelerator share three
address registers and one control register over an Avalon bus, and the SDRAM
through the accelerator's master; the main loop and the interrupt handlers share
flags and the control register of the audio core. Interrupts (timer 0, keys 1,
audio 6, PS/2 7) are not nested, so a handler is atomic with respect to the
main loop but can come between any two of main's accesses. A program that
prints shares two ring buffers and the interrupt enables with the console's
handler and with the alarm that watches whether a host is there. In Lab#3 the
main loop filters the buffers the audio handler fills.

What is hard to test in it, in short (`PROJECT.json`, "hazards", has each at
its line): pulses that last one clock; registers that are sampled an edge too
early or read an edge late; latches that must close before their input
changes; counters whose width decides how many products are added; a reset in
the middle of a computation; a start bit one side never takes back while the
other waits for it; a stale done bit; reads and writes of a shared control
register with an interrupt in between; an interrupt that stays pending because
its handler returns early; a wake-up that is lost between two changes of an
enable bit; a packet taken over while the next one comes in; a receiver whose
phase drifts against the line.

What makes each component correct:

- a filter's output is the convolution of the last `Taps` samples, each product
  taken once, whatever happened before, and comes in bounded time;
- the top level filters what was sent, in order, and sends back every result;
- the accelerator stays inside its buffers, covers all chunks, and ends;
  `take_mean` returns, after the results are written;
- the receiver reports every byte once, in time, with its bits in place;
- the bytes of the mouse stay grouped into its packets, whatever was plugged;
- the console is a pipe in both directions, and its calls return;
- a denoised buffer holds the filter's answer to what was recorded;
- what a key or a click starts is recorded or played to its end, interrupts are
  enabled for exactly as long, and the display keeps in step.

## 2. Modules

    FirData ── Fir (abstract filter)
       │
       ├── Fir2 ──┬── Fir2Tb
       │          ├── Lab1Top
       │          │     └ AsyncTransmitter
       │          └── (Fir2Tb, Lab1Top) ── Fir2Proofs
       ├── Fir1 ──┬── MCFir1
       │          └── Fir1Proofs
       ├── ParallelFir, SerialFir ── Denoise ──┬── MCDenoise
       │                                       └── SerialFirProofs
       └── FirDataProofs (used by the other proofs above)
    AccSlave, AccMaster ── Accelerator ── TakeMean ── TakeMeanProofs
    AudioCore ── AudioFirmware ── AudioFirmwareProofs
    AsyncReceiver ── AsyncReceiverProofs
    Alarm, CharPipe (abstract) ── JtagUart ── MCJtagUart
    (JtagUart, Ps2Mouse) ── DriverProofs

    (MCLab1Top, Fir2Tb, AsyncReceiver) ── MCLab1
    (MCTakeMean, AudioFirmware, Ps2Mouse) ── MCFirmware

`MCLab1Top`, `MCTakeMean`, `MCAudio`, `MCJtagUart`, `MCDenoise` and `MCFir1` give
one component's constants their values. `MCLab1` and `MCFirmware` put components
that share no variable side by side: `part` is chosen once, the component it names
takes its steps with its own fairness, and the others stay as they are. Each
property speaks of one component; in the behaviours of the others it is only asked
of that one's initial state.

- **FirData**: words, delay lines, and sums of products. A sum is kept
  symbolically, as a function that says how many times each tap's product with
  each sample is in it. This tells apart every multiplicity, which numbers
  would not (two wrong sums may be equal). It abstracts from the width of the
  accumulator: 38 bits hold 64 products of 16-bit words.
- **Fir** is what a filter promises: it accepts a word, answers with the
  convolution, and becomes ready again; a reset clears it. `Fir2` implements it
  (property `ImplementsFir`, theorem `Refinement`) with `stage` read off `ps`.
- **Fir2**: an action per control state, which is one rising clock edge with all
  the registers it loads. `Clock(input_valid, in)` leaves the wires to whoever
  composes the filter. R1 is cleared asynchronously by the decoded `clr_res`,
  so it is empty as soon as `wait_input` is entered.
- **Fir2Tb** runs the bench's loop on the same clock. The bench changes its
  wires between two edges; a step is an edge and what the bench does right
  after it.
- **Fir1**: here the data path is reset when `rst` rises, the controller at the
  next edge, hence `RstRises`, `RstEdge`, `RstFalls`. The output latch is a
  separate variable.
- **AsyncTransmitter**: `BaudTickGen` with its counter that is not reset when
  idle, and the ten states of a byte.
- **Lab1Top**: `Edge` is one clock edge of `rec_cu`, `ff1`, the filter,
  `trn_cu`, `ff2` and the transmitter; `ResetEdge` an edge with SW[1] on. A
  latch is modelled by its value after the edge: `Ff1` follows `uart_in'` while
  `ff1_load'` is up. `rec_cu`'s outputs are registers and one edge late,
  `trn_cu`'s are decoded. The filter is taken to be connected by port names;
  the positional list at `LAB1_top.v:32` has another order than `FIR.v`, and
  `LAB1_top.v:52` is missing a dot, so the file as it stands does not compile.
  `sent` and `awaited` are history. Of the receiver `Lab1Top` takes what
  `AsyncReceiver` proves of it: a byte is ready at the tenth look at it
  (`ReadyAtTenthLook`), which may be anywhere in a window of one look, for each byte
  anew (`rx' \in 9 * Look .. 10 * Look`). So two ready pulses may be closer together
  than two bytes. In the code successive looks are on one grid, which allows fewer
  behaviours than this. `free` is the time until the host may begin its next byte.
- **AccSlave**, **AccMaster**, **Accelerator**: the three Verilog files.
  `Accelerator!Edge` conjoins one edge of each, each reading the unprimed
  registers of the others; the combinational requests are operators of
  `state`. The master's `done` is set in FIN and never cleared, and its strobes
  are registered, as in the code.
- **TakeMean**: a step is one edge, on which `take_mean` makes its next access
  or lets the edge pass (`Stall`). `config_reg |= ...` is two accesses. The
  fabric may assert `waitrequest` at any edge. `written` is history.
- **AudioCore**: levels of the FIFOs in units of a quarter FIFO (32 words), the
  two interrupt enables, and the driver functions as operators.
- **AudioFirmware**: each handler is one action; the main loop is one action per
  access to something shared (`Loop`, `Redraw`, `Progress`, `Bar`, `Check`,
  `ResetIndex`, then the control register's read, set, read, clear, read,
  enable, and `SetDenoise`, `EraseBars`). Main moves only when nothing is
  pending. `owed` is history.
- **AsyncReceiver**: the receiver's counter is two bits wide and is compared with
  4, so it is never set back: the receiver looks at the line every four ticks,
  432 clocks, at a phase of its own, against 434 clocks of a bit. A step is one
  look; `pos` says where in the byte on the line it falls, and a stored bit is
  named by its byte and place, so a bit in the wrong place shows. `late`, `owed`
  and `good` are history. `Lab1Top` rests on `OneReadyPerByte` and
  `ReadyAtTenthLook`.
- **Ps2Mouse**: `boot` runs `alt_up_ps2_init` and main's initialisation with
  their timeouts; `PS2_ISR` is one action up to the point where it waits for an
  answer (`isr = "wait"`); `Mouse_ISR` reads the three bytes one by one. A byte
  carries its value and, for the properties only, what it is part of. `broken`
  and `raced` are history. `broken` ends with an insertion whose two bytes are
  the last in the port: an answer that a mouse left there before it was unplugged
  can be taken for the new one (a port of six bytes shows it, one of two does not).
- **Alarm**: `alt_tick` with one alarm and a counter that wraps.
- **CharPipe** is what the console promises in each direction: characters go in
  and come out in order, at most `Capacity` under way. `JtagUart` implements it
  twice (`TxIsPipe`, `RxIsPipe`); the pipe is the FIFO of the core and what lies
  between the two pointers.
- **JtagUart**: the handler's passes, the timeout callback under `Alarm`'s ticks,
  and the program's write, read and close, an action per access to what the
  handler shares (snapshot of a pointer, copy, publication, enable under
  disabled interrupts, spin, check).
- **ParallelFir** and **SerialFir**: every register of the two generated filters.
  The parallel one is the abstract specification of the serial one: seen once
  per sample, and one sample later, both do the same (`ImplementsParallel`).
  `behind`, the two delay lines before, is history and the refinement mapping.
- **Denoise**: both programs; `hardware` tells which. A recorded word is known by
  its channel, place and recording. `ALT_CI_FIR_SER_0` is a step per clock of
  the instruction, `filter` one step per word. The custom instruction's wrapper
  is not in the repository: the filter is taken to be enabled while the
  instruction runs, and its output to be read at the last clock.

`PROJECT.json`, "map", names the lines of every definition.

## 3. Runs

| Run | Question | States |
|---|---|---|
| `lab1` | The board: from serial line to serial line, is every sample filtered in order and every result sent, across resets? Is the output of the filter in it the convolution, and does it implement `Fir`? The bench: does it get each sample's answer, the right one, in the number of edges it asserts? The receiver: is every byte made ready once and in time, and how often can it be wrong? | 521 436 |
| `firmware` | The accelerator under `take_mean`: does it stay in the buffers, cover all chunks and end? Sound: do recordings and playbacks complete, is an interrupt lost, where can a storm come from, do the bars keep in step? The mouse: is it told to send, do its packets stay together, does main show the last? | 518 396 |
| `console` | Is the console a pipe both ways, is a wake-up ever lost, do calls return, does the alarm come on time? | 334 879 |
| `denoise` | Where does each denoised word stand, whenever interrupts and recordings come? Is the serial filter's output the convolution two samples ago, at every clock, and does it implement the parallel filter? | 89 322 |

Runs that are expected to find a violation, each a disagreement between the
code and what the repository says of it ("findings" quotes it):

| Run | What it shows |
|---|---|
| `fir1` | `cout` (Counter.sv:26) comes at count 64 of a 7-bit counter whose low six bits address the taps: 65 products, tap 0 twice. |
| `take_mean_results` | `take_mean` either leaves its polling loop on the done bit from before go, before anything is written, or polls for ever: S1 waits for `start` to go down, which `take_mean` does at its next call only. |
| `take_mean_captured` | S4 captures a word other than the one S3 asked for: `done` of the master is never cleared, and `readdata` is sampled an edge early. |
| `audio_keys` | A key pressed while main changes the control register starts nothing: main writes back the enables it read before. |
| `audio_storm` | A recording or playback that ends between main's read and write of the control register has its interrupt enabled again although its buffer is finished. `audio_ISR` then disables nothing, the interrupt stays pending, and main never runs again. |
| `console_gone` | A write to a full console buffer with no host never returns: the programs replace the HAL's timer handler (`media_interrupt_HAL.c:222`), so the alarm that watches for the host never goes off. |
| `async_receiver_bits` | `RxD_data` need not be the byte received: with the start bit seen in its first clocks (16 of 432 on the board) the later bits are one place late. |
| `lab1_stream` | As long as the host sends byte after byte, and `Matlab.m` does, there comes a result while the one before is still being sent; it is lost. |

What deserves a remark among the properties that hold: `RequestsInBounds` and
`AllChunksRequested` hold although a second call of `take_mean` reprograms the
machine while it may be leaving S1, with size 0 for some edges;
`FilterSeesSamples` holds although `ff1` is open during the whole low byte and
follows a register that is being filled; `Aligned` holds although the bytes AA 00
in the middle of a packet start a handshake; `InterruptsOn` holds although three
parties change `irq_enable`; `StormOnlyByMain` holds for any user, whatever keys
and buffer ends come together, so that main's three writes are all there is to
mend; `HardwareTwoBehind` holds although the filter's phase is never set to the
instruction's, because both take 64 clocks.

Behaviour that was met while modelling and is claimed by no run:

- How much a host has to pause. The line brings two bytes in 2 * `RxByte` clocks and
  the receiver may see the first a look late and the second early, while the
  transmitter needs 2 * 4343 clocks: `HostPauses` asks for 9118 clocks per sample
  on the board, 219 per byte beyond its ten bits; a second stop bit (434) is enough.
- A wrong byte is one in about 22 in a stream without pauses at the board's rates
  (`WrongIsRare`), and comes at 3.7 % of the phases otherwise; `BitsInPlace` says
  which bits are wrong (theorem `BitsWherePlaced`).
- Since `done` of the accelerator's master is stuck, the state machine and the
  address it drives (`accelerator_master.v:51`) move on while a transfer is still on
  the bus. With a slow SDRAM a read may be made at an address of the results and a
  result written into `r_buf`: `RequestsInBounds` is about what is asked for, not
  about what the bus does. The cause is the one `take_mean_captured` shows.
- KEY2 after a denoised playback plays the denoised buffer again, since
  `flag_denoise` is set by main only, and after the interrupt is enabled.
- `alt_up_ps2_wait_for_ack` has a timeout per byte, not for the whole wait
  (`altera_up_avalon_ps2.h:126` speaks of one): with the acknowledgment lost and
  a mouse that keeps moving, `PS2_ISR` does not return.
- `setMouseBounds` takes bit 7 of a movement for its sign, which is in the first
  byte of the packet; a movement by 128 or more goes the other way.
- Record of Lab#3 filters the buffers while audio_ISR fills them: what was recorded
  before, a mixture, or nothing. The finished recording is filtered by the next
  Record at the earliest (`Denoise`).
- `Lab#3/Software/filter.c` computes `float_in` and filters `in`.

## 4. Bounds

- `lab1`, `fir1`: 2 and 4 taps instead of 64 and two samples besides the reset
  value. Control depends on the counter only; `Taps` = 2 has a first and a last
  position, the theorems cover every number.
- `lab1`, the board: 3 clocks per bit of the transmitter instead of 434, and 2 per
  look, so that the overhead of `trn_cu` per byte and the window of a look are large
  against a bit, not small. `RxByte` = 34 is the least for which nothing is lost
  (33 fails, as does 30, a host that does not pause: `lab1_stream`). The two samples
  are each other's bytes exchanged, so any mistake in the order of bytes shows. A
  filter faster than a byte is assumed (`FilterAssumption`), as on the board (about
  70 clocks and a look of 432 against 4340). The top level gives the filter one word
  at a time; a word at any edge, and wires that change while it works, are covered
  by the theorems about `Fir2`.
- `lab1`, the receiver: 45 clocks per bit and ticks of 11, for 434 and 108, with one
  clock of difference per bit (two in the code); every phase, any pause. `Run` = 4
  right bytes between two wrong ones is the most `RunAssumption` allows at these
  rates (21 at the board's). `async_receiver_bits` has 109 and 27.
- `firmware`, the mouse: three packets (AA 00 at both places a packet can have it,
  and FA as a byte of a packet, which outside a handshake is an ordinary one), a FIFO
  of two bytes, so that it overflows under the initialisation as well as under the
  handler. The theorems cover every size of the FIFO and every set of packets.
- `console`: ring buffers of 3 (2 characters), FIFOs of 2 and 1, calls of up to 2
  characters, so that buffers fill, wrap and empty. Character numbers are modulo
  6, more than are ever under way and a multiple of the ring's length. Timeout,
  period and the wrap of the tick counter are 1, 2 and 4 with an odd start, so
  that alarms fall on both sides of the wrap. A program either writes or reads,
  with close in both: there is one thread, and the directions share only
  `irq_enable` and `host_inactive`. Spinning loads are re-read each time: the
  drivers are compiled with -O0 (`lab4-1.objdump`).
- `denoise`: three taps, buffers of four words, so that answers reach from one
  channel into the next; two recordings. The serial filter's reset comes with the
  board's and is left to the theorems.
- `firmware`, `take_mean`: two chunks of two words of two bits; the counters are two
  bits wide (`num_iteration` has 11 in the code, `size_iteration` 19, compared with
  fields of 11 and 19) so that one step too many wraps. Buffers do not
  start at 0 and are apart. Between two accesses any number of edges may pass,
  which covers any speed of the processor.
- `firmware`, sound: FIFO depth 4 and threshold 3 in units of 32 words (128 and 96), a
  recording of two chunks of 7 units, not a multiple of the FIFO.
- `MaxLate` = 1: how many units may arrive in one round of the main loop while
  nothing is pending. A round with all its drawing is far shorter than a chunk,
  which plays for half a second; without the bound `flag_play`, a single
  bit, could be overwritten. `ChunkAssumption` says how long a chunk has to be
  for that: 7 units with these bounds. A chunk of the board, 25000 words or 781
  units, allows `MaxLate` = 291.
- `Patient` = TRUE in `firmware`: the user presses a key or points to a command
  when the system is at rest, and lets the mouse button go again. Without it
  the bars get out of step (a key during a playback), a key may be lost
  (`audio_keys`), and an interrupt may stay pending for ever (`audio_storm`); these
  two runs have `Patient` = FALSE.

## 5. Fairness

- The filter: weak fairness of the edges outside `wait_input`; the clock runs.
  In `wait_input` it may stay for ever. The bench and the board: weak fairness of
  an edge. A switch turned on again and again is allowed, and clears what is
  owed.
- `take_mean`: weak fairness of an edge without `waitrequest` (an SDRAM that
  refreshes, but answers) and of an access of the processor. No assumption on
  their order: `RunEnds` holds for any processor.
- The mouse: it sends what it has to send, and the processor runs.
- `console`: the processor runs. The host may stop at any time, and so may the
  ticks, since the programs replace the handler that counts them. `CallsReturn` says
  what follows if the host goes on reading, or if it is gone for good and the ticks
  go on; without ticks a write need not return (`console_gone`).
- Sound: weak fairness of the codec's clock, of each handler, of main and of
  the release of the mouse button. A handler comes before main because main is
  disabled while something is pending, as in `alt_irq_handler.c`; this is why
  an interrupt that stays pending would stop main for ever (`NoStorm`).

## 6. What is proved

Every theorem holds for all values of the constants that the named assumptions
of its component allow; TLC evaluates these assumptions on the runs.

**The filters** (`FirData`'s assumptions: there is a tap, the reset value is not
a sample).

- `Fir2Proofs`: `TypeCorrect`, `PartialSumsInvariant`, `OutputCorrect`,
  `Refinement` (`Spec => F!Spec`, F the abstract filter under the refinement
  mapping of `Fir2`).
- `Fir1Proofs`: `TypeCorrect`, `PartialSumsInvariant`, and `NewestCountedTwice`,
  which says exactly what FIR1 computes: the convolution with the newest
  sample's product counted twice.
- `SerialFirProofs` (for more than one tap): `TypeCorrect`, `SumsInvariant`,
  `OutputCorrect`, `Refinement` (`Spec => ImplementsParallel`).

That the output is the convolution is not inductive: nothing in it says what the
accumulator holds in the middle. The invariant that is, `TypeOK /\ PartialSums`,
says that before the k-th addition the accumulator holds the products of exactly
the taps below k, that the counter is 0 outside `calc`, and that the accumulator
is empty before. Its step in `calc` rests on one lemma, `AccumulateNext`: adding
the product of tap n to the partial sum of n products gives that of n + 1.
`CalcStep` (`CalculatingStep` for FIR1) applies it to the two cases of the
counter, at the last tap and below. Every other action resets or keeps the
variables involved. `Refinement` uses the invariant for the step into `finish`,
where the abstract filter computes its answer at once; all other steps are
stutters or map one to one.

In the serial filter no register but the last ever shows a convolution for
long; `SumsInTurn` says of all three what they hold at every count: the products
of the current line below the count, the whole sum of the line before it (or of
the one before that, at count 0), and the answer to the line two before.
`AccStep` is its step of the accumulator, by the same `AccumulateNext`. The
refinement needs one more invariant, `OneWordApart`: the line is the one before
it with one word shifted in, which is the word the parallel filter takes.

**The test bench of FIR2** (`Fir2Proofs`): `AnswerInTime`, `AnswerIsExpected`.
`TbInv` ties the bench's place to the filter's: while the bench waits, the
edges it has counted are the filter's state and counter, and the sample it drove
is in its hand or in the filter's line.

**The top level** (`Fir2Proofs`): `FilterInTop` (`TopSpec => Spec`, so that all
theorems about `Fir2` hold in the board), `FilterSees`, `NeverLost`,
`AnswersAreSent`, for any number of taps, bit time and byte time. Assumed are that
a bit takes two clocks or more, that a byte takes longer than ten looks
(`RxByteAssumption`), that a sample takes the filter less than a byte comes in,
even one that is seen a look early (`FilterAssumption`: `Taps + 6 + Look <
RxByte`, about 70 + 432 against 4340 on the board), and that words are pairs of
bytes (`BytePairs`, a hypothesis of the theorems, since `Fir2` alone does not need
it). The last two theorems have the host's pause as a hypothesis, `HostPauses`,
which says that the time in which two bytes come in, less one look, is at least
the time a result takes to go out; it is exact: with one clock less TLC finds a
lost result. The invariant `TopInv` has four parts. `RecFollows` ties `rec_cu`'s
state to the byte coming in; it is what makes the open latch `ff1` harmless.
`FilterFollows` gives every sample an age, the edges since its low byte came in,
and says that age and the time to the next sample together are two bytes less a
look at least, so the filter holds one sample at a time. `InTime` is an inequality
between two clocks: how long `trn_cu` and the transmitter are still at work
(`BusyFor`) and when the filter shows its next result at the earliest
(`NextFinish`); both go down by one at every edge (`TxStep`, `FinishStep`), and
when a result is shown the next one is two bytes less a look ahead. Without it
`NothingLost` is not inductive. `Owed` says which bytes of a result are still to
be sent in each state of `trn_cu`, and that `ff2` holds it. The invariant has an
exception for the first edge of a reset, when `FIR_strt` is still what it was
(`FirstEdge`).

**The denoising programs** (`SerialFirProofs`): `FilterInside`
(`DenoiseSpec => Spec`), `HardwareCorrect`, `SoftwareCorrect`, for more than one
tap and any buffer size. `ProgramInv` says what the filter's delay line holds in
terms of the words fed so far (`LineSince`, across channels and recordings), and
that the filter's count and the clocks of the instruction never part.

**The accelerator under `take_mean`** (`TakeMeanProofs`): `TypeCorrect`,
`InBounds`, `AllRequested`, for any width of words and counters,
any buffers, and a recording whose chunks fit the counters (`ChunksAssumption`);
the SDRAM holds words (`RecordedAssumption`). Bounds alone are not inductive,
because `take_mean` reprograms the machine while a run may be going on.
`Programmed` says which registers hold what at each access, and that the machine
is in S0 before the first; `Counted` gives the two addresses in terms of the two
counters, state by state: an equation for the write address, for the read address
only an inequality, since a run that begins with size 0 cuts a chunk short.

**The receiver** (`AsyncReceiverProofs`): `ReadyOnce`, `ReadyInTime`,
`BitsWherePlaced`, `WrongRarely`, for all rates that are close enough that ten
looks reach the stop bit (`RatesAssumption`) and any `Run` the drift leaves room
for (`RunAssumption`). The invariant is about the place of the first look in the
start bit, `Seen`, from 0 to one look after its start, which is what `Lab1Top`
takes of the receiver (`ReadyInTime`): it stays the same during a byte (`InStep`),
decides which bits are in place (`Placed`), and moves by `Drift` from byte to byte
(`Streak`).

**Recording and playback** (`AudioFirmwareProofs`): `TypeCorrect` and
`StormBegins` for any user (an interrupt storm begins in one of main's three writes
of the control register, never in a handler); `OwedIsArmed` and `DisplayInStep` for
a patient one, for any sizes of
buffers, chunks and FIFOs for which a round of the main loop is shorter than a
recording (`RoundAssumption`) and than a chunk (`ChunkAssumption`; more than one
chunk). `Armed` says that the control register enables exactly what
is owed and unfinished. It is kept by main's read-modify-write only because the
copy main holds is still the register (`Prompt`), because nothing can finish in
between: an invariant about the progress of a recording, against the number of
units that may come late. `Polite` is what patience rules out.
`DisplayInStep` (`BarsInStep`) rests on `InSync`, about the single bit `flag_play`
between the handler, which sets it at each mark of the buffer, and main, which
clears it and draws a bar. `Marked` says which mark is passed next; `Counted`
counts the marks passed against the bars drawn or asked for; `Pace` bounds what was
played since the last mark by what came late in this round and the one before, so
the bit is clear when the next mark sets it. `Fresh` and `Held` say that no bar is
asked for when a playback begins, and that the button is let go soon after.

**The console** (`DriverProofs`): `NoneLost`, `TxImplements`, `RxImplements`
(both directions implement `CharPipe`), `OnTime` for the alarm, for any lengths of
rings and FIFOs, any set of programs, any period and any tick at the start. The
invariant says that the value a call holds of the other side's pointer is an
older one, so there is at least as much room, or at least as many characters, as
the call believes (`OldTxOut`, `OldRxIn`), and what the writer has copied and not
published (`Copied`). The rings as sequences (`RingIs`, `RingDrop`, `RingAdd`)
are the lemmas of the refinement: an interrupt moves characters inside the pipe,
publication of `tx_in` puts them in, the copy out of `rx_buf` takes them out,
though `rx_out` follows later. `OnTime` needs that the alarm's time is the
counter plus what is due, modulo the wrap, and that `rollover` says whether the
sum wraps.

**The mouse** (`DriverProofs`): `PacketsAligned` (`Aligned`) and `LastPacketShown`
(`ShownUnlessRaced`), for every set of packets and every size of the port's FIFO.
`Aligned` speaks of three bytes already read, so its invariant has to speak of the
bytes still to come, in the port and in the mouse, as one stream
(`InPackets(j, c)`: behind the first `j` bytes of the port, the parts of packets in
turn, beginning with byte `c`, and the stream ends with a packet). Between two
bytes it holds from the front with `c = cnt` (`Counting`). In a handshake the port
may hold pieces of a packet cut short by F4; then the acknowledgment is still in
the mouse, or it is in the port and a packet begins behind it (`Handshake`). A byte
that leaves the mouse, a new packet and a byte read keep the stream (`SendKeeps`,
`MoveKeeps`, `ReadsPart`, `ReadsAhead`).

## 7. What is only model-checked

All liveness: `EverySampleAnswered`, `RunEnds`, `ResultSentInTheEnd`,
`RecordingCompletes`, `PlaybackCompletes`, `CallsReturn`, `NothingStaysBehind`,
`EnabledInTheEnd`, and the fairness part of `ImplementsFir` (fairness and ENABLED
are out of the prover's reach). Every invariant that a run checks is stated by a
theorem.

## 8. What is not modelled

- Numbers: products, means, heights, the conversion in `Matlab.m`, rounding in the
  filters of Lab#3 (the same expressions in both); `CoefMem` of FIR2 is generated
  and not in the repository.
- In `Lab1Top` the bits on the serial line: the transmitter keeps a byte as a
  value, and of the receiver only at which look its byte is ready.
- The board reset of the accelerator; it happens once, before the program runs.
- The left channel in `AudioFirmware`: the left FIFOs move with the right ones.
  `take_mean` is taken to return there; `TakeMean` shows when it does not.
- Drawing and the cursor's arithmetic; in `AudioFirmware` the mouse may point at
  any command.
- The interval timer's handler: it sets a flag nothing waits for and scrolls the
  LCD. `filter.c` of Lab#4: its caller is commented out. `FIRtb.sv` changes its
  wires on the clock edges themselves, so what the filter sees is the
  simulator's choice.
- Of the console driver ioctl, which nothing calls; of the HAL's alarms the list
  of several alarms and `alt_alarm_stop`.
- The rest of the board support packages, most of the repository's lines: three
  copies (Lab#2, 3 and 4) of the same files, of which one is modelled where it
  matters; headers of register names; start-up code; and drivers that no program
  is linked with (`lab4-1.map`): SD card, USB, IrDA, RS232. The tables of samples
  in the generated benches are data. The share of the repository's lines that
  can be modelled is small for this reason.
- Lab#2, whose echo is an earlier form of what Lab#4 does with its buffers.

The audio core, the Avalon fabric, the SDRAM, the codec and the user are not in
the repository; they are modelled from how the code uses them and marked
external.

## 9. Plan

Done, in this order: the filters with the abstract filter and their proofs, the
bench, the accelerator under `take_mean`, the firmware, the top level, the
receiver, the mouse, the console with its alarm, the filters of Lab#3 with their
proofs, the denoising programs.

Theorems about all of these (section 6).
