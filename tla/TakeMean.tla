------------------------------ MODULE TakeMean ------------------------------
(***************************************************************************)
(* The accelerator in its system: take_mean of audio_ISR.c programs it,    *)
(* and an SDRAM behind the Avalon fabric serves it.  A step is one clock   *)
(* edge, on which the CPU makes at most one access to the slave; between   *)
(* two accesses it may let any number of edges pass.  take_mean runs in an *)
(* interrupt handler and is called again for every finished recording.     *)
(*                                                                         *)
(* The fabric and the SDRAM are not in the repository.  They may assert    *)
(* waitrequest at any edge but not for ever, and show the addressed word   *)
(* only on the edge at which they accept a read.                           *)
(***************************************************************************)
EXTENDS Accelerator

CONSTANTS Num,       \* N: number of chunks
          Size,      \* BUF_SIZE / N: words per chunk
          RightBuf,  \* word address of r_buf
          LeftBuf,   \* word address of l_buf
          OutBuf,    \* 0x60000000: word address of the results
          Recorded,  \* the recorded samples, a sequence of words
          BusNoise   \* what the bus may show when no read is accepted

ASSUME ChunksAssumption ==
    /\ Num \in 1 .. NumMod - 1
    /\ Size \in 1 .. SizeMod - 1
    /\ RightBuf \in Nat /\ OutBuf \in Nat

Words     == 0 .. WordMod - 1
RightArea == RightBuf .. RightBuf + Num * Size - 1
OutArea   == OutBuf .. OutBuf + 2 * Num - 1

\* The bus and the SDRAM are one word wide.
ASSUME RecordedAssumption ==
    /\ \A a \in RightArea : Recorded[a - RightBuf + 1] \in Words
    /\ BusNoise \subseteq Words

VARIABLES cpu,     \* where take_mean is, "idle" when it is not running
          tmp,     \* the value read by a read-modify-write of config_reg
          mem,     \* r_buf in the SDRAM; nobody reads the results there
          written  \* history: addresses written between go and the return

sysVars == <<cpu, tmp, mem, written>>
allVars == <<accVars, sysVars>>

MeanInit ==
    /\ AccInit
    /\ cpu = "idle"
    /\ tmp = slv_reg0
    /\ mem = [adr \in RightArea |-> Recorded[adr - RightBuf + 1]]
    /\ written = {}

-----------------------------------------------------------------------------
(* One edge seen from the slave: the CPU writes data to register reg; the  *)
(* SDRAM accepts what is on the bus, or asks to wait.                      *)

BusShows(waitrequest) ==
    IF read /\ ~waitrequest /\ master_adr \in DOMAIN mem
      THEN {mem[master_adr]}
      ELSE BusNoise

Memory(waitrequest) ==
    mem' = [a \in RightArea |->
               IF write /\ ~waitrequest /\ a = master_adr
                 THEN write_data_master ELSE mem[a]]

Write(waitrequest, reg, data) ==
    /\ \E bus \in BusShows(waitrequest) : Edge(reg, data, waitrequest, bus)
    /\ Memory(waitrequest)

NoAccess(waitrequest) == Write(waitrequest, NoWrite, 0)

\* What is written while take_mean polls for the results.
Account(waitrequest) ==
    written' = IF cpu # "poll" THEN {}
               ELSE written \cup {a \in {master_adr} : write /\ ~waitrequest}

-----------------------------------------------------------------------------
(* take_mean: one access per action, w is waitrequest of the edge.         *)

MeanGoto(from, to) == cpu = from /\ cpu' = to

\* The CPU lets an edge pass.
Stall(w) == NoAccess(w) /\ UNCHANGED <<cpu, tmp>>

Call(w) == MeanGoto("idle", "set_num") /\ NoAccess(w) /\ UNCHANGED tmp

\* config_reg = N << 1: size and start become 0.
SetNum(w) ==
    /\ MeanGoto("set_num", "read_config")
    /\ Write(w, 0, [start |-> FALSE, num |-> Num, size |-> 0, done |-> FALSE])
    /\ UNCHANGED tmp

\* config_reg |= num << 12, in two accesses; the size field read is 0.
ReadConfig(w) ==
    /\ MeanGoto("read_config", "set_size")
    /\ NoAccess(w)
    /\ tmp' = slv_reg0

SetSize(w) ==
    /\ MeanGoto("set_size", "set_right")
    /\ Write(w, 0, [tmp EXCEPT !.size = Size])
    /\ UNCHANGED tmp

\* right_addr, left_addr and out_addr.
SetRight(w) ==
    MeanGoto("set_right", "set_left") /\ Write(w, 1, RightBuf) /\ UNCHANGED tmp
SetLeft(w) ==
    MeanGoto("set_left", "set_out") /\ Write(w, 2, LeftBuf) /\ UNCHANGED tmp
SetOut(w) ==
    /\ MeanGoto("set_out", "read_config_go")
    /\ Write(w, 3, OutBuf)
    /\ UNCHANGED tmp

\* config_reg |= 1, in two accesses: go.
ReadConfigGo(w) ==
    /\ MeanGoto("read_config_go", "go")
    /\ NoAccess(w)
    /\ tmp' = slv_reg0

Go(w) ==
    /\ MeanGoto("go", "poll")
    /\ Write(w, 0, [tmp EXCEPT !.start = TRUE])
    /\ UNCHANGED tmp

\* while (!((*config_reg >> 31) & 1)).  start stays up meanwhile.
Poll(w) ==
    /\ MeanGoto("poll", IF slv_reg0.done THEN "returned" ELSE "poll")
    /\ NoAccess(w)
    /\ UNCHANGED tmp

\* The loop that computes the means reads registers of the slave only.
Return(w) == MeanGoto("returned", "idle") /\ NoAccess(w) /\ UNCHANGED tmp

Access(w) == \/ Call(w) \/ SetNum(w) \/ ReadConfig(w) \/ SetSize(w)
             \/ SetRight(w) \/ SetLeft(w) \/ SetOut(w)
             \/ ReadConfigGo(w) \/ Go(w) \/ Poll(w) \/ Return(w)

CpuTick == \E w \in BOOLEAN : Access(w) /\ Account(w)
AnyTick(w) == (Access(w) \/ Stall(w)) /\ Account(w)

MeanNext == \E w \in BOOLEAN : AnyTick(w)

MeanSpec == MeanInit /\ [][MeanNext]_allVars

\* take_mean does not stall for ever, and the memory does not wait for ever.
MeanFairSpec == MeanSpec /\ WF_allVars(AnyTick(FALSE)) /\ WF_allVars(CpuTick)

-----------------------------------------------------------------------------
(* Properties.                                                             *)

(***************************************************************************)
(* Every register stays in its range: the counters that leave S2 and S6    *)
(* are stopped by size and num before they wrap at SizeMod and NumMod.     *)
(***************************************************************************)
MeanTypeOK ==
    /\ slv_reg0 \in [start : BOOLEAN, num : {0, Num}, size : {0, Size},
                     done : BOOLEAN]
    /\ ps \in {"S0", "SREAD", "SWRITE", "FIN"}
    /\ done \in BOOLEAN /\ read \in BOOLEAN /\ write \in BOOLEAN
    /\ readdata \in Words /\ captured_data \in Words
    /\ state \in {"S0", "S1", "S2", "S3", "S4", "S5", "S6", "S7", "S8", "S9",
                  "S10", "S11"}
    /\ acc \in 0 .. WordMod * WordMod - 1
    /\ write_data_master \in Words
    /\ size_iteration \in 0 .. Size
    /\ num_iteration \in 0 .. Num
    /\ cpu \in {"idle", "set_num", "read_config", "set_size", "set_right",
               "set_left", "set_out", "read_config_go", "go", "poll",
               "returned"}

(***************************************************************************)
(* The master is only ever asked to read inside r_buf and to write inside  *)
(* the result area, although the address registers are incremented freely  *)
(* and nothing but the two counters stops them, although take_mean may     *)
(* reprogram num and size while a run is going on, and although a run may  *)
(* begin while size is still 0.                                            *)
(***************************************************************************)
RequestsInBounds ==
    /\ state = "S3" => master_adr \in RightArea
    /\ state \in {"S7", "S10"} => master_adr \in OutArea

(***************************************************************************)
(* When the machine is back in S0 it has asked for exactly two words per   *)
(* chunk, for all the chunks.                                              *)
(***************************************************************************)
AllChunksRequested ==
    state = "S0" /\ num_iteration # 0 =>
        num_iteration = Num /\ addr_write = OutBuf + 2 * Num

(***************************************************************************)
(* Once it has left S1 the machine comes back to S0, as long as the memory *)
(* answers: it never waits for a transfer that was not started.            *)
(***************************************************************************)
RunEnds == state = "S2" ~> state = "S0"

(***************************************************************************)
(* audio_ISR.c:113 polls for "Done = 1", which accelerator.v:108 passes    *)
(* "to CPU by ACCS to recognize done by CPU": the loop ends, and by then   *)
(* the results have been written.                                          *)
(***************************************************************************)
ResultsInTheEnd ==
    cpu = "poll" ~> cpu = "returned" /\ OutArea \subseteq written

(***************************************************************************)
(* accelerator.v:180, "read from SDRAM": what S4 captures is the word at   *)
(* the address S3 asked for.                                               *)
(***************************************************************************)
CapturedIsRead == state = "S5" => captured_data = mem[master_adr]
=============================================================================
