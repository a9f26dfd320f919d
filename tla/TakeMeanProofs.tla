--------------------------- MODULE TakeMeanProofs ---------------------------
(***************************************************************************)
(* The averaging accelerator under take_mean, for every number and size of *)
(* chunks, every place of the buffers and every width of the words: the    *)
(* master stays inside the buffers, and a run asks for all its chunks.     *)
(***************************************************************************)
EXTENDS TakeMean, Integers, TLAPS

(***************************************************************************)
(* What the CPU has programmed by the time it reaches each access, and     *)
(* what the machine may therefore rely on when it sees start.              *)
(***************************************************************************)
Config == [start : BOOLEAN, num : {0, Num}, size : {0, Size}, done : BOOLEAN]

Before    == {"idle", "set_num"}
AfterNum  == {"read_config", "set_size", "set_right", "set_left", "set_out",
              "read_config_go", "go"}
AfterSize == AfterNum \ {"read_config", "set_size"}

Programmed ==
    /\ tmp \in Config
    /\ mem \in [RightArea -> Words]
    /\ cpu \in Before /\ ~slv_reg0.start => state = "S0" /\ num_iteration = 0
    /\ slv_reg0.start => /\ slv_reg0.num = Num /\ slv_reg0.size = Size
                         /\ slv_reg1 = RightBuf /\ slv_reg3 = OutBuf
    /\ cpu \in AfterNum => ~slv_reg0.start /\ slv_reg0.num = Num
    /\ cpu \in AfterSize => slv_reg0.size = Size
    /\ cpu \in AfterSize \ {"set_right"} => slv_reg1 = RightBuf
    /\ cpu \in {"read_config_go", "go"} => slv_reg3 = OutBuf
    /\ cpu = "set_size" => ~tmp.start /\ tmp.num = Num
    /\ cpu = "go" => tmp.num = Num /\ tmp.size = Size
    /\ cpu \in {"poll", "returned"} => slv_reg0.start
    /\ state # "S0" => slv_reg0.num = Num

(***************************************************************************)
(* Where the two counters put the two addresses, state by state.  A chunk  *)
(* may be cut short (size is 0 for a while during programming), so the     *)
(* read address is bounded by the counters and the write address is equal  *)
(* to what they say.                                                       *)
(***************************************************************************)
Reading == {"S2", "S3", "S4", "S5", "S6"}
Fetched == Reading \ {"S2"}
LowSent == {"S7", "S8", "S9"}
HighSent == {"S10", "S11"}

Counted ==
    /\ addr_write \in Nat /\ addr_read_right \in Nat
    /\ state = "S0" =>
          \/ num_iteration = 0
          \/ num_iteration = Num /\ addr_write = OutBuf + 2 * Num
    /\ state \in {"S1"} \cup Reading =>
          /\ num_iteration < Num
          /\ addr_write = OutBuf + 2 * num_iteration
          /\ RightBuf <= addr_read_right
          /\ addr_read_right
                <= RightBuf + num_iteration * Size + size_iteration
    /\ state = "S1" => num_iteration = 0 /\ size_iteration = 0
    /\ state = "S2" => size_iteration < Size
    /\ state \in Fetched => /\ size_iteration > 0
                            /\ master_adr = addr_read_right - 1
                            /\ RightBuf < addr_read_right
    /\ state \in LowSent \cup HighSent =>
          /\ num_iteration > 0
          /\ RightBuf <= addr_read_right
          /\ addr_read_right <= RightBuf + num_iteration * Size
    /\ state \in LowSent => addr_write = OutBuf + 2 * num_iteration - 1
    /\ state \in HighSent => addr_write = OutBuf + 2 * num_iteration
    /\ state \in {"S7", "S10"} => master_adr = addr_write - 1

IInv == MeanTypeOK /\ Programmed /\ Counted

-----------------------------------------------------------------------------
(***************************************************************************)
(* A counter below its bound does not wrap.                                *)
(***************************************************************************)
LEMMA NoWrap ==
    ASSUME NEW n \in Nat, NEW bound \in Nat, NEW mod \in Nat,
           n < bound, bound < mod
    PROVE  (n + 1) % mod = n + 1
OBVIOUS

(***************************************************************************)
(* The words of n chunks, n below Num, are inside the buffer.              *)
(***************************************************************************)
LEMMA Chunks ==
    ASSUME NEW n \in Nat
    PROVE  /\ n * Size \in Nat
           /\ (n + 1) * Size = n * Size + Size
           /\ n < Num => (n + 1) * Size <= Num * Size
BY ChunksAssumption, ModAssumption

(***************************************************************************)
(* The numbers of the system.                                              *)
(***************************************************************************)
LEMMA Constants ==
    /\ Num \in Nat /\ Size \in Nat /\ RightBuf \in Nat /\ OutBuf \in Nat
    /\ Num > 0 /\ Size > 0 /\ Num < NumMod /\ Size < SizeMod
    /\ NumMod \in Nat /\ SizeMod \in Nat
    /\ WordMod \in Nat /\ WordMod > 1 /\ 0 \in Words
BY ChunksAssumption, ModAssumption DEF Words

(***************************************************************************)
(* Whatever the CPU does, a tick is one edge of the accelerator and one of *)
(* the memory.                                                             *)
(***************************************************************************)
LEMMA TickIsEdge ==
    ASSUME NEW w, AnyTick(w)
    PROVE  \E reg, data : \E bus \in BusShows(w) :
              Edge(reg, data, w, bus) /\ Memory(w)
BY DEF AnyTick, Access, Stall, NoAccess, Write, Call, SetNum, ReadConfig,
       SetSize, SetRight, SetLeft, SetOut, ReadConfigGo, Go, Poll, Return

(***************************************************************************)
(* The bus shows words, and the memory holds words.                        *)
(***************************************************************************)
LEMMA BusIsWord ==
    ASSUME Programmed, NEW w
    PROVE  BusShows(w) \subseteq Words
BY RecordedAssumption DEF BusShows, Programmed

LEMMA MemoryHoldsWords ==
    ASSUME MeanTypeOK, Programmed, NEW w, Memory(w)
    PROVE  mem' \in [RightArea -> Words]
BY DEF MeanTypeOK, Programmed, Memory

(***************************************************************************)
(* The transfer unit keeps its types.                                      *)
(***************************************************************************)
MasterType ==
    /\ ps \in {"S0", "SREAD", "SWRITE", "FIN"}
    /\ done \in BOOLEAN /\ read \in BOOLEAN /\ write \in BOOLEAN
    /\ readdata \in Words

LEMMA MasterTypes ==
    ASSUME MasterType, NEW w, NEW bus \in Words,
           MasterEdge(master_start, read_master_req, write_master_req, w, bus)
    PROVE  MasterType'
<1>1. CASE S0(master_start, read_master_req, write_master_req)
  BY <1>1 DEF S0, MasterType
<1>2. CASE SREAD(w, bus)
  BY <1>2 DEF SREAD, MasterType
<1>3. CASE SWRITE(w)
  BY <1>3 DEF SWRITE, MasterType
<1>4. CASE FIN
  BY <1>4 DEF FIN, MasterType
<1> QED  BY <1>1, <1>2, <1>3, <1>4 DEF MasterEdge

(***************************************************************************)
(* The state machine keeps its types: no counter wraps, and the sum is cut *)
(* to its width.                                                           *)
(***************************************************************************)
FsmType ==
    /\ captured_data \in Words
    /\ state \in {"S0", "S1", "S2", "S3", "S4", "S5", "S6", "S7", "S8", "S9",
                  "S10", "S11"}
    /\ acc \in 0 .. WordMod * WordMod - 1
    /\ write_data_master \in Words
    /\ size_iteration \in 0 .. Size
    /\ num_iteration \in 0 .. Num

LEMMA FsmTypes ==
    ASSUME FsmType, Counted, readdata \in Words, FsmEdge
    PROVE  FsmType'
<1> USE DEF FsmType
<1> DEFINE m == WordMod * WordMod
<1>0. m \in Nat /\ m > 0
  BY Constants
<1>a. 0 \in 0 .. m - 1 /\ 0 \in 0 .. Size /\ 0 \in 0 .. Num
  BY <1>0, Constants
<1>1. CASE WaitStart
  BY <1>1, <1>a DEF WaitStart
<1>2. CASE WaitStartLow
  BY <1>2 DEF WaitStartLow
<1>3. CASE NextRead
  <2>1. size_iteration' = size_iteration + 1 /\ size_iteration < Size
    BY <1>3, Constants, NoWrap DEF NextRead, Counted
  <2> QED  BY <1>3, <2>1, Constants DEF NextRead
<1>4. CASE Request("S3", "S4")
  BY <1>4 DEF Request
<1>5. CASE Capture
  BY <1>5 DEF Capture
<1>6. CASE AddWord
  <2>1. of_data \in Nat
    BY Constants DEF of_data, Words
  <2>2. acc' \in 0 .. m - 1
    <3> HIDE DEF m
    <3>1. acc + of_data \in Int
      BY <2>1, <1>0 DEF m
    <3>2. acc' = (acc + of_data) % m
      BY <1>6 DEF AddWord, m
    <3> QED  BY <3>1, <3>2, <1>0
  <2> QED  BY <1>6, <2>2 DEF AddWord
<1>7. CASE WriteLow
  <2>1. num_iteration' = num_iteration + 1 /\ num_iteration < Num
    BY <1>7, Constants, NoWrap DEF WriteLow, Counted, Reading
  <2>2. write_data_master' \in Words
    BY <1>7, <1>0, Constants DEF WriteLow, Words
  <2> QED  BY <1>7, <2>1, <2>2, Constants DEF WriteLow
<1>8. CASE Request("S7", "S8")
  BY <1>8 DEF Request
<1>9. CASE LowWritten
  BY <1>9 DEF LowWritten
<1>10. CASE WriteHigh
  <2>1. acc \div WordMod \in Words
    BY Constants DEF Words
  <2> QED  BY <1>10, <2>1 DEF WriteHigh
<1>11. CASE Request("S10", "S11")
  BY <1>11 DEF Request
<1>12. CASE HighWritten
  BY <1>12, <1>a DEF HighWritten
<1> QED
  BY <1>1, <1>2, <1>3, <1>4, <1>5, <1>6, <1>7, <1>8, <1>9, <1>10, <1>11,
     <1>12 DEF FsmEdge

(***************************************************************************)
(* The counters and addresses stay together over an edge of the machine.   *)
(***************************************************************************)
LEMMA CountedStep ==
    ASSUME FsmType, Programmed, Counted, FsmEdge,
           slv_reg0.size \in {0, Size}
    PROVE  Counted'
<1> USE DEF FsmType, Counted, Reading, Fetched, LowSent, HighSent
<1> USE Constants
<1>0. /\ num_iteration * Size \in Nat
      /\ (num_iteration + 1) * Size = num_iteration * Size + Size
      /\ 0 * Size = 0
  BY Chunks
<1>1. CASE WaitStart
  BY <1>0, <1>1 DEF WaitStart, Programmed
<1>2. CASE WaitStartLow
  BY <1>0, <1>2 DEF WaitStartLow
<1>3. CASE NextRead
  <2>1. size_iteration' = size_iteration + 1
    BY <1>3, NoWrap DEF NextRead
  <2> QED  BY <1>0, <1>3, <2>1 DEF NextRead
<1>4. CASE Request("S3", "S4")
  BY <1>4 DEF Request
<1>5. CASE Capture
  BY <1>5 DEF Capture
<1>6. CASE AddWord
  BY <1>0, <1>6 DEF AddWord, size_cmp
<1>7. CASE WriteLow
  <2>1. num_iteration' = num_iteration + 1
    BY <1>7, NoWrap DEF WriteLow
  <2> QED  BY <1>0, <1>7, <2>1 DEF WriteLow
<1>8. CASE Request("S7", "S8")
  BY <1>8 DEF Request
<1>9. CASE LowWritten
  BY <1>9 DEF LowWritten
<1>10. CASE WriteHigh
  BY <1>10 DEF WriteHigh
<1>11. CASE Request("S10", "S11")
  BY <1>11 DEF Request
<1>12. CASE HighWritten
  BY <1>0, <1>12 DEF HighWritten, num_cmp, Programmed
<1> QED
  BY <1>1, <1>2, <1>3, <1>4, <1>5, <1>6, <1>7, <1>8, <1>9, <1>10, <1>11,
     <1>12 DEF FsmEdge

(***************************************************************************)
(* What an access leaves in the registers: a write to config_reg is taken  *)
(* over except for its done bit, and every edge loads that one.            *)
(***************************************************************************)
Loaded(data) == [data EXCEPT !.done = slave_done]

LEMMA LoadedFields ==
    ASSUME NEW data \in Config
    PROVE  /\ Loaded(data) \in Config
           /\ Loaded(data).start = data.start
           /\ Loaded(data).num = data.num
           /\ Loaded(data).size = data.size
BY DEF Loaded, Config, slave_done

LEMMA WriteConfig ==
    ASSUME NEW w, NEW data, Write(w, 0, data)
    PROVE  slv_reg0' = Loaded(data) /\ UNCHANGED <<slv_reg1, slv_reg3>>
BY DEF Write, Edge, SlaveEdge, Loaded

LEMMA WriteAddress ==
    ASSUME NEW w, NEW reg \in {1, 2, 3}, NEW data, Write(w, reg, data)
    PROVE  /\ slv_reg0' = Loaded(slv_reg0)
           /\ slv_reg1' = IF reg = 1 THEN data ELSE slv_reg1
           /\ slv_reg3' = IF reg = 3 THEN data ELSE slv_reg3
BY DEF Write, Edge, SlaveEdge, Loaded

LEMMA WriteNothing ==
    ASSUME NEW w, NoAccess(w)
    PROVE  slv_reg0' = Loaded(slv_reg0) /\ UNCHANGED <<slv_reg1, slv_reg3>>
BY DEF NoAccess, Write, Edge, SlaveEdge, NoWrite, Loaded

(***************************************************************************)
(* The three words take_mean writes to config_reg: N << 1, what it read    *)
(* with the size added, and what it read with start added.                 *)
(***************************************************************************)
NumWord   == [start |-> FALSE, num |-> Num, size |-> 0, done |-> FALSE]
SizeWord  == [tmp EXCEPT !.size = Size]
StartWord == [tmp EXCEPT !.start = TRUE]

LEMMA ConfigWords ==
    ASSUME tmp \in Config
    PROVE  /\ NumWord \in Config /\ NumWord.num = Num /\ ~NumWord.start
           /\ SizeWord \in Config /\ SizeWord.size = Size
           /\ SizeWord.num = tmp.num /\ SizeWord.start = tmp.start
           /\ StartWord \in Config /\ StartWord.size = tmp.size
           /\ StartWord.num = tmp.num /\ StartWord.start
BY DEF Config, NumWord, SizeWord, StartWord

LEMMA ConfigStep ==
    ASSUME MeanTypeOK, Programmed, NEW w, AnyTick(w)
    PROVE  slv_reg0' \in Config
<1>1. PICK data \in {slv_reg0, NumWord, SizeWord, StartWord} :
         slv_reg0' = Loaded(data)
  BY WriteConfig, WriteAddress, WriteNothing
  DEF AnyTick, Access, Stall, Call, SetNum, ReadConfig, SetSize, SetRight,
      SetLeft, SetOut, ReadConfigGo, Go, Poll, Return, NumWord, SizeWord,
      StartWord
<1>2. data \in Config
  BY ConfigWords DEF MeanTypeOK, Programmed, Config
<1> QED  BY <1>1, <1>2, LoadedFields

(***************************************************************************)
(* The CPU's accesses keep what it has programmed: config_reg |= ... writes *)
(* back what it read, and nothing but the CPU changes it in between.        *)
(***************************************************************************)
LEMMA ProgrammedStep ==
    ASSUME MeanTypeOK, Programmed, Counted, NEW w, AnyTick(w)
    PROVE  Programmed'
<1>1. mem' \in [RightArea -> Words]
  BY TickIsEdge, MemoryHoldsWords
<1>2. slv_reg0 \in Config /\ tmp \in Config
  BY DEF MeanTypeOK, Programmed, Config
<1>3. FsmEdge
  BY TickIsEdge DEF Edge
<1>4. /\ state = "S0" /\ ~slv_reg0.start =>
            state' = "S0" /\ num_iteration' = num_iteration
      /\ state' # "S0" => state # "S0" \/ slv_reg0.start
  BY <1>3 DEF FsmEdge, WaitStart, WaitStartLow, NextRead, Request, Capture,
     AddWord, WriteLow, LowWritten, WriteHigh, HighWritten
<1> USE <1>1, <1>2, <1>4, LoadedFields
<1> USE DEF Programmed, Before, AfterNum, AfterSize, MeanGoto
<1>5. CASE Stall(w)
  BY <1>5, WriteNothing DEF Stall
<1>6. CASE Call(w)
  BY <1>6, WriteNothing DEF Call
<1>7. CASE SetNum(w)
  <2>1. /\ slv_reg0' = Loaded(NumWord) /\ UNCHANGED tmp
        /\ cpu' = "read_config"
    BY <1>7, WriteConfig DEF SetNum, NumWord
  <2> QED  BY <2>1, ConfigWords
<1>8. CASE ReadConfig(w)
  BY <1>8, WriteNothing DEF ReadConfig
<1>9. CASE SetSize(w)
  <2>1. slv_reg0' = Loaded(SizeWord) /\ UNCHANGED tmp /\ cpu' = "set_right"
    BY <1>9, WriteConfig DEF SetSize, SizeWord
  <2>2. tmp.num = Num /\ ~tmp.start
    BY <1>9 DEF SetSize
  <2> QED  BY <2>1, <2>2, ConfigWords
<1>10. CASE SetRight(w)
  BY <1>10, WriteAddress DEF SetRight
<1>11. CASE SetLeft(w)
  BY <1>11, WriteAddress DEF SetLeft
<1>12. CASE SetOut(w)
  BY <1>12, WriteAddress DEF SetOut
<1>13. CASE ReadConfigGo(w)
  BY <1>13, WriteNothing DEF ReadConfigGo
<1>14. CASE Go(w)
  <2>1. /\ slv_reg0' = Loaded(StartWord) /\ UNCHANGED tmp /\ cpu' = "poll"
        /\ UNCHANGED <<slv_reg1, slv_reg3>>
    BY <1>14, WriteConfig DEF Go, StartWord
  <2>2. /\ slv_reg1 = RightBuf /\ slv_reg3 = OutBuf
        /\ tmp.num = Num /\ tmp.size = Size
    BY <1>14 DEF Go
  <2> QED  BY <2>1, <2>2, ConfigWords
<1>15. CASE Poll(w)
  BY <1>15, WriteNothing DEF Poll
<1>16. CASE Return(w)
  BY <1>16, WriteNothing DEF Return
<1> QED
  BY <1>5, <1>6, <1>7, <1>8, <1>9, <1>10, <1>11, <1>12, <1>13, <1>14, <1>15,
     <1>16 DEF AnyTick, Access

(***************************************************************************)
(* At reset nothing is programmed and nothing is counted.                  *)
(***************************************************************************)
LEMMA InitIInv == MeanInit => IInv
<1> SUFFICES ASSUME MeanInit PROVE IInv
  OBVIOUS
<1> USE Constants
<1> USE DEF MeanInit, AccInit, SlaveInit, MasterInit
<1>1. 0 \in 0 .. WordMod * WordMod - 1
  <2>1. WordMod * WordMod \in Nat /\ WordMod * WordMod > 0
    OBVIOUS
  <2> QED  BY <2>1
<1>2. MeanTypeOK
  <2>1. slv_reg0 \in Config
    BY DEF Config
  <2>2. MasterType
    BY DEF MasterType
  <2>3. FsmType
    BY <1>1 DEF FsmType
  <2> QED  BY <2>1, <2>2, <2>3 DEF MeanTypeOK, Config, MasterType, FsmType
<1>3. mem \in [RightArea -> Words]
  BY RecordedAssumption
<1>4. Programmed
  BY <1>3 DEF Programmed, Config, Before, AfterNum, AfterSize
<1>5. Counted
  BY DEF Counted, Reading, Fetched, LowSent, HighSent
<1> QED  BY <1>2, <1>4, <1>5 DEF IInv

(***************************************************************************)
(* A tick keeps the inductive invariant.                                   *)
(***************************************************************************)
LEMMA StepIInv == IInv /\ [MeanNext]_allVars => IInv'
<1> SUFFICES ASSUME IInv, [MeanNext]_allVars PROVE IInv'
  OBVIOUS
<1> USE DEF IInv
<1>1. ASSUME NEW w \in BOOLEAN, AnyTick(w)
      PROVE  IInv'
  <2>1. PICK reg, data : \E bus \in BusShows(w) :
                            Edge(reg, data, w, bus) /\ Memory(w)
    BY <1>1, TickIsEdge
  <2>2. PICK bus \in Words : Edge(reg, data, w, bus)
    BY <2>1, BusIsWord
  <2>3. FsmType /\ MasterType
    BY DEF MeanTypeOK, FsmType, MasterType
  <2>4. MasterType'
    BY <2>2, <2>3, MasterTypes DEF Edge
  <2>5. FsmType' /\ Counted'
    BY <2>2, <2>3, FsmTypes, CountedStep DEF Edge, MasterType, MeanTypeOK
  <2>6. Programmed'
    BY <1>1, ProgrammedStep
  <2>7. slv_reg0' \in Config
    BY <1>1, ConfigStep
  <2>8. cpu' \in {"idle", "set_num", "read_config", "set_size", "set_right",
                 "set_left", "set_out", "read_config_go", "go", "poll",
                 "returned"}
    BY <1>1 DEF MeanTypeOK, AnyTick, Access, MeanGoto, Call, SetNum,
       ReadConfig,
       SetSize, SetRight, SetLeft, SetOut, ReadConfigGo, Go, Poll, Return,
       Stall
  <2>9. MeanTypeOK'
    BY <2>4, <2>5, <2>7, <2>8 DEF MeanTypeOK, FsmType, MasterType, Config
  <2> QED  BY <2>5, <2>6, <2>9
<1>2. CASE UNCHANGED allVars
  BY <1>2 DEF allVars, accVars, sysVars, slaveVars, masterVars, fsmVars,
     MeanTypeOK, Programmed, Counted
<1> QED  BY <1>1, <1>2 DEF MeanNext

(***************************************************************************)
(* What the CPU has programmed and where the counters have put the         *)
(* addresses, in every reachable state.                                    *)
(***************************************************************************)
THEOREM Invariant == MeanSpec => []IInv
BY InitIInv, StepIInv, PTL DEF MeanSpec

(***************************************************************************)
(* Type correctness: no counter of the accelerator wraps, however the      *)
(* CPU's accesses fall among its edges.                                    *)
(***************************************************************************)
THEOREM TypeCorrect == MeanSpec => []MeanTypeOK
BY Invariant, PTL DEF IInv

(***************************************************************************)
(* The master never asks for an address outside r_buf and the results.     *)
(***************************************************************************)
THEOREM InBounds == MeanSpec => []RequestsInBounds
<1>1. IInv => RequestsInBounds
  <2> SUFFICES ASSUME IInv PROVE RequestsInBounds
    OBVIOUS
  <2> USE Constants DEF IInv, Counted, Reading, Fetched, LowSent, HighSent
  <2>1. num_iteration \in 0 .. Num /\ size_iteration \in 0 .. Size
    BY DEF MeanTypeOK
  <2>2. ASSUME state = "S3"
        PROVE  master_adr \in RightArea
    <3>1. num_iteration * Size + size_iteration <= Num * Size
      BY <2>1, <2>2, Chunks
    <3>2. num_iteration * Size \in Nat /\ Num * Size \in Nat
      BY <2>1, Chunks
    <3> QED  BY <2>1, <2>2, <3>1, <3>2 DEF RightArea
  <2>3. ASSUME state \in {"S7", "S10"}
        PROVE  master_adr \in OutArea
    BY <2>1, <2>3 DEF OutArea
  <2> QED  BY <2>2, <2>3 DEF RequestsInBounds
<1> QED  BY <1>1, Invariant, PTL

(***************************************************************************)
(* Back in S0 the machine has asked for both words of every chunk.         *)
(***************************************************************************)
THEOREM AllRequested == MeanSpec => []AllChunksRequested
<1>1. IInv => AllChunksRequested
  BY DEF IInv, Counted, AllChunksRequested
<1> QED  BY <1>1, Invariant, PTL
=============================================================================
