---------------------------- MODULE Accelerator ----------------------------
(***************************************************************************)
(* Lab#4/verolig_codes/accelerator.v: the averaging accelerator, with its  *)
(* Avalon slave (AccSlave) and master (AccMaster).  For each of num chunks *)
(* it reads size words of the right channel's buffer and writes the two    *)
(* words of a sum.  All three parts are clocked together: Edge is one      *)
(* rising edge of csi_clock_clk.                                           *)
(*                                                                         *)
(* Addresses count words (the code adds 4 per word).  addr_read_left is    *)
(* loaded and never used in the code, and is left out.                     *)
(***************************************************************************)
EXTENDS Naturals, AccSlave, AccMaster

CONSTANTS WordMod,  \* 2^32: the values of a data word
          SizeMod,  \* 2^19: the values of size_iteration
          NumMod    \* 2^11: the values of num_iteration

ASSUME ModAssumption == /\ WordMod \in Nat \ {0, 1}
                        /\ SizeMod \in Nat \ {0}
                        /\ NumMod \in Nat \ {0}

VARIABLES state, addr_write, addr_read_right, master_adr, captured_data,
          acc, size_iteration, num_iteration, write_data_master

fsmVars == <<state, addr_write, addr_read_right, master_adr, captured_data,
             acc, size_iteration, num_iteration, write_data_master>>
accVars == <<slaveVars, masterVars, fsmVars>>

AccInit == /\ SlaveInit
           /\ MasterInit
           /\ state = "S0"
           /\ addr_write = 0
           /\ addr_read_right = 0
           /\ master_adr = 0
           /\ captured_data = 0
           /\ acc = 0
           /\ size_iteration = 0
           /\ num_iteration = 0
           /\ write_data_master = 0

-----------------------------------------------------------------------------
(* Wires.                                                                  *)

size_cmp == size_iteration < slv_reg0.size

\* Mutated form: one chunk too many.
num_cmpLate == num_iteration <= slv_reg0.num
num_cmp == num_iteration < slv_reg0.num

\* of_data has no declaration: it is one bit wide, the lowest bit of the
\* magnitude of the captured two's complement word.
of_data == IF 2 * captured_data >= WordMod
             THEN (WordMod - captured_data) % 2
             ELSE captured_data % 2

slave_done       == state = "S0"
read_master_req  == state = "S3"
write_master_req == state \in {"S7", "S10"}
master_start     == read_master_req \/ write_master_req

-----------------------------------------------------------------------------
(* One edge of the state machine in each state.                            *)

\* S0 latches the addresses when the CPU raises start.
WaitStart ==
    /\ state = "S0"
    /\ IF slv_reg0.start
         THEN /\ state' = "S1"
              /\ addr_write' = slv_reg3
              /\ addr_read_right' = slv_reg1
              /\ acc' = 0
              /\ size_iteration' = 0
              /\ num_iteration' = 0
         ELSE UNCHANGED <<state, addr_write, addr_read_right, acc,
                          size_iteration, num_iteration>>
    /\ UNCHANGED <<master_adr, captured_data, write_data_master>>

\* S1 waits until the CPU has taken start back.
WaitStartLow ==
    /\ state = "S1"
    /\ state' = IF slv_reg0.start THEN "S1" ELSE "S2"
    /\ UNCHANGED <<addr_write, addr_read_right, master_adr, captured_data,
                   acc, size_iteration, num_iteration, write_data_master>>

\* S2.  Mutated form: the word counter is not advanced.
NextReadUncounted ==
    /\ state = "S2"
    /\ state' = "S3"
    /\ master_adr' = addr_read_right
    /\ addr_read_right' = addr_read_right + 1
    /\ UNCHANGED <<addr_write, captured_data, acc, size_iteration,
                   num_iteration, write_data_master>>
NextRead ==
    /\ state = "S2"
    /\ state' = "S3"
    /\ master_adr' = addr_read_right
    /\ addr_read_right' = addr_read_right + 1
    /\ size_iteration' = (size_iteration + 1) % SizeMod
    /\ UNCHANGED <<addr_write, captured_data, acc, num_iteration,
                   write_data_master>>

\* S3, S7 and S10 only raise the request.
Request(from, to) ==
    /\ state = from
    /\ state' = to
    /\ UNCHANGED <<addr_write, addr_read_right, master_adr, captured_data,
                   acc, size_iteration, num_iteration, write_data_master>>

\* S4.
Capture ==
    /\ state = "S4"
    /\ IF done THEN state' = "S5" /\ captured_data' = readdata
               ELSE UNCHANGED <<state, captured_data>>
    /\ UNCHANGED <<addr_write, addr_read_right, master_adr, acc,
                   size_iteration, num_iteration, write_data_master>>

\* S5.
AddWord ==
    /\ state = "S5"
    /\ state' = IF size_cmp THEN "S2" ELSE "S6"
    /\ acc' = (acc + of_data) % (WordMod * WordMod)
    /\ UNCHANGED <<addr_write, addr_read_right, master_adr, captured_data,
                   size_iteration, num_iteration, write_data_master>>

\* S6: the low word of the sum.
WriteLow ==
    /\ state = "S6"
    /\ state' = "S7"
    /\ num_iteration' = (num_iteration + 1) % NumMod
    /\ write_data_master' = acc % WordMod
    /\ master_adr' = addr_write
    /\ addr_write' = addr_write + 1
    /\ UNCHANGED <<addr_read_right, captured_data, acc, size_iteration>>

\* S8.
LowWritten ==
    /\ state = "S8"
    /\ state' = IF done THEN "S9" ELSE "S8"
    /\ UNCHANGED <<addr_write, addr_read_right, master_adr, captured_data,
                   acc, size_iteration, num_iteration, write_data_master>>

\* S9: the high word.  Mutated form: it overwrites the low word's place.
WriteHighInPlace ==
    /\ state = "S9"
    /\ state' = "S10"
    /\ write_data_master' = acc \div WordMod
    /\ master_adr' = addr_write
    /\ UNCHANGED <<addr_write, addr_read_right, captured_data, acc,
                   size_iteration, num_iteration>>
WriteHigh ==
    /\ state = "S9"
    /\ state' = "S10"
    /\ write_data_master' = acc \div WordMod
    /\ master_adr' = addr_write
    /\ addr_write' = addr_write + 1
    /\ UNCHANGED <<addr_read_right, captured_data, acc, size_iteration,
                   num_iteration>>

\* S11: the next chunk, or back to S0.
HighWritten ==
    /\ state = "S11"
    /\ IF done
         THEN /\ state' = IF num_cmp THEN "S2" ELSE "S0"
              /\ size_iteration' = 0
              /\ acc' = 0
         ELSE UNCHANGED <<state, size_iteration, acc>>
    /\ UNCHANGED <<addr_write, addr_read_right, master_adr, captured_data,
                   num_iteration, write_data_master>>

FsmEdge == \/ WaitStart
           \/ WaitStartLow
           \/ NextRead
           \/ Request("S3", "S4")
           \/ Capture
           \/ AddWord
           \/ WriteLow
           \/ Request("S7", "S8")
           \/ LowWritten
           \/ WriteHigh
           \/ Request("S10", "S11")
           \/ HighWritten

\* reg and data: the CPU's write; waitrequest and bus: the SDRAM's side.
Edge(reg, data, waitrequest, bus) ==
    /\ SlaveEdge(reg, data, slave_done)
    /\ MasterEdge(master_start, read_master_req, write_master_req,
                  waitrequest, bus)
    /\ FsmEdge
=============================================================================
