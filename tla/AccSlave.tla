------------------------------ MODULE AccSlave ------------------------------
(***************************************************************************)
(* accelerator_slave.v: the four registers the CPU reaches over Avalon.    *)
(* slv_reg0 is kept as its fields start [0], num [11:1], size [30:12] and  *)
(* done [31].  waitrequest is constant 0, so a CPU access takes one edge.  *)
(***************************************************************************)
EXTENDS Naturals

VARIABLES slv_reg0, slv_reg1, slv_reg2, slv_reg3

slaveVars == <<slv_reg0, slv_reg1, slv_reg2, slv_reg3>>

SlaveInit ==
    /\ slv_reg0 = [start |-> FALSE, num |-> 0, size |-> 0, done |-> FALSE]
    /\ slv_reg1 = 0
    /\ slv_reg2 = 0
    /\ slv_reg3 = 0

\* What the CPU does to the slave at an edge: it writes data to register
\* reg, or (reg = NoWrite) it reads or leaves the slave alone.
NoWrite == 4

\* The CPU cannot write bit 31: each edge loads it with DONE.
SlaveEdge(reg, data, DONE) ==
    /\ slv_reg0' = [(IF reg = 0 THEN data ELSE slv_reg0) EXCEPT !.done = DONE]
    /\ slv_reg1' = IF reg = 1 THEN data ELSE slv_reg1
    /\ slv_reg2' = IF reg = 2 THEN data ELSE slv_reg2
    /\ slv_reg3' = IF reg = 3 THEN data ELSE slv_reg3
=============================================================================
