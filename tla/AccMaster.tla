----------------------------- MODULE AccMaster -----------------------------
(***************************************************************************)
(* accelerator_master.v: one Avalon transfer per START.  read and write    *)
(* are registers loaded from the state, so they come up one edge after     *)
(* the state is entered and go down one edge after it is left; done is     *)
(* set by FIN and by nothing cleared but the hardware reset.               *)
(***************************************************************************)
EXTENDS Naturals

VARIABLES ps,        \* S0, SREAD, SWRITE, FIN
          done,
          read,      \* the strobes on the bus
          write,
          readdata   \* what the bus showed at the last edge in SREAD

masterVars == <<ps, done, read, write, readdata>>

MasterInit == /\ ps = "S0"
              /\ done = FALSE
              /\ read = FALSE
              /\ write = FALSE
              /\ readdata = 0

S0(START, READ_REQ, WRITE_REQ) ==
    /\ ps = "S0"
    /\ ps' = CASE START /\ READ_REQ -> "SREAD"
               [] START /\ ~READ_REQ /\ WRITE_REQ -> "SWRITE"
               [] OTHER -> "S0"
    /\ read' = FALSE
    /\ write' = FALSE
    /\ UNCHANGED <<done, readdata>>

SREAD(waitrequest, bus) ==
    /\ ps = "SREAD"
    /\ ps' = IF waitrequest THEN "SREAD" ELSE "FIN"
    /\ read' = TRUE
    /\ write' = FALSE
    /\ readdata' = bus
    /\ UNCHANGED done

SWRITE(waitrequest) ==
    /\ ps = "SWRITE"
    /\ ps' = IF waitrequest THEN "SWRITE" ELSE "FIN"
    /\ read' = FALSE
    /\ write' = TRUE
    /\ UNCHANGED <<done, readdata>>

\* Mutated form: the end of a transfer is not reported.
FINSilent ==
    /\ ps = "FIN"
    /\ ps' = "S0"
    /\ read' = FALSE
    /\ write' = FALSE
    /\ UNCHANGED <<done, readdata>>
FIN ==
    /\ ps = "FIN"
    /\ ps' = "S0"
    /\ done' = TRUE
    /\ read' = FALSE
    /\ write' = FALSE
    /\ UNCHANGED readdata

MasterEdge(START, READ_REQ, WRITE_REQ, waitrequest, bus) ==
    \/ S0(START, READ_REQ, WRITE_REQ)
    \/ SREAD(waitrequest, bus)
    \/ SWRITE(waitrequest)
    \/ FIN
=============================================================================
