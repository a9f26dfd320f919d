----------------------------- MODULE MCFirmware -----------------------------
(* The models of the firmware of Lab#4 for TLC, side by side: a behaviour  *)
(* is one of the accelerator under take_mean, of sound, or of the mouse,   *)
(* and the variables of the others keep their initial values (a mouse that *)
(* is left alone is unplugged).                                            *)
EXTENDS MCTakeMean, AudioFirmware, Ps2Mouse

VARIABLE part

Parts == {"take_mean", "audio", "mouse"}

firmwareVars == <<part, allVars, vars, ps2Vars>>

\* The bytes of an insertion at both places of a packet they can have (the
\* first byte is never 00), and the acknowledgment as a byte of a packet.
MCPackets == {<<"AA", "00", "x">>, <<"x", "AA", "00">>, <<"FA", "x", "x">>}

FirmwareInit == /\ part \in Parts /\ MeanInit /\ Init /\ MouseInit
                /\ part # "mouse" => mode = "off"

Averages == /\ part = "take_mean" /\ MeanNext
            /\ UNCHANGED <<part, vars, ps2Vars>>
Audio    == /\ part = "audio" /\ Next
            /\ UNCHANGED <<part, allVars, ps2Vars>>
Mouse    == /\ part = "mouse" /\ MouseNext
            /\ UNCHANGED <<part, allVars, vars>>

FirmwareNext == Averages \/ Audio \/ Mouse

\* The fairness of each part, while it is the one that runs.
FirmwareSpec == /\ FirmwareInit /\ [][FirmwareNext]_firmwareVars
                /\ WF_allVars(part = "take_mean" /\ AnyTick(FALSE))
                /\ WF_allVars(part = "take_mean" /\ CpuTick)
                /\ WF_vars(part = "audio" /\ Sample)
                /\ WF_vars(part = "audio" /\ pushbutton_ISR)
                /\ WF_vars(part = "audio" /\ audio_ISR)
                /\ WF_vars(part = "audio" /\ Main)
                /\ WF_vars(part = "audio" /\ PointTo(Nothing))
                /\ WF_ps2Vars(part = "mouse" /\ Send)
                /\ WF_ps2Vars(part = "mouse" /\ Boot)
                /\ WF_ps2Vars(part = "mouse" /\ Driver)
                /\ WF_ps2Vars(part = "mouse" /\ MouseMain)
=============================================================================
