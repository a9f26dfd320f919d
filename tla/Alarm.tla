------------------------------- MODULE Alarm --------------------------------
(***************************************************************************)
(* alt_tick and alt_alarm_start for one alarm that asks for the same       *)
(* period again.  The tick counter wraps at TickMod, 2^32 in the code.     *)
(***************************************************************************)
EXTENDS Naturals

CONSTANTS TickMod,
          Period,      \* alt_ticks_per_second
          Start        \* alt_nticks when the alarm is started

ASSUME AlarmAssumption == /\ Period \in Nat \ {0} /\ TickMod \in Nat
                          /\ Period + 1 < TickMod
                          /\ Start \in 0 .. TickMod - 1

VARIABLES nticks, time, rollover,
          due              \* history: in how many ticks the call should come

alarmVars == <<nticks, time, rollover, due>>

\* Mutated form: the flag is never raised.
RollsOverNever(t, now) == FALSE
RollsOver(t, now) == t < now

\* alt_alarm_start.
AlarmInit == /\ nticks = Start
             /\ time = (Period + nticks + 1) % TickMod
             /\ rollover = RollsOver(time, nticks)
             /\ due = Period + 1

Now       == (nticks + 1) % TickMod
StillOver == rollover /\ Now # 0
Expires   == time <= Now /\ ~StillOver

alt_tick ==
    /\ nticks' = Now
    /\ IF Expires
         THEN /\ time' = (time + Period) % TickMod
              /\ rollover' = RollsOver(time', Now)
              /\ due' = Period
         ELSE /\ rollover' = StillOver
              /\ due' = due - 1
              /\ UNCHANGED time

(***************************************************************************)
(* The callback comes every Period ticks, no earlier and no later, also    *)
(* when the counter or the alarm's time wraps; the first time one later.   *)
(***************************************************************************)
AlarmOnTime == [][nticks' # nticks => (Expires <=> due = 1)]_alarmVars
=============================================================================
