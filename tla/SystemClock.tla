---------------------------- MODULE SystemClock -----------------------------
(***************************************************************************)
(* The system clock: the timer in continuous mode and its interrupt        *)
(* handler, cycle by cycle.  The program keeps interrupts out at times.    *)
(***************************************************************************)
EXTENDS Timer

CONSTANTS MaxPeriods      \* bound: how long the clock is watched

ClockAssumption == MaxPeriods \in Nat

VARIABLES
  state,                  \* "off", "starting", "program", "clear", "read", "tick"
  nticks,                 \* the system's count
  periods,                \* of the timer
  late, overrun           \* cycles that its interrupt waits; has one waited
                          \* a period

scVars == <<timerVars, state, nticks, periods, late, overrun>>

Timeout == internal_counter = 0 /\ ~delayed_zero
Passes ==
  /\ periods < MaxPeriods
  /\ periods' = IF Timeout THEN periods + 1 ELSE periods
  /\ late' = IF ~irq \/ late = Load THEN 0 ELSE late + 1
  /\ overrun' = (overrun \/ late = Load)

SystemClockInit ==
  TimerInit /\ state = "off" /\ nticks = 0 /\ periods = 0 /\ late = 0 /\ overrun = FALSE

(* The timer runs from here on, its interrupt comes through a step later.  *)
alt_avalon_timer_sc_init ==
  /\ state = "off" /\ state' = "starting"
  /\ Clock(WriteControl({"ITO", "CONT", "START"})) /\ Passes /\ UNCHANGED nticks

Register ==
  /\ state = "starting" /\ state' = "program"
  /\ Clock(NoAccess) /\ Passes /\ UNCHANGED nticks

Waits == Clock(NoAccess) /\ Passes /\ UNCHANGED <<state, nticks>>

Interrupt ==
  /\ state = "program" /\ irq /\ state' = "clear"
  /\ Clock(NoAccess) /\ Passes /\ UNCHANGED nticks

Clear ==
  /\ state = "clear" /\ state' = "read"
  /\ Clock(WriteStatus) /\ Passes /\ UNCHANGED nticks

ReadControl ==
  /\ state = "read" /\ state' = "tick"
  /\ Clock(NoAccess) /\ Passes /\ UNCHANGED nticks

CountTick ==
  /\ state = "tick" /\ state' = "program"
  /\ Clock(NoAccess) /\ Passes /\ nticks' = nticks + 1

SystemClockNext ==
  \/ alt_avalon_timer_sc_init \/ Register \/ Waits
  \/ Interrupt \/ Clear \/ ReadControl \/ CountTick

SystemClockSpec == SystemClockInit /\ [][SystemClockNext]_scVars
-----------------------------------------------------------------------------
(* As long as no interrupt waits a whole period to be cleared, the         *)
(* system's count is that of the periods, apart from the one whose         *)
(* interrupt waits and the one that the handler has cleared and not        *)
(* counted yet: the timer's handler loses no tick and counts none twice.   *)
EveryPeriodTicks ==
  ~overrun =>
    periods = nticks + (IF irq THEN 1 ELSE 0)
                     + (IF state \in {"read", "tick"} THEN 1 ELSE 0)
=============================================================================
