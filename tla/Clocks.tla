------------------------------- MODULE Clocks -------------------------------
(***************************************************************************)
(* All that measures time: the time of day and delays (TimeOfDay), and a   *)
(* timer, which ALTERA_AVALON_TIMER_INIT gives to the timestamp driver or  *)
(* to the system clock.                                                    *)
(***************************************************************************)
EXTENDS TimeOfDay, Timestamp, SystemClock

VARIABLES timer_of      \* whose timer it is: "timestamp" or "clock"

(* The rate divides a second, as the 1000 ticks of system.h do, and the    *)
(* clock has a period.                                                     *)
ASSUME ClocksAssumption ==
  /\ WallClockAssumption /\ ALT_US % TickRate = 0 /\ BusySleepAssumption
  /\ TimerAssumption /\ Load > 0 /\ TimestampAssumption /\ ClockAssumption

ClocksInit ==
  /\ WallInit /\ BusyInit /\ TimestampInit /\ SystemClockInit
  /\ timer_of \in {"timestamp", "clock"} /\ (ts_registered => timer_of = "timestamp")

stampVars == <<driver, elapsed>>
countVars == <<state, nticks, periods, late, overrun>>
timersVars == <<timer_of, tsVars, countVars>>

TimersNext ==
  \/ timer_of = "timestamp" /\ TimestampNext /\ UNCHANGED <<timer_of, countVars>>
  \/ timer_of = "clock" /\ SystemClockNext /\ UNCHANGED <<timer_of, stampVars>>

ClocksNext ==
  \/ WallNext /\ UNCHANGED <<busyVars, timersVars>>
  \/ BusyNext /\ UNCHANGED <<wallVars, timersVars>>
  \/ TimersNext /\ UNCHANGED <<wallVars, busyVars>>

clocksVars == <<wallVars, busyVars, timersVars>>

ClocksSpec == ClocksInit /\ [][ClocksNext]_clocksVars
-----------------------------------------------------------------------------
(* gettimeofday() gives what has elapsed since the time was set, exactly   *)
(* or to a second, until the count of ticks wraps; a delay is at least the *)
(* one that was asked for, and longer only by what its loops' counts come  *)
(* to.  Clocks read a counter in two halves while it runs, and count       *)
(* periods with a latch of one bit.                                        *)
TimeRight ==
  /\ WallTypeOK /\ WithinSecond /\ BusyTypeOK /\ DelayBounds
  /\ CurrentCount /\ RollOverIsZero /\ EveryPeriodTicks
=============================================================================
