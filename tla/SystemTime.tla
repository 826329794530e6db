----------------------------- MODULE SystemTime -----------------------------
(***************************************************************************)
(* How main() of software/software/hello_world.c measures time: times(),   *)
(* called by the program and by _notch_isr() with a null pointer.  An      *)
(* address that no slave has goes to the SDRAM, as its lowest bits say:    *)
(* 0 is where the code is that the processor starts with at reset.         *)
(***************************************************************************)
EXTENDS Integers

CONSTANTS
  Period,                 \* of the system clock
  IsrLatency,             \* bound: the longest that an interrupt waits, or is served
  MaxTime                 \* bound: how long the program is watched

ASSUME SystemTimeAssumption ==
  Period \in Nat \ {0} /\ IsrLatency \in 0 .. Period - 1 /\ MaxTime \in Nat

VARIABLES
  now, clock,             \* time; is there a system clock?
  nticks, tick,           \* alt_nticks, and does the timer's interrupt wait?
  reset_code,             \* what the four words at the reset vector hold
  place,                  \* of main(); "lost" when no code is found at reset
  engine, isr,            \* the notch engine, and is its routine running?
  stamp,                  \* what times() has returned; by name
  asked, began, ended     \* when main() read the clock, and when the run
                          \* began and ended; only the properties look

run == <<asked, began, ended>>
systemVars == <<now, clock, nticks, tick, reset_code, place, engine, isr,
                stamp, run>>

NoStamps == [x \in {} |-> 0]

SystemTimeInit ==
  /\ now = 0 /\ clock \in BOOLEAN /\ nticks = 0 /\ tick = FALSE
  /\ reset_code = "code" /\ place = "randomMatrix"
  /\ engine = "ready" /\ isr = FALSE /\ stamp = NoStamps
  /\ asked = 0 /\ began = 0 /\ ended = 0

(* times(NULL): the structure's four words go to the null pointer.         *)
times(x) ==
  /\ stamp' = [y \in DOMAIN stamp \cup {x} |->
                 IF y # x THEN stamp[y] ELSE IF clock THEN nticks ELSE 0]
  /\ reset_code' = IF clock THEN "struct tms" ELSE reset_code

Runs(label) == place = label /\ ~isr

RandomMatrix ==
  /\ Runs("randomMatrix") /\ place' = "start" /\ times("seed")
  /\ UNCHANGED <<now, clock, nticks, tick, engine, isr, run>>

StartMeasuring ==
  /\ Runs("start") /\ place' = "status" /\ times("notch_start") /\ asked' = now
  /\ UNCHANGED <<now, clock, nticks, tick, engine, isr, began, ended>>

(* hw_notch(0), of an engine that is ready: it is asked, not started.      *)
AskStatus ==
  /\ Runs("status") /\ place' = "alt_putstr"
  /\ UNCHANGED <<now, clock, nticks, tick, reset_code, engine, isr, stamp, run>>

(* The status is printed, and what comes next, while time passes.          *)
PrintStatus ==
  /\ Runs("alt_putstr") /\ place' = "hw_notch"
  /\ UNCHANGED <<now, clock, nticks, tick, reset_code, engine, isr, stamp, run>>

HwNotch ==
  /\ Runs("hw_notch") /\ place' = "while" /\ engine' = "busy" /\ began' = now
  /\ UNCHANGED <<now, clock, nticks, tick, reset_code, isr, stamp, asked, ended>>

(* Mutant: the engine's time is over when the loop is.                     *)
LeaveLoopMeasures ==
  /\ Runs("while") /\ engine = "done" /\ place' = "exec_t1" /\ times("notch_end")
  /\ UNCHANGED <<now, clock, nticks, tick, engine, isr, run>>

LeaveLoop ==
  /\ Runs("while") /\ engine = "done" /\ place' = "exec_t1"
  /\ UNCHANGED <<now, clock, nticks, tick, reset_code, engine, isr, stamp,
                 run>>

MeasureSoftware ==
  /\ Runs("exec_t1") /\ place' = "exec_t2" /\ times("exec_t1")
  /\ UNCHANGED <<now, clock, nticks, tick, engine, isr, run>>

SoftwareMeasured ==
  /\ Runs("exec_t2") /\ place' = "print" /\ times("exec_t2")
  /\ UNCHANGED <<now, clock, nticks, tick, engine, isr, run>>

EngineFinishes ==
  /\ engine = "busy" /\ engine' = "irq" /\ ended' = now
  /\ UNCHANGED <<now, clock, nticks, tick, reset_code, place, isr, stamp, asked,
                 began>>

NotchIsr ==
  /\ engine = "irq" /\ ~isr /\ isr' = TRUE /\ times("notch_end")
  /\ UNCHANGED <<now, clock, nticks, tick, place, engine, run>>

NotchIsrReturns ==
  /\ isr /\ isr' = FALSE /\ engine' = "done"
  /\ UNCHANGED <<now, clock, nticks, tick, reset_code, place, stamp, run>>

Tick ==
  /\ tick /\ ~isr /\ tick' = FALSE /\ nticks' = nticks + 1
  /\ UNCHANGED <<now, clock, reset_code, place, engine, isr, stamp, run>>

Pass ==
  /\ now < MaxTime
  /\ (tick => now % Period < IsrLatency) /\ (engine = "irq" => now < ended + IsrLatency)
  /\ now' = now + 1 /\ tick' = (tick \/ (clock /\ now' % Period = 0))
  /\ UNCHANGED <<clock, nticks, reset_code, place, engine, isr, stamp, run>>

Reboot ==
  /\ place' = IF reset_code = "code" THEN "randomMatrix" ELSE "lost"
  /\ now' = 0 /\ nticks' = 0 /\ tick' = FALSE
  /\ engine' = "ready" /\ isr' = FALSE /\ stamp' = NoStamps
  /\ asked' = 0 /\ began' = 0 /\ ended' = 0 /\ UNCHANGED <<clock, reset_code>>

Main ==
  \/ RandomMatrix \/ StartMeasuring \/ AskStatus \/ PrintStatus \/ HwNotch
  \/ LeaveLoop \/ MeasureSoftware \/ SoftwareMeasured

SystemTimeNext ==
  \/ Reboot
  \/ place # "lost" /\ (Main \/ EngineFinishes \/ NotchIsr \/ NotchIsrReturns \/ Tick \/ Pass)

SystemTimeSpec == SystemTimeInit /\ [][SystemTimeNext]_systemVars
-----------------------------------------------------------------------------
(* With a system clock, what main() prints as the time of the notch engine *)
(* is the time from its call of times() to the end of the run, right to a  *)
(* tick and the two interrupts' latencies: the end is taken in the service *)
(* routine, where no tick is counted, not when main() sees it.  So the run *)
(* itself was not longer than that, but it was shorter by as much as main()*)
(* took to print the status before it.                                     *)
MeasuredTime ==
  clock /\ place = "print" =>
    LET printed == Period * (stamp["notch_end"] - stamp["notch_start"])
        error == Period + 2 * IsrLatency
    IN  /\ ended - asked - error <= printed /\ printed <= ended - asked + error
        /\ ended - began <= printed + error

(* What is printed is the time of the run, as its label says and as the    *)
(* report takes it (report.lyx: the notch filter takes 0.376 seconds).     *)
RunTime ==
  clock /\ place = "print" =>
    Period * (stamp["notch_end"] - stamp["notch_start"])
      <= ended - began + Period + 2 * IsrLatency

(* crt0.S: the code within the first cache line initializes the remainder  *)
(* of the instruction cache at reset: it is there, whatever the program    *)
(* has done.                                                               *)
ResetStarts == place # "lost"
=============================================================================
