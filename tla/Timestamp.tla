----------------------------- MODULE Timestamp ------------------------------
(***************************************************************************)
(* The timestamp driver on its timer, called by the program and, with      *)
(* Interrupted, by a handler that interrupts the program.                  *)
(***************************************************************************)
EXTENDS Timer

CONSTANTS Interrupted

TimestampAssumption == Interrupted \in BOOLEAN

VARIABLES
  ts_registered,          \* altera_avalon_timer_ts_freq is not zero
  ts_pc, lower, from,     \* program and handler: where, and what they hold
  torn,                   \* a handler came between the program's two halves
  elapsed,                \* cycles since the start; -1 before, at most Full + 1
  result                  \* of the last call, with the times that it came and returned

driver == <<ts_registered, ts_pc, lower, from, torn, result>>
tsVars == <<timerVars, driver, elapsed>>
Users == {"program", "handler"}
Unanswered == [value |-> -1, from |-> 0, to |-> 0, torn |-> FALSE]

Runs(c) == c = "program" => ts_pc["handler"] = "idle"
At(c, label) == Runs(c) /\ ts_pc[c] = label
Goto(c, label) == ts_pc' = [ts_pc EXCEPT ![c] = label]
StampPasses ==
  elapsed' = IF elapsed \in 0 .. Full THEN elapsed + 1 ELSE elapsed

TimestampInit ==
  /\ TimerInit /\ ts_registered \in BOOLEAN /\ elapsed = -1 /\ result = Unanswered
  /\ ts_pc = [c \in Users |-> "idle"] /\ lower = [c \in Users |-> 0]
  /\ from = [c \in Users |-> 0] /\ torn = FALSE

(* Cycles in which the timer is not accessed.                              *)
Idle == Clock(NoAccess) /\ StampPasses /\ UNCHANGED driver

alt_timestamp_start ==
  /\ At("program", "idle") /\ ts_registered
  /\ Clock(WriteControl({"STOP"})) /\ Goto("program", "periodL")
  /\ elapsed' = -1 /\ result' = Unanswered
  /\ UNCHANGED <<ts_registered, lower, from, torn>>

SetPeriodL ==
  /\ At("program", "periodL")
  /\ Clock(WritePeriodL(Half - 1)) /\ Goto("program", "periodH")
  /\ UNCHANGED <<ts_registered, elapsed, lower, from, torn, result>>

SetPeriodH ==
  /\ At("program", "periodH")
  /\ Clock(WritePeriodH(Half - 1)) /\ Goto("program", "start")
  /\ UNCHANGED <<ts_registered, elapsed, lower, from, torn, result>>

StartTimer ==
  /\ At("program", "start")
  /\ Clock(WriteControl({"START"})) /\ Goto("program", "idle")
  /\ elapsed' = 0 /\ UNCHANGED <<ts_registered, lower, from, torn, result>>

Unregistered ==
  /\ ~ts_registered /\ At("program", "idle")
  /\ result' = [value |-> Full, from |-> elapsed, to |-> elapsed, torn |-> FALSE]
  /\ Clock(NoAccess) /\ StampPasses
  /\ UNCHANGED <<ts_registered, ts_pc, lower, from, torn>>

(* The two users share the snapshot.                                       *)
alt_timestamp(c) ==
  /\ ts_registered /\ At(c, "idle") /\ (c = "handler" => Interrupted)
  /\ Clock(WriteSnap) /\ StampPasses /\ Goto(c, "lower")
  /\ from' = [from EXCEPT ![c] = elapsed]
  /\ torn' = (c = "handler" /\ (torn \/ ts_pc["program"] = "upper"))
  /\ result' = Unanswered /\ UNCHANGED <<ts_registered, lower>>

ReadLower(c) ==
  /\ At(c, "lower") /\ Clock(NoAccess) /\ StampPasses /\ Goto(c, "upper")
  /\ lower' = [lower EXCEPT ![c] = counter_snapshot % Half]
  /\ UNCHANGED <<ts_registered, from, torn, result>>

ReadUpper(c) ==
  /\ At(c, "upper") /\ Clock(NoAccess) /\ StampPasses /\ Goto(c, "idle")
  /\ result' = [value |-> Full - (Half * (counter_snapshot \div Half) + lower[c]),
                from |-> from[c], to |-> elapsed, torn |-> torn /\ c = "program"]
  /\ from' = [from EXCEPT ![c] = 0] /\ lower' = [lower EXCEPT ![c] = 0]
  /\ torn' = (torn /\ c = "handler") /\ UNCHANGED ts_registered

TimestampNext ==
  \/ Idle \/ Unregistered
  \/ alt_timestamp_start \/ SetPeriodL \/ SetPeriodH \/ StartTimer
  \/ \E c \in Users : alt_timestamp(c) \/ ReadLower(c) \/ ReadUpper(c)

TimestampSpec == TimestampInit /\ [][TimestampNext]_tsVars
-----------------------------------------------------------------------------
Answered == result # Unanswered /\ result.from >= 0

(* altera_avalon_timer_ts.c: alt_timestamp() returns the current count, a  *)
(* time between its call and its return; with the upper half of a later    *)
(* snapshot, that of a handler, it is late by less than a lower half.      *)
CurrentCount ==
  Answered /\ result.to <= Full =>
    result.value \in result.from .. result.to + (IF result.torn THEN Half - 1 ELSE 0)

(* alt_timestamp() returns the current count, also to a program that a     *)
(* handler interrupts which takes a timestamp.                             *)
Untorn ==
  Answered /\ result.to <= Full => result.value \in result.from .. result.to

(* Once the timer has run its full period every call returns 0.  The file  *)
(* says both: that it is 0, so that the user can detect timer roll-over    *)
(* (lines 54 and 55), and that the function returns -1 then (lines 92 to   *)
(* 94).  The second is not so.                                             *)
RollOverIsZero == Answered /\ result.from > Full => result.value = 0
RollOverIsMinusOne == Answered /\ result.from > Full => result.value = Full
=============================================================================
