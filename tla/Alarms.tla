------------------------------- MODULE Alarms -------------------------------
(***************************************************************************)
(* The alarms of the HAL: the tick counter, the doubly linked list of      *)
(* alarms and alt_tick(), which walks through it in the timer interrupt    *)
(* and calls the alarms that are due.  A callback runs inside alt_tick()   *)
(* and may itself start and stop alarms.  Everything else runs with        *)
(* interrupts disabled, so that an operation of the program is one step.   *)
(***************************************************************************)
EXTENDS Integers, FiniteSets

CONSTANTS
  Alarm,          \* the alt_alarm structures
  alt_alarm_list,       \* the head of the list
  Null,                 \* the pointers of a new structure
  Ticks,          \* 2^32: the tick counter and the times are modulo this
  Delays,         \* what alt_alarm_start() is given
  Periods,        \* what callbacks return
  StopsOthers     \* whether a callback stops other alarms than its own

ASSUME AlarmsAssumption ==
  /\ IsFiniteSet(Alarm) /\ alt_alarm_list \notin Alarm
  /\ Null \notin Alarm \cup {alt_alarm_list}
  /\ Ticks \in Nat \ {0}
  /\ Delays \subseteq 0 .. Ticks - 1 /\ Periods \subseteq 0 .. Ticks - 1
  /\ StopsOthers \in BOOLEAN

VARIABLES
  alt_nticks,         \* _alt_nticks
  next, previous,     \* the links
  time, rollover,     \* of each alarm
  pc,                 \* "idle", or where alt_tick() is: "list", "callback"
  alarm, following,   \* its variables alarm and next
  registered,         \* the alarms that have been started and not ended
  left                \* ticks to go for each of them

alarmVars == <<alt_nticks, next, previous, time, rollover, pc, alarm,
               following, registered, left>>

Entry == Alarm \cup {alt_alarm_list}

AlarmsInit ==
  /\ alt_nticks = 0
  /\ next = [e \in Entry |-> IF e = alt_alarm_list THEN alt_alarm_list ELSE Null]
  /\ previous = next
  /\ time = [a \in Alarm |-> 0] /\ rollover = [a \in Alarm |-> FALSE]
  /\ pc = "idle" /\ alarm = alt_alarm_list /\ following = alt_alarm_list
  /\ registered = {} /\ left = [a \in Alarm |-> 0]
-----------------------------------------------------------------------------
(* At the head of the list, and out of it.                                 *)
alt_llist_insert(e) ==
  /\ next' = [next EXCEPT ![e] = next[alt_alarm_list], ![alt_alarm_list] = e]
  /\ previous' = [previous EXCEPT ![e] = alt_alarm_list, ![next[alt_alarm_list]] = e]

alt_llist_remove(e) ==
  LET unlinked == [previous EXCEPT ![next[e]] = previous[e]]
  IN  /\ next' = [next EXCEPT ![unlinked[e]] = next[e], ![e] = e]
      /\ previous' = [unlinked EXCEPT ![e] = e]

(* Mutant: the flag is left as it is.                                      *)
StartNoFlag(a, nticks) ==
  /\ time' = [time EXCEPT ![a] = (nticks + alt_nticks + 1) % Ticks]
  /\ UNCHANGED rollover
  /\ alt_llist_insert(a)
  /\ registered' = registered \cup {a}
  /\ left' = [left EXCEPT ![a] = nticks + 1]

(* alt_alarm_start.                                                        *)
Start(a, nticks) ==
  LET at == (nticks + alt_nticks + 1) % Ticks
  IN  /\ time' = [time EXCEPT ![a] = at]
      /\ rollover' = [rollover EXCEPT ![a] = at < alt_nticks]
      /\ alt_llist_insert(a)
      /\ registered' = registered \cup {a}
      /\ left' = [left EXCEPT ![a] = nticks + 1]

(* alt_alarm_stop; of an alarm that has been started before.               *)
Stop(a) ==
  /\ next[a] # Null
  /\ alt_llist_remove(a)
  /\ registered' = registered \ {a} /\ left' = [left EXCEPT ![a] = 0]
  /\ UNCHANGED <<time, rollover>>

(* The program and the callbacks start only alarms that are not registered;*)
(* a callback goes on with its own by what it returns.                     *)
StartAlarm ==
  /\ pc \in {"idle", "callback"}
  /\ \E a \in Alarm \ registered, nticks \in Delays :
       (pc = "callback" => a # alarm) /\ Start(a, nticks)
  /\ UNCHANGED <<alt_nticks, pc, alarm, following>>

StopAlarm ==
  /\ \E a \in Alarm :
       /\ pc = "idle" \/ (pc = "callback" /\ (a = alarm \/ StopsOthers))
       /\ Stop(a)
  /\ UNCHANGED <<alt_nticks, pc, alarm, following>>
-----------------------------------------------------------------------------
(* alt_tick, from the timer's interrupt.                                   *)
Tick ==
  /\ pc = "idle" /\ pc' = "list"
  /\ alt_nticks' = (alt_nticks + 1) % Ticks
  /\ alarm' = next[alt_alarm_list]
  /\ left' = [a \in Alarm |-> IF a \in registered THEN left[a] - 1 ELSE left[a]]
  /\ UNCHANGED <<next, previous, time, rollover, following, registered>>

(* Mutant: the flag is not looked at.                                      *)
VisitNoFlag ==
  /\ pc = "list" /\ alarm # alt_alarm_list
  /\ following' = next[alarm]
  /\ rollover' = [rollover EXCEPT ![alarm] = @ /\ alt_nticks # 0]
  /\ IF time[alarm] <= alt_nticks
     THEN pc' = "callback" /\ UNCHANGED alarm
     ELSE alarm' = next[alarm] /\ UNCHANGED pc
  /\ UNCHANGED <<alt_nticks, next, previous, time, registered, left>>

(* Mutant: only after a callback it goes on with the next alarm.           *)
VisitStay ==
  /\ pc = "list" /\ alarm # alt_alarm_list
  /\ following' = next[alarm]
  /\ rollover' = [rollover EXCEPT ![alarm] = @ /\ alt_nticks # 0]
  /\ IF time[alarm] <= alt_nticks /\ ~rollover'[alarm]
     THEN pc' = "callback" /\ UNCHANGED alarm
     ELSE UNCHANGED <<alarm, pc>>
  /\ UNCHANGED <<alt_nticks, next, previous, time, registered, left>>

Visit ==
  /\ pc = "list" /\ alarm # alt_alarm_list
  /\ following' = next[alarm]
  /\ rollover' = [rollover EXCEPT ![alarm] = @ /\ alt_nticks # 0]
  /\ IF time[alarm] <= alt_nticks /\ ~rollover'[alarm]
     THEN pc' = "callback" /\ UNCHANGED alarm
     ELSE alarm' = next[alarm] /\ UNCHANGED pc
  /\ UNCHANGED <<alt_nticks, next, previous, time, registered, left>>

(* The callback returns zero: the alarm is deactivated.                    *)
Deactivate ==
  /\ pc = "callback" /\ 0 \in Periods
  /\ Stop(alarm)
  /\ pc' = "list" /\ alarm' = following
  /\ UNCHANGED <<alt_nticks, following>>

(* It returns the ticks to the next callback.                              *)
Rearm ==
  /\ pc = "callback"
  /\ \E next_callback \in Periods \ {0} :
       LET at == (time[alarm] + next_callback) % Ticks
       IN  /\ time' = [time EXCEPT ![alarm] = at]
           /\ rollover' = [rollover EXCEPT ![alarm] = at < alt_nticks \/ @]
           /\ left' = IF alarm \in registered
                      THEN [left EXCEPT ![alarm] = next_callback] ELSE left
  /\ pc' = "list" /\ alarm' = following
  /\ UNCHANGED <<alt_nticks, next, previous, following, registered>>

Ticked ==
  /\ pc = "list" /\ alarm = alt_alarm_list /\ pc' = "idle"
  /\ following' = alt_alarm_list
  /\ UNCHANGED <<alt_nticks, next, previous, time, rollover, alarm, registered,
                 left>>
-----------------------------------------------------------------------------
AlarmsNext == StartAlarm \/ StopAlarm \/ Tick \/ Visit \/ Deactivate \/ Rearm
                \/ Ticked

(* Callbacks return, and alt_tick() goes on.                               *)
AlarmsSpec == /\ AlarmsInit /\ [][AlarmsNext]_alarmVars
              /\ WF_alarmVars(Visit \/ Deactivate \/ Rearm \/ Ticked)
-----------------------------------------------------------------------------
AlarmsTypeOK ==
  /\ alt_nticks \in 0 .. Ticks - 1
  /\ next \in [Entry -> Entry \cup {Null}]
  /\ previous \in [Entry -> Entry \cup {Null}]
  /\ time \in [Alarm -> 0 .. Ticks - 1] /\ rollover \in [Alarm -> BOOLEAN]
  /\ pc \in {"idle", "list", "callback"}
  /\ alarm \in Entry /\ following \in Entry
  /\ registered \subseteq Alarm /\ left \in [Alarm -> 0 .. Ticks]

(* From the head, the links pass every registered alarm once, and no other,*)
(* and come back; backwards they are the same.                             *)
ListIntact ==
  LET n == Cardinality(registered)
  IN  \E order \in [1 .. n -> registered] :
        LET at(k) == IF k \in 1 .. n THEN order[k] ELSE alt_alarm_list
        IN  /\ \A j, k \in 1 .. n : order[j] = order[k] => j = k
            /\ \A k \in 0 .. n : next[at(k)] = at(k + 1) /\ previous[at(k + 1)] = at(k)

(* Between two ticks the time and the flag of every alarm say when it is   *)
(* due, however often the counter wraps, and none is overdue.              *)
TimesRight ==
  pc = "idle" =>
    \A a \in registered :
      /\ left[a] > 0
      /\ time[a] = (alt_nticks + left[a]) % Ticks
      /\ rollover[a] <=> alt_nticks + left[a] >= Ticks

(* The list of alarms stays one, and its times and flags say when each is  *)
(* due, however the counter of ticks wraps.                                *)
AlarmsRight == AlarmsTypeOK /\ ListIntact /\ TimesRight

(* An alarm is called only while it is registered, and on its tick: nticks *)
(* and one after its start, or as many after its last call as that one     *)
(* has returned.                                                           *)
CalledOnTime ==
  [][pc = "list" /\ pc' = "callback" => alarm \in registered /\ left[alarm] = 0]_alarmVars

(* An alarm that has been stopped is not called.                           *)
StoppedStaysQuiet ==
  [][pc = "list" /\ pc' = "callback" => alarm \in registered]_alarmVars

(* alt_tick() returns to the program.                                      *)
TickReturns == pc # "idle" ~> pc = "idle"
=============================================================================
