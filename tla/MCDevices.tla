----------------------------- MODULE MCDevices ------------------------------
(***************************************************************************)
(* Instances, for TLC, of what the HAL and the drivers do for a program:   *)
(* the file descriptors (Files, with the UART and a file system that has   *)
(* every callback), alarms, what measures time (Clocks), the log and the   *)
(* polled UART.  They share nothing: part says which of them a behaviour   *)
(* is of, the others stay as they begin.                                   *)
(***************************************************************************)
EXTENDS Files, JtagSmall, Alarms, Clocks, Log

CONSTANTS uart, disk, unnamed

VARIABLES part

SomeDev == {DevNull, uart, disk, unnamed}
SomeDevices == {DevNull, uart}
SomeNames == {<<"dev", "null">>, <<"dev", "jtag_uart">>, <<"mnt">>,
              <<"mnt", "file">>, <<"nothing">>}
TheirNames ==
  [d \in SomeDev |-> CASE d = DevNull -> <<"dev", "null">>
                       [] d = uart -> <<"dev", "jtag_uart">>
                       [] d = disk -> <<"mnt">>
                       [] d = unnamed -> None]
TheirCallbacks ==
  [d \in SomeDev |-> CASE d = DevNull -> {"write"}
                       [] d = uart -> {"close", "read", "write", "ioctl"}
                       [] OTHER -> {"open", "close", "read", "write",
                                    "lseek", "fstat", "ioctl"}]
StandardStreams ==
  <<<<"dev", "jtag_uart">>, <<"dev", "jtag_uart">>, <<"dev", "jtag_uart">>>>
SomeFlags == {{}, {"RDWR", "EXCL"}}
SomeFcntlFlags == {{"APPEND", "WRONLY"}}

(* A second of 12 microseconds.                                            *)
SomeTimes == {[sec |-> 0, usec |-> 0], [sec |-> 3, usec |-> 11],
              [sec |-> 9, usec |-> 1]}
(* All that a word holds; the big loops are of 3 microseconds.             *)
AllDelays == 0 .. 31
(* Shorter than, as long as and longer than the echo.                      *)
SomeTexts == {<<"a">>, <<"a", "^D">>, <<"^D", "a", "b">>}
SomeLevels == -1 .. 3

all == <<part, filesVars, alarmVars, clocksVars, logVars, smallVars>>

(* Of a part with many initial states one is enough for the others.        *)
DevicesInit ==
  /\ part \in {"files", "alarms", "wall", "sleep", "timers", "log", "polled"}
  /\ LogInit /\ (part # "log" => ALT_LOG_FLAGS = 0)
  /\ AlarmsInit
  /\ ClocksInit /\ (part # "timers" => ~ts_registered /\ timer_of = "clock")
  /\ (part # "sleep" => ~hoisted)
  /\ SmallInit
  /\ FilesInit

(* The others stay as they are.                                            *)
Only(p) ==
  /\ part = p /\ part' = p
  /\ IF p = "files" THEN TRUE ELSE UNCHANGED filesVars
  /\ IF p = "alarms" THEN TRUE ELSE UNCHANGED alarmVars
  /\ IF p = "wall" THEN TRUE ELSE UNCHANGED wallVars
  /\ IF p = "sleep" THEN TRUE ELSE UNCHANGED busyVars
  /\ IF p = "timers" THEN TRUE ELSE UNCHANGED timersVars
  /\ IF p = "log" THEN TRUE ELSE UNCHANGED logVars
  /\ IF p = "polled" THEN TRUE ELSE UNCHANGED smallVars

DevicesNext ==
  \/ Only("files") /\ FilesNext
  \/ Only("alarms") /\ AlarmsNext
  \/ Only("wall") /\ WallNext
  \/ Only("sleep") /\ BusyNext
  \/ Only("timers") /\ TimersNext
  \/ Only("log") /\ LogNext
  \/ Only("polled") /\ SmallNext

(* The fairness of the modules, each for the part it is about.             *)
DevicesSpec ==
  /\ DevicesInit /\ [][DevicesNext]_all
  /\ WF_alarmVars(part = "alarms" /\ (Visit \/ Deactivate \/ Rearm \/ Ticked))
  /\ WF_logVars(part = "log" /\ HostReads)
  /\ WF_logVars(part = "log" /\ WaitReady)
  /\ WF_logVars(part = "log" /\ WriteChar)
  /\ WF_smallVars(part = "polled" /\ Writes)
  /\ WF_smallVars(part = "polled" /\ Reads)
  /\ WF_smallVars(part = "polled" /\ HostTake)
-----------------------------------------------------------------------------
(* Properties                                                              *)

(* alt_tick() returns; whoever prints to the log comes to an end; calls of *)
(* the polled UART end but for a read() that nothing comes for.            *)
AllReturn == TickReturns /\ PrintEnds /\ PolledEnds /\ PolledArrives
=============================================================================
