-------------------------------- MODULE Log ---------------------------------
(***************************************************************************)
(* The HAL's log: messages that the program and interrupt handlers put     *)
(* into the JTAG UART's FIFO themselves, character by character, waiting   *)
(* while it is full.  A message is its characters with its kind; the text  *)
(* that a kind always prints is two characters.                            *)
(***************************************************************************)
EXTENDS Integers, Sequences

CONSTANTS
  Levels,            \* values of ALT_LOG_FLAGS
  Interval,          \* ALT_LOG_SYS_CLK_INTERVAL
  AlarmTicks,        \* ALT_LOG_JTAG_UART_TICKS
  EchoLength,        \* ALT_LOG_WRITE_ECHO_LEN
  Depth,             \* characters in the FIFO
  Texts,             \* what the program writes
  MaxOut             \* bound: no message begins that would exceed it

ASSUME LogAssumption ==
  /\ Levels \subseteq -1 .. 3
  /\ Interval \in Nat /\ AlarmTicks \in Nat \ {0}
  /\ EchoLength \in Nat \ {0, 1} /\ Depth \in Nat \ {0} /\ MaxOut \in Nat
  /\ \A text \in Texts : text \in Seq(STRING)

VARIABLES
  ALT_LOG_FLAGS,     \* how much is logged; it stays
  phase,             \* of the program: "boot" or "main"
  space,             \* free characters in the FIFO
  out,               \* the log: all that went into the FIFO
  lost,              \* characters that were written to a full FIFO
  prints,            \* functions that print, the innermost first
  intruded,          \* has a handler's message come since the program saw room?
  intrusions,        \* how often one has
  sys_clk_count,     \* alt_log_sys_clk_count
  alarm_left,        \* ticks until the alarm; 0 if it was not registered
  echoed             \* what the last write() had, and what it echoed

port == <<space, out, lost>>
clock == <<sys_clk_count, alarm_left>>
printing == <<prints, intruded, intrusions>>
logVars == <<ALT_LOG_FLAGS, phase, port, printing, clock, echoed>>

(* The flags that are on, by ALT_LOG_FLAGS.                                *)
On ==
  CASE ALT_LOG_FLAGS = -1 -> {}
    [] ALT_LOG_FLAGS = 0 -> {"boot"}
    [] ALT_LOG_FLAGS = 1 -> {"boot", "sys_clk", "startup"}
    [] ALT_LOG_FLAGS = 2 -> {"boot", "sys_clk", "startup", "write", "alarm"}
    [] ALT_LOG_FLAGS = 3 ->
         {"boot", "sys_clk", "startup", "write", "alarm", "isr"}

Message(kind) ==
  IF kind \in On THEN <<[kind |-> kind, c |-> "("], [kind |-> kind, c |-> ")"]>>
  ELSE << >>

LogInit ==
  /\ ALT_LOG_FLAGS \in Levels
  /\ phase = "boot" /\ space = Depth /\ out = << >> /\ lost = 0
  /\ prints = << >> /\ intruded = FALSE /\ intrusions = 0
  /\ sys_clk_count = 0 /\ alarm_left = 0
  /\ echoed = [text |-> << >>, echo |-> << >>]

Room(msg) == Len(out) + Len(msg) <= MaxOut /\ msg # << >>

Quiet == prints = << >>
SawRoom == ~Quiet /\ Head(prints).ready

Tell(msg, handler) ==
  LET intrudes == handler /\ SawRoom /\ ~intruded
  IN  /\ prints' = <<[rest |-> msg, ready |-> FALSE, handler |-> handler]>> \o prints
      /\ intruded' = (intruded \/ intrudes)
      /\ intrusions' = IF intrudes THEN intrusions + 1 ELSE intrusions
Interruptible == \A k \in DOMAIN prints : ~ prints[k].handler

(* Mutant: the device is not asked whether it is ready.                    *)
WaitNot ==
  /\ ~ Quiet /\ ~ Head(prints).ready
  /\ prints' = [prints EXCEPT ![1].ready = TRUE]
  /\ UNCHANGED <<ALT_LOG_FLAGS, phase, port, intruded, intrusions, clock, echoed>>

(* alt_log_txchar() waits until there is room in the FIFO ...              *)
WaitReady ==
  /\ ~ Quiet /\ ~ Head(prints).ready /\ space > 0
  /\ prints' = [prints EXCEPT ![1].ready = TRUE]
  /\ UNCHANGED <<ALT_LOG_FLAGS, phase, port, intruded, intrusions, clock, echoed>>

(* ... and then writes the character, which a full FIFO drops.             *)
WriteChar ==
  /\ ~ Quiet /\ Head(prints).ready
  /\ LET rest == Head(prints).rest
     IN  /\ IF space > 0
            THEN /\ out' = Append(out, Head(rest)) /\ space' = space - 1
                 /\ UNCHANGED lost
            ELSE lost' = lost + 1 /\ UNCHANGED <<out, space>>
         /\ prints' = IF Len(rest) = 1 THEN Tail(prints)
                      ELSE [prints EXCEPT ![1].rest = Tail(rest),
                                          ![1].ready = FALSE]
         /\ intruded' = (intruded /\ Head(prints).handler)
  /\ UNCHANGED <<ALT_LOG_FLAGS, phase, intrusions, clock, echoed>>

HostReads ==
  /\ space < Depth /\ space' = space + 1
  /\ UNCHANGED <<ALT_LOG_FLAGS, phase, out, lost, printing, clock, echoed>>

(* A boot message; ALT_LOG_PRINT_BOOT.                                     *)
Boot ==
  /\ Quiet /\ Room(Message("boot"))
  /\ Tell(Message("boot"), FALSE)
  /\ UNCHANGED <<ALT_LOG_FLAGS, phase, port, clock, echoed>>

(* The initialisation of the JTAG UART.                                    *)
ALT_LOG_JTAG_UART_ALARM_REGISTER ==
  /\ Quiet /\ phase = "boot" /\ phase' = "main"
  /\ alarm_left' = IF "alarm" \in On THEN AlarmTicks + 1 ELSE 0
  /\ IF Room(Message("startup")) THEN Tell(Message("startup"), FALSE)
     ELSE UNCHANGED printing
  /\ UNCHANGED <<ALT_LOG_FLAGS, port, sys_clk_count, echoed>>

(* The echo of what is written: the last two characters in the buffer are  *)
(* a line end, a Ctrl-D is escaped.                                        *)
Escaped(c) == IF c = "^D" THEN "D" ELSE c

EchoBuffer(text) ==
  LET length == IF EchoLength > Len(text) THEN Len(text) ELSE EchoLength
  IN  IF length < 2 THEN << >>
      ELSE [k \in 1 .. length - 1 |-> Escaped(text[k])] \o <<"nl", "cr">>

alt_log_write(text) ==
  /\ Quiet /\ phase = "main" /\ "write" \in On
  /\ LET echo == EchoBuffer(text)
         msg == [k \in DOMAIN echo |-> [kind |-> "write", c |-> echo[k]]]
     IN  /\ echoed' = [text |-> text, echo |-> echo]
         /\ IF Room(msg) THEN Tell(msg, FALSE) ELSE UNCHANGED printing
  /\ UNCHANGED <<ALT_LOG_FLAGS, phase, port, clock>>

alt_log_system_clock ==
  IF "sys_clk" \notin On THEN [count |-> sys_clk_count, msg |-> << >>]
  ELSE IF sys_clk_count + 1 > Interval
       THEN [count |-> 0, msg |-> Message("sys_clk")]
       ELSE [count |-> sys_clk_count + 1, msg |-> << >>]

(* A tick of the system clock: the heartbeat, then the alarm.              *)
LogTick ==
  /\ Interruptible
  /\ LET due == alarm_left = 1
         msg == alt_log_system_clock.msg \o
                  (IF due THEN Message("alarm") ELSE << >>)
     IN  /\ sys_clk_count' = alt_log_system_clock.count
         /\ alarm_left' = IF due THEN AlarmTicks
                          ELSE IF alarm_left > 0 THEN alarm_left - 1 ELSE 0
         /\ IF Room(msg) THEN Tell(msg, TRUE) ELSE UNCHANGED printing
  /\ UNCHANGED <<ALT_LOG_FLAGS, phase, port, echoed>>

alt_log_jtag_uart_isr_proc ==
  /\ Interruptible /\ phase = "main" /\ Room(Message("isr"))
  /\ Tell(Message("isr"), TRUE)
  /\ UNCHANGED <<ALT_LOG_FLAGS, phase, port, clock, echoed>>

LogNext ==
  \/ WaitReady \/ WriteChar \/ HostReads \/ Boot
  \/ ALT_LOG_JTAG_UART_ALARM_REGISTER
  \/ \E text \in Texts : alt_log_write(text)
  \/ LogTick \/ alt_log_jtag_uart_isr_proc

(* The host reads what is in the FIFO, and the processor goes on.          *)
LogSpec == LogInit /\ [][LogNext]_logVars
           /\ WF_logVars(HostReads) /\ WF_logVars(WaitReady)
           /\ WF_logVars(WriteChar)
-----------------------------------------------------------------------------
LogTypeOK ==
  /\ space \in 0 .. Depth /\ Len(prints) <= 2 /\ lost \in Nat
  /\ sys_clk_count \in 0 .. Interval
  /\ alarm_left \in 0 .. AlarmTicks + 1
  /\ \A k \in DOMAIN prints : prints[k].rest # << >>

HandlerKinds == {"sys_clk", "alarm", "isr"}

(* What a handler prints stands in the log in one piece and whole, into    *)
(* whose message it may have come (alt_log_printf.c: wait until the device *)
(* is ready for a character).                                              *)
HandlersWhole ==
  \A k \in DOMAIN out :
    out[k].kind \in HandlerKinds /\ out[k].c = "(" =>
      IF k = Len(out) THEN ~ Interruptible
      ELSE out[k + 1] = [kind |-> out[k].kind, c |-> ")"]

(* The log has the messages that the level is documented to have           *)
(* (alt_log_printf.h: flag level 1, 2 and 3, -1 and the default).          *)
OnlyItsLevel ==
  /\ ALT_LOG_FLAGS = -1 => out = << >>
  /\ ALT_LOG_FLAGS = 0 => \A k \in DOMAIN out : out[k].kind = "boot"
  /\ ALT_LOG_FLAGS < 2 => \A k \in DOMAIN out : out[k].kind # "write"
  /\ ALT_LOG_FLAGS < 3 => \A k \in DOMAIN out : out[k].kind # "isr"

(* The log never gets a Ctrl-D (alt_log_printf.c: it might kill the        *)
(* terminal connection).                                                   *)
NoCtrlD == \A k \in DOMAIN out : out[k].c # "^D"

(* A character is lost only when a handler's message came between the      *)
(* program's look at the FIFO and its store (alt_log_printf.c: wait until  *)
(* the device is ready), and one at most however many messages came.       *)
LossExplained == lost <= intrusions

(* What handlers log stands in one piece, whatever they interrupt, no more *)
(* is lost than they take the room for, and nothing is logged that would   *)
(* close the terminal or that the level asked not to.                      *)
LogRight == LogTypeOK /\ HandlersWhole /\ LossExplained /\ NoCtrlD /\ OnlyItsLevel

(* Whoever prints comes to an end while the host reads.                    *)
PrintEnds == Len(prints) = 1 ~> Quiet

(* No character is lost (alt_log_printf.c: wait until the device is ready).*)
NothingLost == lost = 0

(* The heartbeat comes every Interval ticks (alt_log_printf.c: every       *)
(* ALT_LOG_SYS_CLK_INTERVAL, in ticks).                                    *)
HeartbeatOnTime == sys_clk_count < Interval

(* The first EchoLength characters are echoed, as alt_log_printf.c says.   *)
EchoWhole ==
  LET n == IF EchoLength > Len(echoed.text) THEN Len(echoed.text)
           ELSE EchoLength
  IN  \A k \in 1 .. n : k \in DOMAIN echoed.echo /\
                          echoed.echo[k] = Escaped(echoed.text[k])
=============================================================================
