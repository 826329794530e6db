----------------------------- MODULE DetService -----------------------------
(***************************************************************************)
(* What the determinant engine promises to the program: it takes one       *)
(* matrix at a time, answers every instruction with what it is doing,      *)
(* raises its interrupt when the calculation is over, keeps it up until a  *)
(* load takes the result, and is ready again after that.                   *)
(***************************************************************************)
EXTENDS Integers

READY           == -1
RESULT          == -2       \* stands for the bits of a determinant
NO_ANSWER       == 0
READING_SDRAM   == 1
CALCULATING     == 2
WAIT_IRQ        == 3
ACCEPTED        == 99

VARIABLES phase,            \* "ready", "busy", "complete" or "resetting"
          irq,
          answer            \* what the instruction port shows

serviceVars == <<phase, irq, answer>>

ServiceInit == phase = "ready" /\ irq = FALSE /\ answer = NO_ANSWER

Enter(next) == phase' = next /\ irq' = (next = "complete")

(* A dimension above 1 starts a calculation.                               *)
Accept == phase = "ready" /\ Enter("busy") /\ answer' = ACCEPTED

(* A dimension of 0 or 1 asks whether the engine is ready.                 *)
TellReady == phase = "ready" /\ Enter("ready") /\ answer' = READY

(* While it calculates the engine tells how far it is, and, against its    *)
(* own list of codes, now and then a number it has just multiplied.        *)
TellBusy ==
  /\ phase = "busy" /\ Enter("busy")
  /\ answer' \in {READING_SDRAM, CALCULATING, WAIT_IRQ, RESULT}

TellComplete == phase = "complete" /\ Enter("complete") /\ answer' = WAIT_IRQ

Silent == phase \in {"ready", "busy", "complete"} /\ Enter(phase)
          /\ answer' = NO_ANSWER

Complete ==
  /\ phase = "busy" /\ Enter("complete")
  /\ answer' \in {NO_ANSWER, WAIT_IRQ}

Acknowledge == phase = "complete" /\ Enter("resetting") /\ answer' = NO_ANSWER

Reset == phase = "resetting" /\ Enter("ready") /\ answer' = NO_ANSWER

ServiceNext ==
  \/ Accept \/ TellReady \/ TellBusy \/ TellComplete
  \/ Silent \/ Complete \/ Acknowledge \/ Reset

ServiceSafety == ServiceInit /\ [][ServiceNext]_serviceVars

(* A calculation comes to its end, and a reset too; nobody promises to ask *)
(* for the one or to acknowledge it.                                       *)
ServiceSpec ==
  ServiceSafety /\ WF_serviceVars(Complete) /\ WF_serviceVars(Reset)
=============================================================================
