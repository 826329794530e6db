------------------------------ MODULE MainLoop ------------------------------
(***************************************************************************)
(* The loop in which main() of software/software/hello_world.c waits for   *)
(* both engines, with the two service routines that end it.  done and      *)
(* _notch_done are not volatile: the compiler may keep what it has loaded  *)
(* of them until the next call of a function it does not see, and those    *)
(* are the calls that print.  The loop begins when both engines have       *)
(* accepted their work.  The determinant engine is that of DetService; of  *)
(* the notch engine main() sees a status and the interrupt.                *)
(***************************************************************************)
EXTENDS DetService

CONSTANT Positions          \* what the notch engine answers during its run

LoopAssumption == Positions \subseteq Nat \ {0}

FINISHED == -2

VARIABLES
  keeps,                    \* does the compiler keep values it has loaded?
  pc,
  done, det,                \* what det_done() has left, det = 1: the result
  notch, notch_done,        \* phase of the notch engine, _notch_done
  kept_done, kept_notch,    \* the values in registers, as sets of
                            \* at most one
  previous_det, previous_notch

loopVars == <<serviceVars, keeps, pc, done, det, notch, notch_done, kept_done,
              kept_notch, previous_det, previous_notch>>

LoopInit ==
  /\ phase = "busy" /\ irq = FALSE /\ answer = ACCEPTED
  /\ keeps \in BOOLEAN /\ pc = "while"
  /\ done = FALSE /\ det = 0 /\ notch = "busy" /\ notch_done = FALSE
  /\ kept_done = {} /\ kept_notch = {}
  /\ previous_det = ACCEPTED /\ previous_notch = ACCEPTED

Seen(kept, memory) == IF keeps /\ kept # {} THEN TRUE \in kept ELSE memory
Reload == kept_done' = {} /\ kept_notch' = {}
-----------------------------------------------------------------------------
(* while (!done || !_notch_done), the second only when the first is set.   *)
WhileDone ==
  /\ pc = "while"
  /\ kept_done' = {Seen(kept_done, done)}
  /\ pc' = IF TRUE \in kept_done' THEN "while notch" ELSE "check"
  /\ UNCHANGED <<serviceVars, keeps, done, det, notch, notch_done, kept_notch,
                 previous_det, previous_notch>>

WhileNotch ==
  /\ pc = "while notch"
  /\ kept_notch' = {Seen(kept_notch, notch_done)}
  /\ pc' = IF TRUE \in kept_notch' THEN "left" ELSE "check"
  /\ UNCHANGED <<serviceVars, keeps, done, det, notch, notch_done, kept_done,
                 previous_det, previous_notch>>

(* status_det = fp_det_check(); a new one is printed.                      *)
CompareDet ==
  /\ pc = "check" /\ (TellReady \/ TellBusy \/ TellComplete)
  /\ previous_det' = answer' /\ pc' = "status"
  /\ IF answer' # previous_det THEN Reload ELSE UNCHANGED <<kept_done,
                                                            kept_notch>>
  /\ UNCHANGED <<keeps, done, det, notch, notch_done, previous_notch>>

NotchStatus ==
  CASE notch = "ready" -> {READY}
    [] notch = "busy" -> Positions
    [] notch = "complete" -> {FINISHED}
    [] notch = "resetting" -> {}

(* status_notch = hw_notch(0); a new one is printed, else the diagnostics  *)
(* are, while _notch_done is not set.                                      *)
CompareNotch ==
  /\ pc = "status"
  /\ \E status \in NotchStatus :
       \/ /\ status # previous_notch /\ previous_notch' = status
          /\ Reload /\ pc' = "while"
       \/ /\ status = previous_notch /\ UNCHANGED <<previous_notch, kept_done>>
          /\ kept_notch' = {Seen(kept_notch, notch_done)}
          /\ pc' = IF TRUE \in kept_notch' THEN "while" ELSE "diagnostic"
  /\ UNCHANGED <<serviceVars, keeps, done, det, notch, notch_done,
                 previous_det>>

(* notch_diagnostic: a load acknowledges an interrupt that no one has      *)
(* taken yet.                                                              *)
Diagnose ==
  /\ pc = "diagnostic" /\ pc' = "while" /\ Reload
  /\ notch' = IF notch = "complete" THEN "resetting" ELSE notch
  /\ UNCHANGED <<serviceVars, keeps, done, det, notch_done, previous_det,
                 previous_notch>>
-----------------------------------------------------------------------------
(* Neither service routine is interrupted: each is one step for main().    *)
FpDetIsr ==
  /\ irq /\ Acknowledge /\ done' = TRUE /\ det' = 1
  /\ UNCHANGED <<keeps, pc, notch, notch_done, kept_done, kept_notch,
                 previous_det, previous_notch>>

NotchIsr ==
  /\ notch = "complete" /\ notch' = "resetting" /\ notch_done' = TRUE
  /\ UNCHANGED <<serviceVars, keeps, pc, done, det, kept_done, kept_notch,
                 previous_det, previous_notch>>

(* The engines, of their own.                                              *)
DetEngine ==
  /\ Complete \/ Reset
  /\ UNCHANGED <<keeps, pc, done, det, notch, notch_done, kept_done,
                 kept_notch, previous_det, previous_notch>>

NotchEngine ==
  /\ \/ notch = "busy" /\ notch' = "complete"
     \/ notch = "resetting" /\ notch' = "ready"
  /\ UNCHANGED <<serviceVars, keeps, pc, done, det, notch_done, kept_done,
                 kept_notch, previous_det, previous_notch>>
-----------------------------------------------------------------------------
Loop == WhileDone \/ WhileNotch \/ CompareDet \/ CompareNotch \/ Diagnose

LoopNext == Loop \/ FpDetIsr \/ NotchIsr \/ DetEngine \/ NotchEngine

(* Everything that runs gets on; a load of the diagnostics may still come  *)
(* before the interrupt of the notch engine is taken.                      *)
LoopSpec ==
  /\ LoopInit /\ [][LoopNext]_loopVars
  /\ WF_loopVars(Loop) /\ WF_loopVars(FpDetIsr) /\ WF_loopVars(NotchIsr)
  /\ WF_loopVars(DetEngine) /\ WF_loopVars(NotchEngine)
-----------------------------------------------------------------------------
(* Properties                                                              *)

(* What main() prints after its loop is the determinant, and both engines  *)
(* have been acknowledged.                                                 *)
LeftWithResults ==
  pc = "left" => /\ det = 1 /\ notch_done
                 /\ ~irq /\ notch \in {"resetting", "ready"}

(* The loop sees both flags although they are not volatile: whatever ends  *)
(* a calculation also changes a status, and to print the change the loop   *)
(* calls a function that could have changed the flags.                     *)
LoopSeesDone == done /\ notch_done ~> pc = "left"
=============================================================================
