---------------------------- MODULE SampleStream ----------------------------
(***************************************************************************)
(* What the notch engine promises to the program that uses it: one run at  *)
(* a time, each run requests the samples of a buffer one after the other,  *)
(* delivers the results in the same order, never has more than Window      *)
(* samples on their way, reports completion only when all are delivered,   *)
(* and is ready again when the completion has been acknowledged.           *)
(***************************************************************************)
EXTENDS Naturals

CONSTANTS Samples,     \* samples of a run, at least one
          Window       \* the most samples requested and not yet delivered,
                       \* at least one

VARIABLES phase, requested, delivered

streamVars == <<phase, requested, delivered>>

StreamInit == phase = "ready" /\ requested = 0 /\ delivered = 0

Begin == /\ phase = "ready" /\ phase' = "running"
         /\ UNCHANGED <<requested, delivered>>

Request == /\ phase = "running"
           /\ requested < Samples /\ requested - delivered < Window
           /\ requested' = requested + 1
           /\ UNCHANGED <<phase, delivered>>

Deliver == /\ phase = "running"
           /\ delivered < requested
           /\ delivered' = delivered + 1
           /\ UNCHANGED <<phase, requested>>

Complete == /\ phase = "running" /\ delivered = Samples
            /\ phase' = "complete"
            /\ UNCHANGED <<requested, delivered>>

Acknowledge == /\ phase = "complete" /\ phase' = "ready"
               /\ requested' = 0 /\ delivered' = 0

StreamNext == Begin \/ Request \/ Deliver \/ Complete \/ Acknowledge

StreamSafety == StreamInit /\ [][StreamNext]_streamVars

(* A run makes progress until it is complete; nobody promises to start one *)
(* or to acknowledge it.                                                   *)
StreamSpec ==
  StreamSafety /\ WF_streamVars(Request \/ Deliver \/ Complete)
=============================================================================
