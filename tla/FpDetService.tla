---------------------------- MODULE FpDetService ----------------------------
(***************************************************************************)
(* The determinant engine implements DetService.                           *)
(***************************************************************************)
EXTENDS FpDet

phase == CASE forceReset -> "resetting"
           [] stage = 0 /\ ~forceReset -> "ready"
           [] stage \in 1 .. 3 /\ ~forceReset -> "busy"
           [] stage = 4 /\ ~forceReset -> "complete"
answer == IF reply = <<>> THEN 0 ELSE reply[1]

Service == INSTANCE DetService

(* Safety: a cycle of the engine is a step of the service or changes       *)
(* nothing of it.                                                          *)
ImplementsService == Service!ServiceSafety

(* With the fairness of the clock and of the SDRAM also its liveness.      *)
ImplementsLiveService == Service!ServiceSpec

(* The memory holds the factors of the matrix when the diagonal is         *)
(* multiplied, and the product is the determinant.                         *)
FactorsAndResult == DetTypeOK /\ FactorsMultiply /\ DeterminantRight

(* Each of the engine's ports has its own pace: the cores that stand still *)
(* when the CPU holds clk_en, the SDRAM, and the instructions.             *)
PortsKeepPace == ResultsReady /\ DetQuiet /\ InstructionsAnswered
=============================================================================
