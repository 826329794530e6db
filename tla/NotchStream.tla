----------------------------- MODULE NotchStream ----------------------------
(***************************************************************************)
(* The notch engine implements SampleStream.                               *)
(***************************************************************************)
EXTENDS Notch

(* Samples on their way: those the request FIFO accounts for (two more may *)
(* arrive after it is almost full), one in the calculation, those in the   *)
(* write FIFO, and one on its way from there to the bus.                   *)
InFlightMax == (ALMOST_FULL + 2) + 1 + ALMOST_FULL + 1

phase == CASE stage = 1 -> "running"
           [] stage = 2 /\ irq -> "complete"
           [] OTHER -> "ready"
requested == IF phase = "ready" THEN 0 ELSE readAddress - sdBase
delivered == IF phase = "ready" THEN 0 ELSE writeAddress - sdBase

Stream == INSTANCE SampleStream
            WITH Samples <- NO_SAMPLES, Window <- InFlightMax

(* Every clock cycle is a step of SampleStream or leaves it alone.         *)
ImplementsStream == Stream!StreamSafety

(* With the fairness of the clock and of the SDRAM, also its liveness: the *)
(* engine cannot stop half way, with reading waiting for room in the       *)
(* FIFOs and the FIFOs waiting for the write port.                         *)
ImplementsLiveStream == Stream!StreamSpec
=============================================================================
