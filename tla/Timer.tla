-------------------------------- MODULE Timer -------------------------------
(***************************************************************************)
(* The interval timer of the system, clock cycle by clock cycle.  Its      *)
(* registers have Half values each instead of 2^16.                        *)
(***************************************************************************)
EXTENDS Integers

CONSTANTS Half, Load      \* and the count that it comes out of reset with

TimerAssumption == Half \in Nat \ {0} /\ Load \in 0 .. Half * Half - 1

Full == Half * Half - 1

VARIABLES
  internal_counter, counter_is_running, force_reload,
  period_l_register, period_h_register, counter_snapshot,
  control_register,       \* interrupt_enable and continuous
  delayed_zero, timeout_occurred

timerVars == <<internal_counter, counter_is_running, force_reload,
               period_l_register,
               period_h_register, counter_snapshot, control_register, delayed_zero,
               timeout_occurred>>

TimerInit ==
  /\ internal_counter = Load /\ counter_is_running = FALSE /\ force_reload = FALSE
  /\ period_l_register = Load % Half /\ period_h_register = Load \div Half
  /\ counter_snapshot = 0
  /\ control_register = [interrupt_enable |-> FALSE, continuous |-> FALSE]
  /\ delayed_zero = FALSE /\ timeout_occurred = FALSE

irq == timeout_occurred /\ control_register.interrupt_enable

(* What the processor does at a clock edge.                                *)
NoAccess == [reg |-> "none"]
WritePeriodL(x) == [reg |-> "periodL", data |-> x]
WritePeriodH(x) == [reg |-> "periodH", data |-> x]
WriteSnap == [reg |-> "snap"]
WriteStatus == [reg |-> "status"]
WriteControl(bits) == [reg |-> "control", data |-> bits]

Clock(op) ==
  LET zero == internal_counter = 0
      start == op.reg = "control" /\ "START" \in op.data
      stop == op.reg = "control" /\ "STOP" \in op.data
  IN  /\ internal_counter' =
           IF ~counter_is_running /\ ~force_reload THEN internal_counter
           ELSE IF zero \/ force_reload THEN Half * period_h_register + period_l_register
           ELSE internal_counter - 1
      /\ force_reload' = (op.reg \in {"periodL", "periodH"})
      /\ counter_is_running' =
           (start \/ (counter_is_running /\ ~stop /\ ~force_reload
                        /\ ~(zero /\ ~control_register.continuous)))
      /\ delayed_zero' = zero
      /\ timeout_occurred' = (op.reg # "status" /\ (timeout_occurred \/ (zero /\ ~delayed_zero)))
      /\ period_l_register' = IF op.reg = "periodL" THEN op.data ELSE period_l_register
      /\ period_h_register' = IF op.reg = "periodH" THEN op.data ELSE period_h_register
      /\ counter_snapshot' = IF op.reg = "snap" THEN internal_counter ELSE counter_snapshot
      /\ control_register' =
           IF op.reg = "control" THEN [interrupt_enable |-> "ITO" \in op.data,
                                       continuous |-> "CONT" \in op.data]
           ELSE control_register
=============================================================================
