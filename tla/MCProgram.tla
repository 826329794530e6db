----------------------------- MODULE MCProgram ------------------------------
(***************************************************************************)
(* Instances, for TLC, of what the program of hello_world.c is made of:    *)
(* the floating point instruction (FpAlu), the determinant in software,    *)
(* the arithmetic of the filter, the calls of the determinant engine, the  *)
(* loop of main(), its measurements (SystemTime) and what formats its      *)
(* output; and of what happens to its instructions: exceptions             *)
(* (Exceptions) and emulation.  They share nothing: part says which of     *)
(* them a behaviour is of, the others stay as they begin.                  *)
(***************************************************************************)
EXTENDS FpAlu, DetHost, SystemTime, Exceptions

VARIABLES
  part,
  sd_matrix, sd_dimension, sd_m, sd_i, sd_j, sd_p, sd_a, sd_result, sd_pc,
  fl_coeffs, fl_x_n, fl_x_n1, fl_x_n2, fl_y_n1, fl_y_n2, fl_mulA, fl_mulB,
  fl_product, fl_yIntermediate, fl_yAccumulateIntermediate1,
  fl_yAccumulateIntermediate2, fl_calculationStage,
  ml_phase, ml_irq, ml_answer, ml_keeps, ml_pc, ml_done, ml_det, ml_notch,
  ml_notch_done, ml_kept_done, ml_kept_notch, ml_previous_det,
  ml_previous_notch,
  md_insn, md_before, md_regs, md_pc,
  pf_function, pf_item, pf_value, pf_fmt, pf_args, pf_w, pf_next, pf_st,
  pf_out

(* Instructions of each kind in the program, one to emulate in a handler.  *)
Faults == <<"plain", "mul", "misaligned", "illegal", "plain">>
HandlerFaults == <<"mul">>

(* The filter's a1 is set while it runs, and its sums overflow.            *)
Coeffs == [a1 |-> {-3, 2}, a2 |-> {3}, b0 |-> {3}, b1 |-> {-4}, b2 |-> {1}]

SomeNumbers == {0, 1, 9, 10, 99, 100, 127, 128, 129, 246, 247, 255}
PrintC == [conv |-> "c", zero |-> FALSE, width |-> 0, after |-> FALSE,
           long |-> FALSE]

Soft == INSTANCE SoftDet WITH
  Dimensions <- {1, 2, 3}, Entries <- {0, 1}, matrix <- sd_matrix,
  dimension <- sd_dimension, m <- sd_m, i <- sd_i, j <- sd_j, p <- sd_p,
  a <- sd_a, result <- sd_result, pc <- sd_pc

Filters == INSTANCE Filter WITH
  SampleBits <- 2, Shift <- 1, CoeffBits <- 3,
  coeffs <- fl_coeffs, x_n <- fl_x_n, x_n1 <- fl_x_n1, x_n2 <- fl_x_n2,
  y_n1 <- fl_y_n1, y_n2 <- fl_y_n2, mulA <- fl_mulA, mulB <- fl_mulB,
  product <- fl_product, yIntermediate <- fl_yIntermediate,
  yAccumulateIntermediate1 <- fl_yAccumulateIntermediate1,
  yAccumulateIntermediate2 <- fl_yAccumulateIntermediate2,
  calculationStage <- fl_calculationStage

Loop == INSTANCE MainLoop WITH
  Positions <- {1, 2}, phase <- ml_phase, irq <- ml_irq,
  answer <- ml_answer, keeps <- ml_keeps, pc <- ml_pc, done <- ml_done,
  det <- ml_det, notch <- ml_notch, notch_done <- ml_notch_done,
  kept_done <- ml_kept_done, kept_notch <- ml_kept_notch,
  previous_det <- ml_previous_det, previous_notch <- ml_previous_notch

Mul == INSTANCE MulDiv WITH
  Bits <- 3, Regs <- {0, 2, 16}, Values <- {0, 1, 3, 4, 5, 7}, Frame <- 3,
  insn <- md_insn, before <- md_before, regs <- md_regs, pc <- md_pc

Format == INSTANCE Printf WITH
  Word <- 256, Values <- SomeNumbers, Widths <- {0, 1, 3, 4, 6},
  function <- pf_function, item <- pf_item, value <- pf_value,
  fmt <- pf_fmt, args <- pf_args, w <- pf_w, next <- pf_next, st <- pf_st,
  out <- pf_out

ASSUME ProgramAssumption ==
  /\ Soft!SoftDetAssumption /\ Filters!FilterAssumption
  /\ Filters!Simulated!DirectFormAssumption
  /\ Loop!LoopAssumption /\ Mul!MulDivAssumption /\ Format!PrintfAssumption

sd_vars == <<sd_matrix, sd_dimension, sd_m, sd_i, sd_j, sd_p, sd_a,
  sd_result, sd_pc>>
fl_vars == <<fl_coeffs, fl_x_n, fl_x_n1, fl_x_n2, fl_y_n1, fl_y_n2, fl_mulA,
  fl_mulB, fl_product, fl_yIntermediate, fl_yAccumulateIntermediate1,
  fl_yAccumulateIntermediate2, fl_calculationStage>>
ml_vars == <<ml_phase, ml_irq, ml_answer, ml_keeps, ml_pc, ml_done, ml_det,
  ml_notch, ml_notch_done, ml_kept_done, ml_kept_notch, ml_previous_det,
  ml_previous_notch>>
md_vars == <<md_insn, md_before, md_regs, md_pc>>
pf_vars == <<pf_function, pf_item, pf_value, pf_fmt, pf_args, pf_w, pf_next,
  pf_st, pf_out>>
all == <<part, vars, sd_vars, fl_vars, detHostVars, ml_vars, systemVars,
         excVars, md_vars, pf_vars>>

(* Of a part with many initial states one is enough for the others.        *)
ProgramInit ==
  /\ part \in {"instruction", "determinant", "filter", "calls", "loop", "time",
               "exceptions", "emulation", "output"}
  /\ Filters!FilterInit
  /\ part # "filter" => fl_coeffs["a1"] = 2
  /\ Soft!SoftDetInit
  /\ part # "determinant" => sd_dimension = 1 /\ sd_matrix[0] = 1
  /\ Init
  /\ DetHostInit /\ (part # "calls" => style = {"blocking"})
  /\ Loop!LoopInit /\ (part # "loop" => ~ml_keeps)
  /\ SystemTimeInit /\ (part # "time" => ~clock)
  /\ ExcInit /\ (part # "exceptions" => Enables)
  /\ Mul!MDInit
  /\ part # "emulation" =>
       md_insn = [op |-> "mul", a |-> 0, b |-> 0, c |-> 0, imm |-> md_insn.imm]
         /\ md_before = [r \in {0, 2, 16} |-> 0]
  /\ IF part = "output" THEN Format!PrintfInit
     ELSE Format!Called("alt", PrintC, "q")

Only(p) ==
  /\ part = p /\ part' = p
  /\ IF p = "instruction" THEN TRUE ELSE UNCHANGED vars
  /\ IF p = "determinant" THEN TRUE ELSE UNCHANGED sd_vars
  /\ IF p = "filter" THEN TRUE ELSE UNCHANGED fl_vars
  /\ IF p = "calls" THEN TRUE ELSE UNCHANGED detHostVars
  /\ IF p = "loop" THEN TRUE ELSE UNCHANGED ml_vars
  /\ IF p = "time" THEN TRUE ELSE UNCHANGED systemVars
  /\ IF p = "exceptions" THEN TRUE ELSE UNCHANGED excVars
  /\ IF p = "emulation" THEN TRUE ELSE UNCHANGED md_vars
  /\ IF p = "output" THEN TRUE ELSE UNCHANGED pf_vars

ProgramNext ==
  \/ Only("instruction") /\ Next
  \/ Only("determinant") /\ Soft!SoftDetNext
  \/ Only("filter") /\ Filters!FilterNext
  \/ Only("calls") /\ DetHostNext
  \/ Only("loop") /\ Loop!LoopNext
  \/ Only("time") /\ SystemTimeNext
  \/ Only("exceptions") /\ ExcNext
  \/ Only("emulation") /\ Mul!Emulate
  \/ Only("output") /\ Format!PrintfNext

(* The fairness of the parts whose progress is claimed: see their modules. *)
ProgramSpec ==
  /\ ProgramInit /\ [][ProgramNext]_all
  /\ WF_vars(part = "instruction" /\ Working)
  /\ WF_vars(part = "instruction" /\ Take)
  /\ WF_sd_vars(part = "determinant" /\ Soft!SoftDetNext)
  /\ DetHostFairness
  /\ WF_ml_vars(part = "loop" /\ Loop!Loop)
  /\ WF_ml_vars(part = "loop" /\ Loop!FpDetIsr)
  /\ WF_ml_vars(part = "loop" /\ Loop!NotchIsr)
  /\ WF_ml_vars(part = "loop" /\ Loop!DetEngine)
  /\ WF_ml_vars(part = "loop" /\ Loop!NotchEngine)
  /\ WF_excVars(part = "exceptions" /\ ExcStep /\ UNCHANGED options)
-----------------------------------------------------------------------------
(* Properties                                                              *)

(* determinant() calculates the determinant, of matrices without a zero    *)
(* minor, and stays in its memory on the way there; the notch engine's     *)
(* pipeline has the outputs of the difference equation of test.cpp rounded *)
(* down, at most one below what test.cpp, which divides towards 0, makes   *)
(* of the same past; the emulations calculate what the instructions do; a  *)
(* directive of the printfs prints its value in its field, the log's as if *)
(* it had no precision, and takes its argument only.                       *)
AsCalculated ==
  /\ [](/\ Soft!SoftDetTypeOK /\ Soft!FactorsSoFar /\ Soft!SoftDetRight
        /\ Filters!FilterTypeOK
        /\ Mul!MatchesInstruction
        /\ Format!FieldRight /\ Format!PrecisionReadOver
        /\ Format!RestRight)
  /\ Filters!MatchesRoundedDown

(* Instructions and calls of determinant() and fp_det() end, functions of  *)
(* fp_det_interrupt() are called, and main() leaves its loop, although its *)
(* flags are not volatile, and then has both results.  A program without a *)
(* break comes to its end, whatever faults.                                *)
CallsEnd ==
  /\ InstructionsEnd
  /\ part = "determinant" => Soft!SoftDetReturns
  /\ DetCallsEnd /\ Loop!LoopSeesDone /\ []Loop!LeftWithResults
  /\ part = "exceptions" => ProgramEnds
=============================================================================
