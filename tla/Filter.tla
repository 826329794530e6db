------------------------------- MODULE Filter -------------------------------
(***************************************************************************)
(* The arithmetic of the notch engine: its calculation pipeline with the   *)
(* widths of its registers, and the coefficients the program may set in    *)
(* any cycle.  The FIFOs give a sample, and take a word, when they like;   *)
(* writeToResult, which selects the word behind all this, is left out.     *)
(* Registers are bit patterns; the multipliers are signed.                 *)
(***************************************************************************)
EXTENDS Integers

CONSTANTS
  SampleBits,      \* 8
  Shift,           \* COEFF_SCALING, 30
  CoeffBits,       \* 32
  Coeffs           \* of each coefficient, the values the program gives it

FilterAssumption ==
  /\ SampleBits \in Nat \ {0} /\ Shift \in Nat /\ CoeffBits \in Nat \ {0}
  /\ Shift <= CoeffBits + 1
  /\ \A n \in {"a1", "a2", "b0", "b1", "b2"} :
       Coeffs[n] \subseteq -(2 ^ (CoeffBits - 1)) .. 2 ^ (CoeffBits - 1) - 1

VARIABLES
  coeffs,                   \* a1, a2, b0, b1, b2
  x_n, x_n1, x_n2, y_n1, y_n2,
  mulA, mulB,               \* the operands of the five multipliers
  product,                  \* and their results
  yIntermediate, yAccumulateIntermediate1, yAccumulateIntermediate2,
  calculationStage

lines == <<x_n, x_n1, x_n2, y_n1, y_n2>>
accumulators ==
  <<yIntermediate, yAccumulateIntermediate1, yAccumulateIntermediate2>>
filterRegisters ==
  <<coeffs, lines, mulA, mulB, product, accumulators, calculationStage>>

Names == {"a1", "a2", "b0", "b1", "b2"}
Bits(w) == 0 .. 2 ^ w - 1
ProductBits == CoeffBits + SampleBits      \* 40
SumBits == ProductBits + 1                 \* 41

Signed(v, w) == LET u == v % 2 ^ w IN IF u < 2 ^ (w - 1) THEN u ELSE u - 2 ^ w

FilterInit ==
  /\ coeffs \in {c \in [Names -> Bits(CoeffBits)] :
                  \A n \in Names : Signed(c[n], CoeffBits) \in Coeffs[n]}
  /\ x_n = 0 /\ x_n1 = 0 /\ x_n2 = 0 /\ y_n1 = 0 /\ y_n2 = 0
  /\ mulA = coeffs /\ mulB = [n \in Names |-> 0]
  /\ product = [n \in Names |-> 0]
  /\ yIntermediate = 0
  /\ yAccumulateIntermediate1 = 0 /\ yAccumulateIntermediate2 = 0
  /\ calculationStage = 0
-----------------------------------------------------------------------------
(* slave_write, in any cycle.                                              *)
SlaveWrite ==
  \/ UNCHANGED coeffs
  \/ \E n \in Names : \E c \in Coeffs[n] :
       coeffs' = [coeffs EXCEPT ![n] = c % 2 ^ CoeffBits]

(* The multipliers have one register, behind the product.                  *)
Multipliers ==
  product' = [n \in Names |->
    (Signed(mulA[n], CoeffBits) * Signed(mulB[n], SampleBits)) % 2 ^ ProductBits]

At(stage, next) == calculationStage = stage /\ calculationStage' = next

(* The request for a sample, and its latency.                              *)
Fetch ==
  /\ At(0, 1) \/ At(1, 2)
  /\ UNCHANGED <<lines, mulA, mulB, accumulators>>

Shifted ==
  /\ At(2, 3)
  /\ x_n' \in Bits(SampleBits) /\ x_n1' = x_n /\ x_n2' = x_n1
  /\ UNCHANGED <<y_n1, y_n2, mulA, mulB, accumulators>>

Operands ==
  /\ At(3, 4)
  /\ mulA' = coeffs
  /\ mulB' = [a1 |-> y_n1, a2 |-> y_n2, b0 |-> x_n, b1 |-> x_n1, b2 |-> x_n2]
  /\ UNCHANGED <<lines, accumulators>>

MultiplierLatency ==
  /\ At(4, 5) /\ UNCHANGED <<lines, mulA, mulB, accumulators>>

(* The sign bit in front of the other bits of a product is its own: the    *)
(* sum extends it with zeros.                                              *)
Accumulate ==
  /\ At(5, 6)
  /\ yIntermediate' = (product["b0"] + product["b1"]) % 2 ^ SumBits
  /\ yAccumulateIntermediate1' = (product["b2"] - product["a1"]) % 2 ^ SumBits
  /\ yAccumulateIntermediate2' = product["a2"]
  /\ UNCHANGED <<lines, mulA, mulB>>

FinalAccumulation ==
  /\ At(6, 7)
  /\ yIntermediate' =
       (yIntermediate + yAccumulateIntermediate1 - yAccumulateIntermediate2)
         % 2 ^ SumBits
  /\ UNCHANGED <<lines, mulA, mulB>>
  /\ UNCHANGED <<yAccumulateIntermediate1, yAccumulateIntermediate2>>

(* Bits 37 to 30.                                                          *)
Output == (yIntermediate \div 2 ^ Shift) % 2 ^ SampleBits

Descaled ==
  /\ At(7, 9)
  /\ y_n2' = y_n1 /\ y_n1' = Output
  /\ UNCHANGED <<x_n, x_n1, x_n2, mulA, mulB, accumulators>>

(* When the write FIFO has room.                                           *)
HandOver ==
  /\ At(9, 10)
  /\ UNCHANGED <<lines, mulA, mulB, accumulators>>

HandedOver ==
  /\ At(10, 0) /\ UNCHANGED <<lines, mulA, mulB, accumulators>>

(* No sample, no room, or not in a run.                                    *)
Wait ==
  /\ At(0, 0) \/ At(9, 9)
  /\ UNCHANGED <<lines, mulA, mulB, accumulators>>

(* The reset after a run, which leaves the pipeline empty (see Notch,      *)
(* QuietOutsideRuns).                                                      *)
ResetFilter ==
  /\ At(0, 0)
  /\ x_n' = 0 /\ x_n1' = 0 /\ x_n2' = 0 /\ yIntermediate' = 0
  /\ y_n1' = 0 /\ y_n2' = 0
  /\ UNCHANGED <<mulA, mulB>>
  /\ UNCHANGED <<yAccumulateIntermediate1, yAccumulateIntermediate2>>

FilterNext ==
  /\ SlaveWrite /\ Multipliers
  /\ \/ Fetch \/ Shifted \/ Operands \/ MultiplierLatency \/ Accumulate
     \/ FinalAccumulation \/ Descaled \/ HandOver \/ HandedOver \/ Wait
     \/ ResetFilter

FilterSpec == FilterInit /\ [][FilterNext]_filterRegisters
-----------------------------------------------------------------------------
FilterTypeOK ==
  /\ coeffs \in [Names -> Bits(CoeffBits)] /\ mulA \in [Names -> Bits(CoeffBits)]
  /\ mulB \in [Names -> Bits(SampleBits)] /\ product \in [Names -> Bits(ProductBits)]
  /\ {x_n, x_n1, x_n2, y_n1, y_n2} \subseteq Bits(SampleBits)
  /\ {yIntermediate, yAccumulateIntermediate1, yAccumulateIntermediate2}
       \subseteq Bits(SumBits)
  /\ calculationStage \in 0 .. 10

(* The simulation's variables.  Its loop has turned when the output comes  *)
(* out of the accumulator; the coefficients of a sample are those at the   *)
(* multipliers, whatever the program sets meanwhile.                       *)
SampleOf(bits) == Signed(bits, SampleBits)
Fresh == calculationStage \in 3 .. 7     \* x_n is a sample without an output

Simulated == INSTANCE DirectForm WITH
  coeff <- [n \in Names |-> Signed(mulA[n], CoeffBits)],
  samples <- IF Fresh THEN <<SampleOf(x_n1), SampleOf(x_n2)>>
             ELSE <<SampleOf(x_n), SampleOf(x_n1)>>,
  outputBuffer <- <<SampleOf(y_n1), SampleOf(y_n2)>>

(* The outputs are those of the simulation's difference equation rounded   *)
(* down, for whatever samples and coefficients, with sums that overflow,   *)
(* with coefficients that change between two cycles, and after a reset:    *)
(* where the simulation divides a negative sum with a remainder, the       *)
(* engine's output is one less than the simulation's for the same samples  *)
(* and the same outputs before; everywhere else they are equal.            *)
MatchesRoundedDown == Simulated!RoundedDownSafety

(* The outputs are the simulation's own (test.cpp:98: y /= COEFF_SCALING). *)
MatchesSimulation == Simulated!DirectFormSafety
=============================================================================
