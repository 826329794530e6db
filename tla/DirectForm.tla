----------------------------- MODULE DirectForm -----------------------------
(***************************************************************************)
(* The filter as the simulation (notch_files/test/test.cpp) calculates it: *)
(* direct form I on samples of SampleBits bits with coefficients scaled by *)
(* 2^Shift.  A step is one turn of its loop.                               *)
(***************************************************************************)
EXTENDS Integers

CONSTANTS
  SampleBits, Shift, CoeffBits,
  Coeffs           \* of each coefficient, the values it may be given

DirectFormAssumption ==
  SampleBits \in Nat \ {0} /\ Shift \in Nat /\ CoeffBits \in Nat \ {0}

Sample == -(2 ^ (SampleBits - 1)) .. 2 ^ (SampleBits - 1) - 1
Names == {"a1", "a2", "b0", "b1", "b2"}
Setting(c) == DOMAIN c = Names /\ \A n \in Names : c[n] \in Coeffs[n]

VARIABLES
  coeff,          \* a and b; a[0] is not used
  samples,        \* the two samples before, newest first
  outputBuffer    \* the last two outputs, newest first

filterVars == <<coeff, samples, outputBuffer>>

DirectFormInit ==
  /\ Setting(coeff)
  /\ samples = <<0, 0>> /\ outputBuffer = <<0, 0>>

(* What a variable of w bits holds of v, in two's complement.              *)
Signed(v, w) == LET u == v % 2 ^ w IN IF u < 2 ^ (w - 1) THEN u ELSE u - 2 ^ w

(* The division of C++, which rounds towards 0; and what it is above the   *)
(* shift that a circuit descales with, which rounds down.                  *)
Descale(y) == IF y < 0 THEN -((-y) \div 2 ^ Shift) ELSE y \div 2 ^ Shift
RoundedUp(y) == IF y < 0 /\ y % 2 ^ Shift # 0 THEN 1 ELSE 0

DifferenceEquation(x) ==
  coeff["b0"] * x + coeff["b1"] * samples[1] + coeff["b2"] * samples[2]
    - coeff["a1"] * outputBuffer[1] - coeff["a2"] * outputBuffer[2]

Turn(x, y) ==
  /\ samples' = <<x, samples[1]>>
  /\ outputBuffer' = <<Signed(y, SampleBits), outputBuffer[1]>>
  /\ UNCHANGED coeff

NextSample == \E x \in Sample : Turn(x, Descale(DifferenceEquation(x)))

(* Between two files: other coefficients; and all from the beginning.      *)
Configure == Setting(coeff') /\ UNCHANGED <<samples, outputBuffer>>

Restart ==
  /\ samples' = <<0, 0>> /\ outputBuffer' = <<0, 0>>
  /\ UNCHANGED coeff

DirectFormNext == NextSample \/ Configure \/ Restart
DirectFormSafety == DirectFormInit /\ [][DirectFormNext]_filterVars

(* The same loop, but that of each negative sum that is not a multiple of  *)
(* the scaling the output is one less.                                     *)
NextRoundedDown ==
  \E x \in Sample :
    LET y == DifferenceEquation(x) IN Turn(x, Descale(y) - RoundedUp(y))

RoundedDownSafety ==
  DirectFormInit /\ [][NextRoundedDown \/ Configure \/ Restart]_filterVars
=============================================================================
