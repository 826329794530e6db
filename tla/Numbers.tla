------------------------------- MODULE Numbers ------------------------------
(***************************************************************************)
(* The numbers the hardware calculates with, for a model that asks whether *)
(* the right operands meet in the right order.  A floating point number is *)
(* an element of the field of integers modulo Prime, where sums, products  *)
(* and quotients are exact, and Undefined stands for everything that is no *)
(* number: NaN, the infinities, the result of a core that has not finished *)
(* and words of a memory that nothing has been written to.  Whatever is    *)
(* calculated from it is Undefined.  Rounding is left out.                 *)
(***************************************************************************)
EXTENDS Integers, FiniteSets, FiniteSetsExt

CONSTANT Prime

(* Prime is a prime number: dividing by another number than 0 has a result *)
(* among the numbers.                                                      *)
ASSUME PrimeAssumption ==
  /\ Prime \in Nat \ {0, 1}
  /\ \A a, b \in 0 .. (Prime - 1) :
       b # 0 => \E q \in 0 .. (Prime - 1) : (q * b) % Prime = a

Undefined == -1
Number == 0 .. (Prime - 1)
Word == Number \cup {Undefined}

Plus(a, b) ==
  IF Undefined \in {a, b} THEN Undefined ELSE (a + b) % Prime
Minus(a, b) ==
  IF Undefined \in {a, b} THEN Undefined ELSE (a - b) % Prime
Times(a, b) ==
  IF Undefined \in {a, b} THEN Undefined ELSE (a * b) % Prime
Over(a, b) ==
  IF Undefined \in {a, b} \/ b = 0 THEN Undefined
  ELSE CHOOSE q \in Number : (q * b) % Prime = a

Total(S, value(_)) == MapThenSumSet(value, S) % Prime

(* The determinant of the first n rows and columns of the matrix a, whose  *)
(* rows and columns count from 0, by expansion along its rows: minor[S] is *)
(* that of the last Cardinality(S) of the n rows and the columns S.        *)
Determinant(a, n) ==
  LET minor[S \in SUBSET (0 .. (n - 1))] ==
        IF S = {} THEN 1
        ELSE LET row == n - Cardinality(S)
                 term(c) == (IF Cardinality({d \in S : d < c}) % 2 = 0
                             THEN 1 ELSE Prime - 1)
                            * a[row][c] * minor[S \ {c}]
             IN  Total(S, term)
  IN  minor[0 .. (n - 1)]
=============================================================================
