------------------------------- MODULE SoftDet ------------------------------
(***************************************************************************)
(* determinant(), the determinant in software that main() compares with    *)
(* the engine's: a copy of the matrix is factored in place and the         *)
(* diagonal multiplied.  A step is one operation of the floating point     *)
(* instruction, or the store of an element.  Memory is flat, as in the     *)
(* program.                                                                *)
(***************************************************************************)
EXTENDS Numbers

CONSTANTS
  Dimensions,
  Entries      \* what the elements of a random matrix may be

SoftDetAssumption ==
  Dimensions \subseteq Nat \ {0} /\ Entries \subseteq Number

VARIABLES
  matrix, dimension,   \* the arguments
  m, i, j, p, a, result,
  pc

softDetVars == <<matrix, dimension, m, i, j, p, a, result, pc>>

Cells(n) == 0 .. n * n - 1

getAt(mem, r, c) == mem[r * dimension + c]
putAt(mem, r, c, value) == [mem EXCEPT ![r * dimension + c] = value]

(* The matrix is what randomMatrix() returns; malloc() and memcpy().       *)
SoftDetInit ==
  /\ dimension \in Dimensions /\ matrix \in [Cells(dimension) -> Entries]
  /\ m = matrix /\ i = 0 /\ j = 0 /\ p = 0 /\ a = matrix[0] /\ result = 1
  /\ pc = "sum"

(* How many products are subtracted from an element before it is stored.   *)
Terms == IF j < i THEN j ELSE i

Sum ==
  /\ pc = "sum" /\ p < Terms
  /\ a' = Minus(a, Times(getAt(m, i, p), getAt(m, p, j))) /\ p' = p + 1
  /\ UNCHANGED <<matrix, dimension, m, i, j, result, pc>>

(* Below the diagonal an element is divided by that of its column.         *)
Quotient == IF j < i THEN Over(a, getAt(m, j, j)) ELSE a

(* Store the element, go on with the next of the row, or the next row.     *)
Put ==
  /\ pc = "sum" /\ p >= Terms
  /\ m' = putAt(m, i, j, Quotient)
  /\ p' = 0
  /\ LET last == i * dimension + j = dimension * dimension - 1
         nextI == IF j = dimension - 1 THEN i + 1 ELSE i
         nextJ == (j + 1) % dimension
     IN  IF last
         THEN i' = 0 /\ j' = 0 /\ pc' = "multiply" /\ UNCHANGED a
         ELSE i' = nextI /\ j' = nextJ /\ a' = getAt(m', nextI, nextJ)
              /\ UNCHANGED pc
  /\ UNCHANGED <<matrix, dimension, result>>

(* Mutant: the diagonal without its last element.                          *)
MultiplyShort ==
  /\ pc = "multiply" /\ i < dimension
  /\ result' = (IF i < dimension - 1 THEN Times(result, getAt(m, i, i)) ELSE result)
  /\ i' = i + 1
  /\ UNCHANGED <<matrix, dimension, m, j, p, a, pc>>

Multiply ==
  /\ pc = "multiply" /\ i < dimension
  /\ result' = Times(result, getAt(m, i, i)) /\ i' = i + 1
  /\ UNCHANGED <<matrix, dimension, m, j, p, a, pc>>

Return ==
  /\ pc = "multiply" /\ i = dimension
  /\ pc' = "done"
  /\ UNCHANGED <<matrix, dimension, m, i, j, p, a, result>>

SoftDetNext == Sum \/ Put \/ Multiply \/ Return
SoftDetSpec ==
  SoftDetInit /\ [][SoftDetNext]_softDetVars /\ WF_softDetVars(SoftDetNext)
-----------------------------------------------------------------------------
(* Every index stays in the matrix, and no more products are subtracted    *)
(* than the loop has: no access outside the memory.                        *)
SoftDetTypeOK ==
  /\ dimension \in Dimensions /\ matrix \in [Cells(dimension) -> Entries]
  /\ m \in [Cells(dimension) -> Word] /\ a \in Word /\ result \in Word
  /\ i \in 0 .. dimension /\ j \in 0 .. dimension - 1 /\ p \in 0 .. dimension - 1
  /\ pc \in {"sum", "multiply", "done"}
  /\ pc = "sum" => p <= Terms

Matrix == [r \in 0 .. dimension - 1 |-> [c \in 0 .. dimension - 1 |-> getAt(matrix, r, c)]]

(* No zero on the diagonal is divided by.                                  *)
RegularUpTo(n) == \A k \in 1 .. n : Determinant(Matrix, k) # 0

(* The element in row r and column c has been replaced by its factor.      *)
Factored(r, c) == pc # "sum" \/ r < i \/ (r = i /\ c < j)

LowerFactor(r, c) == IF c < r THEN getAt(m, r, c) ELSE IF c = r THEN 1 ELSE 0
UpperFactor(r, c) == IF c < r THEN 0 ELSE getAt(m, r, c)

(* The invariant of the two loops: whatever elements have been replaced,   *)
(* the factors among them multiply to the elements of the matrix, and the  *)
(* others are still the matrix's (hello_world.c says Doolittle's method).  *)
FactorsSoFar ==
  \A r, c \in 0 .. dimension - 1 :
    LET product(k) == Times(LowerFactor(r, k), UpperFactor(k, c))
    IN  IF Factored(r, c)
        THEN RegularUpTo(IF c < r THEN c + 1 ELSE r)
               => Total(0 .. (IF c < r THEN c ELSE r), product) = getAt(matrix, r, c)
        ELSE getAt(m, r, c) = getAt(matrix, r, c)

(* The result is the determinant, unless one of the leading minors is      *)
(* zero: then it is no number, also when the matrix has a determinant.     *)
SoftDetRight ==
  pc = "done" =>
    result = IF RegularUpTo(dimension - 1) THEN Determinant(Matrix, dimension)
             ELSE Undefined

(* A call returns.                                                         *)
SoftDetReturns == <>(pc = "done")
=============================================================================
