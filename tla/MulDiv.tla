------------------------------- MODULE MulDiv -------------------------------
(***************************************************************************)
(* Emulation of the multiplications and divisions that a processor leaves  *)
(* to software.  Words have Bits bits instead of 32.  Registers that are   *)
(* no operands stay as they are.                                           *)
(***************************************************************************)
EXTENDS Integers

CONSTANTS
  Bits,
  Regs,             \* registers that instructions name
  Values,           \* values of registers
  Frame             \* what the exception takes of the stack

sp == 27
Size == 2 ^ Bits
Contents == 0 .. Size - 1

MulDivAssumption ==
  Bits \in Nat \ {0} /\ Regs \subseteq 0 .. 31 /\ Values \subseteq Contents /\ Frame \in Contents

VARIABLES
  insn,             \* the instruction
  before, regs,     \* registers before it, and now
  pc

mdVars == <<insn, before, regs, pc>>

Ops == {"mul", "muli", "mulxuu", "mulxsu", "mulxss", "div", "divu"}
Negative(x) == x >= Size \div 2
Minus(x, y) == (x - y) % Size
Abs(x) == IF Negative(x) THEN Minus(0, x) ELSE x

MDInit ==
  /\ insn \in [op : Ops, a : Regs, b : Regs, c : Regs, imm : Values]
  /\ IF insn.op = "muli" THEN insn.c = CHOOSE r \in Regs : TRUE
     ELSE insn.imm = CHOOSE v \in Values : TRUE
  /\ before \in [Regs -> Values] /\ (0 \in Regs => before[0] = 0)
  /\ regs = before /\ pc = "fault"

(* The registers on the stack, where the emulation looks for them.  The    *)
(* stack pointer is the one of the exception.                              *)
Saved == [r \in Regs |-> IF r = sp THEN Minus(regs[r], Frame) ELSE regs[r]]

(* Shift and subtract: the remainder and, behind the dividend, the         *)
(* quotient.                                                               *)
Divide(x, y) ==
  LET loop[k \in 0 .. Bits] ==
        IF k = 0 THEN [remainder |-> 0, quotient |-> x]
        ELSE LET l == loop[k - 1]
                 r == (2 * l.remainder + (IF Negative(l.quotient) THEN 1 ELSE 0)) % Size
                 q == (2 * l.quotient) % Size
             IN  IF r < y THEN [remainder |-> r, quotient |-> q]
                 ELSE [remainder |-> r - y, quotient |-> q + 1]
  IN  loop[Bits].quotient

Quotient(op, x, y) ==
  LET q == Divide(Abs(x), Abs(y))
  IN  IF op = "divu" THEN Divide(x, y)
      ELSE IF Negative(x) # Negative(y) THEN Minus(0, q) ELSE q

(* Shift and add: the lower half from the highest bit of the multiplier,   *)
(* the upper half from the lowest; its carry comes in again at the shift.  *)
Products(x, y) ==
  LET loop[k \in 0 .. Bits] ==
        IF k = 0 THEN [mul |-> 0, mulxuu |-> 0, left |-> y, right |-> y]
        ELSE LET l == loop[k - 1]
                 sum == (l.mulxuu + (l.right % 2) * x) % Size
                 carry == IF l.right % 2 = 1 /\ sum < x THEN Size \div 2 ELSE 0
                 lower == 2 * l.mul + (IF Negative(l.left) THEN x ELSE 0)
             IN  [mul |-> lower % Size, mulxuu |-> sum \div 2 + carry,
                  left |-> (2 * l.left) % Size, right |-> l.right \div 2]
  IN  loop[Bits]

Product(op, x, y) ==
  LET p == Products(x, y)
      mulxsu == IF Negative(x) THEN Minus(p.mulxuu, y) ELSE p.mulxuu
  IN  CASE op \in {"mul", "muli"} -> p.mul
        [] op = "mulxuu" -> p.mulxuu
        [] op = "mulxsu" -> mulxsu
        [] op = "mulxss" -> IF Negative(y) THEN Minus(mulxsu, x) ELSE mulxsu

(* muli names its destination where the others name an operand.            *)
Destination == IF insn.op = "muli" THEN insn.b ELSE insn.c

(* The result goes where its register is saved, and with that into the     *)
(* register, except for zero, gp and sp, which are not loaded again.       *)
Emulate ==
  /\ pc = "fault" /\ pc' = "done"
  /\ LET x == Saved[insn.a]
         y == IF insn.op = "muli" THEN insn.imm ELSE Saved[insn.b]
         result == IF insn.op \in {"div", "divu"} THEN Quotient(insn.op, x, y)
                   ELSE Product(insn.op, x, y)
     IN  regs' = IF Destination \in {0, 26, sp} THEN regs
                 ELSE [regs EXCEPT ![Destination] = result]
  /\ UNCHANGED <<insn, before>>

MDSpec == MDInit /\ [][Emulate]_mdVars
-----------------------------------------------------------------------------
Signed(x) == IF Negative(x) THEN x - Size ELSE x

(* What the instruction is defined to do.                                  *)
Meaning(op, x, y) ==
  CASE op \in {"mul", "muli"} -> (x * y) % Size
    [] op = "mulxuu" -> (x * y) \div Size
    [] op = "mulxsu" -> ((Signed(x) * y) \div Size) % Size
    [] op = "mulxss" -> ((Signed(x) * Signed(y)) \div Size) % Size
    [] op = "divu" -> x \div y
    [] op = "div" -> LET q == Abs(x) \div Abs(y)
                     IN  IF Negative(x) # Negative(y) THEN Minus(0, q) ELSE q

(* alt_exception_muldiv.S: the emulations match the instructions.  (Into   *)
(* sp, a documented exception, they do not; nothing divides by zero.)      *)
MatchesInstruction ==
  LET y == IF insn.op = "muli" THEN insn.imm ELSE before[insn.b]
  IN  pc = "done" /\ Destination # sp /\ ~(insn.op \in {"div", "divu"} /\ y = 0) =>
        regs = IF Destination = 0 THEN before
               ELSE [before EXCEPT ![Destination] = Meaning(insn.op, before[insn.a], y)]
=============================================================================
