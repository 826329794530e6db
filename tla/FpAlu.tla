-------------------------------- MODULE FpAlu -------------------------------
(***************************************************************************)
(* The floating point custom instruction: ip/fp_alu.vhd, three cores with  *)
(* a counter that knows when their result is ready, inside                 *)
(* ip/fp_alu_improved.v, which answers the simple cases at once.  The      *)
(* cores and the counter are clocked with clk_en, the registers done and   *)
(* result of the improved unit always.                                     *)
(*                                                                         *)
(* Numbers are those of module Numbers; among those that are none of them, *)
(* the unit tells infinities (bits 30 to 0 are 7F800000) from NaN.  The    *)
(* condition for a NaN compares eight bits with 'h255, which they never    *)
(* are: a NaN goes to the core like a number.                              *)
(***************************************************************************)
EXTENDS Numbers

CONSTANT Finite           \* numbers the CPU calculates with

ASSUME AluAssumption == Finite \subseteq Number

NaN == Undefined
Infinity == -2
Operands == Finite \cup {NaN, Infinity}

(* The selector of the custom instruction.                                 *)
ADD == 0
SUB == 1
MUL == 2
DIV == 3
Operations == ADD .. DIV

VARIABLES
  done, result,
  counter,                \* of fp_alu: four bits, counting down
  n, dataa, datab,        \* the instruction the CPU is waiting for
  age,                    \* clocked cycles for which the cores have seen it
  cpu,                    \* "free" or "ci"
  stale                   \* history: done was up when the instruction came

vars == <<done, result, counter, n, dataa, datab, age, cpu, stale>>

(* The reset clears the counter; done follows it at the next clock.        *)
Init ==
  /\ done = TRUE /\ result = NaN /\ counter = 0 /\ stale = FALSE
  /\ n = ADD /\ dataa = NaN /\ datab = NaN /\ age = 0 /\ cpu = "free"
-----------------------------------------------------------------------------
(* What the operation is: the cores compute it exactly, and a number       *)
(* divided by zero, or anything done with what is no number, is no number. *)
Plain(v) == IF v = Infinity THEN Undefined ELSE v
Value(op, a, b) ==
  CASE op = ADD -> Plus(Plain(a), Plain(b))
    [] op = SUB -> Minus(Plain(a), Plain(b))
    [] op = MUL -> Times(Plain(a), Plain(b))
    [] op = DIV -> Over(Plain(a), Plain(b))

(* Pipeline stages of the cores, and the count for each operation.         *)
Latency(op) == CASE op \in {ADD, SUB} -> 7 [] op = MUL -> 5 [] op = DIV -> 6

(* Mutant: the constants of the multiplier and the divider are swapped.    *)
CountSwapped(op) ==
  CASE op \in {ADD, SUB} -> 6 [] op = MUL -> 5 [] op = DIV -> 4

Count(op) == CASE op \in {ADD, SUB} -> 6 [] op = MUL -> 4 [] op = DIV -> 5

aludone == counter = 0
aluresult == IF age >= Latency(n) THEN Value(n, dataa, datab) ELSE Undefined

(* The cases answered at once: the condition for each, and its answer.     *)
Shortcut(op, a, b) ==
  \/ Infinity \in {a, b}
  \/ op = DIV /\ b = 0
  \/ op \in {ADD, SUB} /\ 0 \in {a, b}
  \/ op = MUL /\ a # 0 /\ b # 0 /\ 1 \in {a, b}
  \/ op = DIV /\ a # 0 /\ b = 1

Answer(op, a, b) ==
  IF Infinity \in {a, b} THEN NaN
  ELSE CASE op = ADD -> IF a = 0 THEN b ELSE a
         [] op = SUB -> IF a = 0 THEN Minus(0, b) ELSE a
         [] op = MUL -> IF a = 1 THEN b ELSE a
         [] op = DIV -> IF b # 0 THEN a ELSE IF a = 0 THEN NaN ELSE Infinity

(* Zero times or divided by something puts zero into result, but waits for *)
(* the core all the same.                                                  *)
ZeroResult(op, a, b) ==
  op \in {MUL, DIV} /\ Infinity \notin {a, b}
    /\ 0 \in {a, b} /\ ~(op = DIV /\ b = 0)
-----------------------------------------------------------------------------
CounterEdge(clk_en) ==
  counter' = IF clk_en THEN (counter - 1) % 16 ELSE counter

Cores == done' = aludone /\ result' = aluresult

(* start: done and result stay as they were unless there is an answer.     *)
Start(op, a, b) ==
  /\ cpu = "free" /\ cpu' = "ci"
  /\ n' = op /\ dataa' = a /\ datab' = b
  /\ age' = 1 /\ counter' = Count(op)
  /\ done' = (done \/ Shortcut(op, a, b))
  /\ result' = IF Shortcut(op, a, b) THEN Answer(op, a, b)
               ELSE IF ZeroResult(op, a, b) THEN 0 ELSE result
  /\ stale' = done

(* The CPU waits for done, with its operands held and clk_en high.         *)
Working ==
  /\ cpu = "ci" /\ ~done
  /\ age' = (IF age < 7 THEN age + 1 ELSE age)
  /\ CounterEdge(TRUE) /\ Cores
  /\ UNCHANGED <<n, dataa, datab, cpu, stale>>

(* The cycle in which it sees done and takes the result.                   *)
Take ==
  /\ cpu = "ci" /\ done /\ cpu' = "free"
  /\ n' = ADD /\ dataa' = NaN /\ datab' = NaN /\ age' = 0 /\ stale' = FALSE
  /\ CounterEdge(TRUE) /\ Cores

(* Between instructions the CPU may or may not raise clk_en.               *)
Rest(clk_en) ==
  /\ cpu = "free"
  /\ CounterEdge(clk_en) /\ Cores
  /\ UNCHANGED <<n, dataa, datab, age, cpu, stale>>

Next ==
  \/ \E op \in Operations, a, b \in Operands : Start(op, a, b)
  \/ Working \/ Take
  \/ \E clk_en \in BOOLEAN : Rest(clk_en)

Spec == Init /\ [][Next]_vars /\ WF_vars(Working) /\ WF_vars(Take)
-----------------------------------------------------------------------------
(* Properties                                                              *)

(* The type invariant.                                                     *)
AluTypeOK ==
  /\ done \in BOOLEAN /\ counter \in 0 .. 15 /\ age \in 0 .. 7
  /\ result \in Word \cup {Infinity}
  /\ n \in Operations /\ dataa \in Operands /\ datab \in Operands
  /\ cpu \in {"free", "ci"} /\ stale \in BOOLEAN

(* What the CPU takes is the result of the instruction it issued: done     *)
(* announces the answer of a simple case or the core that has finished,    *)
(* never one still on its way.                                             *)
OwnResultTaken ==
  cpu = "ci" /\ done => Plain(result) = Value(n, dataa, datab)

(* The same of the instructions issued while done was down.                *)
ResultTaken == ~stale => OwnResultTaken

(* Every instruction comes to an end, the products and quotients of zero   *)
(* too, which the unit seems to answer at once but does not announce.      *)
InstructionsEnd == cpu = "ci" ~> cpu = "free"
=============================================================================
