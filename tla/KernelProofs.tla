---------------------------- MODULE KernelProofs ----------------------------
(***************************************************************************)
(* Proofs about what the kernel's calls share with each other and with the *)
(* exception handler. Heap: what sbrk() hands out never overlaps and what  *)
(* the stack check reports is so, for words, limits and sizes of any       *)
(* length and any number of calls that could interrupt each other.         *)
(* Interrupts: the mask register, its copy and the table of handlers, for  *)
(* any number of interrupts and handlers and calls in any order.           *)
(* Startup: what a program finds when it begins and leaves when it ends,   *)
(* for any number of constructors and whatever came before.                *)
(* Caches: what the functions that flush them leave, for caches and        *)
(* regions of any size, with handlers that use the caches meanwhile.       *)
(* Gmon: what the profiler's lists know, for programs and handlers with    *)
(* any functions, that call each other as often as they like.              *)
(***************************************************************************)
EXTENDS Heap, Interrupts, Startup, Caches, Gmon, SequenceTheorems, FiniteSetTheorems,
        WellFoundedInduction, TLAPS
-----------------------------------------------------------------------------
(* Heap.                                                                   *)

Frame == [pc : {"round", "extend", "advance", "stack", "old_stack", "return"},
          incr : Nat, prev : Nat]

(* The call that runs is the only one, because it has disabled interrupts, *)
(* and its copy of the end of the heap is still the end of the heap.       *)
Alone ==
  \/ calls = << >>
  \/ /\ pie = FALSE
     /\ \E f \in Frame : calls = <<f>> /\ (f.pc = "advance" => f.prev = heap_end)

(* Every block lies below the end of the heap.                             *)
Below ==
  /\ heap_end \in Nat
  /\ \A b \in blocks : /\ b.start \in Nat /\ b.size \in Nat
                       /\ b.start + b.size <= heap_end

HeapInv == Alone /\ Below /\ BlocksApart

(* Rounding never moves the end of the heap down.                          *)
LEMMA AlignedUp ==
  ASSUME NEW a \in Nat
  PROVE  Aligned(a) \in Nat /\ Aligned(a) >= a
<1>1. a % Word \in 0 .. Word - 1
  BY HeapAssumption
<1>2. (Word - (a % Word)) \in Nat
  BY <1>1, HeapAssumption
<1>3. (Word - (a % Word)) % Word \in 0 .. Word - 1
  BY <1>2, HeapAssumption
<1> QED
  BY <1>3, HeapAssumption DEF Aligned

LEMMA HeapInit_Inv == HeapInit => HeapInv
  BY DEF HeapInit, HeapInv, Alone, Below, BlocksApart

(* A call that runs is the only one.                                       *)
LEMMA OneCall ==
  ASSUME Alone, calls # << >>
  PROVE  /\ calls[1] \in Frame /\ calls = <<calls[1]>> /\ pie = FALSE
         /\ calls[1].pc = "advance" => calls[1].prev = heap_end
  BY DEF Alone

(* The program counter of the call that runs moves on, nothing else in it. *)
LEMMA GotoKeeps ==
  ASSUME Alone, calls # << >>, UNCHANGED pie,
         NEW label \in {"extend", "old_stack", "return", "stack"}, Goto(label)
  PROVE  Alone'
<1> DEFINE new == [calls[1] EXCEPT !.pc = label]
<1>1. calls[1] \in Frame /\ calls = <<calls[1]>> /\ pie = FALSE
  BY OneCall
<1>2. new \in Frame /\ new.pc = label
  BY <1>1 DEF Frame
<1>3. calls' = <<new>>
  BY <1>1 DEF Goto
<1> QED
  BY <1>1, <1>2, <1>3 DEF Alone

(* sbrk() starts only when no other call runs: it has disabled interrupts. *)
LEMMA SbrkKeeps ==
  ASSUME HeapInv, NEW incr \in Sizes, sbrk(incr)
  PROVE  HeapInv'
<1>1. calls = << >>
  BY OneCall DEF HeapInv, sbrk
<1>2. incr \in Nat
  BY HeapAssumption
<1>3. calls' = <<[pc |-> "round", incr |-> incr, prev |-> 0]>>
  BY <1>1 DEF sbrk
<1>4. [pc |-> "round", incr |-> incr, prev |-> 0] \in Frame
  BY <1>2 DEF Frame
<1>5. Alone'
  BY <1>3, <1>4 DEF sbrk, Alone
<1> QED
  BY <1>5 DEF HeapInv, Below, BlocksApart, sbrk

LEMMA RoundKeeps ==
  ASSUME HeapInv, Round
  PROVE  HeapInv'
<1>1. calls # << >> /\ calls[1].pc = "round"
  BY DEF Round, At, Running
<1>2. heap_end' \in Nat /\ heap_end' >= heap_end
  BY AlignedUp DEF Round, HeapInv, Below
<1>3. Alone'
  BY <1>1, GotoKeeps DEF Round, HeapInv
<1>4. Below'
  BY <1>2 DEF Round, HeapInv, Below
<1> QED
  BY <1>3, <1>4 DEF HeapInv, BlocksApart, Round

LEMMA ExtendKeeps ==
  ASSUME HeapInv, Extend
  PROVE  HeapInv'
<1> DEFINE new == [calls[1] EXCEPT !.pc = "advance", !.prev = heap_end]
<1>1. /\ calls # << >> /\ calls[1] \in Frame /\ heap_end \in Nat
      /\ calls = <<calls[1]>> /\ pie = FALSE
  BY OneCall DEF HeapInv, Below, Extend, At, Running
<1>2. new \in Frame /\ new.prev = heap_end
  BY <1>1 DEF Frame
<1>3. calls' = <<new>>
  <2>1. 1 \in DOMAIN calls
    BY <1>1
  <2> QED
    BY <1>1, <2>1 DEF Extend
<1>4. Alone'
  BY <1>1, <1>2, <1>3 DEF Extend, HeapInv, Alone
<1> QED
  BY <1>4 DEF HeapInv, Below, BlocksApart, Extend

(* The new block begins where all the others end.                          *)
LEMMA AdvanceKeeps ==
  ASSUME HeapInv, Advance
  PROVE  HeapInv'
<1> DEFINE new == [start |-> calls[1].prev, size |-> calls[1].incr]
<1>1. calls # << >> /\ calls[1] \in Frame /\ calls[1].prev = heap_end
  BY OneCall DEF HeapInv, Advance, At, Running
<1>2. /\ new.start = heap_end /\ new.size \in Nat /\ heap_end \in Nat
      /\ heap_end' = heap_end + new.size
  BY <1>1 DEF Advance, Frame, HeapInv, Below
<1>3. blocks' = blocks \cup {new}
  BY DEF Advance
<1>4. Alone'
  <2>1. PICK label \in {"return", "stack"} : Goto(label)
    BY DEF Advance
  <2> QED
    BY <1>1, <2>1, GotoKeeps DEF Advance, HeapInv
<1>5. Below'
  BY <1>2, <1>3 DEF HeapInv, Below
<1>6. BlocksApart'
  <2> SUFFICES ASSUME NEW b \in blocks', NEW c \in blocks', b # c
               PROVE  \/ b.start + b.size <= c.start
                      \/ c.start + c.size <= b.start
    BY DEF BlocksApart
  <2>1. CASE b \in blocks /\ c \in blocks
    BY <2>1 DEF HeapInv, BlocksApart
  <2>2. CASE b = new
    BY <1>2, <1>3, <2>2 DEF HeapInv, Below
  <2>3. CASE c = new
    BY <1>2, <1>3, <2>3 DEF HeapInv, Below
  <2> QED
    BY <1>3, <2>1, <2>2, <2>3
<1> QED
  BY <1>4, <1>5, <1>6 DEF HeapInv

(* The other steps of a call move its program counter only.                *)
LEMMA OthersKeep ==
  ASSUME HeapInv, Refuse \/ LimitStack \/ LimitOldStack
  PROVE  HeapInv'
<1>1. calls # << >>
  BY DEF Refuse, LimitStack, LimitOldStack, At, Running
<1>2. PICK label \in {"return", "old_stack"} : Goto(label)
  BY DEF Refuse, LimitStack, LimitOldStack
<1>3. UNCHANGED <<heap_end, blocks, pie>>
  BY DEF Refuse, LimitStack, LimitOldStack
<1>4. Alone'
  BY <1>1, <1>2, <1>3, GotoKeeps DEF HeapInv
<1> QED
  BY <1>3, <1>4 DEF HeapInv, Below, BlocksApart

LEMMA ReturnKeeps ==
  ASSUME HeapInv, Return
  PROVE  HeapInv'
<1>1. calls' = << >>
  BY OneCall DEF Return, At, Running, HeapInv
<1>2. Alone'
  BY <1>1 DEF Alone
<1> QED
  BY <1>2 DEF HeapInv, Below, BlocksApart, Return

LEMMA HeapStep ==
  ASSUME HeapInv, [HeapNext]_heapVars
  PROVE  HeapInv'
<1>1. ASSUME NEW incr \in Sizes, sbrk(incr)
      PROVE  HeapInv'
  BY <1>1, SbrkKeeps
<1>2. CASE Round
  BY <1>2, RoundKeeps
<1>3. CASE Extend
  BY <1>3, ExtendKeeps
<1>4. CASE Advance
  BY <1>4, AdvanceKeeps
<1>5. CASE Refuse \/ LimitStack \/ LimitOldStack
  BY <1>5, OthersKeep
<1>6. CASE Return
  BY <1>6, ReturnKeeps
<1>7. CASE Enter \/ Leave \/ Exception \/ EndException
  BY <1>7 DEF Enter, Leave, Exception, EndException, HeapInv, Alone, Below,
              BlocksApart
<1>8. CASE UNCHANGED heapVars
  BY <1>8 DEF heapVars, HeapInv, Alone, Below, BlocksApart
<1> QED
  BY <1>1, <1>2, <1>3, <1>4, <1>5, <1>6, <1>7, <1>8 DEF HeapNext

(* No two blocks share a byte, whoever interrupts whose call of sbrk().    *)
THEOREM BlocksNeverOverlap == HeapSpec => []BlocksApart
<1>1. HeapInv /\ [HeapNext]_heapVars => HeapInv'
  BY HeapStep
<1>2. HeapInv => BlocksApart
  BY DEF HeapInv
<1> QED
  BY <1>1, <1>2, HeapInit_Inv, PTL DEF HeapSpec
-----------------------------------------------------------------------------
(* The stack.                                                              *)

(* Programs ask for whole words: malloc() rounds its requests up.          *)
WholeWords == \A s \in Sizes : s % Word = 0

Border(n) == n \in 0 .. Limit /\ n % Word = 0

(* The heap and its blocks begin and end where words do.                   *)
HeapEnds ==
  /\ Border(heap_end)
  /\ \A b \in blocks : b.start % Word = 0 /\ b.size \in Sizes
  /\ calls # << >> =>
       /\ calls[1].incr \in Sizes
       /\ calls[1].pc = "advance" => heap_end + calls[1].incr <= Limit
       /\ calls[1].pc \in {"stack", "old_stack"} =>
            /\ StackCheck /\ calls[1].prev \in Nat
            /\ heap_end = calls[1].prev + calls[1].incr

(* The stack limit is the end of the heap, or where it was before the call *)
(* that has yet to compare the two; while an exception has a stack of its  *)
(* own, so is the limit it has put away.                                   *)
Behind ==
  /\ calls # << >>
  /\ calls[1].pc = "stack" \/ (calls[1].pc = "old_stack" /\ handling)
Mark == IF Behind THEN calls[1].prev ELSE heap_end

StackInv ==
  /\ Border(sp) /\ report \in {"none", "sbrk", "function"}
  /\ \/ /\ handling = TRUE /\ ExceptionStack
        /\ limit = None /\ old_limit \in 0 .. Limit
     \/ handling = FALSE /\ old_limit = None /\ limit \in 0 .. Limit
  /\ StackCheck /\ report = "none" =>
       /\ (IF handling THEN old_limit ELSE limit) = Mark
       /\ sp >= Mark
  /\ report = "sbrk" /\ handling = FALSE => sp <= heap_end

(* Whole words make whole words.                                           *)
LEMMA Multiple ==
  ASSUME NEW c \in Nat, NEW k \in Int, c = Word * k
  PROVE  c % Word = 0
<1>0. Word \in Nat \ {0}
  BY HeapAssumption
<1>1. /\ c = Word * (c \div Word) + (c % Word) /\ (c \div Word) \in Int
      /\ c % Word \in 0 .. (Word - 1)
  BY <1>0
<1> DEFINE d == k - (c \div Word)
<1>2. d \in Int /\ c % Word = Word * d
  BY <1>0, <1>1
<1> HIDE DEF d
<1>3. CASE d >= 1
  <2>1. Word * d >= Word
    BY <1>0, <1>2, <1>3
  <2> QED BY <1>0, <1>1, <1>2, <2>1
<1>4. CASE d <= -1
  <2>1. Word * d <= -1
    BY <1>0, <1>2, <1>4
  <2> QED BY <1>0, <1>1, <1>2, <2>1
<1>5. CASE d = 0
  BY <1>0, <1>2, <1>5
<1> QED BY <1>2, <1>3, <1>4, <1>5

LEMMA Times ==
  ASSUME NEW a \in Nat, a % Word = 0
  PROVE  a = Word * (a \div Word) /\ (a \div Word) \in Int
  BY HeapAssumption

LEMMA WordsAdd ==
  ASSUME NEW a \in Nat, NEW b \in Nat, a % Word = 0, b % Word = 0
  PROVE  (a + b) % Word = 0
<1>1. /\ a = Word * (a \div Word) /\ (a \div Word) \in Int
      /\ b = Word * (b \div Word) /\ (b \div Word) \in Int
  BY Times
<1>2. a + b = Word * ((a \div Word) + (b \div Word))
  BY <1>1, HeapAssumption
<1> QED BY <1>1, <1>2, Multiple

(* A word less, a word more: not beyond the end of the memory.             *)
LEMMA WordStep ==
  ASSUME NEW a \in Nat, a % Word = 0
  PROVE  /\ a >= Word => a - Word \in Nat /\ (a - Word) % Word = 0
         /\ (a + Word) % Word = 0
         /\ a < Limit => a + Word <= Limit
<1>0. Word \in Nat \ {0} /\ Limit \in Nat /\ Limit % Word = 0
  BY HeapAssumption
<1> DEFINE x == a \div Word
           y == Limit \div Word
<1>1. a = Word * x /\ x \in Int /\ Limit = Word * y /\ y \in Int
  BY <1>0, Times
<1> HIDE DEF x, y
<1>2. ASSUME a >= Word
      PROVE  a - Word \in Nat /\ (a - Word) % Word = 0
  <2>1. a - Word \in Nat /\ a - Word = Word * (x - 1)
    BY <1>0, <1>1, <1>2
  <2> QED BY <1>1, <2>1, Multiple
<1>3. (a + Word) % Word = 0
  <2>1. a + Word \in Nat /\ a + Word = Word * (x + 1)
    BY <1>0, <1>1
  <2> QED BY <1>1, <2>1, Multiple
<1>4. ASSUME a < Limit
      PROVE  a + Word <= Limit
  <2>1. x < y
    BY <1>0, <1>1, <1>4
  <2>2. Word * (y - x) >= Word
    BY <1>0, <1>1, <2>1
  <2> QED BY <1>0, <1>1, <2>2
<1> QED BY <1>2, <1>3, <1>4

LEMMA AlignedWhole ==
  ASSUME NEW a \in Nat, a % Word = 0
  PROVE  Aligned(a) = a
<1>1. Word \in Nat \ {0} /\ Word % Word = 0
  BY HeapAssumption
<1> QED BY <1>1 DEF Aligned

LEMMA CallMoves ==
  ASSUME Alone, calls # << >>, NEW label, Goto(label)
  PROVE  /\ calls' # << >> /\ calls'[1].pc = label
         /\ calls'[1].incr = calls[1].incr /\ calls'[1].prev = calls[1].prev
<1>1. calls[1] \in Frame /\ calls = <<calls[1]>>
  BY OneCall
<1>2. calls' = <<[calls[1] EXCEPT !.pc = label]>>
  BY <1>1 DEF Goto
<1>3. /\ [calls[1] EXCEPT !.pc = label].pc = label
      /\ [calls[1] EXCEPT !.pc = label].incr = calls[1].incr
      /\ [calls[1] EXCEPT !.pc = label].prev = calls[1].prev
  BY <1>1 DEF Frame
<1> QED BY <1>2, <1>3

AllInv == HeapInv /\ HeapEnds /\ StackInv

LEMMA StackInit == HeapInit => AllInv
<1> SUFFICES ASSUME HeapInit PROVE AllInv
  OBVIOUS
<1>0. Word \in Nat \ {0} /\ Limit \in Nat /\ 0 % Word = 0
  BY HeapAssumption
<1>1. HeapEnds
  BY <1>0 DEF HeapInit, HeapEnds, Border
<1>2. StackInv
  BY <1>0, HeapAssumption DEF HeapInit, StackInv, Mark, Behind, Border
<1> QED BY <1>1, <1>2, HeapInit_Inv DEF AllInv

LEMMA SbrkStack ==
  ASSUME AllInv, NEW incr \in Sizes, sbrk(incr)
  PROVE  HeapEnds' /\ StackInv'
<1>1. calls = << >>
  BY OneCall DEF AllInv, HeapInv, sbrk
<1>2. calls' = <<[pc |-> "round", incr |-> incr, prev |-> 0]>>
  BY <1>1 DEF sbrk
<1>3. calls'[1].pc = "round" /\ calls'[1].incr = incr
  BY <1>2
<1>4. UNCHANGED <<heap_end, blocks, stack, report>>
  BY DEF sbrk
<1>5. HeapEnds'
  BY <1>3, <1>4 DEF AllInv, HeapEnds, Border
<1>6. ~Behind /\ ~Behind'
  BY <1>1, <1>3 DEF Behind
<1>7. StackInv'
  BY <1>4, <1>6 DEF AllInv, StackInv, Mark, stack
<1> QED BY <1>5, <1>7

LEMMA RoundStack ==
  ASSUME AllInv, Round
  PROVE  HeapEnds' /\ StackInv'
<1>0. Alone /\ HeapEnds /\ StackInv
  BY DEF AllInv, HeapInv
<1>1. calls # << >> /\ calls[1].pc = "round" /\ Goto("extend")
  BY DEF Round, At, Running
<1>2. /\ calls'[1].pc = "extend" /\ calls'[1].incr = calls[1].incr
      /\ calls' # << >>
  BY <1>0, <1>1, CallMoves
<1>3. heap_end' = heap_end
  BY <1>0, AlignedWhole DEF Round, HeapEnds, Border
<1>4. UNCHANGED <<blocks, stack, report>>
  BY DEF Round
<1>5. HeapEnds'
  BY <1>0, <1>1, <1>2, <1>3, <1>4 DEF HeapEnds, Border
<1>6. ~Behind /\ ~Behind'
  BY <1>1, <1>2 DEF Behind
<1>7. StackInv'
  BY <1>0, <1>3, <1>4, <1>6 DEF StackInv, Mark, stack
<1> QED BY <1>5, <1>7

LEMMA RefuseStack ==
  ASSUME AllInv, Refuse
  PROVE  HeapEnds' /\ StackInv'
<1>0. Alone /\ HeapEnds /\ StackInv
  BY DEF AllInv, HeapInv
<1>1. calls # << >> /\ calls[1].pc = "extend" /\ Goto("return")
  BY DEF Refuse, At, Running
<1>2. /\ calls'[1].pc = "return" /\ calls'[1].incr = calls[1].incr
      /\ calls' # << >>
  BY <1>0, <1>1, CallMoves
<1>4. UNCHANGED <<heap_end, blocks, stack, report>>
  BY DEF Refuse
<1>5. HeapEnds'
  BY <1>0, <1>1, <1>2, <1>4 DEF HeapEnds, Border
<1>6. ~Behind /\ ~Behind'
  BY <1>1, <1>2 DEF Behind
<1>7. StackInv'
  BY <1>0, <1>4, <1>6 DEF StackInv, Mark, stack
<1> QED BY <1>5, <1>7

LEMMA ExtendStack ==
  ASSUME AllInv, Extend
  PROVE  HeapEnds' /\ StackInv'
<1>0. Alone /\ HeapEnds /\ StackInv
  BY DEF AllInv, HeapInv
<1>1. /\ calls # << >> /\ calls[1].pc = "extend"
      /\ heap_end + calls[1].incr <= Limit
      /\ UNCHANGED <<heap_end, blocks, stack, report>>
  BY DEF Extend, At, Running
<1>2. /\ calls'[1].pc = "advance" /\ calls'[1].incr = calls[1].incr
      /\ calls' # << >>
  <2>1. calls[1] \in Frame /\ calls = <<calls[1]>>
    BY <1>0, <1>1, OneCall
  <2>2. calls' = <<[calls[1] EXCEPT !.pc = "advance", !.prev = heap_end]>>
    <3>1. 1 \in DOMAIN calls
      BY <2>1
    <3> QED BY <2>1, <3>1 DEF Extend
  <2>3. /\ [calls[1] EXCEPT !.pc = "advance", !.prev = heap_end].pc = "advance"
        /\ [calls[1] EXCEPT !.pc = "advance", !.prev = heap_end].incr
             = calls[1].incr
    BY <2>1 DEF Frame
  <2> QED BY <2>2, <2>3
<1>5. HeapEnds'
  BY <1>0, <1>1, <1>2 DEF HeapEnds, Border
<1>6. ~Behind /\ ~Behind'
  BY <1>1, <1>2 DEF Behind
<1>7. StackInv'
  BY <1>0, <1>1, <1>6 DEF StackInv, Mark, stack
<1> QED BY <1>5, <1>7

LEMMA AdvanceStack ==
  ASSUME WholeWords, AllInv, Advance
  PROVE  HeapEnds' /\ StackInv'
<1>0. Alone /\ HeapEnds /\ StackInv
  BY DEF AllInv, HeapInv
<1>1. /\ calls # << >> /\ calls[1].pc = "advance" /\ report = "none"
      /\ UNCHANGED <<stack, report>>
      /\ heap_end' = calls[1].prev + calls[1].incr
      /\ blocks' = blocks \cup {[start |-> calls[1].prev, size |-> calls[1].incr]}
  BY DEF Advance, At, Running
<1>2. calls[1].prev = heap_end /\ calls[1].incr \in Sizes
      /\ heap_end \in Nat /\ heap_end % Word = 0 /\ Limit \in Nat
      /\ heap_end + calls[1].incr <= Limit
  BY <1>0, <1>1, OneCall, HeapAssumption DEF HeapEnds, Border
<1>3. calls[1].incr \in Nat /\ calls[1].incr % Word = 0
  BY <1>2, HeapAssumption DEF WholeWords
<1>4. Border(heap_end')
  <2>1. (heap_end + calls[1].incr) % Word = 0
    BY <1>2, <1>3, WordsAdd
  <2>2. heap_end + calls[1].incr \in 0 .. Limit
    BY <1>2, <1>3
  <2> QED BY <1>1, <1>2, <2>1, <2>2 DEF Border
<1>5. /\ calls' # << >> /\ calls'[1].incr = calls[1].incr
      /\ calls'[1].prev = calls[1].prev
      /\ calls'[1].pc = IF StackCheck THEN "stack" ELSE "return"
  BY <1>0, <1>1, CallMoves DEF Advance
<1>6. HeapEnds'
  <2>1. \A b \in blocks' : b.start % Word = 0 /\ b.size \in Sizes
    BY <1>0, <1>1, <1>2 DEF HeapEnds
  <2> QED BY <1>1, <1>2, <1>3, <1>4, <1>5, <2>1, HeapAssumption DEF HeapEnds
<1>7. StackCheck => Mark' = heap_end /\ Mark = heap_end
  BY <1>1, <1>2, <1>5 DEF Mark, Behind
<1>8. StackInv'
  BY <1>0, <1>1, <1>7 DEF StackInv, stack
<1> QED BY <1>6, <1>8

LEMMA LimitStackStack ==
  ASSUME AllInv, LimitStack
  PROVE  HeapEnds' /\ StackInv'
<1>0. Alone /\ HeapEnds /\ StackInv /\ None \notin Nat /\ Limit \in Nat
  BY HeapAssumption DEF AllInv, HeapInv
<1>1. /\ calls # << >> /\ calls[1].pc = "stack" /\ report = "none"
      /\ Goto("old_stack")
      /\ UNCHANGED <<heap_end, blocks, sp, old_limit, handling>>
  BY DEF LimitStack, At, Running
<1>2. /\ calls' # << >> /\ calls'[1].incr = calls[1].incr
      /\ calls'[1].prev = calls[1].prev /\ calls'[1].pc = "old_stack"
  BY <1>0, <1>1, CallMoves
<1>3. /\ StackCheck /\ calls[1].prev \in Nat /\ heap_end \in 0 .. Limit
      /\ Mark = calls[1].prev
  BY <1>0, <1>1 DEF HeapEnds, Border, Mark, Behind
<1>4. HeapEnds'
  BY <1>0, <1>1, <1>2 DEF HeapEnds, Border
<1>5. CASE handling
  <2>1. limit # calls[1].prev
    BY <1>0, <1>3, <1>5 DEF StackInv
  <2>2. UNCHANGED <<report, limit>>
    BY <2>1 DEF LimitStack
  <2>3. Mark' = Mark
    BY <1>1, <1>2, <1>3, <1>5 DEF Mark, Behind
  <2> QED BY <1>0, <1>1, <1>4, <2>2, <2>3 DEF StackInv
<1>6. CASE ~handling
  <2>1. limit = calls[1].prev /\ handling = FALSE
    BY <1>0, <1>1, <1>3, <1>6 DEF StackInv
  <2>2. /\ limit' = heap_end
        /\ report' = IF sp <= heap_end THEN "sbrk" ELSE report
    BY <2>1 DEF LimitStack
  <2>3. Mark' = heap_end
    BY <1>1, <1>2, <1>6 DEF Mark, Behind
  <2>4. sp \in 0 .. Limit
    BY <1>0 DEF StackInv, Border
  <2>5. limit' \in 0 .. Limit
    BY <1>3, <2>2
  <2>6. report' \in {"none", "sbrk", "function"}
    BY <1>1, <2>2
  <2>7. StackCheck /\ report' = "none" => sp >= Mark'
    <3> SUFFICES ASSUME report' = "none" PROVE sp >= heap_end
      BY <2>3
    <3>1. ~(sp <= heap_end)
      BY <2>2
    <3> QED BY <1>3, <2>4, <3>1
  <2>8. report' = "sbrk" => sp <= heap_end
    BY <1>1, <2>2
  <2>9. old_limit = None
    BY <1>0, <2>1 DEF StackInv
  <2> QED
    BY <1>0, <1>1, <1>4, <2>1, <2>2, <2>3, <2>4, <2>5, <2>6, <2>7, <2>8, <2>9
    DEF StackInv, Border
<1> QED BY <1>4, <1>5, <1>6

(* With a stack of its own, an exception that extends the heap meets the   *)
(* limit it has put away: the call reports.                                *)
LEMMA LimitOldStackStack ==
  ASSUME AllInv, LimitOldStack
  PROVE  HeapEnds' /\ StackInv'
<1>0. Alone /\ HeapEnds /\ StackInv /\ None \notin Nat /\ Limit \in Nat
  BY HeapAssumption DEF AllInv, HeapInv
<1>1. /\ calls # << >> /\ calls[1].pc = "old_stack" /\ report = "none"
      /\ Goto("return")
      /\ UNCHANGED <<heap_end, blocks, sp, limit, handling>>
  BY DEF LimitOldStack, At, Running
<1>2. /\ calls' # << >> /\ calls'[1].incr = calls[1].incr
      /\ calls'[1].prev = calls[1].prev /\ calls'[1].pc = "return"
  BY <1>0, <1>1, CallMoves
<1>3. /\ calls[1].prev \in Nat /\ calls[1].incr \in Nat /\ StackCheck
      /\ heap_end = calls[1].prev + calls[1].incr /\ heap_end \in 0 .. Limit
  BY <1>0, <1>1, HeapAssumption DEF HeapEnds, Border
<1>4. HeapEnds'
  BY <1>0, <1>1, <1>2 DEF HeapEnds, Border
<1>5. CASE handling
  <2>1. Mark = calls[1].prev
    BY <1>1, <1>5 DEF Mark, Behind
  <2>2. /\ ExceptionStack /\ old_limit = calls[1].prev /\ handling = TRUE
        /\ limit = None
    BY <1>0, <1>1, <1>3, <1>5, <2>1 DEF StackInv
  <2>3. old_limit <= heap_end
    BY <1>3, <2>2
  <2>4. old_limit' = heap_end /\ report' = "sbrk"
    BY <2>2, <2>3 DEF LimitOldStack
  <2> QED BY <1>0, <1>1, <1>3, <1>4, <2>2, <2>4 DEF StackInv, Border
<1>6. CASE ~handling
  <2>1. /\ old_limit = None /\ handling = FALSE /\ Mark = heap_end
    BY <1>0, <1>1, <1>6 DEF StackInv, Mark, Behind
  <2>2. UNCHANGED <<report, old_limit>>
    BY <1>0, <1>3, <2>1 DEF LimitOldStack
  <2>3. Mark' = heap_end
    BY <1>1, <1>2 DEF Mark, Behind
  <2> QED BY <1>0, <1>1, <1>4, <2>1, <2>2, <2>3 DEF StackInv
<1> QED BY <1>5, <1>6

LEMMA ReturnStack ==
  ASSUME AllInv, Return
  PROVE  HeapEnds' /\ StackInv'
<1>0. Alone /\ HeapEnds /\ StackInv
  BY DEF AllInv, HeapInv
<1>1. /\ calls # << >> /\ calls[1].pc = "return"
      /\ UNCHANGED <<heap_end, blocks, stack, report>>
  BY DEF Return, At, Running
<1>2. calls' = << >>
  <2>1. calls = <<calls[1]>> /\ calls' = Tail(calls)
    BY <1>0, <1>1, OneCall DEF Return
  <2> QED BY <2>1
<1>3. HeapEnds'
  BY <1>0, <1>1, <1>2 DEF HeapEnds, Border
<1>4. ~Behind /\ ~Behind'
  BY <1>1, <1>2 DEF Behind
<1> QED BY <1>0, <1>1, <1>3, <1>4 DEF StackInv, Mark, stack

(* The program's functions and its exceptions leave the heap alone.        *)
LEMMA ProgramStack ==
  ASSUME AllInv, Enter \/ Leave \/ Exception \/ EndException
  PROVE  HeapEnds' /\ StackInv'
<1>0. /\ HeapEnds /\ StackInv /\ None \notin Nat /\ Limit \in Nat
      /\ Word \in Nat \ {0} /\ heap_end \in 0 .. Limit /\ Border(sp)
      /\ sp \in 0 .. Limit
  BY HeapAssumption DEF AllInv, HeapEnds, Border, StackInv
<1>1. calls = << >> /\ report = "none" /\ UNCHANGED <<heap_end, blocks, calls>>
  BY DEF Enter, Leave, Exception, EndException
<1>2. HeapEnds'
  BY <1>0, <1>1 DEF HeapEnds, Border
<1>3. Mark = heap_end /\ Mark' = heap_end
  BY <1>1 DEF Mark, Behind
<1>4. CASE Enter
  <2>1. /\ handling = FALSE /\ limit \in 0 .. Limit /\ old_limit = None
        /\ UNCHANGED <<handling, limit, old_limit>>
    BY <1>0, <1>4 DEF Enter, StackInv
  <2>2. CASE StackCheck /\ sp - Word < limit
    <3>1. report' = "function" /\ sp' = sp
      BY <1>4, <2>2 DEF Enter
    <3> QED BY <1>0, <1>2, <2>1, <3>1 DEF StackInv
  <2>3. CASE ~(StackCheck /\ sp - Word < limit)
    <3>1. sp' = sp - Word /\ sp >= Word /\ report' = "none"
      BY <1>1, <1>4, <2>3 DEF Enter
    <3>2. Border(sp')
      <4>1. sp \in Nat /\ sp % Word = 0
        BY <1>0 DEF Border
      <4>2. sp - Word \in Nat /\ (sp - Word) % Word = 0
        BY <3>1, <4>1, WordStep
      <4> QED BY <1>0, <3>1, <4>2 DEF Border
    <3>3. StackCheck => limit = Mark /\ sp' >= limit
      BY <1>0, <1>1, <2>1, <2>3, <3>1 DEF StackInv
    <3> QED BY <1>2, <1>3, <2>1, <3>1, <3>2, <3>3 DEF StackInv
  <2> QED BY <2>2, <2>3
<1>5. CASE Leave
  <2>1. /\ sp' = sp + Word /\ sp < Limit
        /\ UNCHANGED <<handling, limit, old_limit, report>>
    BY <1>5 DEF Leave
  <2>2. Border(sp') /\ sp' >= sp
    <3>1. sp \in Nat /\ sp % Word = 0
      BY <1>0 DEF Border
    <3>2. (sp + Word) % Word = 0 /\ sp + Word <= Limit
      BY <2>1, <3>1, WordStep
    <3> QED BY <1>0, <2>1, <3>1, <3>2 DEF Border
  <2> QED BY <1>0, <1>1, <1>2, <1>3, <2>1, <2>2 DEF StackInv, Border
<1>6. CASE Exception
  <2>1. /\ ExceptionStack /\ handling = FALSE /\ limit \in 0 .. Limit
        /\ handling' = TRUE /\ old_limit' = limit /\ limit' = None
        /\ UNCHANGED <<sp, report>>
    BY <1>0, <1>6 DEF Exception, StackInv
  <2> QED BY <1>0, <1>1, <1>2, <1>3, <2>1 DEF StackInv
<1>7. CASE EndException
  <2>1. /\ handling = TRUE /\ old_limit \in 0 .. Limit
        /\ handling' = FALSE /\ limit' = old_limit /\ old_limit' = None
        /\ UNCHANGED <<sp, report>>
    BY <1>0, <1>7 DEF EndException, StackInv
  <2> QED BY <1>0, <1>1, <1>2, <1>3, <2>1 DEF StackInv
<1> QED BY <1>4, <1>5, <1>6, <1>7

(* The stack stays above the heap, and an overflow that sbrk() reports is  *)
(* one, for every length of the memory and every program.                  *)
THEOREM StackAlwaysRight == WholeWords => (HeapSpec => []StackRight)
<1> SUFFICES ASSUME WholeWords
             PROVE  HeapSpec => []StackRight
  OBVIOUS
<1>1. AllInv /\ [HeapNext]_heapVars => AllInv'
  <2> SUFFICES ASSUME AllInv, [HeapNext]_heapVars
               PROVE  AllInv'
    OBVIOUS
  <2>1. HeapInv'
    BY HeapStep DEF AllInv
  <2>2. HeapEnds' /\ StackInv'
    <3>1. ASSUME NEW incr \in Sizes, sbrk(incr)
          PROVE  HeapEnds' /\ StackInv'
      BY <3>1, SbrkStack
    <3>2. CASE Round \/ Refuse \/ Extend
      BY <3>2, RoundStack, RefuseStack, ExtendStack
    <3>3. CASE Advance
      BY <3>3, AdvanceStack
    <3>4. CASE LimitStack \/ LimitOldStack
      BY <3>4, LimitStackStack, LimitOldStackStack
    <3>5. CASE Return
      BY <3>5, ReturnStack
    <3>6. CASE Enter \/ Leave \/ Exception \/ EndException
      BY <3>6, ProgramStack
    <3>7. CASE UNCHANGED heapVars
      BY <3>7 DEF heapVars, stack, AllInv, HeapEnds, Border, StackInv, Mark,
                  Behind
    <3> QED BY <3>1, <3>2, <3>3, <3>4, <3>5, <3>6, <3>7 DEF HeapNext
  <2> QED BY <2>1, <2>2 DEF AllInv
<1>2. AllInv => StackRight
  <2> SUFFICES ASSUME AllInv PROVE StackRight
    OBVIOUS
  <2>1. HeapEnds /\ StackInv /\ None \notin Nat
    BY HeapAssumption DEF AllInv
  <2>2. HeapTypeOK
    BY <2>1 DEF HeapEnds, Border, StackInv, HeapTypeOK
  <2>3. StackApart
    BY <2>1 DEF StackApart, StackInv, Mark, Behind
  <2>4. handling \/ OverflowIsReal
    BY <2>1 DEF OverflowIsReal, StackInv
  <2> QED BY <2>2, <2>3, <2>4 DEF StackRight
<1> QED
  BY <1>1, <1>2, StackInit, PTL DEF HeapSpec

-----------------------------------------------------------------------------
(* Interrupts.                                                             *)

(* What the variables of Interrupts hold.                                  *)
Pcs == {"idle", "init", "enableCpu", "outer", "handler", "context", "inner",
        "load", "store", "mask", "innerEnd", "outerEnd"}
Isrs == Handlers \cup {Null}
Excs == {"none", "test", "unknown", "pending", "search", "call", "serve"}
CallType == [pc : Pcs, register : BOOLEAN, id : Irqs, isr : Isrs, on : BOOLEAN,
             outer : BOOLEAN, inner : BOOLEAN, active : SUBSET Irqs]

IrqTypes ==
  /\ PIE \in BOOLEAN /\ section \in BOOLEAN /\ saved \in BOOLEAN
  /\ IENABLE \in SUBSET Irqs /\ lines \in SUBSET Irqs
  /\ alt_irq_active \in SUBSET Irqs /\ registered \in SUBSET Irqs
  /\ pending \in SUBSET Irqs /\ served \in Irqs /\ exc \in Excs
  /\ handler \in [Irqs -> Isrs] /\ context \in [Irqs -> Isrs]
  /\ call \in CallType /\ inits \in {1, 2}

(* Where a call is in the part that keeps the mask register and its copy   *)
(* together, or changes the table; and when the program relies on          *)
(* interrupts being disabled.                                              *)
InMask == call.pc \in {"load", "store", "mask", "innerEnd"}
InTable == call.pc \in {"handler", "context"}
             \/ (call.register /\ call.pc \in {"inner", "outerEnd"})
Quiet == InMask \/ InTable \/ section
Starting == call.pc \in {"init", "enableCpu"}

(* Interrupts are disabled while somebody relies on it, and then no        *)
(* exception is under way; a call that found them disabled leaves them so; *)
(* and nothing is enabled before alt_irq_init() has returned.              *)
QuietInv ==
  /\ exc # "none" \/ Quiet => ~PIE
  /\ Quiet => exc = "none"
  /\ InMask /\ (call.register \/ section) => ~call.inner
  /\ section => /\ ~Starting
                /\ call.register /\ (InMask \/ InTable) => ~call.outer
  /\ Starting /\ inits = 1 =>
       /\ ~PIE /\ exc = "none" /\ alt_irq_active = {} /\ IENABLE = {}
  /\ call.pc \in {"handler", "context", "outer", "outerEnd"} => call.register

(* The copy of the mask register is what the calls have asked for, and the *)
(* register is the copy except between the two assignments.                *)
MaskInv ==
  /\ alt_irq_active = registered
  /\ call.pc # "mask" => IENABLE \subseteq alt_irq_active
  /\ call.pc = "store" => call.active = alt_irq_active
  /\ ~Starting /\ call.pc # "mask" /\ inits = 1 => IENABLE = alt_irq_active

(* alt_irq_register() has taken the handler of interrupt i out of the      *)
(* table and has not disabled the interrupt yet.                           *)
Taking(i) ==
  /\ call.register /\ call.isr = Null /\ call.id = i
  /\ call.pc \in {"context", "inner", "load", "store"}

(* Each interrupt that is enabled has a handler, which has its context.    *)
HandlerInv ==
  /\ \A i \in Irqs : i \in registered => handler[i] # Null \/ Taking(i)
  /\ call.register => call.on = (call.isr # Null)
  /\ call.on /\ call.pc \in {"inner", "load", "store"} => handler[call.id] # Null
  /\ call.pc # "context" => context = handler
  /\ call.pc = "context" =>
       /\ handler[call.id] = call.isr
       /\ \A i \in Irqs \ {call.id} : context[i] = handler[i]

(* The dispatcher searches and calls for interrupts that are enabled.      *)
ServeInv ==
  /\ exc = "search" => pending \subseteq registered
  /\ exc = "call" => served \in registered

IrqInv == IrqTypes /\ QuietInv /\ MaskInv /\ HandlerInv /\ ServeInv

(* A set of numbers has a least one.                                       *)
LEMMA Least ==
  ASSUME NEW S \in SUBSET Nat, S # {}
  PROVE  Min(S) \in S /\ \A y \in S : Min(S) <= y
<1> DEFINE R == {ss \in Nat \X Nat : ss[1] < ss[2]}
<1>1. IsWellFoundedOn(R, Nat)
  BY NatLessThanWellFounded, Zenon DEF OpToRel
<1> HIDE DEF R
<1>2. PICK x \in S : \A y \in S : ~ (<<y, x>> \in R)
  BY <1>1, WFMin, Zenon
<1>3. \A y \in S : x <= y
  <2> SUFFICES ASSUME NEW y \in S, y < x PROVE FALSE
    OBVIOUS
  <2>1. <<y, x>> \in R
    BY DEF R
  <2> QED BY <1>2, <2>1
<1> QED BY <1>3, Zenon DEF Min

(* The number of the interrupts that NoCall holds is one of them.          *)
LEMMA LowestIrq == Lowest \in Irqs
  BY Least, IrqAssumption DEF Lowest

LEMMA NoCallType ==
  /\ NoCall \in CallType /\ NoCall.pc = "idle" /\ ~NoCall.register
  /\ ~NoCall.on
  BY LowestIrq DEF NoCall, CallType, Pcs, Isrs

(* A call moves on, nothing else in it changes.                            *)
LEMMA PcMoves ==
  ASSUME call \in CallType, NEW label \in Pcs, CallTo(label)
  PROVE  /\ call' \in CallType /\ call'.pc = label
         /\ call'.register = call.register /\ call'.id = call.id
         /\ call'.isr = call.isr /\ call'.on = call.on
         /\ call'.outer = call.outer /\ call'.inner = call.inner
         /\ call'.active = call.active
  BY DEF CallType, CallTo

(* The groups of variables that an action of Interrupts leaves alone.      *)
USE DEF masks, table, program, exception, devices

LEMMA InitIrqInv == IrqInit => IrqInv
<1> SUFFICES ASSUME IrqInit PROVE IrqInv
  OBVIOUS
<1>1. call \in CallType /\ call.pc = "init" /\ ~call.register /\ ~call.on
  BY NoCallType DEF IrqInit, CallType, Pcs
<1>2. IrqTypes
  BY <1>1, LowestIrq DEF IrqInit, IrqTypes, Isrs, Excs
<1>3. QuietInv /\ MaskInv /\ HandlerInv /\ ServeInv
  BY <1>1 DEF IrqInit, QuietInv, MaskInv, HandlerInv, ServeInv, Quiet, InMask,
              InTable, Starting
<1> QED BY <1>2, <1>3 DEF IrqInv

(* One lemma for each action of Interrupts: it keeps the invariant.        *)
LEMMA ClearMask_Keeps ==
  ASSUME IrqInv, ClearMask
  PROVE  IrqInv'
<1>0. IrqTypes /\ QuietInv /\ MaskInv /\ HandlerInv /\ ServeInv
  BY DEF IrqInv
<1>1. /\ call.pc = "init" /\ call'.pc = "enableCpu" /\ call' \in CallType
      /\ call'.register = call.register /\ call'.id = call.id
      /\ call'.isr = call.isr /\ call'.on = call.on
      /\ call'.outer = call.outer /\ call'.inner = call.inner
      /\ call'.active = call.active
  BY <1>0, PcMoves DEF ClearMask, CallAt, IrqTypes, Pcs
<1>2. IrqTypes'
  BY <1>0, <1>1 DEF ClearMask, IrqTypes, Excs, CallAt, IPENDING, Update
<1>3. QuietInv'
  BY <1>0, <1>1 DEF ClearMask, QuietInv, Quiet, InMask, InTable, Starting
<1>4. MaskInv'
  BY <1>0, <1>1 DEF ClearMask, MaskInv, Starting
<1>5. HandlerInv'
  BY <1>0, <1>1 DEF ClearMask, HandlerInv, Taking
<1>6. ServeInv'
  BY <1>0, <1>1 DEF ClearMask, ServeInv
<1> QED BY <1>2, <1>3, <1>4, <1>5, <1>6 DEF IrqInv

LEMMA CallInit_Keeps ==
  ASSUME IrqInv, CallInit
  PROVE  IrqInv'
<1>0. IrqTypes /\ QuietInv /\ MaskInv /\ HandlerInv /\ ServeInv
  BY DEF IrqInv
<1>1. /\ call.pc = "idle" /\ call'.pc = "init" /\ call' \in CallType
      /\ call'.register = call.register /\ call'.id = call.id
      /\ call'.isr = call.isr /\ call'.on = call.on
      /\ call'.outer = call.outer /\ call'.inner = call.inner
      /\ call'.active = call.active
  BY <1>0, PcMoves DEF CallInit, CallAt, IrqTypes, Pcs
<1>2. IrqTypes'
  BY <1>0, <1>1 DEF CallInit, IrqTypes
<1>3. QuietInv'
  BY <1>0, <1>1 DEF CallInit, QuietInv, Quiet, InMask, InTable
<1>4. MaskInv'
  BY <1>0, <1>1 DEF CallInit, MaskInv
<1>5. HandlerInv'
  BY <1>0, <1>1 DEF CallInit, HandlerInv, Taking
<1>6. ServeInv'
  BY <1>0, <1>1 DEF CallInit, ServeInv
<1> QED BY <1>2, <1>3, <1>4, <1>5, <1>6 DEF IrqInv

LEMMA StoreHandler_Keeps ==
  ASSUME IrqInv, StoreHandler
  PROVE  IrqInv'
<1>0. IrqTypes /\ QuietInv /\ MaskInv /\ HandlerInv /\ ServeInv
  BY DEF IrqInv
<1>1. /\ call.pc = "handler" /\ call'.pc = "context" /\ call' \in CallType
      /\ call'.register = call.register /\ call'.id = call.id
      /\ call'.isr = call.isr /\ call'.on = call.on
      /\ call'.outer = call.outer /\ call'.inner = call.inner
      /\ call'.active = call.active
  BY <1>0, PcMoves DEF StoreHandler, CallAt, IrqTypes, Pcs
<1>2. IrqTypes'
  <2>1. call.id \in Irqs /\ call.isr \in Isrs
    BY <1>0 DEF IrqTypes, CallType
  <2> QED BY <1>0, <1>1, <2>1 DEF StoreHandler, IrqTypes
<1>3. QuietInv'
  BY <1>0, <1>1 DEF StoreHandler, QuietInv, Quiet, InMask, InTable, Starting
<1>4. MaskInv'
  BY <1>0, <1>1 DEF StoreHandler, MaskInv, Starting
<1>5. HandlerInv'
  <2>1. /\ call.id \in Irqs /\ handler \in [Irqs -> Isrs] /\ call.register
        /\ handler' = [handler EXCEPT ![call.id] = call.isr]
        /\ UNCHANGED <<context, registered>> /\ context = handler
    BY <1>0, <1>1 DEF IrqTypes, CallType, StoreHandler, QuietInv, HandlerInv
  <2>2. /\ handler'[call.id] = call.isr
        /\ \A i \in Irqs \ {call.id} : handler'[i] = handler[i]
    BY <2>1
  <2>3. \A i \in Irqs : i \in registered => handler'[i] # Null \/ Taking(i)'
    BY <1>0, <1>1, <2>1, <2>2 DEF HandlerInv, Taking
  <2> QED BY <1>0, <1>1, <2>1, <2>2, <2>3 DEF HandlerInv
<1>6. ServeInv'
  BY <1>0, <1>1 DEF StoreHandler, ServeInv
<1> QED BY <1>2, <1>3, <1>4, <1>5, <1>6 DEF IrqInv

LEMMA StoreContext_Keeps ==
  ASSUME IrqInv, StoreContext
  PROVE  IrqInv'
<1>0. IrqTypes /\ QuietInv /\ MaskInv /\ HandlerInv /\ ServeInv
  BY DEF IrqInv
<1>1. /\ call.pc = "context" /\ call'.pc = "inner" /\ call' \in CallType
      /\ call'.register = call.register /\ call'.id = call.id
      /\ call'.isr = call.isr /\ call'.on = call.on
      /\ call'.outer = call.outer /\ call'.inner = call.inner
      /\ call'.active = call.active
  BY <1>0, PcMoves DEF StoreContext, CallAt, IrqTypes, Pcs
<1>2. IrqTypes'
  <2>1. call.id \in Irqs /\ call.isr \in Isrs
    BY <1>0 DEF IrqTypes, CallType
  <2> QED BY <1>0, <1>1, <2>1 DEF StoreContext, IrqTypes
<1>3. QuietInv'
  BY <1>0, <1>1 DEF StoreContext, QuietInv, Quiet, InMask, InTable, Starting
<1>4. MaskInv'
  BY <1>0, <1>1 DEF StoreContext, MaskInv, Starting
<1>5. HandlerInv'
  BY <1>0, <1>1 DEF StoreContext, HandlerInv, Taking, QuietInv, IrqTypes
<1>6. ServeInv'
  BY <1>0, <1>1 DEF StoreContext, ServeInv
<1> QED BY <1>2, <1>3, <1>4, <1>5, <1>6 DEF IrqInv

LEMMA StoreActive_Keeps ==
  ASSUME IrqInv, StoreActive
  PROVE  IrqInv'
<1>0. IrqTypes /\ QuietInv /\ MaskInv /\ HandlerInv /\ ServeInv
  BY DEF IrqInv
<1>1. /\ call.pc = "store" /\ call'.pc = "mask" /\ call' \in CallType
      /\ call'.register = call.register /\ call'.id = call.id
      /\ call'.isr = call.isr /\ call'.on = call.on
      /\ call'.outer = call.outer /\ call'.inner = call.inner
      /\ call'.active = call.active
  BY <1>0, PcMoves DEF StoreActive, CallAt, IrqTypes, Pcs
<1>2. IrqTypes'
  <2>1. call.id \in Irqs /\ call.active \in SUBSET Irqs
    BY <1>0 DEF IrqTypes, CallType
  <2> QED BY <1>0, <1>1, <2>1 DEF StoreActive, Update, IrqTypes
<1>3. QuietInv'
  BY <1>0, <1>1 DEF StoreActive, QuietInv, Quiet, InMask, Starting
<1>4. MaskInv'
  BY <1>0, <1>1 DEF StoreActive, MaskInv
<1>5. HandlerInv'
  BY <1>0, <1>1 DEF StoreActive, HandlerInv, Taking, Update
<1>6. ServeInv'
  BY <1>0, <1>1 DEF StoreActive, ServeInv, QuietInv, Quiet, InMask
<1> QED BY <1>2, <1>3, <1>4, <1>5, <1>6 DEF IrqInv

LEMMA WriteMask_Keeps ==
  ASSUME IrqInv, WriteMask
  PROVE  IrqInv'
<1>0. IrqTypes /\ QuietInv /\ MaskInv /\ HandlerInv /\ ServeInv
  BY DEF IrqInv
<1>1. /\ call.pc = "mask" /\ call'.pc = "innerEnd" /\ call' \in CallType
      /\ call'.register = call.register /\ call'.id = call.id
      /\ call'.isr = call.isr /\ call'.on = call.on
      /\ call'.outer = call.outer /\ call'.inner = call.inner
      /\ call'.active = call.active
  BY <1>0, PcMoves DEF WriteMask, CallAt, IrqTypes, Pcs
<1>2. IrqTypes'
  BY <1>0, <1>1 DEF WriteMask, IrqTypes
<1>3. QuietInv'
  BY <1>0, <1>1 DEF WriteMask, QuietInv, Quiet, InMask, Starting
<1>4. MaskInv'
  BY <1>0, <1>1 DEF WriteMask, MaskInv
<1>5. HandlerInv'
  BY <1>0, <1>1
  DEF WriteMask, HandlerInv, Taking, QuietInv, Quiet, InMask, InTable,
      IrqTypes, CallAt, IPENDING, Update
<1>6. ServeInv'
  BY <1>0, <1>1 DEF WriteMask, ServeInv
<1> QED BY <1>2, <1>3, <1>4, <1>5, <1>6 DEF IrqInv

LEMMA EnableCpu_Keeps ==
  ASSUME IrqInv, EnableCpu
  PROVE  IrqInv'
<1>0. IrqTypes /\ QuietInv /\ MaskInv /\ HandlerInv /\ ServeInv
  BY DEF IrqInv
<1>1. /\ call.pc = "enableCpu" /\ call' \in CallType /\ call'.pc = "idle"
      /\ ~call'.register /\ ~call'.on
  BY NoCallType DEF EnableCpu, CallAt
<1>2. IrqTypes'
  BY <1>0, <1>1 DEF EnableCpu, IrqTypes
<1>3. QuietInv'
  BY <1>0, <1>1
  DEF EnableCpu, QuietInv, Quiet, InMask, InTable, Starting, CallAt
<1>4. MaskInv'
  BY <1>0, <1>1 DEF EnableCpu, MaskInv, QuietInv
<1>5. HandlerInv'
  BY <1>0, <1>1 DEF EnableCpu, HandlerInv, Taking
<1>6. ServeInv'
  BY <1>0, <1>1 DEF EnableCpu, ServeInv
<1> QED BY <1>2, <1>3, <1>4, <1>5, <1>6 DEF IrqInv

LEMMA RegisterEnableAll_Keeps ==
  ASSUME IrqInv, RegisterEnableAll
  PROVE  IrqInv'
<1>0. IrqTypes /\ QuietInv /\ MaskInv /\ HandlerInv /\ ServeInv
  BY DEF IrqInv
<1>1. /\ call.pc = "outerEnd" /\ call' \in CallType /\ call'.pc = "idle"
      /\ ~call'.register /\ ~call'.on
  BY NoCallType DEF RegisterEnableAll, CallAt
<1>2. IrqTypes'
  <2>1. PIE' \in BOOLEAN
    BY <1>0 DEF RegisterEnableAll, IrqTypes, CallType
  <2> QED BY <1>0, <1>1, <2>1 DEF RegisterEnableAll, IrqTypes
<1>3. QuietInv'
  BY <1>0, <1>1
  DEF RegisterEnableAll, QuietInv, Quiet, InMask, InTable, Starting
<1>4. MaskInv'
  BY <1>0, <1>1 DEF RegisterEnableAll, MaskInv, Starting
<1>5. HandlerInv'
  BY <1>0, <1>1 DEF RegisterEnableAll, HandlerInv, Taking
<1>6. ServeInv'
  BY <1>0, <1>1 DEF RegisterEnableAll, ServeInv
<1> QED BY <1>2, <1>3, <1>4, <1>5, <1>6 DEF IrqInv

LEMMA RegisterDisableAll_Keeps ==
  ASSUME IrqInv, RegisterDisableAll
  PROVE  IrqInv'
<1>0. IrqTypes /\ QuietInv /\ MaskInv /\ HandlerInv /\ ServeInv
  BY DEF IrqInv
<1>1. /\ call.pc = "outer" /\ call'.pc = "handler" /\ call' \in CallType
      /\ call'.register = call.register /\ call'.id = call.id
      /\ call'.isr = call.isr /\ call'.on = call.on
      /\ call'.outer = PIE /\ call'.inner = call.inner
  BY <1>0 DEF RegisterDisableAll, CallAt, IrqTypes, CallType, Pcs
<1>2. IrqTypes'
  BY <1>0, <1>1 DEF RegisterDisableAll, IrqTypes
<1>3. QuietInv'
  BY <1>0, <1>1
  DEF RegisterDisableAll, QuietInv, Quiet, InMask, Starting, CallAt
<1>4. MaskInv'
  BY <1>0, <1>1 DEF RegisterDisableAll, MaskInv, Starting
<1>5. HandlerInv'
  BY <1>0, <1>1 DEF RegisterDisableAll, HandlerInv, Taking
<1>6. ServeInv'
  BY <1>0, <1>1 DEF RegisterDisableAll, ServeInv
<1> QED BY <1>2, <1>3, <1>4, <1>5, <1>6 DEF IrqInv

LEMMA MaskDisableAll_Keeps ==
  ASSUME IrqInv, MaskDisableAll
  PROVE  IrqInv'
<1>0. IrqTypes /\ QuietInv /\ MaskInv /\ HandlerInv /\ ServeInv
  BY DEF IrqInv
<1>1. /\ call.pc = "inner" /\ call'.pc = "load" /\ call' \in CallType
      /\ call'.register = call.register /\ call'.id = call.id
      /\ call'.isr = call.isr /\ call'.on = call.on
      /\ call'.outer = call.outer /\ call'.inner = PIE
  BY <1>0 DEF MaskDisableAll, CallAt, IrqTypes, CallType, Pcs
<1>2. IrqTypes'
  BY <1>0, <1>1 DEF MaskDisableAll, IrqTypes
<1>3. QuietInv'
  BY <1>0, <1>1 DEF MaskDisableAll, QuietInv, Quiet, InTable, Starting, CallAt
<1>4. MaskInv'
  BY <1>0, <1>1 DEF MaskDisableAll, MaskInv, Starting
<1>5. HandlerInv'
  BY <1>0, <1>1 DEF MaskDisableAll, HandlerInv, Taking
<1>6. ServeInv'
  BY <1>0, <1>1 DEF MaskDisableAll, ServeInv
<1> QED BY <1>2, <1>3, <1>4, <1>5, <1>6 DEF IrqInv

LEMMA LoadActive_Keeps ==
  ASSUME IrqInv, LoadActive
  PROVE  IrqInv'
<1>0. IrqTypes /\ QuietInv /\ MaskInv /\ HandlerInv /\ ServeInv
  BY DEF IrqInv
<1>1. /\ call.pc = "load" /\ call'.pc = "store" /\ call' \in CallType
      /\ call'.register = call.register /\ call'.id = call.id
      /\ call'.isr = call.isr /\ call'.on = call.on
      /\ call'.outer = call.outer /\ call'.inner = call.inner
      /\ call'.active = alt_irq_active
  BY <1>0 DEF LoadActive, CallAt, IrqTypes, CallType, Pcs
<1>2. IrqTypes'
  BY <1>0, <1>1 DEF LoadActive, IrqTypes
<1>3. QuietInv'
  BY <1>0, <1>1 DEF LoadActive, QuietInv, Quiet, InMask, Starting
<1>4. MaskInv'
  BY <1>0, <1>1 DEF LoadActive, MaskInv, Starting
<1>5. HandlerInv'
  BY <1>0, <1>1 DEF LoadActive, HandlerInv, Taking
<1>6. ServeInv'
  BY <1>0, <1>1 DEF LoadActive, ServeInv
<1> QED BY <1>2, <1>3, <1>4, <1>5, <1>6 DEF IrqInv

LEMMA MaskEnableAll_Keeps ==
  ASSUME IrqInv, MaskEnableAll
  PROVE  IrqInv'
<1>0. IrqTypes /\ QuietInv /\ MaskInv /\ HandlerInv /\ ServeInv
  BY DEF IrqInv
<1>1. /\ call.pc = "innerEnd" /\ call' \in CallType
      /\ \/ /\ call.register /\ call'.pc = "outerEnd" /\ call'.outer = call.outer
            /\ call'.isr = call.isr /\ call'.on = call.on /\ call'.register
         \/ ~call.register /\ call'.pc = "idle" /\ ~call'.register /\ ~call'.on
  BY <1>0, NoCallType DEF MaskEnableAll, CallAt, IrqTypes, CallType, Pcs
<1>2. IrqTypes'
  <2>1. PIE' \in BOOLEAN
    BY <1>0 DEF MaskEnableAll, IrqTypes, CallType
  <2> QED BY <1>0, <1>1, <2>1 DEF MaskEnableAll, IrqTypes
<1>3. QuietInv'
  BY <1>0, <1>1 DEF MaskEnableAll, QuietInv, Quiet, InMask, InTable, Starting
<1>4. MaskInv'
  BY <1>0, <1>1 DEF MaskEnableAll, MaskInv, Starting
<1>5. HandlerInv'
  BY <1>0, <1>1 DEF MaskEnableAll, HandlerInv, Taking
<1>6. ServeInv'
  BY <1>0, <1>1 DEF MaskEnableAll, ServeInv
<1> QED BY <1>2, <1>3, <1>4, <1>5, <1>6 DEF IrqInv

LEMMA Call_Keeps ==
  ASSUME IrqInv, Call
  PROVE  IrqInv'
<1>0. IrqTypes /\ QuietInv /\ MaskInv /\ HandlerInv /\ ServeInv
  BY DEF IrqInv
<1>1. /\ call.pc = "idle" /\ call' \in CallType
      /\ \/ /\ call'.pc = "outer" /\ call'.register
            /\ call'.on = (call'.isr # Null)
         \/ /\ call'.pc = "inner" /\ ~call'.register
            /\ call'.on => handler[call'.id] # Null
  BY LowestIrq DEF Call, CallAt, NoCall, CallType, Pcs, Isrs
<1>2. IrqTypes'
  BY <1>0, <1>1 DEF Call, IrqTypes
<1>3. QuietInv'
  BY <1>0, <1>1 DEF Call, QuietInv, Quiet, InMask, InTable, Starting
<1>4. MaskInv'
  BY <1>0, <1>1 DEF Call, MaskInv, Starting
<1>5. HandlerInv'
  BY <1>0, <1>1 DEF Call, HandlerInv, Taking
<1>6. ServeInv'
  BY <1>0, <1>1 DEF Call, ServeInv
<1> QED BY <1>2, <1>3, <1>4, <1>5, <1>6 DEF IrqInv

LEMMA EnterSection_Keeps ==
  ASSUME IrqInv, EnterSection
  PROVE  IrqInv'
<1>0. IrqTypes /\ QuietInv /\ MaskInv /\ HandlerInv /\ ServeInv
  BY DEF IrqInv
<1>1. UNCHANGED call
  BY DEF EnterSection
<1>2. IrqTypes'
  BY <1>0, <1>1 DEF EnterSection, IrqTypes
<1>3. QuietInv'
  BY <1>0, <1>1 DEF EnterSection, QuietInv, InMask, InTable, Starting, CallAt
<1>4. MaskInv'
  BY <1>0, <1>1 DEF EnterSection, MaskInv, Starting
<1>5. HandlerInv'
  BY <1>0, <1>1 DEF EnterSection, HandlerInv, Taking
<1>6. ServeInv'
  BY <1>0, <1>1 DEF EnterSection, ServeInv
<1> QED BY <1>2, <1>3, <1>4, <1>5, <1>6 DEF IrqInv

LEMMA LeaveSection_Keeps ==
  ASSUME IrqInv, LeaveSection
  PROVE  IrqInv'
<1>0. IrqTypes /\ QuietInv /\ MaskInv /\ HandlerInv /\ ServeInv
  BY DEF IrqInv
<1>1. UNCHANGED call
  BY DEF LeaveSection
<1>2. IrqTypes'
  BY <1>0, <1>1 DEF LeaveSection, IrqTypes
<1>3. QuietInv'
  BY <1>0, <1>1
  DEF LeaveSection, QuietInv, Quiet, InMask, InTable, Starting, CallAt
<1>4. MaskInv'
  BY <1>0, <1>1 DEF LeaveSection, MaskInv, Starting
<1>5. HandlerInv'
  BY <1>0, <1>1 DEF LeaveSection, HandlerInv, Taking
<1>6. ServeInv'
  BY <1>0, <1>1 DEF LeaveSection, ServeInv
<1> QED BY <1>2, <1>3, <1>4, <1>5, <1>6 DEF IrqInv

LEMMA Interrupt_Keeps ==
  ASSUME IrqInv, Interrupt
  PROVE  IrqInv'
<1>0. IrqTypes /\ QuietInv /\ MaskInv /\ HandlerInv /\ ServeInv
  BY DEF IrqInv
<1>1. UNCHANGED call
  BY DEF Interrupt
<1>2. IrqTypes'
  BY <1>0, <1>1 DEF Interrupt, IrqTypes, Excs
<1>3. QuietInv'
  BY <1>0, <1>1 DEF Interrupt, QuietInv, Quiet, InMask, InTable, Starting
<1>4. MaskInv'
  BY <1>0, <1>1 DEF Interrupt, MaskInv, Starting
<1>5. HandlerInv'
  BY <1>0, <1>1 DEF Interrupt, HandlerInv, Taking
<1>6. ServeInv'
  BY <1>0, <1>1 DEF Interrupt, ServeInv
<1> QED BY <1>2, <1>3, <1>4, <1>5, <1>6 DEF IrqInv

LEMMA TestIrq_Keeps ==
  ASSUME IrqInv, TestIrq
  PROVE  IrqInv'
<1>0. IrqTypes /\ QuietInv /\ MaskInv /\ HandlerInv /\ ServeInv
  BY DEF IrqInv
<1>1. UNCHANGED call
  BY DEF TestIrq
<1>2. IrqTypes'
  BY <1>0, <1>1 DEF TestIrq, IrqTypes, Excs
<1>3. QuietInv'
  BY <1>0, <1>1 DEF TestIrq, QuietInv, Quiet, InMask, InTable, Starting
<1>4. MaskInv'
  BY <1>0, <1>1 DEF TestIrq, MaskInv, Starting
<1>5. HandlerInv'
  BY <1>0, <1>1 DEF TestIrq, HandlerInv, Taking
<1>6. ServeInv'
  BY <1>0, <1>1 DEF TestIrq, ServeInv
<1> QED BY <1>2, <1>3, <1>4, <1>5, <1>6 DEF IrqInv

LEMMA FirstPending_Keeps ==
  ASSUME IrqInv, FirstPending
  PROVE  IrqInv'
<1>0. IrqTypes /\ QuietInv /\ MaskInv /\ HandlerInv /\ ServeInv
  BY DEF IrqInv
<1>1. UNCHANGED call
  BY DEF FirstPending
<1>2. IrqTypes'
  BY <1>0, <1>1 DEF FirstPending, IrqTypes, Excs, IPENDING
<1>3. QuietInv'
  BY <1>0, <1>1 DEF FirstPending, QuietInv, Quiet, InMask, InTable, Starting
<1>4. MaskInv'
  BY <1>0, <1>1 DEF FirstPending, MaskInv, Starting
<1>5. HandlerInv'
  BY <1>0, <1>1 DEF FirstPending, HandlerInv, Taking
<1>6. ServeInv'
  BY <1>0, <1>1
  DEF FirstPending, ServeInv, QuietInv, MaskInv, Quiet, InMask, IPENDING
<1> QED BY <1>2, <1>3, <1>4, <1>5, <1>6 DEF IrqInv

LEMMA Serve_Keeps ==
  ASSUME IrqInv, Serve
  PROVE  IrqInv'
<1>0. IrqTypes /\ QuietInv /\ MaskInv /\ HandlerInv /\ ServeInv
  BY DEF IrqInv
<1>1. UNCHANGED call /\ Lowest \in Irqs
  BY LowestIrq DEF Serve
<1>2. IrqTypes'
  BY <1>0, <1>1 DEF Serve, IrqTypes, Excs, IPENDING
<1>3. QuietInv'
  BY <1>0, <1>1 DEF Serve, QuietInv, Quiet, InMask, InTable, Starting
<1>4. MaskInv'
  BY <1>0, <1>1 DEF Serve, MaskInv, Starting
<1>5. HandlerInv'
  BY <1>0, <1>1 DEF Serve, HandlerInv, Taking
<1>6. ServeInv'
  BY <1>0, <1>1 DEF Serve, ServeInv, QuietInv, MaskInv, Quiet, InMask, IPENDING
<1> QED BY <1>2, <1>3, <1>4, <1>5, <1>6 DEF IrqInv

LEMMA Raise_Keeps ==
  ASSUME IrqInv, Raise
  PROVE  IrqInv'
<1>0. IrqTypes /\ QuietInv /\ MaskInv /\ HandlerInv /\ ServeInv
  BY DEF IrqInv
<1>1. UNCHANGED call
  BY DEF Raise
<1>2. IrqTypes'
  BY <1>0, <1>1 DEF Raise, IrqTypes
<1>3. QuietInv'
  BY <1>0, <1>1 DEF Raise, QuietInv, Quiet, InMask, InTable, Starting
<1>4. MaskInv'
  BY <1>0, <1>1 DEF Raise, MaskInv, Starting
<1>5. HandlerInv'
  BY <1>0, <1>1 DEF Raise, HandlerInv, Taking
<1>6. ServeInv'
  BY <1>0, <1>1 DEF Raise, ServeInv
<1> QED BY <1>2, <1>3, <1>4, <1>5, <1>6 DEF IrqInv

LEMMA Withdraw_Keeps ==
  ASSUME IrqInv, Withdraw
  PROVE  IrqInv'
<1>0. IrqTypes /\ QuietInv /\ MaskInv /\ HandlerInv /\ ServeInv
  BY DEF IrqInv
<1>1. UNCHANGED call
  BY DEF Withdraw
<1>2. IrqTypes'
  BY <1>0, <1>1 DEF Withdraw, IrqTypes
<1>3. QuietInv'
  BY <1>0, <1>1 DEF Withdraw, QuietInv, Quiet, InMask, InTable, Starting
<1>4. MaskInv'
  BY <1>0, <1>1 DEF Withdraw, MaskInv, Starting
<1>5. HandlerInv'
  BY <1>0, <1>1 DEF Withdraw, HandlerInv, Taking
<1>6. ServeInv'
  BY <1>0, <1>1 DEF Withdraw, ServeInv
<1> QED BY <1>2, <1>3, <1>4, <1>5, <1>6 DEF IrqInv

LEMMA Search_Keeps ==
  ASSUME IrqInv, Search
  PROVE  IrqInv'
<1>0. IrqTypes /\ QuietInv /\ MaskInv /\ HandlerInv /\ ServeInv
  BY DEF IrqInv
<1>1. UNCHANGED call /\ Min(pending) \in pending
  BY <1>0, Least, IrqAssumption DEF Search, IrqTypes
<1>2. IrqTypes'
  <2>1. served' \in Irqs /\ exc' \in Excs
    BY <1>0, <1>1 DEF Search, IrqTypes, Excs
  <2> QED BY <1>0, <1>1, <2>1 DEF Search, IrqTypes
<1>3. QuietInv'
  BY <1>0, <1>1 DEF Search, QuietInv, Quiet, InMask, InTable, Starting
<1>4. MaskInv'
  BY <1>0, <1>1 DEF Search, MaskInv, Starting
<1>5. HandlerInv'
  BY <1>0, <1>1 DEF Search, HandlerInv, Taking
<1>6. ServeInv'
  BY <1>0, <1>1 DEF Search, ServeInv
<1> QED BY <1>2, <1>3, <1>4, <1>5, <1>6 DEF IrqInv

(* The handler is called and may register, enable and disable interrupts,  *)
(* which no call can interfere with.                                       *)
LEMMA Handle_Keeps ==
  ASSUME IrqInv, Handle
  PROVE  IrqInv'
<1>0. IrqTypes /\ QuietInv /\ MaskInv /\ HandlerInv /\ ServeInv
  BY DEF IrqInv
<1>1. /\ UNCHANGED <<PIE, call, section, saved, inits, pending, served>>
      /\ exc = "call" /\ exc' = "serve" /\ lines' = lines \ {served}
  BY DEF Handle
<1>2. ~Quiet /\ ~PIE /\ context = handler
  BY <1>0, <1>1 DEF QuietInv, HandlerInv, Quiet, InTable
<1>3. ~Taking(call.id) /\ call.pc # "mask" /\ ~(Starting /\ inits = 1)
  BY <1>0, <1>1, <1>2 DEF Taking, Quiet, InMask, InTable, QuietInv, HandlerInv
<1>4. \A i \in Irqs : i \in registered => handler[i] # Null
  BY <1>0, <1>1, <1>2 DEF HandlerInv, Taking, Quiet, InMask, InTable
<1>5. /\ alt_irq_active' \in SUBSET Irqs /\ IENABLE' \in SUBSET Irqs
      /\ registered' = alt_irq_active' /\ IENABLE' \subseteq alt_irq_active'
      /\ IENABLE' = alt_irq_active' \/ UNCHANGED <<IENABLE, alt_irq_active>>
  BY <1>0, <1>3 DEF Handle, Update, IrqTypes, MaskInv
<1>6. /\ handler' \in [Irqs -> Isrs] /\ context' = handler'
      /\ \A i \in Irqs : handler[i] # Null => handler'[i] # Null
      /\ \A i \in Irqs : i \in registered' => handler'[i] # Null
  <2>1. CASE UNCHANGED <<masks, table>>
    BY <1>0, <1>2, <1>4, <2>1 DEF IrqTypes
  <2>2. ASSUME NEW i \in Irqs, NEW h \in Handlers,
               handler' = [handler EXCEPT ![i] = h],
               context' = [context EXCEPT ![i] = h],
               registered' = registered \cup {i}
        PROVE  <1>6!:
    BY <1>0, <1>2, <1>4, <2>2, IrqAssumption DEF IrqTypes, Isrs
  <2>3. ASSUME NEW i \in Irqs, NEW on \in BOOLEAN, on => handler[i] # Null,
               registered' = Update(registered, i, on), UNCHANGED table
        PROVE  <1>6!:
    BY <1>0, <1>2, <1>4, <2>3 DEF IrqTypes, Update
  <2> QED BY <2>1, <2>2, <2>3 DEF Handle
<1>7. IrqTypes'
  BY <1>0, <1>1, <1>5, <1>6 DEF IrqTypes, Excs
<1>8. QuietInv'
  BY <1>0, <1>1, <1>2, <1>3 DEF QuietInv, Quiet, InMask, InTable, Starting
<1>9. MaskInv'
  BY <1>0, <1>1, <1>2, <1>3, <1>5
  DEF MaskInv, Starting, Quiet, InMask
<1>10. HandlerInv'
  <2>1. call.pc # "context" /\ call.id \in Irqs
    BY <1>0, <1>2 DEF Quiet, InTable, IrqTypes, CallType
  <2> QED BY <1>0, <1>1, <1>6, <2>1 DEF HandlerInv
<1>11. ServeInv'
  BY <1>1 DEF ServeInv
<1> QED BY <1>7, <1>8, <1>9, <1>10, <1>11 DEF IrqInv

(* Every step keeps the invariant.                                         *)
LEMMA IrqStep ==
  ASSUME IrqInv, [IrqNext]_irqVars
  PROVE  IrqInv'
<1>1. CASE CallInit \/ EnterSection \/ LeaveSection \/ Call
  BY <1>1, CallInit_Keeps, EnterSection_Keeps, LeaveSection_Keeps, Call_Keeps
<1>2. CASE CallStep
  BY <1>2, ClearMask_Keeps, EnableCpu_Keeps, RegisterDisableAll_Keeps,
     StoreHandler_Keeps, StoreContext_Keeps, MaskDisableAll_Keeps,
     LoadActive_Keeps, StoreActive_Keeps, WriteMask_Keeps,
     MaskEnableAll_Keeps, RegisterEnableAll_Keeps DEF CallStep
<1>3. CASE Interrupt \/ Dispatch
  BY <1>3, Interrupt_Keeps, TestIrq_Keeps, FirstPending_Keeps, Search_Keeps,
     Serve_Keeps, Handle_Keeps DEF Dispatch
<1>4. CASE Raise \/ Withdraw
  BY <1>4, Raise_Keeps, Withdraw_Keeps
<1>5. CASE UNCHANGED irqVars
  <2>1. IrqTypes' /\ QuietInv' /\ MaskInv' /\ HandlerInv' /\ ServeInv'
    BY <1>5 DEF irqVars, IrqInv, IrqTypes, QuietInv, MaskInv, HandlerInv,
                ServeInv, Quiet, InMask, InTable, Starting, Taking
  <2> QED BY <2>1 DEF IrqInv
<1> QED BY <1>1, <1>2, <1>3, <1>4, <1>5 DEF IrqNext

(* Whoever registers, enables and disables interrupts, and when: a handler *)
(* that is called is there, has its own context and is enabled; the mask   *)
(* register follows its copy and the copy the calls; and nothing runs in a *)
(* section of the program that has interrupts disabled.                    *)
THEOREM MaskAndHandlersRight == IrqSpec => []MaskAndHandlers
<1>1. IrqInv /\ [IrqNext]_irqVars => IrqInv'
  BY IrqStep
<1>2. IrqInv => MaskAndHandlers
  <2> SUFFICES ASSUME IrqInv PROVE MaskAndHandlers
    OBVIOUS
  <2>0. IrqTypes /\ QuietInv /\ MaskInv /\ HandlerInv /\ ServeInv
    BY DEF IrqInv
  <2>1. IrqTypeOK
    BY <2>0 DEF IrqTypes, IrqTypeOK, CallType, Isrs, Excs
  <2>2. OwnContext /\ ServedEnabled
    BY <2>0 DEF IrqTypes, OwnContext, ServedEnabled, QuietInv, Quiet, InMask,
                InTable, HandlerInv, ServeInv, Taking
  <2>3. MaskRight /\ SectionQuiet
    BY <2>0 DEF MaskRight, SectionQuiet, MaskInv, QuietInv, Quiet, Starting
  <2> QED BY <2>1, <2>2, <2>3 DEF MaskAndHandlers
<1> QED BY <1>1, <1>2, InitIrqInv, PTL DEF IrqSpec
-----------------------------------------------------------------------------
(* Startup.                                                                *)

Before == {"alt_irq_init", "enable", "timer", "jtag", "redirect"}
Labels == Before \cup {"ctors", "main", "close", "exit", "function", "dtors",
                       "flush", "_exit", "spin"}
Over == {"_exit", "spin"}

(* The objects constructed, or destructed, when the loop is down to k.     *)
Downto(k) == [j \in 1 .. Constructors - k |-> Constructors + 1 - j]

(* What exit() calls in any case.                                          *)
Dtors == IF Constructors > 0 THEN <<"_do_dtors">> ELSE << >>

StartTypeOK ==
  /\ build \in [small : BOOLEAN, constructors : Nat]
  /\ pc \in Labels /\ next \in 0 .. Constructors
  /\ ended \in {"no", "exit", "abruptly"}

(* Only what has a handler is enabled, and before the mask is cleared the  *)
(* processor takes no interrupts.                                          *)
HandledInv ==
  /\ ~stray
  /\ pc = "alt_irq_init" => ~allowed
  /\ pc # "alt_irq_init" => ienable \subseteq handlers

ConstructedInv ==
  /\ pc \in Before => next = 0 /\ constructed = << >>
  /\ pc = "ctors" => constructed = Downto(next)
  /\ pc \notin Before \cup {"ctors"} => constructed = Downto(0)

(* The destructors are what exit() calls last: either they have yet to be  *)
(* called, or they have run.                                               *)
DestructedInv ==
  /\ pc \in Before \cup {"ctors"} => onExit = << >> /\ destructed = << >>
  /\ pc = "ctors" => Constructors > 0
  /\ pc \in {"main", "close"} =>
       onExit \in {Dtors, <<"function">> \o Dtors} /\ destructed = << >>
  /\ pc = "exit" =>
       \/ onExit \in {Dtors, <<"function">> \o Dtors} /\ destructed = << >>
       \/ onExit = << >> /\ destructed = Downto(0)
  /\ pc = "function" => onExit = Dtors /\ destructed = << >>
  /\ pc = "dtors" => onExit = << >> /\ destructed = Downto(next)
  /\ pc = "flush" => destructed = Downto(0)

EndedInv ==
  /\ ended # "no" => pc \in Over
  /\ ended = "exit" => destructed = Downto(0)
  /\ ended = "abruptly" => destructed = << >>

StartInv == StartTypeOK /\ HandledInv /\ ConstructedInv /\ DestructedInv /\ EndedInv

LEMMA LoopDown ==
  ASSUME StartTypeOK
  PROVE  /\ Constructors \in Nat /\ Downto(Constructors) = << >> /\ Downto(0) = Loop
         /\ \A k \in 1 .. Constructors : Append(Downto(k), k) = Downto(k - 1)
<1>1. Constructors \in Nat
  BY DEF StartTypeOK, Constructors
<1>2. Downto(Constructors) = << >>
  BY <1>1 DEF Downto
<1>3. Downto(0) = Loop
  BY <1>1 DEF Downto, Loop
<1>4. ASSUME NEW k \in 1 .. Constructors
      PROVE  Append(Downto(k), k) = Downto(k - 1)
  BY <1>1, <1>4 DEF Downto
<1> QED BY <1>1, <1>2, <1>3, <1>4

LEMMA StartInit_Inv == StartInit => StartInv
<1> SUFFICES ASSUME StartInit PROVE StartInv
  OBVIOUS
<1>1. StartTypeOK
  BY StartupAssumption DEF StartInit, StartTypeOK, Labels, Before, Constructors
<1> QED BY <1>1 DEF StartInit, StartInv, HandledInv, ConstructedInv, DestructedInv,
          EndedInv, Before, Over

(* A function is put before those that exit() calls.                       *)
LEMMA InFront ==
  ASSUME NEW S, NEW e \in S, NEW s \in Seq(S)
  PROVE  <<e>> \o s # << >> /\ Head(<<e>> \o s) = e /\ Tail(<<e>> \o s) = s
<1>1. /\ <<e>> \o s \in Seq(S) /\ Len(<<e>> \o s) = 1 + Len(s)
      /\ \A k \in 1 .. 1 + Len(s) :
           (<<e>> \o s)[k] = IF k <= 1 THEN e ELSE s[k - 1]
  <2>1. <<e>> \in Seq(S) /\ Len(<<e>>) = 1 /\ <<e>>[1] = e
    OBVIOUS
  <2> QED BY <2>1, ConcatProperties
<1>2. <<e>> \o s # << >>
  BY <1>1
<1>3. Head(<<e>> \o s) = e
  BY <1>1, <1>2
<1>4. /\ Tail(<<e>> \o s) \in Seq(S) /\ Len(Tail(<<e>> \o s)) = Len(s)
      /\ \A k \in 1 .. Len(s) : Tail(<<e>> \o s)[k] = s[k]
  BY <1>1, <1>2, HeadTailProperties
<1> QED BY <1>2, <1>3, <1>4, SeqEqual

LEMMA OnExit ==
  ASSUME StartTypeOK, Constructors \in Nat
  PROVE  /\ Head(<<"function">> \o Dtors) = "function"
         /\ Tail(<<"function">> \o Dtors) = Dtors /\ <<"function">> \o Dtors # << >>
         /\ Constructors = 0 => Dtors = << >>
         /\ Constructors > 0 =>
              Dtors = <<"_do_dtors">> /\ Head(Dtors) = "_do_dtors" /\ Tail(Dtors) = << >>
<1>1. Dtors \in Seq({"function", "_do_dtors"})
  <2>1. << >> \in Seq({"function", "_do_dtors"})
    BY EmptySeq
  <2>2. <<"_do_dtors">> \in Seq({"function", "_do_dtors"})
    OBVIOUS
  <2> QED BY <2>1, <2>2, Zenon DEF Dtors
<1>2. /\ <<"function">> \o Dtors # << >> /\ Head(<<"function">> \o Dtors) = "function"
      /\ Tail(<<"function">> \o Dtors) = Dtors
  BY <1>1, InFront
<1>3. ASSUME Constructors > 0
      PROVE  Dtors = <<"_do_dtors">> /\ Head(Dtors) = "_do_dtors" /\ Tail(Dtors) = << >>
  <2>1. Dtors = <<"_do_dtors">>
    BY <1>3 DEF Dtors
  <2> QED BY <2>1
<1>4. Constructors = 0 => Dtors = << >>
  BY DEF Dtors
<1> QED BY <1>2, <1>3, <1>4

LEMMA BootsKeep == ASSUME StartInv, UNCHANGED build, Boots PROVE StartInv'
<1> USE DEF StartInv, HandledInv, ConstructedInv, DestructedInv, EndedInv, Here,
        GoOn, Before, Over, requests, objects
<1>0. /\ StartTypeOK /\ UNCHANGED Constructors /\ Dtors' = Dtors
      /\ \A k : Downto(k)' = Downto(k)
  BY DEF StartInv, Constructors, Dtors, Downto
<1>1. /\ Constructors \in Nat /\ Downto(Constructors) = << >>
      /\ \A k \in 1 .. Constructors : Append(Downto(k), k) = Downto(k - 1)
  BY <1>0, LoopDown
<1>2. StartTypeOK'
  BY <1>0, <1>1 DEF StartTypeOK, Labels, Boots, altera_nios2_qsys_irq_init,
     EnableInterrupts, InitTimer, InitJtagUart, RedirectIO, DoCtors
<1>3. CASE altera_nios2_qsys_irq_init
  BY <1>0, <1>2, <1>3 DEF altera_nios2_qsys_irq_init
<1>4. CASE EnableInterrupts
  BY <1>0, <1>2, <1>4 DEF EnableInterrupts
<1>5. CASE InitTimer
  BY <1>0, <1>2, <1>5 DEF InitTimer, Register
<1>6. CASE InitJtagUart
  BY <1>0, <1>2, <1>6 DEF InitJtagUart, Register
<1>7. CASE RedirectIO
  BY <1>0, <1>1, <1>2, <1>7 DEF RedirectIO, Dtors
<1>8. CASE DoCtors
  <2>1. CASE next > 0
    <3>1. /\ constructed' = Downto(next - 1) /\ next' = next - 1
          /\ next' \in 0 .. Constructors
      <4>1. next \in 1 .. Constructors
        BY <1>0, <1>1, <2>1 DEF StartTypeOK
      <4>2. Append(Downto(next), next) = Downto(next - 1)
        BY <1>1, <4>1
      <4>3. constructed = Downto(next)
        BY <1>8 DEF DoCtors
      <4>4. constructed' = Append(constructed, next) /\ next' = next - 1
        BY <1>8, <2>1 DEF DoCtors
      <4>5. next - 1 \in 0 .. Constructors
        BY <1>1, <4>1
      <4> QED BY <4>2, <4>3, <4>4, <4>5, Zenon
    <3> QED BY <1>0, <1>2, <1>8, <2>1, <3>1 DEF DoCtors
  <2>2. CASE ~(next > 0)
    <3>1. next = 0 /\ onExit' = <<"_do_dtors">> /\ Dtors = <<"_do_dtors">>
      BY <1>0, <1>1, <1>8, <2>2 DEF DoCtors, StartTypeOK, Dtors
    <3> QED BY <1>0, <1>2, <1>8, <2>2, <3>1 DEF DoCtors
  <2> QED BY <2>1, <2>2
<1> QED BY <1>3, <1>4, <1>5, <1>6, <1>7, <1>8 DEF Boots

LEMMA MainKeeps ==
  ASSUME StartInv, UNCHANGED build, Main \/ Write \/ Transmit PROVE StartInv'
<1> USE DEF StartInv, HandledInv, ConstructedInv, DestructedInv, EndedInv, Here,
        GoOn, Before, Over, requests, objects
<1>0. /\ StartTypeOK /\ UNCHANGED Constructors /\ Dtors' = Dtors
      /\ \A k : Downto(k)' = Downto(k)
  BY DEF StartInv, Constructors, Dtors, Downto
<1>1. CASE CallAtexit
  <2>1. onExit = Dtors
    BY <1>1 DEF CallAtexit, Dtors
  <2> QED BY <1>0, <1>1, <2>1 DEF CallAtexit, StartTypeOK, Labels
<1>2. CASE MainReturns
  BY <1>0, <1>2 DEF MainReturns, StartTypeOK, Labels
<1>3. CASE CallExit
  BY <1>0, <1>3 DEF CallExit, StartTypeOK, Labels
<1>4. ASSUME NEW newline \in BOOLEAN, Puts(newline) PROVE StartInv'
  BY <1>0, <1>4 DEF Puts, StartTypeOK, Labels
<1>5. ASSUME NEW pid \in {0, 1}, NEW sig \in Ends \cup Ignored, kill(pid, sig)
      PROVE  StartInv'
  BY <1>0, <1>5 DEF kill, StartTypeOK, Labels
<1>6. CASE Write
  BY <1>0, <1>6 DEF Write, StartTypeOK, Labels
<1>7. CASE Transmit
  BY <1>0, <1>7 DEF Transmit, StartTypeOK, Labels
<1> QED BY <1>1, <1>2, <1>3, <1>4, <1>5, <1>6, <1>7 DEF Main

LEMMA StopsKeep == ASSUME StartInv, UNCHANGED build, Stops PROVE StartInv'
<1> USE DEF StartInv, HandledInv, ConstructedInv, DestructedInv, EndedInv, Here,
        GoOn, Before, Over, requests, objects
<1>0. /\ StartTypeOK /\ UNCHANGED Constructors /\ Dtors' = Dtors
      /\ \A k : Downto(k)' = Downto(k)
  BY DEF StartInv, Constructors, Dtors, Downto
<1>1. /\ Constructors \in Nat /\ Downto(Constructors) = << >>
      /\ \A k \in 1 .. Constructors : Append(Downto(k), k) = Downto(k - 1)
  BY <1>0, LoopDown
<1>2. CASE CloseStdout
  BY <1>0, <1>2 DEF CloseStdout, StartTypeOK, Labels
<1>3. CASE Exit
  <2>1. /\ Head(<<"function">> \o Dtors) = "function"
        /\ Tail(<<"function">> \o Dtors) = Dtors /\ <<"function">> \o Dtors # << >>
        /\ Constructors = 0 => Dtors = << >>
        /\ Constructors > 0 =>
             Dtors = <<"_do_dtors">> /\ Head(Dtors) = "_do_dtors" /\ Tail(Dtors) = << >>
    BY <1>0, <1>1, OnExit
  <2>2. StartTypeOK'
    BY <1>0, <1>1, <1>3 DEF Exit, StartTypeOK, Labels
  <2>3. HandledInv' /\ ConstructedInv' /\ EndedInv'
    BY <1>0, <1>3 DEF Exit
  <2>4. CASE onExit = << >>
    <3>1. destructed = Downto(0)
      <4>1. CASE destructed = << >> /\ Dtors = << >>
        <5>1. Constructors = 0
          BY <1>1, <2>1, <4>1
        <5> QED BY <1>1, <4>1, <5>1
      <4> QED BY <1>3, <2>1, <2>4, <4>1 DEF Exit
    <3> QED BY <1>0, <1>3, <2>2, <2>3, <2>4, <3>1 DEF Exit
  <2>5. CASE onExit = <<"function">> \o Dtors
    BY <1>0, <1>1, <1>3, <2>1, <2>2, <2>3, <2>5 DEF Exit
  <2>6. CASE onExit = Dtors /\ onExit # << >>
    <3>1. Constructors > 0 /\ destructed = << >>
      BY <1>0, <1>1, <1>3, <2>1, <2>6 DEF Exit
    <3>2. pc' = "dtors" /\ next' = Constructors /\ onExit' = << >>
      BY <1>3, <2>1, <2>6, <3>1 DEF Exit
    <3> QED BY <1>0, <1>1, <1>3, <2>2, <2>3, <3>1, <3>2 DEF Exit
  <2> QED BY <1>3, <2>4, <2>5, <2>6 DEF Exit
<1>4. CASE DoDtors
  <2>1. CASE next > 0
    <3>1. /\ destructed' = Downto(next - 1) /\ next' = next - 1
          /\ next' \in 0 .. Constructors
      <4>1. next \in 1 .. Constructors
        BY <1>0, <1>1, <2>1 DEF StartTypeOK
      <4>2. Append(Downto(next), next) = Downto(next - 1)
        BY <1>1, <4>1
      <4>3. destructed = Downto(next)
        BY <1>4 DEF DoDtors
      <4>4. destructed' = Append(destructed, next) /\ next' = next - 1
        BY <1>4, <2>1 DEF DoDtors
      <4>5. next - 1 \in 0 .. Constructors
        BY <1>1, <4>1
      <4> QED BY <4>2, <4>3, <4>4, <4>5, Zenon
    <3> QED BY <1>0, <1>1, <1>4, <2>1, <3>1 DEF DoDtors, StartTypeOK, Labels
  <2>2. CASE ~(next > 0)
    BY <1>0, <1>4, <2>2 DEF DoDtors, StartTypeOK, Labels
  <2> QED BY <2>1, <2>2
<1>5. CASE FlushStreams
  BY <1>0, <1>5 DEF FlushStreams, StartTypeOK, Labels
<1>6. CASE ALT_EXIT
  BY <1>0, <1>6 DEF ALT_EXIT, StartTypeOK, Labels
<1> QED BY <1>2, <1>3, <1>4, <1>5, <1>6 DEF Stops

LEMMA DevicesKeep ==
  ASSUME StartInv, UNCHANGED build, NEW d \in Devices, Request(d) \/ TakeRequest(d)
  PROVE  StartInv'
<1>1. /\ StartTypeOK /\ UNCHANGED Constructors /\ Dtors' = Dtors
      /\ \A k : Downto(k)' = Downto(k)
  BY DEF StartInv, Constructors, Dtors, Downto
<1>2. UNCHANGED <<pc, next, allowed, ienable, handlers, objects, ended>>
  BY DEF Request, TakeRequest
<1>3. ~stray'
  BY DEF Request, TakeRequest, StartInv, HandledInv
<1> QED
  BY <1>1, <1>2, <1>3 DEF StartInv, StartTypeOK, HandledInv, ConstructedInv,
     DestructedInv, EndedInv, objects

LEMMA StartStep == StartInv /\ [StartNext]_startVars => StartInv'
<1> SUFFICES ASSUME StartInv, [StartNext]_startVars PROVE StartInv'
  OBVIOUS
<1>1. CASE StartNext
  BY <1>1, BootsKeep, MainKeeps, StopsKeep, DevicesKeep DEF StartNext
<1>2. CASE UNCHANGED startVars
  BY <1>2 DEF startVars, requests, objects, output, StartInv, StartTypeOK,
     HandledInv, ConstructedInv, DestructedInv, EndedInv, Downto, Dtors,
     Constructors
<1> QED BY <1>1, <1>2

(* Whatever the program before has left in the mask and the devices, no    *)
(* interrupt finds the table without a handler; and whatever the program   *)
(* is like and however it ends, for any number of constructors, main()     *)
(* finds every object constructed, once and in order, and the destructors  *)
(* run for all of them when it ends with exit() and for none otherwise.    *)
THEOREM StartupAlwaysRight == StartSpec => []StartupRight
<1>1. StartInv => StartupRight
  BY LoopDown DEF StartInv, HandledInv, ConstructedInv, EndedInv, Before,
     StartupRight, NoStrayInterrupt, LifeOfObjects
<1> QED BY <1>1, StartInit_Inv, StartStep, PTL DEF StartSpec
-----------------------------------------------------------------------------
(* The caches.                                                             *)

(* Arithmetic of lines.  The provers do not multiply by themselves: what   *)
(* follows rests on Multiples.                                             *)
LEMMA Multiples ==
  ASSUME NEW n \in Nat \ {0}, NEW p \in Int, NEW q \in Int, p < q
  PROVE  n * p + n <= n * q
  OBVIOUS

LEMMA LineSpans ==
  ASSUME NEW a \in Nat
  PROVE  /\ Line(a) \in Nat /\ LineSize * Line(a) <= a
         /\ a < LineSize * Line(a) + LineSize
         /\ a % LineSize = 0 => a = LineSize * Line(a)
<1>1. LineSize \in Nat \ {0}
  BY CachesAssumption
<1>2. PICK q \in Int : q = a \div LineSize
  BY <1>1
<1>3. a % LineSize \in 0 .. LineSize - 1
  BY <1>1
<1>4. a = LineSize * q + (a % LineSize)
  BY <1>1, <1>2
<1>5. q >= 0
  <2> SUFFICES ASSUME q < 0 PROVE FALSE
    OBVIOUS
  <2>1. LineSize * q + LineSize <= LineSize * 0
    BY <1>1, Multiples
  <2> QED BY <1>1, <1>3, <1>4, <2>1
<1> QED BY <1>1, <1>2, <1>3, <1>4, <1>5 DEF Line

LEMMA LineIs ==
  ASSUME NEW a \in Nat, NEW q \in Nat, LineSize * q <= a, a < LineSize * q + LineSize
  PROVE  Line(a) = q
<1>1. LineSize \in Nat \ {0} /\ Line(a) \in Nat
  BY CachesAssumption, LineSpans
<1>2. ~ (Line(a) < q)
  <2> SUFFICES ASSUME Line(a) < q PROVE FALSE
    OBVIOUS
  <2>1. LineSize * Line(a) + LineSize <= LineSize * q
    BY <1>1, Multiples
  <2> QED BY <1>1, <2>1, LineSpans
<1>3. ~ (q < Line(a))
  <2> SUFFICES ASSUME q < Line(a) PROVE FALSE
    OBVIOUS
  <2>1. LineSize * q + LineSize <= LineSize * Line(a)
    BY <1>1, Multiples
  <2> QED BY <1>1, <2>1, LineSpans
<1> QED BY <1>1, <1>2, <1>3

(* A loop that goes on by a line goes on to the next line.                 *)
LEMMA NextLine ==
  ASSUME NEW a \in Nat
  PROVE  Line(a + LineSize) = Line(a) + 1
<1>1. LineSize \in Nat \ {0} /\ Line(a) \in Nat
  BY CachesAssumption, LineSpans
<1>2. LineSize * (Line(a) + 1) = LineSize * Line(a) + LineSize
  BY <1>1
<1> QED BY <1>1, <1>2, LineSpans, LineIs

LEMMA LinesInOrder ==
  ASSUME NEW a \in Nat, NEW b \in Nat, a <= b
  PROVE  Line(a) <= Line(b)
<1>1. LineSize \in Nat \ {0} /\ Line(a) \in Nat /\ Line(b) \in Nat
  BY CachesAssumption, LineSpans
<1> SUFFICES ASSUME Line(b) < Line(a) PROVE FALSE
  BY <1>1
<1>2. LineSize * Line(b) + LineSize <= LineSize * Line(a)
  BY <1>1, Multiples
<1> QED BY <1>1, <1>2, LineSpans

(* Addresses below the beginning of a line are in the lines before.        *)
LEMMA LinesBefore ==
  ASSUME NEW a \in Nat, NEW b \in Nat, a < b, b % LineSize = 0
  PROVE  Line(a) < Line(b)
<1>1. LineSize \in Nat \ {0} /\ Line(a) \in Nat /\ Line(b) \in Nat
  BY CachesAssumption, LineSpans
<1>2. b = LineSize * Line(b) /\ LineSize * Line(a) <= a
  BY LineSpans
<1>3. Line(a) <= Line(b)
  BY LinesInOrder
<1> QED BY <1>1, <1>2, <1>3

LEMMA SameRemainder ==
  ASSUME NEW n \in Nat \ {0}, NEW a \in Nat, NEW b \in Nat, NEW k \in Int, a = b + n * k
  PROVE  a % n = b % n
<1>1. PICK p \in Int : p = a \div n
  OBVIOUS
<1>2. PICK q \in Int : q = b \div n
  OBVIOUS
<1>3. a = n * p + (a % n) /\ b = n * q + (b % n)
  BY <1>1, <1>2
<1>4. a % n \in 0 .. n - 1 /\ b % n \in 0 .. n - 1
  OBVIOUS
<1>5. n * (q + k) = n * q + n * k
  OBVIOUS
<1>6. ~ (p < q + k)
  <2> SUFFICES ASSUME p < q + k PROVE FALSE
    OBVIOUS
  <2>1. n * p + n <= n * (q + k)
    BY Multiples
  <2> QED BY <1>3, <1>4, <1>5, <2>1
<1>7. ~ (q + k < p)
  <2> SUFFICES ASSUME q + k < p PROVE FALSE
    OBVIOUS
  <2>1. n * (q + k) + n <= n * p
    BY Multiples
  <2> QED BY <1>3, <1>4, <1>5, <2>1
<1>8. p = q + k
  BY <1>6, <1>7
<1> QED BY <1>3, <1>5, <1>8

(* As many lines in a row as a cache has go to all of its lines.           *)
LEMMA AllIndices ==
  ASSUME NEW n \in Nat \ {0}, NEW s \in Nat, NEW x \in Nat
  PROVE  \E l \in s .. s + n - 1 : l % n = x % n
<1> DEFINE y == x + (n - 1) * s
<1>1. y \in Nat
  BY DEF y
<1>2. PICK q \in Int : q = y \div n
  BY <1>1
<1> HIDE DEF y
<1>3. y = n * q + (y % n) /\ y % n \in 0 .. n - 1
  BY <1>1, <1>2
<1>4. s + (y % n) = x + n * (s - q)
  <2>1. n * (s - q) = n * s - n * q /\ (n - 1) * s = n * s - s
    OBVIOUS
  <2> QED BY <1>3, <2>1 DEF y
<1>5. s + (y % n) \in s .. s + n - 1 /\ s + (y % n) \in Nat
  BY <1>3
<1>6. (s + (y % n)) % n = x % n
  <2>1. PICK l \in Nat : l = s + (y % n)
    BY <1>5
  <2>2. PICK k \in Int : k = s - q
    OBVIOUS
  <2>3. l = x + n * k
    BY <1>4, <2>1, <2>2
  <2>4. l % n = x % n
    BY <2>3, SameRemainder
  <2> QED BY <2>1, <2>4
<1> QED BY <1>5, <1>6

LEMMA LinesFurther ==
  ASSUME NEW a \in Nat, NEW k \in Nat
  PROVE  Line(a + k * LineSize) = Line(a) + k
<1>1. LineSize \in Nat \ {0} /\ Line(a) \in Nat
  BY CachesAssumption, LineSpans
<1>2. /\ LineSize * (Line(a) + k) = LineSize * Line(a) + LineSize * k
      /\ LineSize * k = k * LineSize /\ LineSize * k \in Nat
  BY <1>1
<1>3. PICK c \in Nat : c = k * LineSize
  BY <1>2
<1>4. LineSize * (Line(a) + k) = LineSize * Line(a) + c
  BY <1>2, <1>3
<1>5. a + c \in Nat /\ Line(a) + k \in Nat
  BY <1>1
<1>6. PICK q \in Nat, b \in Nat : q = Line(a) + k /\ b = a + c
  BY <1>5
<1>7. LineSize * q <= b /\ b < LineSize * q + LineSize
  BY <1>1, <1>4, <1>6, LineSpans
<1>8. Line(b) = q
  BY <1>6, <1>7, LineIs
<1> QED BY <1>3, <1>6, <1>8

LEMMA StepAligned ==
  ASSUME NEW a \in Nat, a % LineSize = 0
  PROVE  (a + LineSize) % LineSize = 0
<1>1. LineSize \in Nat \ {0}
  BY CachesAssumption
<1>2. PICK b \in Nat, k \in Int : b = a + LineSize /\ k = 1
  BY <1>1
<1>3. b = a + LineSize * k
  BY <1>1, <1>2
<1>4. b % LineSize = a % LineSize
  BY <1>1, <1>3, SameRemainder
<1> QED BY <1>2, <1>4
-----------------------------------------------------------------------------
Op == Head(work).op
From == Head(work).start
To == Head(work).end

DataTypes ==
  /\ dtag \in [0 .. DLines - 1 -> LinesOf(Addr) \cup {NoLine}]
  /\ dirty \subseteq Addr /\ older \subseteq Addr /\ lost \subseteq Addr
  /\ \A a \in dirty \cup older : dtag[DIndex(Line(a))] = Line(a)

CodeTypes ==
  /\ itag \in [0 .. ILines - 1 -> LinesOf(Addr) \cup {NoLine}]
  /\ istale \subseteq {x \in 0 .. ILines - 1 : itag[x] # NoLine}

(* The function that runs has the rest of its loops before it, and the     *)
(* loop keeps to the lines it has begun with.                              *)
WorkInv ==
  /\ cursor \in Nat /\ uncached \subseteq Addr
  /\ work # << >> =>
       /\ request \in [fn : Called, start : Addr, len : Nat]
       /\ request.start + request.len <= Size
       /\ request.fn = "load" => OnLines(request.start, request.len)
       /\ WholeLines /\ request.fn \in {"no_writeback", "remap_uncached"} =>
            OnLines(request.start, request.len)
       /\ \/ work = Loops(request.fn, request.start, request.len)
          \/ /\ request.fn = "load"
             /\ work \in {<<alt_dcache_flush_all, alt_icache_flush_all>>,
                          <<alt_icache_flush_all>>}
       /\ From <= cursor
       /\ Op # "copy" /\ From % LineSize = 0 => cursor % LineSize = 0

(* What the loop has done so far.  Where it goes by addresses, the lines   *)
(* of the region up to the cursor are in the cache no more; where it goes  *)
(* by indices, nothing of the region is where it has been.                 *)
ByAddress == Op = "discard" \/ (Op = "flush" /\ FlushAddress)
ByIndex == Op = "flushd" \/ (Op = "flush" /\ ~FlushAddress)
Passed == Line(From) .. Line(cursor) - 1

PassedInv ==
  work # << >> =>
    /\ ByAddress =>
         \A l \in LinesOf(Requested) : l < Line(cursor) => dtag[DIndex(l)] # l
    /\ ByIndex => \A l \in Passed : dtag[DIndex(l)] \notin LinesOf(Requested)
    /\ Op = "flushi" =>
         /\ \A l \in Passed : itag[IIndex(l)] \notin LinesOf(Requested)
         /\ request.fn = "load" =>
              \A x \in 0 .. DLines - 1 : dtag[x] \notin LinesOf(Requested)

(* What is used through uncached pointers are whole lines, none of them in *)
(* the data cache.                                                         *)
UncachedInv ==
  /\ older = {} /\ lost = {}
  /\ \A a \in uncached : /\ dtag[DIndex(Line(a))] # Line(a)
                         /\ \A b \in Addr : Line(b) = Line(a) => b \in uncached
  /\ work # << >> => Requested \cap uncached = {}

CachesInv ==
  /\ DataTypes /\ CodeTypes /\ WorkInv /\ PassedInv
  /\ WholeLines => UncachedInv

LEMMA CachesNumbers ==
  /\ LineSize \in Nat \ {0} /\ DLines \in Nat \ {0} /\ ILines \in Nat \ {0}
  /\ Size \in Nat /\ NoLine \notin Nat
  /\ DLines * LineSize \in Nat /\ ILines * LineSize \in Nat
  BY CachesAssumption

LEMMA LinesAre ==
  ASSUME NEW S \in SUBSET Addr
  PROVE  /\ \A l \in LinesOf(S) : l \in Nat /\ l \in LinesOf(Addr) /\ l # NoLine
         /\ \A a \in S : Line(a) \in LinesOf(S)
         /\ \A l \in LinesOf(S) : \E a \in S : l = Line(a)
  BY CachesNumbers, LineSpans DEF LinesOf, Addr

LEMMA IndexOf ==
  ASSUME NEW l \in Nat
  PROVE  DIndex(l) \in 0 .. DLines - 1 /\ IIndex(l) \in 0 .. ILines - 1
  BY CachesNumbers DEF DIndex, IIndex

LEMMA AddressIs ==
  ASSUME NEW a \in Addr
  PROVE  /\ a \in Nat /\ Line(a) \in Nat /\ Line(a) # NoLine /\ Line(a) \in LinesOf(Addr)
         /\ DIndex(Line(a)) \in 0 .. DLines - 1 /\ IIndex(Line(a)) \in 0 .. ILines - 1
<1>1. a \in Nat
  BY DEF Addr
<1>2. Line(a) \in Nat
  BY <1>1, LineSpans
<1>3. Line(a) # NoLine /\ Line(a) \in LinesOf(Addr)
  BY <1>2, CachesNumbers DEF LinesOf
<1> QED BY <1>1, <1>2, <1>3, IndexOf

LEMMA RegionIs ==
  /\ Requested \in SUBSET Addr
  /\ \A a \in Requested : /\ request.start <= a /\ a < request.start + request.len
                          /\ a \in Nat
  BY DEF Requested, Region, Addr

LEMMA CachesInit_Inv == CachesInit => CachesInv
  BY DEF CachesInit, CachesInv, DataTypes, CodeTypes, WorkInv, PassedInv, UncachedInv

(* The loop that runs.                                                     *)
LEMMA LoopIs ==
  ASSUME WorkInv, work # << >>
  PROVE  /\ From \in Nat /\ To \in Nat
         /\ request.start \in Nat /\ request.len \in Nat
         /\ request.start + request.len <= Size
         /\ \/ /\ Op = "flush" /\ request.fn \in {"dcache_flush", "remap_uncached"}
               /\ From = request.start /\ Tail(work) = << >> /\ Len(work) = 1
               /\ To = From + (IF FlushAddress THEN request.len
                               ELSE Shorter(request.len, DLines * LineSize))
            \/ /\ Op = "discard" /\ request.fn = "no_writeback"
               /\ From = request.start /\ Tail(work) = << >> /\ Len(work) = 1
               /\ To = From + request.len
            \/ /\ Op = "flushi" /\ request.fn = "icache_flush"
               /\ From = request.start /\ Tail(work) = << >> /\ Len(work) = 1
               /\ To = From + Shorter(request.len, ILines * LineSize)
            \/ /\ Op = "flushi" /\ request.fn = "load" /\ From = 0
               /\ Tail(work) = << >> /\ Len(work) = 1 /\ To = ILines * LineSize
            \/ /\ Op = "flushd" /\ request.fn = "load" /\ From = 0
               /\ To = DLines * LineSize /\ Len(work) = 2 /\ work[2].start = 0
               /\ Tail(work) = <<alt_icache_flush_all>>
            \/ /\ Op = "copy" /\ request.fn = "load" /\ From = request.start
               /\ To = From + request.len /\ Len(work) = 3 /\ work[2].start = 0
               /\ Tail(work) = <<alt_dcache_flush_all, alt_icache_flush_all>>
<1>1. /\ request.fn \in Called /\ request.start \in Nat /\ request.len \in Nat
      /\ request.start + request.len <= Size /\ 0 \in Nat
  BY DEF WorkInv, Addr
<1>2. request.fn \in {"dcache_flush", "no_writeback", "icache_flush",
                     "remap_uncached", "load"}
  BY <1>1, CachesAssumption
<1>3. /\ Shorter(request.len, DLines * LineSize) \in Nat
      /\ Shorter(request.len, ILines * LineSize) \in Nat
      /\ Shorter(ILines * LineSize, ILines * LineSize) = ILines * LineSize
  BY <1>1, CachesNumbers DEF Shorter
<1>4. CASE work = Loops(request.fn, request.start, request.len) /\ request.fn # "load"
  <2>1. CASE request.fn \in {"dcache_flush", "remap_uncached"}
    <3>1. work = <<alt_dcache_flush(request.start, request.len)>>
      BY <1>4, <2>1 DEF Loops
    <3>2. /\ Head(work) = alt_dcache_flush(request.start, request.len)
          /\ Tail(work) = << >> /\ Len(work) = 1
      BY <3>1
    <3> QED BY <1>1, <1>3, <2>1, <3>2 DEF Op, From, To, alt_dcache_flush, Sweep
  <2>2. CASE request.fn = "no_writeback"
    <3>1. work = <<alt_dcache_flush_no_writeback(request.start, request.len)>>
      BY <1>4, <2>2 DEF Loops
    <3>2. /\ Head(work) = alt_dcache_flush_no_writeback(request.start, request.len)
          /\ Tail(work) = << >> /\ Len(work) = 1
      BY <3>1
    <3> QED BY <1>1, <1>3, <2>2, <3>2 DEF Op, From, To, alt_dcache_flush_no_writeback, Sweep
  <2>3. CASE request.fn = "icache_flush"
    <3>1. work = <<alt_icache_flush(request.start, request.len)>>
      BY <1>4, <2>3 DEF Loops
    <3>2. /\ Head(work) = alt_icache_flush(request.start, request.len)
          /\ Tail(work) = << >> /\ Len(work) = 1
      BY <3>1
    <3> QED BY <1>1, <1>3, <2>3, <3>2 DEF Op, From, To, alt_icache_flush, Sweep
  <2> QED BY <1>2, <1>4, <2>1, <2>2, <2>3
<1>5. CASE request.fn = "load"
  <2>1. alt_icache_flush_all = [op |-> "flushi", start |-> 0, end |-> ILines * LineSize]
    BY <1>3, CachesNumbers DEF alt_icache_flush_all, alt_icache_flush, Sweep
  <2>2. alt_dcache_flush_all = [op |-> "flushd", start |-> 0, end |-> DLines * LineSize]
    BY CachesNumbers DEF alt_dcache_flush_all, Sweep
  <2>3. CASE work = Loops(request.fn, request.start, request.len)
    <3>1. work = <<Sweep("copy", request.start, request.len),
                   alt_dcache_flush_all, alt_icache_flush_all>>
      BY <1>5, <2>3 DEF Loops, alt_load
    <3>2. /\ Head(work) = Sweep("copy", request.start, request.len) /\ Len(work) = 3
          /\ work[2] = alt_dcache_flush_all
          /\ Tail(work) = <<alt_dcache_flush_all, alt_icache_flush_all>>
      BY <3>1
    <3> QED BY <1>1, <1>5, <2>2, <3>2 DEF Op, From, To, Sweep
  <2>4. CASE work = <<alt_dcache_flush_all, alt_icache_flush_all>>
    <3>1. /\ Head(work) = alt_dcache_flush_all /\ Len(work) = 2
          /\ work[2] = alt_icache_flush_all /\ Tail(work) = <<alt_icache_flush_all>>
      BY <2>4
    <3> QED BY <1>1, <1>5, <2>1, <2>2, <3>1, CachesNumbers DEF Op, From, To
  <2>5. CASE work = <<alt_icache_flush_all>>
    <3>1. Head(work) = alt_icache_flush_all /\ Len(work) = 1 /\ Tail(work) = << >>
      BY <2>5
    <3> QED BY <1>1, <1>5, <2>1, <3>1, CachesNumbers DEF Op, From, To
  <2> QED BY <1>5, <2>3, <2>4, <2>5 DEF WorkInv
<1> QED BY <1>4, <1>5 DEF WorkInv

(* What the instructions leave of the data cache.                          *)
LEMMA ReplaceKeeps ==
  ASSUME DataTypes, NEW x \in 0 .. DLines - 1,
         NEW l \in LinesOf(Addr) \cup {NoLine}, Replace(x, l)
  PROVE  DataTypes' /\ older' \subseteq older /\ dtag'[x] = l
<1>1. /\ dirty' = dirty \ Bytes(dtag[x]) /\ older' = older \ Bytes(dtag[x])
      /\ dtag' = [dtag EXCEPT ![x] = l] /\ lost' = lost
  BY DEF Replace
<1>2. dtag' \in [0 .. DLines - 1 -> LinesOf(Addr) \cup {NoLine}] /\ dtag'[x] = l
  BY <1>1 DEF DataTypes
<1>3. ASSUME NEW a \in dirty' \cup older' PROVE dtag'[DIndex(Line(a))] = Line(a)
  <2>1. a \in Addr /\ dtag[DIndex(Line(a))] = Line(a) /\ Line(a) # dtag[x]
    BY <1>1, <1>3 DEF DataTypes, Bytes
  <2>2. DIndex(Line(a)) \in 0 .. DLines - 1
    BY <2>1, AddressIs
  <2> QED BY <1>1, <2>1, <2>2 DEF DataTypes
<1> QED BY <1>1, <1>2, <1>3 DEF DataTypes

(* A line that is flushed is in the cache no more.                         *)
LEMMA FlushKeeps ==
  ASSUME DataTypes, NEW a \in Nat, flushd(a)
  PROVE  /\ DataTypes' /\ older' \subseteq older /\ lost' = lost
         /\ dtag' = [dtag EXCEPT ![DIndex(Line(a))] = NoLine]
         /\ dtag'[DIndex(Line(a))] = NoLine
<1>1. DIndex(Line(a)) \in 0 .. DLines - 1
  BY LineSpans, IndexOf
<1>2. Replace(DIndex(Line(a)), NoLine)
  BY DEF flushd, Invalidate
<1> QED BY <1>1, <1>2, ReplaceKeeps DEF Replace

(* Of a line that is discarded nothing is left to write back.              *)
LEMMA DiscardKeeps ==
  ASSUME DataTypes, NEW a \in Nat, ALT_FLUSH_DATA_NO_WRITEBACK(a)
  PROVE  /\ DataTypes' /\ older' \subseteq older
         /\ Line(a) \in LinesOf(Requested) => lost' = lost
         /\ \/ dtag' = dtag /\ dtag[DIndex(Line(a))] # Line(a)
            \/ /\ dtag' = [dtag EXCEPT ![DIndex(Line(a))] = NoLine]
               /\ dtag'[DIndex(Line(a))] = NoLine
<1>1. DIndex(Line(a)) \in 0 .. DLines - 1
  BY LineSpans, IndexOf
<1>2. CASE dtag[DIndex(Line(a))] # Line(a)
  BY <1>2 DEF ALT_FLUSH_DATA_NO_WRITEBACK, data, DataTypes
<1>3. CASE dtag[DIndex(Line(a))] = Line(a)
  <2>1. /\ dtag' = [dtag EXCEPT ![DIndex(Line(a))] = NoLine]
        /\ dirty' = dirty \ Bytes(Line(a)) /\ older' = older \ Bytes(Line(a))
        /\ lost' \subseteq lost \cup dirty
        /\ Line(a) \in LinesOf(Requested) => lost' = lost
    BY <1>3 DEF ALT_FLUSH_DATA_NO_WRITEBACK, Requested
  <2>2. ASSUME NEW b \in dirty' \cup older' PROVE dtag'[DIndex(Line(b))] = Line(b)
    <3>1. b \in Addr /\ dtag[DIndex(Line(b))] = Line(b) /\ Line(b) # Line(a)
      BY <2>1, <2>2 DEF DataTypes, Bytes
    <3>2. DIndex(Line(b)) \in 0 .. DLines - 1
      BY <3>1, AddressIs
    <3> QED BY <1>3, <2>1, <3>1, <3>2 DEF DataTypes
  <2> QED BY <1>1, <2>1, <2>2 DEF DataTypes
<1> QED BY <1>2, <1>3

(* A line that is stored to is in the data cache.                          *)
LEMMA StoreKeeps ==
  ASSUME DataTypes, CodeTypes, NEW a \in Addr, Store(a)
  PROVE  /\ DataTypes' /\ CodeTypes' /\ older' \subseteq older /\ lost' = lost
         /\ dtag' = [dtag EXCEPT ![DIndex(Line(a))] = Line(a)] /\ itag' = itag
<1> DEFINE x == DIndex(Line(a))
<1>1. /\ a \in Nat /\ Line(a) \in LinesOf(Addr) /\ Line(a) # NoLine
      /\ x \in 0 .. DLines - 1
  BY AddressIs
<1>2. /\ dtag' = [dtag EXCEPT ![x] = Line(a)] /\ older' \subseteq older /\ lost' = lost
      /\ dirty' \subseteq dirty \cup {a} /\ itag' = itag
      /\ istale' = istale \cup {y \in DOMAIN itag : itag[y] = Line(a)}
  BY DEF Store
<1>3. ASSUME NEW b \in dirty' \cup older' PROVE dtag'[DIndex(Line(b))] = Line(b)
  <2>1. CASE b = a
    BY <1>1, <1>2, <2>1 DEF DataTypes
  <2>2. CASE b # a
    <3>1. b \in Addr /\ dtag[DIndex(Line(b))] = Line(b)
      BY <1>2, <1>3, <2>2 DEF DataTypes
    <3>2. DIndex(Line(b)) \in 0 .. DLines - 1
      BY <3>1, AddressIs
    <3>4. dtag[x] # Line(a) => b \notin Bytes(dtag[x])
      BY <1>3, <2>2 DEF Store
    <3>5. DIndex(Line(b)) = x => Line(b) = Line(a)
      BY <3>1, <3>4 DEF Bytes
    <3> QED BY <1>1, <1>2, <3>1, <3>2, <3>5 DEF DataTypes
  <2> QED BY <2>1, <2>2
<1>4. DataTypes'
  BY <1>1, <1>2, <1>3 DEF DataTypes
<1>5. CodeTypes'
  BY <1>1, <1>2 DEF CodeTypes
<1> QED BY <1>2, <1>4, <1>5

(* An instruction of a loop takes at most the line of its address out of   *)
(* the cache it is for.                                                    *)
LEMMA InstructionKeeps ==
  ASSUME DataTypes, CodeTypes, NEW op, NEW a \in Nat, Instruction(op, a), op # "copy"
  PROVE  /\ DataTypes' /\ CodeTypes' /\ older' \subseteq older
         /\ op = "discard" => (Line(a) \in LinesOf(Requested) => lost' = lost)
         /\ op # "discard" => lost' = lost
         /\ \/ dtag' = dtag
            \/ dtag' = [dtag EXCEPT ![DIndex(Line(a))] = NoLine]
         /\ op = "discard" \/ (op = "flush" /\ FlushAddress) =>
              dtag'[DIndex(Line(a))] # Line(a)
         /\ op = "flushd" \/ (op = "flush" /\ ~FlushAddress) =>
              dtag'[DIndex(Line(a))] = NoLine
         /\ IF op = "flushi"
            THEN dtag' = dtag /\ itag' = [itag EXCEPT ![IIndex(Line(a))] = NoLine]
            ELSE UNCHANGED code
<1>1. Line(a) \in Nat /\ Line(a) # NoLine /\ IIndex(Line(a)) \in 0 .. ILines - 1
  BY LineSpans, IndexOf, CachesNumbers
<1>2. CASE op = "flush" /\ FlushAddress /\ dtag[DIndex(Line(a))] # Line(a)
  BY <1>2 DEF Instruction, ALT_FLUSH_DATA, data, code, DataTypes, CodeTypes
<1>3. CASE op = "flush" /\ ~ (FlushAddress /\ dtag[DIndex(Line(a))] # Line(a))
  <2>1. flushd(a) /\ UNCHANGED code
    BY <1>3 DEF Instruction, ALT_FLUSH_DATA
  <2> QED BY <1>1, <1>3, <2>1, FlushKeeps DEF code, CodeTypes
<1>4. CASE op = "flushd"
  <2>1. flushd(a) /\ UNCHANGED code
    BY <1>4 DEF Instruction
  <2> QED BY <1>1, <1>4, <2>1, FlushKeeps DEF code, CodeTypes
<1>5. CASE op = "discard"
  <2>1. ALT_FLUSH_DATA_NO_WRITEBACK(a) /\ UNCHANGED code
    BY <1>5 DEF Instruction
  <2> QED BY <1>1, <1>5, <2>1, DiscardKeeps DEF code, CodeTypes
<1>6. CASE op = "flushi"
  <2>1. flushi(a) /\ UNCHANGED data
    BY <1>6 DEF Instruction
  <2>2. CodeTypes'
    BY <1>1, <2>1 DEF flushi, CodeTypes
  <2> QED BY <1>6, <2>1, <2>2 DEF flushi, data, DataTypes
<1> QED BY <1>2, <1>3, <1>4, <1>5, <1>6 DEF Instruction

(* What is not in the data cache does not come back by a line less.        *)
Emptier(x) == dtag' = dtag \/ dtag' = [dtag EXCEPT ![x] = NoLine]

LEMMA EmptierKeeps ==
  ASSUME DataTypes, NEW x, Emptier(x)
  PROVE  /\ \A l \in Nat : dtag[DIndex(l)] # l => dtag'[DIndex(l)] # l
         /\ \A S \in SUBSET Addr : \A y \in 0 .. DLines - 1 :
              dtag[y] \notin LinesOf(S) => dtag'[y] \notin LinesOf(S)
<1>1. ASSUME NEW y \in 0 .. DLines - 1 PROVE dtag'[y] \in {dtag[y], NoLine}
  BY DEF Emptier, DataTypes
<1>2. \A l \in Nat : l # NoLine /\ DIndex(l) \in 0 .. DLines - 1
  BY IndexOf, CachesNumbers
<1>3. \A S \in SUBSET Addr : NoLine \notin LinesOf(S)
  BY LinesAre
<1> QED BY <1>1, <1>2, <1>3

(* What a loop has been at when it is at its end.                          *)
LEMMA AllPassed ==
  ASSUME WorkInv, work # << >>, From = request.start, To = From + request.len,
         From \in Nat, To \in Nat, cursor >= To, Op # "copy", NEW a \in Requested
  PROVE  \/ Line(a) \in Passed
         \/ From % LineSize # 0 /\ Line(a) = Line(cursor)
<1>1. a \in Nat /\ cursor \in Nat /\ From <= a /\ a < cursor
  BY RegionIs DEF WorkInv
<1>2. /\ Line(a) \in Nat /\ Line(cursor) \in Nat /\ Line(From) \in Nat
      /\ Line(From) <= Line(a) /\ Line(a) <= Line(cursor)
  <2>1. Line(a) \in Nat /\ Line(cursor) \in Nat /\ Line(From) \in Nat
    BY <1>1, LineSpans
  <2>2. Line(From) <= Line(a)
    BY <1>1, LinesInOrder
  <2>3. Line(a) <= Line(cursor)
    <3>1. a <= cursor
      BY <1>1
    <3> QED BY <1>1, <3>1, LinesInOrder
  <2> QED BY <2>1, <2>2, <2>3
<1>3. From % LineSize = 0 => Line(a) < Line(cursor)
  BY <1>1, LinesBefore DEF WorkInv
<1> QED BY <1>2, <1>3 DEF Passed

(* As many lines as a cache has have been at every line of it.             *)
LEMMA CachePassed ==
  ASSUME NEW f \in Nat, NEW c \in Nat, NEW l \in Nat
  PROVE  /\ f + DLines * LineSize <= c =>
              \E p \in Nat : Line(f) <= p /\ p < Line(c) /\ p % DLines = l % DLines
         /\ f + ILines * LineSize <= c =>
              \E p \in Nat : Line(f) <= p /\ p < Line(c) /\ p % ILines = l % ILines
<1>1. ASSUME NEW n \in Nat \ {0}
      PROVE  f + n * LineSize <= c =>
               \E p \in Nat : Line(f) <= p /\ p < Line(c) /\ p % n = l % n
  <2> SUFFICES ASSUME f + n * LineSize <= c
               PROVE  \E p \in Nat : Line(f) <= p /\ p < Line(c) /\ p % n = l % n
    OBVIOUS
  <2>1. /\ n * LineSize \in Nat /\ f + n * LineSize \in Nat
        /\ Line(f) \in Nat /\ Line(c) \in Nat
    <3>1. n * LineSize \in Nat
      <4>1. PICK m \in Nat : m = LineSize
        BY CachesNumbers
      <4>2. n * m \in Nat
        OBVIOUS
      <4> QED BY <4>1, <4>2
    <3>2. f + n * LineSize \in Nat
      BY <3>1
    <3>3. Line(f) \in Nat /\ Line(c) \in Nat
      BY LineSpans
    <3> QED BY <3>1, <3>2, <3>3
  <2>2. Line(f + n * LineSize) = Line(f) + n
    BY LinesFurther
  <2>3. Line(f) + n <= Line(c)
    BY <2>1, <2>2, LinesInOrder
  <2>4. PICK p \in Line(f) .. Line(f) + n - 1 : p % n = l % n
    BY <2>1, AllIndices
  <2> QED BY <2>1, <2>3, <2>4
<1>2. PICK d \in Nat \ {0}, i \in Nat \ {0} : d = DLines /\ i = ILines
  BY CachesNumbers
<1>3. f + d * LineSize <= c =>
        \E p \in Nat : Line(f) <= p /\ p < Line(c) /\ p % d = l % d
  BY <1>1
<1>4. f + i * LineSize <= c =>
        \E p \in Nat : Line(f) <= p /\ p < Line(c) /\ p % i = l % i
  BY <1>1
<1> QED BY <1>2, <1>3, <1>4

LEMMA LinesEmpty ==
  ASSUME NEW a \in Nat
  PROVE  Line(a) .. Line(a) - 1 = {}
  BY LineSpans

(* The first of the loops of a function begins with the region.            *)
LEMMA LoopsBegin ==
  ASSUME NEW fn \in Called, NEW start \in Nat, NEW len \in Nat
  PROVE  /\ Loops(fn, start, len) # << >> /\ Head(Loops(fn, start, len)).start = start
         /\ Head(Loops(fn, start, len)).op # "flushd"
         /\ fn = "load" => Head(Loops(fn, start, len)).op = "copy"
<1>1. fn \in {"dcache_flush", "no_writeback", "icache_flush", "remap_uncached", "load"}
  BY CachesAssumption
<1>2. CASE fn \in {"dcache_flush", "remap_uncached"}
  <2>1. Loops(fn, start, len) = <<alt_dcache_flush(start, len)>>
    BY <1>2 DEF Loops
  <2>2. /\ Head(Loops(fn, start, len)) = alt_dcache_flush(start, len)
        /\ Loops(fn, start, len) # << >>
    BY <2>1
  <2> QED BY <1>2, <2>2 DEF alt_dcache_flush, Sweep
<1>3. CASE fn = "no_writeback"
  <2>1. Loops(fn, start, len) = <<alt_dcache_flush_no_writeback(start, len)>>
    BY <1>3 DEF Loops
  <2>2. /\ Head(Loops(fn, start, len)) = alt_dcache_flush_no_writeback(start, len)
        /\ Loops(fn, start, len) # << >>
    BY <2>1
  <2> QED BY <1>3, <2>2 DEF alt_dcache_flush_no_writeback, Sweep
<1>4. CASE fn = "icache_flush"
  <2>1. Loops(fn, start, len) = <<alt_icache_flush(start, len)>>
    BY <1>4 DEF Loops
  <2>2. /\ Head(Loops(fn, start, len)) = alt_icache_flush(start, len)
        /\ Loops(fn, start, len) # << >>
    BY <2>1
  <2> QED BY <1>4, <2>2 DEF alt_icache_flush, Sweep
<1>5. CASE fn = "load"
  <2>1. Loops(fn, start, len) =
          <<Sweep("copy", start, len), alt_dcache_flush_all, alt_icache_flush_all>>
    BY <1>5 DEF Loops, alt_load
  <2>2. /\ Head(Loops(fn, start, len)) = Sweep("copy", start, len)
        /\ Loops(fn, start, len) # << >>
    BY <2>1
  <2> QED BY <1>5, <2>2 DEF Sweep
<1> QED BY <1>1, <1>2, <1>3, <1>4, <1>5

(* Every step keeps the invariant: a function is called, ...               *)
LEMMA CallFunctionKeeps ==
  ASSUME CachesInv, NEW fn \in Called, NEW start \in Addr, NEW len \in 0 .. MaxRange,
         CallFunction(fn, start, len)
  PROVE  CachesInv'
<1>1. /\ request' = [fn |-> fn, start |-> start, len |-> len]
      /\ work' = Loops(fn, start, len) /\ cursor' = start
      /\ UNCHANGED <<dtag, dirty, older, lost, itag, istale, uncached>>
      /\ start + len <= Size /\ Region(start, len) \cap uncached = {}
      /\ start \in Nat /\ len \in Nat
  BY CachesAssumption DEF CallFunction, data, code, Addr
<1>2. /\ Op' # "flushd" /\ From' = start /\ (fn = "load" => Op' = "copy")
      /\ work' # << >>
  BY <1>1, LoopsBegin DEF Op, From
<1>3. WorkInv'
  <2>1. fn = "load" \/ (WholeLines /\ fn \in {"no_writeback", "remap_uncached"})
        => OnLines(start, len)
    BY DEF CallFunction
  <2> QED BY <1>1, <1>2, <2>1 DEF WorkInv, CachesInv
<1>4. PassedInv'
  <2>1. Passed' = {}
    BY <1>1, <1>2, LinesEmpty DEF Passed
  <2>2. ASSUME NEW l \in LinesOf(Requested)' PROVE ~ (l < Line(cursor)')
    <3>1. PICK a \in Requested' : l = Line(a)
      BY <2>2 DEF LinesOf
    <3>2. a \in Nat /\ start <= a
      BY <1>1, <3>1 DEF Requested, Region, Addr
    <3>3. Line(start) <= Line(a) /\ Line(start) \in Nat /\ Line(a) \in Nat
      BY <1>1, <3>2, LinesInOrder, LineSpans
    <3> QED BY <1>1, <3>1, <3>3
  <2> QED BY <1>1, <1>2, <2>1, <2>2 DEF PassedInv, ByIndex
<1>5. WholeLines => UncachedInv'
  BY <1>1 DEF CachesInv, UncachedInv, Requested
<1> QED BY <1>1, <1>3, <1>4, <1>5 DEF CachesInv, DataTypes, CodeTypes

(* ... a loop goes on by a line, ...                                       *)
LEMMA IterateKeeps ==
  ASSUME CachesInv, Iterate
  PROVE  CachesInv'
<1>1. /\ work # << >> /\ cursor < To /\ Instruction(Op, cursor)
      /\ cursor' = cursor + (IF Op = "copy" THEN 1 ELSE LineSize)
      /\ uncached' = uncached /\ request' = request /\ work' = work
      /\ DataTypes /\ CodeTypes /\ WorkInv /\ PassedInv
  BY DEF Iterate, CachesInv, Op, To
<1>2. /\ Op' = Op /\ From' = From /\ To' = To /\ Requested' = Requested
      /\ cursor \in Nat /\ From <= cursor /\ From \in Nat /\ To \in Nat
      /\ Requested \in SUBSET Addr
  BY <1>1, LoopIs, RegionIs DEF Op, From, To, Requested, WorkInv
<1>3. CASE Op = "copy"
  <2>1. /\ request.fn = "load" /\ From = request.start /\ To = From + request.len
        /\ request.start + request.len <= Size
    BY <1>1, <1>3, LoopIs
  <2>2. cursor \in Addr /\ cursor \in Requested
    BY <1>1, <1>2, <2>1, CachesNumbers DEF Requested, Region, Addr
  <2>3. Store(cursor)
    BY <1>1, <1>3 DEF Instruction
  <2>4. /\ DataTypes' /\ CodeTypes' /\ older' \subseteq older /\ lost' = lost
        /\ dtag' = [dtag EXCEPT ![DIndex(Line(cursor))] = Line(cursor)]
    BY <1>1, <2>2, <2>3, StoreKeeps
  <2>5. WorkInv'
    BY <1>1, <1>2, <1>3 DEF WorkInv
  <2>6. PassedInv'
    BY <1>2, <1>3 DEF PassedInv, ByAddress, ByIndex
  <2>7. ASSUME UncachedInv PROVE UncachedInv'
    <3>1. ASSUME NEW a \in uncached PROVE dtag'[DIndex(Line(a))] # Line(a)
      <4>1. dtag[DIndex(Line(a))] # Line(a) /\ Line(a) # Line(cursor)
        BY <1>1, <2>2, <2>7 DEF UncachedInv
      <4>2. DIndex(Line(a)) \in 0 .. DLines - 1
        BY <1>1, AddressIs DEF WorkInv
      <4> QED BY <1>1, <2>4, <4>1, <4>2 DEF DataTypes
    <3> QED BY <1>1, <1>2, <2>4, <2>7, <3>1 DEF UncachedInv
  <2> QED BY <2>4, <2>5, <2>6, <2>7, <1>1 DEF CachesInv
<1>4. CASE Op # "copy"
  <2> DEFINE l == Line(cursor)
  <2>1. /\ DataTypes' /\ CodeTypes' /\ older' \subseteq older
        /\ Op = "discard" => (l \in LinesOf(Requested) => lost' = lost)
        /\ Op # "discard" => lost' = lost
        /\ Emptier(DIndex(l))
        /\ ByAddress => dtag'[DIndex(l)] # l
        /\ ByIndex => dtag'[DIndex(l)] = NoLine
        /\ Op = "flushi" =>
             dtag' = dtag /\ itag' = [itag EXCEPT ![IIndex(l)] = NoLine]
    BY <1>1, <1>2, <1>4, InstructionKeeps DEF Emptier, ByAddress, ByIndex
  <2>2. /\ l \in Nat /\ l # NoLine /\ Line(From) \in Nat /\ Line(cursor') = l + 1
        /\ DIndex(l) \in 0 .. DLines - 1 /\ IIndex(l) \in 0 .. ILines - 1
        /\ \A p \in Nat : /\ DIndex(p) \in 0 .. DLines - 1
                         /\ IIndex(p) \in 0 .. ILines - 1
    BY <1>1, <1>2, <1>4, NextLine, LineSpans, IndexOf, CachesNumbers
  <2>3. WorkInv'
    <3>1. cursor' \in Nat /\ From <= cursor'
      BY <1>1, <1>2, <1>4, CachesNumbers
    <3>2. From % LineSize = 0 => cursor' % LineSize = 0
      BY <1>1, <1>2, <1>4, StepAligned DEF WorkInv
    <3> QED BY <1>1, <1>2, <3>1, <3>2 DEF WorkInv
  <2>4. /\ \A p \in Nat : dtag[DIndex(p)] # p => dtag'[DIndex(p)] # p
        /\ \A y \in 0 .. DLines - 1 :
             dtag[y] \notin LinesOf(Requested) => dtag'[y] \notin LinesOf(Requested)
    BY <1>1, <1>2, <2>1, EmptierKeeps
  <2>5. /\ LinesOf(Requested)' = LinesOf(Requested) /\ NoLine \notin LinesOf(Requested)
        /\ LinesOf(Requested) \subseteq Nat
    BY <1>2, LinesAre DEF LinesOf
  <2>6. Passed' = Passed \cup {l} /\ Passed \subseteq Nat
    <3>1. Line(From) <= l
      BY <1>2, LinesInOrder
    <3>2. Passed = Line(From) .. l - 1 /\ Passed' = Line(From) .. l
      BY <1>2, <2>2 DEF Passed
    <3>3. \A f, c \in Nat :
            f <= c => f .. c = (f .. c - 1) \cup {c} /\ f .. c - 1 \subseteq Nat
      OBVIOUS
    <3>4. /\ Line(From) .. l = (Line(From) .. l - 1) \cup {l}
          /\ Line(From) .. l - 1 \subseteq Nat
      BY <2>2, <3>1, <3>3
    <3> QED BY <3>2, <3>4
  <2>7. PassedInv'
    <3>1. ASSUME ByAddress, NEW p \in LinesOf(Requested), p < l + 1
          PROVE  dtag'[DIndex(p)] # p
      <4>1. p < l \/ p = l
        BY <2>2, <2>5, <3>1
      <4> QED BY <1>1, <2>1, <2>4, <2>5, <3>1, <4>1 DEF PassedInv
    <3>2. ASSUME ByIndex, NEW p \in Passed'
          PROVE  dtag'[DIndex(p)] \notin LinesOf(Requested)
      BY <1>1, <2>1, <2>2, <2>4, <2>5, <2>6, <3>2 DEF PassedInv
    <3>3. ASSUME Op = "flushi"
          PROVE  /\ \A p \in Passed' : itag'[IIndex(p)] \notin LinesOf(Requested)
                 /\ dtag' = dtag
      BY <1>1, <2>1, <2>2, <2>5, <2>6, <3>3 DEF PassedInv, CodeTypes
    <3> QED BY <1>1, <1>2, <2>2, <2>5, <3>1, <3>2, <3>3
         DEF PassedInv, ByAddress, ByIndex
  <2>8. ASSUME WholeLines, UncachedInv PROVE UncachedInv'
    <3>1. ASSUME Op = "discard" PROVE l \in LinesOf(Requested)
      <4>1. From = request.start /\ To = From + request.len /\ To <= Size
        BY <1>1, <3>1, LoopIs
      <4>2. cursor \in Requested
        BY <1>1, <1>2, <4>1, CachesNumbers DEF Requested, Region, Addr
      <4> QED BY <4>2 DEF LinesOf
    <3>2. \A a \in uncached : Line(a) \in Nat
      BY <1>1, LineSpans DEF WorkInv, Addr
    <3>3. older' = {} /\ lost' = {}
      BY <2>1, <2>8, <3>1 DEF UncachedInv
    <3> QED BY <1>1, <1>2, <2>4, <2>8, <3>2, <3>3 DEF UncachedInv
  <2> QED BY <1>1, <2>1, <2>3, <2>7, <2>8 DEF CachesInv
<1> QED BY <1>3, <1>4

(* What a function leaves when its last loop is at its end.                *)
LEMMA FlushDone ==
  ASSUME CachesInv, EndLoop,
         request.fn \in {"dcache_flush", "no_writeback", "remap_uncached"},
         work # << >>
  PROVE  \A l \in LinesOf(Requested) : dtag'[DIndex(l)] # l
<1>1. /\ DataTypes /\ CodeTypes /\ WorkInv /\ PassedInv /\ cursor >= To
      /\ cursor \in Nat
      /\ From % LineSize # 0 => Instruction(Op, cursor)
      /\ From % LineSize = 0 => UNCHANGED <<data, code>>
  BY DEF EndLoop, CachesInv, WorkInv, Op, From, To
<1>2. /\ From = request.start /\ From \in Nat /\ To \in Nat /\ Op \in {"flush", "discard"}
      /\ \/ To = From + request.len
         \/ Op = "flush" /\ ~FlushAddress /\ To = From + DLines * LineSize
  BY <1>1, LoopIs DEF Shorter
<1>3. Requested \in SUBSET Addr
  BY RegionIs
<1>4. SUFFICES ASSUME NEW a \in Requested PROVE dtag'[DIndex(Line(a))] # Line(a)
  BY DEF LinesOf
<1> DEFINE l == Line(a)
           c == Line(cursor)
<1>5. /\ l \in Nat /\ l # NoLine /\ l \in LinesOf(Requested) /\ c \in Nat
      /\ DIndex(l) \in 0 .. DLines - 1 /\ Line(From) \in Nat
  BY <1>1, <1>2, <1>3, LineSpans, AddressIs, LinesAre
<1>6. Emptier(DIndex(c))
  BY <1>1, <1>2, InstructionKeeps DEF Emptier, data
<1>7. dtag[DIndex(l)] # l => dtag'[DIndex(l)] # l
  BY <1>1, <1>5, <1>6, EmptierKeeps
<1>8. CASE To = From + request.len
  <2>1. l \in Passed \/ (From % LineSize # 0 /\ l = c)
    BY <1>1, <1>2, <1>8, AllPassed
  <2>2. CASE l \in Passed
    <3>1. l < c
      BY <1>5, <2>2 DEF Passed
    <3>2. dtag[DIndex(l)] # l
      BY <1>1, <1>2, <1>5, <2>2, <3>1 DEF PassedInv, ByAddress, ByIndex
    <3> QED BY <1>7, <3>2
  <2>3. CASE From % LineSize # 0 /\ l = c
    <3>1. Instruction(Op, cursor)
      BY <1>1, <2>3
    <3>2. dtag'[DIndex(c)] # c \/ dtag'[DIndex(c)] = NoLine
      BY <1>1, <1>2, <3>1, InstructionKeeps
    <3> QED BY <1>5, <2>3, <3>2
  <2> QED BY <2>1, <2>2, <2>3
<1>9. CASE Op = "flush" /\ ~FlushAddress /\ To = From + DLines * LineSize
  <2>1. PICK p \in Passed : DIndex(p) = DIndex(l)
    <3>1. PICK f \in Nat, e \in Nat, m \in Nat : f = From /\ e = cursor /\ m = l
      BY <1>1, <1>2, <1>5
    <3>2. f + DLines * LineSize <= e
      BY <1>1, <1>9, <3>1
    <3>3. \E p \in Nat : Line(f) <= p /\ p < Line(e) /\ p % DLines = m % DLines
      BY <3>2, CachePassed
    <3> QED BY <1>1, <1>2, <3>1, <3>3, LineSpans DEF Passed, DIndex
  <2>2. dtag[DIndex(l)] # l
    BY <1>1, <1>5, <1>9, <2>1 DEF PassedInv, ByIndex
  <2> QED BY <1>7, <2>2
<1> QED BY <1>2, <1>8, <1>9

(* The same of the instruction cache: none of the region is in it.         *)
LEMMA CodeDone ==
  ASSUME CachesInv, EndLoop, work # << >>, Op = "flushi"
  PROVE  /\ \A l \in LinesOf(Requested) : itag'[IIndex(l)] # l
         /\ request.fn = "load" =>
              \A x \in 0 .. DLines - 1 : dtag'[x] \notin LinesOf(Requested)
<1>1. /\ DataTypes /\ CodeTypes /\ WorkInv /\ PassedInv /\ cursor >= To
      /\ cursor \in Nat
      /\ From % LineSize # 0 => Instruction(Op, cursor)
      /\ From % LineSize = 0 => UNCHANGED <<data, code>>
  BY DEF EndLoop, CachesInv, WorkInv, Op, From, To
<1>2. /\ From \in Nat /\ To \in Nat
      /\ \/ From = request.start /\ To = From + request.len
         \/ To = From + ILines * LineSize
  BY <1>1, CachesNumbers, LoopIs DEF Shorter
<1>3. Requested \in SUBSET Addr
  BY RegionIs
<1> DEFINE c == Line(cursor)
<1>4. c \in Nat /\ IIndex(c) \in 0 .. ILines - 1
  BY <1>1, LineSpans, IndexOf
<1>5. /\ dtag' = dtag
      /\ itag' = itag \/ itag' = [itag EXCEPT ![IIndex(c)] = NoLine]
      /\ From % LineSize # 0 => itag' = [itag EXCEPT ![IIndex(c)] = NoLine]
  BY <1>1, InstructionKeeps DEF data, code
<1>6. ASSUME NEW a \in Requested PROVE itag'[IIndex(Line(a))] # Line(a)
  <2> DEFINE l == Line(a)
  <2>1. /\ l \in Nat /\ l # NoLine /\ l \in LinesOf(Requested)
        /\ IIndex(l) \in 0 .. ILines - 1
    BY <1>3, <1>6, LineSpans, AddressIs, LinesAre
  <2>2. itag'[IIndex(l)] \in {itag[IIndex(l)], NoLine}
    BY <1>1, <1>5, <2>1 DEF CodeTypes
  <2>3. CASE From = request.start /\ To = From + request.len
    <3>1. l \in Passed \/ (From % LineSize # 0 /\ l = c)
      BY <1>1, <1>2, <2>3, AllPassed
    <3>2. l \in Passed => itag[IIndex(l)] # l
      BY <1>1, <2>1 DEF PassedInv
    <3>3. From % LineSize # 0 /\ l = c => itag'[IIndex(l)] = NoLine
      BY <1>1, <1>4, <1>5 DEF CodeTypes
    <3> QED BY <2>1, <2>2, <3>1, <3>2, <3>3
  <2>4. CASE To = From + ILines * LineSize
    <3>1. PICK p \in Passed : IIndex(p) = IIndex(l)
      <4>1. PICK f \in Nat, e \in Nat, m \in Nat : f = From /\ e = cursor /\ m = l
        BY <1>1, <1>2, <2>1
      <4>2. f + ILines * LineSize <= e
        BY <1>1, <2>4, <4>1
      <4>3. \E p \in Nat : Line(f) <= p /\ p < Line(e) /\ p % ILines = m % ILines
        BY <4>2, CachePassed
      <4> QED BY <1>1, <1>2, <4>1, <4>3, LineSpans DEF Passed, IIndex
    <3>2. itag[IIndex(l)] # l
      BY <1>1, <2>1, <3>1 DEF PassedInv
    <3> QED BY <2>1, <2>2, <3>2
  <2> QED BY <1>2, <2>3, <2>4
<1> QED BY <1>1, <1>5, <1>6 DEF LinesOf, PassedInv

(* Blocks that are whole lines share no line with what is around them.     *)
LEMMA BlocksShareNoLine ==
  ASSUME NEW start \in Addr, NEW len \in Nat, OnLines(start, len),
         NEW a \in Region(start, len), NEW b \in Addr, Line(b) = Line(a)
  PROVE  b \in Region(start, len)
<1>1. /\ LineSize \in Nat \ {0} /\ start \in Nat /\ a \in Nat /\ b \in Nat
      /\ start <= a /\ a < start + len
  BY CachesNumbers DEF Addr, Region
<1>2. PICK e \in Nat : e = start + len
  BY <1>1
<1>3. e % LineSize = 0
  <2>1. start % LineSize = 0 /\ len % LineSize = 0
    BY DEF OnLines
  <2>2. PICK k \in Int : k = len \div LineSize
    BY <1>1
  <2>3. len = LineSize * k
    <3>1. len = LineSize * Line(len) /\ k = Line(len)
      BY <2>1, <2>2, LineSpans DEF Line
    <3> QED BY <3>1
  <2>4. e = start + LineSize * k
    BY <1>2, <2>3
  <2>5. e % LineSize = start % LineSize
    BY <1>1, <2>4, SameRemainder
  <2> QED BY <2>1, <2>5
<1>4. ~ (e <= b)
  <2> SUFFICES ASSUME e <= b PROVE FALSE
    OBVIOUS
  <2>1. Line(a) < Line(e)
    BY <1>1, <1>2, <1>3, LinesBefore
  <2>2. Line(e) <= Line(b) /\ Line(a) \in Nat /\ Line(e) \in Nat
    BY <1>1, LinesInOrder, LineSpans
  <2> QED BY <2>1, <2>2
<1>5. ~ (b < start)
  <2> SUFFICES ASSUME b < start PROVE FALSE
    OBVIOUS
  <2>1. Line(b) < Line(start)
    BY <1>1, LinesBefore DEF OnLines
  <2>2. Line(start) <= Line(a) /\ Line(a) \in Nat /\ Line(start) \in Nat
    BY <1>1, LinesInOrder, LineSpans
  <2> QED BY <2>1, <2>2
<1> QED BY <1>1, <1>2, <1>4, <1>5 DEF Region

(* ... or is at its end, and the function goes on or returns, ...          *)
LEMMA EndLoopKeeps ==
  ASSUME CachesInv, EndLoop
  PROVE  CachesInv'
<1> DEFINE l == Line(cursor)
<1>1. /\ work # << >> /\ cursor >= To /\ cursor \in Nat
      /\ From % LineSize # 0 => Instruction(Op, cursor)
      /\ From % LineSize = 0 => UNCHANGED <<data, code>>
      /\ work' = Tail(work)
      /\ cursor' = IF Len(work) > 1 THEN work[2].start ELSE 0
      /\ request' = IF Len(work) > 1 THEN request ELSE NoRequest
      /\ uncached' = IF request.fn = "remap_uncached" THEN uncached \cup Requested
                     ELSE uncached
      /\ DataTypes /\ CodeTypes /\ WorkInv /\ PassedInv
      /\ Requested \in SUBSET Addr
  BY RegionIs DEF EndLoop, Returns, CachesInv, Op, From, To, WorkInv, Requested
<1>2. From % LineSize # 0 => Op # "copy" /\ (WholeLines => Op # "discard")
  BY <1>1, LoopIs DEF WorkInv, OnLines
<1>3. /\ DataTypes' /\ CodeTypes' /\ older' \subseteq older /\ Emptier(DIndex(l))
      /\ WholeLines => lost' = lost
  <2>1. CASE From % LineSize # 0
    BY <1>1, <1>2, <2>1, InstructionKeeps DEF Emptier
  <2>2. CASE From % LineSize = 0
    BY <1>1, <2>2 DEF data, code, DataTypes, CodeTypes, Emptier
  <2> QED BY <2>1, <2>2
<1>4. \A p \in Nat : dtag[DIndex(p)] # p => dtag'[DIndex(p)] # p
  BY <1>1, <1>3, EmptierKeeps
<1>5. CASE Len(work) = 1 /\ Tail(work) = << >>
  <2>1. work' = << >> /\ cursor' = 0
    BY <1>1, <1>5
  <2>2. WorkInv'
    BY <1>1, <2>1 DEF WorkInv
  <2>3. PassedInv'
    BY <2>1 DEF PassedInv
  <2>4. ASSUME WholeLines, UncachedInv PROVE UncachedInv'
    <3>1. older' = {} /\ lost' = {}
      BY <1>3, <2>4 DEF UncachedInv
    <3>2. ASSUME NEW a \in uncached
          PROVE  dtag'[DIndex(Line(a))] # Line(a) /\ Line(a) \in Nat
      <4>1. Line(a) \in Nat
        BY <1>1, <3>2, LineSpans DEF WorkInv, Addr
      <4> QED BY <1>4, <2>4, <3>2, <4>1 DEF UncachedInv
    <3>3. ASSUME request.fn = "remap_uncached", NEW a \in Requested
          PROVE  /\ dtag'[DIndex(Line(a))] # Line(a)
                 /\ \A b \in Addr : Line(b) = Line(a) => b \in Requested
      <4>1. Line(a) \in LinesOf(Requested)
        BY DEF LinesOf
      <4>2. dtag'[DIndex(Line(a))] # Line(a)
        BY <1>1, <3>3, <4>1, FlushDone
      <4>3. /\ OnLines(request.start, request.len) /\ request.start \in Addr
            /\ request.len \in Nat
        BY <1>1, <2>4, <3>3 DEF WorkInv
      <4> QED BY <3>3, <4>2, <4>3, BlocksShareNoLine DEF Requested
    <3> QED BY <1>1, <2>1, <2>4, <3>1, <3>2, <3>3 DEF UncachedInv
  <2> QED BY <1>3, <2>2, <2>3, <2>4 DEF CachesInv
<1>6. CASE Len(work) \in {2, 3}
  <2>1. /\ request.fn = "load" /\ request' = request /\ uncached' = uncached
        /\ cursor' = 0 /\ Requested' = Requested /\ work' = Tail(work)
    <3>1. request.fn = "load" /\ work[2].start = 0 /\ Len(work) > 1
      <4>1. Len(work) = 1 \/ (request.fn = "load" /\ work[2].start = 0)
        BY <1>1, LoopIs
      <4> QED BY <1>6, <4>1
    <3> QED BY <1>1, <3>1 DEF Requested
  <2>2. /\ alt_icache_flush_all.start = 0 /\ alt_icache_flush_all.op = "flushi"
        /\ alt_dcache_flush_all.start = 0 /\ alt_dcache_flush_all.op = "flushd"
    BY DEF alt_icache_flush_all, alt_icache_flush, alt_dcache_flush_all, Sweep
  <2>3. 0 % LineSize = 0
    BY CachesNumbers
  <2>4. ASSUME WholeLines, UncachedInv PROVE UncachedInv'
    <3>1. \A a \in uncached : Line(a) \in Nat
      BY <1>1, LineSpans DEF WorkInv, Addr
    <3> QED BY <1>1, <1>3, <1>4, <2>1, <2>4, <3>1 DEF UncachedInv
  <2>5. CASE Len(work) = 3
    <3>1. work' = <<alt_dcache_flush_all, alt_icache_flush_all>>
      BY <1>1, <2>1, <2>5, LoopIs
    <3>2. work' # << >> /\ Head(work') = alt_dcache_flush_all
      BY <3>1
    <3>3. From' = 0 /\ Op' = "flushd"
      BY <2>2, <3>2 DEF From, Op
    <3>4. WorkInv'
      <4>1. work' \in {<<alt_dcache_flush_all, alt_icache_flush_all>>,
                       <<alt_icache_flush_all>>}
        BY <3>1
      <4>2. /\ cursor' \in Nat /\ uncached' \subseteq Addr /\ From' <= cursor'
            /\ cursor' % LineSize = 0
        BY <1>1, <2>1, <2>3, <3>3 DEF WorkInv
      <4>3. /\ request' \in [fn : Called, start : Addr, len : Nat]
            /\ request'.start + request'.len <= Size
            /\ OnLines(request'.start, request'.len) /\ request'.fn = "load"
        BY <1>1, <2>1 DEF WorkInv
      <4> QED BY <4>1, <4>2, <4>3 DEF WorkInv
    <3>5. Passed' = {}
      BY <2>1, <3>3, LinesEmpty DEF Passed
    <3>6. PassedInv'
      BY <3>3, <3>5 DEF PassedInv, ByAddress
    <3> QED BY <1>1, <1>3, <2>4, <3>4, <3>6 DEF CachesInv
  <2>6. CASE Len(work) = 2
    <3>1. /\ work' = <<alt_icache_flush_all>> /\ Op = "flushd" /\ From = 0
          /\ To = DLines * LineSize
      BY <1>1, <2>1, <2>6, LoopIs
    <3>2. work' # << >> /\ Head(work') = alt_icache_flush_all
      BY <3>1
    <3>3. From' = 0 /\ Op' = "flushi"
      BY <2>2, <3>2 DEF From, Op
    <3>4. WorkInv'
      <4>1. work' \in {<<alt_dcache_flush_all, alt_icache_flush_all>>,
                       <<alt_icache_flush_all>>}
        BY <3>1
      <4>2. /\ cursor' \in Nat /\ uncached' \subseteq Addr /\ From' <= cursor'
            /\ cursor' % LineSize = 0
        BY <1>1, <2>1, <2>3, <3>3 DEF WorkInv
      <4>3. /\ request' \in [fn : Called, start : Addr, len : Nat]
            /\ request'.start + request'.len <= Size
            /\ OnLines(request'.start, request'.len) /\ request'.fn = "load"
        BY <1>1, <2>1 DEF WorkInv
      <4> QED BY <4>1, <4>2, <4>3 DEF WorkInv
    <3>5. Passed' = {}
      BY <2>1, <3>3, LinesEmpty DEF Passed
    <3>6. dtag' = dtag
      BY <1>1, <2>3, <3>1 DEF data
    <3>7. ASSUME NEW x \in 0 .. DLines - 1 PROVE dtag[x] \notin LinesOf(Requested)
      <4>0. DLines \in Nat \ {0}
        BY CachesNumbers
      <4>1. PICK e \in Nat, f \in Nat, m \in Nat : e = cursor /\ f = 0 /\ m = x
        <5>1. cursor \in Nat /\ x \in Nat /\ 0 \in Nat
          BY <1>1, <4>0
        <5> QED BY <5>1
      <4>2. f + DLines * LineSize <= e
        BY <1>1, <3>1, <4>1, CachesNumbers
      <4>3. PICK p \in Nat : Line(f) <= p /\ p < Line(e) /\ p % DLines = m % DLines
        BY <4>2, CachePassed
      <4>4. p \in Passed
        BY <1>1, <3>1, <4>1, <4>3, LineSpans DEF Passed
      <4>5. DIndex(p) = x
        BY <4>0, <4>1, <4>3 DEF DIndex
      <4> QED BY <1>1, <3>1, <4>4, <4>5 DEF PassedInv, ByIndex
    <3>8. PassedInv'
      <4>1. LinesOf(Requested)' = LinesOf(Requested)
        BY <2>1 DEF LinesOf
      <4> QED BY <3>3, <3>5, <3>6, <3>7, <4>1 DEF PassedInv, ByAddress, ByIndex
    <3> QED BY <1>1, <1>3, <2>4, <3>4, <3>8 DEF CachesInv
  <2> QED BY <1>6, <2>5, <2>6
<1> QED BY <1>1, <1>5, <1>6, LoopIs

(* ... a block is used through the cache again, ...                        *)
LEMMA RemapCachedKeeps ==
  ASSUME CachesInv, NEW start \in Addr, NEW len \in 0 .. MaxRange,
         alt_remap_cached(start, len)
  PROVE  CachesInv'
<1>1. /\ work = << >> /\ uncached' = uncached \ Region(start, len)
      /\ WholeLines => OnLines(start, len)
      /\ UNCHANGED <<dtag, dirty, older, lost, itag, istale, request, work, cursor>>
      /\ Region(start, len) \subseteq uncached /\ len \in Nat
  BY CachesAssumption DEF alt_remap_cached, data, code
<1>2. WorkInv' /\ PassedInv'
  BY <1>1 DEF CachesInv, WorkInv, PassedInv
<1>3. ASSUME WholeLines, UncachedInv PROVE UncachedInv'
  <2>1. ASSUME NEW a \in uncached \ Region(start, len), NEW b \in Addr, Line(b) = Line(a)
        PROVE  b \in uncached \ Region(start, len)
    <3>1. a \in Addr /\ b \in uncached
      BY <1>3, <2>1 DEF UncachedInv, CachesInv, WorkInv
    <3>2. b \notin Region(start, len)
      <4> SUFFICES ASSUME b \in Region(start, len) PROVE FALSE
        OBVIOUS
      <4> QED BY <1>1, <1>3, <2>1, <3>1, BlocksShareNoLine
    <3> QED BY <3>1, <3>2
  <2> QED BY <1>1, <1>3, <2>1 DEF UncachedInv
<1> QED BY <1>1, <1>2, <1>3 DEF CachesInv, DataTypes, CodeTypes

(* What happens between the calls, and what handlers do meanwhile, is not  *)
(* at the lines of the region.                                             *)
LEMMA UsableIs ==
  ASSUME CachesInv, NEW a \in Usable
  PROVE  /\ a \in Addr /\ a \notin uncached
         /\ work # << >> => request.fn # "load" /\ Line(a) \notin LinesOf(Requested)
  BY DEF Usable, Requested, CachesInv, WorkInv

(* A line that is taken into the data cache from there.                    *)
LEMMA TakenIn ==
  ASSUME CachesInv, NEW a \in Usable, DataTypes', CodeTypes',
         dtag' = dtag \/ dtag' = [dtag EXCEPT ![DIndex(Line(a))] = Line(a)],
         itag' = itag \/ itag' = [itag EXCEPT ![IIndex(Line(a))] = Line(a)],
         older' \subseteq older, lost' = lost,
         UNCHANGED <<uncached, request, work, cursor>>
  PROVE  CachesInv'
<1> DEFINE t == Line(a)
<1>1. /\ a \in Addr /\ a \notin uncached /\ t \in Nat
      /\ work # << >> => request.fn # "load" /\ t \notin LinesOf(Requested)
      /\ DIndex(t) \in 0 .. DLines - 1 /\ IIndex(t) \in 0 .. ILines - 1
      /\ Requested \in SUBSET Addr /\ Requested' = Requested
      /\ LinesOf(Requested)' = LinesOf(Requested)
  BY UsableIs, LineSpans, IndexOf, RegionIs DEF Addr, Requested, LinesOf
<1>2. WorkInv' /\ WorkInv /\ PassedInv /\ DataTypes /\ CodeTypes
  BY DEF WorkInv, CachesInv, Op, From
<1>3. /\ \A x \in 0 .. DLines - 1 : dtag'[x] \in {dtag[x], t}
      /\ \A x \in 0 .. ILines - 1 : itag'[x] \in {itag[x], t}
  BY <1>1, <1>2 DEF DataTypes, CodeTypes
<1>4. /\ LinesOf(Requested) \subseteq Nat
      /\ \A p \in Nat : DIndex(p) \in 0 .. DLines - 1 /\ IIndex(p) \in 0 .. ILines - 1
  BY <1>1, LinesAre, IndexOf
<1>5. PassedInv'
  <2>1. CASE work = << >>
    BY <2>1 DEF PassedInv
  <2>2. CASE work # << >>
    <3>1. Passed' = Passed /\ Passed \subseteq Nat /\ Op' = Op /\ Line(cursor)' = Line(cursor)
      <4>1. Line(From) \in Nat /\ Line(cursor) \in Nat
        BY <1>2, <2>2, LoopIs, LineSpans DEF WorkInv
      <4> QED BY <4>1 DEF Passed, Op, From
    <3>2. \A p \in LinesOf(Requested) : dtag[DIndex(p)] # p => dtag'[DIndex(p)] # p
      BY <1>1, <1>3, <1>4, <2>2
    <3>3. \A x \in 0 .. DLines - 1 :
            dtag[x] \notin LinesOf(Requested) => dtag'[x] \notin LinesOf(Requested)
      BY <1>1, <1>3, <2>2
    <3>4. \A x \in 0 .. ILines - 1 :
            itag[x] \notin LinesOf(Requested) => itag'[x] \notin LinesOf(Requested)
      BY <1>1, <1>3, <2>2
    <3> QED BY <1>1, <1>2, <1>4, <2>2, <3>1, <3>2, <3>3, <3>4
         DEF PassedInv, ByAddress, ByIndex
  <2> QED BY <2>1, <2>2
<1>6. ASSUME UncachedInv PROVE UncachedInv'
  <2>1. ASSUME NEW b \in uncached PROVE dtag'[DIndex(Line(b))] # Line(b)
    <3>1. b \in Addr /\ dtag[DIndex(Line(b))] # Line(b) /\ Line(b) # t
      BY <1>1, <1>2, <1>6, <2>1 DEF UncachedInv, WorkInv
    <3>2. DIndex(Line(b)) \in 0 .. DLines - 1
      BY <3>1, AddressIs
    <3> QED BY <1>3, <3>1, <3>2
  <2> QED BY <1>1, <1>6, <2>1 DEF UncachedInv
<1> QED BY <1>2, <1>5, <1>6 DEF CachesInv

(* ... or the program or a handler reads, writes or runs.                  *)
LEMMA AccessKeeps == ASSUME CachesInv, Access PROVE CachesInv'
<1>1. /\ DataTypes /\ CodeTypes /\ uncached \subseteq Addr
      /\ UNCHANGED <<uncached, request, work, cursor>>
  BY DEF CachesInv, WorkInv, Access
<1>2. ASSUME NEW a \in Usable, Store(a) PROVE CachesInv'
  BY <1>1, <1>2, UsableIs, StoreKeeps, TakenIn
<1>3. ASSUME NEW t \in LinesOf(Usable), Fill(t), UNCHANGED code PROVE CachesInv'
  <2>1. PICK a \in Usable : t = Line(a)
    BY DEF LinesOf
  <2>2. a \in Addr /\ t \in LinesOf(Addr) /\ t \in Nat /\ DIndex(t) \in 0 .. DLines - 1
    BY <2>1, UsableIs, AddressIs
  <2>3. CodeTypes' /\ itag' = itag
    BY <1>1, <1>3 DEF code, CodeTypes
  <2>4. CASE dtag[DIndex(t)] = t
    <3>1. UNCHANGED <<dtag, dirty, older, lost>>
      BY <1>3, <2>4 DEF Fill, data
    <3> QED BY <1>1, <2>1, <2>3, <3>1, TakenIn DEF DataTypes
  <2>5. CASE dtag[DIndex(t)] # t
    <3>1. Replace(DIndex(t), t)
      BY <1>3, <2>5 DEF Fill
    <3>2. DataTypes' /\ older' \subseteq older
      BY <1>1, <2>2, <3>1, ReplaceKeeps
    <3> QED BY <1>1, <2>1, <2>3, <3>1, <3>2, TakenIn DEF Replace
  <2> QED BY <2>4, <2>5
<1>4. ASSUME NEW t \in LinesOf(Usable), Fetch(t), UNCHANGED data PROVE CachesInv'
  <2>1. PICK a \in Usable : t = Line(a)
    BY DEF LinesOf
  <2>2. /\ a \in Addr /\ t \in LinesOf(Addr) /\ t \in Nat /\ t # NoLine
        /\ IIndex(t) \in 0 .. ILines - 1
    BY <2>1, UsableIs, AddressIs
  <2>3. /\ itag' = [itag EXCEPT ![IIndex(t)] = t]
        /\ istale' \subseteq istale \cup {IIndex(t)}
    BY <1>4 DEF Fetch
  <2>4. CodeTypes'
    BY <1>1, <2>2, <2>3 DEF CodeTypes
  <2>5. UNCHANGED <<dtag, dirty, older, lost>> /\ DataTypes'
    BY <1>1, <1>4 DEF data, DataTypes
  <2> QED BY <1>1, <2>1, <2>3, <2>4, <2>5, TakenIn
<1>5. ASSUME NEW a \in uncached, StoreUncached(a), UNCHANGED code PROVE CachesInv'
  <2>1. /\ dtag' = dtag /\ lost' = lost /\ dirty' = dirty \ {a}
        /\ older' = IF dtag[DIndex(Line(a))] = Line(a) THEN older \cup {a} ELSE older
        /\ itag' = itag /\ istale' = istale
    BY <1>5 DEF StoreUncached, code
  <2>2. DataTypes' /\ CodeTypes'
    BY <1>1, <1>5, <2>1 DEF DataTypes, CodeTypes
  <2>3. WorkInv' /\ PassedInv'
    BY <1>1, <2>1 DEF CachesInv, WorkInv, PassedInv, Op, From, Passed, ByAddress, ByIndex,
                      Requested, LinesOf
  <2>4. UncachedInv => UncachedInv'
    BY <1>1, <1>5, <2>1 DEF UncachedInv, Requested
  <2> QED BY <2>2, <2>3, <2>4 DEF CachesInv
<1> QED BY <1>2, <1>3, <1>4, <1>5 DEF Access

LEMMA CachesNext_Inv == ASSUME CachesInv, [CachesNext]_cachesVars PROVE CachesInv'
<1>1. CASE UNCHANGED cachesVars
  BY <1>1 DEF cachesVars, data, code, CachesInv, DataTypes, CodeTypes, WorkInv, PassedInv,
              UncachedInv, Op, From, Passed, ByAddress, ByIndex, Requested
<1> QED
  BY <1>1, CallFunctionKeeps, RemapCachedKeeps, IterateKeeps, EndLoopKeeps, AccessKeeps
  DEF CachesNext

LEMMA CachesAlwaysInv == CachesSpec => []CachesInv
<1>1. CachesInv /\ [CachesNext]_cachesVars => CachesInv'
  BY CachesNext_Inv
<1> QED BY CachesInit_Inv, <1>1, PTL DEF CachesSpec

LEMMA CachesInv_TypeOK == CachesInv => CachesTypeOK
  BY DEF CachesInv, DataTypes, CodeTypes, WorkInv, CachesTypeOK

(* A function returns at the end of its last loop only.                    *)
LEMMA ReturnsAtEnd ==
  ASSUME [CachesNext]_cachesVars, work # << >>, work' = << >>
  PROVE  EndLoop
  BY DEF CachesNext, CallFunction, alt_remap_cached, Iterate, Access, cachesVars

LEMMA FlushReturns ==
  ASSUME CachesInv, [CachesNext]_cachesVars, work # << >>, work' = << >>,
         request.fn \in {"dcache_flush", "no_writeback"}
  PROVE  /\ Requested \cap dirty' = {}
         /\ \A l \in LinesOf(Requested) : dtag'[DIndex(l)] # l
<1>1. EndLoop
  BY ReturnsAtEnd
<1>2. \A l \in LinesOf(Requested) : dtag'[DIndex(l)] # l
  BY <1>1, FlushDone
<1>3. DataTypes'
  BY <1>1, EndLoopKeeps DEF CachesInv
<1>4. ASSUME NEW a \in Requested PROVE a \notin dirty'
  BY <1>2, <1>3 DEF DataTypes, LinesOf
<1> QED BY <1>2, <1>4

LEMMA CodeReturns ==
  ASSUME CachesInv, [CachesNext]_cachesVars, work # << >>, work' = << >>,
         request.fn \in {"icache_flush", "load"}
  PROVE  \A l \in LinesOf(Requested) :
           /\ itag'[IIndex(l)] = l => IIndex(l) \notin istale'
           /\ request.fn = "load" => dirty' \cap Bytes(l) = {}
<1>1. EndLoop
  BY ReturnsAtEnd
<1>2. WorkInv /\ Tail(work) = << >>
  BY <1>1 DEF EndLoop, Returns, CachesInv
<1>3. Op = "flushi"
  <2>1. Tail(work) # <<alt_icache_flush_all>>
    BY <1>2
  <2>2. Tail(work) # <<alt_dcache_flush_all, alt_icache_flush_all>>
    BY <1>2
  <2> QED BY <1>2, <2>1, <2>2, LoopIs
<1>4. /\ \A l \in LinesOf(Requested) : itag'[IIndex(l)] # l
      /\ request.fn = "load" =>
           \A x \in 0 .. DLines - 1 : dtag'[x] \notin LinesOf(Requested)
  BY <1>1, <1>3, CodeDone
<1>5. DataTypes'
  BY <1>1, EndLoopKeeps DEF CachesInv
<1>6. ASSUME request.fn = "load", NEW l \in LinesOf(Requested)
      PROVE  dirty' \cap Bytes(l) = {}
  <2> SUFFICES ASSUME NEW a \in dirty', Line(a) = l PROVE FALSE
    BY DEF Bytes
  <2>1. a \in Nat /\ dtag'[DIndex(Line(a))] = Line(a)
    BY <1>5 DEF DataTypes, Addr
  <2>2. DIndex(Line(a)) \in 0 .. DLines - 1
    BY <2>1, LineSpans, IndexOf
  <2> QED BY <1>4, <1>6, <2>1, <2>2
<1> QED BY <1>4, <1>6

(* For every size of the caches and of the memory, however the regions lie *)
(* to the lines and whatever handlers do meanwhile: when a function of     *)
(* alt_dcache_flush*.c, alt_icache_flush.c or alt_load.c returns, what it  *)
(* is called for is done.                                                  *)
THEOREM CachesFlushed ==
  CachesSpec => []CachesTypeOK /\ RegionFlushed /\ CodeCurrent
<1>1. CachesInv /\ [CachesNext]_cachesVars =>
        [work # << >> /\ work' = << >>
           /\ request.fn \in {"dcache_flush", "no_writeback"} =>
             /\ Requested \cap dirty' = {}
             /\ \A l \in LinesOf(Requested) : dtag'[DIndex(l)] # l]_cachesVars
  BY FlushReturns
<1>2. CachesInv /\ [CachesNext]_cachesVars =>
        [work # << >> /\ work' = << >>
           /\ request.fn \in {"icache_flush", "load"} =>
             \A l \in LinesOf(Requested) :
               /\ itag'[IIndex(l)] = l => IIndex(l) \notin istale'
               /\ request.fn = "load" => dirty' \cap Bytes(l) = {}]_cachesVars
  BY CodeReturns
<1> QED BY <1>1, <1>2, CachesAlwaysInv, CachesInv_TypeOK, PTL
     DEF CachesSpec, RegionFlushed, CodeCurrent

(* Where the blocks that are discarded or remapped are whole lines,        *)
(* nothing outside of them is discarded and the data cache never writes an *)
(* old value over one that went past it: all that the runs check.          *)
THEOREM CachesAlwaysRight ==
  ASSUME WholeLines
  PROVE  CachesSpec => CachesRight
<1>1. CachesInv => RegionOnly /\ UncachedIsNewest
  BY DEF CachesInv, UncachedInv, RegionOnly, UncachedIsNewest
<1> QED BY <1>1, CachesFlushed, CachesAlwaysInv, PTL DEF CachesRight
-----------------------------------------------------------------------------
(* The profiler.                                                           *)

(* Types.                                                                  *)
Places == {"find", "walk", "load", "store", "record", "clear", "rate", "buffer",
           "start", "started", "disable", "function", "arc", "enable", "return"}
Counting == [pc : Places, self : {a[1] : a \in Arcs}, from : {a[2] : a \in Arcs},
             fn : Nat, arc : Nat, count : Nat, context : BOOLEAN, handler : BOOLEAN]
Entry == [self : {a[1] : a \in Arcs},
          arcs : Seq([from : {a[2] : a \in Arcs}, count : Nat \ {0}])]
ArcOf(c) == <<c.self, c.from>>

McountTyped ==
  /\ mcounts \in Seq(Counting) /\ fns \in Seq(Entry) /\ made \in [Arcs -> Nat]
  /\ enabled \in BOOLEAN /\ need_init \in BOOLEAN /\ ticking \in BOOLEAN
  /\ slab \in 0 .. Slab /\ memory \in 0 .. Memory /\ alarms \in Nat
  /\ samples \in {"null", "buffer", "failed"} /\ handler_arcs \in HandlerArcs
  /\ \A k \in 1 .. Len(mcounts) : ArcOf(mcounts[k]) \in Arcs

(* A call that starts the sampler is the only one, from the check of the   *)
(* clock on, that does.                                                    *)
Sampling == {"rate", "buffer", "start", "started"}
SamplerInv ==
  /\ alarms > 0 => samples # "null" /\ ticking
  /\ \A k \in 1 .. Len(mcounts) :
       /\ mcounts[k].pc \in {"buffer", "start", "started"} => ticking
       /\ mcounts[k].pc \in {"start", "started"} => samples # "null"
       /\ mcounts[k].pc \in Sampling =>
            /\ ~ need_init
            /\ \A j \in k + 1 .. Len(mcounts) :
                 mcounts[j].pc \notin Sampling \cup {"clear"}

(* Whose call it is.  Interrupts are off in handlers and around a change.  *)
Changing == {"function", "arc", "enable"}
HandlerRuns == \E k \in 1 .. Len(mcounts) : mcounts[k].handler
NestInv ==
  /\ enabled <=> ~ HandlerRuns /\ (mcounts = << >> \/ Top.pc \notin Changing)
  /\ \A k \in 1 .. Len(mcounts) :
       /\ mcounts[k].handler =>
            /\ ArcOf(mcounts[k]) \in handler_arcs
            /\ \A j \in 1 .. Len(mcounts) : mcounts[j].handler => j = k
       /\ ~ mcounts[k].handler =>
            IF k = 1 THEN ArcOf(mcounts[k]) \in ProgramArcs
            ELSE mcounts[k - 1].pc = "started" /\ ArcOf(mcounts[k]) = InitArc
       /\ mcounts[k].pc \in Changing =>
            k = Len(mcounts) /\ (mcounts[k].context <=> ~ HandlerRuns)

(* A list has an arc; a call has found what it looked for.                 *)
HasArc(l, a) ==
  \E f \in 1 .. Len(l) :
    l[f].self = a[1] /\ \E k \in 1 .. Len(l[f].arcs) : l[f].arcs[k].from = a[2]
FoundIn(l, c) ==
  /\ c.fn # 0 => c.fn \in 1 .. Len(l) /\ l[c.fn].self = c.self
  /\ c.pc \in {"walk", "load", "store", "arc"} => c.fn # 0
  /\ c.pc \in {"load", "store"} =>
       /\ c.arc \in 1 .. Len(l[c.fn].arcs)
       /\ l[c.fn].arcs[c.arc].from = c.from
  /\ c.pc \in {"enable", "return"} => HasArc(l, ArcOf(c))
CellInv ==
  /\ \A k \in 1 .. Len(mcounts) : FoundIn(fns, mcounts[k])
  /\ \A a \in Arcs : made[a] > 0 => HasArc(fns, a)
  /\ \A f \in 1 .. Len(fns) :
       Len(fns[f].arcs) = 0 => InMcount("arc") /\ Top.fn = f

(* A count that was loaded is at most the one in the list, and a call that *)
(* came in between has loaded no less.                                     *)
CountOf(l, c) == l[c.fn].arcs[c.arc].count
LoadedInv ==
  \A k \in 1 .. Len(mcounts) : mcounts[k].pc = "store" =>
    /\ mcounts[k].count <= CountOf(fns, mcounts[k])
    /\ OwnArcs => mcounts[k].count = CountOf(fns, mcounts[k])
    /\ \A j \in k + 1 .. Len(mcounts) :
         /\ mcounts[j].pc = "store"
         /\ mcounts[j].fn = mcounts[k].fn /\ mcounts[j].arc = mcounts[k].arc
         => mcounts[j].count >= mcounts[k].count

(* The counts add up to the calls.                                         *)
ListedIn(l, a) ==
  UNION {{f} \X {k \in DOMAIN l[f].arcs : l[f].arcs[k].from = a[2]} :
           f \in {g \in DOMAIN l : l[g].self = a[1]}}
CountsIn(l, a) ==
  UNION {{c} \X (1 .. l[c[1]].arcs[c[2]].count) : c \in ListedIn(l, a)}
PendingIn(m, a) ==
  {k \in DOMAIN m : /\ <<m[k].self, m[k].from>> = a
                    /\ m[k].pc \in {"enable", "return"}}
Sums(n, m, p) == n <= m + p /\ (OwnArcs => n = m + p)
CountInv ==
  \A a \in Arcs :
    /\ IsFiniteSet(CountsIn(fns, a))
    /\ Sums(Cardinality(CountsIn(fns, a)), made[a], Cardinality(PendingIn(mcounts, a)))

GmonInv == McountTyped /\ SamplerInv /\ NestInv /\ CellInv /\ LoadedInv /\ CountInv
-----------------------------------------------------------------------------
(* Searches find what they look for.                                       *)
LEMMA Greatest ==
  ASSUME NEW n \in Nat, NEW S \in SUBSET (1 .. n), S # {}
  PROVE  Max(S) \in S
<1> DEFINE T == {m \in Nat : n - m \in S}
<1>1. T \in SUBSET Nat /\ T # {}
  <2>1. PICK s \in S : TRUE
    OBVIOUS
  <2>2. n - s \in Nat /\ n - (n - s) = s
    BY <2>1
  <2> QED
    BY <2>1, <2>2
<1>2. PICK m \in T : \A y \in T : m <= y
  <2>1. Min(T) \in T /\ \A y \in T : Min(T) <= y
    BY <1>1, Least
  <2> QED
    BY <2>1
<1>3. n - m \in S /\ \A y \in S : n - m >= y
  <2> SUFFICES ASSUME NEW y \in S PROVE n - m >= y
    BY <1>2
  <2>1. n - y \in Nat /\ n - (n - y) = y
    OBVIOUS
  <2>2. n - y \in T
    BY <2>1
  <2>3. m <= n - y
    BY <1>2, <2>2
  <2>4. m \in Nat /\ y \in Nat
    OBVIOUS
  <2> QED
    BY <2>3, <2>4
<1> QED
  BY <1>3 DEF Max

LEMMA FunctionFound ==
  ASSUME fns \in Seq(Entry), NEW self, FindFunction(self) # 0
  PROVE  FindFunction(self) \in 1 .. Len(fns) /\ fns[FindFunction(self)].self = self
<1> DEFINE I == {i \in 1 .. Len(fns) : fns[i].self = self}
<1>1. FindFunction(self) = IF I # {} THEN Max(I) ELSE 0
  BY DEF FindFunction, SelectLastInSeq
<1>2. I # {} /\ I \in SUBSET (1 .. Len(fns)) /\ Len(fns) \in Nat
  BY <1>1
<1>3. Max(I) \in I
  BY <1>2, Greatest
<1> QED
  BY <1>1, <1>3

LEMMA ArcFound ==
  ASSUME NEW fn, fns[fn].arcs \in Seq([from : {a[2] : a \in Arcs}, count : Nat \ {0}]),
         NEW from, FindArc(fn, from) # 0
  PROVE  /\ FindArc(fn, from) \in 1 .. Len(fns[fn].arcs)
         /\ fns[fn].arcs[FindArc(fn, from)].from = from
<1> DEFINE I == {i \in 1 .. Len(fns[fn].arcs) : fns[fn].arcs[i].from = from}
<1>1. FindArc(fn, from) = IF I # {} THEN Max(I) ELSE 0
  BY DEF FindArc, SelectLastInSeq
<1>2. I # {} /\ I \in SUBSET (1 .. Len(fns[fn].arcs)) /\ Len(fns[fn].arcs) \in Nat
  BY <1>1
<1>3. Max(I) \in I
  BY <1>2, Greatest
<1> QED
  BY <1>1, <1>3

LEMMA FindTypes ==
  ASSUME fns \in Seq(Entry), NEW self, NEW from, NEW fn \in 1 .. Len(fns)
  PROVE  FindFunction(self) \in Nat /\ FindArc(fn, from) \in Nat
<1>e. fns[fn] \in Entry
  OBVIOUS
<1>1. fns[fn].arcs \in Seq([from : {a[2] : a \in Arcs}, count : Nat \ {0}])
  BY <1>e DEF Entry
<1>2. FindFunction(self) = 0 \/ FindFunction(self) \in Nat
  BY FunctionFound
<1>3. FindArc(fn, from) = 0 \/ FindArc(fn, from) \in Nat
  BY <1>1, ArcFound
<1> QED
  BY <1>2, <1>3

(* The three ways in which the calls change.                               *)
TopMoves(c) ==
  /\ mcounts' \in Seq(Counting) /\ Len(mcounts') = Len(mcounts) /\ Top' = c
  /\ \A k \in 1 .. Len(mcounts) :
       mcounts'[k] = IF k = Len(mcounts) THEN c ELSE mcounts[k]

LEMMA TopMoved ==
  ASSUME mcounts \in Seq(Counting), mcounts # << >>, NEW c \in Counting, TopIs(c)
  PROVE  TopMoves(c)
  BY DEF TopIs, TopMoves, Top

LEMMA TopTyped ==
  ASSUME McountTyped, mcounts # << >>
  PROVE  /\ Top \in Counting /\ Len(mcounts) \in Nat \ {0}
         /\ Top = mcounts[Len(mcounts)]
         /\ ArcOf(Top) \in Arcs
  BY DEF McountTyped, Top

Pushes(c, base) ==
  /\ mcounts' \in Seq(Counting) /\ Len(mcounts') = Len(mcounts) + 1 /\ Top' = c
  /\ \A k \in 1 .. Len(mcounts) + 1 :
       mcounts'[k] = IF k = Len(mcounts) + 1 THEN c
                     ELSE IF k = Len(mcounts) THEN base ELSE mcounts[k]

LEMMA Pushed ==
  ASSUME mcounts \in Seq(Counting), NEW c \in Counting, mcounts' = Append(mcounts, c)
  PROVE  Pushes(c, Top)
  BY DEF Pushes, Top

LEMMA MovedAndPushed ==
  ASSUME mcounts \in Seq(Counting), mcounts # << >>, NEW c \in Counting,
         NEW base \in Counting, mcounts' = Append([mcounts EXCEPT ![Len(mcounts)] = base], c)
  PROVE  Pushes(c, base)
<1> DEFINE s == [mcounts EXCEPT ![Len(mcounts)] = base]
<1>1. /\ s \in Seq(Counting) /\ Len(s) = Len(mcounts)
      /\ \A k \in 1 .. Len(mcounts) :
           s[k] = IF k = Len(mcounts) THEN base ELSE mcounts[k]
  OBVIOUS
<1>2. mcounts' = Append(s, c)
  OBVIOUS
<1> HIDE DEF s
<1> QED
  BY <1>1, <1>2 DEF Pushes, Top

LEMMA Popped ==
  ASSUME mcounts \in Seq(Counting), mcounts # << >>, mcounts' = Front(mcounts)
  PROVE  /\ mcounts' \in Seq(Counting) /\ Len(mcounts') = Len(mcounts) - 1
         /\ \A k \in 1 .. Len(mcounts) - 1 : mcounts'[k] = mcounts[k]
<1>1. PICK n \in Nat : n = Len(mcounts) - 1
  OBVIOUS
<1>2. 1 \in Int /\ n \in Int /\ \A i \in 1 .. n : mcounts[i] \in Counting
  BY <1>1
<1>3. /\ SubSeq(mcounts, 1, n) \in Seq(Counting)
      /\ Len(SubSeq(mcounts, 1, n)) = IF 1 <= n THEN n - 1 + 1 ELSE 0
      /\ \A i \in 1 .. n - 1 + 1 : SubSeq(mcounts, 1, n)[i] = mcounts[1 + i - 1]
  BY <1>2, SubSeqProperties
<1>4. mcounts' = SubSeq(mcounts, 1, n)
  BY <1>1 DEF Front
<1>5. mcounts' \in Seq(Counting) /\ Len(mcounts') = n
  BY <1>3, <1>4
<1>6. \A k \in 1 .. n : mcounts'[k] = mcounts[k]
  <2> SUFFICES ASSUME NEW k \in 1 .. n PROVE mcounts'[k] = mcounts[k]
    OBVIOUS
  <2>1. k \in 1 .. n - 1 + 1 /\ 1 + k - 1 = k
    OBVIOUS
  <2> QED
    BY <1>3, <1>4, <2>1
<1> QED
  BY <1>1, <1>5, <1>6

LEMMA McountFrame ==
  ASSUME NEW a \in Arcs, NEW h \in BOOLEAN
  PROVE  Mcount(a, h) \in Counting /\ ArcOf(Mcount(a, h)) = a
  BY GmonAssumption DEF Mcount, Counting, Places, ArcOf

(* What each step makes of the innermost call.                             *)
Going(place) == [Top EXCEPT !.pc = place]

LEMMA Goes ==
  ASSUME McountTyped, mcounts # << >>, NEW q \in Places, GoesTo(q)
  PROVE  TopMoves(Going(q))
<1>1. Top \in Counting
  BY TopTyped
<1>2. Going(q) \in Counting
  BY <1>1 DEF Going, Counting
<1> QED
  BY <1>2, TopMoved DEF GoesTo, Going, McountTyped

LEMMA Searched ==
  ASSUME McountTyped, SearchFunctions
  PROVE  /\ InMcount("find")
         /\ UNCHANGED <<fns, memoryVars, samplerVars, enabled, made>>
         /\ LET k == FindFunction(Top.self)
            IN  /\ k # 0 => k \in 1 .. Len(fns) /\ fns[k].self = Top.self
                /\ TopMoves([Top EXCEPT !.fn = k,
                                        !.pc = IF k = 0 THEN "record" ELSE "walk"])
<1> DEFINE k == FindFunction(Top.self)
           c == [Top EXCEPT !.fn = k, !.pc = IF k = 0 THEN "record" ELSE "walk"]
<1>1. /\ Top \in Counting /\ fns \in Seq(Entry) /\ mcounts # << >>
      /\ mcounts \in Seq(Counting)
  BY TopTyped DEF SearchFunctions, InMcount, McountTyped
<1>2. k # 0 => k \in 1 .. Len(fns) /\ fns[k].self = Top.self
  BY <1>1, FunctionFound
<1>3. k \in Nat
  BY <1>1, <1>2
<1>4. c \in Counting
  BY <1>1, <1>3 DEF Counting, Places
<1>5. TopIs(c)
  BY DEF SearchFunctions
<1> QED
  BY <1>1, <1>2, <1>4, <1>5, TopMoved DEF SearchFunctions

LEMMA Walked ==
  ASSUME McountTyped, CellInv, SearchArcs
  PROVE  /\ InMcount("walk")
         /\ UNCHANGED <<fns, memoryVars, samplerVars, enabled, made>>
         /\ LET k == FindArc(Top.fn, Top.from)
            IN  /\ k # 0 => /\ k \in 1 .. Len(fns[Top.fn].arcs)
                            /\ fns[Top.fn].arcs[k].from = Top.from
                /\ TopMoves([Top EXCEPT !.arc = k,
                                        !.pc = IF k = 0 THEN "record" ELSE "load"])
<1> DEFINE k == FindArc(Top.fn, Top.from)
           c == [Top EXCEPT !.arc = k, !.pc = IF k = 0 THEN "record" ELSE "load"]
<1>1. /\ Top \in Counting /\ fns \in Seq(Entry) /\ mcounts # << >>
      /\ mcounts \in Seq(Counting)
      /\ Top.pc = "walk" /\ Len(mcounts) \in Nat \ {0} /\ Top = mcounts[Len(mcounts)]
  BY TopTyped DEF SearchArcs, InMcount, McountTyped
<1>2. Top.fn \in 1 .. Len(fns)
  BY <1>1 DEF CellInv, FoundIn
<1>3. fns[Top.fn] \in Entry
  BY <1>1, <1>2
<1>4. fns[Top.fn].arcs \in Seq([from : {a[2] : a \in Arcs}, count : Nat \ {0}])
  BY <1>3 DEF Entry
<1>5. k # 0 => k \in 1 .. Len(fns[Top.fn].arcs) /\ fns[Top.fn].arcs[k].from = Top.from
  BY <1>4, ArcFound
<1>6. k \in Nat
  BY <1>4, <1>5
<1>7. c \in Counting
  BY <1>1, <1>6 DEF Counting, Places
<1>8. TopIs(c)
  BY DEF SearchArcs
<1> QED
  BY <1>1, <1>5, <1>7, <1>8, TopMoved DEF SearchArcs

(* What a call that has found its place finds there.                       *)

LEMMA FoundCount ==
  ASSUME McountTyped, CellInv, NEW k \in 1 .. Len(mcounts),
         mcounts[k].pc \in {"load", "store"}
  PROVE  /\ mcounts[k].fn \in 1 .. Len(fns) /\ fns[mcounts[k].fn].self = mcounts[k].self
         /\ mcounts[k].arc \in 1 .. Len(fns[mcounts[k].fn].arcs)
         /\ fns[mcounts[k].fn].arcs[mcounts[k].arc].from = mcounts[k].from
         /\ CountOf(fns, mcounts[k]) \in Nat \ {0}
<1>1. /\ mcounts[k].fn \in 1 .. Len(fns) /\ fns[mcounts[k].fn].self = mcounts[k].self
      /\ mcounts[k].arc \in 1 .. Len(fns[mcounts[k].fn].arcs)
      /\ fns[mcounts[k].fn].arcs[mcounts[k].arc].from = mcounts[k].from
  BY DEF CellInv, FoundIn
<1>2. fns[mcounts[k].fn] \in Entry
  BY <1>1 DEF McountTyped
<1> DEFINE A == [from : {a[2] : a \in Arcs}, count : Nat \ {0}]
<1>3. PICK s \in Seq(A) : s = fns[mcounts[k].fn].arcs
  BY <1>2 DEF Entry
<1> HIDE DEF A
<1>4. s[mcounts[k].arc] \in A
  BY <1>1, <1>3
<1> QED
  BY <1>1, <1>3, <1>4 DEF CountOf, A

LEMMA LoadedCount ==
  ASSUME McountTyped, CellInv, LoadCount
  PROVE  /\ InMcount("load")
         /\ UNCHANGED <<fns, memoryVars, samplerVars, enabled, made>>
         /\ TopMoves([Top EXCEPT !.count = CountOf(fns, Top), !.pc = "store"])
<1> DEFINE c == [Top EXCEPT !.count = CountOf(fns, Top), !.pc = "store"]
<1>1. /\ Top \in Counting /\ mcounts # << >> /\ mcounts \in Seq(Counting)
      /\ Top.pc = "load" /\ Len(mcounts) \in Nat \ {0} /\ Top = mcounts[Len(mcounts)]
  BY TopTyped DEF LoadCount, InMcount, McountTyped
<1>2. CountOf(fns, Top) \in Nat
  BY <1>1, FoundCount
<1>3. c \in Counting
  BY <1>1, <1>2 DEF Counting, Places
<1>4. TopIs(c)
  BY DEF LoadCount, CountOf
<1> QED
  BY <1>1, <1>3, <1>4, TopMoved DEF LoadCount

LEMMA Disabled ==
  ASSUME McountTyped, DisableInterrupts
  PROVE  /\ InMcount("disable") /\ UNCHANGED <<fns, memoryVars, samplerVars, made>>
         /\ enabled' = FALSE
         /\ TopMoves([Top EXCEPT !.context = enabled,
                                 !.pc = IF Top.fn = 0 THEN "function" ELSE "arc"])
<1> DEFINE c == [Top EXCEPT !.context = enabled,
                            !.pc = IF Top.fn = 0 THEN "function" ELSE "arc"]
<1>1. /\ Top \in Counting /\ mcounts # << >> /\ mcounts \in Seq(Counting)
      /\ enabled \in BOOLEAN
  BY TopTyped DEF DisableInterrupts, InMcount, McountTyped
<1>2. c \in Counting
  BY <1>1 DEF Counting, Places
<1>3. TopIs(c)
  BY DEF DisableInterrupts
<1> QED
  BY <1>1, <1>2, <1>3, TopMoved DEF DisableInterrupts

LEMMA FunctionAdded ==
  ASSUME McountTyped, AddFunction
  PROVE  /\ InMcount("function") /\ UNCHANGED <<samplerVars, enabled, made>>
         /\ fns' = Append(fns, [self |-> Top.self, arcs |-> << >>])
         /\ fns' \in Seq(Entry) /\ Len(fns') = Len(fns) + 1
         /\ \A f \in 1 .. Len(fns) : fns'[f] = fns[f]
         /\ fns'[Len(fns) + 1] = [self |-> Top.self, arcs |-> << >>]
         /\ TopMoves([Top EXCEPT !.fn = Len(fns) + 1, !.pc = "arc"])
<1> DEFINE c == [Top EXCEPT !.fn = Len(fns) + 1, !.pc = "arc"]
           e == [self |-> Top.self, arcs |-> << >>]
<1>1. /\ Top \in Counting /\ mcounts # << >> /\ mcounts \in Seq(Counting)
      /\ fns \in Seq(Entry)
  BY TopTyped DEF AddFunction, InMcount, McountTyped
<1>l. Len(fns) + 1 \in Nat
  BY <1>1
<1>2. c \in Counting
  BY <1>1, <1>l DEF Counting, Places
<1>3. TopIs(c) /\ fns' = Append(fns, e)
  BY DEF AddFunction
<1>4. Top.self \in {a[1] : a \in Arcs}
  BY <1>1 DEF Counting
<1>5. e \in Entry
  BY <1>4 DEF Entry
<1> HIDE DEF c, e
<1>6. /\ fns' \in Seq(Entry) /\ Len(fns') = Len(fns) + 1 /\ fns'[Len(fns) + 1] = e
      /\ \A f \in 1 .. Len(fns) : fns'[f] = fns[f]
  BY <1>1, <1>3, <1>5
<1>7. TopMoves(c)
  BY <1>1, <1>2, <1>3, TopMoved
<1> QED
  BY <1>3, <1>6, <1>7 DEF AddFunction, c, e

LEMMA ArcAdded ==
  ASSUME McountTyped, CellInv, AddArc
  PROVE  /\ InMcount("arc") /\ UNCHANGED <<samplerVars, enabled, made>>
         /\ Top.fn \in 1 .. Len(fns) /\ fns[Top.fn].self = Top.self
         /\ fns' \in Seq(Entry) /\ Len(fns') = Len(fns)
         /\ \A f \in 1 .. Len(fns) : fns'[f].self = fns[f].self
                                     /\ (f # Top.fn => fns'[f] = fns[f])
         /\ Len(fns'[Top.fn].arcs) = Len(fns[Top.fn].arcs) + 1
         /\ Len(fns[Top.fn].arcs) \in Nat
         /\ \A k \in 1 .. Len(fns[Top.fn].arcs) :
              fns'[Top.fn].arcs[k] = fns[Top.fn].arcs[k]
         /\ fns'[Top.fn].arcs[Len(fns[Top.fn].arcs) + 1] =
              [from |-> Top.from, count |-> 1]
         /\ TopMoves(Going("enable"))
<1> DEFINE A == [from : {a[2] : a \in Arcs}, count : Nat \ {0}]
           new == [from |-> Top.from, count |-> 1]
<1>1. /\ Top \in Counting /\ mcounts # << >> /\ mcounts \in Seq(Counting)
      /\ fns \in Seq(Entry)
      /\ Top.pc = "arc" /\ Len(mcounts) \in Nat \ {0} /\ Top = mcounts[Len(mcounts)]
  BY TopTyped DEF AddArc, InMcount, McountTyped
<1>2. Top.fn \in 1 .. Len(fns) /\ fns[Top.fn].self = Top.self
  BY <1>1 DEF CellInv, FoundIn
<1>3. fns[Top.fn] \in Entry
  BY <1>1, <1>2
<1>4. PICK s \in Seq(A) : s = fns[Top.fn].arcs
  BY <1>3 DEF Entry
<1>5. Top.from \in {a[2] : a \in Arcs} /\ new \in A
  BY <1>1 DEF Counting
<1> HIDE DEF new, A
<1>a. Append(s, new) \in Seq(A)
  BY <1>5
<1>6. PICK t \in Seq(A) : t = Append(s, new)
  BY <1>a, Zenon
<1>7. Len(t) = Len(s) + 1 /\ t[Len(s) + 1] = new /\ \A k \in 1 .. Len(s) : t[k] = s[k]
  BY <1>6
<1>8. [fns[Top.fn] EXCEPT !.arcs = t] \in Entry
  BY <1>3, <1>6 DEF Entry, A
<1>9. fns' = [fns EXCEPT ![Top.fn] = [fns[Top.fn] EXCEPT !.arcs = t]]
  BY <1>1, <1>2, <1>3, <1>4, <1>6 DEF AddArc, new, Entry
<1>10. /\ fns' \in Seq(Entry) /\ Len(fns') = Len(fns)
       /\ \A f \in 1 .. Len(fns) :
            fns'[f] = IF f = Top.fn THEN [fns[Top.fn] EXCEPT !.arcs = t] ELSE fns[f]
  BY <1>1, <1>2, <1>8, <1>9
<1>11. fns'[Top.fn] = [fns[Top.fn] EXCEPT !.arcs = t] /\ fns'[Top.fn].arcs = t
  BY <1>2, <1>3, <1>10 DEF Entry
<1>12. \A f \in 1 .. Len(fns) : fns'[f].self = fns[f].self
  BY <1>3, <1>10 DEF Entry
<1>13. TopMoves(Going("enable"))
  BY <1>1, Goes DEF AddArc, Places
<1> QED
  BY <1>2, <1>4, <1>7, <1>10, <1>11, <1>12, <1>13 DEF AddArc, new

LEMMA Stored ==
  ASSUME McountTyped, CellInv, StoreCount
  PROVE  /\ InMcount("store") /\ UNCHANGED <<memoryVars, samplerVars, enabled, made>>
         /\ fns' \in Seq(Entry) /\ Len(fns') = Len(fns)
         /\ \A f \in 1 .. Len(fns) :
              /\ fns'[f].self = fns[f].self /\ Len(fns'[f].arcs) = Len(fns[f].arcs)
              /\ \A k \in 1 .. Len(fns[f].arcs) :
                   fns'[f].arcs[k] = IF f = Top.fn /\ k = Top.arc
                                     THEN [fns[f].arcs[k] EXCEPT !.count = Top.count + 1]
                                     ELSE fns[f].arcs[k]
         /\ TopMoves(Going("return"))
<1> DEFINE A == [from : {a[2] : a \in Arcs}, count : Nat \ {0}]
<1>1. /\ Top \in Counting /\ mcounts # << >> /\ mcounts \in Seq(Counting)
      /\ fns \in Seq(Entry)
      /\ Top.pc = "store" /\ Len(mcounts) \in Nat \ {0} /\ Top = mcounts[Len(mcounts)]
  BY TopTyped DEF StoreCount, InMcount, McountTyped
<1>2. Top.fn \in 1 .. Len(fns) /\ Top.arc \in 1 .. Len(fns[Top.fn].arcs)
  BY <1>1, FoundCount
<1>3. fns[Top.fn] \in Entry /\ \A f \in 1 .. Len(fns) : fns[f] \in Entry
  BY <1>1, <1>2
<1>4. PICK s \in Seq(A) : s = fns[Top.fn].arcs
  BY <1>3 DEF Entry
<1>c. Top.count \in Nat
  BY <1>1 DEF Counting
<1> HIDE DEF A
<1>5. s[Top.arc] \in A /\ Top.arc \in 1 .. Len(s)
  BY <1>2, <1>4
<1>a. [s[Top.arc] EXCEPT !.count = Top.count + 1] \in A
  <2>1. Top.count + 1 \in Nat \ {0}
    BY <1>c
  <2> QED
    BY <1>5, <2>1, Zenon DEF A
<1>6. PICK new \in A : new = [s[Top.arc] EXCEPT !.count = Top.count + 1]
  BY <1>a, Zenon
<1>b. [s EXCEPT ![Top.arc] = new] \in Seq(A)
  BY <1>5
<1>7. PICK t \in Seq(A) : t = [s EXCEPT ![Top.arc] = new]
  BY <1>b, Zenon
<1>8. Len(t) = Len(s) /\ \A k \in 1 .. Len(s) : t[k] = IF k = Top.arc THEN new ELSE s[k]
  BY <1>5, <1>7
<1>9. [fns[Top.fn] EXCEPT !.arcs = t] \in Entry
  BY <1>3, <1>7 DEF Entry, A
<1>10. fns' = [fns EXCEPT ![Top.fn] = [fns[Top.fn] EXCEPT !.arcs = t]]
  BY <1>1, <1>2, <1>3, <1>4, <1>6, <1>7 DEF StoreCount, Entry
<1>11. /\ fns' \in Seq(Entry) /\ Len(fns') = Len(fns)
       /\ \A f \in 1 .. Len(fns) :
            fns'[f] = IF f = Top.fn THEN [fns[Top.fn] EXCEPT !.arcs = t] ELSE fns[f]
  BY <1>1, <1>2, <1>9, <1>10
<1>12. /\ fns'[Top.fn].arcs = t /\ fns'[Top.fn].self = fns[Top.fn].self
  BY <1>2, <1>3, <1>11 DEF Entry
<1>13. \A f \in 1 .. Len(fns) : f # Top.fn => fns'[f] = fns[f]
  BY <1>11
<1>14. TopMoves(Going("return"))
  BY <1>1, Goes DEF StoreCount, Places
<1>15. ASSUME NEW f \in 1 .. Len(fns)
       PROVE  /\ fns'[f].self = fns[f].self /\ Len(fns'[f].arcs) = Len(fns[f].arcs)
              /\ \A k \in 1 .. Len(fns[f].arcs) :
                   fns'[f].arcs[k] = IF f = Top.fn /\ k = Top.arc
                                     THEN [fns[f].arcs[k] EXCEPT !.count = Top.count + 1]
                                     ELSE fns[f].arcs[k]
  <2>1. CASE f = Top.fn
    BY <2>1, <1>4, <1>6, <1>8, <1>12
  <2>2. CASE f # Top.fn
    BY <2>2, <1>13
  <2> QED
    BY <2>1, <2>2
<1> QED
  BY <1>11, <1>14, <1>15 DEF StoreCount

(* A step of the innermost call, field by field.                           *)
Advances(c, from, to) ==
  /\ mcounts # << >> /\ Len(mcounts) \in Nat \ {0} /\ Top = mcounts[Len(mcounts)]
  /\ mcounts \in Seq(Counting) /\ Top \in Counting
  /\ TopMoves(c) /\ c.self = Top.self /\ c.from = Top.from /\ c.handler = Top.handler
  /\ Top.pc = from /\ c.pc \in to /\ ArcOf(c) = ArcOf(Top)

Same(c) == c.fn = Top.fn /\ c.arc = Top.arc /\ c.count = Top.count
           /\ (c.context <=> Top.context)

LEMMA Gone ==
  ASSUME McountTyped, NEW p, InMcount(p), NEW q \in Places, GoesTo(q)
  PROVE  \E c : Advances(c, p, {q}) /\ Same(c)
<1>1. /\ mcounts # << >> /\ Len(mcounts) \in Nat \ {0} /\ Top = mcounts[Len(mcounts)]
      /\ Top \in Counting /\ Top.pc = p
  BY TopTyped DEF InMcount
<1>2. TopMoves(Going(q))
  BY <1>1, Goes
<1>3. /\ Going(q).pc = q /\ Going(q).self = Top.self /\ Going(q).from = Top.from
      /\ Going(q).handler = Top.handler /\ Going(q).fn = Top.fn
      /\ Going(q).arc = Top.arc /\ Going(q).count = Top.count
      /\ Going(q).context = Top.context
  BY <1>1 DEF Going, Counting
<1> QED
  BY <1>1, <1>2, <1>3 DEF Advances, Same, ArcOf, McountTyped

LEMMA SearchedAhead ==
  ASSUME McountTyped, SearchFunctions
  PROVE  \E c : /\ Advances(c, "find", {"record", "walk"})
                /\ c.fn # 0 => c.fn \in 1 .. Len(fns) /\ fns[c.fn].self = Top.self
                /\ c.pc = "walk" => c.fn # 0
<1> DEFINE k == FindFunction(Top.self)
           c == [Top EXCEPT !.fn = k, !.pc = IF k = 0 THEN "record" ELSE "walk"]
<1>1. /\ mcounts # << >> /\ Len(mcounts) \in Nat \ {0} /\ Top = mcounts[Len(mcounts)]
      /\ Top \in Counting /\ Top.pc = "find"
  BY TopTyped DEF InMcount, SearchFunctions
<1>2. /\ k # 0 => k \in 1 .. Len(fns) /\ fns[k].self = Top.self
      /\ TopMoves(c)
  BY Searched
<1>3. /\ c.pc \in {"record", "walk"} /\ c.fn = k /\ (k = 0 => c.pc = "record")
      /\ c.self = Top.self /\ c.from = Top.from /\ c.handler = Top.handler
  BY <1>1 DEF Counting
<1> HIDE DEF c, k
<1>4. Advances(c, "find", {"record", "walk"})
  BY <1>1, <1>2, <1>3 DEF Advances, ArcOf, McountTyped
<1> QED
  BY <1>2, <1>3, <1>4

LEMMA WalkedAhead ==
  ASSUME McountTyped, CellInv, SearchArcs
  PROVE  \E c : /\ Advances(c, "walk", {"record", "load"}) /\ c.fn = Top.fn
                /\ c.pc = "load" => /\ c.arc \in 1 .. Len(fns[Top.fn].arcs)
                                    /\ fns[Top.fn].arcs[c.arc].from = Top.from
<1> DEFINE k == FindArc(Top.fn, Top.from)
           c == [Top EXCEPT !.arc = k, !.pc = IF k = 0 THEN "record" ELSE "load"]
<1>1. /\ mcounts # << >> /\ Len(mcounts) \in Nat \ {0} /\ Top = mcounts[Len(mcounts)]
      /\ Top \in Counting /\ Top.pc = "walk"
  BY TopTyped DEF InMcount, SearchArcs
<1>2. /\ k # 0 => k \in 1 .. Len(fns[Top.fn].arcs) /\ fns[Top.fn].arcs[k].from = Top.from
      /\ TopMoves(c)
  BY Walked
<1>3. /\ c.pc \in {"record", "load"} /\ c.arc = k /\ c.fn = Top.fn
      /\ (k = 0 => c.pc = "record")
      /\ c.self = Top.self /\ c.from = Top.from /\ c.handler = Top.handler
  BY <1>1 DEF Counting
<1> HIDE DEF c, k
<1>4. Advances(c, "walk", {"record", "load"})
  BY <1>1, <1>2, <1>3 DEF Advances, ArcOf, McountTyped
<1> QED
  BY <1>2, <1>3, <1>4

LEMMA LoadedAhead ==
  ASSUME McountTyped, CellInv, LoadCount
  PROVE  \E c : /\ Advances(c, "load", {"store"}) /\ c.fn = Top.fn /\ c.arc = Top.arc
                /\ c.count = CountOf(fns, Top)
<1> DEFINE c == [Top EXCEPT !.count = CountOf(fns, Top), !.pc = "store"]
<1>1. /\ mcounts # << >> /\ Len(mcounts) \in Nat \ {0} /\ Top = mcounts[Len(mcounts)]
      /\ Top \in Counting /\ Top.pc = "load"
  BY TopTyped DEF InMcount, LoadCount
<1>2. TopMoves(c)
  BY LoadedCount
<1>3. /\ c.pc = "store" /\ c.arc = Top.arc /\ c.fn = Top.fn
      /\ c.count = CountOf(fns, Top)
      /\ c.self = Top.self /\ c.from = Top.from /\ c.handler = Top.handler
  BY <1>1 DEF Counting
<1> HIDE DEF c
<1>4. Advances(c, "load", {"store"})
  BY <1>1, <1>2, <1>3 DEF Advances, ArcOf, McountTyped
<1> QED
  BY <1>2, <1>3, <1>4

LEMMA DisabledAhead ==
  ASSUME McountTyped, DisableInterrupts
  PROVE  \E c : /\ Advances(c, "disable", {"function", "arc"}) /\ c.fn = Top.fn
                /\ (c.context <=> enabled) /\ (c.pc = "arc" => c.fn # 0)
<1> DEFINE c == [Top EXCEPT !.context = enabled,
                            !.pc = IF Top.fn = 0 THEN "function" ELSE "arc"]
<1>1. /\ mcounts # << >> /\ Len(mcounts) \in Nat \ {0} /\ Top = mcounts[Len(mcounts)]
      /\ Top \in Counting /\ Top.pc = "disable"
  BY TopTyped DEF InMcount, DisableInterrupts
<1>2. TopMoves(c)
  BY Disabled
<1>3. /\ c.pc \in {"function", "arc"} /\ c.fn = Top.fn
      /\ (Top.fn = 0 => c.pc = "function")
      /\ c.context = enabled
      /\ c.self = Top.self /\ c.from = Top.from /\ c.handler = Top.handler
  BY <1>1 DEF Counting
<1> HIDE DEF c
<1>4. Advances(c, "disable", {"function", "arc"})
  BY <1>1, <1>2, <1>3 DEF Advances, ArcOf, McountTyped
<1> QED
  BY <1>2, <1>3, <1>4

LEMMA AddedAhead ==
  ASSUME McountTyped, AddFunction
  PROVE  \E c : /\ Advances(c, "function", {"arc"}) /\ c.fn = Len(fns) + 1
                /\ (c.context <=> Top.context)
<1> DEFINE c == [Top EXCEPT !.fn = Len(fns) + 1, !.pc = "arc"]
<1>1. /\ mcounts # << >> /\ Len(mcounts) \in Nat \ {0} /\ Top = mcounts[Len(mcounts)]
      /\ Top \in Counting /\ Top.pc = "function"
  BY TopTyped DEF InMcount, AddFunction
<1>2. TopMoves(c)
  BY FunctionAdded
<1>3. /\ c.pc = "arc" /\ c.fn = Len(fns) + 1 /\ c.context = Top.context
      /\ c.self = Top.self /\ c.from = Top.from /\ c.handler = Top.handler
  BY <1>1 DEF Counting
<1> HIDE DEF c
<1>4. Advances(c, "function", {"arc"})
  BY <1>1, <1>2, <1>3 DEF Advances, ArcOf, McountTyped
<1> QED
  BY <1>2, <1>3, <1>4

(* A new call on top of those that run.                                    *)
Begins(c, a) ==
  /\ mcounts \in Seq(Counting) /\ mcounts' \in Seq(Counting) /\ Len(mcounts) \in Nat
  /\ Len(mcounts') = Len(mcounts) + 1 /\ Top' = c /\ mcounts'[Len(mcounts) + 1] = c
  /\ c.pc = "find" /\ c.fn = 0 /\ a \in Arcs /\ ArcOf(c) = a
Kept == \A k \in 1 .. Len(mcounts) : mcounts'[k] = mcounts[k]

LEMMA NewCall ==
  ASSUME NEW a \in Arcs, NEW h \in BOOLEAN
  PROVE  \E c \in Counting : /\ c = Mcount(a, h) /\ c.pc = "find" /\ c.fn = 0
                          /\ ArcOf(c) = a /\ (c.handler <=> h)
<1>1. Mcount(a, h) \in Counting /\ ArcOf(Mcount(a, h)) = a
  BY McountFrame
<1>2. Mcount(a, h).pc = "find" /\ Mcount(a, h).fn = 0 /\ Mcount(a, h).handler = h
  BY DEF Mcount
<1> QED
  BY <1>1, <1>2, Zenon

LEMMA ProgramAhead ==
  ASSUME McountTyped, NEW arc \in ProgramArcs, ProgramMcounts(arc)
  PROVE  \E c : Begins(c, arc) /\ Kept /\ mcounts = << >> /\ ~ c.handler
<1>1. arc \in Arcs
  BY DEF Arcs
<1>2. PICK c \in Counting : /\ c = Mcount(arc, FALSE) /\ c.pc = "find" /\ c.fn = 0
                         /\ ArcOf(c) = arc /\ (c.handler <=> FALSE)
  BY <1>1, NewCall
<1>3. mcounts = << >> /\ mcounts' = <<c>>
  BY <1>2, Zenon DEF ProgramMcounts
<1>4. /\ mcounts \in Seq(Counting) /\ Len(mcounts) = 0
      /\ mcounts' \in Seq(Counting) /\ Len(mcounts') = 1 /\ mcounts'[1] = c
  BY <1>3 DEF McountTyped
<1>5. Len(mcounts) + 1 = 1 /\ 1 .. Len(mcounts) = {} /\ Len(mcounts) \in Nat
  BY <1>4
<1>6. Top' = c
  BY <1>4, Zenon DEF Top
<1>7. Begins(c, arc)
  BY <1>1, <1>2, <1>4, <1>5, <1>6, Zenon DEF Begins
<1>8. Kept
  BY <1>5, Zenon DEF Kept
<1> QED
  BY <1>2, <1>3, <1>7, <1>8, Zenon

LEMMA HandlerAhead ==
  ASSUME McountTyped, NEW arc \in handler_arcs, HandlerMcounts(arc)
  PROVE  \E c : Begins(c, arc) /\ Kept /\ c.handler
<1>1. arc \in Arcs
  BY DEF Arcs, McountTyped
<1>2. PICK c \in Counting : /\ c = Mcount(arc, TRUE) /\ c.pc = "find" /\ c.fn = 0
                         /\ ArcOf(c) = arc /\ (c.handler <=> TRUE)
  BY <1>1, NewCall
<1>3. mcounts' = Append(mcounts, c)
  BY <1>2, Zenon DEF HandlerMcounts
<1>m. mcounts \in Seq(Counting)
  BY DEF McountTyped
<1>4. /\ mcounts' \in Seq(Counting) /\ Len(mcounts') = Len(mcounts) + 1
      /\ Len(mcounts) \in Nat
      /\ mcounts'[Len(mcounts) + 1] = c
      /\ \A k \in 1 .. Len(mcounts) : mcounts'[k] = mcounts[k]
  BY <1>3, <1>m
<1>5. Begins(c, arc)
  BY <1>1, <1>2, <1>4, <1>m DEF Begins, Top
<1> QED
  BY <1>2, <1>4, <1>5 DEF Kept

LEMMA StartAhead ==
  ASSUME McountTyped, StartSampler
  PROVE  \E c, b : /\ Begins(c, InitArc) /\ ~ c.handler
                   /\ mcounts # << >> /\ Len(mcounts) \in Nat \ {0}
                   /\ Top = mcounts[Len(mcounts)] /\ Top \in Counting
                   /\ Top.pc = "start"
                   /\ mcounts'[Len(mcounts)] = b /\ b.pc = "started"
                   /\ b.self = Top.self /\ b.from = Top.from /\ ArcOf(b) = ArcOf(Top)
                   /\ b.handler = Top.handler /\ Same(b)
                   /\ \A k \in 1 .. Len(mcounts) - 1 : mcounts'[k] = mcounts[k]
<1>1. InitArc \in Arcs
  <2>1. \A A : InitArc \in A \cup {InitArc}
    OBVIOUS
  <2> QED
    BY <2>1 DEF Arcs
<1>2. PICK c \in Counting : /\ c = Mcount(InitArc, FALSE) /\ c.pc = "find" /\ c.fn = 0
                         /\ ArcOf(c) = InitArc /\ (c.handler <=> FALSE)
  BY <1>1, NewCall
<1>3. /\ mcounts # << >> /\ Len(mcounts) \in Nat \ {0} /\ Top = mcounts[Len(mcounts)]
      /\ Top \in Counting /\ Top.pc = "start" /\ mcounts \in Seq(Counting)
  BY TopTyped DEF StartSampler, InMcount, McountTyped
<1>4. PICK b \in Counting :
        /\ b = Going("started") /\ b.pc = "started" /\ b.self = Top.self
        /\ b.from = Top.from /\ b.handler = Top.handler /\ Same(b)
        /\ ArcOf(b) = ArcOf(Top)
  <2>1. Going("started") \in Counting
    BY <1>3 DEF Going, Counting, Places
  <2>2. /\ Going("started").pc = "started" /\ Going("started").self = Top.self
        /\ Going("started").from = Top.from /\ Going("started").handler = Top.handler
        /\ Going("started").fn = Top.fn /\ Going("started").arc = Top.arc
        /\ Going("started").count = Top.count /\ Going("started").context = Top.context
    BY <1>3 DEF Going, Counting
  <2> QED
    BY <2>1, <2>2, Zenon DEF Same, ArcOf
<1>5. mcounts' = Append([mcounts EXCEPT ![Len(mcounts)] = b], c)
  <2>1. Going("started") = [mcounts[Len(mcounts)] EXCEPT !.pc = "started"]
    BY <1>3 DEF Going
  <2> QED
    BY <1>2, <1>4, <2>1, Zenon DEF StartSampler
<1>6. Pushes(c, b)
  BY <1>3, <1>5, MovedAndPushed
<1>7. /\ mcounts' \in Seq(Counting) /\ Len(mcounts') = Len(mcounts) + 1 /\ Top' = c
      /\ mcounts'[Len(mcounts) + 1] = c /\ mcounts'[Len(mcounts)] = b
      /\ \A k \in 1 .. Len(mcounts) - 1 : mcounts'[k] = mcounts[k]
  BY <1>3, <1>6 DEF Pushes
<1>8. Begins(c, InitArc)
  BY <1>1, <1>2, <1>3, <1>7 DEF Begins
<1> QED
  BY <1>2, <1>3, <1>4, <1>7, <1>8

(* A call that returns.                                                    *)
LEMMA ReturnAhead ==
  ASSUME McountTyped, McountReturns
  PROVE  /\ mcounts # << >> /\ Len(mcounts) \in Nat \ {0} /\ Top = mcounts[Len(mcounts)]
         /\ Top \in Counting /\ Top.pc = "return" /\ mcounts \in Seq(Counting)
         /\ mcounts' \in Seq(Counting) /\ Len(mcounts') = Len(mcounts) - 1
         /\ \A k \in 1 .. Len(mcounts) - 1 : mcounts'[k] = mcounts[k]
         /\ Len(mcounts) > 1 => /\ mcounts' # << >>
                                /\ Top' = mcounts[Len(mcounts) - 1]
<1>1. /\ mcounts # << >> /\ Len(mcounts) \in Nat \ {0} /\ Top = mcounts[Len(mcounts)]
      /\ Top \in Counting /\ Top.pc = "return" /\ mcounts \in Seq(Counting)
  BY TopTyped DEF McountReturns, InMcount, McountTyped
<1>2. /\ mcounts' \in Seq(Counting) /\ Len(mcounts') = Len(mcounts) - 1
      /\ \A k \in 1 .. Len(mcounts) - 1 : mcounts'[k] = mcounts[k]
  BY <1>1, Popped DEF McountReturns
<1> QED
  BY <1>1, <1>2 DEF Top

(* Types.                                                                  *)
LEMMA SameArcs ==
  ASSUME McountTyped, NEW c, NEW p, NEW q, Advances(c, p, q)
  PROVE  /\ mcounts' \in Seq(Counting)
         /\ \A k \in 1 .. Len(mcounts') : ArcOf(mcounts'[k]) \in Arcs
  BY TopTyped DEF TopMoves, McountTyped, Advances

LEMMA SlabTyped ==
  ASSUME McountTyped, mcount_allocate
  PROVE  slab' \in 0 .. Slab /\ memory' \in 0 .. Memory
  BY GmonAssumption DEF McountTyped, mcount_allocate

LEMMA TypedStep ==
  ASSUME McountTyped, CellInv, GmonNext
  PROVE  McountTyped'
<1> USE DEF memoryVars, samplerVars
<1>0. handler_arcs' = handler_arcs /\ handler_arcs \in HandlerArcs
  BY DEF GmonNext, McountTyped
<1>b. ASSUME NEW c, NEW a, Begins(c, a), Kept
      PROVE  /\ mcounts' \in Seq(Counting)
             /\ \A k \in 1 .. Len(mcounts') : ArcOf(mcounts'[k]) \in Arcs
  <2>1. /\ mcounts' \in Seq(Counting) /\ Len(mcounts) \in Nat
        /\ Len(mcounts') = Len(mcounts) + 1
        /\ ArcOf(mcounts'[Len(mcounts) + 1]) \in Arcs
    BY <1>b DEF Begins
  <2>2. \A k \in 1 .. Len(mcounts) : ArcOf(mcounts'[k]) \in Arcs
    BY <1>b DEF Kept, McountTyped
  <2>3. \A k \in 1 .. Len(mcounts') : k \in 1 .. Len(mcounts) \/ k = Len(mcounts) + 1
    BY <2>1
  <2> QED
    BY <2>1, <2>2, <2>3
<1>1. ASSUME NEW arc \in ProgramArcs, ProgramMcounts(arc) PROVE McountTyped'
  <2>1. /\ mcounts' \in Seq(Counting)
        /\ \A k \in 1 .. Len(mcounts') : ArcOf(mcounts'[k]) \in Arcs
    BY <1>1, <1>b, ProgramAhead
  <2> QED
    BY <1>0, <1>1, <2>1 DEF McountTyped, ProgramMcounts
<1>2. ASSUME NEW arc \in handler_arcs, HandlerMcounts(arc) PROVE McountTyped'
  <2>1. /\ mcounts' \in Seq(Counting)
        /\ \A k \in 1 .. Len(mcounts') : ArcOf(mcounts'[k]) \in Arcs
    BY <1>2, <1>b, HandlerAhead
  <2> QED
    BY <1>0, <1>2, <2>1 DEF McountTyped, HandlerMcounts
<1>3. CASE SearchFunctions
  BY <1>0, <1>3, SearchedAhead, SameArcs DEF McountTyped, SearchFunctions
<1>4. CASE SearchArcs
  BY <1>0, <1>4, WalkedAhead, SameArcs DEF McountTyped, SearchArcs
<1>5. CASE LoadCount
  BY <1>0, <1>5, LoadedAhead, SameArcs DEF McountTyped, LoadCount
<1>6. CASE StoreCount
  BY <1>0, <1>6, Stored, Gone, SameArcs DEF McountTyped, StoreCount, Places
<1>7. CASE __mcount_record
  BY <1>0, <1>7, Gone, SameArcs
     DEF McountTyped, __mcount_record, Choose, Places
<1>8. CASE ClearNeedInit
  BY <1>0, <1>8, Gone, SameArcs DEF McountTyped, ClearNeedInit, Places
<1>9. CASE nios2_pcsample_init
  BY <1>0, <1>9, Gone, SameArcs
     DEF McountTyped, nios2_pcsample_init, Choose, Places
<1>10. CASE AllocateHistogram
  BY <1>0, <1>10, Gone, SameArcs, GmonAssumption
     DEF McountTyped, AllocateHistogram, Places
<1>11. CASE StartSampler
  <2>1. PICK c, b :
          /\ Begins(c, InitArc) /\ Len(mcounts) \in Nat \ {0}
          /\ Top = mcounts[Len(mcounts)] /\ mcounts'[Len(mcounts)] = b
          /\ ArcOf(b) = ArcOf(Top)
          /\ \A k \in 1 .. Len(mcounts) - 1 : mcounts'[k] = mcounts[k]
    BY <1>11, StartAhead
  <2>2. \A k \in 1 .. Len(mcounts) : ArcOf(mcounts'[k]) = ArcOf(mcounts[k])
    BY <2>1
  <2>3. mcounts' \in Seq(Counting)
    BY <2>1 DEF Begins
  <2>4. ASSUME NEW k \in 1 .. Len(mcounts') PROVE ArcOf(mcounts'[k]) \in Arcs
    <3>1. ArcOf(mcounts'[Len(mcounts) + 1]) \in Arcs /\ Len(mcounts') = Len(mcounts) + 1
      BY <2>1 DEF Begins
    <3>2. k \in 1 .. Len(mcounts) \/ k = Len(mcounts) + 1
      BY <2>1, <3>1
    <3> QED
      BY <2>2, <3>1, <3>2 DEF McountTyped
  <2> QED
    BY <1>0, <1>11, <2>3, <2>4 DEF McountTyped, StartSampler
<1>12. CASE SamplerStarted
  <2>1. alarms' \in Nat
    BY <1>12 DEF McountTyped, SamplerStarted
  <2>2. /\ mcounts' \in Seq(Counting)
        /\ \A k \in 1 .. Len(mcounts') : ArcOf(mcounts'[k]) \in Arcs
    BY <1>12, Gone, SameArcs DEF SamplerStarted, Places
  <2> QED
    BY <1>0, <1>12, <2>1, <2>2 DEF McountTyped, SamplerStarted
<1>13. CASE DisableInterrupts
  BY <1>0, <1>13, DisabledAhead, SameArcs DEF McountTyped, DisableInterrupts
<1>14. CASE AddFunction
  <2>1. slab' \in 0 .. Slab /\ memory' \in 0 .. Memory
    BY <1>14, SlabTyped DEF AddFunction
  <2> QED
    BY <1>0, <1>14, <2>1, FunctionAdded, AddedAhead, SameArcs DEF McountTyped
<1>15. CASE AddArc
  <2>1. slab' \in 0 .. Slab /\ memory' \in 0 .. Memory
    BY <1>15, SlabTyped DEF AddArc
  <2> QED
    BY <1>0, <1>15, <2>1, ArcAdded, Gone, SameArcs DEF McountTyped, AddArc, Places
<1>16. CASE RestoreInterrupts
  <2>1. Top.context \in BOOLEAN
    BY <1>16, TopTyped DEF RestoreInterrupts, Counting, InMcount
  <2> QED
    BY <1>0, <1>16, <2>1, Gone, SameArcs
       DEF McountTyped, RestoreInterrupts, Places
<1>17. CASE McountReturns
  <2>1. /\ mcounts' \in Seq(Counting) /\ Len(mcounts') = Len(mcounts) - 1
        /\ \A k \in 1 .. Len(mcounts) - 1 : mcounts'[k] = mcounts[k]
        /\ mcounts # << >> /\ Top \in Counting /\ Len(mcounts) \in Nat \ {0}
    BY <1>17, ReturnAhead
  <2>2. ArcOf(Top) \in Arcs
    BY <2>1, TopTyped
  <2>3. made' \in [Arcs -> Nat]
    BY <1>17, <2>2 DEF McountReturns, McountTyped, ArcOf
  <2>4. enabled' \in BOOLEAN
    BY <1>17, <2>1 DEF McountReturns, McountTyped, Counting
  <2>5. \A k \in 1 .. Len(mcounts') : ArcOf(mcounts'[k]) \in Arcs
    BY <2>1 DEF McountTyped
  <2> QED
    BY <1>0, <1>17, <2>1, <2>3, <2>4, <2>5 DEF McountTyped, McountReturns
<1>18. CASE ClockStarts
  BY <1>0, <1>18 DEF McountTyped, ClockStarts
<1>19. ASSUME NEW ea, nios2_pcsample(ea) PROVE McountTyped'
  BY <1>0, <1>19 DEF McountTyped, nios2_pcsample
<1> QED
  BY <1>1, <1>2, <1>3, <1>4, <1>5, <1>6, <1>7, <1>8, <1>9, <1>10, <1>11, <1>12, <1>13,
     <1>14, <1>15, <1>16, <1>17, <1>18, <1>19 DEF GmonNext, GmonStep

(* The sampler is started by one call at a time.                           *)
LEMMA SamplerAdvances ==
  ASSUME SamplerInv, NEW c, NEW p, NEW q, Advances(c, p, q),
         ticking => ticking', samples # "null" => samples' # "null",
         alarms' > 0 => alarms > 0 \/ p = "started",
         need_init' => need_init \/ p = "rate",
         c.pc \in {"buffer", "start", "started"} => ticking',
         c.pc \in {"start", "started"} => samples' # "null",
         c.pc \in Sampling => ~ need_init' /\ p \in Sampling \cup {"clear"},
         c.pc = "clear" => need_init
  PROVE  SamplerInv'
<1>1. /\ Len(mcounts) \in Nat \ {0} /\ Len(mcounts') = Len(mcounts)
      /\ mcounts[Len(mcounts)].pc = p /\ mcounts'[Len(mcounts)] = c
      /\ \A k \in 1 .. Len(mcounts) - 1 : mcounts'[k] = mcounts[k]
  BY DEF Advances, TopMoves
<1>2. alarms' > 0 => samples' # "null" /\ ticking'
  BY <1>1 DEF SamplerInv
<1>3. ASSUME NEW k \in 1 .. Len(mcounts)
      PROVE  /\ mcounts'[k].pc \in {"buffer", "start", "started"} => ticking'
             /\ mcounts'[k].pc \in {"start", "started"} => samples' # "null"
  <2>1. k = Len(mcounts) \/ k \in 1 .. Len(mcounts) - 1
    BY <1>1
  <2> QED
    BY <1>1, <2>1 DEF SamplerInv
<1>4. ASSUME NEW k \in 1 .. Len(mcounts), mcounts'[k].pc \in Sampling
      PROVE  /\ ~ need_init'
             /\ \A j \in k + 1 .. Len(mcounts) :
                  mcounts'[j].pc \notin Sampling \cup {"clear"}
  <2>1. CASE k = Len(mcounts)
    BY <1>1, <1>4, <2>1
  <2>2. CASE k \in 1 .. Len(mcounts) - 1
    <3>1. /\ ~ need_init /\ p \notin Sampling \cup {"clear"}
          /\ \A j \in k + 1 .. Len(mcounts) :
               mcounts[j].pc \notin Sampling \cup {"clear"}
      BY <1>1, <1>4, <2>2 DEF SamplerInv
    <3>2. c.pc \notin Sampling \cup {"clear"}
      BY <3>1
    <3>3. p # "rate"
      BY <3>1 DEF Sampling
    <3>4. \A j \in k + 1 .. Len(mcounts) :
            mcounts'[j].pc \notin Sampling \cup {"clear"}
      BY <1>1, <2>2, <3>1, <3>2
    <3> QED
      BY <3>1, <3>3, <3>4
  <2> QED
    BY <1>1, <2>1, <2>2
<1> QED
  BY <1>1, <1>2, <1>3, <1>4 DEF SamplerInv

LEMMA SamplerBegins ==
  ASSUME SamplerInv, NEW c, NEW a, Begins(c, a), Kept, UNCHANGED samplerVars
  PROVE  SamplerInv'
<1>1. /\ Len(mcounts) \in Nat /\ Len(mcounts') = Len(mcounts) + 1
      /\ mcounts'[Len(mcounts) + 1].pc = "find"
      /\ \A k \in 1 .. Len(mcounts) : mcounts'[k] = mcounts[k]
  BY DEF Begins, Kept
<1>2. UNCHANGED <<need_init, samples, alarms, ticking>>
  BY DEF samplerVars
<1>3. ASSUME NEW k \in 1 .. Len(mcounts')
      PROVE  /\ mcounts'[k].pc \in {"buffer", "start", "started"} => ticking'
             /\ mcounts'[k].pc \in {"start", "started"} => samples' # "null"
  <2>1. k = Len(mcounts) + 1 \/ k \in 1 .. Len(mcounts)
    BY <1>1
  <2> QED
    BY <1>1, <1>2, <2>1 DEF SamplerInv
<1>4. ASSUME NEW k \in 1 .. Len(mcounts'), mcounts'[k].pc \in Sampling
      PROVE  /\ ~ need_init'
             /\ \A j \in k + 1 .. Len(mcounts') :
                  mcounts'[j].pc \notin Sampling \cup {"clear"}
  <2>1. k \in 1 .. Len(mcounts)
    BY <1>1, <1>4 DEF Sampling
  <2>2. /\ ~ need_init
        /\ \A j \in k + 1 .. Len(mcounts) :
             mcounts[j].pc \notin Sampling \cup {"clear"}
    BY <1>1, <1>4, <2>1 DEF SamplerInv
  <2>3. "find" \notin Sampling \cup {"clear"}
    BY DEF Sampling
  <2> QED
    BY <1>1, <1>2, <2>1, <2>2, <2>3
<1> QED
  BY <1>2, <1>3, <1>4 DEF SamplerInv

LEMMA SamplerReturns ==
  ASSUME McountTyped, SamplerInv, McountReturns
  PROVE  SamplerInv'
<1>1. /\ Len(mcounts) \in Nat \ {0} /\ Len(mcounts') = Len(mcounts) - 1
      /\ \A k \in 1 .. Len(mcounts) - 1 : mcounts'[k] = mcounts[k]
  BY ReturnAhead
<1>2. UNCHANGED <<need_init, samples, alarms, ticking>>
  BY DEF McountReturns, samplerVars
<1>3. ASSUME NEW k \in 1 .. Len(mcounts')
      PROVE  /\ k \in 1 .. Len(mcounts) /\ mcounts'[k] = mcounts[k]
             /\ \A j \in k + 1 .. Len(mcounts') :
                  j \in k + 1 .. Len(mcounts) /\ mcounts'[j] = mcounts[j]
  BY <1>1
<1> QED
  BY <1>2, <1>3 DEF SamplerInv

LEMMA SamplerCalls ==
  ASSUME McountTyped, SamplerInv, StartSampler
  PROVE  SamplerInv'
<1>1. PICK c, b :
        /\ Begins(c, InitArc) /\ Len(mcounts) \in Nat \ {0}
        /\ Top = mcounts[Len(mcounts)] /\ Top.pc = "start"
        /\ mcounts'[Len(mcounts)] = b /\ b.pc = "started"
        /\ \A k \in 1 .. Len(mcounts) - 1 : mcounts'[k] = mcounts[k]
  BY StartAhead
<1>2. Len(mcounts') = Len(mcounts) + 1 /\ mcounts'[Len(mcounts) + 1].pc = "find"
  BY <1>1 DEF Begins
<1>3. UNCHANGED <<need_init, samples, alarms, ticking>>
  BY DEF StartSampler, samplerVars
<1>4. ticking /\ samples # "null" /\ ~ need_init
  BY <1>1 DEF SamplerInv, Sampling
<1>5. ASSUME NEW k \in 1 .. Len(mcounts'), mcounts'[k].pc \in Sampling
      PROVE  \A j \in k + 1 .. Len(mcounts') :
               mcounts'[j].pc \notin Sampling \cup {"clear"}
  <2>f. "find" \notin Sampling \cup {"clear"} /\ "start" \in Sampling
    BY DEF Sampling
  <2>1. k \in 1 .. Len(mcounts)
    BY <1>1, <1>2, <1>5, <2>f
  <2>2. CASE k = Len(mcounts)
    BY <1>1, <1>2, <2>2, <2>f
  <2>3. CASE k \in 1 .. Len(mcounts) - 1
    BY <1>1, <1>5, <2>3, <2>f DEF SamplerInv
  <2> QED
    BY <1>1, <2>1, <2>2, <2>3
<1> QED
  BY <1>3, <1>4, <1>5 DEF SamplerInv

LEMMA SamplerStep ==
  ASSUME McountTyped, SamplerInv, CellInv, GmonNext
  PROVE  SamplerInv'
<1> USE DEF samplerVars, Sampling
<1>a. mcounts # << >> => Len(mcounts) \in Nat \ {0} /\ Top = mcounts[Len(mcounts)]
  BY TopTyped
<1>1. ASSUME NEW arc \in ProgramArcs, ProgramMcounts(arc) PROVE SamplerInv'
  BY <1>1, ProgramAhead, SamplerBegins DEF ProgramMcounts
<1>2. ASSUME NEW arc \in handler_arcs, HandlerMcounts(arc) PROVE SamplerInv'
  BY <1>2, HandlerAhead, SamplerBegins DEF HandlerMcounts
<1>3. CASE SearchFunctions
  BY <1>3, SearchedAhead, SamplerAdvances DEF Advances, SearchFunctions
<1>4. CASE SearchArcs
  BY <1>4, WalkedAhead, SamplerAdvances DEF Advances, SearchArcs
<1>5. CASE LoadCount
  BY <1>5, LoadedAhead, SamplerAdvances DEF Advances, LoadCount
<1>6. CASE StoreCount
  <2>1. PICK c : Advances(c, "store", {"return"})
    BY <1>6, Gone DEF StoreCount, Places
  <2> QED
    BY <1>6, <2>1, SamplerAdvances DEF Advances, StoreCount
<1>7. CASE __mcount_record
  <2>1. PICK c : Advances(c, "record", {IF need_init THEN "clear" ELSE "disable"})
    BY <1>7, Gone DEF __mcount_record, Choose, Places
  <2> QED
    BY <1>7, <2>1, SamplerAdvances DEF Advances, __mcount_record
<1>8. CASE ClearNeedInit
  <2>1. PICK c : Advances(c, "clear", {"rate"})
    BY <1>8, Gone DEF ClearNeedInit, Places
  <2> QED
    BY <1>8, <2>1, SamplerAdvances DEF Advances, ClearNeedInit
<1>9. CASE nios2_pcsample_init
  <2>1. PICK c : Advances(c, "rate", {IF ticking THEN "buffer" ELSE "disable"})
    BY <1>9, Gone DEF nios2_pcsample_init, Choose, Places
  <2>2. ~ need_init
    BY <1>9, <1>a DEF SamplerInv, nios2_pcsample_init, InMcount
  <2> QED
    BY <1>9, <2>1, <2>2, SamplerAdvances DEF Advances, nios2_pcsample_init
<1>10. CASE AllocateHistogram
  <2>1. PICK c : Advances(c, "buffer", {"start"})
    BY <1>10, Gone DEF AllocateHistogram, Places
  <2>2. ~ need_init /\ ticking
    BY <1>10, <1>a DEF SamplerInv, AllocateHistogram, InMcount
  <2> QED
    BY <1>10, <2>1, <2>2, SamplerAdvances DEF Advances, AllocateHistogram
<1>11. CASE StartSampler
  BY <1>11, SamplerCalls
<1>12. CASE SamplerStarted
  <2>1. PICK c : Advances(c, "started", {"disable"})
    BY <1>12, Gone DEF SamplerStarted, Places
  <2> QED
    BY <1>12, <2>1, SamplerAdvances DEF Advances, SamplerStarted
<1>13. CASE DisableInterrupts
  BY <1>13, DisabledAhead, SamplerAdvances DEF Advances, DisableInterrupts
<1>14. CASE AddFunction
  BY <1>14, AddedAhead, SamplerAdvances DEF Advances, AddFunction
<1>15. CASE AddArc
  <2>1. PICK c : Advances(c, "arc", {"enable"})
    BY <1>15, Gone DEF AddArc, Places
  <2> QED
    BY <1>15, <2>1, SamplerAdvances DEF Advances, AddArc
<1>16. CASE RestoreInterrupts
  <2>1. PICK c : Advances(c, "enable", {"return"})
    BY <1>16, Gone DEF RestoreInterrupts, Places
  <2> QED
    BY <1>16, <2>1, SamplerAdvances DEF Advances, RestoreInterrupts
<1>17. CASE McountReturns
  BY <1>17, SamplerReturns
<1>18. CASE ClockStarts
  BY <1>18 DEF SamplerInv, ClockStarts
<1>19. ASSUME NEW ea, nios2_pcsample(ea) PROVE SamplerInv'
  BY <1>19 DEF SamplerInv, nios2_pcsample
<1> QED
  BY <1>1, <1>2, <1>3, <1>4, <1>5, <1>6, <1>7, <1>8, <1>9, <1>10, <1>11, <1>12, <1>13,
     <1>14, <1>15, <1>16, <1>17, <1>18, <1>19 DEF GmonNext, GmonStep

(* Who interrupts whom.                                                    *)
LEMMA NestAdvances ==
  ASSUME NestInv, NEW c, NEW p, NEW q, Advances(c, p, q), UNCHANGED handler_arcs,
         enabled' <=> ~ HandlerRuns /\ c.pc \notin Changing,
         c.pc \in Changing => (c.context <=> ~ HandlerRuns)
  PROVE  NestInv'
<1>1. /\ Len(mcounts) \in Nat \ {0} /\ Len(mcounts') = Len(mcounts)
      /\ mcounts[Len(mcounts)].handler = c.handler
      /\ ArcOf(mcounts[Len(mcounts)]) = ArcOf(c)
      /\ mcounts'[Len(mcounts)] = c /\ Top' = c /\ mcounts' # << >>
      /\ \A k \in 1 .. Len(mcounts) - 1 : mcounts'[k] = mcounts[k]
  BY DEF Advances, TopMoves
<1>2. ASSUME NEW k \in 1 .. Len(mcounts)
      PROVE  /\ mcounts'[k].handler = mcounts[k].handler
             /\ ArcOf(mcounts'[k]) = ArcOf(mcounts[k])
             /\ k # Len(mcounts) => mcounts'[k] = mcounts[k]
  BY <1>1
<1>3. HandlerRuns' <=> HandlerRuns
  BY <1>1, <1>2 DEF HandlerRuns
<1>4. ASSUME NEW k \in 1 .. Len(mcounts), mcounts'[k].handler
      PROVE  /\ ArcOf(mcounts'[k]) \in handler_arcs
             /\ \A j \in 1 .. Len(mcounts) : mcounts'[j].handler => j = k
  BY <1>2, <1>4 DEF NestInv
<1>5. ASSUME NEW k \in 1 .. Len(mcounts), ~ mcounts'[k].handler
      PROVE  IF k = 1 THEN ArcOf(mcounts'[k]) \in ProgramArcs
             ELSE mcounts'[k - 1].pc = "started" /\ ArcOf(mcounts'[k]) = InitArc
  <2>1. k # 1 => k - 1 \in 1 .. Len(mcounts) - 1
    BY <1>1
  <2> QED
    BY <1>1, <1>2, <1>5, <2>1 DEF NestInv
<1>6. ASSUME NEW k \in 1 .. Len(mcounts), mcounts'[k].pc \in Changing
      PROVE  k = Len(mcounts) /\ (mcounts'[k].context <=> ~ HandlerRuns)
  BY <1>1, <1>2, <1>6 DEF NestInv
<1> QED
  BY <1>1, <1>3, <1>4, <1>5, <1>6 DEF NestInv

LEMMA NestBegins ==
  ASSUME NestInv, NEW c, NEW a, Begins(c, a), UNCHANGED handler_arcs,
         \A k \in 1 .. Len(mcounts) :
           /\ mcounts'[k].handler <=> mcounts[k].handler
           /\ ArcOf(mcounts'[k]) = ArcOf(mcounts[k])
           /\ mcounts'[k].pc \notin Changing
           /\ k # Len(mcounts) => mcounts'[k] = mcounts[k],
         c.handler => ~ HandlerRuns /\ a \in handler_arcs /\ ~ enabled',
         ~ c.handler => (enabled' <=> ~ HandlerRuns),
         ~ c.handler => IF mcounts = << >> THEN a \in ProgramArcs
                        ELSE mcounts'[Len(mcounts)].pc = "started" /\ a = InitArc
  PROVE  NestInv'
<1>1. /\ Len(mcounts) \in Nat /\ Len(mcounts') = Len(mcounts) + 1
      /\ mcounts'[Len(mcounts) + 1] = c /\ Top' = c /\ c.pc = "find" /\ ArcOf(c) = a
      /\ mcounts \in Seq(Counting) /\ mcounts' \in Seq(Counting)
  BY DEF Begins
<1>n. mcounts = << >> <=> Len(mcounts) = 0
  BY <1>1
<1>2. HandlerRuns' <=> HandlerRuns \/ c.handler
  BY <1>1 DEF HandlerRuns
<1>3. enabled' <=> ~ HandlerRuns'
  BY <1>2
<1>c. "find" \notin Changing
  BY DEF Changing
<1>4. ASSUME NEW k \in 1 .. Len(mcounts'), mcounts'[k].handler
      PROVE  /\ ArcOf(mcounts'[k]) \in handler_arcs
             /\ \A j \in 1 .. Len(mcounts') : mcounts'[j].handler => j = k
  <2>1. CASE k = Len(mcounts) + 1
    BY <1>1, <1>4, <2>1 DEF HandlerRuns
  <2>2. CASE k \in 1 .. Len(mcounts)
    <3>1. HandlerRuns /\ ~ c.handler
      BY <1>4, <2>2 DEF HandlerRuns
    <3>2. mcounts[k].handler /\ ArcOf(mcounts'[k]) = ArcOf(mcounts[k])
      BY <1>4, <2>2
    <3>3. /\ ArcOf(mcounts[k]) \in handler_arcs
          /\ \A j \in 1 .. Len(mcounts) : mcounts[j].handler => j = k
      BY <2>2, <3>2 DEF NestInv
    <3>4. ASSUME NEW j \in 1 .. Len(mcounts'), mcounts'[j].handler PROVE j = k
      <4>1. j \in 1 .. Len(mcounts) \/ j = Len(mcounts) + 1
        BY <1>1
      <4> QED
        BY <1>1, <3>1, <3>3, <3>4, <4>1
    <3> QED
      BY <3>2, <3>3, <3>4
  <2> QED
    BY <1>1, <2>1, <2>2
<1>5. ASSUME NEW k \in 1 .. Len(mcounts'), ~ mcounts'[k].handler
      PROVE  IF k = 1 THEN ArcOf(mcounts'[k]) \in ProgramArcs
             ELSE mcounts'[k - 1].pc = "started" /\ ArcOf(mcounts'[k]) = InitArc
  <2>1. CASE k = Len(mcounts) + 1
    BY <1>1, <1>n, <1>5, <2>1
  <2>2. CASE k \in 1 .. Len(mcounts)
    <3>1. IF k = 1 THEN ArcOf(mcounts[k]) \in ProgramArcs
          ELSE mcounts[k - 1].pc = "started" /\ ArcOf(mcounts[k]) = InitArc
      BY <1>5, <2>2 DEF NestInv
    <3>2. k # 1 => k - 1 \in 1 .. Len(mcounts) /\ k - 1 # Len(mcounts)
      BY <1>1, <2>2
    <3> QED
      BY <2>2, <3>1, <3>2
  <2> QED
    BY <1>1, <2>1, <2>2
<1>6. \A k \in 1 .. Len(mcounts') : mcounts'[k].pc \notin Changing
  BY <1>1, <1>c
<1>7. mcounts' # << >> /\ Top'.pc \notin Changing
  BY <1>1, <1>c
<1> QED
  BY <1>3, <1>4, <1>5, <1>6, <1>7 DEF NestInv

LEMMA NestReturns ==
  ASSUME McountTyped, NestInv, McountReturns, UNCHANGED handler_arcs
  PROVE  NestInv'
<1>1. /\ mcounts # << >> /\ Len(mcounts) \in Nat \ {0} /\ Top = mcounts[Len(mcounts)]
      /\ Top \in Counting /\ Top.pc = "return" /\ mcounts' \in Seq(Counting)
      /\ Len(mcounts') = Len(mcounts) - 1
      /\ \A k \in 1 .. Len(mcounts) - 1 : mcounts'[k] = mcounts[k]
      /\ Len(mcounts) > 1 => mcounts' # << >> /\ Top' = mcounts[Len(mcounts) - 1]
  BY ReturnAhead
<1>2. enabled' <=> enabled \/ Top.handler
  BY DEF McountReturns
<1>3. HandlerRuns' <=> HandlerRuns /\ ~ Top.handler
  <2>1. ASSUME HandlerRuns' PROVE HandlerRuns /\ ~ Top.handler
    <3>1. PICK k \in 1 .. Len(mcounts) - 1 : mcounts[k].handler
      BY <1>1, <2>1 DEF HandlerRuns
    <3> QED
      BY <1>1, <3>1 DEF HandlerRuns, NestInv
  <2>2. ASSUME HandlerRuns, ~ Top.handler PROVE HandlerRuns'
    <3>1. PICK k \in 1 .. Len(mcounts) : mcounts[k].handler
      BY <2>2 DEF HandlerRuns
    <3>2. k \in 1 .. Len(mcounts) - 1
      BY <1>1, <2>2, <3>1
    <3> QED
      BY <1>1, <3>1, <3>2 DEF HandlerRuns
  <2> QED
    BY <2>1, <2>2
<1>4. enabled <=> ~ HandlerRuns
  BY <1>1 DEF NestInv, Changing
<1>5. enabled' <=> ~ HandlerRuns'
  BY <1>1, <1>2, <1>3, <1>4 DEF HandlerRuns
<1>6. \A k \in 1 .. Len(mcounts') : mcounts'[k].pc \notin Changing
  BY <1>1 DEF NestInv
<1>7. mcounts' = << >> \/ Top'.pc \notin Changing
  <2>1. CASE Len(mcounts) = 1
    BY <1>1, <2>1
  <2>2. CASE Len(mcounts) > 1
    <3>1. Len(mcounts) - 1 \in 1 .. Len(mcounts)
      BY <1>1, <2>2
    <3> QED
      BY <1>1, <2>2, <3>1 DEF NestInv
  <2> QED
    BY <1>1, <2>1, <2>2
<1>8. ASSUME NEW k \in 1 .. Len(mcounts'), mcounts'[k].handler
      PROVE  /\ ArcOf(mcounts'[k]) \in handler_arcs
             /\ \A j \in 1 .. Len(mcounts') : mcounts'[j].handler => j = k
  BY <1>1, <1>8 DEF NestInv
<1>9. ASSUME NEW k \in 1 .. Len(mcounts'), ~ mcounts'[k].handler
      PROVE  IF k = 1 THEN ArcOf(mcounts'[k]) \in ProgramArcs
             ELSE mcounts'[k - 1].pc = "started" /\ ArcOf(mcounts'[k]) = InitArc
  <2>1. k \in 1 .. Len(mcounts) /\ mcounts'[k] = mcounts[k]
    BY <1>1
  <2>2. k # 1 => k - 1 \in 1 .. Len(mcounts) - 1
    BY <1>1
  <2> QED
    BY <1>1, <1>9, <2>1, <2>2 DEF NestInv
<1> QED
  BY <1>5, <1>6, <1>7, <1>8, <1>9 DEF NestInv

LEMMA NestStep ==
  ASSUME McountTyped, NestInv, CellInv, GmonNext
  PROVE  NestInv'
<1> USE DEF samplerVars
<1>a. mcounts # << >> => Len(mcounts) \in Nat \ {0} /\ Top = mcounts[Len(mcounts)]
  BY TopTyped
<1>h. UNCHANGED handler_arcs
  BY DEF GmonNext
<1>n. ASSUME mcounts # << >>, Top.pc \notin Changing
      PROVE  /\ enabled <=> ~ HandlerRuns
             /\ \A k \in 1 .. Len(mcounts) : mcounts[k].pc \notin Changing
  BY <1>a, <1>n DEF NestInv
<1>s. ASSUME NEW c, NEW p, NEW q, Advances(c, p, q), UNCHANGED enabled,
             p \notin Changing, q \cap Changing = {}
      PROVE  NestInv'
  <2>1. c.pc \notin Changing /\ (enabled <=> ~ HandlerRuns)
    BY <1>n, <1>s DEF Advances
  <2> QED
    BY <1>h, <1>s, <2>1, NestAdvances
<1>1. ASSUME NEW arc \in ProgramArcs, ProgramMcounts(arc) PROVE NestInv'
  <2>1. PICK c : Begins(c, arc) /\ Kept /\ mcounts = << >> /\ ~ c.handler
    BY <1>1, ProgramAhead
  <2>2. enabled' <=> enabled
    BY <1>1 DEF ProgramMcounts
  <2>3. Len(mcounts) = 0 /\ ~ HandlerRuns
    BY <2>1 DEF HandlerRuns
  <2> QED
    BY <1>h, <2>1, <2>2, <2>3, NestBegins DEF NestInv
<1>2. ASSUME NEW arc \in handler_arcs, HandlerMcounts(arc) PROVE NestInv'
  <2>1. PICK c : Begins(c, arc) /\ Kept /\ c.handler
    BY <1>2, HandlerAhead
  <2>2. enabled /\ ~ enabled'
    BY <1>2 DEF HandlerMcounts
  <2>3. ~ HandlerRuns /\ \A k \in 1 .. Len(mcounts) : mcounts[k].pc \notin Changing
    BY <1>a, <2>2 DEF NestInv
  <2> QED
    BY <1>h, <2>1, <2>2, <2>3, NestBegins DEF Kept
<1>3. CASE SearchFunctions
  BY <1>3, <1>s, SearchedAhead DEF SearchFunctions, Changing
<1>4. CASE SearchArcs
  BY <1>4, <1>s, WalkedAhead DEF SearchArcs, Changing
<1>5. CASE LoadCount
  BY <1>5, <1>s, LoadedAhead DEF LoadCount, Changing
<1>g. ASSUME NEW p, InMcount(p), NEW r \in Places, GoesTo(r), UNCHANGED enabled,
             p \notin Changing, r \notin Changing
      PROVE  NestInv'
  <2>1. PICK c : Advances(c, p, {r})
    BY <1>g, Gone
  <2> QED
    BY <1>g, <1>s, <2>1
<1>6. CASE StoreCount
  BY <1>6, <1>g DEF StoreCount, Changing, Places
<1>7. CASE __mcount_record
  BY <1>7, <1>g DEF __mcount_record, Choose, Changing, Places
<1>8. CASE ClearNeedInit
  BY <1>8, <1>g DEF ClearNeedInit, Changing, Places
<1>9. CASE nios2_pcsample_init
  BY <1>9, <1>g DEF nios2_pcsample_init, Choose, Changing, Places
<1>10. CASE AllocateHistogram
  BY <1>10, <1>g DEF AllocateHistogram, Changing, Places
<1>11. CASE StartSampler
  <2>1. PICK c, b :
          /\ Begins(c, InitArc) /\ ~ c.handler
          /\ mcounts # << >> /\ Len(mcounts) \in Nat \ {0}
          /\ Top = mcounts[Len(mcounts)] /\ Top.pc = "start"
          /\ mcounts'[Len(mcounts)] = b /\ b.pc = "started"
          /\ ArcOf(b) = ArcOf(Top) /\ b.handler = Top.handler
          /\ \A k \in 1 .. Len(mcounts) - 1 : mcounts'[k] = mcounts[k]
    BY <1>11, StartAhead
  <2>2. /\ enabled' <=> ~ HandlerRuns
        /\ \A k \in 1 .. Len(mcounts) : mcounts[k].pc \notin Changing
    BY <1>11, <1>n, <2>1 DEF StartSampler, Changing
  <2>3. ASSUME NEW k \in 1 .. Len(mcounts)
        PROVE  /\ mcounts'[k].handler <=> mcounts[k].handler
               /\ ArcOf(mcounts'[k]) = ArcOf(mcounts[k])
               /\ mcounts'[k].pc \notin Changing
               /\ k # Len(mcounts) => mcounts'[k] = mcounts[k]
    <3>1. k = Len(mcounts) \/ k \in 1 .. Len(mcounts) - 1
      BY <2>1
    <3>2. "started" \notin Changing
      BY DEF Changing
    <3> QED
      BY <2>1, <2>2, <3>1, <3>2
  <2> QED
    BY <1>h, <2>1, <2>2, <2>3, NestBegins
<1>12. CASE SamplerStarted
  BY <1>12, <1>g DEF SamplerStarted, Changing, Places
<1>13. CASE DisableInterrupts
  <2>1. PICK c : /\ Advances(c, "disable", {"function", "arc"})
                 /\ (c.context <=> enabled)
    BY <1>13, DisabledAhead
  <2>2. enabled <=> ~ HandlerRuns
    BY <1>n, <2>1 DEF Advances, Changing
  <2>3. c.pc \in Changing /\ ~ enabled'
    BY <1>13, <2>1 DEF Advances, Changing, DisableInterrupts
  <2> QED
    BY <1>h, <2>1, <2>2, <2>3, NestAdvances
<1>c. ASSUME NEW c, NEW p \in Changing, NEW q, Advances(c, p, q),
             c.context <=> Top.context, UNCHANGED enabled, c.pc \in Changing
      PROVE  NestInv'
  <2>1. ~ enabled /\ (Top.context <=> ~ HandlerRuns)
    BY <1>c, <1>a DEF Advances, NestInv
  <2> QED
    BY <1>h, <1>c, <2>1, NestAdvances
<1>14. CASE AddFunction
  <2>1. PICK c : Advances(c, "function", {"arc"}) /\ (c.context <=> Top.context)
    BY <1>14, AddedAhead
  <2> QED
    BY <1>14, <1>c, <2>1 DEF AddFunction, Advances, Changing
<1>15. CASE AddArc
  <2>1. PICK c : Advances(c, "arc", {"enable"}) /\ Same(c)
    BY <1>15, Gone DEF AddArc, Places
  <2> QED
    BY <1>15, <1>c, <2>1 DEF AddArc, Advances, Same, Changing
<1>16. CASE RestoreInterrupts
  <2>1. PICK c : Advances(c, "enable", {"return"})
    BY <1>16, Gone DEF RestoreInterrupts, Places
  <2>2. Top.context <=> ~ HandlerRuns
    BY <1>a, <2>1 DEF Advances, NestInv, Changing
  <2>3. (enabled' <=> ~ HandlerRuns) /\ c.pc \notin Changing
    BY <1>16, <2>1, <2>2 DEF RestoreInterrupts, Advances, Changing
  <2> QED
    BY <1>h, <2>1, <2>3, NestAdvances
<1>17. CASE McountReturns
  BY <1>17, <1>h, NestReturns
<1>18. CASE ClockStarts
  BY <1>18, <1>h DEF NestInv, ClockStarts, HandlerRuns, Top
<1>19. ASSUME NEW ea, nios2_pcsample(ea) PROVE NestInv'
  BY <1>19, <1>h DEF NestInv, nios2_pcsample, HandlerRuns, Top
<1> QED
  BY <1>1, <1>2, <1>3, <1>4, <1>5, <1>6, <1>7, <1>8, <1>9, <1>10, <1>11, <1>12, <1>13,
     <1>14, <1>15, <1>16, <1>17, <1>18, <1>19 DEF GmonNext, GmonStep

(* What the lists hold, as they grow.                                      *)
Grows(l, m) ==
  /\ Len(l) \in Nat /\ Len(m) \in Nat /\ Len(l) <= Len(m)
  /\ \A f \in 1 .. Len(l) :
       /\ m[f].self = l[f].self
       /\ Len(l[f].arcs) \in Nat /\ Len(m[f].arcs) \in Nat
       /\ Len(l[f].arcs) <= Len(m[f].arcs)
       /\ \A k \in 1 .. Len(l[f].arcs) : m[f].arcs[k].from = l[f].arcs[k].from

LEMMA ArcsListed ==
  ASSUME NEW l \in Seq(Entry), NEW f \in 1 .. Len(l)
  PROVE  /\ l[f] \in Entry /\ Len(l[f].arcs) \in Nat
         /\ \A k \in 1 .. Len(l[f].arcs) : l[f].arcs[k].count \in Nat \ {0}
<1>1. l[f] \in Entry
  OBVIOUS
<1> DEFINE A == [from : {a[2] : a \in Arcs}, count : Nat \ {0}]
<1>2. PICK s \in Seq(A) : s = l[f].arcs
  BY <1>1 DEF Entry
<1>3. \A k \in 1 .. Len(s) : s[k] \in A
  <2> HIDE DEF A
  <2> QED
    OBVIOUS
<1> QED
  BY <1>1, <1>2, <1>3

LEMMA GrownHas ==
  ASSUME NEW l, NEW m, Grows(l, m), NEW a, HasArc(l, a)
  PROVE  HasArc(m, a)
<1>1. PICK f \in 1 .. Len(l) :
        l[f].self = a[1] /\ \E k \in 1 .. Len(l[f].arcs) : l[f].arcs[k].from = a[2]
  BY DEF HasArc
<1>2. PICK k \in 1 .. Len(l[f].arcs) : l[f].arcs[k].from = a[2]
  BY <1>1
<1>3. f \in 1 .. Len(m) /\ m[f].self = a[1] /\ k \in 1 .. Len(m[f].arcs)
      /\ m[f].arcs[k].from = a[2]
  BY <1>1, <1>2 DEF Grows
<1> QED
  BY <1>3 DEF HasArc

LEMMA GrownFound ==
  ASSUME NEW l, NEW m, Grows(l, m), NEW c, FoundIn(l, c)
  PROVE  FoundIn(m, c)
<1>1. /\ c.fn # 0 => c.fn \in 1 .. Len(m) /\ m[c.fn].self = c.self
      /\ c.pc \in {"walk", "load", "store", "arc"} => c.fn # 0
  BY DEF FoundIn, Grows
<1>2. c.pc \in {"load", "store"} =>
        /\ c.arc \in 1 .. Len(m[c.fn].arcs)
        /\ m[c.fn].arcs[c.arc].from = c.from
  <2> SUFFICES ASSUME c.pc \in {"load", "store"}
               PROVE  /\ c.arc \in 1 .. Len(m[c.fn].arcs)
                      /\ m[c.fn].arcs[c.arc].from = c.from
    OBVIOUS
  <2>1. c.fn \in 1 .. Len(l) /\ c.arc \in 1 .. Len(l[c.fn].arcs)
    BY DEF FoundIn
  <2>2. l[c.fn].arcs[c.arc].from = c.from
    BY DEF FoundIn
  <2>3. /\ Len(l[c.fn].arcs) \in Nat /\ Len(m[c.fn].arcs) \in Nat
        /\ Len(l[c.fn].arcs) <= Len(m[c.fn].arcs)
        /\ \A k \in 1 .. Len(l[c.fn].arcs) : m[c.fn].arcs[k].from = l[c.fn].arcs[k].from
    BY <2>1 DEF Grows
  <2>4. c.arc \in 1 .. Len(m[c.fn].arcs)
    BY <2>1, <2>3
  <2>5. m[c.fn].arcs[c.arc].from = l[c.fn].arcs[c.arc].from
    BY <2>1, <2>3, Zenon
  <2> QED
    BY <2>2, <2>4, <2>5, Zenon
<1>3. c.pc \in {"enable", "return"} => HasArc(m, ArcOf(c))
  BY GrownHas DEF FoundIn
<1> QED
  BY <1>1, <1>2, <1>3 DEF FoundIn

LEMMA SameGrows ==
  ASSUME McountTyped, UNCHANGED fns
  PROVE  Grows(fns, fns')
<1>1. fns \in Seq(Entry)
  BY DEF McountTyped
<1>2. \A f \in 1 .. Len(fns) : Len(fns[f].arcs) \in Nat
  BY <1>1, ArcsListed
<1> QED
  BY <1>1, <1>2 DEF Grows

LEMMA AddFunctionGrows ==
  ASSUME McountTyped, AddFunction
  PROVE  Grows(fns, fns')
<1>1. fns \in Seq(Entry)
  BY DEF McountTyped
<1>2. \A f \in 1 .. Len(fns) : Len(fns[f].arcs) \in Nat
  BY <1>1, ArcsListed
<1> QED
  BY <1>1, <1>2, FunctionAdded DEF Grows

LEMMA AddArcGrows ==
  ASSUME McountTyped, CellInv, AddArc
  PROVE  Grows(fns, fns')
<1>1. fns \in Seq(Entry)
  BY DEF McountTyped
<1>2. \A f \in 1 .. Len(fns) : Len(fns[f].arcs) \in Nat
  BY <1>1, ArcsListed
<1>3. /\ Len(fns') = Len(fns) /\ Len(fns) \in Nat
      /\ \A f \in 1 .. Len(fns) :
           fns'[f].self = fns[f].self /\ (f # Top.fn => fns'[f] = fns[f])
      /\ Len(fns'[Top.fn].arcs) = Len(fns[Top.fn].arcs) + 1
      /\ \A k \in 1 .. Len(fns[Top.fn].arcs) :
           fns'[Top.fn].arcs[k] = fns[Top.fn].arcs[k]
  BY <1>1, ArcAdded
<1>4. ASSUME NEW f \in 1 .. Len(fns)
      PROVE  /\ fns'[f].self = fns[f].self /\ Len(fns'[f].arcs) \in Nat
             /\ Len(fns[f].arcs) <= Len(fns'[f].arcs)
             /\ \A k \in 1 .. Len(fns[f].arcs) :
                  fns'[f].arcs[k].from = fns[f].arcs[k].from
  <2>1. CASE f = Top.fn
    BY <1>2, <1>3, <2>1
  <2>2. CASE f # Top.fn
    BY <1>2, <1>3, <2>2
  <2> QED
    BY <2>1, <2>2
<1> QED
  BY <1>2, <1>3, <1>4 DEF Grows

LEMMA StoreGrows ==
  ASSUME McountTyped, CellInv, StoreCount
  PROVE  Grows(fns, fns')
<1>1. fns \in Seq(Entry)
  BY DEF McountTyped
<1>2. \A f \in 1 .. Len(fns) : fns[f] \in Entry /\ Len(fns[f].arcs) \in Nat
  BY <1>1, ArcsListed
<1>3. ASSUME NEW f \in 1 .. Len(fns), NEW k \in 1 .. Len(fns[f].arcs)
      PROVE  fns'[f].arcs[k].from = fns[f].arcs[k].from
  <2>1. fns'[f].arcs[k] = IF f = Top.fn /\ k = Top.arc
                          THEN [fns[f].arcs[k] EXCEPT !.count = Top.count + 1]
                          ELSE fns[f].arcs[k]
    BY Stored
  <2> DEFINE A == [from : {a[2] : a \in Arcs}, count : Nat \ {0}]
  <2>2. PICK s \in Seq(A) : s = fns[f].arcs
    BY <1>2 DEF Entry
  <2> HIDE DEF A
  <2>3. fns[f].arcs[k] \in A
    BY <2>2
  <2> QED
    BY <2>1, <2>3 DEF A
<1>4. /\ Len(fns') = Len(fns) /\ Len(fns) \in Nat
      /\ \A f \in 1 .. Len(fns) :
           fns'[f].self = fns[f].self /\ Len(fns'[f].arcs) = Len(fns[f].arcs)
  BY <1>1, Stored
<1> QED
  BY <1>2, <1>3, <1>4 DEF Grows

LEMMA CellMoves ==
  ASSUME CellInv, Grows(fns, fns'), UNCHANGED made,
         \A k \in 1 .. Len(mcounts') :
           \/ FoundIn(fns', mcounts'[k])
           \/ k \in 1 .. Len(mcounts) /\ mcounts'[k] = mcounts[k],
         \A f \in 1 .. Len(fns') :
           Len(fns'[f].arcs) = 0 => InMcount("arc")' /\ Top'.fn = f
  PROVE  CellInv'
<1>1. ASSUME NEW k \in 1 .. Len(mcounts') PROVE FoundIn(fns', mcounts'[k])
  <2>1. CASE k \in 1 .. Len(mcounts) /\ mcounts'[k] = mcounts[k]
    <3>1. FoundIn(fns, mcounts[k])
      BY <2>1 DEF CellInv
    <3> QED
      BY <2>1, <3>1, GrownFound
  <2> QED
    BY <2>1
<1>2. ASSUME NEW a \in Arcs, made'[a] > 0 PROVE HasArc(fns', a)
  <2>1. HasArc(fns, a)
    BY <1>2 DEF CellInv
  <2> QED
    BY <2>1, GrownHas
<1> QED
  BY <1>1, <1>2 DEF CellInv

LEMMA CellAdvances ==
  ASSUME CellInv, Grows(fns, fns'), UNCHANGED made, NEW c, NEW p, NEW q,
         Advances(c, p, q), FoundIn(fns', c),
         \A f \in 1 .. Len(fns') :
           Len(fns'[f].arcs) = 0 => InMcount("arc")' /\ Top'.fn = f
  PROVE  CellInv'
<1>1. /\ Len(mcounts) \in Nat \ {0} /\ Len(mcounts') = Len(mcounts)
      /\ \A k \in 1 .. Len(mcounts) :
           mcounts'[k] = IF k = Len(mcounts) THEN c ELSE mcounts[k]
  BY DEF Advances, TopMoves
<1>2. ASSUME NEW k \in 1 .. Len(mcounts')
      PROVE  FoundIn(fns', mcounts'[k])
             \/ (k \in 1 .. Len(mcounts) /\ mcounts'[k] = mcounts[k])
  BY <1>1
<1> QED
  BY <1>2, CellMoves

LEMMA CellGoes ==
  ASSUME McountTyped, CellInv, UNCHANGED <<fns, made>>,
         NEW c, NEW p, NEW q, Advances(c, p, q), FoundIn(fns, c), p # "arc"
  PROVE  CellInv'
<1>1. Grows(fns, fns')
  BY SameGrows
<1>2. \A f \in 1 .. Len(fns') :
        Len(fns'[f].arcs) = 0 => InMcount("arc")' /\ Top'.fn = f
  BY DEF CellInv, InMcount, Advances
<1> QED
  BY <1>1, <1>2, CellAdvances

LEMMA CellBegins ==
  ASSUME McountTyped, CellInv, UNCHANGED <<fns, made>>, NEW c, NEW a, Begins(c, a),
         \A k \in 1 .. Len(mcounts) :
           FoundIn(fns, mcounts'[k]) \/ mcounts'[k] = mcounts[k],
         \A f \in 1 .. Len(fns) : Len(fns[f].arcs) # 0
  PROVE  CellInv'
<1>1. Grows(fns, fns')
  BY SameGrows
<1>2. /\ Len(mcounts') = Len(mcounts) + 1 /\ mcounts'[Len(mcounts) + 1] = c
      /\ Len(mcounts) \in Nat /\ c.pc = "find" /\ c.fn = 0
  BY DEF Begins
<1>3. FoundIn(fns', c)
  BY <1>2 DEF FoundIn
<1>4. ASSUME NEW k \in 1 .. Len(mcounts')
      PROVE  FoundIn(fns', mcounts'[k])
             \/ (k \in 1 .. Len(mcounts) /\ mcounts'[k] = mcounts[k])
  BY <1>2, <1>3
<1> QED
  BY <1>1, <1>4, CellMoves

LEMMA CellReturns ==
  ASSUME McountTyped, CellInv, McountReturns
  PROVE  CellInv'
<1>1. /\ mcounts # << >> /\ Len(mcounts) \in Nat \ {0} /\ Top = mcounts[Len(mcounts)]
      /\ Top \in Counting /\ Top.pc = "return" /\ Len(mcounts') = Len(mcounts) - 1
      /\ \A k \in 1 .. Len(mcounts) - 1 : mcounts'[k] = mcounts[k]
  BY ReturnAhead
<1>2. UNCHANGED fns /\ made' = [made EXCEPT ![ArcOf(Top)] = @ + 1]
      /\ made \in [Arcs -> Nat]
  BY DEF McountReturns, McountTyped, ArcOf
<1>3. \A k \in 1 .. Len(mcounts') : FoundIn(fns', mcounts'[k])
  BY <1>1, <1>2 DEF CellInv
<1>4. ASSUME NEW a \in Arcs, made'[a] > 0 PROVE HasArc(fns', a)
  <2>1. CASE a = ArcOf(Top)
    <3>1. FoundIn(fns, Top)
      BY <1>1 DEF CellInv
    <3> QED
      BY <1>1, <1>2, <2>1, <3>1 DEF FoundIn
  <2>2. CASE a # ArcOf(Top)
    BY <1>2, <1>4, <2>2 DEF CellInv
  <2> QED
    BY <2>1, <2>2
<1>5. \A f \in 1 .. Len(fns') : Len(fns'[f].arcs) # 0
  BY <1>1, <1>2 DEF CellInv, InMcount
<1> QED
  BY <1>3, <1>4, <1>5 DEF CellInv

LEMMA CellStep ==
  ASSUME McountTyped, NestInv, CellInv, GmonNext
  PROVE  CellInv'
<1>a. mcounts # << >> =>
        /\ Len(mcounts) \in Nat \ {0} /\ Top = mcounts[Len(mcounts)]
        /\ Top \in Counting /\ FoundIn(fns, Top)
  BY TopTyped DEF CellInv
<1>e. ~ InMcount("arc") => \A f \in 1 .. Len(fns) : Len(fns[f].arcs) # 0
  BY DEF CellInv
<1>g. ASSUME NEW p, InMcount(p), NEW r \in Places, GoesTo(r), UNCHANGED <<fns, made>>,
             p # "arc",
             r \notin {"walk", "load", "store", "arc", "enable", "return"}
      PROVE  CellInv'
  <2>1. PICK c : Advances(c, p, {r}) /\ Same(c)
    BY <1>g, Gone
  <2>2. FoundIn(fns, c)
    BY <1>a, <1>g, <2>1 DEF FoundIn, Advances, Same
  <2> QED
    BY <1>g, <2>1, <2>2, CellGoes
<1>1. ASSUME NEW arc \in ProgramArcs, ProgramMcounts(arc) PROVE CellInv'
  <2>1. PICK c : Begins(c, arc) /\ Kept /\ mcounts = << >>
    BY <1>1, ProgramAhead
  <2>2. UNCHANGED <<fns, made>>
    BY <1>1 DEF ProgramMcounts
  <2>3. ~ InMcount("arc")
    BY <2>1 DEF InMcount
  <2> QED
    BY <1>e, <2>1, <2>2, <2>3, CellBegins DEF Kept
<1>2. ASSUME NEW arc \in handler_arcs, HandlerMcounts(arc) PROVE CellInv'
  <2>1. PICK c : Begins(c, arc) /\ Kept
    BY <1>2, HandlerAhead
  <2>2. UNCHANGED <<fns, made>> /\ enabled
    BY <1>2 DEF HandlerMcounts
  <2>3. ~ InMcount("arc")
    BY <2>2 DEF InMcount, NestInv, Changing
  <2> QED
    BY <1>e, <2>1, <2>2, <2>3, CellBegins DEF Kept
<1>3. CASE SearchFunctions
  <2>1. PICK c : /\ Advances(c, "find", {"record", "walk"})
                 /\ c.fn # 0 => c.fn \in 1 .. Len(fns) /\ fns[c.fn].self = Top.self
                 /\ c.pc = "walk" => c.fn # 0
    BY <1>3, SearchedAhead
  <2>2. FoundIn(fns, c)
    BY <2>1 DEF FoundIn, Advances
  <2>3. UNCHANGED <<fns, made>>
    BY <1>3 DEF SearchFunctions
  <2> QED
    BY <2>1, <2>2, <2>3, CellGoes
<1>4. CASE SearchArcs
  <2>1. PICK c : /\ Advances(c, "walk", {"record", "load"}) /\ c.fn = Top.fn
                 /\ c.pc = "load" => /\ c.arc \in 1 .. Len(fns[Top.fn].arcs)
                                     /\ fns[Top.fn].arcs[c.arc].from = Top.from
    BY <1>4, WalkedAhead
  <2>2. FoundIn(fns, c)
    BY <1>a, <2>1 DEF FoundIn, Advances
  <2>3. UNCHANGED <<fns, made>>
    BY <1>4 DEF SearchArcs
  <2> QED
    BY <2>1, <2>2, <2>3, CellGoes
<1>5. CASE LoadCount
  <2>1. PICK c : Advances(c, "load", {"store"}) /\ c.fn = Top.fn /\ c.arc = Top.arc
    BY <1>5, LoadedAhead
  <2>2. FoundIn(fns, c)
    BY <1>a, <2>1 DEF FoundIn, Advances
  <2>3. UNCHANGED <<fns, made>>
    BY <1>5 DEF LoadCount
  <2> QED
    BY <2>1, <2>2, <2>3, CellGoes
<1>6. CASE StoreCount
  <2>1. PICK c : Advances(c, "store", {"return"}) /\ Same(c)
    BY <1>6, Gone DEF StoreCount, Places
  <2>2. Grows(fns, fns') /\ UNCHANGED made
    BY <1>6, StoreGrows DEF StoreCount
  <2>3. FoundIn(fns', Top)
    BY <1>a, <2>1, <2>2, GrownFound DEF Advances
  <2>4. HasArc(fns', ArcOf(c))
    <3>1. /\ Top.fn \in 1 .. Len(fns') /\ fns'[Top.fn].self = Top.self
          /\ Top.arc \in 1 .. Len(fns'[Top.fn].arcs)
          /\ fns'[Top.fn].arcs[Top.arc].from = Top.from
      BY <2>1, <2>3 DEF FoundIn, Advances
    <3>2. ArcOf(c)[1] = Top.self /\ ArcOf(c)[2] = Top.from
      BY <2>1 DEF Advances, ArcOf
    <3> QED
      BY <3>1, <3>2 DEF HasArc
  <2>5. FoundIn(fns', c)
    BY <2>1, <2>3, <2>4 DEF FoundIn, Advances, Same
  <2>6. \A f \in 1 .. Len(fns') : Len(fns'[f].arcs) # 0
    <3>1. ~ InMcount("arc")
      BY <2>1 DEF InMcount, Advances
    <3> QED
      BY <1>6, <1>e, <3>1, Stored
  <2> QED
    BY <2>1, <2>2, <2>5, <2>6, CellAdvances
<1>7. CASE __mcount_record
  BY <1>7, <1>g DEF __mcount_record, Choose, Places
<1>8. CASE ClearNeedInit
  BY <1>8, <1>g DEF ClearNeedInit, Places
<1>9. CASE nios2_pcsample_init
  BY <1>9, <1>g DEF nios2_pcsample_init, Choose, Places
<1>10. CASE AllocateHistogram
  BY <1>10, <1>g DEF AllocateHistogram, Places
<1>11. CASE StartSampler
  <2>1. PICK c, b :
          /\ Begins(c, InitArc) /\ Len(mcounts) \in Nat \ {0} /\ mcounts # << >>
          /\ Top = mcounts[Len(mcounts)] /\ Top.pc = "start"
          /\ mcounts'[Len(mcounts)] = b /\ b.pc = "started" /\ b.self = Top.self
          /\ Same(b)
          /\ \A k \in 1 .. Len(mcounts) - 1 : mcounts'[k] = mcounts[k]
    BY <1>11, StartAhead
  <2>2. FoundIn(fns, b)
    BY <1>a, <2>1 DEF FoundIn, Same
  <2>3. UNCHANGED <<fns, made>> /\ ~ InMcount("arc")
    BY <1>11, <2>1 DEF StartSampler, InMcount
  <2>4. ASSUME NEW k \in 1 .. Len(mcounts)
        PROVE  FoundIn(fns, mcounts'[k]) \/ mcounts'[k] = mcounts[k]
    BY <2>1, <2>2
  <2> QED
    BY <1>e, <2>1, <2>3, <2>4, CellBegins
<1>12. CASE SamplerStarted
  BY <1>12, <1>g DEF SamplerStarted, Places
<1>13. CASE DisableInterrupts
  <2>1. PICK c : /\ Advances(c, "disable", {"function", "arc"}) /\ c.fn = Top.fn
                 /\ c.pc = "arc" => c.fn # 0
    BY <1>13, DisabledAhead
  <2>2. FoundIn(fns, c)
    BY <1>a, <2>1 DEF FoundIn, Advances
  <2>3. UNCHANGED <<fns, made>>
    BY <1>13 DEF DisableInterrupts
  <2> QED
    BY <2>1, <2>2, <2>3, CellGoes
<1>14. CASE AddFunction
  <2>1. PICK c : Advances(c, "function", {"arc"}) /\ c.fn = Len(fns) + 1
    BY <1>14, AddedAhead
  <2>2. Grows(fns, fns') /\ UNCHANGED made
    BY <1>14, AddFunctionGrows DEF AddFunction
  <2>3. /\ Len(fns') = Len(fns) + 1 /\ Len(fns) \in Nat
        /\ \A f \in 1 .. Len(fns) : fns'[f] = fns[f]
        /\ fns'[Len(fns) + 1].self = Top.self
    BY <1>14, FunctionAdded DEF McountTyped
  <2>4. FoundIn(fns', c)
    BY <2>1, <2>3 DEF FoundIn, Advances
  <2>5. InMcount("arc")' /\ Top'.fn = Len(fns) + 1
    BY <2>1 DEF InMcount, Advances, TopMoves
  <2>6. ~ InMcount("arc")
    BY <2>1 DEF InMcount, Advances
  <2>7. ASSUME NEW f \in 1 .. Len(fns'), Len(fns'[f].arcs) = 0
        PROVE  InMcount("arc")' /\ Top'.fn = f
    BY <1>e, <2>3, <2>5, <2>6, <2>7
  <2> QED
    BY <2>1, <2>2, <2>4, <2>7, CellAdvances
<1>15. CASE AddArc
  <2>1. PICK c : Advances(c, "arc", {"enable"}) /\ Same(c)
    BY <1>15, Gone DEF AddArc, Places
  <2>2. Grows(fns, fns') /\ UNCHANGED made
    BY <1>15, AddArcGrows DEF AddArc
  <2>3. /\ Top.fn \in 1 .. Len(fns) /\ Len(fns') = Len(fns)
        /\ Len(fns[Top.fn].arcs) \in Nat
        /\ Len(fns'[Top.fn].arcs) = Len(fns[Top.fn].arcs) + 1
        /\ \A f \in 1 .. Len(fns) : f # Top.fn => fns'[f] = fns[f]
        /\ fns'[Top.fn].arcs[Len(fns[Top.fn].arcs) + 1] =
             [from |-> Top.from, count |-> 1]
        /\ fns'[Top.fn].self = Top.self
    BY <1>15, ArcAdded
  <2>4. HasArc(fns', ArcOf(c))
    <3>1. /\ Len(fns[Top.fn].arcs) + 1 \in 1 .. Len(fns'[Top.fn].arcs)
          /\ fns'[Top.fn].arcs[Len(fns[Top.fn].arcs) + 1].from = Top.from
      BY <2>3
    <3>2. ArcOf(c)[1] = Top.self /\ ArcOf(c)[2] = Top.from
      BY <2>1 DEF Advances, ArcOf
    <3> QED
      BY <2>3, <3>1, <3>2 DEF HasArc
  <2>5. FoundIn(fns', c)
    BY <2>1, <2>3, <2>4 DEF FoundIn, Advances, Same
  <2>6. \A f \in 1 .. Len(fns') : Len(fns'[f].arcs) # 0
    BY <2>1, <2>3 DEF CellInv, Advances
  <2> QED
    BY <2>1, <2>2, <2>5, <2>6, CellAdvances
<1>16. CASE RestoreInterrupts
  <2>1. PICK c : Advances(c, "enable", {"return"}) /\ Same(c)
    BY <1>16, Gone DEF RestoreInterrupts, Places
  <2>2. FoundIn(fns, c)
    BY <1>a, <2>1 DEF FoundIn, Advances, Same
  <2>3. UNCHANGED <<fns, made>>
    BY <1>16 DEF RestoreInterrupts
  <2> QED
    BY <2>1, <2>2, <2>3, CellGoes
<1>17. CASE McountReturns
  BY <1>17, CellReturns
<1>18. CASE ClockStarts
  BY <1>18 DEF CellInv, ClockStarts, InMcount, Top
<1>19. ASSUME NEW ea, nios2_pcsample(ea) PROVE CellInv'
  BY <1>19 DEF CellInv, nios2_pcsample, InMcount, Top
<1> QED
  BY <1>1, <1>2, <1>3, <1>4, <1>5, <1>6, <1>7, <1>8, <1>9, <1>10, <1>11, <1>12, <1>13,
     <1>14, <1>15, <1>16, <1>17, <1>18, <1>19 DEF GmonNext, GmonStep

(* What has been loaded.                                                   *)
LEMMA OwnCells ==
  ASSUME McountTyped, SamplerInv, NestInv, OwnArcs, mcounts # << >>,
         NEW k \in 1 .. Len(mcounts) - 1, mcounts[k].pc = "store",
         ArcOf(mcounts[k]) = ArcOf(Top)
  PROVE  FALSE
<1>1. /\ Len(mcounts) \in Nat \ {0} /\ Top = mcounts[Len(mcounts)]
      /\ k \in 1 .. Len(mcounts)
      /\ Len(mcounts) \in 1 .. Len(mcounts) /\ k # Len(mcounts)
  BY TopTyped
<1>2. \A x \in handler_arcs : x \notin ProgramArcs /\ x # InitArc
  BY DEF OwnArcs
<1>3. ASSUME NEW j \in 1 .. Len(mcounts), ~ mcounts[j].handler
      PROVE  ArcOf(mcounts[j]) \in ProgramArcs \/ ArcOf(mcounts[j]) = InitArc
  BY <1>3 DEF NestInv
<1>4. CASE Top.handler
  <2>1. ~ mcounts[k].handler /\ ArcOf(Top) \in handler_arcs
    BY <1>1, <1>4 DEF NestInv
  <2> QED
    BY <1>1, <1>2, <1>3, <2>1
<1>5. CASE ~ Top.handler
  <2>1. mcounts[Len(mcounts) - 1].pc = "started" /\ ArcOf(Top) = InitArc
    BY <1>1, <1>5 DEF NestInv
  <2>2. ~ mcounts[k].handler
    BY <1>1, <1>2, <2>1 DEF NestInv
  <2>3. k # 1
    BY <1>1, <2>1, <2>2 DEF NestInv, OwnArcs
  <2>4. mcounts[k - 1].pc = "started" /\ k # Len(mcounts) - 1
    BY <1>1, <2>1, <2>2, <2>3 DEF NestInv
  <2>5. k - 1 \in 1 .. Len(mcounts) /\ Len(mcounts) - 1 \in (k - 1) + 1 .. Len(mcounts)
    BY <1>1, <2>3, <2>4
  <2> QED
    BY <2>1, <2>4, <2>5 DEF SamplerInv, Sampling
<1> QED
  BY <1>4, <1>5

(* Nothing that is loaded changes.                                         *)
SameCounts(l, m) ==
  \A f \in 1 .. Len(l) : \A k \in 1 .. Len(l[f].arcs) :
    m[f].arcs[k].count = l[f].arcs[k].count

LEMMA LoadedMoves ==
  ASSUME McountTyped, CellInv, LoadedInv, SameCounts(fns, fns'), OwnArcs' <=> OwnArcs,
         Len(mcounts) \in Nat, Len(mcounts') \in Nat,
         \A k \in 1 .. Len(mcounts') :
           mcounts'[k].pc = "store" =>
             k \in 1 .. Len(mcounts) /\ mcounts'[k] = mcounts[k]
  PROVE  LoadedInv'
<1>1. ASSUME NEW k \in 1 .. Len(mcounts'), mcounts'[k].pc = "store"
      PROVE  /\ k \in 1 .. Len(mcounts) /\ mcounts'[k] = mcounts[k]
             /\ CountOf(fns', mcounts'[k]) = CountOf(fns, mcounts[k])
  <2>1. k \in 1 .. Len(mcounts) /\ mcounts'[k] = mcounts[k]
    BY <1>1
  <2>2. /\ mcounts[k].fn \in 1 .. Len(fns)
        /\ mcounts[k].arc \in 1 .. Len(fns[mcounts[k].fn].arcs)
    BY <1>1, <2>1, FoundCount
  <2> QED
    BY <2>1, <2>2 DEF SameCounts, CountOf
<1>2. ASSUME NEW k \in 1 .. Len(mcounts'), mcounts'[k].pc = "store"
      PROVE  /\ mcounts'[k].count <= CountOf(fns', mcounts'[k])
             /\ OwnArcs' => mcounts'[k].count = CountOf(fns', mcounts'[k])
  <2>1. /\ mcounts[k].count <= CountOf(fns, mcounts[k])
        /\ OwnArcs => mcounts[k].count = CountOf(fns, mcounts[k])
    BY <1>1, <1>2 DEF LoadedInv
  <2> QED
    BY <1>1, <1>2, <2>1
<1>3. ASSUME NEW k \in 1 .. Len(mcounts'), mcounts'[k].pc = "store",
             NEW j \in k + 1 .. Len(mcounts'), mcounts'[j].pc = "store",
             mcounts'[j].fn = mcounts'[k].fn, mcounts'[j].arc = mcounts'[k].arc
      PROVE  mcounts'[j].count >= mcounts'[k].count
  <2>1. k \in 1 .. Len(mcounts) /\ mcounts'[k] = mcounts[k]
    BY <1>3
  <2>2. j \in 1 .. Len(mcounts')
    BY <1>3
  <2>3. j \in 1 .. Len(mcounts) /\ mcounts'[j] = mcounts[j]
    BY <1>3, <2>2
  <2>4. j \in k + 1 .. Len(mcounts)
    BY <2>3
  <2> QED
    BY <1>3, <2>1, <2>3, <2>4 DEF LoadedInv
<1> QED
  BY <1>2, <1>3 DEF LoadedInv

LEMMA LoadedGoes ==
  ASSUME McountTyped, CellInv, LoadedInv, SameCounts(fns, fns'), OwnArcs' <=> OwnArcs,
         NEW c, NEW p, NEW q, Advances(c, p, q), "store" \notin q
  PROVE  LoadedInv'
<1>1. /\ Len(mcounts) \in Nat /\ Len(mcounts') = Len(mcounts) /\ c.pc # "store"
      /\ \A k \in 1 .. Len(mcounts) :
           mcounts'[k] = IF k = Len(mcounts) THEN c ELSE mcounts[k]
  BY DEF Advances, TopMoves
<1>2. \A k \in 1 .. Len(mcounts') :
        mcounts'[k].pc = "store" => k \in 1 .. Len(mcounts) /\ mcounts'[k] = mcounts[k]
  BY <1>1
<1> QED
  BY <1>1, <1>2, LoadedMoves

LEMMA LoadedBegins ==
  ASSUME McountTyped, CellInv, LoadedInv, UNCHANGED fns, OwnArcs' <=> OwnArcs,
         NEW c, NEW a, Begins(c, a),
         \A k \in 1 .. Len(mcounts) :
           mcounts'[k].pc = "store" => mcounts'[k] = mcounts[k]
  PROVE  LoadedInv'
<1>1. /\ Len(mcounts) \in Nat /\ Len(mcounts') = Len(mcounts) + 1
      /\ mcounts'[Len(mcounts) + 1].pc = "find"
  BY DEF Begins
<1>2. ASSUME NEW k \in 1 .. Len(mcounts'), mcounts'[k].pc = "store"
      PROVE  k \in 1 .. Len(mcounts) /\ mcounts'[k] = mcounts[k]
  BY <1>1, <1>2
<1>3. SameCounts(fns, fns')
  BY DEF SameCounts
<1> QED
  BY <1>1, <1>2, <1>3, LoadedMoves

LEMMA LoadedLoads ==
  ASSUME McountTyped, CellInv, LoadedInv, LoadCount, OwnArcs' <=> OwnArcs
  PROVE  LoadedInv'
<1>1. PICK c : /\ Advances(c, "load", {"store"}) /\ c.fn = Top.fn /\ c.arc = Top.arc
               /\ c.count = CountOf(fns, Top)
  BY LoadedAhead
<1>2. /\ Len(mcounts) \in Nat \ {0} /\ Len(mcounts') = Len(mcounts)
      /\ mcounts'[Len(mcounts)] = c /\ c.pc = "store"
      /\ \A k \in 1 .. Len(mcounts) - 1 : mcounts'[k] = mcounts[k]
      /\ Top = mcounts[Len(mcounts)] /\ Top.pc = "load"
  BY <1>1 DEF Advances, TopMoves
<1>3. CountOf(fns, c) = c.count /\ c.count \in Nat /\ UNCHANGED fns
  <2>1. CountOf(fns, Top) \in Nat
    BY <1>2, FoundCount
  <2> QED
    BY <1>1, <2>1 DEF CountOf, LoadCount
<1>4. ASSUME NEW k \in 1 .. Len(mcounts'), mcounts'[k].pc = "store"
      PROVE  /\ mcounts'[k].count <= CountOf(fns', mcounts'[k])
             /\ OwnArcs' => mcounts'[k].count = CountOf(fns', mcounts'[k])
  <2>1. CASE k = Len(mcounts)
    BY <1>2, <1>3, <2>1
  <2>2. CASE k \in 1 .. Len(mcounts) - 1
    BY <1>2, <1>3, <1>4, <2>2 DEF LoadedInv
  <2> QED
    BY <1>2, <2>1, <2>2
<1>5. ASSUME NEW k \in 1 .. Len(mcounts'), mcounts'[k].pc = "store",
             NEW j \in k + 1 .. Len(mcounts'), mcounts'[j].pc = "store",
             mcounts'[j].fn = mcounts'[k].fn, mcounts'[j].arc = mcounts'[k].arc
      PROVE  mcounts'[j].count >= mcounts'[k].count
  <2>1. k \in 1 .. Len(mcounts) - 1 /\ mcounts'[k] = mcounts[k]
    BY <1>2
  <2>2. CASE j = Len(mcounts)
    <3>1. mcounts[k].count <= CountOf(fns, mcounts[k])
      BY <1>5, <2>1 DEF LoadedInv
    <3>2. CountOf(fns, mcounts[k]) = CountOf(fns, c)
      BY <1>2, <1>5, <2>1, <2>2 DEF CountOf
    <3>f. mcounts[k] \in Counting
      BY <1>2, <2>1 DEF McountTyped
    <3>3. mcounts[k].count \in Nat
      BY <3>f DEF Counting
    <3> QED
      BY <1>2, <1>3, <2>1, <2>2, <3>1, <3>2, <3>3
  <2>3. CASE j \in k + 1 .. Len(mcounts) - 1
    BY <1>2, <1>5, <2>1, <2>3 DEF LoadedInv
  <2> QED
    BY <1>2, <2>1, <2>2, <2>3
<1> QED
  BY <1>4, <1>5 DEF LoadedInv

LEMMA LoadedStores ==
  ASSUME McountTyped, SamplerInv, NestInv, CellInv, LoadedInv, StoreCount,
         OwnArcs' <=> OwnArcs
  PROVE  LoadedInv'
<1>1. PICK c : Advances(c, "store", {"return"})
  BY Gone DEF StoreCount, Places
<1>2. /\ Len(mcounts) \in Nat \ {0} /\ Len(mcounts') = Len(mcounts)
      /\ mcounts'[Len(mcounts)] = c /\ c.pc = "return" /\ mcounts # << >>
      /\ \A k \in 1 .. Len(mcounts) - 1 : mcounts'[k] = mcounts[k]
      /\ Top = mcounts[Len(mcounts)] /\ Top.pc = "store" /\ Top \in Counting
  BY <1>1 DEF Advances, TopMoves
<1>3. ASSUME NEW k \in 1 .. Len(mcounts'), mcounts'[k].pc = "store"
      PROVE  k \in 1 .. Len(mcounts) - 1 /\ mcounts'[k] = mcounts[k]
  BY <1>2, <1>3
<1>4. ASSUME NEW k \in 1 .. Len(mcounts'), mcounts'[k].pc = "store"
      PROVE  /\ mcounts'[k].count <= CountOf(fns', mcounts'[k])
             /\ OwnArcs' => mcounts'[k].count = CountOf(fns', mcounts'[k])
  <2>1. /\ k \in 1 .. Len(mcounts) - 1 /\ mcounts'[k] = mcounts[k]
        /\ k \in 1 .. Len(mcounts)
    BY <1>2, <1>3, <1>4
  <2>2. PICK d : d = mcounts[k]
    OBVIOUS
  <2>3. /\ d.count <= CountOf(fns, d) /\ (OwnArcs => d.count = CountOf(fns, d))
        /\ d.pc = "store" /\ d \in Counting
    BY <1>4, <2>1, <2>2 DEF LoadedInv, McountTyped
  <2>4. /\ d.fn \in 1 .. Len(fns) /\ d.arc \in 1 .. Len(fns[d.fn].arcs)
        /\ fns[d.fn].self = d.self /\ fns[d.fn].arcs[d.arc].from = d.from
    BY <2>1, <2>2, <2>3, FoundCount
  <2>5. fns'[d.fn].arcs[d.arc] = IF d.fn = Top.fn /\ d.arc = Top.arc
                                 THEN [fns[d.fn].arcs[d.arc] EXCEPT !.count = Top.count + 1]
                                 ELSE fns[d.fn].arcs[d.arc]
    BY <2>4, Stored
  <2>6. CASE d.fn = Top.fn /\ d.arc = Top.arc
    <3>1. Len(mcounts) \in k + 1 .. Len(mcounts)
      BY <1>2, <2>1
    <3>2. Top.count >= d.count
      BY <1>2, <2>1, <2>2, <2>3, <2>6, <3>1 DEF LoadedInv
    <3>3. fns'[d.fn].arcs[d.arc].count = Top.count + 1
      <4>1. /\ fns[Top.fn].self = Top.self /\ fns[Top.fn].arcs[Top.arc].from = Top.from
            /\ fns[Top.fn] \in Entry
            /\ fns[d.fn].arcs[d.arc] \in [from : {a[2] : a \in Arcs}, count : Nat \ {0}]
        <5>1. fns[d.fn] \in Entry
          BY <2>4 DEF McountTyped
        <5> DEFINE A == [from : {a[2] : a \in Arcs}, count : Nat \ {0}]
        <5>2. PICK s \in Seq(A) : s = fns[d.fn].arcs
          BY <5>1 DEF Entry
        <5> HIDE DEF A
        <5>3. fns[d.fn].arcs[d.arc] \in A
          BY <2>4, <5>2
        <5>4. fns[Top.fn].self = Top.self /\ fns[Top.fn].arcs[Top.arc].from = Top.from
          BY <1>2, FoundCount
        <5> QED
          BY <2>6, <5>1, <5>3, <5>4 DEF A
      <4> QED
        BY <2>5, <2>6, <4>1
    <3>4. ~ OwnArcs
      <4>1. fns[Top.fn].self = Top.self /\ fns[Top.fn].arcs[Top.arc].from = Top.from
        BY <1>2, FoundCount
      <4>2. ArcOf(d) = ArcOf(Top)
        BY <2>4, <2>6, <4>1 DEF ArcOf
      <4> QED
        BY <1>2, <2>1, <2>2, <2>3, <4>2, OwnCells
    <3>5. d.count \in Nat /\ Top.count \in Nat
      BY <1>2, <2>3 DEF Counting
    <3> QED
      BY <2>1, <2>2, <3>2, <3>3, <3>4, <3>5 DEF CountOf
  <2>7. CASE ~ (d.fn = Top.fn /\ d.arc = Top.arc)
    BY <2>1, <2>2, <2>3, <2>5, <2>7 DEF CountOf
  <2> QED
    BY <2>6, <2>7
<1>5. ASSUME NEW k \in 1 .. Len(mcounts'), mcounts'[k].pc = "store",
             NEW j \in k + 1 .. Len(mcounts'), mcounts'[j].pc = "store",
             mcounts'[j].fn = mcounts'[k].fn, mcounts'[j].arc = mcounts'[k].arc
      PROVE  mcounts'[j].count >= mcounts'[k].count
  <2>1. k \in 1 .. Len(mcounts) - 1 /\ mcounts'[k] = mcounts[k]
    BY <1>3, <1>5
  <2>2. j \in 1 .. Len(mcounts') /\ j \in k + 1 .. Len(mcounts)
    BY <1>2, <2>1
  <2>3. mcounts'[j] = mcounts[j]
    BY <1>3, <1>5, <2>2
  <2> QED
    BY <1>2, <1>5, <2>1, <2>2, <2>3 DEF LoadedInv
<1> QED
  BY <1>4, <1>5 DEF LoadedInv

LEMMA LoadedStep ==
  ASSUME McountTyped, SamplerInv, NestInv, CellInv, LoadedInv, GmonNext
  PROVE  LoadedInv'
<1>o. OwnArcs' <=> OwnArcs
  BY DEF GmonNext, OwnArcs
<1>u. ASSUME UNCHANGED fns PROVE SameCounts(fns, fns')
  BY <1>u DEF SameCounts
<1>m. ASSUME UNCHANGED <<fns, mcounts>> PROVE LoadedInv'
  BY <1>m, <1>o DEF LoadedInv
<1>g. ASSUME NEW p, InMcount(p), NEW r \in Places \ {"store"}, GoesTo(r),
             SameCounts(fns, fns')
      PROVE  LoadedInv'
  <2>1. PICK c : Advances(c, p, {r})
    BY <1>g, Gone
  <2> QED
    BY <1>g, <1>o, <2>1, LoadedGoes
<1>1. ASSUME NEW arc \in ProgramArcs, ProgramMcounts(arc) PROVE LoadedInv'
  <2>1. PICK c : Begins(c, arc) /\ Kept
    BY <1>1, ProgramAhead
  <2> QED
    BY <1>1, <1>o, <2>1, LoadedBegins DEF Kept, ProgramMcounts
<1>2. ASSUME NEW arc \in handler_arcs, HandlerMcounts(arc) PROVE LoadedInv'
  <2>1. PICK c : Begins(c, arc) /\ Kept
    BY <1>2, HandlerAhead
  <2> QED
    BY <1>2, <1>o, <2>1, LoadedBegins DEF Kept, HandlerMcounts
<1>3. CASE SearchFunctions
  BY <1>3, <1>o, <1>u, SearchedAhead, LoadedGoes DEF SearchFunctions
<1>4. CASE SearchArcs
  BY <1>4, <1>o, <1>u, WalkedAhead, LoadedGoes DEF SearchArcs
<1>5. CASE LoadCount
  BY <1>5, <1>o, LoadedLoads
<1>6. CASE StoreCount
  BY <1>6, <1>o, LoadedStores
<1>7. CASE __mcount_record
  BY <1>7, <1>g, <1>u DEF __mcount_record, Choose, Places
<1>8. CASE ClearNeedInit
  BY <1>8, <1>g, <1>u DEF ClearNeedInit, Places
<1>9. CASE nios2_pcsample_init
  BY <1>9, <1>g, <1>u DEF nios2_pcsample_init, Choose, Places
<1>10. CASE AllocateHistogram
  BY <1>10, <1>g, <1>u DEF AllocateHistogram, Places
<1>11. CASE StartSampler
  <2>1. PICK c, b :
          /\ Begins(c, InitArc) /\ Len(mcounts) \in Nat \ {0}
          /\ mcounts'[Len(mcounts)] = b /\ b.pc = "started"
          /\ \A k \in 1 .. Len(mcounts) - 1 : mcounts'[k] = mcounts[k]
    BY <1>11, StartAhead
  <2>2. ASSUME NEW k \in 1 .. Len(mcounts), mcounts'[k].pc = "store"
        PROVE  mcounts'[k] = mcounts[k]
    BY <2>1, <2>2
  <2> QED
    BY <1>11, <1>o, <2>1, <2>2, LoadedBegins DEF StartSampler
<1>12. CASE SamplerStarted
  BY <1>12, <1>g, <1>u DEF SamplerStarted, Places
<1>13. CASE DisableInterrupts
  BY <1>13, <1>o, <1>u, DisabledAhead, LoadedGoes DEF DisableInterrupts
<1>14. CASE AddFunction
  <2>1. SameCounts(fns, fns')
    BY <1>14, FunctionAdded DEF SameCounts
  <2> QED
    BY <1>14, <1>o, <2>1, AddedAhead, LoadedGoes
<1>15. CASE AddArc
  <2>1. SameCounts(fns, fns')
    <3>1. ASSUME NEW f \in 1 .. Len(fns), NEW k \in 1 .. Len(fns[f].arcs)
          PROVE  fns'[f].arcs[k].count = fns[f].arcs[k].count
      BY <1>15, ArcAdded
    <3> QED
      BY <3>1 DEF SameCounts
  <2> QED
    BY <1>15, <1>g, <2>1 DEF AddArc, Places
<1>16. CASE RestoreInterrupts
  BY <1>16, <1>g, <1>u DEF RestoreInterrupts, Places
<1>17. CASE McountReturns
  <2>1. /\ Len(mcounts) \in Nat \ {0} /\ Len(mcounts') = Len(mcounts) - 1
        /\ \A k \in 1 .. Len(mcounts) - 1 : mcounts'[k] = mcounts[k]
    BY <1>17, ReturnAhead
  <2>2. SameCounts(fns, fns')
    BY <1>17, <1>u DEF McountReturns
  <2> QED
    BY <1>o, <2>1, <2>2, LoadedMoves
<1>18. CASE ClockStarts
  BY <1>18, <1>m DEF ClockStarts
<1>19. ASSUME NEW ea, nios2_pcsample(ea) PROVE LoadedInv'
  BY <1>19, <1>m DEF nios2_pcsample
<1> QED
  BY <1>1, <1>2, <1>3, <1>4, <1>5, <1>6, <1>7, <1>8, <1>9, <1>10, <1>11, <1>12, <1>13,
     <1>14, <1>15, <1>16, <1>17, <1>18, <1>19 DEF GmonNext, GmonStep

(* The counts of an arc, one by one.                                       *)
Copy(l, a, f, k) ==
  /\ f \in 1 .. Len(l) /\ l[f].self = a[1]
  /\ k \in 1 .. Len(l[f].arcs) /\ l[f].arcs[k].from = a[2]

LEMMA Listed ==
  ASSUME NEW l \in Seq(Entry), NEW a, NEW f, NEW k
  PROVE  <<f, k>> \in ListedIn(l, a) <=> Copy(l, a, f, k)
<1>1. DOMAIN l = 1 .. Len(l)
  OBVIOUS
<1>2. \A g \in 1 .. Len(l) : DOMAIN l[g].arcs = 1 .. Len(l[g].arcs)
  <2> SUFFICES ASSUME NEW g \in 1 .. Len(l) PROVE DOMAIN l[g].arcs = 1 .. Len(l[g].arcs)
    OBVIOUS
  <2>1. l[g] \in Entry
    OBVIOUS
  <2> DEFINE A == [from : {b[2] : b \in Arcs}, count : Nat \ {0}]
  <2>2. l[g].arcs \in Seq(A)
    BY <2>1 DEF Entry
  <2> HIDE DEF A
  <2> QED
    BY <2>2
<1>3. <<f, k>> \in ListedIn(l, a) <=>
        \E g \in {h \in DOMAIN l : l[h].self = a[1]} :
          <<f, k>> \in {g} \X {i \in DOMAIN l[g].arcs : l[g].arcs[i].from = a[2]}
  BY DEF ListedIn
<1>4. \A g, S : <<f, k>> \in {g} \X S <=> f = g /\ k \in S
  OBVIOUS
<1>5. <<f, k>> \in ListedIn(l, a) <=>
        \E g \in {h \in DOMAIN l : l[h].self = a[1]} :
          f = g /\ k \in {i \in DOMAIN l[g].arcs : l[g].arcs[i].from = a[2]}
  BY <1>3, <1>4, Zenon
<1> QED
  BY <1>1, <1>2, <1>5 DEF Copy

LEMMA Pairs ==
  ASSUME NEW l \in Seq(Entry), NEW a, NEW x \in ListedIn(l, a)
  PROVE  \E f, k : x = <<f, k>> /\ Copy(l, a, f, k)
<1>1. \E f : \E S : x \in {f} \X S
  BY DEF ListedIn
<1>2. PICK f, k : x = <<f, k>>
  BY <1>1
<1> QED
  BY <1>2, Listed

LEMMA CountedOnes ==
  ASSUME NEW l \in Seq(Entry), NEW a, NEW y
  PROVE  y \in CountsIn(l, a) <=>
           \E f, k, n : /\ y = <<<<f, k>>, n>> /\ Copy(l, a, f, k)
                        /\ n \in 1 .. l[f].arcs[k].count
<1>1. y \in CountsIn(l, a) <=>
        \E x \in ListedIn(l, a) : y \in {x} \X (1 .. l[x[1]].arcs[x[2]].count)
  BY DEF CountsIn
<1>2. ASSUME y \in CountsIn(l, a)
      PROVE  \E f, k, n : /\ y = <<<<f, k>>, n>> /\ Copy(l, a, f, k)
                          /\ n \in 1 .. l[f].arcs[k].count
  <2>1. PICK x \in ListedIn(l, a) : y \in {x} \X (1 .. l[x[1]].arcs[x[2]].count)
    BY <1>1, <1>2
  <2>2. PICK f, k : x = <<f, k>> /\ Copy(l, a, f, k)
    BY Pairs
  <2>3. PICK n \in 1 .. l[f].arcs[k].count : y = <<x, n>>
    BY <2>1, <2>2
  <2> QED
    BY <2>2, <2>3
<1>3. ASSUME NEW f, NEW k, NEW n, y = <<<<f, k>>, n>>, Copy(l, a, f, k),
             n \in 1 .. l[f].arcs[k].count
      PROVE  y \in CountsIn(l, a)
  <2>1. <<f, k>> \in ListedIn(l, a)
    BY <1>3, Listed
  <2>2. y \in {<<f, k>>} \X (1 .. l[f].arcs[k].count)
    BY <1>3
  <2>3. <<f, k>>[1] = f /\ <<f, k>>[2] = k
    OBVIOUS
  <2> QED
    BY <1>1, <2>1, <2>2, <2>3
<1> QED
  BY <1>2, <1>3

LEMMA CountsAre ==
  ASSUME NEW a
  PROVE  /\ Counts(a) = CountsIn(fns, a)
         /\ Pending(a) = Cardinality(PendingIn(mcounts, a))
  BY DEF Counts, Copies, CountsIn, ListedIn, Pending, PendingIn

(* What a step does to the counts of an arc.                               *)
LEMMA CountsSame ==
  ASSUME NEW l \in Seq(Entry), NEW m \in Seq(Entry), NEW a,
         \A f, k : Copy(m, a, f, k) <=> Copy(l, a, f, k),
         \A f, k : Copy(l, a, f, k) => m[f].arcs[k].count = l[f].arcs[k].count
  PROVE  CountsIn(m, a) = CountsIn(l, a)
<1>1. ASSUME NEW y PROVE y \in CountsIn(m, a) <=> y \in CountsIn(l, a)
  <2>1. y \in CountsIn(m, a) <=>
          \E f, k, n : /\ y = <<<<f, k>>, n>> /\ Copy(m, a, f, k)
                       /\ n \in 1 .. m[f].arcs[k].count
    BY CountedOnes
  <2>2. y \in CountsIn(l, a) <=>
          \E f, k, n : /\ y = <<<<f, k>>, n>> /\ Copy(l, a, f, k)
                       /\ n \in 1 .. l[f].arcs[k].count
    BY CountedOnes
  <2> QED
    BY <2>1, <2>2
<1> QED
  BY <1>1

(* One place of an arc has a new count, all others what they had.          *)
Counts1(l, m, a, f, k, n) ==
  /\ Copy(m, a, f, k) /\ m[f].arcs[k].count = n + 1 /\ n \in Nat
  /\ \A g, i : <<g, i>> # <<f, k>> =>
       /\ Copy(m, a, g, i) <=> Copy(l, a, g, i)
       /\ Copy(l, a, g, i) => m[g].arcs[i].count = l[g].arcs[i].count

LEMMA CountsMore ==
  ASSUME NEW l \in Seq(Entry), NEW m \in Seq(Entry), NEW a, NEW f, NEW k, NEW n,
         Counts1(l, m, a, f, k, n), \A i \in 1 .. n : <<<<f, k>>, i>> \in CountsIn(l, a)
  PROVE  CountsIn(m, a) \subseteq CountsIn(l, a) \cup {<<<<f, k>>, n + 1>>}
<1> SUFFICES ASSUME NEW y \in CountsIn(m, a), y # <<<<f, k>>, n + 1>>
             PROVE  y \in CountsIn(l, a)
  OBVIOUS
<1>1. PICK g, i, j : /\ y = <<<<g, i>>, j>> /\ Copy(m, a, g, i)
                     /\ j \in 1 .. m[g].arcs[i].count
  BY CountedOnes
<1>2. CASE <<g, i>> = <<f, k>>
  <2>1. j \in 1 .. n + 1 /\ j # n + 1 /\ g = f /\ i = k
    BY <1>1, <1>2 DEF Counts1
  <2>2. j \in 1 .. n
    BY <2>1 DEF Counts1
  <2> QED
    BY <1>1, <2>1, <2>2
<1>3. CASE <<g, i>> # <<f, k>>
  <2>1. Copy(l, a, g, i) /\ j \in 1 .. l[g].arcs[i].count
    BY <1>1, <1>3 DEF Counts1
  <2> QED
    BY <1>1, <2>1, CountedOnes
<1> QED
  BY <1>2, <1>3

LEMMA CountsOneMore ==
  ASSUME NEW l \in Seq(Entry), NEW m \in Seq(Entry), NEW a, NEW f, NEW k, NEW n,
         Counts1(l, m, a, f, k, n),
         \A i : <<<<f, k>>, i>> \in CountsIn(l, a) <=> i \in 1 .. n
  PROVE  /\ CountsIn(m, a) = CountsIn(l, a) \cup {<<<<f, k>>, n + 1>>}
         /\ <<<<f, k>>, n + 1>> \notin CountsIn(l, a)
<1>1. CountsIn(m, a) \subseteq CountsIn(l, a) \cup {<<<<f, k>>, n + 1>>}
  BY CountsMore
<1>n. n \in Nat /\ n + 1 \notin 1 .. n
  BY DEF Counts1
<1>2. <<<<f, k>>, n + 1>> \in CountsIn(m, a)
  <2>1. n + 1 \in 1 .. m[f].arcs[k].count /\ Copy(m, a, f, k)
    BY <1>n DEF Counts1
  <2> QED
    BY <2>1, CountedOnes
<1>3. ASSUME NEW y \in CountsIn(l, a) PROVE y \in CountsIn(m, a)
  <2>1. PICK g, i, j : /\ y = <<<<g, i>>, j>> /\ Copy(l, a, g, i)
                       /\ j \in 1 .. l[g].arcs[i].count
    BY CountedOnes
  <2>2. CASE <<g, i>> = <<f, k>>
    <3>1. j \in 1 .. n
      BY <2>1, <2>2
    <3>2. j \in 1 .. m[f].arcs[k].count /\ Copy(m, a, f, k)
      BY <1>n, <3>1 DEF Counts1
    <3> QED
      BY <2>1, <2>2, <3>2, CountedOnes
  <2>3. CASE <<g, i>> # <<f, k>>
    <3>1. Copy(m, a, g, i) /\ j \in 1 .. m[g].arcs[i].count
      BY <2>1, <2>3 DEF Counts1
    <3> QED
      BY <2>1, <3>1, CountedOnes
  <2> QED
    BY <2>2, <2>3
<1>4. <<<<f, k>>, n + 1>> \notin CountsIn(l, a)
  BY <1>n
<1> QED
  BY <1>1, <1>2, <1>3, <1>4

(* The calls that are about to return.                                     *)
Returning == {"enable", "return"}

LEMMA PendingOnes ==
  ASSUME NEW m \in Seq(Counting), NEW a
  PROVE  /\ \A k : k \in PendingIn(m, a) <=>
                     k \in 1 .. Len(m) /\ ArcOf(m[k]) = a /\ m[k].pc \in Returning
         /\ IsFiniteSet(PendingIn(m, a))
<1>1. \A k : k \in PendingIn(m, a) <=>
               k \in 1 .. Len(m) /\ ArcOf(m[k]) = a /\ m[k].pc \in Returning
  BY DEF PendingIn, ArcOf, Returning
<1>2. Len(m) \in Nat
  OBVIOUS
<1>3. IsFiniteSet(1 .. Len(m))
  BY <1>2, FS_Interval
<1>4. PendingIn(m, a) \in SUBSET (1 .. Len(m))
  BY <1>1
<1>5. IsFiniteSet(PendingIn(m, a))
  BY <1>3, <1>4, FS_Subset
<1> QED
  BY <1>1, <1>5

LEMMA PendingSame ==
  ASSUME NEW m \in Seq(Counting), NEW n \in Seq(Counting), NEW a,
         \A k \in 1 .. Len(m) : ArcOf(m[k]) = a /\ m[k].pc \in Returning =>
           k \in 1 .. Len(n) /\ ArcOf(n[k]) = a /\ n[k].pc \in Returning,
         \A k \in 1 .. Len(n) : ArcOf(n[k]) = a /\ n[k].pc \in Returning =>
           k \in 1 .. Len(m) /\ ArcOf(m[k]) = a /\ m[k].pc \in Returning
  PROVE  PendingIn(n, a) = PendingIn(m, a)
<1>1. \A k : k \in PendingIn(n, a) <=> k \in PendingIn(m, a)
  BY PendingOnes
<1> QED
  BY <1>1

LEMMA OneMore ==
  ASSUME NEW S, IsFiniteSet(S), NEW x, x \notin S, NEW T, T = S \cup {x}
  PROVE  IsFiniteSet(T) /\ Cardinality(S) \in Nat /\ Cardinality(T) = Cardinality(S) + 1
  BY FS_AddElement, FS_CardinalityType

LEMMA AtMostOneMore ==
  ASSUME NEW S, IsFiniteSet(S), NEW x, NEW T, T \subseteq S \cup {x}
  PROVE  /\ IsFiniteSet(T) /\ Cardinality(S) \in Nat /\ Cardinality(T) \in Nat
         /\ Cardinality(T) <= Cardinality(S) + 1
<1>1. /\ IsFiniteSet(S \cup {x}) /\ Cardinality(S) \in Nat
      /\ Cardinality(S \cup {x}) <= Cardinality(S) + 1
  <2>1. CASE x \in S
    <3>1. S \cup {x} = S
      BY <2>1
    <3>2. Cardinality(S) \in Nat
      BY FS_CardinalityType
    <3> QED
      BY <3>1, <3>2
  <2>2. CASE x \notin S
    BY <2>2, OneMore
  <2> QED
    BY <2>1, <2>2
<1> DEFINE U == S \cup {x}
<1>2. IsFiniteSet(U) /\ T \in SUBSET U
  BY <1>1
<1> HIDE DEF U
<1>3. IsFiniteSet(T) /\ Cardinality(T) <= Cardinality(U)
  BY <1>2, FS_Subset
<1>4. Cardinality(T) \in Nat /\ Cardinality(U) \in Nat
  BY <1>2, <1>3, FS_CardinalityType
<1> QED
  BY <1>1, <1>3, <1>4 DEF U

(* The counts add up.                                                      *)
LEMMA SumsStay ==
  ASSUME CountInv, UNCHANGED made, OwnArcs' <=> OwnArcs, NEW a \in Arcs,
         CountsIn(fns', a) = CountsIn(fns, a),
         PendingIn(mcounts', a) = PendingIn(mcounts, a)
  PROVE  /\ IsFiniteSet(CountsIn(fns', a))
         /\ Sums(Cardinality(CountsIn(fns, a)), made[a],
                 Cardinality(PendingIn(mcounts, a)))'
<1>1. /\ IsFiniteSet(CountsIn(fns, a))
      /\ Sums(Cardinality(CountsIn(fns, a)), made[a], Cardinality(PendingIn(mcounts, a)))
  BY DEF CountInv
<1> QED
  BY <1>1 DEF Sums

LEMMA CountKept ==
  ASSUME CountInv, UNCHANGED made, OwnArcs' <=> OwnArcs,
         \A a \in Arcs : /\ CountsIn(fns', a) = CountsIn(fns, a)
                         /\ PendingIn(mcounts', a) = PendingIn(mcounts, a)
  PROVE  CountInv'
  BY SumsStay DEF CountInv

LEMMA CountAdds ==
  ASSUME McountTyped, CountInv, UNCHANGED made, OwnArcs' <=> OwnArcs,
         NEW b \in Arcs, NEW x, NEW y,
         \A a \in Arcs \ {b} : /\ CountsIn(fns', a) = CountsIn(fns, a)
                               /\ PendingIn(mcounts', a) = PendingIn(mcounts, a),
         CountsIn(fns', b) \subseteq CountsIn(fns, b) \cup {x},
         OwnArcs => /\ CountsIn(fns', b) = CountsIn(fns, b) \cup {x}
                    /\ x \notin CountsIn(fns, b),
         PendingIn(mcounts', b) = PendingIn(mcounts, b) \cup {y},
         y \notin PendingIn(mcounts, b)
  PROVE  CountInv'
<1>1. ASSUME NEW a \in Arcs, a # b
      PROVE  /\ IsFiniteSet(CountsIn(fns', a))
             /\ Sums(Cardinality(CountsIn(fns, a)), made[a],
                     Cardinality(PendingIn(mcounts, a)))'
  BY <1>1, SumsStay
<1>2. /\ IsFiniteSet(CountsIn(fns', b))
      /\ Sums(Cardinality(CountsIn(fns, b)), made[b],
              Cardinality(PendingIn(mcounts, b)))'
  <2>1. /\ IsFiniteSet(CountsIn(fns, b))
        /\ Sums(Cardinality(CountsIn(fns, b)), made[b],
                Cardinality(PendingIn(mcounts, b)))
    BY DEF CountInv
  <2>2. /\ IsFiniteSet(CountsIn(fns', b)) /\ Cardinality(CountsIn(fns, b)) \in Nat
        /\ Cardinality(CountsIn(fns', b)) \in Nat
        /\ Cardinality(CountsIn(fns', b)) <= Cardinality(CountsIn(fns, b)) + 1
    BY <2>1, AtMostOneMore
  <2>3. OwnArcs =>
          Cardinality(CountsIn(fns', b)) = Cardinality(CountsIn(fns, b)) + 1
    BY <2>1, OneMore
  <2>4. /\ Cardinality(PendingIn(mcounts, b)) \in Nat
        /\ Cardinality(PendingIn(mcounts', b)) = Cardinality(PendingIn(mcounts, b)) + 1
    BY PendingOnes, OneMore DEF McountTyped
  <2>5. made[b] \in Nat /\ made'[b] = made[b]
    BY DEF McountTyped
  <2> QED
    BY <2>1, <2>2, <2>3, <2>4, <2>5 DEF Sums
<1> QED
  BY <1>1, <1>2 DEF CountInv

LEMMA CountReturns ==
  ASSUME McountTyped, CountInv, McountReturns, OwnArcs' <=> OwnArcs
  PROVE  CountInv'
<1>1. /\ mcounts # << >> /\ Len(mcounts) \in Nat \ {0} /\ Top = mcounts[Len(mcounts)]
      /\ Top \in Counting /\ Top.pc = "return" /\ Len(mcounts') = Len(mcounts) - 1
      /\ \A k \in 1 .. Len(mcounts) - 1 : mcounts'[k] = mcounts[k]
      /\ mcounts \in Seq(Counting) /\ mcounts' \in Seq(Counting) /\ ArcOf(Top) \in Arcs
  BY ReturnAhead, TopTyped
<1>2. UNCHANGED fns /\ made' = [made EXCEPT ![ArcOf(Top)] = @ + 1]
      /\ made \in [Arcs -> Nat]
  BY DEF McountReturns, McountTyped, ArcOf
<1>r. "return" \in Returning
  BY DEF Returning
<1>3. PICK b \in Arcs : b = ArcOf(Top)
  BY <1>1
<1>4. ASSUME NEW a \in Arcs, a # b PROVE PendingIn(mcounts', a) = PendingIn(mcounts, a)
  <2>1. \A k \in 1 .. Len(mcounts) :
          ArcOf(mcounts[k]) = a /\ mcounts[k].pc \in Returning =>
          /\ k \in 1 .. Len(mcounts') /\ ArcOf(mcounts'[k]) = a
          /\ mcounts'[k].pc \in Returning
    BY <1>1, <1>3, <1>4
  <2>2. \A k \in 1 .. Len(mcounts') :
          ArcOf(mcounts'[k]) = a /\ mcounts'[k].pc \in Returning =>
            /\ k \in 1 .. Len(mcounts) /\ ArcOf(mcounts[k]) = a
            /\ mcounts[k].pc \in Returning
    BY <1>1
  <2> QED
    BY <1>1, <2>1, <2>2, PendingSame
<1>5. /\ PendingIn(mcounts, b) = PendingIn(mcounts', b) \cup {Len(mcounts)}
      /\ Len(mcounts) \notin PendingIn(mcounts', b)
  <2>1. ASSUME NEW k
        PROVE  k \in PendingIn(mcounts, b) <=>
                 k \in PendingIn(mcounts', b) \/ k = Len(mcounts)
    <3>1. k \in PendingIn(mcounts, b) <=>
            /\ k \in 1 .. Len(mcounts) /\ ArcOf(mcounts[k]) = b
            /\ mcounts[k].pc \in Returning
      BY <1>1, PendingOnes
    <3>2. k \in PendingIn(mcounts', b) <=>
            /\ k \in 1 .. Len(mcounts') /\ ArcOf(mcounts'[k]) = b
            /\ mcounts'[k].pc \in Returning
      BY <1>1, PendingOnes
    <3>3. k \in 1 .. Len(mcounts) <=> k \in 1 .. Len(mcounts') \/ k = Len(mcounts)
      BY <1>1
    <3>4. k \in 1 .. Len(mcounts') => mcounts'[k] = mcounts[k]
      BY <1>1
    <3> QED
      BY <1>1, <1>3, <1>r, <3>1, <3>2, <3>3, <3>4
  <2>2. Len(mcounts) \notin 1 .. Len(mcounts')
    BY <1>1
  <2>3. Len(mcounts) \notin PendingIn(mcounts', b)
    BY <1>1, <2>2, PendingOnes
  <2> QED
    BY <2>1, <2>3
<1>6. ASSUME NEW a \in Arcs
      PROVE  /\ IsFiniteSet(CountsIn(fns', a))
             /\ Sums(Cardinality(CountsIn(fns, a)), made[a],
                     Cardinality(PendingIn(mcounts, a)))'
  <2>1. /\ IsFiniteSet(CountsIn(fns, a))
        /\ Sums(Cardinality(CountsIn(fns, a)), made[a],
                Cardinality(PendingIn(mcounts, a)))
    BY DEF CountInv
  <2>2. CASE a # b
    <3>1. made'[a] = made[a]
      BY <1>2, <1>3, <2>2
    <3> QED
      BY <1>2, <1>4, <2>1, <2>2, <3>1 DEF Sums
  <2>3. CASE a = b
    <3>1. made'[b] = made[b] + 1 /\ made[b] \in Nat
      BY <1>2, <1>3
    <3>2. /\ Cardinality(PendingIn(mcounts', b)) \in Nat
          /\ Cardinality(PendingIn(mcounts, b)) = Cardinality(PendingIn(mcounts', b)) + 1
      BY <1>1, <1>5, PendingOnes, OneMore
    <3>3. Cardinality(CountsIn(fns, a)) \in Nat
      BY <2>1, FS_CardinalityType
    <3> QED
      BY <1>2, <2>1, <2>3, <3>1, <3>2, <3>3 DEF Sums
  <2> QED
    BY <2>2, <2>3
<1> QED
  BY <1>6 DEF CountInv

LEMMA PendingAdvances ==
  ASSUME NEW c, NEW p, NEW q, Advances(c, p, q), NEW a,
         ArcOf(Top) = a => (p \in Returning <=> c.pc \in Returning)
  PROVE  PendingIn(mcounts', a) = PendingIn(mcounts, a)
<1>1. /\ Len(mcounts) \in Nat \ {0} /\ Len(mcounts') = Len(mcounts)
      /\ mcounts \in Seq(Counting) /\ mcounts' \in Seq(Counting)
      /\ Top = mcounts[Len(mcounts)] /\ Top.pc = p /\ ArcOf(c) = ArcOf(Top)
      /\ \A k \in 1 .. Len(mcounts) :
           mcounts'[k] = IF k = Len(mcounts) THEN c ELSE mcounts[k]
  BY DEF Advances, TopMoves
<1>2. ASSUME NEW k \in 1 .. Len(mcounts)
      PROVE  ArcOf(mcounts[k]) = a /\ mcounts[k].pc \in Returning <=>
               ArcOf(mcounts'[k]) = a /\ mcounts'[k].pc \in Returning
  BY <1>1
<1> QED
  BY <1>1, <1>2, PendingSame

LEMMA PendingArrives ==
  ASSUME NEW c, NEW p, NEW q, Advances(c, p, q), p \notin Returning, c.pc \in Returning
  PROVE  /\ PendingIn(mcounts', ArcOf(Top)) =
              PendingIn(mcounts, ArcOf(Top)) \cup {Len(mcounts)}
         /\ Len(mcounts) \notin PendingIn(mcounts, ArcOf(Top))
<1>1. /\ Len(mcounts) \in Nat \ {0} /\ Len(mcounts') = Len(mcounts)
      /\ mcounts \in Seq(Counting) /\ mcounts' \in Seq(Counting)
      /\ Top = mcounts[Len(mcounts)] /\ Top.pc = p /\ ArcOf(c) = ArcOf(Top)
      /\ \A k \in 1 .. Len(mcounts) :
           mcounts'[k] = IF k = Len(mcounts) THEN c ELSE mcounts[k]
  BY DEF Advances, TopMoves
<1>2. PICK b : b = ArcOf(Top)
  OBVIOUS
<1>3. ASSUME NEW k
      PROVE  k \in PendingIn(mcounts', b) <=>
               k \in PendingIn(mcounts, b) \/ k = Len(mcounts)
  <2>1. k \in PendingIn(mcounts, b) <=>
          /\ k \in 1 .. Len(mcounts) /\ ArcOf(mcounts[k]) = b
          /\ mcounts[k].pc \in Returning
    BY <1>1, PendingOnes
  <2>2. k \in PendingIn(mcounts', b) <=>
          /\ k \in 1 .. Len(mcounts') /\ ArcOf(mcounts'[k]) = b
          /\ mcounts'[k].pc \in Returning
    BY <1>1, PendingOnes
  <2>3. Len(mcounts) \in 1 .. Len(mcounts)
    BY <1>1
  <2> QED
    BY <1>1, <1>2, <2>1, <2>2, <2>3
<1>4. Len(mcounts) \notin PendingIn(mcounts, b)
  BY <1>1, PendingOnes
<1> QED
  BY <1>2, <1>3, <1>4

LEMMA PendingBegins ==
  ASSUME NEW c, NEW a, Begins(c, a), NEW b,
         \A k \in 1 .. Len(mcounts) :
           /\ ArcOf(mcounts'[k]) = ArcOf(mcounts[k])
           /\ mcounts'[k].pc \in Returning <=> mcounts[k].pc \in Returning
  PROVE  PendingIn(mcounts', b) = PendingIn(mcounts, b)
<1>1. /\ Len(mcounts) \in Nat /\ Len(mcounts') = Len(mcounts) + 1
      /\ mcounts \in Seq(Counting) /\ mcounts' \in Seq(Counting)
      /\ mcounts'[Len(mcounts) + 1].pc = "find" /\ "find" \notin Returning
  BY DEF Begins, Returning
<1>2. \A k \in 1 .. Len(mcounts') :
        mcounts'[k].pc \in Returning => k \in 1 .. Len(mcounts)
  BY <1>1
<1>3. \A k \in 1 .. Len(mcounts) : k \in 1 .. Len(mcounts')
  BY <1>1
<1> QED
  BY <1>1, <1>2, <1>3, PendingSame

(* The place that a call stores to is its arc's and nobody else's.         *)
LEMMA StoreCounts ==
  ASSUME McountTyped, SamplerInv, NestInv, CellInv, LoadedInv, CountInv, StoreCount,
         OwnArcs' <=> OwnArcs
  PROVE  CountInv'
<1>1. PICK c : Advances(c, "store", {"return"})
  BY Gone DEF StoreCount, Places
<1>2. /\ Len(mcounts) \in Nat \ {0} /\ mcounts # << >> /\ c.pc = "return"
      /\ Top = mcounts[Len(mcounts)] /\ Top.pc = "store" /\ Top \in Counting
      /\ ArcOf(Top) \in Arcs
  BY <1>1, TopTyped DEF Advances
<1>3. PICK b, f, k, n :
        b \in Arcs /\ b = ArcOf(Top) /\ f = Top.fn /\ k = Top.arc /\ n = Top.count
  BY <1>2
<1>4. b[1] = Top.self /\ b[2] = Top.from /\ n \in Nat
  BY <1>2, <1>3 DEF ArcOf, Counting
<1>5. /\ f \in 1 .. Len(fns) /\ fns[f].self = Top.self
      /\ k \in 1 .. Len(fns[f].arcs) /\ fns[f].arcs[k].from = Top.from
      /\ fns \in Seq(Entry)
  BY <1>2, <1>3, FoundCount DEF McountTyped
<1>6. /\ Grows(fns, fns') /\ Len(fns') = Len(fns) /\ fns' \in Seq(Entry)
      /\ \A g \in 1 .. Len(fns) :
           /\ fns'[g].self = fns[g].self /\ Len(fns'[g].arcs) = Len(fns[g].arcs)
           /\ \A i \in 1 .. Len(fns[g].arcs) :
                fns'[g].arcs[i] = IF g = f /\ i = k
                                  THEN [fns[g].arcs[i] EXCEPT !.count = n + 1]
                                  ELSE fns[g].arcs[i]
  BY <1>3, Stored, StoreGrows
<1>7. \A a, g, i : Copy(fns', a, g, i) <=> Copy(fns, a, g, i)
  BY <1>6 DEF Copy, Grows
<1>8. fns'[f].arcs[k].count = n + 1
  <2>1. fns[f] \in Entry
    BY <1>5
  <2> DEFINE A == [from : {a[2] : a \in Arcs}, count : Nat \ {0}]
  <2>2. PICK s \in Seq(A) : s = fns[f].arcs
    BY <2>1 DEF Entry
  <2> HIDE DEF A
  <2>3. fns[f].arcs[k] \in A
    BY <1>5, <2>2
  <2>4. fns'[f].arcs[k] = [fns[f].arcs[k] EXCEPT !.count = n + 1]
    BY <1>5, <1>6
  <2> QED
    BY <2>3, <2>4 DEF A
<1>9. ASSUME NEW a, NEW g, NEW i, <<g, i>> # <<f, k>>, Copy(fns, a, g, i)
      PROVE  fns'[g].arcs[i].count = fns[g].arcs[i].count
  BY <1>6, <1>9 DEF Copy
<1>10. Copy(fns, b, f, k)
  BY <1>4, <1>5 DEF Copy
<1>11. Counts1(fns, fns', b, f, k, n)
  BY <1>4, <1>7, <1>8, <1>9, <1>10 DEF Counts1
<1>12. n <= fns[f].arcs[k].count /\ (OwnArcs => n = fns[f].arcs[k].count)
       /\ fns[f].arcs[k].count \in Nat
  BY <1>2, <1>3, FoundCount DEF LoadedInv, CountOf
<1>13. \A i : <<<<f, k>>, i>> \in CountsIn(fns, b) <=> i \in 1 .. fns[f].arcs[k].count
  BY <1>5, <1>10, CountedOnes
<1>14. CountsIn(fns', b) \subseteq CountsIn(fns, b) \cup {<<<<f, k>>, n + 1>>}
  <2>1. \A i \in 1 .. n : <<<<f, k>>, i>> \in CountsIn(fns, b)
    BY <1>4, <1>12, <1>13
  <2> QED
    BY <1>5, <1>6, <1>11, <2>1, CountsMore
<1>15. OwnArcs => /\ CountsIn(fns', b) = CountsIn(fns, b) \cup {<<<<f, k>>, n + 1>>}
                  /\ <<<<f, k>>, n + 1>> \notin CountsIn(fns, b)
  <2>1. ASSUME OwnArcs PROVE \A i : <<<<f, k>>, i>> \in CountsIn(fns, b) <=> i \in 1 .. n
    BY <1>12, <1>13, <2>1
  <2> QED
    BY <1>5, <1>6, <1>11, <2>1, CountsOneMore
<1>16. ASSUME NEW a \in Arcs \ {b}
       PROVE  /\ CountsIn(fns', a) = CountsIn(fns, a)
              /\ PendingIn(mcounts', a) = PendingIn(mcounts, a)
  <2>1. a = <<a[1], a[2]>> /\ b = <<b[1], b[2]>>
    BY <1>3, GmonAssumption
  <2>2. ~ Copy(fns, a, f, k)
    BY <1>4, <1>5, <1>16, <2>1 DEF Copy
  <2>3. \A g, i : Copy(fns, a, g, i) => <<g, i>> # <<f, k>>
    BY <2>2
  <2>4. CountsIn(fns', a) = CountsIn(fns, a)
    BY <1>5, <1>6, <1>7, <1>9, <2>3, CountsSame
  <2>5. ArcOf(Top) # a
    BY <1>3
  <2> QED
    BY <1>1, <2>4, <2>5, PendingAdvances
<1>17. /\ PendingIn(mcounts', b) = PendingIn(mcounts, b) \cup {Len(mcounts)}
       /\ Len(mcounts) \notin PendingIn(mcounts, b)
  BY <1>1, <1>2, <1>3, PendingArrives DEF Returning
<1>18. UNCHANGED made
  BY DEF StoreCount
<1> QED
  BY <1>3, <1>14, <1>15, <1>16, <1>17, <1>18, CountAdds

LEMMA AddArcCounts ==
  ASSUME McountTyped, CellInv, CountInv, AddArc, OwnArcs' <=> OwnArcs
  PROVE  CountInv'
<1>1. PICK c : Advances(c, "arc", {"enable"})
  BY Gone DEF AddArc, Places
<1>2. /\ Len(mcounts) \in Nat \ {0} /\ mcounts # << >> /\ c.pc = "enable"
      /\ Top = mcounts[Len(mcounts)] /\ ArcOf(Top) \in Arcs
  BY <1>1, TopTyped DEF Advances
<1>3. PICK b, f, k :
        b \in Arcs /\ b = ArcOf(Top) /\ f = Top.fn /\ k = Len(fns[Top.fn].arcs) + 1
  BY <1>2
<1>4. b[1] = Top.self /\ b[2] = Top.from
  BY <1>3 DEF ArcOf
<1>5. /\ f \in 1 .. Len(fns) /\ fns[f].self = Top.self
      /\ fns' \in Seq(Entry) /\ Len(fns') = Len(fns)
      /\ \A g \in 1 .. Len(fns) : fns'[g].self = fns[g].self
                                  /\ (g # f => fns'[g] = fns[g])
      /\ Len(fns[f].arcs) \in Nat /\ Len(fns[f].arcs) = k - 1 /\ k \in Nat
      /\ Len(fns'[f].arcs) = k
      /\ \A i \in 1 .. k - 1 : fns'[f].arcs[i] = fns[f].arcs[i]
      /\ fns'[f].arcs[k] = [from |-> Top.from, count |-> 1]
      /\ fns \in Seq(Entry)
  BY <1>3, ArcAdded DEF McountTyped
<1>6. ASSUME NEW a, NEW g, NEW i, <<g, i>> # <<f, k>>
      PROVE  /\ Copy(fns', a, g, i) <=> Copy(fns, a, g, i)
             /\ Copy(fns, a, g, i) => fns'[g].arcs[i].count = fns[g].arcs[i].count
  <2>1. CASE g = f
    <3>1. i # k
      BY <1>6, <2>1
    <3>2. i \in 1 .. k <=> i \in 1 .. k - 1
      BY <1>5, <3>1
    <3> QED
      BY <1>5, <2>1, <3>2 DEF Copy
  <2>2. CASE g # f
    BY <1>5, <2>2 DEF Copy
  <2> QED
    BY <2>1, <2>2
<1>7. \A a : ~ Copy(fns, a, f, k)
  BY <1>5 DEF Copy
<1>8. Counts1(fns, fns', b, f, k, 0)
  <2>1. Copy(fns', b, f, k)
    BY <1>4, <1>5 DEF Copy
  <2>2. fns'[f].arcs[k].count = 0 + 1
    BY <1>5
  <2> QED
    BY <1>6, <2>1, <2>2 DEF Counts1
<1>9. \A i : <<<<f, k>>, i>> \in CountsIn(fns, b) <=> i \in 1 .. 0
  BY <1>5, <1>7, CountedOnes
<1>10. /\ CountsIn(fns', b) = CountsIn(fns, b) \cup {<<<<f, k>>, 0 + 1>>}
       /\ <<<<f, k>>, 0 + 1>> \notin CountsIn(fns, b)
  BY <1>5, <1>8, <1>9, CountsOneMore
<1>11. ASSUME NEW a \in Arcs \ {b}
       PROVE  /\ CountsIn(fns', a) = CountsIn(fns, a)
              /\ PendingIn(mcounts', a) = PendingIn(mcounts, a)
  <2>1. a = <<a[1], a[2]>> /\ b = <<b[1], b[2]>>
    BY <1>3, GmonAssumption
  <2>2. ~ Copy(fns', a, f, k)
    <3>1. Copy(fns', a, f, k) => a[1] = b[1] /\ a[2] = b[2]
      BY <1>4, <1>5 DEF Copy
    <3> QED
      BY <1>11, <2>1, <3>1
  <2>3. \A g, i : Copy(fns', a, g, i) <=> Copy(fns, a, g, i)
    BY <1>6, <1>7, <2>2
  <2>4. \A g, i : Copy(fns, a, g, i) => fns'[g].arcs[i].count = fns[g].arcs[i].count
    BY <1>6, <1>7
  <2>5. CountsIn(fns', a) = CountsIn(fns, a)
    BY <1>5, <2>3, <2>4, CountsSame
  <2>6. ArcOf(Top) # a
    BY <1>3
  <2> QED
    BY <1>1, <2>5, <2>6, PendingAdvances
<1>12. /\ PendingIn(mcounts', b) = PendingIn(mcounts, b) \cup {Len(mcounts)}
       /\ Len(mcounts) \notin PendingIn(mcounts, b)
  BY <1>1, <1>2, <1>3, PendingArrives DEF Returning
<1>13. UNCHANGED made
  BY DEF AddArc
<1> QED
  BY <1>3, <1>10, <1>11, <1>12, <1>13, CountAdds

LEMMA AddFunctionCounts ==
  ASSUME McountTyped, AddFunction, NEW a
  PROVE  CountsIn(fns', a) = CountsIn(fns, a)
<1>1. /\ fns' \in Seq(Entry) /\ Len(fns') = Len(fns) + 1 /\ fns \in Seq(Entry)
      /\ \A f \in 1 .. Len(fns) : fns'[f] = fns[f]
      /\ fns'[Len(fns) + 1].arcs = << >> /\ Len(fns) \in Nat
  BY FunctionAdded DEF McountTyped
<1>2. \A k : k \notin 1 .. Len(fns'[Len(fns) + 1].arcs)
  BY <1>1
<1>3. \A f : f \in 1 .. Len(fns') <=> f \in 1 .. Len(fns) \/ f = Len(fns) + 1
  BY <1>1
<1>4. \A f, k : Copy(fns', a, f, k) <=> Copy(fns, a, f, k)
  BY <1>1, <1>2, <1>3 DEF Copy
<1>5. \A f, k : Copy(fns, a, f, k) => fns'[f].arcs[k].count = fns[f].arcs[k].count
  BY <1>1 DEF Copy
<1> QED
  BY <1>1, <1>4, <1>5, CountsSame

LEMMA CountStep ==
  ASSUME McountTyped, SamplerInv, NestInv, CellInv, LoadedInv, CountInv, GmonNext
  PROVE  CountInv'
<1>o. OwnArcs' <=> OwnArcs
  BY DEF GmonNext, OwnArcs
<1>m. ASSUME UNCHANGED <<fns, made, mcounts>> PROVE CountInv'
  BY <1>m, <1>o, CountKept
<1>a. ASSUME NEW c, NEW p, NEW q, Advances(c, p, q), UNCHANGED made,
             p \in Returning <=> c.pc \in Returning,
             \A a \in Arcs : CountsIn(fns', a) = CountsIn(fns, a)
      PROVE  CountInv'
  BY <1>a, <1>o, PendingAdvances, CountKept
<1>g. ASSUME NEW p, InMcount(p), NEW r \in Places, GoesTo(r), UNCHANGED <<fns, made>>,
             p \in Returning <=> r \in Returning
      PROVE  CountInv'
  <2>1. PICK c : Advances(c, p, {r})
    BY <1>g, Gone
  <2>2. c.pc = r
    BY <2>1 DEF Advances
  <2> QED
    BY <1>a, <1>g, <2>1, <2>2
<1>1. ASSUME NEW arc \in ProgramArcs, ProgramMcounts(arc) PROVE CountInv'
  <2>1. PICK c : Begins(c, arc) /\ Kept
    BY <1>1, ProgramAhead
  <2>2. UNCHANGED <<fns, made>>
    BY <1>1 DEF ProgramMcounts
  <2> QED
    BY <1>o, <2>1, <2>2, PendingBegins, CountKept DEF Kept
<1>2. ASSUME NEW arc \in handler_arcs, HandlerMcounts(arc) PROVE CountInv'
  <2>1. PICK c : Begins(c, arc) /\ Kept
    BY <1>2, HandlerAhead
  <2>2. UNCHANGED <<fns, made>>
    BY <1>2 DEF HandlerMcounts
  <2> QED
    BY <1>o, <2>1, <2>2, PendingBegins, CountKept DEF Kept
<1>3. CASE SearchFunctions
  BY <1>3, <1>a, SearchedAhead DEF SearchFunctions, Returning, Advances
<1>4. CASE SearchArcs
  BY <1>4, <1>a, WalkedAhead DEF SearchArcs, Returning, Advances
<1>5. CASE LoadCount
  BY <1>5, <1>a, LoadedAhead DEF LoadCount, Returning, Advances
<1>6. CASE StoreCount
  BY <1>6, <1>o, StoreCounts
<1>7. CASE __mcount_record
  BY <1>7, <1>g DEF __mcount_record, Choose, Places, Returning
<1>8. CASE ClearNeedInit
  BY <1>8, <1>g DEF ClearNeedInit, Places, Returning
<1>9. CASE nios2_pcsample_init
  BY <1>9, <1>g DEF nios2_pcsample_init, Choose, Places, Returning
<1>10. CASE AllocateHistogram
  BY <1>10, <1>g DEF AllocateHistogram, Places, Returning
<1>11. CASE StartSampler
  <2>1. PICK c, b :
          /\ Begins(c, InitArc) /\ Len(mcounts) \in Nat \ {0}
          /\ Top = mcounts[Len(mcounts)] /\ Top.pc = "start"
          /\ mcounts'[Len(mcounts)] = b /\ b.pc = "started" /\ ArcOf(b) = ArcOf(Top)
          /\ \A k \in 1 .. Len(mcounts) - 1 : mcounts'[k] = mcounts[k]
    BY <1>11, StartAhead
  <2>2. ASSUME NEW k \in 1 .. Len(mcounts)
        PROVE  /\ ArcOf(mcounts'[k]) = ArcOf(mcounts[k])
               /\ mcounts'[k].pc \in Returning <=> mcounts[k].pc \in Returning
    <3>1. k = Len(mcounts) \/ k \in 1 .. Len(mcounts) - 1
      BY <2>1
    <3>2. "start" \notin Returning /\ "started" \notin Returning
      BY DEF Returning
    <3> QED
      BY <2>1, <3>1, <3>2
  <2>3. UNCHANGED <<fns, made>>
    BY <1>11 DEF StartSampler
  <2> QED
    BY <1>o, <2>1, <2>2, <2>3, PendingBegins, CountKept
<1>12. CASE SamplerStarted
  BY <1>12, <1>g DEF SamplerStarted, Places, Returning
<1>13. CASE DisableInterrupts
  BY <1>13, <1>a, DisabledAhead DEF DisableInterrupts, Returning, Advances
<1>14. CASE AddFunction
  <2>1. PICK c : Advances(c, "function", {"arc"})
    BY <1>14, AddedAhead
  <2>2. c.pc \notin Returning /\ "function" \notin Returning
    BY <2>1 DEF Advances, Returning
  <2>3. UNCHANGED made
    BY <1>14 DEF AddFunction
  <2> QED
    BY <1>14, <1>a, <2>1, <2>2, <2>3, AddFunctionCounts
<1>15. CASE AddArc
  BY <1>15, <1>o, AddArcCounts
<1>16. CASE RestoreInterrupts
  BY <1>16, <1>g DEF RestoreInterrupts, Places, Returning
<1>17. CASE McountReturns
  BY <1>17, <1>o, CountReturns
<1>18. CASE ClockStarts
  BY <1>18, <1>m DEF ClockStarts
<1>19. ASSUME NEW ea, nios2_pcsample(ea) PROVE CountInv'
  BY <1>19, <1>m DEF nios2_pcsample
<1> QED
  BY <1>1, <1>2, <1>3, <1>4, <1>5, <1>6, <1>7, <1>8, <1>9, <1>10, <1>11, <1>12, <1>13,
     <1>14, <1>15, <1>16, <1>17, <1>18, <1>19 DEF GmonNext, GmonStep

(* The invariant.                                                          *)
LEMMA GmonStarts ==
  ASSUME GmonInit
  PROVE  GmonInv
<1>1. fns = << >> /\ mcounts = << >> /\ Len(fns) = 0 /\ Len(mcounts) = 0
  BY DEF GmonInit
<1>2. McountTyped
  <2>1. mcounts \in Seq(Counting) /\ fns \in Seq(Entry)
    BY <1>1
  <2>2. slab \in 0 .. Slab /\ memory \in 0 .. Memory /\ alarms \in Nat
    BY GmonAssumption DEF GmonInit
  <2>3. made \in [Arcs -> Nat]
    BY DEF GmonInit
  <2>4. /\ enabled \in BOOLEAN /\ need_init \in BOOLEAN /\ ticking \in BOOLEAN
        /\ samples \in {"null", "buffer", "failed"} /\ handler_arcs \in HandlerArcs
    BY DEF GmonInit
  <2>5. \A k \in 1 .. Len(mcounts) : ArcOf(mcounts[k]) \in Arcs
    BY <1>1
  <2> QED
    BY <2>1, <2>2, <2>3, <2>4, <2>5 DEF McountTyped
<1>3. SamplerInv /\ NestInv /\ LoadedInv
  BY <1>1 DEF GmonInit, SamplerInv, NestInv, LoadedInv, HandlerRuns
<1>4. CellInv
  BY <1>1 DEF GmonInit, CellInv
<1>5. ASSUME NEW a \in Arcs
      PROVE  CountsIn(fns, a) = {} /\ PendingIn(mcounts, a) = {} /\ made[a] = 0
  <2>1. \A f, k : ~ Copy(fns, a, f, k)
    BY <1>1 DEF Copy
  <2>2. \A y : y \notin CountsIn(fns, a)
    BY <1>2, <2>1, CountedOnes DEF McountTyped
  <2>3. \A k : k \notin PendingIn(mcounts, a)
    <3>1. mcounts \in Seq(Counting) /\ \A k : k \notin 1 .. Len(mcounts)
      BY <1>1
    <3> QED
      BY <3>1, PendingOnes
  <2> QED
    BY <2>2, <2>3 DEF GmonInit
<1>6. CountInv
  BY <1>5, FS_EmptySet DEF CountInv, Sums
<1> QED
  BY <1>2, <1>3, <1>4, <1>6 DEF GmonInv

LEMMA GmonStays ==
  ASSUME GmonInv, [GmonNext]_gmonVars
  PROVE  GmonInv'
<1>1. CASE GmonNext
  BY <1>1, TypedStep, SamplerStep, NestStep, CellStep, LoadedStep, CountStep DEF GmonInv
<1>2. CASE UNCHANGED gmonVars
  BY <1>2 DEF GmonInv, gmonVars, memoryVars, samplerVars, McountTyped, SamplerInv,
              NestInv, CellInv, LoadedInv, CountInv, Sums, OwnArcs, HandlerRuns, InMcount, Top
<1> QED
  BY <1>1, <1>2

LEMMA KnownArcs ==
  ASSUME GmonInv
  PROVE  ArcsKnown
<1>1. /\ McountTyped /\ SamplerInv /\ NestInv /\ CellInv /\ CountInv
      /\ fns \in Seq(Entry) /\ mcounts \in Seq(Counting) /\ made \in [Arcs -> Nat]
  BY DEF GmonInv, McountTyped
<1>2. GmonTypeOK
  <2>1. ASSUME NEW f \in DOMAIN fns PROVE fns[f].self \in {a[1] : a \in Arcs}
    <3>1. fns[f] \in Entry
      BY <1>1
    <3> QED
      BY <3>1 DEF Entry
  <2>2. ~ enabled => mcounts # << >>
    <3>1. mcounts = << >> => Len(mcounts) = 0
      OBVIOUS
    <3> QED
      BY <1>1, <3>1 DEF NestInv, HandlerRuns
  <2> QED
    BY <1>1, <2>1, <2>2 DEF GmonTypeOK, McountTyped, SamplerInv
<1>3. AlwaysAnArc
  <2>1. ASSUME enabled \/ InMcount("walk") PROVE ~ InMcount("arc")
    BY <1>1, <2>1 DEF NestInv, InMcount, Changing
  <2>2. ASSUME NEW f \in DOMAIN fns, ~ InMcount("arc") PROVE fns[f].arcs # << >>
    <3>1. f \in 1 .. Len(fns)
      BY <1>1, <2>2
    <3>2. Len(fns[f].arcs) # 0
      BY <1>1, <2>2, <3>1 DEF CellInv
    <3> QED
      BY <3>2
  <2> QED
    BY <2>1, <2>2 DEF AlwaysAnArc
<1>4. ASSUME NEW a \in Arcs
      PROVE  /\ made[a] > 0 => Counted(a) > 0
             /\ Counted(a) <= made[a] + Pending(a)
             /\ OwnArcs => Counted(a) = made[a] + Pending(a)
  <2>1. /\ IsFiniteSet(CountsIn(fns, a))
        /\ Sums(Cardinality(CountsIn(fns, a)), made[a],
                Cardinality(PendingIn(mcounts, a)))
    BY <1>1 DEF CountInv
  <2>2. Counted(a) = Cardinality(CountsIn(fns, a))
        /\ Pending(a) = Cardinality(PendingIn(mcounts, a))
    BY CountsAre DEF Counted
  <2>3. ASSUME made[a] > 0 PROVE Counted(a) > 0
    <3>1. HasArc(fns, a)
      BY <1>1, <2>3 DEF CellInv
    <3>2. PICK f \in 1 .. Len(fns) :
            /\ fns[f].self = a[1]
            /\ \E k \in 1 .. Len(fns[f].arcs) : fns[f].arcs[k].from = a[2]
      BY <3>1 DEF HasArc
    <3>3. PICK k \in 1 .. Len(fns[f].arcs) : fns[f].arcs[k].from = a[2]
      BY <3>2
    <3>4. 1 \in 1 .. fns[f].arcs[k].count
      BY <1>1, ArcsListed
    <3>5. <<<<f, k>>, 1>> \in CountsIn(fns, a)
      BY <1>1, <3>2, <3>3, <3>4, CountedOnes DEF Copy
    <3> QED
      BY <2>1, <2>2, <3>5, FS_EmptySet, FS_CardinalityType
  <2> QED
    BY <2>1, <2>2, <2>3 DEF Sums
<1> QED
  BY <1>2, <1>3, <1>4 DEF ArcsKnown, NothingForgotten, CallsCounted

(* The profiler's lists stay searchable, whatever interrupts mcount(): no  *)
(* call that returned is missing, none is counted that was not made, and   *)
(* all are counted when handlers have arcs of their own.                   *)
THEOREM ArcsAlwaysKnown ==
  GmonSpec => []ArcsKnown
<1>1. GmonInit => GmonInv
  BY GmonStarts
<1>2. GmonInv /\ [GmonNext]_gmonVars => GmonInv'
  BY GmonStays
<1>3. GmonInv => ArcsKnown
  BY KnownArcs
<1> QED
  BY <1>1, <1>2, <1>3, PTL DEF GmonSpec
=============================================================================
