-------------------------------- MODULE Heap --------------------------------
(***************************************************************************)
(* sbrk() of the HAL and the check of the stack that grows towards what it *)
(* hands out: malloc() and the profiler extend the heap from the program   *)
(* and from interrupt handlers, the stack comes down from the other end of *)
(* the same memory, and the processor's stack limit register follows the   *)
(* end of the heap.  After an overflow was reported nothing runs.          *)
(***************************************************************************)
EXTENDS Integers, Sequences

CONSTANTS
  Word,             \* bytes of a word
  Limit,            \* __alt_heap_limit - __alt_heap_start, the stack's top too
  StackCheck,       \* ALT_STACK_CHECK
  ExceptionStack,   \* ALT_EXCEPTION_STACK
  Sizes,            \* sizes that sbrk() is called with
  None,             \* no stack limit: NULL, or that of the exception stack
  MaxCalls          \* bound: calls that interrupt each other

ASSUME HeapAssumption ==
  /\ Word \in Nat \ {0} /\ Limit \in Nat /\ Limit % Word = 0
  /\ StackCheck \in BOOLEAN /\ ExceptionStack \in BOOLEAN
  /\ Sizes \subseteq Nat /\ None \notin Nat /\ MaxCalls \in Nat

VARIABLES
  heap_end,         \* from __alt_heap_start
  blocks,           \* what sbrk() has answered: [start, size]
  pie,              \* whether the processor takes interrupts
  calls,            \* calls of sbrk() that run, the innermost one first
  sp,               \* stack pointer of the program's stack
  limit,            \* the stack limit register
  old_limit,        \* alt_exception_old_stack_limit
  handling,         \* whether an exception runs on a stack of its own
  report            \* who has reported a stack overflow

stack == <<sp, limit, old_limit, handling>>
heapVars == <<heap_end, blocks, pie, calls, stack, report>>

HeapInit ==
  /\ heap_end = 0 /\ blocks = {} /\ pie = TRUE /\ calls = << >>
  /\ sp = Limit /\ limit = 0 /\ old_limit = None /\ handling = FALSE
  /\ report = "none"

Aligned(a) == a + ((Word - (a % Word)) % Word)

Running == calls # << >> /\ report = "none"
At(pc) == Running /\ calls[1].pc = pc
Goto(pc) == calls' = [calls EXCEPT ![1].pc = pc]

(* Mutant: interrupts stay enabled.                                        *)
SbrkOpen(incr) ==
  /\ report = "none" /\ Len(calls) < MaxCalls
  /\ calls = << >> \/ pie
  /\ calls' = <<[pc |-> "round", incr |-> incr, prev |-> 0]>> \o calls
  /\ UNCHANGED <<heap_end, blocks, pie, stack, report>>

(* A call, of the program or of a handler that interrupts another call.    *)
sbrk(incr) ==
  /\ report = "none" /\ Len(calls) < MaxCalls
  /\ calls = << >> \/ pie
  /\ calls' = <<[pc |-> "round", incr |-> incr, prev |-> 0]>> \o calls
  /\ pie' = FALSE
  /\ UNCHANGED <<heap_end, blocks, stack, report>>

Round ==
  /\ At("round") /\ Goto("extend")
  /\ heap_end' = Aligned(heap_end)
  /\ UNCHANGED <<blocks, pie, stack, report>>

Refuse ==
  /\ At("extend") /\ heap_end + calls[1].incr > Limit
  /\ Goto("return")
  /\ UNCHANGED <<heap_end, blocks, pie, stack, report>>

Extend ==
  /\ At("extend") /\ heap_end + calls[1].incr <= Limit
  /\ calls' = [calls EXCEPT ![1].pc = "advance", ![1].prev = heap_end]
  /\ UNCHANGED <<heap_end, blocks, pie, stack, report>>

Advance ==
  /\ At("advance")
  /\ Goto(IF StackCheck THEN "stack" ELSE "return")
  /\ heap_end' = calls[1].prev + calls[1].incr
  /\ blocks' = blocks \cup {[start |-> calls[1].prev, size |-> calls[1].incr]}
  /\ UNCHANGED <<pie, stack, report>>

(* Mutant: the limit is compared with the end of the heap, not the stack.  *)
LimitCompared ==
  /\ At("stack") /\ Goto("old_stack")
  /\ IF limit = calls[1].prev
     THEN /\ report' = IF limit <= heap_end THEN "sbrk" ELSE report
          /\ limit' = heap_end
     ELSE UNCHANGED <<report, limit>>
  /\ UNCHANGED <<heap_end, blocks, pie, sp, old_limit, handling>>

(* If the limit is where the heap ended, the stack is the one above it.    *)
LimitStack ==
  /\ At("stack") /\ Goto("old_stack")
  /\ IF limit = calls[1].prev
     THEN /\ report' = IF sp <= heap_end THEN "sbrk" ELSE report
          /\ limit' = heap_end
     ELSE UNCHANGED <<report, limit>>
  /\ UNCHANGED <<heap_end, blocks, pie, sp, old_limit, handling>>

LimitOldStack ==
  /\ At("old_stack") /\ Goto("return")
  /\ IF ExceptionStack /\ old_limit = calls[1].prev
     THEN /\ report' = IF old_limit <= heap_end THEN "sbrk" ELSE report
          /\ old_limit' = heap_end
     ELSE UNCHANGED <<report, old_limit>>
  /\ UNCHANGED <<heap_end, blocks, pie, sp, limit, handling>>

Return ==
  /\ At("return")
  /\ calls' = Tail(calls)
  /\ pie' = TRUE
  /\ UNCHANGED <<heap_end, blocks, stack, report>>

(* A function is entered; its prologue compares its frame with the limit.  *)
Enter ==
  /\ calls = << >> /\ report = "none" /\ ~ handling
  /\ IF StackCheck /\ sp - Word < limit
     THEN report' = "function" /\ UNCHANGED sp
     ELSE sp' = sp - Word /\ sp >= Word /\ UNCHANGED report
  /\ UNCHANGED <<heap_end, blocks, pie, calls, limit, old_limit, handling>>

Leave ==
  /\ calls = << >> /\ report = "none" /\ ~ handling /\ sp < Limit
  /\ sp' = sp + Word
  /\ UNCHANGED <<heap_end, blocks, pie, calls, limit, old_limit, handling,
                 report>>

(* An exception that has a stack of its own.                               *)
Exception ==
  /\ ExceptionStack /\ calls = << >> /\ report = "none" /\ ~ handling
  /\ handling' = TRUE /\ old_limit' = limit /\ limit' = None
  /\ UNCHANGED <<heap_end, blocks, pie, calls, sp, report>>

EndException ==
  /\ calls = << >> /\ report = "none" /\ handling
  /\ handling' = FALSE /\ limit' = old_limit /\ old_limit' = None
  /\ UNCHANGED <<heap_end, blocks, pie, calls, sp, report>>

HeapNext ==
  \/ \E incr \in Sizes : sbrk(incr)
  \/ Round \/ Refuse \/ Extend \/ Advance \/ LimitStack \/ LimitOldStack
  \/ Return \/ Enter \/ Leave \/ Exception \/ EndException

HeapSpec == HeapInit /\ [][HeapNext]_heapVars
-----------------------------------------------------------------------------
HeapTypeOK ==
  /\ heap_end \in 0 .. Limit /\ sp \in 0 .. Limit
  /\ limit \in 0 .. Limit \cup {None} /\ old_limit \in 0 .. Limit \cup {None}
  /\ handling <=> limit = None
  /\ \A b \in blocks : b.start % Word = 0 /\ b.size \in Sizes
  /\ report \in {"none", "sbrk", "function"}

(* No two blocks share a byte, whoever interrupts whose call               *)
(* (alt_sbrk.c: must be safe if called from an interrupt context).         *)
BlocksApart ==
  \A b, c \in blocks : b # c => \/ b.start + b.size <= c.start
                                \/ c.start + c.size <= b.start

(* While nothing was reported the stack lies above the heap (alt_sbrk.c:   *)
(* the limit is adjusted, while checking for stack pointer overflow).      *)
StackApart ==
  StackCheck /\ report = "none" /\ calls = << >> => sp >= heap_end

(* What is reported as an overflow is one (alt_sbrk.c: compare against the *)
(* stack we switched away from as well).                                   *)
OverflowIsReal == report = "sbrk" => sp <= heap_end

(* The stack stays above the heap, and what is reported as an overflow is  *)
(* one, except in an exception with a stack of its own, where the limit of *)
(* the other stack is compared and not its pointer.                        *)
StackRight == HeapTypeOK /\ StackApart /\ (handling \/ OverflowIsReal)

(* Memory is allocated even beyond the available memory, as a comment of   *)
(* alt_sbrk.c says.                                                        *)
NeverRefused == [][~ Refuse]_heapVars
=============================================================================
