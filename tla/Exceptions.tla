----------------------------- MODULE Exceptions -----------------------------
(***************************************************************************)
(* Exceptions of the processor: entry, the test for interrupts, emulation  *)
(* of instructions, the handler for the others, and the way back.  The     *)
(* program and the handlers of interrupts run instructions that may fault, *)
(* handlers may let others interrupt them.                                 *)
(***************************************************************************)
EXTENDS Integers, Sequences, SequencesExt, FiniteSetsExt

CONSTANTS
  Irqs,           \* interrupts, all enabled; the lowest has the highest priority
  Program, Isr,   \* the instructions of the program and of every handler
  Builds,         \* sets of options that the system is built with
  MaxRaises, MaxReissues, \* bounds: interrupts, instructions tried again,
  MaxDepth        \* and how deep a handler may be that calls alt_irq_enable()

Instructions == {"plain", "mul", "illegal", "misaligned"}

(* ALT_INCLUDE_INSTRUCTION_RELATED_EXCEPTION_API,                          *)
(* NIOS2_HAS_EXTRA_EXCEPTION_INFO, alt_exception_muldiv linked, and        *)
(* handlers of interrupts that call alt_irq_enable().                      *)
Options == {"Api", "ExtraInfo", "Emulates", "Enables"}

ASSUME ExceptionsAssumption ==
  /\ Irqs \subseteq Nat /\ Program \in Seq(Instructions) /\ Isr \in Seq(Instructions)
  /\ Builds \subseteq SUBSET Options
  /\ {MaxRaises, MaxReissues, MaxDepth} \subseteq Nat

VARIABLES
  options,
  owner, at,      \* who runs, 0 for the program and i + 1 for the handler of i; the instruction to come
  open, old,      \* whether a handler lets others in, and the priorities before it did
  PIE, alt_priority_mask, IENABLE,
  frames,         \* the exception stack
  CAUSE, BADADDR, \* registers of the processor
  mode, told,     \* what the processor is doing, and what a handler is told
  handler,        \* whether a handler for instructions is registered
  lines, ledger,  \* raised interrupts; how each instruction of the program went
  raises, reissues

context == <<owner, at, open, old>>
registers == <<PIE, alt_priority_mask, IENABLE>>
extra == <<CAUSE, BADADDR>>
counts == <<raises, reissues>>
excVars == <<options, context, registers, frames, extra, mode, told, handler, lines,
             ledger, counts>>

Code(o) == IF o = 0 THEN Program ELSE Isr
Top == Last(frames)
Faulty == Code(Top.owner)[Top.at]     \* the instruction at ea - 4
IPENDING == lines \cap IENABLE
Log(how) == ledger' = IF Top.owner = 0 THEN Append(ledger, <<Top.at,
                                                             how>>) ELSE ledger

CauseOf(kind) ==
  CASE kind = "interrupt" -> 2 [] kind = "mul" -> 4 [] kind = "illegal" -> 5
    [] kind = "misaligned" -> 6

alt_exception_cause_generated_bad_addr(cause) == cause \in {6, 7, 11, 14, 15, 17}

Api == "Api" \in options
ExtraInfo == "ExtraInfo" \in options
Emulates == "Emulates" \in options
Enables == "Enables" \in options

ExcInit ==
  /\ options \in Builds
  /\ owner = 0 /\ at = 1 /\ open = FALSE /\ old = Irqs
  /\ PIE = TRUE /\ alt_priority_mask = Irqs /\ IENABLE = Irqs
  /\ frames = << >> /\ CAUSE = 0 /\ BADADDR = <<0, 0>>
  /\ mode = "run" /\ told = [cause |-> -1, pc |-> <<0, 0>>, bad |-> <<0, 0>>]
  /\ handler = FALSE /\ lines = {} /\ ledger = << >> /\ raises = 0 /\ reissues = 0
-----------------------------------------------------------------------------
Fetches == mode = "run" /\ at <= Len(Code(owner))

Execute ==
  /\ Fetches /\ Code(owner)[at] = "plain"
  /\ at' = at + 1
  /\ ledger' = IF owner = 0 THEN Append(ledger, <<at, "done">>) ELSE ledger
  /\ UNCHANGED <<owner, open, old, registers, frames, extra, mode, told,
                 handler, lines, counts>>

(* The processor clears PIE; the entry code saves everything on the stack. *)
Trap(cause) ==
  /\ frames' = Append(frames, [owner |-> owner, at |-> at, open |-> open, old |-> old,
                               back |-> at, est |-> PIE])
  /\ PIE' = FALSE /\ CAUSE' = cause /\ mode' = "test"
  /\ UNCHANGED <<context, alt_priority_mask, IENABLE, told, handler, lines,
                 ledger, counts>>

Fault ==
  /\ Fetches /\ Code(owner)[at] # "plain"
  /\ Trap(CauseOf(Code(owner)[at]))
  /\ BADADDR' = IF Code(owner)[at] = "misaligned" THEN <<owner,
                                                         at>> ELSE BADADDR

Interrupt ==
  /\ mode = "run" /\ PIE /\ IPENDING # {}
  /\ Trap(CauseOf("interrupt")) /\ UNCHANGED BADADDR

(* An exception of an instruction, too, serves the interrupts that are     *)
(* pending by now, if they are allowed; the instruction is issued again.   *)
TestIrq ==
  /\ mode = "test"
  /\ IF Top.est /\ IPENDING # {}
     THEN /\ owner' = Min(IPENDING) + 1 /\ at' = 1 /\ open' = FALSE /\ mode' = "run"
          /\ UNCHANGED <<old, frames>>
     ELSE /\ frames' = [frames EXCEPT ![Len(frames)].back = Top.at + 1]
          /\ mode' = "soft" /\ UNCHANGED context
  /\ UNCHANGED <<registers, extra, told, handler, lines, ledger, counts>>

Emulate ==
  /\ mode = "soft" /\ Emulates /\ Faulty = "mul"
  /\ mode' = "exit" /\ Log("emulated")
  /\ UNCHANGED <<context, registers, frames, extra, told, handler, lines,
                 counts>>

alt_instruction_exception_entry ==
  /\ mode = "soft" /\ ~(Emulates /\ Faulty = "mul")
  /\ IF Api /\ handler
     THEN /\ mode' = "handler"
          /\ told' = [cause |-> IF ExtraInfo THEN CAUSE ELSE -1,
                      pc |-> <<Top.owner, Top.at>>,
                      bad |-> IF ExtraInfo THEN BADADDR ELSE <<0, 0>>]
     ELSE mode' = "break" /\ UNCHANGED told
  /\ UNCHANGED <<context, registers, frames, extra, handler, lines, ledger,
                 counts>>

(* Mutant: every result skips the instruction.                             *)
ReturnsSkip ==
  /\ mode = "handler" /\ mode' = "exit"
  /\ \/ Log("skipped") /\ UNCHANGED <<frames, counts>>
     \/ /\ reissues < MaxReissues /\ reissues' = reissues + 1
        /\ UNCHANGED <<frames, raises, ledger>>
  /\ UNCHANGED <<context, registers, extra, told, handler, lines>>

(* A result of 0 issues the instruction again, another one skips it.       *)
HandlerReturns ==
  /\ mode = "handler" /\ mode' = "exit"
  /\ \/ Log("skipped") /\ UNCHANGED <<frames, counts>>
     \/ /\ reissues < MaxReissues /\ reissues' = reissues + 1
        /\ frames' = [frames EXCEPT ![Len(frames)].back = Top.at]
        /\ UNCHANGED <<raises, ledger>>
  /\ UNCHANGED <<context, registers, extra, told, handler, lines>>

Exit ==
  /\ mode = "exit" /\ mode' = "run"
  /\ owner' = Top.owner /\ at' = Top.back /\ open' = Top.open /\ old' = Top.old
  /\ PIE' = Top.est /\ frames' = Front(frames)
  /\ UNCHANGED <<alt_priority_mask, IENABLE, extra, told, handler, lines,
                 ledger, counts>>
-----------------------------------------------------------------------------
InIsr == mode = "run" /\ owner # 0

alt_irq_interruptible ==
  /\ InIsr /\ at = 1 /\ ~open
  /\ open' = TRUE /\ old' = alt_priority_mask
  /\ alt_priority_mask' = {j \in Irqs : j < owner - 1}
  /\ IENABLE' = Irqs \cap alt_priority_mask' /\ PIE' = TRUE
  /\ UNCHANGED <<owner, at, frames, extra, mode, told, handler, lines, ledger,
                 counts>>

alt_irq_non_interruptible ==
  /\ InIsr /\ at > Len(Isr) /\ open
  /\ open' = FALSE /\ PIE' = FALSE
  /\ alt_priority_mask' = old /\ IENABLE' = old \cap Irqs
  /\ UNCHANGED <<owner, at, old, frames, extra, mode, told, handler, lines,
                 ledger, counts>>

(* alt_irq_enable() writes every interrupt that is active to the mask.     *)
alt_irq_enable ==
  /\ Enables /\ InIsr /\ Len(frames) < MaxDepth
  /\ IENABLE' = Irqs
  /\ UNCHANGED <<context, PIE, alt_priority_mask, frames, extra, mode, told,
                 handler, lines, ledger, counts>>

(* The handler returns, its device served; alt_irq_handler() goes on while *)
(* interrupts are pending.                                                 *)
IsrReturns ==
  /\ InIsr /\ at > Len(Isr) /\ ~open
  /\ lines' = lines \ {owner - 1}
  /\ LET pending == lines' \cap IENABLE
     IN  IF pending # {} THEN owner' = Min(pending) + 1 /\ at' = 1 /\ UNCHANGED mode
         ELSE mode' = "exit" /\ UNCHANGED <<owner, at>>
  /\ UNCHANGED <<open, old, registers, frames, extra, told, handler, ledger,
                 counts>>

alt_instruction_exception_register ==
  /\ mode = "run" /\ owner = 0 /\ handler' = TRUE /\ ~handler
  /\ UNCHANGED <<context, registers, frames, extra, mode, told, lines, ledger,
                 counts>>

Raise ==
  /\ raises < MaxRaises /\ raises' = raises + 1
  /\ \E i \in Irqs \ lines : lines' = lines \cup {i}
  /\ UNCHANGED <<context, registers, frames, extra, mode, told, handler,
                 ledger, reissues>>

ExcStep ==
  \/ Execute \/ Fault \/ TestIrq \/ Emulate \/ alt_instruction_exception_entry
  \/ HandlerReturns \/ Exit \/ alt_irq_non_interruptible \/ IsrReturns

ExcNext ==
  /\ UNCHANGED options
  /\ \/ ExcStep \/ Interrupt \/ alt_irq_interruptible \/ alt_irq_enable
     \/ alt_instruction_exception_register \/ Raise

(* The processor runs.                                                     *)
ExcSpec == ExcInit /\ [][ExcNext]_excVars /\ WF_excVars(ExcStep /\ UNCHANGED options)
-----------------------------------------------------------------------------
ExcTypeOK ==
  /\ owner \in {0} \cup {i + 1 : i \in Irqs} /\ at \in 1 .. Len(Code(owner)) + 1
  /\ {open, PIE, handler} \subseteq BOOLEAN
  /\ {old, alt_priority_mask, IENABLE, lines} \subseteq SUBSET Irqs
  /\ mode \in {"run", "test", "soft", "handler", "exit", "break"}
  /\ \A k \in DOMAIN frames : frames[k].back \in {frames[k].at, frames[k].at + 1}

(* Whatever interrupts it, the program's instructions take effect one      *)
(* after the other, each of them once: done, emulated or left out by the   *)
(* handler, and none that could have been done or emulated is left out.    *)
OnceInOrder ==
  /\ \A k \in DOMAIN ledger :
       /\ ledger[k][1] = k
       /\ ledger[k][2] = CASE Program[k] = "plain" -> "done"
                           [] Program[k] = "mul" /\ Emulates -> "emulated"
                           [] OTHER -> "skipped"
  /\ owner = 0 /\ mode = "run" => at = Len(ledger) + 1

(* Interrupts are allowed in the program and in a handler that lets others *)
(* in, and nowhere else, also after a fault in a handler.                  *)
AllowedWhere == mode = "run" => PIE = (owner = 0 \/ open)

(* alt_legacy_irq.h: alt_irq_interruptible() allows interrupts of a higher *)
(* priority to interrupt a handler: none of the same or a lower one does,  *)
(* so that no handler is entered a second time.                            *)
HigherOnly ==
  LET served == [k \in DOMAIN frames |-> frames[k].owner] \o <<owner>>
  IN  mode = "run" =>
        \A j, k \in DOMAIN served : j < k /\ served[j] # 0 => served[k] \in 1 .. served[j] - 1

(* What a handler is told is about the instruction that it is called for,  *)
(* whatever faulted before or in between; its address is the one that      *)
(* alt_exception_cause_generated_bad_addr() says is valid.                 *)
ToldRight ==
  mode = "handler" =>
    /\ told.pc = <<Top.owner, Top.at>>
    /\ told.cause = IF ExtraInfo THEN CauseOf(Faulty) ELSE -1
    /\ alt_exception_cause_generated_bad_addr(told.cause) => told.bad = told.pc

(* Exceptions and interrupts are not seen, neither by the program nor by a *)
(* handler: all of the above, and only handlers that enable interrupts     *)
(* themselves are interrupted by others than those of a higher priority.   *)
ExceptionsUnseen ==
  /\ ExcTypeOK /\ OnceInOrder /\ AllowedWhere /\ ToldRight
  /\ ~Enables => HigherOnly

(* Without a break, the program comes to its end.                          *)
ProgramEnds == <>(mode = "break" \/ (owner = 0 /\ at > Len(Program)))

(* alt_exception_entry.S: Return code was 0: Skip.                         *)
ZeroSkips ==
  [][mode = "handler" /\ reissues' # reissues => Last(frames').back = Top.at + 1]_excVars
=============================================================================
