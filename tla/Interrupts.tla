----------------------------- MODULE Interrupts -----------------------------
(***************************************************************************)
(* Interrupts of the processor as the HAL manages them: the table of       *)
(* handlers, the mask register and its copy in memory, the dispatcher, and *)
(* the functions that change them, called by the program and by handlers.  *)
(* A step of the program is one access to shared state; the program does   *)
(* not run while an exception is served.                                   *)
(***************************************************************************)
EXTENDS Integers, FiniteSets, FiniteSetsExt

CONSTANTS
  Irqs,        \* interrupt numbers; the lowest has the highest priority
  Handlers, Null,
  MaxRaises,   \* bound: how often devices raise their lines
  Withdraws,   \* devices that also lower them on their own
  InitAgain    \* whether the program calls alt_irq_init() a second time

ASSUME IrqAssumption ==
  /\ Irqs \subseteq Nat /\ IsFiniteSet(Irqs) /\ Irqs # {} /\ Withdraws \subseteq Irqs
  /\ Null \notin Handlers /\ MaxRaises \in Nat /\ InitAgain \in BOOLEAN

VARIABLES
  PIE, IENABLE, lines,        \* the processor, and what the devices ask for
  handler, context,           \* alt_irq[]; a context is named after its handler
  alt_irq_active,
  call,                       \* the program's call and its locals
  section, saved,             \* the program has disabled all interrupts
  inits,
  exc, pending, served,       \* the exception, the word of pending interrupts,
                              \* the number being served
  registered,                 \* the numbers enabled, by the calls' order
  raises

table == <<handler, context>>
masks == <<IENABLE, alt_irq_active, registered>>
program == <<section, saved, inits>>
exception == <<exc, pending, served>>
devices == <<lines, raises>>
irqVars == <<PIE, masks, table, call, program, exception, devices>>

Lowest == Min(Irqs)
NoCall == [pc |-> "idle", register |-> FALSE, id |-> Lowest, isr |-> Null,
           on |-> FALSE, outer |-> FALSE, inner |-> FALSE, active |-> {}]

IrqInit ==
  /\ PIE = FALSE /\ IENABLE = {} /\ alt_irq_active = {} /\ lines = {}
  /\ handler = [i \in Irqs |-> Null] /\ context = handler
  /\ call = [NoCall EXCEPT !.pc = "init"]
  /\ section = FALSE /\ saved = FALSE /\ inits = 1
  /\ exc = "none" /\ pending = {} /\ served = Lowest
  /\ registered = {} /\ raises = 0

IPENDING == lines \cap IENABLE
Update(set, i, in) == IF in THEN set \cup {i} ELSE set \ {i}
-----------------------------------------------------------------------------
(* The program.                                                            *)
CallAt(at) == exc = "none" /\ call.pc = at
CallTo(next) == call' = [call EXCEPT !.pc = next]

(* alt_irq_init: IENABLE is cleared, then interrupts are enabled.          *)
ClearMask ==
  /\ CallAt("init") /\ CallTo("enableCpu") /\ IENABLE' = {}
  /\ UNCHANGED <<PIE, alt_irq_active, registered, table, program, exception,
                 devices>>

EnableCpu ==
  /\ CallAt("enableCpu") /\ call' = NoCall /\ PIE' = TRUE
  /\ UNCHANGED <<masks, table, program, exception, devices>>

CallInit ==
  /\ InitAgain /\ inits = 1 /\ ~section
  /\ CallAt("idle") /\ CallTo("init") /\ inits' = 2
  /\ UNCHANGED <<PIE, masks, table, section, saved, exception, devices>>

(* alt_irq_disable_all() and alt_irq_enable_all() around code of the       *)
(* program, for example in the drivers.                                    *)
EnterSection ==
  /\ CallAt("idle") /\ ~section
  /\ section' = TRUE /\ saved' = PIE /\ PIE' = FALSE
  /\ UNCHANGED <<masks, table, call, inits, exception, devices>>

LeaveSection ==
  /\ CallAt("idle") /\ section
  /\ section' = FALSE /\ PIE' = saved /\ saved' = FALSE
  /\ UNCHANGED <<masks, table, call, inits, exception, devices>>

(* alt_ic_isr_register(); or alt_ic_irq_enable() and alt_ic_irq_disable(), *)
(* of which the first needs a handler.                                     *)
Call ==
  /\ CallAt("idle")
  /\ \E i \in Irqs :
       \/ \E h \in Handlers \cup {Null} :
            call' = [NoCall EXCEPT !.pc = "outer", !.register = TRUE, !.id = i,
                                   !.isr = h, !.on = (h # Null)]
       \/ \E on \in BOOLEAN :
            /\ on => handler[i] # Null
            /\ call' = [NoCall EXCEPT !.pc = "inner", !.id = i, !.on = on]
  /\ UNCHANGED <<PIE, masks, table, program, exception, devices>>

RegisterDisableAll ==
  /\ CallAt("outer")
  /\ call' = [call EXCEPT !.pc = "handler", !.outer = PIE]
  /\ PIE' = FALSE
  /\ UNCHANGED <<masks, table, program, exception, devices>>

StoreHandler ==
  /\ CallAt("handler") /\ CallTo("context")
  /\ handler' = [handler EXCEPT ![call.id] = call.isr]
  /\ UNCHANGED <<PIE, masks, context, program, exception, devices>>

StoreContext ==
  /\ CallAt("context") /\ CallTo("inner")
  /\ context' = [context EXCEPT ![call.id] = call.isr]
  /\ UNCHANGED <<PIE, masks, handler, program, exception, devices>>

(* alt_irq_enable, alt_irq_disable.                                        *)
MaskDisableAll ==
  /\ CallAt("inner") /\ call' = [call EXCEPT !.pc = "load", !.inner = PIE]
  /\ PIE' = FALSE
  /\ UNCHANGED <<masks, table, program, exception, devices>>

LoadActive ==
  /\ CallAt("load")
  /\ call' = [call EXCEPT !.pc = "store", !.active = alt_irq_active]
  /\ UNCHANGED <<PIE, masks, table, program, exception, devices>>

StoreActive ==
  /\ CallAt("store") /\ CallTo("mask")
  /\ alt_irq_active' = Update(call.active, call.id, call.on)
  /\ registered' = Update(registered, call.id, call.on)
  /\ UNCHANGED <<PIE, IENABLE, table, program, exception, devices>>

(* Mutant: the copy is loaded before it is changed.                        *)
WriteLoaded ==
  /\ CallAt("mask") /\ CallTo("innerEnd") /\ IENABLE' = call.active
  /\ UNCHANGED <<PIE, alt_irq_active, registered, table, program, exception,
                 devices>>

WriteMask ==
  /\ CallAt("mask") /\ CallTo("innerEnd") /\ IENABLE' = alt_irq_active
  /\ UNCHANGED <<PIE, alt_irq_active, registered, table, program, exception,
                 devices>>

(* alt_irq_enable_all() with the status that was read.                     *)
MaskEnableAll ==
  /\ CallAt("innerEnd") /\ PIE' = call.inner
  /\ call' = IF call.register THEN [call EXCEPT !.pc = "outerEnd"] ELSE NoCall
  /\ UNCHANGED <<masks, table, program, exception, devices>>

(* Mutant: the status is not restored.                                     *)
RegisterEnableNone ==
  /\ CallAt("outerEnd") /\ call' = NoCall
  /\ UNCHANGED <<PIE, masks, table, program, exception, devices>>

RegisterEnableAll ==
  /\ CallAt("outerEnd") /\ PIE' = call.outer /\ call' = NoCall
  /\ UNCHANGED <<masks, table, program, exception, devices>>
-----------------------------------------------------------------------------
(* Exceptions.                                                             *)
Interrupt ==
  /\ exc = "none" /\ PIE /\ IPENDING # {}
  /\ exc' = "test" /\ PIE' = FALSE
  /\ UNCHANGED <<masks, table, call, program, pending, served, devices>>

(* Nothing pending any more: an unknown exception, which ends in a break   *)
(* or an endless loop.                                                     *)
TestIrq ==
  /\ exc = "test" /\ exc' = IF IPENDING = {} THEN "unknown" ELSE "pending"
  /\ UNCHANGED <<PIE, masks, table, call, program, pending, served, devices>>

FirstPending ==
  /\ exc = "pending" /\ exc' = "search" /\ pending' = IPENDING
  /\ UNCHANGED <<PIE, masks, table, call, program, served, devices>>

(* Bits are tested from the lowest on; without a bit set this never ends.  *)
Search ==
  /\ exc = "search" /\ pending # {}
  /\ served' = Min(pending) /\ exc' = "call"
  /\ UNCHANGED <<PIE, masks, table, call, program, pending, devices>>

(* The handler has returned: what is pending now?  The exception returns   *)
(* with the status register it came with.                                  *)
Serve ==
  /\ exc = "serve"
  /\ pending' = IPENDING
  /\ IF pending' = {} THEN exc' = "none" /\ PIE' = TRUE
     ELSE exc' = "search" /\ UNCHANGED PIE
  /\ served' = Lowest
  /\ UNCHANGED <<masks, table, call, program, devices>>

(* The handler makes its device lower the line, and may register another   *)
(* one, enable or disable, which nothing interrupts.  Taking a handler out *)
(* of the table is left to the program, which might just be enabling it.   *)
Handle ==
  /\ exc = "call" /\ handler[served] # Null
  /\ exc' = "serve"
  /\ lines' = lines \ {served}
  /\ \/ UNCHANGED <<masks, table>>
     \/ \E i \in Irqs, h \in Handlers :
          /\ handler' = [handler EXCEPT ![i] = h]
          /\ context' = [context EXCEPT ![i] = h]
          /\ alt_irq_active' = alt_irq_active \cup {i}
          /\ IENABLE' = alt_irq_active'
          /\ registered' = registered \cup {i}
     \/ \E i \in Irqs, on \in BOOLEAN :
          /\ on => handler[i] # Null
          /\ alt_irq_active' = Update(alt_irq_active, i, on)
          /\ IENABLE' = alt_irq_active'
          /\ registered' = Update(registered, i, on)
          /\ UNCHANGED table
  /\ UNCHANGED <<PIE, call, program, pending, served, raises>>
-----------------------------------------------------------------------------
Raise ==
  /\ raises < MaxRaises
  /\ \E i \in Irqs \ lines : lines' = lines \cup {i}
  /\ raises' = raises + 1
  /\ UNCHANGED <<PIE, masks, table, call, program, exception>>

Withdraw ==
  /\ \E i \in Withdraws \cap lines : lines' = lines \ {i}
  /\ UNCHANGED <<PIE, masks, table, call, program, exception, raises>>

CallStep ==
  \/ ClearMask \/ EnableCpu \/ RegisterDisableAll \/ StoreHandler \/ StoreContext
  \/ MaskDisableAll \/ LoadActive \/ StoreActive \/ WriteMask \/ MaskEnableAll
  \/ RegisterEnableAll

Dispatch == TestIrq \/ FirstPending \/ Search \/ Serve \/ Handle

IrqNext == CallInit \/ EnterSection \/ LeaveSection \/ Call \/ CallStep \/ Interrupt \/ Dispatch
             \/ Raise \/ Withdraw

(* Calls and sections end, handlers return, and an interrupt that can be   *)
(* taken again and again is taken.                                         *)
IrqSpec ==
  /\ IrqInit /\ [][IrqNext]_irqVars
  /\ WF_irqVars(CallStep) /\ SF_irqVars(LeaveSection)
  /\ WF_irqVars(Dispatch) /\ SF_irqVars(Interrupt)
-----------------------------------------------------------------------------
IrqTypeOK ==
  /\ {PIE, section, saved} \subseteq BOOLEAN
  /\ {IENABLE, lines, alt_irq_active, registered, pending} \subseteq SUBSET Irqs
  /\ handler \in [Irqs -> Handlers \cup {Null}]
  /\ context \in [Irqs -> Handlers \cup {Null}]
  /\ call.id \in Irqs /\ served \in Irqs /\ call.active \subseteq Irqs
  /\ exc \in {"none", "test", "unknown", "pending", "search", "call", "serve"}

(* The handler that is called exists and gets its own context, whoever     *)
(* registers handlers, and when.                                           *)
OwnContext == exc = "call" => handler[served] # Null /\ context[served] = handler[served]

(* An interrupt that is served is enabled: not one of those that a handler *)
(* before it, or the program, has turned off.                              *)
ServedEnabled == exc = "call" => served \in registered

(* No exception in a section, whatever the program calls in it.            *)
SectionQuiet == section => exc = "none" /\ ~PIE

(* The copy of the mask is what the calls, taken in their order, have      *)
(* made of it, and between calls the mask register is its copy.            *)
MaskRight ==
  /\ alt_irq_active = registered
  /\ call.pc \notin {"init", "enableCpu", "mask"} /\ inits = 1 => IENABLE = alt_irq_active

(* The handler that is called exists and gets its own context; it is one   *)
(* of those that the calls, in their order, have left enabled.  The mask   *)
(* of interrupts and its copy agree, and a section with interrupts off has *)
(* none, whatever is called in it, and by whom.                            *)
MaskAndHandlers ==
  IrqTypeOK /\ OwnContext /\ ServedEnabled /\ MaskRight /\ SectionQuiet

(* An interrupt that is pending is served, if the program does not turn it *)
(* off, and devices do not keep the dispatcher busy.                       *)
InterruptsServed ==
  \A i \in Irqs : i \in lines ~> i \notin lines \/ i \notin IENABLE

DispatchEnds == exc # "none" ~> exc = "none"

(* The dispatcher looks for a bit in a word that has one.                  *)
SearchFinds == exc = "search" => pending # {}

(* alt_irq_init() is for a program that wants interrupts; so main() says.  *)
InitAllows ==
  [][call.pc = "enableCpu" /\ call'.pc = "idle" => IENABLE = alt_irq_active]_irqVars
=============================================================================
