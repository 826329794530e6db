------------------------------ MODULE MCKernel ------------------------------
(***************************************************************************)
(* Instances, for TLC, of what the HAL has around the program: the heap    *)
(* (Heap), interrupts (Interrupts), the life of a program from alt_main()  *)
(* to _exit(), the cache functions and the profiler.  They share nothing:  *)
(* part says which of them a behaviour is of, the others stay as they      *)
(* begin.  A second instance of a module is the same code with other       *)
(* options.                                                                *)
(***************************************************************************)
EXTENDS Heap, Interrupts, Startup, Caches, Gmon

VARIABLES part

(* Its driver of the UART with objects to construct, and as it is built.   *)
StartBuilds == {[small |-> FALSE, constructors |-> 2], [small |-> TRUE, constructors |-> 0]}

(* Handlers that are instrumented call a function of the program, or none. *)
SomeArcs == {<<"f", "main">>, <<"f", "g">>}
HandlersArcs == {{<<"f", "main">>}, {<<"h", "isr">>}}
StartArc == <<"start", "init">>

(* Devices that lower their lines again, alt_irq_init() called once more.  *)
Again == INSTANCE Interrupts WITH
  MaxRaises <- 1, Withdraws <- {0}, InitAgain <- TRUE

(* Exceptions with a stack of their own.                                   *)
OwnStack == INSTANCE Heap WITH ExceptionStack <- TRUE

ASSUME KernelAssumption ==
  Again!IrqAssumption /\ OwnStack!HeapAssumption

all == <<part, irqVars, startVars, cachesVars, gmonVars, heapVars>>

KernelInit ==
  /\ part \in {"interrupts", "again", "start", "caches", "profiler",
               "heap", "ownStack"}
  /\ IrqInit
  /\ StartInit /\ (part # "start" => ienable = {} /\ asking = {} /\ build.small)
  /\ CachesInit
  /\ GmonInit /\ (part # "profiler" => handler_arcs = {<<"h", "isr">>})
  /\ HeapInit

(* The others stay as they are.                                            *)
Only(ps) ==
  /\ part \in ps /\ part' = part
  /\ IF "interrupts" \in ps THEN TRUE ELSE UNCHANGED irqVars
  /\ IF "start" \in ps THEN TRUE ELSE UNCHANGED startVars
  /\ IF "caches" \in ps THEN TRUE ELSE UNCHANGED cachesVars
  /\ IF "profiler" \in ps THEN TRUE ELSE UNCHANGED gmonVars
  /\ IF "heap" \in ps THEN TRUE ELSE UNCHANGED heapVars

KernelNext ==
  \/ /\ Only({"interrupts", "again"})
     /\ IF part = "again" THEN Again!IrqNext ELSE IrqNext
  \/ Only({"start"}) /\ StartNext
  \/ Only({"caches"}) /\ CachesNext
  \/ Only({"profiler"}) /\ GmonNext
  \/ /\ Only({"heap", "ownStack"})
     /\ IF part = "ownStack" THEN OwnStack!HeapNext ELSE HeapNext

(* The fairness of the modules, each for the parts it is about.            *)
KernelSpec ==
  /\ KernelInit /\ [][KernelNext]_all
  /\ WF_irqVars(part = "interrupts" /\ CallStep)
  /\ SF_irqVars(part = "interrupts" /\ LeaveSection)
  /\ WF_irqVars(part = "interrupts" /\ Dispatch)
  /\ SF_irqVars(part = "interrupts" /\ Interrupt)
  /\ WF_startVars(part = "start" /\ Boots /\ UNCHANGED build)
  /\ WF_startVars(part = "start" /\ Write /\ UNCHANGED build)
  /\ WF_startVars(part = "start" /\ Stops /\ UNCHANGED build)
  /\ WF_startVars(part = "start" /\ Transmit /\ UNCHANGED build)
  /\ \A d \in Devices : WF_startVars(part = "start" /\ TakeRequest(d) /\ UNCHANGED build)
-----------------------------------------------------------------------------
(* Properties                                                              *)

(* Interrupts are served, also after the program; the dispatcher ends; a   *)
(* program without a break comes to its end and all it prints is shown.    *)
ServedAndEnded ==
  /\ part = "interrupts" => InterruptsServed /\ DispatchEnds
  /\ part = "start" => RequestsServed /\ OutputArrives
=============================================================================
