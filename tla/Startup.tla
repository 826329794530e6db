------------------------------- MODULE Startup ------------------------------
(***************************************************************************)
(* The life of a program, from alt_main() to the loop in which _exit()     *)
(* leaves it, with the interrupts and the output of its streams: what it   *)
(* prints waits in the library until a line ends or the program exits, is  *)
(* written to the driver, and goes from there to the host, which listens.  *)
(* Only the numbers of characters count.                                   *)
(***************************************************************************)
EXTENDS Integers, FiniteSets, Sequences

CONSTANTS
  Builds,                 \* how the system is built: [small, constructors]
  BufferSize,             \* of the driver's buffer, or of the UART
  MaxPrint                \* bound: how much the program prints

ASSUME StartupAssumption ==
  /\ Builds \subseteq [small : BOOLEAN, constructors : Nat]
  /\ MaxPrint \in Nat /\ BufferSize \in Nat \ {0}

VARIABLES
  build,
  pc, next,               \* next: the constructor or destructor
  allowed, ienable, handlers, asking, \* interrupts: the processor's and the devices'
  stray,                  \* an interrupt without a handler has been taken
  stdout,                 \* what its descriptor is opened to; "none" when released
  onExit,                 \* functions that exit() calls, the last first
  constructed, destructed,
  stdio, writing, buffer, \* characters: in the library, in write(), in the driver
  printed, shown,         \* by the program, by the host
  ended                   \* "no", "exit" or "abruptly"

requests == <<allowed, ienable, handlers, asking, stray>>
objects == <<onExit, constructed, destructed>>
output == <<stdio, writing, buffer, printed, shown>>
startVars == <<build, pc, next, requests, stdout, objects, output, ended>>

Devices == {"timer", "jtag"}

(* The UART is polled, else its interrupt empties a buffer; no object is   *)
(* constructed with ALT_NO_C_PLUS_PLUS.                                    *)
SmallDriver == build.small
Constructors == build.constructors

(* Entered from reset, or by a bootloader or a debugger with interrupts    *)
(* off: the mask and the devices are as the program before left them.      *)
StartInit ==
  /\ build \in Builds
  /\ pc = "alt_irq_init" /\ next = 0
  /\ allowed = FALSE /\ ienable \in SUBSET Devices /\ asking \in SUBSET Devices
  /\ handlers = {} /\ stray = FALSE
  /\ stdout = "/dev/null"
  /\ onExit = << >> /\ constructed = << >> /\ destructed = << >>
  /\ stdio = 0 /\ writing = 0 /\ buffer = 0 /\ printed = 0 /\ shown = 0
  /\ ended = "no"

Here(label) == pc = label /\ writing = 0
GoOn(label) == pc' = label

(* Mutant: the mask stays as it is.                                        *)
altera_nios2_qsys_irq_init_keep ==
  /\ Here("alt_irq_init") /\ GoOn("enable")
  /\ UNCHANGED <<next, requests, stdout, objects, output, ended>>

altera_nios2_qsys_irq_init ==
  /\ Here("alt_irq_init") /\ GoOn("enable")
  /\ ienable' = {}
  /\ UNCHANGED <<next, allowed, handlers, asking, stray, stdout, objects, output,
                 ended>>

EnableInterrupts ==
  /\ Here("enable") /\ GoOn("timer")
  /\ allowed' = TRUE
  /\ UNCHANGED <<next, ienable, handlers, asking, stray, stdout, objects,
                 output, ended>>

Register(ds) ==
  /\ handlers' = handlers \cup ds /\ ienable' = ienable \cup ds
  /\ UNCHANGED <<allowed, asking, stray>>

InitTimer ==
  /\ Here("timer") /\ GoOn("jtag") /\ Register({"timer"})
  /\ UNCHANGED <<next, stdout, objects, output, ended>>

InitJtagUart ==
  /\ Here("jtag") /\ GoOn("redirect")
  /\ Register(IF SmallDriver THEN {} ELSE {"jtag"})
  /\ UNCHANGED <<next, stdout, objects, output, ended>>

RedirectIO ==
  /\ Here("redirect") /\ stdout' = "/dev/jtag_uart"
  /\ IF Constructors > 0 THEN GoOn("ctors") /\ next' = Constructors
                         ELSE GoOn("main") /\ UNCHANGED next
  /\ UNCHANGED <<requests, objects, output, ended>>

(* From the end of the list to its beginning, then atexit(_do_dtors).      *)
DoCtors ==
  /\ Here("ctors")
  /\ IF next > 0
     THEN /\ constructed' = Append(constructed, next) /\ next' = next - 1
          /\ UNCHANGED <<pc, onExit>>
     ELSE /\ onExit' = <<"_do_dtors">> \o onExit /\ GoOn("main")
          /\ UNCHANGED <<next, constructed>>
  /\ UNCHANGED <<requests, stdout, destructed, output, ended>>
-----------------------------------------------------------------------------
(* The program, its constructors and the functions it leaves to exit().    *)
Puts(newline) ==
  /\ pc \in {"ctors", "main", "function", "dtors"} /\ writing = 0 /\ printed < MaxPrint
  /\ printed' = printed + 1
  /\ IF newline THEN stdio' = 0 /\ writing' = stdio + 1
                ELSE stdio' = stdio + 1 /\ UNCHANGED writing
  /\ UNCHANGED <<pc, next, requests, stdout, objects, buffer, shown, ended>>

(* write(), a character at a time: it waits for room.                      *)
Write ==
  /\ writing > 0
  /\ IF stdout = "/dev/jtag_uart"
     THEN buffer < BufferSize /\ buffer' = buffer + 1 /\ writing' = writing - 1
     ELSE writing' = 0 /\ UNCHANGED buffer
  /\ UNCHANGED <<pc, next, requests, stdout, objects, stdio, printed, shown,
                 ended>>

CallAtexit ==
  /\ Here("main") /\ \A i \in DOMAIN onExit : onExit[i] # "function"
  /\ onExit' = <<"function">> \o onExit
  /\ UNCHANGED <<pc, next, requests, stdout, constructed, destructed, output,
                 ended>>

MainReturns ==
  /\ Here("main") /\ GoOn("close")
  /\ UNCHANGED <<next, requests, stdout, objects, output, ended>>

(* The driver's close() waits until its buffer is empty; the small driver  *)
(* has none.  alt_release_fd() leaves the standard streams as they are.    *)
CloseStdout ==
  /\ Here("close") /\ (~SmallDriver => buffer = 0)
  /\ GoOn("exit")
  /\ UNCHANGED <<next, requests, stdout, objects, output, ended>>

CallExit ==
  /\ Here("main") /\ GoOn("exit")
  /\ UNCHANGED <<next, requests, stdout, objects, output, ended>>

Exit ==
  /\ pc \in {"exit", "function"} /\ writing = 0
  /\ IF onExit = << >> THEN GoOn("flush") /\ UNCHANGED <<next, onExit>>
     ELSE /\ onExit' = Tail(onExit)
          /\ IF Head(onExit) = "function" THEN GoOn("function") /\ UNCHANGED next
                                          ELSE GoOn("dtors") /\ next' = Constructors
  /\ UNCHANGED <<requests, stdout, constructed, destructed, output, ended>>

DoDtors ==
  /\ Here("dtors")
  /\ IF next > 0
     THEN /\ destructed' = Append(destructed, next) /\ next' = next - 1
          /\ UNCHANGED pc
     ELSE GoOn("exit") /\ UNCHANGED <<next, destructed>>
  /\ UNCHANGED <<requests, stdout, onExit, constructed, output, ended>>

FlushStreams ==
  /\ Here("flush") /\ GoOn("_exit")
  /\ stdio' = 0 /\ writing' = stdio /\ ended' = "exit"
  /\ UNCHANGED <<next, requests, stdout, objects, buffer, printed, shown>>

(* A signal ends the program if it is meant for it and does by default.    *)
Ends == {"SIGABRT", "SIGTERM"}
Ignored == {"null", "SIGCHLD", "SIGURG"}

kill(pid, sig) ==
  /\ Here("main") /\ pid <= 0 /\ sig \in Ends
  /\ GoOn("_exit") /\ ended' = "abruptly"
  /\ UNCHANGED <<next, requests, stdout, objects, output>>

ALT_EXIT ==
  /\ Here("_exit") /\ GoOn("spin")
  /\ UNCHANGED <<next, requests, stdout, objects, output, ended>>
-----------------------------------------------------------------------------
Request(d) ==
  /\ asking' = asking \cup {d} /\ asking' # asking
  /\ UNCHANGED <<pc, next, allowed, ienable, handlers, stray, stdout, objects,
                 output, ended>>

TakeRequest(d) ==
  /\ allowed /\ d \in ienable \cap asking
  /\ stray' = (stray \/ d \notin handlers)
  /\ asking' = asking \ {d}
  /\ UNCHANGED <<pc, next, allowed, ienable, handlers, stdout, objects, output,
                 ended>>

(* A character leaves for the host: out of the UART, or out of the buffer, *)
(* where the interrupt of the UART fetches it.                             *)
Transmit ==
  /\ buffer > 0 /\ (SmallDriver \/ (allowed /\ "jtag" \in ienable \cap handlers))
  /\ buffer' = buffer - 1 /\ shown' = shown + 1
  /\ UNCHANGED <<pc, next, requests, stdout, objects, stdio, writing, printed,
                 ended>>

Boots ==
  altera_nios2_qsys_irq_init \/ EnableInterrupts \/ InitTimer \/ InitJtagUart
    \/ RedirectIO \/ DoCtors
Stops == CloseStdout \/ Exit \/ DoDtors \/ FlushStreams \/ ALT_EXIT
Main ==
  \/ CallAtexit \/ MainReturns \/ CallExit \/ \E newline \in BOOLEAN : Puts(newline)
  \/ \E pid \in {0, 1}, sig \in Ends \cup Ignored : kill(pid, sig)

StartNext ==
  /\ UNCHANGED build
  /\ \/ Boots \/ Main \/ Write \/ Stops \/ Transmit
     \/ \E d \in Devices : Request(d) \/ TakeRequest(d)

(* Whatever is not main() goes on, and interrupts are taken.               *)
StartSpec ==
  /\ StartInit /\ [][StartNext]_startVars
  /\ WF_startVars(Boots /\ UNCHANGED build) /\ WF_startVars(Write /\ UNCHANGED build)
  /\ WF_startVars(Stops /\ UNCHANGED build) /\ WF_startVars(Transmit /\ UNCHANGED build)
  /\ \A d \in Devices : WF_startVars(TakeRequest(d) /\ UNCHANGED build)
-----------------------------------------------------------------------------
(* No interrupt finds the table without a handler, whatever the program    *)
(* before has left in the mask and in the devices.                         *)
NoStrayInterrupt == ~stray

(* alt_exit.c: interrupts are not disabled so that execution outside of    *)
(* this thread is allowed to continue: what a device that the program has  *)
(* initialised asks for is served, also behind _exit().                    *)
RequestsServed ==
  \A d \in Devices : d \in asking /\ d \in ienable /\ pc = "spin" ~> d \notin asking

(* All that a program and its constructors have printed reaches the host   *)
(* once it has ended with exit(), also a line that was not finished when   *)
(* stdout was closed, and never more than that.                            *)
OutputArrives == ended = "exit" ~> shown = printed

Loop == [i \in 1 .. Constructors |-> Constructors + 1 - i]

(* main() finds every object constructed, once; destructors run for all of *)
(* them when the program ends with exit(), and for none when it is killed. *)
LifeOfObjects ==
  /\ pc = "main" => constructed = Loop
  /\ ended = "exit" => destructed = Loop
  /\ ended = "abruptly" => destructed = << >>

(* Interrupts of the program before do no harm; objects live from before   *)
(* main() until exit().                                                    *)
StartupRight == NoStrayInterrupt /\ LifeOfObjects
=============================================================================
