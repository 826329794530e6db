------------------------------ MODULE NotchHost -----------------------------
(***************************************************************************)
(* The notch engine together with the program that uses it: main() and the *)
(* interrupt service routine of software/software/hello_world.c.  Between  *)
(* two uses of its ports the CPU computes for any number of cycles.  It    *)
(* takes an interrupt only between instructions, and not inside the        *)
(* service routine.  The determinant, which main() waits for in the same   *)
(* loop, is a free choice here.                                            *)
(***************************************************************************)
EXTENDS Notch

CONSTANT DiagnosticLoads   \* registers notch_diagnostic() reads: 0 .. 12

ASSUME HostAssumption == DiagnosticLoads \in 0 .. 13

VARIABLES
  pc,                      \* where main() is
  isr,                     \* "none", or where _notch_isr() is
  notch_done, notch_result, status_notch, previous_notch,
  i                        \* the next register of notch_diagnostic()

hostVars == <<pc, isr, notch_done, notch_result, status_notch,
              previous_notch, i>>

HostInit ==
  /\ Init
  /\ pc = "ready" /\ isr = "none"
  /\ notch_done = FALSE /\ notch_result = 0
  /\ status_notch = 0 /\ previous_notch = 0 /\ i = 0
-----------------------------------------------------------------------------
(* _notch_isr: the flag is set first, then the load acknowledges.          *)
EnterIsr ==
  /\ isr = "none" /\ irq /\ cpu = "free" /\ cpu' = "free"
  /\ isr' = "entered" /\ notch_done' = TRUE
  /\ UNCHANGED <<pc, notch_result, status_notch, previous_notch, i>>

IsrLoad ==
  /\ isr = "entered" /\ cpu = "free" /\ cpu' = "read" /\ slave_address' = 0
  /\ isr' = "loading"
  /\ UNCHANGED <<pc, notch_done, notch_result, status_notch, previous_notch,
                 i>>

LeaveIsr ==
  /\ isr = "loading" /\ cpu = "resp"
  /\ notch_result' = slave_readdata /\ isr' = "none"
  /\ UNCHANGED <<pc, notch_done, status_notch, previous_notch, i>>
-----------------------------------------------------------------------------
(* main: a step that computes, and the two halves of one that uses a port. *)
Computing == isr = "none" /\ cpu = "free" /\ cpu' = "free"

(* hw_notch(0) asks for the status, hw_notch(NOTCH_DATA_START) starts a    *)
(* run.                                                                    *)
CallNotch(dataa) ==
  /\ isr = "none" /\ cpu = "free" /\ cpu' = "ci"
  /\ \/ pc \in {"ready", "status"} /\ dataa = 0
     \/ pc = "invoke" /\ dataa # 0
  /\ UNCHANGED hostVars

NotchAnswers ==
  /\ cpu = "ci" /\ cpu' = "free"
  /\ status_notch' = reply[1]
  /\ pc' = CASE pc = "ready" -> "invoke"
             [] pc = "invoke" -> "while"
             [] pc = "status" -> "compare"
  /\ previous_notch' = IF pc = "status" THEN previous_notch ELSE reply[1]
  /\ UNCHANGED <<isr, notch_done, notch_result, i>>

(* Mutant: the loop waits for the determinant only.                        *)
WhileNotDet ==
  /\ Computing /\ pc = "while"
  /\ pc' \in {"status", "outputs"}
  /\ UNCHANGED <<isr, notch_done, notch_result, status_notch, previous_notch,
                 i>>

(* while (!done || !_notch_done)                                           *)
While ==
  /\ Computing /\ pc = "while"
  /\ \/ pc' = "status"
     \/ notch_done /\ pc' = "outputs"
  /\ UNCHANGED <<isr, notch_done, notch_result, status_notch, previous_notch,
                 i>>

(* A status that has not changed prints the diagnostics instead.           *)
Compare ==
  /\ Computing /\ pc = "compare"
  /\ previous_notch' = status_notch
  /\ pc' = IF status_notch = previous_notch /\ ~notch_done
              /\ DiagnosticLoads > 0
           THEN "diagnostic" ELSE "while"
  /\ UNCHANGED <<isr, notch_done, notch_result, status_notch, i>>

(* notch_diagnostic: _notch_status_read(i++) for each register.            *)
ReadStatus ==
  /\ isr = "none" /\ pc = "diagnostic"
  /\ cpu = "free" /\ cpu' = "read" /\ slave_address' = i
  /\ UNCHANGED hostVars

StatusRead ==
  /\ isr = "none" /\ pc = "diagnostic" /\ cpu = "resp"
  /\ IF i + 1 < DiagnosticLoads THEN i' = i + 1 /\ UNCHANGED pc
     ELSE i' = 0 /\ pc' = "while"
  /\ UNCHANGED <<isr, notch_done, notch_result, status_notch, previous_notch>>

(* The CPU computes something else, or waits for a load.                   *)
Elsewhere ==
  /\ \/ cpu = "free" /\ cpu' = "free"
     \/ cpu = "read"
  /\ UNCHANGED hostVars

Program(dataa) ==
  \/ EnterIsr \/ IsrLoad \/ LeaveIsr
  \/ CallNotch(dataa) \/ NotchAnswers \/ While \/ Compare
  \/ ReadStatus \/ StatusRead
  \/ Elsewhere
-----------------------------------------------------------------------------
HostCycle(start, dataa, read, sdwaitrequest, sdreaddatavalid) ==
  /\ Clock(start, dataa, read, sdwaitrequest, sdreaddatavalid)
  /\ Program(dataa)

HostNext ==
  \E start, read, sdwaitrequest, sdreaddatavalid \in BOOLEAN :
    \E dataa \in IF start THEN Bases \cup {0} ELSE {0} :
      HostCycle(start, dataa, read, sdwaitrequest, sdreaddatavalid)

hostSystem == <<vars, hostVars>>
HostSpec == HostInit /\ [][HostNext]_hostSystem

(* As in Notch the clock does not stop and the SDRAM serves every request. *)
(* main() gets on with its program, and an interrupt that the CPU could    *)
(* take again and again is taken at last.                                  *)
HostGrant ==
  /\ sdread \/ sdwrite
  /\ \E start, read, sdreaddatavalid \in BOOLEAN :
       \E dataa \in IF start THEN Bases \cup {0} ELSE {0} :
         HostCycle(start, dataa, read, FALSE, sdreaddatavalid)
HostAnswer ==
  \E start, read, sdwaitrequest \in BOOLEAN :
    \E dataa \in IF start THEN Bases \cup {0} ELSE {0} :
      HostCycle(start, dataa, read, sdwaitrequest, TRUE)
Progress == UNCHANGED hostVars => cpu' # cpu
HostFairness ==
  /\ WF_hostSystem(HostNext) /\ WF_hostSystem(HostGrant)
  /\ WF_hostSystem(HostAnswer)
  /\ WF_hostSystem(HostNext /\ Progress)
  /\ SF_hostSystem(HostNext /\ EnterIsr)
HostFairSpec == HostSpec /\ HostFairness
-----------------------------------------------------------------------------
(* Properties                                                              *)

(* The service routine, which always gets to its load before anything else *)
(* can read the engine, is told the whole buffer: the registers it reads   *)
(* are reset in the very cycle its load takes.  And main() reads the       *)
(* results only when the engine has let go of them: no access of the       *)
(* engine is on the bus or can still come.                                 *)
RunHandedOver ==
  /\ notch_done /\ isr = "none"
       => notch_result = SDRAM_WORD_SKIP * NO_SAMPLES
  /\ pc = "outputs" /\ isr = "none"
       => stage = 0 /\ Pipeline = <<>> /\ ~sdread /\ ~sdwrite

(* The engine is asked only when it listens: the first status is READY,    *)
(* the invocation is accepted, and the program never starts a second run.  *)
(* The interrupt is level-triggered: it is gone when the service routine   *)
(* returns, so the CPU does not enter it again.                            *)
HandshakeKept ==
  [][/\ pc = "invoke" /\ pc' = "while" => status_notch' = ACCEPTED
     /\ pc = "ready" /\ pc' = "invoke" => status_notch' = READY
     /\ stage = 0 /\ stage' = 1 => pc = "invoke"
     /\ isr = "loading" /\ isr' = "none" => ~irq']_hostSystem

(* main() leaves its loop only if _notch_done is set in the end: the       *)
(* service routine runs, so the loop has something to see.                 *)
NotchDone == <>notch_done

(* Nothing takes the interrupt away from the service routine but a load of *)
(* notch_diagnostic(): unless the interrupt is up while that reads the     *)
(* registers, _notch_done is set in the end.                               *)
UpWhileDiagnosing == irq /\ pc = "diagnostic"
DoneUnlessDisturbed == <>(notch_done \/ UpWhileDiagnosing)
=============================================================================
