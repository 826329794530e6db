------------------------------- MODULE DetHost ------------------------------
(***************************************************************************)
(* The hardware determinant as the program sees it: fp_det(),              *)
(* fp_det_interrupt() and _fp_det_isr() of software/software/hello_world.c *)
(* on top of the engine that DetService promises.  The service routine     *)
(* interrupts the program between any two steps, and the function it calls *)
(* back may ask for the next determinant itself.  A call has a number,     *)
(* which also names its matrix and its determinant.                        *)
(***************************************************************************)
EXTENDS DetService, Sequences

CONSTANTS Styles,           \* which versions a program uses: sets of kinds
          Dimensions,       \* dimensions it asks for
          Chains,           \* those in which a called function asks for another one
          MaxCalls          \* calls it makes, at most

Kinds == {"blocking", "interrupt"}
Contexts == {"main", "isr"}

ASSUME DetHostAssumption ==
  /\ Styles \subseteq SUBSET Kinds
  /\ Dimensions \subseteq Nat
  /\ Chains \subseteq Styles /\ MaxCalls \in Nat

NULL == 0

VARIABLES
  style,
  calls,                    \* the calls so far: version and dimension
  pc, current,              \* of the program and of the service routine:
                            \* the step, and the call it belongs to
  fp_det_done, fp_det_result,
  fp_det_func,              \* the call that registered the function, or NULL
  job,                      \* the call whose matrix the engine works on
  returned, called          \* what fp_det has returned, what the functions
                            \* have been called with

detHostVars == <<serviceVars, style, calls, pc, current, fp_det_done,
                 fp_det_result, fp_det_func, job, returned, called>>

DetHostInit ==
  /\ ServiceInit
  /\ style \in Styles /\ calls = <<>>
  /\ pc = [c \in Contexts |-> "out"] /\ current = [c \in Contexts |-> NULL]
  /\ fp_det_done = FALSE /\ fp_det_result = NULL /\ fp_det_func = NULL
  /\ job = NULL /\ returned = {} /\ called = <<>>

Running(c) == c = "isr" \/ pc["isr"] = "out"
At(c, here) == Running(c) /\ pc[c] = here
Goto(c, there) == pc' = [pc EXCEPT ![c] = there]

(* An instruction holds the CPU until the engine has answered.             *)
Instruct(dim) ==
  \/ IF dim > 1 THEN Accept ELSE TellReady
  \/ TellBusy \/ TellComplete
-----------------------------------------------------------------------------
(* fp_det and fp_det_interrupt                                             *)
NewCall(c, kind, dim) ==
  /\ Len(calls) < MaxCalls
  /\ calls' = Append(calls, [kind |-> kind, dim |-> dim])
  /\ current' = [current EXCEPT ![c] = Len(calls')]
  /\ Goto(c, "check")

Call ==
  /\ At("main", "out")
  /\ \E kind \in style, dim \in Dimensions : NewCall("main", kind, dim)
  /\ UNCHANGED <<serviceVars, style, fp_det_done, fp_det_result, fp_det_func,
                 job, returned, called>>

(* while(fp_det_check() != FP_DET_READY);                                  *)
Check(c) ==
  /\ At(c, "check") /\ Instruct(0)
  /\ Goto(c, IF answer' = READY THEN "clear" ELSE "check")
  /\ UNCHANGED <<style, calls, current, fp_det_done, fp_det_result,
                 fp_det_func, job, returned, called>>

AfterClear(c) ==
  IF calls[current[c]].kind = "interrupt" THEN "register" ELSE "invoke"

(* Mutant: the flag of an earlier calculation is left up.                  *)
ClearNot(c) ==
  /\ At(c, "clear") /\ Goto(c, AfterClear(c))
  /\ UNCHANGED <<serviceVars, style, calls, current, fp_det_done,
                 fp_det_result, fp_det_func, job, returned, called>>

Clear(c) ==
  /\ At(c, "clear") /\ fp_det_done' = FALSE /\ Goto(c, AfterClear(c))
  /\ UNCHANGED <<serviceVars, style, calls, current, fp_det_result,
                 fp_det_func, job, returned, called>>

Register(c) ==
  /\ At(c, "register") /\ fp_det_func' = current[c] /\ Goto(c, "invoke")
  /\ UNCHANGED <<serviceVars, style, calls, current, fp_det_done,
                 fp_det_result, job, returned, called>>

(* fp_det_interrupt returns the answer, fp_det does not look at it.        *)
Invoke(c) ==
  /\ At(c, "invoke") /\ Instruct(calls[current[c]].dim)
  /\ job' = IF answer' = ACCEPTED THEN current[c] ELSE job
  /\ Goto(c, IF calls[current[c]].kind = "interrupt" THEN "out" ELSE "spin")
  /\ UNCHANGED <<style, calls, current, fp_det_done, fp_det_result,
                 fp_det_func, returned, called>>

(* while (!_fp_det_done);                                                  *)
Spin(c) ==
  /\ At(c, "spin") /\ fp_det_done /\ Goto(c, "take")
  /\ UNCHANGED <<serviceVars, style, calls, current, fp_det_done,
                 fp_det_result, fp_det_func, job, returned, called>>

ClearAgain(c) ==
  /\ At(c, "take") /\ fp_det_done' = FALSE /\ Goto(c, "return")
  /\ UNCHANGED <<serviceVars, style, calls, current, fp_det_result,
                 fp_det_func, job, returned, called>>

Return(c) ==
  /\ At(c, "return") /\ Goto(c, "out")
  /\ returned' = returned \cup {<<current[c], fp_det_result>>}
  /\ UNCHANGED <<serviceVars, style, calls, current, fp_det_done,
                 fp_det_result, fp_det_func, job, called>>
-----------------------------------------------------------------------------
(* Mutant: the flag is set only where there is a function to call.         *)
EnterIsrCalls ==
  /\ pc["isr"] = "out" /\ irq
  /\ fp_det_done' = (fp_det_done \/ fp_det_func # NULL)
  /\ Goto("isr", "entered")
  /\ UNCHANGED <<serviceVars, style, calls, current, fp_det_result,
                 fp_det_func, job, returned, called>>

(* _fp_det_isr: the flag goes up before the load that acknowledges.        *)
EnterIsr ==
  /\ pc["isr"] = "out" /\ irq
  /\ fp_det_done' = TRUE /\ Goto("isr", "entered")
  /\ UNCHANGED <<serviceVars, style, calls, current, fp_det_result,
                 fp_det_func, job, returned, called>>

IsrLoad ==
  /\ pc["isr"] = "entered" /\ Acknowledge
  /\ fp_det_result' = job /\ Goto("isr", "loaded")
  /\ UNCHANGED <<style, calls, current, fp_det_done, fp_det_func, job,
                 returned, called>>

(* The function may return at once or ask for another determinant.         *)
CallBack ==
  /\ called' = Append(called, <<fp_det_func, fp_det_result>>)
  /\ \/ Goto("isr", "out") /\ UNCHANGED <<calls, current>>
     \/ /\ style \in Chains
        /\ \E dim \in Dimensions : NewCall("isr", "interrupt", dim)

IsrCall ==
  /\ pc["isr"] = "loaded"
  /\ IF fp_det_func # NULL THEN CallBack
     ELSE Goto("isr", "out") /\ UNCHANGED <<calls, current, called>>
  /\ UNCHANGED <<serviceVars, style, fp_det_done, fp_det_result, fp_det_func,
                 job, returned>>

(* The engine calculates and resets by itself.                             *)
Engine ==
  /\ Complete \/ Reset
  /\ answer' = NO_ANSWER
  /\ UNCHANGED <<style, calls, pc, current, fp_det_done, fp_det_result,
                 fp_det_func, job, returned, called>>
-----------------------------------------------------------------------------
CallStep(c) ==
  \/ Check(c) \/ Clear(c) \/ Register(c) \/ Invoke(c)
  \/ Spin(c) \/ ClearAgain(c) \/ Return(c)
IsrStep == EnterIsr \/ IsrLoad \/ IsrCall

DetHostNext == Call \/ (\E c \in Contexts : CallStep(c)) \/ IsrStep \/ Engine

DetHostSpec == DetHostInit /\ [][DetHostNext]_detHostVars

(* Both contexts get on with their code, the interrupt is taken, and the   *)
(* engine is as live as DetService says.                                   *)
DetHostFairness ==
  /\ \A c \in Contexts : WF_detHostVars(CallStep(c))
  /\ WF_detHostVars(IsrStep) /\ WF_detHostVars(Engine)
-----------------------------------------------------------------------------
(* Properties                                                              *)

(* The type invariant of the program and its calls; a function is called   *)
(* only if there is one.                                                   *)
Call0 == 0 .. Len(calls)
DetHostTypeOK ==
  /\ phase \in {"ready", "busy", "complete", "resetting"} /\ irq \in BOOLEAN
  /\ calls \in Seq([kind : Kinds, dim : Dimensions]) /\ Len(calls) <= MaxCalls
  /\ pc \in [Contexts -> {"out", "check", "clear", "register", "invoke",
                          "spin", "take", "return", "entered", "loaded"}]
  /\ current \in [Contexts -> Call0]
  /\ fp_det_done \in BOOLEAN
  /\ fp_det_result \in Call0 /\ fp_det_func \in Call0 /\ job \in Call0
  /\ returned \in SUBSET ((1 .. Len(calls)) \X Call0)
  /\ called \in Seq((1 .. Len(calls)) \X Call0)

(* fp_det returns the determinant of its own matrix, also in a program     *)
(* that mixes the versions, whose functions are then called for fp_det's   *)
(* determinants too, as long as none of them asks for another one.         *)
OwnResult == \A r \in returned : r[1] = r[2]

(* The function given to fp_det_interrupt is called with the determinant   *)
(* of that call, and once, in a program that uses one of the two versions, *)
(* as a comment in hello_world.c asks.                                     *)
OwnCallback ==
  style # Kinds =>
    /\ \A n \in DOMAIN called : called[n][1] = called[n][2]
    /\ \A m, n \in DOMAIN called : m # n => called[m] # called[n]

(* fp_det() and the functions given to fp_det_interrupt() get their own    *)
(* matrices' determinants.                                                 *)
OwnDeterminants == DetHostTypeOK /\ OwnResult /\ OwnCallback

Ended(n) == IF calls[n].kind = "blocking"
            THEN \E r \in returned : r[1] = n
            ELSE \E m \in DOMAIN called : called[m] = <<n, n>>

(* In such a program every call comes to its end: fp_det returns, and the  *)
(* function of fp_det_interrupt is called with its determinant.            *)
DetCallsEnd ==
  \A n \in 1 .. MaxCalls :
    Len(calls) >= n /\ style # Kinds ~> Len(calls) >= n /\ Ended(n)
=============================================================================
