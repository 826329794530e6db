--------------------------- MODULE NotchHostProofs --------------------------
(***************************************************************************)
(* What main() and _notch_isr() may rely on, for every number of samples,  *)
(* every size of the FIFOs and every speed of the program: the engine is   *)
(* asked only when it listens, and is done with the buffer when the        *)
(* program uses it.                                                        *)
(***************************************************************************)
EXTENDS NotchHost, NotchProofs

Before == pc \in {"ready", "invoke"}
WholeBuffer == SDRAM_WORD_SKIP * NO_SAMPLES

(* ... of an instruction: who has issued it, and its answer.               *)
CallsHold ==
  /\ cpu = "ci" => isr = "none" /\ pc \in {"ready", "invoke", "status"}
  /\ Before => isr = "none" /\ ~notch_done
  /\ pc = "ready" => stage = 0 /\ (cpu = "ci" => reply = <<READY>>)
  /\ pc = "invoke" => IF cpu = "ci" THEN stage = 1 /\ reply = <<ACCEPTED>>
                      ELSE stage = 0

(* ... of a load: the program's is notch_diagnostic()'s.                   *)
LoadsHold ==
  /\ cpu \in {"read", "resp"} /\ isr = "none" => pc = "diagnostic"
  /\ isr = "entered" => irq /\ cpu = "free" /\ notch_done
  /\ isr = "loading" =>
       /\ notch_done /\ cpu \in {"read", "resp"} /\ slave_readdata = WholeBuffer
       /\ cpu = "read" => forceReset /\ slave_address = 0
       /\ cpu = "resp" => stage = 0

(* ... of the run that is over.                                            *)
DoneHolds ==
  /\ notch_done /\ isr = "none" => notch_result = WholeBuffer /\ stage = 0
  /\ pc = "outputs" => notch_done

HostInv ==
  /\ pc \in {"ready", "invoke", "while", "status", "compare", "diagnostic",
             "outputs"}
  /\ isr \in {"none", "entered", "loading"}
  /\ notch_done \in BOOLEAN
  /\ CallsHold /\ LoadsHold /\ DoneHolds
-----------------------------------------------------------------------------
(* What a cycle does to the ports and the stage, as far as the program can *)
(* tell.                                                                   *)

LEMMA PortCycle ==
  ASSUME TypeOK, StartsAnswered, NEW start \in BOOLEAN, NEW read \in BOOLEAN,
         Port(start, read)
  PROVE  /\ cpu = "free" => cpu' = IF start THEN "ci" ELSE IF read THEN "read"
                                   ELSE "free"
         /\ cpu = "ci" => ~start /\ ~read /\ cpu' = "free"
         /\ cpu = "read" => /\ ~start /\ read /\ cpu' = "resp"
                            /\ slave_address' = slave_address
         /\ cpu = "resp" => ~start /\ ~read /\ cpu' = "free"
         /\ cpu' = "read" => cpu = "free" /\ ~start /\ read
         /\ cpu' = "ci" => cpu = "free" /\ start
BY DEF TypeOK, StartsAnswered, Port

LEMMA StageCycle ==
  ASSUME TypeOK, StagesHold, NEW start \in BOOLEAN, NEW read \in BOOLEAN,
         NEW w \in BOOLEAN, NEW v \in BOOLEAN, NEW dataa,
         Clock(start, dataa, read, w, v)
  PROVE  /\ stage = 0 =>
              /\ stage' = IF start /\ dataa # 0 THEN 1 ELSE 0
              /\ ~forceReset /\ ~irq'
              /\ start => reply' = IF dataa # 0 THEN <<ACCEPTED>> ELSE <<READY>>
         /\ stage = 1 => stage' \in {1, 2}
         /\ stage = 2 /\ ~forceReset => stage' = 2
         /\ irq => /\ stage = 2 /\ ~forceReset
                   /\ read => forceReset'
                   /\ ~read => irq'
         /\ forceReset => stage = 2 /\ stage' = 0
<1>1. /\ stage \in 0 .. 2 /\ (irq <=> stage = 2 /\ ~forceReset)
      /\ forceReset => stage = 2
  BY DEF TypeOK, StagesHold
<1>2. CASE Reset
  BY <1>1, <1>2 DEF Reset
<1>3. CASE Accept(start, dataa)
  BY <1>1, <1>3 DEF Accept, IdleStage
<1>4. CASE Idle(start, dataa)
  BY <1>1, <1>4 DEF Idle, IdleStage
<1>5. CASE Run(start, w, v)
  <2>1. stage' \in {1, 2}
    BY <1>5 DEF Run, SdPort, StartReading, Finish, AcceptedRead, HeldRead,
       FetchWrite, StartWrite, AcceptedWrite, HeldWrite, Choose, Writing, Busy
  <2> QED BY <1>1, <1>5, <2>1 DEF Run
<1>6. CASE WaitForIrq(start, read)
  <2>1. /\ stage = 2 /\ ~forceReset /\ stage' = stage
        /\ irq /\ read => forceReset'
        /\ irq /\ ~read => irq'
    BY <1>6, Zenon DEF WaitForIrq
  <2> QED BY <1>1, <2>1
<1> QED BY <1>2, <1>3, <1>4, <1>5, <1>6 DEF Clock

(* At the end of a run the first register holds the size of the buffer,    *)
(* also in the cycle that resets it.                                       *)
LEMMA WholeBufferRead ==
  ASSUME EngineInv, stage = 2, NEW read \in BOOLEAN, NEW w \in BOOLEAN,
         read, slave_address' = 0, SlaveRead(read, w)
  PROVE  slave_readdata' = WholeBuffer
<1>1. readAddress = sdBase + NO_SAMPLES /\ sdBase \in Nat /\ NO_SAMPLES \in Nat
  BY NotchAssumption DEF EngineInv, TypeOK, StagesHold, Addresses, End
<1>2. Distance(readAddress, sdBase) = NO_SAMPLES
  BY <1>1 DEF Distance
<1>3. slave_readdata' = StatusRegister(0, w)
  BY DEF SlaveRead
<1>4. StatusRegister(0, w) = SDRAM_WORD_SKIP * Distance(readAddress, sdBase)
  <2>1. /\ 0 # 1 /\ 0 # 2 /\ 0 # 3 /\ 0 # 4 /\ 0 # 5 /\ 0 # 6 /\ 0 # 7 /\ 0 # 8
        /\ 0 # 9 /\ 0 # 10 /\ 0 # 11 /\ 0 # 12
    OBVIOUS
  <2> QED BY <2>1, Zenon DEF StatusRegister
<1> QED BY <1>2, <1>3, <1>4 DEF WholeBuffer
-----------------------------------------------------------------------------
(* The invariant is preserved by each step of the program and of the       *)
(* service routine, together with the cycle of the engine it takes.        *)

LEMMA HostCycleInv ==
  ASSUME EngineInv, StartsAnswered, HostInv,
         NEW start \in BOOLEAN, NEW read \in BOOLEAN, NEW w \in BOOLEAN,
         NEW v \in BOOLEAN, NEW dataa, HostCycle(start, dataa, read, w, v)
  PROVE  HostInv'
<1>1. TypeOK /\ StagesHold /\ CallsHold /\ LoadsHold /\ DoneHolds
      /\ Clock(start, dataa, read, w, v) /\ Port(start, read)
      /\ SlaveRead(read, w)
  BY DEF EngineInv, HostInv, HostCycle, Clock
<1> DEFINE PortDoes ==
             /\ cpu = "free" => cpu' = IF start THEN "ci"
                                       ELSE IF read THEN "read" ELSE "free"
             /\ cpu = "ci" => ~start /\ ~read /\ cpu' = "free"
             /\ cpu = "read" => /\ ~start /\ read /\ cpu' = "resp"
                                /\ slave_address' = slave_address
             /\ cpu = "resp" => ~start /\ ~read /\ cpu' = "free"
           StageDoes ==
             /\ stage = 0 =>
                  /\ stage' = IF start /\ dataa # 0 THEN 1 ELSE 0
                  /\ ~forceReset /\ ~irq'
                  /\ start => reply' = IF dataa # 0 THEN <<ACCEPTED>>
                                       ELSE <<READY>>
             /\ stage = 1 => stage' \in {1, 2}
             /\ stage = 2 /\ ~forceReset => stage' = 2
             /\ irq => /\ stage = 2 /\ ~forceReset
                       /\ read => forceReset'
                       /\ ~read => irq'
             /\ forceReset => stage = 2 /\ stage' = 0
<1>2. PortDoes
  BY <1>1, PortCycle
<1>3. StageDoes
  BY <1>1, StageCycle
<1>4. stage = 2 /\ read /\ slave_address' = 0 => slave_readdata' = WholeBuffer
  BY <1>1, WholeBufferRead
<1>5. /\ cpu \in {"free", "ci", "read", "resp"} /\ stage \in 0 .. 2
      /\ pc \in {"ready", "invoke", "while", "status", "compare",
                 "diagnostic", "outputs"}
      /\ isr \in {"none", "entered", "loading"} /\ notch_done \in BOOLEAN
  BY <1>1 DEF TypeOK, HostInv
<1> USE <1>1, <1>2, <1>3, <1>4, <1>5 DEF CallsHold, LoadsHold, DoneHolds, Before
<1>6. CASE EnterIsr
  BY <1>6 DEF EnterIsr, HostInv
<1>7. CASE IsrLoad
  BY <1>7 DEF IsrLoad, HostInv
<1>8. CASE LeaveIsr
  BY <1>8 DEF LeaveIsr, HostInv
<1>9. CASE CallNotch(dataa)
  BY <1>9 DEF CallNotch, HostInv, hostVars
<1>10. CASE NotchAnswers
  BY <1>10 DEF NotchAnswers, HostInv
<1>11. CASE While
  BY <1>11 DEF While, Computing, HostInv
<1>12. CASE Compare
  BY <1>12 DEF Compare, Computing, HostInv
<1>13. CASE ReadStatus
  BY <1>13 DEF ReadStatus, HostInv, hostVars
<1>14. CASE StatusRead
  BY <1>14 DEF StatusRead, HostInv
<1>15. CASE Elsewhere
  BY <1>15 DEF Elsewhere, HostInv, hostVars
<1> QED
  BY <1>6, <1>7, <1>8, <1>9, <1>10, <1>11, <1>12, <1>13, <1>14, <1>15
     DEF HostCycle, Program

LEMMA HostStep ==
  EngineInv /\ StartsAnswered /\ HostInv /\ [HostNext]_hostSystem => HostInv'
<1>1. ASSUME EngineInv, StartsAnswered, HostInv, HostNext PROVE HostInv'
  BY <1>1, HostCycleInv DEF HostNext
<1>2. HostInv /\ UNCHANGED hostSystem => HostInv'
  BY DEF HostInv, CallsHold, LoadsHold, DoneHolds, Before, hostSystem, vars,
     hostVars
<1> QED BY <1>1, <1>2

(* The engine in its program is the engine of Notch: what holds of the one *)
(* holds of the other.                                                     *)
LEMMA HostRunsEngine == HostSpec => Spec
<1>1. HostInit => Init
  BY DEF HostInit
<1>2. [HostNext]_hostSystem => [Next]_vars
  <2>1. HostNext => Next
    BY DEF HostNext, HostCycle, Next
  <2>2. UNCHANGED hostSystem => UNCHANGED vars
    BY DEF hostSystem
  <2> QED BY <2>1, <2>2
<1> QED BY <1>1, <1>2, PTL DEF HostSpec, Spec

LEMMA HostInitInv == HostInit => HostInv
BY DEF HostInit, Init, HostInv, CallsHold, LoadsHold, DoneHolds, Before

LEMMA HostInvariant ==
  BuffersFit => (HostSpec => [](EngineInv /\ StartsAnswered /\ HostInv))
<1>1. ASSUME BuffersFit
      PROVE  HostSpec => [](EngineInv /\ StartsAnswered /\ HostInv)
  <2>1. Spec => []EngineInv
    BY <1>1, EngineCorrect
  <2>2. Spec => []StartsAnswered
    BY EveryStartAnswered
  <2> QED BY <2>1, <2>2, HostRunsEngine, HostInitInv, HostStep, PTL
          DEF HostSpec
<1> QED BY <1>1
-----------------------------------------------------------------------------
(* The theorems.                                                           *)

LEMMA HandedOver == EngineInv /\ HostInv => RunHandedOver
<1> SUFFICES ASSUME EngineInv, HostInv PROVE RunHandedOver
  OBVIOUS
<1>1. notch_done /\ isr = "none"
        => notch_result = SDRAM_WORD_SKIP * NO_SAMPLES /\ stage = 0
  BY DEF HostInv, DoneHolds, WholeBuffer
<1>2. pc = "outputs" => notch_done
  BY DEF HostInv, DoneHolds
<1>3. stage # 1 => Pipeline = <<>> /\ ~sdread /\ ~sdwrite
  BY Quiet DEF QuietOutsideRuns
<1> QED BY <1>1, <1>2, <1>3 DEF RunHandedOver

(* The interrupt says the truth and nothing but the truth: the service     *)
(* routine is told the whole buffer, and when main() reads the results no  *)
(* access of the engine is on the bus or can still come.                   *)
THEOREM BufferHandedOver == BuffersFit => (HostSpec => []RunHandedOver)
<1>1. ASSUME BuffersFit PROVE HostSpec => []RunHandedOver
  <2>1. HostSpec => [](EngineInv /\ StartsAnswered /\ HostInv)
    BY <1>1, HostInvariant
  <2> QED BY <2>1, HandedOver, PTL
<1> QED BY <1>1

Handshake ==
  /\ pc = "invoke" /\ pc' = "while" => status_notch' = ACCEPTED
  /\ pc = "ready" /\ pc' = "invoke" => status_notch' = READY
  /\ stage = 0 /\ stage' = 1 => pc = "invoke"
  /\ isr = "loading" /\ isr' = "none" => ~irq'

LEMMA HandshakeStep ==
  EngineInv /\ StartsAnswered /\ HostInv /\ [HostNext]_hostSystem
    => [Handshake]_hostSystem
<1> SUFFICES ASSUME EngineInv, StartsAnswered, HostInv, HostNext
             PROVE  Handshake
  OBVIOUS
<1>1. PICK start \in BOOLEAN, read \in BOOLEAN, w \in BOOLEAN, v \in BOOLEAN,
           dataa \in Bases \cup {0} : HostCycle(start, dataa, read, w, v)
  BY DEF HostNext
<1>2. TypeOK /\ StagesHold /\ CallsHold /\ LoadsHold
      /\ Clock(start, dataa, read, w, v) /\ Port(start, read)
  BY <1>1 DEF EngineInv, HostInv, HostCycle, Clock
<1>3. /\ stage = 0 => /\ stage' = IF start /\ dataa # 0 THEN 1 ELSE 0
                      /\ ~irq'
      /\ start => cpu = "free" /\ cpu' = "ci"
  BY <1>2, StageCycle, PortCycle DEF TypeOK
<1>4. pc = "invoke" /\ pc' = "while" => status_notch' = ACCEPTED
  <2>1. pc = "invoke" /\ pc' = "while" => NotchAnswers
    BY <1>1 DEF HostCycle, Program, EnterIsr, IsrLoad, LeaveIsr, CallNotch,
       While, Compare, ReadStatus, StatusRead, Elsewhere, hostVars
  <2> QED BY <1>2, <2>1 DEF NotchAnswers, CallsHold
<1>5. pc = "ready" /\ pc' = "invoke" => status_notch' = READY
  <2>1. pc = "ready" /\ pc' = "invoke" => NotchAnswers
    BY <1>1 DEF HostCycle, Program, EnterIsr, IsrLoad, LeaveIsr, CallNotch,
       While, Compare, ReadStatus, StatusRead, Elsewhere, hostVars
  <2> QED BY <1>2, <2>1 DEF NotchAnswers, CallsHold
<1>6. stage = 0 /\ stage' = 1 => pc = "invoke"
  <2>1. cpu = "free" /\ cpu' = "ci" => CallNotch(dataa)
    BY <1>1 DEF HostCycle, Program, EnterIsr, IsrLoad, LeaveIsr, NotchAnswers,
       While, Compare, Computing, ReadStatus, StatusRead, Elsewhere
  <2> QED BY <1>3, <2>1 DEF CallNotch
<1>7. isr = "loading" /\ isr' = "none" => ~irq'
  <2>1. isr = "loading" /\ isr' = "none" => LeaveIsr
    BY <1>1 DEF HostCycle, Program, EnterIsr, IsrLoad, CallNotch,
       NotchAnswers, While, Compare, Computing, ReadStatus, StatusRead,
       Elsewhere, hostVars
  <2> QED BY <1>2, <1>3, <2>1 DEF LeaveIsr, LoadsHold
<1> QED BY <1>4, <1>5, <1>6, <1>7 DEF Handshake

(* The program never asks an engine that does not listen, never starts a   *)
(* second run, and leaves its service routine with the interrupt down.     *)
THEOREM HandshakeAlwaysKept == BuffersFit => (HostSpec => HandshakeKept)
<1>1. ASSUME BuffersFit PROVE HostSpec => HandshakeKept
  <2>1. HostSpec => [](EngineInv /\ StartsAnswered /\ HostInv)
    BY <1>1, HostInvariant
  <2>2. HostSpec => [][Handshake]_hostSystem
    BY <2>1, HandshakeStep, PTL DEF HostSpec
  <2> QED BY <2>2 DEF HandshakeKept, Handshake
<1> QED BY <1>1
=============================================================================
