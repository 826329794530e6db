------------------------- MODULE FpDetServiceProofs -------------------------
(***************************************************************************)
(* The determinant engine, for every dimension, matrix, prime, timing of   *)
(* the SDRAM and history of clk_en: every step of it is a step of          *)
(* DetService or leaves it alone, and it keeps its types.  When the        *)
(* matrices fit (MatricesFit), it calculates with the matrix of the SDRAM  *)
(* and nothing else; when the cores stand still for one cycle at most      *)
(* (OneStall), every result is taken from a core that has finished.        *)
(***************************************************************************)
EXTENDS FpDetService, SequenceTheorems, TLAPS

Codes == {ACCEPTED, READY, READING_SDRAM, CALCULATING, WAIT_IRQ, RESULT}

(* What the mapping needs: the interrupt is up exactly in the last stage,  *)
(* a reset is due only in the first, and k and dimension can be compared.  *)
ControlInv ==
  /\ stage \in 0 .. 4
  /\ forceReset = FALSE \/ (forceReset = TRUE /\ stage = 0)
  /\ (irq = TRUE /\ stage = 4) \/ (irq = FALSE /\ stage # 4)
  /\ reply = <<>> \/ \E s \in Codes : reply = <<s>>
  /\ k \in Nat /\ dimension \in Nat

(* The first state is the first of the service.                            *)
LEMMA ControlInit == Init => ControlInv /\ Service!ServiceInit
<1> SUFFICES ASSUME Init PROVE ControlInv /\ Service!ServiceInit
  OBVIOUS
<1>1. ControlInv
  <2>1. stage = 0 /\ forceReset = FALSE /\ irq = FALSE /\ reply = <<>>
        /\ k = 0 /\ dimension = 16
    BY Zenon DEF Init, DEFAULT_DIMENSION
  <2>2. stage \in 0 .. 4 /\ stage # 4 /\ k \in Nat /\ dimension \in Nat
    BY <2>1, SMT
  <2> QED BY <2>1, <2>2, Zenon DEF ControlInv
<1>2. phase = "ready" /\ answer = 0
  BY DEF Init, phase, answer
<1> QED BY <1>1, <1>2
           DEF Init, Service!ServiceInit, Service!NO_ANSWER

(* The value the mapping gives to an answer.                               *)
LEMMA AnswerValue ==
  /\ reply' = <<>> => answer' = Service!NO_ANSWER
  /\ \A s \in Codes : reply' = <<s>> => answer' = s
<1>1. reply' = <<>> => answer' = Service!NO_ANSWER
  BY DEF answer, Service!NO_ANSWER
<1>2. ASSUME NEW s \in Codes, reply' = <<s>>
      PROVE  answer' = s
  <2>1. <<s>> # <<>> /\ <<s>>[1] = s
    OBVIOUS
  <2> QED BY <1>2, <2>1 DEF answer
<1> QED BY <1>1, <1>2

(* How far the engine is decides the phase.                                *)
LEMMA PhaseValue ==
  ASSUME stage' \in 0 .. 4, forceReset' \in BOOLEAN
  PROVE  /\ forceReset' => phase' = "resetting"
         /\ ~forceReset' /\ stage' = 0 => phase' = "ready"
         /\ ~forceReset' /\ stage' \in 1 .. 3 => phase' = "busy"
         /\ ~forceReset' /\ stage' = 4 => phase' = "complete"
  BY DEF phase

LEMMA PhaseNow ==
  ASSUME ControlInv
  PROVE  /\ forceReset => phase = "resetting"
         /\ ~forceReset /\ stage = 0 => phase = "ready"
         /\ ~forceReset /\ stage \in 1 .. 3 => phase = "busy"
         /\ ~forceReset /\ stage = 4 => phase = "complete"
  BY DEF phase, ControlInv

(* The six kinds of steps, by the registers the mapping looks at.          *)
Code(s) == reply' = <<s>>
None == reply' = <<>>
Same == forceReset' = FALSE /\ irq' = irq
Control ==
  \/ /\ forceReset /\ forceReset' = FALSE /\ stage' = 0 /\ irq' = FALSE /\ None
  \/ /\ ~forceReset /\ stage = 0 /\ stage' = 1 /\ Same /\ Code(ACCEPTED)
  \/ /\ ~forceReset /\ stage = 0 /\ stage' = 0 /\ Same /\ (None \/ Code(READY))
  \/ /\ ~forceReset /\ stage \in 1 .. 3 /\ stage' \in 1 .. 3 /\ Same
     /\ \/ None
        \/ \E s \in {READING_SDRAM, CALCULATING, WAIT_IRQ, RESULT} : Code(s)
  \/ /\ ~forceReset /\ stage = 3 /\ stage' = 4
     /\ forceReset' = FALSE /\ irq' = TRUE /\ (None \/ Code(WAIT_IRQ))
  \/ /\ ~forceReset /\ stage = 4 /\ stage' = 4 /\ Same
     /\ (None \/ Code(WAIT_IRQ))
  \/ /\ ~forceReset /\ stage = 4 /\ stage' = 0
     /\ forceReset' = TRUE /\ irq' = FALSE /\ None

(* Every cycle is one of them.                                             *)
LEMMA CycleControl ==
  ASSUME ControlInv,
         NEW start \in BOOLEAN, NEW datab \in Dimensions \cup {0}, NEW result_read \in BOOLEAN,
         NEW waitrequest \in BOOLEAN, NEW readdatavalid \in BOOLEAN,
         NEW readdata,
         Clock(start, datab, result_read, waitrequest, readdatavalid, readdata)
  PROVE  Control
<1>1. CASE Reset
  BY <1>1 DEF Reset, Control, None
<1>2. CASE Accept(start, datab)
  BY <1>2, ControlInv DEF Accept, Control, Code, Same, ControlInv
<1>3. CASE Idle(start, datab)
  BY <1>3, ControlInv
     DEF Idle, Answer, Control, Code, None, Same, ControlInv
<1>4. CASE Reading(start, waitrequest, readdatavalid, readdata)
  <2>1. /\ ~forceReset /\ stage = 1 /\ Same
        /\ None \/ Code(READING_SDRAM)
    BY <1>4, ControlInv DEF Reading, Answer, Code, None, Same, ControlInv
  <2>2. stage' = 1 \/ stage' = 2
    BY <1>4, <2>1 DEF Reading, PrepareRows
  <2> QED BY <2>1, <2>2, SMT DEF Control
<1>5. CASE Factoring(start)
  <2>1. /\ ~forceReset /\ stage = 2 /\ Same
        /\ None \/ Code(CALCULATING)
    BY <1>5, ControlInv DEF Factoring, Answer, Code, None, Same, ControlInv
  <2>2. stage' = 2 \/ stage' = 3
    BY <1>5, <2>1 DEF Factoring
  <2> QED BY <2>1, <2>2, SMT DEF Control
<1>6. CASE Multiplying(start)
  <2>1. ~forceReset /\ stage = 3 /\ forceReset' = FALSE
    BY <1>6, ControlInv DEF Multiplying, ControlInv
  <2>2. None \/ Code(WAIT_IRQ) \/ Code(RESULT)
    BY <1>6 DEF Multiplying, Answer, Code, None
  <2>3. CASE Finish
    <3>1. ~(k < dimension)
      BY <2>3, ControlInv, SMT DEF Finish, ControlInv
    <3>2. None \/ Code(WAIT_IRQ)
      BY <1>6, <3>1 DEF Multiplying, Answer, Code, None
    <3> QED BY <2>1, <2>3, <3>2 DEF Finish, Control
  <2>4. CASE ~Finish
    <3>1. stage' = stage /\ irq' = irq
      BY <1>6, <2>4
         DEF Multiplying, MultiplyDiagonal, FetchDiagonal, DiagonalWait,
             NextDiagonal
    <3> QED BY <2>1, <2>2, <3>1, SMT DEF Control, Same
  <2> QED BY <2>3, <2>4
<1>7. CASE WaitForIrq(start, result_read)
  <2>1. result_read => ~start
    BY DEF Clock, Port
  <2> QED
    BY <1>7, <2>1, ControlInv
       DEF WaitForIrq, Answer, Control, Code, None, Same, ControlInv
<1> QED BY <1>1, <1>2, <1>3, <1>4, <1>5, <1>6, <1>7 DEF Clock

(* The numbers stay numbers.                                               *)
LEMMA CycleNumbers ==
  ASSUME ControlInv,
         NEW start \in BOOLEAN, NEW datab \in Dimensions \cup {0},
         NEW result_read \in BOOLEAN,
         NEW waitrequest \in BOOLEAN, NEW readdatavalid \in BOOLEAN,
         NEW readdata,
         Clock(start, datab, result_read, waitrequest, readdatavalid, readdata)
  PROVE  k' \in Nat /\ dimension' \in Nat
<1> k \in Nat /\ dimension \in Nat /\ datab \in Nat
  BY ControlInv, DetAssumption DEF ControlInv, DetAssumption
<1>1. CASE Reset
  BY <1>1 DEF Reset, DEFAULT_DIMENSION
<1>2. CASE Accept(start, datab)
  BY <1>2 DEF Accept, calcVars, diagonalVars
<1>3. CASE Idle(start, datab)
  BY <1>3 DEF Idle, busVars, calcVars, diagonalVars
<1>4. CASE Reading(start, waitrequest, readdatavalid, readdata)
  BY <1>4 DEF Reading, diagonalVars
<1>5. CASE Factoring(start)
  BY <1>5 DEF Factoring, busVars, diagonalVars
<1>6. CASE Multiplying(start)
  BY <1>6 DEF Multiplying, MultiplyDiagonal, FetchDiagonal, DiagonalWait,
              NextDiagonal, Finish, busVars, diagonalVars
<1>7. CASE WaitForIrq(start, result_read)
  BY <1>7 DEF WaitForIrq, busVars, calcVars, diagonalVars
<1> QED BY <1>1, <1>2, <1>3, <1>4, <1>5, <1>6, <1>7 DEF Clock

(* Such a step keeps the invariant, but for the numbers.                   *)
LEMMA ControlKept ==
  ASSUME ControlInv, Control, k' \in Nat, dimension' \in Nat
  PROVE  ControlInv'
<1>1. reply' = <<>> \/ \E s \in Codes : reply' = <<s>>
  BY Zenon DEF Control, None, Code, Codes
<1>2. /\ stage' \in 0 .. 4
      /\ forceReset' = FALSE \/ (forceReset' = TRUE /\ stage' = 0)
  BY SMT DEF Control, Same
<1>3. \/ irq' = FALSE /\ stage' # 4
      \/ irq' = TRUE /\ stage' = 4
      \/ irq' = irq /\ (stage' = 4 <=> stage = 4)
  BY SMT DEF Control, Same
<1>4. (irq' = TRUE /\ stage' = 4) \/ (irq' = FALSE /\ stage' # 4)
  BY <1>3 DEF ControlInv
<1> QED BY <1>1, <1>2, <1>4 DEF ControlInv

(* It is a step of the service.                                            *)
LEMMA ControlServes ==
  ASSUME ControlInv, Control, ControlInv'
  PROVE  [Service!ServiceNext]_Service!serviceVars
<1> USE DEF Service!ServiceNext, Service!Enter, Same, None, Code
<1>a. stage' \in 0 .. 4 /\ forceReset' \in BOOLEAN
  BY DEF ControlInv
<1>1. CASE /\ forceReset /\ forceReset' = FALSE /\ stage' = 0 /\ irq' = FALSE
           /\ None
  BY <1>1, <1>a, PhaseNow, PhaseValue, AnswerValue DEF Service!Reset
<1>2. CASE /\ ~forceReset /\ stage = 0 /\ stage' = 1 /\ Same
           /\ Code(ACCEPTED)
  <2>1. phase = "ready" /\ phase' = "busy"
    BY <1>2, <1>a, PhaseNow, PhaseValue, SMT
  <2>2. answer' = ACCEPTED /\ irq' = FALSE
    BY <1>2, AnswerValue DEF Codes, ControlInv
  <2> QED BY <2>1, <2>2 DEF Service!Accept, ACCEPTED, Service!ACCEPTED
<1>3. CASE /\ ~forceReset /\ stage = 0 /\ stage' = 0 /\ Same
           /\ (None \/ Code(READY))
  <2>1. phase = "ready" /\ phase' = "ready"
    BY <1>3, <1>a, PhaseNow, PhaseValue, SMT
  <2>2. answer' = Service!NO_ANSWER \/ answer' = READY
    BY <1>3, AnswerValue DEF Codes
  <2>3. irq' = FALSE
    BY <1>3 DEF ControlInv
  <2> QED BY <2>1, <2>2, <2>3
             DEF Service!TellReady, Service!Silent, READY, Service!READY
<1>4. CASE /\ ~forceReset /\ stage \in 1 .. 3 /\ stage' \in 1 .. 3 /\ Same
           /\ \/ None
              \/ \E s \in {READING_SDRAM, CALCULATING, WAIT_IRQ, RESULT} :
                   Code(s)
  <2>1. phase = "busy" /\ phase' = "busy"
    BY <1>4, <1>a, PhaseNow, PhaseValue, SMT
  <2>2. irq' = FALSE
    BY <1>4, SMT DEF ControlInv
  <2>3. \/ answer' = Service!NO_ANSWER
        \/ answer' \in {READING_SDRAM, CALCULATING, WAIT_IRQ, RESULT}
    BY <1>4, AnswerValue DEF Codes
  <2> QED BY <2>1, <2>2, <2>3
             DEF Service!TellBusy, Service!Silent, READING_SDRAM, CALCULATING,
                 WAIT_IRQ, RESULT, Service!READING_SDRAM,
                 Service!CALCULATING, Service!WAIT_IRQ, Service!RESULT
<1>5. CASE /\ ~forceReset /\ stage = 3 /\ stage' = 4
           /\ forceReset' = FALSE /\ irq' = TRUE /\ (None \/ Code(WAIT_IRQ))
  <2>1. phase = "busy" /\ phase' = "complete"
    BY <1>5, <1>a, PhaseNow, PhaseValue, SMT
  <2>2. answer' = Service!NO_ANSWER \/ answer' = WAIT_IRQ
    BY <1>5, AnswerValue DEF Codes
  <2> QED BY <1>5, <2>1, <2>2
             DEF Service!Complete, WAIT_IRQ, Service!WAIT_IRQ
<1>6. CASE /\ ~forceReset /\ stage = 4 /\ stage' = 4 /\ Same
           /\ (None \/ Code(WAIT_IRQ))
  <2>1. phase = "complete" /\ phase' = "complete"
    BY <1>6, <1>a, PhaseNow, PhaseValue, SMT
  <2>2. answer' = Service!NO_ANSWER \/ answer' = WAIT_IRQ
    BY <1>6, AnswerValue DEF Codes
  <2>3. irq' = TRUE
    BY <1>6 DEF ControlInv
  <2> QED BY <2>1, <2>2, <2>3
             DEF Service!TellComplete, Service!Silent, WAIT_IRQ,
                 Service!WAIT_IRQ
<1>7. CASE /\ ~forceReset /\ stage = 4 /\ stage' = 0
           /\ forceReset' = TRUE /\ irq' = FALSE /\ None
  BY <1>7, <1>a, PhaseNow, PhaseValue, AnswerValue DEF Service!Acknowledge
<1> QED BY <1>1, <1>2, <1>3, <1>4, <1>5, <1>6, <1>7, Zenon DEF Control

(* A step of the engine, or one in which nothing happens.                  *)
LEMMA EngineStep ==
  ASSUME ControlInv, [Next]_vars
  PROVE  ControlInv' /\ [Service!ServiceNext]_Service!serviceVars
<1>1. CASE UNCHANGED vars
  <2>1. UNCHANGED <<stage, forceReset, irq, reply, k, dimension>>
    BY <1>1 DEF vars, busVars, calcVars, diagonalVars
  <2>2. ControlInv'
    BY <2>1 DEF ControlInv
  <2>3. UNCHANGED <<phase, irq, answer>>
    BY <2>1 DEF phase, answer
  <2> QED BY <2>2, <2>3 DEF Service!serviceVars
<1>2. CASE Next
  <2>0. PICK start \in BOOLEAN, result_read \in BOOLEAN,
             waitrequest \in BOOLEAN, readdatavalid \in BOOLEAN,
             datab \in Dimensions \cup {0} :
          \E readdata :
            Clock(start, datab, result_read, waitrequest, readdatavalid,
                  readdata)
    BY <1>2, Zenon DEF Next
  <2>1. PICK readdata :
          Clock(start, datab, result_read, waitrequest, readdatavalid,
                readdata)
    BY <2>0
  <2>2. Control /\ k' \in Nat /\ dimension' \in Nat
    BY <2>1, CycleControl, CycleNumbers, ZenonT(30)
  <2>3. ControlInv'
    BY <2>2, ControlKept
  <2> QED BY <2>2, <2>3, ControlServes
<1> QED BY <1>1, <1>2

(* The program may rely on what DetService says of the engine, whatever    *)
(* fp_det_nios.v is doing with its memory, its cores and the SDRAM.        *)
THEOREM EngineServes == Spec => ImplementsService
<1>1. Init => ControlInv /\ Service!ServiceInit
  BY ControlInit
<1>2. ControlInv /\ [Next]_vars
        => ControlInv' /\ [Service!ServiceNext]_Service!serviceVars
  BY EngineStep
<1> QED BY <1>1, <1>2, PTL DEF Spec, ImplementsService, Service!ServiceSafety

-----------------------------------------------------------------------------
(* Sums, products and quotients of words are words.                        *)
LEMMA Remainder ==
  ASSUME NEW n \in Int, NEW m \in Nat \ {0}
  PROVE  n % m \in 0 .. (m - 1)
OBVIOUS

LEMMA Arithmetic ==
  ASSUME NEW a \in Word, NEW b \in Word
  PROVE  Times(a, b) \in Word /\ Minus(a, b) \in Word /\ Over(a, b) \in Word
<1> USE PrimeAssumption
<1>0. Prime \in Nat \ {0} /\ Number = 0 .. (Prime - 1)
  BY DEF Number
<1>1. ASSUME a # Undefined, b # Undefined
      PROVE  a \in Number /\ b \in Number /\ a * b \in Int /\ a - b \in Int
  BY <1>0, <1>1 DEF Word
<1>2. Times(a, b) \in Word
  BY <1>0, <1>1, Remainder DEF Times, Word
<1>3. Minus(a, b) \in Word
  BY <1>0, <1>1, Remainder DEF Minus, Word
<1>4. Over(a, b) \in Word
  <2>1. CASE Undefined \in {a, b} \/ b = 0
    BY <2>1 DEF Over, Word
  <2>2. CASE ~(Undefined \in {a, b} \/ b = 0)
    <3>1. \E q \in Number : (q * b) % Prime = a
      BY <1>0, <1>1, <2>2
    <3>2. (CHOOSE q \in Number : (q * b) % Prime = a) \in Number
      BY <3>1, Zenon
    <3> QED BY <2>2, <3>2 DEF Over, Word
  <2> QED BY <2>1, <2>2
<1> QED BY <1>2, <1>3, <1>4

(* The floating point cores: their operation keeps its type.               *)
LEMMA ResultIsWord ==
  ASSUME core \in Operation, NEW unit \in {"mul", "addsub", "div"}
  PROVE  CoreResult(unit) \in Word
<1>1. core.a \in Word /\ core.b \in Word
  BY DEF Operation
<1>2. Undefined \in Word
  BY DEF Word
<1> QED BY <1>1, <1>2, Arithmetic DEF CoreResult

LEMMA LoadOperation ==
  ASSUME NEW unit \in {"mul", "addsub", "div"}, NEW a \in Word, NEW b \in Word,
         NEW latency \in 0 .. ADDER_LATENCY, Load(unit, a, b, latency)
  PROVE  core' \in Operation
<1>1. 0 \in 0 .. MaxStalls
  BY DetAssumption DEF DetAssumption
<1> QED BY <1>1 DEF Load, Operation

LEMMA EdgeOperation ==
  ASSUME core \in Operation, CoreEdge
  PROVE  /\ core' \in Operation /\ core'.unit = core.unit
         /\ \/ core.left = 0 /\ core'.left = 0 /\ core'.stalls = core.stalls
            \/ core.left = 1 /\ core'.left = 0 /\ core'.stalls = 0
            \/ /\ core.left > 1 /\ core'.left = core.left - 1
               /\ core'.stalls = core.stalls
            \/ /\ core.left > 0 /\ core'.left = core.left
               /\ core'.stalls = core.stalls + 1 /\ core'.stalls <= MaxStalls
<1> USE DEF Operation, ADDER_LATENCY
<1>0. /\ core.left \in 0 .. 7 /\ core.stalls \in 0 .. MaxStalls /\ MaxStalls \in Nat
      /\ core = [unit |-> core.unit, a |-> core.a, b |-> core.b,
                 left |-> core.left, stalls |-> core.stalls]
  BY DetAssumption DEF DetAssumption
<1>1. CASE core.left = 0
  BY <1>0, <1>1 DEF CoreEdge
<1>2. CASE core.left = 1 /\ core' = [core EXCEPT !.left = 0, !.stalls = 0]
  <2>1. core' = [unit |-> core.unit, a |-> core.a, b |-> core.b,
                 left |-> 0, stalls |-> 0]
    BY <1>0, <1>2
  <2>2. 0 \in 0 .. 7 /\ 0 \in 0 .. MaxStalls
    BY <1>0
  <2> QED BY <1>2, <2>1, <2>2
<1>3. CASE core.left > 1 /\ core' = [core EXCEPT !.left = @ - 1]
  BY <1>0, <1>3
<1>4. CASE /\ core.left > 0 /\ core.stalls < MaxStalls
           /\ core' = [core EXCEPT !.stalls = @ + 1]
  BY <1>0, <1>4
<1> QED BY <1>0, <1>1, <1>2, <1>3, <1>4 DEF CoreEdge

(* Whatever a row begins at, its elements are in the memory.               *)
LEMMA RowsInMemory ==
  ASSUME rowAddress \in [0 .. (ROWS - 1) -> 0 .. (RAM_WORDS - 1)],
         NEW r \in Nat, NEW c \in Nat, NEW base \in RowAddresses(r)
  PROVE  (base + c) % RAM_WORDS \in 0 .. (RAM_WORDS - 1)
<1>1. RAM_WORDS \in Nat \ {0} /\ ROWS \in Nat \ {0}
  BY DetAssumption DEF DetAssumption
<1>2. base \in Nat
  BY <1>1 DEF RowAddresses
<1> QED BY <1>1, <1>2, Remainder

-----------------------------------------------------------------------------
(* The types, by the part of the engine they belong to.                    *)
BusTypes ==
  /\ read \in BOOLEAN /\ startSdRead \in BOOLEAN /\ ramWriteDone \in BOOLEAN
  /\ address \in Nat /\ sdReadAddress \in Nat /\ sdReadBase \in Nat
  /\ dimension \in Index /\ ramLoadAddress \in 0 .. (RAM_WORDS - 1)
  /\ rowAddress \in [0 .. (ROWS - 1) -> 0 .. (RAM_WORDS - 1)]
PortTypes ==
  /\ ramReadAddress \in 0 .. (RAM_WORDS - 1) /\ ramReadEnable \in BOOLEAN
  /\ ramWriteAddress \in 0 .. (RAM_WORDS - 1) /\ ramWriteEnable \in BOOLEAN
  /\ ramWriteData \in Word
LuTypes ==
  /\ i \in Index /\ j \in Index /\ p \in Index
  /\ luStage \in 0 .. 17 /\ pStage \in 0 .. 7 /\ counter \in 0 .. ADDER_LATENCY
  /\ ajj \in Word /\ aij \in Word /\ aip \in Word
  /\ core \in Operation
DiagonalTypes ==
  k \in Index /\ diagonalStage \in 0 .. 4 /\ finalResult \in Word
MemoryTypes ==
  /\ ramReadData \in Word /\ ram \in [0 .. (RAM_WORDS - 1) -> Word]
  /\ result_readdata \in Word
  /\ pending \in Seq(Nat) /\ cpu \in {"free", "ci", "read", "resp"}

(* Elements of the lower factor are left of the diagonal.                  *)
LeftOfDiagonal ==
  /\ luStage \in 1 .. 11 => j < i
  /\ luStage = 0 /\ i # 0 => j < i

(* A run finds the loops where the reset leaves them.                      *)
NotStarted ==
  /\ stage \in {0, 1} /\ ~forceReset => luStage = 0 /\ j = 0
  /\ stage \in {0, 1, 2} /\ ~forceReset => diagonalStage = 0

TypeInv ==
  /\ ControlInv /\ BusTypes /\ PortTypes /\ LuTypes /\ DiagonalTypes
  /\ MemoryTypes
  /\ NotStarted
  /\ stage = 2 => LeftOfDiagonal

LEMMA TypesTogether == TypeInv => DetTypeOK
<1> SUFFICES ASSUME TypeInv PROVE DetTypeOK
  OBVIOUS
<1>1. /\ stage \in 0 .. 4 /\ forceReset \in BOOLEAN /\ irq \in BOOLEAN
      /\ \/ reply = <<>>
         \/ reply \in {<<s>> : s \in {ACCEPTED, READY, READING_SDRAM, CALCULATING,
                               WAIT_IRQ, RESULT}}
  BY DEF TypeInv, ControlInv, Codes
<1> QED BY <1>1, Zenon
           DEF TypeInv, DetTypeOK, BusTypes, PortTypes, LuTypes,
               DiagonalTypes, MemoryTypes

(* A stage fetches and stores within the memory.                           *)
LEMMA FetchTypes ==
  ASSUME BusTypes, NEW r \in Index, NEW c \in Index, Fetch(r, c)
  PROVE  ramReadAddress' \in 0 .. (RAM_WORDS - 1) /\ ramReadEnable' \in BOOLEAN
<1>1. r \in Nat /\ c \in Nat
  BY DEF Index
<1> QED BY <1>1, RowsInMemory DEF Fetch, BusTypes

LEMMA StoreTypes ==
  ASSUME BusTypes, i \in Index, j \in Index, NEW w \in Word, Store(w)
  PROVE  /\ ramWriteAddress' \in 0 .. (RAM_WORDS - 1)
         /\ ramWriteEnable' \in BOOLEAN /\ ramWriteData' \in Word
<1>1. i \in Nat /\ j \in Nat
  BY DEF Index
<1> QED BY <1>1, RowsInMemory DEF Store, WritePort, BusTypes

(* A core's operation that is loaded or goes on.                           *)
LEMMA FactorTypes ==
  ASSUME TypeInv, stage = 2, i < dimension, Factor
  PROVE  LuTypes' /\ PortTypes' /\ LeftOfDiagonal'
<1> USE DEF TypeInv
<1>0. /\ BusTypes /\ LuTypes /\ PortTypes /\ LeftOfDiagonal
      /\ ramReadData \in Word /\ dimension \in 0 .. 63
  BY DEF MemoryTypes, BusTypes, Index
<1>1. CASE StartMultiply
  <2>1. core' \in Operation
    BY <1>0, <1>1, LoadOperation
       DEF StartMultiply, LuTypes, MULTPLIER_LATENCY, ADDER_LATENCY
  <2> QED BY <1>0, <1>1, <2>1
             DEF StartMultiply, LuTypes, PortTypes, LeftOfDiagonal, PLoop,
                 MULTPLIER_LATENCY, ADDER_LATENCY, readPort, writePort
<1>2. CASE StartSubtract
  <2>1. core' \in Operation
    BY <1>0, <1>2, LoadOperation, ResultIsWord
       DEF StartSubtract, LuTypes, ADDER_LATENCY
  <2> QED BY <1>0, <1>2, <2>1
             DEF StartSubtract, LuTypes, PortTypes, LeftOfDiagonal, PLoop,
                 ADDER_LATENCY, readPort, writePort
<1>3. CASE StartDivide
  <2>1. core' \in Operation
    BY <1>0, <1>3, LoadOperation
       DEF StartDivide, LuTypes, DIVIDER_LATENCY, ADDER_LATENCY
  <2> QED BY <1>0, <1>3, <2>1
             DEF StartDivide, LuTypes, PortTypes, LeftOfDiagonal,
                 DIVIDER_LATENCY, ADDER_LATENCY, readPort, writePort
<1>4. ASSUME CoreEdge,
             \/ FetchPivot \/ FetchLatency \/ ReceivePivot \/ FetchElement
             \/ ReceiveElement \/ FetchFactors \/ PWait \/ EndSubtract
             \/ EndPLoop \/ DivideWait
             \/ StoreLower \/ NextLower \/ StoreUpper \/ NextUpper
      PROVE  LuTypes' /\ PortTypes' /\ LeftOfDiagonal'
  <2>0. core' \in Operation
    BY <1>0, <1>4, EdgeOperation DEF LuTypes
  <2> USE <1>0, <2>0 DEF LuTypes, PortTypes, LeftOfDiagonal, Index,
                         ADDER_LATENCY, readPort, writePort
  <2>1. CASE FetchPivot
    <3>1. CASE i = 0
      BY <2>1, <3>1 DEF FetchPivot
    <3>2. CASE i # 0
      <4>1. Fetch(j, j) /\ luStage' = 1
        BY <2>1, <3>2 DEF FetchPivot
      <4>2. ramReadAddress' \in 0 .. (RAM_WORDS - 1) /\ ramReadEnable' \in BOOLEAN
        BY <4>1, FetchTypes
      <4> QED BY <2>1, <3>2, <4>1, <4>2 DEF FetchPivot
    <3> QED BY <3>1, <3>2
  <2>2. CASE FetchLatency
    <3>1. luStage \in {1, 5, 13} /\ luStage' = luStage + 1 /\ i' = i /\ j' = j
      BY <2>2, Zenon DEF FetchLatency
    <3>2. luStage' \in 0 .. 17 /\ LeftOfDiagonal'
      BY <3>1
    <3>3. ramReadEnable' \in BOOLEAN
      BY <2>2, Zenon DEF FetchLatency
    <3>4. UNCHANGED <<i, j, p, pStage, ajj, aij, aip, counter, ramReadAddress,
                      ramWriteAddress, ramWriteData, ramWriteEnable>>
      BY <2>2 DEF FetchLatency
    <3> QED BY <3>2, <3>3, <3>4, Zenon
  <2>3. CASE ReceivePivot
    BY <2>3 DEF ReceivePivot
  <2>4. CASE FetchElement
    <3>1. ramReadAddress' \in 0 .. (RAM_WORDS - 1) /\ ramReadEnable' \in BOOLEAN
      BY <2>4, FetchTypes DEF FetchElement
    <3> QED BY <2>4, <3>1 DEF FetchElement
  <2>5. CASE ReceiveElement
    BY <2>5 DEF ReceiveElement
  <2>6. CASE FetchFactors
    <3>1. ramReadAddress' \in 0 .. (RAM_WORDS - 1) /\ ramReadEnable' \in BOOLEAN
      BY <2>6, FetchTypes DEF FetchFactors
    <3>2. pStage' \in 0 .. 7 /\ aip' \in Word
      BY <2>6 DEF FetchFactors
    <3> QED BY <2>6, <3>1, <3>2 DEF FetchFactors
  <2>7. CASE PWait
    BY <2>7 DEF PWait, Wait
  <2>8. CASE EndSubtract
    <3>1. aij' \in Word
      BY <2>8, ResultIsWord DEF EndSubtract
    <3> QED BY <2>8, <3>1 DEF EndSubtract, PLoop
  <2>9. CASE EndPLoop
    BY <2>9 DEF EndPLoop
  <2>10. CASE DivideWait
    BY <2>10 DEF DivideWait, Wait
  <2>11. CASE StoreLower
    <3>1. PortTypes'
      BY <2>11, ResultIsWord, StoreTypes DEF StoreLower
    <3> QED BY <2>11, <3>1 DEF StoreLower
  <2>12. CASE NextLower
    BY <2>12 DEF NextLower
  <2>13. CASE StoreUpper
    <3>1. PortTypes'
      BY <2>13, StoreTypes DEF StoreUpper
    <3> QED BY <2>13, <3>1 DEF StoreUpper
  <2>14. CASE NextUpper
    <3>1. /\ luStage = 17 /\ ramWriteEnable' \in BOOLEAN
          /\ \/ j + 1 < dimension /\ j' = j + 1 /\ i' = i /\ luStage' = 12
             \/ j' = 0 /\ i' = i + 1 /\ luStage' = 0
          /\ UNCHANGED <<p, pStage, ajj, aij, aip, counter, ramReadAddress,
                         ramReadEnable, ramWriteAddress, ramWriteData>>
      BY <2>14, Zenon DEF NextUpper
    <3>2. /\ i' \in 0 .. 63 /\ j' \in 0 .. 63 /\ luStage' \in 0 .. 17
          /\ LeftOfDiagonal'
      BY <3>1
    <3> QED BY <3>1, <3>2, Zenon
  <2> QED BY <1>4, <2>1, <2>2, <2>3, <2>4, <2>5, <2>6, <2>7, <2>8, <2>9,
             <2>10, <2>11, <2>12, <2>13, <2>14
<1> QED BY <1>1, <1>2, <1>3, <1>4 DEF Factor

LEMMA FactoringTypes ==
  ASSUME TypeInv, NEW start \in BOOLEAN, Factoring(start)
  PROVE  /\ LuTypes' /\ PortTypes' /\ BusTypes' /\ DiagonalTypes'
         /\ stage' = 2 => LeftOfDiagonal'
<1>1. BusTypes' /\ DiagonalTypes'
  BY DEF Factoring, TypeInv, BusTypes, DiagonalTypes, busVars, diagonalVars
<1>2. CASE i < dimension /\ Factor /\ UNCHANGED stage
  BY <1>1, <1>2, FactorTypes DEF Factoring
<1>3. CASE /\ i >= dimension /\ stage' = 3 /\ CoreEdge
           /\ UNCHANGED <<luVars, counter, readPort, writePort>>
  <2>1. core' \in Operation
    BY <1>3, EdgeOperation DEF TypeInv, LuTypes
  <2> QED BY <1>1, <1>3, <2>1
             DEF TypeInv, LuTypes, PortTypes, luVars, readPort, writePort
<1> QED BY <1>2, <1>3 DEF Factoring

LEMMA MultiplyingTypes ==
  ASSUME TypeInv, NEW start \in BOOLEAN, Multiplying(start)
  PROVE  /\ LuTypes' /\ PortTypes' /\ BusTypes' /\ DiagonalTypes'
         /\ stage' # 2
<1> USE DEF TypeInv
<1>1. BusTypes'
  BY DEF Multiplying, BusTypes, busVars
<1>2. /\ UNCHANGED <<luVars, writePort>> /\ stage = 3
      /\ k \in 0 .. 63 /\ dimension \in 0 .. 63
  BY DEF Multiplying, BusTypes, DiagonalTypes, Index
<1>3. CASE MultiplyDiagonal
  <2>1. core' \in Operation
    BY <1>3, LoadOperation
       DEF MultiplyDiagonal, LuTypes, DiagonalTypes, MemoryTypes,
           MULTPLIER_LATENCY, ADDER_LATENCY
  <2> QED BY <1>1, <1>2, <1>3, <2>1
             DEF MultiplyDiagonal, LuTypes, PortTypes, DiagonalTypes, Index,
                 luVars, readPort, writePort, MULTPLIER_LATENCY, ADDER_LATENCY
<1>4. ASSUME CoreEdge, FetchDiagonal \/ DiagonalWait \/ NextDiagonal \/ Finish
      PROVE  /\ LuTypes' /\ PortTypes' /\ DiagonalTypes' /\ stage' # 2
  <2>0. core' \in Operation /\ k \in Index
    BY <1>4, EdgeOperation DEF LuTypes, DiagonalTypes
  <2>1. CASE FetchDiagonal
    <3>1. ramReadAddress' \in 0 .. (RAM_WORDS - 1) /\ ramReadEnable' \in BOOLEAN
      <4>1. CASE Fetch(k, k)
        BY <2>0, <4>1, FetchTypes
      <4>2. CASE ramReadEnable' = FALSE /\ UNCHANGED ramReadAddress
        BY <4>2, Zenon DEF PortTypes
      <4> QED BY <2>1, <4>1, <4>2 DEF FetchDiagonal
    <3>2. diagonalStage' \in 0 .. 4
      BY <2>1 DEF FetchDiagonal
    <3>3. UNCHANGED <<k, counter, finalResult, stage>>
      BY <2>1 DEF FetchDiagonal
    <3> QED BY <1>2, <2>0, <3>1, <3>2, <3>3
               DEF LuTypes, PortTypes, DiagonalTypes, luVars, writePort
  <2>2. CASE DiagonalWait
    BY <1>2, <2>0, <2>2
       DEF DiagonalWait, Wait, LuTypes, PortTypes, DiagonalTypes, luVars,
           readPort, writePort, ADDER_LATENCY
  <2>3. CASE NextDiagonal
    <3>1. finalResult' \in Word
      BY <2>3, ResultIsWord DEF NextDiagonal, LuTypes
    <3> QED BY <1>2, <2>0, <2>3, <3>1
               DEF NextDiagonal, LuTypes, PortTypes, DiagonalTypes, Index,
                   luVars, readPort, writePort
  <2>4. CASE Finish
    BY <1>2, <2>0, <2>4
       DEF Finish, LuTypes, PortTypes, DiagonalTypes, luVars, diagonalVars,
           readPort, writePort
  <2> QED BY <1>4, <2>1, <2>2, <2>3, <2>4
<1> QED BY <1>1, <1>3, <1>4 DEF Multiplying

LEMMA ReadingTypes ==
  ASSUME TypeInv, NEW start \in BOOLEAN, NEW waitrequest \in BOOLEAN,
         NEW readdatavalid \in BOOLEAN, NEW readdata \in Word,
         Reading(start, waitrequest, readdatavalid, readdata)
  PROVE  /\ LuTypes' /\ PortTypes' /\ BusTypes' /\ DiagonalTypes'
         /\ stage' = 2 => LeftOfDiagonal'
<1> USE DEF TypeInv
<1>0. /\ RAM_WORDS \in Nat \ {0} /\ AddressSpace \in Nat \ {0}
      /\ 0 \in 0 .. (RAM_WORDS - 1) /\ ROWS \in Nat \ {0} /\ 0 \in Word
  BY DetAssumption, PrimeAssumption DEF DetAssumption, Word, Number
<1>1. DiagonalTypes'
  BY DEF Reading, DiagonalTypes, diagonalVars
<1>2. /\ read' \in BOOLEAN /\ address' \in Nat /\ sdReadAddress' \in Nat
      /\ sdReadBase' \in Nat /\ startSdRead' \in BOOLEAN
  <2>1. Request(waitrequest)
    BY DEF Reading
  <2>2. (sdReadAddress + 1) % AddressSpace \in Nat
    BY <1>0, Remainder DEF BusTypes
  <2>3. read' \in BOOLEAN /\ startSdRead' \in BOOLEAN
    BY <2>1, Zenon DEF Request, BusTypes
  <2>4. /\ UNCHANGED sdReadBase
        /\ \/ address' = sdReadAddress /\ UNCHANGED sdReadAddress
           \/ /\ sdReadAddress' = (sdReadAddress + 1) % AddressSpace
              /\ address' = sdReadAddress'
           \/ UNCHANGED <<address, sdReadAddress>>
    BY <2>1, Zenon DEF Request
  <2> QED BY <2>2, <2>3, <2>4 DEF BusTypes
<1>3. /\ ramLoadAddress' \in 0 .. (RAM_WORDS - 1) /\ ramWriteDone' \in BOOLEAN
      /\ ramWriteAddress' \in 0 .. (RAM_WORDS - 1) /\ ramWriteEnable' \in BOOLEAN
      /\ ramWriteData' \in Word
  <2>1. (ramLoadAddress + 1) % RAM_WORDS \in 0 .. (RAM_WORDS - 1)
    BY <1>0, Remainder DEF BusTypes
  <2>2. Receive(readdatavalid, readdata)
    BY DEF Reading
  <2>3. ramLoadAddress' \in 0 .. (RAM_WORDS - 1)
    BY <2>1, <2>2, Zenon DEF Receive, BusTypes
  <2>4. ramWriteDone' \in BOOLEAN
    BY <2>2, Zenon DEF Receive
  <2>5. \/ WritePort(0, 0, FALSE)
        \/ WritePort(ramLoadAddress, readdata, TRUE)
        \/ WritePort(ramWriteAddress, ramWriteData,
                     ramWriteEnable /\ readdatavalid)
    BY <2>2, Zenon DEF Receive
  <2>6. ramWriteEnable' \in BOOLEAN
    BY <2>5, Zenon DEF WritePort
  <2>7. ramWriteAddress' \in 0 .. (RAM_WORDS - 1) /\ ramWriteData' \in Word
    BY <1>0, <2>5, Zenon DEF WritePort, PortTypes, BusTypes
  <2> QED BY <2>3, <2>4, <2>6, <2>7
<1>4. /\ rowAddress' \in [0 .. (ROWS - 1) -> 0 .. (RAM_WORDS - 1)]
      /\ i' \in Index /\ ramReadAddress' \in 0 .. (RAM_WORDS - 1)
      /\ ramReadEnable' \in BOOLEAN /\ stage' \in {1, 2}
  <2>1. PrepareRows /\ stage = 1
    BY DEF Reading
  <2>2. i \in 0 .. 63 /\ dimension \in 0 .. 63
    BY DEF LuTypes, BusTypes, Index
  <2>3. CASE /\ i < dimension
             /\ rowAddress' = [r \in 0 .. (ROWS - 1) |->
                                 IF r = i THEN (i * dimension) % RAM_WORDS
                                 ELSE rowAddress[r]]
             /\ i' = i + 1
             /\ UNCHANGED <<stage, readPort>>
    <3>1. i * dimension \in Int
      BY <2>2
    <3>2. (i * dimension) % RAM_WORDS \in 0 .. (RAM_WORDS - 1)
      BY <1>0, <3>1, Remainder
    <3>3. rowAddress' \in [0 .. (ROWS - 1) -> 0 .. (RAM_WORDS - 1)]
      BY <2>3, <3>2 DEF BusTypes
    <3>4. i' \in Index
      BY <2>2, <2>3 DEF Index
    <3> QED BY <2>1, <2>3, <3>3, <3>4 DEF readPort, PortTypes
  <2>4. CASE /\ StartsCalculating
             /\ stage' = 2 /\ i' = 0
             /\ ramReadAddress' = 0 /\ ramReadEnable' = FALSE
             /\ UNCHANGED rowAddress
    <3>1. 0 \in Index
      BY DEF Index
    <3>2. ramReadEnable' \in BOOLEAN
      BY <2>4, Zenon
    <3> QED BY <1>0, <2>4, <3>1, <3>2, Zenon DEF BusTypes
  <2>5. CASE UNCHANGED <<stage, rowAddress, i, readPort>>
    BY <2>1, <2>5 DEF BusTypes, LuTypes, PortTypes, readPort
  <2> QED BY <2>1, <2>3, <2>4, <2>5 DEF PrepareRows
<1>5. LuTypes' /\ PortTypes' /\ BusTypes'
  BY <1>2, <1>3, <1>4, Zenon DEF Reading, LuTypes, PortTypes, BusTypes
<1>6. luStage' = 0 /\ j' = 0
  BY DEF Reading, NotStarted
<1> QED BY <1>1, <1>5, <1>6, SMT DEF LeftOfDiagonal, LuTypes, Index

(* The memory, the SDRAM and the CPU.                                      *)
LEMMA MemoryStep ==
  ASSUME TypeInv,
         NEW start \in BOOLEAN, NEW datab, NEW result_read \in BOOLEAN,
         NEW waitrequest \in BOOLEAN, NEW readdatavalid \in BOOLEAN,
         NEW readdata,
         Clock(start, datab, result_read, waitrequest, readdatavalid, readdata)
  PROVE  MemoryTypes'
<1> USE DEF TypeInv
<1>0. Undefined \in Word
  BY DEF Word
<1>1. cpu' \in {"free", "ci", "read", "resp"}
  BY Zenon DEF Clock, Port
<1>2. result_readdata' \in Word
  BY <1>0, Zenon DEF Clock, SlaveRead, MemoryTypes, DiagonalTypes
<1>3. pending' \in Seq(Nat)
  <2>1. Sdram(waitrequest, readdatavalid, readdata)
    BY DEF Clock
  <2>2. (IF readdatavalid THEN Tail(pending) ELSE pending) \in Seq(Nat)
    BY <2>1 DEF Sdram, MemoryTypes
  <2>3. (IF read /\ ~waitrequest THEN <<address>> ELSE <<>>) \in Seq(Nat)
    BY DEF BusTypes
  <2> QED BY <2>1, <2>2, <2>3 DEF Sdram
<1>4. ram' \in [0 .. (RAM_WORDS - 1) -> Word] /\ ramReadData' \in Word
  <2>1. Ram
    BY DEF Clock
  <2>2. Blank \in [0 .. (RAM_WORDS - 1) -> Word]
    BY <1>0 DEF Blank
  <2>3. [ram EXCEPT ![ramWriteAddress] = ramWriteData]
          \in [0 .. (RAM_WORDS - 1) -> Word]
    BY DEF MemoryTypes, PortTypes
  <2>4. ram[ramReadAddress] \in Word
    BY DEF MemoryTypes, PortTypes
  <2> QED BY <1>0, <2>1, <2>2, <2>3, <2>4, Zenon DEF Ram, MemoryTypes
<1> QED BY <1>1, <1>2, <1>3, <1>4 DEF MemoryTypes

(* Resets and starts put every register where its type allows.             *)
LEMMA OtherTypes ==
  ASSUME TypeInv, NEW start \in BOOLEAN, NEW datab \in Dimensions \cup {0},
         NEW result_read \in BOOLEAN,
         \/ Reset \/ Accept(start, datab) \/ Idle(start, datab)
         \/ WaitForIrq(start, result_read)
  PROVE  /\ LuTypes' /\ PortTypes' /\ BusTypes' /\ DiagonalTypes'
         /\ stage' # 2
<1> USE DEF TypeInv
<1>0. /\ 0 \in 0 .. (RAM_WORDS - 1) /\ 0 \in Word /\ 1 \in Word
      /\ Undefined \in Word /\ 0 \in Index /\ 16 \in Index /\ 0 \in Nat
      /\ NoOperation \in Operation
      /\ FALSE \in BOOLEAN
  <2>1. 0 \in 0 .. (RAM_WORDS - 1)
    <3>1. RAM_WORDS \in Nat \ {0}
      BY DetAssumption DEF DetAssumption
    <3> QED BY <3>1
  <2>2. 0 \in Word /\ 1 \in Word /\ Undefined \in Word
    BY PrimeAssumption DEF Word, Number
  <2>3. NoOperation \in Operation
    BY <2>2, DetAssumption DEF DetAssumption, NoOperation, Operation, ADDER_LATENCY
  <2> QED BY <2>1, <2>2, <2>3 DEF Index
<1>1. CASE Reset
  <2>1. core' \in Operation /\ luStage' \in 0 .. 17 /\ diagonalStage' \in 0 .. 4
        /\ stage' # 2
    BY <1>0, <1>1 DEF Reset
  <2>2. LuTypes'
    BY <1>0, <1>1, <2>1, Zenon DEF Reset, LuTypes
  <2>3. PortTypes'
    BY <1>0, <1>1, Zenon DEF Reset, PortTypes
  <2>4. BusTypes'
    BY <1>0, <1>1, Zenon DEF Reset, BusTypes, DEFAULT_DIMENSION
  <2>5. DiagonalTypes'
    BY <1>0, <1>1, <2>1, Zenon DEF Reset, DiagonalTypes
  <2> QED BY <2>1, <2>2, <2>3, <2>4, <2>5
<1>2. CASE Accept(start, datab)
  <2>1. datab \in Index /\ Base \in Nat
    BY DetAssumption DEF DetAssumption, Index
  <2>2. /\ UNCHANGED <<calcVars, core, read, address, rowAddress>> /\ stage' # 2
        /\ sdReadAddress' = Base /\ sdReadBase' = Base /\ dimension' = datab
        /\ ramLoadAddress' = 0 /\ startSdRead' \in BOOLEAN
        /\ ramWriteDone' \in BOOLEAN
    <3>1. startSdRead' \in BOOLEAN /\ ramWriteDone' \in BOOLEAN
      BY <1>2, Zenon DEF Accept
    <3>2. stage' = 1
      BY <1>2, Zenon DEF Accept
    <3> QED BY <1>2, <3>1, <3>2 DEF Accept
  <2>3. LuTypes' /\ DiagonalTypes' /\ PortTypes'
    BY <2>2 DEF calcVars, luVars, diagonalVars, readPort, writePort, LuTypes,
                DiagonalTypes, PortTypes
  <2>4. BusTypes'
    BY <1>0, <2>1, <2>2, Zenon DEF BusTypes
  <2> QED BY <2>2, <2>3, <2>4
<1>3. CASE Idle(start, datab) \/ WaitForIrq(start, result_read)
  <2>1. UNCHANGED <<busVars, calcVars>> /\ stage' # 2
    BY <1>3 DEF Idle, WaitForIrq
  <2>2. core' \in Operation
    BY <1>3, EdgeOperation DEF Idle, WaitForIrq, LuTypes
  <2> QED BY <2>1, <2>2 DEF busVars, calcVars, luVars, diagonalVars, readPort,
             writePort, LuTypes, DiagonalTypes, PortTypes, BusTypes
<1> QED BY <1>1, <1>2, <1>3

LEMMA LoopsReset ==
  ASSUME TypeInv, NEW start \in BOOLEAN, NEW datab \in Dimensions \cup {0},
         NEW result_read \in BOOLEAN,
         NEW waitrequest \in BOOLEAN, NEW readdatavalid \in BOOLEAN,
         NEW readdata,
         Clock(start, datab, result_read, waitrequest, readdatavalid, readdata)
  PROVE  NotStarted'
<1> USE DEF TypeInv
<1>1. CASE Reset
  BY <1>1 DEF Reset, NotStarted
<1>2. CASE Accept(start, datab)
  BY <1>2, SMT
     DEF Accept, NotStarted, calcVars, luVars, diagonalVars
<1>3. CASE Idle(start, datab)
  BY <1>3, SMT DEF Idle, NotStarted, calcVars, luVars, diagonalVars
<1>4. CASE Reading(start, waitrequest, readdatavalid, readdata)
  <2>1. /\ stage = 1 /\ ~forceReset
        /\ UNCHANGED <<j, luStage, diagonalVars, forceReset>>
    BY <1>4 DEF Reading
  <2> QED BY <2>1 DEF NotStarted, diagonalVars
<1>5. CASE Factoring(start)
  <2>1. stage = 2 /\ ~forceReset /\ UNCHANGED diagonalVars
        /\ stage' \in {2, 3}
    BY <1>5 DEF Factoring
  <2> QED BY <2>1 DEF NotStarted, diagonalVars
<1>6. CASE Multiplying(start)
  <2>1. stage' \in {3, 4}
    BY <1>6 DEF Multiplying, MultiplyDiagonal, FetchDiagonal, DiagonalWait,
                NextDiagonal, Finish
  <2> QED BY <2>1 DEF NotStarted
<1>7. CASE WaitForIrq(start, result_read)
  BY <1>7, SMT DEF WaitForIrq, NotStarted
<1> QED BY <1>1, <1>2, <1>3, <1>4, <1>5, <1>6, <1>7 DEF Clock

LEMMA TypeStep ==
  ASSUME TypeInv,
         NEW start \in BOOLEAN, NEW datab \in Dimensions \cup {0},
         NEW result_read \in BOOLEAN,
         NEW waitrequest \in BOOLEAN, NEW readdatavalid \in BOOLEAN,
         NEW readdata \in Word,
         Clock(start, datab, result_read, waitrequest, readdatavalid, readdata)
  PROVE  TypeInv'
<1>1. ControlInv'
  BY CycleControl, CycleNumbers, ControlKept DEF TypeInv
<1>2. MemoryTypes' /\ NotStarted'
  BY MemoryStep, LoopsReset
<1>3. /\ LuTypes' /\ PortTypes' /\ BusTypes' /\ DiagonalTypes'
      /\ stage' = 2 => LeftOfDiagonal'
  BY OtherTypes, ReadingTypes, FactoringTypes, MultiplyingTypes, Zenon
     DEF Clock
<1> QED BY <1>1, <1>2, <1>3, Zenon DEF TypeInv

LEMMA TypeUnchanged == TypeInv /\ UNCHANGED vars => TypeInv'
<1> SUFFICES ASSUME TypeInv, UNCHANGED vars PROVE TypeInv'
  OBVIOUS
<1>1. ControlInv'
  BY DEF TypeInv, ControlInv, vars, busVars, calcVars, diagonalVars
<1>2. BusTypes' /\ PortTypes' /\ DiagonalTypes'
  BY DEF TypeInv, BusTypes, PortTypes, DiagonalTypes, vars, busVars,
         calcVars, diagonalVars, readPort, writePort
<1>3. LuTypes' /\ MemoryTypes'
  BY DEF TypeInv, LuTypes, MemoryTypes, vars, calcVars, luVars
<1>4. NotStarted' /\ (stage' = 2 => LeftOfDiagonal')
  BY DEF TypeInv, NotStarted, LeftOfDiagonal, vars, calcVars, luVars,
         diagonalVars
<1> QED BY <1>1, <1>2, <1>3, <1>4 DEF TypeInv

LEMMA TypeInit == Init => TypeInv
<1> SUFFICES ASSUME Init PROVE TypeInv
  OBVIOUS
<1>1. ControlInv
  BY ControlInit
<1>0. /\ 0 \in 0 .. (RAM_WORDS - 1) /\ 0 \in Word /\ 1 \in Word
      /\ Undefined \in Word /\ 0 \in Index /\ 16 \in Index /\ 0 \in Nat
      /\ NoOperation \in Operation /\ 0 \in 0 .. ADDER_LATENCY
      /\ FALSE \in BOOLEAN /\ 0 \in 0 .. 17 /\ 0 \in 0 .. 7 /\ 0 \in 0 .. 4
  <2>1. 0 \in 0 .. (RAM_WORDS - 1)
    <3>1. RAM_WORDS \in Nat \ {0}
      BY DetAssumption DEF DetAssumption
    <3> QED BY <3>1
  <2>2. 0 \in Word /\ 1 \in Word /\ Undefined \in Word
    BY PrimeAssumption DEF Word, Number
  <2>3. NoOperation \in Operation
    BY <2>2, DetAssumption DEF DetAssumption, NoOperation, Operation, ADDER_LATENCY
  <2> QED BY <2>1, <2>2, <2>3 DEF Index, ADDER_LATENCY
<1>2. BusTypes
  <2>1. rowAddress \in [0 .. (ROWS - 1) -> 0 .. (RAM_WORDS - 1)]
    BY <1>0 DEF Init
  <2> QED BY <1>0, <2>1, Zenon DEF Init, BusTypes, DEFAULT_DIMENSION
<1>3. PortTypes /\ LuTypes /\ DiagonalTypes
  BY <1>0, Zenon DEF Init, PortTypes, LuTypes, DiagonalTypes
<1>4. MemoryTypes
  <2>1. Blank \in [0 .. (RAM_WORDS - 1) -> Word]
    BY <1>0 DEF Blank
  <2>2. pending \in Seq(Nat)
    BY DEF Init
  <2>3. cpu \in {"free", "ci", "read", "resp"}
    BY DEF Init
  <2> QED BY <1>0, <2>1, <2>2, <2>3, Zenon DEF Init, MemoryTypes
<1>5. NotStarted /\ (stage = 2 => LeftOfDiagonal)
  BY DEF Init, NotStarted
<1> QED BY <1>1, <1>2, <1>3, <1>4, <1>5 DEF TypeInv

-----------------------------------------------------------------------------
(* A cycle, with the types of its inputs.                                  *)
LEMMA CycleOfNext ==
  ASSUME Next
  PROVE  \E start, result_read, waitrequest, readdatavalid \in BOOLEAN,
            datab \in Dimensions \cup {0}, readdata \in Word :
           Clock(start, datab, result_read, waitrequest, readdatavalid,
                 readdata)
<1>1. Entries \subseteq Word /\ Undefined \in Word
  BY DetAssumption DEF DetAssumption, Word
<1> QED BY <1>1, ZenonT(30) DEF Next

-----------------------------------------------------------------------------
(* An instruction is not started while a reset is due, which takes no      *)
(* notice of it: the CPU is still loading the result.                      *)
AnswerInv ==
  /\ InstructionsAnswered
  /\ forceReset => cpu \in {"read", "resp"}

LEMMA AnswerStep ==
  ASSUME TypeInv, AnswerInv,
         NEW start \in BOOLEAN, NEW datab \in Dimensions \cup {0},
         NEW result_read \in BOOLEAN,
         NEW waitrequest \in BOOLEAN, NEW readdatavalid \in BOOLEAN,
         NEW readdata,
         Clock(start, datab, result_read, waitrequest, readdatavalid, readdata)
  PROVE  AnswerInv'
<1>1. start => cpu = "free" /\ ~forceReset
  BY Zenon DEF Clock, Port, AnswerInv
<1>2. cpu' = "ci" => start
  BY DEF Clock, Port, AnswerInv, InstructionsAnswered
<1>3. start => reply' # <<>>
  <2>1. \A s : <<s>> # <<>>
    OBVIOUS
  <2>2. \A s : start /\ Answer(start, s) => reply' # <<>>
    BY <2>1, Zenon DEF Answer
  <2> QED BY <1>1, <2>1, <2>2, Zenon
             DEF Clock, Reset, Accept, Idle, Reading, Factoring,
                 Multiplying, WaitForIrq
<1>4. forceReset' => WaitForIrq(start, result_read) /\ result_read
  <2>1. CASE Reset \/ Accept(start, datab) \/ Idle(start, datab)
             \/ Reading(start, waitrequest, readdatavalid, readdata)
             \/ Factoring(start) \/ Multiplying(start)
    BY <2>1, Zenon DEF Reset, Accept, Idle, Reading, Factoring, Multiplying
  <2>2. CASE WaitForIrq(start, result_read)
    BY <2>2, Zenon DEF WaitForIrq
  <2> QED BY <2>1, <2>2, Zenon DEF Clock
<1>5. result_read => cpu' \in {"read", "resp"}
  BY DEF Clock, Port
<1> QED BY <1>2, <1>3, <1>4, <1>5 DEF AnswerInv, InstructionsAnswered

-----------------------------------------------------------------------------
(* While the engine waits for a core, the core has as many cycles left as  *)
(* the counter counts, and those it stood still: after the last, one more  *)
(* cycle passes before the result is taken.  diagonalStage waits one cycle *)
(* longer.                                                                 *)
Awaits(unit) == core.unit = unit /\ core.left = counter + core.stalls
AwaitsLonger(unit) ==
  /\ core.unit = unit
  /\ IF core.left > 0 THEN counter = core.left + 1 - core.stalls
     ELSE counter <= 1
LuWaits ==
  /\ luStage \in {7, 15} =>
       /\ pStage = 4 => Awaits("mul")
       /\ pStage = 5 => Taken("mul")
       /\ pStage = 6 => Awaits("addsub")
       /\ pStage = 7 => Taken("addsub")
  /\ luStage = 9 => Awaits("div")
  /\ luStage = 10 => Taken("div")
DiagonalWaits ==
  /\ diagonalStage = 3 => AwaitsLonger("mul")
  /\ diagonalStage = 4 => Taken("mul")
CoreInv ==
  /\ stage = 2 => LuWaits
  /\ stage = 3 => DiagonalWaits

(* The engine can make up for one cycle in which the cores stand still.    *)
OneStall == MaxStalls <= 1

LEMMA AwaitsStep ==
  ASSUME OneStall, core \in Operation, counter \in 0 .. ADDER_LATENCY,
         NEW unit, CoreEdge, Awaits(unit)
  PROVE  /\ counter > 0 /\ counter' = counter - 1 => Awaits(unit)'
         /\ ~(counter > 0) => Taken(unit)'
<1>1. /\ core.left \in Nat /\ core.stalls \in Nat /\ counter \in Nat
      /\ MaxStalls \in Nat /\ core.stalls <= MaxStalls
  BY DetAssumption DEF DetAssumption, Operation, ADDER_LATENCY
<1>2. core.stalls <= 1
  BY <1>1 DEF OneStall
<1> QED BY <1>1, <1>2, EdgeOperation DEF Awaits, Taken, OneStall

LEMMA AwaitsLongerStep ==
  ASSUME OneStall, core \in Operation, counter \in 0 .. ADDER_LATENCY,
         NEW unit, CoreEdge, AwaitsLonger(unit)
  PROVE  /\ counter > 0 /\ counter' = counter - 1 => AwaitsLonger(unit)'
         /\ ~(counter > 0) => Taken(unit)'
<1>1. /\ core.left \in Nat /\ core.stalls \in Nat /\ counter \in Nat
      /\ MaxStalls \in Nat /\ core.stalls <= MaxStalls
  BY DetAssumption DEF DetAssumption, Operation, ADDER_LATENCY
<1>2. core.stalls <= 1
  BY <1>1 DEF OneStall
<1> QED BY <1>1, <1>2, EdgeOperation DEF AwaitsLonger, Taken, OneStall

LEMMA LuWaitsStep ==
  ASSUME OneStall, TypeInv, LuWaits, Factor
  PROVE  LuWaits'
<1>0. /\ core \in Operation /\ counter \in 0 .. ADDER_LATENCY
      /\ luStage \in 0 .. 17 /\ pStage \in 0 .. 7
  BY DEF TypeInv, LuTypes
<1>1. CASE StartMultiply
  BY <1>1 DEF StartMultiply, Load, PLoop, LuWaits, Awaits, MULTPLIER_LATENCY
<1>2. CASE StartSubtract
  BY <1>2 DEF StartSubtract, Load, PLoop, LuWaits, Awaits, ADDER_LATENCY
<1>3. CASE StartDivide
  BY <1>3 DEF StartDivide, Load, LuWaits, Awaits, DIVIDER_LATENCY
<1>4. ASSUME CoreEdge PROVE PWait => LuWaits'
  <2> SUFFICES ASSUME PWait PROVE LuWaits'
    OBVIOUS
  <2>1. luStage \in {7, 15} /\ luStage' = luStage
    BY DEF PWait, PLoop
  <2>a. (pStage = 4 /\ Awaits("mul")) \/ (pStage = 6 /\ Awaits("addsub"))
    <3>1. pStage = 4 \/ pStage = 6
      BY DEF PWait
    <3> QED BY <2>1, <3>1 DEF LuWaits
  <2>2. CASE counter > 0 /\ counter' = counter - 1 /\ pStage' = pStage
    <3>1. \/ pStage' = 4 /\ Awaits("mul")'
          \/ pStage' = 6 /\ Awaits("addsub")'
      BY <1>0, <1>4, <2>a, <2>2, AwaitsStep
    <3> QED BY <2>1, <3>1, SMT DEF LuWaits
  <2>3. CASE ~(counter > 0) /\ pStage' = pStage + 1
    <3>1. \/ pStage' = 5 /\ Taken("mul")'
          \/ pStage' = 7 /\ Taken("addsub")'
      BY <1>0, <1>4, <2>a, <2>3, AwaitsStep
    <3> QED BY <2>1, <3>1, SMT DEF LuWaits
  <2> QED BY <2>2, <2>3 DEF PWait, Wait
<1>5. ASSUME CoreEdge PROVE DivideWait => LuWaits'
  <2> SUFFICES ASSUME DivideWait PROVE LuWaits'
    OBVIOUS
  <2>1. luStage = 9 /\ Awaits("div")
    BY DEF DivideWait, LuWaits
  <2>2. \/ luStage' = 9 /\ Awaits("div")'
        \/ luStage' = 10 /\ Taken("div")'
    BY <1>0, <1>5, <2>1, AwaitsStep DEF DivideWait, Wait
  <2> QED BY <2>2, SMT DEF LuWaits
<1>6. CASE \/ FetchPivot \/ FetchLatency \/ ReceivePivot \/ FetchElement
           \/ EndPLoop \/ StoreLower \/ NextLower \/ StoreUpper \/ NextUpper
  <2>1. luStage' \notin {7, 9, 10, 15}
    BY <1>6, SMT
       DEF FetchPivot, FetchLatency, ReceivePivot, FetchElement, EndPLoop,
           StoreLower, NextLower, StoreUpper, NextUpper
  <2> QED BY <2>1 DEF LuWaits
<1>7. CASE ReceiveElement \/ FetchFactors \/ EndSubtract
  <2>1. luStage' \in {7, 15} /\ pStage' \in 0 .. 3
    BY <1>7, SMT DEF ReceiveElement, FetchFactors, EndSubtract, PLoop
  <2> QED BY <2>1 DEF LuWaits
<1> QED BY <1>1, <1>2, <1>3, <1>4, <1>5, <1>6, <1>7, Zenon DEF Factor

LEMMA DiagonalWaitsStep ==
  ASSUME OneStall, TypeInv, DiagonalWaits, NEW start, Multiplying(start)
  PROVE  stage' = 3 => DiagonalWaits'
<1>0. core \in Operation /\ counter \in 0 .. ADDER_LATENCY
  BY DEF TypeInv, LuTypes
<1>1. CASE MultiplyDiagonal
  <2>1. /\ core'.unit = "mul" /\ core'.left = 5 /\ core'.stalls = 0
        /\ counter' = 6 /\ diagonalStage' = 3
    BY <1>1 DEF MultiplyDiagonal, Load, MULTPLIER_LATENCY
  <2> QED BY <2>1 DEF DiagonalWaits, AwaitsLonger
<1>2. ASSUME CoreEdge, DiagonalWait PROVE DiagonalWaits'
  <2>1. AwaitsLonger("mul")
    BY <1>2 DEF DiagonalWait, DiagonalWaits
  <2>2. \/ diagonalStage' = 3 /\ AwaitsLonger("mul")'
        \/ diagonalStage' = 4 /\ Taken("mul")'
    BY <1>0, <1>2, <2>1, AwaitsLongerStep DEF DiagonalWait, Wait
  <2> QED BY <2>2, SMT DEF DiagonalWaits
<1>3. CASE FetchDiagonal \/ NextDiagonal
  <2>1. diagonalStage' \in {0, 1, 2}
    BY <1>3 DEF FetchDiagonal, NextDiagonal
  <2> QED BY <2>1 DEF DiagonalWaits
<1>4. CASE Finish
  BY <1>4 DEF Finish
<1> QED BY <1>1, <1>2, <1>3, <1>4 DEF Multiplying

LEMMA CoreStep ==
  ASSUME OneStall, TypeInv, CoreInv,
         NEW start \in BOOLEAN, NEW datab \in Dimensions \cup {0},
         NEW result_read \in BOOLEAN,
         NEW waitrequest \in BOOLEAN, NEW readdatavalid \in BOOLEAN,
         NEW readdata,
         Clock(start, datab, result_read, waitrequest, readdatavalid, readdata)
  PROVE  CoreInv'
<1>1. CASE \/ Reset \/ Accept(start, datab) \/ Idle(start, datab)
           \/ WaitForIrq(start, result_read)
  <2>1. stage' \notin {2, 3}
    BY <1>1, SMT DEF Reset, Accept, Idle, WaitForIrq
  <2> QED BY <2>1 DEF CoreInv
<1>2. CASE Reading(start, waitrequest, readdatavalid, readdata)
  <2>1. luStage' = 0 /\ stage' \in {1, 2}
    BY <1>2 DEF Reading, PrepareRows, TypeInv, NotStarted
  <2> QED BY <2>1 DEF CoreInv, LuWaits
<1>3. CASE Factoring(start)
  <2>1. CASE Factor /\ UNCHANGED stage
    BY <1>3, <2>1, LuWaitsStep DEF CoreInv, Factoring
  <2>2. CASE stage' = 3
    <3>1. diagonalStage' = 0
      BY <1>3 DEF Factoring, diagonalVars, TypeInv, NotStarted
    <3> QED BY <2>2, <3>1 DEF CoreInv, DiagonalWaits
  <2> QED BY <1>3, <2>1, <2>2 DEF Factoring
<1>4. CASE Multiplying(start)
  <2>1. stage = 3 /\ stage' # 2
    BY <1>4, MultiplyingTypes DEF Multiplying
  <2> QED BY <1>4, <2>1, DiagonalWaitsStep DEF CoreInv
<1> QED BY <1>1, <1>2, <1>3, <1>4 DEF Clock

-----------------------------------------------------------------------------
(* The matrices fit: rowAddress has an entry for every row, the memory a   *)
(* word for every element, and the element's addresses do not run around   *)
(* the end of the SDRAM.                                                   *)
MatricesFit ==
  \A d \in Dimensions :
    d <= ROWS /\ d * d <= RAM_WORDS /\ Base + d * d < AddressSpace

Words == dimension * dimension

(* How many words have come.                                               *)
Answered == IF ramWriteDone THEN Words ELSE ramLoadAddress

(* The numbers first, first + 1, ... in this order.                        *)
Consecutive(q, first) == \A n \in 1 .. Len(q) : q[n] = first + n - 1

LEMMA ConsecutiveQueue ==
  ASSUME NEW q \in Seq(Nat), NEW first \in Nat, Consecutive(q, first)
  PROVE  /\ q # <<>> => /\ Head(q) = first /\ Len(Tail(q)) = Len(q) - 1
                        /\ Consecutive(Tail(q), first + 1)
         /\ Consecutive(q \o <<first + Len(q)>>, first)
         /\ Len(q \o <<first + Len(q)>>) = Len(q) + 1
<1>1. ASSUME q # <<>>
      PROVE  /\ Head(q) = first /\ Len(Tail(q)) = Len(q) - 1
             /\ Consecutive(Tail(q), first + 1)
  <2>1. Len(q) \in Nat \ {0} /\ Len(Tail(q)) = Len(q) - 1 /\ Head(q) = q[1]
    BY <1>1
  <2>2. q[1] = first
    BY <2>1 DEF Consecutive
  <2>3. \A n \in 1 .. Len(Tail(q)) : Tail(q)[n] = q[n + 1]
    BY <1>1, <2>1
  <2>4. \A n \in 1 .. Len(Tail(q)) : Tail(q)[n] = first + 1 + n - 1
    BY <2>1, <2>3 DEF Consecutive
  <2> QED BY <2>1, <2>2, <2>4 DEF Consecutive
<1>2. LET e == q \o <<first + Len(q)>>
      IN  Len(e) = Len(q) + 1 /\ \A n \in 1 .. Len(e) : e[n] = first + n - 1
  <2> DEFINE next == first + Len(q)
             e == q \o <<next>>
  <2>1. next \in Nat
    OBVIOUS
  <2> HIDE DEF next
  <2>2. /\ Len(e) = Len(q) + 1 /\ e[Len(q) + 1] = next
        /\ \A n \in 1 .. Len(q) : e[n] = q[n]
    BY <2>1
  <2> HIDE DEF e
  <2>3. \A n \in 1 .. Len(e) : e[n] = first + n - 1
    BY <2>2 DEF Consecutive, next
  <2> QED BY <2>2, <2>3 DEF e, next
<1> QED BY <1>1, <1>2 DEF Consecutive

(* A number below the modulus is its own remainder.                        *)
LEMMA Fits ==
  ASSUME NEW n \in Nat, NEW m \in Nat, n < m
  PROVE  n % m = n
OBVIOUS

-----------------------------------------------------------------------------
(* Requests, answers and the write port of the memory count the same       *)
(* words.                                                                  *)
BusReading ==
  /\ sdReadBase = Base
  /\ sdReadAddress >= sdReadBase /\ sdReadAddress <= ReadEnd
  /\ read <=> (~startSdRead /\ sdReadAddress # ReadEnd)
  /\ read => address = sdReadAddress
  /\ startSdRead => sdReadAddress = sdReadBase
  /\ ~ramWriteDone => ramLoadAddress < Words
  /\ Len(pending) = sdReadAddress - sdReadBase - Answered
  /\ Consecutive(pending, sdReadBase + Answered)

BusInv ==
  /\ stage # 0 => dimension \in Dimensions
  /\ DetQuiet
  /\ stage = 1 => BusReading

(* The matrix in numbers.                                                  *)
LEMMA MatrixWords ==
  ASSUME MatricesFit, dimension \in Dimensions
  PROVE  /\ dimension \in 2 .. 63 /\ dimension <= ROWS
         /\ Words \in Nat \ {0} /\ Words <= RAM_WORDS
         /\ ReadEnd = sdReadBase + Words /\ Base + Words < AddressSpace
         /\ Base \in Nat /\ AddressSpace \in Nat /\ RAM_WORDS \in Nat
<1>1. /\ dimension \in 2 .. 63
      /\ Base \in Nat /\ AddressSpace \in Nat /\ RAM_WORDS \in Nat
  BY DetAssumption DEF DetAssumption
<1>2. dimension * dimension \in Nat \ {0}
  BY <1>1
<1> QED BY <1>1, <1>2 DEF MatricesFit, Words, ReadEnd

(* What a cycle of reading receives.                                       *)
LEMMA ReadingReceives ==
  ASSUME MatricesFit, TypeInv, BusReading, dimension \in Dimensions,
         NEW start, NEW waitrequest \in BOOLEAN, NEW readdatavalid \in BOOLEAN,
         NEW readdata,
         Sdram(waitrequest, readdatavalid, readdata),
         Reading(start, waitrequest, readdatavalid, readdata)
  PROVE  /\ Answered \in 0 .. Words
         /\ readdatavalid => ~ramWriteDone /\ Answered < Words
                             /\ Head(pending) = sdReadBase + Answered
         /\ Answered' = IF readdatavalid THEN Answered + 1 ELSE Answered
         /\ ~ramWriteDone' => ramLoadAddress' < Words'
         /\ Words' = Words
<1>0. /\ Words \in Nat \ {0} /\ Words <= RAM_WORDS /\ RAM_WORDS \in Nat
      /\ ReadEnd = sdReadBase + Words
  BY MatrixWords
<1>1. /\ ramLoadAddress \in Nat /\ sdReadAddress \in Nat /\ sdReadBase \in Nat
      /\ pending \in Seq(Nat) /\ ramWriteDone \in BOOLEAN
  BY <1>0 DEF TypeInv, BusTypes, MemoryTypes
<1>2. Words' = Words
  BY DEF Reading, Words
<1>3. Answered \in 0 .. Words
  BY <1>0, <1>1 DEF Answered, BusReading
<1>4. ASSUME readdatavalid
      PROVE  /\ ~ramWriteDone /\ Answered < Words
             /\ Head(pending) = sdReadBase + Answered
  <2>1. pending # <<>> /\ Len(pending) > 0
    BY <1>1, <1>4 DEF Sdram
  <2>2. Answered < Words
    BY <1>0, <1>1, <1>3, <2>1 DEF BusReading
  <2>3. ~ramWriteDone
    BY <1>0, <2>2 DEF Answered
  <2>4. Head(pending) = sdReadBase + Answered
    <3>1. sdReadBase + Answered \in Nat
      BY <1>1, <1>3
    <3> QED BY <1>1, <2>1, <3>1, ConsecutiveQueue DEF BusReading
  <2> QED BY <2>2, <2>3, <2>4
<1>5. Receive(readdatavalid, readdata)
  BY DEF Reading
<1>6. CASE readdatavalid
  <2>1. ~ramWriteDone /\ Answered = ramLoadAddress /\ ramLoadAddress < Words
    BY <1>4, <1>6 DEF Answered
  <2>2. /\ ramLoadAddress' = (ramLoadAddress + 1) % RAM_WORDS
        /\ ramWriteDone' <=> LastWord
    BY <1>5, <1>6, <2>1, Zenon DEF Receive
  <2>3. LastWord <=> ramLoadAddress = Words - 1
    BY DEF LastWord, Words
  <2>4. CASE LastWord
    <3>1. Answered' = Words
      BY <1>2, <2>2, <2>4 DEF Answered
    <3>2. Words = Answered + 1
      BY <1>0, <1>1, <2>1, <2>3, <2>4
    <3> QED BY <1>2, <1>3, <1>4, <1>6, <2>2, <2>4, <3>1, <3>2
  <2>5. CASE ~LastWord
    <3>1. ramLoadAddress + 1 < Words
      BY <1>0, <1>1, <2>1, <2>3, <2>5
    <3>2. ramLoadAddress' = ramLoadAddress + 1
      <4>1. ramLoadAddress + 1 \in Nat /\ ramLoadAddress + 1 < RAM_WORDS
        BY <1>0, <1>1, <3>1
      <4> QED BY <1>0, <2>2, <4>1, Fits
    <3>3. Answered' = Answered + 1
      BY <2>1, <2>2, <2>5, <3>2 DEF Answered
    <3> QED BY <1>2, <1>3, <1>4, <1>6, <3>1, <3>2, <3>3
  <2> QED BY <2>4, <2>5
<1>7. CASE ~readdatavalid
  <2>1. ramLoadAddress' = ramLoadAddress /\ (ramWriteDone' <=> ramWriteDone)
    BY <1>5, <1>7, Zenon DEF Receive
  <2>2. Answered' = Answered
    BY <1>2, <2>1, Zenon DEF Answered
  <2>3. ~ramWriteDone' => ramLoadAddress' < Words'
    BY <1>2, <2>1, SMT DEF BusReading
  <2> QED BY <1>2, <1>3, <1>7, <2>2, <2>3
<1> QED BY <1>6, <1>7

(* What it requests.                                                       *)
LEMMA ReadingRequests ==
  ASSUME MatricesFit, TypeInv, BusReading, dimension \in Dimensions,
         NEW start, NEW waitrequest \in BOOLEAN, NEW readdatavalid \in BOOLEAN,
         NEW readdata,
         Sdram(waitrequest, readdatavalid, readdata),
         Reading(start, waitrequest, readdatavalid, readdata)
  PROVE  BusReading'
<1>0. /\ Words \in Nat \ {0} /\ ReadEnd = sdReadBase + Words
      /\ Base + Words < AddressSpace /\ Base \in Nat /\ AddressSpace \in Nat
  BY MatrixWords
<1>1. /\ sdReadAddress \in Nat /\ sdReadBase \in Nat /\ sdReadBase = Base
      /\ pending \in Seq(Nat) /\ address \in Nat /\ read \in BOOLEAN
      /\ startSdRead \in BOOLEAN
  BY <1>0 DEF TypeInv, BusTypes, MemoryTypes, BusReading
<1>2. /\ Answered \in 0 .. Words
      /\ readdatavalid => Answered < Words
      /\ Answered' = IF readdatavalid THEN Answered + 1 ELSE Answered
      /\ ~ramWriteDone' => ramLoadAddress' < Words'
      /\ Words' = Words
  BY ReadingReceives
<1>3. Request(waitrequest) /\ sdReadBase' = sdReadBase /\ ReadEnd' = ReadEnd
  BY DEF Reading, Request, ReadEnd
<1> DEFINE rest == IF readdatavalid THEN Tail(pending) ELSE pending
           first == sdReadBase + Answered'
<1>4. /\ rest \in Seq(Nat) /\ first \in Nat /\ Consecutive(rest, first)
      /\ Len(rest) = sdReadAddress - sdReadBase - Answered'
      /\ Len(rest) \in Nat
  <2>1. CASE readdatavalid
    <3>1. pending # <<>>
      BY <2>1 DEF Sdram
    <3>2. sdReadBase + Answered \in Nat
      BY <1>1, <1>2
    <3>3. /\ Len(Tail(pending)) = Len(pending) - 1
          /\ Consecutive(Tail(pending), sdReadBase + Answered + 1)
      BY <1>1, <3>1, <3>2, ConsecutiveQueue DEF BusReading
    <3>4. Answered' = Answered + 1 /\ rest = Tail(pending)
      BY <1>2, <2>1
    <3>5. first = sdReadBase + Answered + 1
      BY <1>1, <1>2, <3>4
    <3>6. Tail(pending) \in Seq(Nat) /\ Len(pending) \in Nat
      BY <1>1, <3>1
    <3> HIDE DEF rest, first
    <3> QED BY <1>1, <1>2, <3>3, <3>4, <3>5, <3>6 DEF BusReading
  <2>2. CASE ~readdatavalid
    BY <1>1, <1>2, <2>2 DEF BusReading
  <2> QED BY <2>1, <2>2
<1>5. pending' = rest \o (IF read /\ ~waitrequest THEN <<address>> ELSE <<>>)
  BY DEF Sdram
<1> HIDE DEF rest, first
<1>6. first = sdReadBase' + Answered'
  BY <1>3 DEF first
<1>7. CASE read /\ ~waitrequest
  <2>1. /\ ~startSdRead /\ sdReadAddress # ReadEnd /\ address = sdReadAddress
        /\ sdReadAddress < ReadEnd
    BY <1>0, <1>1, <1>7 DEF BusReading
  <2>2. /\ sdReadAddress' = (sdReadAddress + 1) % AddressSpace
        /\ address' = sdReadAddress' /\ startSdRead' = startSdRead
        /\ read' = (sdReadAddress' # ReadEnd)
    BY <1>3, <1>7, <2>1, Zenon DEF Request
  <2>3. sdReadAddress' = sdReadAddress + 1
    BY <1>0, <1>1, <2>1, <2>2, Fits
  <2>4. address = first + Len(rest)
    BY <1>1, <1>2, <1>4, <2>1 DEF first
  <2>5. pending' = rest \o <<first + Len(rest)>>
    BY <1>5, <1>7, <2>4
  <2>6. Consecutive(pending', first) /\ Len(pending') = Len(rest) + 1
    BY <1>4, <2>5, ConsecutiveQueue
  <2>7. read' <=> (~startSdRead' /\ sdReadAddress' # ReadEnd')
    BY <1>3, <2>1, <2>2, Zenon
  <2>8. /\ Len(pending') = sdReadAddress' - sdReadBase' - Answered'
        /\ sdReadAddress' >= sdReadBase' /\ sdReadAddress' <= ReadEnd'
    BY <1>0, <1>1, <1>2, <1>3, <1>4, <2>1, <2>3, <2>6 DEF BusReading
  <2>9. ~startSdRead' /\ sdReadBase' = Base
    BY <1>1, <1>3, <2>1, <2>2
  <2>10. Consecutive(pending, sdReadBase + Answered)'
    BY <1>6, <2>6 DEF Consecutive
  <2> QED BY <1>2, <2>2, <2>7, <2>8, <2>9, <2>10, Zenon DEF BusReading
<1>8. CASE ~(read /\ ~waitrequest)
  <2>1. pending' = rest
    BY <1>4, <1>5, <1>8
  <2>2. Consecutive(pending, sdReadBase + Answered)'
    BY <1>4, <1>6, <2>1 DEF Consecutive
  <2>3. sdReadAddress' = sdReadAddress
    BY <1>3, <1>8, Zenon DEF Request
  <2>4. /\ Len(pending') = sdReadAddress' - sdReadBase' - Answered'
        /\ sdReadAddress' >= sdReadBase' /\ sdReadAddress' <= ReadEnd'
        /\ sdReadBase' = Base
    BY <1>1, <1>3, <1>4, <2>1, <2>3 DEF BusReading
  <2>5. CASE startSdRead
    <3>1. startSdRead' = FALSE /\ read' = TRUE /\ address' = sdReadAddress
      BY <1>3, <1>8, <2>5, Zenon DEF Request
    <3>2. sdReadAddress' # ReadEnd'
      BY <1>0, <1>1, <1>3, <2>3, <2>5 DEF BusReading
    <3> QED BY <1>2, <2>2, <2>3, <2>4, <3>1, <3>2, Zenon DEF BusReading
  <2>6. CASE ~startSdRead
    <3>1. UNCHANGED <<read, address, startSdRead>>
      BY <1>3, <1>8, <2>6, Zenon DEF Request
    <3>2. /\ read' <=> (~startSdRead' /\ sdReadAddress' # ReadEnd')
          /\ read' => address' = sdReadAddress'
          /\ startSdRead' => sdReadAddress' = sdReadBase'
      BY <1>3, <2>3, <3>1 DEF BusReading
    <3> QED BY <1>2, <2>2, <2>4, <3>2, Zenon DEF BusReading
  <2> QED BY <2>5, <2>6
<1> QED BY <1>7, <1>8

LEMMA BusStep ==
  ASSUME MatricesFit, TypeInv, BusInv,
         NEW start \in BOOLEAN, NEW datab \in Dimensions \cup {0},
         NEW result_read \in BOOLEAN,
         NEW waitrequest \in BOOLEAN, NEW readdatavalid \in BOOLEAN,
         NEW readdata,
         Clock(start, datab, result_read, waitrequest, readdatavalid, readdata)
  PROVE  BusInv'
<1>0. Sdram(waitrequest, readdatavalid, readdata)
  BY DEF Clock
<1>1. ASSUME stage # 1, stage' # 1
      PROVE  DetQuiet'
  <2>1. ~read /\ pending = <<>>
    BY <1>1 DEF BusInv, DetQuiet
  <2>2. pending' = <<>>
    BY <1>0, <2>1 DEF Sdram
  <2>3. read' = FALSE \/ read' = read
    BY <1>1 DEF Clock, Reset, Accept, Idle, Reading, Factoring, Multiplying,
                WaitForIrq, busVars
  <2> QED BY <2>1, <2>2, <2>3 DEF DetQuiet
<1>2. ASSUME stage # 1, ~Accept(start, datab)
      PROVE  BusInv'
  <2>1. \/ stage' = 0
        \/ stage' # 1 /\ stage # 0 /\ dimension' = dimension
    BY <1>2, MultiplyingTypes, SMT
       DEF Clock, Reset, Idle, Reading, Factoring, Multiplying, WaitForIrq,
           busVars, MultiplyDiagonal, FetchDiagonal, DiagonalWait,
           NextDiagonal, Finish
  <2>2. stage' # 1 /\ (stage' # 0 => dimension' \in Dimensions)
    BY <2>1 DEF BusInv
  <2> QED BY <1>1, <1>2, <2>2 DEF BusInv
<1>3. CASE Accept(start, datab)
  <2>1. /\ stage = 0 /\ stage' = 1 /\ dimension' = datab /\ datab > 1
        /\ sdReadAddress' = Base /\ sdReadBase' = Base
        /\ startSdRead' = TRUE /\ ramWriteDone' = FALSE /\ ramLoadAddress' = 0
        /\ read' = read
    BY <1>3 DEF Accept
  <2>2. datab \in Dimensions
    BY <2>1
  <2>3. ~read /\ pending = <<>>
    BY <2>1 DEF BusInv, DetQuiet
  <2>4. pending' = <<>> /\ ~read'
    BY <1>0, <2>1, <2>3 DEF Sdram
  <2>5. /\ datab \in 2 .. 63 /\ datab * datab \in Nat \ {0} /\ Base \in Nat
    <3>1. datab \in 2 .. 63 /\ Base \in Nat
      BY <2>2, DetAssumption DEF DetAssumption
    <3> QED BY <3>1
  <2>6. Words' = datab * datab /\ Answered' = 0 /\ ReadEnd' = Base + datab * datab
    BY <2>1, SMT DEF Words, Answered, ReadEnd
  <2>7. /\ Len(pending') = 0
        /\ Consecutive(pending', Base + 0)
    BY <2>4 DEF Consecutive
  <2>8. Consecutive(pending, sdReadBase + Answered)'
    BY <2>1, <2>6, <2>7 DEF Consecutive
  <2>9. BusReading'
    BY <2>1, <2>4, <2>5, <2>6, <2>7, <2>8, SMT DEF BusReading
  <2> QED BY <2>1, <2>2, <2>9, SMT DEF BusInv, DetQuiet
<1>4. CASE stage = 1
  <2>1. /\ Reading(start, waitrequest, readdatavalid, readdata)
        /\ dimension' = dimension /\ dimension \in Dimensions /\ BusReading
        /\ stage' \in {1, 2}
    <3>1. ~forceReset
      BY <1>4, SMT DEF TypeInv, ControlInv
    <3>2. Reading(start, waitrequest, readdatavalid, readdata)
      BY <1>4, <3>1, SMT
         DEF Clock, Reset, Accept, Idle, Factoring, Multiplying, WaitForIrq
    <3> QED BY <1>4, <3>2 DEF Reading, PrepareRows, BusInv
  <2>2. BusReading'
    BY <1>0, <2>1, ReadingRequests
  <2>3. CASE stage' = 2
    <3>1. ramWriteDone
      BY <1>4, <2>1, <2>3 DEF Reading, PrepareRows, StartsCalculating
    <3>2. /\ Words \in Nat \ {0} /\ ReadEnd = sdReadBase + Words
          /\ sdReadAddress \in Nat /\ sdReadBase \in Nat /\ pending \in Seq(Nat)
      BY <2>1, MatrixWords DEF TypeInv, BusTypes, MemoryTypes
    <3>3. Len(pending) \in Nat /\ Answered = Words
      BY <3>1, <3>2 DEF Answered
    <3>4. Len(pending) = 0 /\ sdReadAddress = ReadEnd
      BY <2>1, <3>2, <3>3 DEF BusReading
    <3>5. ~read /\ ~startSdRead /\ pending = <<>>
      BY <2>1, <3>2, <3>4 DEF BusReading
    <3>6. pending' = <<>>
      BY <1>0, <3>5 DEF Sdram
    <3>7. read' = read
      BY <2>1, <3>5 DEF Reading, Request
    <3> QED BY <2>1, <2>3, <3>5, <3>6, <3>7 DEF BusInv, DetQuiet
  <2>4. CASE stage' = 1
    BY <2>1, <2>2, <2>4 DEF BusInv, DetQuiet
  <2> QED BY <2>1, <2>3, <2>4
<1> QED BY <1>2, <1>3, <1>4

-----------------------------------------------------------------------------
(* Before a run, nothing is in the way of its words and its rows.          *)
Cleared ==
  stage = 0 /\ ~forceReset =>
    matrix = Empty /\ ramWriteEnable = FALSE /\ i = 0

(* rowAddress, as far as it is prepared.                                   *)
RowsInv ==
  /\ stage = 1 =>
       i <= dimension /\ \A r \in 0 .. (i - 1) : rowAddress[r] = r * dimension
  /\ stage = 2 => \A r \in Indices : rowAddress[r] = r * dimension

(* Every word that has come is in the memory, or at its write port.        *)
WordsHeld ==
  /\ DOMAIN matrix = sdReadBase .. (sdReadBase + Answered - 1)
  /\ ramWriteEnable =>
       /\ ramWriteAddress < Answered
       /\ ramWriteData = matrix[sdReadBase + ramWriteAddress]
  /\ \A n \in 0 .. (Answered - 1) :
       \/ ram[n] = matrix[sdReadBase + n]
       \/ ramWriteEnable /\ ramWriteAddress = n

(* The memory holds the matrix.                                            *)
AllHeld ==
  /\ DOMAIN matrix = sdReadBase .. (sdReadBase + Words - 1)
  /\ \A n \in 0 .. (Words - 1) : ram[n] = matrix[sdReadBase + n]

(* The first row of the upper factor is that of the matrix: each element   *)
(* of it is fetched, and stored where it came from.                        *)
FirstRow ==
  /\ j < dimension /\ luStage \in {0} \cup 12 .. 17
  /\ luStage = 13 => ramReadEnable /\ ramReadAddress = j
  /\ luStage = 14 => ramReadData = ram[j]
  /\ luStage \in {15, 16} => aij = ram[j]
  /\ luStage = 15 => p = 0
  /\ ramWriteEnable =>
       luStage = 17 /\ ramWriteAddress = j /\ ramWriteData = ram[j]

LoadInv ==
  /\ Cleared /\ RowsInv
  /\ stage = 1 => WordsHeld
  /\ stage = 2 /\ i = 0 => AllHeld /\ FirstRow

(* The elements' places.                                                   *)
LEMMA Places ==
  ASSUME NEW d \in 2 .. 63, NEW r \in 0 .. (d - 1), NEW c \in 0 .. (d - 1)
  PROVE  r * d \in Nat /\ r * d + c \in 0 .. (d * d - 1)
<1>1. r \in Nat /\ d \in Nat /\ c \in Nat /\ r * d \in Nat /\ d * d \in Nat
  OBVIOUS
<1>2. r + 1 <= d
  OBVIOUS
<1>3. (r + 1) * d <= d * d
  BY <1>1, <1>2
<1>4. (r + 1) * d = r * d + d
  BY <1>1
<1> QED BY <1>1, <1>3, <1>4

(* The write port writes a word into the memory.                           *)
LEMMA WordWritten ==
  ASSUME TypeInv, ~forceReset, Ram
  PROVE  /\ ramWriteEnable => ram'[ramWriteAddress] = ramWriteData
         /\ \A n \in 0 .. (RAM_WORDS - 1) :
              ~(ramWriteEnable /\ ramWriteAddress = n) => ram'[n] = ram[n]
  BY DEF Ram, TypeInv, MemoryTypes, PortTypes

LEMMA LoadReading ==
  ASSUME MatricesFit, TypeInv, BusInv, LoadInv,
         NEW start, NEW waitrequest \in BOOLEAN, NEW readdatavalid \in BOOLEAN,
         NEW readdata,
         Sdram(waitrequest, readdatavalid, readdata), Ram,
         Reading(start, waitrequest, readdatavalid, readdata)
  PROVE  /\ WordsHeld'
         /\ stage' = 2 => Answered' = Words' /\ ramWriteEnable' = FALSE
<1>0. /\ stage = 1 /\ ~forceReset /\ BusReading /\ WordsHeld
      /\ dimension \in Dimensions /\ UNCHANGED dimension
      /\ sdReadBase' = sdReadBase
  BY DEF Reading, Request, BusInv, LoadInv
<1>1. /\ Answered \in 0 .. Words
      /\ readdatavalid => ~ramWriteDone /\ Answered < Words
                          /\ Head(pending) = sdReadBase + Answered
      /\ Answered' = IF readdatavalid THEN Answered + 1 ELSE Answered
      /\ Words' = Words
  BY <1>0, ReadingReceives
<1>2. /\ Words \in Nat \ {0} /\ Words <= RAM_WORDS /\ RAM_WORDS \in Nat
      /\ sdReadBase \in Nat /\ ramWriteAddress \in Nat
  BY <1>0, MatrixWords DEF TypeInv, BusTypes, PortTypes
<1>3. \A n \in 0 .. (Answered - 1) : ram'[n] = matrix[sdReadBase + n]
  <2> TAKE n \in 0 .. (Answered - 1)
  <2>1. n \in 0 .. (RAM_WORDS - 1)
    BY <1>1, <1>2
  <2>2. CASE ramWriteEnable /\ ramWriteAddress = n
    BY <1>0, <2>2, WordWritten DEF WordsHeld
  <2>3. CASE ~(ramWriteEnable /\ ramWriteAddress = n)
    BY <1>0, <2>1, <2>3, WordWritten DEF WordsHeld
  <2> QED BY <2>2, <2>3
<1>4. Receive(readdatavalid, readdata) /\ Remember(readdatavalid, readdata)
      /\ PrepareRows
  BY DEF Reading
<1>5. CASE readdatavalid
  <2> DEFINE at == sdReadBase + Answered
  <2>1. ~StartsCalculating /\ ramLoadAddress = Answered
    BY <1>1, <1>5, SMT DEF StartsCalculating, Answered
  <2>2. /\ ramWriteAddress' = Answered /\ ramWriteData' = readdata
        /\ ramWriteEnable' = TRUE
    BY <1>1, <1>4, <1>5, <2>1, Zenon DEF Receive, WritePort
  <2>3. matrix' = [a \in DOMAIN matrix \cup {at} |->
                     IF a = at THEN readdata ELSE matrix[a]]
    BY <1>1, <1>4, <1>5, Zenon DEF Remember
  <2>4. /\ DOMAIN matrix' = sdReadBase' .. (sdReadBase' + Answered' - 1)
        /\ matrix'[at] = readdata
        /\ \A n \in 0 .. (Answered - 1) :
             matrix'[sdReadBase + n] = matrix[sdReadBase + n]
    <3>1. DOMAIN matrix = sdReadBase .. (at - 1)
      BY <1>0, <1>1, <1>2 DEF WordsHeld
    <3>2. DOMAIN matrix' = sdReadBase .. at
      BY <1>1, <1>2, <2>3, <3>1
    <3>3. \A n \in 0 .. (Answered - 1) :
             sdReadBase + n \in DOMAIN matrix /\ sdReadBase + n # at
      BY <1>1, <1>2, <3>1
    <3>4. sdReadBase' + Answered' - 1 = at
      BY <1>0, <1>1, <1>2, <1>5
    <3> QED BY <1>0, <2>3, <3>2, <3>3, <3>4
  <2>5. Answered' = Answered + 1 /\ stage' = 1
    BY <1>0, <1>1, <1>4, <1>5, <2>1 DEF PrepareRows
  <2>6. \A n \in 0 .. (Answered' - 1) :
          \/ ram'[n] = matrix'[sdReadBase + n]
          \/ ramWriteEnable' /\ ramWriteAddress' = n
    BY <1>1, <1>3, <2>2, <2>4, <2>5
  <2> HIDE DEF at
  <2>7. WordsHeld'
    BY <1>0, <1>1, <2>2, <2>4, <2>5, <2>6 DEF WordsHeld, at
  <2> QED BY <2>5, <2>7
<1>6. CASE ~readdatavalid
  <2>1. ramWriteEnable' = FALSE
    BY <1>4, <1>6, Zenon DEF Receive, WritePort
  <2>2. matrix' = matrix
    BY <1>4, <1>6, Zenon DEF Remember
  <2>3. Answered' = Answered
    BY <1>1, <1>6
  <2>4. WordsHeld'
    BY <1>0, <1>3, <2>1, <2>2, <2>3 DEF WordsHeld
  <2>5. stage' = 2 => Answered' = Words'
    <3>1. stage' = 2 => ramWriteDone
      BY <1>0, <1>4 DEF PrepareRows, StartsCalculating
    <3> QED BY <1>1, <2>3, <3>1 DEF Answered
  <2> QED BY <2>1, <2>4, <2>5
<1> QED BY <1>5, <1>6

LEMMA RowsReading ==
  ASSUME MatricesFit, TypeInv, BusInv, LoadInv, stage = 1, PrepareRows,
         UNCHANGED dimension
  PROVE  RowsInv'
<1>0. /\ dimension \in Dimensions /\ dimension \in 2 .. 63
      /\ dimension <= ROWS /\ Words <= RAM_WORDS /\ Words \in Nat
      /\ RAM_WORDS \in Nat /\ ROWS \in Nat
  BY MatrixWords, DetAssumption DEF BusInv, DetAssumption
<1>1. /\ i \in Nat /\ i <= dimension
      /\ \A r \in 0 .. (i - 1) : rowAddress[r] = r * dimension
  BY DEF TypeInv, LuTypes, Index, LoadInv, RowsInv
<1>2. CASE /\ i < dimension
           /\ rowAddress' = [r \in 0 .. (ROWS - 1) |->
                               IF r = i THEN (i * dimension) % RAM_WORDS
                               ELSE rowAddress[r]]
           /\ i' = i + 1
           /\ UNCHANGED <<stage, readPort>>
  <2>1. i * dimension \in Nat /\ i * dimension < RAM_WORDS
    <3>1. i * dimension + 0 \in 0 .. (dimension * dimension - 1)
      <4>1. i \in 0 .. (dimension - 1) /\ 0 \in 0 .. (dimension - 1)
        BY <1>0, <1>1, <1>2
      <4> QED BY <1>0, <4>1, Places
    <3>2. i * dimension \in Nat
      BY <1>0, <1>1
    <3> QED BY <1>0, <3>1, <3>2 DEF Words
  <2>2. (i * dimension) % RAM_WORDS = i * dimension
    BY <1>0, <2>1, Fits
  <2>3. \A r \in 0 .. (i' - 1) : rowAddress'[r] = r * dimension'
    <3> TAKE r \in 0 .. (i' - 1)
    <3>1. r \in 0 .. (ROWS - 1) /\ (r = i \/ r \in 0 .. (i - 1))
      BY <1>0, <1>1, <1>2
    <3>2. CASE r = i
      BY <1>2, <2>2, <3>1, <3>2
    <3>3. CASE r \in 0 .. (i - 1) /\ r # i
      BY <1>1, <1>2, <3>1, <3>3
    <3> QED BY <1>1, <3>1, <3>2, <3>3
  <2>4. i' <= dimension' /\ stage' = 1
    BY <1>0, <1>1, <1>2
  <2> QED BY <2>3, <2>4 DEF RowsInv
<1>3. CASE StartsCalculating /\ stage' = 2 /\ UNCHANGED rowAddress
  <2>1. i = dimension
    BY <1>0, <1>1, <1>3 DEF StartsCalculating
  <2> QED BY <1>1, <1>3, <2>1 DEF RowsInv, Indices
<1>4. CASE UNCHANGED <<stage, rowAddress, i>>
  BY <1>1, <1>4 DEF RowsInv
<1> QED BY <1>2, <1>3, <1>4 DEF PrepareRows

(* What a stage of the upper factor does.                                  *)
LEMMA UpperStages ==
  ASSUME Factor
  PROVE  /\ luStage = 0 => FetchPivot
         /\ luStage = 12 => FetchElement
         /\ luStage = 13 => FetchLatency
         /\ luStage = 14 => ReceiveElement
         /\ luStage = 15 /\ ~PLoop => EndPLoop
         /\ luStage = 16 => StoreUpper
         /\ luStage = 17 => NextUpper
<1>1. luStage \in {0, 12, 13, 14, 16, 17} => ~PLoop
  BY DEF PLoop
<1> QED
  BY <1>1, SMT
     DEF Factor, StartMultiply, StartSubtract, StartDivide,
         FetchPivot, FetchLatency, ReceivePivot, FetchElement, ReceiveElement,
         FetchFactors, PWait, EndSubtract, EndPLoop, DivideWait,
         StoreLower, NextLower, StoreUpper, NextUpper

(* The first row goes through the engine unchanged.                        *)
LEMMA FirstRowStep ==
  ASSUME MatricesFit, TypeInv, BusInv, LoadInv, stage = 2, ~forceReset, i = 0,
         Factor, Ram, UNCHANGED dimension
  PROVE  /\ ram' = ram
         /\ i' # 0 \/ FirstRow'
<1>0. /\ dimension \in 2 .. 63 /\ dimension <= ROWS /\ Words <= RAM_WORDS
      /\ Words \in Nat /\ RAM_WORDS \in Nat /\ ROWS \in Nat
      /\ j \in Nat /\ j < dimension /\ p \in Nat /\ FirstRow
  BY MatrixWords, DetAssumption
     DEF BusInv, DetAssumption, TypeInv, LuTypes, Index, LoadInv, FirstRow
<1>1. /\ ram \in [0 .. (RAM_WORDS - 1) -> Word] /\ ramReadEnable \in BOOLEAN
      /\ ramWriteEnable \in BOOLEAN
  BY DEF TypeInv, MemoryTypes, PortTypes
<1>2. j < RAM_WORDS
  <2>1. 0 * dimension + j \in 0 .. (dimension * dimension - 1)
    <3>1. 0 \in 0 .. (dimension - 1) /\ j \in 0 .. (dimension - 1)
      BY <1>0
    <3> QED BY <1>0, <3>1, Places
  <2>2. 0 * dimension = 0
    BY <1>0
  <2> QED BY <1>0, <2>1, <2>2 DEF Words
<1>3. ram' = ram
  <2>1. CASE ramWriteEnable
    <3>1. ram' = [ram EXCEPT ![j] = ram[j]]
      BY <1>0, <2>1 DEF Ram, FirstRow
    <3> QED BY <1>1, <3>1
  <2>2. CASE ~ramWriteEnable
    BY <2>2 DEF Ram
  <2> QED BY <2>1, <2>2
<1>4. rowAddress[0] = 0 /\ RowAddresses(0) = {0}
  <2>1. 0 \in Indices /\ 0 * dimension = 0 /\ 0 < ROWS
    BY <1>0 DEF Indices
  <2>2. rowAddress[0] = 0
    BY <2>1 DEF LoadInv, RowsInv
  <2> QED BY <2>1, <2>2 DEF RowAddresses
<1>5. (0 + j) % RAM_WORDS = j
  BY <1>0, <1>2, Fits
<1>6. ramWriteEnable => luStage = 17
  BY <1>0 DEF FirstRow
<1> USE DEF readPort, writePort
<1>7. CASE luStage = 0
  <2>1. luStage' = 12 /\ UNCHANGED <<j, p, ramWriteEnable>>
    BY <1>7, UpperStages DEF FetchPivot
  <2> QED BY <1>0, <1>3, <1>6, <1>7, <2>1 DEF FirstRow
<1>8. CASE luStage = 12
  <2>1. /\ luStage' = 13 /\ UNCHANGED <<j, p, ramWriteEnable>>
        /\ Fetch(i, j)
    BY <1>8, UpperStages DEF FetchElement
  <2>2. ramReadAddress' = j /\ ramReadEnable'
    BY <1>4, <1>5, <2>1, Zenon DEF Fetch
  <2> QED BY <1>0, <1>3, <1>6, <1>8, <2>1, <2>2 DEF FirstRow
<1>9. CASE luStage = 13
  <2>1. luStage' = 14 /\ UNCHANGED <<j, p, ramWriteEnable>>
    BY <1>9, UpperStages DEF FetchLatency
  <2>2. ramReadData' = ram[j]
    BY <1>0, <1>9 DEF Ram, FirstRow
  <2> QED BY <1>0, <1>3, <1>6, <1>9, <2>1, <2>2 DEF FirstRow
<1>10. CASE luStage = 14
  <2>1. /\ luStage' = 15 /\ UNCHANGED <<j, ramWriteEnable>>
        /\ aij' = ramReadData /\ p' = 0
    BY <1>10, UpperStages DEF ReceiveElement
  <2> QED BY <1>0, <1>3, <1>6, <1>10, <2>1 DEF FirstRow
<1>11. CASE luStage = 15
  <2>1. ~PLoop
    BY <1>0, <1>11 DEF FirstRow, PLoop
  <2>2. luStage' = 16 /\ UNCHANGED <<j, p, aij, ramWriteEnable>>
    BY <1>11, <2>1, UpperStages DEF EndPLoop
  <2> QED BY <1>0, <1>3, <1>6, <1>11, <2>2 DEF FirstRow
<1>12. CASE luStage = 16
  <2>1. luStage' = 17 /\ UNCHANGED <<j, p, aij>> /\ Store(aij)
    BY <1>12, UpperStages DEF StoreUpper
  <2>2. ramWriteAddress' = j /\ ramWriteData' = aij
    BY <1>4, <1>5, <2>1, Zenon DEF Store, WritePort
  <2>3. aij = ram[j]
    BY <1>0, <1>12 DEF FirstRow
  <2> QED BY <1>0, <1>3, <2>1, <2>2, <2>3 DEF FirstRow
<1>13. CASE luStage = 17
  <2>1. /\ ramWriteEnable' = FALSE
        /\ \/ j + 1 < dimension /\ j' = j + 1 /\ i' = i /\ luStage' = 12
           \/ i' = i + 1
    BY <1>13, UpperStages, Zenon DEF NextUpper
  <2> QED BY <1>0, <1>3, <2>1 DEF FirstRow
<1>14. luStage \in {0} \cup 12 .. 17
  BY <1>0 DEF FirstRow
<1> QED BY <1>3, <1>7, <1>8, <1>9, <1>10, <1>11, <1>12, <1>13, <1>14

LEMMA FactorKeepsI ==
  ASSUME TypeInv, Factor, i # 0
  PROVE  i' # 0
<1>1. i \in Nat
  BY DEF TypeInv, LuTypes, Index
<1>2. i' = i \/ i' = i + 1
  BY SMT
     DEF Factor, StartMultiply, StartSubtract, StartDivide,
         FetchPivot, FetchLatency, ReceivePivot, FetchElement, ReceiveElement,
         FetchFactors, PWait, EndSubtract, EndPLoop, DivideWait,
         StoreLower, NextLower, StoreUpper, NextUpper
<1> QED BY <1>1, <1>2

LEMMA LoadStep ==
  ASSUME MatricesFit, TypeInv, BusInv, LoadInv,
         NEW start \in BOOLEAN, NEW datab \in Dimensions \cup {0},
         NEW result_read \in BOOLEAN,
         NEW waitrequest \in BOOLEAN, NEW readdatavalid \in BOOLEAN,
         NEW readdata,
         Clock(start, datab, result_read, waitrequest, readdatavalid, readdata)
  PROVE  LoadInv'
<1>0. Sdram(waitrequest, readdatavalid, readdata) /\ Ram
  BY DEF Clock
<1>1. CASE Reset
  BY <1>1, SMT DEF Reset, LoadInv, Cleared, RowsInv
<1>2. CASE Accept(start, datab)
  <2>1. /\ stage = 0 /\ ~forceReset /\ stage' = 1 /\ dimension' = datab
        /\ datab > 1 /\ sdReadBase' = Base /\ ramLoadAddress' = 0
        /\ ramWriteDone' = FALSE
        /\ UNCHANGED <<calcVars, matrix>>
    BY <1>2 DEF Accept
  <2>2. /\ i' = 0 /\ ramWriteEnable' = FALSE /\ matrix' = Empty
    BY <2>1 DEF LoadInv, Cleared, calcVars, luVars, writePort
  <2>3. Answered' = 0
    BY <2>1 DEF Answered
  <2>4. Base \in Nat /\ DOMAIN Empty = {}
    BY DetAssumption DEF DetAssumption, Empty
  <2>5. DOMAIN matrix' = sdReadBase' .. (sdReadBase' + Answered' - 1)
    BY <2>1, <2>2, <2>3, <2>4
  <2>6. WordsHeld'
    BY <2>2, <2>3, <2>5 DEF WordsHeld
  <2>7. i' <= dimension' /\ \A r \in 0 .. (i' - 1) : FALSE
    <3>1. datab \in 2 .. 63
      BY <2>1, DetAssumption DEF DetAssumption
    <3> QED BY <2>1, <2>2, <3>1
  <2> QED BY <2>1, <2>6, <2>7 DEF LoadInv, Cleared, RowsInv
<1>3. CASE Idle(start, datab)
  <2>1. /\ stage = 0 /\ ~forceReset /\ stage' = 0 /\ forceReset' = forceReset
        /\ UNCHANGED <<calcVars, matrix>>
    BY <1>3 DEF Idle
  <2> QED BY <2>1
             DEF LoadInv, Cleared, RowsInv, calcVars, luVars, writePort
<1>4. CASE Reading(start, waitrequest, readdatavalid, readdata)
  <2>1. /\ stage = 1 /\ PrepareRows /\ UNCHANGED dimension
        /\ stage' \in {1, 2}
    BY <1>4 DEF Reading, PrepareRows
  <2>2. RowsInv'
    BY <2>1, RowsReading
  <2>3. /\ WordsHeld'
        /\ stage' = 2 => Answered' = Words' /\ ramWriteEnable' = FALSE
    BY <1>0, <1>4, LoadReading
  <2>4. ASSUME stage' = 2 PROVE AllHeld' /\ FirstRow'
    <3>1. AllHeld'
      BY <2>3, <2>4 DEF WordsHeld, AllHeld
    <3>2. /\ luStage' = 0 /\ j' = 0 /\ ramWriteEnable' = FALSE
          /\ dimension' = dimension
      BY <1>4, <2>1, <2>3, <2>4 DEF Reading, TypeInv, NotStarted
    <3>3. dimension \in 2 .. 63
      BY <2>1, MatrixWords DEF BusInv
    <3> QED BY <3>1, <3>2, <3>3 DEF FirstRow
  <2> QED BY <2>1, <2>2, <2>3, <2>4 DEF LoadInv, Cleared
<1>5. CASE Factoring(start)
  <2>1. /\ stage = 2 /\ ~forceReset /\ stage' \in {2, 3}
        /\ UNCHANGED <<dimension, rowAddress, sdReadBase, matrix>>
    BY <1>5 DEF Factoring, busVars
  <2>2. RowsInv'
    BY <2>1 DEF LoadInv, RowsInv, Indices
  <2>3. ASSUME stage' = 2, i' = 0 PROVE AllHeld' /\ FirstRow'
    <3>1. Factor
      BY <1>5, <2>3 DEF Factoring
    <3>2. i = 0
      BY <2>3, <3>1, FactorKeepsI
    <3>3. ram' = ram /\ FirstRow'
      BY <1>0, <2>1, <2>3, <3>1, <3>2, FirstRowStep
    <3>4. AllHeld'
      BY <2>1, <3>2, <3>3 DEF LoadInv, AllHeld, Words
    <3> QED BY <3>3, <3>4
  <2> QED BY <2>1, <2>2, <2>3 DEF LoadInv, Cleared
<1>6. CASE Multiplying(start)
  <2>1. stage' \in {3, 4}
    BY <1>6 DEF Multiplying, MultiplyDiagonal, FetchDiagonal, DiagonalWait,
                NextDiagonal, Finish
  <2> QED BY <2>1 DEF LoadInv, Cleared, RowsInv
<1>7. CASE WaitForIrq(start, result_read)
  <2>1. stage' = 4 \/ (stage' = 0 /\ forceReset')
    BY <1>7 DEF WaitForIrq
  <2> QED BY <2>1 DEF LoadInv, Cleared, RowsInv
<1> QED BY <1>1, <1>2, <1>3, <1>4, <1>5, <1>6, <1>7 DEF Clock

LEMMA AllLoaded ==
  ASSUME MatricesFit, TypeInv, BusInv, LoadInv
  PROVE  LoadedExactly
<1> SUFFICES ASSUME stage = 2, i = 0
             PROVE  /\ DOMAIN matrix = sdReadBase .. (sdReadBase + dimension * dimension - 1)
                    /\ \A r, c \in Indices : ram[rowAddress[r] + c] = Element(r, c)
  BY DEF LoadedExactly
<1>1. AllHeld /\ RowsInv
  BY DEF LoadInv
<1>2. dimension \in 2 .. 63 /\ sdReadBase \in Nat
  BY MatrixWords DEF BusInv, TypeInv, BusTypes
<1>3. ASSUME NEW r \in Indices, NEW c \in Indices
      PROVE  ram[rowAddress[r] + c] = Element(r, c)
  <2>1. /\ r * dimension \in Nat /\ c \in Nat
        /\ r * dimension + c \in 0 .. (dimension * dimension - 1)
    <3>1. r \in 0 .. (dimension - 1) /\ c \in 0 .. (dimension - 1)
      BY DEF Indices
    <3>2. c \in Nat
      BY <1>2, <3>1
    <3> QED BY <1>2, <3>1, <3>2, Places
  <2>2. rowAddress[r] = r * dimension
    BY <1>1 DEF RowsInv
  <2>3. ram[r * dimension + c] = matrix[sdReadBase + (r * dimension + c)]
    BY <1>1, <2>1 DEF AllHeld, Words
  <2>4. sdReadBase + (r * dimension + c) = sdReadBase + r * dimension + c
    BY <1>2, <2>1
  <2> QED BY <2>2, <2>3, <2>4 DEF Element
<1> QED BY <1>1, <1>3 DEF AllHeld, Words

-----------------------------------------------------------------------------
(* What holds of the memory when the matrices fit, and of the cores when   *)
(* they stand still no longer than the engine can make up for.             *)
MatrixInv == TypeInv /\ BusInv /\ LoadInv
PaceInv == TypeInv /\ AnswerInv /\ CoreInv

LEMMA EngineInit == Init => MatrixInv /\ PaceInv
<1> SUFFICES ASSUME Init PROVE MatrixInv /\ PaceInv
  OBVIOUS
<1>1. TypeInv
  BY TypeInit
<1>2. stage = 0 /\ forceReset = FALSE /\ cpu = "free" /\ ~read /\ pending = <<>>
      /\ matrix = Empty /\ ramWriteEnable = FALSE /\ i = 0
  BY DEF Init
<1>3. AnswerInv
  BY <1>2 DEF AnswerInv, InstructionsAnswered
<1>4. CoreInv /\ BusInv
  BY <1>2 DEF CoreInv, BusInv, DetQuiet
<1>5. LoadInv
  BY <1>2 DEF LoadInv, Cleared, RowsInv
<1> QED BY <1>1, <1>3, <1>4, <1>5 DEF MatrixInv, PaceInv

LEMMA TypeCycle ==
  ASSUME TypeInv, [Next]_vars
  PROVE  TypeInv'
<1>1. CASE Next
  BY <1>1, CycleOfNext, TypeStep, ZenonT(30)
<1> QED BY <1>1, TypeUnchanged

LEMMA MatrixCycle ==
  ASSUME MatricesFit, MatrixInv, [Next]_vars
  PROVE  MatrixInv'
<1>0. TypeInv /\ BusInv /\ LoadInv /\ TypeInv'
  BY TypeCycle DEF MatrixInv
<1>1. CASE UNCHANGED vars
  <2> USE <1>1
      DEF vars, busVars, calcVars, luVars, diagonalVars, readPort, writePort
  <2>1. Answered' = Answered /\ Words' = Words /\ ReadEnd' = ReadEnd
    BY DEF Answered, Words, ReadEnd
  <2>2. BusInv'
    BY <1>0, <2>1 DEF BusInv, DetQuiet, BusReading, Consecutive
  <2>3. LoadInv'
    BY <1>0, <2>1 DEF LoadInv, Cleared, RowsInv, Indices, WordsHeld, AllHeld,
                      FirstRow
  <2> QED BY <1>0, <2>2, <2>3 DEF MatrixInv
<1>2. CASE Next
  BY <1>0, <1>2, CycleOfNext, BusStep, LoadStep, ZenonT(30) DEF MatrixInv
<1> QED BY <1>1, <1>2

LEMMA PaceCycle ==
  ASSUME OneStall, PaceInv, [Next]_vars
  PROVE  PaceInv'
<1>0. TypeInv /\ AnswerInv /\ CoreInv /\ TypeInv'
  BY TypeCycle DEF PaceInv
<1>1. CASE UNCHANGED vars
  <2> USE <1>1 DEF vars, calcVars, luVars, diagonalVars
  <2>1. AnswerInv'
    BY <1>0 DEF AnswerInv, InstructionsAnswered
  <2>2. CoreInv'
    BY <1>0 DEF CoreInv, LuWaits, DiagonalWaits, Awaits, AwaitsLonger, Taken
  <2> QED BY <1>0, <2>1, <2>2 DEF PaceInv
<1>2. CASE Next
  BY <1>0, <1>2, CycleOfNext, AnswerStep, CoreStep, ZenonT(30) DEF PaceInv
<1> QED BY <1>1, <1>2

(* The registers, the memory and the ports of the engine keep their types, *)
(* whatever the CPU, the SDRAM and clk_en do.                              *)
THEOREM DetTypeCorrect == Spec => []DetTypeOK
<1>1. Init => TypeInv
  BY TypeInit
<1>2. TypeInv /\ [Next]_vars => TypeInv'
  BY TypeCycle
<1>3. TypeInv => DetTypeOK
  BY TypesTogether
<1> QED BY <1>1, <1>2, <1>3, PTL DEF Spec

(* When the calculation of a matrix that fits starts, the whole of it is   *)
(* in the memory and nothing else of the SDRAM has been read.              *)
THEOREM MatrixLoaded == MatricesFit => (Spec => []LoadedExactly)
<1> SUFFICES ASSUME MatricesFit PROVE Spec => []LoadedExactly
  OBVIOUS
<1>1. Init => MatrixInv
  BY EngineInit
<1>2. MatrixInv /\ [Next]_vars => MatrixInv'
  BY MatrixCycle
<1>3. MatrixInv => LoadedExactly
  BY AllLoaded DEF MatrixInv
<1> QED BY <1>1, <1>2, <1>3, PTL DEF Spec

(* Every result is taken from a core that has finished, no read is on the  *)
(* way outside of stage 1, and every instruction is answered.              *)
THEOREM PortsInStep ==
  MatricesFit /\ OneStall => (Spec => []PortsKeepPace)
<1> SUFFICES ASSUME MatricesFit, OneStall PROVE Spec => []PortsKeepPace
  OBVIOUS
<1>1. Init => MatrixInv /\ PaceInv
  BY EngineInit
<1>2. MatrixInv /\ PaceInv /\ [Next]_vars => MatrixInv' /\ PaceInv'
  BY MatrixCycle, PaceCycle
<1>3. MatrixInv /\ PaceInv => PortsKeepPace
  <2> SUFFICES ASSUME MatrixInv, PaceInv PROVE PortsKeepPace
    OBVIOUS
  <2>1. ResultsReady
    <3>1. PLoop => luStage \in {7, 15}
      BY DEF PLoop
    <3> QED BY <3>1
               DEF PaceInv, CoreInv, LuWaits, DiagonalWaits, ResultsReady
  <2> QED BY <2>1 DEF MatrixInv, BusInv, PaceInv, AnswerInv, PortsKeepPace
<1> QED BY <1>1, <1>2, <1>3, PTL DEF Spec
=============================================================================
