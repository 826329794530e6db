-------------------------------- MODULE FpDet -------------------------------
(***************************************************************************)
(* The determinant engine of ip/fp_det_nios.v, one action per kind of      *)
(* clock cycle.  Started by a custom instruction it reads a matrix from    *)
(* the SDRAM into its own memory, factors it there in place (Doolittle),   *)
(* multiplies the diagonal and raises an interrupt.  Three floating point  *)
(* cores with different latencies do the arithmetic; the state machine     *)
(* starts them by loading their operands and counts cycles until it takes  *)
(* the result.                                                             *)
(*                                                                         *)
(* Data.  Numbers are those of module Numbers.  SDRAM addresses count      *)
(* words.  What a matrix in SDRAM holds is decided when the engine first   *)
(* reads it, and the CPU may change it between two runs.  Contents of the  *)
(* memory and of the operand registers that belong to an earlier run are   *)
(* Undefined.  The registers write and writedata are never set; swapCount  *)
(* and negateSign are never changed, so that the branches they guard       *)
(* (luStage 3, the sign of the result) do nothing.                         *)
(***************************************************************************)
EXTENDS Numbers, Sequences

CONSTANTS Dimensions,     \* dimensions the CPU may ask for
          Base,           \* address of the matrix
          AddressSpace,   \* words a 24-bit byte address can name
          RAM_WORDS,      \* words of the memory: 1024 in the repository
          ROWS,           \* entries of rowAddress: 5 in the repository
          Entries,        \* numbers the matrices are made of
          MaxPending,     \* reads the SDRAM controller holds unanswered
          MaxStalls       \* cycles without clk_en during one operation

ASSUME DetAssumption ==
  /\ Dimensions \subseteq 2 .. 63
  /\ AddressSpace \in Nat \ {0} /\ Base \in 0 .. (AddressSpace - 1)
  /\ RAM_WORDS \in Nat \ {0} /\ ROWS \in Nat \ {0}
  /\ Entries \subseteq Number
  /\ MaxPending \in Nat \ {0} /\ MaxStalls \in Nat

ADDER_LATENCY     == 7
MULTPLIER_LATENCY == 5
DIVIDER_LATENCY   == 6
DEFAULT_DIMENSION == 16

(* Results of the custom instruction.  RESULT stands for the bits of a     *)
(* floating point number, which are none of the others.                    *)
ACCEPTED == 99
READY    == -1
READING_SDRAM == 1
CALCULATING   == 2
WAIT_IRQ      == 3
RESULT        == -2

VARIABLES
  stage,                  \* 0 idle, 1 reading, 2 factoring, 3 multiplying,
                          \* 4 waiting for the interrupt to be serviced
  forceReset, irq, reply, result_readdata,
  read, address, sdReadBase, sdReadAddress, startSdRead,
  ramLoadAddress, ramWriteDone, dimension, rowAddress,
  i, j, p, k, luStage, pStage, diagonalStage, counter,
  ajj, aij, aip, finalResult,
  ram, ramReadAddress, ramReadEnable, ramReadData,
  ramWriteAddress, ramWriteData, ramWriteEnable,
  core,                   \* the operation the floating point cores work on
  matrix,                 \* SDRAM: what has been read, by address
  pending,                \* SDRAM: reads accepted and not answered yet
  cpu                     \* what the CPU's bus and instruction ports await

busVars == <<read, address, sdReadBase, sdReadAddress, startSdRead,
             ramLoadAddress, ramWriteDone, dimension, rowAddress>>
luVars  == <<i, j, p, luStage, pStage, ajj, aij, aip>>
diagonalVars == <<k, diagonalStage, finalResult>>
readPort  == <<ramReadAddress, ramReadEnable>>
writePort == <<ramWriteAddress, ramWriteData, ramWriteEnable>>
calcVars  == <<luVars, diagonalVars, counter, readPort, writePort>>
vars == <<stage, forceReset, irq, reply, result_readdata, busVars, calcVars,
          ram, ramReadData, core, matrix, pending, cpu>>

NoOperation == [unit |-> "none", a |-> Undefined, b |-> Undefined,
                left |-> 0, stalls |-> 0]
Empty == [a \in {} |-> Undefined]
Blank == [a \in 0 .. (RAM_WORDS - 1) |-> Undefined]

(* The CPU fetches its first instruction long after the first cycle, which *)
(* is a reset: forceReset is up when the power comes.                      *)
Init ==
  /\ stage = 0 /\ forceReset = FALSE /\ irq = FALSE /\ reply = <<>>
  /\ result_readdata = Undefined
  /\ read = FALSE /\ address = 0 /\ sdReadBase = 0 /\ sdReadAddress = 0
  /\ startSdRead = FALSE /\ ramLoadAddress = 0 /\ ramWriteDone = FALSE
  /\ dimension = DEFAULT_DIMENSION /\ rowAddress = [r \in 0 .. (ROWS - 1) |-> 0]
  /\ i = 0 /\ j = 0 /\ p = 0 /\ k = 0
  /\ luStage = 0 /\ pStage = 0 /\ diagonalStage = 0 /\ counter = 0
  /\ ajj = Undefined /\ aij = Undefined /\ aip = Undefined /\ finalResult = 1
  /\ ram = Blank
  /\ ramReadAddress = 0 /\ ramReadEnable = FALSE /\ ramReadData = Undefined
  /\ ramWriteAddress = 0 /\ ramWriteData = 0 /\ ramWriteEnable = FALSE
  /\ core = NoOperation
  /\ matrix = Empty /\ pending = <<>> /\ cpu = "free"
-----------------------------------------------------------------------------
(* What surrounds the state machine.                                       *)

(* The custom instruction holds the CPU until done.  A load from the slave *)
(* keeps result_read up for two cycles; the program loads only to service  *)
(* the interrupt.                                                          *)
Port(start, result_read) ==
  \/ /\ cpu = "free" /\ ~(start /\ result_read) /\ (result_read => irq)
     /\ cpu' = IF start THEN "ci" ELSE IF result_read THEN "read" ELSE "free"
  \/ /\ cpu = "ci" /\ ~start /\ ~result_read
     /\ cpu' = IF reply # <<>> THEN "free" ELSE "ci"
  \/ cpu = "read" /\ ~start /\ result_read /\ cpu' = "resp"
  \/ cpu = "resp" /\ ~start /\ ~result_read /\ cpu' = "free"

(* The SDRAM holds up requests as it likes and answers reads in order.     *)
Sdram(waitrequest, readdatavalid, readdata) ==
  /\ waitrequest => read
  /\ read /\ ~waitrequest => Len(pending) < MaxPending
  /\ IF readdatavalid
     THEN /\ pending # <<>>
          /\ Head(pending) \in DOMAIN matrix => readdata = matrix[Head(pending)]
     ELSE readdata = Undefined
  /\ pending' = (IF readdatavalid THEN Tail(pending) ELSE pending)
                  \o (IF read /\ ~waitrequest THEN <<address>> ELSE <<>>)

Remember(readdatavalid, readdata) ==
  matrix' = IF readdatavalid
            THEN [a \in DOMAIN matrix \cup {Head(pending)} |->
                    IF a = Head(pending) THEN readdata ELSE matrix[a]]
            ELSE matrix

(* ip/ram_det.vhd: both ports are sampled at the edge, a read sees the old *)
(* contents.                                                               *)
Ram ==
  /\ ram' = IF forceReset THEN Blank
            ELSE IF ramWriteEnable
                 THEN [ram EXCEPT ![ramWriteAddress] = ramWriteData] ELSE ram
  /\ ramReadData' = IF forceReset THEN Undefined
                    ELSE IF ramReadEnable THEN ram[ramReadAddress]
                         ELSE ramReadData

(* The cores are clocked with clk_en, the state machine is not: a cycle    *)
(* without clk_en delays the result but not the one who waits for it.      *)
Load(unit, a, b, latency) ==
  core' = [unit |-> unit, a |-> a, b |-> b, left |-> latency, stalls |-> 0]

CoreEdge ==
  IF core.left = 0 THEN UNCHANGED core
  ELSE \/ core' = IF core.left = 1 THEN [core EXCEPT !.left = 0, !.stalls = 0]
                  ELSE [core EXCEPT !.left = @ - 1]
       \/ core.stalls < MaxStalls /\ core' = [core EXCEPT !.stalls = @ + 1]

CoreResult(unit) ==
  IF core.unit # unit \/ core.left > 0 THEN Undefined
  ELSE CASE unit = "mul" -> Times(core.a, core.b)
         [] unit = "addsub" -> Minus(core.a, core.b)
         [] unit = "div" -> Over(core.a, core.b)

Answer(start, status) == reply' = IF start THEN <<status>> ELSE <<>>
-----------------------------------------------------------------------------
(* The reset: after an acknowledged interrupt, and once at the beginning.  *)
(* It lowers done and takes no notice of start.                            *)
Reset ==
  /\ forceReset
  /\ forceReset' = FALSE /\ stage' = 0 /\ reply' = <<>> /\ irq' = FALSE
  /\ read' = FALSE /\ address' = 0 /\ startSdRead' = FALSE
  /\ sdReadAddress' = 0
  /\ ramLoadAddress' = 0 /\ ramWriteDone' = FALSE
  /\ dimension' = DEFAULT_DIMENSION
  /\ i' = 0 /\ j' = 0 /\ p' = 0 /\ k' = 0
  /\ luStage' = 0 /\ diagonalStage' = 0
  /\ ajj' = Undefined /\ aij' = Undefined /\ aip' = Undefined
  /\ finalResult' = 1
  /\ ramReadAddress' = 0 /\ ramReadEnable' = FALSE
  /\ ramWriteAddress' = 0 /\ ramWriteData' = 0 /\ ramWriteEnable' = FALSE
  /\ core' = NoOperation /\ matrix' = Empty
  /\ UNCHANGED <<sdReadBase, rowAddress, pStage, counter>>

(* stage 0: start with a dimension above 1 (datab) is accepted, with 0 or  *)
(* 1 it asks for the status.                                               *)
Accept(start, datab) ==
  /\ stage = 0 /\ ~forceReset /\ start /\ datab > 1
  /\ stage' = 1 /\ reply' = <<ACCEPTED>>
  /\ sdReadAddress' = Base /\ sdReadBase' = Base /\ dimension' = datab
  /\ ramLoadAddress' = 0 /\ startSdRead' = TRUE /\ ramWriteDone' = FALSE
  /\ UNCHANGED <<forceReset, irq, read, address, rowAddress, calcVars, core,
                 matrix>>

Idle(start, datab) ==
  /\ stage = 0 /\ ~forceReset /\ (start => datab <= 1)
  /\ Answer(start, READY)
  /\ UNCHANGED <<stage, forceReset, irq, busVars, calcVars, core, matrix>>
-----------------------------------------------------------------------------
(* stage 1: request, receive and prepare the rows, all in each cycle.      *)

ReadEnd == sdReadBase + dimension * dimension

Request(waitrequest) ==
  /\ UNCHANGED sdReadBase
  /\ \/ /\ startSdRead /\ startSdRead' = FALSE
        /\ read' = TRUE /\ address' = sdReadAddress
        /\ UNCHANGED sdReadAddress
     \/ /\ ~startSdRead /\ read /\ ~waitrequest
        /\ sdReadAddress' = (sdReadAddress + 1) % AddressSpace
        /\ address' = sdReadAddress'
        /\ read' = (sdReadAddress' # ReadEnd)
        /\ UNCHANGED startSdRead
     \/ /\ ~startSdRead /\ ~(read /\ ~waitrequest)
        /\ UNCHANGED <<read, address, sdReadAddress, startSdRead>>

WritePort(to, data, enable) ==
  ramWriteAddress' = to /\ ramWriteData' = data /\ ramWriteEnable' = enable

StartsCalculating == i >= dimension /\ ramWriteDone

(* Mutant: the calculation starts without the last word.                   *)
LastButOne == ramLoadAddress = dimension * dimension - 2
LastWord == ramLoadAddress = dimension * dimension - 1

(* The word is given to the memory's write port, whose registers are       *)
(* cleared in the cycle that starts the calculation.                       *)
Receive(readdatavalid, readdata) ==
  LET accepted == readdatavalid /\ ~ramWriteDone
  IN  /\ ramLoadAddress' = IF accepted THEN (ramLoadAddress + 1) % RAM_WORDS
                           ELSE ramLoadAddress
      /\ ramWriteDone' = (ramWriteDone \/ (accepted /\ LastWord))
      /\ IF StartsCalculating THEN WritePort(0, 0, FALSE)
         ELSE IF accepted THEN WritePort(ramLoadAddress, readdata, TRUE)
         ELSE WritePort(ramWriteAddress, ramWriteData,
                        ramWriteEnable /\ readdatavalid)

(* A row that rowAddress has no entry for is not stored.                   *)
PrepareRows ==
  \/ /\ i < dimension
     /\ rowAddress' = [r \in 0 .. (ROWS - 1) |->
                         IF r = i THEN (i * dimension) % RAM_WORDS
                         ELSE rowAddress[r]]
     /\ i' = i + 1
     /\ UNCHANGED <<stage, readPort>>
  \/ /\ StartsCalculating
     /\ stage' = 2 /\ i' = 0
     /\ ramReadAddress' = 0 /\ ramReadEnable' = FALSE
     /\ UNCHANGED rowAddress
  \/ /\ i >= dimension /\ ~ramWriteDone
     /\ UNCHANGED <<stage, rowAddress, i, readPort>>

Reading(start, waitrequest, readdatavalid, readdata) ==
  /\ stage = 1 /\ ~forceReset
  /\ Answer(start, READING_SDRAM)
  /\ Request(waitrequest)
  /\ Receive(readdatavalid, readdata)
  /\ Remember(readdatavalid, readdata)
  /\ PrepareRows
  /\ UNCHANGED <<forceReset, irq, dimension, j, p, luStage, pStage, ajj, aij,
                 aip, diagonalVars, counter, core>>
-----------------------------------------------------------------------------
(* stage 2: the factorisation.                                             *)

(* An entry that rowAddress does not have reads as anything.               *)
RowAddresses(r) ==
  IF r < ROWS THEN {rowAddress[r]} ELSE 0 .. (RAM_WORDS - 1)

Fetch(row, column) ==
  \E base \in RowAddresses(row) :
    /\ ramReadAddress' = (base + column) % RAM_WORDS
    /\ ramReadEnable' = TRUE

Store(value) ==
  \E base \in RowAddresses(i) :
    WritePort((base + j) % RAM_WORDS, value, TRUE)

(* Wait for a core: cycles count from latency down to 0, and one more.     *)
Wait(stageVar, next, stageVarNext) ==
  IF counter > 0 THEN counter' = counter - 1 /\ stageVarNext = stageVar
  ELSE counter' = counter /\ stageVarNext = next

FetchPivot ==
  /\ luStage = 0
  /\ IF i = 0 THEN luStage' = 12 /\ UNCHANGED readPort
     ELSE luStage' = 1 /\ Fetch(j, j)
  /\ UNCHANGED <<i, j, p, pStage, ajj, aij, aip, counter, writePort>>

FetchLatency ==
  /\ luStage \in {1, 5, 13}
  /\ luStage' = luStage + 1
  /\ ramReadEnable' = FALSE
  /\ UNCHANGED <<i, j, p, pStage, ajj, aij, aip, counter, ramReadAddress,
                 writePort>>

(* luStage 3, to swap the rows when the pivot is zero, has nothing in it.  *)
ReceivePivot ==
  /\ \/ luStage = 2 /\ ajj' = ramReadData /\ luStage' = IF ajj' = 0 THEN 3 ELSE 4
     \/ luStage = 3 /\ ajj' = ajj /\ luStage' = 4
  /\ UNCHANGED <<i, j, p, pStage, aij, aip, counter, readPort, writePort>>

FetchElement ==
  /\ luStage \in {4, 12}
  /\ luStage' = luStage + 1
  /\ Fetch(i, j)
  /\ UNCHANGED <<i, j, p, pStage, ajj, aij, aip, counter, writePort>>

ReceiveElement ==
  /\ luStage \in {6, 14}
  /\ luStage' = luStage + 1
  /\ aij' = ramReadData /\ p' = 0 /\ pStage' = 0
  /\ UNCHANGED <<i, j, ajj, aip, counter, readPort, writePort>>

(* luStage 7 and 15: subtract aip * apj for each p below the diagonal.     *)
PLoop == \/ luStage = 7 /\ p < j
         \/ luStage = 15 /\ p < i

FetchFactors ==
  /\ PLoop
  /\ \/ pStage = 0 /\ pStage' = 1 /\ Fetch(i, p) /\ UNCHANGED aip
     \/ pStage = 1 /\ pStage' = 2 /\ Fetch(p, j) /\ UNCHANGED aip
     \/ /\ pStage = 2 /\ pStage' = 3
        /\ aip' = ramReadData
        /\ ramReadEnable' = FALSE /\ UNCHANGED ramReadAddress
  /\ UNCHANGED <<i, j, p, luStage, ajj, aij, counter, writePort>>

(* Mutant: the counter starts one cycle short.                             *)
StartMultiplyShort ==
  /\ PLoop /\ pStage = 3 /\ pStage' = 4
  /\ Load("mul", aip, ramReadData, MULTPLIER_LATENCY)
  /\ counter' = MULTPLIER_LATENCY - 1
  /\ UNCHANGED <<i, j, p, luStage, ajj, aij, aip, readPort, writePort>>

StartMultiply ==
  /\ PLoop /\ pStage = 3 /\ pStage' = 4
  /\ Load("mul", aip, ramReadData, MULTPLIER_LATENCY)
  /\ counter' = MULTPLIER_LATENCY
  /\ UNCHANGED <<i, j, p, luStage, ajj, aij, aip, readPort, writePort>>

PWait ==
  /\ PLoop /\ pStage \in {4, 6}
  /\ Wait(pStage, pStage + 1, pStage')
  /\ UNCHANGED <<i, j, p, luStage, ajj, aij, aip, readPort, writePort>>

StartSubtract ==
  /\ PLoop /\ pStage = 5 /\ pStage' = 6
  /\ Load("addsub", aij, CoreResult("mul"), ADDER_LATENCY)
  /\ counter' = ADDER_LATENCY
  /\ UNCHANGED <<i, j, p, luStage, ajj, aij, aip, readPort, writePort>>

EndSubtract ==
  /\ PLoop /\ pStage = 7 /\ pStage' = 0
  /\ aij' = CoreResult("addsub") /\ p' = p + 1
  /\ UNCHANGED <<i, j, luStage, ajj, aip, counter, readPort, writePort>>

EndPLoop ==
  /\ luStage \in {7, 15} /\ ~PLoop
  /\ luStage' = luStage + 1
  /\ UNCHANGED <<i, j, p, pStage, ajj, aij, aip, counter, readPort, writePort>>

StartDivide ==
  /\ luStage = 8 /\ luStage' = 9
  /\ Load("div", aij, ajj, DIVIDER_LATENCY)
  /\ counter' = DIVIDER_LATENCY
  /\ UNCHANGED <<i, j, p, pStage, ajj, aij, aip, readPort, writePort>>

DivideWait ==
  /\ luStage = 9
  /\ Wait(luStage, 10, luStage')
  /\ UNCHANGED <<i, j, p, pStage, ajj, aij, aip, readPort, writePort>>

(* The write port stays enabled after an element of the lower factor.      *)
StoreLower ==
  /\ luStage = 10 /\ luStage' = 11
  /\ Store(CoreResult("div"))
  /\ UNCHANGED <<i, j, p, pStage, ajj, aij, aip, counter, readPort>>

NextLower ==
  /\ luStage = 11
  /\ j' = j + 1
  /\ luStage' = IF j' < i THEN 0 ELSE 12
  /\ UNCHANGED <<i, p, pStage, ajj, aij, aip, counter, readPort, writePort>>

StoreUpper ==
  /\ luStage = 16 /\ luStage' = 17
  /\ Store(aij)
  /\ UNCHANGED <<i, j, p, pStage, ajj, aij, aip, counter, readPort>>

NextUpper ==
  /\ luStage = 17
  /\ ramWriteEnable' = FALSE
  /\ IF j + 1 < dimension THEN j' = j + 1 /\ i' = i /\ luStage' = 12
     ELSE j' = 0 /\ i' = i + 1 /\ luStage' = 0
  /\ UNCHANGED <<p, pStage, ajj, aij, aip, counter, readPort, ramWriteAddress,
                 ramWriteData>>

Factor ==
  \/ StartMultiply \/ StartSubtract \/ StartDivide
  \/ /\ CoreEdge
     /\ \/ FetchPivot \/ FetchLatency \/ ReceivePivot \/ FetchElement
        \/ ReceiveElement \/ FetchFactors \/ PWait \/ EndSubtract
        \/ EndPLoop \/ DivideWait
        \/ StoreLower \/ NextLower \/ StoreUpper \/ NextUpper

Factoring(start) ==
  /\ stage = 2 /\ ~forceReset
  /\ Answer(start, CALCULATING)
  /\ \/ i < dimension /\ Factor /\ UNCHANGED stage
     \/ /\ i >= dimension /\ stage' = 3 /\ CoreEdge
        /\ UNCHANGED <<luVars, counter, readPort, writePort>>
  /\ UNCHANGED <<forceReset, irq, busVars, diagonalVars, matrix>>
-----------------------------------------------------------------------------
(* stage 3: the product of the diagonal.                                   *)
FetchDiagonal ==
  /\ k < dimension
  /\ \/ diagonalStage = 0 /\ diagonalStage' = 1 /\ Fetch(k, k)
     \/ /\ diagonalStage = 1 /\ diagonalStage' = 2
        /\ ramReadEnable' = FALSE /\ UNCHANGED ramReadAddress
  /\ UNCHANGED <<k, counter, finalResult, stage, irq>>

MultiplyDiagonal ==
  /\ k < dimension /\ diagonalStage = 2 /\ diagonalStage' = 3
  /\ Load("mul", finalResult, ramReadData, MULTPLIER_LATENCY)
  /\ counter' = MULTPLIER_LATENCY + 1
  /\ UNCHANGED <<k, finalResult, readPort, stage, irq>>

DiagonalWait ==
  /\ k < dimension /\ diagonalStage = 3
  /\ Wait(diagonalStage, 4, diagonalStage')
  /\ UNCHANGED <<k, finalResult, readPort, stage, irq>>

(* Mutant: k stands at the dimension when the last element is multiplied.  *)
NextDiagonalKeepsK ==
  /\ k < dimension /\ diagonalStage = 4 /\ diagonalStage' = 0
  /\ finalResult' = CoreResult("mul") /\ k' = IF k = 0 THEN dimension ELSE k + 1
  /\ UNCHANGED <<counter, readPort, stage, irq>>

NextDiagonal ==
  /\ k < dimension /\ diagonalStage = 4 /\ diagonalStage' = 0
  /\ finalResult' = CoreResult("mul") /\ k' = k + 1
  /\ UNCHANGED <<counter, readPort, stage, irq>>

Finish ==
  /\ k >= dimension
  /\ irq' = TRUE /\ stage' = 4
  /\ UNCHANGED <<diagonalVars, counter, readPort>>

(* done and result of diagonalStage 2 come after those of the status.      *)
Multiplying(start) ==
  /\ stage = 3 /\ ~forceReset
  /\ IF k < dimension /\ diagonalStage = 2 THEN reply' = <<RESULT>>
     ELSE Answer(start, WAIT_IRQ)
  /\ \/ MultiplyDiagonal
     \/ /\ CoreEdge
        /\ FetchDiagonal \/ DiagonalWait \/ NextDiagonal \/ Finish
  /\ UNCHANGED <<forceReset, busVars, luVars, writePort, matrix>>

(* Mutant: the acknowledged engine is not reset.                           *)
WaitForIrqNoReset(start, result_read) ==
  /\ stage = 4 /\ ~forceReset
  /\ Answer(start, WAIT_IRQ)
  /\ IF result_read THEN irq' = FALSE /\ stage' = 0 ELSE UNCHANGED <<irq,
                                                                     stage>>
  /\ CoreEdge
  /\ UNCHANGED <<forceReset, busVars, calcVars, matrix>>

(* stage 4: a load from the slave takes the result and acknowledges.       *)
WaitForIrq(start, result_read) ==
  /\ stage = 4 /\ ~forceReset
  /\ Answer(start, WAIT_IRQ)
  /\ IF result_read THEN irq' = FALSE /\ stage' = 0 /\ forceReset' = TRUE
     ELSE UNCHANGED <<irq, stage, forceReset>>
  /\ CoreEdge
  /\ UNCHANGED <<busVars, calcVars, matrix>>

SlaveRead(result_read) ==
  result_readdata' =
    IF stage = 4 /\ ~forceReset /\ result_read THEN finalResult
    ELSE IF cpu' = "free" THEN Undefined ELSE result_readdata
-----------------------------------------------------------------------------
Clock(start, datab, result_read, waitrequest, readdatavalid, readdata) ==
  /\ Port(start, result_read)
  /\ SlaveRead(result_read)
  /\ Sdram(waitrequest, readdatavalid, readdata)
  /\ Ram
  /\ \/ Reset
     \/ Accept(start, datab)
     \/ Idle(start, datab)
     \/ Reading(start, waitrequest, readdatavalid, readdata)
     \/ Factoring(start)
     \/ Multiplying(start)
     \/ WaitForIrq(start, result_read)

Next ==
  \E start, result_read, waitrequest, readdatavalid \in BOOLEAN :
    \E datab \in IF start THEN Dimensions \cup {0} ELSE {0} :
      \E readdata \in IF readdatavalid THEN Entries ELSE {Undefined} :
        Clock(start, datab, result_read, waitrequest, readdatavalid, readdata)

Spec == Init /\ [][Next]_vars

(* The clock never stops, and the SDRAM does not hold a request, nor its   *)
(* answer, forever.                                                        *)
Grant ==
  /\ read
  /\ \E start, result_read, readdatavalid \in BOOLEAN :
       \E readdata \in IF readdatavalid THEN Entries ELSE {Undefined} :
         Clock(start, 0, result_read, FALSE, readdatavalid, readdata)
Deliver ==
  \E start, result_read, waitrequest \in BOOLEAN, readdata \in Entries :
    Clock(start, 0, result_read, waitrequest, TRUE, readdata)
Fairness == WF_vars(Next) /\ WF_vars(Grant) /\ WF_vars(Deliver)
FairSpec == Spec /\ Fairness
-----------------------------------------------------------------------------
(* Properties                                                              *)

(* The type invariant of the engine and its environment.                   *)
Index == 0 .. 63
Operation == [unit : {"none", "mul", "addsub", "div"}, a : Word, b : Word,
              left : 0 .. ADDER_LATENCY, stalls : 0 .. MaxStalls]
DetTypeOK ==
  /\ stage \in 0 .. 4 /\ forceReset \in BOOLEAN /\ irq \in BOOLEAN
  /\ \/ reply = <<>>
     \/ reply \in {<<s>> : s \in {ACCEPTED, READY, READING_SDRAM, CALCULATING,
                               WAIT_IRQ, RESULT}}
  /\ result_readdata \in Word /\ finalResult \in Word
  /\ read \in BOOLEAN /\ startSdRead \in BOOLEAN /\ ramWriteDone \in BOOLEAN
  /\ address \in Nat /\ sdReadAddress \in Nat /\ sdReadBase \in Nat
  /\ dimension \in Index /\ ramLoadAddress \in 0 .. (RAM_WORDS - 1)
  /\ rowAddress \in [0 .. (ROWS - 1) -> 0 .. (RAM_WORDS - 1)]
  /\ i \in Index /\ j \in Index /\ p \in Index /\ k \in Index
  /\ luStage \in 0 .. 17 /\ pStage \in 0 .. 7 /\ diagonalStage \in 0 .. 4
  /\ counter \in 0 .. ADDER_LATENCY
  /\ ajj \in Word /\ aij \in Word /\ aip \in Word /\ ramReadData \in Word
  /\ ram \in [0 .. (RAM_WORDS - 1) -> Word]
  /\ ramReadAddress \in 0 .. (RAM_WORDS - 1) /\ ramReadEnable \in BOOLEAN
  /\ ramWriteAddress \in 0 .. (RAM_WORDS - 1) /\ ramWriteEnable \in BOOLEAN
  /\ ramWriteData \in Word
  /\ core \in Operation
  /\ pending \in Seq(Nat) /\ cpu \in {"free", "ci", "read", "resp"}

Indices == 0 .. (dimension - 1)
Element(r, c) == matrix[sdReadBase + r * dimension + c]
Loaded == [r \in Indices |-> [c \in Indices |-> Element(r, c)]]

(* A matrix that can be factored without swapping rows: all its leading    *)
(* principal minors but the whole are nonzero.                             *)
Regular == \A n \in 1 .. (dimension - 1) : Determinant(Loaded, n) # 0

(* The calculation starts with the whole matrix in the memory, and with no *)
(* other word of the SDRAM read: requests, answers, the write port of the  *)
(* memory and the row addresses, each with a counter of its own, have all  *)
(* come to the end.                                                        *)
LoadedExactly ==
  stage = 2 /\ i = 0 =>
    /\ DOMAIN matrix = sdReadBase .. (sdReadBase + dimension * dimension - 1)
    /\ \A r, c \in Indices : ram[rowAddress[r] + c] = Element(r, c)

(* When the diagonal is multiplied, the memory holds the two factors of    *)
(* the matrix: the upper one, and below the diagonal the lower one, whose  *)
(* diagonal is 1.                                                          *)
Upper(r, c) == IF r <= c THEN ram[rowAddress[r] + c] ELSE 0
Lower(r, c) == IF r = c THEN 1
               ELSE IF r > c THEN ram[rowAddress[r] + c] ELSE 0
FactorsMultiply ==
  stage = 3 /\ Regular =>
    \A r, c \in Indices :
      LET product(m) == Times(Lower(r, m), Upper(m, c))
      IN  Total(Indices, product) = Element(r, c)

(* The result is the determinant of the matrix in SDRAM.                   *)
DeterminantRight ==
  stage = 4 /\ Regular => finalResult = Determinant(Loaded, dimension)

(* A floating point result is taken only when its core has finished, with  *)
(* up to MaxStalls cycles in which the core, but not the state machine,    *)
(* stood still.                                                            *)
Taken(unit) == core.unit = unit /\ core.left = 0
ResultsReady ==
  /\ stage = 2 /\ PLoop /\ pStage = 5 => Taken("mul")
  /\ stage = 2 /\ PLoop /\ pStage = 7 => Taken("addsub")
  /\ stage = 2 /\ luStage = 10 => Taken("div")
  /\ stage = 3 /\ diagonalStage = 4 => Taken("mul")

(* Only a reading engine has business with the SDRAM: no answer to a run   *)
(* can come when its calculation, or a later run, is on.                   *)
DetQuiet == stage # 1 => ~read /\ pending = <<>>

(* Every instruction is answered in the next cycle, whatever the engine is *)
(* doing, and also around its resets.                                      *)
InstructionsAnswered == cpu = "ci" => reply # <<>>

(* The status codes of the module's header, and no others, are the answers *)
(* to an instruction.                                                      *)
StatusAnswered ==
  cpu = "ci" => \A s \in {reply[n] : n \in DOMAIN reply} :
                  s \in {READY, ACCEPTED, READING_SDRAM, CALCULATING, WAIT_IRQ}

(* Rows are swapped when an element of the diagonal becomes zero, so that  *)
(* the determinant of every invertible matrix is found.                    *)
RowsSwapped ==
  stage = 4 /\ Determinant(Loaded, dimension) # 0
    => finalResult = Determinant(Loaded, dimension)

=============================================================================
