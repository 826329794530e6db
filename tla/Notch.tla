-------------------------------- MODULE Notch -------------------------------
(***************************************************************************)
(* The notch filter engine of ip/notch.v, one action per kind of clock     *)
(* cycle.  The CPU starts it with a custom instruction, the engine then    *)
(* masters the SDRAM bus by itself: it requests the samples of a buffer,   *)
(* takes the answers, filters them and writes them back, keeping three     *)
(* FIFOs between those activities, and raises an interrupt at the end.     *)
(*                                                                         *)
(* Data.  A sample is not a number here but the story of a request: which  *)
(* request of the run it answers (nth, the value readAddress had) and the  *)
(* address that was on the bus (from).  The filter arithmetic and the      *)
(* choice of writing y(n) or x(n) (writeToResult) do not move samples and  *)
(* are left out.  Addresses count 32-bit words: SDRAM_WORD_SKIP, four      *)
(* bytes, is one step.  A register that matters only while a valid bit     *)
(* stands (done/result, wrreq/data, sdwrite/sdwritedata) is a sequence of  *)
(* length 0 or 1, and a register that the next stage has consumed is <<>>. *)
(***************************************************************************)
EXTENDS Integers, Fifo

CONSTANTS NO_SAMPLES,     \* samples of one run: 963144 in the repository
          AddressSpace,   \* words a 24-bit byte address can name
          Bases,          \* the nonzero buffer addresses the CPU may pass
          Registers,      \* the status registers the CPU reads
          MaxPending      \* reads the SDRAM controller holds unanswered

ASSUME NotchAssumption ==
  /\ NO_SAMPLES \in Nat \ {0}
  /\ AddressSpace \in Nat \ {0}
  /\ Bases \subseteq 1 .. (AddressSpace - 1)
  /\ Registers \subseteq 0 .. 12
  /\ MaxPending \in Nat \ {0}

SDRAM_WORD_SKIP == 4      \* bytes of a word

(* Results of the custom instruction that are not a count of samples.      *)
ACCEPTED == 99
READY    == -1
FINISHED == -2

VARIABLES
  stage,                  \* 0 idle, 1 running, 2 waiting for the interrupt
  forceReset, irq,
  reply,                  \* <<result>> while done is high
  sdBase, readAddress, writeAddress, startSdRead,
  sdread, sdwrite, sdaddress, sdwritedata, writeStage,
  reqFifoUsed, readFifo, writeFifo,
  fifoClear,              \* reqFifoClear, readFifoClear and writeFifoClear
  reqFifoWriteRequest,
  fetch,                  \* readFifoReadRequest and reqFifoReadRequest
  readFifoWrite, readFifoOutput,
  writeFifoReadRequest, writeFifoWrite, writeFifoOutput,
  calculationStage, x_n, calculationCount,
  sdReceiveCount, sdDiscardedRead,
  slave_address, slave_readdata,
  pending,                \* SDRAM: reads accepted and not answered yet
  cpu                     \* what the CPU's bus and instruction ports await

busVars   == <<sdread, sdwrite, sdaddress, sdwritedata, writeStage,
               readAddress, writeAddress, startSdRead, reqFifoWriteRequest,
               writeFifoReadRequest>>
calcVars  == <<fetch, calculationStage, x_n, calculationCount, writeFifoWrite>>
recvVars  == <<readFifoWrite, sdReceiveCount, sdDiscardedRead>>
fifoVars  == <<reqFifoUsed, readFifo, writeFifo, readFifoOutput,
               writeFifoOutput>>
vars == <<stage, forceReset, irq, reply, sdBase, fifoClear, slave_address,
          slave_readdata, pending, cpu, busVars, calcVars, recvVars, fifoVars>>

Addresses == 0 .. (AddressSpace - 1)
Sample == [nth : Addresses, from : Addresses]
AtMostOne(S) == {q \in Seq(S) : Len(q) <= 1}

(* Address registers have 24 bits; the comparisons with the end of the     *)
(* buffer are done in 32 bits and do not wrap, the distance from its start *)
(* is a 32-bit difference.                                                 *)
Next1(a) == IF a + 1 = AddressSpace THEN 0 ELSE a + 1
End == sdBase + NO_SAMPLES
WordsOf32Bits == 1073741824
Distance(a, base) == IF a >= base THEN a - base ELSE a - base + WordsOf32Bits

(* The buffer and the word after it lie within the address space.  The     *)
(* engine needs this (see RunsComplete) and does not check it; the program *)
(* of the repository passes an address for which it holds.                 *)
BuffersFit == \A base \in Bases : base + NO_SAMPLES < AddressSpace

Init ==
  /\ stage = 0 /\ forceReset = FALSE /\ irq = FALSE /\ reply = <<>>
  /\ sdBase = 0 /\ readAddress = 0 /\ writeAddress = 0
  /\ startSdRead = FALSE /\ fifoClear = FALSE
  /\ sdread = FALSE /\ sdwrite = FALSE /\ sdaddress = 0
  /\ sdwritedata = <<>> /\ writeStage = 0
  /\ reqFifoUsed = 0 /\ readFifo = <<>> /\ writeFifo = <<>>
  /\ reqFifoWriteRequest = FALSE /\ fetch = FALSE
  /\ readFifoWrite = <<>> /\ readFifoOutput = <<>>
  /\ writeFifoReadRequest = FALSE
  /\ writeFifoWrite = <<>> /\ writeFifoOutput = <<>>
  /\ calculationStage = 0 /\ x_n = <<>> /\ calculationCount = 0
  /\ sdReceiveCount = 0 /\ sdDiscardedRead = 0
  /\ slave_address = 0 /\ slave_readdata = 0 /\ pending = <<>> /\ cpu = "free"
-----------------------------------------------------------------------------
(* What surrounds the engine: the CPU's two ports and the SDRAM.           *)

(* A multi-cycle custom instruction holds the CPU until done; a load from  *)
(* the slave keeps slave_read up for two cycles (one read wait state) and  *)
(* its answer is one more cycle in the interconnect.                       *)
Port(start, read) ==
  \/ /\ cpu = "free" /\ ~(start /\ read)
     /\ cpu' = IF start THEN "ci" ELSE IF read THEN "read" ELSE "free"
     /\ IF read THEN slave_address' \in Registers ELSE slave_address' = 0
  \/ /\ cpu = "ci" /\ ~start /\ ~read
     /\ cpu' = IF reply # <<>> THEN "free" ELSE "ci"
     /\ UNCHANGED slave_address
  \/ /\ cpu = "read" /\ ~start /\ read
     /\ cpu' = "resp"
     /\ UNCHANGED slave_address
  \/ /\ cpu = "resp" /\ ~start /\ ~read
     /\ cpu' = "free"
     /\ slave_address' = 0

Bit(b) == IF b THEN 1 ELSE 0

(* The status registers by address; 0 and 7 count bytes.                   *)
StatusRegister(address, sdwaitrequest) ==
  CASE address = 0  -> SDRAM_WORD_SKIP * Distance(readAddress, sdBase)
    [] address = 1  -> Usedw(reqFifoUsed)
    [] address = 2  -> Usedw(Used(readFifo))
    [] address = 3  -> sdReceiveCount
    [] address = 4  -> sdDiscardedRead
    [] address = 5  -> calculationStage
    [] address = 6  -> calculationCount
    [] address = 7  -> SDRAM_WORD_SKIP * Distance(writeAddress, sdBase)
    [] address = 8  -> Usedw(Used(writeFifo))
    [] address = 9  -> Bit(sdread)
    [] address = 10 -> Bit(sdwaitrequest)
    [] address = 11 -> Bit(sdwrite)
    [] address = 12 -> stage

(* The register is reloaded in every cycle of a load, and forgotten here   *)
(* when the CPU has its answer.                                            *)
SlaveRead(read, sdwaitrequest) ==
  slave_readdata' = IF read THEN StatusRegister(slave_address', sdwaitrequest)
                    ELSE IF cpu' = "free" THEN 0 ELSE slave_readdata

(* The SDRAM controller makes a request wait as long as it likes, answers  *)
(* reads in order, never in the cycle in which it accepted them.           *)
Sdram(sdwaitrequest, sdreaddatavalid) ==
  /\ sdwaitrequest => sdread \/ sdwrite
  /\ sdreaddatavalid => pending # <<>>
  /\ sdread /\ ~sdwaitrequest => Used(pending) < MaxPending
  /\ pending' =
       (IF sdreaddatavalid THEN Tail(pending) ELSE pending)
         \o (IF sdread /\ ~sdwaitrequest
               THEN <<[nth |-> readAddress, from |-> sdaddress]>> ELSE <<>>)

(* The three FIFOs see the request registers of the previous cycle.        *)
Fifos ==
  /\ reqFifoUsed' =
       CountAfterEdge(reqFifoUsed, reqFifoWriteRequest, fetch, fifoClear)
  /\ readFifo' = AfterEdge(readFifo, readFifoWrite, fetch, fifoClear)
  /\ readFifoOutput' = Output(readFifo, fetch)
  /\ writeFifo' =
       AfterEdge(writeFifo, writeFifoWrite, writeFifoReadRequest, fifoClear)
  /\ writeFifoOutput' = Output(writeFifo, writeFifoReadRequest)
-----------------------------------------------------------------------------
(* stage 0 and the reset                                                   *)

(* The cycle after an acknowledged interrupt: forceReset clears the engine *)
(* but neither irq nor done, and takes no notice of start.                 *)
Reset ==
  /\ forceReset
  /\ forceReset' = FALSE /\ stage' = 0 /\ fifoClear' = TRUE
  /\ sdBase' = 0 /\ readAddress' = 0 /\ writeAddress' = 0
  /\ startSdRead' = FALSE
  /\ sdread' = FALSE /\ sdwrite' = FALSE /\ sdaddress' = 0
  /\ sdwritedata' = <<>> /\ writeStage' = 0
  /\ reqFifoWriteRequest' = FALSE /\ fetch' = FALSE
  /\ readFifoWrite' = <<>>
  /\ writeFifoReadRequest' = FALSE /\ writeFifoWrite' = <<>>
  /\ calculationStage' = 0 /\ x_n' = <<>> /\ calculationCount' = 0
  /\ sdReceiveCount' = 0 /\ sdDiscardedRead' = 0
  /\ UNCHANGED <<irq, reply>>

IdleStage == stage = 0 /\ ~forceReset /\ fifoClear' = FALSE

(* start with dataa # 0: accept the buffer at dataa.                       *)
Accept(start, dataa) ==
  /\ IdleStage /\ start /\ dataa # 0
  /\ reply' = <<ACCEPTED>> /\ stage' = 1
  /\ sdBase' = dataa /\ writeAddress' = dataa /\ readAddress' = dataa
  /\ startSdRead' = TRUE
  /\ fetch' = FALSE /\ reqFifoWriteRequest' = FALSE
  /\ readFifoWrite' = <<>> /\ writeFifoReadRequest' = FALSE
  /\ writeFifoWrite' = <<>>
  /\ UNCHANGED <<forceReset, irq, sdread, sdwrite, sdaddress, sdwritedata,
                 writeStage, calculationStage, x_n, calculationCount,
                 sdReceiveCount, sdDiscardedRead>>

(* Mutant: done is not lowered.                                            *)
IdleKeepsDone(start, dataa) ==
  /\ IdleStage /\ (start => dataa = 0)
  /\ reply' = IF start THEN <<READY>> ELSE reply
  /\ UNCHANGED <<stage, forceReset, irq, sdBase, busVars, calcVars, recvVars>>

(* start with dataa = 0 asks for the status; otherwise done is lowered.    *)
Idle(start, dataa) ==
  /\ IdleStage /\ (start => dataa = 0)
  /\ reply' = IF start THEN <<READY>> ELSE <<>>
  /\ UNCHANGED <<stage, forceReset, irq, sdBase, busVars, calcVars, recvVars>>
-----------------------------------------------------------------------------
(* stage 1, the SDRAM port: exactly one of the alternatives in each cycle  *)

StartReading ==
  /\ startSdRead /\ startSdRead' = FALSE
  /\ sdread' = TRUE /\ sdaddress' = sdBase
  /\ reqFifoWriteRequest' = FALSE
  /\ UNCHANGED <<stage, irq, sdwrite, sdwritedata, writeStage, readAddress,
                 writeAddress, writeFifoReadRequest>>

(* Mutants: the run ends one word early; the interrupt is not raised.      *)
FinishEarly ==
  /\ ~startSdRead /\ writeAddress >= End - 1
  /\ stage' = 2 /\ irq' = TRUE
  /\ sdread' = FALSE /\ sdwrite' = FALSE /\ sdwritedata' = <<>>
  /\ UNCHANGED <<sdaddress, writeStage, readAddress, writeAddress,
                 startSdRead, reqFifoWriteRequest, writeFifoReadRequest>>

FinishSilently ==
  /\ writeAddress >= End
  /\ stage' = 2 /\ irq' = FALSE
  /\ sdread' = FALSE /\ sdwrite' = FALSE /\ sdwritedata' = <<>>
  /\ UNCHANGED <<sdaddress, writeStage, readAddress, writeAddress,
                 startSdRead, reqFifoWriteRequest, writeFifoReadRequest>>

Finish ==
  /\ writeAddress >= End
  /\ stage' = 2 /\ irq' = TRUE
  /\ sdread' = FALSE /\ sdwrite' = FALSE /\ sdwritedata' = <<>>
  /\ UNCHANGED <<sdaddress, writeStage, readAddress, writeAddress,
                 startSdRead, reqFifoWriteRequest, writeFifoReadRequest>>

Busy == ~startSdRead /\ writeAddress < End /\ UNCHANGED <<stage, irq,
                                                          startSdRead>>

(* Mutants: reading never yields to the answers; a request is forgotten    *)
(* when reading yields.                                                    *)
AcceptedReadOn(sdwaitrequest) ==
  /\ Busy /\ sdread /\ ~sdwaitrequest
  /\ reqFifoWriteRequest' = TRUE
  /\ readAddress' = Next1(readAddress) /\ sdaddress' = Next1(readAddress)
  /\ sdread' = (readAddress < End - 1)
  /\ UNCHANGED <<sdwrite, sdwritedata, writeStage, writeAddress,
                 writeFifoReadRequest>>

AcceptedReadForgotten(sdwaitrequest) ==
  /\ Busy /\ sdread /\ ~sdwaitrequest
  /\ reqFifoWriteRequest' = TRUE
  /\ readAddress' = IF AlmostFull(reqFifoUsed) THEN readAddress
                    ELSE Next1(readAddress)
  /\ sdaddress' = Next1(readAddress)
  /\ sdread' = (readAddress < End - 1 /\ ~AlmostFull(reqFifoUsed))
  /\ UNCHANGED <<sdwrite, sdwritedata, writeStage, writeAddress,
                 writeFifoReadRequest>>

(* An accepted request is noted in the request FIFO.  The last one ends    *)
(* reading; with the FIFO almost full reading yields, the address register *)
(* staying where it is; otherwise the next request follows at once.        *)
AcceptedRead(sdwaitrequest) ==
  /\ Busy /\ sdread /\ ~sdwaitrequest
  /\ reqFifoWriteRequest' = TRUE
  /\ readAddress' = Next1(readAddress)
  /\ \/ /\ readAddress >= End - 1 \/ AlmostFull(reqFifoUsed)
        /\ sdread' = FALSE
        /\ UNCHANGED sdaddress
     \/ /\ readAddress < End - 1 /\ ~AlmostFull(reqFifoUsed)
        /\ sdaddress' = Next1(readAddress)
        /\ UNCHANGED sdread
  /\ UNCHANGED <<sdwrite, sdwritedata, writeStage, writeAddress,
                 writeFifoReadRequest>>

(* Mutant: reading yields although the SDRAM holds up its request.         *)
HeldReadYields(sdwaitrequest) ==
  /\ Busy /\ sdread /\ sdwaitrequest
  /\ reqFifoWriteRequest' = FALSE
  /\ sdread' = ~AlmostFull(reqFifoUsed)
  /\ UNCHANGED <<sdaddress, sdwrite, sdwritedata, writeStage,
                 readAddress, writeAddress, writeFifoReadRequest>>

HeldRead(sdwaitrequest) ==
  /\ Busy /\ sdread /\ sdwaitrequest
  /\ reqFifoWriteRequest' = FALSE
  /\ UNCHANGED <<sdread, sdaddress, sdwrite, sdwritedata, writeStage,
                 readAddress, writeAddress, writeFifoReadRequest>>

(* The steps of a write: request a word from the FIFO, wait for it, put it *)
(* on the bus, hold it there until it is accepted.                         *)
Writing ==
  Busy /\ ~sdread /\ (writeStage # 0 \/ sdwrite) /\ reqFifoWriteRequest' = FALSE

FetchWrite ==
  /\ Writing
  /\ \/ writeStage = 1 /\ writeFifoReadRequest' = TRUE /\ writeStage' = 2
     \/ writeStage = 2 /\ writeFifoReadRequest' = FALSE /\ writeStage' = 3
  /\ UNCHANGED <<sdread, sdwrite, sdaddress, sdwritedata, readAddress,
                 writeAddress>>

StartWrite ==
  /\ Writing /\ writeStage = 3
  /\ sdwrite' = TRUE /\ sdwritedata' = writeFifoOutput
  /\ sdaddress' = writeAddress /\ writeStage' = 4
  /\ UNCHANGED <<sdread, readAddress, writeAddress, writeFifoReadRequest>>

AcceptedWrite(sdwaitrequest) ==
  /\ Writing /\ writeStage = 4 /\ ~sdwaitrequest
  /\ sdwrite' = FALSE /\ sdwritedata' = <<>>
  /\ writeAddress' = Next1(writeAddress) /\ writeStage' = 0
  /\ UNCHANGED <<sdread, sdaddress, readAddress, writeFifoReadRequest>>

HeldWrite(sdwaitrequest) ==
  /\ Writing /\ writeStage = 4 /\ sdwaitrequest
  /\ UNCHANGED <<sdread, sdwrite, sdaddress, sdwritedata, writeStage,
                 readAddress, writeAddress, writeFifoReadRequest>>

(* Mutant: writing waits until reading is over.                            *)
ChooseReading ==
  /\ Busy /\ ~sdread /\ writeStage = 0 /\ ~sdwrite
  /\ reqFifoWriteRequest' = FALSE
  /\ sdread' = (readAddress < End /\ ~AlmostFull(reqFifoUsed))
  /\ writeStage' = IF readAddress >= End /\ writeFifo # <<>> THEN 1 ELSE 0
  /\ UNCHANGED <<sdwrite, sdaddress, sdwritedata, readAddress, writeAddress,
                 writeFifoReadRequest>>

(* Neither reading nor writing: reading has priority, and starts again     *)
(* with whatever sdaddress holds.                                          *)
Choose ==
  /\ Busy /\ ~sdread /\ writeStage = 0 /\ ~sdwrite
  /\ reqFifoWriteRequest' = FALSE
  /\ LET mayRead == readAddress < End /\ ~AlmostFull(reqFifoUsed)
     IN  /\ sdread' = mayRead
         /\ writeStage' = IF ~mayRead /\ writeFifo # <<>> THEN 1 ELSE 0
  /\ UNCHANGED <<sdwrite, sdaddress, sdwritedata, readAddress, writeAddress,
                 writeFifoReadRequest>>

SdPort(sdwaitrequest) ==
  \/ StartReading \/ Finish
  \/ AcceptedRead(sdwaitrequest) \/ HeldRead(sdwaitrequest)
  \/ FetchWrite \/ StartWrite
  \/ AcceptedWrite(sdwaitrequest) \/ HeldWrite(sdwaitrequest)
  \/ Choose
-----------------------------------------------------------------------------
(* stage 1, the answers of the SDRAM and the calculation                   *)

(* An answer is handed to the read FIFO, or counted as discarded when that *)
(* FIFO is full (the write request is then left as it was).                *)
Receive(sdreaddatavalid) ==
  \/ /\ sdreaddatavalid /\ ~Full(Used(readFifo))
     /\ readFifoWrite' = <<Head(pending)>>
     /\ sdReceiveCount' = sdReceiveCount + 1
     /\ UNCHANGED sdDiscardedRead
  \/ /\ sdreaddatavalid /\ Full(Used(readFifo))
     /\ sdDiscardedRead' = sdDiscardedRead + 1
     /\ UNCHANGED <<readFifoWrite, sdReceiveCount>>
  \/ /\ ~sdreaddatavalid
     /\ readFifoWrite' = <<>>
     /\ UNCHANGED <<sdReceiveCount, sdDiscardedRead>>

(* Take the next sample, and drain its entry from the request FIFO.        *)
FetchSample ==
  /\ calculationStage = 0
  /\ fetch' = (readFifo # <<>>)
  /\ calculationStage' = IF readFifo # <<>> THEN 1 ELSE 0
  /\ UNCHANGED <<x_n, calculationCount, writeFifoWrite>>

LoadSample ==
  /\ \/ calculationStage = 1 /\ fetch' = FALSE /\ x_n' = x_n
     \/ calculationStage = 2 /\ fetch' = fetch /\ x_n' = readFifoOutput
  /\ calculationStage' = calculationStage + 1
  /\ UNCHANGED <<calculationCount, writeFifoWrite>>

(* Multiply, wait for the multipliers, accumulate twice, scale.  There is  *)
(* no stage 8.                                                             *)
Arithmetic ==
  /\ calculationStage \in 3 .. 7
  /\ calculationStage' = IF calculationStage = 7 THEN 9
                         ELSE calculationStage + 1
  /\ UNCHANGED <<fetch, x_n, calculationCount, writeFifoWrite>>

(* Hand the result to the write FIFO once that is not almost full.         *)
StoreResult ==
  /\ calculationStage = 9
  /\ \/ /\ ~AlmostFull(Used(writeFifo))
        /\ writeFifoWrite' = x_n /\ x_n' = <<>>
        /\ calculationStage' = 10
     \/ /\ AlmostFull(Used(writeFifo))
        /\ UNCHANGED <<writeFifoWrite, x_n, calculationStage>>
  /\ UNCHANGED <<fetch, calculationCount>>

EndSample ==
  /\ calculationStage = 10
  /\ calculationCount' = calculationCount + 1
  /\ writeFifoWrite' = <<>> /\ calculationStage' = 0
  /\ UNCHANGED <<fetch, x_n>>

Calculate ==
  FetchSample \/ LoadSample \/ Arithmetic \/ StoreResult \/ EndSample

(* A cycle of stage 1 is all three at once, and the answer to a start: the *)
(* number of samples written so far.                                       *)
Run(start, sdwaitrequest, sdreaddatavalid) ==
  /\ stage = 1 /\ ~forceReset
  /\ reply' = IF start THEN <<Distance(writeAddress, sdBase)>> ELSE <<>>
  /\ SdPort(sdwaitrequest)
  /\ Receive(sdreaddatavalid)
  /\ Calculate
  /\ UNCHANGED <<forceReset, fifoClear, sdBase>>
-----------------------------------------------------------------------------
(* Mutant: the acknowledged interrupt stays up.                            *)
WaitForIrqKept(start, read) ==
  /\ stage = 2 /\ ~forceReset
  /\ reply' = IF start THEN <<FINISHED>> ELSE <<>>
  /\ irq' = irq
  /\ forceReset' = read
  /\ UNCHANGED <<stage, fifoClear, sdBase, busVars, calcVars, recvVars>>

(* stage 2: any load from the slave acknowledges the interrupt.            *)
WaitForIrq(start, read) ==
  /\ stage = 2 /\ ~forceReset
  /\ reply' = IF start THEN <<FINISHED>> ELSE <<>>
  /\ irq' = (irq /\ ~read)
  /\ forceReset' = read
  /\ UNCHANGED <<stage, fifoClear, sdBase, busVars, calcVars, recvVars>>
-----------------------------------------------------------------------------
(* One rising edge of the clock with the given inputs.                     *)
Clock(start, dataa, read, sdwaitrequest, sdreaddatavalid) ==
  /\ Port(start, read)
  /\ SlaveRead(read, sdwaitrequest)
  /\ Sdram(sdwaitrequest, sdreaddatavalid)
  /\ Fifos
  /\ \/ Reset
     \/ Accept(start, dataa)
     \/ Idle(start, dataa)
     \/ Run(start, sdwaitrequest, sdreaddatavalid)
     \/ WaitForIrq(start, read)

Next ==
  \E start, read, sdwaitrequest, sdreaddatavalid \in BOOLEAN :
    \E dataa \in IF start THEN Bases \cup {0} ELSE {0} :
      Clock(start, dataa, read, sdwaitrequest, sdreaddatavalid)

Spec == Init /\ [][Next]_vars

(* The clock never stops, and the SDRAM does not hold a request, nor its   *)
(* answer to a read, forever.                                              *)
Tick == \E start, read, sdwaitrequest, sdreaddatavalid \in BOOLEAN :
          Clock(start, 0, read, sdwaitrequest, sdreaddatavalid)
Grant == /\ sdread \/ sdwrite
         /\ \E start, read, sdreaddatavalid \in BOOLEAN :
              Clock(start, 0, read, FALSE, sdreaddatavalid)
Answer == \E start, read, sdwaitrequest \in BOOLEAN :
            Clock(start, 0, read, sdwaitrequest, TRUE)
Fairness == WF_vars(Tick) /\ WF_vars(Grant) /\ WF_vars(Answer)
FairSpec == Spec /\ Fairness
-----------------------------------------------------------------------------
(* Properties                                                              *)

(* The type invariant of the engine, its FIFOs and its two environments.   *)
TypeOK ==
  /\ stage \in 0 .. 2 /\ forceReset \in BOOLEAN /\ irq \in BOOLEAN
  /\ reply \in AtMostOne(Int)
  /\ sdBase \in Addresses /\ readAddress \in Addresses
  /\ writeAddress \in Addresses /\ sdaddress \in Addresses
  /\ startSdRead \in BOOLEAN /\ sdread \in BOOLEAN /\ sdwrite \in BOOLEAN
  /\ sdwritedata \in AtMostOne(Sample) /\ writeStage \in 0 .. 4
  /\ reqFifoUsed \in Nat
  /\ readFifo \in Seq(Sample) /\ writeFifo \in Seq(Sample)
  /\ fifoClear \in BOOLEAN /\ reqFifoWriteRequest \in BOOLEAN
  /\ fetch \in BOOLEAN /\ writeFifoReadRequest \in BOOLEAN
  /\ readFifoWrite \in AtMostOne(Sample)
  /\ readFifoOutput \in AtMostOne(Sample)
  /\ writeFifoWrite \in AtMostOne(Sample)
  /\ writeFifoOutput \in AtMostOne(Sample)
  /\ calculationStage \in (0 .. 10) \ {8} /\ x_n \in AtMostOne(Sample)
  /\ calculationCount \in Nat /\ sdReceiveCount \in Nat
  /\ sdDiscardedRead \in Nat
  /\ slave_address \in Registers \cup {0} /\ slave_readdata \in Int
  /\ pending \in Seq(Sample)
  /\ cpu \in {"free", "ci", "read", "resp"}

(* No FIFO ever loses a word or is read empty, although both of its ports  *)
(* act a cycle after the flags were looked at: the requests still in       *)
(* flight when reading yields always find room, so a sample is never       *)
(* discarded.                                                              *)
FifosLossless ==
  /\ reqFifoWriteRequest => ~Full(reqFifoUsed)
  /\ readFifoWrite # <<>> => ~Full(Used(readFifo))
  /\ writeFifoWrite # <<>> => ~Full(Used(writeFifo))
  /\ fetch => reqFifoUsed > 0 /\ readFifo # <<>>
  /\ writeFifoReadRequest => writeFifo # <<>>
  /\ sdDiscardedRead = 0

(* Every sample requested and not yet written back, the oldest first, in   *)
(* all the places where the engine keeps one.                              *)
Pipeline == sdwritedata \o writeFifoOutput \o writeFifo \o writeFifoWrite
            \o x_n \o readFifoOutput \o readFifo \o readFifoWrite \o pending

(* The engine neither drops, repeats nor reorders samples: the pipeline is *)
(* the run of requests from writeAddress up to readAddress, so each word   *)
(* is written at the address of the request it answers.                    *)
PipelineInOrder ==
  /\ stage = 1 => Len(Pipeline) = readAddress - writeAddress
  /\ \A i \in 1 .. Len(Pipeline) : Pipeline[i].nth = writeAddress + i - 1

(* Outside a run nothing is in flight: an answer of the SDRAM to an old    *)
(* run can never be taken for a sample of the next one, and when the       *)
(* interrupt is up every sample was received, calculated and written.      *)
QuietOutsideRuns ==
  /\ stage # 1 => Pipeline = <<>> /\ ~sdread /\ ~sdwrite
  /\ irq => /\ stage = 2 /\ writeAddress = End /\ readAddress = End
            /\ sdReceiveCount = NO_SAMPLES
            /\ calculationCount = NO_SAMPLES

(* Why: every register of the engine accounts for the samples it holds.    *)

(* ... the sample in the calculation is where calculationStage says,       *)
CalculationHolds ==
  /\ fetch <=> calculationStage = 1
  /\ fetch => Used(readFifo) > 0
  /\ Used(readFifoOutput) = Bit(calculationStage = 2)
  /\ Used(x_n) = Bit(calculationStage \in 3 .. 9)
  /\ Used(writeFifoWrite) = Bit(calculationStage = 10)
  /\ Used(writeFifo) + Used(writeFifoWrite) <= ALMOST_FULL

(* ... the word being written is where writeStage says,                    *)
WriteHolds ==
  /\ writeFifoReadRequest <=> writeStage = 2
  /\ writeStage \in {1, 2} => Used(writeFifo) > 0
  /\ Used(writeFifoOutput) = Bit(writeStage = 3)
  /\ Used(sdwritedata) = Bit(writeStage = 4)
  /\ sdwrite <=> writeStage = 4
  /\ sdread => writeStage = 0

(* ... the request FIFO counts the samples between the SDRAM port and the  *)
(* calculation, and reading goes on only while it has room for two more,   *)
RequestsHold ==
  /\ reqFifoUsed + Bit(reqFifoWriteRequest)
       = Used(pending) + Used(readFifo) + Used(readFifoWrite)
  /\ Bit(reqFifoWriteRequest) <= Used(pending)
  /\ reqFifoUsed + Bit(reqFifoWriteRequest) <= ALMOST_FULL + 2
  /\ sdread => reqFifoUsed + Bit(reqFifoWriteRequest) <= ALMOST_FULL + 1

(* ... the counters say how many samples have passed each of them,         *)
CountersHold ==
  /\ readAddress = sdBase + sdReceiveCount + Used(pending)
  /\ sdReceiveCount = calculationCount + Used(readFifoWrite) + Used(readFifo)
                        + Used(readFifoOutput) + Used(x_n)
                        + Used(writeFifoWrite)
  /\ sdBase + calculationCount = writeAddress + Used(writeFifo)
                                  + Used(writeFifoOutput) + Used(sdwritedata)
  /\ sdDiscardedRead = 0

(* ... and the stages bound the addresses.                                 *)
StagesHold ==
  /\ irq <=> stage = 2 /\ ~forceReset
  /\ forceReset => stage = 2
  /\ stage # 0 => sdBase \in Bases /\ ~fifoClear /\ readAddress <= End
  /\ sdread => stage = 1 /\ readAddress < End
  /\ startSdRead => stage = 1 /\ ~sdread /\ writeStage = 0
                    /\ reqFifoUsed = 0 /\ readAddress = sdBase
                    /\ writeAddress = sdBase
  /\ stage = 0 => readAddress = sdBase /\ writeAddress = sdBase
  /\ stage = 2 => readAddress = End /\ writeAddress = End

(* The inductive invariant.                                                *)
EngineInv == /\ TypeOK /\ CalculationHolds /\ WriteHolds /\ RequestsHold
             /\ CountersHold /\ StagesHold

(* done is high exactly while the CPU waits in the custom instruction: no  *)
(* start is swallowed by the reset that follows an acknowledged interrupt, *)
(* and no instruction returns on the done of an earlier one.               *)
StartsAnswered == reply # <<>> <=> cpu = "ci"

(* The Avalon rule for masters: a request the SDRAM holds up stays on the  *)
(* bus unchanged, and there is never a read and a write at once.           *)
BusStable ==
  [][/\ ~(sdread /\ sdwrite)
     /\ sdread /\ readAddress' = readAddress
          => sdread' /\ sdaddress' = sdaddress
     /\ sdwrite /\ writeAddress' = writeAddress
          => /\ sdwrite' /\ sdaddress' = sdaddress
             /\ sdwritedata' = sdwritedata]_vars

(* The processing is in situ: each sample comes from the address to which  *)
(* its result will be written.                                             *)
InSitu == \A i \in 1 .. Len(Pipeline) : Pipeline[i].from = Pipeline[i].nth

=============================================================================
