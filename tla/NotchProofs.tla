---------------------------- MODULE NotchProofs -----------------------------
(***************************************************************************)
(* The notch engine, for every size of its FIFOs, every number of samples, *)
(* and every behaviour of the SDRAM and the CPU: it keeps its types        *)
(* (TypeCorrect); when every buffer fits into the address space            *)
(* (BuffersFit), its counters agree (EngineInv), what follows from them,   *)
(* the samples stay in order (OrderInv), and it implements what            *)
(* SampleStream promises to the program.                                   *)
(***************************************************************************)
EXTENDS NotchStream, SequenceTheorems, TLAPS

-----------------------------------------------------------------------------
(* Lemmas about the FIFO.                                                  *)

(* The sequences of length at most one.                                    *)
LEMMA AtMostOneType ==
  ASSUME NEW S, NEW q \in AtMostOne(S)
  PROVE  /\ q \in Seq(S)
         /\ Len(q) = IF q = <<>> THEN 0 ELSE 1
         /\ q # <<>> => Head(q) \in S /\ q = <<Head(q)>>
<1>1. q \in Seq(S) /\ Len(q) <= 1
  BY DEF AtMostOne
<1>2. Len(q) = IF q = <<>> THEN 0 ELSE 1
  <2>1. CASE q = <<>>
    BY <2>1
  <2>2. CASE q # <<>>
    <3>1. Len(q) \in Nat \ {0}
      BY <1>1, <2>2, EmptySeq
    <3> DEFINE n == Len(q)
    <3>2. n \in Nat \ {0} /\ n <= 1
      BY <1>1, <3>1
    <3> HIDE DEF n
    <3>3. n = 1
      BY <3>2
    <3>4. QED
      BY <2>2, <3>3 DEF n
  <2>3. QED
    BY <2>1, <2>2
<1>3. ASSUME q # <<>> PROVE Head(q) \in S /\ q = <<Head(q)>>
  <2>1. Head(q) \in S /\ Head(q) = q[1]
    BY <1>1, <1>3, HeadTailProperties
  <2>2. <<Head(q)>> \in Seq(S) /\ Len(<<Head(q)>>) = 1
    BY <2>1
  <2>3. QED
    BY <1>1, <1>2, <1>3, <2>1, <2>2, SeqEqual
<1>4. QED
  BY <1>1, <1>2, <1>3

LEMMA AtMostOneIntro ==
  ASSUME NEW S
  PROVE  <<>> \in AtMostOne(S) /\ \A s \in S : <<s>> \in AtMostOne(S)
BY DEF AtMostOne

LEMMA UsedConcat ==
  ASSUME NEW S, NEW s \in Seq(S), NEW t \in Seq(S)
  PROVE  s \o t \in Seq(S) /\ Used(s \o t) = Used(s) + Used(t)
BY ConcatProperties DEF Used

LEMMA UsedSeq ==
  ASSUME NEW S, NEW q \in Seq(S)
  PROVE  Used(q) \in Nat /\ (q # <<>> <=> Used(q) > 0)
<1>1. CASE q = <<>>
  <2>1. Len(q) = 0
    BY <1>1, EmptySeq
  <2>2. QED
    BY <1>1, <2>1 DEF Used
<1>2. CASE q # <<>>
  <2>1. Len(q) \in Nat \ {0}
    BY <1>2, EmptySeq
  <2>2. Used(q) \in Nat \ {0}
    BY <2>1 DEF Used
  <2>3. QED
    BY <1>2, <2>2
<1>3. QED
  BY <1>1, <1>2

LEMMA UsedLiteral == Used(<<>>) = 0 /\ \A x : Used(<<x>>) = 1
BY DEF Used

LEMMA UsedAtMostOne ==
  ASSUME NEW S, NEW q \in AtMostOne(S)
  PROVE  Used(q) = IF q = <<>> THEN 0 ELSE 1
BY AtMostOneType DEF Used

LEMMA UsedTail ==
  ASSUME NEW S, NEW q \in Seq(S), q # <<>>
  PROVE  Tail(q) \in Seq(S) /\ Used(Tail(q)) = Used(q) - 1
BY HeadTailProperties DEF Used

(* A clock edge keeps the words of a FIFO in its set of words, and changes *)
(* their number by what the two ports do.                                  *)
LEMMA AfterEdgeProperties ==
  ASSUME NEW S, NEW q \in Seq(S), NEW data \in AtMostOne(S),
         NEW rdreq \in BOOLEAN, NEW sclr \in BOOLEAN
  PROVE  /\ AfterEdge(q, data, rdreq, sclr) \in Seq(S)
         /\ Used(AfterEdge(q, data, rdreq, sclr)) =
              IF sclr THEN 0
              ELSE Used(q) - Bit(rdreq /\ Used(q) > 0)
                   + (IF Full(Used(q)) THEN 0 ELSE Used(data))
<1> DEFINE kept == AfterRead(q, rdreq)
           put == IF Full(Used(q)) THEN <<>> ELSE data
<1>1. put \in Seq(S) /\ Used(put) = IF Full(Used(q)) THEN 0 ELSE Used(data)
  BY AtMostOneType, UsedLiteral
<1>2. kept \in Seq(S) /\ Used(kept) = Used(q) - Bit(rdreq /\ Used(q) > 0)
  BY UsedTail, UsedSeq DEF AfterRead, Bit
<1>3. kept \o put \in Seq(S) /\ Used(kept \o put) = Used(kept) + Used(put)
  BY <1>1, <1>2, UsedConcat
<1>4. AfterEdge(q, data, rdreq, sclr) = IF sclr THEN <<>> ELSE kept \o put
  BY DEF AfterEdge
<1> HIDE DEF kept, put
<1>5. QED
  BY <1>1, <1>2, <1>3, <1>4, UsedLiteral

LEMMA OutputProperties ==
  ASSUME NEW S, NEW q \in Seq(S), NEW rdreq \in BOOLEAN
  PROVE  /\ Output(q, rdreq) \in AtMostOne(S)
         /\ rdreq /\ q # <<>> <=> Output(q, rdreq) # <<>>
<1>1. CASE rdreq /\ q # <<>>
  <2>1. Head(q) \in S
    BY <1>1, HeadTailProperties
  <2>2. Output(q, rdreq) = <<Head(q)>>
    BY <1>1 DEF Output
  <2>3. <<Head(q)>> # <<>>
    OBVIOUS
  <2>4. QED
    BY <1>1, <2>1, <2>2, <2>3, AtMostOneIntro
<1>2. CASE ~(rdreq /\ q # <<>>)
  BY <1>2, AtMostOneIntro DEF Output
<1>3. QED
  BY <1>1, <1>2
-----------------------------------------------------------------------------
(* Types.                                                                  *)

LEMMA Next1Type == ASSUME NEW a \in Addresses PROVE Next1(a) \in Addresses
BY NotchAssumption DEF Next1, Addresses

LEMMA DistanceType ==
  ASSUME NEW a \in Addresses, NEW b \in Addresses
  PROVE  Distance(a, b) \in Int
BY NotchAssumption DEF Distance, Addresses, WordsOf32Bits

LEMMA SampleIntro ==
  ASSUME NEW a \in Addresses, NEW b \in Addresses
  PROVE  [nth |-> a, from |-> b] \in Sample
BY DEF Sample

(* The variables driven outside the always block: CPU, SDRAM and FIFOs.    *)
LEMMA PortType ==
  ASSUME TypeOK, NEW start \in BOOLEAN, NEW read \in BOOLEAN,
         Port(start, read)
  PROVE  /\ slave_address' \in Registers \cup {0}
         /\ cpu' \in {"free", "ci", "read", "resp"}
BY DEF TypeOK, Port

LEMMA SlaveReadType ==
  ASSUME TypeOK, NEW read \in BOOLEAN, NEW sdwaitrequest \in BOOLEAN,
         slave_address' \in Registers \cup {0},
         SlaveRead(read, sdwaitrequest)
  PROVE  slave_readdata' \in Int
<1>1. Distance(readAddress, sdBase) \in Int
      /\ Distance(writeAddress, sdBase) \in Int
  BY DistanceType DEF TypeOK
<1>2. Used(readFifo) \in Int /\ Used(writeFifo) \in Int
  BY DEF TypeOK, Used
<1>3. Usedw(reqFifoUsed) \in Int /\ Usedw(Used(readFifo)) \in Int
      /\ Usedw(Used(writeFifo)) \in Int
  BY <1>2 DEF TypeOK, Usedw
<1>4. SDRAM_WORD_SKIP * Distance(readAddress, sdBase) \in Int
      /\ SDRAM_WORD_SKIP * Distance(writeAddress, sdBase) \in Int
  BY <1>1 DEF SDRAM_WORD_SKIP
<1>5. Bit(sdread) \in Int /\ Bit(sdwrite) \in Int /\ Bit(sdwaitrequest) \in Int
  BY DEF Bit
<1>6. /\ sdReceiveCount \in Int /\ sdDiscardedRead \in Int
      /\ calculationStage \in Int /\ calculationCount \in Int /\ stage \in Int
  BY DEF TypeOK
<1>7. ASSUME NEW a \in 0 .. 12
      PROVE  StatusRegister(a, sdwaitrequest) \in Int
  <2>1. \/ a = 0 \/ a = 1 \/ a = 2 \/ a = 3 \/ a = 4 \/ a = 5 \/ a = 6
        \/ a = 7 \/ a = 8 \/ a = 9 \/ a = 10 \/ a = 11 \/ a = 12
    OBVIOUS
  <2>2. QED
    BY <2>1, <1>3, <1>4, <1>5, <1>6 DEF StatusRegister
<1>8. slave_address' \in 0 .. 12
  BY NotchAssumption
<1>9. StatusRegister(slave_address', sdwaitrequest) \in Int
  BY <1>7, <1>8
<1>10. QED
  BY <1>9 DEF SlaveRead, TypeOK

LEMMA SdramType ==
  ASSUME TypeOK, NEW sdwaitrequest \in BOOLEAN,
         NEW sdreaddatavalid \in BOOLEAN,
         Sdram(sdwaitrequest, sdreaddatavalid)
  PROVE  pending' \in Seq(Sample)
<1> DEFINE left == IF sdreaddatavalid THEN Tail(pending) ELSE pending
           new == IF sdread /\ ~sdwaitrequest
                    THEN <<[nth |-> readAddress, from |-> sdaddress]>> ELSE <<>>
<1>1. left \in Seq(Sample)
  BY HeadTailProperties DEF TypeOK, Sdram
<1>2. [nth |-> readAddress, from |-> sdaddress] \in Sample
  BY SampleIntro DEF TypeOK
<1>3. new \in Seq(Sample)
  BY <1>2
<1>4. pending' = left \o new
  BY DEF Sdram
<1>5. QED
  BY <1>1, <1>3, <1>4, ConcatProperties

LEMMA FifosType ==
  ASSUME TypeOK, Fifos
  PROVE  /\ reqFifoUsed' \in Nat
         /\ readFifo' \in Seq(Sample) /\ writeFifo' \in Seq(Sample)
         /\ readFifoOutput' \in AtMostOne(Sample)
         /\ writeFifoOutput' \in AtMostOne(Sample)
<1>1. reqFifoUsed' \in Nat
  BY DEF TypeOK, Fifos, CountAfterEdge
<1>2. QED
  BY <1>1, AfterEdgeProperties, OutputProperties DEF TypeOK, Fifos

(* The registers of the always block, the flags apart from the others.     *)
FlagsType ==
  /\ forceReset \in BOOLEAN /\ irq \in BOOLEAN
  /\ startSdRead \in BOOLEAN /\ sdread \in BOOLEAN /\ sdwrite \in BOOLEAN
  /\ fifoClear \in BOOLEAN /\ reqFifoWriteRequest \in BOOLEAN
  /\ fetch \in BOOLEAN /\ writeFifoReadRequest \in BOOLEAN

RegistersType ==
  /\ stage \in 0 .. 2 /\ reply \in AtMostOne(Int)
  /\ sdBase \in Addresses /\ readAddress \in Addresses
  /\ writeAddress \in Addresses /\ sdaddress \in Addresses
  /\ sdwritedata \in AtMostOne(Sample) /\ writeStage \in 0 .. 4
  /\ readFifoWrite \in AtMostOne(Sample)
  /\ writeFifoWrite \in AtMostOne(Sample)
  /\ calculationStage \in (0 .. 10) \ {8} /\ x_n \in AtMostOne(Sample)
  /\ calculationCount \in Nat /\ sdReceiveCount \in Nat
  /\ sdDiscardedRead \in Nat

EngineType == FlagsType /\ RegistersType

LEMMA EngineTypeOK == TypeOK => EngineType
<1>1. TypeOK => FlagsType
  BY DEF TypeOK, FlagsType
<1>2. TypeOK => RegistersType
  BY DEF TypeOK, RegistersType
<1>3. QED
  BY <1>1, <1>2 DEF EngineType

LEMMA ResetType == ASSUME EngineType, Reset PROVE EngineType'
<1>1. FlagsType'
  BY Zenon DEF EngineType, FlagsType, Reset
<1>2. 0 \in Addresses
  BY NotchAssumption DEF Addresses
<1>3. <<>> \in AtMostOne(Sample)
  BY AtMostOneIntro
<1>4. RegistersType'
  BY <1>2, <1>3 DEF EngineType, RegistersType, Reset
<1>5. QED
  BY <1>1, <1>4 DEF EngineType

LEMMA AcceptType ==
  ASSUME EngineType, NEW start, NEW dataa \in Bases \cup {0},
         Accept(start, dataa)
  PROVE  EngineType'
<1>1. FlagsType'
  BY Zenon DEF EngineType, FlagsType, Accept, IdleStage
<1>2. dataa \in Addresses
  BY NotchAssumption DEF Addresses
<1>3. <<ACCEPTED>> \in AtMostOne(Int)
  BY AtMostOneIntro DEF ACCEPTED
<1>4. <<>> \in AtMostOne(Sample)
  BY AtMostOneIntro
<1>5. RegistersType'
  BY <1>2, <1>3, <1>4 DEF EngineType, RegistersType, Accept, IdleStage
<1>6. QED
  BY <1>1, <1>5 DEF EngineType

LEMMA IdleType ==
  ASSUME EngineType, NEW start, NEW dataa, Idle(start, dataa)
  PROVE  EngineType'
<1>1. FlagsType'
  BY Zenon
     DEF EngineType, FlagsType, Idle, IdleStage, busVars, calcVars, recvVars
<1>2. <<READY>> \in AtMostOne(Int) /\ <<>> \in AtMostOne(Int)
  BY AtMostOneIntro DEF READY
<1>3. RegistersType'
  BY <1>2 DEF EngineType, RegistersType, Idle, IdleStage, busVars, calcVars,
              recvVars
<1>4. QED
  BY <1>1, <1>3 DEF EngineType

LEMMA WaitForIrqType ==
  ASSUME EngineType, NEW start, NEW read \in BOOLEAN, WaitForIrq(start, read)
  PROVE  EngineType'
<1>1. FlagsType'
  <2>1. irq' \in BOOLEAN /\ forceReset' \in BOOLEAN
    BY DEF WaitForIrq
  <2>2. QED
    BY <2>1, Zenon
       DEF EngineType, FlagsType, WaitForIrq, busVars, calcVars, recvVars
<1>2. <<FINISHED>> \in AtMostOne(Int) /\ <<>> \in AtMostOne(Int)
  BY AtMostOneIntro DEF FINISHED
<1>3. RegistersType'
  BY <1>2 DEF EngineType, RegistersType, WaitForIrq, busVars, calcVars,
              recvVars
<1>4. QED
  BY <1>1, <1>3 DEF EngineType

(* The three concurrent parts of a cycle of stage 1.                       *)
SdPortFlags ==
  /\ irq \in BOOLEAN /\ startSdRead \in BOOLEAN
  /\ sdread \in BOOLEAN /\ sdwrite \in BOOLEAN
  /\ reqFifoWriteRequest \in BOOLEAN /\ writeFifoReadRequest \in BOOLEAN

SdPortRegisters ==
  /\ stage \in 0 .. 2
  /\ readAddress \in Addresses /\ writeAddress \in Addresses
  /\ sdaddress \in Addresses
  /\ sdwritedata \in AtMostOne(Sample) /\ writeStage \in 0 .. 4

LEMMA SdPortType ==
  ASSUME TypeOK, NEW w \in BOOLEAN, SdPort(w)
  PROVE  SdPortFlags' /\ SdPortRegisters'
<1> USE DEF TypeOK
<1>1. SdPortFlags /\ SdPortRegisters
  BY DEF SdPortFlags, SdPortRegisters
<1>2. <<>> \in AtMostOne(Sample)
  BY AtMostOneIntro
<1>3. Next1(readAddress) \in Addresses /\ Next1(writeAddress) \in Addresses
  BY Next1Type
<1> USE <1>1, <1>2, <1>3 DEF SdPortFlags, SdPortRegisters
<1> HIDE DEF TypeOK
<1>4. CASE StartReading
  <2>1. SdPortFlags'
    BY <1>4, Zenon DEF StartReading
  <2>2. SdPortRegisters'
    BY <1>4 DEF StartReading, TypeOK
  <2>3. QED
    BY <2>1, <2>2
<1>5. CASE Finish
  <2>1. SdPortFlags'
    BY <1>5, Zenon DEF Finish
  <2>2. SdPortRegisters'
    BY <1>5 DEF Finish
  <2>3. QED
    BY <2>1, <2>2
<1>6. CASE AcceptedRead(w)
  <2>1. SdPortFlags'
    BY <1>6, Zenon DEF AcceptedRead, Busy
  <2>2. SdPortRegisters'
    BY <1>6 DEF AcceptedRead, Busy
  <2>3. QED
    BY <2>1, <2>2
<1>7. CASE HeldRead(w)
  <2>1. SdPortFlags'
    BY <1>7, Zenon DEF HeldRead, Busy
  <2>2. SdPortRegisters'
    BY <1>7 DEF HeldRead, Busy
  <2>3. QED
    BY <2>1, <2>2
<1>8. CASE FetchWrite
  <2>1. SdPortFlags'
    BY <1>8, Zenon DEF FetchWrite, Writing, Busy
  <2>2. SdPortRegisters'
    BY <1>8 DEF FetchWrite, Writing, Busy
  <2>3. QED
    BY <2>1, <2>2
<1>9. CASE StartWrite
  <2>1. SdPortFlags'
    BY <1>9, Zenon DEF StartWrite, Writing, Busy
  <2>2. SdPortRegisters'
    BY <1>9 DEF StartWrite, Writing, Busy, TypeOK
  <2>3. QED
    BY <2>1, <2>2
<1>10. CASE AcceptedWrite(w)
  <2>1. SdPortFlags'
    BY <1>10, Zenon DEF AcceptedWrite, Writing, Busy
  <2>2. SdPortRegisters'
    BY <1>10 DEF AcceptedWrite, Writing, Busy
  <2>3. QED
    BY <2>1, <2>2
<1>11. CASE HeldWrite(w)
  <2>1. SdPortFlags'
    BY <1>11, Zenon DEF HeldWrite, Writing, Busy
  <2>2. SdPortRegisters'
    BY <1>11 DEF HeldWrite, Writing, Busy
  <2>3. QED
    BY <2>1, <2>2
<1>12. CASE Choose
  <2>1. sdread' \in BOOLEAN
    BY <1>12 DEF Choose
  <2>2. SdPortFlags'
    BY <1>12, <2>1, Zenon DEF Choose, Busy
  <2>3. SdPortRegisters'
    BY <1>12 DEF Choose, Busy
  <2>4. QED
    BY <2>2, <2>3
<1>13. QED
  BY <1>4, <1>5, <1>6, <1>7, <1>8, <1>9, <1>10, <1>11, <1>12 DEF SdPort

LEMMA ReceiveType ==
  ASSUME TypeOK, NEW w \in BOOLEAN, NEW v \in BOOLEAN, Sdram(w, v), Receive(v)
  PROVE  /\ readFifoWrite' \in AtMostOne(Sample)
         /\ sdReceiveCount' \in Nat /\ sdDiscardedRead' \in Nat
<1>1. v => <<Head(pending)>> \in AtMostOne(Sample)
  BY HeadTailProperties, AtMostOneIntro DEF TypeOK, Sdram
<1>2. <<>> \in AtMostOne(Sample)
  BY AtMostOneIntro
<1>3. QED
  BY <1>1, <1>2 DEF TypeOK, Receive

LEMMA CalculateType ==
  ASSUME TypeOK, Calculate
  PROVE  /\ fetch' \in BOOLEAN
         /\ calculationStage' \in (0 .. 10) \ {8}
         /\ x_n' \in AtMostOne(Sample)
         /\ calculationCount' \in Nat
         /\ writeFifoWrite' \in AtMostOne(Sample)
<1>1. <<>> \in AtMostOne(Sample)
  BY AtMostOneIntro
<1>2. /\ calculationStage \in (0 .. 10) \ {8} /\ calculationCount \in Nat
      /\ x_n \in AtMostOne(Sample) /\ writeFifoWrite \in AtMostOne(Sample)
      /\ readFifoOutput \in AtMostOne(Sample)
  BY DEF TypeOK
<1>3. fetch' \in BOOLEAN
  BY Zenon
     DEF TypeOK, Calculate, FetchSample, LoadSample, Arithmetic, StoreResult,
         EndSample
<1>4. QED
  BY <1>1, <1>2, <1>3
     DEF Calculate, FetchSample, LoadSample, Arithmetic, StoreResult, EndSample

LEMMA RunType ==
  ASSUME TypeOK, NEW start, NEW w \in BOOLEAN, NEW v \in BOOLEAN,
         Sdram(w, v), Run(start, w, v)
  PROVE  EngineType'
<1>1. SdPortFlags' /\ SdPortRegisters'
  BY SdPortType DEF Run
<1>2. /\ readFifoWrite' \in AtMostOne(Sample)
      /\ sdReceiveCount' \in Nat /\ sdDiscardedRead' \in Nat
  BY ReceiveType DEF Run
<1>3. /\ fetch' \in BOOLEAN
      /\ calculationStage' \in (0 .. 10) \ {8}
      /\ x_n' \in AtMostOne(Sample)
      /\ calculationCount' \in Nat
      /\ writeFifoWrite' \in AtMostOne(Sample)
  BY CalculateType DEF Run
<1>4. reply' \in AtMostOne(Int)
  BY DistanceType, AtMostOneIntro DEF Run, TypeOK
<1>5. FlagsType'
  BY <1>1, <1>3, Zenon DEF FlagsType, SdPortFlags, Run, TypeOK
<1>6. RegistersType'
  BY <1>1, <1>2, <1>3, <1>4 DEF RegistersType, SdPortRegisters, Run, TypeOK
<1>7. QED
  BY <1>5, <1>6 DEF EngineType

LEMMA InitType == Init => TypeOK
<1> SUFFICES ASSUME Init PROVE TypeOK
  OBVIOUS
<1>1. 0 \in Addresses
  BY NotchAssumption DEF Addresses
<1>2. <<>> \in AtMostOne(Sample) /\ <<>> \in AtMostOne(Int)
      /\ <<>> \in Seq(Sample)
  BY AtMostOneIntro
<1>3. EngineType
  <2>1. FlagsType
    BY DEF Init, FlagsType
  <2>2. RegistersType
    BY <1>1, <1>2 DEF Init, RegistersType
  <2>3. QED
    BY <2>1, <2>2 DEF EngineType
<1>4. /\ reqFifoUsed \in Nat /\ readFifo \in Seq(Sample)
      /\ writeFifo \in Seq(Sample) /\ readFifoOutput \in AtMostOne(Sample)
      /\ writeFifoOutput \in AtMostOne(Sample)
      /\ slave_address \in Registers \cup {0} /\ slave_readdata \in Int
      /\ pending \in Seq(Sample) /\ cpu \in {"free", "ci", "read", "resp"}
  BY <1>2 DEF Init
<1>5. QED
  BY <1>3, <1>4 DEF TypeOK, EngineType, FlagsType, RegistersType

LEMMA ClockType ==
  ASSUME TypeOK, NEW start \in BOOLEAN, NEW read \in BOOLEAN,
         NEW w \in BOOLEAN, NEW v \in BOOLEAN, NEW dataa \in Bases \cup {0},
         Clock(start, dataa, read, w, v)
  PROVE  TypeOK'
<1>1. /\ slave_address' \in Registers \cup {0}
      /\ cpu' \in {"free", "ci", "read", "resp"}
  BY PortType DEF Clock
<1>2. slave_readdata' \in Int
  BY <1>1, SlaveReadType DEF Clock
<1>3. pending' \in Seq(Sample)
  BY SdramType DEF Clock
<1>4. /\ reqFifoUsed' \in Nat
      /\ readFifo' \in Seq(Sample) /\ writeFifo' \in Seq(Sample)
      /\ readFifoOutput' \in AtMostOne(Sample)
      /\ writeFifoOutput' \in AtMostOne(Sample)
  BY FifosType DEF Clock
<1>5. EngineType'
  <2>1. EngineType
    BY EngineTypeOK
  <2>2. CASE Reset
    BY <2>1, <2>2, ResetType
  <2>3. CASE Accept(start, dataa)
    BY <2>1, <2>3, AcceptType
  <2>4. CASE Idle(start, dataa)
    BY <2>1, <2>4, IdleType
  <2>5. CASE Run(start, w, v)
    BY <2>5, RunType DEF Clock
  <2>6. CASE WaitForIrq(start, read)
    BY <2>1, <2>6, WaitForIrqType
  <2>7. QED
    BY <2>2, <2>3, <2>4, <2>5, <2>6 DEF Clock
<1>6. QED
  BY <1>1, <1>2, <1>3, <1>4, <1>5
     DEF TypeOK, EngineType, FlagsType, RegistersType

LEMMA StutterType == TypeOK /\ UNCHANGED vars => TypeOK'
BY DEF TypeOK, vars, busVars, calcVars, recvVars, fifoVars

LEMMA NextType == TypeOK /\ [Next]_vars => TypeOK'
<1>1. ASSUME TypeOK, Next PROVE TypeOK'
  <2>1. PICK start \in BOOLEAN, read \in BOOLEAN, w \in BOOLEAN,
             v \in BOOLEAN, dataa \in Bases \cup {0} :
               Clock(start, dataa, read, w, v)
    BY <1>1 DEF Next
  <2>2. QED
    BY <1>1, <2>1, ClockType
<1>2. QED
  BY <1>1, StutterType

(* The engine keeps its types, whatever the CPU and the SDRAM do.          *)
THEOREM TypeCorrect == Spec => []TypeOK
BY InitType, NextType, PTL DEF Spec

-----------------------------------------------------------------------------
(* EngineInv is an invariant when every buffer fits into the address       *)
(* space, and what follows from it.                                        *)

(* The number of words in each place as a number.                          *)
LEMMA Sizes ==
  ASSUME TypeOK
  PROVE  /\ Used(pending) \in Nat /\ (pending # <<>> <=> Used(pending) > 0)
         /\ Used(readFifo) \in Nat /\ (readFifo # <<>> <=> Used(readFifo) > 0)
         /\ Used(writeFifo) \in Nat
         /\ (writeFifo # <<>> <=> Used(writeFifo) > 0)
         /\ Used(readFifoWrite) \in {0, 1} /\ Used(readFifoOutput) \in {0, 1}
         /\ Used(x_n) \in {0, 1} /\ Used(writeFifoWrite) \in {0, 1}
         /\ Used(writeFifoOutput) \in {0, 1} /\ Used(sdwritedata) \in {0, 1}
<1>1. /\ Used(pending) \in Nat /\ (pending # <<>> <=> Used(pending) > 0)
      /\ Used(readFifo) \in Nat /\ (readFifo # <<>> <=> Used(readFifo) > 0)
      /\ Used(writeFifo) \in Nat /\ (writeFifo # <<>> <=> Used(writeFifo) > 0)
  BY UsedSeq DEF TypeOK
<1>2. \A q \in AtMostOne(Sample) : Used(q) \in {0, 1}
  BY UsedAtMostOne DEF Bit
<1>3. QED
  BY <1>1, <1>2 DEF TypeOK

(* What one clock edge does to the number of words in each FIFO.           *)
LEMMA FifoEdges ==
  ASSUME TypeOK, Fifos
  PROVE  /\ fifoClear => /\ Used(readFifo') = 0 /\ Used(writeFifo') = 0
                         /\ reqFifoUsed' = 0
         /\ ~fifoClear =>
              /\ Used(readFifo') =
                   Used(readFifo) - Bit(fetch /\ Used(readFifo) > 0)
                   + (IF Full(Used(readFifo)) THEN 0 ELSE Used(readFifoWrite))
              /\ Used(writeFifo') =
                   Used(writeFifo)
                   - Bit(writeFifoReadRequest /\ Used(writeFifo) > 0)
                   + (IF Full(Used(writeFifo)) THEN 0 ELSE Used(writeFifoWrite))
              /\ reqFifoUsed' =
                   reqFifoUsed - Bit(fetch /\ reqFifoUsed > 0)
                   + (IF Full(reqFifoUsed) THEN 0 ELSE Bit(reqFifoWriteRequest))
         /\ Used(readFifoOutput') = Bit(fetch /\ Used(readFifo) > 0)
         /\ Used(writeFifoOutput') =
              Bit(writeFifoReadRequest /\ Used(writeFifo) > 0)
<1>1. /\ Used(readFifo') =
           IF fifoClear THEN 0
           ELSE Used(readFifo) - Bit(fetch /\ Used(readFifo) > 0)
                + (IF Full(Used(readFifo)) THEN 0 ELSE Used(readFifoWrite))
      /\ Used(writeFifo') =
           IF fifoClear THEN 0
           ELSE Used(writeFifo)
                - Bit(writeFifoReadRequest /\ Used(writeFifo) > 0)
                + (IF Full(Used(writeFifo)) THEN 0 ELSE Used(writeFifoWrite))
  <2>1. /\ readFifo \in Seq(Sample) /\ readFifoWrite \in AtMostOne(Sample)
        /\ writeFifo \in Seq(Sample) /\ writeFifoWrite \in AtMostOne(Sample)
        /\ fetch \in BOOLEAN /\ writeFifoReadRequest \in BOOLEAN
        /\ fifoClear \in BOOLEAN
    BY DEF TypeOK
  <2>2. Used(AfterEdge(readFifo, readFifoWrite, fetch, fifoClear)) =
           IF fifoClear THEN 0
           ELSE Used(readFifo) - Bit(fetch /\ Used(readFifo) > 0)
                + (IF Full(Used(readFifo)) THEN 0 ELSE Used(readFifoWrite))
    BY <2>1, AfterEdgeProperties
  <2>3. Used(AfterEdge(writeFifo, writeFifoWrite, writeFifoReadRequest,
                       fifoClear)) =
           IF fifoClear THEN 0
           ELSE Used(writeFifo)
                - Bit(writeFifoReadRequest /\ Used(writeFifo) > 0)
                + (IF Full(Used(writeFifo)) THEN 0 ELSE Used(writeFifoWrite))
    BY <2>1, AfterEdgeProperties
  <2>4. QED
    BY <2>2, <2>3, Zenon DEF Fifos
<1>2. reqFifoUsed' = IF fifoClear THEN 0 ELSE
        reqFifoUsed - Bit(fetch /\ reqFifoUsed > 0)
        + (IF Full(reqFifoUsed) THEN 0 ELSE Bit(reqFifoWriteRequest))
  BY DEF Fifos, CountAfterEdge, TypeOK, Bit
<1>3. ASSUME NEW q \in Seq(Sample), NEW rdreq \in BOOLEAN
      PROVE  Used(Output(q, rdreq)) = Bit(rdreq /\ Used(q) > 0)
  <2>1. Used(Output(q, rdreq)) = Bit(Output(q, rdreq) # <<>>)
    BY OutputProperties, UsedAtMostOne DEF Bit
  <2>2. Output(q, rdreq) # <<>> <=> rdreq /\ Used(q) > 0
    BY OutputProperties, UsedSeq
  <2>3. QED
    BY <2>1, <2>2 DEF Bit
<1>4. /\ Used(readFifoOutput') = Bit(fetch /\ Used(readFifo) > 0)
      /\ Used(writeFifoOutput') =
           Bit(writeFifoReadRequest /\ Used(writeFifo) > 0)
  BY <1>3 DEF Fifos, TypeOK
<1>5. QED
  BY <1>1, <1>2, <1>4
-----------------------------------------------------------------------------
(* Consequences of the invariant in one state.                             *)

(* No FIFO overflows or is read empty, and no sample is discarded.         *)
LEMMA Lossless == EngineInv => FifosLossless
<1> SUFFICES ASSUME EngineInv PROVE FifosLossless
  OBVIOUS
<1>1. TypeOK /\ CalculationHolds /\ WriteHolds /\ RequestsHold /\ CountersHold
  BY DEF EngineInv
<1>2. ALMOST_FULL \in Nat /\ FIFO_DEPTH \in Nat
      /\ ALMOST_FULL + 2 <= FIFO_DEPTH
  BY FifoAssumption
<1>3. reqFifoUsed \in Nat
  BY <1>1 DEF TypeOK
<1>4. reqFifoWriteRequest => ~Full(reqFifoUsed)
  BY <1>1, <1>2, <1>3 DEF RequestsHold, Full, Bit
<1>5. readFifoWrite # <<>> => ~Full(Used(readFifo))
  <2>1. readFifoWrite # <<>> => Used(readFifoWrite) = 1
    BY <1>1, UsedAtMostOne DEF TypeOK
  <2>2. QED
    BY <1>1, <1>2, <1>3, <2>1, Sizes DEF RequestsHold, Full, Bit
<1>6. writeFifoWrite # <<>> => ~Full(Used(writeFifo))
  <2>1. writeFifoWrite # <<>> => Used(writeFifoWrite) = 1
    BY <1>1, UsedAtMostOne DEF TypeOK
  <2>2. QED
    BY <1>1, <1>2, <2>1, Sizes DEF CalculationHolds, Full
<1>7. fetch => reqFifoUsed > 0 /\ readFifo # <<>>
  BY <1>1, <1>3, Sizes DEF CalculationHolds, RequestsHold, Bit
<1>8. writeFifoReadRequest => writeFifo # <<>>
  BY <1>1, Sizes DEF WriteHolds
<1>9. QED
  BY <1>1, <1>4, <1>5, <1>6, <1>7, <1>8 DEF FifosLossless, CountersHold

(* Outside a run every place for samples is empty.                         *)
Empty ==
  /\ Used(pending) = 0 /\ Used(readFifoWrite) = 0 /\ Used(readFifo) = 0
  /\ Used(readFifoOutput) = 0 /\ Used(x_n) = 0 /\ Used(writeFifoWrite) = 0
  /\ Used(writeFifo) = 0 /\ Used(writeFifoOutput) = 0
  /\ Used(sdwritedata) = 0
  /\ reqFifoUsed = 0 /\ ~reqFifoWriteRequest /\ ~fetch
  /\ ~writeFifoReadRequest /\ calculationStage = 0 /\ writeStage = 0
  /\ ~sdwrite

LEMMA EmptyWhenEqual ==
  ASSUME EngineInv, readAddress <= writeAddress
  PROVE  Empty /\ readAddress = writeAddress
<1>1. TypeOK /\ CalculationHolds /\ WriteHolds /\ RequestsHold /\ CountersHold
  BY DEF EngineInv
<1>2. /\ readAddress \in Nat /\ writeAddress \in Nat /\ sdBase \in Nat
      /\ calculationCount \in Nat /\ sdReceiveCount \in Nat
      /\ reqFifoUsed \in Nat /\ writeStage \in 0 .. 4
      /\ calculationStage \in (0 .. 10) \ {8}
  BY <1>1 DEF TypeOK, Addresses
<1>3. /\ Used(pending) = 0 /\ Used(readFifoWrite) = 0 /\ Used(readFifo) = 0
      /\ Used(readFifoOutput) = 0 /\ Used(x_n) = 0
      /\ Used(writeFifoWrite) = 0
      /\ Used(writeFifo) = 0 /\ Used(writeFifoOutput) = 0
      /\ Used(sdwritedata) = 0 /\ readAddress = writeAddress
  <2>1. /\ Used(pending) \in Nat /\ Used(readFifoWrite) \in Nat
        /\ Used(readFifo) \in Nat /\ Used(readFifoOutput) \in Nat
        /\ Used(x_n) \in Nat /\ Used(writeFifoWrite) \in Nat
        /\ Used(writeFifo) \in Nat /\ Used(writeFifoOutput) \in Nat
        /\ Used(sdwritedata) \in Nat
    BY <1>1, Sizes
  <2>2. /\ readAddress = sdBase + sdReceiveCount + Used(pending)
        /\ sdReceiveCount = calculationCount + Used(readFifoWrite)
                            + Used(readFifo) + Used(readFifoOutput)
                            + Used(x_n) + Used(writeFifoWrite)
        /\ sdBase + calculationCount = writeAddress + Used(writeFifo)
                                 + Used(writeFifoOutput) + Used(sdwritedata)
    BY <1>1 DEF CountersHold
  <2>3. readAddress <= writeAddress
    OBVIOUS
  <2>4. QED
    BY <1>2, <2>1, <2>2, <2>3
<1>4. reqFifoUsed = 0 /\ ~reqFifoWriteRequest
  BY <1>1, <1>2, <1>3 DEF RequestsHold, Bit
<1>5. ~fetch /\ calculationStage = 0
  BY <1>1, <1>2, <1>3 DEF CalculationHolds, Bit
<1>6. ~writeFifoReadRequest /\ writeStage = 0 /\ ~sdwrite
  BY <1>1, <1>2, <1>3 DEF WriteHolds, Bit
<1>7. QED
  BY <1>3, <1>4, <1>5, <1>6 DEF Empty

LEMMA EmptyOutsideRuns == ASSUME EngineInv, stage # 1 PROVE Empty
<1>1. readAddress \in Nat /\ writeAddress \in Nat /\ stage \in 0 .. 2
      /\ sdBase \in Nat
  BY DEF EngineInv, TypeOK, Addresses
<1>2. readAddress <= writeAddress
  BY <1>1, NotchAssumption DEF EngineInv, StagesHold, End
<1>3. QED
  BY <1>2, EmptyWhenEqual

(* With the invariant, the clock edge adds and removes what is asked for.  *)
LEMMA Edges ==
  ASSUME EngineInv, Fifos
  PROVE  /\ Used(readFifo') =
              Used(readFifo) - Bit(fetch) + Used(readFifoWrite)
         /\ Used(writeFifo') =
              Used(writeFifo) - Bit(writeFifoReadRequest)
              + Used(writeFifoWrite)
         /\ reqFifoUsed' =
              reqFifoUsed - Bit(fetch) + Bit(reqFifoWriteRequest)
         /\ Used(readFifoOutput') = Bit(fetch)
         /\ Used(writeFifoOutput') = Bit(writeFifoReadRequest)
<1>1. TypeOK /\ FifosLossless
  BY Lossless DEF EngineInv
<1>2. /\ fetch => Used(readFifo) > 0 /\ reqFifoUsed > 0
      /\ writeFifoReadRequest => Used(writeFifo) > 0
      /\ Full(Used(readFifo)) => Used(readFifoWrite) = 0
      /\ Full(Used(writeFifo)) => Used(writeFifoWrite) = 0
      /\ Full(reqFifoUsed) => ~reqFifoWriteRequest
  BY <1>1, Sizes, UsedLiteral DEF FifosLossless
<1>3. Used(readFifoOutput') = Bit(fetch)
      /\ Used(writeFifoOutput') = Bit(writeFifoReadRequest)
  BY <1>1, <1>2, FifoEdges DEF Bit
<1>4. CASE fifoClear
  <2>1. stage = 0 /\ Empty
    BY <1>4, EmptyOutsideRuns DEF EngineInv, StagesHold, TypeOK
  <2>2. /\ Used(readFifo') = 0 /\ Used(writeFifo') = 0 /\ reqFifoUsed' = 0
    BY <1>1, <1>4, FifoEdges
  <2>3. /\ Used(readFifo) = 0 /\ Used(writeFifo) = 0 /\ reqFifoUsed = 0
        /\ Used(readFifoWrite) = 0 /\ Used(writeFifoWrite) = 0
        /\ Bit(fetch) = 0 /\ Bit(writeFifoReadRequest) = 0
        /\ Bit(reqFifoWriteRequest) = 0
    BY <2>1 DEF Empty, Bit
  <2>4. QED
    BY <1>3, <2>2, <2>3
<1>5. CASE ~fifoClear
  <2>1. /\ Bit(fetch /\ Used(readFifo) > 0) = Bit(fetch)
        /\ Bit(fetch /\ reqFifoUsed > 0) = Bit(fetch)
        /\ Bit(writeFifoReadRequest /\ Used(writeFifo) > 0)
             = Bit(writeFifoReadRequest)
    BY <1>2 DEF Bit
  <2>2. /\ (IF Full(Used(readFifo)) THEN 0 ELSE Used(readFifoWrite))
             = Used(readFifoWrite)
        /\ (IF Full(Used(writeFifo)) THEN 0 ELSE Used(writeFifoWrite))
             = Used(writeFifoWrite)
        /\ (IF Full(reqFifoUsed) THEN 0 ELSE Bit(reqFifoWriteRequest))
             = Bit(reqFifoWriteRequest)
    BY <1>2 DEF Bit
  <2>3. QED
    BY <1>1, <1>3, <1>5, <2>1, <2>2, FifoEdges
<1>6. QED
  BY <1>4, <1>5

LEMMA SdramEdge ==
  ASSUME TypeOK, NEW w \in BOOLEAN, NEW v \in BOOLEAN, Sdram(w, v)
  PROVE  /\ Used(pending') = Used(pending) - Bit(v) + Bit(sdread /\ ~w)
         /\ v => Used(pending) > 0
         /\ w => sdread \/ sdwrite
<1> DEFINE left == IF v THEN Tail(pending) ELSE pending
           new == IF sdread /\ ~w
                    THEN <<[nth |-> readAddress, from |-> sdaddress]>> ELSE <<>>
<1>1. v => Used(pending) > 0
  BY Sizes DEF Sdram
<1>2. left \in Seq(Sample) /\ Used(left) = Used(pending) - Bit(v)
  BY UsedTail, Sizes DEF Sdram, Bit, TypeOK
<1>3. new \in Seq(Sample) /\ Used(new) = Bit(sdread /\ ~w)
  <2>1. [nth |-> readAddress, from |-> sdaddress] \in Sample
    BY SampleIntro DEF TypeOK
  <2>2. QED
    BY <2>1, UsedLiteral DEF Bit
<1>4. pending' = left \o new
  BY DEF Sdram
<1> HIDE DEF left, new
<1>5. Used(pending') = Used(left) + Used(new)
  BY <1>2, <1>3, <1>4, UsedConcat
<1>6. QED
  BY <1>1, <1>2, <1>3, <1>5 DEF Sdram
-----------------------------------------------------------------------------
(* The calculation in a cycle of stage 1.                                  *)

LEMMA CalculateStep ==
  ASSUME EngineInv, TypeOK', Fifos, Calculate
  PROVE  /\ CalculationHolds'
         /\ calculationCount' = calculationCount + Used(writeFifoWrite)
         /\ Used(readFifoOutput') + Used(x_n') + Used(writeFifoWrite')
              = Used(readFifoOutput) + Used(x_n) + Bit(fetch)
<1>1. TypeOK /\ CalculationHolds
  BY DEF EngineInv
<1>2. /\ Used(readFifo') = Used(readFifo) - Bit(fetch) + Used(readFifoWrite)
      /\ Used(writeFifo') = Used(writeFifo) - Bit(writeFifoReadRequest)
                            + Used(writeFifoWrite)
      /\ Used(readFifoOutput') = Bit(fetch)
  BY Edges
<1>3. /\ Used(readFifo) \in Nat /\ Used(writeFifo) \in Nat
      /\ Used(readFifoWrite) \in Nat /\ Used(writeFifoWrite) \in {0, 1}
      /\ (readFifo # <<>> <=> Used(readFifo) > 0)
  BY <1>1, Sizes
<1>4. /\ calculationStage \in (0 .. 10) \ {8} /\ calculationCount \in Nat
      /\ ALMOST_FULL \in Nat
  BY <1>1, FifoAssumption DEF TypeOK
<1>5. Used(<<>>) = 0
  BY UsedLiteral
<1> DEFINE Goal ==
      /\ CalculationHolds'
      /\ calculationCount' = calculationCount + Used(writeFifoWrite)
      /\ Used(readFifoOutput') + Used(x_n') + Used(writeFifoWrite')
           = Used(readFifoOutput) + Used(x_n) + Bit(fetch)
<1>6. CASE FetchSample
  <2>1. /\ calculationStage = 0 /\ ~fetch
        /\ x_n' = x_n /\ writeFifoWrite' = writeFifoWrite
        /\ calculationCount' = calculationCount
    BY <1>1, <1>4, <1>6 DEF FetchSample, CalculationHolds
  <2>2. fetch' <=> Used(readFifo) > 0
    BY <1>3, <1>6 DEF FetchSample
  <2>3. calculationStage' = IF Used(readFifo) > 0 THEN 1 ELSE 0
    BY <1>3, <1>6 DEF FetchSample
  <2>4. fetch' <=> calculationStage' = 1
    BY <2>2, <2>3
  <2>5. /\ Used(readFifoOutput) = 0 /\ Used(readFifoOutput') = 0
        /\ Used(x_n) = 0 /\ Used(writeFifoWrite) = 0 /\ Bit(fetch) = 0
    BY <1>1, <1>2, <2>1 DEF CalculationHolds, Bit
  <2>6. /\ Used(x_n') = 0 /\ Used(writeFifoWrite') = 0
        /\ Used(readFifo') = Used(readFifo) + Used(readFifoWrite)
        /\ Used(writeFifo') <= Used(writeFifo)
        /\ Used(writeFifo') \in Int
    BY <1>2, <1>3, <2>1, <2>5 DEF Bit
  <2>7. CalculationHolds'
    <3>1. fetch' => Used(readFifo') > 0
      BY <1>3, <2>2, <2>6
    <3>2. /\ Used(readFifoOutput') = Bit(calculationStage' = 2)
          /\ Used(x_n') = Bit(calculationStage' \in 3 .. 9)
          /\ Used(writeFifoWrite') = Bit(calculationStage' = 10)
      BY <2>3, <2>5, <2>6 DEF Bit
    <3>3. Used(writeFifo') + Used(writeFifoWrite') <= ALMOST_FULL
      BY <1>1, <1>3, <1>4, <2>5, <2>6 DEF CalculationHolds
    <3>4. QED
      BY <2>4, <3>1, <3>2, <3>3 DEF CalculationHolds
  <2>8. QED
    BY <1>4, <2>1, <2>5, <2>6, <2>7
<1>7. CASE LoadSample
  BY <1>1, <1>2, <1>3, <1>4, <1>7 DEF LoadSample, CalculationHolds, Bit
<1>8. CASE Arithmetic
  BY <1>1, <1>2, <1>3, <1>4, <1>8 DEF Arithmetic, CalculationHolds, Bit
<1>9. CASE StoreResult
  BY <1>1, <1>2, <1>3, <1>4, <1>5, <1>9
     DEF StoreResult, CalculationHolds, Bit, AlmostFull
<1>10. CASE EndSample
  BY <1>1, <1>2, <1>3, <1>4, <1>5, <1>10 DEF EndSample, CalculationHolds, Bit
<1>11. QED
  BY <1>6, <1>7, <1>8, <1>9, <1>10 DEF Calculate
-----------------------------------------------------------------------------
(* The answers of the SDRAM in a cycle of stage 1.                         *)

LEMMA ReceiveStep ==
  ASSUME EngineInv, NEW v \in BOOLEAN, v => Used(pending) > 0, Receive(v)
  PROVE  /\ Used(readFifoWrite') = Bit(v)
         /\ sdReceiveCount' = sdReceiveCount + Bit(v)
         /\ sdDiscardedRead' = sdDiscardedRead
<1>1. TypeOK /\ RequestsHold
  BY DEF EngineInv
<1>2. v => ~Full(Used(readFifo))
  BY <1>1, Sizes, FifoAssumption DEF RequestsHold, Full, Bit
<1>3. CASE v
  <2>1. /\ readFifoWrite' = <<Head(pending)>>
        /\ sdReceiveCount' = sdReceiveCount + 1
        /\ sdDiscardedRead' = sdDiscardedRead
    BY <1>2, <1>3 DEF Receive
  <2>2. Used(<<Head(pending)>>) = 1
    BY UsedLiteral
  <2>3. QED
    BY <1>3, <2>1, <2>2 DEF Bit
<1>4. CASE ~v
  <2>1. /\ readFifoWrite' = <<>>
        /\ sdReceiveCount' = sdReceiveCount
        /\ sdDiscardedRead' = sdDiscardedRead
    BY <1>4 DEF Receive
  <2>2. sdReceiveCount \in Nat
    BY <1>1 DEF TypeOK
  <2>3. QED
    BY <1>4, <2>1, <2>2, UsedLiteral DEF Bit
<1>5. QED
  BY <1>3, <1>4
-----------------------------------------------------------------------------
(* The SDRAM port in a cycle of stage 1: what moves, and what it promises. *)

PortMoves(w) ==
  /\ reqFifoWriteRequest' <=> sdread /\ ~w
  /\ readAddress' = readAddress + Bit(sdread /\ ~w)
  /\ writeAddress' + Used(sdwritedata')
       = writeAddress + Used(sdwritedata) + Used(writeFifoOutput)
  /\ sdread' => reqFifoUsed + Bit(reqFifoWriteRequest) + Bit(sdread /\ ~w)
                  <= ALMOST_FULL + 1

PortStages ==
  /\ stage' \in {1, 2} /\ (irq' <=> stage' = 2) /\ ~startSdRead'
  /\ readAddress' <= End /\ (sdread' => stage' = 1 /\ readAddress' < End)
  /\ stage' = 2 => readAddress' = End /\ writeAddress' = End

(* What the invariant says of the port during a run.                       *)
LEMMA Running ==
  ASSUME EngineInv, stage = 1, BuffersFit
  PROVE  /\ readAddress \in Nat /\ writeAddress \in Nat /\ End \in Nat
         /\ ALMOST_FULL \in Nat \ {0} /\ AddressSpace \in Nat
         /\ reqFifoUsed \in Nat /\ sdBase < End
         /\ readAddress <= End /\ End < AddressSpace
         /\ sdread => readAddress < End /\ writeStage = 0 /\ ~startSdRead
         /\ startSdRead => /\ readAddress = sdBase /\ writeAddress = sdBase
                           /\ reqFifoUsed = 0 /\ writeStage = 0
         /\ ~irq /\ writeStage \in 0 .. 4
<1>1. TypeOK /\ WriteHolds /\ StagesHold
  BY DEF EngineInv
<1>2. sdBase \in Bases /\ sdBase \in Nat
  BY <1>1 DEF StagesHold, TypeOK, Addresses
<1>3. sdBase + NO_SAMPLES < AddressSpace
  BY <1>2 DEF BuffersFit
<1>4. /\ readAddress \in Nat /\ writeAddress \in Nat /\ End \in Nat
      /\ sdBase < End /\ End < AddressSpace /\ AddressSpace \in Nat
      /\ reqFifoUsed \in Nat /\ writeStage \in 0 .. 4
  BY <1>1, <1>2, <1>3, NotchAssumption DEF TypeOK, Addresses, End
<1>5. QED
  BY <1>1, <1>4, FifoAssumption DEF StagesHold, WriteHolds

LEMMA StartReadingStep ==
  ASSUME EngineInv, stage = 1, BuffersFit, Fifos, StartReading,
         NEW w \in BOOLEAN
  PROVE  PortMoves(w) /\ PortStages /\ WriteHolds'
<1>1. TypeOK /\ WriteHolds
  BY DEF EngineInv
<1>2. /\ startSdRead /\ ~sdread /\ writeStage = 0 /\ reqFifoUsed = 0
      /\ writeAddress = sdBase /\ readAddress = sdBase
  BY Running DEF StartReading
<1>3. /\ readAddress' = readAddress /\ writeAddress' = writeAddress
      /\ sdwritedata' = sdwritedata /\ ~reqFifoWriteRequest' /\ sdread'
      /\ ~startSdRead' /\ stage' = 1 /\ irq' = irq /\ sdwrite' = sdwrite
      /\ writeStage' = writeStage
      /\ writeFifoReadRequest' = writeFifoReadRequest
  BY DEF StartReading
<1>4. /\ Used(writeFifoOutput) = 0 /\ Used(sdwritedata) = 0
      /\ ~writeFifoReadRequest
      /\ Used(writeFifoOutput') = 0
  BY <1>1, <1>2, Edges DEF WriteHolds, Bit
<1>5. PortMoves(w)
  BY <1>2, <1>3, <1>4, Running DEF PortMoves, Bit
<1>6. PortStages
  BY <1>2, <1>3, Running DEF PortStages, End
<1>7. WriteHolds'
  BY <1>1, <1>2, <1>3, <1>4 DEF WriteHolds, Bit
<1>8. QED
  BY <1>5, <1>6, <1>7

LEMMA FinishStep ==
  ASSUME EngineInv, stage = 1, BuffersFit, Fifos, Finish, NEW w \in BOOLEAN
  PROVE  PortMoves(w) /\ PortStages /\ WriteHolds'
<1>1. TypeOK /\ WriteHolds
  BY DEF EngineInv
<1>2. writeAddress >= End /\ readAddress <= End
  BY Running DEF Finish
<1>3. Empty /\ readAddress = writeAddress /\ readAddress = End
  BY <1>2, EmptyWhenEqual, Running
<1>4. ~sdread /\ ~startSdRead
  BY <1>3, Running
<1>5. /\ readAddress' = readAddress /\ writeAddress' = writeAddress
      /\ sdwritedata' = <<>> /\ ~sdread' /\ ~sdwrite'
      /\ reqFifoWriteRequest' = reqFifoWriteRequest
      /\ startSdRead' = startSdRead /\ stage' = 2 /\ irq'
      /\ writeStage' = writeStage
      /\ writeFifoReadRequest' = writeFifoReadRequest
  BY DEF Finish
<1>6. /\ Used(writeFifoOutput) = 0 /\ Used(sdwritedata) = 0
      /\ ~writeFifoReadRequest /\ Used(sdwritedata') = 0
      /\ writeStage = 0 /\ ~reqFifoWriteRequest
  BY <1>3, <1>5, UsedLiteral DEF Empty
<1>7. Used(writeFifoOutput') = 0
  BY <1>6, Edges DEF Bit
<1>8. PortMoves(w)
  BY <1>4, <1>5, <1>6, Running DEF PortMoves, Bit
<1>9. PortStages
  <2>1. End' = End => (readAddress' = End /\ writeAddress' = End)
    BY <1>3, <1>5
  <2>2. QED
    BY <1>2, <1>3, <1>4, <1>5, Running DEF PortStages
<1>10. WriteHolds'
  BY <1>1, <1>5, <1>6, <1>7 DEF WriteHolds, Bit
<1>11. QED
  BY <1>8, <1>9, <1>10

(* While a request is on the bus nothing is being written.                 *)
LEMMA ReadStep ==
  ASSUME EngineInv, stage = 1, BuffersFit, Fifos, NEW w \in BOOLEAN,
         AcceptedRead(w) \/ HeldRead(w)
  PROVE  PortMoves(w) /\ PortStages /\ WriteHolds'
<1>1. TypeOK /\ WriteHolds /\ RequestsHold
  BY DEF EngineInv
<1>2. /\ sdread /\ ~startSdRead /\ stage' = stage /\ irq' = irq
      /\ startSdRead' = startSdRead /\ sdwrite' = sdwrite
      /\ sdwritedata' = sdwritedata /\ writeStage' = writeStage
      /\ writeAddress' = writeAddress
      /\ writeFifoReadRequest' = writeFifoReadRequest
  BY DEF AcceptedRead, HeldRead, Busy
<1>3. /\ writeStage = 0 /\ readAddress < End /\ Used(writeFifoOutput) = 0
      /\ Used(sdwritedata) = 0 /\ ~sdwrite /\ ~writeFifoReadRequest
  BY <1>1, <1>2, Running DEF WriteHolds, Bit
<1>4. Used(writeFifoOutput') = 0
  BY <1>3, Edges DEF Bit
<1>5. WriteHolds'
  BY <1>2, <1>3, <1>4 DEF WriteHolds, Bit
<1>6. reqFifoUsed + Bit(reqFifoWriteRequest) <= ALMOST_FULL + 1
  BY <1>1, <1>2 DEF RequestsHold
<1>7. CASE AcceptedRead(w)
  <2>1. ~w /\ reqFifoWriteRequest' /\ readAddress' = readAddress + 1
    BY <1>3, <1>7, Running DEF AcceptedRead, Next1
  <2>2. sdread' => readAddress < End - 1 /\ reqFifoUsed < ALMOST_FULL
    BY <1>7, Running DEF AcceptedRead, AlmostFull
  <2>3. PortMoves(w)
    BY <1>2, <1>3, <2>1, <2>2, Running DEF PortMoves, Bit
  <2>4. PortStages
    BY <1>2, <1>3, <2>1, <2>2, Running DEF PortStages
  <2>5. QED
    BY <1>5, <2>3, <2>4
<1>8. CASE HeldRead(w)
  <2>1. w /\ ~reqFifoWriteRequest' /\ readAddress' = readAddress
    BY <1>8 DEF HeldRead
  <2>2. PortMoves(w)
    <3>1. reqFifoUsed + Bit(reqFifoWriteRequest) + Bit(sdread /\ ~w)
            <= ALMOST_FULL + 1
      BY <1>6, <2>1, Running DEF Bit
    <3>2. QED
      BY <1>2, <1>3, <2>1, <3>1, Running DEF PortMoves, Bit
  <2>3. PortStages
    BY <1>2, <1>3, <2>1, Running DEF PortStages
  <2>4. QED
    BY <1>5, <2>2, <2>3
<1>9. QED
  BY <1>7, <1>8

(* The steps of a write: no reading, no address but writeAddress moves.    *)
LEMMA WriteStep ==
  ASSUME EngineInv, stage = 1, BuffersFit, Fifos, NEW w \in BOOLEAN,
         FetchWrite \/ StartWrite \/ AcceptedWrite(w) \/ HeldWrite(w)
  PROVE  PortMoves(w) /\ PortStages /\ WriteHolds'
<1>1. TypeOK /\ WriteHolds
  BY DEF EngineInv
<1>2. /\ ~sdread /\ ~sdread' /\ ~startSdRead /\ stage' = stage /\ irq' = irq
      /\ startSdRead' = startSdRead /\ ~reqFifoWriteRequest'
      /\ readAddress' = readAddress /\ writeAddress < End
  BY Running DEF FetchWrite, StartWrite, AcceptedWrite, HeldWrite, Writing,
                 Busy
<1>3. PortStages
  BY <1>2, Running DEF PortStages
<1>4. Used(writeFifoOutput') = Bit(writeFifoReadRequest)
      /\ Used(writeFifo') = Used(writeFifo) - Bit(writeFifoReadRequest)
                            + Used(writeFifoWrite)
      /\ Used(writeFifo) \in Nat /\ Used(writeFifoWrite) \in Nat
      /\ Used(writeFifoOutput) \in {0, 1} /\ Used(<<>>) = 0
  BY <1>1, Edges, Sizes, UsedLiteral
<1>5. /\ writeAddress' + Used(sdwritedata')
           = writeAddress + Used(sdwritedata) + Used(writeFifoOutput)
      /\ WriteHolds'
  <2>1. CASE FetchWrite
    <3>1. writeStage \in {1, 2} /\ sdwrite' = sdwrite
          /\ sdwritedata' = sdwritedata /\ writeAddress' = writeAddress
      BY <2>1 DEF FetchWrite
    <3>2. Used(writeFifoOutput) = 0 /\ Used(sdwritedata) = 0 /\ ~sdwrite
          /\ Used(writeFifo) > 0
      BY <1>1, <3>1 DEF WriteHolds, Bit
    <3>3. writeStage' = writeStage + 1
          /\ (writeFifoReadRequest' <=> writeStage = 1)
          /\ (writeFifoReadRequest <=> writeStage = 2)
      BY <1>1, <2>1 DEF FetchWrite, WriteHolds
    <3>4. WriteHolds'
      BY <1>2, <1>4, <3>1, <3>2, <3>3 DEF WriteHolds, Bit
    <3>5. QED
      BY <3>1, <3>2, <3>4, Running
  <2>2. CASE StartWrite
    <3>1. /\ writeStage = 3 /\ writeStage' = 4 /\ sdwrite'
          /\ sdwritedata' = writeFifoOutput /\ writeAddress' = writeAddress
          /\ writeFifoReadRequest' = writeFifoReadRequest
      BY <2>2 DEF StartWrite
    <3>2. Used(writeFifoOutput) = 1 /\ Used(sdwritedata) = 0
          /\ ~writeFifoReadRequest
      BY <1>1, <3>1 DEF WriteHolds, Bit
    <3>3. WriteHolds'
      BY <1>2, <1>4, <3>1, <3>2 DEF WriteHolds, Bit
    <3>4. QED
      BY <3>1, <3>2, <3>3, Running
  <2>3. CASE AcceptedWrite(w)
    <3>1. /\ writeStage = 4 /\ writeStage' = 0 /\ ~sdwrite'
          /\ sdwritedata' = <<>> /\ writeAddress' = writeAddress + 1
          /\ writeFifoReadRequest' = writeFifoReadRequest
      BY <1>2, <2>3, Running DEF AcceptedWrite, Next1
    <3>2. Used(writeFifoOutput) = 0 /\ Used(sdwritedata) = 1
          /\ ~writeFifoReadRequest
      BY <1>1, <3>1 DEF WriteHolds, Bit
    <3>3. WriteHolds'
      BY <1>2, <1>4, <3>1, <3>2 DEF WriteHolds, Bit
    <3>4. QED
      BY <1>4, <3>1, <3>2, <3>3, Running
  <2>4. CASE HeldWrite(w)
    <3>1. /\ writeStage = 4 /\ writeStage' = 4 /\ sdwrite' = sdwrite
          /\ sdwritedata' = sdwritedata /\ writeAddress' = writeAddress
          /\ writeFifoReadRequest' = writeFifoReadRequest
      BY <2>4 DEF HeldWrite
    <3>2. Used(writeFifoOutput) = 0 /\ Used(sdwritedata) = 1 /\ sdwrite
          /\ ~writeFifoReadRequest
      BY <1>1, <3>1 DEF WriteHolds, Bit
    <3>3. WriteHolds'
      BY <1>2, <1>4, <3>1, <3>2 DEF WriteHolds, Bit
    <3>4. QED
      BY <3>1, <3>2, <3>3, Running
  <2>5. QED
    BY <2>1, <2>2, <2>3, <2>4
<1>6. PortMoves(w)
  BY <1>2, <1>5, Running DEF PortMoves, Bit
<1>7. QED
  BY <1>3, <1>5, <1>6

LEMMA ChooseStep ==
  ASSUME EngineInv, stage = 1, BuffersFit, Fifos, Choose, NEW w \in BOOLEAN
  PROVE  PortMoves(w) /\ PortStages /\ WriteHolds'
<1>1. TypeOK /\ WriteHolds
  BY DEF EngineInv
<1>2. /\ ~sdread /\ ~startSdRead /\ stage' = stage /\ irq' = irq
      /\ startSdRead' = startSdRead /\ ~reqFifoWriteRequest'
      /\ readAddress' = readAddress /\ writeAddress' = writeAddress
      /\ sdwritedata' = sdwritedata /\ sdwrite' = sdwrite
      /\ writeFifoReadRequest' = writeFifoReadRequest
      /\ writeStage = 0 /\ ~sdwrite
  BY DEF Choose, Busy
<1> DEFINE mayRead == readAddress < End /\ ~AlmostFull(reqFifoUsed)
<1>20. /\ sdread' = mayRead
      /\ writeStage' = IF ~mayRead /\ writeFifo # <<>> THEN 1 ELSE 0
  BY DEF Choose
<1>21. mayRead => readAddress < End /\ reqFifoUsed < ALMOST_FULL
  BY Running DEF AlmostFull
<1> HIDE DEF mayRead
<1>22. sdread' <=> mayRead
  BY <1>20, Zenon
<1>3. sdread' => readAddress < End /\ reqFifoUsed < ALMOST_FULL
  BY <1>21, <1>22
<1>4. /\ writeStage' \in {0, 1}
      /\ writeStage' = 1 => ~sdread' /\ Used(writeFifo) > 0
  BY <1>1, <1>20, <1>22, Sizes
<1>5. /\ Used(writeFifoOutput) = 0 /\ Used(sdwritedata) = 0
      /\ ~writeFifoReadRequest
  BY <1>1, <1>2 DEF WriteHolds, Bit
<1>6. /\ Used(writeFifoOutput') = 0
      /\ Used(writeFifo') = Used(writeFifo) + Used(writeFifoWrite)
      /\ Used(writeFifo) \in Nat /\ Used(writeFifoWrite) \in Nat
  BY <1>1, <1>5, Edges, Sizes DEF Bit
<1>7. PortMoves(w)
  BY <1>2, <1>3, <1>5, Running DEF PortMoves, Bit
<1>8. PortStages
  BY <1>2, <1>3, Running DEF PortStages
<1>9. WriteHolds'
  <2>1. sdread' => writeStage' = 0
    BY <1>4
  <2>2. QED
    BY <1>2, <1>4, <1>5, <1>6, <2>1 DEF WriteHolds, Bit
<1>10. QED
  BY <1>7, <1>8, <1>9

LEMMA PortStep ==
  ASSUME EngineInv, stage = 1, BuffersFit, Fifos, NEW w \in BOOLEAN, SdPort(w)
  PROVE  PortMoves(w) /\ PortStages /\ WriteHolds'
BY StartReadingStep, FinishStep, ReadStep, WriteStep, ChooseStep DEF SdPort
-----------------------------------------------------------------------------
(* The invariant is preserved by every kind of clock cycle.                *)

(* What every cycle has in common.                                         *)
Around(w, v) == Sdram(w, v) /\ Fifos

LEMMA RunStep ==
  ASSUME EngineInv, TypeOK', BuffersFit, NEW start \in BOOLEAN,
         NEW w \in BOOLEAN, NEW v \in BOOLEAN, Around(w, v), Run(start, w, v)
  PROVE  EngineInv'
<1> DEFINE acc == sdread /\ ~w
<1>1. /\ TypeOK /\ RequestsHold /\ CountersHold /\ StagesHold
      /\ Fifos /\ Sdram(w, v)
  BY DEF EngineInv, Around
<1>2. /\ stage = 1 /\ ~forceReset /\ SdPort(w) /\ Receive(v) /\ Calculate
      /\ forceReset' = forceReset /\ fifoClear' = fifoClear
      /\ sdBase' = sdBase
  BY DEF Run
<1>3. PortMoves(w) /\ PortStages /\ WriteHolds'
  BY <1>1, <1>2, PortStep
<1>4. /\ CalculationHolds'
      /\ calculationCount' = calculationCount + Used(writeFifoWrite)
      /\ Used(readFifoOutput') + Used(x_n') + Used(writeFifoWrite')
           = Used(readFifoOutput) + Used(x_n) + Bit(fetch)
  BY <1>1, <1>2, CalculateStep
<1>5. /\ Used(pending') = Used(pending) - Bit(v) + Bit(acc)
      /\ v => Used(pending) > 0
  BY <1>1, SdramEdge
<1>6. /\ Used(readFifoWrite') = Bit(v)
      /\ sdReceiveCount' = sdReceiveCount + Bit(v)
      /\ sdDiscardedRead' = 0
  BY <1>1, <1>2, <1>5, ReceiveStep DEF CountersHold
<1>7. /\ Used(readFifo') = Used(readFifo) - Bit(fetch) + Used(readFifoWrite)
      /\ Used(writeFifo') = Used(writeFifo) - Bit(writeFifoReadRequest)
                            + Used(writeFifoWrite)
      /\ reqFifoUsed' = reqFifoUsed - Bit(fetch) + Bit(reqFifoWriteRequest)
      /\ Used(writeFifoOutput') = Bit(writeFifoReadRequest)
  BY <1>1, Edges
<1>8. /\ Used(pending) \in Nat /\ Used(readFifo) \in Nat
      /\ Used(writeFifo) \in Nat /\ Used(readFifoWrite) \in Nat
      /\ Used(readFifoOutput) \in Nat /\ Used(x_n) \in Nat
      /\ Used(writeFifoWrite) \in Nat /\ Used(writeFifoOutput) \in Nat
      /\ Used(sdwritedata) \in Nat
  BY <1>1, Sizes
<1>9. /\ Used(readFifoOutput') \in Nat /\ Used(x_n') \in Nat
      /\ Used(writeFifoWrite') \in Nat /\ Used(sdwritedata') \in Nat
      /\ Used(readFifo') \in Nat /\ Used(writeFifo') \in Nat
      /\ calculationCount' \in Nat /\ sdReceiveCount' \in Nat
  <2>1. \A q \in AtMostOne(Sample) : Used(q) \in Nat
    BY UsedAtMostOne DEF Bit
  <2>2. \A q \in Seq(Sample) : Used(q) \in Nat
    BY UsedSeq
  <2>3. QED
    BY <2>1, <2>2 DEF TypeOK
<1>10. /\ readAddress \in Nat /\ writeAddress \in Nat /\ sdBase \in Nat
       /\ writeAddress' \in Nat
       /\ sdReceiveCount \in Nat /\ calculationCount \in Nat
       /\ reqFifoUsed \in Nat /\ ALMOST_FULL \in Nat
       /\ Bit(fetch) \in {0, 1} /\ Bit(v) \in {0, 1} /\ Bit(acc) \in {0, 1}
       /\ Bit(writeFifoReadRequest) \in {0, 1}
       /\ Bit(reqFifoWriteRequest) \in {0, 1}
  BY <1>1, FifoAssumption DEF TypeOK, Addresses, Bit
<1>11. RequestsHold'
  <2>1. Bit(reqFifoWriteRequest') = Bit(acc)
    BY <1>3 DEF PortMoves, Bit
  <2>2. /\ reqFifoUsed + Bit(reqFifoWriteRequest)
             = Used(pending) + Used(readFifo) + Used(readFifoWrite)
        /\ reqFifoUsed + Bit(reqFifoWriteRequest) <= ALMOST_FULL + 2
        /\ Bit(acc) = 1 =>
             reqFifoUsed + Bit(reqFifoWriteRequest) <= ALMOST_FULL + 1
        /\ Bit(v) = 1 => Used(pending) > 0
    BY <1>1, <1>5 DEF RequestsHold, Bit
  <2>3. /\ reqFifoUsed' + Bit(acc)
             = Used(pending') + Used(readFifo') + Used(readFifoWrite')
        /\ Bit(acc) <= Used(pending')
        /\ reqFifoUsed' + Bit(acc) <= ALMOST_FULL + 2
    BY <1>5, <1>6, <1>7, <1>8, <1>10, <2>2
  <2>4. sdread' => reqFifoUsed' + Bit(acc) <= ALMOST_FULL + 1
    BY <1>3, <1>7, <1>10 DEF PortMoves
  <2>5. QED
    BY <2>1, <2>3, <2>4 DEF RequestsHold
<1>12. CountersHold'
  <2>1. /\ readAddress = sdBase + sdReceiveCount + Used(pending)
        /\ sdReceiveCount = calculationCount + Used(readFifoWrite)
                            + Used(readFifo) + Used(readFifoOutput)
                            + Used(x_n) + Used(writeFifoWrite)
        /\ sdBase + calculationCount = writeAddress + Used(writeFifo)
                                 + Used(writeFifoOutput) + Used(sdwritedata)
    BY <1>1 DEF CountersHold
  <2>2. readAddress' = sdBase' + sdReceiveCount' + Used(pending')
    BY <1>2, <1>3, <1>5, <1>6, <1>8, <1>10, <2>1 DEF PortMoves
  <2>3. sdReceiveCount' = calculationCount' + Used(readFifoWrite')
                          + Used(readFifo') + Used(readFifoOutput')
                          + Used(x_n') + Used(writeFifoWrite')
    <3>1. Used(readFifo') + Used(readFifoOutput') + Used(x_n')
            + Used(writeFifoWrite')
            = Used(readFifo) + Used(readFifoWrite) + Used(readFifoOutput)
              + Used(x_n)
      BY <1>4, <1>7, <1>8, <1>9, <1>10
    <3>2. sdReceiveCount' = Used(readFifoWrite') + sdReceiveCount
      BY <1>6, <1>10
    <3>3. sdReceiveCount = calculationCount' + Used(readFifoWrite)
                           + Used(readFifo) + Used(readFifoOutput) + Used(x_n)
      BY <1>4, <1>8, <1>10, <2>1
    <3>4. Used(readFifoWrite') \in Nat
      BY <1>6, <1>10
    <3>5. QED
      BY <1>8, <1>9, <1>10, <3>1, <3>2, <3>3, <3>4
  <2>4. writeAddress' + Used(sdwritedata')
          = writeAddress + Used(sdwritedata) + Used(writeFifoOutput)
    BY <1>3 DEF PortMoves
  <2>5. sdBase' + calculationCount' = writeAddress' + Used(writeFifo')
                               + Used(writeFifoOutput') + Used(sdwritedata')
    <3>1. Used(writeFifo') + Used(writeFifoOutput')
            = Used(writeFifo) + Used(writeFifoWrite)
      BY <1>7, <1>8, <1>10
    <3>2. sdBase + calculationCount'
            = writeAddress + Used(writeFifo) + Used(writeFifoOutput)
              + Used(sdwritedata) + Used(writeFifoWrite)
      BY <1>4, <1>8, <1>10, <2>1
    <3>3. Used(writeFifoOutput') \in Nat
      BY <1>7, <1>10
    <3>4. QED
      BY <1>2, <1>8, <1>9, <1>10, <2>4, <3>1, <3>2, <3>3
  <2>6. QED
    BY <1>6, <2>2, <2>3, <2>5 DEF CountersHold
<1>13. StagesHold'
  BY <1>1, <1>2, <1>3 DEF PortStages, StagesHold, End
<1>14. QED
  BY <1>3, <1>4, <1>11, <1>12, <1>13 DEF EngineInv

(* Nothing comes from the SDRAM or the FIFOs when nothing is in them.      *)
LEMMA StillEmpty ==
  ASSUME EngineInv, stage # 1, NEW w \in BOOLEAN, NEW v \in BOOLEAN,
         Around(w, v)
  PROVE  /\ Empty /\ ~sdread /\ ~v
         /\ Used(pending') = 0 /\ Used(readFifo') = 0 /\ Used(writeFifo') = 0
         /\ reqFifoUsed' = 0 /\ Used(readFifoOutput') = 0
         /\ Used(writeFifoOutput') = 0
<1>1. TypeOK /\ Empty /\ ~sdread
  BY EmptyOutsideRuns DEF EngineInv, StagesHold
<1>2. /\ Used(pending') = Used(pending) - Bit(v) + Bit(sdread /\ ~w)
      /\ v => Used(pending) > 0
  BY <1>1, SdramEdge DEF Around
<1>3. ~v /\ Used(pending') = 0
  BY <1>1, <1>2 DEF Empty, Bit
<1>4. /\ Used(readFifo') = Used(readFifo) - Bit(fetch) + Used(readFifoWrite)
      /\ Used(writeFifo') = Used(writeFifo) - Bit(writeFifoReadRequest)
                            + Used(writeFifoWrite)
      /\ reqFifoUsed' = reqFifoUsed - Bit(fetch) + Bit(reqFifoWriteRequest)
      /\ Used(readFifoOutput') = Bit(fetch)
      /\ Used(writeFifoOutput') = Bit(writeFifoReadRequest)
  BY Edges DEF Around
<1>5. /\ Used(readFifo) = 0 /\ Used(readFifoWrite) = 0
      /\ Used(writeFifo) = 0 /\ Used(writeFifoWrite) = 0
      /\ reqFifoUsed = 0 /\ Bit(fetch) = 0 /\ Bit(writeFifoReadRequest) = 0
      /\ Bit(reqFifoWriteRequest) = 0
  BY <1>1 DEF Empty, Bit
<1>6. QED
  BY <1>1, <1>3, <1>4, <1>5

(* The parts of the invariant for an empty engine.                         *)
LEMMA EmptyHolds ==
  ASSUME TypeOK', Empty', ~sdread',
         readAddress' = sdBase' + sdReceiveCount',
         sdReceiveCount' = calculationCount',
         sdBase' + calculationCount' = writeAddress', sdDiscardedRead' = 0
  PROVE  CalculationHolds' /\ WriteHolds' /\ RequestsHold' /\ CountersHold'
<1>1. /\ ALMOST_FULL \in Nat
      /\ sdBase' \in Nat /\ sdReceiveCount' \in Nat /\ calculationCount' \in Nat
  <2>1. sdBase' \in Addresses /\ sdReceiveCount' \in Nat
        /\ calculationCount' \in Nat
    BY DEF TypeOK, Addresses
  <2>2. QED
    BY <2>1, FifoAssumption DEF Addresses
<1>2. CalculationHolds'
  BY <1>1 DEF Empty, CalculationHolds, Bit
<1>3. WriteHolds'
  BY <1>1 DEF Empty, WriteHolds, Bit
<1>4. RequestsHold'
  BY <1>1 DEF Empty, RequestsHold, Bit
<1>5. CountersHold'
  <2>1. readAddress' = sdBase' + sdReceiveCount' + Used(pending')
    BY <1>1 DEF Empty
  <2>2. /\ Used(readFifoWrite') = 0 /\ Used(readFifo') = 0
        /\ Used(readFifoOutput') = 0 /\ Used(x_n') = 0
        /\ Used(writeFifoWrite') = 0 /\ Used(writeFifo') = 0
        /\ Used(writeFifoOutput') = 0 /\ Used(sdwritedata') = 0
    BY DEF Empty
  <2>3. sdReceiveCount' = calculationCount' + Used(readFifoWrite')
                          + Used(readFifo') + Used(readFifoOutput')
                          + Used(x_n') + Used(writeFifoWrite')
    <3>1. \A n \in Nat : n + 0 + 0 + 0 + 0 + 0 = n
      OBVIOUS
    <3>2. QED
      BY <1>1, <2>2, <3>1
  <2>4. sdBase' + calculationCount' = writeAddress' + Used(writeFifo')
                               + Used(writeFifoOutput') + Used(sdwritedata')
    <3>1. \A n \in Nat : n + 0 + 0 + 0 = n
      OBVIOUS
    <3>2. QED
      BY <1>1, <2>2, <3>1
  <2>5. QED
    BY <2>1, <2>3, <2>4 DEF CountersHold
<1>6. QED
  BY <1>2, <1>3, <1>4, <1>5

(* Outside a run all addresses and counters agree.                         *)
LEMMA Settled ==
  ASSUME EngineInv, Empty
  PROVE  /\ readAddress = sdBase + sdReceiveCount
         /\ sdReceiveCount = calculationCount
         /\ sdBase + calculationCount = writeAddress
         /\ sdDiscardedRead = 0
<1>1. /\ readAddress \in Nat /\ writeAddress \in Nat /\ sdBase \in Nat
      /\ sdReceiveCount \in Nat /\ calculationCount \in Nat
  BY DEF EngineInv, TypeOK, Addresses
<1>2. /\ readAddress = sdBase + sdReceiveCount + Used(pending)
      /\ sdReceiveCount = calculationCount + Used(readFifoWrite)
                          + Used(readFifo) + Used(readFifoOutput)
                          + Used(x_n) + Used(writeFifoWrite)
      /\ sdBase + calculationCount = writeAddress + Used(writeFifo)
                               + Used(writeFifoOutput) + Used(sdwritedata)
      /\ sdDiscardedRead = 0
  BY DEF EngineInv, CountersHold
<1>3. QED
  BY <1>1, <1>2 DEF Empty

LEMMA ResetStep ==
  ASSUME EngineInv, TypeOK', NEW w \in BOOLEAN, NEW v \in BOOLEAN,
         Around(w, v), Reset
  PROVE  EngineInv'
<1>1. TypeOK /\ StagesHold /\ forceReset /\ stage = 2 /\ ~irq
  BY DEF EngineInv, StagesHold, Reset
<1>2. /\ Used(pending') = 0 /\ Used(readFifo') = 0 /\ Used(writeFifo') = 0
      /\ reqFifoUsed' = 0 /\ Used(readFifoOutput') = 0
      /\ Used(writeFifoOutput') = 0
  BY <1>1, StillEmpty
<1>3. Empty'
  <2>1. Used(<<>>) = 0
    BY UsedLiteral
  <2>2. QED
    BY <1>2, <2>1 DEF Reset, Empty
<1>4. CalculationHolds' /\ WriteHolds' /\ RequestsHold' /\ CountersHold'
  <2>1. /\ sdBase' = 0 /\ readAddress' = 0 /\ writeAddress' = 0
        /\ sdReceiveCount' = 0 /\ calculationCount' = 0
        /\ sdDiscardedRead' = 0 /\ ~sdread'
    BY DEF Reset
  <2>2. QED
    BY <1>3, <2>1, EmptyHolds
<1>5. StagesHold'
  BY <1>1 DEF Reset, StagesHold
<1>6. QED
  BY <1>4, <1>5 DEF EngineInv

LEMMA AcceptStep ==
  ASSUME EngineInv, TypeOK', NEW w \in BOOLEAN, NEW v \in BOOLEAN,
         Around(w, v), NEW start \in BOOLEAN, NEW dataa \in Bases \cup {0},
         Accept(start, dataa)
  PROVE  EngineInv'
<1>1. TypeOK /\ StagesHold /\ stage = 0 /\ ~forceReset
  BY DEF EngineInv, Accept, IdleStage
<1>2. /\ Empty /\ ~sdread
      /\ Used(pending') = 0 /\ Used(readFifo') = 0 /\ Used(writeFifo') = 0
      /\ reqFifoUsed' = 0 /\ Used(readFifoOutput') = 0
      /\ Used(writeFifoOutput') = 0
  BY <1>1, StillEmpty
<1>3. /\ sdBase' = dataa /\ readAddress' = dataa /\ writeAddress' = dataa
      /\ sdReceiveCount' = sdReceiveCount /\ sdread' = sdread
      /\ calculationCount' = calculationCount
      /\ sdDiscardedRead' = sdDiscardedRead
  BY DEF Accept
<1>4. /\ sdReceiveCount' = 0 /\ calculationCount' = 0
      /\ sdDiscardedRead' = 0 /\ ~sdread'
  <2>1. readAddress = sdBase /\ sdBase \in Nat /\ sdReceiveCount \in Nat
    BY <1>1 DEF StagesHold, TypeOK, Addresses
  <2>2. QED
    BY <1>2, <1>3, <2>1, Settled
<1>5. Empty'
  <2>1. Used(<<>>) = 0
    BY UsedLiteral
  <2>2. QED
    BY <1>2, <2>1 DEF Accept, Empty
<1>6. dataa \in Bases /\ dataa \in Nat /\ NO_SAMPLES \in Nat \ {0}
  BY NotchAssumption DEF Accept
<1>7. CalculationHolds' /\ WriteHolds' /\ RequestsHold' /\ CountersHold'
  BY <1>3, <1>4, <1>5, <1>6, EmptyHolds
<1>8. StagesHold'
  <2>1. /\ ~irq' /\ ~forceReset' /\ stage' = 1 /\ ~fifoClear'
        /\ startSdRead'
    BY <1>1 DEF Accept, IdleStage, StagesHold
  <2>2. reqFifoUsed' = 0 /\ writeStage' = 0
    BY <1>5 DEF Empty
  <2>3. End' = dataa + NO_SAMPLES
    BY <1>3 DEF End
  <2>4. QED
    BY <1>3, <1>4, <1>6, <2>1, <2>2, <2>3 DEF StagesHold
<1>9. QED
  BY <1>7, <1>8 DEF EngineInv

(* A cycle that leaves the engine's registers alone.                       *)
LEMMA QuietStep ==
  ASSUME EngineInv, TypeOK', stage # 1, NEW w \in BOOLEAN, NEW v \in BOOLEAN,
         Around(w, v), UNCHANGED <<sdBase, busVars, calcVars, recvVars>>
  PROVE  /\ CalculationHolds' /\ WriteHolds' /\ RequestsHold' /\ CountersHold'
         /\ ~sdread /\ ~sdread'
<1>1. /\ Empty /\ ~sdread
      /\ Used(pending') = 0 /\ Used(readFifo') = 0 /\ Used(writeFifo') = 0
      /\ reqFifoUsed' = 0 /\ Used(readFifoOutput') = 0
      /\ Used(writeFifoOutput') = 0
  BY StillEmpty
<1>2. /\ sdBase' = sdBase /\ readAddress' = readAddress
      /\ writeAddress' = writeAddress /\ sdread' = sdread
      /\ sdReceiveCount' = sdReceiveCount
      /\ calculationCount' = calculationCount
      /\ sdDiscardedRead' = sdDiscardedRead
  BY DEF busVars, calcVars, recvVars
<1>3. Empty'
  BY <1>1 DEF Empty, busVars, calcVars, recvVars
<1>4. /\ readAddress = sdBase + sdReceiveCount
      /\ sdReceiveCount = calculationCount
      /\ sdBase + calculationCount = writeAddress
      /\ sdDiscardedRead = 0
  BY <1>1, Settled
<1>5. /\ readAddress' = sdBase' + sdReceiveCount'
      /\ sdReceiveCount' = calculationCount'
      /\ sdBase' + calculationCount' = writeAddress'
      /\ sdDiscardedRead' = 0 /\ ~sdread'
  BY <1>1, <1>2, <1>4
<1>6. QED
  BY <1>1, <1>3, <1>5, EmptyHolds

LEMMA IdleStep ==
  ASSUME EngineInv, TypeOK', NEW w \in BOOLEAN, NEW v \in BOOLEAN,
         Around(w, v), NEW start \in BOOLEAN, NEW dataa \in Bases \cup {0},
         Idle(start, dataa)
  PROVE  EngineInv'
<1>1. StagesHold /\ stage = 0 /\ ~forceReset
      /\ UNCHANGED <<sdBase, busVars, calcVars, recvVars>>
      /\ UNCHANGED <<stage, forceReset, irq>>
  BY DEF EngineInv, Idle, IdleStage
<1>2. /\ CalculationHolds' /\ WriteHolds' /\ RequestsHold' /\ CountersHold'
      /\ ~sdread /\ ~sdread'
  BY <1>1, QuietStep
<1>3. StagesHold'
  BY <1>1, <1>2 DEF StagesHold, busVars
<1>4. QED
  BY <1>2, <1>3 DEF EngineInv

LEMMA WaitForIrqStep ==
  ASSUME EngineInv, TypeOK', NEW w \in BOOLEAN, NEW v \in BOOLEAN,
         Around(w, v), NEW start \in BOOLEAN, NEW read \in BOOLEAN,
         WaitForIrq(start, read)
  PROVE  EngineInv'
<1>1. /\ StagesHold /\ stage = 2 /\ ~forceReset /\ irq
      /\ UNCHANGED <<sdBase, busVars, calcVars, recvVars>>
      /\ UNCHANGED <<stage, fifoClear>>
  BY DEF EngineInv, WaitForIrq, StagesHold
<1>2. (irq' <=> ~read) /\ (forceReset' <=> read)
  BY <1>1 DEF WaitForIrq
<1>3. /\ CalculationHolds' /\ WriteHolds' /\ RequestsHold' /\ CountersHold'
      /\ ~sdread /\ ~sdread'
  BY <1>1, QuietStep
<1>4. StagesHold'
  BY <1>1, <1>2, <1>3 DEF StagesHold, busVars, End
<1>5. QED
  BY <1>3, <1>4 DEF EngineInv
-----------------------------------------------------------------------------
(* The theorems.                                                           *)

LEMMA InitInv == Init => EngineInv
<1> SUFFICES ASSUME Init PROVE EngineInv
  OBVIOUS
<1>1. TypeOK
  BY InitType
<1>2. Used(<<>>) = 0 /\ ALMOST_FULL \in Nat
  BY UsedLiteral, FifoAssumption
<1>3. CalculationHolds
  BY <1>2 DEF Init, CalculationHolds, Bit
<1>4. WriteHolds
  BY <1>2 DEF Init, WriteHolds, Bit
<1>5. RequestsHold
  BY <1>2 DEF Init, RequestsHold, Bit
<1>6. CountersHold
  BY <1>2 DEF Init, CountersHold
<1>7. StagesHold
  BY DEF Init, StagesHold
<1>8. QED
  BY <1>1, <1>3, <1>4, <1>5, <1>6, <1>7 DEF EngineInv

LEMMA StutterInv == ASSUME EngineInv, UNCHANGED vars PROVE EngineInv'
<1> USE DEF vars, busVars, calcVars, recvVars, fifoVars
<1>1. TypeOK'
  BY StutterType DEF EngineInv
<1>2. CalculationHolds' /\ WriteHolds'
  BY DEF EngineInv, CalculationHolds, WriteHolds
<1>3. RequestsHold' /\ CountersHold'
  BY DEF EngineInv, RequestsHold, CountersHold
<1>4. StagesHold'
  BY DEF EngineInv, StagesHold, End
<1>5. QED
  BY <1>1, <1>2, <1>3, <1>4 DEF EngineInv

LEMMA NextInv == BuffersFit /\ EngineInv /\ [Next]_vars => EngineInv'
<1>1. ASSUME BuffersFit, EngineInv, Next PROVE EngineInv'
  <2>1. TypeOK'
    BY <1>1, NextType DEF EngineInv
  <2>2. PICK start \in BOOLEAN, read \in BOOLEAN, w \in BOOLEAN,
             v \in BOOLEAN, dataa \in Bases \cup {0} :
               Clock(start, dataa, read, w, v)
    BY <1>1 DEF Next
  <2>3. Around(w, v)
    BY <2>2 DEF Clock, Around
  <2>4. CASE Reset
    BY <1>1, <2>1, <2>3, <2>4, ResetStep
  <2>5. CASE Accept(start, dataa)
    BY <1>1, <2>1, <2>3, <2>5, AcceptStep
  <2>6. CASE Idle(start, dataa)
    BY <1>1, <2>1, <2>3, <2>6, IdleStep
  <2>7. CASE Run(start, w, v)
    BY <1>1, <2>1, <2>3, <2>7, RunStep
  <2>8. CASE WaitForIrq(start, read)
    BY <1>1, <2>1, <2>3, <2>8, WaitForIrqStep
  <2>9. QED
    BY <2>2, <2>4, <2>5, <2>6, <2>7, <2>8 DEF Clock
<1>2. QED
  BY <1>1, StutterInv

(* The inductive invariant, for every number of samples, FIFO depth and    *)
(* almost-full mark, as long as the buffers fit.                           *)
THEOREM EngineCorrect == BuffersFit => (Spec => []EngineInv)
<1>1. BuffersFit /\ Init => EngineInv
  BY InitInv
<1>2. ASSUME BuffersFit PROVE EngineInv /\ [Next]_vars => EngineInv'
  BY <1>2, NextInv
<1>3. ASSUME BuffersFit PROVE Spec => []EngineInv
  BY <1>1, <1>2, <1>3, PTL DEF Spec
<1>4. QED
  BY <1>3

(* The FIFOs never lose a word and are never read empty: the flow control  *)
(* of the read requests (notch.v, reading yields when the request FIFO is  *)
(* almost full) leaves room for every answer still to come.                *)
THEOREM NothingLost == BuffersFit => (Spec => []FifosLossless)
<1>1. ASSUME BuffersFit PROVE Spec => []FifosLossless
  <2>1. Spec => []EngineInv
    BY <1>1, EngineCorrect
  <2>2. EngineInv => FifosLossless
    BY Lossless
  <2>3. QED
    BY <2>1, <2>2, PTL
<1>2. QED
  BY <1>1
-----------------------------------------------------------------------------
(* What the notch engine owes its two buses and its interrupt.  Most of it *)
(* follows from EngineInv in one state or one step; that every start is    *)
(* answered has an invariant of its own, about the reset that takes no     *)
(* notice of start.                                                        *)


(* Nothing in flight outside a run.                                        *)
LEMMA EmptyPipeline == ASSUME TypeOK, Empty PROVE Pipeline = <<>>
<1>1. \A q \in Seq(Sample) : Used(q) = 0 => q = <<>>
  BY UsedSeq
<1>2. /\ pending = <<>> /\ readFifo = <<>> /\ writeFifo = <<>>
  BY <1>1 DEF TypeOK, Empty
<1>3. /\ readFifoWrite = <<>> /\ readFifoOutput = <<>> /\ x_n = <<>>
      /\ writeFifoWrite = <<>> /\ writeFifoOutput = <<>> /\ sdwritedata = <<>>
  BY <1>1 DEF TypeOK, Empty, AtMostOne
<1> QED BY <1>2, <1>3 DEF Pipeline

LEMMA Quiet == EngineInv => QuietOutsideRuns
<1> SUFFICES ASSUME EngineInv PROVE QuietOutsideRuns
  OBVIOUS
<1>1. TypeOK /\ CountersHold /\ StagesHold
  BY DEF EngineInv
<1>2. ASSUME stage # 1 PROVE Empty /\ Pipeline = <<>> /\ ~sdread /\ ~sdwrite
  <2>1. Empty
    BY <1>2, EmptyOutsideRuns
  <2> QED BY <1>1, <1>2, <2>1, EmptyPipeline DEF Empty, StagesHold
<1>3. ASSUME irq
      PROVE  /\ stage = 2 /\ writeAddress = End /\ readAddress = End
             /\ sdReceiveCount = NO_SAMPLES /\ calculationCount = NO_SAMPLES
  <2>1. stage = 2 /\ writeAddress = End /\ readAddress = End
    BY <1>1, <1>3 DEF StagesHold
  <2>2. Empty
    BY <1>2, <2>1
  <2>3. /\ sdBase \in Nat /\ sdReceiveCount \in Nat /\ calculationCount \in Nat
        /\ NO_SAMPLES \in Nat
    BY <1>1, NotchAssumption DEF TypeOK, Addresses
  <2> QED BY <1>1, <2>1, <2>2, <2>3 DEF CountersHold, Empty, End
<1> QED BY <1>2, <1>3 DEF QuietOutsideRuns

(* When the interrupt is up, and from then until the next run, no sample   *)
(* is anywhere in the engine or owed by the SDRAM.                         *)
THEOREM QuietAfterRuns == BuffersFit => (Spec => []QuietOutsideRuns)
<1>1. ASSUME BuffersFit PROVE Spec => []QuietOutsideRuns
  <2>1. Spec => []EngineInv
    BY <1>1, EngineCorrect
  <2> QED BY <2>1, Quiet, PTL
<1> QED BY <1>1
-----------------------------------------------------------------------------
(* Starts.  The reset follows a load, and during a load the CPU cannot     *)
(* issue an instruction.                                                   *)
AnswerInv == StartsAnswered /\ (forceReset => cpu \in {"read", "resp"})

LEMMA AnswerStep == TypeOK /\ AnswerInv /\ [Next]_vars => AnswerInv'
<1>1. ASSUME TypeOK, AnswerInv, Next PROVE AnswerInv'
  <2>1. PICK start \in BOOLEAN, read \in BOOLEAN, w \in BOOLEAN,
             v \in BOOLEAN, dataa \in Bases \cup {0} :
               Clock(start, dataa, read, w, v)
    BY <1>1 DEF Next
  <2>2. /\ cpu' = "ci" <=> start
        /\ read => cpu' \in {"read", "resp"}
        /\ cpu \in {"read", "resp"} => ~start
    BY <1>1, <2>1 DEF Clock, Port, AnswerInv, StartsAnswered
  <2>3. CASE Reset
    BY <1>1, <2>2, <2>3 DEF Reset, AnswerInv, StartsAnswered
  <2>4. CASE Accept(start, dataa)
    BY <1>1, <2>2, <2>4 DEF Accept, IdleStage, AnswerInv, StartsAnswered
  <2>5. CASE Idle(start, dataa)
    BY <1>1, <2>2, <2>5 DEF Idle, IdleStage, AnswerInv, StartsAnswered
  <2>6. CASE Run(start, w, v)
    BY <1>1, <2>2, <2>6 DEF Run, AnswerInv, StartsAnswered
  <2>7. CASE WaitForIrq(start, read)
    BY <1>1, <2>2, <2>7 DEF WaitForIrq, AnswerInv, StartsAnswered
  <2> QED BY <2>1, <2>3, <2>4, <2>5, <2>6, <2>7 DEF Clock
<1>2. AnswerInv /\ UNCHANGED vars => AnswerInv'
  BY DEF AnswerInv, StartsAnswered, vars
<1> QED BY <1>1, <1>2

(* done is up exactly while the CPU waits for it: no start is lost in the  *)
(* reset, and none returns on an older done.                               *)
THEOREM EveryStartAnswered == Spec => []StartsAnswered
<1>1. Init => AnswerInv
  BY DEF Init, AnswerInv, StartsAnswered
<1>2. Spec => []TypeOK
  BY TypeCorrect
<1>3. TypeOK /\ AnswerInv /\ [Next]_vars => AnswerInv'
  BY AnswerStep
<1>4. AnswerInv => StartsAnswered
  BY DEF AnswerInv
<1> QED BY <1>1, <1>2, <1>3, <1>4, PTL DEF Spec
-----------------------------------------------------------------------------
(* The bus.  A step that leaves the request counters alone is one in which *)
(* the SDRAM holds the request up.                                         *)
BusHeld ==
  /\ ~(sdread /\ sdwrite)
  /\ sdread /\ readAddress' = readAddress => sdread' /\ sdaddress' = sdaddress
  /\ sdwrite /\ writeAddress' = writeAddress
       => /\ sdwrite' /\ sdaddress' = sdaddress
          /\ sdwritedata' = sdwritedata

LEMMA HeldPort ==
  ASSUME EngineInv, stage = 1, BuffersFit, NEW w \in BOOLEAN, SdPort(w)
  PROVE  BusHeld
<1>1. /\ readAddress \in Nat /\ writeAddress \in Nat /\ AddressSpace \in Nat
      /\ readAddress <= End /\ End < AddressSpace /\ End \in Nat
      /\ sdread => readAddress < End /\ writeStage = 0 /\ ~startSdRead
      /\ startSdRead => readAddress < End /\ writeStage = 0
      /\ sdwrite => writeStage = 4
  BY Running DEF EngineInv, WriteHolds
<1>2. ~(sdread /\ sdwrite)
  BY <1>1
<1>3. sdread \/ sdwrite => writeAddress < End
  <2>1. ASSUME End <= writeAddress PROVE ~sdread /\ ~sdwrite
    <3>1. readAddress <= writeAddress
      BY <1>1, <2>1
    <3>2. Empty /\ readAddress = writeAddress
      BY <3>1, EmptyWhenEqual
    <3> QED BY <1>1, <2>1, <3>2 DEF Empty
  <2> QED BY <1>1, <2>1
<1>4. \A a \in Nat : a < End => Next1(a) # a
  BY <1>1 DEF Next1
<1>5. CASE StartReading
  BY <1>1, <1>5 DEF StartReading, BusHeld
<1>6. CASE Finish
  BY <1>1, <1>3, <1>6 DEF Finish, BusHeld
<1>7. CASE AcceptedRead(w)
  BY <1>1, <1>2, <1>4, <1>7 DEF AcceptedRead, BusHeld
<1>8. CASE HeldRead(w)
  BY <1>2, <1>8 DEF HeldRead, BusHeld
<1>9. CASE FetchWrite \/ StartWrite
  BY <1>1, <1>2, <1>9 DEF FetchWrite, StartWrite, Writing, BusHeld
<1>10. CASE AcceptedWrite(w)
  BY <1>1, <1>2, <1>3, <1>4, <1>10 DEF AcceptedWrite, Writing, BusHeld
<1>11. CASE HeldWrite(w)
  BY <1>2, <1>11 DEF HeldWrite, Writing, BusHeld
<1>12. CASE Choose
  BY <1>12 DEF Choose, BusHeld
<1> QED
  BY <1>5, <1>6, <1>7, <1>8, <1>9, <1>10, <1>11, <1>12 DEF SdPort

LEMMA HeldStep == BuffersFit /\ EngineInv /\ [Next]_vars => [BusHeld]_vars
<1>1. ASSUME BuffersFit, EngineInv, Next PROVE BusHeld
  <2>1. CASE stage = 1 /\ ~forceReset
    <3>1. PICK w \in BOOLEAN : SdPort(w)
      BY <1>1, <2>1 DEF Next, Clock, Reset, Accept, Idle, IdleStage, Run,
         WaitForIrq
    <3> QED BY <1>1, <2>1, <3>1, HeldPort
  <2>2. CASE ~(stage = 1 /\ ~forceReset)
    <3>1. stage # 1
      BY <1>1, <2>2 DEF EngineInv, StagesHold
    <3>2. ~sdread /\ ~sdwrite
      BY <1>1, <3>1, EmptyOutsideRuns DEF EngineInv, StagesHold, Empty
    <3> QED BY <3>2 DEF BusHeld
  <2> QED BY <2>1, <2>2
<1> QED BY <1>1

(* A request the SDRAM holds up stays on the bus, and reading and writing  *)
(* exclude each other.                                                     *)
THEOREM BusRules == BuffersFit => (Spec => BusStable)
<1>1. ASSUME BuffersFit PROVE Spec => BusStable
  <2>1. Spec => []EngineInv
    BY <1>1, EngineCorrect
  <2>2. EngineInv /\ [Next]_vars => [BusHeld]_vars
    BY <1>1, HeldStep
  <2>3. Spec => [][BusHeld]_vars
    BY <2>1, <2>2, PTL DEF Spec
  <2> QED BY <2>3 DEF BusStable, BusHeld
<1> QED BY <1>1

-----------------------------------------------------------------------------
(* The order of the samples.  EngineInv counts the samples in each         *)
(* register and FIFO.  OrderInv adds which samples they are: each place    *)
(* holds consecutive requests, and the counters of EngineInv say with      *)
(* which request each place begins.                                        *)

(* The samples of q answer consecutive requests, from request a on.        *)
Ascends(q, a) == \A i \in 1 .. Len(q) : q[i].nth = a + i - 1

OrderInv ==
  /\ Ascends(sdwritedata, writeAddress)
  /\ Ascends(writeFifoOutput, writeAddress + Used(sdwritedata))
  /\ Ascends(writeFifo,
             writeAddress + Used(sdwritedata) + Used(writeFifoOutput))
  /\ Ascends(writeFifoWrite, sdBase + calculationCount)
  /\ Ascends(x_n, sdBase + calculationCount + Used(writeFifoWrite))
  /\ Ascends(readFifoOutput,
             sdBase + calculationCount + Used(writeFifoWrite) + Used(x_n))
  /\ Ascends(readFifo, sdBase + calculationCount + Used(writeFifoWrite)
                         + Used(x_n) + Used(readFifoOutput))
  /\ Ascends(readFifoWrite, sdBase + sdReceiveCount - Used(readFifoWrite))
  /\ Ascends(pending, sdBase + sdReceiveCount)
-----------------------------------------------------------------------------
(* Lemmas about consecutive requests.                                      *)

LEMMA AscendsEmpty ==
  ASSUME NEW q \in Seq(Sample), Used(q) = 0, NEW a
  PROVE  Ascends(q, a)
BY DEF Ascends, Used

LEMMA AscendsOne ==
  ASSUME NEW s, NEW a \in Int, s.nth = a
  PROVE  Ascends(<<s>>, a)
BY DEF Ascends

(* Two sequences one after the other, and the converse for the first word. *)
LEMMA AscendsConcat ==
  ASSUME NEW q \in Seq(Sample), NEW r \in Seq(Sample), NEW a \in Int,
         Ascends(q, a), Ascends(r, a + Used(q))
  PROVE  Ascends(q \o r, a)
<1>1. /\ Len(q \o r) = Len(q) + Len(r) /\ Len(q) \in Nat /\ Len(r) \in Nat
      /\ \A i \in 1 .. Len(q) + Len(r) :
           (q \o r)[i] = IF i <= Len(q) THEN q[i] ELSE r[i - Len(q)]
  BY ConcatProperties, LenProperties
<1>2. ASSUME NEW i \in 1 .. Len(q \o r) PROVE (q \o r)[i].nth = a + i - 1
  <2>1. CASE i <= Len(q)
    <3>1. i \in 1 .. Len(q) /\ (q \o r)[i] = q[i]
      BY <1>1, <2>1
    <3> QED BY <3>1 DEF Ascends
  <2>2. CASE ~(i <= Len(q))
    <3> DEFINE j == i - Len(q)
    <3>1. j \in 1 .. Len(r) /\ (q \o r)[i] = r[j]
      BY <1>1, <2>2
    <3>2. r[j].nth = a + Len(q) + j - 1
      BY <3>1 DEF Ascends, Used
    <3>3. a + Len(q) + j - 1 = a + i - 1
      BY <1>1
    <3> QED BY <3>1, <3>2, <3>3
  <2> QED BY <2>1, <2>2
<1> QED BY <1>2 DEF Ascends

LEMMA AscendsHead ==
  ASSUME NEW q \in Seq(Sample), Used(q) > 0, NEW a \in Int, Ascends(q, a)
  PROVE  /\ Ascends(Tail(q), a + 1)
         /\ Ascends(<<Head(q)>>, a)
<1>1. q # <<>>
  BY UsedSeq
<1>2. /\ Head(q) = q[1] /\ Len(q) \in Nat \ {0}
      /\ Len(Tail(q)) = Len(q) - 1
      /\ \A i \in 1 .. Len(Tail(q)) : Tail(q)[i] = q[i + 1]
  BY <1>1, HeadTailProperties, EmptySeq, LenProperties
<1>3. ASSUME NEW i \in 1 .. Len(Tail(q)) PROVE Tail(q)[i].nth = a + 1 + i - 1
  <2>1. i + 1 \in 1 .. Len(q) /\ Tail(q)[i] = q[i + 1]
    BY <1>2
  <2>2. q[i + 1].nth = a + (i + 1) - 1
    BY <2>1 DEF Ascends
  <2> QED BY <2>1, <2>2
<1>4. Head(q).nth = a
  BY <1>2 DEF Ascends
<1> QED BY <1>3, <1>4, AscendsOne DEF Ascends

(* A clock edge: the word read leaves, the word written comes last.        *)
LEMMA AscendsEdge ==
  ASSUME NEW q \in Seq(Sample), NEW data \in AtMostOne(Sample),
         NEW rdreq \in BOOLEAN, NEW sclr \in BOOLEAN, NEW a \in Int,
         Ascends(q, a), Ascends(data, a + Used(q)),
         rdreq => Used(q) > 0, Full(Used(q)) => Used(data) = 0
  PROVE  /\ Ascends(AfterEdge(q, data, rdreq, sclr), a + Bit(rdreq))
         /\ Ascends(Output(q, rdreq), a)
<1>1. data \in Seq(Sample) /\ (Used(data) = 0 => data = <<>>)
  BY AtMostOneType, UsedSeq
<1>2. (IF Full(Used(q)) THEN <<>> ELSE data) = data
  BY <1>1
<1> DEFINE kept == AfterRead(q, rdreq)
<1>3. /\ kept \in Seq(Sample) /\ Used(kept) = Used(q) - Bit(rdreq)
      /\ Ascends(kept, a + Bit(rdreq))
  <2>1. CASE rdreq
    BY <2>1, UsedSeq, UsedTail, AscendsHead DEF AfterRead, Bit
  <2>2. CASE ~rdreq
    BY <2>2, UsedSeq DEF AfterRead, Bit
  <2> QED BY <2>1, <2>2
<1>4. Ascends(kept \o data, a + Bit(rdreq))
  <2>1. a + Used(q) = a + Bit(rdreq) + Used(kept) /\ a + Bit(rdreq) \in Int
    BY <1>3, UsedSeq DEF Bit
  <2>2. Ascends(data, a + Bit(rdreq) + Used(kept))
    BY <2>1
  <2> HIDE DEF kept
  <2> QED BY <1>1, <1>3, <2>1, <2>2, AscendsConcat
<1>5. AfterEdge(q, data, rdreq, sclr) = IF sclr THEN <<>> ELSE kept \o data
  BY <1>2 DEF AfterEdge
<1>6. Ascends(<<>>, a) /\ Ascends(<<>>, a + Bit(rdreq))
  BY DEF Ascends
<1>7. Ascends(Output(q, rdreq), a)
  BY <1>6, AscendsHead DEF Output
<1> QED BY <1>4, <1>5, <1>6, <1>7
-----------------------------------------------------------------------------
(* What the invariant says of the places and of where each one begins.     *)

LEMMA Places ==
  ASSUME TypeOK
  PROVE  /\ sdwritedata \in AtMostOne(Sample)
         /\ writeFifoOutput \in AtMostOne(Sample)
         /\ writeFifoWrite \in AtMostOne(Sample)
         /\ x_n \in AtMostOne(Sample) /\ readFifoOutput \in AtMostOne(Sample)
         /\ readFifoWrite \in AtMostOne(Sample)
         /\ sdwritedata \in Seq(Sample) /\ writeFifoOutput \in Seq(Sample)
         /\ writeFifo \in Seq(Sample) /\ writeFifoWrite \in Seq(Sample)
         /\ x_n \in Seq(Sample) /\ readFifoOutput \in Seq(Sample)
         /\ readFifo \in Seq(Sample) /\ readFifoWrite \in Seq(Sample)
         /\ pending \in Seq(Sample)
BY AtMostOneType DEF TypeOK

LEMMA Numbers ==
  ASSUME TypeOK
  PROVE  /\ sdBase \in Nat /\ writeAddress \in Nat /\ readAddress \in Nat
         /\ calculationCount \in Nat /\ sdReceiveCount \in Nat
         /\ Used(pending) \in Nat /\ Used(readFifo) \in Nat
         /\ Used(writeFifo) \in Nat /\ Used(readFifoWrite) \in Nat
         /\ Used(readFifoOutput) \in Nat /\ Used(x_n) \in Nat
         /\ Used(writeFifoWrite) \in Nat /\ Used(writeFifoOutput) \in Nat
         /\ Used(sdwritedata) \in Nat
BY Sizes DEF TypeOK, Addresses

(* The flags that AscendsEdge asks for.                                    *)
LEMMA Ports ==
  ASSUME EngineInv
  PROVE  /\ fetch => Used(readFifo) > 0
         /\ writeFifoReadRequest => Used(writeFifo) > 0
         /\ Full(Used(readFifo)) => Used(readFifoWrite) = 0
         /\ Full(Used(writeFifo)) => Used(writeFifoWrite) = 0
<1>1. TypeOK /\ FifosLossless
  BY Lossless DEF EngineInv
<1> QED BY <1>1, Sizes, UsedLiteral DEF FifosLossless
-----------------------------------------------------------------------------
(* The samples between the SDRAM and the calculation.                      *)

LEMMA ReceiveOrder ==
  ASSUME EngineInv, OrderInv, NEW w \in BOOLEAN, NEW v \in BOOLEAN,
         Sdram(w, v), Receive(v), sdBase' = sdBase
  PROVE  /\ Ascends(readFifoWrite',
                     sdBase' + sdReceiveCount' - Used(readFifoWrite'))
         /\ Ascends(pending', sdBase' + sdReceiveCount')
<1> DEFINE left == IF v THEN Tail(pending) ELSE pending
           new == IF sdread /\ ~w
                    THEN <<[nth |-> readAddress, from |-> sdaddress]>> ELSE <<>>
           a == sdBase + sdReceiveCount
<1>1. TypeOK /\ CountersHold /\ Ascends(pending, a)
  BY DEF EngineInv, OrderInv
<1>2. a \in Int /\ sdBase \in Int /\ sdReceiveCount \in Int
      /\ pending \in Seq(Sample) /\ Used(pending) \in Nat
      /\ readAddress = a + Used(pending)
  <2>1. readAddress = a + Used(pending)
    BY <1>1 DEF CountersHold
  <2>2. sdBase \in Nat /\ sdReceiveCount \in Nat /\ Used(pending) \in Nat
    BY <1>1, Numbers
  <2>3. pending \in Seq(Sample)
    BY <1>1, Places
  <2> QED BY <2>1, <2>2, <2>3
<1>3. v => Used(pending) > 0
  BY <1>1, SdramEdge
<1>4. /\ Used(readFifoWrite') = Bit(v)
      /\ sdReceiveCount' = sdReceiveCount + Bit(v)
  BY <1>3, ReceiveStep
<1>5. sdBase' + sdReceiveCount' = a + Bit(v)
      /\ sdBase' + sdReceiveCount' - Used(readFifoWrite') = a
  BY <1>2, <1>4 DEF Bit
<1>6. Ascends(readFifoWrite', a)
  <2>1. CASE v
    <3>1. ~Full(Used(readFifo))
      <4>1. RequestsHold
        BY DEF EngineInv
      <4> QED BY <1>1, <1>3, <2>1, <4>1, Sizes, FifoAssumption
           DEF RequestsHold, Full, Bit
    <3>2. readFifoWrite' = <<Head(pending)>>
      BY <2>1, <3>1 DEF Receive
    <3> QED BY <1>1, <1>2, <1>3, <2>1, <3>2, AscendsHead
  <2>2. CASE ~v
    <3>1. readFifoWrite' = <<>>
      BY <2>2 DEF Receive
    <3> QED BY <3>1 DEF Ascends
  <2> QED BY <2>1, <2>2
<1>7. /\ left \in Seq(Sample) /\ Used(left) = Used(pending) - Bit(v)
      /\ Ascends(left, a + Bit(v))
  <2>1. CASE v
    <3>1. pending # <<>>
      BY <1>2, <1>3, <2>1, UsedSeq
    <3> QED BY <1>1, <1>2, <1>3, <2>1, <3>1, UsedTail, AscendsHead DEF Bit
  <2>2. CASE ~v
    BY <1>1, <1>2, <2>2 DEF Bit
  <2> QED BY <2>1, <2>2
<1>8. new \in Seq(Sample) /\ Ascends(new, readAddress)
  <2>1. [nth |-> readAddress, from |-> sdaddress] \in Sample
    BY <1>1, SampleIntro DEF TypeOK
  <2>2. Ascends(<<>>, readAddress)
    BY DEF Ascends
  <2>3. Ascends(<<[nth |-> readAddress, from |-> sdaddress]>>, readAddress)
    BY <1>2, AscendsOne
  <2> QED BY <2>1, <2>2, <2>3
<1>9. a + Bit(v) \in Int /\ readAddress = a + Bit(v) + Used(left)
  BY <1>2, <1>7 DEF Bit
<1>10. pending' = left \o new
  BY DEF Sdram
<1>11. Ascends(pending', a + Bit(v))
  <2> HIDE DEF left, new, a
  <2>1. Ascends(new, a + Bit(v) + Used(left))
    BY <1>8, <1>9
  <2> QED BY <1>7, <1>8, <1>9, <1>10, <2>1, AscendsConcat
<1> QED BY <1>5, <1>6, <1>11
-----------------------------------------------------------------------------
(* The samples in the calculation.                                         *)

LEMMA CalculateOrder ==
  ASSUME EngineInv, OrderInv, TypeOK', Fifos, Calculate, sdBase' = sdBase
  PROVE  /\ Ascends(writeFifoWrite', sdBase' + calculationCount')
         /\ Ascends(x_n',
                     sdBase' + calculationCount' + Used(writeFifoWrite'))
         /\ Ascends(readFifoOutput',
                     sdBase' + calculationCount' + Used(writeFifoWrite')
                       + Used(x_n'))
         /\ Ascends(readFifo', sdBase' + calculationCount'
                                 + Used(writeFifoWrite') + Used(x_n')
                                 + Used(readFifoOutput'))
<1> DEFINE c == sdBase + calculationCount
           b == c + Used(writeFifoWrite) + Used(x_n) + Used(readFifoOutput)
<1>1. TypeOK /\ CalculationHolds /\ CountersHold
  BY DEF EngineInv
<1>2. /\ Ascends(writeFifoWrite, c) /\ Ascends(x_n, c + Used(writeFifoWrite))
      /\ Ascends(readFifoOutput, c + Used(writeFifoWrite) + Used(x_n))
      /\ Ascends(readFifo, b)
      /\ Ascends(readFifoWrite,
                  sdBase + sdReceiveCount - Used(readFifoWrite))
  BY DEF OrderInv
<1>3. /\ c \in Int /\ b \in Int /\ calculationCount \in Int /\ sdBase \in Int
      /\ Used(writeFifoWrite) \in Nat /\ Used(x_n) \in Nat
      /\ Used(readFifoOutput) \in Nat /\ Used(readFifo) \in Nat
      /\ Used(readFifoWrite) \in Nat
      /\ sdBase + sdReceiveCount - Used(readFifoWrite) = b + Used(readFifo)
  BY <1>1, Numbers DEF CountersHold
<1>4. /\ CalculationHolds'
      /\ calculationCount' = calculationCount + Used(writeFifoWrite)
      /\ Used(readFifoOutput') + Used(x_n') + Used(writeFifoWrite')
           = Used(readFifoOutput) + Used(x_n) + Bit(fetch)
      /\ Used(readFifoOutput') = Bit(fetch)
  BY CalculateStep, Edges
<1>5. /\ Ascends(readFifo', b + Bit(fetch)) /\ Ascends(readFifoOutput', b)
  <2>1. /\ readFifo' = AfterEdge(readFifo, readFifoWrite, fetch, fifoClear)
        /\ readFifoOutput' = Output(readFifo, fetch)
    BY DEF Fifos
  <2>2. /\ readFifo \in Seq(Sample) /\ readFifoWrite \in AtMostOne(Sample)
        /\ fetch \in BOOLEAN /\ fifoClear \in BOOLEAN
    BY <1>1 DEF TypeOK
  <2>3. Ascends(readFifoWrite, b + Used(readFifo))
    BY <1>2, <1>3
  <2> HIDE DEF b
  <2> QED BY <1>2, <1>3, <2>1, <2>2, <2>3, Ports, AscendsEdge
<1>6. /\ Used(x_n') \in Nat /\ Used(writeFifoWrite') \in Nat
      /\ Used(readFifoOutput') \in Nat /\ Bit(fetch) \in Nat
  <2>1. \A q \in AtMostOne(Sample) : Used(q) \in Nat
    BY UsedAtMostOne
  <2> QED BY <2>1 DEF TypeOK, Bit
<1>7. /\ b + Bit(fetch) = sdBase' + calculationCount' + Used(writeFifoWrite')
                            + Used(x_n') + Used(readFifoOutput')
      /\ b = sdBase' + calculationCount' + Used(writeFifoWrite') + Used(x_n')
  BY <1>3, <1>4, <1>6
<1>8. /\ Ascends(writeFifoWrite', sdBase' + calculationCount')
      /\ Ascends(x_n', sdBase' + calculationCount' + Used(writeFifoWrite'))
  <2>1. \A a : Ascends(<<>>, a)
    BY DEF Ascends
  <2>2. \A a : \A q \in Seq(Sample) : Used(q) = 0 => Ascends(q, a)
    BY AscendsEmpty
  <2>3. /\ x_n \in Seq(Sample) /\ writeFifoWrite \in Seq(Sample)
        /\ readFifoOutput \in Seq(Sample)
    BY <1>1, Places
  <2>4. CASE FetchSample \/ Arithmetic
    <3>1. /\ x_n' = x_n /\ writeFifoWrite' = writeFifoWrite
          /\ calculationStage # 10
      BY <2>4 DEF FetchSample, Arithmetic
    <3>2. Used(writeFifoWrite) = 0
      BY <1>1, <3>1 DEF CalculationHolds, Bit
    <3> QED BY <1>2, <1>3, <1>4, <3>1, <3>2
  <2>5. CASE LoadSample
    <3>1. /\ calculationStage \in {1, 2} /\ writeFifoWrite' = writeFifoWrite
          /\ x_n' \in {x_n, readFifoOutput}
      BY <2>5 DEF LoadSample
    <3>2. Used(writeFifoWrite) = 0 /\ Used(x_n) = 0
      BY <1>1, <3>1 DEF CalculationHolds, Bit
    <3> QED BY <1>2, <1>3, <1>4, <3>1, <3>2
  <2>6. CASE StoreResult
    <3>1. calculationStage = 9
          /\ \/ writeFifoWrite' = x_n /\ x_n' = <<>>
             \/ writeFifoWrite' = writeFifoWrite /\ x_n' = x_n
      BY <2>6 DEF StoreResult
    <3>2. Used(writeFifoWrite) = 0
      BY <1>1, <3>1 DEF CalculationHolds, Bit
    <3> QED BY <1>2, <1>3, <1>4, <2>1, <3>1, <3>2
  <2>7. CASE EndSample
    <3>1. calculationStage = 10 /\ writeFifoWrite' = <<>> /\ x_n' = x_n
      BY <2>7 DEF EndSample
    <3>2. Used(x_n) = 0
      BY <1>1, <3>1 DEF CalculationHolds, Bit
    <3> QED BY <2>1, <2>2, <2>3, <3>1, <3>2
  <2> QED BY <2>4, <2>5, <2>6, <2>7 DEF Calculate
<1> HIDE DEF b
<1> QED BY <1>5, <1>7, <1>8
-----------------------------------------------------------------------------
(* The samples on their way to the bus.                                    *)

LEMMA WriteOrder ==
  ASSUME EngineInv, OrderInv, stage = 1, BuffersFit, Fifos,
         NEW w \in BOOLEAN, SdPort(w), TypeOK'
  PROVE  /\ Ascends(sdwritedata', writeAddress')
         /\ Ascends(writeFifoOutput', writeAddress' + Used(sdwritedata'))
         /\ Ascends(writeFifo', writeAddress' + Used(sdwritedata')
                                  + Used(writeFifoOutput'))
<1> DEFINE c == writeAddress + Used(sdwritedata) + Used(writeFifoOutput)
<1>1. TypeOK /\ WriteHolds /\ CountersHold
  BY DEF EngineInv
<1>2. /\ Ascends(sdwritedata, writeAddress)
      /\ Ascends(writeFifoOutput, writeAddress + Used(sdwritedata))
      /\ Ascends(writeFifo, c)
      /\ Ascends(writeFifoWrite, sdBase + calculationCount)
  BY DEF OrderInv
<1>3. /\ c \in Int /\ writeAddress \in Int /\ Used(sdwritedata) \in Nat
      /\ sdBase + calculationCount = c + Used(writeFifo)
  BY <1>1, Numbers DEF CountersHold
<1>4. /\ Ascends(writeFifo', c + Bit(writeFifoReadRequest))
      /\ Ascends(writeFifoOutput', c)
  <2>1. /\ writeFifo' = AfterEdge(writeFifo, writeFifoWrite,
                                  writeFifoReadRequest, fifoClear)
        /\ writeFifoOutput' = Output(writeFifo, writeFifoReadRequest)
    BY DEF Fifos
  <2>2. /\ writeFifo \in Seq(Sample) /\ writeFifoWrite \in AtMostOne(Sample)
        /\ writeFifoReadRequest \in BOOLEAN /\ fifoClear \in BOOLEAN
    BY <1>1 DEF TypeOK
  <2>3. Ascends(writeFifoWrite, c + Used(writeFifo))
    BY <1>2, <1>3
  <2> HIDE DEF c
  <2> QED BY <1>2, <1>3, <2>1, <2>2, <2>3, Ports, AscendsEdge
<1>5. /\ writeAddress' + Used(sdwritedata') = c
      /\ Used(writeFifoOutput') = Bit(writeFifoReadRequest)
  <2>1. PortMoves(w)
    BY PortStep
  <2> QED BY <1>1, <2>1, Edges, Numbers DEF PortMoves
<1>6. Ascends(sdwritedata', writeAddress')
  <2>1. \A a : Ascends(<<>>, a)
    BY DEF Ascends
  <2>2. CASE StartWrite
    <3>1. sdwritedata' = writeFifoOutput /\ writeAddress' = writeAddress
          /\ writeStage = 3
      BY <2>2 DEF StartWrite
    <3>2. Used(sdwritedata) = 0
      BY <1>1, <3>1 DEF WriteHolds, Bit
    <3> QED BY <1>2, <1>3, <3>1, <3>2
  <2>3. CASE AcceptedWrite(w) \/ Finish
    BY <2>1, <2>3 DEF AcceptedWrite, Finish
  <2>4. CASE StartReading \/ AcceptedRead(w) \/ HeldRead(w) \/ FetchWrite
             \/ HeldWrite(w) \/ Choose
    <3>1. sdwritedata' = sdwritedata /\ writeAddress' = writeAddress
      BY <2>4 DEF StartReading, AcceptedRead, HeldRead, FetchWrite, HeldWrite,
         Choose
    <3> QED BY <1>2, <3>1
  <2> QED BY <2>2, <2>3, <2>4 DEF SdPort
<1> HIDE DEF c
<1> QED BY <1>4, <1>5, <1>6
-----------------------------------------------------------------------------
(* OrderInv is preserved.                                                  *)

LEMMA EmptyOrder == TypeOK /\ Empty => OrderInv
BY Places, AscendsEmpty DEF Empty, OrderInv

LEMMA EmptyNext == (EngineInv /\ readAddress = writeAddress => OrderInv)'
<1>1. EngineInv /\ readAddress = writeAddress => OrderInv
  <2> SUFFICES ASSUME EngineInv, readAddress = writeAddress PROVE OrderInv
    OBVIOUS
  <2>1. TypeOK
    BY DEF EngineInv
  <2>2. readAddress <= writeAddress
    BY <2>1, Numbers
  <2>3. Empty
    BY <2>2, EmptyWhenEqual
  <2> QED BY <2>1, <2>3, EmptyOrder
<1> QED BY <1>1, PTL

LEMMA RunOrder ==
  ASSUME EngineInv, OrderInv, TypeOK', BuffersFit, NEW start \in BOOLEAN,
         NEW w \in BOOLEAN, NEW v \in BOOLEAN, Around(w, v), Run(start, w, v)
  PROVE  OrderInv'
<1>1. /\ stage = 1 /\ SdPort(w) /\ Receive(v) /\ Calculate /\ sdBase' = sdBase
      /\ Sdram(w, v) /\ Fifos
  BY DEF Run, Around
<1> QED BY <1>1, ReceiveOrder, CalculateOrder, WriteOrder DEF OrderInv

LEMMA OrderStep ==
  BuffersFit /\ EngineInv /\ EngineInv' /\ OrderInv /\ [Next]_vars => OrderInv'
<1>1. ASSUME BuffersFit, EngineInv, EngineInv', OrderInv, Next PROVE OrderInv'
  <2>1. TypeOK' /\ StagesHold /\ StagesHold'
    BY <1>1 DEF EngineInv
  <2>2. PICK start \in BOOLEAN, read \in BOOLEAN, w \in BOOLEAN,
             v \in BOOLEAN, dataa \in Bases \cup {0} :
               Clock(start, dataa, read, w, v)
    BY <1>1 DEF Next
  <2>3. CASE Run(start, w, v)
    BY <1>1, <2>1, <2>2, <2>3, RunOrder DEF Clock, Around
  <2>4. CASE ~Run(start, w, v)
    <3>1. Reset \/ Accept(start, dataa) \/ Idle(start, dataa)
          \/ WaitForIrq(start, read)
      BY <2>2, <2>4 DEF Clock
    <3>2. readAddress' = writeAddress'
      BY <2>1, <3>1, <1>1 DEF Reset, Accept, Idle, IdleStage, WaitForIrq,
         busVars, StagesHold
    <3> QED BY <1>1, <3>2, EmptyNext
  <2> QED BY <2>3, <2>4
<1>2. OrderInv /\ UNCHANGED vars => OrderInv'
  BY DEF OrderInv, vars, busVars, calcVars, recvVars, fifoVars
<1> QED BY <1>1, <1>2

(* Every place holds consecutive requests, beginning where the counters    *)
(* say, for every number of samples and every size of the FIFOs.           *)
THEOREM OrderCorrect == BuffersFit => (Spec => []OrderInv)
<1>1. ASSUME BuffersFit PROVE Spec => []OrderInv
  <2>1. Spec => []EngineInv
    BY <1>1, EngineCorrect
  <2>2. Init => OrderInv
    <3>1. Init => EngineInv /\ readAddress = writeAddress
      BY InitInv DEF Init
    <3>2. ASSUME EngineInv, readAddress = writeAddress PROVE OrderInv
      BY <3>2, EmptyOrder, EmptyWhenEqual, Numbers DEF EngineInv
    <3> QED BY <3>1, <3>2
  <2>3. EngineInv /\ EngineInv' /\ OrderInv /\ [Next]_vars => OrderInv'
    BY <1>1, OrderStep
  <2> QED BY <2>1, <2>2, <2>3, PTL DEF Spec
<1> QED BY <1>1
-----------------------------------------------------------------------------
(* The pipeline as a whole.                                                *)

LEMMA AscendsLonger ==
  ASSUME NEW q \in Seq(Sample), NEW r \in Seq(Sample), NEW a \in Int,
         Ascends(q, a), Ascends(r, a + Used(q))
  PROVE  /\ q \o r \in Seq(Sample) /\ Ascends(q \o r, a)
         /\ Used(q) \in Nat /\ Used(r) \in Nat
         /\ Used(q \o r) = Used(q) + Used(r)
BY AscendsConcat, UsedConcat, UsedSeq

LEMMA InOrder == EngineInv /\ OrderInv => PipelineInOrder
<1> SUFFICES ASSUME EngineInv, OrderInv PROVE PipelineInOrder
  OBVIOUS
<1>1. TypeOK /\ CountersHold
  BY DEF EngineInv
<1> DEFINE p1 == sdwritedata \o writeFifoOutput
           p2 == p1 \o writeFifo
           p3 == p2 \o writeFifoWrite
           p4 == p3 \o x_n
           p5 == p4 \o readFifoOutput
           p6 == p5 \o readFifo
           p7 == p6 \o readFifoWrite
<1>2. Pipeline = p7 \o pending
  BY DEF Pipeline
<1>3. /\ sdwritedata \in Seq(Sample) /\ writeFifoOutput \in Seq(Sample)
      /\ writeFifo \in Seq(Sample) /\ writeFifoWrite \in Seq(Sample)
      /\ x_n \in Seq(Sample) /\ readFifoOutput \in Seq(Sample)
      /\ readFifo \in Seq(Sample) /\ readFifoWrite \in Seq(Sample)
      /\ pending \in Seq(Sample)
  BY <1>1, Places
<1> DEFINE a == writeAddress
           n1 == a + Used(sdwritedata)
           n2 == n1 + Used(writeFifoOutput)
           n3 == sdBase + calculationCount
           n4 == n3 + Used(writeFifoWrite)
           n5 == n4 + Used(x_n)
           n6 == n5 + Used(readFifoOutput)
           n7 == sdBase + sdReceiveCount - Used(readFifoWrite)
           n8 == sdBase + sdReceiveCount
<1>4. /\ a \in Int /\ n1 \in Int /\ n2 \in Int /\ n3 \in Int /\ n4 \in Int
      /\ n5 \in Int /\ n6 \in Int /\ n7 \in Int /\ n8 \in Int
      /\ n3 = n2 + Used(writeFifo) /\ n7 = n6 + Used(readFifo)
      /\ n8 = n7 + Used(readFifoWrite) /\ readAddress = n8 + Used(pending)
  <2>1. /\ sdBase \in Nat /\ writeAddress \in Nat
        /\ calculationCount \in Nat /\ sdReceiveCount \in Nat
        /\ Used(readFifo) \in Nat /\ Used(readFifoWrite) \in Nat
        /\ Used(readFifoOutput) \in Nat /\ Used(x_n) \in Nat
        /\ Used(writeFifoWrite) \in Nat /\ Used(writeFifoOutput) \in Nat
        /\ Used(sdwritedata) \in Nat
    BY <1>1, Numbers
  <2>2. /\ readAddress = sdBase + sdReceiveCount + Used(pending)
        /\ sdReceiveCount = calculationCount + Used(readFifoWrite)
                            + Used(readFifo) + Used(readFifoOutput)
                            + Used(x_n) + Used(writeFifoWrite)
        /\ sdBase + calculationCount = writeAddress + Used(writeFifo)
                                 + Used(writeFifoOutput) + Used(sdwritedata)
    BY <1>1 DEF CountersHold
  <2>3. Used(writeFifo) \in Nat
    BY <1>1, Numbers
  <2> QED BY <2>1, <2>2, <2>3
<1>5. /\ Ascends(sdwritedata, a) /\ Ascends(writeFifoOutput, n1)
      /\ Ascends(writeFifo, n2) /\ Ascends(writeFifoWrite, n3)
      /\ Ascends(x_n, n4) /\ Ascends(readFifoOutput, n5)
      /\ Ascends(readFifo, n6) /\ Ascends(readFifoWrite, n7)
      /\ Ascends(pending, n8)
  BY DEF OrderInv
<1>6. n2 = n1 + Used(writeFifoOutput) /\ n4 = n3 + Used(writeFifoWrite)
      /\ n5 = n4 + Used(x_n) /\ n6 = n5 + Used(readFifoOutput)
      /\ n1 = a + Used(sdwritedata)
  OBVIOUS
<1> HIDE DEF n1, n2, n3, n4, n5, n6, n7, n8, a
<1>11. p1 \in Seq(Sample) /\ Ascends(p1, a) /\ a + Used(p1) = n2
  <2>1. p1 = sdwritedata \o writeFifoOutput
    OBVIOUS
  <2> HIDE DEF p1
  <2>2. Ascends(writeFifoOutput, a + Used(sdwritedata))
    BY <1>5, <1>6
  <2>3. /\ sdwritedata \o writeFifoOutput \in Seq(Sample)
        /\ Ascends(sdwritedata \o writeFifoOutput, a)
        /\ Used(sdwritedata) \in Nat /\ Used(writeFifoOutput) \in Nat
        /\ Used(sdwritedata \o writeFifoOutput)
             = Used(sdwritedata) + Used(writeFifoOutput)
    BY <1>3, <1>4, <1>5, <2>2, AscendsLonger, Zenon
  <2>4. p1 \in Seq(Sample) /\ Ascends(p1, a)
    BY <2>1, <2>3, Zenon
  <2>5. /\ Used(p1) = Used(sdwritedata) + Used(writeFifoOutput)
        /\ Used(sdwritedata) \in Nat /\ Used(writeFifoOutput) \in Nat
    BY <2>1, <2>3, Zenon
  <2>6. a + Used(p1) = n2
    BY <1>4, <1>6, <2>5
  <2> QED BY <2>4, <2>6
<1> HIDE DEF p1
<1>12. p2 \in Seq(Sample) /\ Ascends(p2, a) /\ a + Used(p2) = n3
  <2>1. p2 = p1 \o writeFifo
    OBVIOUS
  <2> HIDE DEF p2
  <2>2. Ascends(writeFifo, a + Used(p1))
    BY <1>11, <1>5, <1>6
  <2>3. /\ p1 \o writeFifo \in Seq(Sample)
        /\ Ascends(p1 \o writeFifo, a)
        /\ Used(p1) \in Nat /\ Used(writeFifo) \in Nat
        /\ Used(p1 \o writeFifo) = Used(p1) + Used(writeFifo)
    BY <1>11, <1>3, <1>4, <1>5, <2>2, AscendsLonger, Zenon
  <2>4. p2 \in Seq(Sample) /\ Ascends(p2, a)
    BY <2>1, <2>3, Zenon
  <2>5. /\ Used(p2) = Used(p1) + Used(writeFifo)
        /\ Used(p1) \in Nat /\ Used(writeFifo) \in Nat
    BY <2>1, <2>3, Zenon
  <2>6. a + Used(p2) = n3
    <3>1. /\ a \in Int /\ a + Used(p1) = n2 /\ n3 = n2 + Used(writeFifo)
      BY <1>11, <1>4, <1>6
    <3> QED BY <2>5, <3>1
  <2> QED BY <2>4, <2>6
<1> HIDE DEF p2
<1>13. p3 \in Seq(Sample) /\ Ascends(p3, a) /\ a + Used(p3) = n4
  <2>1. p3 = p2 \o writeFifoWrite
    OBVIOUS
  <2> HIDE DEF p3
  <2>2. Ascends(writeFifoWrite, a + Used(p2))
    BY <1>12, <1>5, <1>6
  <2>3. /\ p2 \o writeFifoWrite \in Seq(Sample)
        /\ Ascends(p2 \o writeFifoWrite, a)
        /\ Used(p2) \in Nat /\ Used(writeFifoWrite) \in Nat
        /\ Used(p2 \o writeFifoWrite) = Used(p2) + Used(writeFifoWrite)
    BY <1>12, <1>3, <1>4, <1>5, <2>2, AscendsLonger, Zenon
  <2>4. p3 \in Seq(Sample) /\ Ascends(p3, a)
    BY <2>1, <2>3, Zenon
  <2>5. /\ Used(p3) = Used(p2) + Used(writeFifoWrite)
        /\ Used(p2) \in Nat /\ Used(writeFifoWrite) \in Nat
    BY <2>1, <2>3, Zenon
  <2>6. a + Used(p3) = n4
    <3>1. /\ a \in Int /\ a + Used(p2) = n3 /\ n4 = n3 + Used(writeFifoWrite)
      BY <1>12, <1>4, <1>6
    <3> QED BY <2>5, <3>1
  <2> QED BY <2>4, <2>6
<1> HIDE DEF p3
<1>14. p4 \in Seq(Sample) /\ Ascends(p4, a) /\ a + Used(p4) = n5
  <2>1. p4 = p3 \o x_n
    OBVIOUS
  <2> HIDE DEF p4
  <2>2. Ascends(x_n, a + Used(p3))
    BY <1>13, <1>5, <1>6
  <2>3. /\ p3 \o x_n \in Seq(Sample)
        /\ Ascends(p3 \o x_n, a)
        /\ Used(p3) \in Nat /\ Used(x_n) \in Nat
        /\ Used(p3 \o x_n) = Used(p3) + Used(x_n)
    BY <1>13, <1>3, <1>4, <1>5, <2>2, AscendsLonger, Zenon
  <2>4. p4 \in Seq(Sample) /\ Ascends(p4, a)
    BY <2>1, <2>3, Zenon
  <2>5. /\ Used(p4) = Used(p3) + Used(x_n)
        /\ Used(p3) \in Nat /\ Used(x_n) \in Nat
    BY <2>1, <2>3, Zenon
  <2>6. a + Used(p4) = n5
    <3>1. /\ a \in Int /\ a + Used(p3) = n4 /\ n5 = n4 + Used(x_n)
      BY <1>13, <1>4, <1>6
    <3> QED BY <2>5, <3>1
  <2> QED BY <2>4, <2>6
<1> HIDE DEF p4
<1>15. p5 \in Seq(Sample) /\ Ascends(p5, a) /\ a + Used(p5) = n6
  <2>1. p5 = p4 \o readFifoOutput
    OBVIOUS
  <2> HIDE DEF p5
  <2>2. Ascends(readFifoOutput, a + Used(p4))
    BY <1>14, <1>5, <1>6
  <2>3. /\ p4 \o readFifoOutput \in Seq(Sample)
        /\ Ascends(p4 \o readFifoOutput, a)
        /\ Used(p4) \in Nat /\ Used(readFifoOutput) \in Nat
        /\ Used(p4 \o readFifoOutput) = Used(p4) + Used(readFifoOutput)
    BY <1>14, <1>3, <1>4, <1>5, <2>2, AscendsLonger, Zenon
  <2>4. p5 \in Seq(Sample) /\ Ascends(p5, a)
    BY <2>1, <2>3, Zenon
  <2>5. /\ Used(p5) = Used(p4) + Used(readFifoOutput)
        /\ Used(p4) \in Nat /\ Used(readFifoOutput) \in Nat
    BY <2>1, <2>3, Zenon
  <2>6. a + Used(p5) = n6
    <3>1. /\ a \in Int /\ a + Used(p4) = n5 /\ n6 = n5 + Used(readFifoOutput)
      BY <1>14, <1>4, <1>6
    <3> QED BY <2>5, <3>1
  <2> QED BY <2>4, <2>6
<1> HIDE DEF p5
<1>16. p6 \in Seq(Sample) /\ Ascends(p6, a) /\ a + Used(p6) = n7
  <2>1. p6 = p5 \o readFifo
    OBVIOUS
  <2> HIDE DEF p6
  <2>2. Ascends(readFifo, a + Used(p5))
    BY <1>15, <1>5, <1>6
  <2>3. /\ p5 \o readFifo \in Seq(Sample)
        /\ Ascends(p5 \o readFifo, a)
        /\ Used(p5) \in Nat /\ Used(readFifo) \in Nat
        /\ Used(p5 \o readFifo) = Used(p5) + Used(readFifo)
    BY <1>15, <1>3, <1>4, <1>5, <2>2, AscendsLonger, Zenon
  <2>4. p6 \in Seq(Sample) /\ Ascends(p6, a)
    BY <2>1, <2>3, Zenon
  <2>5. /\ Used(p6) = Used(p5) + Used(readFifo)
        /\ Used(p5) \in Nat /\ Used(readFifo) \in Nat
    BY <2>1, <2>3, Zenon
  <2>6. a + Used(p6) = n7
    <3>1. /\ a \in Int /\ a + Used(p5) = n6 /\ n7 = n6 + Used(readFifo)
      BY <1>15, <1>4, <1>6
    <3> QED BY <2>5, <3>1
  <2> QED BY <2>4, <2>6
<1> HIDE DEF p6
<1>17. p7 \in Seq(Sample) /\ Ascends(p7, a) /\ a + Used(p7) = n8
  <2>1. p7 = p6 \o readFifoWrite
    OBVIOUS
  <2> HIDE DEF p7
  <2>2. Ascends(readFifoWrite, a + Used(p6))
    BY <1>16, <1>5, <1>6
  <2>3. /\ p6 \o readFifoWrite \in Seq(Sample)
        /\ Ascends(p6 \o readFifoWrite, a)
        /\ Used(p6) \in Nat /\ Used(readFifoWrite) \in Nat
        /\ Used(p6 \o readFifoWrite) = Used(p6) + Used(readFifoWrite)
    BY <1>16, <1>3, <1>4, <1>5, <2>2, AscendsLonger, Zenon
  <2>4. p7 \in Seq(Sample) /\ Ascends(p7, a)
    BY <2>1, <2>3, Zenon
  <2>5. /\ Used(p7) = Used(p6) + Used(readFifoWrite)
        /\ Used(p6) \in Nat /\ Used(readFifoWrite) \in Nat
    BY <2>1, <2>3, Zenon
  <2>6. a + Used(p7) = n8
    <3>1. /\ a \in Int /\ a + Used(p6) = n7 /\ n8 = n7 + Used(readFifoWrite)
      BY <1>16, <1>4, <1>6
    <3> QED BY <2>5, <3>1
  <2> QED BY <2>4, <2>6
<1> HIDE DEF p7
<1>18. /\ Pipeline \in Seq(Sample) /\ Ascends(Pipeline, a)
      /\ a + Used(Pipeline) = readAddress
  <2>1. Pipeline = p7 \o pending
    BY <1>2
  <2>2. Ascends(pending, a + Used(p7))
    BY <1>17, <1>5, <1>6
  <2>3. /\ p7 \o pending \in Seq(Sample)
        /\ Ascends(p7 \o pending, a)
        /\ Used(p7) \in Nat /\ Used(pending) \in Nat
        /\ Used(p7 \o pending) = Used(p7) + Used(pending)
    BY <1>17, <1>3, <1>4, <1>5, <2>2, AscendsLonger, Zenon
  <2>4. Pipeline \in Seq(Sample) /\ Ascends(Pipeline, a)
    BY <2>1, <2>3, Zenon
  <2>5. /\ Used(Pipeline) = Used(p7) + Used(pending)
        /\ Used(p7) \in Nat /\ Used(pending) \in Nat
    BY <2>1, <2>3, Zenon
  <2>6. a + Used(Pipeline) = readAddress
    <3>1. /\ a \in Int /\ a + Used(p7) = n8 /\ readAddress = n8 + Used(pending)
      BY <1>17, <1>4, <1>6
    <3> QED BY <2>5, <3>1
  <2> QED BY <2>4, <2>6
<1>19. Len(Pipeline) = readAddress - writeAddress
  BY <1>4, <1>18, UsedSeq DEF a, Used
<1> QED BY <1>18, <1>19 DEF PipelineInOrder, Ascends, a

(* Between the bus and the write register the engine neither drops,        *)
(* repeats nor reorders a sample: at every moment the pipeline is the run  *)
(* of requests from writeAddress up to readAddress, so that every word is  *)
(* written at the address of the request it answers.                       *)
THEOREM SamplesInOrder == BuffersFit => (Spec => []PipelineInOrder)
<1>1. ASSUME BuffersFit PROVE Spec => []PipelineInOrder
  <2>1. (Spec => []EngineInv) /\ (Spec => []OrderInv)
    BY <1>1, EngineCorrect, OrderCorrect
  <2> QED BY <2>1, InOrder, PTL
<1> QED BY <1>1
-----------------------------------------------------------------------------
(* The engine implements SampleStream: with phase, requested and delivered *)
(* read off its registers, every clock cycle is a step of SampleStream or  *)
(* leaves them alone.                                                      *)

(* A request goes out only while the window has room for it.               *)
LEMMA WindowOpen ==
  ASSUME EngineInv, sdread
  PROVE  readAddress - writeAddress < InFlightMax
<1>1. TypeOK /\ WriteHolds /\ RequestsHold /\ CountersHold /\ CalculationHolds
  BY DEF EngineInv
<1>2. Used(sdwritedata) = 0 /\ Used(writeFifoOutput) = 0
  BY <1>1 DEF WriteHolds, Bit
<1>3. Used(readFifoOutput) + Used(x_n) <= 1
  BY <1>1 DEF CalculationHolds, Bit
<1>4. Used(pending) + Used(readFifo) + Used(readFifoWrite) <= ALMOST_FULL + 1
  BY <1>1 DEF RequestsHold
<1>5. Used(writeFifo) + Used(writeFifoWrite) <= ALMOST_FULL
  BY <1>1 DEF CalculationHolds
<1>6. readAddress = writeAddress + Used(writeFifo) + Used(writeFifoOutput)
        + Used(sdwritedata) + Used(readFifoWrite) + Used(readFifo)
        + Used(readFifoOutput) + Used(x_n) + Used(writeFifoWrite)
        + Used(pending)
  <2>1. /\ readAddress = sdBase + sdReceiveCount + Used(pending)
        /\ sdReceiveCount = calculationCount + Used(readFifoWrite)
                            + Used(readFifo) + Used(readFifoOutput)
                            + Used(x_n) + Used(writeFifoWrite)
        /\ sdBase + calculationCount = writeAddress + Used(writeFifo)
                                 + Used(writeFifoOutput) + Used(sdwritedata)
    BY <1>1 DEF CountersHold
  <2> QED BY <1>1, <2>1, Numbers
<1> QED BY <1>1, <1>2, <1>3, <1>4, <1>5, <1>6, Numbers, FifoAssumption
        DEF InFlightMax

(* A cycle of a run, by what the SDRAM port does in it.                    *)
LEMMA RunStream ==
  ASSUME EngineInv, EngineInv', BuffersFit, NEW start \in BOOLEAN,
         NEW w \in BOOLEAN, NEW v \in BOOLEAN, Around(w, v), Run(start, w, v)
  PROVE  [Stream!StreamNext]_(Stream!streamVars)
<1>1. /\ stage = 1 /\ SdPort(w) /\ sdBase' = sdBase /\ Fifos
      /\ phase = "running"
  BY DEF Run, Around, phase
<1>2. /\ readAddress \in Nat /\ writeAddress \in Nat /\ sdBase \in Nat
      /\ readAddress <= End /\ End < AddressSpace /\ AddressSpace \in Nat
      /\ NO_SAMPLES \in Nat /\ End = sdBase + NO_SAMPLES
      /\ sdread => readAddress < End
  BY <1>1, Running, NotchAssumption DEF EngineInv, TypeOK, Addresses, End
<1>3. requested = readAddress - sdBase /\ delivered = writeAddress - sdBase
  BY <1>1 DEF requested, delivered
<1>4. CASE AcceptedRead(w)
  <2>1. /\ sdread /\ stage' = 1 /\ writeAddress' = writeAddress
        /\ readAddress' = readAddress + 1
    BY <1>1, <1>2, <1>4 DEF AcceptedRead, Busy, Next1
  <2>2. phase' = "running" /\ requested' = requested + 1
        /\ delivered' = delivered
    BY <1>1, <1>2, <1>3, <2>1 DEF phase, requested, delivered
  <2>3. requested < NO_SAMPLES /\ requested - delivered < InFlightMax
    BY <1>2, <1>3, <2>1, WindowOpen
  <2> QED BY <1>1, <2>2, <2>3 DEF Stream!StreamNext, Stream!Request
<1>5. CASE AcceptedWrite(w)
  <2>1. /\ writeStage = 4 /\ stage' = 1 /\ readAddress' = readAddress
        /\ writeAddress' = writeAddress + 1
    BY <1>1, <1>2, <1>5 DEF AcceptedWrite, Writing, Busy, Next1
  <2>2. phase' = "running" /\ requested' = requested
        /\ delivered' = delivered + 1
    BY <1>1, <1>2, <1>3, <2>1 DEF phase, requested, delivered
  <2>3. writeAddress < readAddress
    <3>1. ASSUME readAddress <= writeAddress PROVE FALSE
      <4>1. Empty
        BY <3>1, EmptyWhenEqual
      <4> QED BY <2>1, <4>1 DEF Empty
    <3> QED BY <1>2, <3>1
  <2>4. delivered < requested
    BY <1>2, <1>3, <2>3
  <2> QED BY <1>1, <2>2, <2>4 DEF Stream!StreamNext, Stream!Deliver
<1>6. CASE Finish
  <2>1. /\ stage' = 2 /\ irq' /\ readAddress' = readAddress
        /\ writeAddress' = writeAddress /\ writeAddress >= End
    BY <1>6 DEF Finish
  <2>2. phase' = "complete" /\ requested' = requested
        /\ delivered' = delivered
    BY <1>1, <1>3, <2>1 DEF phase, requested, delivered
  <2>3. readAddress = writeAddress
    BY <1>2, <2>1, EmptyWhenEqual
  <2>4. delivered = NO_SAMPLES
    BY <1>2, <1>3, <2>1, <2>3
  <2> QED BY <1>1, <2>2, <2>4 DEF Stream!StreamNext, Stream!Complete
<1>7. CASE StartReading \/ HeldRead(w) \/ FetchWrite \/ StartWrite
           \/ HeldWrite(w) \/ Choose
  <2>1. /\ stage' = 1 /\ readAddress' = readAddress
        /\ writeAddress' = writeAddress
    BY <1>1, <1>7 DEF StartReading, HeldRead, FetchWrite, StartWrite,
       HeldWrite, Choose, Writing, Busy
  <2>2. phase' = phase /\ requested' = requested /\ delivered' = delivered
    BY <1>1, <1>3, <2>1 DEF phase, requested, delivered
  <2> QED BY <2>2 DEF Stream!streamVars
<1> QED BY <1>1, <1>4, <1>5, <1>6, <1>7 DEF SdPort

LEMMA StreamStep ==
  BuffersFit /\ EngineInv /\ EngineInv' /\ [Next]_vars
    => [Stream!StreamNext]_(Stream!streamVars)
<1>1. ASSUME BuffersFit, EngineInv, EngineInv', Next
      PROVE  [Stream!StreamNext]_(Stream!streamVars)
  <2>1. StagesHold /\ StagesHold'
    BY <1>1 DEF EngineInv
  <2>2. PICK start \in BOOLEAN, read \in BOOLEAN, w \in BOOLEAN,
             v \in BOOLEAN, dataa \in Bases \cup {0} :
               Clock(start, dataa, read, w, v)
    BY <1>1 DEF Next
  <2>3. CASE Run(start, w, v)
    BY <1>1, <2>2, <2>3, RunStream DEF Clock, Around
  <2>4. CASE Accept(start, dataa)
    <3>1. /\ stage = 0 /\ stage' = 1 /\ sdBase' = dataa
          /\ readAddress' = dataa /\ writeAddress' = dataa
      BY <2>4 DEF Accept, IdleStage
    <3>2. phase = "ready" /\ requested = 0 /\ delivered = 0
          /\ phase' = "running"
      BY <3>1 DEF phase, requested, delivered
    <3>3. dataa \in Nat
      BY NotchAssumption
    <3>4. requested' = 0 /\ delivered' = 0
      BY <3>1, <3>2, <3>3 DEF requested, delivered
    <3> QED BY <3>2, <3>4 DEF Stream!StreamNext, Stream!Begin
  <2>5. CASE WaitForIrq(start, read)
    <3>1. /\ stage = 2 /\ stage' = 2 /\ irq /\ irq' = ~read
          /\ sdBase' = sdBase /\ readAddress' = readAddress
          /\ writeAddress' = writeAddress
      BY <2>1, <2>5 DEF WaitForIrq, StagesHold, busVars
    <3>2. phase = "complete"
      BY <3>1 DEF phase
    <3>3. CASE read
      <4>1. stage' = 2 /\ ~irq'
        BY <3>1, <3>3
      <4>2. phase' = "ready" /\ requested' = 0 /\ delivered' = 0
        BY <4>1 DEF phase, requested, delivered
      <4> QED BY <3>2, <4>2 DEF Stream!StreamNext, Stream!Acknowledge
    <3>4. CASE ~read
      <4>1. phase' = phase /\ requested' = requested /\ delivered' = delivered
        BY <3>1, <3>2, <3>4 DEF phase, requested, delivered
      <4> QED BY <4>1 DEF Stream!streamVars
    <3> QED BY <3>3, <3>4
  <2>6. CASE Reset \/ Idle(start, dataa)
    <3>1. stage # 1 /\ stage' = 0 /\ (stage = 2 => ~irq)
      BY <2>1, <2>6 DEF Reset, Idle, IdleStage, StagesHold
    <3>2. phase = "ready" /\ phase' = "ready"
      BY <3>1 DEF phase
    <3> QED BY <3>2 DEF requested, delivered, Stream!streamVars
  <2> QED BY <2>2, <2>3, <2>4, <2>5, <2>6 DEF Clock
<1>2. ASSUME UNCHANGED vars PROVE UNCHANGED Stream!streamVars
  BY <1>2 DEF vars, busVars, phase, requested, delivered, Stream!streamVars
<1> QED BY <1>1, <1>2

(* The refinement, for every size of the FIFOs and every number of         *)
(* samples: one run at a time, requests and deliveries one by one and      *)
(* never further apart than the registers have room for, and completion    *)
(* only after the last delivery.                                           *)
THEOREM StreamImplemented == BuffersFit => (Spec => ImplementsStream)
<1>1. ASSUME BuffersFit PROVE Spec => ImplementsStream
  <2>1. Spec => []EngineInv
    BY <1>1, EngineCorrect
  <2>2. Init => Stream!StreamInit
    BY DEF Init, Stream!StreamInit, phase, requested, delivered
  <2>3. EngineInv /\ EngineInv' /\ [Next]_vars
          => [Stream!StreamNext]_(Stream!streamVars)
    BY <1>1, StreamStep
  <2> QED BY <2>1, <2>2, <2>3, PTL
          DEF Spec, ImplementsStream, Stream!StreamSafety
<1> QED BY <1>1
=============================================================================
