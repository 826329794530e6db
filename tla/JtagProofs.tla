----------------------------- MODULE JtagProofs -----------------------------
(***************************************************************************)
(* The driver of the JTAG UART keeps its types and never sleeps on         *)
(* characters, for every length of the rings and FIFOs, every timeout and  *)
(* every program: the two invariants that say who will wake up whom.  Then *)
(* each direction of the line is a ByteChannel: nothing is lost, repeated  *)
(* or reordered between write() and the host, the host and read().         *)
(***************************************************************************)
EXTENDS JtagLine, SequenceTheorems, TLAPS

(* A copy from the ring has something to copy: what ReadSample saw stays,  *)
(* as only the thread changes rx_out.                                      *)
CopyReady == pc = "readCopy" => left > 0 /\ ReadAvailable(seen) > 0

JtagInv == JtagTypeOK /\ CopyReady /\ TxWakeup /\ RxWakeup

(* An index of a ring stays one when it wraps, and moves.                  *)
LEMMA ModRange ==
  ASSUME NEW a \in Int, NEW b \in Nat, b > 0
  PROVE  a % b \in 0 .. b - 1
  BY SMT

LEMMA SuccMoves ==
  ASSUME NEW p \in Slots
  PROVE  Succ(p) \in Slots /\ Succ(p) # p
<1>1. CASE p = BUF_LEN - 1
  BY <1>1, JtagAssumption, SMT DEF Succ, Slots
<1>2. CASE p < BUF_LEN - 1
  BY <1>2, JtagAssumption, SMT DEF Succ, Slots
<1>3. p \in Int /\ p <= BUF_LEN - 1 /\ BUF_LEN \in Int
  BY JtagAssumption DEF Slots
<1>4. p = BUF_LEN - 1 \/ p < BUF_LEN - 1
  BY <1>3
<1> QED BY <1>1, <1>2, <1>4

LEMMA JtagInitInv == JtagInit => JtagInv
  BY JtagAssumption DEF JtagInit, JtagInv, JtagTypeOK, CopyReady, TxWakeup,
     RxWakeup, Slots, RxRingOK, TxRingOK, HostOK, CallOK, IsrOK, UartOK, CharsOK

(* What a step leaves alone keeps its types.                               *)
LEMMA Frame ==
  ASSUME JtagTypeOK
  PROVE  /\ UNCHANGED rxRing => RxRingOK'
         /\ UNCHANGED txRing => TxRingOK'
         /\ UNCHANGED hostVars => HostOK'
         /\ UNCHANGED callVars => CallOK'
         /\ UNCHANGED isrVars => IsrOK'
         /\ UNCHANGED uart => UartOK'
         /\ UNCHANGED chars => CharsOK'
  BY DEF JtagTypeOK, RxRingOK, TxRingOK, HostOK, CallOK, IsrOK, UartOK, CharsOK,
     rxRing, txRing, hostVars, callVars, isrVars, uart, chars

(* What does not touch the rings, the call or the interrupt enables cannot *)
(* disturb the wakeups.                                                    *)
LEMMA FrameWakeups ==
  ASSUME JtagInv, UNCHANGED <<rxRing, txRing, irq_enable, callVars>>
  PROVE  CopyReady' /\ TxWakeup' /\ RxWakeup'
  BY DEF JtagInv, CopyReady, TxWakeup, RxWakeup, ReadAvailable, rxRing, txRing,
     callVars

LEMMA ReturnOK == Return => CallOK'
<1> SUFFICES ASSUME Return PROVE CallOK'
  OBVIOUS
<1>1. nonblock' \in BOOLEAN /\ patient' \in BOOLEAN
  BY DEF Return
<1>2. pc' = "idle" /\ left' \in Nat /\ moved' \in Nat /\ seen' \in Slots
  BY JtagAssumption DEF Return, Slots
<1> QED BY <1>1, <1>2 DEF CallOK, Slots

LEMMA HeadOfFifo ==
  ASSUME NEW S, NEW q \in Seq(S), q # <<>>
  PROVE  Head(q) \in S
  BY SMT
-----------------------------------------------------------------------------
(* One lemma per action.                                                   *)

LEMMA SetTimeoutInv == JtagInv /\ SetTimeout => JtagInv'
<1> SUFFICES ASSUME JtagInv, SetTimeout PROVE JtagInv'
  OBVIOUS
<1>1. HostOK'
  BY JtagAssumption DEF JtagInv, JtagTypeOK, HostOK, SetTimeout
<1>2. JtagTypeOK'
  BY <1>1, Frame DEF JtagInv, JtagTypeOK, SetTimeout
<1>3. CopyReady' /\ TxWakeup' /\ RxWakeup'
  BY FrameWakeups DEF SetTimeout
<1> QED BY <1>2, <1>3 DEF JtagInv

LEMMA WriteSampleInv == JtagInv /\ WriteSample => JtagInv'
<1> SUFFICES ASSUME JtagInv, WriteSample PROVE JtagInv'
  OBVIOUS
<1>1. CallOK'
  BY DEF JtagInv, JtagTypeOK, CallOK, WriteSample, TxRingOK, Thread, Writing,
     Reading
<1>2. JtagTypeOK'
  BY <1>1, Frame DEF JtagInv, JtagTypeOK, WriteSample
<1>3. CopyReady' /\ TxWakeup' /\ RxWakeup'
  BY DEF JtagInv, JtagTypeOK, RxRingOK, CopyReady, TxWakeup, RxWakeup,
     ReadAvailable, WriteSample, rxRing, txRing, Thread
<1> QED BY <1>2, <1>3 DEF JtagInv

LEMMA WriteCopyInv == JtagInv /\ WriteCopy => JtagInv'
<1> SUFFICES ASSUME JtagInv, WriteCopy PROVE JtagInv'
  OBVIOUS
<1> DEFINE n == Least(WriteRoom(seen), left)
<1>n. n \in Nat /\ n <= left
  BY JtagAssumption DEF JtagInv, JtagTypeOK, TxRingOK, CallOK, WriteRoom, Least, Slots
<1> HIDE DEF n
<1>1. TxRingOK'
  <2>1. /\ tx_in \in Slots /\ tx_buf \in [Slots -> 0 .. TxNumbers - 1]
        /\ txNext \in Nat /\ moved \in Nat
    BY DEF JtagInv, JtagTypeOK, TxRingOK, CallOK, CharsOK
  <2>2. \A s \in Slots : (txNext + moved + s - tx_in) % TxNumbers \in 0 .. TxNumbers - 1
    BY <2>1, ModRange, JtagAssumption DEF Slots
  <2>3. tx_buf' \in [Slots -> 0 .. TxNumbers - 1]
    BY <2>1, <2>2 DEF WriteCopy
  <2>4. tx_in' \in Slots
    <3>1. tx_in + n \in Int
      BY <2>1, <1>n DEF Slots
    <3> QED BY <3>1, ModRange, JtagAssumption DEF WriteCopy, Slots, n
  <2> QED BY <2>3, <2>4 DEF JtagInv, JtagTypeOK, TxRingOK, WriteCopy
<1>2. CallOK'
  <2>1. left' = left - n /\ moved' = moved + n
    BY DEF WriteCopy, n
  <2> QED BY <1>n, <2>1 DEF JtagInv, JtagTypeOK, CallOK, WriteCopy, Writing, Reading
<1>3. JtagTypeOK'
  BY <1>1, <1>2, Frame DEF JtagInv, JtagTypeOK, WriteCopy
<1>4. CopyReady' /\ TxWakeup' /\ RxWakeup'
  BY DEF JtagInv, JtagTypeOK, RxRingOK, CopyReady, TxWakeup, RxWakeup,
     ReadAvailable, WriteCopy, rxRing, Thread
<1> QED BY <1>3, <1>4 DEF JtagInv

LEMMA WriteKickInv == JtagInv /\ WriteKick => JtagInv'
<1> SUFFICES ASSUME JtagInv, WriteKick PROVE JtagInv'
  OBVIOUS
<1>1. CallOK'
  BY DEF JtagInv, JtagTypeOK, CallOK, WriteKick, BeginToWait, Writing,
     Reading, Active
<1>2. irq_enable' \subseteq {"RE", "WE"}
  BY DEF JtagInv, JtagTypeOK, WriteKick
<1>3. JtagTypeOK'
  BY <1>1, <1>2, Frame DEF JtagInv, JtagTypeOK, WriteKick
<1>4. CopyReady' /\ TxWakeup' /\ RxWakeup'
  BY DEF JtagInv, JtagTypeOK, RxRingOK, CopyReady, TxWakeup, RxWakeup,
     ReadAvailable, WriteKick, rxRing, txRing, Thread
<1> QED BY <1>3, <1>4 DEF JtagInv

LEMMA WriteWaitInv == JtagInv /\ WriteWait => JtagInv'
<1> SUFFICES ASSUME JtagInv, WriteWait PROVE JtagInv'
  OBVIOUS
<1>1. CallOK'
  BY DEF JtagInv, JtagTypeOK, CallOK, WriteWait, Writing, Reading
<1>2. JtagTypeOK'
  BY <1>1, Frame DEF JtagInv, JtagTypeOK, WriteWait
<1>3. CopyReady' /\ TxWakeup' /\ RxWakeup'
  BY DEF JtagInv, JtagTypeOK, RxRingOK, CopyReady, TxWakeup, RxWakeup,
     ReadAvailable, WriteWait, rxRing, txRing, Thread
<1> QED BY <1>2, <1>3 DEF JtagInv

LEMMA WriteCheckInv == JtagInv /\ WriteCheck => JtagInv'
<1> SUFFICES ASSUME JtagInv, WriteCheck PROVE JtagInv'
  OBVIOUS
<1>1. CallOK'
  BY DEF JtagInv, JtagTypeOK, CallOK, WriteCheck, Writing, Reading
<1>2. JtagTypeOK'
  BY <1>1, Frame DEF JtagInv, JtagTypeOK, WriteCheck
<1>3. CopyReady' /\ TxWakeup' /\ RxWakeup'
  BY DEF JtagInv, JtagTypeOK, RxRingOK, CopyReady, TxWakeup, RxWakeup,
     ReadAvailable, WriteCheck, rxRing, txRing, Thread
<1> QED BY <1>2, <1>3 DEF JtagInv

LEMMA WriteReturnInv == JtagInv /\ WriteReturn => JtagInv'
<1> SUFFICES ASSUME JtagInv, WriteReturn PROVE JtagInv'
  OBVIOUS
<1>1. CallOK'
  <2>1. Return
    BY DEF WriteReturn
  <2> QED BY <2>1, ReturnOK
<1>2. CharsOK'
  <2>1. txNext \in Nat /\ moved \in Nat
    BY DEF JtagInv, JtagTypeOK, CharsOK, CallOK
  <2>2. Result > 0 => Result \in Nat
    BY <2>1 DEF Result, EIO, EWOULDBLOCK
  <2>3. txNext' \in 0 .. TxNumbers - 1
    <3>1. CASE Result > 0
      <4>1. txNext + Result \in Int
        BY <2>1, <2>2, <3>1
      <4>2. txNext' = (txNext + Result) % TxNumbers
        BY <3>1 DEF WriteReturn
      <4> QED BY <4>1, <4>2, ModRange, JtagAssumption
    <3>2. CASE ~(Result > 0)
      BY <3>2 DEF WriteReturn, JtagInv, JtagTypeOK, CharsOK
    <3> QED BY <3>1, <3>2
  <2> QED BY <2>3 DEF JtagInv, JtagTypeOK, CharsOK, WriteReturn
<1>3. JtagTypeOK'
  BY <1>1, <1>2, Frame DEF JtagInv, JtagTypeOK, WriteReturn
<1>4. CopyReady' /\ TxWakeup' /\ RxWakeup'
  BY DEF JtagInv, JtagTypeOK, RxRingOK, CopyReady, TxWakeup, RxWakeup,
     ReadAvailable, WriteReturn, rxRing, txRing, Return, Thread, Writing,
     Reading
<1> QED BY <1>3, <1>4 DEF JtagInv

LEMMA ReadSampleInv == JtagInv /\ ReadSample => JtagInv'
<1> SUFFICES ASSUME JtagInv, ReadSample PROVE JtagInv'
  OBVIOUS
<1>1. CallOK'
  BY DEF JtagInv, JtagTypeOK, CallOK, ReadSample, RxRingOK, BeginToWait,
     Writing, Reading, Active
<1>2. JtagTypeOK'
  BY <1>1, Frame DEF JtagInv, JtagTypeOK, ReadSample
<1>3. CopyReady' /\ TxWakeup' /\ RxWakeup'
  BY JtagAssumption, SuccMoves DEF JtagInv, JtagTypeOK, RxRingOK, CopyReady,
     TxWakeup, RxWakeup, ReadAvailable, ReadSample, rxRing, txRing, Thread,
     Slots, CallOK
<1> QED BY <1>2, <1>3 DEF JtagInv

LEMMA ReadCopyInv == JtagInv /\ ReadCopy => JtagInv'
<1> SUFFICES ASSUME JtagInv, ReadCopy PROVE JtagInv'
  OBVIOUS
<1> DEFINE n == Least(ReadAvailable(seen), left)
<1>n. n \in Nat /\ 0 < n /\ n <= left /\ rx_out + n - 1 \in Slots
  BY JtagAssumption DEF JtagInv, JtagTypeOK, RxRingOK, CallOK, CopyReady, ReadCopy,
     Thread, ReadAvailable, Least, Slots
<1> HIDE DEF n
<1>1. RxRingOK'
  <2>1. rx_out + n \in Int /\ rx_out' = (rx_out + n) % BUF_LEN
    BY <1>n DEF ReadCopy, n, JtagInv, JtagTypeOK, RxRingOK, Slots
  <2>2. rx_out' \in Slots
    BY <2>1, ModRange, JtagAssumption DEF Slots
  <2> QED BY <2>2 DEF JtagInv, JtagTypeOK, RxRingOK, ReadCopy
<1>2. CallOK'
  <2>1. left' = left - n /\ moved' = moved + n
    BY DEF ReadCopy, n
  <2> QED BY <1>n, <2>1 DEF JtagInv, JtagTypeOK, CallOK, ReadCopy, Writing, Reading
<1>3. CharsOK'
  <2>1. rx_buf[rx_out + n - 1] \in 0 .. RxNumbers - 1
    BY <1>n DEF JtagInv, JtagTypeOK, RxRingOK
  <2>2. rx_buf[rx_out + n - 1] + 1 \in Int
    BY <2>1, JtagAssumption
  <2>3. rxGot' \in 0 .. RxNumbers - 1
    BY <2>2, ModRange, JtagAssumption DEF ReadCopy, n
  <2> QED BY <2>3 DEF JtagInv, JtagTypeOK, CharsOK, ReadCopy
<1>4. JtagTypeOK'
  BY <1>1, <1>2, <1>3, Frame DEF JtagInv, JtagTypeOK, ReadCopy
<1>5. CopyReady' /\ TxWakeup' /\ RxWakeup'
  <2>1. moved' > 0
    BY <1>n DEF ReadCopy, n, JtagInv, JtagTypeOK, CallOK
  <2>2. pc' = "read" /\ UNCHANGED <<txRing, irq_enable>>
    BY DEF ReadCopy
  <2>3. pc = "readCopy"
    BY DEF ReadCopy, Thread
  <2> QED BY <2>1, <2>2, <2>3 DEF JtagInv, CopyReady, TxWakeup, RxWakeup, txRing
<1> QED BY <1>4, <1>5 DEF JtagInv

LEMMA ReadWaitInv == JtagInv /\ ReadWait => JtagInv'
<1> SUFFICES ASSUME JtagInv, ReadWait PROVE JtagInv'
  OBVIOUS
<1>1. CallOK'
  BY DEF JtagInv, JtagTypeOK, CallOK, ReadWait, Writing, Reading
<1>2. JtagTypeOK'
  BY <1>1, Frame DEF JtagInv, JtagTypeOK, ReadWait
<1>3. CopyReady' /\ TxWakeup' /\ RxWakeup'
  BY DEF JtagInv, JtagTypeOK, RxRingOK, CopyReady, TxWakeup, RxWakeup,
     ReadAvailable, ReadWait, rxRing, txRing, Thread
<1> QED BY <1>2, <1>3 DEF JtagInv

LEMMA ReadCheckInv == JtagInv /\ ReadCheck => JtagInv'
<1> SUFFICES ASSUME JtagInv, ReadCheck PROVE JtagInv'
  OBVIOUS
<1>1. CallOK'
  BY DEF JtagInv, JtagTypeOK, CallOK, ReadCheck, Writing, Reading
<1>2. JtagTypeOK'
  BY <1>1, Frame DEF JtagInv, JtagTypeOK, ReadCheck
<1>3. CopyReady' /\ TxWakeup' /\ RxWakeup'
  BY DEF JtagInv, JtagTypeOK, RxRingOK, CopyReady, TxWakeup, RxWakeup,
     ReadAvailable, ReadCheck, rxRing, txRing, Thread
<1> QED BY <1>2, <1>3 DEF JtagInv

LEMMA ReadKickInv == JtagInv /\ ReadKick => JtagInv'
<1> SUFFICES ASSUME JtagInv, ReadKick PROVE JtagInv'
  OBVIOUS
<1>1. CallOK'
  BY DEF JtagInv, JtagTypeOK, CallOK, ReadKick, Writing, Reading
<1>2. irq_enable' \subseteq {"RE", "WE"}
  BY DEF JtagInv, JtagTypeOK, ReadKick
<1>3. JtagTypeOK'
  BY <1>1, <1>2, Frame DEF JtagInv, JtagTypeOK, ReadKick
<1>4. CopyReady' /\ TxWakeup' /\ RxWakeup'
  BY DEF JtagInv, JtagTypeOK, RxRingOK, CopyReady, TxWakeup, RxWakeup,
     ReadAvailable, ReadKick, rxRing, txRing, Thread
<1> QED BY <1>3, <1>4 DEF JtagInv

LEMMA ReadReturnInv == JtagInv /\ ReadReturn => JtagInv'
<1> SUFFICES ASSUME JtagInv, ReadReturn PROVE JtagInv'
  OBVIOUS
<1>1. CallOK'
  <2>1. Return
    BY DEF ReadReturn
  <2> QED BY <2>1, ReturnOK
<1>2. JtagTypeOK'
  BY <1>1, Frame DEF JtagInv, JtagTypeOK, ReadReturn
<1>3. CopyReady' /\ TxWakeup' /\ RxWakeup'
  BY DEF JtagInv, JtagTypeOK, RxRingOK, CopyReady, TxWakeup, RxWakeup,
     ReadAvailable, ReadReturn, rxRing, txRing, Return, Thread, Writing,
     Reading
<1> QED BY <1>2, <1>3 DEF JtagInv

LEMMA CloseReturnInv == JtagInv /\ CloseReturn => JtagInv'
<1> SUFFICES ASSUME JtagInv, CloseReturn PROVE JtagInv'
  OBVIOUS
<1>1. CallOK'
  <2>1. Return
    BY DEF CloseReturn
  <2> QED BY <2>1, ReturnOK
<1>2. JtagTypeOK'
  BY <1>1, Frame DEF JtagInv, JtagTypeOK, CloseReturn
<1>3. CopyReady' /\ TxWakeup' /\ RxWakeup'
  BY DEF JtagInv, JtagTypeOK, RxRingOK, CopyReady, TxWakeup, RxWakeup,
     ReadAvailable, CloseReturn, rxRing, txRing, Return, Thread, Writing,
     Reading
<1> QED BY <1>2, <1>3 DEF JtagInv

LEMMA EnterIsrInv == JtagInv /\ EnterIsr => JtagInv'
<1> SUFFICES ASSUME JtagInv, EnterIsr PROVE JtagInv'
  OBVIOUS
<1>1. IsrOK'
  BY DEF JtagInv, JtagTypeOK, IsrOK, EnterIsr
<1>2. JtagTypeOK'
  BY <1>1, Frame DEF JtagInv, JtagTypeOK, EnterIsr
<1>3. CopyReady' /\ TxWakeup' /\ RxWakeup'
  BY FrameWakeups DEF EnterIsr
<1> QED BY <1>2, <1>3 DEF JtagInv

LEMMA IsrControlInv == JtagInv /\ IsrControl => JtagInv'
<1> SUFFICES ASSUME JtagInv, IsrControl PROVE JtagInv'
  OBVIOUS
<1>1. IsrOK'
  <2>1. Len(txFifo) \in 0 .. HwDepth
    BY JtagAssumption DEF JtagInv, JtagTypeOK, UartOK
  <2>2. WI \in BOOLEAN /\ RI \in BOOLEAN
    BY DEF WI, RI, JtagInv, JtagTypeOK, UartOK
  <2>3. space' \in 0 .. HwDepth
    BY <2>1, JtagAssumption DEF IsrControl
  <2> QED BY <2>2, <2>3 DEF IsrControl, IsrOK
<1>2. JtagTypeOK'
  BY <1>1, Frame DEF JtagInv, JtagTypeOK, IsrControl
<1>3. CopyReady' /\ TxWakeup' /\ RxWakeup'
  BY FrameWakeups DEF IsrControl
<1> QED BY <1>2, <1>3 DEF JtagInv

LEMMA IsrRingFullInv == JtagInv /\ IsrRingFull => JtagInv'
<1> SUFFICES ASSUME JtagInv, IsrRingFull PROVE JtagInv'
  OBVIOUS
<1>1. irq_enable' \subseteq {"RE", "WE"}
  BY DEF JtagInv, JtagTypeOK, IsrRingFull
<1>2. IsrOK'
  BY DEF JtagInv, JtagTypeOK, IsrOK, IsrRingFull, AfterReceive
<1>3. JtagTypeOK'
  BY <1>1, <1>2, Frame DEF JtagInv, JtagTypeOK, IsrRingFull
<1>4. CopyReady' /\ TxWakeup' /\ RxWakeup'
  BY JtagAssumption, SuccMoves DEF JtagInv, JtagTypeOK, RxRingOK, CopyReady,
     TxWakeup, RxWakeup, ReadAvailable, IsrRingFull, rxRing, txRing, callVars
<1> QED BY <1>3, <1>4 DEF JtagInv

LEMMA IsrReceiveInv == JtagInv /\ IsrReceive => JtagInv'
<1> SUFFICES ASSUME JtagInv, IsrReceive PROVE JtagInv'
  OBVIOUS
<1>1. RxRingOK'
  <2>1. CASE rxFifo = <<>>
    BY <2>1 DEF JtagInv, JtagTypeOK, RxRingOK, IsrReceive, AfterReceive
  <2>2. CASE rxFifo # <<>>
    <3>1. Head(rxFifo) \in 0 .. RxNumbers - 1
      BY <2>2, HeadOfFifo DEF JtagInv, JtagTypeOK, UartOK
    <3> QED BY <2>2, <3>1, SuccMoves DEF JtagInv, JtagTypeOK, RxRingOK, IsrReceive
  <2> QED BY <2>1, <2>2
<1>2. IsrOK'
  <2>1. CASE rxFifo = <<>>
    BY <2>1 DEF JtagInv, JtagTypeOK, IsrOK, IsrReceive, AfterReceive
  <2>2. CASE rxFifo # <<>>
    <3>1. ravail' \in BOOLEAN
      BY <2>2 DEF IsrReceive
    <3> QED BY <2>2, <3>1 DEF JtagInv, JtagTypeOK, IsrOK, IsrReceive
  <2> QED BY <2>1, <2>2
<1>3. UartOK'
  <2>1. CASE rxFifo = <<>>
    BY <2>1 DEF JtagInv, JtagTypeOK, UartOK, IsrReceive, AfterReceive
  <2>2. CASE rxFifo # <<>>
    <3>1. /\ Tail(rxFifo) \in Seq(0 .. RxNumbers - 1)
          /\ Len(Tail(rxFifo)) <= HwDepth
      BY <2>2, JtagAssumption DEF JtagInv, JtagTypeOK, UartOK
    <3> QED BY <2>2, <3>1 DEF JtagInv, JtagTypeOK, UartOK, IsrReceive
  <2> QED BY <2>1, <2>2
<1>4. JtagTypeOK'
  BY <1>1, <1>2, <1>3, Frame DEF JtagInv, JtagTypeOK, IsrReceive
<1>5. CopyReady' /\ TxWakeup' /\ RxWakeup'
  BY JtagAssumption, SuccMoves DEF JtagInv, JtagTypeOK, RxRingOK, CopyReady,
     TxWakeup, RxWakeup, ReadAvailable, IsrReceive, txRing, callVars
<1> QED BY <1>4, <1>5 DEF JtagInv

LEMMA IsrTransmitInv == JtagInv /\ IsrTransmit => JtagInv'
<1> SUFFICES ASSUME JtagInv, IsrTransmit PROVE JtagInv'
  OBVIOUS
<1>1. TxRingOK'
  BY SuccMoves DEF JtagInv, JtagTypeOK, TxRingOK, IsrTransmit
<1>2. IsrOK'
  BY JtagAssumption DEF JtagInv, JtagTypeOK, IsrOK, IsrTransmit
<1>3. UartOK'
  <2>1. tx_buf[tx_out] \in 0 .. TxNumbers - 1
    BY DEF JtagInv, JtagTypeOK, TxRingOK
  <2>2. txFifo' \in Seq(0 .. TxNumbers - 1) /\ Len(txFifo') <= HwDepth
    <3>1. CASE Len(txFifo) < HwDepth
      BY <2>1, <3>1, JtagAssumption DEF JtagInv, JtagTypeOK, UartOK, IsrTransmit
    <3>2. CASE ~(Len(txFifo) < HwDepth)
      BY <3>2 DEF JtagInv, JtagTypeOK, UartOK, IsrTransmit
    <3> QED BY <3>1, <3>2
  <2> QED BY <2>2 DEF JtagInv, JtagTypeOK, UartOK, IsrTransmit
<1>4. JtagTypeOK'
  BY <1>1, <1>2, <1>3, Frame DEF JtagInv, JtagTypeOK, IsrTransmit
<1>5. CopyReady' /\ TxWakeup' /\ RxWakeup'
  BY JtagAssumption, SuccMoves DEF JtagInv, JtagTypeOK, RxRingOK, CopyReady,
     TxWakeup, RxWakeup, ReadAvailable, IsrTransmit, rxRing, callVars
<1> QED BY <1>4, <1>5 DEF JtagInv

LEMMA IsrTransmittedInv == JtagInv /\ IsrTransmitted => JtagInv'
<1> SUFFICES ASSUME JtagInv, IsrTransmitted PROVE JtagInv'
  OBVIOUS
<1>1. irq_enable' \subseteq {"RE", "WE"}
  BY DEF JtagInv, JtagTypeOK, IsrTransmitted
<1>2. IsrOK'
  <2>1. 0 \in 0 .. HwDepth
    BY JtagAssumption
  <2> QED BY <2>1 DEF JtagInv, JtagTypeOK, IsrOK, IsrTransmitted
<1>3. JtagTypeOK'
  BY <1>1, <1>2, Frame DEF JtagInv, JtagTypeOK, IsrTransmitted
<1>4. CopyReady' /\ TxWakeup' /\ RxWakeup'
  BY JtagAssumption, SuccMoves DEF JtagInv, JtagTypeOK, RxRingOK, CopyReady,
     TxWakeup, RxWakeup, ReadAvailable, IsrTransmitted, rxRing, txRing,
     callVars
<1> QED BY <1>3, <1>4 DEF JtagInv

LEMMA AlarmInv == JtagInv /\ Alarm => JtagInv'
<1> SUFFICES ASSUME JtagInv, Alarm PROVE JtagInv'
  OBVIOUS
<1>1. HostOK'
  BY JtagAssumption DEF JtagInv, JtagTypeOK, HostOK, Alarm
<1>2. UartOK'
  BY DEF JtagInv, JtagTypeOK, UartOK, Alarm
<1>3. JtagTypeOK'
  BY <1>1, <1>2, Frame DEF JtagInv, JtagTypeOK, Alarm
<1>4. CopyReady' /\ TxWakeup' /\ RxWakeup'
  BY FrameWakeups DEF Alarm
<1> QED BY <1>3, <1>4 DEF JtagInv

LEMMA HostTakeInv == JtagInv /\ HostTake => JtagInv'
<1> SUFFICES ASSUME JtagInv, HostTake PROVE JtagInv'
  OBVIOUS
<1>1. UartOK'
  <2>1. /\ Tail(txFifo) \in Seq(0 .. TxNumbers - 1)
        /\ Len(Tail(txFifo)) <= HwDepth
    BY JtagAssumption DEF JtagInv, JtagTypeOK, UartOK, HostTake
  <2> QED BY <2>1 DEF JtagInv, JtagTypeOK, UartOK, HostTake
<1>2. CharsOK'
  <2>1. Head(txFifo) \in 0 .. TxNumbers - 1
    BY HeadOfFifo DEF JtagInv, JtagTypeOK, UartOK, HostTake
  <2>2. (Head(txFifo) + 1) % TxNumbers \in 0 .. TxNumbers - 1
    BY <2>1, ModRange, JtagAssumption
  <2> QED BY <2>2 DEF JtagInv, JtagTypeOK, CharsOK, HostTake
<1>3. JtagTypeOK'
  BY <1>1, <1>2, Frame DEF JtagInv, JtagTypeOK, HostTake
<1>4. CopyReady' /\ TxWakeup' /\ RxWakeup'
  BY FrameWakeups DEF HostTake
<1> QED BY <1>3, <1>4 DEF JtagInv

LEMMA HostSendInv == JtagInv /\ HostSend => JtagInv'
<1> SUFFICES ASSUME JtagInv, HostSend PROVE JtagInv'
  OBVIOUS
<1>1. UartOK'
  BY JtagAssumption DEF JtagInv, JtagTypeOK, UartOK, HostSend, CharsOK
<1>2. CharsOK'
  BY JtagAssumption, ModRange DEF JtagInv, JtagTypeOK, CharsOK, HostSend
<1>3. JtagTypeOK'
  BY <1>1, <1>2, Frame DEF JtagInv, JtagTypeOK, HostSend
<1>4. CopyReady' /\ TxWakeup' /\ RxWakeup'
  BY FrameWakeups DEF HostSend
<1> QED BY <1>3, <1>4 DEF JtagInv

LEMMA HostPollInv == JtagInv /\ HostPoll => JtagInv'
<1> SUFFICES ASSUME JtagInv, HostPoll PROVE JtagInv'
  OBVIOUS
<1>1. UartOK'
  BY DEF JtagInv, JtagTypeOK, UartOK, HostPoll
<1>2. JtagTypeOK'
  BY <1>1, Frame DEF JtagInv, JtagTypeOK, HostPoll
<1>3. CopyReady' /\ TxWakeup' /\ RxWakeup'
  BY FrameWakeups DEF HostPoll
<1> QED BY <1>2, <1>3 DEF JtagInv

LEMMA HostLeavesInv == JtagInv /\ HostLeaves => JtagInv'
<1> SUFFICES ASSUME JtagInv, HostLeaves PROVE JtagInv'
  OBVIOUS
<1>1. UartOK'
  BY DEF JtagInv, JtagTypeOK, UartOK, HostLeaves
<1>2. JtagTypeOK'
  BY <1>1, Frame DEF JtagInv, JtagTypeOK, HostLeaves
<1>3. CopyReady' /\ TxWakeup' /\ RxWakeup'
  BY FrameWakeups DEF HostLeaves
<1> QED BY <1>2, <1>3 DEF JtagInv

LEMMA CallInv ==
  ASSUME JtagInv, NEW at \in {"write", "read", "closing"}, NEW n \in Nat,
         NEW nb \in BOOLEAN, Call(at, n, nb)
  PROVE  JtagInv'
<1>1. CallOK'
  BY JtagAssumption DEF CallOK, Call, Slots, Writing, Reading, Active
<1>2. JtagTypeOK'
  BY <1>1, Frame DEF JtagInv, JtagTypeOK, Call
<1>3. CopyReady' /\ TxWakeup' /\ RxWakeup'
  BY DEF JtagInv, CopyReady, TxWakeup, RxWakeup, Call, Thread, rxRing, txRing
<1> QED BY <1>2, <1>3 DEF JtagInv

LEMMA JtagStep == JtagInv /\ [JtagNext]_jtagVars => JtagInv'
<1> SUFFICES ASSUME JtagInv, [JtagNext]_jtagVars PROVE JtagInv'
  OBVIOUS
<1>1. CASE Program
  BY <1>1, CallInv, JtagAssumption DEF Program
<1>2. CASE Write
  BY <1>2, WriteSampleInv, WriteCopyInv, WriteKickInv, WriteWaitInv,
     WriteCheckInv, WriteReturnInv DEF Write
<1>3. CASE Read
  BY <1>3, ReadSampleInv, ReadCopyInv, ReadWaitInv, ReadCheckInv, ReadKickInv,
     ReadReturnInv DEF Read
<1>4. CASE Isr
  BY <1>4, IsrControlInv, IsrRingFullInv, IsrReceiveInv, IsrTransmitInv,
     IsrTransmittedInv DEF Isr
<1>5. CASE Host
  BY <1>5, HostTakeInv, HostSendInv, HostPollInv, HostLeavesInv DEF Host
<1>6. CASE UNCHANGED jtagVars
  <2>1. JtagTypeOK'
    BY <1>6, Frame DEF JtagInv, JtagTypeOK, jtagVars
  <2> QED BY <1>6, <2>1, FrameWakeups DEF JtagInv, jtagVars
<1> QED BY <1>1, <1>2, <1>3, <1>4, <1>5, <1>6, SetTimeoutInv, CloseReturnInv,
           EnterIsrInv, AlarmInv DEF JtagNext
-----------------------------------------------------------------------------
THEOREM JtagCorrect == JtagSpec => []JtagInv
  BY JtagInitInv, JtagStep, PTL DEF JtagSpec

(* Types: indices stay in their rings, nothing is put into a full FIFO.    *)
THEOREM JtagTypes == JtagSpec => []JtagTypeOK
<1>1. JtagInv => JtagTypeOK
  BY DEF JtagInv
<1> QED BY <1>1, JtagCorrect, PTL

(* Characters in the transmit ring will be sent: the interrupt is on, or   *)
(* write() is about to turn it on.                                         *)
THEOREM NoSleepingTransmitter == JtagSpec => []TxWakeup
<1>1. JtagInv => TxWakeup
  BY DEF JtagInv
<1> QED BY <1>1, JtagCorrect, PTL

(* A reader can wait for the receive ring: while it is empty the interrupt *)
(* is on, or read() is about to turn it on.                                *)
THEOREM NoSleepingReceiver == JtagSpec => []RxWakeup
<1>1. JtagInv => RxWakeup
  BY DEF JtagInv
<1> QED BY <1>1, JtagCorrect, PTL
-----------------------------------------------------------------------------
(* Each direction of the line is a ByteChannel.                            *)

(* How full a ring is.                                                     *)
Fill(out, in) == (in - out) % BUF_LEN

(* The arithmetic of indices.                                              *)
LEMMA Wrap ==
  ASSUME NEW p \in -(BUF_LEN - 1) .. (2 * BUF_LEN - 1)
  PROVE  p % BUF_LEN = IF p < 0 THEN p + BUF_LEN
                       ELSE IF p < BUF_LEN THEN p ELSE p - BUF_LEN
<1> DEFINE N == BUF_LEN
<1>0. N \in Nat /\ N > 1
  BY JtagAssumption
<1> HIDE DEF N
<1> SUFFICES ASSUME NEW q \in -(N - 1) .. (2 * N - 1)
             PROVE  q % N = IF q < 0 THEN q + N ELSE IF q < N THEN q ELSE q - N
  BY DEF N
<1>1. CASE q < 0
  BY <1>0, <1>1, SMT
<1>2. CASE q \in 0 .. N - 1
  BY <1>0, <1>2, SMT
<1>3. CASE q >= N
  BY <1>0, <1>3, SMT
<1> QED BY <1>0, <1>1, <1>2, <1>3

LEMMA FillIs ==
  ASSUME NEW out \in Slots, NEW in \in Slots
  PROVE  /\ Fill(out, in) = IF in >= out THEN in - out ELSE in - out + BUF_LEN
         /\ Fill(out, in) \in 0 .. BUF_LEN - 1
<1>1. in - out \in -(BUF_LEN - 1) .. (2 * BUF_LEN - 1)
  BY JtagAssumption DEF Slots
<1>2. BUF_LEN \in Nat /\ BUF_LEN > 1
  BY JtagAssumption
<1>3. (in - out) % BUF_LEN = IF in - out < 0 THEN in - out + BUF_LEN
                             ELSE IF in - out < BUF_LEN THEN in - out ELSE in - out - BUF_LEN
  BY <1>1, Wrap
<1> QED BY <1>2, <1>3 DEF Fill, Slots

LEMMA Advance ==
  ASSUME NEW p \in Slots, NEW k \in 0 .. BUF_LEN
  PROVE  /\ (p + k) % BUF_LEN = IF p + k < BUF_LEN THEN p + k ELSE p + k - BUF_LEN
         /\ (p + k) % BUF_LEN \in Slots
<1>1. BUF_LEN \in Nat /\ BUF_LEN > 1
  BY JtagAssumption
<1>2. p + k \in -(BUF_LEN - 1) .. (2 * BUF_LEN - 1)
  BY <1>1 DEF Slots
<1>3. PICK q \in -(BUF_LEN - 1) .. (2 * BUF_LEN - 1) : q = p + k
  BY <1>2
<1>4. q % BUF_LEN = IF q < 0 THEN q + BUF_LEN
                    ELSE IF q < BUF_LEN THEN q ELSE q - BUF_LEN
  BY Wrap
<1> QED BY <1>1, <1>3, <1>4 DEF Slots

(* The characters between two indices.                                     *)
LEMMA BetweenIs ==
  ASSUME NEW S, NEW buf \in [Slots -> S], NEW out \in Slots, NEW in \in Slots
  PROVE  /\ Between(buf, out, in) \in Seq(S)
         /\ Len(Between(buf, out, in)) = Fill(out, in)
         /\ \A j \in 1 .. Fill(out, in) :
              Between(buf, out, in)[j] = buf[(out + j - 1) % BUF_LEN]
<1>1. Fill(out, in) \in Nat /\ Fill(out, in) < BUF_LEN /\ BUF_LEN \in Nat
  BY FillIs, JtagAssumption
<1>2. \A j \in 1 .. Fill(out, in) : buf[(out + j - 1) % BUF_LEN] \in S
  <2> SUFFICES ASSUME NEW j \in 1 .. Fill(out, in)
               PROVE  buf[(out + j - 1) % BUF_LEN] \in S
    OBVIOUS
  <2>1. j - 1 \in 0 .. BUF_LEN
    BY <1>1
  <2>2. (out + (j - 1)) % BUF_LEN \in Slots
    BY <2>1, Advance
  <2>3. out + (j - 1) = out + j - 1
    BY <2>1, <1>1 DEF Slots
  <2> QED BY <2>2, <2>3
<1>3. Between(buf, out, in)
        = [j \in 1 .. Fill(out, in) |-> buf[(out + j - 1) % BUF_LEN]]
  BY DEF Between, Fill
<1>4. Between(buf, out, in) \in [1 .. Fill(out, in) -> S]
  BY <1>2, <1>3
<1>5. Between(buf, out, in) \in Seq(S)
  BY <1>1, <1>4, SeqDef
<1> QED BY <1>1, <1>3, <1>4, <1>5, LenProperties

(* The place of the j-th character behind an index.                        *)
At(p, j) == (p + j - 1) % BUF_LEN

LEMMA AtIs ==
  ASSUME NEW p \in Slots, NEW j \in 1 .. BUF_LEN
  PROVE  /\ At(p, j) = IF p + j - 1 < BUF_LEN THEN p + j - 1
                       ELSE p + j - 1 - BUF_LEN
         /\ At(p, j) \in Slots
<1>1. BUF_LEN \in Nat /\ BUF_LEN > 1
  BY JtagAssumption
<1>2. j - 1 \in 0 .. BUF_LEN /\ p + (j - 1) = p + j - 1
  BY <1>1 DEF Slots
<1>3. PICK k \in 0 .. BUF_LEN : k = j - 1
  BY <1>2
<1>4. /\ (p + k) % BUF_LEN = IF p + k < BUF_LEN THEN p + k ELSE p + k - BUF_LEN
      /\ (p + k) % BUF_LEN \in Slots
  BY Advance
<1> QED BY <1>2, <1>3, <1>4 DEF At

LEMMA AtPlace ==
  ASSUME NEW p \in Slots, NEW j \in 1 .. BUF_LEN, NEW x \in Nat, x = p + j - 1
  PROVE  At(p, j) = IF x < BUF_LEN THEN x ELSE x - BUF_LEN
<1>1. BUF_LEN \in Nat /\ BUF_LEN > 1
  BY JtagAssumption
<1>2. At(p, j) = IF p + j - 1 < BUF_LEN THEN p + j - 1 ELSE p + j - 1 - BUF_LEN
  BY AtIs
<1> QED BY <1>1, <1>2 DEF Slots

LEMMA BetweenAt ==
  ASSUME NEW S, NEW buf \in [Slots -> S], NEW out \in Slots, NEW in \in Slots
  PROVE  /\ Between(buf, out, in) \in Seq(S)
         /\ Len(Between(buf, out, in)) = Fill(out, in)
         /\ \A j \in 1 .. Fill(out, in) : Between(buf, out, in)[j] = buf[At(out, j)]
BY BetweenIs DEF At

(* The characters of c are stored from in on, and nothing else.            *)
Stored(buf, new, in, c) ==
  /\ \A j \in 1 .. Len(c) : new[At(in, j)] = c[j]
  /\ \A s \in Slots :
       (\A j \in 1 .. Len(c) : s # At(in, j)) => new[s] = buf[s]

(* A writer appends characters behind in ...                               *)
LEMMA Pushed ==
  ASSUME NEW S, NEW buf \in [Slots -> S], NEW new \in [Slots -> S],
         NEW out \in Slots, NEW in \in Slots, NEW c \in Seq(S),
         Len(c) \in 1 .. BUF_LEN, Fill(out, in) + Len(c) < BUF_LEN,
         Stored(buf, new, in, c)
  PROVE  /\ Fill(out, (in + Len(c)) % BUF_LEN) = Fill(out, in) + Len(c)
         /\ Between(new, out, (in + Len(c)) % BUF_LEN)
              = Between(buf, out, in) \o c
<1> DEFINE f == Fill(out, in)
           k == Len(c)
           end == (in + k) % BUF_LEN
<1>1. BUF_LEN \in Nat /\ BUF_LEN > 1
  BY JtagAssumption
<1>2. /\ end = IF in + k < BUF_LEN THEN in + k ELSE in + k - BUF_LEN
      /\ end \in Slots
  BY <1>1, Advance
<1>3. f = (IF in >= out THEN in - out ELSE in - out + BUF_LEN) /\ f \in Nat
  BY FillIs
<1>4. Fill(out, end) = f + k
  <2>1. Fill(out, end) = IF end >= out THEN end - out ELSE end - out + BUF_LEN
    BY <1>2, FillIs
  <2> HIDE DEF f, end
  <2> QED BY <2>1, <1>1, <1>2, <1>3 DEF Slots, f
<1> DEFINE a == Between(buf, out, in)
           b == Between(new, out, end)
<1>5. /\ a \in Seq(S) /\ Len(a) = f
      /\ \A j \in 1 .. f : a[j] = buf[At(out, j)]
  BY BetweenAt
<1>6. /\ b \in Seq(S) /\ Len(b) = f + k
      /\ \A j \in 1 .. f + k : b[j] = new[At(out, j)]
  <2>1. /\ b \in Seq(S) /\ Len(b) = Fill(out, end)
        /\ \A j \in 1 .. Fill(out, end) : b[j] = new[At(out, j)]
    <3>1. end \in Slots
      BY <1>2
    <3>2. \A e \in Slots :
            /\ Between(new, out, e) \in Seq(S)
            /\ Len(Between(new, out, e)) = Fill(out, e)
            /\ \A j \in 1 .. Fill(out, e) : Between(new, out, e)[j] = new[At(out, j)]
      <4> HIDE DEF f, k, a, b
      <4> QED BY BetweenAt
    <3> HIDE DEF end
    <3> QED BY <3>1, <3>2
  <2> QED BY <2>1, <1>4
<1>7. /\ a \o c \in Seq(S) /\ Len(a \o c) = f + k
      /\ \A j \in 1 .. f + k : (a \o c)[j] = IF j <= f THEN a[j] ELSE c[j - f]
  <2>1. /\ a \o c \in Seq(S) /\ Len(a \o c) = Len(a) + Len(c)
        /\ \A j \in 1 .. Len(a) + Len(c) :
             (a \o c)[j] = IF j <= Len(a) THEN a[j] ELSE c[j - Len(a)]
    BY <1>5, ConcatProperties
  <2> QED BY <2>1, <1>5
<1> HIDE DEF f, k, a, b, end
<1>8. ASSUME NEW j \in 1 .. f + k PROVE b[j] = (a \o c)[j]
  <2>1. f \in Nat /\ k \in 1 .. BUF_LEN /\ f + k < BUF_LEN
    BY <1>3 DEF f, k
  <2>2. j \in 1 .. BUF_LEN
    BY <2>1, <1>1
  <2>3. /\ At(out, j) = (IF out + j - 1 < BUF_LEN THEN out + j - 1
                         ELSE out + j - 1 - BUF_LEN)
        /\ At(out, j) \in Slots
    BY <2>2, AtIs
  <2>4. \A i \in 1 .. k : At(in, i) = IF in + i - 1 < BUF_LEN THEN in + i - 1
                                      ELSE in + i - 1 - BUF_LEN
    BY <2>1, <1>1, AtIs
  <2>5. CASE j <= f
    <3>1. \A i \in 1 .. k : At(out, j) # At(in, i)
      BY <2>1, <2>2, <2>3, <2>4, <2>5, <1>1, <1>3 DEF Slots
    <3>2. new[At(out, j)] = buf[At(out, j)]
      BY <2>3, <3>1 DEF k, Stored
    <3>3. j \in 1 .. f
      BY <2>5, <2>1
    <3> QED BY <3>2, <3>3, <1>5, <1>6, <1>7, <2>5
  <2>6. CASE j > f
    <3>1. j - f \in 1 .. k
      BY <2>1, <2>6
    <3>2. At(out, j) = At(in, j - f)
      <4>1. PICK i \in 1 .. k : i = j - f
        BY <3>1
      <4>2. At(in, i) = IF in + i - 1 < BUF_LEN THEN in + i - 1
                        ELSE in + i - 1 - BUF_LEN
        BY <2>4
      <4>3. At(out, j) = At(in, i)
        <5>1. CASE in >= out
          <6>1. out + j - 1 = in + i - 1
            BY <5>1, <1>3, <2>1, <2>2, <4>1 DEF Slots
          <6>2. PICK x \in Nat : x = out + j - 1 /\ x = in + i - 1
            BY <6>1, <2>2 DEF Slots
          <6>3. i \in 1 .. BUF_LEN
            BY <1>1, <2>1
          <6>4. At(out, j) = IF x < BUF_LEN THEN x ELSE x - BUF_LEN
            BY <2>2, <6>2, AtPlace
          <6>5. At(in, i) = IF x < BUF_LEN THEN x ELSE x - BUF_LEN
            BY <6>2, <6>3, AtPlace
          <6> QED BY <6>4, <6>5
        <5>2. CASE in < out
          <6>1. out + j - 1 - BUF_LEN = in + i - 1 /\ in + i - 1 >= 0
            BY <5>2, <1>1, <1>3, <2>1, <2>2, <4>1 DEF Slots
          <6>2. in + i - 1 < BUF_LEN
            BY <5>2, <6>1, <1>1, <2>1, <2>2 DEF Slots
          <6>3. out + j - 1 >= BUF_LEN
            BY <6>1, <1>1, <2>2 DEF Slots
          <6> QED BY <6>1, <6>2, <6>3, <1>1, <2>2, <2>3, <4>1, <4>2 DEF Slots
        <5> QED BY <5>1, <5>2 DEF Slots
      <4> QED BY <4>1, <4>3
    <3>3. new[At(in, j - f)] = c[j - f]
      BY <3>1 DEF k, Stored
    <3>4. ~(j <= f)
      BY <2>1, <2>6
    <3>5. b[j] = new[At(out, j)] /\ (a \o c)[j] = c[j - f]
      BY <3>4, <1>6, <1>7
    <3> QED BY <3>2, <3>3, <3>5
  <2>7. j <= f \/ j > f
    BY <2>1, <2>2
  <2> QED BY <2>5, <2>6, <2>7
<1>9. b = a \o c
  BY <1>6, <1>7, <1>8, SeqEqual
<1> QED BY <1>4, <1>9 DEF a, b, f, k, end

(* ... and a reader takes those from out on.                               *)
LEMMA Popped ==
  ASSUME NEW S, NEW buf \in [Slots -> S], NEW out \in Slots, NEW in \in Slots,
         NEW k \in 1 .. Fill(out, in)
  PROVE  /\ (out + k) % BUF_LEN \in Slots
         /\ Fill((out + k) % BUF_LEN, in) = Fill(out, in) - k
         /\ Between(buf, (out + k) % BUF_LEN, in)
              = SubSeq(Between(buf, out, in), k + 1, Fill(out, in))
<1> DEFINE f == Fill(out, in)
           start == (out + k) % BUF_LEN
<1>1. BUF_LEN \in Nat /\ BUF_LEN > 1
  BY JtagAssumption
<1>3. /\ f = (IF in >= out THEN in - out ELSE in - out + BUF_LEN)
      /\ f \in 0 .. BUF_LEN - 1
  BY FillIs
<1>2. /\ start = IF out + k < BUF_LEN THEN out + k ELSE out + k - BUF_LEN
      /\ start \in Slots
  <2>1. k \in 0 .. BUF_LEN
    BY <1>1, <1>3
  <2> QED BY <2>1, Advance
<1>4. Fill(start, in) = f - k
  <2>1. Fill(start, in) = IF in >= start THEN in - start ELSE in - start + BUF_LEN
    BY <1>2, FillIs
  <2>2. k \in 1 .. f
    OBVIOUS
  <2> HIDE DEF f, start
  <2> QED BY <2>1, <2>2, <1>1, <1>2, <1>3 DEF Slots
<1> DEFINE a == Between(buf, out, in)
           b == Between(buf, start, in)
           d == SubSeq(a, k + 1, f)
<1>5. /\ a \in Seq(S) /\ Len(a) = f
      /\ \A j \in 1 .. f : a[j] = buf[At(out, j)]
  BY BetweenAt, ZenonT(40)
<1>6. /\ b \in Seq(S) /\ Len(b) = f - k
      /\ \A j \in 1 .. f - k : b[j] = buf[At(start, j)]
  <2>1. /\ b \in Seq(S) /\ Len(b) = Fill(start, in)
        /\ \A j \in 1 .. Fill(start, in) : b[j] = buf[At(start, j)]
    <3>1. start \in Slots
      BY <1>2
    <3>2. \A e \in Slots :
            /\ Between(buf, e, in) \in Seq(S)
            /\ Len(Between(buf, e, in)) = Fill(e, in)
            /\ \A j \in 1 .. Fill(e, in) : Between(buf, e, in)[j] = buf[At(e, j)]
      <4> HIDE DEF f, a, b, d, start
      <4> QED BY BetweenAt, ZenonT(40)
    <3> HIDE DEF start
    <3> QED BY <3>1, <3>2
  <2> QED BY <2>1, <1>4
<1>7. /\ d \in Seq(S) /\ Len(d) = f - k
      /\ \A j \in 1 .. f - k : d[j] = a[k + j]
  <2>1. \A i \in k + 1 .. f : a[i] \in S
    <3>1. \A i \in 1 .. f : a[i] \in S
      BY <1>5, ElementOfSeq
    <3> QED BY <3>1
  <2>2. k + 1 \in Int /\ f \in Int /\ k \in 1 .. f
    BY <1>3
  <2> HIDE DEF f, a
  <2>3. /\ d \in Seq(S)
        /\ Len(d) = IF k + 1 <= f THEN f - (k + 1) + 1 ELSE 0
        /\ \A i \in 1 .. f - (k + 1) + 1 : d[i] = a[k + 1 + i - 1]
    BY <2>1, <2>2, SubSeqProperties
  <2>4. /\ (IF k + 1 <= f THEN f - (k + 1) + 1 ELSE 0) = f - k
        /\ f - (k + 1) + 1 = f - k
        /\ \A i \in 1 .. f - k : k + 1 + i - 1 = k + i
    BY <2>2
  <2> QED BY <2>3, <2>4
<1>k. k \in 1 .. f
  OBVIOUS
<1> HIDE DEF f, a, b, d, start
<1>8. ASSUME NEW j \in 1 .. f - k PROVE b[j] = d[j]
  <2>1. j \in 1 .. BUF_LEN /\ k + j \in 1 .. f /\ k + j \in 1 .. BUF_LEN
    BY <1>1, <1>3, <1>k
  <2>2. At(start, j) = IF start + j - 1 < BUF_LEN THEN start + j - 1
                       ELSE start + j - 1 - BUF_LEN
    BY <2>1, <1>2, AtIs
  <2>3. At(out, k + j) = IF out + (k + j) - 1 < BUF_LEN THEN out + (k + j) - 1
                         ELSE out + (k + j) - 1 - BUF_LEN
    BY <2>1, AtIs
  <2>4. At(start, j) = At(out, k + j)
    BY <2>1, <2>2, <2>3, <1>1, <1>2, <1>3, <1>k DEF Slots
  <2> QED BY <2>1, <2>4, <1>5, <1>6, <1>7
<1>9. b = d
  BY <1>6, <1>7, <1>8, SeqEqual
<1> QED BY <1>2, <1>4, <1>9 DEF a, b, d, f, start

(* Numbers are counted modulo Numbers.                                     *)
LEMMA Division ==
  ASSUME NEW a \in Int, NEW m \in Nat, m > 0
  PROVE  \E q \in Int, r \in 0 .. m - 1 : r = a % m /\ a = m * q + r
<1>1. PICK r \in 0 .. m - 1 : r = a % m
  BY SMT
<1>2. PICK q \in Int : q = a \div m
  BY SMT
<1>3. a % m = a - m * (a \div m)
  BY SMT
<1>4. PICK p \in Int : p = m * q
  BY SMT
<1>5. r = a - p
  BY <1>1, <1>2, <1>3, <1>4
<1>6. a = p + r
  BY <1>5
<1> QED BY <1>1, <1>4, <1>6

LEMMA SmallMultiple ==
  ASSUME NEW m \in Nat, m > 0, NEW d \in Int, NEW e \in Int, e = m * d,
         -m < e, e < m
  PROVE  e = 0
<1>1. CASE d >= 1
  <2>1. m * d >= m
    BY <1>1
  <2> QED BY <2>1
<1>2. CASE d <= -1
  <2>1. m * d <= -m
    BY <1>2
  <2> QED BY <2>1
<1>3. CASE d = 0
  BY <1>3
<1> QED BY <1>1, <1>2, <1>3

LEMMA ModSum ==
  ASSUME NEW x \in Nat, NEW y \in Nat, NEW m \in Nat, m > 0
  PROVE  ((x % m) + y) % m = (x + y) % m
<1>1. PICK r \in Nat : r = x % m /\ r < m
  BY Division
<1>2. PICK q1 \in Int : x = m * q1 + r
  BY <1>1, Division
<1>3. PICK q2 \in Int, s \in 0 .. m - 1 :
        s = (x + y) % m /\ x + y = m * q2 + s
  BY Division
<1>4. PICK q3 \in Int, t \in 0 .. m - 1 :
        t = (r + y) % m /\ r + y = m * q3 + t
  BY Division
<1>5. s - t = m * (q1 + q3 - q2)
  BY <1>2, <1>3, <1>4
<1>6. s - t = 0
  BY <1>5, SmallMultiple
<1> QED BY <1>1, <1>3, <1>4, <1>6

-----------------------------------------------------------------------------
(* What the driver has looked at stays true until it uses it: the room in  *)
(* the transmit ring, the characters in the receive ring, the space in the *)
(* UART's FIFO.                                                            *)
RoomStays ==
  pc = "writeCopy" =>
    left > 0 /\ WriteRoom(seen) > 0 /\ Fill(tx_out, tx_in) <= Fill(seen, tx_in)

CharactersStay == pc = "readCopy" => Fill(rx_out, seen) <= Fill(rx_out, rx_in)

SpaceStays == space + Len(txFifo) <= HwDepth

SeenInv == RoomStays /\ CharactersStay /\ SpaceStays

(* An index moves on by one.                                               *)
LEMMA OneMore ==
  ASSUME NEW out \in Slots, NEW in \in Slots, Succ(in) # out
  PROVE  /\ Succ(in) \in Slots
         /\ Fill(out, Succ(in)) = Fill(out, in) + 1
         /\ Fill(out, in) + 1 < BUF_LEN
<1>1. BUF_LEN \in Nat /\ BUF_LEN > 1
  BY JtagAssumption
<1>2. Succ(in) \in Slots
  BY SuccMoves
<1>3. Succ(in) = IF in + 1 < BUF_LEN THEN in + 1 ELSE in + 1 - BUF_LEN
  BY <1>1, Advance DEF Succ
<1>4. /\ Fill(out, in) = IF in >= out THEN in - out ELSE in - out + BUF_LEN
      /\ Fill(out, Succ(in)) = IF Succ(in) >= out THEN Succ(in) - out
                               ELSE Succ(in) - out + BUF_LEN
  BY <1>2, FillIs
<1> QED BY <1>1, <1>2, <1>3, <1>4 DEF Slots

LEMMA OneLess ==
  ASSUME NEW out \in Slots, NEW in \in Slots, in # out
  PROVE  /\ Succ(out) \in Slots
         /\ Fill(Succ(out), in) = Fill(out, in) - 1
         /\ Fill(out, in) >= 1
<1>1. BUF_LEN \in Nat /\ BUF_LEN > 1
  BY JtagAssumption
<1>2. Succ(out) \in Slots
  BY SuccMoves
<1>3. Succ(out) = IF out + 1 < BUF_LEN THEN out + 1 ELSE out + 1 - BUF_LEN
  BY <1>1, Advance DEF Succ
<1>4. /\ Fill(out, in) = IF in >= out THEN in - out ELSE in - out + BUF_LEN
      /\ Fill(Succ(out), in) = IF in >= Succ(out) THEN in - Succ(out)
                               ELSE in - Succ(out) + BUF_LEN
  BY <1>2, FillIs
<1> QED BY <1>1, <1>2, <1>3, <1>4 DEF Slots

LEMMA SeenInit == JtagInit => SeenInv
  BY JtagAssumption DEF JtagInit, SeenInv, RoomStays, CharactersStay, SpaceStays

(* A step that copies nothing and leaves the indices alone.                *)
LEMMA SeenFrame ==
  ASSUME SeenInv, UNCHANGED <<rxRing, txRing, space, txFifo>>,
         UNCHANGED <<pc, left, seen>> \/ pc' \notin {"writeCopy", "readCopy"}
  PROVE  SeenInv'
BY DEF SeenInv, RoomStays, CharactersStay, SpaceStays, WriteRoom, Fill, rxRing,
   txRing

LEMMA SeenStep == JtagInv /\ SeenInv /\ [JtagNext]_jtagVars => SeenInv'
<1> SUFFICES ASSUME JtagInv, SeenInv, [JtagNext]_jtagVars PROVE SeenInv'
  OBVIOUS
<1> USE DEF rxRing, txRing, callVars, isrVars, uart
<1>0. /\ tx_in \in Slots /\ tx_out \in Slots /\ seen \in Slots
      /\ rx_in \in Slots /\ rx_out \in Slots
      /\ space \in Nat /\ Len(txFifo) \in Nat /\ HwDepth \in Nat
      /\ txFifo \in Seq(0 .. TxNumbers - 1) /\ Len(txFifo) <= HwDepth
  BY JtagAssumption DEF JtagInv, JtagTypeOK, TxRingOK, RxRingOK, CallOK, IsrOK,
     UartOK
<1>1. CASE Program
  BY <1>1, SeenFrame DEF Program, Call
<1>2. CASE SetTimeout \/ CloseReturn
  BY <1>2, SeenFrame DEF SetTimeout, CloseReturn, Return
<1>3. CASE WriteSample
  <2>1. CASE pc' = "writeCopy"
    <3>1. /\ left > 0 /\ WriteRoom(tx_out) > 0 /\ seen' = tx_out
          /\ UNCHANGED <<left, rxRing, txRing, space, txFifo>>
      BY <1>3, <2>1 DEF WriteSample
    <3>2. WriteRoom(seen)' = WriteRoom(tx_out)
      BY <3>1 DEF WriteRoom
    <3>3. Fill(seen, tx_in)' = Fill(tx_out, tx_in) /\ Fill(tx_out, tx_in)' = Fill(tx_out, tx_in)
      BY <3>1 DEF Fill
    <3>4. Fill(tx_out, tx_in) \in Int
      BY <1>0, FillIs
    <3>5. RoomStays'
      BY <3>1, <3>2, <3>3, <3>4 DEF RoomStays
    <3>6. CharactersStay'
      BY <2>1 DEF CharactersStay
    <3> QED BY <3>1, <3>5, <3>6 DEF SeenInv, SpaceStays
  <2>2. CASE pc' # "writeCopy"
    <3>1. pc' # "readCopy"
      BY <1>3 DEF WriteSample
    <3> QED BY <1>3, <2>2, <3>1, SeenFrame DEF WriteSample
  <2> QED BY <2>1, <2>2
<1>4. CASE WriteCopy \/ ReadCopy
  BY <1>4 DEF WriteCopy, ReadCopy, SeenInv, RoomStays, CharactersStay, SpaceStays
<1>5. CASE WriteKick \/ WriteWait \/ WriteCheck \/ WriteReturn
  BY <1>5, SeenFrame DEF WriteKick, WriteWait, WriteCheck, WriteReturn, Return
<1>6. CASE ReadSample
  <2>1. CASE pc' = "readCopy"
    <3>1. /\ seen' = rx_in
          /\ UNCHANGED <<rxRing, txRing, space, txFifo>>
      BY <1>6, <2>1 DEF ReadSample
    <3>3. Fill(rx_out, seen)' = Fill(rx_out, rx_in) /\ Fill(rx_out, rx_in)' = Fill(rx_out, rx_in)
      BY <3>1 DEF Fill
    <3>4. Fill(rx_out, rx_in) \in Int
      BY <1>0, FillIs
    <3>5. CharactersStay'
      BY <3>3, <3>4 DEF CharactersStay
    <3>6. RoomStays'
      BY <2>1 DEF RoomStays
    <3> QED BY <3>1, <3>5, <3>6 DEF SeenInv, SpaceStays
  <2>2. CASE pc' # "readCopy"
    <3>1. pc' # "writeCopy"
      BY <1>6 DEF ReadSample
    <3> QED BY <1>6, <2>2, <3>1, SeenFrame DEF ReadSample
  <2> QED BY <2>1, <2>2
<1>7. CASE ReadWait \/ ReadCheck \/ ReadKick \/ ReadReturn
  BY <1>7, SeenFrame DEF ReadWait, ReadCheck, ReadKick, ReadReturn, Return
<1>8. CASE EnterIsr \/ IsrRingFull
  BY <1>8, SeenFrame DEF EnterIsr, IsrRingFull, AfterReceive
<1>9. CASE IsrControl
  <2>1. SpaceStays'
    BY <1>0, <1>9 DEF IsrControl, SpaceStays
  <2> QED BY <1>9, <2>1 DEF IsrControl, SeenInv, RoomStays, CharactersStay, WriteRoom,
             Fill
<1>10. CASE IsrReceive
  <2>1. CASE rxFifo = <<>>
    BY <1>10, <2>1, SeenFrame DEF IsrReceive, AfterReceive
  <2>2. CASE rxFifo # <<>>
    <3>1. CharactersStay'
      <4>1. /\ Succ(rx_in) # rx_out /\ rx_in' = Succ(rx_in)
            /\ UNCHANGED <<rx_out, pc, seen>>
        BY <1>10, <2>2 DEF IsrReceive
      <4>2. /\ Fill(rx_out, Succ(rx_in)) = Fill(rx_out, rx_in) + 1
            /\ Fill(rx_out, rx_in) \in Int /\ Fill(rx_out, seen) \in Int
        BY <1>0, <4>1, OneMore, FillIs
      <4>3. Fill(rx_out, rx_in)' = Fill(rx_out, Succ(rx_in))
            /\ Fill(rx_out, seen)' = Fill(rx_out, seen)
        BY <4>1 DEF Fill
      <4> QED BY <4>1, <4>2, <4>3 DEF SeenInv, CharactersStay
    <3> QED BY <1>10, <2>2, <3>1 DEF IsrReceive, SeenInv, RoomStays, SpaceStays, WriteRoom,
               Fill
  <2> QED BY <2>1, <2>2
<1>11. CASE IsrTransmit
  <2>1. /\ space > 0 /\ tx_out # tx_in /\ tx_out' = Succ(tx_out)
        /\ space' = space - 1 /\ UNCHANGED <<tx_in, pc, left, seen, rxRing>>
    BY <1>11 DEF IsrTransmit
  <2>2. RoomStays'
    <3>1. /\ Fill(Succ(tx_out), tx_in) = Fill(tx_out, tx_in) - 1
          /\ Fill(tx_out, tx_in) \in Int /\ Fill(seen, tx_in) \in Int
      BY <1>0, <2>1, OneLess, FillIs
    <3>2. Fill(tx_out, tx_in)' = Fill(Succ(tx_out), tx_in)
          /\ Fill(seen, tx_in)' = Fill(seen, tx_in)
          /\ WriteRoom(seen)' = WriteRoom(seen)
      BY <2>1 DEF Fill, WriteRoom
    <3> QED BY <2>1, <3>1, <3>2 DEF SeenInv, RoomStays
  <2>3. SpaceStays'
    <3>1. Len(txFifo) < HwDepth
      BY <1>0, <2>1 DEF SeenInv, SpaceStays
    <3>2. txFifo' = Append(txFifo, tx_buf[tx_out])
      BY <1>11, <3>1 DEF IsrTransmit
    <3>3. Len(txFifo') = Len(txFifo) + 1
      <4>1. tx_buf[tx_out] \in 0 .. TxNumbers - 1
        BY <1>0 DEF JtagInv, JtagTypeOK, TxRingOK
      <4> QED BY <1>0, <3>2, <4>1
    <3> QED BY <1>0, <2>1, <3>3 DEF SeenInv, SpaceStays
  <2> QED BY <2>1, <2>2, <2>3 DEF SeenInv, CharactersStay, Fill
<1>12. CASE IsrTransmitted
  <2>1. SpaceStays'
    BY <1>0, <1>12 DEF IsrTransmitted, SpaceStays
  <2> QED BY <1>12, <2>1 DEF IsrTransmitted, SeenInv, RoomStays, CharactersStay,
             WriteRoom, Fill
<1>13. CASE HostTake
  <2>1. SpaceStays'
    <3>1. Len(txFifo') = Len(txFifo) - 1 /\ UNCHANGED space
      BY <1>0, <1>13 DEF HostTake
    <3> QED BY <1>0, <3>1 DEF SeenInv, SpaceStays
  <2> QED BY <1>13, <2>1 DEF HostTake, SeenInv, RoomStays, CharactersStay, WriteRoom,
             Fill
<1>14. CASE Alarm \/ HostSend \/ HostPoll \/ HostLeaves \/ UNCHANGED jtagVars
  BY <1>14, SeenFrame DEF Alarm, HostSend, HostPoll, HostLeaves, jtagVars
<1> QED BY <1>1, <1>2, <1>3, <1>4, <1>5, <1>6, <1>7, <1>8, <1>9, <1>10, <1>11,
           <1>12, <1>13, <1>14 DEF JtagNext, Write, Read, Isr, Host
-----------------------------------------------------------------------------
(* Handing over characters between the parts of a line.                    *)

(* The oldest of b goes behind a.                                          *)
LEMMA Handed ==
  ASSUME NEW S, NEW a \in Seq(S), NEW b \in Seq(S), b # <<>>
  PROVE  /\ Append(a, Head(b)) \o Tail(b) = a \o b
         /\ (a \o <<Head(b)>>) \o Tail(b) = a \o b
<1>1. Head(b) \in S /\ Tail(b) \in Seq(S) /\ Head(b) = b[1] /\ Len(b) \in 1 .. Len(b)
  <2>1. Head(b) \in S /\ Tail(b) \in Seq(S)
    BY HeadTailProperties
  <2>2. Head(b) = b[1] /\ Len(b) \in 1 .. Len(b)
    BY SMT
  <2> QED BY <2>1, <2>2
<1>2. Append(a, Head(b)) = a \o <<Head(b)>>
  BY <1>1, AppendIsConcat
<1>3. <<Head(b)>> \o Tail(b) = b
  <2>1. SubSeq(b, 1, Len(b)) = <<b[1]>> \o SubSeq(b, 1 + 1, Len(b))
    <3>1. 1 \in 1 .. Len(b)
      BY <1>1
    <3> QED BY <1>1, <3>1, SubSeqRecursiveFirst
  <2>2. SubSeq(b, 1, Len(b)) = b
    BY SubSeqFull
  <2>3. Tail(b) = SubSeq(b, 1 + 1, Len(b))
    <3>1. 1 + 1 = 2
      OBVIOUS
    <3> QED BY <3>1, TailIsSubSeq
  <2> QED BY <1>1, <2>1, <2>2, <2>3
<1>4. <<Head(b)>> \in Seq(S)
  BY <1>1
<1>5. (a \o <<Head(b)>>) \o Tail(b) = a \o (<<Head(b)>> \o Tail(b))
  BY <1>1, <1>4, ConcatAssociative
<1> QED BY <1>2, <1>3, <1>5

(* The k oldest of a line whose older part is a.                           *)
LEMMA Taken ==
  ASSUME NEW S, NEW a \in Seq(S), NEW b \in Seq(S), NEW k \in 1 .. Len(a)
  PROVE  /\ SubSeq(a \o b, k + 1, Len(a \o b)) = SubSeq(a, k + 1, Len(a)) \o b
         /\ (a \o b)[k] = a[k] /\ k <= Len(a \o b)
<1> DEFINE w == a \o b
           h == SubSeq(a, k + 1, Len(a))
           l == SubSeq(w, k + 1, Len(w))
<1>0. Len(a) \in Nat /\ Len(b) \in Nat
  BY LenProperties
<1>1. /\ w \in Seq(S) /\ Len(w) = Len(a) + Len(b)
      /\ \A i \in 1 .. Len(a) + Len(b) :
           w[i] = IF i <= Len(a) THEN a[i] ELSE b[i - Len(a)]
  BY ConcatProperties
<1>2. /\ h \in Seq(S) /\ Len(h) = Len(a) - k
      /\ \A i \in 1 .. Len(a) - k : h[i] = a[k + i]
  <2>1. \A i \in k + 1 .. Len(a) : a[i] \in S
    <3>1. \A i \in 1 .. Len(a) : a[i] \in S
      BY ElementOfSeq
    <3> QED BY <3>1, <1>0
  <2>2. /\ h \in Seq(S)
        /\ Len(h) = IF k + 1 <= Len(a) THEN Len(a) - (k + 1) + 1 ELSE 0
        /\ \A i \in 1 .. Len(a) - (k + 1) + 1 : h[i] = a[k + 1 + i - 1]
    <3>1. k + 1 \in Int /\ Len(a) \in Int
      BY <1>0
    <3> QED BY <3>1, <2>1, SubSeqProperties
  <2>3. /\ (IF k + 1 <= Len(a) THEN Len(a) - (k + 1) + 1 ELSE 0) = Len(a) - k
        /\ Len(a) - (k + 1) + 1 = Len(a) - k
        /\ \A i \in 1 .. Len(a) - k : k + 1 + i - 1 = k + i
    BY <1>0
  <2> HIDE DEF h
  <2> QED BY <2>2, <2>3
<1>3. /\ l \in Seq(S) /\ Len(l) = Len(w) - k
      /\ \A i \in 1 .. Len(w) - k : l[i] = w[k + i]
  <2> HIDE DEF w
  <2>0. Len(w) \in Nat /\ k \in 1 .. Len(w)
    BY <1>0, <1>1
  <2>1. \A i \in k + 1 .. Len(w) : w[i] \in S
    <3>1. \A i \in 1 .. Len(w) : w[i] \in S
      BY <1>1, ElementOfSeq
    <3> QED BY <3>1, <2>0
  <2>2. /\ l \in Seq(S)
        /\ Len(l) = IF k + 1 <= Len(w) THEN Len(w) - (k + 1) + 1 ELSE 0
        /\ \A i \in 1 .. Len(w) - (k + 1) + 1 : l[i] = w[k + 1 + i - 1]
    <3>1. k + 1 \in Int /\ Len(w) \in Int
      BY <2>0
    <3> QED BY <3>1, <2>1, SubSeqProperties
  <2>3. /\ (IF k + 1 <= Len(w) THEN Len(w) - (k + 1) + 1 ELSE 0) = Len(w) - k
        /\ Len(w) - (k + 1) + 1 = Len(w) - k
        /\ \A i \in 1 .. Len(w) - k : k + 1 + i - 1 = k + i
    BY <2>0
  <2> HIDE DEF l
  <2> QED BY <2>2, <2>3
<1>4. /\ h \o b \in Seq(S) /\ Len(h \o b) = Len(h) + Len(b)
      /\ \A i \in 1 .. Len(h) + Len(b) :
           (h \o b)[i] = IF i <= Len(h) THEN h[i] ELSE b[i - Len(h)]
  <2> HIDE DEF h
  <2> QED BY <1>2, ConcatProperties
<1> HIDE DEF w, h, l
<1>5. ASSUME NEW i \in 1 .. Len(l) PROVE l[i] = (h \o b)[i]
  <2>1. i \in 1 .. Len(w) - k /\ k + i \in 1 .. Len(a) + Len(b)
    BY <1>0, <1>1, <1>3
  <2>2. l[i] = IF k + i <= Len(a) THEN a[k + i] ELSE b[k + i - Len(a)]
    BY <2>1, <1>1, <1>3
  <2>3. i \in 1 .. Len(h) + Len(b)
    BY <2>1, <1>0, <1>1, <1>2
  <2>4. (h \o b)[i] = IF i <= Len(h) THEN h[i] ELSE b[i - Len(h)]
    BY <2>3, <1>4
  <2>5. CASE i <= Len(h)
    <3>1. k + i <= Len(a) /\ i \in 1 .. Len(a) - k
      BY <2>5, <2>1, <1>0, <1>2
    <3> QED BY <3>1, <2>2, <2>4, <2>5, <1>2
  <2>6. CASE ~(i <= Len(h))
    <3>1. ~(k + i <= Len(a)) /\ i - Len(h) = k + i - Len(a)
      BY <2>6, <2>1, <1>0, <1>2
    <3> QED BY <3>1, <2>2, <2>4, <2>6
  <2> QED BY <2>5, <2>6
<1>6. l = h \o b
  <2>1. Len(l) = Len(h \o b)
    BY <1>0, <1>1, <1>2, <1>3, <1>4
  <2> QED BY <2>1, <1>3, <1>4, <1>5, SeqEqual
<1>7. w[k] = a[k] /\ k <= Len(w)
  BY <1>0, <1>1
<1> QED BY <1>6, <1>7 DEF w, h, l
-----------------------------------------------------------------------------
TxChars == 0 .. TxNumbers - 1
RxChars == 0 .. RxNumbers - 1

(* What is in the transmit ring.                                           *)
TxRingLine == Between(tx_buf, tx_out, tx_in)

LEMMA TxLineIs ==
  ASSUME JtagInv
  PROVE  /\ txFifo \in Seq(TxChars) /\ Len(txFifo) \in 0 .. HwDepth
         /\ TxRingLine \in Seq(TxChars) /\ Len(TxRingLine) = Fill(tx_out, tx_in)
         /\ Fill(tx_out, tx_in) \in 0 .. BUF_LEN - 1
         /\ TxLine = txFifo \o TxRingLine
         /\ TxLine \in Seq(TxChars)
         /\ Len(TxLine) = Len(txFifo) + Fill(tx_out, tx_in)
<1>1. /\ txFifo \in Seq(TxChars) /\ Len(txFifo) <= HwDepth
      /\ tx_in \in Slots /\ tx_out \in Slots /\ tx_buf \in [Slots -> TxChars]
  BY DEF JtagInv, JtagTypeOK, UartOK, TxRingOK, TxChars
<1>2. Len(txFifo) \in 0 .. HwDepth
  BY <1>1, LenProperties, JtagAssumption
<1>3. /\ TxRingLine \in Seq(TxChars) /\ Len(TxRingLine) = Fill(tx_out, tx_in)
  BY <1>1, BetweenIs DEF TxRingLine
<1>4. Fill(tx_out, tx_in) \in 0 .. BUF_LEN - 1
  BY <1>1, FillIs
<1>5. TxLine = txFifo \o TxRingLine
  BY DEF TxLine, TxRingLine
<1>6. TxLine \in Seq(TxChars) /\ Len(TxLine) = Len(txFifo) + Len(TxRingLine)
  BY <1>1, <1>3, <1>5, ConcatProperties
<1> QED BY <1>1, <1>2, <1>3, <1>4, <1>5, <1>6

LEMMA TxQuiet ==
  ASSUME UNCHANGED <<txRing, txFifo, txGot, TxSent>>
  PROVE  UNCHANGED ToHost!channelVars
BY DEF ToHost!channelVars, TxLine, Between, txRing

LEMMA SentStays ==
  ASSUME UNCHANGED <<txNext, moved>>, pc \in Writing <=> pc' \in Writing
  PROVE  UNCHANGED TxSent
BY DEF TxSent

(* The number of a character does not depend on when it is reduced.        *)
LEMMA SmallMod ==
  ASSUME NEW x \in Nat, NEW m \in Nat, x < m
  PROVE  x % m = x
<1>1. m > 0
  OBVIOUS
<1> QED BY <1>1, SMT

LEMMA CallSends ==
  ASSUME JtagInv, NEW at \in {"write", "read", "closing"}, NEW n, NEW nb,
         Call(at, n, nb)
  PROVE  UNCHANGED TxSent
<1>1. txNext \in Nat /\ txNext < TxNumbers /\ TxNumbers \in Nat
  BY JtagAssumption DEF JtagInv, JtagTypeOK, CharsOK
<1>2. txNext % TxNumbers = txNext /\ txNext + 0 = txNext
  BY <1>1, SmallMod
<1>3. pc \notin Writing /\ moved' = 0 /\ txNext' = txNext
  BY DEF Call, Thread, Writing, chars
<1>4. TxSent = txNext
  BY <1>3 DEF TxSent
<1>5. TxSent' = (IF pc' \in Writing THEN (txNext' + moved') % TxNumbers ELSE txNext')
  BY DEF TxSent
<1> QED BY <1>2, <1>3, <1>4, <1>5

LEMMA WriteReturnSends ==
  ASSUME JtagInv, WriteReturn
  PROVE  UNCHANGED TxSent
<1>1. txNext \in Nat /\ txNext < TxNumbers /\ TxNumbers \in Nat /\ moved \in Nat
  BY JtagAssumption DEF JtagInv, JtagTypeOK, CharsOK, CallOK
<1>2. pc \in Writing /\ pc' \notin Writing
  BY DEF WriteReturn, Return, Thread, Writing
<1>3. TxSent = (txNext + moved) % TxNumbers /\ TxSent' = txNext'
  BY <1>2 DEF TxSent
<1>4. CASE moved > 0
  BY <1>3, <1>4 DEF WriteReturn, Result
<1>5. CASE moved = 0
  <2>1. ~(Result > 0)
    BY <1>5 DEF Result, EIO, EWOULDBLOCK
  <2>2. (txNext + moved) % TxNumbers = txNext
    BY <1>1, <1>5, SmallMod
  <2> QED BY <1>3, <2>1, <2>2 DEF WriteReturn
<1> QED BY <1>1, <1>4, <1>5

(* Room that is looked at fits: behind in, before the end, one slot free.  *)
LEMMA RoomFits ==
  ASSUME tx_in \in Slots, NEW out \in Slots
  PROVE  /\ WriteRoom(out) \in Int
         /\ Fill(out, tx_in) + WriteRoom(out) <= BUF_LEN - 1
         /\ tx_in + WriteRoom(out) <= BUF_LEN
<1>1. BUF_LEN \in Nat /\ BUF_LEN > 1
  BY JtagAssumption
<1>2. Fill(out, tx_in) = IF tx_in >= out THEN tx_in - out ELSE tx_in - out + BUF_LEN
  BY FillIs
<1> QED BY <1>1, <1>2 DEF WriteRoom, Slots

LEMMA WriteCopySends ==
  ASSUME JtagInv, SeenInv, WriteCopy
  PROVE  ToHost!ChannelNext
<1> DEFINE n == Least(WriteRoom(seen), left)
           f == Fill(tx_out, tx_in)
           c == [j \in 1 .. n |-> (TxSent + j - 1) % TxNumbers]
<1>0. BUF_LEN \in Nat /\ BUF_LEN > 1 /\ HwDepth \in Nat /\ TxNumbers \in Nat
      /\ TxNumbers > 0
  BY JtagAssumption
<1>1. /\ tx_in \in Slots /\ tx_out \in Slots /\ seen \in Slots
      /\ tx_buf \in [Slots -> TxChars] /\ left \in Nat /\ moved \in Nat
      /\ txNext \in Nat
  BY DEF JtagInv, JtagTypeOK, TxRingOK, CallOK, CharsOK, TxChars
<1>2. /\ left > 0 /\ WriteRoom(seen) > 0 /\ f <= Fill(seen, tx_in)
      /\ pc = "writeCopy"
  BY DEF WriteCopy, Thread, SeenInv, RoomStays
<1>3. n \in 1 .. BUF_LEN - 1 /\ n <= left /\ f + n < BUF_LEN /\ tx_in + n <= BUF_LEN
  <2>1. /\ WriteRoom(seen) \in Int
        /\ Fill(seen, tx_in) + WriteRoom(seen) <= BUF_LEN - 1
        /\ tx_in + WriteRoom(seen) <= BUF_LEN
    BY <1>1, RoomFits
  <2>2. f \in Nat /\ Fill(seen, tx_in) \in Nat
    BY <1>1, FillIs
  <2>3. n \in Int /\ n > 0 /\ n <= WriteRoom(seen) /\ n <= left
    BY <2>1, <1>1, <1>2 DEF Least
  <2> HIDE DEF n, f
  <2> QED BY <2>1, <2>2, <2>3, <1>0, <1>1, <1>2 DEF Slots
<1>4. /\ tx_buf' = [s \in Slots |->
                      IF s \in tx_in .. tx_in + n - 1
                      THEN (txNext + moved + s - tx_in) % TxNumbers
                      ELSE tx_buf[s]]
      /\ tx_in' = (tx_in + n) % BUF_LEN /\ moved' = moved + n
      /\ pc' = "write" /\ UNCHANGED <<tx_out, txFifo, txNext, txGot>>
  BY DEF WriteCopy, uart, chars
<1> HIDE DEF n
<1>5. TxSent = (txNext + moved) % TxNumbers
      /\ TxSent' = (txNext + (moved + n)) % TxNumbers
  BY <1>2, <1>4 DEF TxSent, Writing
<1>6. TxSent' = (TxSent + n) % TxNumbers
  <2>1. (((txNext + moved) % TxNumbers) + n) % TxNumbers = (txNext + moved + n) % TxNumbers
    <3>1. txNext + moved \in Nat /\ n \in Nat
      BY <1>1, <1>3
    <3> QED BY <3>1, <1>0, ModSum
  <2>2. txNext + moved + n = txNext + (moved + n)
    BY <1>1, <1>3
  <2> QED BY <1>5, <2>1, <2>2
<1>7. \A j \in 1 .. n : c[j] = (txNext + moved + (j - 1)) % TxNumbers
  <2> SUFFICES ASSUME NEW j \in 1 .. n
               PROVE  (TxSent + j - 1) % TxNumbers = (txNext + moved + (j - 1)) % TxNumbers
    OBVIOUS
  <2>1. j - 1 \in Nat /\ txNext + moved \in Nat
    BY <1>1, <1>3
  <2>2. (((txNext + moved) % TxNumbers) + (j - 1)) % TxNumbers
          = (txNext + moved + (j - 1)) % TxNumbers
    BY <2>1, <1>0, ModSum
  <2>3. TxSent \in Int
    BY <1>1, <1>0, <1>5, ModRange
  <2>4. TxSent + j - 1 = TxSent + (j - 1)
    BY <2>1, <2>3
  <2> QED BY <2>2, <2>4, <1>5
<1>8. c \in Seq(TxChars) /\ Len(c) = n
  <2>1. \A j \in 1 .. n : (TxSent + j - 1) % TxNumbers \in TxChars
    <3> SUFFICES ASSUME NEW j \in 1 .. n PROVE (TxSent + j - 1) % TxNumbers \in TxChars
      OBVIOUS
    <3>1. TxSent \in Int
      BY <1>1, <1>0, <1>5, ModRange
    <3>2. TxSent + j - 1 \in Int
      BY <3>1, <1>3
    <3> QED BY <3>2, <1>0, ModRange DEF TxChars
  <2>2. c \in [1 .. n -> TxChars] /\ n \in Nat
    BY <2>1, <1>3
  <2>3. c \in Seq(TxChars)
    <3> HIDE DEF c
    <3> QED BY <2>2, SeqDef
  <2> QED BY <2>2, <2>3, LenProperties
<1>9. tx_buf' \in [Slots -> TxChars]
  <2>1. \A s \in Slots : (txNext + moved + s - tx_in) % TxNumbers \in TxChars
    <3> SUFFICES ASSUME NEW s \in Slots
                 PROVE  (txNext + moved + s - tx_in) % TxNumbers \in TxChars
      OBVIOUS
    <3>1. txNext + moved + s - tx_in \in Int
      BY <1>1 DEF Slots
    <3> QED BY <3>1, <1>0, ModRange DEF TxChars
  <2> QED BY <2>1, <1>1, <1>4
<1>10. Stored(tx_buf, tx_buf', tx_in, c)
  <2>1. \A j \in 1 .. n : At(tx_in, j) = tx_in + j - 1 /\ At(tx_in, j) \in Slots
    <3> SUFFICES ASSUME NEW j \in 1 .. n
                 PROVE  At(tx_in, j) = tx_in + j - 1 /\ At(tx_in, j) \in Slots
      OBVIOUS
    <3>1. j \in 1 .. BUF_LEN /\ tx_in + j - 1 < BUF_LEN
      BY <1>0, <1>1, <1>3 DEF Slots
    <3> QED BY <3>1, <1>1, AtIs
  <2>2. ASSUME NEW j \in 1 .. n PROVE tx_buf'[At(tx_in, j)] = c[j]
    <3>1. tx_in + j - 1 \in Slots /\ tx_in + j - 1 \in tx_in .. tx_in + n - 1
      <4>1. tx_in + j - 1 \in Slots
        BY <2>1
      <4>2. tx_in \in Int /\ n \in Int /\ j \in 1 .. n
        BY <1>1, <1>3 DEF Slots
      <4> QED BY <4>1, <4>2
    <3>2. tx_buf'[tx_in + j - 1] = (txNext + moved + (tx_in + j - 1) - tx_in) % TxNumbers
      BY <3>1, <1>4
    <3>3. txNext + moved + (tx_in + j - 1) - tx_in = txNext + moved + (j - 1)
      BY <1>1, <1>3 DEF Slots
    <3> QED BY <2>1, <3>2, <3>3, <1>7
  <2>3. ASSUME NEW s \in Slots, \A j \in 1 .. n : s # At(tx_in, j)
        PROVE  tx_buf'[s] = tx_buf[s]
    <3>1. s \notin tx_in .. tx_in + n - 1
      <4> SUFFICES ASSUME s \in tx_in .. tx_in + n - 1 PROVE FALSE
        OBVIOUS
      <4>1. s - tx_in + 1 \in 1 .. n /\ tx_in + (s - tx_in + 1) - 1 = s
        BY <1>1, <1>3 DEF Slots
      <4> QED BY <4>1, <2>1, <2>3
    <3> QED BY <3>1, <1>4
  <2> HIDE DEF c
  <2> QED BY <2>2, <2>3, <1>8 DEF Stored
<1> HIDE DEF c
<1>11. Between(tx_buf', tx_out, (tx_in + n) % BUF_LEN) = TxRingLine \o c
  <2>1. Len(c) \in 1 .. BUF_LEN /\ Fill(tx_out, tx_in) + Len(c) < BUF_LEN
    BY <1>0, <1>3, <1>8
  <2> QED BY <2>1, <1>1, <1>8, <1>9, <1>10, Pushed DEF TxRingLine
<1>12. TxLine' = TxLine \o c
  <2>1. TxLine' = txFifo \o (TxRingLine \o c)
    BY <1>4, <1>11 DEF TxLine, Between
  <2>2. (txFifo \o TxRingLine) \o c = txFifo \o (TxRingLine \o c)
    <3>1. txFifo \in Seq(TxChars) /\ TxRingLine \in Seq(TxChars)
      BY TxLineIs
    <3> QED BY <3>1, <1>8, ConcatAssociative
  <2> QED BY <2>1, <2>2, TxLineIs
<1>13. Len(TxLine) + n <= LineCapacity /\ n \in 1 .. LineCapacity
  <2>1. /\ Len(txFifo) \in 0 .. HwDepth /\ f \in 0 .. BUF_LEN - 1
        /\ Len(TxLine) = Len(txFifo) + f
    BY TxLineIs
  <2> HIDE DEF f
  <2> QED BY <2>1, <1>0, <1>3 DEF LineCapacity
<1>14. ToHost!Put(n)
  BY <1>4, <1>6, <1>12, <1>13 DEF ToHost!Put, c
<1> QED BY <1>13, <1>14 DEF ToHost!ChannelNext

LEMMA NothingLeft ==
  ASSUME NEW S, NEW q \in Seq(S), Len(q) = 0
  PROVE  q = <<>>
BY EmptySeq

(* The interrupt routine hands characters from the ring to the UART.       *)
LEMMA IsrTransmitKeeps ==
  ASSUME JtagInv, SeenInv, IsrTransmit
  PROVE  UNCHANGED ToHost!channelVars
<1>1. /\ space > 0 /\ tx_out # tx_in /\ tx_out' = Succ(tx_out)
      /\ UNCHANGED <<tx_in, tx_buf, pc, moved, txNext, txGot>>
  BY DEF IsrTransmit, callVars, chars
<1>2. /\ tx_in \in Slots /\ tx_out \in Slots /\ tx_buf \in [Slots -> TxChars]
      /\ space \in Int
  BY DEF JtagInv, JtagTypeOK, TxRingOK, IsrOK, TxChars
<1>3. /\ txFifo \in Seq(TxChars) /\ Len(txFifo) \in 0 .. HwDepth
      /\ TxRingLine \in Seq(TxChars) /\ Len(TxRingLine) = Fill(tx_out, tx_in)
      /\ TxLine = txFifo \o TxRingLine
  BY TxLineIs
<1>4. txFifo' = Append(txFifo, tx_buf[tx_out])
  <2>1. Len(txFifo) < HwDepth
    BY <1>1, <1>2, <1>3, JtagAssumption DEF SeenInv, SpaceStays
  <2> QED BY <2>1 DEF IsrTransmit
<1>5. Fill(tx_out, tx_in) >= 1 /\ Fill(tx_out, tx_in) \in Nat
  BY <1>1, <1>2, OneLess, FillIs
<1>6. Between(tx_buf, Succ(tx_out), tx_in) = SubSeq(TxRingLine, 1 + 1, Len(TxRingLine))
  <2>1. 1 \in 1 .. Fill(tx_out, tx_in)
    BY <1>5
  <2>2. Between(tx_buf, (tx_out + 1) % BUF_LEN, tx_in)
          = SubSeq(Between(tx_buf, tx_out, tx_in), 1 + 1, Fill(tx_out, tx_in))
    BY <2>1, <1>2, Popped
  <2> QED BY <2>2, <1>3 DEF TxRingLine, Succ
<1>7. TxRingLine # <<>> /\ Head(TxRingLine) = tx_buf[tx_out]
  <2>1. TxRingLine[1] = tx_buf[At(tx_out, 1)]
    <3>1. 1 \in 1 .. Fill(tx_out, tx_in)
      BY <1>5
    <3> QED BY <3>1, <1>2, BetweenAt, ZenonT(40) DEF TxRingLine
  <2>2. At(tx_out, 1) = tx_out
    <3>1. 1 \in 1 .. BUF_LEN /\ tx_out + 1 - 1 = tx_out /\ tx_out < BUF_LEN
      BY <1>2, JtagAssumption DEF Slots
    <3> QED BY <3>1, <1>2, AtIs
  <2>3. Len(TxRingLine) >= 1
    BY <1>3, <1>5
  <2>4. TxRingLine # <<>> /\ Head(TxRingLine) = TxRingLine[1]
    BY <2>3, <1>3, SMT
  <2> QED BY <2>1, <2>2, <2>4
<1>8. Tail(TxRingLine) = Between(tx_buf, Succ(tx_out), tx_in)
  <2>1. 1 + 1 = 2
    OBVIOUS
  <2> QED BY <2>1, <1>3, <1>6, <1>7, TailIsSubSeq
<1>9. UNCHANGED TxLine
  <2>1. TxLine' = txFifo' \o Between(tx_buf, Succ(tx_out), tx_in)
    BY <1>1 DEF TxLine, Between
  <2>2. Append(txFifo, Head(TxRingLine)) \o Tail(TxRingLine) = txFifo \o TxRingLine
    BY <1>3, <1>7, Handed
  <2> QED BY <2>1, <2>2, <1>3, <1>4, <1>7, <1>8
<1>10. UNCHANGED TxSent
  BY <1>1, SentStays
<1> QED BY <1>1, <1>9, <1>10 DEF ToHost!channelVars

(* The host takes one from the UART.                                       *)
LEMMA HostTakeTakes ==
  ASSUME JtagInv, HostTake
  PROVE  ToHost!ChannelNext
<1>1. /\ txFifo # <<>> /\ txFifo' = Tail(txFifo)
      /\ txGot' = (Head(txFifo) + 1) % TxNumbers
      /\ UNCHANGED <<txRing, pc, moved, txNext>>
  BY DEF HostTake, callVars
<1>2. /\ txFifo \in Seq(TxChars) /\ TxRingLine \in Seq(TxChars)
      /\ TxLine = txFifo \o TxRingLine
  BY TxLineIs
<1>3. 1 \in 1 .. Len(txFifo) /\ Head(txFifo) = txFifo[1]
  BY <1>1, <1>2, SMT
<1>4. /\ SubSeq(TxLine, 1 + 1, Len(TxLine))
           = SubSeq(txFifo, 1 + 1, Len(txFifo)) \o TxRingLine
      /\ TxLine[1] = txFifo[1] /\ 1 <= Len(TxLine)
  BY <1>2, <1>3, Taken
<1>5. Tail(txFifo) = SubSeq(txFifo, 1 + 1, Len(txFifo))
  <2>1. 1 + 1 = 2
    OBVIOUS
  <2> QED BY <2>1, <1>1, <1>2, TailIsSubSeq
<1>6. TxLine' = Tail(txFifo) \o TxRingLine
  BY <1>1 DEF TxLine, TxRingLine, Between, txRing
<1>7. UNCHANGED TxSent
  BY <1>1, SentStays
<1>8. ToHost!Take(1)
  BY <1>1, <1>3, <1>4, <1>5, <1>6, <1>7 DEF ToHost!Take
<1>9. 1 \in 1 .. LineCapacity
  BY JtagAssumption DEF LineCapacity
<1> QED BY <1>8, <1>9 DEF ToHost!ChannelNext, ToHost!Receive

(* Every step of the driver is a step of the channel to the host.          *)
LEMMA TxStep ==
  JtagInv /\ SeenInv /\ [JtagNext]_jtagVars
    => [ToHost!ChannelNext]_(ToHost!channelVars)
<1> SUFFICES ASSUME JtagInv, SeenInv, [JtagNext]_jtagVars
             PROVE  [ToHost!ChannelNext]_(ToHost!channelVars)
  OBVIOUS
<1> USE DEF callVars, uart, chars
<1>1. CASE Program
  <2>1. ASSUME NEW at \in {"write", "read", "closing"}, NEW n, NEW nb,
               Call(at, n, nb)
        PROVE  UNCHANGED ToHost!channelVars
    <3>1. UNCHANGED TxSent
      BY <2>1, CallSends
    <3> QED BY <3>1, <2>1, TxQuiet DEF Call
  <2> QED BY <1>1, <2>1 DEF Program
<1>2. CASE SetTimeout
  BY <1>2, SentStays, TxQuiet DEF SetTimeout
<1>3. CASE WriteCopy
  BY <1>3, WriteCopySends
<1>4. CASE WriteReturn
  BY <1>4, WriteReturnSends, TxQuiet DEF WriteReturn
<1>5. CASE WriteSample \/ WriteKick \/ WriteWait \/ WriteCheck
  <2>1. UNCHANGED <<txRing, txFifo, txGot, txNext, moved>>
        /\ pc \in Writing /\ pc' \in Writing
    BY <1>5 DEF WriteSample, WriteKick, WriteWait, WriteCheck, Thread, Writing
  <2> QED BY <2>1, SentStays, TxQuiet
<1>6. CASE ReadSample \/ ReadCopy \/ ReadWait \/ ReadCheck \/ ReadKick \/ ReadReturn
           \/ CloseReturn
  <2>1. UNCHANGED <<txRing, txFifo, txGot, txNext>>
        /\ pc \notin Writing /\ pc' \notin Writing
    BY <1>6 DEF ReadSample, ReadCopy, ReadWait, ReadCheck, ReadKick, ReadReturn,
       CloseReturn, Return, Thread, Writing
  <2> QED BY <2>1, TxQuiet DEF TxSent
<1>7. CASE EnterIsr \/ IsrControl \/ IsrRingFull \/ IsrReceive \/ IsrTransmitted
           \/ Alarm \/ HostSend \/ HostPoll \/ HostLeaves
  <2>1. UNCHANGED <<txRing, txFifo, txGot, txNext, moved, pc>>
    BY <1>7 DEF EnterIsr, IsrControl, IsrRingFull, IsrReceive, IsrTransmitted, Alarm,
       HostSend, HostPoll, HostLeaves
  <2> QED BY <2>1, SentStays, TxQuiet
<1>8. CASE IsrTransmit
  BY <1>8, IsrTransmitKeeps
<1>9. CASE HostTake
  BY <1>9, HostTakeTakes
<1>10. CASE UNCHANGED jtagVars
  BY <1>10, SentStays, TxQuiet DEF jtagVars
<1> QED BY <1>1, <1>2, <1>3, <1>4, <1>5, <1>6, <1>7, <1>8, <1>9, <1>10
       DEF JtagNext, Write, Read, Isr, Host
-----------------------------------------------------------------------------
(* What is in the receive ring.                                            *)
RxRingLine == Between(rx_buf, rx_out, rx_in)

LEMMA RxLineIs ==
  ASSUME JtagInv
  PROVE  /\ rxFifo \in Seq(RxChars) /\ Len(rxFifo) \in 0 .. HwDepth
         /\ RxRingLine \in Seq(RxChars) /\ Len(RxRingLine) = Fill(rx_out, rx_in)
         /\ Fill(rx_out, rx_in) \in 0 .. BUF_LEN - 1
         /\ RxLine = RxRingLine \o rxFifo
         /\ RxLine \in Seq(RxChars)
         /\ Len(RxLine) = Fill(rx_out, rx_in) + Len(rxFifo)
<1>1. /\ rxFifo \in Seq(RxChars) /\ Len(rxFifo) <= HwDepth
      /\ rx_in \in Slots /\ rx_out \in Slots /\ rx_buf \in [Slots -> RxChars]
  BY DEF JtagInv, JtagTypeOK, UartOK, RxRingOK, RxChars
<1>2. Len(rxFifo) \in 0 .. HwDepth
  BY <1>1, LenProperties, JtagAssumption
<1>3. /\ RxRingLine \in Seq(RxChars) /\ Len(RxRingLine) = Fill(rx_out, rx_in)
  BY <1>1, BetweenIs DEF RxRingLine
<1>4. Fill(rx_out, rx_in) \in 0 .. BUF_LEN - 1
  BY <1>1, FillIs
<1>5. RxLine = RxRingLine \o rxFifo
  BY DEF RxLine, RxRingLine
<1>6. RxLine \in Seq(RxChars) /\ Len(RxLine) = Len(RxRingLine) + Len(rxFifo)
  BY <1>1, <1>3, <1>5, ConcatProperties
<1> QED BY <1>1, <1>2, <1>3, <1>4, <1>5, <1>6

LEMMA RxQuiet ==
  ASSUME UNCHANGED <<rxRing, rxFifo, rxNext, rxGot>>
  PROVE  UNCHANGED FromHost!channelVars
BY DEF FromHost!channelVars, RxLine, Between, rxRing

(* The interrupt routine hands characters from the UART to the ring.       *)
LEMMA IsrReceiveKeeps ==
  ASSUME JtagInv, IsrReceive
  PROVE  UNCHANGED FromHost!channelVars
<1>1. CASE rxFifo = <<>>
  BY <1>1, RxQuiet DEF IsrReceive, rxRing, chars
<1>2. CASE rxFifo # <<>>
  <2>1. /\ Succ(rx_in) # rx_out /\ rxFifo' = Tail(rxFifo) /\ rx_in' = Succ(rx_in)
        /\ rx_buf' = [rx_buf EXCEPT ![rx_in] = Head(rxFifo)]
        /\ UNCHANGED <<rx_out, rxNext, rxGot>>
    BY <1>2 DEF IsrReceive, chars
  <2>2. /\ rx_in \in Slots /\ rx_out \in Slots /\ rx_buf \in [Slots -> RxChars]
    BY DEF JtagInv, JtagTypeOK, RxRingOK, RxChars
  <2>3. /\ rxFifo \in Seq(RxChars) /\ RxRingLine \in Seq(RxChars)
        /\ RxLine = RxRingLine \o rxFifo
    BY RxLineIs
  <2> DEFINE c == <<Head(rxFifo)>>
  <2>4. c \in Seq(RxChars) /\ Len(c) = 1 /\ c[1] = Head(rxFifo)
        /\ Head(rxFifo) \in RxChars
    <3>1. Head(rxFifo) \in RxChars
      BY <1>2, <2>3, HeadTailProperties
    <3> QED BY <3>1
  <2>5. rx_buf' \in [Slots -> RxChars]
    BY <2>1, <2>2, <2>4
  <2>6. At(rx_in, 1) = rx_in
    <3>1. 1 \in 1 .. BUF_LEN /\ rx_in + 1 - 1 = rx_in /\ rx_in < BUF_LEN
      BY <2>2, JtagAssumption DEF Slots
    <3> QED BY <3>1, <2>2, AtIs
  <2>7. Fill(rx_out, rx_in) + 1 < BUF_LEN
    BY <2>1, <2>2, OneMore
  <2> HIDE DEF c
  <2>8. Stored(rx_buf, rx_buf', rx_in, c)
    <3>1. \A j \in 1 .. Len(c) : j = 1
      BY <2>4
    <3>2. 1 \in 1 .. Len(c)
      BY <2>4
    <3>3. \A j \in 1 .. Len(c) : rx_buf'[At(rx_in, j)] = c[j]
      <4>1. rx_buf'[At(rx_in, 1)] = c[1]
        BY <2>1, <2>2, <2>4, <2>6
      <4> QED BY <4>1, <3>1
    <3>4. ASSUME NEW s \in Slots, \A j \in 1 .. Len(c) : s # At(rx_in, j)
          PROVE  rx_buf'[s] = rx_buf[s]
      <4>1. s # rx_in
        BY <3>2, <3>4, <2>6
      <4> QED BY <4>1, <2>1, <2>2
    <3> QED BY <3>3, <3>4 DEF Stored
  <2>9. Between(rx_buf', rx_out, Succ(rx_in)) = RxRingLine \o c
    <3>1. Len(c) \in 1 .. BUF_LEN /\ Fill(rx_out, rx_in) + Len(c) < BUF_LEN
      BY <2>4, <2>7, JtagAssumption
    <3>2. Between(rx_buf', rx_out, (rx_in + Len(c)) % BUF_LEN)
            = Between(rx_buf, rx_out, rx_in) \o c
      <4>1. c \in Seq(RxChars)
        BY <2>4
      <4>2. rx_in \in Slots /\ rx_out \in Slots /\ rx_buf \in [Slots -> RxChars]
        BY <2>2
      <4> QED BY <4>1, <4>2, <3>1, <2>5, <2>8, Pushed
    <3> QED BY <3>2, <2>4 DEF RxRingLine, Succ
  <2>10. RxLine' = (RxRingLine \o c) \o Tail(rxFifo)
    BY <2>1, <2>9 DEF RxLine, Between
  <2>11. (RxRingLine \o <<Head(rxFifo)>>) \o Tail(rxFifo) = RxRingLine \o rxFifo
    BY <1>2, <2>3, Handed
  <2>12. UNCHANGED RxLine
    BY <2>3, <2>10, <2>11 DEF c
  <2> QED BY <2>1, <2>12 DEF FromHost!channelVars
<1> QED BY <1>1, <1>2

(* read() takes the oldest characters of the ring.                         *)
LEMMA ReadCopyTakes ==
  ASSUME JtagInv, SeenInv, ReadCopy
  PROVE  FromHost!ChannelNext
<1> DEFINE n == Least(ReadAvailable(seen), left)
           f == Fill(rx_out, rx_in)
<1>0. BUF_LEN \in Nat /\ BUF_LEN > 1 /\ HwDepth \in Nat
  BY JtagAssumption
<1>1. /\ rx_in \in Slots /\ rx_out \in Slots /\ seen \in Slots
      /\ rx_buf \in [Slots -> RxChars] /\ left \in Nat
  BY DEF JtagInv, JtagTypeOK, RxRingOK, CallOK, RxChars
<1>2. left > 0 /\ ReadAvailable(seen) > 0 /\ Fill(rx_out, seen) <= f
  BY DEF ReadCopy, Thread, JtagInv, CopyReady, SeenInv, CharactersStay
<1>3. n \in 1 .. f /\ rx_out + n - 1 < BUF_LEN /\ f \in 0 .. BUF_LEN - 1
  <2>1. Fill(rx_out, seen) = (IF seen >= rx_out THEN seen - rx_out
                              ELSE seen - rx_out + BUF_LEN)
        /\ f \in 0 .. BUF_LEN - 1
    BY <1>1, FillIs
  <2>2. /\ ReadAvailable(seen) \in Int
        /\ ReadAvailable(seen) <= Fill(rx_out, seen)
        /\ rx_out + ReadAvailable(seen) <= BUF_LEN
    BY <2>1, <1>0, <1>1 DEF ReadAvailable, Slots
  <2>3. n \in Int /\ n > 0 /\ n <= ReadAvailable(seen)
    BY <2>2, <1>1, <1>2 DEF Least
  <2>4. Fill(rx_out, seen) \in Int
    BY <1>1, FillIs
  <2> HIDE DEF n, f
  <2> QED BY <2>1, <2>2, <2>3, <2>4, <1>0, <1>1, <1>2 DEF Slots
<1>4. /\ rxGot' = (rx_buf[rx_out + n - 1] + 1) % RxNumbers
      /\ rx_out' = (rx_out + n) % BUF_LEN
      /\ UNCHANGED <<rx_in, rx_buf, rxFifo, rxNext>>
  BY DEF ReadCopy, uart
<1> HIDE DEF n
<1>5. /\ rxFifo \in Seq(RxChars) /\ RxRingLine \in Seq(RxChars)
      /\ RxLine = RxRingLine \o rxFifo /\ Len(RxRingLine) = f
  BY RxLineIs
<1>6. Between(rx_buf, (rx_out + n) % BUF_LEN, rx_in) = SubSeq(RxRingLine, n + 1, f)
  BY <1>1, <1>3, Popped DEF RxRingLine
<1>7. RxLine' = SubSeq(RxRingLine, n + 1, Len(RxRingLine)) \o rxFifo
  BY <1>4, <1>5, <1>6 DEF RxLine, Between
<1>8. RxRingLine[n] = rx_buf[rx_out + n - 1]
  <2>1. RxRingLine[n] = rx_buf[At(rx_out, n)]
    BY <1>1, <1>3, BetweenAt, ZenonT(40) DEF RxRingLine
  <2>2. n \in 1 .. BUF_LEN
    <3> HIDE DEF f
    <3> QED BY <1>0, <1>3
  <2>3. At(rx_out, n) = rx_out + n - 1
    BY <2>2, <1>1, <1>3, AtIs
  <2> QED BY <2>1, <2>3
<1>9. /\ SubSeq(RxLine, n + 1, Len(RxLine))
           = SubSeq(RxRingLine, n + 1, Len(RxRingLine)) \o rxFifo
      /\ RxLine[n] = RxRingLine[n] /\ n <= Len(RxLine)
  <2>1. n \in 1 .. Len(RxRingLine)
    BY <1>3, <1>5
  <2> QED BY <2>1, <1>5, Taken
<1>10. FromHost!Take(n)
  BY <1>4, <1>7, <1>8, <1>9 DEF FromHost!Take
<1>11. n \in 1 .. LineCapacity
  <2> HIDE DEF f
  <2> QED BY <1>0, <1>3 DEF LineCapacity
<1> QED BY <1>10, <1>11 DEF FromHost!ChannelNext, FromHost!Receive

(* The host sends one to the UART.                                         *)
LEMMA HostSendPuts ==
  ASSUME JtagInv, HostSend
  PROVE  FromHost!ChannelNext
<1>1. /\ Len(rxFifo) < HwDepth /\ rxFifo' = Append(rxFifo, rxNext)
      /\ rxNext' = (rxNext + 1) % RxNumbers
      /\ UNCHANGED <<rxRing, rxGot>>
  BY DEF HostSend
<1>2. rxNext \in RxChars /\ rxNext \in Nat /\ rxNext < RxNumbers /\ RxNumbers \in Nat
  BY JtagAssumption DEF JtagInv, JtagTypeOK, CharsOK, RxChars
<1>3. /\ rxFifo \in Seq(RxChars) /\ Len(rxFifo) \in 0 .. HwDepth
      /\ RxRingLine \in Seq(RxChars)
      /\ Fill(rx_out, rx_in) \in 0 .. BUF_LEN - 1
      /\ RxLine = RxRingLine \o rxFifo
      /\ Len(RxLine) = Fill(rx_out, rx_in) + Len(rxFifo)
  BY RxLineIs
<1>4. RxLine' = RxRingLine \o Append(rxFifo, rxNext)
  BY <1>1 DEF RxLine, RxRingLine, Between, rxRing
<1>5. RxLine' = RxLine \o <<rxNext>>
  <2>1. Append(rxFifo, rxNext) = rxFifo \o <<rxNext>> /\ <<rxNext>> \in Seq(RxChars)
    BY <1>2, <1>3, AppendIsConcat
  <2>2. (RxRingLine \o rxFifo) \o <<rxNext>> = RxRingLine \o (rxFifo \o <<rxNext>>)
    BY <2>1, <1>3, ConcatAssociative
  <2> QED BY <2>1, <2>2, <1>3, <1>4
<1>6. <<rxNext>> = [j \in 1 .. 1 |-> (rxNext + j - 1) % RxNumbers]
  <2>1. \A j \in 1 .. 1 : j = 1
    OBVIOUS
  <2>2. (rxNext + 1 - 1) % RxNumbers = rxNext
    BY <1>2, SmallMod
  <2> QED BY <2>1, <2>2
<1>7. Len(RxLine) + 1 <= LineCapacity /\ 1 \in 1 .. LineCapacity
  BY <1>1, <1>3, JtagAssumption DEF LineCapacity
<1>8. FromHost!Put(1)
  BY <1>1, <1>5, <1>6, <1>7 DEF FromHost!Put
<1> QED BY <1>7, <1>8 DEF FromHost!ChannelNext

(* Every step of the driver is a step of the channel from the host.        *)
LEMMA RxStep ==
  JtagInv /\ SeenInv /\ [JtagNext]_jtagVars
    => [FromHost!ChannelNext]_(FromHost!channelVars)
<1> SUFFICES ASSUME JtagInv, SeenInv, [JtagNext]_jtagVars
             PROVE  [FromHost!ChannelNext]_(FromHost!channelVars)
  OBVIOUS
<1> USE DEF uart, chars
<1>1. CASE Program \/ SetTimeout \/ Write \/ CloseReturn
  BY <1>1, RxQuiet DEF Program, Call, SetTimeout, Write, WriteSample, WriteCopy,
     WriteKick, WriteWait, WriteCheck, WriteReturn, CloseReturn
<1>2. CASE ReadSample \/ ReadWait \/ ReadCheck \/ ReadKick \/ ReadReturn
  BY <1>2, RxQuiet DEF ReadSample, ReadWait, ReadCheck, ReadKick, ReadReturn
<1>3. CASE ReadCopy
  BY <1>3, ReadCopyTakes
<1>4. CASE EnterIsr \/ IsrControl \/ IsrRingFull \/ IsrTransmit \/ IsrTransmitted
           \/ Alarm \/ HostTake \/ HostPoll \/ HostLeaves
  BY <1>4, RxQuiet DEF EnterIsr, IsrControl, IsrRingFull, IsrTransmit,
     IsrTransmitted, Alarm, HostTake, HostPoll, HostLeaves
<1>5. CASE IsrReceive
  BY <1>5, IsrReceiveKeeps
<1>6. CASE HostSend
  BY <1>6, HostSendPuts
<1>7. CASE UNCHANGED jtagVars
  BY <1>7, RxQuiet DEF jtagVars
<1> QED BY <1>1, <1>2, <1>3, <1>4, <1>5, <1>6, <1>7 DEF JtagNext, Read, Isr, Host
-----------------------------------------------------------------------------
LEMMA ChannelsBegin == JtagInit => ToHost!ChannelInit /\ FromHost!ChannelInit
<1> SUFFICES ASSUME JtagInit PROVE ToHost!ChannelInit /\ FromHost!ChannelInit
  OBVIOUS
<1>1. JtagInv
  BY JtagInitInv
<1>2. /\ tx_in = 0 /\ tx_out = 0 /\ rx_in = 0 /\ rx_out = 0 /\ 0 \in Slots
      /\ rxFifo = <<>> /\ txFifo = <<>> /\ pc = "idle"
      /\ txNext = 0 /\ rxNext = 0 /\ txGot = 0 /\ rxGot = 0
  BY JtagAssumption DEF JtagInit, Slots
<1>3. Fill(tx_out, tx_in) = 0 /\ Fill(rx_out, rx_in) = 0
  BY <1>2, FillIs
<1>4. Len(txFifo) = 0 /\ Len(rxFifo) = 0
  BY <1>2
<1>5. Len(TxLine) = 0 /\ TxLine \in Seq(TxChars)
  BY <1>1, <1>3, <1>4, TxLineIs
<1>6. Len(RxLine) = 0 /\ RxLine \in Seq(RxChars)
  BY <1>1, <1>3, <1>4, RxLineIs
<1>7. TxLine = <<>> /\ RxLine = <<>>
  BY <1>5, <1>6, NothingLeft
<1>8. TxSent = 0
  BY <1>2 DEF TxSent, Writing
<1> QED BY <1>2, <1>7, <1>8 DEF ToHost!ChannelInit, FromHost!ChannelInit

LEMMA WhatIsSeenStays == JtagSpec => [](JtagInv /\ SeenInv)
<1>1. JtagInit => JtagInv /\ SeenInv
  BY JtagInitInv, SeenInit
<1>2. JtagInv /\ SeenInv /\ [JtagNext]_jtagVars => (JtagInv /\ SeenInv)'
  BY JtagStep, SeenStep
<1> QED BY <1>1, <1>2, PTL DEF JtagSpec

(* What write() says it has accepted reaches the host once, in order: the  *)
(* driver and the UART implement a ByteChannel to the host, for every      *)
(* length of the ring and the FIFO.                                        *)
THEOREM WritesDelivered == JtagSpec => TxDelivered
<1>1. JtagSpec => [](JtagInv /\ SeenInv)
  BY WhatIsSeenStays
<1>2. JtagInit => ToHost!ChannelInit
  BY ChannelsBegin
<1>3. JtagInv /\ SeenInv /\ [JtagNext]_jtagVars
        => [ToHost!ChannelNext]_(ToHost!channelVars)
  BY TxStep
<1> QED BY <1>1, <1>2, <1>3, PTL DEF JtagSpec, TxDelivered, ToHost!ChannelSafety

(* What the host sends, read() returns once, in order: a ByteChannel from  *)
(* the host.                                                               *)
THEOREM ReadsDelivered == JtagSpec => RxDelivered
<1>1. JtagSpec => [](JtagInv /\ SeenInv)
  BY WhatIsSeenStays
<1>2. JtagInit => FromHost!ChannelInit
  BY ChannelsBegin
<1>3. JtagInv /\ SeenInv /\ [JtagNext]_jtagVars
        => [FromHost!ChannelNext]_(FromHost!channelVars)
  BY RxStep
<1> QED BY <1>1, <1>2, <1>3, PTL DEF JtagSpec, RxDelivered, FromHost!ChannelSafety

(* ... and so in the behaviours whose program and host are those of use.   *)
LEMMA LineIsJtag == LineSpec => JtagSpec
<1>1. LineInit => JtagInit
  BY DEF LineInit
<1>2. LineNext => JtagNext
  BY DEF LineNext, ProgramWrites, ProgramReads, JtagNext, Program, Host
<1>3. [LineNext]_lineVars => [JtagNext]_jtagVars
  BY <1>2 DEF lineVars
<1> QED BY <1>1, <1>3, PTL DEF LineSpec, JtagSpec

THEOREM LineDelivers == LineSpec => TxDelivered /\ RxDelivered
  BY LineIsJtag, WritesDelivered, ReadsDelivered, PTL
=============================================================================
