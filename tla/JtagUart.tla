------------------------------ MODULE JtagUart ------------------------------
(***************************************************************************)
(* The interrupt-driven driver of the JTAG UART: write, read, close and    *)
(* ioctl, called by one thread; the interrupt routine; the alarm that      *)
(* watches for the host; and the UART with its two FIFOs and the host.     *)
(* The two rings are shared without a lock: each index is written by one   *)
(* side only.  A step of the thread is what it does between two reads of a *)
(* variable the interrupt routine writes; a step of the routine is one     *)
(* access to the UART.  The thread does not run while the routine does.    *)
(***************************************************************************)
EXTENDS Integers, Sequences

CONSTANTS
  BUF_LEN,            \* ALTERA_AVALON_JTAG_UART_BUF_LEN
  HwDepth, HwMargin,  \* the UART's FIFOs, and when they ask for service
  INT_MAX,
  DEFAULT_TIMEOUT,
  HoistLoads,         \* whether the compiler loads host_inactive once, before
                      \* a loop that waits: it is not volatile
  Counts, Spaces,     \* lengths of the buffers write() and read() are given
  Timeouts,           \* arguments of TIOCSTIMEOUT
  TxNumbers, RxNumbers  \* characters to and from the host, see ByteChannel

ASSUME JtagAssumption ==
  /\ BUF_LEN \in Nat /\ BUF_LEN > 1
  /\ HwDepth \in Nat /\ HwMargin \in Nat /\ HwMargin < HwDepth
  /\ INT_MAX \in Nat /\ INT_MAX > 2
  /\ DEFAULT_TIMEOUT \in 1 .. INT_MAX - 1
  /\ HoistLoads \in BOOLEAN
  /\ Counts \subseteq Nat /\ Spaces \subseteq Nat /\ Timeouts \subseteq Int
  /\ TxNumbers \in Nat \ {0} /\ RxNumbers \in Nat \ {0}

VARIABLES
  rx_in, rx_out, rx_buf, tx_in, tx_out, tx_buf,
  irq_enable,         \* sp->irq_enable and the bits in the UART: written together
  timeout, host_inactive,
  pc, left, moved, nonblock,   \* the thread's call: what is left, what is done
  seen,               \* the volatile index it read last: out in write, in in read
  patient,            \* host_inactive < timeout when it began to wait
  isr, wi, space, ravail,      \* the interrupt routine
  rxFifo, txFifo, pause, ac, host,  \* the UART and the host
  txNext, rxNext,     \* the next character the program, the host will send
  txGot, rxGot        \* the one after the last one the other has received

rxRing == <<rx_in, rx_out, rx_buf>>
txRing == <<tx_in, tx_out, tx_buf>>
callVars == <<pc, left, moved, nonblock, seen, patient>>
isrVars == <<isr, wi, space, ravail>>
hostVars == <<timeout, host_inactive>>
uart == <<rxFifo, txFifo, pause, ac, host>>
chars == <<txNext, rxNext, txGot, rxGot>>
jtagVars ==
  <<rxRing, txRing, irq_enable, hostVars, callVars, isrVars, uart, chars>>

EIO == -5
EWOULDBLOCK == -11

Slots == 0 .. BUF_LEN - 1
Succ(p) == (p + 1) % BUF_LEN
Least(a, b) == IF a < b THEN a ELSE b

(* The characters between two indices of a ring.                           *)
Between(buf, out, in) ==
  [j \in 1 .. (in - out) % BUF_LEN |-> buf[(out + j - 1) % BUF_LEN]]

JtagInit ==
  /\ rx_in = 0 /\ rx_out = 0 /\ rx_buf = [s \in Slots |-> 0]
  /\ tx_in = 0 /\ tx_out = 0 /\ tx_buf = [s \in Slots |-> 0]
  /\ irq_enable = {"RE"}
  /\ timeout \in {DEFAULT_TIMEOUT, INT_MAX} /\ host_inactive = 0
  /\ pc = "idle" /\ left = 0 /\ moved = 0 /\ nonblock = FALSE
  /\ seen = 0 /\ patient = TRUE
  /\ isr = "none" /\ wi = FALSE /\ space = 0 /\ ravail = FALSE
  /\ rxFifo = <<>> /\ txFifo = <<>> /\ pause = FALSE /\ ac = FALSE
  /\ host = "there"
  /\ txNext = 0 /\ rxNext = 0 /\ txGot = 0 /\ rxGot = 0
-----------------------------------------------------------------------------
(* The UART's interrupt conditions.                                        *)
RI == "RE" \in irq_enable /\ (pause \/ HwDepth - Len(rxFifo) <= HwMargin)
WI == "WE" \in irq_enable /\ Len(txFifo) <= HwMargin

(* The thread runs when no interrupt routine does.                         *)
Thread(at) == isr = "none" /\ pc = at
Active == host_inactive < timeout

(* A loop that waits goes on while this holds.                             *)
Waiting == IF HoistLoads THEN patient ELSE Active
BeginToWait == patient' = (HoistLoads => Active)

Call(at, n, nb) ==
  /\ Thread("idle") /\ pc' = at
  /\ left' = n /\ moved' = 0 /\ nonblock' = nb
  /\ seen' = 0 /\ patient' = (HoistLoads /\ at = "closing" => Active)
  /\ UNCHANGED <<rxRing, txRing, irq_enable, hostVars, isrVars, uart, chars>>

(* The locals end with the call.                                           *)
Return ==
  /\ pc' = "idle" /\ left' = 0 /\ moved' = 0 /\ nonblock' = FALSE
  /\ seen' = 0 /\ patient' = TRUE

Result == IF moved > 0 THEN moved ELSE IF nonblock THEN EWOULDBLOCK ELSE EIO
-----------------------------------------------------------------------------
(* write                                                                   *)

(* Mutant: the slot that stays free is forgotten.                          *)
WriteRoomAll(out) == IF tx_in < out THEN out - tx_in ELSE BUF_LEN - tx_in

(* Contiguous room behind tx_in, one slot always staying free.             *)
WriteRoom(out) == IF tx_in < out THEN out - 1 - tx_in
                  ELSE IF out > 0 THEN BUF_LEN - tx_in
                  ELSE BUF_LEN - 1 - tx_in

WriteSample ==
  /\ Thread("write")
  /\ IF left = 0 THEN UNCHANGED seen ELSE seen' = tx_out
  /\ pc' = IF left > 0 /\ WriteRoom(tx_out) > 0 THEN "writeCopy" ELSE "writeKick"
  /\ UNCHANGED <<left, moved, nonblock, patient>>
  /\ UNCHANGED <<rxRing, txRing, irq_enable, hostVars, isrVars, uart, chars>>

(* memcpy to the ring, then tx_in.                                         *)
WriteCopy ==
  /\ Thread("writeCopy")
  /\ LET n == Least(WriteRoom(seen), left)
     IN  /\ tx_buf' = [s \in Slots |->
                         IF s \in tx_in .. tx_in + n - 1
                         THEN (txNext + moved + s - tx_in) % TxNumbers
                         ELSE tx_buf[s]]
         /\ tx_in' = (tx_in + n) % BUF_LEN
         /\ left' = left - n /\ moved' = moved + n
  /\ pc' = "write"
  /\ UNCHANGED <<tx_out, nonblock, seen, patient>>
  /\ UNCHANGED <<rxRing, irq_enable, hostVars, isrVars, uart, chars>>

(* Mutant: interrupts are enabled only if there is no space left.          *)
WriteKickIfFull ==
  /\ Thread("writeKick")
  /\ irq_enable' = IF left > 0 THEN irq_enable \cup {"WE"} ELSE irq_enable
  /\ pc' = IF left > 0 /\ ~nonblock THEN "writeWait" ELSE "writeReturn"
  /\ BeginToWait
  /\ UNCHANGED <<left, moved, nonblock, seen>>
  /\ UNCHANGED <<rxRing, txRing, hostVars, isrVars, uart, chars>>

(* With interrupts disabled.                                               *)
WriteKick ==
  /\ Thread("writeKick")
  /\ irq_enable' = irq_enable \cup {"WE"}
  /\ pc' = IF left > 0 /\ ~nonblock THEN "writeWait" ELSE "writeReturn"
  /\ BeginToWait
  /\ UNCHANGED <<left, moved, nonblock, seen>>
  /\ UNCHANGED <<rxRing, txRing, hostVars, isrVars, uart, chars>>

WriteWait ==
  /\ Thread("writeWait")
  /\ tx_out # seen \/ ~Waiting
  /\ pc' = "writeCheck" /\ UNCHANGED <<left, moved, nonblock, seen, patient>>
  /\ UNCHANGED <<rxRing, txRing, irq_enable, hostVars, isrVars, uart, chars>>

WriteCheck ==
  /\ Thread("writeCheck")
  /\ pc' = IF tx_out = seen THEN "writeReturn" ELSE "write"
  /\ UNCHANGED <<left, moved, nonblock, seen, patient>>
  /\ UNCHANGED <<rxRing, txRing, irq_enable, hostVars, isrVars, uart, chars>>

(* The program goes on with the first character that was not accepted.     *)
WriteReturn ==
  /\ Thread("writeReturn") /\ Return
  /\ txNext' = IF Result > 0 THEN (txNext + Result) % TxNumbers ELSE txNext
  /\ UNCHANGED <<rxNext, txGot, rxGot>>
  /\ UNCHANGED <<rxRing, txRing, irq_enable, hostVars, isrVars, uart>>
-----------------------------------------------------------------------------
(* read                                                                    *)

(* Contiguous characters from rx_out on.                                   *)
ReadAvailable(in) == IF in >= rx_out THEN in - rx_out ELSE BUF_LEN - rx_out

(* Mutant: the interrupt is turned on only if all that was asked for came. *)
ReadSampleAll ==
  /\ Thread("read")
  /\ IF left = 0 THEN UNCHANGED seen ELSE seen' = rx_in
  /\ pc' = IF left > 0 /\ ReadAvailable(rx_in) > 0 THEN "readCopy"
           ELSE IF moved > 0 /\ left = 0 THEN "readKick"
           ELSE IF moved > 0 \/ left = 0 \/ nonblock THEN "readReturn"
           ELSE "readWait"
  /\ BeginToWait
  /\ UNCHANGED <<left, moved, nonblock>>
  /\ UNCHANGED <<rxRing, txRing, irq_enable, hostVars, isrVars, uart, chars>>

ReadSample ==
  /\ Thread("read")
  /\ IF left = 0 THEN UNCHANGED seen ELSE seen' = rx_in
  /\ pc' = IF left > 0 /\ ReadAvailable(rx_in) > 0 THEN "readCopy"
           ELSE IF moved > 0 THEN "readKick"
           ELSE IF left = 0 \/ nonblock THEN "readReturn"
           ELSE "readWait"
  /\ BeginToWait
  /\ UNCHANGED <<left, moved, nonblock>>
  /\ UNCHANGED <<rxRing, txRing, irq_enable, hostVars, isrVars, uart, chars>>

(* memcpy from the ring, then rx_out.                                      *)
ReadCopy ==
  /\ Thread("readCopy")
  /\ LET n == Least(ReadAvailable(seen), left)
     IN  /\ rxGot' = (rx_buf[rx_out + n - 1] + 1) % RxNumbers
         /\ rx_out' = (rx_out + n) % BUF_LEN
         /\ left' = left - n /\ moved' = moved + n
  /\ pc' = "read"
  /\ UNCHANGED <<rx_in, rx_buf, nonblock, seen, patient, txNext, rxNext,
                 txGot>>
  /\ UNCHANGED <<txRing, irq_enable, hostVars, isrVars, uart>>

ReadWait ==
  /\ Thread("readWait")
  /\ rx_in # seen \/ ~Waiting
  /\ pc' = "readCheck" /\ UNCHANGED <<left, moved, nonblock, seen, patient>>
  /\ UNCHANGED <<rxRing, txRing, irq_enable, hostVars, isrVars, uart, chars>>

ReadCheck ==
  /\ Thread("readCheck")
  /\ pc' = IF rx_in = seen THEN "readReturn" ELSE "read"
  /\ UNCHANGED <<left, moved, nonblock, seen, patient>>
  /\ UNCHANGED <<rxRing, txRing, irq_enable, hostVars, isrVars, uart, chars>>

(* With interrupts disabled.                                               *)
ReadKick ==
  /\ Thread("readKick")
  /\ irq_enable' = irq_enable \cup {"RE"}
  /\ pc' = "readReturn" /\ UNCHANGED <<left, moved, nonblock, seen, patient>>
  /\ UNCHANGED <<rxRing, txRing, hostVars, isrVars, uart, chars>>

ReadReturn ==
  /\ Thread("readReturn") /\ Return
  /\ UNCHANGED <<rxRing, txRing, irq_enable, hostVars, isrVars, uart, chars>>
-----------------------------------------------------------------------------
(* close and ioctl                                                         *)

CloseReturn ==
  /\ Thread("closing")
  /\ tx_out = tx_in \/ ~Waiting \/ nonblock
  /\ Return
  /\ UNCHANGED <<rxRing, txRing, irq_enable, hostVars, isrVars, uart, chars>>

(* ioctl(TIOCSTIMEOUT)                                                     *)
SetTimeout ==
  /\ Thread("idle") /\ timeout # INT_MAX
  /\ \E t \in Timeouts :
       timeout' = IF t >= 2 /\ t < INT_MAX THEN t ELSE INT_MAX - 1
  /\ UNCHANGED host_inactive
  /\ UNCHANGED <<rxRing, txRing, irq_enable, callVars, isrVars, uart, chars>>
-----------------------------------------------------------------------------
(* The interrupt routine.                                                  *)

EnterIsr ==
  /\ isr = "none" /\ (RI \/ WI)
  /\ isr' = "control" /\ UNCHANGED <<wi, space, ravail>>
  /\ UNCHANGED <<rxRing, txRing, irq_enable, hostVars, callVars, uart, chars>>

(* The control register is read; the routine returns when there is nothing *)
(* to do.  ravail starts as if there were characters.                      *)
IsrControl ==
  /\ isr = "control"
  /\ isr' = IF RI THEN "receive" ELSE IF WI THEN "transmit" ELSE "none"
  /\ wi' = WI /\ ravail' = RI
  /\ space' = IF WI THEN HwDepth - Len(txFifo) ELSE 0
  /\ UNCHANGED <<rxRing, txRing, irq_enable, hostVars, callVars, uart, chars>>

AfterReceive ==
  isr' = (IF wi THEN "transmit" ELSE "control") /\ UNCHANGED <<wi, space>>

(* No room in the ring: leave the characters where they are.               *)
IsrRingFull ==
  /\ isr = "receive" /\ Succ(rx_in) = rx_out
  /\ irq_enable' = IF ravail THEN irq_enable \ {"RE"} ELSE irq_enable
  /\ ravail' = FALSE /\ AfterReceive
  /\ UNCHANGED <<rxRing, txRing, hostVars, callVars, uart, chars>>

(* Mutant: whether there is room is not looked at.                         *)
IsrReceiveBlindly ==
  /\ isr = "receive"
  /\ pause' = FALSE
  /\ IF rxFifo = <<>>
     THEN ravail' = FALSE /\ AfterReceive /\ UNCHANGED <<rxFifo, rx_buf,
                                                         rx_in>>
     ELSE /\ rxFifo' = Tail(rxFifo) /\ ravail' = (Len(rxFifo) > 1)
          /\ rx_buf' = [rx_buf EXCEPT ![rx_in] = Head(rxFifo)]
          /\ rx_in' = Succ(rx_in)
          /\ UNCHANGED <<isr, wi, space>>
  /\ UNCHANGED <<rx_out, txFifo, ac, host>>
  /\ UNCHANGED <<txRing, irq_enable, hostVars, callVars, chars>>

(* The data register is read, which also clears pause.                     *)
IsrReceive ==
  /\ isr = "receive" /\ Succ(rx_in) # rx_out
  /\ pause' = FALSE
  /\ IF rxFifo = <<>>
     THEN ravail' = FALSE /\ AfterReceive /\ UNCHANGED <<rxFifo, rx_buf,
                                                         rx_in>>
     ELSE /\ rxFifo' = Tail(rxFifo) /\ ravail' = (Len(rxFifo) > 1)
          /\ rx_buf' = [rx_buf EXCEPT ![rx_in] = Head(rxFifo)]
          /\ rx_in' = Succ(rx_in)
          /\ UNCHANGED <<isr, wi, space>>
  /\ UNCHANGED <<rx_out, txFifo, ac, host>>
  /\ UNCHANGED <<txRing, irq_enable, hostVars, callVars, chars>>

(* A character is written to the data register.                            *)
IsrTransmit ==
  /\ isr = "transmit" /\ space > 0 /\ tx_out # tx_in
  /\ txFifo' = IF Len(txFifo) < HwDepth THEN Append(txFifo, tx_buf[tx_out])
               ELSE txFifo
  /\ tx_out' = Succ(tx_out) /\ space' = space - 1
  /\ UNCHANGED <<tx_in, tx_buf, isr, wi, ravail, rxFifo, pause, ac, host>>
  /\ UNCHANGED <<rxRing, irq_enable, hostVars, callVars, chars>>

(* Nothing more to transmit: no more interrupts for it.                    *)
IsrTransmitted ==
  /\ isr = "transmit" /\ (space = 0 \/ tx_out = tx_in)
  /\ irq_enable' = IF space > 0 THEN irq_enable \ {"WE"} ELSE irq_enable
  /\ isr' = "control" /\ wi' = FALSE /\ space' = 0 /\ UNCHANGED ravail
  /\ UNCHANGED <<rxRing, txRing, hostVars, callVars, uart, chars>>
-----------------------------------------------------------------------------
(* Mutant: the activity bit is not cleared.                                *)
AlarmNoClear ==
  /\ isr = "none" /\ timeout # INT_MAX
  /\ host_inactive' = IF ac THEN 0
                      ELSE IF host_inactive < INT_MAX - 2 THEN host_inactive + 1
                      ELSE host_inactive
  /\ UNCHANGED <<timeout, uart>>
  /\ UNCHANGED <<rxRing, txRing, irq_enable, callVars, isrVars, chars>>

(* altera_avalon_jtag_uart_timeout, called every second.                   *)
Alarm ==
  /\ isr = "none" /\ timeout # INT_MAX
  /\ host_inactive' = IF ac THEN 0
                      ELSE IF host_inactive < INT_MAX - 2 THEN host_inactive + 1
                      ELSE host_inactive
  /\ ac' = FALSE
  /\ UNCHANGED <<timeout, rxFifo, txFifo, pause, host>>
  /\ UNCHANGED <<rxRing, txRing, irq_enable, callVars, isrVars, chars>>
-----------------------------------------------------------------------------
(* The host takes a character, sends one, or finds nothing to send (which  *)
(* makes the UART ask for service of what it has sent before), or leaves.  *)

HostTake ==
  /\ host = "there" /\ txFifo # <<>>
  /\ txFifo' = Tail(txFifo) /\ txGot' = (Head(txFifo) + 1) % TxNumbers
  /\ UNCHANGED <<rxFifo, pause, ac, host, txNext, rxNext, rxGot>>
  /\ UNCHANGED <<rxRing, txRing, irq_enable, hostVars, callVars, isrVars>>

HostSend ==
  /\ host = "there" /\ Len(rxFifo) < HwDepth /\ Spaces # {}
  /\ rxFifo' = Append(rxFifo, rxNext) /\ rxNext' = (rxNext + 1) % RxNumbers
  /\ ac' = TRUE
  /\ UNCHANGED <<txFifo, pause, host, txNext, txGot, rxGot>>
  /\ UNCHANGED <<rxRing, txRing, irq_enable, hostVars, callVars, isrVars>>

HostPoll ==
  /\ host = "there"
  /\ ac' = TRUE /\ pause' = (pause \/ rxFifo # <<>>)
  /\ UNCHANGED <<rxFifo, txFifo, host>>
  /\ UNCHANGED <<rxRing, txRing, irq_enable, hostVars, callVars, isrVars,
                 chars>>

HostLeaves ==
  /\ host = "there" /\ host' = "gone"
  /\ UNCHANGED <<rxFifo, txFifo, pause, ac>>
  /\ UNCHANGED <<rxRing, txRing, irq_enable, hostVars, callVars, isrVars,
                 chars>>
-----------------------------------------------------------------------------
Write == WriteSample \/ WriteCopy \/ WriteKick \/ WriteWait \/ WriteCheck
           \/ WriteReturn
Read == ReadSample \/ ReadCopy \/ ReadWait \/ ReadCheck \/ ReadKick
          \/ ReadReturn

Program == \E nb \in BOOLEAN :
             \/ \E n \in Counts : Call("write", n, nb)
             \/ \E n \in Spaces : Call("read", n, nb)
             \/ Call("closing", 0, nb)

Isr == IsrControl \/ IsrRingFull \/ IsrReceive \/ IsrTransmit \/ IsrTransmitted
Host == HostTake \/ HostSend \/ HostPoll \/ HostLeaves

JtagNext == Program \/ SetTimeout \/ Write \/ Read \/ CloseReturn
              \/ EnterIsr \/ Isr \/ Alarm \/ Host

JtagSpec == JtagInit /\ [][JtagNext]_jtagVars

(* The thread and the interrupt routine run, the alarm comes every second; *)
(* a host that stays takes its characters and polls.  Nobody has to call   *)
(* the driver or to send anything.                                         *)
Fairness ==
  /\ WF_jtagVars(Write \/ Read \/ CloseReturn)
  /\ WF_jtagVars(EnterIsr \/ Isr)
  /\ WF_jtagVars(Alarm)
  /\ WF_jtagVars(HostTake) /\ WF_jtagVars(HostPoll)

JtagLiveSpec == JtagSpec /\ Fairness
-----------------------------------------------------------------------------
Writing == {"write", "writeCopy", "writeKick", "writeWait", "writeCheck",
            "writeReturn"}
Reading == {"read", "readCopy", "readWait", "readCheck", "readKick",
            "readReturn"}

RxRingOK == /\ rx_in \in Slots /\ rx_out \in Slots
            /\ rx_buf \in [Slots -> 0 .. RxNumbers - 1]
TxRingOK == /\ tx_in \in Slots /\ tx_out \in Slots
            /\ tx_buf \in [Slots -> 0 .. TxNumbers - 1]
HostOK == timeout \in 1 .. INT_MAX /\ host_inactive \in 0 .. INT_MAX - 2
CallOK == /\ pc \in {"idle", "closing"} \cup Writing \cup Reading
          /\ left \in Nat /\ moved \in Nat /\ nonblock \in BOOLEAN
          /\ seen \in Slots /\ patient \in BOOLEAN
IsrOK == /\ isr \in {"none", "control", "receive", "transmit"}
         /\ wi \in BOOLEAN /\ space \in 0 .. HwDepth /\ ravail \in BOOLEAN
UartOK == /\ rxFifo \in Seq(0 .. RxNumbers - 1) /\ Len(rxFifo) <= HwDepth
          /\ txFifo \in Seq(0 .. TxNumbers - 1) /\ Len(txFifo) <= HwDepth
          /\ pause \in BOOLEAN /\ ac \in BOOLEAN /\ host \in {"there", "gone"}
CharsOK == /\ txNext \in 0 .. TxNumbers - 1 /\ txGot \in 0 .. TxNumbers - 1
           /\ rxNext \in 0 .. RxNumbers - 1 /\ rxGot \in 0 .. RxNumbers - 1

(* Types, and what the rings' indices, counters and FIFOs stay within.     *)
JtagTypeOK == /\ RxRingOK /\ TxRingOK /\ irq_enable \subseteq {"RE", "WE"}
              /\ HostOK /\ CallOK /\ IsrOK /\ UartOK /\ CharsOK

(* Characters in the transmit ring are never left there with the transmit  *)
(* interrupt off (it is turned off by the interrupt routine when the ring  *)
(* is empty, and write() may be filling it): somebody will send them.      *)
TxWakeup ==
  tx_in # tx_out => "WE" \in irq_enable \/ pc \in {"write", "writeCopy", "writeKick"}

(* The receive interrupt is off only while the receive ring holds          *)
(* characters, or while read() is about to turn it on: a reader that finds *)
(* the ring empty can wait for it.                                         *)
RxWakeup ==
  "RE" \notin irq_enable =>
    rx_in # rx_out \/ (pc \in {"read", "readKick"} /\ moved > 0)

(* The interrupt routine ends, however fast the host sends and takes.      *)
IsrReturns == isr # "none" ~> isr = "none"

(* A timeout that can expire: not "don't know", not "never".               *)
Expires == timeout < INT_MAX - 1

(* A call that waits for a host that has left returns, and so does a write *)
(* that waits for a host that takes its characters.                        *)
WaitsEnd ==
  /\ pc \in {"readWait", "writeWait", "closing"} /\ host = "gone" /\ Expires
       ~> pc = "idle"
  /\ pc \in {"writeWait", "closing"} /\ host = "there"
       ~> pc = "idle" \/ host = "gone"

(* A read that waits sees a character the host has sent, if the host stays.*)
ReadSeesCharacters ==
  pc = "readWait" /\ rxFifo # <<>> ~> pc # "readWait" \/ host = "gone"

(* close() says it waits for the data to be sent 'or for a                 *)
(* host-inactivity timeout, in which case transmit data will be lost'.     *)
CloseEnds == pc = "closing" /\ host = "gone" /\ Expires ~> pc # "closing"

(* write() says of EIO 'Host not connected'.                               *)
EioMeansNotConnected ==
  [][pc = "writeReturn" /\ pc' = "idle" /\ Result = EIO => ~Active]_jtagVars
=============================================================================
