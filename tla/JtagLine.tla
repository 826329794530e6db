------------------------------ MODULE JtagLine ------------------------------
(***************************************************************************)
(* The driver and the UART implement a ByteChannel in each direction: a    *)
(* ring and a FIFO behind each other, filled and emptied by the thread,    *)
(* the interrupt routine and the host at any time.  use says what the      *)
(* program does in a behaviour: it writes and closes for ever, it reads    *)
(* for ever, or both, a few characters only.                               *)
(***************************************************************************)
EXTENDS JtagUart

CONSTANT Few    \* where use is "both": characters each side may begin to send

VARIABLE use

lineVars == <<use, jtagVars>>

LineCapacity == BUF_LEN - 1 + HwDepth

(* What is on its way in each direction, and what write() has taken.       *)
TxLine == txFifo \o Between(tx_buf, tx_out, tx_in)
TxSent == IF pc \in Writing THEN (txNext + moved) % TxNumbers ELSE txNext
RxLine == Between(rx_buf, rx_out, rx_in) \o rxFifo

ToHost == INSTANCE ByteChannel
            WITH Numbers <- TxNumbers, Capacity <- LineCapacity,
                 line <- TxLine, sent <- TxSent, got <- txGot

FromHost == INSTANCE ByteChannel
              WITH Numbers <- RxNumbers, Capacity <- LineCapacity,
                   line <- RxLine, sent <- rxNext, got <- rxGot

LineInit == use \in {"write", "read", "both"} /\ JtagInit

ProgramWrites == \E nb \in BOOLEAN : \/ \E n \in Counts : Call("write", n, nb)
                                     \/ Call("closing", 0, nb)
ProgramReads == \E nb \in BOOLEAN, n \in Spaces : Call("read", n, nb)

MayWrite == use = "write" \/ (use = "both" /\ txNext < Few)
MaySend == use = "read" \/ (use = "both" /\ rxNext < Few)

LineNext ==
  /\ UNCHANGED use
  /\ \/ MayWrite /\ ProgramWrites
     \/ use # "write" /\ ProgramReads
     \/ MaySend /\ HostSend
     \/ use = "both" /\ SetTimeout
     \/ Write \/ Read \/ CloseReturn
     \/ EnterIsr \/ Isr \/ Alarm \/ HostTake \/ HostPoll \/ HostLeaves

LineSpec == LineInit /\ [][LineNext]_lineVars /\ Fairness

(* What write() says it has accepted reaches the host once, in order.      *)
TxDelivered == ToHost!ChannelSafety

(* What the host sends, read() returns once, in order.                     *)
RxDelivered == FromHost!ChannelSafety

(* What write() has accepted does reach a host that stays.                 *)
TxArrives == <>(host = "gone") \/ ToHost!Arrival

(* Every call that may wait and every interrupt ends, a reader that waits  *)
(* sees what the host sends, and the host gets what write() has accepted.  *)
CallsReturn == IsrReturns /\ WaitsEnd /\ ReadSeesCharacters /\ TxArrives
=============================================================================
