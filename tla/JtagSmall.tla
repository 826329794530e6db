----------------------------- MODULE JtagSmall ------------------------------
(***************************************************************************)
(* The small driver of the JTAG UART, which waits for each character       *)
(* itself, called by one thread, with the UART's two FIFOs and the host.   *)
(* It implements a ByteChannel in each direction.                          *)
(***************************************************************************)
EXTENDS Naturals, Sequences

CONSTANTS
  HwDepth,              \* of the UART's FIFOs
  Counts, Spaces,       \* lengths of the buffers write() and read() are given
  MaxSpace,             \* the longest of the latter
  TxNumbers, RxNumbers  \* characters to and from the host, see ByteChannel

ASSUME SmallAssumption ==
  /\ {HwDepth, TxNumbers, RxNumbers} \subseteq Nat \ {0}
  /\ Counts \subseteq Nat /\ MaxSpace \in Nat /\ Spaces \subseteq 0 .. MaxSpace

VARIABLES
  txFifo, rxFifo,
  call, todo, nonblock, \* the thread's, and what is left of its buffer
  filled,               \* what read() has put into the buffer
  reply,                \* of read(): the characters that it returns, or an error
  txNext, rxNext,       \* the next character the program, the host will send
  txGot, rxGot          \* the one after the last one the other has received

callVars == <<call, todo, nonblock, filled, reply>>
txVars == <<txFifo, txNext, txGot>>
rxVars == <<rxFifo, rxNext, rxGot>>
smallVars == <<callVars, txVars, rxVars>>

SmallInit ==
  /\ txFifo = << >> /\ rxFifo = << >>
  /\ call = "idle" /\ todo = 0 /\ nonblock = FALSE /\ filled = << >> /\ reply = "none"
  /\ txNext = 0 /\ rxNext = 0 /\ txGot = 0 /\ rxGot = 0

Call(name, k, flag) ==
  /\ call = "idle" /\ call' = name /\ todo' = k /\ nonblock' = flag
  /\ filled' = << >> /\ reply' = "none" /\ UNCHANGED <<txVars, rxVars>>

(* Mutant: it writes without a look at the space.                          *)
FindSpaceBlindly ==
  /\ call = "write" /\ todo > 0
  /\ call' = "put" /\ UNCHANGED <<todo, nonblock, filled, reply, txVars,
                                rxVars>>

(* write(): the control register until it shows space, then the data.      *)
FindSpace ==
  /\ call = "write" /\ todo > 0 /\ Len(txFifo) < HwDepth
  /\ call' = "put" /\ UNCHANGED <<todo, nonblock, filled, reply, txVars,
                                rxVars>>

PutCharacter ==
  /\ call = "put" /\ call' = "write" /\ todo' = todo - 1
  /\ txFifo' = IF Len(txFifo) < HwDepth THEN Append(txFifo, txNext) ELSE txFifo
  /\ txNext' = (txNext + 1) % TxNumbers
  /\ UNCHANGED <<nonblock, filled, reply, txGot, rxVars>>

WriteReturns ==
  /\ call = "write" /\ todo = 0 /\ call' = "idle"
  /\ UNCHANGED <<todo, nonblock, filled, reply, txVars, rxVars>>

(* read(): the data register; reading it takes the character.              *)
TakeCharacter ==
  /\ call = "read" /\ todo > 0 /\ rxFifo # << >>
  /\ filled' = Append(filled, Head(rxFifo)) /\ rxFifo' = Tail(rxFifo)
  /\ todo' = todo - 1
  /\ UNCHANGED <<call, nonblock, reply, txVars, rxNext, rxGot>>

FindNoCharacter ==
  /\ call = "read" /\ todo > 0 /\ rxFifo = << >> /\ (filled # << >> \/ nonblock)
  /\ todo' = 0 /\ UNCHANGED <<call, nonblock, filled, reply, txVars, rxVars>>

ReadReturns ==
  /\ call = "read" /\ todo = 0 /\ call' = "idle"
  /\ IF filled # << >>
     THEN reply' = "count" /\ rxGot' = (filled[Len(filled)] + 1) % RxNumbers
     ELSE reply' = (IF nonblock THEN "EWOULDBLOCK" ELSE "EIO") /\ UNCHANGED rxGot
  /\ filled' = << >> /\ UNCHANGED <<todo, nonblock, txVars, rxFifo, rxNext>>

(* The host.                                                               *)
HostTake ==
  /\ txFifo # << >> /\ txFifo' = Tail(txFifo) /\ txGot' = (Head(txFifo) + 1) % TxNumbers
  /\ UNCHANGED <<callVars, txNext, rxVars>>

HostSend ==
  /\ Len(rxFifo) < HwDepth
  /\ rxFifo' = Append(rxFifo, rxNext) /\ rxNext' = (rxNext + 1) % RxNumbers
  /\ UNCHANGED <<callVars, txVars, rxGot>>

Writes == FindSpace \/ PutCharacter \/ WriteReturns
Reads == TakeCharacter \/ FindNoCharacter \/ ReadReturns

SmallNext ==
  \/ \E k \in Counts, flag \in BOOLEAN : Call("write", k, flag)
  \/ \E k \in Spaces, flag \in BOOLEAN : Call("read", k, flag)
  \/ Writes \/ Reads \/ HostTake \/ HostSend

(* The driver runs, and the host takes what comes; it need not send.       *)
SmallSpec ==
  /\ SmallInit /\ [][SmallNext]_smallVars
  /\ WF_smallVars(Writes) /\ WF_smallVars(Reads) /\ WF_smallVars(HostTake)
-----------------------------------------------------------------------------
ToHost == INSTANCE ByteChannel
            WITH Numbers <- TxNumbers, Capacity <- HwDepth,
                 line <- txFifo, sent <- txNext, got <- txGot

FromHost == INSTANCE ByteChannel
              WITH Numbers <- RxNumbers, Capacity <- HwDepth + MaxSpace,
                   line <- filled \o rxFifo, sent <- rxNext, got <- rxGot

(* What write() is given reaches the host, once and in order: it blocks    *)
(* when there is no space to write into. What the host sends, read()       *)
(* returns once and in order.                                              *)
PolledLine == ToHost!ChannelSafety /\ FromHost!ChannelSafety

(* What write() has put into the UART does reach the host.                 *)
PolledArrives == ToHost!Arrival

(* Every call ends but a blocking read() that no character comes for: it   *)
(* returns what is immediately available without waiting any more.         *)
PolledEnds == call # "idle" ~> (call = "idle" \/ (call = "read" /\ ~nonblock /\ filled = << >>))
=============================================================================
