---------------------------- MODULE ByteChannel -----------------------------
(***************************************************************************)
(* What a serial line promises, in one direction: characters arrive in the *)
(* order in which they were sent, none is lost, repeated or invented, and  *)
(* no more than Capacity are on their way.  The characters are numbered:   *)
(* the sender sends 0, 1, 2, ... modulo Numbers, so that a wrong one shows *)
(* unless one step loses or repeats a multiple of Numbers of them.         *)
(***************************************************************************)
EXTENDS Naturals, Sequences

CONSTANTS Numbers,     \* characters are 0 .. Numbers - 1
          Capacity     \* the most characters on their way

VARIABLES line,        \* the characters on their way, the oldest first
          sent,        \* the number of the next character to be sent
          got          \* the number after that of the last one received

channelVars == <<line, sent, got>>

ChannelInit == line = <<>> /\ sent = 0 /\ got = 0

(* A sender hands over k characters at once.                               *)
Put(k) ==
  /\ Len(line) + k <= Capacity
  /\ line' = line \o [j \in 1 .. k |-> (sent + j - 1) % Numbers]
  /\ sent' = (sent + k) % Numbers
  /\ UNCHANGED got

(* A receiver takes the k oldest characters at once.                       *)
Take(k) ==
  /\ k <= Len(line)
  /\ line' = SubSeq(line, k + 1, Len(line))
  /\ got' = (line[k] + 1) % Numbers
  /\ UNCHANGED sent

Receive == \E k \in 1 .. Capacity : Take(k)

ChannelNext == Receive \/ \E k \in 1 .. Capacity : Put(k)

ChannelSafety == ChannelInit /\ [][ChannelNext]_channelVars

(* What has been sent arrives in the end.                                  *)
Arrival == WF_channelVars(Receive)

ChannelSpec == ChannelSafety /\ Arrival
=============================================================================
