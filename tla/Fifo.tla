-------------------------------- MODULE Fifo --------------------------------
(***************************************************************************)
(* The synchronous FIFO of ip/fifo_32.v: one Altera scfifo, used three     *)
(* times by the notch filter.  A FIFO is the sequence of the words it      *)
(* stores, the oldest first.  Its ports are sampled at the clock edge, so  *)
(* each operator below maps the contents before the edge to what the edge  *)
(* makes of them.  A port that may or may not carry a word (data together  *)
(* with wrreq, q after rdreq) is a sequence of length 0 or 1.              *)
(***************************************************************************)
EXTENDS Naturals, Sequences

CONSTANTS FIFO_DEPTH,     \* lpm_numwords: 32 words in the repository
          ALMOST_FULL     \* almost_full_value: 30 in the repository

ASSUME FifoAssumption ==
  /\ FIFO_DEPTH \in Nat
  /\ ALMOST_FULL \in Nat \ {0}
  /\ ALMOST_FULL + 2 <= FIFO_DEPTH

(* The number of stored words, and from it the flags almost_full and full  *)
(* and the port usedw, which has five bits for 32 words: full, it reads 0. *)
Used(q) == Len(q)
AlmostFull(used) == used >= ALMOST_FULL
Full(used) == used = FIFO_DEPTH
Usedw(used) == IF Full(used) THEN 0 ELSE used

(* underflow_checking is ON: a read request to an empty FIFO does nothing. *)
AfterRead(q, rdreq) == IF rdreq /\ q # <<>> THEN Tail(q) ELSE q

(* overflow_checking is ON: a write request to a full FIFO loses the word. *)
AfterEdge(q, data, rdreq, sclr) ==
  IF sclr THEN <<>>
  ELSE AfterRead(q, rdreq) \o (IF Full(Used(q)) THEN <<>> ELSE data)

(* lpm_showahead is OFF: q shows the word read at the edge, afterwards.    *)
Output(q, rdreq) == IF rdreq /\ q # <<>> THEN <<Head(q)>> ELSE <<>>

(* The same FIFO when only its flags are used: the number of words.        *)
CountAfterEdge(used, wrreq, rdreq, sclr) ==
  IF sclr THEN 0
  ELSE used + (IF wrreq /\ ~Full(used) THEN 1 ELSE 0)
            - (IF rdreq /\ used > 0 THEN 1 ELSE 0)
=============================================================================
