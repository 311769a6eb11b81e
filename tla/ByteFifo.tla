------------------------------ MODULE ByteFifo ------------------------------
(***************************************************************************)
(* What a serial byte buffer promises its two sides: a bounded first-in    *)
(* first-out queue.  serial.c implements it twice, as a ring with a head   *)
(* and a tail index: filled by the receive interrupt and drained by the    *)
(* main program (SerialRx), filled by the main program and drained by the  *)
(* transmit interrupt (SerialTx).                                          *)
(***************************************************************************)
EXTENDS Naturals, Sequences

CONSTANTS Byte,      \* the bytes that travel through the queue
          NoByte,    \* what a consumer holds when it has received nothing
          Capacity   \* how many bytes the queue holds

VARIABLES queue,     \* the bytes accepted and not yet delivered, oldest first
          delivered  \* the byte most recently handed to the consumer

fifoVars == <<queue, delivered>>

Init == queue = << >> /\ delivered = NoByte

(* The producer's byte is accepted only while there is room.               *)
Put(b) ==
  /\ Len(queue) < Capacity
  /\ queue' = Append(queue, b)
  /\ UNCHANGED delivered

Get ==
  /\ queue # << >>
  /\ delivered' = Head(queue)
  /\ queue' = Tail(queue)

(* The queue itself: what is accepted is delivered once, in order.         *)
Next == (\E b \in Byte : Put(b)) \/ Get

Spec == Init /\ [][Next]_fifoVars

-----------------------------------------------------------------------------
(* A queue whose consumer polls it and may empty it, as the main program   *)
(* does with the receive ring; nobody does so with the transmit ring.      *)

(* The consumer looks and finds nothing.                                   *)
GetNothing ==
  /\ queue = << >>
  /\ delivered' = NoByte
  /\ UNCHANGED queue

(* The consumer drops what was received before it asked for the flush: the *)
(* bytes that are still kept are the newest ones.                          *)
Flush ==
  /\ \E n \in 0 .. Len(queue) : queue' = SubSeq(queue, n + 1, Len(queue))
  /\ UNCHANGED delivered

PolledNext == Next \/ GetNothing \/ Flush

PolledSpec == Init /\ [][PolledNext]_fifoVars
=============================================================================
