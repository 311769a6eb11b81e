------------------------------ MODULE SerialRx ------------------------------
(***************************************************************************)
(* The receive ring of serial.c.  ISR(SERIAL_RX) appends the bytes that    *)
(* are not realtime commands; the main program takes them with             *)
(* serial_read and empties the ring with serial_reset_read_buffer.  The    *)
(* interrupt is one step; the main program may be interrupted between any  *)
(* two of its accesses to the shared indices, so each access is a step.    *)
(***************************************************************************)
EXTENDS Naturals, Sequences

CONSTANTS RX_RING_BUFFER,   \* slots of the ring, RX_BUFFER_SIZE + 1
          Byte,             \* bytes of g-code and $-lines (0x00 .. 0x7F)
          SERIAL_NO_DATA    \* what serial_read returns when the ring is empty

ASSUME RingAssumption == RX_RING_BUFFER \in 2 .. 255   \* indices are uint8_t
ASSUME NoDataAssumption == SERIAL_NO_DATA \notin Byte  \* 0xff is above 0x7F

VARIABLES serial_rx_buffer,       \* slot -> byte
          serial_rx_buffer_head,  \* next slot the interrupt fills
          serial_rx_buffer_tail,  \* next slot the main program reads
          rxPc,                     \* where the main program is
          tail, data,             \* locals of serial_read, cleared when dead
          result                  \* what the last serial_read returned

rxVars == <<serial_rx_buffer, serial_rx_buffer_head, serial_rx_buffer_tail,
          rxPc, tail, data, result>>

RX_BUFFER_SIZE == RX_RING_BUFFER - 1
RxSlot == 0 .. RX_RING_BUFFER - 1
Value == Byte \cup {SERIAL_NO_DATA}
RxSuccLate(i) == IF i = RX_RING_BUFFER THEN 0 ELSE i + 1   \* mutant
RxSucc(i) == IF i + 1 = RX_RING_BUFFER THEN 0 ELSE i + 1

RxInit ==
  /\ serial_rx_buffer = [i \in RxSlot |-> SERIAL_NO_DATA]
  /\ serial_rx_buffer_head = 0
  /\ serial_rx_buffer_tail = 0
  /\ rxPc = "idle"
  /\ tail = 0
  /\ data = SERIAL_NO_DATA
  /\ result = SERIAL_NO_DATA

-----------------------------------------------------------------------------
ReceiveUnchecked(b) ==         \* mutant: overwrites when the ring is full
  /\ serial_rx_buffer' = [serial_rx_buffer EXCEPT ![serial_rx_buffer_head] = b]
  /\ serial_rx_buffer_head' = RxSucc(serial_rx_buffer_head)
  /\ UNCHANGED <<serial_rx_buffer_tail, rxPc, tail, data, result>>

(* ISR(SERIAL_RX) on a byte for the buffer: dropped when the ring is full. *)
Receive(b) ==
  /\ RxSucc(serial_rx_buffer_head) # serial_rx_buffer_tail
  /\ serial_rx_buffer' = [serial_rx_buffer EXCEPT ![serial_rx_buffer_head] = b]
  /\ serial_rx_buffer_head' = RxSucc(serial_rx_buffer_head)
  /\ UNCHANGED <<serial_rx_buffer_tail, rxPc, tail, data, result>>

(* serial_read, access by access.                                          *)
ReadTail ==
  /\ rxPc = "idle"
  /\ tail' = serial_rx_buffer_tail
  /\ rxPc' = "compare"
  /\ UNCHANGED <<serial_rx_buffer, serial_rx_buffer_head,
                 serial_rx_buffer_tail, data, result>>

ReadEmpty ==
  /\ rxPc = "compare"
  /\ serial_rx_buffer_head = tail
  /\ result' = SERIAL_NO_DATA
  /\ rxPc' = "idle"
  /\ tail' = 0
  /\ UNCHANGED <<serial_rx_buffer, serial_rx_buffer_head,
                 serial_rx_buffer_tail, data>>

ReadSlot ==
  /\ rxPc = "compare"
  /\ serial_rx_buffer_head # tail
  /\ data' = serial_rx_buffer[tail]
  /\ rxPc' = "advance"
  /\ UNCHANGED <<serial_rx_buffer, serial_rx_buffer_head,
                 serial_rx_buffer_tail, tail, result>>

ReadAdvance ==
  /\ rxPc = "advance"
  /\ serial_rx_buffer_tail' = RxSucc(tail)
  /\ result' = data
  /\ rxPc' = "idle"
  /\ tail' = 0
  /\ data' = SERIAL_NO_DATA
  /\ UNCHANGED <<serial_rx_buffer, serial_rx_buffer_head>>

(* serial_reset_read_buffer: the head is loaded, then stored in the tail;  *)
(* bytes received between the two stay in the ring.                        *)
ResetLoad ==
  /\ rxPc = "idle"
  /\ tail' = serial_rx_buffer_head
  /\ rxPc' = "reset"
  /\ UNCHANGED <<serial_rx_buffer, serial_rx_buffer_head,
                 serial_rx_buffer_tail, data, result>>

ResetStore ==
  /\ rxPc = "reset"
  /\ serial_rx_buffer_tail' = tail
  /\ rxPc' = "idle"
  /\ tail' = 0
  /\ UNCHANGED <<serial_rx_buffer, serial_rx_buffer_head, data, result>>

serial_read == ReadTail \/ ReadEmpty \/ ReadSlot \/ ReadAdvance
serial_reset_read_buffer == ResetLoad \/ ResetStore

RxNext ==
  \/ \E b \in Byte : Receive(b)
  \/ serial_read
  \/ serial_reset_read_buffer

RxSpec == RxInit /\ [][RxNext]_rxVars

-----------------------------------------------------------------------------
(* The free space that a status report gives as its Bf: field.             *)
serial_get_rx_buffer_available ==
  IF serial_rx_buffer_head >= serial_rx_buffer_tail
  THEN RX_BUFFER_SIZE - (serial_rx_buffer_head - serial_rx_buffer_tail)
  ELSE serial_rx_buffer_tail - serial_rx_buffer_head - 1

(* The bytes in the ring, oldest first.                                    *)
RxUsed ==
  IF serial_rx_buffer_head >= serial_rx_buffer_tail
  THEN serial_rx_buffer_head - serial_rx_buffer_tail
  ELSE serial_rx_buffer_head + RX_RING_BUFFER - serial_rx_buffer_tail

RxNth(i) ==    \* slot of the i-th oldest byte
  IF serial_rx_buffer_tail + i - 1 < RX_RING_BUFFER
  THEN serial_rx_buffer_tail + i - 1
  ELSE serial_rx_buffer_tail + i - 1 - RX_RING_BUFFER

RxContents == [i \in 1 .. RxUsed |-> serial_rx_buffer[RxNth(i)]]

-----------------------------------------------------------------------------
RxTypeOK ==
  /\ serial_rx_buffer \in [RxSlot -> Value]
  /\ serial_rx_buffer_head \in RxSlot
  /\ serial_rx_buffer_tail \in RxSlot
  /\ rxPc \in {"idle", "compare", "advance", "reset"}
  /\ tail \in RxSlot
  /\ data \in Value
  /\ result \in Value

(* While serial_read holds a byte it has copied but not yet released, the  *)
(* interrupt neither overwrites the slot nor makes the ring look empty:    *)
(* what is returned is the oldest byte, once.                              *)
ReadIsStable ==
  rxPc = "advance" => /\ tail = serial_rx_buffer_tail
                    /\ serial_rx_buffer_head # tail
                    /\ data = serial_rx_buffer[tail]

(* The Bf: field of a status report and the free space a streaming host    *)
(* counts on: available and used space always add up to the buffer size,   *)
(* wherever the indices have wrapped to.                                   *)
AvailableIsExact == serial_get_rx_buffer_available = RX_BUFFER_SIZE - RxUsed

(* The ring is a FIFO of RX_BUFFER_SIZE bytes that the main program polls  *)
(* and may flush.                                                          *)
RxFifo == INSTANCE ByteFifo WITH NoByte <- SERIAL_NO_DATA,
          Capacity <- RX_BUFFER_SIZE, queue <- RxContents, delivered <- result
RxIsFifo == RxFifo!PolledSpec
=============================================================================
