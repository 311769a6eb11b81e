------------------------------ MODULE SerialTx ------------------------------
(***************************************************************************)
(* The transmit ring of serial.c.  serial_write, called by the main        *)
(* program, appends a byte and enables the data-register-empty interrupt;  *)
(* ISR(SERIAL_UDRE) sends the oldest byte and disables itself when the     *)
(* ring is empty.  It does not check for an empty ring on entry: an        *)
(* interrupt taken with nothing to send would transmit the whole ring of   *)
(* stale bytes.  Whether that can happen is a matter of timing, so the     *)
(* transmitter (data register and shift register) is modelled too.         *)
(***************************************************************************)
EXTENDS Naturals, Sequences

CONSTANTS TX_RING_BUFFER,   \* slots of the ring, TX_BUFFER_SIZE + 1
          TxByte,           \* bytes the program prints
          NoTxByte          \* nothing sent yet

ASSUME TxRingAssumption == TX_RING_BUFFER \in 2 .. 255  \* indices are uint8_t
ASSUME NoTxByteAssumption == NoTxByte \notin TxByte

VARIABLES serial_tx_buffer,       \* slot -> byte
          serial_tx_buffer_head,  \* next slot the main program fills
          serial_tx_buffer_tail,  \* next slot the interrupt sends
          UDRIE0,                 \* transmit interrupt enabled
          txPc,                   \* where the main program is in serial_write
          txData,                 \* the byte it is writing
          inFlight,               \* bytes in the transmitter: UDR0, shift register
          byteTime,               \* a byte was sent between head store and enable
          UDR0,                   \* the byte last sent
          EXEC_RESET              \* a reset was received and is not yet executed

txVars == <<serial_tx_buffer, serial_tx_buffer_head, serial_tx_buffer_tail,
            UDRIE0, txPc, txData, inFlight, byteTime, UDR0, EXEC_RESET>>

TX_BUFFER_SIZE == TX_RING_BUFFER - 1
TxSlot == 0 .. TX_RING_BUFFER - 1
TxValue == TxByte \cup {NoTxByte}
TxSucc(i) == IF i + 1 = TX_RING_BUFFER THEN 0 ELSE i + 1

TxInit ==
  /\ serial_tx_buffer = [i \in TxSlot |-> NoTxByte]
  /\ serial_tx_buffer_head = 0
  /\ serial_tx_buffer_tail = 0
  /\ UDRIE0 = FALSE
  /\ txPc = "idle"
  /\ txData = NoTxByte
  /\ inFlight = 0
  /\ byteTime = FALSE
  /\ UDR0 = NoTxByte
  /\ EXEC_RESET = FALSE

(* The interrupt is pending while it is enabled and UDR0 is free; the      *)
(* processor takes it before the main program's next access.               *)
TxPending == UDRIE0 /\ inFlight < 2

-----------------------------------------------------------------------------
(* serial_write: entry, the wait for a free slot with its way out, the     *)
(* store that advances the head, and the interrupt enable.                 *)
WriteCall(b) ==
  /\ txPc = "idle"
  /\ ~TxPending
  /\ txData' = b
  /\ txPc' = "wait"
  /\ UNCHANGED <<serial_tx_buffer, serial_tx_buffer_head,
                 serial_tx_buffer_tail, UDRIE0, inFlight, byteTime, UDR0,
                 EXEC_RESET>>

WriteAbandon ==
  /\ txPc = "wait"
  /\ ~TxPending
  /\ TxSucc(serial_tx_buffer_head) = serial_tx_buffer_tail
  /\ EXEC_RESET
  /\ txPc' = "idle"
  /\ txData' = NoTxByte
  /\ UNCHANGED <<serial_tx_buffer, serial_tx_buffer_head,
                 serial_tx_buffer_tail, UDRIE0, inFlight, byteTime, UDR0,
                 EXEC_RESET>>

WriteStoreUnchecked ==         \* mutant: does not wait for a free slot
  /\ txPc = "wait"
  /\ ~TxPending
  /\ serial_tx_buffer' =
       [serial_tx_buffer EXCEPT ![serial_tx_buffer_head] = txData]
  /\ serial_tx_buffer_head' = TxSucc(serial_tx_buffer_head)
  /\ txData' = NoTxByte
  /\ txPc' = "enable"
  /\ UNCHANGED <<serial_tx_buffer_tail, UDRIE0, inFlight, byteTime, UDR0,
                 EXEC_RESET>>

WriteStore ==
  /\ txPc = "wait"
  /\ ~TxPending
  /\ TxSucc(serial_tx_buffer_head) # serial_tx_buffer_tail
  /\ serial_tx_buffer' =
       [serial_tx_buffer EXCEPT ![serial_tx_buffer_head] = txData]
  /\ serial_tx_buffer_head' = TxSucc(serial_tx_buffer_head)
  /\ txData' = NoTxByte
  /\ txPc' = "enable"
  /\ UNCHANGED <<serial_tx_buffer_tail, UDRIE0, inFlight, byteTime, UDR0,
                 EXEC_RESET>>

WriteEnableMissing ==          \* mutant: leaves the interrupt as it is
  /\ txPc = "enable"
  /\ ~TxPending
  /\ txPc' = "idle"
  /\ byteTime' = FALSE
  /\ UNCHANGED <<serial_tx_buffer, serial_tx_buffer_head, UDRIE0,
                 serial_tx_buffer_tail, txData, inFlight, UDR0, EXEC_RESET>>

WriteEnable ==
  /\ txPc = "enable"
  /\ ~TxPending
  /\ UDRIE0' = TRUE
  /\ txPc' = "idle"
  /\ byteTime' = FALSE
  /\ UNCHANGED <<serial_tx_buffer, serial_tx_buffer_head,
                 serial_tx_buffer_tail, txData, inFlight, UDR0, EXEC_RESET>>

TransmitRepeats ==             \* mutant: disabled a byte too late
  /\ TxPending
  /\ UDR0' = serial_tx_buffer[serial_tx_buffer_tail]
  /\ serial_tx_buffer_tail' = TxSucc(serial_tx_buffer_tail)
  /\ UDRIE0' = (serial_tx_buffer_tail # serial_tx_buffer_head)
  /\ inFlight' = inFlight + 1
  /\ UNCHANGED <<serial_tx_buffer, serial_tx_buffer_head, txPc, txData,
                 byteTime, EXEC_RESET>>

TransmitOnce ==                \* mutant: disabled after every byte
  /\ TxPending
  /\ UDR0' = serial_tx_buffer[serial_tx_buffer_tail]
  /\ serial_tx_buffer_tail' = TxSucc(serial_tx_buffer_tail)
  /\ UDRIE0' = FALSE
  /\ inFlight' = inFlight + 1
  /\ UNCHANGED <<serial_tx_buffer, serial_tx_buffer_head, txPc, txData,
                 byteTime, EXEC_RESET>>

(* ISR(SERIAL_UDRE).                                                       *)
Transmit ==
  /\ TxPending
  /\ UDR0' = serial_tx_buffer[serial_tx_buffer_tail]
  /\ serial_tx_buffer_tail' = TxSucc(serial_tx_buffer_tail)
  /\ UDRIE0' = (TxSucc(serial_tx_buffer_tail) # serial_tx_buffer_head)
  /\ inFlight' = inFlight + 1
  /\ UNCHANGED <<serial_tx_buffer, serial_tx_buffer_head, txPc, txData,
                 byteTime, EXEC_RESET>>

(* The transmitter finishes a byte.  Timing assumption: the few            *)
(* instructions between the head store and the interrupt enable take less  *)
(* than two byte times (2 x 87 us at 115200 baud).                         *)
ByteSent ==
  /\ inFlight > 0
  /\ ~byteTime
  /\ inFlight' = inFlight - 1
  /\ byteTime' = (txPc = "enable")
  /\ UNCHANGED <<serial_tx_buffer, serial_tx_buffer_head,
                 serial_tx_buffer_tail, UDRIE0, txPc, txData, UDR0, EXEC_RESET>>

(* mc_reset in the receive interrupt raises the flag; main clears it when  *)
(* it initialises again.  The rings and UDRIE0 are left as they are.       *)
ResetReceived ==
  /\ EXEC_RESET' = TRUE
  /\ UNCHANGED <<serial_tx_buffer, serial_tx_buffer_head,
                 serial_tx_buffer_tail, UDRIE0, txPc, txData, inFlight,
                 byteTime, UDR0>>

ResetExecuted ==
  /\ txPc = "idle"
  /\ ~TxPending
  /\ EXEC_RESET
  /\ EXEC_RESET' = FALSE
  /\ UNCHANGED <<serial_tx_buffer, serial_tx_buffer_head,
                 serial_tx_buffer_tail, UDRIE0, txPc, txData, inFlight,
                 byteTime, UDR0>>

serial_write == (\E b \in TxByte : WriteCall(b))
                  \/ WriteAbandon \/ WriteStore \/ WriteEnable

TxNext == \/ serial_write \/ Transmit \/ ByteSent
          \/ ResetReceived \/ ResetExecuted

TxSpec == TxInit /\ [][TxNext]_txVars

-----------------------------------------------------------------------------
(* The bytes in the ring, oldest first.                                    *)
TxUsed ==
  IF serial_tx_buffer_head >= serial_tx_buffer_tail
  THEN serial_tx_buffer_head - serial_tx_buffer_tail
  ELSE serial_tx_buffer_head + TX_RING_BUFFER - serial_tx_buffer_tail

TxNth(i) ==    \* slot of the i-th oldest byte
  IF serial_tx_buffer_tail + i - 1 < TX_RING_BUFFER
  THEN serial_tx_buffer_tail + i - 1
  ELSE serial_tx_buffer_tail + i - 1 - TX_RING_BUFFER

TxContents == [i \in 1 .. TxUsed |-> serial_tx_buffer[TxNth(i)]]

TxTypeOK ==
  /\ serial_tx_buffer \in [TxSlot -> TxValue]
  /\ serial_tx_buffer_head \in TxSlot
  /\ serial_tx_buffer_tail \in TxSlot
  /\ UDRIE0 \in BOOLEAN
  /\ txPc \in {"idle", "wait", "enable"}
  /\ txData \in TxValue
  /\ inFlight \in 0 .. 2
  /\ byteTime \in BOOLEAN
  /\ UDR0 \in TxValue
  /\ EXEC_RESET \in BOOLEAN

(* The transmit interrupt is never enabled with nothing to send, so it     *)
(* never replays the ring; in particular not when it drains the ring       *)
(* between serial_write's head store and its interrupt enable.             *)
NoStaleTransmit == UDRIE0 => serial_tx_buffer_head # serial_tx_buffer_tail

(* A byte in the ring is never stranded: unless serial_write is about to   *)
(* do it, the interrupt that sends it is enabled.                          *)
NoStrandedByte ==
  serial_tx_buffer_head # serial_tx_buffer_tail => UDRIE0 \/ txPc = "enable"

(* The ring is a FIFO of TX_BUFFER_SIZE bytes between serial_write and the *)
(* line: nothing is lost, repeated, reordered or replayed.                 *)
TxFifo == INSTANCE ByteFifo WITH Byte <- TxByte, NoByte <- NoTxByte,
            Capacity <- TX_BUFFER_SIZE, queue <- TxContents, delivered <- UDR0
TxIsFifo == TxFifo!Spec

(* A program that prints is never blocked for good by a full ring.         *)
WriteReturns == txPc = "wait" ~> txPc = "idle"
=============================================================================
