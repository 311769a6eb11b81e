----------------------------- MODULE SerialPort -----------------------------
(***************************************************************************)
(* serial.c as a whole: both rings, one main program, the receive and the  *)
(* transmit interrupt.  The main program is in one call at a time.  On a   *)
(* reset it clears EXEC_RESET and flushes the receive ring before it reads *)
(* again (main.c); the transmit ring keeps what is left in it.             *)
(***************************************************************************)
EXTENDS SerialRx, SerialTx

VARIABLE flushDue   \* main has cleared EXEC_RESET and is about to flush

portVars == <<rxVars, txVars, flushDue>>

Init == RxInit /\ TxInit /\ flushDue = FALSE

(* The main program reads (protocol_main_loop), prints, or initialises     *)
(* again; an interrupt may come between any two of these steps.            *)
MainReads ==
  /\ txPc = "idle" /\ ~TxPending /\ ~flushDue
  /\ serial_read
  /\ UNCHANGED <<txVars, flushDue>>

MainWrites ==
  /\ rxPc = "idle" /\ ~flushDue
  /\ serial_write
  /\ UNCHANGED <<rxVars, flushDue>>

MainClearsReset ==
  /\ rxPc = "idle"
  /\ ResetExecuted
  /\ flushDue' = TRUE
  /\ UNCHANGED rxVars

MainFlushes ==
  /\ flushDue /\ ~TxPending
  /\ serial_reset_read_buffer
  /\ flushDue' = (rxPc' # "idle")
  /\ UNCHANGED txVars

Main == MainReads \/ MainWrites \/ MainClearsReset \/ MainFlushes

(* ISR(SERIAL_RX): a byte for the ring, or the reset command.              *)
ReceiveByte == \E b \in Byte : Receive(b) /\ UNCHANGED <<txVars, flushDue>>
ReceiveReset == ResetReceived /\ UNCHANGED <<rxVars, flushDue>>

Interrupts == \/ ReceiveByte \/ ReceiveReset
              \/ (Transmit \/ ByteSent) /\ UNCHANGED <<rxVars, flushDue>>

Next == Main \/ Interrupts

(* The interrupts are served, the transmitter runs on its own clock, and   *)
(* the main program does not stop inside serial_write; nothing obliges it  *)
(* to print, nor the host to send.                                         *)
Fairness ==
  /\ WF_portVars((WriteAbandon \/ WriteStore \/ WriteEnable)
                   /\ UNCHANGED <<rxVars, flushDue>>)
  /\ WF_portVars(Transmit /\ UNCHANGED <<rxVars, flushDue>>)
  /\ WF_portVars(ByteSent /\ UNCHANGED <<rxVars, flushDue>>)

Spec == Init /\ [][Next]_portVars /\ Fairness

TypeOK == RxTypeOK /\ TxTypeOK /\ flushDue \in BOOLEAN
=============================================================================
