CONSTANTS
  RX_RING_BUFFER = 3
  Byte = {b1, b2}
  SERIAL_NO_DATA = none
  TX_RING_BUFFER = 3
  TxByte = {t1, t2}
  NoTxByte = none
SPECIFICATION Spec
INVARIANTS TypeOK NoStaleTransmit NoStrandedByte
PROPERTIES RxIsFifo TxIsFifo WriteReturns
