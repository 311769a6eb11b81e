---------------------------- MODULE SerialProofs ----------------------------
(***************************************************************************)
(* Proofs about serial.c, for rings of every size a uint8_t index allows   *)
(* and for every set of bytes.                                             *)
(***************************************************************************)
EXTENDS SerialPort, TLAPS

(* What serial_read has loaded of the indices is still so.                 *)
RxInv ==
  /\ RxTypeOK
  /\ rxPc = "compare" => tail = serial_rx_buffer_tail
  /\ ReadIsStable

TwoOrMoreToSend ==
  /\ serial_tx_buffer_head # serial_tx_buffer_tail
  /\ serial_tx_buffer_head # TxSucc(serial_tx_buffer_tail)

(* Between serial_write's head store and its interrupt enable the ring     *)
(* stays nonempty: with the interrupt already enabled, an older byte and   *)
(* the new one are in the ring and the transmitter is full, and there is   *)
(* time to send only the older one.                                        *)
TxWindow ==
  txPc = "enable" =>
    /\ serial_tx_buffer_head # serial_tx_buffer_tail
    /\ (UDRIE0 /\ ~byteTime) => TwoOrMoreToSend /\ inFlight = 2
    /\ (UDRIE0 /\ byteTime) => \/ TwoOrMoreToSend /\ inFlight = 1
                               \/ inFlight = 2

TxInv ==
  /\ TxTypeOK
  /\ NoStaleTransmit
  /\ NoStrandedByte
  /\ TxWindow
  /\ byteTime => txPc = "enable"
  /\ txPc = "wait" => txData \in TxByte

-----------------------------------------------------------------------------
LEMMA RxSuccInRing ==
  ASSUME NEW i \in RxSlot
  PROVE  RxSucc(i) \in RxSlot
BY RingAssumption DEF RxSlot, RxSucc

LEMMA TxSuccInRing ==
  ASSUME NEW i \in TxSlot
  PROVE  TxSucc(i) \in TxSlot /\ TxSucc(i) # i
BY TxRingAssumption DEF TxSlot, TxSucc

LEMMA RxInitInv == RxInit => RxInv
BY RingAssumption DEF RxInit, RxInv, RxTypeOK, ReadIsStable, RxSlot, Value

(* No interleaving of the receive interrupt with serial_read and           *)
(* serial_reset_read_buffer disturbs the read in progress (serial.c).      *)
LEMMA RxStepInv ==
  ASSUME RxInv, RxNext
  PROVE  RxInv'
<1> USE RingAssumption DEF RxInv, RxTypeOK, ReadIsStable, Value
<1>1. ASSUME NEW b \in Byte, Receive(b) PROVE RxInv'
  BY <1>1, RxSuccInRing DEF Receive
<1>2. CASE ReadTail
  BY <1>2 DEF ReadTail
<1>3. CASE ReadEmpty
  BY <1>3 DEF ReadEmpty, RxSlot
<1>4. CASE ReadSlot
  BY <1>4 DEF ReadSlot
<1>5. CASE ReadAdvance
  BY <1>5, RxSuccInRing DEF ReadAdvance, RxSlot
<1>6. CASE ResetLoad
  BY <1>6 DEF ResetLoad
<1>7. CASE ResetStore
  BY <1>7 DEF ResetStore, RxSlot
<1> QED
  BY <1>1, <1>2, <1>3, <1>4, <1>5, <1>6, <1>7
  DEF RxNext, serial_read, serial_reset_read_buffer

LEMMA TxInitInv == TxInit => TxInv
<1> SUFFICES ASSUME TxInit PROVE TxInv
  OBVIOUS
<1>1. ~UDRIE0 /\ ~byteTime /\ txPc = "idle"
  BY Zenon DEF TxInit
<1>2. UDRIE0 \in BOOLEAN /\ byteTime \in BOOLEAN /\ EXEC_RESET \in BOOLEAN
  BY Zenon DEF TxInit
<1>3. TxTypeOK
  <2>1. 0 \in TxSlot /\ 0 \in 0 .. 2 /\ NoTxByte \in TxValue
    BY TxRingAssumption DEF TxSlot, TxValue
  <2> QED BY <1>2, <2>1, Zenon DEF TxInit, TxTypeOK
<1>4. serial_tx_buffer_head = serial_tx_buffer_tail
  BY Zenon DEF TxInit
<1> QED
  BY <1>1, <1>3, <1>4, Zenon DEF TxInv, NoStaleTransmit, NoStrandedByte, TxWindow

(* serial_write, ISR(SERIAL_UDRE) and the transmitter keep the ring and    *)
(* the interrupt enable in step.                                           *)
LEMMA TxStepInv ==
  ASSUME TxInv, TxNext
  PROVE  TxInv'
<1> USE TxRingAssumption, TxSuccInRing
    DEF TxInv, TxTypeOK, NoStaleTransmit, NoStrandedByte, TxWindow,
        TwoOrMoreToSend, TxValue, TxPending
<1>1. ASSUME NEW b \in TxByte, WriteCall(b) PROVE TxInv'
  BY <1>1 DEF WriteCall
<1>2. CASE WriteAbandon
  BY <1>2 DEF WriteAbandon
<1>3. CASE WriteStore
  BY <1>3 DEF WriteStore, TxSlot, TxSucc
<1>4. CASE WriteEnable
  BY <1>4 DEF WriteEnable
<1>5. CASE Transmit
  <2>1. CASE TxSucc(serial_tx_buffer_tail) = serial_tx_buffer_head
    <3>1. ~UDRIE0'
      BY <1>5, <2>1, Zenon DEF Transmit
    <3> QED BY <1>5, <2>1, <3>1 DEF Transmit
  <2>2. CASE TxSucc(serial_tx_buffer_tail) # serial_tx_buffer_head
    <3>1. UDRIE0'
      BY <1>5, <2>2, Zenon DEF Transmit
    <3> QED BY <1>5, <2>2, <3>1 DEF Transmit
  <2> QED BY <2>1, <2>2
<1>6. CASE ByteSent
  BY <1>6 DEF ByteSent
<1>7. CASE ResetReceived
  BY <1>7 DEF ResetReceived
<1>8. CASE ResetExecuted
  BY <1>8 DEF ResetExecuted
<1> QED
  BY <1>1, <1>2, <1>3, <1>4, <1>5, <1>6, <1>7, <1>8 DEF TxNext, serial_write

-----------------------------------------------------------------------------
PortInv == RxInv /\ TxInv /\ flushDue \in BOOLEAN

LEMMA RxStutter == ASSUME RxInv, UNCHANGED rxVars PROVE RxInv'
BY DEF RxInv, RxTypeOK, ReadIsStable, rxVars

LEMMA TxStutter == ASSUME TxInv, UNCHANGED txVars PROVE TxInv'
BY DEF TxInv, TxTypeOK, NoStaleTransmit, NoStrandedByte, TxWindow,
       TwoOrMoreToSend, txVars

(* Every step of either ring, or of both in main's order, keeps PortInv.   *)
LEMMA PortStepInv ==
  ASSUME PortInv, [Next]_portVars
  PROVE  PortInv'
<1> USE DEF PortInv
<1>1. CASE MainReads
  BY <1>1, RxStepInv, TxStutter DEF MainReads, RxNext
<1>2. CASE MainWrites
  BY <1>2, TxStepInv, RxStutter DEF MainWrites, TxNext
<1>3. CASE MainClearsReset
  BY <1>3, TxStepInv, RxStutter DEF MainClearsReset, TxNext
<1>4. CASE MainFlushes
  BY <1>4, RxStepInv, TxStutter DEF MainFlushes, RxNext
<1>5. CASE Interrupts
  <2>1. CASE ReceiveByte
    BY <2>1, RxStepInv, TxStutter DEF ReceiveByte, RxNext
  <2>2. CASE ReceiveReset
    BY <2>2, TxStepInv, RxStutter DEF ReceiveReset, TxNext
  <2>3. CASE (Transmit \/ ByteSent) /\ UNCHANGED <<rxVars, flushDue>>
    BY <2>3, TxStepInv, RxStutter DEF TxNext
  <2> QED BY <1>5, <2>1, <2>2, <2>3 DEF Interrupts
<1>6. CASE UNCHANGED portVars
  BY <1>6, RxStutter, TxStutter DEF portVars
<1> QED BY <1>1, <1>2, <1>3, <1>4, <1>5, <1>6 DEF Next, Main

LEMMA PortInvariant == Spec => []PortInv
<1>1. Init => PortInv
  BY RxInitInv, TxInitInv DEF Init, PortInv
<1>2. PortInv /\ [Next]_portVars => PortInv'
  BY PortStepInv
<1> QED BY <1>1, <1>2, PTL DEF Spec

-----------------------------------------------------------------------------
(* The state of both rings stays well typed: indices stay in their ring.   *)
THEOREM PortTypeCorrect == Spec => []TypeOK
<1>1. PortInv => TypeOK
  BY DEF PortInv, RxInv, TxInv, TypeOK
<1> QED BY <1>1, PortInvariant, PTL

(* The transmit interrupt is never enabled over an empty ring (serial.c,   *)
(* serial_write and ISR(SERIAL_UDRE)), whatever the ring size.             *)
THEOREM TransmitNeverStale == Spec => []NoStaleTransmit
<1>1. PortInv => NoStaleTransmit
  BY DEF PortInv, TxInv
<1> QED BY <1>1, PortInvariant, PTL

(* A byte in the transmit ring always has an interrupt enabled, or about   *)
(* to be enabled by serial_write, to send it.                              *)
THEOREM TransmitNeverStranded == Spec => []NoStrandedByte
<1>1. PortInv => NoStrandedByte
  BY DEF PortInv, TxInv
<1> QED BY <1>1, PortInvariant, PTL

(* serial_read returns the oldest byte: the interrupt never touches the    *)
(* slot it has copied and not yet released.                                *)
THEOREM ReadNeverTorn == Spec => []ReadIsStable
<1>1. PortInv => ReadIsStable
  BY DEF PortInv, RxInv
<1> QED BY <1>1, PortInvariant, PTL

(* The Bf: field of a status report and the free space a streaming host    *)
(* counts on are exact wherever the indices have wrapped to                *)
(* (serial_get_rx_buffer_available).                                       *)
THEOREM AvailableIsAlwaysExact == Spec => []AvailableIsExact
<1>1. PortInv => AvailableIsExact
  BY RingAssumption
  DEF PortInv, RxInv, RxTypeOK, RxSlot, AvailableIsExact, RxUsed,
      serial_get_rx_buffer_available, RX_BUFFER_SIZE
<1> QED BY <1>1, PortInvariant, PTL
-----------------------------------------------------------------------------
(* A ring of n slots: the distance from slot t to slot h, the i-th slot    *)
(* from t on, and what lies between.                                       *)
Dist(n, t, h) == IF h >= t THEN h - t ELSE h + n - t
Nth(n, t, i) == IF t + i - 1 < n THEN t + i - 1 ELSE t + i - 1 - n
Succ(n, i) == IF i + 1 = n THEN 0 ELSE i + 1
Contents(n, buffer, t, h) ==
  [i \in 1 .. Dist(n, t, h) |-> buffer[Nth(n, t, i)]]

(* Distances and slots stay in the ring.                                   *)
LEMMA DistInRing ==
  ASSUME NEW n \in Nat, NEW t \in 0 .. n - 1, NEW h \in 0 .. n - 1
  PROVE  /\ Dist(n, t, h) \in 0 .. n - 1
         /\ Dist(n, t, h) = 0 <=> t = h
         /\ \A i \in 1 .. Dist(n, t, h) : Nth(n, t, i) \in 0 .. n - 1
BY DEF Dist, Nth

(* A ring is a sequence ...                                                *)
LEMMA RingIsSeq ==
  ASSUME NEW n \in Nat, NEW V, NEW buffer \in [0 .. n - 1 -> V],
         NEW t \in 0 .. n - 1, NEW h \in 0 .. n - 1
  PROVE  /\ Contents(n, buffer, t, h) \in Seq(V)
         /\ Len(Contents(n, buffer, t, h)) = Dist(n, t, h)
<1>1. Contents(n, buffer, t, h) \in [1 .. Dist(n, t, h) -> V]
  BY DistInRing DEF Contents
<1>2. Dist(n, t, h) \in Nat
  BY DistInRing
<1> QED  BY <1>1, <1>2

Grown(q, p, b) == p = Append(q, b)

(* ... that grows at the head while there is a slot between head and tail, *)
LEMMA RingPut ==
  ASSUME NEW n \in Nat, NEW V, NEW buffer \in [0 .. n - 1 -> V],
         NEW t \in 0 .. n - 1, NEW h \in 0 .. n - 1, NEW b \in V,
         NEW new \in [0 .. n - 1 -> V], new[h] = b, Succ(n, h) # t,
         \A i \in 0 .. n - 1 : i # h => new[i] = buffer[i]
  PROVE  /\ Len(Contents(n, buffer, t, h)) < n - 1
         /\ Grown(Contents(n, buffer, t, h),
                  Contents(n, new, t, Succ(n, h)), b)
<1> DEFINE d == Dist(n, t, h)
           q == Contents(n, buffer, t, h)
           p == Contents(n, new, t, Succ(n, h))
<1>1. Succ(n, h) \in 0 .. n - 1
  BY DEF Succ
<1>2. Dist(n, t, Succ(n, h)) = d + 1 /\ d < n - 1 /\ d \in Nat
  BY DEF Dist, Succ
<1>3. q \in Seq(V) /\ Len(q) = d /\ p \in Seq(V) /\ Len(p) = d + 1
  <2>1. q \in Seq(V) /\ Len(q) = d
    BY RingIsSeq, ZenonT(60)
  <2>2. p \in Seq(V) /\ Len(p) = Dist(n, t, Succ(n, h))
    BY <1>1, RingIsSeq, ZenonT(60)
  <2> QED  BY <1>2, <2>1, <2>2
<1>4. ASSUME NEW i \in 1 .. d PROVE p[i] = q[i]
  <2>1. Nth(n, t, i) # h /\ Nth(n, t, i) \in 0 .. n - 1
    BY DEF Dist, Nth
  <2>2. p[i] = new[Nth(n, t, i)] /\ q[i] = buffer[Nth(n, t, i)]
    BY <1>2 DEF Contents
  <2> QED  BY <2>1, <2>2
<1>5. p[d + 1] = b
  <2>1. Nth(n, t, d + 1) = h
    BY DEF Dist, Nth
  <2>2. p[d + 1] = new[Nth(n, t, d + 1)]
    BY <1>2 DEF Contents
  <2> QED  BY <2>1, <2>2
<1> HIDE DEF p, q, d
<1>6. p = Append(q, b)
  BY <1>2, <1>3, <1>4, <1>5
<1> QED  BY <1>2, <1>3, <1>6 DEF p, q, Grown

(* ... loses at the tail what lies before a slot between tail and head, ...*)
LEMMA RingDrop ==
  ASSUME NEW n \in Nat, NEW V, NEW buffer \in [0 .. n - 1 -> V],
         NEW t \in 0 .. n - 1, NEW h \in 0 .. n - 1, NEW u \in 0 .. n - 1,
         Dist(n, t, u) <= Dist(n, t, h)
  PROVE  Contents(n, buffer, u, h)
           = SubSeq(Contents(n, buffer, t, h), Dist(n, t, u) + 1,
                    Len(Contents(n, buffer, t, h)))
<1> DEFINE d == Dist(n, t, h)
           e == Dist(n, t, u)
           q == Contents(n, buffer, t, h)
           p == Contents(n, buffer, u, h)
<1>1. Dist(n, u, h) = d - e /\ d \in Nat /\ e \in Nat /\ e <= d
  BY DEF Dist
<1>2. q \in Seq(V) /\ Len(q) = d /\ p \in Seq(V) /\ Len(p) = d - e
  <2>1. q \in Seq(V) /\ Len(q) = d
    BY RingIsSeq, Zenon
  <2>2. p \in Seq(V) /\ Len(p) = Dist(n, u, h)
    BY RingIsSeq, Zenon
  <2> QED  BY <1>1, <2>1, <2>2
<1>3. ASSUME NEW i \in 1 .. d - e PROVE p[i] = q[e + i]
  <2>1. Nth(n, u, i) = Nth(n, t, e + i)
    BY DEF Dist, Nth
  <2>2. p[i] = buffer[Nth(n, u, i)] /\ q[e + i] = buffer[Nth(n, t, e + i)]
    BY <1>1 DEF Contents
  <2> QED  BY <2>1, <2>2
<1> HIDE DEF p, q, d, e
<1>4. p = SubSeq(q, e + 1, d)
  <2>1. SubSeq(q, e + 1, d) = [i \in 1 .. d - e |-> q[e + i]]
    BY <1>1, <1>2
  <2>2. p = [i \in 1 .. d - e |-> p[i]]
    BY <1>1, <1>2
  <2> QED  BY <1>3, <2>1, <2>2
<1> QED  BY <1>2, <1>4 DEF p, q, e

(* ... and its oldest byte when that slot is the next one.                 *)
LEMMA RingGet ==
  ASSUME NEW n \in Nat, NEW V, NEW buffer \in [0 .. n - 1 -> V],
         NEW t \in 0 .. n - 1, NEW h \in 0 .. n - 1, t # h
  PROVE  /\ Contents(n, buffer, t, h) # << >>
         /\ Head(Contents(n, buffer, t, h)) = buffer[t]
         /\ Contents(n, buffer, Succ(n, t), h)
              = Tail(Contents(n, buffer, t, h))
<1> DEFINE d == Dist(n, t, h)
           q == Contents(n, buffer, t, h)
<1>1. q \in Seq(V) /\ Len(q) = d /\ d \in Nat /\ d # 0
  <2>1. q \in Seq(V) /\ Len(q) = d
    BY RingIsSeq, Zenon
  <2> QED  BY <2>1, DistInRing
<1>2. q[1] = buffer[t]
  <2>1. Nth(n, t, 1) = t
    BY DEF Nth
  <2> QED  BY <1>1, <2>1 DEF Contents
<1>3. /\ Succ(n, t) \in 0 .. n - 1 /\ Dist(n, t, Succ(n, t)) = 1
      /\ Dist(n, t, Succ(n, t)) <= Dist(n, t, h)
  BY DEF Succ, Dist
<1>4. Contents(n, buffer, Succ(n, t), h)
          = SubSeq(q, Dist(n, t, Succ(n, t)) + 1, Len(q))
  BY <1>1, <1>3, RingDrop, Zenon
<1> HIDE DEF q, d
<1> QED  BY <1>1, <1>2, <1>3, <1>4 DEF q

-----------------------------------------------------------------------------
(* Between the load and the store of serial_reset_read_buffer the loaded   *)
(* head is still between tail and head: what came in meanwhile stays.      *)
FlushInv ==
  rxPc = "reset" => Dist(RX_RING_BUFFER, serial_rx_buffer_tail, tail)
                      <= Dist(RX_RING_BUFFER, serial_rx_buffer_tail,
                              serial_rx_buffer_head)

(* No byte that arrives overtakes the load (serial.c 203).                 *)
LEMMA FlushStep ==
  ASSUME RxInv, FlushInv, RxNext
  PROVE  FlushInv'
<1> USE RingAssumption DEF RxInv, RxTypeOK, FlushInv
<1>1. ASSUME NEW b \in Byte, Receive(b) PROVE FlushInv'
  BY <1>1 DEF Receive, RxSucc, RxSlot, Dist
<1>2. CASE serial_read
  BY <1>2 DEF serial_read, ReadTail, ReadEmpty, ReadSlot, ReadAdvance
<1>3. CASE ResetLoad
  BY <1>3 DEF ResetLoad, RxSlot, Dist
<1>4. CASE ResetStore
  BY <1>4 DEF ResetStore
<1> QED  BY <1>1, <1>2, <1>3, <1>4 DEF RxNext, serial_reset_read_buffer

(* The two mappings read the ring between tail and head.                   *)
LEMMA RxContentsAre ==
  /\ RxContents = Contents(RX_RING_BUFFER, serial_rx_buffer,
                           serial_rx_buffer_tail, serial_rx_buffer_head)
  /\ RX_RING_BUFFER \in Nat /\ RxSlot = 0 .. RX_RING_BUFFER - 1
  /\ \A i : RxSucc(i) = Succ(RX_RING_BUFFER, i)
  /\ RX_BUFFER_SIZE = RX_RING_BUFFER - 1
BY RingAssumption DEF RxContents, RxUsed, RxNth, Contents, Dist, Nth, RxSlot,
   RxSucc, Succ, RX_BUFFER_SIZE

(* Every access to the receive ring is a step of the queue or none.        *)
LEMMA RxStepFifo ==
  ASSUME RxInv, RxInv', FlushInv, RxNext
  PROVE  [RxFifo!PolledNext]_(RxFifo!fifoVars)
<1> DEFINE n == RX_RING_BUFFER
           h == serial_rx_buffer_head
           t == serial_rx_buffer_tail
<1>0. /\ serial_rx_buffer \in [0 .. n - 1 -> Value]
      /\ h \in 0 .. n - 1 /\ t \in 0 .. n - 1 /\ tail \in 0 .. n - 1
      /\ n \in Nat
  BY RxContentsAre DEF RxInv, RxTypeOK
<1>1. RxContents = Contents(n, serial_rx_buffer, t, h)
  BY RxContentsAre
<1>2. RxContents' = Contents(n, serial_rx_buffer', t', h')
  BY <1>0 DEF RxContents, RxUsed, RxNth, Contents, Dist, Nth
<1>3. ASSUME UNCHANGED <<serial_rx_buffer, h, t, result>>
      PROVE  UNCHANGED RxFifo!fifoVars
  BY <1>1, <1>2, <1>3 DEF RxFifo!fifoVars
<1>4. ASSUME NEW b \in Byte, Receive(b) PROVE RxFifo!Put(b)
  <2>1. Succ(n, h) # t /\ b \in Value
    BY <1>4, RxContentsAre DEF Receive, Value
  <2> DEFINE q == Contents(n, serial_rx_buffer, t, h)
           new == [serial_rx_buffer EXCEPT ![h] = b]
  <2>2. /\ new \in [0 .. n - 1 -> Value] /\ new[h] = b
        /\ \A i \in 0 .. n - 1 : i # h => new[i] = serial_rx_buffer[i]
    BY <1>0, <2>1
  <2> HIDE DEF new
  <2>3. Len(q) < n - 1 /\ Grown(q, Contents(n, new, t, Succ(n, h)), b)
    BY <1>0, <2>1, <2>2, RingPut, Zenon
  <2>4. RxContents' = Append(q, b) /\ result' = result
    BY <1>2, <1>4, <2>3, RxContentsAre
       DEF Receive, new, Grown
  <2> QED  BY <1>1, <2>3, <2>4, RxContentsAre DEF RxFifo!Put
<1>5. CASE ReadTail \/ ReadSlot \/ ResetLoad
  BY <1>3, <1>5 DEF ReadTail, ReadSlot, ResetLoad
<1>6. CASE ReadEmpty
  <2>1. t = h
    BY <1>6 DEF ReadEmpty, RxInv
  <2>2. Len(RxContents) = 0 /\ RxContents \in Seq(Value)
    <3>1. /\ RxContents \in Seq(Value) /\ Len(RxContents) = Dist(n, t, h)
      BY <1>0, <1>1, RingIsSeq
    <3> QED  BY <1>0, <2>1, <3>1, DistInRing
  <2>3. RxContents' = RxContents /\ result' = SERIAL_NO_DATA
    BY <1>1, <1>2, <1>6 DEF ReadEmpty
  <2> QED  BY <2>2, <2>3 DEF RxFifo!GetNothing, RxFifo!PolledNext
<1>7. CASE ReadAdvance
  <2>1. t # h /\ tail = t /\ data = serial_rx_buffer[t]
    BY <1>7 DEF ReadAdvance, RxInv, ReadIsStable
  <2>2. /\ RxContents # << >> /\ Head(RxContents) = serial_rx_buffer[t]
        /\ Contents(n, serial_rx_buffer, Succ(n, t), h) = Tail(RxContents)
    BY <1>0, <1>1, <2>1, RingGet, Zenon
  <2>3. RxContents' = Tail(RxContents) /\ result' = Head(RxContents)
    BY <1>2, <1>7, <2>1, <2>2, RxContentsAre DEF ReadAdvance
  <2> QED  BY <2>2, <2>3 DEF RxFifo!Get, RxFifo!Next, RxFifo!PolledNext
<1>8. CASE ResetStore
  <2> DEFINE d == Dist(n, t, tail)
  <2>1. d <= Dist(n, t, h)
    BY <1>8 DEF ResetStore, FlushInv
  <2>2. Contents(n, serial_rx_buffer, tail, h)
          = SubSeq(RxContents, d + 1, Len(RxContents))
    BY <1>0, <1>1, <2>1, RingDrop, Zenon
  <2>3. /\ RxContents' = SubSeq(RxContents, d + 1, Len(RxContents))
        /\ result' = result
    BY <1>2, <1>8, <2>2 DEF ResetStore
  <2>4. Len(RxContents) = Dist(n, t, h)
    BY <1>0, <1>1, RingIsSeq, Zenon
  <2>5. d \in 0 .. Len(RxContents)
    BY <1>0, <2>1, <2>4, DistInRing
  <2> QED  BY <2>3, <2>5 DEF RxFifo!Flush, RxFifo!PolledNext
<1> QED  BY <1>4, <1>5, <1>6, <1>7, <1>8
    DEF RxNext, serial_read, serial_reset_read_buffer, RxFifo!Next,
        RxFifo!PolledNext

(* The receive ring is a FIFO of RX_BUFFER_SIZE bytes (serial.c 24): bytes *)
(* are read once, in order, none that was kept is overwritten, and a flush *)
(* drops a prefix, for every ring size and at every interleaving of the    *)
(* receive interrupt with the main program.                                *)
THEOREM ReceiveIsFifo == Spec => RxIsFifo
<1>1. Init => RxFifo!Init /\ FlushInv
  <2> SUFFICES ASSUME Init PROVE RxFifo!Init /\ FlushInv
    OBVIOUS
  <2>1. RxContents = << >> /\ result = SERIAL_NO_DATA /\ rxPc = "idle"
    BY DEF Init, RxInit, RxContents, RxUsed
  <2> QED  BY <2>1 DEF RxFifo!Init, FlushInv
<1>2. ASSUME PortInv, PortInv', FlushInv, [Next]_portVars
      PROVE  FlushInv' /\ [RxFifo!PolledNext]_(RxFifo!fifoVars)
  <2>1. CASE RxNext
    BY <1>2, <2>1, FlushStep, RxStepFifo DEF PortInv
  <2>2. CASE UNCHANGED rxVars
    <3>1. UNCHANGED <<RxContents, result>> /\ FlushInv'
      BY <1>2, <2>2 DEF rxVars, RxContents, RxUsed, RxNth, FlushInv
    <3> QED  BY <3>1 DEF RxFifo!fifoVars
  <2>3. RxNext \/ UNCHANGED rxVars
    BY <1>2 DEF Next, Main, MainReads, MainWrites, MainClearsReset,
       MainFlushes, Interrupts, ReceiveByte, ReceiveReset, portVars, RxNext
  <2> QED  BY <2>1, <2>2, <2>3
<1> QED  BY <1>1, <1>2, PortInvariant, PTL DEF Spec, RxIsFifo, RxFifo!PolledSpec

(* Likewise the transmit ring.                                             *)
LEMMA TxContentsAre ==
  /\ TxContents = Contents(TX_RING_BUFFER, serial_tx_buffer,
                           serial_tx_buffer_tail, serial_tx_buffer_head)
  /\ TX_RING_BUFFER \in Nat /\ TxSlot = 0 .. TX_RING_BUFFER - 1
  /\ \A i : TxSucc(i) = Succ(TX_RING_BUFFER, i)
  /\ TX_BUFFER_SIZE = TX_RING_BUFFER - 1
BY TxRingAssumption DEF TxContents, TxUsed, TxNth, Contents, Dist, Nth, TxSlot,
   TxSucc, Succ, TX_BUFFER_SIZE

(* Every step of serial_write and of the transmit interrupt is a step of   *)
(* the queue or none.                                                      *)
LEMMA TxStepFifo ==
  ASSUME TxInv, TxNext
  PROVE  [TxFifo!Next]_(TxFifo!fifoVars)
<1> DEFINE n == TX_RING_BUFFER
           h == serial_tx_buffer_head
           t == serial_tx_buffer_tail
<1>0. /\ serial_tx_buffer \in [0 .. n - 1 -> TxValue]
      /\ h \in 0 .. n - 1 /\ t \in 0 .. n - 1 /\ n \in Nat
  BY TxContentsAre DEF TxInv, TxTypeOK
<1>1. TxContents = Contents(n, serial_tx_buffer, t, h)
  BY TxContentsAre
<1>2. TxContents' = Contents(n, serial_tx_buffer', t', h')
  BY <1>0 DEF TxContents, TxUsed, TxNth, Contents, Dist, Nth
<1>3. ASSUME UNCHANGED <<serial_tx_buffer, h, t, UDR0>>
      PROVE  UNCHANGED TxFifo!fifoVars
  BY <1>1, <1>2, <1>3 DEF TxFifo!fifoVars
<1>4. CASE WriteStore
  <2>1. Succ(n, h) # t /\ txData \in TxByte /\ txData \in TxValue
    BY <1>4, TxContentsAre DEF WriteStore, TxInv, TxValue
  <2> DEFINE q == Contents(n, serial_tx_buffer, t, h)
           new == [serial_tx_buffer EXCEPT ![h] = txData]
  <2>2. /\ new \in [0 .. n - 1 -> TxValue] /\ new[h] = txData
        /\ \A i \in 0 .. n - 1 : i # h => new[i] = serial_tx_buffer[i]
    BY <1>0, <2>1
  <2> HIDE DEF new
  <2>3. Len(q) < n - 1 /\ Grown(q, Contents(n, new, t, Succ(n, h)), txData)
    BY <1>0, <2>1, <2>2, RingPut, Zenon
  <2>4. TxContents' = Append(q, txData) /\ UDR0' = UDR0
    BY <1>2, <1>4, <2>3, TxContentsAre
       DEF WriteStore, new, Grown
  <2>5. TxFifo!Put(txData)
    BY <1>1, <2>3, <2>4, TxContentsAre DEF TxFifo!Put
  <2> QED  BY <2>1, <2>5 DEF TxFifo!Next
<1>5. CASE Transmit
  <2>1. t # h
    BY <1>5 DEF Transmit, TxPending, TxInv, NoStaleTransmit
  <2>2. /\ TxContents # << >> /\ Head(TxContents) = serial_tx_buffer[t]
        /\ Contents(n, serial_tx_buffer, Succ(n, t), h) = Tail(TxContents)
    BY <1>0, <1>1, <2>1, RingGet, Zenon
  <2>3. TxContents' = Tail(TxContents) /\ UDR0' = Head(TxContents)
    BY <1>2, <1>5, <2>2, TxContentsAre DEF Transmit
  <2> QED  BY <2>2, <2>3 DEF TxFifo!Get, TxFifo!Next
<1>6. ASSUME NEW b \in TxByte, WriteCall(b) PROVE UNCHANGED TxFifo!fifoVars
  BY <1>3, <1>6 DEF WriteCall
<1>7. CASE WriteAbandon \/ WriteEnable
  BY <1>3, <1>7 DEF WriteAbandon, WriteEnable
<1>8. CASE ByteSent \/ ResetReceived \/ ResetExecuted
  BY <1>3, <1>8 DEF ByteSent, ResetReceived, ResetExecuted
<1> QED  BY <1>4, <1>5, <1>6, <1>7, <1>8 DEF TxNext, serial_write

(* The transmit ring is a FIFO of TX_BUFFER_SIZE bytes between             *)
(* serial_write and the line: nothing is lost, repeated or reordered,      *)
(* for every ring size, wherever the interrupt cuts in.                    *)
THEOREM TransmitIsFifo == Spec => TxIsFifo
<1>1. Init => TxFifo!Init
  <2> SUFFICES ASSUME Init PROVE TxFifo!Init
    OBVIOUS
  <2>1. TxContents = << >> /\ UDR0 = NoTxByte
    BY DEF Init, TxInit, TxContents, TxUsed
  <2> QED  BY <2>1 DEF TxFifo!Init
<1>2. ASSUME PortInv, [Next]_portVars
      PROVE  [TxFifo!Next]_(TxFifo!fifoVars)
  <2>1. CASE TxNext
    BY <1>2, <2>1, TxStepFifo DEF PortInv
  <2>2. CASE UNCHANGED txVars
    <3>1. UNCHANGED <<TxContents, UDR0>>
      BY <2>2 DEF txVars, TxContents, TxUsed, TxNth
    <3> QED  BY <3>1 DEF TxFifo!fifoVars
  <2>3. TxNext \/ UNCHANGED txVars
    BY <1>2 DEF Next, Main, MainReads, MainWrites, MainClearsReset,
       MainFlushes, Interrupts, ReceiveByte, ReceiveReset, portVars, TxNext
  <2> QED  BY <2>1, <2>2, <2>3
<1> QED  BY <1>1, <1>2, PortInvariant, PTL DEF Spec, TxIsFifo, TxFifo!Spec
=============================================================================
