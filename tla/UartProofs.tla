----------------------------- MODULE UartProofs -----------------------------
(***************************************************************************)
(* Proofs about Uart for queues of any depth and any set of bytes: as long *)
(* as no frame is shifted over a byte that waits for room, the UART and    *)
(* its registers are the serial line of SerialLine.                        *)
(***************************************************************************)
EXTENDS Uart, SequenceTheorems, TLAPS

(* A bit of the status register that the program has seen set and not used *)
(* since is still true: a load of the buffer register finds a byte, and a  *)
(* byte stored there finds room (uart.v:86 drops it otherwise).            *)
PolledIsTrue == /\ "rx" \in polled => rx_ready
                /\ "tx" \in polled => tx_ready

\* uart_pending_r marks the second cycle of a load, while LSU holds it.
PendingIsHeld == uart_pending_r <=> lsu_req = LoadBR

\* A byte that waits for room is whole, and so is one that gets its stop bit.
WaitingIsWhole ==
  /\ RxD_data_ready => RxD_state \in {"idle", "start"} /\ RxD_data \in Bytes
  /\ RxD_state = "stop" => RxD_data \in Bytes

IInv == TypeOK /\ PolledIsTrue /\ PendingIsHeld /\ WaitingIsWhole

-----------------------------------------------------------------------------
(* The inductive invariant.                                                *)

\* What LSU may be given: the operation it holds, or one the program polled for.
LEMMA OfferedShape ==
  ASSUME IInv, NEW r \in Offered
  PROVE  /\ r \in {Idle, LoadSR, LoadBR} \union {StoreBR(b) : b \in Bytes}
         /\ load_BR(r) <=> r = LoadBR
         /\ uart_tx_we(r) <=> \E b \in Bytes : r = StoreBR(b)
         /\ uart_tx_we(r) => r.dat \in Bytes /\ "tx" \in polled
         /\ uart_pending_r => r = LoadBR
         /\ r = LoadBR /\ ~uart_pending_r => "rx" \in polled
BY DEF IInv, TypeOK, PendingIsHeld, Offered, Idle, LoadSR, LoadBR, StoreBR,
       load_BR, uart_tx_we

LEMMA LsuStep ==
  ASSUME IInv, NEW r \in Offered, LsuClock(r)
  PROVE  /\ lsu_req' \in {Idle, LoadBR}
         /\ uart_pending_r' \in BOOLEAN
         /\ got' \in Bytes
         /\ polled' \subseteq {"rx", "tx"}
         /\ PendingIsHeld'
         /\ "rx" \in polled' => rx_ready /\ ~uart_rx_rd(r)
         /\ "tx" \in polled' => tx_ready /\ ~uart_tx_we(r)
<1>1. /\ r \in {Idle, LoadSR, LoadBR} \union {StoreBR(b) : b \in Bytes}
      /\ load_BR(r) <=> r = LoadBR
      /\ uart_pending_r => r = LoadBR
  BY OfferedShape
<1>2. lsu_req' \in {Idle, LoadBR} /\ uart_pending_r' \in BOOLEAN /\ PendingIsHeld'
  BY <1>1 DEF LsuClock, stall_uart, PendingIsHeld, IInv, TypeOK, Idle, LoadBR
<1>3. got' \in Bytes
  BY DEF LsuClock, IInv, TypeOK
<1>4. PICK busy_n \in BOOLEAN :
        polled' = CASE r = LoadSR -> StatusBits(busy_n)
                    [] load_BR(r) -> polled \ {"rx"}
                    [] uart_tx_we(r) -> polled \ {"tx"}
                    [] OTHER -> polled
  BY DEF LsuClock
<1>5. CASE r = LoadSR
  <2>1. ~load_BR(r) /\ ~uart_tx_we(r)
    BY <1>5 DEF LoadSR, load_BR, uart_tx_we
  <2>2. polled' = StatusBits(busy_n)
    BY <1>4, <1>5, <2>1
  <2> QED
    BY <1>2, <1>3, <2>1, <2>2 DEF StatusBits, uart_rx_rd
<1>6. CASE load_BR(r)
  <2>1. r # LoadSR /\ ~uart_tx_we(r)
    BY <1>6 DEF LoadSR, load_BR, uart_tx_we
  <2>2. polled' = polled \ {"rx"}
    BY <1>4, <1>6, <2>1
  <2> QED
    BY <1>2, <1>3, <2>1, <2>2 DEF IInv, TypeOK, PolledIsTrue
<1>7. CASE uart_tx_we(r)
  <2>1. r # LoadSR /\ ~load_BR(r)
    BY <1>7 DEF LoadSR, load_BR, uart_tx_we
  <2>2. polled' = polled \ {"tx"}
    BY <1>4, <1>7, <2>1
  <2> QED
    BY <1>2, <1>3, <2>1, <2>2 DEF IInv, TypeOK, PolledIsTrue, uart_rx_rd
<1>8. CASE r # LoadSR /\ ~load_BR(r) /\ ~uart_tx_we(r)
  <2>1. polled' = polled
    BY <1>4, <1>8
  <2> QED
    BY <1>2, <1>3, <1>8, <2>1 DEF IInv, TypeOK, PolledIsTrue, uart_rx_rd
<1> QED
  BY <1>5, <1>6, <1>7, <1>8

\* The receiver with a queue that takes the byte when it has room.
LEMMA ReceiverStep ==
  ASSUME ~Overrun, IInv, Receiver
  PROVE  /\ RxD_state' \in {"idle", "start", "bits", "stop"}
         /\ RxD_data' \in Bytes \union {Torn}
         /\ RxD_data_ready' \in BOOLEAN
         /\ sent' \in {<<>>} \union {<<b>> : b \in Bytes}
         /\ WaitingIsWhole'
         /\ RxD_data_ready => RxD_data \in Bytes /\ sent' = <<>> /\ RxD_data' = RxD_data
         /\ RxD_data_ready' => RxD_data_ready \/ (Stop /\ RxD_data' = RxD_data)
<1> USE DEF IInv, TypeOK, WaitingIsWhole
<1>1. RxD_state' \in {"idle", "start", "bits", "stop"}
  BY DEF Receiver
<1>2. RxD_data' \in Bytes \union {Torn}
  BY DEF Receiver
<1>3. RxD_data_ready' \in BOOLEAN
  BY DEF Receiver
<1>4. Stop => ~RxD_data_ready /\ RxD_data \in Bytes /\ RxD_data' = RxD_data
  BY DEF Receiver, Stop
<1>5. sent' \in {<<>>} \union {<<b>> : b \in Bytes}
  BY <1>4 DEF Receiver
<1>6. RxD_data_ready => RxD_data \in Bytes /\ sent' = <<>> /\ RxD_data' = RxD_data
  BY <1>4 DEF Receiver
<1>7. RxD_data_ready' => RxD_data_ready \/ (Stop /\ RxD_data' = RxD_data)
  BY <1>4 DEF Receiver
<1>8. WaitingIsWhole'
  BY <1>4 DEF Receiver, Stop
<1> QED
  BY <1>1, <1>2, <1>3, <1>5, <1>6, <1>7, <1>8

\* A queue that is popped only when it holds something, and pushed.
LEMMA QueueStep ==
  ASSUME NEW q \in Seq(Bytes), NEW rd \in BOOLEAN, rd => q # <<>>,
         NEW wr \in BOOLEAN, NEW d, wr => d \in Bytes, NEW dout \in Bytes
  PROVE  /\ Popped(q, rd) \in Seq(Bytes)
         /\ Len(Popped(q, rd)) = IF rd THEN Len(q) - 1 ELSE Len(q)
         /\ Pushed(q, wr, d) \in Seq(Bytes)
         /\ Len(Pushed(q, wr, d)) = IF wr THEN Len(q) + 1 ELSE Len(q)
         /\ Dout(q, dout, rd) \in Bytes
<1>1. Popped(q, rd) \in Seq(Bytes) /\ Len(Popped(q, rd)) = IF rd THEN Len(q) - 1 ELSE Len(q)
  BY HeadTailProperties DEF Popped
<1>2. Pushed(q, wr, d) \in Seq(Bytes) /\ Len(Pushed(q, wr, d)) = IF wr THEN Len(q) + 1 ELSE Len(q)
  BY AppendProperties DEF Pushed
<1>3. Dout(q, dout, rd) \in Bytes
  BY HeadTailProperties DEF Dout
<1> QED
  BY <1>1, <1>2, <1>3

LEMMA RxStep ==
  ASSUME ~Overrun, IInv, NEW rd \in BOOLEAN, RxClock(rd)
  PROVE  /\ queue_rx' \in Seq(Bytes) /\ Len(queue_rx') <= Depth
         /\ rx_dout' \in Bytes
         /\ rx_ready /\ ~rd => rx_ready'
<1> DEFINE rd_en == rd /\ rx_ready
           rest == Popped(queue_rx, rd_en)
<1>1. /\ queue_rx' = Pushed(rest, Take, RxD_data)
      /\ rx_dout' = Dout(queue_rx, rx_dout, rd_en)
      /\ Receiver
  BY DEF RxClock
<1>2. /\ queue_rx \in Seq(Bytes) /\ Len(queue_rx) <= Depth /\ rx_dout \in Bytes
      /\ Take \in BOOLEAN /\ (Take => RxD_data \in Bytes /\ Len(queue_rx) < Depth)
      /\ rd_en \in BOOLEAN /\ (rd_en => queue_rx # <<>>)
  BY DEF IInv, TypeOK, Take, WaitingIsWhole, rx_ready
<1> HIDE DEF rd_en
<1>3. /\ rest \in Seq(Bytes)
      /\ Len(rest) = IF rd_en THEN Len(queue_rx) - 1 ELSE Len(queue_rx)
      /\ Dout(queue_rx, rx_dout, rd_en) \in Bytes
  BY <1>2, QueueStep
<1> HIDE DEF rest
<1>4. /\ queue_rx' \in Seq(Bytes)
      /\ Len(queue_rx') = IF Take THEN Len(rest) + 1 ELSE Len(rest)
  BY <1>1, <1>2, <1>3, QueueStep
<1>5. Len(queue_rx) \in Nat /\ Depth \in Nat
  BY <1>2, LenProperties, UartAssumption
<1>6. Len(queue_rx') <= Depth
  BY <1>2, <1>3, <1>4, <1>5
<1>7. rx_ready /\ ~rd => rx_ready'
  <2> SUFFICES ASSUME rx_ready, ~rd
               PROVE  queue_rx' # <<>>
    BY DEF rx_ready
  <2>1. Len(queue_rx) > 0
    BY <1>2, EmptySeq DEF rx_ready
  <2>2. ~rd_en
    BY DEF rd_en
  <2>3. Len(queue_rx') > 0
    BY <1>3, <1>4, <1>5, <2>1, <2>2
  <2> QED
    BY <2>3, EmptySeq
<1> QED
  BY <1>1, <1>3, <1>4, <1>6, <1>7

LEMMA TransmitterStep ==
  ASSUME IInv, Transmitter
  PROVE  /\ TxD_busy' \in BOOLEAN /\ TxD_shift' \in Bytes
         /\ TxD_busy => TxD_shift' = TxD_shift
         /\ ~TxD_busy => /\ TxD_busy' = uart_start
                         /\ uart_start => TxD_shift' = tx_dout
BY DEF IInv, TypeOK, Transmitter

LEMMA TxStep ==
  ASSUME IInv, NEW we \in BOOLEAN, NEW din \in Bytes, TxClock(we, din)
  PROVE  /\ queue_tx' \in Seq(Bytes) /\ Len(queue_tx') <= Depth
         /\ tx_dout' \in Bytes
         /\ uart_start' \in BOOLEAN
         /\ stored' \in {<<>>} \union {<<b>> : b \in Bytes}
         /\ tx_ready /\ ~we => tx_ready'
<1> DEFINE wr_en == we /\ tx_ready
           rest == Popped(queue_tx, queue_tx_pop)
<1>1. /\ queue_tx' = Pushed(rest, wr_en, din)
      /\ tx_dout' = Dout(queue_tx, tx_dout, queue_tx_pop)
      /\ stored' = IF wr_en THEN <<din>> ELSE <<>>
      /\ uart_start' = Start
  BY DEF TxClock
<1>2. /\ queue_tx \in Seq(Bytes) /\ Len(queue_tx) <= Depth /\ tx_dout \in Bytes
      /\ queue_tx_pop \in BOOLEAN /\ (queue_tx_pop => queue_tx # <<>>)
      /\ wr_en \in BOOLEAN /\ Start \in BOOLEAN
      /\ (wr_en => Len(queue_tx) < Depth)
      /\ (tx_ready => Len(queue_tx) < Depth)
      /\ (~we => ~wr_en)
  BY DEF IInv, TypeOK, queue_tx_pop, tx_ready, Start
<1> HIDE DEF wr_en
<1>3. /\ rest \in Seq(Bytes)
      /\ Len(rest) = IF queue_tx_pop THEN Len(queue_tx) - 1 ELSE Len(queue_tx)
      /\ Dout(queue_tx, tx_dout, queue_tx_pop) \in Bytes
  BY <1>2, QueueStep
<1> HIDE DEF rest
<1>4. /\ queue_tx' \in Seq(Bytes)
      /\ Len(queue_tx') = IF wr_en THEN Len(rest) + 1 ELSE Len(rest)
  BY <1>1, <1>2, <1>3, QueueStep
<1>5. Len(queue_tx) \in Nat /\ Depth \in Nat
  BY <1>2, LenProperties, UartAssumption
<1>6. Len(queue_tx') <= Depth /\ (tx_ready /\ ~we => tx_ready')
  BY <1>2, <1>3, <1>4, <1>5 DEF tx_ready
<1> QED
  BY <1>1, <1>2, <1>3, <1>4, <1>6

LEMMA InitInv == Init => IInv
<1> SUFFICES ASSUME Init
             PROVE  IInv
  OBVIOUS
<1>1. /\ Zero \in Bytes
      /\ <<>> \in Seq(Bytes) /\ Len(<<>>) <= Depth
  BY EmptySeq, UartAssumption
<1>2. TypeOK
  BY <1>1 DEF Init, TypeOK
<1>3. PolledIsTrue /\ PendingIsHeld /\ WaitingIsWhole
  BY DEF Init, PolledIsTrue, PendingIsHeld, WaitingIsWhole, Idle, LoadBR
<1> QED
  BY <1>2, <1>3 DEF IInv

LEMMA ClockInv ==
  ASSUME ~Overrun, IInv, Clock
  PROVE  IInv'
<1>1. PICK r \in Offered :
        /\ LsuClock(r)
        /\ RxClock(uart_rx_rd(r))
        /\ TxClock(uart_tx_we(r), IF uart_tx_we(r) THEN r.dat ELSE Zero)
  BY DEF Clock
<1>2. /\ uart_rx_rd(r) \in BOOLEAN /\ uart_tx_we(r) \in BOOLEAN
      /\ (IF uart_tx_we(r) THEN r.dat ELSE Zero) \in Bytes
      /\ Receiver /\ Transmitter
  BY <1>1, OfferedShape, UartAssumption
  DEF uart_rx_rd, uart_tx_we, load_BR, RxClock, TxClock
<1>3. /\ queue_rx' \in Seq(Bytes) /\ Len(queue_rx') <= Depth
      /\ rx_dout' \in Bytes
      /\ rx_ready /\ ~uart_rx_rd(r) => rx_ready'
  BY <1>1, <1>2, RxStep
<1>4. /\ queue_tx' \in Seq(Bytes) /\ Len(queue_tx') <= Depth
      /\ tx_dout' \in Bytes
      /\ uart_start' \in BOOLEAN
      /\ stored' \in {<<>>} \union {<<b>> : b \in Bytes}
      /\ tx_ready /\ ~uart_tx_we(r) => tx_ready'
  BY <1>1, <1>2, TxStep
<1>5. /\ lsu_req' \in {Idle, LoadBR}
      /\ uart_pending_r' \in BOOLEAN
      /\ got' \in Bytes
      /\ polled' \subseteq {"rx", "tx"}
      /\ PendingIsHeld'
      /\ "rx" \in polled' => rx_ready /\ ~uart_rx_rd(r)
      /\ "tx" \in polled' => tx_ready /\ ~uart_tx_we(r)
  BY <1>1, LsuStep
<1>6. PolledIsTrue'
  BY <1>3, <1>4, <1>5 DEF PolledIsTrue
<1>7. TypeOK'
  BY <1>2, <1>3, <1>4, <1>5, ReceiverStep, TransmitterStep DEF TypeOK, Idle, LoadBR
<1> QED
  BY <1>2, <1>5, <1>6, <1>7, ReceiverStep DEF IInv

LEMMA ResetInv ==
  ASSUME ~Overrun, IInv, Reset
  PROVE  IInv'
<1>1. TypeOK'
  <2>1. /\ Zero \in Bytes
        /\ <<>> \in Seq(Bytes) /\ Len(<<>>) <= Depth
    BY EmptySeq, UartAssumption
  <2>2. Receiver /\ Transmitter /\ uart_start' \in BOOLEAN /\ got' \in Bytes
    BY DEF Reset, Start, IInv, TypeOK
  <2> QED
    BY <2>1, <2>2, ReceiverStep, TransmitterStep DEF Reset, TypeOK
<1>2. PolledIsTrue' /\ PendingIsHeld'
  BY DEF Reset, PolledIsTrue, PendingIsHeld, Idle, LoadBR
<1> QED
  BY <1>1, <1>2, ReceiverStep DEF Reset, IInv

LEMMA NextInv ==
  ASSUME ~Overrun
  PROVE  IInv /\ [Next]_vars => IInv'
<1> SUFFICES ASSUME IInv, [Next]_vars
             PROVE  IInv'
  OBVIOUS
<1>1. CASE Clock
  BY <1>1, ClockInv
<1>2. CASE Reset
  BY <1>2, ResetInv
<1>3. CASE UNCHANGED vars
  BY <1>3
  DEF vars, lsu_vars, rx_vars, tx_vars, IInv, TypeOK, PolledIsTrue, PendingIsHeld,
      WaitingIsWhole, rx_ready, tx_ready
<1> QED
  BY <1>1, <1>2, <1>3 DEF Next

(* The inductive invariant, for every depth of the queues. *)
THEOREM Invariance ==
  ASSUME ~Overrun
  PROVE  Spec => []IInv
<1> QED
  BY InitInv, NextInv, PTL DEF Spec

(* Every register of the UART keeps its type, and neither queue is written *)
(* beyond its depth.                                                       *)
THEOREM TypeCorrect ==
  ASSUME ~Overrun
  PROVE  Spec => []TypeOK
<1>1. IInv => TypeOK
  BY DEF IInv
<1> QED
  BY <1>1, Invariance, PTL

(* A program that polls finds a byte when it loads, and room when it       *)
(* stores, however late it uses what it has polled.                        *)
THEOREM PollingIsEnough ==
  ASSUME ~Overrun
  PROVE  Spec => []PolledIsTrue
<1>1. IInv => PolledIsTrue
  BY DEF IInv
<1> QED
  BY <1>1, Invariance, PTL

-----------------------------------------------------------------------------
(* Refinement: the UART is the serial line.                                *)

\* Facts about sequences of bytes.
LEMMA Singleton == \A b \in Bytes : <<b>> \in Seq(Bytes) /\ Len(<<b>>) = 1 /\ <<b>>[1] = b
OBVIOUS

LEMMA Cons ==
  ASSUME NEW b \in Bytes, NEW q \in Seq(Bytes)
  PROVE  /\ <<b>> \o q \in Seq(Bytes)
         /\ <<b>> \o q # <<>>
         /\ Len(<<b>> \o q) = Len(q) + 1
         /\ Head(<<b>> \o q) = b
         /\ Tail(<<b>> \o q) = q
<1> DEFINE s == <<b>> \o q
<1>1. /\ s \in Seq(Bytes)
      /\ Len(s) = 1 + Len(q)
      /\ \A i \in 1 .. 1 + Len(q) : s[i] = IF i <= 1 THEN <<b>>[i] ELSE q[i - 1]
  BY Singleton, ConcatProperties
<1>2. Len(q) \in Nat
  BY LenProperties
<1> HIDE DEF s
<1>3. s # <<>>
  BY <1>1, <1>2, EmptySeq
<1>4. Head(s) = b
  BY <1>1, <1>2, Singleton
<1>5. /\ Tail(s) \in Seq(Bytes)
      /\ Len(Tail(s)) = Len(q)
      /\ \A i \in 1 .. Len(q) : Tail(s)[i] = s[i + 1]
  BY <1>1, <1>2, <1>3, HeadTailProperties
<1>6. \A i \in 1 .. Len(q) : Tail(s)[i] = q[i]
  BY <1>1, <1>2, <1>5
<1>7. Tail(s) = q
  BY <1>5, <1>6, SeqEqual
<1> QED
  BY <1>1, <1>2, <1>3, <1>4, <1>7 DEF s

LEMMA HeadOntoTail ==
  ASSUME NEW q \in Seq(Bytes), q # <<>>
  PROVE  /\ Head(q) \in Bytes
         /\ Tail(q) \in Seq(Bytes)
         /\ <<Head(q)>> \o Tail(q) = q
<1> DEFINE s == <<Head(q)>> \o Tail(q)
<1>1. /\ Head(q) \in Bytes
      /\ Tail(q) \in Seq(Bytes)
      /\ Len(Tail(q)) = Len(q) - 1
      /\ \A i \in 1 .. Len(Tail(q)) : Tail(q)[i] = q[i + 1]
  BY HeadTailProperties
<1>2. Len(q) \in Nat \ {0}
  BY EmptySeq
<1>3. /\ s \in Seq(Bytes)
      /\ Len(s) = 1 + Len(Tail(q))
      /\ \A i \in 1 .. 1 + Len(Tail(q)) :
           s[i] = IF i <= 1 THEN <<Head(q)>>[i] ELSE Tail(q)[i - 1]
  BY <1>1, Singleton, ConcatProperties
<1> HIDE DEF s
<1>4. ASSUME NEW i \in 1 .. Len(q)
      PROVE  s[i] = q[i]
  <2>1. CASE i = 1
    BY <1>1, <1>2, <1>3, <2>1, Singleton
  <2>2. CASE i # 1
    BY <1>1, <1>2, <1>3, <2>2
  <2> QED
    BY <2>1, <2>2
<1>5. s = q
  BY <1>1, <1>2, <1>3, <1>4, SeqEqual
<1> QED
  BY <1>1, <1>5 DEF s

LEMMA Associative ==
  \A s, t, u \in Seq(Bytes) : s \o t \in Seq(Bytes) /\ (s \o t) \o u = s \o (t \o u)
BY ConcatProperties, ConcatAssociative

LEMMA Dropped ==
  ASSUME NEW q \in Seq(Bytes)
  PROVE  /\ Line!Drop(0, q) = q
         /\ q # <<>> => Line!Drop(1, q) = Tail(q)
<1>1. Line!Drop(0, q) = q
  BY SubSeqFull DEF Line!Drop
<1>2. q # <<>> => Line!Drop(1, q) = Tail(q)
  BY TailIsSubSeq DEF Line!Drop
<1> QED
  BY <1>1, <1>2

\* A byte that is there in the case c.
Maybe(c, b) == IF c THEN <<b>> ELSE <<>>

LEMMA MaybeIsSeq ==
  ASSUME NEW c \in BOOLEAN, NEW b, c => b \in Bytes
  PROVE  Maybe(c, b) \in Seq(Bytes)
BY EmptySeq, Singleton DEF Maybe

LEMMA PushedIsConcat ==
  ASSUME NEW q \in Seq(Bytes), NEW wr \in BOOLEAN, NEW d, wr => d \in Bytes
  PROVE  Pushed(q, wr, d) = q \o Maybe(wr, d)
BY AppendIsConcat, ConcatEmptySeq DEF Pushed, Maybe

-----------------------------------------------------------------------------
(* Receiving.                                                              *)

InHand == Maybe(uart_pending_r, rx_dout)
Waiting == Maybe(RxD_data_ready, RxD_data)

ArrivedShape ==
  /\ {InHand, queue_rx, Waiting, Arrived, sent} \subseteq Seq(Bytes)
  /\ Arrived = InHand \o (queue_rx \o Waiting)

LEMMA ArrivedIsConcat == IInv => ArrivedShape
<1> SUFFICES ASSUME IInv
             PROVE  ArrivedShape
  OBVIOUS
<1>1. InHand \in Seq(Bytes)
  BY MaybeIsSeq DEF IInv, TypeOK, InHand
<1>2. Waiting \in Seq(Bytes)
  BY MaybeIsSeq DEF IInv, TypeOK, WaitingIsWhole, Waiting
<1>3. queue_rx \in Seq(Bytes)
  BY DEF IInv, TypeOK
<1>4. Arrived = (InHand \o queue_rx) \o Waiting
  BY DEF Arrived, InHand, Waiting, Maybe
<1>5. /\ Arrived = InHand \o (queue_rx \o Waiting)
      /\ Arrived \in Seq(Bytes)
  BY <1>1, <1>2, <1>3, <1>4, Associative
<1>6. sent \in Seq(Bytes)
  BY EmptySeq, Singleton DEF IInv, TypeOK
<1> QED
  BY <1>1, <1>2, <1>3, <1>5, <1>6 DEF ArrivedShape

LEMMA NextArrivedIsConcat == IInv' => ArrivedShape'
BY ArrivedIsConcat, PTL

\* What the receiver does to a queue that has this rest when it is popped:
\* the byte that waits moves into it, the one that comes in waits behind it.
LEMMA Received ==
  ASSUME ~Overrun, IInv, Receiver, NEW rest \in Seq(Bytes)
  PROVE  Pushed(rest, Take, RxD_data) \o Waiting' = (rest \o Waiting) \o sent'
<1>1. /\ Take \in BOOLEAN /\ RxD_data_ready \in BOOLEAN
      /\ RxD_data_ready => RxD_data \in Bytes
      /\ Take => RxD_data_ready
  BY DEF IInv, TypeOK, Take, WaitingIsWhole
<1>2. Waiting \in Seq(Bytes)
  BY ArrivedIsConcat DEF ArrivedShape
<1>3. /\ RxD_data_ready' = (~Take /\ (RxD_data_ready \/ Stop))
      /\ sent' = Maybe(Stop, RxD_data)
      /\ RxD_data_ready => sent' = <<>> /\ RxD_data' = RxD_data
      /\ Stop => RxD_data \in Bytes /\ RxD_data' = RxD_data
  BY ReceiverStep DEF Receiver, Maybe, Stop, IInv, WaitingIsWhole
<1>4. CASE Take
  <2>1. Pushed(rest, Take, RxD_data) = rest \o Waiting
    BY <1>1, <1>4, PushedIsConcat DEF Waiting, Maybe
  <2>2. Waiting' = <<>> /\ sent' = <<>>
    BY <1>1, <1>3, <1>4 DEF Waiting, Maybe
  <2> QED
    BY <2>1, <2>2
<1>5. CASE ~Take /\ RxD_data_ready
  <2>1. Waiting' = Waiting /\ sent' = <<>>
    BY <1>3, <1>5 DEF Waiting, Maybe
  <2>2. Pushed(rest, Take, RxD_data) = rest
    BY <1>5 DEF Pushed
  <2>3. (rest \o Waiting) \o <<>> = rest \o Waiting
    BY <1>2, ConcatProperties, ConcatEmptySeq
  <2> QED
    BY <2>1, <2>2, <2>3
<1>6. CASE ~RxD_data_ready
  <2>1. Waiting = <<>> /\ Waiting' = sent'
    BY <1>1, <1>3, <1>6 DEF Waiting, Maybe
  <2>2. Pushed(rest, Take, RxD_data) = rest
    BY <1>1, <1>6 DEF Pushed
  <2>3. rest \o <<>> = rest
    BY ConcatEmptySeq
  <2> QED
    BY <2>1, <2>2, <2>3
<1> QED
  BY <1>4, <1>5, <1>6

\* In its first cycle a load of the buffer register takes a byte out of the
\* queue, in its second one the program gets it.
LEMMA ProgramReads ==
  ASSUME ~Overrun, IInv, IInv', NEW r \in Offered, LsuClock(r), RxClock(uart_rx_rd(r))
  PROVE  \E reads \in {0, 1} :
           /\ reads <= Len(Arrived)
           /\ Arrived' = Line!Drop(reads, Arrived) \o sent'
           /\ got' = IF reads = 1 THEN Head(Arrived) ELSE got
<1> DEFINE rd_en == uart_rx_rd(r) /\ rx_ready
           rest == Popped(queue_rx, rd_en)
           behind == queue_rx \o Waiting
<1>1. /\ queue_rx \in Seq(Bytes) /\ Waiting \in Seq(Bytes) /\ InHand \in Seq(Bytes)
      /\ Arrived \in Seq(Bytes) /\ Len(Arrived) \in Nat
      /\ Arrived = InHand \o behind
      /\ behind \in Seq(Bytes)
      /\ sent' \in Seq(Bytes)
      /\ Arrived' = InHand' \o (queue_rx' \o Waiting')
  BY ArrivedIsConcat, NextArrivedIsConcat, ConcatProperties, LenProperties DEF ArrivedShape
<1>2. rd_en => queue_rx # <<>>
  BY DEF rx_ready
<1>3. rest \in Seq(Bytes)
  BY <1>1, <1>2, HeadTailProperties DEF Popped
<1>4. queue_rx' \o Waiting' = (rest \o Waiting) \o sent'
  <2>1. Receiver /\ queue_rx' = Pushed(rest, Take, RxD_data)
    BY DEF RxClock
  <2> HIDE DEF rest
  <2> QED
    BY <1>3, <2>1, Received
<1>5. /\ rx_dout' = Dout(queue_rx, rx_dout, rd_en)
      /\ load_BR(r) <=> r = LoadBR
      /\ uart_pending_r => r = LoadBR
      /\ r = LoadBR /\ ~uart_pending_r => rx_ready
      /\ uart_pending_r \in BOOLEAN
      /\ uart_pending_r' = IF load_BR(r) THEN ~uart_pending_r ELSE uart_pending_r
      /\ got' = IF load_BR(r) /\ uart_pending_r THEN rx_dout ELSE got
      /\ rx_dout \in Bytes
  BY OfferedShape DEF RxClock, LsuClock, IInv, TypeOK, PolledIsTrue
<1>6. CASE r = LoadBR /\ ~uart_pending_r
  <2>1. rd_en
    BY <1>5, <1>6 DEF uart_rx_rd
  <2>2. /\ InHand = <<>>
        /\ rest = Tail(queue_rx)
        /\ InHand' = <<Head(queue_rx)>>
        /\ got' = got
    BY <1>5, <1>6, <2>1 DEF InHand, Maybe, Popped, Dout
  <2>3. /\ Head(queue_rx) \in Bytes /\ Tail(queue_rx) \in Seq(Bytes)
        /\ InHand' \in Seq(Bytes)
        /\ InHand' \o Tail(queue_rx) = queue_rx
    BY <1>1, <1>2, <2>1, <2>2, HeadOntoTail, Singleton
  <2>4. Arrived = behind
    BY <1>1, <2>2, ConcatEmptySeq
  <2>5. Arrived' = InHand' \o ((Tail(queue_rx) \o Waiting) \o sent')
    BY <1>1, <1>4, <2>2
  <2> DEFINE tail == Tail(queue_rx) \o Waiting
  <2>6. tail \in Seq(Bytes)
    BY <1>1, <2>3, Associative
  <2>7. Arrived' = (InHand' \o tail) \o sent'
    <3>1. sent' \in Seq(Bytes) /\ Arrived' = InHand' \o (tail \o sent')
      BY <1>1, <2>5
    <3>2. InHand' \in Seq(Bytes)
      BY <2>3
    <3> HIDE DEF tail
    <3> QED
      BY <2>6, <3>1, <3>2, Associative
  <2>8. InHand' \o tail = behind
    <3>1. (InHand' \o Tail(queue_rx)) \o Waiting = behind
      BY <2>3
    <3>2. Waiting \in Seq(Bytes) /\ Tail(queue_rx) \in Seq(Bytes) /\ InHand' \in Seq(Bytes)
      BY <1>1, <2>3
    <3> HIDE DEF behind
    <3> QED
      BY <3>1, <3>2, Associative
  <2>9. Arrived' = Line!Drop(0, Arrived) \o sent'
    BY <1>1, <2>4, <2>7, <2>8, Dropped
  <2>10. 0 <= Len(Arrived)
    BY <1>1
  <2> QED
    BY <2>2, <2>9, <2>10
<1>7. CASE r = LoadBR /\ uart_pending_r
  <2>1. ~rd_en
    BY <1>7 DEF uart_rx_rd
  <2>2. /\ InHand = <<rx_dout>>
        /\ rest = queue_rx
        /\ InHand' = <<>>
        /\ got' = rx_dout
    BY <1>5, <1>7, <2>1 DEF InHand, Maybe, Popped
  <2>3. /\ Arrived # <<>> /\ Len(Arrived) >= 1
        /\ Head(Arrived) = rx_dout
        /\ Tail(Arrived) = behind
    <3> HIDE DEF behind
    <3> QED
      BY <1>1, <1>5, <2>2, Cons, LenProperties
  <2>4. behind \o sent' \in Seq(Bytes)
    BY <1>1, ConcatProperties
  <2>5. Arrived' = behind \o sent'
    BY <1>1, <1>4, <2>2, <2>4, ConcatEmptySeq
  <2>6. Arrived' = Line!Drop(1, Arrived) \o sent'
    BY <1>1, <2>3, <2>5, Dropped
  <2> WITNESS 1 \in {0, 1}
  <2> QED
    BY <1>1, <2>2, <2>3, <2>6
<1>8. CASE r # LoadBR
  <2>1. ~rd_en
    BY <1>5, <1>8 DEF uart_rx_rd
  <2>2. /\ InHand = <<>>
        /\ rest = queue_rx
        /\ InHand' = <<>>
        /\ got' = got
    BY <1>5, <1>8, <2>1 DEF InHand, Maybe, Popped
  <2>3. Arrived = behind /\ behind \o sent' \in Seq(Bytes)
    BY <1>1, <2>2, ConcatEmptySeq, ConcatProperties
  <2>4. Arrived' = behind \o sent'
    BY <1>1, <1>4, <2>2, <2>3, ConcatEmptySeq
  <2>5. Arrived' = Line!Drop(0, Arrived) \o sent'
    BY <1>1, <2>3, <2>4, Dropped
  <2>6. 0 <= Len(Arrived)
    BY <1>1
  <2> QED
    BY <2>2, <2>5, <2>6
<1> QED
  BY <1>6, <1>7, <1>8

-----------------------------------------------------------------------------
(* Sending.                                                                *)

OnItsWay == IF TxD_busy THEN <<TxD_shift>> ELSE Maybe(uart_start, tx_dout)

LeavingShape == /\ {OnItsWay, queue_tx, Leaving, stored} \subseteq Seq(Bytes)
                /\ Leaving = OnItsWay \o queue_tx

LEMMA LeavingIsConcat == IInv => LeavingShape
<1> SUFFICES ASSUME IInv
             PROVE  LeavingShape
  OBVIOUS
<1>1. OnItsWay \in Seq(Bytes)
  BY MaybeIsSeq, Singleton DEF IInv, TypeOK, OnItsWay
<1>2. queue_tx \in Seq(Bytes)
  BY DEF IInv, TypeOK
<1>3. Leaving = OnItsWay \o queue_tx
  BY DEF Leaving, OnItsWay, Maybe
<1>4. stored \in Seq(Bytes)
  BY EmptySeq, Singleton DEF IInv, TypeOK
<1> QED
  BY <1>1, <1>2, <1>3, <1>4, ConcatProperties DEF LeavingShape

LEMMA NextLeavingIsConcat == IInv' => LeavingShape'
BY LeavingIsConcat, PTL

\* A byte is on its way to the host until the end of its stop bit.
LEMMA HostReads ==
  ASSUME IInv, IInv', NEW we \in BOOLEAN, NEW din \in Bytes, TxClock(we, din)
  PROVE  \E host_reads \in {0, 1} :
           /\ host_reads <= Len(Leaving)
           /\ Leaving' = Line!Drop(host_reads, Leaving) \o stored'
<1> DEFINE rest == Popped(queue_tx, queue_tx_pop)
<1>1. /\ OnItsWay \in Seq(Bytes) /\ queue_tx \in Seq(Bytes)
      /\ Leaving \in Seq(Bytes) /\ Len(Leaving) \in Nat
      /\ Leaving = OnItsWay \o queue_tx
      /\ stored' \in Seq(Bytes)
      /\ Leaving' = OnItsWay' \o queue_tx'
  BY LeavingIsConcat, NextLeavingIsConcat, LenProperties DEF LeavingShape
<1>2. queue_tx_pop => queue_tx # <<>>
  BY DEF queue_tx_pop
<1>3. rest \in Seq(Bytes)
  BY <1>1, <1>2, HeadTailProperties DEF Popped
<1>4. queue_tx' = rest \o stored'
  <2> DEFINE wr_en == we /\ tx_ready
  <2>1. /\ queue_tx' = Pushed(rest, wr_en, din)
        /\ stored' = Maybe(wr_en, din)
        /\ wr_en \in BOOLEAN
    BY DEF TxClock, Maybe
  <2> HIDE DEF rest, wr_en
  <2> QED
    BY <1>3, <2>1, PushedIsConcat
<1>5. /\ tx_dout' = Dout(queue_tx, tx_dout, queue_tx_pop)
      /\ uart_start' = Start
      /\ Transmitter
      /\ TxD_busy \in BOOLEAN /\ TxD_busy' \in BOOLEAN /\ uart_start \in BOOLEAN
      /\ TxD_shift \in Bytes /\ tx_dout \in Bytes
  BY DEF TxClock, IInv, TypeOK
<1>6. CASE ~queue_tx_pop /\ OnItsWay' = OnItsWay
  <2>1. rest = queue_tx
    BY <1>6 DEF Popped
  <2>2. Leaving' = OnItsWay \o (queue_tx \o stored')
    BY <1>1, <1>4, <1>6, <2>1
  <2>3. Leaving' = Leaving \o stored'
    <3>1. /\ OnItsWay \in Seq(Bytes) /\ queue_tx \in Seq(Bytes) /\ stored' \in Seq(Bytes)
          /\ Leaving = OnItsWay \o queue_tx
      BY <1>1
    <3> QED
      BY <2>2, <3>1, Associative
  <2>4. Leaving' = Line!Drop(0, Leaving) \o stored'
    BY <1>1, <2>3, Dropped
  <2>5. 0 <= Len(Leaving)
    BY <1>1
  <2> QED
    BY <2>4, <2>5
<1>7. CASE TxD_busy /\ ~TxD_busy'
  <2>1. /\ OnItsWay = <<TxD_shift>>
        /\ OnItsWay' = <<>>
        /\ rest = queue_tx
    BY <1>5, <1>7 DEF OnItsWay, Maybe, Start, queue_tx_pop, Popped
  <2>2. Leaving # <<>> /\ Tail(Leaving) = queue_tx /\ Len(Leaving) >= 1
    BY <1>1, <1>5, <2>1, Cons, LenProperties
  <2>3. queue_tx \o stored' \in Seq(Bytes)
    BY <1>1, ConcatProperties
  <2>4. Leaving' = queue_tx \o stored'
    BY <1>1, <1>4, <2>1, <2>3, ConcatEmptySeq
  <2>5. Leaving' = Line!Drop(1, Leaving) \o stored'
    BY <1>1, <2>2, <2>4, Dropped
  <2> WITNESS 1 \in {0, 1}
  <2> QED
    BY <1>1, <2>2, <2>5
<1>8. CASE queue_tx_pop
  <2>1. ~TxD_busy /\ ~uart_start /\ queue_tx # <<>>
    BY <1>5, <1>8 DEF queue_tx_pop
  <2>2. /\ OnItsWay = <<>>
        /\ OnItsWay' = <<Head(queue_tx)>>
        /\ rest = Tail(queue_tx)
    BY <1>5, <1>8, <2>1, TransmitterStep DEF OnItsWay, Maybe, Start, Dout, Popped
  <2>3. /\ Tail(queue_tx) \in Seq(Bytes) /\ OnItsWay' \in Seq(Bytes)
        /\ OnItsWay' \o Tail(queue_tx) = queue_tx
    BY <1>1, <2>1, <2>2, HeadOntoTail, Singleton
  <2>4. Leaving = queue_tx
    BY <1>1, <2>2, ConcatEmptySeq
  <2>5. Leaving' = OnItsWay' \o (Tail(queue_tx) \o stored')
    BY <1>1, <1>4, <2>2
  <2>6. Leaving' = Leaving \o stored'
    <3>1. stored' \in Seq(Bytes)
      BY <1>1
    <3>2. (OnItsWay' \o Tail(queue_tx)) \o stored' = OnItsWay' \o (Tail(queue_tx) \o stored')
      BY <2>3, <3>1, Associative
    <3> QED
      BY <2>3, <2>4, <2>5, <3>2
  <2>7. Leaving' = Line!Drop(0, Leaving) \o stored'
    BY <1>1, <2>6, Dropped
  <2>8. 0 <= Len(Leaving)
    BY <1>1
  <2> QED
    BY <2>7, <2>8
<1>9. ~queue_tx_pop => OnItsWay' = OnItsWay \/ (TxD_busy /\ ~TxD_busy')
  BY <1>5, TransmitterStep DEF OnItsWay, Maybe, Start, queue_tx_pop
<1> QED
  BY <1>6, <1>7, <1>8, <1>9

-----------------------------------------------------------------------------
(* The steps of the UART are steps of the line.                            *)

LEMMA ClockIsLineClock ==
  ASSUME ~Overrun, IInv, Clock
  PROVE  Line!Clock
<1>1. PICK r \in Offered :
        /\ LsuClock(r)
        /\ RxClock(uart_rx_rd(r))
        /\ TxClock(uart_tx_we(r), IF uart_tx_we(r) THEN r.dat ELSE Zero)
  BY DEF Clock
<1>2. IInv'
  BY ClockInv
<1>3. PICK reads \in {0, 1} :
        /\ reads <= Len(Arrived)
        /\ Arrived' = Line!Drop(reads, Arrived) \o sent'
        /\ got' = IF reads = 1 THEN Head(Arrived) ELSE got
  BY <1>1, <1>2, ProgramReads
<1>4. /\ uart_tx_we(r) \in BOOLEAN
      /\ (IF uart_tx_we(r) THEN r.dat ELSE Zero) \in Bytes
  BY OfferedShape, UartAssumption DEF uart_tx_we
<1>5. PICK host_reads \in {0, 1} :
        /\ host_reads <= Len(Leaving)
        /\ Leaving' = Line!Drop(host_reads, Leaving) \o stored'
  BY <1>1, <1>2, <1>4, HostReads
<1>6. sent' \in Line!MaybeByte /\ stored' \in Line!MaybeByte
  BY <1>2 DEF IInv, TypeOK, Line!MaybeByte
<1> QED
  BY <1>3, <1>5, <1>6 DEF Line!Clock

\* What is in the serialisers survives the reset.
LEMMA ResetIsLineReset ==
  ASSUME ~Overrun, IInv, Reset
  PROVE  Line!Reset
<1>1. IInv'
  BY ResetInv
<1>2. sent' \in Line!MaybeByte /\ stored' = <<>> /\ got' = got
  BY <1>1 DEF Reset, IInv, TypeOK, Line!MaybeByte
<1>3. Arrived' \in {<<>>, sent'} \union (IF Arrived = <<>> THEN {} ELSE {<<Arrived[Len(Arrived)]>>})
  <2>1. Arrived' = Maybe(RxD_data_ready, RxD_data)'
    BY DEF Reset, Arrived, Maybe
  <2>2. CASE ~RxD_data_ready'
    BY <2>1, <2>2 DEF Maybe
  <2>3. CASE RxD_data_ready' /\ ~RxD_data_ready
    BY <2>1, <2>3, ReceiverStep DEF Reset, Receiver, Maybe
  <2>4. CASE RxD_data_ready' /\ RxD_data_ready
    <3>1. Arrived' = <<RxD_data>>
      BY <2>1, <2>4, ReceiverStep DEF Reset, Maybe
    <3>2. Arrived # <<>> /\ Arrived[Len(Arrived)] = RxD_data
      <4> DEFINE s == InHand \o queue_rx
      <4>1. s \in Seq(Bytes) /\ Arrived = s \o <<RxD_data>> /\ RxD_data \in Bytes
        BY <2>4, ArrivedIsConcat, Associative
        DEF ArrivedShape, Arrived, InHand, Maybe, IInv, WaitingIsWhole
      <4> HIDE DEF s
      <4>2. Arrived = Append(s, RxD_data)
        BY <4>1, AppendIsConcat
      <4>3. Len(Arrived) = Len(s) + 1
        BY <4>1, <4>2, AppendProperties
      <4> QED
        BY <4>1, <4>2, <4>3, AppendProperties
    <3> QED
      BY <3>1, <3>2
  <2> QED
    BY <2>2, <2>3, <2>4
<1>4. Leaving' \in {<<>>} \union (IF Leaving = <<>> THEN {} ELSE {<<Head(Leaving)>>, <<Zero>>})
  <2>1. Leaving' = OnItsWay'
    <3>1. OnItsWay' \in Seq(Bytes) /\ Leaving' = OnItsWay' \o <<>>
      BY <1>1, NextLeavingIsConcat DEF LeavingShape, Reset
    <3> QED
      BY <3>1, ConcatEmptySeq
  <2>2. /\ OnItsWay \in Seq(Bytes) /\ queue_tx \in Seq(Bytes)
        /\ Leaving = OnItsWay \o queue_tx
        /\ TxD_busy \in BOOLEAN /\ uart_start \in BOOLEAN
        /\ TxD_shift \in Bytes /\ tx_dout \in Bytes
    BY LeavingIsConcat DEF LeavingShape, IInv, TypeOK
  <2>3. Transmitter /\ uart_start' = Start /\ tx_dout' = Zero
    BY DEF Reset
  <2>4. CASE TxD_busy
    <3>1. OnItsWay' \in {<<>>, <<TxD_shift>>}
      BY <2>3, <2>4, TransmitterStep DEF OnItsWay, Maybe, Start
    <3>2. Leaving = <<TxD_shift>> \o queue_tx
      BY <2>2, <2>4 DEF OnItsWay
    <3>3. Leaving # <<>> /\ Head(Leaving) = TxD_shift
      BY <2>2, <3>2, Cons
    <3> QED
      BY <2>1, <3>1, <3>3
  <2>5. CASE ~TxD_busy /\ uart_start
    <3>1. OnItsWay' = <<tx_dout>>
      BY <2>3, <2>5, TransmitterStep DEF OnItsWay
    <3>2. Leaving = <<tx_dout>> \o queue_tx
      BY <2>2, <2>5 DEF OnItsWay, Maybe
    <3>3. Leaving # <<>> /\ Head(Leaving) = tx_dout
      BY <2>2, <3>2, Cons
    <3> QED
      BY <2>1, <3>1, <3>3
  <2>6. CASE ~TxD_busy /\ ~uart_start
    <3>1. OnItsWay' = IF queue_tx = <<>> THEN <<>> ELSE <<Zero>>
      BY <2>3, <2>6, TransmitterStep DEF OnItsWay, Maybe, Start
    <3>2. Leaving = queue_tx
      BY <2>2, <2>6, ConcatEmptySeq DEF OnItsWay, Maybe
    <3> QED
      BY <2>1, <3>1, <3>2
  <2> QED
    BY <2>2, <2>4, <2>5, <2>6
<1> QED
  BY <1>2, <1>3, <1>4 DEF Line!Reset

LEMMA RefinementInit == Init => Line!Init
<1> SUFFICES ASSUME Init
             PROVE  Line!Init
  OBVIOUS
<1>1. <<>> \o <<>> = <<>>
  BY ConcatEmptySeq, EmptySeq
<1> QED
  BY <1>1 DEF Init, Line!Init, Arrived, Leaving

LEMMA RefinementStep ==
  ASSUME ~Overrun
  PROVE  IInv /\ [Next]_vars => [Line!Next]_(Line!line_vars)
<1> SUFFICES ASSUME IInv, [Next]_vars
             PROVE  Line!Next \/ UNCHANGED Line!line_vars
  OBVIOUS
<1>1. CASE Clock
  BY <1>1, ClockIsLineClock DEF Line!Next
<1>2. CASE Reset
  BY <1>2, ResetIsLineReset DEF Line!Next
<1>3. CASE UNCHANGED vars
  BY <1>3
  DEF vars, lsu_vars, rx_vars, tx_vars, Line!line_vars, Line!port_vars, Arrived, Leaving
<1> QED
  BY <1>1, <1>2, <1>3 DEF Next

(* The UART is a serial line with a queue in each direction, for every     *)
(* depth and every set of bytes, as long as no frame is shifted over a     *)
(* byte that waits for room: bytes arrive once, whole and in order, and a  *)
(* reset loses what is queued and nothing else.                            *)
THEOREM Refinement ==
  ASSUME ~Overrun
  PROVE  Spec => PortIsSerial
<1> QED
  BY RefinementInit, RefinementStep, Invariance, PTL
  DEF Spec, PortIsSerial, Line!Spec
=============================================================================
