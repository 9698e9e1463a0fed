-------------------------------- MODULE Uart --------------------------------
(***************************************************************************)
(* The serial port of the processor: the UART registers of yamp32_lsu.v,   *)
(* the two queues of uart.v, and the serialisers of async.v.               *)
(*                                                                         *)
(* Clock is one rising edge. The eight data bits of a frame are one state  *)
(* of their serialiser, which lasts any number of clocks. The program      *)
(* (external) polls a bit of the status register before it uses the buffer *)
(* register in that direction.                                             *)
(*                                                                         *)
(* There is no flow control: a byte the receive queue has no room for      *)
(* waits in the receiver, and the next frame is shifted over it. A byte    *)
(* takes 125000 clocks at 9600 baud and 120 MHz, so a program that reads   *)
(* what it has asked for is in time. Overrun says whether it may be late.  *)
(***************************************************************************)
EXTENDS Integers, Sequences

CONSTANTS
  Bytes,    \* among them Zero
  Zero,
  Torn,     \* a byte that is partly shifted in
  Depth,    \* of a queue, 16 in the code
  Overrun   \* whether a frame may arrive while a byte waits for room

ASSUME UartAssumption == /\ Depth \in Nat \ {0}
                         /\ Zero \in Bytes
                         /\ Torn \notin Bytes
                         /\ Overrun \in BOOLEAN

VARIABLES
  lsu_req,          \* the operation the LSU holds the pipeline for
  uart_pending_r,
  polled,           \* the program: bits it has seen set and not used
  got,              \* the program: what it read last
  queue_rx, rx_dout,   \* a queue and its output register
  RxD_state, RxD_data, RxD_data_ready,
  queue_tx, tx_dout,
  uart_start,
  TxD_busy, TxD_shift,
  sent, stored      \* history: bytes that came in whole, were stored, in this period

lsu_vars == <<lsu_req, uart_pending_r, polled, got>>
rx_vars == <<queue_rx, rx_dout, RxD_state, RxD_data, RxD_data_ready, sent>>
tx_vars == <<queue_tx, tx_dout, uart_start, TxD_busy, TxD_shift, stored>>
vars == <<lsu_vars, rx_vars, tx_vars>>

-----------------------------------------------------------------------------
(* The registers in the LSU.                                               *)

Idle == [op |-> "none"]
LoadBR == [op |-> "load_BR"]
LoadSR == [op |-> "load_SR"]
StoreBR(b) == [op |-> "store_BR", dat |-> b]

Offered == IF lsu_req # Idle THEN {lsu_req}
           ELSE {Idle, LoadSR}
                \union (IF "rx" \in polled THEN {LoadBR} ELSE {})
                \union (IF "tx" \in polled THEN {StoreBR(b) : b \in Bytes} ELSE {})

load_BR(r) == r.op = "load_BR"

\* The request in both cycles of a load.
uart_rx_rdTwice(r) == load_BR(r)
uart_rx_rd(r) == load_BR(r) /\ ~uart_pending_r

stall_uart(r) == load_BR(r) /\ ~uart_pending_r

uart_tx_we(r) == r.op = "store_BR"

rx_ready == queue_rx # <<>>
tx_ready == Len(queue_tx) < Depth

\* The other half of the ready bit, the stores on their way (MemorySystem),
\* may delay it at any time.
StatusBits(busy_n) == (IF rx_ready THEN {"rx"} ELSE {})
                      \union (IF tx_ready /\ busy_n THEN {"tx"} ELSE {})

LsuClock(r) ==
  /\ lsu_req' = IF stall_uart(r) THEN r ELSE Idle
  /\ uart_pending_r' = IF load_BR(r) THEN ~uart_pending_r ELSE uart_pending_r
  /\ got' = IF load_BR(r) /\ uart_pending_r THEN rx_dout ELSE got
  /\ \E busy_n \in BOOLEAN :
       polled' = CASE r = LoadSR -> StatusBits(busy_n)
                   [] load_BR(r) -> polled \ {"rx"}
                   [] uart_tx_we(r) -> polled \ {"tx"}
                   [] OTHER -> polled

-----------------------------------------------------------------------------
(* A queue (external, fifo_uart_queue in standard mode): a word leaves it  *)
(* for the output register.                                                *)

Pushed(q, wr_en, din) == IF wr_en THEN Append(q, din) ELSE q
Popped(q, rd_en) == IF rd_en THEN Tail(q) ELSE q
Dout(q, dout, rd_en) == IF rd_en THEN Head(q) ELSE dout

-----------------------------------------------------------------------------
(* Receiving.                                                              *)

\* RxD_clear, which also writes the byte to the queue.
TakeRegardless == RxD_data_ready
Take == RxD_data_ready /\ Len(queue_rx) < Depth

\* The stop bit is sampled.
Stop == RxD_state = "stop" /\ RxD_state' = "idle"

Receiver ==
  /\ \/ UNCHANGED <<RxD_state, RxD_data>>
     \/ RxD_state = "idle" /\ RxD_state' = "start" /\ UNCHANGED RxD_data
     \/ /\ RxD_state = "start" /\ RxD_state' = "bits"
        /\ RxD_data_ready => Overrun
        /\ RxD_data' = Torn
     \/ RxD_state = "bits" /\ RxD_state' = "stop" /\ RxD_data' \in Bytes
     \/ RxD_state = "stop" /\ RxD_state' = "idle" /\ UNCHANGED RxD_data
  /\ RxD_data_ready' = (~Take /\ (RxD_data_ready \/ Stop))
  /\ sent' = IF Stop THEN <<RxD_data>> ELSE <<>>

RxClock(rx_rd) ==
  LET rd_en == rx_rd /\ rx_ready
  IN /\ queue_rx' = Pushed(Popped(queue_rx, rd_en), Take, RxD_data)
     /\ rx_dout' = Dout(queue_rx, rx_dout, rd_en)
     /\ Receiver

-----------------------------------------------------------------------------
(* Sending.                                                                *)

queue_tx_pop == ~(uart_start \/ TxD_busy) /\ queue_tx # <<>>

\* Without regard to the frame on the line.
StartBlindly == queue_tx # <<>>
Start == ~TxD_busy /\ queue_tx # <<>>

\* The stop bit ends, or a frame begins.
Finish == TxD_busy /\ ~TxD_busy'
Transmitter == IF TxD_busy
               THEN TxD_busy' \in BOOLEAN /\ UNCHANGED TxD_shift
               ELSE /\ TxD_busy' = uart_start
                    /\ TxD_shift' = IF uart_start THEN tx_dout ELSE TxD_shift

TxClock(tx_we, tx_din) ==
  LET wr_en == tx_we /\ tx_ready
  IN /\ queue_tx' = Pushed(Popped(queue_tx, queue_tx_pop), wr_en, tx_din)
     /\ tx_dout' = Dout(queue_tx, tx_dout, queue_tx_pop)
     /\ stored' = IF wr_en THEN <<tx_din>> ELSE <<>>
     /\ uart_start' = Start
     /\ Transmitter

-----------------------------------------------------------------------------

Clock == \E r \in Offered :
           /\ LsuClock(r)
           /\ RxClock(uart_rx_rd(r))
           /\ TxClock(uart_tx_we(r), IF uart_tx_we(r) THEN r.dat ELSE Zero)

\* A clock edge with reset low. It clears the queues with their output
\* registers and what is in the LSU, but not uart_start nor the serialisers.
Reset == /\ lsu_req' = Idle
         /\ uart_pending_r' = FALSE
         /\ polled' = {}
         /\ queue_rx' = <<>> /\ rx_dout' = Zero
         /\ queue_tx' = <<>> /\ tx_dout' = Zero
         /\ stored' = <<>>
         /\ uart_start' = Start
         /\ Receiver
         /\ Transmitter
         /\ UNCHANGED got

Init == /\ lsu_req = Idle /\ uart_pending_r = FALSE /\ polled = {} /\ got = Zero
        /\ queue_rx = <<>> /\ rx_dout = Zero
        /\ RxD_state = "idle" /\ RxD_data = Zero /\ RxD_data_ready = FALSE
        /\ queue_tx = <<>> /\ tx_dout = Zero /\ uart_start = FALSE
        /\ TxD_busy = FALSE /\ TxD_shift = Zero
        /\ sent = <<>> /\ stored = <<>>

Next == Clock \/ Reset

Spec == Init /\ [][Next]_vars

\* The clock never stops, and a frame has an end.
FairSpec == Spec /\ WF_vars(Clock) /\ WF_vars(Clock /\ Finish)

-----------------------------------------------------------------------------
(* Type correctness. The queues never hold more than they have room for.   *)
TypeOK == /\ {uart_pending_r, RxD_data_ready, uart_start, TxD_busy} \subseteq BOOLEAN
          /\ lsu_req \in {Idle, LoadBR}
          /\ polled \subseteq {"rx", "tx"}
          /\ {got, rx_dout, tx_dout, TxD_shift} \subseteq Bytes
          /\ RxD_state \in {"idle", "start", "bits", "stop"}
          /\ RxD_data \in Bytes \union {Torn}
          /\ \A q \in {queue_rx, queue_tx} : q \in Seq(Bytes) /\ Len(q) <= Depth
          /\ {sent, stored} \subseteq {<<>>} \union {<<b>> : b \in Bytes}

\* Bytes that have arrived and that the program has not read.
Arrived == (IF uart_pending_r THEN <<rx_dout>> ELSE <<>>)
           \o queue_rx
           \o (IF RxD_data_ready THEN <<RxD_data>> ELSE <<>>)

\* Bytes the program has stored and the host has not got in full.
Leaving == (IF TxD_busy THEN <<TxD_shift>>
            ELSE IF uart_start THEN <<tx_dout>> ELSE <<>>)
           \o queue_tx

Line == INSTANCE SerialLine WITH que_tx <- Arrived, que_rx <- Leaving

(* The UART with its registers is a pair of queues: in both directions the *)
(* bytes arrive once, in order and whole, whatever the two sides and the   *)
(* serialisers do at the same time, and a reset loses what is queued and   *)
(* nothing else.                                                           *)
PortIsSerial == Line!Spec

(* A transmit queue that is full does not stay full: the program that      *)
(* polls for room gets it.                                                 *)
TransmitterDrains == ~tx_ready ~> tx_ready
=============================================================================
