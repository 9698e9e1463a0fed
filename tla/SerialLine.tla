----------------------------- MODULE SerialLine -----------------------------
(***************************************************************************)
(* What the UART of the hardware promises: the serial port of uart.cc with *)
(* a clock, in one period of which each end may put a byte into its queue  *)
(* and take one from the other, and with a reset.                          *)
(***************************************************************************)
EXTENDS SerialPort, Naturals

CONSTANT Zero   \* what the output register of a queue holds after reset

VARIABLES
  sent,    \* the byte the host sent in this period, if any
  stored   \* the byte the program stored in this period, if any

line_vars == <<port_vars, sent, stored>>

MaybeByte == {<<>>} \union {<<b>> : b \in Bytes}

\* The queue without its first n bytes.
Drop(n, que) == SubSeq(que, n + 1, Len(que))

Clock == \E reads, host_reads \in {0, 1} :
           /\ reads <= Len(que_tx) /\ host_reads <= Len(que_rx)
           /\ sent' \in MaybeByte /\ stored' \in MaybeByte
           /\ que_tx' = Drop(reads, que_tx) \o sent'
           /\ got' = IF reads = 1 THEN Head(que_tx) ELSE got
           /\ que_rx' = Drop(host_reads, que_rx) \o stored'

\* A reset forgets what is queued. What the serialisers have in hand they
\* finish: the byte that came in last, if there was no room for it yet or it
\* comes in just now, and the byte going out, for which a zero may stand if
\* its transmission was just to begin.
Reset ==
  /\ sent' \in MaybeByte /\ stored' = <<>>
  /\ que_tx' \in {<<>>, sent'} \union (IF que_tx = <<>> THEN {} ELSE {<<que_tx[Len(que_tx)]>>})
  /\ que_rx' \in {<<>>} \union (IF que_rx = <<>> THEN {} ELSE {<<Head(que_rx)>>, <<Zero>>})
  /\ UNCHANGED got

Init == /\ que_tx = <<>> /\ que_rx = <<>> /\ got = Zero
        /\ sent = <<>> /\ stored = <<>>

Next == Clock \/ Reset

Spec == Init /\ [][Next]_line_vars
=============================================================================
