----------------------------- MODULE SerialPort -----------------------------
(***************************************************************************)
(* uart.cc: the serial port as a program and its host see it, a queue in   *)
(* each direction. The terminal of the simulator is built on it, and it is *)
(* what the UART of the hardware has to look like.                         *)
(***************************************************************************)
EXTENDS Sequences

CONSTANT Bytes   \* what is sent

VARIABLES
  que_tx,   \* from the host to the program
  que_rx,   \* from the program to the host
  got       \* what the program read last

port_vars == <<que_tx, que_rx, got>>

uart_rx_ready == que_tx # <<>>
uart_host_rx_ready == que_rx # <<>>

uart_write(dat) == que_rx' = Append(que_rx, dat)

\* Reading asserts that something is there.
uart_read == /\ uart_rx_ready
             /\ got' = Head(que_tx)
             /\ que_tx' = Tail(que_tx)

uart_host_tx(buf) == que_tx' = que_tx \o buf

uart_host_rx == /\ uart_host_rx_ready
                /\ que_rx' = Tail(que_rx)

=============================================================================
