------------------------------- MODULE MCUart -------------------------------
(* Queues of two bytes, and two bytes, one of them the zero of a reset.    *)
EXTENDS Uart, TLC
=============================================================================
