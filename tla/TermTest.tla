------------------------------ MODULE TermTest ------------------------------
(***************************************************************************)
(* termtest.cc: the host of a test. It waits for the boot message of the   *)
(* monitor, writes the test program word by word ('A'), reads it back      *)
(* ('D'), starts it ('G'), and times what passes between the two marks     *)
(* that the monitor sends before and after the program runs.               *)
(*                                                                         *)
(* One element of the queues stands for a command with its operands, or    *)
(* for a word of an answer.                                                *)
(***************************************************************************)
EXTENDS SerialPort, Integers, SequencesExt

CONSTANTS
  BootMesg,   \* the words of the boot message
  TestBin,    \* the words of the test program
  Addr        \* where they go

VARIABLES
  state,         \* Verify after the end mark: if it stays, the result is wrong;
                 \* Aborted if another assertion has failed
  expectedLen,   \* length of the answer awaited
  recvbuf,       \* and what has come of it
  time_start, time_elapsed

term_vars == <<state, expectedLen, recvbuf, time_start, time_elapsed>>

StartMark == "0x06"
EndMark == "0x07"

WordAddr(k) == Addr + 4 * (k - 1)
WriteProgram == [k \in 1 .. Len(TestBin) |->
                   [cmd |-> "A", addr |-> WordAddr(k), dat |-> TestBin[k]]]
ReadProgram == [cmd |-> "D", addr |-> Addr, len |-> Len(TestBin)]
RunProgram == [cmd |-> "G", addr |-> Addr]

\* The answer may be longer than what it is compared with.
cmp_buf(dst, buf) == IsPrefix(buf, dst)

-----------------------------------------------------------------------------

\* Neither recvbuf nor the queues are cleared.
termtest_init == /\ state' = "WaitBoot"
                 /\ expectedLen' = Len(BootMesg)
                 /\ UNCHANGED <<recvbuf, time_start, time_elapsed>>

termtest_done == state = "Done"

\* At most one byte is taken from the queue in a call.
Received == IF uart_host_rx_ready THEN Append(recvbuf, Head(que_rx)) ELSE recvbuf
TakeByte == IF uart_host_rx_ready THEN uart_host_rx ELSE UNCHANGED que_rx

Collect == /\ Len(Received) < expectedLen
           /\ recvbuf' = Received
           /\ UNCHANGED <<que_tx, state, expectedLen, time_start, time_elapsed>>

Answer(s) == /\ state = s
             /\ Len(Received) >= expectedLen
             /\ recvbuf' = <<>>

\* As if a word less were awaited than is asked for.
WaitBootOneShort == /\ Answer("WaitBoot")
                    /\ cmp_buf(Received, BootMesg)
                    /\ uart_host_tx(Append(WriteProgram, ReadProgram))
                    /\ state' = "RunD"
                    /\ expectedLen' = Len(TestBin) - 1
                    /\ UNCHANGED <<time_start, time_elapsed>>

WaitBoot == /\ Answer("WaitBoot")
            /\ cmp_buf(Received, BootMesg)
            /\ uart_host_tx(Append(WriteProgram, ReadProgram))
            /\ state' = "RunD"
            /\ expectedLen' = Len(TestBin)
            /\ UNCHANGED <<time_start, time_elapsed>>

RunD == /\ Answer("RunD")
        /\ cmp_buf(Received, TestBin)
        /\ uart_host_tx(<<RunProgram>>)
        /\ state' = "RunG"
        /\ expectedLen' = 1
        /\ UNCHANGED <<time_start, time_elapsed>>

RunG(now) == /\ Answer("RunG")
             /\ Received[1] = StartMark
             /\ time_start' = now
             /\ state' = "WaitG"
             /\ expectedLen' = 1
             /\ UNCHANGED <<que_tx, time_elapsed>>

\* verified: the memory holds the expected result.
WaitG(now, verified) == /\ Answer("WaitG")
                        /\ Received[1] = EndMark
                        /\ verified
                        /\ time_elapsed' = now - time_start
                        /\ state' = "Done"
                        /\ UNCHANGED <<que_tx, expectedLen, time_start>>

\* The program ends in the comparison of the memory with the result.
Mismatch(now, verified) == /\ state = "WaitG"
                           /\ Len(Received) >= expectedLen
                           /\ Received[1] = EndMark
                           /\ ~verified
                           /\ time_elapsed' = now - time_start
                           /\ state' = "Verify"
                           /\ recvbuf' = Received
                           /\ UNCHANGED <<que_tx, expectedLen, time_start>>

\* An answer that is not the one awaited ends the program, too.
Unexpected ==
  \/ state = "WaitBoot" /\ ~cmp_buf(Received, BootMesg)
  \/ state = "RunD" /\ ~cmp_buf(Received, TestBin)
  \/ state = "RunG" /\ Received[1] # StartMark
  \/ state = "WaitG" /\ Received[1] # EndMark

Abort == /\ Len(Received) >= expectedLen
         /\ Unexpected
         /\ state' = "Aborted"
         /\ recvbuf' = Received
         /\ UNCHANGED <<que_tx, expectedLen, time_start, time_elapsed>>

termtest_clk(now, verified) ==
  /\ TakeByte
  /\ \/ Collect
     \/ WaitBoot
     \/ RunD
     \/ RunG(now)
     \/ WaitG(now, verified)
     \/ Mismatch(now, verified)
     \/ Abort
=============================================================================
