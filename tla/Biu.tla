-------------------------------- MODULE Biu ---------------------------------
(***************************************************************************)
(* yamp32_biu.v: the controller of one external SRAM chip, and the chip.   *)
(* It serves three requesters in fixed priority: buffered stores, loads,   *)
(* and the burst reads that fill an instruction cache line. ExtRAM has the *)
(* same machine without the burst states.                                  *)
(*                                                                         *)
(* A requester is a set: the request it holds on its wires, or {} while    *)
(* its valid signal is low. Clock is one rising edge of i_clk; oe, we and  *)
(* be are the chip's oe_n, we_n and be_n with positive sense.              *)
(***************************************************************************)
EXTENDS Integers, FiniteSets

CONSTANTS
  Words,    \* words of the RAM (2^20 in the code), addressed from 0
  BurstLen, \* words of a burst, 2^(P_BASERAM_BURST_LINE-2) in the code
  Lanes,    \* byte lanes of a word (4 in the code)
  Byte      \* what a lane may hold

ASSUME BiuAssumption == /\ BurstLen \in Nat \ {0}
                        /\ Words \in Nat \ {0}
                        /\ Words % BurstLen = 0

VARIABLES
  status, burst_cnt,         \* the FSM and its count of words to go
  addr, wdat, be, oe, we,    \* the pin registers
  br_ack, rsp_valid,         \* answers to the burst and to the load
  ram                        \* the chip

biu_vars == <<status, burst_cnt, addr, wdat, be, oe, we, br_ack, rsp_valid, ram>>

Addr == 0 .. Words - 1
Word == [Lanes -> Byte]
Write == [addr : Addr, dat : Word, be : SUBSET Lanes]
Bursts == {"BURST_READ_1", "BURST_READ_2"}
States == {"IDLE", "WRITE_1", "WRITE_2", "READ_1", "READ_2"} \union Bursts

-----------------------------------------------------------------------------
(* The pins. While oe is low the controller drives the data bus.           *)

bus == IF oe THEN ram[addr] ELSE wdat

\* A word after a write of the lanes in b.
Merge(old, dat, b) == [l \in Lanes |-> IF l \in b THEN dat[l] ELSE old[l]]

\* The write a designer would make without the byte enables.
StoredAllLanes == IF we THEN [ram EXCEPT ![addr] = bus] ELSE ram

\* The chip writes on the rising edge of we_n, whatever the bus then holds.
Stored == IF we THEN [ram EXCEPT ![addr] = Merge(@, bus, be)] ELSE ram

\* Ready one state too early, while the last write still has to finish.
reqw_readyEarly == status \in {"IDLE", "WRITE_2"}
reqw_ready == status = "IDLE"
reqr_ready(reqw) == status = "IDLE" /\ reqw = {}

-----------------------------------------------------------------------------
(* The FSM, one action for each alternative of its case statement.         *)

AcceptWrite(w) == /\ status = "IDLE"
                  /\ addr' = w.addr
                  /\ wdat' = w.dat
                  /\ be' = w.be
                  /\ we' = TRUE
                  /\ status' = "WRITE_1"
                  /\ UNCHANGED <<burst_cnt, oe, br_ack, rsp_valid, ram>>

AcceptRead(a) == /\ status = "IDLE"
                 /\ addr' = a
                 /\ be' = Lanes
                 /\ oe' = TRUE
                 /\ rsp_valid' = FALSE
                 /\ status' = "READ_1"
                 /\ UNCHANGED <<burst_cnt, wdat, we, br_ack, ram>>

AcceptBurst(a) == /\ status = "IDLE"
                  /\ addr' = a
                  /\ be' = Lanes
                  /\ oe' = TRUE
                  /\ burst_cnt' = BurstLen - 1
                  /\ br_ack' = FALSE
                  /\ status' = "BURST_READ_1"
                  /\ UNCHANGED <<wdat, we, rsp_valid, ram>>

NoRequest == status = "IDLE" /\ UNCHANGED biu_vars

\* The write whose strobe is not raised in time.
Write1HoldsWe == /\ status = "WRITE_1"
                 /\ ram' = Stored
                 /\ status' = "WRITE_2"
                 /\ UNCHANGED <<burst_cnt, addr, wdat, be, oe, we, br_ack, rsp_valid>>

Write1 == /\ status = "WRITE_1"
          /\ we' = FALSE
          /\ ram' = Stored
          /\ status' = "WRITE_2"
          /\ UNCHANGED <<burst_cnt, addr, wdat, be, oe, br_ack, rsp_valid>>

Write2 == /\ status = "WRITE_2"
          /\ status' = "IDLE"
          /\ UNCHANGED <<burst_cnt, addr, wdat, be, oe, we, br_ack, rsp_valid, ram>>

Read1 == /\ status = "READ_1"
         /\ rsp_valid' = TRUE
         /\ status' = "READ_2"
         /\ UNCHANGED <<burst_cnt, addr, wdat, be, oe, we, br_ack, ram>>

Read2(rsp_ready) ==
  /\ status = "READ_2"
  /\ IF rsp_ready
     THEN status' = "IDLE" /\ oe' = FALSE /\ rsp_valid' = FALSE
     ELSE UNCHANGED <<status, oe, rsp_valid>>
  /\ UNCHANGED <<burst_cnt, addr, wdat, be, we, br_ack, ram>>

BurstRead1 == /\ status = "BURST_READ_1"
              /\ br_ack' = TRUE
              /\ status' = "BURST_READ_2"
              /\ UNCHANGED <<burst_cnt, addr, wdat, be, oe, we, rsp_valid, ram>>

\* The burst a designer would end one word early.
BurstRead2Short ==
  /\ status = "BURST_READ_2"
  /\ br_ack' = FALSE
  /\ IF burst_cnt = 1
     THEN status' = "IDLE" /\ oe' = FALSE /\ UNCHANGED <<addr, burst_cnt>>
     ELSE /\ addr' = (addr + 1) % Words
          /\ burst_cnt' = burst_cnt - 1
          /\ status' = "BURST_READ_1"
          /\ UNCHANGED oe
  /\ UNCHANGED <<wdat, be, we, rsp_valid, ram>>

BurstRead2 ==
  /\ status = "BURST_READ_2"
  /\ br_ack' = FALSE
  /\ IF burst_cnt = 0
     THEN status' = "IDLE" /\ oe' = FALSE /\ UNCHANGED <<addr, burst_cnt>>
     ELSE /\ addr' = (addr + 1) % Words
          /\ burst_cnt' = burst_cnt - 1
          /\ status' = "BURST_READ_1"
          /\ UNCHANGED oe
  /\ UNCHANGED <<wdat, be, we, rsp_valid, ram>>

\* Other orders of the three requesters.
GrantLoadFirst(reqw, reqr, br) ==
  \/ \E a \in reqr : AcceptRead(a)
  \/ reqr = {} /\ \E w \in reqw : AcceptWrite(w)
  \/ reqw = {} /\ reqr = {} /\ \E a \in br : AcceptBurst(a)
  \/ reqw = {} /\ reqr = {} /\ br = {} /\ NoRequest

GrantBurstFirst(reqw, reqr, br) ==
  \/ \E a \in br : AcceptBurst(a)
  \/ br = {} /\ \E w \in reqw : AcceptWrite(w)
  \/ reqw = {} /\ br = {} /\ \E a \in reqr : AcceptRead(a)
  \/ reqw = {} /\ reqr = {} /\ br = {} /\ NoRequest

\* Stores first, then loads, then cache fills.
Grant(reqw, reqr, br) ==
  \/ \E w \in reqw : AcceptWrite(w)
  \/ reqw = {} /\ \E a \in reqr : AcceptRead(a)
  \/ reqw = {} /\ reqr = {} /\ \E a \in br : AcceptBurst(a)
  \/ reqw = {} /\ reqr = {} /\ br = {} /\ NoRequest

BiuClock(reqw, reqr, rsp_ready, br) ==
  \/ Grant(reqw, reqr, br)
  \/ Write1 \/ Write2
  \/ Read1 \/ Read2(rsp_ready)
  \/ BurstRead1 \/ BurstRead2

\* Asynchronous reset. A write it interrupts has its we_n raised early and
\* may or may not take; addr, wdat and burst_cnt have no reset.
BiuReset == /\ status' = "IDLE"
            /\ br_ack' = FALSE
            /\ rsp_valid' = FALSE
            /\ oe' = FALSE
            /\ we' = FALSE
            /\ be' = Lanes
            /\ ram' \in {ram, Stored}
            /\ UNCHANGED <<addr, wdat, burst_cnt>>

\* Configuration of the FPGA clears the registers that have no reset value;
\* Byte is abstract and has no zero, so wdat holds any word.
BiuInit(initial) ==
  /\ status = "IDLE"
  /\ br_ack = FALSE
  /\ rsp_valid = FALSE
  /\ oe = FALSE
  /\ we = FALSE
  /\ be = Lanes
  /\ burst_cnt = 0
  /\ addr = 0
  /\ wdat \in Word
  /\ ram \in initial
=============================================================================
