------------------------------ MODULE MemBank -------------------------------
(***************************************************************************)
(* One RAM as the program sees it: the store buffer and load handshake of  *)
(* yamp32_lsu.v, the SRAM controller of yamp32_biu.v, and the instruction  *)
(* cache that competes for the RAM. BaseRAM is fetched from, ExtRAM is not *)
(* (Fetches is empty).                                                     *)
(*                                                                         *)
(* The store buffer is the bounded queue that FwftFifo implements.         *)
(***************************************************************************)
EXTENDS Biu, LineFill, Sequences

CONSTANTS
  Depth,            \* words of the store buffer (16 in the code)
  Stores,           \* the stores the program makes
  Fetches,          \* first words of the lines the program fetches from
  Initial,          \* contents the RAM may have at power-up
  ResetDuringFill   \* whether i_rst_n may fall while a burst is requested

ASSUME BankAssumption == /\ Depth \in Nat \ {0}
                         /\ BurstLen = LineLen
                         /\ Stores \subseteq Write
                         /\ Fetches \subseteq Addr
                         /\ \A a \in Fetches : a % LineLen = 0
                         /\ Initial \subseteq [Addr -> Word]
                         /\ ResetDuringFill \in BOOLEAN

VARIABLES
  sb,               \* store buffer, oldest store first
  load_pending_r,   \* a load was granted and not yet answered
  req,              \* the operation the LSU stalls the pipeline for
  mem               \* history: the RAM if every store took effect at once

bank_vars == <<sb, load_pending_r, req, mem>>
vars == <<biu_vars, fill_vars, bank_vars>>

-----------------------------------------------------------------------------
(* What EXU hands to the LSU.                                              *)

\* SW writes all lanes of a word, SB one lane with its byte in all of them.
SW(a, dat) == [addr |-> a, dat |-> dat, be |-> Lanes]
SB(a, lane, byte) == [addr |-> a, dat |-> [l \in Lanes |-> byte], be |-> {lane}]

NoReq == [kind |-> "none"]
Loads == [kind : {"load"}, addr : {w.addr : w \in Stores}]
StoreReqs == [kind : {"store"}, write : Stores]

Requests == {NoReq} \union Loads \union StoreReqs

\* A stalled LSU keeps its operation. A stalled fetch empties the stage in
\* front of the LSU.
Offered == IF req # NoReq THEN {req}
           ELSE IF ~ch_idle THEN {NoReq}
           ELSE Requests

-----------------------------------------------------------------------------
(* The LSU's side of the RAM, for the operation op in the current cycle.   *)

full == Len(sb) = Depth
store(op) == op.kind = "store"
load(op) == op.kind = "load"

\* An empty flag that is off by one: the last store stays in the buffer.
reqwOffByOne == IF Len(sb) <= 1 THEN {} ELSE {Head(sb)}
reqw == IF sb = <<>> THEN {} ELSE {Head(sb)}
reqr(op) == IF load(op) THEN {op.addr} ELSE {}

hds_push(op) == load(op) /\ reqr_ready(reqw)
hds_pop == rsp_valid /\ load_pending_r
load_pending_nxt(op) == IF load_pending_r THEN ~hds_pop ELSE hds_push(op)

stall(op) == \/ store(op) /\ full
             \/ IF load_pending_r THEN load_pending_nxt(op) ELSE load(op)

\* The store that ignores a full buffer.
StoreBufferOverrun(op) ==
  LET rest == IF sb # <<>> /\ reqw_ready THEN Tail(sb) ELSE sb
  IN sb' = IF store(op) THEN Append(rest, op.write) ELSE rest

StoreBuffer(op) ==
  LET rest == IF sb # <<>> /\ reqw_ready THEN Tail(sb) ELSE sb
  IN sb' = IF store(op) /\ ~full THEN Append(rest, op.write) ELSE rest

\* What a load gets from the bus: LW all lanes, LB one, extended with zeros.
dc_o_dat(lanes) == [l \in lanes |-> bus[l]]
MaskedLoads == {Lanes} \union {{l} : l \in Lanes}

\* What the program may expect of the RAM from here on.
Expect(op) ==
  mem' = IF store(op) /\ ~full
         THEN [mem EXCEPT ![op.write.addr] = Merge(@, op.write.dat, op.write.be)]
         ELSE mem

\* The bank's part of a clock edge with operation op in the LSU.
BankClock(op) == /\ StoreBuffer(op)
                 /\ load_pending_r' = load_pending_nxt(op)
                 /\ BiuClock(reqw, reqr(op), load_pending_r, br_req)
                 /\ Expect(op)

\* The fetch stage looks up some line. A bank that is not fetched from has
\* no fill machine.
FetchClock == IF Fetches = {}
              THEN UNCHANGED fill_vars
              ELSE \E base \in Fetches, miss \in BOOLEAN : FillClock(base, miss, br_ack)

Clock == \E op \in Offered : /\ BankClock(op)
                             /\ req' = IF stall(op) THEN op ELSE NoReq
                             /\ FetchClock

\* Buffered stores are lost: the RAM is all the restarted program can see.
BankReset == /\ BiuReset
             /\ sb' = <<>>
             /\ load_pending_r' = FALSE
             /\ mem' = ram'

Reset == /\ nl_rd_r => ResetDuringFill
         /\ BankReset
         /\ IF Fetches = {} THEN UNCHANGED fill_vars ELSE FillReset
         /\ req' = NoReq

BankInit(initial) == /\ BiuInit(initial)
                     /\ sb = <<>>
                     /\ load_pending_r = FALSE
                     /\ mem = ram

Init == /\ BankInit(Initial)
        /\ FillInit(IF Fetches = {} THEN "IDLE" ELSE "BOOT", 0)
        /\ req = NoReq

Next == Clock \/ Reset

Spec == Init /\ [][Next]_vars

\* The clock never stops, and at some point the reset button is let go.
FairSpec == Spec /\ WF_vars(Clock) /\ <>[][~Reset]_vars

-----------------------------------------------------------------------------
(* Type correctness.                                                       *)
TypeOK == /\ status \in States
          /\ burst_cnt \in 0 .. BurstLen - 1
          /\ addr \in Addr
          /\ wdat \in Word
          /\ be \in SUBSET Lanes
          /\ {oe, we, br_ack, rsp_valid, load_pending_r} \subseteq BOOLEAN
          /\ ram \in [Addr -> Word]
          /\ mem \in [Addr -> Word]
          /\ sb \in Seq(Stores)
          /\ Len(sb) <= Depth
          /\ req \in Requests
          /\ status_r \in {"BOOT", "IDLE", "READ_PENDING_1", "READ_PENDING_2"}
          /\ clear_cnt \in 0 .. Sets - 1
          /\ nl_rd_r \in BOOLEAN
          /\ nl_baddr_r \in Fetches \union {0}
          /\ slow_line_adr_cnt \in 0 .. LineLen - 1

(* The pins never disagree: the chip does not drive the bus in a cycle in  *)
(* which it is being written, and we_n and oe_n are low only in the states *)
(* that need them.                                                         *)
PinsConsistent == /\ we <=> status = "WRITE_1"
                  /\ oe <=> status \in Bursts \union {"READ_1", "READ_2"}
                  /\ rsp_valid <=> status = "READ_2"
                  /\ br_ack <=> status = "BURST_READ_2"

\* Stores accepted and not yet in the RAM, oldest first.
Pending == IF status = "WRITE_1"
           THEN <<[addr |-> addr, dat |-> wdat, be |-> be]>> \o sb
           ELSE sb

(* The RAM and the stores still on their way to it add up to the memory    *)
(* the program wrote: for each byte, the youngest store on its way to that *)
(* byte holds its value, and without one the RAM does.                     *)
Coherent ==
  \A a \in Addr, l \in Lanes :
    LET hits == {i \in 1 .. Len(Pending) : Pending[i].addr = a /\ l \in Pending[i].be}
    IN /\ \A i \in hits : (\A j \in hits : j <= i) => mem[a][l] = Pending[i].dat[l]
       /\ hits = {} => mem[a][l] = ram[a][l]

(* A load of a word or a byte returns what the program last stored at its  *)
(* address, however many stores were buffered when it was issued.          *)
LoadReturnsLatestStore ==
  (load(req) /\ load_pending_r /\ rsp_valid) =>
    \A lanes \in MaskedLoads : dc_o_dat(lanes) = [l \in lanes |-> mem[req.addr][l]]

(* A burst starts only when every earlier store is in the RAM and the RAM  *)
(* stays as it is until the burst ends, so a line is one snapshot of what  *)
(* the program stored before the fetch missed.                             *)
LineIsSnapshot ==
  [][ /\ (status = "IDLE" /\ status' = "BURST_READ_1") => ram = mem /\ mem' = mem
      /\ status \in Bursts => ram' = ram ]_vars

(* What the comment at yamp32_icache.v:173 has the line counter for: a     *)
(* word acknowledged while a line is being filled is the word of that line *)
(* that the counter says, so it is put where it belongs.                   *)
Filling == status_r \in {"READ_PENDING_1", "READ_PENDING_2"}
WordsOfTheLine ==
  br_ack /\ Filling => addr = nl_baddr_r + slow_line_adr_cnt

(* A burst acknowledges nothing but the words of the line being filled,    *)
(* although the request is withdrawn only in the middle of the line.       *)
FillAligned == WordsOfTheLine /\ (br_ack => Filling)

(* The bank is an ordered memory: stores reach the RAM exactly once and in *)
(* program order, also across resets.                                      *)
ApplyStore(m, w) == [m EXCEPT ![w.addr] = Merge(@, w.dat, w.be)]
Ordered == INSTANCE OrderedMemory
             WITH Apply <- ApplyStore, Limit <- Depth + 1,
                  memory <- ram, pending <- Pending
OrderedStores == Ordered!Spec

(* Every operation the pipeline stalls for completes, and every miss ends: *)
(* neither the priority of stores nor a burst starves anyone.              *)
RequestsComplete == (req # NoReq) ~> (req = NoReq)
FillsComplete == (status_r = "READ_PENDING_1") ~> (status_r = "IDLE")
=============================================================================
