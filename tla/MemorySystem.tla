---------------------------- MODULE MemorySystem ----------------------------
(***************************************************************************)
(* The two RAMs behind the LSU (yamp32_lsu.v, yamp32_biu.v, thinpad_top.v) *)
(* and the UART status register that tells the program its stores have     *)
(* landed. One operation at a time goes to the bank its address selects;   *)
(* the stalls of both banks hold it. Only BaseRAM is fetched from.         *)
(***************************************************************************)
EXTENDS Integers, Sequences, FiniteSets

CONSTANTS Words, BurstLen, LineLen, Sets, Lanes, Byte, Depth,
          Fetches, BaseStores, ExtStores, Initial

VARIABLES
  \* BaseRAM: its half of the BIU, its store buffer, and the cache's fills
  baseram_status, baseram_burst_cnt, baseram_addr, baseram_wdat, baseram_be,
  baseram_oe, baseram_we, iram_br_ack, baseram_rsp_valid, baseram,
  sb_baseram, baseram_load_pending, baseram_mem,
  status_r, clear_cnt, nl_rd_r, nl_baddr_r, slow_line_adr_cnt,
  \* ExtRAM: the same without the fills; its burst acknowledgement, which
  \* the code leaves out, never rises
  extram_status, extram_addr, extram_wdat, extram_be,
  extram_oe, extram_we, extram_br_ack, extram_rsp_valid, extram,
  sb_extram, extram_load_pending, extram_mem,
  \* the operation the LSU holds the pipeline for
  lsu_req

base_vars == <<baseram_status, baseram_burst_cnt, baseram_addr, baseram_wdat,
               baseram_be, baseram_oe, baseram_we, iram_br_ack,
               baseram_rsp_valid, baseram, sb_baseram, baseram_load_pending,
               baseram_mem>>
fetch_vars == <<status_r, clear_cnt, nl_rd_r, nl_baddr_r, slow_line_adr_cnt>>
ext_vars == <<extram_status, extram_addr, extram_wdat, extram_be, extram_oe,
              extram_we, extram_br_ack, extram_rsp_valid, extram, sb_extram,
              extram_load_pending, extram_mem>>
vars == <<base_vars, fetch_vars, ext_vars, lsu_req>>

NoReq == [kind |-> "none"]
Idle == [bank |-> "none", op |-> NoReq]

\* Dispatch: the operation as one bank sees it.
DispatchToBoth(r, bank) == r.op
Dispatch(r, bank) == IF r.bank = bank THEN r.op ELSE NoReq

Base == INSTANCE MemBank
  WITH status <- baseram_status, burst_cnt <- baseram_burst_cnt,
       addr <- baseram_addr, wdat <- baseram_wdat, be <- baseram_be,
       oe <- baseram_oe, we <- baseram_we, br_ack <- iram_br_ack,
       rsp_valid <- baseram_rsp_valid, ram <- baseram,
       sb <- sb_baseram, load_pending_r <- baseram_load_pending,
       mem <- baseram_mem, req <- Dispatch(lsu_req, "base"),
       Stores <- BaseStores, ResetDuringFill <- FALSE

\* A wire ExtRAM does not have, tied low.
Low == ~TRUE

Ext == INSTANCE MemBank
  WITH status <- extram_status, burst_cnt <- 0,
       addr <- extram_addr, wdat <- extram_wdat, be <- extram_be,
       oe <- extram_oe, we <- extram_we, br_ack <- extram_br_ack,
       rsp_valid <- extram_rsp_valid, ram <- extram,
       sb <- sb_extram, load_pending_r <- extram_load_pending,
       mem <- extram_mem, req <- Dispatch(lsu_req, "ext"),
       Stores <- ExtStores, ResetDuringFill <- FALSE,
       status_r <- "IDLE", clear_cnt <- Sets - 1, nl_rd_r <- Low,
       nl_baddr_r <- 0, slow_line_adr_cnt <- 0, Fetches <- {}

ASSUME MemoryAssumption ==
         /\ LineLen \in Nat \ {0} /\ LineLen % 2 = 0
         /\ BurstLen = LineLen
         /\ Words \in Nat \ {0} /\ Words % LineLen = 0
         /\ Sets \in Nat \ {0}
         /\ Depth \in Nat \ {0}
         /\ BaseStores \union ExtStores \subseteq Base!Write
         /\ Fetches \subseteq Base!Addr /\ Fetches # {}
         /\ \A a \in Fetches : a % LineLen = 0
         /\ Initial \subseteq [Base!Addr -> Base!Word]

-----------------------------------------------------------------------------

Requests == {Idle}
            \union [bank : {"base"}, op : Base!Loads \union Base!StoreReqs]
            \union [bank : {"ext"}, op : Ext!Loads \union Ext!StoreReqs]

Offered == IF lsu_req # Idle THEN {lsu_req}
           ELSE IF status_r # "IDLE" THEN {Idle}
           ELSE Requests

\* o_stall, without the UART, which only stalls its own operations.
StallOfBase(r) == Base!stall(Dispatch(r, "base"))
StallOfExt(r) == Ext!stall(Dispatch(r, "ext"))
Stall(r) == \/ Base!stall(Dispatch(r, "base"))
            \/ Ext!stall(Dispatch(r, "ext"))

Clock == \E r \in Offered :
           /\ Base!BankClock(Dispatch(r, "base"))
           /\ Ext!BankClock(Dispatch(r, "ext"))
           /\ Base!FetchClock
           /\ lsu_req' = IF Stall(r) THEN r ELSE Idle

Reset == /\ ~nl_rd_r
         /\ Base!BankReset
         /\ Ext!BankReset
         /\ Base!FillReset
         /\ lsu_req' = Idle

Init == /\ Base!BankInit(Initial)
        /\ Ext!BankInit(Initial)
        /\ Base!FillInit("BOOT", 0)
        /\ lsu_req = Idle

Next == Clock \/ Reset

Spec == Init /\ [][Next]_vars

\* The clock never stops, and at some point the reset button is let go.
FairSpec == Spec /\ WF_vars(Clock) /\ <>[][~Reset]_vars

-----------------------------------------------------------------------------
(* The status register (l. 311-319). busy_n is high when the store buffer  *)
(* is empty and its controller idle; the ready bit is the conjunction of   *)
(* both and of the transmitter's own readiness.                            *)

BufferEmptyOnly(buffer, ready) == buffer = <<>>
BusyN(buffer, ready) == buffer = <<>> /\ ready

SR_tx_ready(uart_tx_ready) == /\ BusyN(sb_baseram, Base!reqw_ready)
                              /\ BusyN(sb_extram, Ext!reqw_ready)
                              /\ uart_tx_ready

(* The comment at lsu.v:311: before the program acknowledges to the        *)
(* terminal, what it stored must be in the RAM. The program may read the   *)
(* ready bit in any cycle: whenever it is set, both RAMs hold every store  *)
(* the program has made.                                                   *)
AckMeansStored == SR_tx_ready(TRUE) => baseram = baseram_mem /\ extram = extram_mem

(* At most one bank works on a load, and it is the bank of the operation   *)
(* that holds the pipeline, so the data multiplexer of l. 331-333 selects  *)
(* the answer of the RAM the load addressed.                               *)
OneLoadAtATime ==
  /\ baseram_load_pending => lsu_req.bank = "base" /\ lsu_req.op.kind = "load"
  /\ extram_load_pending => lsu_req.bank = "ext" /\ lsu_req.op.kind = "load"

(* Each RAM, seen through the operations dispatched to it, is one MemBank: *)
(* what holds of a bank on its own holds of both in the composed system.   *)
BaseIsBank == Base!Spec
ExtIsBank == Ext!Spec

(* No operation waits for ever, whichever bank it goes to and whatever the *)
(* cache fetches meanwhile.                                                *)
RequestsComplete == (lsu_req # Idle) ~> (lsu_req = Idle)
=============================================================================
