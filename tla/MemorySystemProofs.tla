------------------------- MODULE MemorySystemProofs -------------------------
(***************************************************************************)
(* Proofs about MemorySystem: each RAM behind the LSU is a bank of MemBank, *)
(* so what MemBankProofs proves of a bank holds of both, and the ready bit *)
(* of the UART status register tells the truth.                            *)
(***************************************************************************)
EXTENDS MemorySystem, TLAPS

\* The proofs about each bank.
BaseProofs == INSTANCE MemBankProofs
  WITH status <- baseram_status, burst_cnt <- baseram_burst_cnt,
       addr <- baseram_addr, wdat <- baseram_wdat, be <- baseram_be,
       oe <- baseram_oe, we <- baseram_we, br_ack <- iram_br_ack,
       rsp_valid <- baseram_rsp_valid, ram <- baseram,
       sb <- sb_baseram, load_pending_r <- baseram_load_pending,
       mem <- baseram_mem, req <- Dispatch(lsu_req, "base"),
       Stores <- BaseStores, ResetDuringFill <- FALSE

ExtProofs == INSTANCE MemBankProofs
  WITH status <- extram_status, burst_cnt <- 0,
       addr <- extram_addr, wdat <- extram_wdat, be <- extram_be,
       oe <- extram_oe, we <- extram_we, br_ack <- extram_br_ack,
       rsp_valid <- extram_rsp_valid, ram <- extram,
       sb <- sb_extram, load_pending_r <- extram_load_pending,
       mem <- extram_mem, req <- Dispatch(lsu_req, "ext"),
       Stores <- ExtStores, ResetDuringFill <- FALSE,
       status_r <- "IDLE", clear_cnt <- Sets - 1, nl_rd_r <- Low,
       nl_baddr_r <- 0, slow_line_adr_cnt <- 0, Fetches <- {}

IInv == lsu_req \in Requests /\ OneLoadAtATime

-----------------------------------------------------------------------------
(* What either bank sees of the operation in the LSU.                      *)

LEMMA RequestShape ==
  ASSUME NEW r \in Requests
  PROVE  /\ Dispatch(r, "base") \in Base!Requests
         /\ Dispatch(r, "ext") \in Ext!Requests
         /\ r.bank = "base" => r # Idle /\ Dispatch(r, "base") = r.op /\ r.op # NoReq
         /\ r.bank = "ext" => r # Idle /\ Dispatch(r, "ext") = r.op /\ r.op # NoReq
         /\ r.bank # "base" => Dispatch(r, "base") = NoReq
         /\ r.bank # "ext" => Dispatch(r, "ext") = NoReq
         /\ r.bank \in {"none", "base", "ext"}
BY DEF Requests, Idle, Dispatch, NoReq, Base!Requests, Base!NoReq, Base!Loads,
       Base!StoreReqs, Ext!Requests, Ext!NoReq, Ext!Loads, Ext!StoreReqs

\* Both bank modules call the absence of an operation the same.
LEMMA SameNoReq == Base!NoReq = NoReq /\ Ext!NoReq = NoReq
BY DEF Base!NoReq, Ext!NoReq, NoReq

LEMMA OfferedShape ==
  ASSUME IInv, NEW r \in Offered
  PROVE  /\ r \in Requests
         /\ lsu_req # Idle => r = lsu_req
         /\ Dispatch(r, "base") \in Base!Offered
         /\ Dispatch(r, "ext") \in Ext!Offered
<1>1. r \in Requests /\ lsu_req \in Requests /\ (lsu_req # Idle => r = lsu_req)
  BY DEF IInv, Offered, Requests
<1>2. Dispatch(r, "base") \in Base!Offered
  <2>1. CASE lsu_req # Idle
    BY <1>1, <2>1, RequestShape, SameNoReq DEF Base!Offered, Base!Requests
  <2>2. CASE lsu_req = Idle
    BY <1>1, <2>2, RequestShape, SameNoReq
       DEF Base!Offered, Base!ch_idle, Offered, Dispatch, Idle, Base!Requests
  <2> QED
    BY <2>1, <2>2
<1>3. Dispatch(r, "ext") \in Ext!Offered
  <2>1. CASE lsu_req # Idle
    BY <1>1, <2>1, RequestShape, SameNoReq DEF Ext!Offered, Ext!Requests, Ext!ch_idle
  <2>2. CASE lsu_req = Idle
    BY <1>1, <2>2, RequestShape, SameNoReq
       DEF Ext!Offered, Ext!ch_idle, Dispatch, Idle
  <2> QED
    BY <2>1, <2>2
<1> QED
  BY <1>1, <1>2, <1>3

\* A bank without an operation, and without a load, stalls nobody.
LEMMA NoReqNeverStalls ==
  /\ ~baseram_load_pending => ~Base!stall(NoReq)
  /\ ~extram_load_pending => ~Ext!stall(NoReq)
BY DEF Base!stall, Base!store, Base!load, Ext!stall, Ext!store, Ext!load, NoReq

\* The stalls of both banks together are the stall of the bank addressed.
LEMMA StallShape ==
  ASSUME IInv, NEW r \in Offered
  PROVE  /\ r.bank = "base" => (Stall(r) <=> Base!stall(r.op)) /\ ~extram_load_pending
         /\ r.bank = "ext" => (Stall(r) <=> Ext!stall(r.op)) /\ ~baseram_load_pending
         /\ r.bank = "none" => ~baseram_load_pending /\ ~extram_load_pending
<1>1. /\ r \in Requests
      /\ baseram_load_pending => r.bank = "base"
      /\ extram_load_pending => r.bank = "ext"
  BY OfferedShape, RequestShape DEF IInv, OneLoadAtATime
<1> QED
  BY <1>1, RequestShape, NoReqNeverStalls DEF Stall

-----------------------------------------------------------------------------
(* One load at a time.                                                     *)

LEMMA InitInv == Init => IInv
BY DEF Init, IInv, Requests, OneLoadAtATime, Base!BankInit, Ext!BankInit

LEMMA NextInv == IInv /\ [Next]_vars => IInv'
<1> SUFFICES ASSUME IInv, [Next]_vars
             PROVE  IInv'
  OBVIOUS
<1>1. ASSUME NEW r \in Offered,
             Base!BankClock(Dispatch(r, "base")),
             Ext!BankClock(Dispatch(r, "ext")),
             lsu_req' = IF Stall(r) THEN r ELSE Idle
      PROVE  IInv'
  <2>1. r \in Requests
    BY OfferedShape
  <2>2. lsu_req' \in Requests
    BY <1>1, <2>1 DEF Requests
  <2>3. ASSUME baseram_load_pending'
        PROVE  lsu_req' = r /\ r.bank = "base" /\ r.op.kind = "load"
    <3>1. Base!load_pending_nxt(Dispatch(r, "base"))
      BY <1>1, <2>3 DEF Base!BankClock
    <3>2. r.bank = "base" /\ r.op.kind = "load"
      <4>1. CASE baseram_load_pending
        BY <4>1, OfferedShape DEF IInv, OneLoadAtATime, Idle
      <4>2. CASE ~baseram_load_pending
        BY <2>1, <3>1, <4>2, RequestShape
           DEF Base!load_pending_nxt, Base!hds_push, Base!load, Dispatch, NoReq
      <4> QED
        BY <4>1, <4>2
    <3>3. Base!stall(Dispatch(r, "base"))
      BY <3>1, <3>2 DEF Base!stall, Base!load, Dispatch
    <3> QED
      BY <1>1, <3>2, <3>3 DEF Stall
  <2>4. ASSUME extram_load_pending'
        PROVE  lsu_req' = r /\ r.bank = "ext" /\ r.op.kind = "load"
    <3>1. Ext!load_pending_nxt(Dispatch(r, "ext"))
      BY <1>1, <2>4 DEF Ext!BankClock
    <3>2. r.bank = "ext" /\ r.op.kind = "load"
      <4>1. CASE extram_load_pending
        BY <4>1, OfferedShape DEF IInv, OneLoadAtATime, Idle
      <4>2. CASE ~extram_load_pending
        BY <2>1, <3>1, <4>2, RequestShape
           DEF Ext!load_pending_nxt, Ext!hds_push, Ext!load, Dispatch, NoReq
      <4> QED
        BY <4>1, <4>2
    <3>3. Ext!stall(Dispatch(r, "ext"))
      BY <3>1, <3>2 DEF Ext!stall, Ext!load, Dispatch
    <3> QED
      BY <1>1, <3>2, <3>3 DEF Stall
  <2> QED
    BY <2>2, <2>3, <2>4 DEF IInv, OneLoadAtATime
<1>2. ASSUME Reset
      PROVE  IInv'
  BY <1>2 DEF Reset, Base!BankReset, Ext!BankReset, IInv, Requests, OneLoadAtATime
<1>3. ASSUME UNCHANGED vars
      PROVE  IInv'
  BY <1>3 DEF vars, base_vars, ext_vars, IInv, OneLoadAtATime, Requests,
              Base!Loads, Base!StoreReqs, Ext!Loads, Ext!StoreReqs
<1> QED
  BY <1>1, <1>2, <1>3 DEF Next, Clock

(* At most one bank works on a load, and it is the bank of the operation   *)
(* that holds the pipeline.                                                *)
THEOREM OneLoad == Spec => []OneLoadAtATime
<1>1. IInv => OneLoadAtATime
  BY DEF IInv
<1> QED
  BY <1>1, InitInv, NextInv, PTL DEF Spec

THEOREM Invariance == Spec => []IInv
BY InitInv, NextInv, PTL DEF Spec

-----------------------------------------------------------------------------
(* Each half of the system is a bank.                                      *)

\* The operation a bank still sees after a clock edge is the one it stalls.
LEMMA HeldByBank ==
  ASSUME IInv, NEW r \in Offered, lsu_req' = IF Stall(r) THEN r ELSE Idle
  PROVE  /\ Dispatch(lsu_req', "base") = IF Base!stall(Dispatch(r, "base"))
                                         THEN Dispatch(r, "base") ELSE NoReq
         /\ Dispatch(lsu_req', "ext") = IF Ext!stall(Dispatch(r, "ext"))
                                        THEN Dispatch(r, "ext") ELSE NoReq
<1>1. r \in Requests /\ Dispatch(Idle, "base") = NoReq /\ Dispatch(Idle, "ext") = NoReq
  BY OfferedShape DEF Dispatch, Idle
<1>2. CASE r.bank = "base"
  BY <1>1, <1>2, RequestShape, StallShape
<1>3. CASE r.bank = "ext"
  BY <1>1, <1>3, RequestShape, StallShape
<1>4. CASE r.bank = "none"
  BY <1>1, <1>4, RequestShape
<1> QED
  BY <1>1, <1>2, <1>3, <1>4, RequestShape

LEMMA BaseStep == IInv /\ [Next]_vars => [Base!Next]_(Base!vars)
<1> SUFFICES ASSUME IInv, [Next]_vars
             PROVE  [Base!Next]_(Base!vars)
  OBVIOUS
<1>1. ASSUME NEW r \in Offered,
             Base!BankClock(Dispatch(r, "base")), Base!FetchClock,
             lsu_req' = IF Stall(r) THEN r ELSE Idle
      PROVE  Base!Clock
  <2>1. Dispatch(r, "base") \in Base!Offered
    BY OfferedShape
  <2>2. Dispatch(lsu_req', "base") = IF Base!stall(Dispatch(r, "base"))
                                     THEN Dispatch(r, "base") ELSE Base!NoReq
    BY <1>1, HeldByBank, SameNoReq
  <2>3. Dispatch(lsu_req, "base")' = Dispatch(lsu_req', "base")
    BY DEF Dispatch, NoReq
  <2> QED
    BY <1>1, <2>1, <2>2, <2>3 DEF Base!Clock
<1>2. ASSUME Reset
      PROVE  Base!Reset
  <2>1. Dispatch(lsu_req, "base")' = Base!NoReq
    BY <1>2, SameNoReq DEF Reset, Dispatch, Idle
  <2> QED
    BY <1>2, <2>1, MemoryAssumption DEF Reset, Base!Reset
<1>3. ASSUME UNCHANGED vars
      PROVE  UNCHANGED Base!vars
  BY <1>3 DEF vars, base_vars, fetch_vars, Base!vars, Base!biu_vars,
              Base!fill_vars, Base!bank_vars, Dispatch
<1> QED
  BY <1>1, <1>2, <1>3 DEF Next, Clock, Base!Next

LEMMA ExtStep == IInv /\ [Next]_vars => [Ext!Next]_(Ext!vars)
<1> SUFFICES ASSUME IInv, [Next]_vars
             PROVE  [Ext!Next]_(Ext!vars)
  OBVIOUS
<1>0. UNCHANGED Ext!fill_vars
  BY DEF Ext!fill_vars, Low
<1>1. ASSUME NEW r \in Offered,
             Ext!BankClock(Dispatch(r, "ext")),
             lsu_req' = IF Stall(r) THEN r ELSE Idle
      PROVE  Ext!Clock
  <2>1. Dispatch(r, "ext") \in Ext!Offered
    BY OfferedShape
  <2>2. Dispatch(lsu_req', "ext") = IF Ext!stall(Dispatch(r, "ext"))
                                    THEN Dispatch(r, "ext") ELSE Ext!NoReq
    BY <1>1, HeldByBank, SameNoReq
  <2>3. Dispatch(lsu_req, "ext")' = Dispatch(lsu_req', "ext")
    BY DEF Dispatch, NoReq
  <2> QED
    BY <1>0, <1>1, <2>1, <2>2, <2>3 DEF Ext!Clock, Ext!FetchClock
<1>2. ASSUME Reset
      PROVE  Ext!Reset
  <2>1. Dispatch(lsu_req, "ext")' = Ext!NoReq
    BY <1>2, SameNoReq DEF Reset, Dispatch, Idle
  <2> QED
    BY <1>0, <1>2, <2>1 DEF Reset, Ext!Reset, Low
<1>3. ASSUME UNCHANGED vars
      PROVE  UNCHANGED Ext!vars
  BY <1>0, <1>3 DEF vars, ext_vars, Ext!vars, Ext!biu_vars, Ext!bank_vars, Dispatch
<1> QED
  BY <1>1, <1>2, <1>3 DEF Next, Clock, Ext!Next

(* BaseRAM, seen through the operations dispatched to it, is one bank that *)
(* is fetched from.                                                        *)
THEOREM BaseRefinement == Spec => BaseIsBank
<1>1. Init => Base!Init
  BY MemoryAssumption, SameNoReq DEF Init, Base!Init, Dispatch, Idle
<1> QED
  BY <1>1, BaseStep, Invariance, PTL DEF Spec, BaseIsBank, Base!Spec

(* ExtRAM, seen through the operations dispatched to it, is one bank that  *)
(* is not fetched from.                                                    *)
THEOREM ExtRefinement == Spec => ExtIsBank
<1>1. Init => Ext!Init
  BY SameNoReq DEF Init, Ext!Init, Dispatch, Idle, Ext!FillInit, Low
<1> QED
  BY <1>1, ExtStep, Invariance, PTL DEF Spec, ExtIsBank, Ext!Spec

-----------------------------------------------------------------------------
(* What holds of a bank on its own holds of both.                          *)

\* The assumptions of Biu and LineFill, and those of MemBank for each bank.
LEMMA BankAssumptions ==
  /\ /\ BurstLen \in Nat \ {0}
     /\ Words \in Nat \ {0}
     /\ Words % BurstLen = 0
  /\ LineLen \in Nat \ {0} /\ LineLen % 2 = 0 /\ Sets \in Nat \ {0}
  /\ /\ Depth \in Nat \ {0}
     /\ BurstLen = LineLen
     /\ BaseStores \subseteq BaseProofs!Write
     /\ Fetches \subseteq BaseProofs!Addr
     /\ \A a \in Fetches : a % LineLen = 0
     /\ Initial \subseteq [BaseProofs!Addr -> BaseProofs!Word]
     /\ FALSE \in BOOLEAN
  /\ /\ Depth \in Nat \ {0}
     /\ BurstLen = LineLen
     /\ ExtStores \subseteq ExtProofs!Write
     /\ {} \subseteq ExtProofs!Addr
     /\ \A a \in {} : a % LineLen = 0
     /\ Initial \subseteq [ExtProofs!Addr -> ExtProofs!Word]
     /\ FALSE \in BOOLEAN
BY MemoryAssumption
   DEF Base!Write, Base!Addr, Base!Word, BaseProofs!Write, BaseProofs!Addr,
       BaseProofs!Word, ExtProofs!Write, ExtProofs!Addr, ExtProofs!Word

(* Expanded, the bank that MemorySystem is composed of is the bank that    *)
(* the proofs are about.                                                   *)
LEMMA SameBase ==
  /\ BaseProofs!Init <=> Base!Init
  /\ [BaseProofs!Next]_(BaseProofs!vars) <=> [Base!Next]_(Base!vars)
<1>1. BaseProofs!Init <=> Base!Init
   BY DEF BaseProofs!Init, BaseProofs!BankInit, BaseProofs!BiuInit,
         BaseProofs!Word, BaseProofs!FillInit, BaseProofs!NoReq, Base!Init,
         Base!BankInit, Base!BiuInit, Base!Word, Base!FillInit, Base!NoReq
<1>2. BaseProofs!Next <=> Base!Next
  BY DEF
        BaseProofs!Next, BaseProofs!Clock, BaseProofs!Reset,
        BaseProofs!Offered, BaseProofs!ch_idle, BaseProofs!Requests,
        BaseProofs!Loads, BaseProofs!StoreReqs, BaseProofs!NoReq,
        BaseProofs!BankClock, BaseProofs!StoreBuffer, BaseProofs!reqw_ready,
        BaseProofs!store, BaseProofs!load, BaseProofs!full,
        BaseProofs!load_pending_nxt, BaseProofs!hds_push, BaseProofs!hds_pop,
        BaseProofs!reqr_ready, BaseProofs!reqw, BaseProofs!reqr,
        BaseProofs!br_req, BaseProofs!BiuClock, BaseProofs!Grant,
        BaseProofs!AcceptWrite, BaseProofs!AcceptRead, BaseProofs!AcceptBurst,
        BaseProofs!NoRequest, BaseProofs!biu_vars, BaseProofs!Write1,
        BaseProofs!Stored, BaseProofs!bus, BaseProofs!Merge,
        BaseProofs!Write2, BaseProofs!Read1, BaseProofs!Read2,
        BaseProofs!BurstRead1, BaseProofs!BurstRead2, BaseProofs!Expect,
        BaseProofs!stall, BaseProofs!FetchClock, BaseProofs!FillClock,
        BaseProofs!CountAck, BaseProofs!Boot, BaseProofs!Idle,
        BaseProofs!Pending1, BaseProofs!Pending2, BaseProofs!line_adr_cnt_msb,
        BaseProofs!fill_vars, BaseProofs!BankReset, BaseProofs!BiuReset,
        BaseProofs!FillReset, Base!Next, Base!Clock, Base!Reset, Base!Offered,
        Base!ch_idle, Base!Requests, Base!Loads, Base!StoreReqs, Base!NoReq,
        Base!BankClock, Base!StoreBuffer, Base!reqw_ready, Base!store,
        Base!load, Base!full, Base!load_pending_nxt, Base!hds_push,
        Base!hds_pop, Base!reqr_ready, Base!reqw, Base!reqr, Base!br_req,
        Base!BiuClock, Base!Grant, Base!AcceptWrite, Base!AcceptRead,
        Base!AcceptBurst, Base!NoRequest, Base!biu_vars, Base!Write1,
        Base!Stored, Base!bus, Base!Merge, Base!Write2, Base!Read1,
        Base!Read2, Base!BurstRead1, Base!BurstRead2, Base!Expect, Base!stall,
        Base!FetchClock, Base!FillClock, Base!CountAck, Base!Boot, Base!Idle,
        Base!Pending1, Base!Pending2, Base!line_adr_cnt_msb, Base!fill_vars,
        Base!BankReset, Base!BiuReset, Base!FillReset
<1>3. BaseProofs!vars = Base!vars /\ (BaseProofs!vars)' = (Base!vars)'
  BY DEF BaseProofs!vars, Base!vars, BaseProofs!biu_vars, Base!biu_vars,
         BaseProofs!fill_vars, Base!fill_vars, BaseProofs!bank_vars, Base!bank_vars
<1> QED
  BY <1>1, <1>2, <1>3

LEMMA SameExt ==
  /\ ExtProofs!Init <=> Ext!Init
  /\ [ExtProofs!Next]_(ExtProofs!vars) <=> [Ext!Next]_(Ext!vars)
<1>1. ExtProofs!Init <=> Ext!Init
   BY DEF ExtProofs!Init, ExtProofs!BankInit, ExtProofs!BiuInit,
         ExtProofs!Word, ExtProofs!FillInit, ExtProofs!NoReq, Ext!Init,
         Ext!BankInit, Ext!BiuInit, Ext!Word, Ext!FillInit, Ext!NoReq
<1>2. ExtProofs!Next <=> Ext!Next
  BY DEF
        ExtProofs!Next, ExtProofs!Clock, ExtProofs!Reset, ExtProofs!Offered,
        ExtProofs!ch_idle, ExtProofs!Requests, ExtProofs!Loads,
        ExtProofs!StoreReqs, ExtProofs!NoReq, ExtProofs!BankClock,
        ExtProofs!StoreBuffer, ExtProofs!reqw_ready, ExtProofs!store,
        ExtProofs!load, ExtProofs!full, ExtProofs!load_pending_nxt,
        ExtProofs!hds_push, ExtProofs!hds_pop, ExtProofs!reqr_ready,
        ExtProofs!reqw, ExtProofs!reqr, ExtProofs!br_req, ExtProofs!BiuClock,
        ExtProofs!Grant, ExtProofs!AcceptWrite, ExtProofs!AcceptRead,
        ExtProofs!AcceptBurst, ExtProofs!NoRequest, ExtProofs!biu_vars,
        ExtProofs!Write1, ExtProofs!Stored, ExtProofs!bus, ExtProofs!Merge,
        ExtProofs!Write2, ExtProofs!Read1, ExtProofs!Read2,
        ExtProofs!BurstRead1, ExtProofs!BurstRead2, ExtProofs!Expect,
        ExtProofs!stall, ExtProofs!FetchClock, ExtProofs!FillClock,
        ExtProofs!CountAck, ExtProofs!Boot, ExtProofs!Idle,
        ExtProofs!Pending1, ExtProofs!Pending2, ExtProofs!line_adr_cnt_msb,
        ExtProofs!fill_vars, ExtProofs!BankReset, ExtProofs!BiuReset,
        ExtProofs!FillReset, Ext!Next, Ext!Clock, Ext!Reset, Ext!Offered,
        Ext!ch_idle, Ext!Requests, Ext!Loads, Ext!StoreReqs, Ext!NoReq,
        Ext!BankClock, Ext!StoreBuffer, Ext!reqw_ready, Ext!store, Ext!load,
        Ext!full, Ext!load_pending_nxt, Ext!hds_push, Ext!hds_pop,
        Ext!reqr_ready, Ext!reqw, Ext!reqr, Ext!br_req, Ext!BiuClock,
        Ext!Grant, Ext!AcceptWrite, Ext!AcceptRead, Ext!AcceptBurst,
        Ext!NoRequest, Ext!biu_vars, Ext!Write1, Ext!Stored, Ext!bus,
        Ext!Merge, Ext!Write2, Ext!Read1, Ext!Read2, Ext!BurstRead1,
        Ext!BurstRead2, Ext!Expect, Ext!stall, Ext!FetchClock, Ext!FillClock,
        Ext!CountAck, Ext!Boot, Ext!Idle, Ext!Pending1, Ext!Pending2,
        Ext!line_adr_cnt_msb, Ext!fill_vars, Ext!BankReset, Ext!BiuReset,
        Ext!FillReset
<1>3. ExtProofs!vars = Ext!vars /\ (ExtProofs!vars)' = (Ext!vars)'
  BY DEF ExtProofs!vars, Ext!vars, ExtProofs!biu_vars, Ext!biu_vars,
         ExtProofs!fill_vars, Ext!fill_vars, ExtProofs!bank_vars, Ext!bank_vars
<1> QED
  BY <1>1, <1>2, <1>3

LEMMA BanksOfSystem == Spec => BaseProofs!Spec /\ ExtProofs!Spec
BY BaseRefinement, ExtRefinement, SameBase, SameExt, PTL
   DEF BaseIsBank, ExtIsBank, Base!Spec, Ext!Spec, BaseProofs!Spec, ExtProofs!Spec

\* The RAM of a bank that has no store on its way is what the program wrote.
LEMMA NothingOnItsWay ==
  /\ /\ BaseProofs!TypeOK /\ BaseProofs!Coherent
     /\ sb_baseram = <<>> /\ Base!reqw_ready
     => baseram = baseram_mem
  /\ /\ ExtProofs!TypeOK /\ ExtProofs!Coherent
     /\ sb_extram = <<>> /\ Ext!reqw_ready
     => extram = extram_mem
<1>1. ASSUME BaseProofs!TypeOK, BaseProofs!Coherent, sb_baseram = <<>>, Base!reqw_ready
      PROVE  baseram = baseram_mem
  <2>1. BaseProofs!Pending = <<>>
    BY <1>1 DEF BaseProofs!Pending, Base!reqw_ready
  <2>2. \A a \in BaseProofs!Addr, l \in Lanes : baseram_mem[a][l] = baseram[a][l]
    BY <1>1, <2>1 DEF BaseProofs!Coherent
  <2> QED
    BY <1>1, <2>2 DEF BaseProofs!TypeOK, BaseProofs!Word
<1>2. ASSUME ExtProofs!TypeOK, ExtProofs!Coherent, sb_extram = <<>>, Ext!reqw_ready
      PROVE  extram = extram_mem
  <2>1. ExtProofs!Pending = <<>>
    BY <1>2 DEF ExtProofs!Pending, Ext!reqw_ready
  <2>2. \A a \in ExtProofs!Addr, l \in Lanes : extram_mem[a][l] = extram[a][l]
    BY <1>2, <2>1 DEF ExtProofs!Coherent
  <2> QED
    BY <1>2, <2>2 DEF ExtProofs!TypeOK, ExtProofs!Word
<1> QED
  BY <1>1, <1>2

(* Whenever the program reads the ready bit set, both RAMs hold every      *)
(* store it has made.                                                      *)
THEOREM ReadyMeansStored == Spec => []AckMeansStored
<1>1. BaseProofs!Spec => []BaseProofs!TypeOK
  BY BaseProofs!TypeCorrect, BankAssumptions
<1>2. BaseProofs!Spec => []BaseProofs!Coherent
  BY BaseProofs!Coherence, BankAssumptions
<1>3. ExtProofs!Spec => []ExtProofs!TypeOK
  BY ExtProofs!TypeCorrect, BankAssumptions
<1>4. ExtProofs!Spec => []ExtProofs!Coherent
  BY ExtProofs!Coherence, BankAssumptions
<1>5. /\ BaseProofs!TypeOK /\ BaseProofs!Coherent
      /\ ExtProofs!TypeOK /\ ExtProofs!Coherent
      => AckMeansStored
  BY NothingOnItsWay DEF AckMeansStored, SR_tx_ready, BusyN
<1> QED
  BY <1>1, <1>2, <1>3, <1>4, <1>5, BanksOfSystem, PTL

(* What a bank promises, for the two banks of the system: a load from      *)
(* either returns what the program stored last, and the lines fetched from *)
(* BaseRAM are aligned snapshots: in MemorySystem no reset falls while a  *)
(* burst is requested.                                                    *)
THEOREM BanksKeepTheirPromises ==
  Spec => /\ []BaseProofs!LoadReturnsLatestStore
          /\ []ExtProofs!LoadReturnsLatestStore
          /\ []BaseProofs!FillAligned
          /\ BaseProofs!LineIsSnapshot
<1>1. BaseProofs!Spec => []BaseProofs!LoadReturnsLatestStore
  BY BaseProofs!LoadsAreCurrent, BankAssumptions
<1>2. ExtProofs!Spec => []ExtProofs!LoadReturnsLatestStore
  BY ExtProofs!LoadsAreCurrent, BankAssumptions
<1>3. BaseProofs!Spec => []BaseProofs!FillAligned
  BY BaseProofs!FillsAreAligned, BankAssumptions
<1>4. BaseProofs!Spec => BaseProofs!LineIsSnapshot
  BY BaseProofs!LinesAreSnapshots, BankAssumptions
<1> QED
  BY <1>1, <1>2, <1>3, <1>4, BanksOfSystem, PTL
=============================================================================
