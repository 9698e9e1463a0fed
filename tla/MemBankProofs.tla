---------------------------- MODULE MemBankProofs ----------------------------
(***************************************************************************)
(* Proofs about MemBank for RAMs, store buffers and lines of any size.     *)
(***************************************************************************)
EXTENDS MemBank, SequenceTheorems, TLAPS

(* A granted load has the RAM to itself until it is answered: the buffer   *)
(* is empty and the pins hold its address, which the pipeline still waits  *)
(* for.                                                                    *)
LoadOwnsRam == load_pending_r => /\ load(req)
                                 /\ sb = <<>>
                                 /\ status \in {"READ_1", "READ_2"}
                                 /\ addr = req.addr

\* A store is held for a full buffer, and let go when the buffer has drained.
StoreWaits == store(req) => full \/ status = "WRITE_1"

IInv == TypeOK /\ PinsConsistent /\ Coherent /\ LoadOwnsRam /\ StoreWaits

(* While the RAM is not in a burst, no word of a line has been counted; in *)
(* a burst the pins hold the address of the word the counter says, and the *)
(* request is withdrawn between the middle of the line and its end.        *)
NoBurst ==
  status \notin Bursts =>
    /\ slow_line_adr_cnt = 0
    /\ \/ status_r \in {"BOOT", "IDLE"} /\ ~nl_rd_r
       \/ status_r = "READ_PENDING_1" /\ nl_rd_r /\ nl_baddr_r \in Fetches
       \/ status_r = "READ_PENDING_2" /\ ~nl_rd_r

InBurst ==
  status \in Bursts =>
    /\ Filling
    /\ nl_baddr_r \in Fetches
    /\ slow_line_adr_cnt = LineLen - 1 - burst_cnt
    /\ addr = nl_baddr_r + slow_line_adr_cnt
    /\ status_r = "READ_PENDING_1" =>
         /\ nl_rd_r
         /\ \/ slow_line_adr_cnt < LineLen \div 2
            \/ slow_line_adr_cnt = LineLen \div 2 /\ status = "BURST_READ_1"
    /\ status_r = "READ_PENDING_2" =>
         /\ slow_line_adr_cnt >= LineLen \div 2
         /\ \/ ~nl_rd_r
            \/ slow_line_adr_cnt = LineLen \div 2 /\ status = "BURST_READ_2"

FillInv == NoBurst /\ InBurst

-----------------------------------------------------------------------------
(* Arithmetic of lines.                                                    *)

LEMMA LineEndsInRam ==
  ASSUME NEW a \in Fetches
  PROVE  a \in Nat /\ a + LineLen <= Words
<1>1. /\ LineLen \in Nat /\ LineLen > 0 /\ Words \in Nat
      /\ a \in Nat /\ a < Words /\ a % LineLen = 0 /\ Words % LineLen = 0
  BY BiuAssumption, FillAssumption, BankAssumption DEF Addr
<1>2. PICK p \in Int, q \in Int : a = LineLen * p /\ Words = LineLen * q
  <2>1. a = LineLen * (a \div LineLen) + (a % LineLen)
    BY <1>1
  <2>2. Words = LineLen * (Words \div LineLen) + (Words % LineLen)
    BY <1>1
  <2> QED
    BY <1>1, <2>1, <2>2
<1>3. p < q
  BY <1>1, <1>2
<1>4. LineLen * (p + 1) <= LineLen * q
  BY <1>1, <1>3
<1> QED
  BY <1>1, <1>2, <1>4

LEMMA NextInLine ==
  ASSUME NEW k \in 0 .. LineLen - 1
  PROVE  (k + 1) % LineLen = IF k = LineLen - 1 THEN 0 ELSE k + 1
BY FillAssumption

LEMMA NextInRam ==
  ASSUME NEW a \in Addr
  PROVE  (a + 1) % Words = IF a = Words - 1 THEN 0 ELSE a + 1
BY BiuAssumption DEF Addr

-----------------------------------------------------------------------------
(* Types.                                                                  *)

LEMMA MergeType ==
  ASSUME NEW old \in Word, NEW dat \in Word, NEW b \in SUBSET Lanes
  PROVE  Merge(old, dat, b) \in Word
BY DEF Merge, Word

LEMMA StoredType == TypeOK => Stored \in [Addr -> Word]
<1> SUFFICES ASSUME TypeOK
             PROVE  Stored \in [Addr -> Word]
  OBVIOUS
<1>1. ram[addr] \in Word /\ bus \in Word /\ be \in SUBSET Lanes /\ addr \in Addr
  BY DEF TypeOK, bus
<1>2. Merge(ram[addr], bus, be) \in Word
  BY <1>1, MergeType
<1> QED
  BY <1>1, <1>2 DEF Stored, TypeOK

LEMMA ApplyStoreType ==
  ASSUME NEW m \in [Addr -> Word], NEW w \in Write
  PROVE  ApplyStore(m, w) \in [Addr -> Word]
<1>1. Merge(m[w.addr], w.dat, w.be) \in Word
  BY MergeType DEF Write
<1> QED
  BY <1>1 DEF ApplyStore, Write

\* What the LSU may be given.
LEMMA OfferedShape ==
  ASSUME TypeOK, NEW op \in Offered
  PROVE  /\ op \in Requests
         /\ NoReq \in Requests
         /\ store(op) => op.write \in Stores
         /\ load(op) => op.addr \in Addr
         /\ req # NoReq => op = req
         /\ store(op) /\ req = NoReq => ch_idle
         /\ ~(store(op) /\ load(op))
<1>1. op \in Requests /\ NoReq \in Requests
  BY DEF TypeOK, Offered, Requests
<1>2. /\ store(op) => op.write \in Stores
      /\ load(op) => op.addr \in Addr
  BY <1>1, BankAssumption
     DEF Requests, store, load, NoReq, Loads, StoreReqs, Write
<1>3. req # NoReq => op = req
  BY DEF Offered
<1>4. store(op) /\ req = NoReq => ch_idle
  BY DEF Offered, store, NoReq
<1> QED
  BY <1>1, <1>2, <1>3, <1>4 DEF store, load

\* The store buffer holds stores, no more than it has room for.
LEMMA BufferStep ==
  ASSUME TypeOK, NEW op \in Offered, StoreBuffer(op)
  PROVE  sb' \in Seq(Stores) /\ Len(sb') <= Depth
<1> DEFINE rest == IF sb # <<>> /\ reqw_ready THEN Tail(sb) ELSE sb
<1>1. sb \in Seq(Stores) /\ Len(sb) <= Depth /\ Depth \in Nat
  BY BankAssumption DEF TypeOK
<1>2. rest \in Seq(Stores) /\ Len(rest) <= Len(sb)
  BY <1>1
<1>3. sb' = IF store(op) /\ ~full THEN Append(rest, op.write) ELSE rest
  BY DEF StoreBuffer
<1>4. CASE store(op) /\ ~full
  <2>1. op.write \in Stores
    BY <1>4, OfferedShape
  <2>2. Len(sb) < Depth
    BY <1>1, <1>4 DEF full
  <2>3. sb' = Append(rest, op.write)
    BY <1>3, <1>4
  <2> HIDE DEF rest
  <2> QED
    BY <1>1, <1>2, <2>1, <2>2, <2>3
<1>5. CASE ~(store(op) /\ ~full)
  <2>1. sb' = rest
    BY <1>3, <1>5
  <2> HIDE DEF rest
  <2> QED
    BY <1>1, <1>2, <2>1
<1> QED
  BY <1>4, <1>5

LEMMA HeadIsWrite ==
  TypeOK => reqw \subseteq Write /\ (reqw # {} => sb # <<>> /\ reqw = {Head(sb)})
BY BankAssumption DEF TypeOK, reqw

LEMMA BiuTypes ==
  ASSUME TypeOK, NEW op \in Offered,
         BiuClock(reqw, reqr(op), load_pending_r, br_req)
  PROVE  /\ status' \in States
         /\ burst_cnt' \in 0 .. BurstLen - 1
         /\ addr' \in Addr
         /\ wdat' \in Word
         /\ be' \in SUBSET Lanes
         /\ {oe', we', br_ack', rsp_valid'} \subseteq BOOLEAN
         /\ ram' \in [Addr -> Word]
<1> DEFINE Typed == /\ status' \in States
                    /\ burst_cnt' \in 0 .. BurstLen - 1
                    /\ addr' \in Addr
                    /\ wdat' \in Word
                    /\ be' \in SUBSET Lanes
                    /\ {oe', we', br_ack', rsp_valid'} \subseteq BOOLEAN
                    /\ ram' \in [Addr -> Word]
<1> USE BiuAssumption DEF TypeOK, States, Bursts
<1>1. ASSUME NEW w \in reqw, AcceptWrite(w)
      PROVE  Typed
  <2>1. w \in Write
    BY HeadIsWrite
  <2> QED
    BY <1>1, <2>1 DEF AcceptWrite, Write
<1>2. ASSUME NEW a \in reqr(op), AcceptRead(a)
      PROVE  Typed
  <2>1. a \in Addr
    BY OfferedShape DEF reqr
  <2> QED
    BY <1>2, <2>1 DEF AcceptRead
<1>3. ASSUME NEW a \in br_req, AcceptBurst(a)
      PROVE  Typed
  <2>1. a \in Addr
    BY BankAssumption DEF br_req, Addr
  <2>2. burst_cnt' \in 0 .. BurstLen - 1
    BY <1>3 DEF AcceptBurst
  <2> QED
    BY <1>3, <2>1, <2>2 DEF AcceptBurst
<1>4. ASSUME NoRequest
      PROVE  Typed
  BY <1>4 DEF NoRequest, biu_vars
<1>5. ASSUME Write1
      PROVE  Typed
  <2>1. Stored \in [Addr -> Word]
    BY StoredType
  <2> QED
    BY <1>5, <2>1 DEF Write1
<1>6. ASSUME Write2 \/ Read1 \/ Read2(load_pending_r) \/ BurstRead1
      PROVE  Typed
  BY <1>6 DEF Write2, Read1, Read2, BurstRead1
<1>7. ASSUME BurstRead2
      PROVE  Typed
  <2>1. addr' \in Addr
    BY <1>7, NextInRam DEF BurstRead2, Addr
  <2>2. burst_cnt' \in 0 .. BurstLen - 1
    BY <1>7 DEF BurstRead2
  <2> QED
    BY <1>7, <2>1, <2>2 DEF BurstRead2
<1> QED
  BY <1>1, <1>2, <1>3, <1>4, <1>5, <1>6, <1>7 DEF BiuClock, Grant

LEMMA FillTypes ==
  ASSUME TypeOK, FetchClock
  PROVE  /\ status_r' \in {"BOOT", "IDLE", "READ_PENDING_1", "READ_PENDING_2"}
         /\ clear_cnt' \in 0 .. Sets - 1
         /\ nl_rd_r' \in BOOLEAN
         /\ nl_baddr_r' \in Fetches \union {0}
         /\ slow_line_adr_cnt' \in 0 .. LineLen - 1
<1> USE FillAssumption DEF TypeOK
<1>1. CASE UNCHANGED fill_vars
  BY <1>1 DEF fill_vars
<1>2. ASSUME NEW base \in Fetches, NEW miss \in BOOLEAN, FillClock(base, miss, br_ack)
      PROVE  /\ status_r' \in {"BOOT", "IDLE", "READ_PENDING_1", "READ_PENDING_2"}
             /\ clear_cnt' \in 0 .. Sets - 1
             /\ nl_rd_r' \in BOOLEAN
             /\ nl_baddr_r' \in Fetches \union {0}
             /\ slow_line_adr_cnt' \in 0 .. LineLen - 1
  <2>1. slow_line_adr_cnt' \in 0 .. LineLen - 1
    BY <1>2, NextInLine DEF FillClock, CountAck
  <2>2. CASE Boot
    BY <2>1, <2>2 DEF Boot
  <2>3. CASE Idle(base, miss) \/ Pending1 \/ Pending2
    BY <2>1, <2>3 DEF Idle, Pending1, Pending2
  <2> QED
    BY <1>2, <2>2, <2>3 DEF FillClock
<1> QED
  BY <1>1, <1>2 DEF FetchClock

LEMMA TypeInit == Init => TypeOK
<1> SUFFICES ASSUME Init
             PROVE  TypeOK
  OBVIOUS
<1>1. /\ burst_cnt \in 0 .. BurstLen - 1
      /\ addr \in Addr
      /\ clear_cnt \in 0 .. Sets - 1
      /\ slow_line_adr_cnt \in 0 .. LineLen - 1
  BY BiuAssumption, FillAssumption DEF Init, BankInit, BiuInit, FillInit, Addr
<1>2. ram \in [Addr -> Word]
  BY BankAssumption DEF Init, BankInit, BiuInit
<1>3. sb \in Seq(Stores) /\ Len(sb) <= Depth
  BY BankAssumption DEF Init, BankInit
<1> QED
  BY <1>1, <1>2, <1>3
     DEF TypeOK, Init, BankInit, BiuInit, FillInit, States, Requests

LEMMA TypeStep == TypeOK /\ [Next]_vars => TypeOK'
<1> SUFFICES ASSUME TypeOK, [Next]_vars
             PROVE  TypeOK'
  OBVIOUS
<1>1. ASSUME NEW op \in Offered,
             BankClock(op), req' = (IF stall(op) THEN op ELSE NoReq), FetchClock
      PROVE  TypeOK'
  <2>1. /\ status' \in States
        /\ burst_cnt' \in 0 .. BurstLen - 1
        /\ addr' \in Addr
        /\ wdat' \in Word
        /\ be' \in SUBSET Lanes
        /\ {oe', we', br_ack', rsp_valid'} \subseteq BOOLEAN
        /\ ram' \in [Addr -> Word]
    BY <1>1, BiuTypes DEF BankClock
  <2>2. sb' \in Seq(Stores) /\ Len(sb') <= Depth
    BY <1>1, BufferStep DEF BankClock
  <2>3. load_pending_r' \in BOOLEAN
    BY <1>1 DEF BankClock, load_pending_nxt, hds_push, hds_pop, load, reqr_ready
  <2>4. mem' \in [Addr -> Word]
    <3>1. store(op) => op.write \in Write
      BY <1>1, OfferedShape, BankAssumption
    <3>2. store(op) => ApplyStore(mem, op.write) \in [Addr -> Word]
      BY <3>1, ApplyStoreType DEF TypeOK
    <3> QED
      BY <1>1, <3>2 DEF BankClock, Expect, ApplyStore, TypeOK
  <2>5. req' \in Requests
    BY <1>1, OfferedShape
  <2>6. /\ status_r' \in {"BOOT", "IDLE", "READ_PENDING_1", "READ_PENDING_2"}
        /\ clear_cnt' \in 0 .. Sets - 1
        /\ nl_rd_r' \in BOOLEAN
        /\ nl_baddr_r' \in Fetches \union {0}
        /\ slow_line_adr_cnt' \in 0 .. LineLen - 1
    BY <1>1, FillTypes
  <2> QED
    BY <2>1, <2>2, <2>3, <2>4, <2>5, <2>6 DEF TypeOK
<1>2. ASSUME Reset
      PROVE  TypeOK'
  <2>1. ram' \in [Addr -> Word]
    BY <1>2, StoredType DEF Reset, BankReset, BiuReset, TypeOK
  <2>2. sb' \in Seq(Stores) /\ Len(sb') <= Depth
    BY <1>2, BankAssumption DEF Reset, BankReset
  <2>3. /\ clear_cnt' \in 0 .. Sets - 1
        /\ slow_line_adr_cnt' \in 0 .. LineLen - 1
    BY <1>2, FillAssumption DEF Reset, FillReset, fill_vars, TypeOK
  <2> QED
    BY <1>2, <2>1, <2>2, <2>3
       DEF Reset, BankReset, BiuReset, FillReset, fill_vars, TypeOK, States, Requests
<1>3. ASSUME UNCHANGED vars
      PROVE  TypeOK'
  BY <1>3 DEF vars, biu_vars, fill_vars, bank_vars, TypeOK, Offered,
              Requests, full, store, load
<1> QED
  BY <1>1, <1>2, <1>3 DEF Next, Clock

-----------------------------------------------------------------------------
(* Pins.                                                                   *)

LEMMA PinsInit == Init => PinsConsistent
BY DEF Init, BankInit, BiuInit, PinsConsistent, Bursts

LEMMA PinsStep == PinsConsistent /\ [Next]_vars => PinsConsistent'
<1> SUFFICES ASSUME PinsConsistent, [Next]_vars
             PROVE  PinsConsistent'
  OBVIOUS
<1> USE DEF PinsConsistent, Bursts
<1>1. ASSUME NEW op \in Offered, BankClock(op)
      PROVE  PinsConsistent'
  BY <1>1 DEF BankClock, BiuClock, Grant, AcceptWrite, AcceptRead, AcceptBurst,
              NoRequest, biu_vars, Write1, Write2, Read1, Read2, BurstRead1,
              BurstRead2
<1>2. ASSUME Reset
      PROVE  PinsConsistent'
  BY <1>2 DEF Reset, BankReset, BiuReset
<1>3. ASSUME UNCHANGED vars
      PROVE  PinsConsistent'
  BY <1>3 DEF vars, biu_vars
<1> QED
  BY <1>1, <1>2, <1>3 DEF Next, Clock

-----------------------------------------------------------------------------
(* The stores on their way to the RAM.                                     *)

\* Of a sequence of stores p, store i writes lane l of word a.
Hits(p, i, a, l) == p[i].addr = a /\ l \in p[i].be

\* Coherent for a memory m, a RAM r and any sequence of stores p between them.
Agree(m, r, p) ==
  \A a \in Addr, l \in Lanes :
    /\ \A i \in 1 .. Len(p) :
         /\ Hits(p, i, a, l)
         /\ \A j \in 1 .. Len(p) : Hits(p, j, a, l) => j <= i
         => m[a][l] = p[i].dat[l]
    /\ (\A i \in 1 .. Len(p) : ~Hits(p, i, a, l)) => m[a][l] = r[a][l]

LEMMA AgreeByHits ==
  ASSUME NEW m, NEW r, NEW p
  PROVE  Agree(m, r, p) <=>
           \A a \in Addr, l \in Lanes :
             LET hits == {i \in 1 .. Len(p) : p[i].addr = a /\ l \in p[i].be}
             IN /\ \A i \in hits : (\A j \in hits : j <= i) => m[a][l] = p[i].dat[l]
                /\ hits = {} => m[a][l] = r[a][l]
BY DEF Agree, Hits

LEMMA CoherentIsAgree == /\ Coherent <=> Agree(mem, ram, Pending)
                         /\ Coherent' <=> Agree(mem', ram', Pending')
<1>1. Coherent <=> Agree(mem, ram, Pending)
  BY AgreeByHits DEF Coherent
<1>2. Coherent' <=> Agree(mem', ram', Pending')
  BY AgreeByHits DEF Coherent
<1> QED
  BY <1>1, <1>2

\* A store changes the lanes it writes and no others.
LEMMA ApplyStoreLane ==
  ASSUME NEW m \in [Addr -> Word], NEW w \in Write, NEW a \in Addr, NEW l \in Lanes
  PROVE  ApplyStore(m, w)[a][l] = IF w.addr = a /\ l \in w.be THEN w.dat[l] ELSE m[a][l]
BY DEF ApplyStore, Merge, Word, Write

\* The program makes one more store: it is the youngest of its lanes.
LEMMA AgreeAccept ==
  ASSUME NEW m \in [Addr -> Word], NEW r \in [Addr -> Word],
         NEW p \in Seq(Write), NEW w \in Write, Agree(m, r, p)
  PROVE  Agree(ApplyStore(m, w), r, Append(p, w))
<1> DEFINE q == Append(p, w)
<1>1. /\ Len(p) \in Nat /\ Len(q) = Len(p) + 1 /\ q[Len(p) + 1] = w
      /\ \A i \in 1 .. Len(p) : q[i] = p[i]
  OBVIOUS
<1> HIDE DEF q
<1>2. ASSUME NEW a \in Addr, NEW l \in Lanes
      PROVE  /\ \A i \in 1 .. Len(q) :
                  /\ Hits(q, i, a, l)
                  /\ \A j \in 1 .. Len(q) : Hits(q, j, a, l) => j <= i
                  => ApplyStore(m, w)[a][l] = q[i].dat[l]
             /\ (\A i \in 1 .. Len(q) : ~Hits(q, i, a, l))
                  => ApplyStore(m, w)[a][l] = r[a][l]
  <2>1. /\ \A i \in 1 .. Len(p) : Hits(q, i, a, l) <=> Hits(p, i, a, l)
        /\ Hits(q, Len(p) + 1, a, l) <=> w.addr = a /\ l \in w.be
    BY <1>1 DEF Hits
  <2>2. ASSUME NEW i \in 1 .. Len(q), Hits(q, i, a, l),
               \A j \in 1 .. Len(q) : Hits(q, j, a, l) => j <= i
        PROVE  ApplyStore(m, w)[a][l] = q[i].dat[l]
    <3>1. CASE i = Len(p) + 1
      BY <1>1, <2>1, <2>2, <3>1, ApplyStoreLane
    <3>2. CASE i \in 1 .. Len(p)
      <4>1. ~Hits(q, Len(p) + 1, a, l)
        BY <1>1, <2>2, <3>2
      <4>2. m[a][l] = p[i].dat[l]
        <5>1. \A j \in 1 .. Len(p) : Hits(p, j, a, l) => j <= i
          BY <1>1, <2>1, <2>2
        <5> QED
          BY <2>1, <2>2, <3>2, <5>1 DEF Agree
      <4> QED
        BY <1>1, <2>1, <3>2, <4>1, <4>2, ApplyStoreLane
    <3> QED
      BY <1>1, <3>1, <3>2
  <2>3. ASSUME \A i \in 1 .. Len(q) : ~Hits(q, i, a, l)
        PROVE  ApplyStore(m, w)[a][l] = r[a][l]
    <3>1. \A i \in 1 .. Len(p) : ~Hits(p, i, a, l)
      BY <1>1, <2>1, <2>3
    <3>2. m[a][l] = r[a][l]
      BY <3>1 DEF Agree
    <3>3. ~Hits(q, Len(p) + 1, a, l)
      BY <1>1, <2>3
    <3> QED
      BY <2>1, <3>2, <3>3, ApplyStoreLane
  <2> QED
    BY <2>2, <2>3
<1> QED
  BY <1>2 DEF Agree, q

\* The oldest store reaches the RAM: a younger one to the same lane hides it.
LEMMA AgreeCommit ==
  ASSUME NEW m \in [Addr -> Word], NEW r \in [Addr -> Word],
         NEW p \in Seq(Write), p # <<>>, Agree(m, r, p)
  PROVE  Agree(m, ApplyStore(r, Head(p)), Tail(p))
<1> DEFINE q == Tail(p)
           w == Head(p)
<1>1. /\ Len(q) \in Nat /\ Len(p) = Len(q) + 1 /\ w = p[1] /\ w \in Write
      /\ \A i \in 1 .. Len(q) : q[i] = p[i + 1]
  OBVIOUS
<1> HIDE DEF q, w
<1>2. ASSUME NEW a \in Addr, NEW l \in Lanes
      PROVE  /\ \A i \in 1 .. Len(q) :
                  /\ Hits(q, i, a, l)
                  /\ \A j \in 1 .. Len(q) : Hits(q, j, a, l) => j <= i
                  => m[a][l] = q[i].dat[l]
             /\ (\A i \in 1 .. Len(q) : ~Hits(q, i, a, l))
                  => m[a][l] = ApplyStore(r, w)[a][l]
  <2>1. /\ \A i \in 1 .. Len(q) : Hits(q, i, a, l) <=> Hits(p, i + 1, a, l)
        /\ Hits(p, 1, a, l) <=> w.addr = a /\ l \in w.be
    BY <1>1 DEF Hits
  <2>2. ASSUME NEW i \in 1 .. Len(q), Hits(q, i, a, l),
               \A j \in 1 .. Len(q) : Hits(q, j, a, l) => j <= i
        PROVE  m[a][l] = q[i].dat[l]
    <3>1. \A j \in 1 .. Len(p) : Hits(p, j, a, l) => j <= i + 1
      <4> SUFFICES ASSUME NEW j \in 1 .. Len(p), Hits(p, j, a, l)
                   PROVE  j <= i + 1
        OBVIOUS
      <4>1. CASE j = 1
        BY <4>1
      <4>2. CASE j # 1
        <5>1. j - 1 \in 1 .. Len(q) /\ (j - 1) + 1 = j
          BY <1>1, <4>2
        <5>2. Hits(q, j - 1, a, l)
          BY <2>1, <5>1
        <5> QED
          BY <2>2, <5>1, <5>2
      <4> QED
        BY <4>1, <4>2
    <3>2. i + 1 \in 1 .. Len(p) /\ Hits(p, i + 1, a, l)
      BY <1>1, <2>1, <2>2
    <3> QED
      BY <1>1, <3>1, <3>2 DEF Agree
  <2>3. ASSUME \A i \in 1 .. Len(q) : ~Hits(q, i, a, l)
        PROVE  m[a][l] = ApplyStore(r, w)[a][l]
    <3>1. \A j \in 1 .. Len(p) : Hits(p, j, a, l) => j = 1
      <4> SUFFICES ASSUME NEW j \in 1 .. Len(p), j # 1
                   PROVE  ~Hits(p, j, a, l)
        OBVIOUS
      <4>1. j - 1 \in 1 .. Len(q) /\ (j - 1) + 1 = j
        BY <1>1
      <4> QED
        BY <2>1, <2>3, <4>1
    <3>2. 1 \in 1 .. Len(p)
      BY <1>1
    <3>3. CASE Hits(p, 1, a, l)
      <4>1. m[a][l] = p[1].dat[l]
        BY <3>1, <3>2, <3>3 DEF Agree
      <4> QED
        BY <1>1, <2>1, <3>3, <4>1, ApplyStoreLane
    <3>4. CASE ~Hits(p, 1, a, l)
      <4>1. m[a][l] = r[a][l]
        BY <3>1, <3>4 DEF Agree
      <4> QED
        BY <1>1, <2>1, <3>4, <4>1, ApplyStoreLane
    <3> QED
      BY <3>3, <3>4
  <2> QED
    BY <2>2, <2>3
<1> QED
  BY <1>2 DEF Agree, q, w

\* With no store on its way the RAM is what the program wrote.
LEMMA AgreeEmpty ==
  ASSUME NEW m \in [Addr -> Word], NEW r \in [Addr -> Word]
  PROVE  Agree(m, r, <<>>) <=> m = r
<1>1. Agree(m, r, <<>>) <=> \A a \in Addr, l \in Lanes : m[a][l] = r[a][l]
  BY DEF Agree
<1>2. ASSUME \A a \in Addr, l \in Lanes : m[a][l] = r[a][l]
      PROVE  m = r
  <2>1. \A a \in Addr : m[a] = r[a]
    BY <1>2 DEF Word
  <2> QED
    BY <2>1
<1> QED
  BY <1>1, <1>2

LEMMA ConsSeq ==
  ASSUME NEW s \in Seq(Write), NEW h \in Write, NEW w \in Write
  PROVE  /\ <<h>> \o s \in Seq(Write)
         /\ <<h>> \o s # <<>>
         /\ Len(<<h>> \o s) = Len(s) + 1
         /\ Head(<<h>> \o s) = h
         /\ Tail(<<h>> \o s) = s
         /\ <<h>> \o Append(s, w) = Append(<<h>> \o s, w)
<1>1. <<h>> \o s \in Seq(Write) /\ Len(<<h>> \o s) = Len(s) + 1
  OBVIOUS
<1>2. (<<h>> \o s)[1] = h /\ \A i \in 1 .. Len(s) : (<<h>> \o s)[i + 1] = s[i]
  OBVIOUS
<1>3. Tail(<<h>> \o s) = s
  <2>1. Tail(<<h>> \o s) \in Seq(Write) /\ Len(Tail(<<h>> \o s)) = Len(s)
    BY <1>1
  <2>2. \A i \in 1 .. Len(s) : Tail(<<h>> \o s)[i] = s[i]
    BY <1>1, <1>2
  <2> QED
    BY <2>1, <2>2, SeqEqual
<1>4. <<h>> \o Append(s, w) = Append(<<h>> \o s, w)
  <2>1. /\ <<h>> \o Append(s, w) \in Seq(Write)
        /\ Append(<<h>> \o s, w) \in Seq(Write)
        /\ Len(<<h>> \o Append(s, w)) = Len(s) + 2
        /\ Len(Append(<<h>> \o s, w)) = Len(s) + 2
    BY <1>1
  <2>2. \A i \in 1 .. Len(s) + 2 : (<<h>> \o Append(s, w))[i] = Append(<<h>> \o s, w)[i]
    BY <1>1, <1>2
  <2> QED
    BY <2>1, <2>2, SeqEqual
<1> QED
  BY <1>1, <1>2, <1>3, <1>4

LEMMA UnconsSeq ==
  ASSUME NEW s \in Seq(Write), s # <<>>
  PROVE  Head(s) \in Write /\ Tail(s) \in Seq(Write) /\ <<Head(s)>> \o Tail(s) = s
<1>1. Head(s) \in Write /\ Tail(s) \in Seq(Write) /\ Len(s) = Len(Tail(s)) + 1
  OBVIOUS
<1>2. <<Head(s)>> \o Tail(s) \in Seq(Write) /\ Len(<<Head(s)>> \o Tail(s)) = Len(s)
  BY <1>1
<1>3. \A i \in 1 .. Len(s) : (<<Head(s)>> \o Tail(s))[i] = s[i]
  BY <1>1
<1> QED
  BY <1>1, <1>2, <1>3, SeqEqual

\* The store on the pins.
OnPins == [addr |-> addr, dat |-> wdat, be |-> be]

LEMMA PendingShape ==
  ASSUME TypeOK
  PROVE  /\ OnPins \in Write
         /\ sb \in Seq(Write)
         /\ Pending \in Seq(Write)
         /\ Pending = (IF status = "WRITE_1" THEN <<OnPins>> \o sb ELSE sb)
         /\ Len(sb) \in Nat
         /\ Len(Pending) = (IF status = "WRITE_1" THEN Len(sb) + 1 ELSE Len(sb))
<1>1. OnPins \in Write
  BY DEF OnPins, Write, TypeOK
<1>2. sb \in Seq(Write)
  BY BankAssumption DEF TypeOK
<1>3. Pending = IF status = "WRITE_1" THEN <<OnPins>> \o sb ELSE sb
  BY DEF Pending, OnPins
<1> QED
  BY <1>1, <1>2, <1>3

\* A store is on the pins of the chip in the state WRITE_1 only.
LEMMA StoredIsApply ==
  ASSUME TypeOK, PinsConsistent
  PROVE  Stored = IF status = "WRITE_1" THEN ApplyStore(ram, OnPins) ELSE ram
BY DEF PinsConsistent, Stored, bus, ApplyStore, OnPins, Bursts

LEMMA BiuWrites ==
  ASSUME TypeOK, PinsConsistent, NEW op \in Offered,
         BiuClock(reqw, reqr(op), load_pending_r, br_req)
  PROVE  /\ status = "WRITE_1" => status' # "WRITE_1"
         /\ status' = "WRITE_1" => status = "IDLE" /\ sb # <<>>
         /\ status = "IDLE" /\ sb # <<>> =>
              status' = "WRITE_1" /\ OnPins' = Head(sb)
         /\ ram' = IF status = "WRITE_1" THEN ApplyStore(ram, OnPins) ELSE ram
<1>1. ASSUME NEW w \in reqw, AcceptWrite(w)
      PROVE  /\ status = "IDLE" /\ status' = "WRITE_1" /\ sb # <<>>
             /\ OnPins' = Head(sb) /\ ram' = ram
  <2>1. w \in Write /\ w = Head(sb) /\ sb # <<>>
    BY HeadIsWrite
  <2>2. w = [addr |-> w.addr, dat |-> w.dat, be |-> w.be]
    BY <2>1 DEF Write
  <2> QED
    BY <1>1, <2>1, <2>2 DEF AcceptWrite, OnPins
<1>2. ASSUME Write1
      PROVE  /\ status = "WRITE_1" /\ status' = "WRITE_2"
             /\ ram' = ApplyStore(ram, OnPins)
  BY <1>2, StoredIsApply DEF Write1
<1>3. ASSUME \/ \E a \in reqr(op) : AcceptRead(a)
             \/ \E a \in br_req : AcceptBurst(a)
             \/ NoRequest
             \/ Write2 \/ Read1 \/ Read2(load_pending_r) \/ BurstRead1 \/ BurstRead2
      PROVE  status # "WRITE_1" /\ status' # "WRITE_1" /\ ram' = ram
  BY <1>3 DEF AcceptRead, AcceptBurst, NoRequest, biu_vars, Write2, Read1, Read2,
              BurstRead1, BurstRead2
<1>4. status = "IDLE" /\ sb # <<>> => \E w \in reqw : AcceptWrite(w)
  BY DEF BiuClock, Grant, reqw, Write1, Write2, Read1, Read2, BurstRead1, BurstRead2
<1>5. \/ \E w \in reqw : AcceptWrite(w)
      \/ Write1
      \/ \/ \E a \in reqr(op) : AcceptRead(a)
         \/ \E a \in br_req : AcceptBurst(a)
         \/ NoRequest
         \/ Write2 \/ Read1 \/ Read2(load_pending_r) \/ BurstRead1 \/ BurstRead2
  BY DEF BiuClock, Grant
<1> QED
  BY <1>1, <1>2, <1>3, <1>4, <1>5

(* A clock edge drops the oldest of the pending stores when it reaches the *)
(* RAM, and adds the one that the program makes, if there is room.         *)
Rest == IF status = "WRITE_1" THEN Tail(Pending) ELSE Pending

LEMMA PendingStep ==
  ASSUME TypeOK, PinsConsistent, NEW op \in Offered, BankClock(op)
  PROVE  /\ Rest \in Seq(Write)
         /\ store(op) => op.write \in Write
         /\ status = "WRITE_1" => Pending # <<>> /\ Head(Pending) = OnPins
         /\ ram' = IF status = "WRITE_1" THEN ApplyStore(ram, OnPins) ELSE ram
         /\ mem' = IF store(op) /\ ~full THEN ApplyStore(mem, op.write) ELSE mem
         /\ Pending' = IF store(op) /\ ~full THEN Append(Rest, op.write) ELSE Rest
<1> DEFINE popped == IF sb # <<>> /\ reqw_ready THEN Tail(sb) ELSE sb
           push == store(op) /\ ~full
<1>1. /\ OnPins \in Write
      /\ sb \in Seq(Write)
      /\ Pending \in Seq(Write)
      /\ Pending = (IF status = "WRITE_1" THEN <<OnPins>> \o sb ELSE sb)
  BY PendingShape
<1>2. store(op) => op.write \in Write
  BY OfferedShape, BankAssumption
<1>3. status = "WRITE_1" => Pending # <<>> /\ Head(Pending) = OnPins /\ Tail(Pending) = sb
  BY <1>1, ConsSeq
<1>4. /\ status = "WRITE_1" => status' # "WRITE_1"
      /\ status' = "WRITE_1" => status = "IDLE" /\ sb # <<>>
      /\ status = "IDLE" /\ sb # <<>> => status' = "WRITE_1" /\ OnPins' = Head(sb)
      /\ ram' = IF status = "WRITE_1" THEN ApplyStore(ram, OnPins) ELSE ram
  BY BiuWrites DEF BankClock
<1>5. mem' = IF store(op) /\ ~full THEN ApplyStore(mem, op.write) ELSE mem
  BY DEF BankClock, Expect, ApplyStore
<1>6. Rest = sb
  BY <1>1, <1>3 DEF Rest
<1>7. sb' = IF push THEN Append(popped, op.write) ELSE popped
  BY DEF BankClock, StoreBuffer
<1>8. Pending' = IF status' = "WRITE_1" THEN <<OnPins'>> \o sb' ELSE sb'
  BY DEF Pending, OnPins
<1>9. Pending' = IF push THEN Append(Rest, op.write) ELSE Rest
  <2>1. CASE status = "IDLE" /\ sb # <<>>
    <3>1. popped = Tail(sb)
      BY <2>1 DEF reqw_ready
    <3>2. /\ Head(sb) \in Write /\ Tail(sb) \in Seq(Write)
          /\ <<Head(sb)>> \o Tail(sb) = sb
      BY <1>1, <2>1, UnconsSeq
    <3>3. push => <<Head(sb)>> \o Append(Tail(sb), op.write)
                  = Append(<<Head(sb)>> \o Tail(sb), op.write)
      BY <1>2, <3>2, ConsSeq
    <3>4. Pending' = <<Head(sb)>> \o sb'
      BY <1>4, <1>8, <2>1
    <3> HIDE DEF popped
    <3> QED
      BY <1>6, <1>7, <3>1, <3>2, <3>3, <3>4
  <2>2. CASE ~(status = "IDLE" /\ sb # <<>>)
    <3>1. popped = sb
      BY <2>2 DEF reqw_ready
    <3>2. Pending' = sb'
      BY <1>4, <1>8, <2>2
    <3> HIDE DEF popped
    <3> QED
      BY <1>6, <1>7, <3>1, <3>2
  <2> QED
    BY <2>1, <2>2
<1> QED
  BY <1>1, <1>2, <1>3, <1>4, <1>5, <1>6, <1>9

LEMMA CoherentInit == Init => Coherent
<1> SUFFICES ASSUME Init
             PROVE  Coherent
  OBVIOUS
<1>1. Pending = <<>> /\ mem = ram /\ mem \in [Addr -> Word]
  BY BankAssumption DEF Init, BankInit, BiuInit, Pending
<1> QED
  BY <1>1, AgreeEmpty, CoherentIsAgree

LEMMA CoherentStep ==
  TypeOK /\ PinsConsistent /\ Coherent /\ [Next]_vars => Coherent'
<1> SUFFICES ASSUME TypeOK, PinsConsistent, Coherent, [Next]_vars
             PROVE  Coherent'
  OBVIOUS
<1>a. Agree(mem, ram, Pending)
  BY CoherentIsAgree
<1>b. mem \in [Addr -> Word] /\ ram \in [Addr -> Word] /\ Pending \in Seq(Write)
  BY PendingShape DEF TypeOK
<1>c. Agree(mem', ram', Pending') => Coherent'
  BY CoherentIsAgree
<1>1. ASSUME NEW op \in Offered, BankClock(op)
      PROVE  Agree(mem', ram', Pending')
  <2>1. /\ Rest \in Seq(Write)
        /\ store(op) => op.write \in Write
        /\ status = "WRITE_1" => Pending # <<>> /\ Head(Pending) = OnPins
        /\ ram' = IF status = "WRITE_1" THEN ApplyStore(ram, OnPins) ELSE ram
        /\ mem' = IF store(op) /\ ~full THEN ApplyStore(mem, op.write) ELSE mem
        /\ Pending' = IF store(op) /\ ~full THEN Append(Rest, op.write) ELSE Rest
    BY <1>1, PendingStep
  <2>2. ram' \in [Addr -> Word]
    BY <1>b, <2>1, PendingShape, ApplyStoreType
  <2>3. Agree(mem, ram', Rest)
    BY <1>a, <1>b, <2>1, AgreeCommit DEF Rest
  <2> QED
    BY <1>b, <2>1, <2>2, <2>3, AgreeAccept
<1>2. ASSUME Reset
      PROVE  Agree(mem', ram', Pending')
  <2>1. Pending' = <<>> /\ mem' = ram'
    BY <1>2 DEF Reset, BankReset, BiuReset, Pending
  <2>2. ram' \in [Addr -> Word]
    BY <1>2, StoredType DEF Reset, BankReset, BiuReset, TypeOK
  <2> QED
    BY <2>1, <2>2, AgreeEmpty
<1>3. ASSUME UNCHANGED vars
      PROVE  Agree(mem', ram', Pending')
  BY <1>a, <1>3 DEF vars, biu_vars, bank_vars, Pending
<1> QED
  BY <1>c, <1>1, <1>2, <1>3 DEF Next, Clock

-----------------------------------------------------------------------------
(* Loads and stores that stall.                                            *)

\* The controller with a load on its way, or with one that it grants.
LEMMA LoadStates ==
  ASSUME NEW op \in Offered,
         BiuClock(reqw, reqr(op), load_pending_r, br_req)
  PROVE  /\ status = "READ_1" => status' = "READ_2" /\ addr' = addr
         /\ status = "READ_2" /\ ~load_pending_r => status' = "READ_2" /\ addr' = addr
         /\ status = "IDLE" /\ reqw = {} /\ load(op) =>
              status' = "READ_1" /\ addr' = op.addr
BY DEF BiuClock, Grant, AcceptWrite, AcceptRead, AcceptBurst, NoRequest, biu_vars,
       Write1, Write2, Read1, Read2, BurstRead1, BurstRead2, reqr

LEMMA LoadOwnsRamStep ==
  TypeOK /\ PinsConsistent /\ LoadOwnsRam /\ [Next]_vars => LoadOwnsRam'
<1> SUFFICES ASSUME TypeOK, PinsConsistent, LoadOwnsRam, [Next]_vars
             PROVE  LoadOwnsRam'
  OBVIOUS
<1>1. ASSUME NEW op \in Offered, BankClock(op),
             req' = IF stall(op) THEN op ELSE NoReq
      PROVE  LoadOwnsRam'
  <2> SUFFICES ASSUME load_pending_r'
               PROVE  /\ load(op) /\ req' = op
                      /\ sb' = <<>>
                      /\ status' \in {"READ_1", "READ_2"}
                      /\ addr' = op.addr
    BY DEF LoadOwnsRam
  <2>0. load_pending_nxt(op)
    BY <1>1 DEF BankClock
  <2>1. CASE load_pending_r
    <3>1. ~rsp_valid /\ status = "READ_1"
      BY <2>0, <2>1 DEF load_pending_nxt, hds_pop, LoadOwnsRam, PinsConsistent, TypeOK
    <3>2. op = req /\ load(op) /\ ~store(op) /\ sb = <<>> /\ addr = op.addr
      BY <2>1, OfferedShape DEF LoadOwnsRam, load, NoReq
    <3>3. status' = "READ_2" /\ addr' = addr
      BY <1>1, <3>1, LoadStates DEF BankClock
    <3>4. sb' = <<>>
      BY <1>1, <3>2 DEF BankClock, StoreBuffer
    <3>5. req' = op
      BY <1>1, <2>0, <2>1 DEF stall
    <3> QED
      BY <3>2, <3>3, <3>4, <3>5
  <2>2. CASE ~load_pending_r
    <3>1. load(op) /\ status = "IDLE" /\ reqw = {}
      BY <2>0, <2>2 DEF load_pending_nxt, hds_push, reqr_ready
    <3>2. sb = <<>> /\ ~store(op)
      BY <3>1, OfferedShape DEF reqw
    <3>3. status' = "READ_1" /\ addr' = op.addr
      BY <1>1, <3>1, LoadStates DEF BankClock
    <3>4. sb' = <<>>
      BY <1>1, <3>2 DEF BankClock, StoreBuffer
    <3>5. req' = op
      BY <1>1, <2>2, <3>1 DEF stall
    <3> QED
      BY <3>1, <3>3, <3>4, <3>5
  <2> QED
    BY <2>1, <2>2
<1>2. ASSUME Reset
      PROVE  LoadOwnsRam'
  BY <1>2 DEF Reset, BankReset, LoadOwnsRam
<1>3. ASSUME UNCHANGED vars
      PROVE  LoadOwnsRam'
  BY <1>3 DEF vars, bank_vars, biu_vars, LoadOwnsRam, load
<1> QED
  BY <1>1, <1>2, <1>3 DEF Next, Clock

LEMMA StoreWaitsStep ==
  TypeOK /\ PinsConsistent /\ LoadOwnsRam /\ StoreWaits /\ [Next]_vars => StoreWaits'
<1> SUFFICES ASSUME TypeOK, PinsConsistent, LoadOwnsRam, StoreWaits, [Next]_vars
             PROVE  StoreWaits'
  OBVIOUS
<1>1. ASSUME NEW op \in Offered, BankClock(op),
             req' = IF stall(op) THEN op ELSE NoReq
      PROVE  StoreWaits'
  <2> SUFFICES ASSUME store(req')
               PROVE  Len(sb') = Depth \/ status' = "WRITE_1"
    BY DEF StoreWaits, full, store
  <2>1. req' = op /\ store(op) /\ stall(op)
    BY <1>1 DEF store, NoReq
  <2>2. ~load_pending_r
    <3>1. load_pending_r => load(op)
      BY OfferedShape DEF LoadOwnsRam, load, NoReq
    <3> QED
      BY <2>1, <3>1, OfferedShape
  <2>3. full
    BY <2>1, <2>2, OfferedShape DEF stall
  <2>4. sb # <<>>
    BY <2>3, BankAssumption DEF full
  <2>5. CASE status = "IDLE"
    BY <1>1, <2>4, <2>5, BiuWrites DEF BankClock
  <2>6. CASE status # "IDLE"
    BY <1>1, <2>3, <2>6 DEF BankClock, StoreBuffer, reqw_ready, full
  <2> QED
    BY <2>5, <2>6
<1>2. ASSUME Reset
      PROVE  StoreWaits'
  BY <1>2 DEF Reset, StoreWaits, store, NoReq
<1>3. ASSUME UNCHANGED vars
      PROVE  StoreWaits'
  BY <1>3 DEF vars, bank_vars, biu_vars, StoreWaits, store, full
<1> QED
  BY <1>1, <1>2, <1>3 DEF Next, Clock

(* The five parts of the invariant hold in every state, whatever the       *)
(* program stores and loads, whenever lines are fetched and whenever the   *)
(* reset button is pressed.                                                *)
THEOREM Invariance == Spec => []IInv
<1>1. Init => IInv
  <2>1. Init => LoadOwnsRam /\ StoreWaits
    BY DEF Init, BankInit, LoadOwnsRam, StoreWaits, store, NoReq
  <2> QED
    BY <2>1, TypeInit, PinsInit, CoherentInit DEF IInv
<1>2. IInv /\ [Next]_vars => IInv'
  BY TypeStep, PinsStep, CoherentStep, LoadOwnsRamStep, StoreWaitsStep DEF IInv
<1> QED
  BY <1>1, <1>2, PTL DEF Spec

\* Every register keeps its type; the store buffer never overruns.
THEOREM TypeCorrect == Spec => []TypeOK
BY Invariance, PTL DEF IInv

\* The chip and the controller never drive the bus at the same time.
THEOREM PinsAgree == Spec => []PinsConsistent
BY Invariance, PTL DEF IInv

\* The RAM and the stores on their way to it add up to the program's memory.
THEOREM Coherence == Spec => []Coherent
BY Invariance, PTL DEF IInv

\* A load returns the bytes the program stored last.
THEOREM LoadsAreCurrent == Spec => []LoadReturnsLatestStore
<1>1. IInv => LoadReturnsLatestStore
  <2> SUFFICES ASSUME IInv, load(req), load_pending_r, rsp_valid,
                      NEW lanes \in MaskedLoads
               PROVE  dc_o_dat(lanes) = [l \in lanes |-> mem[req.addr][l]]
    BY DEF LoadReturnsLatestStore
  <2>1. status = "READ_2" /\ oe /\ sb = <<>> /\ addr = req.addr
    BY DEF IInv, PinsConsistent, LoadOwnsRam
  <2>2. mem = ram
    BY <2>1, CoherentIsAgree, AgreeEmpty DEF IInv, Pending, TypeOK
  <2> QED
    BY <2>1, <2>2 DEF dc_o_dat, bus
<1> QED
  BY <1>1, Invariance, PTL

-----------------------------------------------------------------------------
(* The ordered memory that the bank implements.                            *)

LEMMA OrderedStep == IInv /\ [Next]_vars => [Ordered!Next]_<<ram, Pending>>
<1> SUFFICES ASSUME IInv, [Next]_vars
             PROVE  [Ordered!Next]_<<ram, Pending>>
  OBVIOUS
<1>1. ASSUME NEW op \in Offered, BankClock(op)
      PROVE  [Ordered!Next]_<<ram, Pending>>
  <2>1. /\ Rest \in Seq(Write)
        /\ store(op) => op.write \in Write
        /\ status = "WRITE_1" => Pending # <<>> /\ Head(Pending) = OnPins
        /\ ram' = IF status = "WRITE_1" THEN ApplyStore(ram, OnPins) ELSE ram
        /\ Pending' = IF store(op) /\ ~full THEN Append(Rest, op.write) ELSE Rest
    BY <1>1, PendingStep DEF IInv
  <2>2. store(op) => op.write \in Stores
    BY OfferedShape DEF IInv
  <2>3. CASE status = "WRITE_1" /\ store(op) /\ ~full
    <3>1. Ordered!CommitAndAccept(op.write)
      BY <2>1, <2>3 DEF Ordered!CommitAndAccept, Rest
    <3> QED
      BY <2>2, <2>3, <3>1 DEF Ordered!Next
  <2>4. CASE status = "WRITE_1" /\ ~(store(op) /\ ~full)
    <3>1. Ordered!Commit
      BY <2>1, <2>4 DEF Ordered!Commit, Rest
    <3> QED
      BY <3>1 DEF Ordered!Next
  <2>5. CASE status # "WRITE_1" /\ store(op) /\ ~full
    <3>1. Len(Pending) < Depth + 1
      BY <2>5, PendingShape, BankAssumption DEF IInv, TypeOK, full
    <3>2. Ordered!Accept(op.write)
      BY <2>1, <2>5, <3>1 DEF Ordered!Accept, Rest
    <3> QED
      BY <2>2, <2>5, <3>2 DEF Ordered!Next
  <2>6. CASE status # "WRITE_1" /\ ~(store(op) /\ ~full)
    BY <2>1, <2>6 DEF Rest
  <2> QED
    BY <2>3, <2>4, <2>5, <2>6
<1>2. ASSUME Reset
      PROVE  Ordered!Forget
  <2>1. Pending' = <<>> /\ ram' \in {ram, Stored}
    BY <1>2 DEF Reset, BankReset, BiuReset, Pending
  <2>2. Stored = IF status = "WRITE_1" THEN ApplyStore(ram, OnPins) ELSE ram
    BY StoredIsApply DEF IInv
  <2>3. status = "WRITE_1" => Pending # <<>> /\ Head(Pending) = OnPins
    BY PendingShape, ConsSeq DEF IInv
  <2> QED
    BY <2>1, <2>2, <2>3 DEF Ordered!Forget
<1>3. ASSUME UNCHANGED vars
      PROVE  UNCHANGED <<ram, Pending>>
  BY <1>3 DEF vars, biu_vars, bank_vars, Pending
<1> QED
  BY <1>1, <1>2, <1>3 DEF Next, Clock, Ordered!Next

(* The bank implements the ordered memory: every store reaches the RAM     *)
(* once and in program order, but those a reset forgets.                   *)
THEOREM Refinement == Spec => OrderedStores
<1>1. Init => Ordered!Init
  BY DEF Init, BankInit, BiuInit, Pending, Ordered!Init
<1> QED
  BY <1>1, OrderedStep, Invariance, PTL DEF Spec, OrderedStores, Ordered!Spec

-----------------------------------------------------------------------------
(* Line fills, as long as no reset falls while a burst is requested.       *)

LEMMA FillInvInit == Init => FillInv
BY DEF Init, BankInit, BiuInit, FillInit, FillInv, NoBurst, InBurst, Bursts

\* A request stands only while a line is being filled, and the RAM answers
\* only in a burst.
LEMMA FillShape ==
  ASSUME TypeOK, PinsConsistent, FillInv
  PROVE  /\ nl_rd_r => Filling
         /\ br_ack => status \in Bursts
         /\ status \notin Bursts => ~br_ack
BY DEF FillInv, NoBurst, InBurst, PinsConsistent, Filling, Bursts

\* What the controller does to a burst.
LEMMA BurstSteps ==
  ASSUME TypeOK, NEW op \in Offered,
         BiuClock(reqw, reqr(op), load_pending_r, br_req)
  PROVE  /\ status \notin Bursts =>
              \/ status' \notin Bursts
              \/ /\ status = "IDLE" /\ reqw = {} /\ nl_rd_r
                 /\ status' = "BURST_READ_1" /\ addr' = nl_baddr_r
                 /\ burst_cnt' = BurstLen - 1
         /\ status = "BURST_READ_1" =>
              /\ status' = "BURST_READ_2"
              /\ UNCHANGED <<addr, burst_cnt>>
         /\ status = "BURST_READ_2" =>
              IF burst_cnt = 0
              THEN status' = "IDLE"
              ELSE /\ status' = "BURST_READ_1"
                   /\ addr' = (addr + 1) % Words
                   /\ burst_cnt' = burst_cnt - 1
         /\ status \in Bursts => ram' = ram
BY DEF BiuClock, Grant, AcceptWrite, AcceptRead, AcceptBurst, NoRequest, biu_vars,
       Write1, Write2, Read1, Read2, BurstRead1, BurstRead2, br_req, Bursts

\* What the fill machine does, with or without an acknowledgement.
LEMMA FillSteps ==
  ASSUME TypeOK, FetchClock
  PROVE  /\ slow_line_adr_cnt' = IF br_ack /\ Fetches # {}
                                 THEN (slow_line_adr_cnt + 1) % LineLen
                                 ELSE slow_line_adr_cnt
         /\ status_r \in {"BOOT", "IDLE"} /\ ~nl_rd_r =>
              \/ status_r' \in {"BOOT", "IDLE"} /\ ~nl_rd_r'
              \/ status_r' = "READ_PENDING_1" /\ nl_rd_r' /\ nl_baddr_r' \in Fetches
         /\ Fetches # {} /\ status_r = "READ_PENDING_1" =>
              /\ UNCHANGED <<nl_rd_r, nl_baddr_r>>
              /\ status_r' = IF line_adr_cnt_msb THEN "READ_PENDING_2"
                                                 ELSE "READ_PENDING_1"
         /\ Fetches # {} /\ status_r = "READ_PENDING_2" =>
              /\ ~nl_rd_r' /\ nl_baddr_r' = nl_baddr_r
              /\ status_r' = IF line_adr_cnt_msb THEN "READ_PENDING_2" ELSE "IDLE"
         /\ Fetches = {} => UNCHANGED fill_vars
<1>1. CASE Fetches = {}
  BY <1>1 DEF FetchClock, fill_vars
<1>2. CASE Fetches # {}
  <2>1. PICK base \in Fetches, miss \in BOOLEAN : FillClock(base, miss, br_ack)
    BY <1>2 DEF FetchClock
  <2> QED
    BY <1>2, <2>1 DEF FillClock, CountAck, Boot, Idle, ch_idle, Pending1, Pending2, TypeOK
<1> QED
  BY <1>1, <1>2

LEMMA FillInvStep ==
  ~ResetDuringFill /\ IInv /\ FillInv /\ [Next]_vars => FillInv'
<1> SUFFICES ASSUME ~ResetDuringFill, IInv, FillInv, [Next]_vars
             PROVE  FillInv'
  OBVIOUS
<1>1. ASSUME NEW op \in Offered, BankClock(op), FetchClock
      PROVE  FillInv'
  <2> DEFINE L == LineLen
  <2>1. /\ L \in Nat /\ L > 0 /\ L % 2 = 0 /\ BurstLen = L
        /\ L \div 2 \in Nat /\ 2 * (L \div 2) = L /\ L \div 2 >= 1
        /\ slow_line_adr_cnt \in 0 .. L - 1
        /\ burst_cnt \in 0 .. L - 1
    BY FillAssumption, BankAssumption DEF IInv, TypeOK
  <2>2. /\ status \notin Bursts =>
              \/ status' \notin Bursts
              \/ /\ status = "IDLE" /\ reqw = {} /\ nl_rd_r
                 /\ status' = "BURST_READ_1" /\ addr' = nl_baddr_r
                 /\ burst_cnt' = BurstLen - 1
        /\ status = "BURST_READ_1" =>
              /\ status' = "BURST_READ_2"
              /\ UNCHANGED <<addr, burst_cnt>>
        /\ status = "BURST_READ_2" =>
              IF burst_cnt = 0
              THEN status' = "IDLE"
              ELSE /\ status' = "BURST_READ_1"
                   /\ addr' = (addr + 1) % Words
                   /\ burst_cnt' = burst_cnt - 1
    BY <1>1, BurstSteps DEF BankClock, IInv
  <2>3. /\ slow_line_adr_cnt' = IF br_ack /\ Fetches # {}
                                THEN (slow_line_adr_cnt + 1) % L
                                ELSE slow_line_adr_cnt
        /\ status_r \in {"BOOT", "IDLE"} /\ ~nl_rd_r =>
              \/ status_r' \in {"BOOT", "IDLE"} /\ ~nl_rd_r'
              \/ status_r' = "READ_PENDING_1" /\ nl_rd_r' /\ nl_baddr_r' \in Fetches
        /\ Fetches # {} /\ status_r = "READ_PENDING_1" =>
              /\ UNCHANGED <<nl_rd_r, nl_baddr_r>>
              /\ status_r' = IF line_adr_cnt_msb THEN "READ_PENDING_2"
                                                 ELSE "READ_PENDING_1"
        /\ Fetches # {} /\ status_r = "READ_PENDING_2" =>
              /\ ~nl_rd_r' /\ nl_baddr_r' = nl_baddr_r
              /\ status_r' = IF line_adr_cnt_msb THEN "READ_PENDING_2" ELSE "IDLE"
        /\ Fetches = {} => UNCHANGED fill_vars
    BY <1>1, FillSteps DEF IInv
  <2>4. br_ack <=> status = "BURST_READ_2"
    BY DEF IInv, PinsConsistent
  <2>5. CASE status \notin Bursts
    <3>1. slow_line_adr_cnt = 0 /\ slow_line_adr_cnt' = 0 /\ ~line_adr_cnt_msb
      BY <2>1, <2>3, <2>4, <2>5 DEF FillInv, NoBurst, Bursts, line_adr_cnt_msb
    <3>2. CASE status' \notin Bursts
      <4>1. CASE Fetches = {}
        BY <2>3, <2>5, <3>1, <3>2, <4>1
           DEF FillInv, NoBurst, InBurst, fill_vars
      <4>2. CASE Fetches # {}
        BY <2>3, <2>5, <3>1, <3>2, <4>2 DEF FillInv, NoBurst, InBurst
      <4> QED
        BY <4>1, <4>2
    <3>3. CASE status' \in Bursts
      <4>1. /\ nl_rd_r /\ status_r = "READ_PENDING_1" /\ nl_baddr_r \in Fetches
            /\ status' = "BURST_READ_1" /\ addr' = nl_baddr_r
            /\ burst_cnt' = L - 1
        BY <2>1, <2>2, <2>5, <3>3 DEF FillInv, NoBurst
      <4>2. status_r' = "READ_PENDING_1" /\ nl_rd_r' /\ nl_baddr_r' = nl_baddr_r
        BY <2>3, <3>1, <4>1
      <4>3. nl_baddr_r \in Nat
        BY <4>1, LineEndsInRam
      <4> QED
        BY <2>1, <3>1, <3>3, <4>1, <4>2, <4>3
           DEF FillInv, NoBurst, InBurst, Filling
    <3> QED
      BY <3>2, <3>3
  <2>6. CASE status \in Bursts
    <3>1. /\ Filling /\ nl_baddr_r \in Fetches /\ Fetches # {}
          /\ slow_line_adr_cnt = L - 1 - burst_cnt
          /\ addr = nl_baddr_r + slow_line_adr_cnt
          /\ status_r = "READ_PENDING_1" =>
               /\ nl_rd_r
               /\ \/ slow_line_adr_cnt < L \div 2
                  \/ slow_line_adr_cnt = L \div 2 /\ status = "BURST_READ_1"
          /\ status_r = "READ_PENDING_2" =>
               /\ slow_line_adr_cnt >= L \div 2
               /\ \/ ~nl_rd_r
                  \/ slow_line_adr_cnt = L \div 2 /\ status = "BURST_READ_2"
      BY <2>6 DEF FillInv, InBurst
    <3>2. nl_baddr_r \in Nat /\ nl_baddr_r + L <= Words
      BY <3>1, LineEndsInRam
    <3>3. line_adr_cnt_msb <=> slow_line_adr_cnt >= L \div 2
      BY DEF line_adr_cnt_msb
    <3>4. status_r \in {"READ_PENDING_1", "READ_PENDING_2"}
      BY <3>1 DEF Filling
    <3>5. /\ status_r' = IF line_adr_cnt_msb THEN "READ_PENDING_2"
                         ELSE IF status_r = "READ_PENDING_1" THEN "READ_PENDING_1"
                         ELSE "IDLE"
          /\ nl_baddr_r' = nl_baddr_r
          /\ status_r = "READ_PENDING_1" => nl_rd_r'
          /\ status_r = "READ_PENDING_2" => ~nl_rd_r'
      BY <2>3, <3>1, <3>4
    <3> HIDE DEF L
    <3>6. CASE status = "BURST_READ_1"
      <4>1. /\ status' = "BURST_READ_2" /\ addr' = addr /\ burst_cnt' = burst_cnt
            /\ slow_line_adr_cnt' = slow_line_adr_cnt
        BY <2>2, <2>3, <2>4, <3>6
      <4> QED
        BY <2>1, <3>1, <3>3, <3>4, <3>5, <3>6, <4>1
           DEF FillInv, NoBurst, InBurst, Filling, Bursts, L
    <3>7. CASE status = "BURST_READ_2" /\ burst_cnt = 0
      <4>1. status' = "IDLE" /\ slow_line_adr_cnt = L - 1 /\ slow_line_adr_cnt' = 0
        BY <2>1, <2>2, <2>3, <2>4, <3>1, <3>7, NextInLine DEF L
      <4>2. status_r = "READ_PENDING_2" /\ slow_line_adr_cnt >= L \div 2
        BY <2>1, <3>1, <3>4, <3>7, <4>1
      <4> QED
        BY <3>3, <3>5, <4>1, <4>2 DEF FillInv, NoBurst, InBurst, Bursts
    <3>8. CASE status = "BURST_READ_2" /\ burst_cnt # 0
      <4>1. /\ status' = "BURST_READ_1" /\ addr' = (addr + 1) % Words
            /\ burst_cnt' = burst_cnt - 1
        BY <2>2, <3>8
      <4>2. slow_line_adr_cnt' = slow_line_adr_cnt + 1
        BY <2>1, <2>3, <2>4, <3>1, <3>8, NextInLine DEF L
      <4>3. addr' = addr + 1
        <5>1. addr \in Addr /\ addr # Words - 1
          BY <2>1, <3>1, <3>2, <3>8, BiuAssumption DEF Addr
        <5> QED
          BY <4>1, <5>1, NextInRam
      <4>4. /\ slow_line_adr_cnt' = L - 1 - burst_cnt'
            /\ addr' = nl_baddr_r' + slow_line_adr_cnt'
        BY <2>1, <3>1, <3>2, <3>5, <4>1, <4>2, <4>3
      <4>5. status_r' = "READ_PENDING_1" =>
              /\ nl_rd_r'
              /\ slow_line_adr_cnt' <= L \div 2
        BY <2>1, <3>1, <3>3, <3>4, <3>5, <3>8, <4>2
      <4>6. status_r' = "READ_PENDING_2" =>
              slow_line_adr_cnt' >= L \div 2 /\ ~nl_rd_r'
        BY <2>1, <3>1, <3>3, <3>4, <3>5, <3>8, <4>2
      <4>7. Filling'
        BY <2>1, <3>1, <3>3, <3>4, <3>5, <3>8 DEF Filling
      <4>8. slow_line_adr_cnt' <= L \div 2 =>
              slow_line_adr_cnt' < L \div 2 \/ slow_line_adr_cnt' = L \div 2
        BY <2>1, <4>2
      <4> QED
        BY <3>1, <3>5, <4>1, <4>4, <4>5, <4>6, <4>7, <4>8
           DEF FillInv, NoBurst, InBurst, Bursts, L
    <3> QED
      BY <2>6, <3>6, <3>7, <3>8 DEF Bursts
  <2> QED
    BY <2>5, <2>6
<1>2. ASSUME Reset
      PROVE  FillInv'
  <2>1. ~nl_rd_r /\ status' = "IDLE"
    BY <1>2 DEF Reset, BankReset, BiuReset
  <2>2. CASE Fetches = {}
    <3>1. status \notin Bursts
      BY <2>2 DEF FillInv, InBurst
    <3> QED
      BY <1>2, <2>1, <2>2, <3>1
         DEF Reset, fill_vars, FillInv, NoBurst, InBurst, Bursts
  <2>3. CASE Fetches # {}
    BY <1>2, <2>1, <2>3 DEF Reset, FillReset, FillInv, NoBurst, InBurst, Bursts
  <2> QED
    BY <2>2, <2>3
<1>3. ASSUME UNCHANGED vars
      PROVE  FillInv'
  BY <1>3 DEF vars, biu_vars, fill_vars, FillInv, NoBurst, InBurst, Filling
<1> QED
  BY <1>1, <1>2, <1>3 DEF Next, Clock

(* If no reset falls while a burst is requested, the burst and the fill    *)
(* machine count the same words of the same line.                          *)
THEOREM FillInvariance ==
  ASSUME ~ResetDuringFill
  PROVE  Spec => []FillInv
BY FillInvInit, FillInvStep, Invariance, PTL DEF Spec

(* The words a burst acknowledges are those of the line being filled, each *)
(* at the place the counter gives it.                                      *)
THEOREM FillsAreAligned ==
  ASSUME ~ResetDuringFill
  PROVE  Spec => []FillAligned
<1>1. IInv /\ FillInv => FillAligned
  BY FillShape
     DEF IInv, FillInv, InBurst, PinsConsistent, Bursts, FillAligned, WordsOfTheLine
<1> QED
  BY <1>1, Invariance, FillInvariance, PTL

(* A burst starts with every store in the RAM, and no store reaches the    *)
(* RAM before it ends.                                                     *)
THEOREM LinesAreSnapshots ==
  ASSUME ~ResetDuringFill
  PROVE  Spec => LineIsSnapshot
<1>1. ASSUME IInv, FillInv, [Next]_vars
      PROVE  [/\ status = "IDLE" /\ status' = "BURST_READ_1" => ram = mem /\ mem' = mem
              /\ status \in Bursts => ram' = ram]_vars
  <2>1. ASSUME NEW op \in Offered, BankClock(op)
        PROVE  /\ status = "IDLE" /\ status' = "BURST_READ_1" => ram = mem /\ mem' = mem
               /\ status \in Bursts => ram' = ram
    <3>1. /\ status \in Bursts => ram' = ram
          /\ status = "IDLE" /\ status' = "BURST_READ_1" => reqw = {} /\ nl_rd_r
      BY <1>1, <2>1, BurstSteps DEF BankClock, IInv, Bursts
    <3>2. ASSUME status = "IDLE", status' = "BURST_READ_1"
          PROVE  ram = mem /\ mem' = mem
      <4>1. sb = <<>> /\ nl_rd_r
        BY <3>1, <3>2 DEF reqw
      <4>2. ram = mem
        BY <1>1, <3>2, <4>1, CoherentIsAgree, AgreeEmpty DEF IInv, Pending, TypeOK
      <4>3. ~ch_idle
        BY <1>1, <4>1, FillShape DEF IInv, Filling, ch_idle
      <4>4. ~full
        BY <4>1, BankAssumption DEF full
      <4>5. ~store(op)
        <5>1. ~store(req)
          BY <1>1, <3>2, <4>4 DEF IInv, StoreWaits
        <5> QED
          BY <1>1, <4>3, <5>1, OfferedShape DEF IInv
      <4> QED
        BY <2>1, <4>2, <4>5 DEF BankClock, Expect
    <3> QED
      BY <3>1, <3>2
  <2>2. ASSUME Reset
        PROVE  /\ status' = "IDLE"
               /\ status \in Bursts => ram' = ram
    BY <1>1, <2>2, StoredIsApply DEF Reset, BankReset, BiuReset, Bursts, IInv
  <2> QED
    BY <1>1, <2>1, <2>2 DEF Next, Clock
<1> QED
  BY <1>1, Invariance, FillInvariance, PTL DEF Spec, LineIsSnapshot
=============================================================================
