---------------------------- MODULE ICacheProofs -----------------------------
(***************************************************************************)
(* Proofs about ICache for any number of ways and sets and lines of any    *)
(* length: the ranks stay a permutation and show which lines were used     *)
(* last, no line is in a set twice, valid lines are complete, and a lookup *)
(* in the way of the one before is right.                                  *)
(***************************************************************************)
EXTENDS ICache, FiniteSetTheorems, SequenceTheorems, TLAPS

Pending == status_r \in {"READ_PENDING_1", "READ_PENDING_2"}

\* Boot has cleared the sets from the last one down to the one it clears next.
Cleared(s) == status_r = "BOOT" => s > clear_cnt

RankInjective(s) == \A v, w \in Way : lru[s][v] = lru[s][w] => v = w
TagsUnique(s) == \A v, w \in Way : tags[s][v].v /\ tags[s][w] = tags[s][v] => v = w

BootClears ==
  status_r = "BOOT" =>
    /\ ~mmreq_r /\ s_stall_r
    /\ \A s \in Set, w \in Way : s > clear_cnt => ~tags[s][w].v

RanksInjective == \A s \in Set : Cleared(s) => RankInjective(s)
NoDuplicates == \A s \in Set : Cleared(s) => TagsUnique(s)

(* The lookup that waits for a line stays in the tag stage, and the tag of *)
(* the line is there before its words.                                     *)
LookupIsHeld ==
  /\ mmreq_r => entry_idx_prv = maddr_r.line.set
  /\ Pending => mmreq_r /\ s_stall_r /\ hit
  /\ status_r = "IDLE" /\ s_stall_r => mmreq_r /\ hit

(* The burst, the counter of the words received and the request belong to  *)
(* the line of the lookup.                                                 *)
BetweenBursts ==
  burst_cnt = 0 =>
    /\ ~br_ack
    /\ slow_line_adr_cnt = 0
    /\ \/ status_r \in {"BOOT", "IDLE"} /\ ~nl_rd_r
       \/ status_r = "READ_PENDING_1" /\ nl_rd_r /\ nl_baddr_r = maddr_r.line
       \/ status_r = "READ_PENDING_2" /\ ~nl_rd_r

DuringBurst ==
  burst_cnt # 0 =>
    /\ Pending
    /\ nl_baddr_r = maddr_r.line
    /\ burst = maddr_r.line
    /\ slow_line_adr_cnt = LineLen - burst_cnt
    /\ status_r = "READ_PENDING_1" =>
         /\ nl_rd_r
         /\ \/ slow_line_adr_cnt < LineLen \div 2
            \/ slow_line_adr_cnt = LineLen \div 2 /\ ~br_ack
    /\ status_r = "READ_PENDING_2" =>
         /\ slow_line_adr_cnt >= LineLen \div 2
         /\ \/ ~nl_rd_r
            \/ slow_line_adr_cnt = LineLen \div 2 /\ br_ack

\* The words of the line being filled that have arrived.
Arrived(o) == \/ o < slow_line_adr_cnt
              \/ burst_cnt = 0 /\ status_r = "READ_PENDING_2"
WordOf(s, w, o) == [line |-> [tag |-> tags[s][w].tag, set |-> s], off |-> o]

WordsInPlace ==
  Pending => \A o \in Offset :
    Arrived(o) => data[match_way][entry_idx_prv][o] = WordOf(entry_idx_prv, match_way, o)

\* What the output register shows is a word of the set and the way it was read from.
OutputIsRead ==
  status_r = "IDLE" /\ mmreq_r /\ ~s_stall_r =>
    dout = data[read_way][entry_idx_prv][maddr_r.off]

IInv == /\ TypeOK
        /\ BootClears
        /\ RanksInjective
        /\ NoDuplicates
        /\ LookupIsHeld
        /\ BetweenBursts
        /\ DuringBurst
        /\ WordsInPlace
        /\ LinesComplete
        /\ OutputIsRead

-----------------------------------------------------------------------------
(* The lookup and the inputs of a clock edge.                              *)

\* The lookup of this cycle misses, and the refill starts.
Miss == ch_idle /\ mmreq_r /\ ~hit

LEMMA LookupShape ==
  ASSUME TypeOK
  PROVE  /\ 0 \in Way /\ Ways - 1 \in Way /\ 0 \in Set /\ Sets - 1 \in Set
         /\ entry \in [Way -> [v : BOOLEAN, tag : Tags]]
         /\ rank \in [Way -> Way]
         /\ match \subseteq Way
         /\ hit => match_way \in match
         /\ match_way \in Way
         /\ free_way_idx \in Way
         /\ lru_thresh \in Way
         /\ maddr_r.line \in Lines
         /\ maddr_r.line.tag \in Tags /\ maddr_r.line.set \in Set
         /\ maddr_r.off \in Offset
<1>1. 0 \in Way /\ Ways - 1 \in Way /\ 0 \in Set /\ Sets - 1 \in Set
  BY CacheAssumption, FillAssumption DEF Way, Set
<1>2. entry \in [Way -> [v : BOOLEAN, tag : Tags]] /\ rank \in [Way -> Way]
  BY DEF TypeOK, entry, rank
<1>3. match \subseteq Way /\ free \subseteq Way
  BY DEF match, free
<1>4. hit => match_way \in match
  BY DEF hit, match_way, Encode
<1>5. match_way \in Way
  BY <1>1, <1>3, <1>4 DEF hit, match_way, Encode
<1>6. free_way_idx \in Way
  BY <1>1, <1>3 DEF free_way_idx, Encode
<1>7. lru_thresh \in Way
  BY <1>1, <1>2, <1>5 DEF lru_thresh
<1>8. /\ maddr_r.line \in Lines
      /\ maddr_r.line.tag \in Tags /\ maddr_r.line.set \in Set
      /\ maddr_r.off \in Offset
  BY CacheAssumption DEF TypeOK, Words, Set
<1> QED
  BY <1>1, <1>2, <1>3, <1>4, <1>5, <1>6, <1>7, <1>8

LEMMA InputShape ==
  ASSUME TypeOK, NEW i_req \in BOOLEAN, NEW i_pc \in Fetches
  PROVE  /\ mmreq(i_req) \in BOOLEAN
         /\ maddr(i_pc) \in Words
         /\ maddr(i_pc).line.set \in Set
         /\ maddr(i_pc).off \in Offset
         /\ entry_idx(i_pc) \in Set
<1>1. i_pc \in Words
  BY CacheAssumption DEF Words, Offset
<1>2. maddr(i_pc) \in Words /\ mmreq(i_req) \in BOOLEAN
  BY <1>1 DEF maddr, mmreq, TypeOK
<1>3. maddr(i_pc).line.set \in Set /\ maddr(i_pc).off \in Offset
  BY <1>2, CacheAssumption DEF Words, Set
<1> QED
  BY <1>2, <1>3 DEF entry_idx, TypeOK

\* What a clock edge does to the tags and the ranks.
LEMMA TagsSteps ==
  ASSUME TypeOK, TagsAndLru
  PROVE  /\ status_r = "BOOT" =>
              /\ \A w \in Way : ~tags'[clear_cnt][w].v /\ lru'[clear_cnt][w] = w
              /\ \A s \in Set : s # clear_cnt => tags'[s] = tags[s] /\ lru'[s] = lru[s]
         /\ Miss => /\ tags' = [tags EXCEPT ![entry_idx_prv][free_way_idx] =
                                  [v |-> TRUE, tag |-> maddr_r.line.tag]]
                    /\ lru' = lru
         /\ ch_idle /\ mmreq_r /\ hit =>
              /\ tags' = tags
              /\ lru' = [lru EXCEPT ![entry_idx_prv] = [w \in Way |-> NewRank(w)]]
         /\ status_r # "BOOT" /\ ~(ch_idle /\ mmreq_r) => tags' = tags /\ lru' = lru
<1>1. /\ tags \in [Set -> [Way -> [v : BOOLEAN, tag : Tags]]]
      /\ lru \in [Set -> [Way -> Way]]
      /\ entry_idx_prv \in Set /\ clear_cnt \in Set
      /\ free_way_idx \in Way
  BY LookupShape DEF TypeOK
<1>2. CASE status_r = "BOOT"
  <2>1. /\ tags' = [tags EXCEPT ![clear_cnt] = [w \in Way |-> Invalid(entry[w].tag)]]
        /\ lru' = [lru EXCEPT ![clear_cnt] = [w \in Way |-> w]]
    BY <1>2 DEF TagsAndLru, w_tag_prv, w_lru_prv, ch_idle
  <2> QED
    BY <1>1, <1>2, <2>1 DEF Invalid, Miss, ch_idle
<1>3. CASE status_r # "BOOT"
  <2>1. /\ tags' = [tags EXCEPT ![entry_idx_prv] = w_tag_prv]
        /\ lru' = [lru EXCEPT ![entry_idx_prv] = w_lru_prv]
    BY <1>3 DEF TagsAndLru
  <2>2. CASE Miss
    <3>1. w_tag_prv = [entry EXCEPT ![free_way_idx] =
                         [v |-> TRUE, tag |-> maddr_r.line.tag]]
      BY <1>1, <1>3, <2>2 DEF w_tag_prv, Miss, entry
    <3>2. w_lru_prv = rank
      BY <1>1, <1>3, <2>2 DEF w_lru_prv, Miss, rank
    <3> QED
      BY <1>1, <1>3, <2>1, <2>2, <3>1, <3>2 DEF Miss, entry, rank
  <2>3. CASE ~Miss
    <3>1. w_tag_prv = entry
      BY <1>1, <1>3, <2>3 DEF w_tag_prv, Miss, entry
    <3>2. w_lru_prv = IF ch_idle /\ mmreq_r /\ hit THEN [w \in Way |-> NewRank(w)]
                                                   ELSE rank
      BY <1>1, <1>3 DEF w_lru_prv, rank
    <3> QED
      BY <1>1, <1>3, <2>1, <2>3, <3>1, <3>2 DEF Miss, entry, rank
  <2> QED
    BY <2>2, <2>3
<1> QED
  BY <1>2, <1>3

-----------------------------------------------------------------------------
(* Types.                                                                  *)

LEMMA NewRankType ==
  ASSUME TypeOK, NEW w \in Way
  PROVE  NewRank(w) \in Way
<1>1. rank[w] \in Way /\ lru_thresh \in Way /\ Ways - 1 \in Way
  BY LookupShape
<1> QED
  BY <1>1, CacheAssumption DEF NewRank, Way

LEMMA TagTypes ==
  ASSUME TypeOK, TagsAndLru
  PROVE  /\ tags' \in [Set -> [Way -> [v : BOOLEAN, tag : Tags]]]
         /\ lru' \in [Set -> [Way -> Way]]
<1>1. w_tag_prv \in [Way -> [v : BOOLEAN, tag : Tags]]
  BY LookupShape DEF w_tag_prv, Invalid
<1>2. w_lru_prv \in [Way -> Way]
  BY LookupShape, NewRankType DEF w_lru_prv
<1> QED
  BY <1>1, <1>2 DEF TagsAndLru, TypeOK

LEMMA DataTypes ==
  ASSUME TypeOK, BetweenBursts, NEW i_req \in BOOLEAN, NEW i_pc \in Fetches,
         CacheMem(i_req, i_pc)
  PROVE  /\ data' \in [Way -> [Set -> [Offset -> Words \union {Garbage}]]]
         /\ dout' \in Words \union {Garbage}
         /\ read_way' \in Way
<1>1. /\ match_way \in Way /\ entry_idx(i_pc) \in Set /\ maddr(i_pc).off \in Offset
      /\ slow_line_adr_cnt \in Offset
      /\ data \in [Way -> [Set -> [Offset -> Words \union {Garbage}]]]
      /\ dout \in Words \union {Garbage} /\ read_way \in Way
  BY LookupShape, InputShape DEF TypeOK
<1>2. br_ack => [line |-> burst, off |-> LineLen - burst_cnt] \in Words
  <2>1. br_ack => LineLen - burst_cnt \in Offset
    BY FillAssumption DEF TypeOK, BetweenBursts, Offset
  <2> QED
    BY <2>1 DEF TypeOK, Words
<1>3. data' \in [Way -> [Set -> [Offset -> Words \union {Garbage}]]]
  <2> DEFINE W == Words \union {Garbage}
             x == [line |-> burst, off |-> LineLen - burst_cnt]
  <2>1. br_ack => x \in W
    BY <1>2
  <2>2. data' = IF br_ack
                THEN [data EXCEPT ![match_way][entry_idx(i_pc)][slow_line_adr_cnt] = x]
                ELSE data
    BY DEF CacheMem
  <2> HIDE DEF W, x
  <2>3. data \in [Way -> [Set -> [Offset -> W]]]
    BY <1>1 DEF W
  <2>4. data' \in [Way -> [Set -> [Offset -> W]]]
    BY <1>1, <2>1, <2>2, <2>3
  <2> QED
    BY <2>4 DEF W
<1>4. dout' \in Words \union {Garbage} /\ read_way' \in Way
  BY <1>1 DEF CacheMem
<1> QED
  BY <1>3, <1>4

LEMMA NextInLine ==
  ASSUME NEW k \in Offset
  PROVE  (k + 1) % LineLen = IF k = LineLen - 1 THEN 0 ELSE k + 1
BY FillAssumption DEF Offset

LEMMA FillTypes ==
  ASSUME TypeOK, NEW miss \in BOOLEAN, NEW base \in Lines, FillClock(base, miss, br_ack)
  PROVE  /\ status_r' \in {"BOOT", "IDLE", "READ_PENDING_1", "READ_PENDING_2"}
         /\ clear_cnt' \in Set
         /\ slow_line_adr_cnt' \in Offset
         /\ nl_rd_r' \in BOOLEAN
         /\ nl_baddr_r' \in Lines
<1>1. slow_line_adr_cnt' \in Offset
  BY NextInLine, FillAssumption DEF FillClock, CountAck, TypeOK, Offset
<1>2. CASE Boot
  BY <1>1, <1>2, FillAssumption DEF Boot, TypeOK, Set
<1>3. CASE Idle(base, miss) \/ Pending1 \/ Pending2
  BY <1>1, <1>3 DEF Idle, Pending1, Pending2, TypeOK
<1> QED
  BY <1>2, <1>3 DEF FillClock

LEMMA BurstTypes ==
  ASSUME TypeOK, BetweenBursts, Burst
  PROVE  burst' \in Lines /\ burst_cnt' \in 0 .. LineLen /\ br_ack' \in BOOLEAN
<1>1. CASE burst_cnt = 0
  BY <1>1, FillAssumption DEF Burst, TypeOK
<1>2. CASE burst_cnt # 0
  BY <1>2, FillAssumption DEF Burst, TypeOK
<1> QED
  BY <1>1, <1>2

\* A clock edge with the inputs i_req and i_pc.
Edge(i_req, i_pc) == /\ i_req => ~o_stall
                     /\ Lookup(i_req, i_pc)
                     /\ TagsAndLru
                     /\ CacheMem(i_req, i_pc)
                     /\ Stall
                     /\ FillClock(maddr_r.line, mmreq_r /\ ~hit, br_ack)
                     /\ Burst

LEMMA NextIsEdge ==
  ASSUME Next
  PROVE  \E i_req \in BOOLEAN, i_pc \in Fetches : Edge(i_req, i_pc)
BY DEF Next, Clock, Edge

LEMMA TypeEdge ==
  ASSUME TypeOK, BetweenBursts, NEW i_req \in BOOLEAN, NEW i_pc \in Fetches,
         Edge(i_req, i_pc)
  PROVE  TypeOK'
<1>1. mmreq_r' \in BOOLEAN /\ maddr_r' \in Words /\ entry_idx_prv' \in Set
  BY InputShape DEF Edge, Lookup
<1>2. s_stall_r' \in BOOLEAN
  BY DEF Edge, Stall, TypeOK
<1>3. /\ tags' \in [Set -> [Way -> [v : BOOLEAN, tag : Tags]]]
      /\ lru' \in [Set -> [Way -> Way]]
  BY TagTypes DEF Edge
<1>4. /\ data' \in [Way -> [Set -> [Offset -> Words \union {Garbage}]]]
      /\ dout' \in Words \union {Garbage}
      /\ read_way' \in Way
  BY DataTypes DEF Edge
<1>5. /\ status_r' \in {"BOOT", "IDLE", "READ_PENDING_1", "READ_PENDING_2"}
      /\ clear_cnt' \in Set
      /\ slow_line_adr_cnt' \in Offset
      /\ nl_rd_r' \in BOOLEAN
      /\ nl_baddr_r' \in Lines
  <2>1. maddr_r.line \in Lines /\ (mmreq_r /\ ~hit) \in BOOLEAN
    BY LookupShape
  <2> QED
    BY <2>1, FillTypes DEF Edge
<1>6. burst' \in Lines /\ burst_cnt' \in 0 .. LineLen /\ br_ack' \in BOOLEAN
  BY BurstTypes DEF Edge
<1> QED
  BY <1>1, <1>2, <1>3, <1>4, <1>5, <1>6 DEF TypeOK

-----------------------------------------------------------------------------
(* The fill machine and the burst.                                         *)

\* What an edge does to the state of the fill and of the stall.
LEMMA StateSteps ==
  ASSUME TypeOK, NEW i_req \in BOOLEAN, NEW i_pc \in Fetches, Edge(i_req, i_pc)
  PROVE  /\ status_r = "BOOT" =>
              /\ status_r' = IF clear_cnt = 0 THEN "IDLE" ELSE "BOOT"
              /\ clear_cnt' = (clear_cnt - 1) % Sets
              /\ s_stall_r' = (clear_cnt # 0)
              /\ UNCHANGED <<nl_rd_r, nl_baddr_r>>
         /\ status_r = "IDLE" =>
              /\ status_r' = IF Miss THEN "READ_PENDING_1" ELSE "IDLE"
              /\ s_stall_r' = Miss
              /\ nl_rd_r' = (nl_rd_r \/ Miss)
              /\ nl_baddr_r' = maddr_r.line
         /\ status_r = "READ_PENDING_1" =>
              /\ status_r' = IF line_adr_cnt_msb THEN "READ_PENDING_2"
                                                 ELSE "READ_PENDING_1"
              /\ UNCHANGED <<nl_rd_r, nl_baddr_r, s_stall_r>>
         /\ status_r = "READ_PENDING_2" =>
              /\ status_r' = IF line_adr_cnt_msb THEN "READ_PENDING_2" ELSE "IDLE"
              /\ ~nl_rd_r'
              /\ UNCHANGED <<nl_baddr_r, s_stall_r>>
         /\ slow_line_adr_cnt' = IF br_ack THEN (slow_line_adr_cnt + 1) % LineLen
                                           ELSE slow_line_adr_cnt
BY DEF Edge, FillClock, CountAck, Boot, Idle, Pending1, Pending2, Stall, Miss,
       ch_idle, TypeOK

\* The lookup stays in the tag stage for as long as the cache stalls.
LEMMA StallHoldsLookup ==
  ASSUME TypeOK, LookupIsHeld, NEW i_req \in BOOLEAN, NEW i_pc \in Fetches,
         Edge(i_req, i_pc), o_stall
  PROVE  /\ mmreq_r' = mmreq_r /\ maddr_r' = maddr_r
         /\ mmreq(i_req) = mmreq_r /\ maddr(i_pc) = maddr_r
         /\ status_r # "BOOT" /\ mmreq_r => entry_idx(i_pc) = entry_idx_prv
         /\ status_r # "BOOT" /\ mmreq_r => entry_idx_prv' = entry_idx_prv
BY DEF Edge, Lookup, mmreq, maddr, entry_idx, LookupIsHeld

LEMMA WaitingStalls ==
  ASSUME TypeOK, BootClears, LookupIsHeld
  PROVE  /\ status_r = "BOOT" => o_stall
         /\ Pending => o_stall /\ mmreq_r
         /\ Miss => o_stall /\ mmreq_r
         /\ o_stall /\ status_r = "IDLE" => mmreq_r
BY DEF BootClears, LookupIsHeld, Miss, o_stall, ch_idle

LEMMA BurstEdge ==
  ASSUME IInv, NEW i_req \in BOOLEAN, NEW i_pc \in Fetches, Edge(i_req, i_pc)
  PROVE  BetweenBursts' /\ DuringBurst'
<1> DEFINE half == LineLen \div 2
<1>1. /\ LineLen \in Nat /\ LineLen > 0
      /\ half \in Nat /\ 2 * half = LineLen /\ half >= 1
      /\ slow_line_adr_cnt \in 0 .. LineLen - 1
      /\ burst_cnt \in 0 .. LineLen
      /\ br_ack \in BOOLEAN
      /\ line_adr_cnt_msb <=> slow_line_adr_cnt >= half
  BY FillAssumption DEF IInv, TypeOK, Offset, line_adr_cnt_msb
<1>2. /\ status_r = "BOOT" =>
           /\ status_r' = IF clear_cnt = 0 THEN "IDLE" ELSE "BOOT"
           /\ UNCHANGED <<nl_rd_r, nl_baddr_r>>
      /\ status_r = "IDLE" =>
           /\ status_r' = IF Miss THEN "READ_PENDING_1" ELSE "IDLE"
           /\ nl_rd_r' = (nl_rd_r \/ Miss)
           /\ nl_baddr_r' = maddr_r.line
      /\ status_r = "READ_PENDING_1" =>
           /\ status_r' = IF line_adr_cnt_msb THEN "READ_PENDING_2"
                                              ELSE "READ_PENDING_1"
           /\ UNCHANGED <<nl_rd_r, nl_baddr_r>>
      /\ status_r = "READ_PENDING_2" =>
           /\ status_r' = IF line_adr_cnt_msb THEN "READ_PENDING_2" ELSE "IDLE"
           /\ ~nl_rd_r'
           /\ UNCHANGED nl_baddr_r
      /\ slow_line_adr_cnt' = IF br_ack THEN (slow_line_adr_cnt + 1) % LineLen
                                        ELSE slow_line_adr_cnt
  BY StateSteps DEF IInv
<1>3. Pending \/ Miss => maddr_r' = maddr_r
  BY WaitingStalls, StallHoldsLookup DEF IInv
<1>4. status_r \in {"BOOT", "IDLE", "READ_PENDING_1", "READ_PENDING_2"}
  BY DEF IInv, TypeOK
<1>5. CASE burst_cnt = 0
  <2>1. /\ ~br_ack /\ ~br_ack' /\ slow_line_adr_cnt = 0 /\ slow_line_adr_cnt' = 0
        /\ ~line_adr_cnt_msb
    BY <1>1, <1>2, <1>5 DEF IInv, BetweenBursts, Edge, Burst
  <2>2. CASE UNCHANGED <<burst, burst_cnt>>
    <3>1. burst_cnt' = 0
      BY <1>5, <2>2
    <3>2. \/ status_r \in {"BOOT", "IDLE"} /\ ~nl_rd_r
          \/ status_r = "READ_PENDING_1" /\ nl_rd_r /\ nl_baddr_r = maddr_r.line
          \/ status_r = "READ_PENDING_2" /\ ~nl_rd_r
      BY <1>5 DEF IInv, BetweenBursts
    <3>3. \/ status_r' \in {"BOOT", "IDLE"} /\ ~nl_rd_r'
          \/ /\ status_r' = "READ_PENDING_1" /\ nl_rd_r'
             /\ nl_baddr_r' = maddr_r'.line
          \/ status_r' = "READ_PENDING_2" /\ ~nl_rd_r'
      <4>1. CASE status_r = "IDLE" /\ Miss
        BY <1>2, <1>3, <3>2, <4>1
      <4>2. CASE status_r = "READ_PENDING_1"
        BY <1>2, <1>3, <2>1, <3>2, <4>2 DEF Pending
      <4>3. CASE status_r \in {"BOOT", "READ_PENDING_2"} \/ (status_r = "IDLE" /\ ~Miss)
        BY <1>2, <2>1, <3>2, <4>3
      <4> QED
        BY <1>4, <4>1, <4>2, <4>3
    <3> QED
      BY <2>1, <3>1, <3>3 DEF BetweenBursts, DuringBurst
  <2>3. CASE nl_rd_r /\ burst' = nl_baddr_r /\ burst_cnt' = LineLen
    <3>1. status_r = "READ_PENDING_1" /\ nl_baddr_r = maddr_r.line
      BY <1>5, <2>3 DEF IInv, BetweenBursts
    <3>2. /\ status_r' = "READ_PENDING_1" /\ nl_rd_r' /\ nl_baddr_r' = nl_baddr_r
          /\ maddr_r' = maddr_r
      BY <1>2, <1>3, <2>1, <2>3, <3>1 DEF Pending
    <3> QED
      BY <1>1, <2>1, <2>3, <3>1, <3>2 DEF BetweenBursts, DuringBurst, Pending
  <2> QED
    BY <1>5, <2>2, <2>3 DEF Edge, Burst
<1>6. CASE burst_cnt # 0
  <2>1. /\ br_ack' = ~br_ack
        /\ burst_cnt' = IF br_ack THEN burst_cnt - 1 ELSE burst_cnt
        /\ burst' = burst
    BY <1>6 DEF Edge, Burst
  <2>2. /\ Pending
        /\ nl_baddr_r = maddr_r.line
        /\ burst = maddr_r.line
        /\ slow_line_adr_cnt = LineLen - burst_cnt
        /\ status_r = "READ_PENDING_1" =>
             /\ nl_rd_r
             /\ \/ slow_line_adr_cnt < half
                \/ slow_line_adr_cnt = half /\ ~br_ack
        /\ status_r = "READ_PENDING_2" =>
             /\ slow_line_adr_cnt >= half
             /\ \/ ~nl_rd_r
                \/ slow_line_adr_cnt = half /\ br_ack
    BY <1>6 DEF IInv, DuringBurst
  <2>3. /\ maddr_r' = maddr_r /\ nl_baddr_r' = nl_baddr_r
        /\ status_r' = IF line_adr_cnt_msb THEN "READ_PENDING_2"
                       ELSE IF status_r = "READ_PENDING_1" THEN "READ_PENDING_1"
                       ELSE "IDLE"
        /\ status_r = "READ_PENDING_1" => nl_rd_r' = nl_rd_r
        /\ status_r = "READ_PENDING_2" => ~nl_rd_r'
        /\ status_r = "READ_PENDING_1" \/ status_r = "READ_PENDING_2"
    BY <1>2, <1>3, <2>2 DEF Pending
  <2> HIDE DEF half
  <2>4. CASE ~br_ack
    <3>1. slow_line_adr_cnt' = slow_line_adr_cnt /\ burst_cnt' = burst_cnt /\ br_ack'
      BY <1>2, <2>1, <2>4
    <3> QED
      BY <1>1, <1>6, <2>1, <2>2, <2>3, <2>4, <3>1
         DEF BetweenBursts, DuringBurst, Pending, half
  <2>5. CASE br_ack /\ burst_cnt = 1
    <3>1. slow_line_adr_cnt = LineLen - 1 /\ slow_line_adr_cnt' = 0 /\ burst_cnt' = 0
      BY <1>1, <1>2, <2>1, <2>2, <2>5, NextInLine DEF Offset
    <3>2. status_r = "READ_PENDING_2" /\ slow_line_adr_cnt >= half
      BY <1>1, <2>2, <2>3, <2>5, <3>1
    <3> QED
      BY <1>1, <2>1, <2>3, <2>5, <3>1, <3>2 DEF BetweenBursts, DuringBurst
  <2>6. CASE br_ack /\ burst_cnt # 1
    <3>d. slow_line_adr_cnt \in Offset /\ slow_line_adr_cnt # LineLen - 1
      BY <1>1, <1>6, <2>2, <2>6 DEF Offset
    <3>a. slow_line_adr_cnt' = slow_line_adr_cnt + 1
      BY <1>2, <2>6, <3>d, NextInLine
    <3>b. burst_cnt' = burst_cnt - 1 /\ ~br_ack'
      BY <2>1, <2>6
    <3>c. burst_cnt' # 0
      BY <1>1, <1>6, <2>6, <3>b
    <3>1. /\ slow_line_adr_cnt' = slow_line_adr_cnt + 1
          /\ burst_cnt' = burst_cnt - 1 /\ burst_cnt' # 0 /\ ~br_ack'
      BY <3>a, <3>b, <3>c
    <3>2. slow_line_adr_cnt' = LineLen - burst_cnt'
      BY <1>1, <2>2, <3>1
    <3>3. status_r' = "READ_PENDING_1" => nl_rd_r' /\ slow_line_adr_cnt' <= half
      BY <1>1, <2>2, <2>3, <2>6, <3>1
    <3>4. status_r' = "READ_PENDING_2" => slow_line_adr_cnt' >= half /\ ~nl_rd_r'
      BY <1>1, <2>2, <2>3, <2>6, <3>1
    <3>5. Pending'
      BY <1>1, <2>2, <2>3, <2>6 DEF Pending
    <3>6. slow_line_adr_cnt' <= half =>
            slow_line_adr_cnt' < half \/ slow_line_adr_cnt' = half
      BY <1>1, <3>1
    <3> QED
      BY <2>1, <2>2, <2>3, <3>1, <3>2, <3>3, <3>4, <3>5, <3>6
         DEF BetweenBursts, DuringBurst, half
  <2> QED
    BY <1>1, <2>4, <2>5, <2>6
<1> QED
  BY <1>5, <1>6

-----------------------------------------------------------------------------
(* Replacement.                                                            *)

\* A line that is in a set once hits in one way.
LEMMA OneMatch ==
  ASSUME TypeOK, TagsUnique(entry_idx_prv), hit
  PROVE  match = {match_way}
<1>1. match \subseteq Way /\ match_way \in match
  BY LookupShape
<1>2. ASSUME NEW w \in match
      PROVE  w = match_way
  <2>1. entry[w] = entry[match_way] /\ entry[w].v
    BY <1>1, LookupShape DEF match
  <2> QED
    BY <1>1, <2>1 DEF TagsUnique, entry
<1> QED
  BY <1>1, <1>2

LEMMA NewRankInjective ==
  ASSUME TypeOK, TagsUnique(entry_idx_prv), RankInjective(entry_idx_prv), hit,
         NEW v \in Way, NEW w \in Way, NewRank(v) = NewRank(w)
  PROVE  v = w
<1>1. match = {match_way} /\ match_way \in Way
  BY OneMatch, LookupShape
<1>2. /\ rank[v] \in 0 .. Ways - 1 /\ rank[w] \in 0 .. Ways - 1
      /\ rank[match_way] \in 0 .. Ways - 1
      /\ Ways \in Nat
  BY <1>1, LookupShape, CacheAssumption DEF Way
<1>3. \A x, y \in Way : rank[x] = rank[y] => x = y
  BY DEF RankInjective, rank
<1>4. ASSUME NEW x \in {v, w}
      PROVE  NewRank(x) = IF x = match_way THEN Ways - 1
                          ELSE IF rank[x] > rank[match_way] THEN rank[x] - 1
                          ELSE rank[x]
  BY <1>1 DEF NewRank, lru_thresh
<1> QED
  BY <1>1, <1>2, <1>3, <1>4

LEMMA BootStep ==
  ASSUME TypeOK, BootClears, NEW i_req \in BOOLEAN, NEW i_pc \in Fetches,
         Edge(i_req, i_pc), status_r = "BOOT", NEW s \in Set, Cleared(s)'
  PROVE  s = clear_cnt \/ (s # clear_cnt /\ Cleared(s) /\ s > clear_cnt)
<1>1. clear_cnt \in 0 .. Sets - 1 /\ s \in 0 .. Sets - 1 /\ Sets \in Nat
  BY FillAssumption DEF TypeOK, Set
<1>2. /\ status_r' = IF clear_cnt = 0 THEN "IDLE" ELSE "BOOT"
      /\ clear_cnt' = (clear_cnt - 1) % Sets
  BY StateSteps
<1>3. CASE clear_cnt = 0
  BY <1>1, <1>3 DEF Cleared
<1>4. CASE clear_cnt # 0
  <2>1. clear_cnt' = clear_cnt - 1
    BY <1>1, <1>2, <1>4
  <2>2. s > clear_cnt - 1
    BY <1>2, <1>4, <2>1 DEF Cleared
  <2> QED
    BY <1>1, <2>2 DEF Cleared
<1> QED
  BY <1>3, <1>4

LEMMA StatusLeavesBoot ==
  ASSUME TypeOK, NEW i_req \in BOOLEAN, NEW i_pc \in Fetches, Edge(i_req, i_pc),
         status_r # "BOOT"
  PROVE  status_r' # "BOOT" /\ \A s \in Set : Cleared(s)
BY StateSteps DEF TypeOK, Cleared

LEMMA RanksEdge ==
  ASSUME IInv, NEW i_req \in BOOLEAN, NEW i_pc \in Fetches, Edge(i_req, i_pc)
  PROVE  RanksInjective'
<1> SUFFICES ASSUME NEW s \in Set, Cleared(s)',
                    NEW v \in Way, NEW w \in Way, lru'[s][v] = lru'[s][w]
             PROVE  v = w
  BY DEF RanksInjective, RankInjective
<1>1. TypeOK /\ TagsAndLru /\ BootClears /\ entry_idx_prv \in Set
  BY DEF IInv, Edge, TypeOK
<1>2. CASE status_r = "BOOT"
  <2>1. CASE s = clear_cnt
    BY <1>1, <1>2, <2>1, TagsSteps
  <2>2. CASE s # clear_cnt
    <3>1. Cleared(s) /\ lru'[s] = lru[s]
      BY <1>1, <1>2, <2>2, BootStep, TagsSteps
    <3> QED
      BY <3>1 DEF IInv, RanksInjective, RankInjective
  <2> QED
    BY <2>1, <2>2
<1>3. CASE status_r # "BOOT"
  <2>1. RankInjective(s) /\ RankInjective(entry_idx_prv) /\ TagsUnique(entry_idx_prv)
    BY <1>1, <1>3, StatusLeavesBoot DEF IInv, RanksInjective, NoDuplicates
  <2>2. CASE ch_idle /\ mmreq_r /\ hit
    <3>1. lru' = [lru EXCEPT ![entry_idx_prv] = [x \in Way |-> NewRank(x)]]
      BY <1>1, <2>2, TagsSteps
    <3>2. CASE s = entry_idx_prv
      <4>1. NewRank(v) = NewRank(w)
        BY <1>1, <3>1, <3>2 DEF TypeOK
      <4> QED
        BY <1>1, <2>1, <2>2, <4>1, NewRankInjective
    <3>3. CASE s # entry_idx_prv
      BY <1>1, <2>1, <3>1, <3>3 DEF TypeOK, RankInjective
    <3> QED
      BY <3>2, <3>3
  <2>3. CASE ~(ch_idle /\ mmreq_r /\ hit)
    <3>1. lru' = lru
      BY <1>1, <1>3, <2>3, TagsSteps DEF Miss
    <3> QED
      BY <2>1, <3>1 DEF RankInjective
  <2> QED
    BY <2>2, <2>3
<1> QED
  BY <1>2, <1>3

\* On a miss the line is put into a set that does not have it.
LEMMA NoDuplicatesEdge ==
  ASSUME IInv, NEW i_req \in BOOLEAN, NEW i_pc \in Fetches, Edge(i_req, i_pc)
  PROVE  NoDuplicates'
<1> SUFFICES ASSUME NEW s \in Set, Cleared(s)',
                    NEW v \in Way, NEW w \in Way,
                    tags'[s][v].v, tags'[s][w] = tags'[s][v]
             PROVE  v = w
  BY DEF NoDuplicates, TagsUnique
<1>1. TypeOK /\ TagsAndLru /\ BootClears /\ entry_idx_prv \in Set
  BY DEF IInv, Edge, TypeOK
<1>2. CASE status_r = "BOOT"
  <2>1. CASE s = clear_cnt
    BY <1>1, <1>2, <2>1, TagsSteps
  <2>2. CASE s # clear_cnt
    <3>1. Cleared(s) /\ tags'[s] = tags[s]
      BY <1>1, <1>2, <2>2, BootStep, TagsSteps
    <3> QED
      BY <3>1 DEF IInv, NoDuplicates, TagsUnique
  <2> QED
    BY <2>1, <2>2
<1>3. CASE status_r # "BOOT"
  <2>1. TagsUnique(s)
    BY <1>1, <1>3, StatusLeavesBoot DEF IInv, NoDuplicates
  <2>2. CASE Miss
    <3>1. tags' = [tags EXCEPT ![entry_idx_prv][free_way_idx] =
                     [v |-> TRUE, tag |-> maddr_r.line.tag]]
      BY <1>1, <2>2, TagsSteps
    <3>2. \A x \in Way : ~(tags[entry_idx_prv][x].v
                         /\ tags[entry_idx_prv][x].tag = maddr_r.line.tag)
      BY <2>2 DEF Miss, hit, match, entry
    <3>3. CASE s = entry_idx_prv
      <4>1. \A x \in Way : tags'[s][x] = IF x = free_way_idx
                                          THEN [v |-> TRUE, tag |-> maddr_r.line.tag]
                                          ELSE tags[s][x]
        BY <1>1, <3>1, <3>3 DEF TypeOK
      <4>2. CASE v = free_way_idx
        BY <3>2, <3>3, <4>1, <4>2
      <4>3. CASE v # free_way_idx
        BY <2>1, <3>2, <3>3, <4>1, <4>3 DEF TagsUnique
      <4> QED
        BY <4>2, <4>3
    <3>4. CASE s # entry_idx_prv
      <4>1. tags'[s] = tags[s]
        BY <1>1, <3>1, <3>4 DEF TypeOK
      <4> QED
        BY <2>1, <4>1 DEF TagsUnique
    <3> QED
      BY <3>3, <3>4
  <2>3. CASE ~Miss
    <3>1. tags' = tags
      BY <1>1, <1>3, <2>3, TagsSteps DEF Miss
    <3> QED
      BY <2>1, <3>1 DEF TagsUnique
  <2> QED
    BY <2>2, <2>3
<1> QED
  BY <1>2, <1>3

LEMMA BootEdge ==
  ASSUME IInv, NEW i_req \in BOOLEAN, NEW i_pc \in Fetches, Edge(i_req, i_pc)
  PROVE  BootClears'
<1> SUFFICES ASSUME status_r' = "BOOT"
             PROVE  /\ ~mmreq_r' /\ s_stall_r'
                    /\ \A s \in Set, w \in Way : s > clear_cnt' => ~tags'[s][w].v
  BY DEF BootClears
<1>1. TypeOK /\ TagsAndLru /\ BootClears /\ LookupIsHeld
  BY DEF IInv, Edge
<1>2. status_r = "BOOT"
  BY <1>1, StatusLeavesBoot
<1>3. ~mmreq_r'
  BY <1>1, <1>2, WaitingStalls, StallHoldsLookup DEF BootClears
<1>4. s_stall_r'
  BY <1>1, <1>2, StateSteps
<1>5. ASSUME NEW s \in Set, NEW w \in Way, s > clear_cnt'
      PROVE  ~tags'[s][w].v
  <2>1. Cleared(s)'
    BY <1>5 DEF Cleared
  <2>2. s = clear_cnt \/ (s # clear_cnt /\ s > clear_cnt)
    BY <1>1, <1>2, <2>1, BootStep
  <2> QED
    BY <1>1, <1>2, <2>2, TagsSteps DEF BootClears
<1> QED
  BY <1>3, <1>4, <1>5

-----------------------------------------------------------------------------
(* Refills.                                                                *)

\* While it waits, a lookup matches the way its line is put in, and no other.
LEMMA MatchSteps ==
  ASSUME IInv, NEW i_req \in BOOLEAN, NEW i_pc \in Fetches, Edge(i_req, i_pc)
  PROVE  /\ Pending => /\ tags' = tags /\ match' = match /\ match_way' = match_way
                       /\ entry_idx_prv' = entry_idx_prv
                       /\ entry_idx(i_pc) = entry_idx_prv
         /\ Miss => /\ match' = {free_way_idx} /\ match_way' = free_way_idx
                    /\ entry_idx_prv' = entry_idx_prv
<1>1. TypeOK /\ TagsAndLru /\ BootClears /\ LookupIsHeld
  BY DEF IInv, Edge
<1>2. CASE Pending
  <2>1. tags' = tags
    BY <1>1, <1>2, TagsSteps DEF Pending, ch_idle
  <2>2. maddr_r' = maddr_r /\ entry_idx_prv' = entry_idx_prv /\ entry_idx(i_pc) = entry_idx_prv
    BY <1>1, <1>2, WaitingStalls, StallHoldsLookup DEF Pending
  <2>3. match' = match
    BY <2>1, <2>2 DEF match, entry
  <2>4. match_way' = match_way
    BY <2>3 DEF match_way
  <2> QED
    BY <1>2, <2>1, <2>2, <2>3, <2>4 DEF Miss, ch_idle, Pending
<1>3. CASE Miss
  <2>1. /\ tags' = [tags EXCEPT ![entry_idx_prv][free_way_idx] =
                      [v |-> TRUE, tag |-> maddr_r.line.tag]]
        /\ entry_idx_prv \in Set /\ free_way_idx \in Way
    BY <1>1, <1>3, TagsSteps, LookupShape DEF TypeOK
  <2>2. maddr_r' = maddr_r /\ entry_idx_prv' = entry_idx_prv
    BY <1>1, <1>3, WaitingStalls, StallHoldsLookup DEF Miss, ch_idle
  <2>3. \A x \in Way : tags'[entry_idx_prv][x] =
                        IF x = free_way_idx
                        THEN [v |-> TRUE, tag |-> maddr_r.line.tag]
                        ELSE entry[x]
    BY <1>1, <2>1 DEF TypeOK, entry
  <2>4. \A x \in Way : ~(entry[x].v /\ entry[x].tag = maddr_r.line.tag)
    BY <1>3 DEF Miss, hit, match
  <2>5. match' = {x \in Way : /\ tags'[entry_idx_prv][x].v
                              /\ tags'[entry_idx_prv][x].tag = maddr_r.line.tag}
    BY <2>2 DEF match, entry
  <2>6. match' = {free_way_idx}
    BY <2>1, <2>3, <2>4, <2>5
  <2>7. match_way' = free_way_idx
    BY <2>6 DEF match_way, Encode
  <2> QED
    BY <1>3, <2>2, <2>6, <2>7 DEF Miss, ch_idle, Pending
<1> QED
  BY <1>2, <1>3

LEMMA LookupEdge ==
  ASSUME IInv, NEW i_req \in BOOLEAN, NEW i_pc \in Fetches, Edge(i_req, i_pc)
  PROVE  LookupIsHeld'
<1>1. mmreq_r' => entry_idx_prv' = maddr_r'.line.set
  <2>1. CASE status_r = "BOOT"
    BY <2>1, WaitingStalls, StallHoldsLookup DEF IInv, BootClears
  <2>2. CASE status_r # "BOOT"
    BY <2>2 DEF Edge, Lookup, entry_idx
  <2> QED
    BY <2>1, <2>2
<1>2. CASE Pending
  <2>1. mmreq_r' /\ s_stall_r' /\ hit'
    BY <1>2, WaitingStalls, StallHoldsLookup, StateSteps, MatchSteps
       DEF IInv, LookupIsHeld, Pending, hit
  <2> QED
    BY <1>1, <2>1 DEF LookupIsHeld
<1>3. CASE Miss
  <2>1. mmreq_r' /\ s_stall_r' /\ hit'
    BY <1>3, WaitingStalls, StallHoldsLookup, StateSteps, MatchSteps
       DEF IInv, Miss, hit, ch_idle
  <2> QED
    BY <1>1, <2>1 DEF LookupIsHeld
<1>4. CASE ~Pending /\ ~Miss
  <2>1. status_r' \in {"BOOT", "IDLE"} /\ (status_r' = "IDLE" => ~s_stall_r')
    BY <1>4, StateSteps DEF IInv, TypeOK, Pending
  <2> QED
    BY <1>1, <2>1 DEF LookupIsHeld, Pending
<1> QED
  BY <1>2, <1>3, <1>4

\* Outside of bursts the data memory is not written.
LEMMA DataSteps ==
  ASSUME IInv, NEW i_req \in BOOLEAN, NEW i_pc \in Fetches, Edge(i_req, i_pc)
  PROVE  /\ burst_cnt = 0 => data' = data /\ slow_line_adr_cnt' = slow_line_adr_cnt
         /\ ~Pending => burst_cnt = 0
         /\ \A s \in Set, w \in Way :
              s # entry_idx_prv \/ w # match_way => data'[w][s] = data[w][s]
<1>1. burst_cnt = 0 => data' = data /\ slow_line_adr_cnt' = slow_line_adr_cnt
  BY StateSteps DEF IInv, BetweenBursts, Edge, CacheMem
<1>2. ~Pending => burst_cnt = 0
  BY DEF IInv, DuringBurst
<1>3. ASSUME NEW s \in Set, NEW w \in Way, s # entry_idx_prv \/ w # match_way
      PROVE  data'[w][s] = data[w][s]
  <2>1. CASE burst_cnt = 0
    BY <1>1, <2>1
  <2>2. CASE burst_cnt # 0
    <3>1. entry_idx(i_pc) = entry_idx_prv
      BY <1>2, <2>2, MatchSteps
    <3>2. match_way \in Way /\ entry_idx_prv \in Set
      BY LookupShape DEF IInv, TypeOK
    <3>3. data \in [Way -> [Set -> [Offset -> Words \union {Garbage}]]]
      BY DEF IInv, TypeOK
    <3>4. data' = IF br_ack
                  THEN [data EXCEPT ![match_way][entry_idx_prv][slow_line_adr_cnt] =
                          [line |-> burst, off |-> LineLen - burst_cnt]]
                  ELSE data
      BY <3>1 DEF Edge, CacheMem
    <3> QED
      BY <1>3, <3>2, <3>3, <3>4
  <2> QED
    BY <2>1, <2>2
<1> QED
  BY <1>1, <1>2, <1>3

\* The word that arrives is the next one of the line that is waited for.
LEMMA WordArrives ==
  ASSUME IInv, NEW i_req \in BOOLEAN, NEW i_pc \in Fetches, Edge(i_req, i_pc),
         Pending, NEW o \in Offset, Arrived(o)'
  PROVE  data'[match_way][entry_idx_prv][o] = WordOf(entry_idx_prv, match_way, o)
<1>1. /\ TypeOK /\ WordsInPlace /\ match_way \in match /\ match_way \in Way
      /\ entry_idx_prv \in Set
      /\ LineLen \in Nat /\ o \in 0 .. LineLen - 1
      /\ slow_line_adr_cnt \in 0 .. LineLen - 1 /\ burst_cnt \in 0 .. LineLen
  BY LookupShape, FillAssumption DEF IInv, LookupIsHeld, TypeOK, Offset
<1>2. WordOf(entry_idx_prv, match_way, o) = [line |-> maddr_r.line, off |-> o]
  <2>1. tags[entry_idx_prv][match_way].tag = maddr_r.line.tag
    BY <1>1 DEF match, entry
  <2>2. entry_idx_prv = maddr_r.line.set
    BY DEF IInv, LookupIsHeld
  <2>3. maddr_r.line = [tag |-> maddr_r.line.tag, set |-> maddr_r.line.set]
    BY CacheAssumption, <1>1 DEF TypeOK, Words
  <2> QED
    BY <2>1, <2>2, <2>3 DEF WordOf
<1>3. Arrived(o) => data[match_way][entry_idx_prv][o] = WordOf(entry_idx_prv, match_way, o)
  BY <1>1 DEF WordsInPlace
<1>4. CASE burst_cnt = 0
  <2>1. /\ slow_line_adr_cnt = 0 /\ slow_line_adr_cnt' = 0 /\ data' = data
        /\ ~line_adr_cnt_msb
    BY <1>4, DataSteps, FillAssumption DEF IInv, BetweenBursts, line_adr_cnt_msb
  <2>2. status_r' = "READ_PENDING_2" => FALSE
    BY <1>1, <2>1, StateSteps DEF Pending
  <2> QED
    BY <1>1, <2>1, <2>2 DEF Arrived
<1>5. CASE burst_cnt # 0 /\ ~br_ack
  <2>1. /\ slow_line_adr_cnt' = slow_line_adr_cnt /\ data' = data
        /\ burst_cnt' = burst_cnt
    BY <1>1, <1>5, StateSteps DEF Edge, CacheMem, Burst
  <2> QED
    BY <1>3, <1>5, <2>1 DEF Arrived
<1>6. CASE burst_cnt # 0 /\ br_ack
  <2>1. /\ burst = maddr_r.line
        /\ slow_line_adr_cnt = LineLen - burst_cnt
    BY <1>6 DEF IInv, DuringBurst
  <2>2. data' = [data EXCEPT ![match_way][entry_idx_prv][slow_line_adr_cnt] =
                   [line |-> maddr_r.line, off |-> slow_line_adr_cnt]]
    BY <1>6, <2>1, MatchSteps DEF Edge, CacheMem
  <2>3. burst_cnt' = burst_cnt - 1
    BY <1>6 DEF Edge, Burst
  <2>4. slow_line_adr_cnt' = IF slow_line_adr_cnt = LineLen - 1 THEN 0
                             ELSE slow_line_adr_cnt + 1
    BY <1>1, <1>6, StateSteps, NextInLine DEF Offset
  <2>5. Arrived(o) \/ o = slow_line_adr_cnt
    BY <1>1, <1>6, <2>1, <2>3, <2>4 DEF Arrived
  <2>6. data'[match_way][entry_idx_prv][o] =
          IF o = slow_line_adr_cnt
          THEN [line |-> maddr_r.line, off |-> o]
          ELSE data[match_way][entry_idx_prv][o]
    <3>1. data \in [Way -> [Set -> [Offset -> Words \union {Garbage}]]]
      BY <1>1 DEF TypeOK
    <3> QED
      BY <1>1, <2>2, <3>1 DEF Offset
  <2> QED
    BY <1>2, <1>3, <2>5, <2>6
<1> QED
  BY <1>1, <1>4, <1>5, <1>6

LEMMA WordsEdge ==
  ASSUME IInv, NEW i_req \in BOOLEAN, NEW i_pc \in Fetches, Edge(i_req, i_pc)
  PROVE  WordsInPlace'
<1> SUFFICES ASSUME Pending', NEW o \in Offset, Arrived(o)'
             PROVE  data'[match_way'][entry_idx_prv'][o]
                    = WordOf(entry_idx_prv, match_way, o)'
  BY DEF WordsInPlace
<1>1. CASE Pending
  BY <1>1, WordArrives, MatchSteps DEF WordOf
<1>2. CASE ~Pending
  <2>1. status_r = "IDLE" /\ status_r' = "READ_PENDING_1"
    BY <1>2, StateSteps DEF IInv, TypeOK, Pending
  <2>2. slow_line_adr_cnt' = 0
    BY <1>2, DataSteps DEF IInv, BetweenBursts
  <2> QED
    BY <2>1, <2>2 DEF Arrived, Offset
<1> QED
  BY <1>1, <1>2

\* A line is valid from the miss on, and complete when its burst has ended.
LEMMA LinesEdge ==
  ASSUME IInv, NEW i_req \in BOOLEAN, NEW i_pc \in Fetches, Edge(i_req, i_pc)
  PROVE  LinesComplete'
<1> SUFFICES ASSUME status_r' # "BOOT", NEW s \in Set, NEW w \in Way,
                    tags'[s][w].v, ~Filling(s, w)', NEW o \in Offset
             PROVE  data'[w][s][o]
                    = [line |-> [tag |-> tags'[s][w].tag, set |-> s], off |-> o]
  BY DEF LinesComplete, Booted
<1>1. /\ TypeOK /\ TagsAndLru /\ entry_idx_prv \in Set /\ clear_cnt \in Set
      /\ free_way_idx \in Way /\ LinesComplete
  BY LookupShape DEF IInv, Edge, TypeOK
<1>2. CASE status_r = "BOOT"
  <2>1. clear_cnt = 0
    BY <1>1, <1>2, StateSteps
  <2>2. s = clear_cnt \/ (s # clear_cnt /\ s > clear_cnt)
    BY <1>1, <2>1, FillAssumption DEF Set
  <2>3. ~tags'[s][w].v
    BY <1>1, <1>2, <2>2, TagsSteps DEF IInv, BootClears
  <2> QED
    BY <2>3
<1>3. CASE Miss
  <2>1. /\ tags' = [tags EXCEPT ![entry_idx_prv][free_way_idx] =
                      [v |-> TRUE, tag |-> maddr_r.line.tag]]
        /\ data' = data
    BY <1>1, <1>3, TagsSteps, DataSteps DEF Miss, ch_idle, Pending
  <2>2. status_r' # "IDLE" /\ entry_idx_prv' = entry_idx_prv /\ match_way' = free_way_idx
    BY <1>1, <1>3, StateSteps, MatchSteps DEF Miss, ch_idle
  <2>3. s # entry_idx_prv \/ w # free_way_idx
    BY <2>2 DEF Filling
  <2>4. tags'[s][w] = tags[s][w]
    BY <1>1, <2>1, <2>3 DEF TypeOK
  <2>5. ~Filling(s, w) /\ Booted
    BY <1>3 DEF Filling, Miss, ch_idle, Booted
  <2> QED
    BY <1>1, <2>1, <2>4, <2>5 DEF LinesComplete
<1>4. CASE status_r = "IDLE" /\ ~Miss
  <2>1. tags' = tags /\ data' = data
    BY <1>1, <1>4, TagsSteps, DataSteps DEF Miss, ch_idle, Pending
  <2> QED
    BY <1>1, <1>4, <2>1 DEF LinesComplete, Filling, Booted
<1>5. CASE Pending
  <2>1. tags' = tags /\ match_way' = match_way /\ entry_idx_prv' = entry_idx_prv
    BY <1>5, MatchSteps
  <2>2. CASE s # entry_idx_prv \/ w # match_way
    <3>1. data'[w][s] = data[w][s]
      BY <2>2, DataSteps
    <3> QED
      BY <1>1, <1>5, <2>1, <2>2, <3>1 DEF LinesComplete, Filling, Booted, Pending
  <2>3. CASE s = entry_idx_prv /\ w = match_way
    <3>1. status_r' = "IDLE"
      BY <2>1, <2>3 DEF Filling
    <3>2. status_r = "READ_PENDING_2" /\ ~line_adr_cnt_msb
      BY <1>1, <1>5, <3>1, StateSteps DEF Pending
    <3>3. burst_cnt = 0
      BY <3>2, FillAssumption DEF IInv, DuringBurst, line_adr_cnt_msb, TypeOK, Offset
    <3>4. Arrived(o) /\ data' = data
      BY <3>2, <3>3, DataSteps DEF Arrived
    <3> QED
      BY <1>5, <2>1, <2>3, <3>4 DEF IInv, WordsInPlace, WordOf
  <2> QED
    BY <2>2, <2>3
<1> QED
  BY <1>1, <1>2, <1>3, <1>4, <1>5 DEF TypeOK, Pending

LEMMA OutputEdge ==
  ASSUME IInv, NEW i_req \in BOOLEAN, NEW i_pc \in Fetches, Edge(i_req, i_pc)
  PROVE  OutputIsRead'
<1> SUFFICES ASSUME status_r' = "IDLE", mmreq_r', ~s_stall_r'
             PROVE  dout' = data'[read_way'][entry_idx_prv'][maddr_r'.off]
  BY DEF OutputIsRead
<1>1. status_r # "BOOT"
  BY WaitingStalls, StallHoldsLookup DEF IInv, BootClears
<1>2. ~Pending
  BY StateSteps DEF IInv, LookupIsHeld, Pending
<1>3. ch_idle /\ data' = data /\ mmreq(i_req)
  BY <1>1, <1>2, DataSteps DEF IInv, TypeOK, Pending, ch_idle, Edge, Lookup
<1> QED
  BY <1>3 DEF Edge, CacheMem, Lookup

-----------------------------------------------------------------------------
(* The inductive invariant.                                                *)

LEMMA InitInv == Init => IInv
<1> SUFFICES ASSUME Init
             PROVE  IInv
  OBVIOUS
<1>1. /\ status_r = "BOOT" /\ clear_cnt = Sets - 1 /\ slow_line_adr_cnt = 0
      /\ nl_rd_r = FALSE /\ nl_baddr_r = Stale
      /\ mmreq_r = FALSE /\ maddr_r = [line |-> Stale, off |-> 0]
      /\ s_stall_r = TRUE /\ entry_idx_prv = 0
      /\ lru = [s \in Set |-> [w \in Way |-> 0]]
      /\ dout = Garbage
      /\ data = [w \in Way |-> [s \in Set |-> [o \in Offset |-> Garbage]]]
      /\ burst = Stale /\ burst_cnt = 0 /\ br_ack = FALSE /\ read_way = 0
  BY DEF Init, FillInit
<1>2. PICK v \in BOOLEAN :
        tags = [s \in Set |-> [w \in Way |-> [v |-> v, tag |-> Stale.tag]]]
  BY DEF Init
<1>3. /\ 0 \in Way /\ 0 \in Set /\ Sets - 1 \in Set /\ 0 \in Offset
      /\ LineLen \in Nat /\ Stale \in Lines /\ Stale.tag \in Tags
  BY CacheAssumption, FillAssumption DEF Way, Set, Offset
<1>4. TypeOK
  <2>1. maddr_r \in Words
    BY <1>1, <1>3 DEF Words
  <2>2. tags \in [Set -> [Way -> [v : BOOLEAN, tag : Tags]]]
    BY <1>2, <1>3
  <2>3. lru \in [Set -> [Way -> Way]]
    BY <1>1, <1>3
  <2>4. data \in [Way -> [Set -> [Offset -> Words \union {Garbage}]]]
    BY <1>1
  <2>5. burst_cnt \in 0 .. LineLen
    BY <1>1, <1>3
  <2> QED
    BY <1>1, <1>3, <2>1, <2>2, <2>3, <2>4, <2>5 DEF TypeOK
<1>5. \A s \in Set : ~(s > clear_cnt) /\ ~Cleared(s)
  BY <1>1, FillAssumption DEF Set, Cleared
<1>6. BootClears /\ RanksInjective /\ NoDuplicates
  BY <1>1, <1>5 DEF BootClears, RanksInjective, NoDuplicates
<1>7. LookupIsHeld /\ BetweenBursts /\ DuringBurst /\ WordsInPlace /\ LinesComplete
      /\ OutputIsRead
  BY <1>1 DEF LookupIsHeld, BetweenBursts, DuringBurst, WordsInPlace, LinesComplete,
              OutputIsRead, Pending, Booted
<1> QED
  BY <1>4, <1>6, <1>7 DEF IInv

LEMMA StutterInv == IInv /\ UNCHANGED vars => IInv'
<1> SUFFICES ASSUME IInv, UNCHANGED vars
             PROVE  IInv'
  OBVIOUS
<1> USE DEF IInv, vars, fill_vars, cache_vars, burst_vars
<1>1. /\ match' = match /\ match_way' = match_way /\ (hit' <=> hit)
      /\ (Pending' <=> Pending)
      /\ \A s : Cleared(s)' <=> Cleared(s)
  BY DEF match, match_way, hit, entry, Pending, Cleared
<1>2. TypeOK'
  BY DEF TypeOK
<1>3. BootClears' /\ RanksInjective' /\ NoDuplicates'
  BY <1>1 DEF BootClears, RanksInjective, RankInjective, NoDuplicates, TagsUnique
<1>4. LookupIsHeld' /\ BetweenBursts' /\ DuringBurst' /\ OutputIsRead'
  BY <1>1 DEF LookupIsHeld, BetweenBursts, DuringBurst, OutputIsRead
<1>5. WordsInPlace' /\ LinesComplete'
  BY <1>1 DEF WordsInPlace, Arrived, WordOf, LinesComplete, Filling, Booted
<1> QED
  BY <1>2, <1>3, <1>4, <1>5

LEMMA NextInv == IInv /\ [Next]_vars => IInv'
<1> SUFFICES ASSUME IInv, Next
             PROVE  IInv'
  BY StutterInv
<1>1. PICK i_req \in BOOLEAN, i_pc \in Fetches : Edge(i_req, i_pc)
  BY NextIsEdge
<1>2. TypeOK'
  BY <1>1, TypeEdge DEF IInv
<1> QED
  BY <1>1, <1>2, BurstEdge, RanksEdge, NoDuplicatesEdge, BootEdge, LookupEdge,
     WordsEdge, LinesEdge, OutputEdge DEF IInv

(* The parts of the invariant hold in every state, whatever is fetched and *)
(* whenever the bus has time for a burst.                                  *)
THEOREM Invariance == Spec => []IInv
BY InitInv, NextInv, PTL DEF Spec

\* Every register and memory keeps its type; a rank never leaves its width.
THEOREM TypeCorrect == Spec => []TypeOK
BY Invariance, PTL DEF IInv

\* Once the cache has booted, the ranks of each set are a permutation.
THEOREM RanksPermute == Spec => []RanksArePermutation
<1>1. IInv => RanksArePermutation
  BY DEF IInv, RanksInjective, RankInjective, Cleared, RanksArePermutation, Booted
<1> QED
  BY <1>1, Invariance, PTL

\* Each rank is that of a way.
LEMMA RanksOnto ==
  ASSUME IInv, Booted, NEW s \in Set
  PROVE  lru[s] \in Surjection(Way, Way)
<1>1. \A v, w \in Way : lru[s][v] = lru[s][w] => v = w
  BY DEF IInv, RanksInjective, RankInjective, Cleared, Booted
<1>2. lru[s] \in Injection(Way, Way)
  BY <1>1 DEF IInv, TypeOK, Injection, IsInjective
<1>3. IsFiniteSet(Way)
  BY FS_Interval, CacheAssumption DEF Way
<1> QED
  BY <1>2, <1>3, FS_Injection

(* yamp32_icache.v:143 takes the way of rank 0 for the free one. There is  *)
(* exactly one in every set, so a refill always finds its victim.          *)
ExactlyOneVictim ==
  Booted => \A s \in Set : \E v \in Way : \A w \in Way : lru[s][w] = 0 <=> w = v

THEOREM OneVictim == Spec => []ExactlyOneVictim
<1>1. IInv => ExactlyOneVictim
  <2> SUFFICES ASSUME IInv, Booted, NEW s \in Set
               PROVE  \E v \in Way : \A w \in Way : lru[s][w] = 0 <=> w = v
    BY DEF ExactlyOneVictim
  <2>1. \A v, w \in Way : lru[s][v] = lru[s][w] => v = w
    BY DEF IInv, RanksInjective, RankInjective, Cleared, Booted
  <2>2. 0 \in Way
    BY CacheAssumption DEF Way
  <2>3. PICK v \in Way : lru[s][v] = 0
    BY <2>2, RanksOnto DEF Surjection
  <2> QED
    BY <2>1, <2>3
<1> QED
  BY <1>1, Invariance, PTL

\* No line is in two ways of its set.
THEOREM LinesAreUnique == Spec => []NoDuplicateLine
<1>1. IInv => NoDuplicateLine
  BY DEF IInv, NoDuplicates, TagsUnique, Cleared, NoDuplicateLine, Booted
<1> QED
  BY <1>1, Invariance, PTL

\* A valid line that is not being filled has all its words, in place.
THEOREM LinesAreComplete == Spec => []LinesComplete
BY Invariance, PTL DEF IInv

\* A lookup that hits in the way of the one before it returns its word.
THEOREM FetchesAreRight == Spec => []SameWayFetchIsRight
<1>1. IInv => SameWayFetchIsRight
  <2> SUFFICES ASSUME IInv, Answered, read_way = match_way
               PROVE  dout = maddr_r
    BY DEF SameWayFetchIsRight
  <2>1. mmreq_r /\ ~s_stall_r /\ status_r = "IDLE" /\ hit
    BY DEF Answered, o_stall, ch_idle, IInv, TypeOK, BootClears, LookupIsHeld, Pending
  <2>2. dout = data[match_way][entry_idx_prv][maddr_r.off]
    BY <2>1 DEF IInv, OutputIsRead
  <2>3. /\ match_way \in match /\ match_way \in Way /\ entry_idx_prv \in Set
        /\ maddr_r.off \in Offset
    BY <2>1, LookupShape DEF IInv, TypeOK
  <2>4. tags[entry_idx_prv][match_way].v
        /\ tags[entry_idx_prv][match_way].tag = maddr_r.line.tag
    BY <2>3 DEF match, entry
  <2>5. dout = [line |-> [tag |-> maddr_r.line.tag, set |-> entry_idx_prv],
                off |-> maddr_r.off]
    BY <2>1, <2>2, <2>3, <2>4 DEF IInv, LinesComplete, Filling, Booted
  <2>6. entry_idx_prv = maddr_r.line.set
    BY <2>1 DEF IInv, LookupIsHeld
  <2>7. /\ maddr_r = [line |-> maddr_r.line, off |-> maddr_r.off]
        /\ maddr_r.line = [tag |-> maddr_r.line.tag, set |-> maddr_r.line.set]
    BY CacheAssumption DEF IInv, TypeOK, Words
  <2> QED
    BY <2>5, <2>6, <2>7
<1> QED
  BY <1>1, Invariance, PTL

-----------------------------------------------------------------------------
(* Recency. What the abstract cache does to a sequence without repetition. *)

LEMMA TouchOld ==
  ASSUME NEW seq \in Seq(Tags), NEW n \in Nat, NEW p \in 1 .. Len(seq),
         \A k \in 1 .. Len(seq) : seq[k] = seq[p] => k = p
  PROVE  /\ L!Touch(seq, seq[p], n) \in Seq(Tags)
         /\ Len(L!Touch(seq, seq[p], n)) = Len(seq)
         /\ \A k \in 1 .. Len(seq) :
              L!Touch(seq, seq[p], n)[k] = IF k = Len(seq) THEN seq[p]
                                           ELSE IF k < p THEN seq[k] ELSE seq[k + 1]
<1> DEFINE a == SubSeq(seq, 1, p - 1)
           b == SubSeq(seq, p + 1, Len(seq))
<1>1. L!Holds(seq, seq[p])
  BY DEF L!Holds
<1>2. (CHOOSE j \in 1 .. Len(seq) : seq[j] = seq[p]) = p
  OBVIOUS
<1>3. L!Touch(seq, seq[p], n) = Append(a \o b, seq[p])
  BY <1>1, <1>2 DEF L!Touch, L!Without
<1>4. /\ a \in Seq(Tags) /\ b \in Seq(Tags) /\ seq[p] \in Tags
      /\ Len(a) = p - 1 /\ Len(b) = Len(seq) - p
      /\ \A k \in 1 .. p - 1 : a[k] = seq[k]
      /\ \A k \in 1 .. Len(seq) - p : b[k] = seq[p + k]
  OBVIOUS
<1> HIDE DEF a, b
<1>5. /\ a \o b \in Seq(Tags)
      /\ Len(a \o b) = Len(seq) - 1
      /\ \A k \in 1 .. Len(seq) - 1 :
           (a \o b)[k] = IF k < p THEN seq[k] ELSE seq[k + 1]
  <2>1. /\ a \o b \in Seq(Tags)
        /\ Len(a \o b) = Len(a) + Len(b)
        /\ \A k \in 1 .. Len(a) + Len(b) :
             (a \o b)[k] = IF k <= Len(a) THEN a[k] ELSE b[k - Len(a)]
    BY <1>4, ConcatProperties
  <2>2. Len(seq) \in Nat /\ p \in Int /\ Len(a) + Len(b) = Len(seq) - 1
    BY <1>4
  <2>3. ASSUME NEW k \in 1 .. Len(seq) - 1
        PROVE  (a \o b)[k] = IF k < p THEN seq[k] ELSE seq[k + 1]
    <3>1. CASE k < p
      <4>1. k \in 1 .. p - 1 /\ k \in 1 .. Len(a) + Len(b) /\ k <= Len(a)
        BY <1>4, <2>2, <3>1
      <4> QED
        BY <1>4, <2>1, <3>1, <4>1
    <3>2. CASE ~(k < p)
      <4>1. (a \o b)[k] = b[k - (p - 1)]
        <5>1. k \in 1 .. Len(a) + Len(b) /\ ~(k <= Len(a))
          BY <1>4, <2>2, <3>2
        <5> QED
          BY <1>4, <2>1, <5>1
      <4>2. k - (p - 1) \in 1 .. Len(seq) - p /\ p + (k - (p - 1)) = k + 1
        BY <2>2, <3>2
      <4> QED
        BY <1>4, <3>2, <4>1, <4>2
    <3> QED
      BY <3>1, <3>2
  <2> QED
    BY <2>1, <2>2, <2>3
<1> DEFINE c == a \o b
<1>6. /\ c \in Seq(Tags) /\ Len(c) = Len(seq) - 1
      /\ \A k \in 1 .. Len(seq) - 1 : c[k] = IF k < p THEN seq[k] ELSE seq[k + 1]
      /\ L!Touch(seq, seq[p], n) = Append(c, seq[p])
  BY <1>3, <1>5
<1> HIDE DEF c
<1>7. /\ Append(c, seq[p]) \in Seq(Tags)
      /\ Len(Append(c, seq[p])) = Len(seq)
      /\ \A k \in 1 .. Len(seq) - 1 : Append(c, seq[p])[k] = c[k]
      /\ Append(c, seq[p])[Len(seq)] = seq[p]
  <2>1. /\ Append(c, seq[p]) \in Seq(Tags)
        /\ Len(Append(c, seq[p])) = Len(c) + 1
        /\ \A k \in 1 .. Len(c) : Append(c, seq[p])[k] = c[k]
        /\ Append(c, seq[p])[Len(c) + 1] = seq[p]
    <3>1. c \in Seq(Tags) /\ seq[p] \in Tags
      BY <1>4, <1>6
    <3> QED
      BY <3>1, AppendProperties
  <2>2. Len(c) + 1 = Len(seq)
    BY <1>6
  <2> QED
    BY <1>6, <2>1, <2>2
<1> QED
  BY <1>6, <1>7

LEMMA TouchNew ==
  ASSUME NEW seq \in Seq(Tags), NEW l \in Tags, NEW n \in Nat \ {0},
         Len(seq) <= n, ~L!Holds(seq, l)
  PROVE  LET new == L!Touch(seq, l, n)
             gone == IF Len(seq) = n THEN 1 ELSE 0
         IN /\ new \in Seq(Tags)
            /\ Len(new) = Len(seq) + 1 - gone
            /\ \A k \in 1 .. Len(new) :
                 new[k] = IF k = Len(new) THEN l ELSE seq[k + gone]
<1>1. CASE Len(seq) = n
  BY <1>1 DEF L!Touch
<1>2. CASE Len(seq) # n
  BY <1>2 DEF L!Touch
<1> QED
  BY <1>1, <1>2

\* The way that has its tag, but whose line has not been used yet: from the
\* miss until the lookup is repeated.
Waiting(s, w) == /\ status_r # "BOOT" /\ s_stall_r
                 /\ s = entry_idx_prv /\ w = match_way

InPlace(s, w) == /\ tags[s][w].v <=> Place(s, w) >= 1
                 /\ tags[s][w].v => tags[s][w].tag = order[s][Place(s, w)]

(* The ways of a set show its order. The one that waits for its line is of *)
(* rank 0 still, and its line is not in the order.                         *)
OrderShown ==
  \A s \in Set :
    /\ order[s] \in Seq(Tags) /\ Len(order[s]) <= Ways
    /\ status_r = "BOOT" => order[s] = <<>>
    /\ Cleared(s) => \A w \in Way :
         IF Waiting(s, w)
         THEN lru[s][w] = 0 /\ ~L!Holds(order[s], maddr_r.line.tag)
         ELSE InPlace(s, w)

OrderInv == order \in [Set -> Seq(Tags)] /\ OrderShown

\* Every line of the order is in the way of its place.
LEMMA OrderIsHeld ==
  ASSUME IInv, OrderInv, NEW s \in Set, status_r # "BOOT",
         \A w \in Way : InPlace(s, w), NEW k \in 1 .. Len(order[s])
  PROVE  \E w \in Way : Place(s, w) = k /\ tags[s][w].v /\ tags[s][w].tag = order[s][k]
<1>1. lru[s] \in Surjection(Way, Way)
  BY RanksOnto DEF Booted
<1>2. Len(order[s]) \in Nat /\ Len(order[s]) <= Ways /\ Ways \in Nat
  BY CacheAssumption DEF OrderInv, OrderShown
<1> DEFINE n == Len(order[s])
<1>3. Ways - n + k - 1 \in Way
  <2> HIDE DEF n
  <2> QED
    BY <1>2 DEF Way, n
<1>4. PICK w \in Way : lru[s][w] = Ways - n + k - 1
  BY <1>1, <1>3 DEF Surjection
<1>5. Place(s, w) = k
  <2>1. k \in Int /\ n \in Nat /\ Place(s, w) = lru[s][w] + 1 - (Ways - n)
    BY <1>2 DEF Place
  <2> HIDE DEF n
  <2> QED
    BY <1>2, <1>4, <2>1
<1> QED
  BY <1>5 DEF InPlace

\* The first use of a line, and its next ones.
LEMMA UseEdge ==
  ASSUME IInv, OrderInv, NEW i_req \in BOOLEAN, NEW i_pc \in Fetches,
         Edge(i_req, i_pc), Remember, ch_idle, mmreq_r, hit
  PROVE  OrderInv'
<1> DEFINE s == entry_idx_prv
           m == match_way
           l == maddr_r.line.tag
           seq == order[s]
           n == Len(seq)
           new == L!Touch(seq, l, Ways)
<1>1. /\ TypeOK /\ TagsAndLru /\ s \in Set /\ m \in Way /\ m \in match /\ l \in Tags
      /\ status_r # "BOOT" /\ Cleared(s)
  BY LookupShape DEF IInv, Edge, TypeOK, ch_idle, Cleared
<1>2. /\ seq \in Seq(Tags) /\ n \in Nat /\ n <= Ways
  BY <1>1 DEF OrderInv, OrderShown
<1>3. s = maddr_r.line.set /\ maddr_r.line.set \in Set
  BY <1>1 DEF IInv, LookupIsHeld
<1>4. order' = [order EXCEPT ![s] = new]
  BY <1>3 DEF Remember
<1>5. tags' = tags /\ lru' = [lru EXCEPT ![s] = [w \in Way |-> NewRank(w)]]
  BY <1>1, TagsSteps
<1>6. status_r' = "IDLE" /\ ~s_stall_r'
  BY <1>1, StateSteps DEF Miss, ch_idle
<1>7. match = {m}
  BY <1>1, OneMatch DEF IInv, NoDuplicates
<1>8. \A w \in Way : NewRank(w) = IF w = m THEN Ways - 1
                                  ELSE IF lru[s][w] > lru[s][m] THEN lru[s][w] - 1
                                  ELSE lru[s][w]
  BY <1>7 DEF NewRank, lru_thresh, rank
<1>9. /\ lru[s] \in [Way -> Way] /\ Ways \in Nat \ {0}
      /\ \A w \in Way : lru[s][w] = lru[s][m] => w = m
      /\ \A w \in Way : lru[s][w] \in Nat /\ lru[s][w] <= Ways - 1
  <2>1. lru[s] \in [Way -> Way] /\ Ways \in Nat \ {0}
    BY <1>1, CacheAssumption DEF TypeOK
  <2>2. \A w \in Way : lru[s][w] = lru[s][m] => w = m
    BY <1>1 DEF IInv, RanksInjective, RankInjective
  <2>3. \A w \in Way : lru[s][w] \in Nat /\ lru[s][w] <= Ways - 1
    <3> HIDE DEF s
    <3> QED
      BY <2>1 DEF Way
  <2> QED
    BY <2>1, <2>2, <2>3
<1>10. /\ new \in Seq(Tags) /\ Len(new) <= Ways
       /\ \A w \in Way :
            LET p == NewRank(w) + 1 - (Ways - Len(new))
            IN /\ tags[s][w].v <=> p >= 1
               /\ tags[s][w].v => tags[s][w].tag = new[p]
  <2>t. tags[s][m].v /\ tags[s][m].tag = l
    BY <1>1 DEF match, entry
  <2>1. CASE ~s_stall_r
    <3>1. \A w \in Way : InPlace(s, w)
      BY <1>1, <2>1 DEF OrderInv, OrderShown, Waiting
    <3> DEFINE p == Place(s, m)
    <3>2. p \in 1 .. n /\ seq[p] = l /\ p = lru[s][m] + 1 - (Ways - n)
      BY <1>1, <1>2, <1>9, <2>t, <3>1 DEF InPlace, Place
    <3>3. ASSUME NEW k \in 1 .. n, seq[k] = l
          PROVE  k = p
      <4>1. PICK w \in Way : Place(s, w) = k /\ tags[s][w].v /\ tags[s][w].tag = seq[k]
        BY <1>1, <3>1, OrderIsHeld
      <4>2. w \in match
        BY <3>3, <4>1 DEF match, entry
      <4> QED
        BY <1>7, <4>1, <4>2
    <3>4. /\ new \in Seq(Tags) /\ Len(new) = n
          /\ \A k \in 1 .. n : new[k] = IF k = n THEN l
                                        ELSE IF k < p THEN seq[k] ELSE seq[k + 1]
      <4> HIDE DEF seq, p, l, s
      <4>1. \A k \in 1 .. Len(seq) : seq[k] = seq[p] => k = p
        BY <3>2, <3>3
      <4>2. seq \in Seq(Tags) /\ Ways \in Nat /\ p \in 1 .. Len(seq)
        BY <1>2, <1>9, <3>2
      <4>3. new = L!Touch(seq, seq[p], Ways)
        BY <3>2
      <4> HIDE DEF new
      <4> QED
        BY <3>2, <4>1, <4>2, <4>3, TouchOld
    <3> HIDE DEF new, seq, n, p, l, m, s
    <3>5. ASSUME NEW w \in Way
          PROVE  LET q == NewRank(w) + 1 - (Ways - n)
                 IN /\ tags[s][w].v <=> q >= 1
                    /\ tags[s][w].v => tags[s][w].tag = new[q]
      <4> DEFINE q == NewRank(w) + 1 - (Ways - n)
                 o == lru[s][w] + 1 - (Ways - n)
      <4>1. /\ tags[s][w].v <=> o >= 1
            /\ tags[s][w].v => tags[s][w].tag = seq[o]
        BY <3>1 DEF InPlace, Place, seq, n
      <4>2. CASE w = m
        BY <1>2, <1>8, <1>9, <2>t, <3>2, <3>4, <4>2
      <4>3. CASE w # m
        <5> DEFINE r == lru[s][w]
                   t == lru[s][m]
        <5>a. /\ r \in Nat /\ r <= Ways - 1 /\ t \in Nat /\ r # t
              /\ NewRank(w) = IF r > t THEN r - 1 ELSE r
              /\ o = r + 1 - (Ways - n) /\ p = t + 1 - (Ways - n)
          BY <1>1, <1>8, <1>9, <3>2, <4>3 DEF m
        <5> HIDE DEF r, t, o
        <5>1. /\ o \in Int /\ o <= n /\ o # p
              /\ q = IF o > p THEN o - 1 ELSE o
          BY <1>2, <1>9, <5>a
        <5>2. (o >= 1) <=> (q >= 1)
          BY <3>2, <5>1, <1>2
        <5>3. tags[s][w].v => new[q] = seq[o]
          BY <1>2, <3>2, <3>4, <4>1, <5>1, <5>2
        <5> QED
          BY <4>1, <5>2, <5>3
      <4> QED
        BY <4>2, <4>3
    <3> QED
      BY <1>2, <3>4, <3>5
  <2>2. CASE s_stall_r
    <3>1. /\ lru[s][m] = 0 /\ ~L!Holds(seq, l)
          /\ \A w \in Way \ {m} : InPlace(s, w)
      BY <1>1, <2>2 DEF OrderInv, OrderShown, Waiting
    <3> DEFINE gone == IF n = Ways THEN 1 ELSE 0
    <3>2. /\ new \in Seq(Tags) /\ Len(new) = n + 1 - gone
          /\ \A k \in 1 .. Len(new) : new[k] = IF k = Len(new) THEN l ELSE seq[k + gone]
      <4> HIDE DEF seq, l, s
      <4> QED
        BY <1>1, <1>2, <1>9, <3>1, TouchNew
    <3> HIDE DEF new, seq, n, l, m, s
    <3>3. Len(new) <= Ways
      BY <1>2, <1>9, <3>2
    <3>4. ASSUME NEW w \in Way
          PROVE  LET q == NewRank(w) + 1 - (Ways - Len(new))
                 IN /\ tags[s][w].v <=> q >= 1
                    /\ tags[s][w].v => tags[s][w].tag = new[q]
      <4> DEFINE q == NewRank(w) + 1 - (Ways - Len(new))
                 o == lru[s][w] + 1 - (Ways - n)
      <4>1. CASE w = m
        <5>1. NewRank(w) = Ways - 1
          BY <1>8, <4>1
        <5>2. Len(new) \in Nat /\ Len(new) >= 1
          BY <1>2, <1>9, <3>2
        <5>3. q = Len(new)
          BY <1>9, <5>1, <5>2
        <5>4. tags[s][w].v /\ tags[s][w].tag = l /\ new[Len(new)] = l
          BY <2>t, <3>2, <4>1, <5>2 DEF m, s, l
        <5> HIDE DEF q
        <5> QED
          BY <5>2, <5>3, <5>4 DEF q
      <4>2. CASE w # m
        <5>1. /\ tags[s][w].v <=> o >= 1
              /\ tags[s][w].v => tags[s][w].tag = seq[o]
          BY <3>1, <4>2 DEF InPlace, Place, seq, n
        <5>2. lru[s][w] > 0 /\ NewRank(w) = lru[s][w] - 1
          BY <1>8, <1>9, <3>1, <4>2
        <5> DEFINE r == lru[s][w]
        <5>a. r \in Nat /\ r > 0 /\ r <= Ways - 1 /\ NewRank(w) = r - 1
          BY <1>9, <5>2
        <5>b. o = r + 1 - (Ways - n) /\ q = NewRank(w) + 1 - (Ways - Len(new))
          OBVIOUS
        <5> HIDE DEF r, o, q
        <5>3. q \in Int /\ q = o - gone /\ o \in Int /\ o <= n
          <6>1. Len(new) = n + 1 - gone /\ gone \in {0, 1}
            BY <3>2
          <6> HIDE DEF gone
          <6> QED
            BY <1>2, <1>9, <5>a, <5>b, <6>1
        <5>4. (o >= 1) <=> (q >= 1)
          <6>1. n = Ways => o = r + 1
            BY <1>2, <1>9, <5>a, <5>b
          <6> QED
            BY <1>2, <1>9, <5>a, <5>3, <6>1
        <5>5. tags[s][w].v => new[q] = seq[o]
          BY <1>2, <3>2, <5>1, <5>3, <5>4
        <5> QED
          BY <5>1, <5>4, <5>5 DEF q
      <4> QED
        BY <4>1, <4>2
    <3> QED
      BY <3>2, <3>3, <3>4
  <2> QED
    BY <2>1, <2>2
<1> HIDE DEF new, seq, n, l, m, s
<1>11. order' \in [Set -> Seq(Tags)]
  BY <1>1, <1>4, <1>10 DEF OrderInv, s
<1>12. ASSUME NEW z \in Set
       PROVE  /\ order'[z] \in Seq(Tags) /\ Len(order'[z]) <= Ways
              /\ \A w \in Way : InPlace(z, w)'
  <2>1. CASE z = s
    <3>1. order'[z] = new /\ tags' = tags /\ \A w \in Way : lru'[z][w] = NewRank(w)
      BY <1>1, <1>4, <1>5, <2>1 DEF OrderInv, TypeOK, s
    <3> QED
      BY <1>10, <2>1, <3>1 DEF InPlace, Place
  <2>2. CASE z # s
    <3>1. order'[z] = order[z] /\ tags' = tags /\ lru'[z] = lru[z]
      BY <1>1, <1>4, <1>5, <2>2 DEF OrderInv, TypeOK, s
    <3>2. /\ order[z] \in Seq(Tags) /\ Len(order[z]) <= Ways
          /\ \A w \in Way : InPlace(z, w)
      BY <1>1, <2>2 DEF OrderInv, OrderShown, Cleared, Waiting, s
    <3> QED
      BY <3>1, <3>2 DEF InPlace, Place
  <2> QED
    BY <2>1, <2>2
<1> QED
  BY <1>6, <1>11, <1>12 DEF OrderInv, OrderShown, Waiting

\* The victim of a miss is the line unused for longest, or an invalid way.
LEMMA VictimEdge ==
  ASSUME IInv, OrderInv, NEW i_req \in BOOLEAN, NEW i_pc \in Fetches,
         Edge(i_req, i_pc), Remember, Miss
  PROVE  OrderInv'
<1> DEFINE s == entry_idx_prv
           m == free_way_idx
           l == maddr_r.line.tag
<1>1. /\ TypeOK /\ TagsAndLru /\ s \in Set /\ m \in Way /\ l \in Tags
      /\ status_r = "IDLE" /\ ~hit /\ ~s_stall_r /\ mmreq_r
  BY LookupShape DEF IInv, Edge, TypeOK, Miss, ch_idle, LookupIsHeld
<1>2. /\ order' = order /\ lru' = lru /\ maddr_r' = maddr_r
      /\ tags' = [tags EXCEPT ![s][m] = [v |-> TRUE, tag |-> l]]
      /\ status_r' = "READ_PENDING_1" /\ s_stall_r'
      /\ entry_idx_prv' = s /\ match_way' = m
  BY <1>1, TagsSteps, StateSteps, MatchSteps, WaitingStalls, StallHoldsLookup
     DEF Remember, IInv, Miss
<1>3. \A z \in Set : /\ order[z] \in Seq(Tags) /\ Len(order[z]) <= Ways
                     /\ \A w \in Way : InPlace(z, w)
  BY <1>1 DEF OrderInv, OrderShown, Cleared, Waiting
<1>4. lru[s][m] = 0
  <2>1. lru[s] \in Surjection(Way, Way)
    BY <1>1, RanksOnto DEF Booted
  <2>2. 0 \in Way
    BY CacheAssumption DEF Way
  <2>3. free # {}
    BY <2>1, <2>2 DEF Surjection, free, rank
  <2> QED
    BY <2>3 DEF free_way_idx, Encode, free, rank
<1>5. ~L!Holds(order[s], l)
  <2> SUFFICES ASSUME NEW k \in 1 .. Len(order[s]), order[s][k] = l
               PROVE  FALSE
    BY DEF L!Holds
  <2>1. PICK w \in Way : tags[s][w].v /\ tags[s][w].tag = order[s][k]
    BY <1>1, <1>3, OrderIsHeld
  <2> QED
    BY <1>1, <2>1 DEF hit, match, entry
<1> HIDE DEF m, l, s
<1>6. ASSUME NEW z \in Set, NEW w \in Way, z # s \/ w # m
      PROVE  InPlace(z, w)'
  <2>1. tags'[z][w] = tags[z][w]
    BY <1>1, <1>2, <1>6 DEF TypeOK
  <2> QED
    BY <1>2, <1>3, <2>1 DEF InPlace, Place
<1>7. \A z \in Set, w \in Way : Waiting(z, w)' <=> z = s /\ w = m
  BY <1>2 DEF Waiting
<1>8. L!Holds(order[s], l)' <=> L!Holds(order[s], l)
  BY <1>2 DEF L!Holds, s, l
<1> QED
  BY <1>1, <1>2, <1>3, <1>4, <1>5, <1>6, <1>7, <1>8
     DEF OrderInv, OrderShown, s, l

\* All other edges leave the order alone.
LEMMA OtherEdge ==
  ASSUME IInv, OrderInv, NEW i_req \in BOOLEAN, NEW i_pc \in Fetches,
         Edge(i_req, i_pc), Remember, ~Miss, ~(ch_idle /\ mmreq_r /\ hit)
  PROVE  OrderInv'
<1>1. TypeOK /\ TagsAndLru /\ BootClears /\ entry_idx_prv \in Set /\ order' = order
  BY DEF IInv, Edge, TypeOK, Remember
<1>2. CASE status_r = "BOOT"
  <2>1. ASSUME NEW z \in Set, NEW w \in Way, Cleared(z)'
        PROVE  InPlace(z, w)'
    <3>1. order[z] = <<>>
      BY <1>2 DEF OrderInv, OrderShown
    <3>2. z = clear_cnt \/ (z # clear_cnt /\ z > clear_cnt)
      BY <1>1, <1>2, <2>1, BootStep
    <3>3. ~tags'[z][w].v
      BY <1>1, <1>2, <3>2, TagsSteps DEF BootClears
    <3>4. lru'[z][w] \in 0 .. Ways - 1
      BY <1>1, TagTypes DEF Way
    <3>5. ~(Place(z, w)' >= 1)
      BY <1>1, <3>1, <3>4, CacheAssumption DEF Place
    <3> QED
      BY <3>3, <3>5 DEF InPlace
  <2>2. status_r' # "BOOT" => ~s_stall_r'
    BY <1>1, <1>2, StateSteps
  <2> QED
    BY <1>1, <1>2, <2>1, <2>2 DEF OrderInv, OrderShown, Waiting
<1>3. CASE status_r # "BOOT"
  <2>1. tags' = tags /\ lru' = lru /\ status_r' # "BOOT"
    BY <1>1, <1>3, TagsSteps, StatusLeavesBoot DEF Miss
  <2>2. CASE Pending
    <3>1. /\ entry_idx_prv' = entry_idx_prv /\ match_way' = match_way
          /\ maddr_r' = maddr_r
          /\ s_stall_r' = s_stall_r
      BY <1>1, <2>2, MatchSteps, WaitingStalls, StallHoldsLookup, StateSteps
         DEF IInv, Pending
    <3>2. \A z \in Set, w \in Way : /\ InPlace(z, w)' <=> InPlace(z, w)
                                    /\ Waiting(z, w)' <=> Waiting(z, w)
      BY <1>1, <1>3, <2>1, <3>1 DEF InPlace, Place, Waiting
    <3>3. \A z \in Set : L!Holds(order[z], maddr_r.line.tag)'
                         <=> L!Holds(order[z], maddr_r.line.tag)
      BY <1>1, <3>1 DEF L!Holds
    <3> QED
      BY <1>1, <1>3, <2>1, <3>2, <3>3 DEF OrderInv, OrderShown, Cleared
  <2>3. CASE ~Pending
    <3>1. status_r = "IDLE" /\ ~s_stall_r /\ ~s_stall_r'
      BY <1>1, <1>3, <2>3, StateSteps DEF IInv, LookupIsHeld, TypeOK, Pending, ch_idle
    <3>2. \A z \in Set, w \in Way : /\ InPlace(z, w)' <=> InPlace(z, w)
                                    /\ ~Waiting(z, w)' /\ ~Waiting(z, w)
      BY <1>1, <2>1, <3>1 DEF InPlace, Place, Waiting
    <3> QED
      BY <1>1, <1>3, <2>1, <3>2 DEF OrderInv, OrderShown, Cleared
  <2> QED
    BY <2>2, <2>3
<1> QED
  BY <1>2, <1>3

LEMMA OrderNext == IInv /\ OrderInv /\ [Next]_vars => OrderInv'
<1> SUFFICES ASSUME IInv, OrderInv, [Next]_vars
             PROVE  OrderInv'
  OBVIOUS
<1>1. CASE Next
  <2>1. PICK i_req \in BOOLEAN, i_pc \in Fetches : Edge(i_req, i_pc)
    BY <1>1, NextIsEdge
  <2>2. Remember
    BY <1>1 DEF Next, Clock
  <2> QED
    BY <2>1, <2>2, UseEdge, VictimEdge, OtherEdge
<1>2. CASE UNCHANGED vars
  <2>1. match_way' = match_way /\ UNCHANGED <<tags, lru, order, status_r, s_stall_r,
                                              entry_idx_prv, maddr_r, clear_cnt>>
    BY <1>2 DEF vars, fill_vars, cache_vars, match_way, match, entry
  <2>2. \A z \in Set : /\ Cleared(z)' <=> Cleared(z)
                       /\ L!Holds(order[z], maddr_r.line.tag)'
                          <=> L!Holds(order[z], maddr_r.line.tag)
    BY <2>1 DEF Cleared, L!Holds
  <2>3. \A z \in Set, w \in Way : /\ InPlace(z, w)' <=> InPlace(z, w)
                                  /\ Waiting(z, w)' <=> Waiting(z, w)
    BY <2>1 DEF InPlace, Place, Waiting
  <2> QED
    BY <2>1, <2>2, <2>3 DEF OrderInv, OrderShown
<1> QED
  BY <1>1, <1>2

(* The ranks are recency: at any time outside of refills a set holds what  *)
(* an LRU cache of as many ways would hold, and its next victim is the     *)
(* line unused for longest.                                                *)
THEOREM RanksShowRecency == Spec => []RanksAreRecency
<1>1. Init => OrderInv
  <2> SUFFICES ASSUME Init
               PROVE  OrderInv
    OBVIOUS
  <2>1. /\ status_r = "BOOT" /\ clear_cnt = Sets - 1
        /\ order = [s \in Set |-> <<>>]
    BY DEF Init, FillInit
  <2>2. \A s \in Set : ~Cleared(s)
    BY <2>1, FillAssumption DEF Set, Cleared
  <2> QED
    BY <2>1, <2>2, CacheAssumption DEF OrderInv, OrderShown
<1>2. IInv /\ OrderInv => RanksAreRecency
  <2> SUFFICES ASSUME IInv, OrderInv, Booted, status_r = "IDLE", ~s_stall_r
               PROVE  \A s \in Set : RankedByUse(s)
    BY DEF RanksAreRecency
  <2> QED
    BY DEF OrderInv, OrderShown, Cleared, Waiting, InPlace, RankedByUse, Booted
<1> QED
  BY <1>1, <1>2, OrderNext, Invariance, PTL DEF Spec
=============================================================================
