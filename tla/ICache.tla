------------------------------- MODULE ICache -------------------------------
(***************************************************************************)
(* yamp32_icache.v: a set-associative instruction cache with true LRU      *)
(* replacement, filled one line at a time by the machine of LineFill.      *)
(*                                                                         *)
(* The tag and LRU memories are read and written in every cycle: what is   *)
(* read for an address is, perhaps changed, written back one cycle later.  *)
(* With the collision bypass of xpm_sdpram_bypass.v around them, a read    *)
(* always sees the write of its own cycle, so what the ports show is the   *)
(* content at entry_idx_prv.                                               *)
(*                                                                         *)
(* A word of memory is known by its address. The fetch stage asks for any  *)
(* address it likes, or for none; the burst comes when the BIU has time.   *)
(***************************************************************************)
EXTENDS LineFill, Sequences, FiniteSets

CONSTANTS
  Ways,     \* ways of a set, 2^P_WAYS
  Tags,     \* tags of the memory
  Lines,    \* lines the program is in, each a tag and a set
  Fetches,  \* words of those lines that it fetches
  Stale     \* a line whose tag the memories still hold at reset

ASSUME CacheAssumption == /\ Ways \in Nat \ {0}
                          /\ Lines \subseteq [tag : Tags, set : 0 .. Sets - 1]
                          /\ Fetches \subseteq [line : Lines, off : 0 .. LineLen - 1]
                          /\ Stale \in Lines

VARIABLES
  mmreq_r, maddr_r,       \* the lookup of this cycle
  s_stall_r,
  entry_idx_prv,          \* the set it reads, and writes back to
  tags, lru,              \* for each set and way: the tag, the LRU rank
  data, dout,             \* cache_mem and the output register of its port B
  burst, burst_cnt, br_ack,   \* the BIU: line being read, words to go
  read_way,               \* history: the way dout was read from
  order                   \* history: for each set, tags by time of last use

cache_vars == <<mmreq_r, maddr_r, s_stall_r, entry_idx_prv, tags, lru, data, dout>>
burst_vars == <<burst, burst_cnt, br_ack>>
vars == <<fill_vars, cache_vars, burst_vars, read_way, order>>

Way == 0 .. Ways - 1
Set == 0 .. Sets - 1
Offset == 0 .. LineLen - 1
Words == [line : Lines, off : Offset]

\* No word of memory.
Garbage == [line |-> Stale, off |-> LineLen]
Invalid(t) == [v |-> FALSE, tag |-> t]

-----------------------------------------------------------------------------
(* The lookup of maddr_r.                                                  *)

entry == tags[entry_idx_prv]
rank == lru[entry_idx_prv]

match == {w \in Way : entry[w].v /\ entry[w].tag = maddr_r.line.tag}
free == {w \in Way : rank[w] = 0}
hit == match # {}

\* The encoders. They OR the numbers of the ways they are given, here at
\* most one, and give way 0 for none.
Encode(S) == IF S = {} THEN 0 ELSE CHOOSE w \in S : TRUE
match_way == Encode(match)
free_way_idx == Encode(free)
lru_thresh == IF hit THEN rank[match_way] ELSE 0

o_stall == (ch_idle /\ mmreq_r /\ ~hit) \/ s_stall_r

\* On a hit the way becomes the youngest, and those younger than it age.
NewRankUnderflow(w) == IF w \in match THEN Ways - 1 ELSE rank[w] - 1
NewRankAgeAll(w) == IF w \in match THEN Ways - 1
                    ELSE IF rank[w] > 0 THEN rank[w] - 1 ELSE 0
NewRank(w) == IF w \in match THEN Ways - 1
              ELSE IF rank[w] > lru_thresh THEN rank[w] - 1 ELSE rank[w]

\* Without the request, every address that passes by would count as used.
w_lru_prvAnyCycle == [w \in Way |->
  IF ch_idle /\ hit THEN NewRank(w)
  ELSE IF status_r = "BOOT" THEN w
  ELSE rank[w]]

w_lru_prv == [w \in Way |->
  IF ch_idle /\ mmreq_r /\ hit THEN NewRank(w)
  ELSE IF status_r = "BOOT" THEN w
  ELSE rank[w]]

\* On a miss the oldest way gets the tag at once, before its words. Boot
\* clears the valid bits.
w_tag_prvKeepsBoot == [w \in Way |->
  IF ch_idle /\ mmreq_r /\ ~hit /\ w = free_way_idx
  THEN [v |-> TRUE, tag |-> maddr_r.line.tag]
  ELSE entry[w]]

w_tag_prv == [w \in Way |->
  IF ch_idle /\ mmreq_r /\ ~hit /\ w = free_way_idx
  THEN [v |-> TRUE, tag |-> maddr_r.line.tag]
  ELSE IF status_r = "BOOT" THEN Invalid(entry[w].tag)
  ELSE entry[w]]

-----------------------------------------------------------------------------
(* The parts of a clock edge with the inputs i_req and i_pc_paddr.         *)

mmreq(i_req) == IF o_stall THEN mmreq_r ELSE i_req
maddrNotHeld(i_pc) == i_pc
maddr(i_pc) == IF o_stall THEN maddr_r ELSE i_pc
entry_idx(i_pc) == IF status_r = "BOOT" THEN clear_cnt ELSE maddr(i_pc).line.set

Lookup(i_req, i_pc) ==
  /\ mmreq_r' = mmreq(i_req)
  /\ maddr_r' = maddr(i_pc)
  /\ entry_idx_prv' = entry_idx(i_pc)

\* In BOOT the entry is written that is being cleared.
TagsAndLru ==
  LET addr_prv == IF status_r = "BOOT" THEN clear_cnt ELSE entry_idx_prv
  IN /\ tags' = [tags EXCEPT ![addr_prv] = w_tag_prv]
     /\ lru' = [lru EXCEPT ![addr_prv] = w_lru_prv]

\* Port A takes the words of the burst, port B is read for the CPU. The way
\* is that of the lookup in progress, the set and the word those of maddr.
CacheMem(i_req, i_pc) ==
  /\ data' = IF br_ack
             THEN [data EXCEPT ![match_way][entry_idx(i_pc)][slow_line_adr_cnt] =
                     [line |-> burst, off |-> LineLen - burst_cnt]]
             ELSE data
  /\ IF mmreq(i_req) /\ ch_idle
     THEN /\ dout' = data[match_way][entry_idx(i_pc)][maddr(i_pc).off]
          /\ read_way' = match_way
     ELSE UNCHANGED <<dout, read_way>>

\* The stall outlasts the fill by the cycle that reads the word.
StallEndsWithFill ==
  s_stall_r' = CASE status_r = "BOOT" -> clear_cnt # 0
                 [] status_r = "IDLE" -> mmreq_r /\ ~hit
                 [] status_r = "READ_PENDING_2" -> line_adr_cnt_msb
                 [] OTHER -> s_stall_r

Stall ==
  s_stall_r' = CASE status_r = "BOOT" -> clear_cnt # 0
                 [] status_r = "IDLE" -> mmreq_r /\ ~hit
                 [] OTHER -> s_stall_r

\* yamp32_biu.v: a burst starts when nothing more urgent is waiting, and
\* then delivers a word in every other cycle.
Burst == IF burst_cnt = 0
         THEN /\ UNCHANGED br_ack
              /\ \/ /\ nl_rd_r
                    /\ burst' = nl_baddr_r
                    /\ burst_cnt' = LineLen
                 \/ UNCHANGED <<burst, burst_cnt>>
         ELSE /\ br_ack' = ~br_ack
              /\ burst_cnt' = IF br_ack THEN burst_cnt - 1 ELSE burst_cnt
              /\ UNCHANGED burst

L == INSTANCE LruCache WITH geometry <- <<Ways, Sets>>, used <- {},
                            hits <- 0, misses <- 0, Geometries <- {}

\* A use is a lookup that hits, at once or after the fill. The order follows
\* from the uses alone, whatever way the cache chose.
Remember == order' = IF ch_idle /\ mmreq_r /\ hit
                     THEN [order EXCEPT ![maddr_r.line.set] =
                             L!Touch(@, maddr_r.line.tag, Ways)]
                     ELSE order

Clock == \E i_req \in BOOLEAN, i_pc \in Fetches :
           /\ i_req => ~o_stall
           /\ Lookup(i_req, i_pc)
           /\ TagsAndLru
           /\ CacheMem(i_req, i_pc)
           /\ Stall
           /\ FillClock(maddr_r.line, mmreq_r /\ ~hit, br_ack)
           /\ Burst
           /\ Remember

\* Out of reset: the memories hold whatever they held before, valid or not.
Init == \E v \in BOOLEAN :
          /\ FillInit("BOOT", Stale)
          /\ mmreq_r = FALSE
          /\ maddr_r = [line |-> Stale, off |-> 0]
          /\ s_stall_r = TRUE
          /\ entry_idx_prv = 0
          /\ tags = [s \in Set |-> [w \in Way |-> [v |-> v, tag |-> Stale.tag]]]
          /\ lru = [s \in Set |-> [w \in Way |-> 0]]
          /\ dout = Garbage
          /\ data = [w \in Way |-> [s \in Set |-> [o \in Offset |-> Garbage]]]
          /\ burst = Stale
          /\ burst_cnt = 0
          /\ br_ack = FALSE
          /\ read_way = 0
          /\ order = [s \in Set |-> <<>>]

Next == Clock

Spec == Init /\ [][Next]_vars

-----------------------------------------------------------------------------
(* Type correctness.                                                       *)
TypeOK == /\ {mmreq_r, s_stall_r, br_ack, nl_rd_r} \subseteq BOOLEAN
          /\ maddr_r \in Words
          /\ entry_idx_prv \in Set
          /\ tags \in [Set -> [Way -> [v : BOOLEAN, tag : Tags]]]
          /\ lru \in [Set -> [Way -> Way]]
          /\ data \in [Way -> [Set -> [Offset -> Words \union {Garbage}]]]
          /\ dout \in Words \union {Garbage}
          /\ {burst, nl_baddr_r} \subseteq Lines
          /\ burst_cnt \in 0 .. LineLen
          /\ read_way \in Way
          /\ status_r \in {"BOOT", "IDLE", "READ_PENDING_1", "READ_PENDING_2"}
          /\ clear_cnt \in Set
          /\ slow_line_adr_cnt \in Offset

Booted == status_r # "BOOT"

(* The ranks of a set are a permutation of its ways: exactly one way is    *)
(* free at any time, so a refill always finds a victim.                    *)
RanksArePermutation ==
  Booted => \A s \in Set, v, w \in Way : lru[s][v] = lru[s][w] => v = w

\* Where the line of a way has to be in the order, if it is valid: the
\* youngest is last.
Place(s, w) == lru[s][w] + 1 - (Ways - Len(order[s]))

RankedByUse(s) ==
  /\ Len(order[s]) <= Ways
  /\ \A w \in Way : /\ tags[s][w].v <=> Place(s, w) >= 1
                    /\ tags[s][w].v => tags[s][w].tag = order[s][Place(s, w)]

(* A set holds the lines of it that were used last, ranked by last use: it *)
(* is the LRU cache of LruCache (the replacement README.md claims), also   *)
(* when hits, misses, refills and cycles without a request are mixed. The  *)
(* line being filled is in the tags before its first use.                  *)
RanksAreRecency ==
  Booted /\ status_r = "IDLE" /\ ~s_stall_r => \A s \in Set : RankedByUse(s)

(* A line is never in two ways of its set, so the one-hot encoders of the  *)
(* match are given at most one way.                                        *)
NoDuplicateLine ==
  Booted => \A s \in Set, v, w \in Way :
    tags[s][v].v /\ tags[s][w] = tags[s][v] => v = w

\* The way whose words are still on their way.
Filling(s, w) == status_r # "IDLE" /\ s = entry_idx_prv /\ w = match_way

(* A valid way holds the words of the line its tag names, all of them and  *)
(* in place, unless it is being filled right now.                          *)
LinesComplete ==
  Booted => \A s \in Set, w \in Way :
    tags[s][w].v /\ ~Filling(s, w) =>
      \A o \in Offset :
        data[w][s][o] = [line |-> [tag |-> tags[s][w].tag, set |-> s], off |-> o]

(* A lookup that ends without a stall returns the word asked for, provided *)
(* it read the way the line is in.                                         *)
Answered == mmreq_r /\ ~o_stall
SameWayFetchIsRight == Answered /\ read_way = match_way => dout = maddr_r

(* A lookup that ends without a stall returns the word asked for.          *)
FetchIsRight == Answered => dout = maddr_r
=============================================================================
