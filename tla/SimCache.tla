------------------------------ MODULE SimCache ------------------------------
(***************************************************************************)
(* cache.cc: the cache of the simulator, which knows tags, ranks and dirty *)
(* bits but no data, and answers an access with the clocks it takes.       *)
(*                                                                         *)
(* A cache is a record c with its arrays (indexed by set, then way), its   *)
(* counters, and the parameters g it was constructed with. Addresses are   *)
(* those of bytes.                                                         *)
(***************************************************************************)
EXTENDS Integers, FiniteSetsExt

Ways(g) == 2 ^ g.P_WAYS
Way(g) == 0 .. Ways(g) - 1
Sets(g) == 2 ^ g.P_SETS
Set(g) == 0 .. Sets(g) - 1

\* The number of the line of an address; its low part is the set.
Line(g, pa) == pa \div 2 ^ g.P_LINE
entry_idx(g, pa) == Line(g, pa) % Sets(g)
maddr(g, pa) == Line(g, pa) \div Sets(g)

\* Constructor. It leaves the dirty bits to what the heap holds: heap is the
\* set of entries whose bit happens to be set.
NewCache(g, heap) ==
  [g |-> g,
   cache_v |-> [s \in Set(g) |-> [i \in Way(g) |-> FALSE]],
   cache_dirty |-> [s \in Set(g) |-> [i \in Way(g) |-> <<s, i>> \in heap]],
   cache_lru |-> [s \in Set(g) |-> [i \in Way(g) |-> i]],
   cache_addr |-> [s \in Set(g) |-> [i \in Way(g) |-> 0]],
   freq_hit |-> 0, freq_miss |-> 0]

match(c, s, m) == {i \in Way(c.g) : c.cache_v[s][i] /\ c.cache_addr[s][i] = m}
free(c, s) == {i \in Way(c.g) : c.cache_lru[s][i] = 0}

Hit(c, pa) == match(c, entry_idx(c.g, pa), maddr(c.g, pa)) # {}

\* The way of the line, or the last of the free ways for it on a miss.
WayFor(c, pa) == LET m == match(c, entry_idx(c.g, pa), maddr(c.g, pa))
                 IN Max(IF m # {} THEN m ELSE free(c, entry_idx(c.g, pa)))

\* As if the ranks changed on a miss only.
RankedByArrival(c, s, w) ==
  [i \in Way(c.g) |-> IF c.cache_lru[s][w] > 0 THEN c.cache_lru[s][i]
                     ELSE IF i = w THEN Ways(c.g) - 1
                     ELSE c.cache_lru[s][i] - 1]

\* The way becomes the youngest, and those younger than it age. A mask
\* keeps the ranks to the width of a way's number.
Ranked(c, s, w) ==
  [i \in Way(c.g) |-> IF i = w THEN Ways(c.g) - 1
                     ELSE IF c.cache_lru[s][i] > c.cache_lru[s][w]
                     THEN (c.cache_lru[s][i] - 1) % Ways(c.g)
                     ELSE c.cache_lru[s][i]]

\* The access decides about the bit alone.
DirtyLast(dirty, store) == store

Dirty(dirty, store) == dirty \/ store

\* getDelay: the cache behind an access.
Access(c, pa, store) ==
  LET s == entry_idx(c.g, pa)
      w == WayFor(c, pa)
      hit == Hit(c, pa)
  IN IF ~c.g.enabled THEN c
     ELSE [c EXCEPT !.cache_v[s][w] = TRUE,
                    !.cache_addr[s][w] = maddr(c.g, pa),
                    !.cache_lru[s] = Ranked(c, s, w),
                    !.cache_dirty[s][w] = Dirty(@, store),
                    !.freq_hit = IF hit THEN @ + 1 ELSE @,
                    !.freq_miss = IF hit THEN @ ELSE @ + 1]

HitLatency(g) == IF g.enabled THEN g.hitLatency ELSE 2

\* getDelay: the clocks it takes. The dirty bit that counts is the one the
\* victim had before.
getDelay(c, pa) ==
  LET s == entry_idx(c.g, pa)
  IN IF ~c.g.enabled \/ Hit(c, pa) THEN HitLatency(c.g)
     ELSE IF \E i \in free(c, s) : c.cache_dirty[s][i] THEN c.g.missWriteRead
     ELSE c.g.missRead

\* The clocks flush takes: one for each entry, and the dirty lines. The dirty
\* bits it clears are left out: no cache is used between its flush and the
\* next NewCache (a disabled one has nothing to clear).
DirtyWays(c) == {e \in Set(c.g) \X Way(c.g) : c.cache_dirty[e[1]][e[2]]}

flush(c) == IF ~c.g.enabled THEN 0
            ELSE Cardinality(DirtyWays(c)) * c.g.missWrite + Sets(c.g) * Ways(c.g)
=============================================================================
