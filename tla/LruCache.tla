------------------------------ MODULE LruCache ------------------------------
(***************************************************************************)
(* What a set-associative cache with LRU replacement promises: each set    *)
(* holds the lines of it that were used last, as many as it has ways. This *)
(* is the cache of README.md, without ranks, valid bits or dirty bits.     *)
(*                                                                         *)
(* A line is the number of its address; its set is the low part of it.     *)
(***************************************************************************)
EXTENDS Naturals, Sequences

CONSTANTS
  Lines,       \* lines of the memory, natural numbers
  Geometries   \* pairs of numbers: how many ways, how many sets

VARIABLES
  geometry,
  order,         \* for each set its lines, the one unused for longest first
  used,          \* the line just used, as a set of at most one
  hits, misses   \* uses since the cache is new

vars == <<geometry, order, used, hits, misses>>

Holds(seq, l) == \E k \in 1 .. Len(seq) : seq[k] = l
Without(seq, l) ==
  LET k == CHOOSE j \in 1 .. Len(seq) : seq[j] = l
  IN SubSeq(seq, 1, k - 1) \o SubSeq(seq, k + 1, Len(seq))

\* The line becomes the youngest. If it was not there, the oldest makes room.
Touch(seq, l, ways) ==
  Append(IF Holds(seq, l) THEN Without(seq, l)
         ELSE IF Len(seq) = ways THEN Tail(seq)
         ELSE seq, l)

-----------------------------------------------------------------------------

IsNew == /\ order = [s \in 0 .. geometry[2] - 1 |-> <<>>]
         /\ used = {}
         /\ hits = 0
         /\ misses = 0

Use(l) ==
  LET s == l % geometry[2]
      hit == Holds(order[s], l)
  IN /\ used' = {l}
     /\ order' = [order EXCEPT ![s] = Touch(@, l, geometry[1])]
     /\ hits' = IF hit THEN hits + 1 ELSE hits
     /\ misses' = IF hit THEN misses ELSE misses + 1
     /\ UNCHANGED geometry

\* Time in which the cache is not used.
Rest == used' = {} /\ UNCHANGED <<geometry, order, hits, misses>>

New == geometry' \in Geometries /\ IsNew'

Init == geometry \in Geometries /\ IsNew

Next == Rest \/ (\E l \in Lines : Use(l)) \/ New

Spec == Init /\ [][Next]_vars
=============================================================================
