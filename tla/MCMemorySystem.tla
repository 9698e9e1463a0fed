--------------------------- MODULE MCMemorySystem ---------------------------
(* Two banks of two one-byte words, lines of two words, a store buffer of  *)
(* two words each: two stores to BaseRAM and one to ExtRAM.                 *)
EXTENDS MemorySystem

Put(a, byte) == [addr |-> a, dat |-> [l \in Lanes |-> byte], be |-> Lanes]
MCBaseStores == {Put(0, 1), Put(1, 1)}
MCExtStores == {Put(0, 1)}
MCInitial == {[a \in 0 .. Words - 1 |-> [l \in Lanes |-> 0]]}
=============================================================================
