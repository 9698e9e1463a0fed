----------------------------- MODULE MCMemBank ------------------------------
(* A bank of eight words of two bytes in lines of four words. The program  *)
(* stores to the first and the last word, whole words and single bytes.    *)
EXTENDS MemBank

All(byte) == [l \in Lanes |-> byte]
MCStores == {SW(0, All(1)), SB(0, 1, 0), SB(0, 2, 0),
             SW(Words - 1, All(0)), SB(Words - 1, 2, 1)}

MCInitial == {[a \in Addr |-> All(0)]}
=============================================================================
