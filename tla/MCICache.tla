------------------------------ MODULE MCICache ------------------------------
(* Lines of two words. Five lines compete for the four ways of set 0; set 1 *)
(* has a single line, so that moving between the sets is covered too.      *)
EXTENDS ICache, TLC

CONSTANTS t0, t1, t2, t3, t4

MCTags == {t0, t1, t2, t3, t4}
MCLines == [tag : MCTags, set : {0}] \union {[tag |-> t0, set |-> 1]}
MCFetches == {[line |-> l, off |-> 1 - l.set] : l \in MCLines}
MCStale == [tag |-> t0, set |-> 1]
TagSymmetry == Permutations({t1, t2, t3, t4})
=============================================================================
