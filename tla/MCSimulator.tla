---------------------------- MODULE MCSimulator -----------------------------
(* A single test, two configurations of the data cache and one too large,  *)
(* or two of the instruction cache. The lines of four bytes compete for    *)
(* set 0.                                                                  *)
EXTENDS Simulator

MCBoot == <<"MONITOR">>
MCTestBin == <<"word 1", "word 2", "word 3">>

\* The monitor's loops share a line of the instruction cache.
MCCode == [op \in {"send", "get", "obey", "sw", "lw", "work", "result", "save"} |->
             CASE op = "obey" -> 4
               [] op = "sw" -> 8
               [] op = "lw" -> 12
               [] op = "work" -> 16
               [] op = "result" -> 24
               [] op = "save" -> 4
               [] OTHER -> 0]

MCSweeps ==
  {[kind |-> "main", tests |-> 1,
    configs |-> <<[d |-> <<1, 1, 3>>, i |-> <<1, 1, 3>>]>>],
   [kind |-> "optimise_dcache", tests |-> 2,
    configs |-> <<[d |-> <<1, 1, 2>>, i |-> <<1, 1, 3>>],
                  [d |-> <<3, 2, 2>>, i |-> <<1, 1, 3>>],
                  [d |-> <<2, 1, 2>>, i |-> <<1, 1, 3>>]>>],
   [kind |-> "optimise_icache", tests |-> 2,
    configs |-> <<[d |-> <<2, 1, 1>>, i |-> <<1, 1, 2>>],
                  [d |-> <<2, 1, 1>>, i |-> <<1, 1, 3>>]>>]}

MCHeaps == {[i |-> {}, d |-> {}], [i |-> {<<0, 1>>}, d |-> {<<0, 1>>}]}
=============================================================================
