-------------------------- MODULE SimulatorProofs --------------------------
(***************************************************************************)
(* Proofs about the simulator: what a sweep reports, what the data cache   *)
(* charges for, what it replaces, and which stores are waited for, for     *)
(* every sweep, every test program and every geometry of the caches.       *)
(***************************************************************************)
EXTENDS Simulator, FiniteSetTheorems, SequenceTheorems, WellFoundedInduction, TLAPS

Below == {ss \in Nat \X Nat : ss[1] < ss[2]}

LEMMA MinIsLeast ==
  ASSUME NEW S \in SUBSET Nat, S # {}
  PROVE  Min(S) \in S /\ \A y \in S : Min(S) <= y
<1>1. IsWellFoundedOn(Below, Nat)
  BY NatLessThanWellFounded DEF OpToRel, Below
<1>2. PICK x \in S : \A y \in S : ~(<<y, x>> \in Below)
  BY <1>1, WFMin
<1>3. ASSUME NEW y \in S  PROVE x <= y
  <2>1. x \in Nat /\ y \in Nat
    OBVIOUS
  <2>2. <<y, x>> \notin Below
    BY <1>2
  <2> QED
    BY <2>1, <2>2 DEF Below
<1> QED
  BY <1>3 DEF Min

-----------------------------------------------------------------------------
(* What a sweep reports.                                                   *)

\* No test takes longer than a counter of 64 bits can tell.
TimesFit == TestTime \in Nat /\ timesum + TestTime < LongMax

\* The loops of a sweep: the current configuration is one that is tried, the
\* sum of its tests so far is in both places, and later ones have none.
LoopsInv ==
  /\ sweep \in Sweeps /\ cfg \in Tried /\ testcase \in 0 .. sweep.tests - 1
  /\ timesum \in Int /\ minSumTime \in Int
  /\ totals \in [1 .. Len(sweep.configs) -> Int]
  /\ phase = "finished" => After(cfg) = {}
  /\ phase # "finished" => /\ totals[cfg] = timesum
                           /\ \A k \in After(cfg) : totals[k] = 0

SweepInv == /\ LoopsInv
            /\ Measured = {} => minSumTime = LongMax
            /\ BestIsLeast

LEMMA TriedTyped ==
  ASSUME sweep \in Sweeps
  PROVE  /\ Tried \subseteq 1 .. Len(sweep.configs) /\ Tried # {}
         /\ Len(sweep.configs) \in Nat /\ sweep.tests \in Nat \ {0}
         /\ Tried \subseteq Nat
         /\ \A k : After(k) \subseteq Tried
<1>1. /\ sweep.tests \in Nat \ {0} /\ Len(sweep.configs) \in Nat
      /\ TriedOf(sweep) # {}
  BY SimulatorAssumption
<1>2. Tried \subseteq 1 .. Len(sweep.configs)
  BY DEF Tried, TriedOf
<1>3. \A k : After(k) \subseteq Tried
  BY DEF After
<1> QED
  BY <1>1, <1>2, <1>3 DEF Tried

LEMMA SweepInit == Init => SweepInv
<1> SUFFICES ASSUME Init  PROVE SweepInv
  OBVIOUS
<1>1. sweep \in Sweeps
  BY DEF Init
<1>2. After(0) = Tried
  BY <1>1, TriedTyped DEF After
<1>3. cfg \in Tried /\ \A k \in Tried : cfg <= k
  BY <1>1, <1>2, TriedTyped, MinIsLeast DEF Init
<1>4. LoopsInv
  BY <1>1, <1>3, TriedTyped, SimulatorAssumption DEF Init, LoopsInv, After
<1>5. Measured = {}
  BY <1>1, <1>3, TriedTyped DEF Init, Measured
<1> QED
  BY <1>4, <1>5 DEF SweepInv, BestIsLeast, Init

\* Only the end of a test changes what a sweep has found out.
LEMMA SweepKept ==
  ASSUME SweepInv, UNCHANGED <<run_vars, result_vars>>,
         phase = "finished" <=> phase' = "finished"
  PROVE  SweepInv'
<1> USE DEF run_vars, result_vars
<1>1. Tried' = Tried /\ After(cfg)' = After(cfg)
  BY DEF Tried, TriedOf, After
<1>2. Measured' = Measured
  BY <1>1 DEF Measured
<1>3. LoopsInv'
  BY <1>1 DEF SweepInv, LoopsInv
<1> QED
  BY <1>1, <1>2, <1>3 DEF SweepInv, BestIsLeast

\* A test that is not the last one of its configuration adds its time.
LEMMA SweepNextTest ==
  ASSUME SweepInv, TimesFit, EndTest, NextTest
  PROVE  SweepInv'
<1>1. /\ phase = "measured" /\ phase' = "new"
      /\ sweep' = sweep /\ cfg' = cfg /\ minSumTime' = minSumTime /\ tgt' = tgt
      /\ testcase < sweep.tests - 1 /\ testcase' = testcase + 1
      /\ timesum' = timesum + TestTime
      /\ totals' = [totals EXCEPT ![cfg] = @ + TestTime]
  BY DEF EndTest, NextTest
<1>2. Tried' = Tried /\ After(cfg)' = After(cfg) /\ Measured' = Measured
  BY <1>1 DEF Tried, TriedOf, After, Measured
<1>3. /\ Tried \subseteq 1 .. Len(sweep.configs) /\ Tried \subseteq Nat
      /\ sweep.tests \in Nat \ {0}
  BY TriedTyped DEF SweepInv, LoopsInv
<1>4. /\ totals'[cfg] = timesum'
      /\ \A k \in 1 .. Len(sweep.configs) : k # cfg => totals'[k] = totals[k]
      /\ totals' \in [1 .. Len(sweep.configs) -> Int]
      /\ timesum' \in Int
  BY <1>1, <1>3 DEF SweepInv, LoopsInv, TimesFit
<1>5. \A k \in After(cfg) \union Measured : k # cfg /\ k \in 1 .. Len(sweep.configs)
  BY <1>1, <1>3 DEF SweepInv, LoopsInv, After, Measured
<1>6. testcase' \in 0 .. sweep'.tests - 1
  BY <1>1, <1>3 DEF SweepInv, LoopsInv
<1>7. LoopsInv'
  BY <1>1, <1>2, <1>4, <1>5, <1>6 DEF SweepInv, LoopsInv
<1>8. BestIsLeast'
  BY <1>1, <1>2, <1>4, <1>5 DEF SweepInv, BestIsLeast
<1> QED
  BY <1>1, <1>2, <1>7, <1>8 DEF SweepInv

\* The last one adds its configuration to those measured.
LEMMA SweepMeasures ==
  ASSUME SweepInv, EndTest, NextConfig
  PROVE  /\ Measured' = Measured \union {cfg}
         /\ \A k \in Measured : k < cfg
         /\ cfg \in Tried /\ Tried \subseteq 1 .. Len(sweep.configs)
         /\ Tried \subseteq Nat /\ Tried' = Tried
<1>1. /\ phase = "measured" /\ sweep' = sweep
      /\ IF After(cfg) = {} THEN phase' = "finished" /\ cfg' = cfg
         ELSE phase' = "new" /\ cfg' = Min(After(cfg))
  BY DEF EndTest, NextConfig, NextConfigWith
<1>2. /\ Tried \subseteq Nat /\ cfg \in Tried /\ Tried' = Tried
      /\ Tried \subseteq 1 .. Len(sweep.configs)
  BY <1>1, TriedTyped DEF SweepInv, LoopsInv, Tried, TriedOf
<1>3. \A k \in Measured : k < cfg
  BY <1>1 DEF Measured
<1>4. ASSUME NEW k \in Tried
      PROVE  k < cfg' \/ phase' = "finished" <=> k <= cfg
  <2>1. k \in Nat /\ cfg \in Nat
    BY <1>2
  <2>2. CASE After(cfg) = {}
    BY <1>1, <2>1, <2>2 DEF After
  <2>3. CASE After(cfg) # {}
    <3>1. After(cfg) \in SUBSET Nat
      BY <1>2 DEF After
    <3>2. cfg' \in After(cfg) /\ \A n \in After(cfg) : cfg' <= n
      BY <1>1, <2>3, <3>1, MinIsLeast
    <3>3. cfg' \in Nat /\ cfg' > cfg /\ (k > cfg => cfg' <= k)
      BY <3>1, <3>2 DEF After
    <3> QED
      BY <1>1, <2>1, <2>3, <3>3
  <2> QED
    BY <2>2, <2>3
<1>5. Measured' = {k \in Tried : k <= cfg}
  BY <1>2, <1>4 DEF Measured
<1>6. Measured = {k \in Tried : k < cfg}
  BY <1>1 DEF Measured
<1>7. {k \in Tried : k <= cfg} = {k \in Tried : k < cfg} \union {cfg}
  <2>1. cfg \in Nat /\ cfg \in Tried
    BY <1>2
  <2>2. ASSUME NEW k \in Tried  PROVE k <= cfg <=> k < cfg \/ k = cfg
    BY <1>2, <2>1
  <2> QED
    BY <2>1, <2>2
<1> QED
  BY <1>2, <1>3, <1>5, <1>6, <1>7

LEMMA SweepNextConfig ==
  ASSUME SweepInv, TimesFit, EndTest, NextConfig
  PROVE  SweepInv'
<1> DEFINE total == timesum + TestTime
<1>1. /\ phase = "measured" /\ sweep' = sweep
      /\ totals' = [totals EXCEPT ![cfg] = @ + TestTime]
      /\ Choose(total)
      /\ IF After(cfg) = {}
         THEN phase' = "finished" /\ UNCHANGED <<cfg, testcase, timesum>>
         ELSE /\ phase' = "new" /\ cfg' = Min(After(cfg))
              /\ testcase' = 0 /\ timesum' = 0
  BY DEF EndTest, NextConfig, NextConfigWith
<1>2. /\ Measured' = Measured \union {cfg}
      /\ \A k \in Measured : k < cfg
      /\ cfg \in Tried /\ Tried \subseteq 1 .. Len(sweep.configs)
      /\ Tried \subseteq Nat /\ Tried' = Tried
  BY SweepMeasures
<1>3. total \in Int /\ total < LongMax /\ LongMax \in Int /\ totals[cfg] = timesum
  BY <1>1, SimulatorAssumption DEF SweepInv, LoopsInv, TimesFit
<1>4. /\ totals'[cfg] = total
      /\ \A k \in Tried : k # cfg => totals'[k] = totals[k]
      /\ totals' \in [1 .. Len(sweep.configs) -> Int]
  BY <1>1, <1>2, <1>3 DEF SweepInv, LoopsInv, TimesFit
<1> HIDE DEF total
<1>5. LoopsInv'
  <2>1. minSumTime' \in Int
    BY <1>1, <1>3 DEF Choose, SweepInv, LoopsInv
  <2>2. CASE After(cfg) = {}
    <3>1. After(cfg)' = {}
      BY <1>1, <1>2, <2>2 DEF After
    <3> QED
      BY <1>1, <1>2, <1>4, <2>1, <2>2, <3>1 DEF SweepInv, LoopsInv
  <2>3. CASE After(cfg) # {}
    <3>1. cfg' \in After(cfg)
      BY <1>1, <1>2, <2>3, MinIsLeast DEF After
    <3>2. After(cfg)' \subseteq After(cfg)
      <4> SUFFICES ASSUME NEW k \in After(cfg)'  PROVE k \in After(cfg)
        OBVIOUS
      <4>1. k \in Tried /\ k > cfg' /\ cfg' \in Tried /\ cfg' > cfg
        BY <1>2, <3>1 DEF After
      <4>2. k \in Nat /\ cfg \in Nat /\ cfg' \in Nat
        BY <1>2, <4>1
      <4> QED
        BY <4>1, <4>2 DEF After
    <3>3. cfg' \in Tried /\ cfg' # cfg /\ \A k \in After(cfg) : k \in Tried /\ k # cfg
      BY <1>2, <3>1 DEF After
    <3>4. totals'[cfg'] = 0 /\ \A k \in After(cfg)' : totals'[k] = 0
      BY <1>1, <1>4, <3>1, <3>2, <3>3 DEF SweepInv, LoopsInv
    <3>5. 0 \in 0 .. sweep.tests - 1
      BY TriedTyped DEF SweepInv, LoopsInv
    <3> QED
      BY <1>1, <1>2, <1>4, <2>1, <2>3, <3>3, <3>4, <3>5 DEF SweepInv, LoopsInv
  <2> QED
    BY <2>2, <2>3
<1>6. BestIsLeast'
  <2> SUFFICES ASSUME sweep.kind # "main"
               PROVE  /\ tgt' \in Measured'
                      /\ minSumTime' = totals'[tgt']
                      /\ \A k \in Measured' : k < tgt' => totals'[k] > minSumTime'
                      /\ \A k \in Measured' : k > tgt' => totals'[k] >= minSumTime'
    BY <1>1 DEF BestIsLeast
  <2>1. /\ \A k \in Measured : k \in Tried /\ k # cfg /\ totals'[k] = totals[k]
        /\ \A k \in Tried : k \in Nat /\ totals[k] \in Int /\ totals'[k] \in Int
    BY <1>2, <1>4 DEF SweepInv, LoopsInv, Measured
  <2>2. CASE Measured = {}
    <3>1. minSumTime = LongMax
      BY <2>2 DEF SweepInv
    <3>2. minSumTime' = total /\ tgt' = cfg
      BY <1>1, <1>3, <3>1 DEF Choose
    <3> QED
      BY <1>2, <1>4, <2>2, <3>2
  <2>3. CASE Measured # {}
    <3>1. /\ tgt \in Measured /\ minSumTime = totals[tgt]
          /\ \A k \in Measured : k < tgt => totals[k] > minSumTime
          /\ \A k \in Measured : k > tgt => totals[k] >= minSumTime
      BY <2>3 DEF SweepInv, BestIsLeast
    <3>2. CASE minSumTime > total
      <4>1. minSumTime' = total /\ tgt' = cfg
        BY <1>1, <3>2 DEF Choose
      <4>2. \A k \in Measured : totals[k] >= minSumTime
        BY <2>1, <3>1
      <4>3. ASSUME NEW k \in Measured  PROVE k < cfg /\ totals'[k] > total
        <5>1. totals[k] \in Int /\ totals'[k] = totals[k] /\ totals[k] >= minSumTime
          BY <2>1, <4>2
        <5>2. minSumTime \in Int
          BY DEF SweepInv, LoopsInv
        <5> QED
          BY <1>2, <1>3, <3>2, <5>1, <5>2
      <4>4. cfg \in Nat /\ totals'[cfg] = minSumTime' /\ cfg \in Measured'
        BY <1>2, <1>4, <4>1
      <4>5. \A k \in Measured' : k = cfg \/ k \in Measured
        BY <1>2
      <4> QED
        BY <4>1, <4>3, <4>4, <4>5
    <3>3. CASE ~(minSumTime > total)
      <4>1. minSumTime' = minSumTime /\ tgt' = tgt
        BY <1>1, <3>3 DEF Choose
      <4>2. \A k \in Measured' : k = cfg \/ k \in Measured
        BY <1>2
      <4>3. tgt < cfg /\ tgt \in Nat /\ cfg \in Nat /\ tgt \in Measured'
        BY <1>2, <2>1, <3>1
      <4>4. totals'[cfg] >= minSumTime /\ minSumTime = totals'[tgt]
        BY <1>3, <1>4, <2>1, <3>1, <3>3 DEF SweepInv, LoopsInv
      <4>5. /\ \A k \in Measured' : k < tgt => totals'[k] > minSumTime
            /\ \A k \in Measured' : k > tgt => totals'[k] >= minSumTime
        BY <2>1, <3>1, <4>2, <4>3, <4>4
      <4> QED
        BY <4>1, <4>3, <4>4, <4>5
    <3> QED
      BY <3>2, <3>3
  <2> QED
    BY <2>2, <2>3
<1> QED
  BY <1>2, <1>5, <1>6 DEF SweepInv

LEMMA SweepStep == SweepInv /\ TimesFit /\ [Next]_vars => SweepInv'
<1> SUFFICES ASSUME SweepInv, TimesFit, [Next]_vars  PROVE SweepInv'
  OBVIOUS
<1>1. CASE cpu_clk
  BY <1>1, SweepKept DEF cpu_clk, NextPhase
<1>2. CASE stoerBufferClk
  BY <1>2, SweepKept DEF stoerBufferClk
<1>3. CASE TermClk
  BY <1>3, SweepKept DEF TermClk
<1>4. CASE StartTest
  BY <1>4, SweepKept DEF StartTest
<1>5. CASE EndTest
  BY <1>5, SweepNextTest, SweepNextConfig DEF EndTest
<1>6. CASE UNCHANGED vars
  BY <1>6, SweepKept DEF vars, run_vars
<1> QED
  BY <1>1, <1>2, <1>3, <1>4, <1>5, <1>6 DEF Next, Loop, Exit

(* A sweep reports the fastest of the configurations it has measured, and  *)
(* the first of them: the sums it compares are those of single             *)
(* configurations, and minSumTime is never one of an earlier target.       *)
THEOREM SweepReportsBest == Spec /\ []TimesFit => []BestIsLeast
<1>1. SweepInv => BestIsLeast
  BY DEF SweepInv
<1> QED
  BY <1>1, SweepInit, SweepStep, PTL DEF Spec

-----------------------------------------------------------------------------
(* The addresses of the data cache are numbers: what the monitor is told   *)
(* to do, word by word and command by command.                             *)

Words == {BootMesg[k] : k \in 1 .. Len(BootMesg)}
         \union {TestBin[k] : k \in 1 .. Len(TestBin)}
         \union Results \union {"0", StartMark, EndMark}

Commands == {WriteProgram[k] : k \in 1 .. Len(TestBin)}
            \union {ReadProgram, RunProgram}

Steps == {Send(w) : w \in Words}
         \union {[op |-> "sw", addr |-> a, dat |-> w] : a \in Memory, w \in Words}
         \union {[op |-> "lw", addr |-> a] : a \in Memory}
         \union {[op |-> "work"], [op |-> "result"], [op |-> "save"]}

ObeyStep == [op |-> "obey"]

ProgramInv == /\ \/ todo \in Seq(Steps)
                 \/ todo = <<ObeyStep>> /\ got \in Commands
              /\ que_tx \in Seq(Commands)
              /\ mem \in [Memory -> Words]

LEMMA MemoryTyped == /\ Memory \subseteq Int
                     /\ \A k \in 1 .. Len(TestBin) : WordAddr(k) \in Memory
                     /\ Result \in Memory
<1>1. Addr \in Nat /\ Result \in Nat
  BY SimulatorAssumption
<1>2. \A k \in 1 .. Len(TestBin) : WordAddr(k) \in Int
  BY <1>1 DEF WordAddr
<1> QED
  BY <1>1, <1>2 DEF Memory

LEMMA BootTyped == Boot \in Seq(Steps)
<1>1. \A k \in 1 .. Len(BootMesg) : Send(BootMesg[k]) \in Steps
  BY DEF Steps, Words
<1> QED
  BY <1>1, SimulatorAssumption DEF Boot

LEMMA ObeyTyped ==
  ASSUME NEW c \in Commands
  PROVE  Obey(c) \in Seq(Steps)
<1>1. CASE c.cmd = "A"
  <2>1. PICK k \in 1 .. Len(TestBin) : c = WriteProgram[k]
    BY <1>1 DEF Commands, ReadProgram, RunProgram
  <2>2. c.addr \in Memory /\ c.dat \in Words
    BY <2>1, MemoryTyped DEF WriteProgram, Words
  <2>3. [op |-> "sw", addr |-> c.addr, dat |-> c.dat] \in Steps
    BY <2>2 DEF Steps
  <2> QED
    BY <1>1, <2>3 DEF Obey
<1>2. CASE c.cmd = "D"
  <2>1. c = ReadProgram
    BY <1>2 DEF Commands, WriteProgram, RunProgram
  <2>2. c.len = Len(TestBin) /\ c.len \in Nat
    BY <2>1, SimulatorAssumption DEF ReadProgram
  <2>3. \A k \in 1 .. c.len : c.addr + 4 * (k - 1) \in Memory
    BY <2>1, <2>2, MemoryTyped DEF ReadProgram, WordAddr
  <2>4. \A k \in 1 .. c.len : [op |-> "lw", addr |-> c.addr + 4 * (k - 1)] \in Steps
    BY <2>3 DEF Steps
  <2>5. [k \in 1 .. c.len |-> [op |-> "lw", addr |-> c.addr + 4 * (k - 1)]]
          \in Seq(Steps)
    BY <2>2, <2>4
  <2> QED
    BY <1>2, <2>5 DEF Obey
<1>3. CASE c.cmd = "G"
  <2>1. /\ Send(StartMark) \in Steps /\ Send(EndMark) \in Steps
        /\ {[op |-> "work"], [op |-> "result"], [op |-> "save"]} \subseteq Steps
    BY DEF Steps, Words
  <2>2. [k \in 1 .. Work |-> [op |-> "work"]] \in Seq(Steps)
    BY <2>1, SimulatorAssumption
  <2>3. /\ <<Send(StartMark)>> \in Seq(Steps)
        /\ <<[op |-> "result"], [op |-> "save"], Send(EndMark)>> \in Seq(Steps)
    BY <2>1
  <2>4. <<Send(StartMark)>> \o [k \in 1 .. Work |-> [op |-> "work"]]
          \o <<[op |-> "result"], [op |-> "save"], Send(EndMark)>> \in Seq(Steps)
    BY <2>2, <2>3
  <2> QED
    BY <1>3, <2>4 DEF Obey
<1>4. c.cmd \in {"A", "D", "G"}
  BY DEF Commands, WriteProgram, ReadProgram, RunProgram
<1> QED
  BY <1>1, <1>2, <1>3, <1>4

\* The program's next step, and those after it.
LEMMA NextStepTyped ==
  ASSUME ProgramInv
  PROVE  /\ insn.op = "obey" => got \in Commands
         /\ insn.op \in {"sw", "lw"} => insn.addr \in Memory
         /\ insn.op = "sw" => insn.dat \in Words
         /\ insn.op # "obey" => Rest \in Seq(Steps)
<1>1. CASE todo = <<>>
  BY <1>1 DEF insn, Rest, Get
<1>2. CASE todo # <<>> /\ todo \in Seq(Steps)
  <2>1. insn \in Steps /\ Rest \in Seq(Steps)
    BY <1>2 DEF insn, Rest
  <2> QED
    BY <2>1 DEF Steps, Send
<1>3. CASE todo = <<ObeyStep>> /\ got \in Commands
  BY <1>3 DEF insn, ObeyStep
<1> QED
  BY <1>1, <1>2, <1>3 DEF ProgramInv

LEMMA ProgramStep ==
  ASSUME ProgramInv, cpu_clk
  PROVE  ProgramInv'
<1>1. PICK t \in {timestamp + 1 + getDelay(icache, Code[insn.op])} :
        \/ Poll(t) \/ SendWord(t) \/ GetCommand(t) \/ ObeyCommand(t)
        \/ StoreWord(t) \/ LoadWord(t)
        \/ WorkOn(t) \/ StoreResult(t) \/ SaveRegister(t)
  BY DEF cpu_clk
<1>2. CASE Poll(t)
  BY <1>2 DEF Poll, ProgramInv, port_vars
<1>3. CASE SendWord(t)
  BY <1>3, NextStepTyped DEF SendWord, ProgramInv
<1>4. CASE GetCommand(t)
  <2>1. got' \in Commands /\ que_tx' \in Seq(Commands)
    BY <1>4 DEF GetCommand, uart_read, uart_rx_ready, ProgramInv
  <2> QED
    BY <1>4, <2>1 DEF GetCommand, ProgramInv, ObeyStep
<1>5. CASE ObeyCommand(t)
  <2>1. todo' \in Seq(Steps)
    BY <1>5, NextStepTyped, ObeyTyped DEF ObeyCommand
  <2> QED
    BY <1>5, <2>1 DEF ObeyCommand, ProgramInv, port_vars
<1>6. CASE StoreWord(t)
  BY <1>6, NextStepTyped DEF StoreWord, ProgramInv, port_vars
<1>7. CASE LoadWord(t)
  <2>1. Send(mem[insn.addr]) \in Steps
    BY <1>7, NextStepTyped DEF LoadWord, ProgramInv, Steps
  <2>2. todo' \in Seq(Steps)
    BY <1>7, <2>1, NextStepTyped DEF LoadWord
  <2> QED
    BY <1>7, <2>2 DEF LoadWord, ProgramInv, port_vars
<1>8. CASE WorkOn(t)
  BY <1>8, NextStepTyped DEF WorkOn, ProgramInv, port_vars
<1>9. CASE StoreResult(t)
  <2>1. mem' \in [Memory -> Words]
    BY <1>9, MemoryTyped DEF StoreResult, ProgramInv, Words
  <2> QED
    BY <1>9, <2>1, NextStepTyped DEF StoreResult, ProgramInv, port_vars
<1>10. CASE SaveRegister(t)
  BY <1>10, NextStepTyped DEF SaveRegister, ProgramInv, port_vars
<1> QED
  BY <1>1, <1>2, <1>3, <1>4, <1>5, <1>6, <1>7, <1>8, <1>9, <1>10

LEMMA TerminalCommands ==
  ASSUME ProgramInv, TermClk
  PROVE  ProgramInv'
<1>1. RunProgram \in Commands /\ ReadProgram \in Commands
  BY DEF Commands
<1>2. WriteProgram \in Seq(Commands)
  <2>1. \A k \in 1 .. Len(TestBin) : WriteProgram[k] \in Commands
    BY DEF Commands
  <2> QED
    BY <2>1, SimulatorAssumption DEF WriteProgram
<1>3. que_tx \in Seq(Commands) /\ Append(WriteProgram, ReadProgram) \in Seq(Commands)
  BY <1>1, <1>2 DEF ProgramInv
<1>4. <<RunProgram>> \in Seq(Commands)
  BY <1>1
<1>5. \/ que_tx' = que_tx
      \/ que_tx' = que_tx \o Append(WriteProgram, ReadProgram)
      \/ que_tx' = que_tx \o <<RunProgram>>
  BY DEF TermClk, termtest_clk, Collect, WaitBoot, RunD, RunG, WaitG, Mismatch, Abort,
     uart_host_tx
<1>6. que_tx' \in Seq(Commands)
  <2>1. que_tx \o Append(WriteProgram, ReadProgram) \in Seq(Commands)
    BY <1>3
  <2>2. que_tx \o <<RunProgram>> \in Seq(Commands)
    BY <1>3, <1>4
  <2> QED
    BY <1>3, <1>5, <2>1, <2>2
<1> QED
  BY <1>6 DEF TermClk, ProgramInv, program_vars

LEMMA ClearedTyped == Cleared \in [Memory -> Words]
BY DEF Cleared, Words

LEMMA ProgramInit == Init => ProgramInv
BY ClearedTyped DEF Init, ProgramInv

LEMMA ProgramNext == ProgramInv /\ [Next]_vars => ProgramInv'
<1> SUFFICES ASSUME ProgramInv, [Next]_vars  PROVE ProgramInv'
  OBVIOUS
<1>1. CASE cpu_clk
  BY <1>1, ProgramStep
<1>2. CASE TermClk
  BY <1>2, TerminalCommands
<1>3. CASE StartTest
  BY <1>3, BootTyped, ClearedTyped DEF StartTest, cpu_rst, ProgramInv, port_vars
<1>4. CASE stoerBufferClk
  BY <1>4 DEF stoerBufferClk, ProgramInv, port_vars, program_vars
<1>5. CASE EndTest
  BY <1>5 DEF EndTest, ProgramInv, port_vars, program_vars
<1>6. CASE UNCHANGED vars
  BY <1>6 DEF vars, ProgramInv, port_vars, program_vars
<1> QED
  BY <1>1, <1>2, <1>3, <1>4, <1>5, <1>6 DEF Next, Loop, Exit

-----------------------------------------------------------------------------
(* The data cache. Its dirty bits are right because the lines of a set are *)
(* distinct: a second way with the line would keep its bit when the first  *)
(* is stored to.                                                           *)

\* Numbers of lines, and what an address is made of.
Powers(g) == 2 ^ g.P_LINE \in Nat \ {0} /\ Sets(g) \in Nat \ {0} /\ Ways(g) \in Nat \ {0}

TagsDistinct(c) ==
  \A s \in Set(c.g) : \A i, j \in Way(c.g) :
    i # j /\ c.cache_v[s][i] /\ c.cache_v[s][j] => c.cache_addr[s][i] # c.cache_addr[s][j]

Arrays(c, S) == [Set(c.g) -> [Way(c.g) -> S]]

CacheOk(c) ==
  /\ Powers(c.g)
  /\ c \in [g : {c.g}, cache_v : Arrays(c, BOOLEAN), cache_dirty : Arrays(c, BOOLEAN),
            cache_lru : Arrays(c, Int), cache_addr : Arrays(c, Int),
            freq_hit : Int, freq_miss : Int]
  /\ TagsDistinct(c)

LineDirty(c, l) ==
  LET pa == l * 2 ^ c.g.P_LINE
      s == entry_idx(c.g, pa)
  IN \A i \in match(c, s, maddr(c.g, pa)) : c.cache_dirty[s][i]

\* The configuration is one that is tried, however long the tests take.
CfgInv == sweep \in Sweeps /\ cfg \in Tried /\ testcase \in Int

DirtyInv == /\ dcache.g.enabled => CacheOk(dcache)
            /\ ~dcache.g.enabled => written = {}
            /\ written \subseteq Int
            /\ \A l \in written : Hit(dcache, l * 2 ^ dcache.g.P_LINE) /\ LineDirty(dcache, l)

\* The line of an address, and the address of a line.
LEMMA LineArithmetic ==
  ASSUME NEW g, Powers(g)
  PROVE  /\ \A pa \in Int : /\ Line(g, pa) \in Int
                            /\ entry_idx(g, pa) \in Set(g) /\ maddr(g, pa) \in Int
                            /\ Line(g, Line(g, pa) * 2 ^ g.P_LINE) = Line(g, pa)
         /\ \A l \in Int : l * 2 ^ g.P_LINE \in Int /\ Line(g, l * 2 ^ g.P_LINE) = l
<1> DEFINE X == 2 ^ g.P_LINE
           N == Sets(g)
<1>1. X \in Nat \ {0} /\ N \in Nat \ {0}
  BY DEF Powers
<1> HIDE DEF X, N
<1>2. \A l \in Int : (l * X) \div X = l /\ l * X \in Int
  BY <1>1
<1>3. \A p \in Int : p \div X \in Int
  BY <1>1
<1>4. \A l \in Int : l \div N \in Int /\ (l % N) \in 0 .. N - 1
  BY <1>1
<1> QED
  BY <1>2, <1>3, <1>4 DEF X, N, Line, entry_idx, maddr, Set

\* An access writes one entry of the arrays, and leaves the others.
LEMMA AccessEffect ==
  ASSUME NEW c, CacheOk(c), c.g.enabled, NEW pa \in Int, NEW store \in BOOLEAN,
         NEW d, d = Access(c, pa, store),
         NEW s, s = entry_idx(c.g, pa), NEW w, w = WayFor(c, pa)
  PROVE  /\ d.g = c.g
         /\ d \in [g : {c.g}, cache_v : Arrays(c, BOOLEAN),
                   cache_dirty : Arrays(c, BOOLEAN), cache_lru : Arrays(c, Int),
                   cache_addr : Arrays(c, Int), freq_hit : Int, freq_miss : Int]
         /\ \A t \in Set(c.g) : \A i \in Way(c.g) :
              IF t = s /\ i = w
              THEN /\ d.cache_v[t][i] /\ d.cache_addr[t][i] = maddr(c.g, pa)
                   /\ d.cache_dirty[t][i] <=> c.cache_dirty[t][i] \/ store
              ELSE /\ d.cache_v[t][i] <=> c.cache_v[t][i]
                   /\ d.cache_addr[t][i] = c.cache_addr[t][i]
                   /\ d.cache_dirty[t][i] <=> c.cache_dirty[t][i]
<1> DEFINE S == Set(c.g)
           W == Way(c.g)
           m == maddr(c.g, pa)
<1>1. s \in S /\ m \in Int
  BY LineArithmetic DEF CacheOk
<1>2. /\ c.cache_v \in [S -> [W -> BOOLEAN]] /\ c.cache_dirty \in [S -> [W -> BOOLEAN]]
      /\ c.cache_lru \in [S -> [W -> Int]] /\ c.cache_addr \in [S -> [W -> Int]]
      /\ c.freq_hit \in Int /\ c.freq_miss \in Int
  BY DEF CacheOk, Arrays
<1>3. Ranked(c, s, w) \in [W -> Int]
  <2>1. Ways(c.g) \in Nat \ {0}
    BY DEF CacheOk, Powers
  <2>2. \A i \in W : c.cache_lru[s][i] \in Int
    BY <1>1, <1>2
  <2>3. \A i \in W : ((c.cache_lru[s][i] - 1) % Ways(c.g)) \in Int
    BY <2>1, <2>2
  <2> HIDE DEF S, W
  <2>4. \A i \in W : (IF i = w THEN Ways(c.g) - 1
                      ELSE IF c.cache_lru[s][i] > c.cache_lru[s][w]
                      THEN (c.cache_lru[s][i] - 1) % Ways(c.g)
                      ELSE c.cache_lru[s][i]) \in Int
    BY <2>1, <2>2, <2>3
  <2> QED
    BY <2>4 DEF Ranked, W
<1> DEFINE v == [c.cache_v EXCEPT ![s][w] = TRUE]
           a == [c.cache_addr EXCEPT ![s][w] = m]
           r == [c.cache_lru EXCEPT ![s] = Ranked(c, s, w)]
           y == [c.cache_dirty EXCEPT ![s][w] = Dirty(@, store)]
<1>4. \E h, n \in Int :
        d = [g |-> c.g, cache_v |-> v, cache_dirty |-> y, cache_lru |-> r,
             cache_addr |-> a, freq_hit |-> h, freq_miss |-> n]
  <2> DEFINE hit == Hit(c, pa)
             h == IF hit THEN c.freq_hit + 1 ELSE c.freq_hit
             n == IF hit THEN c.freq_miss ELSE c.freq_miss + 1
  <2> HIDE DEF hit
  <2>1. h \in Int /\ n \in Int
    BY <1>2
  <2>2. c = [g |-> c.g, cache_v |-> c.cache_v, cache_dirty |-> c.cache_dirty,
             cache_lru |-> c.cache_lru, cache_addr |-> c.cache_addr,
             freq_hit |-> c.freq_hit, freq_miss |-> c.freq_miss]
    BY DEF CacheOk
  <2>3. d = [g |-> c.g, cache_v |-> v, cache_dirty |-> y, cache_lru |-> r,
             cache_addr |-> a, freq_hit |-> h, freq_miss |-> n]
    BY <2>2 DEF Access, hit
  <2> HIDE DEF h, n, v, y, r, a
  <2> QED
    BY <2>1, <2>3
<1>5. /\ v \in [S -> [W -> BOOLEAN]] /\ a \in [S -> [W -> Int]]
      /\ r \in [S -> [W -> Int]] /\ y \in [S -> [W -> BOOLEAN]]
  <2> HIDE DEF S, W, m
  <2>1. v \in [S -> [W -> BOOLEAN]]
    BY <1>1, <1>2
  <2>2. a \in [S -> [W -> Int]]
    BY <1>1, <1>2
  <2>3. r \in [S -> [W -> Int]]
    BY <1>1, <1>2, <1>3
  <2>4. y \in [S -> [W -> BOOLEAN]]
    BY <1>1, <1>2 DEF Dirty
  <2> QED
    BY <2>1, <2>2, <2>3, <2>4
<1>6. \A t \in S : \A i \in W :
        IF t = s /\ i = w
        THEN v[t][i] /\ a[t][i] = m /\ (y[t][i] <=> c.cache_dirty[t][i] \/ store)
        ELSE /\ v[t][i] <=> c.cache_v[t][i]
             /\ a[t][i] = c.cache_addr[t][i]
             /\ y[t][i] <=> c.cache_dirty[t][i]
  <2> HIDE DEF S, W, m
  <2> QED
    BY <1>1, <1>2 DEF Dirty
<1> HIDE DEF v, a, r, y
<1> QED
  BY <1>4, <1>5, <1>6 DEF Arrays

\* On a hit there is one way with the line, and it is the one that is used.
LEMMA UniqueMatch ==
  ASSUME NEW c, CacheOk(c), NEW pa \in Int, Hit(c, pa)
  PROVE  /\ match(c, entry_idx(c.g, pa), maddr(c.g, pa)) = {WayFor(c, pa)}
         /\ WayFor(c, pa) \in Way(c.g)
<1> DEFINE s == entry_idx(c.g, pa)
           m == maddr(c.g, pa)
<1>1. s \in Set(c.g)
  BY LineArithmetic DEF CacheOk
<1>2. PICK i \in Way(c.g) : i \in match(c, s, m)
  BY DEF Hit, match
<1>3. \A j \in match(c, s, m) : j = i
  BY <1>1, <1>2 DEF CacheOk, TagsDistinct, match
<1>4. match(c, s, m) = {i}
  BY <1>2, <1>3
<1>5. i \in Int
  BY <1>2 DEF Way, CacheOk, Powers
<1> HIDE DEF s, m
<1>6. Max({i}) = i
  BY <1>5 DEF Max
<1>7. WayFor(c, pa) = i
  BY <1>4, <1>6 DEF WayFor, s, m
<1> QED
  BY <1>2, <1>4, <1>7 DEF s, m

\* An access keeps the lines of a set distinct. A store marks its line, if
\* the line is there afterwards, and no other line loses its mark.
LEMMA AccessKeeps ==
  ASSUME NEW c, CacheOk(c), c.g.enabled, NEW pa \in Int, NEW store \in BOOLEAN,
         NEW d, d = Access(c, pa, store)
  PROVE  /\ CacheOk(d) /\ d.g = c.g
         /\ store => LineDirty(d, Line(c.g, pa))
         /\ \A l \in Int : Hit(c, l * 2 ^ c.g.P_LINE) /\ LineDirty(c, l)
              => LineDirty(d, l)
<1> DEFINE g == c.g
           s == entry_idx(g, pa)
           m == maddr(g, pa)
           w == WayFor(c, pa)
<1>1. s \in Set(g) /\ m \in Int /\ Powers(g)
  BY LineArithmetic DEF CacheOk
<1>2. Hit(c, pa) => match(c, s, m) = {w} /\ w \in Way(g)
  BY UniqueMatch
<1>3. ~Hit(c, pa) => match(c, s, m) = {}
  BY DEF Hit
<1>4. /\ d.g = g
      /\ \A t \in Set(g) : \A i \in Way(g) :
           IF t = s /\ i = w
           THEN /\ d.cache_v[t][i] /\ d.cache_addr[t][i] = m
                /\ d.cache_dirty[t][i] <=> c.cache_dirty[t][i] \/ store
           ELSE /\ d.cache_v[t][i] <=> c.cache_v[t][i]
                /\ d.cache_addr[t][i] = c.cache_addr[t][i]
                /\ d.cache_dirty[t][i] <=> c.cache_dirty[t][i]
  BY AccessEffect
<1>5. \A i \in Way(g) : c.cache_v[s][i] /\ c.cache_addr[s][i] = m => i = w
  BY <1>2, <1>3 DEF match
<1>6. CacheOk(d)
  <2>1. d \in [g : {d.g}, cache_v : Arrays(d, BOOLEAN), cache_dirty : Arrays(d, BOOLEAN),
               cache_lru : Arrays(d, Int), cache_addr : Arrays(d, Int),
               freq_hit : Int, freq_miss : Int]
    <3>1. \A S : Arrays(d, S) = Arrays(c, S)
      BY <1>4 DEF Arrays
    <3> QED
      BY <1>4, <3>1, AccessEffect
  <2>2. TagsDistinct(d)
    <3> SUFFICES ASSUME NEW t \in Set(g), NEW i \in Way(g), NEW j \in Way(g), i # j,
                        d.cache_v[t][i], d.cache_v[t][j]
                 PROVE  d.cache_addr[t][i] # d.cache_addr[t][j]
      BY <1>4 DEF TagsDistinct
    <3> HIDE DEF s, m, w, g
    <3>1. CASE t = s /\ i = w
      BY <1>4, <1>5, <3>1
    <3>2. CASE t = s /\ j = w
      BY <1>4, <1>5, <3>2
    <3>3. CASE ~(t = s /\ (i = w \/ j = w))
      BY <1>4, <3>3 DEF CacheOk, TagsDistinct, g
    <3> QED
      BY <3>1, <3>2, <3>3
  <2> QED
    BY <1>1, <1>4, <2>1, <2>2 DEF CacheOk
<1>7. ASSUME store  PROVE LineDirty(d, Line(g, pa))
  <2>1. /\ entry_idx(g, Line(g, pa) * 2 ^ g.P_LINE) = s
        /\ maddr(g, Line(g, pa) * 2 ^ g.P_LINE) = m
    BY <1>1, LineArithmetic DEF entry_idx, maddr
  <2>2. \A i \in match(d, s, m) : i = w
    BY <1>1, <1>4, <1>5 DEF match
  <2>3. \A i \in match(d, s, m) : d.cache_dirty[s][i]
    BY <1>1, <1>4, <1>7, <2>2 DEF match
  <2> QED
    BY <1>4, <2>1, <2>3 DEF LineDirty
<1>8. ASSUME NEW l \in Int, Hit(c, l * 2 ^ g.P_LINE), LineDirty(c, l)
      PROVE  LineDirty(d, l)
  <2> DEFINE la == l * 2 ^ g.P_LINE
             ls == entry_idx(g, la)
             lm == maddr(g, la)
  <2>1. la \in Int /\ Line(g, la) = l /\ ls \in Set(g)
    BY <1>1, LineArithmetic
  <2>2. \A i \in match(c, ls, lm) : c.cache_dirty[ls][i]
    BY <1>8 DEF LineDirty
  <2> SUFFICES ASSUME NEW i \in match(d, ls, lm)  PROVE d.cache_dirty[ls][i]
    BY <1>4 DEF LineDirty
  <2>3. i \in Way(g) /\ d.cache_v[ls][i] /\ d.cache_addr[ls][i] = lm
    BY <1>4 DEF match
  <2>4. CASE ~(ls = s /\ i = w)
    <3>1. i \in match(c, ls, lm)
      BY <1>4, <2>1, <2>3, <2>4 DEF match
    <3> QED
      BY <1>4, <2>1, <2>2, <2>3, <2>4, <3>1
  <2>5. CASE ls = s /\ i = w
    \* The line is the one accessed, and it was there.
    <3>1. lm = m
      BY <1>1, <1>4, <2>3, <2>5
    <3>2. i \in match(c, ls, lm)
      BY <1>2, <1>8, <2>5, <3>1 DEF Hit
    <3> QED
      BY <1>4, <2>1, <2>2, <2>3, <2>5, <3>2
  <2> QED
    BY <2>4, <2>5
<1> QED
  BY <1>4, <1>6, <1>7, <1>8

LEMMA DirtyAccess ==
  ASSUME DirtyInv, NEW pa \in Int, NEW store \in BOOLEAN, DCacheAccess(pa, store)
  PROVE  DirtyInv'
<1>1. dcache' = Access(dcache, pa, store)
  BY DEF DCacheAccess
<1>2. CASE ~dcache.g.enabled
  <2>1. dcache' = dcache /\ written' = {}
    BY <1>1, <1>2 DEF Access, DCacheAccess
  <2> QED
    BY <1>2, <2>1 DEF DirtyInv
<1>3. CASE dcache.g.enabled
  <2>1. CacheOk(dcache)
    BY <1>3 DEF DirtyInv
  <2>2. /\ CacheOk(dcache') /\ dcache'.g = dcache.g
        /\ store => LineDirty(dcache', Line(dcache.g, pa))
        /\ \A l \in Int : Hit(dcache, l * 2 ^ dcache.g.P_LINE) /\ LineDirty(dcache, l)
             => LineDirty(dcache', l)
    BY <1>1, <1>3, <2>1, AccessKeeps
  <2>3. \A l \in written' : /\ StillThere(l)
                            /\ l \in written \/ (store /\ l = Line(dcache.g, pa))
    BY <1>3 DEF DCacheAccess
  <2>4. Line(dcache.g, pa) \in Int
    BY <2>1, LineArithmetic DEF CacheOk
  <2>5. \A l \in written' : /\ l \in Int /\ Hit(dcache', l * 2 ^ dcache'.g.P_LINE)
                            /\ LineDirty(dcache', l)
    BY <2>2, <2>3, <2>4 DEF DirtyInv, StillThere
  <2>6. dcache'.g.enabled
    BY <1>3, <2>2
  <2> QED
    BY <2>2, <2>5, <2>6 DEF DirtyInv
<1> QED
  BY <1>2, <1>3

LEMMA DirtyKept == DirtyInv /\ UNCHANGED <<dcache, written>> => DirtyInv'
BY DEF DirtyInv

\* A new cache is empty, and has the sizes of a configuration.
LEMMA NewCacheOk ==
  ASSUME NEW g, Powers(g), NEW heap
  PROVE  CacheOk(NewCache(g, heap)) /\ NewCache(g, heap).g = g
<1>1. \A i \in Way(g) : i \in Int
  BY DEF Way, Powers
<1> QED
  BY <1>1 DEF NewCache, CacheOk, Powers, Arrays, TagsDistinct

LEMMA DirtyNew ==
  ASSUME CfgInv, DirtyInv, NewCaches
  PROVE  DirtyInv'
<1>1. written' = {}
  BY DEF NewCaches
<1>2. CASE ~HasDCache
  <2>1. dcache' = dcache
    BY <1>2 DEF NewCaches
  <2> QED
    BY <1>1, <2>1 DEF DirtyInv
<1>3. CASE HasDCache
  <2> DEFINE p == sweep.configs[cfg].d
             g == Geometry(TRUE, p)
  <2>1. sweep \in Sweeps /\ cfg \in 1 .. Len(sweep.configs)
    BY TriedTyped DEF CfgInv
  <2>2. {2 ^ p[n] : n \in 1 .. 3} \subseteq Nat \ {0}
    BY <2>1, SimulatorAssumption
  <2>3. 2 ^ p[1] \in Nat \ {0} /\ 2 ^ p[2] \in Nat \ {0} /\ 2 ^ p[3] \in Nat \ {0}
    BY <2>2
  <2>4. Powers(g)
    BY <2>3 DEF Powers, Geometry, Ways, Sets
  <2>5. PICK heap : dcache' = NewCache(g, heap)
    BY <1>3 DEF NewCaches
  <2>6. CacheOk(dcache') /\ dcache'.g.enabled
    BY <2>4, <2>5, NewCacheOk DEF Geometry
  <2> QED
    BY <1>1, <2>6 DEF DirtyInv
<1> QED
  BY <1>2, <1>3

LEMMA DirtyStep ==
  ASSUME ProgramInv, DirtyInv, cpu_clk
  PROVE  DirtyInv'
<1>1. PICK t \in {timestamp + 1 + getDelay(icache, Code[insn.op])} :
        \/ Poll(t) \/ SendWord(t) \/ GetCommand(t) \/ ObeyCommand(t)
        \/ StoreWord(t) \/ LoadWord(t)
        \/ WorkOn(t) \/ StoreResult(t) \/ SaveRegister(t)
  BY DEF cpu_clk
<1>2. /\ SR \in Int /\ BR \in Int /\ Frame \in Int /\ Result \in Int
      /\ Data \subseteq Int
  BY SimulatorAssumption
<1>3. insn.op \in {"sw", "lw"} => insn.addr \in Int
  BY NextStepTyped, MemoryTyped
<1>4. ASSUME NEW pa \in Int, getLoadDelay(t, pa) \/ getStoreDelay(t, pa)
      PROVE  DirtyInv'
  BY <1>4, DirtyAccess DEF getLoadDelay, getStoreDelay
<1>5. ASSUME NEW u, NoAccess(u)  PROVE DirtyInv'
  BY <1>5, DirtyKept DEF NoAccess
<1>6. CASE Poll(t) \/ SendWord(t) \/ GetCommand(t)
  BY <1>2, <1>4, <1>6 DEF Poll, SendWord, GetCommand
<1>7. CASE ObeyCommand(t)
  BY <1>5, <1>7 DEF ObeyCommand
<1>8. CASE StoreWord(t) \/ LoadWord(t)
  BY <1>3, <1>4, <1>8 DEF StoreWord, LoadWord
<1>9. CASE WorkOn(t)
  BY <1>2, <1>4, <1>5, <1>9 DEF WorkOn
<1>10. CASE StoreResult(t) \/ SaveRegister(t)
  BY <1>2, <1>4, <1>10 DEF StoreResult, SaveRegister
<1> QED
  BY <1>1, <1>6, <1>7, <1>8, <1>9, <1>10

LEMMA CfgInit == Init => CfgInv
<1> SUFFICES ASSUME Init  PROVE CfgInv
  OBVIOUS
<1>1. sweep \in Sweeps
  BY DEF Init
<1>2. After(0) = Tried
  BY <1>1, TriedTyped DEF After
<1>3. cfg \in Tried
  BY <1>1, <1>2, TriedTyped, MinIsLeast DEF Init
<1> QED
  BY <1>1, <1>3 DEF Init, CfgInv

LEMMA CfgNext == CfgInv /\ [Next]_vars => CfgInv'
<1> SUFFICES ASSUME CfgInv, [Next]_vars  PROVE CfgInv'
  OBVIOUS
<1>1. CASE UNCHANGED run_vars
  BY <1>1 DEF CfgInv, run_vars, Tried, TriedOf
<1>2. CASE EndTest
  <2>1. Tried' = Tried /\ sweep' = sweep
    BY <1>2 DEF EndTest, Tried, TriedOf
  <2>2. ASSUME After(cfg) # {}  PROVE Min(After(cfg)) \in Tried
    BY <2>2, TriedTyped, MinIsLeast DEF CfgInv
  <2>3. /\ cfg' = cfg \/ (After(cfg) # {} /\ cfg' = Min(After(cfg)))
        /\ testcase' \in {testcase, testcase + 1, 0}
    BY <1>2 DEF EndTest, NextTest, NextConfig, NextConfigWith
  <2> QED
    BY <2>1, <2>2, <2>3 DEF CfgInv
<1>3. UNCHANGED run_vars \/ EndTest
  BY DEF Next, Loop, Exit, vars, cpu_clk, stoerBufferClk, TermClk, StartTest, run_vars
<1> QED
  BY <1>1, <1>2, <1>3

LEMMA DirtyInit == Init => DirtyInv
<1> SUFFICES ASSUME Init  PROVE DirtyInv
  OBVIOUS
<1>1. written = {} /\ ~dcache.g.enabled
  BY DEF Init, NewCache, Geometry
<1> QED
  BY <1>1 DEF DirtyInv

LEMMA DirtyNext == CfgInv /\ ProgramInv /\ DirtyInv /\ [Next]_vars => DirtyInv'
<1> SUFFICES ASSUME CfgInv, ProgramInv, DirtyInv, [Next]_vars  PROVE DirtyInv'
  OBVIOUS
<1>1. CASE cpu_clk
  BY <1>1, DirtyStep
<1>2. CASE StartTest
  BY <1>2, DirtyNew DEF StartTest
<1>3. CASE stoerBufferClk \/ TermClk \/ EndTest \/ UNCHANGED vars
  BY <1>3, DirtyKept DEF stoerBufferClk, TermClk, EndTest, vars, memory_vars
<1> QED
  BY <1>1, <1>2, <1>3 DEF Next, Loop, Exit

(* A line stored to since it came into the data cache has its dirty bit,   *)
(* so that its write-back is charged when it is replaced or flushed, for   *)
(* every number of ways, of sets and of bytes in a line, whatever the heap *)
(* held when the cache was made.                                           *)
THEOREM StoresAreCharged == Spec => []StoredLinesAreDirty
<1>1. DirtyInv => StoredLinesAreDirty
  BY DEF DirtyInv, StoredLinesAreDirty, LineDirty
<1> QED
  BY <1>1, CfgInit, CfgNext, ProgramInit, ProgramNext, DirtyInit, DirtyNext, PTL
     DEF Spec

-----------------------------------------------------------------------------
(* What a load waits for. Drained folds WaitFor over the store buffer; the *)
(* fold is the value at 1 .. Len(storeBuffer) of a function of the sets of *)
(* its indices, each of which takes out the greatest.                      *)

LEMMA MaxIsGreatest ==
  ASSUME NEW n \in Nat, NEW S \in SUBSET (1 .. n), S # {}
  PROVE  Max(S) \in S /\ \A y \in S : Max(S) >= y
<1> DEFINE T == {n - y : y \in S}
<1>1. T \in SUBSET Nat /\ T # {}
  <2>1. \A y \in S : y \in Int /\ y <= n
    OBVIOUS
  <2>2. \A y \in S : n - y \in Nat
    BY <2>1
  <2> QED
    BY <2>2
<1>2. Min(T) \in T /\ \A z \in T : Min(T) <= z
  BY <1>1, MinIsLeast
<1>3. PICK x \in S : Min(T) = n - x
  BY <1>2
<1>4. \A y \in S : n - x <= n - y
  BY <1>2, <1>3
<1>5. \A y \in S : x >= y
  BY <1>4
<1> QED
  BY <1>3, <1>5 DEF Max

Folded(t, f, D) ==
  f = [s \in SUBSET D |-> IF s = {} THEN t
                         ELSE WaitFor(f[s \ {Max(s)}], storeBuffer[Max(s)])]

Fold(t) == CHOOSE f : Folded(t, f, DOMAIN storeBuffer)

LEMMA DrainedFold == \A t : Drained(t) = Fold(t)[DOMAIN storeBuffer]
BY DEF Drained, FoldLeft, MapThenFoldSet, Fold, Folded

\* There is such a function: the least n without one would have one.
LEMMA FoldExists ==
  ASSUME NEW t, NEW N \in Nat
  PROVE  \E f : Folded(t, f, 1 .. N)
<1> DEFINE Lacking == {n \in Nat : ~ \E f : Folded(t, f, 1 .. n)}
<1> SUFFICES ASSUME Lacking # {}  PROVE FALSE
  OBVIOUS
<1>1. PICK n \in Lacking : \A k \in Lacking : n <= k
  BY MinIsLeast
<1>2. n # 0
  <2>1. Folded(t, [s \in SUBSET (1 .. 0) |-> t], 1 .. 0)
    BY DEF Folded
  <2> QED
    BY <1>1, <2>1
<1>3. n \in Nat /\ n - 1 \in Nat
  BY <1>1, <1>2
<1>4. PICK f : Folded(t, f, 1 .. n - 1)
  BY <1>1, <1>3
<1> DEFINE last(s) == WaitFor(f[s \ {n}], storeBuffer[n])
           g == [s \in SUBSET (1 .. n) |-> IF n \in s THEN last(s) ELSE f[s]]
<1>5. ASSUME NEW s \in SUBSET (1 .. n)
      PROVE  g[s] = IF s = {} THEN t ELSE WaitFor(g[s \ {Max(s)}], storeBuffer[Max(s)])
  <2>1. CASE n \in s
    <3>1. Max(s) = n
      <4>1. Max(s) \in s /\ Max(s) >= n
        BY <1>3, <2>1, MaxIsGreatest
      <4>2. Max(s) \in 1 .. n
        BY <4>1
      <4> QED
        BY <1>3, <4>1, <4>2
    <3>2. s \ {n} \in SUBSET (1 .. n) /\ n \notin s \ {n}
      OBVIOUS
    <3> QED
      BY <2>1, <3>1, <3>2
  <2>2. CASE n \notin s
    <3>1. s \in SUBSET (1 .. n - 1)
      BY <1>3, <2>2
    <3>2. g[s] = f[s] /\ g[s \ {Max(s)}] = f[s \ {Max(s)}]
      BY <2>2
    <3>3. f[s] = IF s = {} THEN t ELSE WaitFor(f[s \ {Max(s)}], storeBuffer[Max(s)])
      BY <1>4, <3>1 DEF Folded
    <3> QED
      BY <3>2, <3>3
  <2> QED
    BY <2>1, <2>2
<1>6. Folded(t, g, 1 .. n)
  BY <1>5 DEF Folded
<1> QED
  BY <1>1, <1>6

Stores == [end : Int, test : Int \X Int]

\* What has been waited for when the first k stores have.
LEMMA DrainedWaits ==
  ASSUME NEW t \in Int, storeBuffer \in Seq(Stores)
  PROVE  /\ Drained(t) \in Int /\ Drained(t) >= t
         /\ \A i \in 1 .. Len(storeBuffer) : Drained(t) >= storeBuffer[i].end
<1> DEFINE N == Len(storeBuffer)
           F == Fold(t)
           Waited(k) == /\ F[1 .. k] \in Int /\ F[1 .. k] >= t
                        /\ \A i \in 1 .. k : F[1 .. k] >= storeBuffer[i].end
           Not == {k \in 0 .. N : ~Waited(k)}
<1>1. N \in Nat /\ DOMAIN storeBuffer = 1 .. N
  OBVIOUS
<1>2. \A i \in 1 .. N : storeBuffer[i].end \in Int
  <2>1. \A i \in 1 .. N : storeBuffer[i] \in Stores
    BY <1>1
  <2> QED
    BY <2>1 DEF Stores
<1>3. Folded(t, F, 1 .. N)
  BY <1>1, FoldExists DEF Fold
<1> HIDE DEF F
<1>4. Not = {}
  <2> SUFFICES ASSUME Not # {}  PROVE FALSE
    OBVIOUS
  <2>1. PICK k \in Not : \A j \in Not : k <= j
    <3>1. Not \in SUBSET Nat
      BY <1>1
    <3> HIDE DEF Not
    <3> QED
      BY <3>1, MinIsLeast
  <2>2. CASE k = 0
    <3>1. F[1 .. 0] = t
      BY <1>1, <1>3 DEF Folded
    <3> QED
      BY <2>1, <2>2, <3>1
  <2>3. CASE k # 0
    <3>1. k \in 1 .. N /\ k - 1 \in 0 .. N /\ k - 1 \notin Not
      BY <1>1, <2>1, <2>3
    <3>2. Waited(k - 1)
      BY <3>1
    <3>3. Max(1 .. k) = k
      <4>1. k \in Nat /\ 1 .. k # {} /\ k \in 1 .. k
        BY <3>1
      <4>2. Max(1 .. k) \in 1 .. k /\ Max(1 .. k) >= k
        BY <4>1, MaxIsGreatest
      <4> QED
        BY <4>1, <4>2
    <3>4. F[1 .. k] = WaitFor(F[1 .. k - 1], storeBuffer[k])
      <4>1. 1 .. k \in SUBSET (1 .. N) /\ 1 .. k # {}
        <5>1. k \in Int /\ N \in Int /\ 1 <= k /\ k <= N /\ k \in 1 .. k
          BY <1>1, <3>1
        <5> HIDE DEF N
        <5>2. \A i \in 1 .. k : i \in 1 .. N
          BY <5>1
        <5> QED
          BY <5>1, <5>2
      <4>2. (1 .. k) \ {k} = 1 .. k - 1
        BY <1>1, <3>1
      <4> QED
        BY <1>3, <3>3, <4>1, <4>2 DEF Folded
    <3>5. storeBuffer[k].end \in Int
      BY <1>2, <3>1
    <3>6. /\ F[1 .. k] \in Int /\ F[1 .. k] >= F[1 .. k - 1]
          /\ F[1 .. k] >= storeBuffer[k].end
      BY <3>2, <3>4, <3>5 DEF WaitFor, STORE_BUFFER_LATENCY
    <3>7. ASSUME NEW i \in 1 .. k  PROVE F[1 .. k] >= storeBuffer[i].end
      <4>1. storeBuffer[i].end \in Int
        BY <1>1, <1>2, <3>1
      <4>2. i = k \/ i \in 1 .. k - 1
        BY <3>1
      <4> QED
        BY <3>2, <3>6, <4>1, <4>2
    <3>8. Waited(k)
      BY <3>2, <3>6, <3>7
    <3> QED
      BY <2>1, <3>8
  <2> QED
    BY <2>2, <2>3
<1>5. Waited(N)
  BY <1>1, <1>4
<1> QED
  BY <1>1, <1>5, DrainedFold DEF F

-----------------------------------------------------------------------------
(* Time in a test.                                                         *)

CacheTimes(c) ==
  /\ "g" \in DOMAIN c
  /\ c.g.enabled => /\ c.g.hitLatency \in Nat /\ c.g.missRead \in Nat
                    /\ c.g.missWriteRead \in Nat

TimeInv == /\ timestamp \in Int
           /\ storeBuffer \in Seq(Stores)
           /\ CacheTimes(icache) /\ CacheTimes(dcache)
           /\ HasDCache => phase # "store_buffer"

LEMMA DelayTyped ==
  ASSUME NEW c, CacheTimes(c), NEW pa
  PROVE  getDelay(c, pa) \in Nat
BY DEF getDelay, HitLatency, CacheTimes

LEMMA TimesKept ==
  ASSUME NEW c, CacheTimes(c), NEW pa, NEW store
  PROVE  CacheTimes(Access(c, pa, store))
<1>1. Access(c, pa, store).g = c.g /\ "g" \in DOMAIN Access(c, pa, store)
  BY DEF Access, CacheTimes
<1> QED
  BY <1>1 DEF CacheTimes

LEMMA GeometryTimes ==
  ASSUME NEW enabled, NEW p, 2 ^ p[3] \in Nat, NEW heap
  PROVE  CacheTimes(NewCache(Geometry(enabled, p), heap))
<1>1. 2 ^ p[3] \div 4 \in Nat
  OBVIOUS
<1>2. MissTime(p[3]) \in Nat
  BY <1>1 DEF MissTime, SRAM_FCLK_RATIO, HANDSHAK_LATENCY
<1> QED
  BY <1>2 DEF NewCache, Geometry, CacheTimes

\* A load gets its word when no store is under way any more, a store when
\* there is room for it.
LEMMA LoadTime ==
  ASSUME TimeInv, NEW t \in Int, NEW pa, getLoadDelay(t, pa)
  PROVE  /\ timestamp' \in Int /\ timestamp' >= t /\ storeBuffer' = <<>>
         /\ \A i \in 1 .. Len(storeBuffer) : timestamp' >= storeBuffer[i].end
         /\ CacheTimes(dcache')
<1>1. /\ Drained(t) \in Int /\ Drained(t) >= t
      /\ \A i \in 1 .. Len(storeBuffer) : Drained(t) >= storeBuffer[i].end
  BY DrainedWaits DEF TimeInv
<1>2. \A i \in 1 .. Len(storeBuffer) : storeBuffer[i].end \in Int
  <2>1. \A i \in 1 .. Len(storeBuffer) : storeBuffer[i] \in Stores
    BY DEF TimeInv
  <2> QED
    BY <2>1 DEF Stores
<1>3. getDelay(dcache, pa) \in Nat
  BY DelayTyped DEF TimeInv
<1>4. timestamp' = Drained(t) + getDelay(dcache, pa) /\ storeBuffer' = <<>>
  BY DEF getLoadDelay
<1>5. CacheTimes(dcache')
  BY TimesKept DEF TimeInv, getLoadDelay, DCacheAccess
<1> QED
  BY <1>1, <1>2, <1>3, <1>4, <1>5

LEMMA StoreTime ==
  ASSUME CfgInv, TimeInv, NEW t \in Int, NEW pa, getStoreDelay(t, pa)
  PROVE  /\ timestamp' \in Int /\ timestamp' >= t /\ storeBuffer' \in Seq(Stores)
         /\ CacheTimes(dcache')
<1> DEFINE full == Len(storeBuffer) >= StoreBufferSize
           begin == IF full THEN WaitFor(t, Head(storeBuffer)) ELSE t
           rest == IF full THEN Tail(storeBuffer) ELSE storeBuffer
           new == [end |-> begin + getDelay(dcache, pa), test |-> <<cfg, testcase>>]
<1>1. storeBuffer \in Seq(Stores) /\ Len(storeBuffer) \in Nat /\ StoreBufferSize \in Nat \ {0}
  BY SimulatorAssumption DEF TimeInv
<1>2. full => storeBuffer # <<>> /\ Head(storeBuffer).end \in Int
  <2>1. full => Len(storeBuffer) # 0 /\ storeBuffer # <<>>
    BY <1>1
  <2>2. full => Head(storeBuffer) \in Stores
    BY <1>1, <2>1
  <2> QED
    BY <2>1, <2>2 DEF Stores
<1>3. begin \in Int /\ begin >= t
  BY <1>2 DEF WaitFor, STORE_BUFFER_LATENCY
<1>4. rest \in Seq(Stores)
  BY <1>1, <1>2
<1>5. getDelay(dcache, pa) \in Nat
  BY DelayTyped DEF TimeInv
<1>6. cfg \in Int /\ testcase \in Int
  BY TriedTyped DEF CfgInv
<1> HIDE DEF begin, rest
<1>7. new \in Stores
  BY <1>3, <1>5, <1>6 DEF Stores
<1>8. timestamp' = begin /\ storeBuffer' = Append(rest, new)
  BY DEF getStoreDelay, begin, rest
<1>9. CacheTimes(dcache')
  BY TimesKept DEF TimeInv, getStoreDelay, DCacheAccess
<1> QED
  BY <1>3, <1>4, <1>7, <1>8, <1>9

\* A step of the processor: an access, or none.
LEMMA ProcessorStep ==
  ASSUME cpu_clk
  PROVE  \E t \in {timestamp + 1 + getDelay(icache, Code[insn.op])} :
           \/ \E pa : getLoadDelay(t, pa)
           \/ \E pa : getStoreDelay(t, pa)
           \/ NoAccess(t) \/ NoAccess(t + BPU_FAIL_LATENCY)
<1>1. PICK t \in {timestamp + 1 + getDelay(icache, Code[insn.op])} :
        \/ Poll(t) \/ SendWord(t) \/ GetCommand(t) \/ ObeyCommand(t)
        \/ StoreWord(t) \/ LoadWord(t)
        \/ WorkOn(t) \/ StoreResult(t) \/ SaveRegister(t)
  BY DEF cpu_clk
<1>2. CASE Poll(t) \/ GetCommand(t) \/ LoadWord(t)
  BY <1>2 DEF Poll, GetCommand, LoadWord
<1>3. CASE SendWord(t) \/ StoreWord(t) \/ StoreResult(t) \/ SaveRegister(t)
  BY <1>3 DEF SendWord, StoreWord, StoreResult, SaveRegister
<1>4. CASE ObeyCommand(t) \/ WorkOn(t)
  BY <1>4 DEF ObeyCommand, WorkOn
<1> QED
  BY <1>1, <1>2, <1>3, <1>4

LEMMA ProcessorTime ==
  ASSUME CfgInv, TimeInv, cpu_clk
  PROVE  /\ timestamp' \in Int /\ timestamp' >= timestamp
         /\ storeBuffer' \in Seq(Stores)
         /\ CacheTimes(icache') /\ CacheTimes(dcache')
<1>1. getDelay(icache, Code[insn.op]) \in Nat /\ timestamp \in Int
  BY DelayTyped DEF TimeInv
<1> DEFINE t == timestamp + 1 + getDelay(icache, Code[insn.op])
<1>2. t \in Int /\ t >= timestamp /\ t + BPU_FAIL_LATENCY \in Int
      /\ t + BPU_FAIL_LATENCY >= timestamp
  BY <1>1 DEF BPU_FAIL_LATENCY
<1>3. CacheTimes(icache')
  BY TimesKept DEF TimeInv, cpu_clk
<1>4. \/ \E pa : getLoadDelay(t, pa)
      \/ \E pa : getStoreDelay(t, pa)
      \/ NoAccess(t) \/ NoAccess(t + BPU_FAIL_LATENCY)
  BY ProcessorStep
<1> HIDE DEF t
<1>5. ASSUME NEW pa, getLoadDelay(t, pa)
      PROVE  /\ timestamp' \in Int /\ timestamp' >= timestamp
             /\ storeBuffer' \in Seq(Stores) /\ CacheTimes(dcache')
  <2>1. timestamp' \in Int /\ timestamp' >= t /\ storeBuffer' = <<>> /\ CacheTimes(dcache')
    BY <1>2, <1>5, LoadTime
  <2> QED
    BY <1>1, <1>2, <2>1
<1>6. ASSUME NEW pa, getStoreDelay(t, pa)
      PROVE  /\ timestamp' \in Int /\ timestamp' >= timestamp
             /\ storeBuffer' \in Seq(Stores) /\ CacheTimes(dcache')
  <2>1. /\ timestamp' \in Int /\ timestamp' >= t
        /\ storeBuffer' \in Seq(Stores) /\ CacheTimes(dcache')
    BY <1>2, <1>6, StoreTime
  <2> QED
    BY <1>1, <1>2, <2>1
<1>7. ASSUME NoAccess(t) \/ NoAccess(t + BPU_FAIL_LATENCY)
      PROVE  /\ timestamp' \in Int /\ timestamp' >= timestamp
             /\ storeBuffer' \in Seq(Stores) /\ CacheTimes(dcache')
  BY <1>2, <1>7 DEF NoAccess, TimeInv
<1>8. /\ timestamp' \in Int /\ timestamp' >= timestamp
      /\ storeBuffer' \in Seq(Stores) /\ CacheTimes(dcache')
  BY <1>4, <1>5, <1>6, <1>7
<1> QED
  BY <1>3, <1>8

LEMMA TimeInit == Init => TimeInv
<1> SUFFICES ASSUME Init  PROVE TimeInv
  OBVIOUS
<1>1. CacheTimes(icache) /\ dcache = icache
  BY DEF Init, NewCache, Geometry, CacheTimes
<1>2. timestamp = 0 /\ storeBuffer = <<>> /\ phase = "new"
  BY DEF Init
<1> QED
  BY <1>1, <1>2 DEF TimeInv

LEMMA TimeNext == CfgInv /\ TimeInv /\ [Next]_vars => TimeInv'
<1> SUFFICES ASSUME CfgInv, TimeInv, [Next]_vars  PROVE TimeInv'
  OBVIOUS
<1>1. CASE cpu_clk
  <2>1. HasDCache' <=> HasDCache
    BY <1>1 DEF cpu_clk, run_vars, HasDCache
  <2>2. phase' = IF HasDCache THEN "terminal" ELSE "store_buffer"
    BY <1>1 DEF cpu_clk, NextPhase
  <2> QED
    BY <1>1, <2>1, <2>2, ProcessorTime DEF TimeInv
<1>2. CASE stoerBufferClk
  <2> DEFINE ended == storeBuffer # <<>> /\ Head(storeBuffer).end <= timestamp
  <2>1. ended => Head(storeBuffer) \in Stores /\ Tail(storeBuffer) \in Seq(Stores)
    BY DEF TimeInv
  <2>2. ended => Head(storeBuffer).end + STORE_BUFFER_LATENCY \in Int
    BY <2>1 DEF Stores, STORE_BUFFER_LATENCY
  <2>3. IF ended
        THEN /\ storeBuffer' = Tail(storeBuffer)
             /\ timestamp' = Head(storeBuffer).end + STORE_BUFFER_LATENCY
        ELSE UNCHANGED <<storeBuffer, timestamp>>
    BY <1>2 DEF stoerBufferClk
  <2>4. timestamp' \in Int /\ storeBuffer' \in Seq(Stores)
    <3> HIDE DEF ended
    <3> QED
      BY <2>1, <2>2, <2>3 DEF TimeInv
  <2> QED
    BY <1>2, <2>4 DEF stoerBufferClk, TimeInv, run_vars, HasDCache
<1>3. CASE TermClk
  <2>1. phase' \in {"measured", "aborted", "cpu"}
    BY <1>3 DEF TermClk
  <2> QED
    BY <1>3, <2>1 DEF TermClk, TimeInv, run_vars, HasDCache
<1>4. CASE StartTest
  <2>1. sweep \in Sweeps /\ cfg \in 1 .. Len(sweep.configs)
    BY TriedTyped DEF CfgInv
  <2>2. \A p \in {sweep.configs[cfg].d, sweep.configs[cfg].i} : 2 ^ p[3] \in Nat
    BY <2>1, SimulatorAssumption
  <2>3. CacheTimes(icache') /\ CacheTimes(dcache')
    BY <1>4, <2>2, GeometryTimes DEF StartTest, NewCaches, TimeInv
  <2> QED
    BY <1>4, <2>3 DEF StartTest, cpu_rst, TimeInv, run_vars, HasDCache
<1>5. CASE EndTest
  <2>1. phase' \in {"new", "finished"}
    BY <1>5 DEF EndTest, NextTest, NextConfig, NextConfigWith
  <2> QED
    BY <1>5, <2>1 DEF EndTest, TimeInv, HasDCache
<1>6. CASE UNCHANGED vars
  BY <1>6 DEF vars, memory_vars, run_vars, TimeInv, HasDCache
<1> QED
  BY <1>1, <1>2, <1>3, <1>4, <1>5, <1>6 DEF Next, Loop, Exit

(* A load waits for every store that is under way, not only for the oldest *)
(* or the youngest (they do not end in order), however many there are and  *)
(* whatever the caches take for them.                                      *)
THEOREM LoadsWait == Spec => LoadWaitsForStores
<1>1. ASSUME CfgInv, TimeInv, [Next]_vars
      PROVE  [phase = "cpu" /\ (\E a \in access' : ~a.store) =>
                /\ storeBuffer' = <<>>
                /\ \A k \in 1 .. Len(storeBuffer) : timestamp' >= storeBuffer[k].end]_vars
  <2> SUFFICES ASSUME phase = "cpu", \E a \in access' : ~a.store, ~ UNCHANGED vars
               PROVE  /\ storeBuffer' = <<>>
                      /\ \A k \in 1 .. Len(storeBuffer) :
                           timestamp' >= storeBuffer[k].end
    OBVIOUS
  <2>1. cpu_clk
    BY <1>1 DEF Next, Loop, Exit, stoerBufferClk, TermClk, StartTest, EndTest
  <2> DEFINE t == timestamp + 1 + getDelay(icache, Code[insn.op])
  <2>2. t \in Int
    BY <1>1, DelayTyped DEF TimeInv
  <2>3. \/ \E pa : getLoadDelay(t, pa)
        \/ \E pa : getStoreDelay(t, pa)
        \/ NoAccess(t) \/ NoAccess(t + BPU_FAIL_LATENCY)
    BY <2>1, ProcessorStep
  <2> HIDE DEF t
  <2>4. ASSUME NEW pa, getStoreDelay(t, pa)  PROVE FALSE
    <3>1. access' = {[line |-> Line(dcache.g, pa), store |-> TRUE]}
      BY <2>4 DEF getStoreDelay, DCacheAccess
    <3> QED
      BY <3>1
  <2>5. PICK pa : getLoadDelay(t, pa)
    BY <2>3, <2>4 DEF NoAccess
  <2> QED
    BY <1>1, <2>2, <2>5, LoadTime
<1> QED
  BY <1>1, CfgInit, CfgNext, TimeInit, TimeNext, PTL DEF Spec, LoadWaitsForStores

(* The clock never goes back in a test that has a data cache, since the    *)
(* buffer of stores is not clocked there.                                  *)
THEOREM TimeGoesForward == Spec => ClockForward
<1>1. ASSUME CfgInv, TimeInv, [Next]_vars
      PROVE  [HasDCache /\ phase # "new" => timestamp' >= timestamp]_vars
  <2> SUFFICES ASSUME HasDCache, phase # "new", ~ UNCHANGED vars
               PROVE  timestamp' >= timestamp
    OBVIOUS
  <2>1. timestamp \in Int /\ phase # "store_buffer"
    BY <1>1 DEF TimeInv
  <2>2. CASE cpu_clk
    BY <1>1, <2>2, ProcessorTime
  <2>3. CASE TermClk \/ EndTest
    BY <2>1, <2>3 DEF TermClk, EndTest
  <2>4. cpu_clk \/ TermClk \/ EndTest
    BY <1>1, <2>1 DEF Next, Loop, Exit, stoerBufferClk, StartTest
  <2> QED
    BY <2>2, <2>3, <2>4
<1> QED
  BY <1>1, CfgInit, CfgNext, TimeInit, TimeNext, PTL DEF Spec, ClockForward

-----------------------------------------------------------------------------
(* The terminal and the monitor. Of what the monitor has to do, only the   *)
(* lengths of its answers matter, since the terminal tells them apart by   *)
(* nothing else: in each state of the protocol the words received, those   *)
(* on their way and those the program has still to send are as many as the *)
(* terminal waits for.                                                     *)

Running == phase \in {"cpu", "store_buffer", "terminal"}

\* Words that have been sent since the last answer was taken.
Sent == Len(recvbuf) + Len(que_rx)

Quiet == {"work", "result", "save"}

\* The end of a run of the test program: one word, the mark, is to be sent.
Ending(d) == /\ Len(d) > 0
             /\ d[Len(d)].op = "send"
             /\ \A i \in 1 .. Len(d) - 1 : d[i].op \in Quiet

Booting == /\ que_tx = <<>>
           /\ \A i \in 1 .. Len(todo) : todo[i].op = "send"
           /\ Sent + Len(todo) = Len(BootMesg)
           /\ expectedLen = Len(BootMesg)

\* The test program is written, word by word, and read back.
Writing == /\ que_tx # <<>>
           /\ que_tx[Len(que_tx)] = ReadProgram
           /\ \A i \in 1 .. Len(que_tx) - 1 : que_tx[i].cmd = "A"
           /\ Sent = 0
           /\ \/ todo = <<>>
              \/ todo = <<ObeyStep>> /\ got.cmd = "A"
              \/ Len(todo) = 1 /\ todo[1].op = "sw"

ToldToRead == /\ que_tx = <<>> /\ Sent = 0
              /\ todo = <<ObeyStep>> /\ got = ReadProgram

ReadingBack == /\ que_tx = <<>>
               /\ \A i \in 1 .. Len(todo) : todo[i].op \in {"lw", "send"}
               /\ Sent + Len(todo) = Len(TestBin)

\* The test program is started, runs and ends.
ToldToRun == /\ Sent = 0
             /\ \/ que_tx = <<RunProgram>> /\ todo = <<>>
                \/ que_tx = <<>> /\ todo = <<ObeyStep>> /\ got = RunProgram

Starting == /\ que_tx = <<>> /\ Sent = 0
            /\ todo # <<>> /\ todo[1].op = "send" /\ Ending(Tail(todo))

Runs(sent) == /\ que_tx = <<>>
              /\ \/ Sent = sent /\ Ending(todo)
                 \/ Sent = sent + 1 /\ todo = <<>>

Dialogue ==
  /\ state \in {"WaitBoot", "RunD", "RunG", "WaitG"}
  /\ Len(recvbuf) < expectedLen
  /\ state = "WaitBoot" => Booting
  /\ state = "RunD" => expectedLen = Len(TestBin) /\ (Writing \/ ToldToRead \/ ReadingBack)
  /\ state = "RunG" => expectedLen = 1 /\ (ToldToRun \/ Starting \/ Runs(1))
  /\ state = "WaitG" => expectedLen = 1 /\ Runs(0)

\* Stores under way were made in this test.
Fresh == \A k \in 1 .. Len(storeBuffer) : storeBuffer[k].test = <<cfg, testcase>>

ProtocolInv ==
  /\ que_rx \in Seq(Words) /\ recvbuf \in Seq(Words)
  /\ phase \in {"new", "cpu", "store_buffer", "terminal", "measured", "finished", "aborted"}
  /\ Running => Dialogue
  /\ phase \in {"new", "measured", "finished"} =>
       /\ que_tx = <<>> /\ que_rx = <<>> /\ recvbuf = <<>>
       /\ state \in {"WaitBoot", "Done"}
  /\ phase = "aborted" => state \in {"Verify", "Aborted"}

\* A test's first instruction polls the UART, which empties the buffer.
FreshInv == Running /\ (state # "WaitBoot" \/ polled \/ Len(todo) < Len(BootMesg)) => Fresh

\* Two facts about sequences.
LEMMA LengthZero ==
  ASSUME NEW S, NEW q \in Seq(S), Len(q) = 0
  PROVE  q = <<>>
OBVIOUS

LEMMA Concatenation ==
  ASSUME NEW S, NEW p \in Seq(S), NEW q \in Seq(S)
  PROVE  /\ p \o q \in Seq(S) /\ Len(p \o q) = Len(p) + Len(q)
         /\ \A i \in 1 .. Len(p) : (p \o q)[i] = p[i]
         /\ \A i \in 1 .. Len(q) : (p \o q)[Len(p) + i] = q[i]
<1>1. Len(p) \in Nat /\ Len(q) \in Nat
  OBVIOUS
<1>2. p \o q \in Seq(S) /\ Len(p \o q) = Len(p) + Len(q)
  OBVIOUS
<1>3. \A i \in 1 .. Len(p) : (p \o q)[i] = p[i]
  BY <1>1
<1>4. \A i \in 1 .. Len(q) : (p \o q)[Len(p) + i] = q[i]
  BY <1>1
<1> QED
  BY <1>2, <1>3, <1>4

\* What the program does next, by the number of steps it has ahead.
LEMMA InsnShape ==
  ASSUME ProgramInv
  PROVE  /\ Len(todo) \in Nat
         /\ todo = <<>> => insn.op = "get" /\ Rest = <<>>
         /\ todo # <<>> => /\ Len(todo) > 0
                           /\ insn = todo[1] /\ insn.op # "get"
                           /\ Rest = Tail(todo) /\ Len(Rest) = Len(todo) - 1
                           /\ \A i \in 1 .. Len(Rest) : Rest[i] = todo[i + 1]
         /\ insn.op = "obey" => todo = <<ObeyStep>>
<1>1. CASE todo = <<>>
  BY <1>1 DEF insn, Rest, Get
<1>2. CASE todo # <<>> /\ todo \in Seq(Steps)
  <2>1. /\ Len(todo) \in Nat /\ Len(todo) > 0
        /\ Head(todo) = todo[1] /\ todo[1] \in Steps
        /\ Len(Tail(todo)) = Len(todo) - 1
        /\ \A i \in 1 .. Len(Tail(todo)) : Tail(todo)[i] = todo[i + 1]
    BY <1>2
  <2>2. todo[1].op \notin {"get", "obey"}
    BY <2>1 DEF Steps, Send
  <2> QED
    BY <1>2, <2>1, <2>2 DEF insn, Rest
<1>3. CASE todo = <<ObeyStep>>
  BY <1>3 DEF insn, Rest, ObeyStep
<1> QED
  BY <1>1, <1>2, <1>3 DEF ProgramInv

LEMMA EndingShape ==
  ASSUME NEW S, NEW d \in Seq(S), Ending(d)
  PROVE  /\ d # <<>> /\ d[1].op \in Quiet \union {"send"}
         /\ d[1].op = "send" => Tail(d) = <<>>
         /\ d[1].op \in Quiet => Ending(Tail(d))
<1>1. /\ Len(d) \in Nat /\ Len(d) > 0 /\ d # <<>>
      /\ Tail(d) \in Seq(S) /\ Len(Tail(d)) = Len(d) - 1
      /\ \A i \in 1 .. Len(Tail(d)) : Tail(d)[i] = d[i + 1]
  BY DEF Ending
<1>2. CASE Len(d) = 1
  <2>1. d[1].op = "send"
    BY <1>2 DEF Ending
  <2>2. Tail(d) = <<>>
    <3>1. Tail(d) \in Seq(S) /\ Len(Tail(d)) = 0
      BY <1>1, <1>2
    <3> QED
      BY <3>1, LengthZero
  <2> QED
    BY <1>1, <2>1, <2>2 DEF Quiet
<1>3. CASE Len(d) > 1
  <2>1. d[1].op \in Quiet
    BY <1>1, <1>3 DEF Ending
  <2>2. Tail(d)[Len(Tail(d))] = d[Len(d)]
    BY <1>1, <1>3
  <2>3. \A i \in 1 .. Len(Tail(d)) - 1 : Tail(d)[i].op \in Quiet
    BY <1>1, <1>3 DEF Ending
  <2>4. Ending(Tail(d))
    BY <1>1, <1>3, <2>2, <2>3 DEF Ending
  <2> QED
    BY <1>1, <2>1, <2>4 DEF Quiet
<1> QED
  BY <1>1, <1>2, <1>3

\* The steps ahead are a sequence, and what follows the first one is too.
LEMMA TodoSeq ==
  ASSUME ProgramInv
  PROVE  todo \in Seq(Steps \union {ObeyStep})
<1>1. <<ObeyStep>> \in Seq(Steps \union {ObeyStep})
  OBVIOUS
<1>2. ASSUME todo \in Seq(Steps)  PROVE todo \in Seq(Steps \union {ObeyStep})
  BY <1>2
<1> QED
  BY <1>1, <1>2 DEF ProgramInv

LEMMA SentTyped ==
  ASSUME ProtocolInv
  PROVE  /\ Len(recvbuf) \in Nat /\ Len(que_rx) \in Nat /\ Sent \in Nat
         /\ Sent = 0 => recvbuf = <<>> /\ que_rx = <<>>
<1>1. Len(recvbuf) \in Nat /\ Len(que_rx) \in Nat
  BY DEF ProtocolInv
<1>2. Len(recvbuf) = 0 => recvbuf = <<>>
  BY DEF ProtocolInv
<1>3. Len(que_rx) = 0 => que_rx = <<>>
  BY DEF ProtocolInv
<1> QED
  BY <1>1, <1>2, <1>3 DEF Sent

\* The step before is one the stage allows.
LEMMA StageSteps ==
  ASSUME ProgramInv
  PROVE  /\ Booting /\ todo # <<>> => insn.op = "send"
         /\ Writing /\ todo # <<>> => insn.op \in {"obey", "sw"}
         /\ ToldToRead => insn.op = "obey"
         /\ ReadingBack /\ todo # <<>> => insn.op \in {"lw", "send"}
         /\ ToldToRun /\ todo # <<>> => insn.op = "obey"
         /\ Starting => insn.op = "send"
         /\ \A k : Runs(k) /\ todo # <<>> => insn.op \in Quiet \union {"send"}
<1>1. todo # <<>> => insn = todo[1] /\ 1 \in 1 .. Len(todo)
  BY InsnShape
<1>2. todo = <<ObeyStep>> => todo # <<>> /\ todo[1].op = "obey"
  BY DEF ObeyStep
<1>3. ASSUME NEW k, Runs(k), todo # <<>>  PROVE insn.op \in Quiet \union {"send"}
  <2>1. Ending(todo)
    BY <1>3 DEF Runs
  <2> QED
    BY <1>1, <1>3, <2>1, TodoSeq, EndingShape
<1> QED
  BY <1>1, <1>2, <1>3 DEF Booting, Writing, ToldToRead, ReadingBack, ToldToRun, Starting

\* How each kind of instruction moves the dialogue on. The terminal is not
\* clocked meanwhile.
LEMMA DialogueSend ==
  ASSUME ProgramInv, ProtocolInv, Dialogue, NEW t, SendWord(t), UNCHANGED term_vars
  PROVE  Dialogue' /\ que_rx' \in Seq(Words)
<1>1. /\ todo # <<>> /\ insn.op = "send" /\ todo' = Rest /\ que_tx' = que_tx
      /\ que_rx' = Append(que_rx, insn.dat)
  BY InsnShape DEF SendWord, uart_write
<1>2. /\ Len(todo) \in Nat /\ Len(todo) > 0 /\ Len(todo') = Len(todo) - 1
      /\ insn = todo[1] /\ todo' = Tail(todo)
      /\ \A i \in 1 .. Len(todo') : todo'[i] = todo[i + 1]
  BY <1>1, InsnShape
<1>3. insn.dat \in Words
  <2>1. todo \in Seq(Steps)
    BY <1>1, <1>2 DEF ProgramInv, ObeyStep
  <2>2. insn \in Steps
    BY <1>1, <1>2, <2>1
  <2> QED
    BY <1>1, <2>2 DEF Steps, Send
<1>4. que_rx' \in Seq(Words) /\ Sent' = Sent + 1 /\ Sent \in Nat
  BY <1>1, <1>3, SentTyped DEF ProtocolInv, term_vars, Sent
<1>5. /\ state' = state /\ expectedLen' = expectedLen /\ recvbuf' = recvbuf
  BY DEF term_vars
<1>6. Booting => Booting'
  BY <1>1, <1>2, <1>4, <1>5, SimulatorAssumption DEF Booting
<1>7. ~Writing /\ ~ToldToRead /\ ~ToldToRun
  BY <1>1, StageSteps
<1>8. ReadingBack => ReadingBack'
  <2> SUFFICES ASSUME ReadingBack  PROVE ReadingBack'
    OBVIOUS
  <2>1. \A i \in 1 .. Len(todo') : todo'[i].op \in {"lw", "send"}
    BY <1>1, <1>2 DEF ReadingBack
  <2>2. Sent' + Len(todo') = Len(TestBin)
    <3>1. Sent + Len(todo) = Len(TestBin)
      BY DEF ReadingBack
    <3>2. Sent' = Sent + 1 /\ Sent \in Nat
      BY <1>4
    <3>3. Len(todo') = Len(todo) - 1 /\ Len(todo) \in Nat
      BY <1>2
    <3> HIDE DEF Sent
    <3> QED
      BY <3>1, <3>2, <3>3
  <2>3. que_tx' = <<>>
    BY <1>1 DEF ReadingBack
  <2> QED
    BY <2>1, <2>2, <2>3 DEF ReadingBack
<1>9. Starting => Runs(1)'
  BY <1>1, <1>2, <1>4 DEF Starting, Runs
<1>10. ASSUME NEW k \in {0, 1}, Runs(k)
       PROVE  que_tx' = <<>> /\ Sent' = k + 1 /\ todo' = <<>>
  <2>1. Ending(todo) /\ Sent = k /\ que_tx = <<>>
    BY <1>1, <1>10 DEF Runs
  <2> QED
    BY <1>1, <1>2, <1>4, <2>1, TodoSeq, EndingShape
<1>11. (Runs(1) => Runs(1)') /\ (Runs(0) => Runs(0)')
  BY <1>10 DEF Runs
<1> QED
  BY <1>4, <1>5, <1>6, <1>7, <1>8, <1>9, <1>11 DEF Dialogue

LEMMA DialogueGet ==
  ASSUME ProgramInv, ProtocolInv, Dialogue, NEW t, GetCommand(t), UNCHANGED term_vars
  PROVE  Dialogue'
<1>1. /\ todo = <<>> /\ todo' = <<ObeyStep>>
      /\ que_tx # <<>> /\ got' = Head(que_tx) /\ que_tx' = Tail(que_tx)
  BY InsnShape DEF GetCommand, uart_read, uart_rx_ready, ObeyStep
<1>2. /\ state' = state /\ expectedLen' = expectedLen /\ recvbuf' = recvbuf
      /\ que_rx' = que_rx /\ Sent' = Sent
  BY DEF GetCommand, term_vars, Sent
<1>3. ~Booting /\ ~ToldToRead /\ ~ReadingBack /\ ~Starting /\ ~Runs(0) /\ ~Runs(1)
  BY <1>1 DEF Booting, ToldToRead, ReadingBack, Starting, Runs
<1>4. ASSUME Writing  PROVE Writing' \/ ToldToRead'
  <2>1. /\ que_tx \in Seq(Commands) /\ que_tx' \in Seq(Commands)
        /\ Len(que_tx) \in Nat /\ Len(que_tx) > 0 /\ Len(que_tx') = Len(que_tx) - 1
        /\ got' = que_tx[1] /\ \A i \in 1 .. Len(que_tx') : que_tx'[i] = que_tx[i + 1]
    BY <1>1 DEF ProgramInv
  <2>2. CASE Len(que_tx) = 1
    <3>1. que_tx' = <<>> /\ got' = ReadProgram
      BY <1>4, <2>1, <2>2 DEF Writing
    <3> QED
      BY <1>1, <1>2, <1>4, <3>1 DEF Writing, ToldToRead
  <2>3. CASE Len(que_tx) > 1
    <3>1. que_tx' # <<>>
      BY <2>1, <2>3
    <3>2. got'.cmd = "A"
      BY <1>4, <2>1, <2>3 DEF Writing
    <3>3. que_tx'[Len(que_tx')] = ReadProgram
      BY <1>4, <2>1, <2>3 DEF Writing
    <3>4. \A i \in 1 .. Len(que_tx') - 1 : que_tx'[i].cmd = "A"
      BY <1>4, <2>1, <2>3 DEF Writing
    <3> QED
      BY <1>1, <1>2, <1>4, <3>1, <3>2, <3>3, <3>4 DEF Writing
  <2> QED
    BY <2>1, <2>2, <2>3
<1>5. ASSUME ToldToRun  PROVE ToldToRun'
  BY <1>1, <1>2, <1>5 DEF ToldToRun
<1> QED
  BY <1>2, <1>3, <1>4, <1>5 DEF Dialogue

LEMMA DialogueObey ==
  ASSUME ProgramInv, ProtocolInv, Dialogue, NEW t, ObeyCommand(t), UNCHANGED term_vars
  PROVE  Dialogue'
<1>1. /\ todo = <<ObeyStep>> /\ todo # <<>> /\ insn.op = "obey" /\ todo' = Obey(got)
      /\ que_tx' = que_tx /\ que_rx' = que_rx /\ got' = got
  BY InsnShape DEF ObeyCommand, port_vars
<1>2. /\ state' = state /\ expectedLen' = expectedLen /\ recvbuf' = recvbuf
      /\ Sent' = Sent
  BY <1>1 DEF term_vars, Sent
<1>3. ~Booting /\ ~ReadingBack /\ ~Starting /\ ~Runs(0) /\ ~Runs(1)
  BY <1>1, StageSteps DEF Quiet
<1>4. ASSUME Writing  PROVE Writing'
  <2>1. got.cmd = "A"
    BY <1>1, <1>4 DEF Writing, ObeyStep
  <2>2. todo' = <<[op |-> "sw", addr |-> got.addr, dat |-> got.dat]>>
    BY <1>1, <2>1 DEF Obey
  <2>3. Len(todo') = 1 /\ todo'[1].op = "sw"
    BY <2>2
  <2> QED
    BY <1>1, <1>2, <1>4, <2>3 DEF Writing
<1>5. ASSUME ToldToRead  PROVE ReadingBack'
  <2> DEFINE N == Len(TestBin)
  <2>1. got.cmd = "D" /\ got.len = N /\ N \in Nat
    BY <1>5, SimulatorAssumption DEF ToldToRead, ReadProgram
  <2>2. todo' = [k \in 1 .. N |-> [op |-> "lw", addr |-> got.addr + 4 * (k - 1)]]
    BY <1>1, <2>1 DEF Obey
  <2> HIDE DEF N
  <2>3. Len(todo') = N /\ \A i \in 1 .. Len(todo') : todo'[i].op = "lw"
    BY <2>1, <2>2
  <2> QED
    BY <1>1, <1>2, <1>5, <2>1, <2>3 DEF ToldToRead, ReadingBack, N
<1>6. ASSUME ToldToRun  PROVE Starting'
  <2>1. got.cmd = "G" /\ que_tx = <<>> /\ Sent = 0
    BY <1>1, <1>6 DEF ToldToRun, RunProgram
  <2> DEFINE work == [k \in 1 .. Work |-> [op |-> "work"]]
             end == <<[op |-> "result"], [op |-> "save"], Send(EndMark)>>
             front == <<Send(StartMark)>> \o work
             all == front \o end
  <2>2. todo' = all
    BY <1>1, <2>1 DEF Obey
  <2>3. /\ Work \in Nat /\ Len(work) = Work
        /\ \A i \in 1 .. Work : work[i].op = "work"
        /\ work \in Seq({[op |-> "work"]})
    BY SimulatorAssumption
  <2>4. /\ Len(end) = 3 /\ end[1].op = "result" /\ end[2].op = "save"
        /\ end[3].op = "send" /\ end \in Seq({end[1], end[2], end[3]})
    BY DEF Send
  <2> DEFINE U == {Send(StartMark), [op |-> "work"], end[1], end[2], end[3]}
  <2>5. work \in Seq(U) /\ end \in Seq(U) /\ <<Send(StartMark)>> \in Seq(U)
    BY <2>3, <2>4
  <2> HIDE DEF work, end, U
  <2>6. /\ all \in Seq(U) /\ Len(all) = Work + 4
        /\ all[1] = Send(StartMark)
        /\ \A i \in 1 .. Work : all[i + 1] = work[i]
        /\ \A i \in 1 .. 3 : all[Work + 1 + i] = end[i]
    <3>1. /\ front \in Seq(U) /\ Len(front) = Work + 1
          /\ front[1] = Send(StartMark)
          /\ \A i \in 1 .. Work : front[i + 1] = work[i]
      BY <2>3, <2>5
    <3> HIDE DEF front
    <3>0. front \in Seq(U) /\ end \in Seq(U)
      BY <2>5, <3>1
    <3>2. /\ all \in Seq(U) /\ Len(all) = Len(front) + Len(end)
          /\ \A i \in 1 .. Len(front) : all[i] = front[i]
          /\ \A i \in 1 .. Len(end) : all[Len(front) + i] = end[i]
      BY <3>0, Concatenation
    <3> HIDE DEF all
    <3>3. Len(front) = Work + 1 /\ Len(end) = 3
      BY <2>4, <3>1
    <3> QED
      BY <2>3, <3>1, <3>2, <3>3
  <2> HIDE DEF all
  <2>7. /\ Len(Tail(all)) = Work + 3 /\ all # <<>>
        /\ \A i \in 1 .. Work + 3 : Tail(all)[i] = all[i + 1]
    BY <2>3, <2>6
  <2>8. Tail(all)[Work + 3].op = "send"
    BY <2>3, <2>4, <2>6, <2>7
  <2>9. ASSUME NEW i \in 1 .. Work + 2  PROVE Tail(all)[i].op \in Quiet
    <3>1. CASE i \in 1 .. Work
      <4>1. Tail(all)[i] = all[i + 1] /\ all[i + 1] = work[i]
        BY <2>3, <2>6, <2>7, <3>1
      <4>2. Tail(all)[i].op = "work"
        BY <2>3, <3>1, <4>1
      <4> QED
        BY <4>2 DEF Quiet
    <3>2. CASE i = Work + 1 \/ i = Work + 2
      <4>1. Tail(all)[i] = end[i - Work]
        <5>1. i + 1 = Work + 1 + (i - Work) /\ i - Work \in 1 .. 3 /\ i \in 1 .. Work + 3
          BY <2>3, <3>2
        <5> QED
          BY <2>6, <2>7, <5>1
      <4>2. i - Work = 1 \/ i - Work = 2
        BY <2>3, <3>2
      <4>3. Tail(all)[i].op \in {end[1].op, end[2].op}
        BY <4>1, <4>2
      <4> QED
        BY <2>4, <4>3 DEF Quiet
    <3>3. i \in 1 .. Work \/ i = Work + 1 \/ i = Work + 2
      BY <2>3
    <3> QED
      BY <3>1, <3>2, <3>3
  <2>10. Ending(Tail(all))
    BY <2>3, <2>7, <2>8, <2>9 DEF Ending
  <2>11. all[1].op = "send"
    BY <2>6 DEF Send
  <2> QED
    BY <1>1, <1>2, <2>1, <2>2, <2>7, <2>10, <2>11 DEF Starting
<1> QED
  BY <1>2, <1>3, <1>4, <1>5, <1>6 DEF Dialogue

\* Instructions that say nothing: stores, loads, and those of the test program.
LEMMA DialogueMemory ==
  ASSUME ProgramInv, ProtocolInv, Dialogue, UNCHANGED port_vars, UNCHANGED term_vars,
         \/ insn.op \in {"sw"} \union Quiet /\ todo' = Rest
         \/ insn.op = "lw" /\ \E w : todo' = <<Send(w)>> \o Rest
  PROVE  Dialogue'
<1>1. /\ que_tx' = que_tx /\ que_rx' = que_rx /\ got' = got /\ Sent' = Sent
      /\ state' = state /\ expectedLen' = expectedLen /\ recvbuf' = recvbuf
  BY DEF port_vars, term_vars, Sent
<1>2. insn.op \in {"sw", "lw", "work", "result", "save"}
  BY DEF Quiet
<1>3. /\ todo # <<>> /\ Len(todo) \in Nat /\ Len(todo) > 0
      /\ Rest = Tail(todo) /\ Len(Rest) = Len(todo) - 1
      /\ insn = todo[1] /\ \A i \in 1 .. Len(Rest) : Rest[i] = todo[i + 1]
  BY <1>2, InsnShape
<1>4. Rest \in Seq(Steps)
  BY <1>2, NextStepTyped
<1>5. ~Booting /\ ~ToldToRead /\ ~ToldToRun /\ ~Starting
  BY <1>2, <1>3, StageSteps
<1>6. ASSUME Writing  PROVE Writing'
  <2>1. insn.op = "sw" /\ todo' = Rest /\ todo # <<ObeyStep>>
    BY <1>2, <1>3, <1>6, StageSteps DEF ObeyStep, Quiet
  <2>2. Len(Rest) = 0
    BY <1>3, <1>6, <2>1 DEF Writing
  <2>3. todo' = <<>>
    BY <1>4, <2>1, <2>2, LengthZero
  <2> QED
    BY <1>1, <1>6, <2>3 DEF Writing
<1>7. ASSUME ReadingBack  PROVE ReadingBack'
  <2>1. insn.op = "lw"
    BY <1>2, <1>3, <1>7, StageSteps
  <2>2. PICK w : todo' = <<Send(w)>> \o Rest
    BY <2>1 DEF Quiet
  <2>3. /\ Len(todo') = Len(todo) /\ todo'[1].op = "send"
        /\ \A i \in 1 .. Len(Rest) : todo'[1 + i] = Rest[i]
    <3> DEFINE S == Steps \union {Send(w)}
               first == <<Send(w)>>
    <3>0. first \in Seq(S) /\ Rest \in Seq(S)
      BY <1>4
    <3>1. Len(first) = 1 /\ first[1] = Send(w)
      OBVIOUS
    <3>2. Send(w).op = "send"
      BY DEF Send
    <3> HIDE DEF S, first
    <3>3. /\ Len(first \o Rest) = 1 + Len(Rest) /\ (first \o Rest)[1] = Send(w)
          /\ \A i \in 1 .. Len(Rest) : (first \o Rest)[1 + i] = Rest[i]
      <4>1. /\ Len(first \o Rest) = Len(first) + Len(Rest)
            /\ \A i \in 1 .. Len(first) : (first \o Rest)[i] = first[i]
            /\ \A i \in 1 .. Len(Rest) : (first \o Rest)[Len(first) + i] = Rest[i]
        BY <3>0, Concatenation
      <4> QED
        BY <3>1, <4>1
    <3>4. todo' = first \o Rest
      BY <2>2 DEF first
    <3>5. Len(todo') = Len(todo)
      <4>1. Len(todo) \in Nat /\ Len(Rest) = Len(todo) - 1
        BY <1>3
      <4> QED
        BY <3>3, <3>4, <4>1
    <3> QED
      BY <3>2, <3>3, <3>4, <3>5
  <2>4. \A i \in 1 .. Len(todo') : todo'[i].op \in {"lw", "send"}
    <3> SUFFICES ASSUME NEW i \in 1 .. Len(todo')  PROVE todo'[i].op \in {"lw", "send"}
      OBVIOUS
    <3>1. CASE i = 1
      BY <2>3, <3>1
    <3>2. CASE i # 1
      <4>1. i - 1 \in 1 .. Len(Rest) /\ 1 + (i - 1) = i /\ (i - 1) + 1 = i /\ i \in 1 .. Len(todo)
        BY <1>3, <2>3, <3>2
      <4>2. todo'[i] = todo[i]
        BY <1>3, <2>3, <4>1
      <4> QED
        BY <1>7, <4>1, <4>2 DEF ReadingBack
    <3> QED
      BY <3>1, <3>2
  <2> QED
    BY <1>1, <1>7, <2>3, <2>4 DEF ReadingBack
<1>8. ASSUME NEW k, Runs(k)  PROVE Ending(todo') /\ Sent = k /\ que_tx = <<>>
  <2>1. Ending(todo) /\ Sent = k /\ que_tx = <<>>
    BY <1>3, <1>8 DEF Runs
  <2>2. insn.op \in Quiet
    BY <1>2, <1>3, <1>8, StageSteps
  <2>3. todo' = Tail(todo)
    BY <1>3, <2>2 DEF Quiet
  <2> QED
    BY <1>3, <2>1, <2>2, <2>3, TodoSeq, EndingShape
<1>9. (Runs(1) => Runs(1)') /\ (Runs(0) => Runs(0)')
  BY <1>1, <1>8 DEF Runs
<1> QED
  BY <1>1, <1>5, <1>6, <1>7, <1>9 DEF Dialogue

LEMMA ProtocolStep ==
  ASSUME ProgramInv, ProtocolInv, cpu_clk
  PROVE  ProtocolInv'
<1>1. PICK t \in {timestamp + 1 + getDelay(icache, Code[insn.op])} :
        \/ Poll(t) \/ SendWord(t) \/ GetCommand(t) \/ ObeyCommand(t)
        \/ StoreWord(t) \/ LoadWord(t)
        \/ WorkOn(t) \/ StoreResult(t) \/ SaveRegister(t)
  BY DEF cpu_clk
<1>2. /\ phase' \in {"terminal", "store_buffer"} /\ UNCHANGED term_vars
      /\ recvbuf' = recvbuf /\ Dialogue
  BY DEF cpu_clk, NextPhase, term_vars, ProtocolInv, Running
<1>3. Dialogue' /\ que_rx' \in Seq(Words)
  <2>1. CASE Poll(t)
    BY <1>2, <2>1 DEF Poll, port_vars, term_vars, ProtocolInv, Dialogue, Booting, Writing,
       ToldToRead, ReadingBack, ToldToRun, Starting, Runs, Sent
  <2>2. CASE SendWord(t)
    BY <1>2, <2>2, DialogueSend
  <2>3. CASE GetCommand(t)
    BY <1>2, <2>3, DialogueGet DEF GetCommand, ProtocolInv
  <2>4. CASE ObeyCommand(t)
    BY <1>2, <2>4, DialogueObey DEF ObeyCommand, ProtocolInv, port_vars
  <2>5. CASE StoreWord(t) \/ WorkOn(t) \/ StoreResult(t) \/ SaveRegister(t)
    <3>1. /\ insn.op \in {"sw"} \union Quiet /\ todo' = Rest
          /\ UNCHANGED port_vars
      BY <2>5 DEF StoreWord, WorkOn, StoreResult, SaveRegister, Quiet
    <3> QED
      BY <1>2, <3>1, DialogueMemory DEF ProtocolInv, port_vars
  <2>6. CASE LoadWord(t)
    <3>1. /\ insn.op = "lw" /\ UNCHANGED port_vars
          /\ todo' = <<Send(mem[insn.addr])>> \o Rest
      BY <2>6 DEF LoadWord
    <3> QED
      BY <1>2, <3>1, DialogueMemory DEF ProtocolInv, port_vars
  <2> QED
    BY <1>1, <2>1, <2>2, <2>3, <2>4, <2>5, <2>6
<1> QED
  BY <1>2, <1>3 DEF ProtocolInv

\* A byte taken is a word less on its way, and one more received.
LEMMA ReceivedShape ==
  ASSUME ProtocolInv, TakeByte
  PROVE  /\ Received \in Seq(Words) /\ que_rx' \in Seq(Words)
         /\ Len(Received) \in Nat /\ Len(que_rx') \in Nat
         /\ Len(Received) + Len(que_rx') = Sent
         /\ Len(Received) <= Len(recvbuf) + 1
         /\ Len(que_rx') = 0 => que_rx' = <<>>
         /\ Len(Received) >= Len(recvbuf)
<1>1. que_rx \in Seq(Words) /\ recvbuf \in Seq(Words) /\ Len(que_rx) \in Nat
  BY DEF ProtocolInv
<1>2. CASE que_rx = <<>>
  BY <1>1, <1>2 DEF Received, TakeByte, uart_host_rx_ready, Sent
<1>3. CASE que_rx # <<>>
  <2>1. Received = Append(recvbuf, Head(que_rx)) /\ que_rx' = Tail(que_rx)
    BY <1>3 DEF Received, TakeByte, uart_host_rx_ready, uart_host_rx
  <2>2. Head(que_rx) \in Words /\ Len(que_rx) > 0
    BY <1>1, <1>3
  <2>3. que_rx' \in Seq(Words) /\ Len(que_rx') = Len(que_rx) - 1
    BY <1>1, <1>3, <2>1
  <2>4. Received \in Seq(Words) /\ Len(Received) = Len(recvbuf) + 1
    BY <1>1, <2>1, <2>2
  <2>5. Len(que_rx') = 0 => que_rx' = <<>>
    BY <2>3, LengthZero
  <2> QED
    BY <1>1, <2>2, <2>3, <2>4, <2>5 DEF Sent
<1> QED
  BY <1>2, <1>3

\* What the terminal sends after the boot message: the program, and a
\* command to read it back.
LEMMA LoadedShape ==
  LET x == Append(WriteProgram, ReadProgram)
  IN /\ x # <<>> /\ x[Len(x)] = ReadProgram
     /\ \A i \in 1 .. Len(x) - 1 : x[i].cmd = "A"
<1> DEFINE N == Len(TestBin)
           x == Append(WriteProgram, ReadProgram)
<1>1. N \in Nat
  BY SimulatorAssumption
<1>2. \A k \in 1 .. N : WriteProgram[k] \in Commands /\ WriteProgram[k].cmd = "A"
  BY DEF WriteProgram, Commands
<1>3. WriteProgram \in Seq(Commands) /\ Len(WriteProgram) = N
  BY <1>1, <1>2 DEF WriteProgram
<1> HIDE DEF N
<1>4. /\ Len(x) = N + 1 /\ x[N + 1] = ReadProgram
      /\ \A i \in 1 .. N : x[i] = WriteProgram[i]
  BY <1>1, <1>3
<1>5. x # <<>>
  BY <1>1, <1>4
<1> HIDE DEF x
<1>6. \A i \in 1 .. Len(x) - 1 : x[i].cmd = "A"
  BY <1>1, <1>2, <1>4
<1> QED
  BY <1>1, <1>4, <1>5, <1>6 DEF x

LEMMA ProtocolTerminal ==
  ASSUME ProgramInv, ProtocolInv, TermClk
  PROVE  ProtocolInv'
<1>1. /\ Dialogue /\ Len(recvbuf) < expectedLen /\ TakeByte
      /\ UNCHANGED <<todo, got>>
  BY DEF TermClk, termtest_clk, ProtocolInv, Running, Dialogue, program_vars
<1>2. /\ Received \in Seq(Words) /\ que_rx' \in Seq(Words)
      /\ Len(Received) \in Nat /\ Len(que_rx') \in Nat
      /\ Len(Received) + Len(que_rx') = Sent
      /\ Len(Received) <= Len(recvbuf) + 1
      /\ Len(que_rx') = 0 => que_rx' = <<>>
  BY <1>1, ReceivedShape
<1>3. /\ Len(BootMesg) \in Nat \ {0} /\ Len(TestBin) \in Nat \ {0}
      /\ Len(todo) \in Nat /\ Len(recvbuf) \in Nat
  BY SimulatorAssumption, InsnShape, SentTyped
<1>4. Len(todo) = 0 => todo = <<>>
  BY TodoSeq, LengthZero
<1>5. <<>> \in Seq(Words) /\ Len(<<>>) = 0
  OBVIOUS
<1>6. CASE Collect
  <2>1. /\ recvbuf' = Received /\ Len(Received) < expectedLen
        /\ UNCHANGED <<que_tx, state, expectedLen>>
    BY <1>6 DEF Collect
  <2>2. Sent' = Sent
    BY <1>2, <2>1 DEF Sent
  <2>3. Dialogue'
    BY <1>1, <2>1, <2>2 DEF Dialogue, Booting, Writing, ToldToRead, ReadingBack,
       ToldToRun, Starting, Runs
  <2>4. phase' = "cpu"
    BY <2>1, <1>1 DEF TermClk, Dialogue
  <2> QED
    BY <1>2, <2>1, <2>3, <2>4 DEF ProtocolInv
<1>7. CASE WaitBoot
  <2>1. /\ state = "WaitBoot" /\ state' = "RunD" /\ Len(Received) >= expectedLen
        /\ recvbuf' = <<>> /\ expectedLen' = Len(TestBin)
        /\ que_tx' = que_tx \o Append(WriteProgram, ReadProgram)
    BY <1>7 DEF WaitBoot, Answer, uart_host_tx
  <2>2. Booting
    BY <1>1, <2>1 DEF Dialogue
  <2>3. Len(que_rx') = 0 /\ Len(todo) = 0
    BY <1>2, <1>3, <2>1, <2>2 DEF Booting
  <2>4. todo' = <<>> /\ Sent' = 0 /\ que_rx' = <<>>
    BY <1>1, <1>2, <1>4, <1>5, <2>1, <2>3 DEF Sent
  <2>5. que_tx' = Append(WriteProgram, ReadProgram)
    <3>1. Append(WriteProgram, ReadProgram) \in Seq(Commands)
      <4>1. \A k \in 1 .. Len(TestBin) : WriteProgram[k] \in Commands
        BY DEF Commands
      <4>2. WriteProgram \in Seq(Commands) /\ ReadProgram \in Commands
        BY <1>3, <4>1 DEF WriteProgram, Commands
      <4> QED
        BY <4>2
    <3>2. que_tx = <<>>
      BY <2>2 DEF Booting
    <3> QED
      BY <2>1, <3>1, <3>2
  <2>6. Writing'
    BY <2>4, <2>5, LoadedShape DEF Writing
  <2>7. phase' = "cpu"
    BY <2>1 DEF TermClk
  <2> QED
    BY <1>2, <1>3, <1>5, <2>1, <2>6, <2>7 DEF ProtocolInv, Dialogue
<1>8. CASE RunD
  <2>1. /\ state = "RunD" /\ state' = "RunG" /\ Len(Received) >= expectedLen
        /\ recvbuf' = <<>> /\ expectedLen' = 1 /\ que_tx' = que_tx \o <<RunProgram>>
    BY <1>8 DEF RunD, Answer, uart_host_tx
  <2>2. expectedLen = Len(TestBin) /\ (Writing \/ ToldToRead \/ ReadingBack)
    BY <1>1, <2>1 DEF Dialogue
  <2>3. Sent # 0
    BY <1>2, <1>3, <2>1, <2>2
  <2>4. ReadingBack
    BY <2>2, <2>3 DEF Writing, ToldToRead
  <2>5. Len(que_rx') = 0 /\ Len(todo) = 0
    BY <1>2, <1>3, <2>1, <2>2, <2>4 DEF ReadingBack
  <2>6. todo' = <<>> /\ Sent' = 0 /\ que_rx' = <<>>
    BY <1>1, <1>2, <1>4, <1>5, <2>1, <2>5 DEF Sent
  <2>7. que_tx' = <<RunProgram>>
    BY <2>1, <2>4 DEF ReadingBack
  <2>8. ToldToRun'
    BY <2>6, <2>7 DEF ToldToRun
  <2>9. phase' = "cpu"
    BY <2>1 DEF TermClk
  <2> QED
    BY <1>2, <1>5, <2>1, <2>8, <2>9 DEF ProtocolInv, Dialogue
<1>9. CASE RunG(timestamp)
  <2>1. /\ state = "RunG" /\ state' = "WaitG" /\ Len(Received) >= expectedLen
        /\ recvbuf' = <<>> /\ expectedLen' = 1 /\ que_tx' = que_tx
    BY <1>9 DEF RunG, Answer
  <2>2. expectedLen = 1 /\ (ToldToRun \/ Starting \/ Runs(1))
    BY <1>1, <2>1 DEF Dialogue
  <2>3. Len(Received) = 1 /\ Sent # 0
    <3>1. Len(recvbuf) = 0
      BY <1>1, <1>3, <2>2
    <3>2. Len(Received) = 1
      <4>1. Len(Received) \in Nat /\ Len(Received) <= 1
        BY <1>2, <3>1
      <4>2. Len(Received) >= 1
        BY <2>1, <2>2
      <4> QED
        BY <4>1, <4>2
    <3> QED
      BY <1>2, <3>2
  <2>4. Runs(1)
    BY <2>2, <2>3 DEF ToldToRun, Starting
  <2>5. Sent' = Sent - 1
    BY <1>2, <1>5, <2>1, <2>3 DEF Sent
  <2>6. Runs(0)'
    BY <1>1, <1>2, <2>1, <2>4, <2>5 DEF Runs
  <2>7. phase' = "cpu"
    BY <2>1 DEF TermClk
  <2> QED
    BY <1>2, <1>5, <2>1, <2>6, <2>7 DEF ProtocolInv, Dialogue
<1>10. CASE WaitG(timestamp, verifyTestData)
  <2>1. /\ state = "WaitG" /\ state' = "Done" /\ Len(Received) >= expectedLen
        /\ recvbuf' = <<>> /\ que_tx' = que_tx
    BY <1>10 DEF WaitG, Answer
  <2>2. expectedLen = 1 /\ Runs(0)
    BY <1>1, <2>1 DEF Dialogue
  <2>3. Len(Received) = 1 /\ Sent # 0
    <3>1. Len(recvbuf) = 0
      BY <1>1, <1>3, <2>2
    <3>2. Len(Received) = 1
      <4>1. Len(Received) \in Nat /\ Len(Received) <= 1
        BY <1>2, <3>1
      <4>2. Len(Received) >= 1
        BY <2>1, <2>2
      <4> QED
        BY <4>1, <4>2
    <3> QED
      BY <1>2, <3>2
  <2>4. Sent = 1 /\ que_tx = <<>>
    BY <2>2, <2>3 DEF Runs
  <2>5. que_rx' = <<>>
    BY <1>2, <2>3, <2>4
  <2>6. phase' = "measured"
    BY <2>1 DEF TermClk
  <2> QED
    BY <1>2, <1>5, <2>1, <2>4, <2>5, <2>6 DEF ProtocolInv, Running
<1>11. CASE Mismatch(timestamp, verifyTestData) \/ Abort
  <2>1. state' \in {"Verify", "Aborted"} /\ recvbuf' = Received
    BY <1>11 DEF Mismatch, Abort
  <2>2. phase' = "aborted"
    BY <2>1 DEF TermClk
  <2> QED
    BY <1>2, <2>1, <2>2 DEF ProtocolInv, Running
<1> QED
  BY <1>6, <1>7, <1>8, <1>9, <1>10, <1>11 DEF TermClk, termtest_clk

LEMMA ProtocolInit == Init => ProtocolInv
<1>1. <<>> \in Seq(Words)
  OBVIOUS
<1> QED
  BY <1>1 DEF Init, ProtocolInv, Running

\* A test starts with the boot message ahead, and nothing left to be said.
LEMMA ProtocolStart ==
  ASSUME ProtocolInv, StartTest
  PROVE  ProtocolInv'
<1>1. /\ que_tx' = <<>> /\ que_rx' = <<>> /\ recvbuf' = <<>>
      /\ phase' = "cpu" /\ todo' = Boot
      /\ state' = "WaitBoot" /\ expectedLen' = Len(BootMesg)
  BY DEF StartTest, ProtocolInv, termtest_init, cpu_rst, port_vars
<1>2. Len(BootMesg) \in Nat \ {0}
  BY SimulatorAssumption
<1>3. Len(Boot) = Len(BootMesg) /\ \A i \in 1 .. Len(Boot) : Boot[i].op = "send"
  BY <1>2 DEF Boot, Send
<1>4. Sent' = 0 /\ Len(<<>>) = 0 /\ <<>> \in Seq(Words)
  BY <1>1 DEF Sent
<1>5. Booting'
  BY <1>1, <1>2, <1>3, <1>4 DEF Booting
<1> QED
  BY <1>1, <1>2, <1>4, <1>5 DEF ProtocolInv, Dialogue

LEMMA ProtocolNext == ProgramInv /\ ProtocolInv /\ [Next]_vars => ProtocolInv'
<1> SUFFICES ASSUME ProgramInv, ProtocolInv, [Next]_vars  PROVE ProtocolInv'
  OBVIOUS
<1>1. CASE cpu_clk
  BY <1>1, ProtocolStep
<1>2. CASE TermClk
  BY <1>2, ProtocolTerminal
<1>3. CASE StartTest
  BY <1>3, ProtocolStart
<1>4. ASSUME UNCHANGED <<port_vars, term_vars, todo>>,
             \/ phase' = phase
             \/ Running /\ Running'
             \/ phase = "measured" /\ phase' \in {"new", "finished"}
      PROVE  ProtocolInv'
  <2>1. Dialogue' <=> Dialogue
    BY <1>4 DEF Dialogue, Booting, Writing, ToldToRead, ReadingBack, ToldToRun, Starting,
       Runs, Sent, port_vars, term_vars
  <2> QED
    BY <1>4, <2>1 DEF ProtocolInv, Running, port_vars, term_vars
<1>5. CASE stoerBufferClk
  BY <1>4, <1>5 DEF stoerBufferClk, program_vars, Running
<1>6. CASE EndTest
  <2>1. phase = "measured" /\ phase' \in {"new", "finished"}
    BY <1>6 DEF EndTest, NextTest, NextConfig, NextConfigWith
  <2> QED
    BY <1>4, <1>6, <2>1 DEF EndTest, program_vars
<1>7. CASE UNCHANGED vars
  BY <1>4, <1>7 DEF vars, program_vars
<1> QED
  BY <1>1, <1>2, <1>3, <1>5, <1>6, <1>7 DEF Next, Loop, Exit

\* Loads empty the buffer, and a store is marked with the test it is made in.
LEMMA FreshStep ==
  ASSUME TimeInv, ProgramInv, ProtocolInv, FreshInv, cpu_clk
  PROVE  Fresh'
<1> DEFINE t == timestamp + 1 + getDelay(icache, Code[insn.op])
<1>1. /\ Dialogue /\ Running /\ cfg' = cfg /\ testcase' = testcase
  BY DEF cpu_clk, ProtocolInv, Running, run_vars
<1>2. /\ Poll(t) \/ SendWord(t) \/ GetCommand(t) \/ ObeyCommand(t)
         \/ StoreWord(t) \/ LoadWord(t)
         \/ WorkOn(t) \/ StoreResult(t) \/ SaveRegister(t)
      /\ \/ \E pa : getLoadDelay(t, pa)
         \/ \E pa : getStoreDelay(t, pa)
         \/ NoAccess(t) \/ NoAccess(t + BPU_FAIL_LATENCY)
  BY ProcessorStep DEF cpu_clk
<1> HIDE DEF t
<1>3. ASSUME NEW pa, getLoadDelay(t, pa)  PROVE Fresh'
  BY <1>3 DEF getLoadDelay, Fresh
<1>4. CASE Fresh
  <2>1. ASSUME NEW pa, getStoreDelay(t, pa)  PROVE Fresh'
    <3> DEFINE full == Len(storeBuffer) >= StoreBufferSize
               rest == IF full THEN Tail(storeBuffer) ELSE storeBuffer
    <3>1. storeBuffer \in Seq(Stores) /\ Len(storeBuffer) \in Nat
      BY DEF TimeInv
    <3>2. full => Len(storeBuffer) > 0
      BY <3>1, SimulatorAssumption
    <3>3. /\ rest \in Seq(Stores) /\ Len(rest) \in Nat
          /\ \A k \in 1 .. Len(rest) : rest[k].test = <<cfg, testcase>>
      <4>1. CASE full
        <5>1. /\ rest = Tail(storeBuffer) /\ rest \in Seq(Stores)
              /\ Len(rest) = Len(storeBuffer) - 1
              /\ \A k \in 1 .. Len(rest) : rest[k] = storeBuffer[k + 1]
          BY <3>1, <3>2, <4>1
        <5> HIDE DEF rest
        <5> QED
          BY <1>4, <3>1, <3>2, <4>1, <5>1 DEF Fresh
      <4>2. CASE ~full
        BY <1>4, <3>1, <4>2 DEF Fresh
      <4> QED
        BY <4>1, <4>2
    <3>4. PICK new : storeBuffer' = Append(rest, new) /\ new.test = <<cfg, testcase>>
      BY <2>1 DEF getStoreDelay
    <3> HIDE DEF rest
    <3>5. /\ Len(storeBuffer') = Len(rest) + 1
          /\ \A k \in 1 .. Len(rest) + 1 :
               storeBuffer'[k] = IF k = Len(rest) + 1 THEN new ELSE rest[k]
      BY <3>3, <3>4
    <3>6. ASSUME NEW k \in 1 .. Len(rest) + 1
          PROVE  storeBuffer'[k].test = <<cfg, testcase>>
      <4>1. k = Len(rest) + 1 \/ k \in 1 .. Len(rest)
        BY <3>3
      <4> QED
        BY <3>3, <3>4, <3>5, <4>1
    <3> QED
      BY <1>1, <3>5, <3>6 DEF Fresh
  <2>2. CASE NoAccess(t) \/ NoAccess(t + BPU_FAIL_LATENCY)
    BY <1>1, <1>4, <2>2 DEF NoAccess, Fresh
  <2> QED
    BY <1>2, <1>3, <2>1, <2>2
<1>5. CASE ~Fresh
  \* The first instruction of a test polls.
  <2>1. state = "WaitBoot" /\ ~polled /\ ~(Len(todo) < Len(BootMesg))
    BY <1>1, <1>5 DEF FreshInv
  <2>2. insn.op = "send"
    <3>1. Booting
      BY <1>1, <2>1 DEF Dialogue
    <3>2. Len(BootMesg) \in Nat \ {0}
      BY SimulatorAssumption
    <3>3. Len(todo) # 0 /\ Len(<<>>) = 0
      BY <2>1, <3>2
    <3> QED
      BY <3>1, <3>3, StageSteps
  <2>3. Poll(t)
    BY <1>2, <2>1, <2>2
       DEF SendWord, GetCommand, ObeyCommand, StoreWord, LoadWord, WorkOn, StoreResult,
           SaveRegister
  <2>4. getLoadDelay(t, SR)
    BY <2>3 DEF Poll
  <2> QED
    BY <1>3, <2>4
<1> QED
  BY <1>4, <1>5

LEMMA FreshNext ==
  TimeInv /\ ProgramInv /\ ProtocolInv /\ FreshInv /\ [Next]_vars => FreshInv'
<1> SUFFICES ASSUME TimeInv, ProgramInv, ProtocolInv, FreshInv, [Next]_vars
             PROVE  FreshInv'
  OBVIOUS
<1>1. CASE cpu_clk
  BY <1>1, FreshStep DEF FreshInv
<1>2. CASE stoerBufferClk
  <2>1. /\ Running /\ UNCHANGED <<state, polled, todo, cfg, testcase>>
    BY <1>2 DEF stoerBufferClk, Running, term_vars, program_vars, run_vars
  <2>2. ASSUME Fresh  PROVE Fresh'
    <3>1. CASE storeBuffer' = storeBuffer
      BY <2>1, <2>2, <3>1 DEF Fresh
    <3>2. CASE storeBuffer # <<>> /\ storeBuffer' = Tail(storeBuffer)
      <4>1. /\ Len(storeBuffer) \in Nat /\ Len(storeBuffer') = Len(storeBuffer) - 1
            /\ \A k \in 1 .. Len(storeBuffer') : storeBuffer'[k] = storeBuffer[k + 1]
        BY <3>2 DEF TimeInv
      <4>2. \A k \in 1 .. Len(storeBuffer') : k + 1 \in 1 .. Len(storeBuffer)
        BY <4>1
      <4> QED
        BY <2>1, <2>2, <4>1, <4>2 DEF Fresh
    <3> QED
      BY <1>2, <3>1, <3>2 DEF stoerBufferClk
  <2> QED
    BY <2>1, <2>2 DEF FreshInv
<1>3. CASE TermClk
  <2>1. /\ Running /\ Dialogue /\ UNCHANGED <<storeBuffer, polled, todo, cfg, testcase>>
    BY <1>3 DEF TermClk, Running, ProtocolInv, program_vars, run_vars
  <2>2. Fresh' <=> Fresh
    BY <2>1 DEF Fresh
  <2>3. CASE state # "WaitBoot" \/ polled \/ Len(todo) < Len(BootMesg)
    BY <2>1, <2>2, <2>3 DEF FreshInv
  <2>4. CASE state = "WaitBoot" /\ ~polled /\ ~(Len(todo) < Len(BootMesg))
    \* Not a word of the boot message has been sent.
    <3>1. Booting /\ expectedLen = Len(BootMesg) /\ Len(todo) \in Nat
      BY <2>1, <2>4, InsnShape DEF Dialogue, Booting
    <3>2. Len(BootMesg) \in Nat \ {0} /\ Sent \in Nat
      BY SimulatorAssumption, SentTyped
    <3>3. Sent = 0
      BY <2>4, <3>1, <3>2 DEF Booting
    <3>4. Len(Received) \in Nat /\ Len(Received) <= Sent
      <4>1. TakeByte
        BY <1>3 DEF TermClk, termtest_clk
      <4>2. /\ Len(Received) \in Nat /\ Len(que_rx') \in Nat
            /\ Len(Received) + Len(que_rx') = Sent
        BY <4>1, ReceivedShape
      <4> QED
        BY <3>2, <4>2
    <3>5. Len(Received) < expectedLen
      BY <3>1, <3>2, <3>3, <3>4
    <3>6. ~(Len(Received) >= expectedLen)
      BY <3>1, <3>2, <3>4, <3>5
    <3>7. state' = state
      BY <1>3, <3>6 DEF TermClk, termtest_clk, Collect, WaitBoot, RunD, RunG, WaitG, Mismatch,
         Abort, Answer
    <3> QED
      BY <2>1, <2>4, <3>7 DEF FreshInv
  <2> QED
    BY <2>3, <2>4
<1>4. CASE StartTest
  <2>1. state' = "WaitBoot" /\ ~polled' /\ todo' = Boot
    BY <1>4 DEF StartTest, termtest_init, cpu_rst
  <2>2. Len(Boot) = Len(BootMesg) /\ Len(BootMesg) \in Nat
    BY SimulatorAssumption DEF Boot
  <2> QED
    BY <2>1, <2>2 DEF FreshInv
<1>5. CASE EndTest
  <2>1. phase' \in {"new", "finished"}
    BY <1>5 DEF EndTest, NextTest, NextConfig, NextConfigWith
  <2> QED
    BY <2>1 DEF FreshInv, Running
<1>6. CASE UNCHANGED vars
  BY <1>6 DEF vars, term_vars, program_vars, memory_vars, run_vars, FreshInv, Running, Fresh
<1> QED
  BY <1>1, <1>2, <1>3, <1>4, <1>5, <1>6 DEF Next, Loop, Exit

LEMMA FreshInit == Init => FreshInv
BY DEF Init, FreshInv, Running

(* Although the store buffer outlives a test and the clock starts anew, no *)
(* store of an earlier test is left once the terminal has the boot message *)
(* and measures: to send it the program has polled, which waits for all.   *)
(* No answer of the monitor is ever too long or too short for this.        *)
THEOREM BufferIsFresh == Spec => []NoStaleStores
<1>1. ProtocolInv /\ FreshInv => NoStaleStores
  BY DEF ProtocolInv, FreshInv, Running, Fresh, NoStaleStores
<1> QED
  BY <1>1, CfgInit, CfgNext, TimeInit, TimeNext, ProgramInit, ProgramNext,
     ProtocolInit, ProtocolNext, FreshInit, FreshNext, PTL DEF Spec

\* What the two sides of the serial port are to each other between tests.
QueuesEmptyBetweenTests ==
  phase \in {"new", "measured", "finished"} => que_tx = <<>> /\ que_rx = <<>>

(* A test leaves no byte behind for the next one, although termtest_init   *)
(* clears neither the queues nor what was received.                        *)
THEOREM NothingIsLeft == Spec => []QueuesEmptyBetweenTests
<1>1. ProtocolInv => QueuesEmptyBetweenTests
  BY DEF ProtocolInv, QueuesEmptyBetweenTests
<1> QED
  BY <1>1, ProgramInit, ProgramNext, ProtocolInit, ProtocolNext, PTL DEF Spec

-----------------------------------------------------------------------------
(* The replacement. What the abstract cache does to a sequence without     *)
(* repetition.                                                             *)

LEMMA TouchOld ==
  ASSUME NEW seq \in Seq(Int), NEW n \in Nat, NEW p \in 1 .. Len(seq),
         \A k \in 1 .. Len(seq) : seq[k] = seq[p] => k = p
  PROVE  /\ Lru!Touch(seq, seq[p], n) \in Seq(Int)
         /\ Len(Lru!Touch(seq, seq[p], n)) = Len(seq)
         /\ \A k \in 1 .. Len(seq) :
              Lru!Touch(seq, seq[p], n)[k] = IF k = Len(seq) THEN seq[p]
                                           ELSE IF k < p THEN seq[k] ELSE seq[k + 1]
<1> DEFINE a == SubSeq(seq, 1, p - 1)
           b == SubSeq(seq, p + 1, Len(seq))
<1>1. Lru!Holds(seq, seq[p])
  BY DEF Lru!Holds
<1>2. (CHOOSE j \in 1 .. Len(seq) : seq[j] = seq[p]) = p
  OBVIOUS
<1>3. Lru!Touch(seq, seq[p], n) = Append(a \o b, seq[p])
  BY <1>1, <1>2 DEF Lru!Touch, Lru!Without
<1>4. /\ a \in Seq(Int) /\ b \in Seq(Int) /\ seq[p] \in Int
      /\ Len(a) = p - 1 /\ Len(b) = Len(seq) - p
      /\ \A k \in 1 .. p - 1 : a[k] = seq[k]
      /\ \A k \in 1 .. Len(seq) - p : b[k] = seq[p + k]
  OBVIOUS
<1> HIDE DEF a, b
<1>5. /\ a \o b \in Seq(Int)
      /\ Len(a \o b) = Len(seq) - 1
      /\ \A k \in 1 .. Len(seq) - 1 :
           (a \o b)[k] = IF k < p THEN seq[k] ELSE seq[k + 1]
  <2>1. /\ a \o b \in Seq(Int)
        /\ Len(a \o b) = Len(a) + Len(b)
        /\ \A k \in 1 .. Len(a) + Len(b) :
             (a \o b)[k] = IF k <= Len(a) THEN a[k] ELSE b[k - Len(a)]
    BY <1>4, ConcatProperties
  <2>2. Len(seq) \in Nat /\ p \in Int /\ Len(a) + Len(b) = Len(seq) - 1
    BY <1>4
  <2>3. ASSUME NEW k \in 1 .. Len(seq) - 1
        PROVE  (a \o b)[k] = IF k < p THEN seq[k] ELSE seq[k + 1]
    <3>1. CASE k < p
      <4>1. k \in 1 .. p - 1 /\ k \in 1 .. Len(a) + Len(b) /\ k <= Len(a)
        BY <1>4, <2>2, <3>1
      <4> QED
        BY <1>4, <2>1, <3>1, <4>1
    <3>2. CASE ~(k < p)
      <4>1. (a \o b)[k] = b[k - (p - 1)]
        <5>1. k \in 1 .. Len(a) + Len(b) /\ ~(k <= Len(a))
          BY <1>4, <2>2, <3>2
        <5> QED
          BY <1>4, <2>1, <5>1
      <4>2. k - (p - 1) \in 1 .. Len(seq) - p /\ p + (k - (p - 1)) = k + 1
        BY <2>2, <3>2
      <4> QED
        BY <1>4, <3>2, <4>1, <4>2
    <3> QED
      BY <3>1, <3>2
  <2> QED
    BY <2>1, <2>2, <2>3
<1> DEFINE c == a \o b
<1>6. /\ c \in Seq(Int) /\ Len(c) = Len(seq) - 1
      /\ \A k \in 1 .. Len(seq) - 1 : c[k] = IF k < p THEN seq[k] ELSE seq[k + 1]
      /\ Lru!Touch(seq, seq[p], n) = Append(c, seq[p])
  BY <1>3, <1>5
<1> HIDE DEF c
<1>7. /\ Append(c, seq[p]) \in Seq(Int)
      /\ Len(Append(c, seq[p])) = Len(seq)
      /\ \A k \in 1 .. Len(seq) - 1 : Append(c, seq[p])[k] = c[k]
      /\ Append(c, seq[p])[Len(seq)] = seq[p]
  <2>1. /\ Append(c, seq[p]) \in Seq(Int)
        /\ Len(Append(c, seq[p])) = Len(c) + 1
        /\ \A k \in 1 .. Len(c) : Append(c, seq[p])[k] = c[k]
        /\ Append(c, seq[p])[Len(c) + 1] = seq[p]
    <3>1. c \in Seq(Int) /\ seq[p] \in Int
      BY <1>4, <1>6
    <3> QED
      BY <3>1, AppendProperties
  <2>2. Len(c) + 1 = Len(seq)
    BY <1>6
  <2> QED
    BY <1>6, <2>1, <2>2
<1> QED
  BY <1>6, <1>7

LEMMA TouchNew ==
  ASSUME NEW seq \in Seq(Int), NEW l \in Int, NEW n \in Nat \ {0},
         Len(seq) <= n, ~Lru!Holds(seq, l)
  PROVE  LET new == Lru!Touch(seq, l, n)
             gone == IF Len(seq) = n THEN 1 ELSE 0
         IN /\ new \in Seq(Int)
            /\ Len(new) = Len(seq) + 1 - gone
            /\ \A k \in 1 .. Len(new) :
                 new[k] = IF k = Len(new) THEN l ELSE seq[k + gone]
<1>1. CASE Len(seq) = n
  BY <1>1 DEF Lru!Touch
<1>2. CASE Len(seq) # n
  BY <1>2 DEF Lru!Touch
<1> QED
  BY <1>1, <1>2

LEMMA LineNumbers ==
  ASSUME NEW N \in Nat \ {0}
  PROVE  /\ \A l \in Int : (l \div N) * N + (l % N) = l
         /\ \A a, b \in Int : a * N = b * N => a = b
<1>1. \A a \in Int : (a * N) \div N = a
  OBVIOUS
<1>2. \A l \in Int : (l \div N) * N + (l % N) = l
  OBVIOUS
<1> QED
  BY <1>1, <1>2

\* The ranks of a set are a permutation of its ways, and those of the valid
\* ways are the highest.
Ranks(c, s) ==
  /\ c.cache_lru[s] \in [Way(c.g) -> Way(c.g)]
  /\ \A i, j \in Way(c.g) : c.cache_lru[s][i] = c.cache_lru[s][j] => i = j
  /\ \A i \in Way(c.g) :
       c.cache_v[s][i] <=> c.cache_lru[s][i] >= Ways(c.g) - Cardinality(Held(c, s))

RanksOk(c) == \A s \in Set(c.g) : Ranks(c, s)

\* Where the line of a valid way is in the order of its set.
PlaceOf(c, s, i) == c.cache_lru[s][i] + 1 - (Ways(c.g) - Cardinality(Held(c, s)))

LEMMA RanksOnto ==
  ASSUME NEW c, Powers(c.g), NEW s, Ranks(c, s)
  PROVE  /\ \A r \in Way(c.g) : \E i \in Way(c.g) : c.cache_lru[s][i] = r
         /\ Cardinality(Held(c, s)) \in 0 .. Ways(c.g)
         /\ IsFiniteSet(Held(c, s))
<1>1. IsFiniteSet(Way(c.g)) /\ Cardinality(Way(c.g)) = Ways(c.g)
  <2> DEFINE W == Ways(c.g)
  <2>1. W \in Nat \ {0} /\ Way(c.g) = 0 .. W - 1
    BY DEF Way, Powers
  <2> HIDE DEF W
  <2>2. 0 \in Int /\ W - 1 \in Int
    BY <2>1
  <2>3. IsFiniteSet(0 .. W - 1) /\ Cardinality(0 .. W - 1) = W
    BY <2>1, <2>2, FS_Interval
  <2> QED
    BY <2>1, <2>3 DEF W
<1>2. c.cache_lru[s] \in Injection(Way(c.g), Way(c.g))
  BY DEF Ranks, Injection, IsInjective
<1>3. c.cache_lru[s] \in Surjection(Way(c.g), Way(c.g))
  BY <1>1, <1>2, FS_Injection
<1>4. Held(c, s) \subseteq Way(c.g)
  BY DEF Held
<1>5. /\ IsFiniteSet(Held(c, s)) /\ Cardinality(Held(c, s)) <= Cardinality(Way(c.g))
      /\ Cardinality(Held(c, s)) \in Nat
  BY <1>1, <1>4, FS_Subset, FS_CardinalityType
<1>6. Cardinality(Held(c, s)) \in 0 .. Ways(c.g)
  BY <1>1, <1>5 DEF Powers
<1> QED
  BY <1>3, <1>5, <1>6 DEF Surjection

\* The order of a set has the line of every valid way in its place, and no other.
LEMMA OrderOfSet ==
  ASSUME NEW c, CacheOk(c), NEW s \in Set(c.g), Ranks(c, s),
         NEW n, n = Cardinality(Held(c, s)), NEW seq, seq = LinesByAge(c, s)
  PROVE  /\ n \in 0 .. Ways(c.g)
         /\ seq \in Seq(Int) /\ Len(seq) = n
         /\ \A i \in Held(c, s) : /\ PlaceOf(c, s, i) \in 1 .. n
                                  /\ seq[PlaceOf(c, s, i)] = LineIn(c, s, i)
         /\ \A k \in 1 .. n : \E i \in Held(c, s) : PlaceOf(c, s, i) = k
<1> DEFINE W == Ways(c.g)
           r(i) == c.cache_lru[s][i]
<1>1. Powers(c.g) /\ W \in Nat \ {0} /\ n \in 0 .. W /\ Sets(c.g) \in Nat \ {0}
  BY RanksOnto DEF CacheOk, Powers
<1>2. /\ \A i \in Way(c.g) : r(i) \in Nat /\ r(i) <= W - 1
      /\ \A i \in Way(c.g) : i \in Held(c, s) <=> r(i) >= W - n
      /\ \A i, j \in Way(c.g) : r(i) = r(j) => i = j
      /\ Held(c, s) \subseteq Way(c.g)
  <2>1. \A i \in Way(c.g) : r(i) \in Way(c.g)
    BY DEF Ranks
  <2>2. \A i \in Way(c.g) : r(i) \in Nat /\ r(i) <= W - 1
    <3> HIDE DEF r
    <3> QED
      BY <1>1, <2>1 DEF Way
  <2> QED
    BY <2>2 DEF Ranks, Held
<1>3. \A i \in Way(c.g) : LineIn(c, s, i) \in Int
  <2>1. s \in Int
    BY <1>1 DEF Set
  <2>2. \A i \in Way(c.g) : c.cache_addr[s][i] \in Int
    BY DEF CacheOk, Arrays
  <2> QED
    BY <1>1, <2>1, <2>2 DEF LineIn
<1>4. ASSUME NEW k \in 1 .. n
      PROVE  \E i \in Held(c, s) : /\ r(i) = W - n + k - 1
                                   /\ PlaceOf(c, s, i) = k
                                   /\ WayOfRank(c, s, W - n + k - 1) = i
  <2> HIDE DEF W
  <2>1. W - n + k - 1 \in Way(c.g) /\ W - n + k - 1 >= W - n
    BY <1>1 DEF Way, W
  <2> DEFINE x == W - n + k - 1
  <2>x. x \in Way(c.g) => \E i \in Way(c.g) : r(i) = x
    <3> HIDE DEF x
    <3> QED
      BY <1>1, RanksOnto
  <2>2. PICK i \in Way(c.g) : r(i) = W - n + k - 1
    BY <2>1, <2>x
  <2>3. i \in Held(c, s)
    BY <1>2, <2>1, <2>2
  <2>4. WayOfRank(c, s, W - n + k - 1) = i
    BY <1>2, <2>2 DEF WayOfRank
  <2>5. PlaceOf(c, s, i) = r(i) + 1 - (W - n)
    BY DEF PlaceOf, W
  <2>6. PlaceOf(c, s, i) = k
    <3> HIDE DEF r
    <3> QED
      BY <1>1, <2>2, <2>5
  <2> QED
    BY <2>2, <2>3, <2>4, <2>6
<1>5. seq = [k \in 1 .. n |-> LineIn(c, s, WayOfRank(c, s, W - n + k - 1))]
  BY DEF LinesByAge
<1> HIDE DEF W, r
<1>6. \A k \in 1 .. n : LineIn(c, s, WayOfRank(c, s, W - n + k - 1)) \in Int
  BY <1>2, <1>3, <1>4
<1>7. seq \in Seq(Int) /\ Len(seq) = n
  BY <1>1, <1>5, <1>6
<1>8. ASSUME NEW i \in Held(c, s)
      PROVE  PlaceOf(c, s, i) \in 1 .. n /\ seq[PlaceOf(c, s, i)] = LineIn(c, s, i)
  <2>1. i \in Way(c.g) /\ r(i) \in Nat /\ r(i) <= W - 1 /\ r(i) >= W - n
    BY <1>2
  <2> DEFINE k == PlaceOf(c, s, i)
  <2>2. k = r(i) + 1 - (W - n)
    BY DEF PlaceOf, W, r
  <2> HIDE DEF k
  <2>3. k \in 1 .. n /\ W - n + k - 1 = r(i)
    BY <1>1, <2>1, <2>2
  <2>4. WayOfRank(c, s, r(i)) = i
    BY <1>2, <2>1 DEF WayOfRank, r
  <2> QED
    BY <1>5, <2>3, <2>4 DEF k
<1> QED
  BY <1>1, <1>4, <1>7, <1>8 DEF W

\* What an access does to the ranks, and to the counters.
LEMMA AccessRanks ==
  ASSUME NEW c, CacheOk(c), c.g.enabled, NEW pa \in Int, NEW store \in BOOLEAN
  PROVE  Access(c, pa, store).cache_lru =
           [c.cache_lru EXCEPT ![entry_idx(c.g, pa)] =
              Ranked(c, entry_idx(c.g, pa), WayFor(c, pa))]
<1>1. c = [g |-> c.g, cache_v |-> c.cache_v, cache_dirty |-> c.cache_dirty,
           cache_lru |-> c.cache_lru, cache_addr |-> c.cache_addr,
           freq_hit |-> c.freq_hit, freq_miss |-> c.freq_miss]
  BY DEF CacheOk
<1> QED
  BY <1>1 DEF Access

LEMMA AccessCounts ==
  ASSUME NEW c, CacheOk(c), c.g.enabled, NEW pa \in Int, NEW store \in BOOLEAN
  PROVE  /\ Access(c, pa, store).freq_hit =
              IF Hit(c, pa) THEN c.freq_hit + 1 ELSE c.freq_hit
         /\ Access(c, pa, store).freq_miss =
              IF Hit(c, pa) THEN c.freq_miss ELSE c.freq_miss + 1
<1>1. c = [g |-> c.g, cache_v |-> c.cache_v, cache_dirty |-> c.cache_dirty,
           cache_lru |-> c.cache_lru, cache_addr |-> c.cache_addr,
           freq_hit |-> c.freq_hit, freq_miss |-> c.freq_miss]
  BY DEF CacheOk
<1> QED
  BY <1>1 DEF Access

\* The way that is used becomes the youngest, those younger than it age.
LEMMA RankedShape ==
  ASSUME NEW c, CacheOk(c), NEW s \in Set(c.g), Ranks(c, s), NEW w \in Way(c.g),
         NEW r, r = Ranked(c, s, w)
  PROVE  /\ r \in [Way(c.g) -> Way(c.g)]
         /\ \A i \in Way(c.g) :
              r[i] = IF i = w THEN Ways(c.g) - 1
                     ELSE IF c.cache_lru[s][i] > c.cache_lru[s][w]
                     THEN c.cache_lru[s][i] - 1 ELSE c.cache_lru[s][i]
         /\ \A i, j \in Way(c.g) : r[i] = r[j] => i = j
<1> DEFINE W == Ways(c.g)
           f == c.cache_lru[s]
<1>1. /\ W \in Nat \ {0} /\ Way(c.g) = 0 .. W - 1
      /\ \A i \in Way(c.g) : f[i] \in 0 .. W - 1
      /\ \A i, j \in Way(c.g) : f[i] = f[j] => i = j
  BY DEF CacheOk, Powers, Way, Ranks
<1>2. r = [i \in Way(c.g) |-> IF i = w THEN W - 1
                              ELSE IF f[i] > f[w] THEN (f[i] - 1) % W ELSE f[i]]
  BY DEF Ranked
<1> HIDE DEF W, f
<1>3. \A x \in 0 .. W - 1 : x % W = x
  BY <1>1
<1>4. ASSUME NEW i \in Way(c.g)
      PROVE  /\ r[i] = IF i = w THEN W - 1 ELSE IF f[i] > f[w] THEN f[i] - 1 ELSE f[i]
             /\ r[i] \in 0 .. W - 1
  <2>1. f[i] \in 0 .. W - 1 /\ f[w] \in 0 .. W - 1
    BY <1>1
  <2>2. f[i] > f[w] => (f[i] - 1) % W = f[i] - 1
    <3>1. f[i] > f[w] => f[i] - 1 \in 0 .. W - 1
      BY <1>1, <2>1
    <3> QED
      BY <1>3, <3>1
  <2>3. r[i] = IF i = w THEN W - 1 ELSE IF f[i] > f[w] THEN f[i] - 1 ELSE f[i]
    BY <1>2, <2>2
  <2> QED
    BY <1>1, <2>1, <2>3
<1>5. r \in [Way(c.g) -> Way(c.g)]
  <2>1. DOMAIN r = Way(c.g) /\ r = [i \in Way(c.g) |-> r[i]]
    BY <1>2
  <2> QED
    BY <1>1, <1>4, <2>1
<1>6. ASSUME NEW i \in Way(c.g), NEW j \in Way(c.g), r[i] = r[j]
      PROVE  i = j
  <2>1. /\ f[i] \in Int /\ f[j] \in Int /\ f[w] \in Int /\ W \in Int
        /\ f[i] <= W - 1 /\ f[j] <= W - 1
        /\ f[i] = f[j] => i = j
        /\ f[i] = f[w] => i = w
        /\ f[j] = f[w] => j = w
    BY <1>1
  <2>2. /\ r[i] = IF i = w THEN W - 1 ELSE IF f[i] > f[w] THEN f[i] - 1 ELSE f[i]
        /\ r[j] = IF j = w THEN W - 1 ELSE IF f[j] > f[w] THEN f[j] - 1 ELSE f[j]
    BY <1>4
  <2>3. f[w] <= W - 1
    BY <1>1
  <2> DEFINE a == f[i]
             b == f[j]
             e == f[w]
  <2>4. /\ a \in Int /\ b \in Int /\ e \in Int /\ W \in Int
        /\ a <= W - 1 /\ b <= W - 1 /\ e <= W - 1
        /\ a = b => i = j
        /\ a = e => i = w
        /\ b = e => j = w
        /\ r[i] = IF i = w THEN W - 1 ELSE IF a > e THEN a - 1 ELSE a
        /\ r[j] = IF j = w THEN W - 1 ELSE IF b > e THEN b - 1 ELSE b
    BY <2>1, <2>2, <2>3
  <2> HIDE DEF a, b, e
  <2>5. CASE i = w
    <3>1. ASSUME j # w  PROVE r[j] < W - 1
      BY <2>4, <3>1
    <3>2. r[i] = W - 1 /\ ~(W - 1 < W - 1)
      BY <2>4, <2>5
    <3> QED
      BY <1>6, <2>5, <3>1, <3>2
  <2>6. CASE j = w
    <3>1. ASSUME i # w  PROVE r[i] < W - 1
      BY <2>4, <3>1
    <3>2. r[j] = W - 1 /\ ~(W - 1 < W - 1)
      BY <2>4, <2>6
    <3> QED
      BY <1>6, <2>6, <3>1, <3>2
  <2>7. CASE i # w /\ j # w
    <3>1. a # e /\ b # e
      BY <2>4, <2>7
    <3>2. (IF a > e THEN a - 1 ELSE a) = (IF b > e THEN b - 1 ELSE b)
      BY <1>6, <2>4, <2>7
    <3>3. a = b
      BY <2>4, <3>1, <3>2
    <3> QED
      BY <2>4, <3>3
  <2> QED
    BY <2>5, <2>6, <2>7
<1> QED
  BY <1>4, <1>5, <1>6 DEF W, f

\* The way that an access takes.
LEMMA WayTaken ==
  ASSUME NEW c, CacheOk(c), RanksOk(c), NEW pa \in Int,
         NEW s, s = entry_idx(c.g, pa), NEW w, w = WayFor(c, pa)
  PROVE  /\ s \in Set(c.g) /\ w \in Way(c.g)
         /\ Hit(c, pa) => c.cache_v[s][w] /\ c.cache_addr[s][w] = maddr(c.g, pa)
         /\ ~Hit(c, pa) => c.cache_lru[s][w] = 0
         /\ \A i \in Held(c, s) : c.cache_addr[s][i] = maddr(c.g, pa) => Hit(c, pa) /\ i = w
<1>1. s \in Set(c.g) /\ Powers(c.g) /\ Ranks(c, s)
  BY LineArithmetic DEF CacheOk, RanksOk
<1>2. CASE Hit(c, pa)
  BY <1>1, <1>2, UniqueMatch DEF match, Held
<1>3. CASE ~Hit(c, pa)
  <2>1. match(c, s, maddr(c.g, pa)) = {}
    BY <1>3 DEF Hit
  <2>2. 0 \in Way(c.g)
    BY <1>1 DEF Way, Powers
  <2>3. PICK i \in Way(c.g) : c.cache_lru[s][i] = 0
    BY <1>1, <2>2, RanksOnto
  <2>4. free(c, s) = {i}
    BY <1>1, <2>3 DEF free, Ranks
  <2>5. i \in Int
    BY <1>1 DEF Way, Powers
  <2>6. Max({i}) = i
    BY <2>5 DEF Max
  <2>7. w = i
    BY <2>1, <2>4, <2>6 DEF WayFor
  <2> QED
    BY <1>1, <1>3, <2>1, <2>3, <2>7 DEF match, Held
<1> QED
  BY <1>2, <1>3

\* The line of an address is in the order exactly if the access hits.
LEMMA HoldsIsHit ==
  ASSUME NEW c, CacheOk(c), RanksOk(c), NEW pa \in Int,
         NEW s, s = entry_idx(c.g, pa), NEW l, l = Line(c.g, pa),
         NEW w, w = WayFor(c, pa), NEW seq, seq = LinesByAge(c, s)
  PROVE  /\ l \in Int /\ s \in Set(c.g)
         /\ Lru!Holds(seq, l) <=> Hit(c, pa)
         /\ \A i \in Way(c.g) : LineIn(c, s, i) = l <=> c.cache_addr[s][i] = maddr(c.g, pa)
         /\ Hit(c, pa) => /\ seq[PlaceOf(c, s, w)] = l
                          /\ \A k \in 1 .. Len(seq) : seq[k] = l => k = PlaceOf(c, s, w)
<1> DEFINE m == maddr(c.g, pa)
           N == Sets(c.g)
<1>1. /\ s \in Set(c.g) /\ Powers(c.g) /\ Ranks(c, s) /\ l \in Int /\ m \in Int
      /\ N \in Nat \ {0}
  BY LineArithmetic DEF CacheOk, RanksOk, Powers
<1>2. m * N + s = l
  BY <1>1, LineNumbers DEF maddr, entry_idx
<1>3. ASSUME NEW i \in Way(c.g)
      PROVE  LineIn(c, s, i) = l <=> c.cache_addr[s][i] = m
  <2> DEFINE a == c.cache_addr[s][i]
  <2>1. a \in Int /\ s \in Int /\ LineIn(c, s, i) = a * N + s
    BY <1>1 DEF CacheOk, Arrays, LineIn, Set, Powers
  <2> HIDE DEF a, m, N
  <2>2. a * N \in Int /\ m * N \in Int
    BY <1>1, <2>1
  <2>3. a * N + s = m * N + s => a * N = m * N
    <3> DEFINE x == a * N
               y == m * N
    <3>1. x \in Int /\ y \in Int
      BY <2>2
    <3> HIDE DEF x, y
    <3>2. x + s = y + s => x = y
      BY <2>1, <3>1
    <3> QED
      BY <3>2 DEF x, y
  <2>4. a * N = m * N => a = m
    BY <1>1, <2>1, LineNumbers
  <2> QED
    BY <1>2, <2>1, <2>3, <2>4 DEF a
<1> HIDE DEF m, N
<1>4. /\ Len(seq) = Cardinality(Held(c, s))
      /\ \A i \in Held(c, s) : /\ PlaceOf(c, s, i) \in 1 .. Len(seq)
                               /\ seq[PlaceOf(c, s, i)] = LineIn(c, s, i)
      /\ \A k \in 1 .. Len(seq) : \E i \in Held(c, s) : PlaceOf(c, s, i) = k
      /\ Held(c, s) \subseteq Way(c.g)
  <2> DEFINE n == Cardinality(Held(c, s))
  <2>1. /\ Len(seq) = n
        /\ \A i \in Held(c, s) : /\ PlaceOf(c, s, i) \in 1 .. n
                                 /\ seq[PlaceOf(c, s, i)] = LineIn(c, s, i)
        /\ \A k \in 1 .. n : \E i \in Held(c, s) : PlaceOf(c, s, i) = k
    BY <1>1, OrderOfSet
  <2>2. Held(c, s) \subseteq Way(c.g)
    BY DEF Held
  <2> HIDE DEF n
  <2>3. n = Cardinality(Held(c, s))
    BY DEF n
  <2> QED
    BY <2>1, <2>2, <2>3
<1>5. ASSUME NEW k \in 1 .. Len(seq), seq[k] = l
      PROVE  Hit(c, pa) /\ k = PlaceOf(c, s, w)
  <2>1. PICK i \in Held(c, s) : PlaceOf(c, s, i) = k
    BY <1>4
  <2>2. c.cache_addr[s][i] = m
    BY <1>3, <1>4, <1>5, <2>1
  <2> QED
    BY <2>1, <2>2, WayTaken DEF m
<1>6. ASSUME Hit(c, pa)
      PROVE  PlaceOf(c, s, w) \in 1 .. Len(seq) /\ seq[PlaceOf(c, s, w)] = l
  <2>1. w \in Held(c, s) /\ c.cache_addr[s][w] = m
    BY <1>6, WayTaken DEF Held, m
  <2> QED
    BY <1>3, <1>4, <2>1
<1> QED
  BY <1>1, <1>3, <1>5, <1>6 DEF Lru!Holds, m

\* The ranks after an access.
LEMMA TouchedRanks ==
  ASSUME NEW c, CacheOk(c), RanksOk(c), c.g.enabled, NEW pa \in Int,
         NEW store \in BOOLEAN, NEW d, d = Access(c, pa, store),
         NEW s, s = entry_idx(c.g, pa), NEW w, w = WayFor(c, pa),
         NEW n, n = Cardinality(Held(c, s)), NEW p, p = Cardinality(Held(d, s))
  PROVE  /\ Ranks(d, s)
         /\ \A i \in Way(c.g) :
              d.cache_lru[s][i] = IF i = w THEN Ways(c.g) - 1
                                  ELSE IF c.cache_lru[s][i] > c.cache_lru[s][w]
                                  THEN c.cache_lru[s][i] - 1 ELSE c.cache_lru[s][i]
         /\ Held(d, s) = Held(c, s) \union {w}
         /\ p = IF w \in Held(c, s) THEN n ELSE n + 1
         /\ w \in Held(c, s) <=> c.cache_lru[s][w] >= Ways(c.g) - n
<1> DEFINE W == Ways(c.g)
           S == Way(c.g)
           f(i) == c.cache_lru[s][i]
           r(i) == d.cache_lru[s][i]
<1>1. /\ s \in Set(c.g) /\ Powers(c.g) /\ W \in Nat \ {0} /\ Ranks(c, s) /\ w \in S
  BY WayTaken DEF CacheOk, Powers, RanksOk
<1>2. /\ d.g = c.g
      /\ \A i \in S : IF i = w THEN d.cache_v[s][i] /\ d.cache_addr[s][i] = maddr(c.g, pa)
                      ELSE /\ d.cache_v[s][i] <=> c.cache_v[s][i]
                           /\ d.cache_addr[s][i] = c.cache_addr[s][i]
  BY <1>1, AccessEffect
<1>3. d.cache_lru[s] = Ranked(c, s, w)
  <2>1. d.cache_lru = [c.cache_lru EXCEPT ![s] = Ranked(c, s, w)]
    BY AccessRanks
  <2>2. c.cache_lru \in Arrays(c, Int)
    BY DEF CacheOk
  <2> QED
    BY <1>1, <2>1, <2>2 DEF Arrays
<1>4. /\ d.cache_lru[s] \in [S -> S]
      /\ \A i \in S : r(i) = IF i = w THEN W - 1 ELSE IF f(i) > f(w) THEN f(i) - 1 ELSE f(i)
      /\ \A i, j \in S : r(i) = r(j) => i = j
  BY <1>1, <1>3, RankedShape
<1>5. /\ \A i \in S : f(i) \in Nat /\ f(i) <= W - 1
      /\ \A i, j \in S : f(i) = f(j) => i = j
  <2>1. \A i \in S : f(i) \in S
    BY <1>1 DEF Ranks
  <2>2. \A i \in S : f(i) \in Nat /\ f(i) <= W - 1
    <3> HIDE DEF f
    <3> QED
      BY <1>1, <2>1 DEF Way
  <2> QED
    BY <1>1, <2>2 DEF Ranks
<1>6. n \in 0 .. W /\ IsFiniteSet(Held(c, s))
  BY <1>1, RanksOnto
<1>7. /\ Held(d, s) = Held(c, s) \union {w}
      /\ p = IF w \in Held(c, s) THEN n ELSE n + 1
  <2>1. Held(d, s) = Held(c, s) \union {w}
    BY <1>1, <1>2 DEF Held
  <2> QED
    BY <1>6, <2>1, FS_AddElement
<1>8. \A i \in S : i \in Held(c, s) <=> f(i) >= W - n
  BY <1>1 DEF Ranks, Held
<1>9. /\ w \in Held(c, s) \/ f(w) = 0
      /\ w \in Held(c, s) /\ f(w) = 0 => n = W
  <2>1. w \in Held(c, s) \/ f(w) = 0
    BY <1>1, WayTaken DEF Held
  <2>2. w \in Held(c, s) => f(w) >= W - n
    BY <1>1, <1>8
  <2> QED
    BY <1>1, <1>6, <2>1, <2>2
<1>10. ASSUME NEW i \in S  PROVE i \in Held(d, s) <=> r(i) >= W - p
  <2> DEFINE a == f(i)
             b == f(w)
             x == r(i)
  <2>1. /\ a \in Nat /\ a <= W - 1 /\ b \in Nat /\ b <= W - 1
        /\ a = b => i = w
        /\ x = IF i = w THEN W - 1 ELSE IF a > b THEN a - 1 ELSE a
        /\ i \in Held(c, s) <=> a >= W - n
        /\ w \in Held(c, s) <=> b >= W - n
        /\ w \in Held(c, s) \/ b = 0
        /\ p = IF w \in Held(c, s) THEN n ELSE n + 1
        /\ i \in Held(d, s) <=> i \in Held(c, s) \/ i = w
    BY <1>1, <1>4, <1>5, <1>7, <1>8, <1>9
  <2> HIDE DEF a, b, x, W, S
  <2>2. CASE i = w
    BY <1>1, <1>6, <2>1, <2>2 DEF x
  <2>3. CASE i # w /\ w \in Held(c, s)
    <3>1. (a >= W - n) <=> (x >= W - n)
      BY <1>1, <1>6, <2>1, <2>3
    <3> QED
      BY <2>1, <2>3, <3>1 DEF x
  <2>4. CASE i # w /\ w \notin Held(c, s)
    <3>1. b = 0 /\ a > b /\ x = a - 1 /\ p = n + 1
      BY <2>1, <2>4
    <3>2. (a >= W - n) <=> (x >= W - p)
      BY <1>1, <1>6, <2>1, <3>1
    <3> QED
      BY <2>1, <2>4, <3>2 DEF x
  <2> QED
    BY <2>2, <2>3, <2>4
<1>11. Ranks(d, s)
  <2>1. \A i \in Way(d.g) : d.cache_v[s][i] <=> d.cache_lru[s][i] >= Ways(d.g) - p
    BY <1>2, <1>10 DEF Held
  <2> QED
    BY <1>2, <1>4, <2>1 DEF Ranks
<1> QED
  BY <1>1, <1>4, <1>7, <1>8, <1>11

\* The lines after an access.
LEMMA LinesAfter ==
  ASSUME NEW c, CacheOk(c), c.g.enabled, NEW pa \in Int,
         NEW store \in BOOLEAN, NEW d, d = Access(c, pa, store),
         NEW s, s = entry_idx(c.g, pa), NEW w, w = WayFor(c, pa)
  PROVE  \A i \in Way(c.g) :
           LineIn(d, s, i) = IF i = w THEN Line(c.g, pa) ELSE LineIn(c, s, i)
<1>1. s \in Set(c.g) /\ Powers(c.g) /\ Line(c.g, pa) \in Int
  BY LineArithmetic DEF CacheOk
<1>2. /\ d.g = c.g
      /\ \A i \in Way(c.g) :
           IF i = w THEN d.cache_addr[s][i] = maddr(c.g, pa)
           ELSE d.cache_addr[s][i] = c.cache_addr[s][i]
  BY <1>1, AccessEffect
<1>3. Sets(c.g) \in Nat \ {0}
  BY <1>1 DEF Powers
<1>4. Line(c.g, pa) = maddr(c.g, pa) * Sets(c.g) + s
  BY <1>1, <1>3, LineNumbers DEF maddr, entry_idx
<1> QED
  BY <1>2, <1>4 DEF LineIn

\* The order after a use is that of the abstract cache.
LEMMA TouchedOrder ==
  ASSUME NEW c, CacheOk(c), RanksOk(c), c.g.enabled, NEW pa \in Int,
         NEW store \in BOOLEAN, NEW d, d = Access(c, pa, store),
         NEW s, s = entry_idx(c.g, pa), NEW l, l = Line(c.g, pa)
  PROVE  LinesByAge(d, s) = Lru!Touch(LinesByAge(c, s), l, Ways(c.g))
<1> DEFINE W == Ways(c.g)
           S == Way(c.g)
           w == WayFor(c, pa)
           H == Held(c, s)
           n == Cardinality(H)
           p == Cardinality(Held(d, s))
           seq == LinesByAge(c, s)
           out == LinesByAge(d, s)
           new == Lru!Touch(seq, l, W)
           old(i) == PlaceOf(c, s, i)
           place(i) == PlaceOf(d, s, i)
           q == old(w)
           gone == IF n = W THEN 1 ELSE 0
<1>1. /\ s \in Set(c.g) /\ Powers(c.g) /\ W \in Nat \ {0} /\ Ranks(c, s) /\ w \in S
      /\ l \in Int /\ CacheOk(d) /\ d.g = c.g /\ H \subseteq S
  <2>1. CacheOk(d) /\ d.g = c.g
    BY AccessKeeps
  <2>2. l \in Int
    BY HoldsIsHit
  <2> QED
    BY <2>1, <2>2, WayTaken DEF CacheOk, Powers, RanksOk, Held
<1>2. /\ Ranks(d, s)
      /\ \A i \in S :
           d.cache_lru[s][i] = IF i = w THEN W - 1
                               ELSE IF c.cache_lru[s][i] > c.cache_lru[s][w]
                               THEN c.cache_lru[s][i] - 1 ELSE c.cache_lru[s][i]
      /\ Held(d, s) = H \union {w}
      /\ p = IF w \in H THEN n ELSE n + 1
      /\ w \in H <=> c.cache_lru[s][w] >= W - n
  BY TouchedRanks
<1>3. /\ n \in 0 .. W /\ seq \in Seq(Int) /\ Len(seq) = n
      /\ \A i \in H : old(i) \in 1 .. n /\ seq[old(i)] = LineIn(c, s, i)
  BY <1>1, OrderOfSet
<1>4. /\ p \in 0 .. W /\ out \in Seq(Int) /\ Len(out) = p
      /\ \A i \in Held(d, s) : place(i) \in 1 .. p /\ out[place(i)] = LineIn(d, s, i)
      /\ \A k \in 1 .. p : \E i \in Held(d, s) : place(i) = k
  <2>1. s \in Set(d.g) /\ Ways(d.g) = W /\ CacheOk(d) /\ Ranks(d, s)
    BY <1>1, <1>2
  <2> HIDE DEF W, p, out, place
  <2>2. /\ p \in 0 .. Ways(d.g) /\ out \in Seq(Int) /\ Len(out) = p
        /\ \A i \in Held(d, s) : /\ PlaceOf(d, s, i) \in 1 .. p
                                 /\ out[PlaceOf(d, s, i)] = LineIn(d, s, i)
        /\ \A k \in 1 .. p : \E i \in Held(d, s) : PlaceOf(d, s, i) = k
    BY <2>1, OrderOfSet DEF p, out
  <2> QED
    BY <2>1, <2>2 DEF place
<1>5. \A i \in S : LineIn(d, s, i) = IF i = w THEN l ELSE LineIn(c, s, i)
  BY LinesAfter
<1>6. /\ Lru!Holds(seq, l) <=> Hit(c, pa)
      /\ Hit(c, pa) => w \in H
      /\ Hit(c, pa) => seq[q] = l /\ \A k \in 1 .. Len(seq) : seq[k] = l => k = q
      /\ ~Hit(c, pa) => c.cache_lru[s][w] = 0
  <2>1. /\ Hit(c, pa) => w \in H
        /\ ~Hit(c, pa) => c.cache_lru[s][w] = 0
    BY WayTaken DEF Held
  <2>2. /\ Lru!Holds(seq, l) <=> Hit(c, pa)
        /\ Hit(c, pa) => seq[q] = l /\ \A k \in 1 .. Len(seq) : seq[k] = l => k = q
    BY HoldsIsHit
  <2> QED
    BY <2>1, <2>2
<1>7. /\ \A i \in S : c.cache_lru[s][i] \in Nat /\ c.cache_lru[s][i] <= W - 1
      /\ \A i, j \in S : c.cache_lru[s][i] = c.cache_lru[s][j] => i = j
      /\ \A i \in S : old(i) = c.cache_lru[s][i] + 1 - (W - n)
      /\ \A i \in S : place(i) = d.cache_lru[s][i] + 1 - (W - p)
  <2>1. \A i \in S : c.cache_lru[s][i] \in S
    BY <1>1 DEF Ranks
  <2>2. \A x \in S : x \in Nat /\ x <= W - 1
    BY <1>1 DEF Way
  <2> QED
    BY <1>1, <2>1, <2>2 DEF Ranks, PlaceOf
<1> HIDE DEF W, S, w, H, n, p, seq, out, new, old, place, q
\* Where the way of a line comes from.
<1>8. ASSUME NEW i \in S
      PROVE  /\ i = w => place(i) = p
             /\ i # w /\ Hit(c, pa) =>
                  p = n /\ old(i) # q
                  /\ place(i) = IF old(i) > q THEN old(i) - 1 ELSE old(i)
             /\ i # w /\ ~Hit(c, pa) => place(i) = old(i) - gone
             /\ ~Hit(c, pa) => p = n + 1 - gone
  <2> DEFINE a == c.cache_lru[s][i]
             b == c.cache_lru[s][w]
             r == d.cache_lru[s][i]
             o == old(i)
             v == place(i)
  <2>1. /\ W \in Nat \ {0} /\ n \in 0 .. W
        /\ a \in Nat /\ a <= W - 1 /\ b \in Nat /\ b <= W - 1
        /\ a = b => i = w
        /\ r = IF i = w THEN W - 1 ELSE IF a > b THEN a - 1 ELSE a
        /\ o = a + 1 - (W - n) /\ v = r + 1 - (W - p)
        /\ p = IF w \in H THEN n ELSE n + 1
        /\ w \in H <=> b >= W - n
        /\ Hit(c, pa) => w \in H
        /\ ~Hit(c, pa) => b = 0
    BY <1>1, <1>2, <1>3, <1>6, <1>7
  <2>2. q = b + 1 - (W - n)
    BY <1>1, <1>7 DEF q
  <2> HIDE DEF a, b, r, o, v
  <2>3. i = w => v = p
    BY <2>1
  <2>4. ASSUME i # w, Hit(c, pa)
        PROVE  p = n /\ o # q /\ v = IF o > q THEN o - 1 ELSE o
    BY <2>1, <2>2, <2>4
  <2>5. ASSUME ~Hit(c, pa)
        PROVE  /\ p = n + 1 - gone
               /\ i # w => v = o - gone
    BY <2>1, <2>5
  <2> QED
    BY <2>3, <2>4, <2>5 DEF o, v
<1>9. CASE Hit(c, pa)
  <2>1. q \in 1 .. n
    BY <1>3, <1>6, <1>9 DEF q
  <2>2. /\ new \in Seq(Int) /\ Len(new) = n
        /\ \A k \in 1 .. n : new[k] = IF k = n THEN l
                                       ELSE IF k < q THEN seq[k] ELSE seq[k + 1]
    <3>1. W \in Nat /\ q \in 1 .. Len(seq) /\ seq[q] = l
          /\ \A k \in 1 .. Len(seq) : seq[k] = seq[q] => k = q
      BY <1>1, <1>3, <1>6, <1>9, <2>1
    <3>2. /\ Lru!Touch(seq, seq[q], W) \in Seq(Int)
          /\ Len(Lru!Touch(seq, seq[q], W)) = Len(seq)
          /\ \A k \in 1 .. Len(seq) :
               Lru!Touch(seq, seq[q], W)[k] =
                 IF k = Len(seq) THEN seq[q] ELSE IF k < q THEN seq[k] ELSE seq[k + 1]
      BY <1>3, <3>1, TouchOld
    <3>3. new = Lru!Touch(seq, seq[q], W)
      BY <3>1 DEF new
    <3> QED
      BY <1>3, <3>1, <3>2, <3>3
  <2>3. p = n
    BY <1>2, <1>6, <1>9
  <2>4. ASSUME NEW k \in 1 .. n  PROVE new[k] = out[k]
    <3>1. PICK i \in Held(d, s) : place(i) = k
      BY <1>4, <2>3
    <3>2. i \in S /\ out[k] = LineIn(d, s, i)
      BY <1>1, <1>2, <1>4, <3>1
    <3>3. CASE i = w
      BY <1>5, <1>8, <2>2, <2>3, <3>1, <3>2, <3>3
    <3>4. CASE i # w
      <4>1. /\ i \in H /\ old(i) \in 1 .. n /\ seq[old(i)] = out[k] /\ old(i) # q
            /\ k = IF old(i) > q THEN old(i) - 1 ELSE old(i)
        BY <1>2, <1>3, <1>5, <1>8, <1>9, <3>1, <3>2, <3>4
      <4>2. old(i) > q => k + 1 = old(i) /\ k # n /\ ~(k < q)
        BY <1>3, <2>1, <4>1
      <4>3. ~(old(i) > q) => k = old(i) /\ k < q /\ k # n
        BY <1>3, <2>1, <4>1
      <4> QED
        BY <2>2, <4>1, <4>2, <4>3
    <3> QED
      BY <3>3, <3>4
  <2>5. new = out
    BY <1>4, <2>2, <2>3, <2>4
  <2> QED
    BY <2>5 DEF new, out, seq, W
<1>10. CASE ~Hit(c, pa)
  <2>1. p = n + 1 - gone
    BY <1>1, <1>8, <1>10
  <2>2. /\ new \in Seq(Int) /\ Len(new) = p
        /\ \A k \in 1 .. p : new[k] = IF k = p THEN l ELSE seq[k + gone]
    <3>1. /\ W \in Nat \ {0} /\ Len(seq) <= W /\ ~Lru!Holds(seq, l)
          /\ seq \in Seq(Int) /\ l \in Int
      BY <1>1, <1>3, <1>6, <1>10
    <3>2. /\ Lru!Touch(seq, l, W) \in Seq(Int)
          /\ Len(Lru!Touch(seq, l, W)) = Len(seq) + 1 - (IF Len(seq) = W THEN 1 ELSE 0)
          /\ \A k \in 1 .. Len(Lru!Touch(seq, l, W)) :
               Lru!Touch(seq, l, W)[k] =
                 IF k = Len(Lru!Touch(seq, l, W)) THEN l
                 ELSE seq[k + (IF Len(seq) = W THEN 1 ELSE 0)]
      BY <3>1, TouchNew
    <3>3. new = Lru!Touch(seq, l, W) /\ gone = IF Len(seq) = W THEN 1 ELSE 0
      BY <1>3 DEF new
    <3> QED
      BY <1>3, <2>1, <3>2, <3>3
  <2>3. ASSUME NEW k \in 1 .. p  PROVE new[k] = out[k]
    <3>1. PICK i \in Held(d, s) : place(i) = k
      BY <1>4
    <3>2. i \in S /\ out[k] = LineIn(d, s, i)
      BY <1>1, <1>2, <1>4, <3>1
    <3>3. CASE i = w
      BY <1>5, <1>8, <2>2, <3>1, <3>2, <3>3
    <3>4. CASE i # w
      <4>1. /\ i \in H /\ old(i) \in 1 .. n /\ seq[old(i)] = out[k]
            /\ k = old(i) - gone
        BY <1>2, <1>3, <1>5, <1>8, <1>10, <3>1, <3>2, <3>4
      <4>2. k + gone = old(i) /\ k # p
        BY <1>3, <2>1, <4>1
      <4> QED
        BY <2>2, <4>1, <4>2
    <3> QED
      BY <3>3, <3>4
  <2>4. new = out
    BY <1>4, <2>2, <2>3
  <2> QED
    BY <2>4 DEF new, out, seq, W
<1> QED
  BY <1>9, <1>10

\* The sets that are not accessed.
LEMMA OtherSets ==
  ASSUME NEW c, CacheOk(c), RanksOk(c), c.g.enabled, NEW pa \in Int,
         NEW store \in BOOLEAN, NEW d, d = Access(c, pa, store),
         NEW t \in Set(c.g), t # entry_idx(c.g, pa)
  PROVE  Ranks(d, t) /\ LinesByAge(d, t) = LinesByAge(c, t)
<1> DEFINE s == entry_idx(c.g, pa)
<1>1. /\ d.g = c.g /\ d.cache_v \in Arrays(c, BOOLEAN) /\ d.cache_addr \in Arrays(c, Int)
      /\ \A i \in Way(c.g) : /\ d.cache_v[t][i] <=> c.cache_v[t][i]
                             /\ d.cache_addr[t][i] = c.cache_addr[t][i]
  BY AccessEffect
<1>2. d.cache_lru[t] = c.cache_lru[t]
  <2>1. d.cache_lru = [c.cache_lru EXCEPT ![s] = Ranked(c, s, WayFor(c, pa))]
    BY AccessRanks
  <2>2. c.cache_lru \in Arrays(c, Int)
    BY DEF CacheOk
  <2> QED
    BY <2>1, <2>2 DEF Arrays
<1>3. d.cache_addr[t] = c.cache_addr[t]
  <2>1. c.cache_addr \in Arrays(c, Int)
    BY DEF CacheOk
  <2> QED
    BY <1>1, <2>1 DEF Arrays
<1>4. Held(d, t) = Held(c, t)
  BY <1>1 DEF Held
<1>5. Ranks(c, t)
  BY DEF RanksOk
<1>6. Ranks(d, t)
  BY <1>1, <1>2, <1>4, <1>5 DEF Ranks
<1>7. LinesByAge(d, t) = LinesByAge(c, t)
  BY <1>1, <1>2, <1>3, <1>4 DEF LinesByAge, LineIn, WayOfRank
<1> QED
  BY <1>6, <1>7

\* A new cache holds nothing, and the rank of a way is its number.
LEMMA NewOrder ==
  ASSUME NEW g, NEW heap, NEW c, c = NewCache(g, heap)
  PROVE  /\ c.g = g /\ c.freq_hit = 0 /\ c.freq_miss = 0
         /\ \A s \in Set(g) : LinesByAge(c, s) = <<>>
         /\ Powers(g) => RanksOk(c)
<1>1. /\ c.g = g /\ c.freq_hit = 0 /\ c.freq_miss = 0
      /\ \A s \in Set(g) : \A i \in Way(g) : ~c.cache_v[s][i] /\ c.cache_lru[s][i] = i
      /\ \A s \in Set(g) : c.cache_lru[s] = [i \in Way(g) |-> i]
  BY DEF NewCache
<1>2. \A s \in Set(g) : Held(c, s) = {}
  BY <1>1 DEF Held
<1>3. Cardinality({}) = 0
  BY FS_EmptySet
<1>4. \A s \in Set(g) : LinesByAge(c, s) = <<>>
  BY <1>2, <1>3 DEF LinesByAge
<1>5. ASSUME Powers(g), NEW s \in Set(g)  PROVE Ranks(c, s)
  <2>1. \A i \in Way(g) : ~(i >= Ways(g) - 0)
    BY <1>5 DEF Way, Powers
  <2>2. c.cache_lru[s] \in [Way(g) -> Way(g)]
    BY <1>1, <1>5
  <2>3. \A i \in Way(g) : c.cache_v[s][i] <=> c.cache_lru[s][i] >= Ways(g) - 0
    BY <1>1, <1>5, <2>1
  <2>4. Cardinality(Held(c, s)) = 0
    BY <1>2, <1>3, <1>5
  <2> QED
    BY <1>1, <1>5, <2>2, <2>3, <2>4 DEF Ranks
<1> QED
  BY <1>1, <1>4, <1>5 DEF RanksOk

LruInv == /\ dcache.g \in DCaches
          /\ dcache.g.enabled => RanksOk(dcache)

LEMMA UseStep ==
  ASSUME DirtyInv, LruInv, NEW pa \in Addresses, pa \in Int, NEW store \in BOOLEAN,
         DCacheAccess(pa, store)
  PROVE  LruInv' /\ Lru!Next
<1> DEFINE g == dcache.g
           l == Line(g, pa)
           s == entry_idx(g, pa)
<1>1. /\ dcache' = Access(dcache, pa, store)
      /\ access' = {[line |-> l, store |-> store]}
  BY DEF DCacheAccess
<1>2. CASE ~g.enabled
  <2>1. dcache' = dcache
    BY <1>1, <1>2 DEF Access
  <2> QED
    BY <1>2, <2>1 DEF LruInv, Lru!Next, Lru!Rest
<1>3. CASE g.enabled
  <2>1. CacheOk(dcache) /\ RanksOk(dcache)
    BY <1>3 DEF DirtyInv, LruInv
  <2>2. dcache'.g = g /\ s \in Set(g)
    BY <1>1, <1>3, <2>1, AccessKeeps, LineArithmetic DEF CacheOk
  <2>3. /\ Ranks(dcache', s)
        /\ LinesByAge(dcache', s) = Lru!Touch(LinesByAge(dcache, s), l, Ways(g))
    BY <1>1, <1>3, <2>1, TouchedRanks, TouchedOrder
  <2>4. \A t \in Set(g) : t # s =>
          Ranks(dcache', t) /\ LinesByAge(dcache', t) = LinesByAge(dcache, t)
    BY <1>1, <1>3, <2>1, OtherSets
  <2>5. LruInv'
    BY <2>2, <2>3, <2>4 DEF LruInv, RanksOk
  <2>6. ASSUME NEW m, m = l  PROVE Lru!Use(m)
    <3> DEFINE order == [t \in Set(dcache.g) |-> LinesByAge(dcache, t)]
    <3>1. order' = [order EXCEPT ![s] = Lru!Touch(@, l, Ways(g))]
      <4>1. order' = [t \in Set(g) |-> LinesByAge(dcache', t)]
        BY <2>2
      <4> QED
        BY <2>2, <2>3, <2>4, <4>1
    <3>2. l % <<Ways(g), Sets(g)>>[2] = s
      BY DEF entry_idx
    <3>3. Lru!Holds(order[s], l) <=> Hit(dcache, pa)
      BY <2>1, <2>2, HoldsIsHit
    <3>4. /\ dcache'.freq_hit = IF Hit(dcache, pa) THEN dcache.freq_hit + 1
                                ELSE dcache.freq_hit
          /\ dcache'.freq_miss = IF Hit(dcache, pa) THEN dcache.freq_miss
                                 ELSE dcache.freq_miss + 1
      BY <1>1, <1>3, <2>1, AccessCounts
    <3>5. (IF dcache.g.enabled THEN {a.line : a \in access} ELSE {})' = {l}
      BY <1>1, <1>3, <2>2
    <3> HIDE DEF l, s
    <3> QED
      BY <2>2, <2>6, <3>1, <3>2, <3>3, <3>4, <3>5 DEF Lru!Use
  <2>7. l \in {Line(h, a) : h \in DCaches, a \in Addresses}
    BY DEF LruInv
  <2> HIDE DEF l
  <2>8. Lru!Next
    <3>1. PICK m \in {Line(h, a) : h \in DCaches, a \in Addresses} : m = l
      BY <2>7
    <3>2. Lru!Use(m)
      BY <2>6, <3>1
    <3> QED
      BY <3>1, <3>2 DEF Lru!Next
  <2> QED
    BY <2>5, <2>8
<1> QED
  BY <1>2, <1>3

LEMMA RestStep == LruInv /\ dcache' = dcache /\ access' = {} => LruInv' /\ Lru!Next
BY DEF LruInv, Lru!Next, Lru!Rest

LEMMA NewStep ==
  ASSUME CfgInv, LruInv, NewCaches, access' = {}
  PROVE  LruInv' /\ Lru!Next
<1>1. CASE ~HasDCache
  BY <1>1, RestStep DEF NewCaches
<1>2. CASE HasDCache
  <2> DEFINE p == sweep.configs[cfg].d
             g == Geometry(TRUE, p)
  <2>1. sweep \in Sweeps /\ cfg \in 1 .. Len(sweep.configs)
    BY TriedTyped DEF CfgInv
  <2>2. {2 ^ p[n] : n \in 1 .. 3} \subseteq Nat \ {0}
    BY <2>1, SimulatorAssumption
  <2>3. 2 ^ p[1] \in Nat \ {0} /\ 2 ^ p[2] \in Nat \ {0} /\ 2 ^ p[3] \in Nat \ {0}
    BY <2>2
  <2>4. Powers(g)
    BY <2>3 DEF Powers, Geometry, Ways, Sets
  <2>5. PICK heap : dcache' = NewCache(g, heap)
    BY <1>2 DEF NewCaches
  <2>6. g \in DCaches
    <3>1. sweep.configs[cfg] \in Configs
      BY <2>1 DEF Configs
    <3> QED
      BY <3>1 DEF DCaches
  <2> HIDE DEF g
  <2>7. /\ dcache'.g = g /\ dcache'.freq_hit = 0 /\ dcache'.freq_miss = 0
        /\ \A s \in Set(g) : LinesByAge(dcache', s) = <<>>
        /\ RanksOk(dcache')
    BY <2>4, <2>5, NewOrder
  <2>8. LruInv'
    BY <2>6, <2>7 DEF LruInv
  <2>9. Lru!New
    BY <2>6, <2>7 DEF Lru!New, Lru!IsNew, Set
  <2> QED
    BY <2>8, <2>9 DEF Lru!Next
<1> QED
  BY <1>1, <1>2

LEMMA LruStep ==
  ASSUME ProgramInv, DirtyInv, LruInv, cpu_clk
  PROVE  LruInv' /\ Lru!Next
<1>1. PICK t \in {timestamp + 1 + getDelay(icache, Code[insn.op])} :
        \/ Poll(t) \/ SendWord(t) \/ GetCommand(t) \/ ObeyCommand(t)
        \/ StoreWord(t) \/ LoadWord(t)
        \/ WorkOn(t) \/ StoreResult(t) \/ SaveRegister(t)
  BY DEF cpu_clk
<1>2. /\ SR \in Addresses /\ BR \in Addresses /\ Frame \in Addresses /\ Result \in Addresses
      /\ Data \subseteq Addresses /\ Memory \subseteq Addresses /\ Addresses \subseteq Int
  <2>1. {SR, BR, Frame, Result, Addr} \union Data \subseteq Nat
    BY SimulatorAssumption
  <2>2. Memory \subseteq Int /\ Result \in Memory
    BY MemoryTyped
  <2> QED
    <3>1. \A a \in Addresses : a \in Int
      <4>1. /\ SR \in Int /\ BR \in Int /\ Frame \in Int
            /\ \A a \in Data : a \in Int
        BY <2>1
      <4>2. \A a \in Memory : a \in Int
        BY <2>2
      <4>3. \A a \in Addresses : a \in Data \/ a \in Memory \/ a \in {SR, BR, Frame}
        BY DEF Addresses
      <4> QED
        BY <4>1, <4>2, <4>3
    <3>2. Result \in Addresses
      BY <2>2 DEF Addresses
    <3> QED
      BY <3>1, <3>2 DEF Addresses
<1>3. insn.op \in {"sw", "lw"} => insn.addr \in Addresses
  BY <1>2, NextStepTyped
<1>4. ASSUME NEW pa \in Addresses, getLoadDelay(t, pa) \/ getStoreDelay(t, pa)
      PROVE  LruInv' /\ Lru!Next
  BY <1>2, <1>4, UseStep DEF getLoadDelay, getStoreDelay
<1>5. ASSUME NEW u, NoAccess(u)  PROVE LruInv' /\ Lru!Next
  BY <1>5, RestStep DEF NoAccess
<1>6. CASE Poll(t) \/ SendWord(t) \/ GetCommand(t)
  BY <1>2, <1>4, <1>6 DEF Poll, SendWord, GetCommand
<1>7. CASE ObeyCommand(t)
  BY <1>5, <1>7 DEF ObeyCommand
<1>8. CASE StoreWord(t) \/ LoadWord(t)
  BY <1>3, <1>4, <1>8 DEF StoreWord, LoadWord
<1>9. CASE WorkOn(t)
  BY <1>2, <1>4, <1>5, <1>9 DEF WorkOn
<1>10. CASE StoreResult(t) \/ SaveRegister(t)
  BY <1>2, <1>4, <1>10 DEF StoreResult, SaveRegister
<1> QED
  BY <1>1, <1>6, <1>7, <1>8, <1>9, <1>10

LEMMA LruInit == Init => LruInv /\ Lru!Init
<1> SUFFICES ASSUME Init  PROVE LruInv /\ Lru!Init
  OBVIOUS
<1> DEFINE g == Geometry(FALSE, <<0, 0, 2>>)
<1>1. dcache = NewCache(g, {}) /\ access = {}
  BY DEF Init
<1>2. g \in DCaches /\ ~g.enabled
  BY DEF DCaches, Geometry
<1> HIDE DEF g
<1>3. /\ dcache.g = g /\ dcache.freq_hit = 0 /\ dcache.freq_miss = 0
      /\ \A s \in Set(g) : LinesByAge(dcache, s) = <<>>
  BY <1>1, NewOrder
<1> QED
  BY <1>2, <1>3 DEF LruInv, Lru!Init, Lru!IsNew, Set

LEMMA LruNext ==
  CfgInv /\ ProgramInv /\ DirtyInv /\ LruInv /\ [Next]_vars => LruInv' /\ [Lru!Next]_Lru!vars
<1> SUFFICES ASSUME CfgInv, ProgramInv, DirtyInv, LruInv, [Next]_vars
             PROVE  LruInv' /\ [Lru!Next]_Lru!vars
  OBVIOUS
<1>1. CASE cpu_clk
  BY <1>1, LruStep
<1>2. CASE StartTest
  BY <1>2, NewStep DEF StartTest
<1>3. CASE stoerBufferClk \/ TermClk \/ EndTest
  BY <1>3, RestStep DEF stoerBufferClk, TermClk, EndTest
<1>4. CASE UNCHANGED vars
  <2>1. dcache' = dcache /\ access' = access
    BY <1>4 DEF vars, memory_vars
  <2> QED
    BY <2>1 DEF LruInv, Lru!vars
<1> QED
  BY <1>1, <1>2, <1>3, <1>4 DEF Next, Loop, Exit

(* The data cache replaces the line of a set that was used least recently, *)
(* and counts as hits exactly the uses of lines that are still there, for  *)
(* every geometry and every program: its ranks stay a permutation of the   *)
(* ways with the valid ones on top, in the order of their last use.        *)
THEOREM Replacement == Spec => LruReplacement
<1>1. Init => LruInv /\ Lru!Init
  BY LruInit
<1>2. CfgInv /\ ProgramInv /\ DirtyInv /\ LruInv /\ [Next]_vars
        => LruInv' /\ [Lru!Next]_Lru!vars
  BY LruNext
<1> QED
  BY <1>1, <1>2, CfgInit, CfgNext, ProgramInit, ProgramNext, DirtyInit, DirtyNext, PTL
     DEF Spec, LruReplacement, Lru!Spec
==============================================================================
