----------------------------- MODULE Simulator ------------------------------
(***************************************************************************)
(* The cycle-counting simulator as a whole: the loop of cpu.cc around the  *)
(* clock of the processor and that of the terminal, the store buffer and   *)
(* the caches that account for time, and the sweeps over configurations    *)
(* that look for the fastest one.                                          *)
(*                                                                         *)
(* The program that runs is external: the monitor, written here as the     *)
(* accesses it makes (the UART is polled before each use), and the test    *)
(* program, any Work instructions followed by the store of its result.     *)
(* Instructions that do not access memory take part when time or the order *)
(* of accesses depends on them.                                            *)
(***************************************************************************)
EXTENDS TermTest, SimCache

CONSTANTS
  SR, BR,            \* addresses of the UART registers
  Data,              \* addresses the test program loads and stores
  Result, Expected,  \* where it stores its result, and the right one
  Frame,             \* where the monitor saves a register behind it
  Results,           \* results it may store
  Work,              \* instructions it takes
  Code,              \* for each kind of instruction, where it is
  StoreBufferSize,
  Sweeps,            \* sweeps, each with its kind, its configurations, and
                     \* the number of tests for each; main is one of a kind
  MaxSize,           \* a data cache must be smaller than this
  Heaps,             \* which uninitialised dirty bits of i- and dcache are set
  LongMax,           \* more than any time
  MaxTime            \* bound on the time of a test

\* The configurations optimise_dcache does not skip.
TriedOf(s) == {k \in 1 .. Len(s.configs) :
                 LET p == s.configs[k].d
                 IN s.kind = "optimise_dcache" => 2 ^ p[1] * 2 ^ p[2] * 2 ^ p[3] < MaxSize}

ASSUME SimulatorAssumption ==
  /\ StoreBufferSize \in Nat \ {0}
  /\ \A s \in Sweeps : s.kind = "main" => s.tests = 1 /\ Len(s.configs) = 1
  /\ \A s \in Sweeps : /\ s.tests \in Nat \ {0} /\ Len(s.configs) \in Nat
                       /\ TriedOf(s) # {}
  \* The sizes of a cache are numbers, as powers of two are.
  /\ \A s \in Sweeps : \A k \in 1 .. Len(s.configs) :
       \A p \in {s.configs[k].d, s.configs[k].i} :
         {2 ^ p[n] : n \in 1 .. 3} \subseteq Nat \ {0}
  /\ {SR, BR, Frame, Result, Addr} \union Data \subseteq Nat
  \* There is always something to wait for.
  /\ Len(BootMesg) \in Nat \ {0} /\ Len(TestBin) \in Nat \ {0}
  /\ LongMax \in Nat
  /\ Work \in Nat
  /\ Expected \in Results

VARIABLES
  phase,                  \* where the loop is
  sweep, cfg, testcase,   \* the loops around it
  timesum, minSumTime, tgt,
  timestamp,
  storeBuffer,            \* ends of the stores under way, oldest first
  icache, dcache,
  mem,                    \* the words of memory that are looked at
  todo, polled,           \* the program: accesses ahead, whether it may make the next
  access,                 \* history: data access of the step, as a set
  written,                \* history: lines stored to since dcache took them
  totals                  \* history: for each configuration, its time so far

run_vars == <<sweep, cfg, testcase>>
result_vars == <<timesum, minSumTime, tgt, totals>>
memory_vars == <<storeBuffer, dcache, written, access>>
program_vars == <<mem, todo, polled>>
vars == <<port_vars, term_vars, phase, run_vars, result_vars, timestamp, icache,
          memory_vars, program_vars>>

-----------------------------------------------------------------------------
(* Configurations.                                                         *)

STORE_BUFFER_LATENCY == 1
BPU_FAIL_LATENCY == 1
HANDSHAK_LATENCY == 2
SRAM_FCLK_RATIO == 2

MissTime(P_LINE) == (2 ^ P_LINE \div 4) * SRAM_FCLK_RATIO + HANDSHAK_LATENCY

Geometry(enabled, p) ==
  [enabled |-> enabled, P_WAYS |-> p[1], P_SETS |-> p[2], P_LINE |-> p[3],
   hitLatency |-> 0, missRead |-> MissTime(p[3]), missWrite |-> MissTime(p[3]),
   missWriteRead |-> 2 * MissTime(p[3])]

\* optimise_icache has the data cache disabled.
HasDCache == sweep.kind # "optimise_icache"

Tried == TriedOf(sweep)
After(k) == {n \in Tried : n > k}

-----------------------------------------------------------------------------
(* Time. A step computes its time stamp in stages: t is the time so far.   *)

\* storeBufferPop: wait for the end of the store.
WaitFor(t, nd) == IF nd.end > t THEN nd.end + STORE_BUFFER_LATENCY ELSE t

\* As if only the first store counted.
DrainedFirst(t) ==
  IF storeBuffer = <<>> THEN t ELSE WaitFor(t, Head(storeBuffer))

Drained(t) == FoldLeft(WaitFor, t, storeBuffer)

StillThere(l) == Hit(dcache', l * 2 ^ dcache.g.P_LINE)
DCacheAccess(pa, store) ==
  LET l == Line(dcache.g, pa)
  IN /\ dcache' = Access(dcache, pa, store)
     /\ access' = {[line |-> l, store |-> store]}
     /\ written' = IF dcache.g.enabled
                   THEN {m \in IF store THEN written \union {l} ELSE written : StillThere(m)}
                   ELSE {}

\* As if the UART were not behind the store buffer.
getLoadDelayNotUart(t, pa) ==
  /\ IF pa \in {SR, BR} THEN UNCHANGED storeBuffer ELSE storeBuffer' = <<>>
  /\ timestamp' = (IF pa \in {SR, BR} THEN t ELSE Drained(t)) + getDelay(dcache, pa)
  /\ DCacheAccess(pa, FALSE)

\* getLoadDelay: a load waits for all stores.
getLoadDelay(t, pa) ==
  /\ storeBuffer' = <<>>
  /\ timestamp' = Drained(t) + getDelay(dcache, pa)
  /\ DCacheAccess(pa, FALSE)

\* getStoreDelay: a store waits for the oldest one if the buffer is full.
getStoreDelay(t, pa) ==
  LET full == Len(storeBuffer) >= StoreBufferSize
      begin == IF full THEN WaitFor(t, Head(storeBuffer)) ELSE t
      rest == IF full THEN Tail(storeBuffer) ELSE storeBuffer
  IN /\ storeBuffer' = Append(rest, [end |-> begin + getDelay(dcache, pa),
                                     test |-> <<cfg, testcase>>])
     /\ timestamp' = begin
     /\ DCacheAccess(pa, TRUE)

\* An instruction without access.
NoAccess(t) ==
  /\ timestamp' = t
  /\ access' = {}
  /\ UNCHANGED <<storeBuffer, dcache, written>>

-----------------------------------------------------------------------------
(* The program.                                                            *)

Send(w) == [op |-> "send", dat |-> w]
Get == [op |-> "get"]
Boot == [k \in 1 .. Len(BootMesg) |-> Send(BootMesg[k])]

\* What the monitor does for a command of the terminal.
Obey(c) ==
  CASE c.cmd = "A" -> <<[op |-> "sw", addr |-> c.addr, dat |-> c.dat]>>
    [] c.cmd = "D" -> [k \in 1 .. c.len |-> [op |-> "lw", addr |-> c.addr + 4 * (k - 1)]]
    [] c.cmd = "G" -> <<Send(StartMark)>> \o [k \in 1 .. Work |-> [op |-> "work"]]
                      \o <<[op |-> "result"], [op |-> "save"], Send(EndMark)>>

\* With nothing ahead the monitor waits for a command.
insn == IF todo = <<>> THEN Get ELSE Head(todo)
Rest == IF todo = <<>> THEN <<>> ELSE Tail(todo)

Poll(t) == /\ insn.op \in {"send", "get"} /\ ~polled
           /\ getLoadDelay(t, SR)
           /\ polled' = (insn.op = "send" \/ uart_rx_ready)
           /\ UNCHANGED <<port_vars, mem, todo>>

SendWord(t) == /\ insn.op = "send" /\ polled
               /\ uart_write(insn.dat)
               /\ getStoreDelay(t, BR)
               /\ todo' = Rest
               /\ polled' = FALSE
               /\ UNCHANGED <<que_tx, got, mem>>

GetCommand(t) == /\ insn.op = "get" /\ polled
                 /\ uart_read
                 /\ getLoadDelay(t, BR)
                 /\ todo' = <<[op |-> "obey"]>>
                 /\ polled' = FALSE
                 /\ UNCHANGED <<que_rx, mem>>

ObeyCommand(t) == /\ insn.op = "obey"
                  /\ NoAccess(t)
                  /\ todo' = Obey(got)
                  /\ UNCHANGED <<port_vars, mem, polled>>

StoreWord(t) == /\ insn.op = "sw"
                /\ mem' = [mem EXCEPT ![insn.addr] = insn.dat]
                /\ getStoreDelay(t, insn.addr)
                /\ todo' = Rest
                /\ UNCHANGED <<port_vars, polled>>

LoadWord(t) == /\ insn.op = "lw"
               /\ getLoadDelay(t, insn.addr)
               /\ todo' = <<Send(mem[insn.addr])>> \o Rest
               /\ UNCHANGED <<port_vars, mem, polled>>

WorkOn(t) == /\ insn.op = "work"
             /\ \/ NoAccess(t)
                \/ NoAccess(t + BPU_FAIL_LATENCY)   \* a branch mispredicted
                \/ \E pa \in Data : getLoadDelay(t, pa) \/ getStoreDelay(t, pa)
             /\ todo' = Rest
             /\ UNCHANGED <<port_vars, mem, polled>>

StoreResult(t) == /\ insn.op = "result"
                  /\ mem' \in {[mem EXCEPT ![Result] = r] : r \in Results}
                  /\ getStoreDelay(t, Result)
                  /\ todo' = Rest
                  /\ UNCHANGED <<port_vars, polled>>

SaveRegister(t) == /\ insn.op = "save"
                   /\ getStoreDelay(t, Frame)
                   /\ todo' = Rest
                   /\ UNCHANGED <<port_vars, mem, polled>>

-----------------------------------------------------------------------------
(* The loop.                                                               *)

\* optimise_icache calls stoerBufferClk between the other two.
NextPhaseAlways == "store_buffer"
NextPhase == IF HasDCache THEN "terminal" ELSE "store_buffer"

cpu_clk ==
  /\ phase = "cpu" /\ timestamp < MaxTime
  /\ phase' = NextPhase
  /\ icache' = Access(icache, Code[insn.op], FALSE)
  /\ \E t \in {timestamp + 1 + getDelay(icache, Code[insn.op])} :
       \/ Poll(t) \/ SendWord(t) \/ GetCommand(t) \/ ObeyCommand(t)
       \/ StoreWord(t) \/ LoadWord(t)
       \/ WorkOn(t) \/ StoreResult(t) \/ SaveRegister(t)
  /\ UNCHANGED <<term_vars, run_vars, result_vars>>

\* A store that has ended leaves, and the clock is set by it.
stoerBufferClk ==
  /\ phase = "store_buffer"
  /\ phase' = "terminal"
  /\ IF storeBuffer # <<>> /\ Head(storeBuffer).end <= timestamp
     THEN /\ storeBuffer' = Tail(storeBuffer)
          /\ timestamp' = Head(storeBuffer).end + STORE_BUFFER_LATENCY
     ELSE UNCHANGED <<storeBuffer, timestamp>>
  /\ access' = {}
  /\ UNCHANGED <<port_vars, term_vars, run_vars, result_vars, icache, dcache,
                 written, program_vars>>

\* The result of the test program, as far as it is looked at.
verifyTestData == mem[Result] = Expected

TermClk ==
  /\ phase = "terminal"
  /\ termtest_clk(timestamp, verifyTestData)
  /\ phase' = CASE state' = "Done" -> "measured"
                [] state' \in {"Verify", "Aborted"} -> "aborted"
                [] OTHER -> "cpu"
  /\ access' = {}
  /\ UNCHANGED <<got, run_vars, result_vars, timestamp, icache, storeBuffer,
                 dcache, written, program_vars>>

\* New caches, except that optimise_icache keeps its data cache.
NewCaches ==
  LET c == sweep.configs[cfg]
  IN /\ \E heap \in Heaps :
          /\ icache' = NewCache(Geometry(TRUE, c.i), heap.i)
          /\ IF HasDCache THEN dcache' = NewCache(Geometry(TRUE, c.d), heap.d)
             ELSE UNCHANGED dcache
     /\ written' = {}

\* The processor starts anew, but the store buffer is left as it is.
cpu_rst == /\ timestamp' = 0
           /\ todo' = Boot
           /\ polled' = FALSE
           /\ UNCHANGED storeBuffer

\* The memory is cleared before the monitor and the test data go in.
Memory == {WordAddr(k) : k \in 1 .. Len(TestBin)} \union {Result}
Cleared == [a \in Memory |-> "0"]

StartTest == /\ phase = "new"
             /\ phase' = "cpu"
             /\ NewCaches
             /\ termtest_init
             /\ mem' = Cleared
             /\ cpu_rst
             /\ access' = {}
             /\ UNCHANGED <<port_vars, run_vars, result_vars>>

TestTime == time_elapsed + flush(dcache)

\* The first of several configurations of equal time wins.
Choose(total) ==
  IF minSumTime > total /\ sweep.kind # "main"
  THEN minSumTime' = total /\ tgt' = cfg
  ELSE UNCHANGED <<minSumTime, tgt>>

NextTest == /\ testcase < sweep.tests - 1
            /\ testcase' = testcase + 1
            /\ timesum' = timesum + TestTime
            /\ phase' = "new"
            /\ UNCHANGED <<cfg, minSumTime, tgt>>

NextConfigWith(sum) ==
  /\ testcase = sweep.tests - 1
  /\ Choose(timesum + TestTime)
  /\ IF After(cfg) = {}
     THEN phase' = "finished" /\ UNCHANGED <<cfg, testcase, timesum>>
     ELSE /\ phase' = "new"
          /\ cfg' = Min(After(cfg))
          /\ testcase' = 0
          /\ timesum' = sum

NextConfigKeepsSum == NextConfigWith(timesum + TestTime)
NextConfig == NextConfigWith(0)

EndTest == /\ phase = "measured"
           /\ totals' = [totals EXCEPT ![cfg] = @ + TestTime]
           /\ NextTest \/ NextConfig
           /\ access' = {}
           /\ UNCHANGED <<port_vars, term_vars, sweep, timestamp, icache,
                          storeBuffer, dcache, written, program_vars>>

\* The program has returned from main, or been aborted.
Exit == phase \in {"finished", "aborted"} /\ UNCHANGED vars

Init == /\ sweep \in Sweeps
        /\ cfg = Min(After(0))
        /\ testcase = 0
        /\ phase = "new"
        /\ timesum = 0 /\ minSumTime = LongMax /\ tgt = 0
        /\ totals = [k \in 1 .. Len(sweep.configs) |-> 0]
        /\ timestamp = 0
        /\ storeBuffer = <<>>
        /\ icache = NewCache(Geometry(FALSE, <<0, 0, 2>>), {})
        /\ dcache = icache
        /\ mem = Cleared
        /\ todo = <<>> /\ polled = FALSE
        /\ access = {} /\ written = {}
        /\ que_tx = <<>> /\ que_rx = <<>> /\ got = [cmd |-> "none"]
        /\ state = "WaitBoot" /\ expectedLen = 0 /\ recvbuf = <<>>
        /\ time_start = 0 /\ time_elapsed = 0

Loop == cpu_clk \/ stoerBufferClk \/ TermClk \/ StartTest \/ EndTest

Next == Loop \/ Exit

\* A single thread that runs whenever it can.
Spec == Init /\ [][Next]_vars /\ WF_vars(Loop)

-----------------------------------------------------------------------------
(* The data cache replaces the least recently used line of a set, counts   *)
(* as hits what is still there and as misses what is not (the replacement  *)
(* README.md claims for the hardware), in all its geometries.              *)
Configs == UNION {{s.configs[k] : k \in 1 .. Len(s.configs)} : s \in Sweeps}
DCaches == {Geometry(TRUE, c.d) : c \in Configs} \union {Geometry(FALSE, <<0, 0, 2>>)}
Addresses == Data \union Memory \union {SR, BR, Frame}

\* The lines of a set, the one unused for longest first. The valid ways are
\* those of the highest ranks.
Held(c, s) == {i \in Way(c.g) : c.cache_v[s][i]}
LineIn(c, s, i) == c.cache_addr[s][i] * Sets(c.g) + s
WayOfRank(c, s, r) == CHOOSE i \in Way(c.g) : c.cache_lru[s][i] = r
LinesByAge(c, s) ==
  LET n == Cardinality(Held(c, s))
  IN [k \in 1 .. n |-> LineIn(c, s, WayOfRank(c, s, Ways(c.g) - n + k - 1))]

Lru == INSTANCE LruCache WITH
  Lines <- {Line(g, pa) : g \in DCaches, pa \in Addresses},
  Geometries <- {<<Ways(g), Sets(g)>> : g \in DCaches},
  geometry <- <<Ways(dcache.g), Sets(dcache.g)>>,
  order <- [s \in Set(dcache.g) |-> LinesByAge(dcache, s)],
  used <- IF dcache.g.enabled THEN {a.line : a \in access} ELSE {},
  hits <- dcache.freq_hit,
  misses <- dcache.freq_miss

LruReplacement == Lru!Spec

(* A line that was stored to since it came into the cache has its dirty    *)
(* bit, so its write-back is charged when it is replaced or flushed.       *)
StoredLinesAreDirty ==
  \A l \in written :
    LET pa == l * 2 ^ dcache.g.P_LINE
        s == entry_idx(dcache.g, pa)
    IN \A i \in match(dcache, s, maddr(dcache.g, pa)) : dcache.cache_dirty[s][i]

(* After a load of memory or of the UART no store is under way, and the    *)
(* time of the last one has been waited for.                               *)
LoadWaitsForStores ==
  [][phase = "cpu" /\ (\E a \in access' : ~a.store) =>
       /\ storeBuffer' = <<>>
       /\ \A k \in 1 .. Len(storeBuffer) : timestamp' >= storeBuffer[k].end]_vars

(* Although neither cpu_rst nor termtest_init clears the store buffer, no  *)
(* store of an earlier test is left in it once the terminal has begun to   *)
(* work, so none is waited for in the time that is measured.               *)
NoStaleStores ==
  state \in {"RunD", "RunG", "WaitG"} =>
    \A k \in 1 .. Len(storeBuffer) : storeBuffer[k].test = <<cfg, testcase>>

(* The clock only moves forward during a test of optimise_dcache and of    *)
(* main. (stoerBufferClk, which only optimise_icache calls, sets it back.) *)
ClockForward ==
  [][HasDCache /\ phase # "new" => timestamp' >= timestamp]_vars

\* The configurations whose tests are over.
Measured == {k \in Tried : k < cfg \/ phase = "finished"}

(* The target is at any time the first of the fastest configurations       *)
(* measured so far, and minSumTime its time.                               *)
BestIsLeast ==
  Measured # {} /\ sweep.kind # "main" =>
    /\ tgt \in Measured
    /\ minSumTime = totals[tgt]
    /\ \A k \in Measured : k < tgt => totals[k] > minSumTime
    /\ \A k \in Measured : k > tgt => totals[k] >= minSumTime

\* The comparison at the end of a test has failed on a result that the test
\* program did store: not on the cleared word, nor is it any other assertion.
WrongResult == state = "Verify" /\ mem[Result] \in Results \ {Expected}

(* Every sweep comes to its end: in every test the terminal gets each      *)
(* answer whole and takes it for what it is, none of its assertions on the *)
(* boot message, the readback and the marks fails, and no byte is left     *)
(* over. Only a wrong result of a test program ends it before.             *)
TestEnds == <>(WrongResult \/ (phase = "finished" /\ que_tx = <<>> /\ que_rx = <<>>))
=============================================================================
