# A specification of YAMP-32

YAMP-32 is a five-stage MIPS processor in Verilog
(`src/thinpad_top.srcs/sources_1/new`), designed after a cycle-counting
simulator in C++ (`src/cpp-cpu-model`). This directory holds TLA+ models of the
processor's own logic and of that simulator, what TLC checks about them on small instances, and
proofs that TLAPS checks for every value of the constants.

File names below are relative to those two directories.

## 1. Inventory

| part | state it keeps | operations | hard behaviours |
|---|---|---|---|
| store FIFO (`fifo_fwft_sclk.v`, `xpm_sdpram_bypass.v`) | two pointers, fall-through register, RAM and its output register, bypass register | push, pop, both, reset | wrap-around, reading a word in the cycle it is written |
| BIU (`yamp32_biu.v`) | per RAM: state, pins, burst counter, answers | accept write / read / burst, the cycles of each, reset | fixed priority among three requesters, write strobe, bus direction |
| LSU (`yamp32_lsu.v`) | two store buffers, two load handshakes, UART register toggle | dispatch, push, pop, load, stall | store buffer full, loads behind stores, ready bit against stores on their way |
| instruction cache (`yamp32_icache.v`) | tags and LRU ranks per set, data, lookup registers, fill machine | boot, lookup, hit, miss, fill, reset | memories with a cycle of latency, LRU order, request withdrawn during the burst |
| IFU, IDU (`yamp32_ifu.v`, `yamp32_idu.v`, `yamp32_idec.v`) | program counter, held copies, decoded instruction | fetch, flush, decode | decoding goes on while EXU is stalled |
| EXU, BPU (`yamp32_exu.v`, `yamp32_bpu.v`) | issue registers, two multiplier stages, flush registers | execute, issue, hold, invalidate, predict, flush | delay slots, misprediction against stalls |
| write-back, register file, bypass, controller (`yamp32_wb_mux.v`, `yamp32_regfile.v`, `bypass_net.v`, `yamp32_ctrl.v`) | result register, registers, operand addresses | write, read, forward, stall | one write port for two sources |
| UART (`uart.v`, `async.v`) | two queues with output registers, two serialisers, the start flag | receive, take, send, reset | overrun, a pop one cycle before the start bit, parts without reset |
| simulator (`cpu.cc`) | pc, registers, memory, time stamp | one instruction, one test, a sweep | the reference for what the pipeline must compute; sums and minima over nested loops |
| timing models (`cache.cc`, `bpu.cc`, store buffer of `cpu.cc`) | tags, ranks, dirty bits, queue of stores | account for a load, a store, a branch; flush | ranks, dirty bits never initialised nor cleared, a clock set back, a buffer that survives a reset |
| terminal protocol (`termtest.cc`, `uart.cc`) | protocol state, length awaited, bytes received, two queues | send commands, compare answers, take the time | answers are told apart by their length alone |

How they interact: IFU asks the cache for an instruction in every cycle it is
not stalled; the cache asks BaseRAM's half of the BIU for a burst on a miss and
stalls the pipeline meanwhile. EXU hands loads and stores to the LSU, which
sends each to BaseRAM, ExtRAM or the UART. Stores are buffered and go to the
BIU when it is idle; loads wait until the buffer of their RAM is empty. The
controller turns the stalls of cache and LSU into the stalls of the stages, and
feeds LSU a NOP when only the cache stalls. Stores and loads of the UART's
buffer register push and pop the queues of `uart.v`; the ready bit that the
program polls before it stores also waits for the store buffers.

In the simulator one thread calls `cpu_clk` (one instruction, all its effects and
its time) and `termtest_clk` (at most one byte) in turn; they share the queues of
`uart.cc`, the memory, and the time stamp. `cpu_clk` asks the caches and the
store buffer for the clocks an access takes.

What makes each part correct, in one line each: the FIFO is a queue; a RAM
shows its program an ordered memory; a fetched line is a snapshot of that
memory; the cache returns the word asked for and replaces the line unused for
longest; the pipeline executes what the simulator executes, each access once,
and flushes when the simulator charges a misprediction; the UART delivers every
byte once and in order; the simulator's cache replaces the line unused for longest
too and accounts for every write-back, its sweeps find the fastest
configuration; and nothing waits for ever.

## 2. The modules

One step of a hardware model is one rising edge of the clock with all blocks of the
component moving together, or the asynchronous reset. One step of the simulator is one
call in the loop of a test, or what stands between two tests. Where the code computes a
`_nxt` wire from registers and inputs there is an operator of that name; where
it assigns registers in an `always` block there is a conjunct on primed
variables. Registers keep the code's names, without `_n` for those of negative
sense.

| module | models | uses |
|---|---|---|
| `BoundedQueue` | abstract: a queue of bounded length whose users share a clock | |
| `FwftFifo` | the store FIFO and its RAM | `BoundedQueue` as refined specification |
| `FwftFifoProofs` | the theorems about it | `FwftFifo`, TLAPS |
| `OrderedMemory` | abstract: stores take effect once and in order, a reset forgets those that have not | |
| `Biu` | one RAM's controller and the chip | |
| `LineFill` | the miss machine of the cache | |
| `MemBank` | one RAM as the program sees it: store buffer, load handshake, BIU, fills | `Biu`, `LineFill`; refines `OrderedMemory` |
| `MemorySystem` | BaseRAM and ExtRAM behind one LSU, and the UART ready bit | two instances of `MemBank` |
| `Isa` | abstract: the instruction set, one instruction at a time, from `cpu.cc` | |
| `Pipeline` | IFU to write-back, with the caches and memories as an environment that stalls at will | `Isa` as library and as refined specification |
| `LruCache` | abstract: each set of a cache holds the lines used last, as many as it has ways | |
| `ICache` | tags, LRU, data memory and lookups, with the BIU as an environment that starts a burst at will | `LineFill`; `LruCache` for what a use does to the order its ranks must show |
| `SerialPort` | the two queues of `uart.cc` | |
| `SerialLine` | abstract: `SerialPort` with a clock and a reset | `SerialPort` |
| `Uart` | the UART registers of the LSU, the queues of `uart.v`, the serialisers of `async.v` | refines `SerialLine` |
| `SimCache` | `cache.cc`, as operators on a record | |
| `TermTest` | `termtest.cc`, one action for each state of the protocol | `SerialPort` |
| `Simulator` | the loops of `main`, `optimise_dcache` and `optimise_icache` around processor, store buffer, caches and terminal | `TermTest`, `SimCache`; refines `LruCache` |
| `MemBankProofs`, `MemorySystemProofs`, `ICacheProofs`, `PipelineProofs`, `UartProofs`, `SimulatorProofs` | the theorems about the module of that name | it, TLAPS; `MemorySystemProofs` has two instances of `MemBankProofs` |
| `PipelineRefinement` | that the pipeline implements `Isa` | `PipelineProofs` |

What the abstractions are:

- Words of the FIFO and bytes of the RAM are members of a small set. A RAM has
  `Words` words (2^20 in the code), and addresses are word addresses.
- `MemBank` takes the store buffer to be a sequence. This is what `FwftFifo`
  is shown, and proved, to be.
- The SRAM chip (external) stores the bus on the rising edge of its write
  strobe, byte by byte as enabled. A reset during a write raises the strobe early:
  the write may or may not happen.
- In `Pipeline` an instruction is a record that carries its address, and one
  operation stands for those that differ only in the result they compute
  (ADDU for OR, XOR and AND; SLL for SRL; LW and SW for LB and SB). The product is in the
  pipeline from the start, the register enables say when it may be seen.
- After a reset the processor executes the instruction the cache showed last as if it stood
  in front of the vector. `Starts` of `Isa` therefore has two addresses for the pipeline, and
  the registers may hold anything after a reset, since results on their way to them are
  lost; `cpu_rst` starts at the vector and keeps the registers.
- In `ICache` a word of memory is its address, so that a wrong word is a wrong
  address.
- The bits of a frame are one state of `Uart`'s serialisers, which lasts any number of
  clocks; so oversampling, filtering and the baud rate are out of the model. The vendor
  FIFO (external) is a sequence and an output register.
- `Isa` has the simulator's branch prediction as `penalty`; the pipeline maps it to the
  flush register behind EXU. An offset of 0, on which the two disagree (section 3), is in
  no program of the runs. `bpu.cc` also predicts JR, which the processor does not: only
  in `Simulator`, where the cycle may or may not be charged to an instruction.
- In `Simulator` a queue element is a command or a word, and the program is the monitor
  (external, from what the terminal expects of it) with a test program of `Work` free
  instructions. Its instructions are those that access memory, or whose time
  matters. Values are dropped except for the words the terminal reads back and the
  result it verifies.
- `SimCache` leaves out the counter of write-backs, which is only printed. Dirty bits
  start with anything (`Heaps`), as the constructor does not set them.
- History variables: `pushed` (the word that entered the FIFO last), `issued` (the instruction that just left EXU, which the abstract specification sees as the one it executes), `mem` (RAM as if stores took effect at once), `owed`
  (accesses issued and not served), `order` (tags by last use), `read_way`
  (the way the last word was read from), `sent` and `stored` (bytes that entered a
  queue of the UART in this period), `access` (the simulator's data access of this
  step), `written` (lines stored to since the cache took them in), `totals` (the time of
  each configuration) and the field `test` of a buffered store (the test it was made in). They never influence a step.

What the environments may do is what the code around them can do. A stalled LSU
keeps its operation (`Offered`); a stalled fetch empties the stage in front of
LSU. The pipeline's program is any choice of instructions per address, except
that no branch stands in a delay slot, which `yamp32_exu.v` asserts and the
simulator asserts too. The cache is asked only when the pipeline is not stalled.

Two constants of `Pipeline` and one each of `MemBank` and `Uart` switch off a part of the
environment in which the code misbehaves, so that everything else can be
checked: `MissDuringMul` (a fetch misses in the cycle in which a product is
written), `StaleFetch` (a reset while the cache shows an instruction other than the one in
front of the reset vector),
`ResetDuringFill` (a reset while a burst is requested) and `Overrun` (a frame
arrives while the byte before it still waits for room in a full queue). They are FALSE in the
passing runs; the first three are TRUE in the runs that show the misbehaviour. With
`Overrun` set, `PortIsSerial` is violated: there is no flow control, and no
document promises any. A byte takes 125000 clocks at 9600 baud, so a program loses
bytes only if it leaves more than 16 unread for that long.

## 3. What is checked

| run | instance | what it shows |
|---|---|---|
| `fifo` | 4 words of RAM (the size `tb_fifo_fwft.v` simulates), 3 values, symmetric | The flags are exact and the FIFO is a queue. The pointers wrap both ways round, and the collision of read and write is reached at every slot. |
| `bank` | 8 words of 2 bytes, lines of 4 words, 2 sets, buffer of 2, five stores of words and bytes | The RAM and the stores on their way to it add up to what the program wrote; loads return it; lines are snapshots in order; the pins never conflict; the bank is an ordered memory; every request and every fill ends. |
| `memory_system` | two banks of 2 words of a byte, lines of 2 words | The ready bit implies that every store has landed in both RAMs; only one bank works on a load; each bank behaves in the system as it does alone, so the results of `bank` carry over; no operation waits for ever. |
| `pipeline_control` | 5 addresses, 1 register besides $0, branches in both directions, all three jumps | The sequence of instructions executed is the simulator's, whatever is predicted, flushed and stalled, and a branch is flushed exactly when the simulator charges for it, also after a reset in the middle of all this; each access is made once; the assertions of `yamp32_exu.v` hold. |
| `pipeline_data` | 4 addresses, 2 registers besides $0, results of every latency | Every operand read and every result written is the simulator's, including the multiplier's delay. |
| `icache` | 4 ways, 2 sets, lines of 2 words, five lines for one set | Ranks stay a permutation; between refills a set holds exactly the lines that `LruCache` would hold, in its order; no line is in two ways; a valid line is complete; a lookup is right when its way was read. |
| `uart` | queues of 2 bytes, 2 values, all interleavings of program, host, serialisers and reset | Every byte arrives once, whole and in order, in both directions; a reset loses no more than what is queued; a full transmit queue drains. |
| `simulator` | `main` with one test; a sweep over two data caches and a third that is skipped; a sweep over two instruction caches; two tests for each configuration of a sweep; a test program of 3 words and 1 free instruction; store buffer of 2 | The simulated data cache is an LRU cache in each geometry and counts its hits and misses; a line stored to is dirty; loads wait for all stores; no store of the last test is waited for in a measured time; the clock moves forward; the configuration reported is the fastest, the first of several; every test comes to its end with empty queues, or to the comparison of a wrong result that its program stored: no assertion of the terminal on the boot message, the readback or a mark ever fails. |

Each property of these runs is violated in a mutated model that stands for a
plausible mistake in the code (an operator defined in front of the definition
it would replace, with a comment that names the mistake).

Why the bounds are enough. In `fifo` and `bank` every counter wraps and every
buffer fills; a bank needs two buffered stores besides the one on the pins to
tell orders apart and bytes of one word to tell merges apart. A line of four
words separates the half in which the burst request is withdrawn from the other
half. The pipeline is five stages deep, and the programs are chosen afresh at
each fetch, so five addresses give every sequence of dependent instructions that is in
the pipeline together. Five lines for four ways force replacement; the second
set exists to be left and returned to. In `uart` both queues fill, also with a byte waiting
in the receiver, and two values are enough to see a byte lost, doubled or
swapped. In `simulator` the lines that compete for a set of two ways are the UART
registers, the program, its data, its result and a frame of the monitor, more than the set
holds; three stores in a row (a free instruction, the result, a register of the monitor)
overfill the store buffer; two tests and two configurations are what sums and minima need.
`MaxTime` (2000) and `LongMax` bound time; `TestEnds` holds, so no behaviour stops at them.
`TermTest` keeps the cause of an abort: in the state `Verify` the result was wrong, in
`Aborted` another assertion of `termtest.cc` failed, which `TestEnds` does not excuse.

Fairness: `bank` and `memory_system` assume that the clock never stops
(`WF_vars(Clock)`) and that the reset button is at some point let go
(`<>[][~Reset]_vars`). Nothing is assumed about the arbitration, which is
deterministic: that stores go first does not starve anyone because the pipeline
is stalled by a load, and by a fetch that misses, and so runs out of stores.
`uart` assumes the clock too, and that a frame that has begun ends
(`WF_vars(Clock /\ Finish)`: the baud generator ticks for ever, and ten ticks
are a frame); nothing about the program or the host. `simulator` is a single thread in an
endless loop, `WF_vars(Loop)`. The other runs check safety only.

### Where the code departs from its documents

Four runs are expected to fail, each with a single property.

- `bank_reset`: `nl_rd_r` (`yamp32_icache.v:52`) has no reset. A reset during a
  line fill leaves the burst request standing; the BIU serves it again while
  the cache boots, and its remaining words are taken for those of the first line
  that misses. With 64 sets the boot takes 64 cycles and a burst 129, so the first
  fetch after such a reset meets the middle of the old burst. The program
  then starts in a line whose second half is another line's.
- `pipeline_mul_miss`: `o_wb_op_mul` is held by a stall, the result waiting
  beside it in `yamp32_wb_mux.v` is not. If the fetch misses in the cycle in
  which a product is written, the result of the instruction behind the MUL never
  reaches the register file. The main README restricts only
  what that instruction reads.
- `pipeline_stale`: the output register of the cache's block memory has no
  reset (`yamp32_icache.v:193-205`), so the instruction that was shown last before
  a reset is executed in front of the one at the reset vector.
- `icache_ways`: the data memory is read with the way of the previous lookup
  (`yamp32_icache.v:188`). Two hits in a row in different ways return a wrong word.
  Programs that fit into one way of the cache (16 KiB in 256-byte lines) never
  meet this, since the first line of every set goes to way 0.

Smaller divergences met while reading, not covered by a run: LB extends with zeros
(`yamp32_lsu.v:106`, against `cpu.cc:300-301`); the bypass network forwards
writes to `$0`; an instruction that reads the product of the MUL before it finds
the zero that travels ahead of the product, where the main README speaks of the
value before the MUL. Of the simulator and the UART:

- A dirty bit is never cleared by a miss, against the comment at `cache.cc:127` ("Mark
  clean when entry is freed"): `hit` is set to 1 at line 86, before it is tested. A
  way that was once dirty is charged a write-back at each later replacement. `SimCache`
  has this; `StoredLinesAreDirty` only asks that no dirty bit is missing.
- The dirty bits are read without having been initialised (`cache.cc:32`).
- `stoerBufferClk`, which only `optimise_icache` calls, sets the clock back to one
  after the end of the oldest store (`cpu.cc:157`). `ClockForward` is therefore stated for
  `main` and `optimise_dcache`; its mutant calls the function there too.
- Each store is given the end it would have without the stores buffered before it
  (`cpu.cc:134`), so that their times overlap.
- `bpu.cc:33` predicts a branch with offset 0 as taken, `yamp32_bpu.v` as not taken.
- When a reset falls between the pop of a byte and its start bit, `uart.v` sends one zero
  byte (`ext_uart_start` has no reset, the output register of the queue has). `SerialLine`
  allows it.

## 4. What is proved

Eight modules hold theorems. Each is stated for every value of the constants that the
module's `ASSUME` admits: depths, sizes, numbers of ways, sets, words and registers, any
program, any interleaving. The assumptions on constants are named, stand in the module that
declares them and are evaluated by TLC in the runs. What else a theorem needs is in its
statement, and listed at the end of this section. The argument for safety is the same
everywhere: an invariant `IInv` that holds initially and in every step, found by asking of
each property which states violate it one step later; TLC checked the invariant on the run's
instance before it was proved.

### `FwftFifoProofs`

`TypeCorrect`, `PointersStayConsistent`, `FlagsCorrect` and `Refinement` (the FIFO implements
`BoundedQueue`). The types alone are not inductive: the exactness of `o_full` and `o_empty`
needs the bound on the distance of the pointers, which is preserved because a push is refused
when the distance is `Depth` and a pop when it is zero. The refinement maps the registers to
the sequence whose first word is what `o_dout` shows and whose others are in the RAM from
`r_ptr + 1` on. Its main lemmas say that two live words never share a slot, and that a pop
brings the second word to `o_dout`: from the RAM, or from the bypass register if that word is
written in the same cycle.

### `MemBankProofs` and `MemorySystemProofs`

`TypeCorrect`, `PinsAgree`, `Coherence`, `LoadsAreCurrent` and `Refinement` (a bank implements
`OrderedMemory`), with resets at any time. Besides the properties the invariant says that a
load that was granted owns the RAM (`LoadOwnsRam`: empty buffer, its address on the pins until
the answer) and that the LSU only holds a store the buffer has no room for (`StoreWaits`).
Without the first, a store could be accepted between the grant of a load and its answer.

`FillsAreAligned` and `LinesAreSnapshots` rest on a second invariant, `FillInv`: burst and fill
machine count the same words of the same line. It needs `~ResetDuringFill`; run `bank_reset`
shows what happens otherwise.

`MemorySystemProofs` proves that each RAM behind the LSU is such a bank (`BaseRefinement`,
`ExtRefinement`) by showing that the operation one bank sees is idle whenever the LSU works
for the other. The theorems about a bank then hold of both by instantiation
(`BanksKeepTheirPromises`), and give `ReadyMeansStored` with `OneLoad`: the ready bit implies
that all stores are in the RAMs. In `MemorySystem` no reset falls in a fill, so nothing is assumed.

### `ICacheProofs`

`TypeCorrect`, `RanksPermute`, `OneVictim`, `LinesAreUnique`, `LinesAreComplete`,
`FetchesAreRight` and `RanksShowRecency`, for any number of ways and sets and any even length
of lines. Ranks stay injective since all those above that of the way used move down by one and
it moves to the top; injective from a finite set to itself is onto (`FS_Injection`), so exactly
one way is free. The invariant follows a set through boot (`BootClears`), says what a stalled
lookup keeps (`LookupIsHeld`), ties the fill machine to the burst between and during fills, and
counts the words that have arrived (`WordsInPlace`), of which `LinesComplete` is the end.

`RanksShowRecency` (`RanksAreRecency`) rests on a second invariant, `OrderInv`: the valid ways
are those of the highest ranks, and the rank of a way is the place of its line in the order
(`InPlace`). One way is behind during a fill (`Waiting`): it has the tag of the missed line from
the start, but until the line is used after the fill its rank is 0 and its line not in the
order, which still has the line it replaces. `TouchOld` and `TouchNew` say what `Touch` of
`LruCache` makes of a sequence in which the line is, or is not.

### `PipelineProofs` and `PipelineRefinement`

`TypeCorrect`, `AccessesAreServedOnce` and `FlushesAreExclusive` hold unconditionally. The
last needs the assumption about delay slots followed down the pipeline (`NoBranchInSlot`): the
pipeline never shows IDU a branch behind a branch, whatever is stalled and flushed. It also
needs `TargetCleared`, since a reset clears the flush but not its target. `InstructionsAreInPlace`
needs `~StaleFetch` (run `pipeline_stale`).

`Refinement` is the central result: the pipeline implements `Isa`, under `Supported`. The
mapping takes for the architectural registers what the bypass network would forward in this
cycle. The invariant adds to the one above: IDU holds the instruction in EXU during a stall
(`HeldIsInExu`); a delay slot stands behind its branch (`SlotFollows`); what was read from the
register file is what it says now (`ReadsAreCurrent`); register 0 is zero and nothing under way
changes that (`ZeroStaysZero`); results do not collide (`OneResult`), which is where a
MUL whose slot meets a fetch miss fails. The proof has a step for each kind of instruction in
EXU, and under it one for stall, flush and each way the two writers of the port can meet.

`Supported` says of the surroundings `~MissDuringMul` and `~StaleFetch`; of the program that
only the nop (`sll $0,...` of `$0`) writes register 0, and that no branch has offset 0. Each
of the four is a place where the processor really departs from the simulator (section 3); MIPS
code never uses `$0` as a destination but for the nop, and a branch to its own delay slot
does nothing. Both configurations of `MCPipeline` satisfy it, and their programs have the nop.

### `UartProofs`

`TypeCorrect`, `PollingIsEnough` and `Refinement` (the UART implements `SerialLine`), for
queues of any depth, under `~Overrun`. `PolledIsTrue` is what polling is for: a
bit that was seen set stays true until the program uses it, since only the program empties the
receive queue and only it fills the transmit queue. `PendingIsHeld` and `WaitingIsWhole` say
that `uart_pending_r` marks the second cycle of a load, in which LSU still holds it, and that
a received byte that waits for room is whole.

### `SimulatorProofs`

- `SweepReportsBest`: the first of the fastest configurations is reported. The loops are
  followed by `LoopsInv`: the sum of the current configuration is in both places, later ones
  have none.
- `StoresAreCharged`: `StoredLinesAreDirty`, for every geometry and whatever the heap left in
  the dirty bits. It needs that the valid lines of a set are distinct (`TagsDistinct`): with a
  line in two ways, a store would mark only one.
- `Replacement`: the cache refines `LruCache`. The valid ways of a set are those of the highest
  ranks (`Ranks`), so their ranks are their places in the order (`OrderOfSet`); a use moves the
  ranks as `Touch` moves the places (`TouchedOrder`), whether it hits, fills a way that was
  never used or evicts. That hits are counted as the abstract cache counts them rests on
  `TagsDistinct` again.
- `LoadsWait` and `TimeGoesForward`: `LoadWaitsForStores` and `ClockForward`. `Drained` is a
  fold over the buffer; `FoldExists` shows that the function it is defined by
  exists, and `DrainedWaits` that it bounds the end of every store.
- `BufferIsFresh`: `NoStaleStores`, although nothing clears the buffer. This takes the whole
  conversation of monitor and terminal (`ProtocolInv`): in each state of the protocol the words
  received, those on their way and those the program is still to send are as many as the
  terminal waits for. So an answer is taken when nothing more will come, the boot message is
  only complete after the monitor has polled, and polling has emptied the buffer.
- `NothingIsLeft`: for the same reason queues are empty between tests, as termtest.cc expects.

`MinIsLeast`, `FoldExists` and `DrainedWaits` are inductions in the form of a least
counterexample, which exists by the well-foundedness theorems of the library.

### Assumed in theorems, and why the code justifies it

| assumption | in | why |
|---|---|---|
| `~Overrun` | `UartProofs` | no flow control exists; a program that reads within 16 frames never meets it |
| `~ResetDuringFill` | two theorems of `MemBankProofs` | run `bank_reset` is the counterexample; power-on resets meet no burst |
| `~StaleFetch` | `InstructionsAreInPlace` | run `pipeline_stale` is the counterexample |
| `Supported` | `PipelineRefinement` | see above; run `pipeline_mul_miss` is the counterexample to dropping `~MissDuringMul` |
| `[]TimesFit` | `SweepReportsBest` | times of tests are natural and below the initial minimum, the largest number of 64 bits |

### Only model-checked

- Liveness: `RequestsComplete`, `FillsComplete`, `TransmitterDrains`, `TestEnds`. TLAPS
  does not prove liveness from fairness.

Every other property of the passing runs is the property of a theorem.

## 5. Plan

1. *(done)* FIFO, RAM banks, memory system, pipeline, instruction cache; FIFO
   proved.
2. *(done)* The UART up to the program that polls it; the simulator's accounting
   of time, its terminal and its sweeps; one abstract cache for the replacement of both
   caches; the branch penalty.
3. *(done)* Theorems about every component: the safety properties of the bank, the memory
   system, the instruction cache, the pipeline, the UART and the simulator, and the refinements
   of `BoundedQueue`, `OrderedMemory`, `SerialLine`, `LruCache` and `Isa`.

## 6. Not modelled

- Counters and dumps of the simulator that are only printed, and its command line.
- `bin2c.c` (a converter run at build time) and the data it made: `bin-matrix.h`,
  `bin-kernel.h` and the `.h` files of the test benches are tables of numbers, most of the lines
  of the repository and no behaviour. The monitor itself is only there as such a table.
- `async.v` below the level of frames, set-up and hold times, the PLL and the
  crossing from the reset button: analogue or below a clock cycle.
- Vendor cores: block memories, multiplier and adder are modelled by how they
  are used (latency, enables, what is not reset); their generated code is not.
- `vga.v`, `SEG7_LUT.v`, test benches, constraints, scripts, assembly sources
  and binary images: no logic of the processor.
- The instruction cache is not kept coherent with stores by design; fetching what a
  program has just written is outside the models.

## 7. Running

    tlc -config MCFwftFifo.cfg MCFwftFifo
    tlc -config MCMemBank.cfg MCMemBank
    tlc -config MCMemBankReset.cfg MCMemBank
    tlc -config MCMemorySystem.cfg MCMemorySystem
    tlc -config MCPipelineControl.cfg MCPipeline
    tlc -config MCPipelineData.cfg MCPipeline
    tlc -config MCPipelineMulMiss.cfg MCPipeline
    tlc -config MCPipelineStale.cfg MCPipeline
    tlc -config MCICache.cfg MCICache
    tlc -config MCICacheWays.cfg MCICache
    tlc -config MCUart.cfg MCUart
    tlc -config MCSimulator.cfg MCSimulator
    tlapm FwftFifoProofs.tla
    tlapm MemBankProofs.tla
    tlapm MemorySystemProofs.tla
    tlapm ICacheProofs.tla
    tlapm PipelineProofs.tla
    tlapm PipelineRefinement.tla
    tlapm UartProofs.tla
    tlapm SimulatorProofs.tla

`PROJECT.json` lists the runs with their properties, the mutants, the source
lines of every definition, the hazards and the theorems.
