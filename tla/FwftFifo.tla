------------------------------ MODULE FwftFifo ------------------------------
(***************************************************************************)
(* fifo_fwft_sclk.v, the first-word-fall-through FIFO the store buffers    *)
(* are made of, with the simple dual-port RAM and collision bypass of      *)
(* xpm_sdpram_bypass.v inside it.                                          *)
(*                                                                         *)
(* The RAM answers one cycle after the address, so the head of the queue   *)
(* is kept in a register when it arrives at an empty FIFO, and otherwise   *)
(* the word behind the head is fetched in the cycle that pops the head.    *)
(*                                                                         *)
(* One action is one rising edge of i_clk with the given ports asserted    *)
(* (an edge with neither port asserted changes nothing), or the reset.     *)
(***************************************************************************)
EXTENDS Integers, Sequences

CONSTANTS
  Depth,   \* words of RAM, 2^DEPTH_WIDTH in the code
  Data     \* what a word may hold

ASSUME DepthAssumption == Depth \in Nat \ {0}

VARIABLES
  w_ptr, r_ptr,            \* pointers with the wrap bit: 0 .. 2*Depth-1
  status_r, dat_r,         \* the fall-through register and its valid bit
  ram, ram_q,              \* RAM contents and its output register
  bypass_r, bypass_dat_r,  \* write-read collision bypass of the RAM
  pushed                   \* history: the word pushed last

ram_vars == <<ram, ram_q, bypass_r, bypass_dat_r>>
vars == <<w_ptr, r_ptr, status_r, dat_r, ram_vars, pushed>>

Pointers == 0 .. 2*Depth - 1

-----------------------------------------------------------------------------
(* Pointer arithmetic: DEPTH_WIDTH+1 bits that wrap at 2*Depth.            *)

IncNoWrap(p) == p + 1
Inc(p) == IF p = 2*Depth - 1 THEN 0 ELSE p + 1

\* The RAM address: the pointer without its wrap bit.
Slot(p) == IF p < Depth THEN p ELSE p - Depth
WrapBit(p) == p >= Depth

FullWithoutWrapBit == Slot(w_ptr) = Slot(r_ptr)
o_full == /\ WrapBit(w_ptr) # WrapBit(r_ptr)
          /\ Slot(w_ptr) = Slot(r_ptr)
o_empty == ~status_r /\ w_ptr = r_ptr

doutb == IF bypass_r THEN bypass_dat_r ELSE ram_q
o_dout == IF status_r THEN dat_r ELSE doutb

-----------------------------------------------------------------------------
(* The blocks of the design, each clocked with i_push, i_pop and i_din.    *)

\* The bypass a designer would leave out: the read returns the old word.
RamNoBypass(push, pop, din) ==
  /\ ram' = IF push THEN [ram EXCEPT ![Slot(w_ptr)] = din] ELSE ram
  /\ ram_q' = IF pop THEN ram[Slot(Inc(r_ptr))] ELSE ram_q
  /\ UNCHANGED <<bypass_r, bypass_dat_r>>

\* Write port at w_ptr, read port one past r_ptr and enabled by the pop. A
\* read of the word being written is answered from the bypass register.
Ram(push, pop, din) ==
  LET raddr == Slot(Inc(r_ptr))
      bypass_nxt == pop /\ push /\ raddr = Slot(w_ptr)
  IN /\ ram' = IF push THEN [ram EXCEPT ![Slot(w_ptr)] = din] ELSE ram
     /\ ram_q' = IF pop /\ ~bypass_nxt THEN ram[raddr] ELSE ram_q
     /\ bypass_r' = IF pop THEN bypass_nxt ELSE bypass_r
     /\ bypass_dat_r' = IF pop THEN din ELSE bypass_dat_r

\* The register a designer would forget to invalidate.
FallThroughForEver(push, pop, din) ==
  LET fwft_nxt == o_empty /\ push
  IN /\ status_r' = (status_r \/ fwft_nxt)
     /\ dat_r' = IF ~status_r /\ fwft_nxt THEN din ELSE dat_r

\* A push into an empty FIFO falls through to the output register; the pop
\* of that word empties the register.
FallThrough(push, pop, din) ==
  LET fwft_nxt == o_empty /\ push
  IN /\ status_r' = IF status_r THEN ~pop ELSE fwft_nxt
     /\ dat_r' = IF ~status_r /\ fwft_nxt THEN din ELSE dat_r

\* The users drive i_push with ~o_full and i_pop with ~o_empty.
Push(din) == /\ ~o_full
             /\ w_ptr' = Inc(w_ptr)
             /\ FallThrough(TRUE, FALSE, din)
             /\ Ram(TRUE, FALSE, din)
             /\ pushed' = din
             /\ UNCHANGED r_ptr

Pop(din) == /\ ~o_empty
            /\ r_ptr' = Inc(r_ptr)
            /\ FallThrough(FALSE, TRUE, din)
            /\ Ram(FALSE, TRUE, din)
            /\ UNCHANGED <<w_ptr, pushed>>

PushPop(din) == /\ ~o_full
                /\ ~o_empty
                /\ w_ptr' = Inc(w_ptr)
                /\ r_ptr' = Inc(r_ptr)
                /\ FallThrough(TRUE, TRUE, din)
                /\ Ram(TRUE, TRUE, din)
                /\ pushed' = din

\* i_rst_n at any time. The output register of the RAM is reset, to a word
\* that may be any of Data here; ram, dat_r and bypass_dat_r have no reset.
Reset == /\ w_ptr' = 0
         /\ r_ptr' = 0
         /\ status_r' = FALSE
         /\ bypass_r' = FALSE
         /\ ram_q' \in Data
         /\ UNCHANGED <<dat_r, ram, bypass_dat_r, pushed>>

Init == /\ w_ptr = 0
        /\ r_ptr = 0
        /\ status_r = FALSE
        /\ bypass_r = FALSE
        /\ dat_r \in Data
        /\ ram_q \in Data
        /\ bypass_dat_r \in Data
        /\ pushed \in Data
        /\ ram \in [0 .. Depth-1 -> Data]

\* i_din carries some word in every cycle, also in those that do not push.
Next == \/ \E din \in Data : Push(din) \/ Pop(din) \/ PushPop(din)
        \/ Reset

Spec == Init /\ [][Next]_vars

-----------------------------------------------------------------------------
(* Type correctness: every register of the FIFO holds a value of its width. *)
TypeOK == /\ w_ptr \in Pointers
          /\ r_ptr \in Pointers
          /\ status_r \in BOOLEAN
          /\ bypass_r \in BOOLEAN
          /\ dat_r \in Data
          /\ ram_q \in Data
          /\ bypass_dat_r \in Data
          /\ pushed \in Data
          /\ ram \in [0 .. Depth-1 -> Data]

\* Words in the FIFO, by the distance between the pointers.
Distance(w, r) == IF w >= r THEN w - r ELSE w - r + 2*Depth
Count == Distance(w_ptr, r_ptr)

(* The distance between the pointers never exceeds the RAM, and the        *)
(* fall-through register is only valid when the FIFO holds a word: what    *)
(* makes the pointer comparisons of o_full and o_empty (l. 39-41) mean     *)
(* what their names say.                                                   *)
PointersConsistent == /\ Count <= Depth
                      /\ status_r => Count > 0

(* The flags are exact: o_full holds only with Depth words inside, so no   *)
(* capacity is wasted, and o_empty only with none, so no word is stuck.    *)
FlagsExact == /\ o_full <=> Count = Depth
              /\ o_empty <=> Count = 0

IInv == TypeOK /\ PointersConsistent

\* The queue the registers stand for: its head is what o_dout shows, the
\* words behind it are in the RAM from r_ptr + 1 on.
Ahead(p, k) == IF p + k < 2*Depth THEN p + k ELSE p + k - 2*Depth
Contents == [i \in 1 .. Count |->
               IF i = 1 THEN o_dout ELSE ram[Slot(Ahead(r_ptr, i - 1))]]

Queue == INSTANCE BoundedQueue WITH q <- Contents, Capacity <- Depth

(* The FIFO is a bounded queue: whatever mix of pushes, pops and resets, a *)
(* word popped is the oldest one pushed and not yet popped, also when the  *)
(* pop meets the write of that very word in the RAM. What enters the queue *)
(* is the word that was pushed.                                            *)
QueueSpec == Queue!Spec
=============================================================================
