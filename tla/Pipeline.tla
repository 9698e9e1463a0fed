------------------------------ MODULE Pipeline ------------------------------
(***************************************************************************)
(* The five stages of yamp32_core.v: IFU, IDU with the register file, EXU  *)
(* with the branch unit and the two-cycle multiplier, LSU, and write-back, *)
(* with the bypass network and the stall controller that tie them.         *)
(*                                                                         *)
(* Clock is one rising edge of i_clk. The instruction cache and the memory *)
(* behind the LSU are the environment: they may stall whatever they are    *)
(* asked for, for any number of cycles, and the wires ic_stall and         *)
(* lsu_stall hold their answer for the current cycle.                      *)
(*                                                                         *)
(* Instructions carry the address they were fetched from. Registers that   *)
(* travel together with an enable are one record, with a fixed value while *)
(* the enable is low.                                                      *)
(***************************************************************************)
EXTENDS Integers, Sequences

CONSTANTS Addresses, Values, Registers, Link, Program, Vector, Answers

CONSTANTS
  MissDuringMul,   \* whether a fetch may miss while a MUL is written back
  StaleFetch       \* whether i_rst_n may fall while the cache shows an
                   \* instruction that is not the one in front of the vector

VARIABLES
  pc_r, insn,              \* IFU: last fetch address and what the cache holds for it
  insn_r, pc_rr,           \* IFU: the copies IDU sees while stalled
  ic_busy,                 \* the cache has a request to answer, or is booting
  exu_uop, exu_pc,         \* IDU: the instruction in EXU
  rop1_q, rop2_q,          \* register file: values read for it
  rop1_adr_r, rop2_adr_r,  \* bypass: and the registers they came from
  lsu_req, lsu_wb,         \* EXU: access and result of the instruction in LSU
  mul_r, wb_mul,           \* EXU: products in the two stages behind the operands
  spec_fls_r, spec_fls_rr, spec_fls_pc_r,   \* EXU: flush of the next stage
  wb_r,                    \* WB: result about to be written
  regfile,
  ic_stall, lsu_stall,     \* wires: the environment stalls this cycle
  owed,                    \* history: accesses issued and not yet served
  issued                   \* history: the instruction that just left EXU

ifu_vars == <<pc_r, insn, insn_r, pc_rr>>
lsu_vars == <<lsu_req, lsu_wb>>
mul_vars == <<mul_r, wb_mul>>
fls_vars == <<spec_fls_r, spec_fls_rr, spec_fls_pc_r>>
vars == <<ifu_vars, ic_busy, exu_uop, exu_pc, rop1_q, rop2_q, rop1_adr_r,
          rop2_adr_r, lsu_vars, mul_vars, fls_vars, wb_r, regfile,
          ic_stall, lsu_stall, owed, issued>>

-----------------------------------------------------------------------------
(* Instructions, their results and targets are those of the architecture.  *)

\* After a reset the cache still shows the instruction it showed before, and
\* it is executed as if it stood in front of the vector.
Starts == {Vector, (Vector - 1) % Addresses}

I == INSTANCE Isa WITH pc <- 0, npc <- 0, mul_slot <- {},
                       access <- 0, executed <- 0, penalty <- 0

Data == I!Data
After(p) == I!After(p)

Operations == I!Alu \union I!Bcc \union I!Jumps \union {"MUL", "LW", "SW"}

\* Immediates fit where they go. A program that jumps to a register, or links,
\* needs registers as wide as the program counter.
Instructions ==
  {i \in [op : Operations, rs : Registers, rt : Registers, rd : Registers,
          imm : Int, at : I!Pc] :
     /\ i.op = "LUI" => i.imm \in Data
     /\ i.op \in {"J", "JAL"} => i.imm \in I!Pc
     /\ i.op = "JR" => Values <= Addresses
     /\ i.op = "JAL" => Addresses <= Values}

ASSUME PipelineAssumption ==
  /\ Addresses \in Nat \ {0}
  /\ Values \in Nat \ {0}
  /\ Registers \subseteq Nat
  /\ {0, Link} \subseteq Registers
  /\ Vector \in I!Pc
  /\ Answers \subseteq Data
  /\ {MissDuringMul, StaleFetch} \subseteq BOOLEAN
  /\ \A i \in Program : i \in Instructions

\* sll $0,$0,0, the all-zero word; nothing was fetched to get it.
Nop == [op |-> "SLL", rs |-> 0, rt |-> 0, rd |-> 0, imm |-> 0, at |-> Addresses]

\* An instruction whose uop bits and write enable were cleared.
Bubble == [op |-> "none", rs |-> 0, rt |-> 0, rd |-> 0, imm |-> 0, at |-> Addresses]

Real(i) == i # Bubble /\ i # Nop

IsBranch(i) == i.op \in I!Bcc \union I!Jumps
IsAccess(i) == i.op \in {"LW", "SW"}

\* A write to a register: an enable, an address and a value.
NoWrite == [we |-> FALSE, adr |-> 0, dat |-> 0]
Write(r, v) == [we |-> TRUE, adr |-> r, dat |-> v]

-----------------------------------------------------------------------------
(* yamp32_ctrl.v. The bypass network never stalls.                         *)

ifu_stall == lsu_stall \/ ic_stall
exu_stall == lsu_stall \/ ic_stall
\* Stalls without the NOP.
exu_invNever == FALSE
exu_inv == ~lsu_stall /\ ic_stall

-----------------------------------------------------------------------------
(* Write-back: what LSU hands over (lsu.v), and the register file port     *)
(* the multiplier shares with it (wb_mux.v).                               *)

wb == IF lsu_stall THEN NoWrite
      ELSE IF lsu_req.kind = "load" THEN Write(lsu_req.rd, lsu_req.dat)
      ELSE lsu_wb

rf_w == IF wb_mul.we THEN wb_mul ELSE wb_r

\* A read in the cycle of a write returns the value written.
Read(r) == IF r = 0 THEN 0
           ELSE IF rf_w.we /\ rf_w.adr = r THEN rf_w.dat
           ELSE regfile[r]

\* The network with its priority the wrong way round.
BypassOldest(r, q) == IF rf_w.we /\ rf_w.adr = r THEN rf_w.dat
                      ELSE IF wb.we /\ wb.adr = r THEN wb.dat
                      ELSE q

\* bypass_net.v: the younger of the results not yet in the register file.
Bypass(r, q) == IF wb.we /\ wb.adr = r THEN wb.dat
                ELSE IF rf_w.we /\ rf_w.adr = r THEN rf_w.dat
                ELSE q

WriteBack == /\ wb_r' = wb
             /\ regfile' = IF rf_w.we /\ rf_w.adr # 0
                           THEN [regfile EXCEPT ![rf_w.adr] = rf_w.dat]
                           ELSE regfile

-----------------------------------------------------------------------------
(* EXU (yamp32_exu.v, yamp32_bpu.v).                                       *)

rop1 == Bypass(rop1_adr_r, rop1_q)
rop2 == Bypass(rop2_adr_r, rop2_q)

\* Backward branches are predicted taken.
bp_taken == exu_uop.op \in I!Bcc /\ exu_uop.imm < 0
bcc_taken == exu_uop.op \in I!Bcc /\ I!Taken(exu_uop, rop1, rop2)
bcc_spec_fls == bp_taken # bcc_taken
j_taken == exu_uop.op \in I!Jumps

ds_pc == After(exu_pc)
bcc_tgt == (ds_pc + exu_uop.imm) % Addresses
bcc_real_tgt == IF bcc_taken THEN bcc_tgt ELSE After(ds_pc)
j_tgt == I!Target(exu_uop, rop1)

\* Of the OR of two targets, one is always zero.
ifu_fls_nxt == bp_taken \/ spec_fls_r
ifu_fls_pc_nxt == IF bp_taken THEN bcc_tgt ELSE spec_fls_pc_r

\* A link address wider than the program counter.
alu_wbNoWrap == CASE exu_uop.op = "MUL" -> Write(exu_uop.rd, 0)
                  [] exu_uop.op = "JAL" -> Write(Link, exu_pc + 2)
                  [] exu_uop.op \in I!Alu ->
                       Write(I!Destination(exu_uop), I!Result(exu_uop, rop1, rop2))
                  [] OTHER -> NoWrite

\* Everything but stores, loads, branches and plain jumps writes a result.
\* A MUL sends a zero ahead of its product.
alu_wb == CASE exu_uop.op = "MUL" -> Write(exu_uop.rd, 0)
            [] exu_uop.op = "JAL" -> Write(Link, After(ds_pc))
            [] exu_uop.op \in I!Alu ->
                 Write(I!Destination(exu_uop), I!Result(exu_uop, rop1, rop2))
            [] OTHER -> NoWrite

mul_nxt == IF exu_uop.op = "MUL"
           THEN Write(exu_uop.rd, I!Result(exu_uop, rop1, rop2))
           ELSE NoWrite

\* The access, with the memory's answer to a load already attached.
NoAccess == [kind |-> "none", addr |-> 0, dat |-> 0, rd |-> 0]
lsu_nxt == CASE exu_uop.op = "LW" ->
                  [kind : {"load"}, addr : {(rop1 + exu_uop.imm) % Values},
                   dat : Answers, rd : {exu_uop.rt}]
             [] exu_uop.op = "SW" ->
                  [kind : {"store"}, addr : {(rop1 + exu_uop.imm) % Values},
                   dat : {rop2}, rd : {0}]
             [] OTHER -> {NoAccess}

\* The flush target a designer would leave in its register.
IssueKeepsTarget ==
  /\ ~exu_stall
  /\ lsu_req' \in lsu_nxt
  /\ lsu_wb' = alu_wb
  /\ mul_r' = mul_nxt
  /\ wb_mul' = mul_r
  /\ spec_fls_r' = (bcc_spec_fls \/ j_taken)
  /\ spec_fls_rr' = spec_fls_r
  /\ spec_fls_pc_r' = IF bcc_spec_fls THEN bcc_real_tgt
                      ELSE IF j_taken THEN j_tgt ELSE spec_fls_pc_r

\* The instruction in EXU leaves it.
Issue == /\ ~exu_stall
         /\ lsu_req' \in lsu_nxt
         /\ lsu_wb' = alu_wb
         /\ mul_r' = mul_nxt
         /\ wb_mul' = mul_r
         /\ spec_fls_r' = (bcc_spec_fls \/ j_taken)
         /\ spec_fls_rr' = spec_fls_r
         /\ spec_fls_pc_r' = IF bcc_spec_fls THEN bcc_real_tgt
                             ELSE IF j_taken THEN j_tgt ELSE 0

\* It stays. If only the cache stalls, LSU is given a NOP meanwhile.
Hold == /\ exu_stall
        /\ IF exu_inv THEN lsu_req' = NoAccess /\ lsu_wb' = NoWrite
                      ELSE UNCHANGED lsu_vars
        /\ UNCHANGED <<mul_vars, fls_vars>>

-----------------------------------------------------------------------------
(* IDU (yamp32_idu.v) decodes in every cycle what IFU shows it; during a   *)
(* stall that is once more the instruction that EXU holds.                 *)

o_insn == IF ifu_stall THEN insn_r ELSE insn
\* Copies that are not held during a stall.
o_pcNotHeld == pc_r
o_spec_flsNotHeld == spec_fls_r
o_pc == IF ifu_stall THEN pc_rr ELSE pc_r
o_spec_fls == IF exu_stall THEN spec_fls_rr ELSE spec_fls_r

Decode == /\ exu_uop' = IF o_spec_fls THEN Bubble ELSE o_insn
          /\ exu_pc' = o_pc
          /\ rop1_q' = Read(o_insn.rs)
          /\ rop2_q' = Read(o_insn.rt)
          /\ rop1_adr_r' = o_insn.rs
          /\ rop2_adr_r' = o_insn.rt

-----------------------------------------------------------------------------
(* IFU (yamp32_ifu.v). During a stall the cache is not asked, so the held  *)
(* copies of the flush (exu.v l. 275-288) reach nothing and are left out.  *)

pc_nxt == IF ifu_fls_nxt THEN ifu_fls_pc_nxt ELSE After(pc_r)

\* The program does not put a branch into a delay slot.
Fetched(p) == {i \in Program : /\ i.at = p
                               /\ (IsBranch(insn) /\ ~spec_fls_r) => ~IsBranch(i)}

Fetch == IF ifu_stall
         THEN UNCHANGED ifu_vars
         ELSE /\ pc_r' = pc_nxt
              /\ insn' \in Fetched(pc_nxt)
              /\ insn_r' = insn
              /\ pc_rr' = pc_r

-----------------------------------------------------------------------------

\* What the environment may stall in the next cycle: the cache only what it
\* was asked for, the memory only an access.
Environment ==
  /\ ic_busy' = IF ic_stall THEN ic_busy ELSE ~ifu_stall
  /\ ic_stall' \in IF ic_busy' /\ (MissDuringMul \/ ~wb_mul'.we)
                   THEN BOOLEAN ELSE {FALSE}
  /\ lsu_stall' \in IF lsu_req'.kind # "none" THEN BOOLEAN ELSE {FALSE}

Count(b) == IF b THEN 1 ELSE 0

Owe == owed' = owed + Count(~exu_stall /\ IsAccess(exu_uop))
                    - Count(lsu_req # NoAccess /\ ~lsu_stall)

\* Bubbles and the word shown after power-up are not instructions.
Record == issued' = IF ~exu_stall /\ Real(exu_uop) THEN exu_uop ELSE I!None

Clock == /\ Issue \/ Hold
         /\ WriteBack
         /\ Decode
         /\ Fetch
         /\ Owe
         /\ Record
         /\ Environment

\* i_rst_n. The output register of the cache's memory, the write enable of
\* the multiplier's second stage and the register file have no reset.
Reset == /\ Real(insn) => insn.at = (Vector - 1) % Addresses \/ StaleFetch
         /\ pc_r' = (Vector - 1) % Addresses
         /\ insn_r' = Nop
         /\ exu_uop' = Bubble
         /\ lsu_req' = NoAccess
         /\ lsu_wb' = NoWrite
         /\ mul_r' = NoWrite
         /\ wb_r' = NoWrite
         /\ spec_fls_r' = FALSE
         /\ spec_fls_rr' = FALSE
         /\ ic_busy' = TRUE
         /\ ic_stall' = TRUE
         /\ lsu_stall' = FALSE
         /\ owed' = 0
         /\ issued' = I!None
         /\ UNCHANGED <<insn, pc_rr, exu_pc, rop1_q, rop2_q, rop1_adr_r,
                        rop2_adr_r, wb_mul, spec_fls_pc_r, regfile>>

\* Configuration clears every register; the cache boots.
Init == /\ pc_r = (Vector - 1) % Addresses
        /\ insn = Nop
        /\ insn_r = Nop
        /\ pc_rr = 0
        /\ ic_busy = TRUE
        /\ exu_uop = Bubble
        /\ exu_pc = 0
        /\ rop1_q = 0 /\ rop2_q = 0
        /\ rop1_adr_r = 0 /\ rop2_adr_r = 0
        /\ lsu_req = NoAccess
        /\ lsu_wb = NoWrite
        /\ mul_r = NoWrite /\ wb_mul = NoWrite
        /\ spec_fls_r = FALSE /\ spec_fls_rr = FALSE /\ spec_fls_pc_r = 0
        /\ wb_r = NoWrite
        /\ regfile = [r \in Registers |-> 0]
        /\ ic_stall = TRUE
        /\ lsu_stall = FALSE
        /\ owed = 0
        /\ issued = I!None

Next == Clock \/ Reset

Spec == Init /\ [][Next]_vars

-----------------------------------------------------------------------------
Writes == [we : BOOLEAN, adr : Registers, dat : Data]

(* Type correctness.                                                       *)
TypeOK == /\ {pc_r, pc_rr, exu_pc, spec_fls_pc_r} \subseteq I!Pc
          /\ {insn, insn_r} \subseteq Program \union {Nop}
          /\ exu_uop \in Program \union {Nop, Bubble}
          /\ {rop1_q, rop2_q} \subseteq Data
          /\ {rop1_adr_r, rop2_adr_r} \subseteq Registers
          /\ lsu_req \in [kind : {"none", "load", "store"}, addr : Data,
                          dat : Data, rd : Registers]
          /\ {lsu_wb, mul_r, wb_mul, wb_r} \subseteq Writes
          /\ regfile \in [Registers -> Data]
          /\ {ic_busy, spec_fls_r, spec_fls_rr, ic_stall, lsu_stall} \subseteq BOOLEAN
          /\ owed \in 0 .. 1
          /\ issued \in Program \union {I!None}

(* The instruction in EXU is the one that stands at the address EXU        *)
(* computes its targets and its link from, whatever stalls and flushes     *)
(* came between its fetch and its issue.                                   *)
ExecutesWhatIsThere == Real(exu_uop) => exu_uop.at = exu_pc

(* The two assertions of yamp32_exu.v (l. 292-307), and what they are for: *)
(* of the two flush targets that are ORed, at most one is not zero.        *)
OneFlushAtATime == /\ ~(bcc_spec_fls /\ j_taken)
                   /\ ~(bp_taken /\ spec_fls_r)
                   /\ bp_taken => spec_fls_pc_r = 0

(* The memory serves each load and each store exactly once: none is issued *)
(* again while the cache stalls (the comment at yamp32_ctrl.v:26), and     *)
(* none is turned into a NOP before it is served.                          *)
AccessOnce == owed = Count(lsu_req # NoAccess)

\* The instructions to come, oldest first: the one in EXU, the one behind it
\* unless it is to be flushed, and what is fetched next.
Upcoming == (IF Real(exu_uop) THEN <<exu_pc>> ELSE <<>>)
            \o (IF Real(insn) /\ ~spec_fls_r THEN <<pc_r>> ELSE <<>>)
            \o <<pc_nxt, After(pc_nxt)>>

\* The registers as the next instruction should find them: the youngest
\* result on its way to the register file, or else what is there.
InFlight(r) ==
  IF mul_r.we /\ mul_r.adr = r THEN mul_r.dat
  ELSE IF lsu_req.kind = "load" /\ lsu_req.rd = r THEN lsu_req.dat
  ELSE IF lsu_wb.we /\ lsu_wb.adr = r THEN lsu_wb.dat
  ELSE IF rf_w.we /\ rf_w.adr = r THEN rf_w.dat
  ELSE regfile[r]

ArchAccess ==
  CASE lsu_req.kind = "none" -> [kind |-> "none"]
    [] lsu_req.kind = "load" -> [kind |-> "load", addr |-> lsu_req.addr]
    [] OTHER -> [kind |-> "store", addr |-> lsu_req.addr, dat |-> lsu_req.dat]

Arch == INSTANCE Isa
          WITH pc <- Upcoming[1], npc <- Upcoming[2],
               regfile <- [r \in Registers |-> InFlight(r)],
               mul_slot <- IF mul_r.we THEN {mul_r.adr} ELSE {},
               access <- ArchAccess,
               executed <- issued,
               penalty <- Count(issued.op \in I!Bcc /\ spec_fls_r)

(* The pipeline executes what the simulator does: every instruction that   *)
(* leaves EXU, and no other, is the next one of the program; it reads what *)
(* the instructions before it wrote, wherever their results are; and every *)
(* result reaches the register file. A branch costs a flush exactly when   *)
(* the simulator charges its clock for a misprediction.                    *)
ImplementsIsa == Arch!Spec
=============================================================================
