------------------------- MODULE PipelineRefinement -------------------------
(***************************************************************************)
(* The pipeline implements the architecture: proof that Spec implies       *)
(* ImplementsIsa, for the programs and surroundings it was built for.      *)
(***************************************************************************)
EXTENDS PipelineProofs, SequenceTheorems

\* What the proof asks of them. A MUL meets no fetch miss and a reset finds
\* nothing else in the cache than the instruction in front of the vector;
\* only the nop writes register 0, which the bypass network would forward;
\* no branch has its own delay slot as its target, which the simulator
\* predicts and the processor does not.
Supported ==
  /\ ~MissDuringMul /\ ~StaleFetch
  /\ \A i \in Program :
       /\ i.op \in I!Alu \union {"MUL", "JAL", "LW"} /\ I!Destination(i) = 0
            => i.op = "SLL" /\ i.rt = 0
       /\ i.op \in I!Bcc => i.imm # 0

-----------------------------------------------------------------------------
(* What every reachable state then satisfies besides.                      *)

\* During a stall IDU decodes the instruction in EXU again.
HeldIsInExu ==
  /\ \/ exu_uop = (IF spec_fls_rr THEN Bubble ELSE insn_r)
     \/ exu_uop = Bubble /\ insn_r = Nop
  /\ Real(exu_uop) => exu_pc = pc_rr
  /\ Real(insn_r) => Real(insn)

\* The delay slot stands behind its branch.
SlotFollows == IsBranch(exu_uop) => pc_r = After(exu_pc)

\* What the register file was read for, and what it still says.
ReadsAreCurrent ==
  /\ exu_uop # Bubble => rop1_adr_r = exu_uop.rs /\ rop2_adr_r = exu_uop.rt
  /\ rop1_q = regfile[rop1_adr_r]
  /\ rop2_q = regfile[rop2_adr_r]

\* Register 0 stays zero, and nobody is about to change that.
ZeroStaysZero ==
  /\ regfile[0] = 0
  /\ \A w \in {lsu_wb, mul_r, wb_mul, wb_r} : w.we /\ w.adr = 0 => w.dat = 0
  /\ lsu_req.kind = "load" => lsu_req.rd # 0

\* An instruction has one result. A product is preceded by a zero for the
\* same register and by nothing else, so that where both arrive at the
\* register file together the zero is the one lost.
OneResult ==
  /\ lsu_req.kind # "none" => ~lsu_wb.we
  /\ mul_r.we => lsu_req.kind = "none"
  /\ mul_r.we /\ lsu_wb.we => lsu_wb.adr = mul_r.adr
  /\ wb_mul.we /\ wb_r.we => wb_r.adr = wb_mul.adr
  /\ wb_mul.we /\ ic_stall => lsu_req.kind = "none" /\ ~lsu_wb.we

RefInv == /\ IInv /\ InPlace
          /\ HeldIsInExu /\ SlotFollows /\ ReadsAreCurrent
          /\ ZeroStaysZero /\ OneResult

-----------------------------------------------------------------------------
(* The additional invariant holds at the start, and after a reset.         *)

LEMMA InitRef == Init => RefInv
<1> SUFFICES ASSUME Init  PROVE RefInv
  OBVIOUS
<1>1. HeldIsInExu /\ SlotFollows
  BY FillersAreNothing DEF Init, HeldIsInExu, SlotFollows
<1>2. ReadsAreCurrent /\ ZeroStaysZero
  BY PipelineAssumption DEF Init, ReadsAreCurrent, ZeroStaysZero, NoWrite, NoAccess
<1>3. OneResult
  BY DEF Init, OneResult, NoWrite, NoAccess
<1> QED
  BY <1>1, <1>2, <1>3, InitInv, InitInPlace DEF RefInv

LEMMA ResetRef ==
  ASSUME Supported, RefInv, Reset
  PROVE  RefInv'
<1>1. IInv' /\ InPlace'
  BY NextInv, NextInPlace DEF Supported, RefInv, Next
<1>2. HeldIsInExu' /\ SlotFollows'
  BY FillersAreNothing DEF Reset, HeldIsInExu, SlotFollows, IsBranch, Real
<1>3. ReadsAreCurrent' /\ ZeroStaysZero'
  BY DEF RefInv, Reset, ReadsAreCurrent, ZeroStaysZero, NoWrite, NoAccess
<1>4. OneResult'
  BY DEF Reset, OneResult, NoWrite, NoAccess
<1> QED
  BY <1>1, <1>2, <1>3, <1>4 DEF RefInv

-----------------------------------------------------------------------------
(* A clock edge in which the pipeline stalls, and one in which it moves.   *)

LEMMA Stalls ==
  ASSUME Clock, exu_stall
  PROVE  /\ UNCHANGED <<ifu_vars, mul_vars, fls_vars>>
         /\ exu_uop' = IF spec_fls_rr THEN Bubble ELSE insn_r
         /\ exu_pc' = pc_rr
         /\ rop1_adr_r' = insn_r.rs /\ rop2_adr_r' = insn_r.rt
         /\ rop1_q' = Read(insn_r.rs) /\ rop2_q' = Read(insn_r.rt)
         /\ issued' = I!None
<1>1. ifu_stall
  BY DEF ifu_stall, exu_stall
<1>2. Hold
  BY DEF Clock, Issue
<1> QED
  BY <1>1, <1>2 DEF Clock, Hold, Decode, Fetch, Record, o_insn, o_pc, o_spec_fls

LEMMA Moves ==
  ASSUME TypeOK, Clock, ~exu_stall
  PROVE  /\ Issue
         /\ exu_uop' = IF spec_fls_r THEN Bubble ELSE insn
         /\ exu_pc' = pc_r
         /\ rop1_adr_r' = insn.rs /\ rop2_adr_r' = insn.rt
         /\ rop1_q' = Read(insn.rs) /\ rop2_q' = Read(insn.rt)
         /\ pc_r' = pc_nxt /\ pc_rr' = pc_r /\ insn_r' = insn
         /\ insn' \in Program /\ insn'.at = pc_nxt /\ Real(insn')
<1>1. ~ifu_stall
  BY DEF ifu_stall, exu_stall
<1>2. Issue
  BY DEF Clock, Hold
<1>3. insn' \in Fetched(pc_nxt)
  BY <1>1 DEF Clock, Fetch
<1>4. insn' \in Program /\ insn'.at = pc_nxt /\ Real(insn')
  BY <1>3, NextFetchTyped, FetchedIsReal
<1> QED
  BY <1>1, <1>2, <1>4 DEF Clock, Decode, Fetch, o_insn, o_pc, o_spec_fls

LEMMA ClockHeld ==
  ASSUME TypeOK, HeldIsInExu, Clock
  PROVE  HeldIsInExu'
<1>1. CASE exu_stall
  BY <1>1, Stalls, FillersAreNothing DEF HeldIsInExu, Real, ifu_vars, fls_vars
<1>2. CASE ~exu_stall
  <2>1. spec_fls_rr' = spec_fls_r
    BY <1>2, Moves DEF Issue
  <2>2. exu_uop' = IF spec_fls_rr' THEN Bubble ELSE insn_r'
    BY <1>2, <2>1, Moves
  <2>3. Real(insn') /\ exu_pc' = pc_rr'
    BY <1>2, Moves
  <2> QED
    BY <2>2, <2>3 DEF HeldIsInExu, Real
<1> QED
  BY <1>1, <1>2

\* While it stalls EXU keeps its instruction, if it has one.
LEMMA StallKeepsInsn ==
  ASSUME HeldIsInExu, Clock, exu_stall
  PROVE  /\ Real(exu_uop) <=> Real(exu_uop')
         /\ Real(exu_uop) => exu_uop' = exu_uop /\ exu_pc' = exu_pc
BY Stalls, FillersAreNothing DEF HeldIsInExu, Real

LEMMA ClockSlot ==
  ASSUME TypeOK, NoBranchInSlot, HeldIsInExu, SlotFollows, Clock
  PROVE  SlotFollows'
<1>1. CASE exu_stall
  <2>1. IsBranch(exu_uop') => Real(exu_uop')
    BY FillersAreNothing DEF Real, IsBranch
  <2>2. pc_r' = pc_r
    BY <1>1, Stalls DEF ifu_vars
  <2> QED
    BY <1>1, <2>1, <2>2, StallKeepsInsn DEF SlotFollows, After, I!After, IsBranch
<1>2. CASE ~exu_stall
  <2> SUFFICES ASSUME IsBranch(exu_uop')  PROVE pc_r' = After(exu_pc')
    BY DEF SlotFollows, After, I!After
  <2>1. exu_uop' = insn /\ ~spec_fls_r
    BY <1>2, Moves, FillersAreNothing DEF IsBranch
  <2>2. ~IsBranch(exu_uop)
    BY <2>1 DEF NoBranchInSlot, IsBranch
  <2>3. ~bp_taken
    BY <2>2 DEF bp_taken, IsBranch
  <2> QED
    BY <1>2, <2>1, <2>3, Moves DEF pc_nxt, ifu_fls_nxt, After, I!After
<1> QED
  BY <1>1, <1>2

-----------------------------------------------------------------------------
(* Results: where they are and what they replace.                          *)

\* What EXU sends on, by the kind of instruction it holds.
LEMMA IssuedResults ==
  ASSUME TypeOK
  PROVE  /\ exu_uop.op \in I!Alu =>
              alu_wb = Write(I!Destination(exu_uop), I!Result(exu_uop, rop1, rop2))
         /\ exu_uop.op = "MUL" => alu_wb = Write(exu_uop.rd, 0)
         /\ exu_uop.op = "JAL" => alu_wb = Write(Link, After(ds_pc))
         /\ exu_uop.op \notin I!Alu \union {"MUL", "JAL"} => alu_wb = NoWrite
         /\ exu_uop.op = "MUL" =>
              mul_nxt = Write(exu_uop.rd, I!Result(exu_uop, rop1, rop2))
         /\ exu_uop.op # "MUL" => mul_nxt = NoWrite
BY DEF alu_wb, mul_nxt, I!Alu

LEMMA IssuedAccess ==
  ASSUME NEW q \in lsu_nxt
  PROVE  /\ exu_uop.op = "LW" =>
              /\ q.kind = "load" /\ q.rd = exu_uop.rt /\ q.dat \in Answers
              /\ q.addr = (rop1 + exu_uop.imm) % Values
         /\ exu_uop.op = "SW" =>
              /\ q.kind = "store" /\ q.dat = rop2
              /\ q.addr = (rop1 + exu_uop.imm) % Values
         /\ exu_uop.op \notin {"LW", "SW"} => q.kind = "none"
<1>1. CASE exu_uop.op = "LW"
  BY <1>1 DEF lsu_nxt
<1>2. CASE exu_uop.op = "SW"
  BY <1>2 DEF lsu_nxt
<1>3. CASE exu_uop.op \notin {"LW", "SW"}
  BY <1>3 DEF lsu_nxt, NoAccess
<1> QED
  BY <1>1, <1>2, <1>3

\* The stall of the memory holds LSU, that of the cache alone empties it.
LEMMA StalledResults ==
  ASSUME Clock, exu_stall
  PROVE  /\ lsu_stall => UNCHANGED lsu_vars /\ wb_r' = NoWrite
         /\ ~lsu_stall => ic_stall /\ lsu_req' = NoAccess /\ lsu_wb' = NoWrite
                          /\ wb_r' = wb
         /\ UNCHANGED mul_vars
BY DEF Clock, Issue, Hold, WriteBack, wb, exu_stall, exu_inv

LEMMA NoMissDuringMul ==
  ASSUME ~MissDuringMul, Clock
  PROVE  wb_mul'.we => ~ic_stall'
BY DEF Clock, Environment

LEMMA ClockOneResult ==
  ASSUME TypeOK, ~MissDuringMul, OneResult, Clock
  PROVE  OneResult'
<1>1. wb_mul'.we /\ ic_stall' => lsu_req'.kind = "none" /\ ~lsu_wb'.we
  BY NoMissDuringMul
<1>2. CASE exu_stall /\ lsu_stall
  <2>1. /\ lsu_req' = lsu_req /\ lsu_wb' = lsu_wb /\ mul_r' = mul_r
        /\ wb_mul' = wb_mul /\ wb_r' = NoWrite
    BY <1>2, StalledResults DEF lsu_vars, mul_vars
  <2> QED
    BY <1>1, <2>1 DEF OneResult, NoWrite
<1>3. CASE exu_stall /\ ~lsu_stall
  <2>1. /\ lsu_req' = NoAccess /\ lsu_wb' = NoWrite /\ mul_r' = mul_r
        /\ wb_mul' = wb_mul /\ wb_r' = wb /\ ic_stall
    BY <1>3, StalledResults DEF mul_vars
  <2>2. wb_mul.we => ~wb.we
    BY <1>3, <2>1 DEF OneResult, wb
  <2> QED
    BY <1>1, <2>1, <2>2 DEF OneResult, NoWrite, NoAccess
<1>4. CASE ~exu_stall
  <2>1. /\ lsu_req' \in lsu_nxt /\ lsu_wb' = alu_wb /\ mul_r' = mul_nxt
        /\ wb_mul' = mul_r /\ wb_r' = wb
    BY <1>4, Moves DEF Issue, Clock, WriteBack
  <2>2. /\ lsu_req'.kind # "none" => exu_uop.op \in {"LW", "SW"}
        /\ exu_uop.op \in {"LW", "SW"} => ~lsu_wb'.we
        /\ mul_r'.we => exu_uop.op = "MUL"
        /\ exu_uop.op = "MUL" => lsu_wb'.adr = mul_r'.adr
    BY <2>1, IssuedAccess, IssuedResults DEF Write, NoWrite, I!Alu
  <2>3. mul_r.we /\ wb.we => wb.adr = mul_r.adr
    BY <1>4 DEF OneResult, wb, exu_stall, NoWrite
  <2> QED
    BY <1>1, <2>1, <2>2, <2>3 DEF OneResult
<1> QED
  BY <1>2, <1>3, <1>4

\* What is on its way to register 0 is zero.
LEMMA ZeroPorts ==
  ASSUME TypeOK, ZeroStaysZero
  PROVE  /\ wb.we /\ wb.adr = 0 => wb.dat = 0
         /\ rf_w.we /\ rf_w.adr = 0 => rf_w.dat = 0
         /\ Read(0) = 0
<1>1. wb.we /\ wb.adr = 0 => wb.dat = 0
  BY DEF ZeroStaysZero, wb, Write, NoWrite
<1>2. rf_w.we /\ rf_w.adr = 0 => rf_w.dat = 0
  BY DEF ZeroStaysZero, rf_w
<1> QED
  BY <1>1, <1>2 DEF Read

LEMMA ZeroOperand ==
  ASSUME TypeOK, ZeroStaysZero, ReadsAreCurrent
  PROVE  rop2_adr_r = 0 => rop2 = 0
BY ZeroPorts DEF ReadsAreCurrent, ZeroStaysZero, rop2, Bypass

\* A result of the instruction in EXU for register 0 is the nop's.
LEMMA ZeroResult ==
  ASSUME Supported, TypeOK, ZeroStaysZero, ReadsAreCurrent
  PROVE  /\ alu_wb.we /\ alu_wb.adr = 0 => alu_wb.dat = 0
         /\ mul_nxt.we => mul_nxt.adr # 0
         /\ exu_uop.op = "LW" => exu_uop.rt # 0
<1>1. CASE exu_uop \in {Nop, Bubble}
  <2>1. exu_uop.op \notin {"MUL", "LW"} /\ exu_uop.op # "JAL"
    BY <1>1 DEF Nop, Bubble
  <2>2. exu_uop = Bubble => alu_wb = NoWrite
    BY IssuedResults DEF Bubble, I!Alu
  <2>3. exu_uop = Nop => alu_wb = Write(0, (rop2 * 2) % Values)
    BY IssuedResults DEF Nop, I!Alu, I!Destination, I!RType, I!Result
  <2>4. exu_uop = Nop => rop2 = 0
    BY ZeroOperand, FillersAreNothing DEF ReadsAreCurrent, Nop
  <2>5. exu_uop = Nop => alu_wb.dat = 0
    BY <2>3, <2>4, PipelineAssumption DEF Write
  <2> QED
    BY <1>1, <2>1, <2>2, <2>5, IssuedResults DEF NoWrite
<1>2. CASE exu_uop \in Program \ {Nop, Bubble}
  <2>1. /\ exu_uop.op \in {"MUL", "JAL", "LW"} => I!Destination(exu_uop) # 0
        /\ exu_uop.op \in I!Alu /\ I!Destination(exu_uop) = 0 =>
             exu_uop.op = "SLL" /\ exu_uop.rt = 0
    BY <1>2 DEF Supported
  <2>2. /\ exu_uop.op = "MUL" => I!Destination(exu_uop) = exu_uop.rd
        /\ exu_uop.op = "JAL" => I!Destination(exu_uop) = Link
        /\ exu_uop.op = "LW" => I!Destination(exu_uop) = exu_uop.rt
    BY DEF I!Destination, I!RType
  <2>3. ASSUME exu_uop.op \in I!Alu, I!Destination(exu_uop) = 0
        PROVE  alu_wb.dat = 0
    <3>1. alu_wb = Write(I!Destination(exu_uop), (rop2 * 2) % Values)
      BY <2>1, <2>3, IssuedResults DEF I!Result
    <3>2. rop2 = 0
      BY <1>2, <2>1, <2>3, ZeroOperand DEF ReadsAreCurrent
    <3> QED
      BY <3>1, <3>2, PipelineAssumption DEF Write
  <2> QED
    BY <2>1, <2>2, <2>3, IssuedResults DEF Write, NoWrite
<1> QED
  BY <1>1, <1>2 DEF TypeOK

LEMMA ClockZero ==
  ASSUME Supported, TypeOK, ZeroStaysZero, ReadsAreCurrent, Clock
  PROVE  ZeroStaysZero'
<1>1. regfile'[0] = 0
  BY PipelineAssumption DEF TypeOK, ZeroStaysZero, Clock, WriteBack
<1>2. wb_r'.we /\ wb_r'.adr = 0 => wb_r'.dat = 0
  BY ZeroPorts DEF Clock, WriteBack
<1>3. CASE exu_stall
  <2>1. /\ lsu_req' \in {lsu_req, NoAccess} /\ lsu_wb' \in {lsu_wb, NoWrite}
        /\ mul_r' = mul_r /\ wb_mul' = wb_mul
    BY <1>3, StalledResults DEF lsu_vars, mul_vars
  <2> QED
    BY <1>1, <1>2, <2>1 DEF ZeroStaysZero, NoWrite, NoAccess
<1>4. CASE ~exu_stall
  <2>1. /\ lsu_req' \in lsu_nxt /\ lsu_wb' = alu_wb /\ mul_r' = mul_nxt
        /\ wb_mul' = mul_r
    BY <1>4, Moves DEF Issue
  <2>2. lsu_req'.kind = "load" => lsu_req'.rd # 0
    BY <2>1, IssuedAccess, ZeroResult
  <2> QED
    BY <1>1, <1>2, <2>1, <2>2, ZeroResult DEF ZeroStaysZero
<1> QED
  BY <1>3, <1>4

\* The register file port: what a read returns is what is in the register
\* after the edge.
LEMMA ReadSeesWrite ==
  ASSUME TypeOK, ZeroStaysZero, WriteBack, NEW r \in Registers
  PROVE  Read(r) = regfile'[r]
BY DEF TypeOK, ZeroStaysZero, WriteBack, Read

LEMMA ClockReads ==
  ASSUME TypeOK, HeldIsInExu, ZeroStaysZero, Clock
  PROVE  ReadsAreCurrent'
<1>1. \A r \in Registers : Read(r) = regfile'[r]
  BY ReadSeesWrite DEF Clock
<1>2. CASE exu_stall
  <2>1. insn_r.rs \in Registers /\ insn_r.rt \in Registers
    BY ShownTyped DEF TypeOK
  <2> QED
    BY <1>1, <1>2, <2>1, Stalls DEF ReadsAreCurrent
<1>3. CASE ~exu_stall
  <2>1. insn.rs \in Registers /\ insn.rt \in Registers
    BY ShownTyped DEF TypeOK
  <2> QED
    BY <1>1, <1>3, <2>1, Moves DEF ReadsAreCurrent
<1> QED
  BY <1>2, <1>3

LEMMA NextRef ==
  ASSUME Supported
  PROVE  RefInv /\ [Next]_vars => RefInv'
<1> SUFFICES ASSUME RefInv, [Next]_vars  PROVE RefInv'
  OBVIOUS
<1>1. IInv' /\ InPlace'
  BY NextInv, NextInPlace DEF Supported, RefInv
<1>2. CASE Clock
  BY <1>1, <1>2, ClockHeld, ClockSlot, ClockReads, ClockZero, ClockOneResult
     DEF RefInv, IInv, Supported
<1>3. CASE Reset
  BY <1>3, ResetRef
<1>4. CASE UNCHANGED vars
  <2> USE <1>4 DEF vars, ifu_vars, lsu_vars, mul_vars, fls_vars
  <2>1. HeldIsInExu' /\ SlotFollows'
    BY DEF RefInv, HeldIsInExu, SlotFollows, Real, IsBranch
  <2>2. ReadsAreCurrent' /\ ZeroStaysZero' /\ OneResult'
    BY DEF RefInv, ReadsAreCurrent, ZeroStaysZero, OneResult
  <2> QED
    BY <1>1, <2>1, <2>2 DEF RefInv
<1> QED
  BY <1>2, <1>3, <1>4 DEF Next

-----------------------------------------------------------------------------
(* The registers a program sees, wherever their values are.                *)

\* What is in register r after this cycle's write.
Settled(r) == IF rf_w.we /\ rf_w.adr = r THEN rf_w.dat ELSE regfile[r]

LEMMA InFlightTyped ==
  ASSUME TypeOK, NEW r \in Registers
  PROVE  InFlight(r) \in Data
BY PortsTyped DEF TypeOK, InFlight, Writes

SeesZero == InFlight(0) = 0

LEMMA InFlightZero == TypeOK /\ ZeroStaysZero => SeesZero
BY ZeroPorts DEF InFlight, ZeroStaysZero, SeesZero

LEMMA NextInFlightZero == TypeOK' /\ ZeroStaysZero' => SeesZero'
BY InFlightZero, PTL

LEMMA WriteBackSettles ==
  ASSUME TypeOK, ZeroStaysZero, ZeroStaysZero', WriteBack, NEW r \in Registers
  PROVE  regfile'[r] = Settled(r)
BY ZeroPorts DEF TypeOK, ZeroStaysZero, WriteBack, Settled

\* A stall moves results, and what a program sees stays the same.
LEMMA StallKeepsRegisters ==
  ASSUME RefInv, RefInv', Clock, exu_stall, NEW r \in Registers
  PROVE  InFlight(r)' = InFlight(r)
<1>1. regfile'[r] = Settled(r)
  BY WriteBackSettles DEF RefInv, IInv, Clock
<1>2. mul_r' = mul_r /\ wb_mul' = wb_mul
  BY StalledResults DEF mul_vars
<1>3. CASE lsu_stall
  <2>1. lsu_req' = lsu_req /\ lsu_wb' = lsu_wb /\ wb_r' = NoWrite
    BY <1>3, StalledResults DEF lsu_vars
  <2> QED
    BY <1>1, <1>2, <2>1 DEF InFlight, Settled, rf_w, NoWrite
<1>4. CASE ~lsu_stall
  <2>1. ic_stall /\ lsu_req' = NoAccess /\ lsu_wb' = NoWrite /\ wb_r' = wb
    BY <1>4, StalledResults
  <2>2. /\ lsu_req.kind = "load" => ~lsu_wb.we
        /\ wb_mul.we => lsu_req.kind = "none" /\ ~lsu_wb.we
    BY <2>1 DEF RefInv, OneResult
  <2>3. wb = IF lsu_req.kind = "load" THEN Write(lsu_req.rd, lsu_req.dat)
             ELSE lsu_wb
    BY <1>4 DEF wb
  <2>4. InFlight(r)' = IF mul_r.we /\ mul_r.adr = r THEN mul_r.dat
                       ELSE IF wb_mul.we /\ wb_mul.adr = r THEN wb_mul.dat
                       ELSE IF ~wb_mul.we /\ wb.we /\ wb.adr = r THEN wb.dat
                       ELSE Settled(r)
    BY <1>1, <1>2, <2>1 DEF InFlight, rf_w, NoWrite, NoAccess
  <2> QED
    BY <2>2, <2>3, <2>4 DEF InFlight, Settled, rf_w, Write
<1> QED
  BY <1>3, <1>4

\* When the pipeline moves, everything older than the instruction in EXU
\* settles.
LEMMA MoveSettles ==
  ASSUME RefInv, RefInv', Clock, ~exu_stall, NEW r \in Registers
  PROVE  Settled(r)' = InFlight(r)
<1>1. regfile'[r] = Settled(r)
  BY WriteBackSettles DEF RefInv, IInv, Clock
<1>2. wb_mul' = mul_r /\ wb_r' = wb
  BY Moves DEF RefInv, IInv, Issue, Clock, WriteBack
<1>3. wb = IF lsu_req.kind = "load" THEN Write(lsu_req.rd, lsu_req.dat)
           ELSE lsu_wb
  BY DEF wb, exu_stall
<1>4. /\ lsu_req.kind = "load" => ~lsu_wb.we
      /\ mul_r.we => lsu_req.kind = "none"
      /\ mul_r.we /\ lsu_wb.we => lsu_wb.adr = mul_r.adr
  BY DEF RefInv, OneResult
<1>5. Settled(r)' = IF mul_r.we /\ mul_r.adr = r THEN mul_r.dat
                    ELSE IF ~mul_r.we /\ wb.we /\ wb.adr = r THEN wb.dat
                    ELSE Settled(r)
  BY <1>1, <1>2 DEF Settled, rf_w
<1>6. /\ mul_r.we /\ mul_r.adr # r => ~(wb.we /\ wb.adr = r)
      /\ wb.we /\ wb.adr = r =>
           wb.dat = IF lsu_req.kind = "load" /\ lsu_req.rd = r THEN lsu_req.dat
                    ELSE lsu_wb.dat
      /\ ~(wb.we /\ wb.adr = r) => /\ ~(lsu_req.kind = "load" /\ lsu_req.rd = r)
                                   /\ ~(lsu_wb.we /\ lsu_wb.adr = r)
      /\ wb.we /\ wb.adr = r => \/ lsu_req.kind = "load" /\ lsu_req.rd = r
                                \/ lsu_wb.we /\ lsu_wb.adr = r
  BY <1>3, <1>4 DEF Write
<1> QED
  BY <1>5, <1>6 DEF InFlight, Settled

\* An operand is what the program sees in its register, except behind a MUL.
LEMMA OperandIsInFlight ==
  ASSUME RefInv, ~exu_stall, NEW r \in Registers,
         ~(mul_r.we /\ mul_r.adr = r)
  PROVE  Bypass(r, regfile[r]) = InFlight(r)
<1>1. wb = IF lsu_req.kind = "load" THEN Write(lsu_req.rd, lsu_req.dat)
           ELSE lsu_wb
  BY DEF wb, exu_stall
<1>2. lsu_req.kind = "load" => ~lsu_wb.we
  BY DEF RefInv, OneResult
<1> QED
  BY <1>1, <1>2 DEF Bypass, InFlight, Write

LEMMA ReadsOperands ==
  ASSUME RefInv, ~exu_stall, Real(exu_uop)
  PROVE  /\ rop1 \in Arch!Operand(exu_uop.rs)
         /\ rop2 \in Arch!Operand(exu_uop.rt)
<1>1. /\ rop1 = Bypass(exu_uop.rs, regfile[exu_uop.rs])
      /\ rop2 = Bypass(exu_uop.rt, regfile[exu_uop.rt])
  BY DEF RefInv, ReadsAreCurrent, rop1, rop2, Real
<1>2. rop1 \in Data /\ rop2 \in Data
  BY OperandsTyped DEF RefInv, IInv
<1>3. exu_uop.rs \in Registers /\ exu_uop.rt \in Registers
  BY ShownTyped DEF RefInv, IInv, TypeOK
<1>4. ASSUME NEW r \in Registers, NEW v \in Data, v = Bypass(r, regfile[r])
      PROVE  v \in Arch!Operand(r)
  <2>1. CASE mul_r.we /\ mul_r.adr = r
    BY <1>4, <2>1 DEF Arch!Operand, Arch!Data, Data, I!Data
  <2>2. CASE ~(mul_r.we /\ mul_r.adr = r)
    <3>1. v = InFlight(r)
      BY <1>4, <2>2, OperandIsInFlight
    <3>2. [q \in Registers |-> InFlight(q)][r] = InFlight(r)
      OBVIOUS
    <3> QED
      BY <2>2, <3>1, <3>2 DEF Arch!Operand
  <2> QED
    BY <2>1, <2>2
<1> QED
  BY <1>1, <1>2, <1>3, <1>4

-----------------------------------------------------------------------------
(* The instructions to come.                                               *)

\* The instruction behind EXU is a real one and will not be flushed.
Behind == Real(insn) /\ ~spec_fls_r

LEMMA Concats ==
  ASSUME NEW a, NEW b, NEW c, NEW d
  PROVE  /\ (<<a>> \o <<b>> \o <<c, d>>)[1] = a
         /\ (<<a>> \o <<b>> \o <<c, d>>)[2] = b
         /\ (<<a>> \o <<>> \o <<c, d>>)[1] = a
         /\ (<<a>> \o <<>> \o <<c, d>>)[2] = c
         /\ (<<>> \o <<b>> \o <<c, d>>)[1] = b
         /\ (<<>> \o <<b>> \o <<c, d>>)[2] = c
         /\ (<<>> \o <<>> \o <<c, d>>)[1] = c
         /\ (<<>> \o <<>> \o <<c, d>>)[2] = d
<1> DEFINE S == {a, b, c, d}
<1>1. /\ <<>> \in Seq(S) /\ <<a>> \in Seq(S) /\ <<b>> \in Seq(S)
      /\ <<c, d>> \in Seq(S)
  OBVIOUS
<1>2. ASSUME NEW s \in Seq(S)
      PROVE  /\ (s \o <<c, d>>)[1] = IF 1 <= Len(s) THEN s[1] ELSE <<c, d>>[1 - Len(s)]
             /\ (s \o <<c, d>>)[2] = IF 2 <= Len(s) THEN s[2] ELSE <<c, d>>[2 - Len(s)]
  <2>1. Len(s) \in Nat /\ Len(<<c, d>>) = 2
    BY <1>2
  <2>2. 1 \in 1 .. Len(s) + 2 /\ 2 \in 1 .. Len(s) + 2
    BY <2>1
  <2> HIDE DEF S
  <2> QED
    BY <1>1, <1>2, <2>1, <2>2, ConcatProperties
<1>3. /\ <<a>> \o <<b>> \in Seq(S) /\ Len(<<a>> \o <<b>>) = 2
      /\ (<<a>> \o <<b>>)[1] = a /\ (<<a>> \o <<b>>)[2] = b
  <2>1. Len(<<a>>) = 1 /\ Len(<<b>>) = 1
    OBVIOUS
  <2>2. 1 \in 1 .. Len(<<a>>) + Len(<<b>>) /\ 2 \in 1 .. Len(<<a>>) + Len(<<b>>)
    BY <2>1
  <2>3. <<a>>[1] = a /\ <<b>>[2 - 1] = b
    OBVIOUS
  <2> HIDE DEF S
  <2>4. /\ <<a>> \o <<b>> \in Seq(S)
        /\ Len(<<a>> \o <<b>>) = Len(<<a>>) + Len(<<b>>)
        /\ \A i \in 1 .. Len(<<a>>) + Len(<<b>>) :
             (<<a>> \o <<b>>)[i] = IF i <= Len(<<a>>) THEN <<a>>[i]
                                   ELSE <<b>>[i - Len(<<a>>)]
    BY <1>1, ConcatProperties
  <2>5. /\ (<<a>> \o <<b>>)[1] = <<a>>[1]
        /\ (<<a>> \o <<b>>)[2] = <<b>>[2 - 1]
    BY <2>1, <2>2, <2>4
  <2> QED
    BY <2>1, <2>3, <2>4, <2>5
<1>4. <<a>> \o <<>> = <<a>> /\ <<>> \o <<b>> = <<b>> /\ <<>> \o <<>> = <<>>
  <2> HIDE DEF S
  <2> QED
    BY <1>1, ConcatEmptySeq
<1>5. /\ Len(<<a>>) = 1 /\ Len(<<b>>) = 1 /\ Len(<<>>) = 0
      /\ <<a>>[1] = a /\ <<b>>[1] = b /\ <<c, d>>[1] = c /\ <<c, d>>[2] = d
  OBVIOUS
<1> HIDE DEF S
<1>6. (<<a>> \o <<b>> \o <<c, d>>)[1] = a /\ (<<a>> \o <<b>> \o <<c, d>>)[2] = b
  BY <1>2, <1>3
<1>7. (<<a>> \o <<>> \o <<c, d>>)[1] = a /\ (<<a>> \o <<>> \o <<c, d>>)[2] = c
  BY <1>1, <1>2, <1>4, <1>5
<1>8. (<<>> \o <<b>> \o <<c, d>>)[1] = b /\ (<<>> \o <<b>> \o <<c, d>>)[2] = c
  BY <1>1, <1>2, <1>4, <1>5
<1>9. (<<>> \o <<>> \o <<c, d>>)[1] = c /\ (<<>> \o <<>> \o <<c, d>>)[2] = d
  BY <1>1, <1>2, <1>4, <1>5
<1> QED
  BY <1>6, <1>7, <1>8, <1>9

UpcomingShape ==
  /\ Upcoming[1] = IF Real(exu_uop) THEN exu_pc
                   ELSE IF Behind THEN pc_r ELSE pc_nxt
  /\ Upcoming[2] = IF Real(exu_uop)
                   THEN IF Behind THEN pc_r ELSE pc_nxt
                   ELSE IF Behind THEN pc_nxt ELSE After(pc_nxt)

LEMMA UpcomingIs == UpcomingShape
<1> DEFINE a == exu_pc
           b == pc_r
           c == pc_nxt
           d == After(pc_nxt)
<1>1. Upcoming = (IF Real(exu_uop) THEN <<a>> ELSE <<>>)
                 \o (IF Behind THEN <<b>> ELSE <<>>) \o <<c, d>>
  BY DEF Upcoming, Behind
<1>2. UpcomingShape <=>
        /\ Upcoming[1] = IF Real(exu_uop) THEN a ELSE IF Behind THEN b ELSE c
        /\ Upcoming[2] = IF Real(exu_uop) THEN IF Behind THEN b ELSE c
                         ELSE IF Behind THEN c ELSE d
  BY DEF UpcomingShape
<1> HIDE DEF a, b, c, d
<1>3. CASE Real(exu_uop) /\ Behind
  BY <1>1, <1>2, <1>3, Concats
<1>4. CASE Real(exu_uop) /\ ~Behind
  BY <1>1, <1>2, <1>4, Concats
<1>5. CASE ~Real(exu_uop) /\ Behind
  BY <1>1, <1>2, <1>5, Concats
<1>6. CASE ~Real(exu_uop) /\ ~Behind
  BY <1>1, <1>2, <1>6, Concats
<1> QED
  BY <1>3, <1>4, <1>5, <1>6

LEMMA NextUpcomingIs == UpcomingShape'
BY UpcomingIs, PTL

LEMMA PenaltyIs ==
  ASSUME issued' = I!None
  PROVE  Count(issued.op \in I!Bcc /\ spec_fls_r)' = 0
BY DEF Count, I!None, I!Bcc

\* A stall leaves the next two instructions what they are.
LEMMA StallKeepsUpcoming ==
  ASSUME RefInv, Clock, exu_stall
  PROVE  Upcoming[1]' = Upcoming[1] /\ Upcoming[2]' = Upcoming[2]
<1>1. /\ Real(exu_uop) <=> Real(exu_uop')
      /\ Real(exu_uop) => exu_uop' = exu_uop /\ exu_pc' = exu_pc
  BY StallKeepsInsn DEF RefInv
<1>2. /\ pc_r' = pc_r /\ insn' = insn
      /\ spec_fls_r' = spec_fls_r /\ spec_fls_pc_r' = spec_fls_pc_r
  BY Stalls DEF ifu_vars, fls_vars
<1>3. bp_taken' = bp_taken /\ (bp_taken => bcc_tgt' = bcc_tgt)
  <2>1. bp_taken => Real(exu_uop)
    BY DEF bp_taken, Real, Nop, Bubble, I!Bcc
  <2>2. bp_taken' => Real(exu_uop')
    BY DEF bp_taken, Real, Nop, Bubble, I!Bcc
  <2> QED
    BY <1>1, <2>1, <2>2 DEF bp_taken, bcc_tgt, ds_pc, After, I!After
<1>4. pc_nxt' = pc_nxt
  BY <1>2, <1>3 DEF pc_nxt, ifu_fls_nxt, ifu_fls_pc_nxt, After, I!After
<1>5. Behind' = Behind
  BY <1>2 DEF Behind, Real
<1>6. After(pc_nxt)' = After(pc_nxt)
  BY <1>4 DEF After, I!After
<1> QED
  BY <1>1, <1>2, <1>4, <1>5, <1>6, UpcomingIs, NextUpcomingIs
     DEF UpcomingShape, Real

-----------------------------------------------------------------------------
(* The steps that execute nothing.                                         *)

SeenRegisters == [r \in Registers |-> InFlight(r)]

\* A stall is a Wait of the architecture.
LEMMA StallWaits ==
  ASSUME RefInv, RefInv', Clock, exu_stall
  PROVE  Arch!Wait
<1>1. Upcoming[1]' = Upcoming[1] /\ Upcoming[2]' = Upcoming[2]
  BY StallKeepsUpcoming
<1>2. SeenRegisters' = SeenRegisters
  BY StallKeepsRegisters DEF SeenRegisters
<1>3. issued' = I!None
  BY Stalls
<1>4. Count(issued.op \in I!Bcc /\ spec_fls_r)' = 0
  BY <1>3, PenaltyIs
<1>5. mul_r' = mul_r
  BY StalledResults DEF mul_vars
<1>6. lsu_req' \in {lsu_req, NoAccess}
  BY StalledResults DEF lsu_vars
<1>7. ArchAccess' \in {ArchAccess, Arch!NoAccess}
  BY <1>6 DEF ArchAccess, NoAccess, Arch!NoAccess
<1> QED
  BY <1>1, <1>2, <1>3, <1>4, <1>5, <1>7
     DEF Arch!Wait, Arch!None, I!None, I!Bcc, Arch!Bcc, SeenRegisters

\* What a program sees when the pipeline moves: the older values, with the
\* result of the instruction in EXU on top.
LEMMA MoveShows ==
  ASSUME RefInv, RefInv', Clock, ~exu_stall, NEW r \in Registers
  PROVE  InFlight(r)' =
           IF mul_nxt.we /\ mul_nxt.adr = r THEN mul_nxt.dat
           ELSE IF lsu_req'.kind = "load" /\ lsu_req'.rd = r THEN lsu_req'.dat
           ELSE IF alu_wb.we /\ alu_wb.adr = r THEN alu_wb.dat
           ELSE InFlight(r)
<1>1. lsu_wb' = alu_wb /\ mul_r' = mul_nxt
  BY Moves DEF RefInv, IInv, Issue
<1>2. Settled(r)' = InFlight(r)
  BY MoveSettles
<1> HIDE DEF alu_wb, mul_nxt
<1>3. InFlight(r)' =
        IF mul_r'.we /\ mul_r'.adr = r THEN mul_r'.dat
        ELSE IF lsu_req'.kind = "load" /\ lsu_req'.rd = r THEN lsu_req'.dat
        ELSE IF lsu_wb'.we /\ lsu_wb'.adr = r THEN lsu_wb'.dat
        ELSE Settled(r)'
  BY DEF InFlight, Settled
<1> QED
  BY <1>1, <1>2, <1>3

\* The next but one address, when nothing redirects it.
LEMMA MoveFetchesOn ==
  ASSUME TypeOK, Clock, ~exu_stall, ~IsBranch(exu_uop), ~IsBranch(exu_uop')
  PROVE  spec_fls_r' = FALSE /\ pc_nxt' = After(pc_nxt)
<1>1. spec_fls_r' = FALSE
  BY Moves, TargetsTyped DEF Issue
<1>2. ~bp_taken'
  BY DEF bp_taken, IsBranch
<1>3. pc_r' = pc_nxt
  BY Moves
<1> QED
  BY <1>1, <1>2, <1>3 DEF pc_nxt, ifu_fls_nxt, After, I!After

\* So is a move with a bubble, or the word shown after power-up, in EXU.
LEMMA FillerWaits ==
  ASSUME Supported, RefInv, RefInv', Clock, ~exu_stall, ~Real(exu_uop)
  PROVE  Arch!Wait
<1>1. exu_uop \in {Nop, Bubble}
  BY DEF Real
<1>2. ~IsBranch(exu_uop) /\ exu_uop.op \notin {"LW", "SW", "MUL", "JAL"}
  BY <1>1, FillersAreNothing DEF Nop, Bubble
<1>3. /\ mul_nxt = NoWrite /\ (alu_wb.we => alu_wb.adr = 0 /\ alu_wb.dat = 0)
  <2>1. exu_uop = Bubble => alu_wb = NoWrite
    BY IssuedResults DEF RefInv, IInv, Bubble, I!Alu
  <2>2. exu_uop = Nop => alu_wb.adr = 0
    BY IssuedResults DEF RefInv, IInv, Nop, I!Alu, I!Destination, I!RType, Write
  <2>3. alu_wb.we /\ alu_wb.adr = 0 => alu_wb.dat = 0
    BY ZeroResult DEF RefInv, IInv
  <2> QED
    BY <1>1, <1>2, <2>1, <2>2, <2>3, IssuedResults DEF RefInv, IInv, NoWrite
<1>4. lsu_req' \in lsu_nxt /\ mul_r' = mul_nxt
  BY Moves DEF RefInv, IInv, Issue
<1>5. lsu_req'.kind = "none"
  BY <1>2, <1>4, IssuedAccess
<1>6. SeenRegisters' = SeenRegisters
  <2>1. InFlight(0) = 0
    BY InFlightZero DEF RefInv, IInv, SeesZero
  <2>2. ASSUME NEW r \in Registers  PROVE InFlight(r)' = InFlight(r)
    BY <1>3, <1>5, <2>1, MoveShows DEF NoWrite
  <2> QED
    BY <2>2 DEF SeenRegisters
<1>7. issued' = I!None
  BY DEF Clock, Record
<1>8. Count(issued.op \in I!Bcc /\ spec_fls_r)' = 0
  BY <1>7, PenaltyIs
<1>9. Upcoming[1]' = Upcoming[1] /\ Upcoming[2]' = Upcoming[2]
  <2>1. Real(insn') /\ pc_r' = pc_nxt /\ exu_pc' = pc_r
    BY Moves DEF RefInv, IInv
  <2>2. spec_fls_r' = FALSE
    BY <1>2, Moves, TargetsTyped DEF RefInv, IInv, Issue
  <2>3. Behind'
    BY <2>1, <2>2 DEF Behind, Real
  <2>4. Real(exu_uop') <=> Behind
    BY Moves, FillersAreNothing DEF RefInv, IInv, Behind, Real
  <2>5. CASE Behind
    BY <2>1, <2>3, <2>4, <2>5, UpcomingIs, NextUpcomingIs
       DEF UpcomingShape, Real
  <2>6. CASE ~Behind
    <3>1. ~IsBranch(exu_uop')
      BY <2>4, <2>6, FillersAreNothing DEF Real, IsBranch
    <3>2. pc_nxt' = After(pc_nxt)
      BY <1>2, <3>1, MoveFetchesOn DEF RefInv, IInv
    <3> QED
      BY <2>1, <2>3, <2>4, <2>6, <3>2, UpcomingIs, NextUpcomingIs
         DEF UpcomingShape, Real
  <2> QED
    BY <2>5, <2>6
<1>10. ArchAccess' = Arch!NoAccess
  BY <1>5 DEF ArchAccess, Arch!NoAccess
<1>11. ~mul_r'.we
  BY <1>3, <1>4 DEF NoWrite
<1> QED
  BY <1>6, <1>7, <1>8, <1>9, <1>10, <1>11
     DEF Arch!Wait, Arch!None, I!None, I!Bcc, Arch!Bcc, SeenRegisters

-----------------------------------------------------------------------------
(* The step that executes an instruction: the one in EXU, call it i.       *)

LEMMA ExecutedIs ==
  ASSUME TypeOK, Real(exu_uop)
  PROVE  exu_uop \in Program
BY DEF TypeOK, Real

\* The operators of the architecture do not depend on its state.
LEMMA SameArchitecture ==
  ASSUME NEW i, NEW a, NEW b
  PROVE  /\ Arch!Result(i, a, b) = I!Result(i, a, b)
         /\ Arch!Taken(i, a, b) <=> I!Taken(i, a, b)
         /\ Arch!Target(i, a) = I!Target(i, a)
         /\ Arch!Destination(i) = I!Destination(i)
         /\ Arch!Alu = I!Alu /\ Arch!Bcc = I!Bcc /\ Arch!Jumps = I!Jumps
<1>1. Arch!Alu = I!Alu /\ Arch!Bcc = I!Bcc /\ Arch!Jumps = I!Jumps
  BY DEF Arch!Alu, I!Alu, Arch!Bcc, I!Bcc, Arch!Jumps, I!Jumps
<1>2. Arch!Destination(i) = I!Destination(i)
  BY DEF Arch!Destination, I!Destination, Arch!RType, I!RType
<1>3. Arch!Taken(i, a, b) <=> I!Taken(i, a, b)
  BY <1>1 DEF Arch!Taken, I!Taken
<1>4. Arch!Target(i, a) = I!Target(i, a)
  BY <1>1 DEF Arch!Target, I!Target, Arch!After, I!After
<1>5. Arch!Result(i, a, b) = I!Result(i, a, b)
  BY DEF Arch!Result, I!Result, Arch!After, I!After
<1> QED
  BY <1>1, <1>2, <1>3, <1>4, <1>5

\* Its result is seen from now on, in its register and in no other.
LEMMA ExecuteWrites ==
  ASSUME Supported, RefInv, RefInv', Clock, ~exu_stall, Real(exu_uop)
  PROVE  SeenRegisters' \in
           IF exu_uop.op \in Arch!Alu \union {"MUL", "JAL"}
           THEN {Arch!Set(Arch!Destination(exu_uop),
                          Arch!Result(exu_uop, rop1, rop2))}
           ELSE IF exu_uop.op = "LW"
           THEN {Arch!Set(exu_uop.rt, v) : v \in Answers}
           ELSE {SeenRegisters}
<1> DEFINE d == Arch!Destination(exu_uop)
           res == Arch!Result(exu_uop, rop1, rop2)
<1>1. exu_uop \in Program
  BY ExecutedIs DEF RefInv, IInv
<1>2. d \in Registers /\ d = I!Destination(exu_uop)
  BY <1>1, DestinationTyped, SameArchitecture
<1>3. res = I!Result(exu_uop, rop1, rop2)
  BY SameArchitecture
<1>4. \A r \in Registers : SeenRegisters[r] = InFlight(r)
  BY DEF SeenRegisters
<1>5. \A v : Arch!Set(d, v) = IF d = 0 THEN SeenRegisters
                              ELSE [SeenRegisters EXCEPT ![d] = v]
  BY DEF Arch!Set, SeenRegisters
<1>6. lsu_req' \in lsu_nxt
  BY Moves DEF RefInv, IInv, Issue
<1>7. InFlight(0) = 0 /\ InFlight(0)' = 0
  BY InFlightZero, NextInFlightZero DEF RefInv, IInv, SeesZero
<1>8. SeenRegisters = [r \in Registers |-> InFlight(r)]
      /\ SeenRegisters' = [r \in Registers |-> InFlight(r)']
  BY DEF SeenRegisters
<1> HIDE DEF d, res
<1>9. CASE exu_uop.op \in I!Alu \union {"MUL", "JAL"}
  <2>1. lsu_req'.kind = "none"
    BY <1>6, <1>9, IssuedAccess DEF I!Alu
  <2>2. d # 0 => \A r \in Registers :
          InFlight(r)' = IF r = d THEN res ELSE InFlight(r)
    <3>1. CASE exu_uop.op = "MUL"
      <4>1. d = exu_uop.rd
        BY <1>2, <3>1 DEF I!Destination, I!RType
      <4>2. /\ mul_nxt = Write(d, res)
            /\ alu_wb = Write(d, 0)
        BY <1>3, <3>1, <4>1, IssuedResults DEF RefInv, IInv
      <4> QED
        BY <2>1, <4>2, MoveShows DEF Write
    <3>2. CASE exu_uop.op \in I!Alu
      <4>1. mul_nxt = NoWrite /\ alu_wb = Write(d, res)
        BY <1>2, <1>3, <3>2, IssuedResults DEF RefInv, IInv, I!Alu
      <4> QED
        BY <2>1, <4>1, MoveShows DEF Write, NoWrite
    <3>3. CASE exu_uop.op = "JAL"
      <4>1. d = Link
        BY <1>2, <3>3 DEF I!Destination
      <4>2. res = After(ds_pc)
        <5>1. exu_uop.at = exu_pc
          BY DEF RefInv, InPlace, ExecutesWhatIsThere
        <5> QED
          BY <1>3, <3>3, <5>1 DEF I!Result, ds_pc, After
      <4>3. mul_nxt = NoWrite /\ alu_wb = Write(d, res)
        BY <3>3, <4>1, <4>2, IssuedResults DEF RefInv, IInv
      <4> QED
        BY <2>1, <4>3, MoveShows DEF Write, NoWrite
    <3> QED
      BY <1>9, <3>1, <3>2, <3>3
  <2>3. d = 0 => \A r \in Registers : InFlight(r)' = InFlight(r)
    <3> SUFFICES ASSUME d = 0, NEW r \in Registers  PROVE InFlight(r)' = InFlight(r)
      OBVIOUS
    <3>1. exu_uop.op = "SLL"
      BY <1>1, <1>2, <1>9 DEF Supported
    <3>2. mul_nxt = NoWrite /\ alu_wb = Write(0, res)
      BY <1>2, <1>3, <3>1, IssuedResults DEF RefInv, IInv, I!Alu
    <3> QED
      BY <1>7, <2>1, <3>2, MoveShows DEF Write, NoWrite
  <2>4. SeenRegisters' = Arch!Set(d, res)
    BY <1>2, <1>5, <1>8, <2>2, <2>3
  <2> QED
    BY <1>9, <2>4, SameArchitecture DEF d, res
<1>10. CASE exu_uop.op = "LW"
  <2>1. d = exu_uop.rt /\ d # 0
    BY <1>1, <1>2, <1>10 DEF I!Destination, I!RType, Supported
  <2>2. /\ lsu_req'.kind = "load" /\ lsu_req'.rd = d
        /\ lsu_req'.dat \in Answers
    BY <1>6, <1>10, <2>1, IssuedAccess
  <2>3. mul_nxt = NoWrite /\ alu_wb = NoWrite
    BY <1>10, IssuedResults DEF RefInv, IInv, I!Alu
  <2>4. \A r \in Registers :
          InFlight(r)' = IF r = d THEN lsu_req'.dat ELSE InFlight(r)
    BY <2>2, <2>3, MoveShows DEF NoWrite
  <2>5. SeenRegisters' = Arch!Set(d, lsu_req'.dat)
    BY <1>2, <1>5, <1>8, <2>1, <2>4
  <2> QED
    BY <1>10, <2>1, <2>2, <2>5, SameArchitecture DEF I!Alu
<1>11. CASE exu_uop.op \notin I!Alu \union {"MUL", "JAL", "LW"}
  <2>1. lsu_req'.kind # "load"
    BY <1>6, <1>11, IssuedAccess
  <2>2. mul_nxt = NoWrite /\ alu_wb = NoWrite
    BY <1>11, IssuedResults DEF RefInv, IInv
  <2>3. \A r \in Registers : InFlight(r)' = InFlight(r)
    BY <2>1, <2>2, MoveShows DEF NoWrite
  <2> QED
    BY <1>8, <1>11, <2>3, SameArchitecture
<1> QED
  BY <1>9, <1>10, <1>11

\* Behind the next instruction, IFU fetches from where the architecture goes.
LEMMA ExecuteContinues ==
  ASSUME Supported, RefInv, RefInv', Clock, ~exu_stall, Real(exu_uop)
  PROVE  /\ Upcoming[1]' = Upcoming[2]
         /\ Upcoming[2]' = IF Arch!Taken(exu_uop, rop1, rop2)
                           THEN Arch!Target(exu_uop, rop1)
                           ELSE After(Upcoming[2])
<1> DEFINE i == exu_uop
<1>1. Real(insn) /\ exu_uop.at = exu_pc
  BY DEF RefInv, HeldIsInExu, InPlace, ExecutesWhatIsThere, Real
<1>2. /\ exu_uop' = IF spec_fls_r THEN Bubble ELSE insn
      /\ exu_pc' = pc_r /\ pc_r' = pc_nxt /\ Real(insn')
      /\ Issue
  BY Moves DEF RefInv, IInv
<1>3. spec_fls_r' = (bcc_spec_fls \/ j_taken)
  BY <1>2 DEF Issue
<1>4. Behind <=> ~spec_fls_r
  BY <1>1 DEF Behind
<1>5. Behind' <=> ~spec_fls_r'
  BY <1>2 DEF Behind, Real
<1>6. Upcoming[2] = IF spec_fls_r THEN pc_nxt ELSE pc_r
  BY <1>4, UpcomingIs DEF UpcomingShape
<1>7. Arch!Taken(exu_uop, rop1, rop2) <=> I!Taken(exu_uop, rop1, rop2)
  BY SameArchitecture
<1>8. Arch!Target(exu_uop, rop1) = I!Target(exu_uop, rop1)
  BY SameArchitecture
<1>9. ~IsBranch(exu_uop) => ~I!Taken(exu_uop, rop1, rop2)
  BY DEF IsBranch, I!Taken, I!Bcc, I!Jumps
<1>10. CASE spec_fls_r
  <2>1. ~IsBranch(exu_uop) /\ ~Real(exu_uop') /\ ~IsBranch(exu_uop')
    BY <1>2, <1>10, FillersAreNothing DEF RefInv, IInv, NoBranchInSlot, Real, IsBranch
  <2>2. spec_fls_r' = FALSE /\ pc_nxt' = After(pc_nxt)
    BY <2>1, MoveFetchesOn DEF RefInv, IInv
  <2>3. Upcoming[1]' = pc_nxt /\ Upcoming[2]' = After(pc_nxt)
    BY <1>2, <1>5, <2>1, <2>2, NextUpcomingIs DEF UpcomingShape, Real
  <2> QED
    BY <1>6, <1>7, <1>9, <1>10, <2>1, <2>3
<1>11. CASE ~spec_fls_r
  <2>1. Real(exu_uop') /\ exu_uop' = insn
    BY <1>1, <1>2, <1>11 DEF Real
  <2>2. /\ Upcoming[1]' = pc_r
        /\ Upcoming[2]' = IF spec_fls_r' THEN pc_nxt' ELSE pc_nxt
    BY <1>2, <1>5, <2>1, NextUpcomingIs DEF UpcomingShape, Real
  <2>3. pc_nxt = IF bp_taken THEN bcc_tgt ELSE After(pc_r)
    BY <1>11 DEF pc_nxt, ifu_fls_nxt, ifu_fls_pc_nxt
  <2>4. IsBranch(exu_uop) /\ spec_fls_r' => pc_nxt' = spec_fls_pc_r'
    <3>1. IsBranch(exu_uop) => ~IsBranch(exu_uop')
      BY <2>1 DEF RefInv, IInv, NoBranchInSlot, IsBranch
    <3>2. ~IsBranch(exu_uop') => ~bp_taken'
      BY DEF bp_taken, IsBranch
    <3> QED
      BY <3>1, <3>2 DEF pc_nxt, ifu_fls_nxt, ifu_fls_pc_nxt
  <2>5. exu_uop.op \in I!Bcc =>
          /\ bcc_tgt = I!Target(exu_uop, rop1)
          /\ bcc_taken <=> I!Taken(exu_uop, rop1, rop2)
          /\ ~j_taken
    BY <1>1 DEF bcc_tgt, ds_pc, After, I!Target, bcc_taken, j_taken, I!Bcc, I!Jumps
  <2>6. CASE ~IsBranch(exu_uop)
    <3>1. ~spec_fls_r' /\ ~bp_taken
      BY <1>3, <2>6, TargetsTyped DEF RefInv, IInv
    <3> QED
      BY <1>6, <1>7, <1>9, <1>11, <2>2, <2>3, <2>6, <3>1
  <2>7. CASE exu_uop.op \in I!Bcc /\ ~bcc_spec_fls
    <3>1. ~spec_fls_r' /\ (bp_taken <=> bcc_taken)
      BY <1>3, <2>5, <2>7 DEF bcc_spec_fls, bp_taken, bcc_taken
    <3> QED
      BY <1>6, <1>7, <1>8, <1>11, <2>2, <2>3, <2>5, <2>7, <3>1
  <2>8. CASE exu_uop.op \in I!Bcc /\ bcc_spec_fls
    <3>1. spec_fls_r' /\ spec_fls_pc_r' = bcc_real_tgt
      BY <1>2, <1>3, <2>8 DEF Issue
    <3>2. pc_r = ds_pc
      BY <2>8 DEF RefInv, SlotFollows, IsBranch, ds_pc
    <3> QED
      BY <1>6, <1>7, <1>8, <1>11, <2>2, <2>4, <2>5, <2>8, <3>1, <3>2
         DEF bcc_real_tgt, IsBranch
  <2>9. CASE exu_uop.op \in I!Jumps
    <3>1. j_taken /\ ~bcc_spec_fls /\ IsBranch(exu_uop)
      BY <2>9 DEF j_taken, bcc_spec_fls, bp_taken, bcc_taken, IsBranch, I!Bcc, I!Jumps
    <3>2. spec_fls_r' /\ spec_fls_pc_r' = j_tgt
      BY <1>2, <1>3, <3>1 DEF Issue
    <3>3. I!Taken(exu_uop, rop1, rop2)
      BY <2>9 DEF I!Taken
    <3> QED
      BY <1>6, <1>7, <1>8, <1>11, <2>2, <2>4, <3>1, <3>2, <3>3 DEF j_tgt
  <2> QED
    BY <2>6, <2>7, <2>8, <2>9 DEF IsBranch
<1> QED
  BY <1>10, <1>11

\* The misprediction the simulator charges is the one the processor flushes.
LEMMA ExecutePenalty ==
  ASSUME Supported, RefInv, Clock, ~exu_stall, Real(exu_uop)
  PROVE  Count(issued.op \in I!Bcc /\ spec_fls_r)'
           = Arch!updateBCC(exu_uop, rop1, rop2)
<1>1. issued' = exu_uop /\ exu_uop \in Program
  BY ExecutedIs DEF Clock, Record, RefInv, IInv
<1>2. spec_fls_r' = (bcc_spec_fls \/ j_taken)
  BY Moves DEF RefInv, IInv, Issue
<1>3. CASE exu_uop.op \notin I!Bcc
  BY <1>1, <1>3, SameArchitecture DEF Count, Arch!updateBCC, I!Bcc, Arch!Bcc
<1>4. CASE exu_uop.op \in I!Bcc
  <2>1. exu_uop.imm # 0 /\ exu_uop.imm \in Int
    BY <1>1, <1>4, ProgramTyped DEF Supported
  <2>2. bp_taken <=> Arch!predBCC(exu_uop)
    BY <1>4, <2>1 DEF bp_taken, Arch!predBCC
  <2>3. bcc_taken <=> Arch!Taken(exu_uop, rop1, rop2)
    BY <1>4, SameArchitecture DEF bcc_taken
  <2>4. ~j_taken
    BY <1>4 DEF j_taken, I!Bcc, I!Jumps
  <2>5. spec_fls_r' <=>
          ~(Arch!predBCC(exu_uop) <=> Arch!Taken(exu_uop, rop1, rop2))
    BY <1>2, <2>2, <2>3, <2>4 DEF bcc_spec_fls, bp_taken, bcc_taken
  <2>6. (Arch!predBCC(exu_uop) # Arch!Taken(exu_uop, rop1, rop2)) <=>
          ~(Arch!predBCC(exu_uop) <=> Arch!Taken(exu_uop, rop1, rop2))
    <3>1. /\ Arch!predBCC(exu_uop) \in BOOLEAN
          /\ Arch!Taken(exu_uop, rop1, rop2) \in BOOLEAN
      BY DEF Arch!predBCC, Arch!Taken
    <3>2. ASSUME NEW p \in BOOLEAN, NEW t \in BOOLEAN
          PROVE  p # t <=> ~(p <=> t)
      OBVIOUS
    <3> QED
      BY <3>1, <3>2
  <2>7. Count(issued.op \in I!Bcc /\ spec_fls_r)' = IF spec_fls_r' THEN 1 ELSE 0
    BY <1>1, <1>4 DEF Count, I!Bcc
  <2> QED
    BY <1>4, <2>5, <2>6, <2>7, SameArchitecture DEF Arch!updateBCC
<1> QED
  BY <1>3, <1>4

\* Its access is the one LSU makes next.
LEMMA ExecuteAccesses ==
  ASSUME RefInv, Clock, ~exu_stall
  PROVE  ArchAccess' = Arch!Access(exu_uop, rop1, rop2)
<1>1. lsu_req' \in lsu_nxt
  BY Moves DEF RefInv, IInv, Issue
<1> QED
  BY <1>1, IssuedAccess DEF ArchAccess, Arch!Access, Arch!NoAccess

LEMMA MoveExecutes ==
  ASSUME Supported, RefInv, RefInv', Clock, ~exu_stall, Real(exu_uop)
  PROVE  \E i \in Program : Arch!Execute(i)
<1>1. exu_uop \in Program
  BY ExecutedIs DEF RefInv, IInv
<1>2. exu_uop.at = Upcoming[1]
  BY UpcomingIs DEF UpcomingShape, RefInv, InPlace, ExecutesWhatIsThere
<1>3. /\ rop1 \in Arch!Operand(exu_uop.rs)
      /\ rop2 \in Arch!Operand(exu_uop.rt)
  BY ReadsOperands
<1>4. issued' = exu_uop
  BY DEF Clock, Record
<1>5. (IF mul_r.we THEN {mul_r.adr} ELSE {})'
        = IF exu_uop.op = "MUL" THEN {exu_uop.rd} ELSE {}
  <2>1. mul_r' = mul_nxt
    BY Moves DEF RefInv, IInv, Issue
  <2> QED
    BY <2>1, IssuedResults DEF RefInv, IInv, Write, NoWrite
<1>6. Arch!Execute(exu_uop)
  BY <1>2, <1>3, <1>4, <1>5, ExecuteWrites, ExecuteContinues, ExecutePenalty,
     ExecuteAccesses DEF Arch!Execute, SeenRegisters, After, I!After, Arch!After
<1> QED
  BY <1>1, <1>6

-----------------------------------------------------------------------------
(* Start and reset, and the refinement.                                    *)

LEMMA VectorFollows == After((Vector - 1) % Addresses) = Vector
BY PipelineAssumption DEF After, I!After, I!Pc

\* Fetching starts with the vector, or with what the cache still shows.
LEMMA FreshUpcoming ==
  (/\ pc_r = (Vector - 1) % Addresses /\ exu_uop = Bubble /\ ~spec_fls_r)
    => Upcoming[1] \in Starts /\ Upcoming[2] = After(Upcoming[1])
<1> SUFFICES ASSUME pc_r = (Vector - 1) % Addresses, exu_uop = Bubble, ~spec_fls_r
             PROVE  Upcoming[1] \in Starts /\ Upcoming[2] = After(Upcoming[1])
  OBVIOUS
<1>1. ~Real(exu_uop)
  BY FillersAreNothing
<1>2. ~bp_taken
  BY DEF bp_taken, Bubble, I!Bcc
<1>3. pc_nxt = After(pc_r) /\ pc_nxt = Vector
  BY <1>2, VectorFollows DEF pc_nxt, ifu_fls_nxt
<1> QED
  BY <1>1, <1>3, UpcomingIs DEF UpcomingShape, Starts

LEMMA RefinementInit == Init => Arch!Init
<1> SUFFICES ASSUME Init  PROVE Arch!Init
  OBVIOUS
<1>1. Upcoming[1] \in Starts /\ Upcoming[2] = After(Upcoming[1])
  BY FreshUpcoming DEF Init
<1>2. SeenRegisters = [r \in Registers |-> 0]
  BY DEF Init, SeenRegisters, InFlight, rf_w, NoWrite, NoAccess
<1>3. /\ ~mul_r.we /\ ArchAccess = Arch!NoAccess /\ issued = Arch!None
      /\ Count(issued.op \in I!Bcc /\ spec_fls_r) = 0
  BY DEF Init, NoWrite, NoAccess, ArchAccess, Arch!NoAccess, I!None, Arch!None, Count
<1> QED
  BY <1>1, <1>2, <1>3 DEF Arch!Init, SeenRegisters, After, I!After, Arch!After

LEMMA NextFreshUpcoming ==
  (/\ pc_r = (Vector - 1) % Addresses /\ exu_uop = Bubble /\ ~spec_fls_r)'
    => (Upcoming[1] \in Starts /\ Upcoming[2] = After(Upcoming[1]))'
BY FreshUpcoming, PTL

SeesData == \A r \in Registers : InFlight(r) \in Data

LEMMA SeenTyped == TypeOK => SeesData
BY InFlightTyped DEF SeesData

LEMMA NextSeenTyped == TypeOK' => SeesData'
BY SeenTyped, PTL

LEMMA ResetRestarts ==
  ASSUME RefInv', Reset
  PROVE  Arch!Reset
<1>1. (Upcoming[1] \in Starts /\ Upcoming[2] = After(Upcoming[1]))'
  BY NextFreshUpcoming DEF Reset
<1>2. \A r \in Registers : InFlight(r)' \in Data
  BY NextSeenTyped DEF RefInv, IInv, SeesData
<1>3. SeenRegisters' \in [Registers -> Arch!Data]
  BY <1>2 DEF SeenRegisters, Data, I!Data, Arch!Data
<1>4. /\ ~mul_r'.we /\ ArchAccess' = Arch!NoAccess /\ issued' = Arch!None
      /\ Count(issued.op \in I!Bcc /\ spec_fls_r)' = 0
  BY DEF Reset, NoWrite, NoAccess, ArchAccess, Arch!NoAccess, I!None, Arch!None,
     Count
<1> QED
  BY <1>1, <1>3, <1>4
     DEF Arch!Reset, SeenRegisters, Starts, After, I!After, Arch!After

LEMMA StutterUpcoming ==
  ASSUME UNCHANGED vars
  PROVE  UNCHANGED <<Upcoming[1], Upcoming[2]>>
<1> USE DEF vars, ifu_vars, fls_vars
<1>1. bp_taken' = bp_taken /\ bcc_tgt' = bcc_tgt
  BY DEF bp_taken, bcc_tgt, ds_pc, After, I!After
<1>2. pc_nxt' = pc_nxt
  BY <1>1 DEF pc_nxt, ifu_fls_nxt, ifu_fls_pc_nxt, After, I!After
<1>3. After(pc_nxt)' = After(pc_nxt)
  BY <1>2 DEF After, I!After
<1>4. Behind' = Behind
  BY DEF Behind, Real
<1> QED
  BY <1>2, <1>3, <1>4, UpcomingIs, NextUpcomingIs DEF UpcomingShape, Real

LEMMA StutterArch ==
  ASSUME UNCHANGED vars
  PROVE  UNCHANGED Arch!vars
<1>1. Upcoming[1]' = Upcoming[1] /\ Upcoming[2]' = Upcoming[2]
  BY StutterUpcoming
<1>2. SeenRegisters' = SeenRegisters
  <2>1. ASSUME NEW r \in Registers  PROVE InFlight(r)' = InFlight(r)
    BY DEF vars, lsu_vars, mul_vars, InFlight, rf_w
  <2> QED
    BY <2>1 DEF SeenRegisters
<1>3. /\ ArchAccess' = ArchAccess /\ issued' = issued /\ mul_r' = mul_r
      /\ spec_fls_r' = spec_fls_r
  BY DEF vars, lsu_vars, mul_vars, fls_vars, ArchAccess
<1>4. Count(issued.op \in I!Bcc /\ spec_fls_r)'
        = Count(issued.op \in I!Bcc /\ spec_fls_r)
  BY <1>3 DEF Count, I!Bcc
<1> QED
  BY <1>1, <1>2, <1>3, <1>4 DEF Arch!vars, SeenRegisters

LEMMA RefinementStep ==
  ASSUME Supported
  PROVE  RefInv /\ RefInv' /\ [Next]_vars => [Arch!Next]_(Arch!vars)
<1> SUFFICES ASSUME RefInv, RefInv', [Next]_vars
             PROVE  [Arch!Next]_(Arch!vars)
  OBVIOUS
<1>1. CASE Clock /\ exu_stall
  BY <1>1, StallWaits DEF Arch!Next
<1>2. CASE Clock /\ ~exu_stall /\ ~Real(exu_uop)
  BY <1>2, FillerWaits DEF Arch!Next
<1>3. CASE Clock /\ ~exu_stall /\ Real(exu_uop)
  BY <1>3, MoveExecutes DEF Arch!Next
<1>4. CASE Reset
  BY <1>4, ResetRestarts DEF Arch!Next
<1>5. CASE UNCHANGED vars
  BY <1>5, StutterArch
<1> QED
  BY <1>1, <1>2, <1>3, <1>4, <1>5 DEF Next

(* Every reachable state of a supported pipeline satisfies the additional  *)
(* invariant.                                                              *)
THEOREM RefinementInvariance ==
  ASSUME Supported
  PROVE  Spec => []RefInv
BY InitRef, NextRef, PTL DEF Spec

(* The processor of yamp32_core.v executes what the simulator does: each   *)
(* instruction once and in order, with the operands the architecture gives *)
(* it, through every stall, flush and reset, and it pays for a branch when *)
(* the simulator does.                                                     *)
THEOREM Refinement ==
  ASSUME Supported
  PROVE  Spec => ImplementsIsa
BY RefinementInvariance, RefinementInit, RefinementStep, PTL
   DEF Spec, ImplementsIsa, Arch!Spec
=============================================================================
