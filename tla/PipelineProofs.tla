--------------------------- MODULE PipelineProofs ---------------------------
(***************************************************************************)
(* Proofs about the pipeline, for every program, any number of registers   *)
(* and any width of them and of the program counter.                       *)
(***************************************************************************)
EXTENDS Pipeline, TLAPS

-----------------------------------------------------------------------------
(* What every reachable state satisfies.                                   *)

\* The assumption of Fetched about the program, followed down the pipeline:
\* whichever of the next two instructions is shown to IDU, none is a branch
\* while the one in front of it is, or while that one is being flushed for.
NoBranchInSlot ==
  /\ IsBranch(exu_uop) => ~IsBranch(insn)
  /\ IsBranch(insn_r) /\ ~spec_fls_rr => ~IsBranch(insn)
  /\ spec_fls_r => ~IsBranch(exu_uop)
  /\ spec_fls_r /\ ~spec_fls_rr => ~IsBranch(insn_r)

\* The target is zero unless it is used. A reset clears only the flush, but
\* shows EXU no branch before the next target is computed.
TargetCleared ==
  spec_fls_pc_r # 0 => \/ spec_fls_r
                       \/ ~IsBranch(insn_r) /\ ~IsBranch(exu_uop)

IInv == TypeOK /\ NoBranchInSlot /\ TargetCleared /\ AccessOnce

\* Instructions and the addresses that travel with them.
InPlace == /\ Real(insn) => insn.at = pc_r
           /\ Real(insn_r) => insn_r.at = pc_rr
           /\ ExecutesWhatIsThere

-----------------------------------------------------------------------------
(* Types of the operators the stages are built from.                       *)

LEMMA InData == \A x \in Int : (x % Values) \in Data
BY PipelineAssumption DEF Data, I!Data

LEMMA InPc == \A x \in Int : (x % Addresses) \in I!Pc
BY PipelineAssumption DEF I!Pc

LEMMA NumbersAreInt == /\ \A p \in I!Pc : p \in Int /\ p + 1 \in Int
                       /\ \A d \in Data : d \in Int
                       /\ 0 \in I!Pc /\ 0 \in Data
BY PipelineAssumption DEF I!Pc, Data, I!Data

LEMMA AfterTyped == \A p \in I!Pc : After(p) \in I!Pc
BY NumbersAreInt, InPc DEF After, I!After

LEMMA StartTyped == (Vector - 1) % Addresses \in I!Pc
<1>1. Vector - 1 \in Int
  BY NumbersAreInt, PipelineAssumption
<1> QED
  BY <1>1, InPc

LEMMA ProgramTyped ==
  ASSUME NEW i \in Program
  PROVE  /\ i.op \in Operations
         /\ i.rs \in Registers /\ i.rt \in Registers /\ i.rd \in Registers
         /\ i.imm \in Int /\ i.at \in I!Pc
         /\ i.op = "LUI" => i.imm \in Data
         /\ i.op \in {"J", "JAL"} => i.imm \in I!Pc
         /\ i.op = "JR" => Values <= Addresses
         /\ i.op = "JAL" => Addresses <= Values
BY PipelineAssumption DEF Instructions

\* What the stages may hold: an instruction, or one of the two fillers.
LEMMA ShownTyped ==
  ASSUME NEW i \in Program \union {Nop, Bubble}
  PROVE  /\ i.rs \in Registers /\ i.rt \in Registers /\ i.rd \in Registers
         /\ i.imm \in Int
BY ProgramTyped, PipelineAssumption DEF Nop, Bubble

LEMMA FillersAreNothing ==
  /\ ~IsBranch(Nop) /\ ~IsBranch(Bubble) /\ ~IsAccess(Nop) /\ ~IsAccess(Bubble)
  /\ Nop # Bubble /\ ~Real(Nop) /\ ~Real(Bubble)
BY DEF IsBranch, IsAccess, Nop, Bubble, Real, I!Bcc, I!Jumps

LEMMA WritesTyped == /\ NoWrite \in Writes
                     /\ \A r \in Registers, d \in Data : Write(r, d) \in Writes
BY PipelineAssumption, NumbersAreInt DEF NoWrite, Write, Writes

LEMMA PortsTyped ==
  ASSUME TypeOK
  PROVE  wb \in Writes /\ rf_w \in Writes
<1>1. wb \in Writes
  BY WritesTyped DEF TypeOK, wb
<1>2. rf_w \in Writes
  BY DEF TypeOK, rf_w
<1> QED
  BY <1>1, <1>2

LEMMA OperandsTyped ==
  ASSUME TypeOK
  PROVE  /\ rop1 \in Data /\ rop2 \in Data
         /\ \A r \in Registers : Read(r) \in Data
<1>1. \A r \in Registers, q \in Data : Bypass(r, q) \in Data
  BY PortsTyped DEF Bypass, Writes
<1>2. rop1 \in Data /\ rop2 \in Data
  BY <1>1 DEF TypeOK, rop1, rop2
<1>3. \A r \in Registers : Read(r) \in Data
  BY PortsTyped, NumbersAreInt DEF Read, Writes, TypeOK
<1> QED
  BY <1>2, <1>3

LEMMA ResultTyped ==
  ASSUME NEW i \in Program \union {Nop}, NEW a \in Data, NEW b \in Data,
         i.op \in I!Alu \union {"MUL"}
  PROVE  I!Result(i, a, b) \in Data
<1>1. /\ i.imm \in Int
      /\ i.op = "LUI" => i.imm \in Data
  BY ProgramTyped, ShownTyped DEF Nop
<1>2. a + b \in Int /\ a * b \in Int /\ b * 2 \in Int /\ a + i.imm \in Int
  BY <1>1, NumbersAreInt, ShownTyped
<1>3. /\ (a + b) % Values \in Data /\ (a * b) % Values \in Data
      /\ (b * 2) % Values \in Data /\ (a + i.imm) % Values \in Data
  BY <1>2, InData
<1>4. CASE i.op = "ADDU"
  BY <1>3, <1>4 DEF I!Result
<1>5. CASE i.op = "ADDIU"
  BY <1>3, <1>5 DEF I!Result
<1>6. CASE i.op = "LUI"
  BY <1>1, <1>6 DEF I!Result
<1>7. CASE i.op = "SLL"
  BY <1>3, <1>7 DEF I!Result
<1>8. CASE i.op = "MUL"
  BY <1>3, <1>8 DEF I!Result
<1> QED
  BY <1>4, <1>5, <1>6, <1>7, <1>8 DEF I!Alu

LEMMA DestinationTyped ==
  ASSUME NEW i \in Program \union {Nop}
  PROVE  I!Destination(i) \in Registers
BY ShownTyped, PipelineAssumption DEF I!Destination

LEMMA LinkTyped ==
  ASSUME NEW i \in Program, i.op = "JAL", NEW p \in I!Pc
  PROVE  p \in Data
BY ProgramTyped, PipelineAssumption DEF I!Pc, Data, I!Data

LEMMA TargetTyped ==
  ASSUME NEW i \in Program, IsBranch(i), NEW a \in Data
  PROVE  I!Target(i, a) \in I!Pc
<1>1. (I!After(i.at) + i.imm) % Addresses \in I!Pc
  BY ProgramTyped, AfterTyped, NumbersAreInt, InPc DEF After
<1>2. i.op = "JR" => a \in I!Pc
  BY ProgramTyped, PipelineAssumption DEF I!Pc, Data, I!Data
<1>3. i.op \in {"J", "JAL"} => i.imm \in I!Pc
  BY ProgramTyped
<1> QED
  BY <1>1, <1>2, <1>3 DEF IsBranch, I!Bcc, I!Jumps, I!Target

-----------------------------------------------------------------------------
(* Type correctness, one part of the pipeline after the other.             *)

LoadStore == [kind : {"none", "load", "store"}, addr : Data,
              dat : Data, rd : Registers]

LEMMA AccessTyped ==
  ASSUME TypeOK
  PROVE  /\ NoAccess \in LoadStore
         /\ \A q \in lsu_nxt : /\ q \in LoadStore
                               /\ (q # NoAccess <=> IsAccess(exu_uop))
<1>1. NoAccess \in LoadStore
  BY NumbersAreInt, PipelineAssumption DEF NoAccess, LoadStore
<1>2. (rop1 + exu_uop.imm) % Values \in Data
  BY OperandsTyped, ShownTyped, NumbersAreInt, InData DEF TypeOK
<1>3. exu_uop.rt \in Registers /\ 0 \in Registers /\ Answers \subseteq Data
  BY ShownTyped, PipelineAssumption DEF TypeOK
<1>4. ASSUME NEW q \in lsu_nxt
      PROVE  q \in LoadStore /\ (q # NoAccess <=> IsAccess(exu_uop))
  <2>1. CASE exu_uop.op = "LW"
    <3>1. q \in [kind : {"load"}, addr : {(rop1 + exu_uop.imm) % Values},
                 dat : Answers, rd : {exu_uop.rt}]
      BY <1>4, <2>1 DEF lsu_nxt
    <3> QED
      BY <1>2, <1>3, <2>1, <3>1 DEF LoadStore, NoAccess, IsAccess
  <2>2. CASE exu_uop.op = "SW"
    <3>1. q \in [kind : {"store"}, addr : {(rop1 + exu_uop.imm) % Values},
                 dat : {rop2}, rd : {0}]
      BY <1>4, <2>2 DEF lsu_nxt
    <3> QED
      BY <1>2, <1>3, <2>2, <3>1, OperandsTyped DEF LoadStore, NoAccess, IsAccess
  <2>3. CASE exu_uop.op \notin {"LW", "SW"}
    BY <1>1, <1>4, <2>3 DEF lsu_nxt, IsAccess
  <2> QED
    BY <2>1, <2>2, <2>3
<1> QED
  BY <1>1, <1>4

LEMMA ResultsTyped ==
  ASSUME TypeOK
  PROVE  alu_wb \in Writes /\ mul_nxt \in Writes
<1>1. exu_uop \in Program \union {Nop, Bubble}
  BY DEF TypeOK
<1>2. rop1 \in Data /\ rop2 \in Data
  BY OperandsTyped
<1>3. CASE exu_uop.op = "MUL"
  <2>1. I!Result(exu_uop, rop1, rop2) \in Data /\ exu_uop.rd \in Registers
    BY <1>1, <1>2, <1>3, ResultTyped, ShownTyped DEF Bubble
  <2>2. /\ alu_wb = Write(exu_uop.rd, 0)
        /\ mul_nxt = Write(exu_uop.rd, I!Result(exu_uop, rop1, rop2))
    BY <1>3 DEF alu_wb, mul_nxt, I!Alu
  <2> QED
    BY <2>1, <2>2, WritesTyped, NumbersAreInt
<1>4. CASE exu_uop.op = "JAL"
  <2>1. exu_uop \in Program
    BY <1>1, <1>4 DEF Nop, Bubble
  <2>2. After(ds_pc) \in I!Pc
    BY AfterTyped DEF TypeOK, ds_pc
  <2>3. After(ds_pc) \in Data
    BY <1>4, <2>1, <2>2, LinkTyped
  <2>4. alu_wb = Write(Link, After(ds_pc)) /\ mul_nxt = NoWrite
    BY <1>4 DEF alu_wb, mul_nxt, I!Alu
  <2> QED
    BY <2>3, <2>4, WritesTyped, PipelineAssumption
<1>5. CASE exu_uop.op \in I!Alu
  <2>1. exu_uop \in Program \union {Nop}
    BY <1>1, <1>5 DEF Bubble, I!Alu
  <2>2. /\ I!Result(exu_uop, rop1, rop2) \in Data
        /\ I!Destination(exu_uop) \in Registers
    BY <1>2, <1>5, <2>1, ResultTyped, DestinationTyped
  <2>3. alu_wb = Write(I!Destination(exu_uop), I!Result(exu_uop, rop1, rop2))
    BY <1>5 DEF alu_wb, I!Alu
  <2>4. mul_nxt = NoWrite
    BY <1>5 DEF mul_nxt, I!Alu
  <2> QED
    BY <2>2, <2>3, <2>4, WritesTyped
<1>6. CASE exu_uop.op \notin I!Alu \union {"MUL", "JAL"}
  BY <1>6, WritesTyped DEF alu_wb, mul_nxt
<1> QED
  BY <1>3, <1>4, <1>5, <1>6

\* Targets of the branch in EXU, and only a branch has any.
LEMMA TargetsTyped ==
  ASSUME TypeOK
  PROVE  /\ bcc_tgt \in I!Pc /\ bcc_real_tgt \in I!Pc
         /\ j_taken => j_tgt \in I!Pc
         /\ {bp_taken, bcc_spec_fls, j_taken} \subseteq BOOLEAN
         /\ bp_taken \/ bcc_spec_fls \/ j_taken => IsBranch(exu_uop)
<1>1. ds_pc \in I!Pc /\ After(ds_pc) \in I!Pc
  BY AfterTyped DEF TypeOK, ds_pc
<1>2. bcc_tgt \in I!Pc
  BY <1>1, ShownTyped, NumbersAreInt, InPc DEF TypeOK, bcc_tgt
<1>3. bcc_real_tgt \in I!Pc
  BY <1>1, <1>2 DEF bcc_real_tgt
<1>4. /\ {bp_taken, bcc_spec_fls, j_taken} \subseteq BOOLEAN
      /\ bp_taken \/ bcc_spec_fls \/ j_taken => IsBranch(exu_uop)
  BY DEF bp_taken, bcc_spec_fls, bcc_taken, j_taken, IsBranch
<1>5. j_taken => j_tgt \in I!Pc
  <2> SUFFICES ASSUME j_taken  PROVE j_tgt \in I!Pc
    OBVIOUS
  <2>1. IsBranch(exu_uop)
    BY <1>4
  <2>2. exu_uop \in Program
    BY <2>1, FillersAreNothing DEF TypeOK
  <2> QED
    BY <2>1, <2>2, OperandsTyped, TargetTyped DEF j_tgt
<1> QED
  BY <1>2, <1>3, <1>4, <1>5

LEMMA IssueTypes ==
  ASSUME TypeOK, Issue
  PROVE  /\ lsu_req' \in LoadStore
         /\ {lsu_wb', mul_r', wb_mul'} \subseteq Writes
         /\ {spec_fls_r', spec_fls_rr'} \subseteq BOOLEAN
         /\ spec_fls_pc_r' \in I!Pc
<1>1. lsu_req' \in LoadStore
  BY AccessTyped DEF Issue
<1>2. {lsu_wb', mul_r', wb_mul'} \subseteq Writes
  BY ResultsTyped DEF Issue, TypeOK
<1>3. spec_fls_r' \in BOOLEAN /\ spec_fls_rr' \in BOOLEAN
  BY TargetsTyped DEF Issue, TypeOK
<1>4. spec_fls_pc_r' \in I!Pc
  BY TargetsTyped, NumbersAreInt DEF Issue
<1> QED
  BY <1>1, <1>2, <1>3, <1>4

LEMMA HoldTypes ==
  ASSUME TypeOK, Hold
  PROVE  /\ lsu_req' \in LoadStore
         /\ {lsu_wb', mul_r', wb_mul'} \subseteq Writes
         /\ {spec_fls_r', spec_fls_rr'} \subseteq BOOLEAN
         /\ spec_fls_pc_r' \in I!Pc
<1>1. lsu_req' \in LoadStore /\ lsu_wb' \in Writes
  BY AccessTyped, WritesTyped DEF Hold, TypeOK, LoadStore, lsu_vars
<1> QED
  BY <1>1 DEF Hold, TypeOK, mul_vars, fls_vars

LEMMA WriteBackTypes ==
  ASSUME TypeOK, WriteBack
  PROVE  wb_r' \in Writes /\ regfile' \in [Registers -> Data]
BY PortsTyped DEF TypeOK, WriteBack, Writes

LEMMA DecodeTypes ==
  ASSUME TypeOK, Decode
  PROVE  /\ exu_uop' \in Program \union {Nop, Bubble}
         /\ exu_pc' \in I!Pc
         /\ {rop1_q', rop2_q'} \subseteq Data
         /\ {rop1_adr_r', rop2_adr_r'} \subseteq Registers
<1>1. o_insn \in Program \union {Nop} /\ o_pc \in I!Pc
  BY DEF TypeOK, o_insn, o_pc
<1>2. o_insn.rs \in Registers /\ o_insn.rt \in Registers
  BY <1>1, ShownTyped
<1> QED
  BY <1>1, <1>2, OperandsTyped DEF Decode

LEMMA NextFetchTyped ==
  ASSUME TypeOK
  PROVE  pc_nxt \in I!Pc
BY AfterTyped, TargetsTyped DEF TypeOK, pc_nxt, ifu_fls_pc_nxt

LEMMA FetchTypes ==
  ASSUME TypeOK, Fetch
  PROVE  /\ {pc_r', pc_rr'} \subseteq I!Pc
         /\ {insn', insn_r'} \subseteq Program \union {Nop}
<1>1. CASE ifu_stall
  BY <1>1 DEF Fetch, TypeOK, ifu_vars
<1>2. CASE ~ifu_stall
  BY <1>2, NextFetchTyped DEF Fetch, Fetched, TypeOK
<1> QED
  BY <1>1, <1>2

\* One access at a time is with the memory, and it owes an answer to it.
LEMMA OweStep ==
  ASSUME TypeOK, AccessOnce, Issue \/ Hold, Owe
  PROVE  AccessOnce' /\ owed' \in 0 .. 1
<1>1. ~exu_stall => (lsu_req' # NoAccess <=> IsAccess(exu_uop))
  BY AccessTyped DEF Issue, Hold
<1>2. CASE ~exu_stall
  <2>1. owed' = Count(IsAccess(exu_uop))
    BY <1>2 DEF Owe, AccessOnce, Count, exu_stall
  <2>2. owed' = Count(lsu_req' # NoAccess)
    BY <1>1, <1>2, <2>1 DEF Count
  <2> QED
    BY <2>2 DEF AccessOnce, Count
<1>3. CASE exu_stall /\ lsu_stall
  BY <1>3 DEF Issue, Hold, exu_inv, lsu_vars, Owe, AccessOnce, Count, exu_stall
<1>4. CASE exu_stall /\ ~lsu_stall
  <2>1. lsu_req' = NoAccess
    BY <1>4 DEF Issue, Hold, exu_inv, exu_stall
  <2> QED
    BY <1>4, <2>1 DEF Owe, AccessOnce, Count
<1> QED
  BY <1>2, <1>3, <1>4

LEMMA EnvironmentTypes ==
  ASSUME TypeOK, Environment
  PROVE  {ic_busy', ic_stall', lsu_stall'} \subseteq BOOLEAN
<1>1. ic_busy' \in BOOLEAN
  BY DEF TypeOK, Environment, ifu_stall
<1>2. ic_stall' \in BOOLEAN
  BY DEF Environment
<1>3. lsu_stall' \in BOOLEAN
  BY DEF Environment
<1> QED
  BY <1>1, <1>2, <1>3

LEMMA RecordTypes ==
  ASSUME TypeOK, Record
  PROVE  issued' \in Program \union {I!None}
BY DEF TypeOK, Record, Real

LEMMA ClockTypes ==
  ASSUME TypeOK, AccessOnce, Clock
  PROVE  TypeOK' /\ AccessOnce'
<1>1. Issue \/ Hold
  BY DEF Clock
<1>2. /\ lsu_req' \in LoadStore
      /\ {lsu_wb', mul_r', wb_mul'} \subseteq Writes
      /\ {spec_fls_r', spec_fls_rr'} \subseteq BOOLEAN
      /\ spec_fls_pc_r' \in I!Pc
  BY <1>1, IssueTypes, HoldTypes
<1>3. AccessOnce' /\ owed' \in 0 .. 1
  BY <1>1, OweStep DEF Clock
<1>4. /\ wb_r' \in Writes /\ regfile' \in [Registers -> Data]
      /\ exu_uop' \in Program \union {Nop, Bubble}
      /\ exu_pc' \in I!Pc
      /\ {rop1_q', rop2_q'} \subseteq Data
      /\ {rop1_adr_r', rop2_adr_r'} \subseteq Registers
  BY WriteBackTypes, DecodeTypes DEF Clock
<1>5. /\ {pc_r', pc_rr'} \subseteq I!Pc
      /\ {insn', insn_r'} \subseteq Program \union {Nop}
      /\ {ic_busy', ic_stall', lsu_stall'} \subseteq BOOLEAN
      /\ issued' \in Program \union {I!None}
  BY FetchTypes, EnvironmentTypes, RecordTypes DEF Clock
<1>6. TypeOK'
  BY <1>2, <1>3, <1>4, <1>5 DEF TypeOK, LoadStore
<1> QED
  BY <1>3, <1>6

LEMMA ResetTypes ==
  ASSUME TypeOK, Reset
  PROVE  TypeOK' /\ AccessOnce'
<1>1. lsu_req' \in LoadStore
  BY AccessTyped DEF Reset
<1>2. /\ owed' \in 0 .. 1 /\ AccessOnce'
  BY DEF Reset, AccessOnce, Count
<1>3. {lsu_wb', mul_r', wb_mul', wb_r'} \subseteq Writes
  BY WritesTyped DEF Reset, TypeOK
<1>4. TypeOK'
  BY <1>1, <1>2, <1>3, StartTyped DEF Reset, TypeOK, LoadStore
<1> QED
  BY <1>2, <1>4

LEMMA InitTypes == Init => TypeOK /\ AccessOnce
<1> SUFFICES ASSUME Init  PROVE TypeOK /\ AccessOnce
  OBVIOUS
<1>1. AccessOnce
  BY DEF Init, AccessOnce, Count
<1>2. lsu_req \in LoadStore
  BY NumbersAreInt, PipelineAssumption DEF Init, NoAccess, LoadStore
<1>3. {lsu_wb, mul_r, wb_mul, wb_r} \subseteq Writes
  BY WritesTyped DEF Init
<1>4. regfile \in [Registers -> Data]
  BY NumbersAreInt DEF Init
<1>5. /\ {pc_r, pc_rr, exu_pc, spec_fls_pc_r} \subseteq I!Pc
      /\ {rop1_q, rop2_q} \subseteq Data
      /\ {rop1_adr_r, rop2_adr_r} \subseteq Registers
      /\ owed \in 0 .. 1
  BY StartTyped, NumbersAreInt, PipelineAssumption DEF Init
<1>6. /\ {insn, insn_r} \subseteq Program \union {Nop}
      /\ exu_uop \in Program \union {Nop, Bubble}
      /\ {ic_busy, spec_fls_r, spec_fls_rr, ic_stall, lsu_stall} \subseteq BOOLEAN
      /\ issued \in Program \union {I!None}
  BY DEF Init
<1> QED
  BY <1>1, <1>2, <1>3, <1>4, <1>5, <1>6 DEF TypeOK, LoadStore

-----------------------------------------------------------------------------
(* One flush at a time.                                                    *)

LEMMA ClockNoBranchInSlot ==
  ASSUME TypeOK, NoBranchInSlot, Clock
  PROVE  NoBranchInSlot'
<1>1. CASE ifu_stall
  <2>1. exu_stall
    BY <1>1 DEF ifu_stall, exu_stall
  <2>2. exu_uop' = IF spec_fls_rr THEN Bubble ELSE insn_r
    BY <1>1, <2>1 DEF Clock, Decode, o_insn, o_spec_fls
  <2>3. UNCHANGED <<insn, insn_r, spec_fls_r, spec_fls_rr>>
    BY <1>1, <2>1 DEF Clock, Issue, Hold, Fetch, ifu_vars, fls_vars
  <2> QED
    BY <2>2, <2>3, FillersAreNothing DEF NoBranchInSlot, TypeOK, IsBranch
<1>2. CASE ~ifu_stall
  <2>1. ~exu_stall
    BY <1>2 DEF ifu_stall, exu_stall
  <2>2. /\ exu_uop' = IF spec_fls_r THEN Bubble ELSE insn
        /\ insn_r' = insn
        /\ insn' \in Fetched(pc_nxt)
    BY <1>2, <2>1 DEF Clock, Decode, Fetch, o_insn, o_spec_fls
  <2>3. /\ spec_fls_rr' = spec_fls_r
        /\ spec_fls_r' => IsBranch(exu_uop)
    BY <2>1, TargetsTyped DEF Clock, Issue, Hold
  <2>4. IsBranch(insn) /\ ~spec_fls_r => ~IsBranch(insn')
    BY <2>2 DEF Fetched
  <2>5. IsBranch(exu_uop') => IsBranch(insn) /\ ~spec_fls_r
    BY <2>2, FillersAreNothing DEF IsBranch
  <2>6. /\ IsBranch(insn_r') = IsBranch(insn)
        /\ IsBranch(exu_uop) => ~IsBranch(insn)
    BY <2>2 DEF NoBranchInSlot
  <2> QED
    BY <2>3, <2>4, <2>5, <2>6 DEF NoBranchInSlot, IsBranch
<1> QED
  BY <1>1, <1>2

LEMMA ClockTargetCleared ==
  ASSUME TypeOK, NoBranchInSlot, TargetCleared, Clock
  PROVE  TargetCleared'
<1>1. CASE ifu_stall
  <2>1. exu_stall
    BY <1>1 DEF ifu_stall, exu_stall
  <2>2. exu_uop' = IF spec_fls_rr THEN Bubble ELSE insn_r
    BY <1>1, <2>1 DEF Clock, Decode, o_insn, o_spec_fls
  <2>3. UNCHANGED <<insn_r, spec_fls_r, spec_fls_pc_r>>
    BY <1>1, <2>1 DEF Clock, Issue, Hold, Fetch, ifu_vars, fls_vars
  <2> QED
    BY <2>2, <2>3, FillersAreNothing DEF TargetCleared, IsBranch
<1>2. CASE ~ifu_stall
  BY <1>2 DEF ifu_stall, exu_stall, Clock, Issue, Hold, TargetCleared
<1> QED
  BY <1>1, <1>2

LEMMA ResetFlushes ==
  ASSUME Reset
  PROVE  NoBranchInSlot' /\ TargetCleared'
<1>1. insn_r' = Nop /\ exu_uop' = Bubble /\ spec_fls_r' = FALSE
  BY DEF Reset
<1>2. ~IsBranch(insn_r') /\ ~IsBranch(exu_uop')
  BY <1>1, FillersAreNothing
<1> QED
  BY <1>1, <1>2 DEF NoBranchInSlot, TargetCleared, IsBranch

LEMMA InitFlushes == Init => NoBranchInSlot /\ TargetCleared
BY FillersAreNothing DEF Init, NoBranchInSlot, TargetCleared

LEMMA InitInv == Init => IInv
BY InitTypes, InitFlushes DEF IInv

LEMMA StutterInv == IInv /\ UNCHANGED vars => IInv'
<1> SUFFICES ASSUME IInv, UNCHANGED vars  PROVE IInv'
  OBVIOUS
<1> USE DEF vars, ifu_vars, lsu_vars, mul_vars, fls_vars
<1>1. TypeOK'
  BY DEF IInv, TypeOK
<1>2. NoBranchInSlot' /\ TargetCleared' /\ AccessOnce'
  BY DEF IInv, NoBranchInSlot, TargetCleared, AccessOnce, IsBranch
<1> QED
  BY <1>1, <1>2 DEF IInv

LEMMA NextInv == IInv /\ [Next]_vars => IInv'
<1> SUFFICES ASSUME IInv, [Next]_vars  PROVE IInv'
  OBVIOUS
<1>1. CASE Clock
  BY <1>1, ClockTypes, ClockNoBranchInSlot, ClockTargetCleared DEF IInv
<1>2. CASE Reset
  BY <1>2, ResetTypes, ResetFlushes DEF IInv
<1>3. CASE UNCHANGED vars
  BY <1>3, StutterInv
<1> QED
  BY <1>1, <1>2, <1>3 DEF Next

(* Every reachable state of the pipeline satisfies the invariant.          *)
THEOREM Invariance == Spec => []IInv
BY InitInv, NextInv, PTL DEF Spec

(* Every register of the pipeline holds a value of its type: an            *)
(* instruction of the program or a filler, an address, a register's value. *)
THEOREM TypeCorrect == Spec => []TypeOK
<1>1. IInv => TypeOK
  BY DEF IInv
<1> QED
  BY <1>1, Invariance, PTL

(* The memory is asked exactly once for every load and store that leaves   *)
(* EXU: the NOP of yamp32_ctrl.v neither repeats nor drops one.            *)
THEOREM AccessesAreServedOnce == Spec => []AccessOnce
<1>1. IInv => AccessOnce
  BY DEF IInv
<1> QED
  BY <1>1, Invariance, PTL

(* The assertions of yamp32_exu.v hold, and the two flush targets can be   *)
(* ORed, whatever stalls and resets do to the flush of a branch.           *)
THEOREM FlushesAreExclusive == Spec => []OneFlushAtATime
<1>1. IInv => OneFlushAtATime
  <2> SUFFICES ASSUME IInv  PROVE OneFlushAtATime
    OBVIOUS
  <2>1. ~(bcc_spec_fls /\ j_taken)
    BY DEF bcc_spec_fls, bp_taken, bcc_taken, j_taken, I!Bcc, I!Jumps
  <2>2. bp_taken => IsBranch(exu_uop)
    BY DEF bp_taken, IsBranch
  <2> QED
    BY <2>1, <2>2 DEF IInv, NoBranchInSlot, TargetCleared, OneFlushAtATime
<1> QED
  BY <1>1, Invariance, PTL

-----------------------------------------------------------------------------
(* The instruction in EXU is the one that stands where EXU thinks it does. *)

LEMMA FetchedIsReal ==
  ASSUME NEW p \in I!Pc, NEW i \in Fetched(p)
  PROVE  i \in Program /\ i.at = p /\ Real(i)
<1>1. i \in Program /\ i.at = p
  BY DEF Fetched
<1>2. i.at # Addresses
  BY <1>1, PipelineAssumption DEF I!Pc
<1> QED
  BY <1>1, <1>2 DEF Real, Nop, Bubble

LEMMA ClockInPlace ==
  ASSUME TypeOK, InPlace, Clock
  PROVE  InPlace'
<1>1. CASE ifu_stall
  <2>1. /\ exu_uop' \in {Bubble, insn_r} /\ exu_pc' = pc_rr
        /\ UNCHANGED <<pc_r, insn, insn_r, pc_rr>>
    BY <1>1 DEF Clock, Decode, Fetch, o_insn, o_pc, ifu_vars
  <2> QED
    BY <2>1, FillersAreNothing DEF InPlace, ExecutesWhatIsThere, Real
<1>2. CASE ~ifu_stall
  <2>1. /\ exu_uop' \in {Bubble, insn} /\ exu_pc' = pc_r
        /\ insn_r' = insn /\ pc_rr' = pc_r
        /\ pc_r' = pc_nxt /\ insn' \in Fetched(pc_nxt)
    BY <1>2 DEF Clock, Decode, Fetch, o_insn, o_pc
  <2>2. insn'.at = pc_r'
    BY <2>1, NextFetchTyped, FetchedIsReal
  <2> QED
    BY <2>1, <2>2, FillersAreNothing DEF InPlace, ExecutesWhatIsThere, Real
<1> QED
  BY <1>1, <1>2

LEMMA NextInPlace ==
  ASSUME ~StaleFetch
  PROVE  IInv /\ InPlace /\ [Next]_vars => InPlace'
<1> SUFFICES ASSUME IInv, InPlace, [Next]_vars  PROVE InPlace'
  OBVIOUS
<1>1. CASE Clock
  BY <1>1, ClockInPlace DEF IInv
<1>2. CASE Reset
  BY <1>2, FillersAreNothing DEF Reset, InPlace, ExecutesWhatIsThere, Real
<1>3. CASE UNCHANGED vars
  BY <1>3 DEF vars, ifu_vars, InPlace, ExecutesWhatIsThere, Real
<1> QED
  BY <1>1, <1>2, <1>3 DEF Next

LEMMA InitInPlace == Init => InPlace
BY FillersAreNothing DEF Init, InPlace, ExecutesWhatIsThere

(* No stall and no flush separates an instruction from its address, unless *)
(* a reset finds the cache showing something else than the code has in     *)
(* front of the vector (run pipeline_stale).                               *)
THEOREM InstructionsAreInPlace ==
  ASSUME ~StaleFetch
  PROVE  Spec => []ExecutesWhatIsThere
<1>1. InPlace => ExecutesWhatIsThere
  BY DEF InPlace
<1> QED
  BY <1>1, Invariance, InitInPlace, NextInPlace, PTL DEF Spec
=============================================================================
