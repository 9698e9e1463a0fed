----------------------------- MODULE MCPipeline -----------------------------
(* Programs for the pipeline: any instruction of a small set may stand at  *)
(* any address, and be another one when the address is fetched again.      *)
EXTENDS Pipeline

R(op, rs, rt, rd) == [op |-> op, rs |-> rs, rt |-> rt, rd |-> rd, imm |-> 0]
Imm(op, rs, rt, imm) == [op |-> op, rs |-> rs, rt |-> rt, rd |-> 0, imm |-> imm]

At(insns) == {[op |-> i.op, rs |-> i.rs, rt |-> i.rt, rd |-> i.rd,
               imm |-> i.imm, at |-> a] : i \in insns, a \in 0 .. Addresses - 1}

\* Branches both ways, all jumps, and results to branch on.
MCControl == At({Imm("LUI", 0, 1, 1), Imm("BEQ", 0, 1, 2), Imm("BNE", 0, 1, -2),
                 Imm("BGTZ", 1, 0, -2), Imm("J", 0, 0, 0), Imm("JAL", 0, 0, 3),
                 R("JR", 1, 0, 0), Imm("LW", 0, 1, 0)})

\* Results of every latency, the instructions that depend on them, and nop.
MCData == At({Imm("ADDIU", 1, 2, 1), R("ADDU", 1, 2, 1), R("MUL", 1, 2, 2),
              Imm("LW", 1, 2, 0), Imm("SW", 1, 2, 1), R("SLL", 0, 2, 1),
              R("SLL", 0, 0, 0)})
=============================================================================
