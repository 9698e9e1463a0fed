-------------------------------- MODULE Isa ---------------------------------
(***************************************************************************)
(* What a program sees: one instruction at a time, as the simulator in     *)
(* src/cpp-cpu-model/cpu.cc executes it. Jumps take effect after the       *)
(* instruction behind them (the delay slot). The multiplier is the one     *)
(* exception to sequential execution that README.md makes part of the      *)
(* architecture: the instruction behind a MUL may not read its product,    *)
(* and here finds any value if it does.                                    *)
(*                                                                         *)
(* Addresses are words, 0 .. Addresses-1; registers hold 0 .. Values-1.    *)
(***************************************************************************)
EXTENDS Integers

CONSTANTS
  Addresses,   \* words of the address space
  Values,      \* what a register may hold
  Registers,   \* register numbers, 0 among them
  Link,        \* the register JAL writes, 31 in the code
  Program,     \* instructions, each with the address "at" where it may be
  Starts,      \* where execution may start
  Answers      \* what a load may return

None == [op |-> "none"]
Data == 0 .. Values - 1
Pc == 0 .. Addresses - 1
After(p) == (p + 1) % Addresses

VARIABLES
  pc,         \* the instruction to execute
  npc,        \* the one behind it: next_pc if delay_jmp is set, else pc + 1
  regfile,
  mul_slot,   \* the register a MUL just before pc wrote, as a set
  access,     \* the memory access of the last instruction, if it made one
  executed,   \* the instruction just executed, if any
  penalty     \* 1 if its branch was predicted wrongly, which costs time

vars == <<pc, npc, regfile, mul_slot, access, executed, penalty>>

-----------------------------------------------------------------------------
(* Instructions are records with op, rs, rt, rd, imm and at.               *)

Alu == {"ADDU", "ADDIU", "LUI", "SLL"}
Bcc == {"BEQ", "BNE", "BGTZ"}
Jumps == {"J", "JAL", "JR"}

\* R-type instructions write rd, the others rt, JAL the link register.
RType == {"ADDU", "SLL", "MUL", "JR"}
Destination(i) == IF i.op = "JAL" THEN Link
                  ELSE IF i.op \in RType THEN i.rd ELSE i.rt

Result(i, a, b) == CASE i.op = "ADDU" -> (a + b) % Values
                     [] i.op = "ADDIU" -> (a + i.imm) % Values
                     [] i.op = "LUI" -> i.imm
                     [] i.op = "SLL" -> (b * 2) % Values
                     [] i.op = "MUL" -> (a * b) % Values
                     [] i.op = "JAL" -> After(After(i.at))

Taken(i, a, b) == \/ i.op = "BEQ" /\ a = b
                  \/ i.op = "BNE" /\ a # b
                  \/ i.op = "BGTZ" /\ a > 0
                  \/ i.op \in Jumps

\* A branch backwards is predicted to be taken (bpu.cc). The simulator also
\* predicts JR, which the processor does not; that is left out.
predBCC(i) == i.imm <= 0
updateBCC(i, a, b) == IF i.op \in Bcc /\ predBCC(i) # Taken(i, a, b) THEN 1 ELSE 0

\* Branches are relative to the delay slot. imm is the offset of a branch
\* and the target of a jump.
Target(i, a) == CASE i.op \in Bcc -> (After(i.at) + i.imm) % Addresses
                  [] i.op = "JR" -> a
                  [] OTHER -> i.imm

NoAccess == [kind |-> "none"]
Access(i, a, b) ==
  CASE i.op = "LW" -> [kind |-> "load", addr |-> (a + i.imm) % Values]
    [] i.op = "SW" -> [kind |-> "store", addr |-> (a + i.imm) % Values, dat |-> b]
    [] OTHER -> NoAccess

\* Register 0 reads as zero and cannot be written.
Set(r, v) == IF r = 0 THEN regfile ELSE [regfile EXCEPT ![r] = v]

Operand(r) == IF r \in mul_slot THEN Data ELSE {regfile[r]}

-----------------------------------------------------------------------------

Execute(i) ==
  /\ i.at = pc
  /\ \E a \in Operand(i.rs), b \in Operand(i.rt) :
       /\ regfile' \in IF i.op \in Alu \union {"MUL", "JAL"}
                       THEN {Set(Destination(i), Result(i, a, b))}
                       ELSE IF i.op = "LW"
                       THEN {Set(i.rt, v) : v \in Answers}
                       ELSE {regfile}
       /\ npc' = IF Taken(i, a, b) THEN Target(i, a) ELSE After(npc)
       /\ access' = Access(i, a, b)
       /\ penalty' = updateBCC(i, a, b)
  /\ pc' = npc
  /\ mul_slot' = IF i.op = "MUL" THEN {i.rd} ELSE {}
  /\ executed' = i

\* Time passes: the memory serves the access, the product becomes readable.
Wait == /\ access' \in {access, NoAccess}
        /\ mul_slot' \in {mul_slot, {}}
        /\ executed' = None
        /\ penalty' = 0
        /\ UNCHANGED <<pc, npc, regfile>>

\* cpu_rst leaves the registers as they are. The processor loses the results
\* on their way to them, so a program finds anything there.
Reset == /\ pc' \in Starts
         /\ npc' = After(pc')
         /\ regfile' \in [Registers -> Data]
         /\ mul_slot' = {}
         /\ access' = NoAccess
         /\ executed' = None
         /\ penalty' = 0

Init == /\ pc \in Starts
        /\ npc = After(pc)
        /\ regfile = [r \in Registers |-> 0]
        /\ mul_slot = {}
        /\ access = NoAccess
        /\ executed = None
        /\ penalty = 0

Next == Wait \/ Reset \/ \E i \in Program : Execute(i)

Spec == Init /\ [][Next]_vars
=============================================================================
