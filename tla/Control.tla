------------------------------ MODULE Control ------------------------------
(***************************************************************************)
(* The decoder of the ID stage: control.v, alu_ctrl.v and the immediate    *)
(* multiplexer of imm_gen.v.  control.v clears every signal, sets those of *)
(* the opcode, and clears them again if it has raised `illegal'.           *)
(***************************************************************************)
EXTENDS Isa

\* The words the case statement does not send to `illegal'.
legal(i) ==
  \/ i.opcode \in {OP_LUI, OP_AUIPC, OP_JAL}
  \/ i.opcode = OP_R /\ i.funct7 = 0
  \/ i.opcode = OP_R /\ i.funct7 = 32 /\ i.funct3 \in {0, 5}
  \/ i.opcode = OP_IARITH /\ i.funct3 \notin {1, 5}
  \/ i.opcode = OP_IARITH /\ i.funct3 = 1 /\ i.funct7 = 0
  \/ i.opcode = OP_IARITH /\ i.funct3 = 5 /\ i.funct7 \in {0, 32}
  \/ i.opcode = OP_LOAD   /\ i.funct3 \notin {3, 6, 7}
  \/ i.opcode = OP_STORE  /\ i.funct3 \in {0, 1, 2}
  \/ i.opcode = OP_BRANCH /\ i.funct3 \notin {2, 3}
  \/ i.opcode = OP_JALR   /\ i.funct3 = 0
  \/ i.opcode = OP_SYSTEM /\ i.funct3 \in {1, 2, 3, 5, 6, 7}
  \/ /\ i.opcode = OP_SYSTEM /\ i.funct3 = 0
     /\ i.csr \in {CSR_ECALL, CSR_EBREAK, CSR_MRET}

\* alu_ctrl.v for the two classes that consult funct3; it answers PASSB for
\* lui and ADD for every other class.  funct7_b30 is inst[30].
alu_op(i) ==
  LET funct7_b30 == (i.funct7 \div 32) % 2 = 1
  IN  CASE i.funct3 = 0 -> IF i.opcode = OP_R /\ funct7_b30 THEN "SUB" ELSE "ADD"
        [] i.funct3 = 1 -> "SLL"
        [] i.funct3 = 2 -> "SLT"
        [] i.funct3 = 3 -> "SLTU"
        [] i.funct3 = 4 -> "XOR"
        [] i.funct3 = 5 -> IF funct7_b30 THEN "SRA" ELSE "SRL"
        [] i.funct3 = 6 -> "OR"
        [] OTHER        -> "AND"

AluOps == {"ADD", "SUB", "SLL", "SLT", "SLTU", "XOR", "SRL", "SRA", "OR",
           "AND", "PASSB"}
WbSels == {"ALU", "MEM", "PC4", "CSR"}
ImmSels == {"I", "S", "B", "U", "J", "Z"}

ControlWord ==
  [illegal : BOOLEAN, reg_we : BOOLEAN, alu_src_a : BOOLEAN,
   alu_src_b : BOOLEAN, imm_sel : ImmSels, alu_op : AluOps, mem_re : BOOLEAN,
   mem_we : BOOLEAN, wb_sel : WbSels, branch : BOOLEAN, jal : BOOLEAN,
   jalr : BOOLEAN, csr_en : BOOLEAN, csr_we : BOOLEAN, csr_imm : BOOLEAN,
   mret : BOOLEAN, ecall : BOOLEAN, ebreak : BOOLEAN]

\* What a flush writes over a control word.
ZERO_CONTROL ==
  [illegal |-> FALSE, reg_we |-> FALSE, alu_src_a |-> FALSE,
   alu_src_b |-> FALSE, imm_sel |-> "I", alu_op |-> "ADD", mem_re |-> FALSE,
   mem_we |-> FALSE, wb_sel |-> "ALU", branch |-> FALSE, jal |-> FALSE,
   jalr |-> FALSE, csr_en |-> FALSE, csr_we |-> FALSE, csr_imm |-> FALSE,
   mret |-> FALSE, ecall |-> FALSE, ebreak |-> FALSE]

\* The branches of the case statement, one per kind of instruction.
illegal_ctl   == [ZERO_CONTROL EXCEPT !.illegal = TRUE]
r_ctl(op)     == [ZERO_CONTROL EXCEPT !.reg_we = TRUE, !.alu_op = op]
iarith_ctl(op) == [ZERO_CONTROL EXCEPT !.reg_we = TRUE, !.alu_src_b = TRUE,
                                       !.alu_op = op]
load_ctl   == [ZERO_CONTROL EXCEPT !.reg_we = TRUE, !.alu_src_b = TRUE,
                                   !.mem_re = TRUE, !.wb_sel = "MEM"]
store_ctl  == [ZERO_CONTROL EXCEPT !.alu_src_b = TRUE, !.imm_sel = "S",
                                   !.mem_we = TRUE]
branch_ctl == [ZERO_CONTROL EXCEPT !.imm_sel = "B", !.branch = TRUE]
lui_ctl    == [ZERO_CONTROL EXCEPT !.reg_we = TRUE, !.alu_src_b = TRUE,
                                   !.imm_sel = "U", !.alu_op = "PASSB"]
auipc_ctl  == [ZERO_CONTROL EXCEPT !.reg_we = TRUE, !.alu_src_a = TRUE,
                                   !.alu_src_b = TRUE, !.imm_sel = "U"]
jal_ctl    == [ZERO_CONTROL EXCEPT !.reg_we = TRUE, !.alu_src_b = TRUE,
                        !.imm_sel = "J", !.wb_sel = "PC4", !.jal = TRUE]
jalr_ctl   == [ZERO_CONTROL EXCEPT !.reg_we = TRUE, !.alu_src_b = TRUE,
                                   !.wb_sel = "PC4", !.jalr = TRUE]
fixed_ctl(mret, ecall, ebreak) ==
  [ZERO_CONTROL EXCEPT !.alu_src_b = TRUE, !.mret = mret, !.ecall = ecall,
                       !.ebreak = ebreak]
csr_ctl(sel, we, imm) ==
  [ZERO_CONTROL EXCEPT !.reg_we = TRUE, !.alu_src_b = TRUE, !.imm_sel = sel,
     !.wb_sel = "CSR", !.csr_en = TRUE, !.csr_we = we, !.csr_imm = imm]

control(i) ==
  CASE ~legal(i) -> illegal_ctl
    [] legal(i) /\ i.opcode = OP_R      -> r_ctl(alu_op(i))
    [] legal(i) /\ i.opcode = OP_IARITH -> iarith_ctl(alu_op(i))
    [] legal(i) /\ i.opcode = OP_LOAD   -> load_ctl
    [] legal(i) /\ i.opcode = OP_STORE  -> store_ctl
    [] legal(i) /\ i.opcode = OP_BRANCH -> branch_ctl
    [] legal(i) /\ i.opcode = OP_LUI    -> lui_ctl
    [] legal(i) /\ i.opcode = OP_AUIPC  -> auipc_ctl
    [] legal(i) /\ i.opcode = OP_JAL    -> jal_ctl
    [] legal(i) /\ i.opcode = OP_JALR   -> jalr_ctl
    [] legal(i) /\ i.opcode = OP_SYSTEM /\ i.funct3 = 0 ->
         fixed_ctl(i.csr = CSR_MRET, i.csr = CSR_ECALL, i.csr = CSR_EBREAK)
    [] legal(i) /\ i.opcode = OP_SYSTEM /\ i.funct3 \in {1, 2, 3} ->
         csr_ctl("I", i.funct3 = 1 \/ i.rs1 # 0, FALSE)
    [] legal(i) /\ i.opcode = OP_SYSTEM /\ i.funct3 \in {5, 6, 7} ->
         csr_ctl("Z", i.funct3 = 5 \/ i.rs1 # 0, TRUE)

\* imm_gen.v: the zimm is the rs1 field, every other immediate is that of
\* the format the opcode has; BitWords.tla has the bits of each.
imm_gen(i, ctl) == IF ctl.imm_sel = "Z" THEN i.rs1 ELSE i.imm

\* cpu_top.v's own guess, from the opcode alone, at whether a source
\* register is really read.
uses_rs1(i, ctl) ==
  \/ i.opcode \in {OP_R, OP_IARITH, OP_LOAD, OP_STORE, OP_BRANCH, OP_JALR}
  \/ ctl.csr_en /\ ~ctl.csr_imm
uses_rs2(i) == i.opcode \in {OP_R, OP_STORE, OP_BRANCH}
=============================================================================
