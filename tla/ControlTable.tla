---------------------------- MODULE ControlTable ----------------------------
(***************************************************************************)
(* The decode truth table of tools/gen_control_table.py, from which the    *)
(* vectors of tb_control.v and the table of DESIGN.md section 3 are made:  *)
(* what the decoder has to drive for the mnemonic that iss.py's decode     *)
(* gives a word.  control.v (Control.tla) is written without it.           *)
(*                                                                         *)
(* A mnemonic is a pair <<class, name>>, as in Decode.tla.                 *)
(***************************************************************************)
EXTENDS Control, Decode

R_MNEMS       == {"R"} \X {"add", "sub", "sll", "slt", "sltu", "xor", "srl",
                           "sra", "or", "and"}
IARITH_MNEMS  == {"I"} \X {"add", "slt", "sltu", "xor", "or", "and"}
SHIFT_MNEMS   == {"I"} \X {"sll", "srl", "sra"}
LOAD_MNEMS    == {"L"} \X {"lb", "lh", "lw", "lbu", "lhu"}
STORE_MNEMS   == {"S"} \X {"sb", "sh", "sw"}
BRANCH_MNEMS  == {"B"} \X {"beq", "bne", "blt", "bge", "bltu", "bgeu"}
LUI           == <<"U", "lui">>
AUIPC         == <<"U", "auipc">>
JAL           == <<"J", "jal">>
JALR          == <<"J", "jalr">>
FIXED_MNEMS   == {"SYS"} \X {"ecall", "ebreak", "mret"}
CSR_REG_MNEMS == {"CSR-R"} \X {"csrrw", "csrrs", "csrrc"}
CSR_IMM_MNEMS == {"CSR-I"} \X {"csrrw", "csrrs", "csrrc"}

ORDER == R_MNEMS \cup IARITH_MNEMS \cup SHIFT_MNEMS \cup LOAD_MNEMS
         \cup STORE_MNEMS \cup BRANCH_MNEMS \cup {LUI, AUIPC, JAL, JALR}
         \cup FIXED_MNEMS \cup CSR_REG_MNEMS \cup CSR_IMM_MNEMS

----------------------------------------------------------------------------
(* The rows.  A row lists what is not zero; alu_op is derived from the     *)
(* class, and csr_we may depend on the word.                               *)

ZERO_ROW ==
  [reg_we |-> FALSE, alu_src_a |-> FALSE, alu_src_b |-> FALSE, imm_sel |-> "I",
   alu_class |-> "ADD", mem_re |-> FALSE, mem_we |-> FALSE, wb_sel |-> "ALU",
   branch |-> FALSE, jal |-> FALSE, jalr |-> FALSE, csr_en |-> FALSE,
   csr_we |-> "never", csr_imm |-> FALSE, mret |-> FALSE, ecall |-> FALSE,
   ebreak |-> FALSE]

r_row      == [ZERO_ROW EXCEPT !.reg_we = TRUE, !.alu_class = "R"]
iarith_row == [ZERO_ROW EXCEPT !.reg_we = TRUE, !.alu_src_b = TRUE,
                               !.alu_class = "I"]
load_row   == [ZERO_ROW EXCEPT !.reg_we = TRUE, !.alu_src_b = TRUE,
                               !.mem_re = TRUE, !.wb_sel = "MEM"]
store_row  == [ZERO_ROW EXCEPT !.alu_src_b = TRUE, !.imm_sel = "S",
                               !.mem_we = TRUE]
branch_row == [ZERO_ROW EXCEPT !.imm_sel = "B", !.branch = TRUE]

\* mutant: csrrs writes the CSR whatever its source register
csr_row_always(imm_form, always_write) ==
  [ZERO_ROW EXCEPT !.reg_we = TRUE, !.alu_src_b = TRUE, !.csr_en = TRUE,
     !.imm_sel = IF imm_form THEN "Z" ELSE "I", !.wb_sel = "CSR",
     !.csr_we = "always", !.csr_imm = imm_form]

csr_row(imm_form, always_write) ==
  [ZERO_ROW EXCEPT !.reg_we = TRUE, !.alu_src_b = TRUE, !.csr_en = TRUE,
     !.imm_sel = IF imm_form THEN "Z" ELSE "I", !.wb_sel = "CSR",
     !.csr_we = IF always_write THEN "always" ELSE "rs1!=0",
     !.csr_imm = imm_form]

lui_row   == [ZERO_ROW EXCEPT !.reg_we = TRUE, !.alu_src_b = TRUE,
                              !.imm_sel = "U", !.alu_class = "LUI"]
auipc_row == [ZERO_ROW EXCEPT !.reg_we = TRUE, !.alu_src_a = TRUE,
                              !.alu_src_b = TRUE, !.imm_sel = "U"]
jal_row   == [ZERO_ROW EXCEPT !.reg_we = TRUE, !.alu_src_b = TRUE,
                              !.imm_sel = "J", !.wb_sel = "PC4", !.jal = TRUE]
jalr_row  == [ZERO_ROW EXCEPT !.reg_we = TRUE, !.alu_src_b = TRUE,
                              !.wb_sel = "PC4", !.jalr = TRUE]

sys_row(name) ==
  [ZERO_ROW EXCEPT !.alu_src_b = TRUE, !.ecall = (name = "ecall"),
     !.ebreak = (name = "ebreak"), !.mret = (name = "mret")]

CONTROL(m) ==
  CASE m[1] = "R" -> r_row
    [] m[1] = "I" -> iarith_row
    [] m[1] = "L" -> load_row
    [] m[1] = "S" -> store_row
    [] m[1] = "B" -> branch_row
    [] m = LUI    -> lui_row
    [] m = AUIPC  -> auipc_row
    [] m = JAL    -> jal_row
    [] m = JALR   -> jalr_row
    [] m[1] = "SYS"   -> sys_row(m[2])
    [] m[1] = "CSR-R" -> csr_row(FALSE, m[2] = "csrrw")
    [] m[1] = "CSR-I" -> csr_row(TRUE, m[2] = "csrrw")

\* inst[30] tells sub from add and sra from srl, and is part of the
\* immediate of an addi.
alu_ctrl_model(class, funct3, b30) ==
  CASE class = "LUI" -> "PASSB"
    [] class = "ADD" -> "ADD"
    [] class \in {"R", "I"} ->
         ( CASE funct3 = 0 -> IF class = "R" /\ b30 THEN "SUB" ELSE "ADD"
             [] funct3 = 1 -> "SLL"
             [] funct3 = 2 -> "SLT"
             [] funct3 = 3 -> "SLTU"
             [] funct3 = 4 -> "XOR"
             [] funct3 = 5 -> IF b30 THEN "SRA" ELSE "SRL"
             [] funct3 = 6 -> "OR"
             [] funct3 = 7 -> "AND" )

\* What tb_control.v compares the decoder's outputs with.
packed(row, op, we) ==
  [illegal |-> FALSE, reg_we |-> row.reg_we, alu_src_a |-> row.alu_src_a,
   alu_src_b |-> row.alu_src_b, imm_sel |-> row.imm_sel, alu_op |-> op,
   mem_re |-> row.mem_re, mem_we |-> row.mem_we, wb_sel |-> row.wb_sel,
   branch |-> row.branch, jal |-> row.jal, jalr |-> row.jalr,
   csr_en |-> row.csr_en, csr_we |-> we, csr_imm |-> row.csr_imm,
   mret |-> row.mret, ecall |-> row.ecall, ebreak |-> row.ebreak]

csr_we_value(row, i) ==
  row.csr_we = "always" \/ (row.csr_we = "rs1!=0" /\ i.rs1 # 0)

expected_fields(i, m) ==
  LET row == CONTROL(m)
      b30 == (i.funct7 \div 32) % 2 = 1
  IN  packed(row, alu_ctrl_model(row.alu_class, i.funct3, b30),
             csr_we_value(row, i))

ILLEGAL_FIELDS == [ZERO_CONTROL EXCEPT !.illegal = TRUE]

\* mutant: mret is forgotten
system_alias_no_mret(i) ==
  i.opcode = OP_SYSTEM /\ i.funct3 = 0 /\ i.csr \in {CSR_ECALL, CSR_EBREAK}

\* The words of which control.v and decode may think differently.
system_alias(i) ==
  i.opcode = OP_SYSTEM /\ i.funct3 = 0
  /\ i.csr \in {CSR_ECALL, CSR_EBREAK, CSR_MRET}
=============================================================================
