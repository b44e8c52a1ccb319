------------------------------- MODULE Encode -------------------------------
(***************************************************************************)
(* The encoders of tools/asm.py: the words a program can contain.  The     *)
(* fields of a word overlap (an I-immediate covers funct7 and rs2, an S or *)
(* B immediate covers rd, a U or J immediate covers funct3, rs1 and rs2),  *)
(* and the hardware looks at raw fields, so each encoder says what every   *)
(* field of its word holds.  A register field has five bits in the source; *)
(* here it has as many as NREG needs.                                      *)
(***************************************************************************)
EXTENDS Isa, Sequences

word(op, f3, f7, rd, rs1, rs2, imm, c) ==
  [opcode |-> op, funct3 |-> f3, funct7 |-> f7, rd |-> rd, rs1 |-> rs1,
   rs2 |-> rs2, imm |-> U(imm), csr |-> c]

\* The bits of an immediate that fall on funct7, and on a register field:
\* imm[11:5] and imm[4:0], the sign filling what the narrow word lacks.
imm_f7(imm) == (imm \div 32) % 128
imm_reg(imm) == imm % NREG

enc_r(f7, rs2, rs1, f3, rd) == word(OP_R, f3, f7, rd, rs1, rs2, 0, 0)

enc_i(imm, rs1, f3, rd, op) ==
  word(op, f3, imm_f7(imm), rd, rs1, imm_reg(imm), imm, imm % 4096)

enc_shift(f7, shamt, rs1, f3, rd) ==
  word(OP_IARITH, f3, f7, rd, rs1, shamt % NREG, shamt, 0)

enc_s(imm, rs2, rs1, f3) ==
  word(OP_STORE, f3, imm_f7(imm), imm_reg(imm), rs1, rs2, imm, 0)

enc_b(imm, rs2, rs1, f3) ==
  word(OP_BRANCH, f3, imm_f7(imm), imm_reg(imm), rs1, rs2, imm, 0)

\* Bits 12..31 of a U or J word are immediate: the raw register fields are
\* whatever the immediate puts there, given here by the caller.
enc_u(imm, rd, raw_rs1, raw_rs2, op) ==
  word(op, 0, 0, rd, raw_rs1, raw_rs2, imm, 0)
enc_j(imm, rd, raw_rs1, raw_rs2) ==
  word(OP_JAL, 0, 0, rd, raw_rs1, raw_rs2, imm, 0)

\* csr op rd, csr, rs1|zimm: the CSR number covers rs2.
enc_csr(c, rs1, f3, rd) ==
  word(OP_SYSTEM, f3, (c \div 32) % 128, rd, rs1, c % NREG, c, c)

ECALL  == enc_csr(CSR_ECALL, 0, 0, 0)
EBREAK == enc_csr(CSR_EBREAK, 0, 0, 0)
MRET   == enc_csr(CSR_MRET, 0, 0, 0)

\* A program in the instruction memory: $readmemh leaves the rest alone,
\* iss.py and the testbench fill it with zero words.
loaded(program, words) ==
  [k \in 0 .. (words - 1) |->
     IF k < Len(program) THEN program[k + 1] ELSE ZERO_INST]
=============================================================================
