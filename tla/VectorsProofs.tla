---------------------------- MODULE VectorsProofs ----------------------------
(***************************************************************************)
(* control.v and iss.py's decode agree on every instruction word, not only *)
(* on those TLC enumerates.  The proof goes class by class: the words of a *)
(* class are illegal for both or for neither, and the row of the truth     *)
(* table for a legal one is the branch of control.v's case statement.      *)
(*                                                                         *)
(* Then the immediates, bit by bit: imm_gen.v puts together what iss.py    *)
(* does, and both undo what asm.py's encoders do whatever stands in the    *)
(* other fields.                                                           *)
(*                                                                         *)
(* Then asm.py: the words it encodes decode as the mnemonic they were      *)
(* written with, and from that the scripts: whatever they draw they do not *)
(* abort, and the testbenches pass on what they write.                     *)
(***************************************************************************)
EXTENDS Vectors, ControlProofs

\* A row of the truth table, with the two signals that are not read off it,
\* and a control word have the same signals.
matches(row, op, we, ctl) ==
  /\ ctl.illegal = FALSE /\ ctl.alu_op = op /\ ctl.csr_we = we
  /\ ctl.reg_we = row.reg_we /\ ctl.alu_src_a = row.alu_src_a
  /\ ctl.alu_src_b = row.alu_src_b /\ ctl.imm_sel = row.imm_sel
  /\ ctl.mem_re = row.mem_re /\ ctl.mem_we = row.mem_we
  /\ ctl.wb_sel = row.wb_sel /\ ctl.branch = row.branch
  /\ ctl.jal = row.jal /\ ctl.jalr = row.jalr /\ ctl.csr_en = row.csr_en
  /\ ctl.csr_imm = row.csr_imm /\ ctl.mret = row.mret
  /\ ctl.ecall = row.ecall /\ ctl.ebreak = row.ebreak

LEMMA MatchIsPacked ==
  ASSUME NEW ctl \in ControlWord, NEW row, NEW op, NEW we, matches(row, op, we, ctl)
  PROVE  packed(row, op, we) = ctl
<1>1. ctl = [illegal |-> ctl.illegal, reg_we |-> ctl.reg_we,
             alu_src_a |-> ctl.alu_src_a, alu_src_b |-> ctl.alu_src_b,
             imm_sel |-> ctl.imm_sel, alu_op |-> ctl.alu_op,
             mem_re |-> ctl.mem_re, mem_we |-> ctl.mem_we,
             wb_sel |-> ctl.wb_sel, branch |-> ctl.branch, jal |-> ctl.jal,
             jalr |-> ctl.jalr, csr_en |-> ctl.csr_en, csr_we |-> ctl.csr_we,
             csr_imm |-> ctl.csr_imm, mret |-> ctl.mret,
             ecall |-> ctl.ecall, ebreak |-> ctl.ebreak]
  BY DEF ControlWord
<1> QED
  BY <1>1, Zenon DEF packed, matches

LEMMA RowsMatch ==
  /\ \A op : matches(r_row, op, FALSE, r_ctl(op))
  /\ \A op : matches(iarith_row, op, FALSE, iarith_ctl(op))
  /\ matches(load_row, "ADD", FALSE, load_ctl)
  /\ matches(store_row, "ADD", FALSE, store_ctl)
  /\ matches(branch_row, "ADD", FALSE, branch_ctl)
  /\ matches(lui_row, "PASSB", FALSE, lui_ctl)
  /\ matches(auipc_row, "ADD", FALSE, auipc_ctl)
  /\ matches(jal_row, "ADD", FALSE, jal_ctl)
  /\ matches(jalr_row, "ADD", FALSE, jalr_ctl)
  /\ \A we, always : matches(csr_row(FALSE, always), "ADD", we, csr_ctl("I", we, FALSE))
  /\ \A we, always : matches(csr_row(TRUE, always), "ADD", we, csr_ctl("Z", we, TRUE))
<1> USE DEF matches, ZERO_ROW, ZERO_CONTROL
<1>1. \A op : matches(r_row, op, FALSE, r_ctl(op))
  BY DEF r_row, r_ctl
<1>2. \A op : matches(iarith_row, op, FALSE, iarith_ctl(op))
  BY DEF iarith_row, iarith_ctl
<1>3. matches(load_row, "ADD", FALSE, load_ctl)
  BY DEF load_row, load_ctl
<1>4. matches(store_row, "ADD", FALSE, store_ctl)
  BY DEF store_row, store_ctl
<1>5. matches(branch_row, "ADD", FALSE, branch_ctl)
  BY DEF branch_row, branch_ctl
<1>6. matches(lui_row, "PASSB", FALSE, lui_ctl)
  BY DEF lui_row, lui_ctl
<1>7. matches(auipc_row, "ADD", FALSE, auipc_ctl)
  BY DEF auipc_row, auipc_ctl
<1>8. matches(jal_row, "ADD", FALSE, jal_ctl)
  BY DEF jal_row, jal_ctl
<1>9. matches(jalr_row, "ADD", FALSE, jalr_ctl)
  BY DEF jalr_row, jalr_ctl
<1>10. \A we, always :
         matches(csr_row(FALSE, always), "ADD", we, csr_ctl("I", we, FALSE))
  BY DEF csr_row, csr_ctl
<1>11. \A we, always :
         matches(csr_row(TRUE, always), "ADD", we, csr_ctl("Z", we, TRUE))
  BY DEF csr_row, csr_ctl
<1> HIDE DEF matches, ZERO_ROW, ZERO_CONTROL
<1> QED
  BY <1>1, <1>2, <1>3, <1>4, <1>5, <1>6, <1>7, <1>8, <1>9, <1>10, <1>11, Zenon

\* It is enough to compare the two row by row.
LEMMA AgreeIfLegal ==
  ASSUME NEW i, legal(i), decode(i)[2] # "illegal",
         NEW row, CONTROL(decode(i)) = row,
         NEW op, alu_ctrl_model(row.alu_class, i.funct3, (i.funct7 \div 32) % 2 = 1) = op,
         NEW we, csr_we_value(row, i) = we,
         matches(row, op, we, control(i))
  PROVE  agree(i)
<1>1. expected_fields(i, decode(i)) = packed(row, op, we)
  BY Zenon DEF expected_fields
<1>2. packed(row, op, we) = control(i)
  BY ControlIsControlWord, MatchIsPacked
<1> QED
  BY <1>1, <1>2 DEF agree

LEMMA AgreeIfIllegal ==
  ASSUME NEW i, ~legal(i), decode(i)[2] = "illegal"
  PROVE  agree(i)
BY ControlCases DEF agree, ILLEGAL_FIELDS, illegal_ctl

\* The rows that never write a CSR, and the ALU class of each.
LEMMA RowClasses ==
  ASSUME NEW i
  PROVE  /\ \A row \in {r_row, iarith_row, load_row, store_row, branch_row, lui_row,
                        auipc_row, jal_row, jalr_row} : csr_we_value(row, i) = FALSE
         /\ r_row.alu_class = "R" /\ iarith_row.alu_class = "I"
         /\ lui_row.alu_class = "LUI"
         /\ \A row \in {load_row, store_row, branch_row, auipc_row, jal_row, jalr_row} :
              row.alu_class = "ADD"
BY DEF csr_we_value, ZERO_ROW, r_row, iarith_row, load_row, store_row, branch_row,
       lui_row, auipc_row, jal_row, jalr_row

LEMMA AluModel ==
  ASSUME NEW i, i.funct3 \in 0 .. 7
  PROVE  LET model(class) ==
               alu_ctrl_model(class, i.funct3, (i.funct7 \div 32) % 2 = 1)
         IN  /\ i.opcode = OP_R => model("R") = alu_op(i)
             /\ i.opcode = OP_IARITH => model("I") = alu_op(i)
             /\ model("LUI") = "PASSB" /\ model("ADD") = "ADD"
BY DEF alu_ctrl_model, alu_op, OP_R, OP_IARITH

\* A field of an instruction word, as a number of its width.
Fielded(i) == /\ i.opcode \in 0 .. 127 /\ i.funct3 \in 0 .. 7
              /\ i.funct7 \in 0 .. 127

----------------------------------------------------------------------------
(* Both sides accept the same words of every opcode but SYSTEM.            *)

LEMMA SameLegality ==
  ASSUME NEW i, Fielded(i), i.opcode # OP_SYSTEM
  PROVE  legal(i) <=> decode(i)[2] # "illegal"
<1> USE DEF Fielded, legal, decode, OP_R, OP_IARITH, OP_LOAD, OP_STORE, OP_BRANCH,
            OP_LUI, OP_AUIPC, OP_JAL, OP_JALR, OP_SYSTEM
<1>1. CASE i.opcode = OP_R
  BY <1>1 DEF R_MNEM
<1>2. CASE i.opcode = OP_IARITH
  BY <1>2 DEF SHIFT_MNEM, IA_MNEM
<1>3. CASE i.opcode = OP_LOAD
  BY <1>3 DEF LD_MNEM
<1>4. CASE i.opcode = OP_STORE
  BY <1>4 DEF ST_MNEM
<1>5. CASE i.opcode = OP_BRANCH
  BY <1>5 DEF BR_MNEM
<1>6. CASE i.opcode \in {OP_LUI, OP_AUIPC, OP_JAL, OP_JALR}
  BY <1>6
<1>7. CASE i.opcode \notin {OP_R, OP_IARITH, OP_LOAD, OP_STORE, OP_BRANCH, OP_LUI,
                           OP_AUIPC, OP_JAL, OP_JALR}
  BY <1>7
<1> HIDE DEF Fielded, legal, decode, OP_R, OP_IARITH, OP_LOAD, OP_STORE, OP_BRANCH,
             OP_LUI, OP_AUIPC, OP_JAL, OP_JALR, OP_SYSTEM
<1> QED
  BY <1>1, <1>2, <1>3, <1>4, <1>5, <1>6, <1>7

\* The class of every opcode, and with it the row.
LEMMA Classes ==
  ASSUME NEW i, Fielded(i)
  PROVE  /\ i.opcode = OP_R      => decode(i)[1] = "R"
         /\ i.opcode = OP_IARITH => decode(i)[1] = "I"
         /\ i.opcode = OP_LOAD   => decode(i)[1] = "L"
         /\ i.opcode = OP_STORE  => decode(i)[1] = "S"
         /\ i.opcode = OP_BRANCH => decode(i)[1] = "B"
         /\ i.opcode = OP_LUI    => decode(i) = LUI
         /\ i.opcode = OP_AUIPC  => decode(i) = AUIPC
         /\ i.opcode = OP_JAL    => decode(i) = JAL
         /\ i.opcode = OP_JALR /\ i.funct3 = 0 => decode(i) = JALR
BY DEF decode, LUI, AUIPC, JAL, JALR, OP_R, OP_IARITH, OP_LOAD, OP_STORE, OP_BRANCH, OP_LUI,
       OP_AUIPC, OP_JAL, OP_JALR, OP_SYSTEM

LEMMA Rows ==
  ASSUME NEW m
  PROVE  /\ m[1] = "R" => CONTROL(m) = r_row
         /\ m[1] = "I" => CONTROL(m) = iarith_row
         /\ m[1] = "L" => CONTROL(m) = load_row
         /\ m[1] = "S" => CONTROL(m) = store_row
         /\ m[1] = "B" => CONTROL(m) = branch_row
         /\ m = LUI   => CONTROL(m) = lui_row
         /\ m = AUIPC => CONTROL(m) = auipc_row
         /\ m = JAL   => CONTROL(m) = jal_row
         /\ m = JALR  => CONTROL(m) = jalr_row
<1> USE DEF CONTROL, LUI, AUIPC, JAL, JALR
<1>1. ASSUME m[1] = "R" PROVE CONTROL(m) = r_row
  BY <1>1
<1>2. ASSUME m[1] = "I" PROVE CONTROL(m) = iarith_row
  BY <1>2
<1>3. ASSUME m[1] = "L" PROVE CONTROL(m) = load_row
  BY <1>3
<1>4. ASSUME m[1] = "S" PROVE CONTROL(m) = store_row
  BY <1>4
<1>5. ASSUME m[1] = "B" PROVE CONTROL(m) = branch_row
  BY <1>5
<1>6. ASSUME m = LUI PROVE CONTROL(m) = lui_row
  BY <1>6
<1>7. ASSUME m = AUIPC PROVE CONTROL(m) = auipc_row
  BY <1>7
<1>8. ASSUME m = JAL PROVE CONTROL(m) = jal_row
  BY <1>8
<1>9. ASSUME m = JALR PROVE CONTROL(m) = jalr_row
  BY <1>9
<1> HIDE DEF CONTROL, LUI, AUIPC, JAL, JALR
<1> QED
  BY <1>1, <1>2, <1>3, <1>4, <1>5, <1>6, <1>7, <1>8, <1>9, Zenon

LEMMA PlainAgree ==
  ASSUME NEW i, Fielded(i), i.opcode # OP_SYSTEM
  PROVE  agree(i)
<1>1. CASE ~legal(i)
  BY <1>1, SameLegality, AgreeIfIllegal
<1>2. CASE legal(i)
  <2>1. decode(i)[2] # "illegal"
    BY <1>2, SameLegality
  <2>2. CASE i.opcode = OP_R
    <3>1. CONTROL(decode(i)) = r_row
      BY <1>2, <2>2, Classes, Rows
    <3>2. alu_ctrl_model(r_row.alu_class, i.funct3, (i.funct7 \div 32) % 2 = 1) = alu_op(i)
      BY <2>2, RowClasses, AluModel DEF Fielded
    <3>3. csr_we_value(r_row, i) = FALSE
      BY RowClasses
    <3>4. matches(r_row, alu_op(i), FALSE, control(i))
      BY <1>2, <2>2, ControlCases, RowsMatch
    <3> QED
      BY <1>2, <2>1, <3>1, <3>2, <3>3, <3>4, AgreeIfLegal
  <2>3. CASE i.opcode = OP_IARITH
    <3>1. CONTROL(decode(i)) = iarith_row
      BY <1>2, <2>3, Classes, Rows
    <3>2. alu_ctrl_model(iarith_row.alu_class, i.funct3, (i.funct7 \div 32) % 2 = 1) = alu_op(i)
      BY <2>3, RowClasses, AluModel DEF Fielded
    <3>3. csr_we_value(iarith_row, i) = FALSE
      BY RowClasses
    <3>4. matches(iarith_row, alu_op(i), FALSE, control(i))
      BY <1>2, <2>3, ControlCases, RowsMatch
    <3> QED
      BY <1>2, <2>1, <3>1, <3>2, <3>3, <3>4, AgreeIfLegal
  <2>4. CASE i.opcode = OP_LOAD
    <3>1. CONTROL(decode(i)) = load_row
      BY <1>2, <2>4, Classes, Rows
    <3>2. alu_ctrl_model(load_row.alu_class, i.funct3, (i.funct7 \div 32) % 2 = 1) = "ADD"
      BY <2>4, RowClasses, AluModel DEF Fielded
    <3>3. csr_we_value(load_row, i) = FALSE
      BY RowClasses
    <3>4. matches(load_row, "ADD", FALSE, control(i))
      BY <1>2, <2>4, ControlCases, RowsMatch
    <3> QED
      BY <1>2, <2>1, <3>1, <3>2, <3>3, <3>4, AgreeIfLegal
  <2>5. CASE i.opcode = OP_STORE
    <3>1. CONTROL(decode(i)) = store_row
      BY <1>2, <2>5, Classes, Rows
    <3>2. alu_ctrl_model(store_row.alu_class, i.funct3, (i.funct7 \div 32) % 2 = 1) = "ADD"
      BY <2>5, RowClasses, AluModel DEF Fielded
    <3>3. csr_we_value(store_row, i) = FALSE
      BY RowClasses
    <3>4. matches(store_row, "ADD", FALSE, control(i))
      BY <1>2, <2>5, ControlCases, RowsMatch
    <3> QED
      BY <1>2, <2>1, <3>1, <3>2, <3>3, <3>4, AgreeIfLegal
  <2>6. CASE i.opcode = OP_BRANCH
    <3>1. CONTROL(decode(i)) = branch_row
      BY <1>2, <2>6, Classes, Rows
    <3>2. alu_ctrl_model(branch_row.alu_class, i.funct3, (i.funct7 \div 32) % 2 = 1) = "ADD"
      BY <2>6, RowClasses, AluModel DEF Fielded
    <3>3. csr_we_value(branch_row, i) = FALSE
      BY RowClasses
    <3>4. matches(branch_row, "ADD", FALSE, control(i))
      BY <1>2, <2>6, ControlCases, RowsMatch
    <3> QED
      BY <1>2, <2>1, <3>1, <3>2, <3>3, <3>4, AgreeIfLegal
  <2>7. CASE i.opcode = OP_LUI
    <3>1. CONTROL(decode(i)) = lui_row
      BY <1>2, <2>7, Classes, Rows
    <3>2. alu_ctrl_model(lui_row.alu_class, i.funct3, (i.funct7 \div 32) % 2 = 1) = "PASSB"
      BY <2>7, RowClasses, AluModel DEF Fielded
    <3>3. csr_we_value(lui_row, i) = FALSE
      BY RowClasses
    <3>4. matches(lui_row, "PASSB", FALSE, control(i))
      BY <1>2, <2>7, ControlCases, RowsMatch
    <3> QED
      BY <1>2, <2>1, <3>1, <3>2, <3>3, <3>4, AgreeIfLegal
  <2>8. CASE i.opcode = OP_AUIPC
    <3>1. CONTROL(decode(i)) = auipc_row
      BY <1>2, <2>8, Classes, Rows
    <3>2. alu_ctrl_model(auipc_row.alu_class, i.funct3, (i.funct7 \div 32) % 2 = 1) = "ADD"
      BY <2>8, RowClasses, AluModel DEF Fielded
    <3>3. csr_we_value(auipc_row, i) = FALSE
      BY RowClasses
    <3>4. matches(auipc_row, "ADD", FALSE, control(i))
      BY <1>2, <2>8, ControlCases, RowsMatch
    <3> QED
      BY <1>2, <2>1, <3>1, <3>2, <3>3, <3>4, AgreeIfLegal
  <2>9. CASE i.opcode = OP_JAL
    <3>1. CONTROL(decode(i)) = jal_row
      BY <1>2, <2>9, Classes, Rows
    <3>2. alu_ctrl_model(jal_row.alu_class, i.funct3, (i.funct7 \div 32) % 2 = 1) = "ADD"
      BY <2>9, RowClasses, AluModel DEF Fielded
    <3>3. csr_we_value(jal_row, i) = FALSE
      BY RowClasses
    <3>4. matches(jal_row, "ADD", FALSE, control(i))
      BY <1>2, <2>9, ControlCases, RowsMatch
    <3> QED
      BY <1>2, <2>1, <3>1, <3>2, <3>3, <3>4, AgreeIfLegal
  <2>10. CASE i.opcode = OP_JALR
    <3>1. CONTROL(decode(i)) = jalr_row
      BY <1>2, <2>10, Classes, Rows DEF legal, OP_R, OP_IARITH, OP_LOAD, OP_STORE, OP_BRANCH, OP_LUI,
           OP_AUIPC, OP_JAL, OP_JALR, OP_SYSTEM
    <3>2. alu_ctrl_model(jalr_row.alu_class, i.funct3, (i.funct7 \div 32) % 2 = 1) = "ADD"
      BY <2>10, RowClasses, AluModel DEF Fielded
    <3>3. csr_we_value(jalr_row, i) = FALSE
      BY RowClasses
    <3>4. matches(jalr_row, "ADD", FALSE, control(i))
      BY <1>2, <2>10, ControlCases, RowsMatch
    <3> QED
      BY <1>2, <2>1, <3>1, <3>2, <3>3, <3>4, AgreeIfLegal
  <2> QED
    BY <1>2, <2>2, <2>3, <2>4, <2>5, <2>6, <2>7, <2>8, <2>9, <2>10, LegalOpcode DEF Opcodes
<1> QED
  BY <1>1, <1>2

----------------------------------------------------------------------------
(* The SYSTEM words.                                                       *)

LEMMA FixedMatch ==
  ASSUME NEW name
  PROVE  /\ matches(sys_row(name), "ADD", FALSE,
                    fixed_ctl(name = "mret", name = "ecall", name = "ebreak"))
         /\ sys_row(name).alu_class = "ADD" /\ sys_row(name).csr_we = "never"
BY DEF matches, sys_row, fixed_ctl, ZERO_ROW, ZERO_CONTROL

\* csrrw writes always, csrrs and csrrc if the register field is not x0.
LEMMA CsrRows ==
  ASSUME NEW i, NEW imm_form, NEW always \in BOOLEAN
  PROVE  /\ csr_row(imm_form, always).alu_class = "ADD"
         /\ csr_row(imm_form, TRUE).csr_we = "always"
         /\ csr_row(imm_form, FALSE).csr_we = "rs1!=0"
BY DEF csr_row, ZERO_ROW

LEMMA CsrClasses ==
  ASSUME NEW m
  PROVE  /\ m[1] = "CSR-R" => CONTROL(m) = csr_row(FALSE, m[2] = "csrrw")
         /\ m[1] = "CSR-I" => CONTROL(m) = csr_row(TRUE, m[2] = "csrrw")
<1>1. m[1] \in {"CSR-R", "CSR-I"} =>
        /\ m[1] # "R" /\ m[1] # "I" /\ m[1] # "L" /\ m[1] # "S" /\ m[1] # "B"
        /\ m[1] # "SYS" /\ m # LUI /\ m # AUIPC /\ m # JAL /\ m # JALR
  BY DEF LUI, AUIPC, JAL, JALR
<1>2. "CSR-R" # "CSR-I"
  OBVIOUS
<1> QED
  BY <1>1, <1>2, Zenon DEF CONTROL

LEMMA FixedAgree ==
  ASSUME NEW i, Fielded(i), i.opcode = OP_SYSTEM, i.funct3 = 0, legal(i)
  PROVE  agree(i)
<1>1. decode(i) = <<"SYS", SYS_MNEM(i)>>
  BY DEF decode, OP_R, OP_IARITH, OP_LOAD, OP_STORE, OP_BRANCH, OP_LUI,
       OP_AUIPC, OP_JAL, OP_JALR, OP_SYSTEM
<1>2. i.csr \in {CSR_ECALL, CSR_EBREAK, CSR_MRET}
  BY DEF legal, OP_R, OP_IARITH, OP_LOAD, OP_STORE, OP_BRANCH, OP_LUI,
       OP_AUIPC, OP_JAL, OP_JALR, OP_SYSTEM
<1>3. control(i) = fixed_ctl(i.csr = CSR_MRET, i.csr = CSR_ECALL, i.csr = CSR_EBREAK)
  BY SystemCases, Zenon
<1>4. CASE i.rd = 0 /\ i.rs1 = 0
  <2> DEFINE name == SYS_MNEM(i)
  <2>1. /\ (i.csr = CSR_MRET) = (name = "mret") /\ (i.csr = CSR_ECALL) = (name = "ecall")
        /\ (i.csr = CSR_EBREAK) = (name = "ebreak") /\ name # "illegal"
    BY <1>2, <1>4 DEF SYS_MNEM, fixed_word, CSR_ECALL, CSR_EBREAK, CSR_MRET
  <2> HIDE DEF name
  <2>2. control(i) = fixed_ctl(name = "mret", name = "ecall", name = "ebreak")
    BY <1>3, <2>1, Zenon
  <2>3. CONTROL(decode(i)) = sys_row(name)
    BY <1>1 DEF CONTROL, LUI, AUIPC, JAL, JALR, name
  <2>4. csr_we_value(sys_row(name), i) = FALSE
    BY FixedMatch DEF csr_we_value
  <2>5. alu_ctrl_model("ADD", i.funct3, (i.funct7 \div 32) % 2 = 1) = "ADD"
    BY AluModel DEF Fielded
  <2>6. decode(i)[2] # "illegal"
    BY <1>1, <2>1 DEF name
  <2>7. matches(sys_row(name), "ADD", FALSE, control(i))
    BY <2>2, FixedMatch, Zenon
  <2> QED
    BY <2>3, <2>4, <2>5, <2>6, <2>7, FixedMatch, AgreeIfLegal
<1>5. CASE ~(i.rd = 0 /\ i.rs1 = 0)
  <2>1. decode(i)[2] = "illegal"
    BY <1>1, <1>5 DEF SYS_MNEM, fixed_word
  <2>2. system_alias(i)
    BY <1>2 DEF system_alias
  <2>3. fixed_ctl(i.csr = CSR_MRET, i.csr = CSR_ECALL, i.csr = CSR_EBREAK).illegal = FALSE
    BY DEF fixed_ctl, ZERO_CONTROL
  <2>4. control(i).illegal = FALSE
    BY <1>3, <2>3, Zenon
  <2> QED
    BY <2>1, <2>2, <2>4, Zenon DEF agree
<1> QED
  BY <1>4, <1>5

LEMMA CsrAgree ==
  ASSUME NEW i, Fielded(i), i.opcode = OP_SYSTEM, i.funct3 # 0, legal(i)
  PROVE  agree(i)
<1>1. i.funct3 \in {1, 2, 3} \/ i.funct3 \in {5, 6, 7}
  BY LegalOpcode
<1>2. alu_ctrl_model("ADD", i.funct3, (i.funct7 \div 32) % 2 = 1) = "ADD"
  BY AluModel DEF Fielded
<1>3. CASE i.funct3 \in {1, 2, 3}
  <2> DEFINE name == CSR_MNEM(i.funct3)
             row  == csr_row(FALSE, name = "csrrw")
             we   == i.funct3 = 1 \/ i.rs1 # 0
  <2>1. decode(i) = <<"CSR-R", name>>
    BY <1>3 DEF decode, OP_R, OP_IARITH, OP_LOAD, OP_STORE, OP_BRANCH, OP_LUI,
       OP_AUIPC, OP_JAL, OP_JALR, OP_SYSTEM
  <2>2. (name = "csrrw") = (i.funct3 = 1) /\ name # "illegal"
    BY <1>3 DEF CSR_MNEM
  <2>3. control(i) = csr_ctl("I", we, FALSE)
    BY <1>3, SystemCases, Zenon
  <2> HIDE DEF name
  <2>4. decode(i)[1] = "CSR-R" /\ decode(i)[2] = name
    BY <2>1
  <2>5. CONTROL(decode(i)) = row
    BY <2>4, CsrClasses, Zenon
  <2>6. csr_we_value(row, i) = we
    <3>1. CASE name = "csrrw"
      BY <2>2, <3>1, CsrRows DEF csr_we_value
    <3>2. CASE name # "csrrw"
      BY <2>2, <3>2, CsrRows DEF csr_we_value
    <3> QED
      BY <3>1, <3>2
  <2>7. row.alu_class = "ADD"
    BY DEF csr_row, ZERO_ROW
  <2> HIDE DEF we
  <2>8. matches(row, "ADD", we, control(i))
    BY <2>3, RowsMatch
  <2> QED
    BY <1>2, <2>2, <2>4, <2>5, <2>6, <2>7, <2>8, AgreeIfLegal
<1>4. CASE i.funct3 \in {5, 6, 7}
  <2> DEFINE name == CSR_MNEM(i.funct3 - 4)
             row  == csr_row(TRUE, name = "csrrw")
             we   == i.funct3 = 5 \/ i.rs1 # 0
  <2>1. decode(i) = <<"CSR-I", name>>
    BY <1>4 DEF decode, OP_R, OP_IARITH, OP_LOAD, OP_STORE, OP_BRANCH, OP_LUI,
       OP_AUIPC, OP_JAL, OP_JALR, OP_SYSTEM
  <2>2. (name = "csrrw") = (i.funct3 = 5) /\ name # "illegal"
    BY <1>4 DEF CSR_MNEM
  <2>3. control(i) = csr_ctl("Z", we, TRUE)
    BY <1>4, SystemCases, Zenon
  <2> HIDE DEF name
  <2>4. decode(i)[1] = "CSR-I" /\ decode(i)[2] = name
    BY <2>1
  <2>5. CONTROL(decode(i)) = row
    BY <2>4, CsrClasses, Zenon
  <2>6. csr_we_value(row, i) = we
    <3>1. CASE name = "csrrw"
      BY <2>2, <3>1, CsrRows DEF csr_we_value
    <3>2. CASE name # "csrrw"
      BY <2>2, <3>2, CsrRows DEF csr_we_value
    <3> QED
      BY <3>1, <3>2
  <2>7. row.alu_class = "ADD"
    BY DEF csr_row, ZERO_ROW
  <2> HIDE DEF we
  <2>8. matches(row, "ADD", we, control(i))
    BY <2>3, RowsMatch
  <2> QED
    BY <1>2, <2>2, <2>4, <2>5, <2>6, <2>7, <2>8, AgreeIfLegal
<1> QED
  BY <1>1, <1>3, <1>4

LEMMA SystemAgrees ==
  ASSUME NEW i, Fielded(i), i.opcode = OP_SYSTEM
  PROVE  agree(i)
<1>1. CASE ~legal(i)
  <2>1. decode(i)[2] = "illegal"
    <3>1. CASE i.funct3 = 0
      <4>1. i.csr \notin {CSR_ECALL, CSR_EBREAK, CSR_MRET}
        BY <1>1, <3>1 DEF legal
      <4> QED
        BY <3>1, <4>1 DEF decode, SYS_MNEM, fixed_word, OP_R, OP_IARITH, OP_LOAD,
           OP_STORE, OP_BRANCH, OP_LUI, OP_AUIPC, OP_JAL, OP_JALR, OP_SYSTEM
    <3>2. CASE i.funct3 # 0
      <4>1. i.funct3 = 4
        BY <1>1, <3>2 DEF legal, Fielded
      <4> QED
        BY <4>1 DEF decode, CSR_MNEM, OP_R, OP_IARITH, OP_LOAD, OP_STORE,
           OP_BRANCH, OP_LUI, OP_AUIPC, OP_JAL, OP_JALR, OP_SYSTEM
    <3> QED
      BY <3>1, <3>2
  <2> QED
    BY <1>1, <2>1, AgreeIfIllegal
<1>2. CASE legal(i)
  BY <1>2, FixedAgree, CsrAgree
<1> QED
  BY <1>1, <1>2

----------------------------------------------------------------------------
(* The theorems.                                                           *)

\* The fields of a word are numbers of their widths, whatever the word.
LEMMA FieldsAreFields == ASSUME NEW w PROVE Fielded(fields(w))
<1>1. num(w, 6, 0) \in 0 .. 127
  BY DEF num
<1>2. num(w, 14, 12) \in 0 .. 7
  BY DEF num
<1>3. num(w, 31, 25) \in 0 .. 127
  BY DEF num
<1> QED
  BY <1>1, <1>2, <1>3 DEF Fielded, fields

\* control.v and iss.py agree on all 2^32 words: the same ones are illegal,
\* except the SYSTEM words that control.v takes for ecall, ebreak or mret
\* whatever their rd and rs1 are, and the legal ones get the control signals
\* of the truth table's row for the mnemonic iss.py gives them.
THEOREM DecodersAgreeOnEveryWord == ASSUME NEW w PROVE agree(fields(w))
BY FieldsAreFields, PlainAgree, SystemAgrees

\* The same for the words the generators draw, whatever they draw.
THEOREM VectorsDecodersAgree == Spec => []DecodersAgree
<1>1. DecodersAgree
  BY DecodersAgreeOnEveryWord DEF DecodersAgree
<1>2. DecodersAgree'
  BY DecodersAgreeOnEveryWord DEF DecodersAgree
<1> QED
  BY <1>1, <1>2, PTL DEF Spec

----------------------------------------------------------------------------
(* imm_gen.v and iss.py on one word.                                       *)

\* imm_gen.v's case statement, one selector at a time.
LEMMA ImmCases ==
  ASSUME NEW w
  PROVE  /\ imm_bits(w, "I") = fill(w, 31, 12) \cup slice(w, 31, 20, 0)
         /\ imm_bits(w, "S") = fill(w, 31, 12) \cup slice(w, 31, 25, 5) \cup slice(w, 11, 7, 0)
         /\ imm_bits(w, "B") = fill(w, 31, 12) \cup slice(w, 7, 7, 11)
                               \cup slice(w, 30, 25, 5) \cup slice(w, 11, 8, 1)
         /\ imm_bits(w, "U") = slice(w, 31, 12, 12)
         /\ imm_bits(w, "J") = fill(w, 31, 20) \cup slice(w, 19, 12, 12)
                               \cup slice(w, 20, 20, 11) \cup slice(w, 30, 21, 1)
         /\ imm_bits(w, "Z") = slice(w, 19, 15, 0)
BY DEF imm_bits, zimm

\* The same value from the two descriptions of each format.
LEMMA SameImmediate ==
  ASSUME NEW w
  PROVE  /\ imm_bits(w, "I") = iss_i(w)
         /\ imm_bits(w, "S") = iss_s(w)
         /\ imm_bits(w, "B") = iss_b(w)
         /\ imm_bits(w, "U") = slice(iss_u(w), 19, 0, 12)
         /\ imm_bits(w, "J") = iss_j(w)
         /\ imm_bits(w, "Z") = iss_zimm(w)
         /\ imm_bits(w, "I") \cap (0 .. 4) = iss_shamt(w)
<1>1. imm_bits(w, "I") = iss_i(w)
  BY ImmCases DEF iss_i, sext, fill, slice
<1>2. imm_bits(w, "S") = iss_s(w)
  BY ImmCases DEF iss_s, sext, fill, slice
<1>3. imm_bits(w, "B") = iss_b(w)
  BY ImmCases DEF iss_b, sext, fill, slice
<1>4. imm_bits(w, "U") = slice(iss_u(w), 19, 0, 12)
  BY ImmCases DEF iss_u, slice
<1>5. imm_bits(w, "J") = iss_j(w)
  BY ImmCases DEF iss_j, sext, fill, slice
<1>6. imm_bits(w, "Z") = iss_zimm(w)
  BY ImmCases DEF iss_zimm
<1>7. imm_bits(w, "I") \cap (0 .. 4) = iss_shamt(w)
  BY ImmCases DEF iss_shamt, fill, slice
<1> QED
  BY <1>1, <1>2, <1>3, <1>4, <1>5, <1>6, <1>7

----------------------------------------------------------------------------
(* The immediate the control word selects.                                 *)

\* The selector of a legal word is that of its mnemonic's row.
LEMMA SelectorOfRow ==
  ASSUME NEW w, ~is_illegal(w)
  PROVE  control(fields(w)).imm_sel = CONTROL(mnemonic(w)).imm_sel
<1>1. control(fields(w)) = expected_fields(fields(w), mnemonic(w))
  BY DecodersAgreeOnEveryWord, Zenon DEF agree, is_illegal, mnemonic
<1> QED
  BY <1>1 DEF expected_fields, packed

\* The selector of each class.
LEMMA Selectors ==
  ASSUME NEW m
  PROVE  /\ m[1] \in {"I", "L"} \/ m = JALR => CONTROL(m).imm_sel = "I"
         /\ m[1] = "S" => CONTROL(m).imm_sel = "S"
         /\ m[1] = "B" => CONTROL(m).imm_sel = "B"
         /\ m \in {LUI, AUIPC} => CONTROL(m).imm_sel = "U"
         /\ m = JAL => CONTROL(m).imm_sel = "J"
         /\ m[1] = "CSR-I" => CONTROL(m).imm_sel = "Z"
<1>1. /\ iarith_row.imm_sel = "I" /\ load_row.imm_sel = "I" /\ jalr_row.imm_sel = "I"
      /\ store_row.imm_sel = "S" /\ branch_row.imm_sel = "B" /\ lui_row.imm_sel = "U"
      /\ auipc_row.imm_sel = "U" /\ jal_row.imm_sel = "J"
  BY DEF iarith_row, load_row, jalr_row, store_row, branch_row, lui_row, auipc_row,
         jal_row, ZERO_ROW
<1>2. \A always : csr_row(TRUE, always).imm_sel = "Z"
  BY DEF csr_row, ZERO_ROW
<1>3. m[1] \in {"I", "L"} => m[1] = "I" \/ m[1] = "L"
  OBVIOUS
<1>4. m[1] \in {"I", "L"} \/ m = JALR => CONTROL(m).imm_sel = "I"
  BY <1>1, <1>3, Rows, Zenon
<1>5. m[1] = "CSR-I" => CONTROL(m).imm_sel = "Z"
  BY <1>2, CsrClasses, Zenon
<1>6. m \in {LUI, AUIPC} => CONTROL(m).imm_sel = "U"
  BY <1>1, Rows, Zenon
<1> QED
  BY <1>1, <1>4, <1>5, <1>6, Rows, Zenon

\* What decode returns as the immediate of each class.
LEMMA IssImmediates ==
  ASSUME NEW w
  PROVE  LET m == mnemonic(w) IN
         /\ m \in SHIFT_MNEMS => iss_imm(w) = iss_shamt(w)
         /\ m \in IARITH_MNEMS \cup LOAD_MNEMS \cup {JALR} => iss_imm(w) = iss_i(w)
         /\ m[1] = "S" => iss_imm(w) = iss_s(w)
         /\ m[1] = "B" => iss_imm(w) = iss_b(w)
         /\ m \in {LUI, AUIPC} => iss_imm(w) = iss_u(w)
         /\ m = JAL => iss_imm(w) = iss_j(w)
         /\ m[1] = "CSR-I" => iss_imm(w) = iss_zimm(w)
<1> DEFINE m == mnemonic(w)
<1>1. /\ m \in SHIFT_MNEMS => m[1] = "I" /\ m \notin IARITH_MNEMS
      /\ m \in IARITH_MNEMS => m[1] = "I"
      /\ m \in LOAD_MNEMS => m[1] = "L"
      /\ m \in {LUI, AUIPC} => m[1] = "U"
      /\ m = JAL => m[1] = "J"
      /\ m = JALR => m[1] = "J" /\ m # JAL
  BY DEF SHIFT_MNEMS, IARITH_MNEMS, LOAD_MNEMS, LUI, AUIPC, JAL, JALR
<1>2. iss_imm(w) = CASE m \in SHIFT_MNEMS -> iss_shamt(w)
        [] m \in IARITH_MNEMS \cup LOAD_MNEMS \cup {JALR} -> iss_i(w)
        [] m[1] = "S"     -> iss_s(w)
        [] m[1] = "B"     -> iss_b(w)
        [] m[1] = "U"     -> iss_u(w)
        [] m = JAL        -> iss_j(w)
        [] m[1] = "CSR-I" -> iss_zimm(w)
  BY DEF iss_imm
<1> HIDE DEF m
<1>3. m \in SHIFT_MNEMS => iss_imm(w) = iss_shamt(w)
  BY <1>1, <1>2
<1>4. m \in IARITH_MNEMS \cup LOAD_MNEMS \cup {JALR} => iss_imm(w) = iss_i(w)
  BY <1>1, <1>2
<1>5. m[1] = "S" => iss_imm(w) = iss_s(w)
  BY <1>1, <1>2
<1>6. m[1] = "B" => iss_imm(w) = iss_b(w)
  BY <1>1, <1>2
<1>7. m \in {LUI, AUIPC} => iss_imm(w) = iss_u(w)
  BY <1>1, <1>2
<1>8. m = JAL => iss_imm(w) = iss_j(w)
  BY <1>1, <1>2
<1>9. m[1] = "CSR-I" => iss_imm(w) = iss_zimm(w)
  BY <1>1, <1>2
<1> QED
  BY <1>3, <1>4, <1>5, <1>6, <1>7, <1>8, <1>9 DEF m

\* On every word that is legal, the immediate that control.v selects and
\* imm_gen.v computes is the one iss.py's decode returns; decode returns the
\* twenty bits of lui and auipc unshifted, and of a shift only the amount.
THEOREM ImmediatesAgreeOnEveryWord ==
  ASSUME NEW w, ~is_illegal(w)
  PROVE  LET m   == mnemonic(w)
             imm == imm_bits(w, control(fields(w)).imm_sel)
         IN  /\ m \in SHIFT_MNEMS => imm \cap (0 .. 4) = iss_imm(w)
             /\ m \in {LUI, AUIPC} => imm = slice(iss_imm(w), 19, 0, 12)
             /\ m \in IARITH_MNEMS \cup LOAD_MNEMS \cup STORE_MNEMS \cup BRANCH_MNEMS
                      \cup {JAL, JALR} \cup CSR_IMM_MNEMS => imm = iss_imm(w)
<1> DEFINE m   == mnemonic(w)
           imm == imm_bits(w, control(fields(w)).imm_sel)
<1>1. imm = imm_bits(w, CONTROL(m).imm_sel)
  BY SelectorOfRow
<1>2. /\ m \in SHIFT_MNEMS => m[1] = "I"
      /\ m \in IARITH_MNEMS => m[1] = "I"
      /\ m \in LOAD_MNEMS => m[1] = "L"
      /\ m \in STORE_MNEMS => m[1] = "S"
      /\ m \in BRANCH_MNEMS => m[1] = "B"
      /\ m \in CSR_IMM_MNEMS => m[1] = "CSR-I"
  BY DEF SHIFT_MNEMS, IARITH_MNEMS, LOAD_MNEMS, STORE_MNEMS, BRANCH_MNEMS, CSR_IMM_MNEMS
<1>3. /\ m \in SHIFT_MNEMS => iss_imm(w) = iss_shamt(w)
      /\ m \in IARITH_MNEMS \cup LOAD_MNEMS \cup {JALR} => iss_imm(w) = iss_i(w)
      /\ m[1] = "S" => iss_imm(w) = iss_s(w)
      /\ m[1] = "B" => iss_imm(w) = iss_b(w)
      /\ m \in {LUI, AUIPC} => iss_imm(w) = iss_u(w)
      /\ m = JAL => iss_imm(w) = iss_j(w)
      /\ m[1] = "CSR-I" => iss_imm(w) = iss_zimm(w)
  BY IssImmediates
<1> HIDE DEF m, imm
<1>4. m \in SHIFT_MNEMS => imm \cap (0 .. 4) = iss_imm(w)
  BY <1>1, <1>2, <1>3, Selectors, SameImmediate
<1>5. m \in {LUI, AUIPC} => imm = slice(iss_imm(w), 19, 0, 12)
  BY <1>1, <1>3, Selectors, SameImmediate
<1>6. m \in IARITH_MNEMS \cup LOAD_MNEMS \cup {JALR} => imm = iss_imm(w)
  BY <1>1, <1>2, <1>3, Selectors, SameImmediate
<1>7. m \in STORE_MNEMS \cup BRANCH_MNEMS \cup {JAL} \cup CSR_IMM_MNEMS => imm = iss_imm(w)
  BY <1>1, <1>2, <1>3, Selectors, SameImmediate
<1> QED
  BY <1>4, <1>5, <1>6, <1>7 DEF m, imm

----------------------------------------------------------------------------
(* The encoders.                                                           *)

\* A 32-bit word that is the sign extension of its low n bits: the operands
\* that pass the range checks of encode_one.
signed(x, n) == x \subseteq Bits /\ \A k \in n .. 31 : (k \in x) <=> (n - 1) \in x

LEMMA SurvivesI ==
  ASSUME NEW imm, signed(imm, 12), NEW rs1, NEW f3, NEW rd, NEW op
  PROVE  imm_bits(enc_i(imm, rs1, f3, rd, op), "I") = imm
<1> DEFINE w == enc_i(imm, rs1, f3, rd, op)
<1>1. \A k \in 20 .. 31 : (k \in w) <=> (k - 20 \in imm)
  BY DEF enc_i, slice, field
<1> HIDE DEF w
<1>2. imm_bits(w, "I") \subseteq 0 .. 31
  BY ImmCases DEF fill, slice
<1>3. \A k \in 0 .. 31 : (k \in imm_bits(w, "I")) <=> k \in imm
  BY <1>1, ImmCases DEF fill, slice, signed
<1> QED
  BY <1>2, <1>3 DEF w, signed, Bits

LEMMA SurvivesS ==
  ASSUME NEW imm, signed(imm, 12), NEW rs2, NEW rs1, NEW f3, NEW op
  PROVE  imm_bits(enc_s(imm, rs2, rs1, f3, op), "S") = imm
<1> DEFINE w == enc_s(imm, rs2, rs1, f3, op)
<1>1. /\ \A k \in 25 .. 31 : (k \in w) <=> (k - 20 \in imm)
      /\ \A k \in 7 .. 11 : (k \in w) <=> (k - 7 \in imm)
  BY DEF enc_s, slice, field
<1> HIDE DEF w
<1>2. imm_bits(w, "S") \subseteq 0 .. 31
  BY ImmCases DEF fill, slice
<1>3. \A k \in 0 .. 31 : (k \in imm_bits(w, "S")) <=> k \in imm
  BY <1>1, ImmCases DEF fill, slice, signed
<1> QED
  BY <1>2, <1>3 DEF w, signed, Bits

LEMMA SurvivesB ==
  ASSUME NEW imm, signed(imm, 13), 0 \notin imm, NEW rs2, NEW rs1, NEW f3, NEW op
  PROVE  imm_bits(enc_b(imm, rs2, rs1, f3, op), "B") = imm
<1> DEFINE w == enc_b(imm, rs2, rs1, f3, op)
<1>1. /\ \A k \in 8 .. 11 : (k \in w) <=> (k - 7 \in imm)
      /\ \A k \in 25 .. 30 : (k \in w) <=> (k - 20 \in imm)
  BY DEF enc_b, slice, field
<1>2. (7 \in w <=> 11 \in imm) /\ (31 \in w <=> 12 \in imm)
  BY DEF enc_b, slice, field
<1> HIDE DEF w
<1>3. imm_bits(w, "B") \subseteq 0 .. 31
  BY ImmCases DEF fill, slice
<1>4. \A k \in 0 .. 31 : (k \in imm_bits(w, "B")) <=> k \in imm
  BY <1>1, <1>2, ImmCases DEF fill, slice, signed
<1> QED
  BY <1>3, <1>4 DEF w, signed, Bits

LEMMA SurvivesU ==
  ASSUME NEW imm, NEW rd, NEW op
  PROVE  imm_bits(enc_u(imm, rd, op), "U") = slice(imm, 19, 0, 12)
BY ImmCases DEF enc_u, slice, field

LEMMA SurvivesJ ==
  ASSUME NEW imm, signed(imm, 21), 0 \notin imm, NEW rd, NEW op
  PROVE  imm_bits(enc_j(imm, rd, op), "J") = imm
<1> DEFINE w == enc_j(imm, rd, op)
<1>1. /\ \A k \in 21 .. 30 : (k \in w) <=> (k - 20 \in imm)
      /\ \A k \in 12 .. 19 : (k \in w) <=> (k \in imm)
  BY DEF enc_j, slice, field
<1>2. (20 \in w <=> 11 \in imm) /\ (31 \in w <=> 20 \in imm)
  BY DEF enc_j, slice, field
<1> HIDE DEF w
<1>3. imm_bits(w, "J") \subseteq 0 .. 31
  BY ImmCases DEF fill, slice
<1>4. \A k \in 0 .. 31 : (k \in imm_bits(w, "J")) <=> k \in imm
  BY <1>1, <1>2, ImmCases DEF fill, slice, signed
<1> QED
  BY <1>3, <1>4 DEF w, signed, Bits

\* The zimm of csrrwi and its like is encoded where the others have rs1.
LEMMA SurvivesZ ==
  ASSUME NEW csrno, NEW zimm_, zimm_ \subseteq 0 .. 4, NEW f3, NEW rd, NEW op
  PROVE  imm_bits(enc_i(csrno, zimm_, f3, rd, op), "Z") = zimm_
<1>1. imm_bits(enc_i(csrno, zimm_, f3, rd, op), "Z") \subseteq 0 .. 4
  BY ImmCases DEF slice
<1>2. \A k \in 0 .. 4 :
        (k \in imm_bits(enc_i(csrno, zimm_, f3, rd, op), "Z")) <=> k \in zimm_
  BY ImmCases DEF enc_i, slice, field
<1> QED
  BY <1>1, <1>2

\* An immediate asm.py accepts comes out of imm_gen.v, and of iss.py's
\* decode, as it went in: in every format, for every value of the other
\* fields, each bit of it, the sign included.
THEOREM ImmediatesSurviveEncoding ==
  ASSUME NEW imm \in SUBSET Bits, NEW rs2, NEW rs1, NEW f3, NEW rd, NEW op
  PROVE  /\ signed(imm, 12) =>
              LET w == enc_i(imm, rs1, f3, rd, op)
              IN  imm_bits(w, "I") = imm /\ iss_i(w) = imm
         /\ signed(imm, 12) =>
              LET w == enc_s(imm, rs2, rs1, f3, op)
              IN  imm_bits(w, "S") = imm /\ iss_s(w) = imm
         /\ signed(imm, 13) /\ 0 \notin imm =>
              LET w == enc_b(imm, rs2, rs1, f3, op)
              IN  imm_bits(w, "B") = imm /\ iss_b(w) = imm
         /\ imm \subseteq 0 .. 19 =>
              LET w == enc_u(imm, rd, op)
              IN  imm_bits(w, "U") = slice(imm, 19, 0, 12) /\ iss_u(w) = imm
         /\ signed(imm, 21) /\ 0 \notin imm =>
              LET w == enc_j(imm, rd, op)
              IN  imm_bits(w, "J") = imm /\ iss_j(w) = imm
         /\ imm \subseteq 0 .. 4 =>
              \A csrno : LET w == enc_i(csrno, imm, f3, rd, op)
                         IN  imm_bits(w, "Z") = imm /\ iss_zimm(w) = imm
<1>1. imm \subseteq 0 .. 19 => iss_u(enc_u(imm, rd, op)) = imm
  <2> DEFINE w == enc_u(imm, rd, op)
  <2>1. \A k \in 12 .. 31 : (k \in w) <=> (k - 12 \in imm)
    BY DEF enc_u, slice, field
  <2> HIDE DEF w
  <2>2. iss_u(w) \subseteq 0 .. 19
    BY DEF iss_u, slice
  <2>3. \A k \in 0 .. 19 : (k \in iss_u(w)) <=> (k \in imm)
    BY <2>1 DEF iss_u, slice
  <2> QED
    BY <2>2, <2>3 DEF w
<1> QED
  BY <1>1, SurvivesI, SurvivesS, SurvivesB, SurvivesU, SurvivesJ, SurvivesZ, SameImmediate

----------------------------------------------------------------------------
(* Numbers and their digits.                                               *)

\* The weights of the digits.
LEMMA PowersOfTwo ==
  /\ 2^0 = 1 /\ 2^1 = 2 /\ 2^2 = 4 /\ 2^3 = 8 /\ 2^4 = 16 /\ 2^5 = 32
  /\ 2^6 = 64 /\ 2^7 = 128 /\ 2^8 = 256 /\ 2^9 = 512 /\ 2^10 = 1024
  /\ 2^11 = 2048 /\ 2^12 = 4096 /\ 2^13 = 8192 /\ 2^14 = 16384 /\ 2^15 = 32768
  /\ 2^16 = 65536 /\ 2^17 = 131072 /\ 2^18 = 262144 /\ 2^19 = 524288
  /\ 2^20 = 1048576 /\ 2^21 = 2097152 /\ 2^22 = 4194304 /\ 2^23 = 8388608
  /\ 2^24 = 16777216 /\ 2^25 = 33554432 /\ 2^26 = 67108864
  /\ 2^27 = 134217728 /\ 2^28 = 268435456 /\ 2^29 = 536870912
  /\ 2^30 = 1073741824
OBVIOUS

\* The digits of a number, one by one.
LEMMA Digits ==
  ASSUME NEW v \in Int
  PROVE  /\ (0 \in bits(v)) <=> (v \div 1) % 2 = 1
         /\ (1 \in bits(v)) <=> (v \div 2) % 2 = 1
         /\ (2 \in bits(v)) <=> (v \div 4) % 2 = 1
         /\ (3 \in bits(v)) <=> (v \div 8) % 2 = 1
         /\ (4 \in bits(v)) <=> (v \div 16) % 2 = 1
         /\ (5 \in bits(v)) <=> (v \div 32) % 2 = 1
         /\ (6 \in bits(v)) <=> (v \div 64) % 2 = 1
         /\ (7 \in bits(v)) <=> (v \div 128) % 2 = 1
         /\ (8 \in bits(v)) <=> (v \div 256) % 2 = 1
         /\ (9 \in bits(v)) <=> (v \div 512) % 2 = 1
         /\ (10 \in bits(v)) <=> (v \div 1024) % 2 = 1
         /\ (11 \in bits(v)) <=> (v \div 2048) % 2 = 1
         /\ (12 \in bits(v)) <=> (v \div 4096) % 2 = 1
         /\ (13 \in bits(v)) <=> (v \div 8192) % 2 = 1
         /\ (14 \in bits(v)) <=> (v \div 16384) % 2 = 1
         /\ (15 \in bits(v)) <=> (v \div 32768) % 2 = 1
         /\ (16 \in bits(v)) <=> (v \div 65536) % 2 = 1
         /\ (17 \in bits(v)) <=> (v \div 131072) % 2 = 1
         /\ (18 \in bits(v)) <=> (v \div 262144) % 2 = 1
         /\ (19 \in bits(v)) <=> (v \div 524288) % 2 = 1
         /\ (20 \in bits(v)) <=> (v \div 1048576) % 2 = 1
         /\ (21 \in bits(v)) <=> (v \div 2097152) % 2 = 1
         /\ (22 \in bits(v)) <=> (v \div 4194304) % 2 = 1
         /\ (23 \in bits(v)) <=> (v \div 8388608) % 2 = 1
         /\ (24 \in bits(v)) <=> (v \div 16777216) % 2 = 1
         /\ (25 \in bits(v)) <=> (v \div 33554432) % 2 = 1
         /\ (26 \in bits(v)) <=> (v \div 67108864) % 2 = 1
         /\ (27 \in bits(v)) <=> (v \div 134217728) % 2 = 1
         /\ (28 \in bits(v)) <=> (v \div 268435456) % 2 = 1
         /\ (29 \in bits(v)) <=> (v \div 536870912) % 2 = 1
         /\ (30 \in bits(v)) <=> (v \div 1073741824) % 2 = 1
         /\ (31 \in bits(v)) <=> v < 0
         /\ bits(v) \subseteq 0 .. 31
BY PowersOfTwo DEF bits

\* Where a digit can be.
LEMMA Positions ==
  ASSUME NEW k \in 0 .. 31
  PROVE  k = 0 \/ k = 1 \/ k = 2 \/ k = 3 \/ k = 4 \/ k = 5 \/ k = 6 \/ k = 7
         \/ k = 8 \/ k = 9 \/ k = 10 \/ k = 11 \/ k = 12 \/ k = 13 \/ k = 14
         \/ k = 15 \/ k = 16 \/ k = 17 \/ k = 18 \/ k = 19 \/ k = 20 \/ k = 21
         \/ k = 22 \/ k = 23 \/ k = 24 \/ k = 25 \/ k = 26 \/ k = 27 \/ k = 28
         \/ k = 29 \/ k = 30 \/ k = 31
OBVIOUS

\* The numbers the encoders are written with.
LEMMA BitsOfConstants ==
  /\ bits(0) = {}
  /\ bits(19) = {0, 1, 4}
  /\ bits(32) = {5}
  /\ bits(1024) = {10}
  /\ bits(115) = {0, 1, 4, 5, 6}
  /\ bits(1048691) = {0, 1, 4, 5, 6, 20}
  /\ bits(807403635) = {0, 1, 4, 5, 6, 21, 28, 29}
<1>1. bits(0) = {}
  <2>1. 0 \notin bits(0) /\ 1 \notin bits(0) /\ 2 \notin bits(0) /\ 3 \notin bits(0)
        /\ 4 \notin bits(0) /\ 5 \notin bits(0) /\ 6 \notin bits(0)
        /\ 7 \notin bits(0) /\ 8 \notin bits(0) /\ 9 \notin bits(0)
        /\ 10 \notin bits(0) /\ 11 \notin bits(0) /\ 12 \notin bits(0)
        /\ 13 \notin bits(0) /\ 14 \notin bits(0) /\ 15 \notin bits(0)
        /\ 16 \notin bits(0) /\ 17 \notin bits(0) /\ 18 \notin bits(0)
        /\ 19 \notin bits(0) /\ 20 \notin bits(0) /\ 21 \notin bits(0)
        /\ 22 \notin bits(0) /\ 23 \notin bits(0) /\ 24 \notin bits(0)
        /\ 25 \notin bits(0) /\ 26 \notin bits(0) /\ 27 \notin bits(0)
        /\ 28 \notin bits(0) /\ 29 \notin bits(0) /\ 30 \notin bits(0)
        /\ 31 \notin bits(0)
    BY Digits
  <2>2. \A k \in 0 .. 31 : (k \in bits(0)) <=> k \in {}
    BY <2>1, Positions
  <2> QED
    BY <2>2, Digits
<1>2. bits(19) = {0, 1, 4}
  <2>1. 0 \in bits(19) /\ 1 \in bits(19) /\ 2 \notin bits(19) /\ 3 \notin bits(19)
        /\ 4 \in bits(19) /\ 5 \notin bits(19) /\ 6 \notin bits(19)
        /\ 7 \notin bits(19) /\ 8 \notin bits(19) /\ 9 \notin bits(19)
        /\ 10 \notin bits(19) /\ 11 \notin bits(19) /\ 12 \notin bits(19)
        /\ 13 \notin bits(19) /\ 14 \notin bits(19) /\ 15 \notin bits(19)
        /\ 16 \notin bits(19) /\ 17 \notin bits(19) /\ 18 \notin bits(19)
        /\ 19 \notin bits(19) /\ 20 \notin bits(19) /\ 21 \notin bits(19)
        /\ 22 \notin bits(19) /\ 23 \notin bits(19) /\ 24 \notin bits(19)
        /\ 25 \notin bits(19) /\ 26 \notin bits(19) /\ 27 \notin bits(19)
        /\ 28 \notin bits(19) /\ 29 \notin bits(19) /\ 30 \notin bits(19)
        /\ 31 \notin bits(19)
    BY Digits
  <2>2. \A k \in 0 .. 31 : (k \in bits(19)) <=> k \in {0, 1, 4}
    BY <2>1, Positions
  <2> QED
    BY <2>2, Digits
<1>3. bits(32) = {5}
  <2>1. 0 \notin bits(32) /\ 1 \notin bits(32) /\ 2 \notin bits(32)
        /\ 3 \notin bits(32) /\ 4 \notin bits(32) /\ 5 \in bits(32)
        /\ 6 \notin bits(32) /\ 7 \notin bits(32) /\ 8 \notin bits(32)
        /\ 9 \notin bits(32) /\ 10 \notin bits(32) /\ 11 \notin bits(32)
        /\ 12 \notin bits(32) /\ 13 \notin bits(32) /\ 14 \notin bits(32)
        /\ 15 \notin bits(32) /\ 16 \notin bits(32) /\ 17 \notin bits(32)
        /\ 18 \notin bits(32) /\ 19 \notin bits(32) /\ 20 \notin bits(32)
        /\ 21 \notin bits(32) /\ 22 \notin bits(32) /\ 23 \notin bits(32)
        /\ 24 \notin bits(32) /\ 25 \notin bits(32) /\ 26 \notin bits(32)
        /\ 27 \notin bits(32) /\ 28 \notin bits(32) /\ 29 \notin bits(32)
        /\ 30 \notin bits(32) /\ 31 \notin bits(32)
    BY Digits
  <2>2. \A k \in 0 .. 31 : (k \in bits(32)) <=> k \in {5}
    BY <2>1, Positions
  <2> QED
    BY <2>2, Digits
<1>4. bits(1024) = {10}
  <2>1. 0 \notin bits(1024) /\ 1 \notin bits(1024) /\ 2 \notin bits(1024)
        /\ 3 \notin bits(1024) /\ 4 \notin bits(1024) /\ 5 \notin bits(1024)
        /\ 6 \notin bits(1024) /\ 7 \notin bits(1024) /\ 8 \notin bits(1024)
        /\ 9 \notin bits(1024) /\ 10 \in bits(1024) /\ 11 \notin bits(1024)
        /\ 12 \notin bits(1024) /\ 13 \notin bits(1024) /\ 14 \notin bits(1024)
        /\ 15 \notin bits(1024) /\ 16 \notin bits(1024) /\ 17 \notin bits(1024)
        /\ 18 \notin bits(1024) /\ 19 \notin bits(1024) /\ 20 \notin bits(1024)
        /\ 21 \notin bits(1024) /\ 22 \notin bits(1024) /\ 23 \notin bits(1024)
        /\ 24 \notin bits(1024) /\ 25 \notin bits(1024) /\ 26 \notin bits(1024)
        /\ 27 \notin bits(1024) /\ 28 \notin bits(1024) /\ 29 \notin bits(1024)
        /\ 30 \notin bits(1024) /\ 31 \notin bits(1024)
    BY Digits
  <2>2. \A k \in 0 .. 31 : (k \in bits(1024)) <=> k \in {10}
    BY <2>1, Positions
  <2> QED
    BY <2>2, Digits
<1>5. bits(115) = {0, 1, 4, 5, 6}
  <2>1. 0 \in bits(115) /\ 1 \in bits(115) /\ 2 \notin bits(115)
        /\ 3 \notin bits(115) /\ 4 \in bits(115) /\ 5 \in bits(115)
        /\ 6 \in bits(115) /\ 7 \notin bits(115) /\ 8 \notin bits(115)
        /\ 9 \notin bits(115) /\ 10 \notin bits(115) /\ 11 \notin bits(115)
        /\ 12 \notin bits(115) /\ 13 \notin bits(115) /\ 14 \notin bits(115)
        /\ 15 \notin bits(115) /\ 16 \notin bits(115) /\ 17 \notin bits(115)
        /\ 18 \notin bits(115) /\ 19 \notin bits(115) /\ 20 \notin bits(115)
        /\ 21 \notin bits(115) /\ 22 \notin bits(115) /\ 23 \notin bits(115)
        /\ 24 \notin bits(115) /\ 25 \notin bits(115) /\ 26 \notin bits(115)
        /\ 27 \notin bits(115) /\ 28 \notin bits(115) /\ 29 \notin bits(115)
        /\ 30 \notin bits(115) /\ 31 \notin bits(115)
    BY Digits
  <2>2. \A k \in 0 .. 31 : (k \in bits(115)) <=> k \in {0, 1, 4, 5, 6}
    BY <2>1, Positions
  <2> QED
    BY <2>2, Digits
<1>6. bits(1048691) = {0, 1, 4, 5, 6, 20}
  <2>1. 0 \in bits(1048691) /\ 1 \in bits(1048691) /\ 2 \notin bits(1048691)
        /\ 3 \notin bits(1048691) /\ 4 \in bits(1048691) /\ 5 \in bits(1048691)
        /\ 6 \in bits(1048691) /\ 7 \notin bits(1048691) /\ 8 \notin bits(1048691)
        /\ 9 \notin bits(1048691) /\ 10 \notin bits(1048691)
        /\ 11 \notin bits(1048691) /\ 12 \notin bits(1048691)
        /\ 13 \notin bits(1048691) /\ 14 \notin bits(1048691)
        /\ 15 \notin bits(1048691) /\ 16 \notin bits(1048691)
        /\ 17 \notin bits(1048691) /\ 18 \notin bits(1048691)
        /\ 19 \notin bits(1048691) /\ 20 \in bits(1048691)
        /\ 21 \notin bits(1048691) /\ 22 \notin bits(1048691)
        /\ 23 \notin bits(1048691) /\ 24 \notin bits(1048691)
        /\ 25 \notin bits(1048691) /\ 26 \notin bits(1048691)
        /\ 27 \notin bits(1048691) /\ 28 \notin bits(1048691)
        /\ 29 \notin bits(1048691) /\ 30 \notin bits(1048691)
        /\ 31 \notin bits(1048691)
    BY Digits
  <2>2. \A k \in 0 .. 31 : (k \in bits(1048691)) <=> k \in {0, 1, 4, 5, 6, 20}
    BY <2>1, Positions
  <2> QED
    BY <2>2, Digits
<1>7. bits(807403635) = {0, 1, 4, 5, 6, 21, 28, 29}
  <2>1. 0 \in bits(807403635) /\ 1 \in bits(807403635) /\ 2 \notin bits(807403635)
        /\ 3 \notin bits(807403635) /\ 4 \in bits(807403635)
        /\ 5 \in bits(807403635) /\ 6 \in bits(807403635)
        /\ 7 \notin bits(807403635) /\ 8 \notin bits(807403635)
        /\ 9 \notin bits(807403635) /\ 10 \notin bits(807403635)
        /\ 11 \notin bits(807403635) /\ 12 \notin bits(807403635)
        /\ 13 \notin bits(807403635) /\ 14 \notin bits(807403635)
        /\ 15 \notin bits(807403635) /\ 16 \notin bits(807403635)
        /\ 17 \notin bits(807403635) /\ 18 \notin bits(807403635)
        /\ 19 \notin bits(807403635) /\ 20 \notin bits(807403635)
        /\ 21 \in bits(807403635) /\ 22 \notin bits(807403635)
        /\ 23 \notin bits(807403635) /\ 24 \notin bits(807403635)
        /\ 25 \notin bits(807403635) /\ 26 \notin bits(807403635)
        /\ 27 \notin bits(807403635) /\ 28 \in bits(807403635)
        /\ 29 \in bits(807403635) /\ 30 \notin bits(807403635)
        /\ 31 \notin bits(807403635)
    BY Digits
  <2>2. \A k \in 0 .. 31 : (k \in bits(807403635)) <=> k \in {0, 1, 4, 5, 6, 21, 28, 29}
    BY <2>1, Positions
  <2> QED
    BY <2>2, Digits
<1> QED
  BY <1>1, <1>2, <1>3, <1>4, <1>5, <1>6, <1>7

\* A number of seven bits is the sum of them.
LEMMA SevenBits ==
  ASSUME NEW v \in 0 .. 127
  PROVE  v = (v % 2) + 2 * ((v \div 2) % 2) + 4 * ((v \div 4) % 2) + 8 * ((v \div 8) % 2)
             + 16 * ((v \div 16) % 2) + 32 * ((v \div 32) % 2) + 64 * ((v \div 64) % 2)
OBVIOUS

\* And one of three.
LEMMA Funct3OfNumber ==
  ASSUME NEW v \in 0 .. 7, NEW w, \A k \in 0 .. 2 : (12 + k \in w) <=> k \in bits(v)
  PROVE  num(w, 14, 12) = v
<1> DEFINE b(k) == IF 12 + k \in w THEN 1 ELSE 0
<1>1. b(0) = v % 2 /\ b(1) = (v \div 2) % 2 /\ b(2) = (v \div 4) % 2
  BY PowersOfTwo DEF bits
<1>2. v = (v % 2) + 2 * ((v \div 2) % 2) + 4 * ((v \div 4) % 2)
  OBVIOUS
<1>3. num(w, 14, 12) = b(0) + 2 * b(1) + 4 * b(2)
  BY DEF num
<1> HIDE DEF b
<1> QED
  BY <1>1, <1>2, <1>3

----------------------------------------------------------------------------
(* The fields of an encoded word.                                          *)

\* A field that holds the digits of a number holds the number.
LEMMA OpcodeEncoded ==
  ASSUME NEW w, NEW v \in 0 .. 127, \A k \in 0 .. 6 : (k \in w) <=> k \in bits(v)
  PROVE  fields(w).opcode = v
<1> DEFINE b(k) == IF k \in w THEN 1 ELSE 0
<1>1. /\ b(0) = v % 2 /\ b(1) = (v \div 2) % 2 /\ b(2) = (v \div 4) % 2
      /\ b(3) = (v \div 8) % 2 /\ b(4) = (v \div 16) % 2 /\ b(5) = (v \div 32) % 2
      /\ b(6) = (v \div 64) % 2
  BY PowersOfTwo DEF bits
<1>2. num(w, 6, 0) = b(0) + 2 * b(1) + 4 * b(2) + 8 * b(3) + 16 * b(4)
                       + 32 * b(5) + 64 * b(6)
  BY DEF num
<1>3. fields(w).opcode = num(w, 6, 0)
  BY DEF fields
<1> HIDE DEF b
<1> QED
  BY <1>1, <1>2, <1>3, SevenBits

\* The same of funct7.
LEMMA Funct7Encoded ==
  ASSUME NEW w, NEW v \in 0 .. 127, \A k \in 0 .. 6 : (25 + k \in w) <=> k \in bits(v)
  PROVE  fields(w).funct7 = v
<1> DEFINE b(k) == IF 25 + k \in w THEN 1 ELSE 0
<1>1. /\ b(0) = v % 2 /\ b(1) = (v \div 2) % 2 /\ b(2) = (v \div 4) % 2
      /\ b(3) = (v \div 8) % 2 /\ b(4) = (v \div 16) % 2 /\ b(5) = (v \div 32) % 2
      /\ b(6) = (v \div 64) % 2
  BY PowersOfTwo DEF bits
<1>2. num(w, 31, 25) = b(0) + 2 * b(1) + 4 * b(2) + 8 * b(3) + 16 * b(4)
                       + 32 * b(5) + 64 * b(6)
  BY DEF num
<1>3. fields(w).funct7 = num(w, 31, 25)
  BY DEF fields
<1> HIDE DEF b
<1> QED
  BY <1>1, <1>2, <1>3, SevenBits

\* The same of funct3.
LEMMA Funct3Encoded ==
  ASSUME NEW w, NEW v \in 0 .. 7, \A k \in 0 .. 2 : (12 + k \in w) <=> k \in bits(v)
  PROVE  fields(w).funct3 = v
BY Funct3OfNumber DEF fields

\* Where the encoders put them.
LEMMA EncodedOpcode ==
  ASSUME NEW v \in 0 .. 127
  PROVE  /\ \A x, rs2, rs1, f3, rd : fields(enc_r(x, rs2, rs1, f3, rd, bits(v))).opcode = v
         /\ \A x, rs1, f3, rd : fields(enc_i(x, rs1, f3, rd, bits(v))).opcode = v
         /\ \A x, rs2, rs1, f3 : fields(enc_s(x, rs2, rs1, f3, bits(v))).opcode = v
         /\ \A x, rs2, rs1, f3 : fields(enc_b(x, rs2, rs1, f3, bits(v))).opcode = v
         /\ \A x, rd : fields(enc_u(x, rd, bits(v))).opcode = v
         /\ \A x, rd : fields(enc_j(x, rd, bits(v))).opcode = v
<1> DEFINE op == bits(v)
<1> HIDE DEF op
<1>1. \A x, rs2, rs1, f3, rd : \A k \in 0 .. 6 :
        (k \in enc_r(x, rs2, rs1, f3, rd, op)) <=> k \in op
  BY DEF enc_r, slice, field
<1>2. \A x, rs1, f3, rd : \A k \in 0 .. 6 :
        (k \in enc_i(x, rs1, f3, rd, op)) <=> k \in op
  BY DEF enc_i, slice, field
<1>3. \A x, rs2, rs1, f3 : \A k \in 0 .. 6 :
        (k \in enc_s(x, rs2, rs1, f3, op)) <=> k \in op
  BY DEF enc_s, slice, field
<1>4. \A x, rs2, rs1, f3 : \A k \in 0 .. 6 :
        (k \in enc_b(x, rs2, rs1, f3, op)) <=> k \in op
  BY DEF enc_b, slice, field
<1>5. \A x, rd : \A k \in 0 .. 6 :
        (k \in enc_u(x, rd, op)) <=> k \in op
  BY DEF enc_u, slice, field
<1>6. \A x, rd : \A k \in 0 .. 6 :
        (k \in enc_j(x, rd, op)) <=> k \in op
  BY DEF enc_j, slice, field
<1> QED
  BY <1>1, <1>2, <1>3, <1>4, <1>5, <1>6, OpcodeEncoded DEF op

\* The formats that have a funct3 keep it there.
LEMMA EncodedFunct3 ==
  ASSUME NEW v \in 0 .. 7, NEW x, NEW rs2, NEW rs1, NEW rd, NEW op
  PROVE  /\ fields(enc_r(x, rs2, rs1, bits(v), rd, op)).funct3 = v
         /\ fields(enc_i(x, rs1, bits(v), rd, op)).funct3 = v
         /\ fields(enc_s(x, rs2, rs1, bits(v), op)).funct3 = v
         /\ fields(enc_b(x, rs2, rs1, bits(v), op)).funct3 = v
<1> DEFINE f3 == bits(v)
<1> HIDE DEF f3
<1>1. \A k \in 0 .. 2 : (12 + k \in enc_r(x, rs2, rs1, f3, rd, op)) <=> k \in f3
  BY DEF enc_r, slice, field
<1>2. \A k \in 0 .. 2 : (12 + k \in enc_i(x, rs1, f3, rd, op)) <=> k \in f3
  BY DEF enc_i, slice, field
<1>3. \A k \in 0 .. 2 : (12 + k \in enc_s(x, rs2, rs1, f3, op)) <=> k \in f3
  BY DEF enc_s, slice, field
<1>4. \A k \in 0 .. 2 : (12 + k \in enc_b(x, rs2, rs1, f3, op)) <=> k \in f3
  BY DEF enc_b, slice, field
<1> QED
  BY <1>1, <1>2, <1>3, <1>4, Funct3Encoded DEF f3

\* So does the R format with its funct7.
LEMMA EncodedFunct7 ==
  ASSUME NEW v \in 0 .. 127, NEW rs2, NEW rs1, NEW f3, NEW rd, NEW op
  PROVE  fields(enc_r(bits(v), rs2, rs1, f3, rd, op)).funct7 = v
<1> DEFINE f7 == bits(v)
<1> HIDE DEF f7
<1>1. \A k \in 0 .. 6 : (25 + k \in enc_r(f7, rs2, rs1, f3, rd, op)) <=> k \in f7
  BY DEF enc_r, slice, field
<1> QED
  BY <1>1, Funct7Encoded DEF f7

\* A shift has its funct7 above the amount.
LEMMA EncodedShift ==
  ASSUME NEW v \in {0, 32}, NEW amount \in 0 .. 31, NEW rs1, NEW f3, NEW rd, NEW op
  PROVE  fields(enc_i(bits(32 * v) \cup bits(amount), rs1, f3, rd, op)).funct7 = v
<1> DEFINE x == bits(32 * v) \cup bits(amount)
<1>1. \A k \in 5 .. 11 : k \notin bits(amount)
  <2>1. /\ 5 \notin bits(amount) /\ 6 \notin bits(amount) /\ 7 \notin bits(amount)
        /\ 8 \notin bits(amount) /\ 9 \notin bits(amount) /\ 10 \notin bits(amount)
        /\ 11 \notin bits(amount)
    BY Digits
  <2> QED
    BY <2>1
<1>4. \A k \in 0 .. 6 : (k + 5 \in bits(32 * v)) <=> k \in bits(v)
  <2>1. bits(0) = {} /\ bits(32) = {5} /\ bits(1024) = {10}
    BY BitsOfConstants
  <2> QED
    BY <2>1
<1>5. \A k \in 0 .. 6 : (k + 5 \in x) <=> k \in bits(v)
  BY <1>1, <1>4
<1> HIDE DEF x
<1>2. \A k \in 0 .. 6 : (25 + k \in enc_i(x, rs1, f3, rd, op)) <=> k + 5 \in x
  BY DEF enc_i, slice, field
<1>3. \A k \in 0 .. 6 : (25 + k \in enc_i(x, rs1, f3, rd, op)) <=> k \in bits(v)
  BY <1>5, <1>2
<1> QED
  BY <1>3, Funct7Encoded DEF x

----------------------------------------------------------------------------
(* decode finds the mnemonic a word was written with.                      *)

\* decode, class by class, undoes the tables of the encoder.
LEMMA DecodeR ==
  ASSUME NEW i, i.opcode = OP_R, NEW m \in R_MNEMS,
         i.funct3 = ARITH_F3(m[2]), i.funct7 = funct7_of(m[2])
  PROVE  decode(i) = m
<1> DEFINE name == m[2]
<1>1. m = <<"R", name>> /\ name \in {"add", "sub", "sll", "slt", "sltu", "xor", "srl",
                                     "sra", "or", "and"}
  BY DEF R_MNEMS
<1>2. R_MNEM(i.funct7, i.funct3) = name
  BY <1>1 DEF R_MNEM, ARITH_F3, funct7_of
<1> HIDE DEF name
<1> QED
  BY <1>1, <1>2 DEF decode, OP_R, OP_IARITH, OP_LOAD, OP_STORE, OP_BRANCH, OP_LUI,
     OP_AUIPC, OP_JAL, OP_JALR, OP_SYSTEM

LEMMA DecodeI ==
  ASSUME NEW i, i.opcode = OP_IARITH, NEW m \in IARITH_MNEMS,
         i.funct3 = ARITH_F3(m[2])
  PROVE  decode(i) = m
<1> DEFINE name == m[2]
<1>1. m = <<"I", name>> /\ name \in {"add", "slt", "sltu", "xor", "or", "and"}
  BY DEF IARITH_MNEMS
<1>2. i.funct3 \notin {1, 5} /\ IA_MNEM(i.funct3) = name
  BY <1>1 DEF IA_MNEM, ARITH_F3
<1> HIDE DEF name
<1> QED
  BY <1>1, <1>2 DEF decode, OP_R, OP_IARITH, OP_LOAD, OP_STORE, OP_BRANCH, OP_LUI,
     OP_AUIPC, OP_JAL, OP_JALR, OP_SYSTEM

LEMMA DecodeShift ==
  ASSUME NEW i, i.opcode = OP_IARITH, NEW m \in SHIFT_MNEMS,
         i.funct3 = ARITH_F3(m[2]), i.funct7 = funct7_of(m[2])
  PROVE  decode(i) = m
<1> DEFINE name == m[2]
<1>1. m = <<"I", name>> /\ name \in {"sll", "srl", "sra"}
  BY DEF SHIFT_MNEMS
<1>2. i.funct3 \in {1, 5} /\ SHIFT_MNEM(i.funct7, i.funct3) = name
  BY <1>1 DEF SHIFT_MNEM, ARITH_F3, funct7_of
<1> HIDE DEF name
<1> QED
  BY <1>1, <1>2 DEF decode, OP_R, OP_IARITH, OP_LOAD, OP_STORE, OP_BRANCH, OP_LUI,
     OP_AUIPC, OP_JAL, OP_JALR, OP_SYSTEM

LEMMA DecodeLoad ==
  ASSUME NEW i, i.opcode = OP_LOAD, NEW m \in LOAD_MNEMS, i.funct3 = LOADS(m[2])
  PROVE  decode(i) = m
<1> DEFINE name == m[2]
<1>1. m = <<"L", name>> /\ name \in {"lb", "lh", "lw", "lbu", "lhu"}
  BY DEF LOAD_MNEMS
<1>2. LD_MNEM(i.funct3) = name
  BY <1>1 DEF LD_MNEM, LOADS
<1> HIDE DEF name
<1> QED
  BY <1>1, <1>2 DEF decode, OP_R, OP_IARITH, OP_LOAD, OP_STORE, OP_BRANCH, OP_LUI,
     OP_AUIPC, OP_JAL, OP_JALR, OP_SYSTEM

LEMMA DecodeStore ==
  ASSUME NEW i, i.opcode = OP_STORE, NEW m \in STORE_MNEMS, i.funct3 = STORES(m[2])
  PROVE  decode(i) = m
<1> DEFINE name == m[2]
<1>1. m = <<"S", name>> /\ name \in {"sb", "sh", "sw"}
  BY DEF STORE_MNEMS
<1>2. ST_MNEM(i.funct3) = name
  BY <1>1 DEF ST_MNEM, STORES
<1> HIDE DEF name
<1> QED
  BY <1>1, <1>2 DEF decode, OP_R, OP_IARITH, OP_LOAD, OP_STORE, OP_BRANCH, OP_LUI,
     OP_AUIPC, OP_JAL, OP_JALR, OP_SYSTEM

LEMMA DecodeBranch ==
  ASSUME NEW i, i.opcode = OP_BRANCH, NEW m \in BRANCH_MNEMS, i.funct3 = BRANCHES(m[2])
  PROVE  decode(i) = m
<1> DEFINE name == m[2]
<1>1. m = <<"B", name>> /\ name \in {"beq", "bne", "blt", "bge", "bltu", "bgeu"}
  BY DEF BRANCH_MNEMS
<1>2. BR_MNEM(i.funct3) = name
  BY <1>1 DEF BR_MNEM, BRANCHES
<1> HIDE DEF name
<1> QED
  BY <1>1, <1>2 DEF decode, OP_R, OP_IARITH, OP_LOAD, OP_STORE, OP_BRANCH, OP_LUI,
     OP_AUIPC, OP_JAL, OP_JALR, OP_SYSTEM

LEMMA DecodeJump ==
  ASSUME NEW i
  PROVE  /\ i.opcode = OP_LUI => decode(i) = LUI
         /\ i.opcode = OP_AUIPC => decode(i) = AUIPC
         /\ i.opcode = OP_JAL => decode(i) = JAL
         /\ i.opcode = OP_JALR /\ i.funct3 = 0 => decode(i) = JALR
BY DEF decode, OP_R, OP_IARITH, OP_LOAD, OP_STORE, OP_BRANCH, OP_LUI, OP_AUIPC, OP_JAL,
       OP_JALR, OP_SYSTEM, LUI, AUIPC, JAL, JALR

LEMMA DecodeCsr ==
  ASSUME NEW i, i.opcode = OP_SYSTEM
  PROVE  /\ \A m \in CSR_REG_MNEMS : i.funct3 = CSR_F3(m[2]) => decode(i) = m
         /\ \A m \in CSR_IMM_MNEMS : i.funct3 = CSR_F3(m[2]) + 4 => decode(i) = m
<1> USE DEF decode, OP_R, OP_IARITH, OP_LOAD, OP_STORE, OP_BRANCH, OP_LUI, OP_AUIPC,
            OP_JAL, OP_JALR, OP_SYSTEM
<1>1. ASSUME NEW m \in CSR_REG_MNEMS, i.funct3 = CSR_F3(m[2]) PROVE decode(i) = m
  <2> DEFINE name == m[2]
  <2>1. m = <<"CSR-R", name>> /\ name \in {"csrrw", "csrrs", "csrrc"}
    BY DEF CSR_REG_MNEMS
  <2>2. i.funct3 \in 1 .. 4 /\ CSR_MNEM(i.funct3) = name
    BY <1>1, <2>1 DEF CSR_MNEM, CSR_F3
  <2> HIDE DEF name
  <2> QED
    BY <1>1, <2>1, <2>2
<1>2. ASSUME NEW m \in CSR_IMM_MNEMS, i.funct3 = CSR_F3(m[2]) + 4 PROVE decode(i) = m
  <2> DEFINE name == m[2]
  <2>1. m = <<"CSR-I", name>> /\ name \in {"csrrw", "csrrs", "csrrc"}
    BY DEF CSR_IMM_MNEMS
  <2>2. i.funct3 \in 5 .. 7 /\ CSR_MNEM(i.funct3 - 4) = name
    BY <1>2, <2>1 DEF CSR_MNEM, CSR_F3
  <2> HIDE DEF name
  <2> QED
    BY <1>2, <2>1, <2>2
<1> QED
  BY <1>1, <1>2

\* The words of ecall, ebreak and mret.
LEMMA DecodeFixed ==
  ASSUME NEW m \in FIXED_MNEMS PROVE mnemonic(bits(SYSTEM_FIXED(m[2]))) = m
<1> DEFINE name == m[2]
           i(v) == fields(bits(v))
<1>1. m = <<"SYS", name>> /\ name \in {"ecall", "ebreak", "mret"}
  BY DEF FIXED_MNEMS
<1>2. \A v : mnemonic(bits(v)) = decode(i(v))
  BY DEF mnemonic
<1>12. /\ bits(115) = {0, 1, 4, 5, 6}
       /\ bits(1048691) = {0, 1, 4, 5, 6, 20}
       /\ bits(807403635) = {0, 1, 4, 5, 6, 21, 28, 29}
  BY BitsOfConstants
<1>3. /\ i(115).opcode = 115 /\ i(115).funct3 = 0 /\ i(115).csr = 0
      /\ i(115).rd = 0 /\ i(115).rs1 = 0
  BY <1>12 DEF fields, num
<1>4. /\ i(1048691).opcode = 115 /\ i(1048691).funct3 = 0 /\ i(1048691).csr = 1
      /\ i(1048691).rd = 0 /\ i(1048691).rs1 = 0
  BY <1>12 DEF fields, num
<1>5. /\ i(807403635).opcode = 115 /\ i(807403635).funct3 = 0
      /\ i(807403635).csr = 770 /\ i(807403635).rd = 0 /\ i(807403635).rs1 = 0
  BY <1>12 DEF fields, num
<1> HIDE DEF i, name
<1>6. \A j : j.opcode = 115 /\ j.funct3 = 0 => decode(j) = <<"SYS", SYS_MNEM(j)>>
  BY DEF decode, OP_R, OP_IARITH, OP_LOAD, OP_STORE, OP_BRANCH, OP_LUI, OP_AUIPC, OP_JAL,
         OP_JALR, OP_SYSTEM
<1>7. \A j : j.rd = 0 /\ j.rs1 = 0 =>
             /\ j.csr = 0 => SYS_MNEM(j) = "ecall"
             /\ j.csr = 1 => SYS_MNEM(j) = "ebreak"
             /\ j.csr = 770 => SYS_MNEM(j) = "mret"
  BY DEF SYS_MNEM, fixed_word, CSR_ECALL, CSR_EBREAK, CSR_MRET
<1>11. SYSTEM_FIXED("ecall") = 115 /\ SYSTEM_FIXED("ebreak") = 1048691
       /\ SYSTEM_FIXED("mret") = 807403635
  BY DEF SYSTEM_FIXED
<1>8. CASE name = "ecall"
  BY <1>1, <1>2, <1>3, <1>6, <1>7, <1>8 DEF SYSTEM_FIXED
<1>9. CASE name = "ebreak"
  BY <1>1, <1>2, <1>4, <1>6, <1>7, <1>9 DEF SYSTEM_FIXED
<1>10. CASE name = "mret"
  BY <1>1, <1>2, <1>5, <1>6, <1>7, <1>10 DEF SYSTEM_FIXED
<1> QED
  BY <1>1, <1>8, <1>9, <1>10

\* One line of asm.encode for each class.
LEMMA EncodeCases ==
  ASSUME NEW m, NEW o
  PROVE  LET imm == bits(o.imm)
             rd  == bits(o.rd)
             rs1 == bits(o.rs1)
         IN  /\ m \in R_MNEMS =>
                  encode(m, o) = enc_r(bits(funct7_of(m[2])), bits(o.rs2), rs1,
                                       bits(ARITH_F3(m[2])), rd, bits(OP_R))
             /\ m \in IARITH_MNEMS =>
                  encode(m, o) = enc_i(imm, rs1, bits(ARITH_F3(m[2])), rd, bits(OP_IARITH))
             /\ m \in SHIFT_MNEMS =>
                  encode(m, o) = enc_i(bits(32 * funct7_of(m[2])) \cup imm, rs1,
                                       bits(ARITH_F3(m[2])), rd, bits(OP_IARITH))
             /\ m \in LOAD_MNEMS =>
                  encode(m, o) = enc_i(imm, rs1, bits(LOADS(m[2])), rd, bits(OP_LOAD))
             /\ m \in STORE_MNEMS =>
                  encode(m, o) = enc_s(imm, bits(o.rs2), rs1, bits(STORES(m[2])),
                                       bits(OP_STORE))
             /\ m \in BRANCH_MNEMS =>
                  encode(m, o) = enc_b(imm, bits(o.rs2), rs1, bits(BRANCHES(m[2])),
                                       bits(OP_BRANCH))
             /\ m = LUI   => encode(m, o) = enc_u(imm, rd, bits(OP_LUI))
             /\ m = AUIPC => encode(m, o) = enc_u(imm, rd, bits(OP_AUIPC))
             /\ m = JAL   => encode(m, o) = enc_j(imm, rd, bits(OP_JAL))
             /\ m = JALR  => encode(m, o) = enc_i(imm, rs1, {}, rd, bits(OP_JALR))
             /\ m \in FIXED_MNEMS => encode(m, o) = bits(SYSTEM_FIXED(m[2]))
             /\ m \in CSR_REG_MNEMS =>
                  encode(m, o) = enc_i(bits(o.csr), rs1, bits(CSR_F3(m[2])), rd,
                                       bits(OP_SYSTEM))
             /\ m \in CSR_IMM_MNEMS =>
                  encode(m, o) = enc_i(bits(o.csr), imm, bits(CSR_F3(m[2]) + 4), rd,
                                       bits(OP_SYSTEM))
<1>1. /\ m \in R_MNEMS => m[1] = "R"
      /\ m \in IARITH_MNEMS => m[1] = "I" /\ m \notin SHIFT_MNEMS
      /\ m \in SHIFT_MNEMS => m[1] = "I" /\ m \notin IARITH_MNEMS
      /\ m \in LOAD_MNEMS => m[1] = "L"
      /\ m \in STORE_MNEMS => m[1] = "S"
      /\ m \in BRANCH_MNEMS => m[1] = "B"
      /\ m = LUI => m[1] = "U" /\ m # AUIPC
      /\ m = AUIPC => m[1] = "U" /\ m # LUI
      /\ m = JAL => m[1] = "J" /\ m # JALR
      /\ m = JALR => m[1] = "J" /\ m # JAL
      /\ m \in FIXED_MNEMS => m[1] = "SYS"
      /\ m \in CSR_REG_MNEMS => m[1] = "CSR-R"
      /\ m \in CSR_IMM_MNEMS => m[1] = "CSR-I"
  BY DEF R_MNEMS, IARITH_MNEMS, SHIFT_MNEMS, LOAD_MNEMS, STORE_MNEMS, BRANCH_MNEMS, LUI,
         AUIPC, JAL, JALR, FIXED_MNEMS, CSR_REG_MNEMS, CSR_IMM_MNEMS
<1>2. /\ m[1] # "I" => m \notin IARITH_MNEMS /\ m \notin SHIFT_MNEMS
      /\ m[1] # "U" => m # LUI /\ m # AUIPC
      /\ m[1] # "J" => m # JAL /\ m # JALR
  BY DEF IARITH_MNEMS, SHIFT_MNEMS, LUI, AUIPC, JAL, JALR
<1>3. m \in R_MNEMS =>
        encode(m, o) = enc_r(bits(funct7_of(m[2])), bits(o.rs2), bits(o.rs1),
                             bits(ARITH_F3(m[2])), bits(o.rd), bits(OP_R))
  BY <1>1, <1>2 DEF encode
<1>4. m \in IARITH_MNEMS =>
        encode(m, o) = enc_i(bits(o.imm), bits(o.rs1), bits(ARITH_F3(m[2])), bits(o.rd),
                             bits(OP_IARITH))
  BY <1>1, <1>2 DEF encode
<1>5. m \in SHIFT_MNEMS =>
        encode(m, o) = enc_i(bits(32 * funct7_of(m[2])) \cup bits(o.imm), bits(o.rs1),
                             bits(ARITH_F3(m[2])), bits(o.rd), bits(OP_IARITH))
  BY <1>1, <1>2 DEF encode
<1>6. m \in LOAD_MNEMS =>
        encode(m, o) = enc_i(bits(o.imm), bits(o.rs1), bits(LOADS(m[2])), bits(o.rd),
                             bits(OP_LOAD))
  BY <1>1, <1>2 DEF encode
<1>7. m \in STORE_MNEMS =>
        encode(m, o) = enc_s(bits(o.imm), bits(o.rs2), bits(o.rs1), bits(STORES(m[2])),
                             bits(OP_STORE))
  BY <1>1, <1>2 DEF encode
<1>8. m \in BRANCH_MNEMS =>
        encode(m, o) = enc_b(bits(o.imm), bits(o.rs2), bits(o.rs1), bits(BRANCHES(m[2])),
                             bits(OP_BRANCH))
  BY <1>1, <1>2 DEF encode
<1>9. /\ m = LUI   => encode(m, o) = enc_u(bits(o.imm), bits(o.rd), bits(OP_LUI))
      /\ m = AUIPC => encode(m, o) = enc_u(bits(o.imm), bits(o.rd), bits(OP_AUIPC))
  BY <1>1, <1>2 DEF encode
<1>10. /\ m = JAL  => encode(m, o) = enc_j(bits(o.imm), bits(o.rd), bits(OP_JAL))
       /\ m = JALR => encode(m, o) = enc_i(bits(o.imm), bits(o.rs1), {}, bits(o.rd),
                                           bits(OP_JALR))
  BY <1>1, <1>2 DEF encode
<1>11. m \in FIXED_MNEMS => encode(m, o) = bits(SYSTEM_FIXED(m[2]))
  BY <1>1, <1>2 DEF encode
<1>12. m \in CSR_REG_MNEMS =>
         encode(m, o) = enc_i(bits(o.csr), bits(o.rs1), bits(CSR_F3(m[2])), bits(o.rd),
                              bits(OP_SYSTEM))
  BY <1>1, <1>2 DEF encode
<1>13. m \in CSR_IMM_MNEMS =>
         encode(m, o) = enc_i(bits(o.csr), bits(o.imm), bits(CSR_F3(m[2]) + 4), bits(o.rd),
                              bits(OP_SYSTEM))
  BY <1>1, <1>2 DEF encode
<1> QED
  BY <1>3, <1>4, <1>5, <1>6, <1>7, <1>8, <1>9, <1>10, <1>11, <1>12, <1>13, Zenon

\* The selector fields an encoder is given are numbers of their widths.
LEMMA EncodedSelectors ==
  ASSUME NEW m
  PROVE  /\ m \in R_MNEMS \cup IARITH_MNEMS \cup SHIFT_MNEMS =>
              ARITH_F3(m[2]) \in 0 .. 7 /\ funct7_of(m[2]) \in {0, 32}
         /\ m \in LOAD_MNEMS => LOADS(m[2]) \in 0 .. 7
         /\ m \in STORE_MNEMS => STORES(m[2]) \in 0 .. 7
         /\ m \in BRANCH_MNEMS => BRANCHES(m[2]) \in 0 .. 7
         /\ m \in CSR_REG_MNEMS \cup CSR_IMM_MNEMS =>
              CSR_F3(m[2]) \in 0 .. 7 /\ CSR_F3(m[2]) + 4 \in 0 .. 7
<1>1. m \in R_MNEMS \cup IARITH_MNEMS \cup SHIFT_MNEMS =>
        ARITH_F3(m[2]) \in 0 .. 7 /\ funct7_of(m[2]) \in {0, 32}
  <2>1. m \in R_MNEMS \cup IARITH_MNEMS \cup SHIFT_MNEMS =>
          m[2] \in {"add", "sub", "sll", "slt", "sltu", "xor", "srl", "sra", "or", "and"}
    BY DEF R_MNEMS, IARITH_MNEMS, SHIFT_MNEMS
  <2> DEFINE name == m[2]
  <2> HIDE DEF name
  <2>2. name \in {"add", "sub", "sll", "slt", "sltu", "xor", "srl", "sra", "or", "and"} =>
          ARITH_F3(name) \in 0 .. 7 /\ funct7_of(name) \in {0, 32}
    BY DEF ARITH_F3, funct7_of
  <2> QED
    BY <2>1, <2>2 DEF name
<1>2. m \in LOAD_MNEMS => LOADS(m[2]) \in 0 .. 7
  BY DEF LOAD_MNEMS, LOADS
<1>3. m \in STORE_MNEMS => STORES(m[2]) \in 0 .. 7
  BY DEF STORE_MNEMS, STORES
<1>4. m \in BRANCH_MNEMS => BRANCHES(m[2]) \in 0 .. 7
  BY DEF BRANCH_MNEMS, BRANCHES
<1>5. m \in CSR_REG_MNEMS \cup CSR_IMM_MNEMS =>
        CSR_F3(m[2]) \in 0 .. 7 /\ CSR_F3(m[2]) + 4 \in 0 .. 7
  BY DEF CSR_REG_MNEMS, CSR_IMM_MNEMS, CSR_F3
<1> QED
  BY <1>1, <1>2, <1>3, <1>4, <1>5

\* Every instruction asm.py encodes, whatever its operands are, is decoded by
\* iss.py as the mnemonic it was written with; of a shift the amount has to be
\* one, since it shares its field with the funct7.
THEOREM EncodedWordsDecode ==
  ASSUME NEW m \in ORDER, NEW o, m \in SHIFT_MNEMS => o.imm \in 0 .. 31
  PROVE  mnemonic(encode(m, o)) = m
<1> DEFINE w == encode(m, o)
<1>1. mnemonic(w) = decode(fields(w))
  BY DEF mnemonic
<1>2. /\ OP_R \in 0 .. 127 /\ OP_IARITH \in 0 .. 127 /\ OP_LOAD \in 0 .. 127
      /\ OP_STORE \in 0 .. 127 /\ OP_BRANCH \in 0 .. 127 /\ OP_LUI \in 0 .. 127
      /\ OP_AUIPC \in 0 .. 127 /\ OP_JAL \in 0 .. 127 /\ OP_JALR \in 0 .. 127
      /\ OP_SYSTEM \in 0 .. 127
  BY DEF OP_R, OP_IARITH, OP_LOAD, OP_STORE, OP_BRANCH, OP_LUI, OP_AUIPC, OP_JAL, OP_JALR,
         OP_SYSTEM
<1>3. funct7_of(m[2]) \in 0 .. 127
  BY DEF funct7_of
<1>4. {} = bits(0)
  BY BitsOfConstants
<1>5. CASE m \in R_MNEMS
  <2>1. w = enc_r(bits(funct7_of(m[2])), bits(o.rs2), bits(o.rs1), bits(ARITH_F3(m[2])),
                  bits(o.rd), bits(OP_R))
    BY <1>5, EncodeCases, Zenon
  <2>2. fields(w).opcode = OP_R
    BY <1>2, <2>1, EncodedOpcode
  <2>3. fields(w).funct3 = ARITH_F3(m[2])
    BY <1>5, <2>1, EncodedSelectors, EncodedFunct3
  <2>4. fields(w).funct7 = funct7_of(m[2])
    BY <1>3, <2>1, EncodedFunct7
  <2> QED
    BY <1>1, <1>5, <2>2, <2>3, <2>4, DecodeR
<1>6. CASE m \in IARITH_MNEMS
  <2>1. w = enc_i(bits(o.imm), bits(o.rs1), bits(ARITH_F3(m[2])), bits(o.rd),
                  bits(OP_IARITH))
    BY <1>6, EncodeCases, Zenon
  <2>2. fields(w).opcode = OP_IARITH
    BY <1>2, <2>1, EncodedOpcode
  <2>3. fields(w).funct3 = ARITH_F3(m[2])
    BY <1>6, <2>1, EncodedSelectors, EncodedFunct3
  <2> QED
    BY <1>1, <1>6, <2>2, <2>3, DecodeI
<1>7. CASE m \in SHIFT_MNEMS
  <2>1. w = enc_i(bits(32 * funct7_of(m[2])) \cup bits(o.imm), bits(o.rs1),
                  bits(ARITH_F3(m[2])), bits(o.rd), bits(OP_IARITH))
    BY <1>7, EncodeCases, Zenon
  <2>2. fields(w).opcode = OP_IARITH
    <3> DEFINE x == bits(32 * funct7_of(m[2])) \cup bits(o.imm)
    <3> HIDE DEF x
    <3>1. \A rs1, f3, rd : fields(enc_i(x, rs1, f3, rd, bits(OP_IARITH))).opcode = OP_IARITH
      BY <1>2, EncodedOpcode
    <3> QED
      BY <2>1, <3>1 DEF x
  <2>3. fields(w).funct3 = ARITH_F3(m[2])
    BY <1>7, <2>1, EncodedSelectors, EncodedFunct3
  <2>4. fields(w).funct7 = funct7_of(m[2])
    <3> DEFINE v == funct7_of(m[2])
    <3>1. v \in {0, 32} /\ o.imm \in 0 .. 31
      BY <1>7, EncodedSelectors
    <3> HIDE DEF v
    <3>2. \A rs1, f3, rd, op :
            fields(enc_i(bits(32 * v) \cup bits(o.imm), rs1, f3, rd, op)).funct7 = v
      BY <3>1, EncodedShift
    <3> QED
      BY <2>1, <3>2 DEF v
  <2> QED
    BY <1>1, <1>7, <2>2, <2>3, <2>4, DecodeShift
<1>8. CASE m \in LOAD_MNEMS
  <2>1. w = enc_i(bits(o.imm), bits(o.rs1), bits(LOADS(m[2])), bits(o.rd), bits(OP_LOAD))
    BY <1>8, EncodeCases, Zenon
  <2>2. fields(w).opcode = OP_LOAD
    BY <1>2, <2>1, EncodedOpcode
  <2>3. fields(w).funct3 = LOADS(m[2])
    BY <1>8, <2>1, EncodedSelectors, EncodedFunct3
  <2> QED
    BY <1>1, <1>8, <2>2, <2>3, DecodeLoad
<1>9. CASE m \in STORE_MNEMS
  <2>1. w = enc_s(bits(o.imm), bits(o.rs2), bits(o.rs1), bits(STORES(m[2])),
                  bits(OP_STORE))
    BY <1>9, EncodeCases, Zenon
  <2>2. fields(w).opcode = OP_STORE
    BY <1>2, <2>1, EncodedOpcode
  <2>3. fields(w).funct3 = STORES(m[2])
    BY <1>9, <2>1, EncodedSelectors, EncodedFunct3
  <2> QED
    BY <1>1, <1>9, <2>2, <2>3, DecodeStore
<1>10. CASE m \in BRANCH_MNEMS
  <2>1. w = enc_b(bits(o.imm), bits(o.rs2), bits(o.rs1), bits(BRANCHES(m[2])),
                  bits(OP_BRANCH))
    BY <1>10, EncodeCases, Zenon
  <2>2. fields(w).opcode = OP_BRANCH
    BY <1>2, <2>1, EncodedOpcode
  <2>3. fields(w).funct3 = BRANCHES(m[2])
    BY <1>10, <2>1, EncodedSelectors, EncodedFunct3
  <2> QED
    BY <1>1, <1>10, <2>2, <2>3, DecodeBranch
<1>11. CASE m \in {LUI, AUIPC, JAL, JALR}
  <2>1. /\ m = LUI => w = enc_u(bits(o.imm), bits(o.rd), bits(OP_LUI))
        /\ m = AUIPC => w = enc_u(bits(o.imm), bits(o.rd), bits(OP_AUIPC))
        /\ m = JAL => w = enc_j(bits(o.imm), bits(o.rd), bits(OP_JAL))
        /\ m = JALR => w = enc_i(bits(o.imm), bits(o.rs1), {}, bits(o.rd), bits(OP_JALR))
    BY EncodeCases, Zenon
  <2>3. ASSUME m = LUI PROVE fields(w).opcode = OP_LUI
    <3>1. w = enc_u(bits(o.imm), bits(o.rd), bits(OP_LUI))
      BY <2>3, <2>1
    <3> QED
      BY <1>2, <3>1, EncodedOpcode
  <2>4. ASSUME m = AUIPC PROVE fields(w).opcode = OP_AUIPC
    <3>1. w = enc_u(bits(o.imm), bits(o.rd), bits(OP_AUIPC))
      BY <2>4, <2>1
    <3> QED
      BY <1>2, <3>1, EncodedOpcode
  <2>5. ASSUME m = JAL PROVE fields(w).opcode = OP_JAL
    <3>1. w = enc_j(bits(o.imm), bits(o.rd), bits(OP_JAL))
      BY <2>5, <2>1
    <3> QED
      BY <1>2, <3>1, EncodedOpcode
  <2>6. ASSUME m = JALR PROVE fields(w).opcode = OP_JALR
    <3>1. w = enc_i(bits(o.imm), bits(o.rs1), {}, bits(o.rd), bits(OP_JALR))
      BY <2>6, <2>1
    <3> QED
      BY <1>2, <3>1, EncodedOpcode
  <2>2. m = JALR => fields(w).funct3 = 0
    <3>1. m = JALR => w = enc_i(bits(o.imm), bits(o.rs1), bits(0), bits(o.rd), bits(OP_JALR))
      BY <1>4, <2>1
    <3> QED
      BY <3>1, EncodedFunct3
  <2> QED
    BY <1>1, <1>11, <2>2, <2>3, <2>4, <2>5, <2>6, DecodeJump
<1>12. CASE m \in FIXED_MNEMS
  BY <1>12, EncodeCases, DecodeFixed
<1>13. CASE m \in CSR_REG_MNEMS
  <2>1. w = enc_i(bits(o.csr), bits(o.rs1), bits(CSR_F3(m[2])), bits(o.rd), bits(OP_SYSTEM))
    BY <1>13, EncodeCases, Zenon
  <2>2. fields(w).opcode = OP_SYSTEM
    BY <1>2, <2>1, EncodedOpcode
  <2>3. fields(w).funct3 = CSR_F3(m[2])
    BY <1>13, <2>1, EncodedSelectors, EncodedFunct3
  <2> QED
    BY <1>1, <1>13, <2>2, <2>3, DecodeCsr
<1>14. CASE m \in CSR_IMM_MNEMS
  <2>1. w = enc_i(bits(o.csr), bits(o.imm), bits(CSR_F3(m[2]) + 4), bits(o.rd),
                  bits(OP_SYSTEM))
    BY <1>14, EncodeCases, Zenon
  <2>2. fields(w).opcode = OP_SYSTEM
    BY <1>2, <2>1, EncodedOpcode
  <2>3. fields(w).funct3 = CSR_F3(m[2]) + 4
    BY <1>14, <2>1, EncodedSelectors, EncodedFunct3
  <2> QED
    BY <1>1, <1>14, <2>2, <2>3, DecodeCsr
<1> QED
  BY <1>5, <1>6, <1>7, <1>8, <1>9, <1>10, <1>11, <1>12, <1>13, <1>14 DEF ORDER

----------------------------------------------------------------------------
(* The operands of a line come back.                                       *)

\* The operands asm.py accepts: the ranges encode_one checks.
valid_imm(m, v) ==
  /\ v \in Int
  /\ m \in IARITH_MNEMS \cup LOAD_MNEMS \cup STORE_MNEMS \cup {JALR} => -2048 <= v /\ v <= 2047
  /\ m \in SHIFT_MNEMS \cup CSR_IMM_MNEMS => v \in 0 .. 31
  /\ m \in BRANCH_MNEMS => -4096 <= v /\ v <= 4094 /\ v % 2 = 0
  /\ m = JAL => -1048576 <= v /\ v <= 1048574 /\ v % 2 = 0

\* An integer of n bits is the sign extension of its low n bits.
LEMMA SignedBits ==
  ASSUME NEW v \in Int
  PROVE  /\ (-2048 <= v /\ v <= 2047) => signed(bits(v), 12)
         /\ (-4096 <= v /\ v <= 4095) => signed(bits(v), 13)
         /\ (-1048576 <= v /\ v <= 1048575) => signed(bits(v), 21)
         /\ v \in 0 .. 31 => bits(v) \subseteq 0 .. 4
         /\ v % 2 = 0 => 0 \notin bits(v)
<1>1. bits(v) \subseteq Bits
  BY Digits DEF Bits
<1>2. ASSUME -1048576 <= v, v <= 1048575, NEW k \in 20 .. 31
      PROVE  (k \in bits(v)) <=> v < 0
  <2>1. /\ ((v \div 1048576) % 2 = 1) <=> v < 0
        /\ ((v \div 2097152) % 2 = 1) <=> v < 0
        /\ ((v \div 4194304) % 2 = 1) <=> v < 0
        /\ ((v \div 8388608) % 2 = 1) <=> v < 0
        /\ ((v \div 16777216) % 2 = 1) <=> v < 0
        /\ ((v \div 33554432) % 2 = 1) <=> v < 0
        /\ ((v \div 67108864) % 2 = 1) <=> v < 0
        /\ ((v \div 134217728) % 2 = 1) <=> v < 0
        /\ ((v \div 268435456) % 2 = 1) <=> v < 0
        /\ ((v \div 536870912) % 2 = 1) <=> v < 0
        /\ ((v \div 1073741824) % 2 = 1) <=> v < 0
    BY <1>2
  <2>2. /\ (20 \in bits(v)) <=> v < 0
        /\ (21 \in bits(v)) <=> v < 0
        /\ (22 \in bits(v)) <=> v < 0
        /\ (23 \in bits(v)) <=> v < 0
        /\ (24 \in bits(v)) <=> v < 0
        /\ (25 \in bits(v)) <=> v < 0
        /\ (26 \in bits(v)) <=> v < 0
        /\ (27 \in bits(v)) <=> v < 0
        /\ (28 \in bits(v)) <=> v < 0
        /\ (29 \in bits(v)) <=> v < 0
        /\ (30 \in bits(v)) <=> v < 0
        /\ (31 \in bits(v)) <=> v < 0
    BY <2>1, Digits
  <2> QED
    BY <2>2
<1>3. ASSUME -4096 <= v, v <= 4095, NEW k \in 12 .. 31
      PROVE  (k \in bits(v)) <=> v < 0
  <2>1. /\ (12 \in bits(v)) <=> v < 0
        /\ (13 \in bits(v)) <=> v < 0
        /\ (14 \in bits(v)) <=> v < 0
        /\ (15 \in bits(v)) <=> v < 0
        /\ (16 \in bits(v)) <=> v < 0
        /\ (17 \in bits(v)) <=> v < 0
        /\ (18 \in bits(v)) <=> v < 0
        /\ (19 \in bits(v)) <=> v < 0
    BY <1>3, Digits
  <2>2. k \in 20 .. 31 \/ k = 12 \/ k = 13 \/ k = 14 \/ k = 15 \/ k = 16 \/ k = 17
          \/ k = 18 \/ k = 19
    OBVIOUS
  <2> QED
    BY <1>2, <1>3, <2>1, <2>2
<1>4. ASSUME -2048 <= v, v <= 2047, NEW k \in 11 .. 31
      PROVE  (k \in bits(v)) <=> v < 0
  <2>1. (11 \in bits(v)) <=> v < 0
    BY <1>4, Digits
  <2>2. k \in 12 .. 31 \/ k = 11
    OBVIOUS
  <2> QED
    BY <1>3, <1>4, <2>1, <2>2
<1>5. (-2048 <= v /\ v <= 2047) => signed(bits(v), 12)
  BY <1>1, <1>4 DEF signed
<1>6. (-4096 <= v /\ v <= 4095) => signed(bits(v), 13)
  BY <1>1, <1>3 DEF signed
<1>7. (-1048576 <= v /\ v <= 1048575) => signed(bits(v), 21)
  BY <1>1, <1>2 DEF signed
<1>8. ASSUME v \in 0 .. 31 PROVE bits(v) \subseteq 0 .. 4
  <2>1. /\ 5 \notin bits(v) /\ 6 \notin bits(v) /\ 7 \notin bits(v) /\ 8 \notin bits(v)
        /\ 9 \notin bits(v) /\ 10 \notin bits(v)
    BY <1>8, Digits
  <2>2. \A k \in 11 .. 31 : k \notin bits(v)
    BY <1>4, <1>8
  <2>3. \A k \in 0 .. 31 : k \in 0 .. 4 \/ k = 5 \/ k = 6 \/ k = 7 \/ k = 8 \/ k = 9
                           \/ k = 10 \/ k \in 11 .. 31
    OBVIOUS
  <2> QED
    BY <1>1, <2>1, <2>2, <2>3 DEF Bits
<1>9. v % 2 = 0 => 0 \notin bits(v)
  <2>1. (0 \in bits(v)) <=> (v \div 1) % 2 = 1
    BY Digits
  <2> QED
    BY <2>1
<1> QED
  BY <1>5, <1>6, <1>7, <1>8, <1>9

\* The amount of a shift comes back without the funct7 above it.
LEMMA SurvivesShift ==
  ASSUME NEW f7 \in {0, 32}, NEW amount, amount \subseteq 0 .. 4, NEW rs1, NEW f3, NEW rd,
         NEW op
  PROVE  imm_bits(enc_i(bits(32 * f7) \cup amount, rs1, f3, rd, op), "I") \cap (0 .. 4)
           = amount
<1> DEFINE x == bits(32 * f7) \cup amount
           w == enc_i(x, rs1, f3, rd, op)
<1>1. bits(32 * f7) \subseteq {10}
  BY BitsOfConstants
<1>2. \A k \in 0 .. 4 : (k \in x) <=> k \in amount
  BY <1>1
<1> HIDE DEF x
<1>3. \A k \in 0 .. 4 : (20 + k \in w) <=> k \in x
  BY DEF enc_i, slice, field
<1> HIDE DEF w
<1>4. \A k \in 0 .. 4 : (k \in imm_bits(w, "I")) <=> 20 + k \in w
  BY ImmCases DEF fill, slice
<1> QED
  BY <1>2, <1>3, <1>4 DEF w, x

\* What the hardware computes with is the operand.
survives(m, w, v) ==
  LET imm == imm_bits(w, control(fields(w)).imm_sel)
  IN  CASE m \in SHIFT_MNEMS -> imm \cap (0 .. 4) = bits(v)
        [] m[1] \in {"I", "L", "S", "B", "U", "J", "CSR-I"} /\ m \notin SHIFT_MNEMS ->
             imm = meaning(m, v)
        [] OTHER -> TRUE

\* The operand of a line is the immediate the hardware computes with, for every
\* mnemonic and every operand asm.py accepts.
THEOREM OperandsSurvive ==
  ASSUME NEW m \in ORDER, NEW o, valid_imm(m, o.imm)
  PROVE  survives(m, encode(m, o), o.imm)
<1> DEFINE w == encode(m, o)
           v == o.imm
           sel == control(fields(w)).imm_sel
<1>1. mnemonic(w) = m
  BY EncodedWordsDecode DEF valid_imm
<1>2. m[2] # "illegal"
  BY DEF ORDER, R_MNEMS, IARITH_MNEMS, SHIFT_MNEMS, LOAD_MNEMS, STORE_MNEMS, BRANCH_MNEMS,
         LUI, AUIPC, JAL, JALR, FIXED_MNEMS, CSR_REG_MNEMS, CSR_IMM_MNEMS
<1>3. sel = CONTROL(m).imm_sel
  BY <1>1, <1>2, SelectorOfRow DEF is_illegal
<1>4. v \in Int
  BY DEF valid_imm
<1>5. CASE m \in SHIFT_MNEMS
  <2>1. m[1] = "I"
    BY <1>5 DEF SHIFT_MNEMS
  <2>2. sel = "I"
    BY <1>3, <2>1, Selectors
  <2>3. w = enc_i(bits(32 * funct7_of(m[2])) \cup bits(v), bits(o.rs1),
                  bits(ARITH_F3(m[2])), bits(o.rd), bits(OP_IARITH))
    BY <1>5, EncodeCases, Zenon
  <2>4. funct7_of(m[2]) \in {0, 32} /\ bits(v) \subseteq 0 .. 4
    BY <1>4, <1>5, EncodedSelectors, SignedBits DEF valid_imm
  <2>5. imm_bits(w, "I") \cap (0 .. 4) = bits(v)
    <3> DEFINE f7 == funct7_of(m[2])
    <3> HIDE DEF f7
    <3>1. f7 \in {0, 32}
      BY <2>4 DEF f7
    <3>2. \A rs1, f3, rd, op :
            imm_bits(enc_i(bits(32 * f7) \cup bits(v), rs1, f3, rd, op), "I") \cap (0 .. 4)
              = bits(v)
      BY <2>4, <3>1, SurvivesShift
    <3> QED
      BY <2>3, <3>2 DEF f7
  <2> QED
    BY <1>5, <2>2, <2>5, Zenon DEF survives
<1>6. CASE m \in IARITH_MNEMS \cup LOAD_MNEMS \cup {JALR}
  <2>1. (m[1] \in {"I", "L"} \/ m = JALR) /\ m \notin SHIFT_MNEMS /\ m[1] # "U"
    BY <1>6 DEF IARITH_MNEMS, LOAD_MNEMS, JALR, SHIFT_MNEMS
  <2>2. sel = "I"
    BY <1>3, <2>1, Selectors
  <2>3. \E f3, op : w = enc_i(bits(v), bits(o.rs1), f3, bits(o.rd), op)
    <3>1. /\ m \in IARITH_MNEMS =>
               w = enc_i(bits(v), bits(o.rs1), bits(ARITH_F3(m[2])), bits(o.rd),
                         bits(OP_IARITH))
          /\ m \in LOAD_MNEMS =>
               w = enc_i(bits(v), bits(o.rs1), bits(LOADS(m[2])), bits(o.rd), bits(OP_LOAD))
          /\ m = JALR => w = enc_i(bits(v), bits(o.rs1), {}, bits(o.rd), bits(OP_JALR))
      BY EncodeCases, Zenon
    <3> HIDE DEF w, v
    <3> QED
      BY <1>6, <3>1
  <2>4. signed(bits(v), 12)
    BY <1>4, <1>6, SignedBits DEF valid_imm
  <2>5. imm_bits(w, "I") = bits(v)
    BY <2>3, <2>4, SurvivesI
  <2> QED
    BY <2>1, <2>2, <2>5 DEF survives, meaning
<1>7. CASE m \in STORE_MNEMS
  <2>1. m[1] = "S" /\ m \notin SHIFT_MNEMS
    BY <1>7 DEF STORE_MNEMS, SHIFT_MNEMS
  <2>2. sel = "S"
    BY <1>3, <2>1, Selectors
  <2>3. w = enc_s(bits(v), bits(o.rs2), bits(o.rs1), bits(STORES(m[2])), bits(OP_STORE))
    BY <1>7, EncodeCases, Zenon
  <2>4. signed(bits(v), 12)
    BY <1>4, <1>7, SignedBits DEF valid_imm
  <2>5. imm_bits(w, "S") = bits(v)
    BY <2>3, <2>4, SurvivesS
  <2> QED
    BY <2>1, <2>2, <2>5 DEF survives, meaning
<1>8. CASE m \in BRANCH_MNEMS
  <2>1. m[1] = "B" /\ m \notin SHIFT_MNEMS
    BY <1>8 DEF BRANCH_MNEMS, SHIFT_MNEMS
  <2>2. sel = "B"
    BY <1>3, <2>1, Selectors
  <2>3. w = enc_b(bits(v), bits(o.rs2), bits(o.rs1), bits(BRANCHES(m[2])), bits(OP_BRANCH))
    BY <1>8, EncodeCases, Zenon
  <2>4. signed(bits(v), 13) /\ 0 \notin bits(v)
    BY <1>4, <1>8, SignedBits DEF valid_imm
  <2>5. imm_bits(w, "B") = bits(v)
    BY <2>3, <2>4, SurvivesB
  <2> QED
    BY <2>1, <2>2, <2>5 DEF survives, meaning
<1>9. CASE m \in {LUI, AUIPC}
  <2>1. m[1] = "U" /\ m \notin SHIFT_MNEMS
    BY <1>9 DEF LUI, AUIPC, SHIFT_MNEMS
  <2>2. sel = "U"
    BY <1>3, <1>9, Selectors
  <2>3. \E op : w = enc_u(bits(v), bits(o.rd), op)
    BY <1>9, EncodeCases, Zenon
  <2>4. imm_bits(w, "U") = slice(bits(v), 19, 0, 12)
    BY <2>3, SurvivesU
  <2> QED
    BY <2>1, <2>2, <2>4 DEF survives, meaning
<1>10. CASE m = JAL
  <2>1. m[1] = "J" /\ m \notin SHIFT_MNEMS
    BY <1>10 DEF JAL, SHIFT_MNEMS
  <2>2. sel = "J"
    BY <1>3, <1>10, Selectors
  <2>3. \E op : w = enc_j(bits(v), bits(o.rd), op)
    BY <1>10, EncodeCases, Zenon
  <2>4. signed(bits(v), 21) /\ 0 \notin bits(v)
    BY <1>4, <1>10, SignedBits DEF valid_imm
  <2>5. imm_bits(w, "J") = bits(v)
    BY <2>3, <2>4, SurvivesJ
  <2> QED
    BY <2>1, <2>2, <2>5 DEF survives, meaning
<1>11. CASE m \in CSR_IMM_MNEMS
  <2>1. m[1] = "CSR-I" /\ m \notin SHIFT_MNEMS
    BY <1>11 DEF CSR_IMM_MNEMS, SHIFT_MNEMS
  <2>2. sel = "Z"
    BY <1>3, <2>1, Selectors
  <2>3. w = enc_i(bits(o.csr), bits(v), bits(CSR_F3(m[2]) + 4), bits(o.rd), bits(OP_SYSTEM))
    BY <1>11, EncodeCases, Zenon
  <2>4. bits(v) \subseteq 0 .. 4
    BY <1>4, <1>11, SignedBits DEF valid_imm
  <2>5. imm_bits(w, "Z") = bits(v)
    BY <2>3, <2>4, SurvivesZ
  <2> QED
    BY <2>1, <2>2, <2>5 DEF survives, meaning
<1>12. CASE m \in R_MNEMS \cup FIXED_MNEMS \cup CSR_REG_MNEMS
  <2>1. m[1] \in {"R", "SYS", "CSR-R"} /\ m \notin SHIFT_MNEMS
    BY <1>12 DEF R_MNEMS, FIXED_MNEMS, CSR_REG_MNEMS, SHIFT_MNEMS
  <2> QED
    BY <2>1 DEF survives
<1> QED
  BY <1>5, <1>6, <1>7, <1>8, <1>9, <1>10, <1>11, <1>12 DEF ORDER

----------------------------------------------------------------------------
(* The words picked by hand.                                               *)

\* A number is the sum of its twelve digits.
from_digits(v) ==
  v = (v % 2) + 2 * ((v \div 2) % 2) + 4 * ((v \div 4) % 2) + 8 * ((v \div 8) % 2)
      + 16 * ((v \div 16) % 2) + 32 * ((v \div 32) % 2) + 64 * ((v \div 64) % 2)
      + 128 * ((v \div 128) % 2) + 256 * ((v \div 256) % 2) + 512 * ((v \div 512) % 2)
      + 1024 * ((v \div 1024) % 2) + 2048 * ((v \div 2048) % 2)

\* Every number of twelve bits is.
LEMMA TwelveBits == ASSUME NEW v \in Int, 0 <= v, v <= 4095 PROVE from_digits(v)
<1> DEFINE u == v \div 32
<1>1. v = (v % 2) + 2 * ((v \div 2) % 2) + 4 * ((v \div 4) % 2) + 8 * ((v \div 8) % 2)
          + 16 * ((v \div 16) % 2) + 32 * u
  <2>1. v = (v % 2) + 2 * (v \div 2)
    OBVIOUS
  <2>2. v \div 2 = ((v \div 2) % 2) + 2 * (v \div 4)
    OBVIOUS
  <2>3. v \div 4 = ((v \div 4) % 2) + 2 * (v \div 8)
    OBVIOUS
  <2>4. v \div 8 = ((v \div 8) % 2) + 2 * (v \div 16)
    OBVIOUS
  <2>5. v \div 16 = ((v \div 16) % 2) + 2 * u
    OBVIOUS
  <2> QED
    BY <2>1, <2>2, <2>3, <2>4, <2>5
<1>2. u = ((v \div 32) % 2) + 2 * ((v \div 64) % 2) + 4 * ((v \div 128) % 2)
          + 8 * ((v \div 256) % 2) + 16 * ((v \div 512) % 2) + 32 * ((v \div 1024) % 2)
          + 64 * ((v \div 2048) % 2)
  <2>1. v \div 32 = ((v \div 32) % 2) + 2 * (v \div 64)
    OBVIOUS
  <2>2. v \div 64 = ((v \div 64) % 2) + 2 * (v \div 128)
    OBVIOUS
  <2>3. v \div 128 = ((v \div 128) % 2) + 2 * (v \div 256)
    OBVIOUS
  <2>4. v \div 256 = ((v \div 256) % 2) + 2 * (v \div 512)
    OBVIOUS
  <2>5. v \div 512 = ((v \div 512) % 2) + 2 * (v \div 1024)
    OBVIOUS
  <2>6. v \div 1024 = ((v \div 1024) % 2) + 2 * ((v \div 2048) % 2)
    OBVIOUS
  <2> QED
    BY <2>1, <2>2, <2>3, <2>4, <2>5, <2>6
<1> HIDE DEF u
<1> QED
  BY <1>1, <1>2 DEF from_digits

\* The csr field holds the number it was given.
LEMMA EncodedCsr ==
  ASSUME NEW v \in Int, 0 <= v, v <= 4095, NEW rs1, NEW f3, NEW rd, NEW op
  PROVE  fields(enc_i(bits(v), rs1, f3, rd, op)).csr = v
<1> DEFINE x == bits(v)
           w == enc_i(x, rs1, f3, rd, op)
           b(k) == IF k \in x THEN 1 ELSE 0
           d(k) == (v \div k) % 2
<1>1. /\ b(0) = v % 2 /\ b(1) = d(2) /\ b(2) = d(4)
      /\ b(3) = d(8) /\ b(4) = d(16) /\ b(5) = d(32)
      /\ b(6) = d(64) /\ b(7) = d(128) /\ b(8) = d(256)
      /\ b(9) = d(512) /\ b(10) = d(1024) /\ b(11) = d(2048)
  BY PowersOfTwo DEF bits
<1> HIDE DEF x
<1>2. \A k \in 0 .. 11 : (20 + k \in w) <=> k \in x
  BY DEF enc_i, slice, field
<1> HIDE DEF w
<1>3. num(w, 31, 20) = b(0) + 2 * b(1) + 4 * b(2) + 8 * b(3) + 16 * b(4) + 32 * b(5)
                       + 64 * b(6) + 128 * b(7) + 256 * b(8) + 512 * b(9) + 1024 * b(10)
                       + 2048 * b(11)
  BY <1>2 DEF num
<1>4. fields(w).csr = num(w, 31, 20)
  BY DEF fields
<1>5. /\ b(0) \in Int /\ b(1) \in Int /\ b(2) \in Int /\ b(3) \in Int /\ b(4) \in Int
      /\ b(5) \in Int /\ b(6) \in Int /\ b(7) \in Int /\ b(8) \in Int /\ b(9) \in Int
      /\ b(10) \in Int /\ b(11) \in Int
  OBVIOUS
<1> HIDE DEF b
<1>6. v = (v % 2) + 2 * d(2) + 4 * d(4) + 8 * d(8) + 16 * d(16) + 32 * d(32) + 64 * d(64)
          + 128 * d(128) + 256 * d(256) + 512 * d(512) + 1024 * d(1024) + 2048 * d(2048)
  BY TwelveBits DEF from_digits
<1> HIDE DEF d
<1>7. v = b(0) + 2 * b(1) + 4 * b(2) + 8 * b(3) + 16 * b(4) + 32 * b(5) + 64 * b(6)
          + 128 * b(7) + 256 * b(8) + 512 * b(9) + 1024 * b(10) + 2048 * b(11)
  BY <1>1, <1>5, <1>6
<1>8. fields(w).csr = v
  BY <1>3, <1>4, <1>7
<1> QED
  BY <1>8 DEF w, x

\* The selector fields of a word put together field by field.
LEMMA RWordFields ==
  /\ \A op \in 0 .. 127 : \A f7, rs2, rs1, f3, rd :
       fields(r_word(f7, rs2, rs1, f3, rd, op)).opcode = op
  /\ \A f3 \in 0 .. 7 : \A f7, rs2, rs1, rd, op :
       fields(r_word(f7, rs2, rs1, f3, rd, op)).funct3 = f3
  /\ \A f7 \in 0 .. 127 : \A rs2, rs1, f3, rd, op :
       fields(r_word(f7, rs2, rs1, f3, rd, op)).funct7 = f7
<1>1. ASSUME NEW op \in 0 .. 127
      PROVE  \A f7, rs2, rs1, f3, rd : fields(r_word(f7, rs2, rs1, f3, rd, op)).opcode = op
  BY EncodedOpcode DEF r_word
<1>2. ASSUME NEW f3 \in 0 .. 7
      PROVE  \A f7, rs2, rs1, rd, op : fields(r_word(f7, rs2, rs1, f3, rd, op)).funct3 = f3
  BY EncodedFunct3 DEF r_word
<1>3. ASSUME NEW f7 \in 0 .. 127
      PROVE  \A rs2, rs1, f3, rd, op : fields(r_word(f7, rs2, rs1, f3, rd, op)).funct7 = f7
  BY EncodedFunct7 DEF r_word
<1> QED
  BY <1>1, <1>2, <1>3

\* What decode raises on, opcode by opcode.
LEMMA DecodeIllegal ==
  ASSUME NEW i, i.funct3 \in 0 .. 7
  PROVE  /\ i.opcode = OP_R /\ (i.funct7 \notin {0, 32}
                                \/ (i.funct7 = 32 /\ i.funct3 \notin {0, 5})) =>
              decode(i)[2] = "illegal"
         /\ i.opcode = OP_IARITH /\ i.funct3 \in {1, 5} /\ i.funct7 \notin {0, 32} =>
              decode(i)[2] = "illegal"
         /\ i.opcode = OP_IARITH /\ i.funct3 = 1 /\ i.funct7 # 0 => decode(i)[2] = "illegal"
         /\ i.opcode = OP_LOAD /\ i.funct3 \in {3, 6, 7} => decode(i)[2] = "illegal"
         /\ i.opcode = OP_STORE /\ i.funct3 \notin {0, 1, 2} => decode(i)[2] = "illegal"
         /\ i.opcode = OP_BRANCH /\ i.funct3 \in {2, 3} => decode(i)[2] = "illegal"
         /\ i.opcode = OP_JALR /\ i.funct3 # 0 => decode(i)[2] = "illegal"
         /\ i.opcode = OP_SYSTEM /\ i.funct3 = 4 => decode(i)[2] = "illegal"
         /\ i.opcode = OP_SYSTEM /\ i.funct3 = 0
              /\ i.csr \notin {CSR_ECALL, CSR_EBREAK, CSR_MRET} => decode(i)[2] = "illegal"
         /\ i.opcode \notin {OP_R, OP_IARITH, OP_LOAD, OP_STORE, OP_BRANCH, OP_LUI, OP_AUIPC,
                             OP_JAL, OP_JALR, OP_SYSTEM} => decode(i)[2] = "illegal"
<1> USE DEF decode, OP_R, OP_IARITH, OP_LOAD, OP_STORE, OP_BRANCH, OP_LUI, OP_AUIPC,
            OP_JAL, OP_JALR, OP_SYSTEM
<1>1. i.opcode = OP_R /\ (i.funct7 \notin {0, 32}
                          \/ (i.funct7 = 32 /\ i.funct3 \notin {0, 5})) =>
        decode(i)[2] = "illegal"
  BY DEF R_MNEM
<1>2. i.opcode = OP_IARITH /\ i.funct3 \in {1, 5} /\ i.funct7 \notin {0, 32} =>
        decode(i)[2] = "illegal"
  BY DEF SHIFT_MNEM
<1>3. i.opcode = OP_IARITH /\ i.funct3 = 1 /\ i.funct7 # 0 => decode(i)[2] = "illegal"
  BY DEF SHIFT_MNEM
<1>4. i.opcode = OP_LOAD /\ i.funct3 \in {3, 6, 7} => decode(i)[2] = "illegal"
  BY DEF LD_MNEM
<1>5. i.opcode = OP_STORE /\ i.funct3 \notin {0, 1, 2} => decode(i)[2] = "illegal"
  BY DEF ST_MNEM
<1>6. i.opcode = OP_BRANCH /\ i.funct3 \in {2, 3} => decode(i)[2] = "illegal"
  BY DEF BR_MNEM
<1>7. i.opcode = OP_JALR /\ i.funct3 # 0 => decode(i)[2] = "illegal"
  OBVIOUS
<1>8. i.opcode = OP_SYSTEM /\ i.funct3 = 4 => decode(i)[2] = "illegal"
  BY DEF CSR_MNEM
<1>9. i.opcode = OP_SYSTEM /\ i.funct3 = 0
        /\ i.csr \notin {CSR_ECALL, CSR_EBREAK, CSR_MRET} => decode(i)[2] = "illegal"
  BY DEF SYS_MNEM, fixed_word
<1>10. i.opcode \notin {OP_R, OP_IARITH, OP_LOAD, OP_STORE, OP_BRANCH, OP_LUI, OP_AUIPC,
                        OP_JAL, OP_JALR, OP_SYSTEM} => decode(i)[2] = "illegal"
  OBVIOUS
<1> HIDE DEF decode, OP_R, OP_IARITH, OP_LOAD, OP_STORE, OP_BRANCH, OP_LUI, OP_AUIPC,
             OP_JAL, OP_JALR, OP_SYSTEM
<1> QED
  BY <1>1, <1>2, <1>3, <1>4, <1>5, <1>6, <1>7, <1>8, <1>9, <1>10, Zenon

\* No word of the pool is legal, none is an alias.
LEMMA HandPickedIllegal ==
  ASSUME NEW w \in hand_picked PROVE is_illegal(w) /\ ~system_alias(fields(w))
<1>9. /\ OP_R \in 0 .. 127 /\ OP_IARITH \in 0 .. 127 /\ OP_LOAD \in 0 .. 127
      /\ OP_STORE \in 0 .. 127 /\ OP_BRANCH \in 0 .. 127 /\ OP_JALR \in 0 .. 127
      /\ OP_SYSTEM \in 0 .. 127
      /\ OP_R # OP_SYSTEM /\ OP_IARITH # OP_SYSTEM /\ OP_LOAD # OP_SYSTEM
      /\ OP_STORE # OP_SYSTEM /\ OP_BRANCH # OP_SYSTEM /\ OP_JALR # OP_SYSTEM
  BY DEF OP_R, OP_IARITH, OP_LOAD, OP_STORE, OP_BRANCH, OP_JALR, OP_SYSTEM
<1>1. is_illegal(w) <=> decode(fields(w))[2] = "illegal"
  BY DEF is_illegal, mnemonic
<1>2. fields(w).funct3 \in 0 .. 7
  BY FieldsAreFields DEF Fielded
<1>3. CASE w \in {r_word(1, 3, 2, f3, 1, OP_R) : f3 \in 0 .. 7}
                 \cup {r_word(64, 3, 2, f3, 1, OP_R) : f3 \in {0, 5}}
                 \cup {r_word(32, 3, 2, f3, 1, OP_R) : f3 \in {1, 2, 3, 4, 6, 7}}
  <2>1. PICK f7 \in {1, 64, 32}, f3 \in 0 .. 7 :
          w = r_word(f7, 3, 2, f3, 1, OP_R) /\ (f7 = 32 => f3 \notin {0, 5})
    BY <1>3
  <2>2. fields(w).opcode = OP_R /\ fields(w).funct3 = f3 /\ fields(w).funct7 = f7
    BY <1>9, <2>1, RWordFields
  <2> QED
    BY <1>9, <1>1, <1>2, <2>1, <2>2, DecodeIllegal DEF system_alias
<1>4. CASE w \in {r_word(x[1], 5, 2, x[2], 1, OP_IARITH) :
                    x \in {<<32, 1>>, <<1, 1>>, <<16, 5>>, <<64, 5>>, <<127, 1>>}}
  <2>1. PICK f7 \in {1, 16, 32, 64, 127}, f3 \in {1, 5} :
          w = r_word(f7, 5, 2, f3, 1, OP_IARITH) /\ (f7 = 32 => f3 = 1)
    BY <1>4
  <2>2. fields(w).opcode = OP_IARITH /\ fields(w).funct3 = f3 /\ fields(w).funct7 = f7
    BY <1>9, <2>1, RWordFields
  <2> QED
    BY <1>9, <1>1, <1>2, <2>1, <2>2, DecodeIllegal DEF system_alias
<1>5. CASE w \in {r_word(0, 4, 2, f3, 1, OP_LOAD) : f3 \in {3, 6, 7}}
                 \cup {r_word(0, 4, 2, f3, 1, OP_STORE) : f3 \in 3 .. 7}
                 \cup {r_word(0, 4, 2, f3, 1, OP_BRANCH) : f3 \in {2, 3}}
                 \cup {r_word(0, 4, 2, f3, 1, OP_JALR) : f3 \in 1 .. 7}
  <2>1. ASSUME NEW f3 \in {3, 6, 7}, w = r_word(0, 4, 2, f3, 1, OP_LOAD)
        PROVE  is_illegal(w) /\ ~system_alias(fields(w))
    <3>1. fields(w).opcode = OP_LOAD /\ fields(w).funct3 = f3
      BY <1>9, <2>1, RWordFields
    <3> QED
      BY <1>9, <1>1, <1>2, <3>1, DecodeIllegal DEF system_alias
  <2>2. ASSUME NEW f3 \in 3 .. 7, w = r_word(0, 4, 2, f3, 1, OP_STORE)
        PROVE  is_illegal(w) /\ ~system_alias(fields(w))
    <3>1. fields(w).opcode = OP_STORE /\ fields(w).funct3 = f3
      BY <1>9, <2>2, RWordFields
    <3> QED
      BY <1>9, <1>1, <1>2, <3>1, DecodeIllegal DEF system_alias
  <2>3. ASSUME NEW f3 \in {2, 3}, w = r_word(0, 4, 2, f3, 1, OP_BRANCH)
        PROVE  is_illegal(w) /\ ~system_alias(fields(w))
    <3>1. fields(w).opcode = OP_BRANCH /\ fields(w).funct3 = f3
      BY <1>9, <2>3, RWordFields
    <3> QED
      BY <1>9, <1>1, <1>2, <3>1, DecodeIllegal DEF system_alias
  <2>4. ASSUME NEW f3 \in 1 .. 7, w = r_word(0, 4, 2, f3, 1, OP_JALR)
        PROVE  is_illegal(w) /\ ~system_alias(fields(w))
    <3>1. fields(w).opcode = OP_JALR /\ fields(w).funct3 = f3
      BY <1>9, <2>4, RWordFields
    <3> QED
      BY <1>9, <1>1, <1>2, <3>1, DecodeIllegal DEF system_alias
  <2> QED
    BY <1>5, <2>1, <2>2, <2>3, <2>4
<1>6. CASE w \in {enc_i(bits(c), {}, {}, {}, bits(OP_SYSTEM)) :
                    c \in {2, 261, 258, 1970, 769, 771, 783, 4095}}
  <2>1. PICK c \in {2, 261, 258, 1970, 769, 771, 783, 4095} :
          w = enc_i(bits(c), {}, {}, {}, bits(OP_SYSTEM))
    BY <1>6
  <2>2. c \in Int /\ 0 <= c /\ c <= 4095 /\ c \notin {CSR_ECALL, CSR_EBREAK, CSR_MRET}
    BY DEF CSR_ECALL, CSR_EBREAK, CSR_MRET
  <2>3. fields(w).csr = c
    BY <2>1, <2>2, EncodedCsr
  <2>4. fields(w).opcode = OP_SYSTEM
    BY <1>9, <2>1, EncodedOpcode
  <2>5. fields(w).funct3 = 0
    <3>1. {} = bits(0)
      BY BitsOfConstants
    <3>2. w = enc_i(bits(c), {}, bits(0), {}, bits(OP_SYSTEM))
      BY <2>1, <3>1
    <3> QED
      BY <3>2, EncodedFunct3
  <2> QED
    BY <1>1, <1>2, <2>2, <2>3, <2>4, <2>5, DecodeIllegal DEF system_alias
<1>7. CASE w = r_word(48, 0, 2, 4, 1, OP_SYSTEM)
  <2>1. fields(w).opcode = OP_SYSTEM /\ fields(w).funct3 = 4
    BY <1>9, <1>7, RWordFields
  <2> QED
    BY <1>9, <1>1, <1>2, <2>1, DecodeIllegal DEF system_alias
<1>8. CASE w \in {r_word(0, 3, 2, 0, 1, op) :
                    op \in {0, 15, 31, 47, 59, 67, 83, 91, 107, 119, 123, 127, 1, 2, 17, 34}}
  <2>1. PICK op \in {0, 15, 31, 47, 59, 67, 83, 91, 107, 119, 123, 127, 1, 2, 17, 34} :
          w = r_word(0, 3, 2, 0, 1, op)
    BY <1>8
  <2>2. fields(w).opcode = op
    <3>1. op \in 0 .. 127
      OBVIOUS
    <3>2. fields(r_word(0, 3, 2, 0, 1, op)).opcode = op
      BY <3>1, RWordFields
    <3> QED
      BY <2>1, <3>2
  <2>3. op \notin {OP_R, OP_IARITH, OP_LOAD, OP_STORE, OP_BRANCH, OP_LUI, OP_AUIPC, OP_JAL,
                   OP_JALR, OP_SYSTEM}
    BY DEF OP_R, OP_IARITH, OP_LOAD, OP_STORE, OP_BRANCH, OP_LUI, OP_AUIPC, OP_JAL, OP_JALR,
           OP_SYSTEM
  <2> QED
    BY <1>1, <1>2, <2>2, <2>3, DecodeIllegal DEF system_alias
<1> QED
  BY <1>3, <1>4, <1>5, <1>6, <1>7, <1>8 DEF hand_picked

----------------------------------------------------------------------------
(* The scripts.                                                            *)

\* An operand of a line is one of the values the line was given.
LEMMA OperandsGiven ==
  ASSUME NEW m, NEW values, NEW csrs, NEW o \in operands(m, values, csrs)
  PROVE  o.imm \in values
BY DEF operands, ops

\* What the scripts draw lies in the range they draw from.
LEMMA Drawn ==
  ASSUME NEW lo \in Int, NEW hi \in Int, NEW step \in Int
  PROVE  /\ \A v \in randint(lo, hi, step) : v \in Int /\ lo <= v /\ v <= hi /\ v % step = 0
         /\ \A n : \A v \in pow_family(n, lo, hi, step) :
              v \in Int /\ lo <= v /\ v <= hi /\ v % step = 0
BY DEF randint, pow_family

\* The immediates of gen_control_table.py are ones asm.py accepts.
LEMMA ImmediatesValid ==
  ASSUME NEW m \in ORDER, NEW v \in immediates(m)
  PROVE  valid_imm(m, v)
<1>1. /\ m \in R_MNEMS => m[1] = "R"
      /\ m \in IARITH_MNEMS => m[1] = "I" /\ m \notin SHIFT_MNEMS
      /\ m \in SHIFT_MNEMS => m[1] = "I" /\ m \notin IARITH_MNEMS
      /\ m \in LOAD_MNEMS => m[1] = "L"
      /\ m \in STORE_MNEMS => m[1] = "S"
      /\ m \in BRANCH_MNEMS => m[1] = "B"
      /\ m \in {LUI, AUIPC} => m[1] = "U"
      /\ m = JAL => m[1] = "J" /\ m # JALR
      /\ m = JALR => m[1] = "J" /\ m # JAL
      /\ m \in FIXED_MNEMS => m[1] = "SYS"
      /\ m \in CSR_REG_MNEMS => m[1] = "CSR-R"
      /\ m \in CSR_IMM_MNEMS => m[1] = "CSR-I"
      /\ m[1] # "I" => m \notin IARITH_MNEMS /\ m \notin SHIFT_MNEMS
      /\ m[1] # "L" => m \notin LOAD_MNEMS
      /\ m[1] # "S" => m \notin STORE_MNEMS
      /\ m[1] # "B" => m \notin BRANCH_MNEMS
      /\ m[1] # "J" => m # JAL /\ m # JALR
      /\ m[1] # "CSR-I" => m \notin CSR_IMM_MNEMS
  BY DEF R_MNEMS, IARITH_MNEMS, SHIFT_MNEMS, LOAD_MNEMS, STORE_MNEMS, BRANCH_MNEMS, LUI,
         AUIPC, JAL, JALR, FIXED_MNEMS, CSR_REG_MNEMS, CSR_IMM_MNEMS
<1>2. CASE m \in IARITH_MNEMS
  <2>1. v \in {-1, -2048, -1365, 2047, 0, 1} \cup randint(-2048, 2047, 1)
    BY <1>1, <1>2 DEF immediates
  <2> QED
    BY <1>1, <1>2, <2>1, Drawn DEF valid_imm
<1>3. CASE m \in SHIFT_MNEMS
  <2>1. v \in {0, 1, 31, 16} \cup randint(0, 31, 1)
    BY <1>1, <1>3 DEF immediates
  <2> QED
    BY <1>1, <1>3, <2>1, Drawn DEF valid_imm
<1>4. CASE m \in LOAD_MNEMS \cup STORE_MNEMS
  <2>1. v \in {-1, -2048, 2047, 0} \cup randint(-2048, 2047, 1)
    BY <1>1, <1>4 DEF immediates
  <2> QED
    BY <1>1, <1>4, <2>1, Drawn DEF valid_imm
<1>5. CASE m \in BRANCH_MNEMS
  <2>1. v \in {-4096, -2, 0, 4094} \cup randint(-4096, 4094, 2)
    BY <1>1, <1>5 DEF immediates
  <2> QED
    BY <1>1, <1>5, <2>1, Drawn DEF valid_imm
<1>6. CASE m \in {LUI, AUIPC}
  <2>1. v \in {0, 1, 1048575, 524288} \cup randint(0, 1048575, 1)
    BY <1>1, <1>6 DEF immediates
  <2> QED
    BY <1>1, <1>6, <2>1, Drawn DEF valid_imm
<1>7. CASE m = JAL
  <2>1. v \in {-1048576, -2, 0, 1048574} \cup randint(-1048576, 1048574, 2)
    BY <1>1, <1>7 DEF immediates
  <2> QED
    BY <1>1, <1>7, <2>1, Drawn DEF valid_imm
<1>8. CASE m = JALR
  <2>1. v \in {-2048, -1, 0, 2047} \cup randint(-2048, 2047, 1)
    BY <1>1, <1>8 DEF immediates
  <2> QED
    BY <1>1, <1>8, <2>1, Drawn DEF valid_imm
<1>9. CASE m \in CSR_IMM_MNEMS
  <2>1. v \in {0, 1, 31} \cup randint(0, 31, 1)
    BY <1>1, <1>9 DEF immediates
  <2> QED
    BY <1>1, <1>9, <2>1, Drawn DEF valid_imm
<1>10. CASE m \in R_MNEMS \cup FIXED_MNEMS \cup CSR_REG_MNEMS
  <2>1. v = 0
    BY <1>1, <1>10 DEF immediates
  <2> QED
    BY <1>1, <1>10, <2>1 DEF valid_imm
<1> QED
  BY <1>2, <1>3, <1>4, <1>5, <1>6, <1>7, <1>8, <1>9, <1>10 DEF ORDER

\* Those of gen_imm_vectors.py are too.
LEMMA FormsValid ==
  ASSUME NEW f \in forms, NEW m \in f.mnems, NEW v \in f.values
  PROVE  /\ m \in ORDER /\ valid_imm(m, v)
         /\ f.sel = "I" => m \in IARITH_MNEMS \cup LOAD_MNEMS \cup {JALR} \cup SHIFT_MNEMS
         /\ f.sel = "S" => m \in STORE_MNEMS
         /\ f.sel = "B" => m \in BRANCH_MNEMS
         /\ f.sel = "U" => m \in {LUI, AUIPC}
         /\ f.sel = "J" => m = JAL
         /\ f.sel = "Z" => m \in CSR_IMM_MNEMS
         /\ f.sel \in {"I", "S", "B", "U", "J", "Z"}
<1>1. /\ m \in IARITH_MNEMS \cup LOAD_MNEMS \cup {JALR} \cup STORE_MNEMS =>
           m \notin SHIFT_MNEMS \cup CSR_IMM_MNEMS \cup BRANCH_MNEMS /\ m # JAL
      /\ m \in SHIFT_MNEMS =>
           /\ m \notin IARITH_MNEMS \cup LOAD_MNEMS \cup {JALR} \cup STORE_MNEMS
           /\ m \notin CSR_IMM_MNEMS \cup BRANCH_MNEMS /\ m # JAL
      /\ m \in CSR_IMM_MNEMS =>
           /\ m \notin IARITH_MNEMS \cup LOAD_MNEMS \cup {JALR} \cup STORE_MNEMS
           /\ m \notin SHIFT_MNEMS \cup BRANCH_MNEMS /\ m # JAL
      /\ m \in BRANCH_MNEMS =>
           /\ m \notin IARITH_MNEMS \cup LOAD_MNEMS \cup {JALR} \cup STORE_MNEMS
           /\ m \notin SHIFT_MNEMS \cup CSR_IMM_MNEMS /\ m # JAL
      /\ m = JAL =>
           /\ m \notin IARITH_MNEMS \cup LOAD_MNEMS \cup {JALR} \cup STORE_MNEMS
           /\ m \notin SHIFT_MNEMS \cup CSR_IMM_MNEMS \cup BRANCH_MNEMS
      /\ m \in {LUI, AUIPC} =>
           /\ m \notin IARITH_MNEMS \cup LOAD_MNEMS \cup {JALR} \cup STORE_MNEMS
           /\ m \notin SHIFT_MNEMS \cup CSR_IMM_MNEMS \cup BRANCH_MNEMS /\ m # JAL
  BY DEF IARITH_MNEMS, SHIFT_MNEMS, LOAD_MNEMS, STORE_MNEMS, BRANCH_MNEMS, LUI, AUIPC, JAL,
         JALR, CSR_IMM_MNEMS
<1>2. /\ v \in i_values => v \in Int /\ -2048 <= v /\ v <= 2047
      /\ v \in b_values => v \in Int /\ -4096 <= v /\ v <= 4094 /\ v % 2 = 0
      /\ v \in u_values => v \in Int
      /\ v \in j_values => v \in Int /\ -1048576 <= v /\ v <= 1048574 /\ v % 2 = 0
  <2>1. v \in i_values => v \in Int /\ -2048 <= v /\ v <= 2047
    BY Drawn DEF i_values
  <2>2. v \in b_values => v \in Int /\ -4096 <= v /\ v <= 4094 /\ v % 2 = 0
    BY Drawn DEF b_values
  <2>3. v \in u_values => v \in Int
    BY Drawn DEF u_values
  <2>4. v \in j_values => v \in Int /\ -1048576 <= v /\ v <= 1048574 /\ v % 2 = 0
    BY Drawn DEF j_values
  <2> QED
    BY <2>1, <2>2, <2>3, <2>4
<1>3. \/ /\ f.sel = "I" /\ m \in IARITH_MNEMS \cup LOAD_MNEMS \cup {JALR}
         /\ v \in i_values
      \/ f.sel = "I" /\ m \in SHIFT_MNEMS /\ v \in 0 .. 31
      \/ f.sel = "S" /\ m \in STORE_MNEMS /\ v \in i_values
      \/ f.sel = "B" /\ m \in BRANCH_MNEMS /\ v \in b_values
      \/ f.sel = "U" /\ m \in {LUI, AUIPC} /\ v \in u_values
      \/ f.sel = "J" /\ m = JAL /\ v \in j_values
      \/ f.sel = "Z" /\ m \in CSR_IMM_MNEMS /\ v \in 0 .. 31
  BY DEF forms
<1>4. m \in ORDER
  BY <1>3 DEF ORDER
<1>5. valid_imm(m, v)
  BY <1>1, <1>2, <1>3 DEF valid_imm
<1> QED
  BY <1>3, <1>4, <1>5

\* exp_i's word, the immediate of w with the opcode of addi, is an addi.
LEMMA AsAddi ==
  ASSUME NEW w, NEW x, x = {k \in w : k >= 20} \cup bits(OP_IARITH)
  PROVE  mnemonic(x) = <<"I", "add">> /\ iss_i(x) = iss_i(w)
<1>1. bits(OP_IARITH) = {0, 1, 4}
  BY BitsOfConstants DEF OP_IARITH
<1>2. /\ 0 \in x /\ 1 \in x /\ 2 \notin x /\ 3 \notin x /\ 4 \in x /\ 5 \notin x /\ 6 \notin x
      /\ 12 \notin x /\ 13 \notin x /\ 14 \notin x
  BY <1>1
<1>3. num(x, 6, 0) = 19 /\ num(x, 14, 12) = 0
  BY <1>2 DEF num
<1>4. fields(x).opcode = OP_IARITH /\ fields(x).funct3 = 0
  BY <1>3 DEF fields, OP_IARITH
<1>5. mnemonic(x) = <<"I", "add">>
  BY <1>4 DEF mnemonic, decode, IA_MNEM, OP_R, OP_IARITH, OP_LOAD, OP_STORE, OP_BRANCH,
       OP_LUI, OP_AUIPC, OP_JAL, OP_JALR, OP_SYSTEM
<1>6. \A k \in 20 .. 31 : (k \in x) <=> k \in w
  BY <1>1
<1>7. iss_i(x) = iss_i(w)
  <2> HIDE DEF OP_IARITH
  <2>1. fill(x, 31, 12) = fill(w, 31, 12) /\ slice(x, 31, 20, 0) = slice(w, 31, 20, 0)
    BY <1>6 DEF fill, slice
  <2>2. \A y : imm_bits(y, "I") = fill(y, 31, 12) \cup slice(y, 31, 20, 0)
    BY ImmCases
  <2>3. imm_bits(x, "I") = imm_bits(w, "I")
    BY <2>1, <2>2, Zenon
  <2> QED
    BY <2>3, SameImmediate
<1> QED
  BY <1>5, <1>7

\* exp returns what imm_gen.v does, for every word of a form.
LEMMA ExpectedImmediate ==
  ASSUME NEW f \in forms, NEW m \in f.mnems, NEW v \in f.values,
         NEW w, mnemonic(w) = m
  PROVE  exp(f.sel, w) = imm_bits(w, f.sel)
<1>1. /\ f.sel = "S" => m \in STORE_MNEMS
      /\ f.sel = "B" => m \in BRANCH_MNEMS
      /\ f.sel = "U" => m \in {LUI, AUIPC}
      /\ f.sel = "J" => m = JAL
      /\ f.sel = "Z" => m \in CSR_IMM_MNEMS
      /\ f.sel \in {"I", "S", "B", "U", "J", "Z"}
  BY FormsValid
<1>2. /\ m \in STORE_MNEMS => m[1] = "S"
      /\ m \in BRANCH_MNEMS => m[1] = "B"
      /\ m \in CSR_IMM_MNEMS => m[1] = "CSR-I"
  BY DEF STORE_MNEMS, BRANCH_MNEMS, CSR_IMM_MNEMS
<1>3. CASE f.sel = "I"
  <2> DEFINE x == {k \in w : k >= 20} \cup bits(OP_IARITH)
  <2>1. exp(f.sel, w) = iss_imm(x)
    BY <1>3 DEF exp
  <2> HIDE DEF x
  <2>2. mnemonic(x) = <<"I", "add">> /\ iss_i(x) = iss_i(w)
    BY AsAddi DEF x
  <2>3. <<"I", "add">> \in IARITH_MNEMS
    BY DEF IARITH_MNEMS
  <2>4. iss_imm(x) = iss_i(x)
    BY <2>2, <2>3, IssImmediates
  <2> QED
    BY <1>3, <2>1, <2>2, <2>4, SameImmediate
<1>4. CASE f.sel = "U"
  <2>1. exp(f.sel, w) = slice(iss_imm(w), 19, 0, 12)
    BY <1>4 DEF exp
  <2>2. iss_imm(w) = iss_u(w)
    BY <1>1, <1>4, IssImmediates
  <2> QED
    BY <1>4, <2>1, <2>2, SameImmediate
<1>5. CASE f.sel \in {"S", "B", "J", "Z"}
  <2>1. exp(f.sel, w) = iss_imm(w)
    BY <1>5 DEF exp
  <2>2. /\ f.sel = "S" => iss_imm(w) = iss_s(w)
        /\ f.sel = "B" => iss_imm(w) = iss_b(w)
        /\ f.sel = "J" => iss_imm(w) = iss_j(w)
        /\ f.sel = "Z" => iss_imm(w) = iss_zimm(w)
    BY <1>1, <1>2, IssImmediates
  <2> QED
    BY <1>5, <2>1, <2>2, SameImmediate
<1> QED
  BY <1>1, <1>3, <1>4, <1>5

\* The operand of an anchor comes back.
LEMMA AnchorsReturn ==
  ASSUME NEW f \in forms, NEW v \in f.values, NEW o, o.imm = v,
         NEW m \in f.mnems,
         m \in {<<"I", "add">>, <<"S", "sw">>, <<"B", "beq">>, JAL, <<"CSR-I", "csrrw">>}
  PROVE  exp(f.sel, encode(m, o)) = bits(v)
<1> DEFINE w == encode(m, o)
<1>1. /\ m \in ORDER /\ valid_imm(m, v)
      /\ f.sel = "I" => m \in IARITH_MNEMS \cup LOAD_MNEMS \cup {JALR} \cup SHIFT_MNEMS
      /\ f.sel = "S" => m \in STORE_MNEMS
      /\ f.sel = "B" => m \in BRANCH_MNEMS
      /\ f.sel = "U" => m \in {LUI, AUIPC}
      /\ f.sel = "J" => m = JAL
      /\ f.sel = "Z" => m \in CSR_IMM_MNEMS
      /\ f.sel \in {"I", "S", "B", "U", "J", "Z"}
  BY FormsValid
<1>2. m \notin SHIFT_MNEMS /\ m \notin {LUI, AUIPC}
  BY DEF SHIFT_MNEMS, LUI, AUIPC, JAL
<1>3. mnemonic(w) = m
  BY <1>1, <1>2, EncodedWordsDecode
<1>4. exp(f.sel, w) = imm_bits(w, f.sel)
  BY <1>3, ExpectedImmediate
<1>5. /\ m[1] = "I" <=> m = <<"I", "add">>
      /\ m[1] = "S" <=> m = <<"S", "sw">>
      /\ m[1] = "B" <=> m = <<"B", "beq">>
      /\ m[1] = "J" <=> m = JAL
      /\ m[1] = "CSR-I" <=> m = <<"CSR-I", "csrrw">>
      /\ m[1] \in {"I", "S", "B", "J", "CSR-I"} /\ m # JALR
  BY DEF JAL, JALR
<1>6. /\ m \in IARITH_MNEMS \cup SHIFT_MNEMS => m[1] = "I"
      /\ m \in LOAD_MNEMS => m[1] = "L"
      /\ m \in STORE_MNEMS => m[1] = "S"
      /\ m \in BRANCH_MNEMS => m[1] = "B"
      /\ m = JAL => m[1] = "J"
      /\ m \in CSR_IMM_MNEMS => m[1] = "CSR-I"
  BY DEF IARITH_MNEMS, SHIFT_MNEMS, LOAD_MNEMS, STORE_MNEMS, BRANCH_MNEMS, JAL, CSR_IMM_MNEMS
<1>7. control(fields(w)).imm_sel = CONTROL(m).imm_sel
  <2>1. m[2] # "illegal"
    BY DEF JAL
  <2> QED
    BY <1>3, <2>1, SelectorOfRow DEF is_illegal
<1>8. CONTROL(m).imm_sel = f.sel
  <2>1. /\ m[1] \in {"I", "L"} \/ m = JALR => CONTROL(m).imm_sel = "I"
        /\ m[1] = "S" => CONTROL(m).imm_sel = "S"
        /\ m[1] = "B" => CONTROL(m).imm_sel = "B"
        /\ m = JAL => CONTROL(m).imm_sel = "J"
        /\ m[1] = "CSR-I" => CONTROL(m).imm_sel = "Z"
    BY Selectors
  <2>2. /\ f.sel = "I" => m[1] = "I"
        /\ f.sel = "S" => m[1] = "S"
        /\ f.sel = "B" => m[1] = "B"
        /\ f.sel = "J" => m = JAL
        /\ f.sel = "Z" => m[1] = "CSR-I"
        /\ f.sel # "U"
    BY <1>1, <1>2, <1>5, <1>6
  <2> QED
    BY <1>1, <2>1, <2>2
<1>9. survives(m, w, v)
  BY <1>1, OperandsSurvive
<1>10. meaning(m, v) = bits(v)
  BY <1>5 DEF meaning
<1> HIDE DEF w
<1>11. imm_bits(w, control(fields(w)).imm_sel) = bits(v)
  BY <1>2, <1>5, <1>9, <1>10 DEF survives
<1> QED
  BY <1>4, <1>7, <1>8, <1>11 DEF w

\* One step of a script: what it draws and what it writes.
LEMMA LegalWord ==
  ASSUME NEW m \in ORDER, NEW o \in instances(m)
  PROVE  /\ mnemonic(encode(m, o)) = m
         /\ survives(m, encode(m, o), o.imm)
         /\ control(fields(encode(m, o))) = expected_fields(fields(encode(m, o)), m)
<1> DEFINE w == encode(m, o)
<1>1. valid_imm(m, o.imm)
  BY OperandsGiven, ImmediatesValid DEF instances
<1>2. mnemonic(w) = m
  BY <1>1, EncodedWordsDecode DEF valid_imm
<1>3. m[2] # "illegal"
  BY DEF ORDER, R_MNEMS, IARITH_MNEMS, SHIFT_MNEMS, LOAD_MNEMS, STORE_MNEMS, BRANCH_MNEMS,
         LUI, AUIPC, JAL, JALR, FIXED_MNEMS, CSR_REG_MNEMS, CSR_IMM_MNEMS
<1>4. agree(fields(w))
  BY DecodersAgreeOnEveryWord
<1>5. control(fields(w)) = expected_fields(fields(w), m)
  BY <1>2, <1>3, <1>4 DEF agree, mnemonic
<1> QED
  BY <1>1, <1>2, <1>5, OperandsSurvive

\* The vector of an illegal word that is no alias is the right one.
LEMMA IllegalWord ==
  ASSUME NEW w, is_illegal(w), ~system_alias(fields(w))
  PROVE  control(fields(w)) = ILLEGAL_FIELDS
BY DecodersAgreeOnEveryWord DEF agree, is_illegal, mnemonic

\* Whatever stands in the other fields, an operand comes back.
LEMMA ImmWord ==
  ASSUME NEW f \in forms, NEW m \in f.mnems, NEW csrs, NEW o \in operands(m, f.values, csrs)
  PROVE  /\ survives(m, encode(m, o), o.imm)
         /\ exp(f.sel, encode(m, o)) = imm_bits(encode(m, o), f.sel)
<1>1. o.imm \in f.values
  BY OperandsGiven
<1>2. m \in ORDER /\ valid_imm(m, o.imm)
  BY <1>1, FormsValid
<1>3. mnemonic(encode(m, o)) = m
  BY <1>2, EncodedWordsDecode DEF valid_imm
<1> QED
  BY <1>1, <1>2, <1>3, OperandsSurvive, ExpectedImmediate

\* Neither script stops on an assertion, whatever numbers it draws: a word
\* asm.py encodes decodes, in iss.py, as the mnemonic it was written with, no
\* hand-picked word is legal or an alias, the operand of an anchor comes back.
THEOREM ScriptsNeverAbort == Spec => []NoAssertionFails
<1>1. Init => NoAssertionFails
  BY DEF Init, NoAssertionFails
<1>2. ASSUME NoAssertionFails, [Next]_vecVars
      PROVE  NoAssertionFails'
  <2> USE <1>2
  <2>1. CASE LegalVector
    <3>1. PICK m \in ORDER : \E o \in instances(m) : aborted' = (mnemonic(encode(m, o)) # m)
      BY <2>1 DEF LegalVector
    <3>2. PICK o \in instances(m) : aborted' = (mnemonic(encode(m, o)) # m)
      BY <3>1
    <3> QED
      BY <3>2, LegalWord DEF NoAssertionFails
  <2>2. CASE HandPicked
    <3>1. PICK w \in hand_picked : aborted' = (system_alias(fields(w)) \/ ~is_illegal(w))
      BY <2>2 DEF HandPicked
    <3> QED
      BY <3>1, HandPickedIllegal DEF NoAssertionFails
  <2>3. CASE Swept
    BY <2>3 DEF Swept, NoAssertionFails
  <2>4. CASE Anchor
    <3>0. PICK f \in forms, m \in {<<"I", "add">>, <<"S", "sw">>, <<"B", "beq">>, JAL,
                                   <<"CSR-I", "csrrw">>} :
            /\ m \in f.mnems
            /\ \E v \in f.values :
                 aborted' = (exp(f.sel, encode(m, ops(5, 0, 0, v, 834))) # bits(v))
      BY <2>4 DEF Anchor
    <3>1. PICK v \in f.values :
            aborted' = (exp(f.sel, encode(m, ops(5, 0, 0, v, 834))) # bits(v))
      BY <3>0
    <3>2. ops(5, 0, 0, v, 834).imm = v
      BY DEF ops
    <3>3. exp(f.sel, encode(m, ops(5, 0, 0, v, 834))) = bits(v)
      BY <3>0, <3>2, AnchorsReturn
    <3> QED
      BY <3>1, <3>3 DEF NoAssertionFails
  <2>5. CASE ImmVector
    BY <2>5 DEF ImmVector, NoAssertionFails
  <2>6. CASE Reserved
    BY <2>6 DEF Reserved, NoAssertionFails
  <2>7. CASE UNCHANGED vecVars
    BY <2>7 DEF vecVars, NoAssertionFails
  <2> QED
    BY <2>1, <2>2, <2>3, <2>4, <2>5, <2>6, <2>7 DEF Next
<1> QED
  BY <1>1, <1>2, PTL DEF Spec

\* tb_control.v passes on every vector gen_control_table.py can write.
THEOREM ControlBenchPasses == Spec => []ControlVectorsPass
<1> USE DEF ControlVectorsPass, control_vector, imm_vector, NONE
<1>1. Init => ControlVectorsPass
  BY DEF Init
<1>2. ASSUME ControlVectorsPass, [Next]_vecVars
      PROVE  ControlVectorsPass'
  <2> USE <1>2
  <2>1. CASE LegalVector
    <3>0. PICK m \in ORDER : \E o \in instances(m) :
            vector' = IF mnemonic(encode(m, o)) # m THEN NONE
                      ELSE control_vector(encode(m, o),
                                          expected_fields(fields(encode(m, o)), m))
      BY <2>1 DEF LegalVector
    <3>1. PICK o \in instances(m) :
            vector' = IF mnemonic(encode(m, o)) # m THEN NONE
                      ELSE control_vector(encode(m, o),
                                          expected_fields(fields(encode(m, o)), m))
      BY <3>0
    <3>2. vector' = control_vector(encode(m, o), expected_fields(fields(encode(m, o)), m))
      BY <3>1, LegalWord
    <3> QED
      BY <3>2, LegalWord
  <2>2. CASE HandPicked
    <3>1. PICK w \in hand_picked :
            vector' = IF system_alias(fields(w)) \/ ~is_illegal(w) THEN NONE
                      ELSE control_vector(w, ILLEGAL_FIELDS)
      BY <2>2 DEF HandPicked
    <3>2. vector' = control_vector(w, ILLEGAL_FIELDS)
      BY <3>1, HandPickedIllegal
    <3> QED
      BY <3>2, HandPickedIllegal, IllegalWord
  <2>3. CASE Swept
    <3>1. PICK x \in SWEEP :
            LET w == r_word(x[1], x[2], x[3], x[4], x[5], x[6])
            IN  vector' = IF system_alias(fields(w)) \/ ~is_illegal(w) THEN NONE
                          ELSE control_vector(w, ILLEGAL_FIELDS)
      BY <2>3 DEF Swept
    <3> DEFINE w == r_word(x[1], x[2], x[3], x[4], x[5], x[6])
    <3>2. vector' = IF system_alias(fields(w)) \/ ~is_illegal(w) THEN NONE
                    ELSE control_vector(w, ILLEGAL_FIELDS)
      BY <3>1
    <3> HIDE DEF w
    <3>3. CASE system_alias(fields(w)) \/ ~is_illegal(w)
      BY <3>2, <3>3
    <3>4. CASE ~system_alias(fields(w)) /\ is_illegal(w)
      BY <3>2, <3>4, IllegalWord
    <3> QED
      BY <3>3, <3>4
  <2>4. CASE Anchor
    BY <2>4 DEF Anchor
  <2>5. CASE ImmVector
    <3>1. vector'.kind = "imm"
      BY <2>5 DEF ImmVector
    <3> QED
      BY <3>1
  <2>6. CASE Reserved
    <3>1. vector'.kind = "imm"
      BY <2>6 DEF Reserved
    <3> QED
      BY <3>1
  <2>7. CASE UNCHANGED vecVars
    BY <2>7 DEF vecVars
  <2> QED
    BY <2>1, <2>2, <2>3, <2>4, <2>5, <2>6, <2>7 DEF Next
<1> QED
  BY <1>1, <1>2, PTL DEF Spec

\* tb_imm_gen.v passes on every vector gen_imm_vectors.py can write.
THEOREM ImmBenchPasses == Spec => []ImmVectorsPass
<1> USE DEF ImmVectorsPass, control_vector, imm_vector, NONE
<1>1. Init => ImmVectorsPass
  BY DEF Init
<1>2. ASSUME ImmVectorsPass, [Next]_vecVars
      PROVE  ImmVectorsPass'
  <2> USE <1>2
  <2>1. CASE LegalVector
    <3>1. vector'.kind # "imm"
      BY <2>1 DEF LegalVector
    <3> QED
      BY <3>1
  <2>2. CASE HandPicked
    <3>1. vector'.kind # "imm"
      BY <2>2 DEF HandPicked
    <3> QED
      BY <3>1
  <2>3. CASE Swept
    <3>1. vector'.kind # "imm"
      BY <2>3 DEF Swept
    <3> QED
      BY <3>1
  <2>4. CASE Anchor
    BY <2>4 DEF Anchor
  <2>5. CASE ImmVector
    <3>1. PICK f \in forms : \E m \in f.mnems : \E o \in operands(m, f.values, IMM_CSR_ADDRS) :
            vector' = imm_vector(encode(m, o), f.sel, exp(f.sel, encode(m, o)))
      BY <2>5 DEF ImmVector
    <3>4. PICK m \in f.mnems : \E o \in operands(m, f.values, IMM_CSR_ADDRS) :
            vector' = imm_vector(encode(m, o), f.sel, exp(f.sel, encode(m, o)))
      BY <3>1
    <3>2. PICK o \in operands(m, f.values, IMM_CSR_ADDRS) :
            vector' = imm_vector(encode(m, o), f.sel, exp(f.sel, encode(m, o)))
      BY <3>4
    <3>3. exp(f.sel, encode(m, o)) = imm_bits(encode(m, o), f.sel)
      BY ImmWord
    <3> QED
      BY <3>2, <3>3
  <2>6. CASE Reserved
    <3>1. PICK w : vector' = imm_vector(w, "reserved", {})
      BY <2>6 DEF Reserved
    <3>2. imm_bits(w, "reserved") = {}
      BY DEF imm_bits
    <3> QED
      BY <3>1, <3>2
  <2>7. CASE UNCHANGED vecVars
    BY <2>7 DEF vecVars
  <2> QED
    BY <2>1, <2>2, <2>3, <2>4, <2>5, <2>6, <2>7 DEF Next
<1> QED
  BY <1>1, <1>2, PTL DEF Spec

\* Of every line either script writes, the operand in the source is the
\* immediate the hardware computes with, whatever stands in the other fields.
THEOREM OperandsReachTheDatapath == Spec => []ImmediatesSurvive
<1> DEFINE checked == {"legal", "anchor", "imm"}
           fine == cand.kind \in checked => survives(cand.mnem, cand.word, cand.ops.imm)
<1>1. fine <=> ImmediatesSurvive
  BY Zenon DEF ImmediatesSurvive, survives
<1>2. Init => fine
  BY DEF Init, stimulus
<1>3. ASSUME fine, [Next]_vecVars PROVE fine'
  <2> USE <1>3
  <2>1. CASE LegalVector
    <3>1. PICK m \in ORDER : \E o \in instances(m) :
            cand' = stimulus("legal", encode(m, o), m, o)
      BY <2>1 DEF LegalVector
    <3>2. PICK o \in instances(m) : cand' = stimulus("legal", encode(m, o), m, o)
      BY <3>1
    <3>3. cand'.mnem = m /\ cand'.word = encode(m, o) /\ cand'.ops = o
      BY <3>2 DEF stimulus
    <3>4. survives(m, encode(m, o), o.imm)
      BY LegalWord
    <3> QED
      BY <3>3, <3>4
  <2>2. CASE HandPicked
    BY <2>2 DEF HandPicked, stimulus
  <2>3. CASE Swept
    BY <2>3 DEF Swept, stimulus
  <2>4. CASE Anchor
    <3>1. PICK f \in forms, m \in {<<"I", "add">>, <<"S", "sw">>, <<"B", "beq">>, JAL,
                                   <<"CSR-I", "csrrw">>} :
            /\ m \in f.mnems
            /\ \E v \in f.values :
                 cand' = stimulus("anchor", encode(m, ops(5, 0, 0, v, 834)), m,
                                  ops(5, 0, 0, v, 834))
      BY <2>4 DEF Anchor
    <3>2. PICK v \in f.values :
            cand' = stimulus("anchor", encode(m, ops(5, 0, 0, v, 834)), m,
                             ops(5, 0, 0, v, 834))
      BY <3>1
    <3> DEFINE o == ops(5, 0, 0, v, 834)
    <3>3. o.imm = v
      BY DEF ops
    <3> HIDE DEF o
    <3>4. m \in ORDER /\ valid_imm(m, o.imm)
      BY <3>1, <3>3, FormsValid
    <3>5. survives(m, encode(m, o), o.imm)
      BY <3>4, OperandsSurvive
    <3>6. cand'.mnem = m /\ cand'.word = encode(m, o) /\ cand'.ops = o
      BY <3>2 DEF stimulus, o
    <3> QED
      BY <3>5, <3>6
  <2>5. CASE ImmVector
    <3>1. PICK f \in forms : \E m \in f.mnems : \E o \in operands(m, f.values, IMM_CSR_ADDRS) :
            cand' = stimulus("imm", encode(m, o), m, o)
      BY <2>5 DEF ImmVector
    <3>2. PICK m \in f.mnems : \E o \in operands(m, f.values, IMM_CSR_ADDRS) :
            cand' = stimulus("imm", encode(m, o), m, o)
      BY <3>1
    <3>3. PICK o \in operands(m, f.values, IMM_CSR_ADDRS) :
            cand' = stimulus("imm", encode(m, o), m, o)
      BY <3>2
    <3>4. survives(m, encode(m, o), o.imm)
      BY ImmWord
    <3>5. cand'.mnem = m /\ cand'.word = encode(m, o) /\ cand'.ops = o
      BY <3>3 DEF stimulus
    <3> QED
      BY <3>4, <3>5
  <2>6. CASE Reserved
    BY <2>6 DEF Reserved, stimulus
  <2>7. CASE UNCHANGED vecVars
    BY <2>7 DEF vecVars, survives, meaning
  <2> QED
    BY <2>1, <2>2, <2>3, <2>4, <2>5, <2>6, <2>7 DEF Next
<1>4. (fine <=> ImmediatesSurvive)'
  BY Zenon DEF ImmediatesSurvive, survives
<1>5. Init => ImmediatesSurvive
  BY <1>1, <1>2
<1>6. ImmediatesSurvive /\ [Next]_vecVars => ImmediatesSurvive'
  BY <1>1, <1>3, <1>4
<1> QED
  BY <1>5, <1>6, PTL DEF Spec
=============================================================================
