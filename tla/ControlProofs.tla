--------------------------- MODULE ControlProofs ----------------------------
(***************************************************************************)
(* The type of the decoder's output, and the facts about its flags that    *)
(* the proofs of the pipeline rest on.                                     *)
(***************************************************************************)
EXTENDS Control, TLAPS

Opcodes == {OP_R, OP_IARITH, OP_LOAD, OP_STORE, OP_BRANCH, OP_LUI, OP_AUIPC,
            OP_JAL, OP_JALR, OP_SYSTEM}

\* What the case statement does not name is illegal.
LEMMA LegalOpcode ==
  ASSUME NEW i, legal(i)
  PROVE  /\ i.opcode \in Opcodes
         /\ i.opcode = OP_SYSTEM => i.funct3 \in {0, 1, 2, 3, 5, 6, 7}
BY DEF legal, Opcodes, OP_R, OP_IARITH, OP_LOAD, OP_STORE, OP_BRANCH, OP_LUI,
       OP_AUIPC, OP_JAL, OP_JALR, OP_SYSTEM

\* Which branch of the case statement an instruction takes.
LEMMA ControlCases ==
  ASSUME NEW i
  PROVE  /\ ~legal(i) => control(i) = illegal_ctl
         /\ legal(i) =>
              /\ i.opcode = OP_R      => control(i) = r_ctl(alu_op(i))
              /\ i.opcode = OP_IARITH => control(i) = iarith_ctl(alu_op(i))
              /\ i.opcode = OP_LOAD   => control(i) = load_ctl
              /\ i.opcode = OP_STORE  => control(i) = store_ctl
              /\ i.opcode = OP_BRANCH => control(i) = branch_ctl
              /\ i.opcode = OP_LUI    => control(i) = lui_ctl
              /\ i.opcode = OP_AUIPC  => control(i) = auipc_ctl
              /\ i.opcode = OP_JAL    => control(i) = jal_ctl
              /\ i.opcode = OP_JALR   => control(i) = jalr_ctl
<1> USE DEF control, OP_R, OP_IARITH, OP_LOAD, OP_STORE, OP_BRANCH, OP_LUI,
            OP_AUIPC, OP_JAL, OP_JALR, OP_SYSTEM
<1>1. ASSUME ~legal(i) PROVE control(i) = illegal_ctl
  BY <1>1
<1>2. ASSUME legal(i), i.opcode = OP_R PROVE control(i) = r_ctl(alu_op(i))
  BY <1>2
<1>3. ASSUME legal(i), i.opcode = OP_IARITH PROVE control(i) = iarith_ctl(alu_op(i))
  BY <1>3
<1>4. ASSUME legal(i), i.opcode = OP_LOAD PROVE control(i) = load_ctl
  BY <1>4
<1>5. ASSUME legal(i), i.opcode = OP_STORE PROVE control(i) = store_ctl
  BY <1>5
<1>6. ASSUME legal(i), i.opcode = OP_BRANCH PROVE control(i) = branch_ctl
  BY <1>6
<1>7. ASSUME legal(i), i.opcode = OP_LUI PROVE control(i) = lui_ctl
  BY <1>7
<1>8. ASSUME legal(i), i.opcode = OP_AUIPC PROVE control(i) = auipc_ctl
  BY <1>8
<1>9. ASSUME legal(i), i.opcode = OP_JAL PROVE control(i) = jal_ctl
  BY <1>9
<1>10. ASSUME legal(i), i.opcode = OP_JALR PROVE control(i) = jalr_ctl
  BY <1>10
<1> HIDE DEF control, OP_R, OP_IARITH, OP_LOAD, OP_STORE, OP_BRANCH, OP_LUI,
             OP_AUIPC, OP_JAL, OP_JALR, OP_SYSTEM
<1> QED
  BY <1>1, <1>2, <1>3, <1>4, <1>5, <1>6, <1>7, <1>8, <1>9, <1>10, Zenon

LEMMA SystemCases ==
  ASSUME NEW i, legal(i), i.opcode = OP_SYSTEM
  PROVE  /\ i.funct3 = 0 =>
              control(i) = fixed_ctl(i.csr = CSR_MRET, i.csr = CSR_ECALL, i.csr = CSR_EBREAK)
         /\ i.funct3 \in {1, 2, 3} =>
              control(i) = csr_ctl("I", i.funct3 = 1 \/ i.rs1 # 0, FALSE)
         /\ i.funct3 \in {5, 6, 7} =>
              control(i) = csr_ctl("Z", i.funct3 = 5 \/ i.rs1 # 0, TRUE)
<1>1. /\ i.opcode # OP_R /\ i.opcode # OP_IARITH /\ i.opcode # OP_LOAD
      /\ i.opcode # OP_STORE /\ i.opcode # OP_BRANCH /\ i.opcode # OP_LUI
      /\ i.opcode # OP_AUIPC /\ i.opcode # OP_JAL /\ i.opcode # OP_JALR
  BY DEF OP_R, OP_IARITH, OP_LOAD, OP_STORE, OP_BRANCH, OP_LUI, OP_AUIPC, OP_JAL,
         OP_JALR, OP_SYSTEM
<1>2. /\ i.funct3 = 0 => i.funct3 \notin {1, 2, 3} /\ i.funct3 \notin {5, 6, 7}
      /\ i.funct3 \in {1, 2, 3} => i.funct3 # 0 /\ i.funct3 \notin {5, 6, 7}
      /\ i.funct3 \in {5, 6, 7} => i.funct3 # 0 /\ i.funct3 \notin {1, 2, 3}
  OBVIOUS
<1> QED
  BY <1>1, <1>2, Zenon DEF control

LEMMA ZeroIsControlWord == ZERO_CONTROL \in ControlWord
BY DEF ZERO_CONTROL, ControlWord, WbSels, AluOps, ImmSels

LEMMA RowsAreControlWords ==
  ASSUME NEW op \in AluOps, NEW sel \in ImmSels, NEW p \in BOOLEAN,
         NEW q \in BOOLEAN, NEW r \in BOOLEAN
  PROVE  /\ {illegal_ctl, r_ctl(op), iarith_ctl(op)} \subseteq ControlWord
         /\ {load_ctl, store_ctl, branch_ctl, lui_ctl, auipc_ctl} \subseteq ControlWord
         /\ {jal_ctl, jalr_ctl, fixed_ctl(p, q, r), csr_ctl(sel, p, q)} \subseteq ControlWord
<1>1. /\ {"I", "S", "B", "U", "J", "Z"} \subseteq ImmSels
      /\ {"ALU", "MEM", "PC4", "CSR"} \subseteq WbSels
      /\ "PASSB" \in AluOps
  BY DEF ImmSels, WbSels, AluOps
<1>2. illegal_ctl \in ControlWord /\ r_ctl(op) \in ControlWord
      /\ iarith_ctl(op) \in ControlWord
  BY ZeroIsControlWord, Zenon DEF illegal_ctl, r_ctl, iarith_ctl, ControlWord
<1>3. load_ctl \in ControlWord /\ store_ctl \in ControlWord
      /\ branch_ctl \in ControlWord
  BY <1>1, ZeroIsControlWord, Zenon DEF load_ctl, store_ctl, branch_ctl, ControlWord
<1>4. lui_ctl \in ControlWord /\ auipc_ctl \in ControlWord
  BY <1>1, ZeroIsControlWord, Zenon DEF lui_ctl, auipc_ctl, ControlWord
<1>5. jal_ctl \in ControlWord /\ jalr_ctl \in ControlWord
  BY <1>1, ZeroIsControlWord, Zenon DEF jal_ctl, jalr_ctl, ControlWord
<1>6. fixed_ctl(p, q, r) \in ControlWord
  BY ZeroIsControlWord, Zenon DEF fixed_ctl, ControlWord
<1>7. csr_ctl(sel, p, q) \in ControlWord
  BY <1>1, ZeroIsControlWord, Zenon DEF csr_ctl, ControlWord
<1> QED
  BY <1>2, <1>3, <1>4, <1>5, <1>6, <1>7

LEMMA RowFlags ==
  ASSUME NEW op, NEW sel, NEW p, NEW q, NEW r
  PROVE  /\ \A row \in {illegal_ctl, r_ctl(op), iarith_ctl(op), store_ctl, branch_ctl,
                        lui_ctl, auipc_ctl, jal_ctl, jalr_ctl} :
              row.ebreak = FALSE /\ row.wb_sel # "MEM"
         /\ load_ctl.ebreak = FALSE /\ load_ctl.mem_re = TRUE
         /\ fixed_ctl(p, q, r).wb_sel # "MEM" /\ csr_ctl(sel, p, q).wb_sel # "MEM"
BY DEF illegal_ctl, r_ctl, iarith_ctl, load_ctl, store_ctl, branch_ctl, lui_ctl,
       auipc_ctl, jal_ctl, jalr_ctl, fixed_ctl, csr_ctl, ZERO_CONTROL

LEMMA AluOpInRange == ASSUME NEW i PROVE alu_op(i) \in AluOps
BY DEF alu_op, AluOps

\* The decoder drives every signal, with a value of its own range.
THEOREM ControlIsControlWord == ASSUME NEW i PROVE control(i) \in ControlWord
<1>1. CASE ~legal(i)
  BY <1>1, ControlCases, RowsAreControlWords, AluOpInRange DEF ImmSels
<1>2. CASE legal(i) /\ i.opcode # OP_SYSTEM
  BY <1>2, LegalOpcode, ControlCases, RowsAreControlWords, AluOpInRange DEF Opcodes, ImmSels
<1>3. CASE legal(i) /\ i.opcode = OP_SYSTEM
  <2>1. CASE i.funct3 = 0
    BY <1>3, <2>1, SystemCases, RowsAreControlWords, AluOpInRange DEF ImmSels
  <2>2. CASE i.funct3 \in {1, 2, 3}
    BY <1>3, <2>2, SystemCases, RowsAreControlWords, AluOpInRange DEF ImmSels
  <2>3. CASE i.funct3 \in {5, 6, 7}
    BY <1>3, <2>3, SystemCases, RowsAreControlWords, AluOpInRange DEF ImmSels
  <2> QED
    BY <1>3, <2>1, <2>2, <2>3, LegalOpcode
<1> QED
  BY <1>1, <1>2, <1>3

\* An ebreak is a SYSTEM word, and what is written back from memory was
\* read there.
LEMMA DecodedFlags ==
  ASSUME NEW i
  PROVE  /\ control(i).ebreak => i.opcode = OP_SYSTEM
         /\ control(i).wb_sel = "MEM" => control(i).mem_re
<1>1. CASE ~legal(i) \/ i.opcode \in Opcodes \ {OP_LOAD, OP_SYSTEM}
  <2>1. control(i).ebreak = FALSE /\ control(i).wb_sel # "MEM"
    BY <1>1, ControlCases, RowFlags DEF Opcodes
  <2> QED
    BY <2>1, Zenon
<1>2. CASE legal(i) /\ i.opcode = OP_LOAD
  <2>1. control(i).ebreak = FALSE /\ control(i).mem_re = TRUE
    BY <1>2, ControlCases, RowFlags
  <2> QED
    BY <2>1, Zenon
<1>3. CASE legal(i) /\ i.opcode = OP_SYSTEM
  <2>1. control(i).wb_sel # "MEM"
    <3>1. \A p, q, r, sel : /\ fixed_ctl(p, q, r).wb_sel # "MEM"
                            /\ csr_ctl(sel, p, q).wb_sel # "MEM"
      BY RowFlags, Zenon
    <3>2. ASSUME i.funct3 = 0 PROVE control(i).wb_sel # "MEM"
      <4>1. control(i) = fixed_ctl(i.csr = CSR_MRET, i.csr = CSR_ECALL, i.csr = CSR_EBREAK)
        BY <1>3, <3>2, SystemCases, Zenon
      <4>2. fixed_ctl(i.csr = CSR_MRET, i.csr = CSR_ECALL, i.csr = CSR_EBREAK).wb_sel # "MEM"
        BY DEF fixed_ctl, ZERO_CONTROL
      <4> QED
        BY <4>1, <4>2, Zenon
    <3>3. ASSUME i.funct3 \in {1, 2, 3} PROVE control(i).wb_sel # "MEM"
      <4>1. PICK p : control(i) = csr_ctl("I", p, FALSE)
        BY <1>3, <3>3, SystemCases, Zenon
      <4> QED
        BY <3>1, <4>1
    <3>4. ASSUME i.funct3 \in {5, 6, 7} PROVE control(i).wb_sel # "MEM"
      <4>1. PICK p : control(i) = csr_ctl("Z", p, TRUE)
        BY <1>3, <3>4, SystemCases, Zenon
      <4> QED
        BY <3>1, <4>1
    <3> QED
      BY <1>3, <3>2, <3>3, <3>4, LegalOpcode
  <2> QED
    BY <1>3, <2>1
<1> QED
  BY <1>1, <1>2, <1>3, LegalOpcode

\* An ebreak is neither an ecall nor a branch, and a branch is neither an
\* ecall nor illegal.
LEMMA ControlExcludes ==
  ASSUME NEW i
  PROVE  /\ control(i).ebreak => ~control(i).ecall
         /\ control(i).branch => ~control(i).ecall
         /\ control(i).branch <=> (i.opcode = OP_BRANCH /\ ~control(i).illegal)
<1>1. CASE ~legal(i)
  <2>1. control(i) = illegal_ctl
    BY <1>1, ControlCases, Zenon
  <2>2. /\ illegal_ctl.ebreak = FALSE /\ illegal_ctl.branch = FALSE
        /\ illegal_ctl.illegal = TRUE
    BY DEF illegal_ctl, ZERO_CONTROL
  <2> QED BY <2>1, <2>2, Zenon
<1>2. CASE legal(i) /\ i.opcode = OP_BRANCH
  <2>1. control(i) = branch_ctl
    BY <1>2, ControlCases, Zenon
  <2>2. /\ branch_ctl.ebreak = FALSE /\ branch_ctl.branch = TRUE
        /\ branch_ctl.illegal = FALSE /\ branch_ctl.ecall = FALSE
    BY DEF branch_ctl, ZERO_CONTROL
  <2> QED BY <1>2, <2>1, <2>2, Zenon
<1>3. CASE legal(i) /\ i.opcode \in Opcodes \ {OP_BRANCH, OP_SYSTEM}
  <2>1. control(i).ebreak = FALSE /\ control(i).branch = FALSE
    <3>1. control(i) \in {r_ctl(alu_op(i)), iarith_ctl(alu_op(i)), load_ctl,
                          store_ctl, lui_ctl, auipc_ctl, jal_ctl, jalr_ctl}
      BY <1>3, ControlCases, Zenon DEF Opcodes
    <3> QED BY <3>1 DEF r_ctl, iarith_ctl, load_ctl, store_ctl, lui_ctl,
                        auipc_ctl, jal_ctl, jalr_ctl, ZERO_CONTROL
  <2> QED BY <1>3, <2>1, Zenon
<1>4. CASE legal(i) /\ i.opcode = OP_SYSTEM /\ i.funct3 = 0
  <2>1. /\ control(i).ebreak = (i.csr = CSR_EBREAK)
        /\ control(i).ecall = (i.csr = CSR_ECALL)
        /\ control(i).branch = FALSE
    <3>1. control(i) = fixed_ctl(i.csr = CSR_MRET, i.csr = CSR_ECALL,
                                 i.csr = CSR_EBREAK)
      BY <1>4, SystemCases, Zenon
    <3>2. ASSUME NEW p \in BOOLEAN, NEW q \in BOOLEAN, NEW r \in BOOLEAN
          PROVE  /\ fixed_ctl(p, q, r).ebreak = r
                 /\ fixed_ctl(p, q, r).ecall = q
                 /\ fixed_ctl(p, q, r).branch = FALSE
      BY DEF fixed_ctl, ZERO_CONTROL
    <3> QED BY <3>1, <3>2, Zenon
  <2>2. CSR_EBREAK # CSR_ECALL /\ OP_SYSTEM # OP_BRANCH
    BY DEF CSR_EBREAK, CSR_ECALL, OP_SYSTEM, OP_BRANCH
  <2> QED BY <1>4, <2>1, <2>2, Zenon
<1>5. CASE legal(i) /\ i.opcode = OP_SYSTEM /\ i.funct3 # 0
  <2>1. control(i).ebreak = FALSE /\ control(i).branch = FALSE
    <3>1. \A sel, we, imm : csr_ctl(sel, we, imm).ebreak = FALSE
                            /\ csr_ctl(sel, we, imm).branch = FALSE
      BY DEF csr_ctl, ZERO_CONTROL
    <3>2. i.funct3 \in {1, 2, 3} \/ i.funct3 \in {5, 6, 7}
      BY <1>5, LegalOpcode
    <3>3. PICK sel, we, imm : control(i) = csr_ctl(sel, we, imm)
      BY <1>5, <3>2, SystemCases, Zenon
    <3> QED BY <3>1, <3>3, Zenon
  <2>2. OP_SYSTEM # OP_BRANCH
    BY DEF OP_SYSTEM, OP_BRANCH
  <2> QED BY <1>5, <2>1, <2>2, Zenon
<1> QED BY <1>1, <1>2, <1>3, <1>4, <1>5, LegalOpcode
=============================================================================
