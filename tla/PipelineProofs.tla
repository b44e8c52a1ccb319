--------------------------- MODULE PipelineProofs ---------------------------
(***************************************************************************)
(* Theorems about the pipeline, for every width of a word, number of       *)
(* registers, memory and table size, program, memory content, interrupt    *)
(* schedule and setting of the two parameters; first, what the             *)
(* combinational leaves of the data path return.                           *)
(***************************************************************************)
EXTENDS Refinement, ControlProofs

----------------------------------------------------------------------------
(* Words.                                                                  *)

\* The facts about powers of two, in the form the provers use them.
LEMMA Powers ==
  /\ XLEN \in Nat \ {0}
  /\ 2^XLEN \in Nat \ {0}
  /\ 11 < 2^XLEN
  /\ \A k \in 0 .. (XLEN - 1) : 2^k \in Nat \ {0} /\ 2^k < 2^XLEN
<1>1. XLEN \in Nat \ {0} /\ 2^XLEN \in Nat \ {0}
  BY WidthAssumption
<1>2. 11 < 2^XLEN
  BY <1>1, CauseAssumption DEF CAUSE_ECALL_M, Word
<1>3. \A k \in 0 .. (XLEN - 1) : 2^k \in Nat \ {0} /\ 2^k < 2^XLEN
  BY <1>1, WidthAssumption
<1> QED BY <1>1, <1>2, <1>3

\* Truncation.
LEMMA UIsWord == ASSUME NEW x \in Int PROVE U(x) \in Word
BY Powers DEF U, Word

\* Truncation does nothing to a word.
LEMMA UOfWord == ASSUME NEW x \in Word PROVE U(x) = x
BY Powers DEF U, Word

LEMMA SmallIsWord == ASSUME NEW x \in 0 .. 4 PROVE x \in Word
BY Powers DEF Word

LEMMA WordIsInt == ASSUME NEW x \in Word PROVE x \in Int /\ x >= 0
BY Powers DEF Word

LEMMA SignedIsInt == ASSUME NEW x \in Word PROVE Signed(x) \in Int
BY Powers DEF Signed, Word

LEMMA BitNotIsWord == ASSUME NEW x \in Word PROVE BitNot(x) \in Word
BY Powers DEF BitNot, Word

LEMMA AlignIsWord ==
  ASSUME NEW x \in Word PROVE WordAlign(x) \in Word /\ HalfAlign(x) \in Word
BY Powers DEF WordAlign, HalfAlign, Word

LEMMA AtBitIsWord ==
  ASSUME NEW b \in BOOLEAN, NEW k \in 0 .. (XLEN - 1)
  PROVE  AtBit(b, k) \in Word
BY Powers DEF AtBit, Word

LEMMA SignExtendIsWord ==
  ASSUME NEW x \in Int, NEW n \in 1 .. XLEN PROVE SignExtend(x, n) \in Word
<1> DEFINE low == x % 2^n
<1>1. 2^n \in Nat \ {0} /\ 2^(n - 1) \in Nat \ {0}
  BY Powers
<1>2. low \in Int
  BY <1>1
<1>3. (IF low >= 2^(n - 1) THEN low - 2^n ELSE low) \in Int
  BY <1>1, <1>2
<1> QED BY <1>3, UIsWord DEF SignExtend

LEMMA ShiftsAreWords ==
  ASSUME NEW a \in Word, NEW b \in Word
  PROVE  /\ Sll(a, Shamt(b)) \in Word
         /\ Srl(a, Shamt(b)) \in Word
         /\ Sra(a, Shamt(b)) \in Word
<1> DEFINE s == Shamt(b)
<1>1. s \in 0 .. (XLEN - 1)
  BY Powers DEF Shamt, Word
<1>2. 2^s \in Nat \ {0}
  BY <1>1, Powers
<1> HIDE DEF s
<1>3. Sll(a, s) \in Word
  <2>1. a * 2^s \in Int
    BY <1>2, WordIsInt
  <2> QED BY <2>1, UIsWord DEF Sll
<1>4. Srl(a, s) \in Word
  BY <1>2, Powers DEF Srl, Word
<1>5. Sra(a, s) \in Word
  <2>1. Signed(a) \div 2^s \in Int
    BY <1>2, SignedIsInt
  <2> QED BY <2>1, UIsWord DEF Sra
<1> QED BY <1>3, <1>4, <1>5 DEF s
----------------------------------------------------------------------------
(* Datapath.                                                               *)

LEMMA AluIsWord ==
  ASSUME NEW op \in AluOps, NEW a \in Word, NEW b \in Word
  PROVE  alu(op, a, b) \in Word
<1>1. U(a + b) \in Word /\ U(a - b) \in Word
  <2>1. a + b \in Int /\ a - b \in Int
    BY WordIsInt
  <2> QED BY <2>1, UIsWord
<1>2. 0 \in Word /\ 1 \in Word
  BY SmallIsWord
<1>3. /\ BitAnd(a, b) \in Word
      /\ BitOr(a, b) \in Word
      /\ BitXor(a, b) \in Word
  BY BitwiseAssumption
<1> QED BY <1>1, <1>2, <1>3, ShiftsAreWords DEF alu, AluOps

LEMMA BranchIsBoolean ==
  ASSUME NEW f \in 0 .. 7, NEW a \in Word, NEW b \in Word
  PROVE  branch_taken(f, a, b) \in BOOLEAN
BY SignedIsInt, WordIsInt DEF branch_taken

\* The lanes of a word start at a natural number and have a positive width.
LEMMA Lanes ==
  /\ ByteBits \in 1 .. XLEN /\ HalfBits \in 1 .. XLEN
  /\ \A lane \in 0 .. 3 : /\ lane * ByteBits \in 0 .. (XLEN - 1)
                          /\ (lane \div 2) * HalfBits \in 0 .. (XLEN - 1)
<1>1. XLEN \in Nat \ {0} /\ XLEN % 4 = 0
  BY WidthAssumption
<1>2. ByteBits \in 1 .. XLEN /\ 4 * ByteBits = XLEN
  BY <1>1 DEF ByteBits
<1>3. HalfBits \in 1 .. XLEN /\ 2 * HalfBits = XLEN
  BY <1>1 DEF HalfBits
<1>4. ASSUME NEW lane \in 0 .. 3
      PROVE  /\ lane * ByteBits \in 0 .. (XLEN - 1)
             /\ (lane \div 2) * HalfBits \in 0 .. (XLEN - 1)
  <2>1. lane = 0 \/ lane = 1 \/ lane = 2 \/ lane = 3
    OBVIOUS
  <2>2. lane * ByteBits \in 0 .. (XLEN - 1)
    BY <2>1, <1>2, <1>1
  <2>3. lane \div 2 = 0 \/ lane \div 2 = 1
    BY <2>1
  <2>4. (lane \div 2) * HalfBits \in 0 .. (XLEN - 1)
    BY <2>3, <1>3, <1>1
  <2> QED BY <2>2, <2>4
<1> QED BY <1>2, <1>3, <1>4

\* What a byte or half-word lane of a word holds.
LEMMA LaneIsWord ==
  ASSUME NEW w \in Word, NEW lane \in 0 .. 3
  PROVE  byte_sel(w, lane) \in Word /\ half_sel(w, lane) \in Word
<1>1. ASSUME NEW shift \in 0 .. (XLEN - 1), NEW width \in 1 .. XLEN
      PROVE  (w \div 2^shift) % 2^width \in Word
  <2>1. 2^shift \in Nat \ {0} /\ 2^width \in Nat \ {0}
    BY Powers
  <2>2. w \div 2^shift \in Nat
    BY <2>1, WordIsInt
  <2>3. CASE width = XLEN
    BY <2>2, <2>3, Powers DEF Word
  <2>4. CASE width # XLEN
    <3>1. 2^width < 2^XLEN
      BY <2>4, Powers
    <3>2. (w \div 2^shift) % 2^width \in 0 .. (2^width - 1)
      BY <2>1, <2>2
    <3> QED BY <3>1, <3>2, <2>1, Powers DEF Word
  <2> QED BY <2>3, <2>4
<1> QED BY <1>1, Lanes DEF byte_sel, half_sel

LEMMA LoadIsWord ==
  ASSUME NEW w \in Word, NEW lane \in 0 .. 3, NEW f \in 0 .. 7
  PROVE  load_data(w, lane, f) \in Word
<1>1. byte_sel(w, lane) \in Word /\ half_sel(w, lane) \in Word
  BY LaneIsWord
<1>2. /\ SignExtend(byte_sel(w, lane), ByteBits) \in Word
      /\ SignExtend(half_sel(w, lane), HalfBits) \in Word
  BY <1>1, Lanes, WordIsInt, SignExtendIsWord
<1> QED BY <1>1, <1>2 DEF load_data

LEMMA MaskIsWord ==
  ASSUME NEW w \in Word, NEW f \in 0 .. 7 PROVE wmask_data(f, w) \in Word
<1>1. ASSUME NEW width \in 1 .. XLEN PROVE w % 2^width \in Word
  <2>1. 2^width \in Nat \ {0} /\ w \in Nat
    BY Powers, WordIsInt
  <2>2. w % 2^width \in 0 .. w
    BY <2>1
  <2> QED BY <2>1, <2>2, Powers DEF Word
<1> QED BY <1>1, Lanes DEF wmask_data

LEMMA StoreIsWord ==
  ASSUME NEW w \in Word, NEW lane \in 0 .. 3, NEW f \in 0 .. 7, NEW v \in Word
  PROVE  store_lanes(w, lane, f, v) \in Word
<1>1. ASSUME NEW shift \in 0 .. (XLEN - 1), NEW old \in Word, NEW new \in Word
      PROVE  replace(w, shift, old, new) \in Word
  <2>1. 2^shift \in Int /\ w \in Int /\ old \in Int /\ new \in Int
    BY Powers, WordIsInt
  <2>2. w + (new - old) * 2^shift \in Int
    BY <2>1
  <2> QED BY <2>2, UIsWord DEF replace
<1>2. byte_sel(w, lane) \in Word /\ half_sel(w, lane) \in Word
  BY LaneIsWord
<1>3. wmask_data(f, v) \in Word
  BY MaskIsWord
<1>4. /\ replace(w, lane * ByteBits, byte_sel(w, lane), wmask_data(f, v)) \in Word
      /\ replace(w, (lane \div 2) * HalfBits, half_sel(w, lane),
                 wmask_data(f, v)) \in Word
  BY <1>1, <1>2, <1>3, Lanes
<1> QED BY <1>4 DEF store_lanes

LEMMA CsrViewIsWord ==
  ASSUME NEW c \in Csrs, NEW addr
  PROVE  csr_view(c, addr) \in Word
<1>1. MEIE_BIT \in 0 .. (XLEN - 1) /\ MIE_BIT \in 0 .. (XLEN - 1)
      /\ MPIE_BIT \in 0 .. (XLEN - 1)
  BY CsrBitsAssumption, Powers DEF MIE_BIT, MPIE_BIT
<1>2. /\ AtBit(c.mstatus_mpie, MPIE_BIT) \in Word
      /\ AtBit(c.mstatus_mie, MIE_BIT) \in Word
      /\ AtBit(c.mie_meie, MEIE_BIT) \in Word
  BY <1>1, AtBitIsWord DEF Csrs
<1>3. U(AtBit(c.mstatus_mpie, MPIE_BIT) + AtBit(c.mstatus_mie, MIE_BIT)) \in Word
  <2>1. AtBit(c.mstatus_mpie, MPIE_BIT) + AtBit(c.mstatus_mie, MIE_BIT) \in Int
    BY <1>2, WordIsInt
  <2> QED BY <2>1, UIsWord
<1>4. WordAlign(c.mtvec) \in Word /\ WordAlign(c.mepc) \in Word
      /\ c.mcause \in Word
  BY AlignIsWord DEF Csrs
<1>5. 0 \in Word
  BY SmallIsWord
<1> QED BY <1>2, <1>3, <1>4, <1>5 DEF csr_view

LEMMA CsrWvalIsWord ==
  ASSUME NEW op \in 0 .. 3, NEW old \in Word, NEW src \in Word
  PROVE  csr_wval(op, old, src) \in Word
BY BitwiseAssumption, BitNotIsWord DEF csr_wval

LEMMA CsrTrapIsCsrs ==
  ASSUME NEW c \in Csrs, NEW w \in Word, NEW cause \in Word
  PROVE  csr_trap(c, w, cause) \in Csrs
<1>1. WordAlign(w) \in Word
  BY AlignIsWord
<1> QED BY <1>1, Zenon DEF csr_trap, Csrs

LEMMA CsrMretIsCsrs == ASSUME NEW c \in Csrs PROVE csr_mret(c) \in Csrs
BY Zenon DEF csr_mret, Csrs

LEMMA CsrFlagsAreCsrs ==
  ASSUME NEW c \in Csrs
  PROVE  \A p, q \in BOOLEAN :
           [c EXCEPT !.mstatus_mie = p, !.mstatus_mpie = q] \in Csrs
BY Zenon DEF Csrs

LEMMA CsrEnableIsCsrs ==
  ASSUME NEW c \in Csrs
  PROVE  \A p \in BOOLEAN : [c EXCEPT !.mie_meie = p] \in Csrs
BY Zenon DEF Csrs

LEMMA CsrWriteIsCsrs ==
  ASSUME NEW c \in Csrs, NEW addr, NEW w \in Word
  PROVE  csr_write(c, addr, w) \in Csrs
<1>1. WordAlign(w) \in Word
  BY AlignIsWord
<1>2. /\ Bit(w, MIE_BIT) \in BOOLEAN
      /\ Bit(w, MPIE_BIT) \in BOOLEAN
      /\ Bit(w, MEIE_BIT) \in BOOLEAN
  BY DEF Bit
<1>3. [c EXCEPT !.mstatus_mie = Bit(w, MIE_BIT),
                !.mstatus_mpie = Bit(w, MPIE_BIT)] \in Csrs
  BY <1>2, CsrFlagsAreCsrs
<1>4. [c EXCEPT !.mie_meie = Bit(w, MEIE_BIT)] \in Csrs
  BY <1>2, CsrEnableIsCsrs
<1>5. [c EXCEPT !.mtvec = WordAlign(w)] \in Csrs
  BY <1>1 DEF Csrs
<1>6. [c EXCEPT !.mepc = WordAlign(w)] \in Csrs
  BY <1>1 DEF Csrs
<1>7. [c EXCEPT !.mcause = w] \in Csrs
  BY DEF Csrs
<1> QED BY <1>3, <1>4, <1>5, <1>6, <1>7 DEF csr_write

LEMMA UpdateNextInRange ==
  ASSUME NEW s \in BhtState, NEW taken \in BOOLEAN
  PROVE  update_next(s, taken) \in BhtState
BY DEF update_next, BhtState

----------------------------------------------------------------------------
(* The decoder.                                                            *)

LEMMA ImmIsWord ==
  ASSUME NEW i \in Instruction, NEW ctl \in ControlWord
  PROVE  imm_gen(i, ctl) \in Word
BY RegAssumption, Powers DEF imm_gen, Instruction, Reg, Word

LEMMA FlushValues ==
  /\ ZERO_INST \in Instruction
  /\ NOP_INST \in Instruction
  /\ ZERO_CONTROL \in ControlWord
  /\ 0 \in Reg
<1>1. 0 \in Reg /\ 0 \in Word
  BY RegAssumption, SmallIsWord DEF Reg
<1>2. ZERO_INST \in Instruction
  BY <1>1 DEF ZERO_INST, Instruction
<1>3. NOP_INST \in Instruction
  BY <1>2 DEF NOP_INST, Instruction, OP_IARITH
<1>4. ZERO_CONTROL \in ControlWord
  BY ZeroIsControlWord
<1> QED BY <1>1, <1>2, <1>3, <1>4

----------------------------------------------------------------------------
(* Type correctness.                                                       *)

LEMMA Indices ==
  ASSUME NEW a \in Word
  PROVE  /\ imem_index(a) \in 0 .. (IMEM_WORDS - 1)
         /\ dmem_index(a) \in 0 .. (DMEM_WORDS - 1)
         /\ bht_index(a) \in BhtEntry
<1>1. a \div 4 \in Nat
  BY WordIsInt
<1> QED BY <1>1, SizeAssumption DEF imem_index, dmem_index, bht_index, BhtEntry

LEMMA RegisterConstants ==
  /\ IF_ID_ZERO \in IF_ID
  /\ ID_EX_ZERO \in ID_EX
  /\ EX_MEM_ZERO \in EX_MEM
  /\ MEM_WB_ZERO \in MEM_WB
  /\ ResetCsrs \in Csrs
<1>1. 0 \in Word /\ 0 \in BhtState
  BY SmallIsWord DEF BhtState
<1>2. /\ ZERO_INST \in Instruction
      /\ ZERO_CONTROL \in ControlWord
      /\ "ALU" \in WbSels
  BY FlushValues DEF WbSels
<1>3. IF_ID_ZERO \in IF_ID
  BY <1>1 DEF IF_ID_ZERO, IF_ID
<1>4. ID_EX_ZERO \in ID_EX
  BY <1>1, <1>2 DEF ID_EX_ZERO, ID_EX
<1>5. EX_MEM_ZERO \in EX_MEM
  BY <1>1, <1>2 DEF EX_MEM_ZERO, EX_MEM
<1>6. MEM_WB_ZERO \in MEM_WB
  BY <1>1, <1>2 DEF MEM_WB_ZERO, MEM_WB
<1>7. ResetCsrs \in Csrs
  BY <1>1 DEF ResetCsrs, Csrs
<1> QED BY <1>3, <1>4, <1>5, <1>6, <1>7

\* The fields of the instruction records that index something.
LEMMA InstructionFields ==
  ASSUME NEW i \in Instruction
  PROVE  /\ i.rd \in Reg /\ i.rs1 \in Reg /\ i.rs2 \in Reg
         /\ i.funct3 \in 0 .. 7 /\ i.funct3 % 4 \in 0 .. 3
         /\ i.csr \in 0 .. 4095 /\ i.imm \in Word
BY DEF Instruction

\* The wires of WB and ID.
LEMMA WbIdWires ==
  ASSUME TypeOK
  PROVE  /\ wb_data \in Word
         /\ id_inst \in Instruction
         /\ id_ctl \in ControlWord
         /\ id_imm \in Word
         /\ id_rs1_val \in Word /\ id_rs2_val \in Word
<1>1. wb_data \in Word
  <2>1. dmem_rdata \in Word
    <3>1. latch.rword \in Word /\ latch.raddr_l \in 0 .. 3
          /\ latch.rfunct3 \in 0 .. 7
      BY DEF TypeOK, Latch
    <3> QED BY <3>1, LoadIsWord DEF dmem_rdata
  <2>2. mem_wb.res \in Word
    BY DEF TypeOK, MEM_WB
  <2> QED BY <2>1, <2>2 DEF wb_data
<1>2. id_inst \in Instruction
  BY FlushValues DEF id_inst, TypeOK
<1>3. id_ctl \in ControlWord
  BY <1>2, ControlIsControlWord DEF id_ctl
<1>4. id_imm \in Word
  BY <1>2, <1>3, ImmIsWord DEF id_imm
<1>5. \A r \in Reg : rdata(r) \in Word
  BY <1>1, SmallIsWord DEF rdata, TypeOK
<1>6. id_rs1_val \in Word /\ id_rs2_val \in Word
  BY <1>2, <1>5, InstructionFields DEF id_rs1_val, id_rs2_val
<1> QED BY <1>1, <1>2, <1>3, <1>4, <1>6

\* The wires of EX.
LEMMA ExWires ==
  ASSUME TypeOK
  PROVE  /\ id_ex.pc \in Word /\ id_ex.imm \in Word
         /\ id_ex.inst \in Instruction /\ id_ex.ctl \in ControlWord
         /\ ex_a_val \in Word /\ ex_b_val \in Word /\ ex_store_data \in Word
         /\ alu_y \in Word
         /\ branch_cond \in BOOLEAN
         /\ csr_rdata \in Word /\ csr_wsrc \in Word
         /\ ex_res \in Word
<1>1. /\ id_ex.pc \in Word /\ id_ex.imm \in Word
      /\ id_ex.inst \in Instruction /\ id_ex.ctl \in ControlWord
      /\ id_ex.rs1_val \in Word /\ id_ex.rs2_val \in Word
      /\ ex_mem.res \in Word
  BY DEF TypeOK, ID_EX, EX_MEM
<1>2. ex_a_val \in Word /\ ex_b_val \in Word /\ ex_store_data \in Word
  <2>1. \A sel, val : val \in Word => forwarded(sel, val) \in Word
    BY <1>1, WbIdWires DEF forwarded
  <2> QED BY <1>1, <2>1 DEF ex_a_val, ex_b_val, ex_store_data
<1>3. alu_y \in Word
  <2>1. id_ex.ctl.alu_op \in AluOps
    BY <1>1 DEF ControlWord
  <2>2. (IF id_ex.ctl.alu_src_a THEN id_ex.pc ELSE ex_a_val) \in Word
    BY <1>1, <1>2
  <2>3. (IF id_ex.ctl.alu_src_b THEN id_ex.imm ELSE ex_b_val) \in Word
    BY <1>1, <1>2
  <2> QED BY <2>1, <2>2, <2>3, AluIsWord DEF alu_y
<1>4. branch_cond \in BOOLEAN
  BY <1>1, <1>2, InstructionFields, BranchIsBoolean DEF branch_cond
<1>5. csr_rdata \in Word
  <2>1. csr \in Csrs
    BY DEF TypeOK
  <2>2. csr_view(csr, id_ex.inst.csr) \in Word
    BY <2>1, CsrViewIsWord
  <2> QED BY <2>2, SmallIsWord DEF csr_rdata
<1>6. csr_wsrc \in Word
  BY <1>1, <1>2 DEF csr_wsrc
<1>7. ex_res \in Word
  <2>1. U(id_ex.pc + 4) \in Word
    <3>1. id_ex.pc + 4 \in Int
      BY <1>1, WordIsInt
    <3> QED BY <3>1, UIsWord
  <2> QED BY <1>3, <1>5, <2>1 DEF ex_res
<1> QED BY <1>1, <1>2, <1>3, <1>4, <1>5, <1>6, <1>7

\* The next PC.
LEMMA PcNextIsWord == ASSUME TypeOK PROVE pc_next \in Word
<1>1. csr.mtvec \in Word /\ csr.mepc \in Word /\ if_id.pc \in Word
      /\ pc_q \in Word
  BY DEF TypeOK, Csrs, IF_ID
<1>2. ex_jalr_target \in Word
  BY ExWires, AlignIsWord DEF ex_jalr_target
<1>3. ex_correct_target \in Word
  <2>1. id_ex.pc + id_ex.imm \in Int /\ id_ex.pc + 4 \in Int
    BY ExWires, WordIsInt
  <2>2. U(id_ex.pc + id_ex.imm) \in Word /\ U(id_ex.pc + 4) \in Word
    BY <2>1, UIsWord
  <2> QED BY <2>2 DEF ex_correct_target
<1>4. id_redirect_target \in Word
  <2>1. if_id.pc + id_imm \in Int
    BY <1>1, WbIdWires, WordIsInt
  <2> QED BY <2>1, UIsWord DEF id_redirect_target
<1>5. U(pc_q + 4) \in Word
  <2>1. pc_q + 4 \in Int
    BY <1>1, WordIsInt
  <2> QED BY <2>1, UIsWord
<1> QED BY <1>1, <1>2, <1>3, <1>4, <1>5 DEF pc_next

\* One edge of the clock, with or without the reset, process by process.
LEMMA EdgeTypeOK ==
  ASSUME TypeOK, NEW rst \in BOOLEAN, clock(rst), drive_irq PROVE TypeOK'
<1> USE DEF clock
<1>1. imem' \in Imem /\ if_inst' \in Instruction
  <2>1. imem \in Imem /\ if_inst \in Instruction /\ pc_q \in Word
    BY DEF TypeOK
  <2>2. imem[imem_index(pc_q)] \in Instruction
    BY <2>1, Indices DEF Imem
  <2> QED BY <2>1, <2>2 DEF imem_read
<1>2. irq' \in BOOLEAN
  BY IrqAssumption DEF drive_irq
<1>3. pc_q' \in Word
  BY PcNextIsWord, SmallIsWord DEF pc_reg, TypeOK
<1>4. if_id' \in IF_ID
  <2>1. pc_q \in Word /\ if_id \in IF_ID /\ ctr \in [BhtEntry -> BhtState]
    BY DEF TypeOK
  <2>2. bht_pred_state_if \in BhtState
    BY <2>1, Indices DEF bht_pred_state_if, BhtState, WEAK_NT
  <2>3. [pc |-> pc_q, valid |-> TRUE, pred_state |-> bht_pred_state_if] \in IF_ID
    BY <2>1, <2>2 DEF IF_ID
  <2> QED BY <2>1, <2>3, RegisterConstants DEF if_id_reg
<1>5. id_ex' \in ID_EX
  <2>1. id_ex \in ID_EX /\ if_id.valid \in BOOLEAN /\ if_id.pc \in Word
    BY DEF TypeOK, IF_ID
  <2>2. id_pred_taken \in BOOLEAN
    BY <2>1, WbIdWires DEF id_pred_taken, ControlWord
  <2>3. [valid |-> if_id.valid, pc |-> if_id.pc, inst |-> id_inst,
         rs1_val |-> id_rs1_val, rs2_val |-> id_rs2_val, imm |-> id_imm,
         ctl |-> id_ctl, pred_taken |-> id_pred_taken] \in ID_EX
    BY <2>1, <2>2, WbIdWires DEF ID_EX
  <2> QED BY <2>1, <2>3, RegisterConstants DEF id_ex_reg
<1>6. ex_mem' \in EX_MEM
  <2>1. ex_mem \in EX_MEM /\ id_ex.valid \in BOOLEAN
    BY DEF TypeOK, ID_EX
  <2>2. /\ id_ex.ctl.illegal \in BOOLEAN /\ id_ex.ctl.ebreak \in BOOLEAN
        /\ id_ex.ctl.reg_we \in BOOLEAN /\ id_ex.ctl.mem_re \in BOOLEAN
        /\ id_ex.ctl.mem_we \in BOOLEAN /\ id_ex.ctl.wb_sel \in WbSels
    BY ExWires DEF ControlWord
  <2>3. /\ (id_ex.valid /\ id_ex.ctl.reg_we) \in BOOLEAN
        /\ (id_ex.valid /\ id_ex.ctl.mem_re) \in BOOLEAN
        /\ (id_ex.valid /\ id_ex.ctl.mem_we) \in BOOLEAN
    OBVIOUS
  <2>4. [valid |-> id_ex.valid, illegal |-> id_ex.ctl.illegal,
         pc |-> id_ex.pc, inst |-> id_ex.inst,
         reg_we |-> id_ex.valid /\ id_ex.ctl.reg_we,
         wb_sel |-> id_ex.ctl.wb_sel, res |-> ex_res,
         store_data |-> ex_store_data,
         mem_re |-> id_ex.valid /\ id_ex.ctl.mem_re,
         mem_we |-> id_ex.valid /\ id_ex.ctl.mem_we,
         ebreak |-> id_ex.ctl.ebreak] \in EX_MEM
    BY <2>1, <2>2, <2>3, ExWires DEF EX_MEM
  <2> QED BY <2>1, <2>4, RegisterConstants DEF ex_mem_reg
<1>7. mem_wb' \in MEM_WB
  <2>1. mem_wb \in MEM_WB /\ ex_mem \in EX_MEM
    BY DEF TypeOK
  <2>2. wmask_data(ex_mem.inst.funct3, ex_mem.store_data) \in Word
    BY <2>1, InstructionFields, MaskIsWord DEF EX_MEM
  <2>3. [valid |-> ex_mem.valid, illegal |-> ex_mem.illegal,
         pc |-> ex_mem.pc, inst |-> ex_mem.inst,
         reg_we |-> ex_mem.reg_we, wb_sel |-> ex_mem.wb_sel,
         res |-> ex_mem.res, mem_we |-> ex_mem.mem_we,
         mem_val |-> wmask_data(ex_mem.inst.funct3, ex_mem.store_data),
         ebreak |-> ex_mem.ebreak] \in MEM_WB
    BY <2>1, <2>2 DEF EX_MEM, MEM_WB
  <2> QED BY <2>1, <2>3, RegisterConstants DEF mem_wb_reg
<1>8. regs' \in [Reg -> Word]
  BY WbIdWires DEF regfile, TypeOK
<1>9. dmem' \in Dmem /\ latch' \in Latch
  <2>1. dmem \in Dmem /\ latch \in Latch /\ ex_mem.res \in Word
        /\ ex_mem.store_data \in Word /\ ex_mem.inst.funct3 \in 0 .. 7
    BY InstructionFields DEF TypeOK, EX_MEM
  <2>2. ex_mem.res % 4 \in 0 .. 3
    BY <2>1, WordIsInt
  <2>3. dmem_index(ex_mem.res) \in 0 .. (DMEM_WORDS - 1)
    BY <2>1, Indices
  <2>4. \A w \in Word :
          store_lanes(w, ex_mem.res % 4, ex_mem.inst.funct3,
                      ex_mem.store_data) \in Word
    BY <2>1, <2>2, StoreIsWord
  <2>5. dmem' \in Dmem
    BY <2>1, <2>3, <2>4 DEF dmem_port, Dmem
  <2>6. [rword |-> dmem[dmem_index(ex_mem.res)], raddr_l |-> ex_mem.res % 4,
         rfunct3 |-> ex_mem.inst.funct3] \in Latch
    BY <2>1, <2>2, <2>3 DEF Latch, Dmem
  <2>7. latch' \in Latch
    BY <2>1, <2>6 DEF dmem_port
  <2> QED BY <2>5, <2>7
<1>10. csr' \in Csrs
  <2>1. csr \in Csrs
    BY DEF TypeOK
  <2>2. csr_trap(csr, id_ex.pc, trap_cause) \in Csrs
    <3>1. trap_cause \in Word
      BY CauseAssumption DEF trap_cause
    <3> QED BY <2>1, <3>1, ExWires, CsrTrapIsCsrs
  <2>3. csr_mret(csr) \in Csrs
    BY <2>1, CsrMretIsCsrs
  <2>4. ASSUME NEW w \in Word PROVE csr_write(csr, id_ex.inst.csr, w) \in Csrs
    BY <2>1, CsrWriteIsCsrs
  <2>5. csr_wval(id_ex.inst.funct3 % 4, csr_view(csr, id_ex.inst.csr),
                 csr_wsrc) \in Word
    <3>1. csr_view(csr, id_ex.inst.csr) \in Word
      BY <2>1, CsrViewIsWord
    <3> QED BY <3>1, ExWires, InstructionFields, CsrWvalIsWord
  <2> QED BY <2>1, <2>2, <2>3, <2>4, <2>5, RegisterConstants DEF csr_file
<1>11. ctr' \in [BhtEntry -> BhtState]
  <2>1. ctr \in [BhtEntry -> BhtState] /\ bht_index(id_ex.pc) \in BhtEntry
    BY Indices, ExWires DEF TypeOK
  <2>2. \A s \in BhtState : update_next(s, branch_cond) \in BhtState
    <3>1. branch_cond \in BOOLEAN
      BY ExWires
    <3> QED BY <3>1, UpdateNextInRange, Zenon
  <2>3. [e \in BhtEntry |-> WEAK_NT] \in [BhtEntry -> BhtState]
    BY DEF WEAK_NT, BhtState
  <2> QED BY <2>1, <2>2, <2>3 DEF bht
<1>12. done_r' \in BOOLEAN
  BY DEF done
<1> QED BY <1>1, <1>2, <1>3, <1>4, <1>5, <1>6, <1>7, <1>8, <1>9, <1>10,
           <1>11, <1>12 DEF TypeOK

\* A step of the specification is an edge without the reset.
LEMMA StepTypeOK == TypeOK /\ [Next]_vars => TypeOK'
<1>1. TypeOK /\ UNCHANGED vars => TypeOK'
  BY DEF TypeOK, vars
<1> QED BY <1>1, EdgeTypeOK DEF Next

LEMMA InitTypeOK == Init => TypeOK
<1> SUFFICES ASSUME Init PROVE TypeOK
  OBVIOUS
<1>1. imem \in Imem /\ imem[0] \in Instruction
  BY ContentsAssumption, SizeAssumption DEF Init, Imem
<1>2. 0 \in Word /\ WEAK_NT \in BhtState
  BY SmallIsWord DEF WEAK_NT, BhtState
<1>3. latch \in Latch
  BY ContentsAssumption DEF Init, Latch
<1>4. irq \in BOOLEAN
  BY IrqAssumption DEF Init
<1> QED BY <1>1, <1>2, <1>3, <1>4, RegisterConstants, ContentsAssumption
        DEF Init, TypeOK

\* No adder, shifter, saturating counter, byte lane or extracted immediate
\* leaves the width of the register it is written to.
THEOREM TypeCorrect == Spec => []TypeOK
BY InitTypeOK, StepTypeOK, PTL DEF Spec

----------------------------------------------------------------------------
(* The ebreak shadow.                                                      *)

\* What the control bits of a slot say about the slot: a bubble carries no
\* ebreak, past EX a register write or an ebreak belongs to an instruction,
\* and only a load takes its result from memory.
SlotsCoherent ==
  /\ id_ex.ctl.ebreak => id_ex.valid
  /\ id_ex.ctl.wb_sel = "MEM" => id_ex.ctl.mem_re
  /\ ex_mem.ebreak \/ ex_mem.reg_we => ex_mem.valid
  /\ mem_wb.ebreak \/ mem_wb.reg_we => mem_wb.valid

LEMMA DecodedCoherent ==
  /\ id_ctl.ebreak => if_id.valid
  /\ id_ctl.wb_sel = "MEM" => id_ctl.mem_re
<1>1. ~if_id.valid => ~id_ctl.ebreak
  <2>1. NOP_INST.opcode # OP_SYSTEM
    BY DEF NOP_INST, ZERO_INST, OP_IARITH, OP_SYSTEM
  <2> QED BY <2>1, DecodedFlags DEF id_ctl, id_inst
<1>2. id_ctl.wb_sel = "MEM" => id_ctl.mem_re
  BY DecodedFlags DEF id_ctl
<1> QED BY <1>1, <1>2

LEMMA InitShadow == Init => SlotsCoherent /\ EbreakShadow
BY DEF Init, SlotsCoherent, EbreakShadow, IF_ID_ZERO, ID_EX_ZERO,
       EX_MEM_ZERO, MEM_WB_ZERO, ZERO_CONTROL

LEMMA StepCoherent == SlotsCoherent /\ [Next]_vars => SlotsCoherent'
<1> SUFFICES ASSUME SlotsCoherent, [Next]_vars PROVE SlotsCoherent'
  OBVIOUS
<1>1. CASE UNCHANGED vars
  BY <1>1 DEF SlotsCoherent, vars
<1>2. CASE Next
  <2> USE <1>2 DEF Next, clock, SlotsCoherent
  <2>1. /\ id_ex'.ctl.ebreak => id_ex'.valid
        /\ id_ex'.ctl.wb_sel = "MEM" => id_ex'.ctl.mem_re
    BY DecodedCoherent DEF id_ex_reg, ID_EX_ZERO, ZERO_CONTROL
  <2>2. ex_mem'.ebreak \/ ex_mem'.reg_we => ex_mem'.valid
    BY DEF ex_mem_reg, EX_MEM_ZERO
  <2>3. mem_wb'.ebreak \/ mem_wb'.reg_we => mem_wb'.valid
    BY DEF mem_wb_reg
  <2> QED BY <2>1, <2>2, <2>3
<1> QED BY <1>1, <1>2

LEMMA StepShadow ==
  SlotsCoherent /\ EbreakShadow /\ [Next]_vars => EbreakShadow'
<1> SUFFICES ASSUME SlotsCoherent, EbreakShadow, [Next]_vars
             PROVE  EbreakShadow'
  OBVIOUS
<1>1. CASE UNCHANGED vars
  BY <1>1 DEF EbreakShadow, vars
<1>2. CASE Next /\ halt
  \* Frozen: no pipeline register moves.
  <2>1. /\ if_id' = if_id /\ id_ex' = id_ex
        /\ mem_wb' = mem_wb /\ ex_mem' = ex_mem /\ done_r' = done_r
    BY <1>2 DEF Next, clock, if_id_reg, id_ex_reg, ex_mem_reg, mem_wb_reg,
                done, fetch_en, flush_ex, halt
  <2> QED BY <2>1 DEF EbreakShadow
<1>3. CASE Next /\ ~halt
  \* Wherever the ebreak is, it empties IF/ID and ID/EX at this edge.
  <2>1. ebreak_pending => ~if_id'.valid /\ ~id_ex'.valid
    BY <1>3 DEF Next, clock, if_id_reg, id_ex_reg, flush_if, flush_id,
                IF_ID_ZERO, ID_EX_ZERO
  <2>2. ex_mem'.ebreak => ebreak_pending
    BY <1>3 DEF Next, clock, ex_mem_reg, EX_MEM_ZERO, SlotsCoherent,
                ebreak_pending
  <2>3. mem_wb'.ebreak => ebreak_pending /\ ~ex_mem'.valid
    <3>1. mem_wb'.ebreak => ex_mem.ebreak /\ ex_mem.valid
      BY <1>3 DEF Next, clock, mem_wb_reg, SlotsCoherent
    <3>2. ex_mem.ebreak => ~id_ex.valid
      BY DEF EbreakShadow
    <3>3. ~id_ex.valid => ~ex_mem'.valid
      BY <1>3 DEF Next, clock, ex_mem_reg, EX_MEM_ZERO
    <3> QED BY <3>1, <3>2, <3>3 DEF ebreak_pending
  <2>4. done_r' => ebreak_pending /\ ~ex_mem'.valid /\ ~mem_wb'.valid
    <3>1. done_r' => mem_wb.ebreak /\ mem_wb.valid
      BY <1>3 DEF Next, clock, done, halt
    <3>2. mem_wb.ebreak => ~ex_mem.valid /\ ~id_ex.valid
      BY DEF EbreakShadow
    <3>3. /\ ~id_ex.valid => ~ex_mem'.valid
          /\ ~ex_mem.valid => ~mem_wb'.valid
      BY <1>3 DEF Next, clock, ex_mem_reg, mem_wb_reg, EX_MEM_ZERO
    <3> QED BY <3>1, <3>2, <3>3 DEF ebreak_pending
  <2> QED BY <2>1, <2>2, <2>3, <2>4 DEF EbreakShadow
<1> QED BY <1>1, <1>2, <1>3

\* From the cycle an ebreak leaves EX, no instruction behind it is in the
\* pipeline; the inductive invariant adds only that a bubble is no ebreak.
THEOREM NothingBehindEbreak == Spec => []EbreakShadow
<1>1. SlotsCoherent /\ EbreakShadow /\ [Next]_vars
        => (SlotsCoherent /\ EbreakShadow)'
  BY StepCoherent, StepShadow
<1> QED BY <1>1, InitShadow, PTL DEF Spec

----------------------------------------------------------------------------
(* Bubbles.                                                                *)

\* No two penalties add up: EX is never empty for three cycles running.
THEOREM BubblesAreBounded == Spec => BubblesBounded
<1>1. ASSUME Next, ~done_r, ~ebreak_pending, ~id_ex.valid, ~id_ex'.valid
      PROVE  if_id'.valid /\ ~stall'
  <2>1. ~redirect_ex /\ ~flush_id
    BY <1>1 DEF flush_id, redirect_ex, trap_taken, irq_taken, mret_taken,
                br_redirect, ex_branch_valid, jalr_taken
  <2>2. ~ex_mem'.valid
    BY <1>1 DEF Next, clock, ex_mem_reg, EX_MEM_ZERO, halt
  <2>3. ~stall'
    BY <1>1, <2>2 DEF stall, need_stall, load_use, raw_any, ex_pending_load,
                      ex_pending_write, mem_pending_write
  <2>4. CASE if_id.valid
    <3>1. stall
      BY <1>1, <2>1, <2>4 DEF Next, clock, id_ex_reg, halt
    <3>2. ~redirect_id /\ ~redirect
      BY <3>1, <2>1 DEF redirect, redirect_id, jal_taken, bht_taken
    <3> QED BY <1>1, <2>1, <2>3, <2>4, <3>1, <3>2
            DEF Next, clock, if_id_reg, flush_if, fetch_en
  <2>5. CASE ~if_id.valid
    <3>1. ~stall /\ ~redirect_id
      BY <2>5 DEF stall, redirect_id, jal_taken, bht_taken, id_pred_taken
    <3> QED BY <1>1, <2>1, <2>3, <3>1
            DEF Next, clock, if_id_reg, flush_if, fetch_en, halt
  <2> QED BY <2>4, <2>5
<1>2. [Next]_vars => [ ~done_r /\ ~ebreak_pending /\ ~id_ex.valid /\ ~id_ex'.valid
                         => if_id'.valid /\ ~stall' ]_vars
  BY <1>1
<1> QED BY <1>2, PTL DEF Spec, BubblesBounded

----------------------------------------------------------------------------
(* Operands.                                                               *)

\* The instruction in EX reads register r.
reads(r) == \/ uses_rs1(id_ex.inst, id_ex.ctl) /\ id_ex.inst.rs1 = r
            \/ uses_rs2(id_ex.inst) /\ id_ex.inst.rs2 = r

\* What the interlock guarantees about an instruction in EX: with forwarding
\* it does not follow a load of one of its sources, without forwarding
\* neither MEM nor WB is about to write one.  Its own copies of the sources
\* are those of the register file.
Interlocked ==
  id_ex.valid =>
    /\ id_ex.rs1_val = (IF id_ex.inst.rs1 = 0 THEN 0 ELSE regs[id_ex.inst.rs1])
    /\ id_ex.rs2_val = (IF id_ex.inst.rs2 = 0 THEN 0 ELSE regs[id_ex.inst.rs2])
    /\ FORWARDING =>
         ~(ex_mem.reg_we /\ ex_mem.inst.rd # 0 /\ ex_mem.wb_sel = "MEM"
           /\ reads(ex_mem.inst.rd))
    /\ ~FORWARDING =>
         /\ ~(ex_mem.reg_we /\ ex_mem.inst.rd # 0 /\ reads(ex_mem.inst.rd))
         /\ ~(mem_wb.reg_we /\ mem_wb.inst.rd # 0 /\ reads(mem_wb.inst.rd))

\* The inductive invariant.
OperandInv == TypeOK /\ SlotsCoherent /\ EbreakShadow /\ Interlocked

\* The value the bypass of regfile.v reads is the one the register file
\* holds after the edge.
LEMMA BypassReadsNext ==
  ASSUME TypeOK, regfile, NEW r \in Reg
  PROVE  rdata(r) = (IF r = 0 THEN 0 ELSE regs'[r])
BY DEF TypeOK, regfile, rdata, wb_reg_we

\* What a stall that did not happen says about EX and MEM.
LEMMA NoStallNoHazard ==
  ASSUME if_id.valid, ~stall, ~redirect_ex, ~ebreak_pending, NEW rd, match(rd)
  PROVE  /\ FORWARDING =>
              ~(id_ex.valid /\ id_ex.ctl.mem_re /\ id_ex.inst.rd # 0
                /\ id_ex.inst.rd = rd)
         /\ ~FORWARDING =>
              /\ ~(id_ex.valid /\ id_ex.ctl.reg_we /\ id_ex.inst.rd # 0
                   /\ id_ex.inst.rd = rd)
              /\ ~(ex_mem.valid /\ ex_mem.reg_we /\ ex_mem.inst.rd # 0
                   /\ ex_mem.inst.rd = rd)
BY DEF stall, need_stall, load_use, raw_any, ex_pending_load,
       ex_pending_write, mem_pending_write

LEMMA StepInterlocked == OperandInv /\ [Next]_vars => Interlocked'
<1> SUFFICES ASSUME OperandInv, [Next]_vars PROVE Interlocked'
  OBVIOUS
<1> USE DEF OperandInv
<1>1. CASE UNCHANGED vars
  BY <1>1 DEF Interlocked, reads, vars
<1>2. CASE Next
  <2>1. SUFFICES ASSUME id_ex'.valid PROVE Interlocked'
    BY DEF Interlocked
  <2>2. ~halt
    BY <1>2, <2>1 DEF Next, clock, id_ex_reg, halt, EbreakShadow, ID_EX_ZERO
  <2>3. /\ if_id.valid /\ ~stall /\ ~flush_id
        /\ id_ex'.inst = id_inst /\ id_ex'.ctl = id_ctl
        /\ id_ex'.rs1_val = id_rs1_val /\ id_ex'.rs2_val = id_rs2_val
    BY <1>2, <2>1, <2>2 DEF Next, clock, id_ex_reg, ID_EX_ZERO
  <2>4. ~redirect_ex /\ ~ebreak_pending /\ ~flush_ex
    BY <2>3 DEF flush_id, flush_ex, redirect_ex
  <2>5. \A r : reads(r)' => match(r)
    BY <2>3 DEF reads, match
  <2>6. /\ ex_mem'.reg_we = (id_ex.valid /\ id_ex.ctl.reg_we)
        /\ ex_mem'.inst = id_ex.inst
        /\ ex_mem'.wb_sel = id_ex.ctl.wb_sel
        /\ mem_wb'.reg_we = ex_mem.reg_we
        /\ mem_wb'.inst = ex_mem.inst
    BY <1>2, <2>2, <2>4 DEF Next, clock, ex_mem_reg, mem_wb_reg
  <2>7. id_inst.rs1 \in Reg /\ id_inst.rs2 \in Reg
    BY WbIdWires, InstructionFields
  <2>8. /\ id_ex'.rs1_val = (IF id_ex'.inst.rs1 = 0 THEN 0
                             ELSE regs'[id_ex'.inst.rs1])
        /\ id_ex'.rs2_val = (IF id_ex'.inst.rs2 = 0 THEN 0
                             ELSE regs'[id_ex'.inst.rs2])
    BY <1>2, <2>3, <2>7, BypassReadsNext
       DEF Next, clock, id_rs1_val, id_rs2_val
  <2>9. FORWARDING =>
          ~(ex_mem'.reg_we /\ ex_mem'.inst.rd # 0 /\ ex_mem'.wb_sel = "MEM"
            /\ reads(ex_mem.inst.rd)')
    BY <2>3, <2>4, <2>5, <2>6, NoStallNoHazard DEF SlotsCoherent
  <2>10. ~FORWARDING =>
          /\ ~(ex_mem'.reg_we /\ ex_mem'.inst.rd # 0
               /\ reads(ex_mem.inst.rd)')
          /\ ~(mem_wb'.reg_we /\ mem_wb'.inst.rd # 0
               /\ reads(mem_wb.inst.rd)')
    BY <2>3, <2>4, <2>5, <2>6, NoStallNoHazard DEF SlotsCoherent
  <2> QED BY <2>8, <2>9, <2>10 DEF Interlocked
<1> QED BY <1>1, <1>2

LEMMA InterlockGivesOperands == OperandInv => OperandsAreArchitectural
<1> SUFFICES ASSUME OperandInv, id_ex.valid PROVE OperandsAreArchitectural
  BY DEF OperandsAreArchitectural
<1> USE DEF OperandInv
<1>1. ~halt
  BY DEF EbreakShadow, halt
<1>2. ASSUME NEW r \in Reg, NEW val, reads(r),
             val = (IF r = 0 THEN 0 ELSE regs[r])
      PROVE  forwarded(fwd(r), val) = (IF r = 0 THEN 0 ELSE abs_regs[r])
  <2> DEFINE in_mem == ex_mem.reg_we /\ ex_mem.inst.rd # 0 /\ ex_mem.inst.rd = r
             in_wb  == mem_wb.reg_we /\ mem_wb.inst.rd # 0 /\ mem_wb.inst.rd = r
  <2>1. r # 0 => abs_regs[r] = (IF in_mem THEN mem_result
                                ELSE IF in_wb THEN wb_data ELSE regs[r])
    BY <1>1 DEF abs_regs, wb_reg_we, wb_rd_addr, SlotsCoherent
  <2>2. CASE FORWARDING
    <3>1. CASE in_mem
      <4>1. ex_mem.wb_sel # "MEM"
        BY <1>2, <2>2, <3>1 DEF Interlocked
      <4>2. fwd(r) = "MEM"
        BY <2>2, <3>1 DEF fwd, mem_writes
      <4> QED BY <2>1, <3>1, <4>1, <4>2 DEF forwarded, mem_result
    <3>2. CASE ~in_mem /\ in_wb
      <4>1. fwd(r) = "WB"
        BY <2>2, <3>2 DEF fwd, mem_writes, wb_writes
      <4> QED BY <2>1, <3>2, <4>1 DEF forwarded
    <3>3. CASE ~in_mem /\ ~in_wb
      <4>1. fwd(r) = "REG"
        BY <2>2, <3>3 DEF fwd, mem_writes, wb_writes
      <4> QED BY <1>2, <2>1, <3>3, <4>1 DEF forwarded
    <3> QED BY <3>1, <3>2, <3>3
  <2>3. CASE ~FORWARDING
    <3>1. ~in_mem /\ ~in_wb
      BY <1>2, <2>3 DEF Interlocked
    <3>2. fwd(r) = "REG"
      BY <2>3 DEF fwd, mem_writes, wb_writes
    <3> QED BY <1>2, <2>1, <3>1, <3>2 DEF forwarded
  <2> QED BY <2>2, <2>3
<1>3. id_ex.inst.rs1 \in Reg /\ id_ex.inst.rs2 \in Reg
  BY ExWires, InstructionFields
<1>4. uses_rs1(id_ex.inst, id_ex.ctl) =>
        ex_a_val = (IF id_ex.inst.rs1 = 0 THEN 0 ELSE abs_regs[id_ex.inst.rs1])
  BY <1>2, <1>3 DEF reads, ex_a_val, fwd_a, Interlocked
<1>5. uses_rs2(id_ex.inst) =>
        LET rs2_val == IF id_ex.inst.rs2 = 0 THEN 0
                       ELSE abs_regs[id_ex.inst.rs2]
        IN  ex_b_val = rs2_val /\ ex_store_data = rs2_val
  BY <1>2, <1>3 DEF reads, ex_b_val, ex_store_data, fwd_b, fwd_c, Interlocked
<1> QED BY <1>4, <1>5 DEF OperandsAreArchitectural

LEMMA InitInterlocked == Init => Interlocked
BY DEF Init, Interlocked, ID_EX_ZERO

\* With and without forwarding, for every program, every operand an
\* instruction reads in EX is the architectural value of its register.
THEOREM OperandsCorrect == Spec => []OperandsAreArchitectural
<1>1. Init => OperandInv
  BY InitTypeOK, InitShadow, InitInterlocked DEF OperandInv
<1>2. OperandInv /\ [Next]_vars => OperandInv'
  BY StepTypeOK, StepCoherent, StepShadow, StepInterlocked DEF OperandInv
<1> QED BY <1>1, <1>2, InterlockGivesOperands, PTL DEF Spec

----------------------------------------------------------------------------
(* Program order in the front end.                                         *)

\* The control bits of an instruction in EX are those its word decodes to.
Decoded == id_ex.valid => id_ex.ctl = control(id_ex.inst)

\* Behind an instruction that has just left ID stands the one fetched after
\* it, or the bubble of the redirect it made there.
Followed ==
  id_ex.valid => (if_id.valid <=> ~(id_ex.ctl.jal \/ id_ex.pred_taken))

FrontInv == TypeOK /\ SlotsCoherent /\ EbreakShadow /\ Decoded /\ Followed

LEMMA StepDecoded ==
  EbreakShadow /\ Decoded /\ [Next]_vars => Decoded'
<1> SUFFICES ASSUME EbreakShadow, Decoded, [Next]_vars PROVE Decoded'
  OBVIOUS
<1>1. CASE UNCHANGED vars
  BY <1>1 DEF Decoded, vars
<1>2. CASE Next
  BY <1>2 DEF Next, clock, id_ex_reg, Decoded, ID_EX_ZERO, id_ctl
<1> QED BY <1>1, <1>2

LEMMA StepFollowed ==
  EbreakShadow /\ Followed /\ [Next]_vars => Followed'
<1> SUFFICES ASSUME EbreakShadow, Followed, [Next]_vars PROVE Followed'
  OBVIOUS
<1>1. CASE UNCHANGED vars
  BY <1>1 DEF Followed, vars
<1>2. CASE Next
  <2>1. SUFFICES ASSUME id_ex'.valid
                 PROVE  if_id'.valid <=> ~(id_ex'.ctl.jal \/ id_ex'.pred_taken)
    BY DEF Followed
  <2>2. ~halt
    BY <1>2, <2>1 DEF Next, clock, id_ex_reg, halt, EbreakShadow, ID_EX_ZERO
  <2>3. /\ if_id.valid /\ ~stall /\ ~flush_id
        /\ id_ex'.ctl = id_ctl /\ id_ex'.pred_taken = id_pred_taken
    BY <1>2, <2>1, <2>2 DEF Next, clock, id_ex_reg, ID_EX_ZERO
  <2>4. ~redirect_ex /\ ~ebreak_pending
    BY <2>3 DEF flush_id
  <2>5. redirect_id <=> (id_ex'.ctl.jal \/ id_ex'.pred_taken)
    BY <2>3, <2>4 DEF redirect_id, jal_taken, bht_taken, id_pred_taken
  <2>6. if_id'.valid <=> ~redirect_id
    BY <1>2, <2>2, <2>3, <2>4
       DEF Next, clock, if_id_reg, flush_if, fetch_en, IF_ID_ZERO
  <2> QED BY <2>5, <2>6
<1> QED BY <1>1, <1>2

LEMMA FrontInductive ==
  /\ Init => FrontInv
  /\ FrontInv /\ [Next]_vars => FrontInv'
<1>1. Init => Decoded /\ Followed
  BY DEF Init, Decoded, Followed, ID_EX_ZERO
<1> QED BY <1>1, InitTypeOK, InitShadow, StepTypeOK, StepCoherent, StepShadow,
           StepDecoded, StepFollowed DEF FrontInv
=============================================================================
