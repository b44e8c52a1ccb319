--------------------------- MODULE ComposedProofs ---------------------------
(***************************************************************************)
(* Theorems about the pipeline in its surroundings: with resets at any     *)
(* edge (Reset.tla) and with the performance counters (Perf.tla), for every *)
(* program, interrupt schedule, size and setting of the two parameters.    *)
(***************************************************************************)
EXTENDS Reset, Perf, RefinementProofs, FiniteSetTheorems

----------------------------------------------------------------------------
(* Resets.                                                                 *)

\* No instruction writes a register and the memory.
LEMMA StoresWriteNoRegister ==
  ASSUME NEW i PROVE control(i).mem_we => ~control(i).reg_we
<1>1. CASE ~legal(i)
  <2>1. Flags(control(i), FALSE, FALSE, FALSE, FALSE, FALSE)
    BY <1>1, ControlCases, RowEffects, Zenon
  <2> QED BY <2>1, Zenon DEF Flags
<1>2. CASE legal(i) /\ i.opcode \in Opcodes \ {OP_SYSTEM}
  <2>1. control(i) \in {r_ctl(alu_op(i)), iarith_ctl(alu_op(i)), load_ctl, store_ctl,
                        branch_ctl, lui_ctl, auipc_ctl, jal_ctl, jalr_ctl}
    BY <1>2, ControlCases, Zenon DEF Opcodes
  <2> QED BY <2>1, RowEffects, Zenon DEF Flags
<1>3. CASE legal(i) /\ i.opcode = OP_SYSTEM /\ i.funct3 = 0
  <2>1. ASSUME NEW p \in BOOLEAN, NEW q \in BOOLEAN, NEW r \in BOOLEAN
        PROVE  fixed_ctl(p, q, r).mem_we = FALSE
    BY DEF fixed_ctl, ZERO_CONTROL
  <2>2. control(i) = fixed_ctl(i.csr = CSR_MRET, i.csr = CSR_ECALL, i.csr = CSR_EBREAK)
    BY <1>3, SystemCases, Zenon
  <2> QED BY <2>1, <2>2, Zenon
<1>4. CASE legal(i) /\ i.opcode = OP_SYSTEM /\ i.funct3 # 0
  <2>1. \A sel, we, imm : csr_ctl(sel, we, imm).mem_we = FALSE
    BY DEF csr_ctl, ZERO_CONTROL
  <2>2. i.funct3 \in {1, 2, 3} \/ i.funct3 \in {5, 6, 7}
    BY <1>4, LegalOpcode
  <2>3. PICK sel, we, imm : control(i) = csr_ctl(sel, we, imm)
    BY <1>4, <2>2, SystemCases, Zenon
  <2> QED BY <2>1, <2>3, Zenon
<1> QED BY <1>1, <1>2, <1>3, <1>4, LegalOpcode

\* The register file with the write that WB presents.
written_back ==
  [r \in Reg |-> IF wb_reg_we /\ wb_rd_addr = r THEN wb_data ELSE regs[r]]

\* What MEM has still to do is one write, and what the instruction there
\* found is what WB and the memory hold without it.
OneWrite == ex_mem.mem_we => ~ex_mem.reg_we

FoundByLast == ex_mem.valid => before = <<written_back, dmem>>

\* The inductive invariant.
ResetInv == RefInv /\ OneWrite /\ FoundByLast

\* The registers of the edge of a reset.
LEMMA ResetEdge ==
  ASSUME RefInv, clock(TRUE)
  PROVE  /\ imem' = imem /\ pc_q' = 0 /\ if_id' = IF_ID_ZERO /\ id_ex' = ID_EX_ZERO
         /\ ex_mem' = EX_MEM_ZERO /\ mem_wb' = MEM_WB_ZERO
         /\ csr' = ResetCsrs /\ done_r' = FALSE
         /\ regs' = written_back /\ dmem' = abs_dmem
<1>a. TypeOK /\ EbreakShadow /\ Accesses
  BY DEF RefInv, OperandInv
<1> USE DEF clock
<1>1. /\ imem' = imem /\ pc_q' = 0 /\ if_id' = IF_ID_ZERO /\ id_ex' = ID_EX_ZERO
      /\ ex_mem' = EX_MEM_ZERO /\ mem_wb' = MEM_WB_ZERO
  BY DEF imem_read, pc_reg, if_id_reg, id_ex_reg, ex_mem_reg, mem_wb_reg
<1>2. csr' = ResetCsrs /\ done_r' = FALSE
  BY DEF csr_file, done
<1>3. regs' = written_back
  BY <1>a DEF regfile, written_back, TypeOK
<1>4. dmem' = abs_dmem
  <2>1. ex_mem.mem_we => ~halt
    BY <1>a DEF Accesses, EbreakShadow, halt
  <2> QED BY <2>1 DEF dmem_port, abs_dmem
<1> QED BY <1>1, <1>2, <1>3, <1>4

\* No register holds anything of what was fetched before.
LEMMA ResetKeepsRefInv ==
  ASSUME RefInv, clock(TRUE), drive_irq PROVE RefInv'
<1>1. TypeOK'
  BY EdgeTypeOK DEF RefInv, OperandInv
<1>2. /\ imem' = imem /\ if_id'.valid = FALSE
      /\ id_ex'.valid = FALSE /\ id_ex'.pred_taken = FALSE /\ id_ex'.ctl = ZERO_CONTROL
      /\ ex_mem'.valid = FALSE /\ ex_mem'.ebreak = FALSE /\ ex_mem'.reg_we = FALSE
      /\ ex_mem'.mem_we = FALSE
      /\ mem_wb'.ebreak = FALSE /\ mem_wb'.reg_we = FALSE /\ mem_wb'.valid = FALSE
      /\ done_r' = FALSE /\ csr' = ResetCsrs
  BY ResetEdge DEF IF_ID_ZERO, ID_EX_ZERO, EX_MEM_ZERO, MEM_WB_ZERO
<1>3. ZERO_CONTROL.ebreak = FALSE /\ ZERO_CONTROL.wb_sel # "MEM"
  BY DEF ZERO_CONTROL
<1>4. SlotsCoherent' /\ EbreakShadow'
  BY <1>2, <1>3 DEF SlotsCoherent, EbreakShadow
<1>5. Interlocked' /\ Decoded' /\ Followed'
  BY <1>2 DEF Interlocked, Decoded, Followed
<1>6. Fetched' /\ InOrder'
  BY <1>2 DEF Fetched, InOrder
<1>7. Accesses'
  <2>1. csr'.mtvec % 4 = 0 /\ csr'.mepc % 4 = 0
    BY <1>2 DEF ResetCsrs
  <2> QED BY <1>2, <2>1 DEF Accesses
<1>8. imem' \in PROGRAMS
  BY <1>2 DEF RefInv
<1> QED BY <1>1, <1>4, <1>5, <1>6, <1>7, <1>8 DEF RefInv, OperandInv

\* ResetInv holds initially and every step keeps it.
LEMMA ResetInductive ==
  /\ Init_reset => ResetInv
  /\ ResetInv /\ [Next_reset]_resetVars => ResetInv'
<1>1. Init_reset => ResetInv
  <2>1. Init => OneWrite /\ ~ex_mem.valid
    BY DEF Init, OneWrite, EX_MEM_ZERO
  <2> QED BY <2>1, RefInductive DEF Init_reset, ResetInv, FoundByLast
<1>2. ASSUME ResetInv, [Next_reset]_resetVars PROVE ResetInv'
  <2>a. RefInv /\ OneWrite /\ FoundByLast
    BY <1>2 DEF ResetInv
  <2>1. CASE UNCHANGED resetVars
    <3>1. UNCHANGED vars /\ before' = before
      BY <2>1 DEF resetVars
    <3>2. RefInv'
      BY <2>a, <3>1, RefInductive
    <3>3. /\ ex_mem' = ex_mem /\ mem_wb' = mem_wb /\ regs' = regs /\ dmem' = dmem
          /\ latch' = latch /\ done_r' = done_r
      BY <3>1 DEF vars
    <3>4. written_back' = written_back
      <4>1. wb_data' = IF mem_wb'.wb_sel = "MEM"
                       THEN load_data(latch'.rword, latch'.raddr_l, latch'.rfunct3)
                       ELSE mem_wb'.res
        BY Zenon DEF wb_data, dmem_rdata, load_data
      <4>2. wb_data' = wb_data
        BY <3>3, <4>1, Zenon DEF wb_data, dmem_rdata
      <4> QED BY <3>3, <4>2, Zenon DEF written_back, wb_reg_we, wb_rd_addr, halt
    <3> QED BY <2>a, <3>1, <3>2, <3>3, <3>4 DEF ResetInv, OneWrite, FoundByLast
  <2>2. CASE run_edge /\ drive_irq /\ done_r
    <3>1. Next
      BY <2>2 DEF run_edge, Next
    <3>2. RefInv' /\ ex_mem' = ex_mem
      BY <2>2, <2>a, <3>1, RefInductive, Frozen
    <3>3. ~ex_mem.valid
      BY <2>2, <2>a DEF RefInv, OperandInv, EbreakShadow
    <3> QED BY <2>a, <3>2, <3>3 DEF ResetInv, OneWrite, FoundByLast
  <2>3. CASE run_edge /\ drive_irq /\ ~done_r
    <3>1. Next
      BY <2>3 DEF run_edge, Next
    <3>2. Edge
      BY <2>3, <2>a, <3>1 DEF Edge
    <3>3. RefInv'
      BY <2>a, <3>1, RefInductive
    <3>4. OneWrite'
      <4>1. ex_mem'.mem_we => id_ex.valid /\ id_ex.ctl.mem_we /\ ~trap_taken
        BY <3>2, ExMemEdge, Zenon
      <4>2. ex_mem'.reg_we => id_ex.ctl.reg_we
        BY <3>2, ExMemEdge, Zenon
      <4>3. id_ex.valid => id_ex.ctl = control(id_ex.inst)
        BY <3>2, EdgeFacts DEF Decoded
      <4> QED BY <4>1, <4>2, <4>3, StoresWriteNoRegister, Zenon DEF OneWrite
    <3>5. FoundByLast'
      <4>1. SUFFICES ASSUME ex_mem'.valid PROVE before' = <<written_back', dmem'>>
        BY Zenon DEF FoundByLast
      <4>2. id_ex.valid
        BY <3>2, <4>1, ExMemEdge, Zenon
      <4>3. before' = <<abs_regs, abs_dmem>>
        BY <2>3, <4>2 DEF run_edge, abs_state
      <4>4. dmem' = abs_dmem
        BY <3>2, MemoryEdge
      <4>5. written_back' = abs_regs
        <5>1. written_back' = [r \in Reg |-> IF wb_reg_we' /\ wb_rd_addr' = r THEN wb_data'
                                             ELSE regs'[r]]
          BY Zenon DEF written_back
        <5>2. written_back' = [r \in Reg |-> abs_regs[r]]
          BY <3>2, <5>1, WrittenEdge
        <5> QED BY <3>2, <4>2, <5>2, StateBeforeEx
      <4> QED BY <4>3, <4>4, <4>5
    <3> QED BY <3>3, <3>4, <3>5 DEF ResetInv
  <2>4. CASE reset_edge /\ drive_irq
    <3>1. clock(TRUE)
      BY <2>4 DEF reset_edge
    <3>2. RefInv'
      BY <2>4, <2>a, <3>1, ResetKeepsRefInv
    <3>3. ex_mem'.valid = FALSE /\ ex_mem'.mem_we = FALSE
      BY <2>a, <3>1, ResetEdge DEF EX_MEM_ZERO
    <3> QED BY <3>2, <3>3 DEF ResetInv, OneWrite, FoundByLast
  <2> QED BY <1>2, <2>1, <2>2, <2>3, <2>4 DEF Next_reset
<1> QED BY <1>1, <1>2

\* With resets too, no register leaves its width.
THEOREM ResetTypeCorrect == Spec_reset => []TypeOK
BY ResetInductive, PTL DEF Spec_reset, ResetInv, RefInv, OperandInv

\* A reset never lets anything behind an ebreak take effect, nor an operand
\* come from an instruction that the reset has removed: the bypasses of the
\* restarted program see only its own results.
THEOREM ResetOperandsCorrect ==
  Spec_reset => [](EbreakShadow /\ OperandsAreArchitectural)
BY ResetInductive, InterlockGivesOperands, PTL
   DEF Spec_reset, ResetInv, RefInv, OperandInv

----------------------------------------------------------------------------
(* ResetArch.tla extends Arch.tla: its architecture is the one the pipeline *)
(* refines without resets.                                                 *)

\* Words, CSR bits and lanes.
LEMMA SameWords ==
  ASSUME NEW x, NEW y
  PROVE  /\ Restarted!U(x) = Architecture!U(x)
         /\ Restarted!Signed(x) = Architecture!Signed(x)
         /\ Restarted!Shamt(x) = Architecture!Shamt(x)
         /\ Restarted!Sll(x, y) = Architecture!Sll(x, y)
         /\ Restarted!Srl(x, y) = Architecture!Srl(x, y)
         /\ Restarted!Sra(x, y) = Architecture!Sra(x, y)
         /\ Restarted!WordAlign(x) = Architecture!WordAlign(x)
         /\ Restarted!HalfAlign(x) = Architecture!HalfAlign(x)
         /\ Restarted!SignExtend(x, y) = Architecture!SignExtend(x, y)
         /\ Restarted!AtBit(x, y) = Architecture!AtBit(x, y)
         /\ Restarted!Bit(x, y) = Architecture!Bit(x, y)
         /\ Restarted!BitNot(x) = Architecture!BitNot(x)
         /\ Restarted!ByteBits = Architecture!ByteBits
         /\ Restarted!HalfBits = Architecture!HalfBits
<1>1. /\ Restarted!U(x) = Architecture!U(x)
      /\ Restarted!Signed(x) = Architecture!Signed(x)
  BY Zenon DEF Restarted!U, Architecture!U, Restarted!Signed, Architecture!Signed
<1>2. /\ Restarted!Shamt(x) = Architecture!Shamt(x)
      /\ Restarted!Sll(x, y) = Architecture!Sll(x, y)
      /\ Restarted!Srl(x, y) = Architecture!Srl(x, y)
      /\ Restarted!Sra(x, y) = Architecture!Sra(x, y)
  BY Zenon DEF Restarted!U, Architecture!U, Restarted!Signed, Architecture!Signed,
     Restarted!Shamt, Architecture!Shamt, Restarted!Sll, Architecture!Sll,
     Restarted!Srl, Architecture!Srl, Restarted!Sra, Architecture!Sra
<1>3. /\ Restarted!WordAlign(x) = Architecture!WordAlign(x)
      /\ Restarted!HalfAlign(x) = Architecture!HalfAlign(x)
      /\ Restarted!SignExtend(x, y) = Architecture!SignExtend(x, y)
  BY Zenon DEF Restarted!U, Architecture!U, Restarted!WordAlign,
     Architecture!WordAlign, Restarted!HalfAlign, Architecture!HalfAlign,
     Restarted!SignExtend, Architecture!SignExtend
<1>4. /\ Restarted!AtBit(x, y) = Architecture!AtBit(x, y)
      /\ Restarted!Bit(x, y) = Architecture!Bit(x, y)
      /\ Restarted!BitNot(x) = Architecture!BitNot(x)
      /\ Restarted!ByteBits = Architecture!ByteBits
      /\ Restarted!HalfBits = Architecture!HalfBits
  BY Zenon DEF Restarted!AtBit, Architecture!AtBit, Restarted!Bit, Architecture!Bit,
     Restarted!BitNot, Architecture!BitNot, Restarted!ByteBits, Architecture!ByteBits,
     Restarted!HalfBits, Architecture!HalfBits
<1> QED BY <1>1, <1>2, <1>3, <1>4

\* What iss.py decodes.
LEMMA SameDecode == ASSUME NEW i PROVE Restarted!decode(i) = Architecture!decode(i)
BY Zenon DEF Restarted!decode, Architecture!decode, Restarted!R_MNEM,
   Architecture!R_MNEM, Restarted!SHIFT_MNEM, Architecture!SHIFT_MNEM,
   Restarted!IA_MNEM, Architecture!IA_MNEM, Restarted!LD_MNEM, Architecture!LD_MNEM,
   Restarted!ST_MNEM, Architecture!ST_MNEM, Restarted!BR_MNEM, Architecture!BR_MNEM,
   Restarted!CSR_MNEM, Architecture!CSR_MNEM, Restarted!SYS_MNEM,
   Architecture!SYS_MNEM, Restarted!fixed_word, Architecture!fixed_word,
   Restarted!OP_R, Architecture!OP_R, Restarted!OP_IARITH, Architecture!OP_IARITH,
   Restarted!OP_LOAD, Architecture!OP_LOAD, Restarted!OP_STORE, Architecture!OP_STORE,
   Restarted!OP_BRANCH, Architecture!OP_BRANCH, Restarted!OP_LUI, Architecture!OP_LUI,
   Restarted!OP_AUIPC, Architecture!OP_AUIPC, Restarted!OP_JAL, Architecture!OP_JAL,
   Restarted!OP_JALR, Architecture!OP_JALR, Restarted!OP_SYSTEM,
   Architecture!OP_SYSTEM, Restarted!CSR_ECALL, Architecture!CSR_ECALL,
   Restarted!CSR_EBREAK, Architecture!CSR_EBREAK, Restarted!CSR_MRET,
   Architecture!CSR_MRET

\* What it fetches and reads.
LEMMA SameOperands ==
  /\ Restarted!insn = Architecture!insn
  /\ Restarted!fmt = Architecture!fmt
  /\ Restarted!mnem = Architecture!mnem
  /\ Restarted!a = Architecture!a
  /\ Restarted!b = Architecture!b
  /\ Restarted!addr = Architecture!addr
  /\ Restarted!pc4 = Architecture!pc4
<1>1. Restarted!insn = Architecture!insn
  BY Zenon DEF Restarted!insn, Architecture!insn, Restarted!widx, Architecture!widx
<1>2. Restarted!fmt = Architecture!fmt /\ Restarted!mnem = Architecture!mnem
  BY <1>1, SameDecode, Zenon DEF Restarted!fmt, Architecture!fmt, Restarted!mnem,
     Architecture!mnem
<1>3. Restarted!a = Architecture!a /\ Restarted!b = Architecture!b
  BY <1>1, Zenon DEF Restarted!a, Architecture!a, Restarted!b, Architecture!b,
     Restarted!rd_reg, Architecture!rd_reg
<1>4. Restarted!addr = Architecture!addr /\ Restarted!pc4 = Architecture!pc4
  BY <1>1, <1>3, SameWords, Zenon DEF Restarted!addr, Architecture!addr,
     Restarted!pc4, Architecture!pc4
<1> QED BY <1>1, <1>2, <1>3, <1>4

\* What it computes and compares.
LEMMA SameResults ==
  ASSUME NEW m, NEW x, NEW y
  PROVE  /\ Restarted!arith(m, x, y) = Architecture!arith(m, x, y)
         /\ Restarted!taken(m) = Architecture!taken(m)
<1>1. Restarted!arith(m, x, y) = Architecture!arith(m, x, y)
  BY Zenon DEF Restarted!arith, Architecture!arith, Restarted!U, Architecture!U,
     Restarted!Signed, Architecture!Signed, Restarted!Shamt, Architecture!Shamt,
     Restarted!Sll, Architecture!Sll, Restarted!Srl, Architecture!Srl, Restarted!Sra,
     Architecture!Sra
<1>2. Restarted!taken(m) = Architecture!taken(m)
  BY SameOperands, Zenon DEF Restarted!taken, Architecture!taken, Restarted!Signed,
     Architecture!Signed
<1> QED BY <1>1, <1>2

\* What it loads and stores.
LEMMA SameMemory ==
  ASSUME NEW m
  PROVE  /\ Restarted!load(m) = Architecture!load(m)
         /\ Restarted!store(m) = Architecture!store(m)
<1>1. Restarted!lane_shift(m) = Architecture!lane_shift(m)
  BY SameOperands, Zenon DEF Restarted!lane_shift, Architecture!lane_shift,
     Restarted!ByteBits, Architecture!ByteBits, Restarted!HalfBits,
     Architecture!HalfBits
<1>2. Restarted!lane_width(m) = Architecture!lane_width(m)
  BY Zenon DEF Restarted!lane_width, Architecture!lane_width, Restarted!ByteBits,
     Architecture!ByteBits, Restarted!HalfBits, Architecture!HalfBits
<1>3. Restarted!load(m) = Architecture!load(m)
  BY <1>1, <1>2, SameOperands, SameWords, Zenon DEF Restarted!load, Architecture!load,
     Restarted!widx, Architecture!widx
<1>4. Restarted!store(m) = Architecture!store(m)
  BY <1>1, <1>2, SameOperands, Zenon DEF Restarted!store, Architecture!store,
     Restarted!widx, Architecture!widx
<1> QED BY <1>3, <1>4

\* What it reads from and writes to a CSR, and how it enters a trap.
LEMMA SameCsrs ==
  ASSUME NEW c, NEW w
  PROVE  /\ Restarted!csr_read(c) = Architecture!csr_read(c)
         /\ Restarted!csr_written(c, w) = Architecture!csr_written(c, w)
         /\ Restarted!enter_trap(c) <=> Architecture!enter_trap(c)
         /\ Restarted!ResetCsrs = Architecture!ResetCsrs
<1>1. Restarted!csr_read(c) = Architecture!csr_read(c)
  BY Zenon DEF Restarted!csr_read, Architecture!csr_read, Restarted!AtBit,
     Architecture!AtBit, Restarted!WordAlign, Architecture!WordAlign,
     Restarted!CSR_MSTATUS, Architecture!CSR_MSTATUS, Restarted!CSR_MIE,
     Architecture!CSR_MIE, Restarted!CSR_MTVEC, Architecture!CSR_MTVEC,
     Restarted!CSR_MEPC, Architecture!CSR_MEPC, Restarted!CSR_MCAUSE,
     Architecture!CSR_MCAUSE, Restarted!MIE_BIT, Architecture!MIE_BIT,
     Restarted!MPIE_BIT, Architecture!MPIE_BIT
<1>2. Restarted!csr_written(c, w) = Architecture!csr_written(c, w)
  BY Zenon DEF Restarted!csr_written, Architecture!csr_written, Restarted!Bit,
     Architecture!Bit, Restarted!WordAlign, Architecture!WordAlign,
     Restarted!CSR_MSTATUS, Architecture!CSR_MSTATUS, Restarted!CSR_MIE,
     Architecture!CSR_MIE, Restarted!CSR_MTVEC, Architecture!CSR_MTVEC,
     Restarted!CSR_MEPC, Architecture!CSR_MEPC, Restarted!CSR_MCAUSE,
     Architecture!CSR_MCAUSE, Restarted!MIE_BIT, Architecture!MIE_BIT,
     Restarted!MPIE_BIT, Architecture!MPIE_BIT
<1>3. Restarted!enter_trap(c) <=> Architecture!enter_trap(c)
  BY Zenon DEF Restarted!enter_trap, Architecture!enter_trap, Restarted!WordAlign,
     Architecture!WordAlign
<1>4. Restarted!ResetCsrs = Architecture!ResetCsrs
  BY Zenon DEF Restarted!ResetCsrs, Architecture!ResetCsrs
<1> QED BY <1>1, <1>2, <1>3, <1>4

\* How an instruction ends.
LEMMA SameFinish ==
  ASSUME NEW x
  PROVE  /\ Restarted!finish(x) <=> Architecture!finish(x)
         /\ Restarted!next_is(x) <=> Architecture!next_is(x)
<1>1. Restarted!rd_we <=> Architecture!rd_we
  BY SameOperands, Zenon DEF Restarted!rd_we, Architecture!rd_we
<1>2. Restarted!rd_val = Architecture!rd_val
  BY SameOperands, SameResults, SameMemory, SameCsrs, SameWords, Zenon DEF
     Restarted!rd_val, Architecture!rd_val
<1>3. Restarted!finish(x) <=> Architecture!finish(x)
  BY <1>1, <1>2, SameOperands, Zenon DEF Restarted!finish, Architecture!finish,
     Restarted!wr_reg, Architecture!wr_reg
<1>4. Restarted!next_is(x) <=> Architecture!next_is(x)
  BY SameOperands, Zenon DEF Restarted!next_is, Architecture!next_is
<1> QED BY <1>3, <1>4

\* The steps.
LEMMA SameNext == Restarted!Next <=> Architecture!Next
<1>1. Restarted!Compute <=> Architecture!Compute
  BY SameFinish, SameOperands, Zenon DEF Restarted!Compute, Architecture!Compute
<1>2. Restarted!Store <=> Architecture!Store
  BY SameFinish, SameOperands, SameMemory, Zenon DEF Restarted!Store,
     Architecture!Store
<1>3. Restarted!Branch <=> Architecture!Branch
  BY SameFinish, SameOperands, SameResults, SameWords, Zenon DEF Restarted!Branch,
     Architecture!Branch
<1>4. Restarted!Jump <=> Architecture!Jump
  BY SameFinish, SameOperands, SameWords, Zenon DEF Restarted!Jump, Architecture!Jump
<1>5. Restarted!CsrAccess <=> Architecture!CsrAccess
  <2>1. \A c, w : /\ Restarted!csr_read(c) = Architecture!csr_read(c)
                  /\ Restarted!csr_written(c, w) = Architecture!csr_written(c, w)
    BY SameCsrs, Zenon
  <2>2. \A x : /\ Restarted!BitNot(x) = Architecture!BitNot(x)
               /\ Restarted!finish(x) <=> Architecture!finish(x)
               /\ Restarted!next_is(x) <=> Architecture!next_is(x)
    BY SameWords, SameFinish, Zenon
  <2> QED BY <2>1, <2>2, SameOperands, Zenon DEF Restarted!CsrAccess, Architecture!CsrAccess
<1>6. Restarted!Ecall <=> Architecture!Ecall
  BY SameFinish, SameOperands, SameCsrs, Zenon DEF Restarted!Ecall,
     Architecture!Ecall, Restarted!CAUSE_ECALL_M, Architecture!CAUSE_ECALL_M
<1>7. Restarted!Mret <=> Architecture!Mret
  BY SameFinish, SameOperands, SameWords, Zenon DEF Restarted!Mret, Architecture!Mret
<1>8. Restarted!Ebreak <=> Architecture!Ebreak
  BY SameFinish, SameOperands, Zenon DEF Restarted!Ebreak, Architecture!Ebreak
<1>9. Restarted!Interrupt <=> Architecture!Interrupt
  BY SameCsrs, Zenon DEF Restarted!Interrupt, Architecture!Interrupt,
     Restarted!CAUSE_MACHINE_EXT, Architecture!CAUSE_MACHINE_EXT
<1>10. Restarted!SkipIllegal <=> Architecture!SkipIllegal
  BY SameOperands, Zenon DEF Restarted!SkipIllegal, Architecture!SkipIllegal
<1> QED BY <1>1, <1>2, <1>3, <1>4, <1>5, <1>6, <1>7, <1>8, <1>9, <1>10, Zenon
       DEF Restarted!Next, Architecture!Next

----------------------------------------------------------------------------
(* A reset restarts the architecture.                                      *)

\* The architectural state behind the edge of a reset.
LEMMA AfterReset ==
  ASSUME RefInv, clock(TRUE)
  PROVE  /\ abs_pc' = 0 /\ abs_halted' = FALSE
         /\ abs_regs' = written_back /\ abs_dmem' = abs_dmem
<1>1. /\ if_id'.valid = FALSE /\ id_ex'.valid = FALSE
      /\ ex_mem'.ebreak = FALSE /\ ex_mem'.reg_we = FALSE /\ ex_mem'.mem_we = FALSE
      /\ mem_wb'.ebreak = FALSE /\ mem_wb'.valid = FALSE
      /\ done_r' = FALSE /\ pc_q' = 0
  BY ResetEdge DEF IF_ID_ZERO, ID_EX_ZERO, EX_MEM_ZERO, MEM_WB_ZERO
<1>2. regs' = written_back /\ dmem' = abs_dmem
  BY ResetEdge
<1>3. abs_pc' = 0 /\ abs_halted' = FALSE
  BY <1>1 DEF abs_pc, abs_halted
<1>4. abs_dmem' = abs_dmem
  BY <1>1, <1>2 DEF abs_dmem
<1>5. abs_regs' = written_back
  <2>1. ~wb_reg_we'
    BY <1>1 DEF wb_reg_we
  <2>2. abs_regs' = [r \in Reg |-> regs'[r]]
    BY <1>1, <2>1 DEF abs_regs
  <2>3. written_back = [r \in Reg |-> written_back[r]]
    BY DEF written_back
  <2> QED BY <1>2, <2>2, <2>3
<1> QED BY <1>3, <1>4, <1>5

\* The register write in MEM is lost, a store there is not.
LEMMA OneBoundary ==
  ASSUME ResetInv
  PROVE  <<written_back, abs_dmem>> \in {abs_state, before}
<1>a. /\ TypeOK /\ SlotsCoherent /\ EbreakShadow /\ Accesses
      /\ OneWrite /\ FoundByLast
  BY DEF ResetInv, RefInv, OperandInv
<1>1. CASE ex_mem.reg_we
  <2>1. ex_mem.valid /\ ~ex_mem.mem_we
    BY <1>1, <1>a DEF SlotsCoherent, OneWrite
  <2>2. before = <<written_back, dmem>> /\ abs_dmem = dmem
    BY <1>a, <2>1 DEF FoundByLast, abs_dmem
  <2> QED BY <2>2
<1>2. CASE ~ex_mem.reg_we
  <2>1. abs_regs = written_back
    BY <1>2 DEF abs_regs, written_back
  <2> QED BY <2>1 DEF abs_state
<1> QED BY <1>1, <1>2

\* An edge with the reset is a Restart of the architecture.
LEMMA RestartStep ==
  ASSUME ResetInv, reset_edge PROVE Restarted!Restart
<1>1. RefInv /\ clock(TRUE) /\ before' = <<abs_regs', abs_dmem'>>
  BY DEF ResetInv, reset_edge, abs_state
<1>2. /\ abs_pc' = 0 /\ abs_halted' = FALSE
      /\ <<abs_regs', abs_dmem'>> \in {<<abs_regs, abs_dmem>>, before}
  BY <1>1, AfterReset, OneBoundary DEF abs_state
<1>3. imem' = imem /\ csr' = ResetCsrs
  BY <1>1, ResetEdge
<1>4. Restarted!ResetCsrs = ResetCsrs
  BY Zenon DEF Restarted!ResetCsrs, ResetCsrs
<1> QED BY <1>1, <1>2, <1>3, <1>4, Zenon DEF Restarted!Restart

\* An edge without it is what it is without resets.
LEMMA RunStep ==
  ASSUME ResetInv, run_edge, drive_irq
  PROVE  Restarted!Execute \/ UNCHANGED Restarted!resetArchVars
<1>1. RefInv /\ Next
  BY DEF ResetInv, run_edge, Next
<1>2. CASE id_ex.valid
  <2>1. Edge
    BY <1>1, <1>2 DEF Edge, RefInv, OperandInv, EbreakShadow
  <2>2. Architecture!Next
    BY <1>2, <2>1, ExecuteEdge
  <2>3. before' = <<abs_regs, abs_dmem>>
    BY <1>2 DEF run_edge, abs_state
  <2> QED BY <2>2, <2>3, SameNext, Zenon DEF Restarted!Execute
<1>3. CASE ~id_ex.valid
  <2>1. UNCHANGED Architecture!archVars
    <3>1. CASE done_r
      BY <1>1, <3>1, HaltedEdge
    <3>2. CASE ~done_r
      BY <1>1, <1>3, <3>2, BubbleEdge DEF Edge
    <3> QED BY <3>1, <3>2
  <2>2. before' = before
    BY <1>3 DEF run_edge
  <2> QED BY <2>1, <2>2, Zenon
          DEF Restarted!resetArchVars, Restarted!archVars, Architecture!archVars
<1> QED BY <1>2, <1>3

\* A reset at any edge, of a running or of a halted machine and for any
\* number of cycles, restarts the program at address 0 with initial CSRs,
\* and leaves in the register file and in the data memory the state of an
\* instruction boundary; between resets the pipeline is iss.py's machine.
THEOREM ResetRestarts == Spec_reset => ImplementsRestart
<1>1. Init_reset => ResetInv
  BY ResetInductive
<1>2. ResetInv /\ [Next_reset]_resetVars => ResetInv'
  BY ResetInductive
<1>3. Init_reset => Restarted!InitWithReset
  <2>1. Restarted!Init <=> Architecture!Init
    <3>1. Restarted!ResetCsrs = Architecture!ResetCsrs
      BY SameCsrs, Zenon
    <3>2. Restarted!Reg = Architecture!Reg /\ Restarted!Word = Architecture!Word
      BY Zenon DEF Restarted!Reg, Architecture!Reg, Restarted!Word, Architecture!Word
    <3>3. Restarted!Instruction = Architecture!Instruction
      BY <3>2, Zenon DEF Restarted!Instruction, Architecture!Instruction
    <3> QED BY <3>1, <3>2, <3>3, Zenon DEF Restarted!Init, Architecture!Init
  <2> QED BY <2>1, RefInit, Zenon DEF Init_reset, abs_state, Restarted!InitWithReset
<1>4. ResetInv /\ [Next_reset]_resetVars
        => [Restarted!Execute \/ Restarted!Restart]_(Restarted!resetArchVars)
  <2> SUFFICES ASSUME ResetInv, [Next_reset]_resetVars
               PROVE  \/ Restarted!Execute \/ Restarted!Restart
                      \/ UNCHANGED Restarted!resetArchVars
    OBVIOUS
  <2>1. CASE UNCHANGED resetVars
    <3>1. UNCHANGED vars /\ before' = before
      BY <2>1 DEF resetVars
    <3>2. UNCHANGED Architecture!archVars
      BY <3>1, StutterEdge
    <3> QED BY <3>1, <3>2, Zenon
            DEF Restarted!resetArchVars, Restarted!archVars, Architecture!archVars
  <2>2. CASE Next_reset
    BY <2>2, RunStep, RestartStep, Zenon DEF Next_reset
  <2> QED BY <2>1, <2>2
<1> QED BY <1>1, <1>2, <1>3, <1>4, PTL
        DEF Spec_reset, ImplementsRestart, Restarted!SpecWithReset

----------------------------------------------------------------------------
(* The performance counters.  In their inductive invariant FrontInv is what *)
(* the pipeline says of itself; the counters are counters.                 *)
Counters == [cycles : Nat, insns : Nat, lu_stalls : Nat, flushes : Nat,
             bht_preds : Nat, bht_misses : Nat]
Ledger   == [penalty : Nat, dropped : Nat, transfers : Nat, branches : Nat]

CountersTyped == perf \in Counters /\ account \in Ledger

\* A branch in `s' that has not retired yet and will.
BranchIn(s) ==
  pulse(s.valid /\ ~s.illegal /\ ~done_r /\ s.inst.opcode = OP_BRANCH)

BranchesBalance ==
  perf.bht_preds = account.branches + BranchIn(ex_mem) + BranchIn(mem_wb)

\* What a counter owes the outcomes recorded at its entry: two equal ones turn
\* it, three take it to its end, and from there one contrary does not turn it.
Tracked(h, c) ==
  /\ h[1] = 1 => c >= 1
  /\ h[1] = 0 => c <= 2
  /\ h[1] = 1 /\ h[2] = 1 => c >= 2
  /\ h[1] = 0 /\ h[2] = 0 => c <= 1
  /\ h[1] = 1 /\ h[2] = 1 /\ h[3] = 1 => c = 3
  /\ h[1] = 0 /\ h[2] = 0 /\ h[3] = 0 => c = 0
  /\ h[2] = 1 /\ h[3] = 1 /\ h[4] = 1 => c >= 2
  /\ h[2] = 0 /\ h[3] = 0 /\ h[4] = 0 => c <= 1

Histories == [1 .. 4 -> {0, 1, 2}]

OutcomesTracked ==
  /\ outcomes \in [BhtEntry -> Histories]
  /\ BHT_ENABLE => \A e \in BhtEntry : Tracked(outcomes[e], ctr[e])

\* The prediction that travels with a branch is the one its counter would make
\* in the cycle the branch is looked at.
PredictionsCurrent ==
  BHT_ENABLE =>
    /\ if_id.valid => (if_id.pred_state >= 2 <=> ctr[bht_index(if_id.pc)] >= 2)
    /\ id_ex.valid /\ id_ex.ctl.branch =>
         (id_ex.pred_taken <=> ctr[bht_index(id_ex.pc)] >= 2)

PerfInv == /\ FrontInv /\ CountersTyped /\ CyclesAccountedFor /\ BranchesBalance
           /\ OutcomesTracked /\ PredictionsCurrent

----------------------------------------------------------------------------
LEMMA PulseIsNat == \A b : pulse(b) \in {0, 1}
BY DEF pulse

----------------------------------------------------------------------------
(* One edge of the clock, seen from the counters.                          *)

LEMMA CountersStepTyped ==
  ASSUME CountersTyped, perf_counters, keep_account PROVE CountersTyped'
<1>1. price \in Nat
  BY DEF price
<1> QED BY <1>1, PulseIsNat DEF CountersTyped, Counters, Ledger,
                                perf_counters, keep_account

\* While no ebreak is past EX at the end of the cycle, none is on its way.
LEMMA StillMeasuring ==
  ASSUME FrontInv, Next, ~(ex_mem.ebreak \/ mem_wb.ebreak \/ done_r)'
  PROVE  ~halt /\ ~ebreak_pending /\ ~(ex_mem.ebreak \/ mem_wb.ebreak \/ done_r)
<1> USE DEF FrontInv
<1>1. ~done_r
  BY DEF Next, clock, done
<1>2. ~(mem_wb.valid /\ mem_wb.ebreak) /\ ~mem_wb.ebreak
  BY <1>1 DEF Next, clock, done, SlotsCoherent
<1>3. ~ex_mem.ebreak
  BY <1>1 DEF Next, clock, mem_wb_reg, halt
<1>4. ~(id_ex.valid /\ id_ex.ctl.ebreak)
  <2>1. SUFFICES ASSUME id_ex.valid, id_ex.ctl.ebreak PROVE FALSE
    OBVIOUS
  <2>2. ~trap_taken
    BY <2>1, ControlExcludes DEF trap_taken, irq_taken, ebreak_pending, Decoded
  <2>3. ex_mem'.ebreak
    BY <1>1, <2>1, <2>2 DEF Next, clock, ex_mem_reg, flush_ex, halt
  <2> QED BY <2>3
<1> QED BY <1>1, <1>2, <1>3, <1>4 DEF halt, ebreak_pending

----------------------------------------------------------------------------
(* Cycles.                                                                 *)

\* The bubble the instruction in EX has paid in ID.
Paid == pulse(id_ex.valid /\ (id_ex.ctl.jal \/ id_ex.pred_taken))

\* Back end: of the instructions past EX one may retire; the one in EX joins
\* them or is dropped.
LEMMA BackEndBalance ==
  ASSUME FrontInv, Next, ~halt
  PROVE  pulse(wb_retire) + InFlight(ex_mem)' + InFlight(mem_wb)' + pulse(drops)
           = InFlight(ex_mem) + InFlight(mem_wb) + pulse(id_ex.valid)
<1>1. pulse(wb_retire) = InFlight(mem_wb)
  BY DEF wb_retire, InFlight
<1>2. InFlight(mem_wb)' = InFlight(ex_mem)
  BY DEF Next, clock, mem_wb_reg, InFlight, pulse
<1>3. InFlight(ex_mem)' + pulse(drops) = pulse(id_ex.valid)
  <2>1. trap_taken => id_ex.valid
    BY DEF trap_taken, irq_taken
  <2>2. CASE trap_taken
    BY <2>1, <2>2 DEF Next, clock, ex_mem_reg, flush_ex, EX_MEM_ZERO, InFlight,
                      pulse, drops
  <2>3. CASE ~trap_taken
    BY <2>3 DEF Next, clock, ex_mem_reg, flush_ex, InFlight, pulse, drops
  <2> QED BY <2>2, <2>3
<1>4. \A s : InFlight(s) \in {0, 1}
  BY PulseIsNat DEF InFlight
<1>5. InFlight(mem_wb) \in {0, 1} /\ InFlight(ex_mem) \in {0, 1}
      /\ InFlight(ex_mem)' \in {0, 1} /\ InFlight(mem_wb)' \in {0, 1}
  BY PulseIsNat DEF InFlight
<1>6. pulse(drops) \in {0, 1} /\ pulse(id_ex.valid) \in {0, 1}
  BY PulseIsNat
<1> QED BY <1>1, <1>2, <1>3, <1>5, <1>6

\* Front end: each bubble that enters is a stall's, or has a redirect to pay
\* for it.
LEMMA FrontEndBalance ==
  ASSUME FrontInv, Next, ~halt, ~ebreak_pending
  PROVE  Bubble(id_ex)' + Bubble(if_id)' + Paid
           = Bubble(if_id) + pulse(stall) + price + Paid'
<1> USE DEF Bubble, pulse
<1>1. redirect_ex => id_ex.valid /\ ~stall
  BY DEF redirect_ex, trap_taken, irq_taken, mret_taken, br_redirect,
         ex_branch_valid, jalr_taken, stall
<1>2. CASE redirect_ex
  \* Both slots are emptied: two bubbles, one of which ID may have paid.
  <2>1. ~id_ex'.valid /\ ~if_id'.valid
    BY <1>2 DEF Next, clock, id_ex_reg, if_id_reg, flush_id, flush_if,
                IF_ID_ZERO, ID_EX_ZERO
  <2>2. price = 2
    BY <1>1, <1>2 DEF price
  <2>3. Bubble(if_id) = Paid
    BY <1>1, <1>2 DEF Paid, FrontInv, Followed
  <2>4. Bubble(id_ex)' = 1 /\ Bubble(if_id)' = 1 /\ Paid' = 0
    BY <2>1 DEF Paid
  <2>5. pulse(stall) = 0
    BY <1>1, <1>2
  <2>6. Paid \in {0, 1}
    BY DEF Paid
  <2> QED BY <2>2, <2>3, <2>4, <2>5, <2>6
<1>3. CASE ~redirect_ex
  <2>1. price = Paid
    BY <1>3 DEF price, Paid
  <2>2. CASE stall
    \* ID waits behind one bubble.
    <3>1. if_id.valid /\ ~redirect_id
      BY <2>2 DEF stall, redirect_id, jal_taken, bht_taken
    <3>2. ~id_ex'.valid
      BY <2>2 DEF Next, clock, id_ex_reg, ID_EX_ZERO
    <3>3. if_id' = if_id
      BY <1>3, <2>2, <3>1 DEF Next, clock, if_id_reg, flush_if, fetch_en, redirect
    <3>4. /\ Bubble(id_ex)' = 1 /\ Bubble(if_id)' = 0 /\ Paid' = 0
          /\ Bubble(if_id) = 0 /\ pulse(stall) = 1
      BY <2>2, <3>1, <3>2, <3>3 DEF Paid
    <3>5. Paid \in {0, 1}
      BY DEF Paid
    <3> QED BY <2>1, <3>4, <3>5
  <2>3. CASE ~stall
    <3>1. /\ id_ex'.valid = if_id.valid
          /\ id_ex'.ctl = id_ctl /\ id_ex'.pred_taken = id_pred_taken
      BY <1>3, <2>3 DEF Next, clock, id_ex_reg, flush_id
    <3>2. if_id'.valid <=> ~redirect_id
      BY <1>3, <2>3 DEF Next, clock, if_id_reg, flush_if, fetch_en, IF_ID_ZERO
    <3>3. redirect_id <=> if_id.valid /\ (id_ctl.jal \/ id_pred_taken)
      BY <2>3 DEF redirect_id, jal_taken, bht_taken, id_pred_taken
    <3>4. Paid' = pulse(redirect_id) /\ Bubble(if_id)' = pulse(redirect_id)
      BY <3>1, <3>2, <3>3 DEF Paid
    <3>5. Bubble(id_ex)' = Bubble(if_id) /\ pulse(stall) = 0
      BY <2>3, <3>1
    <3>6. Paid \in {0, 1} /\ pulse(redirect_id) \in {0, 1}
          /\ Bubble(if_id) \in {0, 1}
      BY DEF Paid
    <3> QED BY <2>1, <3>4, <3>5, <3>6
  <2> QED BY <2>2, <2>3
<1> QED BY <1>2, <1>3

\* The sums of the two lemmas are those of CyclesAccountedFor.
LEMMA Sums ==
  ASSUME NEW c \in Int, NEW n \in Int, NEW d \in Int, NEW l \in Int, NEW p \in Int,
         NEW be \in Int, NEW bi \in Int, NEW fm \in Int, NEW fw \in Int,
         NEW paid \in Int,
         NEW be1 \in Int, NEW bi1 \in Int, NEW fm1 \in Int, NEW fw1 \in Int,
         NEW paid1 \in Int,
         NEW r \in Int, NEW s \in Int, NEW dr \in Int, NEW pr \in Int, NEW v \in Int,
         c + be + bi = n + fm + fw + d + 2 + l + p + paid,
         r + fm1 + fw1 + dr = fm + fw + v,
         be1 + bi1 + paid = bi + s + pr + paid1,
         be + v = 1
  PROVE  (c + 1) + be1 + bi1
           = (n + r) + fm1 + fw1 + (d + dr) + 2 + (l + s) + (p + pr) + paid1
OBVIOUS

LEMMA CyclesStep ==
  ASSUME FrontInv, CountersTyped, CyclesAccountedFor,
         Next, perf_counters, keep_account
  PROVE  CyclesAccountedFor'
<1>1. SUFFICES ASSUME ~(ex_mem.ebreak \/ mem_wb.ebreak \/ done_r)'
               PROVE  perf'.cycles + Bubble(id_ex)' + Bubble(if_id)'
                        = perf'.insns + InFlight(ex_mem)' + InFlight(mem_wb)'
                          + account'.dropped + 2 + perf'.lu_stalls
                          + account'.penalty + Paid'
  BY DEF CyclesAccountedFor, Paid
<1>2. ~halt /\ ~ebreak_pending
      /\ perf.cycles + Bubble(id_ex) + Bubble(if_id)
           = perf.insns + InFlight(ex_mem) + InFlight(mem_wb) + account.dropped
             + 2 + perf.lu_stalls + account.penalty + Paid
  BY <1>1, StillMeasuring DEF CyclesAccountedFor, Paid
<1>3. pulse(wb_retire) + InFlight(ex_mem)' + InFlight(mem_wb)' + pulse(drops)
        = InFlight(ex_mem) + InFlight(mem_wb) + pulse(id_ex.valid)
  BY <1>2, BackEndBalance
<1>4. Bubble(id_ex)' + Bubble(if_id)' + Paid
        = Bubble(if_id) + pulse(stall) + price + Paid'
  BY <1>2, FrontEndBalance
<1>5. Bubble(id_ex) + pulse(id_ex.valid) = 1
  BY DEF Bubble, pulse
<1>6. /\ perf'.cycles = perf.cycles + 1
      /\ perf'.insns = perf.insns + pulse(wb_retire)
      /\ perf'.lu_stalls = perf.lu_stalls + pulse(stall)
      /\ account'.dropped = account.dropped + pulse(drops)
      /\ account'.penalty = account.penalty + price
  <2>1. pulse(stall /\ ~halt) = pulse(stall)
    BY <1>2 DEF pulse
  <2> QED BY <2>1 DEF perf_counters, keep_account
<1>7. /\ perf.cycles \in Nat /\ perf.insns \in Nat /\ perf.lu_stalls \in Nat
      /\ account.dropped \in Nat /\ account.penalty \in Nat /\ price \in Nat
  BY DEF CountersTyped, Counters, Ledger, price
<1>8. /\ Bubble(id_ex) \in Nat /\ Bubble(if_id) \in Nat
      /\ Bubble(id_ex)' \in Nat /\ Bubble(if_id)' \in Nat
      /\ InFlight(ex_mem) \in Nat /\ InFlight(mem_wb) \in Nat
      /\ InFlight(ex_mem)' \in Nat /\ InFlight(mem_wb)' \in Nat
      /\ Paid \in Nat /\ Paid' \in Nat
      /\ pulse(wb_retire) \in Nat /\ pulse(drops) \in Nat
      /\ pulse(stall) \in Nat /\ pulse(id_ex.valid) \in Nat
  BY DEF Bubble, InFlight, Paid, pulse
<1>9. (perf.cycles + 1) + Bubble(id_ex)' + Bubble(if_id)'
        = (perf.insns + pulse(wb_retire)) + InFlight(ex_mem)' + InFlight(mem_wb)'
          + (account.dropped + pulse(drops)) + 2 + (perf.lu_stalls + pulse(stall))
          + (account.penalty + price) + Paid'
  BY <1>2, <1>3, <1>4, <1>5, <1>7, <1>8, Sums
<1> QED BY <1>6, <1>9

----------------------------------------------------------------------------
(* Branches.                                                               *)

\* The set BranchesCountedOnce counts has one element for each of the two.
LEMMA BranchesInFlight ==
  Cardinality({s \in {<<1, ex_mem>>, <<2, mem_wb>>} :
                 /\ InFlight(s[2]) = 1 /\ ~done_r
                 /\ s[2].inst.opcode = OP_BRANCH})
    = BranchIn(ex_mem) + BranchIn(mem_wb)
<1> DEFINE a == <<1, ex_mem>>
           b == <<2, mem_wb>>
           P(s) == /\ InFlight(s[2]) = 1 /\ ~done_r
                   /\ s[2].inst.opcode = OP_BRANCH
           S == {s \in {a, b} : P(s)}
<1>1. a # b /\ a[2] = ex_mem /\ b[2] = mem_wb
  OBVIOUS
<1>2. \A s : InFlight(s) = 1 <=> s.valid /\ ~s.illegal
  BY DEF InFlight, pulse
<1>3. BranchIn(ex_mem) = pulse(P(a)) /\ BranchIn(mem_wb) = pulse(P(b))
  BY <1>1, <1>2 DEF BranchIn, pulse
<1> HIDE DEF P, a, b
<1>4. /\ \A x : IsFiniteSet({x}) /\ Cardinality({x}) = 1
      /\ Cardinality({}) = 0
  BY FS_Singleton, FS_EmptySet
<1>5. ASSUME P(a) /\ P(b)
      PROVE  Cardinality(S) = BranchIn(ex_mem) + BranchIn(mem_wb)
  <2>1. S = {a} \cup {b} /\ b \notin {a}
    BY <1>1, <1>5
  <2>2. Cardinality({a} \cup {b}) = Cardinality({a}) + 1
    BY <1>4, <2>1, FS_AddElement
  <2>3. pulse(P(a)) = 1 /\ pulse(P(b)) = 1
    BY <1>5 DEF pulse
  <2> QED BY <1>3, <1>4, <2>1, <2>2, <2>3
<1>6. ASSUME P(a) /\ ~P(b)
      PROVE  Cardinality(S) = BranchIn(ex_mem) + BranchIn(mem_wb)
  <2>1. S = {a} /\ pulse(P(a)) = 1 /\ pulse(P(b)) = 0
    BY <1>6 DEF pulse
  <2> QED BY <1>3, <1>4, <2>1
<1>7. ASSUME ~P(a) /\ P(b)
      PROVE  Cardinality(S) = BranchIn(ex_mem) + BranchIn(mem_wb)
  <2>1. S = {b} /\ pulse(P(a)) = 0 /\ pulse(P(b)) = 1
    BY <1>7 DEF pulse
  <2>2. Cardinality(S) = 1
    BY <1>4, <2>1, Zenon
  <2>3. BranchIn(ex_mem) + BranchIn(mem_wb) = 1
    BY <1>3, <2>1
  <2> QED BY <2>2, <2>3
<1>8. ASSUME ~P(a) /\ ~P(b)
      PROVE  Cardinality(S) = BranchIn(ex_mem) + BranchIn(mem_wb)
  <2>1. S = {} /\ pulse(P(a)) = 0 /\ pulse(P(b)) = 0
    BY <1>8 DEF pulse
  <2> QED BY <1>3, <1>4, <2>1
<1>9. Cardinality(S) = BranchIn(ex_mem) + BranchIn(mem_wb)
  BY <1>5, <1>6, <1>7, <1>8
<1> QED BY <1>9, Zenon DEF P, a, b

LEMMA BranchesStep ==
  ASSUME FrontInv, CountersTyped, BranchesBalance,
         Next, perf_counters, keep_account
  PROVE  BranchesBalance'
<1> USE DEF FrontInv
<1>1. /\ perf'.bht_preds = perf.bht_preds + pulse(ex_branch_valid /\ ~halt)
      /\ account'.branches
           = account.branches
             + pulse(wb_retire /\ mem_wb.inst.opcode = OP_BRANCH)
  BY DEF perf_counters, keep_account
<1>2. pulse(wb_retire /\ mem_wb.inst.opcode = OP_BRANCH) = BranchIn(mem_wb)
  BY DEF wb_retire, BranchIn, halt, pulse
<1>3. CASE halt
  <2>1. done_r /\ done_r'
    BY <1>3 DEF halt, Next, clock, done
  <2>2. /\ BranchIn(ex_mem) = 0 /\ BranchIn(mem_wb) = 0
        /\ BranchIn(ex_mem)' = 0 /\ BranchIn(mem_wb)' = 0
        /\ pulse(ex_branch_valid /\ ~halt) = 0
    BY <1>3, <2>1 DEF BranchIn, pulse
  <2> QED BY <1>1, <1>2, <2>2 DEF BranchesBalance, CountersTyped, Counters, Ledger
<1>4. CASE ~halt
  <2>1. done_r' => ~ex_mem.valid /\ ~id_ex.valid
    BY <1>4 DEF Next, clock, done, halt, EbreakShadow
  <2>2. BranchIn(mem_wb)' = BranchIn(ex_mem)
    BY <1>4, <2>1 DEF Next, clock, mem_wb_reg, BranchIn, halt, pulse
  <2>3. BranchIn(ex_mem)' = pulse(ex_branch_valid /\ ~halt)
    <3>1. trap_taken => id_ex.valid /\ ~ex_branch_valid
      BY DEF trap_taken, irq_taken, ex_branch_valid
    <3>2. CASE trap_taken
      BY <1>4, <3>1, <3>2
         DEF Next, clock, ex_mem_reg, flush_ex, EX_MEM_ZERO, BranchIn, pulse
    <3>3. CASE ~trap_taken
      <4>1. /\ ex_mem'.valid = id_ex.valid /\ ex_mem'.inst = id_ex.inst
            /\ ex_mem'.illegal = id_ex.ctl.illegal
        BY <1>4, <3>3 DEF Next, clock, ex_mem_reg, flush_ex
      <4>2. id_ex.valid =>
              (id_ex.ctl.branch
                 <=> id_ex.inst.opcode = OP_BRANCH /\ ~id_ex.ctl.illegal)
        BY ControlExcludes DEF Decoded
      <4> QED BY <1>4, <2>1, <3>3, <4>1, <4>2 DEF BranchIn, ex_branch_valid, pulse
    <3> QED BY <3>2, <3>3
  <2>4. BranchIn(ex_mem) \in Nat /\ BranchIn(mem_wb) \in Nat
        /\ BranchIn(ex_mem)' \in Nat
    BY DEF BranchIn, pulse
  <2> QED BY <1>1, <1>2, <2>2, <2>3, <2>4
          DEF BranchesBalance, CountersTyped, Counters, Ledger
<1> QED BY <1>3, <1>4

----------------------------------------------------------------------------
(* Predictions.                                                            *)

LEMMA CounterTracks ==
  ASSUME NEW h \in Histories, NEW c \in BhtState, NEW taken \in BOOLEAN,
         Tracked(h, c)
  PROVE  /\ recorded(h, taken) \in Histories
         /\ Tracked(recorded(h, taken), update_next(c, taken))
<1> DEFINE g == recorded(h, taken)
<1>1. g[1] = pulse(taken) /\ g[2] = h[1] /\ g[3] = h[2] /\ g[4] = h[3]
  BY DEF recorded
<1>2. h[1] \in {0, 1, 2} /\ h[2] \in {0, 1, 2} /\ h[3] \in {0, 1, 2}
  BY DEF Histories
<1>3. g \in Histories
  BY <1>2, PulseIsNat DEF recorded, Histories
<1>4. CASE taken
  <2>1. pulse(taken) = 1 /\ update_next(c, taken) = IF c = 3 THEN 3 ELSE c + 1
    BY <1>4 DEF pulse, update_next
  <2> HIDE DEF g
  <2> QED BY <1>1, <1>3, <2>1 DEF Tracked, BhtState, g
<1>5. CASE ~taken
  <2>1. pulse(taken) = 0 /\ update_next(c, taken) = IF c = 0 THEN 0 ELSE c - 1
    BY <1>5 DEF pulse, update_next
  <2> HIDE DEF g
  <2> QED BY <1>1, <1>3, <2>1 DEF Tracked, BhtState, g
<1> QED BY <1>4, <1>5

\* An outcome is recorded in the cycles in which the history table is trained.
LEMMA TrainedAsRecorded ==
  ASSUME FrontInv PROVE branch_executes <=> bht_update_en
<1> USE DEF FrontInv
<1>1. id_ex.valid => ~halt
  BY DEF halt, EbreakShadow
<1>2. id_ex.valid /\ id_ex.ctl.branch => ~id_ex.ctl.ecall
  BY ControlExcludes DEF Decoded
<1> QED BY <1>1, <1>2 DEF branch_executes, bht_update_en, ex_branch_valid, trap_taken

LEMMA OutcomesStep ==
  ASSUME FrontInv, OutcomesTracked, Next, keep_outcomes PROVE OutcomesTracked'
<1> DEFINE e == bht_index(id_ex.pc)
<1>1. e \in BhtEntry /\ ctr \in [BhtEntry -> BhtState] /\ branch_cond \in BOOLEAN
  BY Indices DEF FrontInv, TypeOK, ID_EX, branch_cond, branch_taken
<1> HIDE DEF e
<1>2. CASE bht_update_en
  <2>1. outcomes' = [outcomes EXCEPT ![e] = recorded(outcomes[e], branch_cond)]
    BY <1>2, TrainedAsRecorded DEF keep_outcomes, e
  <2>2. BHT_ENABLE =>
          ctr' = [ctr EXCEPT ![e] = update_next(ctr[e], branch_cond)]
    BY <1>2 DEF Next, clock, bht, e
  <2>3. recorded(outcomes[e], branch_cond) \in Histories
    BY <1>1, PulseIsNat DEF OutcomesTracked, recorded, Histories
  <2>4. BHT_ENABLE =>
          Tracked(recorded(outcomes[e], branch_cond), update_next(ctr[e], branch_cond))
    BY <1>1, CounterTracks DEF OutcomesTracked
  <2>5. outcomes' \in [BhtEntry -> Histories]
    BY <1>1, <2>1, <2>3 DEF OutcomesTracked
  <2>6. ASSUME BHT_ENABLE, NEW d \in BhtEntry PROVE Tracked(outcomes'[d], ctr'[d])
    <3>1. CASE d = e
      <4>1. outcomes'[d] = recorded(outcomes[e], branch_cond)
            /\ ctr'[d] = update_next(ctr[e], branch_cond)
        BY <1>1, <2>1, <2>2, <2>6, <3>1 DEF OutcomesTracked
      <4> QED BY <2>4, <2>6, <4>1
    <3>2. CASE d # e
      <4>1. outcomes'[d] = outcomes[d] /\ ctr'[d] = ctr[d]
        BY <1>1, <2>1, <2>2, <2>6, <3>2 DEF OutcomesTracked
      <4> QED BY <2>6, <4>1 DEF OutcomesTracked
    <3> QED BY <3>1, <3>2
  <2> QED BY <2>5, <2>6 DEF OutcomesTracked, Tracked
<1>3. CASE ~bht_update_en
  <2>1. outcomes' = outcomes /\ ctr' = ctr
    BY <1>3, TrainedAsRecorded DEF keep_outcomes, Next, clock, bht
  <2> QED BY <2>1 DEF OutcomesTracked, Tracked
<1> QED BY <1>2, <1>3

\* An update turns no counter, unless the branch redirects.
LEMMA OnlyRedirectsTurn ==
  ASSUME FrontInv, PredictionsCurrent, Next, BHT_ENABLE, ~br_redirect,
         NEW d \in BhtEntry
  PROVE  ctr'[d] >= 2 <=> ctr[d] >= 2
<1> DEFINE e == bht_index(id_ex.pc)
<1>1. e \in BhtEntry /\ ctr \in [BhtEntry -> BhtState] /\ branch_cond \in BOOLEAN
      /\ id_ex.pred_taken \in BOOLEAN
  BY Indices DEF FrontInv, TypeOK, ID_EX, branch_cond, branch_taken
<1> HIDE DEF e
<1>2. CASE bht_update_en
  <2>1. id_ex.pred_taken = branch_cond /\ id_ex.valid /\ id_ex.ctl.branch
    BY <1>2 DEF br_redirect, bht_update_en, ex_branch_valid
  <2>2. branch_cond <=> ctr[e] >= 2
    BY <2>1 DEF PredictionsCurrent, e
  <2>3. update_next(ctr[e], branch_cond) >= 2 <=> ctr[e] >= 2
    BY <1>1, <2>2 DEF update_next, BhtState
  <2>4. ctr' = [ctr EXCEPT ![e] = update_next(ctr[e], branch_cond)]
    BY <1>2 DEF Next, clock, bht, e
  <2> QED BY <1>1, <2>3, <2>4
<1>3. CASE ~bht_update_en
  BY <1>3 DEF Next, clock, bht
<1> QED BY <1>2, <1>3

LEMMA PredictionsStep ==
  ASSUME FrontInv, PredictionsCurrent, Next PROVE PredictionsCurrent'
<1> USE DEF FrontInv
<1> SUFFICES ASSUME BHT_ENABLE
             PROVE  /\ if_id'.valid =>
                         (if_id'.pred_state >= 2 <=> ctr'[bht_index(if_id'.pc)] >= 2)
                    /\ id_ex'.valid /\ id_ex'.ctl.branch =>
                         (id_ex'.pred_taken <=> ctr'[bht_index(id_ex'.pc)] >= 2)
  BY DEF PredictionsCurrent, bht_index
<1>1. /\ if_id.pc \in Word /\ pc_q \in Word
      /\ bht_index(if_id.pc) \in BhtEntry /\ bht_index(pc_q) \in BhtEntry
  BY Indices DEF TypeOK, IF_ID
<1>2. CASE halt
  <2>1. ~if_id'.valid /\ ~id_ex'.valid
    BY <1>2 DEF Next, clock, if_id_reg, id_ex_reg, fetch_en, halt, EbreakShadow
  <2> QED BY <2>1
<1>3. CASE ~halt /\ br_redirect
  <2>1. ~if_id'.valid /\ ~id_ex'.valid
    BY <1>3 DEF Next, clock, if_id_reg, id_ex_reg, flush_if, flush_id, redirect_ex,
                IF_ID_ZERO, ID_EX_ZERO
  <2> QED BY <2>1
<1>4. CASE ~halt /\ ~br_redirect
  <2>1. \A d \in BhtEntry : ctr'[d] >= 2 <=> ctr[d] >= 2
    BY <1>4, OnlyRedirectsTurn
  <2>2. ASSUME if_id'.valid
        PROVE  if_id'.pred_state >= 2 <=> ctr'[bht_index(if_id'.pc)] >= 2
    <3>1. \/ if_id' = if_id
          \/ if_id'.pc = pc_q /\ if_id'.pred_state = ctr[bht_index(pc_q)]
      BY <1>4, <2>2 DEF Next, clock, if_id_reg, bht_pred_state_if, IF_ID_ZERO
    <3>2. CASE if_id' = if_id
      BY <1>1, <2>1, <2>2, <3>2 DEF PredictionsCurrent
    <3>3. CASE if_id'.pc = pc_q /\ if_id'.pred_state = ctr[bht_index(pc_q)]
      BY <1>1, <2>1, <3>3
    <3> QED BY <3>1, <3>2, <3>3
  <2>3. ASSUME id_ex'.valid, id_ex'.ctl.branch
        PROVE  id_ex'.pred_taken <=> ctr'[bht_index(id_ex'.pc)] >= 2
    <3>1. /\ if_id.valid /\ id_ctl.branch
          /\ id_ex'.pc = if_id.pc /\ id_ex'.pred_taken = id_pred_taken
      BY <1>4, <2>3 DEF Next, clock, id_ex_reg, ID_EX_ZERO
    <3>2. id_pred_taken <=> ctr[bht_index(if_id.pc)] >= 2
      BY <3>1 DEF id_pred_taken, PredictionsCurrent
    <3> QED BY <1>1, <2>1, <3>1, <3>2
  <2> QED BY <2>2, <2>3
<1> QED BY <1>2, <1>3, <1>4

----------------------------------------------------------------------------
LEMMA PerfInductive ==
  /\ Init_perf => PerfInv
  /\ PerfInv /\ [Next_perf]_perfVars => PerfInv'
<1>1. ASSUME Init_perf PROVE PerfInv
  <2>1. FrontInv
    BY <1>1, FrontInductive DEF Init_perf
  <2>2. CountersTyped
    BY <1>1 DEF Init_perf, CountersTyped, Counters, Ledger
  <2>3. CyclesAccountedFor
    BY <1>1 DEF Init_perf, Init, CyclesAccountedFor, Bubble, InFlight, pulse,
                IF_ID_ZERO, ID_EX_ZERO, EX_MEM_ZERO, MEM_WB_ZERO
  <2>4. BranchesBalance
    BY <1>1 DEF Init_perf, Init, BranchesBalance, BranchIn, pulse,
                EX_MEM_ZERO, MEM_WB_ZERO
  <2>5. OutcomesTracked
    <3>1. NO_OUTCOMES \in Histories /\ Tracked(NO_OUTCOMES, WEAK_NT)
      BY DEF NO_OUTCOMES, Histories, Tracked, WEAK_NT
    <3> QED BY <1>1, <3>1 DEF Init_perf, Init, OutcomesTracked
  <2>6. PredictionsCurrent
    BY <1>1 DEF Init_perf, Init, PredictionsCurrent, IF_ID_ZERO, ID_EX_ZERO
  <2> QED BY <2>1, <2>2, <2>3, <2>4, <2>5, <2>6 DEF PerfInv
<1>2. ASSUME PerfInv, [Next_perf]_perfVars PROVE PerfInv'
  <2> USE <1>2 DEF PerfInv
  <2>1. CASE UNCHANGED perfVars
    BY <2>1 DEF perfVars, vars, FrontInv, TypeOK, SlotsCoherent, EbreakShadow,
                Decoded, Followed, CountersTyped, CyclesAccountedFor,
                BranchesBalance, Bubble, InFlight, BranchIn, OutcomesTracked,
                Tracked, PredictionsCurrent
  <2>2. CASE Next_perf
    <3>1. Next /\ perf_counters /\ keep_account /\ keep_outcomes
      BY <2>2 DEF Next_perf
    <3> QED BY <3>1, FrontInductive, CountersStepTyped, CyclesStep, BranchesStep,
               OutcomesStep, PredictionsStep
  <2> QED BY <2>1, <2>2
<1> QED BY <1>1, <1>2

\* Until the ebreak leaves EX every cycle is a retired or dropped
\* instruction, a counted stall, or a bubble some redirect has paid for, in
\* every run of every program.
THEOREM CyclesAreAccountedFor == Spec_perf => []CyclesAccountedFor
<1>1. PerfInv => CyclesAccountedFor
  BY DEF PerfInv
<1> QED BY <1>1, PerfInductive, PTL DEF Spec_perf

\* Each conditional branch that retires, and no other, is counted by
\* bht_preds, once.
THEOREM BranchesAreCountedOnce == Spec_perf => []BranchesCountedOnce
<1>1. PerfInv => BranchesCountedOnce
  <2> SUFFICES ASSUME PerfInv PROVE BranchesCountedOnce
    OBVIOUS
  <2>1. /\ perf.bht_preds \in Nat /\ account.branches \in Nat
        /\ BranchIn(ex_mem) \in Nat /\ BranchIn(mem_wb) \in Nat
    BY DEF PerfInv, CountersTyped, Counters, Ledger, BranchIn, pulse
  <2> QED BY <2>1, BranchesInFlight DEF PerfInv, BranchesBalance, BranchesCountedOnce
<1> QED BY <1>1, PerfInductive, PTL DEF Spec_perf

\* Two equal outcomes settle the prediction of an entry and a contrary one
\* does not unsettle it, however far apart fetch and resolution are: a branch
\* carries the direction its counter has when it resolves.
THEOREM PredictionsAreSettled == Spec_perf => []PredictionsSettle
<1>1. PerfInv => PredictionsSettle
  <2> SUFFICES ASSUME PerfInv, BHT_ENABLE, branch_executes, NEW taken \in BOOLEAN,
                      settled_on(outcomes[bht_index(id_ex.pc)], taken)
               PROVE  id_ex.pred_taken = taken
    BY DEF PredictionsSettle
  <2> DEFINE e == bht_index(id_ex.pc)
             h == outcomes[e]
  <2>1. /\ e \in BhtEntry /\ ctr[e] \in BhtState /\ id_ex.pred_taken \in BOOLEAN
    BY Indices DEF PerfInv, FrontInv, TypeOK, ID_EX
  <2>2. Tracked(h, ctr[e])
    BY <2>1 DEF PerfInv, OutcomesTracked
  <2>3. id_ex.pred_taken <=> ctr[e] >= 2
    BY DEF PerfInv, PredictionsCurrent, branch_executes
  <2>4. \/ h[1] = pulse(taken) /\ h[2] = pulse(taken)
        \/ h[2] = pulse(taken) /\ h[3] = pulse(taken) /\ h[4] = pulse(taken)
    BY DEF settled_on
  <2> HIDE DEF e, h
  <2>5. CASE taken
    BY <2>1, <2>2, <2>3, <2>4, <2>5 DEF Tracked, pulse, BhtState
  <2>6. CASE ~taken
    BY <2>1, <2>2, <2>3, <2>4, <2>6 DEF Tracked, pulse, BhtState
  <2> QED BY <2>5, <2>6
<1> QED BY <1>1, PerfInductive, PTL DEF Spec_perf
=============================================================================
