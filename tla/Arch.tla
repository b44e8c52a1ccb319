-------------------------------- MODULE Arch --------------------------------
(***************************************************************************)
(* The architecture, as the reference model tools/iss.py executes it: one  *)
(* instruction, or one trap, per step, with no pipeline.  This is what     *)
(* the hardware promises; Refinement.tla shows that Pipeline keeps the     *)
(* promise.                                                                *)
(*                                                                         *)
(* Two things are the architecture's and not iss.py's.  The interrupt may  *)
(* arrive at any instruction boundary while it is enabled (iss.py is told  *)
(* the boundaries, the hardware samples a level).  A word that decodes to  *)
(* nothing is skipped without retiring, as control.v's header prescribes   *)
(* (iss.py ends the simulation with exit code 3).                          *)
(***************************************************************************)
EXTENDS Decode

CONSTANTS IMEM_WORDS, DMEM_WORDS, DMEM_INIT

VARIABLES imem, pc, regs, dmem, csr, halted

archVars == <<imem, pc, regs, dmem, csr, halted>>

Init ==
  /\ imem \in [0 .. (IMEM_WORDS - 1) -> Instruction]
  /\ pc = 0
  /\ regs = [r \in Reg |-> 0]
  /\ dmem = DMEM_INIT
  /\ csr = ResetCsrs
  /\ halted = FALSE

----------------------------------------------------------------------------
(* Operand access, memory and CSRs.                                        *)

widx(addr, words) == (addr \div 4) % words

insn == imem[widx(pc, IMEM_WORDS)]
fmt  == decode(insn)[1]
mnem == decode(insn)[2]

rd_reg(r) == IF r = 0 THEN 0 ELSE regs[r]
wr_reg(r, value) == IF r = 0 THEN regs ELSE [regs EXCEPT ![r] = value]
a == rd_reg(insn.rs1)
b == rd_reg(insn.rs2)

addr == U(a + insn.imm)
pc4  == U(pc + 4)

\* The bits of a word a byte or half access selects: how far up, how many.
lane_shift(m) == CASE m \in {"lb", "lbu", "sb"} -> ByteBits * (addr % 4)
                   [] m \in {"lh", "lhu", "sh"} -> HalfBits * ((addr \div 2) % 2)
                   [] OTHER                     -> 0
lane_width(m) == CASE m \in {"lb", "lbu", "sb"} -> ByteBits
                   [] m \in {"lh", "lhu", "sh"} -> HalfBits
                   [] OTHER                     -> XLEN

load(m) ==
  LET w    == dmem[widx(addr, DMEM_WORDS)]
      part == (w \div 2^lane_shift(m)) % 2^lane_width(m)
  IN  IF m \in {"lb", "lh"} THEN SignExtend(part, lane_width(m)) ELSE part

\* (w & ~(mask << sh)) | (v << sh), with the mask's bits cleared by
\* subtracting what they hold.
store(m) ==
  LET w   == dmem[widx(addr, DMEM_WORDS)]
      v   == b % 2^lane_width(m)
      old == (w \div 2^lane_shift(m)) % 2^lane_width(m)
  IN  [dmem EXCEPT ![widx(addr, DMEM_WORDS)] =
         w - old * 2^lane_shift(m) + v * 2^lane_shift(m)]

csr_read(c) ==
  CASE c = CSR_MSTATUS -> AtBit(csr.mstatus_mie, MIE_BIT)
                          + AtBit(csr.mstatus_mpie, MPIE_BIT)
    [] c = CSR_MIE     -> AtBit(csr.mie_meie, MEIE_BIT)
    [] c = CSR_MTVEC   -> WordAlign(csr.mtvec)
    [] c = CSR_MEPC    -> WordAlign(csr.mepc)
    [] c = CSR_MCAUSE  -> csr.mcause
    [] OTHER           -> 0

csr_written(c, value) ==
  CASE c = CSR_MSTATUS -> [csr EXCEPT !.mstatus_mie = Bit(value, MIE_BIT),
                                      !.mstatus_mpie = Bit(value, MPIE_BIT)]
    [] c = CSR_MIE     -> [csr EXCEPT !.mie_meie = Bit(value, MEIE_BIT)]
    [] c = CSR_MTVEC   -> [csr EXCEPT !.mtvec = WordAlign(value)]
    [] c = CSR_MEPC    -> [csr EXCEPT !.mepc = WordAlign(value)]
    [] c = CSR_MCAUSE  -> [csr EXCEPT !.mcause = value]
    [] OTHER           -> csr

enter_trap(cause) ==
  /\ csr' = [csr EXCEPT !.mepc = WordAlign(pc), !.mcause = cause,
                        !.mstatus_mpie = csr.mstatus_mie, !.mstatus_mie = FALSE]
  /\ pc' = WordAlign(csr.mtvec)
  /\ UNCHANGED <<imem, regs, dmem, halted>>

----------------------------------------------------------------------------
(* The instructions.                                                       *)

arith(m, x, y) ==
  CASE m = "add"  -> U(x + y)
    [] m = "sub"  -> U(x - y)
    [] m = "sll"  -> Sll(x, Shamt(y))
    [] m = "slt"  -> IF Signed(x) < Signed(y) THEN 1 ELSE 0
    [] m = "sltu" -> IF x < y THEN 1 ELSE 0
    [] m = "xor"  -> BitXor(x, y)
    [] m = "srl"  -> Srl(x, Shamt(y))
    [] m = "sra"  -> Sra(x, Shamt(y))
    [] m = "or"   -> BitOr(x, y)
    [] m = "and"  -> BitAnd(x, y)

taken(m) ==
  CASE m = "beq"  -> a = b
    [] m = "bne"  -> a # b
    [] m = "blt"  -> Signed(a) < Signed(b)
    [] m = "bge"  -> Signed(a) >= Signed(b)
    [] m = "bltu" -> a < b
    [] m = "bgeu" -> a >= b

\* The register result, for the classes that have one.
rd_we == fmt \in {"R", "I", "L", "U", "J", "CSR-R", "CSR-I"}
rd_val == CASE fmt = "R" -> arith(mnem, a, b)
            [] fmt = "I" -> arith(mnem, a, insn.imm)
            [] fmt = "L" -> load(mnem)
            [] fmt = "U" -> IF mnem = "lui" THEN insn.imm ELSE U(pc + insn.imm)
            [] fmt = "J" -> pc4
            [] fmt \in {"CSR-R", "CSR-I"} -> csr_read(insn.csr)

\* The tail of iss.py's step: write rd, move on to next_pc.
finish(next_pc) ==
  /\ regs' = IF rd_we THEN wr_reg(insn.rd, rd_val) ELSE regs
  /\ pc' = next_pc
  /\ UNCHANGED <<imem, halted>>

\* The line of the commit trace the instruction leaves: iss.py writes a
\* field only where it has a value.
trace_line ==
  [pc |-> pc, insn |-> insn,
   rd |-> IF rd_we THEN insn.rd ELSE 0,
   rd_val |-> IF rd_we /\ insn.rd # 0 THEN rd_val ELSE 0,
   mem_we |-> fmt = "S",
   mem_addr |-> IF fmt = "S" THEN addr ELSE 0,
   mem_val |-> IF fmt = "S" THEN b % 2^lane_width(mnem) ELSE 0]

\* A legal instruction of a class is next and the machine is running.
next_is(classes) == ~halted /\ fmt \in classes /\ mnem # "illegal"

\* R, I, L and U: nothing but the register result.
Compute == /\ next_is({"R", "I", "L", "U"})
           /\ finish(pc4)
           /\ UNCHANGED <<dmem, csr>>

Store == /\ next_is({"S"})
         /\ dmem' = store(mnem)
         /\ finish(pc4)
         /\ UNCHANGED csr

Branch == /\ next_is({"B"})
          /\ finish(IF taken(mnem) THEN U(pc + insn.imm) ELSE pc4)
          /\ UNCHANGED <<dmem, csr>>

Jump == /\ next_is({"J"})
        /\ finish(IF mnem = "jal" THEN U(pc + insn.imm) ELSE HalfAlign(addr))
        /\ UNCHANGED <<dmem, csr>>

CsrAccess ==
  /\ next_is({"CSR-R", "CSR-I"})
  /\ LET old == csr_read(insn.csr)
         src == IF fmt = "CSR-R" THEN a ELSE insn.rs1
         new == CASE mnem = "csrrw" -> src
                  [] mnem = "csrrs" -> BitOr(old, src)
                  [] mnem = "csrrc" -> BitAnd(old, BitNot(src))
     IN  csr' = IF mnem = "csrrw" \/ insn.rs1 # 0
                THEN csr_written(insn.csr, new) ELSE csr
  /\ finish(pc4)
  /\ UNCHANGED dmem

Ecall == next_is({"SYS"}) /\ mnem = "ecall" /\ enter_trap(CAUSE_ECALL_M)

Mret == /\ next_is({"SYS"}) /\ mnem = "mret"
        /\ csr' = [csr EXCEPT !.mstatus_mie = csr.mstatus_mpie,
                              !.mstatus_mpie = TRUE]
        /\ finish(WordAlign(csr.mepc))
        /\ UNCHANGED dmem

Ebreak == /\ next_is({"SYS"}) /\ mnem = "ebreak"
          /\ halted' = TRUE
          /\ pc' = pc4
          /\ UNCHANGED <<imem, regs, dmem, csr>>

\* iss.py: the interrupt is sampled before the instruction is decoded.
Interrupt == /\ ~halted /\ csr.mstatus_mie /\ csr.mie_meie
             /\ enter_trap(CAUSE_MACHINE_EXT)

\* control.v's rule: an illegal word is a NOP that does not retire.
SkipIllegal == /\ ~halted /\ mnem = "illegal"
               /\ pc' = pc4
               /\ UNCHANGED <<imem, regs, dmem, csr, halted>>

Next == \/ Compute \/ Store \/ Branch \/ Jump \/ CsrAccess
        \/ Ecall \/ Mret \/ Ebreak \/ Interrupt \/ SkipIllegal

Spec == Init /\ [][Next]_archVars
=============================================================================
