-------------------------------- MODULE Isa --------------------------------
(***************************************************************************)
(* The instruction word as the machine sees it: the fields rtl/cpu_top.v   *)
(* slices out of it (183-189) and tools/iss.py shifts out of it (118-123). *)
(* `imm' stands for the immediate that imm_gen.v assembles for the         *)
(* opcode's format, already sign-extended to a word; the zimm of the       *)
(* immediate CSR forms is the raw rs1 field and is kept there.             *)
(***************************************************************************)
EXTENDS Words

CONSTANT NREG   \* registers (32 in the source)

Reg == 0 .. (NREG - 1)

\* A register number is also a legal zimm.
ASSUME RegAssumption == NREG \in Nat \ {0} /\ NREG <= 2^XLEN

Instruction ==
  [opcode : 0 .. 127, funct3 : 0 .. 7, funct7 : 0 .. 127, rd : Reg,
   rs1 : Reg, rs2 : Reg, imm : Word, csr : 0 .. 4095]

\* The all-zero word a flush leaves in a pipeline register: opcode 0 is not
\* an instruction.
ZERO_INST ==
  [opcode |-> 0, funct3 |-> 0, funct7 |-> 0, rd |-> 0, rs1 |-> 0,
   rs2 |-> 0, imm |-> 0, csr |-> 0]

OP_LOAD   == 3
OP_IARITH == 19
OP_AUIPC  == 23
OP_STORE  == 35
OP_R      == 51
OP_LUI    == 55
OP_BRANCH == 99
OP_JALR   == 103
OP_JAL    == 111
OP_SYSTEM == 115

\* addi x0, x0, 0
NOP_INST == [ZERO_INST EXCEPT !.opcode = OP_IARITH]

\* SYSTEM selectors of funct3 = 000, and the five implemented CSRs.
CSR_ECALL   == 0
CSR_EBREAK  == 1
CSR_MRET    == 770
CSR_MSTATUS == 768
CSR_MIE     == 772
CSR_MTVEC   == 773
CSR_MEPC    == 833
CSR_MCAUSE  == 834

----------------------------------------------------------------------------
(* The machine-mode CSRs: the same six fields in csr.v and in iss.py.      *)

CONSTANT MEIE_BIT   \* mie.MEIE (11 in the source)

MIE_BIT  == 3       \* mstatus.MIE
MPIE_BIT == 7       \* mstatus.MPIE

ASSUME CsrBitsAssumption == MEIE_BIT \in 0 .. (XLEN - 1) /\ XLEN > MPIE_BIT

Csrs ==
  [mstatus_mie : BOOLEAN, mstatus_mpie : BOOLEAN, mie_meie : BOOLEAN,
   mtvec : Word, mepc : Word, mcause : Word]

\* Reset / constructor values.
ResetCsrs ==
  [mstatus_mie |-> FALSE, mstatus_mpie |-> FALSE, mie_meie |-> FALSE,
   mtvec |-> 0, mepc |-> 0, mcause |-> 0]

CAUSE_ECALL_M     == 11
CAUSE_MACHINE_EXT == 2^(XLEN - 1) + 11

ASSUME CauseAssumption == {CAUSE_ECALL_M, CAUSE_MACHINE_EXT} \subseteq Word
=============================================================================
