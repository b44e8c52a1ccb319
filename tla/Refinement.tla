----------------------------- MODULE Refinement -----------------------------
(***************************************************************************)
(* The pipeline implements the architecture.                               *)
(*                                                                         *)
(* An instruction takes effect, for the outside observer, in its EX cycle: *)
(* that is where a trap squashes it, where a branch is resolved, where a   *)
(* CSR is written and where mepc is sampled.  So the architectural state   *)
(* of a cycle is the state before the instruction in EX: what the older    *)
(* instructions in MEM and WB still have to write is added to the register *)
(* file and to the data memory, and the PC is that of the oldest           *)
(* instruction not yet executed, wherever in the front end it is.          *)
(***************************************************************************)
EXTENDS Pipeline

\* The programs hold none of the SYSTEM words with a nonzero rd or rs1 that
\* control.v takes for an ecall, an ebreak or an mret and iss.py for illegal.
ASSUME EncodedAssumption ==
  \A p \in PROGRAMS : \A k \in DOMAIN p :
    (/\ p[k].opcode = OP_SYSTEM /\ p[k].funct3 = 0
     /\ p[k].csr \in {CSR_ECALL, CSR_EBREAK, CSR_MRET})
      => p[k].rd = 0 /\ p[k].rs1 = 0

\* The store in MEM, as if it had reached the memory.
abs_dmem ==
  IF ex_mem.mem_we
  THEN [dmem EXCEPT ![dmem_index(ex_mem.res)] =
          store_lanes(@, ex_mem.res % 4, ex_mem.inst.funct3,
                      ex_mem.store_data)]
  ELSE dmem

\* The register write of WB, then that of MEM; a load in MEM will return
\* what the memory holds now.
mem_result ==
  IF ex_mem.wb_sel = "MEM"
  THEN load_data(dmem[dmem_index(ex_mem.res)], ex_mem.res % 4,
                 ex_mem.inst.funct3)
  ELSE ex_mem.res

abs_regs ==
  [r \in Reg |->
     IF r # 0 /\ ex_mem.reg_we /\ ex_mem.inst.rd = r /\ ~halt THEN mem_result
     ELSE IF wb_reg_we /\ wb_rd_addr = r THEN wb_data
     ELSE regs[r]]

abs_halted == done_r \/ ex_mem.ebreak \/ mem_wb.ebreak

\* After an ebreak the PC is the address behind it.  The fetch runs on for
\* the four cycles the ebreak needs from EX to `done', and stops there.
abs_pc == IF done_r THEN U(pc_q - 16)
          ELSE IF ex_mem.ebreak THEN U(ex_mem.pc + 4)
          ELSE IF mem_wb.ebreak THEN U(mem_wb.pc + 4)
          ELSE IF id_ex.valid THEN id_ex.pc
          ELSE IF if_id.valid THEN if_id.pc
          ELSE pc_q

Architecture == INSTANCE Arch WITH
  pc <- abs_pc, regs <- abs_regs, dmem <- abs_dmem, halted <- abs_halted

\* Every clock edge is one architectural step or none: bubbles, stalls,
\* flushes and predictions are invisible, traps are precise, and with them
\* every register, memory word and CSR is what the reference model computes
\* (the claim tests compare trace line by trace line).
ImplementsArchitecture == Architecture!Spec

\* The operands an instruction in EX really reads, after the forwarding
\* multiplexers, are the architectural values of its source registers: the
\* newest older write wins, a load is never taken from MEM, x0 is never
\* forwarded, and without forwarding the register file alone is up to date.
OperandsAreArchitectural ==
  id_ex.valid =>
    /\ uses_rs1(id_ex.inst, id_ex.ctl) =>
         ex_a_val = (IF id_ex.inst.rs1 = 0 THEN 0 ELSE abs_regs[id_ex.inst.rs1])
    /\ uses_rs2(id_ex.inst) =>
         LET rs2_val == IF id_ex.inst.rs2 = 0 THEN 0
                        ELSE abs_regs[id_ex.inst.rs2]
         IN  ex_b_val = rs2_val /\ ex_store_data = rs2_val
=============================================================================
