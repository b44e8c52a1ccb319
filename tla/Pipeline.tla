------------------------------ MODULE Pipeline ------------------------------
(***************************************************************************)
(* The five-stage pipeline, rtl/cpu_top.v with the modules it instantiates.*)
(*                                                                         *)
(* Every reg of the design is a field of a variable and every wire that    *)
(* carries control is an operator with the wire's name, so a definition    *)
(* here can be read against the assign it stands for.  One clock edge is   *)
(* one step: `clock(rst)' conjoins one operator per clocked process, each  *)
(* giving the next value of the registers that process owns, all of them   *)
(* computed from the wires of the cycle that ends.                         *)
(*                                                                         *)
(* Registers that are copies of a field of the instruction travelling with *)
(* them (rs1_addr, rs2_addr, rd_addr, funct3, csr_addr) are read from that *)
(* instruction: a flush zeroes both alike.                                 *)
(***************************************************************************)
EXTENDS Datapath

CONSTANTS
  FORWARDING,   \* the two parameters of cpu_top
  BHT_ENABLE,
  IMEM_WORDS,   \* sizes of the two memories and of the history table
  DMEM_WORDS,   \* (1024, 1024 and 64 in the source)
  BHT_ENTRIES,
  PROGRAMS,     \* possible contents of the instruction memory
  DMEM_INIT,    \* contents of the data memory at power-up
  LATCH_INIT,   \* what the load latch may hold before the first load
  IRQ_LEVELS    \* the levels the environment drives on `irq'

Imem     == [0 .. (IMEM_WORDS - 1) -> Instruction]
Dmem     == [0 .. (DMEM_WORDS - 1) -> Word]
BhtEntry == 0 .. (BHT_ENTRIES - 1)

ASSUME ParameterAssumption == FORWARDING \in BOOLEAN /\ BHT_ENABLE \in BOOLEAN
ASSUME SizeAssumption ==
  {IMEM_WORDS, DMEM_WORDS, BHT_ENTRIES} \subseteq Nat \ {0}
ASSUME ContentsAssumption ==
  PROGRAMS \subseteq Imem /\ DMEM_INIT \in Dmem /\ LATCH_INIT \in Word
ASSUME IrqAssumption == IRQ_LEVELS \subseteq BOOLEAN

VARIABLES
  imem,     \* instruction memory: a ROM
  irq,      \* the interrupt input, a level
  pc_q,     \* the PC register
  if_inst,  \* imem's output register: the instruction word of IF/ID
  if_id,    \* the four pipeline registers
  id_ex,
  ex_mem,
  mem_wb,
  regs,     \* register file
  dmem,     \* data memory
  latch,    \* dmem's read side: rword, raddr_l, rfunct3
  csr,
  ctr,      \* history table
  done_r    \* sticky halt

vars == <<imem, irq, pc_q, if_inst, if_id, id_ex, ex_mem, mem_wb, regs, dmem,
          latch, csr, ctr, done_r>>

----------------------------------------------------------------------------
(* The pipeline registers, and what a reset or a flush leaves in them.     *)

IF_ID  == [pc : Word, valid : BOOLEAN, pred_state : BhtState]
ID_EX  == [valid : BOOLEAN, pc : Word, inst : Instruction, rs1_val : Word,
           rs2_val : Word, imm : Word, ctl : ControlWord, pred_taken : BOOLEAN]
EX_MEM == [valid : BOOLEAN, illegal : BOOLEAN, pc : Word, inst : Instruction,
           reg_we : BOOLEAN, wb_sel : WbSels, res : Word, store_data : Word,
           mem_re : BOOLEAN, mem_we : BOOLEAN, ebreak : BOOLEAN]
MEM_WB == [valid : BOOLEAN, illegal : BOOLEAN, pc : Word, inst : Instruction,
           reg_we : BOOLEAN, wb_sel : WbSels, res : Word, mem_we : BOOLEAN,
           mem_val : Word, ebreak : BOOLEAN]

\* The read side of dmem.
Latch == [rword : Word, raddr_l : 0 .. 3, rfunct3 : 0 .. 7]

IF_ID_ZERO  == [pc |-> 0, valid |-> FALSE, pred_state |-> 0]
ID_EX_ZERO  == [valid |-> FALSE, pc |-> 0, inst |-> ZERO_INST, rs1_val |-> 0,
                rs2_val |-> 0, imm |-> 0, ctl |-> ZERO_CONTROL,
                pred_taken |-> FALSE]
EX_MEM_ZERO == [valid |-> FALSE, illegal |-> FALSE, pc |-> 0,
                inst |-> ZERO_INST, reg_we |-> FALSE, wb_sel |-> "ALU",
                res |-> 0, store_data |-> 0, mem_re |-> FALSE,
                mem_we |-> FALSE, ebreak |-> FALSE]
MEM_WB_ZERO == [valid |-> FALSE, illegal |-> FALSE, pc |-> 0,
                inst |-> ZERO_INST, reg_we |-> FALSE, wb_sel |-> "ALU",
                res |-> 0, mem_we |-> FALSE, mem_val |-> 0, ebreak |-> FALSE]

imem_index(a) == (a \div 4) % IMEM_WORDS
dmem_index(a) == (a \div 4) % DMEM_WORDS
bht_index(a)  == (a \div 4) % BHT_ENTRIES

\* Power-up followed by the reset the testbenches hold for three cycles: by
\* its end imem has latched the word at address 0.  tb_program.v zeroes the
\* register file, which has no reset of its own.
Init ==
  /\ imem \in PROGRAMS
  /\ irq \in IRQ_LEVELS
  /\ pc_q = 0
  /\ if_inst = imem[0]
  /\ if_id = IF_ID_ZERO
  /\ id_ex = ID_EX_ZERO
  /\ ex_mem = EX_MEM_ZERO
  /\ mem_wb = MEM_WB_ZERO
  /\ regs = [r \in Reg |-> 0]
  /\ dmem = DMEM_INIT
  /\ latch = [rword |-> LATCH_INIT, raddr_l |-> 0, rfunct3 |-> 0]
  /\ csr = ResetCsrs
  /\ ctr = [e \in BhtEntry |-> WEAK_NT]
  /\ done_r = FALSE

----------------------------------------------------------------------------
(* WB: write-back data and the register-file write port.                   *)

halt == done_r

dmem_rdata == load_data(latch.rword, latch.raddr_l, latch.rfunct3)
wb_data    == IF mem_wb.wb_sel = "MEM" THEN dmem_rdata ELSE mem_wb.res
wb_rd_addr == mem_wb.inst.rd
wb_reg_we  == mem_wb.valid /\ mem_wb.reg_we /\ wb_rd_addr # 0 /\ ~halt

\* mutant: a word that decodes to nothing retires
wb_retire_illegal == mem_wb.valid /\ ~halt

wb_retire  == mem_wb.valid /\ ~mem_wb.illegal /\ ~halt

----------------------------------------------------------------------------
(* ID: decode and register read, with the WB->ID bypass of regfile.v.      *)

id_inst == IF if_id.valid THEN if_inst ELSE NOP_INST
id_ctl  == control(id_inst)
id_imm  == imm_gen(id_inst, id_ctl)

\* mutant: no WB->ID bypass
rdata_no_bypass(r) == IF r = 0 THEN 0 ELSE regs[r]

rdata(r) == IF r = 0 THEN 0
            ELSE IF wb_reg_we /\ wb_rd_addr = r THEN wb_data
            ELSE regs[r]

id_rs1_val == rdata(id_inst.rs1)
id_rs2_val == rdata(id_inst.rs2)

----------------------------------------------------------------------------
(* EX: forwarding (forward_unit.v), ALU, branch resolution, CSR read.      *)

\* mutant: a result for x0 is forwarded like any other
mem_writes_x0 == FORWARDING /\ ex_mem.reg_we

mem_writes == FORWARDING /\ ex_mem.reg_we /\ ex_mem.inst.rd # 0
wb_writes  == FORWARDING /\ mem_wb.reg_we /\ mem_wb.inst.rd # 0

\* mutant: WB is looked at before MEM
fwd_wb_first(rs) == CASE wb_writes /\ mem_wb.inst.rd = rs -> "WB"
                      [] ~(wb_writes /\ mem_wb.inst.rd = rs)
                         /\ mem_writes /\ ex_mem.inst.rd = rs -> "MEM"
                      [] OTHER -> "REG"

fwd(rs) == CASE mem_writes /\ ex_mem.inst.rd = rs -> "MEM"
             [] ~(mem_writes /\ ex_mem.inst.rd = rs)
                /\ wb_writes /\ mem_wb.inst.rd = rs -> "WB"
             [] OTHER -> "REG"
fwd_a == fwd(id_ex.inst.rs1)
fwd_b == fwd(id_ex.inst.rs2)
fwd_c == fwd(id_ex.inst.rs2)

forwarded(sel, val) == CASE sel = "MEM" -> ex_mem.res
                         [] sel = "WB"  -> wb_data
                         [] OTHER       -> val

ex_a_val      == forwarded(fwd_a, id_ex.rs1_val)
ex_b_val      == forwarded(fwd_b, id_ex.rs2_val)
ex_store_data == forwarded(fwd_c, id_ex.rs2_val)

alu_y == alu(id_ex.ctl.alu_op,
             IF id_ex.ctl.alu_src_a THEN id_ex.pc ELSE ex_a_val,
             IF id_ex.ctl.alu_src_b THEN id_ex.imm ELSE ex_b_val)

branch_cond == branch_taken(id_ex.inst.funct3, ex_a_val, ex_b_val)

csr_rdata == IF id_ex.valid /\ id_ex.ctl.csr_en
             THEN csr_view(csr, id_ex.inst.csr) ELSE 0
csr_wsrc  == IF id_ex.ctl.csr_imm THEN id_ex.imm ELSE ex_a_val

ex_res == CASE id_ex.ctl.wb_sel = "PC4" -> U(id_ex.pc + 4)
            [] id_ex.ctl.wb_sel = "CSR" -> csr_rdata
            [] OTHER                    -> alu_y

----------------------------------------------------------------------------
(* Traps, redirects and the interlock.                                     *)

\* mutant: the ebreak in WB no longer holds the front end
ebreak_pending_no_wb == \/ id_ex.valid /\ id_ex.ctl.ebreak
                        \/ ex_mem.valid /\ ex_mem.ebreak

\* The shadow of an ebreak: nothing behind it may commit.
ebreak_pending == \/ id_ex.valid /\ id_ex.ctl.ebreak
                  \/ ex_mem.valid /\ ex_mem.ebreak
                  \/ mem_wb.valid /\ mem_wb.ebreak

csr_irq_pending == irq /\ csr.mstatus_mie /\ csr.mie_meie

\* mutant: an interrupt may squash an ebreak
irq_taken_unmasked == id_ex.valid /\ csr_irq_pending

irq_taken  == id_ex.valid /\ csr_irq_pending /\ ~ebreak_pending
trap_taken == irq_taken \/ (id_ex.valid /\ id_ex.ctl.ecall)
trap_cause == IF irq_taken THEN CAUSE_MACHINE_EXT ELSE CAUSE_ECALL_M

mret_taken == id_ex.valid /\ id_ex.ctl.mret
jalr_taken == id_ex.valid /\ id_ex.ctl.jalr

\* mutant: a branch squashed by an interrupt is still resolved
ex_branch_valid_squashed == id_ex.valid /\ id_ex.ctl.branch

ex_branch_valid == id_ex.valid /\ id_ex.ctl.branch /\ ~trap_taken
br_redirect     == ex_branch_valid /\ id_ex.pred_taken # branch_cond
redirect_ex     == trap_taken \/ mret_taken \/ br_redirect \/ jalr_taken

\* hazard_unit.v: does the instruction in ID read register `rd'?
match(rd) == \/ uses_rs1(id_inst, id_ctl) /\ id_inst.rs1 = rd
             \/ uses_rs2(id_inst) /\ id_inst.rs2 = rd

ex_pending_load   == id_ex.valid /\ id_ex.ctl.mem_re /\ id_ex.inst.rd # 0
ex_pending_write  == id_ex.valid /\ id_ex.ctl.reg_we /\ id_ex.inst.rd # 0
mem_pending_write == ex_mem.valid /\ ex_mem.reg_we /\ ex_mem.inst.rd # 0

load_use   == ex_pending_load /\ match(id_ex.inst.rd)

\* mutants: the producer in MEM is forgotten; the one in WB is waited for
raw_any_ex_only == ex_pending_write /\ match(id_ex.inst.rd)
raw_any_wb_too  == \/ ex_pending_write /\ match(id_ex.inst.rd)
                   \/ mem_pending_write /\ match(ex_mem.inst.rd)
                   \/ mem_wb.valid /\ mem_wb.reg_we /\ match(mem_wb.inst.rd)

raw_any    == \/ ex_pending_write /\ match(id_ex.inst.rd)
              \/ mem_pending_write /\ match(ex_mem.inst.rd)
need_stall == IF FORWARDING THEN load_use ELSE raw_any

\* mutant: the stall ignores a redirect of the same cycle
stall_despite_redirect == if_id.valid /\ need_stall /\ ~ebreak_pending

stall == if_id.valid /\ need_stall /\ ~redirect_ex /\ ~ebreak_pending

\* jal, and a branch the history table predicts taken, redirect from ID.
id_pred_taken == if_id.valid /\ id_ctl.branch /\ if_id.pred_state >= 2
jal_taken     == if_id.valid /\ id_ctl.jal /\ ~stall /\ ~ebreak_pending

\* mutant: a stalled branch redirects too
bht_taken_stalled == id_pred_taken /\ ~ebreak_pending

bht_taken     == id_pred_taken /\ ~stall /\ ~ebreak_pending
redirect_id   == jal_taken \/ bht_taken
redirect      == redirect_ex \/ redirect_id

flush_if == redirect_ex \/ redirect_id \/ ebreak_pending
flush_id == redirect_ex \/ ebreak_pending

\* mutant: a trap does not squash the instruction in EX
flush_ex_never == FALSE

flush_ex == trap_taken /\ ~halt

fetch_en == ~halt /\ (redirect \/ ~stall)

\* The targets and the PC-select mux, in priority order.
id_redirect_target == U(if_id.pc + id_imm)
ex_jalr_target     == HalfAlign(alu_y)
ex_correct_target  == IF branch_cond THEN U(id_ex.pc + id_ex.imm)
                                     ELSE U(id_ex.pc + 4)

pc_next == IF trap_taken       THEN csr.mtvec
           ELSE IF mret_taken  THEN csr.mepc
           ELSE IF br_redirect THEN ex_correct_target
           ELSE IF jalr_taken  THEN ex_jalr_target
           ELSE IF redirect_id THEN id_redirect_target
           ELSE U(pc_q + 4)

----------------------------------------------------------------------------
(* The clocked processes, one operator each.                               *)

pc_reg(rst) ==
  pc_q' = IF rst THEN 0 ELSE IF fetch_en THEN pc_next ELSE pc_q

\* No reset: the output register is refreshed by the fetches of the reset.
imem_read ==
  /\ if_inst' = IF fetch_en THEN imem[imem_index(pc_q)] ELSE if_inst
  /\ imem' = imem

bht_pred_state_if == IF BHT_ENABLE THEN ctr[bht_index(pc_q)] ELSE WEAK_NT

\* mutant: IF/ID has no reset
if_id_reg_no_reset(rst) ==
  if_id' = IF flush_if /\ ~halt THEN IF_ID_ZERO
           ELSE IF fetch_en
           THEN [pc |-> pc_q, valid |-> TRUE, pred_state |-> bht_pred_state_if]
           ELSE if_id

if_id_reg(rst) ==
  if_id' = IF rst \/ (flush_if /\ ~halt) THEN IF_ID_ZERO
           ELSE IF fetch_en
           THEN [pc |-> pc_q, valid |-> TRUE, pred_state |-> bht_pred_state_if]
           ELSE if_id

id_ex_reg(rst) ==
  id_ex' = IF rst \/ (~halt /\ (stall \/ flush_id)) THEN ID_EX_ZERO
           ELSE IF halt THEN id_ex
           ELSE [valid |-> if_id.valid, pc |-> if_id.pc, inst |-> id_inst,
                 rs1_val |-> id_rs1_val, rs2_val |-> id_rs2_val,
                 imm |-> id_imm, ctl |-> id_ctl, pred_taken |-> id_pred_taken]

ex_mem_reg(rst) ==
  ex_mem' = IF rst \/ flush_ex THEN EX_MEM_ZERO
            ELSE IF halt THEN ex_mem
            ELSE [valid |-> id_ex.valid, illegal |-> id_ex.ctl.illegal,
                  pc |-> id_ex.pc, inst |-> id_ex.inst,
                  reg_we |-> id_ex.valid /\ id_ex.ctl.reg_we,
                  wb_sel |-> id_ex.ctl.wb_sel, res |-> ex_res,
                  store_data |-> ex_store_data,
                  mem_re |-> id_ex.valid /\ id_ex.ctl.mem_re,
                  mem_we |-> id_ex.valid /\ id_ex.ctl.mem_we,
                  ebreak |-> id_ex.ctl.ebreak]

mem_wb_reg(rst) ==
  mem_wb' = IF rst THEN MEM_WB_ZERO
            ELSE IF halt THEN mem_wb
            ELSE [valid |-> ex_mem.valid, illegal |-> ex_mem.illegal,
                  pc |-> ex_mem.pc, inst |-> ex_mem.inst,
                  reg_we |-> ex_mem.reg_we, wb_sel |-> ex_mem.wb_sel,
                  res |-> ex_mem.res, mem_we |-> ex_mem.mem_we,
                  mem_val |-> wmask_data(ex_mem.inst.funct3, ex_mem.store_data),
                  ebreak |-> ex_mem.ebreak]

regfile ==
  regs' = IF wb_reg_we THEN [regs EXCEPT ![wb_rd_addr] = wb_data] ELSE regs

\* A store replaces byte lanes; a load latches the word with the lane and
\* the width that will extract it next cycle.  Neither has a reset.
dmem_port ==
  LET index == dmem_index(ex_mem.res)
      lane  == ex_mem.res % 4
  IN  /\ dmem' = IF ex_mem.mem_we /\ ~halt
                 THEN [dmem EXCEPT ![index] =
                         store_lanes(@, lane, ex_mem.inst.funct3,
                                     ex_mem.store_data)]
                 ELSE dmem
      /\ latch' = IF ex_mem.mem_re /\ ~halt
                  THEN [rword |-> dmem[index], raddr_l |-> lane,
                        rfunct3 |-> ex_mem.inst.funct3]
                  ELSE latch

csr_write_en == id_ex.valid /\ id_ex.ctl.csr_we /\ ~trap_taken /\ ~halt

csr_file(rst) ==
  csr' = IF rst THEN ResetCsrs
         ELSE IF trap_taken /\ ~halt THEN csr_trap(csr, id_ex.pc, trap_cause)
         ELSE IF mret_taken /\ ~trap_taken /\ ~halt THEN csr_mret(csr)
         ELSE IF csr_write_en
         THEN csr_write(csr, id_ex.inst.csr,
                        csr_wval(id_ex.inst.funct3 % 4,
                                 csr_view(csr, id_ex.inst.csr), csr_wsrc))
         ELSE csr

bht_update_en == ex_branch_valid /\ ~halt

bht(rst) ==
  ctr' = IF rst THEN [e \in BhtEntry |-> WEAK_NT]
         ELSE IF BHT_ENABLE /\ bht_update_en
         THEN [ctr EXCEPT ![bht_index(id_ex.pc)] = update_next(@, branch_cond)]
         ELSE ctr

done(rst) ==
  done_r' = (~rst /\ (done_r \/ (mem_wb.valid /\ mem_wb.ebreak)))

clock(rst) ==
  /\ pc_reg(rst)
  /\ imem_read
  /\ if_id_reg(rst)
  /\ id_ex_reg(rst)
  /\ ex_mem_reg(rst)
  /\ mem_wb_reg(rst)
  /\ regfile
  /\ dmem_port
  /\ csr_file(rst)
  /\ bht(rst)
  /\ done(rst)

\* The environment may change the interrupt level between two edges.
drive_irq == irq' \in IRQ_LEVELS

Next == clock(FALSE) /\ drive_irq

Spec == Init /\ [][Next]_vars

\* The clock does not stop.
FairSpec == Spec /\ WF_vars(Next)

----------------------------------------------------------------------------
(* Properties.                                                             *)

\* Every register holds a value of its width: no adder, shifter, saturating
\* counter, byte lane or extracted immediate can leave it.
TypeOK ==
  /\ imem \in Imem
  /\ irq \in BOOLEAN
  /\ pc_q \in Word
  /\ if_inst \in Instruction
  /\ if_id \in IF_ID
  /\ id_ex \in ID_EX
  /\ ex_mem \in EX_MEM
  /\ mem_wb \in MEM_WB
  /\ regs \in [Reg -> Word]
  /\ dmem \in Dmem
  /\ latch \in Latch
  /\ csr \in Csrs
  /\ ctr \in [BhtEntry -> BhtState]
  /\ done_r \in BOOLEAN

\* From the cycle an ebreak leaves EX until the machine is frozen, and for
\* ever after, every slot behind it is empty: what cpu_top.v says at
\* ebreak_pending, which tracks the ebreak through MEM and WB "instead of
\* letting a fresh fetch slip in behind it".
EbreakShadow ==
  /\ ex_mem.ebreak => ~id_ex.valid /\ ~if_id.valid
  /\ mem_wb.ebreak => ~ex_mem.valid /\ ~id_ex.valid /\ ~if_id.valid
  /\ done_r => ~mem_wb.valid /\ ~ex_mem.valid /\ ~id_ex.valid /\ ~if_id.valid

\* EX is never empty for three cycles running: a redirect costs two bubbles,
\* a load-use stall one, a stall without forwarding two, and no two of these
\* penalties add up (the costs of DESIGN.md 11.1, and "there is no other
\* source of a stall or a bubble in this design", 11.2).
BubblesBounded ==
  [][ ~done_r /\ ~ebreak_pending /\ ~id_ex.valid /\ ~id_ex'.valid
        => if_id'.valid /\ ~stall' ]_vars

\* The machine never stops executing until it has halted: no stall waits for
\* itself, and an interrupt line that stays high cannot make trap entry
\* squash one instruction after another (trap entry clears MIE).
AlwaysExecuting == []<>((id_ex.valid /\ ~irq_taken) \/ done_r)

\* An ebreak that reaches EX halts the machine: no interrupt can squash it
\* and nothing can hold it up.
EbreakHalts == (id_ex.valid /\ id_ex.ctl.ebreak) ~> done_r
=============================================================================
