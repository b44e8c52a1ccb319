----------------------------- MODULE TraceProofs -----------------------------
(***************************************************************************)
(* Theorems about the commit trace: beside the reference model that prints *)
(* its own line by line (Cosim.tla), and in a test with interrupts, where  *)
(* the reference replays afterwards what the testbench measured            *)
(* (Testbench.tla).  Both rest on the invariant and the edges of           *)
(* RefinementProofs.                                                       *)
(***************************************************************************)
EXTENDS Cosim, Testbench, RefinementProofs, FiniteSetTheorems

----------------------------------------------------------------------------
(* The commit trace.                                                       *)

\* What a control word says of the line an instruction leaves.
Traces(c, illegal, reg_we, mem_we) ==
  c.illegal = illegal /\ c.reg_we = reg_we /\ c.mem_we = mem_we

\* What each row of the control table says of it.
LEMMA RowTraces ==
  ASSUME NEW op
  PROVE  /\ Traces(r_ctl(op), FALSE, TRUE, FALSE)
         /\ Traces(iarith_ctl(op), FALSE, TRUE, FALSE)
         /\ Traces(load_ctl, FALSE, TRUE, FALSE)
         /\ Traces(store_ctl, FALSE, FALSE, TRUE)
         /\ Traces(branch_ctl, FALSE, FALSE, FALSE)
         /\ Traces(lui_ctl, FALSE, TRUE, FALSE)
         /\ Traces(auipc_ctl, FALSE, TRUE, FALSE)
         /\ Traces(jal_ctl, FALSE, TRUE, FALSE)
         /\ Traces(jalr_ctl, FALSE, TRUE, FALSE)
         /\ Traces(illegal_ctl, TRUE, FALSE, FALSE)
BY DEF Traces, r_ctl, iarith_ctl, load_ctl, store_ctl, branch_ctl, lui_ctl, auipc_ctl,
       jal_ctl, jalr_ctl, illegal_ctl, ZERO_CONTROL

\* The classes of iss.py that write a register.
Writers == {"R", "I", "L", "U", "J", "CSR-R", "CSR-I"}

\* The two decoders agree on the line of a word: whether it has one at all,
\* a register result, a store.
LEMMA LegalTraces ==
  ASSUME NEW i \in Instruction, Encoded(i), legal(i)
  PROVE  LET c == control(i)
             d == Architecture!decode(i)
         IN  /\ c.illegal = FALSE /\ d[2] # "illegal"
             /\ d[2] = "ecall" => c.ecall
             /\ c.reg_we = (d[1] \in Writers) /\ c.mem_we = (d[1] = "S")
<1> DEFINE c == control(i)
           d == Architecture!decode(i)
           Agree == /\ c.illegal = FALSE /\ d[2] # "illegal"
                    /\ d[2] = "ecall" => c.ecall
                    /\ c.reg_we = (d[1] \in Writers) /\ c.mem_we = (d[1] = "S")
<1> SUFFICES Agree
  OBVIOUS
<1>1. i.opcode \in Opcodes
  BY LegalOpcode
<1>2. ASSUME NEW k \in Writers, NEW m, d[1] = k, d[2] = m, Traces(c, FALSE, TRUE, FALSE),
             m # "illegal", m # "ecall"
      PROVE  Agree
  <2>1. "S" \notin Writers
    BY DEF Writers
  <2>2. d[1] # "S"
    BY <1>2, <2>1, Zenon
  <2> HIDE DEF c, d
  <2> QED BY <1>2, <2>2, Zenon DEF Traces
<1>3. \A op, m : SameArith(op, m) => m # "illegal" /\ m # "ecall"
  BY DEF SameArith
<1>4. {"R", "I", "L", "U", "J", "CSR-R", "CSR-I"} \subseteq Writers
  BY DEF Writers
<1>5. CASE i.opcode = OP_R
  <2>1. Traces(c, FALSE, TRUE, FALSE)
    BY <1>5, ControlCases, RowTraces, Zenon
  <2>2. d[1] = "R" /\ SameArith(alu_op(i), d[2])
    BY <1>5, RegisterArith
  <2> HIDE DEF c, d, Agree
  <2> QED BY <1>2, <1>3, <1>4, <2>1, <2>2
<1>6. CASE i.opcode = OP_IARITH
  <2>1. Traces(c, FALSE, TRUE, FALSE)
    BY <1>6, ControlCases, RowTraces, Zenon
  <2>2. d[1] = "I" /\ SameArith(alu_op(i), d[2])
    BY <1>6, ImmediateArith
  <2> HIDE DEF c, d, Agree
  <2> QED BY <1>2, <1>3, <1>4, <2>1, <2>2
<1>7. CASE i.opcode = OP_LOAD
  <2>1. Traces(c, FALSE, TRUE, FALSE)
    BY <1>7, ControlCases, RowTraces, Zenon
  <2>2. d[1] = "L" /\ <<i.funct3, d[2]>> \in
          {<<0, "lb">>, <<1, "lh">>, <<2, "lw">>, <<4, "lbu">>, <<5, "lhu">>}
    BY <1>7, LoadNames
  <2> HIDE DEF c, d, Agree
  <2>3. d[2] # "illegal" /\ d[2] # "ecall"
    BY <2>2
  <2> QED BY <1>2, <1>4, <2>1, <2>2, <2>3
<1>8. CASE i.opcode \in {OP_LUI, OP_AUIPC, OP_JAL, OP_JALR}
  <2>1. Traces(c, FALSE, TRUE, FALSE)
    <3>1. c \in {lui_ctl, auipc_ctl, jal_ctl, jalr_ctl}
      BY <1>8, ControlCases, Zenon
    <3> QED BY <3>1, RowTraces, Zenon
  <2>2. d \in {<<"U", "lui">>, <<"U", "auipc">>, <<"J", "jal">>, <<"J", "jalr">>}
    BY <1>8, JumpNames, Zenon
  <2> HIDE DEF c, d, Agree
  <2>3. d[1] \in {"U", "J"} /\ d[2] # "illegal" /\ d[2] # "ecall"
    BY <2>2
  <2> QED BY <1>2, <1>4, <2>1, <2>3
<1>9. CASE i.opcode = OP_STORE
  <2>1. Traces(c, FALSE, FALSE, TRUE)
    BY <1>9, ControlCases, RowTraces, Zenon
  <2>2. d[1] = "S" /\ <<i.funct3, d[2]>> \in {<<0, "sb">>, <<1, "sh">>, <<2, "sw">>}
    BY <1>9, StoreNames
  <2> HIDE DEF c, d
  <2>3. d[2] # "illegal" /\ d[2] # "ecall"
    BY <2>2
  <2>4. (d[1] \in Writers) = FALSE /\ (d[1] = "S") = TRUE
    BY <2>2 DEF Writers
  <2> QED BY <2>1, <2>3, <2>4, Zenon DEF Traces
<1>10. CASE i.opcode = OP_BRANCH
  <2>1. Traces(c, FALSE, FALSE, FALSE)
    BY <1>10, ControlCases, RowTraces, Zenon
  <2>2. d = <<"B", Architecture!BR_MNEM(i.funct3)>>
    BY <1>10, InstructionFields, DecodeCases
  <2>3. i.funct3 \in {0, 1, 4, 5, 6, 7}
    BY <1>10, InstructionFields
       DEF legal, OP_R, OP_IARITH, OP_LOAD, OP_STORE, OP_BRANCH, OP_LUI, OP_AUIPC,
           OP_JAL, OP_JALR, OP_SYSTEM
  <2> DEFINE m == Architecture!BR_MNEM(i.funct3)
  <2>4. m # "illegal" /\ m # "ecall"
    BY <2>3 DEF Architecture!BR_MNEM
  <2> HIDE DEF c, d, m
  <2>5. d[1] = "B" /\ d[2] = m
    BY <2>2 DEF m
  <2>6. (d[1] \in Writers) = FALSE /\ (d[1] = "S") = FALSE
    BY <2>5 DEF Writers
  <2> QED BY <2>1, <2>4, <2>5, <2>6, Zenon DEF Traces
<1>11. CASE i.opcode = OP_SYSTEM /\ i.funct3 = 0
  <2>1. \A p, q, r \in BOOLEAN : /\ Traces(fixed_ctl(p, q, r), FALSE, FALSE, FALSE)
                                  /\ fixed_ctl(p, q, r).ecall = q
    BY DEF Traces, fixed_ctl, ZERO_CONTROL
  <2>2. c = fixed_ctl(i.csr = CSR_MRET, i.csr = CSR_ECALL, i.csr = CSR_EBREAK)
    BY <1>11, SystemCases, Zenon
  <2>3. Traces(c, FALSE, FALSE, FALSE) /\ c.ecall = (i.csr = CSR_ECALL)
    BY <2>1, <2>2, Zenon
  <2>4. \/ i.csr = CSR_ECALL /\ d = <<"SYS", "ecall">>
        \/ i.csr = CSR_EBREAK /\ d = <<"SYS", "ebreak">>
        \/ i.csr = CSR_MRET /\ d = <<"SYS", "mret">>
    BY <1>11, SystemNames, Zenon
  <2> HIDE DEF c, d
  <2>5. d[1] = "SYS" /\ d[2] # "illegal" /\ (d[2] = "ecall" => i.csr = CSR_ECALL)
    BY <2>4
  <2>6. (d[1] \in Writers) = FALSE /\ (d[1] = "S") = FALSE
    BY <2>5 DEF Writers
  <2>7. d[2] = "ecall" => c.ecall
    BY <2>3, <2>5
  <2> QED BY <2>3, <2>5, <2>6, <2>7, Zenon DEF Traces
<1>12. CASE i.opcode = OP_SYSTEM /\ i.funct3 # 0
  <2>1. i.funct3 \in {1, 2, 3} \/ i.funct3 \in {5, 6, 7}
    BY <1>12, LegalOpcode
  <2>2. \A sel, we, imm : Traces(csr_ctl(sel, we, imm), FALSE, TRUE, FALSE)
    BY DEF Traces, csr_ctl, ZERO_CONTROL
  <2>3. Traces(c, FALSE, TRUE, FALSE)
    BY <1>12, <2>1, <2>2, SystemCases, Zenon
  <2>4. /\ i.funct3 \in {1, 2, 3} => d[1] = "CSR-R"
        /\ i.funct3 \in {5, 6, 7} => d[1] = "CSR-I"
        /\ <<i.funct3 % 4, d[2]>> \in {<<1, "csrrw">>, <<2, "csrrs">>, <<3, "csrrc">>}
    BY <1>12, CsrNames
  <2> HIDE DEF c, d, Agree
  <2>5. d[1] \in {"CSR-R", "CSR-I"} /\ d[2] # "illegal" /\ d[2] # "ecall"
    BY <2>1, <2>4
  <2> QED BY <1>2, <1>4, <2>3, <2>5
<1>13. Agree
  <2> HIDE DEF c, d, Agree
  <2> QED BY <1>1, <1>5, <1>6, <1>7, <1>8, <1>9, <1>10, <1>11, <1>12, Zenon DEF Opcodes
<1> QED BY <1>13

\* MEM holds an instruction whose line is still to be shown, and the line is
\* what the trace port will show one edge later.
outstanding == ex_mem.valid /\ ~ex_mem.illegal

mem_rd_we == ex_mem.reg_we /\ ex_mem.inst.rd # 0

mem_line ==
  [pc |-> ex_mem.pc, insn |-> ex_mem.inst,
   rd |-> IF mem_rd_we THEN ex_mem.inst.rd ELSE 0,
   rd_val |-> IF mem_rd_we THEN mem_result ELSE 0,
   mem_we |-> ex_mem.mem_we,
   mem_addr |-> IF ex_mem.mem_we THEN ex_mem.res ELSE 0,
   mem_val |-> IF ex_mem.mem_we
               THEN wmask_data(ex_mem.inst.funct3, ex_mem.store_data) ELSE 0]

\* The lines of WB and MEM, in this order.
in_flight ==
  IF trace_valid
  THEN IF outstanding THEN <<trace_port, mem_line>> ELSE <<trace_port>>
  ELSE IF outstanding THEN <<mem_line>> ELSE <<>>

\* The inductive invariant: the reference is exactly these lines ahead.
CosimInv == RefInv /\ expected = in_flight

\* The port shows what MEM held.
LEMMA PortEdge ==
  ASSUME Edge
  PROVE  /\ trace_valid' <=> outstanding
         /\ outstanding => trace_port' = mem_line
<1>1. mem_wb' = [valid |-> ex_mem.valid, illegal |-> ex_mem.illegal,
                 pc |-> ex_mem.pc, inst |-> ex_mem.inst,
                 reg_we |-> ex_mem.reg_we, wb_sel |-> ex_mem.wb_sel,
                 res |-> ex_mem.res, mem_we |-> ex_mem.mem_we,
                 mem_val |-> wmask_data(ex_mem.inst.funct3, ex_mem.store_data),
                 ebreak |-> ex_mem.ebreak]
  BY EdgeFacts DEF clock, mem_wb_reg
<1>2. /\ mem_wb'.valid = ex_mem.valid /\ mem_wb'.illegal = ex_mem.illegal
      /\ mem_wb'.pc = ex_mem.pc /\ mem_wb'.inst = ex_mem.inst
      /\ mem_wb'.reg_we = ex_mem.reg_we /\ mem_wb'.res = ex_mem.res
      /\ mem_wb'.mem_we = ex_mem.mem_we
      /\ mem_wb'.mem_val = wmask_data(ex_mem.inst.funct3, ex_mem.store_data)
  BY <1>1
<1>3. done_r' => ~ex_mem.valid
  BY HaltEdge
<1>4. trace_valid' <=> outstanding
  BY <1>2, <1>3, Zenon DEF trace_valid, wb_retire, halt, outstanding
<1>5. ASSUME outstanding PROVE trace_port' = mem_line
  <2>1. wb_retire'
    BY <1>4, <1>5, Zenon DEF trace_valid
  <2>2. trace_rd_we' <=> mem_rd_we
    BY <1>2, <2>1, Zenon DEF trace_rd_we, mem_rd_we
  <2>3. trace_mem_we' = ex_mem.mem_we
    <3>1. ex_mem.mem_we \in BOOLEAN
      BY EdgeFacts DEF TypeOK, EX_MEM
    <3>2. trace_mem_we' = (wb_retire' /\ ex_mem.mem_we)
      BY <1>2, Zenon DEF trace_mem_we
    <3> QED BY <2>1, <3>1, <3>2, Zenon
  <2>4. mem_rd_we => wb_data' = mem_result
    BY WbDataEdge, Zenon DEF mem_rd_we
  <2>5. trace_port' =
          [pc |-> mem_wb'.pc, insn |-> mem_wb'.inst,
           rd |-> IF trace_rd_we' THEN mem_wb'.inst.rd ELSE 0,
           rd_val |-> IF trace_rd_we' THEN wb_data' ELSE 0,
           mem_we |-> trace_mem_we',
           mem_addr |-> IF trace_mem_we' THEN mem_wb'.res ELSE 0,
           mem_val |-> IF trace_mem_we' THEN mem_wb'.mem_val ELSE 0]
    BY Zenon DEF trace_port, trace_mem_val
  <2> QED BY <1>2, <2>2, <2>3, <2>4, <2>5, Zenon DEF mem_line
<1> QED BY <1>4, <1>5

\* The reference prints a line exactly when an instruction with one comes to MEM.
LEMMA RetireEdge ==
  ASSUME Edge PROVE /\ reference_retires <=> outstanding'
                    /\ reference_retires => /\ id_ex.valid /\ ~trap_taken
                                            /\ legal(id_ex.inst)
<1>1. CASE ~id_ex.valid
  <2>1. ~ex_mem'.valid
    BY <1>1, ExMemEdge, Zenon
  <2> QED BY <1>1, <2>1, Zenon DEF reference_retires, outstanding
<1>2. CASE id_ex.valid /\ trap_taken
  <2>1. ~ex_mem'.valid
    BY <1>2, ExMemEdge, Zenon
  <2>2. ~irq_taken => Architecture!mnem = "ecall"
    <3>1. ~irq_taken => id_ex.ctl.ecall
      BY <1>2, Zenon DEF trap_taken
    <3>2. id_ex.ctl.ecall => Architecture!decode(id_ex.inst) = <<"SYS", "ecall">>
      BY <1>2, StateBeforeEx, EcallWord
    <3>3. Architecture!mnem = Architecture!decode(id_ex.inst)[2]
      BY <1>2, SameInstruction
    <3> QED BY <3>1, <3>2, <3>3
  <2> QED BY <2>1, <2>2 DEF reference_retires, outstanding
<1>3. CASE id_ex.valid /\ ~trap_taken
  <2>1. ex_mem'.valid /\ ex_mem'.illegal = id_ex.ctl.illegal
    BY <1>3, EdgeFacts DEF clock, ex_mem_reg, flush_ex
  <2>2. ~irq_taken /\ ~id_ex.ctl.ecall
    BY <1>3, Zenon DEF trap_taken
  <2>3. Architecture!mnem = Architecture!decode(id_ex.inst)[2]
    BY <1>3, SameInstruction
  <2>4. id_ex.inst \in Instruction /\ Encoded(id_ex.inst) /\ id_ex.ctl = control(id_ex.inst)
    BY <1>3, StateBeforeEx
  <2>5. CASE legal(id_ex.inst)
    <3>1. id_ex.ctl.illegal = FALSE /\ Architecture!mnem # "illegal"
          /\ Architecture!mnem # "ecall"
      BY <2>2, <2>3, <2>4, <2>5, LegalTraces
    <3> QED BY <1>3, <2>1, <2>2, <2>5, <3>1 DEF reference_retires, outstanding
  <2>6. CASE ~legal(id_ex.inst)
    <3>1. Architecture!mnem = "illegal"
      BY <2>3, <2>4, <2>6, IllegalIsIllegal
    <3>2. id_ex.ctl.illegal = TRUE
      <4>1. Traces(illegal_ctl, TRUE, FALSE, FALSE)
        BY RowTraces, Zenon
      <4>2. control(id_ex.inst) = illegal_ctl
        BY <2>6, ControlCases, Zenon
      <4> QED BY <2>4, <4>1, <4>2, Zenon DEF Traces
    <3> QED BY <2>1, <3>1, <3>2 DEF reference_retires, outstanding
  <2> QED BY <2>5, <2>6
<1> QED BY <1>1, <1>2, <1>3

\* The register result of the instruction in EX is the one iss.py prints:
\* both write it to the same register of the same file.
LEMMA ResultEdge ==
  ASSUME Edge, id_ex.valid, ~trap_taken, legal(id_ex.inst), id_ex.ctl.reg_we,
         id_ex.inst.rd # 0
  PROVE  ex_result = Architecture!rd_val
<1> DEFINE i == id_ex.inst
<1>1. /\ i \in Instruction /\ Encoded(i) /\ id_ex.ctl = control(i)
      /\ abs_regs \in [Reg -> Word] /\ i.rd \in Reg
  BY StateBeforeEx, InstructionFields
<1>2. Architecture!fmt \in Writers
  <2>1. control(i).reg_we = (Architecture!decode(i)[1] \in Writers)
    BY <1>1, LegalTraces
  <2>2. Architecture!fmt = Architecture!decode(i)[1]
    BY SameInstruction
  <2> QED BY <1>1, <2>1, <2>2, Zenon
<1>3. \E next_pc : Architecture!finish(next_pc)
  <2>1. i.opcode \in Opcodes /\ Architecture!fmt # "SYS"
    BY <1>2, LegalOpcode DEF Writers
  <2>2. CASE i.opcode \in {OP_R, OP_IARITH, OP_LOAD, OP_LUI, OP_AUIPC}
    BY <2>2, ComputeStep, Zenon DEF Architecture!Compute
  <2>3. CASE i.opcode = OP_STORE
    BY <2>3, StoreStep, Zenon DEF Architecture!Store
  <2>4. CASE i.opcode = OP_BRANCH
    BY <2>4, BranchStep, Zenon DEF Architecture!Branch
  <2>5. CASE i.opcode \in {OP_JAL, OP_JALR}
    BY <2>5, JumpStep, Zenon DEF Architecture!Jump
  <2>6. CASE i.opcode = OP_SYSTEM /\ i.funct3 # 0
    BY <2>6, CsrStep, Zenon DEF Architecture!CsrAccess
  <2>7. CASE i.opcode = OP_SYSTEM /\ i.funct3 = 0
    <3>1. Architecture!next_is({"SYS"})
      BY <2>7, SystemStep, Zenon DEF Architecture!Mret, Architecture!Ebreak
    <3> QED BY <2>1, <3>1 DEF Architecture!next_is
  <2> QED BY <2>1, <2>2, <2>3, <2>4, <2>5, <2>6, <2>7, Zenon DEF Opcodes
<1>4. abs_regs' = Architecture!wr_reg(i.rd, Architecture!rd_val)
  <2>1. Architecture!rd_we
    BY <1>2, Zenon DEF Architecture!rd_we, Writers
  <2> QED BY <1>3, <2>1, SameInstruction, Zenon DEF Architecture!finish
<1>5. abs_regs' = Architecture!wr_reg(i.rd, ex_result)
  BY Executes, Zenon
<1>6. ASSUME NEW v PROVE Architecture!wr_reg(i.rd, v)[i.rd] = v
  <2>1. Architecture!wr_reg(i.rd, v) = [abs_regs EXCEPT ![i.rd] = v]
    BY Zenon DEF Architecture!wr_reg
  <2>2. [abs_regs EXCEPT ![i.rd] = v][i.rd] = v
    BY <1>1
  <2> QED BY <2>1, <2>2, Zenon
<1>7. abs_regs'[i.rd] = Architecture!rd_val /\ abs_regs'[i.rd] = ex_result
  BY <1>4, <1>5, <1>6, Zenon
<1> QED BY <1>7, Zenon

\* Only a store is of iss.py's class S.
LEMMA StoreOpcode ==
  ASSUME NEW i \in Instruction, Encoded(i), legal(i), Architecture!decode(i)[1] = "S"
  PROVE  i.opcode = OP_STORE
<1> DEFINE d == Architecture!decode(i)
<1>1. i.opcode \in Opcodes
  BY LegalOpcode
<1>2. i.opcode \in {OP_R, OP_IARITH, OP_LOAD, OP_BRANCH} => d[1] \in {"R", "I", "L", "B"}
  BY RegisterArith, ImmediateArith, LoadNames, BranchNames
<1>3. i.opcode \in {OP_LUI, OP_AUIPC, OP_JAL, OP_JALR} => d[1] \in {"U", "J"}
  <2>1. i.opcode \in {OP_LUI, OP_AUIPC, OP_JAL, OP_JALR} =>
          d \in {<<"U", "lui">>, <<"U", "auipc">>, <<"J", "jal">>, <<"J", "jalr">>}
    BY JumpNames, Zenon
  <2> HIDE DEF d
  <2> QED BY <2>1
<1>4. i.opcode = OP_SYSTEM => d[1] \in {"SYS", "CSR-R", "CSR-I"}
  <2>1. i.opcode = OP_SYSTEM /\ i.funct3 = 0 =>
          d \in {<<"SYS", "ecall">>, <<"SYS", "ebreak">>, <<"SYS", "mret">>}
    BY SystemNames, Zenon
  <2>2. i.opcode = OP_SYSTEM /\ i.funct3 # 0 => d[1] \in {"CSR-R", "CSR-I"}
    BY CsrNames, LegalOpcode
  <2> HIDE DEF d
  <2> QED BY <2>1, <2>2
<1>5. d[1] = "S"
  OBVIOUS
<1> HIDE DEF d
<1>6. d[1] \notin {"R", "I", "L", "B"} /\ d[1] \notin {"U", "J"}
      /\ d[1] \notin {"SYS", "CSR-R", "CSR-I"}
  BY <1>5
<1> QED BY <1>1, <1>2, <1>3, <1>4, <1>6, Zenon DEF Opcodes

\* What a store shows is what it writes, cut to its width.
LEMMA MaskIsWidth ==
  ASSUME NEW A \in Word, Architecture!addr = A, NEW w \in Word
  PROVE  /\ wmask_data(0, w) = w % 2^Architecture!lane_width("sb")
         /\ wmask_data(1, w) = w % 2^Architecture!lane_width("sh")
         /\ wmask_data(2, w) = w % 2^Architecture!lane_width("sw")
<1>1. /\ Architecture!lane_width("sb") = ByteBits /\ Architecture!lane_width("sh") = HalfBits
      /\ Architecture!lane_width("sw") = XLEN
  BY LaneOfMnemonic
<1>2. w % 2^XLEN = w
  BY UOfWord, Zenon DEF U
<1>3. /\ wmask_data(0, w) = w % 2^ByteBits /\ wmask_data(1, w) = w % 2^HalfBits
      /\ wmask_data(2, w) = w
  BY DEF wmask_data
<1> QED BY <1>1, <1>2, <1>3, Zenon

\* The line of the instruction that comes to MEM is the one iss.py prints.
LEMMA LineEdge ==
  ASSUME Edge, reference_retires PROVE mem_line' = Architecture!trace_line
<1> DEFINE i == id_ex.inst
           c == id_ex.ctl
<1>1. id_ex.valid /\ ~trap_taken /\ legal(i)
  BY RetireEdge, Zenon
<1>2. /\ ex_mem'.pc = abs_pc /\ ex_mem'.inst = i /\ ex_mem'.res = ex_res
      /\ ex_mem'.store_data = ex_store_data
      /\ ex_mem'.reg_we = (id_ex.valid /\ c.reg_we)
      /\ ex_mem'.mem_we = (id_ex.valid /\ c.mem_we)
      /\ Architecture!insn = i
  BY <1>1, ExMemEdge, StateBeforeEx, SameInstruction, Zenon
<1>3. /\ c.reg_we = (Architecture!fmt \in Writers)
      /\ c.mem_we = (Architecture!fmt = "S")
  <2>1. i \in Instruction /\ Encoded(i) /\ c = control(i)
    BY <1>1, StateBeforeEx
  <2>2. Architecture!fmt = Architecture!decode(i)[1]
    BY <1>1, SameInstruction
  <2>3. /\ control(i).reg_we = (Architecture!decode(i)[1] \in Writers)
        /\ control(i).mem_we = (Architecture!decode(i)[1] = "S")
    BY <1>1, <2>1, LegalTraces
  <2> QED BY <2>1, <2>2, <2>3, Zenon
<1>4. c.reg_we <=> Architecture!rd_we
  BY <1>3, Zenon DEF Architecture!rd_we, Writers
<1>5. mem_rd_we' <=> Architecture!rd_we /\ i.rd # 0
  BY <1>1, <1>2, <1>4, Zenon DEF mem_rd_we
<1>6. ex_mem'.mem_we = (Architecture!fmt = "S")
  BY <1>1, <1>2, <1>3, Zenon
<1>7. mem_rd_we' => mem_result' = Architecture!rd_val
  <2>1. ASSUME mem_rd_we' PROVE mem_result' = ex_result
    BY <1>1, MemResultNext, MemoryEdge, ExMemEdge, Zenon DEF ex_result
  <2>2. ASSUME mem_rd_we' PROVE ex_result = Architecture!rd_val
    BY <1>1, <1>4, <1>5, <2>2, ResultEdge, Zenon
  <2> QED BY <2>1, <2>2
<1>8. ASSUME Architecture!fmt = "S"
      PROVE  /\ Architecture!addr = ex_res
             /\ wmask_data(i.funct3, ex_store_data)
                  = Architecture!b % 2^Architecture!lane_width(Architecture!mnem)
  <2>1. i.opcode = OP_STORE
    <3>1. Architecture!decode(i)[1] = "S"
      BY <1>1, <1>8, SameInstruction, Zenon
    <3> QED BY <1>1, <3>1, StoreOpcode, StateBeforeEx, Zenon
  <2> QED BY <1>1, <2>1, StoreFields, MaskIsWidth, Zenon
<1>9. mem_line' = [pc |-> ex_mem'.pc, insn |-> ex_mem'.inst,
                   rd |-> IF mem_rd_we' THEN ex_mem'.inst.rd ELSE 0,
                   rd_val |-> IF mem_rd_we' THEN mem_result' ELSE 0,
                   mem_we |-> ex_mem'.mem_we,
                   mem_addr |-> IF ex_mem'.mem_we THEN ex_mem'.res ELSE 0,
                   mem_val |-> IF ex_mem'.mem_we
                               THEN wmask_data(ex_mem'.inst.funct3, ex_mem'.store_data)
                               ELSE 0]
  BY Zenon DEF mem_line, wmask_data
<1> DEFINE line == [pc |-> abs_pc, insn |-> i,
                    rd |-> IF Architecture!rd_we THEN i.rd ELSE 0,
                    rd_val |-> IF Architecture!rd_we /\ i.rd # 0
                               THEN Architecture!rd_val ELSE 0,
                    mem_we |-> Architecture!fmt = "S",
                    mem_addr |-> IF Architecture!fmt = "S" THEN Architecture!addr ELSE 0,
                    mem_val |-> IF Architecture!fmt = "S"
                       THEN Architecture!b % 2^Architecture!lane_width(Architecture!mnem)
                       ELSE 0]
<1>10. Architecture!trace_line = line
  BY <1>2, Zenon DEF Architecture!trace_line
<1>11. /\ (IF mem_rd_we' THEN ex_mem'.inst.rd ELSE 0) = IF Architecture!rd_we THEN i.rd ELSE 0
       /\ (IF mem_rd_we' THEN mem_result' ELSE 0)
            = IF Architecture!rd_we /\ i.rd # 0 THEN Architecture!rd_val ELSE 0
  BY <1>2, <1>5, <1>7
<1>12. /\ (IF ex_mem'.mem_we THEN ex_mem'.res ELSE 0)
             = IF Architecture!fmt = "S" THEN Architecture!addr ELSE 0
       /\ (IF ex_mem'.mem_we THEN wmask_data(ex_mem'.inst.funct3, ex_mem'.store_data)
           ELSE 0) = IF Architecture!fmt = "S"
                     THEN Architecture!b % 2^Architecture!lane_width(Architecture!mnem)
                     ELSE 0
  BY <1>2, <1>6, <1>8, Zenon
<1>13. mem_line' = line
  BY <1>2, <1>6, <1>9, <1>11, <1>12, Zenon
<1> QED BY <1>10, <1>13, Zenon

\* What a sequence holds after an element is appended.
LEMMA Appended ==
  ASSUME NEW S, NEW s \in Seq(S), NEW y \in S
  PROVE  /\ Append(s, y) \in Seq(S) /\ Len(Append(s, y)) = Len(s) + 1
         /\ Append(s, y)[Len(s) + 1] = y
         /\ \A i \in 1 .. Len(s) : Append(s, y)[i] = s[i]
OBVIOUS

\* Two lines in order.
LEMMA AppendTwo == ASSUME NEW x, NEW y PROVE Append(<<x>>, y) = <<x, y>>
<1> DEFINE s == <<x>>
           t == Append(s, y)
           u == <<x, y>>
<1>1. s \in Seq({x, y}) /\ Len(s) = 1 /\ s[1] = x
  OBVIOUS
<1>2. u \in Seq({x, y}) /\ Len(u) = 2 /\ u[1] = x /\ u[2] = y
  OBVIOUS
<1>3. y \in {x, y}
  OBVIOUS
<1> HIDE DEF s, u
<1>4. /\ t \in Seq({x, y}) /\ Len(t) = Len(s) + 1 /\ t[Len(s) + 1] = y
      /\ \A i \in 1 .. Len(s) : t[i] = s[i]
  <2> DEFINE S == {x, y}
  <2>1. s \in Seq(S) /\ y \in S
    BY <1>1, <1>3
  <2> HIDE DEF S
  <2>2. t \in Seq(S) /\ Len(t) = Len(s) + 1 /\ t[Len(s) + 1] = y
    BY <2>1, Appended, Zenon
  <2>3. \A i \in 1 .. Len(s) : t[i] = s[i]
    BY <2>1, Appended
  <2> QED BY <2>2, <2>3, Zenon DEF S
<1> HIDE DEF t
<1>5. Len(t) = 2 /\ t[1] = x /\ t[2] = y
  BY <1>1, <1>4
<1>6. t = u
  BY <1>2, <1>4, <1>5
<1> QED BY <1>6 DEF t, s, u

\* Between two edges the lines in flight stay.
LEMMA SteadyPort ==
  ASSUME UNCHANGED vars
  PROVE  /\ trace_valid' = trace_valid /\ trace_port' = trace_port
         /\ outstanding' = outstanding /\ mem_line' = mem_line
<1>1. /\ id_ex' = id_ex /\ ex_mem' = ex_mem /\ mem_wb' = mem_wb
      /\ dmem' = dmem /\ latch' = latch /\ done_r' = done_r
  BY DEF vars
<1>2. wb_data' = wb_data
  <2>1. wb_data' = IF mem_wb'.wb_sel = "MEM"
                   THEN load_data(latch'.rword, latch'.raddr_l, latch'.rfunct3)
                   ELSE mem_wb'.res
    BY Zenon DEF wb_data, dmem_rdata, load_data
  <2> QED BY <1>1, <2>1, Zenon DEF wb_data, dmem_rdata
<1>3. mem_result' = mem_result
  BY <1>1, MemResultNext, Zenon DEF mem_result
<1>4. trace_valid' = trace_valid /\ trace_port' = trace_port
  BY <1>1, <1>2, Zenon DEF trace_valid, wb_retire, halt, trace_port, trace_rd_we,
                           trace_mem_we, trace_mem_val
<1>5. outstanding' = outstanding /\ mem_line' = mem_line
  <2>1. outstanding' = outstanding /\ mem_rd_we' = mem_rd_we
    BY <1>1, Zenon DEF outstanding, mem_rd_we
  <2>2. wmask_data(ex_mem.inst.funct3, ex_mem.store_data)'
          = wmask_data(ex_mem.inst.funct3, ex_mem.store_data)
    BY <1>1, Zenon DEF wmask_data
  <2> QED BY <1>1, <1>3, <2>1, <2>2, Zenon DEF mem_line
<1> QED BY <1>4, <1>5, Zenon

\* The lines move on with the instructions.
LEMMA CosimStep == CosimInv /\ [Next_cosim]_cosimVars => CosimInv'
<1> SUFFICES ASSUME CosimInv, [Next_cosim]_cosimVars PROVE CosimInv'
  OBVIOUS
<1>1. RefInv /\ [Next]_vars
  BY DEF CosimInv, Next_cosim, cosimVars
<1>2. RefInv'
  BY <1>1, RefInductive
<1>3. ASSUME UNCHANGED vars PROVE in_flight' = in_flight
  <2>1. /\ trace_valid' = trace_valid /\ trace_port' = trace_port
        /\ outstanding' = outstanding /\ mem_line' = mem_line
    BY <1>3, SteadyPort
  <2> QED BY <2>1, Zenon DEF in_flight
<1>4. CASE UNCHANGED cosimVars
  <2>1. UNCHANGED vars /\ expected' = expected
    BY <1>4 DEF cosimVars
  <2> QED BY <1>2, <1>3, <2>1, Zenon DEF CosimInv
<1>5. CASE Next_cosim /\ done_r
  <2>1. EbreakShadow /\ EbreakShadow' /\ done_r'
    BY <1>1, <1>2, <1>5, Frozen DEF RefInv, OperandInv, Next_cosim
  <2>2. ~trace_valid /\ ~outstanding /\ ~reference_retires
    BY <1>5, <2>1 DEF EbreakShadow, trace_valid, wb_retire, halt, outstanding,
                      reference_retires
  <2>3. ~trace_valid' /\ ~outstanding'
    BY <2>1 DEF EbreakShadow, trace_valid, wb_retire, halt, outstanding
  <2>4. expected' = expected
    BY <1>5, <2>2, Zenon DEF Next_cosim, compare_lines
  <2> QED BY <1>2, <2>2, <2>3, <2>4, Zenon DEF CosimInv, in_flight
<1>6. CASE Next_cosim /\ ~done_r
  <2>1. Edge
    BY <1>1, <1>6 DEF Edge, Next_cosim
  <2> DEFINE left == IF outstanding THEN <<mem_line>> ELSE <<>>
  <2>2. expected' = IF reference_retires THEN Append(left, Architecture!trace_line) ELSE left
    <3>1. (IF trace_valid THEN Tail(expected) ELSE expected) = left
      <4>1. expected = in_flight
        BY DEF CosimInv
      <4>2. /\ Tail(<<trace_port, mem_line>>) = <<mem_line>>
            /\ Tail(<<trace_port>>) = <<>>
        OBVIOUS
      <4> QED BY <4>1, <4>2, Zenon DEF in_flight
    <3> QED BY <1>6, <3>1, Zenon DEF Next_cosim, compare_lines
  <2>3. left = IF trace_valid' THEN <<trace_port'>> ELSE <<>>
    BY <2>1, PortEdge, Zenon
  <2>4. expected' = IF outstanding' THEN Append(left, mem_line') ELSE left
    BY <2>1, <2>2, RetireEdge, LineEdge, Zenon
  <2> HIDE DEF left
  <2>5. ASSUME NEW x, NEW y PROVE Append(<<x>>, y) = <<x, y>> /\ Append(<<>>, y) = <<y>>
    <3>1. <<>> \in Seq({y}) /\ y \in {y}
      OBVIOUS
    <3>2. Append(<<>>, y) = <<y>>
      BY <3>1
    <3> QED BY <3>2, AppendTwo
  <2>6. expected' = in_flight'
    BY <2>3, <2>4, <2>5, Zenon DEF in_flight
  <2> QED BY <1>2, <2>6, Zenon DEF CosimInv
<1> QED BY <1>4, <1>5, <1>6

\* Nothing is in flight at first.
LEMMA CosimInit == Init_cosim => CosimInv
<1> SUFFICES ASSUME Init_cosim PROVE CosimInv
  OBVIOUS
<1>1. Init /\ expected = <<>>
  BY DEF Init_cosim
<1>2. ~trace_valid /\ ~outstanding
  BY <1>1 DEF Init, EX_MEM_ZERO, MEM_WB_ZERO, trace_valid, wb_retire, outstanding
<1> QED BY <1>1, <1>2, RefInductive, Zenon DEF CosimInv, in_flight

\* Every line of the commit trace is the line the reference model prints, in
\* its order, none missing and none twice, and none is owed at `done'.
THEOREM TracesAgree == Spec_cosim => []TraceMatchesReference
<1>1. CosimInv => TraceMatchesReference
  <2> SUFFICES ASSUME CosimInv PROVE TraceMatchesReference
    OBVIOUS
  <2>1. expected = in_flight /\ EbreakShadow
    BY DEF CosimInv, RefInv, OperandInv
  <2>2. /\ <<trace_port, mem_line>> # <<>> /\ Head(<<trace_port, mem_line>>) = trace_port
        /\ <<trace_port>> # <<>> /\ Head(<<trace_port>>) = trace_port
    OBVIOUS
  <2>3. trace_valid => expected # <<>> /\ Head(expected) = trace_port
    BY <2>1, <2>2, Zenon DEF in_flight
  <2>4. done_r => ~trace_valid /\ ~outstanding
    BY <2>1 DEF EbreakShadow, trace_valid, wb_retire, halt, outstanding
  <2> QED BY <2>1, <2>3, <2>4, Zenon DEF TraceMatchesReference, in_flight
<1> QED BY <1>1, CosimInit, CosimStep, PTL DEF Spec_cosim

\* The comparison is never ahead of the pipeline or behind it: the lines the
\* reference has printed and the port has not shown are those of MEM and WB.
THEOREM TraceInStep == Spec_cosim => []InFlightIsExpected
<1>1. CosimInv => InFlightIsExpected
  <2> SUFFICES ASSUME CosimInv, ~done_r
               PROVE  Len(expected) = awaits(ex_mem) + awaits(mem_wb)
    BY DEF InFlightIsExpected
  <2>1. expected = in_flight
    BY DEF CosimInv
  <2>2. /\ Len(<<trace_port, mem_line>>) = 2 /\ Len(<<trace_port>>) = 1
        /\ Len(<<mem_line>>) = 1 /\ Len(<<>>) = 0
    OBVIOUS
  <2>3. /\ awaits(ex_mem) = IF outstanding THEN 1 ELSE 0
        /\ awaits(mem_wb) = IF trace_valid THEN 1 ELSE 0
    BY DEF awaits, outstanding, trace_valid, wb_retire, halt
  <2>4. /\ trace_valid /\ outstanding => Len(expected) = 2
        /\ trace_valid /\ ~outstanding => Len(expected) = 1
        /\ ~trace_valid /\ outstanding => Len(expected) = 1
        /\ ~trace_valid /\ ~outstanding => Len(expected) = 0
    BY <2>1, <2>2, Zenon DEF in_flight
  <2>5. CASE outstanding
    BY <2>3, <2>4, <2>5
  <2>6. CASE ~outstanding
    BY <2>3, <2>4, <2>6
  <2> QED BY <2>5, <2>6
<1> QED BY <1>1, CosimInit, CosimStep, PTL DEF Spec_cosim

----------------------------------------------------------------------------
(* The reference model as a function of the program and of its own state.  *)

\* The machine of iss.py in a state of its own: a record of Arch.tla's variables.
At(im, s) == INSTANCE Arch WITH
  imem <- im, pc <- s.pc, regs <- s.regs, dmem <- s.dmem, csr <- s.csr,
  halted <- s.halted

\* The state the hardware shows, and the state of the reference.
abs_machine == [pc |-> abs_pc, regs |-> abs_regs, dmem |-> abs_dmem, csr |-> csr,
                halted |-> abs_halted]
iss_machine == [pc |-> iss_pc, regs |-> iss_regs, dmem |-> iss_dmem, csr |-> iss_csr,
                halted |-> iss_halted]

\* What an instruction that retires leaves behind.
pc_after(im, s) ==
  IF At(im, s)!fmt = "B"
  THEN IF At(im, s)!taken(At(im, s)!mnem)
       THEN At(im, s)!U(s.pc + At(im, s)!insn.imm) ELSE At(im, s)!pc4
  ELSE IF At(im, s)!fmt = "J"
  THEN IF At(im, s)!mnem = "jal"
       THEN At(im, s)!U(s.pc + At(im, s)!insn.imm)
       ELSE At(im, s)!HalfAlign(At(im, s)!addr)
  ELSE IF At(im, s)!fmt = "SYS" /\ At(im, s)!mnem = "mret"
  THEN At(im, s)!WordAlign(s.csr.mepc)
  ELSE At(im, s)!pc4

regs_after(im, s) ==
  IF At(im, s)!rd_we THEN At(im, s)!wr_reg(At(im, s)!insn.rd, At(im, s)!rd_val)
  ELSE s.regs

dmem_after(im, s) ==
  IF At(im, s)!fmt = "S" THEN At(im, s)!store(At(im, s)!mnem) ELSE s.dmem

csr_new(m, old, src, inverse) ==
  CASE m = "csrrw" -> src
    [] m = "csrrs" -> BitOr(old, src)
    [] m = "csrrc" -> BitAnd(old, inverse)

csr_accessed(im, s) ==
  LET old == At(im, s)!csr_read(At(im, s)!insn.csr)
      src == IF At(im, s)!fmt = "CSR-R" THEN At(im, s)!a ELSE At(im, s)!insn.rs1
      new == csr_new(At(im, s)!mnem, old, src, At(im, s)!BitNot(src))
  IN  IF At(im, s)!mnem = "csrrw" \/ At(im, s)!insn.rs1 # 0
      THEN At(im, s)!csr_written(At(im, s)!insn.csr, new) ELSE s.csr

csr_returned(im, s) ==
  IF At(im, s)!fmt = "SYS" /\ At(im, s)!mnem = "mret"
  THEN [s.csr EXCEPT !.mstatus_mie = s.csr.mstatus_mpie, !.mstatus_mpie = TRUE]
  ELSE s.csr

csr_after(im, s) ==
  IF At(im, s)!fmt \in {"CSR-R", "CSR-I"} THEN csr_accessed(im, s)
  ELSE csr_returned(im, s)

halted_after(im, s) ==
  IF At(im, s)!fmt = "SYS" /\ At(im, s)!mnem = "ebreak" THEN TRUE ELSE s.halted

after(im, s) ==
  [pc |-> pc_after(im, s), regs |-> regs_after(im, s), dmem |-> dmem_after(im, s),
   csr |-> csr_after(im, s), halted |-> halted_after(im, s)]

\* What a trap does.
trapped(im, s, cause) ==
  [pc |-> At(im, s)!WordAlign(s.csr.mtvec), regs |-> s.regs, dmem |-> s.dmem,
   csr |-> [s.csr EXCEPT !.mepc = At(im, s)!WordAlign(s.pc), !.mcause = cause,
                         !.mstatus_mpie = s.csr.mstatus_mie, !.mstatus_mie = FALSE],
   halted |-> s.halted]

\* The fields of the two states.
LEMMA MachineFields ==
  /\ abs_machine.pc = abs_pc /\ abs_machine.regs = abs_regs
  /\ abs_machine.dmem = abs_dmem /\ abs_machine.csr = csr
  /\ abs_machine.halted = abs_halted
  /\ iss_machine.pc = iss_pc /\ iss_machine.regs = iss_regs
  /\ iss_machine.dmem = iss_dmem /\ iss_machine.csr = iss_csr
  /\ iss_machine.halted = iss_halted
BY DEF abs_machine, iss_machine

\* Arithmetic on words is the same in every instance.
LEMMA PureWords ==
  ASSUME NEW im, NEW s, NEW x, NEW y
  PROVE  /\ At(im, s)!U(x) = Architecture!U(x)
         /\ Iss!U(x) = Architecture!U(x)
         /\ At(im, s)!Signed(x) = Architecture!Signed(x)
         /\ Iss!Signed(x) = Architecture!Signed(x)
         /\ At(im, s)!Shamt(x) = Architecture!Shamt(x)
         /\ Iss!Shamt(x) = Architecture!Shamt(x)
         /\ At(im, s)!Sll(x, y) = Architecture!Sll(x, y)
         /\ Iss!Sll(x, y) = Architecture!Sll(x, y)
         /\ At(im, s)!Srl(x, y) = Architecture!Srl(x, y)
         /\ Iss!Srl(x, y) = Architecture!Srl(x, y)
         /\ At(im, s)!Sra(x, y) = Architecture!Sra(x, y)
         /\ Iss!Sra(x, y) = Architecture!Sra(x, y)
         /\ At(im, s)!WordAlign(x) = Architecture!WordAlign(x)
         /\ Iss!WordAlign(x) = Architecture!WordAlign(x)
         /\ At(im, s)!HalfAlign(x) = Architecture!HalfAlign(x)
         /\ Iss!HalfAlign(x) = Architecture!HalfAlign(x)
         /\ At(im, s)!SignExtend(x, y) = Architecture!SignExtend(x, y)
         /\ Iss!SignExtend(x, y) = Architecture!SignExtend(x, y)
         /\ At(im, s)!AtBit(x, y) = Architecture!AtBit(x, y)
         /\ Iss!AtBit(x, y) = Architecture!AtBit(x, y)
         /\ At(im, s)!Bit(x, y) = Architecture!Bit(x, y)
         /\ Iss!Bit(x, y) = Architecture!Bit(x, y)
         /\ At(im, s)!BitNot(x) = Architecture!BitNot(x)
         /\ Iss!BitNot(x) = Architecture!BitNot(x)
         /\ At(im, s)!ByteBits = Architecture!ByteBits
         /\ Iss!ByteBits = Architecture!ByteBits
         /\ At(im, s)!HalfBits = Architecture!HalfBits
         /\ Iss!HalfBits = Architecture!HalfBits
<1>1. /\ At(im, s)!U(x) = Architecture!U(x)
      /\ Iss!U(x) = Architecture!U(x)
      /\ At(im, s)!Signed(x) = Architecture!Signed(x)
      /\ Iss!Signed(x) = Architecture!Signed(x)
  BY Zenon
  DEF At!U, Architecture!U, Iss!U, At!Signed, Architecture!Signed, Iss!Signed
<1>2. /\ At(im, s)!Shamt(x) = Architecture!Shamt(x)
      /\ Iss!Shamt(x) = Architecture!Shamt(x)
      /\ At(im, s)!Sll(x, y) = Architecture!Sll(x, y)
      /\ Iss!Sll(x, y) = Architecture!Sll(x, y)
      /\ At(im, s)!Srl(x, y) = Architecture!Srl(x, y)
      /\ Iss!Srl(x, y) = Architecture!Srl(x, y)
      /\ At(im, s)!Sra(x, y) = Architecture!Sra(x, y)
      /\ Iss!Sra(x, y) = Architecture!Sra(x, y)
  BY Zenon
  DEF At!U, Architecture!U, Iss!U, At!Signed, Architecture!Signed, Iss!Signed,
     At!Shamt, Architecture!Shamt, Iss!Shamt, At!Sll, Architecture!Sll, Iss!Sll,
     At!Srl, Architecture!Srl, Iss!Srl, At!Sra, Architecture!Sra, Iss!Sra
<1>3. /\ At(im, s)!WordAlign(x) = Architecture!WordAlign(x)
      /\ Iss!WordAlign(x) = Architecture!WordAlign(x)
      /\ At(im, s)!HalfAlign(x) = Architecture!HalfAlign(x)
      /\ Iss!HalfAlign(x) = Architecture!HalfAlign(x)
      /\ At(im, s)!SignExtend(x, y) = Architecture!SignExtend(x, y)
      /\ Iss!SignExtend(x, y) = Architecture!SignExtend(x, y)
  BY Zenon
  DEF At!U, Architecture!U, Iss!U, At!WordAlign, Architecture!WordAlign,
     Iss!WordAlign, At!HalfAlign, Architecture!HalfAlign, Iss!HalfAlign,
     At!SignExtend, Architecture!SignExtend, Iss!SignExtend
<1>4. /\ At(im, s)!AtBit(x, y) = Architecture!AtBit(x, y)
      /\ Iss!AtBit(x, y) = Architecture!AtBit(x, y)
      /\ At(im, s)!Bit(x, y) = Architecture!Bit(x, y)
      /\ Iss!Bit(x, y) = Architecture!Bit(x, y)
      /\ At(im, s)!BitNot(x) = Architecture!BitNot(x)
      /\ Iss!BitNot(x) = Architecture!BitNot(x)
      /\ At(im, s)!ByteBits = Architecture!ByteBits
      /\ Iss!ByteBits = Architecture!ByteBits
      /\ At(im, s)!HalfBits = Architecture!HalfBits
      /\ Iss!HalfBits = Architecture!HalfBits
  BY Zenon
  DEF At!AtBit, Architecture!AtBit, Iss!AtBit, At!Bit, Architecture!Bit, Iss!Bit,
     At!BitNot, Architecture!BitNot, Iss!BitNot, At!ByteBits,
     Architecture!ByteBits, Iss!ByteBits, At!HalfBits, Architecture!HalfBits,
     Iss!HalfBits
<1> QED BY <1>1, <1>2, <1>3, <1>4

\* So is what iss.py decodes.
LEMMA PureDecode ==
  ASSUME NEW im, NEW s, NEW i
  PROVE  /\ At(im, s)!decode(i) = Architecture!decode(i)
         /\ Iss!decode(i) = Architecture!decode(i)
<1>1. At(im, s)!decode(i) = Architecture!decode(i)
  BY Zenon
  DEF At!decode, Architecture!decode, At!R_MNEM, Architecture!R_MNEM,
     At!SHIFT_MNEM, Architecture!SHIFT_MNEM, At!IA_MNEM, Architecture!IA_MNEM,
     At!LD_MNEM, Architecture!LD_MNEM, At!ST_MNEM, Architecture!ST_MNEM,
     At!BR_MNEM, Architecture!BR_MNEM, At!CSR_MNEM, Architecture!CSR_MNEM,
     At!SYS_MNEM, Architecture!SYS_MNEM, At!fixed_word, Architecture!fixed_word,
     At!OP_R, Architecture!OP_R, At!OP_IARITH, Architecture!OP_IARITH, At!OP_LOAD,
     Architecture!OP_LOAD, At!OP_STORE, Architecture!OP_STORE, At!OP_BRANCH,
     Architecture!OP_BRANCH, At!OP_LUI, Architecture!OP_LUI, At!OP_AUIPC,
     Architecture!OP_AUIPC, At!OP_JAL, Architecture!OP_JAL, At!OP_JALR,
     Architecture!OP_JALR, At!OP_SYSTEM, Architecture!OP_SYSTEM, At!CSR_ECALL,
     Architecture!CSR_ECALL, At!CSR_EBREAK, Architecture!CSR_EBREAK, At!CSR_MRET,
     Architecture!CSR_MRET
<1>2. Iss!decode(i) = Architecture!decode(i)
  BY Zenon
  DEF Iss!decode, Architecture!decode, Iss!R_MNEM, Architecture!R_MNEM,
     Iss!SHIFT_MNEM, Architecture!SHIFT_MNEM, Iss!IA_MNEM, Architecture!IA_MNEM,
     Iss!LD_MNEM, Architecture!LD_MNEM, Iss!ST_MNEM, Architecture!ST_MNEM,
     Iss!BR_MNEM, Architecture!BR_MNEM, Iss!CSR_MNEM, Architecture!CSR_MNEM,
     Iss!SYS_MNEM, Architecture!SYS_MNEM, Iss!fixed_word, Architecture!fixed_word,
     Iss!OP_R, Architecture!OP_R, Iss!OP_IARITH, Architecture!OP_IARITH,
     Iss!OP_LOAD, Architecture!OP_LOAD, Iss!OP_STORE, Architecture!OP_STORE,
     Iss!OP_BRANCH, Architecture!OP_BRANCH, Iss!OP_LUI, Architecture!OP_LUI,
     Iss!OP_AUIPC, Architecture!OP_AUIPC, Iss!OP_JAL, Architecture!OP_JAL,
     Iss!OP_JALR, Architecture!OP_JALR, Iss!OP_SYSTEM, Architecture!OP_SYSTEM,
     Iss!CSR_ECALL, Architecture!CSR_ECALL, Iss!CSR_EBREAK,
     Architecture!CSR_EBREAK, Iss!CSR_MRET, Architecture!CSR_MRET
<1> QED BY <1>1, <1>2, Zenon

\* And what it computes.
LEMMA PureArith ==
  ASSUME NEW im, NEW s, NEW m, NEW x, NEW y
  PROVE  /\ At(im, s)!arith(m, x, y) = Architecture!arith(m, x, y)
         /\ Iss!arith(m, x, y) = Architecture!arith(m, x, y)
<1>1. At(im, s)!arith(m, x, y) = Architecture!arith(m, x, y)
  BY Zenon
  DEF At!arith, Architecture!arith, At!U, Architecture!U, At!Signed,
     Architecture!Signed, At!Shamt, Architecture!Shamt, At!Sll, Architecture!Sll,
     At!Srl, Architecture!Srl, At!Sra, Architecture!Sra
<1>2. Iss!arith(m, x, y) = Architecture!arith(m, x, y)
  BY Zenon
  DEF Iss!arith, Architecture!arith, Iss!U, Architecture!U, Iss!Signed,
     Architecture!Signed, Iss!Shamt, Architecture!Shamt, Iss!Sll,
     Architecture!Sll, Iss!Srl, Architecture!Srl, Iss!Sra, Architecture!Sra
<1> QED BY <1>1, <1>2, Zenon

\* What the architecture of the pipeline fetches and reads.
LEMMA AbsOperands ==
  /\ At(imem, abs_machine)!insn = Architecture!insn
  /\ At(imem, abs_machine)!fmt = Architecture!fmt
  /\ At(imem, abs_machine)!mnem = Architecture!mnem
  /\ At(imem, abs_machine)!a = Architecture!a
  /\ At(imem, abs_machine)!b = Architecture!b
  /\ At(imem, abs_machine)!addr = Architecture!addr
  /\ At(imem, abs_machine)!pc4 = Architecture!pc4
<1>1. At(imem, abs_machine)!insn = Architecture!insn
  BY MachineFields, Zenon
  DEF At!insn, Architecture!insn, At!widx, Architecture!widx
<1>2. /\ At(imem, abs_machine)!fmt = Architecture!fmt
      /\ At(imem, abs_machine)!mnem = Architecture!mnem
  BY <1>1, PureDecode, Zenon
  DEF At!fmt, Architecture!fmt, At!mnem, Architecture!mnem
<1>3. /\ At(imem, abs_machine)!a = Architecture!a
      /\ At(imem, abs_machine)!b = Architecture!b
  BY <1>1, MachineFields, Zenon
  DEF At!a, Architecture!a, At!b, Architecture!b, At!rd_reg, Architecture!rd_reg
<1>4. /\ At(imem, abs_machine)!addr = Architecture!addr
      /\ At(imem, abs_machine)!pc4 = Architecture!pc4
  BY <1>1, <1>3, MachineFields, PureWords, Zenon
  DEF At!addr, Architecture!addr, At!pc4, Architecture!pc4
<1> QED BY <1>1, <1>2, <1>3, <1>4

\* What it compares, loads and stores.
LEMMA AbsMemory ==
  ASSUME NEW m
  PROVE  /\ At(imem, abs_machine)!taken(m) = Architecture!taken(m)
         /\ At(imem, abs_machine)!load(m) = Architecture!load(m)
         /\ At(imem, abs_machine)!store(m) = Architecture!store(m)
         /\ At(imem, abs_machine)!lane_width(m) = Architecture!lane_width(m)
<1>1. At(imem, abs_machine)!taken(m) = Architecture!taken(m)
  BY AbsOperands, Zenon
  DEF At!taken, Architecture!taken, At!Signed, Architecture!Signed
<1>2. At(imem, abs_machine)!lane_shift(m) = Architecture!lane_shift(m)
  BY AbsOperands, Zenon
  DEF At!lane_shift, Architecture!lane_shift, At!ByteBits, Architecture!ByteBits,
     At!HalfBits, Architecture!HalfBits
<1>3. At(imem, abs_machine)!lane_width(m) = Architecture!lane_width(m)
  BY Zenon
  DEF At!lane_width, Architecture!lane_width, At!ByteBits, Architecture!ByteBits,
     At!HalfBits, Architecture!HalfBits
<1>4. At(imem, abs_machine)!load(m) = Architecture!load(m)
  <2>1. \A x, y : At(imem, abs_machine)!SignExtend(x, y) = Architecture!SignExtend(x, y)
    BY PureWords, Zenon
  <2> QED BY <1>2, <1>3, <2>1, AbsOperands, MachineFields, Zenon
          DEF At!load, Architecture!load, At!widx, Architecture!widx
<1>5. At(imem, abs_machine)!store(m) = Architecture!store(m)
  BY <1>2, <1>3, AbsOperands, MachineFields, Zenon
  DEF At!store, Architecture!store, At!widx, Architecture!widx
<1> QED BY <1>1, <1>3, <1>4, <1>5

\* What it reads from and writes to a CSR.
LEMMA AbsCsrs ==
  ASSUME NEW c, NEW w
  PROVE  /\ At(imem, abs_machine)!csr_read(c) = Architecture!csr_read(c)
         /\ At(imem, abs_machine)!csr_written(c, w) = Architecture!csr_written(c, w)
<1>1. At(imem, abs_machine)!csr_read(c) = Architecture!csr_read(c)
  BY MachineFields, Zenon
  DEF At!csr_read, Architecture!csr_read, At!AtBit, Architecture!AtBit,
     At!WordAlign, Architecture!WordAlign, At!CSR_MSTATUS,
     Architecture!CSR_MSTATUS, At!CSR_MIE, Architecture!CSR_MIE, At!CSR_MTVEC,
     Architecture!CSR_MTVEC, At!CSR_MEPC, Architecture!CSR_MEPC, At!CSR_MCAUSE,
     Architecture!CSR_MCAUSE, At!MIE_BIT, Architecture!MIE_BIT, At!MPIE_BIT,
     Architecture!MPIE_BIT
<1>2. At(imem, abs_machine)!csr_written(c, w) = Architecture!csr_written(c, w)
  BY MachineFields, Zenon
  DEF At!csr_written, Architecture!csr_written, At!Bit, Architecture!Bit,
     At!WordAlign, Architecture!WordAlign, At!CSR_MSTATUS,
     Architecture!CSR_MSTATUS, At!CSR_MIE, Architecture!CSR_MIE, At!CSR_MTVEC,
     Architecture!CSR_MTVEC, At!CSR_MEPC, Architecture!CSR_MEPC, At!CSR_MCAUSE,
     Architecture!CSR_MCAUSE, At!MIE_BIT, Architecture!MIE_BIT, At!MPIE_BIT,
     Architecture!MPIE_BIT
<1> QED BY <1>1, <1>2

\* The register it writes, and the line it prints.
LEMMA AbsResults ==
  /\ At(imem, abs_machine)!rd_we <=> Architecture!rd_we
  /\ At(imem, abs_machine)!rd_val = Architecture!rd_val
  /\ \A r, v : At(imem, abs_machine)!wr_reg(r, v) = Architecture!wr_reg(r, v)
  /\ At(imem, abs_machine)!trace_line = Architecture!trace_line
<1>1. At(imem, abs_machine)!rd_we <=> Architecture!rd_we
  BY AbsOperands, Zenon
  DEF At!rd_we, Architecture!rd_we
<1>2. At(imem, abs_machine)!rd_val = Architecture!rd_val
  <2>1. ASSUME NEW m, NEW x, NEW y
        PROVE  At(imem, abs_machine)!arith(m, x, y) = Architecture!arith(m, x, y)
    BY PureArith
  <2>2. \A x : At(imem, abs_machine)!U(x) = Architecture!U(x)
    BY PureWords, Zenon
  <2>3. \A m : At(imem, abs_machine)!load(m) = Architecture!load(m)
    BY AbsMemory, Zenon
  <2>4. \A c : At(imem, abs_machine)!csr_read(c) = Architecture!csr_read(c)
    BY AbsCsrs, Zenon
  <2> QED BY <2>1, <2>2, <2>3, <2>4, AbsOperands, MachineFields, Zenon
          DEF At!rd_val, Architecture!rd_val
<1>3. \A r, v : At(imem, abs_machine)!wr_reg(r, v) = Architecture!wr_reg(r, v)
  BY MachineFields, Zenon
  DEF At!wr_reg, Architecture!wr_reg
<1>4. At(imem, abs_machine)!trace_line = Architecture!trace_line
  BY <1>1, <1>2, AbsOperands, AbsMemory, MachineFields, Zenon
  DEF At!trace_line, Architecture!trace_line
<1> QED BY <1>1, <1>2, <1>3, <1>4

\* What the reference fetches and reads.
LEMMA IssOperands ==
  /\ At(imem, iss_machine)!insn = Iss!insn
  /\ At(imem, iss_machine)!fmt = Iss!fmt
  /\ At(imem, iss_machine)!mnem = Iss!mnem
  /\ At(imem, iss_machine)!a = Iss!a
  /\ At(imem, iss_machine)!b = Iss!b
  /\ At(imem, iss_machine)!addr = Iss!addr
  /\ At(imem, iss_machine)!pc4 = Iss!pc4
<1>1. At(imem, iss_machine)!insn = Iss!insn
  BY MachineFields, Zenon
  DEF At!insn, Iss!insn, At!widx, Iss!widx
<1>2. /\ At(imem, iss_machine)!fmt = Iss!fmt
      /\ At(imem, iss_machine)!mnem = Iss!mnem
  BY <1>1, PureDecode, Zenon
  DEF At!fmt, Iss!fmt, At!mnem, Iss!mnem
<1>3. /\ At(imem, iss_machine)!a = Iss!a
      /\ At(imem, iss_machine)!b = Iss!b
  BY <1>1, MachineFields, Zenon
  DEF At!a, Iss!a, At!b, Iss!b, At!rd_reg, Iss!rd_reg
<1>4. /\ At(imem, iss_machine)!addr = Iss!addr
      /\ At(imem, iss_machine)!pc4 = Iss!pc4
  BY <1>1, <1>3, MachineFields, PureWords, Zenon
  DEF At!addr, Iss!addr, At!pc4, Iss!pc4
<1> QED BY <1>1, <1>2, <1>3, <1>4

\* What it compares, loads and stores.
LEMMA IssMemory ==
  ASSUME NEW m
  PROVE  /\ At(imem, iss_machine)!taken(m) = Iss!taken(m)
         /\ At(imem, iss_machine)!load(m) = Iss!load(m)
         /\ At(imem, iss_machine)!store(m) = Iss!store(m)
         /\ At(imem, iss_machine)!lane_width(m) = Iss!lane_width(m)
<1>1. At(imem, iss_machine)!taken(m) = Iss!taken(m)
  BY IssOperands, Zenon
  DEF At!taken, Iss!taken, At!Signed, Iss!Signed
<1>2. At(imem, iss_machine)!lane_shift(m) = Iss!lane_shift(m)
  BY IssOperands, Zenon
  DEF At!lane_shift, Iss!lane_shift, At!ByteBits, Iss!ByteBits, At!HalfBits,
     Iss!HalfBits
<1>3. At(imem, iss_machine)!lane_width(m) = Iss!lane_width(m)
  BY Zenon
  DEF At!lane_width, Iss!lane_width, At!ByteBits, Iss!ByteBits, At!HalfBits,
     Iss!HalfBits
<1>4. At(imem, iss_machine)!load(m) = Iss!load(m)
  <2>1. \A x, y : At(imem, iss_machine)!SignExtend(x, y) = Iss!SignExtend(x, y)
    BY PureWords, Zenon
  <2> QED BY <1>2, <1>3, <2>1, IssOperands, MachineFields, Zenon
          DEF At!load, Iss!load, At!widx, Iss!widx
<1>5. At(imem, iss_machine)!store(m) = Iss!store(m)
  BY <1>2, <1>3, IssOperands, MachineFields, Zenon
  DEF At!store, Iss!store, At!widx, Iss!widx
<1> QED BY <1>1, <1>3, <1>4, <1>5

\* What it reads from and writes to a CSR.
LEMMA IssCsrs ==
  ASSUME NEW c, NEW w
  PROVE  /\ At(imem, iss_machine)!csr_read(c) = Iss!csr_read(c)
         /\ At(imem, iss_machine)!csr_written(c, w) = Iss!csr_written(c, w)
<1>1. At(imem, iss_machine)!csr_read(c) = Iss!csr_read(c)
  BY MachineFields, Zenon
  DEF At!csr_read, Iss!csr_read, At!AtBit, Iss!AtBit, At!WordAlign, Iss!WordAlign,
     At!CSR_MSTATUS, Iss!CSR_MSTATUS, At!CSR_MIE, Iss!CSR_MIE, At!CSR_MTVEC,
     Iss!CSR_MTVEC, At!CSR_MEPC, Iss!CSR_MEPC, At!CSR_MCAUSE, Iss!CSR_MCAUSE,
     At!MIE_BIT, Iss!MIE_BIT, At!MPIE_BIT, Iss!MPIE_BIT
<1>2. At(imem, iss_machine)!csr_written(c, w) = Iss!csr_written(c, w)
  BY MachineFields, Zenon
  DEF At!csr_written, Iss!csr_written, At!Bit, Iss!Bit, At!WordAlign,
     Iss!WordAlign, At!CSR_MSTATUS, Iss!CSR_MSTATUS, At!CSR_MIE, Iss!CSR_MIE,
     At!CSR_MTVEC, Iss!CSR_MTVEC, At!CSR_MEPC, Iss!CSR_MEPC, At!CSR_MCAUSE,
     Iss!CSR_MCAUSE, At!MIE_BIT, Iss!MIE_BIT, At!MPIE_BIT, Iss!MPIE_BIT
<1> QED BY <1>1, <1>2

\* The register it writes, and the line it prints.
LEMMA IssResults ==
  /\ At(imem, iss_machine)!rd_we <=> Iss!rd_we
  /\ At(imem, iss_machine)!rd_val = Iss!rd_val
  /\ \A r, v : At(imem, iss_machine)!wr_reg(r, v) = Iss!wr_reg(r, v)
  /\ At(imem, iss_machine)!trace_line = Iss!trace_line
<1>1. At(imem, iss_machine)!rd_we <=> Iss!rd_we
  BY IssOperands, Zenon
  DEF At!rd_we, Iss!rd_we
<1>2. At(imem, iss_machine)!rd_val = Iss!rd_val
  <2>1. ASSUME NEW m, NEW x, NEW y
        PROVE  At(imem, iss_machine)!arith(m, x, y) = Iss!arith(m, x, y)
    BY PureArith
  <2>2. \A x : At(imem, iss_machine)!U(x) = Iss!U(x)
    BY PureWords, Zenon
  <2>3. \A m : At(imem, iss_machine)!load(m) = Iss!load(m)
    BY IssMemory, Zenon
  <2>4. \A c : At(imem, iss_machine)!csr_read(c) = Iss!csr_read(c)
    BY IssCsrs, Zenon
  <2> QED BY <2>1, <2>2, <2>3, <2>4, IssOperands, MachineFields, Zenon
          DEF At!rd_val, Iss!rd_val
<1>3. \A r, v : At(imem, iss_machine)!wr_reg(r, v) = Iss!wr_reg(r, v)
  BY MachineFields, Zenon
  DEF At!wr_reg, Iss!wr_reg
<1>4. At(imem, iss_machine)!trace_line = Iss!trace_line
  BY <1>1, <1>2, IssOperands, IssMemory, MachineFields, Zenon
  DEF At!trace_line, Iss!trace_line
<1> QED BY <1>1, <1>2, <1>3, <1>4
----------------------------------------------------------------------------
(* Its steps.                                                              *)

\* The classes exclude each other, and so do the mnemonics that matter.
LEMMA Classes ==
  ASSUME NEW f, NEW m
  PROVE  /\ f \in {"R", "I", "L", "U"} => f \notin {"S", "B", "J", "SYS", "CSR-R", "CSR-I"}
         /\ f \in {"S"} => f \notin {"B", "J", "SYS", "CSR-R", "CSR-I"}
         /\ f \in {"B"} => f \notin {"S", "J", "SYS", "CSR-R", "CSR-I"}
         /\ f \in {"J"} => f \notin {"S", "B", "SYS", "CSR-R", "CSR-I"}
         /\ f \in {"CSR-R", "CSR-I"} => f \notin {"S", "B", "J", "SYS"}
         /\ f \in {"SYS"} => f \notin {"S", "B", "J", "CSR-R", "CSR-I"}
         /\ m = "mret" => m \notin {"ebreak", "ecall", "illegal"}
         /\ m = "ebreak" => m \notin {"mret", "ecall", "illegal"}
         /\ m = "ecall" => m \notin {"mret", "ebreak", "illegal"}
OBVIOUS

\* What the architecture of the pipeline leaves behind, in its own words.
LEMMA AbsAfter ==
  /\ pc_after(imem, abs_machine) =
       IF Architecture!fmt = "B"
       THEN IF Architecture!taken(Architecture!mnem)
            THEN Architecture!U(abs_pc + Architecture!insn.imm) ELSE Architecture!pc4
       ELSE IF Architecture!fmt = "J"
       THEN IF Architecture!mnem = "jal"
            THEN Architecture!U(abs_pc + Architecture!insn.imm)
            ELSE Architecture!HalfAlign(Architecture!addr)
       ELSE IF Architecture!fmt = "SYS" /\ Architecture!mnem = "mret"
       THEN Architecture!WordAlign(csr.mepc)
       ELSE Architecture!pc4
  /\ regs_after(imem, abs_machine) =
       IF Architecture!rd_we
       THEN Architecture!wr_reg(Architecture!insn.rd, Architecture!rd_val)
       ELSE abs_regs
  /\ dmem_after(imem, abs_machine) =
       IF Architecture!fmt = "S" THEN Architecture!store(Architecture!mnem) ELSE abs_dmem
  /\ halted_after(imem, abs_machine) =
       IF Architecture!fmt = "SYS" /\ Architecture!mnem = "ebreak"
       THEN TRUE ELSE abs_halted
<1>1. \A x : /\ At(imem, abs_machine)!U(x) = Architecture!U(x)
             /\ At(imem, abs_machine)!WordAlign(x) = Architecture!WordAlign(x)
             /\ At(imem, abs_machine)!HalfAlign(x) = Architecture!HalfAlign(x)
  BY PureWords, Zenon
<1>2. \A m : /\ At(imem, abs_machine)!taken(m) = Architecture!taken(m)
             /\ At(imem, abs_machine)!store(m) = Architecture!store(m)
  BY AbsMemory, Zenon
<1>3. pc_after(imem, abs_machine) =
        IF Architecture!fmt = "B"
        THEN IF Architecture!taken(Architecture!mnem)
             THEN Architecture!U(abs_pc + Architecture!insn.imm) ELSE Architecture!pc4
        ELSE IF Architecture!fmt = "J"
        THEN IF Architecture!mnem = "jal"
             THEN Architecture!U(abs_pc + Architecture!insn.imm)
             ELSE Architecture!HalfAlign(Architecture!addr)
        ELSE IF Architecture!fmt = "SYS" /\ Architecture!mnem = "mret"
        THEN Architecture!WordAlign(csr.mepc)
        ELSE Architecture!pc4
  BY <1>1, <1>2, AbsOperands, MachineFields, Zenon DEF pc_after
<1>4. regs_after(imem, abs_machine) =
        IF Architecture!rd_we
        THEN Architecture!wr_reg(Architecture!insn.rd, Architecture!rd_val)
        ELSE abs_regs
  BY AbsOperands, AbsResults, MachineFields, Zenon DEF regs_after
<1>5. dmem_after(imem, abs_machine) =
        IF Architecture!fmt = "S" THEN Architecture!store(Architecture!mnem) ELSE abs_dmem
  BY <1>2, AbsOperands, MachineFields, Zenon DEF dmem_after
<1>6. halted_after(imem, abs_machine) =
        IF Architecture!fmt = "SYS" /\ Architecture!mnem = "ebreak"
        THEN TRUE ELSE abs_halted
  BY AbsOperands, MachineFields, Zenon DEF halted_after
<1> QED BY <1>3, <1>4, <1>5, <1>6

\* The CSRs it leaves.
LEMMA AbsCsrAfter ==
  /\ Architecture!CsrAccess => csr' = csr_after(imem, abs_machine)
  /\ Architecture!fmt \notin {"CSR-R", "CSR-I"} =>
       csr_after(imem, abs_machine) =
         IF Architecture!fmt = "SYS" /\ Architecture!mnem = "mret"
         THEN [csr EXCEPT !.mstatus_mie = csr.mstatus_mpie, !.mstatus_mpie = TRUE]
         ELSE csr
<1>1. \A x : At(imem, abs_machine)!BitNot(x) = Architecture!BitNot(x)
  BY PureWords, Zenon
<1>2. \A c, v : /\ At(imem, abs_machine)!csr_read(c) = Architecture!csr_read(c)
                /\ At(imem, abs_machine)!csr_written(c, v) = Architecture!csr_written(c, v)
  BY AbsCsrs, Zenon
<1> DEFINE old == Architecture!csr_read(Architecture!insn.csr)
           src == IF Architecture!fmt = "CSR-R"
                  THEN Architecture!a ELSE Architecture!insn.rs1
           new == csr_new(Architecture!mnem, old, src, Architecture!BitNot(src))
           accessed == IF Architecture!mnem = "csrrw" \/ Architecture!insn.rs1 # 0
                       THEN Architecture!csr_written(Architecture!insn.csr, new) ELSE csr
           returned == IF Architecture!fmt = "SYS" /\ Architecture!mnem = "mret"
                       THEN [csr EXCEPT !.mstatus_mie = csr.mstatus_mpie,
                                          !.mstatus_mpie = TRUE]
                       ELSE csr
           access == Architecture!fmt \in {"CSR-R", "CSR-I"}
<1>3. csr_accessed(imem, abs_machine) = accessed
  <2> DEFINE was == At(imem, abs_machine)!csr_read(At(imem, abs_machine)!insn.csr)
             from == IF At(imem, abs_machine)!fmt = "CSR-R" THEN At(imem, abs_machine)!a
                     ELSE At(imem, abs_machine)!insn.rs1
             next == csr_new(At(imem, abs_machine)!mnem, was, from,
                              At(imem, abs_machine)!BitNot(from))
  <2>1. was = old /\ from = src
    BY <1>2, AbsOperands, Zenon
  <2>2. next = new
    <3> HIDE DEF was, from, old, src
    <3> QED BY <1>1, <2>1, AbsOperands, Zenon
  <2>3. csr_accessed(imem, abs_machine) =
          IF At(imem, abs_machine)!mnem = "csrrw" \/ At(imem, abs_machine)!insn.rs1 # 0
          THEN At(imem, abs_machine)!csr_written(At(imem, abs_machine)!insn.csr, next)
          ELSE abs_machine.csr
    BY Zenon DEF csr_accessed
  <2> HIDE DEF next, new
  <2> QED BY <1>2, <2>2, <2>3, AbsOperands, MachineFields, Zenon
<1>4. csr_returned(imem, abs_machine) = returned
  BY AbsOperands, MachineFields, Zenon DEF csr_returned
<1>5. csr_after(imem, abs_machine) = IF access THEN accessed ELSE returned
  <2> HIDE DEF accessed, returned
  <2> QED BY <1>3, <1>4, AbsOperands, Zenon DEF csr_after
<1>6. Architecture!CsrAccess => access /\ csr' = accessed
  BY Zenon DEF Architecture!CsrAccess, Architecture!next_is, csr_new
<1>7. ~access => csr_after(imem, abs_machine) = returned
  <2> HIDE DEF access, accessed, returned
  <2> QED BY <1>5, Zenon
<1>8. Architecture!CsrAccess => csr' = csr_after(imem, abs_machine)
  <2> HIDE DEF access, accessed, returned
  <2> QED BY <1>5, <1>6, Zenon
<1> QED BY <1>7, <1>8, Zenon

\* How an instruction ends.
LEMMA AbsFinish ==
  ASSUME NEW x, Architecture!finish(x)
  PROVE  abs_regs' = regs_after(imem, abs_machine) /\ abs_pc' = x
         /\ abs_halted' = abs_halted
<1>1. /\ abs_regs' = IF Architecture!rd_we
                     THEN Architecture!wr_reg(Architecture!insn.rd, Architecture!rd_val)
                     ELSE abs_regs
      /\ abs_pc' = x
         /\ abs_halted' = abs_halted
  BY Zenon DEF Architecture!finish
<1> QED BY <1>1, AbsAfter, Zenon

\* An instruction that retires.
LEMMA AbsRetires ==
  ASSUME \/ Architecture!Compute \/ Architecture!Store \/ Architecture!Branch
         \/ Architecture!Jump
         \/ Architecture!CsrAccess \/ Architecture!Mret \/ Architecture!Ebreak
  PROVE  abs_machine' = after(imem, abs_machine) /\ Architecture!mnem # "illegal"
         /\ ~(Architecture!fmt = "SYS" /\ Architecture!mnem = "ecall") /\ ~abs_halted
<1> DEFINE f == Architecture!fmt
           m == Architecture!mnem
           Goal == /\ abs_pc' = pc_after(imem, abs_machine)
                   /\ abs_regs' = regs_after(imem, abs_machine)
                   /\ abs_dmem' = dmem_after(imem, abs_machine)
                   /\ csr' = csr_after(imem, abs_machine)
                   /\ abs_halted' = halted_after(imem, abs_machine)
                   /\ m # "illegal" /\ ~(f = "SYS" /\ m = "ecall") /\ ~abs_halted
<1>1. \A x : Architecture!finish(x) =>
               /\ abs_regs' = regs_after(imem, abs_machine) /\ abs_pc' = x
               /\ abs_halted' = abs_halted
  BY AbsFinish, Zenon
<1>2. ASSUME Architecture!Compute PROVE Goal
  <2>1. /\ f \in {"R", "I", "L", "U"} /\ m # "illegal" /\ ~abs_halted
        /\ Architecture!finish(Architecture!pc4)
        /\ abs_dmem' = abs_dmem /\ csr' = csr
    BY <1>2, Zenon DEF Architecture!Compute, Architecture!next_is
  <2>2. f \notin {"S", "B", "J", "SYS", "CSR-R", "CSR-I"}
    BY <2>1, Classes
  <2> QED BY <1>1, <2>1, <2>2, AbsAfter, AbsCsrAfter, Zenon
<1>3. ASSUME Architecture!Store PROVE Goal
  <2>1. /\ f \in {"S"} /\ m # "illegal" /\ ~abs_halted
        /\ Architecture!finish(Architecture!pc4)
        /\ abs_dmem' = Architecture!store(m) /\ csr' = csr
    BY <1>3, Zenon DEF Architecture!Store, Architecture!next_is
  <2>2. f \notin {"B", "J", "SYS", "CSR-R", "CSR-I"}
    BY <2>1, Classes
  <2> QED BY <1>1, <2>1, <2>2, AbsAfter, AbsCsrAfter, Zenon
<1>4. ASSUME Architecture!Branch PROVE Goal
  <2>1. /\ f \in {"B"} /\ m # "illegal" /\ ~abs_halted
        /\ Architecture!finish(IF Architecture!taken(m)
                              THEN Architecture!U(abs_pc + Architecture!insn.imm)
                              ELSE Architecture!pc4)
        /\ abs_dmem' = abs_dmem /\ csr' = csr
    BY <1>4, Zenon DEF Architecture!Branch, Architecture!next_is
  <2>2. f \notin {"S", "J", "SYS", "CSR-R", "CSR-I"}
    BY <2>1, Classes
  <2> QED BY <1>1, <2>1, <2>2, AbsAfter, AbsCsrAfter, Zenon
<1>5. ASSUME Architecture!Jump PROVE Goal
  <2>1. /\ f \in {"J"} /\ m # "illegal" /\ ~abs_halted
        /\ Architecture!finish(IF m = "jal"
                              THEN Architecture!U(abs_pc + Architecture!insn.imm)
                                    ELSE Architecture!HalfAlign(Architecture!addr))
        /\ abs_dmem' = abs_dmem /\ csr' = csr
    BY <1>5, Zenon DEF Architecture!Jump, Architecture!next_is
  <2>2. f \notin {"S", "B", "SYS", "CSR-R", "CSR-I"}
    BY <2>1, Classes
  <2> QED BY <1>1, <2>1, <2>2, AbsAfter, AbsCsrAfter, Zenon
<1>6. ASSUME Architecture!CsrAccess PROVE Goal
  <2>1. /\ f \in {"CSR-R", "CSR-I"} /\ m # "illegal" /\ ~abs_halted
        /\ Architecture!finish(Architecture!pc4) /\ abs_dmem' = abs_dmem
    BY <1>6, Zenon DEF Architecture!CsrAccess, Architecture!next_is
  <2>2. f \notin {"S", "B", "J", "SYS"}
    BY <2>1, Classes
  <2> QED BY <1>1, <1>6, <2>1, <2>2, AbsAfter, AbsCsrAfter, Zenon
<1>7. ASSUME Architecture!Mret PROVE Goal
  <2>1. /\ f \in {"SYS"} /\ m = "mret" /\ m # "illegal" /\ ~abs_halted
        /\ Architecture!finish(Architecture!WordAlign(csr.mepc)) /\ abs_dmem' = abs_dmem
        /\ csr' = [csr EXCEPT !.mstatus_mie = csr.mstatus_mpie,
                                  !.mstatus_mpie = TRUE]
    BY <1>7, Zenon DEF Architecture!Mret, Architecture!next_is
  <2>2. /\ f \notin {"S", "B", "J", "CSR-R", "CSR-I"}
        /\ m \notin {"ebreak", "ecall", "illegal"}
    BY <2>1, Classes
  <2> QED BY <1>1, <2>1, <2>2, AbsAfter, AbsCsrAfter, Zenon
<1>8. ASSUME Architecture!Ebreak PROVE Goal
  <2>1. /\ f \in {"SYS"} /\ m = "ebreak" /\ m # "illegal" /\ ~abs_halted
        /\ abs_halted' = TRUE /\ abs_pc' = Architecture!pc4
        /\ abs_regs' = abs_regs /\ abs_dmem' = abs_dmem /\ csr' = csr
    BY <1>8, Zenon DEF Architecture!Ebreak, Architecture!next_is
  <2>2. /\ f \notin {"S", "B", "J", "CSR-R", "CSR-I"}
        /\ m \notin {"mret", "ecall", "illegal"}
    BY <2>1, Classes
  <2>3. ~Architecture!rd_we
    <3>1. f \in {"SYS"} => f \notin {"R", "I", "L", "U", "J", "CSR-R", "CSR-I"}
      OBVIOUS
    <3> QED BY <2>1, <3>1, Zenon DEF Architecture!rd_we
  <2> QED BY <2>1, <2>2, <2>3, AbsAfter, AbsCsrAfter, Zenon
<1>9. Goal
  BY <1>2, <1>3, <1>4, <1>5, <1>6, <1>7, <1>8, Zenon
<1>10. abs_machine' = [pc |-> abs_pc', regs |-> abs_regs', dmem |-> abs_dmem',
                      csr |-> csr',
                  halted |-> abs_halted']
  BY Zenon DEF abs_machine
<1> QED BY <1>9, <1>10, Zenon DEF after

\* A trap.
LEMMA AbsTraps ==
  ASSUME NEW cause, Architecture!enter_trap(cause)
  PROVE  abs_machine' = trapped(imem, abs_machine, cause)
<1>1. \A x : At(imem, abs_machine)!WordAlign(x) = Architecture!WordAlign(x)
  BY PureWords, Zenon
<1>2. abs_machine' = [pc |-> abs_pc', regs |-> abs_regs', dmem |-> abs_dmem',
                      csr |-> csr',
                 halted |-> abs_halted']
  BY Zenon DEF abs_machine
<1> QED BY <1>1, <1>2, MachineFields, Zenon DEF trapped, Architecture!enter_trap

\* What the reference leaves behind, in its own words.
LEMMA IssAfter ==
  /\ pc_after(imem, iss_machine) =
       IF Iss!fmt = "B"
       THEN IF Iss!taken(Iss!mnem)
            THEN Iss!U(iss_pc + Iss!insn.imm) ELSE Iss!pc4
       ELSE IF Iss!fmt = "J"
       THEN IF Iss!mnem = "jal"
            THEN Iss!U(iss_pc + Iss!insn.imm)
            ELSE Iss!HalfAlign(Iss!addr)
       ELSE IF Iss!fmt = "SYS" /\ Iss!mnem = "mret"
       THEN Iss!WordAlign(iss_csr.mepc)
       ELSE Iss!pc4
  /\ regs_after(imem, iss_machine) =
       IF Iss!rd_we
       THEN Iss!wr_reg(Iss!insn.rd, Iss!rd_val)
       ELSE iss_regs
  /\ dmem_after(imem, iss_machine) =
       IF Iss!fmt = "S" THEN Iss!store(Iss!mnem) ELSE iss_dmem
  /\ halted_after(imem, iss_machine) =
       IF Iss!fmt = "SYS" /\ Iss!mnem = "ebreak"
       THEN TRUE ELSE iss_halted
<1>1. \A x : /\ At(imem, iss_machine)!U(x) = Iss!U(x)
             /\ At(imem, iss_machine)!WordAlign(x) = Iss!WordAlign(x)
             /\ At(imem, iss_machine)!HalfAlign(x) = Iss!HalfAlign(x)
  BY PureWords, Zenon
<1>2. \A m : /\ At(imem, iss_machine)!taken(m) = Iss!taken(m)
             /\ At(imem, iss_machine)!store(m) = Iss!store(m)
  BY IssMemory, Zenon
<1>3. pc_after(imem, iss_machine) =
        IF Iss!fmt = "B"
        THEN IF Iss!taken(Iss!mnem)
             THEN Iss!U(iss_pc + Iss!insn.imm) ELSE Iss!pc4
        ELSE IF Iss!fmt = "J"
        THEN IF Iss!mnem = "jal"
             THEN Iss!U(iss_pc + Iss!insn.imm)
             ELSE Iss!HalfAlign(Iss!addr)
        ELSE IF Iss!fmt = "SYS" /\ Iss!mnem = "mret"
        THEN Iss!WordAlign(iss_csr.mepc)
        ELSE Iss!pc4
  BY <1>1, <1>2, IssOperands, MachineFields, Zenon DEF pc_after
<1>4. regs_after(imem, iss_machine) =
        IF Iss!rd_we
        THEN Iss!wr_reg(Iss!insn.rd, Iss!rd_val)
        ELSE iss_regs
  BY IssOperands, IssResults, MachineFields, Zenon DEF regs_after
<1>5. dmem_after(imem, iss_machine) =
        IF Iss!fmt = "S" THEN Iss!store(Iss!mnem) ELSE iss_dmem
  BY <1>2, IssOperands, MachineFields, Zenon DEF dmem_after
<1>6. halted_after(imem, iss_machine) =
        IF Iss!fmt = "SYS" /\ Iss!mnem = "ebreak"
        THEN TRUE ELSE iss_halted
  BY IssOperands, MachineFields, Zenon DEF halted_after
<1> QED BY <1>3, <1>4, <1>5, <1>6

\* The CSRs it leaves.
LEMMA IssCsrAfter ==
  /\ Iss!CsrAccess => iss_csr' = csr_after(imem, iss_machine)
  /\ Iss!fmt \notin {"CSR-R", "CSR-I"} =>
       csr_after(imem, iss_machine) =
         IF Iss!fmt = "SYS" /\ Iss!mnem = "mret"
         THEN [iss_csr EXCEPT !.mstatus_mie = iss_csr.mstatus_mpie, !.mstatus_mpie = TRUE]
         ELSE iss_csr
<1>1. \A x : At(imem, iss_machine)!BitNot(x) = Iss!BitNot(x)
  BY PureWords, Zenon
<1>2. \A c, v : /\ At(imem, iss_machine)!csr_read(c) = Iss!csr_read(c)
                /\ At(imem, iss_machine)!csr_written(c, v) = Iss!csr_written(c, v)
  BY IssCsrs, Zenon
<1> DEFINE old == Iss!csr_read(Iss!insn.csr)
           src == IF Iss!fmt = "CSR-R"
                  THEN Iss!a ELSE Iss!insn.rs1
           new == csr_new(Iss!mnem, old, src, Iss!BitNot(src))
           accessed == IF Iss!mnem = "csrrw" \/ Iss!insn.rs1 # 0
                       THEN Iss!csr_written(Iss!insn.csr, new) ELSE iss_csr
           returned == IF Iss!fmt = "SYS" /\ Iss!mnem = "mret"
                       THEN [iss_csr EXCEPT !.mstatus_mie = iss_csr.mstatus_mpie,
                                          !.mstatus_mpie = TRUE]
                       ELSE iss_csr
           access == Iss!fmt \in {"CSR-R", "CSR-I"}
<1>3. csr_accessed(imem, iss_machine) = accessed
  <2> DEFINE was == At(imem, iss_machine)!csr_read(At(imem, iss_machine)!insn.csr)
             from == IF At(imem, iss_machine)!fmt = "CSR-R" THEN At(imem, iss_machine)!a
                     ELSE At(imem, iss_machine)!insn.rs1
             next == csr_new(At(imem, iss_machine)!mnem, was, from,
                              At(imem, iss_machine)!BitNot(from))
  <2>1. was = old /\ from = src
    BY <1>2, IssOperands, Zenon
  <2>2. next = new
    <3> HIDE DEF was, from, old, src
    <3> QED BY <1>1, <2>1, IssOperands, Zenon
  <2>3. csr_accessed(imem, iss_machine) =
          IF At(imem, iss_machine)!mnem = "csrrw" \/ At(imem, iss_machine)!insn.rs1 # 0
          THEN At(imem, iss_machine)!csr_written(At(imem, iss_machine)!insn.csr, next)
          ELSE iss_machine.csr
    BY Zenon DEF csr_accessed
  <2> HIDE DEF next, new
  <2> QED BY <1>2, <2>2, <2>3, IssOperands, MachineFields, Zenon
<1>4. csr_returned(imem, iss_machine) = returned
  BY IssOperands, MachineFields, Zenon DEF csr_returned
<1>5. csr_after(imem, iss_machine) = IF access THEN accessed ELSE returned
  <2> HIDE DEF accessed, returned
  <2> QED BY <1>3, <1>4, IssOperands, Zenon DEF csr_after
<1>6. Iss!CsrAccess => access /\ iss_csr' = accessed
  BY Zenon DEF Iss!CsrAccess, Iss!next_is, csr_new
<1>7. ~access => csr_after(imem, iss_machine) = returned
  <2> HIDE DEF access, accessed, returned
  <2> QED BY <1>5, Zenon
<1>8. Iss!CsrAccess => iss_csr' = csr_after(imem, iss_machine)
  <2> HIDE DEF access, accessed, returned
  <2> QED BY <1>5, <1>6, Zenon
<1> QED BY <1>7, <1>8, Zenon

\* How an instruction ends.
LEMMA IssFinish ==
  ASSUME NEW x, Iss!finish(x)
  PROVE  iss_regs' = regs_after(imem, iss_machine) /\ iss_pc' = x
         /\ iss_halted' = iss_halted
<1>1. /\ iss_regs' = IF Iss!rd_we
                     THEN Iss!wr_reg(Iss!insn.rd, Iss!rd_val) ELSE iss_regs
      /\ iss_pc' = x
         /\ iss_halted' = iss_halted
  BY Zenon DEF Iss!finish
<1> QED BY <1>1, IssAfter, Zenon

\* An instruction that retires.
LEMMA IssRetires ==
  ASSUME \/ Iss!Compute \/ Iss!Store \/ Iss!Branch \/ Iss!Jump
         \/ Iss!CsrAccess \/ Iss!Mret \/ Iss!Ebreak
  PROVE  iss_machine' = after(imem, iss_machine) /\ Iss!mnem # "illegal"
         /\ ~(Iss!fmt = "SYS" /\ Iss!mnem = "ecall") /\ ~iss_halted
<1> DEFINE f == Iss!fmt
           m == Iss!mnem
           Goal == /\ iss_pc' = pc_after(imem, iss_machine)
                   /\ iss_regs' = regs_after(imem, iss_machine)
                   /\ iss_dmem' = dmem_after(imem, iss_machine)
                   /\ iss_csr' = csr_after(imem, iss_machine)
                   /\ iss_halted' = halted_after(imem, iss_machine)
                   /\ m # "illegal" /\ ~(f = "SYS" /\ m = "ecall") /\ ~iss_halted
<1>1. \A x : Iss!finish(x) =>
               /\ iss_regs' = regs_after(imem, iss_machine) /\ iss_pc' = x
               /\ iss_halted' = iss_halted
  BY IssFinish, Zenon
<1>2. ASSUME Iss!Compute PROVE Goal
  <2>1. /\ f \in {"R", "I", "L", "U"} /\ m # "illegal" /\ ~iss_halted
        /\ Iss!finish(Iss!pc4)
        /\ iss_dmem' = iss_dmem /\ iss_csr' = iss_csr
    BY <1>2, Zenon DEF Iss!Compute, Iss!next_is
  <2>2. f \notin {"S", "B", "J", "SYS", "CSR-R", "CSR-I"}
    BY <2>1, Classes
  <2> QED BY <1>1, <2>1, <2>2, IssAfter, IssCsrAfter, Zenon
<1>3. ASSUME Iss!Store PROVE Goal
  <2>1. /\ f \in {"S"} /\ m # "illegal" /\ ~iss_halted
        /\ Iss!finish(Iss!pc4)
        /\ iss_dmem' = Iss!store(m) /\ iss_csr' = iss_csr
    BY <1>3, Zenon DEF Iss!Store, Iss!next_is
  <2>2. f \notin {"B", "J", "SYS", "CSR-R", "CSR-I"}
    BY <2>1, Classes
  <2> QED BY <1>1, <2>1, <2>2, IssAfter, IssCsrAfter, Zenon
<1>4. ASSUME Iss!Branch PROVE Goal
  <2>1. /\ f \in {"B"} /\ m # "illegal" /\ ~iss_halted
        /\ Iss!finish(IF Iss!taken(m) THEN Iss!U(iss_pc + Iss!insn.imm) ELSE Iss!pc4)
        /\ iss_dmem' = iss_dmem /\ iss_csr' = iss_csr
    BY <1>4, Zenon DEF Iss!Branch, Iss!next_is
  <2>2. f \notin {"S", "J", "SYS", "CSR-R", "CSR-I"}
    BY <2>1, Classes
  <2> QED BY <1>1, <2>1, <2>2, IssAfter, IssCsrAfter, Zenon
<1>5. ASSUME Iss!Jump PROVE Goal
  <2>1. /\ f \in {"J"} /\ m # "illegal" /\ ~iss_halted
        /\ Iss!finish(IF m = "jal" THEN Iss!U(iss_pc + Iss!insn.imm)
                                    ELSE Iss!HalfAlign(Iss!addr))
        /\ iss_dmem' = iss_dmem /\ iss_csr' = iss_csr
    BY <1>5, Zenon DEF Iss!Jump, Iss!next_is
  <2>2. f \notin {"S", "B", "SYS", "CSR-R", "CSR-I"}
    BY <2>1, Classes
  <2> QED BY <1>1, <2>1, <2>2, IssAfter, IssCsrAfter, Zenon
<1>6. ASSUME Iss!CsrAccess PROVE Goal
  <2>1. /\ f \in {"CSR-R", "CSR-I"} /\ m # "illegal" /\ ~iss_halted
        /\ Iss!finish(Iss!pc4) /\ iss_dmem' = iss_dmem
    BY <1>6, Zenon DEF Iss!CsrAccess, Iss!next_is
  <2>2. f \notin {"S", "B", "J", "SYS"}
    BY <2>1, Classes
  <2> QED BY <1>1, <1>6, <2>1, <2>2, IssAfter, IssCsrAfter, Zenon
<1>7. ASSUME Iss!Mret PROVE Goal
  <2>1. /\ f \in {"SYS"} /\ m = "mret" /\ m # "illegal" /\ ~iss_halted
        /\ Iss!finish(Iss!WordAlign(iss_csr.mepc)) /\ iss_dmem' = iss_dmem
        /\ iss_csr' = [iss_csr EXCEPT !.mstatus_mie = iss_csr.mstatus_mpie,
                                  !.mstatus_mpie = TRUE]
    BY <1>7, Zenon DEF Iss!Mret, Iss!next_is
  <2>2. /\ f \notin {"S", "B", "J", "CSR-R", "CSR-I"}
        /\ m \notin {"ebreak", "ecall", "illegal"}
    BY <2>1, Classes
  <2> QED BY <1>1, <2>1, <2>2, IssAfter, IssCsrAfter, Zenon
<1>8. ASSUME Iss!Ebreak PROVE Goal
  <2>1. /\ f \in {"SYS"} /\ m = "ebreak" /\ m # "illegal" /\ ~iss_halted
        /\ iss_halted' = TRUE /\ iss_pc' = Iss!pc4
        /\ iss_regs' = iss_regs /\ iss_dmem' = iss_dmem /\ iss_csr' = iss_csr
    BY <1>8, Zenon DEF Iss!Ebreak, Iss!next_is
  <2>2. /\ f \notin {"S", "B", "J", "CSR-R", "CSR-I"}
        /\ m \notin {"mret", "ecall", "illegal"}
    BY <2>1, Classes
  <2>3. ~Iss!rd_we
    <3>1. f \in {"SYS"} => f \notin {"R", "I", "L", "U", "J", "CSR-R", "CSR-I"}
      OBVIOUS
    <3> QED BY <2>1, <3>1, Zenon DEF Iss!rd_we
  <2> QED BY <2>1, <2>2, <2>3, IssAfter, IssCsrAfter, Zenon
<1>9. Goal
  BY <1>2, <1>3, <1>4, <1>5, <1>6, <1>7, <1>8, Zenon
<1>10. iss_machine' = [pc |-> iss_pc', regs |-> iss_regs', dmem |-> iss_dmem',
                      csr |-> iss_csr',
                  halted |-> iss_halted']
  BY Zenon DEF iss_machine
<1> QED BY <1>9, <1>10, Zenon DEF after

\* A trap.
LEMMA IssTraps ==
  ASSUME NEW cause, Iss!enter_trap(cause)
  PROVE  iss_machine' = trapped(imem, iss_machine, cause)
<1>1. \A x : At(imem, iss_machine)!WordAlign(x) = Iss!WordAlign(x)
  BY PureWords, Zenon
<1>2. iss_machine' = [pc |-> iss_pc', regs |-> iss_regs', dmem |-> iss_dmem',
                      csr |-> iss_csr',
                 halted |-> iss_halted']
  BY Zenon DEF iss_machine
<1> QED BY <1>1, <1>2, MachineFields, Zenon DEF trapped, Iss!enter_trap
----------------------------------------------------------------------------
(* The lines of a test.                                                    *)

\* The lines in the file, with that of WB, and with that of MEM.
shown == IF trace_valid THEN Append(trace, trace_port) ELSE trace
lines == IF outstanding THEN Append(shown, mem_line) ELSE shown

TraceIsSeq == \E S : trace \in Seq(S)

LEMMA SeqGrows ==
  ASSUME NEW S, NEW s \in Seq(S), NEW y PROVE s \in Seq(S \cup {y}) /\ y \in S \cup {y}
OBVIOUS

\* A sequence with or without one more line.
LEMMA OneMore ==
  ASSUME NEW S, NEW s \in Seq(S), NEW y, NEW more
  PROVE  LET t == IF more THEN Append(s, y) ELSE s
         IN  /\ t \in Seq(S \cup {y}) /\ Len(s) \in Nat /\ Len(t) \in Nat
             /\ Len(t) = IF more THEN Len(s) + 1 ELSE Len(s)
             /\ \A k \in 1 .. Len(s) : t[k] = s[k]
             /\ more => t[Len(s) + 1] = y
<1>1. s \in Seq(S \cup {y}) /\ y \in S \cup {y}
  BY SeqGrows
<1> DEFINE T == S \cup {y}
<1>2. /\ Append(s, y) \in Seq(T) /\ Len(Append(s, y)) = Len(s) + 1
      /\ Append(s, y)[Len(s) + 1] = y
      /\ \A k \in 1 .. Len(s) : Append(s, y)[k] = s[k]
  <2> HIDE DEF T
  <2>1. s \in Seq(T) /\ y \in T
    BY <1>1 DEF T
  <2> QED BY <2>1, Appended
<1>3. Len(s) \in Nat
  OBVIOUS
<1>4. CASE more
  BY <1>2, <1>3, <1>4
<1>5. CASE ~more
  BY <1>1, <1>3, <1>5
<1> QED BY <1>4, <1>5, Zenon

\* How many lines there are, and that the longer sequences extend the shorter.
LEMMA Lengths ==
  ASSUME TraceIsSeq
  PROVE  /\ Len(trace) \in Nat /\ Len(shown) \in Nat /\ Len(lines) \in Nat
         /\ Len(shown) = IF trace_valid THEN Len(trace) + 1 ELSE Len(trace)
         /\ Len(lines) = IF outstanding THEN Len(shown) + 1 ELSE Len(shown)
         /\ \E S : trace \in Seq(S) /\ shown \in Seq(S) /\ lines \in Seq(S)
<1>1. PICK S : trace \in Seq(S)
  BY DEF TraceIsSeq
<1> DEFINE T == S \cup {trace_port}
           R == T \cup {mem_line}
<1>2. /\ shown \in Seq(T) /\ Len(trace) \in Nat /\ Len(shown) \in Nat
      /\ Len(shown) = IF trace_valid THEN Len(trace) + 1 ELSE Len(trace)
  BY <1>1, OneMore, Zenon DEF shown
<1>3. /\ lines \in Seq(R) /\ Len(lines) \in Nat
      /\ Len(lines) = IF outstanding THEN Len(shown) + 1 ELSE Len(shown)
  <2> HIDE DEF T
  <2> QED BY <1>2, OneMore, Zenon DEF lines
<1>4. trace \in Seq(R) /\ shown \in Seq(R)
  <2>1. trace \in Seq(T)
    BY <1>1, SeqGrows
  <2> HIDE DEF T
  <2> QED BY <1>2, <2>1, SeqGrows
<1> QED BY <1>2, <1>3, <1>4, Zenon

\* A line moves from MEM to WB and from WB to the file; one that is printed
\* by the reference comes to MEM.
LEMMA LinesEdge ==
  ASSUME Edge, TraceIsSeq, write_trace
  PROVE  /\ trace' = shown /\ shown' = lines /\ TraceIsSeq'
         /\ lines' = IF reference_retires THEN Append(lines, Architecture!trace_line)
                     ELSE lines
<1>1. trace' = shown
  BY Zenon DEF write_trace, shown
<1>2. shown' = lines
  BY <1>1, PortEdge, Zenon DEF shown, lines
<1>3. lines' = IF reference_retires THEN Append(lines, Architecture!trace_line) ELSE lines
  BY <1>2, RetireEdge, LineEdge, Zenon DEF lines
<1>4. TraceIsSeq'
  BY <1>1, Lengths, Zenon DEF TraceIsSeq
<1> QED BY <1>1, <1>2, <1>3, <1>4

\* What an edge is to the reference: nothing, the interrupt, an ecall, or an
\* instruction with a line.
LEMMA EdgeKinds ==
  ASSUME Edge, HandlersAreEntered
  PROVE  \/ /\ ~id_ex.valid /\ ~irq_taken /\ ~reference_retires
            /\ UNCHANGED Architecture!archVars
         \/ /\ irq_taken /\ id_ex.valid /\ ~reference_retires
            /\ Architecture!Interrupt
         \/ /\ ~irq_taken /\ id_ex.valid /\ ~reference_retires
            /\ Architecture!Ecall
         \/ /\ ~irq_taken /\ id_ex.valid /\ reference_retires /\ ~trap_taken
            /\ \/ Architecture!Compute \/ Architecture!Store \/ Architecture!Branch
               \/ Architecture!Jump \/ Architecture!CsrAccess \/ Architecture!Mret
               \/ Architecture!Ebreak
<1>1. CASE ~id_ex.valid
  BY <1>1, BubbleEdge, Zenon DEF irq_taken, reference_retires
<1>2. CASE irq_taken
  <2>1. id_ex.valid /\ trap_taken
    BY <1>2, Zenon DEF irq_taken, trap_taken
  <2> QED BY <1>2, <2>1, TrapStep, Zenon DEF reference_retires
<1>3. CASE id_ex.valid /\ ~irq_taken /\ reference_retires
  <2>1. ~trap_taken /\ legal(id_ex.inst)
    BY <1>3, RetireEdge
  <2> QED BY <1>3, <2>1, LegalStep, Zenon
<1>4. CASE id_ex.valid /\ ~irq_taken /\ ~reference_retires
  <2>1. Architecture!mnem # "illegal"
    BY <1>4, Zenon DEF HandlersAreEntered
  <2>2. Architecture!mnem = "ecall"
    BY <1>4, <2>1 DEF reference_retires
  <2>3. trap_taken
    <3>1. /\ id_ex.inst \in Instruction /\ Encoded(id_ex.inst)
          /\ id_ex.ctl = control(id_ex.inst)
          /\ Architecture!mnem = Architecture!decode(id_ex.inst)[2]
      BY <1>4, StateBeforeEx, SameInstruction, Zenon
    <3>2. legal(id_ex.inst)
      BY <2>1, <3>1, IllegalIsIllegal, Zenon
    <3>3. id_ex.ctl.ecall
      BY <2>2, <3>1, <3>2, LegalTraces, Zenon
    <3> QED BY <1>4, <3>3, Zenon DEF trap_taken
  <2> QED BY <1>4, <2>3, TrapStep, Zenon
<1> QED BY <1>1, <1>2, <1>3, <1>4, Zenon

----------------------------------------------------------------------------
(* The measurement.                                                        *)

\* Where the handler's entry is while the testbench waits for its line.
entry_in_wb  == trace_valid /\ mem_wb.pc = isr_mtvec
entry_in_mem == outstanding /\ ex_mem.pc = isr_mtvec

\* The index it will measure, and all indices with those measured already.
entry_index == IF entry_in_wb THEN Len(trace)
               ELSE IF entry_in_mem THEN Len(shown) ELSE Len(lines)
pulses == irq_after \cup (IF isr_armed THEN {entry_index} ELSE {})

\* An entry still to come is the next instruction to execute, with interrupts
\* disabled; in MEM, it has either left mtvec alone or interrupts disabled.
Waiting == /\ abs_pc = isr_mtvec /\ csr.mtvec = isr_mtvec
           /\ ~csr.mstatus_mie /\ ~abs_halted
Armed ==
  isr_armed =>
    \/ entry_in_wb
    \/ entry_in_mem /\ (csr.mtvec = isr_mtvec \/ ~csr.mstatus_mie)
    \/ ~entry_in_wb /\ ~entry_in_mem /\ Waiting

Measured ==
  /\ Armed
  /\ \A t \in irq_after : t \in Nat /\ t < Len(trace)
  /\ IsFiniteSet(irq_after)
  /\ n_irq = Cardinality(irq_after) + (IF isr_armed THEN 1 ELSE 0)

\* No measured index is beyond the last line.
LEMMA PulsesBounded ==
  ASSUME TraceIsSeq, Measured
  PROVE  \A t \in pulses : t \in Nat /\ t <= Len(lines)
<1>1. entry_index \in Nat /\ entry_index <= Len(lines) /\ Len(trace) <= Len(lines)
  BY Lengths DEF entry_index
<1>2. Len(lines) \in Nat /\ Len(trace) \in Nat
  BY Lengths
<1>3. \A t \in irq_after : t \in Nat /\ t < Len(trace)
  BY DEF Measured
<1> HIDE DEF entry_index
<1> QED BY <1>1, <1>2, <1>3 DEF pulses

\* What the entry's instruction does to the CSRs with interrupts disabled:
\* mtvec stays, or interrupts stay disabled.
LEMMA MtvecEdge ==
  ASSUME Edge, id_ex.valid, ~trap_taken, ~csr.mstatus_mie
  PROVE  csr'.mtvec = csr.mtvec \/ ~csr'.mstatus_mie
<1>1. csr \in Csrs
  BY StateBeforeEx
<1> DEFINE kept(c) == c.mtvec = csr.mtvec \/ ~c.mstatus_mie
<1>2. kept(csr) /\ kept(csr_mret(csr))
  BY <1>1 DEF csr_mret, Csrs
<1>3. ASSUME NEW addr, NEW w PROVE kept(csr_write(csr, addr, w))
  BY <1>1 DEF csr_write, Csrs
<1>4. \/ csr' = csr \/ csr' = csr_mret(csr)
      \/ \E addr, w : csr' = csr_write(csr, addr, w)
  <2> HIDE DEF kept
  <2> QED BY Executes, Zenon
<1> HIDE DEF kept
<1>5. kept(csr')
  BY <1>2, <1>3, <1>4, Zenon
<1> QED BY <1>5 DEF kept

\* A trap disables interrupts and keeps mtvec.
LEMMA TrapEdge ==
  ASSUME Edge, id_ex.valid, NEW cause, Architecture!enter_trap(cause)
  PROVE  /\ abs_pc' = csr.mtvec /\ csr'.mtvec = csr.mtvec /\ csr'.mstatus_mie = FALSE
         /\ abs_halted' = abs_halted /\ imem' = imem
<1>1. /\ abs_pc' = csr.mtvec /\ abs_halted' = abs_halted /\ imem' = imem
  BY AddressesAligned, Zenon DEF Architecture!enter_trap
<1>2. csr' = [csr EXCEPT !.mepc = Architecture!WordAlign(abs_pc), !.mcause = cause,
                         !.mstatus_mpie = csr.mstatus_mie, !.mstatus_mie = FALSE]
  BY Zenon DEF Architecture!enter_trap
<1>3. csr \in Csrs
  BY StateBeforeEx
<1>4. csr'.mtvec = csr.mtvec /\ csr'.mstatus_mie = FALSE
  BY <1>2, <1>3 DEF Csrs
<1> QED BY <1>1, <1>4

\* No interrupt is taken while the entry of the last one is still to come.
LEMMA EnteredFirst ==
  ASSUME Measured, HandlersAreEntered, irq_taken, isr_armed PROVE entry_in_wb
<1>1. csr.mstatus_mie /\ ~(ex_mem.valid /\ ex_mem.pc = csr.mtvec)
  BY DEF HandlersAreEntered, irq_taken, csr_irq_pending
<1> QED BY <1>1 DEF Measured, Armed, Waiting, entry_in_mem, outstanding

\* The entry moves with the edge.
LEMMA EntryEdge ==
  ASSUME Edge
  PROVE  /\ entry_in_wb' <=> outstanding /\ ex_mem.pc = isr_mtvec'
         /\ entry_in_mem' <=> reference_retires /\ abs_pc = isr_mtvec'
<1>1. mem_wb'.pc = ex_mem.pc
  BY EdgeFacts DEF clock, mem_wb_reg
<1>2. reference_retires => ex_mem'.pc = abs_pc
  BY RetireEdge, ExMemEdge, StateBeforeEx, Zenon
<1>3. entry_in_wb' <=> trace_valid' /\ mem_wb'.pc = isr_mtvec'
  BY DEF entry_in_wb
<1>4. entry_in_mem' <=> outstanding' /\ ex_mem'.pc = isr_mtvec'
  BY DEF entry_in_mem
<1> QED BY <1>1, <1>2, <1>3, <1>4, PortEdge, RetireEdge, Zenon

\* The wait for the entry goes on as it should.
LEMMA ArmedEdge ==
  ASSUME Edge, HandlersAreEntered, Measured, measure PROVE Armed'
<1> SUFFICES ASSUME isr_armed' PROVE Armed'
  BY Zenon DEF Armed
<1>1. /\ isr_mtvec' = IF irq_taken THEN csr.mtvec ELSE isr_mtvec
      /\ ~irq_taken => isr_armed /\ ~entry_in_wb
  BY DEF measure, entry_in_wb
<1>2. CASE irq_taken
  <2>1. ~reference_retires /\ id_ex.valid /\ Architecture!Interrupt
    BY <1>2, EdgeKinds, Zenon
  <2>2. ~(ex_mem.valid /\ ex_mem.pc = csr.mtvec)
    BY <1>2, Zenon DEF HandlersAreEntered
  <2>3. ~entry_in_wb' /\ ~entry_in_mem'
    BY <1>1, <1>2, <2>1, <2>2, EntryEdge, Zenon DEF outstanding
  <2>4. Waiting'
    <3>1. Architecture!enter_trap(Architecture!CAUSE_MACHINE_EXT) /\ ~abs_halted
      BY <2>1, Zenon DEF Architecture!Interrupt
    <3>2. /\ abs_pc' = csr.mtvec /\ csr'.mtvec = csr.mtvec /\ csr'.mstatus_mie = FALSE
          /\ abs_halted' = abs_halted
      BY <2>1, <3>1, TrapEdge, Zenon
    <3> QED BY <1>1, <1>2, <3>1, <3>2, Zenon DEF Waiting
  <2> QED BY <2>3, <2>4, Zenon DEF Armed
<1>3. CASE ~irq_taken /\ entry_in_mem
  BY <1>1, <1>3, EntryEdge, Zenon DEF Armed, entry_in_mem
<1>4. CASE ~irq_taken /\ ~entry_in_mem
  <2>1. isr_mtvec' = isr_mtvec /\ Waiting /\ ~entry_in_wb'
    BY <1>1, <1>4, EntryEdge, Zenon DEF Measured, Armed, entry_in_mem
  <2>2. CASE ~reference_retires /\ ~id_ex.valid
    <3>1. UNCHANGED Architecture!archVars
      BY <2>2, EdgeKinds, Zenon
    <3>2. abs_pc' = abs_pc /\ csr' = csr /\ abs_halted' = abs_halted
      BY <3>1, Zenon DEF Architecture!archVars
    <3>3. ~entry_in_mem'
      BY <2>2, EntryEdge, Zenon
    <3> QED BY <2>1, <3>2, <3>3, Zenon DEF Armed, Waiting
  <2>3. CASE ~reference_retires /\ id_ex.valid
    <3>1. Architecture!Ecall
      BY <1>4, <2>3, EdgeKinds, Zenon
    <3>2. Architecture!enter_trap(Architecture!CAUSE_ECALL_M)
      BY <3>1, Zenon DEF Architecture!Ecall
    <3>3. /\ abs_pc' = csr.mtvec /\ csr'.mtvec = csr.mtvec /\ csr'.mstatus_mie = FALSE
          /\ abs_halted' = abs_halted
      BY <2>3, <3>2, TrapEdge, Zenon
    <3>4. ~entry_in_mem'
      BY <2>3, EntryEdge, Zenon
    <3> QED BY <2>1, <3>3, <3>4, Zenon DEF Armed, Waiting
  <2>4. CASE reference_retires
    <3>1. id_ex.valid /\ ~trap_taken
      BY <2>4, RetireEdge
    <3>2. csr'.mtvec = csr.mtvec \/ ~csr'.mstatus_mie
      BY <2>1, <3>1, MtvecEdge, Zenon DEF Waiting
    <3>3. entry_in_mem'
      BY <2>1, <2>4, EntryEdge, Zenon DEF Waiting
    <3> QED BY <2>1, <3>2, <3>3, Zenon DEF Armed, Waiting
  <2> QED BY <2>2, <2>3, <2>4
<1> QED BY <1>2, <1>3, <1>4

\* An interrupt adds its boundary to the indices, and nothing else changes them.
LEMMA PulseEdge ==
  ASSUME Edge, HandlersAreEntered, Measured, TraceIsSeq, write_trace, measure
  PROVE  pulses' = IF irq_taken THEN pulses \cup {Len(lines)} ELSE pulses
<1>1. /\ irq_after' = IF isr_armed /\ entry_in_wb THEN irq_after \cup {Len(trace)}
                      ELSE irq_after
      /\ isr_armed' <=> irq_taken \/ (isr_armed /\ ~entry_in_wb)
      /\ isr_mtvec' = IF irq_taken THEN csr.mtvec ELSE isr_mtvec
  BY DEF measure, entry_in_wb
<1>2. /\ Len(trace') = Len(shown) /\ Len(shown') = Len(lines)
      /\ ~reference_retires => Len(lines') = Len(lines)
  BY LinesEdge, Zenon
<1>3. /\ entry_in_wb' => entry_index' = Len(shown)
      /\ ~entry_in_wb' /\ entry_in_mem' => entry_index' = Len(lines)
      /\ ~entry_in_wb' /\ ~entry_in_mem' /\ ~reference_retires =>
           entry_index' = Len(lines)
  <2> DEFINE i == entry_index'
             w == entry_in_wb'
             m == entry_in_mem'
             t == Len(trace')
             u == Len(shown')
             v == Len(lines')
  <2>1. i = IF w THEN t ELSE IF m THEN u ELSE v
    BY Zenon DEF entry_index
  <2>2. t = Len(shown) /\ u = Len(lines) /\ (~reference_retires => v = Len(lines))
    BY <1>2
  <2> HIDE DEF i, w, m, t, u, v
  <2>3. /\ w => i = Len(shown)
        /\ ~w /\ m => i = Len(lines)
        /\ ~w /\ ~m /\ ~reference_retires => i = Len(lines)
    BY <2>1, <2>2
  <2> QED BY <2>3 DEF i, w, m
<1>4. pulses' = irq_after' \cup (IF isr_armed' THEN {entry_index'} ELSE {})
  BY Zenon DEF pulses
<1>5. CASE irq_taken
  <2>1. ~reference_retires /\ ~(ex_mem.valid /\ ex_mem.pc = csr.mtvec)
    BY <1>5, EdgeKinds, Zenon DEF HandlersAreEntered
  <2>2. entry_index' = Len(lines)
    <3>1. ~entry_in_wb' /\ ~entry_in_mem'
      BY <1>1, <1>5, <2>1, EntryEdge, Zenon DEF outstanding
    <3> QED BY <1>3, <2>1, <3>1, Zenon
  <2>3. isr_armed => entry_in_wb
    BY <1>5, EnteredFirst
  <2>4. pulses = IF isr_armed THEN irq_after \cup {Len(trace)} ELSE irq_after
    BY <2>3 DEF pulses, entry_index
  <2>5. irq_after' = pulses
    BY <1>1, <2>3, <2>4, Zenon
  <2> QED BY <1>1, <1>4, <1>5, <2>2, <2>5, Zenon
<1>6. CASE ~irq_taken /\ ~isr_armed
  BY <1>1, <1>4, <1>6, Zenon DEF pulses
<1>7. CASE ~irq_taken /\ isr_armed /\ entry_in_wb
  <2>1. pulses' = irq_after \cup {Len(trace)}
    BY <1>1, <1>4, <1>7
  <2>2. pulses = irq_after \cup {Len(trace)}
    BY <1>7 DEF pulses, entry_index
  <2> QED BY <1>7, <2>1, <2>2, Zenon
<1>8. CASE ~irq_taken /\ isr_armed /\ ~entry_in_wb
  <2>1. pulses' = irq_after \cup {entry_index'} /\ pulses = irq_after \cup {entry_index}
    BY <1>1, <1>4, <1>8, Zenon DEF pulses
  <2>2. entry_index' = entry_index
    <3>1. isr_mtvec' = isr_mtvec
      BY <1>1, <1>8, Zenon
    <3>2. CASE entry_in_mem
      <4>1. entry_in_wb'
        BY <3>1, <3>2, EntryEdge, Zenon DEF entry_in_mem
      <4>2. entry_index = Len(shown)
        BY <1>8, <3>2 DEF entry_index
      <4> QED BY <1>3, <4>1, <4>2, Zenon
    <3>3. CASE ~entry_in_mem
      <4>1. ~entry_in_wb' /\ abs_pc = isr_mtvec
        BY <1>8, <3>1, <3>3, EntryEdge, Zenon DEF entry_in_mem, Measured, Armed, Waiting
      <4>2. reference_retires <=> entry_in_mem'
        BY <3>1, <4>1, EntryEdge, Zenon
      <4>3. entry_index = Len(lines)
        BY <1>8, <3>3 DEF entry_index
      <4> QED BY <1>3, <4>1, <4>2, <4>3, Zenon
    <3> QED BY <3>2, <3>3
  <2> QED BY <1>8, <2>1, <2>2, Zenon
<1> QED BY <1>5, <1>6, <1>7, <1>8, Zenon

\* Every interrupt is counted once, and measured once.
LEMMA MeasureEdge ==
  ASSUME Edge, HandlersAreEntered, Measured, TraceIsSeq, write_trace, measure
  PROVE  Measured'
<1> DEFINE entered == isr_armed /\ entry_in_wb
<1>1. /\ irq_after' = IF entered THEN irq_after \cup {Len(trace)} ELSE irq_after
      /\ isr_armed' <=> irq_taken \/ (isr_armed /\ ~entered)
      /\ n_irq' = IF irq_taken THEN n_irq + 1 ELSE n_irq
  BY DEF measure, entry_in_wb
<1>2. /\ \A t \in irq_after : t \in Nat /\ t < Len(trace)
      /\ IsFiniteSet(irq_after)
      /\ n_irq = Cardinality(irq_after) + (IF isr_armed THEN 1 ELSE 0)
  BY DEF Measured
<1>3. /\ Len(trace) \in Nat
      /\ Len(trace') = IF trace_valid THEN Len(trace) + 1 ELSE Len(trace)
  BY Lengths, LinesEdge, Zenon
<1>4. entered => trace_valid
  BY DEF entry_in_wb
<1>5. irq_taken /\ isr_armed => entered
  BY EnteredFirst
<1> HIDE DEF entered
<1>6. \A t \in irq_after' : t \in Nat /\ t < Len(trace')
  BY <1>1, <1>2, <1>3, <1>4
<1>7. IsFiniteSet(irq_after')
  BY <1>1, <1>2, FS_AddElement
<1>8. Cardinality(irq_after') = Cardinality(irq_after) + (IF entered THEN 1 ELSE 0)
  <2>1. Len(trace) \notin irq_after
    BY <1>2, <1>3
  <2>2. Cardinality(irq_after) \in Nat
    BY <1>2, FS_CardinalityType
  <2>3. Cardinality(irq_after \cup {Len(trace)}) = Cardinality(irq_after) + 1
    BY <1>2, <2>1, FS_AddElement, Zenon
  <2>4. CASE entered
    BY <1>1, <2>3, <2>4, Zenon
  <2>5. CASE ~entered
    <3>1. irq_after' = irq_after
      BY <1>1, <2>5, Zenon
    <3> QED BY <2>2, <2>5, <3>1
  <2> QED BY <2>4, <2>5
<1>9. n_irq' = Cardinality(irq_after') + (IF isr_armed' THEN 1 ELSE 0)
  <2>1. Cardinality(irq_after) \in Nat
    BY <1>2, FS_CardinalityType
  <2>2. entered => isr_armed
    BY DEF entered
  <2> QED BY <1>1, <1>2, <1>5, <1>8, <2>1, <2>2
<1> QED BY <1>6, <1>7, <1>9, ArmedEdge, Zenon DEF Measured

----------------------------------------------------------------------------
(* The run of the hardware, as the steps iss.py will take.                 *)

\* A boundary between two steps: the state, how many lines were printed, and
\* whether the pulse of that number has been taken.
boundary(s, ret, took) == [s |-> s, ret |-> ret, took |-> took]

start == boundary([pc |-> 0, regs |-> [r \in Reg |-> 0], dmem |-> DMEM_INIT,
                   csr |-> ResetCsrs, halted |-> FALSE], 0, FALSE)

enabled(s)  == s.csr.mstatus_mie /\ s.csr.mie_meie
calls(im, s) == At(im, s)!fmt = "SYS" /\ At(im, s)!mnem = "ecall"
runs(im, s)  == At(im, s)!mnem # "illegal" /\ ~calls(im, s)

\* The three kinds of steps, for a schedule and a trace.
Interrupted(im, x, y, pls) ==
  /\ x.ret \in pls /\ ~x.took /\ enabled(x.s)
  /\ y = boundary(trapped(im, x.s, CAUSE_MACHINE_EXT), x.ret, TRUE)

Called(im, x, y, pls) ==
  /\ x.ret \in pls => x.took
  /\ calls(im, x.s)
  /\ y = boundary(trapped(im, x.s, CAUSE_ECALL_M), x.ret, x.took)

Retired(im, x, y, lns, pls) ==
  /\ x.ret \in pls => x.took
  /\ runs(im, x.s)
  /\ x.ret < Len(lns) /\ lns[x.ret + 1] = At(im, x.s)!trace_line
  /\ y = boundary(after(im, x.s), x.ret + 1, FALSE)

TestStep(im, x, y, lns, pls) ==
  /\ x.s.halted = FALSE
  /\ \/ Interrupted(im, x, y, pls) \/ Called(im, x, y, pls)
     \/ Retired(im, x, y, lns, pls)

\* n such steps lead from reset to the state the hardware shows.  The number
\* of lines stays for as long as interrupts stay disabled by a trap.
Story(n, H, im, cur, lns, pls, mie) ==
  /\ n \in Nat /\ H[0] = start
  /\ H[n].s = cur /\ H[n].ret = Len(lns)
  /\ \A k \in 0 .. n : H[k].ret \in Nat /\ H[k].ret <= Len(lns)
  /\ H[n].took => ~mie
  /\ \A k \in 0 .. (n - 1) : H[k].ret = Len(lns) => ~mie
  /\ Len(lns) \in pls => H[n].took
  /\ \A k \in 0 .. (n - 1) : TestStep(im, H[k], H[k + 1], lns, pls)

LEMMA Boundary ==
  ASSUME NEW s, NEW ret, NEW took
  PROVE  /\ boundary(s, ret, took).s = s /\ boundary(s, ret, took).ret = ret
         /\ boundary(s, ret, took).took = took
BY DEF boundary

\* A step is a step of a longer trace and of a schedule that agrees with the
\* old one at its boundary.
LEMMA StepKept ==
  ASSUME NEW im, NEW x, NEW y, NEW lns, NEW pls, NEW lns2, NEW pls2,
         TestStep(im, x, y, lns, pls), x.ret \in Nat,
         x.ret \in pls2 <=> x.ret \in pls,
         Len(lns) \in Nat, Len(lns2) \in Nat, Len(lns) <= Len(lns2),
         \A k \in 1 .. Len(lns) : lns2[k] = lns[k]
  PROVE  TestStep(im, x, y, lns2, pls2)
<1>1. CASE Interrupted(im, x, y, pls)
  BY <1>1, Zenon DEF TestStep, Interrupted
<1>2. CASE Called(im, x, y, pls)
  BY <1>2, Zenon DEF TestStep, Called
<1>3. CASE Retired(im, x, y, lns, pls)
  <2> DEFINE line == At(im, x.s)!trace_line
  <2>1. x.ret < Len(lns) /\ lns[x.ret + 1] = line
    BY <1>3, Zenon DEF Retired
  <2> HIDE DEF line
  <2>2. x.ret < Len(lns2) /\ lns2[x.ret + 1] = line
    BY <2>1
  <2>3. Retired(im, x, y, lns2, pls2)
    BY <1>3, <2>2, Zenon DEF Retired, line
  <2> QED BY <2>3, Zenon DEF TestStep
<1> QED BY <1>1, <1>2, <1>3, Zenon DEF TestStep

\* One more step.
LEMMA StoryGrows ==
  ASSUME NEW n, NEW H, NEW im, NEW cur, NEW lns, NEW pls, NEW mie,
         Story(n, H, im, cur, lns, pls, mie),
         NEW lns2, NEW pls2, NEW mie2, NEW y,
         Len(lns) \in Nat, Len(lns2) \in Nat, Len(lns) <= Len(lns2),
         \A k \in 1 .. Len(lns) : lns2[k] = lns[k],
         pls \subseteq pls2, pls2 \subseteq pls \cup {Len(lns)},
         mie \/ pls2 = pls,
         TestStep(im, H[n], y, lns2, pls2), y.ret = Len(lns2),
         y.took => ~mie2, Len(lns2) = Len(lns) => ~mie2,
         Len(lns2) \in pls2 => y.took
  PROVE  \E G : Story(n + 1, G, im, y.s, lns2, pls2, mie2)
<1> DEFINE G == [k \in 0 .. (n + 1) |-> IF k <= n THEN H[k] ELSE y]
<1>1. n \in Nat
  BY DEF Story
<1>2. /\ \A k \in 0 .. n : G[k] = H[k]
      /\ G[n + 1] = y
  BY <1>1
<1> HIDE DEF G
<1>3. G[0] = start
  BY <1>1, <1>2 DEF Story
<1>4. \A k \in 0 .. n : H[k].ret \in Nat /\ H[k].ret <= Len(lns)
  BY DEF Story
<1>5. ASSUME NEW k \in 0 .. (n + 1) PROVE G[k].ret \in Nat /\ G[k].ret <= Len(lns2)
  <2>1. CASE k = n + 1
    BY <1>2, <2>1
  <2>2. CASE k # n + 1
    <3>1. k \in 0 .. n
      BY <1>1, <2>2
    <3>2. G[k].ret = H[k].ret /\ H[k].ret \in Nat /\ H[k].ret <= Len(lns)
      BY <1>2, <1>4, <3>1, Zenon
    <3> QED BY <3>2
  <2> QED BY <2>1, <2>2
<1>6. \A k \in 0 .. n : G[k].ret = Len(lns2) => ~mie2
  <2> SUFFICES ASSUME NEW k \in 0 .. n, G[k].ret = Len(lns2) PROVE ~mie2
    OBVIOUS
  <2>1. Len(lns2) <= Len(lns)
    BY <1>2, <1>4
  <2>2. Len(lns2) = Len(lns)
    BY <2>1
  <2> QED BY <2>2
<1>7. ASSUME NEW k \in 0 .. (n - 1) PROVE TestStep(im, H[k], H[k + 1], lns2, pls2)
  <2>1. TestStep(im, H[k], H[k + 1], lns, pls) /\ (H[k].ret = Len(lns) => ~mie)
    BY DEF Story
  <2>2. H[k].ret \in Nat
    BY <1>1, <1>4
  <2>3. H[k].ret \in pls2 <=> H[k].ret \in pls
    BY <2>1
  <2> QED BY <2>1, <2>2, <2>3, StepKept
<1>8. ASSUME NEW k \in 0 .. n PROVE TestStep(im, G[k], G[k + 1], lns2, pls2)
  <2>1. CASE k = n
    BY <1>1, <1>2, <2>1
  <2>2. CASE k # n
    <3>1. k \in 0 .. (n - 1) /\ k + 1 \in 0 .. n
      BY <1>1, <2>2
    <3>2. G[k] = H[k] /\ G[k + 1] = H[k + 1]
      BY <1>2, <3>1
    <3> QED BY <1>7, <3>1, <3>2
  <2> QED BY <2>1, <2>2
<1>9. n + 1 \in Nat /\ (n + 1) - 1 = n
  BY <1>1
<1>10. Story(n + 1, G, im, y.s, lns2, pls2, mie2)
  BY <1>2, <1>3, <1>5, <1>6, <1>8, <1>9, Zenon DEF Story
<1> QED BY <1>10

\* The hardware's own run.
Told(n, H) ==
  Story(n, H, imem, abs_machine, lines, pulses, csr.mstatus_mie)

\* Every edge tells one step of it or none.
LEMMA ToldEdge ==
  ASSUME Edge, HandlersAreEntered, TraceIsSeq, Measured, write_trace, measure,
         NEW n, NEW H, Told(n, H)
  PROVE  \E m, G : m \in Nat /\ m <= n + 1 /\ Told(m, G)'
<1> DEFINE told(m, G) ==
             Story(m, G, imem, abs_machine', lines', pulses', csr'.mstatus_mie)
<1>1. \A m, G : told(m, G) => Told(m, G)'
  <2>1. imem' = imem
    BY EdgeFacts, Zenon DEF clock, imem_read
  <2> QED BY <2>1, Zenon DEF Told
<1>2. /\ n \in Nat /\ H[n].s = abs_machine /\ H[n].ret = Len(lines)
      /\ H[n].took => ~csr.mstatus_mie
      /\ Len(lines) \in pulses => H[n].took
  BY Zenon DEF Told, Story
<1>3. Story(n, H, imem, abs_machine, lines, pulses, csr.mstatus_mie)
  BY Zenon DEF Told
<1>4. lines' = IF reference_retires THEN Append(lines, Architecture!trace_line) ELSE lines
  BY LinesEdge, Zenon
<1>5. PICK S : lines \in Seq(S)
  BY Lengths, Zenon
<1>6. /\ Len(lines) \in Nat /\ Len(lines') \in Nat
      /\ Len(lines') = IF reference_retires THEN Len(lines) + 1 ELSE Len(lines)
      /\ \A k \in 1 .. Len(lines) : lines'[k] = lines[k]
      /\ reference_retires => lines'[Len(lines) + 1] = Architecture!trace_line
  <2> DEFINE line == Architecture!trace_line
             more == reference_retires
             t == IF more THEN Append(lines, line) ELSE lines
  <2>1. /\ Len(lines) \in Nat /\ Len(t) \in Nat
        /\ Len(t) = IF more THEN Len(lines) + 1 ELSE Len(lines)
        /\ \A k \in 1 .. Len(lines) : t[k] = lines[k]
        /\ more => t[Len(lines) + 1] = line
    <3> HIDE DEF line, more
    <3> QED BY <1>5, OneMore
  <2>2. lines' = t
    BY <1>4
  <2> HIDE DEF t
  <2> QED BY <2>1, <2>2, Zenon
<1>7. Len(lines) <= Len(lines')
  BY <1>6
<1>8. pulses' = IF irq_taken THEN pulses \cup {Len(lines)} ELSE pulses
  BY PulseEdge, Zenon
<1>9. /\ pulses \subseteq pulses' /\ pulses' \subseteq pulses \cup {Len(lines)}
      /\ ~irq_taken => pulses' = pulses
  <2> DEFINE p == pulses'
             l == Len(lines)
  <2>1. p = IF irq_taken THEN pulses \cup {l} ELSE pulses
    BY <1>8
  <2> HIDE DEF p, l
  <2>2. pulses \subseteq p /\ p \subseteq pulses \cup {l} /\ (~irq_taken => p = pulses)
    BY <2>1
  <2> QED BY <2>2 DEF p, l
<1>10. H[n].s.halted = abs_halted /\ enabled(H[n].s) = (csr.mstatus_mie /\ csr.mie_meie)
  BY <1>2, MachineFields, Zenon DEF enabled
<1>11. ASSUME NEW y, id_ex.valid, TestStep(imem, H[n], y, lines', pulses'),
              y.s = abs_machine', y.ret = Len(lines'),
              irq_taken => csr.mstatus_mie,
              y.took => ~csr'.mstatus_mie,
              Len(lines') = Len(lines) => ~csr'.mstatus_mie,
              Len(lines') \in pulses' => y.took
       PROVE  \E m, G : m \in Nat /\ m <= n + 1 /\ Told(m, G)'
  <2> DEFINE lns == lines'
             pls == pulses'
             mie == csr'.mstatus_mie
             cur == abs_machine'
  <2>1. /\ Len(lns) \in Nat /\ Len(lines) <= Len(lns)
        /\ \A k \in 1 .. Len(lines) : lns[k] = lines[k]
        /\ pulses \subseteq pls /\ pls \subseteq pulses \cup {Len(lines)}
        /\ csr.mstatus_mie \/ pls = pulses
    BY <1>6, <1>7, <1>9, <1>11, Zenon
  <2>2. /\ TestStep(imem, H[n], y, lns, pls) /\ y.s = cur /\ y.ret = Len(lns)
        /\ y.took => ~mie
        /\ Len(lns) = Len(lines) => ~mie
        /\ Len(lns) \in pls => y.took
    BY <1>11, Zenon
  <2> HIDE DEF lns, pls, mie, cur
  <2>3. \E G : Story(n + 1, G, imem, y.s, lns, pls, mie)
    BY <1>3, <1>6, <2>1, <2>2, StoryGrows
  <2>4. PICK G : Story(n + 1, G, imem, cur, lns, pls, mie)
    BY <2>2, <2>3, Zenon
  <2>5. told(n + 1, G)
    BY <2>4, Zenon DEF lns, pls, mie, cur
  <2>6. n + 1 \in Nat /\ n + 1 <= n + 1
    BY <1>2
  <2> HIDE DEF told
  <2> QED BY <1>1, <2>5, <2>6, Zenon
<1>12. CASE ~id_ex.valid
  <2>1. ~irq_taken /\ ~reference_retires /\ UNCHANGED Architecture!archVars
    BY <1>12, EdgeKinds, Zenon
  <2>2. abs_machine' = abs_machine /\ csr' = csr
    BY <2>1, Zenon DEF Architecture!archVars, abs_machine
  <2>3. lines' = lines /\ pulses' = pulses
    BY <1>4, <1>9, <2>1, Zenon
  <2>4. told(n, H)
    BY <1>3, <2>2, <2>3, Zenon
  <2>5. n \in Nat /\ n <= n + 1
    BY <1>2
  <2> HIDE DEF told
  <2> QED BY <1>1, <2>4, <2>5, Zenon
<1>13. CASE irq_taken
  <2>1. id_ex.valid /\ ~reference_retires /\ Architecture!Interrupt
    BY <1>13, EdgeKinds, Zenon
  <2>2. /\ abs_halted = FALSE /\ csr.mstatus_mie /\ csr.mie_meie
        /\ Architecture!enter_trap(CAUSE_MACHINE_EXT)
    BY <2>1, StateBeforeEx, Zenon DEF Architecture!Interrupt, CAUSE_MACHINE_EXT,
                       Architecture!CAUSE_MACHINE_EXT
  <2> DEFINE y == boundary(trapped(imem, H[n].s, CAUSE_MACHINE_EXT), H[n].ret, TRUE)
  <2>3. abs_machine' = trapped(imem, H[n].s, CAUSE_MACHINE_EXT) /\ ~csr'.mstatus_mie
    BY <1>2, <2>1, <2>2, AbsTraps, TrapEdge, Zenon
  <2>4. y.s = abs_machine' /\ y.ret = Len(lines) /\ y.took
    <3>1. /\ y.s = trapped(imem, H[n].s, CAUSE_MACHINE_EXT) /\ y.ret = H[n].ret
          /\ y.took = TRUE
      BY Zenon DEF boundary
    <3> HIDE DEF y
    <3> QED BY <1>2, <2>3, <3>1, Zenon
  <2>5. Len(lines') = Len(lines) /\ Len(lines) \in pulses'
    <3>1. Len(lines) \in pulses \cup {Len(lines)}
      OBVIOUS
    <3> QED BY <1>4, <1>8, <1>13, <2>1, <3>1, Zenon
  <2>6. Interrupted(imem, H[n], y, pulses')
    BY <1>2, <1>10, <2>2, <2>5, Zenon DEF Interrupted
  <2>7. TestStep(imem, H[n], y, lines', pulses')
    BY <1>10, <2>2, <2>6, Zenon DEF TestStep
  <2> HIDE DEF y
  <2> QED BY <1>11, <2>1, <2>2, <2>3, <2>4, <2>5, <2>7, Zenon
<1>14. CASE id_ex.valid /\ ~irq_taken /\ ~reference_retires
  <2>1. Architecture!Ecall
    BY <1>14, EdgeKinds, Zenon
  <2>2. abs_halted = FALSE /\ Architecture!enter_trap(CAUSE_ECALL_M)
    BY <1>14, <2>1, StateBeforeEx, Zenon DEF Architecture!Ecall, CAUSE_ECALL_M,
                       Architecture!CAUSE_ECALL_M
  <2>3. calls(imem, H[n].s)
    <3>1. Architecture!fmt = "SYS" /\ Architecture!mnem = "ecall"
      BY <2>1 DEF Architecture!Ecall, Architecture!next_is
    <3> QED BY <1>2, <3>1, AbsOperands, Zenon DEF calls
  <2> DEFINE y == boundary(trapped(imem, H[n].s, CAUSE_ECALL_M), H[n].ret, H[n].took)
  <2>4. abs_machine' = trapped(imem, H[n].s, CAUSE_ECALL_M) /\ ~csr'.mstatus_mie
    BY <1>2, <1>14, <2>2, AbsTraps, TrapEdge, Zenon
  <2>5. y.s = abs_machine' /\ y.ret = Len(lines) /\ y.took = H[n].took
    <3>1. /\ y.s = trapped(imem, H[n].s, CAUSE_ECALL_M) /\ y.ret = H[n].ret
          /\ y.took = H[n].took
      BY Zenon DEF boundary
    <3> HIDE DEF y
    <3> QED BY <1>2, <2>4, <3>1, Zenon
  <2>6. Len(lines') = Len(lines) /\ pulses' = pulses
    BY <1>4, <1>9, <1>14, Zenon
  <2>7. Called(imem, H[n], y, pulses')
    BY <1>2, <2>3, <2>6, Zenon DEF Called
  <2>8. TestStep(imem, H[n], y, lines', pulses')
    BY <1>10, <2>2, <2>7, Zenon DEF TestStep
  <2> HIDE DEF y
  <2> QED BY <1>2, <1>11, <1>14, <2>4, <2>5, <2>6, <2>8, Zenon
<1>15. CASE id_ex.valid /\ ~irq_taken /\ reference_retires
  <2>1. \/ Architecture!Compute \/ Architecture!Store \/ Architecture!Branch
        \/ Architecture!Jump \/ Architecture!CsrAccess \/ Architecture!Mret
        \/ Architecture!Ebreak
    BY <1>15, EdgeKinds, Zenon
  <2>2. /\ abs_machine' = after(imem, abs_machine) /\ Architecture!mnem # "illegal"
        /\ ~(Architecture!fmt = "SYS" /\ Architecture!mnem = "ecall")
    BY <2>1, AbsRetires, Zenon
  <2>3. runs(imem, H[n].s)
    BY <1>2, <2>2, AbsOperands, Zenon DEF runs, calls
  <2> DEFINE y == boundary(after(imem, H[n].s), H[n].ret + 1, FALSE)
  <2>4. Len(lines') = Len(lines) + 1 /\ pulses' = pulses
    BY <1>6, <1>9, <1>15, Zenon
  <2>5. y.s = abs_machine' /\ y.ret = Len(lines') /\ ~y.took
    <3>1. y.s = after(imem, H[n].s) /\ y.ret = H[n].ret + 1 /\ y.took = FALSE
      BY Zenon DEF boundary
    <3> HIDE DEF y
    <3> QED BY <1>2, <2>2, <2>4, <3>1, Zenon
  <2>6. Len(lines) < Len(lines') /\ Len(lines') # Len(lines) /\ ~(Len(lines') <= Len(lines))
    BY <1>6, <2>4
  <2>7. Len(lines') \notin pulses'
    BY <2>4, <2>6, PulsesBounded, Zenon
  <2>8. H[n].ret < Len(lines') /\ lines'[H[n].ret + 1] = At(imem, H[n].s)!trace_line
    BY <1>2, <1>6, <1>15, <2>6, AbsResults, Zenon
  <2>9. Retired(imem, H[n], y, lines', pulses')
    BY <1>2, <2>3, <2>4, <2>8, Zenon DEF Retired
  <2>10. TestStep(imem, H[n], y, lines', pulses')
    BY <1>10, <1>15, <2>9, StateBeforeEx, Zenon DEF TestStep
  <2> HIDE DEF y
  <2> QED BY <1>11, <1>15, <2>5, <2>6, <2>7, <2>10, Zenon
<1> QED BY <1>12, <1>13, <1>14, <1>15, Zenon

----------------------------------------------------------------------------
(* The test.                                                               *)

\* Where iss.py is in that story, with the pulses that lie ahead of it.
ahead(x, pls) == {t \in pls : t > x.ret \/ (t = x.ret /\ ~x.took)}

\* The verdict on a run whose traces agree.
judged == IF regs = exp_regs THEN "PASS" ELSE "FAIL"

Replaying(n, H) ==
  /\ phase = "rtl" => /\ iss_machine = start.s /\ retired = 0 /\ steps = 0
                      /\ differs = FALSE
  /\ phase # "rtl" /\ done_r =>
       /\ steps \in 0 .. n /\ iss_machine = H[steps].s /\ retired = H[steps].ret
       /\ irq_pending = ahead(H[steps], irq_after) /\ differs = FALSE
  /\ phase = "verdict" /\ done_r => verdict = judged /\ steps = n

\* No more steps than cycles.
Bounded == cyc \in Nat /\ cyc <= MAX_CYCLES

TestInv ==
  /\ RefInv /\ TraceIsSeq /\ Measured /\ Bounded
  /\ \E n, H : n <= cyc /\ Told(n, H) /\ Replaying(n, H)

\* The test begins.
LEMMA TestInit == Init_tb => TestInv
<1> SUFFICES ASSUME Init_tb PROVE TestInv
  OBVIOUS
<1>1. Init /\ RefInv
  BY RefInductive DEF Init_tb
<1>2. trace = <<>> /\ TraceIsSeq /\ Len(trace) = 0
  <2>1. <<>> \in Seq({}) /\ Len(<<>>) = 0
    OBVIOUS
  <2> QED BY <2>1, Zenon DEF Init_tb, TraceIsSeq
<1>3. ~trace_valid /\ ~outstanding
  BY <1>1 DEF Init, EX_MEM_ZERO, MEM_WB_ZERO, trace_valid, wb_retire, outstanding
<1>4. lines = <<>> /\ Len(lines) = 0
  BY <1>2, <1>3, Zenon DEF lines, shown
<1>5. pulses = {}
  BY Zenon DEF Init_tb, pulses
<1>6. Measured
  <2>1. isr_armed = FALSE /\ irq_after = {} /\ n_irq = 0
    BY DEF Init_tb
  <2>2. IsFiniteSet({}) /\ Cardinality({}) = 0
    BY FS_EmptySet
  <2> QED BY <2>1, <2>2 DEF Measured, Armed
<1>7. Bounded /\ cyc = 0
  BY BudgetAssumption DEF Init_tb, Bounded
<1>8. abs_machine = start.s
  <2>1. /\ abs_pc = 0 /\ abs_regs = [r \in Reg |-> 0] /\ abs_dmem = DMEM_INIT
        /\ abs_halted = FALSE
    <3>1. Architecture!Init /\ Architecture!Reg = Reg
      BY <1>1, RefInit, Zenon DEF Reg, Architecture!Reg
    <3> QED BY <3>1, Zenon DEF Architecture!Init
  <2>2. csr = ResetCsrs
    BY <1>1 DEF Init
  <2> QED BY <2>1, <2>2, Zenon DEF abs_machine, start, boundary
<1> DEFINE H == [k \in {0} |-> start]
<1>9. H[0] = start
  OBVIOUS
<1>10. start.ret = 0 /\ start.took = FALSE
  BY DEF start, boundary
<1> HIDE DEF H
<1>11. Told(0, H)
  <2>1. H[0].s = abs_machine /\ H[0].ret = Len(lines) /\ ~H[0].took
    BY <1>4, <1>8, <1>9, <1>10, Zenon
  <2>2. \A k \in 0 .. 0 : H[k].ret \in Nat /\ H[k].ret <= Len(lines)
    BY <1>4, <1>9, <1>10
  <2>3. 0 .. (0 - 1) = {} /\ 0 \in Nat
    OBVIOUS
  <2>4. Len(lines) \notin pulses
    BY <1>5
  <2> QED BY <1>9, <2>1, <2>2, <2>3, <2>4, Zenon DEF Told, Story
<1>12. Replaying(0, H)
  <2>1. phase = "rtl" /\ retired = 0 /\ steps = 0 /\ differs = FALSE
    BY DEF Init_tb
  <2>2. iss_machine = start.s
    BY Zenon DEF Init_tb, iss_machine, start, boundary
  <2>3. phase # "verdict"
    BY <2>1
  <2> QED BY <2>1, <2>2, <2>3, Zenon DEF Replaying
<1>13. 0 <= cyc
  BY <1>7
<1> QED BY <1>1, <1>2, <1>6, <1>7, <1>11, <1>12, <1>13, Zenon DEF TestInv

\* The simulation takes a cycle.
LEMMA TestCycle ==
  ASSUME TestInv, HandlersAreEntered, rtl_cycle PROVE TestInv'
<1>1. /\ phase = "rtl" /\ ~done_r /\ cyc < MAX_CYCLES /\ clock(FALSE) /\ irq_drive
      /\ write_trace /\ measure /\ cyc' = cyc + 1
      /\ UNCHANGED <<issVars, exp_regs, phase, verdict>>
  BY DEF rtl_cycle
<1>2. irq \in BOOLEAN /\ RefInv /\ TraceIsSeq /\ Measured /\ Bounded
  BY DEF TestInv, RefInv, OperandInv, TypeOK
<1>3. drive_irq
  <2>1. irq' \in BOOLEAN
    BY <1>1 DEF irq_drive
  <2> QED BY <2>1, LevelsAssumption DEF drive_irq
<1>4. Next /\ Edge
  BY <1>1, <1>2, <1>3 DEF Next, Edge
<1>5. RefInv' /\ TraceIsSeq' /\ Measured'
  BY <1>1, <1>2, <1>4, RefInductive, LinesEdge, MeasureEdge
<1>6. Bounded' /\ cyc \in Nat
  BY <1>1, <1>2, BudgetAssumption DEF Bounded
<1>7. PICK n, H : n <= cyc /\ Told(n, H) /\ Replaying(n, H)
  BY DEF TestInv
<1>8. PICK m, G : m \in Nat /\ m <= n + 1 /\ Told(m, G)'
  BY <1>1, <1>2, <1>4, <1>7, ToldEdge, Zenon
<1>9. m <= cyc'
  <2>1. n \in Nat
    BY <1>7 DEF Told, Story
  <2> QED BY <1>1, <1>6, <1>7, <1>8, <2>1
<1>10. Replaying(m, G)'
  <2>1. /\ phase' = "rtl" /\ retired' = retired /\ steps' = steps /\ differs' = differs
        /\ iss_machine' = iss_machine
    BY <1>1 DEF issVars, iss_machine
  <2>2. phase' # "verdict"
    BY <2>1
  <2>3. iss_machine = start.s /\ retired = 0 /\ steps = 0 /\ differs = FALSE
    BY <1>1, <1>7, Zenon DEF Replaying
  <2> QED BY <2>1, <2>2, <2>3, Zenon DEF Replaying
<1> QED BY <1>5, <1>6, <1>8, <1>9, <1>10, Zenon DEF TestInv

\* After the simulation nothing of it changes.
LEMMA TestSteady ==
  ASSUME UNCHANGED rtlVars
  PROVE  /\ done_r' = done_r /\ irq_after' = irq_after /\ isr_armed' = isr_armed
         /\ lines' = lines /\ trace' = trace /\ regs' = regs /\ dmem' = dmem
         /\ n_irq' = n_irq
         /\ TestInv => RefInv' /\ TraceIsSeq' /\ Measured' /\ Bounded'
         /\ \A n, H : Told(n, H) => Told(n, H)'
<1>1. /\ UNCHANGED vars /\ cyc' = cyc /\ trace' = trace /\ isr_armed' = isr_armed
      /\ isr_mtvec' = isr_mtvec /\ n_irq' = n_irq /\ irq_after' = irq_after
  BY Zenon DEF rtlVars
<1>2. /\ imem' = imem /\ done_r' = done_r /\ csr' = csr
      /\ ex_mem' = ex_mem /\ mem_wb' = mem_wb /\ regs' = regs /\ dmem' = dmem
  BY <1>1 DEF vars
<1>3. /\ trace_valid' = trace_valid /\ trace_port' = trace_port
      /\ outstanding' = outstanding /\ mem_line' = mem_line
  BY <1>1, SteadyPort
<1>4. UNCHANGED Architecture!archVars
  BY <1>1, StutterEdge
<1>5. abs_machine' = abs_machine /\ abs_pc' = abs_pc /\ abs_halted' = abs_halted
  BY <1>2, <1>4, Zenon DEF Architecture!archVars, abs_machine
<1>6. shown' = shown /\ lines' = lines
  BY <1>1, <1>3, Zenon DEF shown, lines
<1>7. entry_in_wb' = entry_in_wb /\ entry_in_mem' = entry_in_mem
  BY <1>1, <1>2, <1>3, Zenon DEF entry_in_wb, entry_in_mem
<1>8. entry_index' = entry_index /\ pulses' = pulses
  BY <1>1, <1>6, <1>7, Zenon DEF entry_index, pulses
<1>9. TestInv => RefInv' /\ TraceIsSeq' /\ Measured' /\ Bounded'
  <2> SUFFICES ASSUME TestInv PROVE RefInv' /\ TraceIsSeq' /\ Measured' /\ Bounded'
    OBVIOUS
  <2>1. RefInv /\ TraceIsSeq /\ Measured /\ Bounded
    BY Zenon DEF TestInv
  <2>2. RefInv' /\ TraceIsSeq' /\ Bounded'
    BY <1>1, <2>1, RefInductive, Zenon DEF TraceIsSeq, Bounded
  <2>3. Armed'
    BY <1>1, <1>2, <1>5, <1>7, <2>1, Zenon DEF Measured, Armed, Waiting
  <2> QED BY <1>1, <2>1, <2>2, <2>3, Zenon DEF Measured
<1>10. \A n, H : Told(n, H) => Told(n, H)'
  BY <1>2, <1>5, <1>6, <1>8, Zenon DEF Told
<1> QED BY <1>1, <1>2, <1>6, <1>9, <1>10, Zenon

\* At `done' every line is in the file and every interrupt is measured.
LEMMA AtDone ==
  ASSUME TestInv, done_r
  PROVE  /\ lines = trace /\ pulses = irq_after /\ ~isr_armed
         /\ abs_halted = TRUE /\ abs_regs = regs /\ abs_dmem = dmem
<1>1. EbreakShadow /\ Accesses /\ TypeOK /\ Measured
  BY DEF TestInv, RefInv, OperandInv
<1>2. /\ ~mem_wb.valid /\ ~ex_mem.valid /\ ~ex_mem.mem_we
  BY <1>1 DEF EbreakShadow, Accesses
<1>3. ~trace_valid /\ ~outstanding
  BY <1>2 DEF trace_valid, wb_retire, outstanding
<1>4. lines = trace
  BY <1>3, Zenon DEF lines, shown
<1>5. abs_halted = TRUE
  BY DEF abs_halted
<1>6. ~isr_armed
  <2>1. ~entry_in_wb /\ ~entry_in_mem /\ ~Waiting
    BY <1>3, <1>5, Zenon DEF entry_in_wb, entry_in_mem, Waiting
  <2> QED BY <1>1, <2>1, Zenon DEF Measured, Armed
<1>7. pulses = irq_after
  BY <1>6 DEF pulses
<1>8. abs_dmem = dmem
  BY <1>2, Zenon DEF abs_dmem
<1>9. abs_regs = regs
  <2>1. halt /\ ~wb_reg_we
    BY <1>2 DEF halt, wb_reg_we
  <2>2. abs_regs = [r \in Reg |-> regs[r]]
    BY <2>1, Zenon DEF abs_regs
  <2>3. regs \in [Reg -> Word]
    BY <1>1 DEF TypeOK
  <2> QED BY <2>2, <2>3
<1> QED BY <1>4, <1>5, <1>6, <1>7, <1>8, <1>9

\* What each kind of step leads to.
LEMMA StepShape ==
  ASSUME NEW im, NEW x, NEW y, NEW lns, NEW pls
  PROVE  /\ Interrupted(im, x, y, pls) =>
              /\ y.s = trapped(im, x.s, CAUSE_MACHINE_EXT) /\ y.ret = x.ret
              /\ y.took = TRUE
         /\ Called(im, x, y, pls) =>
              /\ y.s = trapped(im, x.s, CAUSE_ECALL_M) /\ y.ret = x.ret
              /\ y.took = x.took
         /\ Retired(im, x, y, lns, pls) =>
              /\ y.s = after(im, x.s) /\ y.ret = x.ret + 1 /\ y.took = FALSE
<1>1. ASSUME NEW s, NEW ret, NEW took, y = boundary(s, ret, took)
      PROVE  y.s = s /\ y.ret = ret /\ y.took = took
  <2>1. /\ boundary(s, ret, took).s = s /\ boundary(s, ret, took).ret = ret
        /\ boundary(s, ret, took).took = took
    BY Boundary
  <2> QED BY <1>1, <2>1, Zenon
<1> QED BY <1>1, Zenon DEF Interrupted, Called, Retired

\* A step consumes the pulse of its boundary.
LEMMA AheadStep ==
  ASSUME NEW im, NEW x, NEW y, NEW lns, NEW pls, TestStep(im, x, y, lns, pls),
         x.ret \in Nat, \A t \in pls : t \in Nat
  PROVE  /\ ahead(y, pls) = ahead(x, pls) \ {x.ret}
         /\ x.ret \in ahead(x, pls) <=> x.ret \in pls /\ ~x.took
<1>1. x.ret \in ahead(x, pls) <=> x.ret \in pls /\ ~x.took
  BY DEF ahead
<1>2. ASSUME y.ret = x.ret, x.ret \in pls => y.took
      PROVE  ahead(y, pls) = ahead(x, pls) \ {x.ret}
  <2> SUFFICES ASSUME NEW t \in pls
               PROVE  t \in ahead(y, pls) <=> t \in ahead(x, pls) \ {x.ret}
    BY DEF ahead
  <2> QED BY <1>2 DEF ahead
<1>3. ASSUME y.ret = x.ret + 1, ~y.took
      PROVE  ahead(y, pls) = ahead(x, pls) \ {x.ret}
  <2> SUFFICES ASSUME NEW t \in pls
               PROVE  t \in ahead(y, pls) <=> t \in ahead(x, pls) \ {x.ret}
    BY DEF ahead
  <2> QED BY <1>3 DEF ahead
<1>4. CASE Interrupted(im, x, y, pls)
  <2>1. y.ret = x.ret /\ y.took
    BY <1>4, StepShape, Zenon
  <2> QED BY <1>1, <1>2, <2>1
<1>5. CASE Called(im, x, y, pls)
  <2>1. y.ret = x.ret /\ y.took = x.took /\ (x.ret \in pls => x.took)
    BY <1>5, StepShape, Zenon DEF Called
  <2> QED BY <1>1, <1>2, <2>1
<1>6. CASE Retired(im, x, y, lns, pls)
  <2>1. y.ret = x.ret + 1 /\ y.took = FALSE
    BY <1>6, StepShape, Zenon
  <2> QED BY <1>1, <1>3, <2>1
<1> QED BY <1>4, <1>5, <1>6, Zenon DEF TestStep

\* The reference stands at a boundary of the story.  If it has not halted, the
\* next step of the story lies ahead.
LEMMA ReplayAt ==
  ASSUME TestInv, phase # "rtl", done_r, NEW n, NEW H, Told(n, H), Replaying(n, H)
  PROVE  /\ n \in Nat /\ steps \in 0 .. n /\ iss_machine = H[steps].s
         /\ retired = H[steps].ret /\ retired \in Nat
         /\ irq_pending = ahead(H[steps], irq_after)
         /\ iss_halted <=> steps = n
         /\ steps = n => /\ retired = Len(trace) /\ iss_machine = abs_machine
                         /\ ~pulse
         /\ steps # n =>
              /\ TestStep(imem, H[steps], H[steps + 1], trace, irq_after)
              /\ irq_pending \ {retired} = ahead(H[steps + 1], irq_after)
              /\ pulse <=> retired \in irq_after /\ ~H[steps].took
              /\ steps + 1 \in 0 .. n
<1>1. /\ lines = trace /\ pulses = irq_after /\ abs_halted = TRUE
  BY AtDone
<1>2. Story(n, H, imem, abs_machine, trace, irq_after, csr.mstatus_mie)
  BY <1>1, Zenon DEF Told
<1>3. /\ n \in Nat /\ H[n].s = abs_machine /\ H[n].ret = Len(trace)
      /\ \A k \in 0 .. n : H[k].ret \in Nat /\ H[k].ret <= Len(trace)
      /\ Len(trace) \in irq_after => H[n].took
      /\ \A k \in 0 .. (n - 1) : TestStep(imem, H[k], H[k + 1], trace, irq_after)
  BY <1>2, Zenon DEF Story
<1>4. /\ steps \in 0 .. n /\ iss_machine = H[steps].s /\ retired = H[steps].ret
      /\ irq_pending = ahead(H[steps], irq_after)
  BY Zenon DEF Replaying
<1>5. retired \in Nat
  BY <1>3, <1>4
<1>6. \A t \in irq_after : t \in Nat
  BY DEF TestInv, Measured
<1>7. CASE steps = n
  <2>1. iss_machine = abs_machine /\ retired = Len(trace)
    BY <1>3, <1>4, <1>7
  <2>2. iss_halted
    BY <1>1, <2>1, MachineFields, Zenon
  <2>3. ~pulse
    <3>1. retired \in irq_after => H[steps].took
      BY <1>3, <1>7, <2>1
    <3>2. retired \in ahead(H[steps], irq_after) => retired \in irq_after /\ ~H[steps].took
      BY <1>4, <1>5 DEF ahead
    <3> QED BY <1>4, <3>1, <3>2, Zenon DEF pulse
  <2> QED BY <1>3, <1>4, <1>5, <1>7, <2>1, <2>2, <2>3
<1>8. CASE steps # n
  <2>1. steps \in 0 .. (n - 1) /\ steps + 1 \in 0 .. n
    BY <1>3, <1>4, <1>8
  <2>2. TestStep(imem, H[steps], H[steps + 1], trace, irq_after)
    BY <1>3, <2>1
  <2>3. ~iss_halted
    <3>1. H[steps].s.halted = FALSE
      BY <2>2, Zenon DEF TestStep
    <3> QED BY <1>4, <3>1, MachineFields, Zenon
  <2>4. H[steps].ret \in Nat
    BY <1>4, <1>5
  <2>5. /\ ahead(H[steps + 1], irq_after) = ahead(H[steps], irq_after) \ {H[steps].ret}
        /\ H[steps].ret \in ahead(H[steps], irq_after)
             <=> H[steps].ret \in irq_after /\ ~H[steps].took
    <3> DEFINE x == H[steps]
               y == H[steps + 1]
    <3>1. TestStep(imem, x, y, trace, irq_after) /\ x.ret \in Nat
      BY <2>2, <2>4
    <3> HIDE DEF x, y
    <3>2. /\ ahead(y, irq_after) = ahead(x, irq_after) \ {x.ret}
          /\ x.ret \in ahead(x, irq_after) <=> x.ret \in irq_after /\ ~x.took
      BY <1>6, <3>1, AheadStep
    <3> QED BY <3>2 DEF x, y
  <2>6. pulse <=> retired \in irq_after /\ ~H[steps].took
    BY <1>4, <2>5, Zenon DEF pulse
  <2>7. irq_pending \ {retired} = ahead(H[steps + 1], irq_after)
    BY <1>4, <2>5, Zenon
  <2> QED BY <1>3, <1>4, <1>5, <1>8, <2>1, <2>2, <2>3, <2>6, <2>7, Zenon
<1> QED BY <1>7, <1>8

\* The simulation ends.
LEMMA TestEnd == ASSUME TestInv, rtl_end PROVE TestInv'
<1>1. /\ phase = "rtl" /\ phase' = "iss" /\ irq_pending' = irq_after
      /\ UNCHANGED rtlVars /\ iss_machine' = iss_machine
      /\ retired' = retired /\ steps' = steps /\ differs' = differs
  BY DEF rtl_end, iss_machine
<1>2. /\ done_r' = done_r /\ irq_after' = irq_after /\ cyc' = cyc
      /\ RefInv' /\ TraceIsSeq' /\ Measured' /\ Bounded'
  BY <1>1, TestSteady DEF rtlVars
<1>3. PICK n, H : n <= cyc /\ Told(n, H) /\ Replaying(n, H)
  BY DEF TestInv
<1>4. Told(n, H)'
  BY <1>1, <1>3, TestSteady
<1>5. n \in Nat /\ H[0] = start /\ start.ret = 0 /\ start.took = FALSE
  BY <1>3, Zenon DEF Told, Story, start, boundary
<1>6. irq_after = ahead(H[0], irq_after)
  <2>1. \A t \in irq_after : t \in Nat
    BY DEF TestInv, Measured
  <2> QED BY <1>5, <2>1 DEF ahead
<1>7. iss_machine = start.s /\ retired = 0 /\ steps = 0 /\ differs = FALSE
  BY <1>1, <1>3, Zenon DEF Replaying
<1>8. Replaying(n, H)'
  <2>1. steps' \in 0 .. n /\ steps' = 0
    BY <1>1, <1>5, <1>7
  <2>2. phase' # "rtl" /\ phase' # "verdict"
    BY <1>1
  <2>3. /\ iss_machine' = H[steps'].s /\ retired' = H[steps'].ret
        /\ irq_pending' = ahead(H[steps'], irq_after') /\ differs' = FALSE
    BY <1>1, <1>2, <1>5, <1>6, <1>7, <2>1, Zenon
  <2> QED BY <2>1, <2>2, <2>3, Zenon DEF Replaying
<1> QED BY <1>2, <1>3, <1>4, <1>8, Zenon DEF TestInv

\* The reference takes the step of the story.
LEMMA ReplayStep ==
  ASSUME TestInv, phase = "iss", done_r, NEW n, NEW H, Told(n, H), Replaying(n, H),
         iss_interrupt \/ iss_execute
  PROVE  /\ steps' = steps + 1 /\ steps + 1 \in 0 .. n
         /\ iss_machine' = H[steps + 1].s /\ retired' = H[steps + 1].ret
         /\ irq_pending' = ahead(H[steps + 1], irq_after) /\ differs' = FALSE
<1>1. /\ ~iss_halted /\ steps' = steps + 1 /\ irq_pending' = irq_pending \ {retired}
  BY DEF iss_interrupt, iss_execute, iss_running, count_step
<1>2. phase # "rtl" /\ differs = FALSE
  BY Zenon DEF Replaying
<1>3. /\ iss_machine = H[steps].s /\ retired = H[steps].ret
      /\ TestStep(imem, H[steps], H[steps + 1], trace, irq_after)
      /\ irq_pending \ {retired} = ahead(H[steps + 1], irq_after)
      /\ pulse <=> retired \in irq_after /\ ~H[steps].took
      /\ steps + 1 \in 0 .. n
  BY <1>1, <1>2, ReplayAt, Zenon
<1> DEFINE x == H[steps]
           y == H[steps + 1]
<1>4. enabled(x.s) <=> iss_csr.mstatus_mie /\ iss_csr.mie_meie
  BY <1>3, MachineFields, Zenon DEF enabled
<1>5. /\ calls(imem, x.s) <=> Iss!fmt = "SYS" /\ Iss!mnem = "ecall"
      /\ At(imem, x.s)!trace_line = Iss!trace_line
  BY <1>3, IssOperands, IssResults, Zenon DEF calls
<1>6. CASE iss_interrupt
  <2>1. /\ iss_trap /\ Iss!enter_trap(CAUSE_MACHINE_EXT)
        /\ retired' = retired /\ differs' = differs
    BY <1>6, Zenon DEF iss_interrupt, Iss!Interrupt, CAUSE_MACHINE_EXT,
                       Iss!CAUSE_MACHINE_EXT
  <2>2. pulse
    BY <2>1, Zenon DEF iss_trap
  <2>3. Interrupted(imem, x, y, irq_after)
    BY <1>3, <2>2, Zenon DEF TestStep, Called, Retired
  <2>4. y.s = trapped(imem, x.s, CAUSE_MACHINE_EXT) /\ y.ret = x.ret
    BY <2>3, StepShape, Zenon
  <2>5. iss_machine' = trapped(imem, iss_machine, CAUSE_MACHINE_EXT)
    BY <2>1, IssTraps, Zenon
  <2> QED BY <1>1, <1>2, <1>3, <2>1, <2>4, <2>5, Zenon
<1>7. CASE iss_execute
  <2>1. ~iss_trap
    BY <1>7, Zenon DEF iss_execute
  <2>2. ~Interrupted(imem, x, y, irq_after)
    BY <1>3, <1>4, <2>1, Zenon DEF iss_trap, Interrupted
  <2>3. CASE Iss!Ecall /\ UNCHANGED <<retired, differs>>
    <3>1. Iss!enter_trap(CAUSE_ECALL_M)
      BY <2>3, Zenon DEF Iss!Ecall, CAUSE_ECALL_M, Iss!CAUSE_ECALL_M
    <3>2. Iss!fmt = "SYS" /\ Iss!mnem = "ecall"
      BY <2>3 DEF Iss!Ecall, Iss!next_is
    <3>3. Called(imem, x, y, irq_after)
      BY <1>3, <1>5, <2>2, <3>2, Zenon DEF TestStep, Retired, runs
    <3>4. y.s = trapped(imem, x.s, CAUSE_ECALL_M) /\ y.ret = x.ret
      BY <3>3, StepShape, Zenon
    <3>5. iss_machine' = trapped(imem, iss_machine, CAUSE_ECALL_M)
      BY <3>1, IssTraps, Zenon
    <3>6. retired' = retired /\ differs' = differs
      BY <2>3
    <3> QED BY <1>1, <1>2, <1>3, <3>4, <3>5, <3>6, Zenon
  <2>4. CASE /\ \/ Iss!Compute \/ Iss!Store \/ Iss!Branch \/ Iss!Jump
                \/ Iss!CsrAccess \/ Iss!Mret \/ Iss!Ebreak
             /\ compare_line
             /\ retired' = retired + 1
    <3>1. iss_machine' = after(imem, iss_machine) /\ ~calls(imem, x.s)
      BY <1>5, <2>4, IssRetires, Zenon
    <3>2. Retired(imem, x, y, trace, irq_after)
      BY <1>3, <2>2, <3>1, Zenon DEF TestStep, Called
    <3>3. /\ y.s = after(imem, x.s) /\ y.ret = x.ret + 1
          /\ x.ret < Len(trace) /\ trace[x.ret + 1] = At(imem, x.s)!trace_line
      <4>1. x.ret < Len(trace) /\ trace[x.ret + 1] = At(imem, x.s)!trace_line
        BY <3>2, Zenon DEF Retired
      <4>2. y.s = after(imem, x.s) /\ y.ret = x.ret + 1
        BY <3>2, StepShape, Zenon
      <4> QED BY <4>1, <4>2
    <3>4. retired < Len(trace) /\ trace[retired + 1] = Iss!trace_line
      BY <1>3, <1>5, <3>3, Zenon
    <3>5. ~(retired >= Len(trace))
      <4>1. retired \in Nat /\ Len(trace) \in Nat
        BY <1>2, ReplayAt, Lengths DEF TestInv
      <4> QED BY <3>4, <4>1
    <3>6. differs' = FALSE
      <4>1. differs' = (differs \/ retired >= Len(trace)
                             \/ trace[retired + 1] # Iss!trace_line)
        BY <2>4, Zenon DEF compare_line
      <4> QED BY <1>2, <3>4, <3>5, <4>1, Zenon
    <3> QED BY <1>1, <1>3, <2>4, <3>1, <3>3, <3>6, Zenon
  <2> QED BY <1>7, <2>3, <2>4, Zenon DEF iss_execute
<1> QED BY <1>6, <1>7

LEMMA TestReplay == ASSUME TestInv, iss_interrupt \/ iss_execute PROVE TestInv'
<1>1. /\ phase = "iss" /\ phase' = phase /\ UNCHANGED rtlVars
  BY DEF iss_interrupt, iss_execute, iss_running, rtlVars
<1>2. /\ done_r' = done_r /\ irq_after' = irq_after /\ cyc' = cyc
      /\ RefInv' /\ TraceIsSeq' /\ Measured' /\ Bounded'
  BY <1>1, TestSteady DEF rtlVars
<1>3. PICK n, H : n <= cyc /\ Told(n, H) /\ Replaying(n, H)
  BY DEF TestInv
<1>4. Told(n, H)'
  BY <1>1, <1>3, TestSteady
<1>5. Replaying(n, H)'
  <2>1. phase' # "rtl" /\ phase' # "verdict"
    BY <1>1
  <2>2. CASE ~done_r
    BY <1>2, <2>1, <2>2, Zenon DEF Replaying
  <2>3. CASE done_r
    <3>1. /\ steps' = steps + 1 /\ steps + 1 \in 0 .. n
          /\ iss_machine' = H[steps + 1].s /\ retired' = H[steps + 1].ret
          /\ irq_pending' = ahead(H[steps + 1], irq_after) /\ differs' = FALSE
      BY <1>1, <1>3, <2>3, ReplayStep
    <3> QED BY <1>2, <2>1, <3>1, Zenon DEF Replaying
  <2> QED BY <2>2, <2>3
<1> QED BY <1>2, <1>3, <1>4, <1>5, Zenon DEF TestInv

\* The verdict: the story has been told to its end.
LEMMA TestVerdict == ASSUME TestInv, iss_exit PROVE TestInv'
<1>1. /\ phase = "iss" /\ phase' = "verdict" /\ UNCHANGED rtlVars
      /\ iss_machine' = iss_machine /\ retired' = retired /\ steps' = steps
      /\ irq_pending' = irq_pending /\ differs' = differs
      /\ exp_regs' = exp_regs
      /\ verdict' = IF /\ passed
                       /\ exit_code = 0
                       /\ ~differs /\ retired = Len(trace)
                    THEN "PASS" ELSE "FAIL"
  BY DEF iss_exit, issVars, iss_machine
<1>2. /\ done_r' = done_r /\ irq_after' = irq_after /\ cyc' = cyc
      /\ RefInv' /\ TraceIsSeq' /\ Measured' /\ Bounded'
  BY <1>1, TestSteady DEF rtlVars
<1>3. PICK n, H : n <= cyc /\ Told(n, H) /\ Replaying(n, H)
  BY DEF TestInv
<1>4. Told(n, H)'
  BY <1>1, <1>3, TestSteady
<1>5. phase # "rtl" /\ phase' # "rtl"
  BY <1>1
<1>6. ASSUME done_r PROVE steps = n /\ verdict' = judged'
  <2>1. /\ n \in Nat /\ steps \in 0 .. n /\ (iss_halted <=> steps = n)
        /\ steps = n => retired = Len(trace)
        /\ iss_machine = H[steps].s
        /\ steps # n =>
             /\ TestStep(imem, H[steps], H[steps + 1], trace, irq_after)
             /\ pulse <=> retired \in irq_after /\ ~H[steps].took
    BY <1>3, <1>5, <1>6, ReplayAt
  <2>2. steps >= MAX_INSNS => steps = n
    BY <1>3, <2>1, BudgetAssumption, LimitAssumption DEF TestInv, Bounded
  <2>3. Iss!mnem = "illegal" /\ ~iss_trap => steps = n
    <3> SUFFICES ASSUME Iss!mnem = "illegal", ~iss_trap, steps # n PROVE FALSE
      OBVIOUS
    <3> DEFINE x == H[steps]
               y == H[steps + 1]
    <3>1. At(imem, x.s)!mnem = "illegal"
      BY <2>1, IssOperands, Zenon
    <3>2. ~calls(imem, x.s) /\ ~runs(imem, x.s)
      <4>1. "illegal" # "ecall"
        OBVIOUS
      <4> QED BY <3>1, <4>1, Zenon DEF calls, runs
    <3>3. Interrupted(imem, x, y, irq_after)
      BY <2>1, <3>2, Zenon DEF TestStep, Called, Retired
    <3>4. iss_csr.mstatus_mie /\ iss_csr.mie_meie
      BY <2>1, <3>3, MachineFields, Zenon DEF Interrupted, enabled
    <3>5. pulse
      <4>1. retired = x.ret
        BY <1>3, <1>5, <1>6, ReplayAt, Zenon
      <4> QED BY <2>1, <3>3, <4>1, Zenon DEF Interrupted
    <3> QED BY <3>4, <3>5, Zenon DEF iss_trap
  <2>4. steps = n
    BY <2>1, <2>2, <2>3, Zenon DEF iss_exit
  <2>5. exit_code = 0
    BY <2>1, <2>4 DEF exit_code
  <2>6. ~differs
    BY <1>3, <1>5, <1>6, Zenon DEF Replaying
  <2>7. judged' = judged
    BY <1>1, TestSteady DEF judged
  <2>8. retired = Len(trace) /\ (passed <=> regs = exp_regs)
    BY <1>6, <2>1, <2>4, Zenon DEF passed, timed_out, reg_diffs
  <2> QED BY <1>1, <2>4, <2>5, <2>6, <2>7, <2>8, Zenon DEF judged
<1>7. Replaying(n, H)'
  <2>1. CASE ~done_r
    BY <1>2, <1>5, <2>1, Zenon DEF Replaying
  <2>2. CASE done_r
    <3>1. /\ steps \in 0 .. n /\ iss_machine = H[steps].s /\ retired = H[steps].ret
          /\ irq_pending = ahead(H[steps], irq_after) /\ differs = FALSE
      BY <1>3, <1>5, <2>2, Zenon DEF Replaying
    <3> QED BY <1>1, <1>2, <1>5, <1>6, <2>2, <3>1, Zenon DEF Replaying
  <2> QED BY <2>1, <2>2
<1> QED BY <1>2, <1>3, <1>4, <1>7, Zenon DEF TestInv

LEMMA TestStepInductive ==
  TestInv /\ HandlersAreEntered /\ [Next_tb]_tbVars => TestInv'
<1> SUFFICES ASSUME TestInv, HandlersAreEntered, [Next_tb]_tbVars PROVE TestInv'
  OBVIOUS
<1>1. CASE rtl_cycle
  BY <1>1, TestCycle
<1>2. CASE rtl_end
  BY <1>2, TestEnd
<1>3. CASE iss_interrupt \/ iss_execute
  BY <1>3, TestReplay
<1>4. CASE iss_exit
  BY <1>4, TestVerdict
<1>5. CASE UNCHANGED tbVars
  <2>1. /\ UNCHANGED rtlVars /\ iss_machine' = iss_machine /\ retired' = retired
        /\ steps' = steps /\ irq_pending' = irq_pending /\ differs' = differs
        /\ phase' = phase /\ verdict' = verdict /\ cyc' = cyc /\ exp_regs' = exp_regs
    BY <1>5 DEF tbVars, rtlVars, issVars, iss_machine
  <2>2. /\ done_r' = done_r /\ irq_after' = irq_after
        /\ RefInv' /\ TraceIsSeq' /\ Measured' /\ Bounded'
    BY <2>1, TestSteady
  <2>3. PICK n, H : n <= cyc /\ Told(n, H) /\ Replaying(n, H)
    BY DEF TestInv
  <2>4. Told(n, H)'
    BY <2>1, <2>3, TestSteady
  <2>5. Replaying(n, H)'
    <3>1. judged' = judged
      BY <2>1, TestSteady DEF judged
    <3> QED BY <2>1, <2>2, <2>3, <3>1, Zenon DEF Replaying
  <2> QED BY <2>1, <2>2, <2>3, <2>4, <2>5, Zenon DEF TestInv
<1> QED BY <1>1, <1>2, <1>3, <1>4, <1>5 DEF Next_tb

\* A test whose handlers are entered on their own, and that executes no word
\* that is not an instruction, agrees with its reference whenever its program
\* reaches its ebreak, and passes exactly when the registers it ends with are
\* the committed ones: with any number of interrupts at any cycles, for every
\* program, memory and budget, and with or without the forwarding and the
\* predictor.
THEOREM AlignedTests ==
  Spec_tb /\ []HandlersAreEntered => []AlignedTracesAgree
<1>1. TestInv => AlignedTracesAgree
  <2> SUFFICES ASSUME TestInv, phase = "verdict", done_r
               PROVE  /\ iss_regs = regs /\ iss_dmem = dmem
                      /\ verdict = IF iss_regs = exp_regs THEN "PASS" ELSE "FAIL"
    BY DEF AlignedTracesAgree, timed_out
  <2>1. PICK n, H : n <= cyc /\ Told(n, H) /\ Replaying(n, H)
    BY DEF TestInv
  <2>2. verdict = judged /\ steps = n
    BY <2>1, Zenon DEF Replaying
  <2>3. phase # "rtl"
    OBVIOUS
  <2>4. iss_machine = abs_machine
    BY <2>1, <2>2, <2>3, ReplayAt
  <2>5. abs_regs = regs /\ abs_dmem = dmem
    BY AtDone
  <2>6. iss_regs = regs /\ iss_dmem = dmem
    BY <2>4, <2>5, MachineFields, Zenon
  <2> QED BY <2>2, <2>6, Zenon DEF judged
<1> QED BY <1>1, TestInit, TestStepInductive, PTL DEF Spec_tb

\* Every interrupt is measured, and the reference takes it at the boundary
\* that was measured.
THEOREM InterruptsReported ==
  Spec_tb /\ []HandlersAreEntered => []EveryInterruptReported
<1>1. TestInv => EveryInterruptReported
  <2> SUFFICES ASSUME TestInv PROVE EveryInterruptReported
    OBVIOUS
  <2>1. n_irq = Cardinality(irq_after) + (IF isr_armed THEN 1 ELSE 0)
    BY DEF TestInv, Measured
  <2>2. ASSUME phase = "iss", pulse, done_r PROVE iss_trap
    <3>1. PICK n, H : n <= cyc /\ Told(n, H) /\ Replaying(n, H)
      BY DEF TestInv
    <3>2. phase # "rtl"
      BY <2>2
    <3>3. /\ steps # n /\ iss_machine = H[steps].s
          /\ TestStep(imem, H[steps], H[steps + 1], trace, irq_after)
          /\ retired \in irq_after /\ ~H[steps].took /\ retired = H[steps].ret
      BY <2>2, <3>1, <3>2, ReplayAt
    <3> DEFINE x == H[steps]
               y == H[steps + 1]
    <3>4. Interrupted(imem, x, y, irq_after)
      BY <3>3, Zenon DEF TestStep, Called, Retired
    <3>5. iss_csr.mstatus_mie /\ iss_csr.mie_meie
      BY <3>3, <3>4, MachineFields, Zenon DEF Interrupted, enabled
    <3> QED BY <2>2, <3>5, Zenon DEF iss_trap
  <2> QED BY <2>1, <2>2, Zenon DEF EveryInterruptReported, timed_out
<1> QED BY <1>1, TestInit, TestStepInductive, PTL DEF Spec_tb
=============================================================================
