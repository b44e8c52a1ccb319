------------------------------ MODULE TracePort ------------------------------
(***************************************************************************)
(* cpu_top's commit-trace port (rtl/cpu_top.v 663-674): what it shows of   *)
(* the instruction in WB, as the line tb_program.v writes to its file.  A  *)
(* field the line does not have is zero here.                              *)
(***************************************************************************)
EXTENDS Refinement

trace_valid   == wb_retire
trace_rd_we   == wb_retire /\ mem_wb.reg_we /\ mem_wb.inst.rd # 0
trace_mem_we  == wb_retire /\ mem_wb.mem_we
trace_mem_val == mem_wb.mem_val

trace_port ==
  [pc |-> mem_wb.pc, insn |-> mem_wb.inst,
   rd |-> IF trace_rd_we THEN mem_wb.inst.rd ELSE 0,
   rd_val |-> IF trace_rd_we THEN wb_data ELSE 0,
   mem_we |-> trace_mem_we,
   mem_addr |-> IF trace_mem_we THEN mem_wb.res ELSE 0,
   mem_val |-> IF trace_mem_we THEN trace_mem_val ELSE 0]
=============================================================================
