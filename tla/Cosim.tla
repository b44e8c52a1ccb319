------------------------------- MODULE Cosim --------------------------------
(***************************************************************************)
(* The commit trace.  run_tests.py compares, line by line, what cpu_top's  *)
(* trace port shows (TracePort.tla) with what tools/iss.py prints for the  *)
(* same program.                                                           *)
(*                                                                         *)
(* Here both run side by side: `expected' holds the lines the reference    *)
(* model has printed for the instructions that have left EX, oldest first, *)
(* and the pipeline takes one off whenever its port is valid.              *)
(***************************************************************************)
EXTENDS TracePort, Sequences

VARIABLE expected

cosimVars == <<vars, expected>>

----------------------------------------------------------------------------
\* The reference executes the instruction of this cycle's EX and retires it:
\* an interrupt, an ecall and a word that decodes to nothing print no line.
reference_retires ==
  /\ id_ex.valid /\ ~irq_taken
  /\ Architecture!mnem \notin {"illegal", "ecall"}

Init_cosim == Init /\ expected = <<>>

compare_lines ==
  LET left == IF trace_valid THEN Tail(expected) ELSE expected
  IN  expected' = IF reference_retires
                  THEN Append(left, Architecture!trace_line) ELSE left

Next_cosim == Next /\ compare_lines

Spec_cosim == Init_cosim /\ [][Next_cosim]_cosimVars

----------------------------------------------------------------------------
(* Properties.                                                             *)

\* Every line of the trace port is the line the reference printed, in the
\* same order, none missing, none twice, and at `done' none is outstanding:
\* the verdict of run_tests.py's comparison, for every program, interrupt
\* and memory content of the instance.
TraceMatchesReference ==
  /\ trace_valid => expected # <<>> /\ Head(expected) = trace_port
  /\ done_r => expected = <<>>

\* Does the slot hold an instruction whose line is still to be shown?
awaits(slot) == IF slot.valid /\ ~slot.illegal THEN 1 ELSE 0

\* The comparison never runs ahead or behind: what the reference has printed
\* and the port has not shown is exactly what MEM and WB hold.
InFlightIsExpected ==
  ~done_r => Len(expected) = awaits(ex_mem) + awaits(mem_wb)
=============================================================================
