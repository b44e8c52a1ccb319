----------------------------- MODULE Testbench ------------------------------
(***************************************************************************)
(* A test with interrupts, as tools/run_tests.py --irq-at runs it.         *)
(*                                                                         *)
(* tb_program.v runs the hardware, raises `irq' at given cycles and holds  *)
(* it until it is taken, writes the commit trace and measures, for every   *)
(* interrupt, the number of lines written before the handler's first       *)
(* instruction retires; at the end it compares the registers with the      *)
(* committed .regs file, which iss.py printed once for a schedule of its   *)
(* own.  run_tests.py then runs iss.py on the same program with the        *)
(* measured numbers as --irq-after and compares the two traces.            *)
(*                                                                         *)
(* The comparison is made here as the reference prints its lines.          *)
(***************************************************************************)
EXTENDS TracePort, Sequences, FiniteSets

CONSTANTS
  MAX_IRQS,    \* the +IRQ_ATn plusargs (3 in the source)
  MAX_CYCLES,  \* +MAXCYC
  MAX_INSNS,   \* iss.py's --max-insns
  REGS_FILES   \* the registers a committed .regs file may hold

ASSUME BudgetAssumption == {MAX_IRQS, MAX_CYCLES, MAX_INSNS} \subseteq Nat

\* Both are 200000 unless --maxcyc says otherwise: the reference may take as
\* many steps as the hardware has cycles.
ASSUME LimitAssumption == MAX_CYCLES <= MAX_INSNS

\* A test without a .regs file is not run.
ASSUME RegsAssumption == REGS_FILES \subseteq [Reg -> Word] /\ REGS_FILES # {}

\* The testbench drives the line to both levels.
ASSUME LevelsAssumption == IRQ_LEVELS = BOOLEAN

VARIABLES
  phase,       \* "rtl": the simulation; "iss": the reference; "verdict"
  cyc,         \* cycles simulated
  requests,    \* how many of the scheduled cycles have come
  trace,       \* rtl.trace
  isr_armed, isr_mtvec,
  n_irq,
  irq_after,   \* the retire_index of every IRQ_TAKEN line printed
  masked,      \* history: irq once rose while interrupts were disabled
  iss_pc, iss_regs, iss_dmem, iss_csr, iss_halted,
  retired, steps, irq_pending,
  differs,     \* the two traces differ
  exp_regs,    \* the .regs file
  verdict

rtlVars == <<vars, cyc, requests, trace, isr_armed, isr_mtvec, n_irq,
             irq_after, masked>>
issVars == <<iss_pc, iss_regs, iss_dmem, iss_csr, iss_halted, retired, steps,
             irq_pending, differs>>
tbVars  == <<rtlVars, issVars, exp_regs, phase, verdict>>

Iss == INSTANCE Arch WITH
  pc <- iss_pc, regs <- iss_regs, dmem <- iss_dmem, csr <- iss_csr,
  halted <- iss_halted

Init_tb ==
  /\ Init /\ irq = FALSE
  /\ exp_regs \in REGS_FILES
  /\ phase = "rtl" /\ verdict = "none"
  /\ cyc = 0 /\ requests = 0 /\ trace = <<>>
  /\ isr_armed = FALSE /\ isr_mtvec = 0 /\ n_irq = 0 /\ irq_after = {}
  /\ masked = FALSE
  /\ iss_pc = 0 /\ iss_regs = [r \in Reg |-> 0] /\ iss_dmem = DMEM_INIT
  /\ iss_csr = ResetCsrs /\ iss_halted = FALSE
  /\ retired = 0 /\ steps = 0 /\ irq_pending = {} /\ differs = FALSE

----------------------------------------------------------------------------
(* tb_program.v: one clock cycle of the simulation.                        *)

\* The level drops when it is taken, even in a cycle that would raise it.
\* `scheduled': this cycle is one of IRQ_AT1..3.
irq_drive ==
  \E scheduled \in {b \in BOOLEAN : b => requests < MAX_IRQS} :
    /\ irq' = (~irq_taken /\ (scheduled \/ irq))
    /\ requests' = IF scheduled THEN requests + 1 ELSE requests

write_trace == trace' = IF trace_valid THEN Append(trace, trace_port) ELSE trace

\* mutant: the index is measured when the trap fires
measure_at_trap ==
  /\ irq_after' = IF irq_taken THEN irq_after \cup {Len(trace)} ELSE irq_after
  /\ isr_armed' = irq_taken
  /\ isr_mtvec' = IF irq_taken THEN csr.mtvec ELSE isr_mtvec
  /\ n_irq' = IF irq_taken THEN n_irq + 1 ELSE n_irq

\* mutant: a trap that fires as an entry is reported is forgotten
measure_disarms ==
  LET isr_entered == trace_valid /\ isr_armed /\ mem_wb.pc = isr_mtvec
  IN  /\ irq_after' = IF isr_entered THEN irq_after \cup {Len(trace)}
                      ELSE irq_after
      /\ isr_armed' = ((irq_taken \/ isr_armed) /\ ~trace_valid)
      /\ isr_mtvec' = IF irq_taken THEN csr.mtvec ELSE isr_mtvec
      /\ n_irq' = IF irq_taken THEN n_irq + 1 ELSE n_irq

\* A trap arms the measurement; the first line at mtvec after it is the
\* handler's entry.  A trap in the cycle of that line arms it again.
measure ==
  LET isr_entered == trace_valid /\ isr_armed /\ mem_wb.pc = isr_mtvec
  IN  /\ irq_after' = IF isr_entered THEN irq_after \cup {Len(trace)}
                      ELSE irq_after
      /\ isr_armed' = (irq_taken \/ (isr_armed /\ ~isr_entered))
      /\ isr_mtvec' = IF irq_taken THEN csr.mtvec ELSE isr_mtvec
      /\ n_irq' = IF irq_taken THEN n_irq + 1 ELSE n_irq

rtl_cycle ==
  /\ phase = "rtl" /\ ~done_r /\ cyc < MAX_CYCLES
  /\ clock(FALSE)
  /\ irq_drive
  /\ write_trace
  /\ measure
  /\ cyc' = cyc + 1
  /\ masked' = (masked \/ (irq' /\ ~irq /\ ~(csr'.mstatus_mie /\ csr'.mie_meie)))
  /\ UNCHANGED <<issVars, exp_regs, phase, verdict>>

timed_out == ~done_r
reg_diffs == regs # exp_regs

\* The simulation passes (with +NOTRACE it compares no traces).
passed == ~timed_out /\ ~reg_diffs

\* The simulation ends; the reference starts with the measured schedule.
rtl_end ==
  /\ phase = "rtl" /\ (done_r \/ cyc >= MAX_CYCLES)
  /\ phase' = "iss"
  /\ irq_pending' = irq_after
  /\ UNCHANGED <<rtlVars, iss_pc, iss_regs, iss_dmem, iss_csr, iss_halted,
                 retired, steps, differs, exp_regs, verdict>>

----------------------------------------------------------------------------
(* iss.py: one step, and the line it prints compared with rtl.trace.       *)

\* Every step consumes the pulse of its boundary, taken or dropped.
pulse    == retired \in irq_pending
iss_trap == pulse /\ iss_csr.mstatus_mie /\ iss_csr.mie_meie

iss_running == phase = "iss" /\ ~iss_halted /\ steps < MAX_INSNS

\* mutant: only a step that retires counts against the limit
count_retired ==
  /\ steps' = IF iss_trap \/ Iss!mnem = "ecall" THEN steps ELSE steps + 1
  /\ irq_pending' = irq_pending \ {retired}

count_step == steps' = steps + 1 /\ irq_pending' = irq_pending \ {retired}

iss_interrupt ==
  /\ iss_running /\ iss_trap
  /\ count_step
  /\ Iss!Interrupt
  /\ UNCHANGED <<vars, cyc, requests, trace, isr_armed, isr_mtvec, n_irq,
                 irq_after, masked, retired, differs, exp_regs, phase, verdict>>

compare_line ==
  differs' = (differs \/ retired >= Len(trace)
                      \/ trace[retired + 1] # Iss!trace_line)

iss_execute ==
  /\ iss_running /\ ~iss_trap
  /\ count_step
  /\ \/ /\ Iss!Ecall
        /\ UNCHANGED <<retired, differs>>
     \/ /\ \/ Iss!Compute \/ Iss!Store \/ Iss!Branch \/ Iss!Jump
           \/ Iss!CsrAccess \/ Iss!Mret \/ Iss!Ebreak
        /\ compare_line
        /\ retired' = retired + 1
  /\ UNCHANGED <<vars, cyc, requests, trace, isr_armed, isr_mtvec, n_irq,
                 irq_after, masked, exp_regs, phase, verdict>>

\* 0 after an ebreak, 2 at the limit, 3 at a word that decodes to nothing.
exit_code == IF iss_halted THEN 0 ELSE IF steps >= MAX_INSNS THEN 2 ELSE 3

\* run_one: PASS if the simulation passed, iss.py exited 0 and no line
\* differs, those of the longer trace included.
iss_exit ==
  /\ phase = "iss"
  /\ \/ iss_halted
     \/ steps >= MAX_INSNS
     \/ Iss!mnem = "illegal" /\ ~iss_trap
  /\ phase' = "verdict"
  /\ verdict' = IF /\ passed
                   /\ exit_code = 0
                   /\ ~differs /\ retired = Len(trace)
                THEN "PASS" ELSE "FAIL"
  /\ UNCHANGED <<rtlVars, issVars, exp_regs>>

Next_tb == rtl_cycle \/ rtl_end \/ iss_interrupt \/ iss_execute \/ iss_exit

Spec_tb == Init_tb /\ [][Next_tb]_tbVars

\* Both simulators keep running.
FairSpec_tb == Spec_tb /\ WF_tbVars(Next_tb)

----------------------------------------------------------------------------
(* Properties.                                                             *)

\* Where handlers are entered on their own (HandlersAreEntered below), a run
\* that reaches its ebreak agrees with the reference, with any interrupts at
\* any cycles, those that fall into the handler included: what MEM and WB
\* happen to hold when the level arrives is exactly what the measured index
\* makes up for.  The reference ends with the registers and the memory of the
\* hardware, no line of the traces differs, and all that is left to decide the
\* verdict is whether those registers are the committed ones, of a run with
\* other interrupts; "timing-independent by construction" (run_tests.py 40)
\* they are in the demo, and not for a handler that counts its visits in one.
AlignedTracesAgree ==
  phase = "verdict" /\ ~timed_out =>
    /\ iss_regs = regs /\ iss_dmem = dmem
    /\ verdict = IF iss_regs = exp_regs THEN "PASS" ELSE "FAIL"

\* Every interrupt is reported, before the next one is taken, and the
\* reference never drops a pulse (n_irq counts the traps).
EveryInterruptReported ==
  /\ n_irq = Cardinality(irq_after) + (IF isr_armed THEN 1 ELSE 0)
  /\ phase = "iss" /\ pulse /\ ~timed_out => iss_trap

\* What the measurement takes for granted: the handler is entered on its own.
\* An interrupt never finds the instruction at mtvec one slot ahead of the one
\* it squashes (it would retire first and be taken for the entry): a handler
\* does not enable interrupts with its first instruction, and nothing else
\* runs through that address with interrupts enabled.  And every word executed
\* is an instruction; at another one iss.py ends with exit code 3.
HandlersAreEntered ==
  /\ irq_taken => ~(ex_mem.valid /\ ex_mem.pc = csr.mtvec)
  /\ id_ex.valid /\ ~irq_taken => Architecture!mnem # "illegal"

\* Every test ends in a verdict: a program that never halts is stopped by
\* the cycle budget and by the instruction limit, which counts the steps
\* that retire nothing (a handler that traps into itself retires nothing).
RunEnds == <>(phase = "verdict")

\* "The two models agree whenever an interrupt arrives with interrupts
\* already enabled" (tb_program.v 115-117).
EnabledArrivalsAgree == ~masked => AlignedTracesAgree
=============================================================================
