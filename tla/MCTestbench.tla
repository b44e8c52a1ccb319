---------------------------- MODULE MCTestbench -----------------------------
(***************************************************************************)
(* Programs for the tests with interrupts: two words of a small pool       *)
(* between the prologue of Programs.tla and an ebreak.                     *)
(***************************************************************************)
EXTENDS Testbench, Programs

TestPool ==
  { enc_i(0, 0, 2, 3, OP_LOAD),          \* lw    x3, 0(x0)
    enc_s(4, 1, 0, 2),                   \* sw    x1, 4(x0)
    enc_csr(CSR_MSTATUS, 2, 3, 0),       \* csrrc x0, mstatus, x2
    ECALL }

TestProgramsOver(handlers) ==
  UNION {ProgramsOver(TrapPrologue, {TestPool}, 2, <<EBREAK, EBREAK>> \o h, 16) :
           h \in handlers}

\* The handlers count their visits in x1; an ecall in the handler traps into
\* itself for ever.
TestHandlers ==
  { << enc_i(1, 1, 0, 1, OP_IARITH), MRET >>,
    << ECALL >> }

TestPrograms == TestProgramsOver(TestHandlers)

\* A handler that enables interrupts with its first instruction.
NestingPrograms ==
  TestProgramsOver({ << enc_csr(CSR_MSTATUS, 2, 2, 0),
                        enc_i(1, 1, 0, 1, OP_IARITH),
                        EBREAK >> })

\* Registers committed from a run without an interrupt, or with one.
MCRegsFiles == {0 :> 0 @@ 1 :> 36 + visits @@ 2 :> 255 @@ 3 :> 0 : visits \in {0, 1}}
=============================================================================
