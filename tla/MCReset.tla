------------------------------- MODULE MCReset -------------------------------
(***************************************************************************)
(* Resets in the programs of Programs.tla: short programs over memory and  *)
(* registers, and one over traps.                                          *)
(***************************************************************************)
EXTENDS Reset, Programs

ResetPool ==
  { enc_i(4, 1, 2, 1, OP_LOAD),          \* lw    x1, 4(x1)
    enc_s(4, 1, 0, 2),                   \* sw    x1, 4(x0)
    enc_i(64, 1, 0, 1, OP_IARITH),       \* addi  x1, x1, 64
    enc_b(-4, 0, 1, 1),                  \* bne   x1, x0, -4
    enc_j(-4, 2, 1, 1),                  \* jal   x2, -4
    ECALL,
    EBREAK }

ResetPrograms ==
  TrapProgramsOf(TrapPool, 1, ReturningHandlers \cup {NestingHandler})
    \cup ProgramsOver(<<>>, {ResetPool}, 3, <<EBREAK>>, 16)
=============================================================================
