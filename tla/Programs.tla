------------------------------ MODULE Programs ------------------------------
(***************************************************************************)
(* What TLC loads into the instruction memory: every program of a given    *)
(* length over a pool of instructions chosen so that neighbours collide:   *)
(* same registers, same memory words, raw fields that look like sources    *)
(* and are not.  Words are eight bits wide, there are four registers and   *)
(* two data words.                                                         *)
(***************************************************************************)
EXTENDS Encode, TLC

LOCAL INSTANCE Bitwise

MCBitAnd(x, y) == x & y
MCBitOr(x, y)  == x | y
MCBitXor(x, y) == x ^^ y

MCDmemInit == 0 :> 83 @@ 1 :> 166

\* `head', then every sequence of `n' words of one of the pools, then `tail'.
ProgramsOver(head, pools, n, tail, words) ==
  {loaded(head \o p \o tail, words) :
     p \in {q \in [1 .. n -> UNION pools] :
              \E pool \in pools : \A k \in 1 .. n : q[k] \in pool}}

DataPool ==
  { enc_r(32, 2, 1, 0, 2),               \* sub   x2, x1, x2
    enc_i(-3, 0, 0, 1, OP_IARITH),       \* addi  x1, x0, -3
    enc_i(4, 0, 2, 1, OP_LOAD),          \* lw    x1, 4(x0)
    enc_i(1, 1, 0, 2, OP_LOAD),          \* lb    x2, 1(x1)
    enc_i(0, 1, 2, 0, OP_LOAD),          \* lw    x0, 0(x1)
    enc_s(4, 1, 0, 2),                   \* sw    x1, 4(x0)
    enc_s(1, 2, 1, 0),                   \* sb    x2, 1(x1)
    enc_u(160, 2, 1, 1, OP_LUI),         \* lui   x2, with raw rs1 = rs2 = x1
    enc_i(1, 1, 0, 0, OP_IARITH),        \* addi  x0, x1, 1
    word(OP_R, 0, 1, 1, 1, 2, 0, 0) }    \* an illegal word that names x1, x2

\* Branches and jumps in both directions around a counter of period four,
\* with loads to make branches wait; every program may loop for ever.
ControlPool ==
  { enc_i(64, 1, 0, 1, OP_IARITH),       \* addi  x1, x1, 64
    enc_b(-4, 0, 1, 1),                  \* bne   x1, x0, -4
    enc_b(8, 0, 0, 0),                   \* beq   x0, x0, +8
    enc_b(-8, 1, 2, 4),                  \* blt   x2, x1, -8
    enc_i(4, 1, 2, 2, OP_LOAD),          \* lw    x2, 4(x1)
    enc_j(8, 1, 0, 0),                   \* jal   x1, +8
    enc_j(-4, 2, 1, 1),                  \* jal   x2, -4
    enc_i(5, 2, 0, 1, OP_JALR),          \* jalr  x1, 5(x2)
    EBREAK }

\* Set mtvec to the handler at 36, enable interrupts, then three words of
\* the pool and an ebreak; the handler follows.
TrapPrologue ==
  << enc_i(36, 0, 0, 1, OP_IARITH),      \* addi  x1, x0, 36
     enc_csr(CSR_MTVEC, 1, 1, 0),        \* csrrw x0, mtvec, x1
     enc_i(-1, 0, 0, 2, OP_IARITH),      \* addi  x2, x0, -1
     enc_csr(CSR_MIE, 2, 2, 0),          \* csrrs x0, mie, x2
     enc_csr(CSR_MSTATUS, 2, 2, 0) >>    \* csrrs x0, mstatus, x2

TrapPool ==
  { enc_i(-4, 1, 0, 1, OP_JALR),         \* jalr  x1, -4(x1): to the ebreak
    enc_csr(CSR_MSTATUS, 2, 3, 0),       \* csrrc x0, mstatus, x2
    enc_csr(CSR_MEPC, 3, 1, 1),          \* csrrw x1, mepc, x3
    enc_i(0, 0, 2, 3, OP_LOAD),          \* lw    x3, 0(x0)
    enc_s(4, 3, 0, 2),                   \* sw    x3, 4(x0)
    enc_b(-4, 0, 0, 0),                  \* beq   x0, x0, -4
    enc_j(4, 3, 0, 0),                   \* jal   x3, +4
    ECALL,
    EBREAK }

\* Return at once; step over the instruction; allow another trap and halt.
ReturningHandlers ==
  { << MRET >>,
    << enc_csr(CSR_MEPC, 0, 2, 1),       \* csrrs x1, mepc, x0
       enc_i(4, 1, 0, 1, OP_IARITH),     \* addi  x1, x1, 4
       enc_csr(CSR_MEPC, 1, 1, 0),       \* csrrw x0, mepc, x1
       MRET >> }
NestingHandler ==
  << enc_csr(CSR_MSTATUS, 2, 2, 0),      \* csrrs x0, mstatus, x2
     EBREAK >>

\* The handler is word 9 whatever `n' is, so `n' is at most 3.
TrapProgramsOf(pool, n, handlers) ==
  UNION {ProgramsOver(TrapPrologue, {pool}, n,
                      [k \in 1 .. (4 - n) |-> EBREAK] \o h, 16) : h \in handlers}

\* Two words of the pool with each handler; three with the plain return, where
\* the ebreak that follows stands for those of the pool.
ShortTrapPrograms ==
  TrapProgramsOf(TrapPool, 2, ReturningHandlers \cup {NestingHandler})
TrapPrograms ==
  TrapProgramsOf(TrapPool \ {EBREAK}, 3, {<<MRET>>}) \cup ShortTrapPrograms
=============================================================================
