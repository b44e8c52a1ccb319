-------------------------------- MODULE Perf --------------------------------
(***************************************************************************)
(* The performance counters, rtl/perf_counters.v and the pulses cpu_top.v  *)
(* (689-703) feeds it, against what the documents say a cycle can be spent *)
(* on.  The counters are what every CPI figure of the project is made of,  *)
(* and no test knows how many cycles a program ought to take.              *)
(*                                                                         *)
(* `account' is not in the hardware: it is the ledger of the instructions  *)
(* that have left EX, kept with the prices of DESIGN.md 9.1 and 11.1; nor  *)
(* is `outcomes', what the branches at each entry of the history table did.*)
(***************************************************************************)
EXTENDS Pipeline, FiniteSets

\* The counters are 32 bits wide and free running; the model stops at
\* MAX_CYCLES, far below their overflow.
CONSTANT MAX_CYCLES
ASSUME MaxCyclesAssumption == MAX_CYCLES \in 1 .. (2^30)

VARIABLES perf, account, outcomes

perfVars == <<vars, perf, account, outcomes>>

----------------------------------------------------------------------------
pulse(b) == IF b THEN 1 ELSE 0

\* The last four outcomes of an entry, the latest first: 1 taken, 0 not taken.
NO_OUTCOMES == [k \in 1 .. 4 |-> 2]
recorded(h, taken) == [k \in 1 .. 4 |-> IF k = 1 THEN pulse(taken) ELSE h[k - 1]]

Init_perf ==
  /\ Init
  /\ perf = [cycles |-> 0, insns |-> 0, lu_stalls |-> 0, flushes |-> 0,
             bht_preds |-> 0, bht_misses |-> 0]
  /\ account = [penalty |-> 0, dropped |-> 0, transfers |-> 0, branches |-> 0]
  /\ outcomes = [e \in BhtEntry |-> NO_OUTCOMES]

perf_counters ==
  perf' = [cycles     |-> perf.cycles + 1,
           insns      |-> perf.insns + pulse(wb_retire),
           lu_stalls  |-> perf.lu_stalls + pulse(stall /\ ~halt),
           flushes    |-> perf.flushes + pulse(redirect /\ ~halt),
           bht_preds  |-> perf.bht_preds + pulse(ex_branch_valid /\ ~halt),
           bht_misses |-> perf.bht_misses + pulse(br_redirect /\ ~halt)]

\* The bubbles the instruction in EX is charged for.
price == CASE ~id_ex.valid -> 0
           [] id_ex.valid /\ redirect_ex -> 2
           [] id_ex.valid /\ ~redirect_ex /\ (id_ex.ctl.jal \/ id_ex.pred_taken) -> 1
           [] OTHER -> 0

\* It leaves the path in program order that follows it.
transfers == trap_taken \/ mret_taken \/ jalr_taken
             \/ (id_ex.valid /\ id_ex.ctl.jal)
             \/ (ex_branch_valid /\ branch_cond)

\* A slot that will not retire: squashed by a trap, or not an instruction.
drops == trap_taken \/ (id_ex.valid /\ id_ex.ctl.illegal)

keep_account ==
  account' = [penalty   |-> account.penalty + price,
              dropped   |-> account.dropped + pulse(drops),
              transfers |-> account.transfers + pulse(transfers),
              branches  |-> account.branches
                            + pulse(wb_retire /\ mem_wb.inst.opcode = OP_BRANCH)]

branch_executes == id_ex.valid /\ id_ex.ctl.branch /\ ~irq_taken

keep_outcomes ==
  outcomes' = IF branch_executes
              THEN [outcomes EXCEPT ![bht_index(id_ex.pc)] = recorded(@, branch_cond)]
              ELSE outcomes

Next_perf ==
  perf.cycles < MAX_CYCLES /\ Next /\ perf_counters /\ keep_account /\ keep_outcomes

Spec_perf == Init_perf /\ [][Next_perf]_perfVars

----------------------------------------------------------------------------
(* Properties.                                                             *)

\* Instructions past EX that will still retire; slots that are empty.
InFlight(s) == pulse(s.valid /\ ~s.illegal)
Bubble(s)   == pulse(~s.valid)

\* Every cycle until the ebreak leaves EX is accounted for: it carries an
\* instruction that retires or is dropped, or it is one of the two cycles
\* that fill the pipeline, or a counted stall, or a bubble some redirect is
\* charged for at the price of the cost tables (a jal or a predicted-taken
\* branch has paid one by the time it is in EX).  "There is no other source
\* of a stall or a bubble in this design" (DESIGN.md 11.2).
CyclesAccountedFor ==
  ~(ex_mem.ebreak \/ mem_wb.ebreak \/ done_r) =>
    perf.cycles + Bubble(id_ex) + Bubble(if_id)
      = perf.insns + InFlight(ex_mem) + InFlight(mem_wb) + account.dropped
        + 2 + perf.lu_stalls + account.penalty
        + pulse(id_ex.valid /\ (id_ex.ctl.jal \/ id_ex.pred_taken))

\* bht_preds counts every conditional branch that retires, once: not one
\* that an interrupt squashes and that is executed again after the handler.
BranchesCountedOnce ==
  perf.bht_preds =
    account.branches
      + Cardinality({s \in {<<1, ex_mem>>, <<2, mem_wb>>} :
                       /\ InFlight(s[2]) = 1 /\ ~done_r
                       /\ s[2].inst.opcode = OP_BRANCH})

\* Two equal outcomes in a row settle the prediction of an entry, and one
\* contrary outcome does not unsettle it when three equal ones came before: the
\* counter crosses in two steps and stays at its ends.  The prediction was made
\* two or more cycles before the branch resolves, and a lookup that meets an
\* update "sees the old value" (bht.v 37-40, "at most one extra mispredict"); it
\* costs none, since only a mispredicted branch turns a counter, and it flushes
\* what was fetched by the old one.
settled_on(h, taken) == \/ \A k \in 1 .. 2 : h[k] = pulse(taken)
                        \/ \A k \in 2 .. 4 : h[k] = pulse(taken)

PredictionsSettle ==
  BHT_ENABLE /\ branch_executes =>
    \A taken \in BOOLEAN :
      settled_on(outcomes[bht_index(id_ex.pc)], taken) => id_ex.pred_taken = taken

\* "`flush' counts control-flow redirect events -- a taken branch, jalr, jal,
\* ecall trap or mret -- one per event" (cpu_top.v 681-684).  It does not:
\* a branch predicted taken and not taken redirects twice and is no event.
FlushesAreEvents ==
  perf.flushes = account.transfers
                 + pulse(id_ex.valid /\ (id_ex.ctl.jal \/ id_ex.pred_taken))
=============================================================================
