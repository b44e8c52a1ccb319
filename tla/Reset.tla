-------------------------------- MODULE Reset --------------------------------
(***************************************************************************)
(* The pipeline with its reset asserted at any clock edge, for one cycle   *)
(* or several.  The reset is synchronous: on that edge the instructions in *)
(* flight disappear, but regfile.v and dmem.v, which have no reset input,  *)
(* still take the write that WB and MEM present.                           *)
(***************************************************************************)
EXTENDS Refinement

CONSTANT MAX_RESETS   \* bound on the reset edges of a behaviour
ASSUME ResetAssumption == MAX_RESETS \in Nat

VARIABLES
  resets,   \* reset edges so far
  before    \* history: what the instruction last in EX found

resetVars == <<vars, resets, before>>

abs_state == <<abs_regs, abs_dmem>>

Init_reset == Init /\ resets = 0 /\ before = abs_state

run_edge ==
  /\ clock(FALSE)
  /\ before' = IF id_ex.valid THEN abs_state ELSE before
  /\ UNCHANGED resets

reset_edge ==
  /\ resets < MAX_RESETS
  /\ clock(TRUE)
  /\ before' = abs_state'
  /\ resets' = resets + 1

Next_reset == (run_edge \/ reset_edge) /\ drive_irq

Spec_reset == Init_reset /\ [][Next_reset]_resetVars

----------------------------------------------------------------------------

Restarted == INSTANCE ResetArch WITH
  pc <- abs_pc, regs <- abs_regs, dmem <- abs_dmem, halted <- abs_halted,
  prev <- before

\* A reset at any edge restarts the program at address 0 with initial CSRs,
\* takes a halted machine out of its halt, lets nothing fetched before it
\* execute, and leaves in the register file and the data memory the state of
\* an instruction boundary: the last instruction executed is kept or lost as
\* a whole, and every older one is kept.  One cycle of reset is enough,
\* although imem's output register still holds a word fetched before it.
ImplementsRestart == Restarted!SpecWithReset
=============================================================================
