------------------------------ MODULE ResetArch ------------------------------
(***************************************************************************)
(* What a reset in mid-run promises.  The reference model knows no reset:  *)
(* a simulation starts and ends.  The hardware's reset returns the PC, the *)
(* CSRs and the halt flag to their initial values and keeps the register   *)
(* file and the data memory, which have no reset.  What they keep is the   *)
(* state at an instruction boundary: the current one or the one before it  *)
(* (the last instruction executed may be lost, no older one, and no        *)
(* instruction by half).                                                   *)
(***************************************************************************)
EXTENDS Arch

VARIABLE prev   \* <<regs, dmem>> before the last instruction executed

resetArchVars == <<archVars, prev>>

InitWithReset == Init /\ prev = <<regs, dmem>>

Execute == Next /\ prev' = <<regs, dmem>>

Restart ==
  /\ pc' = 0
  /\ csr' = ResetCsrs
  /\ halted' = FALSE
  /\ <<regs', dmem'>> \in {<<regs, dmem>>, prev}
  /\ prev' = <<regs', dmem'>>
  /\ UNCHANGED imem

SpecWithReset == InitWithReset /\ [][Execute \/ Restart]_resetArchVars
=============================================================================
