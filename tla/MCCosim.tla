------------------------------ MODULE MCCosim -------------------------------
(***************************************************************************)
(* The pipeline and its commit trace on all of Programs.tla.  The sixteen  *)
(* words of the memory hold the longest of them, those with a handler.     *)
(***************************************************************************)
EXTENDS Cosim, Programs

CosimPrograms ==
  TrapPrograms \cup ProgramsOver(<<>>, {DataPool, ControlPool}, 4, <<EBREAK>>, 16)

\* The interrupt line moves only where the program enables interrupts.
HandledInterrupts == irq => imem[2] = TrapPrologue[3]
=============================================================================
