----------------------------- MODULE MCPipeline -----------------------------
(***************************************************************************)
(* The pipeline on the programs of Programs.tla.                           *)
(***************************************************************************)
EXTENDS Refinement, Programs

PipelinePrograms ==
  ProgramsOver(<<>>, {DataPool, ControlPool}, 4, <<EBREAK>>, 8)
=============================================================================
