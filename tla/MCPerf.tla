------------------------------- MODULE MCPerf -------------------------------
(***************************************************************************)
(* The counters on programs of loads, branches, jumps and traps.           *)
(***************************************************************************)
EXTENDS Perf, Programs

PerfPrograms ==
  ShortTrapPrograms \cup ProgramsOver(<<>>, {ControlPool}, 3, <<EBREAK>>, 16)
=============================================================================
