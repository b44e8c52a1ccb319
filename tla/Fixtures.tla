------------------------------ MODULE Fixtures ------------------------------
(***************************************************************************)
(* tools/gen_fixtures.py and the files it leaves next to each program:     *)
(* .hex and .data.hex by asm.py, .trace by iss.py, .regs and .dmem by the  *)
(* script itself from what iss.py prints.  The files are committed, so one *)
(* run finds those of the runs before it, of other versions of the source; *)
(* tools/run_tests.py and tb_program.v judge the hardware by them.         *)
(*                                                                         *)
(* A text or data image is a name, and an execution is the pair of images  *)
(* it started from: different pairs leave different traces and registers.  *)
(* What an execution does is Arch.tla's matter; here only how it ends.     *)
(***************************************************************************)
EXTENDS Naturals, FiniteSetsExt

CONSTANTS
  NPROGS,           \* the programs, in the order find_programs returns them
  SOURCES,          \* what a .s file may hold: [assembles, text, data]
  NO_DATA,          \* the data of a source without a .data section
  BLANK,            \* a memory of zeros
  MISSING, EMPTY,   \* a file that is not there; one opened and never written
  TORN,             \* a trace or a memory image that breaks off
  ends(_, _),       \* how the reference ends on a text and a data image
  MAX_EDITS, MAX_RUNS, MAX_FAULTS

Texts  == {s.text : s \in SOURCES} \cup {BLANK}
Images == {s.data : s \in SOURCES} \cup {BLANK}

ASSUME ProgramsAssumption == NPROGS \in Nat

\* A word of zeros is illegal.
ASSUME EndsAssumption ==
  \A t \in Texts, d \in Images :
    /\ ends(t, d) \in {"ebreak", "limit", "illegal"}
    /\ ends(BLANK, d) = "illegal"

VARIABLES
  source,    \* the .s files
  disk,      \* the fixtures of each program
  stage,     \* what the run in progress does next, "idle" between runs
  todo,      \* the programs it has left, the current one included
  assembled, \* the source asm.py last read of each program
  dump,      \* how the current iss.py ended, and what it printed
  chosen,    \* main's progs
  rows,      \* what process last returned for each program
  failed,    \* main's flag
  status,    \* the exit status of the last run: "ok", "failed" or "killed"
  edits, runs, faults

genVars == <<stage, todo, assembled, dump, chosen, rows, failed, status>>
fixVars == <<source, disk, genVars, edits, runs, faults>>

Programs == 1 .. NPROGS

FILES == {"hex", "data_hex", "trace", "regs", "dmem"}

----------------------------------------------------------------------------
(* The files as the tools read and write them.                             *)

\* load_hex and $readmemh: a file of too few words leaves zeros.
image(file) == IF file = EMPTY THEN BLANK ELSE file

\* mutant: no default for --data
default_data_none(files) == BLANK

\* iss.py's default_data_path and tb_program.v look for the same name.
default_data(files) ==
  IF files.data_hex = MISSING THEN BLANK ELSE image(files.data_hex)

execution(text, data) == [text |-> text, data |-> data, past_illegal |-> FALSE]
Executions == {execution(t, d) : t \in Texts, d \in Images}
NO_DUMP == execution(BLANK, BLANK)

\* Nothing that is written to a file looks like a file that is not there, or
\* like one of no lines; a torn one is none of a whole execution.
ASSUME FilesAssumption ==
  /\ MISSING # EMPTY
  /\ \A x \in Texts \cup Images : x \notin {MISSING, EMPTY}
  /\ \A x \in Executions : x \notin {MISSING, EMPTY, TORN}

reference_run(files) == execution(image(files.hex), default_data(files))

\* The hardware drops an illegal instruction and goes on.
hardware_run(files) ==
  LET text == image(files.hex)
      data == IF files.data_hex = MISSING THEN BLANK ELSE image(files.data_hex)
  IN  [execution(text, data) EXCEPT !.past_illegal = (ends(text, data) = "illegal")]

\* run_tests.py for one program.  Whether the hardware finds an ebreak behind
\* an illegal instruction is open; it is given the benefit of the doubt.
verdict(files) ==
  LET run == hardware_run(files)
  IN  IF files.hex = MISSING \/ files.regs = MISSING \/ files.trace = MISSING
      THEN "SKIP"
      ELSE IF /\ ends(run.text, run.data) # "limit"
              /\ files.regs = run /\ files.trace = run
           THEN "PASS" ELSE "FAIL"

----------------------------------------------------------------------------
(* gen_fixtures.py.                                                        *)

program == Min(todo)

write(file, content) == disk' = [disk EXCEPT ![program][file] = content]

\* mutant: the flag is that of the last program
failing_last(row) == row \in {"limit", "illegal", "asm-err"}

failing(row) == failed \/ row \in {"limit", "illegal", "asm-err"}

\* process returns `row', and main takes the next program or ends.
return(row) ==
  /\ rows' = [rows EXCEPT ![program] = row]
  /\ failed' = failing(row)
  /\ todo' = todo \ {program}
  /\ IF todo' = {}
     THEN stage' = "idle" /\ status' = (IF failing(row) THEN "failed" ELSE "ok")
     ELSE stage' = "assemble" /\ UNCHANGED status

goto(s) == stage' = s /\ UNCHANGED <<todo, rows, failed, status>>
alike == UNCHANGED <<source, assembled, chosen, edits, runs>>

\* main, with any set of programs --only may match.
Start ==
  /\ stage = "idle" /\ runs < MAX_RUNS
  /\ runs' = runs + 1
  /\ chosen' \in SUBSET Programs
  /\ IF chosen' = {}
     THEN status' = "failed" /\ UNCHANGED <<stage, todo, failed>>
     ELSE /\ todo' = chosen'
          /\ stage' = "assemble" /\ failed' = FALSE /\ status' = "running"
  /\ UNCHANGED <<source, disk, assembled, dump, rows, edits, faults>>

\* asm.py reads and assembles the source.
Assemble ==
  /\ stage = "assemble"
  /\ assembled' = [assembled EXCEPT ![program] = source[program]]
  /\ IF source[program].assembles
     THEN /\ stage' = "hex"
          /\ rows' = [rows EXCEPT ![program] = "running"]
          /\ UNCHANGED <<todo, failed, status>>
     ELSE return("asm-err")
  /\ UNCHANGED <<source, disk, dump, chosen, edits, runs, faults>>

WriteHex ==
  /\ stage = "hex"
  /\ write("hex", assembled[program].text)
  /\ goto(IF assembled[program].data = NO_DATA THEN "iss" ELSE "data_hex")
  /\ UNCHANGED <<dump, faults>> /\ alike

\* mutant: an image that is there already is kept
data_image_once ==
  IF disk[program].data_hex = MISSING THEN assembled[program].data
  ELSE disk[program].data_hex

data_image == assembled[program].data

WriteDataHex ==
  /\ stage = "data_hex"
  /\ write("data_hex", data_image)
  /\ goto("iss")
  /\ UNCHANGED <<dump, faults>> /\ alike

\* iss.py runs to its end and writes the trace as it goes.
RunIss ==
  /\ stage = "iss"
  /\ LET run  == reference_run(disk[program])
         code == ends(run.text, run.data)
     IN  /\ write("trace", run)
         /\ dump' = [row |-> code, regs |-> run, dmem |-> run]
         /\ IF code \in {"limit", "illegal"} THEN return(code) ELSE goto("regs")
  /\ UNCHANGED faults /\ alike

\* What iss.py's main has left when it dies: before it opens the trace, while
\* it writes it, behind that with nothing printed, with the registers printed
\* and part of the memory, or at its exit.  (The registers are the first lines
\* of the first block that leaves its buffer: all of them are out, or none.)
\* The script's row shows the exit code in every case; "died_late" tells those
\* apart that had printed their registers.
remains(trace, row, regs, dmem) ==
  [trace |-> trace, dump |-> [row |-> row, regs |-> regs, dmem |-> dmem]]

deaths(run, old) ==
  { remains(old,  "died", NO_DUMP, NO_DUMP),
    remains(TORN, "died", NO_DUMP, NO_DUMP),
    remains(run,  "died", NO_DUMP, NO_DUMP),
    remains(run,  "died_late", run, TORN),
    remains(run,  "died_late", run, run) }

\* iss.py dies with an exit code that is neither 2 nor 3.
IssDies ==
  /\ stage = "iss" /\ faults < MAX_FAULTS
  /\ \E death \in deaths(reference_run(disk[program]), disk[program].trace) :
       write("trace", death.trace) /\ dump' = death.dump
  /\ goto("regs")
  /\ faults' = faults + 1
  /\ alike

\* mutant: the registers are left alone when none were printed
printed_or(content, old) == IF content = NO_DUMP THEN old ELSE content

\* Absent lines are zeros, the registers of no execution.
printed(content, old) == content

WriteRegs ==
  /\ stage = "regs"
  /\ write("regs", printed(dump.regs, disk[program].regs))
  /\ goto("dmem")
  /\ UNCHANGED <<dump, faults>> /\ alike

WriteDmem ==
  /\ stage = "dmem"
  /\ write("dmem", printed(dump.dmem, disk[program].dmem))
  /\ return(dump.row)
  /\ UNCHANGED <<dump, faults>> /\ alike

\* The run is interrupted; the file it was writing may be left empty.
Killed ==
  /\ stage # "idle" /\ faults < MAX_FAULTS
  /\ LET file == IF stage = "iss" THEN "trace" ELSE stage
     IN  \/ UNCHANGED disk
         \/ file \in FILES /\ write(file, EMPTY)
  /\ rows' = [rows EXCEPT ![program] = IF stage = "assemble" THEN @ ELSE "killed"]
  /\ stage' = "idle" /\ todo' = {} /\ status' = "killed"
  /\ faults' = faults + 1
  /\ UNCHANGED <<dump, failed>> /\ alike

\* The author changes a source, during a run or between two.
Edit ==
  /\ edits < MAX_EDITS
  /\ edits' = edits + 1
  /\ \E p \in Programs, s \in SOURCES : source' = [source EXCEPT ![p] = s]
  /\ UNCHANGED <<disk, genVars, runs, faults>>

Init ==
  /\ source \in [Programs -> SOURCES]
  /\ disk = [p \in Programs |-> [f \in FILES |-> MISSING]]
  /\ stage = "idle" /\ todo = {} /\ chosen = {}
  /\ assembled = source /\ dump = [row |-> "died", regs |-> NO_DUMP, dmem |-> NO_DUMP]
  /\ rows = [p \in Programs |-> "none"]
  /\ failed = FALSE /\ status = "none"
  /\ edits = 0 /\ runs = 0 /\ faults = 0

Next == \/ Start \/ Assemble \/ WriteHex \/ WriteDataHex \/ RunIss \/ IssDies
        \/ WriteRegs \/ WriteDmem \/ Killed \/ Edit

Spec == Init /\ [][Next]_fixVars

----------------------------------------------------------------------------
(* Properties.                                                             *)

\* The fixtures of a program the script reported as run to its ebreak belong
\* together, whatever earlier versions, failures and interrupted runs left
\* beside them, and a correct machine passes its test.
GeneratedFixturesPass ==
  \A p \in Programs : rows[p] = "ebreak" =>
    /\ verdict(disk[p]) = "PASS"
    /\ disk[p].dmem = disk[p].regs

\* A program whose reference run failed, or died before it printed registers,
\* has no fixtures that pass, although .hex and perhaps .trace are new and the
\* .regs of a failed one may be those of an earlier version.
FailedProgramsNeverPass ==
  \A p \in Programs :
    rows[p] \in {"limit", "illegal", "died"} => verdict(disk[p]) # "PASS"

\* The fixtures come from the source asm.py read, its data section included.
\* (Of a source that has none any more they come from the section it had: the
\* old image is neither removed nor passed over.)
FixturesAreTheSources ==
  \A p \in Programs : rows[p] = "ebreak" =>
    /\ disk[p].regs.text = assembled[p].text
    /\ assembled[p].data # NO_DATA => disk[p].regs.data = assembled[p].data

\* What exit status 0 says of the programs chosen, whichever of several failed.
\* Not that each "ran to ebreak", as the script prints it (gen_fixtures.py 184):
\* an iss.py that died counts as success (121).  Deaths are all that it hides,
\* and a death leaves fixtures that fail their test, or the trace and registers
\* of one execution of the images there (of the memory, which no test reads,
\* words may be missing).
SuccessHidesOnlyDeaths ==
  status = "ok" => \A p \in chosen :
    \/ rows[p] = "ebreak"
    \/ rows[p] = "died" /\ verdict(disk[p]) # "PASS"
    \/ /\ rows[p] = "died_late"
       /\ disk[p].trace = reference_run(disk[p]) /\ disk[p].regs = disk[p].trace

\* What the docstring says of a program that hits the limit or an illegal
\* instruction, that nothing is written for it: .hex and .trace still belong
\* to the .regs that were there.
FailedProgramsUntouched ==
  \A p \in Programs :
    (rows[p] \in {"limit", "illegal"} /\ disk[p].regs # MISSING) =>
      disk[p].hex = disk[p].regs.text /\ disk[p].trace = disk[p].regs
=============================================================================
