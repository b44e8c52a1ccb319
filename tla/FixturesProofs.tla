---------------------------- MODULE FixturesProofs ----------------------------
(***************************************************************************)
(* The fixture generator, for every number of programs, every set of       *)
(* sources, and any number of edits, runs and faults.                      *)
(***************************************************************************)
EXTENDS Fixtures, WellFoundedInduction, TLAPS

Bad    == {"limit", "illegal", "asm-err", "killed"}
Good   == {"ebreak", "died", "died_late"}
Rows   == {"none", "running"} \cup Good \cup Bad
Stages == {"assemble", "hex", "data_hex", "iss", "regs", "dmem"}

----------------------------------------------------------------------------
(* The inductive invariant.                                                *)

\* What a file may hold.
Files == [hex : Texts \cup {MISSING, EMPTY},
          data_hex : Images \cup {MISSING, EMPTY},
          trace : Executions \cup {MISSING, EMPTY, TORN},
          regs : Executions \cup {MISSING, EMPTY},
          dmem : Executions \cup {MISSING, EMPTY, TORN}]

\* What iss.py may have printed.
Dumps == [row : Good \cup Bad, regs : Executions, dmem : Executions \cup {TORN}]

Typed ==
  /\ source \in [Programs -> SOURCES] /\ assembled \in [Programs -> SOURCES]
  /\ disk \in [Programs -> Files]
  /\ dump \in Dumps
  /\ todo \subseteq Programs /\ chosen \subseteq Programs
  /\ stage \in Stages \cup {"idle"} /\ (stage = "idle" <=> todo = {})
  /\ rows \in [Programs -> Rows]
  /\ failed \in BOOLEAN

\* What a dump is worth, of the reference run that printed it.
printed_by(d, run, trace) ==
  /\ d.row \in Good
  /\ d.row = "ebreak" =>
       /\ trace = run /\ d.regs = run /\ d.dmem = run
       /\ ends(run.text, run.data) = "ebreak"
  /\ d.row = "died_late" => trace = run /\ d.regs = run
  /\ d.row = "died" => d.regs = NO_DUMP

\* What the run in progress has written of its program so far.
Written ==
  LET files == disk[program]
      src   == assembled[program]
  IN  /\ stage \in {"hex", "data_hex", "iss", "regs", "dmem"} => rows[program] = "running"
      /\ stage \in {"data_hex", "iss", "regs", "dmem"} => files.hex = src.text
      /\ stage = "data_hex" => src.data # NO_DATA
      /\ stage \in {"iss", "regs", "dmem"} /\ src.data # NO_DATA => files.data_hex = src.data
      /\ stage \in {"regs", "dmem"} => printed_by(dump, reference_run(files), files.trace)
      /\ stage = "dmem" => files.regs = dump.regs

\* What the last run has left of a program it is done with.
settled(p) ==
  LET files == disk[p]
      run   == reference_run(files)
  IN  /\ rows[p] \in {"ebreak", "limit", "illegal", "died", "died_late"} =>
           files.hex = assembled[p].text
      /\ rows[p] = "ebreak" =>
           /\ assembled[p].data # NO_DATA => files.data_hex = assembled[p].data
           /\ files.trace = run /\ files.regs = run /\ files.dmem = run
           /\ ends(run.text, run.data) = "ebreak"
      /\ rows[p] \in {"limit", "illegal"} =>
           ends(run.text, run.data) = rows[p] /\ files.trace = run
      /\ rows[p] = "died" => files.regs = NO_DUMP
      /\ rows[p] = "died_late" => files.trace = run /\ files.regs = run

Settled == \A p \in Programs : settled(p)

\* The flag remembers every failure among the programs already done.
Remembered ==
  /\ stage # "idle" => status = "running"
  /\ stage # "idle" /\ ~failed => \A p \in chosen \ todo : rows[p] \in Good
  /\ status = "ok" => \A p \in chosen : rows[p] \in Good

FixturesInv == Typed /\ Written /\ Settled /\ Remembered

----------------------------------------------------------------------------
(* Helpers.                                                                *)

\* The program at hand is one of those left.
LEMMA ProgramLeft ==
  ASSUME todo \subseteq Programs, todo # {}
  PROVE  program \in todo
<1> DEFINE R == OpToRel(<, Nat)
<1>1. IsWellFoundedOn(R, Nat)
  BY NatLessThanWellFounded
<1>2. \A x, y \in Nat : <<y, x>> \in R \/ x <= y
  BY DEF OpToRel
<1>3. todo \subseteq Nat
  BY ProgramsAssumption DEF Programs
<1> HIDE DEF R
<1>4. PICK x \in todo : \A y \in todo : ~(<<y, x>> \in R)
  BY <1>1, <1>3, WFMin
<1>5. \A y \in todo : x <= y
  BY <1>2, <1>3, <1>4
<1> QED
  BY <1>5 DEF program, Min

\* The reference on a program whose .hex is written: an execution from that
\* text and the data image there is, of known outcome.
LEMMA ReferenceRun ==
  ASSUME Typed, NEW p \in Programs, disk[p].hex \in Texts
  PROVE  LET run == reference_run(disk[p])
         IN  /\ run \in Executions /\ run \notin {MISSING, EMPTY}
             /\ run.text = disk[p].hex /\ run.text \in Texts /\ run.data \in Images
             /\ run.data = default_data(disk[p]) /\ run.past_illegal = FALSE
             /\ ends(run.text, run.data) \in {"ebreak", "limit", "illegal"}
             /\ run.text = BLANK => ends(run.text, run.data) = "illegal"
<1> DEFINE files == disk[p]
           run == reference_run(files)
<1>1. files.data_hex \in Images \cup {MISSING, EMPTY}
  BY DEF Typed, Files
<1>2. BLANK \in Images
  BY DEF Images
<1>3. default_data(files) \in Images
  BY <1>1, <1>2 DEF default_data, image
<1>4. image(files.hex) = files.hex
  BY FilesAssumption DEF image
<1>5. run = [text |-> files.hex, data |-> default_data(files), past_illegal |-> FALSE]
  BY <1>4 DEF reference_run, execution
<1>6. run \in Executions
  BY <1>3, <1>4 DEF Executions, reference_run
<1> HIDE DEF run
<1>7. run.text = files.hex /\ run.data = default_data(files)
      /\ run.past_illegal = FALSE
  BY <1>5
<1>8. run \notin {MISSING, EMPTY}
  BY <1>6, FilesAssumption
<1>9. /\ ends(run.text, run.data) \in {"ebreak", "limit", "illegal"}
      /\ run.text = BLANK => ends(run.text, run.data) = "illegal"
  BY <1>3, <1>7, EndsAssumption
<1> QED
  BY <1>3, <1>6, <1>7, <1>8, <1>9 DEF run

\* The hardware loads the same images, and is past an illegal instruction
\* exactly where the reference stops at one.
LEMMA HardwareRun ==
  ASSUME Typed, NEW p \in Programs, disk[p].hex \in Texts
  PROVE  LET run == reference_run(disk[p])
             hw  == hardware_run(disk[p])
         IN  /\ hw.text = run.text /\ hw.data = run.data
             /\ ends(run.text, run.data) # "illegal" => hw = run
             /\ ends(run.text, run.data) = "illegal" => hw # run /\ hw # NO_DUMP
<1> DEFINE files == disk[p]
           text == image(files.hex)
           data == default_data(files)
<1>1. reference_run(files) = [text |-> text, data |-> data, past_illegal |-> FALSE]
  BY DEF reference_run, execution
<1>2. hardware_run(files) = [text |-> text, data |-> data,
                             past_illegal |-> (ends(text, data) = "illegal")]
  BY DEF hardware_run, execution, default_data
<1>3. NO_DUMP.past_illegal = FALSE
  BY DEF NO_DUMP, execution
<1> HIDE DEF text, data
<1>4. hardware_run(files).past_illegal = (ends(text, data) = "illegal")
  BY <1>2
<1>5. ends(text, data) # "illegal" => hardware_run(files) = reference_run(files)
  <2> SUFFICES ASSUME ends(text, data) # "illegal"
               PROVE  hardware_run(files) = reference_run(files)
    OBVIOUS
  <2>1. (ends(text, data) = "illegal") = FALSE
    OBVIOUS
  <2> QED
    BY <1>1, <1>2, <2>1, Zenon
<1>6. ends(text, data) = "illegal" =>
        hardware_run(files) # reference_run(files) /\ hardware_run(files) # NO_DUMP
  <2> SUFFICES ASSUME ends(text, data) = "illegal"
               PROVE  hardware_run(files) # reference_run(files) /\ hardware_run(files) # NO_DUMP
    OBVIOUS
  <2>1. hardware_run(files).past_illegal = TRUE
    BY <1>4
  <2>2. reference_run(files).past_illegal = FALSE
    BY <1>1
  <2> QED
    BY <1>3, <2>1, <2>2
<1> QED
  BY <1>1, <1>2, <1>5, <1>6 DEF text, data

----------------------------------------------------------------------------
(* The invariant implies the properties.                                   *)

LEMMA HexWritten ==
  ASSUME Typed, NEW p \in Programs, disk[p].hex = assembled[p].text
  PROVE  disk[p].hex \in Texts /\ disk[p].hex \notin {MISSING, EMPTY}
BY FilesAssumption DEF Typed, Texts

LEMMA InvGenerated == FixturesInv => GeneratedFixturesPass
<1> SUFFICES ASSUME FixturesInv, NEW p \in Programs, rows[p] = "ebreak"
             PROVE  verdict(disk[p]) = "PASS" /\ disk[p].dmem = disk[p].regs
  BY DEF GeneratedFixturesPass
<1> DEFINE files == disk[p]
           run == reference_run(files)
<1>1. /\ files.hex = assembled[p].text
      /\ files.trace = run /\ files.regs = run /\ files.dmem = run
      /\ ends(run.text, run.data) = "ebreak"
  BY DEF FixturesInv, Settled, settled
<1>2. files.hex \in Texts /\ files.hex # MISSING
  BY <1>1, HexWritten DEF FixturesInv
<1>3. run # MISSING
  BY <1>2, ReferenceRun DEF FixturesInv
<1>4. hardware_run(files) = run
  BY <1>1, <1>2, HardwareRun DEF FixturesInv
<1> HIDE DEF run
<1> QED
  BY <1>1, <1>2, <1>3, <1>4 DEF verdict

LEMMA InvFailed == FixturesInv => FailedProgramsNeverPass
<1> SUFFICES ASSUME FixturesInv, NEW p \in Programs,
                    rows[p] \in {"limit", "illegal", "died"}, verdict(disk[p]) = "PASS"
             PROVE  FALSE
  BY DEF FailedProgramsNeverPass
<1> DEFINE files == disk[p]
           run == reference_run(files)
           hw  == hardware_run(files)
<1>1. /\ files.hex # MISSING
      /\ ends(hw.text, hw.data) # "limit"
      /\ files.regs = hw /\ files.trace = hw
  BY DEF verdict
<1>2. /\ rows[p] \in {"limit", "illegal"} =>
           ends(run.text, run.data) = rows[p] /\ files.trace = run
      /\ rows[p] = "died" => files.regs = NO_DUMP
      /\ files.hex = assembled[p].text
  BY DEF FixturesInv, Settled, settled
<1>3. files.hex \in Texts
  BY <1>2, HexWritten DEF FixturesInv
<1>4. /\ hw.text = run.text /\ hw.data = run.data
      /\ ends(run.text, run.data) # "illegal" => hw = run
      /\ ends(run.text, run.data) = "illegal" => hw # run /\ hw # NO_DUMP
  BY <1>3, HardwareRun DEF FixturesInv
<1>5. run.text = BLANK => ends(run.text, run.data) = "illegal"
  BY <1>3, ReferenceRun DEF FixturesInv
<1>6. NO_DUMP.text = BLANK
  BY DEF NO_DUMP, execution
<1> HIDE DEF files, run, hw
<1>7. rows[p] # "limit"
  BY <1>1, <1>2, <1>4
<1>8. rows[p] # "illegal"
  BY <1>1, <1>2, <1>4
<1>9. rows[p] # "died"
  BY <1>1, <1>2, <1>4, <1>5, <1>6
<1> QED
  BY <1>7, <1>8, <1>9

LEMMA InvSources == FixturesInv => FixturesAreTheSources
<1> SUFFICES ASSUME FixturesInv, NEW p \in Programs, rows[p] = "ebreak"
             PROVE  /\ disk[p].regs.text = assembled[p].text
                    /\ assembled[p].data # NO_DATA => disk[p].regs.data = assembled[p].data
  BY DEF FixturesAreTheSources
<1> DEFINE files == disk[p]
           run == reference_run(files)
<1>1. /\ files.hex = assembled[p].text
      /\ assembled[p].data # NO_DATA => files.data_hex = assembled[p].data
      /\ files.regs = run
  BY DEF FixturesInv, Settled, settled
<1>2. files.hex \in Texts
  BY <1>1, HexWritten DEF FixturesInv
<1>3. run.text = files.hex /\ run.data = default_data(files)
  BY <1>2, ReferenceRun DEF FixturesInv
<1>4. assembled[p].data \in Images
  BY DEF FixturesInv, Typed, Images
<1>5. assembled[p].data # NO_DATA => default_data(files) = assembled[p].data
  BY <1>1, <1>4, FilesAssumption DEF default_data, image
<1> HIDE DEF files, run
<1>6. /\ files.regs.text = assembled[p].text
      /\ assembled[p].data # NO_DATA => files.regs.data = assembled[p].data
  BY <1>1, <1>3, <1>5
<1> QED
  BY <1>6 DEF files

LEMMA InvReported == FixturesInv => SuccessHidesOnlyDeaths
<1> SUFFICES ASSUME FixturesInv, status = "ok", NEW p \in chosen
             PROVE  \/ rows[p] = "ebreak"
                    \/ rows[p] = "died" /\ verdict(disk[p]) # "PASS"
                    \/ /\ rows[p] = "died_late"
                       /\ disk[p].trace = reference_run(disk[p])
                       /\ disk[p].regs = disk[p].trace
  BY DEF SuccessHidesOnlyDeaths
<1>1. p \in Programs /\ rows[p] \in Good
  BY DEF FixturesInv, Typed, Remembered
<1>2. rows[p] = "died" => verdict(disk[p]) # "PASS"
  BY <1>1, InvFailed DEF FailedProgramsNeverPass
<1>3. rows[p] = "died_late" =>
        disk[p].trace = reference_run(disk[p]) /\ disk[p].regs = disk[p].trace
  BY <1>1 DEF FixturesInv, Settled, settled
<1> QED
  BY <1>1, <1>2, <1>3 DEF Good

----------------------------------------------------------------------------
(* Writing a file.                                                         *)

\* Contents a file may be given.
Fits(file, content) ==
  \/ content = EMPTY /\ file \in FILES
  \/ file = "hex" /\ content \in Texts
  \/ file = "data_hex" /\ content \in Images
  \/ file \in {"trace", "regs", "dmem"} /\ content \in Executions \cup {MISSING}
  \/ file \in {"trace", "dmem"} /\ content = TORN

LEMMA WriteOne ==
  ASSUME Typed, todo # {}, NEW file \in FILES, NEW content, Fits(file, content),
         write(file, content)
  PROVE  /\ program \in todo /\ program \in Programs
         /\ disk' \in [Programs -> Files]
         /\ \A p \in Programs : p # program => disk'[p] = disk[p]
         /\ disk'[program] = [disk[program] EXCEPT ![file] = content]
<1>1. program \in todo /\ program \in Programs
  BY ProgramLeft DEF Typed
<1>2. disk' = [disk EXCEPT ![program] = [disk[program] EXCEPT ![file] = content]]
  BY DEF write
<1>3. disk[program] \in Files /\ disk \in [Programs -> Files]
  BY <1>1 DEF Typed
<1>4. [disk[program] EXCEPT ![file] = content] \in Files
  <2>1. CASE file = "hex"
    BY <1>3, <2>1 DEF Fits, Files
  <2>2. CASE file = "data_hex"
    BY <1>3, <2>2 DEF Fits, Files
  <2>3. CASE file = "trace"
    BY <1>3, <2>3 DEF Fits, Files
  <2>4. CASE file = "regs"
    BY <1>3, <2>4 DEF Fits, Files
  <2>5. CASE file = "dmem"
    BY <1>3, <2>5 DEF Fits, Files
  <2> QED
    BY <2>1, <2>2, <2>3, <2>4, <2>5 DEF FILES
<1> QED
  BY <1>1, <1>2, <1>3, <1>4

----------------------------------------------------------------------------
(* Inductiveness.                                                          *)

LEMMA InitInv == Init => FixturesInv
<1> SUFFICES ASSUME Init PROVE FixturesInv
  OBVIOUS
<1>1. [f \in FILES |-> MISSING] \in Files
  BY DEF FILES, Files
<1>2. NO_DUMP \in Executions
  BY DEF NO_DUMP, Executions, Texts, Images
<1>3. Typed
  BY <1>1, <1>2 DEF Init, Typed, Dumps, Rows, Good
<1>4. Written /\ Settled /\ Remembered
  BY DEF Init, Written, Settled, settled, Remembered
<1> QED
  BY <1>3, <1>4 DEF FixturesInv

LEMMA StartInv == FixturesInv /\ Start => FixturesInv'
<1> SUFFICES ASSUME FixturesInv, Start PROVE FixturesInv'
  OBVIOUS
<1>1. Typed'
  BY DEF FixturesInv, Typed, Start, Stages, Programs
<1>2. Written'
  <2>1. CASE chosen' = {}
    BY <2>1 DEF FixturesInv, Typed, Written, Start
  <2>2. CASE chosen' # {}
    BY <2>2 DEF Written, Start
  <2> QED
    BY <2>1, <2>2
<1>3. Settled'
  BY DEF FixturesInv, Settled, settled, Start, Programs
<1>4. Remembered'
  BY DEF FixturesInv, Typed, Remembered, Start
<1> QED
  BY <1>1, <1>2, <1>3, <1>4 DEF FixturesInv

\* Where the run stands in a program, and what is left when it returns.
LEMMA Returned ==
  ASSUME FixturesInv, stage # "idle", NEW row \in {"ebreak", "died", "died_late", "limit", "illegal", "asm-err"},
         return(row), UNCHANGED chosen
  PROVE  /\ program \in todo /\ program \in Programs
         /\ rows' \in [Programs -> Rows]
         /\ rows'[program] = row
         /\ \A p \in Programs : p # program => rows'[p] = rows[p]
         /\ todo' \subseteq Programs /\ failed' \in BOOLEAN
         /\ stage' \in {"idle", "assemble"} /\ (stage' = "idle" <=> todo' = {})
         /\ Remembered'
<1>1. program \in todo /\ program \in Programs
  BY ProgramLeft DEF FixturesInv, Typed
<1>2. /\ rows' = [rows EXCEPT ![program] = row]
      /\ todo' = todo \ {program} /\ failed' = failing(row)
      /\ IF todo' = {}
         THEN stage' = "idle" /\ status' = (IF failing(row) THEN "failed" ELSE "ok")
         ELSE stage' = "assemble" /\ UNCHANGED status
  BY DEF return
<1>3. /\ rows' \in [Programs -> Rows]
      /\ rows'[program] = row
      /\ \A p \in Programs : p # program => rows'[p] = rows[p]
  BY <1>1, <1>2 DEF FixturesInv, Typed, Rows, Good, Bad
<1>4. failed' \in BOOLEAN /\ (~failed' => ~failed /\ row \in Good)
  BY <1>2 DEF FixturesInv, Typed, failing, Good
<1>5. ~failed' => \A p \in chosen' \ todo' : rows'[p] \in Good
  <2> SUFFICES ASSUME ~failed', NEW p \in chosen, p \notin todo'
               PROVE  rows'[p] \in Good
    OBVIOUS
  <2>1. p \in Programs
    BY DEF FixturesInv, Typed
  <2>2. CASE p = program
    BY <1>3, <1>4, <2>2
  <2>3. CASE p # program
    BY <1>2, <1>3, <1>4, <2>1, <2>3 DEF FixturesInv, Remembered
  <2> QED
    BY <2>2, <2>3
<1>6. status = "running"
  BY DEF FixturesInv, Remembered
<1>7. Remembered'
  BY <1>2, <1>5, <1>6 DEF Remembered, failing
<1> QED
  BY <1>1, <1>2, <1>3, <1>4, <1>7 DEF FixturesInv, Typed

LEMMA AssembleInv == FixturesInv /\ Assemble => FixturesInv'
<1> SUFFICES ASSUME FixturesInv, Assemble PROVE FixturesInv'
  OBVIOUS
<1>1. program \in todo /\ program \in Programs
  BY ProgramLeft DEF FixturesInv, Typed, Assemble
<1>2. /\ assembled' \in [Programs -> SOURCES] /\ assembled'[program] = source[program]
      /\ \A p \in Programs : p # program => assembled'[p] = assembled[p]
  BY <1>1 DEF FixturesInv, Typed, Assemble
<1>3. CASE source[program].assembles
  <2>1. /\ stage' = "hex" /\ rows' = [rows EXCEPT ![program] = "running"]
        /\ UNCHANGED <<todo, failed, status, source, disk, dump, chosen>>
    BY <1>3 DEF Assemble
  <2>2. /\ rows' \in [Programs -> Rows]
        /\ rows'[program] = "running"
        /\ \A p \in Programs : p # program => rows'[p] = rows[p]
    BY <1>1, <2>1 DEF FixturesInv, Typed, Rows
  <2>3. Typed'
    BY <1>1, <1>2, <2>1, <2>2 DEF FixturesInv, Typed, Stages, Programs
  <2>4. Written'
    BY <2>1, <2>2 DEF Written, program
  <2>5. settled(program)'
    BY <2>1, <2>2 DEF settled, program
  <2>6. Settled'
    <3>1. \A p \in Programs : p # program => settled(p)'
      BY <1>2, <2>1, <2>2 DEF FixturesInv, Settled, settled
    <3> QED
      BY <2>1, <2>2, <3>1 DEF Settled, settled, Programs
  <2>7. Remembered'
    BY <1>1, <2>1, <2>2 DEF FixturesInv, Typed, Assemble, Remembered
  <2> QED
    BY <2>3, <2>4, <2>6, <2>7 DEF FixturesInv
<1>4. CASE ~source[program].assembles
  <2>1. return("asm-err") /\ UNCHANGED <<source, disk, dump, chosen>> /\ stage = "assemble"
    BY <1>4 DEF Assemble
  <2> DEFINE row == "asm-err"
  <2>2. /\ rows' \in [Programs -> Rows]
        /\ rows'[program] = row
        /\ \A p \in Programs : p # program => rows'[p] = rows[p]
        /\ todo' \subseteq Programs /\ failed' \in BOOLEAN
        /\ stage' \in {"idle", "assemble"} /\ (stage' = "idle" <=> todo' = {})
        /\ Remembered'
    BY <2>1, Returned
  <2>3. Typed'
    BY <1>2, <2>1, <2>2 DEF FixturesInv, Typed, Stages, Programs
  <2>4. Written'
    BY <2>2 DEF Written
  <2>5. Settled'
    <3>1. \A p \in Programs : p # program => settled(p)'
      BY <1>2, <2>1, <2>2 DEF FixturesInv, Settled, settled
    <3> QED
      BY <2>1, <2>2, <3>1 DEF Settled, settled, Programs
  <2> QED
    BY <2>2, <2>3, <2>4, <2>5 DEF FixturesInv
<1> QED
  BY <1>3, <1>4

\* A step that writes one file of the program at hand and stays with it.
LEMMA Stays ==
  ASSUME FixturesInv, stage \in {"hex", "data_hex", "iss", "regs", "dmem"},
         NEW file \in FILES, NEW content, Fits(file, content), write(file, content),
         NEW s \in Stages, goto(s), alike, dump' \in Dumps
  PROVE  /\ program \in Programs /\ program' = program
         /\ disk'[program] = [disk[program] EXCEPT ![file] = content]
         /\ rows'[program] = "running" /\ assembled'[program] = assembled[program]
         /\ assembled[program] \in SOURCES
         /\ Typed' /\ Settled' /\ Remembered'
<1>1. todo # {}
  BY DEF FixturesInv, Typed
<1>2. /\ program \in Programs
      /\ disk' \in [Programs -> Files]
      /\ \A p \in Programs : p # program => disk'[p] = disk[p]
      /\ disk'[program] = [disk[program] EXCEPT ![file] = content]
  BY <1>1, WriteOne DEF FixturesInv
<1>3. stage' = s /\ UNCHANGED <<todo, rows, failed, status, source, assembled, chosen>>
  BY DEF goto, alike
<1>4. program' = program
  BY <1>3 DEF program
<1>5. rows[program] = "running"
  BY DEF FixturesInv, Written
<1>6. Typed'
  BY <1>1, <1>2, <1>3 DEF FixturesInv, Typed, Stages, Programs
<1>7. Settled'
  <2>1. \A p \in Programs : p # program => settled(p)'
    BY <1>2, <1>3 DEF FixturesInv, Settled, settled
  <2>2. settled(program)'
    BY <1>3, <1>4, <1>5 DEF settled
  <2> QED
    BY <1>4, <2>1, <2>2 DEF Settled, Programs
<1>8. Remembered'
  BY <1>3 DEF FixturesInv, Remembered, Stages
<1> QED
  BY <1>2, <1>3, <1>4, <1>5, <1>6, <1>7, <1>8 DEF FixturesInv, Typed

LEMMA WriteHexInv == FixturesInv /\ WriteHex => FixturesInv'
<1> SUFFICES ASSUME FixturesInv, WriteHex PROVE FixturesInv'
  OBVIOUS
<1> DEFINE s == IF assembled[program].data = NO_DATA THEN "iss" ELSE "data_hex"
<1>1. stage = "hex" /\ write("hex", assembled[program].text) /\ goto(s) /\ alike
      /\ dump' = dump /\ s \in Stages /\ "hex" \in FILES
  BY DEF WriteHex, Stages, FILES
<1>2. program \in Programs /\ dump' \in Dumps
  BY <1>1, ProgramLeft DEF FixturesInv, Typed
<1>3. Fits("hex", assembled[program].text)
  BY <1>2 DEF Fits, FixturesInv, Typed, Texts
<1>4. /\ program' = program
      /\ disk'[program] = [disk[program] EXCEPT !.hex = assembled[program].text]
      /\ rows'[program] = "running" /\ assembled'[program] = assembled[program]
      /\ Typed' /\ Settled' /\ Remembered'
  <2> HIDE DEF s
  <2> QED
    BY <1>1, <1>2, <1>3, Stays
<1>5. disk'[program].hex = assembled[program].text
  BY <1>2, <1>4 DEF FixturesInv, Typed, Files
<1>6. Written'
  BY <1>1, <1>4, <1>5 DEF Written, goto
<1> QED
  BY <1>4, <1>6 DEF FixturesInv

LEMMA WriteDataHexInv == FixturesInv /\ WriteDataHex => FixturesInv'
<1> SUFFICES ASSUME FixturesInv, WriteDataHex PROVE FixturesInv'
  OBVIOUS
<1>1. stage = "data_hex" /\ write("data_hex", assembled[program].data) /\ goto("iss") /\ alike
      /\ dump' = dump /\ "iss" \in Stages /\ "data_hex" \in FILES
  BY DEF WriteDataHex, data_image, Stages, FILES
<1>2. program \in Programs /\ dump' \in Dumps
  BY <1>1, ProgramLeft DEF FixturesInv, Typed
<1>3. Fits("data_hex", assembled[program].data)
  BY <1>2 DEF Fits, FixturesInv, Typed, Images
<1>4. /\ program' = program
      /\ disk'[program] = [disk[program] EXCEPT !.data_hex = assembled[program].data]
      /\ rows'[program] = "running" /\ assembled'[program] = assembled[program]
      /\ Typed' /\ Settled' /\ Remembered'
  BY <1>1, <1>2, <1>3, Stays
<1>5. disk'[program].data_hex = assembled[program].data /\ disk'[program].hex = disk[program].hex
  BY <1>2, <1>4 DEF FixturesInv, Typed, Files
<1>6. Written'
  BY <1>1, <1>4, <1>5 DEF FixturesInv, Written, goto
<1> QED
  BY <1>4, <1>6 DEF FixturesInv

\* Only .hex and .data.hex matter to a reference run.
LEMMA SameRun ==
  ASSUME NEW f, NEW g, f.hex = g.hex, f.data_hex = g.data_hex
  PROVE  reference_run(f) = reference_run(g)
BY DEF reference_run, default_data

LEMMA RunIssInv == FixturesInv /\ RunIss => FixturesInv'
<1> SUFFICES ASSUME FixturesInv, RunIss PROVE FixturesInv'
  OBVIOUS
<1> DEFINE run  == reference_run(disk[program])
           code == ends(run.text, run.data)
<1>1. /\ stage = "iss" /\ write("trace", run) /\ dump' = [row |-> code, regs |-> run, dmem |-> run] /\ alike /\ UNCHANGED faults
      /\ IF code \in {"limit", "illegal"} THEN return(code) ELSE goto("regs")
      /\ "trace" \in FILES /\ "regs" \in Stages
  BY DEF RunIss, FILES, Stages
<1>2. program \in Programs /\ todo # {}
  BY <1>1, ProgramLeft DEF FixturesInv, Typed
<1>3. /\ disk[program].hex = assembled[program].text
      /\ assembled[program].data # NO_DATA => disk[program].data_hex = assembled[program].data
      /\ rows[program] = "running"
  BY <1>1 DEF FixturesInv, Written
<1>4. run \in Executions /\ code \in {"ebreak", "limit", "illegal"}
  BY <1>2, <1>3, HexWritten, ReferenceRun DEF FixturesInv
<1>d. dump' \in Dumps /\ dump'.row = code /\ dump'.regs = run /\ dump'.dmem = run
  <2>1. dump' = [row |-> code, regs |-> run, dmem |-> run]
    BY <1>1
  <2>2. code \in Good \cup Bad
    BY <1>4 DEF Good, Bad
  <2> HIDE DEF run, code
  <2> QED
    BY <1>4, <2>1, <2>2 DEF Dumps
<1> HIDE DEF run, code
<1>5. Fits("trace", run)
  BY <1>4 DEF Fits
<1>6. /\ disk' \in [Programs -> Files]
      /\ \A p \in Programs : p # program => disk'[p] = disk[p]
      /\ disk'[program] = [disk[program] EXCEPT !.trace = run]
  BY <1>1, <1>2, <1>5, WriteOne DEF FixturesInv
<1>7. /\ disk'[program].trace = run /\ disk'[program].hex = disk[program].hex
      /\ disk'[program].data_hex = disk[program].data_hex
  BY <1>2, <1>6 DEF FixturesInv, Typed, Files
<1>8. reference_run(disk'[program]) = run
  BY <1>7, SameRun DEF run
<1>9. CASE code \in {"limit", "illegal"}
  <2>1. return(code) /\ UNCHANGED chosen
    BY <1>1, <1>9 DEF alike
  <2>2. /\ rows' \in [Programs -> Rows]
        /\ rows'[program] = code
        /\ \A p \in Programs : p # program => rows'[p] = rows[p]
        /\ todo' \subseteq Programs /\ failed' \in BOOLEAN
        /\ stage' \in {"idle", "assemble"} /\ (stage' = "idle" <=> todo' = {})
        /\ Remembered'
    BY <1>1, <1>4, <2>1, Returned
  <2>3. Typed'
    BY <1>1, <1>d, <1>6, <2>2 DEF FixturesInv, Typed, Stages, Programs, alike
  <2>4. Written'
    BY <2>2 DEF Written
  <2>5. Settled'
    <3>1. \A p \in Programs : p # program => settled(p)'
      BY <1>1, <1>6, <2>2 DEF FixturesInv, Settled, settled, alike
    <3>2. ASSUME NEW p \in Programs, p = program PROVE settled(p)'
      <4>1. rows'[p] = code /\ code \in {"limit", "illegal"}
        BY <2>2, <3>2, <1>9
      <4>2. /\ disk'[p].hex = assembled'[p].text /\ reference_run(disk'[p]) = run
            /\ disk'[p].trace = run
        BY <1>1, <1>3, <1>7, <1>8, <3>2 DEF alike
      <4> QED
        BY <4>1, <4>2 DEF settled, code
    <3> QED
      BY <3>1, <3>2 DEF Settled, Programs
  <2> QED
    BY <2>2, <2>3, <2>4, <2>5 DEF FixturesInv
<1>10. CASE code = "ebreak"
  <2>1. goto("regs") /\ dump' \in Dumps
    BY <1>1, <1>d, <1>10
  <2>2. /\ program' = program
        /\ rows'[program] = "running" /\ assembled'[program] = assembled[program]
        /\ Typed' /\ Settled' /\ Remembered'
    BY <1>1, <1>5, <2>1, Stays
  <2>3. printed_by(dump', run, run)
    BY <1>d, <1>10 DEF printed_by, Good, code
  <2>4. Written'
    BY <1>1, <1>3, <1>7, <1>8, <2>1, <2>2, <2>3 DEF Written, goto
  <2> QED
    BY <2>2, <2>4 DEF FixturesInv
<1> QED
  BY <1>4, <1>9, <1>10

LEMMA IssDiesInv == FixturesInv /\ IssDies => FixturesInv'
<1> SUFFICES ASSUME FixturesInv, IssDies PROVE FixturesInv'
  OBVIOUS
<1> DEFINE run == reference_run(disk[program])
           old == disk[program].trace
<1>1. PICK death \in deaths(run, old) : write("trace", death.trace) /\ dump' = death.dump
  BY DEF IssDies
<1>2. stage = "iss" /\ goto("regs") /\ alike /\ "trace" \in FILES /\ "regs" \in Stages
  BY DEF IssDies, FILES, Stages
<1>3. program \in Programs /\ NO_DUMP \in Executions
  BY <1>2, ProgramLeft DEF FixturesInv, Typed, NO_DUMP, Executions, Texts, Images
<1>4. old \in Executions \cup {MISSING, EMPTY, TORN}
  BY <1>3 DEF FixturesInv, Typed, Files
<1>5. disk[program].hex = assembled[program].text
  BY <1>2 DEF FixturesInv, Written
<1>6. run \in Executions
  BY <1>3, <1>5, HexWritten, ReferenceRun DEF FixturesInv
<1> HIDE DEF run, old
<1>7. /\ Fits("trace", death.trace) /\ death.dump \in Dumps
      /\ \/ death.dump.row = "died" /\ death.dump.regs = NO_DUMP
         \/ /\ death.dump.row = "died_late" /\ death.dump.regs = run
            /\ death.trace = run
  <2>1. ASSUME NEW t, NEW r \in {"died", "died_late"}, NEW x \in Executions,
               NEW d \in Executions \cup {TORN}, death = remains(t, r, x, d)
        PROVE  /\ death.trace = t /\ death.dump \in Dumps
               /\ death.dump.row = r /\ death.dump.regs = x
    BY <2>1 DEF remains, Dumps, Good
  <2>2. Fits("trace", old) /\ Fits("trace", run) /\ Fits("trace", TORN)
    BY <1>2, <1>4, <1>6 DEF Fits
  <2>3. CASE death = remains(old, "died", NO_DUMP, NO_DUMP)
    BY <1>3, <2>1, <2>2, <2>3
  <2>4. CASE death = remains(TORN, "died", NO_DUMP, NO_DUMP)
    BY <1>3, <2>1, <2>2, <2>4
  <2>5. CASE death = remains(run, "died", NO_DUMP, NO_DUMP)
    BY <1>3, <2>1, <2>2, <2>5
  <2>6. CASE death = remains(run, "died_late", run, TORN)
    BY <1>6, <2>1, <2>2, <2>6
  <2>7. CASE death = remains(run, "died_late", run, run)
    BY <1>6, <2>1, <2>2, <2>7
  <2> QED
    BY <1>1, <2>3, <2>4, <2>5, <2>6, <2>7 DEF deaths
<1>8. /\ program' = program
      /\ disk'[program] = [disk[program] EXCEPT !.trace = death.trace]
      /\ rows'[program] = "running" /\ assembled'[program] = assembled[program]
      /\ Typed' /\ Settled' /\ Remembered'
  BY <1>1, <1>2, <1>7, Stays
<1>9. /\ disk'[program].hex = disk[program].hex
      /\ disk'[program].data_hex = disk[program].data_hex
      /\ disk'[program].trace = death.trace
  BY <1>3, <1>8 DEF FixturesInv, Typed, Files
<1>10. reference_run(disk'[program]) = run
  BY <1>9, SameRun DEF run
<1>11. printed_by(dump', run, death.trace)
  BY <1>1, <1>7 DEF printed_by, Good
<1>12. Written'
  BY <1>2, <1>5, <1>8, <1>9, <1>10, <1>11 DEF FixturesInv, Written, goto
<1> QED
  BY <1>8, <1>12 DEF FixturesInv

LEMMA WriteRegsInv == FixturesInv /\ WriteRegs => FixturesInv'
<1> SUFFICES ASSUME FixturesInv, WriteRegs PROVE FixturesInv'
  OBVIOUS
<1>1. /\ stage = "regs" /\ write("regs", dump.regs) /\ goto("dmem") /\ alike /\ dump' = dump
      /\ "regs" \in FILES /\ "dmem" \in Stages
  BY DEF WriteRegs, printed, FILES, Stages
<1>2. program \in Programs /\ dump \in Dumps
  BY <1>1, ProgramLeft DEF FixturesInv, Typed
<1>3. Fits("regs", dump.regs)
  BY <1>2 DEF Fits, Dumps
<1>4. /\ program' = program
      /\ disk'[program] = [disk[program] EXCEPT !.regs = dump.regs]
      /\ rows'[program] = "running" /\ assembled'[program] = assembled[program]
      /\ Typed' /\ Settled' /\ Remembered'
  BY <1>1, <1>2, <1>3, Stays
<1>5. /\ disk'[program].hex = disk[program].hex /\ disk'[program].data_hex = disk[program].data_hex
      /\ disk'[program].trace = disk[program].trace /\ disk'[program].regs = dump.regs
  BY <1>2, <1>4 DEF FixturesInv, Typed, Files
<1>6. reference_run(disk'[program]) = reference_run(disk[program])
  BY <1>5, SameRun
<1>7. Written'
  BY <1>1, <1>4, <1>5, <1>6 DEF FixturesInv, Written, goto
<1> QED
  BY <1>4, <1>7 DEF FixturesInv

LEMMA WriteDmemInv == FixturesInv /\ WriteDmem => FixturesInv'
<1> SUFFICES ASSUME FixturesInv, WriteDmem PROVE FixturesInv'
  OBVIOUS
<1> DEFINE row == dump.row
<1>1. /\ stage = "dmem" /\ write("dmem", dump.dmem) /\ return(row) /\ alike /\ dump' = dump
      /\ "dmem" \in FILES
  BY DEF WriteDmem, printed, FILES
<1>2. program \in Programs /\ dump \in Dumps /\ todo # {}
  BY <1>1, ProgramLeft DEF FixturesInv, Typed
<1>3. Fits("dmem", dump.dmem)
  BY <1>2 DEF Fits, Dumps
<1>4. /\ disk' \in [Programs -> Files]
      /\ \A p \in Programs : p # program => disk'[p] = disk[p]
      /\ disk'[program] = [disk[program] EXCEPT !.dmem = dump.dmem]
  BY <1>1, <1>2, <1>3, WriteOne DEF FixturesInv
<1>5. /\ disk'[program].hex = disk[program].hex /\ disk'[program].data_hex = disk[program].data_hex
      /\ disk'[program].trace = disk[program].trace /\ disk'[program].regs = disk[program].regs
      /\ disk'[program].dmem = dump.dmem
  BY <1>2, <1>4 DEF FixturesInv, Typed, Files
<1>6. reference_run(disk'[program]) = reference_run(disk[program])
  BY <1>5, SameRun
<1>7. /\ rows' \in [Programs -> Rows]
      /\ rows'[program] = row
      /\ \A p \in Programs : p # program => rows'[p] = rows[p]
      /\ todo' \subseteq Programs /\ failed' \in BOOLEAN
      /\ stage' \in {"idle", "assemble"} /\ (stage' = "idle" <=> todo' = {})
      /\ Remembered'
  <2>1. row \in {"ebreak", "died", "died_late"}
    BY <1>1 DEF FixturesInv, Written, printed_by, Good
  <2> HIDE DEF row
  <2> QED
    BY <1>1, <2>1, Returned DEF alike
<1>8. Typed'
  BY <1>1, <1>2, <1>4, <1>7 DEF FixturesInv, Typed, Stages, Programs, alike
<1>9. Written'
  BY <1>7 DEF Written
<1>10. Settled'
  <2>1. \A p \in Programs : p # program => settled(p)'
    BY <1>1, <1>4, <1>7 DEF FixturesInv, Settled, settled, alike
  <2>2. ASSUME NEW p \in Programs, p = program PROVE settled(p)'
    <3>1. /\ disk[program].hex = assembled[program].text
          /\ assembled[program].data # NO_DATA => disk[program].data_hex = assembled[program].data
          /\ printed_by(dump, reference_run(disk[program]), disk[program].trace)
          /\ disk[program].regs = dump.regs
      BY <1>1 DEF FixturesInv, Written
    <3>2. row \in Good
      BY <3>1 DEF printed_by
    <3>3. CASE row = "ebreak"
      BY <1>1, <1>5, <1>6, <1>7, <2>2, <3>1, <3>3 DEF settled, alike, printed_by
    <3>4. CASE row = "died"
      BY <1>1, <1>5, <1>6, <1>7, <2>2, <3>1, <3>4 DEF settled, alike, printed_by
    <3>5. CASE row = "died_late"
      BY <1>1, <1>5, <1>6, <1>7, <2>2, <3>1, <3>5 DEF settled, alike, printed_by
    <3> QED
      BY <3>2, <3>3, <3>4, <3>5 DEF Good
  <2> QED
    BY <2>1, <2>2 DEF Settled, Programs
<1> QED
  BY <1>7, <1>8, <1>9, <1>10 DEF FixturesInv

LEMMA KilledInv == FixturesInv /\ Killed => FixturesInv'
<1> SUFFICES ASSUME FixturesInv, Killed PROVE FixturesInv'
  OBVIOUS
<1>1. /\ stage # "idle" /\ stage' = "idle" /\ todo' = {} /\ status' = "killed"
      /\ rows' = [rows EXCEPT ![program] =
                    IF stage = "assemble" THEN rows[program] ELSE "killed"]
      /\ UNCHANGED <<dump, failed>> /\ alike
  BY DEF Killed
<1>2. program \in Programs /\ todo # {}
  BY <1>1, ProgramLeft DEF FixturesInv, Typed
<1>3. /\ disk' \in [Programs -> Files]
      /\ \A p \in Programs : p # program => disk'[p] = disk[p]
      /\ stage = "assemble" => disk' = disk
  <2> DEFINE file == IF stage = "iss" THEN "trace" ELSE stage
  <2>1. UNCHANGED disk \/ (file \in FILES /\ write(file, EMPTY))
    BY DEF Killed
  <2>2. stage = "assemble" => file \notin FILES
    BY DEF FILES
  <2> HIDE DEF file
  <2>3. CASE UNCHANGED disk
    BY <2>3 DEF FixturesInv, Typed, Programs
  <2>4. CASE file \in FILES /\ write(file, EMPTY)
    <3>1. Fits(file, EMPTY)
      BY <2>4 DEF Fits
    <3> QED
      BY <1>2, <2>2, <2>4, <3>1, WriteOne DEF FixturesInv
  <2> QED
    BY <2>1, <2>3, <2>4
<1>4. /\ rows' \in [Programs -> Rows]
      /\ \A p \in Programs : p # program => rows'[p] = rows[p]
      /\ stage = "assemble" => rows'[program] = rows[program]
      /\ stage # "assemble" => rows'[program] = "killed"
  BY <1>1, <1>2 DEF FixturesInv, Typed, Rows, Bad
<1>5. Typed'
  BY <1>1, <1>3, <1>4 DEF FixturesInv, Typed, Stages, Programs, alike
<1>6. Written'
  BY <1>1 DEF Written
<1>7. Settled'
  <2>1. \A p \in Programs : p # program => settled(p)'
    BY <1>1, <1>3, <1>4 DEF FixturesInv, Settled, settled, alike
  <2>2. ASSUME NEW p \in Programs, p = program PROVE settled(p)'
    <3>1. CASE stage = "assemble"
      BY <1>1, <1>3, <1>4, <2>2, <3>1 DEF FixturesInv, Settled, settled, alike
    <3>2. CASE stage # "assemble"
      BY <1>4, <2>2, <3>2 DEF settled
    <3> QED
      BY <3>1, <3>2
  <2> QED
    BY <2>1, <2>2 DEF Settled, Programs
<1>8. Remembered'
  BY <1>1 DEF Remembered
<1> QED
  BY <1>5, <1>6, <1>7, <1>8 DEF FixturesInv

LEMMA EditInv == FixturesInv /\ Edit => FixturesInv'
<1> SUFFICES ASSUME FixturesInv, Edit PROVE FixturesInv'
  OBVIOUS
<1>1. UNCHANGED <<disk, stage, todo, assembled, dump, chosen, rows, failed, status>>
  BY DEF Edit, genVars
<1>2. source' \in [Programs -> SOURCES]
  BY DEF FixturesInv, Typed, Edit
<1>3. Typed'
  BY <1>1, <1>2 DEF FixturesInv, Typed, Programs, Stages
<1>4. Written'
  BY <1>1 DEF FixturesInv, Written, program
<1>5. Settled' /\ Remembered'
  BY <1>1 DEF FixturesInv, Settled, settled, Remembered, Programs
<1> QED
  BY <1>3, <1>4, <1>5 DEF FixturesInv

LEMMA StutterInv == FixturesInv /\ UNCHANGED fixVars => FixturesInv'
<1> SUFFICES ASSUME FixturesInv, UNCHANGED fixVars PROVE FixturesInv'
  OBVIOUS
<1>1. UNCHANGED <<source, disk, stage, todo, assembled, dump, chosen, rows, failed, status>>
  BY DEF fixVars, genVars
<1>2. Typed'
  BY <1>1 DEF FixturesInv, Typed, Programs, Stages
<1>3. Written'
  BY <1>1 DEF FixturesInv, Written, program
<1>4. Settled' /\ Remembered'
  BY <1>1 DEF FixturesInv, Settled, settled, Remembered, Programs
<1> QED
  BY <1>2, <1>3, <1>4 DEF FixturesInv

\* FixturesInv is an invariant.
THEOREM FixturesInvariant == Spec => []FixturesInv
<1>1. Init => FixturesInv
  BY InitInv
<1>2. FixturesInv /\ [Next]_fixVars => FixturesInv'
  BY StartInv, AssembleInv, WriteHexInv, WriteDataHexInv, RunIssInv, IssDiesInv,
     WriteRegsInv, WriteDmemInv, KilledInv, EditInv, StutterInv DEF Next
<1> QED
  BY <1>1, <1>2, PTL DEF Spec

----------------------------------------------------------------------------
(* The theorems.                                                           *)

\* Whatever was edited, failed, died or was interrupted before, and however
\* often: fixtures reported good pass on a correct machine.
THEOREM FixturesPass == Spec => []GeneratedFixturesPass
BY FixturesInvariant, InvGenerated, PTL

\* The fixtures of a program whose reference run failed, or died before it
\* printed its registers, never pass.
THEOREM FailuresNeverPass == Spec => []FailedProgramsNeverPass
BY FixturesInvariant, InvFailed, PTL

\* Fixtures reported good come from the source that was assembled.
THEOREM FixturesFollowSources == Spec => []FixturesAreTheSources
BY FixturesInvariant, InvSources, PTL

\* Exit status 0 means that every program chosen ran to its ebreak or its
\* iss.py died, and what a death left fails its test or is of one execution.
THEOREM StatusHidesOnlyDeaths == Spec => []SuccessHidesOnlyDeaths
BY FixturesInvariant, InvReported, PTL
===============================================================================
