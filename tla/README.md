# A verification development of the RV32I pipelined CPU

The repository is a five-stage RV32I pipeline in Verilog (`src/rtl/`), a
reference model of the same instruction set in Python (`src/tools/iss.py`), an
assembler (`src/tools/asm.py`), testbenches (`src/tb/`) and a script that runs
both machines and compares their commit traces (`src/tools/run_tests.py`).  The
tests execute some seventy hand-written programs.  This project asks of the
same design what those tests cannot: whether *every* short program, with the
interrupt line moving at *every* cycle, computes what the reference computes;
whether the machine can stop; whether every cycle the CPI figures count is
accounted for; whether three independent accounts of the instruction set,
the decoder, the reference and the encoder, agree on every word.  It answers with TLC on small words and memories, and proves the
central invariants with TLAPS for every width, size and program.

## 1. The system: inventory

| part | state it keeps | operations | correct when |
|---|---|---|---|
| `cpu_top.v`, with `pc`, `imem`, `if_id`, `id_ex`, `ex_mem`, `mem_wb`, `regfile`, `dmem` | PC, four pipeline registers, imem's output register, register file, data memory and its load latch, `done_r` | one clock edge: fetch, decode, execute, access memory, write back, redirect, trap, halt | bubbles, stalls, flushes and predictions are invisible: the machine executes one instruction after another as `iss.py` does |
| `hazard_unit.v`, `forward_unit.v` | none | stall, flush, bypass selects, for `FORWARDING` 1 and 0 | an operand in EX is the newest older value; no stall lasts longer than the hazard; no two penalties add up |
| `control.v`, `alu_ctrl.v`, `imm_gen.v` | none | instruction word to control word, ALU operation, immediate | agrees with `iss.py`'s `decode`; an illegal word has no effect |
| `alu.v`, `branch_unit.v` | none | arithmetic, branch conditions | agree with `iss.py` |
| `csr.v` | mstatus.MIE/MPIE, mie.MEIE, mtvec, mepc, mcause | read-modify-write, trap entry, mret, interrupt qualification | traps are precise; a level that stays high cannot starve the program |
| `bht.v` | 64 two-bit counters | look up in IF, update from EX | predictions cost or save cycles and change nothing else; what a branch is predicted follows what the branches at its entry last did |
| `perf_counters.v` | six 32-bit counters | count the pulses of `cpu_top` | every cycle is explained once; branches are counted once |
| `iss.py` | PC, registers, memories, CSRs, interrupt schedule, retired count | `step`, `run` | it is the definition |
| `tb_program.v`, `run_tests.py` | commit trace, interrupt level, ISR bookkeeping | drive `irq`, record the trace, compare with the reference's | a difference is reported exactly when the machines differ |
| `asm.py` | symbols, records of two passes | expand, encode | the words mean what the source says |
| `gen_control_table.py`, `gen_imm_vectors.py` | the vectors written so far | draw a word, encode it with `asm.py`, decode it with `iss.py`, write what the hardware must make of it | no assertion of the scripts fails; `control.v` and `imm_gen.v` pass on every vector |
| `gen_fixtures.py` | the `.hex`, `.data.hex`, `.trace`, `.regs`, `.dmem` committed beside each program; the rows and the exit status of a run | assemble, run the reference, write the files one after another | what a run reports good belongs together and passes; what failed does not pass |
| `test_tools.py`, unit and directed testbenches, `sim/`, `vivado/`, slides | none that outlives a run | stimuli, invocations of tools | not modelled |

How they interact: inside the CPU everything interacts through wires within
one clock cycle.  EX decides (traps, branches, `jalr`, `mret`, CSRs); ID may
redirect too (`jal`, predicted branches); the hazard unit arbitrates; `csr.v`
sees the outside world through the level `irq`.  Outside, the testbench drives
`irq` and writes one trace line per retirement; `run_tests.py` has `iss.py`
print the lines it should have written.  The generators work ahead of the tests:
their vectors and fixtures are committed, so a test may read files of different
runs, and of different versions of the source.

What is hard here is concurrency of a synchronous kind: five instructions are
in flight and any of stall, ID redirect, EX redirect, trap, `mret`, CSR write,
load latch, halt may coincide on one edge.  The hand-written tests hit the
coincidences their authors thought of.  Around the machine there is concurrency of a slower kind, runs of a
script that fail, die or are interrupted between two files.  `PROJECT.json` lists the hazards line
by line, each with the properties aimed at it.

## 2. The modules

```
Words -> Isa -> Control -> Datapath -> Pipeline -> Refinement -> TracePort
Isa -> Decode -> Arch -> ResetArch   (INSTANCEd by Refinement, Testbench, Reset)
TracePort -> Cosim -> MCCosim,  TracePort -> Testbench -> MCTestbench
Refinement -> MCPipeline,  Refinement -> Reset -> MCReset
Pipeline -> Perf -> MCPerf
Isa -> Encode -> Programs  (the programs of the MC modules above)
Control, Decode -> ControlTable;  ControlTable, BitWords -> Vectors -> MCVectors
Assembler -> MCAssembler,  Fixtures -> MCFixtures

Control -> ControlProofs;  Refinement, ControlProofs -> PipelineProofs
PipelineProofs -> RefinementProofs
Perf, Reset, RefinementProofs -> ComposedProofs
Cosim, Testbench, RefinementProofs -> TraceProofs
Vectors, ControlProofs -> VectorsProofs
Assembler -> AssemblerProofs,  Fixtures -> FixturesProofs
```

The CPU:

* `Words`: words of `XLEN` bits: truncation, sign, shifts, extension.
  The bitwise operations are constants with an assumption on their range.
* `Isa`: the fields of an instruction word, opcodes, CSR numbers, CSR state.
  An instruction is a record of its *raw* fields, since the hardware looks at
  raw fields (a `lui` has an `rs1` field), plus `imm`, the immediate as
  `imm_gen.v` would assemble it.
* `Control`: `control.v`, `alu_ctrl.v`, `imm_gen.v`'s multiplexer, and
  `cpu_top`'s `id_uses_rs1`/`id_uses_rs2`.  Decoding is written signal by signal.
* `Datapath`: `alu.v`, `branch_unit.v`, the lanes of `dmem.v`, the logic of
  `csr.v`, the counter of `bht.v`.
* `Pipeline`: the CPU.  Every `reg` is a variable or a field of one; every
  control wire is an operator with the wire's name; `clock(rst)` is one
  positive edge, one conjunct per clocked process.  `drive_irq` lets the
  environment change the interrupt level between edges.
* `Perf`: the performance counters next to a ledger of what cycles may cost, and
  next to the last four outcomes at each entry of the history table.
* `Reset`: the pipeline with `rst` asserted at any edge.

The reference and the comparison with it:

* `Decode`, `Arch`: `iss.py`'s `decode`, and its `step` as an abstract
  specification, one action per class of instruction, one for an interrupt, one
  for an illegal word.  `ResetArch` adds what a reset in mid-run promises.
* `Refinement`: the refinement mapping from `Pipeline` to `Arch`, and
  `OperandsAreArchitectural`.
* `TracePort`: the commit-trace port, as the fields of a trace line.
* `Cosim`: pipeline and reference side by side, the commit trace between them.
* `Testbench`: a test with interrupts, from the first cycle to the verdict:
  `tb_program.v` drives the level, writes the trace and measures where each
  interrupt fell; then `iss.py`, its steps those of `Arch`, replays the program
  with the measured schedule, and its lines are compared with the trace as they
  are printed.  The verdict is the whole one of `run_one`: no timeout, the final
  registers those of the committed `.regs` file (`tb_program.v` 360-373, which
  `+NOTRACE` does not switch off), exit code 0 of the reference, equal traces.
  `REGS_FILES` is what that file may hold; it was printed by `iss.py` for a
  schedule of its own, so it need not be what this run ends with.

The tools:

* `Assembler`: the two passes of `asm.py` over sources made of abstract lines
  (label, mnemonic or directive, symbol plus constant).
* `BitWords`: an instruction word as the set of its 1 bits; the encoders of
  `asm.py`, the slices of `imm_gen.v` and the masks and shifts of `iss.py` on it,
  each written as its source writes it.
* `ControlTable`: the truth table of `gen_control_table.py`, the fourth account
  of the decoder.
* `Vectors`: both vector generators, from the draw of a stimulus to the line
  of the file, and the testbenches that read it.  The random generator may return
  any number of `REGS`, `SAMPLES` and `SWEEP`.  A vector depends on no other, so
  the latest is the only one kept.
* `Fixtures`: `gen_fixtures.py` over any number of its runs: each file each
  tool opens, in the order of the code; tools that fail, die with the file open or
  are killed with the script; authors who change a source meanwhile; and the
  verdict `run_tests.py` would then give.
* `Encode`, `Programs`: the encoders of `asm.py` on fields, and the programs TLC runs.

`MCPipeline`, `MCCosim`, `MCPerf`, `MCReset`, `MCTestbench`, `MCAssembler`,
`MCVectors` and `MCFixtures` are what the configurations instantiate; the eight modules
whose names end in `Proofs` hold the theorems (`ComposedProofs` those of the resets and
the counters, `TraceProofs` those of the co-simulation and of the test flow).

Choices a reader should know when comparing with the source:

* A register that copies a field of the instruction travelling with it
  (`rs1_addr`, `rs2_addr`, `rd_addr`, `funct3`, `csr_addr`) is read from that
  instruction.  `id_ex` keeps the whole control word; the hardware drops `jal`
  and the immediate select at ID, and nothing below reads them except
  the ledger of `Perf`.
* `Init` is the state in which `tb_program.v` releases reset: registers and
  memories zeroed or loaded by the testbench, three reset cycles behind it.
  The latch of `dmem` has no reset; it starts with an arbitrary `LATCH_INIT`.
* `irq` is a free level here.  `tb_program.v` raises it at three cycles and
  drops it when the trap is taken; that is one of the behaviours allowed.
* `Arch` deviates from `iss.py` in two places, both named in its header.  The
  interrupt may come at any boundary where it is enabled: `iss.py` is *told* the
  boundaries, and `run_tests.py` tells it those the hardware chose.  And an
  illegal word is skipped without retiring, the rule of `control.v`, where
  `iss.py` ends the run with exit code 3.
* `Testbench` compares each line when the reference prints it, where
  `run_tests.py` reads both files at the end; an error of the assembler ends
  everything, so what it had built by then is not looked at again.
* In `Fixtures` an image is a name and an execution is the pair of images it
  started from, so different executions are taken to leave different traces and
  registers.  What an execution does is the matter of `Arch`; here it is how it ends.
  The hardware goes on behind an illegal instruction where the reference stops; whether it
  then finds an `ebreak` is left open, in the hardware's favour.
* Mutated definitions (each introduced by `mutant:`) stand before the
  definition they mutate.  No specification uses them; they show that a
  property can fail.

## 3. Properties and runs

The instances of the CPU use `XLEN = 8` (a byte lane is two bits, a half four), four
registers, two data words, two history counters, and 8 or 16 instruction words.
`MEIE_BIT` is 6, since bit 11 does not exist in eight bits.  Eight bits are
enough for every interaction the pipeline has, because its control never looks
at data except for zero tests, comparisons, the low address bits and the CSR
bits 3 and 7; they make carries, sign changes and address wrap-around happen
within a few instructions.  Two counters and eight words make branches alias.
Register 0 and three others give every pattern of two producers and two sources.

Programs are *all* sequences over a pool, not samples: any bug that needs at
most three or four particular instructions in a row, from an empty pipeline or
round a loop, is in the set.  The pools (`Programs`) hold words whose raw fields
look like sources and are not, loads to `x0`, unaligned and sub-word accesses, illegal words;
branches and jumps both ways, so that most programs loop; `ecall`, `mret`, `ebreak` and CSR
writes to mstatus and mepc.

| run | instance | asks |
|---|---|---|
| `pipeline` | all 10^4 programs of data words and 9^4 of control words; 8^3 programs between a prologue that enables interrupts and a handler that returns, 9^2 with each of three handlers, one of which nests; the interrupt line free in every cycle; forwarding | `EbreakShadow`, `OperandsAreArchitectural`, `ImplementsArchitecture`, and beside the reference `TraceMatchesReference`, `InFlightIsExpected` |
| `pipeline_nofwd` | the data and control programs, `FORWARDING = 0` | `OperandsAreArchitectural`, `ImplementsArchitecture`, and `BubblesBounded`: no penalty is longer than two cycles |
| `pipeline_live` | 9^2 trap programs with each handler, under fairness | `AlwaysExecuting`, `EbreakHalts` |
| `perf` | the same and 9^3 control programs, 30 cycles | `CyclesAccountedFor`, `BranchesCountedOnce`, `PredictionsSettle`; all also hold with `FORWARDING` or `BHT_ENABLE` set to `FALSE` in `perf.cfg`, the baseline of the CPI comparison |
| `reset` | one-word trap programs and 7^3 programs over loads, stores and jumps; reset asserted at any two edges, consecutive ones included | `ImplementsRestart` |
| `testbench` | 4^2 programs with each of two handlers, interrupts raised at up to three cycles of the run, `.regs` files of a run without an interrupt and of one with one | `AlignedTracesAgree`, `EveryInterruptReported`, `HandlersAreEntered`, `RunEnds` |
| `assembler` | all sources of up to four lines out of seventeen | `NothingOverwritten`, `LabelsNameWhatFollows`, `PairsRebuildTheirValue` |
| `vectors` | every line either generator can write from three registers, ten immediates and words of every opcode and `funct3` | `DecodersAgree`, `ControlVectorsPass`, `ImmVectorsPass`, `NoAssertionFails`, `ImmediatesSurvive` |
| `fixtures` | two programs, any start among six sources, one edit, three runs, two faults | `GeneratedFixturesPass`, `FailedProgramsNeverPass`, `FixturesAreTheSources`, `SuccessHidesOnlyDeaths` |
| `claim_flushes`, `claim_alignment`, `claim_fixtures` | | three documented claims, each violated (section 5) |

`pipeline` leaves out states by the constraint `HandledInterrupts`: the line
rises only in programs with the trap prologue.  In the others `MIE` and `MEIE`
are never set, no instruction writing them being in those pools, so `irq` is not
looked at and the constraint drops copies of the same behaviour.

`ImplementsArchitecture` is `Arch`'s `Spec` under the mapping of
`Refinement`.  An instruction takes effect in its EX cycle: that is where a
trap squashes it, a branch is resolved, a CSR is written.  So the architectural
PC is the PC of the oldest instruction not past EX, and the architectural
registers and memory are the physical ones plus what MEM and WB are
about to write.  Each edge must then be one action of `Arch` or none.  It
implies that a stall or a redirect neither loses nor duplicates an instruction,
that wrong-path instructions do nothing, that traps are precise.

`ImplementsRestart` maps the pipeline with resets to `ResetArch`.  A reset
edge keeps the write that WB presents to the register file and the store that
MEM presents to the memory, and drops everything younger; so the registers and
the memory are those of the current instruction boundary or of the one before
it, never a mixture, and the restarted program executes nothing fetched earlier.

`AlignedTracesAgree` says that the measurement of `tb_program.v` works: whatever
MEM and WB held when the level was taken, the reference told the printed
positions executes the same program run, down to the same registers and memory,
also for interrupts that arrive while the handler runs and wait.  It does not
say that every such run passes, which is false: the test bench also compares the
final registers with the committed `.regs`, and a handler that counts its visits in a
register (as the first one of the instance does) ends with others when it is
entered more or less often than in the run that was committed.  `run_tests.py` 39-40
relies on the demo being "timing-independent by construction".  What the property
says is that this is all: a completed run passes exactly when the registers of the
replay are the committed ones, and the comparison of traces never fails it.
`EveryInterruptReported` says that no interrupt goes unreported, even one taken
in the cycle in which the entry of the one before it retires, and that the
reference drops none.

`HandlersAreEntered` is what both rest on, and what a reader who writes a new test
has to see to: the instruction one slot ahead of an interrupt is never the one at
mtvec, or it would retire and be measured in the place of the handler's entry.  It
holds of the two handlers here because a trap disables interrupts before the handler
is fetched (its mutant is a trap that does not) and because the handler does not
enable them with its first instruction.  A handler that does is the finding
`claim_alignment`.  Its second half says that only instructions are executed:
`iss.py` ends with exit code 3 where the hardware goes on.

The assembler's properties relate the two passes.  Pass one fixes sizes and
addresses with the symbols it has, pass two encodes with all of them:
`NothingOverwritten` (without `.org`, which may go back on purpose) says that
they agree on the number of words although `.equ` may change a constant in
between; `LabelsNameWhatFollows` that a branch reaches the first byte of what
its label stands before; `PairsRebuildTheirValue` that `lui` and `addi` give
back the address or constant they were split from.  The instance has 4-bit
fields and 16-byte memories, so that four lines overflow fields and memory and
make low halves negative.

`DecodersAgree` compares `control.v` with `iss.py`'s `decode` and
`gen_control_table.py`'s rows on every word drawn, also those the script passes
over.  The SYSTEM words with `funct3 = 0` are the delicate ones: `control.v`
looks at the `csr` field alone, `decode` at all bits, so an `ecall` with a
nonzero `rd` is one for the hardware and illegal for the reference.  The
property says that this is the *only* difference, and `ControlVectorsPass`
that the script's rejection of such words keeps it out of the vectors.
`ImmediatesSurvive` follows an operand from the source through `asm.py`, the word,
`control.v` and `imm_gen.v`.  Three register numbers, 0, all ones and alternating, and
ten numbers with alternating bits tell every bit of every field from its
neighbours; what the sampling leaves open the theorems of section 4 close.

`GeneratedFixturesPass` is what a commit of fixtures rests on: whatever earlier
versions, failed runs and killed runs left beside them, the files of a program
reported `ebreak` are of one execution, which the hardware repeats.
`FailedProgramsNeverPass` is its converse: `.hex` and `.trace` of a failing program
are new while `.regs` is old, and yet nothing passes that the reference did not
finish, or died over before it had printed a register.  `FixturesAreTheSources` carries a caveat found while writing it: a
source that loses its `.data` section keeps the `.data.hex` it had, since
nobody removes it, and both machines load it.  `SuccessHidesOnlyDeaths` says what exit status 0 is worth, which is less than the line
the script then prints, "OK -- N programs assembled and ran to ebreak" (184): line 121
asks for the exit codes 2 and 3 only, so an `iss.py` that dies with another one is no
failure, its row shows the code, and status and summary are those of success.  The
property does not pass over such programs: nothing but these deaths is hidden, the first of
several failures included, and a death leaves fixtures that fail their test or the trace
and the registers of one execution.  `IssDies` has it die before the trace is opened,
while it is written, before anything is printed, with part of the memory printed and at its
very end; that only part of the registers is printed cannot happen, since they fit into
the first block of the buffer of `stdout`.  Six sources suffice for a program whose
data decides whether it ends, one that never does, one that does not assemble; two
programs for a failure before and behind a success; three runs and two faults for
a good run after a failed or killed one after a good one.

`CyclesAccountedFor` is the invariant behind the CPI tables of DESIGN.md
(9.1, 11.1): until the `ebreak` leaves EX, cycles = retired instructions +
squashed or illegal slots + two cycles of fill + counted stalls + two per
EX redirect + one per ID redirect that was right.

`PredictionsSettle` is what makes the counter of `bht.v` a saturating two-bit one.  No result
depends on it, so no comparison of traces would miss a counter that wraps (its mutant).
After two equal outcomes at an entry the next branch there is predicted so, and after three
equal ones a single contrary one changes nothing.  The prediction was made at the fetch, two
or more cycles before the branch is in EX, by a counter that other branches of the entry may
have changed meanwhile.  `bht.v` 37-40 allows a lookup and an update of one entry in the same
cycle, "the lookup sees the old value", at the cost of "at most one extra mispredict"; the
property says that it costs none.

The counters' runs stop at `MAX_CYCLES = 30`, long enough for the prologue,
the program and a handler twice.  `testbench` has `MAX_CYCLES = 40` and
`MAX_INSNS = 40`, enough for three visits of the handler; programs that loop reach
both, which is the case `RunEnds` is about.  `perf`, `testbench`, `assembler`,
`vectors`, `fixtures` and the three claims
describe things that end and disable the deadlock check.  Everywhere else the
clock always ticks.

**Fairness.** `FairSpec_tb` adds `WF_tbVars(Next_tb)`: the simulator and the
Python process keep running until they are done.  `FairSpec` adds `WF_vars(Next)`: the clock does not stop.
Nothing is assumed of `irq`, of the program or of the handler; in
particular the line may stay high for ever.  `AlwaysExecuting` does not say that
the program ends, which no pipeline could promise.

## 4. What is proved

With TLAPS.  The CPU's theorems hold for every `XLEN` that is a multiple of 4,
every number of registers, memory and table size, program set, interrupt
behaviour, and both values of `FORWARDING` and `BHT_ENABLE`:

| theorem | statement |
|---|---|
| `TypeCorrect` | `Spec => []TypeOK` |
| `NothingBehindEbreak` | `Spec => []EbreakShadow` |
| `BubblesAreBounded` | `Spec => BubblesBounded` |
| `OperandsCorrect` | `Spec => []OperandsAreArchitectural` |
| `Refines` | `Spec => ImplementsArchitecture` |
| `ResetTypeCorrect` | `Spec_reset => []TypeOK` |
| `ResetOperandsCorrect` | `Spec_reset => [](EbreakShadow /\ OperandsAreArchitectural)` |
| `ResetRestarts` | `Spec_reset => ImplementsRestart` |
| `TracesAgree` | `Spec_cosim => []TraceMatchesReference` |
| `TraceInStep` | `Spec_cosim => []InFlightIsExpected` |
| `CyclesAreAccountedFor` | `Spec_perf => []CyclesAccountedFor` |
| `BranchesAreCountedOnce` | `Spec_perf => []BranchesCountedOnce` |
| `PredictionsAreSettled` | `Spec_perf => []PredictionsSettle` |
| `AlignedTests` | `Spec_tb /\ []HandlersAreEntered => []AlignedTracesAgree` |
| `InterruptsReported` | `Spec_tb /\ []HandlersAreEntered => []EveryInterruptReported` |

Those of the decoder and the encoders hold for every one of the 2^32 words, every
operand in range and, where the vector generators are concerned, whatever numbers they draw:

| theorem | statement |
|---|---|
| `DecodersAgreeOnEveryWord`, `VectorsDecodersAgree` | `control.v`, `decode` and the truth table agree but for the SYSTEM aliases |
| `ImmediatesAgreeOnEveryWord` | `imm_gen.v` with `control.v`'s selector computes the immediate `iss.py` computes |
| `ImmediatesSurviveEncoding` | in each format `imm_gen.v` and `iss.py` take out of a word what `asm.py` put in |
| `EncodedWordsDecode` | `iss.py` decodes a word of `asm.py` as the mnemonic it was written with |
| `ScriptsNeverAbort` | `Spec => []NoAssertionFails` |
| `ControlBenchPasses` | `Spec => []ControlVectorsPass` |
| `ImmBenchPasses` | `Spec => []ImmVectorsPass` |
| `OperandsReachTheDatapath` | `Spec => []ImmediatesSurvive` |

Those of the assembler hold for every width of the two immediates, every memory size and
every source, of any length, over any set of lines:

| theorem | statement |
|---|---|
| `SplitRebuilds` | `u32(hi20(v) * LO_SIZE + lo12(v)) = u32(v)` for every `v` |
| `WritesOnce` | `Spec => []NothingOverwritten` |
| `LabelsLand` | `Spec => []LabelsNameWhatFollows` |
| `PairsRebuild` | `Spec => []PairsRebuildTheirValue` |

Those of the fixture generator hold for any number of programs, sources, edits, runs and faults:

| theorem | statement |
|---|---|
| `FixturesPass` | `Spec => []GeneratedFixturesPass` |
| `FailuresNeverPass` | `Spec => []FailedProgramsNeverPass` |
| `FixturesFollowSources` | `Spec => []FixturesAreTheSources` |
| `StatusHidesOnlyDeaths` | `Spec => []SuccessHidesOnlyDeaths` |

The assumptions are the named ones of the modules: the width is a
multiple of 4, the powers of two below `2^XLEN` are words, the bitwise
operations return words, the sizes are positive, programs and initial memory
consist of words; for `Refines`, powers of two multiply by adding exponents
(`PowersAssumption`, about `2^XLEN`'s factors) and no program holds a SYSTEM word
with a nonzero `rd` or `rs1` that `control.v` alone takes for an `ecall`, `ebreak` or
`mret` (`EncodedAssumption`; on such a word the two really differ, see
`DecodersAgreeOnEveryWord`, and `asm.py` never emits one); in a test, the line can be
driven to both levels (`LevelsAssumption`) and the reference may take as many steps as
the hardware has cycles (`LimitAssumption`, both 200000 unless `--maxcyc` says
otherwise) and there is a `.regs` file (`RegsAssumption`); a text of zeros is illegal; nothing written to a file looks like a
missing or an empty one, and no torn trace like a whole one; the offsets written in source lines are numbers
(`LinesAssumption`).  TLC evaluates all of them in the runs.

`SplitRebuilds` follows from the uniqueness of quotient and remainder, by cases
on the sign of the low half and on whether the high half wraps; it needs only that
the lower field has an even size.

`TypeOK` is stated for the proofs, every one of which starts from it, and checked by no run:
it would hold of many a wrong pipeline.  It needs closure lemmas about `Datapath` (the ALU, the lanes, the
CSR logic and the counter return words or states) and is otherwise inductive.

`EbreakShadow` is not inductive by itself: it needs to know that a slot which
carries the `ebreak` flag is valid, and that the flags of a slot are those
decoded from its instruction.  `SlotsCoherent` says so, and says the same of
`reg_we`, `mem_re`, `wb_sel`: an empty slot writes nothing, a load selects
memory data.

`OperandsAreArchitectural` needs what the interlock has promised
*before*: an instruction in EX reads no register whose load is in MEM, nor,
without forwarding, any register written by MEM.  That is `Interlocked`, true of
an instruction entering EX because `stall` was false in ID.  And it needs the
values read in ID to be those of the register file, or stale exactly where a
bypass will replace them: `OperandInv` relates `rs1_val`/`rs2_val` to the
register file, the write in WB and the write in MEM.  The step then is a case
analysis on where the newest older writer is.

`Refines` says of every program what the runs `pipeline` and `pipeline_nofwd` say
of those of their pools.  Its invariant `RefInv` adds to `OperandInv`, `Decoded`
and `Followed`:
`Fetched`, a slot holds the word the program has at its PC; `InOrder`, two
neighbouring slots are consecutive or the younger is the target the older jumped to
from ID, and behind an `ebreak` the fetch runs straight on; `Accesses`, the CSRs
that hold addresses hold aligned ones, only instructions predict, store or load.
The step has three cases.  A frozen machine and an edge with no instruction in EX
(a stall, a flush, the fill) change nothing under the mapping: what MEM and WB have
pending moves into the memory and the registers, and `abs_pc` stays on the oldest
instruction behind EX.  A trap is `Interrupt` or `Ecall`.  Otherwise the instruction
in EX takes the action of `Arch` for its opcode: its operands are the architectural
ones, `control.v` gives it the effects of the mnemonic `decode` finds, `alu.v`, the
lanes of `dmem.v` and the CSR logic compute what `iss.py` computes, and the next
instruction to reach EX is the one at the new `abs_pc`, whatever was predicted.

`CyclesAccountedFor` counts the slots and bubbles still in the machine, and with
`FrontInv` it is inductive: control words are those of their instruction
(`Decoded`), and behind an instruction that has just left ID stands the one fetched
next, or the bubble its redirect left (`Followed`).  One edge is two balances.
`BackEndBalance`: of the instructions past EX one may retire, and the one in EX
joins them or is dropped.  `FrontEndBalance`: each bubble that enters is a stall's
or has a redirect to pay for it; the delicate case is an EX redirect that overtakes
one of ID, which has paid for one of the two bubbles already.
`BranchesCountedOnce` is the same for the branches between EX and WB.

`PredictionsSettle` needs two facts.  `Tracked`: what the counter of an entry owes the four
outcomes recorded there, from `CounterTracks`, the step of a counter.
`PredictionsCurrent`: the prediction in IF/ID and in EX is the one its counter would make
*now*.  It is inductive because an update turns a counter from one direction to the other only
when the branch had been predicted wrong (`OnlyRedirectsTurn`), and then the redirect empties
the two slots that hold predictions.

`ResetRestarts` shows that an edge with `rst` is `ResetArch`'s `Restart`.  Its invariant
`ResetInv` adds two facts to `RefInv`.  `OneWrite`: a store in MEM writes no register, so a
reset loses one effect or the other, never half an instruction.  `FoundByLast`: while an
instruction is in MEM, the state before it is the register file with WB's write and the
memory as it stands; the reset edge keeps just that, and MEM's store if there is one.  `ResetKeepsRefInv` shows that
nothing fetched before survives in a pipeline register; from there `RefInv` carries on.

The co-simulation's queue never has to be reasoned about line by line: the reference
runs as the abstract machine runs, when an instruction leaves EX, so the lines it has printed
and the hardware has not written are those of MEM and WB.  `CosimInv` is `RefInv` with that
sentence, `expected = in_flight`.  It gives the next line of the queue to the instruction in
WB; that its values are the ones `commit` writes is `RefInv` again.

The two theorems on the test flow are about an execution that is over when the reference
starts, so their invariant `TestInv` keeps it as a history: there is a function `H` on
`0 .. n`, `n` at most the number of cycles, that begins with the reset state, ends with the
state the hardware shows, and goes from each boundary to the next by one step of `iss.py`, an
interrupt, an `ecall` or an instruction whose line is the one the trace holds (`Story`).
`ToldEdge` adds a step at every edge at which `RefInv` has one.  The steps are functions of a
state, `after` and `trapped`; `AbsRetires`, `AbsTraps`, `IssRetires` and `IssTraps` show that
the actions of `Arch` compute them, for the mapped pipeline and for the variables of `iss.py`
alike.  The difficulty is the schedule.  `iss.py` knows a boundary only by the number of
lines before it, and several boundaries may have the same number, since traps print nothing.
`Story` says which of them a pulse belongs to: the first, where `iss.py` takes it.  No
interrupt comes at a later one, for every trap disables interrupts and only an instruction
with a line enables them again.  And the testbench knows the number only later, when the entry's line has come to WB;
`Armed` says where the entry is until then, as yet to be executed, in MEM or in WB, and
`PulseEdge` that the number it will read, `entry_index`, is from the edge of the trap on the
number of lines at that edge, those in MEM and WB included.  This is the step that needs
`HandlersAreEntered`: with another instruction at mtvec in MEM, the number would be one
less.  Once the simulation has ended, `Replaying` follows: after `k` steps the reference is
at `H[k]`, with the pulses that lie ahead of `H[k]`.

`EncodedWordsDecode` and `ImmediatesSurviveEncoding` are round trips: every field that
`encode` composes is taken out of the word again by `bits` (quotients and remainders of sums
of disjoint fields), and for the immediates put together by the sign bit.  The vector
theorems then hold of words that were never sampled: a script that assembles an
instruction gets it back from both decoders.

The assembler's theorems rest on `AsmInv`: `Typed`, and, as long as no error is reported,
`Consistent`.  `OfLines` and `Named`: every record is that of a line, every symbol a
label or the name of an `.equ`.  `Laid`: records lie one behind the other, behind what has
been emitted, and without `.space` and `.align` leave no gap.  `Current`: if no name is
given a value twice (`stable`), expanding a line with *all* symbols gives the record that
pass one made with the symbols it had by then, since `li` demands a defined operand
and every symbol keeps its value.  `Traced`: every word in the image is the one its line expands to, encoded at
its address.  `Kept`: an instruction has its record still, or all its words are in
the image.  `Blank` and `Emptied` fix the two ends: pass one leaves the image alone, and
nothing is left when pass two is done.

The fixture theorems rest on `FixturesInv`, four conjuncts: `Typed`; `Written`,
what the run in progress has so far written of its program; `Settled`, what the last
run has left of a program it is done with; `Remembered`, that the failure flag keeps
every failure among the programs done.  `Settled` tells the two kinds of death apart.  An edit disturbs none of them since
the properties speak of the source that was *read*.

Left to TLC: the liveness properties (`AlwaysExecuting`, `EbreakHalts`, `RunEnds`), since
neither fairness nor `ENABLED` is within the prover's reach; and `HandlersAreEntered`, which
is a property of programs: the theorems assume it, the run `testbench` shows that the
programs there have it, and `claim_alignment` that without it they would be false.

## 5. Where documents and code differ

Three sentences are contradicted by a run.  The first changes only a statistic;
the second makes a test of a correct CPU fail, for a program the repository does not
contain; the third leaves files behind that the next successful run replaces.

* `claim_flushes`: `cpu_top.v` 680-683, `DESIGN.md` 782: `flushes` counts one per
  event.  A branch predicted taken and not taken counts two.
* `claim_alignment`: `tb_program.v` 116-117: the two models agree whenever an
  interrupt arrives with interrupts enabled.  The measurement takes the first
  retirement at mtvec for the handler's entry (line 182).  If the handler was
  entered by an `ecall` and its first instruction enables interrupts, that
  instruction may still be in MEM when the interrupt squashes the second; it
  retires at mtvec, the index is one too small, the reference replays another
  execution, and the test fails.
* `claim_fixtures`: `gen_fixtures.py` 19-22: the script "skips writing fixtures for that program" when
  the reference hits the limit or an illegal instruction.  By then `asm.py` has
  replaced `.hex` and `iss.py` `.trace`; only `.regs` and `.dmem` are skipped.

Three more are inexact as written, with no effect on any result:
`forward_unit.v` 47-49 (the 2'b10 path *is* selected for a load when the raw `rs`
bits of a `lui`, `auipc` or `jal` match), `hazard_unit.v` 27-32 (an illegal word of
a register opcode stalls behind a load and is counted), `DESIGN.md` 673-674 (a
branch predicted taken reads two registers and can raise the interlock).

## 6. What is not modelled, and the plan

Not modelled:

* unit and directed testbenches and `test_tools.py`: stimuli; what they
  promise is stated as properties of what they drive;
* scripts for simulators and synthesis, slides: invocations of other tools;
* of `asm.py`: the lexer and expression parser, the pseudo-instructions that
  only rename operands, the listing;
* of the generators: DESIGN.md's table, listings and hexadecimal text, `--check`;
* of `run_tests.py`: the grouping of tests by build, the text of its report;
* the 32-bit overflow of the counters.

The order in which this project was built, and what the plan has left:

1. done: words, decoder, data path, pipeline, architecture, refinement, trace, counters;
   type correctness, ebreak shadow, bubble bound, operands proved.
2. done: `Reset`, resets in mid-run.
3. done: `Testbench`, interrupt tests with measured positions.
4. done: `Assembler`, the two passes; proved.
5. done: `Decode`, `BitWords`, `ControlTable`, `Vectors`: three accounts of the
   instruction set and the vectors that compare them; proved for every word.
6. done: `Fixtures`, the generated files; proved.
7. done: the counters' invariants proved.
8. done: `ImplementsArchitecture` proved for every program, `RefinementProofs`.
9. done: `TypeOK`, `EbreakShadow`, operands and `ImplementsRestart` with resets, the co-simulation's trace and the
   length of its queue, the vectors, the assembler's two passes proved.
10. done: the test flow's invariants proved, for handlers that are entered on their own.
11. left: expressions and the remaining pseudo-instructions of `asm.py`.
