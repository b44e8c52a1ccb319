------------------------------- MODULE Vectors -------------------------------
(***************************************************************************)
(* The generators of test vectors, tools/gen_control_table.py and          *)
(* tools/gen_imm_vectors.py, and the testbenches that read their files.    *)
(*                                                                         *)
(* Each script draws a stimulus, `cand', and writes a vector: the word and *)
(* what the hardware must make of it.  The random generator may return any *)
(* number it is asked for; the numbers are those of REGS and SAMPLES, the  *)
(* words of the random sweep those of SWEEP.  A vector does not depend on  *)
(* those before it, so only the latest is kept, and the sizes of the files *)
(* are left out.                                                           *)
(***************************************************************************)
EXTENDS ControlTable, BitWords

CONSTANTS
  REGS,      \* register numbers the scripts draw
  SAMPLES,   \* other numbers they draw
  SWEEP      \* <<funct7, rs2, rs1, funct3, rd, opcode>> of the random words

\* A word has five bits for a register.
ASSUME DrawAssumption ==
  NREG = 32 /\ REGS \subseteq Reg /\ SAMPLES \subseteq Int

VARIABLES
  script,    \* "control" or "imm"
  cand,      \* the stimulus drawn last
  vector,    \* the vector written last
  aborted    \* an assertion of the script has failed

vecVars == <<script, cand, vector, aborted>>

NONE == [kind |-> "none"]

----------------------------------------------------------------------------
(* asm.encode.                                                             *)

ARITH_F3(name) ==
  CASE name \in {"add", "sub"} -> 0 [] name = "sll" -> 1 [] name = "slt" -> 2
    [] name = "sltu" -> 3 [] name = "xor" -> 4 [] name \in {"srl", "sra"} -> 5
    [] name = "or" -> 6 [] name = "and" -> 7
LOADS(name) ==
  CASE name = "lb" -> 0 [] name = "lh" -> 1 [] name = "lw" -> 2
    [] name = "lbu" -> 4 [] name = "lhu" -> 5
STORES(name) ==
  CASE name = "sb" -> 0 [] name = "sh" -> 1 [] name = "sw" -> 2
BRANCHES(name) ==
  CASE name = "beq" -> 0 [] name = "bne" -> 1 [] name = "blt" -> 4
    [] name = "bge" -> 5 [] name = "bltu" -> 6 [] name = "bgeu" -> 7
CSR_F3(name) ==
  CASE name = "csrrw" -> 1 [] name = "csrrs" -> 2 [] name = "csrrc" -> 3
SYSTEM_FIXED(name) ==
  CASE name = "ecall" -> 115 [] name = "ebreak" -> 1048691
    [] name = "mret" -> 807403635

funct7_of(name) == IF name \in {"sub", "sra"} THEN 32 ELSE 0

\* The operands of a line: registers, an immediate, a CSR address.
ops(rd, rs1, rs2, imm, csrno) ==
  [rd |-> rd, rs1 |-> rs1, rs2 |-> rs2, imm |-> imm, csr |-> csrno]

encode(m, o) ==
  LET imm == bits(o.imm)
      rd  == bits(o.rd)
      rs1 == bits(o.rs1)
  IN  CASE m[1] = "R" -> enc_r(bits(funct7_of(m[2])), bits(o.rs2), rs1,
                               bits(ARITH_F3(m[2])), rd, bits(OP_R))
        [] m \in IARITH_MNEMS -> enc_i(imm, rs1, bits(ARITH_F3(m[2])), rd,
                                       bits(OP_IARITH))
        [] m \in SHIFT_MNEMS -> enc_i(bits(32 * funct7_of(m[2])) \cup imm, rs1,
                                      bits(ARITH_F3(m[2])), rd, bits(OP_IARITH))
        [] m[1] = "L" -> enc_i(imm, rs1, bits(LOADS(m[2])), rd, bits(OP_LOAD))
        [] m[1] = "S" -> enc_s(imm, bits(o.rs2), rs1, bits(STORES(m[2])), bits(OP_STORE))
        [] m[1] = "B" -> enc_b(imm, bits(o.rs2), rs1, bits(BRANCHES(m[2])),
                               bits(OP_BRANCH))
        [] m = LUI    -> enc_u(imm, rd, bits(OP_LUI))
        [] m = AUIPC  -> enc_u(imm, rd, bits(OP_AUIPC))
        [] m = JAL    -> enc_j(imm, rd, bits(OP_JAL))
        [] m = JALR   -> enc_i(imm, rs1, {}, rd, bits(OP_JALR))
        [] m[1] = "SYS" -> bits(SYSTEM_FIXED(m[2]))
        [] m[1] = "CSR-R" -> enc_i(bits(o.csr), rs1, bits(CSR_F3(m[2])), rd,
                                   bits(OP_SYSTEM))
        [] m[1] = "CSR-I" -> enc_i(bits(o.csr), imm, bits(CSR_F3(m[2]) + 4), rd,
                                   bits(OP_SYSTEM))

\* The fields cpu_top.v slices out of a word; the decoder never looks at the
\* immediate.
fields(w) ==
  [opcode |-> num(w, 6, 0), funct3 |-> num(w, 14, 12),
   funct7 |-> num(w, 31, 25), rd |-> num(w, 11, 7), rs1 |-> num(w, 19, 15),
   rs2 |-> num(w, 24, 20), imm |-> 0, csr |-> num(w, 31, 20)]

mnemonic(w) == decode(fields(w))
is_illegal(w) == mnemonic(w)[2] = "illegal"

----------------------------------------------------------------------------
(* gen_control_table.py.                                                   *)

\* rng.randint(lo, hi), in steps of `step'.
randint(lo, hi, step) == {v \in SAMPLES : v \in lo .. hi /\ v % step = 0}

CSR_ADDRS == {768, 772, 773, 833, 834, 0, 4095, 291}

immediates(m) ==
  CASE m \in IARITH_MNEMS -> {-1, -2048, -1365, 2047, 0, 1} \cup randint(-2048, 2047, 1)
    [] m \in SHIFT_MNEMS  -> {0, 1, 31, 16} \cup randint(0, 31, 1)
    [] m[1] \in {"L", "S"} -> {-1, -2048, 2047, 0} \cup randint(-2048, 2047, 1)
    [] m[1] = "B"         -> {-4096, -2, 0, 4094} \cup randint(-4096, 4094, 2)
    [] m[1] = "U"         -> {0, 1, 1048575, 524288} \cup randint(0, 1048575, 1)
    [] m = JAL            -> {-1048576, -2, 0, 1048574} \cup randint(-1048576, 1048574, 2)
    [] m = JALR           -> {-2048, -1, 0, 2047} \cup randint(-2048, 2047, 1)
    [] m[1] = "CSR-I"     -> {0, 1, 31} \cup randint(0, 31, 1)
    [] OTHER              -> {0}

\* The operands a line of each class can have.
operands(m, values, csrs) ==
  LET regs_if(has) == IF has THEN REGS ELSE {0}
  IN  {ops(rd, rs1, rs2, imm, c) :
         rd  \in regs_if(m[1] \notin {"S", "B", "SYS"}),
         rs1 \in regs_if(m[1] \in {"R", "I", "L", "S", "B", "CSR-R"} \/ m = JALR),
         rs2 \in regs_if(m[1] \in {"R", "S", "B"}),
         imm \in values,
         c   \in IF m[1] \in {"CSR-R", "CSR-I"} THEN csrs ELSE {0}}

instances(m) == operands(m, immediates(m), CSR_ADDRS)

r_word(f7, rs2, rs1, f3, rd, op) ==
  enc_r(bits(f7), bits(rs2), bits(rs1), bits(f3), bits(rd), bits(op))

hand_picked ==
  {r_word(1, 3, 2, f3, 1, OP_R) : f3 \in 0 .. 7}
  \cup {r_word(64, 3, 2, f3, 1, OP_R) : f3 \in {0, 5}}
  \cup {r_word(32, 3, 2, f3, 1, OP_R) : f3 \in {1, 2, 3, 4, 6, 7}}
  \cup {r_word(x[1], 5, 2, x[2], 1, OP_IARITH) :
          x \in {<<32, 1>>, <<1, 1>>, <<16, 5>>, <<64, 5>>, <<127, 1>>}}
  \cup {r_word(0, 4, 2, f3, 1, OP_LOAD)   : f3 \in {3, 6, 7}}
  \cup {r_word(0, 4, 2, f3, 1, OP_STORE)  : f3 \in 3 .. 7}
  \cup {r_word(0, 4, 2, f3, 1, OP_BRANCH) : f3 \in {2, 3}}
  \cup {r_word(0, 4, 2, f3, 1, OP_JALR)   : f3 \in 1 .. 7}
  \cup {enc_i(bits(c), {}, {}, {}, bits(OP_SYSTEM)) :
          c \in {2, 261, 258, 1970, 769, 771, 783, 4095}}
  \cup {r_word(48, 0, 2, 4, 1, OP_SYSTEM)}
  \cup {r_word(0, 3, 2, 0, 1, op) :
          op \in {0, 15, 31, 47, 59, 67, 83, 91, 107, 119, 123, 127, 1, 2, 17, 34}}

stimulus(kind, w, m, o) == [kind |-> kind, word |-> w, mnem |-> m, ops |-> o]
control_vector(w, expected) ==
  [kind |-> "control", word |-> w, expected |-> expected]

NO_OPS == ops(0, 0, 0, 0, 0)

\* build_vectors, the first loop: the word must decode as what was written.
LegalVector ==
  /\ script = "control"
  /\ \E m \in ORDER : \E o \in instances(m) :
       LET w == encode(m, o)
       IN  /\ cand' = stimulus("legal", w, m, o)
           /\ aborted' = (mnemonic(w) # m)
           /\ vector' = IF mnemonic(w) # m THEN NONE
                        ELSE control_vector(w, expected_fields(fields(w), m))
  /\ UNCHANGED script

\* illegal_words: every word of the pool is illegal and none is an alias,
\* or the script stops.
HandPicked ==
  /\ script = "control"
  /\ \E w \in hand_picked :
       LET bad == system_alias(fields(w)) \/ ~is_illegal(w)
       IN  /\ cand' = stimulus("hand-picked", w, NONE, NO_OPS)
           /\ aborted' = bad
           /\ vector' = IF bad THEN NONE ELSE control_vector(w, ILLEGAL_FIELDS)
  /\ UNCHANGED script

\* A word of the sweep is passed over unless it is illegal and no alias.
Swept ==
  /\ script = "control"
  /\ \E x \in SWEEP :
       LET w == r_word(x[1], x[2], x[3], x[4], x[5], x[6])
       IN  /\ cand' = stimulus("swept", w, NONE, NO_OPS)
           /\ vector' = IF system_alias(fields(w)) \/ ~is_illegal(w) THEN NONE
                        ELSE control_vector(w, ILLEGAL_FIELDS)
  /\ UNCHANGED <<script, aborted>>

----------------------------------------------------------------------------
(* gen_imm_vectors.py.                                                     *)

\* Powers of two, their negations and their neighbours.
pow_family(n, lo, hi, step) ==
  {v \in UNION {{p, -p, p - step, p + step, -p - step, step - p} :
                  p \in {2^k : k \in 0 .. n}} \cup {0, lo, hi, -step, step} :
     v \in lo .. hi /\ v % step = 0}

i_values == pow_family(11, -2048, 2047, 1) \cup {-2047, 2046}
            \cup randint(-2048, 2047, 1)
b_values == pow_family(12, -4096, 4094, 2)
            \cup {2052, 3000, 4092, 2044, -3000, -2052, -2050}
            \cup randint(-4096, 4094, 2)
u_values == pow_family(19, -524288, 1048575, 1) \cup {-1, 1048574}
            \cup randint(-524288, 1048575, 1)
j_values == pow_family(20, -1048576, 1048574, 2)
            \cup {6144, 12288, 1044480, 126976, -1044480}
            \cup randint(-1048576, 1048574, 2)

\* The selector, the mnemonics and the values of each kind of vector; which
\* value meets which mnemonic is left open.
forms ==
  { [sel |-> "I", mnems |-> IARITH_MNEMS \cup LOAD_MNEMS \cup {JALR}, values |-> i_values],
    [sel |-> "I", mnems |-> SHIFT_MNEMS,   values |-> 0 .. 31],
    [sel |-> "S", mnems |-> STORE_MNEMS,   values |-> i_values],
    [sel |-> "B", mnems |-> BRANCH_MNEMS,  values |-> b_values],
    [sel |-> "U", mnems |-> {LUI, AUIPC},  values |-> u_values],
    [sel |-> "J", mnems |-> {JAL},         values |-> j_values],
    [sel |-> "Z", mnems |-> CSR_IMM_MNEMS, values |-> 0 .. 31] }

IMM_CSR_ADDRS == {768, 772, 773, 833, 834, 0, 2047, 3072, 291}

\* The immediate of iss.py's decode.
iss_imm(w) ==
  LET m == mnemonic(w)
  IN  CASE m \in SHIFT_MNEMS -> iss_shamt(w)
        [] m \in IARITH_MNEMS \cup LOAD_MNEMS \cup {JALR} -> iss_i(w)
        [] m[1] = "S"     -> iss_s(w)
        [] m[1] = "B"     -> iss_b(w)
        [] m[1] = "U"     -> iss_u(w)
        [] m = JAL        -> iss_j(w)
        [] m[1] = "CSR-I" -> iss_zimm(w)

\* exp_i decodes the field as that of an addi, exp_u shifts it like lui.
exp(sel, w) ==
  CASE sel = "I" -> iss_imm({k \in w : k >= 20} \cup bits(OP_IARITH))
    [] sel = "U" -> slice(iss_imm(w), 19, 0, 12)
    [] OTHER     -> iss_imm(w)

imm_vector(w, sel, expected) ==
  [kind |-> "imm", word |-> w, sel |-> sel, expected |-> expected]

\* anchors: before anything is written, each helper is compared with the
\* operand (the script executes the word for the same comparison).
Anchor ==
  /\ script = "imm" /\ vector = NONE
  /\ \E f \in forms, m \in {<<"I", "add">>, <<"S", "sw">>, <<"B", "beq">>, JAL,
                            <<"CSR-I", "csrrw">>} :
       /\ m \in f.mnems
       /\ \E v \in f.values :
            LET w == encode(m, ops(5, 0, 0, v, 834))
            IN  /\ cand' = stimulus("anchor", w, m, ops(5, 0, 0, v, 834))
                /\ aborted' = (exp(f.sel, w) # bits(v))
  /\ UNCHANGED <<script, vector>>

\* build: noise in every register field, the operand in the others.
ImmVector ==
  /\ script = "imm" /\ ~aborted
  /\ \E f \in forms : \E m \in f.mnems : \E o \in operands(m, f.values, IMM_CSR_ADDRS) :
       LET w == encode(m, o)
       IN  /\ cand' = stimulus("imm", w, m, o)
           /\ vector' = imm_vector(w, f.sel, exp(f.sel, w))
  /\ UNCHANGED <<script, aborted>>

\* The selectors no format has; corner words and random ones.
Reserved ==
  /\ script = "imm" /\ ~aborted
  /\ \E w \in {{}, Bits, {31}, 0 .. 30} \cup
              {r_word(x[1], x[2], x[3], x[4], x[5], x[6]) : x \in SWEEP} :
       /\ cand' = stimulus("reserved", w, NONE, NO_OPS)
       /\ vector' = imm_vector(w, "reserved", {})
  /\ UNCHANGED <<script, aborted>>

Init ==
  /\ script \in {"control", "imm"}
  /\ cand = stimulus("none", {}, NONE, NO_OPS) /\ vector = NONE
  /\ aborted = FALSE

\* A vector leads to no other: one step from the start reaches every one.
Next == cand.kind = "none"
        /\ (LegalVector \/ HandPicked \/ Swept \/ Anchor \/ ImmVector \/ Reserved)

Spec == Init /\ [][Next]_vecVars

----------------------------------------------------------------------------
(* Properties.                                                             *)

\* control.v and iss.py, which share no table, agree on every word drawn,
\* written to the file or passed over: the same words are illegal, and a
\* legal one gets the control signals of its mnemonic's row.  The one
\* exception is that a SYSTEM word whose csr field is that of ecall, ebreak
\* or mret is one of them whatever its rd and rs1 hold.
agree(i) ==
  IF decode(i)[2] = "illegal"
  THEN control(i) = ILLEGAL_FIELDS \/ (system_alias(i) /\ ~control(i).illegal)
  ELSE control(i) = expected_fields(i, decode(i))

DecodersAgree == agree(fields(cand.word))

\* tb_control.v passes on every vector of the file, in particular on those
\* of illegal words: none of them is an alias.
ControlVectorsPass ==
  vector.kind = "control" => control(fields(vector.word)) = vector.expected

\* tb_imm_gen.v passes on every vector of its file.
ImmVectorsPass ==
  vector.kind = "imm" => imm_bits(vector.word, vector.sel) = vector.expected

\* Neither script stops on an assertion: asm.py's words decode, in iss.py, as
\* the mnemonic they were written with, no hand-picked word is legal or an
\* alias, and the operand of an anchor comes back.
NoAssertionFails == ~aborted

\* The value of an operand, as a word.
meaning(m, v) == IF m[1] = "U" THEN slice(bits(v), 19, 0, 12) ELSE bits(v)

\* The operand written in the source is the immediate the hardware computes
\* with: encoded by asm.py among arbitrary other fields, selected by control.v
\* and put together by imm_gen.v.  Of a shift the low five bits are.
ImmediatesSurvive ==
  LET m   == cand.mnem
      imm == imm_bits(cand.word, control(fields(cand.word)).imm_sel)
  IN  cand.kind \in {"legal", "anchor", "imm"} =>
        CASE m \in SHIFT_MNEMS -> imm \cap (0 .. 4) = bits(cand.ops.imm)
          [] m[1] \in {"I", "L", "S", "B", "U", "J", "CSR-I"} /\ m \notin SHIFT_MNEMS ->
               imm = meaning(m, cand.ops.imm)
          [] OTHER -> TRUE
=============================================================================
