------------------------------ MODULE Assembler ------------------------------
(***************************************************************************)
(* The two passes of tools/asm.py.  Pass one reads the source line by      *)
(* line, gives every label and constant its value and every instruction    *)
(* and datum its address and size; `li' is expanded there, to one or two   *)
(* instructions, with the symbols known so far.  Pass two encodes the      *)
(* records with all symbols and writes the two memory images.              *)
(*                                                                         *)
(* A source is any sequence of the lines in LINES.  A line is a record     *)
(*   [label, op, name, arg]: an optional label, a mnemonic, directive or   *)
(* nothing, the name `.equ' defines, and an expression: symbol + constant. *)
(* One mnemonic stands for each class of operand asm.py tells apart: addi  *)
(* (12-bit immediate), beq (PC-relative), li, la; .word and .byte.         *)
(***************************************************************************)
EXTENDS Integers, Sequences, FiniteSetsExt

CONSTANTS
  LO_SIZE,    \* values of an I-immediate: 2^12
  HI_SIZE,    \* values of a U-immediate: 2^20
  BYTE_SIZE,  \* 2^8
  MEM_BYTES,  \* size of each memory: 4096
  LINES,      \* the lines a source may have
  MAX_LINES   \* bound on its length

ASSUME FieldAssumption == LO_SIZE \in Nat /\ HI_SIZE \in Nat \ {0} /\ LO_SIZE > 0
                          /\ LO_SIZE % 2 = 0
ASSUME ByteAssumption == BYTE_SIZE^4 = LO_SIZE * HI_SIZE
\* Offsets are numbers.
ASSUME LinesAssumption == \A line \in LINES : line.arg.off \in Int
ASSUME BoundAssumption == MEM_BYTES \in Nat /\ MAX_LINES \in Nat

VARIABLES
  phase,      \* "parse", "encode", "done" or "error"
  source,     \* the lines read
  section, addr, symbols, records, used,
  image,      \* per section: byte address -> what was emitted there
  written     \* history: bytes emitted

asmVars == <<phase, source, section, addr, symbols, records, used, image,
             written>>

----------------------------------------------------------------------------
(* Numbers and expressions.                                                *)

Modulus == LO_SIZE * HI_SIZE
HALF_LO == LO_SIZE \div 2

u32(x) == x % Modulus
s32(x) == IF u32(x) >= Modulus \div 2 THEN u32(x) - Modulus ELSE u32(x)

\* mutant: the upper part is not adjusted for the sign of the lower
hi20_unadjusted(v) == u32(v) \div LO_SIZE

hi20(v) == ((u32(v) + HALF_LO) \div LO_SIZE) % HI_SIZE

lo12(v) == LET low == u32(v) % LO_SIZE
           IN  IF low >= HALF_LO THEN low - LO_SIZE ELSE low

I_RANGE == (-HALF_LO) .. (HALF_LO - 1)
B_RANGE == (-LO_SIZE) .. (LO_SIZE - 2)

const(v) == [sym |-> "", off |-> v]

defined(e, syms)   == e.sym = "" \/ e.sym \in DOMAIN syms
eval_expr(e, syms) == e.off + (IF e.sym = "" THEN 0 ELSE syms[e.sym])

----------------------------------------------------------------------------
(* expand: the instructions a line stands for.  `part' is the %hi or %lo   *)
(* around the operand.                                                     *)

insn(mnem, part, e) == [mnem |-> mnem, part |-> part, e |-> e]

expand(line, syms) ==
  CASE line.op = "li" ->
         LET v == s32(eval_expr(line.arg, syms))
         IN  IF v \in I_RANGE THEN <<insn("addi", "", const(v))>>
             ELSE <<insn("lui", "", const(hi20(v))),
                    insn("addi", "", const(lo12(v)))>>
    [] line.op = "la" ->
         <<insn("lui", "hi", line.arg), insn("addi", "lo", line.arg)>>
    [] OTHER -> <<insn(line.op, "", line.arg)>>

operand(i, syms) ==
  LET v == eval_expr(i.e, syms)
  IN  CASE i.part = "hi" -> hi20(v) [] i.part = "lo" -> lo12(v) [] OTHER -> v

\* A bare symbol is a target, PC-relative; anything else is the offset.
branch_target(e, pc, syms) ==
  IF e.sym # "" /\ e.off = 0 THEN syms[e.sym] - pc ELSE eval_expr(e, syms)

\* The operand of the encoded word, and whether encode_one accepts it.
encode_one(i, pc, syms) ==
  IF i.mnem = "beq" THEN branch_target(i.e, pc, syms) ELSE operand(i, syms)

encodable(i, pc, syms) ==
  /\ defined(i.e, syms)
  /\ LET v == encode_one(i, pc, syms)
     IN  CASE i.mnem = "addi" -> v \in I_RANGE
           [] i.mnem = "beq"  -> v \in B_RANGE /\ v % 2 = 0
           [] i.mnem = "lui"  -> v \in (-(HI_SIZE \div 2)) .. (HI_SIZE - 1)

----------------------------------------------------------------------------
(* Pass one.                                                               *)

Sections  == {"text", "data"}
MNEMONICS == {"addi", "beq", "li", "la"}

Init ==
  /\ phase = "parse" /\ source = <<>>
  /\ section = "text" /\ addr = [s \in Sections |-> 0] /\ symbols = <<>>
  /\ records = <<>> /\ used = [s \in Sections |-> 0]
  /\ image = [s \in Sections |-> <<>>] /\ written = 0

\* err: assembling stops, and nothing of what was built is used.
fail == phase' = "error"
        /\ UNCHANGED <<section, addr, symbols, records, used, image, written>>

\* The table with one more name, or with another value for a name it has.
bind(syms, name, v) ==
  [x \in DOMAIN syms \cup {name} |-> IF x = name THEN v ELSE syms[x]]

duplicate(line) == line.label \in DOMAIN symbols

\* mutant: the address is rounded up to a word, one byte too far
with_label_rounded(line) ==
  IF line.label = "" THEN symbols
  ELSE bind(symbols, line.label, 4 * ((addr[section] + 4) \div 4))

\* The label is bound before the rest of the line is looked at.
with_label(line) ==
  IF line.label = "" THEN symbols ELSE bind(symbols, line.label, addr[section])

\* Move the section's location counter, which `used' follows upwards.
advance(to) ==
  /\ addr' = [addr EXCEPT ![section] = to]
  /\ used' = [used EXCEPT ![section] = IF to > @ THEN to ELSE @]

here == addr[section]

LabelOnly(line) ==
  /\ line.op = ""
  /\ symbols' = with_label(line)
  /\ UNCHANGED <<phase, section, addr, records, used, image, written>>

\* mutant: the size of an expansion is forgotten
one_word(line) ==
  /\ symbols' = with_label(line)
  /\ records' = Append(records,
       [kind |-> "insn", section |-> section, addr |-> here,
        insns |-> expand(line, with_label(line)), lineno |-> Len(source')])
  /\ advance(here + 4)
  /\ UNCHANGED <<phase, section, image, written>>

add_instruction(line) ==
  /\ symbols' = with_label(line)
  /\ records' = Append(records,
       [kind |-> "insn", section |-> section, addr |-> here,
        insns |-> expand(line, with_label(line)), lineno |-> Len(source')])
  /\ advance(here + 4 * Len(expand(line, with_label(line))))
  /\ UNCHANGED <<phase, section, image, written>>

Instruction(line) ==
  /\ line.op \in MNEMONICS
  /\ IF \/ line.op = "li" /\ ~defined(line.arg, with_label(line))
        \/ here % 4 # 0
     THEN fail ELSE add_instruction(line)

size_of(op) == IF op = ".word" THEN 4 ELSE 1

Data(line) ==
  /\ line.op \in {".word", ".byte"}
  /\ symbols' = with_label(line)
  /\ records' = Append(records,
       [kind |-> "data", section |-> section, addr |-> here,
        size |-> size_of(line.op), value |-> line.arg, lineno |-> Len(source')])
  /\ advance(here + size_of(line.op))
  /\ UNCHANGED <<phase, section, image, written>>

is_power_of_two(n) == n > 0 /\ \E k \in 0 .. n : n = 2^k

\* The three directives that move the location counter, their arguments
\* evaluated at once.
Move(line) ==
  LET syms == with_label(line)
      n    == eval_expr(line.arg, syms)
  IN  /\ line.op \in {".space", ".align", ".org"}
      /\ IF ~defined(line.arg, syms) \/ n < 0
            \/ (line.op = ".align" /\ ~is_power_of_two(n))
         THEN fail
         ELSE /\ symbols' = syms
              /\ advance(CASE line.op = ".space" -> here + n
                           [] line.op = ".org"   -> n
                           [] line.op = ".align" -> ((here + n - 1) \div n) * n)
              /\ UNCHANGED <<phase, section, records, image, written>>

\* `.equ' may give a name, a label's too, another value.
Equ(line) ==
  LET syms == with_label(line)
  IN  /\ line.op = ".equ"
      /\ IF ~defined(line.arg, syms) THEN fail
         ELSE /\ symbols' = bind(syms, line.name, eval_expr(line.arg, syms))
              /\ UNCHANGED <<phase, section, addr, records, used, image, written>>

Section(line) ==
  /\ line.op \in {".text", ".data"}
  /\ symbols' = with_label(line)
  /\ section' = IF line.op = ".text" THEN "text" ELSE "data"
  /\ UNCHANGED <<phase, addr, records, used, image, written>>

\* parse: the next line of the source.
Line ==
  /\ phase = "parse" /\ Len(source) < MAX_LINES
  /\ \E line \in LINES :
       /\ source' = Append(source, line)
       /\ IF duplicate(line) THEN fail
          ELSE \/ LabelOnly(line) \/ Instruction(line) \/ Data(line)
               \/ Move(line) \/ Equ(line) \/ Section(line)

EndOfSource ==
  /\ phase = "parse" /\ phase' = "encode"
  /\ UNCHANGED <<source, section, addr, symbols, records, used, image, written>>

----------------------------------------------------------------------------
(* Pass two.  A record leaves the list when it has been emitted; a byte of *)
(* the image remembers the line it comes from.                             *)

\* mutant: pass two expands again, with the symbols of the whole source
words_reexpanded(r) ==
  LET insns == expand(source[r.lineno], symbols)
  IN  [k \in 1 .. Len(insns) |->
         [lineno |-> r.lineno, nth |-> k, mnem |-> insns[k].mnem,
          val |-> encode_one(insns[k], r.addr + 4 * (k - 1), symbols)]]

words_of(r) ==
  [k \in 1 .. Len(r.insns) |->
     [lineno |-> r.lineno, nth |-> k, mnem |-> r.insns[k].mnem,
      val |-> encode_one(r.insns[k], r.addr + 4 * (k - 1), symbols)]]

\* The bytes of `n' bytes of a value, lowest first.
bytes(what, a, n) == [b \in a .. (a + n - 1) |-> [of |-> what, byte |-> b - a]]

\* The image with new bytes over those it had.
overlay(new, old) ==
  [b \in DOMAIN new \cup DOMAIN old |-> IF b \in DOMAIN new THEN new[b] ELSE old[b]]

emitted(r) ==
  IF r.kind = "data"
  THEN bytes([lineno |-> r.lineno, nth |-> 1, mnem |-> "data",
              val |-> u32(eval_expr(r.value, symbols))], r.addr, r.size)
  ELSE LET ws == words_of(r)
       IN  [b \in r.addr .. (r.addr + 4 * Len(ws) - 1) |->
              bytes(ws[(b - r.addr) \div 4 + 1],
                    r.addr + 4 * ((b - r.addr) \div 4), 4)[b]]

fits(v, size) == LET values == BYTE_SIZE^size
                 IN  v \in (-(values \div 2)) .. (values - 1)

acceptable(r) ==
  IF r.kind = "data"
  THEN defined(r.value, symbols) /\ fits(eval_expr(r.value, symbols), r.size)
  ELSE \A k \in 1 .. Len(r.insns) :
         encodable(r.insns[k], r.addr + 4 * (k - 1), symbols)

Encode ==
  /\ phase = "encode" /\ records # <<>>
  /\ UNCHANGED source
  /\ LET r   == Head(records)
         new == emitted(r)
     IN  IF ~acceptable(r) \/ (\E b \in DOMAIN new : b >= MEM_BYTES)
         THEN fail
         ELSE /\ image' = [image EXCEPT ![r.section] = overlay(new, @)]
              /\ records' = Tail(records)
              /\ written' = written + Cardinality(DOMAIN new)
              /\ used' = [used EXCEPT ![r.section] = Max(DOMAIN new \cup {@ - 1}) + 1]
              /\ UNCHANGED <<phase, section, addr, symbols>>

Finish ==
  /\ phase = "encode" /\ records = <<>> /\ phase' = "done"
  /\ UNCHANGED <<source, section, addr, symbols, records, used, image, written>>

Next == Line \/ EndOfSource \/ Encode \/ Finish

Spec == Init /\ [][Next]_asmVars

----------------------------------------------------------------------------
(* Properties.                                                             *)

lines_with(ops) == {j \in 1 .. Len(source) : source[j].op \in ops}

\* What the line put into the image: the n-th word or datum of line j.
at_line(j, n) ==
  UNION {{image[s][b].of : b \in {c \in DOMAIN image[s] :
            image[s][c].of.lineno = j /\ image[s][c].of.nth = n}} : s \in Sections}

\* No name is given a value twice.
stable ==
  \A j, k \in 1 .. Len(source) :
    j # k /\ source[j].op = ".equ" =>
      /\ source[k].label # source[j].name
      /\ source[k].op = ".equ" => source[k].name # source[j].name

\* Without `.org' no byte is written twice and none outside the room that
\* pass one made: pass two emits exactly the words pass one counted, although
\* the symbols it counted them with may have other values by then.
NothingOverwritten ==
  phase = "done" /\ lines_with({".org"}) = {} =>
    /\ written = Cardinality(DOMAIN image["text"])
                 + Cardinality(DOMAIN image["data"])
    /\ \A s \in Sections : \A b \in DOMAIN image[s] : b < addr[s]
    /\ lines_with({".space", ".align"}) = {} => written = addr["text"] + addr["data"]

\* The addresses of the branches to a label in a section.
branches_to(label, s) ==
  {b \in DOMAIN image[s] :
     /\ image[s][b].byte = 0 /\ image[s][b].of.mnem = "beq"
     /\ source[image[s][b].of.lineno].arg = [sym |-> label, off |-> 0]}

\* A label names the first byte of the instruction or datum behind it, and a
\* branch to it lands there, however many words lie between and whether they
\* come before or behind: pass one knew the size of each.
LabelsNameWhatFollows ==
  phase = "done" /\ stable /\ lines_with({".org"}) = {} =>
    \A j \in lines_with(MNEMONICS) :
      source[j].label # "" =>
        \E s \in Sections :
          LET target == symbols[source[j].label]
          IN  /\ target \in DOMAIN image[s]
              /\ image[s][target].of.lineno = j /\ image[s][target].of.nth = 1
              /\ image[s][target].byte = 0
              /\ \A b \in branches_to(source[j].label, s) :
                   b + image[s][b].of.val = target

\* lui and addi of a `la' rebuild its address, lui and addi, or addi alone,
\* of a `li' its constant: the high half pays back the sign of the low half,
\* and a constant that needs two words got room for two.
PairsRebuildTheirValue ==
  phase = "done" /\ stable /\ lines_with({".org"}) = {} =>
    \A j \in lines_with({"li", "la"}) :
      LET first  == CHOOSE w \in at_line(j, 1) : TRUE
          second == CHOOSE w \in at_line(j, 2) : TRUE
      IN  u32(eval_expr(source[j].arg, symbols)) =
            IF at_line(j, 2) = {} THEN u32(first.val)
            ELSE u32(first.val * LO_SIZE + second.val)
=============================================================================
