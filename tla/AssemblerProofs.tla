-------------------------- MODULE AssemblerProofs ----------------------------
(***************************************************************************)
(* The assembler.  First the split of a value between lui and addi, for    *)
(* every width of the two immediates.  Then the two passes, for every      *)
(* source over any set of lines, of any length: what pass one laid out     *)
(* with the symbols it had is what pass two emits with all of them.        *)
(***************************************************************************)
EXTENDS Assembler, FiniteSetTheorems, SequenceTheorems, TLAPS

----------------------------------------------------------------------------
(* Division by a positive number.                                          *)

\* A number is its quotient times the divisor, plus its remainder.
LEMMA Division ==
  ASSUME NEW a \in Int, NEW b \in Nat, b > 0
  PROVE  /\ a \div b \in Int /\ (a % b) \in 0 .. (b - 1)
         /\ a = b * (a \div b) + (a % b)
  BY Z3

\* No other quotient and remainder make it.
LEMMA Unique ==
  ASSUME NEW b \in Nat, b > 0, NEW q \in Int, NEW r \in 0 .. (b - 1)
  PROVE  (b * q + r) \div b = q /\ (b * q + r) % b = r
<1> DEFINE a == b * q + r
           p == a \div b
           s == a % b
<1>1. b * q \in Int /\ a \in Int
  OBVIOUS
<1>2. p \in Int /\ s \in 0 .. (b - 1) /\ a = b * p + s
  BY <1>1, Division
<1>3. b * (q - p) = s - r
  BY <1>1, <1>2
<1>4. q - p >= 1 => b * (q - p) >= b
  BY <1>2
<1>5. q - p <= -1 => b * (q - p) <= -b
  BY <1>2
<1>6. q = p
  BY <1>2, <1>3, <1>4, <1>5
<1> QED
  BY <1>2, <1>6

----------------------------------------------------------------------------

\* The fields are not empty, and the lower one has a middle.
LEMMA Fields ==
  /\ LO_SIZE \in Nat /\ LO_SIZE > 0 /\ HI_SIZE \in Nat /\ HI_SIZE > 0
  /\ HALF_LO \in Nat /\ LO_SIZE = HALF_LO + HALF_LO
  /\ Modulus \in Nat /\ Modulus > 0
<1>1. LO_SIZE \in Nat /\ LO_SIZE > 0 /\ HI_SIZE \in Nat /\ HI_SIZE > 0
  BY FieldAssumption
<1>2. LO_SIZE = 2 * (LO_SIZE \div 2) + (LO_SIZE % 2)
  BY <1>1, Division
<1>3. HALF_LO \in Nat /\ LO_SIZE = HALF_LO + HALF_LO
  BY <1>1, <1>2, FieldAssumption DEF HALF_LO
<1>4. Modulus \in Nat /\ Modulus > 0
  BY <1>1 DEF Modulus
<1> QED
  BY <1>1, <1>3, <1>4

\* lui with hi20 of a value and addi with lo12 of it (asm.py 129-137, the two
\* words of `li' and `la') leave the value in the register, whatever it is:
\* also when the low half is negative and when the high half then wraps.
THEOREM SplitRebuilds ==
  ASSUME NEW v \in Int
  PROVE  u32(hi20(v) * LO_SIZE + lo12(v)) = u32(v)
<1> DEFINE u   == v % Modulus
           k   == u \div LO_SIZE
           low == u % LO_SIZE
<1>1. u \in 0 .. (Modulus - 1)
  BY Fields, Division
<1>2. k \in Int /\ low \in 0 .. (LO_SIZE - 1) /\ u = LO_SIZE * k + low
  BY <1>1, Fields, Division
<1>3. k \in 0 .. (HI_SIZE - 1)
  <2>1. k <= -1 => LO_SIZE * k <= -LO_SIZE
    BY <1>2, Fields
  <2>2. k >= HI_SIZE => LO_SIZE * k >= LO_SIZE * HI_SIZE
    BY <1>2, Fields
  <2>3. LO_SIZE * k \in Int /\ LO_SIZE * HI_SIZE \in Int
    BY <1>2, Fields
  <2> QED
    BY <1>1, <1>2, <2>1, <2>2, <2>3, Fields DEF Modulus
<1>4. LO_SIZE * k \in Int /\ u \in Int
  BY <1>1, <1>2, Fields
<1>5. u % Modulus = u /\ (u - Modulus) % Modulus = u
  <2>1. (Modulus * 0 + u) % Modulus = u
    BY <1>1, Fields, Unique
  <2>2. (Modulus * (-1) + u) % Modulus = u
    BY <1>1, Fields, Unique
  <2> QED
    BY <1>4, <2>1, <2>2, Fields
<1>6. CASE low < HALF_LO
  <2>1. lo12(v) = low
    BY <1>2, <1>6, Fields DEF lo12, u32
  <2>2. u + HALF_LO = LO_SIZE * k + (low + HALF_LO)
    BY <1>2, <1>4, Fields
  <2>3. low + HALF_LO \in 0 .. (LO_SIZE - 1)
    BY <1>2, <1>6, Fields
  <2>4. (u + HALF_LO) \div LO_SIZE = k
    BY <1>2, <2>2, <2>3, Fields, Unique
  <2>5. k % HI_SIZE = k
    <3>1. (HI_SIZE * 0 + k) % HI_SIZE = k
      BY <1>3, Fields, Unique
    <3> QED
      BY <1>3, <3>1, Fields
  <2>6. hi20(v) = k
    BY <2>4, <2>5 DEF hi20, u32
  <2>7. hi20(v) * LO_SIZE + lo12(v) = u
    BY <1>2, <2>1, <2>6, Fields
  <2> QED
    BY <1>5, <2>7 DEF u32
<1>7. CASE low >= HALF_LO
  <2>1. lo12(v) = low - LO_SIZE
    BY <1>2, <1>7, Fields DEF lo12, u32
  <2>2. LO_SIZE * (k + 1) = LO_SIZE * k + LO_SIZE
    BY <1>2, Fields
  <2>3. u + HALF_LO = LO_SIZE * (k + 1) + (low - HALF_LO)
    BY <1>2, <1>4, <2>2, Fields
  <2>4. low - HALF_LO \in 0 .. (LO_SIZE - 1) /\ k + 1 \in Int
    BY <1>2, <1>7, Fields
  <2>5. (u + HALF_LO) \div LO_SIZE = k + 1
    BY <2>3, <2>4, Fields, Unique
  <2>6. hi20(v) = (k + 1) % HI_SIZE
    BY <2>5 DEF hi20, u32
  <2>7. CASE k + 1 < HI_SIZE
    <3>1. (HI_SIZE * 0 + (k + 1)) % HI_SIZE = k + 1
      BY <1>3, <2>7, Fields, Unique
    <3>2. hi20(v) = k + 1
      BY <1>3, <2>6, <3>1, Fields
    <3>3. hi20(v) * LO_SIZE + lo12(v) = u
      BY <1>2, <1>4, <2>1, <2>2, <3>2, Fields
    <3> QED
      BY <1>5, <3>3 DEF u32
  <2>8. CASE k + 1 = HI_SIZE
    <3>1. (HI_SIZE * 1 + 0) % HI_SIZE = 0
      BY Fields, Unique
    <3>2. hi20(v) = 0
      BY <2>6, <2>8, <3>1, Fields
    <3>3. Modulus = LO_SIZE * (k + 1)
      BY <2>8 DEF Modulus
    <3>4. hi20(v) * LO_SIZE + lo12(v) = u - Modulus
      BY <1>2, <1>4, <2>1, <2>2, <3>2, <3>3, Fields
    <3> QED
      BY <1>5, <3>4 DEF u32
  <2> QED
    BY <1>3, <2>7, <2>8, Fields
<1> QED
  BY <1>2, <1>6, <1>7, Fields

----------------------------------------------------------------------------
(* Sequences, and sets that are joined.                                    *)

\* A sequence with one more element keeps the others where they were.
LEMMA Appending ==
  ASSUME NEW S, NEW s \in Seq(S), NEW e \in S
  PROVE  /\ Append(s, e) \in Seq(S) /\ Len(s) \in Nat
         /\ Len(Append(s, e)) = Len(s) + 1
         /\ Append(s, e)[Len(s) + 1] = e
         /\ \A k \in 1 .. Len(s) : Append(s, e)[k] = s[k]
  OBVIOUS

\* A sequence that loses its head moves the others down by one.
LEMMA Dropping ==
  ASSUME NEW S, NEW s \in Seq(S), s # <<>>
  PROVE  /\ Len(s) \in Nat /\ Len(s) >= 1 /\ Head(s) = s[1] /\ s[1] \in S
         /\ Tail(s) \in Seq(S) /\ Len(Tail(s)) = Len(s) - 1
         /\ \A k \in 1 .. Len(s) - 1 : Tail(s)[k] = s[k + 1]
  OBVIOUS

\* An element of a sequence is one of its values.
LEMMA Element ==
  ASSUME NEW S, NEW s \in Seq(S)
  PROVE  Len(s) \in Nat /\ \A k \in 1 .. Len(s) : s[k] \in S
  OBVIOUS

\* Nothing is in the domain of the empty sequence.
LEMMA EmptyDomain == DOMAIN <<>> = {} /\ Len(<<>>) = 0
  OBVIOUS

\* A function on 1 .. n is a sequence of length n.
LEMMA LengthOf ==
  ASSUME NEW n \in Nat, NEW S, NEW f \in [1 .. n -> S]
  PROVE  Len(f) = n
  OBVIOUS

----------------------------------------------------------------------------
(* The state of the two passes.                                            *)

Exprs == {line.arg : line \in LINES} \cup [sym : {""}, off : Int]
Insns == [mnem : MNEMONICS \cup {"lui"}, part : {"", "hi", "lo"}, e : Exprs]

InsnRecords == [kind : {"insn"}, section : Sections, addr : Nat,
                insns : Seq(Insns), lineno : Nat]
DataRecords == [kind : {"data"}, section : Sections, addr : Nat,
                size : {1, 4}, value : Exprs, lineno : Nat]
Records     == InsnRecords \cup DataRecords

\* The bytes a record takes.
sized(r)  == IF r.kind = "data" THEN r.size ELSE 4 * Len(r.insns)
extent(r) == r.addr .. (r.addr + sized(r) - 1)

ops_of(kind) == IF kind = "insn" THEN MNEMONICS ELSE {".word", ".byte"}

Typed ==
  /\ source \in Seq(LINES) /\ section \in Sections /\ addr \in [Sections -> Nat]
  /\ \A x \in DOMAIN symbols : symbols[x] \in Int
  /\ records \in Seq(Records)
  /\ DOMAIN image = Sections
  /\ \A s \in Sections : /\ IsFiniteSet(DOMAIN image[s])
                         /\ DOMAIN image[s] \subseteq Nat
  /\ written \in Nat

\* Pass one leaves the image alone, and no instruction without a record.
Blank ==
  phase = "parse" =>
    /\ written = 0 /\ \A s \in Sections : DOMAIN image[s] = {}
    /\ \A j \in lines_with(MNEMONICS) :
         \E k \in 1 .. Len(records) : records[k].lineno = j

\* Each record is that of a line.
OfLines ==
  \A k \in 1 .. Len(records) :
    /\ records[k].lineno \in 1 .. Len(source)
    /\ source[records[k].lineno].op \in ops_of(records[k].kind)

\* The symbols are the labels of the lines, and the names of their `.equ's.
Named ==
  /\ \A x \in DOMAIN symbols :
       \E j \in 1 .. Len(source) :
         \/ source[j].label = x
         \/ source[j].op = ".equ" /\ source[j].name = x
  /\ \A j \in 1 .. Len(source) :
       source[j].label # "" => source[j].label \in DOMAIN symbols

\* Records lie one behind the other, behind what has been emitted, and without
\* `.space' and `.align' they leave no gap.
Laid ==
  lines_with({".org"}) = {} =>
    /\ \A k \in 1 .. Len(records) :
         records[k].addr + sized(records[k]) <= addr[records[k].section]
    /\ \A j, k \in 1 .. Len(records) :
         j < k /\ records[j].section = records[k].section =>
           records[j].addr + sized(records[j]) <= records[k].addr
    /\ \A s \in Sections : \A b \in DOMAIN image[s] :
         /\ b < addr[s]
         /\ \A k \in 1 .. Len(records) :
              records[k].section = s => b < records[k].addr
    /\ written = Cardinality(DOMAIN image["text"])
                   + Cardinality(DOMAIN image["data"])
    /\ lines_with({".space", ".align"}) = {} =>
         \A s \in Sections : \A b \in 0 .. (addr[s] - 1) :
           \/ b \in DOMAIN image[s]
           \/ \E k \in 1 .. Len(records) :
                records[k].section = s /\ b \in extent(records[k])

\* The symbols of pass one still have the values a record was sized with.
Current ==
  stable =>
    \A k \in 1 .. Len(records) : records[k].kind = "insn" =>
      LET line == source[records[k].lineno]
      IN  /\ records[k].insns = expand(line, symbols)
          /\ line.op = "li" => defined(line.arg, symbols)
          /\ line.label # "" => symbols[line.label] = records[k].addr

\* A byte of the image is of a datum, or of a word its line expands to.
of_line(entry, b, lines, syms) ==
  LET w     == entry.of
      line  == lines[w.lineno]
      insns == expand(line, syms)
  IN  /\ w.lineno \in 1 .. Len(lines)
      /\ \/ line.op \in {".word", ".byte"} /\ w.mnem = "data"
         \/ /\ line.op \in MNEMONICS /\ w.nth \in 1 .. Len(insns)
            /\ defined(line.arg, syms)
            /\ w = [lineno |-> w.lineno, nth |-> w.nth,
                    mnem |-> insns[w.nth].mnem,
                    val |-> encode_one(insns[w.nth], b - entry.byte, syms)]

Traced ==
  stable =>
    \A s \in Sections : \A b \in DOMAIN image[s] :
      of_line(image[s][b], b, source, symbols)

\* No instruction is lost: it has its record, or its words are in the image.
emitted_at(entry, b, j, n, line, syms) ==
  /\ entry.of.lineno = j /\ entry.of.nth = n /\ entry.byte = 0
  /\ n = 1 /\ line.label # "" => syms[line.label] = b

in_image(i, j, n, line, syms) ==
  \E s \in Sections : \E b \in DOMAIN i[s] :
    emitted_at(i[s][b], b, j, n, line, syms)

placed(j) ==
  \A n \in 1 .. Len(expand(source[j], symbols)) :
    in_image(image, j, n, source[j], symbols)

Kept ==
  stable /\ lines_with({".org"}) = {} =>
    \A j \in lines_with(MNEMONICS) :
      \/ \E k \in 1 .. Len(records) : records[k].lineno = j
      \/ placed(j)

Emptied == phase = "done" => records = <<>>

Consistent == Emptied /\ Blank /\ OfLines /\ Named /\ Laid /\ Current /\ Traced /\ Kept

\* After an error nothing is used any more.
AsmInv == Typed /\ (phase # "error" => Consistent)

----------------------------------------------------------------------------
(* Pass one: what a line does.                                             *)

\* The symbols a line defines; `.equ' may redefine one.
Tabled(line) ==
  /\ line.label \notin DOMAIN symbols
  /\ \A x \in DOMAIN symbols :
       /\ x \in DOMAIN symbols'
       /\ symbols'[x] = symbols[x] \/ (line.op = ".equ" /\ line.name = x)
  /\ \A x \in DOMAIN symbols' :
       /\ symbols'[x] \in Int
       /\ x \in DOMAIN symbols \/ x = line.label
            \/ (line.op = ".equ" /\ line.name = x)
  /\ line.label # "" =>
       /\ line.label \in DOMAIN symbols'
       /\ line.op \in MNEMONICS => symbols'[line.label] = addr[section]

\* Where a line leaves its section.
Moved(line, to) ==
  /\ section' \in Sections
  /\ to \in Nat /\ addr' = [addr EXCEPT ![section] = to]
  /\ line.op # ".org" => to >= addr[section]

\* The record of a line, which takes the room up to there.
record_of(r, line, to) ==
  /\ r.section = section /\ r.addr = addr[section]
  /\ r.lineno = Len(source) + 1
  /\ to = addr[section] + sized(r)
  /\ line.op \in ops_of(r.kind)
  /\ r.kind = "insn" =>
       /\ r.insns = expand(line, symbols')
       /\ line.op = "li" => defined(line.arg, symbols')

Recorded(line, to) ==
  \/ /\ records' = records /\ line.op \notin MNEMONICS
     /\ line.op \notin {".space", ".align", ".org"} => to = addr[section]
  \/ \E r \in Records : records' = Append(records, r) /\ record_of(r, line, to)

\* What a line that is accepted does.
Parsed(line, to) ==
  /\ line \in LINES /\ source' = Append(source, line)
  /\ phase = "parse" /\ phase' = "parse" /\ UNCHANGED <<image, written>>
  /\ Tabled(line) /\ Moved(line, to) /\ Recorded(line, to)

\* An expression whose symbol is known has a value.
LEMMA Evaluated ==
  ASSUME NEW e, e.off \in Int, NEW syms, defined(e, syms),
         \A x \in DOMAIN syms : syms[x] \in Int
  PROVE  eval_expr(e, syms) \in Int
<1>1. CASE e.sym = ""
  <2>1. eval_expr(e, syms) = e.off + 0
    BY <1>1, Zenon DEF eval_expr
  <2> QED
    BY <2>1
<1>2. CASE e.sym # ""
  <2>1. eval_expr(e, syms) = e.off + syms[e.sym]
    BY <1>2, Zenon DEF eval_expr
  <2>2. syms[e.sym] \in Int
    BY <1>2 DEF defined
  <2> QED
    BY <2>1, <2>2
<1> QED
  BY <1>1, <1>2

\* A table with a name bound has its value, and the others it had.
LEMMA Bound ==
  ASSUME NEW syms, NEW name, NEW v
  PROVE  /\ DOMAIN bind(syms, name, v) = DOMAIN syms \cup {name}
         /\ bind(syms, name, v)[name] = v
         /\ \A x \in DOMAIN syms :
              x # name => bind(syms, name, v)[x] = syms[x]
  BY DEF bind

\* The label of a line is a new name, of the address the line begins at.
LEMMA Labelled ==
  ASSUME Typed, NEW line \in LINES, ~duplicate(line)
  PROVE  /\ line.label \notin DOMAIN symbols
         /\ \A x \in DOMAIN symbols : /\ x \in DOMAIN with_label(line)
                                      /\ with_label(line)[x] = symbols[x]
         /\ \A x \in DOMAIN with_label(line) :
              /\ with_label(line)[x] \in Int
              /\ x \in DOMAIN symbols \/ x = line.label
         /\ line.label # "" => /\ line.label \in DOMAIN with_label(line)
                               /\ with_label(line)[line.label] = addr[section]
<1>1. addr[section] \in Int
  BY DEF Typed
<1>2. CASE line.label = ""
  BY <1>2 DEF with_label, duplicate, Typed
<1>3. CASE line.label # ""
  <2>1. with_label(line) = bind(symbols, line.label, addr[section])
    BY <1>3 DEF with_label
  <2> DEFINE B == bind(symbols, line.label, addr[section])
  <2>2. /\ DOMAIN B = DOMAIN symbols \cup {line.label}
        /\ B[line.label] = addr[section]
        /\ \A x \in DOMAIN symbols : x # line.label => B[x] = symbols[x]
    BY DEF bind
  <2>3. line.label \notin DOMAIN symbols /\ \A x \in DOMAIN symbols : symbols[x] \in Int
    BY DEF duplicate, Typed
  <2>4. with_label(line) = B
    BY <2>1
  <2> HIDE DEF B
  <2> QED
    BY <1>1, <2>2, <2>3, <2>4
<1> QED
  BY <1>2, <1>3

\* An instruction takes one word or two, and the long forms are a lui and an
\* addi.
LEMMA Expansion ==
  ASSUME NEW line \in LINES, line.op \in MNEMONICS, NEW syms,
         line.op = "li" => eval_expr(line.arg, syms) \in Int
  PROVE  /\ expand(line, syms) \in Seq(Insns)
         /\ Len(expand(line, syms)) \in {1, 2}
<1> DEFINE v == s32(eval_expr(line.arg, syms))
<1>1. line.arg \in Exprs
  BY DEF Exprs
<1>2. ASSUME NEW m \in MNEMONICS \cup {"lui"}, NEW p \in {"", "hi", "lo"},
             NEW e \in Exprs
      PROVE  insn(m, p, e) \in Insns
  BY DEF insn, Insns
<1>3. ASSUME NEW n \in Int
      PROVE  const(n) \in Exprs
  BY DEF const, Exprs
<1>4. ASSUME NEW a \in Insns
      PROVE  <<a>> \in Seq(Insns) /\ Len(<<a>>) \in {1, 2}
  OBVIOUS
<1>5. ASSUME NEW a \in Insns, NEW b \in Insns
      PROVE  <<a, b>> \in Seq(Insns) /\ Len(<<a, b>>) \in {1, 2}
  OBVIOUS
<1>6. "addi" \in MNEMONICS \cup {"lui"} /\ "lui" \in MNEMONICS \cup {"lui"}
  BY DEF MNEMONICS
<1>7. CASE line.op = "li"
  <2>1. eval_expr(line.arg, syms) % Modulus \in Int
    BY <1>7, Fields, Division
  <2>2. v \in Int
    BY <2>1, Fields DEF s32, u32
  <2>3. hi20(v) \in Int
    <3>1. v % Modulus \in Int
      BY <2>2, Fields, Division
    <3>2. ((v % Modulus) + HALF_LO) \div LO_SIZE \in Int
      BY <3>1, Fields, Division
    <3>3. (((v % Modulus) + HALF_LO) \div LO_SIZE) % HI_SIZE \in Int
      BY <3>2, Fields, Division
    <3> QED
      BY <3>3 DEF hi20, u32
  <2>4. lo12(v) \in Int
    <3>1. v % Modulus \in Int
      BY <2>2, Fields, Division
    <3>2. (v % Modulus) % LO_SIZE \in Int
      BY <3>1, Fields, Division
    <3> QED
      BY <3>2, Fields DEF lo12, u32
  <2>5. /\ insn("addi", "", const(v)) \in Insns
        /\ insn("lui", "", const(hi20(v))) \in Insns
        /\ insn("addi", "", const(lo12(v))) \in Insns
    BY <1>2, <1>3, <1>6, <2>2, <2>3, <2>4
  <2>6. expand(line, syms) =
          IF v \in I_RANGE THEN <<insn("addi", "", const(v))>>
          ELSE <<insn("lui", "", const(hi20(v))), insn("addi", "", const(lo12(v)))>>
    BY <1>7 DEF expand
  <2> QED
    BY <1>4, <1>5, <2>5, <2>6
<1>8. CASE line.op = "la"
  <2>1. expand(line, syms) = <<insn("lui", "hi", line.arg), insn("addi", "lo", line.arg)>>
    BY <1>8 DEF expand
  <2> QED
    BY <1>1, <1>2, <1>5, <1>6, <2>1
<1>9. CASE line.op \notin {"li", "la"}
  <2>1. expand(line, syms) = <<insn(line.op, "", line.arg)>>
    BY <1>9 DEF expand
  <2> QED
    BY <1>1, <1>2, <1>4, <2>1
<1> QED
  BY <1>7, <1>8, <1>9

\* A label alone defines what Tabled says.
LEMMA LabelTabled ==
  ASSUME Typed, NEW line \in LINES, ~duplicate(line),
         symbols' = with_label(line)
  PROVE  Tabled(line)
  BY Labelled DEF Tabled

\* A section that stays where it is.
LEMMA Stays ==
  ASSUME Typed, NEW line, section' \in Sections, addr' = addr
  PROVE  Moved(line, addr[section])
  BY DEF Moved, Typed

\* A label, and nothing behind it.
LEMMA LabelOnlyParsed ==
  ASSUME Typed, phase = "parse", NEW line \in LINES,
         source' = Append(source, line), ~duplicate(line), LabelOnly(line)
  PROVE  Parsed(line, addr[section])
<1>1. Tabled(line)
  BY LabelTabled DEF LabelOnly
<1>2. Moved(line, addr[section])
  BY Stays DEF LabelOnly, Typed
<1>3. Recorded(line, addr[section])
  BY DEF LabelOnly, Recorded, MNEMONICS
<1> QED
  BY <1>1, <1>2, <1>3 DEF Parsed, LabelOnly

\* `.text' and `.data'.
LEMMA SectionParsed ==
  ASSUME Typed, phase = "parse", NEW line \in LINES,
         source' = Append(source, line), ~duplicate(line), Section(line)
  PROVE  Parsed(line, addr[section])
<1>1. Tabled(line)
  BY LabelTabled DEF Section
<1>2. Moved(line, addr[section])
  BY Stays DEF Section, Sections
<1>3. Recorded(line, addr[section])
  BY DEF Section, Recorded, MNEMONICS
<1> QED
  BY <1>1, <1>2, <1>3 DEF Parsed, Section

\* `.equ'.
LEMMA EquParsed ==
  ASSUME Typed, phase = "parse", NEW line \in LINES,
         source' = Append(source, line), ~duplicate(line), Equ(line), ~fail
  PROVE  Parsed(line, addr[section])
<1> DEFINE syms == with_label(line)
           v    == eval_expr(line.arg, syms)
           B    == bind(syms, line.name, v)
<1>1. /\ line.op = ".equ" /\ defined(line.arg, syms) /\ symbols' = B
      /\ UNCHANGED <<phase, section, addr, records, used, image, written>>
  BY DEF Equ
<1>2. v \in Int
  BY <1>1, Evaluated, Labelled, LinesAssumption
<1>3. /\ DOMAIN B = DOMAIN syms \cup {line.name} /\ B[line.name] = v
      /\ \A x \in DOMAIN syms : x # line.name => B[x] = syms[x]
  BY DEF bind
<1>4. Tabled(line)
  <2>1. ".equ" \notin MNEMONICS
    BY DEF MNEMONICS
  <2> HIDE DEF B, v
  <2>2. ASSUME NEW x \in DOMAIN symbols
        PROVE  /\ x \in DOMAIN B
               /\ B[x] = symbols[x] \/ line.name = x
    BY <1>3, Labelled
  <2>3. ASSUME NEW x \in DOMAIN B
        PROVE  /\ B[x] \in Int
               /\ x \in DOMAIN symbols \/ x = line.label \/ line.name = x
    BY <1>2, <1>3, Labelled
  <2>4. line.label # "" => line.label \in DOMAIN B
    BY <1>3, Labelled
  <2> QED
    BY <1>1, <2>1, <2>2, <2>3, <2>4, Labelled DEF Tabled
<1>5. Moved(line, addr[section])
  BY <1>1, Stays DEF Typed
<1>6. Recorded(line, addr[section])
  BY <1>1 DEF Recorded, MNEMONICS
<1> QED
  BY <1>1, <1>4, <1>5, <1>6 DEF Parsed

\* `.word' and `.byte'.
LEMMA DataParsed ==
  ASSUME Typed, phase = "parse", NEW line \in LINES,
         source' = Append(source, line), ~duplicate(line), Data(line)
  PROVE  Parsed(line, addr[section] + size_of(line.op))
<1> DEFINE r == [kind |-> "data", section |-> section, addr |-> addr[section],
                 size |-> size_of(line.op), value |-> line.arg,
                 lineno |-> Len(source')]
           to == addr[section] + size_of(line.op)
<1>1. Tabled(line)
  BY LabelTabled DEF Data
<1>2. size_of(line.op) \in {1, 4} /\ addr[section] \in Nat /\ section \in Sections
  BY DEF size_of, Typed
<1>3. Moved(line, to)
  BY <1>2 DEF Data, Moved, advance, here
<1>4. Len(source') = Len(source) + 1 /\ Len(source') \in Nat
  BY Appending DEF Typed
<1>5. r \in Records
  BY <1>2, <1>4 DEF Records, DataRecords, Exprs
<1>6. sized(r) = size_of(line.op)
  BY DEF sized
<1>7. line.op \in ops_of(r.kind) /\ records' = Append(records, r)
  BY DEF Data, ops_of, here
<1>8. Recorded(line, to)
  BY <1>4, <1>5, <1>6, <1>7 DEF Recorded, record_of
<1> QED
  BY <1>1, <1>3, <1>8 DEF Parsed, Data

\* An instruction, expanded with the symbols known so far.
LEMMA InstructionParsed ==
  ASSUME Typed, phase = "parse", NEW line \in LINES,
         source' = Append(source, line), ~duplicate(line),
         Instruction(line), ~fail
  PROVE  \E to : Parsed(line, to)
<1> DEFINE insns == expand(line, with_label(line))
           r == [kind |-> "insn", section |-> section, addr |-> addr[section],
                 insns |-> insns, lineno |-> Len(source')]
           to == addr[section] + 4 * Len(insns)
<1>1. /\ line.op \in MNEMONICS /\ add_instruction(line)
      /\ line.op = "li" => defined(line.arg, with_label(line))
  BY DEF Instruction
<1>2. Tabled(line)
  BY <1>1, LabelTabled DEF add_instruction
<1>3. insns \in Seq(Insns) /\ Len(insns) \in {1, 2}
  <2>1. line.op = "li" => eval_expr(line.arg, with_label(line)) \in Int
    BY <1>1, Evaluated, Labelled, LinesAssumption
  <2> QED
    BY <1>1, <2>1, Expansion
<1>4. addr[section] \in Nat /\ section \in Sections
  BY DEF Typed
<1> HIDE DEF insns
<1>5. to \in Nat /\ to >= addr[section]
  BY <1>3, <1>4
<1>6. Moved(line, to)
  BY <1>1, <1>4, <1>5 DEF add_instruction, Moved, advance, here, insns
<1>7. Len(source') = Len(source) + 1 /\ Len(source') \in Nat
  BY Appending DEF Typed
<1>8. r \in Records
  BY <1>3, <1>4, <1>7 DEF Records, InsnRecords
<1>9. sized(r) = 4 * Len(insns)
  BY DEF sized
<1>10. line.op \in ops_of(r.kind) /\ records' = Append(records, r)
  BY <1>1 DEF add_instruction, ops_of, here, insns
<1>11. symbols' = with_label(line)
  BY <1>1 DEF add_instruction
<1>12. Recorded(line, to)
  BY <1>1, <1>7, <1>8, <1>9, <1>10, <1>11 DEF Recorded, record_of, insns
<1>13. UNCHANGED <<phase, image, written>>
  BY <1>1 DEF add_instruction
<1> QED
  BY <1>2, <1>6, <1>12, <1>13 DEF Parsed

\* `.space', `.align' and `.org'.
LEMMA MoveParsed ==
  ASSUME Typed, phase = "parse", NEW line \in LINES,
         source' = Append(source, line), ~duplicate(line), Move(line), ~fail
  PROVE  \E to : Parsed(line, to)
<1> DEFINE n == eval_expr(line.arg, with_label(line))
           a == addr[section]
           to == CASE line.op = ".space" -> a + n
                   [] line.op = ".org"   -> n
                   [] line.op = ".align" -> ((a + n - 1) \div n) * n
<1>1. /\ line.op \in {".space", ".align", ".org"}
      /\ symbols' = with_label(line) /\ advance(to)
      /\ defined(line.arg, with_label(line)) /\ ~(n < 0)
      /\ line.op = ".align" => is_power_of_two(n)
      /\ UNCHANGED <<phase, section, records, image, written>>
  BY DEF Move, here
<1>2. n \in Int
  BY <1>1, Evaluated, Labelled, LinesAssumption
<1>3. a \in Nat /\ section \in Sections
  BY DEF Typed
<1>4. line.op = ".align" => n > 0
  BY <1>1 DEF is_power_of_two
<1>5. Tabled(line)
  BY <1>1, LabelTabled
<1> HIDE DEF n, a
<1>6. to \in Nat /\ (line.op # ".org" => to >= a)
  <2>1. CASE line.op = ".space"
    <3>1. to = a + n
      BY <2>1
    <3> QED
      BY <1>1, <1>2, <1>3, <3>1
  <2>2. CASE line.op = ".org"
    <3>1. to = n
      BY <2>2
    <3> QED
      BY <1>1, <1>2, <2>2, <3>1
  <2>3. CASE line.op = ".align"
    <3> DEFINE q == (a + n - 1) \div n
    <3>1. to = q * n
      BY <2>3
    <3> HIDE DEF to
    <3>2. a + n - 1 \in Int /\ n \in Nat
      BY <1>2, <1>3, <1>4, <2>3
    <3>3. /\ q \in Int /\ (a + n - 1) % n \in 0 .. (n - 1)
          /\ a + n - 1 = n * q + ((a + n - 1) % n)
      BY <1>4, <2>3, <3>2, Division
    <3> HIDE DEF q
    <3>4. n * q >= a /\ n * q \in Int
      BY <1>3, <3>2, <3>3
    <3>5. q * n = n * q
      BY <3>2, <3>3
    <3>6. to = n * q
      BY <3>1, <3>5
    <3> QED
      BY <1>3, <3>4, <3>6
  <2> QED
    BY <1>1, <2>1, <2>2, <2>3
<1> HIDE DEF to
<1>7. Moved(line, to)
  BY <1>1, <1>3, <1>6 DEF Moved, advance, a
<1>8. Recorded(line, to)
  BY <1>1 DEF Recorded, MNEMONICS
<1> QED
  BY <1>1, <1>5, <1>7, <1>8 DEF Parsed

\* A line is rejected, or does what Parsed says.
LEMMA LineParsed ==
  ASSUME Typed, Line
  PROVE  \/ fail /\ \E line \in LINES : source' = Append(source, line)
         \/ \E line, to : Parsed(line, to)
<1>1. PICK line \in LINES :
        /\ source' = Append(source, line)
        /\ IF duplicate(line) THEN fail
           ELSE \/ LabelOnly(line) \/ Instruction(line) \/ Data(line)
                \/ Move(line) \/ Equ(line) \/ Section(line)
  BY DEF Line
<1>2. phase = "parse"
  BY DEF Line
<1>3. CASE fail
  BY <1>1, <1>3
<1>4. CASE ~fail
  BY <1>1, <1>2, <1>4, LabelOnlyParsed, InstructionParsed, DataParsed,
     MoveParsed, EquParsed, SectionParsed
<1> QED
  BY <1>3, <1>4

----------------------------------------------------------------------------
(* Pass one keeps the invariant.                                           *)

\* What a record is made of.
LEMMA RecordFields ==
  ASSUME NEW r \in Records
  PROVE  /\ r.section \in Sections /\ r.addr \in Nat /\ sized(r) \in Nat
         /\ r.kind = "insn" => r \in InsnRecords
         /\ r.kind # "insn" => r \in DataRecords
<1>1. CASE r \in InsnRecords
  <2>1. r.insns \in Seq(Insns) /\ r.kind = "insn"
    BY <1>1 DEF InsnRecords
  <2>2. Len(r.insns) \in Nat
    BY <2>1, Element
  <2>3. sized(r) = 4 * Len(r.insns)
    BY <2>1 DEF sized
  <2> QED
    BY <1>1, <2>1, <2>2, <2>3 DEF InsnRecords
<1>2. CASE r \in DataRecords
  BY <1>2 DEF DataRecords, sized
<1> QED
  BY <1>1, <1>2 DEF Records

\* The source after one more line.
LEMMA SourceGrows ==
  ASSUME Typed, NEW line \in LINES, source' = Append(source, line)
  PROVE  /\ source' \in Seq(LINES) /\ Len(source) \in Nat
         /\ Len(source') = Len(source) + 1
         /\ source'[Len(source) + 1] = line
         /\ \A j \in 1 .. Len(source) : source'[j] = source[j]
  BY Appending DEF Typed

\* The records after one more line.
LEMMA RecordsGrow ==
  ASSUME Typed, NEW line, NEW to, Parsed(line, to)
  PROVE  /\ records' \in Seq(Records)
         /\ Len(records) \in Nat /\ Len(records') \in Nat
         /\ Len(records') >= Len(records)
         /\ \A k \in 1 .. Len(records) : records'[k] = records[k]
         /\ \A k \in 1 .. Len(records') :
              \/ k \in 1 .. Len(records)
              \/ /\ k = Len(records) + 1 /\ record_of(records'[k], line, to)
         /\ Len(records') = Len(records)
              /\ line.op \notin {".space", ".align", ".org"} => to = addr[section]
         /\ \/ line.op \notin MNEMONICS
            \/ Len(records') = Len(records) + 1
<1>1. CASE records' = records /\ line.op \notin MNEMONICS
             /\ (line.op \notin {".space", ".align", ".org"} => to = addr[section])
  BY <1>1, Element DEF Typed
<1>2. ASSUME NEW r \in Records, records' = Append(records, r),
             record_of(r, line, to)
      PROVE  /\ records' \in Seq(Records) /\ Len(records) \in Nat
             /\ Len(records') = Len(records) + 1
             /\ records'[Len(records) + 1] = r
             /\ \A k \in 1 .. Len(records) : records'[k] = records[k]
  BY <1>2, Appending DEF Typed
<1>3. CASE \E r \in Records : records' = Append(records, r) /\ record_of(r, line, to)
  <2>1. PICK r \in Records : records' = Append(records, r) /\ record_of(r, line, to)
    BY <1>3
  <2> QED
    BY <1>2, <2>1
<1> QED
  BY <1>1, <1>3 DEF Parsed, Recorded

\* Types are kept.
LEMMA TypedParsed ==
  ASSUME Typed, NEW line, NEW to, Parsed(line, to)
  PROVE  Typed'
<1>1. source' \in Seq(LINES)
  BY SourceGrows DEF Parsed
<1>2. section' \in Sections /\ addr' \in [Sections -> Nat]
  BY DEF Parsed, Moved, Typed
<1>3. \A x \in DOMAIN symbols' : symbols'[x] \in Int
  BY DEF Parsed, Tabled
<1>4. records' \in Seq(Records)
  BY RecordsGrow
<1>5. image' = image /\ written' = written
  BY DEF Parsed
<1> QED
  BY <1>1, <1>2, <1>3, <1>4, <1>5 DEF Typed

\* That no instruction is without a record.
LEMMA BlankParsed ==
  ASSUME Typed, Blank, NEW line, NEW to, Parsed(line, to)
  PROVE  Blank'
<1>1. image' = image /\ written' = written /\ phase = "parse" /\ line \in LINES
      /\ source' = Append(source, line)
  BY DEF Parsed
<1>2. ASSUME NEW j \in 1 .. Len(source'), source'[j].op \in MNEMONICS
      PROVE  \E k \in 1 .. Len(records') : records'[k].lineno = j
  <2>1. CASE j \in 1 .. Len(source)
    <3>1. j \in lines_with(MNEMONICS)
      BY <1>1, <1>2, <2>1, SourceGrows DEF lines_with
    <3>2. PICK k \in 1 .. Len(records) : records[k].lineno = j
      BY <1>1, <3>1 DEF Blank
    <3> QED
      BY <3>2, RecordsGrow
  <2>2. CASE j = Len(source) + 1
    <3>1. line.op \in MNEMONICS
      BY <1>1, <1>2, <2>2, SourceGrows
    <3>2. /\ Len(records) + 1 \in 1 .. Len(records')
          /\ record_of(records'[Len(records) + 1], line, to)
      BY <3>1, RecordsGrow
    <3> QED
      BY <2>2, <3>2 DEF record_of
  <2> QED
    BY <1>1, <1>2, <2>1, <2>2, SourceGrows
<1> QED
  BY <1>1, <1>2 DEF Blank, lines_with

\* That records are of lines.
LEMMA OfLinesParsed ==
  ASSUME Typed, OfLines, NEW line, NEW to, Parsed(line, to)
  PROVE  OfLines'
<1>1. line \in LINES /\ source' = Append(source, line)
  BY DEF Parsed
<1> SUFFICES ASSUME NEW k \in 1 .. Len(records')
             PROVE  /\ records'[k].lineno \in 1 .. Len(source')
                    /\ source'[records'[k].lineno].op \in ops_of(records'[k].kind)
  BY DEF OfLines
<1>2. CASE k \in 1 .. Len(records)
  BY <1>1, <1>2, RecordsGrow, SourceGrows DEF OfLines
<1>3. CASE record_of(records'[k], line, to)
  BY <1>1, <1>3, SourceGrows DEF record_of
<1> QED
  BY <1>2, <1>3, RecordsGrow

\* Where symbols come from.
LEMMA NamedParsed ==
  ASSUME Typed, Named, NEW line, NEW to, Parsed(line, to)
  PROVE  Named'
<1>1. line \in LINES /\ source' = Append(source, line) /\ Tabled(line)
  BY DEF Parsed
<1>2. ASSUME NEW x \in DOMAIN symbols'
      PROVE  \E j \in 1 .. Len(source') :
               \/ source'[j].label = x
               \/ source'[j].op = ".equ" /\ source'[j].name = x
  <2>1. CASE x \in DOMAIN symbols
    <3>1. PICK j \in 1 .. Len(source) :
            \/ source[j].label = x
            \/ source[j].op = ".equ" /\ source[j].name = x
      BY <2>1 DEF Named
    <3>2. j \in 1 .. Len(source') /\ source'[j] = source[j]
      BY <1>1, SourceGrows
    <3> QED
      BY <3>1, <3>2, Zenon
  <2>2. CASE x = line.label \/ (line.op = ".equ" /\ line.name = x)
    <3>1. Len(source) + 1 \in 1 .. Len(source') /\ source'[Len(source) + 1] = line
      BY <1>1, SourceGrows
    <3> QED
      BY <2>2, <3>1
  <2> QED
    BY <1>1, <1>2, <2>1, <2>2 DEF Tabled
<1>3. ASSUME NEW j \in 1 .. Len(source'), source'[j].label # ""
      PROVE  source'[j].label \in DOMAIN symbols'
  <2>1. CASE j \in 1 .. Len(source)
    BY <1>1, <1>3, <2>1, SourceGrows DEF Named, Tabled
  <2>2. CASE j = Len(source) + 1
    BY <1>1, <1>3, <2>2, SourceGrows DEF Tabled
  <2> QED
    BY <1>1, <2>1, <2>2, SourceGrows
<1> QED
  BY <1>2, <1>3 DEF Named

\* The addresses of what has been read.
LEMMA LaidParsed ==
  ASSUME Typed, Blank, Laid, NEW line, NEW to, Parsed(line, to)
  PROVE  Laid'
<1>1. /\ line \in LINES /\ source' = Append(source, line) /\ phase = "parse"
      /\ image' = image /\ written' = written
  BY DEF Parsed
<1> SUFFICES ASSUME lines_with({".org"})' = {}
             PROVE  Laid'
  BY DEF Laid
<1> DEFINE NoGaps == lines_with({".space", ".align"}) = {}
<1>2. lines_with({".org"}) = {} /\ line.op # ".org"
  BY <1>1, SourceGrows DEF lines_with
<1>3. NoGaps' => NoGaps /\ line.op \notin {".space", ".align"}
  BY <1>1, SourceGrows DEF lines_with
<1>4. /\ section \in Sections /\ addr \in [Sections -> Nat] /\ to \in Nat
      /\ to >= addr[section] /\ addr' = [addr EXCEPT ![section] = to]
  BY <1>2 DEF Parsed, Moved, Typed
<1>5. \A s \in Sections : addr'[s] \in Nat /\ addr'[s] >= addr[s] /\ addr[s] \in Nat
  BY <1>4
<1>6. addr'[section] = to
  BY <1>4
<1>7. \A s \in Sections : s # section => addr'[s] = addr[s]
  BY <1>4
<1>8. \A k \in 1 .. Len(records') :
        /\ records'[k] \in Records /\ records'[k].section \in Sections
        /\ records'[k].addr \in Nat /\ sized(records'[k]) \in Nat
  BY RecordsGrow, Element, RecordFields
<1>9. ASSUME NEW k \in 1 .. Len(records)
      PROVE  records[k].addr + sized(records[k]) <= addr[records[k].section]
  BY <1>2, <1>9 DEF Laid
<1>10. ASSUME NEW k \in 1 .. Len(records')
       PROVE  records'[k].addr + sized(records'[k]) <= addr'[records'[k].section]
  <2>1. CASE k \in 1 .. Len(records)
    <3>1. records'[k] = records[k]
      BY <2>1, RecordsGrow
    <3>2. records[k].addr + sized(records[k]) <= addr[records[k].section]
      BY <1>9, <2>1
    <3> QED
      BY <1>5, <1>8, <3>1, <3>2
  <2>2. CASE record_of(records'[k], line, to)
    BY <1>4, <1>6, <1>8, <2>2 DEF record_of
  <2> QED
    BY <2>1, <2>2, RecordsGrow
<1>11. ASSUME NEW j \in 1 .. Len(records'), NEW k \in 1 .. Len(records'),
              j < k, records'[j].section = records'[k].section
       PROVE  records'[j].addr + sized(records'[j]) <= records'[k].addr
  <2>1. CASE k \in 1 .. Len(records)
    <3>1. j \in 1 .. Len(records)
      BY <1>11, <2>1, RecordsGrow
    <3>2. records'[j] = records[j] /\ records'[k] = records[k]
      BY <2>1, <3>1, RecordsGrow
    <3> QED
      BY <1>2, <1>11, <2>1, <3>1, <3>2 DEF Laid
  <2>2. CASE k = Len(records) + 1 /\ record_of(records'[k], line, to)
    <3>1. j \in 1 .. Len(records)
      BY <1>11, <2>2, RecordsGrow
    <3>2. records'[j] = records[j]
      BY <3>1, RecordsGrow
    <3>3. records[j].addr + sized(records[j]) <= addr[records[j].section]
      BY <1>9, <3>1
    <3> QED
      BY <1>11, <2>2, <3>2, <3>3 DEF record_of
  <2> QED
    BY <2>1, <2>2, RecordsGrow
<1>12. \A s \in Sections : DOMAIN image'[s] = {} /\ DOMAIN image[s] = {}
  BY <1>1 DEF Blank
<1>13. written' = Cardinality(DOMAIN image'["text"]) + Cardinality(DOMAIN image'["data"])
  BY <1>1, <1>2 DEF Laid
<1>14. ASSUME NoGaps', NEW s \in Sections, NEW b \in 0 .. (addr'[s] - 1)
       PROVE  \E k \in 1 .. Len(records') :
                records'[k].section = s /\ b \in extent(records'[k])
  <2>1. CASE b \in 0 .. (addr[s] - 1)
    <3>1. PICK k \in 1 .. Len(records) :
            records[k].section = s /\ b \in extent(records[k])
      BY <1>2, <1>3, <1>12, <1>14, <2>1 DEF Laid
    <3>2. k \in 1 .. Len(records') /\ records'[k] = records[k]
      BY <3>1, RecordsGrow
    <3> QED
      BY <3>1, <3>2, Zenon
  <2>2. CASE b \notin 0 .. (addr[s] - 1)
    <3>1. s = section /\ b \in addr[section] .. (to - 1)
      BY <1>4, <1>5, <1>6, <1>7, <2>2
    <3>2. to # addr[section]
      BY <1>4, <3>1
    <3>3. line.op \notin {".space", ".align", ".org"}
      BY <1>2, <1>3, <1>14
    <3>4. Len(records') # Len(records)
      BY <3>2, <3>3, RecordsGrow
    <3>5. Len(records') \in 1 .. Len(records') /\ ~(Len(records') \in 1 .. Len(records))
      BY <3>4, RecordsGrow
    <3>6. record_of(records'[Len(records')], line, to)
      BY <3>5, RecordsGrow
    <3>7. /\ records'[Len(records')].section = s
          /\ b \in extent(records'[Len(records')])
      BY <1>4, <1>8, <3>1, <3>5, <3>6 DEF record_of, extent
    <3> QED
      BY <3>5, <3>7
  <2> QED
    BY <2>1, <2>2
<1> QED
  BY <1>10, <1>11, <1>12, <1>13, <1>14 DEF Laid

\* While every name has one value, the symbols keep theirs.
LEMMA StableBefore ==
  ASSUME Typed, Named, NEW line, NEW to, Parsed(line, to), stable'
  PROVE  /\ stable
         /\ \A x \in DOMAIN symbols :
              x \in DOMAIN symbols' /\ symbols'[x] = symbols[x]
<1>1. line \in LINES /\ source' = Append(source, line) /\ Tabled(line)
  BY DEF Parsed
<1>2. ASSUME NEW j \in 1 .. Len(source)
      PROVE  j \in 1 .. Len(source') /\ source'[j] = source[j]
  BY <1>1, SourceGrows
<1>3. ASSUME NEW j \in 1 .. Len(source'), NEW k \in 1 .. Len(source'), j # k,
             source'[j].op = ".equ"
      PROVE  /\ source'[k].label # source'[j].name
             /\ source'[k].op = ".equ" => source'[k].name # source'[j].name
  BY <1>3 DEF stable
<1>4. stable
  BY <1>2, <1>3 DEF stable
<1>5. ASSUME NEW x \in DOMAIN symbols, line.op = ".equ", line.name = x
      PROVE  FALSE
  <2>1. PICK j \in 1 .. Len(source) :
          \/ source[j].label = x
          \/ source[j].op = ".equ" /\ source[j].name = x
    BY DEF Named
  <2>2. /\ Len(source) + 1 \in 1 .. Len(source') /\ j # Len(source) + 1
        /\ source'[Len(source) + 1] = line
    BY <1>1, SourceGrows
  <2>3. j \in 1 .. Len(source') /\ source'[j] = source[j]
    BY <1>2
  <2> QED
    BY <1>3, <1>5, <2>1, <2>2, <2>3
<1> QED
  BY <1>1, <1>4, <1>5 DEF Tabled

\* An expansion depends on the symbol its expression names alone.
LEMMA SameExpansion ==
  ASSUME NEW line, NEW old, NEW new, defined(line.arg, old),
         \A x \in DOMAIN old : x \in DOMAIN new /\ new[x] = old[x]
  PROVE  /\ defined(line.arg, new)
         /\ eval_expr(line.arg, new) = eval_expr(line.arg, old)
         /\ expand(line, new) = expand(line, old)
<1>1. defined(line.arg, new)
  BY DEF defined
<1>2. eval_expr(line.arg, new) = eval_expr(line.arg, old)
  <2>1. CASE line.arg.sym = ""
    BY <2>1, Zenon DEF eval_expr
  <2>2. CASE line.arg.sym # ""
    <3>1. new[line.arg.sym] = old[line.arg.sym]
      BY <2>2 DEF defined
    <3> QED
      BY <3>1, Zenon DEF eval_expr
  <2> QED
    BY <2>1, <2>2
<1>3. expand(line, new) = expand(line, old)
  BY <1>2, Zenon DEF expand
<1> QED
  BY <1>1, <1>2, <1>3

\* What is not an `li' expands to the same whatever the symbols are.
LEMMA FixedExpansion ==
  ASSUME NEW line, NEW old, NEW new, line.op # "li"
  PROVE  expand(line, new) = expand(line, old)
<1>1. CASE line.op = "la"
  BY <1>1, Zenon DEF expand
<1>2. CASE line.op # "la"
  <2>1. \A syms : expand(line, syms) = <<insn(line.op, "", line.arg)>>
    BY <1>2, Zenon DEF expand
  <2> QED
    BY <2>1, Zenon
<1> QED
  BY <1>1, <1>2

\* That records are what their lines expand to.
LEMMA CurrentParsed ==
  ASSUME Typed, OfLines, Named, Current, NEW line, NEW to, Parsed(line, to)
  PROVE  Current'
<1>1. line \in LINES /\ source' = Append(source, line) /\ Tabled(line)
  BY DEF Parsed
<1> SUFFICES ASSUME stable', NEW k \in 1 .. Len(records'),
                    records'[k].kind = "insn"
             PROVE  LET l == source'[records'[k].lineno]
                    IN  /\ records'[k].insns = expand(l, symbols')
                        /\ l.op = "li" => defined(l.arg, symbols')
                        /\ l.label # "" => symbols'[l.label] = records'[k].addr
  BY DEF Current
<1> DEFINE r == records'[k]
           l == source'[r.lineno]
<1>2. stable /\ \A x \in DOMAIN symbols : x \in DOMAIN symbols'
                                           /\ symbols'[x] = symbols[x]
  BY StableBefore
<1>3. CASE k \in 1 .. Len(records)
  <2>1. r = records[k]
    BY <1>3, RecordsGrow
  <2>2. r.lineno \in 1 .. Len(source)
    BY <1>3, <2>1 DEF OfLines
  <2>3. l = source[r.lineno]
    BY <1>1, <2>2, SourceGrows
  <2>4. /\ r.insns = expand(l, symbols)
        /\ l.op = "li" => defined(l.arg, symbols)
        /\ l.label # "" => symbols[l.label] = r.addr
    BY <1>2, <1>3, <2>1, <2>3 DEF Current
  <2>5. l.label # "" => l.label \in DOMAIN symbols
    BY <2>2, <2>3 DEF Named
  <2> HIDE DEF r, l
  <2>6. CASE l.op = "li"
    <3>1. defined(l.arg, symbols') /\ expand(l, symbols') = expand(l, symbols)
      BY <1>2, <2>4, <2>6, SameExpansion
    <3> QED
      BY <1>2, <2>4, <2>5, <3>1 DEF r, l
  <2>7. CASE l.op # "li"
    <3>1. expand(l, symbols') = expand(l, symbols)
      BY <2>7, FixedExpansion
    <3> QED
      BY <1>2, <2>4, <2>5, <2>7, <3>1 DEF r, l
  <2> QED
    BY <2>6, <2>7
<1>4. CASE record_of(r, line, to)
  <2>1. l = line
    BY <1>1, <1>4, SourceGrows DEF record_of
  <2>2. line.op \in MNEMONICS /\ r.addr = addr[section]
    BY <1>4 DEF record_of, ops_of
  <2>3. line.label # "" => symbols'[line.label] = r.addr
    BY <1>1, <2>2 DEF Tabled
  <2> QED
    BY <1>4, <2>1, <2>3 DEF record_of
<1> QED
  BY <1>3, <1>4, RecordsGrow

\* A line that is accepted keeps the invariant.
LEMMA LineConsistent ==
  ASSUME Typed, Consistent, NEW line, NEW to, Parsed(line, to)
  PROVE  Typed' /\ Consistent'
<1>1. Typed' /\ Blank' /\ OfLines' /\ Named' /\ Laid' /\ Current'
  BY TypedParsed, BlankParsed, OfLinesParsed, NamedParsed, LaidParsed,
     CurrentParsed DEF Consistent
<1>2. phase' = "parse"
  BY DEF Parsed
<1>3. Traced'
  BY <1>1, <1>2 DEF Traced, Blank
<1>4. Kept'
  BY <1>1, <1>2 DEF Kept, Blank
<1>5. Emptied'
  BY <1>2 DEF Emptied
<1> QED
  BY <1>1, <1>3, <1>4, <1>5 DEF Consistent

----------------------------------------------------------------------------
(* Pass two: what a record becomes.                                        *)

\* The bytes of an instruction, word by word.
LEMMA InsnEmitted ==
  ASSUME NEW r \in Records, r.kind = "insn"
  PROVE  /\ DOMAIN emitted(r) = extent(r)
         /\ \A b \in extent(r) : \E q \in Nat :
              /\ q + 1 \in 1 .. Len(r.insns) /\ b - (r.addr + 4 * q) \in 0 .. 3
              /\ emitted(r)[b].byte = b - (r.addr + 4 * q)
              /\ emitted(r)[b].of =
                   [lineno |-> r.lineno, nth |-> q + 1,
                    mnem |-> r.insns[q + 1].mnem,
                    val |-> encode_one(r.insns[q + 1], r.addr + 4 * q, symbols)]
<1> DEFINE n  == Len(r.insns)
           ws == words_of(r)
           W(k) == [lineno |-> r.lineno, nth |-> k, mnem |-> r.insns[k].mnem,
                    val |-> encode_one(r.insns[k], r.addr + 4 * (k - 1), symbols)]
<1>1. n \in Nat /\ r.addr \in Nat
  BY Element, RecordFields DEF InsnRecords
<1>2. ws = [k \in 1 .. n |-> W(k)]
  BY DEF words_of
<1> HIDE DEF W
<1>3. Len(ws) = n /\ \A k \in 1 .. n : ws[k] = W(k)
  <2>1. ws \in [1 .. n -> {W(k) : k \in 1 .. n}]
    BY <1>2
  <2> HIDE DEF ws
  <2>2. Len(ws) = n
    BY <1>1, <2>1, LengthOf
  <2>3. \A k \in 1 .. n : ws[k] = W(k)
    BY <1>2
  <2> QED
    BY <2>2, <2>3
<1> HIDE DEF ws, n
<1>4. emitted(r) = [b \in r.addr .. (r.addr + 4 * n - 1) |->
                      bytes(ws[(b - r.addr) \div 4 + 1],
                            r.addr + 4 * ((b - r.addr) \div 4), 4)[b]]
  BY <1>3 DEF emitted, ws
<1>5. extent(r) = r.addr .. (r.addr + 4 * n - 1)
  BY DEF extent, sized, n
<1>6. ASSUME NEW b \in extent(r)
      PROVE  \E q \in Nat :
               /\ q + 1 \in 1 .. n /\ b - (r.addr + 4 * q) \in 0 .. 3
               /\ emitted(r)[b].byte = b - (r.addr + 4 * q)
               /\ emitted(r)[b].of = W(q + 1)
  <2> DEFINE q == (b - r.addr) \div 4
             a == r.addr + 4 * q
  <2>1. b \in Nat /\ q \in Nat /\ q + 1 \in 1 .. n /\ b \in a .. (a + 4 - 1)
    <3> DEFINE d == b - r.addr
    <3>1. b \in Nat /\ d \in 0 .. (4 * n - 1)
      BY <1>1, <1>5
    <3>2. q \in Int /\ d % 4 \in 0 .. 3 /\ d = 4 * q + (d % 4)
      BY <3>1, Division
    <3> HIDE DEF q
    <3>3. b = r.addr + d
      BY <1>1, <3>1
    <3> HIDE DEF d
    <3> QED
      BY <1>1, <3>1, <3>2, <3>3
  <2>2. emitted(r)[b] = bytes(ws[q + 1], a, 4)[b]
    BY <1>4, <1>5
  <2> HIDE DEF q
  <2>3. bytes(ws[q + 1], a, 4)[b] = [of |-> ws[q + 1], byte |-> b - a]
    BY <2>1 DEF bytes
  <2>4. ws[q + 1] = W(q + 1)
    BY <1>3, <2>1
  <2>5. emitted(r)[b].of = W(q + 1) /\ emitted(r)[b].byte = b - a
    BY <2>2, <2>3, <2>4
  <2>6. b - a \in 0 .. 3
    BY <1>1, <2>1
  <2> QED
    BY <2>1, <2>5, <2>6
<1>7. \A q \in Nat : r.addr + 4 * ((q + 1) - 1) = r.addr + 4 * q
  BY <1>1
<1>8. DOMAIN emitted(r) = extent(r)
  BY <1>4, <1>5
<1> QED
  BY <1>6, <1>7, <1>8 DEF W, n

\* The bytes of a datum.
LEMMA DataEmitted ==
  ASSUME NEW r \in Records, r.kind = "data"
  PROVE  /\ DOMAIN emitted(r) = extent(r)
         /\ \A b \in extent(r) : /\ emitted(r)[b].of.lineno = r.lineno
                                 /\ emitted(r)[b].of.mnem = "data"
<1> DEFINE w == [lineno |-> r.lineno, nth |-> 1, mnem |-> "data",
                 val |-> u32(eval_expr(r.value, symbols))]
<1>1. emitted(r) = bytes(w, r.addr, r.size)
  BY DEF emitted
<1>2. extent(r) = r.addr .. (r.addr + r.size - 1)
  BY DEF extent, sized
<1> HIDE DEF w
<1>3. DOMAIN emitted(r) = extent(r) /\ \A b \in extent(r) : emitted(r)[b].of = w
  BY <1>1, <1>2 DEF bytes
<1> QED
  BY <1>3 DEF w

----------------------------------------------------------------------------
(* Pass two keeps the invariant.                                           *)

\* What emitting the first record does.
Emits(r) ==
  /\ r \in Records /\ Len(records) \in Nat /\ Len(records) >= 1 /\ r = records[1]
  /\ acceptable(r)
  /\ phase = "encode" /\ UNCHANGED <<phase, source, section, addr, symbols>>
  /\ records' \in Seq(Records) /\ Len(records') = Len(records) - 1
  /\ \A k \in 1 .. Len(records') : records'[k] = records[k + 1]
  /\ written' = written + Cardinality(extent(r))
  /\ DOMAIN image' = Sections
  /\ \A s \in Sections :
       DOMAIN image'[s] = IF s = r.section THEN extent(r) \cup DOMAIN image[s]
                          ELSE DOMAIN image[s]
  /\ \A s \in Sections : \A b \in DOMAIN image[s] :
       (s = r.section /\ b \in extent(r)) \/ image'[s][b] = image[s][b]
  /\ \A b \in extent(r) : image'[r.section][b] = emitted(r)[b]

\* A record is rejected, or emitted.
LEMMA RecordEmitted ==
  ASSUME Typed, Encode
  PROVE  \/ fail /\ UNCHANGED source
         \/ Emits(records[1])
<1> DEFINE r   == Head(records)
           new == emitted(r)
<1>1. /\ phase = "encode" /\ records # <<>> /\ UNCHANGED source
  BY DEF Encode
<1>2. /\ Len(records) \in Nat /\ Len(records) >= 1 /\ r = records[1] /\ r \in Records
      /\ Tail(records) \in Seq(Records) /\ Len(Tail(records)) = Len(records) - 1
      /\ \A k \in 1 .. Len(records) - 1 : Tail(records)[k] = records[k + 1]
  BY <1>1, Dropping DEF Typed
<1>3. CASE ~acceptable(r) \/ (\E b \in DOMAIN new : b >= MEM_BYTES)
  BY <1>1, <1>3 DEF Encode
<1>4. CASE ~(~acceptable(r) \/ (\E b \in DOMAIN new : b >= MEM_BYTES))
  <2>1. /\ acceptable(r)
        /\ image' = [image EXCEPT ![r.section] = overlay(new, image[r.section])]
        /\ records' = Tail(records)
        /\ written' = written + Cardinality(DOMAIN new)
        /\ UNCHANGED <<phase, section, addr, symbols>>
    BY <1>4 DEF Encode
  <2>2. DOMAIN new = extent(r)
    BY <1>2, InsnEmitted, DataEmitted, RecordFields DEF InsnRecords, DataRecords
  <2> HIDE DEF new
  <2>3. r.section \in Sections /\ DOMAIN image = Sections
    BY <1>2, RecordFields DEF Typed
  <2>4. /\ DOMAIN overlay(new, image[r.section]) = extent(r) \cup DOMAIN image[r.section]
        /\ \A b \in extent(r) : overlay(new, image[r.section])[b] = new[b]
        /\ \A b \in DOMAIN image[r.section] :
             b \in extent(r) \/ overlay(new, image[r.section])[b] = image[r.section][b]
    BY <2>2 DEF overlay
  <2>5. /\ DOMAIN image' = Sections /\ image'[r.section] = overlay(new, image[r.section])
        /\ \A s \in Sections : s # r.section => image'[s] = image[s]
    BY <2>1, <2>3
  <2> HIDE DEF r
  <2>6. \A s \in Sections :
          DOMAIN image'[s] = IF s = r.section THEN extent(r) \cup DOMAIN image[s]
                             ELSE DOMAIN image[s]
    BY <2>4, <2>5
  <2>7. \A s \in Sections : \A b \in DOMAIN image[s] :
          (s = r.section /\ b \in extent(r)) \/ image'[s][b] = image[s][b]
    BY <2>4, <2>5
  <2>8. \A b \in extent(r) : image'[r.section][b] = emitted(r)[b]
    BY <2>4, <2>5 DEF new
  <2>9. /\ records' \in Seq(Records) /\ Len(records') = Len(records) - 1
        /\ \A k \in 1 .. Len(records') : records'[k] = records[k + 1]
    BY <1>2, <2>1
  <2>10. Emits(r)
    BY <1>1, <1>2, <2>1, <2>2, <2>5, <2>6, <2>7, <2>8, <2>9 DEF Emits
  <2> QED
    BY <1>2, <2>10
<1> QED
  BY <1>3, <1>4

\* Types are kept.
LEMMA TypedEmits ==
  ASSUME Typed, NEW r, Emits(r)
  PROVE  Typed'
<1>1. IsFiniteSet(extent(r)) /\ extent(r) \subseteq Nat
  <2>1. r.addr \in Nat /\ sized(r) \in Nat
    BY RecordFields DEF Emits
  <2>2. r.addr \in Int /\ r.addr + sized(r) - 1 \in Int
    BY <2>1
  <2>3. IsFiniteSet(extent(r))
    BY <2>2, FS_Interval DEF extent
  <2>4. extent(r) \subseteq Nat
    BY <2>1 DEF extent
  <2> QED
    BY <2>3, <2>4
<1>2. Cardinality(extent(r)) \in Nat
  BY <1>1, FS_CardinalityType
<1>3. ASSUME NEW s \in Sections
      PROVE  IsFiniteSet(DOMAIN image'[s]) /\ DOMAIN image'[s] \subseteq Nat
  <2>1. IsFiniteSet(DOMAIN image[s]) /\ DOMAIN image[s] \subseteq Nat
    BY DEF Typed
  <2>2. IsFiniteSet(extent(r) \cup DOMAIN image[s])
    BY <1>1, <2>1, FS_Union
  <2>3. DOMAIN image'[s] = extent(r) \cup DOMAIN image[s]
          \/ DOMAIN image'[s] = DOMAIN image[s]
    BY DEF Emits
  <2> QED
    BY <1>1, <2>1, <2>2, <2>3
<1>4. written' \in Nat
  BY <1>2 DEF Emits, Typed
<1>5. UNCHANGED <<source, section, addr, symbols>> /\ DOMAIN image' = Sections
      /\ records' \in Seq(Records)
  BY DEF Emits
<1> QED
  BY <1>3, <1>4, <1>5 DEF Typed

\* What is emitted lies where nothing is yet.
LEMMA Disjoint ==
  ASSUME Typed, Laid, lines_with({".org"}) = {}, NEW r, Emits(r)
  PROVE  /\ extent(r) \cap DOMAIN image[r.section] = {}
         /\ r.section \in Sections /\ r.addr \in Nat /\ sized(r) \in Nat
<1>1. r.section \in Sections /\ r.addr \in Nat /\ sized(r) \in Nat
  BY RecordFields DEF Emits
<1>2. 1 \in 1 .. Len(records) /\ r = records[1]
  BY DEF Emits
<1>3. \A b \in DOMAIN image[r.section] : b \in Nat /\ b < r.addr
  BY <1>1, <1>2 DEF Laid, Typed
<1> QED
  BY <1>1, <1>3 DEF extent

\* The addresses of what is left.
LEMMA LaidEmits ==
  ASSUME Typed, Laid, NEW r, Emits(r)
  PROVE  Laid'
<1>1. UNCHANGED <<source, addr>>
  BY DEF Emits
<1>2. lines_with({".org"})' = lines_with({".org"})
      /\ lines_with({".space", ".align"})' = lines_with({".space", ".align"})
  BY <1>1 DEF lines_with
<1> SUFFICES ASSUME lines_with({".org"}) = {}
             PROVE  Laid'
  BY <1>2 DEF Laid
<1>3. /\ extent(r) \cap DOMAIN image[r.section] = {}
      /\ r.section \in Sections /\ r.addr \in Nat /\ sized(r) \in Nat
  BY Disjoint
<1>4. /\ Len(records) \in Nat /\ Len(records') = Len(records) - 1
      /\ 1 \in 1 .. Len(records) /\ r = records[1]
      /\ \A k \in 1 .. Len(records') :
           /\ k + 1 \in 1 .. Len(records) /\ 1 < k + 1
           /\ records'[k] = records[k + 1]
  BY DEF Emits
<1>5. \A k \in 1 .. Len(records) :
        /\ records[k] \in Records /\ records[k].section \in Sections
        /\ records[k].addr \in Nat /\ sized(records[k]) \in Nat
  BY Element, RecordFields DEF Typed
<1>6. \A s \in Sections : addr[s] \in Nat /\ DOMAIN image[s] \subseteq Nat
  BY DEF Typed
<1>7. \A k \in 1 .. Len(records) :
        records[k].addr + sized(records[k]) <= addr[records[k].section]
  BY DEF Laid
<1>8. \A j, k \in 1 .. Len(records) :
        j < k /\ records[j].section = records[k].section =>
          records[j].addr + sized(records[j]) <= records[k].addr
  BY DEF Laid
<1>9. \A k \in 1 .. Len(records') :
        records'[k].addr + sized(records'[k]) <= addr'[records'[k].section]
  BY <1>1, <1>4, <1>7
<1>10. ASSUME NEW j \in 1 .. Len(records'), NEW k \in 1 .. Len(records'),
              j < k, records'[j].section = records'[k].section
       PROVE  records'[j].addr + sized(records'[j]) <= records'[k].addr
  <2>1. j + 1 < k + 1
    BY <1>4, <1>10
  <2> QED
    BY <1>4, <1>8, <1>10, <2>1
<1>11. ASSUME NEW s \in Sections, NEW b \in DOMAIN image'[s]
       PROVE  /\ b < addr'[s]
              /\ \A k \in 1 .. Len(records') :
                   records'[k].section = s => b < records'[k].addr
  <2>1. CASE b \in DOMAIN image[s]
    <3>1. /\ b < addr[s]
          /\ \A k \in 1 .. Len(records) : records[k].section = s => b < records[k].addr
      BY <2>1 DEF Laid
    <3> QED
      BY <1>1, <1>4, <3>1
  <2>2. CASE s = r.section /\ b \in extent(r)
    <3>1. b \in Nat /\ b < r.addr + sized(r)
      BY <1>3, <2>2 DEF extent
    <3>2. r.addr + sized(r) <= addr[s]
      BY <1>4, <1>7, <2>2
    <3>3. ASSUME NEW k \in 1 .. Len(records'), records'[k].section = s
          PROVE  r.addr + sized(r) <= records'[k].addr
      BY <1>4, <1>8, <2>2, <3>3
    <3>4. ASSUME NEW k \in 1 .. Len(records')
          PROVE  records'[k].addr \in Nat
      BY <1>4, <1>5
    <3> QED
      BY <1>1, <1>3, <1>6, <3>1, <3>2, <3>3, <3>4
  <2> QED
    BY <1>11, <2>1, <2>2 DEF Emits
<1>12. written' = Cardinality(DOMAIN image'["text"]) + Cardinality(DOMAIN image'["data"])
  <2> DEFINE old == DOMAIN image[r.section]
  <2>1. IsFiniteSet(old) /\ IsFiniteSet(extent(r))
    <3>1. r.addr \in Int /\ r.addr + sized(r) - 1 \in Int
      BY <1>3
    <3> QED
      BY <1>3, <3>1, FS_Interval DEF Typed, extent
  <2>2. Cardinality(extent(r) \cup old) = Cardinality(extent(r)) + Cardinality(old)
    <3>1. Cardinality(extent(r) \cap old) = 0
      BY <1>3, FS_EmptySet
    <3>2. Cardinality(extent(r)) \in Nat /\ Cardinality(old) \in Nat
      BY <2>1, FS_CardinalityType
    <3>3. Cardinality(extent(r) \cup old) =
            Cardinality(extent(r)) + Cardinality(old) - Cardinality(extent(r) \cap old)
      BY <2>1, FS_Union
    <3> QED
      BY <3>1, <3>2, <3>3
  <2>3. DOMAIN image'[r.section] = extent(r) \cup old
    BY <1>3 DEF Emits
  <2>4. \A s \in Sections : s # r.section => DOMAIN image'[s] = DOMAIN image[s]
    BY DEF Emits
  <2>5. /\ written = Cardinality(DOMAIN image["text"]) + Cardinality(DOMAIN image["data"])
        /\ written' = written + Cardinality(extent(r))
    BY DEF Laid, Emits
  <2>6. \A s \in Sections : Cardinality(DOMAIN image[s]) \in Nat
    BY FS_CardinalityType DEF Typed
  <2>7. Cardinality(extent(r)) \in Nat
    BY <2>1, FS_CardinalityType
  <2>8. CASE r.section = "text"
    <3>1. DOMAIN image'["data"] = DOMAIN image["data"]
      BY <2>4, <2>8 DEF Sections
    <3>2. Cardinality(DOMAIN image'["text"]) =
            Cardinality(extent(r)) + Cardinality(DOMAIN image["text"])
      BY <2>2, <2>3, <2>8
    <3>3. /\ Cardinality(DOMAIN image["text"]) \in Nat
          /\ Cardinality(DOMAIN image["data"]) \in Nat
      BY <2>6 DEF Sections
    <3> QED
      BY <2>5, <2>7, <3>1, <3>2, <3>3
  <2>9. CASE r.section = "data"
    <3>1. DOMAIN image'["text"] = DOMAIN image["text"]
      BY <2>4, <2>9 DEF Sections
    <3>2. Cardinality(DOMAIN image'["data"]) =
            Cardinality(extent(r)) + Cardinality(DOMAIN image["data"])
      BY <2>2, <2>3, <2>9
    <3>3. /\ Cardinality(DOMAIN image["text"]) \in Nat
          /\ Cardinality(DOMAIN image["data"]) \in Nat
      BY <2>6 DEF Sections
    <3> QED
      BY <2>5, <2>7, <3>1, <3>2, <3>3
  <2> QED
    BY <1>3, <2>8, <2>9 DEF Sections
<1>13. ASSUME lines_with({".space", ".align"}) = {},
              NEW s \in Sections, NEW b \in 0 .. (addr[s] - 1)
       PROVE  \/ b \in DOMAIN image'[s]
              \/ \E k \in 1 .. Len(records') :
                   records'[k].section = s /\ b \in extent(records'[k])
  <2>1. CASE b \in DOMAIN image[s]
    BY <2>1 DEF Emits
  <2>2. CASE \E k \in 1 .. Len(records) :
               records[k].section = s /\ b \in extent(records[k])
    <3>1. PICK k \in 1 .. Len(records) :
            records[k].section = s /\ b \in extent(records[k])
      BY <2>2
    <3>2. CASE k = 1
      BY <1>4, <3>1, <3>2 DEF Emits
    <3>3. CASE k # 1
      <4>1. k - 1 \in 1 .. Len(records') /\ (k - 1) + 1 = k
        BY <1>4, <3>1, <3>3
      <4>2. records'[k - 1] = records[k]
        BY <1>4, <4>1
      <4> QED
        BY <3>1, <4>1, <4>2, Zenon
    <3> QED
      BY <3>2, <3>3
  <2> QED
    BY <1>13, <2>1, <2>2 DEF Laid
<1> QED
  BY <1>1, <1>2, <1>9, <1>10, <1>11, <1>12, <1>13 DEF Laid

\* That the records left are of lines, and what those expand to.
LEMMA RestEmits ==
  ASSUME Typed, Blank, OfLines, Named, Current, NEW r, Emits(r)
  PROVE  Blank' /\ OfLines' /\ Named' /\ Current'
<1>1. /\ UNCHANGED <<phase, source, symbols>> /\ phase = "encode"
      /\ \A k \in 1 .. Len(records') :
           k + 1 \in 1 .. Len(records) /\ records'[k] = records[k + 1]
  BY DEF Emits
<1>2. Blank' /\ Named'
  BY <1>1 DEF Blank, Named
<1>3. OfLines'
  BY <1>1 DEF OfLines
<1>4. stable' = stable
  BY <1>1 DEF stable
<1>5. Current'
  BY <1>1, <1>4 DEF Current
<1> QED
  BY <1>2, <1>3, <1>5

\* The first instruction of what is not an `li' has the line's expression.
LEMMA FirstOperand ==
  ASSUME NEW line, line.op # "li", NEW syms
  PROVE  expand(line, syms)[1].e = line.arg
<1>1. ASSUME NEW m, NEW p
      PROVE  insn(m, p, line.arg).e = line.arg
  BY DEF insn
<1>2. ASSUME NEW a
      PROVE  <<a>>[1] = a
  OBVIOUS
<1>3. ASSUME NEW a, NEW b
      PROVE  <<a, b>>[1] = a
  OBVIOUS
<1>4. CASE line.op = "la"
  <2>1. expand(line, syms) = <<insn("lui", "hi", line.arg), insn("addi", "lo", line.arg)>>
    BY <1>4, Zenon DEF expand
  <2> QED
    BY <1>1, <1>3, <2>1
<1>5. CASE line.op # "la"
  <2>1. expand(line, syms) = <<insn(line.op, "", line.arg)>>
    BY <1>5, Zenon DEF expand
  <2>2. <<insn(line.op, "", line.arg)>>[1] = insn(line.op, "", line.arg)
    BY <1>2
  <2> QED
    BY <1>1, <2>1, <2>2, Zenon
<1> QED
  BY <1>4, <1>5

\* The record of a line, and what is known of it while names are stable.
LEMMA RecordOfLine ==
  ASSUME Typed, OfLines, Current, stable, NEW r, Emits(r), r.kind = "insn"
  PROVE  LET line == source[r.lineno]
         IN  /\ r.lineno \in 1 .. Len(source) /\ line \in LINES
             /\ line.op \in MNEMONICS
             /\ r.insns = expand(line, symbols)
             /\ defined(line.arg, symbols)
             /\ Len(r.insns) \in {1, 2}
             /\ line.label # "" => symbols[line.label] = r.addr
<1> DEFINE line == source[r.lineno]
<1>1. 1 \in 1 .. Len(records) /\ r = records[1]
  BY DEF Emits
<1>2. r.lineno \in 1 .. Len(source) /\ line.op \in MNEMONICS
  BY <1>1 DEF OfLines, ops_of
<1>3. line \in LINES
  BY <1>2, Element DEF Typed
<1>4. /\ r.insns = expand(line, symbols)
      /\ line.op = "li" => defined(line.arg, symbols)
      /\ line.label # "" => symbols[line.label] = r.addr
  BY <1>1 DEF Current
<1> HIDE DEF line
<1>5. line.op = "li" => eval_expr(line.arg, symbols) \in Int
  BY <1>3, <1>4, Evaluated, LinesAssumption DEF Typed
<1>6. Len(r.insns) \in {1, 2}
  BY <1>2, <1>3, <1>4, <1>5, Expansion
<1>7. line.op # "li" => defined(line.arg, symbols)
  <2>1. 1 \in 1 .. Len(r.insns)
    <3> DEFINE n == Len(r.insns)
    <3>1. n \in {1, 2}
      BY <1>6
    <3> HIDE DEF n
    <3>2. 1 \in 1 .. n
      BY <3>1
    <3> QED
      BY <3>2 DEF n
  <2>2. \A k \in 1 .. Len(r.insns) : defined(r.insns[k].e, symbols)
    BY DEF Emits, acceptable, encodable
  <2> QED
    BY <1>4, <2>1, <2>2, FirstOperand
<1> QED
  BY <1>2, <1>3, <1>4, <1>6, <1>7 DEF line

\* What the bytes of the image are of.
LEMMA TracedEmits ==
  ASSUME Typed, OfLines, Current, Traced, NEW r, Emits(r)
  PROVE  Traced'
<1>1. UNCHANGED <<source, symbols>>
  BY DEF Emits
<1>2. stable' = stable
  BY <1>1 DEF stable
<1> SUFFICES ASSUME stable, NEW s \in Sections, NEW b \in DOMAIN image'[s]
             PROVE  of_line(image'[s][b], b, source, symbols)
  BY <1>1, <1>2 DEF Traced
<1>3. CASE b \in DOMAIN image[s] /\ image'[s][b] = image[s][b]
  BY <1>3 DEF Traced
<1>4. CASE s = r.section /\ b \in extent(r)
  <2>1. image'[s][b] = emitted(r)[b] /\ r \in Records
    BY <1>4 DEF Emits
  <2>2. CASE r.kind = "insn"
    <3> DEFINE line == source[r.lineno]
    <3>1. /\ r.lineno \in 1 .. Len(source) /\ line.op \in MNEMONICS
          /\ r.insns = expand(line, symbols) /\ defined(line.arg, symbols)
      BY <2>2, RecordOfLine
    <3>2. PICK q \in Nat :
            /\ q + 1 \in 1 .. Len(r.insns) /\ b - (r.addr + 4 * q) \in 0 .. 3
            /\ emitted(r)[b].byte = b - (r.addr + 4 * q)
            /\ emitted(r)[b].of =
                 [lineno |-> r.lineno, nth |-> q + 1,
                  mnem |-> r.insns[q + 1].mnem,
                  val |-> encode_one(r.insns[q + 1], r.addr + 4 * q, symbols)]
      BY <1>4, <2>1, <2>2, InsnEmitted
    <3>3. b \in Int /\ r.addr \in Int
      BY <1>4, <2>1, RecordFields DEF extent
    <3>4. b - (b - (r.addr + 4 * q)) = r.addr + 4 * q
      BY <3>3
    <3> HIDE DEF line
    <3> DEFINE w == emitted(r)[b].of
    <3>5. w.lineno = r.lineno /\ w.nth = q + 1
      BY <3>2
    <3>6. w = [lineno |-> w.lineno, nth |-> w.nth,
               mnem |-> expand(line, symbols)[w.nth].mnem,
               val |-> encode_one(expand(line, symbols)[w.nth],
                                  b - emitted(r)[b].byte, symbols)]
      BY <3>1, <3>2, <3>4, <3>5
    <3>7. w.nth \in 1 .. Len(expand(line, symbols))
      BY <3>1, <3>2, <3>5
    <3>8. source[w.lineno] = line
      BY <3>5 DEF line
    <3> HIDE DEF w
    <3> QED
      BY <2>1, <3>1, <3>5, <3>6, <3>7, <3>8 DEF w, of_line
  <2>3. CASE r.kind = "data"
    <3>1. 1 \in 1 .. Len(records) /\ r = records[1]
      BY DEF Emits
    <3>2. r.lineno \in 1 .. Len(source)
          /\ source[r.lineno].op \in {".word", ".byte"}
      BY <2>3, <3>1 DEF OfLines, ops_of
    <3>3. emitted(r)[b].of.lineno = r.lineno /\ emitted(r)[b].of.mnem = "data"
      BY <1>4, <2>1, <2>3, DataEmitted
    <3> QED
      BY <2>1, <3>2, <3>3 DEF of_line
  <2> QED
    BY <2>1, <2>2, <2>3, RecordFields DEF InsnRecords, DataRecords
<1>5. \/ b \in DOMAIN image[s] /\ image'[s][b] = image[s][b]
      \/ s = r.section /\ b \in extent(r)
  BY DEF Emits
<1> QED
  BY <1>3, <1>4, <1>5

\* That every instruction is still there.
LEMMA KeptEmits ==
  ASSUME Typed, OfLines, Laid, Current, Kept, NEW r, Emits(r)
  PROVE  Kept'
<1>1. UNCHANGED <<source, symbols>>
  BY DEF Emits
<1>2. stable' = stable /\ \A ops : lines_with(ops)' = lines_with(ops)
  BY <1>1 DEF stable, lines_with
<1> SUFFICES ASSUME stable, lines_with({".org"}) = {},
                    NEW j \in lines_with(MNEMONICS)
             PROVE  \/ \E k \in 1 .. Len(records') : records'[k].lineno = j
                    \/ placed(j)'
  BY <1>1, <1>2 DEF Kept
<1>3. /\ extent(r) \cap DOMAIN image[r.section] = {}
      /\ r.section \in Sections /\ r.addr \in Nat /\ sized(r) \in Nat
  BY Disjoint
<1>4. j \in 1 .. Len(source) /\ source[j].op \in MNEMONICS
  BY DEF lines_with
<1>5. CASE placed(j)
  <2> SUFFICES ASSUME NEW n \in 1 .. Len(expand(source[j], symbols))
               PROVE  in_image(image', j, n, source[j], symbols)
    BY <1>1 DEF placed
  <2>1. in_image(image, j, n, source[j], symbols)
    BY <1>5 DEF placed
  <2>2. PICK s \in Sections : \E b \in DOMAIN image[s] :
          emitted_at(image[s][b], b, j, n, source[j], symbols)
    BY <2>1 DEF in_image
  <2>3. PICK b \in DOMAIN image[s] :
          emitted_at(image[s][b], b, j, n, source[j], symbols)
    BY <2>2
  <2>4. b \in DOMAIN image'[s] /\ image'[s][b] = image[s][b]
    BY <1>3 DEF Emits
  <2> QED
    BY <2>3, <2>4 DEF in_image
<1>6. CASE \E k \in 1 .. Len(records) : records[k].lineno = j
  <2>1. PICK k \in 1 .. Len(records) : records[k].lineno = j
    BY <1>6
  <2>2. CASE k # 1
    <3>1. k - 1 \in 1 .. Len(records') /\ records'[k - 1] = records[k]
      BY <2>1, <2>2 DEF Emits
    <3> QED
      BY <2>1, <3>1
  <2>3. CASE k = 1
    <3>1. r.lineno = j /\ r \in Records /\ source[j].op \in ops_of(r.kind)
      BY <2>1, <2>3 DEF Emits, OfLines
    <3>2. r.kind = "insn"
      BY <1>4, <3>1, RecordFields DEF ops_of, MNEMONICS, InsnRecords, DataRecords
    <3>3. /\ r.insns = expand(source[j], symbols) /\ Len(r.insns) \in {1, 2}
          /\ source[j].label # "" => symbols[source[j].label] = r.addr
      BY <3>1, <3>2, RecordOfLine
    <3> SUFFICES ASSUME NEW n \in 1 .. Len(expand(source[j], symbols))
                 PROVE  in_image(image', j, n, source[j], symbols)
      BY <1>1 DEF placed
    <3> DEFINE b   == r.addr + 4 * (n - 1)
               len == Len(r.insns)
    <3>4. n \in Nat /\ n >= 1 /\ n <= len /\ len \in Nat
      <4>1. n \in 1 .. len /\ len \in {1, 2}
        BY <3>3, Zenon
      <4> HIDE DEF len
      <4> QED
        BY <4>1
    <3>5. sized(r) = 4 * Len(r.insns)
      BY <3>2 DEF sized
    <3>6. b \in extent(r)
      <4> HIDE DEF len
      <4>1. b >= r.addr /\ b <= r.addr + 4 * len - 1 /\ b \in Int
        BY <1>3, <3>4
      <4>2. sized(r) = 4 * len
        BY <3>5 DEF len
      <4> QED
        BY <1>3, <3>4, <4>1, <4>2 DEF extent
    <3>7. b \in DOMAIN image'[r.section] /\ image'[r.section][b] = emitted(r)[b]
      BY <1>3, <3>6 DEF Emits
    <3>8. PICK q \in Nat :
            /\ q + 1 \in 1 .. Len(r.insns) /\ b - (r.addr + 4 * q) \in 0 .. 3
            /\ emitted(r)[b].byte = b - (r.addr + 4 * q)
            /\ emitted(r)[b].of =
                 [lineno |-> r.lineno, nth |-> q + 1,
                  mnem |-> r.insns[q + 1].mnem,
                  val |-> encode_one(r.insns[q + 1], r.addr + 4 * q, symbols)]
      BY <3>1, <3>2, <3>6, InsnEmitted
    <3>9. q + 1 = n /\ b - (r.addr + 4 * q) = 0
      BY <1>3, <3>4, <3>8
    <3>10. n = 1 => b = r.addr
      BY <1>3
    <3> HIDE DEF b
    <3>11. /\ image'[r.section][b].of.lineno = j
           /\ image'[r.section][b].of.nth = n /\ image'[r.section][b].byte = 0
      BY <3>1, <3>7, <3>8, <3>9
    <3>12. n = 1 /\ source[j].label # "" => symbols[source[j].label] = b
      BY <3>3, <3>10
    <3> QED
      BY <1>3, <3>7, <3>11, <3>12 DEF in_image, emitted_at
  <2> QED
    BY <2>2, <2>3
<1> QED
  BY <1>5, <1>6 DEF Kept

\* Emitting a record keeps the invariant.
LEMMA EmitsConsistent ==
  ASSUME Typed, Consistent, NEW r, Emits(r)
  PROVE  Typed' /\ Consistent'
<1>1. Emptied'
  BY DEF Emits, Emptied
<1> QED
  BY <1>1, TypedEmits, RestEmits, LaidEmits, TracedEmits, KeptEmits DEF Consistent

\* What does not depend on the phase.
LEMMA SamePhase ==
  ASSUME UNCHANGED <<source, section, addr, symbols, records, image, written>>
  PROVE  /\ Typed' = Typed /\ OfLines' = OfLines /\ Named' = Named
         /\ Laid' = Laid /\ Current' = Current /\ Traced' = Traced
         /\ Kept' = Kept
<1>1. /\ source' = source /\ section' = section /\ addr' = addr
      /\ symbols' = symbols /\ records' = records /\ image' = image
      /\ written' = written
  OBVIOUS
<1>2. Typed' = Typed
  BY <1>1, Zenon DEF Typed
<1>3. OfLines' = OfLines
  BY <1>1, Zenon DEF OfLines
<1>4. Named' = Named
  BY <1>1, Zenon DEF Named
<1>5. stable' = stable
  BY <1>1, Zenon DEF stable
<1>6. \A ops : lines_with(ops)' = lines_with(ops)
  BY <1>1 DEF lines_with
<1>7. Laid' = Laid
  BY <1>1, <1>6, Zenon DEF Laid
<1>8. Current' = Current
  BY <1>1, <1>5, Zenon DEF Current
<1>9. Traced' = Traced
  BY <1>1, <1>5 DEF Traced
<1>10. \A j : placed(j)' = placed(j)
  BY <1>1, Zenon DEF placed
<1>11. Kept' = Kept
  BY <1>1, <1>5, <1>6, <1>10, Zenon DEF Kept
<1> QED
  BY <1>2, <1>3, <1>4, <1>7, <1>8, <1>9, <1>11

\* Both passes keep the invariant.
LEMMA AsmStep == AsmInv /\ [Next]_asmVars => AsmInv'
<1> SUFFICES ASSUME AsmInv, [Next]_asmVars
             PROVE  AsmInv'
  OBVIOUS
<1>1. CASE Line
  <2>1. phase = "parse" /\ Typed /\ Consistent
    BY <1>1 DEF Line, AsmInv
  <2>2. CASE fail /\ \E line \in LINES : source' = Append(source, line)
    <3>1. source' \in Seq(LINES)
      BY <2>1, <2>2, SourceGrows
    <3> QED
      BY <2>1, <2>2, <3>1 DEF fail, Typed, AsmInv
  <2>3. CASE \E line, to : Parsed(line, to)
    BY <2>1, <2>3, LineConsistent DEF AsmInv
  <2> QED
    BY <1>1, <2>1, <2>2, <2>3, LineParsed
<1>2. CASE EndOfSource
  <2>1. /\ phase = "parse" /\ phase' = "encode"
        /\ UNCHANGED <<source, section, addr, symbols, records, used, image, written>>
    BY <1>2 DEF EndOfSource
  <2>2. Typed' /\ OfLines' /\ Named' /\ Laid' /\ Traced' /\ Current' /\ Kept'
    BY <2>1, SamePhase DEF AsmInv, Consistent
  <2> QED
    BY <2>1, <2>2 DEF AsmInv, Consistent, Blank, Emptied
<1>3. CASE Encode
  <2>1. phase = "encode" /\ Typed /\ Consistent
    BY <1>3 DEF Encode, AsmInv
  <2>2. CASE fail /\ UNCHANGED source
    BY <2>1, <2>2 DEF fail, Typed, AsmInv
  <2>3. CASE Emits(records[1])
    BY <2>1, <2>3, EmitsConsistent DEF AsmInv
  <2> QED
    BY <1>3, <2>1, <2>2, <2>3, RecordEmitted
<1>4. CASE Finish
  <2>1. /\ phase = "encode" /\ phase' = "done" /\ records' = <<>>
        /\ UNCHANGED <<source, section, addr, symbols, records, used, image, written>>
    BY <1>4 DEF Finish
  <2>2. Typed' /\ OfLines' /\ Named' /\ Laid' /\ Traced' /\ Current' /\ Kept'
    BY <2>1, SamePhase DEF AsmInv, Consistent
  <2> QED
    BY <2>1, <2>2 DEF AsmInv, Consistent, Blank, Emptied
<1>5. CASE UNCHANGED asmVars
  <2>1. /\ UNCHANGED <<source, section, addr, symbols, records, image, written>>
        /\ phase' = phase
    BY <1>5 DEF asmVars
  <2>2. Emptied' = Emptied
    BY <2>1 DEF Emptied
  <2>3. Blank' = Blank
    BY <2>1 DEF Blank, lines_with
  <2> QED
    BY <2>1, <2>2, <2>3, SamePhase DEF AsmInv, Consistent
<1> QED
  BY <1>1, <1>2, <1>3, <1>4, <1>5 DEF Next

\* It holds of an empty source.
LEMMA AsmInit == Init => AsmInv
<1> SUFFICES ASSUME Init
             PROVE  AsmInv
  OBVIOUS
<1>1. /\ phase = "parse" /\ source = <<>> /\ section = "text"
      /\ addr = [s \in Sections |-> 0] /\ symbols = <<>> /\ records = <<>>
      /\ image = [s \in Sections |-> <<>>] /\ written = 0
  BY DEF Init
<1>2. /\ source \in Seq(LINES) /\ Len(source) = 0
      /\ records \in Seq(Records) /\ Len(records) = 0
  BY <1>1
<1>3. DOMAIN symbols = {} /\ \A s \in Sections : DOMAIN image[s] = {}
  BY <1>1, EmptyDomain
<1>4. Typed
  BY <1>1, <1>2, <1>3, FS_EmptySet DEF Typed, Sections
<1>5. \A ops : lines_with(ops) = {}
  BY <1>2 DEF lines_with
<1>6. Cardinality(DOMAIN image["text"]) = 0 /\ Cardinality(DOMAIN image["data"]) = 0
  BY <1>3, FS_EmptySet DEF Sections
<1>7. Laid
  <2>1. \A s \in Sections : addr[s] = 0
    BY <1>1
  <2> QED
    BY <1>1, <1>2, <1>3, <1>6, <2>1 DEF Laid
<1>8. Emptied /\ Blank /\ OfLines /\ Named
  BY <1>1, <1>2, <1>3, <1>5 DEF Emptied, Blank, OfLines, Named
<1>9. Current /\ Traced /\ Kept
  BY <1>2, <1>3, <1>5 DEF Current, Traced, Kept
<1> QED
  BY <1>4, <1>7, <1>8, <1>9 DEF AsmInv, Consistent

\* The invariant of the two passes.
LEMMA AsmInvariant == Spec => []AsmInv
<1> QED
  BY AsmInit, AsmStep, PTL DEF Spec

\* Pass two writes each byte once and none outside the room pass one made, and
\* without gaps fills it (asm.py 558-608, 671-706): for every source without
\* `.org', whatever its constants have become between the passes.
THEOREM WritesOnce == Spec => []NothingOverwritten
<1>1. AsmInv => NothingOverwritten
  <2> SUFFICES ASSUME AsmInv, phase = "done", lines_with({".org"}) = {}
               PROVE  /\ written = Cardinality(DOMAIN image["text"])
                                     + Cardinality(DOMAIN image["data"])
                      /\ \A s \in Sections : \A b \in DOMAIN image[s] : b < addr[s]
                      /\ lines_with({".space", ".align"}) = {} =>
                           written = addr["text"] + addr["data"]
    BY DEF NothingOverwritten
  <2>1. Typed /\ Laid /\ records = <<>>
    BY DEF AsmInv, Consistent, Emptied
  <2>2. Len(records) = 0
    BY <2>1
  <2>3. ASSUME lines_with({".space", ".align"}) = {}, NEW s \in Sections
        PROVE  Cardinality(DOMAIN image[s]) = addr[s]
    <3>1. addr[s] \in Nat /\ DOMAIN image[s] \subseteq Nat
      BY <2>1 DEF Typed
    <3>2. \A b \in DOMAIN image[s] : b < addr[s]
      BY <2>1 DEF Laid
    <3>3. \A b \in 0 .. (addr[s] - 1) : b \in DOMAIN image[s]
      BY <2>1, <2>2, <2>3 DEF Laid
    <3>4. DOMAIN image[s] = 0 .. (addr[s] - 1)
      <4>1. DOMAIN image[s] \subseteq 0 .. (addr[s] - 1)
        BY <3>1, <3>2
      <4>2. 0 .. (addr[s] - 1) \subseteq DOMAIN image[s]
        BY <3>3
      <4> QED
        BY <4>1, <4>2
    <3>5. Cardinality(0 .. (addr[s] - 1)) = addr[s]
      <4>1. addr[s] - 1 \in Int /\ 0 \in Int
        BY <3>1
      <4>2. Cardinality(0 .. (addr[s] - 1)) =
              IF 0 > addr[s] - 1 THEN 0 ELSE (addr[s] - 1) - 0 + 1
        BY <4>1, FS_Interval
      <4> QED
        BY <3>1, <4>2
    <3> QED
      BY <3>4, <3>5
  <2> QED
    BY <2>1, <2>3 DEF Laid, Sections
<1> QED
  BY <1>1, AsmInvariant, PTL

----------------------------------------------------------------------------
(* What the image says of a line.                                          *)

\* Whatever its operand, an instruction takes one word or two.
LEMMA Lengths ==
  ASSUME NEW line, NEW syms
  PROVE  /\ 1 \in 1 .. Len(expand(line, syms))
         /\ Len(expand(line, syms)) \in {1, 2}
<1>1. ASSUME NEW a
      PROVE  1 \in 1 .. Len(<<a>>) /\ Len(<<a>>) \in {1, 2}
  OBVIOUS
<1>2. ASSUME NEW a, NEW b
      PROVE  1 \in 1 .. Len(<<a, b>>) /\ Len(<<a, b>>) \in {1, 2}
  OBVIOUS
<1>3. (\E a : expand(line, syms) = <<a>>) \/ (\E a, b : expand(line, syms) = <<a, b>>)
  <2>1. CASE line.op = "li"
    <3> DEFINE v == s32(eval_expr(line.arg, syms))
    <3>1. CASE v \in I_RANGE
      <4>1. expand(line, syms) = <<insn("addi", "", const(v))>>
        BY <2>1, <3>1, Zenon DEF expand
      <4> QED
        BY <4>1, Zenon
    <3>2. CASE ~(v \in I_RANGE)
      <4>1. expand(line, syms) = <<insn("lui", "", const(hi20(v))),
                                   insn("addi", "", const(lo12(v)))>>
        BY <2>1, <3>2, Zenon DEF expand
      <4> QED
        BY <4>1, Zenon
    <3> QED
      BY <3>1, <3>2
  <2>2. CASE line.op = "la"
    <3>1. expand(line, syms) = <<insn("lui", "hi", line.arg), insn("addi", "lo", line.arg)>>
      BY <2>2, Zenon DEF expand
    <3> QED
      BY <3>1, Zenon
  <2>3. CASE line.op # "li" /\ line.op # "la"
    <3>1. expand(line, syms) = <<insn(line.op, "", line.arg)>>
      BY <2>3, Zenon DEF expand
    <3> QED
      BY <3>1, Zenon
  <2> QED
    BY <2>1, <2>2, <2>3
<1> QED
  BY <1>1, <1>2, <1>3, Zenon

\* A branch to what the line names, or no branch.
branch_or_none(word, line) ==
  \/ word = insn("beq", "", line.arg)
  \/ \E m, p, e : m # "beq" /\ word = insn(m, p, e)

\* The words of a line are no branches, but for the one of a beq.
LEMMA Mnemonic ==
  ASSUME NEW line, NEW syms, NEW n \in 1 .. Len(expand(line, syms))
  PROVE  branch_or_none(expand(line, syms)[n], line)
<1> USE DEF branch_or_none
<1>1. ASSUME NEW a, NEW k \in 1 .. Len(<<a>>)
      PROVE  <<a>>[k] = a
  OBVIOUS
<1>2. ASSUME NEW a, NEW b, NEW k \in 1 .. Len(<<a, b>>)
      PROVE  <<a, b>>[k] \in {a, b}
  OBVIOUS
<1>3. "lui" # "beq" /\ "addi" # "beq"
  OBVIOUS
<1>4. CASE line.op = "li"
  <2> DEFINE v == s32(eval_expr(line.arg, syms))
  <2>1. CASE v \in I_RANGE
    <3>1. expand(line, syms) = <<insn("addi", "", const(v))>>
      BY <1>4, <2>1, Zenon DEF expand
    <3>2. expand(line, syms)[n] = insn("addi", "", const(v))
      BY <1>1, <3>1, Zenon
    <3> QED
      BY <1>3, <3>2, Zenon
  <2>2. CASE ~(v \in I_RANGE)
    <3> DEFINE a == insn("lui", "", const(hi20(v)))
               b == insn("addi", "", const(lo12(v)))
    <3>1. expand(line, syms) = <<a, b>>
      BY <1>4, <2>2, Zenon DEF expand
    <3>2. expand(line, syms)[n] \in {a, b}
      BY <1>2, <3>1, Zenon
    <3> QED
      BY <1>3, <3>2, Zenon
  <2> QED
    BY <2>1, <2>2
<1>5. CASE line.op = "la"
  <2> DEFINE a == insn("lui", "hi", line.arg)
             b == insn("addi", "lo", line.arg)
  <2>1. expand(line, syms) = <<a, b>>
    BY <1>5, Zenon DEF expand
  <2>2. expand(line, syms)[n] \in {a, b}
    BY <1>2, <2>1, Zenon
  <2> QED
    BY <1>3, <2>2, Zenon
<1>6. CASE line.op # "li" /\ line.op # "la"
  <2>1. expand(line, syms) = <<insn(line.op, "", line.arg)>>
    BY <1>6, Zenon DEF expand
  <2>2. expand(line, syms)[n] = insn(line.op, "", line.arg)
    BY <1>1, <2>1, Zenon
  <2> QED
    BY <2>2, Zenon
<1> QED
  BY <1>4, <1>5, <1>6

\* The fields of a word of the image.
LEMMA WordFields ==
  ASSUME NEW a, NEW n, NEW m, NEW v, NEW w,
         w = [lineno |-> a, nth |-> n, mnem |-> m, val |-> v]
  PROVE  w.lineno = a /\ w.nth = n /\ w.mnem = m /\ w.val = v
  OBVIOUS

\* What a branch to a label is encoded as.
LEMMA BranchTarget ==
  ASSUME NEW label, label # "", NEW e, e = [sym |-> label, off |-> 0],
         NEW pc, NEW syms
  PROVE  encode_one(insn("beq", "", e), pc, syms) = syms[label] - pc
<1>1. e.sym = label /\ e.off = 0
  OBVIOUS
<1>2. insn("beq", "", e).mnem = "beq" /\ insn("beq", "", e).e = e
  BY DEF insn
<1> QED
  BY <1>1, <1>2, Zenon DEF encode_one, branch_target

\* A number less another, and that other.
LEMMA Difference ==
  ASSUME NEW t \in Int, NEW b \in Nat, NEW z, z = 0, NEW v, v = t - (b - z)
  PROVE  b + v = t
  OBVIOUS

\* A branch in the image is the one word of its line.
LEMMA BranchWord ==
  ASSUME Traced, stable, NEW s \in Sections, NEW b \in DOMAIN image[s],
         image[s][b].of.mnem = "beq"
  PROVE  image[s][b].of.val =
           encode_one(insn("beq", "", source[image[s][b].of.lineno].arg),
                      b - image[s][b].byte, symbols)
<1> DEFINE entry == image[s][b]
           line  == source[entry.of.lineno]
           word  == expand(line, symbols)[entry.of.nth]
<1>1. of_line(entry, b, source, symbols)
  BY DEF Traced
<1>2. "beq" # "data"
  OBVIOUS
<1>3. /\ entry.of.nth \in 1 .. Len(expand(line, symbols))
      /\ entry.of = [lineno |-> entry.of.lineno, nth |-> entry.of.nth,
                     mnem |-> word.mnem,
                     val |-> encode_one(word, b - entry.byte, symbols)]
  BY <1>1, <1>2, Zenon DEF of_line
<1>4. branch_or_none(word, line)
  BY <1>3, Mnemonic, Zenon
<1>5. entry.of.mnem = word.mnem /\ entry.of.val = encode_one(word, b - entry.byte, symbols)
  <2> DEFINE v == encode_one(word, b - entry.byte, symbols)
             m == word.mnem
             w == entry.of
  <2>1. w = [lineno |-> w.lineno, nth |-> w.nth, mnem |-> m, val |-> v]
    BY <1>3, Zenon
  <2> HIDE DEF v, m, w
  <2>2. w.mnem = m /\ w.val = v
    BY <2>1
  <2> QED
    BY <2>2, Zenon DEF v, m, w
<1>6. \A m, p, e : insn(m, p, e).mnem = m
  BY DEF insn
<1>7. entry.of.mnem = "beq"
  OBVIOUS
<1> HIDE DEF word, entry
<1>8. ASSUME NEW m, NEW p, NEW e, m # "beq", word = insn(m, p, e)
      PROVE  FALSE
  <2>1. word.mnem = m
    BY <1>6, <1>8, Zenon
  <2> QED
    BY <1>5, <1>7, <1>8, <2>1, Zenon
<1>9. word = insn("beq", "", line.arg)
  BY <1>4, <1>8, Zenon DEF branch_or_none
<1> QED
  BY <1>5, <1>9, Zenon DEF entry

\* A branch in the image reaches its label.
LEMMA BranchLands ==
  ASSUME Typed, Traced, stable, NEW s \in Sections, NEW label,
         symbols[label] \in Int, NEW b \in branches_to(label, s)
  PROVE  label # "" => b + image[s][b].of.val = symbols[label]
<1> DEFINE entry == image[s][b]
           e     == source[entry.of.lineno].arg
           v     == entry.of.val
           z     == entry.byte
           t     == symbols[label]
<1>1. b \in DOMAIN image[s] /\ entry.byte = 0 /\ entry.of.mnem = "beq"
      /\ e = [sym |-> label, off |-> 0]
  BY Zenon DEF branches_to
<1>2. entry.of.val = encode_one(insn("beq", "", e), b - entry.byte, symbols)
  BY <1>1, BranchWord, Zenon
<1> HIDE DEF e
<1>3. ASSUME label # ""
      PROVE  v = t - (b - z)
  <2>1. \A pc, syms : encode_one(insn("beq", "", e), pc, syms) = syms[label] - pc
    BY <1>1, <1>3, BranchTarget, Zenon
  <2> QED
    BY <1>2, <2>1, Zenon
<1>4. b \in Nat
  BY <1>1, Zenon DEF Typed
<1>5. z = 0 /\ t \in Int
  BY <1>1, Zenon
<1> HIDE DEF v, z, t
<1>6. v = t - (b - z) => b + v = t
  BY <1>4, <1>5
<1>7. label # "" => b + v = t
  BY <1>3, <1>6, Zenon
<1> QED
  BY <1>7, Zenon DEF v, t

\* At the end the words of every instruction are in the image.
LEMMA AllPlaced ==
  ASSUME AsmInv, phase = "done", stable, lines_with({".org"}) = {},
         NEW j \in lines_with(MNEMONICS)
  PROVE  placed(j)
<1>1. records = <<>> /\ Kept
  BY DEF AsmInv, Consistent, Emptied
<1>2. Len(records) = 0
  BY <1>1
<1> QED
  BY <1>1, <1>2 DEF Kept

\* A label names the first byte of what follows it and every branch to it lands
\* there (asm.py 571-579, 548-555), for every source that gives no name two
\* values and has no `.org'.
THEOREM LabelsLand == Spec => []LabelsNameWhatFollows
<1>1. AsmInv => LabelsNameWhatFollows
  <2> SUFFICES ASSUME AsmInv, phase = "done", stable, lines_with({".org"}) = {},
                      NEW j \in lines_with(MNEMONICS), source[j].label # ""
               PROVE  \E s \in Sections :
                        LET target == symbols[source[j].label]
                        IN  /\ target \in DOMAIN image[s]
                            /\ image[s][target].of.lineno = j
                            /\ image[s][target].of.nth = 1
                            /\ image[s][target].byte = 0
                            /\ \A b \in branches_to(source[j].label, s) :
                                 b + image[s][b].of.val = target
    BY DEF LabelsNameWhatFollows
  <2> DEFINE label  == source[j].label
             target == symbols[label]
  <2>1. Typed /\ Named /\ Traced
    BY DEF AsmInv, Consistent
  <2>2. j \in 1 .. Len(source)
    BY DEF lines_with
  <2>3. label \in DOMAIN symbols /\ target \in Int
    BY <2>1, <2>2 DEF Named, Typed
  <2>4. in_image(image, j, 1, source[j], symbols)
    BY AllPlaced, Lengths DEF placed
  <2>5. PICK s \in Sections : \E b \in DOMAIN image[s] :
          emitted_at(image[s][b], b, j, 1, source[j], symbols)
    BY <2>4 DEF in_image
  <2>6. PICK a \in DOMAIN image[s] :
          emitted_at(image[s][a], a, j, 1, source[j], symbols)
    BY <2>5
  <2>7. /\ a = target /\ image[s][a].of.lineno = j /\ image[s][a].of.nth = 1
        /\ image[s][a].byte = 0
    BY <2>6 DEF emitted_at
  <2>8. \A b \in branches_to(label, s) : b + image[s][b].of.val = target
    BY <2>1, <2>3, BranchLands, Zenon
  <2> QED
    BY <2>7, <2>8
<1> QED
  BY <1>1, AsmInvariant, PTL

----------------------------------------------------------------------------
(* The words of a pair.                                                    *)

\* A set with one element has no other to choose.
LEMMA OnlyChoice == ASSUME NEW x PROVE (CHOOSE w \in {x} : TRUE) = x
  OBVIOUS

\* The signed reading of a value is that value again, as a word.
LEMMA SignedKeeps ==
  ASSUME NEW x \in Int
  PROVE  s32(x) \in Int /\ u32(s32(x)) = u32(x)
<1> DEFINE u == x % Modulus
<1>1. u \in 0 .. (Modulus - 1)
  BY Fields, Division
<1>2. s32(x) = u \/ s32(x) = u - Modulus
  BY DEF s32, u32
<1> HIDE DEF u
<1>3. u % Modulus = u /\ (u - Modulus) % Modulus = u
  <2>1. (Modulus * 0 + u) % Modulus = u
    BY <1>1, Fields, Unique
  <2>2. (Modulus * (-1) + u) % Modulus = u
    BY <1>1, Fields, Unique
  <2> QED
    BY <1>1, <2>1, <2>2, Fields
<1>4. u32(s32(x)) = u
  BY <1>2, <1>3 DEF u32
<1>5. s32(x) \in Int
  BY <1>1, <1>2, Fields
<1> QED
  BY <1>4, <1>5 DEF u, u32

\* The n-th word of line j, if it is not a branch.
word_of(j, n) ==
  LET insns == expand(source[j], symbols)
  IN  [lineno |-> j, nth |-> n, mnem |-> insns[n].mnem,
       val |-> operand(insns[n], symbols)]

\* What a line of one or two words that are no branches has in the image.
LEMMA AtLine ==
  ASSUME AsmInv, phase = "done", stable, lines_with({".org"}) = {},
         NEW j \in lines_with({"li", "la"}), NEW n,
         \A k \in 1 .. Len(expand(source[j], symbols)) :
           expand(source[j], symbols)[k].mnem # "beq"
  PROVE  /\ n \in 1 .. Len(expand(source[j], symbols)) =>
              at_line(j, n) = {word_of(j, n)}
         /\ n \notin 1 .. Len(expand(source[j], symbols)) => at_line(j, n) = {}
         /\ defined(source[j].arg, symbols)
<1> DEFINE insns == expand(source[j], symbols)
<1>1. Typed /\ Traced
  BY DEF AsmInv, Consistent
<1>2. /\ j \in lines_with(MNEMONICS) /\ source[j].op \in {"li", "la"}
      /\ source[j].op \notin {".word", ".byte"}
  BY DEF lines_with, MNEMONICS
<1>3. ASSUME NEW s \in Sections, NEW b \in DOMAIN image[s],
             image[s][b].of.lineno = j
      PROVE  /\ defined(source[j].arg, symbols)
             /\ image[s][b].of.nth \in 1 .. Len(insns)
             /\ image[s][b].of = word_of(j, image[s][b].of.nth)
  <2> DEFINE w == image[s][b].of
             k == w.nth
  <2>1. of_line(image[s][b], b, source, symbols)
    BY <1>1 DEF Traced
  <2>2. /\ k \in 1 .. Len(insns) /\ defined(source[j].arg, symbols)
        /\ w = [lineno |-> j, nth |-> k, mnem |-> insns[k].mnem,
                val |-> encode_one(insns[k], b - image[s][b].byte, symbols)]
    BY <1>2, <1>3, <2>1, Zenon DEF of_line
  <2>3. insns[k].mnem # "beq"
    BY <2>2, Zenon
  <2>4. encode_one(insns[k], b - image[s][b].byte, symbols) = operand(insns[k], symbols)
    BY <2>3, Zenon DEF encode_one
  <2> QED
    BY <2>2, <2>4, Zenon DEF word_of
<1>4. ASSUME NEW k \in 1 .. Len(insns)
      PROVE  \E s \in Sections : \E b \in DOMAIN image[s] :
               image[s][b].of.lineno = j /\ image[s][b].of.nth = k
  <2>1. in_image(image, j, k, source[j], symbols)
    BY <1>2, AllPlaced, Zenon DEF placed
  <2> QED
    BY <2>1, Zenon DEF in_image, emitted_at
<1>5. defined(source[j].arg, symbols)
  <2>1. 1 \in 1 .. Len(insns)
    BY Lengths, Zenon
  <2> QED
    BY <1>3, <1>4, <2>1, Zenon
<1>6. ASSUME NEW w \in at_line(j, n)
      PROVE  n \in 1 .. Len(insns) /\ w = word_of(j, n)
  <2>1. PICK s \in Sections :
          w \in {image[s][b].of : b \in {c \in DOMAIN image[s] :
                   image[s][c].of.lineno = j /\ image[s][c].of.nth = n}}
    BY Zenon DEF at_line
  <2>2. PICK b \in DOMAIN image[s] :
          /\ w = image[s][b].of
          /\ image[s][b].of.lineno = j /\ image[s][b].of.nth = n
    BY <2>1, Zenon
  <2> QED
    BY <1>3, <2>2, Zenon
<1>7. ASSUME n \in 1 .. Len(insns)
      PROVE  word_of(j, n) \in at_line(j, n)
  <2>1. PICK s \in Sections : \E b \in DOMAIN image[s] :
          image[s][b].of.lineno = j /\ image[s][b].of.nth = n
    BY <1>4, <1>7, Zenon
  <2>2. PICK b \in DOMAIN image[s] :
          image[s][b].of.lineno = j /\ image[s][b].of.nth = n
    BY <2>1, Zenon
  <2>3. image[s][b].of = word_of(j, n)
    BY <1>3, <2>2, Zenon
  <2>4. image[s][b].of \in at_line(j, n)
    <3> DEFINE bytes_at(t) == {c \in DOMAIN image[t] :
                                 image[t][c].of.lineno = j /\ image[t][c].of.nth = n}
               words_at(t) == {image[t][c].of : c \in bytes_at(t)}
    <3>1. b \in bytes_at(s)
      BY <2>2
    <3> HIDE DEF bytes_at
    <3>2. image[s][b].of \in words_at(s)
      BY <3>1
    <3> HIDE DEF words_at
    <3>3. image[s][b].of \in UNION {words_at(t) : t \in Sections}
      BY <3>2
    <3> QED
      BY <3>3, Zenon DEF at_line, words_at, bytes_at
  <2> QED
    BY <2>3, <2>4, Zenon
<1>8. n \in 1 .. Len(insns) => at_line(j, n) = {word_of(j, n)}
  BY <1>6, <1>7, Zenon
<1>9. n \notin 1 .. Len(insns) => at_line(j, n) = {}
  BY <1>6, Zenon
<1> QED
  BY <1>5, <1>8, <1>9

\* The two words of a split value, or the one of a short constant.
pair_of(line, syms) ==
  LET insns == expand(line, syms)
      x     == eval_expr(line.arg, syms)
  IN  \/ /\ \A k : k \in 1 .. Len(insns) <=> k = 1
         /\ insns[1].mnem = "addi" /\ operand(insns[1], syms) = s32(x) + 0
      \/ /\ \A k : k \in 1 .. Len(insns) <=> k \in {1, 2}
         /\ insns[1].mnem = "lui" /\ insns[2].mnem = "addi"
         /\ \/ /\ operand(insns[1], syms) = hi20(s32(x)) + 0
               /\ operand(insns[2], syms) = lo12(s32(x)) + 0
            \/ /\ operand(insns[1], syms) = hi20(x)
               /\ operand(insns[2], syms) = lo12(x)

\* `li' and `la' expand to them.
LEMMA PairOf ==
  ASSUME NEW line, NEW syms, line.op \in {"li", "la"}
  PROVE  pair_of(line, syms)
<1> USE DEF pair_of
<1> DEFINE x == eval_expr(line.arg, syms)
           v == s32(x)
<1>1. ASSUME NEW a
      PROVE  <<a>>[1] = a /\ \A k : k \in 1 .. Len(<<a>>) <=> k = 1
  OBVIOUS
<1>2. ASSUME NEW a, NEW b
      PROVE  <<a, b>>[1] = a /\ <<a, b>>[2] = b
             /\ \A k : k \in 1 .. Len(<<a, b>>) <=> k \in {1, 2}
  OBVIOUS
<1>3. \A m, p, e : insn(m, p, e).mnem = m /\ insn(m, p, e).part = p
                   /\ insn(m, p, e).e = e
  BY DEF insn
<1>4. \A n : const(n).sym = "" /\ const(n).off = n
  BY DEF const
<1>5. \A m, n : operand(insn(m, "", const(n)), syms) = n + 0
  <2>1. \A n : eval_expr(const(n), syms) = n + 0
    BY <1>4, Zenon DEF eval_expr
  <2>2. "" # "hi" /\ "" # "lo"
    OBVIOUS
  <2>3. ASSUME NEW m, NEW n
        PROVE  operand(insn(m, "", const(n)), syms) = n + 0
    <3> DEFINE i == insn(m, "", const(n))
    <3>1. i.part = "" /\ i.e = const(n)
      BY DEF insn
    <3> HIDE DEF i
    <3>2. operand(i, syms) = eval_expr(i.e, syms)
      BY <2>2, <3>1, Zenon DEF operand
    <3> QED
      BY <2>1, <3>1, <3>2, Zenon DEF i
  <2> QED
    BY <2>3, Zenon
<1>6. CASE line.op = "li"
  <2>1. CASE v \in I_RANGE
    <3> DEFINE a == insn("addi", "", const(v))
    <3>1. expand(line, syms) = <<a>>
      BY <1>6, <2>1, Zenon DEF expand
    <3>2. a.mnem = "addi" /\ operand(a, syms) = v + 0
      BY <1>3, <1>5, Zenon
    <3> HIDE DEF a, v
    <3> QED
      BY <1>1, <3>1, <3>2, Zenon DEF v
  <2>2. CASE ~(v \in I_RANGE)
    <3> DEFINE a == insn("lui", "", const(hi20(v)))
               b == insn("addi", "", const(lo12(v)))
    <3>1. expand(line, syms) = <<a, b>>
      BY <1>6, <2>2, Zenon DEF expand
    <3>2. /\ a.mnem = "lui" /\ operand(a, syms) = hi20(v) + 0
          /\ b.mnem = "addi" /\ operand(b, syms) = lo12(v) + 0
      BY <1>3, <1>5, Zenon
    <3> HIDE DEF a, b, v
    <3>3. /\ <<a, b>>[1] = a /\ <<a, b>>[2] = b
          /\ \A k : k \in 1 .. Len(<<a, b>>) <=> k \in {1, 2}
      BY <1>2
    <3> QED
      BY <3>1, <3>2, <3>3, Zenon DEF v
  <2> QED
    BY <2>1, <2>2
<1>7. CASE line.op = "la"
  <2> DEFINE a == insn("lui", "hi", line.arg)
             b == insn("addi", "lo", line.arg)
  <2>1. expand(line, syms) = <<a, b>>
    BY <1>7, Zenon DEF expand
  <2>2. "hi" # "lo"
    OBVIOUS
  <2>3. /\ a.mnem = "lui" /\ a.part = "hi" /\ a.e = line.arg
        /\ b.mnem = "addi" /\ b.part = "lo" /\ b.e = line.arg
    BY DEF insn
  <2> HIDE DEF a, b
  <2>4. operand(a, syms) = hi20(x)
    BY <2>3, Zenon DEF operand
  <2>5. operand(b, syms) = lo12(x)
    BY <2>2, <2>3, Zenon DEF operand
  <2>6. /\ <<a, b>>[1] = a /\ <<a, b>>[2] = b
        /\ \A k : k \in 1 .. Len(<<a, b>>) <=> k \in {1, 2}
    BY <1>2
  <2> QED
    BY <2>1, <2>3, <2>4, <2>5, <2>6, Zenon
<1> QED
  BY <1>6, <1>7

\* hi20 and lo12 are numbers.
LEMMA Halves ==
  ASSUME NEW v \in Int
  PROVE  hi20(v) \in Int /\ lo12(v) \in Int
<1>1. v % Modulus \in Int
  BY Fields, Division
<1>2. ((v % Modulus) + HALF_LO) \div LO_SIZE \in Int
  BY <1>1, Fields, Division
<1>3. (((v % Modulus) + HALF_LO) \div LO_SIZE) % HI_SIZE \in Int
  BY <1>2, Fields, Division
<1>4. (v % Modulus) % LO_SIZE \in Int
  BY <1>1, Fields, Division
<1>5. hi20(v) \in Int
  BY <1>3 DEF hi20, u32
<1>6. lo12(v) \in Int
  BY <1>4, Fields DEF lo12, u32
<1> QED
  BY <1>5, <1>6

\* The words of an `li' or `la' rebuild the value its line names, as it is at
\* the end of the source (asm.py 129-137, 349-437): a constant expanded with
\* the symbols of pass one is not outdated in pass two, for every source that
\* gives no name two values and has no `.org'.
THEOREM PairsRebuild == Spec => []PairsRebuildTheirValue
<1>1. AsmInv => PairsRebuildTheirValue
  <2> SUFFICES ASSUME AsmInv, phase = "done", stable, lines_with({".org"}) = {},
                      NEW j \in lines_with({"li", "la"})
               PROVE  LET first  == CHOOSE w \in at_line(j, 1) : TRUE
                          second == CHOOSE w \in at_line(j, 2) : TRUE
                      IN  u32(eval_expr(source[j].arg, symbols)) =
                            IF at_line(j, 2) = {} THEN u32(first.val)
                            ELSE u32(first.val * LO_SIZE + second.val)
    BY DEF PairsRebuildTheirValue
  <2> DEFINE line   == source[j]
             insns  == expand(line, symbols)
             x      == eval_expr(line.arg, symbols)
             v1     == operand(insns[1], symbols)
             v2     == operand(insns[2], symbols)
             first  == CHOOSE w \in at_line(j, 1) : TRUE
             second == CHOOSE w \in at_line(j, 2) : TRUE
  <2>1. Typed /\ j \in 1 .. Len(source) /\ line.op \in {"li", "la"}
    BY DEF AsmInv, lines_with
  <2>2. line.arg.off \in Int
    BY <2>1, Element, LinesAssumption DEF Typed
  <2>3. \/ /\ \A k : k \in 1 .. Len(insns) <=> k = 1
           /\ insns[1].mnem = "addi" /\ v1 = s32(x) + 0
        \/ /\ \A k : k \in 1 .. Len(insns) <=> k \in {1, 2}
           /\ insns[1].mnem = "lui" /\ insns[2].mnem = "addi"
           /\ \/ v1 = hi20(s32(x)) + 0 /\ v2 = lo12(s32(x)) + 0
              \/ v1 = hi20(x) /\ v2 = lo12(x)
    <3>1. pair_of(line, symbols)
      BY <2>1, PairOf
    <3> QED
      BY <3>1, Zenon DEF pair_of
  <2>4. "lui" # "beq" /\ "addi" # "beq"
    OBVIOUS
  <2>5. \A k \in 1 .. Len(insns) : insns[k].mnem # "beq"
    BY <2>3, <2>4
  <2>6. /\ \A n : n \in 1 .. Len(insns) => at_line(j, n) = {word_of(j, n)}
        /\ \A n : n \notin 1 .. Len(insns) => at_line(j, n) = {}
        /\ defined(line.arg, symbols)
    BY <2>5, AtLine, Zenon
  <2>7. x \in Int
    BY <2>1, <2>2, <2>6, Evaluated DEF Typed
  <2>8. s32(x) \in Int /\ u32(s32(x)) = u32(x)
    BY <2>7, SignedKeeps
  <2>9. word_of(j, 1).val = v1 /\ word_of(j, 2).val = v2
    BY DEF word_of
  <2> HIDE DEF insns, x, v1, v2
  <2>10. CASE /\ \A k : k \in 1 .. Len(insns) <=> k = 1
              /\ v1 = s32(x) + 0
    <3>1. at_line(j, 1) = {word_of(j, 1)} /\ at_line(j, 2) = {}
      BY <2>6, <2>10
    <3>2. first.val = v1
      BY <2>9, <3>1, OnlyChoice, Zenon
    <3>3. v1 = s32(x)
      BY <2>8, <2>10
    <3> QED
      BY <2>8, <3>1, <3>2, <3>3, Zenon DEF x
  <2>11. CASE /\ \A k : k \in 1 .. Len(insns) <=> k \in {1, 2}
              /\ \/ v1 = hi20(s32(x)) + 0 /\ v2 = lo12(s32(x)) + 0
                 \/ v1 = hi20(x) /\ v2 = lo12(x)
    <3>1. at_line(j, 1) = {word_of(j, 1)} /\ at_line(j, 2) = {word_of(j, 2)}
      BY <2>6, <2>11
    <3>2. first.val = v1 /\ second.val = v2
      BY <2>9, <3>1, OnlyChoice, Zenon
    <3>3. /\ hi20(s32(x)) \in Int /\ lo12(s32(x)) \in Int
      BY <2>8, Halves
    <3>4. \/ v1 = hi20(s32(x)) /\ v2 = lo12(s32(x))
          \/ v1 = hi20(x) /\ v2 = lo12(x)
      BY <2>11, <3>3
    <3>5. /\ u32(hi20(s32(x)) * LO_SIZE + lo12(s32(x))) = u32(s32(x))
          /\ u32(hi20(x) * LO_SIZE + lo12(x)) = u32(x)
      BY <2>7, <2>8, SplitRebuilds
    <3>6. u32(v1 * LO_SIZE + v2) = u32(x)
      BY <2>8, <3>4, <3>5, Zenon
    <3>7. at_line(j, 2) # {}
      BY <3>1
    <3> QED
      BY <3>2, <3>6, <3>7, Zenon DEF x
  <2> QED
    BY <2>3, <2>10, <2>11, Zenon
<1> QED
  BY <1>1, AsmInvariant, PTL
=============================================================================
