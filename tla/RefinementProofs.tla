-------------------------- MODULE RefinementProofs --------------------------
(***************************************************************************)
(* The pipeline implements the architecture, for every width of a word,    *)
(* size, interrupt schedule, setting of the two parameters and program     *)
(* that EncodedAssumption admits.                                          *)
(***************************************************************************)
EXTENDS PipelineProofs

----------------------------------------------------------------------------
(* Arithmetic modulo 2^XLEN.                                               *)

\* What is left of a multiple of M and a remainder is the remainder.
LEMMA ModUnique ==
  ASSUME NEW M \in Nat \ {0}, NEW q \in Int, NEW r \in 0 .. (M - 1)
  PROVE  (M * q + r) % M = r
OBVIOUS

\* A number is its quotient times M and its remainder.
LEMMA ModDivision ==
  ASSUME NEW M \in Nat \ {0}, NEW x \in Int
  PROVE  /\ x \div M \in Int /\ x % M \in 0 .. (M - 1)
         /\ x = M * (x \div M) + (x % M)
OBVIOUS

\* Multiplying by a natural number keeps the order.
LEMMA Monotone ==
  ASSUME NEW P \in Nat, NEW c \in Int, NEW d \in Int, c <= d
  PROVE  P * c <= P * d
<1> DEFINE e == d - c
<1>1. e \in Nat /\ d = c + e
  OBVIOUS
<1> HIDE DEF e
<1>2. P * (c + e) = P * c + P * e
  BY <1>1
<1>3. P * e \in Nat
  BY <1>1
<1> QED BY <1>1, <1>2, <1>3

\* A multiple of M adds nothing to a remainder.
LEMMA ModOfSum ==
  ASSUME NEW M \in Nat \ {0}, NEW q \in Int, NEW s \in Int
  PROVE  (M * q + s) % M = s % M
<1> DEFINE t == s \div M
           r == s % M
<1>1. t \in Int /\ r \in 0 .. (M - 1) /\ s = M * t + r
  BY ModDivision
<1> HIDE DEF t, r
<1>2. M * q + (M * t + r) = M * (q + t) + r
  BY <1>1
<1>3. (M * (q + t) + r) % M = r
  BY <1>1, ModUnique
<1> QED BY <1>1, <1>2, <1>3 DEF r

\* A sum may be truncated at any point.
LEMMA UOfSum ==
  ASSUME NEW x \in Int, NEW y \in Int PROVE U(U(x) + y) = U(x + y)
<1> DEFINE M == 2^XLEN
           q == x \div M
           r == x % M
<1>1. M \in Nat \ {0}
  BY Powers
<1> HIDE DEF M
<1>2. q \in Int /\ r \in Int /\ x = M * q + r
  BY <1>1, ModDivision
<1> HIDE DEF q, r
<1>3. x + y = M * q + (r + y)
  BY <1>1, <1>2
<1>4. (M * q + (r + y)) % M = (r + y) % M
  <2>1. r + y \in Int
    BY <1>2
  <2> QED BY <1>1, <1>2, <2>1, ModOfSum
<1> QED BY <1>3, <1>4 DEF U, M, r

\* The fetch behind an ebreak, and the address the machine halts at.
LEMMA FetchAddresses ==
  ASSUME NEW p \in Int
  PROVE  /\ U(U(p + 4) + 4) = U(p + 8) /\ U(U(p + 8) + 4) = U(p + 12)
         /\ U(U(p + 12) + 4) = U(p + 16)
         /\ U(U(U(p + 16) + 4) - 16) = U(p + 4)
<1>1. ASSUME NEW x \in Int PROVE U(U(x) + 4) = U(x + 4) /\ U(U(x) - 16) = U(x - 16)
  <2>1. U(U(x) + 4) = U(x + 4) /\ U(U(x) + (-16)) = U(x + (-16))
    BY UOfSum
  <2>2. U(x) \in Int
    BY UIsWord, WordIsInt
  <2>3. U(x) + (-16) = U(x) - 16 /\ x + (-16) = x - 16
    BY <2>2
  <2> QED BY <2>1, <2>3, Zenon
<1> DEFINE x == p + 4
           y == p + 8
           z == p + 12
           w == p + 16
           v == p + 20
<1>2. /\ x \in Int /\ y \in Int /\ z \in Int /\ w \in Int /\ v \in Int
      /\ x + 4 = y /\ y + 4 = z /\ z + 4 = w /\ w + 4 = v /\ v - 16 = x
  OBVIOUS
<1> HIDE DEF x, y, z, w, v
<1>3. U(U(x) + 4) = U(y) /\ U(U(y) + 4) = U(z) /\ U(U(z) + 4) = U(w)
  BY <1>1, <1>2
<1>4. U(U(w) + 4) = U(v) /\ U(U(v) - 16) = U(x)
  BY <1>1, <1>2
<1> QED BY <1>3, <1>4, Zenon DEF x, y, z, w

----------------------------------------------------------------------------
(* The operators of Arch.tla's own copies of Words, Isa and Decode.        *)

\* What Arch.tla computes with is what Pipeline.tla computes with.
LEMMA SameOperators ==
  ASSUME NEW x, NEW y
  PROVE  /\ Architecture!U(x) = U(x) /\ Architecture!Signed(x) = Signed(x)
         /\ Architecture!Shamt(x) = Shamt(x)
         /\ Architecture!Sll(x, y) = Sll(x, y) /\ Architecture!Srl(x, y) = Srl(x, y)
         /\ Architecture!Sra(x, y) = Sra(x, y)
         /\ Architecture!WordAlign(x) = WordAlign(x)
         /\ Architecture!HalfAlign(x) = HalfAlign(x)
         /\ Architecture!SignExtend(x, y) = SignExtend(x, y)
         /\ Architecture!AtBit(x, y) = AtBit(x, y) /\ Architecture!Bit(x, y) = Bit(x, y)
         /\ Architecture!BitNot(x) = BitNot(x)
         /\ Architecture!ByteBits = ByteBits /\ Architecture!HalfBits = HalfBits
<1>1. Architecture!U(x) = U(x) /\ Architecture!Signed(x) = Signed(x)
  BY Zenon DEF U, Architecture!U, Signed, Architecture!Signed
<1>2. Architecture!Shamt(x) = Shamt(x)
  BY Zenon DEF Shamt, Architecture!Shamt
<1>3. Architecture!Sll(x, y) = Sll(x, y) /\ Architecture!Srl(x, y) = Srl(x, y)
  BY Zenon DEF U, Architecture!U, Sll, Architecture!Sll, Srl, Architecture!Srl
<1>4. Architecture!Sra(x, y) = Sra(x, y)
  BY Zenon DEF U, Architecture!U, Sra, Architecture!Sra, Signed, Architecture!Signed
<1>5. /\ Architecture!WordAlign(x) = WordAlign(x)
      /\ Architecture!HalfAlign(x) = HalfAlign(x)
  BY Zenon DEF WordAlign, Architecture!WordAlign, HalfAlign, Architecture!HalfAlign
<1>6. Architecture!SignExtend(x, y) = SignExtend(x, y)
  BY Zenon DEF U, Architecture!U, SignExtend, Architecture!SignExtend
<1>7. Architecture!AtBit(x, y) = AtBit(x, y) /\ Architecture!Bit(x, y) = Bit(x, y)
  BY Zenon DEF AtBit, Architecture!AtBit, Bit, Architecture!Bit
<1>8. /\ Architecture!BitNot(x) = BitNot(x)
      /\ Architecture!ByteBits = ByteBits /\ Architecture!HalfBits = HalfBits
  BY Zenon DEF BitNot, Architecture!BitNot, ByteBits, Architecture!ByteBits,
               HalfBits, Architecture!HalfBits
<1> QED BY <1>1, <1>2, <1>3, <1>4, <1>5, <1>6, <1>7, <1>8

----------------------------------------------------------------------------
(* The data path computes what iss.py computes.                            *)

\* Each operation of alu.v is the one of the mnemonics of iss.py it serves.
LEMMA AluIsArith ==
  ASSUME NEW x, NEW y
  PROVE  /\ alu("ADD", x, y) = Architecture!arith("add", x, y)
         /\ alu("SUB", x, y) = Architecture!arith("sub", x, y)
         /\ alu("SLL", x, y) = Architecture!arith("sll", x, y)
         /\ alu("SLT", x, y) = Architecture!arith("slt", x, y)
         /\ alu("SLTU", x, y) = Architecture!arith("sltu", x, y)
         /\ alu("XOR", x, y) = Architecture!arith("xor", x, y)
         /\ alu("SRL", x, y) = Architecture!arith("srl", x, y)
         /\ alu("SRA", x, y) = Architecture!arith("sra", x, y)
         /\ alu("OR", x, y) = Architecture!arith("or", x, y)
         /\ alu("AND", x, y) = Architecture!arith("and", x, y)
<1>1. /\ Architecture!U(x + y) = U(x + y) /\ Architecture!U(x - y) = U(x - y)
      /\ Architecture!Signed(x) = Signed(x) /\ Architecture!Signed(y) = Signed(y)
      /\ Architecture!Shamt(y) = Shamt(y)
      /\ Architecture!Sll(x, Shamt(y)) = Sll(x, Shamt(y))
      /\ Architecture!Srl(x, Shamt(y)) = Srl(x, Shamt(y))
      /\ Architecture!Sra(x, Shamt(y)) = Sra(x, Shamt(y))
  BY SameOperators, Zenon
<1> USE DEF alu, Architecture!arith
<1>2. /\ alu("ADD", x, y) = Architecture!arith("add", x, y)
      /\ alu("SUB", x, y) = Architecture!arith("sub", x, y)
  BY <1>1
<1>3. /\ alu("SLL", x, y) = Architecture!arith("sll", x, y)
      /\ alu("SRL", x, y) = Architecture!arith("srl", x, y)
      /\ alu("SRA", x, y) = Architecture!arith("sra", x, y)
  BY <1>1
<1>4. /\ alu("SLT", x, y) = Architecture!arith("slt", x, y)
      /\ alu("SLTU", x, y) = Architecture!arith("sltu", x, y)
  BY <1>1
<1>5. /\ alu("XOR", x, y) = Architecture!arith("xor", x, y)
      /\ alu("OR", x, y) = Architecture!arith("or", x, y)
      /\ alu("AND", x, y) = Architecture!arith("and", x, y)
  OBVIOUS
<1> HIDE DEF alu, Architecture!arith
<1> QED BY <1>2, <1>3, <1>4, <1>5

----------------------------------------------------------------------------
(* Lanes of the data memory.                                               *)

\* Where a mnemonic's lane starts and how wide it is, for the access at A.
LEMMA LaneOfMnemonic ==
  ASSUME NEW A \in Word, Architecture!addr = A
  PROVE  /\ \A m \in {"lb", "lbu", "sb"} :
              /\ Architecture!lane_shift(m) = (A % 4) * ByteBits
              /\ Architecture!lane_width(m) = ByteBits
         /\ \A m \in {"lh", "lhu", "sh"} :
              /\ Architecture!lane_shift(m) = ((A % 4) \div 2) * HalfBits
              /\ Architecture!lane_width(m) = HalfBits
         /\ \A m \in {"lw", "sw"} :
              Architecture!lane_shift(m) = 0 /\ Architecture!lane_width(m) = XLEN
<1>1. Architecture!ByteBits = ByteBits /\ Architecture!HalfBits = HalfBits
  BY SameOperators, Zenon
<1>2. ByteBits \in Int /\ HalfBits \in Int
  BY Lanes
<1>3. A \in Nat
  BY WordIsInt
<1>4. (A \div 2) % 2 = (A % 4) \div 2 /\ (A % 4) \div 2 \in Int
  BY <1>3
<1>5. /\ ByteBits * (A % 4) = (A % 4) * ByteBits
      /\ HalfBits * ((A \div 2) % 2) = ((A % 4) \div 2) * HalfBits
  <2> DEFINE h == (A % 4) \div 2
             l == A % 4
  <2>1. h \in Int /\ (A \div 2) % 2 = h /\ l \in Int
    BY <1>3, <1>4
  <2> HIDE DEF h, l
  <2>2. HalfBits * h = h * HalfBits /\ ByteBits * l = l * ByteBits
    BY <1>2, <2>1
  <2> QED BY <2>1, <2>2, Zenon DEF h, l
<1> DEFINE bs == ByteBits * (A % 4)
           hs == HalfBits * ((A \div 2) % 2)
<1>6. \A m : /\ m \in {"lb", "lbu", "sb"} => /\ Architecture!lane_shift(m) = bs
                                              /\ Architecture!lane_width(m) = ByteBits
             /\ m \in {"lh", "lhu", "sh"} => /\ Architecture!lane_shift(m) = hs
                                              /\ Architecture!lane_width(m) = HalfBits
             /\ m \in {"lw", "sw"} => /\ Architecture!lane_shift(m) = 0
                                       /\ Architecture!lane_width(m) = XLEN
  BY <1>1 DEF Architecture!lane_shift, Architecture!lane_width
<1> QED BY <1>5, <1>6

\* The lane dmem.v cuts out and extends is what iss.py loads.
LEMMA LoadIsLoad ==
  ASSUME NEW A \in Word, Architecture!addr = A, abs_dmem \in Dmem
  PROVE  LET w == abs_dmem[dmem_index(A)]
         IN  /\ load_data(w, A % 4, 0) = Architecture!load("lb")
             /\ load_data(w, A % 4, 1) = Architecture!load("lh")
             /\ load_data(w, A % 4, 2) = Architecture!load("lw")
             /\ load_data(w, A % 4, 4) = Architecture!load("lbu")
             /\ load_data(w, A % 4, 5) = Architecture!load("lhu")
<1> DEFINE w == abs_dmem[dmem_index(A)]
           part(m) == (w \div 2^Architecture!lane_shift(m)) % 2^Architecture!lane_width(m)
<1>1. abs_dmem[Architecture!widx(A, DMEM_WORDS)] = w
  BY Zenon DEF Architecture!widx, dmem_index
<1>2. w \in Word
  BY Indices DEF Dmem
<1>3. \A m : Architecture!load(m) =
               IF m \in {"lb", "lh"} THEN SignExtend(part(m), Architecture!lane_width(m))
               ELSE part(m)
  BY <1>1, SameOperators, Zenon DEF Architecture!load
<1> HIDE DEF w
<1>4. part("lb") = byte_sel(w, A % 4) /\ part("lbu") = byte_sel(w, A % 4)
  BY LaneOfMnemonic, Zenon DEF byte_sel
<1>5. part("lh") = half_sel(w, A % 4) /\ part("lhu") = half_sel(w, A % 4)
  BY LaneOfMnemonic, Zenon DEF half_sel
<1>6. part("lw") = w
  <2>1. part("lw") = (w \div 2^0) % 2^XLEN
    BY LaneOfMnemonic, Zenon
  <2>2. w \div 2^0 = w
    BY <1>2, WordIsInt
  <2>3. w % 2^XLEN = w
    BY <1>2, UOfWord DEF U
  <2> QED BY <2>1, <2>2, <2>3, Zenon
<1> HIDE DEF part
<1>7. /\ Architecture!lane_width("lb") = ByteBits
      /\ Architecture!lane_width("lh") = HalfBits
  BY LaneOfMnemonic
<1>8. /\ load_data(w, A % 4, 0) = SignExtend(byte_sel(w, A % 4), ByteBits)
      /\ load_data(w, A % 4, 1) = SignExtend(half_sel(w, A % 4), HalfBits)
      /\ load_data(w, A % 4, 2) = w
      /\ load_data(w, A % 4, 4) = byte_sel(w, A % 4)
      /\ load_data(w, A % 4, 5) = half_sel(w, A % 4)
  BY DEF load_data
<1>9. /\ Architecture!load("lb") = SignExtend(part("lb"), ByteBits)
      /\ Architecture!load("lh") = SignExtend(part("lh"), HalfBits)
      /\ Architecture!load("lw") = part("lw")
      /\ Architecture!load("lbu") = part("lbu")
      /\ Architecture!load("lhu") = part("lhu")
  BY <1>3, <1>7
<1> QED BY <1>4, <1>5, <1>6, <1>8, <1>9, Zenon DEF w

\* The bits of a lane can be exchanged without a carry out of the word.
LEMMA ReplaceNeedsNoTruncation ==
  ASSUME NEW w \in Word, NEW s \in 0 .. XLEN, NEW n \in 0 .. XLEN, s + n <= XLEN,
         NEW v \in 0 .. (2^n - 1)
  PROVE  LET old == (w \div 2^s) % 2^n
         IN  /\ old \in Nat
             /\ replace(w, s, old, v) = w - old * 2^s + v * 2^s
<1> DEFINE S == 2^s
           N == 2^n
           R == 2^(XLEN - s - n)
           M == 2^XLEN
<1>1. S \in Nat \ {0} /\ N \in Nat \ {0} /\ R \in Nat \ {0} /\ M \in Nat \ {0}
  BY Powers
<1>2. M = (S * N) * R
  <2>1. s + n \in 0 .. XLEN /\ XLEN - s - n \in 0 .. XLEN
        /\ (s + n) + (XLEN - s - n) = XLEN
    BY Powers
  <2>2. 2^(s + n) = S * N
    BY PowersAssumption
  <2>3. 2^((s + n) + (XLEN - s - n)) = 2^(s + n) * R
    BY <2>1, PowersAssumption
  <2> QED BY <2>1, <2>2, <2>3
<1>3. w \in 0 .. (M - 1)
  BY DEF Word
<1> DEFINE h == w \div S
           low == w % S
           q == h \div N
           old == h % N
<1> HIDE DEF S, N, R, M
<1>4. h \in Int /\ low \in 0 .. (S - 1) /\ w = S * h + low
  BY <1>1, <1>3, ModDivision
<1> HIDE DEF h, low
<1>5. q \in Int /\ old \in 0 .. (N - 1) /\ h = N * q + old
  BY <1>1, <1>4, ModDivision
<1> HIDE DEF q, old
<1> DEFINE x == w - old * S + v * S
<1>6. v \in 0 .. (N - 1)
  BY DEF N
<1>7. x = (S * N) * q + S * v + low
  <2>1. S * (N * q + old) = (S * N) * q + S * old
    BY <1>1, <1>5
  <2> QED BY <1>1, <1>4, <1>5, <1>6, <2>1
<1>8. q >= 0 /\ q < R
  <2> DEFINE P == S * N
  <2>1. P \in Nat \ {0} /\ S <= P
    BY <1>1
  <2>2. w = P * q + (S * old + low)
    <3>1. S * (N * q + old) = P * q + S * old
      BY <1>1, <1>5
    <3> QED BY <1>1, <1>4, <1>5, <3>1
  <2>3. S * old + low \in 0 .. (P - 1)
    <3>1. S * old \in Nat /\ S * old <= S * (N - 1)
      <4>1. old \in Nat /\ old <= N - 1 /\ N - 1 \in Int /\ S \in Nat
        BY <1>1, <1>5
      <4> QED BY <4>1, Monotone
    <3>2. S * (N - 1) = P - S
      BY <1>1
    <3> QED BY <1>1, <1>4, <3>1, <3>2
  <2> HIDE DEF P
  <2>4. M = P * R
    BY <1>2 DEF P
  <2>5. q >= 0
    <3>1. SUFFICES ASSUME q <= -1 PROVE FALSE
      BY <1>5
    <3>2. P * q <= P * (-1)
      BY <1>5, <2>1, <3>1, Monotone
    <3> QED BY <1>1, <1>3, <1>5, <2>1, <2>2, <2>3, <3>2
  <2>6. q < R
    <3>1. SUFFICES ASSUME q >= R PROVE FALSE
      BY <1>1, <1>5
    <3>2. P * R <= P * q
      BY <1>1, <1>5, <2>1, <3>1, Monotone
    <3> QED BY <1>1, <1>3, <1>5, <2>1, <2>2, <2>3, <2>4, <3>2
  <2> QED BY <2>5, <2>6
<1>9. x \in 0 .. (M - 1)
  <2> DEFINE P == S * N
  <2>1. P \in Nat \ {0}
    BY <1>1
  <2>2. S * v \in Nat /\ S * v <= P - S
    <3>1. S * v <= S * (N - 1)
      <4>1. v \in Int /\ v <= N - 1 /\ N - 1 \in Int
        BY <1>1, <1>6
      <4> QED BY <1>1, <4>1, Monotone
    <3>2. S * (N - 1) = P - S
      BY <1>1
    <3> QED BY <1>1, <1>6, <3>1, <3>2
  <2>3. x = P * q + S * v + low
    BY <1>7
  <2>4. M = P * R
    BY <1>2
  <2> HIDE DEF P, x
  <2>5. P * q >= 0 /\ P * q <= P * (R - 1)
    <3>1. 0 <= q /\ q <= R - 1 /\ R - 1 \in Int
      BY <1>1, <1>5, <1>8
    <3>2. P * 0 <= P * q /\ P * q <= P * (R - 1)
      BY <1>5, <2>1, <3>1, Monotone
    <3> QED BY <2>1, <3>2
  <2>6. P * (R - 1) = M - P
    BY <1>1, <2>1, <2>4
  <2> QED BY <1>1, <1>4, <1>5, <1>6, <2>1, <2>2, <2>3, <2>5, <2>6
<1>10. w + (v - old) * S = x
  <2>1. (v - old) * S = v * S - old * S
    BY <1>1, <1>5, <1>6
  <2> QED BY <1>1, <1>3, <1>5, <1>6, <2>1
<1> HIDE DEF x
<1>11. x % M = x
  BY <1>1, <1>9
<1>12. old \in Nat
  BY <1>5
<1> USE DEF S, N, M, h, old, x
<1> QED BY <1>10, <1>11, <1>12 DEF replace, U

\* The mask of the store's width is the width of its lane.
LEMMA StoreIsStore ==
  ASSUME NEW A \in Word, NEW v \in Word, Architecture!addr = A, Architecture!b = v,
         abs_dmem \in Dmem
  PROVE  LET written(f) == [abs_dmem EXCEPT ![dmem_index(A)] =
                              store_lanes(@, A % 4, f, v)]
         IN  /\ written(0) = Architecture!store("sb")
             /\ written(1) = Architecture!store("sh")
             /\ written(2) = Architecture!store("sw")
<1> DEFINE w == abs_dmem[dmem_index(A)]
           stored(m) ==
             w - ((w \div 2^Architecture!lane_shift(m)) % 2^Architecture!lane_width(m))
                   * 2^Architecture!lane_shift(m)
               + (v % 2^Architecture!lane_width(m)) * 2^Architecture!lane_shift(m)
<1>1. /\ Architecture!widx(A, DMEM_WORDS) = dmem_index(A)
      /\ w \in Word
  <2>1. Architecture!widx(A, DMEM_WORDS) = dmem_index(A)
    BY Zenon DEF Architecture!widx, dmem_index
  <2> QED BY <2>1, Indices DEF Dmem
<1>2. \A m : Architecture!store(m) = [abs_dmem EXCEPT ![dmem_index(A)] = stored(m)]
  BY <1>1, Zenon DEF Architecture!store
<1> HIDE DEF w
<1>3. v \in Nat /\ w \in Nat /\ A \in Nat /\ A % 4 \in 0 .. 3
  BY <1>1, WordIsInt
<1>4. store_lanes(w, A % 4, 0, v) = stored("sb")
  <2> DEFINE s == (A % 4) * ByteBits
  <2>1. s \in 0 .. XLEN /\ ByteBits \in 0 .. XLEN /\ s + ByteBits <= XLEN
    <3>1. 4 * ByteBits = XLEN /\ ByteBits \in Nat
      BY WidthAssumption DEF ByteBits
    <3>2. (A % 4) \in {0, 1, 2, 3}
      BY <1>3
    <3> QED BY <3>1, <3>2, Lanes
  <2>2. v % 2^ByteBits \in 0 .. (2^ByteBits - 1)
    BY <1>3, <2>1, Powers, Lanes
  <2>3. replace(w, s, (w \div 2^s) % 2^ByteBits, v % 2^ByteBits)
          = w - ((w \div 2^s) % 2^ByteBits) * 2^s + (v % 2^ByteBits) * 2^s
    BY <1>1, <2>1, <2>2, ReplaceNeedsNoTruncation
  <2>4. store_lanes(w, A % 4, 0, v)
          = replace(w, s, (w \div 2^s) % 2^ByteBits, v % 2^ByteBits)
    BY DEF store_lanes, wmask_data, byte_sel
  <2>5. Architecture!lane_shift("sb") = s /\ Architecture!lane_width("sb") = ByteBits
    BY LaneOfMnemonic, Zenon
  <2> HIDE DEF s
  <2> QED BY <2>3, <2>4, <2>5, Zenon
<1>5. store_lanes(w, A % 4, 1, v) = stored("sh")
  <2> DEFINE s == ((A % 4) \div 2) * HalfBits
  <2>1. s \in 0 .. XLEN /\ HalfBits \in 0 .. XLEN /\ s + HalfBits <= XLEN
    <3>1. 2 * HalfBits = XLEN /\ HalfBits \in Nat
      BY WidthAssumption DEF HalfBits
    <3>2. ((A % 4) \div 2) \in {0, 1}
      BY <1>3
    <3> QED BY <3>1, <3>2, Lanes
  <2>2. v % 2^HalfBits \in 0 .. (2^HalfBits - 1)
    BY <1>3, <2>1, Powers, Lanes
  <2>3. replace(w, s, (w \div 2^s) % 2^HalfBits, v % 2^HalfBits)
          = w - ((w \div 2^s) % 2^HalfBits) * 2^s + (v % 2^HalfBits) * 2^s
    BY <1>1, <2>1, <2>2, ReplaceNeedsNoTruncation
  <2>4. store_lanes(w, A % 4, 1, v)
          = replace(w, s, (w \div 2^s) % 2^HalfBits, v % 2^HalfBits)
    BY DEF store_lanes, wmask_data, half_sel
  <2>5. Architecture!lane_shift("sh") = s /\ Architecture!lane_width("sh") = HalfBits
    BY LaneOfMnemonic, Zenon
  <2> HIDE DEF s
  <2> QED BY <2>3, <2>4, <2>5, Zenon
<1>6. store_lanes(w, A % 4, 2, v) = stored("sw")
  <2>1. stored("sw") = w - ((w \div 2^0) % 2^XLEN) * 2^0 + (v % 2^XLEN) * 2^0
    BY LaneOfMnemonic, Zenon
  <2>2. w % 2^XLEN = w /\ v % 2^XLEN = v /\ w \div 2^0 = w
    BY <1>1, <1>3, UOfWord DEF U
  <2>3. w - w * 2^0 + v * 2^0 = v
    BY <1>3
  <2>4. store_lanes(w, A % 4, 2, v) = v
    BY DEF store_lanes
  <2> QED BY <2>1, <2>2, <2>3, <2>4, Zenon
<1> HIDE DEF stored
<1> QED BY <1>2, <1>4, <1>5, <1>6, Zenon DEF w

----------------------------------------------------------------------------
(* CSRs.                                                                   *)

\* The CSR numbers of iss.py and of csr_file.v.
LEMMA SameCsrNumbers ==
  /\ Architecture!CSR_MSTATUS = CSR_MSTATUS /\ Architecture!CSR_MIE = CSR_MIE
  /\ Architecture!CSR_MTVEC = CSR_MTVEC /\ Architecture!CSR_MEPC = CSR_MEPC
  /\ Architecture!CSR_MCAUSE = CSR_MCAUSE
BY Zenon DEF Architecture!CSR_MSTATUS, CSR_MSTATUS, Architecture!CSR_MIE, CSR_MIE,
             Architecture!CSR_MTVEC, CSR_MTVEC, Architecture!CSR_MEPC, CSR_MEPC,
             Architecture!CSR_MCAUSE, CSR_MCAUSE

\* csr_file.v puts the word of a CSR together as iss.py's csr_read does.
LEMMA CsrViewIsRead ==
  ASSUME csr \in Csrs, NEW c PROVE csr_view(csr, c) = Architecture!csr_read(c)
<1> DEFINE hi == AtBit(csr.mstatus_mpie, MPIE_BIT)
           lo == AtBit(csr.mstatus_mie, MIE_BIT)
<1>1. U(hi + lo) = lo + hi
  <2>1. hi \in 0 .. 128 /\ lo \in 0 .. 8
    BY DEF AtBit, MPIE_BIT, MIE_BIT
  <2>2. 256 <= 2^XLEN
    <3> DEFINE k == 8
               n == XLEN - k
    <3>1. k \in 0 .. XLEN /\ n \in 0 .. XLEN /\ k + n <= XLEN /\ k + n = XLEN
      BY CsrBitsAssumption, Powers DEF MPIE_BIT
    <3>2. 2^k = 256
      OBVIOUS
    <3> HIDE DEF k, n
    <3>3. 2^(k + n) = 2^k * 2^n
      BY <3>1, PowersAssumption
    <3>4. 2^n \in Nat \ {0}
      BY <3>1, Powers
    <3> QED BY <3>1, <3>2, <3>3, <3>4
  <2>3. hi + lo \in Word
    BY <2>1, <2>2, Powers DEF Word
  <2> HIDE DEF hi, lo
  <2>4. hi + lo = lo + hi
    BY <2>1
  <2> QED BY <2>3, <2>4, UOfWord
<1>2. /\ Architecture!AtBit(csr.mstatus_mpie, MPIE_BIT) = hi
      /\ Architecture!AtBit(csr.mstatus_mie, MIE_BIT) = lo
      /\ Architecture!AtBit(csr.mie_meie, MEIE_BIT) = AtBit(csr.mie_meie, MEIE_BIT)
      /\ Architecture!WordAlign(csr.mtvec) = WordAlign(csr.mtvec)
      /\ Architecture!WordAlign(csr.mepc) = WordAlign(csr.mepc)
      /\ Architecture!MPIE_BIT = MPIE_BIT /\ Architecture!MIE_BIT = MIE_BIT
  BY SameOperators, Zenon DEF Architecture!MPIE_BIT, MPIE_BIT, Architecture!MIE_BIT, MIE_BIT
<1> HIDE DEF hi, lo
<1>3. csr_view(csr, c) =
        CASE c = CSR_MSTATUS -> lo + hi
          [] c = CSR_MIE     -> AtBit(csr.mie_meie, MEIE_BIT)
          [] c = CSR_MTVEC   -> WordAlign(csr.mtvec)
          [] c = CSR_MEPC    -> WordAlign(csr.mepc)
          [] c = CSR_MCAUSE  -> csr.mcause
          [] OTHER           -> 0
  BY <1>1, Zenon DEF csr_view, hi, lo
<1>4. Architecture!csr_read(c) =
        CASE c = CSR_MSTATUS -> lo + hi
          [] c = CSR_MIE     -> AtBit(csr.mie_meie, MEIE_BIT)
          [] c = CSR_MTVEC   -> WordAlign(csr.mtvec)
          [] c = CSR_MEPC    -> WordAlign(csr.mepc)
          [] c = CSR_MCAUSE  -> csr.mcause
          [] OTHER           -> 0
  BY <1>2, SameCsrNumbers, Zenon DEF Architecture!csr_read
<1> QED BY <1>3, <1>4, Zenon

\* csr_file.v keeps of a written word what iss.py's csr_write keeps.
LEMMA CsrWriteIsWritten ==
  ASSUME NEW c, NEW w PROVE csr_write(csr, c, w) = Architecture!csr_written(c, w)
<1>1. /\ Architecture!Bit(w, MPIE_BIT) = Bit(w, MPIE_BIT)
      /\ Architecture!Bit(w, MIE_BIT) = Bit(w, MIE_BIT)
      /\ Architecture!Bit(w, MEIE_BIT) = Bit(w, MEIE_BIT)
      /\ Architecture!WordAlign(w) = WordAlign(w)
      /\ Architecture!MPIE_BIT = MPIE_BIT /\ Architecture!MIE_BIT = MIE_BIT
  BY SameOperators, Zenon DEF Architecture!MPIE_BIT, MPIE_BIT, Architecture!MIE_BIT, MIE_BIT
<1> DEFINE status == [csr EXCEPT !.mstatus_mie = Bit(w, MIE_BIT),
                                 !.mstatus_mpie = Bit(w, MPIE_BIT)]
           enable == [csr EXCEPT !.mie_meie = Bit(w, MEIE_BIT)]
           vector == [csr EXCEPT !.mtvec = WordAlign(w)]
           return == [csr EXCEPT !.mepc = WordAlign(w)]
           cause  == [csr EXCEPT !.mcause = w]
           written == CASE c = CSR_MSTATUS -> status
                        [] c = CSR_MIE     -> enable
                        [] c = CSR_MTVEC   -> vector
                        [] c = CSR_MEPC    -> return
                        [] c = CSR_MCAUSE  -> cause
                        [] OTHER           -> csr
<1>2. csr_write(csr, c, w) = written
  BY Zenon DEF csr_write
<1>3. Architecture!csr_written(c, w) =
        CASE c = CSR_MSTATUS -> [csr EXCEPT !.mstatus_mie = Architecture!Bit(w, MIE_BIT),
                                           !.mstatus_mpie = Architecture!Bit(w, MPIE_BIT)]
          [] c = CSR_MIE     -> [csr EXCEPT !.mie_meie = Architecture!Bit(w, MEIE_BIT)]
          [] c = CSR_MTVEC   -> [csr EXCEPT !.mtvec = Architecture!WordAlign(w)]
          [] c = CSR_MEPC    -> [csr EXCEPT !.mepc = Architecture!WordAlign(w)]
          [] c = CSR_MCAUSE  -> cause
          [] OTHER           -> csr
  BY <1>1, SameCsrNumbers, Zenon DEF Architecture!csr_written
<1> HIDE DEF written, cause
<1>4. Architecture!csr_written(c, w) = written
  BY <1>1, <1>3, Zenon DEF written
<1> QED BY <1>2, <1>4, Zenon

----------------------------------------------------------------------------
(* Mnemonics, instruction by instruction.                                  *)

\* A program has no SYSTEM word that only control.v takes for an ecall, an
\* ebreak or an mret.
Encoded(i) ==
  i.opcode = OP_SYSTEM /\ i.funct3 = 0 /\ i.csr \in {CSR_ECALL, CSR_EBREAK, CSR_MRET}
    => i.rd = 0 /\ i.rs1 = 0

\* The opcodes and the fixed SYSTEM words of both decoders.
LEMMA SameOpcodes ==
  /\ Architecture!OP_R = OP_R /\ Architecture!OP_IARITH = OP_IARITH
  /\ Architecture!OP_LOAD = OP_LOAD /\ Architecture!OP_STORE = OP_STORE
  /\ Architecture!OP_BRANCH = OP_BRANCH /\ Architecture!OP_LUI = OP_LUI
  /\ Architecture!OP_AUIPC = OP_AUIPC /\ Architecture!OP_JAL = OP_JAL
  /\ Architecture!OP_JALR = OP_JALR /\ Architecture!OP_SYSTEM = OP_SYSTEM
  /\ Architecture!CSR_ECALL = CSR_ECALL /\ Architecture!CSR_EBREAK = CSR_EBREAK
  /\ Architecture!CSR_MRET = CSR_MRET
BY Zenon DEF OP_R, Architecture!OP_R, OP_IARITH, Architecture!OP_IARITH, OP_LOAD,
             Architecture!OP_LOAD, OP_STORE, Architecture!OP_STORE, OP_BRANCH,
             Architecture!OP_BRANCH, OP_LUI, Architecture!OP_LUI, OP_AUIPC,
             Architecture!OP_AUIPC, OP_JAL, Architecture!OP_JAL, OP_JALR,
             Architecture!OP_JALR, OP_SYSTEM, Architecture!OP_SYSTEM, CSR_ECALL,
             Architecture!CSR_ECALL, CSR_EBREAK, Architecture!CSR_EBREAK, CSR_MRET,
             Architecture!CSR_MRET

\* The branch of decode an opcode takes.
LEMMA DecodeCases ==
  ASSUME NEW i, i.funct3 \in 0 .. 7
  PROVE  LET d == Architecture!decode(i)
         IN  /\ i.opcode = OP_R => d = <<"R", Architecture!R_MNEM(i.funct7, i.funct3)>>
             /\ i.opcode = OP_IARITH /\ i.funct3 \in {1, 5} =>
                  d = <<"I", Architecture!SHIFT_MNEM(i.funct7, i.funct3)>>
             /\ i.opcode = OP_IARITH /\ i.funct3 \notin {1, 5} =>
                  d = <<"I", Architecture!IA_MNEM(i.funct3)>>
             /\ i.opcode = OP_LOAD => d = <<"L", Architecture!LD_MNEM(i.funct3)>>
             /\ i.opcode = OP_STORE => d = <<"S", Architecture!ST_MNEM(i.funct3)>>
             /\ i.opcode = OP_BRANCH => d = <<"B", Architecture!BR_MNEM(i.funct3)>>
             /\ i.opcode = OP_LUI => d = <<"U", "lui">>
             /\ i.opcode = OP_AUIPC => d = <<"U", "auipc">>
             /\ i.opcode = OP_JAL => d = <<"J", "jal">>
             /\ i.opcode = OP_JALR =>
                  d = <<"J", IF i.funct3 = 0 THEN "jalr" ELSE "illegal">>
             /\ i.opcode = OP_SYSTEM /\ i.funct3 = 0 =>
                  d = <<"SYS", Architecture!SYS_MNEM(i)>>
             /\ i.opcode = OP_SYSTEM /\ i.funct3 \in 1 .. 4 =>
                  d = <<"CSR-R", Architecture!CSR_MNEM(i.funct3)>>
             /\ i.opcode = OP_SYSTEM /\ i.funct3 \in 5 .. 7 =>
                  d = <<"CSR-I", Architecture!CSR_MNEM(i.funct3 - 4)>>
             /\ i.opcode \notin Opcodes => d = <<"none", "illegal">>
<1> DEFINE d == Architecture!decode(i)
<1> USE SameOpcodes DEF Architecture!decode, OP_R, OP_IARITH, OP_LOAD, OP_STORE,
        OP_BRANCH, OP_LUI, OP_AUIPC, OP_JAL, OP_JALR, OP_SYSTEM
<1>1. /\ i.opcode = OP_R => d = <<"R", Architecture!R_MNEM(i.funct7, i.funct3)>>
      /\ i.opcode = OP_IARITH /\ i.funct3 \in {1, 5} =>
           d = <<"I", Architecture!SHIFT_MNEM(i.funct7, i.funct3)>>
      /\ i.opcode = OP_IARITH /\ i.funct3 \notin {1, 5} =>
           d = <<"I", Architecture!IA_MNEM(i.funct3)>>
  OBVIOUS
<1>2. /\ i.opcode = OP_LOAD => d = <<"L", Architecture!LD_MNEM(i.funct3)>>
      /\ i.opcode = OP_STORE => d = <<"S", Architecture!ST_MNEM(i.funct3)>>
      /\ i.opcode = OP_BRANCH => d = <<"B", Architecture!BR_MNEM(i.funct3)>>
  OBVIOUS
<1>3. /\ i.opcode = OP_LUI => d = <<"U", "lui">>
      /\ i.opcode = OP_AUIPC => d = <<"U", "auipc">>
      /\ i.opcode = OP_JAL => d = <<"J", "jal">>
      /\ i.opcode = OP_JALR => d = <<"J", IF i.funct3 = 0 THEN "jalr" ELSE "illegal">>
  OBVIOUS
<1>4. i.opcode = OP_SYSTEM =>
        /\ i.funct3 = 0 => d = <<"SYS", Architecture!SYS_MNEM(i)>>
        /\ i.funct3 \in 1 .. 4 => d = <<"CSR-R", Architecture!CSR_MNEM(i.funct3)>>
        /\ i.funct3 \in 5 .. 7 => d = <<"CSR-I", Architecture!CSR_MNEM(i.funct3 - 4)>>
  OBVIOUS
<1>5. i.opcode \notin Opcodes => d = <<"none", "illegal">>
  BY DEF Opcodes
<1> HIDE DEF d
<1> HIDE DEF Architecture!decode
<1> QED BY <1>1, <1>2, <1>3, <1>4, <1>5, Zenon DEF d

\* The two decoders' names for the same computation.
SameArith(op, m) ==
  \/ op = "ADD" /\ m = "add"
  \/ op = "SUB" /\ m = "sub"
  \/ op = "SLL" /\ m = "sll"
  \/ op = "SLT" /\ m = "slt"
  \/ op = "SLTU" /\ m = "sltu"
  \/ op = "XOR" /\ m = "xor"
  \/ op = "SRL" /\ m = "srl"
  \/ op = "SRA" /\ m = "sra"
  \/ op = "OR" /\ m = "or"
  \/ op = "AND" /\ m = "and"

\* The same name is the same computation.
LEMMA SameArithComputes ==
  ASSUME NEW op, NEW m, SameArith(op, m), NEW x, NEW y
  PROVE  alu(op, x, y) = Architecture!arith(m, x, y) /\ m # "illegal"
BY AluIsArith DEF SameArith

\* An operation on two registers has the same name in both decoders.
LEMMA RegisterArith ==
  ASSUME NEW i \in Instruction, legal(i), i.opcode = OP_R
  PROVE  /\ Architecture!decode(i)[1] = "R"
         /\ SameArith(alu_op(i), Architecture!decode(i)[2])
<1> DEFINE m == Architecture!R_MNEM(i.funct7, i.funct3)
<1>1. Architecture!decode(i) = <<"R", m>>
  BY InstructionFields, DecodeCases
<1>2. i.funct7 = 0 \/ (i.funct7 = 32 /\ i.funct3 \in {0, 5})
  BY DEF legal, OP_R, OP_IARITH, OP_LOAD, OP_STORE, OP_BRANCH, OP_LUI, OP_AUIPC,
         OP_JAL, OP_JALR, OP_SYSTEM
<1>3. SameArith(alu_op(i), m)
  <2>1. ASSUME i.funct7 = 0 PROVE SameArith(alu_op(i), m)
    <3>1. i.funct3 \in {0, 1, 2, 3, 4, 5, 6, 7}
      BY InstructionFields
    <3> QED BY <2>1, <3>1 DEF SameArith, alu_op, Architecture!R_MNEM
  <2>2. ASSUME i.funct7 = 32, i.funct3 \in {0, 5} PROVE SameArith(alu_op(i), m)
    BY <2>2 DEF SameArith, alu_op, Architecture!R_MNEM
  <2> QED BY <1>2, <2>1, <2>2
<1> HIDE DEF m
<1> QED BY <1>1, <1>3

\* So has an operation on a register and an immediate.
LEMMA ImmediateArith ==
  ASSUME NEW i \in Instruction, legal(i), i.opcode = OP_IARITH
  PROVE  /\ Architecture!decode(i)[1] = "I"
         /\ SameArith(alu_op(i), Architecture!decode(i)[2])
<1>1. \/ i.funct3 = 1 /\ i.funct7 = 0
      \/ i.funct3 = 5 /\ i.funct7 \in {0, 32}
      \/ i.funct3 \in {0, 2, 3, 4, 6, 7}
  BY InstructionFields
     DEF legal, OP_R, OP_IARITH, OP_LOAD, OP_STORE, OP_BRANCH, OP_LUI, OP_AUIPC,
         OP_JAL, OP_JALR, OP_SYSTEM
<1>2. OP_IARITH # OP_R
  BY DEF OP_R, OP_IARITH
<1>3. CASE i.funct3 \in {1, 5}
  <2> DEFINE m == Architecture!SHIFT_MNEM(i.funct7, i.funct3)
  <2>1. Architecture!decode(i) = <<"I", m>>
    BY <1>3, InstructionFields, DecodeCases
  <2>2. SameArith(alu_op(i), m)
    BY <1>1, <1>2, <1>3 DEF SameArith, alu_op, Architecture!SHIFT_MNEM
  <2> HIDE DEF m
  <2> QED BY <2>1, <2>2
<1>4. CASE i.funct3 \notin {1, 5}
  <2> DEFINE m == Architecture!IA_MNEM(i.funct3)
  <2>1. Architecture!decode(i) = <<"I", m>>
    BY <1>4, InstructionFields, DecodeCases
  <2>2. SameArith(alu_op(i), m)
    BY <1>1, <1>2, <1>4 DEF SameArith, alu_op, Architecture!IA_MNEM
  <2> HIDE DEF m
  <2> QED BY <2>1, <2>2
<1> QED BY <1>3, <1>4

\* So has a load: funct3 is its width and extension.
LEMMA LoadNames ==
  ASSUME NEW i \in Instruction, legal(i), i.opcode = OP_LOAD
  PROVE  /\ Architecture!decode(i)[1] = "L"
         /\ <<i.funct3, Architecture!decode(i)[2]>> \in
              {<<0, "lb">>, <<1, "lh">>, <<2, "lw">>, <<4, "lbu">>, <<5, "lhu">>}
<1> DEFINE m == Architecture!LD_MNEM(i.funct3)
<1>1. Architecture!decode(i) = <<"L", m>>
  BY InstructionFields, DecodeCases
<1>2. i.funct3 \in {0, 1, 2, 4, 5}
  BY InstructionFields
     DEF legal, OP_R, OP_IARITH, OP_LOAD, OP_STORE, OP_BRANCH, OP_LUI, OP_AUIPC,
         OP_JAL, OP_JALR, OP_SYSTEM
<1>3. <<i.funct3, m>> \in
        {<<0, "lb">>, <<1, "lh">>, <<2, "lw">>, <<4, "lbu">>, <<5, "lhu">>}
  BY <1>2 DEF Architecture!LD_MNEM
<1> HIDE DEF m
<1> QED BY <1>1, <1>3

\* So has a store: funct3 is its width.
LEMMA StoreNames ==
  ASSUME NEW i \in Instruction, legal(i), i.opcode = OP_STORE
  PROVE  /\ Architecture!decode(i)[1] = "S"
         /\ <<i.funct3, Architecture!decode(i)[2]>> \in
              {<<0, "sb">>, <<1, "sh">>, <<2, "sw">>}
<1> DEFINE m == Architecture!ST_MNEM(i.funct3)
<1>1. Architecture!decode(i) = <<"S", m>>
  BY InstructionFields, DecodeCases
<1>2. i.funct3 \in {0, 1, 2}
  BY DEF legal, OP_R, OP_IARITH, OP_LOAD, OP_STORE, OP_BRANCH, OP_LUI, OP_AUIPC,
         OP_JAL, OP_JALR, OP_SYSTEM
<1>3. <<i.funct3, m>> \in {<<0, "sb">>, <<1, "sh">>, <<2, "sw">>}
  BY <1>2 DEF Architecture!ST_MNEM
<1> HIDE DEF m
<1> QED BY <1>1, <1>3

\* branch_unit.v and taken of iss.py agree on the operands iss.py reads.
LEMMA BranchNames ==
  ASSUME NEW i \in Instruction, legal(i), i.opcode = OP_BRANCH
  PROVE  /\ Architecture!decode(i)[1] = "B"
         /\ Architecture!decode(i)[2] # "illegal"
         /\ branch_taken(i.funct3, Architecture!a, Architecture!b)
              <=> Architecture!taken(Architecture!decode(i)[2])
<1> DEFINE m == Architecture!BR_MNEM(i.funct3)
<1>1. Architecture!decode(i) = <<"B", m>>
  BY InstructionFields, DecodeCases
<1>2. i.funct3 \in {0, 1, 4, 5, 6, 7}
  BY InstructionFields
     DEF legal, OP_R, OP_IARITH, OP_LOAD, OP_STORE, OP_BRANCH, OP_LUI, OP_AUIPC,
         OP_JAL, OP_JALR, OP_SYSTEM
<1>3. \/ i.funct3 = 0 /\ m = "beq"
      \/ i.funct3 = 1 /\ m = "bne"
      \/ i.funct3 = 4 /\ m = "blt"
      \/ i.funct3 = 5 /\ m = "bge"
      \/ i.funct3 = 6 /\ m = "bltu"
      \/ i.funct3 = 7 /\ m = "bgeu"
  BY <1>2 DEF Architecture!BR_MNEM
<1> HIDE DEF m
<1> DEFINE x == Architecture!a
           y == Architecture!b
<1>4. Architecture!Signed(x) = Signed(x) /\ Architecture!Signed(y) = Signed(y)
  BY SameOperators, Zenon
<1> HIDE DEF x, y
<1>5. /\ Architecture!taken("beq") = (x = y)
      /\ Architecture!taken("bne") = (x # y)
      /\ Architecture!taken("blt") = (Signed(x) < Signed(y))
      /\ Architecture!taken("bge") = (Signed(x) >= Signed(y))
      /\ Architecture!taken("bltu") = (x < y)
      /\ Architecture!taken("bgeu") = (x >= y)
  BY <1>4, Zenon DEF Architecture!taken, x, y
<1>6. /\ branch_taken(0, x, y) <=> x = y
      /\ branch_taken(1, x, y) <=> x # y
      /\ branch_taken(4, x, y) <=> Signed(x) < Signed(y)
      /\ branch_taken(5, x, y) <=> Signed(x) >= Signed(y)
      /\ branch_taken(6, x, y) <=> x < y
      /\ branch_taken(7, x, y) <=> x >= y
  BY DEF branch_taken
<1>7. m # "illegal"
  BY <1>3
<1>8. branch_taken(i.funct3, x, y) <=> Architecture!taken(m)
  BY <1>3, <1>5, <1>6, Zenon
<1> QED BY <1>1, <1>7, <1>8 DEF x, y

\* So have lui, auipc, jal and jalr.
LEMMA JumpNames ==
  ASSUME NEW i \in Instruction, legal(i)
  PROVE  /\ i.opcode = OP_LUI => Architecture!decode(i) = <<"U", "lui">>
         /\ i.opcode = OP_AUIPC => Architecture!decode(i) = <<"U", "auipc">>
         /\ i.opcode = OP_JAL => Architecture!decode(i) = <<"J", "jal">>
         /\ i.opcode = OP_JALR => Architecture!decode(i) = <<"J", "jalr">>
<1>1. i.opcode = OP_JALR => i.funct3 = 0
  BY DEF legal, OP_R, OP_IARITH, OP_LOAD, OP_STORE, OP_BRANCH, OP_LUI, OP_AUIPC,
         OP_JAL, OP_JALR, OP_SYSTEM
<1> QED BY <1>1, InstructionFields, DecodeCases

\* So have the fixed SYSTEM words of a program, which holds none of control.v's own.
LEMMA SystemNames ==
  ASSUME NEW i \in Instruction, Encoded(i), legal(i), i.opcode = OP_SYSTEM, i.funct3 = 0
  PROVE  LET d == Architecture!decode(i)
         IN  \/ i.csr = CSR_ECALL /\ d = <<"SYS", "ecall">>
             \/ i.csr = CSR_EBREAK /\ d = <<"SYS", "ebreak">>
             \/ i.csr = CSR_MRET /\ d = <<"SYS", "mret">>
<1>1. Architecture!decode(i) = <<"SYS", Architecture!SYS_MNEM(i)>>
  BY DecodeCases
<1>2. i.csr \in {CSR_ECALL, CSR_EBREAK, CSR_MRET}
  BY DEF legal, OP_R, OP_IARITH, OP_LOAD, OP_STORE, OP_BRANCH, OP_LUI, OP_AUIPC,
         OP_JAL, OP_JALR, OP_SYSTEM
<1>3. i.rd = 0 /\ i.rs1 = 0
  BY <1>2 DEF Encoded
<1>4. CSR_ECALL # CSR_EBREAK /\ CSR_ECALL # CSR_MRET /\ CSR_EBREAK # CSR_MRET
  BY DEF CSR_ECALL, CSR_EBREAK, CSR_MRET
<1>5. /\ Architecture!fixed_word(i, CSR_ECALL) = (i.csr = CSR_ECALL)
      /\ Architecture!fixed_word(i, CSR_EBREAK) = (i.csr = CSR_EBREAK)
      /\ Architecture!fixed_word(i, CSR_MRET) = (i.csr = CSR_MRET)
  BY <1>3 DEF Architecture!fixed_word
<1>6. Architecture!SYS_MNEM(i) = CASE i.csr = CSR_ECALL  -> "ecall"
                                  [] i.csr = CSR_EBREAK -> "ebreak"
                                  [] i.csr = CSR_MRET   -> "mret"
                                  [] OTHER              -> "illegal"
  BY <1>5, SameOpcodes, Zenon DEF Architecture!SYS_MNEM
<1> QED BY <1>1, <1>2, <1>4, <1>6

\* So has a CSR access: funct3 tells the operation and where the operand is.
LEMMA CsrNames ==
  ASSUME NEW i \in Instruction, legal(i), i.opcode = OP_SYSTEM, i.funct3 # 0
  PROVE  LET d == Architecture!decode(i)
         IN  /\ i.funct3 \in {1, 2, 3} => d[1] = "CSR-R"
             /\ i.funct3 \in {5, 6, 7} => d[1] = "CSR-I"
             /\ <<i.funct3 % 4, d[2]>> \in {<<1, "csrrw">>, <<2, "csrrs">>, <<3, "csrrc">>}
<1>1. i.funct3 \in {1, 2, 3} \/ i.funct3 \in {5, 6, 7}
  BY LegalOpcode
<1>2. CASE i.funct3 \in {1, 2, 3}
  <2>1. Architecture!decode(i) = <<"CSR-R", Architecture!CSR_MNEM(i.funct3)>>
    BY <1>2, InstructionFields, DecodeCases
  <2>2. <<i.funct3 % 4, Architecture!CSR_MNEM(i.funct3)>>
          \in {<<1, "csrrw">>, <<2, "csrrs">>, <<3, "csrrc">>}
    BY <1>2 DEF Architecture!CSR_MNEM
  <2> QED BY <1>2, <2>1, <2>2
<1>3. CASE i.funct3 \in {5, 6, 7}
  <2>1. Architecture!decode(i) = <<"CSR-I", Architecture!CSR_MNEM(i.funct3 - 4)>>
    BY <1>3, InstructionFields, DecodeCases
  <2>2. <<i.funct3 % 4, Architecture!CSR_MNEM(i.funct3 - 4)>>
          \in {<<1, "csrrw">>, <<2, "csrrs">>, <<3, "csrrc">>}
    BY <1>3 DEF Architecture!CSR_MNEM
  <2> QED BY <1>3, <2>1, <2>2
<1> QED BY <1>1, <1>2, <1>3

\* What control.v calls illegal has no name in iss.py.
LEMMA IllegalIsIllegal ==
  ASSUME NEW i \in Instruction, ~legal(i)
  PROVE  Architecture!decode(i)[2] = "illegal"
<1> DEFINE d == Architecture!decode(i)
<1> USE DEF legal
<1>1. ASSUME i.opcode = OP_R PROVE d[2] = "illegal"
  <2>1. d = <<"R", Architecture!R_MNEM(i.funct7, i.funct3)>>
    BY <1>1, InstructionFields, DecodeCases
  <2>2. i.funct7 # 0 /\ ~(i.funct7 = 32 /\ i.funct3 \in {0, 5})
    BY <1>1
  <2>3. Architecture!R_MNEM(i.funct7, i.funct3) = "illegal"
    BY <2>2 DEF Architecture!R_MNEM
  <2> QED BY <2>1, <2>3
<1>2. ASSUME i.opcode = OP_IARITH PROVE d[2] = "illegal"
  <2>1. i.funct3 \in {1, 5}
    BY <1>2
  <2>2. d = <<"I", Architecture!SHIFT_MNEM(i.funct7, i.funct3)>>
    BY <1>2, <2>1, InstructionFields, DecodeCases
  <2>3. Architecture!SHIFT_MNEM(i.funct7, i.funct3) = "illegal"
    BY <1>2, <2>1 DEF Architecture!SHIFT_MNEM
  <2> QED BY <2>2, <2>3
<1>3. ASSUME i.opcode = OP_LOAD PROVE d[2] = "illegal"
  <2>1. d = <<"L", Architecture!LD_MNEM(i.funct3)>>
    BY <1>3, InstructionFields, DecodeCases
  <2>2. Architecture!LD_MNEM(i.funct3) = "illegal"
    BY <1>3 DEF Architecture!LD_MNEM
  <2> QED BY <2>1, <2>2
<1>4. ASSUME i.opcode = OP_STORE PROVE d[2] = "illegal"
  <2>1. d = <<"S", Architecture!ST_MNEM(i.funct3)>>
    BY <1>4, InstructionFields, DecodeCases
  <2>2. Architecture!ST_MNEM(i.funct3) = "illegal"
    BY <1>4 DEF Architecture!ST_MNEM
  <2> QED BY <2>1, <2>2
<1>5. ASSUME i.opcode = OP_BRANCH PROVE d[2] = "illegal"
  <2>1. d = <<"B", Architecture!BR_MNEM(i.funct3)>>
    BY <1>5, InstructionFields, DecodeCases
  <2>2. Architecture!BR_MNEM(i.funct3) = "illegal"
    BY <1>5 DEF Architecture!BR_MNEM
  <2> QED BY <2>1, <2>2
<1>6. ASSUME i.opcode = OP_JALR PROVE d[2] = "illegal"
  <2>1. i.funct3 # 0
    BY <1>6
  <2>2. d = <<"J", IF i.funct3 = 0 THEN "jalr" ELSE "illegal">>
    BY <1>6, InstructionFields, DecodeCases
  <2> QED BY <2>1, <2>2
<1>7. ASSUME i.opcode = OP_SYSTEM, i.funct3 = 0 PROVE d[2] = "illegal"
  <2>1. d = <<"SYS", Architecture!SYS_MNEM(i)>>
    BY <1>7, InstructionFields, DecodeCases
  <2>2. i.csr # CSR_ECALL /\ i.csr # CSR_EBREAK /\ i.csr # CSR_MRET
    BY <1>7
  <2>3. Architecture!SYS_MNEM(i) = "illegal"
    BY <2>2, SameOpcodes, Zenon DEF Architecture!SYS_MNEM, Architecture!fixed_word
  <2> QED BY <2>1, <2>3
<1>8. ASSUME i.opcode = OP_SYSTEM, i.funct3 # 0 PROVE d[2] = "illegal"
  <2>1. i.funct3 = 4
    BY <1>8, InstructionFields
  <2>2. d = <<"CSR-R", Architecture!CSR_MNEM(i.funct3)>>
    BY <1>8, <2>1, DecodeCases
  <2>3. Architecture!CSR_MNEM(i.funct3) = "illegal"
    BY <2>1 DEF Architecture!CSR_MNEM
  <2> QED BY <2>2, <2>3
<1>9. ASSUME i.opcode \notin Opcodes PROVE d[2] = "illegal"
  <2>1. d = <<"none", "illegal">>
    BY <1>9, InstructionFields, DecodeCases
  <2> QED BY <2>1
<1>10. i.opcode \notin {OP_LUI, OP_AUIPC, OP_JAL}
  OBVIOUS
<1> HIDE DEF d, legal
<1>11. d[2] = "illegal"
  BY <1>1, <1>2, <1>3, <1>4, <1>5, <1>6, <1>7, <1>8, <1>9, <1>10, Zenon DEF Opcodes
<1> QED BY <1>11 DEF d

----------------------------------------------------------------------------
(* Every slot holds the instruction of its address.                        *)

\* What IF/ID and ID/EX hold is what the program has at their PCs.
Fetched ==
  /\ if_id.valid => if_inst = imem[imem_index(if_id.pc)]
  /\ id_ex.valid => /\ id_ex.inst = imem[imem_index(id_ex.pc)]
                    /\ id_ex.imm = imm_gen(id_ex.inst, id_ex.ctl)

\* The slots are consecutive, or the younger one is the target the older
\* jumped to from ID; the fetch runs on behind an ebreak.
InOrder ==
  /\ if_id.valid => pc_q = U(if_id.pc + 4)
  /\ id_ex.valid /\ if_id.valid => if_id.pc = U(id_ex.pc + 4)
  /\ id_ex.valid /\ ~if_id.valid => pc_q = U(id_ex.pc + id_ex.imm)
  /\ ex_mem.ebreak => pc_q = U(ex_mem.pc + 12)
  /\ mem_wb.ebreak => pc_q = U(mem_wb.pc + 16)

\* Only a branch is predicted, only an instruction stores, only a load
\* returns memory, and the CSRs that hold addresses hold aligned ones.
Accesses ==
  /\ id_ex.pred_taken => id_ex.ctl.branch
  /\ ex_mem.mem_we => ex_mem.valid
  /\ ex_mem.reg_we /\ ex_mem.wb_sel = "MEM" => ex_mem.mem_re
  /\ csr.mtvec % 4 = 0 /\ csr.mepc % 4 = 0

\* The inductive invariant of the refinement.
RefInv ==
  OperandInv /\ Decoded /\ Followed /\ Fetched /\ InOrder /\ Accesses /\ imem \in PROGRAMS

\* Nothing moves once `done' is set.
LEMMA Frozen ==
  ASSUME Next, done_r
  PROVE  /\ imem' = imem /\ pc_q' = pc_q /\ if_inst' = if_inst
         /\ if_id' = if_id /\ id_ex' = id_ex /\ ex_mem' = ex_mem /\ mem_wb' = mem_wb
         /\ regs' = regs /\ dmem' = dmem /\ latch' = latch /\ csr' = csr /\ done_r' = done_r
<1> USE DEF Next, clock, halt
<1>1. /\ imem' = imem /\ pc_q' = pc_q /\ if_inst' = if_inst
      /\ if_id' = if_id /\ id_ex' = id_ex
  BY DEF pc_reg, imem_read, if_id_reg, id_ex_reg, fetch_en
<1>2. ex_mem' = ex_mem /\ mem_wb' = mem_wb
  BY DEF ex_mem_reg, mem_wb_reg, flush_ex
<1>3. regs' = regs /\ dmem' = dmem /\ latch' = latch
  BY DEF regfile, dmem_port, wb_reg_we
<1>4. csr' = csr
  BY DEF csr_file, csr_write_en
<1>5. done_r' = done_r
  BY DEF done
<1> QED BY <1>1, <1>2, <1>3, <1>4, <1>5

\* What an instruction that leaves ID has behind and in front of it.
LEMMA LeavesId ==
  ASSUME EbreakShadow, Next, id_ex'.valid, ~done_r
  PROVE  /\ if_id.valid /\ ~stall /\ ~flush_id /\ ~redirect_ex /\ ~ebreak_pending
         /\ id_ex'.pc = if_id.pc /\ id_ex'.inst = id_inst /\ id_ex'.ctl = id_ctl
         /\ id_ex'.imm = id_imm /\ id_ex'.pred_taken = id_pred_taken
<1>1. /\ if_id.valid /\ ~stall /\ ~flush_id
      /\ id_ex'.pc = if_id.pc /\ id_ex'.inst = id_inst /\ id_ex'.ctl = id_ctl
      /\ id_ex'.imm = id_imm /\ id_ex'.pred_taken = id_pred_taken
  BY DEF Next, clock, id_ex_reg, halt, ID_EX_ZERO
<1> QED BY <1>1 DEF flush_id

\* The slots keep holding what the program has at their PCs.
LEMMA StepFetched ==
  EbreakShadow /\ Fetched /\ [Next]_vars => Fetched'
<1> SUFFICES ASSUME EbreakShadow, Fetched, [Next]_vars PROVE Fetched'
  OBVIOUS
<1>1. CASE UNCHANGED vars
  BY <1>1 DEF Fetched, vars, imem_index
<1>2. CASE Next /\ done_r
  BY <1>2, Frozen DEF Fetched, imem_index
<1>3. CASE Next /\ ~done_r
  <2>1. imem' = imem
    BY <1>3 DEF Next, clock, imem_read
  <2>2. if_id'.valid => if_inst' = imem[imem_index(if_id'.pc)]
    BY <1>3 DEF Next, clock, if_id_reg, imem_read, IF_ID_ZERO, Fetched
  <2>3. ASSUME id_ex'.valid
        PROVE  /\ id_ex'.inst = imem[imem_index(id_ex'.pc)]
               /\ id_ex'.imm = imm_gen(id_ex'.inst, id_ex'.ctl)
    BY <1>3, <2>3, LeavesId DEF Fetched, id_inst, id_imm
  <2> QED BY <2>1, <2>2, <2>3 DEF Fetched, imem_index
<1> QED BY <1>1, <1>2, <1>3

\* An ebreak changes nothing but the state of the machine.
LEMMA EbreakIsAlone ==
  ASSUME NEW i
  PROVE  control(i).ebreak => /\ ~control(i).branch /\ ~control(i).jal
                              /\ ~control(i).jalr /\ ~control(i).mret
<1>1. CASE ~legal(i) \/ i.opcode \in Opcodes \ {OP_SYSTEM}
  <2>1. /\ i.opcode \in Opcodes \ {OP_SYSTEM} => i.opcode # OP_SYSTEM
        /\ ~legal(i) => control(i) = illegal_ctl
    BY ControlCases
  <2>2. illegal_ctl.ebreak = FALSE
    BY DEF illegal_ctl, ZERO_CONTROL
  <2> QED BY <1>1, <2>1, <2>2, DecodedFlags, Zenon
<1>2. CASE legal(i) /\ i.opcode = OP_SYSTEM /\ i.funct3 = 0
  <2>1. ASSUME NEW p \in BOOLEAN, NEW q \in BOOLEAN, NEW r \in BOOLEAN
        PROVE  /\ fixed_ctl(p, q, r).branch = FALSE /\ fixed_ctl(p, q, r).jal = FALSE
               /\ fixed_ctl(p, q, r).jalr = FALSE /\ fixed_ctl(p, q, r).mret = p
               /\ fixed_ctl(p, q, r).ebreak = r
    BY DEF fixed_ctl, ZERO_CONTROL
  <2>2. control(i) = fixed_ctl(i.csr = CSR_MRET, i.csr = CSR_ECALL, i.csr = CSR_EBREAK)
    BY <1>2, SystemCases, Zenon
  <2>3. CSR_EBREAK # CSR_MRET
    BY DEF CSR_EBREAK, CSR_MRET
  <2> QED BY <2>1, <2>2, <2>3, Zenon
<1>3. CASE legal(i) /\ i.opcode = OP_SYSTEM /\ i.funct3 # 0
  <2>1. \A sel, we, imm : csr_ctl(sel, we, imm).ebreak = FALSE
    BY DEF csr_ctl, ZERO_CONTROL
  <2>2. i.funct3 \in {1, 2, 3} \/ i.funct3 \in {5, 6, 7}
    BY <1>3, LegalOpcode
  <2>3. PICK sel, we, imm : control(i) = csr_ctl(sel, we, imm)
    BY <1>3, <2>2, SystemCases, Zenon
  <2> QED BY <2>1, <2>3, Zenon
<1> QED BY <1>1, <1>2, <1>3, LegalOpcode

\* Nor does a branch jump in another way.
LEMMA BranchIsAlone ==
  ASSUME NEW i
  PROVE  control(i).branch => ~control(i).jal /\ ~control(i).jalr /\ ~control(i).mret
<1>1. ASSUME control(i).branch PROVE control(i) = branch_ctl
  <2>1. i.opcode = OP_BRANCH /\ ~control(i).illegal
    BY <1>1, ControlExcludes
  <2>2. illegal_ctl.illegal = TRUE
    BY DEF illegal_ctl, ZERO_CONTROL
  <2> QED BY <2>1, <2>2, ControlCases
<1>2. branch_ctl.jal = FALSE /\ branch_ctl.jalr = FALSE /\ branch_ctl.mret = FALSE
  BY DEF branch_ctl, ZERO_CONTROL
<1> QED BY <1>1, <1>2

\* Nothing in EX redirects: the PC runs on, or follows ID.
LEMMA PcWithoutRedirect ==
  ASSUME Next, ~done_r, ~redirect_ex
  PROVE  pc_q' = IF redirect_id THEN id_redirect_target
                 ELSE IF stall THEN pc_q ELSE U(pc_q + 4)
BY DEF Next, clock, pc_reg, pc_next, fetch_en, redirect, redirect_ex, halt

\* In the shadow of an ebreak the PC runs on.
LEMMA PcInShadow ==
  ASSUME Next, ~done_r, ~redirect_ex, ebreak_pending PROVE pc_q' = U(pc_q + 4)
<1>1. ~redirect_id /\ ~stall
  BY DEF redirect_id, jal_taken, bht_taken, stall
<1> QED BY <1>1, PcWithoutRedirect

\* The slots stay consecutive, or joined by a jump from ID.
LEMMA StepInOrder ==
  RefInv /\ [Next]_vars => InOrder'
<1> SUFFICES ASSUME RefInv, [Next]_vars PROVE InOrder'
  OBVIOUS
<1>a. /\ TypeOK /\ SlotsCoherent /\ EbreakShadow /\ Decoded /\ Followed /\ InOrder
      /\ Accesses
  BY DEF RefInv, OperandInv
<1>1. CASE UNCHANGED vars
  BY <1>a, <1>1 DEF InOrder, vars
<1>2. CASE Next /\ done_r
  BY <1>a, <1>2, Frozen DEF InOrder
<1>3. CASE Next /\ ~done_r
  <2>1. if_id'.valid => pc_q' = U(if_id'.pc + 4)
    <3>1. SUFFICES ASSUME if_id'.valid PROVE pc_q' = U(if_id'.pc + 4)
      OBVIOUS
    <3>2. ~redirect_ex /\ ~redirect_id /\ ~ebreak_pending
      BY <1>3, <3>1 DEF Next, clock, if_id_reg, IF_ID_ZERO, flush_if, halt
    <3>3. pc_q' = IF stall THEN pc_q ELSE U(pc_q + 4)
      BY <1>3, <3>2, PcWithoutRedirect
    <3>4. stall => if_id' = if_id
      BY <1>3, <3>2 DEF Next, clock, if_id_reg, flush_if, fetch_en, redirect
    <3>5. ~stall => if_id'.pc = pc_q
      BY <1>3, <3>2 DEF Next, clock, if_id_reg, flush_if, fetch_en, halt
    <3> QED BY <1>a, <3>1, <3>3, <3>4, <3>5 DEF InOrder
  <2>2. ASSUME id_ex'.valid
        PROVE  /\ if_id'.valid => if_id'.pc = U(id_ex'.pc + 4)
               /\ ~if_id'.valid => pc_q' = U(id_ex'.pc + id_ex'.imm)
    <3>1. /\ if_id.valid /\ ~stall /\ ~redirect_ex /\ ~ebreak_pending
          /\ id_ex'.pc = if_id.pc /\ id_ex'.imm = id_imm
      BY <1>a, <1>3, <2>2, LeavesId
    <3>2. if_id'.valid => if_id'.pc = pc_q
      BY <1>3, <3>1 DEF Next, clock, if_id_reg, IF_ID_ZERO, fetch_en, halt
    <3>3. ~if_id'.valid => redirect_id
      BY <1>3, <3>1 DEF Next, clock, if_id_reg, IF_ID_ZERO, flush_if, fetch_en, halt
    <3>4. redirect_id => pc_q' = U(if_id.pc + id_imm)
      BY <1>3, <3>1, PcWithoutRedirect DEF id_redirect_target
    <3> QED BY <1>a, <3>1, <3>2, <3>3, <3>4 DEF InOrder
  <2>3. ASSUME ex_mem'.ebreak PROVE pc_q' = U(ex_mem'.pc + 12)
    <3>1. /\ id_ex.ctl.ebreak /\ id_ex.valid /\ ~trap_taken
          /\ ex_mem'.pc = id_ex.pc
      BY <1>a, <1>3, <2>3
         DEF Next, clock, ex_mem_reg, EX_MEM_ZERO, flush_ex, halt, SlotsCoherent
    <3>2. /\ ~id_ex.ctl.branch /\ ~id_ex.ctl.jal /\ ~id_ex.ctl.jalr /\ ~id_ex.ctl.mret
      BY <1>a, <3>1, EbreakIsAlone, Zenon DEF Decoded
    <3>3. ~redirect_ex /\ ebreak_pending
      BY <3>1, <3>2 DEF redirect_ex, mret_taken, br_redirect, ex_branch_valid,
                        jalr_taken, ebreak_pending
    <3>4. pc_q' = U(pc_q + 4)
      BY <1>3, <3>3, PcInShadow
    <3>5. if_id.valid
      BY <1>a, <3>1, <3>2 DEF Followed, Accesses
    <3>6. pc_q = U(U(id_ex.pc + 4) + 4)
      BY <1>a, <3>1, <3>5 DEF InOrder
    <3>7. id_ex.pc \in Int
      BY <1>a, ExWires, WordIsInt
    <3>8. /\ U(U(id_ex.pc + 4) + 4) = U(id_ex.pc + 8)
          /\ U(U(id_ex.pc + 8) + 4) = U(id_ex.pc + 12)
      BY <3>7, FetchAddresses
    <3> QED BY <3>1, <3>4, <3>6, <3>8, Zenon
  <2>4. ASSUME mem_wb'.ebreak PROVE pc_q' = U(mem_wb'.pc + 16)
    <3>1. ex_mem.ebreak /\ ex_mem.valid /\ ~id_ex.valid /\ mem_wb'.pc = ex_mem.pc
      BY <1>a, <1>3, <2>4 DEF Next, clock, mem_wb_reg, SlotsCoherent, EbreakShadow, halt
    <3>2. ~redirect_ex /\ ebreak_pending
      BY <3>1 DEF redirect_ex, trap_taken, irq_taken, mret_taken, br_redirect,
                  ex_branch_valid, jalr_taken, ebreak_pending
    <3>3. pc_q' = U(U(ex_mem.pc + 12) + 4)
      BY <1>a, <1>3, <3>1, <3>2, PcInShadow DEF InOrder
    <3>4. ex_mem.pc \in Int
      BY <1>a, WordIsInt DEF TypeOK, EX_MEM
    <3>5. U(U(ex_mem.pc + 12) + 4) = U(ex_mem.pc + 16)
      BY <3>4, FetchAddresses
    <3> QED BY <3>1, <3>3, <3>5
  <2> QED BY <2>1, <2>2, <2>3, <2>4 DEF InOrder
<1> QED BY <1>1, <1>2, <1>3

\* An aligned address is a multiple of four.
LEMMA AlignedIsAligned == ASSUME NEW x \in Word PROVE WordAlign(x) % 4 = 0
BY WordIsInt DEF WordAlign

\* Stores, loads and the addresses in the CSRs stay as Accesses has them.
LEMMA StepAccesses ==
  RefInv /\ [Next]_vars => Accesses'
<1> SUFFICES ASSUME RefInv, [Next]_vars PROVE Accesses'
  OBVIOUS
<1>a. TypeOK /\ SlotsCoherent /\ EbreakShadow /\ Accesses
  BY DEF RefInv, OperandInv
<1>1. CASE UNCHANGED vars
  BY <1>a, <1>1 DEF Accesses, vars
<1>2. CASE Next
  <2> USE <1>2 DEF Next, clock
  <2>1. id_ex'.pred_taken => id_ex'.ctl.branch
    BY <1>a DEF id_ex_reg, ID_EX_ZERO, ZERO_CONTROL, id_pred_taken, Accesses
  <2>2. /\ ex_mem'.mem_we => ex_mem'.valid
        /\ ex_mem'.reg_we /\ ex_mem'.wb_sel = "MEM" => ex_mem'.mem_re
    BY <1>a DEF ex_mem_reg, EX_MEM_ZERO, Accesses, SlotsCoherent
  <2>3. csr'.mtvec % 4 = 0 /\ csr'.mepc % 4 = 0
    <3>1. csr \in Csrs /\ csr.mtvec % 4 = 0 /\ csr.mepc % 4 = 0
      BY <1>a DEF TypeOK, Accesses
    <3> DEFINE aligned(c) == c.mtvec % 4 = 0 /\ c.mepc % 4 = 0
    <3>2. aligned(ResetCsrs) /\ aligned(csr)
      BY <3>1 DEF ResetCsrs
    <3>3. aligned(csr_trap(csr, id_ex.pc, trap_cause))
      <4>1. WordAlign(id_ex.pc) % 4 = 0
        BY <1>a, ExWires, AlignedIsAligned
      <4> QED BY <3>1, <4>1 DEF csr_trap, Csrs
    <3>4. aligned(csr_mret(csr))
      BY <3>1 DEF csr_mret, Csrs
    <3>5. ASSUME NEW w \in Word PROVE aligned(csr_write(csr, id_ex.inst.csr, w))
      <4>1. WordAlign(w) % 4 = 0
        BY AlignedIsAligned
      <4> QED BY <3>1, <4>1 DEF csr_write, Csrs
    <3>6. csr_wval(id_ex.inst.funct3 % 4, csr_view(csr, id_ex.inst.csr), csr_wsrc) \in Word
      <4>1. csr_view(csr, id_ex.inst.csr) \in Word
        BY <3>1, CsrViewIsWord
      <4> QED BY <1>a, <4>1, ExWires, InstructionFields, CsrWvalIsWord
    <3> HIDE DEF aligned
    <3>7. aligned(csr')
      BY <3>2, <3>3, <3>4, <3>5, <3>6 DEF csr_file
    <3> QED BY <3>7 DEF aligned
  <2> QED BY <2>1, <2>2, <2>3 DEF Accesses
<1> QED BY <1>1, <1>2

\* RefInv holds initially and every step keeps it.
LEMMA RefInductive ==
  /\ Init => RefInv
  /\ RefInv /\ [Next]_vars => RefInv'
<1>1. Init => Decoded /\ Followed /\ Fetched /\ InOrder /\ imem \in PROGRAMS
  BY DEF Init, Decoded, Followed, Fetched, InOrder, IF_ID_ZERO, ID_EX_ZERO,
         EX_MEM_ZERO, MEM_WB_ZERO
<1>2. Init => Accesses
  BY DEF Init, Accesses, ID_EX_ZERO, EX_MEM_ZERO, ResetCsrs
<1>3. imem \in PROGRAMS /\ [Next]_vars => (imem \in PROGRAMS)'
  BY DEF Next, clock, imem_read, vars
<1>4. Init => OperandInv
  BY InitTypeOK, InitShadow, InitInterlocked DEF OperandInv
<1>5. OperandInv /\ [Next]_vars => OperandInv'
  BY StepTypeOK, StepCoherent, StepShadow, StepInterlocked DEF OperandInv
<1>6. RefInv => OperandInv /\ EbreakShadow /\ Decoded /\ Followed /\ Fetched
                /\ imem \in PROGRAMS
  BY DEF RefInv, OperandInv
<1> QED BY <1>1, <1>2, <1>3, <1>4, <1>5, <1>6, StepDecoded, StepFollowed, StepFetched,
           StepInOrder, StepAccesses DEF RefInv

----------------------------------------------------------------------------
(* What one edge does to the architectural state.                          *)

\* An edge of the running machine from a state the pipeline can be in.
Edge == RefInv /\ Next /\ ~done_r

\* What is known at such an edge.
LEMMA EdgeFacts ==
  Edge => /\ TypeOK /\ SlotsCoherent /\ EbreakShadow /\ Decoded /\ Followed /\ Fetched
          /\ InOrder /\ Accesses /\ imem \in PROGRAMS /\ OperandInv
          /\ Next /\ clock(FALSE) /\ ~done_r /\ ~halt
BY DEF Edge, RefInv, OperandInv, Next, halt

\* The result of MEM, one edge later.
LEMMA MemResultNext ==
  mem_result' = IF ex_mem'.wb_sel = "MEM"
                THEN load_data(dmem'[dmem_index(ex_mem'.res)], ex_mem'.res % 4,
                               ex_mem'.inst.funct3)
                ELSE ex_mem'.res
BY Zenon DEF mem_result, load_data, dmem_index

\* A trap empties MEM, everything else moves on to it.
LEMMA ExMemEdge ==
  ASSUME Edge
  PROVE  /\ trap_taken => /\ ex_mem'.valid = FALSE /\ ex_mem'.reg_we = FALSE
                          /\ ex_mem'.mem_we = FALSE /\ ex_mem'.ebreak = FALSE
         /\ ~trap_taken =>
              /\ ex_mem'.valid = id_ex.valid /\ ex_mem'.pc = id_ex.pc
              /\ ex_mem'.inst = id_ex.inst /\ ex_mem'.wb_sel = id_ex.ctl.wb_sel
              /\ ex_mem'.res = ex_res /\ ex_mem'.store_data = ex_store_data
              /\ ex_mem'.reg_we = (id_ex.valid /\ id_ex.ctl.reg_we)
              /\ ex_mem'.mem_we = (id_ex.valid /\ id_ex.ctl.mem_we)
              /\ ex_mem'.ebreak = id_ex.ctl.ebreak
         /\ ex_mem'.ebreak \/ ex_mem'.reg_we \/ ex_mem'.mem_we => ex_mem'.valid
         /\ ex_mem'.valid => id_ex.valid
<1>1. trap_taken => ex_mem' = EX_MEM_ZERO
  BY EdgeFacts DEF clock, ex_mem_reg, flush_ex
<1>2. ~trap_taken =>
        ex_mem' = [valid |-> id_ex.valid, illegal |-> id_ex.ctl.illegal,
                   pc |-> id_ex.pc, inst |-> id_ex.inst,
                   reg_we |-> id_ex.valid /\ id_ex.ctl.reg_we,
                   wb_sel |-> id_ex.ctl.wb_sel, res |-> ex_res,
                   store_data |-> ex_store_data,
                   mem_re |-> id_ex.valid /\ id_ex.ctl.mem_re,
                   mem_we |-> id_ex.valid /\ id_ex.ctl.mem_we,
                   ebreak |-> id_ex.ctl.ebreak]
  BY EdgeFacts DEF clock, ex_mem_reg, flush_ex
<1>3. trap_taken => /\ ex_mem'.valid = FALSE /\ ex_mem'.reg_we = FALSE
                    /\ ex_mem'.mem_we = FALSE /\ ex_mem'.ebreak = FALSE
  BY <1>1 DEF EX_MEM_ZERO
<1>4. ~trap_taken =>
        /\ ex_mem'.valid = id_ex.valid /\ ex_mem'.pc = id_ex.pc
        /\ ex_mem'.inst = id_ex.inst /\ ex_mem'.wb_sel = id_ex.ctl.wb_sel
        /\ ex_mem'.res = ex_res /\ ex_mem'.store_data = ex_store_data
        /\ ex_mem'.ebreak = id_ex.ctl.ebreak
  BY <1>2
<1>5. ~trap_taken => /\ ex_mem'.reg_we = (id_ex.valid /\ id_ex.ctl.reg_we)
                     /\ ex_mem'.mem_we = (id_ex.valid /\ id_ex.ctl.mem_we)
  <2> DEFINE we == id_ex.valid /\ id_ex.ctl.reg_we
             me == id_ex.valid /\ id_ex.ctl.mem_we
             re == id_ex.valid /\ id_ex.ctl.mem_re
  <2> HIDE DEF we, me, re
  <2>1. ~trap_taken =>
          ex_mem' = [valid |-> id_ex.valid, illegal |-> id_ex.ctl.illegal,
                     pc |-> id_ex.pc, inst |-> id_ex.inst, reg_we |-> we,
                     wb_sel |-> id_ex.ctl.wb_sel, res |-> ex_res,
                     store_data |-> ex_store_data, mem_re |-> re, mem_we |-> me,
                     ebreak |-> id_ex.ctl.ebreak]
    BY <1>2, Zenon DEF we, me, re
  <2>2. ~trap_taken => ex_mem'.reg_we = we /\ ex_mem'.mem_we = me
    BY <2>1
  <2> QED BY <2>2, Zenon DEF we, me
<1>6. id_ex.ctl.ebreak => id_ex.valid
  BY EdgeFacts DEF SlotsCoherent
<1> QED BY <1>3, <1>4, <1>5, <1>6, Zenon

\* The store in MEM is in the memory, the one in EX comes to MEM.
LEMMA MemoryEdge ==
  ASSUME Edge
  PROVE  /\ dmem' = abs_dmem
         /\ abs_dmem' = IF ex_mem'.mem_we
                        THEN [abs_dmem EXCEPT ![dmem_index(ex_mem'.res)] =
                                store_lanes(@, ex_mem'.res % 4, ex_mem'.inst.funct3,
                                            ex_mem'.store_data)]
                        ELSE abs_dmem
<1>1. dmem' = abs_dmem
  BY EdgeFacts DEF clock, dmem_port, abs_dmem
<1> QED BY <1>1, Zenon DEF abs_dmem, dmem_index

\* An ebreak in EX halts the machine, and nothing else does.
LEMMA HaltEdge ==
  ASSUME Edge
  PROVE  /\ done_r' <=> mem_wb.ebreak
         /\ mem_wb'.ebreak <=> ex_mem.ebreak
         /\ abs_halted' <=> (abs_halted \/ ex_mem'.ebreak)
         /\ done_r' => ~ex_mem.valid /\ ~ex_mem'.valid
<1>1. done_r' <=> mem_wb.ebreak
  BY EdgeFacts DEF clock, done, SlotsCoherent
<1>2. mem_wb'.ebreak <=> ex_mem.ebreak
  BY EdgeFacts DEF clock, mem_wb_reg
<1>3. done_r' => ~ex_mem.valid /\ ~id_ex.valid
  BY <1>1, EdgeFacts DEF EbreakShadow
<1>4. ~id_ex.valid => ~ex_mem'.valid
  BY ExMemEdge, Zenon
<1> QED BY <1>1, <1>2, <1>3, <1>4, EdgeFacts DEF abs_halted

\* What WB writes is what MEM had as its result one edge before.
LEMMA WbDataEdge ==
  ASSUME Edge, ex_mem.reg_we PROVE wb_data' = mem_result
<1>1. mem_wb'.wb_sel = ex_mem.wb_sel /\ mem_wb'.res = ex_mem.res
  BY EdgeFacts DEF clock, mem_wb_reg
<1>2. CASE ex_mem.wb_sel = "MEM"
  <2>1. ex_mem.mem_re
    BY <1>2, EdgeFacts DEF Accesses
  <2>2. latch' = [rword |-> dmem[dmem_index(ex_mem.res)], raddr_l |-> ex_mem.res % 4,
                  rfunct3 |-> ex_mem.inst.funct3]
    BY <2>1, EdgeFacts DEF clock, dmem_port
  <2>3. /\ latch'.rword = dmem[dmem_index(ex_mem.res)]
        /\ latch'.raddr_l = ex_mem.res % 4 /\ latch'.rfunct3 = ex_mem.inst.funct3
    BY <2>2
  <2>4. wb_data' = load_data(latch'.rword, latch'.raddr_l, latch'.rfunct3)
    BY <1>1, <1>2, Zenon DEF wb_data, dmem_rdata, load_data
  <2> QED BY <1>2, <2>3, <2>4 DEF mem_result
<1>3. CASE ex_mem.wb_sel # "MEM"
  BY <1>1, <1>3 DEF wb_data, mem_result
<1> QED BY <1>2, <1>3

\* What MEM and WB still had to write is written or has moved on to WB.
LEMMA WrittenEdge ==
  ASSUME Edge, NEW r \in Reg
  PROVE  (IF wb_reg_we' /\ wb_rd_addr' = r THEN wb_data' ELSE regs'[r]) = abs_regs[r]
<1>1. /\ mem_wb'.valid = ex_mem.valid /\ mem_wb'.reg_we = ex_mem.reg_we
      /\ mem_wb'.inst = ex_mem.inst
  BY EdgeFacts DEF clock, mem_wb_reg
<1>2. (wb_reg_we' /\ wb_rd_addr' = r) <=> (r # 0 /\ ex_mem.reg_we /\ ex_mem.inst.rd = r)
  BY <1>1, EdgeFacts, HaltEdge DEF wb_reg_we, wb_rd_addr, halt, SlotsCoherent
<1>3. regs'[r] = IF wb_reg_we /\ wb_rd_addr = r THEN wb_data ELSE regs[r]
  BY EdgeFacts DEF clock, regfile, TypeOK
<1>4. abs_regs[r] = IF r # 0 /\ ex_mem.reg_we /\ ex_mem.inst.rd = r THEN mem_result
                    ELSE IF wb_reg_we /\ wb_rd_addr = r THEN wb_data ELSE regs[r]
  BY EdgeFacts DEF abs_regs
<1> QED BY <1>2, <1>3, <1>4, WbDataEdge

\* The result of the instruction in EX comes to MEM.
LEMMA RegisterEdge ==
  ASSUME Edge
  PROVE  abs_regs' = [r \in Reg |-> IF r # 0 /\ ex_mem'.reg_we /\ ex_mem'.inst.rd = r
                                     THEN mem_result' ELSE abs_regs[r]]
<1>1. ex_mem'.reg_we => ~halt'
  <2>1. ex_mem'.reg_we => ex_mem'.valid
    BY ExMemEdge, Zenon
  <2> QED BY <2>1, HaltEdge DEF halt
<1>2. abs_regs' = [r \in Reg |-> IF r # 0 /\ ex_mem'.reg_we /\ ex_mem'.inst.rd = r /\ ~halt'
                                  THEN mem_result'
                                  ELSE IF wb_reg_we' /\ wb_rd_addr' = r THEN wb_data'
                                  ELSE regs'[r]]
  BY Zenon DEF abs_regs
<1> QED BY <1>1, <1>2, WrittenEdge

\* Nothing in EX redirects: the next instruction to execute stays the one
\* in IF/ID, or the one being fetched.
LEMMA FrontEdge ==
  ASSUME Edge, ~redirect_ex, ~ebreak_pending, ~ex_mem'.ebreak
  PROVE  abs_pc' = IF if_id.valid THEN if_id.pc ELSE pc_q
<1>1. ~done_r' /\ ~mem_wb'.ebreak
  BY EdgeFacts, HaltEdge DEF ebreak_pending, SlotsCoherent
<1>2. abs_pc' = IF id_ex'.valid THEN id_ex'.pc
                ELSE IF if_id'.valid THEN if_id'.pc ELSE pc_q'
  BY <1>1 DEF abs_pc
<1>3. ~flush_id
  BY DEF flush_id
<1>4. CASE if_id.valid /\ ~stall
  <2>1. id_ex'.valid /\ id_ex'.pc = if_id.pc
    BY <1>3, <1>4, EdgeFacts DEF clock, id_ex_reg
  <2> QED BY <1>2, <1>4, <2>1
<1>5. CASE stall
  <2>1. if_id.valid
    BY <1>5 DEF stall
  <2>2. ~redirect_id /\ ~redirect /\ ~fetch_en
    BY <1>5 DEF redirect_id, redirect, fetch_en, jal_taken, bht_taken
  <2>3. ~id_ex'.valid /\ if_id' = if_id
    BY <1>5, <2>2, EdgeFacts DEF clock, id_ex_reg, if_id_reg, flush_if, ID_EX_ZERO
  <2> QED BY <1>2, <2>1, <2>3
<1>6. CASE ~if_id.valid
  <2>1. ~stall /\ ~redirect_id
    BY <1>6 DEF stall, redirect_id, jal_taken, bht_taken, id_pred_taken
  <2>2. ~id_ex'.valid
    BY <1>3, <1>6, EdgeFacts DEF clock, id_ex_reg, ID_EX_ZERO
  <2>3. if_id'.valid /\ if_id'.pc = pc_q
    BY <2>1, EdgeFacts DEF clock, if_id_reg, flush_if, fetch_en
  <2> QED BY <1>2, <1>6, <2>2, <2>3
<1> QED BY <1>4, <1>5, <1>6

\* The empty instruction slot: no architectural step.
LEMMA BubbleEdge ==
  ASSUME Edge, ~id_ex.valid PROVE UNCHANGED Architecture!archVars
<1>1. ~redirect_ex /\ ~trap_taken /\ ~mret_taken
  BY DEF redirect_ex, trap_taken, irq_taken, mret_taken, br_redirect, ex_branch_valid,
         jalr_taken
<1>2. ~ex_mem'.ebreak /\ ~ex_mem'.reg_we /\ ~ex_mem'.mem_we
  BY ExMemEdge, Zenon
<1>3. imem' = imem /\ csr' = csr
  BY <1>1, EdgeFacts DEF clock, imem_read, csr_file, csr_write_en
<1>4. abs_dmem' = abs_dmem
  BY <1>2, MemoryEdge
<1>5. abs_regs' = abs_regs
  <2>1. abs_regs' = [r \in Reg |-> abs_regs[r]]
    BY <1>2, RegisterEdge
  <2>2. abs_regs = [r \in Reg |-> abs_regs[r]]
    BY DEF abs_regs
  <2> QED BY <2>1, <2>2
<1>6. abs_halted' = abs_halted
  <2>1. abs_halted' <=> abs_halted
    BY <1>2, HaltEdge
  <2>2. abs_halted \in BOOLEAN /\ abs_halted' \in BOOLEAN
    BY DEF abs_halted
  <2> QED BY <2>1, <2>2
<1>7. abs_pc' = abs_pc
  <2>1. ASSUME ex_mem.ebreak PROVE abs_pc' = abs_pc
    <3>1. ~done_r' /\ mem_wb'.ebreak /\ mem_wb'.pc = ex_mem.pc
      BY <2>1, EdgeFacts, HaltEdge DEF clock, mem_wb_reg, SlotsCoherent
    <3> QED BY <1>2, <2>1, <3>1, EdgeFacts DEF abs_pc
  <2>2. ASSUME ~ex_mem.ebreak, mem_wb.ebreak PROVE abs_pc' = abs_pc
    <3>1. done_r' /\ ebreak_pending
      BY <2>2, EdgeFacts, HaltEdge DEF ebreak_pending, SlotsCoherent
    <3>2. pc_q' = U(pc_q + 4) /\ pc_q = U(mem_wb.pc + 16)
      BY <1>1, <2>2, <3>1, EdgeFacts, PcInShadow DEF InOrder
    <3>3. mem_wb.pc \in Int
      BY EdgeFacts, WordIsInt DEF TypeOK, MEM_WB
    <3>4. U(pc_q' - 16) = U(mem_wb.pc + 4)
      BY <3>2, <3>3, FetchAddresses
    <3>5. abs_pc' = U(pc_q' - 16)
      BY <3>1, Zenon DEF abs_pc, U
    <3>6. abs_pc = U(mem_wb.pc + 4)
      BY <2>2, EdgeFacts DEF abs_pc
    <3> QED BY <3>4, <3>5, <3>6
  <2>3. ASSUME ~ex_mem.ebreak, ~mem_wb.ebreak PROVE abs_pc' = abs_pc
    <3>1. ~ebreak_pending
      BY <2>3 DEF ebreak_pending
    <3>2. abs_pc' = IF if_id.valid THEN if_id.pc ELSE pc_q
      BY <1>1, <1>2, <3>1, FrontEdge
    <3> QED BY <2>3, <3>2, EdgeFacts DEF abs_pc
  <2> QED BY <2>1, <2>2, <2>3
<1> QED BY <1>3, <1>4, <1>5, <1>6, <1>7, Zenon DEF Architecture!archVars

\* The frozen machine: no architectural step.
LEMMA HaltedEdge ==
  ASSUME Next, done_r PROVE UNCHANGED Architecture!archVars
<1>1. imem' = imem /\ csr' = csr
  BY Frozen
<1>2. abs_dmem' = abs_dmem
  BY Frozen, Zenon DEF abs_dmem, dmem_index
<1>3. abs_halted' = abs_halted
  BY Frozen, Zenon DEF abs_halted
<1>4. abs_pc' = abs_pc
  BY Frozen, Zenon DEF abs_pc, U
<1>5. abs_regs' = abs_regs
  <2>1. wb_data' = wb_data /\ wb_rd_addr' = wb_rd_addr
    <3>1. wb_data' = IF mem_wb'.wb_sel = "MEM"
                     THEN load_data(latch'.rword, latch'.raddr_l, latch'.rfunct3)
                     ELSE mem_wb'.res
      BY Zenon DEF wb_data, dmem_rdata, load_data
    <3> QED BY <3>1, Frozen, Zenon DEF wb_data, wb_rd_addr, dmem_rdata
  <2>a. mem_result' = mem_result
    BY MemResultNext, Frozen, Zenon DEF mem_result
  <2>2. wb_reg_we' = wb_reg_we /\ halt' = halt
    BY Frozen, Zenon DEF wb_reg_we, wb_rd_addr, halt
  <2> QED BY <2>1, <2>a, <2>2, Frozen, Zenon DEF abs_regs
<1> QED BY <1>1, <1>2, <1>3, <1>4, <1>5, Zenon DEF Architecture!archVars

----------------------------------------------------------------------------
(* The instruction in EX takes one architectural step.                     *)

\* The architectural state is the one before the instruction in EX.
LEMMA StateBeforeEx ==
  ASSUME Edge, id_ex.valid
  PROVE  /\ abs_pc = id_ex.pc /\ abs_halted = FALSE
         /\ ~ex_mem.ebreak /\ ~mem_wb.ebreak
         /\ id_ex.inst \in Instruction /\ Encoded(id_ex.inst)
         /\ id_ex.ctl = control(id_ex.inst)
         /\ id_ex.imm = imm_gen(id_ex.inst, id_ex.ctl)
         /\ csr \in Csrs /\ abs_dmem \in Dmem /\ abs_regs \in [Reg -> Word]
<1>1. ~ex_mem.ebreak /\ ~mem_wb.ebreak
  BY EdgeFacts DEF EbreakShadow
<1>2. abs_pc = id_ex.pc /\ abs_halted = FALSE
  BY <1>1, EdgeFacts DEF abs_pc, abs_halted
<1>3. id_ex.inst \in Instruction /\ csr \in Csrs /\ id_ex.pc \in Word
  BY EdgeFacts, ExWires DEF TypeOK
<1>4. id_ex.ctl = control(id_ex.inst) /\ id_ex.imm = imm_gen(id_ex.inst, id_ex.ctl)
  BY EdgeFacts DEF Decoded, Fetched
<1>5. Encoded(id_ex.inst)
  <2>1. imem_index(id_ex.pc) \in DOMAIN imem
    BY <1>3, EdgeFacts, Indices, ContentsAssumption DEF Imem
  <2>2. id_ex.inst = imem[imem_index(id_ex.pc)] /\ imem \in PROGRAMS
    BY EdgeFacts DEF Fetched
  <2>3. LET w == imem[imem_index(id_ex.pc)]
        IN  w.opcode = OP_SYSTEM /\ w.funct3 = 0 /\ w.csr \in {CSR_ECALL, CSR_EBREAK, CSR_MRET}
              => w.rd = 0 /\ w.rs1 = 0
    BY <2>1, <2>2, EncodedAssumption
  <2> QED BY <2>2, <2>3 DEF Encoded
<1>6. abs_dmem \in Dmem
  <2>1. dmem' \in Dmem
    BY EdgeFacts, StepTypeOK DEF TypeOK
  <2> QED BY <2>1, MemoryEdge
<1>7. abs_regs \in [Reg -> Word]
  <2>1. mem_result \in Word
    <3>1. /\ ex_mem.res \in Word /\ ex_mem.inst.funct3 \in 0 .. 7 /\ dmem \in Dmem
      BY EdgeFacts, InstructionFields DEF TypeOK, EX_MEM
    <3>2. ex_mem.res % 4 \in 0 .. 3
      BY <3>1, WordIsInt
    <3>3. dmem[dmem_index(ex_mem.res)] \in Word
      BY <3>1, Indices DEF Dmem
    <3> QED BY <3>1, <3>2, <3>3, LoadIsWord DEF mem_result
  <2>2. wb_data \in Word /\ regs \in [Reg -> Word]
    BY EdgeFacts, WbIdWires DEF TypeOK
  <2> QED BY <2>1, <2>2 DEF abs_regs
<1> QED BY <1>1, <1>2, <1>3, <1>4, <1>5, <1>6, <1>7

\* iss.py fetches, decodes and reads what EX holds.
LEMMA SameInstruction ==
  ASSUME Edge, id_ex.valid
  PROVE  /\ Architecture!insn = id_ex.inst
         /\ Architecture!fmt = Architecture!decode(id_ex.inst)[1]
         /\ Architecture!mnem = Architecture!decode(id_ex.inst)[2]
         /\ Architecture!pc4 = U(id_ex.pc + 4)
         /\ Architecture!U(abs_pc + id_ex.inst.imm) = U(id_ex.pc + id_ex.inst.imm)
         /\ uses_rs1(id_ex.inst, id_ex.ctl) => ex_a_val = Architecture!a
         /\ uses_rs2(id_ex.inst) => /\ ex_b_val = Architecture!b
                                    /\ ex_store_data = Architecture!b
<1>1. Architecture!insn = id_ex.inst
  <2>1. id_ex.inst = imem[imem_index(id_ex.pc)]
    BY EdgeFacts DEF Fetched
  <2> QED BY <2>1, StateBeforeEx, Zenon DEF Architecture!insn, Architecture!widx, imem_index
<1>2. /\ Architecture!fmt = Architecture!decode(id_ex.inst)[1]
      /\ Architecture!mnem = Architecture!decode(id_ex.inst)[2]
  BY <1>1, Zenon DEF Architecture!fmt, Architecture!mnem
<1>3. /\ Architecture!pc4 = U(id_ex.pc + 4)
      /\ Architecture!U(abs_pc + id_ex.inst.imm) = U(id_ex.pc + id_ex.inst.imm)
  BY StateBeforeEx, SameOperators, Zenon DEF Architecture!pc4
<1>4. OperandsAreArchitectural
  BY EdgeFacts, InterlockGivesOperands
<1>5. uses_rs1(id_ex.inst, id_ex.ctl) => ex_a_val = Architecture!a
  BY <1>1, <1>4, Zenon DEF OperandsAreArchitectural, Architecture!a, Architecture!rd_reg
<1>6. uses_rs2(id_ex.inst) => ex_b_val = Architecture!b /\ ex_store_data = Architecture!b
  BY <1>1, <1>4, Zenon DEF OperandsAreArchitectural, Architecture!b, Architecture!rd_reg
<1> QED BY <1>1, <1>2, <1>3, <1>5, <1>6

\* The register result of the instruction in EX, a load's included.
ex_result ==
  IF id_ex.ctl.wb_sel = "MEM"
  THEN load_data(abs_dmem[dmem_index(ex_res)], ex_res % 4, id_ex.inst.funct3)
  ELSE ex_res

\* What an instruction no trap squashes does, by its control bits.
LEMMA Executes ==
  ASSUME Edge, id_ex.valid, ~trap_taken
  PROVE  /\ imem' = imem
         /\ abs_halted' = id_ex.ctl.ebreak
         /\ ~id_ex.ctl.reg_we => abs_regs' = abs_regs
         /\ id_ex.ctl.reg_we => abs_regs' = Architecture!wr_reg(id_ex.inst.rd, ex_result)
         /\ ~id_ex.ctl.mem_we => abs_dmem' = abs_dmem
         /\ id_ex.ctl.mem_we =>
              abs_dmem' = [abs_dmem EXCEPT ![dmem_index(ex_res)] =
                             store_lanes(@, ex_res % 4, id_ex.inst.funct3, ex_store_data)]
         /\ ~id_ex.ctl.mret /\ ~id_ex.ctl.csr_we => csr' = csr
         /\ id_ex.ctl.mret => csr' = csr_mret(csr)
         /\ ~id_ex.ctl.mret /\ id_ex.ctl.csr_we =>
              csr' = csr_write(csr, id_ex.inst.csr,
                               csr_wval(id_ex.inst.funct3 % 4,
                                        csr_view(csr, id_ex.inst.csr), csr_wsrc))
<1>1. imem' = imem
  BY EdgeFacts DEF clock, imem_read
<1>2. abs_halted' = id_ex.ctl.ebreak
  <2>1. abs_halted' <=> id_ex.ctl.ebreak
    BY HaltEdge, ExMemEdge, StateBeforeEx, Zenon
  <2>2. abs_halted' \in BOOLEAN
    BY DEF abs_halted
  <2>3. id_ex.ctl.ebreak \in BOOLEAN
    BY EdgeFacts, ExWires DEF ControlWord
  <2> QED BY <2>1, <2>2, <2>3
<1>3. ASSUME ~id_ex.ctl.reg_we PROVE abs_regs' = abs_regs
  <2>1. ~ex_mem'.reg_we
    BY <1>3, ExMemEdge, Zenon
  <2>2. abs_regs' = [r \in Reg |-> abs_regs[r]]
    BY <2>1, RegisterEdge
  <2> QED BY <2>2, StateBeforeEx
<1>4. ASSUME id_ex.ctl.reg_we
      PROVE  abs_regs' = Architecture!wr_reg(id_ex.inst.rd, ex_result)
  <2>1. ex_mem'.reg_we /\ ex_mem'.inst = id_ex.inst
    BY <1>4, ExMemEdge, Zenon
  <2>2. mem_result' = ex_result
    BY MemResultNext, MemoryEdge, ExMemEdge, Zenon DEF ex_result
  <2>3. abs_regs' = [r \in Reg |-> IF r # 0 /\ id_ex.inst.rd = r THEN ex_result
                                   ELSE abs_regs[r]]
    BY <2>1, <2>2, RegisterEdge
  <2>4. id_ex.inst.rd \in Reg
    BY StateBeforeEx, InstructionFields
  <2> QED BY <2>3, <2>4, StateBeforeEx DEF Architecture!wr_reg
<1>5. ~id_ex.ctl.mem_we => abs_dmem' = abs_dmem
  BY MemoryEdge, ExMemEdge, Zenon
<1>6. id_ex.ctl.mem_we =>
        abs_dmem' = [abs_dmem EXCEPT ![dmem_index(ex_res)] =
                       store_lanes(@, ex_res % 4, id_ex.inst.funct3, ex_store_data)]
  BY MemoryEdge, ExMemEdge, Zenon
<1>7. csr' = IF id_ex.ctl.mret THEN csr_mret(csr)
             ELSE IF id_ex.ctl.csr_we
             THEN csr_write(csr, id_ex.inst.csr,
                            csr_wval(id_ex.inst.funct3 % 4,
                                     csr_view(csr, id_ex.inst.csr), csr_wsrc))
             ELSE csr
  BY EdgeFacts DEF clock, csr_file, mret_taken, csr_write_en
<1> QED BY <1>1, <1>2, <1>3, <1>4, <1>5, <1>6, <1>7

\* Where execution goes on.
LEMMA NextPc ==
  ASSUME Edge, id_ex.valid, ~trap_taken
  PROVE  abs_pc' = IF id_ex.ctl.mret THEN csr.mepc
                   ELSE IF id_ex.ctl.branch
                   THEN (IF branch_cond THEN U(id_ex.pc + id_ex.imm) ELSE U(id_ex.pc + 4))
                   ELSE IF id_ex.ctl.jalr THEN HalfAlign(alu_y)
                   ELSE IF id_ex.ctl.jal THEN U(id_ex.pc + id_ex.imm)
                   ELSE U(id_ex.pc + 4)
<1>1. /\ id_ex.ctl.ebreak => /\ ~id_ex.ctl.branch /\ ~id_ex.ctl.jal
                             /\ ~id_ex.ctl.jalr /\ ~id_ex.ctl.mret
      /\ id_ex.pred_taken => id_ex.ctl.branch
  BY StateBeforeEx, EdgeFacts, EbreakIsAlone DEF Accesses
<1>2. ex_mem'.ebreak = id_ex.ctl.ebreak /\ ex_mem'.pc = id_ex.pc
  BY ExMemEdge, Zenon
<1>3. ~done_r' /\ ~mem_wb'.ebreak
  BY StateBeforeEx, HaltEdge, Zenon
<1>4. CASE id_ex.ctl.ebreak
  <2>1. abs_pc' = U(ex_mem'.pc + 4)
    BY <1>2, <1>3, <1>4, Zenon DEF abs_pc, U
  <2> QED BY <1>1, <1>2, <1>4, <2>1
<1>5. CASE ~id_ex.ctl.ebreak /\ redirect_ex
  <2>1. ~if_id'.valid /\ ~id_ex'.valid
    BY <1>5, EdgeFacts DEF clock, if_id_reg, id_ex_reg, flush_if, flush_id,
                           IF_ID_ZERO, ID_EX_ZERO
  <2>2. abs_pc' = pc_q'
    BY <1>2, <1>3, <1>5, <2>1 DEF abs_pc
  <2>3. pc_q' = pc_next
    BY <1>5, EdgeFacts DEF clock, pc_reg, fetch_en, redirect
  <2>4. pc_next = IF id_ex.ctl.mret THEN csr.mepc
                  ELSE IF br_redirect THEN ex_correct_target
                  ELSE IF id_ex.ctl.jalr THEN HalfAlign(alu_y)
                  ELSE pc_next
    BY DEF pc_next, mret_taken, jalr_taken, ex_jalr_target
  <2>5. br_redirect <=> (id_ex.ctl.branch /\ id_ex.pred_taken # branch_cond)
    BY DEF br_redirect, ex_branch_valid
  <2>6. id_ex.ctl.mret \/ br_redirect \/ id_ex.ctl.jalr
    BY <1>5 DEF redirect_ex, mret_taken, jalr_taken
  <2>7. id_ex.ctl.branch => ~id_ex.ctl.jalr /\ ~id_ex.ctl.mret
    BY StateBeforeEx, BranchIsAlone
  <2> QED BY <2>2, <2>3, <2>4, <2>5, <2>6, <2>7 DEF ex_correct_target
<1>6. CASE ~id_ex.ctl.ebreak /\ ~redirect_ex
  <2>1. ~ebreak_pending
    BY <1>6, StateBeforeEx DEF ebreak_pending
  <2>2. abs_pc' = IF if_id.valid THEN if_id.pc ELSE pc_q
    BY <1>2, <1>6, <2>1, FrontEdge
  <2>3. abs_pc' = IF id_ex.ctl.jal \/ id_ex.pred_taken THEN U(id_ex.pc + id_ex.imm)
                  ELSE U(id_ex.pc + 4)
    BY <2>2, EdgeFacts DEF Followed, InOrder
  <2>4. ~id_ex.ctl.mret /\ ~id_ex.ctl.jalr
    BY <1>6 DEF redirect_ex, mret_taken, jalr_taken
  <2>5. id_ex.ctl.branch => (id_ex.pred_taken = branch_cond)
    BY <1>6 DEF redirect_ex, br_redirect, ex_branch_valid
  <2>6. id_ex.ctl.branch => ~id_ex.ctl.jal
    BY StateBeforeEx, BranchIsAlone
  <2> QED BY <1>1, <2>3, <2>4, <2>5, <2>6
<1> QED BY <1>4, <1>5, <1>6

\* The effects a row of the control table may have.
Flags(c, reg_we, mem_we, branch, jal, jalr) ==
  /\ c.reg_we = reg_we /\ c.mem_we = mem_we
  /\ c.branch = branch /\ c.jal = jal /\ c.jalr = jalr
  /\ c.mret = FALSE /\ c.csr_we = FALSE /\ c.ebreak = FALSE /\ c.ecall = FALSE
  /\ c.imm_sel # "Z"

\* The result a row selects.
Selects(c, alu_op_of, alu_src_a, alu_src_b, wb_sel) ==
  /\ c.alu_op = alu_op_of /\ c.alu_src_a = alu_src_a /\ c.alu_src_b = alu_src_b
  /\ c.wb_sel = wb_sel

\* What each row of the control table changes.
LEMMA RowEffects ==
  ASSUME NEW op
  PROVE  /\ Flags(r_ctl(op), TRUE, FALSE, FALSE, FALSE, FALSE)
         /\ Flags(iarith_ctl(op), TRUE, FALSE, FALSE, FALSE, FALSE)
         /\ Flags(load_ctl, TRUE, FALSE, FALSE, FALSE, FALSE)
         /\ Flags(store_ctl, FALSE, TRUE, FALSE, FALSE, FALSE)
         /\ Flags(branch_ctl, FALSE, FALSE, TRUE, FALSE, FALSE)
         /\ Flags(lui_ctl, TRUE, FALSE, FALSE, FALSE, FALSE)
         /\ Flags(auipc_ctl, TRUE, FALSE, FALSE, FALSE, FALSE)
         /\ Flags(jal_ctl, TRUE, FALSE, FALSE, TRUE, FALSE)
         /\ Flags(jalr_ctl, TRUE, FALSE, FALSE, FALSE, TRUE)
         /\ Flags(illegal_ctl, FALSE, FALSE, FALSE, FALSE, FALSE)
BY DEF Flags, r_ctl, iarith_ctl, load_ctl, store_ctl, branch_ctl, lui_ctl, auipc_ctl,
       jal_ctl, jalr_ctl, illegal_ctl, ZERO_CONTROL

\* Which result each row selects, and from which operands.
LEMMA RowResults ==
  ASSUME NEW op
  PROVE  /\ Selects(r_ctl(op), op, FALSE, FALSE, "ALU")
         /\ Selects(iarith_ctl(op), op, FALSE, TRUE, "ALU")
         /\ Selects(load_ctl, "ADD", FALSE, TRUE, "MEM")
         /\ Selects(store_ctl, "ADD", FALSE, TRUE, "ALU")
         /\ Selects(lui_ctl, "PASSB", FALSE, TRUE, "ALU")
         /\ Selects(auipc_ctl, "ADD", TRUE, TRUE, "ALU")
         /\ Selects(jal_ctl, "ADD", FALSE, TRUE, "PC4")
         /\ Selects(jalr_ctl, "ADD", FALSE, TRUE, "PC4")
BY DEF Selects, r_ctl, iarith_ctl, load_ctl, store_ctl, lui_ctl, auipc_ctl, jal_ctl,
       jalr_ctl, ZERO_CONTROL

\* An ecall for control.v is one for iss.py.
LEMMA EcallWord ==
  ASSUME NEW i \in Instruction, Encoded(i), control(i).ecall
  PROVE  Architecture!decode(i) = <<"SYS", "ecall">>
<1>1. legal(i) /\ i.opcode = OP_SYSTEM
  <2> DEFINE c == control(i)
  <2>1. CASE ~legal(i)
    <3>1. Flags(c, FALSE, FALSE, FALSE, FALSE, FALSE)
      BY <2>1, ControlCases, RowEffects, Zenon
    <3>2. c.ecall = FALSE
      BY <3>1, Zenon DEF Flags
    <3> QED BY <3>2, Zenon
  <2>2. CASE legal(i) /\ i.opcode \in Opcodes \ {OP_SYSTEM}
    <3>1. c \in {r_ctl(alu_op(i)), iarith_ctl(alu_op(i)), load_ctl, store_ctl, branch_ctl,
                 lui_ctl, auipc_ctl, jal_ctl, jalr_ctl}
      BY <2>2, ControlCases, Zenon DEF Opcodes
    <3>2. c.ecall = FALSE
      BY <3>1, RowEffects, Zenon DEF Flags
    <3> QED BY <3>2, Zenon
  <2> QED BY <2>1, <2>2, LegalOpcode
<1>2. i.funct3 = 0
  <2>1. SUFFICES ASSUME i.funct3 # 0 PROVE FALSE
    OBVIOUS
  <2>2. \A sel, we, imm : csr_ctl(sel, we, imm).ecall = FALSE
    BY DEF csr_ctl, ZERO_CONTROL
  <2>3. i.funct3 \in {1, 2, 3} \/ i.funct3 \in {5, 6, 7}
    BY <1>1, <2>1, LegalOpcode
  <2>4. PICK sel, we, imm : control(i) = csr_ctl(sel, we, imm)
    BY <1>1, <2>3, SystemCases, Zenon
  <2> QED BY <2>2, <2>4, Zenon
<1>3. i.csr = CSR_ECALL
  <2>1. ASSUME NEW p \in BOOLEAN, NEW q \in BOOLEAN, NEW r \in BOOLEAN
        PROVE  fixed_ctl(p, q, r).ecall = q
    BY DEF fixed_ctl, ZERO_CONTROL
  <2>2. control(i) = fixed_ctl(i.csr = CSR_MRET, i.csr = CSR_ECALL, i.csr = CSR_EBREAK)
    BY <1>1, <1>2, SystemCases, Zenon
  <2> QED BY <2>1, <2>2, Zenon
<1>4. CSR_ECALL # CSR_EBREAK /\ CSR_ECALL # CSR_MRET
  BY DEF CSR_ECALL, CSR_EBREAK, CSR_MRET
<1> QED BY <1>1, <1>2, <1>3, <1>4, SystemNames

\* The addresses of the CSRs are aligned already.
LEMMA AddressesAligned ==
  ASSUME Edge
  PROVE  /\ Architecture!WordAlign(csr.mtvec) = csr.mtvec
         /\ Architecture!WordAlign(csr.mepc) = csr.mepc
<1>1. /\ csr.mtvec \in Word /\ csr.mepc \in Word
      /\ csr.mtvec % 4 = 0 /\ csr.mepc % 4 = 0
  BY EdgeFacts DEF TypeOK, Csrs, Accesses
<1>2. ASSUME NEW x \in Word, x % 4 = 0 PROVE WordAlign(x) = x
  BY <1>2, WordIsInt DEF WordAlign
<1>3. WordAlign(csr.mtvec) = csr.mtvec /\ WordAlign(csr.mepc) = csr.mepc
  BY <1>1, <1>2
<1> QED BY <1>3, SameOperators, Zenon

\* An instruction with a register result and no other effect.
LEMMA ComputeStep ==
  ASSUME Edge, id_ex.valid, ~trap_taken, legal(id_ex.inst),
         id_ex.inst.opcode \in {OP_R, OP_IARITH, OP_LOAD, OP_LUI, OP_AUIPC}
  PROVE  Architecture!Compute
<1> DEFINE i == id_ex.inst
           c == id_ex.ctl
<1>1. /\ c \in {r_ctl(alu_op(i)), iarith_ctl(alu_op(i)), load_ctl, lui_ctl, auipc_ctl}
      /\ i.opcode = OP_R => c = r_ctl(alu_op(i))
      /\ i.opcode = OP_IARITH => c = iarith_ctl(alu_op(i))
      /\ i.opcode = OP_LOAD => c = load_ctl
      /\ i.opcode = OP_LUI => c = lui_ctl
      /\ i.opcode = OP_AUIPC => c = auipc_ctl
  BY StateBeforeEx, ControlCases
<1>2. Flags(c, TRUE, FALSE, FALSE, FALSE, FALSE)
  BY <1>1, RowEffects, Zenon
<1>3. /\ imem' = imem /\ abs_halted' = abs_halted /\ abs_dmem' = abs_dmem /\ csr' = csr
      /\ abs_regs' = Architecture!wr_reg(i.rd, ex_result)
      /\ abs_pc' = U(id_ex.pc + 4)
  BY <1>2, Executes, NextPc, StateBeforeEx DEF Flags
<1>4. id_ex.imm = i.imm
  BY <1>2, StateBeforeEx DEF imm_gen, Flags
<1>5. /\ i \in Instruction /\ ex_a_val \in Word /\ ex_b_val \in Word /\ i.imm \in Word
  BY StateBeforeEx, EdgeFacts, ExWires, InstructionFields
<1>6. /\ Architecture!fmt \in {"R", "I", "L", "U"} /\ Architecture!mnem # "illegal"
      /\ ex_result = Architecture!rd_val
  <2>1. CASE i.opcode = OP_R
    <3>1. /\ Architecture!fmt = "R" /\ SameArith(alu_op(i), Architecture!mnem)
          /\ ex_a_val = Architecture!a /\ ex_b_val = Architecture!b
      BY <1>5, <2>1, RegisterArith, SameInstruction DEF uses_rs1, uses_rs2
    <3>2. Selects(c, alu_op(i), FALSE, FALSE, "ALU")
      BY <1>1, <2>1, RowResults, Zenon
    <3>3. ex_result = alu(alu_op(i), ex_a_val, ex_b_val)
      BY <3>2 DEF Selects, ex_result, ex_res, alu_y
    <3>4. ASSUME NEW x, NEW y
          PROVE  /\ Architecture!mnem # "illegal"
                 /\ alu(alu_op(i), x, y) = Architecture!arith(Architecture!mnem, x, y)
      <4>1. SameArith(alu_op(i), Architecture!mnem)
        BY <3>1, Zenon
      <4> QED BY <4>1, SameArithComputes
    <3>5. Architecture!rd_val
            = Architecture!arith(Architecture!mnem, Architecture!a, Architecture!b)
      BY <3>1, Zenon DEF Architecture!rd_val
    <3> QED BY <3>1, <3>3, <3>4, <3>5, Zenon
  <2>2. CASE i.opcode = OP_IARITH
    <3>1. /\ Architecture!fmt = "I" /\ SameArith(alu_op(i), Architecture!mnem)
          /\ ex_a_val = Architecture!a
      BY <1>5, <2>2, ImmediateArith, SameInstruction DEF uses_rs1
    <3>2. Selects(c, alu_op(i), FALSE, TRUE, "ALU")
      BY <1>1, <2>2, RowResults, Zenon
    <3>3. ex_result = alu(alu_op(i), ex_a_val, i.imm)
      BY <1>4, <3>2 DEF Selects, ex_result, ex_res, alu_y
    <3>4. ASSUME NEW x, NEW y
          PROVE  /\ Architecture!mnem # "illegal"
                 /\ alu(alu_op(i), x, y) = Architecture!arith(Architecture!mnem, x, y)
      <4>1. SameArith(alu_op(i), Architecture!mnem)
        BY <3>1, Zenon
      <4> QED BY <4>1, SameArithComputes
    <3>5. Architecture!rd_val = Architecture!arith(Architecture!mnem, Architecture!a, i.imm)
      BY <3>1, SameInstruction, Zenon DEF Architecture!rd_val
    <3> QED BY <3>1, <3>3, <3>4, <3>5, Zenon
  <2>3. CASE i.opcode = OP_LOAD
    <3>1. /\ Architecture!fmt = "L"
          /\ <<i.funct3, Architecture!mnem>> \in
               {<<0, "lb">>, <<1, "lh">>, <<2, "lw">>, <<4, "lbu">>, <<5, "lhu">>}
          /\ ex_a_val = Architecture!a
      BY <1>5, <2>3, LoadNames, SameInstruction DEF uses_rs1
    <3>2. Selects(c, "ADD", FALSE, TRUE, "MEM")
      BY <1>1, <2>3, RowResults, Zenon
    <3>3. ex_res = U(ex_a_val + i.imm)
      BY <1>4, <3>2 DEF Selects, ex_res, alu_y, alu
    <3>4. Architecture!addr = ex_res
      BY <3>1, <3>3, SameInstruction, SameOperators, Zenon DEF Architecture!addr
    <3>5. ex_res \in Word
      BY EdgeFacts, ExWires
    <3>6. ex_result = Architecture!load(Architecture!mnem) /\ Architecture!mnem # "illegal"
      <4>1. ex_result = load_data(abs_dmem[dmem_index(ex_res)], ex_res % 4, i.funct3)
        BY <3>2 DEF Selects, ex_result
      <4>2. \/ i.funct3 = 0 /\ Architecture!mnem = "lb"
            \/ i.funct3 = 1 /\ Architecture!mnem = "lh"
            \/ i.funct3 = 2 /\ Architecture!mnem = "lw"
            \/ i.funct3 = 4 /\ Architecture!mnem = "lbu"
            \/ i.funct3 = 5 /\ Architecture!mnem = "lhu"
        BY <3>1
      <4>3. Architecture!mnem # "illegal"
        BY <4>2
      <4>4. ex_result = Architecture!load(Architecture!mnem)
        BY <3>4, <3>5, <4>1, <4>2, LoadIsLoad, StateBeforeEx, Zenon
      <4> QED BY <4>3, <4>4
    <3> QED BY <3>1, <3>6 DEF Architecture!rd_val
  <2>4. CASE i.opcode = OP_LUI
    <3>1. Architecture!fmt = "U" /\ Architecture!mnem = "lui"
      BY <1>5, <2>4, JumpNames, SameInstruction
    <3>2. Selects(c, "PASSB", FALSE, TRUE, "ALU")
      BY <1>1, <2>4, RowResults, Zenon
    <3>3. ex_result = i.imm
      BY <1>4, <3>2 DEF Selects, ex_result, ex_res, alu_y, alu
    <3> QED BY <3>1, <3>3, SameInstruction DEF Architecture!rd_val
  <2>5. CASE i.opcode = OP_AUIPC
    <3>1. Architecture!fmt = "U" /\ Architecture!mnem = "auipc"
      BY <1>5, <2>5, JumpNames, SameInstruction
    <3>2. Selects(c, "ADD", TRUE, TRUE, "ALU")
      BY <1>1, <2>5, RowResults, Zenon
    <3>3. ex_result = U(id_ex.pc + i.imm)
      BY <1>4, <3>2 DEF Selects, ex_result, ex_res, alu_y, alu
    <3> QED BY <3>1, <3>3, SameInstruction DEF Architecture!rd_val
  <2> QED BY <2>1, <2>2, <2>3, <2>4, <2>5
<1>7. Architecture!rd_we
  BY <1>6 DEF Architecture!rd_we
<1>8. Architecture!finish(Architecture!pc4)
  BY <1>3, <1>6, <1>7, SameInstruction, Zenon DEF Architecture!finish
<1> QED BY <1>3, <1>6, <1>8, StateBeforeEx, Zenon
        DEF Architecture!Compute, Architecture!next_is

\* The address, the width and the data of a store.
LEMMA StoreFields ==
  ASSUME Edge, id_ex.valid, legal(id_ex.inst), id_ex.inst.opcode = OP_STORE
  PROVE  /\ Flags(id_ex.ctl, FALSE, TRUE, FALSE, FALSE, FALSE)
         /\ ex_res \in Word /\ ex_store_data \in Word
         /\ Architecture!fmt = "S"
         /\ Architecture!addr = ex_res /\ Architecture!b = ex_store_data
         /\ \/ id_ex.inst.funct3 = 0 /\ Architecture!mnem = "sb"
            \/ id_ex.inst.funct3 = 1 /\ Architecture!mnem = "sh"
            \/ id_ex.inst.funct3 = 2 /\ Architecture!mnem = "sw"
<1> DEFINE i == id_ex.inst
           c == id_ex.ctl
<1>1. c = store_ctl
  BY StateBeforeEx, ControlCases
<1>2. Flags(c, FALSE, TRUE, FALSE, FALSE, FALSE) /\ Selects(c, "ADD", FALSE, TRUE, "ALU")
  BY <1>1, RowEffects, RowResults, Zenon
<1>3. /\ i \in Instruction /\ ex_res \in Word /\ ex_store_data \in Word
  BY StateBeforeEx, EdgeFacts, ExWires
<1>4. /\ Architecture!fmt = "S"
      /\ <<i.funct3, Architecture!mnem>> \in {<<0, "sb">>, <<1, "sh">>, <<2, "sw">>}
      /\ ex_a_val = Architecture!a /\ ex_store_data = Architecture!b
  BY <1>3, StoreNames, SameInstruction DEF uses_rs1, uses_rs2
<1>5. Architecture!addr = ex_res
  <2>1. id_ex.imm = i.imm
    BY <1>2, StateBeforeEx DEF imm_gen, Flags
  <2>2. ex_res = U(ex_a_val + i.imm)
    BY <1>2, <2>1 DEF Selects, ex_res, alu_y, alu
  <2> QED BY <1>4, <2>2, SameInstruction, SameOperators, Zenon DEF Architecture!addr
<1>6. \/ i.funct3 = 0 /\ Architecture!mnem = "sb"
      \/ i.funct3 = 1 /\ Architecture!mnem = "sh"
      \/ i.funct3 = 2 /\ Architecture!mnem = "sw"
  BY <1>4
<1> QED BY <1>2, <1>3, <1>4, <1>5, <1>6, Zenon

\* A store.
LEMMA StoreStep ==
  ASSUME Edge, id_ex.valid, ~trap_taken, legal(id_ex.inst), id_ex.inst.opcode = OP_STORE
  PROVE  Architecture!Store
<1> DEFINE i == id_ex.inst
<1>1. /\ imem' = imem /\ abs_halted' = abs_halted /\ abs_regs' = abs_regs /\ csr' = csr
      /\ abs_dmem' = [abs_dmem EXCEPT ![dmem_index(ex_res)] =
                        store_lanes(@, ex_res % 4, i.funct3, ex_store_data)]
      /\ abs_pc' = U(id_ex.pc + 4)
  BY StoreFields, Executes, NextPc, StateBeforeEx DEF Flags
<1>2. \/ i.funct3 = 0 /\ Architecture!mnem = "sb"
      \/ i.funct3 = 1 /\ Architecture!mnem = "sh"
      \/ i.funct3 = 2 /\ Architecture!mnem = "sw"
  BY StoreFields, Zenon
<1>3. Architecture!fmt = "S" /\ Architecture!mnem # "illegal"
  BY <1>2, StoreFields
<1>4. abs_dmem' = Architecture!store(Architecture!mnem)
  <2> DEFINE written(f) == [abs_dmem EXCEPT ![dmem_index(ex_res)] =
                              store_lanes(@, ex_res % 4, f, ex_store_data)]
  <2>1. /\ written(0) = Architecture!store("sb")
        /\ written(1) = Architecture!store("sh")
        /\ written(2) = Architecture!store("sw")
    BY StoreFields, StateBeforeEx, StoreIsStore, Zenon
  <2>2. abs_dmem' = written(i.funct3)
    BY <1>1
  <2> HIDE DEF written
  <2> QED BY <1>2, <2>1, <2>2, Zenon
<1>5. ~Architecture!rd_we
  BY <1>3 DEF Architecture!rd_we
<1>6. Architecture!finish(Architecture!pc4)
  BY <1>1, <1>5, SameInstruction, Zenon DEF Architecture!finish
<1> QED BY <1>1, <1>3, <1>4, <1>6, StateBeforeEx, Zenon
        DEF Architecture!Store, Architecture!next_is

\* A branch, rightly predicted or not.
LEMMA BranchStep ==
  ASSUME Edge, id_ex.valid, ~trap_taken, legal(id_ex.inst), id_ex.inst.opcode = OP_BRANCH
  PROVE  Architecture!Branch
<1> DEFINE i == id_ex.inst
           c == id_ex.ctl
<1>1. c = branch_ctl
  BY StateBeforeEx, ControlCases
<1>2. Flags(c, FALSE, FALSE, TRUE, FALSE, FALSE)
  BY <1>1, RowEffects, Zenon
<1>3. /\ imem' = imem /\ abs_halted' = abs_halted /\ abs_regs' = abs_regs /\ csr' = csr
      /\ abs_dmem' = abs_dmem
      /\ abs_pc' = IF branch_cond THEN U(id_ex.pc + id_ex.imm) ELSE U(id_ex.pc + 4)
  BY <1>2, Executes, NextPc, StateBeforeEx DEF Flags
<1>4. i \in Instruction /\ id_ex.imm = i.imm
  BY <1>2, StateBeforeEx DEF imm_gen, Flags
<1>5. /\ Architecture!fmt = "B" /\ Architecture!mnem # "illegal"
      /\ ex_a_val = Architecture!a /\ ex_b_val = Architecture!b
      /\ branch_taken(i.funct3, Architecture!a, Architecture!b)
           <=> Architecture!taken(Architecture!mnem)
  <2>1. uses_rs1(i, c) /\ uses_rs2(i)
    BY DEF uses_rs1, uses_rs2
  <2> QED BY <1>4, <2>1, BranchNames, SameInstruction, Zenon
<1>6. branch_cond <=> Architecture!taken(Architecture!mnem)
  BY <1>5, Zenon DEF branch_cond
<1>7. ~Architecture!rd_we
  BY <1>5 DEF Architecture!rd_we
<1>8. Architecture!finish(IF Architecture!taken(Architecture!mnem)
                          THEN Architecture!U(abs_pc + Architecture!insn.imm)
                          ELSE Architecture!pc4)
  BY <1>3, <1>4, <1>6, <1>7, SameInstruction, Zenon DEF Architecture!finish
<1> QED BY <1>3, <1>5, <1>8, StateBeforeEx, Zenon
        DEF Architecture!Branch, Architecture!next_is

\* A jump, from ID (jal) or from EX (jalr).
LEMMA JumpStep ==
  ASSUME Edge, id_ex.valid, ~trap_taken, legal(id_ex.inst),
         id_ex.inst.opcode \in {OP_JAL, OP_JALR}
  PROVE  Architecture!Jump
<1> DEFINE i == id_ex.inst
           c == id_ex.ctl
<1>1. /\ i.opcode = OP_JAL => c = jal_ctl
      /\ i.opcode = OP_JALR => c = jalr_ctl
  BY StateBeforeEx, ControlCases
<1>2. /\ Flags(c, TRUE, FALSE, FALSE, i.opcode = OP_JAL, i.opcode = OP_JALR)
      /\ Selects(c, "ADD", FALSE, TRUE, "PC4")
  <2>1. OP_JAL # OP_JALR
    BY DEF OP_JAL, OP_JALR
  <2>2. ASSUME i.opcode = OP_JAL
        PROVE  /\ Flags(c, TRUE, FALSE, FALSE, TRUE, FALSE)
               /\ Selects(c, "ADD", FALSE, TRUE, "PC4")
    BY <1>1, <2>2, RowEffects, RowResults, Zenon
  <2>3. ASSUME i.opcode = OP_JALR
        PROVE  /\ Flags(c, TRUE, FALSE, FALSE, FALSE, TRUE)
               /\ Selects(c, "ADD", FALSE, TRUE, "PC4")
    BY <1>1, <2>3, RowEffects, RowResults, Zenon
  <2> QED BY <2>1, <2>2, <2>3 DEF Flags
<1>3. /\ imem' = imem /\ abs_halted' = abs_halted /\ abs_dmem' = abs_dmem /\ csr' = csr
      /\ abs_regs' = Architecture!wr_reg(i.rd, ex_result)
      /\ abs_pc' = IF i.opcode = OP_JALR THEN HalfAlign(alu_y)
                   ELSE U(id_ex.pc + id_ex.imm)
  BY <1>2, Executes, NextPc, StateBeforeEx DEF Flags
<1>4. i \in Instruction /\ id_ex.imm = i.imm
  BY <1>2, StateBeforeEx DEF imm_gen, Flags
<1>5. /\ Architecture!fmt = "J"
      /\ i.opcode = OP_JAL => Architecture!mnem = "jal"
      /\ i.opcode = OP_JALR => Architecture!mnem = "jalr"
  BY <1>4, JumpNames, SameInstruction
<1>6. ex_result = Architecture!rd_val
  <2>1. ex_result = U(id_ex.pc + 4)
    BY <1>2 DEF Selects, ex_result, ex_res
  <2> QED BY <1>5, <2>1, SameInstruction DEF Architecture!rd_val
<1>7. abs_pc' = IF Architecture!mnem = "jal"
               THEN Architecture!U(abs_pc + Architecture!insn.imm)
               ELSE Architecture!HalfAlign(Architecture!addr)
  <2>1. ASSUME i.opcode = OP_JALR
        PROVE  HalfAlign(alu_y) = Architecture!HalfAlign(Architecture!addr)
    <3>1. ex_a_val = Architecture!a
      BY <2>1, SameInstruction DEF uses_rs1
    <3>2. alu_y = U(ex_a_val + i.imm)
      BY <1>2, <1>4 DEF Selects, alu_y, alu
    <3>3. Architecture!addr = alu_y
      BY <3>1, <3>2, SameInstruction, SameOperators, Zenon DEF Architecture!addr
    <3> QED BY <3>3, SameOperators, Zenon
  <2> QED BY <1>3, <1>4, <1>5, <2>1, SameInstruction
<1>8. Architecture!rd_we
  BY <1>5 DEF Architecture!rd_we
<1>9. Architecture!mnem # "illegal"
  BY <1>5
<1>10. Architecture!finish(IF Architecture!mnem = "jal"
                           THEN Architecture!U(abs_pc + Architecture!insn.imm)
                           ELSE Architecture!HalfAlign(Architecture!addr))
  BY <1>3, <1>6, <1>7, <1>8, SameInstruction, Zenon DEF Architecture!finish
<1> QED BY <1>3, <1>5, <1>9, <1>10, StateBeforeEx, Zenon
        DEF Architecture!Jump, Architecture!next_is

\* A word neither decoder knows.
LEMMA IllegalStep ==
  ASSUME Edge, id_ex.valid, ~trap_taken, ~legal(id_ex.inst)
  PROVE  Architecture!SkipIllegal
<1>1. id_ex.ctl = illegal_ctl
  BY StateBeforeEx, ControlCases
<1>2. Flags(id_ex.ctl, FALSE, FALSE, FALSE, FALSE, FALSE)
  BY <1>1, RowEffects, Zenon
<1>3. /\ imem' = imem /\ abs_halted' = abs_halted /\ abs_regs' = abs_regs /\ csr' = csr
      /\ abs_dmem' = abs_dmem /\ abs_pc' = U(id_ex.pc + 4)
  BY <1>2, Executes, NextPc, StateBeforeEx DEF Flags
<1>4. Architecture!mnem = "illegal"
  BY StateBeforeEx, IllegalIsIllegal, SameInstruction
<1> QED BY <1>3, <1>4, StateBeforeEx, SameInstruction, Zenon DEF Architecture!SkipIllegal

\* A read-modify-write of a CSR.
LEMMA CsrStep ==
  ASSUME Edge, id_ex.valid, ~trap_taken, legal(id_ex.inst),
         id_ex.inst.opcode = OP_SYSTEM, id_ex.inst.funct3 # 0
  PROVE  Architecture!CsrAccess
<1> DEFINE i == id_ex.inst
           c == id_ex.ctl
           by_reg == i.funct3 \in {1, 2, 3}
           we == i.funct3 % 4 = 1 \/ i.rs1 # 0
           old == csr_view(csr, i.csr)
<1>1. i \in Instruction /\ (i.funct3 \in {1, 2, 3} \/ i.funct3 \in {5, 6, 7})
  BY StateBeforeEx, LegalOpcode
<1>2. /\ by_reg => c = csr_ctl("I", i.funct3 = 1 \/ i.rs1 # 0, FALSE)
      /\ ~by_reg => c = csr_ctl("Z", i.funct3 = 5 \/ i.rs1 # 0, TRUE)
  BY <1>1, StateBeforeEx, SystemCases, Zenon
<1>3. /\ c.reg_we = TRUE /\ c.mem_we = FALSE /\ c.wb_sel = "CSR" /\ c.csr_en = TRUE
      /\ c.mret = FALSE /\ c.ebreak = FALSE /\ c.ecall = FALSE
      /\ c.branch = FALSE /\ c.jal = FALSE /\ c.jalr = FALSE
      /\ by_reg => c.csr_imm = FALSE
      /\ ~by_reg => c.csr_imm = TRUE /\ c.imm_sel = "Z"
      /\ c.csr_we <=> we
  <2>0. ASSUME NEW p \in BOOLEAN
        PROVE  LET d == csr_ctl("Z", p, TRUE)
               IN  /\ d.reg_we = TRUE /\ d.mem_we = FALSE /\ d.wb_sel = "CSR"
                   /\ d.csr_en = TRUE /\ d.mret = FALSE /\ d.ebreak = FALSE
                   /\ d.ecall = FALSE /\ d.branch = FALSE /\ d.jal = FALSE
                   /\ d.jalr = FALSE /\ d.csr_imm = TRUE /\ d.imm_sel = "Z"
                   /\ d.csr_we = p
    BY DEF csr_ctl, ZERO_CONTROL
  <2>1. ASSUME NEW p \in BOOLEAN
        PROVE  LET d == csr_ctl("I", p, FALSE)
               IN  /\ d.reg_we = TRUE /\ d.mem_we = FALSE /\ d.wb_sel = "CSR"
                   /\ d.csr_en = TRUE /\ d.mret = FALSE /\ d.ebreak = FALSE
                   /\ d.ecall = FALSE /\ d.branch = FALSE /\ d.jal = FALSE
                   /\ d.jalr = FALSE /\ d.csr_imm = FALSE /\ d.imm_sel = "I"
                   /\ d.csr_we = p
    BY DEF csr_ctl, ZERO_CONTROL
  <2>2. /\ by_reg => (i.funct3 = 1 <=> i.funct3 % 4 = 1)
        /\ ~by_reg => (i.funct3 = 5 <=> i.funct3 % 4 = 1)
    BY <1>1
  <2> DEFINE w1 == i.funct3 = 1 \/ i.rs1 # 0
             w5 == i.funct3 = 5 \/ i.rs1 # 0
  <2>3. /\ w1 \in BOOLEAN /\ w5 \in BOOLEAN
        /\ by_reg => (w1 <=> we)
        /\ ~by_reg => (w5 <=> we)
    BY <2>2
  <2>4. /\ by_reg => c = csr_ctl("I", w1, FALSE)
        /\ ~by_reg => c = csr_ctl("Z", w5, TRUE)
    BY <1>2
  <2> HIDE DEF c, by_reg, we, w1, w5
  <2>5. CASE by_reg
    <3>1. /\ c.reg_we = TRUE /\ c.mem_we = FALSE /\ c.wb_sel = "CSR" /\ c.csr_en = TRUE
          /\ c.mret = FALSE /\ c.ebreak = FALSE /\ c.ecall = FALSE
          /\ c.branch = FALSE /\ c.jal = FALSE /\ c.jalr = FALSE
          /\ c.csr_imm = FALSE /\ c.imm_sel = "I" /\ c.csr_we = w1
      <4>1. c = csr_ctl("I", w1, FALSE)
        BY <2>4, <2>5, Zenon
      <4>2. w1 \in BOOLEAN
        BY <2>3, Zenon
      <4> QED BY <2>1, <4>1, <4>2, Zenon
    <3> QED BY <2>3, <2>5, <3>1, Zenon
  <2>6. CASE ~by_reg
    <3>1. /\ c.reg_we = TRUE /\ c.mem_we = FALSE /\ c.wb_sel = "CSR" /\ c.csr_en = TRUE
          /\ c.mret = FALSE /\ c.ebreak = FALSE /\ c.ecall = FALSE
          /\ c.branch = FALSE /\ c.jal = FALSE /\ c.jalr = FALSE
          /\ c.csr_imm = TRUE /\ c.imm_sel = "Z" /\ c.csr_we = w5
      BY <2>0, <2>3, <2>4, <2>6, Zenon
    <3> QED BY <2>3, <2>6, <3>1, Zenon
  <2> QED BY <2>5, <2>6, Zenon
<1>4. /\ imem' = imem /\ abs_halted' = abs_halted /\ abs_dmem' = abs_dmem
      /\ abs_regs' = Architecture!wr_reg(i.rd, ex_result)
      /\ abs_pc' = U(id_ex.pc + 4)
      /\ ~we => csr' = csr
      /\ we => csr' = csr_write(csr, i.csr, csr_wval(i.funct3 % 4, old, csr_wsrc))
  BY <1>3, Executes, NextPc, StateBeforeEx
<1>5. /\ by_reg => Architecture!fmt = "CSR-R"
      /\ ~by_reg => Architecture!fmt = "CSR-I"
      /\ <<i.funct3 % 4, Architecture!mnem>> \in
           {<<1, "csrrw">>, <<2, "csrrs">>, <<3, "csrrc">>}
  BY <1>1, CsrNames, SameInstruction
<1>6. Architecture!csr_read(i.csr) = old
  BY StateBeforeEx, CsrViewIsRead
<1>7. ex_result = Architecture!rd_val
  <2>1. ex_result = old
    BY <1>3 DEF ex_result, ex_res, csr_rdata
  <2>2. Architecture!rd_val = Architecture!csr_read(i.csr)
    BY <1>5, SameInstruction DEF Architecture!rd_val
  <2> QED BY <1>6, <2>1, <2>2
<1> DEFINE src == IF Architecture!fmt = "CSR-R" THEN Architecture!a ELSE i.rs1
<1>8. csr_wsrc = src
  <2>1. ASSUME by_reg PROVE csr_wsrc = Architecture!a
    BY <1>3, <2>1, SameInstruction DEF csr_wsrc, uses_rs1
  <2>2. ASSUME ~by_reg PROVE csr_wsrc = i.rs1
    BY <1>3, <2>2, StateBeforeEx DEF csr_wsrc, imm_gen
  <2> QED BY <1>5, <2>1, <2>2
<1> HIDE DEF src, old
<1> DEFINE new == CASE Architecture!mnem = "csrrw" -> src
                    [] Architecture!mnem = "csrrs" -> BitOr(old, src)
                    [] Architecture!mnem = "csrrc" -> BitAnd(old, BitNot(src))
<1>9. \/ i.funct3 % 4 = 1 /\ Architecture!mnem = "csrrw"
      \/ i.funct3 % 4 = 2 /\ Architecture!mnem = "csrrs"
      \/ i.funct3 % 4 = 3 /\ Architecture!mnem = "csrrc"
  BY <1>5
<1>10. Architecture!mnem # "illegal" /\ (we <=> Architecture!mnem = "csrrw" \/ i.rs1 # 0)
  BY <1>9
<1>11. csr_wval(i.funct3 % 4, old, src) = new
  BY <1>9 DEF csr_wval
<1> HIDE DEF new, we
<1>12. csr' = IF Architecture!mnem = "csrrw" \/ i.rs1 # 0
              THEN Architecture!csr_written(i.csr, new) ELSE csr
  BY <1>4, <1>8, <1>10, <1>11, CsrWriteIsWritten, Zenon
<1>13. Architecture!fmt \in {"CSR-R", "CSR-I"} /\ Architecture!rd_we
  BY <1>5 DEF Architecture!rd_we
<1>14. Architecture!finish(Architecture!pc4)
  BY <1>4, <1>7, <1>13, SameInstruction, Zenon DEF Architecture!finish
<1>15. Architecture!BitNot(src) = BitNot(src)
  BY SameOperators, Zenon
<1>16. Architecture!CsrAccess <=>
         /\ Architecture!next_is({"CSR-R", "CSR-I"})
         /\ csr' = IF Architecture!mnem = "csrrw" \/ i.rs1 # 0
                   THEN Architecture!csr_written(i.csr, new) ELSE csr
         /\ Architecture!finish(Architecture!pc4)
         /\ abs_dmem' = abs_dmem
  BY <1>6, <1>15, SameInstruction, Zenon DEF Architecture!CsrAccess, new, src
<1> QED BY <1>4, <1>10, <1>12, <1>13, <1>14, <1>16, StateBeforeEx, Zenon
        DEF Architecture!next_is

\* The fixed SYSTEM words but ecall, which traps.
LEMMA SystemStep ==
  ASSUME Edge, id_ex.valid, ~trap_taken, legal(id_ex.inst),
         id_ex.inst.opcode = OP_SYSTEM, id_ex.inst.funct3 = 0
  PROVE  Architecture!Mret \/ Architecture!Ebreak
<1> DEFINE i == id_ex.inst
           c == id_ex.ctl
<1>1. c = fixed_ctl(i.csr = CSR_MRET, i.csr = CSR_ECALL, i.csr = CSR_EBREAK)
  BY StateBeforeEx, SystemCases, Zenon
<1>2. /\ c.mret = (i.csr = CSR_MRET) /\ c.ecall = (i.csr = CSR_ECALL)
      /\ c.ebreak = (i.csr = CSR_EBREAK)
      /\ c.reg_we = FALSE /\ c.mem_we = FALSE /\ c.csr_we = FALSE
      /\ c.branch = FALSE /\ c.jal = FALSE /\ c.jalr = FALSE
  <2>1. ASSUME NEW p \in BOOLEAN, NEW q \in BOOLEAN, NEW r \in BOOLEAN
        PROVE  /\ fixed_ctl(p, q, r).mret = p /\ fixed_ctl(p, q, r).ecall = q
               /\ fixed_ctl(p, q, r).ebreak = r
               /\ fixed_ctl(p, q, r).reg_we = FALSE /\ fixed_ctl(p, q, r).mem_we = FALSE
               /\ fixed_ctl(p, q, r).csr_we = FALSE /\ fixed_ctl(p, q, r).branch = FALSE
               /\ fixed_ctl(p, q, r).jal = FALSE /\ fixed_ctl(p, q, r).jalr = FALSE
    BY DEF fixed_ctl, ZERO_CONTROL
  <2> HIDE DEF c
  <2> QED BY <1>1, <2>1, Zenon
<1>3. ~c.ecall
  BY DEF trap_taken
<1>4. /\ Architecture!fmt = "SYS"
      /\ \/ i.csr = CSR_EBREAK /\ Architecture!mnem = "ebreak"
         \/ i.csr = CSR_MRET /\ Architecture!mnem = "mret"
  <2>1. i.csr # CSR_ECALL
    BY <1>2, <1>3
  <2>2. /\ Architecture!fmt = "SYS"
        /\ \/ i.csr = CSR_ECALL /\ Architecture!mnem = "ecall"
           \/ i.csr = CSR_EBREAK /\ Architecture!mnem = "ebreak"
           \/ i.csr = CSR_MRET /\ Architecture!mnem = "mret"
    BY StateBeforeEx, SystemNames, SameInstruction
  <2> QED BY <2>1, <2>2
<1>5. CSR_EBREAK # CSR_MRET
  BY DEF CSR_EBREAK, CSR_MRET
<1>6. /\ imem' = imem /\ abs_regs' = abs_regs /\ abs_dmem' = abs_dmem
      /\ abs_halted' = c.ebreak
  BY <1>2, Executes
<1>7. Architecture!mnem # "illegal" /\ ~Architecture!rd_we
  BY <1>4 DEF Architecture!rd_we
<1>8. CASE i.csr = CSR_EBREAK
  <2>1. c.ebreak = TRUE /\ c.mret = FALSE /\ Architecture!mnem = "ebreak"
    BY <1>2, <1>4, <1>5, <1>8
  <2>2. abs_halted' = TRUE /\ csr' = csr /\ abs_pc' = Architecture!pc4
    BY <1>2, <1>6, <2>1, Executes, NextPc, SameInstruction
  <2> QED BY <1>4, <1>6, <1>7, <2>1, <2>2, StateBeforeEx, Zenon
          DEF Architecture!Ebreak, Architecture!next_is
<1>9. CASE i.csr = CSR_MRET
  <2>1. c.ebreak = FALSE /\ c.mret = TRUE /\ Architecture!mnem = "mret"
    BY <1>2, <1>4, <1>5, <1>9
  <2>2. /\ abs_halted' = abs_halted /\ csr' = csr_mret(csr) /\ abs_pc' = csr.mepc
    BY <1>2, <1>6, <2>1, Executes, NextPc, StateBeforeEx
  <2>3. Architecture!WordAlign(csr.mepc) = csr.mepc
    BY AddressesAligned
  <2>4. Architecture!finish(Architecture!WordAlign(csr.mepc))
    BY <1>6, <1>7, <2>2, <2>3, Zenon DEF Architecture!finish
  <2> QED BY <1>4, <1>6, <1>7, <2>1, <2>2, <2>4, StateBeforeEx, Zenon
          DEF Architecture!Mret, Architecture!next_is, csr_mret
<1> QED BY <1>4, <1>8, <1>9

\* A trap, taken in EX: the instruction there and all behind it are gone.
LEMMA TrapStep ==
  ASSUME Edge, trap_taken
  PROVE  /\ irq_taken => Architecture!Interrupt
         /\ ~irq_taken => Architecture!Ecall
<1>1. id_ex.valid /\ redirect_ex
  BY DEF trap_taken, irq_taken, redirect_ex
<1>2. /\ ex_mem'.reg_we = FALSE /\ ex_mem'.mem_we = FALSE /\ ex_mem'.ebreak = FALSE
  BY ExMemEdge, Zenon
<1>3. imem' = imem /\ csr' = csr_trap(csr, id_ex.pc, trap_cause)
  BY EdgeFacts DEF clock, imem_read, csr_file
<1>4. abs_dmem' = abs_dmem
  BY <1>2, MemoryEdge
<1>5. abs_regs' = abs_regs
  <2>1. abs_regs' = [r \in Reg |-> abs_regs[r]]
    BY <1>2, RegisterEdge
  <2> QED BY <1>1, <2>1, StateBeforeEx
<1>6. abs_halted' = abs_halted /\ ~done_r' /\ ~mem_wb'.ebreak
  <2>1. ~abs_halted' /\ ~done_r' /\ ~mem_wb'.ebreak
    BY <1>1, <1>2, HaltEdge, StateBeforeEx
  <2>2. abs_halted' \in BOOLEAN
    BY DEF abs_halted
  <2> QED BY <1>1, <2>1, <2>2, StateBeforeEx
<1>7. abs_pc' = csr.mtvec
  <2>1. ~if_id'.valid /\ ~id_ex'.valid
    BY <1>1, EdgeFacts DEF clock, if_id_reg, id_ex_reg, flush_if, flush_id,
                           IF_ID_ZERO, ID_EX_ZERO
  <2>2. abs_pc' = pc_q'
    BY <1>2, <1>6, <2>1 DEF abs_pc
  <2>3. pc_q' = csr.mtvec
    BY <1>1, EdgeFacts DEF clock, pc_reg, fetch_en, redirect, pc_next
  <2> QED BY <2>2, <2>3
<1>8. ASSUME NEW cause, csr' = csr_trap(csr, id_ex.pc, cause)
      PROVE  Architecture!enter_trap(cause)
  <2>1. /\ Architecture!WordAlign(csr.mtvec) = csr.mtvec
        /\ Architecture!WordAlign(abs_pc) = WordAlign(id_ex.pc)
    BY <1>1, AddressesAligned, SameOperators, StateBeforeEx, Zenon
  <2> QED BY <1>3, <1>4, <1>5, <1>6, <1>7, <1>8, <2>1, Zenon
          DEF Architecture!enter_trap, csr_trap
<1>9. CASE irq_taken
  <2>1. trap_cause = Architecture!CAUSE_MACHINE_EXT
    BY <1>9, Zenon DEF trap_cause, CAUSE_MACHINE_EXT, Architecture!CAUSE_MACHINE_EXT
  <2>2. csr.mstatus_mie /\ csr.mie_meie
    BY <1>9 DEF irq_taken, csr_irq_pending
  <2>3. Architecture!Interrupt
    BY <1>1, <1>3, <1>8, <2>1, <2>2, StateBeforeEx, Zenon DEF Architecture!Interrupt
  <2> QED BY <1>9, <2>3, Zenon
<1>10. CASE ~irq_taken
  <2>1. trap_cause = Architecture!CAUSE_ECALL_M
    BY <1>10, Zenon DEF trap_cause, CAUSE_ECALL_M, Architecture!CAUSE_ECALL_M
  <2>2. id_ex.ctl.ecall
    BY <1>10 DEF trap_taken
  <2>3. Architecture!fmt = "SYS" /\ Architecture!mnem = "ecall"
    BY <1>1, <2>2, EcallWord, SameInstruction, StateBeforeEx
  <2>4. Architecture!mnem # "illegal"
    BY <2>3
  <2>5. Architecture!Ecall
    BY <1>1, <1>3, <1>8, <2>1, <2>3, <2>4, StateBeforeEx, Zenon
       DEF Architecture!Ecall, Architecture!next_is
  <2> QED BY <1>10, <2>5, Zenon
<1> QED BY <1>9, <1>10

----------------------------------------------------------------------------
(* The theorem.                                                            *)

\* The two initial states correspond.
LEMMA RefInit == Init => Architecture!Init
<1> SUFFICES ASSUME Init PROVE Architecture!Init
  OBVIOUS
<1>1. imem \in [0 .. (IMEM_WORDS - 1) -> Architecture!Instruction]
  <2>1. imem \in Imem
    BY ContentsAssumption DEF Init
  <2>2. Architecture!Reg = Reg /\ Architecture!Word = Word
    BY Zenon DEF Reg, Architecture!Reg, Word, Architecture!Word
  <2>3. Architecture!Instruction = Instruction
    BY <2>2, Zenon DEF Instruction, Architecture!Instruction
  <2> QED BY <2>1, <2>3, Zenon DEF Imem
<1>2. /\ ~done_r /\ ~ex_mem.ebreak /\ ~mem_wb.ebreak /\ ~id_ex.valid /\ ~if_id.valid
      /\ ~ex_mem.reg_we /\ ~ex_mem.mem_we /\ ~mem_wb.reg_we
  BY DEF Init, IF_ID_ZERO, ID_EX_ZERO, EX_MEM_ZERO, MEM_WB_ZERO
<1>3. abs_pc = 0 /\ abs_halted = FALSE /\ abs_dmem = DMEM_INIT
  BY <1>2 DEF Init, abs_pc, abs_halted, abs_dmem
<1>4. abs_regs = [r \in Architecture!Reg |-> 0]
  <2>1. ~wb_reg_we
    BY <1>2 DEF wb_reg_we
  <2>2. abs_regs = [r \in Reg |-> regs[r]] /\ regs = [r \in Reg |-> 0]
    BY <1>2, <2>1 DEF Init, abs_regs
  <2>3. abs_regs = [r \in Reg |-> 0]
    BY <2>2
  <2> QED BY <2>3, Zenon DEF Reg, Architecture!Reg
<1>5. csr = Architecture!ResetCsrs
  BY Zenon DEF Init, ResetCsrs, Architecture!ResetCsrs
<1> QED BY <1>1, <1>3, <1>4, <1>5, Zenon DEF Architecture!Init

\* What an instruction that no trap squashes does.
LEMMA LegalStep ==
  ASSUME Edge, id_ex.valid, ~trap_taken, legal(id_ex.inst)
  PROVE  \/ Architecture!Compute \/ Architecture!Store \/ Architecture!Branch
         \/ Architecture!Jump \/ Architecture!CsrAccess \/ Architecture!Mret
         \/ Architecture!Ebreak
<1>1. id_ex.inst.opcode \in Opcodes
  BY LegalOpcode
<1>2. CASE id_ex.inst.opcode \in {OP_R, OP_IARITH, OP_LOAD, OP_LUI, OP_AUIPC}
  BY <1>2, ComputeStep
<1>3. CASE id_ex.inst.opcode = OP_STORE
  BY <1>3, StoreStep
<1>4. CASE id_ex.inst.opcode = OP_BRANCH
  BY <1>4, BranchStep
<1>5. CASE id_ex.inst.opcode \in {OP_JAL, OP_JALR}
  BY <1>5, JumpStep
<1>6. CASE id_ex.inst.opcode = OP_SYSTEM /\ id_ex.inst.funct3 # 0
  BY <1>6, CsrStep
<1>7. CASE id_ex.inst.opcode = OP_SYSTEM /\ id_ex.inst.funct3 = 0
  BY <1>7, SystemStep
<1> QED BY <1>1, <1>2, <1>3, <1>4, <1>5, <1>6, <1>7, Zenon DEF Opcodes

\* An instruction in EX is an architectural step: the trap that squashes it, or
\* what it does.
LEMMA ExecuteEdge == ASSUME Edge, id_ex.valid PROVE Architecture!Next
<1>1. CASE trap_taken
  BY <1>1, TrapStep, Zenon DEF Architecture!Next
<1>2. CASE ~trap_taken /\ ~legal(id_ex.inst)
  BY <1>2, IllegalStep, Zenon DEF Architecture!Next
<1>3. CASE ~trap_taken /\ legal(id_ex.inst)
  BY <1>3, LegalStep, Zenon DEF Architecture!Next
<1> QED BY <1>1, <1>2, <1>3, Zenon

\* Nothing moves: no architectural step.
LEMMA StutterEdge == ASSUME UNCHANGED vars PROVE UNCHANGED Architecture!archVars
<1>1. /\ imem' = imem /\ pc_q' = pc_q /\ if_id' = if_id /\ id_ex' = id_ex
      /\ ex_mem' = ex_mem /\ mem_wb' = mem_wb /\ regs' = regs /\ dmem' = dmem
      /\ latch' = latch /\ csr' = csr /\ done_r' = done_r
  BY DEF vars
<1>2. abs_dmem' = abs_dmem /\ abs_halted' = abs_halted /\ abs_pc' = abs_pc
  BY <1>1, Zenon DEF abs_dmem, dmem_index, abs_halted, abs_pc, U
<1>3. /\ wb_data' = wb_data /\ wb_rd_addr' = wb_rd_addr /\ wb_reg_we' = wb_reg_we
      /\ halt' = halt
  <2>1. wb_data' = IF mem_wb'.wb_sel = "MEM"
                   THEN load_data(latch'.rword, latch'.raddr_l, latch'.rfunct3)
                   ELSE mem_wb'.res
    BY Zenon DEF wb_data, dmem_rdata, load_data
  <2> QED BY <1>1, <2>1, Zenon DEF wb_data, wb_rd_addr, dmem_rdata, wb_reg_we, halt
<1>4. mem_result' = mem_result
  BY <1>1, MemResultNext, Zenon DEF mem_result
<1>5. abs_regs' = abs_regs
  BY <1>1, <1>3, <1>4, Zenon DEF abs_regs
<1> QED BY <1>1, <1>2, <1>5, Zenon DEF Architecture!archVars

\* A clock edge is an architectural step or none.
LEMMA RefStep == RefInv /\ [Next]_vars => [Architecture!Next]_(Architecture!archVars)
<1> SUFFICES ASSUME RefInv, [Next]_vars
             PROVE  Architecture!Next \/ UNCHANGED Architecture!archVars
  OBVIOUS
<1>1. CASE UNCHANGED vars
  BY <1>1, StutterEdge
<1>2. CASE Next /\ done_r
  BY <1>2, HaltedEdge
<1>3. CASE Next /\ ~done_r
  <2>1. Edge
    BY <1>3 DEF Edge
  <2>2. CASE ~id_ex.valid
    BY <2>1, <2>2, BubbleEdge
  <2> QED BY <2>1, <2>2, ExecuteEdge
<1> QED BY <1>1, <1>2, <1>3

\* The pipeline implements the reference model, register by register and CSR
\* by CSR: every clock edge retires into the architectural state exactly one
\* instruction or trap of iss.py, or leaves it alone.
THEOREM Refines == Spec => ImplementsArchitecture
<1>1. Init => RefInv
  BY RefInductive
<1>2. RefInv /\ [Next]_vars => RefInv'
  BY RefInductive
<1> QED BY <1>1, <1>2, RefInit, RefStep, PTL
        DEF Spec, ImplementsArchitecture, Architecture!Spec
=============================================================================
