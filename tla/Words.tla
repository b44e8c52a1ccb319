------------------------------- MODULE Words -------------------------------
(***************************************************************************)
(* Machine words.  rtl/*.v slices 32-bit vectors and tools/iss.py masks    *)
(* Python integers; both denote the same arithmetic modulo 2^XLEN, which   *)
(* is written once here.  XLEN is 32 in the source; TLC's instances use 8, *)
(* with "half" and "byte" the proportional parts of a word.                *)
(***************************************************************************)
EXTENDS Integers

CONSTANTS
  XLEN,          \* width of a register, a data word and the PC
  BitAnd(_, _),  \* bitwise conjunction, disjunction and exclusive or of
  BitOr(_, _),   \* two words: constants, because a bit-by-bit definition
  BitXor(_, _)   \* needs a recursion that TLAPS cannot follow

Word == 0 .. (2^XLEN - 1)

\* A word has four byte lanes.  The last two conjuncts are arithmetic, stated
\* for the provers: the powers of two below 2^XLEN are themselves words.
ASSUME WidthAssumption ==
  /\ XLEN \in Nat \ {0}
  /\ XLEN % 4 = 0
  /\ 2^XLEN \in Nat \ {0}
  /\ \A k \in 0 .. (XLEN - 1) : 2^k \in 1 .. (2^XLEN - 1)

\* So is this: powers of two multiply as they should.
ASSUME PowersAssumption ==
  \A j, k \in 0 .. XLEN : j + k <= XLEN => 2^(j + k) = 2^j * 2^k

ASSUME BitwiseAssumption ==
  \A a, b \in Word : /\ BitAnd(a, b) \in Word
                     /\ BitOr(a, b) \in Word
                     /\ BitXor(a, b) \in Word

----------------------------------------------------------------------------
\* Truncation to a word: a Verilog assignment, iss.py's u32.
U(x) == x % 2^XLEN

\* $signed / iss.py's s32.
Signed(x) == IF x >= 2^(XLEN - 1) THEN x - 2^XLEN ELSE x

BitNot(x) == 2^XLEN - 1 - x

\* Bit k of a word, x[k] != 0.
Bit(x, k) == (x \div 2^k) % 2 = 1

\* A one-bit value placed at bit k, {.., b, k'b0}.
AtBit(b, k) == IF b THEN 2^k ELSE 0

\* {x[31:2], 2'b00} and x & ~1.
WordAlign(x) == x - (x % 4)
HalfAlign(x) == x - (x % 2)

\* The low n bits of x, sign-extended to a word (iss.py's sext, then u32).
SignExtend(x, n) ==
  LET low == x % 2^n
  IN  U(IF low >= 2^(n - 1) THEN low - 2^n ELSE low)

\* Shifts; the amount is the low log2(XLEN) bits, b[4:0] in the source.
Shamt(b)  == b % XLEN
Sll(a, s) == U(a * 2^s)
Srl(a, s) == a \div 2^s
Sra(a, s) == U(Signed(a) \div 2^s)

HalfBits == XLEN \div 2
ByteBits == XLEN \div 4
=============================================================================
