------------------------------ MODULE BitWords ------------------------------
(***************************************************************************)
(* Instruction words bit by bit.  A word is the set of the numbers of its  *)
(* one bits, so that {a, b} of Verilog and a | b of Python are unions.     *)
(* Here are the three places that know how RV32I scatters an immediate     *)
(* over a word: the encoders of tools/asm.py, decode of tools/iss.py, and  *)
(* rtl/imm_gen.v.  Programs.tla and Pipeline.tla take an immediate as      *)
(* already assembled; this module is what they rely on.                    *)
(***************************************************************************)
EXTENDS Integers

Bits == 0 .. 31

\* v & 0xFFFFFFFF, for the numbers a 32-bit signed integer can hold.
bits(v) == {k \in 0 .. 30 : (v \div 2^k) % 2 = 1}
           \cup (IF v < 0 THEN {31} ELSE {})

\* w[hi:lo], moved to bit `to': ((w >> lo) & mask) << to.
slice(w, hi, lo, to) == {k \in to .. (to + hi - lo) : (k - to + lo) \in w}

\* {n{w[b]}} from bit `from' to the top, and sext's test of the same bit.
fill(w, b, from) == IF b \in w THEN from .. 31 ELSE {}
sext(x, n) == x \cup fill(x, n - 1, n)

\* The number a field of at most twelve bits holds.
num(w, hi, lo) ==
  LET worth(k, v) == IF lo + k \in w /\ lo + k <= hi THEN v ELSE 0
  IN  worth(0, 1) + worth(1, 2) + worth(2, 4) + worth(3, 8) + worth(4, 16)
      + worth(5, 32) + worth(6, 64) + worth(7, 128) + worth(8, 256)
      + worth(9, 512) + worth(10, 1024) + worth(11, 2048)

----------------------------------------------------------------------------
(* asm.py: the encoders.  `rest' is the part of a word that is the same in *)
(* all of them, opcode, funct3 and the registers the format has.           *)

field(x, n, to) == slice(x, n - 1, 0, to)

enc_r(f7, rs2, rs1, f3, rd, op) ==
  field(f7, 7, 25) \cup field(rs2, 5, 20) \cup field(rs1, 5, 15)
    \cup field(f3, 3, 12) \cup field(rd, 5, 7) \cup field(op, 7, 0)

enc_i(imm, rs1, f3, rd, op) ==
  field(imm, 12, 20) \cup field(rs1, 5, 15) \cup field(f3, 3, 12)
    \cup field(rd, 5, 7) \cup field(op, 7, 0)

enc_s(imm, rs2, rs1, f3, op) ==
  slice(imm, 11, 5, 25) \cup slice(imm, 4, 0, 7) \cup field(rs2, 5, 20)
    \cup field(rs1, 5, 15) \cup field(f3, 3, 12) \cup field(op, 7, 0)

\* mutant: bits 11 and 12 of the offset in each other's place
enc_b_swapped(imm, rs2, rs1, f3, op) ==
  slice(imm, 11, 11, 31) \cup slice(imm, 10, 5, 25) \cup slice(imm, 4, 1, 8)
    \cup slice(imm, 12, 12, 7) \cup field(rs2, 5, 20) \cup field(rs1, 5, 15)
    \cup field(f3, 3, 12) \cup field(op, 7, 0)

enc_b(imm, rs2, rs1, f3, op) ==
  slice(imm, 12, 12, 31) \cup slice(imm, 10, 5, 25) \cup slice(imm, 4, 1, 8)
    \cup slice(imm, 11, 11, 7) \cup field(rs2, 5, 20) \cup field(rs1, 5, 15)
    \cup field(f3, 3, 12) \cup field(op, 7, 0)

enc_u(imm20, rd, op) ==
  field(imm20, 20, 12) \cup field(rd, 5, 7) \cup field(op, 7, 0)

\* mutant: bits 11 and 20 of the offset in each other's place
enc_j_swapped(imm, rd, op) ==
  slice(imm, 11, 11, 31) \cup slice(imm, 10, 1, 21) \cup slice(imm, 20, 20, 20)
    \cup slice(imm, 19, 12, 12) \cup field(rd, 5, 7) \cup field(op, 7, 0)

enc_j(imm, rd, op) ==
  slice(imm, 20, 20, 31) \cup slice(imm, 10, 1, 21) \cup slice(imm, 11, 11, 20)
    \cup slice(imm, 19, 12, 12) \cup field(rd, 5, 7) \cup field(op, 7, 0)

----------------------------------------------------------------------------
(* iss.py: the immediate decode returns for each format.                   *)

iss_i(w) == sext(slice(w, 31, 20, 0), 12)
iss_s(w) == sext(slice(w, 31, 25, 5) \cup slice(w, 11, 7, 0), 12)
iss_b(w) == sext(slice(w, 31, 31, 12) \cup slice(w, 7, 7, 11)
                 \cup slice(w, 30, 25, 5) \cup slice(w, 11, 8, 1), 13)
iss_j(w) == sext(slice(w, 31, 31, 20) \cup slice(w, 19, 12, 12)
                 \cup slice(w, 20, 20, 11) \cup slice(w, 30, 21, 1), 21)
iss_u(w) == slice(w, 31, 12, 0)
iss_shamt(w) == slice(w, 24, 20, 0)
iss_zimm(w)  == slice(w, 19, 15, 0)

----------------------------------------------------------------------------
(* imm_gen.v.                                                              *)

\* mutant: the zimm is sign-extended like the others
zimm_signed(inst) == fill(inst, 19, 5) \cup slice(inst, 19, 15, 0)

\* The one immediate that is zero-extended.
zimm(inst) == slice(inst, 19, 15, 0)

imm_bits(inst, sel) ==
  CASE sel = "I" -> fill(inst, 31, 12) \cup slice(inst, 31, 20, 0)
    [] sel = "S" -> fill(inst, 31, 12) \cup slice(inst, 31, 25, 5)
                    \cup slice(inst, 11, 7, 0)
    [] sel = "B" -> fill(inst, 31, 12) \cup slice(inst, 7, 7, 11)
                    \cup slice(inst, 30, 25, 5) \cup slice(inst, 11, 8, 1)
    [] sel = "U" -> slice(inst, 31, 12, 12)
    [] sel = "J" -> fill(inst, 31, 20) \cup slice(inst, 19, 12, 12)
                    \cup slice(inst, 20, 20, 11) \cup slice(inst, 30, 21, 1)
    [] sel = "Z" -> zimm(inst)
    [] OTHER     -> {}
=============================================================================
