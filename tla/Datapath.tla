------------------------------ MODULE Datapath ------------------------------
(***************************************************************************)
(* The combinational leaves of the data path: alu.v, branch_unit.v, the    *)
(* byte lanes of dmem.v, the read and read-modify-write logic of csr.v and *)
(* the saturating counter of bht.v.                                        *)
(***************************************************************************)
EXTENDS Control

\* alu.v
alu(op, a, b) ==
  CASE op = "ADD"   -> U(a + b)
    [] op = "SUB"   -> U(a - b)
    [] op = "SLL"   -> Sll(a, Shamt(b))
    [] op = "SLT"   -> IF Signed(a) < Signed(b) THEN 1 ELSE 0
    [] op = "SLTU"  -> IF a < b THEN 1 ELSE 0
    [] op = "XOR"   -> BitXor(a, b)
    [] op = "SRL"   -> Srl(a, Shamt(b))
    [] op = "SRA"   -> Sra(a, Shamt(b))
    [] op = "OR"    -> BitOr(a, b)
    [] op = "AND"   -> BitAnd(a, b)
    [] op = "PASSB" -> b
    [] OTHER        -> 0

\* branch_unit.v: any other funct3 is not taken.
branch_taken(funct3, rs1, rs2) ==
  \/ funct3 = 0 /\ rs1 = rs2
  \/ funct3 = 1 /\ rs1 # rs2
  \/ funct3 = 4 /\ Signed(rs1) < Signed(rs2)
  \/ funct3 = 5 /\ Signed(rs1) >= Signed(rs2)
  \/ funct3 = 6 /\ rs1 < rs2
  \/ funct3 = 7 /\ rs1 >= rs2

----------------------------------------------------------------------------
(* dmem.v.  Four byte lanes; addr[1:0] selects a byte, addr[1] a half.     *)

byte_sel(word, lane) == (word \div 2^(lane * ByteBits)) % 2^ByteBits
half_sel(word, lane) == (word \div 2^((lane \div 2) * HalfBits)) % 2^HalfBits

\* The load result assembled from the latched word.
load_data(word, lane, funct3) ==
  CASE funct3 = 0 -> SignExtend(byte_sel(word, lane), ByteBits)
    [] funct3 = 1 -> SignExtend(half_sel(word, lane), HalfBits)
    [] funct3 = 4 -> byte_sel(word, lane)
    [] funct3 = 5 -> half_sel(word, lane)
    [] OTHER      -> word

\* The store data masked to its width, what the trace port shows.
wmask_data(funct3, wdata) ==
  CASE funct3 % 4 = 0 -> wdata % 2^ByteBits
    [] funct3 % 4 = 1 -> wdata % 2^HalfBits
    [] OTHER          -> wdata

\* The word with the `old' bits at `shift' replaced by `new' ones.
replace(word, shift, old, new) == U(word + (new - old) * 2^shift)

\* The word after the lanes of a store are written.
store_lanes(word, lane, funct3, wdata) ==
  LET masked == wmask_data(funct3, wdata)
  IN  CASE funct3 % 4 = 0 ->
             replace(word, lane * ByteBits, byte_sel(word, lane), masked)
        [] funct3 % 4 = 1 ->
             replace(word, (lane \div 2) * HalfBits, half_sel(word, lane), masked)
        [] OTHER -> wdata

----------------------------------------------------------------------------
(* csr.v.                                                                  *)

\* rdata_r: the assembled view; an unimplemented CSR reads 0.
csr_view(c, addr) ==
  CASE addr = CSR_MSTATUS -> U(AtBit(c.mstatus_mpie, MPIE_BIT)
                               + AtBit(c.mstatus_mie, MIE_BIT))
    [] addr = CSR_MIE     -> AtBit(c.mie_meie, MEIE_BIT)
    [] addr = CSR_MTVEC   -> WordAlign(c.mtvec)
    [] addr = CSR_MEPC    -> WordAlign(c.mepc)
    [] addr = CSR_MCAUSE  -> c.mcause
    [] OTHER              -> 0

\* wval: csr_op is funct3[1:0], 01 write, 10 set, 11 clear.
csr_wval(op, old, src) ==
  CASE op = 1 -> src
    [] op = 2 -> BitOr(old, src)
    [] op = 3 -> BitAnd(old, BitNot(src))
    [] OTHER  -> old

\* The three branches of the clocked process below its reset.

\* mutant: trap entry leaves MIE set
csr_trap_keeps_mie(c, pc, cause) ==
  [c EXCEPT !.mepc = WordAlign(pc), !.mcause = cause,
            !.mstatus_mpie = c.mstatus_mie]

csr_trap(c, pc, cause) ==
  [c EXCEPT !.mepc = WordAlign(pc), !.mcause = cause,
            !.mstatus_mpie = c.mstatus_mie, !.mstatus_mie = FALSE]

csr_mret(c) ==
  [c EXCEPT !.mstatus_mie = c.mstatus_mpie, !.mstatus_mpie = TRUE]

csr_write(c, addr, wval) ==
  CASE addr = CSR_MSTATUS -> [c EXCEPT !.mstatus_mie = Bit(wval, MIE_BIT),
                                       !.mstatus_mpie = Bit(wval, MPIE_BIT)]
    [] addr = CSR_MIE     -> [c EXCEPT !.mie_meie = Bit(wval, MEIE_BIT)]
    [] addr = CSR_MTVEC   -> [c EXCEPT !.mtvec = WordAlign(wval)]
    [] addr = CSR_MEPC    -> [c EXCEPT !.mepc = WordAlign(wval)]
    [] addr = CSR_MCAUSE  -> [c EXCEPT !.mcause = wval]
    [] OTHER              -> c

----------------------------------------------------------------------------
(* bht.v: a two-bit saturating counter, predicting taken from its top bit. *)

BhtState == 0 .. 3
WEAK_NT  == 1

\* mutant: two bits wrap
update_next_wraps(state, taken) ==
  IF taken THEN (state + 1) % 4 ELSE (state + 3) % 4

update_next(state, taken) ==
  IF taken THEN (IF state = 3 THEN 3 ELSE state + 1)
           ELSE (IF state = 0 THEN 0 ELSE state - 1)
=============================================================================
