------------------------------- MODULE Decode -------------------------------
(***************************************************************************)
(* decode of tools/iss.py: the class of an instruction word and its        *)
(* mnemonic within it, or "illegal" where decode raises.  It is written    *)
(* from other tables than control.v, and everything the repository checks  *)
(* the decoder with is built on it.                                        *)
(***************************************************************************)
EXTENDS Isa

\* The tables, with what their .get() finds: a missing key is "illegal".
R_MNEM(funct7, funct3) ==
  CASE funct7 = 0 ->
         ( CASE funct3 = 0 -> "add" [] funct3 = 1 -> "sll" [] funct3 = 2 -> "slt"
             [] funct3 = 3 -> "sltu" [] funct3 = 4 -> "xor" [] funct3 = 5 -> "srl"
             [] funct3 = 6 -> "or" [] funct3 = 7 -> "and" )
    [] funct7 = 32 /\ funct3 = 0 -> "sub"
    [] funct7 = 32 /\ funct3 = 5 -> "sra"
    [] OTHER -> "illegal"
SHIFT_MNEM(funct7, funct3) ==
  CASE funct7 = 0 /\ funct3 = 1 -> "sll" [] funct7 = 0 /\ funct3 = 5 -> "srl"
    [] funct7 = 32 /\ funct3 = 5 -> "sra" [] OTHER -> "illegal"
IA_MNEM(funct3) ==
  CASE funct3 = 0 -> "add" [] funct3 = 2 -> "slt" [] funct3 = 3 -> "sltu"
    [] funct3 = 4 -> "xor" [] funct3 = 6 -> "or"  [] funct3 = 7 -> "and"
    [] OTHER -> "illegal"
LD_MNEM(funct3) ==
  CASE funct3 = 0 -> "lb"  [] funct3 = 1 -> "lh" [] funct3 = 2 -> "lw"
    [] funct3 = 4 -> "lbu" [] funct3 = 5 -> "lhu" [] OTHER -> "illegal"
ST_MNEM(funct3) ==
  CASE funct3 = 0 -> "sb" [] funct3 = 1 -> "sh" [] funct3 = 2 -> "sw"
    [] OTHER -> "illegal"
BR_MNEM(funct3) ==
  CASE funct3 = 0 -> "beq" [] funct3 = 1 -> "bne"  [] funct3 = 4 -> "blt"
    [] funct3 = 5 -> "bge" [] funct3 = 6 -> "bltu" [] funct3 = 7 -> "bgeu"
    [] OTHER -> "illegal"
CSR_MNEM(funct3) ==
  CASE funct3 = 1 -> "csrrw" [] funct3 = 2 -> "csrrs" [] funct3 = 3 -> "csrrc"
    [] OTHER -> "illegal"

\* The three fixed SYSTEM words: every other field of them is zero.
fixed_word(i, selector) ==
  i.csr = selector /\ i.rd = 0 /\ i.rs1 = 0

SYS_MNEM(i) == CASE fixed_word(i, CSR_ECALL)  -> "ecall"
                 [] fixed_word(i, CSR_EBREAK) -> "ebreak"
                 [] fixed_word(i, CSR_MRET)   -> "mret"
                 [] OTHER                     -> "illegal"

\* The class of an instruction and its mnemonic within it.  The immediate
\* forms share their semantics with the register forms of the same name.
decode(i) ==
  CASE i.opcode = OP_R      -> <<"R", R_MNEM(i.funct7, i.funct3)>>
    [] i.opcode = OP_IARITH /\ i.funct3 \in {1, 5} ->
         <<"I", SHIFT_MNEM(i.funct7, i.funct3)>>
    [] i.opcode = OP_IARITH /\ i.funct3 \notin {1, 5} ->
         <<"I", IA_MNEM(i.funct3)>>
    [] i.opcode = OP_LOAD   -> <<"L", LD_MNEM(i.funct3)>>
    [] i.opcode = OP_STORE  -> <<"S", ST_MNEM(i.funct3)>>
    [] i.opcode = OP_BRANCH -> <<"B", BR_MNEM(i.funct3)>>
    [] i.opcode = OP_LUI    -> <<"U", "lui">>
    [] i.opcode = OP_AUIPC  -> <<"U", "auipc">>
    [] i.opcode = OP_JAL    -> <<"J", "jal">>
    [] i.opcode = OP_JALR   ->
         <<"J", IF i.funct3 = 0 THEN "jalr" ELSE "illegal">>
    [] i.opcode = OP_SYSTEM /\ i.funct3 = 0 -> <<"SYS", SYS_MNEM(i)>>
    [] i.opcode = OP_SYSTEM /\ i.funct3 \in 1 .. 4 ->
         <<"CSR-R", CSR_MNEM(i.funct3)>>
    [] i.opcode = OP_SYSTEM /\ i.funct3 \in 5 .. 7 ->
         <<"CSR-I", CSR_MNEM(i.funct3 - 4)>>
    [] OTHER -> <<"none", "illegal">>
=============================================================================
