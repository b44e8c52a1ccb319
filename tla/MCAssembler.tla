----------------------------- MODULE MCAssembler -----------------------------
(***************************************************************************)
(* Lines for the assembler: labels that are used before and behind their   *)
(* definition, constants that change, `li' whose length depends on an      *)
(* address, data and directives that move addresses.                       *)
(***************************************************************************)
EXTENDS Assembler

line(label, op, name, sym, off) ==
  [label |-> label, op |-> op, name |-> name, arg |-> [sym |-> sym, off |-> off]]

MCLines ==
  { line("a", "addi", "", "", 1),       \* a:   addi x1, x0, 1
    line("b", "li", "", "b", 6),        \* b:   li   x1, b + 6
    line("", "beq", "", "a", 0),        \*      beq  x0, x0, a
    line("", "beq", "", "b", 0),        \*      beq  x0, x0, b
    line("", "la", "", "a", 120),       \*      la   x1, a + 120
    line("", "li", "", "k", 0),         \*      li   x1, k
    line("", ".equ", "k", "", 5),       \*      .equ k, 5
    line("", ".equ", "k", "a", -100),   \*      .equ k, a - 100
    line("", ".equ", "a", "", 8),       \*      .equ a, 8
    line("", ".byte", "", "a", -2),     \*      .byte a - 2
    line("", ".word", "", "k", 0),      \*      .word k
    line("b", "", "", "", 0),           \* b:
    line("", ".align", "", "", 4),      \*      .align 4
    line("", ".space", "", "a", 3),     \*      .space a + 3
    line("", ".org", "", "", 4),        \*      .org 4
    line("", ".data", "", "", 0),       \*      .data
    line("", ".text", "", "", 0) }      \*      .text
=============================================================================
