----------------------------- MODULE MCVectors ------------------------------
(***************************************************************************)
(* The numbers the generators draw: registers with every bit of their      *)
(* fields set and clear, immediates with every bit alternating, and words  *)
(* of every opcode with every funct3 whose other fields are those that     *)
(* some decoder tells apart, or one bit beside them.                       *)
(***************************************************************************)
EXTENDS Vectors

LOCAL INSTANCE Bitwise

MCBitAnd(x, y) == x & y
MCBitOr(x, y)  == x | y
MCBitXor(x, y) == x ^^ y

MCRegs == {0, 21, 31}
MCSamples == {-699051, -1366, -86, 2, 9, 22, 1365, 2730, 349526, 699050}

MCSweep ==
  ({0, 1, 24, 32, 64, 127} \X {0, 1, 2} \X {0, 1} \X (0 .. 7) \X {0, 2}
     \X (0 .. 127))
=============================================================================
