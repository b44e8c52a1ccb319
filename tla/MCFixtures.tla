----------------------------- MODULE MCFixtures -----------------------------
(***************************************************************************)
(* Two programs whose authors try every source below in turn.  The text    *)
(* "loop" depends on its data: zeros end it, the image "d1" does not.      *)
(***************************************************************************)
EXTENDS Fixtures

source_of(text, data) == [assembles |-> TRUE, text |-> text, data |-> data]

MCSources ==
  { source_of("t1", "none"), source_of("t1", "d1"), source_of("t1", "d2"),
    source_of("loop", "none"), source_of("bad", "none"),
    [assembles |-> FALSE, text |-> "t1", data |-> "none"] }

MCEnds(t, d) ==
  CASE t = "t1" -> "ebreak"
    [] t = "loop" -> IF d = "d1" THEN "limit" ELSE "ebreak"
    [] OTHER -> "illegal"
=============================================================================
