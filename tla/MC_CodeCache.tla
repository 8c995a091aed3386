---------------------------- MODULE MC_CodeCache ----------------------------
(***************************************************************************)
(* Model checking instances of CodeCache: two pages of guest code and one  *)
(* of data, two words each; a plain instruction, a branch and one that the *)
(* dynarec leaves to the interpreter.                                      *)
(*                                                                         *)
(* In the passing run the writers that call no hook or half of it keep to  *)
(* the last word, which nothing reaches as code, and no short DMA crosses  *)
(* a page.  Each of the other runs drops one restriction, or none.         *)
(***************************************************************************)
EXTENDS CodeCache, TLC

Words == {"add", "jr", "eret"}

Kinds == [w \in Words |-> CASE w = "add"  -> "plain"
                            [] w = "jr"   -> "branch"
                            [] w = "eret" -> "foreign"]

\* A short function that ends on the page, and zeroed memory behind it.
Images == [a \in Addr |-> IF a = 1 THEN "jr" ELSE "add"]

Dmas == { <<1, 3>>, <<2, 3>> }

SiDmas == { <<5, 5>> }

=============================================================================
