-------------------------------- MODULE BitOps --------------------------------
(* Powers of two and the bitwise operators of C++ on unsigned numbers of any      *)
(* width: the last bits are combined by a truth table, the rest is the same       *)
(* operation on the halves of the operands.                                       *)
EXTENDS Integers

Pow2[n \in Nat] == IF n = 0 THEN 1 ELSE 2 * Pow2[n - 1]

TwoBits == {0, 1} \X {0, 1}
AndTable == [p \in TwoBits |-> IF p = <<1, 1>> THEN 1 ELSE 0]
OrTable == [p \in TwoBits |-> IF p = <<0, 0>> THEN 0 ELSE 1]
XorTable == [p \in TwoBits |-> IF p[1] = p[2] THEN 0 ELSE 1]

\* table maps <<0, 0>> to 0, as there is no end to the leading zeros.
Bitwise(table) ==
    LET f[p \in Nat \X Nat] ==
          IF p = <<0, 0>> THEN 0
          ELSE 2 * f[<<p[1] \div 2, p[2] \div 2>>] + table[<<p[1] % 2, p[2] % 2>>]
    IN f

x & y == Bitwise(AndTable)[<<x, y>>]
x | y == Bitwise(OrTable)[<<x, y>>]
x ^^ y == Bitwise(XorTable)[<<x, y>>]
=============================================================================
