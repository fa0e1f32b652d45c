--------------------------- MODULE MCBurstConsole ---------------------------
(* Sizes in proportion to 80 and 4096: 5, like 80 = 16 * 5, has holes in  *)
(* its masks and one usable slot; 8 is a power of two.                      *)
EXTENDS BurstConsole, Bitwise

\* & with two nonnegative operands.
AndOf(a, b) == a & b
=============================================================================
