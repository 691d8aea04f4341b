------------------------------ MODULE VerbaBitorum ------------------------------
(***************************************************************************)
(* Machine words as the sets of their set bits, bit 0 the lowest: and, or  *)
(* and complement are the set operations, and sums and differences carry   *)
(* and borrow as the adder of a processor does.  What leaves the word is   *)
(* lost.                                                                   *)
(***************************************************************************)
EXTENDS Integers, FiniteSetsExt

CONSTANT WordBits

WordBitsAssumption == WordBits \in Nat \ {0}

Positions == 0 .. WordBits - 1

Not(x) == Positions \ x

Xor(x, y) == (x \ y) \cup (y \ x)

ShiftUp(x, n) == {i + n : i \in x} \cap Positions

ShiftDown(x, n) == {i - n : i \in x} \cap Positions

\* A carry into bit i starts where both bits are set and runs through bits with either.
Plus(x, y) ==
  LET carries == {i \in Positions : \E j \in x \cap y : j < i /\ (j + 1) .. (i - 1) \subseteq x \cup y}
  IN  Xor(Xor(x, y), carries)

\* A borrow from bit i starts where only y has the bit and runs past bits x has not over y.
Minus(x, y) ==
  LET borrows == {i \in Positions : \E j \in y \ x : j < i /\ (j + 1) .. (i - 1) \cap (x \ y) = {}}
  IN  Xor(Xor(x, y), borrows)

\* The bits of a number, and the number of bits that sum below 2^31.
BitsOf(n) == {i \in 0 .. 30 : (n \div 2^i) % 2 = 1}

NumberOf(x) == MapThenSumSet(LAMBDA i : 2^i, x)
=============================================================================
