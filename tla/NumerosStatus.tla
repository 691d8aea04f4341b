------------------------------ MODULE NumerosStatus ------------------------------
(***************************************************************************)
(* A buffer rows are appended to, what the last call answered and what the *)
(* calls were asked for; and what those owe each other between two calls.  *)
(***************************************************************************)
EXTENDS Integers, Sequences

CONSTANTS Cap         \* the bytes of the buffer

VARIABLES
  out,      \* the buffer, bytes 0 .. Cap - 1 and one past it that no call may touch
  cursor,   \* what the last call returned, which a caller may start the next one at
  told,     \* the string the successful calls were asked for
  calls

\* The append entries measure the string when they are given no cursor.
Used(at) ==
  IF at # 0 THEN at
  ELSE LET ends == {k \in 0 .. Cap - 1 : out[k] = 0}
       IN  IF ends = {} THEN Cap ELSE CHOOSE k \in ends : \A l \in ends : k <= l
-----------------------------------------------------------------------------
\* Whatever fails to match or to fit, the buffer holds the whole text of every call that
\* reported one and nothing of the others; and no call writes past the buffer.
AppendsWhole ==
  LET end == Used(0)
  IN  /\ end < Cap /\ [k \in 1 .. end |-> out[k - 1]] = told
      /\ out[Cap] = 255
      /\ cursor # 0 => cursor = end
=============================================================================
