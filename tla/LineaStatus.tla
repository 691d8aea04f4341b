------------------------------- MODULE LineaStatus -------------------------------
(***************************************************************************)
(* A line under way: the caller's buffer, the entry not yet out, what the  *)
(* flush took and what the entries said of it; and what those four owe     *)
(* each other between two entries.                                         *)
(***************************************************************************)
EXTENDS Integers, SequencesExt

VARIABLES
  line,     \* VerbaLinea: out, cap (capacity), at, flushed, and hands: flush is not NULL
  job,      \* what is left of the entry under way
  device,   \* the bytes flush took
  said,     \* the bytes the entries said the line took
  lost,     \* an entry took fewer bytes than its text has
  touched   \* a write has reached the line while it had room

Idle == [doing |-> "idle"]

Full(l) == l.at >= l.cap
-----------------------------------------------------------------------------
\* What a reader finds in the buffer: the bytes before the first terminator.
LineHeld ==
  LET zeros == {k \in 0 .. line.cap - 1 : line.out[k] = 0}
  IN  IF zeros = {} THEN <<255>> ELSE [k \in 1 .. Min(zeros) |-> line.out[k - 1]]

\* Between two entries of a line, what flush took and what the buffer holds are, in order and
\* without a gap, the bytes the entries said the line took; nothing follows a byte that was
\* lost; and flushed counts what was handed on.
LineKept ==
  job = Idle /\ touched =>
    /\ device \o LineHeld = said
    /\ line.flushed = Len(device)
    /\ lost => Full(line)
=============================================================================
