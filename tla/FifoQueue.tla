------------------------------- MODULE FifoQueue -------------------------------
(***************************************************************************)
(* What a ring promises its two sides, with no buffer, offset or counter:  *)
(* a bounded queue of values, put whole in the order they were made, looked*)
(* at in place and taken from the front.  The k-th value ever put is       *)
(* k % Values, so a value lost, repeated, torn or reordered shows.         *)
(***************************************************************************)
EXTENDS Naturals, Sequences

CONSTANT Values      \* values before they repeat

VARIABLES
  room,     \* the most values it can hold
  queue,    \* values put and not yet taken, oldest first
  next,     \* the value the next put begins with
  handed    \* what the last look or take handed over

fifoVars == <<room, queue, next, handed>>

(* The n values from the i-th on. *)
Made(i, n) == [k \in 1 .. n |-> (i + k - 1) % Values]

Init == room \in Nat /\ queue = <<>> /\ next = 0 /\ handed = <<>>

Put(n) ==
  /\ Len(queue) + n <= room
  /\ queue' = queue \o Made(next, n)
  /\ next' = (next + n) % Values
  /\ UNCHANGED <<room, handed>>

Look(from, n) ==
  /\ from + n <= Len(queue)
  /\ handed' = SubSeq(queue, from + 1, from + n)
  /\ UNCHANGED <<room, queue, next>>

Drop(n) ==
  /\ n <= Len(queue)
  /\ queue' = SubSeq(queue, n + 1, Len(queue))
  /\ UNCHANGED <<room, next>>

Take(n) == Drop(n) /\ handed' = SubSeq(queue, 1, n)

Next ==
  \E n \in 0 .. room :
    \/ Put(n)
    \/ Take(n)
    \/ Drop(n) /\ UNCHANGED handed
    \/ \E from \in 0 .. room : Look(from, n)

Spec == Init /\ [][Next]_fifoVars
=============================================================================
