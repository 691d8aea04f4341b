------------------------------- MODULE MCMobilis -------------------------------
(* Two threads and two slots, one a claim word, in a tier of three cells;   *)
(* one thread holds up to two cells and reads and writes them, the other    *)
(* holds one and moves.                                                     *)
EXTENDS LocusMobilis

CONSTANTS t1, t2

Held == [t \in Threads |-> IF t \in Users THEN 2 ELSE 1]
===============================================================================
