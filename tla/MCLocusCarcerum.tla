--------------------------- MODULE MCLocusCarcerum ---------------------------
(* LocusCarcerum instantiated for TLC. *)
EXTENDS LocusCarcerum, TLC

ContextSymmetry == Permutations(TempContexts) \cup Permutations(Contexts \ TempContexts)

(* Nothing reads persistentInUse back, and it drifts without bound (the     *)
(* PersistentInUseExact run shows it): left out of what tells states apart. *)
Watched == <<bounds, over, closed, lane, waits, seen, cell, inUse, ownerInUse,
             pc, op, held, chain>>
=============================================================================
