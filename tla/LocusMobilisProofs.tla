------------------------- MODULE LocusMobilisProofs -------------------------
(***************************************************************************)
(* The movable option, proved for every number of threads and slots, every *)
(* width of a claim word and every cellblock: claims are exclusive, slots  *)
(* name their holders' cells, moves keep the tiling, the content and the   *)
(* spans of the passes under way.                                          *)
(*                                                                         *)
(* The geometry of sweeping, splitting and laying is LocusInvariantProofs' *)
(* of the same tier; its operators are Block's under another name, and the *)
(* first lemmas carry what they say over.                                  *)
(***************************************************************************)
EXTENDS LocusMobilis, TLAPS, FiniteSetTheorems

Tiers == INSTANCE LocusInvariantProofs WITH
  Contexts <- Threads, TempContexts <- {}, Lanes <- 1,
  Owners <- Threads, Strangers <- {}, Growths <- {}, Rewinds <- FALSE,
  over <- [end |-> 0, top |-> 0], lane <- inside, waits <- inside, seen <- {},
  persistentInUse <- inUse, ownerInUse <- [t \in Threads |-> inUse],
  chain <- bounds

(* What the cellblock assumes of its constants holds of a movable tier's.  *)
LEMMA Met == Tiers!WordAssumption /\ Tiers!CellblockAssumption /\ Tiers!HeadroomAssumption
<1>1. Tiers!WordAssumption
  BY WordAssumption DEF Tiers!WordAssumption, Tiers!BytesMost, BytesMost, Tiers!NeedMost, NeedMost
<1>2. Tiers!CellblockAssumption
  <2>1. Tiers!IsFiniteSet(Threads)
    BY MobilisAssumption DEF IsFiniteSet, Tiers!IsFiniteSet
  <2> QED BY <2>1, MobilisAssumption DEF Tiers!CellblockAssumption
<1>3. Tiers!Cardinality({}) = 0
  <2>1. Cardinality({}) = 0
    BY FS_EmptySet
  <2>2. Tiers!Cardinality({}) = Cardinality({})
    BY DEF Cardinality, Tiers!Cardinality
  <2> QED BY <2>1, <2>2
<1>4. Tiers!HeadroomAssumption
  BY MobilisAssumption, WordAssumption, <1>3
  DEF Tiers!HeadroomAssumption, Tiers!BytesMost, BytesMost, Tiers!NeedMost, NeedMost
<1> QED BY <1>1, <1>2, <1>4

LEMMA Sizes ==
  /\ Half \in Nat /\ Size \in Nat /\ Align \in Nat /\ Hdr \in Nat /\ WantMost \in Nat
  /\ Align > 0 /\ 0 < Size /\ Size < Half
  /\ CarcerHead \in Nat \ {0} /\ Hdr = 2 * CarcerHead
  /\ SlotCount \in Nat \ {0} /\ ClaimBits \in Nat \ {0}
BY WordAssumption, MobilisAssumption DEF BytesMost, NeedMost, CarcerHead

-----------------------------------------------------------------------------
(* The claim words. *)

LEMMA Quotient ==
  ASSUME NEW a \in Nat, NEW n \in Nat, NEW b \in Nat \ {0}
  PROVE  /\ a \div b \in Nat /\ (a \div b) * b <= a /\ a < (a \div b) * b + b
         /\ a < n * b => a \div b < n
<1> DEFINE q == a \div b
           r == a % b
<1>1. q \in Int /\ r \in Int /\ a = b * q + r /\ 0 <= r /\ r < b
  OBVIOUS
<1> HIDE DEF q, r
<1>2. q >= 0
  <2> SUFFICES ASSUME q <= 0 - 1 PROVE FALSE
    BY <1>1
  <2>1. b * q <= b * (0 - 1)
    BY <1>1
  <2> QED BY <2>1, <1>1
<1>3. q * b = b * q
  BY <1>1
<1>4. a < n * b => q < n
  <2> SUFFICES ASSUME a < n * b, n <= q PROVE FALSE
    BY <1>1
  <2>1. n * b <= q * b
    BY <1>1, <1>2
  <2>2. n * b \in Nat
    OBVIOUS
  <2> QED BY <2>1, <2>2, <1>1, <1>3
<1> QED BY <1>1, <1>2, <1>3, <1>4 DEF q

LEMMA ClaimWords ==
  /\ 0 \in Words /\ Words \subseteq Nat /\ Bits \subseteq Nat
  /\ Slots \subseteq Bits
  /\ \A bit \in Bits : WordOf(bit) \in Words
  /\ Cardinality(Words) \in Nat \ {0}
<1> DEFINE n == (SlotCount + ClaimBits - 1) \div ClaimBits
<1>1. SlotCount + ClaimBits - 1 \in Nat
  BY Sizes
<1>2. /\ n \in Nat /\ n * ClaimBits <= SlotCount + ClaimBits - 1
      /\ SlotCount + ClaimBits - 1 < n * ClaimBits + ClaimBits
  BY <1>1, Quotient, Sizes
<1>3. Words = 0 .. n - 1
  BY DEF Words
<1> HIDE DEF n
<1>4. n * ClaimBits \in Nat /\ SlotCount <= n * ClaimBits
  BY <1>2, Sizes
<1>5. n > 0
  BY <1>4, <1>2, Sizes
<1>6. Cardinality(Words) = n
  BY <1>2, <1>3, <1>5, FS_Interval
<1>7. Bits = 1 .. n * ClaimBits
  BY <1>6 DEF Bits
<1>8. ASSUME NEW bit \in Bits PROVE WordOf(bit) \in Words
  <2>1. bit - 1 \in Nat /\ bit - 1 < n * ClaimBits
    BY <1>7, <1>4
  <2> QED BY <2>1, <1>2, <1>3, Quotient, Sizes DEF WordOf
<1> QED BY <1>2, <1>3, <1>4, <1>5, <1>6, <1>7, <1>8, Sizes DEF Slots

-----------------------------------------------------------------------------
(* The tier.  Its cells lie below the end, no two share a byte, and where   *)
(* one ends the next begins.                                                *)
CellWord == [size : Nat \ {0}, busy : BOOLEAN,
             owner : Threads \cup {NoOwner}, complete : BOOLEAN]

Ends(cells, o) == carcer_end_of(o, cells[o].size)

Lies(cells, end) ==
  /\ cells \in [DOMAIN cells -> CellWord] /\ DOMAIN cells \subseteq Nat
  /\ end \in Nat /\ end <= Size
  /\ \A o \in DOMAIN cells : Ends(cells, o) <= end
  /\ \A o, p \in DOMAIN cells : o # p => Ends(cells, o) <= p \/ Ends(cells, p) <= o
  /\ 0 \in DOMAIN cells \cup {end}
  /\ \A o \in DOMAIN cells : Ends(cells, o) \in DOMAIN cells \cup {end}

LEMMA CellEnds ==
  ASSUME NEW cells, cells \in [DOMAIN cells -> CellWord], DOMAIN cells \subseteq Nat,
         NEW o \in DOMAIN cells
  PROVE  /\ o \in Nat /\ cells[o] \in CellWord /\ cells[o].size \in Nat \ {0}
         /\ Ends(cells, o) = o + Hdr + cells[o].size /\ Ends(cells, o) \in Nat
         /\ o + Hdr < Ends(cells, o)
BY Sizes DEF Ends, carcer_end_of, CellWord

LEMMA LiesIsTiled ==
  ASSUME NEW cells, NEW end PROVE Lies(cells, end) <=> Tiers!Tiled(cells, end, Size)
<1>1. \A o \in DOMAIN cells : Tiers!Until(cells, o) = Ends(cells, o)
  BY DEF Tiers!Until, Ends, Tiers!carcer_end_of, carcer_end_of
<1>2. Tiers!CellWords = CellWord
  BY DEF Tiers!CellWords, CellWord
<1>3. ASSUME Lies(cells, end) PROVE Tiers!Tiled(cells, end, Size)
  BY <1>1, <1>2, <1>3, Sizes DEF Lies, Tiers!Tiled
<1>4. ASSUME Tiers!Tiled(cells, end, Size) PROVE Lies(cells, end)
  <2>1. /\ cells \in [DOMAIN cells -> CellWord] /\ DOMAIN cells \subseteq Nat
        /\ end \in Nat /\ end <= Size
        /\ \A o \in DOMAIN cells : Ends(cells, o) <= end \/ (Size <= o /\ Ends(cells, o) <= Size)
        /\ \A o, p \in DOMAIN cells : o # p => Ends(cells, o) <= p \/ Ends(cells, p) <= o
        /\ 0 \in DOMAIN cells \cup {end}
        /\ \A o \in DOMAIN cells : Ends(cells, o) \in DOMAIN cells \cup {end, Size}
    BY <1>1, <1>2, <1>4 DEF Tiers!Tiled
  <2>2. \A o \in DOMAIN cells : Ends(cells, o) <= end
    BY <2>1, CellEnds, Sizes
  <2>3. \A o \in DOMAIN cells : Ends(cells, o) \in DOMAIN cells \cup {end}
    BY <2>1, <2>2, CellEnds, Sizes
  <2> QED BY <2>1, <2>2, <2>3 DEF Lies
<1> QED BY <1>3, <1>4

(* Block's operators are the lemmas' under another name. *)
LEMMA SameWords ==
  /\ \A size, owner : /\ Tiers!BusyCell(size, owner) = Block!BusyCell(size, owner)
                      /\ Tiers!FreeCell(size) = Block!FreeCell(size)
  /\ \A cells, off, laid : Tiers!LaidAt(cells, off, laid) = Block!LaidAt(cells, off, laid)
  /\ \A cells, offsets : Tiers!Only(cells, offsets) = Block!Only(cells, offsets)
  /\ \A off, size : /\ Tiers!carcer_end_of(off, size) = off + Hdr + size
                    /\ Block!carcer_end_of(off, size) = off + Hdr + size
                    /\ carcer_end_of(off, size) = off + Hdr + size
  /\ \A o : Tiers!EndOf(o) = Block!EndOf(o) /\ Block!EndOf(o) = Ends(cell, o)
BY DEF Tiers!BusyCell, Block!BusyCell, Tiers!FreeCell, Block!FreeCell, Tiers!LaidAt, Block!LaidAt,
       Tiers!Only, Block!Only, Tiers!carcer_end_of, Block!carcer_end_of, carcer_end_of,
       Tiers!EndOf, Block!EndOf, Ends

LEMMA SameSweep ==
  ASSUME NEW free
  PROVE  /\ Tiers!Busy(free) = Block!Busy(free)
         /\ Tiers!RunStarts(free) = Block!RunStarts(free)
         /\ Tiers!Runs(free) = Block!Runs(free)
         /\ \A run : Tiers!RunSize(run) = Block!RunSize(run)
         /\ Tiers!SweptEnd(free) = Block!SweptEnd(free)
         /\ Tiers!SweptCells(free) = Block!SweptCells(free)
         /\ \A want : /\ Tiers!Holding(free, want) = Block!Holding(free, want)
                      /\ Tiers!FirstRun(free, want) = Block!FirstRun(free, want)
<1>1. Tiers!Busy(free) = Block!Busy(free)
  BY DEF Tiers!Busy, Block!Busy
<1>2. Tiers!RunStarts(free) = Block!RunStarts(free)
  BY <1>1, SameWords DEF Tiers!RunStarts, Block!RunStarts
<1>3. Tiers!Runs(free) = Block!Runs(free)
  BY <1>1, <1>2 DEF Tiers!Runs, Block!Runs
<1>4. \A run : Tiers!RunSize(run) = Block!RunSize(run)
  BY DEF Tiers!RunSize, Block!RunSize
<1>5. Tiers!SweptEnd(free) = Block!SweptEnd(free)
  BY <1>2 DEF Tiers!SweptEnd, Block!SweptEnd
<1>6. Tiers!SweptCells(free) = Block!SweptCells(free)
  BY <1>1, <1>3, <1>4, SameWords DEF Tiers!SweptCells, Block!SweptCells
<1>7. \A want : Tiers!Holding(free, want) = Block!Holding(free, want)
  BY <1>3, <1>4 DEF Tiers!Holding, Block!Holding
<1>8. \A want : Tiers!FirstRun(free, want) = Block!FirstRun(free, want)
  BY <1>7 DEF Tiers!FirstRun, Block!FirstRun
<1> QED BY <1>1, <1>2, <1>3, <1>4, <1>5, <1>6, <1>7, <1>8

LEMMA LiesKeeps ==
  ASSUME NEW cells, NEW end, Lies(cells, end), NEW now, DOMAIN now = DOMAIN cells,
         now \in [DOMAIN now -> CellWord], \A o \in DOMAIN cells : now[o].size = cells[o].size
  PROVE  Lies(now, end)
BY DEF Lies, Ends

(* A cell laid at the end. *)
LEMMA LiesLaysUp ==
  ASSUME NEW cells, NEW end, Lies(cells, end), NEW laid \in CellWord, end + Hdr + laid.size <= Size
  PROVE  /\ end \notin DOMAIN cells
         /\ Lies(Block!LaidAt(cells, end, laid), end + Hdr + laid.size)
<1>1. Tiers!CellWords = CellWord
  BY DEF Tiers!CellWords, CellWord
<1>2. Tiers!Tiled(cells, end, Size)
  BY LiesIsTiled
<1>3. /\ end \notin DOMAIN cells
      /\ Tiers!Tiled(Tiers!LaidAt(cells, end, laid), end + Hdr + laid.size, Size)
  BY <1>1, <1>2, Tiers!TiledLaysUp, Met
<1> QED BY <1>3, LiesIsTiled, SameWords

(* The last cell dropped. *)
LEMMA LiesTrims ==
  ASSUME NEW cells, NEW end, Lies(cells, end), NEW o \in DOMAIN cells, Ends(cells, o) = end
  PROVE  Lies(Block!Only(cells, 0 .. o - 1), o)
<1> DEFINE now == Block!Only(cells, 0 .. o - 1)
<1>1. DOMAIN now = DOMAIN cells \cap (0 .. o - 1) /\ \A p \in DOMAIN now : now[p] = cells[p]
  BY DEF Block!Only
<1>2. /\ DOMAIN cells \subseteq Nat /\ cells \in [DOMAIN cells -> CellWord] /\ o \in Nat
      /\ end \in Nat /\ end <= Size /\ o < end
  BY CellEnds, Sizes DEF Lies
<1>3. \A p \in DOMAIN now : /\ p \in DOMAIN cells /\ p \in Nat /\ p < o
                            /\ Ends(now, p) = Ends(cells, p)
                            /\ p < Ends(cells, p) /\ Ends(cells, p) \in Nat
  <2> HIDE DEF now
  <2>1. \A p \in DOMAIN now : p \in DOMAIN cells /\ p \in Nat /\ p < o
    BY <1>1, <1>2
  <2>2. \A p \in DOMAIN now : Ends(now, p) = Ends(cells, p)
    BY <1>1 DEF Ends
  <2>3. \A p \in DOMAIN cells : p < Ends(cells, p) /\ Ends(cells, p) \in Nat
    BY <1>2, CellEnds, Sizes
  <2> QED BY <2>1, <2>2, <2>3
<1>4. \A p \in DOMAIN now : Ends(now, p) <= o
  BY <1>2, <1>3 DEF Lies
<1>5. now \in [DOMAIN now -> CellWord]
  <2>1. \A p \in DOMAIN now : now[p] \in CellWord
    BY <1>1, <1>2
  <2>2. now = [p \in DOMAIN now |-> now[p]]
    BY DEF Block!Only
  <2> QED BY <2>1, <2>2
<1>6. 0 \in DOMAIN now \cup {o}
  BY <1>1, <1>2 DEF Lies
<1>7. \A p \in DOMAIN now : Ends(now, p) \in DOMAIN now \cup {o}
  <2> TAKE p \in DOMAIN now
  <2>1. Ends(now, p) \in DOMAIN cells
    BY <1>2, <1>3, <1>4 DEF Lies
  <2> QED BY <2>1, <1>1, <1>2, <1>3, <1>4
<1>8. \A p, q \in DOMAIN now : p # q => Ends(now, p) <= q \/ Ends(now, q) <= p
  BY <1>3 DEF Lies
<1> HIDE DEF now
<1>9. DOMAIN now \subseteq Nat /\ o <= Size
  BY <1>1, <1>2, Sizes
<1>10. Lies(now, o)
  BY <1>2, <1>4, <1>5, <1>6, <1>7, <1>8, <1>9 DEF Lies
<1> QED BY <1>10 DEF now

-----------------------------------------------------------------------------
(* The sweep, and a take from a run. *)

Resting == Lies(cell, bounds.end) /\ bounds.top = Size

LEMMA Sweeps == ASSUME Resting PROVE Tiers!Sweepable(Free)
BY LiesIsTiled DEF Resting, Tiers!Sweepable, Free

LEMMA BusyMeans ==
  ASSUME Resting PROVE Block!Busy(Free) = {o \in DOMAIN cell : cell[o].busy}
<1>1. \A o \in DOMAIN cell : o < bounds.end
  BY CellEnds, Sizes DEF Resting, Lies
<1> QED BY <1>1 DEF Block!Busy, Free

LEMMA Swept ==
  ASSUME Resting
  PROVE  /\ Lies(Block!SweptCells(Free), Block!SweptEnd(Free))
         /\ Block!SweptEnd(Free) \in Nat /\ Block!SweptEnd(Free) <= bounds.end
         /\ \A o \in DOMAIN cell : cell[o].busy =>
              o \in DOMAIN Block!SweptCells(Free) /\ Block!SweptCells(Free)[o] = cell[o]
         /\ \A o \in DOMAIN Block!SweptCells(Free) : Block!SweptCells(Free)[o].busy =>
              o \in DOMAIN cell /\ Block!SweptCells(Free)[o] = cell[o]
<1>1. Tiers!Sweepable(Free) /\ bounds.top = Size
  BY Sweeps DEF Resting
<1>2. /\ Lies(Block!SweptCells(Free), Block!SweptEnd(Free))
      /\ Block!SweptEnd(Free) \in Nat /\ Block!SweptEnd(Free) <= bounds.end
  BY <1>1, Tiers!TiledSwept, Tiers!SweptEndMeans, Met, SameSweep, LiesIsTiled
<1>3. \A o \in Block!Busy(Free) :
        o \in DOMAIN Block!SweptCells(Free) /\ Block!SweptCells(Free)[o] = cell[o]
  BY <1>1, Tiers!SweptWords, Met, SameSweep
<1>4. \A o \in DOMAIN Block!SweptCells(Free) :
        \/ o \in Block!Busy(Free)
        \/ o \in DOMAIN cell /\ o >= bounds.end
        \/ \E r \in Block!Runs(Free) : r.at = o
  BY <1>1, Tiers!SweptWords, Met, SameSweep
<1>5. \A r \in Block!Runs(Free) : Block!SweptCells(Free)[r.at] = Block!FreeCell(Block!RunSize(r))
  BY <1>1, Tiers!SweptWords, Met, SameSweep, SameWords
<1>6. \A o \in DOMAIN cell : o < bounds.end
  BY CellEnds, Sizes DEF Resting, Lies
<1>7. \A o \in DOMAIN cell : o \in Nat /\ bounds.end \in Nat
  BY DEF Resting, Lies
<1>8. \A size : ~Block!FreeCell(size).busy
  BY DEF Block!FreeCell
<1>9. ASSUME NEW o \in DOMAIN Block!SweptCells(Free), Block!SweptCells(Free)[o].busy
      PROVE  o \in DOMAIN cell /\ Block!SweptCells(Free)[o] = cell[o]
  <2>1. o \in Block!Busy(Free)
    BY <1>4, <1>5, <1>6, <1>7, <1>8, <1>9
  <2> QED BY <2>1, <1>3, BusyMeans
<1> QED BY <1>2, <1>3, <1>9, BusyMeans

LEMMA RunMeans ==
  ASSUME Resting, NEW run \in Block!Runs(Free)
  PROVE  /\ run.at \in Nat /\ run.to \in Nat /\ run.at < run.to
         /\ Block!RunSize(run) \in Nat \ {0} /\ run.at + Hdr + Block!RunSize(run) = run.to
         /\ run.to \in DOMAIN cell /\ cell[run.to].busy
         /\ run.at \in DOMAIN cell /\ ~cell[run.at].busy
         /\ run.at \in DOMAIN Block!SweptCells(Free)
         /\ Block!SweptCells(Free)[run.at] = Block!FreeCell(Block!RunSize(run))
<1>1. Tiers!Sweepable(Free) /\ run \in Tiers!Runs(Free)
  BY Sweeps, SameSweep
<1>2. /\ run.at \in Nat /\ run.to \in Nat
      /\ run.to \in Block!Busy(Free) /\ run.at \notin Block!Busy(Free) /\ run.at \in DOMAIN cell
      /\ Block!RunSize(run) \in Nat \ {0}
      /\ Tiers!carcer_end_of(run.at, Block!RunSize(run)) = run.to
  BY <1>1, Tiers!RunClear, Met, SameSweep
<1>3. /\ run.at \in DOMAIN Block!SweptCells(Free)
      /\ Block!SweptCells(Free)[run.at] = Block!FreeCell(Block!RunSize(run))
  BY <1>1, Tiers!SweptWords, Met, SameSweep, SameWords
<1>4. \A o \in DOMAIN cell : cell[o].busy <=> o \in Block!Busy(Free)
  BY BusyMeans
<1>5. cell[run.at].busy \in BOOLEAN
  BY <1>2 DEF Resting, Lies, CellWord
<1>6. run.at + Hdr + Block!RunSize(run) = run.to
  BY <1>2, SameWords
<1>7. run.to \in DOMAIN cell
  BY <1>2, BusyMeans
<1> QED BY <1>2, <1>3, <1>4, <1>5, <1>6, <1>7, Sizes

(* The swept tier with a cell for owner in a run, the run split or not.     *)
SplitAt(run, want, owner) ==
  Block!LaidAt(Block!SplitCells(Block!SweptCells(Free), run, want), run.at,
               Block!BusyCell(Block!SplitSize(run, want), owner))

LEMMA LaidWords ==
  ASSUME NEW size \in Nat \ {0}, NEW owner \in Threads \cup {NoOwner}
  PROVE  /\ Block!BusyCell(size, owner) \in CellWord /\ Block!FreeCell(size) \in CellWord
         /\ Block!BusyCell(size, owner).size = size /\ Block!FreeCell(size).size = size
         /\ Block!BusyCell(size, owner).busy /\ ~Block!FreeCell(size).busy
         /\ Block!BusyCell(size, owner).owner = owner
BY DEF Block!BusyCell, Block!FreeCell, CellWord

LEMMA LiesLaysOver ==
  ASSUME NEW cells, NEW end, Lies(cells, end), NEW o \in DOMAIN cells, NEW laid \in CellWord,
         laid.size = cells[o].size
  PROVE  Lies(Block!LaidAt(cells, o, laid), end)
<1> DEFINE now == Block!LaidAt(cells, o, laid)
<1>1. DOMAIN now = DOMAIN cells
  BY DEF Block!LaidAt
<1>2. \A p \in DOMAIN cells : now[p] \in CellWord /\ now[p].size = cells[p].size
  BY DEF Block!LaidAt, Lies
<1>3. now = [p \in DOMAIN now |-> now[p]]
  BY DEF Block!LaidAt
<1> HIDE DEF now
<1>4. Lies(now, end)
  BY <1>1, <1>2, <1>3, LiesKeeps
<1> QED BY <1>4 DEF now

LEMMA RunTaken ==
  ASSUME Resting, NEW run \in Block!Runs(Free), NEW want \in Nat \ {0},
         Block!RunSize(run) >= want, NEW owner \in Threads \cup {NoOwner}
  PROVE  /\ Lies(SplitAt(run, want, owner), Block!SweptEnd(Free))
         /\ Block!SplitSize(run, want) \in Nat \ {0} /\ Block!SplitSize(run, want) >= want
         /\ Block!SplitSize(run, want) <= Block!RunSize(run)
         /\ run.at \in DOMAIN SplitAt(run, want, owner)
         /\ SplitAt(run, want, owner)[run.at] = Block!BusyCell(Block!SplitSize(run, want), owner)
         /\ \A o \in DOMAIN cell : cell[o].busy =>
              /\ o # run.at /\ o \in DOMAIN SplitAt(run, want, owner)
              /\ SplitAt(run, want, owner)[o] = cell[o]
<1> DEFINE swept == Block!SweptCells(Free)
           end == Block!SweptEnd(Free)
           rest == Block!RunSize(run) - want - Hdr
           cut == Block!carcer_end_of(run.at, want)
           now == SplitAt(run, want, owner)
<1>1. /\ Lies(swept, end) /\ run.at \in DOMAIN swept
      /\ swept[run.at] = Block!FreeCell(Block!RunSize(run))
      /\ Block!RunSize(run) \in Nat \ {0} /\ run.at \in Nat
      /\ run.at \in DOMAIN cell /\ ~cell[run.at].busy
  BY RunMeans, Swept
<1>2. \A o \in DOMAIN cell : cell[o].busy => o \in DOMAIN swept /\ swept[o] = cell[o] /\ o # run.at
  BY <1>1, Swept
<1>3. swept[run.at].size = Block!RunSize(run)
  BY <1>1 DEF Block!FreeCell
<1>4. CASE Block!Splits(run, want)
  <2>1. Block!SplitSize(run, want) = want /\ rest \in Nat \ {0} /\ want + Hdr + rest = Block!RunSize(run)
    BY <1>1, <1>4, Sizes DEF Block!SplitSize, Block!Splits
  <2> DEFINE part == Block!LaidAt(swept, cut, Block!FreeCell(rest))
  <2>2. now = Block!LaidAt(part, run.at, Block!BusyCell(want, owner))
    BY <1>4, <2>1 DEF SplitAt, Block!SplitCells
  <2> HIDE DEF rest
  <2>3. /\ Block!BusyCell(want, owner) \in Tiers!CellWords /\ Block!FreeCell(rest) \in Tiers!CellWords
        /\ Block!BusyCell(want, owner).size + Hdr + Block!FreeCell(rest).size = swept[run.at].size
    BY <2>1, <1>3, LaidWords DEF Tiers!CellWords, CellWord
  <2>4. /\ Tiers!carcer_end_of(run.at, Block!BusyCell(want, owner).size) \notin DOMAIN swept
        /\ Tiers!Tiled(Tiers!LaidAt(Tiers!LaidAt(swept,
                         Tiers!carcer_end_of(run.at, Block!BusyCell(want, owner).size),
                         Block!FreeCell(rest)), run.at, Block!BusyCell(want, owner)), end, Size)
    <3>1. Tiers!Tiled(swept, end, Size)
      BY <1>1, LiesIsTiled
    <3> HIDE DEF swept, end
    <3> QED BY <3>1, <2>3, <1>1, Tiers!TiledSplits, Met
  <2>5. Tiers!carcer_end_of(run.at, Block!BusyCell(want, owner).size) = cut
    BY SameWords, LaidWords
  <2>6. Lies(now, end) /\ cut \notin DOMAIN swept
    BY <2>2, <2>4, <2>5, LiesIsTiled, SameWords
  <2> HIDE DEF cut, swept, end, now
  <2>7. /\ DOMAIN part = DOMAIN swept \cup {cut}
        /\ \A o \in DOMAIN swept : part[o] = swept[o]
    BY <2>6 DEF Block!LaidAt
  <2> HIDE DEF part
  <2>8. /\ DOMAIN now = DOMAIN swept \cup {cut, run.at} /\ now[run.at] = Block!BusyCell(want, owner)
        /\ \A o \in DOMAIN swept : o # run.at => now[o] = swept[o]
    BY <2>2, <2>7 DEF Block!LaidAt
  <2>9. \A o \in DOMAIN cell : cell[o].busy => o # run.at /\ o \in DOMAIN now /\ now[o] = cell[o]
    BY <2>8, <1>2
  <2>10. want <= Block!RunSize(run)
    OBVIOUS
  <2> QED BY <2>1, <2>6, <2>8, <2>9, <2>10 DEF now, end
<1>5. CASE ~Block!Splits(run, want)
  <2>1. Block!SplitSize(run, want) = Block!RunSize(run)
    BY <1>5 DEF Block!SplitSize
  <2> DEFINE laid == Block!BusyCell(Block!RunSize(run), owner)
  <2>2. now = Block!LaidAt(swept, run.at, laid)
    BY <1>5, <2>1 DEF SplitAt, Block!SplitCells
  <2>3. laid \in CellWord /\ laid.size = swept[run.at].size
    BY <1>1, <1>3, LaidWords
  <2> HIDE DEF swept, end, now, laid
  <2>4. Lies(now, end)
    BY <1>1, <2>2, <2>3, LiesLaysOver
  <2>5. /\ DOMAIN now = DOMAIN swept /\ now[run.at] = laid
        /\ \A o \in DOMAIN swept : o # run.at => now[o] = swept[o]
    BY <1>1, <2>2 DEF Block!LaidAt
  <2>6. \A o \in DOMAIN cell : cell[o].busy => o # run.at /\ o \in DOMAIN now /\ now[o] = cell[o]
    BY <2>5, <1>2
  <2>7. Block!RunSize(run) <= Block!RunSize(run) /\ Block!RunSize(run) >= want
    BY <1>1
  <2> QED BY <1>1, <2>1, <2>4, <2>5, <2>6, <2>7 DEF now, end, laid
<1> QED BY <1>4, <1>5

(* The first run that holds a take, and the first below a cell.             *)
LEMMA FirstHolding ==
  ASSUME Resting, NEW want, Block!Holding(Free, want) # {}
  PROVE  /\ Block!FirstRun(Free, want) \in Block!Runs(Free)
         /\ Block!RunSize(Block!FirstRun(Free, want)) >= want
<1>1. Tiers!Sweepable(Free) /\ Tiers!Holding(Free, want) # {}
  BY Sweeps, SameSweep
<1> QED BY <1>1, Tiers!FirstRunMeans, Met, SameSweep

FirstBelow(off, size) ==
  CHOOSE r \in RunsBelow(off, size) : \A q \in RunsBelow(off, size) : r.at <= q.at

LEMMA FirstBelowMeans ==
  ASSUME Resting, NEW off, NEW size, RunsBelow(off, size) # {}
  PROVE  /\ FirstBelow(off, size) \in Block!Runs(Free)
         /\ Block!RunSize(FirstBelow(off, size)) >= size
         /\ FirstBelow(off, size).to <= off
<1> DEFINE starts == {r.at : r \in RunsBelow(off, size)}
<1>1. RunsBelow(off, size) \subseteq Block!Runs(Free)
  BY DEF RunsBelow, Block!Holding
<1>2. starts \subseteq Nat /\ starts # {}
  BY <1>1, RunMeans
<1>3. PICK a \in starts : \A b \in starts : a <= b
  BY <1>2, Tiers!LeastExists, Met
<1>4. PICK r \in RunsBelow(off, size) : r.at = a
  BY <1>3
<1>5. \A q \in RunsBelow(off, size) : r.at <= q.at
  BY <1>3, <1>4
<1>6. FirstBelow(off, size) \in RunsBelow(off, size)
  BY <1>4, <1>5 DEF FirstBelow
<1> QED BY <1>6 DEF RunsBelow, Block!Holding

(* The tier after a move: the cell's words in the run, the cell left behind *)
(* free, and dropped where it was the last.                                 *)
MovedCells(off, run) ==
  Block!Only(Block!LaidAt(SplitAt(run, cell[off].size, cell[off].owner), off,
                          Block!FreeCell(cell[off].size)),
             0 .. EndMoved(off) - 1)

LEMMA MovedLies ==
  ASSUME Resting, NEW off \in DOMAIN cell, cell[off].busy, NEW run \in Block!Runs(Free),
         run.to <= off, Block!RunSize(run) >= cell[off].size
  PROVE  /\ Lies(MovedCells(off, run), EndMoved(off))
         /\ run.at < off /\ run.at + Hdr + Block!SplitSize(run, cell[off].size) <= off
         /\ run.at \in DOMAIN MovedCells(off, run)
         /\ MovedCells(off, run)[run.at]
              = Block!BusyCell(Block!SplitSize(run, cell[off].size), cell[off].owner)
         /\ \A o \in DOMAIN cell : cell[o].busy /\ o # off =>
              /\ o # run.at /\ o \in DOMAIN MovedCells(off, run)
              /\ MovedCells(off, run)[o] = cell[o]
<1> DEFINE size == cell[off].size
           owner == cell[off].owner
           end == Block!SweptEnd(Free)
           part == SplitAt(run, size, owner)
           laid == Block!LaidAt(part, off, Block!FreeCell(size))
           now == MovedCells(off, run)
<1>1. off \in Nat /\ size \in Nat \ {0} /\ owner \in Threads \cup {NoOwner}
      /\ Ends(cell, off) = off + Hdr + size
  BY CellEnds DEF Resting, Lies, CellWord
<1>2. /\ run.at \in Nat /\ run.to \in Nat /\ run.at < run.to
      /\ Block!RunSize(run) \in Nat /\ run.at + Hdr + Block!RunSize(run) = run.to
  BY RunMeans
<1> HIDE DEF size, owner
<1>3. /\ Lies(part, end)
      /\ Block!SplitSize(run, size) \in Nat \ {0}
      /\ Block!SplitSize(run, size) <= Block!RunSize(run)
      /\ run.at \in DOMAIN part
      /\ part[run.at] = Block!BusyCell(Block!SplitSize(run, size), owner)
      /\ \A o \in DOMAIN cell : cell[o].busy => o # run.at /\ o \in DOMAIN part /\ part[o] = cell[o]
  BY <1>1, RunTaken DEF size
<1>4. run.at < off /\ run.at + Hdr + Block!SplitSize(run, size) <= off
  BY <1>1, <1>2, <1>3, Sizes
<1>5. off \in DOMAIN part /\ part[off].size = size
  BY <1>3 DEF size
<1> HIDE DEF part, end
<1>6. Lies(laid, end)
  BY <1>1, <1>3, <1>5, LaidWords, LiesLaysOver
<1>7. /\ DOMAIN laid = DOMAIN part
      /\ \A o \in DOMAIN part : o # off => laid[o] = part[o]
      /\ laid[off].size = size
  BY <1>5 DEF Block!LaidAt, Block!FreeCell
<1>8. now = Block!Only(laid, 0 .. EndMoved(off) - 1)
  BY DEF MovedCells, part, size, owner
<1> HIDE DEF laid, now
<1>9. Ends(laid, off) = Ends(cell, off) /\ Block!EndOf(off) = Ends(cell, off)
  BY <1>7, SameWords DEF Ends, size
<1>10. \A o \in DOMAIN laid : /\ o \in Nat /\ o < Ends(laid, o) /\ Ends(laid, o) \in Nat
                             /\ Ends(laid, o) <= end /\ end \in Nat
  BY <1>6, CellEnds, Sizes DEF Lies
<1>11. /\ Lies(now, EndMoved(off))
       /\ \A o \in DOMAIN laid : o # off => o \in 0 .. EndMoved(off) - 1
  <2>1. CASE Block!EndOf(off) = Block!SweptEnd(Free)
    <3>1. EndMoved(off) = off
      BY <2>1 DEF EndMoved
    <3>2. Ends(laid, off) = end /\ off \in DOMAIN laid
      BY <1>5, <1>7, <1>9, <2>1 DEF end
    <3>3. Lies(now, off)
      BY <3>1, <3>2, <1>6, <1>8, LiesTrims
    <3>4. \A o \in DOMAIN laid : o # off => Ends(laid, o) <= off \/ Ends(laid, off) <= o
      BY <3>2, <1>6 DEF Lies
    <3>5. \A o \in DOMAIN laid : o # off => o < off
      BY <3>2, <3>4, <1>1, <1>10
    <3> QED BY <3>1, <3>3, <3>5, <1>1, <1>10
  <2>2. CASE Block!EndOf(off) # Block!SweptEnd(Free)
    <3>1. EndMoved(off) = end
      BY <2>2 DEF EndMoved, end
    <3>2. \A o \in DOMAIN laid : o \in 0 .. end - 1
      BY <1>10
    <3>3. now = [o \in DOMAIN laid |-> laid[o]]
      BY <1>8, <3>1, <3>2 DEF Block!Only
    <3>4. now = laid
      BY <3>3, <1>6 DEF Lies
    <3> QED BY <3>1, <3>2, <3>4, <1>6
  <2> QED BY <2>1, <2>2
<1>12. \A o \in DOMAIN laid : o # off => o \in DOMAIN now /\ now[o] = laid[o]
  BY <1>8, <1>11 DEF Block!Only
<1>13. /\ run.at \in DOMAIN now
       /\ now[run.at] = Block!BusyCell(Block!SplitSize(run, size), owner)
  <2>1. run.at # off
    BY <1>1, <1>2, <1>4
  <2> QED BY <2>1, <1>3, <1>7, <1>12
<1>14. \A o \in DOMAIN cell : cell[o].busy /\ o # off =>
         o # run.at /\ o \in DOMAIN now /\ now[o] = cell[o]
  BY <1>3, <1>7, <1>12
<1> QED BY <1>4, <1>11, <1>13, <1>14 DEF now, size, owner

-----------------------------------------------------------------------------
(* The inductive invariant. *)

Closing == {"drain", "seek", "move"}
Passing == {"copy", "clear", "unclaim", "lower"}
Kinds == {"none", "take", "trim", "move", "read", "write", "release"}

(* The addresses a pass has read, by slot. *)
Addresses == UNION {[S -> Nat] : S \in SUBSET Slots}

Calls == [kind : Kinds, want : Nat, off : Nat, slot : Slots \cup {0}, from : Words, word : Words,
          lost : Nat, at : Addresses, edge : BOOLEAN, below : Nat, refused : Nat]

Types ==
  /\ bounds \in Word /\ bounds.top = Size
  /\ closed \in BOOLEAN /\ still \in BOOLEAN
  /\ byte \in [0 .. Size - 1 -> Slots \cup {0}]
  /\ slot \in [Slots -> Nat] /\ asked \in [Slots -> Nat]
  /\ claimed \subseteq Bits /\ lowest \in Words /\ named \in 0 .. SlotCount
  /\ pc \in [Threads -> Steps] /\ op \in [Threads -> Calls]
  /\ held \in [Threads -> SUBSET Slots]
  /\ wrote \subseteq UNION {held[t] : t \in Threads}

(* The closed bit has one holder, and a mover works with nobody inside. *)
Control ==
  /\ \A t \in Threads : pc[t] \in Closing => closed
  /\ \A t, u \in Threads : pc[t] \in Closing /\ pc[u] \in Closing => t = u
  /\ inside = {t \in Threads : pc[t] \in Passing}
  /\ \A t \in Threads : pc[t] \in {"seek", "move"} => inside = {}

(* Which locals go with which step of which call. *)
Called(t) ==
  /\ op[t].kind = "take" => op[t].want > 0
  /\ pc[t] \in {"clear", "unclaim"} => op[t].kind = "release"
  /\ pc[t] \in {"put", "raise", "clear", "unclaim", "lower", "move"} => op[t].slot # 0
  /\ pc[t] \in {"shut", "drain", "trim", "search", "bit", "back"} => op[t].slot = 0
  /\ pc[t] \in {"shut", "drain", "trim"} /\ op[t].kind = "move" =>
       op[t].below = Size /\ op[t].refused = Size
  /\ pc[t] \in {"put", "low", "raise", "clear", "unclaim"} => op[t].slot \notin held[t]
  /\ pc[t] # "copy" => DOMAIN op[t].at = {}
  /\ pc[t] = "copy" =>
       /\ DOMAIN op[t].at \subseteq held[t]
       /\ \A s \in DOMAIN op[t].at : op[t].at[s] = slot[s]
       /\ op[t].kind = "write" => \E s \in held[t] : DOMAIN op[t].at = {s}

(* A take that has its cell and no slot that names it yet. *)
Unnamed(t) ==
  \/ pc[t] \in {"search", "bit", "or", "put", "back"}
  \/ pc[t] = "low" /\ op[t].slot = 0

HoldsIn(cells, t, off, bytes) ==
  off \in DOMAIN cells /\ cells[off].busy /\ cells[off].owner = t /\ cells[off].size >= bytes

HoldsAt(t, off, bytes) == HoldsIn(cell, t, off, bytes)

(* The cells a thread has, named and not. *)
Celled(t) ==
  /\ \A s \in Naming(t) : slot[s] # 0 /\ HoldsAt(t, CellOf(s), asked[s])
  /\ Unnamed(t) =>
       /\ HoldsAt(t, op[t].off, op[t].want)
       /\ \A s \in Naming(t) : CellOf(s) # op[t].off
  /\ pc[t] \in {"put", "unclaim"} => slot[op[t].slot] = 0
  /\ pc[t] = "clear" =>
       /\ slot[op[t].slot] # 0
       /\ CellOf(op[t].slot) \in DOMAIN cell /\ ~cell[CellOf(op[t].slot)].busy

(* A slot that names a cell is somebody's, and no two name one. *)
NamesApart ==
  /\ \A s \in Slots : slot[s] # 0 => \E t \in Threads : s \in Having(t)
  /\ \A s, r \in Slots : s # r /\ slot[s] # 0 => slot[s] # slot[r]

(* The runs of a tier that close below a place and hold so many bytes, read *)
(* off its cells.                                                           *)
BusyIn(cells) == {o \in DOMAIN cells : cells[o].busy}

RunsUnder(cells, off, size) ==
  {r \in [at : {0} \cup {Ends(cells, o) : o \in BusyIn(cells)}, to : BusyIn(cells)] :
     /\ r.at < r.to /\ r.to <= off /\ r.to - r.at - Hdr >= size
     /\ \A o \in BusyIn(cells) : o < r.at \/ r.to <= o}

(* Cells the mover has passed over hold none of the runs below them. *)
Passed(t) ==
  /\ pc[t] = "move" => slot[op[t].slot] # 0
  /\ still /\ pc[t] \in {"seek", "move"} =>
       \A s \in 1 .. named :
         slot[s] # 0 /\ (slot[s] >= op[t].below \/ cell[CellOf(s)].size >= op[t].refused)
           => RunsUnder(cell, CellOf(s), cell[CellOf(s)].size) = {}
  /\ still /\ pc[t] = "move" =>
       /\ op[t].slot \in Movable(op[t].below, op[t].refused)
       /\ \A r \in Movable(op[t].below, op[t].refused) : slot[r] <= slot[op[t].slot]

MobilisInv ==
  /\ Types /\ Control /\ Lies(cell, bounds.end) /\ NamesApart
  /\ SlotsExclusive /\ ContentKept
  /\ \A t \in Threads : Called(t) /\ Celled(t) /\ Passed(t)

-----------------------------------------------------------------------------
(* What a thread's step leaves alone of the others, and the types.          *)

Others(t) ==
  \A u \in Threads : u # t => pc'[u] = pc[u] /\ op'[u] = op[u] /\ held'[u] = held[u]

Acts(t) == Alloc(t) \/ Read(t) \/ Write(t) \/ Release(t) \/ Move(t) \/ Step(t)

Locals ==
  pc \in [Threads -> Steps] /\ op \in [Threads -> Calls] /\ held \in [Threads -> SUBSET Slots]

LEMMA NoCall == NoOp \in Calls
<1>1. NoOp.at \in [{} -> Nat]
  BY DEF NoOp
<1>2. NoOp.at \in Addresses
  BY <1>1 DEF Addresses
<1> QED BY <1>2, ClaimWords DEF NoOp, Calls, Kinds

LEMMA Wants == \A n \in Nat : carcer_want(n) \in Nat \ {0}
<1> TAKE n \in Nat
<1>1. Tiers!carcer_want(n) \in Nat /\ Tiers!carcer_want(n) >= Align
  BY Tiers!WantRounds, Met
<1>2. Tiers!carcer_want(n) = carcer_want(n)
  BY DEF Tiers!carcer_want, carcer_want
<1> QED BY <1>1, <1>2, Sizes

(* A call with one of its locals changed. *)
LEMMA CallChanges ==
  ASSUME NEW x \in Calls
  PROVE  /\ \A k \in Kinds : [x EXCEPT !.kind = k] \in Calls
         /\ \A n \in Nat : /\ [x EXCEPT !.want = n] \in Calls /\ [x EXCEPT !.off = n] \in Calls
                           /\ [x EXCEPT !.lost = n] \in Calls
                           /\ [x EXCEPT !.below = n] \in Calls /\ [x EXCEPT !.refused = n] \in Calls
         /\ \A s \in Slots \cup {0} : [x EXCEPT !.slot = s] \in Calls
         /\ \A w \in Words : [x EXCEPT !.from = w] \in Calls /\ [x EXCEPT !.word = w] \in Calls
         /\ \A a \in Addresses : [x EXCEPT !.at = a] \in Calls
         /\ \A b \in BOOLEAN : [x EXCEPT !.edge = b] \in Calls
BY DEF Calls

(* What the claim's reads and the mover's choice answer.                    *)
LEMMA NearestWord ==
  ASSUME NEW open \in SUBSET Words, open # {}, NEW from \in Words
  PROVE  \E w \in open : \A v \in open : Reached(from, w) <= Reached(from, v)
<1> DEFINE steps == {Reached(from, w) : w \in open}
<1>1. \A w \in open : Reached(from, w) \in Nat
  <2> TAKE w \in open
  <2>1. w - from \in Int /\ Cardinality(Words) \in Nat \ {0}
    BY ClaimWords
  <2> QED BY <2>1 DEF Reached
<1>2. steps \subseteq Nat /\ steps # {}
  BY <1>1
<1>3. PICK n \in steps : \A m \in steps : n <= m
  BY <1>2, Tiers!LeastExists, Met
<1> QED BY <1>3

LEMMA LowestFree ==
  ASSUME MobilisInv, NEW word
  PROVE  /\ FreeBits(word) # {} => Min(FreeBits(word)) \in FreeBits(word)
         /\ FreeBits(word) \subseteq Slots \ claimed
         /\ (IF FreeBits(word) = {} THEN 0 ELSE Min(FreeBits(word))) \in Slots \cup {0}
<1>1. FreeBits(word) \subseteq Slots \ claimed
  BY DEF FreeBits, MobilisInv, SlotsExclusive, Spare
<1>2. ASSUME FreeBits(word) # {} PROVE Min(FreeBits(word)) \in FreeBits(word)
  <2>1. FreeBits(word) \subseteq Nat
    BY ClaimWords DEF FreeBits
  <2>2. \E x \in FreeBits(word) : \A y \in FreeBits(word) : x <= y
    BY <1>2, <2>1, Tiers!LeastExists, Met
  <2> QED BY <2>2 DEF Min
<1> QED BY <1>1, <1>2

LEMMA HighestMovable ==
  ASSUME Types, NEW below \in Nat, NEW refused, Movable(below, refused) # {}
  PROVE  /\ (CHOOSE s \in Movable(below, refused) :
                \A r \in Movable(below, refused) : slot[r] <= slot[s]) \in Movable(below, refused)
         /\ \A r \in Movable(below, refused) :
              slot[r] <= slot[CHOOSE s \in Movable(below, refused) :
                                \A q \in Movable(below, refused) : slot[q] <= slot[s]]
<1> DEFINE places == {slot[s] : s \in Movable(below, refused)}
<1>1. \A s \in Movable(below, refused) : slot[s] \in Nat /\ slot[s] < below
  BY Sizes DEF Movable, Types, Slots
<1>2. places \subseteq Nat /\ places # {} /\ \A p \in places : p <= below
  BY <1>1
<1>3. PICK p \in places : \A q \in places : q <= p
  BY <1>2, Tiers!GreatestExists, Met
<1>4. PICK s \in Movable(below, refused) : slot[s] = p
  BY <1>3
<1>5. \A r \in Movable(below, refused) : slot[r] <= slot[s]
  BY <1>3, <1>4
<1> QED BY <1>5

(* With nobody inside a slot that names a cell names its holder's.          *)
LEMMA NamedHeld ==
  ASSUME MobilisInv, NEW s \in Slots, slot[s] # 0, inside = {}
  PROVE  \E u \in Threads : s \in Naming(u) /\ HoldsAt(u, CellOf(s), asked[s])
<1>1. PICK u \in Threads : s \in Having(u)
  BY DEF MobilisInv, NamesApart
<1>2. pc[u] # "clear"
  BY DEF MobilisInv, Control, Passing
<1>3. s \in Naming(u)
  BY <1>1, <1>2 DEF Naming, MobilisInv, Celled
<1> QED BY <1>3 DEF MobilisInv, Celled

LEMMA MoverNames ==
  ASSUME MobilisInv, NEW t \in Threads, pc[t] = "move"
  PROVE  /\ op[t].slot \in Slots /\ slot[op[t].slot] \in Nat \ {0}
         /\ CellOf(op[t].slot) \in DOMAIN cell /\ cell[CellOf(op[t].slot)].busy
         /\ cell[CellOf(op[t].slot)].size \in Nat \ {0}
         /\ inside = {} /\ closed
<1>1. inside = {} /\ closed
  BY DEF MobilisInv, Control, Closing
<1>2. op[t].slot \in Slots /\ slot[op[t].slot] \in Nat \ {0}
  BY DEF MobilisInv, Types, Calls, Called, Passed
<1>3. CellOf(op[t].slot) \in DOMAIN cell /\ cell[CellOf(op[t].slot)].busy
  BY <1>1, <1>2, NamedHeld DEF HoldsAt, HoldsIn
<1> QED BY <1>1, <1>2, <1>3, CellEnds DEF MobilisInv, Lies

LEMMA LocalsStep ==
  ASSUME MobilisInv, NEW t \in Threads, Acts(t)
  PROVE  Others(t) /\ Locals'
<1> USE DEF MobilisInv
<1>1. Resting /\ Locals
  BY DEF Types, Resting, Locals
<1>2. ASSUME NEW to \in Steps, NEW call \in Calls, NEW kept \in SUBSET Slots,
             pc' = [pc EXCEPT ![t] = to], op' = [op EXCEPT ![t] = call],
             held' = [held EXCEPT ![t] = kept]
      PROVE  Others(t) /\ Locals'
  BY <1>1, <1>2 DEF Locals, Others
<1>3. op[t] \in Calls /\ held[t] \in SUBSET Slots
  BY <1>1 DEF Locals
<1>4. op = [op EXCEPT ![t] = op[t]] /\ held = [held EXCEPT ![t] = held[t]]
  BY <1>1 DEF Locals
<1>5. CASE Alloc(t)
  <2>1. PICK request \in Requests :
          \/ /\ pc' = [pc EXCEPT ![t] = "search"] /\ held' = held
             /\ op' = [op EXCEPT ![t] = [NoOp EXCEPT !.kind = "take", !.want = carcer_want(request),
                                                     !.off = bounds.end]]
          \/ /\ pc' = [pc EXCEPT ![t] = "shut"] /\ held' = held
             /\ op' = [op EXCEPT ![t] = [NoOp EXCEPT !.kind = "take", !.want = carcer_want(request)]]
    BY <1>5 DEF Alloc, Call, Goto
  <2>2. carcer_want(request) \in Nat /\ bounds.end \in Nat
    BY Wants, MobilisAssumption DEF Types, Word, Halves
  <2>3. [NoOp EXCEPT !.kind = "take", !.want = carcer_want(request)] \in Calls
    BY <2>2, NoCall, CallChanges DEF Kinds
  <2>4. [NoOp EXCEPT !.kind = "take", !.want = carcer_want(request), !.off = bounds.end] \in Calls
    BY <2>2, <2>3, CallChanges
  <2> QED BY <2>1, <2>3, <2>4, <1>2, <1>3, <1>4 DEF Steps
<1>6. CASE Read(t) \/ Write(t)
  <2>1. PICK kind \in {"read", "write"}, spans \in SUBSET Slots :
          /\ pc' = [pc EXCEPT ![t] = "copy"] /\ held' = held
          /\ op' = [op EXCEPT ![t] = [NoOp EXCEPT !.kind = kind, !.at = [s \in spans |-> slot[s]]]]
    BY <1>3, <1>6 DEF Read, Write, Pass, Call, Goto
  <2>2. [s \in spans |-> slot[s]] \in Addresses
    BY DEF Addresses, Types
  <2>3. [NoOp EXCEPT !.kind = kind, !.at = [s \in spans |-> slot[s]]] \in Calls
    BY <2>2, NoCall, CallChanges DEF Kinds
  <2> QED BY <2>1, <2>3, <1>2, <1>3, <1>4 DEF Steps
<1>7. CASE Release(t)
  <2>1. PICK s \in held[t], e \in BOOLEAN :
          /\ pc' = [pc EXCEPT ![t] = "clear"] /\ held' = [held EXCEPT ![t] = @ \ {s}]
          /\ op' = [op EXCEPT ![t] = [NoOp EXCEPT !.kind = "release", !.slot = s, !.from = lowest,
                                                  !.edge = e]]
    BY <1>7 DEF Release, Call, Goto, Standing
  <2>2. s \in Slots /\ lowest \in Words
    BY <1>3 DEF Types
  <2>3. [NoOp EXCEPT !.kind = "release", !.slot = s, !.from = lowest, !.edge = e] \in Calls
    BY <2>2, NoCall, CallChanges DEF Kinds
  <2>4. held' = [held EXCEPT ![t] = held[t] \ {s}] /\ held[t] \ {s} \in SUBSET Slots
    BY <2>1, <1>1 DEF Locals
  <2> DEFINE call == [NoOp EXCEPT !.kind = "release", !.slot = s, !.from = lowest, !.edge = e]
  <2>5. op' = [op EXCEPT ![t] = call] /\ pc' = [pc EXCEPT ![t] = "clear"] /\ call \in Calls
    BY <2>1, <2>3
  <2>6. "clear" \in Steps
    BY DEF Steps
  <2> HIDE DEF call
  <2> QED BY <2>4, <2>5, <2>6, <1>2
<1>8. CASE Move(t)
  <2>1. /\ pc' = [pc EXCEPT ![t] = "shut"] /\ held' = held
        /\ op' = [op EXCEPT ![t] = [NoOp EXCEPT !.kind = "move", !.below = Size, !.refused = Size]]
    BY <1>8 DEF Move, Call, Goto
  <2>2. [NoOp EXCEPT !.kind = "move", !.below = Size, !.refused = Size] \in Calls
    BY NoCall, Sizes, CallChanges DEF Kinds
  <2> QED BY <2>1, <2>2, <1>2, <1>3, <1>4 DEF Steps
<1>9. CASE Shut(t) \/ Put(t) \/ SlotCleared(t) \/ BitCleared(t) \/ MoveBegin(t)
  <2>1. \E to \in Steps : pc' = [pc EXCEPT ![t] = to] /\ op' = op /\ held' = held
    BY <1>9 DEF Shut, Put, SlotCleared, BitCleared, MoveBegin, Goto, Steps
  <2> QED BY <2>1, <1>2, <1>3, <1>4
<1>10. CASE \/ \E from \in Steps : Return(t, from) /\ UNCHANGED held
            \/ \E from \in Steps : Goto(t, from, "trim") /\ UNCHANGED held
                                   /\ op' = [op EXCEPT ![t] = [NoOp EXCEPT !.kind = "trim"]]
  <2>1. [NoOp EXCEPT !.kind = "trim"] \in Calls
    BY NoCall, CallChanges DEF Kinds
  <2> QED BY <2>1, <1>2, <1>3, <1>4, <1>10, NoCall DEF Return, Goto, Steps
<1>11. CASE GiveBack(t) \/ Copied(t) \/ Lowered(t) \/ TrimSkipped(t) \/ Trimmed(t) \/ Moved(t)
  BY <1>10, <1>11 DEF GiveBack, Copied, Lowered, TrimSkipped, Trimmed, Moved, Steps
<1>12. CASE SpillRun(t) \/ SpillGap(t)
  <2>1. CASE \E n \in Nat : /\ pc' = [pc EXCEPT ![t] = "search"] /\ held' = held
                            /\ op' = [op EXCEPT ![t].off = n]
    <3>1. PICK n \in Nat : op' = [op EXCEPT ![t].off = n]
      BY <2>1
    <3> DEFINE call == [op[t] EXCEPT !.off = n]
    <3>2. call \in Calls
      BY <1>3, CallChanges
    <3>3. op' = [op EXCEPT ![t] = call]
      BY <3>1, <1>1 DEF Locals
    <3>4. "search" \in Steps
      BY DEF Steps
    <3> HIDE DEF call
    <3> QED BY <2>1, <3>2, <3>3, <3>4, <1>2, <1>3, <1>4
  <2>2. CASE SpillRun(t)
    <3>1. Block!FirstRun(Free, op[t].want).at \in Nat
      BY <2>2, <1>1, FirstHolding, RunMeans DEF SpillRun
    <3> QED BY <3>1, <2>1, <2>2 DEF SpillRun, Laid
  <2>3. CASE SpillGap(t)
    <3>1. Block!SweptEnd(Free) \in Nat
      BY <1>1, Swept
    <3> QED BY <3>1, <2>1, <2>3, <1>10 DEF SpillGap, Laid, Goto, Steps
  <2> QED BY <1>12, <2>2, <2>3
<1>13. CASE Search(t)
  <2> DEFINE open == {w \in Words : FreeBits(w) # {}}
             place == IF open = {} THEN 0
                      ELSE CHOOSE w \in open : \A v \in open : Reached(lowest, w) <= Reached(lowest, v)
  <2>1. /\ pc' = [pc EXCEPT ![t] = "bit"] /\ held' = held
        /\ op' = [op EXCEPT ![t].from = lowest, ![t].word = place]
    BY <1>13 DEF Search, Goto
  <2>2. place \in Words /\ lowest \in Words
    <3>1. lowest \in Words /\ open \subseteq Words
      BY DEF Types
    <3>2. CASE open # {}
      <4>1. \E w \in open : \A v \in open : Reached(lowest, w) <= Reached(lowest, v)
        BY <3>1, <3>2, NearestWord
      <4> QED BY <4>1, <3>1, <3>2
    <3> QED BY <3>1, <3>2, ClaimWords
  <2> HIDE DEF place
  <2> DEFINE call == [[op[t] EXCEPT !.from = lowest] EXCEPT !.word = place]
  <2>3. call \in Calls
    BY <2>2, <1>3, CallChanges
  <2>4. op' = [op EXCEPT ![t] = call]
    BY <2>1, <1>1 DEF Locals
  <2> HIDE DEF call
  <2> QED BY <2>1, <2>3, <2>4, <1>2, <1>3, <1>4 DEF Steps
<1>14. CASE LowestBit(t)
  <2> DEFINE open == FreeBits(op[t].word)
             bit == IF open = {} THEN 0 ELSE Min(open)
  <2>1. pc' = [pc EXCEPT ![t] = "or"] /\ held' = held /\ op' = [op EXCEPT ![t].slot = bit]
    BY <1>14 DEF LowestBit, Goto
  <2>2. bit \in Slots \cup {0}
    BY LowestFree
  <2> HIDE DEF bit
  <2>3. [op[t] EXCEPT !.slot = bit] \in Calls
    BY <2>2, <1>3, CallChanges
  <2> QED BY <2>1, <2>3, <1>2, <1>3, <1>4 DEF Steps
<1>15. CASE FetchOr(t)
  <2>1. CASE pc' = [pc EXCEPT ![t] = "put"] /\ op' = op /\ held' = held
    BY <2>1, <1>2, <1>3, <1>4 DEF Steps
  <2>2. CASE /\ pc' = [pc EXCEPT ![t] = "low"] /\ held' = held
             /\ op' = [op EXCEPT ![t].slot = 0, ![t].lost = @ + 1]
    <3> DEFINE call == [[op[t] EXCEPT !.slot = 0] EXCEPT !.lost = op[t].lost + 1]
    <3>1. op[t].lost + 1 \in Nat
      BY <1>3 DEF Calls
    <3>2. call \in Calls
      BY <3>1, <1>3, CallChanges
    <3>3. op' = [op EXCEPT ![t] = call]
      BY <2>2, <1>1 DEF Locals, Calls
    <3> HIDE DEF call
    <3> QED BY <2>2, <3>2, <3>3, <1>2, <1>3, <1>4 DEF Steps
  <2> QED BY <1>15, <2>1, <2>2 DEF FetchOr, Goto
<1>16. CASE StoreLow(t)
  <2> DEFINE call == [[op[t] EXCEPT !.from = 0] EXCEPT !.word = 0]
  <2>1. PICK to \in {"raise", "search", "back"} : pc' = [pc EXCEPT ![t] = to]
    BY <1>16 DEF StoreLow, Goto
  <2>2. call \in Calls
    BY <1>3, CallChanges, ClaimWords
  <2>3. op' = [op EXCEPT ![t] = call] /\ held' = held
    BY <1>16, <1>1 DEF StoreLow, Locals
  <2> HIDE DEF call
  <2> QED BY <2>1, <2>2, <2>3, <1>2, <1>3, <1>4 DEF Steps
<1>17. CASE Raise(t)
  <2>1. /\ pc' = [pc EXCEPT ![t] = "idle"] /\ op' = [op EXCEPT ![t] = NoOp]
        /\ held' = [held EXCEPT ![t] = held[t] \cup {op[t].slot}]
    BY <1>17, <1>1 DEF Raise, Return, Goto, Locals
  <2>2. pc[t] = "raise"
    BY <1>17 DEF Raise, Return, Goto
  <2>3. op[t].slot # 0
    BY <2>2 DEF Called
  <2>4. op[t].slot \in Slots
    BY <2>3, <1>3 DEF Calls
  <2>5. held[t] \cup {op[t].slot} \in SUBSET Slots /\ "idle" \in Steps
    BY <2>4, <1>3 DEF Steps
  <2> QED BY <2>1, <2>5, <1>2, NoCall
<1>18. CASE Seek(t)
  <2> DEFINE movable == Movable(op[t].below, op[t].refused)
             high == CHOOSE s \in movable : \A r \in movable : slot[r] <= slot[s]
  <2>1. CASE movable = {}
    BY <1>18, <2>1, <1>10 DEF Seek, Steps
  <2>2. CASE movable # {}
    <3>1. pc' = [pc EXCEPT ![t] = "move"] /\ held' = held /\ op' = [op EXCEPT ![t].slot = high]
      BY <1>18, <2>2 DEF Seek, Goto
    <3>2. high \in movable
      BY <2>2, <1>3, HighestMovable DEF Calls
    <3>3. high \in Slots
      BY <3>2, Sizes DEF Movable, Slots, Types
    <3> HIDE DEF high
    <3>4. [op[t] EXCEPT !.slot = high] \in Calls
      BY <3>3, <1>3, CallChanges
    <3> QED BY <3>1, <3>4, <1>2, <1>3, <1>4 DEF Steps
  <2> QED BY <2>1, <2>2
<1>19. CASE MoveRefused(t)
  <2> DEFINE s == op[t].slot
             call == [[op[t] EXCEPT !.below = slot[s]] EXCEPT !.refused = cell[CellOf(s)].size]
  <2>1. s \in Slots /\ slot[s] \in Nat /\ cell[CellOf(s)].size \in Nat
    BY <1>19, MoverNames DEF MoveRefused, Goto
  <2>2. call \in Calls
    BY <2>1, <1>3, CallChanges
  <2>3. pc' = [pc EXCEPT ![t] = "seek"] /\ op' = [op EXCEPT ![t] = call] /\ held' = held
    BY <1>19, <1>1 DEF MoveRefused, Goto, Locals
  <2> HIDE DEF call
  <2> QED BY <2>2, <2>3, <1>2, <1>3, <1>4 DEF Steps
<1> QED BY <1>5, <1>6, <1>7, <1>8, <1>9, <1>11, <1>12, <1>13, <1>14, <1>15, <1>16, <1>17, <1>18, <1>19
        DEF Acts, Step

(* A bounds word stored from an end inside the cellblock.                   *)
LEMMA StoredBounds ==
  ASSUME NEW end \in Nat, end <= Size
  PROVE  /\ carcer_bounds(end, Size) \in Word
         /\ carcer_bounds(end, Size).end = end /\ carcer_bounds(end, Size).top = Size
<1>1. end % Half = end /\ Size % Half = Size
  BY Tiers!HalfMod, Met, Sizes
<1> QED BY <1>1, Sizes DEF carcer_bounds, Word, Halves

(* The cells a step gives back or leaves behind.                            *)
Lets(t) ==
  (IF pc[t] = "back" THEN {op[t].off} ELSE {})
    \cup {CellOf(s) : s \in held[t] \ held'[t]}
    \cup (IF pc[t] = "move" /\ pc'[t] = "idle" THEN {CellOf(op[t].slot)} ELSE {})

Keeps(t) ==
  /\ bounds' \in Word /\ bounds'.top = Size /\ Lies(cell', bounds'.end)
  /\ \A o \in DOMAIN cell : cell[o].busy /\ o \notin Lets(t) =>
       o \in DOMAIN cell' /\ cell'[o] = cell[o]

LEMMA GivenKeeps ==
  ASSUME Resting, bounds \in Word, NEW t \in Threads, NEW off \in DOMAIN cell, Given(off),
         bounds' = bounds, off \in Lets(t)
  PROVE  /\ Keeps(t) /\ DOMAIN cell' = DOMAIN cell /\ ~cell'[off].busy
         /\ \A o \in DOMAIN cell : o # off => cell'[o] = cell[o]
<1>1. cell' = [cell EXCEPT ![off].busy = FALSE]
  BY DEF Given
<1>2. cell \in [DOMAIN cell -> CellWord]
  BY DEF Resting, Lies
<1>3. DOMAIN cell' = DOMAIN cell /\ \A o \in DOMAIN cell : o # off => cell'[o] = cell[o]
  BY <1>1, <1>2
<1>4. cell'[off] = [cell[off] EXCEPT !.busy = FALSE]
  BY <1>1, <1>2
<1>5. ~cell'[off].busy /\ cell'[off] \in CellWord /\ cell'[off].size = cell[off].size
  BY <1>2, <1>4 DEF CellWord
<1>6. cell' \in [DOMAIN cell' -> CellWord]
  BY <1>1, <1>2, <1>3, <1>5
<1>7. Lies(cell', bounds.end)
  BY <1>3, <1>5, <1>6, LiesKeeps DEF Resting
<1> QED BY <1>3, <1>5, <1>7 DEF Keeps, Resting

LEMMA SweptKeepsCells ==
  ASSUME Resting, NEW t \in Threads, cell' = Block!SweptCells(Free),
         bounds' = carcer_bounds(Block!SweptEnd(Free), bounds.top)
  PROVE  Keeps(t)
<1>1. Block!SweptEnd(Free) \in Nat /\ Block!SweptEnd(Free) <= Size
  BY Swept DEF Resting, Lies
<1> QED BY <1>1, Swept, StoredBounds DEF Keeps, Resting

LEMMA CellsStep ==
  ASSUME MobilisInv, NEW t \in Threads, Acts(t)
  PROVE  Keeps(t)
<1> USE DEF MobilisInv
<1>1. Resting /\ bounds \in Word
  BY DEF Types, Resting
<1>2. ASSUME UNCHANGED <<bounds, cell>> PROVE Keeps(t)
  BY <1>1, <1>2 DEF Keeps, Resting
<1>3. CASE Alloc(t)
  <2>1. PICK request \in Requests :
          \/ UNCHANGED <<bounds, cell>>
          \/ /\ FitsUp(bounds, Hdr + carcer_want(request))
             /\ bounds' = BumpedUp(bounds, Hdr + carcer_want(request))
             /\ cell' = Block!LaidAt(cell, bounds.end, Block!BusyCell(carcer_want(request), t))
    BY <1>3 DEF Alloc, Call, block
  <2> DEFINE want == carcer_want(request)
             laid == Block!BusyCell(want, t)
  <2>2. want \in Nat \ {0}
    BY Wants, MobilisAssumption
  <2> HIDE DEF want
  <2>3. laid \in CellWord /\ laid.size = want
    BY <2>2, LaidWords
  <2> HIDE DEF laid
  <2>4. CASE UNCHANGED <<bounds, cell>>
    BY <2>4, <1>2
  <2>5. CASE /\ FitsUp(bounds, Hdr + want) /\ bounds' = BumpedUp(bounds, Hdr + want)
             /\ cell' = Block!LaidAt(cell, bounds.end, laid)
    <3>1. bounds.end \in Nat /\ bounds.end + Hdr + want <= Size
      BY <2>2, <2>5, <1>1, Sizes DEF FitsUp, Resting, Lies
    <3>2. bounds' \in Word /\ bounds'.top = Size /\ bounds'.end = bounds.end + Hdr + want
      BY <3>1, <2>2, <2>5, <1>1, Sizes DEF BumpedUp, Word, Halves, Resting
    <3>3. /\ bounds.end \notin DOMAIN cell
          /\ Lies(Block!LaidAt(cell, bounds.end, laid), bounds.end + Hdr + laid.size)
      BY <3>1, <2>3, <1>1, LiesLaysUp DEF Resting
    <3>4. \A o \in DOMAIN cell : o \in DOMAIN cell' /\ cell'[o] = cell[o]
      BY <3>3, <2>5 DEF Block!LaidAt
    <3> QED BY <3>2, <3>3, <3>4, <2>3, <2>5 DEF Keeps
  <2> QED BY <2>1, <2>4, <2>5 DEF want, laid
<1>4. CASE SpillRun(t)
  <2> DEFINE want == op[t].want
             run == Block!FirstRun(Free, want)
  <2>1. /\ bounds' = carcer_bounds(Block!SweptEnd(Free), bounds.top)
        /\ cell' = SplitAt(run, want, t)
        /\ Block!Holding(Free, want) # {} /\ op[t].kind = "take"
    BY <1>4 DEF SpillRun, Laid, SplitAt, Drained
  <2>2. want \in Nat \ {0}
    BY <2>1 DEF Types, Calls, Called
  <2>3. run \in Block!Runs(Free) /\ Block!RunSize(run) >= want
    BY <2>1, <1>1, FirstHolding
  <2> HIDE DEF run, want
  <2>4. /\ Lies(SplitAt(run, want, t), Block!SweptEnd(Free))
        /\ \A o \in DOMAIN cell : cell[o].busy =>
             o \in DOMAIN SplitAt(run, want, t) /\ SplitAt(run, want, t)[o] = cell[o]
    <3>1. t \in Threads \cup {NoOwner} /\ Resting
      BY <1>1
    <3> HIDE DEF MobilisInv
    <3> QED BY ONLY <3>1, <2>2, <2>3, RunTaken
  <2>5. Block!SweptEnd(Free) \in Nat /\ Block!SweptEnd(Free) <= Size
    BY <1>1, Swept DEF Resting, Lies
  <2> QED BY <2>1, <2>4, <2>5, <1>1, StoredBounds DEF Keeps, Resting
<1>5. CASE SpillGap(t)
  <2> DEFINE want == op[t].want
             end == Block!SweptEnd(Free)
             swept == Block!SweptCells(Free)
             laid == Block!BusyCell(want, t)
  <2>1. CASE cell' = swept /\ bounds' = carcer_bounds(end, bounds.top)
    BY <2>1, <1>1, SweptKeepsCells
  <2>2. CASE /\ GapHolds(end, Hdr + want) /\ op[t].kind = "take"
             /\ bounds' = carcer_bounds(end + (Hdr + want), bounds.top)
             /\ cell' = Block!LaidAt(swept, end, laid)
    <3>1. want \in Nat \ {0}
      BY <2>2 DEF Types, Calls, Called
    <3>2. laid \in CellWord /\ laid.size = want
      BY <3>1, LaidWords
    <3>3. /\ Lies(swept, end) /\ end \in Nat
          /\ \A o \in DOMAIN cell : cell[o].busy => o \in DOMAIN swept /\ swept[o] = cell[o]
      BY <1>1, Swept
    <3> HIDE DEF want, end, swept, laid
    <3>4. end + Hdr + want \in Nat /\ end + Hdr + want <= Size /\ end + (Hdr + want) = end + Hdr + want
      BY <2>2, <3>1, <3>3, <1>1, Sizes DEF GapHolds, Resting
    <3>5. end \notin DOMAIN swept /\ Lies(Block!LaidAt(swept, end, laid), end + Hdr + laid.size)
      BY <3>2, <3>3, <3>4, LiesLaysUp
    <3>6. \A o \in DOMAIN cell : cell[o].busy => o \in DOMAIN cell' /\ cell'[o] = cell[o]
      BY <3>3, <3>5, <2>2 DEF Block!LaidAt
    <3>7. bounds' \in Word /\ bounds'.top = Size /\ bounds'.end = end + Hdr + want
      BY <2>2, <3>4, <1>1, StoredBounds DEF Resting
    <3>8. Lies(cell', bounds'.end)
      BY <2>2, <3>2, <3>5, <3>7
    <3> QED BY <3>6, <3>7, <3>8 DEF Keeps
  <2> QED BY <1>5, <2>1, <2>2 DEF SpillGap, Laid, Drained
<1>6. CASE Trimmed(t) \/ MoveRefused(t)
  BY <1>6, <1>1, SweptKeepsCells DEF Trimmed, MoveRefused
<1>7. CASE GiveBack(t)
  <2>1. /\ pc[t] = "back" /\ Given(op[t].off) /\ bounds' = bounds
    BY <1>7 DEF GiveBack
  <2>2. op[t].off \in DOMAIN cell
    BY <2>1 DEF Celled, Unnamed, HoldsAt, HoldsIn
  <2>3. op[t].off \in Lets(t)
    BY <2>1 DEF Lets
  <2> QED BY <2>1, <2>2, <2>3, <1>1, GivenKeeps
<1>8. CASE Release(t)
  <2>1. PICK s \in held[t] : /\ pc[t] = "idle" /\ Given(CellOf(s)) /\ bounds' = bounds
                             /\ held' = [held EXCEPT ![t] = @ \ {s}]
    BY <1>8 DEF Release, Call, Goto
  <2>2. s \in Naming(t)
    BY <2>1 DEF Naming, Having
  <2>3. CellOf(s) \in DOMAIN cell
    BY <2>2 DEF Celled, HoldsAt, HoldsIn
  <2>4. s \in held[t] \ held'[t]
    BY <2>1 DEF Types
  <2>5. CellOf(s) \in Lets(t)
    BY <2>4 DEF Lets
  <2> QED BY <2>1, <2>3, <2>5, <1>1, GivenKeeps
<1>9. CASE Moved(t)
  <2> DEFINE s == op[t].slot
             off == CellOf(s)
             run == FirstBelow(off, cell[off].size)
  <2>1. /\ pc[t] = "move" /\ pc'[t] = "idle" /\ RunsBelow(off, cell[off].size) # {}
        /\ bounds' = carcer_bounds(EndMoved(off), bounds.top)
        /\ cell' = MovedCells(off, run)
    BY <1>9 DEF Moved, Return, Goto, FirstBelow, MovedCells, SplitAt, Types
  <2>2. off \in DOMAIN cell /\ cell[off].busy
    BY <2>1, MoverNames
  <2>3. run \in Block!Runs(Free) /\ Block!RunSize(run) >= cell[off].size /\ run.to <= off
    BY <2>1, <1>1, FirstBelowMeans
  <2>4. off \in Lets(t)
    BY <2>1 DEF Lets
  <2> HIDE DEF run, off
  <2>5. /\ Lies(MovedCells(off, run), EndMoved(off))
        /\ \A o \in DOMAIN cell : cell[o].busy /\ o # off =>
             o \in DOMAIN MovedCells(off, run) /\ MovedCells(off, run)[o] = cell[o]
    BY <2>2, <2>3, <1>1, MovedLies
  <2>6. EndMoved(off) \in Nat /\ EndMoved(off) <= Size
    BY <2>5 DEF Lies
  <2> QED BY <2>1, <2>4, <2>5, <2>6, <1>1, StoredBounds DEF Keeps, Resting
<1>10. CASE \/ Read(t) \/ Write(t) \/ Move(t) \/ Shut(t) \/ Search(t) \/ LowestBit(t) \/ FetchOr(t)
            \/ Put(t) \/ StoreLow(t) \/ Raise(t) \/ Copied(t) \/ SlotCleared(t) \/ BitCleared(t)
            \/ Lowered(t) \/ TrimSkipped(t) \/ MoveBegin(t) \/ Seek(t)
  BY <1>2, <1>10 DEF Read, Write, Pass, Move, Shut, Search, LowestBit, FetchOr, Put, StoreLow, Raise,
                     Copied, SlotCleared, BitCleared, Lowered, TrimSkipped, MoveBegin, Seek, block
<1> QED BY <1>3, <1>4, <1>5, <1>6, <1>7, <1>8, <1>9, <1>10 DEF Acts, Step

(* The slots a thread has and those that name its cells, by its step.       *)
HasMeant(u) ==
  /\ pc[u] \notin {"put", "low", "raise", "clear", "unclaim"} =>
       Having(u) = held[u] /\ Naming(u) = held[u]
  /\ pc[u] \in {"put", "clear", "unclaim"} =>
       Having(u) = held[u] \cup {op[u].slot} /\ Naming(u) = held[u]
  /\ pc[u] \in {"low", "raise"} =>
       Having(u) = held[u] \cup ({op[u].slot} \ {0}) /\ Naming(u) = Having(u)

LEMMA HasMeans == ASSUME NEW u, Called(u) PROVE HasMeant(u)
<1>1. CASE pc[u] \notin {"put", "low", "raise", "clear", "unclaim"}
  BY <1>1 DEF HasMeant, Having, Naming, Releasing
<1>2. CASE pc[u] \in {"put", "clear", "unclaim"}
  BY <1>2 DEF HasMeant, Having, Naming, Releasing, Called
<1>3. CASE pc[u] \in {"low", "raise"}
  BY <1>3 DEF HasMeant, Having, Naming, Releasing
<1> QED BY <1>1, <1>2, <1>3

LEMMA HasMeansNext == \A u : Called(u)' => HasMeant(u)'
<1>1. \A u : Called(u) => HasMeant(u)
  BY HasMeans
<1>2. (\A u : Called(u) => HasMeant(u))'
  BY <1>1, PTL
<1> QED BY <1>2

LEMMA OthersHave ==
  ASSUME NEW u, pc'[u] = pc[u], op'[u] = op[u], held'[u] = held[u]
  PROVE  /\ Having(u)' = Having(u) /\ Naming(u)' = Naming(u)
         /\ Unnamed(u)' <=> Unnamed(u)
BY DEF Having, Naming, Releasing, Unnamed

(* The words of the slots a step changes, and the bytes asked of them.      *)
LEMMA NamesStep ==
  ASSUME MobilisInv, NEW t \in Threads, Acts(t)
  PROVE  /\ slot' \in [Slots -> Nat] /\ asked' \in [Slots -> Nat]
         /\ \A s \in Slots : slot'[s] # slot[s] =>
              /\ s = op[t].slot
              /\ pc[t] \in {"put", "clear"} \/ (pc[t] = "move" /\ pc'[t] = "idle")
         /\ \A s \in Slots : asked'[s] # asked[s] =>
              (pc[t] = "put" /\ s = op[t].slot) \/ s \in held[t] \ held'[t]
<1> USE DEF MobilisInv
<1>1. /\ slot \in [Slots -> Nat] /\ asked \in [Slots -> Nat]
      /\ op[t] \in Calls /\ held \in [Threads -> SUBSET Slots] /\ pc \in [Threads -> Steps]
  BY DEF Types
<1>2. CASE UNCHANGED <<slot, asked>>
  BY <1>2, <1>1
<1>3. CASE Put(t)
  <2>1. op[t].off + CarcerHead \in Nat /\ op[t].want \in Nat
    BY <1>1, Sizes DEF Calls
  <2> QED BY <1>1, <1>3, <2>1 DEF Put, Goto
<1>4. CASE Release(t)
  BY <1>1, <1>4 DEF Release, table
<1>5. CASE SlotCleared(t)
  BY <1>1, <1>5 DEF SlotCleared, Goto, history
<1>6. CASE Moved(t)
  <2> DEFINE off == CellOf(op[t].slot)
             run == FirstBelow(off, cell[off].size)
  <2>1. /\ pc[t] = "move" /\ pc' = [pc EXCEPT ![t] = "idle"] /\ asked' = asked
        /\ RunsBelow(off, cell[off].size) # {}
        /\ slot' = [slot EXCEPT ![op[t].slot] = run.at + CarcerHead]
    BY <1>6 DEF Moved, Return, Goto, history, FirstBelow
  <2>2. Resting
    BY DEF Resting, Types
  <2>3. run \in Block!Runs(Free)
    BY <2>1, <2>2, FirstBelowMeans
  <2> HIDE DEF run
  <2>4. run.at + CarcerHead \in Nat
    BY <2>2, <2>3, RunMeans, Sizes
  <2> QED BY <1>1, <2>1, <2>4
<1>7. CASE \/ Alloc(t) \/ Read(t) \/ Write(t) \/ Move(t) \/ Shut(t) \/ SpillRun(t) \/ SpillGap(t)
           \/ Search(t) \/ LowestBit(t) \/ FetchOr(t) \/ StoreLow(t) \/ Raise(t) \/ GiveBack(t)
           \/ Copied(t) \/ BitCleared(t) \/ Lowered(t) \/ TrimSkipped(t) \/ Trimmed(t)
           \/ MoveBegin(t) \/ Seek(t) \/ MoveRefused(t)
  <2> UNCHANGED <<slot, asked>>
    BY <1>7 DEF Alloc, Read, Write, Pass, Move, Shut, SpillRun, SpillGap, Search, LowestBit, FetchOr,
         StoreLow, Raise, GiveBack, Copied, BitCleared, Lowered, TrimSkipped, Trimmed, MoveBegin,
         Seek, MoveRefused, table, history
  <2> QED BY <1>2
<1> QED BY <1>3, <1>4, <1>5, <1>6, <1>7 DEF Acts, Step

LEMMA CalledOthers ==
  ASSUME MobilisInv, NEW t \in Threads, Acts(t), NEW u \in Threads, u # t
  PROVE  Called(u)'
<1> USE DEF MobilisInv
<1>1. pc'[u] = pc[u] /\ op'[u] = op[u] /\ held'[u] = held[u]
  BY LocalsStep DEF Others
<1>2. ASSUME pc[u] = "copy", NEW s \in DOMAIN op[u].at PROVE slot'[s] = slot[s]
  <2>1. s \in held[u] /\ s \in Slots
    BY <1>2 DEF Called, Types
  <2>2. s \notin Having(t)
    BY <2>1 DEF SlotsExclusive, Having
  <2>3. u \in inside
    BY <1>2 DEF Control, Passing
  <2>4. pc[t] # "move"
    BY <2>3 DEF Control
  <2>5. pc[t] \in {"put", "clear"} => op[t].slot \in Having(t)
    BY HasMeans DEF HasMeant
  <2> QED BY <2>1, <2>2, <2>4, <2>5, NamesStep
<1>3. Called(u)
  OBVIOUS
<1> HIDE DEF MobilisInv
<1>4. /\ op'[u].kind = "take" => op'[u].want > 0
      /\ pc'[u] \in {"clear", "unclaim"} => op'[u].kind = "release"
      /\ pc'[u] \in {"put", "raise", "clear", "unclaim", "lower", "move"} => op'[u].slot # 0
      /\ pc'[u] \in {"shut", "drain", "trim", "search", "bit", "back"} => op'[u].slot = 0
      /\ pc'[u] \in {"shut", "drain", "trim"} /\ op'[u].kind = "move" =>
           op'[u].below = Size /\ op'[u].refused = Size
      /\ pc'[u] \in {"put", "low", "raise", "clear", "unclaim"} => op'[u].slot \notin held'[u]
      /\ pc'[u] # "copy" => DOMAIN op'[u].at = {}
  BY <1>1, <1>3 DEF Called
<1>5. pc'[u] = "copy" => /\ DOMAIN op'[u].at \subseteq held'[u]
                         /\ \A s \in DOMAIN op'[u].at : op'[u].at[s] = slot'[s]
                         /\ op'[u].kind = "write" => \E s \in held'[u] : DOMAIN op'[u].at = {s}
  BY <1>1, <1>2, <1>3 DEF Called
<1> QED BY <1>4, <1>5 DEF Called

LEMMA CalledSelf ==
  ASSUME MobilisInv, NEW t \in Threads, Acts(t)
  PROVE  Called(t)'
<1> USE DEF MobilisInv
<1>1. Called(t) /\ Called(t)
  OBVIOUS
<1>2. /\ pc \in [Threads -> Steps] /\ op \in [Threads -> Calls]
      /\ held \in [Threads -> SUBSET Slots] /\ op[t] \in Calls /\ held[t] \in SUBSET Slots
  BY DEF Types
<1>3. SlotsExclusive /\ Types
  OBVIOUS
<1>4. DOMAIN NoOp.at = {} /\ NoOp.slot = 0 /\ NoOp.kind = "none"
  BY DEF NoOp
<1>5. \A n \in Nat : carcer_want(n) > 0
  BY Wants
<1> HIDE DEF MobilisInv
<1>6. CASE Alloc(t)
  <2>1. PICK request \in Requests :
          /\ \/ pc' = [pc EXCEPT ![t] = "search"] \/ pc' = [pc EXCEPT ![t] = "shut"]
          /\ \/ op' = [op EXCEPT ![t] = [NoOp EXCEPT !.kind = "take", !.want = carcer_want(request),
                                                     !.off = bounds.end]]
             \/ op' = [op EXCEPT ![t] = [NoOp EXCEPT !.kind = "take", !.want = carcer_want(request)]]
    BY <1>6 DEF Alloc, Call, Goto
  <2>2. carcer_want(request) > 0
    BY <1>5, MobilisAssumption
  <2> DEFINE want == carcer_want(request)
  <2> HIDE DEF want
  <2>3. /\ op'[t].kind = "take" /\ op'[t].want = want
        /\ op'[t].slot = 0 /\ op'[t].at = NoOp.at
    BY <2>1, <1>2 DEF NoOp, want
  <2>4. pc'[t] \in {"search", "shut"}
    BY <2>1, <1>2
  <2> QED BY <2>2, <2>3, <2>4, <1>4 DEF Called, want
<1>7. CASE Read(t) \/ Write(t)
  <2>1. PICK kind \in {"read", "write"}, spans \in SUBSET held[t] :
          /\ pc'[t] = "copy" /\ held' = held /\ slot' = slot
          /\ op' = [op EXCEPT ![t] = [NoOp EXCEPT !.kind = kind, !.at = [s \in spans |-> slot[s]]]]
          /\ kind = "write" => \E s \in held[t] : spans = {s}
    <3>1. CASE Read(t)
      <4>1. /\ pc'[t] = "copy" /\ held' = held /\ slot' = slot
            /\ op' = [op EXCEPT ![t] = [NoOp EXCEPT !.kind = "read",
                                                    !.at = [s \in held[t] |-> slot[s]]]]
        BY <1>2, <3>1 DEF Read, Pass, Call, Goto, table
      <4> QED BY <4>1
    <3>2. CASE Write(t)
      <4>1. PICK r \in held[t] :
              /\ pc'[t] = "copy" /\ held' = held /\ slot' = slot
              /\ op' = [op EXCEPT ![t] = [NoOp EXCEPT !.kind = "write",
                                                      !.at = [s \in {r} |-> slot[s]]]]
        BY <1>2, <3>2 DEF Write, Pass, Call, Goto, table
      <4> QED BY <4>1
    <3> QED BY <1>7, <3>1, <3>2
  <2>2. op'[t].kind = kind /\ op'[t].at = [s \in spans |-> slot[s]]
    BY <2>1, <1>2 DEF NoOp
  <2>3. DOMAIN op'[t].at = spans /\ \A s \in spans : op'[t].at[s] = slot'[s]
    BY <2>1, <2>2
  <2> QED BY <2>1, <2>2, <2>3 DEF Called
<1>8. CASE Release(t)
  <2>1. PICK s \in held[t] :
          /\ pc'[t] = "clear" /\ held'[t] = held[t] \ {s}
          /\ op'[t].kind = "release" /\ op'[t].slot = s /\ op'[t].at = NoOp.at
    BY <1>8, <1>2 DEF Release, Call, Goto, NoOp
  <2>2. s # 0
    BY <1>2 DEF Slots
  <2> QED BY <2>1, <2>2, <1>4 DEF Called
<1>9. CASE Move(t)
  <2>1. /\ pc'[t] = "shut" /\ op'[t].kind = "move" /\ op'[t].slot = 0 /\ op'[t].at = NoOp.at
        /\ op'[t].below = Size /\ op'[t].refused = Size
    BY <1>9, <1>2 DEF Move, Call, Goto, NoOp
  <2> QED BY <2>1, <1>4 DEF Called
<1>10. CASE Shut(t) \/ MoveBegin(t)
  <2>1. /\ op' = op /\ held' = held
        /\ \/ pc[t] \in {"shut", "trim"} /\ pc'[t] = "drain"
           \/ pc[t] = "drain" /\ pc'[t] = "seek"
    BY <1>10, <1>2 DEF Shut, MoveBegin, Drained, Goto
  <2> QED BY <2>1, <1>1 DEF Called
<1>11. CASE \/ pc'[t] = "idle" /\ op'[t] = NoOp
            \/ pc'[t] = "trim" /\ op'[t] = [NoOp EXCEPT !.kind = "trim"]
  BY <1>11, <1>4 DEF Called, NoOp
<1>12. CASE \/ GiveBack(t) \/ Copied(t) \/ Lowered(t) \/ TrimSkipped(t) \/ Trimmed(t) \/ Moved(t)
            \/ Raise(t)
  <2>1. \/ pc'[t] = "idle" /\ op'[t] = NoOp
        \/ pc'[t] = "trim" /\ op'[t] = [NoOp EXCEPT !.kind = "trim"]
    BY <1>12, <1>2 DEF GiveBack, Copied, Lowered, TrimSkipped, Trimmed, Moved, Raise, Return, Goto
  <2> QED BY <2>1, <1>11
<1>13. CASE SpillRun(t) \/ SpillGap(t)
  <2>1. \/ /\ pc[t] = "drain" /\ pc'[t] = "search" /\ op'[t].kind = op[t].kind
           /\ op'[t].want = op[t].want /\ op'[t].slot = op[t].slot /\ op'[t].at = op[t].at
        \/ pc'[t] = "idle" /\ op'[t] = NoOp
    BY <1>13, <1>2 DEF SpillRun, SpillGap, Laid, Drained, Return, Goto, Calls
  <2>2. CASE /\ pc[t] = "drain" /\ pc'[t] = "search" /\ op'[t].kind = op[t].kind
             /\ op'[t].want = op[t].want /\ op'[t].slot = op[t].slot /\ op'[t].at = op[t].at
    BY <2>2, <1>1 DEF Called
  <2> QED BY <2>1, <2>2, <1>11
<1>14. CASE Search(t) \/ LowestBit(t) \/ FetchOr(t) \/ Put(t) \/ StoreLow(t)
  <2>1. /\ op'[t].kind = op[t].kind /\ op'[t].want = op[t].want /\ op'[t].at = op[t].at
        /\ held' = held
        /\ \/ pc[t] = "search" /\ pc'[t] = "bit" /\ op'[t].slot = op[t].slot
           \/ pc[t] = "bit" /\ pc'[t] = "or"
           \/ pc[t] = "or" /\ pc'[t] = "put" /\ op'[t].slot = op[t].slot
                /\ op[t].slot \notin claimed \cup {0}
           \/ pc[t] = "or" /\ pc'[t] = "low" /\ op'[t].slot = 0
           \/ pc[t] = "put" /\ pc'[t] = "low" /\ op'[t].slot = op[t].slot
           \/ pc[t] = "low" /\ pc'[t] = "raise" /\ op'[t].slot = op[t].slot /\ op[t].slot # 0
           \/ pc[t] = "low" /\ pc'[t] \in {"search", "back"} /\ op'[t].slot = 0
    <3>1. CASE Search(t)
      BY <3>1, <1>2 DEF Search, Goto, Calls
    <3>2. CASE LowestBit(t)
      BY <3>2, <1>2 DEF LowestBit, Goto, Calls
    <3>3. CASE FetchOr(t)
      BY <3>3, <1>2 DEF FetchOr, Goto, Calls
    <3>4. CASE Put(t)
      BY <3>4, <1>2 DEF Put, Goto
    <3>5. CASE StoreLow(t)
      BY <3>5, <1>2 DEF StoreLow, Goto, Calls
    <3> QED BY <1>14, <3>1, <3>2, <3>3, <3>4, <3>5
  <2>2. op[t].slot \notin claimed => op[t].slot \notin held[t]
    BY <1>3 DEF SlotsExclusive, Having
  <2>3. 0 \notin held[t]
    BY <1>2 DEF Slots
  <2> QED BY <2>1, <2>2, <2>3, <1>1 DEF Called
<1>15. CASE SlotCleared(t) \/ BitCleared(t)
  <2>1. /\ op' = op /\ held' = held
        /\ \/ pc[t] = "clear" /\ pc'[t] = "unclaim"
           \/ pc[t] = "unclaim" /\ pc'[t] = "lower"
    BY <1>15, <1>2 DEF SlotCleared, BitCleared, Goto
  <2> QED BY <2>1, <1>1 DEF Called
<1>16. CASE Seek(t)
  <2> DEFINE movable == Movable(op[t].below, op[t].refused)
             high == CHOOSE s \in movable : \A r \in movable : slot[r] <= slot[s]
  <2>1. CASE movable = {}
    BY <1>16, <2>1, <1>2, <1>11 DEF Seek, Return, Goto
  <2>2. CASE movable # {}
    <3>1. /\ pc[t] = "seek" /\ pc'[t] = "move" /\ op'[t].slot = high /\ op'[t].kind = op[t].kind
          /\ op'[t].want = op[t].want /\ op'[t].at = op[t].at /\ held' = held
      BY <1>16, <2>2, <1>2 DEF Seek, Goto, Calls
    <3>2. high \in movable
      <4>1. op[t].below \in Nat
        BY <1>2 DEF Calls
      <4> QED BY <4>1, <2>2, <1>3, HighestMovable
    <3>3. \A s \in movable : s # 0
      BY DEF Movable
    <3> HIDE DEF high, movable
    <3> QED BY <3>1, <3>2, <3>3, <1>1 DEF Called
  <2> QED BY <2>1, <2>2
<1>17. CASE MoveRefused(t)
  <2>1. /\ pc[t] = "move" /\ pc'[t] = "seek" /\ held' = held /\ op'[t].kind = op[t].kind
        /\ op'[t].want = op[t].want /\ op'[t].at = op[t].at
    BY <1>17, <1>2 DEF MoveRefused, Goto, Calls
  <2> QED BY <2>1, <1>1 DEF Called
<1> QED BY <1>6, <1>7, <1>8, <1>9, <1>10, <1>12, <1>13, <1>14, <1>15, <1>16, <1>17 DEF Acts, Step

(* The closed bit and the passes inside.                                    *)
LEMMA ControlSteps ==
  ASSUME MobilisInv, NEW t \in Threads, Acts(t)
  PROVE  Control'
<1> USE DEF MobilisInv
<1>1. /\ pc \in [Threads -> Steps] /\ pc' \in [Threads -> Steps] /\ Control
      /\ \A u \in Threads : u # t => pc'[u] = pc[u]
  BY LocalsStep DEF Others, Types, Locals
<1> HIDE DEF MobilisInv
<1>2. \/ /\ pc[t] \notin Closing \cup Passing /\ pc'[t] \notin Closing \cup Passing
         /\ UNCHANGED <<closed, inside>>
      \/ /\ pc[t] \notin Closing \cup Passing /\ pc'[t] = "drain"
         /\ ~closed /\ closed' /\ inside' = inside
      \/ /\ pc[t] \in Closing /\ pc'[t] \in Closing /\ UNCHANGED <<closed, inside>>
         /\ pc[t] = "drain" => inside = {}
      \/ /\ pc[t] \in Closing /\ pc'[t] \notin Closing \cup Passing /\ ~closed'
         /\ inside' = inside
      \/ /\ pc[t] \notin Closing \cup Passing /\ pc'[t] \in Passing
         /\ ~closed /\ closed' = closed /\ inside' = inside \cup {t}
      \/ pc[t] \in Passing /\ pc'[t] \in Passing /\ UNCHANGED <<closed, inside>>
      \/ /\ pc[t] \in Passing /\ pc'[t] \notin Closing \cup Passing
         /\ closed' = closed /\ inside' = inside \ {t}
  <2> USE DEF Closing, Passing
  <2>1. CASE Alloc(t) \/ Move(t)
    BY <2>1, <1>1 DEF Alloc, Move, Call, Goto
  <2>2. CASE Read(t) \/ Write(t) \/ Release(t)
    BY <2>2, <1>1 DEF Read, Write, Release, Pass, Badged, Call, Goto
  <2>3. CASE Shut(t)
    BY <2>3, <1>1 DEF Shut
  <2>4. CASE SpillRun(t) \/ SpillGap(t) \/ Trimmed(t)
    BY <2>4, <1>1 DEF SpillRun, SpillGap, Trimmed, Drained, Return, Goto
  <2>5. CASE Search(t) \/ LowestBit(t) \/ FetchOr(t) \/ Put(t) \/ Raise(t) \/ GiveBack(t)
    BY <2>5, <1>1 DEF Search, LowestBit, FetchOr, Put, Raise, GiveBack, Return, Goto
  <2>6. CASE StoreLow(t)
    BY <2>6, <1>1 DEF StoreLow, Goto
  <2>7. CASE Copied(t) \/ SlotCleared(t) \/ BitCleared(t)
    BY <2>7, <1>1 DEF Copied, SlotCleared, BitCleared, Return, Goto
  <2>8. CASE Lowered(t) \/ TrimSkipped(t)
    BY <2>8, <1>1 DEF Lowered, TrimSkipped, Return, Goto
  <2>9. CASE MoveBegin(t) \/ MoveRefused(t)
    BY <2>9, <1>1 DEF MoveBegin, Drained, MoveRefused, Goto
  <2>10. CASE Seek(t) \/ Moved(t)
    BY <2>10, <1>1 DEF Seek, Moved, Return, Goto
  <2> QED BY <2>1, <2>2, <2>3, <2>4, <2>5, <2>6, <2>7, <2>8, <2>9, <2>10 DEF Acts, Step
<1>3. Closing \cap Passing = {} /\ "drain" \in Closing /\ "drain" \notin Passing
  BY DEF Closing, Passing
<1>4. /\ \A u \in Threads : pc'[u] \in Closing => closed'
      /\ \A u, v \in Threads : pc'[u] \in Closing /\ pc'[v] \in Closing => u = v
  BY <1>1, <1>2, <1>3 DEF Control
<1>5. inside' = {u \in Threads : pc'[u] \in Passing}
  BY <1>1, <1>2, <1>3 DEF Control
<1>6. \A u \in Threads : pc'[u] \in {"seek", "move"} => inside' = {}
  <2> SUFFICES ASSUME NEW u \in Threads, pc'[u] \in {"seek", "move"} PROVE inside' = {}
    OBVIOUS
  <2>1. pc'[u] \in Closing /\ pc'[u] # "drain"
    BY DEF Closing
  <2>2. CASE u # t
    <3>1. pc[u] \in {"seek", "move"} /\ inside = {} /\ closed
      BY <2>1, <2>2, <1>1 DEF Control
    <3> QED BY <3>1, <1>2
  <2>3. CASE u = t
    <3>1. pc[t] \in Closing /\ inside' = inside /\ (pc[t] = "drain" => inside = {})
      BY <2>1, <2>3, <1>2, <1>3
    <3>2. pc[t] = "drain" \/ pc[t] \in {"seek", "move"}
      BY <3>1 DEF Closing
    <3> QED BY <3>1, <3>2, <1>1 DEF Control
  <2> QED BY <2>2, <2>3
<1> QED BY <1>4, <1>5, <1>6 DEF Control

(* What a move does with the slot it picked: at is the run's first byte.    *)
MovesTo(t, s, at) ==
  LET off == CellOf(s)
      size == cell[CellOf(s)].size
  IN  /\ s \in Slots /\ slot[s] \in Nat \ {0} /\ off \in DOMAIN cell /\ cell[off].busy
      /\ at \in Nat /\ size \in Nat \ {0} /\ at + Hdr + size <= off
      /\ at \in DOMAIN cell' /\ cell'[at].busy /\ cell'[at].owner = cell[off].owner
      /\ cell'[at].size >= size
      /\ \A o \in DOMAIN cell : cell[o].busy /\ o # off =>
           o # at /\ o \in DOMAIN cell' /\ cell'[o] = cell[o]
      /\ slot' = [slot EXCEPT ![s] = at + CarcerHead]
      /\ byte' = [o \in DOMAIN byte |->
                    IF Wipes /\ o \in Span(slot[s], size) THEN 0
                    ELSE IF o \in Span(at + CarcerHead, size)
                         THEN byte[slot[s] + o - (at + CarcerHead)] ELSE byte[o]]

LEMMA MovedMeans ==
  ASSUME MobilisInv, NEW t \in Threads, Moved(t)
  PROVE  /\ pc[t] = "move" /\ pc'[t] = "idle" /\ inside = {} /\ closed
         /\ UNCHANGED <<inUse, inside, claimed, lowest, named, held, history>>
         /\ \E at \in Nat : MovesTo(t, op[t].slot, at)
<1> DEFINE s == op[t].slot
           off == CellOf(s)
           size == cell[off].size
           run == FirstBelow(off, size)
<1>1. pc[t] = "move" /\ pc'[t] = "idle"
  BY DEF Moved, Return, Goto, MobilisInv, Types
<1>2. /\ s \in Slots /\ slot[s] \in Nat \ {0} /\ off \in DOMAIN cell /\ cell[off].busy
      /\ size \in Nat \ {0} /\ inside = {} /\ closed
  BY <1>1, MoverNames
<1>3. UNCHANGED <<inUse, inside, claimed, lowest, named, held, history>>
  BY DEF Moved
<1>4. Resting
  BY DEF MobilisInv, Resting, Types
<1>5. RunsBelow(off, size) # {}
  BY DEF Moved
<1>6. run \in Block!Runs(Free) /\ Block!RunSize(run) >= size /\ run.to <= off
  BY <1>4, <1>5, FirstBelowMeans
<1>7. cell' = MovedCells(off, run)
  BY DEF Moved, FirstBelow, MovedCells, SplitAt
<1>8. /\ slot' = [slot EXCEPT ![s] = run.at + CarcerHead]
      /\ byte' = [o \in DOMAIN byte |->
                    IF Wipes /\ o \in Span(slot[s], size) THEN 0
                    ELSE IF o \in Span(run.at + CarcerHead, size)
                         THEN byte[slot[s] + o - (run.at + CarcerHead)] ELSE byte[o]]
  <2> DEFINE copied == [o \in DOMAIN byte |->
                IF o \in Span(run.at + CarcerHead, size)
                THEN byte[slot[s] + o - (run.at + CarcerHead)] ELSE byte[o]]
  <2>1. slot' = [slot EXCEPT ![s] = run.at + CarcerHead]
    BY DEF Moved, FirstBelow
  <2>2. byte' = [o \in DOMAIN byte |->
                   IF Wipes /\ o \in Span(slot[s], size) THEN 0 ELSE copied[o]]
    BY Zenon DEF Moved, FirstBelow, CopySize
  <2> HIDE DEF run, size, s
  <2> QED BY <2>1, <2>2
<1>9. run.at \in Nat /\ Block!RunSize(run) \in Nat
  BY <1>4, <1>6, RunMeans
<1>10. cell[off].owner \in Threads \cup {NoOwner} /\ off \in Nat
  BY <1>2, <1>4, CellEnds DEF Resting, Lies, CellWord
<1> HIDE DEF run
<1>11. /\ run.at + Hdr + Block!SplitSize(run, size) <= off
       /\ run.at \in DOMAIN cell'
       /\ cell'[run.at] = Block!BusyCell(Block!SplitSize(run, size), cell[off].owner)
       /\ \A o \in DOMAIN cell : cell[o].busy /\ o # off =>
            o # run.at /\ o \in DOMAIN cell' /\ cell'[o] = cell[o]
  BY <1>2, <1>4, <1>6, <1>7, MovedLies
<1>12. Block!SplitSize(run, size) \in Nat \ {0} /\ Block!SplitSize(run, size) >= size
  BY <1>2, <1>4, <1>6, <1>10, RunTaken
<1>13. /\ cell'[run.at].busy /\ cell'[run.at].owner = cell[off].owner
       /\ cell'[run.at].size = Block!SplitSize(run, size)
  BY <1>11, <1>12, <1>10, LaidWords
<1> HIDE DEF s, size
<1>14. run.at + Hdr + size <= off
  BY <1>2, <1>9, <1>10, <1>11, <1>12, Sizes
<1>15. MovesTo(t, s, run.at)
  BY <1>2, <1>8, <1>9, <1>11, <1>12, <1>13, <1>14 DEF MovesTo, size
<1> QED BY <1>1, <1>2, <1>3, <1>9, <1>15 DEF s

(* The bytes of a cell's payload lie inside it, and inside the cellblock.   *)
LEMMA SpanInside ==
  ASSUME NEW cells, NEW end, Lies(cells, end), NEW o \in DOMAIN cells,
         NEW bytes \in Nat, bytes <= cells[o].size, NEW b \in Span(o + CarcerHead, bytes)
  PROVE  /\ o \in Nat /\ b \in Nat /\ o < b /\ b < Ends(cells, o) /\ b < Size
         /\ o + CarcerHead <= b /\ b < o + CarcerHead + bytes
<1>1. /\ o \in Nat /\ cells[o].size \in Nat \ {0} /\ Ends(cells, o) = o + Hdr + cells[o].size
      /\ Ends(cells, o) <= end /\ end \in Nat /\ end <= Size
  BY CellEnds DEF Lies
<1>2. b \in Int /\ o + CarcerHead <= b /\ b <= o + CarcerHead + bytes - 1
  BY <1>1, Sizes DEF Span
<1> QED BY <1>1, <1>2, Sizes

LEMMA SpansApart ==
  ASSUME NEW cells, NEW end, Lies(cells, end), NEW o \in DOMAIN cells, NEW p \in DOMAIN cells,
         o # p, NEW m \in Nat, m <= cells[o].size, NEW n \in Nat, n <= cells[p].size,
         NEW b \in Span(o + CarcerHead, m)
  PROVE  b \notin Span(p + CarcerHead, n)
<1> SUFFICES ASSUME b \in Span(p + CarcerHead, n) PROVE FALSE
  OBVIOUS
<1>1. o \in Nat /\ p \in Nat /\ b \in Nat /\ o < b /\ p < b /\ b < Ends(cells, o) /\ b < Ends(cells, p)
  BY SpanInside
<1>2. Ends(cells, o) <= p \/ Ends(cells, p) <= o
  BY DEF Lies
<1>3. Ends(cells, o) \in Nat /\ Ends(cells, p) \in Nat
  BY CellEnds DEF Lies
<1> QED BY <1>1, <1>2, <1>3

LEMMA SlotPlace ==
  ASSUME Types, NEW s \in Slots
  PROVE  slot[s] \in Nat /\ CellOf(s) \in Int /\ slot[s] = CellOf(s) + CarcerHead
BY Sizes DEF Types, CellOf

LEMMA BytesTyped ==
  ASSUME MobilisInv, NEW t \in Threads, Acts(t)
  PROVE  byte' \in [0 .. Size - 1 -> Slots \cup {0}]
<1> USE DEF MobilisInv
<1>1. byte \in [0 .. Size - 1 -> Slots \cup {0}] /\ Types
  BY DEF Types
<1>2. ASSUME NEW off, Given(off) PROVE byte' \in [0 .. Size - 1 -> Slots \cup {0}]
  BY <1>1, <1>2 DEF Given
<1>3. CASE GiveBack(t) \/ Release(t)
  BY <1>2, <1>3 DEF GiveBack, Release
<1>4. CASE Copied(t)
  <2> DEFINE spans == DOMAIN op[t].at
             mark == CHOOSE s \in spans : TRUE
  <2>1. pc[t] = "copy"
    BY <1>4 DEF Copied, Return, Goto
  <2>2. spans \subseteq Slots
    BY <2>1 DEF Called, Types
  <2>3. \/ byte' = byte
        \/ byte' = [o \in DOMAIN byte |->
                      IF \E s \in spans : o \in Span(op[t].at[s], asked[s]) THEN mark ELSE byte[o]]
    BY <1>4 DEF Copied
  <2>4. spans # {} => mark \in Slots
    BY <2>2
  <2> HIDE DEF mark, spans
  <2> QED BY <1>1, <2>3, <2>4
<1>5. CASE Moved(t)
  <2>1. PICK at \in Nat : MovesTo(t, op[t].slot, at)
    BY <1>5, MovedMeans
  <2> DEFINE s == op[t].slot
             off == CellOf(s)
             size == cell[off].size
  <2>2. /\ s \in Slots /\ off \in DOMAIN cell /\ size \in Nat
        /\ byte' = [o \in DOMAIN byte |->
                    IF Wipes /\ o \in Span(slot[s], size) THEN 0
                    ELSE IF o \in Span(at + CarcerHead, size)
                         THEN byte[slot[s] + o - (at + CarcerHead)] ELSE byte[o]]
    BY <2>1 DEF MovesTo
  <2>3. slot[s] \in Nat /\ slot[s] = off + CarcerHead
    BY <2>2, <1>1, SlotPlace
  <2> HIDE DEF s, off
  <2>4. Lies(cell, bounds.end)
    OBVIOUS
  <2>5. ASSUME NEW o \in Span(at + CarcerHead, size)
        PROVE  slot[s] + o - (at + CarcerHead) \in 0 .. Size - 1
    <3> DEFINE b == slot[s] + o - (at + CarcerHead)
    <3>1. b \in Span(off + CarcerHead, size)
      BY <2>2, <2>3, <2>5, Sizes DEF Span
    <3> HIDE DEF b, size
    <3>2. b \in Nat /\ b < Size
      BY <3>1, <2>2, <2>4, SpanInside DEF size
    <3>3. b \in 0 .. Size - 1
      BY <3>2, Sizes
    <3> QED BY <3>3 DEF b
  <2> HIDE DEF size
  <2> QED BY <1>1, <2>2, <2>5
<1>6. CASE byte' = byte
  BY <1>1, <1>6
<1>7. \/ GiveBack(t) \/ Release(t) \/ Copied(t) \/ Moved(t) \/ byte' = byte
  BY DEF Acts, Step, Alloc, Read, Write, Pass, Move, Shut, SpillRun, SpillGap, Search, LowestBit,
         FetchOr, Put, StoreLow, Raise, SlotCleared, BitCleared, Lowered, TrimSkipped, Trimmed,
         MoveBegin, Seek, MoveRefused
<1> QED BY <1>3, <1>4, <1>5, <1>6, <1>7

(* The slots had and the bits claimed change together.                      *)
LEMMA HavingStep ==
  ASSUME MobilisInv, NEW t \in Threads, Acts(t)
  PROVE  /\ \/ /\ pc[t] = "or" /\ op[t].slot \in Slots \ claimed
               /\ claimed' = claimed \cup {op[t].slot} /\ Having(t)' = Having(t) \cup {op[t].slot}
            \/ /\ pc[t] = "unclaim" /\ op[t].slot \in Slots /\ op[t].slot \in Having(t)
               /\ claimed' = claimed \ {op[t].slot} /\ Having(t)' = Having(t) \ {op[t].slot}
            \/ claimed' = claimed /\ Having(t)' = Having(t)
         /\ Naming(t)' \subseteq Naming(t) \cup (IF pc[t] = "put" THEN {op[t].slot} ELSE {})
<1>1. Called(t) /\ Called(t)'
  BY CalledSelf DEF MobilisInv
<1>2. HasMeant(t)
  BY <1>1, HasMeans
<1>3. HasMeant(t)'
  BY <1>1, HasMeansNext
<1>4. /\ Types /\ SlotsExclusive /\ op[t] \in Calls /\ held[t] \in SUBSET Slots
      /\ pc \in [Threads -> Steps] /\ op \in [Threads -> Calls] /\ held \in [Threads -> SUBSET Slots]
  BY DEF Types, MobilisInv
<1>5. op[t].slot \in Slots \cup {0} /\ 0 \notin Slots
  BY <1>4 DEF Calls, Slots
<1>6. CASE \/ Alloc(t) \/ Read(t) \/ Write(t) \/ Move(t) \/ Shut(t) \/ SpillRun(t) \/ SpillGap(t)
           \/ Search(t) \/ LowestBit(t) \/ GiveBack(t) \/ Copied(t) \/ Lowered(t)
           \/ TrimSkipped(t) \/ Trimmed(t) \/ MoveBegin(t) \/ Seek(t) \/ MoveRefused(t) \/ Moved(t)
  <2>1. /\ pc[t] \notin {"put", "low", "raise", "clear", "unclaim"}
        /\ pc'[t] \notin {"put", "low", "raise", "clear", "unclaim"}
        /\ UNCHANGED <<claimed, held>>
    <3>1. CASE Alloc(t) \/ Read(t) \/ Write(t) \/ Move(t) \/ Shut(t)
      BY <3>1, <1>4 DEF Alloc, Read, Write, Pass, Move, Shut, Call, Goto, table
    <3>2. CASE SpillRun(t) \/ SpillGap(t) \/ Search(t) \/ LowestBit(t) \/ GiveBack(t) \/ Copied(t)
      BY <3>2, <1>4 DEF SpillRun, SpillGap, Search, LowestBit, GiveBack, Copied, Drained, Return,
                        Goto, table
    <3>3. CASE Lowered(t) \/ TrimSkipped(t) \/ Trimmed(t) \/ MoveBegin(t) \/ MoveRefused(t)
      BY <3>3, <1>4 DEF Lowered, TrimSkipped, Trimmed, MoveBegin, MoveRefused, Drained, Return,
                        Goto, table
    <3>4. CASE Seek(t) \/ Moved(t)
      BY <3>4, <1>4 DEF Seek, Moved, Return, Goto, table
    <3> QED BY <1>6, <3>1, <3>2, <3>3, <3>4
  <2> QED BY <2>1, <1>2, <1>3 DEF HasMeant
<1>7. CASE Release(t)
  <2>1. PICK s \in held[t] :
          /\ pc[t] = "idle" /\ pc'[t] = "clear" /\ claimed' = claimed
          /\ held'[t] = held[t] \ {s} /\ op'[t].slot = s
    BY <1>4, <1>7 DEF Release, Call, Goto, table, NoOp
  <2> QED BY <2>1, <1>2, <1>3 DEF HasMeant
<1>8. CASE FetchOr(t)
  <2>1. /\ pc[t] = "or" /\ held' = held /\ claimed' = claimed \cup ({op[t].slot} \ {0})
        /\ \/ pc'[t] = "put" /\ op' = op /\ op[t].slot \notin claimed \cup {0}
           \/ pc'[t] = "low" /\ op'[t].slot = 0 /\ op[t].slot \in claimed \cup {0}
    BY <1>4, <1>8 DEF FetchOr, Goto, Calls
  <2> QED BY <2>1, <1>2, <1>3, <1>5 DEF HasMeant
<1>9. CASE Put(t) \/ StoreLow(t)
  <2>1. /\ held' = held /\ claimed' = claimed /\ op'[t].slot = op[t].slot
        /\ \/ pc[t] = "put" /\ pc'[t] = "low"
           \/ pc[t] = "low" /\ pc'[t] = "raise"
           \/ pc[t] = "low" /\ pc'[t] \in {"search", "back"} /\ op[t].slot = 0
    BY <1>4, <1>9 DEF Put, StoreLow, Goto, Calls
  <2> QED BY <2>1, <1>1, <1>2, <1>3, <1>5 DEF HasMeant, Called
<1>10. CASE Raise(t)
  <2>1. /\ pc[t] = "raise" /\ pc'[t] = "idle" /\ claimed' = claimed
        /\ held'[t] = held[t] \cup {op[t].slot}
    BY <1>4, <1>10 DEF Raise, Return, Goto
  <2> QED BY <2>1, <1>1, <1>2, <1>3 DEF HasMeant, Called
<1>11. CASE SlotCleared(t)
  <2>1. pc[t] = "clear" /\ pc'[t] = "unclaim" /\ UNCHANGED <<op, held, claimed>>
    BY <1>4, <1>11 DEF SlotCleared, Goto
  <2> QED BY <2>1, <1>2, <1>3 DEF HasMeant
<1>12. CASE BitCleared(t)
  <2>1. /\ pc[t] = "unclaim" /\ pc'[t] = "lower" /\ UNCHANGED <<op, held>>
        /\ claimed' = claimed \ {op[t].slot}
    BY <1>4, <1>12 DEF BitCleared, Goto
  <2> QED BY <2>1, <1>1, <1>2, <1>3, <1>5 DEF HasMeant, Called
<1> QED BY <1>6, <1>7, <1>8, <1>9, <1>10, <1>11, <1>12 DEF Acts, Step

LEMMA ExclusiveStep ==
  ASSUME MobilisInv, NEW t \in Threads, Acts(t)
  PROVE  SlotsExclusive'
<1>1. \A u \in Threads : u # t => Having(u)' = Having(u)
  BY LocalsStep, OthersHave DEF Others
<1>2. SlotsExclusive
  BY DEF MobilisInv
<1>3. Spare \cap Slots = {} /\ Spare' = Spare
  BY DEF Spare, Bits, Words, Slots
<1>4. CASE claimed' = claimed /\ Having(t)' = Having(t)
  BY <1>1, <1>2, <1>3, <1>4 DEF SlotsExclusive
<1>5. CASE /\ op[t].slot \in Slots \ claimed
           /\ claimed' = claimed \cup {op[t].slot} /\ Having(t)' = Having(t) \cup {op[t].slot}
  BY <1>1, <1>2, <1>3, <1>5 DEF SlotsExclusive
<1>6. CASE /\ op[t].slot \in Slots /\ op[t].slot \in Having(t)
           /\ claimed' = claimed \ {op[t].slot} /\ Having(t)' = Having(t) \ {op[t].slot}
  BY <1>1, <1>2, <1>3, <1>6 DEF SlotsExclusive
<1> QED BY <1>4, <1>5, <1>6, HavingStep

LEMMA TypesStep ==
  ASSUME MobilisInv, NEW t \in Threads, Acts(t)
  PROVE  Types'
<1>1. /\ Types /\ Called(t) /\ op[t] \in Calls /\ held \in [Threads -> SUBSET Slots] /\ 0 \notin Slots
      /\ pc \in [Threads -> Steps]
  BY DEF Types, MobilisInv, Slots
<1>2. closed' \in BOOLEAN /\ still' \in BOOLEAN
  <2>1. closed \in BOOLEAN /\ still \in BOOLEAN
    BY <1>1 DEF Types
  <2>2. closed' \in {closed, TRUE, FALSE} /\ still' \in {still, TRUE, FALSE}
    <3>1. CASE Alloc(t) \/ Read(t) \/ Write(t) \/ Release(t) \/ Move(t) \/ Shut(t)
      BY <3>1 DEF Alloc, Read, Write, Pass, Release, Move, Shut, history
    <3>2. CASE SpillRun(t) \/ SpillGap(t) \/ Search(t) \/ LowestBit(t) \/ FetchOr(t) \/ Put(t)
               \/ StoreLow(t) \/ Raise(t) \/ GiveBack(t)
      BY <3>2 DEF SpillRun, SpillGap, Search, LowestBit, FetchOr, Put, StoreLow, Raise, GiveBack, history
    <3>3. CASE Copied(t) \/ SlotCleared(t) \/ BitCleared(t) \/ Lowered(t) \/ TrimSkipped(t)
               \/ Trimmed(t) \/ MoveBegin(t) \/ Seek(t) \/ MoveRefused(t) \/ Moved(t)
      BY <3>3 DEF Copied, SlotCleared, BitCleared, Lowered, TrimSkipped, Trimmed, MoveBegin, Seek,
         MoveRefused, Moved, history
    <3> QED BY <3>1, <3>2, <3>3 DEF Acts, Step
  <2> QED BY <2>1, <2>2
<1>3. lowest' \in Words /\ named' \in 0 .. SlotCount
  <2>1. /\ lowest \in Words /\ named \in 0 .. SlotCount /\ op[t].from \in Words
        /\ op[t].word \in Words /\ op[t].slot \in Slots \cup {0}
    BY <1>1 DEF Types, Calls
  <2>2. CASE StoreLow(t)
    BY <2>1, <2>2 DEF StoreLow
  <2>3. CASE Lowered(t)
    <3>1. pc[t] = "lower"
      BY <2>3 DEF Lowered, Return, Goto
    <3>2. WordOf(op[t].slot) \in Words
      BY <3>1, <2>1, <1>1, ClaimWords DEF Called
    <3> QED BY <2>1, <2>3, <3>2 DEF Lowered
  <2>4. CASE Raise(t)
    BY <2>1, <2>4, Sizes DEF Raise, Slots
  <2>5. StoreLow(t) \/ Lowered(t) \/ Raise(t) \/ (lowest' = lowest /\ named' = named)
    BY DEF Acts, Step, Alloc, Read, Write, Pass, Release, Move, Shut, SpillRun, SpillGap, Search,
           LowestBit, FetchOr, Put, GiveBack, Copied, SlotCleared, BitCleared, TrimSkipped, Trimmed,
           MoveBegin, Seek, MoveRefused, Moved, table
  <2> QED BY <2>1, <2>2, <2>3, <2>4, <2>5
<1>4. claimed' \subseteq Bits
  BY <1>1, HavingStep, ClaimWords DEF Types
<1>5. wrote' \subseteq UNION {held'[u] : u \in Threads}
  <2>1. /\ wrote \subseteq UNION {held[u] : u \in Threads}
        /\ \A u \in Threads : u # t => held'[u] = held[u]
    BY <1>1, LocalsStep DEF Types, Others
  <2>2. CASE Release(t)
    <3>1. PICK s \in held[t] : held'[t] = held[t] \ {s} /\ wrote' = wrote \ {s}
      BY <1>1, <2>2 DEF Release
    <3> QED BY <2>1, <3>1
  <2>3. CASE Copied(t)
    <3>1. held' = held /\ wrote' \subseteq wrote \cup DOMAIN op[t].at /\ DOMAIN op[t].at \subseteq held[t]
      BY <1>1, <2>3 DEF Copied, Return, Goto, Called
    <3> QED BY <2>1, <3>1
  <2>4. CASE Raise(t)
    <3>1. held'[t] = held[t] \cup {op[t].slot} /\ wrote' = wrote
      BY <1>1, <2>4 DEF Raise
    <3> QED BY <2>1, <3>1
  <2>5. Release(t) \/ Copied(t) \/ Raise(t) \/ (held' = held /\ wrote' = wrote)
    BY DEF Acts, Step, Alloc, Read, Write, Pass, Move, Shut, SpillRun, SpillGap, Search,
           LowestBit, FetchOr, Put, StoreLow, GiveBack, SlotCleared, BitCleared, Lowered, TrimSkipped,
           Trimmed, MoveBegin, Seek, MoveRefused, Moved, history
  <2> QED BY <2>1, <2>2, <2>3, <2>4, <2>5
<1>6. bounds' \in Word /\ bounds'.top = Size
  BY CellsStep DEF Keeps
<1>7. Locals'
  BY LocalsStep
<1> QED BY <1>2, <1>3, <1>4, <1>5, <1>6, <1>7, NamesStep, BytesTyped DEF Types, Locals

(* The step a thread can take where it stands.                              *)
LEMMA StepAt ==
  ASSUME NEW t, Acts(t)
  PROVE  /\ pc[t] = "put" => Put(t)
         /\ pc[t] = "clear" => SlotCleared(t)
         /\ pc[t] = "unclaim" => BitCleared(t)
         /\ pc[t] = "back" => GiveBack(t)
         /\ pc[t] = "copy" => Copied(t)
         /\ pc[t] = "raise" => Raise(t)
         /\ pc[t] = "seek" => Seek(t)
         /\ pc[t] = "move" => MoveRefused(t) \/ Moved(t)
         /\ pc[t] = "idle" => Alloc(t) \/ Read(t) \/ Write(t) \/ Release(t) \/ Move(t)
         /\ pc[t] = "drain" => SpillRun(t) \/ SpillGap(t) \/ Trimmed(t) \/ MoveBegin(t)
<1>1. CASE Alloc(t) \/ Read(t) \/ Write(t) \/ Release(t) \/ Move(t)
  BY <1>1 DEF Alloc, Read, Write, Pass, Release, Move, Call, Goto
<1>2. CASE SpillRun(t) \/ SpillGap(t) \/ Trimmed(t) \/ MoveBegin(t)
  BY <1>2 DEF SpillRun, SpillGap, Trimmed, MoveBegin, Drained
<1>3. CASE Shut(t) \/ TrimSkipped(t)
  BY <1>3 DEF Shut, TrimSkipped, Return, Goto
<1>4. CASE Search(t) \/ LowestBit(t) \/ FetchOr(t) \/ Put(t) \/ StoreLow(t) \/ Raise(t) \/ GiveBack(t)
  BY <1>4 DEF Search, LowestBit, FetchOr, Put, StoreLow, Raise, GiveBack, Return, Goto
<1>5. CASE Copied(t) \/ SlotCleared(t) \/ BitCleared(t) \/ Lowered(t)
  BY <1>5 DEF Copied, SlotCleared, BitCleared, Lowered, Return, Goto
<1>6. CASE Seek(t) \/ MoveRefused(t) \/ Moved(t)
  BY <1>6 DEF Seek, MoveRefused, Moved, Return, Goto
<1> QED BY <1>1, <1>2, <1>3, <1>4, <1>5, <1>6 DEF Acts, Step

LEMMA HeldNames == ASSUME NEW t, Called(t) PROVE held[t] \subseteq Naming(t) /\ Naming(t) \subseteq Having(t)
BY HasMeans DEF HasMeant

LEMMA Dropping ==
  ASSUME MobilisInv, NEW t \in Threads, Acts(t), held[t] \ held'[t] # {}
  PROVE  pc[t] = "idle" /\ pc'[t] = "clear" /\ Release(t)
<1>1. Raise(t) => held[t] \subseteq held'[t]
  BY DEF Raise, MobilisInv, Types
<1>2. Raise(t) \/ Release(t) \/ held' = held
  BY DEF Acts, Step, Alloc, Read, Write, Pass, Move, Shut, SpillRun, SpillGap, Search,
         LowestBit, FetchOr, Put, StoreLow, GiveBack, Copied, SlotCleared, BitCleared, Lowered,
         TrimSkipped, Trimmed, MoveBegin, Seek, MoveRefused, Moved
<1>3. Release(t)
  BY <1>1, <1>2
<1> QED BY <1>3 DEF Release, Call, Goto, MobilisInv, Types

(* The cell a slot that names one names.                                    *)
LEMMA NamedCell ==
  ASSUME MobilisInv, NEW s \in Slots, slot[s] # 0
  PROVE  /\ CellOf(s) \in DOMAIN cell /\ slot[s] = CellOf(s) + CarcerHead
         /\ \E u \in Threads :
              /\ s \in Having(u)
              /\ \/ s \in Naming(u) /\ HoldsAt(u, CellOf(s), asked[s])
                 \/ pc[u] = "clear" /\ s = op[u].slot /\ ~cell[CellOf(s)].busy
<1>1. PICK u \in Threads : s \in Having(u)
  BY DEF MobilisInv, NamesApart
<1>2. Called(u) /\ Celled(u)
  BY DEF MobilisInv
<1>3. CASE s \in Naming(u)
  BY <1>1, <1>2, <1>3, SlotPlace DEF Celled, HoldsAt, HoldsIn, MobilisInv
<1>4. CASE s \notin Naming(u)
  <2>1. pc[u] \in {"put", "clear", "unclaim"} /\ s = op[u].slot
    BY <1>1, <1>2, <1>4, HasMeans DEF HasMeant
  <2>2. pc[u] = "clear"
    BY <2>1, <1>2 DEF Celled
  <2> QED BY <1>1, <1>2, <2>1, <2>2, SlotPlace DEF Celled, MobilisInv
<1> QED BY <1>3, <1>4

LEMMA CellNames ==
  ASSUME MobilisInv, NEW s \in Slots, NEW r \in Slots, s # r, slot[s] # 0
  PROVE  CellOf(s) # CellOf(r)
BY SlotPlace DEF MobilisInv, NamesApart

(* While a pass is inside no cell is swept.                                 *)
LEMMA FreeKept ==
  ASSUME MobilisInv, NEW t \in Threads, Acts(t), inside # {}, NEW o \in DOMAIN cell, ~cell[o].busy
  PROVE  o \in DOMAIN cell' /\ ~cell'[o].busy
<1> USE DEF MobilisInv
<1>1. Resting /\ bounds \in Word
  BY DEF Types, Resting
<1>2. pc[t] \notin {"drain", "seek", "move"} \/ cell' = cell
  BY StepAt DEF Control, SpillRun, SpillGap, Trimmed, MoveBegin, Drained, block
<1>3. CASE Alloc(t)
  <2>1. \/ cell' = cell
        \/ \E laid : cell' = Block!LaidAt(cell, bounds.end, laid)
    BY <1>3 DEF Alloc, block
  <2>2. bounds.end \notin DOMAIN cell
    BY <1>1, CellEnds, Sizes DEF Resting, Lies
  <2> QED BY <2>1, <2>2 DEF Block!LaidAt
<1>4. ASSUME NEW off \in DOMAIN cell, Given(off)
      PROVE  o \in DOMAIN cell' /\ ~cell'[o].busy
  BY <1>1, <1>4 DEF Given, Resting, Lies, CellWord
<1>5. CASE GiveBack(t)
  BY <1>4, <1>5 DEF GiveBack, Celled, Unnamed, HoldsAt, HoldsIn
<1>6. CASE Release(t)
  <2>1. PICK s \in held[t] : Given(CellOf(s))
    BY <1>6 DEF Release
  <2>2. CellOf(s) \in DOMAIN cell
    BY <2>1, HeldNames DEF Celled, HoldsAt, HoldsIn
  <2> QED BY <1>4, <2>1, <2>2
<1>7. \/ Alloc(t) \/ GiveBack(t) \/ Release(t) \/ cell' = cell
  BY <1>2 DEF Acts, Step, Read, Write, Pass, Move, Shut, SpillRun, SpillGap, Search, Drained, Return,
         LowestBit, FetchOr, Put, StoreLow, Raise, Copied, SlotCleared, BitCleared, Lowered,
         TrimSkipped, Trimmed, MoveBegin, Seek, MoveRefused, Moved, Goto, block
<1> QED BY <1>3, <1>5, <1>6, <1>7

(* The cells and the slots of the others stand, but for the one a move      *)
(* carries.                                                                 *)
Moving(t) == pc[t] = "move" /\ pc'[t] = "idle"

LEMMA OthersKeep ==
  ASSUME MobilisInv, NEW t \in Threads, Acts(t), ~Moving(t), NEW u \in Threads, u # t
  PROVE  /\ \A s \in Having(u) : s \in Slots => slot'[s] = slot[s] /\ asked'[s] = asked[s]
         /\ \A o, bytes : HoldsAt(u, o, bytes) => HoldsIn(cell', u, o, bytes)
<1> USE DEF MobilisInv
<1>1. Having(t) \cap Having(u) = {} /\ Called(t)
  BY DEF SlotsExclusive
<1>2. pc[t] \in {"put", "clear"} => op[t].slot \in Having(t)
  BY <1>1, HasMeans DEF HasMeant
<1>3. held[t] \subseteq Naming(t) /\ Naming(t) \subseteq Having(t)
  BY <1>1, HeldNames
<1>4. \A s \in Having(u) : s \in Slots => slot'[s] = slot[s] /\ asked'[s] = asked[s]
  BY <1>1, <1>2, <1>3, NamesStep DEF Moving
<1>5. ASSUME NEW o, NEW bytes, HoldsAt(u, o, bytes) PROVE o \notin Lets(t)
  <2>1. cell[o].owner = u
    BY <1>5 DEF HoldsAt, HoldsIn
  <2>2. pc[t] = "back" => cell[op[t].off].owner = t
    BY DEF Celled, Unnamed, HoldsAt, HoldsIn
  <2>3. \A s \in held[t] : cell[CellOf(s)].owner = t
    BY <1>3 DEF Celled, HoldsAt, HoldsIn
  <2> QED BY <2>1, <2>2, <2>3 DEF Lets, Moving
<1>6. \A o, bytes : HoldsAt(u, o, bytes) => HoldsIn(cell', u, o, bytes)
  BY <1>5, CellsStep DEF Keeps, HoldsAt, HoldsIn
<1> QED BY <1>4, <1>6

LEMMA CelledOthers ==
  ASSUME MobilisInv, NEW t \in Threads, Acts(t), ~Moving(t), NEW u \in Threads, u # t
  PROVE  Celled(u)'
<1>1. /\ pc'[u] = pc[u] /\ op'[u] = op[u] /\ held'[u] = held[u]
      /\ Having(u)' = Having(u) /\ Naming(u)' = Naming(u) /\ (Unnamed(u)' <=> Unnamed(u))
  BY LocalsStep, OthersHave DEF Others
<1>2. Celled(u) /\ Called(u) /\ op[u] \in Calls /\ held[u] \subseteq Slots
  BY DEF MobilisInv, Types
<1>3. Having(u) \subseteq Slots /\ Naming(u) \subseteq Having(u)
  BY <1>2, HeldNames, HasMeans DEF Having, Calls
<1>4. \A s \in Having(u) : slot'[s] = slot[s] /\ asked'[s] = asked[s] /\ CellOf(s)' = CellOf(s)
  BY <1>3, OthersKeep DEF CellOf
<1>5. ASSUME NEW s \in Naming(u)' PROVE slot'[s] # 0 /\ HoldsAt(u, CellOf(s), asked[s])'
  <2>1. s \in Naming(u) /\ s \in Having(u)
    BY <1>1, <1>3, <1>5
  <2>2. slot[s] # 0 /\ HoldsAt(u, CellOf(s), asked[s])
    BY <2>1, <1>2 DEF Celled
  <2>3. HoldsIn(cell', u, CellOf(s), asked[s])
    BY <2>2, OthersKeep
  <2> QED BY <2>1, <2>2, <2>3, <1>4 DEF HoldsAt
<1>6. ASSUME Unnamed(u)'
      PROVE  /\ HoldsAt(u, op[u].off, op[u].want)'
             /\ \A s \in Naming(u)' : CellOf(s)' # op'[u].off
  <2>1. /\ HoldsAt(u, op[u].off, op[u].want)
        /\ \A s \in Naming(u) : CellOf(s) # op[u].off
    BY <1>1, <1>2, <1>6 DEF Celled
  <2>2. HoldsIn(cell', u, op[u].off, op[u].want)
    BY <2>1, OthersKeep
  <2> QED BY <2>1, <2>2, <1>1, <1>3, <1>4 DEF HoldsAt
<1>7. pc'[u] \in {"put", "unclaim"} => slot'[op'[u].slot] = 0
  BY <1>1, <1>2, <1>4, HasMeans DEF HasMeant, Celled
<1>8. ASSUME pc'[u] = "clear"
      PROVE  /\ slot'[op'[u].slot] # 0 /\ CellOf(op[u].slot)' \in DOMAIN cell'
             /\ ~cell'[CellOf(op[u].slot)'].busy
  <2>1. /\ slot[op[u].slot] # 0 /\ CellOf(op[u].slot) \in DOMAIN cell
        /\ ~cell[CellOf(op[u].slot)].busy /\ op[u].slot \in Having(u)
    BY <1>1, <1>2, <1>8, HasMeans DEF Celled, HasMeant
  <2>2. u \in inside
    BY <1>1, <1>8 DEF MobilisInv, Control, Passing
  <2>3. CellOf(op[u].slot) \in DOMAIN cell' /\ ~cell'[CellOf(op[u].slot)].busy
    BY <2>1, <2>2, FreeKept
  <2>4. slot'[op[u].slot] = slot[op[u].slot]
    BY <2>1, <1>4
  <2> QED BY <2>1, <2>3, <2>4, <1>1 DEF CellOf
<1> QED BY <1>5, <1>6, <1>7, <1>8 DEF Celled

LEMMA MovingMoves ==
  ASSUME NEW t, Acts(t), Moving(t), MobilisInv PROVE Moved(t)
BY StepAt DEF Moving, MoveRefused, Goto, MobilisInv, Types

LEMMA CelledMoves ==
  ASSUME MobilisInv, NEW t \in Threads, Acts(t), Moving(t), NEW u \in Threads
  PROVE  Celled(u)'
<1> DEFINE s0 == op[t].slot
           off == CellOf(s0)
           size == cell[off].size
<1>1. Moved(t) /\ pc'[t] = "idle" /\ inside = {} /\ held' = held /\ asked' = asked
  BY MovingMoves, MovedMeans DEF history, Moving
<1>2. PICK at \in Nat : MovesTo(t, s0, at)
  BY <1>1, MovedMeans
<1>3. /\ s0 \in Slots /\ slot[s0] # 0 /\ slot \in [Slots -> Nat]
      /\ slot' = [slot EXCEPT ![s0] = at + CarcerHead]
      /\ cell[off].busy /\ size \in Nat
      /\ HoldsIn(cell', cell[off].owner, at, size)
      /\ \A o \in DOMAIN cell : cell[o].busy /\ o # off =>
           o # at /\ o \in DOMAIN cell' /\ cell'[o] = cell[o]
  BY <1>2 DEF MovesTo, HoldsIn, MobilisInv, Types
<1>4. PICK v \in Threads : s0 \in Naming(v) /\ HoldsAt(v, off, asked[s0])
  BY <1>1, <1>3, NamedHeld
<1>5. /\ Celled(u) /\ Called(u) /\ Celled(v) /\ Called(v) /\ SlotsExclusive
      /\ held[u] \subseteq Slots /\ op[u] \in Calls
  BY DEF MobilisInv, Types
<1>6. Naming(u) \subseteq Having(u) /\ Having(u) \subseteq Slots /\ Naming(v) \subseteq Having(v)
  BY <1>5, HeldNames DEF Having, Calls
<1>7. cell[off].owner = v /\ size >= asked[s0] /\ asked[s0] \in Nat
  BY <1>4, <1>3 DEF HoldsAt, HoldsIn, MobilisInv, Types
<1>8. \A r \in Slots : r # s0 => slot'[r] = slot[r]
  BY <1>3
<1>9. slot'[s0] = at + CarcerHead /\ slot'[s0] # 0
  BY <1>3, Sizes
<1>10. pc'[u] = pc[u] \/ u = t
  BY LocalsStep DEF Others
<1>11. pc[u] \notin {"clear", "unclaim"}
  BY <1>1 DEF MobilisInv, Control, Passing
<1>12. Naming(u)' = Naming(u)
  <2>1. CASE u = t
    <3>1. held'[t] = held[t] /\ pc[t] = "move" /\ Called(t)' /\ Called(t)
      BY <1>1, CalledSelf DEF Moving, MobilisInv
    <3>2. Naming(t)' = held'[t]
      BY <3>1, <1>1, HasMeansNext DEF HasMeant
    <3>3. Naming(t) = held[t]
      BY <3>1, HasMeans DEF HasMeant
    <3> QED BY <2>1, <3>1, <3>2, <3>3
  <2>2. CASE u # t
    BY <2>2, LocalsStep, OthersHave DEF Others
  <2> QED BY <2>1, <2>2
<1>13. ASSUME NEW s \in Naming(u)
       PROVE  slot'[s] # 0 /\ HoldsIn(cell', u, slot'[s] - CarcerHead, asked[s])
  <2>1. s \in Slots /\ slot[s] # 0 /\ HoldsAt(u, CellOf(s), asked[s])
    BY <1>5, <1>6, <1>13 DEF Celled
  <2>2. CASE s = s0
    <3>1. u = v
      BY <2>2, <1>4, <1>5, <1>6, <1>13 DEF SlotsExclusive
    <3>2. slot'[s] - CarcerHead = at
      BY <2>2, <1>9, Sizes
    <3>3. cell'[at].size >= size /\ cell'[at].size \in Nat
      <4>1. Lies(cell', bounds'.end)
        BY CellsStep DEF Keeps
      <4>2. at \in DOMAIN cell'
        BY <1>3 DEF HoldsIn
      <4>3. cell'[at].size \in Nat
        BY <4>1, <4>2 DEF Lies, CellWord
      <4> QED BY <4>3, <1>3 DEF HoldsIn
    <3> HIDE DEF size
    <3>4. cell'[at].size >= asked[s]
      BY <2>2, <3>3, <1>3, <1>7
    <3> QED BY <2>2, <3>1, <3>2, <3>4, <1>3, <1>7, <1>9 DEF HoldsIn
  <2>3. CASE s # s0
    <3>1. CellOf(s) # off
      BY <2>1, <2>3, <1>3, CellNames
    <3> QED BY <2>1, <2>3, <3>1, <1>3, <1>8 DEF HoldsAt, HoldsIn, CellOf
  <2> QED BY <2>2, <2>3
<1>14. ASSUME Unnamed(u)'
       PROVE  /\ HoldsIn(cell', u, op'[u].off, op'[u].want)
              /\ \A s \in Naming(u) : slot'[s] - CarcerHead # op'[u].off
  <2>1. u # t
    BY <1>1, <1>14 DEF Unnamed
  <2>2. op'[u] = op[u] /\ Unnamed(u)
    BY <2>1, <1>14, LocalsStep, OthersHave DEF Others
  <2>3. /\ HoldsAt(u, op[u].off, op[u].want)
        /\ \A s \in Naming(u) : CellOf(s) # op[u].off
    BY <2>2, <1>5 DEF Celled
  <2>4. op[u].off # off
    <3>1. CASE u = v
      BY <3>1, <2>3, <1>4
    <3>2. CASE u # v
      BY <3>2, <2>3, <1>7 DEF HoldsAt, HoldsIn
    <3> QED BY <3>1, <3>2
  <2>5. op[u].off # at /\ HoldsIn(cell', u, op[u].off, op[u].want)
    BY <2>3, <2>4, <1>3 DEF HoldsAt, HoldsIn
  <2>6. ASSUME NEW s \in Naming(u) PROVE slot'[s] - CarcerHead # op[u].off
    <3>1. CASE s = s0
      BY <3>1, <2>5, <1>9, Sizes
    <3>2. CASE s # s0
      BY <3>2, <2>3, <2>6, <1>6, <1>8 DEF CellOf
    <3> QED BY <3>1, <3>2
  <2> QED BY <2>2, <2>5, <2>6
<1>15. pc'[u] \in {"put", "unclaim"} => slot'[op'[u].slot] = 0
  <2> SUFFICES ASSUME pc'[u] \in {"put", "unclaim"} PROVE slot'[op'[u].slot] = 0
    OBVIOUS
  <2>1. u # t
    BY <1>1
  <2>2. pc[u] \in {"put", "unclaim"} /\ op'[u] = op[u]
    BY <2>1, LocalsStep DEF Others
  <2>3. op[u].slot \in Slots /\ slot[op[u].slot] = 0
    BY <2>2, <1>5 DEF Celled, Called, Calls
  <2>4. op[u].slot # s0
    BY <2>3, <1>3
  <2> QED BY <2>2, <2>3, <2>4, <1>8
<1>16. pc'[u] # "clear"
  BY <1>1, <1>10, <1>11
<1>17. \A s : CellOf(s)' = slot'[s] - CarcerHead
  BY DEF CellOf
<1> QED BY <1>1, <1>12, <1>13, <1>14, <1>15, <1>16, <1>17 DEF Celled, HoldsAt

(* A take's cell is laid where no cell in use was.                          *)
Taking(t) == pc'[t] = "search" /\ pc[t] \in {"idle", "drain"}

LEMMA TakenStep ==
  ASSUME MobilisInv, NEW t \in Threads, Acts(t), Taking(t)
  PROVE  /\ HoldsIn(cell', t, op'[t].off, op'[t].want)
         /\ \A o \in DOMAIN cell : cell[o].busy => o # op'[t].off
<1> USE DEF MobilisInv
<1>1. Resting /\ bounds \in Word
  BY DEF Types, Resting
<1>2. pc \in [Threads -> Steps] /\ op \in [Threads -> Calls] /\ op[t] \in Calls
  BY DEF Types
<1>3. ASSUME NEW cells, NEW off, NEW size \in Nat \ {0}, NEW want \in Nat, size >= want,
             cell' = Block!LaidAt(cells, off, Block!BusyCell(size, t))
      PROVE  HoldsIn(cell', t, off, want)
  <2> DEFINE laid == Block!BusyCell(size, t)
  <2>1. laid.busy /\ laid.owner = t /\ laid.size = size
    BY LaidWords
  <2> HIDE DEF laid
  <2>2. off \in DOMAIN cell' /\ cell'[off] = laid
    BY <1>3 DEF Block!LaidAt, laid
  <2> QED BY <2>1, <2>2, <1>3 DEF HoldsIn
<1>4. CASE Alloc(t)
  <2>1. PICK request \in Requests :
          /\ cell' = Block!LaidAt(cell, bounds.end, Block!BusyCell(carcer_want(request), t))
          /\ op' = [op EXCEPT ![t] = [NoOp EXCEPT !.kind = "take", !.want = carcer_want(request),
                                                  !.off = bounds.end]]
    BY <1>4, <1>2 DEF Taking, Alloc, Call, Goto
  <2> DEFINE want == carcer_want(request)
  <2>2. want \in Nat \ {0}
    BY Wants, MobilisAssumption
  <2> HIDE DEF want
  <2>3. op'[t].off = bounds.end /\ op'[t].want = want
    BY <2>1, <1>2 DEF NoOp, want
  <2>4. HoldsIn(cell', t, bounds.end, want)
    BY <2>1, <2>2, <1>3 DEF want
  <2>5. \A o \in DOMAIN cell : o # bounds.end
    BY <1>1, CellEnds, Sizes DEF Resting, Lies
  <2> QED BY <2>3, <2>4, <2>5
<1>5. CASE SpillRun(t)
  <2> DEFINE want == op[t].want
             run == Block!FirstRun(Free, want)
  <2>1. /\ cell' = SplitAt(run, want, t) /\ op'[t].off = run.at /\ op'[t].want = want
        /\ Block!Holding(Free, want) # {} /\ op[t].kind = "take"
    BY <1>5, <1>2 DEF SpillRun, Laid, SplitAt, Drained, Calls
  <2>2. want \in Nat \ {0}
    BY <2>1, <1>2 DEF Calls, Called
  <2>3. run \in Block!Runs(Free) /\ Block!RunSize(run) >= want
    BY <2>1, <1>1, FirstHolding
  <2> HIDE DEF run, want, MobilisInv
  <2>4. /\ Block!SplitSize(run, want) \in Nat \ {0} /\ Block!SplitSize(run, want) >= want
        /\ \A o \in DOMAIN cell : cell[o].busy => o # run.at
    <3>1. t \in Threads \cup {NoOwner}
      OBVIOUS
    <3> QED BY ONLY <3>1, <1>1, <2>2, <2>3, RunTaken
  <2>5. HoldsIn(cell', t, run.at, want)
    BY <2>1, <2>2, <2>4, <1>3 DEF SplitAt
  <2> QED BY <2>1, <2>4, <2>5
<1>6. CASE SpillGap(t)
  <2> DEFINE want == op[t].want
             end == Block!SweptEnd(Free)
             swept == Block!SweptCells(Free)
  <2>1. /\ cell' = Block!LaidAt(swept, end, Block!BusyCell(want, t))
        /\ op'[t].off = end /\ op'[t].want = want /\ op[t].kind = "take"
    BY <1>6, <1>2 DEF Taking, SpillGap, Laid, Drained, Return, Goto, Calls
  <2>2. want \in Nat \ {0}
    BY <2>1, <1>2 DEF Calls, Called
  <2>3. /\ Lies(swept, end)
        /\ \A o \in DOMAIN cell : cell[o].busy => o \in DOMAIN swept
    BY <1>1, Swept
  <2> HIDE DEF want, end, swept
  <2>4. \A o \in DOMAIN swept : o # end
    BY <2>3, CellEnds, Sizes DEF Lies
  <2>5. HoldsIn(cell', t, end, want)
    BY <2>1, <2>2, <1>3
  <2> QED BY <2>1, <2>3, <2>4, <2>5
<1>7. Alloc(t) \/ SpillRun(t) \/ SpillGap(t)
  <2>1. Trimmed(t) => pc'[t] = "idle"
    BY <1>2 DEF Trimmed, Return, Goto
  <2>2. MoveBegin(t) => pc'[t] = "seek"
    BY <1>2 DEF MoveBegin, Goto
  <2>3. Read(t) \/ Write(t) \/ Release(t) \/ Move(t) => pc'[t] # "search"
    BY <1>2 DEF Read, Write, Pass, Release, Move, Call, Goto
  <2> QED BY <2>1, <2>2, <2>3, StepAt DEF Taking
<1> QED BY <1>4, <1>5, <1>6, <1>7

(* A take without a slot keeps its cell until it gives it back.             *)
LEMMA UnnamedStep ==
  ASSUME MobilisInv, NEW t \in Threads, Acts(t), Unnamed(t)'
  PROVE  \/ Taking(t)
         \/ /\ Unnamed(t) /\ pc[t] \notin {"put", "back"} /\ held' = held
            /\ op'[t].off = op[t].off /\ op'[t].want = op[t].want
<1>1. /\ pc \in [Threads -> Steps] /\ op \in [Threads -> Calls] /\ op[t] \in Calls /\ Called(t)
  BY DEF MobilisInv, Types
<1>2. CASE \/ Alloc(t) \/ Read(t) \/ Write(t) \/ Release(t) \/ Move(t) \/ Shut(t)
  BY <1>1, <1>2 DEF Alloc, Read, Write, Pass, Release, Move, Shut, Call, Goto, Unnamed, Taking
<1>3. CASE SpillRun(t) \/ SpillGap(t)
  BY <1>1, <1>3 DEF SpillRun, SpillGap, Drained, Laid, Return, Goto, Unnamed, Taking
<1>4. CASE Search(t) \/ LowestBit(t) \/ FetchOr(t)
  BY <1>1, <1>4 DEF Search, LowestBit, FetchOr, Goto, Unnamed, Calls
<1>5. CASE Put(t)
  BY <1>1, <1>5 DEF Put, Goto, Unnamed, Called
<1>6. CASE StoreLow(t)
  BY <1>1, <1>6 DEF StoreLow, Goto, Unnamed, Calls
<1>7. CASE Raise(t) \/ GiveBack(t) \/ Copied(t) \/ SlotCleared(t) \/ BitCleared(t) \/ Lowered(t)
  BY <1>1, <1>7 DEF Raise, GiveBack, Copied, SlotCleared, BitCleared, Lowered, Return, Goto, Unnamed
<1>8. CASE TrimSkipped(t) \/ Trimmed(t) \/ MoveBegin(t) \/ MoveRefused(t)
  BY <1>1, <1>8 DEF TrimSkipped, Trimmed, MoveBegin, MoveRefused, Return, Goto, Unnamed
<1>9. CASE Seek(t) \/ Moved(t)
  BY <1>1, <1>9 DEF Seek, Moved, Return, Goto, Unnamed
<1> QED BY <1>2, <1>3, <1>4, <1>5, <1>6, <1>7, <1>8, <1>9 DEF Acts, Step

LEMMA SelfKeeps ==
  ASSUME MobilisInv, NEW t \in Threads, Acts(t), ~Moving(t), NEW s \in Naming(t), s \in Naming(t)'
  PROVE  /\ s \in Slots /\ slot[s] # 0 /\ slot'[s] = slot[s] /\ asked'[s] = asked[s]
         /\ HoldsIn(cell', t, CellOf(s), asked[s])
<1>1. /\ Called(t) /\ Celled(t) /\ Called(t)' /\ held[t] \subseteq Slots /\ op[t] \in Calls
      /\ \A r \in held[t] : r \in Slots
  BY CalledSelf DEF MobilisInv, Types
<1>2. s \in Slots /\ slot[s] # 0 /\ HoldsAt(t, CellOf(s), asked[s])
  BY <1>1, HeldNames DEF Celled, Having, Calls
<1>3. s \notin held[t] \ held'[t]
  <2> SUFFICES ASSUME s \in held[t] \ held'[t] PROVE FALSE
    OBVIOUS
  <2>1. pc'[t] = "clear"
    BY Dropping
  <2>2. Naming(t)' = held'[t]
    BY <2>1, <1>1, HasMeansNext DEF HasMeant
  <2> QED BY <2>2
<1>4. pc[t] \in {"put", "clear"} => s # op[t].slot
  BY <1>1, HasMeans DEF HasMeant, Called
<1>5. slot'[s] = slot[s] /\ asked'[s] = asked[s]
  BY <1>2, <1>3, <1>4, NamesStep DEF Moving
<1>6. CellOf(s) \notin Lets(t)
  <2>1. pc[t] = "back" => CellOf(s) # op[t].off
    BY <1>1 DEF Celled, Unnamed
  <2>2. ASSUME NEW r \in held[t] \ held'[t] PROVE CellOf(s) # CellOf(r)
    <3>1. r # s /\ r \in Slots
      BY <1>1, <1>3, <2>2
    <3> QED BY <3>1, <1>2, CellNames
  <2> QED BY <2>1, <2>2 DEF Lets, Moving
<1>7. HoldsIn(cell', t, CellOf(s), asked[s])
  BY <1>2, <1>6, CellsStep DEF Keeps, HoldsAt, HoldsIn
<1> QED BY <1>2, <1>5, <1>7

LEMMA CelledSelf ==
  ASSUME MobilisInv, NEW t \in Threads, Acts(t), ~Moving(t)
  PROVE  Celled(t)'
<1>1. /\ Called(t) /\ Celled(t) /\ Called(t)' /\ held[t] \subseteq Slots /\ op[t] \in Calls
      /\ pc \in [Threads -> Steps] /\ op \in [Threads -> Calls] /\ slot \in [Slots -> Nat]
      /\ asked \in [Slots -> Nat] /\ held \in [Threads -> SUBSET Slots]
  BY CalledSelf DEF MobilisInv, Types
<1>2. Naming(t)' \subseteq Naming(t) \cup (IF pc[t] = "put" THEN {op[t].slot} ELSE {})
  BY HavingStep
<1>3. \A s : CellOf(s)' = slot'[s] - CarcerHead
  BY DEF CellOf
<1>4. ASSUME NEW s \in Naming(t)'
      PROVE  slot'[s] # 0 /\ HoldsIn(cell', t, slot'[s] - CarcerHead, asked'[s])
  <2>1. CASE s \in Naming(t)
    BY <2>1, <1>4, SelfKeeps DEF CellOf
  <2>2. CASE s \notin Naming(t)
    <3>1. pc[t] = "put" /\ s = op[t].slot /\ Put(t)
      BY <2>2, <1>2, <1>4, StepAt
    <3>2. s \in Slots
      BY <3>1, <1>1 DEF Called, Calls
    <3>3. slot'[s] = op[t].off + CarcerHead /\ asked'[s] = op[t].want /\ cell' = cell
      BY <3>1, <3>2, <1>1 DEF Put, block
    <3>4. HoldsIn(cell, t, op[t].off, op[t].want) /\ op[t].off \in Nat
      BY <3>1, <1>1 DEF Celled, Unnamed, HoldsAt, Calls
    <3>5. slot'[s] - CarcerHead = op[t].off /\ slot'[s] # 0
      BY <3>3, <3>4, Sizes
    <3> QED BY <3>3, <3>4, <3>5
  <2> QED BY <2>1, <2>2
<1>5. ASSUME Unnamed(t)'
      PROVE  /\ HoldsIn(cell', t, op'[t].off, op'[t].want)
             /\ \A s \in Naming(t)' : slot'[s] - CarcerHead # op'[t].off
  <2>1. CASE Taking(t)
    <3>1. \A s \in Naming(t)' : s \in Naming(t)
      BY <2>1, <1>2 DEF Taking
    <3>2. \A s \in Naming(t)' : /\ slot'[s] - CarcerHead = CellOf(s)
                                /\ CellOf(s) \in DOMAIN cell /\ cell[CellOf(s)].busy
      BY <3>1, <1>1, SelfKeeps DEF Celled, HoldsAt, HoldsIn, CellOf
    <3> QED BY <2>1, <3>2, TakenStep
  <2>2. CASE /\ Unnamed(t) /\ pc[t] \notin {"put", "back"} /\ held' = held
             /\ op'[t].off = op[t].off /\ op'[t].want = op[t].want
    <3>1. HoldsAt(t, op[t].off, op[t].want) /\ \A s \in Naming(t) : CellOf(s) # op[t].off
      BY <2>2, <1>1 DEF Celled
    <3>2. Lets(t) = {}
      BY <2>2 DEF Lets, Moving
    <3>3. HoldsIn(cell', t, op[t].off, op[t].want)
      BY <3>1, <3>2, CellsStep DEF Keeps, HoldsAt, HoldsIn
    <3>4. \A s \in Naming(t)' : s \in Naming(t) /\ slot'[s] - CarcerHead = CellOf(s)
      BY <2>2, <1>2, SelfKeeps DEF CellOf
    <3> QED BY <2>2, <3>1, <3>3, <3>4
  <2> QED BY <1>5, <2>1, <2>2, UnnamedStep
<1>6. ASSUME pc'[t] = "put" PROVE slot'[op'[t].slot] = 0
  <2>1. FetchOr(t)
    <3>1. CASE \/ Alloc(t) \/ Read(t) \/ Write(t) \/ Release(t) \/ Move(t) \/ Shut(t)
      BY <3>1, <1>1, <1>6 DEF Alloc, Read, Write, Pass, Release, Move, Shut, Call, Goto
    <3>2. CASE \/ SpillRun(t) \/ SpillGap(t) \/ Search(t) \/ LowestBit(t) \/ Put(t) \/ StoreLow(t)
               \/ Raise(t) \/ GiveBack(t)
      BY <3>2, <1>1, <1>6 DEF SpillRun, SpillGap, Search, LowestBit, Put, StoreLow, Raise, GiveBack,
                              Return, Goto
    <3>3. CASE \/ Copied(t) \/ SlotCleared(t) \/ BitCleared(t) \/ Lowered(t) \/ TrimSkipped(t)
               \/ Trimmed(t) \/ MoveBegin(t) \/ MoveRefused(t)
      BY <3>3, <1>1, <1>6 DEF Copied, SlotCleared, BitCleared, Lowered, TrimSkipped, Trimmed,
                              MoveBegin, MoveRefused, Return, Goto
    <3>4. CASE Seek(t) \/ Moved(t)
      BY <3>4, <1>1, <1>6 DEF Seek, Moved, Return, Goto
    <3> QED BY <3>1, <3>2, <3>3, <3>4 DEF Acts, Step
  <2>2. op[t].slot \notin claimed \cup {0} /\ op' = op /\ slot' = slot
    BY <1>1, <1>6, <2>1 DEF FetchOr, Goto
  <2>3. op[t].slot \in Slots
    BY <1>1, <2>2 DEF Calls
  <2>4. \A u \in Threads : op[t].slot \notin Having(u)
    BY <2>2 DEF MobilisInv, SlotsExclusive
  <2>5. slot[op[t].slot] = 0
    BY <2>3, <2>4 DEF MobilisInv, NamesApart
  <2> QED BY <2>2, <2>5
<1>7. ASSUME pc'[t] = "unclaim" PROVE slot'[op'[t].slot] = 0
  <2>1. SlotCleared(t)
    <3>1. CASE \/ Alloc(t) \/ Read(t) \/ Write(t) \/ Release(t) \/ Move(t) \/ Shut(t)
      BY <3>1, <1>1, <1>7 DEF Alloc, Read, Write, Pass, Release, Move, Shut, Call, Goto
    <3>2. CASE \/ SpillRun(t) \/ SpillGap(t) \/ Search(t) \/ LowestBit(t) \/ FetchOr(t) \/ Put(t)
               \/ StoreLow(t) \/ Raise(t) \/ GiveBack(t)
      BY <3>2, <1>1, <1>7 DEF SpillRun, SpillGap, Search, LowestBit, FetchOr, Put, StoreLow, Raise,
                              GiveBack, Return, Goto
    <3>3. CASE \/ Copied(t) \/ BitCleared(t) \/ Lowered(t) \/ TrimSkipped(t)
               \/ Trimmed(t) \/ MoveBegin(t) \/ MoveRefused(t)
      BY <3>3, <1>1, <1>7 DEF Copied, BitCleared, Lowered, TrimSkipped, Trimmed,
                              MoveBegin, MoveRefused, Return, Goto
    <3>4. CASE Seek(t) \/ Moved(t)
      BY <3>4, <1>1, <1>7 DEF Seek, Moved, Return, Goto
    <3> QED BY <3>1, <3>2, <3>3, <3>4 DEF Acts, Step
  <2>2. op[t].slot \in Slots
    BY <2>1, <1>1 DEF SlotCleared, Goto, Called, Calls
  <2> QED BY <2>1, <2>2, <1>1 DEF SlotCleared
<1>8. ASSUME pc'[t] = "clear"
      PROVE  /\ slot'[op'[t].slot] # 0 /\ slot'[op'[t].slot] - CarcerHead \in DOMAIN cell'
             /\ ~cell'[slot'[op'[t].slot] - CarcerHead].busy
  <2>1. Release(t)
    <3>1. CASE \/ Alloc(t) \/ Read(t) \/ Write(t) \/ Move(t) \/ Shut(t)
      BY <3>1, <1>1, <1>8 DEF Alloc, Read, Write, Pass, Move, Shut, Call, Goto
    <3>2. CASE \/ SpillRun(t) \/ SpillGap(t) \/ Search(t) \/ LowestBit(t) \/ FetchOr(t) \/ Put(t)
               \/ StoreLow(t) \/ Raise(t) \/ GiveBack(t)
      BY <3>2, <1>1, <1>8 DEF SpillRun, SpillGap, Search, LowestBit, FetchOr, Put, StoreLow, Raise,
                              GiveBack, Return, Goto
    <3>3. CASE \/ Copied(t) \/ SlotCleared(t) \/ BitCleared(t) \/ Lowered(t) \/ TrimSkipped(t)
               \/ Trimmed(t) \/ MoveBegin(t) \/ MoveRefused(t)
      BY <3>3, <1>1, <1>8 DEF Copied, SlotCleared, BitCleared, Lowered, TrimSkipped, Trimmed,
                              MoveBegin, MoveRefused, Return, Goto
    <3>4. CASE Seek(t) \/ Moved(t)
      BY <3>4, <1>1, <1>8 DEF Seek, Moved, Return, Goto
    <3> QED BY <3>1, <3>2, <3>3, <3>4 DEF Acts, Step
  <2>2. PICK s \in held[t] : /\ op'[t].slot = s /\ slot' = slot /\ Given(CellOf(s)) /\ bounds' = bounds
                             /\ held'[t] = held[t] \ {s}
    BY <2>1, <1>1 DEF Release, Call, Goto, table, NoOp
  <2>3. slot[s] # 0 /\ CellOf(s) \in DOMAIN cell
    BY <1>1, HeldNames DEF Celled, HoldsAt, HoldsIn
  <2>4. CellOf(s) \in Lets(t)
    BY <2>2 DEF Lets
  <2>5. Resting /\ bounds \in Word
    BY DEF MobilisInv, Resting, Types
  <2>6. CellOf(s) \in DOMAIN cell' /\ ~cell'[CellOf(s)].busy
    BY <2>2, <2>3, <2>4, <2>5, GivenKeeps
  <2> QED BY <2>2, <2>3, <2>6 DEF CellOf
<1> QED BY <1>3, <1>4, <1>5, <1>6, <1>7, <1>8 DEF Celled, HoldsAt

LEMMA NamesApartStep ==
  ASSUME MobilisInv, NEW t \in Threads, Acts(t)
  PROVE  NamesApart'
<1>1. /\ Called(t) /\ Celled(t) /\ NamesApart /\ op[t] \in Calls /\ slot \in [Slots -> Nat]
      /\ Control /\ slot' \in [Slots -> Nat]
  BY NamesStep DEF MobilisInv, Types
<1>2. \A u \in Threads : u # t => Having(u)' = Having(u)
  BY LocalsStep, OthersHave DEF Others
<1>3. ASSUME NEW s \in Slots, slot'[s] # 0 PROVE \E u \in Threads : s \in Having(u)'
  <2>1. CASE slot[s] = 0
    <3>1. pc[t] = "put" /\ s = op[t].slot
      <4>1. pc[t] # "clear"
        BY <2>1, <1>1, <1>3, NamesStep DEF Celled
      <4>2. pc[t] = "move" => slot[op[t].slot] # 0
        BY MoverNames
      <4> QED BY <2>1, <4>1, <4>2, <1>3, NamesStep
    <3>2. s \in Having(t) /\ Having(t)' = Having(t)
      BY <3>1, <1>1, HavingStep, HasMeans DEF HasMeant
    <3> QED BY <3>2
  <2>2. CASE slot[s] # 0
    <3>1. PICK u \in Threads : s \in Having(u)
      BY <2>2, <1>1 DEF NamesApart
    <3>2. CASE u # t
      BY <3>1, <3>2, <1>2
    <3>3. CASE u = t
      <4>1. ~(pc[t] = "unclaim" /\ s = op[t].slot)
        BY <2>2, <1>1 DEF Celled
      <4> QED BY <3>1, <3>3, <4>1, HavingStep
    <3> QED BY <3>2, <3>3
  <2> QED BY <2>1, <2>2
<1>4. ASSUME NEW s \in Slots, NEW r \in Slots, s # r, slot'[s] # slot[s], slot'[s] # 0
      PROVE  slot'[s] # slot'[r]
  <2>1. s = op[t].slot /\ slot'[r] = slot[r]
    BY <1>4, NamesStep
  <2>2. slot[r] # 0 => CellOf(r) \in DOMAIN cell /\ slot[r] = CellOf(r) + CarcerHead
    BY NamedCell
  <2>3. CASE pc[t] = "put"
    <3>1. slot'[s] = op[t].off + CarcerHead
      <4>1. Put(t)
        BY <2>3, StepAt
      <4>2. slot' = [slot EXCEPT ![op[t].slot] = op[t].off + CarcerHead]
        BY ONLY <4>1 DEF Put
      <4>3. DOMAIN slot = Slots /\ op[t].slot = s
        BY <2>1, <1>1
      <4> QED BY ONLY <4>2, <4>3, s \in Slots
    <3>2. HoldsAt(t, op[t].off, op[t].want) /\ \A q \in Naming(t) : CellOf(q) # op[t].off
      BY <2>3, <1>1 DEF Celled, Unnamed
    <3>3. slot[r] # 0 => CellOf(r) # op[t].off
      BY <3>2, NamedCell DEF HoldsAt, HoldsIn
    <3>4. op[t].off \in Nat /\ slot[r] \in Nat /\ CellOf(r) \in Int
      BY <1>1, Sizes DEF Calls, CellOf
    <3> QED BY <2>1, <2>2, <3>1, <3>3, <3>4, <1>4, Sizes
  <2>4. CASE pc[t] = "clear"
    <3>1. slot'[s] = 0
      <4>1. SlotCleared(t)
        BY <2>4, StepAt
      <4>2. slot' = [slot EXCEPT ![op[t].slot] = 0]
        BY ONLY <4>1 DEF SlotCleared
      <4>3. DOMAIN slot = Slots /\ op[t].slot = s
        BY <2>1, <1>1
      <4> QED BY ONLY <4>2, <4>3, s \in Slots
    <3> QED BY <3>1, <1>4
  <2>5. CASE Moving(t)
    <3>1. Moved(t) /\ inside = {}
      BY <2>5, MovingMoves, MovedMeans
    <3>2. PICK at \in Nat : MovesTo(t, s, at)
      BY <2>1, <3>1, MovedMeans
    <3>3. /\ slot'[s] = at + CarcerHead /\ slot[s] # 0
          /\ \A o \in DOMAIN cell : cell[o].busy /\ o # CellOf(s) => o # at
      BY <3>2, <1>1 DEF MovesTo
    <3>4. slot[r] # 0 => CellOf(r) # at
      <4> SUFFICES ASSUME slot[r] # 0 PROVE CellOf(r) # at
        OBVIOUS
      <4>1. CellOf(r) \in DOMAIN cell /\ cell[CellOf(r)].busy
        BY <3>1, NamedHeld DEF HoldsAt, HoldsIn
      <4>2. CellOf(r) # CellOf(s)
        BY <3>3, <1>4, CellNames
      <4> QED BY <3>3, <4>1, <4>2
    <3>5. slot[r] \in Nat /\ CellOf(r) \in Int
      BY <1>1, Sizes DEF CellOf
    <3> QED BY <2>1, <2>2, <3>3, <3>4, <3>5, <1>4, Sizes
  <2> QED BY <2>3, <2>4, <2>5, <1>4, NamesStep DEF Moving
<1>5. ASSUME NEW s \in Slots, NEW r \in Slots, s # r, slot'[s] # 0 PROVE slot'[s] # slot'[r]
  <2>1. CASE slot'[s] = slot[s] /\ slot'[r] = slot[r]
    BY <2>1, <1>1, <1>5 DEF NamesApart
  <2>2. CASE slot'[s] # slot[s]
    BY <2>2, <1>4, <1>5
  <2>3. CASE slot'[r] # slot[r]
    BY <2>3, <1>4, <1>5
  <2> QED BY <2>1, <2>2, <2>3
<1> QED BY <1>3, <1>5 DEF NamesApart

(* A slot that is held and written was held before the step.                *)
LEMMA WrittenHeld ==
  ASSUME MobilisInv, NEW t \in Threads, Acts(t), NEW u \in Threads, NEW s \in held'[u], s \in wrote'
  PROVE  /\ s \in held[u] /\ s \in Slots /\ slot[s] # 0 /\ slot[s] = CellOf(s) + CarcerHead
         /\ HoldsAt(u, CellOf(s), asked[s])
         /\ ~Moving(t) => slot'[s] = slot[s] /\ asked'[s] = asked[s]
<1>1. /\ Called(t) /\ Called(u) /\ Celled(u) /\ SlotsExclusive /\ op[t] \in Calls
      /\ held \in [Threads -> SUBSET Slots] /\ wrote \subseteq UNION {held[v] : v \in Threads}
  BY DEF MobilisInv, Types
<1>2. s \in held[u]
  <2>1. CASE u # t
    BY <2>1, LocalsStep DEF Others
  <2>2. CASE u = t /\ Raise(t)
    <3>1. /\ held'[t] = held[t] \cup {op[t].slot} /\ wrote' = wrote /\ pc[t] = "raise"
      BY <2>2, <1>1 DEF Raise, Return, Goto
    <3>2. op[t].slot \in Having(t) /\ op[t].slot \notin held[t]
      BY <3>1, <1>1, HasMeans DEF HasMeant, Called
    <3>3. \A v \in Threads : held[v] \subseteq Having(v)
      BY DEF Having
    <3>4. op[t].slot \notin wrote
      BY <3>2, <3>3, <1>1 DEF SlotsExclusive
    <3> QED BY <2>2, <3>1, <3>4
  <2>3. CASE u = t /\ ~Raise(t)
    <3>1. Release(t) => held'[t] \subseteq held[t]
      BY <1>1 DEF Release
    <3>2. Release(t) \/ held' = held
      BY <2>3 DEF Acts, Step, Alloc, Read, Write, Pass, Move, Shut, SpillRun, SpillGap, Search,
         LowestBit, FetchOr, Put, StoreLow, GiveBack, Copied, SlotCleared, BitCleared, Lowered,
         TrimSkipped, Trimmed, MoveBegin, Seek, MoveRefused, Moved
    <3> QED BY <2>3, <3>1, <3>2
  <2> QED BY <2>1, <2>2, <2>3
<1>3. s \in Naming(u) /\ s \in Having(u) /\ s \in Slots
  BY <1>1, <1>2, HeldNames
<1>4. slot[s] # 0 /\ HoldsAt(u, CellOf(s), asked[s]) /\ slot[s] = CellOf(s) + CarcerHead
  BY <1>1, <1>3, SlotPlace DEF Celled, MobilisInv
<1>5. ~Moving(t) => slot'[s] = slot[s] /\ asked'[s] = asked[s]
  <2>1. CASE u # t
    BY <2>1, <1>3, OthersKeep
  <2>2. CASE u = t
    <3>1. s \in Naming(t)'
      BY <2>2, CalledSelf, HasMeansNext DEF HasMeant
    <3> QED BY <2>2, <3>1, <1>3, SelfKeeps
  <2> QED BY <2>1, <2>2
<1> QED BY <1>2, <1>3, <1>4, <1>5

LEMMA HeldSpan ==
  ASSUME MobilisInv, NEW u \in Threads, NEW s \in Slots, HoldsAt(u, CellOf(s), asked[s]),
         NEW b \in Span(slot[s], asked[s])
  PROVE  /\ b \in DOMAIN byte /\ CellOf(s) \in DOMAIN cell
         /\ b \in Span(CellOf(s) + CarcerHead, asked[s]) /\ asked[s] \in Nat
         /\ asked[s] <= cell[CellOf(s)].size
<1>1. /\ Types /\ Lies(cell, bounds.end) /\ asked[s] \in Nat /\ byte \in [0 .. Size - 1 -> Slots \cup {0}]
  BY DEF MobilisInv, Types
<1>2. slot[s] = CellOf(s) + CarcerHead
  BY <1>1, SlotPlace
<1>3. CellOf(s) \in DOMAIN cell /\ cell[CellOf(s)].size >= asked[s]
  BY DEF HoldsAt, HoldsIn
<1>4. cell[CellOf(s)].size \in Nat
  BY <1>1, <1>3, CellEnds DEF Lies
<1>5. asked[s] <= cell[CellOf(s)].size
  BY <1>1, <1>3, <1>4
<1>6. b \in Nat /\ b < Size
  BY <1>1, <1>2, <1>3, <1>5, SpanInside
<1>7. b \in 0 .. Size - 1
  BY <1>6, Sizes
<1> QED BY <1>1, <1>2, <1>3, <1>5, <1>7

LEMMA ContentStep ==
  ASSUME MobilisInv, NEW t \in Threads, Acts(t), NEW u \in Threads, NEW s \in held'[u], s \in wrote',
         NEW b \in Span(slot'[s], asked'[s])
  PROVE  byte'[b] = s
<1>1. /\ s \in held[u] /\ s \in Slots /\ slot[s] # 0 /\ slot[s] = CellOf(s) + CarcerHead
      /\ HoldsAt(u, CellOf(s), asked[s])
      /\ ~Moving(t) => slot'[s] = slot[s] /\ asked'[s] = asked[s]
  BY WrittenHeld
<1>2. /\ Types /\ Lies(cell, bounds.end) /\ Called(t) /\ Celled(t) /\ SlotsExclusive
      /\ held \in [Threads -> SUBSET Slots] /\ byte \in [0 .. Size - 1 -> Slots \cup {0}]
      /\ asked \in [Slots -> Nat] /\ slot \in [Slots -> Nat]
  BY DEF MobilisInv, Types
<1>3. ASSUME s \in wrote, NEW d \in Span(slot[s], asked[s]) PROVE byte[d] = s
  BY <1>1, <1>3 DEF MobilisInv, ContentKept
<1>4. ASSUME ~Moving(t)
      PROVE  /\ b \in DOMAIN byte /\ b \in Span(slot[s], asked[s]) /\ CellOf(s) \in DOMAIN cell
             /\ b \in Span(CellOf(s) + CarcerHead, asked[s]) /\ asked[s] \in Nat
             /\ asked[s] <= cell[CellOf(s)].size
  BY <1>1, <1>4, HeldSpan
<1>5. ASSUME NEW off \in DOMAIN cell, Given(off), CellOf(s) # off, ~Moving(t), s \in wrote
      PROVE  byte'[b] = s
  <2>1. cell[off].size \in Nat /\ cell[off].size <= cell[off].size
    BY <1>2, CellEnds DEF Lies
  <2>2. b \notin Span(off + CarcerHead, cell[off].size)
    BY <2>1, <1>2, <1>4, <1>5, SpansApart
  <2> QED BY <2>2, <1>3, <1>4, <1>5 DEF Given
<1>6. CASE GiveBack(t)
  <2>1. pc[t] = "back" /\ Given(op[t].off) /\ wrote' = wrote
    BY <1>6 DEF GiveBack
  <2>2. HoldsAt(t, op[t].off, op[t].want) /\ \A r \in Naming(t) : CellOf(r) # op[t].off
    BY <2>1, <1>2 DEF Celled, Unnamed
  <2>3. CellOf(s) # op[t].off
    <3>1. CASE u = t
      BY <3>1, <1>1, <1>2, <2>2, HeldNames
    <3>2. CASE u # t
      BY <3>2, <1>1, <2>2 DEF HoldsAt, HoldsIn
    <3> QED BY <3>1, <3>2
  <2> QED BY <2>1, <2>2, <2>3, <1>5 DEF HoldsAt, HoldsIn, Moving
<1>7. CASE Release(t)
  <2>1. PICK r \in held[t] : /\ pc[t] = "idle" /\ Given(CellOf(r)) /\ wrote' = wrote \ {r}
    BY <1>7 DEF Release, Call, Goto
  <2>2. r \in Slots /\ CellOf(r) \in DOMAIN cell /\ s # r /\ s \in wrote
    BY <2>1, <1>2, HeldNames DEF Celled, HoldsAt, HoldsIn
  <2>3. CellOf(s) # CellOf(r)
    BY <2>2, <1>1, CellNames
  <2> QED BY <2>1, <2>2, <2>3, <1>5 DEF Moving
<1>8. CASE Copied(t) /\ op[t].kind = "write"
  <2>1. /\ pc[t] = "copy" /\ wrote' = wrote \cup DOMAIN op[t].at
        /\ byte' = [o \in DOMAIN byte |->
                      IF \E r \in DOMAIN op[t].at : o \in Span(op[t].at[r], asked[r])
                      THEN CHOOSE r \in DOMAIN op[t].at : TRUE ELSE byte[o]]
    BY <1>8 DEF Copied, Return, Goto
  <2>2. PICK r \in held[t] : DOMAIN op[t].at = {r} /\ op[t].at[r] = slot[r]
    BY <2>1, <1>2, <1>8 DEF Called
  <2>3. /\ ~Moving(t) /\ wrote' = wrote \cup {r}
        /\ \A o \in DOMAIN byte : byte'[o] = IF o \in Span(slot[r], asked[r]) THEN r ELSE byte[o]
    BY <2>1, <2>2 DEF Moving
  <2>4. CASE s = r
    BY <2>3, <2>4, <1>4
  <2>5. CASE s # r
    <3>1. r \in Slots /\ HoldsAt(t, CellOf(r), asked[r]) /\ slot[r] = CellOf(r) + CarcerHead
      BY <1>2, HeldNames, SlotPlace DEF Celled
    <3>2. CellOf(s) # CellOf(r)
      BY <2>5, <3>1, <1>1, CellNames
    <3>3. /\ CellOf(r) \in DOMAIN cell /\ asked[r] \in Nat /\ asked[r] <= cell[CellOf(r)].size
      <4>1. CellOf(r) \in DOMAIN cell /\ cell[CellOf(r)].size >= asked[r] /\ asked[r] \in Nat
        BY <3>1, <1>2 DEF HoldsAt, HoldsIn
      <4>2. cell[CellOf(r)].size \in Nat
        BY <4>1, <1>2, CellEnds DEF Lies
      <4> QED BY <4>1, <4>2
    <3>4. b \notin Span(slot[r], asked[r])
      BY <2>3, <3>1, <3>2, <3>3, <1>2, <1>4, SpansApart
    <3>5. s \in wrote
      BY <2>3, <2>5
    <3> QED BY <2>3, <3>4, <3>5, <1>3, <1>4
  <2> QED BY <2>4, <2>5
<1>9. CASE Moved(t)
  <2> DEFINE s0 == op[t].slot
             off == CellOf(s0)
             size == cell[off].size
  <2>1. asked' = asked /\ wrote' = wrote /\ pc[t] = "move" /\ inside = {}
    BY <1>9, MovedMeans DEF history
  <2>2. PICK at \in Nat : MovesTo(t, s0, at)
    BY <1>9, MovedMeans
  <2>3. /\ s0 \in Slots /\ slot[s0] # 0 /\ size \in Nat /\ at + Hdr + size <= off
        /\ off \in DOMAIN cell /\ cell[off].busy
        /\ slot' = [slot EXCEPT ![s0] = at + CarcerHead]
        /\ at \in DOMAIN cell' /\ cell'[at].size >= size
        /\ \A o \in DOMAIN cell : cell[o].busy /\ o # off =>
             o # at /\ o \in DOMAIN cell' /\ cell'[o] = cell[o]
        /\ byte' = [o \in DOMAIN byte |->
                      IF Wipes /\ o \in Span(slot[s0], size) THEN 0
                      ELSE IF o \in Span(at + CarcerHead, size)
                           THEN byte[slot[s0] + o - (at + CarcerHead)] ELSE byte[o]]
    BY <2>2 DEF MovesTo
  <2>4. off \in Nat /\ slot[s0] = off + CarcerHead
    BY <2>3, <1>2, SlotPlace, CellEnds DEF Lies
  <2>5. /\ Lies(cell', bounds'.end) /\ cell'[at].size \in Nat
    <3>1. Lies(cell', bounds'.end)
      BY CellsStep DEF Keeps
    <3> QED BY <3>1, <2>3, CellEnds DEF Lies
  <2>6. CASE s = s0
    <3>1. slot'[s] = at + CarcerHead /\ asked'[s] = asked[s] /\ asked[s] \in Nat
      BY <2>1, <2>3, <2>6, <1>1, <1>2
    <3>2. asked[s] <= size
      BY <2>3, <2>6, <1>1, <1>2 DEF HoldsAt, HoldsIn
    <3> HIDE DEF size, off, s0
    <3>3. /\ b \in Nat /\ at + CarcerHead <= b /\ b < at + CarcerHead + asked[s]
          /\ b \in Span(at + CarcerHead, size)
      BY <3>1, <3>2, <2>3, Sizes DEF Span
    <3>4. b \notin Span(slot[s0], size)
      BY <3>2, <3>3, <2>3, <2>4, <3>1, Sizes DEF Span
    <3> DEFINE d == slot[s0] + b - (at + CarcerHead)
    <3>5. d \in Span(slot[s], asked[s])
      BY <3>1, <3>3, <2>4, <2>6, Sizes DEF Span
    <3>6. byte[d] = s
      BY <3>5, <2>1, <1>3
    <3>7. b \in DOMAIN byte
      <4>1. b < off
        BY <3>1, <3>2, <3>3, <2>3, <2>4, Sizes
      <4>2. off < Size
        <5>1. off + Hdr < Ends(cell, off) /\ Ends(cell, off) \in Nat
          BY <2>3, <1>2, CellEnds DEF Lies
        <5>2. Ends(cell, off) <= bounds.end /\ bounds.end \in Nat /\ bounds.end <= Size
          BY <2>3, <1>2 DEF Lies
        <5> QED BY <5>1, <5>2, <2>4, Sizes
      <4>3. b \in 0 .. Size - 1
        BY <4>1, <4>2, <3>3, <2>4, Sizes
      <4> QED BY <4>3, <1>2
    <3> QED BY <3>3, <3>4, <3>6, <3>7, <2>3
  <2>7. CASE s # s0
    <3>1. slot'[s] = slot[s] /\ asked'[s] = asked[s]
      BY <2>1, <2>3, <2>7, <1>1, <1>2
    <3>2. /\ b \in DOMAIN byte /\ b \in Span(slot[s], asked[s]) /\ CellOf(s) \in DOMAIN cell
          /\ b \in Span(CellOf(s) + CarcerHead, asked[s]) /\ asked[s] \in Nat
          /\ asked[s] <= cell[CellOf(s)].size
      BY <3>1, <1>1, HeldSpan
    <3>3. CellOf(s) # off
      BY <2>7, <1>1, <2>3, CellNames
    <3>4. /\ CellOf(s) # at /\ CellOf(s) \in DOMAIN cell' /\ cell'[CellOf(s)] = cell[CellOf(s)]
      BY <3>3, <2>3, <1>1 DEF HoldsAt, HoldsIn
    <3>5. b \notin Span(slot[s0], size)
      <4>1. size <= cell[off].size
        BY <2>3
      <4> HIDE DEF size, off
      <4> QED BY <4>1, <3>2, <3>3, <2>3, <2>4, <1>2, SpansApart
    <3>6. b \notin Span(at + CarcerHead, size)
      <4>1. size <= cell'[at].size /\ asked[s] <= cell'[CellOf(s)].size
        BY <2>3, <2>5, <3>2, <3>4
      <4> HIDE DEF size, off
      <4> QED BY <4>1, <3>2, <3>4, <2>3, <2>5, SpansApart
    <3>7. byte[b] = s
      BY <3>2, <2>1, <1>3
    <3> QED BY <3>2, <3>5, <3>6, <3>7, <2>3
  <2> QED BY <2>6, <2>7
<1>10. CASE byte' = byte /\ wrote' = wrote /\ ~Moving(t)
  BY <1>3, <1>4, <1>10
<1>11. \/ GiveBack(t) \/ Release(t) \/ (Copied(t) /\ op[t].kind = "write") \/ Moved(t)
       \/ byte' = byte /\ wrote' = wrote /\ ~Moved(t)
  BY DEF Acts, Step, Alloc, Read, Write, Pass, Move, Shut, SpillRun, SpillGap, Search,
         LowestBit, FetchOr, Put, StoreLow, Raise, Copied, SlotCleared, BitCleared, Lowered,
         TrimSkipped, Trimmed, MoveBegin, Seek, MoveRefused, history
<1>12. Moving(t) => Moved(t)
  BY MovingMoves
<1> QED BY <1>6, <1>7, <1>8, <1>9, <1>10, <1>11, <1>12

-----------------------------------------------------------------------------
(* The runs below a cell, and what the mover has passed over.               *)

LEMMA RunsRead ==
  ASSUME Resting, NEW off, NEW size
  PROVE  RunsBelow(off, size) = RunsUnder(cell, off, size)
<1>1. Block!Busy(Free) = BusyIn(cell)
  BY BusyMeans DEF BusyIn
<1>2. \A o : Block!EndOf(o) = Ends(cell, o)
  BY SameWords
<1>3. Block!RunStarts(Free) = {0} \cup {Ends(cell, o) : o \in BusyIn(cell)}
  BY <1>1, <1>2 DEF Block!RunStarts
<1>4. Block!Runs(Free) =
        {r \in [at : {0} \cup {Ends(cell, o) : o \in BusyIn(cell)}, to : BusyIn(cell)] :
           r.at < r.to /\ \A o \in BusyIn(cell) : o < r.at \/ r.to <= o}
  BY <1>1, <1>3 DEF Block!Runs
<1> QED BY <1>4 DEF RunsBelow, RunsUnder, Block!Holding, Block!RunSize

LEMMA RunsStand ==
  ASSUME NEW cells, NEW now, BusyIn(now) = BusyIn(cells),
         \A o \in BusyIn(cells) : now[o] = cells[o], NEW off, NEW size
  PROVE  RunsUnder(now, off, size) = RunsUnder(cells, off, size)
<1>1. \A o \in BusyIn(cells) : Ends(now, o) = Ends(cells, o)
  BY DEF Ends
<1> QED BY <1>1 DEF RunsUnder

LEMMA RunsLower ==
  ASSUME NEW cells, NEW end, Lies(cells, end), NEW high \in Int, NEW small \in Int,
         RunsUnder(cells, high, small) = {},
         NEW off \in Int, off <= high, NEW size \in Int, size >= small
  PROVE  RunsUnder(cells, off, size) = {}
<1> SUFFICES ASSUME NEW r \in RunsUnder(cells, off, size) PROVE FALSE
  OBVIOUS
<1>1. BusyIn(cells) \subseteq Nat /\ \A o \in BusyIn(cells) : Ends(cells, o) \in Nat
  BY CellEnds DEF Lies, BusyIn
<1>2. r.to \in Nat /\ r.at \in Nat
  BY <1>1 DEF RunsUnder
<1>3. r.to <= off /\ r.to - r.at - Hdr >= size
  BY DEF RunsUnder
<1>4. r.to <= high /\ r.to - r.at - Hdr >= small
  BY <1>2, <1>3, Sizes
<1>5. r \in RunsUnder(cells, high, small)
  BY <1>4 DEF RunsUnder
<1> QED BY <1>5

(* What others do under a mover: no cell moves, and a slot named or a cell  *)
(* given back is noted.                                                     *)
LEMMA UnderMover ==
  ASSUME MobilisInv, NEW t \in Threads, Acts(t), closed, inside = {}, pc[t] \notin Closing
  PROVE  /\ \/ UNCHANGED <<slot, cell, named, still>>
            \/ ~still'
         /\ \A s \in Slots : slot[s] # 0 => slot'[s] # 0
<1>1. pc[t] \notin {"copy", "clear", "unclaim", "lower"}
  BY DEF MobilisInv, Control, Passing
<1>2. pc[t] \notin {"drain", "seek", "move"}
  BY DEF Closing
<1>3. \/ UNCHANGED <<slot, cell, named, still>>
      \/ ~still'
  <2>1. CASE Alloc(t)
    BY <2>1 DEF Alloc, Call, block, table, history
  <2>2. CASE Read(t) \/ Write(t) \/ Release(t) \/ Move(t) \/ Shut(t)
    BY <2>2 DEF Read, Write, Pass, Release, Badged, Move, Shut, block, table, history
  <2>3. CASE SpillRun(t) \/ SpillGap(t) \/ Trimmed(t) \/ MoveBegin(t) \/ Seek(t) \/ MoveRefused(t)
             \/ Moved(t)
    BY <2>3, <1>2 DEF SpillRun, SpillGap, Trimmed, MoveBegin, Seek, MoveRefused, Moved, Drained,
                      Return, Goto
  <2>4. CASE Search(t) \/ LowestBit(t) \/ FetchOr(t) \/ StoreLow(t) \/ TrimSkipped(t)
    BY <2>4 DEF Search, LowestBit, FetchOr, StoreLow, TrimSkipped, block, table, history
  <2>5. CASE Put(t) \/ Raise(t) \/ GiveBack(t)
    BY <2>5 DEF Put, Raise, GiveBack
  <2>6. CASE Copied(t) \/ SlotCleared(t) \/ BitCleared(t) \/ Lowered(t)
    BY <2>6, <1>1 DEF Copied, SlotCleared, BitCleared, Lowered, Return, Goto
  <2> QED BY <2>1, <2>2, <2>3, <2>4, <2>5, <2>6 DEF Acts, Step
<1>4. \A s \in Slots : slot[s] # 0 => slot'[s] # 0
  <2> SUFFICES ASSUME NEW s \in Slots, slot[s] # 0, slot'[s] = 0 PROVE FALSE
    OBVIOUS
  <2>1. pc[t] = "put" /\ s = op[t].slot
    BY <1>1, <1>2, NamesStep
  <2>2. slot[op[t].slot] = 0
    BY <2>1 DEF MobilisInv, Celled
  <2> QED BY <2>1, <2>2
<1> QED BY <1>3, <1>4

LEMMA PassedOthers ==
  ASSUME MobilisInv, NEW t \in Threads, Acts(t), NEW u \in Threads, u # t
  PROVE  Passed(u)'
<1>1. pc'[u] = pc[u] /\ op'[u] = op[u]
  BY LocalsStep DEF Others
<1>2. CASE pc[u] \notin {"seek", "move"}
  BY <1>1, <1>2 DEF Passed
<1>3. CASE pc[u] \in {"seek", "move"}
  <2>1. closed /\ inside = {} /\ pc[t] \notin Closing
    BY <1>3 DEF MobilisInv, Control, Closing
  <2>2. /\ \/ UNCHANGED <<slot, cell, named, still>>
           \/ ~still'
        /\ \A s \in Slots : slot[s] # 0 => slot'[s] # 0
    BY <2>1, UnderMover
  <2>3. Passed(u)
    BY DEF MobilisInv
  <2>4. pc'[u] = "move" => slot'[op'[u].slot] # 0
    BY <2>2, <1>1, MoverNames
  <2>5. CASE ~still'
    BY <2>4, <2>5 DEF Passed
  <2>6. CASE UNCHANGED <<slot, cell, named, still>>
    <3>1. \A s : CellOf(s)' = CellOf(s)
      BY <2>6 DEF CellOf
    <3>2. Movable(op[u].below, op[u].refused)' = Movable(op[u].below, op[u].refused)
      BY <2>6, <1>1, <3>1 DEF Movable
    <3> QED BY <2>3, <2>4, <2>6, <3>1, <3>2, <1>1 DEF Passed
  <2> QED BY <2>2, <2>5, <2>6
<1> QED BY <1>2, <1>3

LEMMA PassedSelf ==
  ASSUME MobilisInv, NEW t \in Threads, Acts(t)
  PROVE  Passed(t)'
<1>1. /\ pc \in [Threads -> Steps] /\ op \in [Threads -> Calls] /\ op[t] \in Calls /\ Called(t)
      /\ Passed(t) /\ Types /\ slot \in [Slots -> Nat] /\ Lies(cell, bounds.end) /\ Resting
      /\ named \in 0 .. SlotCount
  BY DEF MobilisInv, Types, Resting
<1>2. CASE MoveBegin(t)
  <2>1. /\ pc'[t] = "seek" /\ op' = op /\ UNCHANGED <<slot, cell, named>>
        /\ pc[t] = "drain" /\ op[t].kind = "move" /\ inside = {}
    BY <1>1, <1>2 DEF MoveBegin, Drained, Goto, table, block
  <2>2. op[t].below = Size /\ op[t].refused = Size
    BY <2>1, <1>1 DEF Called
  <2>3. ASSUME NEW s \in 1 .. named, slot[s] # 0
        PROVE  ~(slot[s] >= Size \/ cell[CellOf(s)].size >= Size)
    <3> DEFINE off == CellOf(s)
    <3>1. s \in Slots
      BY <1>1, Sizes DEF Slots
    <3>2. off \in DOMAIN cell /\ slot[s] = off + CarcerHead
      BY <3>1, <2>3, NamedCell
    <3>3. /\ off \in Nat /\ cell[off].size \in Nat /\ Ends(cell, off) = off + Hdr + cell[off].size
          /\ Ends(cell, off) <= bounds.end /\ bounds.end \in Nat /\ bounds.end <= Size
      BY <3>2, <1>1, CellEnds DEF Lies
    <3> HIDE DEF off
    <3>4. slot[s] < Size /\ cell[off].size < Size
      BY <3>2, <3>3, <1>1, Sizes, CellEnds DEF Lies
    <3> QED BY <3>4, <3>3, <3>2, Sizes DEF off
  <2>4. \A s : CellOf(s)' = CellOf(s)
    BY <2>1 DEF CellOf
  <2> QED BY <2>1, <2>2, <2>3, <2>4 DEF Passed
<1>3. CASE Seek(t)
  <2> DEFINE movable == Movable(op[t].below, op[t].refused)
             high == CHOOSE s \in movable : \A r \in movable : slot[r] <= slot[s]
  <2>1. pc[t] = "seek" /\ UNCHANGED <<slot, cell, named, still>>
    BY <1>3 DEF Seek, table, block, history
  <2>2. CASE movable = {}
    <3>1. pc'[t] = "idle"
      BY <1>1, <1>3, <2>2 DEF Seek, Return, Goto
    <3> QED BY <3>1 DEF Passed
  <2>3. CASE movable # {}
    <3>1. /\ pc'[t] = "move" /\ op'[t].slot = high /\ op'[t].below = op[t].below
          /\ op'[t].refused = op[t].refused
      BY <1>1, <1>3, <2>3 DEF Seek, Goto, Calls
    <3>2. high \in movable /\ \A r \in movable : slot[r] <= slot[high]
      <4>1. op[t].below \in Nat
        BY <1>1 DEF Calls
      <4> QED BY <4>1, <2>3, <1>1, HighestMovable
    <3>3. slot[high] # 0
      BY <3>2 DEF Movable
    <3>4. \A s : CellOf(s)' = CellOf(s)
      BY <2>1 DEF CellOf
    <3>5. Movable(op[t].below, op[t].refused)' = movable
      BY <2>1, <3>1, <3>4 DEF Movable
    <3> HIDE DEF high, movable
    <3> QED BY <2>1, <3>1, <3>2, <3>3, <3>4, <3>5, <1>1 DEF Passed
  <2> QED BY <2>2, <2>3
<1>4. CASE MoveRefused(t)
  <2> DEFINE s0 == op[t].slot
             off == CellOf(s0)
             size == cell[off].size
  <2>1. /\ pc[t] = "move" /\ pc'[t] = "seek" /\ UNCHANGED <<slot, named, still>>
        /\ RunsBelow(off, size) = {} /\ cell' = Block!SweptCells(Free)
        /\ op'[t].below = slot[s0] /\ op'[t].refused = size
    BY <1>1, <1>4 DEF MoveRefused, Goto, table, history, Calls
  <2>2. s0 \in Slots /\ slot[s0] \in Nat /\ size \in Nat /\ inside = {}
    BY <2>1, MoverNames
  <2>3. RunsUnder(cell, off, size) = {}
    BY <2>1, <1>1, RunsRead
  <2>4. BusyIn(cell') = BusyIn(cell) /\ \A o \in BusyIn(cell) : cell'[o] = cell[o]
    BY <2>1, <1>1, Swept DEF BusyIn
  <2>5. ASSUME still, NEW s \in 1 .. named, slot[s] # 0
        PROVE  /\ cell'[CellOf(s)] = cell[CellOf(s)]
               /\ slot[s] >= slot[s0] \/ cell[CellOf(s)].size >= size
                    => RunsUnder(cell, CellOf(s), cell[CellOf(s)].size) = {}
    <3>1. s \in Slots
      BY <1>1, Sizes DEF Slots
    <3>2. CellOf(s) \in DOMAIN cell /\ cell[CellOf(s)].busy
      BY <2>2, <2>5, <3>1, NamedHeld DEF HoldsAt, HoldsIn
    <3>3. cell[CellOf(s)].size \in Nat /\ slot[s] \in Nat /\ CellOf(s) \in Int /\ off \in Int
          /\ slot[s] = CellOf(s) + CarcerHead /\ slot[s0] = off + CarcerHead
      BY <3>1, <3>2, <2>2, <1>1, SlotPlace, CellEnds DEF Lies
    <3>4. CASE s \notin Movable(op[t].below, op[t].refused)
      <4>1. ~(slot[s] < op[t].below) \/ ~(cell[CellOf(s)].size < op[t].refused)
        BY <2>5, <3>4 DEF Movable
      <4>2. op[t].below \in Nat /\ op[t].refused \in Nat
        BY <1>1 DEF Calls
      <4>3. slot[s] >= op[t].below \/ cell[CellOf(s)].size >= op[t].refused
        BY <4>1, <4>2, <3>3
      <4>4. RunsUnder(cell, CellOf(s), cell[CellOf(s)].size) = {}
        BY <4>3, <2>1, <2>5, <1>1 DEF Passed
      <4> QED BY <4>4, <3>2, <2>4 DEF BusyIn
    <3>5. CASE s \in Movable(op[t].below, op[t].refused)
      <4>1. slot[s] <= slot[s0]
        BY <2>1, <2>5, <3>5, <1>1 DEF Passed
      <4>2. CASE slot[s] >= slot[s0]
        <5>1. slot[s] = slot[s0]
          BY <4>1, <4>2, <3>3, <2>2
        <5>2. CellOf(s) = off
          BY <5>1 DEF CellOf
        <5> QED BY <5>2, <2>3, <2>4, <3>2 DEF BusyIn
      <4>3. CASE ~(slot[s] >= slot[s0])
        <5>1. CellOf(s) <= off
          BY <4>1, <3>3, Sizes
        <5> DEFINE o == CellOf(s)
                   n == cell[CellOf(s)].size
        <5>2. o \in Int /\ n \in Int /\ off \in Int /\ size \in Int /\ o <= off
          BY <5>1, <3>3, <2>2
        <5> HIDE DEF o, n, off, size
        <5>3. n >= size => RunsUnder(cell, o, n) = {}
          BY <5>2, <2>3, <1>1, RunsLower
        <5> QED BY <5>3, <4>3, <2>4, <3>2 DEF BusyIn, o, n
      <4> QED BY <4>2, <4>3
    <3> QED BY <3>4, <3>5
  <2>6. \A s : CellOf(s)' = CellOf(s)
    BY <2>1 DEF CellOf
  <2>7. \A o, n : RunsUnder(cell', o, n) = RunsUnder(cell, o, n)
    BY <2>4, RunsStand
  <2> HIDE DEF s0, size, off
  <2>8. ASSUME still', NEW s \in 1 .. named', slot'[s] # 0,
               slot'[s] >= op'[t].below \/ cell'[CellOf(s)'].size >= op'[t].refused
        PROVE  RunsUnder(cell', CellOf(s)', cell'[CellOf(s)'].size) = {}
    BY <2>1, <2>5, <2>6, <2>7, <2>8
  <2> QED BY <2>1, <2>8 DEF Passed
<1>5. CASE pc'[t] \notin {"seek", "move"}
  BY <1>5 DEF Passed
<1>6. MoveBegin(t) \/ Seek(t) \/ MoveRefused(t) \/ pc'[t] \notin {"seek", "move"}
  <2>1. CASE \/ Alloc(t) \/ Read(t) \/ Write(t) \/ Release(t) \/ Move(t) \/ Shut(t)
    BY <2>1, <1>1 DEF Alloc, Read, Write, Pass, Release, Move, Shut, Call, Goto
  <2>2. CASE \/ SpillRun(t) \/ SpillGap(t) \/ Search(t) \/ LowestBit(t) \/ FetchOr(t) \/ Put(t)
             \/ StoreLow(t) \/ Raise(t) \/ GiveBack(t)
    BY <2>2, <1>1 DEF SpillRun, SpillGap, Search, LowestBit, FetchOr, Put, StoreLow, Raise,
                      GiveBack, Return, Goto
  <2>3. CASE \/ Copied(t) \/ SlotCleared(t) \/ BitCleared(t) \/ Lowered(t) \/ TrimSkipped(t)
             \/ Trimmed(t) \/ Moved(t)
    BY <2>3, <1>1 DEF Copied, SlotCleared, BitCleared, Lowered, TrimSkipped, Trimmed, Moved,
                      Return, Goto
  <2> QED BY <2>1, <2>2, <2>3 DEF Acts, Step
<1> QED BY <1>2, <1>3, <1>4, <1>5, <1>6

-----------------------------------------------------------------------------
(* The invariant holds.                                                     *)

LEMMA MobilisInit == Init => MobilisInv
<1> SUFFICES ASSUME Init PROVE MobilisInv
  OBVIOUS
<1>1. /\ bounds \in Word /\ bounds.end = 0 /\ bounds.top = Size
  <2>1. 0 \in Nat /\ 0 <= Size
    BY Sizes
  <2> QED BY <2>1, StoredBounds DEF Init
<1>2. DOMAIN cell = {} /\ cell \in [DOMAIN cell -> CellWord]
  BY DEF Init
<1>3. Lies(cell, bounds.end)
  BY <1>1, <1>2, Sizes DEF Lies
<1>4. /\ pc \in [Threads -> Steps] /\ op \in [Threads -> Calls] /\ held \in [Threads -> SUBSET Slots]
      /\ \A t \in Threads : pc[t] = "idle" /\ op[t] = NoOp /\ held[t] = {}
  BY NoCall DEF Init, Steps
<1>5. /\ slot \in [Slots -> Nat] /\ asked \in [Slots -> Nat] /\ \A s \in Slots : slot[s] = 0
      /\ closed = FALSE /\ still = FALSE /\ wrote = {} /\ claimed = Spare /\ inside = {}
      /\ byte \in [0 .. Size - 1 -> Slots \cup {0}] /\ lowest \in Words /\ named \in 0 .. SlotCount
  BY ClaimWords, Sizes DEF Init
<1>6. Types
  BY <1>1, <1>4, <1>5 DEF Types, Spare
<1>7. Control
  BY <1>4, <1>5 DEF Control, Closing, Passing
<1>8. NamesApart
  BY <1>5 DEF NamesApart
<1>9. \A t \in Threads : Called(t) /\ Passed(t) /\ ~Unnamed(t) /\ Having(t) = {} /\ Naming(t) = {}
  BY <1>4 DEF Called, Passed, Unnamed, Having, Naming, Releasing, NoOp
<1>10. SlotsExclusive
  BY <1>5, <1>9 DEF SlotsExclusive
<1>11. ContentKept
  BY <1>5 DEF ContentKept
<1>12. \A t \in Threads : Celled(t)
  BY <1>4, <1>9 DEF Celled
<1> QED BY <1>3, <1>6, <1>7, <1>8, <1>9, <1>10, <1>11, <1>12 DEF MobilisInv

LEMMA MobilisActs ==
  ASSUME MobilisInv, NEW t \in Threads, Acts(t)
  PROVE  MobilisInv'
<1>1. Types' /\ Control' /\ NamesApart' /\ SlotsExclusive'
  BY TypesStep, ControlSteps, NamesApartStep, ExclusiveStep
<1>2. Lies(cell', bounds'.end)
  BY CellsStep DEF Keeps
<1>3. ContentKept'
  <2>1. \A u \in Threads : \A s \in held'[u] \cap wrote' :
          \A b \in Span(slot'[s], asked'[s]) : byte'[b] = s
    BY ContentStep
  <2> QED BY <2>1 DEF ContentKept
<1>4. ASSUME NEW u \in Threads PROVE Called(u)' /\ Celled(u)' /\ Passed(u)'
  <2>1. CASE u = t
    BY <2>1, CalledSelf, CelledSelf, CelledMoves, PassedSelf
  <2>2. CASE u # t
    BY <2>2, CalledOthers, CelledOthers, CelledMoves, PassedOthers
  <2> QED BY <2>1, <2>2
<1> QED BY <1>1, <1>2, <1>3, <1>4 DEF MobilisInv

LEMMA MobilisStutters == MobilisInv /\ UNCHANGED vars => MobilisInv'
<1> SUFFICES ASSUME MobilisInv, UNCHANGED vars PROVE MobilisInv'
  OBVIOUS
<1>1. UNCHANGED <<bounds, closed, inside, cell, byte, inUse, slot, claimed, lowest, named, pc, op,
                  held, asked, wrote, still>>
  BY DEF vars, block, table, history
<1>2. Types' /\ Control' /\ Lies(cell', bounds'.end)
  BY <1>1 DEF MobilisInv, Types, Control
<1>3. \A t \in Threads : Having(t)' = Having(t) /\ Naming(t)' = Naming(t) /\ (Unnamed(t)' <=> Unnamed(t))
  BY <1>1, OthersHave
<1>4. NamesApart' /\ SlotsExclusive'
  BY <1>1, <1>3 DEF MobilisInv, NamesApart, SlotsExclusive
<1>5. ContentKept'
  BY <1>1 DEF MobilisInv, ContentKept
<1>6. \A t \in Threads : Called(t)' /\ Celled(t)'
  <2> TAKE t \in Threads
  <2>1. \A s : CellOf(s)' = CellOf(s)
    BY <1>1 DEF CellOf
  <2> QED BY <1>1, <1>3, <2>1 DEF MobilisInv, Called, Celled, HoldsAt
<1>7. \A t \in Threads : Passed(t)'
  <2> TAKE t \in Threads
  <2>1. \A s : CellOf(s)' = CellOf(s)
    BY <1>1 DEF CellOf
  <2>2. Movable(op[t].below, op[t].refused)' = Movable(op[t].below, op[t].refused)
    BY <1>1, <2>1 DEF Movable
  <2> QED BY <1>1, <2>1, <2>2 DEF MobilisInv, Passed
<1> QED BY <1>2, <1>4, <1>5, <1>6, <1>7 DEF MobilisInv

(* Every reachable state of the movable option satisfies the invariant,     *)
(* whatever the threads, the slots and the cellblock.                       *)
THEOREM MobilisInvariant == Spec => []MobilisInv
<1>1. MobilisInv /\ Next => MobilisInv'
  BY MobilisActs DEF Next, Acts
<1>2. MobilisInv /\ [Next]_vars => MobilisInv'
  BY <1>1, MobilisStutters
<1> QED BY MobilisInit, <1>2, PTL DEF Spec

(* A slot has one taker and every bit of the claim words set has one: the   *)
(* claims of carcer_slot_claimed never both win a bit.                      *)
THEOREM ClaimsExclusive == Spec => []SlotsExclusive
<1>1. MobilisInv => SlotsExclusive
  BY DEF MobilisInv
<1> QED BY <1>1, MobilisInvariant, PTL

(* What its holder wrote to a movable cell stays there, through the moves,  *)
(* takes, wipes and sweeps of everyone.                                     *)
THEOREM ContentStays == Spec => []ContentKept
<1>1. MobilisInv => ContentKept
  BY DEF MobilisInv
<1> QED BY <1>1, MobilisInvariant, PTL

(* A slot names its taker's busy cell that holds what was asked, no other   *)
(* slot names it, and a slot nobody has names none.                         *)
THEOREM NamesHold == Spec => []SlotsNameCells
<1>1. ASSUME MobilisInv PROVE SlotsNameCells
  <2>1. \A t \in Threads : \A s \in Naming(t) :
          /\ CellOf(s) \in DOMAIN cell
          /\ cell[CellOf(s)].busy /\ cell[CellOf(s)].owner = t
          /\ cell[CellOf(s)].size >= asked[s]
    BY <1>1 DEF MobilisInv, Celled, HoldsAt, HoldsIn
  <2>2. \A s \in Slots : slot[s] # 0 =>
          /\ \E t \in Threads : s \in Having(t)
          /\ \A r \in Slots \ {s} : slot[r] # slot[s]
    BY <1>1 DEF MobilisInv, NamesApart
  <2> QED BY <2>1, <2>2 DEF SlotsNameCells
<1> QED BY <1>1, MobilisInvariant, PTL

(* The address a pass read of a slot is the cell's until the pass leaves:   *)
(* no mover works under a read, a write or a compare.                       *)
THEOREM SpansStand == Spec => []SpanStands
<1>1. ASSUME MobilisInv PROVE SpanStands
  BY <1>1 DEF MobilisInv, Called, SpanStands
<1> QED BY <1>1, MobilisInvariant, PTL

(* The cells tile the tier whatever is moved, split, swept and trimmed: the *)
(* walks of carcer_swept and of the move find a header at every step.       *)
THEOREM TilingStands == Spec => []Tiled
<1>1. ASSUME MobilisInv PROVE Tiled
  <2>1. Lies(cell, bounds.end)
    BY <1>1 DEF MobilisInv
  <2>2. \A o \in DOMAIN cell : /\ o \in Nat /\ Ends(cell, o) \in Nat /\ o < Ends(cell, o)
                              /\ Ends(cell, o) <= bounds.end /\ bounds.end \in Nat
    BY <2>1, CellEnds, Sizes DEF Lies
  <2>3. \A o \in DOMAIN cell : Block!EndOf(o) = Ends(cell, o)
    BY SameWords
  <2>4. \A o \in DOMAIN cell : Block!EndOf(o) \in DOMAIN cell \cup {bounds.end}
    BY <2>1, <2>3 DEF Lies
  <2>5. ASSUME DOMAIN cell # {} PROVE Min(DOMAIN cell) = 0
    <3>1. 0 \in DOMAIN cell
      BY <2>1, <2>2, <2>5 DEF Lies
    <3>2. \A y \in DOMAIN cell : 0 <= y
      BY <2>2
    <3>3. ASSUME NEW x \in DOMAIN cell, \A y \in DOMAIN cell : x <= y PROVE x = 0
      BY <3>1, <3>3, <2>2
    <3> QED BY <3>1, <3>2, <3>3 DEF Min
  <2>6. DOMAIN cell = {} => bounds.end = 0
    BY <2>1 DEF Lies
  <2>7. \A o, p \in DOMAIN cell : o < p => Block!EndOf(o) <= p
    <3> SUFFICES ASSUME NEW o \in DOMAIN cell, NEW p \in DOMAIN cell, o < p PROVE Ends(cell, o) <= p
      BY <2>3
    <3>1. Ends(cell, o) <= p \/ Ends(cell, p) <= o
      BY <2>1, <2>2 DEF Lies
    <3> QED BY <3>1, <2>2
  <2> QED BY <2>4, <2>5, <2>6, <2>7 DEF Tiled
<1> QED BY <1>1, MobilisInvariant, PTL

(* The types, the ranges of the addresses with them.                        *)
THEOREM MobilisTypes == Spec => []TypeOK
<1>1. ASSUME MobilisInv PROVE TypeOK
  <2>1. Types /\ Lies(cell, bounds.end) /\ Control /\ SlotsExclusive
    BY <1>1 DEF MobilisInv
  <2>2. ASSUME NEW o \in DOMAIN cell
        PROVE  /\ o \in 0 .. bounds.end - 1 /\ cell[o].size \in 1 .. Size /\ cell[o].busy \in BOOLEAN
               /\ o + CarcerHead \in 0 .. Size - 1
    <3>1. /\ o \in Nat /\ cell[o] \in CellWord /\ cell[o].size \in Nat \ {0}
          /\ Ends(cell, o) = o + Hdr + cell[o].size
          /\ Ends(cell, o) <= bounds.end /\ bounds.end \in Nat /\ bounds.end <= Size
      BY <2>1, CellEnds DEF Lies
    <3>2. cell[o].busy \in BOOLEAN
      BY <3>1 DEF CellWord
    <3> QED BY <3>1, <3>2, Sizes
  <2>3. slot \in [Slots -> 0 .. Size - 1]
    <3>1. ASSUME NEW s \in Slots PROVE slot[s] \in 0 .. Size - 1
      <4>1. CASE slot[s] = 0
        BY <4>1, Sizes
      <4>2. CASE slot[s] # 0
        BY <4>2, <1>1, <2>2, NamedCell
      <4> QED BY <4>1, <4>2
    <3> QED BY <3>1, <2>1 DEF Types
  <2>4. bounds.end <= bounds.top /\ DOMAIN cell \subseteq 0 .. bounds.end - 1
    BY <2>1, <2>2 DEF Types, Lies
  <2>5. inside \subseteq Threads /\ Spare \subseteq claimed
    BY <2>1 DEF Control, SlotsExclusive
  <2>6. wrote \subseteq Slots
    BY <2>1 DEF Types
  <2> QED BY <2>1, <2>2, <2>3, <2>4, <2>5, <2>6 DEF TypeOK, Types
<1> QED BY <1>1, MobilisInvariant, PTL

(* A cell that keeps its slot only ever moves down, and only with the       *)
(* cellblock closed and no pass inside.                                     *)
THEOREM MovesOnlyDown == Spec => MovesDown
<1> DEFINE Down == \A s \in Slots :
                     slot[s] # slot'[s] /\ slot[s] # 0 /\ slot'[s] # 0 =>
                       slot'[s] < slot[s] /\ closed /\ inside = {}
<1>1. ASSUME MobilisInv, NEW t \in Threads, Acts(t) PROVE Down
  <2> SUFFICES ASSUME NEW s \in Slots, slot[s] # slot'[s], slot[s] # 0, slot'[s] # 0
               PROVE  slot'[s] < slot[s] /\ closed /\ inside = {}
    OBVIOUS
  <2>1. Called(t) /\ Celled(t) /\ slot \in [Slots -> Nat]
    BY <1>1 DEF MobilisInv, Types
  <2>2. s = op[t].slot /\ (pc[t] \in {"put", "clear"} \/ Moving(t))
    BY <1>1, NamesStep DEF Moving
  <2>3. pc[t] # "put"
    BY <2>1, <2>2 DEF Celled
  <2>4. pc[t] # "clear"
    <3>1. pc[t] = "clear" => slot'[s] = 0
      BY <2>1, <2>2, <1>1, StepAt DEF SlotCleared
    <3> QED BY <3>1
  <2>5. Moved(t)
    BY <2>2, <2>3, <2>4, <1>1, MovingMoves
  <2>6. PICK at \in Nat : MovesTo(t, s, at)
    BY <2>2, <2>5, <1>1, MovedMeans
  <2>7. /\ slot'[s] = at + CarcerHead /\ cell[CellOf(s)].size \in Nat /\ CellOf(s) \in Int
        /\ slot[s] = CellOf(s) + CarcerHead /\ at + Hdr + cell[CellOf(s)].size <= CellOf(s)
    BY <2>1, <2>6, <1>1, SlotPlace DEF MovesTo, MobilisInv
  <2>8. slot'[s] < slot[s]
    <3> DEFINE size == cell[CellOf(s)].size
               here == CellOf(s)
    <3>1. /\ here \in Int /\ at \in Nat /\ size \in Nat /\ at + Hdr + size <= here
          /\ slot[s] = here + CarcerHead /\ slot'[s] = at + CarcerHead
      BY <2>6, <2>7
    <3>2. Hdr \in Nat /\ Hdr > 0 /\ CarcerHead \in Nat
      BY Sizes
    <3> HIDE DEF size, here
    <3>3. at + CarcerHead < here + CarcerHead
      BY <3>1, <3>2
    <3> QED BY <3>1, <3>3
  <2> QED BY <2>5, <2>8, <1>1, MovedMeans
<1>2. MobilisInv /\ [Next]_vars => [Down]_vars
  BY <1>1 DEF Next, Acts
<1> QED BY <1>2, MobilisInvariant, PTL DEF Spec, MovesDown

(* A move that moved nothing had nothing to move: no cell named has a run   *)
(* below it that holds it.                                                  *)
THEOREM MoverExhausts == Spec => Exhausted
<1> DEFINE Spent == \A t \in Threads :
                      pc[t] = "seek" /\ pc'[t] = "idle" /\ still =>
                        \A s \in 1 .. named :
                          slot[s] # 0 => RunsBelow(CellOf(s), cell[CellOf(s)].size) = {}
<1>1. ASSUME MobilisInv, NEW u \in Threads, Acts(u) PROVE Spent
  <2> SUFFICES ASSUME NEW t \in Threads, pc[t] = "seek", pc'[t] = "idle", still,
                      NEW s \in 1 .. named, slot[s] # 0
               PROVE  RunsBelow(CellOf(s), cell[CellOf(s)].size) = {}
    OBVIOUS
  <2>1. u = t
    BY <1>1, LocalsStep DEF Others
  <2>2. /\ Types /\ Passed(t) /\ op[t] \in Calls /\ pc \in [Threads -> Steps] /\ Resting
        /\ slot \in [Slots -> Nat] /\ named \in 0 .. SlotCount /\ Lies(cell, bounds.end)
    BY <1>1 DEF MobilisInv, Types, Resting
  <2>3. Movable(op[t].below, op[t].refused) = {}
    <3> DEFINE movable == Movable(op[t].below, op[t].refused)
    <3>1. Seek(t)
      BY <1>1, <2>1, StepAt
    <3>2. movable # {} => pc' = [pc EXCEPT ![t] = "move"]
      BY <3>1 DEF Seek, Goto
    <3> HIDE DEF movable
    <3>3. movable = {}
      BY <2>2, <3>2
    <3> QED BY <3>3 DEF movable
  <2>4. s \in Slots
    BY <2>2, Sizes DEF Slots
  <2>5. slot[s] \in Nat /\ cell[CellOf(s)].size \in Nat
    BY <2>2, <2>4, <1>1, NamedCell, CellEnds DEF Lies
  <2>6. op[t].below \in Nat /\ op[t].refused \in Nat
    BY <2>2 DEF Calls
  <2>7. ~(slot[s] < op[t].below) \/ ~(cell[CellOf(s)].size < op[t].refused)
    BY <2>3 DEF Movable
  <2>8. slot[s] >= op[t].below \/ cell[CellOf(s)].size >= op[t].refused
    BY <2>5, <2>6, <2>7
  <2>9. RunsUnder(cell, CellOf(s), cell[CellOf(s)].size) = {}
    BY <2>2, <2>8 DEF Passed
  <2> QED BY <2>2, <2>9, RunsRead
<1>2. MobilisInv /\ [Next]_vars => [Spent]_vars
  BY <1>1 DEF Next, Acts
<1> QED BY <1>2, MobilisInvariant, PTL DEF Spec, Exhausted
=============================================================================
