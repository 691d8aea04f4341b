------------------------ MODULE LocusInvariantProofs ------------------------
(***************************************************************************)
(* The inductive invariant of the cellblock, and what follows from it for  *)
(* every number of contexts, lanes and owners and every width and size.    *)
(*                                                                         *)
(* The argument.  A bump is answered a cell only where the two boundaries  *)
(* of the one word it read leave room, and they leave room only where no   *)
(* refused byte stands on either (WordInv): so what it is answered lies    *)
(* between the two chains of cells, and the chains with the claims under   *)
(* way stay tiled (TierInv).  A writer that has drained finds no bump half *)
(* done (ControlInv), takes the overruns off and works on the chains alone.*)
(*                                                                         *)
(* First come what one operation on the bounds word does, at every width;  *)
(* and the geometry of the two tiers, proved of every set of cells: cells  *)
(* that tile the bytes below an end and above a top keep tiling them when  *)
(* one is laid at either boundary, split, grown, when a tier is swept and  *)
(* when the top is walked up.                                              *)
(*                                                                         *)
(* Then the invariant itself, IInv, which every step preserves, part by    *)
(* part, and the theorems that follow: the types, the tiling of the two    *)
(* tiers, the accounting of refused bumps, the word at rest, the cells a   *)
(* context holds, and at the end that the cellblock implements the store   *)
(* of its promise and counts it exactly.                                   *)
(***************************************************************************)
EXTENDS LocusCarcerum, TLAPS, FiniteSetTheorems, WellFoundedInduction

-----------------------------------------------------------------------------
(* The word.  A top that bumps down have wrapped stands for a negative      *)
(* place, and the two bumps are additions there for as long as the refused  *)
(* bytes leave the cellblock's size and the wrapped tops apart.             *)

(* The place a top stands for: one past the cellblock's size wrapped. *)
Place(top) == IF top <= Size THEN top ELSE top - Half

LEMMA WordSizes ==
  /\ Half \in Nat /\ Size \in Nat /\ Align \in Nat /\ Hdr \in Nat /\ WantMost \in Nat
  /\ BytesMost \in Nat /\ NeedMost \in Nat /\ NeedMost = Hdr + WantMost
  /\ Align > 0 /\ Hdr > 0 /\ 0 < Size /\ Size <= BytesMost
  /\ NeedMost < Half /\ BytesMost < Half /\ 2 * BytesMost <= Half
  BY WordAssumption DEF BytesMost, NeedMost

-----------------------------------------------------------------------------
LEMMA MultipleMod ==
  ASSUME NEW w \in Nat, NEW a \in Nat, a > 0
  PROVE  (w * a) % a = 0
<1> DEFINE q == (w * a) \div a
           r == (w * a) % a
<1>1. w * a \in Nat
  OBVIOUS
<1>2. q \in Int /\ r \in Int /\ w * a = a * q + r /\ 0 <= r /\ r < a
  BY <1>1
<1> HIDE DEF q, r
<1>3. r = a * (w - q)
  BY <1>2
<1>4. CASE w - q >= 1
  BY <1>2, <1>3, <1>4
<1>5. CASE w - q <= -1
  BY <1>2, <1>3, <1>5
<1>6. CASE w - q = 0
  BY <1>3, <1>6, <1>2 DEF r
<1> QED BY <1>2, <1>4, <1>5, <1>6

(* carcer_want: a payload of at least a word, a multiple of the alignment,  *)
(* that holds the bytes asked and less than a word more than they need.     *)
LEMMA WantRounds ==
  ASSUME NEW want \in Nat
  PROVE  /\ carcer_want(want) \in Nat
         /\ carcer_want(want) >= Align
         /\ carcer_want(want) >= want
         /\ want > 0 => carcer_want(want) < want + Align
         /\ carcer_want(want) % Align = 0
<1> DEFINE asked == IF want = 0 THEN Align ELSE want
           words == (asked + Align - 1) \div Align
<1>1. asked \in Nat /\ asked > 0 /\ asked >= want /\ (want > 0 => asked = want)
  BY WordSizes
<1>2. words \in Nat /\ words >= 1
  BY <1>1, WordSizes
<1>3. asked <= words * Align /\ words * Align < asked + Align
  BY <1>1, <1>2, WordSizes
<1>4. Align <= words * Align
  BY <1>2, WordSizes
<1>5. (words * Align) % Align = 0
  BY <1>2, MultipleMod, WordSizes
<1>6. carcer_want(want) = words * Align
  BY DEF carcer_want
<1> QED BY <1>1, <1>2, <1>3, <1>4, <1>5, <1>6, WordSizes

-----------------------------------------------------------------------------
(* A half of the word holds a place of the cellblock, wrapped once or not. *)
LEMMA HalfMod ==
  ASSUME NEW x \in Nat, x < Half
  PROVE  x % Half = x /\ (x + Half) % Half = x
  BY WordSizes

LEMMA PlaceHolds ==
  ASSUME NEW top \in Halves
  PROVE  Place(top) \in Int /\ Place(top) <= Size /\ Place(top) % Half = top
<1>1. CASE top <= Size
  BY <1>1, HalfMod, WordSizes DEF Place, Halves
<1>2. CASE top > Size
  <2>1. Place(top) = top - Half
    BY <1>2, WordSizes DEF Place, Halves
  <2>2. (top - Half) % Half = top
    BY WordSizes DEF Halves
  <2> QED BY <2>1, <2>2, WordSizes DEF Halves
<1> QED BY <1>1, <1>2, WordSizes DEF Halves

(* A bump up short of the half's reach adds to the end and to nothing else. *)
LEMMA BumpedUpAdds ==
  ASSUME NEW word \in Word, NEW need \in Nat, word.end + need < Half
  PROVE  /\ BumpedUp(word, need) \in Word
         /\ BumpedUp(word, need).end = word.end + need
         /\ BumpedUp(word, need).top = word.top
  BY WordSizes DEF BumpedUp, Word, Halves

(* A bump down subtracts from the place, for as long as no more than what   *)
(* the half holds above the size is refused below.                          *)
LEMMA BumpedDownSubtracts ==
  ASSUME NEW word \in Word, NEW need \in Nat, need < Half,
         Place(word.top) - need + Half > Size
  PROVE  /\ BumpedDown(word, need) \in Word
         /\ BumpedDown(word, need).end = word.end
         /\ Place(BumpedDown(word, need).top) = Place(word.top) - need
  BY WordSizes DEF BumpedDown, Word, Halves, Place

(* What fits up fits between the end and the place of the top, and stands   *)
(* past no refused byte of either tier.                                     *)
LEMMA FitsUpMeans ==
  ASSUME NEW word \in Word, NEW need \in Nat, need > 0
  PROVE  FitsUp(word, need) <=> word.end + need <= Place(word.top)
  BY WordSizes DEF FitsUp, Word, Halves, Place

LEMMA FitsDownMeans ==
  ASSUME NEW word \in Word, NEW need \in Nat, need > 0,
         Place(word.top) - need + Half > Size
  PROVE  FitsDown(word, need) <=> word.end + need <= Place(word.top)
  BY WordSizes DEF FitsDown, Word, Halves, Place

-----------------------------------------------------------------------------
(* Least and greatest elements, and sums over a set without an induction    *)
(* over it: a weight for each element has the sum n when some function of   *)
(* the set's subsets adds the weights up and gives n for the whole.  One    *)
(* weight that changes changes the sum by as much.                          *)
(* The least and the greatest of a set of naturals. *)
LEMMA LeastExists ==
  ASSUME NEW S, S \subseteq Nat, S # {}
  PROVE  \E x \in S : \A y \in S : x <= y
<1>1. PICK x \in S : \A y \in S : ~ (<<y, x>> \in OpToRel(<, Nat))
  BY WFMin, NatLessThanWellFounded, Zenon
<1>2. \A y \in S : ~ (y < x)
  BY <1>1 DEF OpToRel
<1> QED BY <1>2

LEMMA GreatestExists ==
  ASSUME NEW S, S \subseteq Nat, S # {}, NEW m \in Nat, \A x \in S : x <= m
  PROVE  \E x \in S : \A y \in S : y <= x
<1> DEFINE T == {m - x : x \in S}
<1>1. T \subseteq Nat /\ T # {}
  <2>1. \A x \in S : m - x \in Nat
    OBVIOUS
  <2> QED BY <2>1
<1>2. PICK t \in T : \A u \in T : t <= u
  BY <1>1, LeastExists
<1>3. PICK x \in S : t = m - x
  BY <1>2
<1>4. \A y \in S : y <= x
  <2> TAKE y \in S
  <2>1. m - y \in T
    OBVIOUS
  <2>2. t <= m - y
    BY <2>1, <1>2
  <2>3. x \in Nat /\ y \in Nat /\ m \in Nat
    OBVIOUS
  <2> HIDE DEF T
  <2> QED BY <2>2, <2>3, <1>3
<1> QED BY <1>4

-----------------------------------------------------------------------------
AddsUp(s, S, W) ==
  /\ s \in [SUBSET S -> Nat]
  /\ \A A \in SUBSET S : \A c \in S \ A : s[A \cup {c}] = s[A] + W[c]
  /\ \A A \in SUBSET S : (\A c \in A : W[c] = 0) => s[A] = 0

SumIs(S, W, n) == \E s \in [SUBSET S -> Nat] : AddsUp(s, S, W) /\ s[S] = n

LEMMA SumOfZeros ==
  ASSUME NEW S
  PROVE  SumIs(S, [c \in S |-> 0], 0)
<1> DEFINE s == [A \in SUBSET S |-> 0]
<1>1. AddsUp(s, S, [c \in S |-> 0])
  BY DEF AddsUp
<1> QED BY <1>1 DEF SumIs

LEMMA ZeroSum ==
  ASSUME NEW S, NEW W, NEW n, SumIs(S, W, n), \A c \in S : W[c] = 0
  PROVE  n = 0
  BY DEF SumIs, AddsUp

LEMMA SumAtLeast ==
  ASSUME NEW S, NEW W \in [S -> Nat], NEW n, SumIs(S, W, n), NEW c \in S
  PROVE  n \in Nat /\ W[c] <= n
<1>1. PICK s \in [SUBSET S -> Nat] : AddsUp(s, S, W) /\ s[S] = n
  BY DEF SumIs
<1>2. s[(S \ {c}) \cup {c}] = s[S \ {c}] + W[c]
  BY <1>1 DEF AddsUp
<1>3. (S \ {c}) \cup {c} = S
  OBVIOUS
<1>4. s[S \ {c}] \in Nat /\ s[S] \in Nat /\ W[c] \in Nat
  OBVIOUS
<1>5. s[S] = s[S \ {c}] + W[c]
  BY <1>2, <1>3, Zenon
<1> QED BY <1>1, <1>4, <1>5

LEMMA SumChanges ==
  ASSUME NEW S, NEW W \in [S -> Nat], NEW V \in [S -> Nat], NEW n \in Nat,
         SumIs(S, W, n), NEW c \in S, \A d \in S \ {c} : V[d] = W[d]
  PROVE  SumIs(S, V, n - W[c] + V[c])
<1>1. PICK s \in [SUBSET S -> Nat] : AddsUp(s, S, W) /\ s[S] = n
  BY DEF SumIs
<1> DEFINE t == [A \in SUBSET S |-> IF c \in A THEN s[A \ {c}] + V[c] ELSE s[A]]
<1>2. t \in [SUBSET S -> Nat]
  OBVIOUS
<1>3. ASSUME NEW A \in SUBSET S, NEW d \in S \ A PROVE t[A \cup {d}] = t[A] + V[d]
  <2>1. CASE d = c
    <3>1. (A \cup {d}) \ {c} = A /\ c \notin A
      BY <2>1
    <3> QED BY <2>1, <3>1
  <2>2. CASE d # c /\ c \notin A
    BY <2>2, <1>1 DEF AddsUp
  <2>3. CASE d # c /\ c \in A
    <3>1. (A \cup {d}) \ {c} = (A \ {c}) \cup {d} /\ d \notin A \ {c}
      BY <2>3
    <3>2. s[(A \ {c}) \cup {d}] = s[A \ {c}] + W[d]
      BY <3>1, <1>1 DEF AddsUp
    <3>3. t[A \cup {d}] = s[(A \ {c}) \cup {d}] + V[c] /\ t[A] = s[A \ {c}] + V[c]
      BY <2>3, <3>1
    <3>4. s[A \ {c}] \in Nat /\ V[c] \in Nat /\ W[d] \in Nat /\ V[d] = W[d]
      BY <2>3
    <3> HIDE DEF t
    <3> QED BY <3>2, <3>3, <3>4
  <2> QED BY <2>1, <2>2, <2>3
<1>4. ASSUME NEW A \in SUBSET S, \A d \in A : V[d] = 0 PROVE t[A] = 0
  <2>1. CASE c \in A
    <3>1. \A d \in A \ {c} : W[d] = 0
      BY <1>4
    <3>2. s[A \ {c}] = 0
      BY <3>1, <1>1 DEF AddsUp
    <3> QED BY <2>1, <3>2, <1>4
  <2>2. CASE c \notin A
    <3>1. \A d \in A : W[d] = 0
      BY <1>4, <2>2
    <3> QED BY <2>2, <3>1, <1>1 DEF AddsUp
  <2> QED BY <2>1, <2>2
<1>5. t[S] = n - W[c] + V[c]
  <2>1. s[(S \ {c}) \cup {c}] = s[S \ {c}] + W[c]
    BY <1>1 DEF AddsUp
  <2>2. (S \ {c}) \cup {c} = S
    OBVIOUS
  <2>3. s[S \ {c}] \in Nat /\ V[c] \in Nat /\ W[c] \in Nat
    OBVIOUS
  <2>4. t[S] = s[S \ {c}] + V[c]
    OBVIOUS
  <2>5. s[S] = s[S \ {c}] + W[c]
    BY <2>1, <2>2, Zenon
  <2> HIDE DEF t
  <2> QED BY <1>1, <2>3, <2>4, <2>5
<1> HIDE DEF t
<1>6. AddsUp(t, S, V)
  BY <1>2, <1>3, <1>4 DEF AddsUp
<1> QED BY <1>2, <1>5, <1>6 DEF SumIs

-----------------------------------------------------------------------------
(* A product with one more of its factor. *)
LEMMA OneMore ==
  ASSUME NEW k \in Nat, NEW m \in Nat, NEW most \in Nat
  PROVE  (k + 1) * most = k * most + most /\ (k <= m => k * most <= m * most)
  OBVIOUS

-----------------------------------------------------------------------------
(* The tiers. *)
CellWords == [size : Nat \ {0}, busy : BOOLEAN,
              owner : Owners \cup {NoOwner}, complete : BOOLEAN]

Until(cells, o) == carcer_end_of(o, cells[o].size)

(* The cells tile the bytes below end and those from top up: each lies in   *)
(* one of the two tiers, no two share a byte, and where one ends the next   *)
(* begins.                                                                  *)
Tiled(cells, end, top) ==
  /\ cells \in [DOMAIN cells -> CellWords] /\ DOMAIN cells \subseteq Nat
  /\ end \in Nat /\ top \in Nat /\ end <= top /\ top <= Size
  /\ \A o \in DOMAIN cells : Until(cells, o) <= end \/ (top <= o /\ Until(cells, o) <= Size)
  /\ \A o, p \in DOMAIN cells : o # p => Until(cells, o) <= p \/ Until(cells, p) <= o
  /\ 0 \in DOMAIN cells \cup {end}
  /\ top \in DOMAIN cells \cup {Size}
  /\ \A o \in DOMAIN cells : Until(cells, o) \in DOMAIN cells \cup {end, Size}

LEMMA TiledEnds ==
  ASSUME NEW cells, NEW end, NEW top, Tiled(cells, end, top), NEW o \in DOMAIN cells
  PROVE  /\ o \in Nat /\ cells[o] \in CellWords /\ cells[o].size \in Nat
         /\ Until(cells, o) = o + Hdr + cells[o].size
         /\ Until(cells, o) \in Nat /\ o + Hdr < Until(cells, o)
         /\ Until(cells, o) <= Size /\ cells[o].size <= Size /\ o < Size
         /\ o < end => Until(cells, o) <= end
         /\ o >= end => top <= o
  BY WordSizes DEF Tiled, Until, carcer_end_of, CellWords

(* A cell laid at the end. *)
LEMMA TiledLaysUp ==
  ASSUME NEW cells, NEW end, NEW top, Tiled(cells, end, top),
         NEW laid \in CellWords, end + Hdr + laid.size <= top
  PROVE  /\ end \notin DOMAIN cells
         /\ Tiled(LaidAt(cells, end, laid), end + Hdr + laid.size, top)
<1> DEFINE now == LaidAt(cells, end, laid)
           to == end + Hdr + laid.size
<1>1. /\ end \in Nat /\ top \in Nat /\ top <= Size /\ laid.size \in Nat
      /\ to \in Nat /\ end < to /\ to <= top
  BY WordSizes DEF Tiled, CellWords
<1>2. end \notin DOMAIN cells
  BY <1>1, TiledEnds
<1>3. DOMAIN now = DOMAIN cells \cup {end} /\ Until(now, end) = to
  BY <1>1, WordSizes DEF LaidAt, Until, carcer_end_of
<1>4. \A o \in DOMAIN cells : now[o] = cells[o] /\ Until(now, o) = Until(cells, o)
  BY <1>2 DEF LaidAt, Until
<1>5. now \in [DOMAIN now -> CellWords] /\ DOMAIN now \subseteq Nat
  BY <1>1, <1>3 DEF LaidAt, Tiled
<1> HIDE DEF now
<1>6. \A o \in DOMAIN now : Until(now, o) <= to \/ (top <= o /\ Until(now, o) <= Size)
  BY <1>1, <1>3, <1>4, TiledEnds DEF Tiled
<1>7. \A o, p \in DOMAIN now : o # p => Until(now, o) <= p \/ Until(now, p) <= o
  <2>1. \A o \in DOMAIN cells : Until(cells, o) <= end \/ to <= o
    BY <1>1, TiledEnds
  <2> QED BY <2>1, <1>3, <1>4 DEF Tiled
<1>8. 0 \in DOMAIN now \cup {to} /\ top \in DOMAIN now \cup {Size}
  BY <1>1, <1>3 DEF Tiled
<1>9. \A o \in DOMAIN now : Until(now, o) \in DOMAIN now \cup {to, Size}
  BY <1>3, <1>4 DEF Tiled
<1>10. Tiled(now, to, top)
  BY <1>1, <1>5, <1>6, <1>7, <1>8, <1>9 DEF Tiled
<1> QED BY <1>2, <1>10 DEF now

(* A cell laid below the top. *)
LEMMA TiledLaysDown ==
  ASSUME NEW cells, NEW end, NEW top, Tiled(cells, end, top),
         NEW laid \in CellWords, NEW at \in Nat,
         at + Hdr + laid.size = top, end <= at
  PROVE  /\ at \notin DOMAIN cells
         /\ Tiled(LaidAt(cells, at, laid), end, at)
<1> DEFINE now == LaidAt(cells, at, laid)
<1>1. /\ end \in Nat /\ top \in Nat /\ top <= Size /\ laid.size \in Nat /\ at < top
  BY WordSizes DEF Tiled, CellWords
<1>2. at \notin DOMAIN cells
  BY <1>1, TiledEnds
<1>3. DOMAIN now = DOMAIN cells \cup {at} /\ Until(now, at) = top
  BY <1>1, WordSizes DEF LaidAt, Until, carcer_end_of
<1>4. \A o \in DOMAIN cells : now[o] = cells[o] /\ Until(now, o) = Until(cells, o)
  BY <1>2 DEF LaidAt, Until
<1>5. now \in [DOMAIN now -> CellWords] /\ DOMAIN now \subseteq Nat
  BY <1>1, <1>3 DEF LaidAt, Tiled
<1> HIDE DEF now
<1>6. \A o \in DOMAIN now : Until(now, o) <= end \/ (at <= o /\ Until(now, o) <= Size)
  BY <1>1, <1>3, <1>4, TiledEnds DEF Tiled
<1>7. \A o, p \in DOMAIN now : o # p => Until(now, o) <= p \/ Until(now, p) <= o
  <2>1. \A o \in DOMAIN cells : Until(cells, o) <= at \/ top <= o
    BY <1>1, TiledEnds
  <2> QED BY <2>1, <1>3, <1>4 DEF Tiled
<1>8. 0 \in DOMAIN now \cup {end} /\ at \in DOMAIN now \cup {Size} /\ at <= Size
  BY <1>1, <1>3, WordSizes DEF Tiled
<1>9. \A o \in DOMAIN now : Until(now, o) \in DOMAIN now \cup {end, Size}
  <2>1. top \in DOMAIN now \cup {end, Size}
    BY <1>3 DEF Tiled
  <2> QED BY <2>1, <1>3, <1>4 DEF Tiled
<1>10. Tiled(now, end, at)
  BY <1>1, <1>5, <1>6, <1>7, <1>8, <1>9 DEF Tiled
<1> QED BY <1>2, <1>10 DEF now

(* Words that change under sizes that stand. *)
LEMMA TiledKeeps ==
  ASSUME NEW cells, NEW end, NEW top, Tiled(cells, end, top), NEW now,
         DOMAIN now = DOMAIN cells, now \in [DOMAIN now -> CellWords],
         \A o \in DOMAIN cells : now[o].size = cells[o].size
  PROVE  Tiled(now, end, top)
<1>1. \A o \in DOMAIN cells : Until(now, o) = Until(cells, o)
  BY DEF Until
<1> QED BY <1>1 DEF Tiled

(* carcer_split: a cell in two, the second with a payload of its own. *)
LEMMA TiledSplits ==
  ASSUME NEW cells, NEW end, NEW top, Tiled(cells, end, top),
         NEW at \in DOMAIN cells, NEW laid \in CellWords, NEW rest \in CellWords,
         laid.size + Hdr + rest.size = cells[at].size
  PROVE  /\ carcer_end_of(at, laid.size) \notin DOMAIN cells
         /\ Tiled(LaidAt(LaidAt(cells, carcer_end_of(at, laid.size), rest), at, laid), end, top)
<1> DEFINE mid == carcer_end_of(at, laid.size)
           now == LaidAt(LaidAt(cells, mid, rest), at, laid)
<1>1. /\ at \in Nat /\ laid.size \in Nat \ {0} /\ rest.size \in Nat \ {0}
      /\ cells[at].size \in Nat /\ Until(cells, at) = at + Hdr + cells[at].size
  BY TiledEnds DEF CellWords
<1>2. mid = at + Hdr + laid.size /\ mid \in Nat /\ at < mid /\ mid < Until(cells, at)
      /\ mid + Hdr + rest.size = Until(cells, at)
  BY <1>1, WordSizes DEF carcer_end_of
<1> HIDE DEF mid
<1>3. mid \notin DOMAIN cells
  <2>1. ASSUME mid \in DOMAIN cells PROVE FALSE
    <3>1. Until(cells, mid) > mid
      BY <2>1, TiledEnds, WordSizes
    <3>2. Until(cells, at) <= mid \/ Until(cells, mid) <= at
      BY <2>1, <1>2 DEF Tiled
    <3>3. Until(cells, mid) \in Nat /\ Until(cells, at) \in Nat
      BY <2>1, TiledEnds
    <3> QED BY <3>1, <3>2, <3>3, <1>1, <1>2
  <2> QED BY <2>1
<1>4. /\ DOMAIN now = DOMAIN cells \cup {mid}
      /\ now[at] = laid /\ now[mid] = rest
      /\ \A o \in DOMAIN cells \ {at} : now[o] = cells[o]
  BY <1>2, <1>3 DEF LaidAt
<1>5. now \in [DOMAIN now -> CellWords] /\ DOMAIN now \subseteq Nat
  <2>1. \A o \in DOMAIN now : now[o] \in CellWords
    BY <1>4, TiledEnds
  <2>2. now = [o \in DOMAIN now |-> now[o]]
    BY DEF LaidAt
  <2> QED BY <2>1, <2>2, <1>2, <1>4 DEF Tiled
<1> HIDE DEF now
<1>6. /\ Until(now, at) = mid /\ Until(now, mid) = Until(cells, at)
      /\ \A o \in DOMAIN cells \ {at} : Until(now, o) = Until(cells, o)
  BY <1>1, <1>2, <1>4 DEF Until, carcer_end_of
<1>7. \A o \in DOMAIN cells \ {at} : Until(cells, o) <= at \/ Until(cells, at) <= o
  BY DEF Tiled
<1>8. \A o \in DOMAIN now : Until(now, o) <= end \/ (top <= o /\ Until(now, o) <= Size)
  <2>1. Until(cells, at) <= end \/ (top <= at /\ Until(cells, at) <= Size)
    BY DEF Tiled
  <2>2. Until(cells, at) \in Nat /\ end \in Nat /\ top \in Nat
    BY TiledEnds DEF Tiled
  <2>3. (mid <= end \/ (top <= at /\ mid <= Size))
        /\ (Until(cells, at) <= end \/ (top <= mid /\ Until(cells, at) <= Size))
    BY <2>1, <2>2, <1>1, <1>2, WordSizes
  <2> QED BY <2>3, <1>4, <1>6 DEF Tiled
<1>9. \A o, p \in DOMAIN now : o # p => Until(now, o) <= p \/ Until(now, p) <= o
  <2>1. \A o \in DOMAIN cells \ {at} :
          /\ Until(cells, o) \in Nat /\ o \in Nat /\ Until(cells, at) \in Nat
          /\ Until(now, o) <= at \/ Until(now, at) <= o
          /\ Until(now, o) <= mid \/ Until(now, mid) <= o
    BY <1>1, <1>2, <1>6, <1>7, TiledEnds
  <2>2. \A o, p \in DOMAIN cells \ {at} : o # p => Until(now, o) <= p \/ Until(now, p) <= o
    BY <1>6 DEF Tiled
  <2>3. Until(now, at) <= mid
    BY <1>6, <1>2
  <2> QED BY <2>1, <2>2, <2>3, <1>4
<1>10. 0 \in DOMAIN now \cup {end} /\ top \in DOMAIN now \cup {Size}
  BY <1>4 DEF Tiled
<1>11. \A o \in DOMAIN now : Until(now, o) \in DOMAIN now \cup {end, Size}
  BY <1>4, <1>6 DEF Tiled
<1>12. Tiled(now, end, top)
  BY <1>5, <1>8, <1>9, <1>10, <1>11 DEF Tiled
<1> QED BY <1>3, <1>12 DEF now, mid

(* carcer_top_walked: the top up to a cell, the cells it passes forgotten. *)
LEMMA TiledDrops ==
  ASSUME NEW cells, NEW end, NEW top, Tiled(cells, end, top),
         NEW t \in DOMAIN cells \cup {Size}, top <= t
  PROVE  Tiled(Only(cells, {o \in DOMAIN cells : o < end \/ o >= t}), end, t)
<1> DEFINE kept == {o \in DOMAIN cells : o < end \/ o >= t}
           now == Only(cells, kept)
<1>1. t \in Nat /\ t <= Size /\ end \in Nat /\ top \in Nat /\ end <= top
  BY TiledEnds, WordSizes DEF Tiled
<1>2. /\ DOMAIN now = kept
      /\ \A o \in kept : now[o] = cells[o] /\ Until(now, o) = Until(cells, o)
  BY DEF Only, Until
<1>3. now \in [DOMAIN now -> CellWords] /\ DOMAIN now \subseteq Nat
  BY <1>2 DEF Only, Tiled
<1> HIDE DEF now
<1>4. \A o \in DOMAIN now : Until(now, o) <= end \/ (t <= o /\ Until(now, o) <= Size)
  BY <1>1, <1>2, TiledEnds
<1>5. \A o, p \in DOMAIN now : o # p => Until(now, o) <= p \/ Until(now, p) <= o
  BY <1>2 DEF Tiled
<1>6. 0 \in DOMAIN now \cup {end} /\ t \in DOMAIN now \cup {Size}
  BY <1>1, <1>2 DEF Tiled
<1>7. \A o \in DOMAIN now : Until(now, o) \in DOMAIN now \cup {end, Size}
  <2> TAKE o \in DOMAIN now
  <2>1. Until(cells, o) \in DOMAIN cells \cup {end, Size}
    BY <1>2 DEF Tiled
  <2>2. /\ o \in Nat /\ Until(cells, o) \in Nat /\ o < Until(cells, o)
        /\ o < end => Until(cells, o) <= end
    BY <1>2, TiledEnds, WordSizes
  <2>3. Until(cells, o) \in kept \cup {end, Size}
    BY <1>1, <1>2, <2>1, <2>2
  <2> QED BY <1>2, <2>3
<1>8. Tiled(now, end, t)
  BY <1>1, <1>3, <1>4, <1>5, <1>6, <1>7 DEF Tiled
<1> QED BY <1>8 DEF now

(* carcer_grown, a persistent cell: the newest one over the bytes above. *)
LEMMA TiledGrowsUp ==
  ASSUME NEW cells, NEW end, NEW top, Tiled(cells, end, top),
         NEW at \in DOMAIN cells, Until(cells, at) = end,
         NEW want \in Nat, want > cells[at].size,
         want - cells[at].size <= top - end
  PROVE  Tiled([cells EXCEPT ![at].size = want], end + (want - cells[at].size), top)
<1> DEFINE now == [cells EXCEPT ![at].size = want]
           to == end + (want - cells[at].size)
<1>1. /\ end \in Nat /\ top \in Nat /\ top <= Size /\ at \in Nat /\ at < end
      /\ cells[at].size \in Nat /\ to \in Nat /\ end < to /\ to <= top
      /\ end = at + Hdr + cells[at].size
  BY TiledEnds, WordSizes DEF Tiled
<1>2. DOMAIN now = DOMAIN cells /\ now[at] = [cells[at] EXCEPT !.size = want]
      /\ \A o \in DOMAIN cells \ {at} : now[o] = cells[o]
  OBVIOUS
<1>3. now[at] \in CellWords /\ now[at].size = want
  <2>1. cells[at] \in CellWords /\ want \in Nat \ {0}
    BY <1>1, TiledEnds
  <2> QED BY <2>1, <1>2 DEF CellWords
<1>4. now \in [DOMAIN now -> CellWords] /\ DOMAIN now \subseteq Nat
  <2>1. \A o \in DOMAIN now : now[o] \in CellWords
    BY <1>2, <1>3, TiledEnds
  <2> QED BY <2>1, <1>2 DEF Tiled
<1> HIDE DEF now
<1>5. /\ Until(now, at) = to
      /\ \A o \in DOMAIN cells \ {at} : Until(now, o) = Until(cells, o)
  BY <1>1, <1>2, <1>3, WordSizes DEF Until, carcer_end_of
<1>6. \A o \in DOMAIN cells \ {at} : Until(cells, o) <= at \/ top <= o
  <2> TAKE o \in DOMAIN cells \ {at}
  <2>1. Until(cells, o) <= at \/ end <= o
    BY DEF Tiled
  <2> QED BY <2>1, <1>1, TiledEnds
<1>7. \A o \in DOMAIN now : Until(now, o) <= to \/ (top <= o /\ Until(now, o) <= Size)
  BY <1>1, <1>2, <1>5, <1>6, TiledEnds
<1>8. \A o, p \in DOMAIN now : o # p => Until(now, o) <= p \/ Until(now, p) <= o
  <2>1. \A o \in DOMAIN cells \ {at} : Until(now, o) <= at \/ Until(now, at) <= o
    BY <1>1, <1>5, <1>6, TiledEnds
  <2>2. \A o, p \in DOMAIN cells \ {at} : o # p => Until(now, o) <= p \/ Until(now, p) <= o
    BY <1>5 DEF Tiled
  <2> QED BY <2>1, <2>2, <1>2
<1>9. 0 \in DOMAIN now \cup {to} /\ top \in DOMAIN now \cup {Size}
  BY <1>1, <1>2 DEF Tiled
<1>10. \A o \in DOMAIN now : Until(now, o) \in DOMAIN now \cup {to, Size}
  <2> TAKE o \in DOMAIN now
  <2>1. CASE o = at
    BY <2>1, <1>5
  <2>2. CASE o # at
    <3>1. Until(now, o) = Until(cells, o) /\ Until(cells, o) \in DOMAIN cells \cup {end, Size}
      BY <2>2, <1>2, <1>5 DEF Tiled
    <3>2. Until(cells, o) # end
      BY <2>2, <1>1, <1>2, <1>6, TiledEnds, WordSizes
    <3> QED BY <3>1, <3>2, <1>2
  <2> QED BY <2>1, <2>2
<1>11. Tiled(now, to, top)
  BY <1>1, <1>4, <1>7, <1>8, <1>9, <1>10 DEF Tiled
<1> QED BY <1>11 DEF now

(* carcer_grown, a temporary cell: the one at the top moved down. *)
LEMMA TiledGrowsDown ==
  ASSUME NEW cells, NEW end, NEW top, Tiled(cells, end, top),
         top \in DOMAIN cells, end <= top,
         NEW laid \in CellWords, laid.size > cells[top].size,
         NEW at \in Nat, at = top - (laid.size - cells[top].size), end <= at
  PROVE  /\ at \notin DOMAIN cells
         /\ Tiled(LaidAt(Only(cells, Offsets \ {top}), at, laid), end, at)
<1> DEFINE kept == {o \in DOMAIN cells : o < end \/ o >= Until(cells, top)}
           now == LaidAt(Only(cells, Offsets \ {top}), at, laid)
<1>1. /\ end \in Nat /\ top \in Nat /\ Until(cells, top) \in Nat /\ top < Until(cells, top)
      /\ laid.size \in Nat /\ cells[top].size \in Nat /\ at < top
      /\ Until(cells, top) = top + Hdr + cells[top].size
      /\ at + Hdr + laid.size = Until(cells, top)
  BY TiledEnds, WordSizes DEF Tiled, CellWords
<1>2. Tiled(Only(cells, kept), end, Until(cells, top))
  <2>1. Until(cells, top) \in DOMAIN cells \cup {Size}
    BY <1>1 DEF Tiled
  <2> QED BY <1>1, <2>1, TiledDrops
<1>3. kept = DOMAIN cells \cap (Offsets \ {top})
  <2>1. \A o \in DOMAIN cells : o \in Offsets
    BY TiledEnds, WordSizes DEF Offsets
  <2>2. \A o \in DOMAIN cells : o # top => o < end \/ o >= Until(cells, top)
    <3> TAKE o \in DOMAIN cells
    <3> HAVE o # top
    <3>1. Until(cells, o) <= top \/ Until(cells, top) <= o
      BY DEF Tiled
    <3>2. /\ o \in Nat /\ Until(cells, o) \in Nat /\ o < Until(cells, o)
          /\ o >= end => top <= o
      BY TiledEnds, WordSizes
    <3> QED BY <3>1, <3>2, <1>1
  <2>3. top \notin kept
    BY <1>1
  <2> QED BY <2>1, <2>2, <2>3
<1>4. Only(cells, kept) = Only(cells, Offsets \ {top})
  BY <1>3 DEF Only
<1> HIDE DEF kept
<1>5. at \notin DOMAIN cells
  BY <1>1, TiledEnds
<1>6. Tiled(LaidAt(Only(cells, kept), at, laid), end, at)
  BY <1>1, <1>2, TiledLaysDown
<1> QED BY <1>4, <1>5, <1>6
-----------------------------------------------------------------------------
(* The sweep of the persistent tier, with every cell laid: the cells a walk *)
(* may read free are not busy.                                              *)
Sweepable(free) ==
  /\ Tiled(cell, bounds.end, bounds.top)
  /\ \A o \in free : ~cell[o].busy

LEMMA BusyCells ==
  ASSUME NEW free, Sweepable(free), NEW o \in Busy(free)
  PROVE  /\ o \in DOMAIN cell /\ o \in Nat /\ o \notin free /\ o < bounds.end
         /\ EndOf(o) = Until(cell, o) /\ EndOf(o) \in Nat
         /\ o + Hdr < EndOf(o) /\ o < EndOf(o) /\ EndOf(o) <= bounds.end
         /\ \A p \in DOMAIN cell : p # o => EndOf(p) <= o \/ EndOf(o) <= p
         /\ EndOf(o) \in RunStarts(free)
<1>1. o \in DOMAIN cell /\ o \notin free /\ o < bounds.end
  BY DEF Busy
<1>2. \A p \in DOMAIN cell : EndOf(p) = Until(cell, p)
  BY DEF EndOf, Until
<1>3. \A p \in DOMAIN cell : p # o => EndOf(p) <= o \/ EndOf(o) <= p
  BY <1>1, <1>2 DEF Sweepable, Tiled
<1>4. EndOf(o) \in RunStarts(free)
  BY DEF RunStarts
<1> QED BY <1>1, <1>2, <1>3, <1>4, TiledEnds, WordSizes DEF Sweepable

(* Where a run may start: no busy cell stands across it. *)
LEMMA RunStartClear ==
  ASSUME NEW free, Sweepable(free), NEW at \in RunStarts(free)
  PROVE  /\ at \in Nat /\ at <= bounds.end
         /\ at \in DOMAIN cell \cup {bounds.end, Size}
         /\ \A o \in Busy(free) : o < at => EndOf(o) <= at
<1>1. bounds.end \in Nat
  BY DEF Sweepable, Tiled
<1>2. CASE at = 0
  BY <1>1, <1>2, BusyCells DEF Sweepable, Tiled
<1>3. CASE at # 0
  <2>1. PICK b \in Busy(free) : at = EndOf(b)
    BY <1>3 DEF RunStarts
  <2>2. at \in Nat /\ at <= bounds.end /\ b \in DOMAIN cell /\ b \in Nat /\ b < at
    BY <2>1, BusyCells
  <2>3. at \in DOMAIN cell \cup {bounds.end, Size}
    BY <2>1, <2>2 DEF Sweepable, Tiled, EndOf, Until
  <2>4. ASSUME NEW o \in Busy(free), o < at PROVE EndOf(o) <= at
    <3>1. o \in DOMAIN cell /\ o \in Nat /\ EndOf(o) \in Nat
          /\ (o # b => EndOf(o) <= b \/ at <= o)
      BY <2>1, <2>2, BusyCells
    <3> QED BY <2>1, <2>2, <2>4, <3>1
  <2> QED BY <2>2, <2>3, <2>4
<1> QED BY <1>2, <1>3

(* A run: free cells only, and room for a payload. *)
LEMMA RunClear ==
  ASSUME NEW free, Sweepable(free), NEW run \in Runs(free)
  PROVE  /\ run.at \in Nat /\ run.to \in Nat
         /\ run.at \in RunStarts(free) /\ run.to \in Busy(free)
         /\ run.at \notin Busy(free) /\ run.at \in DOMAIN cell /\ run.at < bounds.end
         /\ RunSize(run) \in Nat \ {0}
         /\ carcer_end_of(run.at, RunSize(run)) = run.to
         /\ \A o \in Busy(free) : EndOf(o) <= run.at \/ run.to <= o
<1>1. run.at \in RunStarts(free) /\ run.to \in Busy(free) /\ run.at < run.to
      /\ \A o \in Busy(free) : o < run.at \/ run.to <= o
  BY DEF Runs
<1>2. run.at \in Nat /\ run.to \in Nat /\ run.to < bounds.end /\ bounds.end \in Nat
      /\ bounds.end <= Size /\ Size \in Nat
  BY <1>1, RunStartClear, BusyCells, WordSizes DEF Sweepable, Tiled
<1>3. \A o \in Busy(free) : EndOf(o) <= run.at \/ run.to <= o
  BY <1>1, RunStartClear
<1>4. run.at \notin Busy(free)
  BY <1>1, <1>2
<1>5. run.at \in DOMAIN cell
  BY <1>1, <1>2, RunStartClear
<1>6. Until(cell, run.at) <= run.to /\ run.at + Hdr < Until(cell, run.at)
      /\ Until(cell, run.at) \in Nat
  <2>1. run.to \in DOMAIN cell /\ run.to # run.at
        /\ (Until(cell, run.at) <= run.to \/ EndOf(run.to) <= run.at)
    BY <1>1, <1>2, <1>5, BusyCells DEF EndOf, Until
  <2>2. EndOf(run.to) \in Nat /\ run.to < EndOf(run.to)
    BY <1>1, BusyCells
  <2>3. run.at + Hdr < Until(cell, run.at) /\ Until(cell, run.at) \in Nat
    BY <1>5, TiledEnds DEF Sweepable
  <2> QED BY <2>1, <2>2, <2>3, <1>1, <1>2
<1>7. RunSize(run) \in Nat \ {0} /\ carcer_end_of(run.at, RunSize(run)) = run.to
  BY <1>2, <1>6, WordSizes DEF RunSize, carcer_end_of
<1> QED BY <1>1, <1>2, <1>3, <1>4, <1>5, <1>7

LEMMA RunsApart ==
  ASSUME NEW free, Sweepable(free), NEW r \in Runs(free), NEW s \in Runs(free)
  PROVE  r = s \/ (r.at < s.at /\ r.to <= s.at) \/ (s.at < r.at /\ s.to <= r.at)
<1>1. /\ r.at \in Nat /\ r.to \in Nat /\ s.at \in Nat /\ s.to \in Nat
      /\ r.to \in Busy(free) /\ s.to \in Busy(free)
      /\ r.at \in RunStarts(free) /\ s.at \in RunStarts(free)
      /\ r.at < r.to /\ s.at < s.to
      /\ \A o \in Busy(free) : o < r.at \/ r.to <= o
      /\ \A o \in Busy(free) : o < s.at \/ s.to <= o
      /\ r = [at |-> r.at, to |-> r.to] /\ s = [at |-> s.at, to |-> s.to]
  BY RunClear DEF Runs
<1>2. \A a \in RunStarts(free), q \in Runs(free) : q.at < a => q.to <= a
  <2> TAKE a \in RunStarts(free), q \in Runs(free)
  <2> HAVE q.at < a
  <2>1. q.at \in Nat /\ q.to \in Nat /\ a \in Nat
    BY RunClear, RunStartClear
  <2>2. PICK b \in Busy(free) : a = EndOf(b)
    BY <2>1 DEF RunStarts
  <2>3. b \in Nat /\ b < a /\ (a <= q.at \/ q.to <= b)
    BY <2>2, BusyCells, RunClear
  <2> QED BY <2>1, <2>3
<1>3. CASE r.at = s.at
  BY <1>1, <1>3
<1> QED BY <1>1, <1>2, <1>3

LEMMA SweptEndMeans ==
  ASSUME NEW free, Sweepable(free)
  PROVE  /\ SweptEnd(free) \in RunStarts(free)
         /\ \A s \in RunStarts(free) : s <= SweptEnd(free)
         /\ SweptEnd(free) \in Nat /\ SweptEnd(free) <= bounds.end
<1>1. RunStarts(free) \subseteq Nat /\ RunStarts(free) # {}
      /\ bounds.end \in Nat /\ \A s \in RunStarts(free) : s <= bounds.end
  BY RunStartClear DEF RunStarts, Sweepable, Tiled
<1>2. \E e \in RunStarts(free) : \A s \in RunStarts(free) : s <= e
  BY <1>1, GreatestExists
<1>3. SweptEnd(free) \in RunStarts(free) /\ \A s \in RunStarts(free) : s <= SweptEnd(free)
  BY <1>2 DEF SweptEnd
<1> QED BY <1>1, <1>3

(* Below the swept end the next cell is a busy one or a run. *)
LEMMA SweptFollows ==
  ASSUME NEW free, Sweepable(free), NEW a \in RunStarts(free), a # SweptEnd(free)
  PROVE  a \in Busy(free) \/ \E r \in Runs(free) : r.at = a
<1> DEFINE above == {o \in Busy(free) : a <= o}
<1>1. a \in Nat /\ \A o \in Busy(free) : o \in Nat /\ (o < a => EndOf(o) <= a)
  BY RunStartClear, BusyCells
<1>2. above # {}
  <2>1. SweptEnd(free) \in Nat /\ a < SweptEnd(free)
    BY <1>1, SweptEndMeans
  <2>2. PICK b \in Busy(free) : SweptEnd(free) = EndOf(b)
    BY <2>1, <1>1, SweptEndMeans DEF RunStarts
  <2>3. ~ (b < a)
    BY <1>1, <2>1, <2>2
  <2>4. a <= b
    BY <2>3, <1>1
  <2> QED BY <2>4
<1>3. PICK m \in above : \A o \in above : m <= o
  <2>1. above \subseteq Nat
    BY <1>1
  <2> QED BY <1>2, <2>1, LeastExists
<1>4. CASE m = a
  BY <1>3, <1>4
<1>5. CASE m # a
  <2> DEFINE r == [at |-> a, to |-> m]
  <2>1. m \in Busy(free) /\ m \in Nat /\ a < m
    BY <1>1, <1>3, <1>5
  <2>2. \A o \in Busy(free) : o < a \/ m <= o
    BY <1>1, <1>3
  <2>3. r \in Runs(free)
    BY <2>1, <2>2 DEF Runs
  <2> QED BY <2>3
<1> QED BY <1>4, <1>5

(* What the sweep leaves where. *)
LEMMA SweptWords ==
  ASSUME NEW free, Sweepable(free)
  PROVE  /\ \A o \in Busy(free) : o \in DOMAIN SweptCells(free) /\ SweptCells(free)[o] = cell[o]
         /\ \A o \in DOMAIN cell : o >= bounds.end =>
              o \in DOMAIN SweptCells(free) /\ SweptCells(free)[o] = cell[o]
         /\ \A r \in Runs(free) :
              /\ r.at \in DOMAIN SweptCells(free)
              /\ SweptCells(free)[r.at] = FreeCell(RunSize(r))
         /\ \A o \in DOMAIN SweptCells(free) :
              \/ o \in Busy(free)
              \/ o \in DOMAIN cell /\ o >= bounds.end
              \/ \E r \in Runs(free) : r.at = o
<1>1. DOMAIN SweptCells(free) = Busy(free) \cup {r.at : r \in Runs(free)}
                                  \cup {o \in DOMAIN cell : o >= bounds.end}
  BY DEF SweptCells
<1>2. \A o \in DOMAIN SweptCells(free) :
        SweptCells(free)[o] = IF \E r \in Runs(free) : r.at = o
                              THEN FreeCell(RunSize(CHOOSE r \in Runs(free) : r.at = o))
                              ELSE cell[o]
  BY DEF SweptCells
<1>3. \A o \in Busy(free) : ~ \E r \in Runs(free) : r.at = o
  BY RunClear
<1>4. \A o \in DOMAIN cell : o >= bounds.end => ~ \E r \in Runs(free) : r.at = o
  <2>1. \A r \in Runs(free) : r.at \in Nat /\ r.at < bounds.end /\ bounds.end \in Nat
    BY RunClear DEF Sweepable, Tiled
  <2> QED BY <2>1
<1>5. \A r \in Runs(free) : (CHOOSE s \in Runs(free) : s.at = r.at) = r
  <2> TAKE r \in Runs(free)
  <2>1. \A s \in Runs(free) : s.at = r.at => s = r
    BY RunsApart, RunClear
  <2> QED BY <2>1
<1> DEFINE now == SweptCells(free)
           AtRun(o) == \E r \in Runs(free) : r.at = o
<1> HIDE DEF now
<1>6. \A o \in Busy(free) : o \in DOMAIN now /\ now[o] = cell[o]
  BY <1>1, <1>2, <1>3 DEF now
<1>7. \A o \in DOMAIN cell : o >= bounds.end => o \in DOMAIN now /\ now[o] = cell[o]
  BY <1>1, <1>2, <1>4 DEF now
<1>8. \A r \in Runs(free) : r.at \in DOMAIN now /\ now[r.at] = FreeCell(RunSize(r))
  <2> TAKE r \in Runs(free)
  <2>1. r.at \in DOMAIN now /\ AtRun(r.at)
    BY <1>1 DEF now
  <2>2. now[r.at] = FreeCell(RunSize(CHOOSE s \in Runs(free) : s.at = r.at))
    BY <2>1, <1>2 DEF now
  <2> QED BY <2>1, <2>2, <1>5
<1>9. \A o \in DOMAIN now : o \in Busy(free) \/ (o \in DOMAIN cell /\ o >= bounds.end) \/ AtRun(o)
  BY <1>1 DEF now
<1> QED BY <1>6, <1>7, <1>8, <1>9 DEF now

(* carcer_swept: the tier as the sweep leaves it is tiled up to its last    *)
(* busy cell, with every busy cell as it was.                               *)
LEMMA TiledSwept ==
  ASSUME NEW free, Sweepable(free)
  PROVE  /\ Tiled(SweptCells(free), SweptEnd(free), bounds.top)
         /\ \A o \in Busy(free) : EndOf(o) <= SweptEnd(free)
<1> DEFINE now == SweptCells(free)
           e == SweptEnd(free)
           Upper == {o \in DOMAIN cell : o >= bounds.end}
           AtRun(o) == \E r \in Runs(free) : r.at = o
<1>1. /\ e \in Nat /\ e <= bounds.end /\ bounds.end \in Nat /\ bounds.top \in Nat
      /\ bounds.end <= bounds.top /\ bounds.top <= Size /\ Size \in Nat
  BY SweptEndMeans, WordSizes DEF Sweepable, Tiled
<1>2. /\ \A o \in Busy(free) : o \in DOMAIN now /\ now[o] = cell[o] /\ Until(now, o) = EndOf(o)
      /\ \A o \in Upper : o \in DOMAIN now /\ now[o] = cell[o] /\ Until(now, o) = Until(cell, o)
      /\ \A r \in Runs(free) : r.at \in DOMAIN now /\ now[r.at] = FreeCell(RunSize(r))
  BY SweptWords DEF Until, EndOf
<1>3. \A r \in Runs(free) : Until(now, r.at) = r.to
  <2> TAKE r \in Runs(free)
  <2>1. now[r.at].size = RunSize(r)
    <3>1. now[r.at] = FreeCell(RunSize(r))
      BY <1>2
    <3>2. FreeCell(RunSize(r)).size = RunSize(r)
      BY DEF FreeCell
    <3> QED BY <3>1, <3>2
  <2>2. carcer_end_of(r.at, RunSize(r)) = r.to
    BY RunClear
  <2> HIDE DEF now
  <2> QED BY <2>1, <2>2 DEF Until
<1>4. \A o \in DOMAIN now : o \in Busy(free) \/ o \in Upper \/ AtRun(o)
  BY SweptWords
<1>5. \A o \in Upper : o \in Nat /\ bounds.top <= o /\ o < Until(cell, o) /\ Until(cell, o) \in Nat
        /\ Until(cell, o) <= Size /\ cell[o] \in CellWords
  BY TiledEnds, WordSizes DEF Sweepable
<1>6. \A o \in Busy(free) : /\ o \in DOMAIN cell /\ o \in Nat /\ cell[o] \in CellWords
                            /\ EndOf(o) \in Nat /\ EndOf(o) <= e /\ o < EndOf(o)
                            /\ EndOf(o) \in RunStarts(free)
  BY SweptEndMeans, BusyCells, TiledEnds DEF Sweepable
<1>7. \A r \in Runs(free) : /\ r.at \in Nat /\ r.to \in Nat /\ r.to <= e /\ r.at < r.to
                            /\ FreeCell(RunSize(r)) \in CellWords /\ r.to \in Busy(free)
  <2> TAKE r \in Runs(free)
  <2>1. r.at \in Nat /\ r.to \in Nat /\ r.to \in Busy(free) /\ r.at < r.to /\ RunSize(r) \in Nat \ {0}
    BY RunClear DEF Runs
  <2>2. FreeCell(RunSize(r)) \in CellWords
    BY <2>1 DEF FreeCell, CellWords
  <2> QED BY <1>1, <1>6, <2>1, <2>2
<1>8. now \in [DOMAIN now -> CellWords] /\ DOMAIN now \subseteq Nat
  <2>1. \A o \in DOMAIN now : now[o] \in CellWords /\ o \in Nat
    BY <1>2, <1>4, <1>5, <1>6, <1>7
  <2>2. now = [o \in DOMAIN now |-> now[o]]
    BY DEF SweptCells
  <2> QED BY <2>1, <2>2
<1> HIDE DEF now, e
<1>9. \A o \in DOMAIN now : Until(now, o) <= e \/ (bounds.top <= o /\ Until(now, o) <= Size)
  BY <1>2, <1>3, <1>4, <1>5, <1>6, <1>7
<1>10. \A o, p \in DOMAIN now : o # p => Until(now, o) <= p \/ Until(now, p) <= o
  <2>1. \A o, p \in Busy(free) : o # p => EndOf(o) <= p \/ EndOf(p) <= o
    BY BusyCells
  <2>2. \A o \in Busy(free) : \A r \in Runs(free) : EndOf(o) <= r.at \/ r.to <= o
    BY RunClear
  <2>3. \A r, s \in Runs(free) : r = s \/ r.to <= s.at \/ s.to <= r.at
    BY RunsApart
  <2>4. \A o, p \in Upper : o # p => Until(cell, o) <= p \/ Until(cell, p) <= o
    BY DEF Sweepable, Tiled
  <2>5. \A p \in Upper : e <= p
    BY <1>1, <1>5
  <2> QED BY <2>1, <2>2, <2>3, <2>4, <2>5, <1>1, <1>2, <1>3, <1>4, <1>5, <1>6, <1>7
<1>11. \A a \in RunStarts(free) : a \in DOMAIN now \cup {e}
  BY SweptFollows, <1>2 DEF e
<1>12. 0 \in DOMAIN now \cup {e}
  BY <1>11 DEF RunStarts
<1>13. bounds.top \in DOMAIN now \cup {Size}
  <2>1. bounds.top \in DOMAIN cell \cup {Size}
    BY DEF Sweepable, Tiled
  <2> QED BY <2>1, <1>1, <1>2
<1>14. \A o \in DOMAIN now : Until(now, o) \in DOMAIN now \cup {e, Size}
  <2> TAKE o \in DOMAIN now
  <2>1. CASE o \in Busy(free)
    BY <2>1, <1>2, <1>6, <1>11
  <2>2. CASE o \in Upper
    <3>1. Until(cell, o) \in DOMAIN cell \cup {bounds.end, Size}
      BY <2>2 DEF Sweepable, Tiled
    <3>2. Until(cell, o) > bounds.end
      BY <2>2, <1>1, <1>5
    <3> QED BY <3>1, <3>2, <2>2, <1>1, <1>2, <1>5
  <2>3. CASE AtRun(o)
    BY <2>3, <1>2, <1>3, <1>7
  <2> QED BY <2>1, <2>2, <2>3, <1>4
<1>15. Tiled(now, e, bounds.top)
  BY <1>1, <1>8, <1>9, <1>10, <1>12, <1>13, <1>14 DEF Tiled
<1> QED BY <1>6, <1>15 DEF now, e

(* The sweep leaves every busy cell, and every temporary one, as it is. *)
LEMMA SweptKeeps ==
  ASSUME NEW free, Sweepable(free), NEW o \in DOMAIN cell,
         cell[o].busy \/ o >= bounds.end
  PROVE  /\ o \in DOMAIN SweptCells(free) /\ SweptCells(free)[o] = cell[o]
         /\ o < bounds.end => o < SweptEnd(free)
         /\ \A r \in Runs(free) : r.at # o
<1>1. o \in Nat /\ bounds.end \in Nat
  BY TiledEnds DEF Sweepable, Tiled
<1>2. CASE o < bounds.end
  <2>1. o \in Busy(free)
    BY <1>1, <1>2 DEF Busy, Sweepable
  <2>2. o < EndOf(o) /\ EndOf(o) \in Nat /\ EndOf(o) <= SweptEnd(free) /\ SweptEnd(free) \in Nat
    BY <2>1, BusyCells, TiledSwept, SweptEndMeans
  <2>3. o < SweptEnd(free)
    BY <1>1, <2>2
  <2>4. \A r \in Runs(free) : r.at # o
    BY <2>1, RunClear
  <2> QED BY <2>1, <2>3, <2>4, SweptWords
<1>3. CASE ~(o < bounds.end)
  <2>1. \A r \in Runs(free) : r.at \in Nat /\ r.at < bounds.end
    BY RunClear
  <2> QED BY <1>1, <1>3, <2>1, SweptWords
<1> QED BY <1>2, <1>3

(* The first run that holds a want. *)
LEMMA FirstRunMeans ==
  ASSUME NEW free, Sweepable(free), NEW want, Holding(free, want) # {}
  PROVE  FirstRun(free, want) \in Runs(free) /\ RunSize(FirstRun(free, want)) >= want
<1> DEFINE ats == {r.at : r \in Holding(free, want)}
<1>1. \A r \in Holding(free, want) : r \in Runs(free) /\ r.at \in Nat
  BY RunClear DEF Holding
<1>2. ats \subseteq Nat /\ ats # {}
  BY <1>1
<1>3. PICK at \in ats : \A a \in ats : at <= a
  BY <1>2, LeastExists
<1>4. \E r \in Holding(free, want) : \A s \in Holding(free, want) : r.at <= s.at
  BY <1>3
<1>5. FirstRun(free, want) \in Holding(free, want)
  BY <1>4 DEF FirstRun
<1> QED BY <1>5 DEF Holding

(* The walked top stands at a cell or at the size, above no busy cell.      *)
LEMMA TopWalkedMeans ==
  ASSUME NEW free, Sweepable(free)
  PROVE  /\ TopWalked(free) \in DOMAIN cell \cup {Size}
         /\ TopWalked(free) \in Nat /\ bounds.top <= TopWalked(free) /\ TopWalked(free) <= Size
         /\ \A o \in DOMAIN cell : o >= bounds.top /\ cell[o].busy => TopWalked(free) <= o
<1> DEFINE tops == BusyAbove(free) \cup {Size}
<1>1. /\ \A o \in BusyAbove(free) : o \in DOMAIN cell /\ o \in Nat /\ bounds.top <= o /\ o < Size
      /\ bounds.top \in Nat /\ bounds.top <= Size /\ Size \in Nat
  BY TiledEnds, WordSizes DEF BusyAbove, Sweepable, Tiled
<1>2. tops \subseteq Nat /\ tops # {}
  BY <1>1
<1>3. \E t \in tops : \A s \in tops : t <= s
  BY <1>2, LeastExists
<1>4. TopWalked(free) \in tops /\ \A o \in BusyAbove(free) : TopWalked(free) <= o
  <2>1. \E t \in tops : \A o \in BusyAbove(free) : t <= o
    BY <1>3
  <2> QED BY <2>1 DEF TopWalked
<1>5. \A o \in DOMAIN cell : o >= bounds.top /\ cell[o].busy => o \in BusyAbove(free)
  BY DEF BusyAbove, Sweepable
<1> QED BY <1>1, <1>4, <1>5

-----------------------------------------------------------------------------
(* Control: who may be where. *)

(* The contexts between the fetch-or that took the closed bit and the       *)
(* fetch-and that clears it.                                                *)
HoldsBit(c) == pc[c] \in {"drain", "wait", "work", "walk"}

BadgedIn(c) == pc[c] = "read" \/ InPass(c)

(* The strengthening of Exclusive.  The closed bit has one holder; a pass   *)
(* stands in its lane from badge-in to leave; and a drain under way waits   *)
(* for every pass that read the closed bit clear.                           *)
ControlInv ==
  /\ pc \in [Contexts -> Steps]
  /\ closed \in BOOLEAN
  /\ lane \subseteq Contexts
  /\ waits \subseteq lane
  /\ \A c \in Contexts : HoldsBit(c) => closed
  /\ \A c, d \in Contexts : HoldsBit(c) /\ HoldsBit(d) => c = d
  /\ \A c \in Contexts : BadgedIn(c) => c \in lane
  /\ \A c, d \in Contexts : pc[c] = "wait" /\ InPass(d) => d \in waits
  /\ \A c, d \in Contexts : AtWork(c) => ~InPass(d)

LEMMA ExclusiveFromControl == ControlInv => Exclusive
  BY DEF ControlInv, Exclusive, HoldsBit, AtWork, InPass

LEMMA ControlInit == Init => ControlInv
  BY DEF Init, ControlInv, HoldsBit, BadgedIn, InPass, AtWork, Steps

(* A step that takes the closed bit does so where it was clear. *)
LEMMA ControlTakesBit ==
  ASSUME ControlInv, NEW c \in Contexts,
         ~closed, closed' = TRUE, pc[c] \in {"shut", "trim"},
         pc' = [pc EXCEPT ![c] = "drain"], UNCHANGED <<lane, waits>>
  PROVE  ControlInv'
  BY DEF ControlInv, HoldsBit, BadgedIn, InPass, AtWork, Steps

(* A step that clears it is its holder's last. *)
LEMMA ControlOpens ==
  ASSUME ControlInv, NEW c \in Contexts,
         pc[c] \in {"work", "walk"}, closed' = FALSE,
         pc' = [pc EXCEPT ![c] = "idle"], UNCHANGED <<lane, waits>>
  PROVE  ControlInv'
  BY DEF ControlInv, HoldsBit, BadgedIn, InPass, AtWork, Steps

(* A pass that goes on from one of its steps to the next stays badged in. *)
LEMMA ControlPasses ==
  ASSUME ControlInv, NEW c \in Contexts, InPass(c),
         NEW to \in {"bump", "owe", "lay", "leave", "refused"},
         pc' = [pc EXCEPT ![c] = to], UNCHANGED <<closed, lane, waits>>
  PROVE  ControlInv'
  BY DEF ControlInv, HoldsBit, BadgedIn, InPass, AtWork, Steps

(* A pass that ends leaves its lane and the drain's list. *)
LEMMA ControlLeaves ==
  ASSUME ControlInv, NEW c \in Contexts, BadgedIn(c),
         NEW to \in {"idle", "enter", "shut"},
         pc' = [pc EXCEPT ![c] = to], Unbadged(c), UNCHANGED closed
  PROVE  ControlInv'
  BY DEF ControlInv, HoldsBit, BadgedIn, InPass, AtWork, Steps, Unbadged

(* A step outside every pass and every exclusive section. *)
LEMMA ControlOutside ==
  ASSUME ControlInv, NEW c \in Contexts,
         ~BadgedIn(c), ~HoldsBit(c),
         NEW to \in {"idle", "enter", "shut", "claim", "free", "trim"},
         pc' = [pc EXCEPT ![c] = to], UNCHANGED <<closed, lane, waits>>
  PROVE  ControlInv'
  BY DEF ControlInv, HoldsBit, BadgedIn, InPass, AtWork, Steps

LEMMA ControlStep == ControlInv /\ [Next]_vars => ControlInv'
<1> SUFFICES ASSUME ControlInv, [Next]_vars PROVE ControlInv'
  OBVIOUS
<1>1. CASE UNCHANGED vars
  BY <1>1 DEF vars, counts, ControlInv, HoldsBit, BadgedIn, InPass, AtWork
<1>2. ASSUME NEW c \in Contexts, Calls(c) PROVE ControlInv'
  <2>1. pc[c] = "idle" /\ UNCHANGED <<closed, lane, waits>>
        /\ \E to \in {"enter", "claim", "shut"} : pc' = [pc EXCEPT ![c] = to]
    BY <1>2 DEF Calls, Take, Give, Grow, Rewind, Call
  <2> QED BY <2>1, ControlOutside DEF BadgedIn, HoldsBit, InPass
<1>3. ASSUME NEW c \in Contexts, Pass(c) PROVE ControlInv'
  <2>1. CASE Enter(c)
    BY <2>1 DEF Enter, Goto, ControlInv, HoldsBit, BadgedIn, InPass, AtWork, Steps
  <2>2. CASE Permit(c)
    BY <2>2 DEF Permit, Goto, ControlInv, HoldsBit, BadgedIn, InPass, AtWork, Steps
  <2>3. CASE Ahead(c) \/ BumpUp(c) \/ BumpDown(c) \/ Owe(c) \/ Lay(c)
    <3>1. InPass(c) /\ UNCHANGED <<closed, lane, waits>>
          /\ \E to \in {"bump", "owe", "lay", "leave", "refused"} :
               pc' = [pc EXCEPT ![c] = to]
      BY <2>3 DEF Ahead, BumpUp, BumpDown, Owe, Lay, Goto, InPass
    <3> QED BY <3>1, ControlPasses
  <2>4. CASE Miss(c) \/ Leave(c) \/ Refused(c)
    <3>1. BadgedIn(c) /\ Unbadged(c) /\ UNCHANGED closed
          /\ \E to \in {"idle", "enter", "shut"} : pc' = [pc EXCEPT ![c] = to]
      BY <2>4 DEF Miss, Leave, Refused, Return, Goto, BadgedIn, InPass
    <3> QED BY <3>1, ControlLeaves
  <2> QED BY <1>3, <2>1, <2>2, <2>3, <2>4 DEF Pass
<1>4. ASSUME NEW c \in Contexts, Writer(c) PROVE ControlInv'
  <2>1. CASE Shut(c)
    BY <2>1, ControlTakesBit DEF Shut, Goto
  <2>2. CASE Drain(c)
    BY <2>2 DEF Drain, Goto, ControlInv, HoldsBit, BadgedIn, InPass, AtWork, Steps
  <2>3. CASE Settle(c)
    BY <2>3 DEF Settle, Goto, ControlInv, HoldsBit, BadgedIn, InPass, AtWork, Steps
  <2>4. CASE Opened(c, "work") \/ Opened(c, "walk")
    BY <2>4, ControlOpens DEF Opened, Return, Goto
  <2>5. CASE RewindBegin(c)
    BY <2>5 DEF RewindBegin, Goto, ControlInv, HoldsBit, BadgedIn, InPass, AtWork, Steps
  <2>6. CASE RewindStep(c)
    BY <2>6 DEF RewindStep, ControlInv, HoldsBit, BadgedIn, InPass, AtWork
  <2> QED
    BY <1>4, <2>1, <2>2, <2>3, <2>4, <2>5, <2>6
    DEF Writer, SpillRun, SpillUp, SpillDown, TrimUp, TrimDown,
        GrowUp, GrowDown, GrowRefused, Rewound
<1>5. ASSUME NEW c \in Contexts, GiveStep(c) PROVE ControlInv'
  <2>1. CASE TrimTaken(c)
    BY <2>1, ControlTakesBit DEF TrimTaken, Goto
  <2>2. CASE Claim(c) \/ Freed(c) \/ TrimSkipped(c)
    <3>1. pc[c] \in {"claim", "free", "trim"} /\ UNCHANGED <<closed, lane, waits>>
          /\ \E to \in {"idle", "free", "trim"} : pc' = [pc EXCEPT ![c] = to]
      BY <2>2 DEF Claim, Freed, TrimSkipped, Return, Goto
    <3> QED BY <3>1, ControlOutside DEF BadgedIn, HoldsBit, InPass
  <2> QED BY <1>5, <2>1, <2>2 DEF GiveStep
<1> QED BY <1>1, <1>2, <1>3, <1>4, <1>5 DEF Next

(* A writer that has drained works alone, for any number of contexts and    *)
(* lanes: carcer_attempted against carcer_shut and carcer_trimmed.          *)
THEOREM ExclusiveHolds == Spec => []Exclusive
<1>1. Spec => []ControlInv
  BY ControlInit, ControlStep, PTL DEF Spec
<1> QED BY <1>1, ExclusiveFromControl, PTL

-----------------------------------------------------------------------------
(* The whole invariant. *)
Kinds == {"none", "take", "give", "grow", "rewind"}

TypeInv ==
  /\ bounds \in Word
  /\ over \in [end : Nat, top : Nat]
  /\ chain \in [end : Nat, top : Nat]
  /\ seen \subseteq Offsets
  /\ cell = [o \in DOMAIN cell |-> cell[o]]
  /\ inUse \in Int /\ persistentInUse \in Int /\ ownerInUse \in [Owners -> Int]
  /\ op \in [Contexts -> [kind : Kinds, up : BOOLEAN, want : Nat,
                          owner : Owners \cup Strangers \cup {NoOwner},
                          off : Nat, edge : BOOLEAN]]
  /\ held \in [Contexts -> SUBSET Nat]

(* What a context's call says of it at each step. *)
OpFits(c) ==
  /\ pc[c] = "enter" \/ pc[c] = "read" \/ InPass(c) => op[c].kind = "take"
  /\ pc[c] \in {"claim", "free", "trim"} => op[c].kind = "give"
  /\ pc[c] = "walk" => op[c].kind = "rewind"
  /\ op[c].kind = "take" =>
       /\ op[c].want > 0
       /\ op[c].up \/ c \in TempContexts
       /\ pc[c] \in {"bump", "owe", "lay", "leave"} => op[c].want <= WantMost
       /\ pc[c] \in {"bump", "owe", "lay", "leave", "shut", "drain", "wait", "work"} =>
            op[c].owner \in Owners
  /\ op[c].kind = "give" => op[c].up \/ c \in TempContexts
  /\ op[c].kind = "grow" =>
       /\ pc[c] \in {"shut", "drain", "wait", "work"}
       /\ op[c].owner \in Owners \cup {NoOwner}
       /\ op[c].off \in held[c]
  /\ op[c].kind = "rewind" =>
       /\ Rewinds /\ c \in TempContexts
       /\ pc[c] \in {"shut", "drain", "wait", "work", "walk"}

OpInv == \A c \in Contexts : OpFits(c)

(* The word.  Each boundary stands past its chain by bytes refused, those   *)
(* on the overrun and those of the bumps between their two atomic steps.    *)
UpOwed == bounds.end - chain.end
DownOwed == chain.top - Place(bounds.top)

Ups == {c \in Contexts : pc[c] = "bump" /\ op[c].up}
Downs == {c \in TempContexts : /\ op[c].kind = "take" /\ ~op[c].up
                               /\ op[c].owner \in Owners
                               /\ pc[c] \in {"owe", "refused", "shut", "drain", "wait"}}

OweUp == [c \in Contexts |-> IF pc[c] = "owe" /\ op[c].up THEN Need(c) ELSE 0]
OweDown == [c \in Contexts |-> IF pc[c] = "owe" /\ ~op[c].up THEN Need(c) ELSE 0]

WordInv ==
  /\ Cardinality(lane) <= Lanes
  /\ UpOwed >= 0 /\ DownOwed >= 0
  /\ UpOwed > 0 \/ DownOwed > 0 => bounds.end > Place(bounds.top)
  /\ DownOwed <= Cardinality(Downs) * NeedMost
  /\ bounds.end <= BytesMost + (Lanes - Cardinality(Ups)) * NeedMost
  /\ SumIs(Contexts, OweUp, UpOwed - over.end)
  /\ SumIs(Contexts, OweDown, DownOwed - over.top)
  /\ \A c \in Contexts : AtWork(c) => UpOwed = 0 /\ DownOwed = 0
                                      /\ over.end = 0 /\ over.top = 0

(* The cells laid, and those a bump was answered, as if laid. *)
Full ==
  [o \in Starts |->
     IF o \in DOMAIN cell THEN cell[o]
     ELSE LET c == CHOOSE c \in Claims : op[c].off = o
          IN  BusyCell(op[c].want, op[c].owner)]

TierInv ==
  /\ Tiled(Full, chain.end, chain.top)
  /\ \A c \in Claims : op[c].off \notin DOMAIN cell
  /\ \A c, d \in Claims : op[c].off = op[d].off => c = d
  /\ \A c \in Claims : op[c].up => op[c].off < chain.end

(* The cells a context holds, and the one a call of its own is about. *)
Mine(c) ==
  held[c] \cup IF pc[c] \in {"leave", "claim", "free"} THEN {op[c].off} ELSE {}

HeldInv ==
  /\ \A c \in Contexts : pc[c] \in {"leave", "claim", "free"} => op[c].off \notin held[c]
  /\ \A c \in Contexts : \A o \in Mine(c) : o \in DOMAIN cell /\ cell[o].busy
  /\ \A c, d \in Contexts : c # d => Mine(c) \cap Mine(d) = {}
  /\ \A c \in Contexts \ TempContexts : \A o \in Mine(c) : o < chain.end

(* A rewind's mark stands where a cell begins, whatever the others do. *)
Marks == {o \in DOMAIN cell : o >= chain.top}

MarkInv ==
  \A c \in Contexts : op[c].kind = "rewind" =>
    /\ pc[c] # "walk" => op[c].want \in Marks \cup {0, Size}
    /\ pc[c] = "walk" => /\ op[c].want \in Marks \cup {Size}
                         /\ op[c].off \in Marks \cup {Size}
                         /\ op[c].off <= op[c].want

IInv == ControlInv /\ TypeInv /\ OpInv /\ WordInv /\ TierInv /\ HeldInv /\ MarkInv

-----------------------------------------------------------------------------
LEMMA Assumed ==
  /\ IsFiniteSet(Contexts) /\ TempContexts \subseteq Contexts /\ IsFiniteSet(TempContexts)
  /\ Lanes \in Nat /\ Lanes > 0 /\ Cardinality(TempContexts) \in Nat
  /\ Requests \subseteq Nat /\ Growths \subseteq Nat /\ Rewinds \in BOOLEAN
  /\ Owners \cap Strangers = {} /\ NoOwner \notin Owners /\ NoOwner \notin Strangers
  /\ BytesMost + Lanes * NeedMost < Half
  /\ Size + Cardinality(TempContexts) * NeedMost < Half
<1>1. IsFiniteSet(TempContexts) /\ Cardinality(TempContexts) \in Nat
  BY FS_Subset, FS_CardinalityType, CellblockAssumption
<1> QED BY <1>1, CellblockAssumption, HeadroomAssumption

LEMMA SoleRewinder ==
  ASSUME Rewinds, NEW c \in TempContexts, NEW d \in TempContexts
  PROVE  c = d
<1>1. \E x : TempContexts = {x}
  BY Assumed, FS_Singleton, CellblockAssumption
<1> QED BY <1>1

LEMMA InitInv == Init => IInv
<1> SUFFICES ASSUME Init PROVE IInv
  OBVIOUS
<1>1. ControlInv
  BY ControlInit
<1>2. 0 % Half = 0 /\ Size % Half = Size /\ Size < Half /\ Half > 0
  BY HalfMod, WordSizes
<1>3. bounds = [end |-> 0, top |-> Size] /\ bounds \in Word
  BY <1>2, WordSizes DEF Init, carcer_bounds, Word, Halves
<1>4. TypeInv
  BY <1>3, WordSizes DEF Init, TypeInv, NoOp, Kinds
<1>5. OpInv
  BY DEF Init, OpInv, OpFits, NoOp, InPass
<1>6. Claims = {} /\ Ups = {} /\ Downs = {} /\ DOMAIN cell = {}
      /\ OweUp = [c \in Contexts |-> 0] /\ OweDown = [c \in Contexts |-> 0]
  BY Assumed DEF Init, Claims, Ups, Downs, OweUp, OweDown
<1>7. WordInv
  <2>1. UpOwed = 0 /\ DownOwed = 0 /\ over.end = 0 /\ over.top = 0
    BY <1>3, WordSizes DEF UpOwed, DownOwed, Place, Init
  <2>2. Cardinality({}) = 0
    BY FS_EmptySet
  <2>3. 0 <= 0 * NeedMost /\ 0 <= BytesMost + (Lanes - 0) * NeedMost
    BY Assumed, WordSizes
  <2>4. lane = {} /\ bounds.end = 0
    BY <1>3 DEF Init
  <2> QED BY <1>6, <2>1, <2>2, <2>3, <2>4, SumOfZeros, Assumed DEF WordInv
<1>8. TierInv
  <2>1. Starts = {} /\ DOMAIN Full = {} /\ chain.end = 0 /\ chain.top = Size
    BY <1>6 DEF Starts, Full, Init
  <2>2. Tiled(Full, chain.end, chain.top)
    BY <2>1, WordSizes DEF Tiled, Full
  <2> QED BY <1>6, <2>2 DEF TierInv
<1>9. HeldInv /\ MarkInv
  BY DEF Init, HeldInv, Mine, MarkInv, NoOp
<1> QED BY <1>1, <1>4, <1>5, <1>7, <1>8, <1>9 DEF IInv

-----------------------------------------------------------------------------
(* What the invariant says in the forms the steps need. *)
LEMMA FullMeans ==
  ASSUME TypeInv, TierInv
  PROVE  /\ DOMAIN Full = Starts
         /\ \A o \in DOMAIN cell : o \in Starts /\ Full[o] = cell[o] /\ Until(Full, o) = EndOf(o)
         /\ \A c \in Claims : /\ op[c].off \in Starts
                              /\ Full[op[c].off] = BusyCell(op[c].want, op[c].owner)
                              /\ Until(Full, op[c].off) = ClaimEnd(c)
         /\ \A o \in DOMAIN cell : cell[o] \in CellWords /\ o \in Offsets /\ o \in Nat
         /\ cell \in [DOMAIN cell -> CellWords]
         /\ chain.end \in Nat /\ chain.top \in Nat /\ chain.end <= chain.top /\ chain.top <= Size
<1>1. DOMAIN Full = Starts
  BY DEF Full
<1>2. \A o \in DOMAIN cell : o \in Starts /\ Full[o] = cell[o] /\ Until(Full, o) = EndOf(o)
  BY DEF Full, Starts, Until, EndOf
<1>3. ASSUME NEW c \in Claims
      PROVE  /\ op[c].off \in Starts
             /\ Full[op[c].off] = BusyCell(op[c].want, op[c].owner)
             /\ Until(Full, op[c].off) = ClaimEnd(c)
  <2>1. op[c].off \in Starts /\ op[c].off \notin DOMAIN cell
    BY DEF Starts, TierInv
  <2>2. (CHOOSE d \in Claims : op[d].off = op[c].off) = c
    BY DEF TierInv
  <2>3. Full[op[c].off] = BusyCell(op[c].want, op[c].owner)
    BY <2>1, <2>2 DEF Full
  <2> QED BY <2>1, <2>3 DEF Until, ClaimEnd, BusyCell
<1>4. \A o \in DOMAIN cell : cell[o] \in CellWords /\ o \in Offsets /\ o \in Nat
  BY <1>1, <1>2, TiledEnds, WordSizes DEF TierInv, Offsets
<1>5. cell \in [DOMAIN cell -> CellWords]
  BY <1>4 DEF TypeInv
<1> QED BY <1>1, <1>2, <1>3, <1>4, <1>5 DEF TierInv, Tiled

LEMMA WordMeans ==
  ASSUME TypeInv
  PROVE  /\ bounds.end \in Nat /\ bounds.end < Half /\ bounds.end \in Halves
         /\ bounds.top \in Nat /\ bounds.top < Half /\ bounds.top \in Halves
         /\ chain.end \in Nat /\ chain.top \in Nat
         /\ over.end \in Nat /\ over.top \in Nat
         /\ Place(bounds.top) \in Int
         /\ UpOwed \in Int /\ DownOwed \in Int
         /\ UpOwed = bounds.end - chain.end /\ DownOwed = chain.top - Place(bounds.top)
<1>1. /\ bounds.end \in Halves /\ bounds.top \in Halves
      /\ chain.end \in Nat /\ chain.top \in Nat
      /\ over.end \in Nat /\ over.top \in Nat
  BY DEF TypeInv, Word
<1>2. Place(bounds.top) \in Int
  BY <1>1, PlaceHolds
<1> QED BY <1>1, <1>2, WordSizes DEF Halves, UpOwed, DownOwed

LEMMA WorkMeans ==
  ASSUME IInv, NEW c \in Contexts, AtWork(c)
  PROVE  /\ Claims = {} /\ Ups = {} /\ Starts = DOMAIN cell /\ Full = cell
         /\ Tiled(cell, bounds.end, bounds.top)
         /\ bounds.end = chain.end /\ bounds.top = chain.top
         /\ over = [end |-> 0, top |-> 0]
         /\ \A d \in Contexts : ~InPass(d)
         /\ \A d \in Contexts \ {c} : ~AtWork(d)
<1>1. \A d \in Contexts : ~InPass(d)
  BY DEF IInv, ControlInv
<1>2. \A d \in Contexts \ {c} : ~AtWork(d)
  BY DEF IInv, ControlInv, HoldsBit, AtWork
<1>3. Claims = {} /\ Ups = {}
  BY <1>1 DEF Claims, Ups, InPass
<1>4. Starts = DOMAIN cell
  BY <1>3 DEF Starts
<1>5. Full = cell
  <2>1. Full = [o \in DOMAIN cell |-> cell[o]]
    BY <1>4 DEF Full
  <2> QED BY <2>1 DEF IInv, TypeInv
<1>6. UpOwed = 0 /\ DownOwed = 0 /\ over.end = 0 /\ over.top = 0
  BY DEF IInv, WordInv
<1>7. bounds.end = chain.end
  BY <1>6, WordMeans DEF IInv
<1>8. bounds.top = chain.top
  <2>1. Place(bounds.top) = chain.top
    BY <1>6, WordMeans DEF IInv
  <2> QED BY <2>1, WordMeans, WordSizes DEF IInv, Place
<1>9. over = [end |-> 0, top |-> 0]
  BY <1>6 DEF IInv, TypeInv
<1>10. Tiled(cell, bounds.end, bounds.top)
  BY <1>5, <1>7, <1>8 DEF IInv, TierInv
<1> QED BY <1>1, <1>2, <1>3, <1>4, <1>5, <1>7, <1>8, <1>9, <1>10

(* A step of one context leaves the others where they stand, with all they  *)
(* hold.                                                                    *)
LEMMA OthersStand ==
  ASSUME ControlInv, TypeInv, NEW c \in Contexts,
         Calls(c) \/ Pass(c) \/ Writer(c) \/ GiveStep(c), NEW d \in Contexts \ {c}
  PROVE  pc'[d] = pc[d] /\ op'[d] = op[d] /\ held'[d] = held[d]
<1> USE DEF ControlInv, TypeInv
<1>1. CASE Calls(c)
  BY <1>1 DEF Calls, Take, Give, Grow, Rewind, Call
<1>2. CASE Pass(c)
  BY <1>2 DEF Pass, Enter, Permit, Miss, Ahead, BumpUp, BumpDown, Owe, Lay, Leave, Refused,
              Goto, Return
<1>3. CASE Writer(c)
  <2>1. CASE Shut(c) \/ Drain(c) \/ Settle(c) \/ RewindBegin(c) \/ RewindStep(c)
    BY <2>1 DEF Shut, Drain, Settle, RewindBegin, RewindStep, Goto
  <2>2. CASE SpillRun(c) \/ SpillUp(c)
    BY <2>2 DEF SpillRun, SpillUp, Opened, Return, Goto, Answered
  <2>3. CASE SpillDown(c)
    BY <2>3 DEF SpillDown, Opened, Return, Goto, Answered
  <2>4. CASE TrimUp(c) \/ TrimDown(c)
    BY <2>4 DEF TrimUp, TrimDown, Opened, Return, Goto
  <2>5. CASE GrowUp(c) \/ GrowDown(c) \/ GrowRefused(c) \/ Rewound(c)
    BY <2>5 DEF GrowUp, GrowDown, GrowRefused, Rewound, Opened, Return, Goto
  <2> QED BY <1>3, <2>1, <2>2, <2>3, <2>4, <2>5 DEF Writer
<1>4. CASE GiveStep(c)
  BY <1>4 DEF GiveStep, Claim, Freed, TrimTaken, TrimSkipped, Goto, Return
<1> QED BY <1>1, <1>2, <1>3, <1>4

(* A give reads a persistent cell as persistent: the end stands at or past  *)
(* the chain.                                                               *)
LEMMA GiveReadsTier ==
  ASSUME IInv, NEW c \in Contexts, NEW o \in held[c], ~(o < bounds.end)
  PROVE  c \in TempContexts
<1>1. o \in Mine(c)
  BY DEF Mine
<1>2. chain.end <= bounds.end /\ chain.end \in Nat /\ bounds.end \in Nat
  BY DEF IInv, WordInv, UpOwed, TypeInv, Word, Halves
<1>3. o \in Nat
  BY DEF IInv, TypeInv
<1> QED BY <1>1, <1>2, <1>3 DEF IInv, HeldInv

LEMMA OpStep ==
  ASSUME IInv, NEW c \in Contexts, Calls(c) \/ Pass(c) \/ Writer(c) \/ GiveStep(c)
  PROVE  OpInv'
<1> USE DEF IInv, ControlInv, TypeInv
<1>1. OpFits(c)
  BY DEF OpInv
<1>2. \A d \in Contexts \ {c} : OpFits(d)'
  BY OthersStand DEF OpInv, OpFits, InPass
<1>3. CASE Calls(c)
  <2>1. CASE Take(c)
    <3>1. PICK up \in BOOLEAN, request \in Requests, owner \in Owners \cup Strangers :
            /\ up \/ c \in TempContexts
            /\ pc' = [pc EXCEPT ![c] = "enter"]
            /\ op' = [op EXCEPT ![c] = [NoOp EXCEPT !.kind = "take", !.up = up,
                                        !.want = carcer_want(request), !.owner = owner]]
      BY <2>1 DEF Take, Call
    <3>2. carcer_want(request) > 0
      BY WantRounds, Assumed, WordSizes
    <3> QED BY <3>1, <3>2, <1>2 DEF OpInv, OpFits, NoOp, InPass
  <2>2. CASE Give(c)
    <3>1. PICK o \in held[c] :
            /\ pc' = [pc EXCEPT ![c] = "claim"]
            /\ \E e \in BOOLEAN :
                 op' = [op EXCEPT ![c] = [NoOp EXCEPT !.kind = "give", !.off = o,
                                          !.up = (o < bounds.end), !.edge = e]]
      <4>1. PICK o \in held[c] :
              /\ pc' = [pc EXCEPT ![c] = "claim"]
              /\ op' = [op EXCEPT ![c] =
                         [NoOp EXCEPT !.kind = "give", !.off = o, !.up = (o < bounds.end),
                                      !.edge = IF o < bounds.end THEN EndOf(o) = bounds.end
                                                                 ELSE o = bounds.top]]
        BY <2>2 DEF Give, Call
      <4>2. (IF o < bounds.end THEN EndOf(o) = bounds.end ELSE o = bounds.top) \in BOOLEAN
        OBVIOUS
      <4> QED BY <4>1, <4>2
    <3>2. pc'[c] = "claim" /\ op'[c].kind = "give" /\ op'[c].up = (o < bounds.end)
      BY <3>1 DEF NoOp
    <3>3. OpFits(c)'
      BY <3>2, GiveReadsTier DEF OpFits, InPass
    <3> QED BY <3>3, <1>2 DEF OpInv
  <2>3. CASE Grow(c)
    <3>1. PICK o \in held[c], request \in Growths :
            /\ pc' = [pc EXCEPT ![c] = "shut"] /\ held' = held
            /\ op' = [op EXCEPT ![c] = [NoOp EXCEPT !.kind = "grow", !.off = o,
                                        !.owner = cell[o].owner,
                                        !.want = carcer_want(request)]]
      BY <2>3 DEF Grow, Call
    <3>2. o \in DOMAIN cell /\ cell[o].owner \in Owners \cup {NoOwner}
      <4>1. o \in Mine(c)
        BY DEF Mine
      <4> QED BY <4>1, FullMeans DEF HeldInv, CellWords
    <3> QED BY <3>1, <3>2, <1>2 DEF OpInv, OpFits, NoOp, InPass
  <2>4. CASE Rewind(c)
    BY <2>4, <1>2 DEF Rewind, Call, OpInv, OpFits, NoOp, InPass
  <2> QED BY <1>3, <2>1, <2>2, <2>3, <2>4 DEF Calls
<1>4. CASE Pass(c)
  <2>1. CASE Enter(c) \/ Permit(c) \/ Miss(c)
    BY <2>1, <1>1, <1>2 DEF Enter, Permit, Miss, Goto, OpInv, OpFits, InPass
  <2>2. CASE Ahead(c)
    BY <2>2, <1>1, <1>2 DEF Ahead, Goto, OpInv, OpFits, InPass
  <2>3. CASE BumpUp(c)
    <3>1. /\ pc[c] = "bump"
          /\ pc' = [pc EXCEPT ![c] = "lay"] \/ pc' = [pc EXCEPT ![c] = "owe"]
          /\ op' = op \/ op' = [op EXCEPT ![c].off = bounds.end]
      BY <2>3 DEF BumpUp, Goto
    <3>2. op'[c].kind = "take" /\ op'[c].want = op[c].want /\ op'[c].up = op[c].up
          /\ op'[c].owner = op[c].owner
      BY <3>1, <1>1 DEF OpFits, InPass
    <3> QED BY <3>1, <3>2, <1>1, <1>2 DEF OpInv, OpFits, InPass
  <2>4. CASE BumpDown(c)
    BY <2>4, <1>1, <1>2 DEF BumpDown, Goto, OpInv, OpFits, InPass
  <2>5. CASE Owe(c) \/ Lay(c)
    BY <2>5, <1>1, <1>2 DEF Owe, Lay, Goto, OpInv, OpFits, InPass
  <2>6. CASE Leave(c) \/ Refused(c)
    BY <2>6, <1>1, <1>2 DEF Leave, Refused, Goto, Return, NoOp, OpInv, OpFits, InPass
  <2> QED BY <1>4, <2>1, <2>2, <2>3, <2>4, <2>5, <2>6 DEF Pass
<1>5. CASE Writer(c)
  <2>1. CASE Shut(c) \/ Drain(c) \/ Settle(c)
    BY <2>1, <1>1, <1>2 DEF Shut, Drain, Settle, Goto, OpInv, OpFits, InPass
  <2>2. CASE Opened(c, "work") \/ Opened(c, "walk")
    BY <2>2, <1>2 DEF Opened, Return, Goto, NoOp, OpInv, OpFits, InPass
  <2>3. CASE RewindBegin(c) \/ RewindStep(c)
    <3>1. op[c].kind = "rewind" /\ Rewinds /\ c \in TempContexts
      BY <2>3, <1>1 DEF RewindBegin, RewindStep, OpFits
    <3>2. CASE RewindBegin(c)
      <4>1. pc'[c] = "walk"
        BY <3>2 DEF RewindBegin, Goto
      <4>2. op'[c].kind = "rewind"
        BY <3>1, <3>2 DEF RewindBegin
      <4> QED BY <3>1, <4>1, <4>2, <1>2 DEF OpInv, OpFits, InPass
    <3>3. CASE RewindStep(c)
      <4>1. pc'[c] = "walk"
        BY <3>3 DEF RewindStep
      <4>2. op'[c].kind = "rewind"
        BY <3>1, <3>3 DEF RewindStep
      <4> QED BY <3>1, <4>1, <4>2, <1>2 DEF OpInv, OpFits, InPass
    <3> QED BY <2>3, <3>2, <3>3
  <2> QED
    BY <1>5, <2>1, <2>2, <2>3
    DEF Writer, SpillRun, SpillUp, SpillDown, TrimUp, TrimDown,
        GrowUp, GrowDown, GrowRefused, Rewound
<1>6. CASE GiveStep(c)
  BY <1>6, <1>1, <1>2 DEF GiveStep, Claim, Freed, TrimTaken, TrimSkipped, Goto, Return, NoOp,
                          OpInv, OpFits, InPass
<1> QED BY <1>3, <1>4, <1>5, <1>6

-----------------------------------------------------------------------------
(* The word. *)
LEMMA LaneCounts ==
  ASSUME IInv, NEW c \in Contexts,
         \/ lane' = lane
         \/ lane' = lane \ {c}
         \/ lane' = lane \cup {c} /\ Cardinality(lane) < Lanes
  PROVE  Cardinality(lane') <= Lanes
<1>1. IsFiniteSet(lane) /\ Cardinality(lane) \in Nat /\ Cardinality(lane) <= Lanes
  BY FS_Subset, FS_CardinalityType, Assumed DEF IInv, ControlInv, WordInv
<1>2. CASE lane' = lane
  BY <1>1, <1>2
<1>3. CASE lane' = lane \ {c}
  <2>1. IsFiniteSet(lane') /\ Cardinality(lane') <= Cardinality(lane)
    BY <1>1, <1>3, FS_Subset
  <2> QED BY <1>1, <2>1, FS_CardinalityType, Assumed
<1>4. CASE lane' = lane \cup {c} /\ Cardinality(lane) < Lanes
  <2>1. Cardinality(lane') \in {Cardinality(lane), Cardinality(lane) + 1}
    BY <1>1, <1>4, FS_AddElement
  <2> QED BY <1>1, <1>4, <2>1, Assumed
<1> QED BY <1>2, <1>3, <1>4

LEMMA UpsCount ==
  ASSUME IInv
  PROVE  IsFiniteSet(Ups) /\ Cardinality(Ups) \in Nat /\ Cardinality(Ups) <= Lanes
<1>1. Ups \subseteq lane
  BY DEF IInv, ControlInv, Ups, BadgedIn, InPass
<1>2. IsFiniteSet(lane) /\ Cardinality(lane) \in Nat /\ Cardinality(lane) <= Lanes
  BY FS_Subset, FS_CardinalityType, Assumed DEF IInv, ControlInv, WordInv
<1> QED BY <1>1, <1>2, FS_Subset, FS_CardinalityType, Assumed

LEMMA DownsCount ==
  IsFiniteSet(Downs) /\ Cardinality(Downs) \in Nat
  /\ Cardinality(Downs) <= Cardinality(TempContexts)
<1>1. Downs \subseteq TempContexts
  BY DEF Downs
<1> QED BY <1>1, FS_Subset, FS_CardinalityType, Assumed

(* A bump's bytes. *)
LEMMA NeedMeans ==
  ASSUME IInv, NEW c \in Contexts
  PROVE  /\ Need(c) \in Nat /\ Need(c) > 0 /\ Need(c) = Hdr + op[c].want
         /\ pc[c] \in {"bump", "owe"} => Need(c) <= NeedMost
<1>1. op[c].want \in Nat
  BY DEF IInv, TypeInv
<1>2. pc[c] \in {"bump", "owe"} => op[c].want <= WantMost
  BY DEF IInv, OpInv, OpFits, InPass
<1> QED BY <1>1, <1>2, WordSizes DEF Need

LEMMA OweTypes ==
  ASSUME IInv
  PROVE  OweUp \in [Contexts -> Nat] /\ OweDown \in [Contexts -> Nat]
  BY NeedMeans DEF OweUp, OweDown

(* Fewer bumps up under way leave more headroom. *)
LEMMA Headroom ==
  ASSUME NEW j \in Nat, NEW k \in Nat, j <= k, k <= Lanes
  PROVE  /\ (Lanes - k) * NeedMost \in Nat /\ (Lanes - j) * NeedMost \in Nat
         /\ (Lanes - k) * NeedMost <= (Lanes - j) * NeedMost
         /\ (Lanes - j) * NeedMost <= Lanes * NeedMost
         /\ j < k => (Lanes - k) * NeedMost + NeedMost <= (Lanes - j) * NeedMost
<1>1. Lanes - k \in Nat /\ Lanes - j \in Nat /\ Lanes \in Nat /\ NeedMost \in Nat
  BY Assumed, WordSizes
<1>2. \A x, y \in Nat : x * NeedMost \in Nat /\ (x <= y => x * NeedMost <= y * NeedMost)
        /\ (x + 1) * NeedMost = x * NeedMost + NeedMost
  BY <1>1, OneMore
<1>3. ((Lanes - k) + 1) * NeedMost = (Lanes - k) * NeedMost + NeedMost
  BY <1>1, <1>2
<1>4. j < k => (Lanes - k) + 1 <= Lanes - j
  BY <1>1
<1>5. j < k => ((Lanes - k) + 1) * NeedMost <= (Lanes - j) * NeedMost
  BY <1>1, <1>2, <1>4
<1> QED BY <1>1, <1>2, <1>3, <1>5

(* A step that leaves the word and every bump where they were. *)
LEMMA WordKeeps ==
  ASSUME IInv, UNCHANGED <<bounds, over, chain>>, Cardinality(lane') <= Lanes,
         Ups' \subseteq Ups, Downs \subseteq Downs', OweUp' = OweUp, OweDown' = OweDown,
         \A d \in Contexts : AtWork(d)' => AtWork(d)
  PROVE  WordInv'
<1>1. UpOwed' = UpOwed /\ DownOwed' = DownOwed
  BY DEF UpOwed, DownOwed
<1>2. Cardinality(Downs) * NeedMost <= Cardinality(Downs') * NeedMost
  <2>1. Downs' \subseteq TempContexts
    BY DEF Downs
  <2>2. IsFiniteSet(Downs') /\ Cardinality(Downs') \in Nat
    BY <2>1, FS_Subset, FS_CardinalityType, Assumed
  <2>3. Cardinality(Downs) <= Cardinality(Downs')
    BY <2>2, FS_Subset
  <2> QED BY <2>2, <2>3, DownsCount, OneMore, WordSizes
<1>3. (Lanes - Cardinality(Ups)) * NeedMost <= (Lanes - Cardinality(Ups')) * NeedMost
      /\ (Lanes - Cardinality(Ups)) * NeedMost \in Nat
      /\ (Lanes - Cardinality(Ups')) * NeedMost \in Nat
  <2>1. Cardinality(Ups') \in Nat /\ Cardinality(Ups') <= Cardinality(Ups)
    BY UpsCount, FS_Subset, FS_CardinalityType
  <2> QED BY <2>1, UpsCount, Headroom
<1>4. DownOwed <= Cardinality(Downs') * NeedMost
  <2>1. Cardinality(Downs') \in Nat
    <3>1. Downs' \subseteq TempContexts
      BY DEF Downs
    <3> QED BY <3>1, FS_Subset, FS_CardinalityType, Assumed
  <2>2. Cardinality(Downs) * NeedMost \in Nat /\ Cardinality(Downs') * NeedMost \in Nat
    BY <2>1, DownsCount, WordSizes
  <2> QED BY <1>2, <2>2, WordMeans DEF IInv, WordInv
<1>5. bounds.end <= BytesMost + (Lanes - Cardinality(Ups')) * NeedMost
  BY <1>3, WordMeans, WordSizes DEF IInv, WordInv
<1> QED BY <1>1, <1>4, <1>5 DEF IInv, WordInv

(* A step that leaves the boundaries at the chains and no bump under way. *)
LEMMA WordAtRest ==
  ASSUME IInv, lane' = lane, over' = [end |-> 0, top |-> 0],
         bounds'.end = chain'.end, bounds'.top = chain'.top,
         chain'.end \in Nat, chain'.top \in Nat, chain'.end <= chain'.top, chain'.top <= Size,
         \A d \in Contexts : pc'[d] \notin {"bump", "owe"}
  PROVE  WordInv'
<1>1. Place(bounds'.top) = chain'.top
  BY WordSizes DEF Place
<1>2. UpOwed' = 0 /\ DownOwed' = 0 /\ over'.end = 0 /\ over'.top = 0
  BY <1>1 DEF UpOwed, DownOwed
<1>3. Ups' = {} /\ OweUp' = [c \in Contexts |-> 0] /\ OweDown' = [c \in Contexts |-> 0]
  BY DEF Ups, OweUp, OweDown
<1>4. Cardinality(lane') <= Lanes
  BY DEF IInv, WordInv
<1>5. Cardinality(Downs') \in Nat
  <2>1. Downs' \subseteq TempContexts
    BY DEF Downs
  <2> QED BY <2>1, FS_Subset, FS_CardinalityType, Assumed
<1>6. 0 <= Cardinality(Downs') * NeedMost
  BY <1>5, WordSizes
<1>7. bounds'.end <= BytesMost + (Lanes - Cardinality(Ups')) * NeedMost
  <2>1. Cardinality(Ups') = 0
    BY <1>3, FS_EmptySet
  <2>2. (Lanes - 0) * NeedMost \in Nat
    BY Assumed, WordSizes
  <2> QED BY <2>1, <2>2, WordSizes
<1>8. SumIs(Contexts, OweUp', 0) /\ SumIs(Contexts, OweDown', 0)
  BY <1>3, SumOfZeros
<1> QED BY <1>2, <1>4, <1>6, <1>7, <1>8 DEF WordInv

LEMMA WordBumpUp ==
  ASSUME IInv, NEW c \in Contexts, BumpUp(c)
  PROVE  /\ bounds' \in Word /\ bounds' = [end |-> bounds.end + Need(c), top |-> bounds.top]
         /\ FitsUp(bounds, Need(c)) => /\ bounds.end = chain.end /\ bounds.top = chain.top
                                       /\ chain.end + Need(c) <= chain.top
         /\ WordInv'
<1> DEFINE n == Need(c)
<1>1. /\ pc[c] = "bump" /\ op[c].up /\ bounds' = BumpedUp(bounds, n)
      /\ UNCHANGED <<over, lane>>
      /\ \/ FitsUp(bounds, n) /\ pc' = [pc EXCEPT ![c] = "lay"]
            /\ op' = [op EXCEPT ![c].off = bounds.end]
            /\ chain' = [chain EXCEPT !.end = @ + n]
         \/ ~FitsUp(bounds, n) /\ pc' = [pc EXCEPT ![c] = "owe"] /\ UNCHANGED <<op, chain>>
  BY DEF BumpUp, Goto
<1>2. n \in Nat /\ n > 0 /\ n <= NeedMost
  BY <1>1, NeedMeans
<1> HIDE DEF n
<1>3. /\ c \in Ups /\ Ups' = Ups \ {c}
      /\ Cardinality(Ups') \in Nat /\ Cardinality(Ups') < Cardinality(Ups)
  <2>1. c \in Ups
    BY <1>1 DEF Ups
  <2>2. Ups' = Ups \ {c}
    BY <1>1 DEF Ups, IInv, ControlInv, TypeInv
  <2>3. Cardinality(Ups \ {c}) = Cardinality(Ups) - 1
    BY <2>1, UpsCount, FS_RemoveElement
  <2>4. Cardinality(Ups \ {c}) \in Nat
    BY UpsCount, FS_RemoveElement, FS_CardinalityType
  <2> HIDE DEF Ups
  <2>5. Cardinality(Ups') = Cardinality(Ups \ {c})
    BY <2>2
  <2> QED BY <2>1, <2>2, <2>3, <2>4, <2>5, UpsCount
<1>4. /\ (Lanes - Cardinality(Ups)) * NeedMost + NeedMost <= (Lanes - Cardinality(Ups')) * NeedMost
      /\ (Lanes - Cardinality(Ups)) * NeedMost \in Nat
      /\ (Lanes - Cardinality(Ups')) * NeedMost \in Nat
      /\ (Lanes - Cardinality(Ups')) * NeedMost <= Lanes * NeedMost
  BY <1>3, UpsCount, Headroom
<1>5. bounds.end + n <= BytesMost + (Lanes - Cardinality(Ups')) * NeedMost
  BY <1>2, <1>4, WordMeans, WordSizes DEF IInv, WordInv
<1>6. bounds.end + n < Half
  BY <1>2, <1>4, <1>5, WordMeans, WordSizes, Assumed DEF IInv
<1>7. bounds' \in Word /\ bounds'.end = bounds.end + n /\ bounds'.top = bounds.top
  BY <1>1, <1>2, <1>6, BumpedUpAdds DEF IInv, TypeInv
<1>8. bounds' = [end |-> bounds.end + n, top |-> bounds.top]
  BY <1>7 DEF Word
<1>9. \A d \in Contexts : ~AtWork(d) /\ ~AtWork(d)'
  BY <1>1 DEF IInv, ControlInv, TypeInv, InPass, AtWork
<1>10. Downs' = Downs
  <2>1. \A d \in Contexts \ {c} : pc'[d] = pc[d] /\ op'[d] = op[d]
    BY OthersStand DEF IInv, Pass
  <2>2. op[c].up /\ op'[c].up
    BY <1>1 DEF IInv, TypeInv
  <2> QED BY <2>1, <2>2, Assumed DEF Downs
<1>11. OweDown' = OweDown
  <2>1. \A d \in Contexts : (IF pc'[d] = "owe" /\ ~op'[d].up THEN Need(d)' ELSE 0)
                            = (IF pc[d] = "owe" /\ ~op[d].up THEN Need(d) ELSE 0)
    BY <1>1 DEF IInv, ControlInv, TypeInv, Need
  <2> QED BY <2>1 DEF OweDown
<1>12. FitsUp(bounds, n) <=> bounds.end + n <= Place(bounds.top)
  BY <1>2, FitsUpMeans DEF IInv, TypeInv
<1>13. CASE FitsUp(bounds, n)
  <2>1. bounds.end = chain.end /\ Place(bounds.top) = chain.top
    BY <1>2, <1>12, <1>13, WordMeans DEF IInv, WordInv
  <2>2. bounds.top = chain.top
    BY <2>1, WordMeans, WordSizes DEF IInv, Place
  <2>3. UpOwed = 0 /\ DownOwed = 0 /\ UpOwed' = 0 /\ DownOwed' = 0
    <3>1. chain'.end = chain.end + n /\ chain'.top = chain.top
      BY <1>1, <1>13 DEF IInv, TypeInv
    <3>2. Place(bounds'.top) = Place(bounds.top)
      BY <1>7
    <3> QED BY <3>1, <3>2, <2>1, <1>2, <1>7, WordMeans DEF IInv, UpOwed, DownOwed
  <2>4. OweUp' = OweUp
    <3>1. \A d \in Contexts : (IF pc'[d] = "owe" /\ op'[d].up THEN Need(d)' ELSE 0)
                              = (IF pc[d] = "owe" /\ op[d].up THEN Need(d) ELSE 0)
      BY <1>1, <1>13 DEF IInv, ControlInv, TypeInv, Need
    <3> QED BY <3>1 DEF OweUp
  <2>5. Cardinality(lane') <= Lanes /\ 0 <= Cardinality(Downs') * NeedMost
    BY <1>1, <1>10, DownsCount, WordSizes DEF IInv, WordInv
  <2>6. bounds.end + n <= chain.top
    BY <1>12, <1>13, <2>1
  <2>7. WordInv'
    BY <1>1, <1>5, <1>7, <1>9, <1>11, <2>3, <2>4, <2>5 DEF IInv, WordInv
  <2> QED BY <1>7, <1>8, <2>1, <2>2, <2>6, <2>7 DEF n
<1>14. CASE ~FitsUp(bounds, n)
  <2>1. UpOwed' = UpOwed + n /\ DownOwed' = DownOwed
    <3>1. chain' = chain /\ Place(bounds'.top) = Place(bounds.top)
      BY <1>1, <1>7, <1>14
    <3> QED BY <3>1, <1>2, <1>7, WordMeans DEF IInv, UpOwed, DownOwed
  <2>2. bounds'.end > Place(bounds'.top)
    BY <1>2, <1>7, <1>12, <1>14, WordMeans DEF IInv
  <2>3. SumIs(Contexts, OweUp', (UpOwed - over.end) - OweUp[c] + OweUp'[c])
    <3>1. \A d \in Contexts : Need(d)' = Need(d)
      BY <1>1, <1>14 DEF Need
    <3>2. OweUp' \in [Contexts -> Nat] /\ \A d \in Contexts \ {c} : OweUp'[d] = OweUp[d]
      BY <1>1, <1>14, <3>1, NeedMeans DEF OweUp, IInv, ControlInv
    <3>3. SumIs(Contexts, OweUp, UpOwed - over.end) /\ UpOwed - over.end \in Nat
      BY SumAtLeast, OweTypes DEF IInv, WordInv
    <3> QED BY <3>2, <3>3, OweTypes, SumChanges
  <2>4. OweUp[c] = 0 /\ OweUp'[c] = n
    BY <1>1, <1>14 DEF OweUp, IInv, ControlInv, n, Need
  <2>5. SumIs(Contexts, OweUp', UpOwed' - over'.end)
    <3>1. (UpOwed - over.end) - OweUp[c] + OweUp'[c] = UpOwed' - over'.end
      BY <1>1, <1>2, <2>1, <2>4, WordMeans DEF IInv
    <3> QED BY <2>3, <3>1
  <2>6. Cardinality(lane') <= Lanes /\ UpOwed' >= 0 /\ DownOwed' >= 0
        /\ DownOwed' <= Cardinality(Downs') * NeedMost
        /\ SumIs(Contexts, OweDown', DownOwed' - over'.top)
    BY <1>1, <1>2, <1>10, <1>11, <2>1, WordMeans DEF IInv, WordInv
  <2>7. WordInv'
    BY <1>5, <1>7, <1>9, <2>2, <2>5, <2>6 DEF WordInv
  <2> QED BY <1>7, <1>8, <1>14, <2>7 DEF n
<1> QED BY <1>13, <1>14

LEMMA WordBumpDown ==
  ASSUME IInv, NEW c \in Contexts, BumpDown(c)
  PROVE  /\ bounds' \in Word
         /\ FitsDown(bounds, Need(c)) => /\ bounds.end = chain.end /\ bounds.top = chain.top
                                         /\ chain.end + Need(c) <= chain.top
         /\ WordInv'
<1> DEFINE n == Need(c)
<1>1. /\ pc[c] = "bump" /\ ~op[c].up /\ bounds' = BumpedDown(bounds, n)
      /\ UNCHANGED <<over, lane>>
      /\ \/ FitsDown(bounds, n) /\ pc' = [pc EXCEPT ![c] = "lay"]
            /\ op' = [op EXCEPT ![c].off = bounds.top - n]
            /\ chain' = [chain EXCEPT !.top = @ - n]
         \/ ~FitsDown(bounds, n) /\ pc' = [pc EXCEPT ![c] = "owe"] /\ UNCHANGED <<op, chain>>
  BY DEF BumpDown, Goto
<1>2. n \in Nat /\ n > 0 /\ n <= NeedMost /\ n < Half
  BY <1>1, NeedMeans, WordSizes
<1> HIDE DEF n
<1>3. c \in TempContexts /\ op[c].kind = "take" /\ op[c].owner \in Owners
  BY <1>1 DEF IInv, OpInv, OpFits, InPass
<1>4. \A d \in Contexts \ {c} : pc'[d] = pc[d] /\ op'[d] = op[d]
  BY OthersStand DEF IInv, Pass
<1>5. /\ op'[c].up = op[c].up /\ op'[c].want = op[c].want /\ op'[c].kind = "take"
      /\ op'[c].owner = op[c].owner
  BY <1>1, <1>3 DEF IInv, TypeInv
<1>6. c \notin Downs /\ Downs \cup {c} \subseteq TempContexts
  BY <1>1, <1>3 DEF Downs
<1>7. /\ Cardinality(Downs \cup {c}) = Cardinality(Downs) + 1
      /\ Cardinality(Downs) + 1 <= Cardinality(TempContexts)
  <2>1. Cardinality(Downs \cup {c}) = Cardinality(Downs) + 1
    BY <1>6, DownsCount, FS_AddElement
  <2>2. Cardinality(Downs \cup {c}) <= Cardinality(TempContexts)
    BY <1>6, FS_Subset, Assumed
  <2> QED BY <2>1, <2>2
<1>8. /\ Cardinality(Downs) * NeedMost \in Nat
      /\ (Cardinality(Downs) + 1) * NeedMost = Cardinality(Downs) * NeedMost + NeedMost
      /\ (Cardinality(Downs) + 1) * NeedMost <= Cardinality(TempContexts) * NeedMost
      /\ Cardinality(TempContexts) * NeedMost \in Nat
  <2>1. Cardinality(Downs) \in Nat /\ Cardinality(Downs) + 1 \in Nat
        /\ Cardinality(TempContexts) \in Nat /\ NeedMost \in Nat
    BY DownsCount, Assumed, WordSizes
  <2> QED BY <1>7, <2>1, OneMore
<1>9. Place(bounds.top) - n + Half > Size
  <2>1. Place(bounds.top) >= 0 - Cardinality(Downs) * NeedMost
    BY <1>8, WordMeans DEF IInv, WordInv
  <2>2. Place(bounds.top) - n >= 0 - Cardinality(TempContexts) * NeedMost
    BY <2>1, <1>2, <1>8, WordMeans, WordSizes DEF IInv
  <2> QED BY <2>2, <1>2, <1>8, WordMeans, WordSizes, Assumed DEF IInv
<1>10. /\ bounds' \in Word /\ bounds'.end = bounds.end
       /\ Place(bounds'.top) = Place(bounds.top) - n
  BY <1>1, <1>2, <1>9, BumpedDownSubtracts DEF IInv, TypeInv
<1>11. \A d \in Contexts : ~AtWork(d) /\ ~AtWork(d)'
  BY <1>1 DEF IInv, ControlInv, TypeInv, InPass, AtWork
<1>12. Ups' = Ups
  BY <1>1, <1>4, <1>5 DEF Ups
<1>13. OweUp' = OweUp
  <2>1. \A d \in Contexts : (IF pc'[d] = "owe" /\ op'[d].up THEN Need(d)' ELSE 0)
                            = (IF pc[d] = "owe" /\ op[d].up THEN Need(d) ELSE 0)
    BY <1>1, <1>4, <1>5 DEF Need
  <2> QED BY <2>1 DEF OweUp
<1>14. /\ Cardinality(lane') <= Lanes
       /\ bounds'.end <= BytesMost + (Lanes - Cardinality(Ups')) * NeedMost
  BY <1>1, <1>10, <1>12 DEF IInv, WordInv
<1>15. FitsDown(bounds, n) <=> bounds.end + n <= Place(bounds.top)
  BY <1>2, <1>9, FitsDownMeans DEF IInv, TypeInv
<1>16. CASE FitsDown(bounds, n)
  <2>1. bounds.end = chain.end /\ Place(bounds.top) = chain.top
    BY <1>2, <1>15, <1>16, WordMeans DEF IInv, WordInv
  <2>2. bounds.top = chain.top
    BY <2>1, WordMeans, WordSizes DEF IInv, Place
  <2>3. UpOwed = 0 /\ DownOwed = 0 /\ UpOwed' = 0 /\ DownOwed' = 0
    <3>1. chain'.end = chain.end /\ chain'.top = chain.top - n
      BY <1>1, <1>16 DEF IInv, TypeInv
    <3> QED BY <3>1, <2>1, <1>2, <1>10, WordMeans DEF IInv, UpOwed, DownOwed
  <2>4. OweDown' = OweDown
    <3>1. \A d \in Contexts : (IF pc'[d] = "owe" /\ ~op'[d].up THEN Need(d)' ELSE 0)
                              = (IF pc[d] = "owe" /\ ~op[d].up THEN Need(d) ELSE 0)
      <4>1. pc'[c] = "lay"
        BY <1>1, <1>16 DEF IInv, ControlInv
      <4> QED BY <4>1, <1>1, <1>4 DEF Need
    <3> QED BY <3>1 DEF OweDown
  <2>5. 0 <= Cardinality(Downs') * NeedMost
    <3>1. Downs' \subseteq TempContexts
      BY DEF Downs
    <3>2. Cardinality(Downs') \in Nat
      BY <3>1, FS_Subset, FS_CardinalityType, Assumed
    <3> QED BY <3>2, WordSizes
  <2>6. chain.end + n <= chain.top
    BY <1>15, <1>16, <2>1
  <2>7. WordInv'
    BY <1>1, <1>11, <1>13, <1>14, <2>3, <2>4, <2>5 DEF IInv, WordInv
  <2> QED BY <1>10, <2>1, <2>2, <2>6, <2>7 DEF n
<1>17. CASE ~FitsDown(bounds, n)
  <2>1. UpOwed' = UpOwed /\ DownOwed' = DownOwed + n
    <3>1. chain' = chain
      BY <1>1, <1>17
    <3> QED BY <3>1, <1>2, <1>10, WordMeans DEF IInv, UpOwed, DownOwed
  <2>2. bounds'.end > Place(bounds'.top)
    BY <1>2, <1>10, <1>15, <1>17, WordMeans DEF IInv
  <2>3. Downs' = Downs \cup {c}
    <3>1. pc'[c] = "owe"
      BY <1>1, <1>17 DEF IInv, ControlInv
    <3> QED BY <3>1, <1>1, <1>3, <1>4, <1>5, Assumed DEF Downs
  <2>4. DownOwed' <= Cardinality(Downs') * NeedMost
    <3>1. Cardinality(Downs') = Cardinality(Downs) + 1
      BY <2>3, <1>7
    <3>2. DownOwed + n <= (Cardinality(Downs) + 1) * NeedMost
      BY <1>2, <1>8, WordMeans, WordSizes DEF IInv, WordInv
    <3> QED BY <3>1, <3>2, <2>1
  <2>5. SumIs(Contexts, OweDown', (DownOwed - over.top) - OweDown[c] + OweDown'[c])
    <3>1. \A d \in Contexts : Need(d)' = Need(d)
      BY <1>1, <1>17 DEF Need
    <3>2. OweDown' \in [Contexts -> Nat] /\ \A d \in Contexts \ {c} : OweDown'[d] = OweDown[d]
      BY <1>4, <3>1, NeedMeans DEF OweDown
    <3>3. SumIs(Contexts, OweDown, DownOwed - over.top) /\ DownOwed - over.top \in Nat
      BY SumAtLeast, OweTypes DEF IInv, WordInv
    <3> QED BY <3>2, <3>3, OweTypes, SumChanges
  <2>6. OweDown[c] = 0 /\ OweDown'[c] = n
    BY <1>1, <1>17 DEF OweDown, IInv, ControlInv, n, Need
  <2>7. SumIs(Contexts, OweDown', DownOwed' - over'.top)
    <3>1. (DownOwed - over.top) - OweDown[c] + OweDown'[c] = DownOwed' - over'.top
      BY <1>1, <1>2, <2>1, <2>6, WordMeans DEF IInv
    <3> QED BY <2>5, <3>1
  <2>8. UpOwed' >= 0 /\ DownOwed' >= 0 /\ SumIs(Contexts, OweUp', UpOwed' - over'.end)
    BY <1>1, <1>2, <1>13, <2>1, WordMeans DEF IInv, WordInv
  <2>9. WordInv'
    BY <1>11, <1>14, <2>2, <2>4, <2>7, <2>8 DEF WordInv
  <2> QED BY <1>10, <1>17, <2>9 DEF n
<1> QED BY <1>16, <1>17

LEMMA WordOwe ==
  ASSUME IInv, NEW c \in Contexts, Owe(c)
  PROVE  WordInv'
<1> DEFINE n == Need(c)
<1>1. /\ pc[c] = "owe" /\ pc' = [pc EXCEPT ![c] = "refused"]
      /\ over' = IF op[c].up THEN [over EXCEPT !.end = @ + n] ELSE [over EXCEPT !.top = @ + n]
      /\ UNCHANGED <<bounds, lane, op, chain>>
  BY DEF Owe, Goto
<1>2. n \in Nat
  BY NeedMeans
<1> HIDE DEF n
<1>3. UpOwed' = UpOwed /\ DownOwed' = DownOwed /\ Ups' = Ups /\ Downs' = Downs
  <2>1. Ups' = Ups
    BY <1>1 DEF Ups, IInv, ControlInv
  <2>2. Downs' = Downs
    BY <1>1, Assumed DEF Downs, IInv, ControlInv
  <2> QED BY <1>1, <2>1, <2>2 DEF UpOwed, DownOwed
<1>4. \A d \in Contexts : ~AtWork(d) /\ ~AtWork(d)'
  BY <1>1 DEF IInv, ControlInv, InPass, AtWork
<1>5. \A d \in Contexts : Need(d)' = Need(d)
  BY <1>1 DEF Need
<1>6. /\ OweUp' \in [Contexts -> Nat] /\ \A d \in Contexts \ {c} : OweUp'[d] = OweUp[d]
      /\ OweDown' \in [Contexts -> Nat] /\ \A d \in Contexts \ {c} : OweDown'[d] = OweDown[d]
  BY <1>1, <1>5, NeedMeans DEF OweUp, OweDown, IInv, ControlInv
<1>7. /\ SumIs(Contexts, OweUp', (UpOwed - over.end) - OweUp[c] + OweUp'[c])
      /\ SumIs(Contexts, OweDown', (DownOwed - over.top) - OweDown[c] + OweDown'[c])
  <2>1. /\ SumIs(Contexts, OweUp, UpOwed - over.end) /\ UpOwed - over.end \in Nat
        /\ SumIs(Contexts, OweDown, DownOwed - over.top) /\ DownOwed - over.top \in Nat
    BY SumAtLeast, OweTypes DEF IInv, WordInv
  <2> QED BY <1>6, <2>1, OweTypes, SumChanges
<1>8. OweUp'[c] = 0 /\ OweDown'[c] = 0
      /\ OweUp[c] = (IF op[c].up THEN n ELSE 0) /\ OweDown[c] = (IF op[c].up THEN 0 ELSE n)
  BY <1>1 DEF OweUp, OweDown, IInv, ControlInv, n
<1>9. over'.end = over.end + OweUp[c] /\ over'.top = over.top + OweDown[c]
  BY <1>1, <1>2, <1>8, WordMeans DEF IInv, TypeInv
<1>10. /\ (UpOwed - over.end) - OweUp[c] + OweUp'[c] = UpOwed' - over'.end
       /\ (DownOwed - over.top) - OweDown[c] + OweDown'[c] = DownOwed' - over'.top
  <2>1. OweUp[c] \in Nat /\ OweDown[c] \in Nat
    BY <1>2, <1>8
  <2> QED BY <2>1, <1>3, <1>8, <1>9, WordMeans DEF IInv
<1>11. SumIs(Contexts, OweUp', UpOwed' - over'.end)
       /\ SumIs(Contexts, OweDown', DownOwed' - over'.top)
  BY <1>7, <1>10
<1> QED BY <1>1, <1>3, <1>4, <1>11 DEF IInv, WordInv

(* carcer_settled: the drain over, no bump is half done and the overruns    *)
(* are all that stands between the boundaries and the chains.               *)
LEMMA SettleRests ==
  ASSUME IInv, NEW c \in Contexts, Settle(c)
  PROVE  /\ bounds' = [end |-> chain.end, top |-> chain.top]
         /\ \A d \in Contexts : ~InPass(d)
         /\ Claims = {}
         /\ WordInv'
<1>1. /\ waits = {} /\ pc[c] = "wait" /\ pc' = [pc EXCEPT ![c] = "work"]
      /\ bounds' = Settled(bounds, over) /\ over' = [end |-> 0, top |-> 0]
      /\ UNCHANGED <<lane, op, chain>>
  BY DEF Settle, Goto
<1>2. \A d \in Contexts : ~InPass(d)
  BY <1>1 DEF IInv, ControlInv
<1>3. UpOwed = over.end /\ DownOwed = over.top
  <2>1. \A d \in Contexts : OweUp[d] = 0 /\ OweDown[d] = 0
    BY <1>2 DEF OweUp, OweDown, InPass
  <2>2. UpOwed - over.end = 0 /\ DownOwed - over.top = 0
    BY <2>1, ZeroSum DEF IInv, WordInv
  <2> QED BY <2>2, WordMeans DEF IInv
<1>4. chain.end < Half /\ chain.top < Half /\ chain.end <= chain.top /\ chain.top <= Size
  BY FullMeans, WordSizes DEF IInv
<1>5. bounds.end - over.end = chain.end
  BY <1>3, WordMeans DEF IInv
<1>6. bounds.top + over.top \in {chain.top, chain.top + Half}
  <2>1. Place(bounds.top) + over.top = chain.top
    BY <1>3, WordMeans DEF IInv
  <2>2. Place(bounds.top) \in {bounds.top, bounds.top - Half}
    BY DEF Place
  <2> QED BY <2>1, <2>2, WordMeans, WordSizes DEF IInv
<1>7. bounds' = [end |-> chain.end, top |-> chain.top]
  <2>1. (bounds.end - over.end) % Half = chain.end
    BY <1>4, <1>5, HalfMod, WordMeans DEF IInv
  <2>2. (bounds.top + over.top) % Half = chain.top
    BY <1>4, <1>6, HalfMod, WordMeans DEF IInv
  <2> QED BY <1>1, <2>1, <2>2 DEF Settled, carcer_bounds
<1>8. \A d \in Contexts : pc'[d] \notin {"bump", "owe"}
  BY <1>1, <1>2 DEF InPass, IInv, ControlInv
<1>9. WordInv'
  BY <1>1, <1>4, <1>7, <1>8, WordMeans, WordAtRest DEF IInv
<1>10. Claims = {}
  BY <1>2 DEF Claims, InPass
<1> QED BY <1>2, <1>7, <1>9, <1>10

-----------------------------------------------------------------------------
(* The writer at work.  What it leaves: the two tiers tiled, the word at    *)
(* the chains, the cells of the others as they were, its own cells laid.    *)
Worked(c) ==
  /\ Tiled(cell', chain'.end, chain'.top)
  /\ cell' = [o \in DOMAIN cell' |-> cell'[o]]
  /\ bounds' = [end |-> chain'.end, top |-> chain'.top]
  /\ chain' \in [end : Nat, top : Nat]
  /\ \A d \in Contexts \ {c} : \A o \in Mine(d) :
       o \in DOMAIN cell' /\ cell'[o] = cell[o] /\ (o < chain.end => o < chain'.end)
  /\ held'[c] \subseteq Nat
  /\ \A o \in held'[c] :
       /\ o \in DOMAIN cell' /\ cell'[o].busy
       /\ c \in TempContexts \/ o < chain'.end
       /\ \A d \in Contexts \ {c} : o \notin Mine(d)
  /\ c \in TempContexts \/ \A o \in Marks : o \in DOMAIN cell' /\ chain'.top <= o

LEMMA MineMeans ==
  ASSUME IInv, NEW d \in Contexts, NEW o \in Mine(d)
  PROVE  /\ o \in DOMAIN cell /\ cell[o].busy /\ o \in Nat
         /\ d \in TempContexts \/ o < chain.end
         /\ \A e \in Contexts \ {d} : o \notin Mine(e)
<1>1. o \in DOMAIN cell /\ cell[o].busy
  BY DEF IInv, HeldInv
<1>2. o \in Nat
  BY <1>1, FullMeans DEF IInv
<1> QED BY <1>1, <1>2 DEF IInv, HeldInv

LEMMA HeldMine ==
  ASSUME NEW d \in Contexts, NEW o \in held[d]
  PROVE  o \in Mine(d)
  BY DEF Mine

LEMMA StoredRests ==
  ASSUME NEW cells, NEW end, NEW top, Tiled(cells, end, top), Stored(end, top)
  PROVE  /\ chain' = [end |-> end, top |-> top] /\ bounds' = [end |-> end, top |-> top]
         /\ end \in Nat /\ top \in Nat /\ end <= top /\ top <= Size
<1>1. end \in Nat /\ top \in Nat /\ end <= top /\ top <= Size
  BY DEF Tiled
<1>2. end % Half = end /\ top % Half = top
  BY <1>1, HalfMod, WordSizes
<1> QED BY <1>1, <1>2 DEF Stored, carcer_bounds

LEMMA ReadSweeps ==
  ASSUME IInv, NEW c \in Contexts, AtWork(c), NEW free, ReadFree(free)
  PROVE  Sweepable(free)
  BY WorkMeans DEF ReadFree, Sweepable

LEMMA WorkedFrom ==
  ASSUME IInv, NEW c \in Contexts, AtWork(c),
         NEW end, NEW top, Stored(end, top), Tiled(cell', end, top),
         NEW got, got \subseteq Nat, held' = [held EXCEPT ![c] = @ \cup got],
         \A o \in DOMAIN cell : cell[o].busy =>
           o \notin got /\ o \in DOMAIN cell' /\ cell'[o] = cell[o] /\ (o < chain.end => o < end),
         \A o \in got : o \in DOMAIN cell' /\ cell'[o].busy /\ (c \in TempContexts \/ o < end),
         c \in TempContexts \/ \A o \in Marks : o \in DOMAIN cell' /\ top <= o
  PROVE  Worked(c)
<1>1. /\ chain' = [end |-> end, top |-> top] /\ bounds' = [end |-> end, top |-> top]
      /\ end \in Nat /\ top \in Nat
  BY StoredRests
<1>2. Tiled(cell', chain'.end, chain'.top) /\ cell' = [o \in DOMAIN cell' |-> cell'[o]]
  BY <1>1 DEF Tiled
<1>3. \A d \in Contexts \ {c} : \A o \in Mine(d) :
        o \in DOMAIN cell' /\ cell'[o] = cell[o] /\ (o < chain.end => o < chain'.end)
  BY <1>1, MineMeans
<1>4. held'[c] = held[c] \cup got /\ held[c] \subseteq Nat
  BY DEF IInv, TypeInv
<1>5. ASSUME NEW o \in held[c]
      PROVE  /\ o \in DOMAIN cell' /\ cell'[o].busy
             /\ c \in TempContexts \/ o < chain'.end
             /\ \A d \in Contexts \ {c} : o \notin Mine(d)
  <2>1. o \in Mine(c)
    BY HeldMine
  <2> QED BY <2>1, <1>1, MineMeans
<1>6. ASSUME NEW o \in got
      PROVE  /\ o \in DOMAIN cell' /\ cell'[o].busy
             /\ c \in TempContexts \/ o < chain'.end
             /\ \A d \in Contexts \ {c} : o \notin Mine(d)
  <2>1. \A d \in Contexts \ {c} : o \notin Mine(d)
    BY MineMeans
  <2> QED BY <2>1, <1>1
<1>7. c \in TempContexts \/ \A o \in Marks : o \in DOMAIN cell' /\ chain'.top <= o
  BY <1>1
<1> QED BY <1>1, <1>2, <1>3, <1>4, <1>5, <1>6, <1>7 DEF Worked

(* The same of a writer that answers no cell. *)
LEMMA WorkedUnanswered ==
  ASSUME IInv, NEW c \in Contexts, AtWork(c), held' = held,
         NEW end, NEW top, Stored(end, top), Tiled(cell', end, top),
         \A o \in DOMAIN cell : cell[o].busy =>
           o \in DOMAIN cell' /\ cell'[o] = cell[o] /\ (o < chain.end => o < end),
         c \in TempContexts \/ \A o \in Marks : o \in DOMAIN cell' /\ top <= o
  PROVE  Worked(c)
<1> DEFINE got == {}
<1>1. held' = [held EXCEPT ![c] = @ \cup got] /\ got \subseteq Nat
  BY DEF IInv, TypeInv
<1>2. \A o \in got : o \in DOMAIN cell' /\ cell'[o].busy /\ (c \in TempContexts \/ o < end)
  OBVIOUS
<1>3. \A o \in DOMAIN cell : cell[o].busy => o \notin got
  OBVIOUS
<1> HIDE DEF got
<1> QED BY <1>1, <1>2, <1>3, WorkedFrom

LEMMA SpillRunWorks ==
  ASSUME IInv, NEW c \in Contexts, SpillRun(c)
  PROVE  Worked(c)
<1> DEFINE want == op[c].want
<1>1. PICK free \in SUBSET DOMAIN cell :
        /\ ReadFree(free) /\ op[c].kind = "take" /\ op[c].up
        /\ Holding(free, want) # {}
        /\ pc[c] = "work"
        /\ cell' = LaidAt(SplitCells(SweptCells(free), FirstRun(free, want), want),
                          FirstRun(free, want).at,
                          BusyCell(SplitSize(FirstRun(free, want), want), op[c].owner))
        /\ Stored(SweptEnd(free), bounds.top)
        /\ Answered(c, FirstRun(free, want).at)
  BY DEF SpillRun, Opened, Return, Goto
<1>2. want \in Nat \ {0} /\ op[c].owner \in Owners
  BY <1>1 DEF IInv, TypeInv, OpInv, OpFits
<1> DEFINE run == FirstRun(free, want)
           swept == SweptCells(free)
           end == SweptEnd(free)
           at == run.at
<1>3. AtWork(c) /\ Sweepable(free)
  <2>1. AtWork(c)
    BY <1>1 DEF AtWork
  <2> QED BY <2>1, <1>1, ReadSweeps
<1>4. run \in Runs(free) /\ RunSize(run) >= want
  BY <1>1, <1>3, FirstRunMeans
<1>5. /\ at \in Nat /\ run.to \in Busy(free) /\ at < run.to
      /\ RunSize(run) \in Nat \ {0}
      /\ at \in DOMAIN swept /\ swept[at] = FreeCell(RunSize(run))
  BY <1>3, <1>4, RunClear, SweptWords DEF Runs
<1>6. Tiled(swept, end, bounds.top) /\ EndOf(run.to) <= end /\ end \in Nat
  BY <1>3, <1>5, TiledSwept, SweptEndMeans
<1>7. at < end
  <2>1. run.to \in Nat /\ run.to < EndOf(run.to) /\ EndOf(run.to) \in Nat
    BY <1>3, <1>5, BusyCells
  <2> QED BY <2>1, <1>5, <1>6
<1>8. \A o \in DOMAIN cell : cell[o].busy \/ o >= bounds.end =>
        o \in DOMAIN swept /\ swept[o] = cell[o] /\ (o < bounds.end => o < end) /\ o # at
  BY <1>3, <1>4, SweptKeeps
<1>9. chain.end = bounds.end /\ chain.top = bounds.top /\ chain.end <= chain.top
      /\ chain.end \in Nat /\ chain.top \in Nat
  BY <1>3, WorkMeans, FullMeans DEF IInv
<1>10. \A o \in Marks : o \in DOMAIN cell /\ o >= bounds.end /\ bounds.top <= o
  <2>1. \A o \in DOMAIN cell : o \in Nat
    BY FullMeans DEF IInv
  <2> QED BY <2>1, <1>9 DEF Marks
<1>11. held' = [held EXCEPT ![c] = @ \cup {at}]
  BY <1>1 DEF Answered
<1>12. CASE Splits(run, want)
  <2> DEFINE mid == carcer_end_of(at, want)
             rest == FreeCell(RunSize(run) - want - Hdr)
             laid == BusyCell(want, op[c].owner)
  <2>1. cell' = LaidAt(LaidAt(swept, mid, rest), at, laid)
    BY <1>1, <1>12 DEF SplitCells, SplitSize
  <2>2. rest \in CellWords /\ laid \in CellWords
    <3>1. RunSize(run) - want - Hdr \in Nat \ {0}
      BY <1>2, <1>5, <1>12, WordSizes DEF Splits
    <3> QED BY <3>1, <1>2 DEF CellWords, FreeCell, BusyCell
  <2>3. laid.size = want /\ laid.size + Hdr + rest.size = swept[at].size /\ laid.busy
    <3>1. rest.size = RunSize(run) - want - Hdr /\ swept[at].size = RunSize(run)
      BY <1>5 DEF FreeCell
    <3> QED BY <3>1, <1>2, <1>5, WordSizes DEF BusyCell
  <2> HIDE DEF rest, laid, swept, end, at
  <2>4. mid \notin DOMAIN swept /\ Tiled(cell', end, bounds.top)
    BY <2>1, <2>2, <2>3, <1>5, <1>6, TiledSplits
  <2>5. \A o \in DOMAIN swept : o # at => o \in DOMAIN cell' /\ cell'[o] = swept[o]
    BY <2>1, <2>4 DEF LaidAt
  <2>6. at \in DOMAIN cell' /\ cell'[at].busy
    BY <2>1, <2>3 DEF LaidAt
  <2>7. Stored(end, bounds.top)
    BY <1>1 DEF end
  <2>8. \A o \in DOMAIN cell : cell[o].busy =>
           o \notin {at} /\ o \in DOMAIN cell' /\ cell'[o] = cell[o] /\ (o < chain.end => o < end)
    BY <2>5, <1>8, <1>9
  <2>9. \A o \in Marks : o \in DOMAIN cell' /\ bounds.top <= o
    BY <2>5, <1>8, <1>10
  <2> QED BY <1>3, <1>5, <1>7, <1>11, <2>4, <2>6, <2>7, <2>8, <2>9, WorkedFrom
<1>13. CASE ~Splits(run, want)
  <2> DEFINE laid == BusyCell(RunSize(run), op[c].owner)
  <2>1. cell' = LaidAt(swept, at, laid)
    BY <1>1, <1>13 DEF SplitCells, SplitSize
  <2>2. laid \in CellWords /\ laid.size = swept[at].size /\ laid.busy
    BY <1>2, <1>5 DEF CellWords, BusyCell, FreeCell
  <2> HIDE DEF laid, swept, end, at
  <2>3. DOMAIN cell' = DOMAIN swept /\ cell'[at] = laid
        /\ \A o \in DOMAIN swept : o # at => cell'[o] = swept[o]
    BY <2>1, <1>5 DEF LaidAt
  <2>4. Tiled(cell', end, bounds.top)
    <3>1. swept \in [DOMAIN swept -> CellWords]
      BY <1>6 DEF Tiled
    <3>2. cell' \in [DOMAIN cell' -> CellWords]
      BY <3>1, <2>1, <2>2, <2>3 DEF LaidAt
    <3>3. \A o \in DOMAIN swept : cell'[o].size = swept[o].size
      BY <2>2, <2>3
    <3> QED BY <3>2, <3>3, <2>3, <1>6, TiledKeeps
  <2>5. at \in DOMAIN cell' /\ cell'[at].busy
    BY <2>2, <2>3, <1>5
  <2>6. Stored(end, bounds.top)
    BY <1>1 DEF end
  <2>7. \A o \in DOMAIN cell : cell[o].busy =>
           o \notin {at} /\ o \in DOMAIN cell' /\ cell'[o] = cell[o] /\ (o < chain.end => o < end)
    BY <2>3, <1>8, <1>9
  <2>8. \A o \in Marks : o \in DOMAIN cell' /\ bounds.top <= o
    BY <2>3, <1>8, <1>10
  <2> QED BY <1>3, <1>5, <1>7, <1>11, <2>4, <2>5, <2>6, <2>7, <2>8, WorkedFrom
<1> QED BY <1>12, <1>13

(* What the sweep alone leaves. *)
LEMMA SweptLeaves ==
  ASSUME IInv, NEW c \in Contexts, AtWork(c), NEW free, ReadFree(free)
  PROVE  /\ Tiled(SweptCells(free), SweptEnd(free), bounds.top)
         /\ \A o \in DOMAIN cell : cell[o].busy \/ o >= bounds.end =>
              /\ o \in DOMAIN SweptCells(free) /\ SweptCells(free)[o] = cell[o]
              /\ o < bounds.end => o < SweptEnd(free)
         /\ chain.end = bounds.end /\ chain.top = bounds.top
         /\ \A o \in Marks : o \in DOMAIN cell /\ o >= bounds.end /\ bounds.top <= o
<1>1. Sweepable(free)
  BY ReadSweeps
<1>2. chain.end = bounds.end /\ chain.top = bounds.top
  BY WorkMeans
<1>3. \A o \in Marks : o \in DOMAIN cell /\ o >= bounds.end /\ bounds.top <= o
  <2>1. \A o \in DOMAIN cell : o \in Nat
    BY FullMeans DEF IInv
  <2>2. chain.end <= chain.top /\ chain.end \in Nat /\ chain.top \in Nat
    BY FullMeans DEF IInv
  <2> QED BY <2>1, <2>2, <1>2 DEF Marks
<1> QED BY <1>1, <1>2, <1>3, TiledSwept, SweptKeeps

LEMMA SpillUpWorks ==
  ASSUME IInv, NEW c \in Contexts, SpillUp(c)
  PROVE  Worked(c)
<1>1. PICK free \in SUBSET DOMAIN cell :
        /\ ReadFree(free) /\ op[c].kind = "take" /\ op[c].up
        /\ pc[c] = "work"
        /\ IF SweptEnd(free) <= bounds.top /\ Need(c) <= bounds.top - SweptEnd(free)
           THEN /\ cell' = LaidAt(SweptCells(free), SweptEnd(free),
                                  BusyCell(op[c].want, op[c].owner))
                /\ Stored(SweptEnd(free) + Need(c), bounds.top)
                /\ Answered(c, SweptEnd(free))
           ELSE /\ cell' = SweptCells(free)
                /\ Stored(SweptEnd(free), bounds.top)
                /\ UNCHANGED held
  BY DEF SpillUp, Opened, Return, Goto
<1> DEFINE swept == SweptCells(free)
           end == SweptEnd(free)
           laid == BusyCell(op[c].want, op[c].owner)
<1>2. AtWork(c)
  BY <1>1 DEF AtWork
<1>3. /\ Tiled(swept, end, bounds.top)
      /\ \A o \in DOMAIN cell : cell[o].busy \/ o >= bounds.end =>
           o \in DOMAIN swept /\ swept[o] = cell[o] /\ (o < bounds.end => o < end)
      /\ chain.end = bounds.end /\ chain.top = bounds.top
      /\ \A o \in Marks : o \in DOMAIN cell /\ o >= bounds.end /\ bounds.top <= o
  BY <1>1, <1>2, SweptLeaves
<1>4. laid \in CellWords /\ laid.size = op[c].want /\ laid.busy
  BY <1>1 DEF IInv, TypeInv, OpInv, OpFits, CellWords, BusyCell
<1>5. end \in Nat /\ bounds.top \in Nat /\ op[c].want \in Nat /\ Hdr \in Nat
  BY <1>3, WordMeans, WordSizes DEF IInv, TypeInv, Tiled
<1>6. CASE end <= bounds.top /\ Need(c) <= bounds.top - end
  <2>1. cell' = LaidAt(swept, end, laid) /\ Stored(end + Need(c), bounds.top)
        /\ held' = [held EXCEPT ![c] = @ \cup {end}]
    BY <1>1, <1>6 DEF Answered
  <2> HIDE DEF swept, end, laid
  <2>2. end + Need(c) = end + Hdr + laid.size /\ end + Hdr + laid.size <= bounds.top
        /\ end < end + Need(c)
    <3>1. Need(c) \in Nat /\ Need(c) > 0 /\ Need(c) = Hdr + op[c].want
      BY NeedMeans
    <3> QED BY <3>1, <1>4, <1>5, <1>6
  <2>3. end \notin DOMAIN swept /\ Tiled(cell', end + Need(c), bounds.top)
    BY <2>1, <2>2, <1>3, <1>4, TiledLaysUp
  <2>4. \A o \in DOMAIN swept : o \in DOMAIN cell' /\ cell'[o] = swept[o] /\ o # end
    BY <2>1, <2>3 DEF LaidAt
  <2>5. end \in DOMAIN cell' /\ cell'[end].busy
    BY <2>1, <1>4 DEF LaidAt
  <2>6. \A o \in DOMAIN cell : cell[o].busy =>
           /\ o \notin {end} /\ o \in DOMAIN cell' /\ cell'[o] = cell[o]
           /\ o < chain.end => o < end + Need(c)
    <3>1. \A o \in DOMAIN cell : o \in Nat
      BY FullMeans DEF IInv
    <3>2. end + Need(c) \in Nat
      BY <1>5, NeedMeans
    <3> QED BY <3>1, <3>2, <2>2, <2>4, <1>3, <1>5
  <2>7. \A o \in Marks : o \in DOMAIN cell' /\ bounds.top <= o
    BY <2>4, <1>3
  <2> QED BY <1>2, <1>5, <2>1, <2>2, <2>3, <2>5, <2>6, <2>7, WorkedFrom
<1>7. CASE ~(end <= bounds.top /\ Need(c) <= bounds.top - end)
  <2>1. cell' = swept /\ Stored(end, bounds.top) /\ held' = held
    BY <1>1, <1>7
  <2> HIDE DEF swept, end
  <2> QED BY <1>2, <1>3, <2>1, WorkedUnanswered
<1> QED BY <1>6, <1>7

LEMMA TrimUpWorks ==
  ASSUME IInv, NEW c \in Contexts, TrimUp(c)
  PROVE  Worked(c)
<1>1. PICK free \in SUBSET DOMAIN cell :
        /\ ReadFree(free) /\ pc[c] = "work"
        /\ cell' = SweptCells(free) /\ Stored(SweptEnd(free), bounds.top) /\ held' = held
  BY DEF TrimUp, Opened, Return, Goto
<1>2. AtWork(c)
  BY <1>1 DEF AtWork
<1> QED BY <1>1, <1>2, SweptLeaves, WorkedUnanswered

(* What walking the top up alone leaves. *)
LEMMA WalkedLeaves ==
  ASSUME IInv, NEW c \in Contexts, AtWork(c), NEW free, ReadFree(free),
         NEW kept, kept = Only(cell, {o \in DOMAIN cell : o < bounds.end \/ o >= TopWalked(free)})
  PROVE  /\ Tiled(kept, bounds.end, TopWalked(free))
         /\ \A o \in DOMAIN cell : cell[o].busy => o \in DOMAIN kept /\ kept[o] = cell[o]
         /\ chain.end = bounds.end
<1>1. Sweepable(free)
  BY ReadSweeps
<1>2. /\ TopWalked(free) \in DOMAIN cell \cup {Size}
      /\ TopWalked(free) \in Nat /\ bounds.top <= TopWalked(free)
      /\ \A o \in DOMAIN cell : o >= bounds.top /\ cell[o].busy => TopWalked(free) <= o
  BY <1>1, TopWalkedMeans
<1>3. Tiled(cell, bounds.end, bounds.top) /\ chain.end = bounds.end
  BY WorkMeans
<1>4. Tiled(kept, bounds.end, TopWalked(free))
  BY <1>2, <1>3, TiledDrops
<1>5. ASSUME NEW o \in DOMAIN cell, cell[o].busy
      PROVE  o < bounds.end \/ o >= TopWalked(free)
  <2>1. o \in Nat /\ bounds.end \in Nat /\ (o >= bounds.end => bounds.top <= o)
    BY <1>3, TiledEnds DEF Tiled
  <2>2. bounds.top \in Nat
    BY <1>3 DEF Tiled
  <2> QED BY <2>1, <2>2, <1>2, <1>5
<1> QED BY <1>3, <1>4, <1>5 DEF Only

LEMMA SpillDownWorks ==
  ASSUME IInv, NEW c \in Contexts, SpillDown(c)
  PROVE  Worked(c)
<1> DEFINE kept(free) == Only(cell, {o \in DOMAIN cell : o < bounds.end \/ o >= TopWalked(free)})
<1>1. PICK free \in SUBSET DOMAIN cell :
        /\ ReadFree(free) /\ op[c].kind = "take" /\ ~op[c].up
        /\ pc[c] = "work"
        /\ IF bounds.end <= TopWalked(free) /\ Need(c) <= TopWalked(free) - bounds.end
           THEN /\ cell' = LaidAt(kept(free), TopWalked(free) - Need(c),
                                  BusyCell(op[c].want, op[c].owner))
                /\ Stored(bounds.end, TopWalked(free) - Need(c))
                /\ Answered(c, TopWalked(free) - Need(c))
           ELSE /\ cell' = kept(free)
                /\ Stored(bounds.end, TopWalked(free))
                /\ UNCHANGED held
  BY DEF SpillDown, Opened, Return, Goto
<1>2. AtWork(c) /\ c \in TempContexts
  BY <1>1 DEF AtWork, IInv, OpInv, OpFits
<1> DEFINE k == kept(free)
           top == TopWalked(free)
           at == top - Need(c)
           laid == BusyCell(op[c].want, op[c].owner)
<1>3. /\ Tiled(k, bounds.end, top)
      /\ \A o \in DOMAIN cell : cell[o].busy => o \in DOMAIN k /\ k[o] = cell[o]
      /\ chain.end = bounds.end
  <2> DEFINE kk == kept(free)
  <2>1. kk = Only(cell, {o \in DOMAIN cell : o < bounds.end \/ o >= TopWalked(free)})
    OBVIOUS
  <2> HIDE DEF kk
  <2>2. /\ Tiled(kk, bounds.end, TopWalked(free))
        /\ \A o \in DOMAIN cell : cell[o].busy => o \in DOMAIN kk /\ kk[o] = cell[o]
        /\ chain.end = bounds.end
    BY <1>1, <1>2, <2>1, WalkedLeaves
  <2> QED BY <2>2 DEF kk
<1>4. laid \in CellWords /\ laid.size = op[c].want /\ laid.busy
  BY <1>1 DEF IInv, TypeInv, OpInv, OpFits, CellWords, BusyCell
<1>5. top \in Nat /\ bounds.end \in Nat /\ op[c].want \in Nat /\ Hdr \in Nat
  BY <1>3, WordSizes DEF IInv, TypeInv, Tiled
<1>6. CASE bounds.end <= top /\ Need(c) <= top - bounds.end
  <2>1. cell' = LaidAt(k, at, laid) /\ Stored(bounds.end, at)
        /\ held' = [held EXCEPT ![c] = @ \cup {at}]
    BY <1>1, <1>6 DEF Answered
  <2>2. at \in Nat /\ at + Hdr + laid.size = top /\ bounds.end <= at
    <3>1. Need(c) \in Nat /\ Need(c) > 0 /\ Need(c) = Hdr + op[c].want
      BY NeedMeans
    <3> HIDE DEF top, laid
    <3> QED BY <3>1, <1>4, <1>5, <1>6
  <2> HIDE DEF k, top, at, laid
  <2>3. at \notin DOMAIN k /\ Tiled(cell', bounds.end, at)
    BY <2>1, <2>2, <1>3, <1>4, TiledLaysDown
  <2>4. \A o \in DOMAIN k : o \in DOMAIN cell' /\ cell'[o] = k[o] /\ o # at
    BY <2>1, <2>3 DEF LaidAt
  <2>5. at \in DOMAIN cell' /\ cell'[at].busy
    BY <2>1, <1>4 DEF LaidAt
  <2>6. \A o \in DOMAIN cell : cell[o].busy =>
           /\ o \notin {at} /\ o \in DOMAIN cell' /\ cell'[o] = cell[o]
           /\ o < chain.end => o < bounds.end
    BY <2>4, <1>3
  <2>7. {at} \subseteq Nat
        /\ \A o \in {at} : o \in DOMAIN cell' /\ cell'[o].busy /\ (c \in TempContexts \/ o < bounds.end)
    BY <1>2, <2>2, <2>5
  <2>8. Tiled(cell', bounds.end, at)
    BY <2>3
  <2>9. c \in TempContexts \/ \A o \in Marks : o \in DOMAIN cell' /\ at <= o
    BY <1>2
  <2> DEFINE got == {at}
             end == bounds.end
  <2>10. /\ got \subseteq Nat /\ held' = [held EXCEPT ![c] = @ \cup got] /\ Stored(end, at)
         /\ Tiled(cell', end, at)
         /\ \A o \in got : o \in DOMAIN cell' /\ cell'[o].busy /\ (c \in TempContexts \/ o < end)
         /\ \A o \in DOMAIN cell : cell[o].busy =>
              o \notin got /\ o \in DOMAIN cell' /\ cell'[o] = cell[o] /\ (o < chain.end => o < end)
    BY <2>1, <2>6, <2>7, <2>8
  <2> HIDE DEF got, end
  <2> QED BY <1>2, <2>9, <2>10, WorkedFrom
<1>7. CASE ~(bounds.end <= top /\ Need(c) <= top - bounds.end)
  <2>1. cell' = k /\ Stored(bounds.end, top) /\ held' = held
    BY <1>1, <1>7
  <2> HIDE DEF k, top
  <2> QED BY <1>2, <1>3, <2>1, WorkedUnanswered
<1> QED BY <1>6, <1>7

LEMMA TrimDownWorks ==
  ASSUME IInv, NEW c \in Contexts, TrimDown(c)
  PROVE  Worked(c)
<1>1. PICK free \in SUBSET DOMAIN cell :
        /\ ReadFree(free) /\ pc[c] = "work" /\ op[c].kind = "give" /\ ~op[c].up
        /\ cell' = Only(cell, {o \in DOMAIN cell : o < bounds.end \/ o >= TopWalked(free)})
        /\ Stored(bounds.end, TopWalked(free)) /\ held' = held
  BY DEF TrimDown, Opened, Return, Goto
<1>2. AtWork(c) /\ c \in TempContexts
  BY <1>1 DEF AtWork, IInv, OpInv, OpFits
<1>3. /\ Tiled(cell', bounds.end, TopWalked(free))
      /\ \A o \in DOMAIN cell : cell[o].busy => o \in DOMAIN cell' /\ cell'[o] = cell[o]
      /\ chain.end = bounds.end
  BY <1>1, <1>2, WalkedLeaves
<1> QED BY <1>1, <1>2, <1>3, WorkedUnanswered

(* What a growth finds: the cell its own, its words, the room read. *)
LEMMA GrowFinds ==
  ASSUME IInv, NEW c \in Contexts, op[c].kind = "grow", pc[c] = "work"
  PROVE  /\ AtWork(c) /\ op[c].off \in Mine(c) /\ op[c].off \in held[c]
         /\ op[c].off \in DOMAIN cell /\ op[c].off \in Nat /\ op[c].off \in Offsets
         /\ cell[op[c].off] \in CellWords /\ cell[op[c].off].busy
         /\ op[c].want \in Nat /\ op[c].owner \in Owners \cup {NoOwner}
         /\ Extra(c) \in Int /\ Extra(c) = op[c].want - cell[op[c].off].size
         /\ Until(cell, op[c].off) = EndOf(op[c].off)
         /\ c \in TempContexts \/ op[c].off < chain.end
<1>1. AtWork(c)
  BY DEF AtWork
<1>2. op[c].off \in held[c] /\ op[c].off \in Mine(c) /\ op[c].owner \in Owners \cup {NoOwner}
      /\ op[c].want \in Nat
  BY DEF IInv, OpInv, OpFits, Mine, TypeInv
<1>3. /\ op[c].off \in DOMAIN cell /\ cell[op[c].off].busy
      /\ c \in TempContexts \/ op[c].off < chain.end
  BY <1>2, MineMeans
<1>4. op[c].off \in Nat /\ op[c].off \in Offsets /\ cell[op[c].off] \in CellWords
  BY <1>3, FullMeans DEF IInv
<1>5. Extra(c) \in Int /\ Extra(c) = op[c].want - cell[op[c].off].size
  BY <1>2, <1>4 DEF Extra, CellWords
<1> QED BY <1>1, <1>2, <1>3, <1>4, <1>5 DEF Until, EndOf

LEMMA GrowUpWorks ==
  ASSUME IInv, NEW c \in Contexts, GrowUp(c)
  PROVE  Worked(c)
<1> DEFINE off == op[c].off
           end == bounds.end + Extra(c)
<1>1. /\ pc[c] = "work" /\ op[c].kind = "grow" /\ off < bounds.end /\ CanGrow(c)
      /\ cell' = [cell EXCEPT ![off].size = op[c].want]
      /\ Stored(end, bounds.top) /\ held' = held
  BY DEF GrowUp, Opened, Return, Goto
<1>2. /\ AtWork(c) /\ off \in Mine(c) /\ off \in DOMAIN cell /\ cell[off] \in CellWords
      /\ cell[off].busy /\ op[c].want \in Nat /\ off \in Nat
      /\ Extra(c) \in Int /\ Extra(c) = op[c].want - cell[off].size
      /\ Until(cell, off) = EndOf(off)
  BY <1>1, GrowFinds
<1>3. /\ Tiled(cell, bounds.end, bounds.top)
      /\ bounds.end = chain.end /\ bounds.top = chain.top
      /\ bounds.end \in Nat /\ bounds.top \in Nat
  BY <1>2, WorkMeans DEF Tiled
<1>4. EndOf(off) = bounds.end /\ Extra(c) > 0 /\ Extra(c) <= bounds.top - bounds.end
  BY <1>1 DEF CanGrow
<1>5. Tiled(cell', end, bounds.top)
  <2>1. cell[off].size \in Nat
    BY <1>2 DEF CellWords
  <2>2. op[c].want > cell[off].size /\ op[c].want - cell[off].size <= bounds.top - bounds.end
    BY <2>1, <1>2, <1>4
  <2>3. Tiled([cell EXCEPT ![off].size = op[c].want],
              bounds.end + (op[c].want - cell[off].size), bounds.top)
    BY <2>2, <1>2, <1>3, <1>4, TiledGrowsUp
  <2> QED BY <2>3, <1>1, <1>2
<1> HIDE DEF end, off
<1>6. chain' = [end |-> end, top |-> bounds.top] /\ bounds' = [end |-> end, top |-> bounds.top]
      /\ end \in Nat /\ bounds.end <= end
  <2>1. end \in Nat /\ bounds.end <= end
    BY <1>2, <1>3, <1>4 DEF end
  <2> QED BY <1>1, <1>5, <2>1, StoredRests
<1>7. DOMAIN cell' = DOMAIN cell /\ cell'[off].busy
      /\ \A o \in DOMAIN cell : o # off => cell'[o] = cell[o]
  BY <1>1, <1>2 DEF CellWords
<1>8. ASSUME NEW d \in Contexts \ {c}, NEW o \in Mine(d)
      PROVE  o \in DOMAIN cell' /\ cell'[o] = cell[o] /\ (o < chain.end => o < chain'.end)
  <2>1. o \in DOMAIN cell /\ o \in Nat /\ o # off
    BY <1>2, MineMeans
  <2> QED BY <2>1, <1>3, <1>6, <1>7
<1>9. ASSUME NEW o \in held[c]
      PROVE  /\ o \in DOMAIN cell' /\ cell'[o].busy
             /\ c \in TempContexts \/ o < chain'.end
             /\ \A d \in Contexts \ {c} : o \notin Mine(d)
  <2>1. /\ o \in DOMAIN cell /\ cell[o].busy /\ o \in Nat
        /\ c \in TempContexts \/ o < chain.end
        /\ \A d \in Contexts \ {c} : o \notin Mine(d)
    BY HeldMine, MineMeans
  <2> QED BY <2>1, <1>3, <1>6, <1>7
<1>10. \A o \in Marks : o \in DOMAIN cell' /\ chain'.top <= o
  <2>1. \A o \in DOMAIN cell : o \in Nat
    BY FullMeans DEF IInv
  <2> QED BY <2>1, <1>3, <1>6, <1>7 DEF Marks
<1>11. cell' = [o \in DOMAIN cell' |-> cell'[o]]
  BY <1>5 DEF Tiled
<1>12. held'[c] \subseteq Nat
  BY <1>1 DEF IInv, TypeInv
<1> QED BY <1>1, <1>3, <1>5, <1>6, <1>8, <1>9, <1>10, <1>11, <1>12 DEF Worked

LEMMA GrowDownWorks ==
  ASSUME IInv, NEW c \in Contexts, GrowDown(c)
  PROVE  Worked(c)
<1> DEFINE off == op[c].off
           at == off - Extra(c)
           laid == BusyCell(op[c].want, op[c].owner)
<1>1. /\ pc[c] = "work" /\ op[c].kind = "grow" /\ off >= bounds.end /\ CanGrow(c)
      /\ cell' = LaidAt(Only(cell, Offsets \ {off}), at, laid)
      /\ Stored(bounds.end, at)
      /\ held' = [held EXCEPT ![c] = (@ \ {off}) \cup {at}]
  BY DEF GrowDown, Opened, Return, Goto
<1>2. /\ AtWork(c) /\ off \in Mine(c) /\ off \in DOMAIN cell /\ cell[off] \in CellWords
      /\ op[c].want \in Nat /\ off \in Nat /\ op[c].owner \in Owners \cup {NoOwner}
      /\ Extra(c) \in Int /\ Extra(c) = op[c].want - cell[off].size
      /\ c \in TempContexts \/ off < chain.end
  BY <1>1, GrowFinds
<1>3. /\ Tiled(cell, bounds.end, bounds.top)
      /\ bounds.end = chain.end /\ bounds.top = chain.top
      /\ bounds.end \in Nat /\ bounds.top \in Nat
  BY <1>2, WorkMeans DEF Tiled
<1>4. off = bounds.top /\ bounds.end <= bounds.top
      /\ Extra(c) > 0 /\ Extra(c) <= bounds.top - bounds.end
  BY <1>1, <1>2, <1>3 DEF CanGrow
<1>5. c \in TempContexts
  BY <1>1, <1>2, <1>3
<1>6. laid \in CellWords /\ laid.size = op[c].want /\ laid.busy /\ cell[off].size \in Nat
      /\ op[c].want > cell[off].size
  <2>1. cell[off].size \in Nat
    BY <1>2 DEF CellWords
  <2>2. op[c].want > cell[off].size /\ op[c].want > 0
    BY <2>1, <1>2, <1>4
  <2> QED BY <2>1, <2>2, <1>2 DEF CellWords, BusyCell
<1>7. at \in Nat /\ at = bounds.top - (laid.size - cell[bounds.top].size) /\ bounds.end <= at
  <2>1. at \in Nat /\ bounds.end <= at
    BY <1>2, <1>3, <1>4
  <2>2. at = bounds.top - (laid.size - cell[bounds.top].size)
    BY <1>2, <1>4, <1>6
  <2> QED BY <2>1, <2>2
<1> HIDE DEF laid, at, off
<1>8. at \notin DOMAIN cell /\ Tiled(cell', bounds.end, at)
  BY <1>1, <1>2, <1>3, <1>4, <1>6, <1>7, TiledGrowsDown
<1>9. chain' = [end |-> bounds.end, top |-> at] /\ bounds' = [end |-> bounds.end, top |-> at]
  BY <1>1, <1>8, StoredRests
<1>10. at \in DOMAIN cell' /\ cell'[at].busy
       /\ \A o \in DOMAIN cell : o # off => o \in DOMAIN cell' /\ cell'[o] = cell[o]
  <2>1. \A o \in DOMAIN cell : o \in Offsets
    BY FullMeans DEF IInv
  <2> QED BY <2>1, <1>1, <1>6, <1>8 DEF LaidAt, Only
<1>11. ASSUME NEW d \in Contexts \ {c}, NEW o \in Mine(d)
       PROVE  o \in DOMAIN cell' /\ cell'[o] = cell[o] /\ (o < chain.end => o < chain'.end)
  <2>1. o \in DOMAIN cell /\ o \in Nat /\ o # off
    BY <1>2, MineMeans
  <2> QED BY <2>1, <1>3, <1>9, <1>10
<1>12. held'[c] = (held[c] \ {off}) \cup {at} /\ held[c] \subseteq Nat
  BY <1>1 DEF IInv, TypeInv
<1>13. ASSUME NEW o \in held'[c]
       PROVE  /\ o \in DOMAIN cell' /\ cell'[o].busy
              /\ \A d \in Contexts \ {c} : o \notin Mine(d)
  <2>1. CASE o = at
    <3>1. \A d \in Contexts \ {c} : at \notin Mine(d)
      BY <1>8, MineMeans
    <3> QED BY <2>1, <3>1, <1>10
  <2>2. CASE o # at
    <3>1. o \in held[c] /\ o # off
      BY <2>2, <1>12
    <3>2. /\ o \in DOMAIN cell /\ cell[o].busy
          /\ \A d \in Contexts \ {c} : o \notin Mine(d)
      BY <3>1, HeldMine, MineMeans
    <3> QED BY <3>1, <3>2, <1>10
  <2> QED BY <2>1, <2>2
<1>14. cell' = [o \in DOMAIN cell' |-> cell'[o]]
  BY <1>8 DEF Tiled
<1> QED BY <1>3, <1>5, <1>7, <1>8, <1>9, <1>11, <1>12, <1>13, <1>14 DEF Worked

LEMMA GrowRefusedWorks ==
  ASSUME IInv, NEW c \in Contexts, GrowRefused(c)
  PROVE  Worked(c)
<1>1. pc[c] = "work" /\ UNCHANGED <<bounds, cell, held, chain>>
  BY DEF GrowRefused, Opened, Return, Goto
<1>2. AtWork(c)
  BY <1>1 DEF AtWork
<1>3. /\ Tiled(cell, chain.end, chain.top)
      /\ bounds.end = chain.end /\ bounds.top = chain.top
  BY <1>2, WorkMeans
<1>4. bounds = [end |-> chain.end, top |-> chain.top] /\ chain \in [end : Nat, top : Nat]
      /\ held[c] \subseteq Nat /\ cell = [o \in DOMAIN cell |-> cell[o]]
  BY <1>3 DEF IInv, TypeInv, Word
<1>5. \A o \in held[c] :
        /\ o \in DOMAIN cell /\ cell[o].busy
        /\ c \in TempContexts \/ o < chain.end
        /\ \A d \in Contexts \ {c} : o \notin Mine(d)
  BY HeldMine, MineMeans
<1>6. \A d \in Contexts \ {c} : \A o \in Mine(d) : o \in DOMAIN cell
  BY MineMeans
<1>7. \A o \in Marks : o \in DOMAIN cell /\ chain.top <= o
  <2>1. \A o \in DOMAIN cell : o \in Nat
    BY FullMeans DEF IInv
  <2>2. chain.top \in Nat
    BY <1>4
  <2> QED BY <2>1, <2>2 DEF Marks
<1> QED BY <1>1, <1>3, <1>4, <1>5, <1>6, <1>7 DEF Worked

LEMMA RewoundWorks ==
  ASSUME IInv, NEW c \in Contexts, Rewound(c)
  PROVE  Worked(c)
<1> DEFINE mark == op[c].want
<1>1. /\ pc[c] = "walk"
      /\ cell' = Only(cell, {o \in DOMAIN cell : o < bounds.end \/ o >= mark})
      /\ Stored(bounds.end, mark)
      /\ held' = [held EXCEPT ![c] = {o \in @ : o < bounds.end \/ o >= mark}]
  BY DEF Rewound, Opened, Return, Goto
<1>2. AtWork(c) /\ op[c].kind = "rewind"
  BY <1>1 DEF AtWork, IInv, OpInv, OpFits
<1>3. c \in TempContexts /\ Rewinds
  BY <1>2 DEF IInv, OpInv, OpFits
<1>4. /\ Tiled(cell, bounds.end, bounds.top)
      /\ bounds.end = chain.end /\ bounds.top = chain.top
      /\ bounds.end \in Nat /\ bounds.top \in Nat /\ bounds.top <= Size
  BY <1>2, WorkMeans DEF Tiled
<1>5. mark \in DOMAIN cell \cup {Size} /\ bounds.top <= mark
  <2>1. mark \in Marks \cup {Size}
    BY <1>1, <1>2 DEF IInv, MarkInv
  <2>2. \A o \in Marks : o \in DOMAIN cell /\ bounds.top <= o
    <3>1. \A o \in DOMAIN cell : o \in Nat
      BY FullMeans DEF IInv
    <3> QED BY <3>1, <1>4 DEF Marks
  <2> QED BY <2>1, <2>2, <1>4
<1> HIDE DEF mark
<1>6. Tiled(cell', bounds.end, mark)
  BY <1>1, <1>4, <1>5, TiledDrops
<1>7. chain' = [end |-> bounds.end, top |-> mark] /\ bounds' = [end |-> bounds.end, top |-> mark]
      /\ mark \in Nat
  BY <1>1, <1>6, StoredRests
<1>8. \A o \in DOMAIN cell : o < bounds.end \/ o >= mark =>
        o \in DOMAIN cell' /\ cell'[o] = cell[o]
  BY <1>1 DEF Only
<1>9. ASSUME NEW d \in Contexts \ {c}, NEW o \in Mine(d)
      PROVE  o \in DOMAIN cell' /\ cell'[o] = cell[o] /\ (o < chain.end => o < chain'.end)
  <2>1. d \notin TempContexts
    BY <1>3, SoleRewinder
  <2>2. o \in DOMAIN cell /\ o < chain.end
    BY <2>1, MineMeans
  <2> QED BY <2>2, <1>4, <1>7, <1>8
<1>10. held'[c] = {o \in held[c] : o < bounds.end \/ o >= mark} /\ held[c] \subseteq Nat
  BY <1>1 DEF IInv, TypeInv
<1>11. ASSUME NEW o \in held'[c]
       PROVE  /\ o \in DOMAIN cell' /\ cell'[o].busy
              /\ \A d \in Contexts \ {c} : o \notin Mine(d)
  <2>1. o \in held[c] /\ (o < bounds.end \/ o >= mark)
    BY <1>10
  <2>2. /\ o \in DOMAIN cell /\ cell[o].busy
        /\ \A d \in Contexts \ {c} : o \notin Mine(d)
    BY <2>1, HeldMine, MineMeans
  <2> QED BY <2>1, <2>2, <1>8
<1>12. cell' = [o \in DOMAIN cell' |-> cell'[o]]
  BY <1>6 DEF Tiled
<1> QED BY <1>3, <1>4, <1>6, <1>7, <1>9, <1>10, <1>11, <1>12 DEF Worked

(* A writer's last step. *)
Finishes(c) ==
  \/ SpillRun(c) \/ SpillUp(c) \/ SpillDown(c) \/ TrimUp(c) \/ TrimDown(c)
  \/ GrowUp(c) \/ GrowDown(c) \/ GrowRefused(c) \/ Rewound(c)

LEMMA FinishesWorks ==
  ASSUME IInv, NEW c \in Contexts, Finishes(c)
  PROVE  /\ Worked(c) /\ AtWork(c)
         /\ Opened(c, "work") \/ Opened(c, "walk")
<1>1. Worked(c)
  BY SpillRunWorks, SpillUpWorks, SpillDownWorks, TrimUpWorks, TrimDownWorks,
     GrowUpWorks, GrowDownWorks, GrowRefusedWorks, RewoundWorks DEF Finishes
<1>2. Opened(c, "work") \/ Opened(c, "walk")
  BY DEF Finishes, SpillRun, SpillUp, SpillDown, TrimUp, TrimDown,
         GrowUp, GrowDown, GrowRefused, Rewound
<1> QED BY <1>1, <1>2 DEF Opened, Return, Goto, AtWork

-----------------------------------------------------------------------------
(* What a step owes each part of the invariant. *)
Step(c) == Calls(c) \/ Pass(c) \/ Writer(c) \/ GiveStep(c)

LEMMA StepStands ==
  ASSUME IInv, NEW c \in Contexts, Step(c), NEW d \in Contexts \ {c}
  PROVE  pc'[d] = pc[d] /\ op'[d] = op[d] /\ held'[d] = held[d] /\ Mine(d)' = Mine(d)
<1>1. pc'[d] = pc[d] /\ op'[d] = op[d] /\ held'[d] = held[d]
  BY OthersStand DEF IInv, Step
<1> QED BY <1>1 DEF Mine

LEMMA HeldFrom ==
  ASSUME IInv, NEW c \in Contexts, Step(c),
         \A d \in Contexts \ {c} : \A o \in Mine(d) :
           o \in DOMAIN cell' /\ cell'[o].busy /\ (o < chain.end => o < chain'.end),
         \A o \in Mine(c)' :
           /\ o \in DOMAIN cell' /\ cell'[o].busy
           /\ c \in TempContexts \/ o < chain'.end
           /\ \A d \in Contexts \ {c} : o \notin Mine(d),
         pc'[c] \in {"leave", "claim", "free"} => op'[c].off \notin held'[c]
  PROVE  HeldInv'
<1>1. \A d \in Contexts \ {c} :
        pc'[d] = pc[d] /\ op'[d] = op[d] /\ held'[d] = held[d] /\ Mine(d)' = Mine(d)
  BY StepStands
<1>2. \A d \in Contexts : pc'[d] \in {"leave", "claim", "free"} => op'[d].off \notin held'[d]
  BY <1>1 DEF IInv, HeldInv
<1>3. \A d \in Contexts : \A o \in Mine(d)' : o \in DOMAIN cell' /\ cell'[o].busy
  BY <1>1
<1>4. \A d, e \in Contexts : d # e => Mine(d)' \cap Mine(e)' = {}
  BY <1>1 DEF IInv, HeldInv
<1>5. \A d \in Contexts \ TempContexts : \A o \in Mine(d)' : o < chain'.end
  BY <1>1 DEF IInv, HeldInv
<1> QED BY <1>2, <1>3, <1>4, <1>5 DEF HeldInv

(* A step that frees no cell, gives none and takes none. *)
LEMMA HeldKeeps ==
  ASSUME IInv, NEW c \in Contexts, Step(c), Mine(c)' = Mine(c),
         \A o \in DOMAIN cell : o \in DOMAIN cell' /\ cell'[o].busy = cell[o].busy,
         \A o \in Nat : o < chain.end => o < chain'.end,
         pc'[c] \in {"leave", "claim", "free"} => op'[c].off \notin held'[c]
  PROVE  HeldInv'
<1>1. \A d \in Contexts : \A o \in Mine(d) :
        /\ o \in DOMAIN cell' /\ cell'[o].busy /\ (o < chain.end => o < chain'.end)
        /\ d \in TempContexts \/ o < chain.end
        /\ \A e \in Contexts \ {d} : o \notin Mine(e)
  BY MineMeans
<1> QED BY <1>1, HeldFrom

LEMMA MarkFrom ==
  ASSUME IInv, NEW c \in Contexts, Step(c),
         c \in TempContexts \/ Marks \subseteq Marks',
         op'[c].kind = "rewind" =>
           /\ pc'[c] # "walk" => op'[c].want \in Marks' \cup {0, Size}
           /\ pc'[c] = "walk" => /\ op'[c].want \in Marks' \cup {Size}
                                 /\ op'[c].off \in Marks' \cup {Size}
                                 /\ op'[c].off <= op'[c].want
  PROVE  MarkInv'
<1> SUFFICES ASSUME NEW d \in Contexts, op'[d].kind = "rewind"
             PROVE  /\ pc'[d] # "walk" => op'[d].want \in Marks' \cup {0, Size}
                    /\ pc'[d] = "walk" => /\ op'[d].want \in Marks' \cup {Size}
                                          /\ op'[d].off \in Marks' \cup {Size}
                                          /\ op'[d].off <= op'[d].want
  BY DEF MarkInv
<1>1. CASE d # c
  <2>1. pc'[d] = pc[d] /\ op'[d] = op[d]
    BY <1>1, StepStands
  <2>2. Rewinds /\ d \in TempContexts
    BY <2>1 DEF IInv, OpInv, OpFits
  <2>3. Marks \subseteq Marks'
    BY <1>1, <2>2, SoleRewinder
  <2> QED BY <2>1, <2>3 DEF IInv, MarkInv
<1> QED BY <1>1

(* A step that lays no mark's cell anew and moves no top. *)
LEMMA MarkKeeps ==
  ASSUME IInv, NEW c \in Contexts, Step(c), DOMAIN cell \subseteq DOMAIN cell',
         chain'.top = chain.top,
         op'[c].kind = "rewind" => op'[c] = op[c] /\ (pc'[c] = "walk" <=> pc[c] = "walk")
  PROVE  MarkInv'
<1>1. Marks \subseteq Marks'
  BY DEF Marks
<1> QED BY <1>1, MarkFrom DEF IInv, MarkInv

LEMMA FullNext ==
  ASSUME \A c \in Claims' : op'[c].off \notin DOMAIN cell',
         \A c, d \in Claims' : op'[c].off = op'[d].off => c = d
  PROVE  /\ DOMAIN Full' = Starts' /\ Full' = [o \in Starts' |-> Full'[o]]
         /\ \A o \in DOMAIN cell' : o \in Starts' /\ Full'[o] = cell'[o]
         /\ \A c \in Claims' : /\ op'[c].off \in Starts'
                               /\ Full'[op'[c].off] = BusyCell(op'[c].want, op'[c].owner)
<1>1. DOMAIN Full' = Starts' /\ Full' = [o \in Starts' |-> Full'[o]]
  BY DEF Full
<1>2. \A o \in DOMAIN cell' : o \in Starts' /\ Full'[o] = cell'[o]
  BY DEF Full, Starts
<1>3. ASSUME NEW c \in Claims'
      PROVE  /\ op'[c].off \in Starts'
             /\ Full'[op'[c].off] = BusyCell(op'[c].want, op'[c].owner)
  <2>1. op'[c].off \in Starts' /\ op'[c].off \notin DOMAIN cell'
    BY DEF Starts
  <2>2. (CHOOSE d \in Claims' : op'[d].off = op'[c].off) = c
    OBVIOUS
  <2> QED BY <2>1, <2>2 DEF Full
<1> QED BY <1>1, <1>2, <1>3

(* A step that moves no boundary of a chain and no claim. *)
LEMMA TierKeeps ==
  ASSUME IInv, DOMAIN cell' = DOMAIN cell, chain' = chain, Claims' = Claims,
         \A d \in Claims : op'[d] = op[d],
         \A o \in DOMAIN cell : cell'[o] \in CellWords /\ cell'[o].size = cell[o].size
  PROVE  TierInv'
<1>1. /\ \A d \in Claims' : op'[d].off \notin DOMAIN cell'
      /\ \A d, e \in Claims' : op'[d].off = op'[e].off => d = e
      /\ \A d \in Claims' : op'[d].up => op'[d].off < chain'.end
  BY DEF IInv, TierInv
<1>2. Starts' = Starts
  BY DEF Starts
<1>3. /\ Tiled(Full, chain.end, chain.top) /\ DOMAIN Full = Starts
      /\ \A o \in DOMAIN cell : Full[o] = cell[o]
      /\ \A d \in Claims : Full[op[d].off] = BusyCell(op[d].want, op[d].owner)
  BY FullMeans DEF IInv, TierInv
<1>4. DOMAIN Full' = DOMAIN Full
      /\ \A o \in DOMAIN Full : Full'[o] \in CellWords /\ Full'[o].size = Full[o].size
  <2>1. \A o \in DOMAIN Full : Full[o] \in CellWords
    BY <1>3 DEF Tiled
  <2>2. ASSUME NEW o \in DOMAIN cell
        PROVE  Full'[o] \in CellWords /\ Full'[o].size = Full[o].size
    BY <1>1, <1>3, FullNext
  <2>3. ASSUME NEW d \in Claims
        PROVE  Full'[op[d].off] = Full[op[d].off]
    BY <1>1, <1>3, FullNext
  <2>4. \A o \in Starts : o \in DOMAIN cell \/ \E d \in Claims : o = op[d].off
    BY DEF Starts
  <2>5. DOMAIN Full' = DOMAIN Full
    BY <1>1, <1>2, <1>3, FullNext
  <2> QED BY <2>1, <2>2, <2>3, <2>4, <2>5, <1>3
<1>5. Full' \in [DOMAIN Full' -> CellWords]
  BY <1>1, <1>4, FullNext
<1>6. Tiled(Full', chain.end, chain.top)
  <2> DEFINE now == Full'
  <2>1. DOMAIN now = DOMAIN Full /\ now \in [DOMAIN now -> CellWords]
        /\ \A o \in DOMAIN Full : now[o].size = Full[o].size
    BY <1>4, <1>5
  <2> HIDE DEF now
  <2>2. Tiled(now, chain.end, chain.top)
    BY <1>3, <2>1, TiledKeeps
  <2> QED BY <2>2 DEF now
<1> QED BY <1>1, <1>6 DEF TierInv

-----------------------------------------------------------------------------
(* Types. *)
OpRecords == [kind : Kinds, up : BOOLEAN, want : Nat,
              owner : Owners \cup Strangers \cup {NoOwner}, off : Nat, edge : BOOLEAN]

LEMMA OpTypes ==
  ASSUME IInv, NEW c \in Contexts, Step(c)
  PROVE  op' \in [Contexts -> OpRecords]
<1> USE DEF IInv, TypeInv, OpRecords
<1>0. NoOp \in OpRecords
  BY DEF NoOp, Kinds
<1>1. CASE Calls(c)
  <2>1. CASE Take(c)
    <3>1. PICK up \in BOOLEAN, request \in Requests, owner \in Owners \cup Strangers :
            op' = [op EXCEPT ![c] = [NoOp EXCEPT !.kind = "take", !.up = up,
                                     !.want = carcer_want(request), !.owner = owner]]
      BY <2>1 DEF Take, Call
    <3>2. carcer_want(request) \in Nat
      BY WantRounds, Assumed
    <3> QED BY <3>1, <3>2 DEF NoOp, Kinds
  <2>2. CASE Give(c)
    <3>1. PICK o \in held[c] :
            op' = [op EXCEPT ![c] =
                    [NoOp EXCEPT !.kind = "give", !.off = o, !.up = (o < bounds.end),
                                 !.edge = IF o < bounds.end THEN EndOf(o) = bounds.end
                                                            ELSE o = bounds.top]]
      BY <2>2 DEF Give, Call
    <3>2. o \in Nat
      OBVIOUS
    <3> DEFINE up == o < bounds.end
               edge == IF o < bounds.end THEN EndOf(o) = bounds.end ELSE o = bounds.top
    <3>3. up \in BOOLEAN
      OBVIOUS
    <3>5. edge \in BOOLEAN
      OBVIOUS
    <3>4. op' = [op EXCEPT ![c] = [NoOp EXCEPT !.kind = "give", !.off = o, !.up = up,
                                               !.edge = edge]]
      BY <3>1
    <3> HIDE DEF up, edge
    <3>6. [NoOp EXCEPT !.kind = "give", !.off = o, !.up = up, !.edge = edge] \in OpRecords
      BY <3>2, <3>3, <3>5 DEF NoOp, Kinds
    <3> QED BY <3>4, <3>6
  <2>3. CASE Grow(c)
    <3>1. PICK o \in held[c], request \in Growths :
            op' = [op EXCEPT ![c] = [NoOp EXCEPT !.kind = "grow", !.off = o,
                                        !.owner = cell[o].owner,
                                        !.want = carcer_want(request)]]
      BY <2>3 DEF Grow, Call
    <3>2. carcer_want(request) \in Nat
      BY WantRounds, Assumed
    <3>3. o \in Nat /\ cell[o].owner \in Owners \cup {NoOwner}
      <4>1. o \in DOMAIN cell /\ o \in Nat
        BY HeldMine, MineMeans
      <4> QED BY <4>1, FullMeans DEF CellWords
    <3> QED BY <3>1, <3>2, <3>3 DEF NoOp, Kinds
  <2>4. CASE Rewind(c)
    <3>1. PICK mark \in {o \in DOMAIN cell : o >= chain.top} \cup {0, Size} :
            op' = [op EXCEPT ![c] = [NoOp EXCEPT !.kind = "rewind", !.want = mark]]
      BY <2>4 DEF Rewind, Call
    <3>2. mark \in Nat
      BY FullMeans, WordSizes
    <3> QED BY <3>1, <3>2 DEF NoOp, Kinds
  <2> QED BY <1>1, <2>1, <2>2, <2>3, <2>4 DEF Calls
<1>2. CASE BumpUp(c)
  <2>1. bounds.end \in Nat
    BY WordMeans
  <2>2. op' = op \/ op' = [op EXCEPT ![c].off = bounds.end]
    BY <1>2 DEF BumpUp
  <2> QED BY <2>1, <2>2
<1>3. CASE BumpDown(c)
  <2>1. FitsDown(bounds, Need(c)) => bounds.top - Need(c) \in Nat
    BY NeedMeans, WordMeans DEF FitsDown
  <2>2. \/ op' = op
        \/ FitsDown(bounds, Need(c)) /\ op' = [op EXCEPT ![c].off = bounds.top - Need(c)]
    BY <1>3 DEF BumpDown
  <2> QED BY <2>1, <2>2
<1>4. CASE RewindBegin(c)
  <2>1. bounds.top \in Nat
    BY WordMeans
  <2> DEFINE want == IF bounds.top < op[c].want THEN op[c].want ELSE bounds.top
  <2>2. op' = [op EXCEPT ![c] = [op[c] EXCEPT !.off = bounds.top, !.want = want]]
    BY <1>4 DEF RewindBegin
  <2>3. want \in Nat
    BY <2>1
  <2> HIDE DEF want
  <2> QED BY <2>1, <2>2, <2>3
<1>5. CASE op' = op \/ op' = [op EXCEPT ![c] = NoOp]
  BY <1>0, <1>5
<1>6. CASE RewindStep(c)
  <2>1. op' = [op EXCEPT ![c].off = EndOf(@)]
    BY <1>6 DEF RewindStep
  <2>2. EndOf(op[c].off) \in Nat
    <3>1. pc[c] = "walk" /\ op[c].off < op[c].want
      BY <1>6 DEF RewindStep
    <3>2. op[c].off \in DOMAIN cell
      <4>1. op[c].kind = "rewind"
        BY <3>1 DEF OpInv, OpFits
      <4>2. op[c].off \in Marks \cup {Size} /\ op[c].want \in Marks \cup {Size}
        BY <3>1, <4>1 DEF MarkInv
      <4>3. \A o \in Marks : o \in DOMAIN cell /\ o < Size
        BY FullMeans, WordSizes DEF Marks, Offsets
      <4> QED BY <3>1, <4>2, <4>3, WordSizes
    <3>3. cell[op[c].off].size \in Nat
      BY <3>2, FullMeans DEF CellWords
    <3> QED BY <3>3, WordSizes DEF EndOf, carcer_end_of
  <2> QED BY <2>1, <2>2
<1>7. Step(c) => \/ Calls(c) \/ BumpUp(c) \/ BumpDown(c) \/ RewindBegin(c) \/ RewindStep(c)
                 \/ op' = op \/ op' = [op EXCEPT ![c] = NoOp]
  <2>1. Pass(c) => BumpUp(c) \/ BumpDown(c) \/ op' = op \/ op' = [op EXCEPT ![c] = NoOp]
    BY DEF Pass, Enter, Permit, Miss, Ahead, Owe, Lay, Leave, Refused, Return
  <2>2. GiveStep(c) => op' = op \/ op' = [op EXCEPT ![c] = NoOp]
    BY DEF GiveStep, Claim, Freed, TrimTaken, TrimSkipped, Return
  <2>3. Shut(c) \/ Drain(c) \/ Settle(c) => op' = op
    BY DEF Shut, Drain, Settle
  <2>4. Finishes(c) => op' = [op EXCEPT ![c] = NoOp]
    BY FinishesWorks DEF Opened, Return
  <2> QED BY <2>1, <2>2, <2>3, <2>4 DEF Step, Writer, Finishes
<1> QED BY <1>1, <1>2, <1>3, <1>4, <1>5, <1>6, <1>7

(* The counts stay counts whatever is counted on them. *)
LEMMA CountTypes ==
  ASSUME TypeInv, NEW owner, NEW bytes \in Int, NEW up,
         carcer_counted(owner, bytes, up) \/ carcer_uncounted(owner, bytes, up) \/ UNCHANGED counts
  PROVE  inUse' \in Int /\ persistentInUse' \in Int /\ ownerInUse' \in [Owners -> Int]
<1>1. \A o \in Owners : ownerInUse[o] + bytes \in Int /\ ownerInUse[o] - bytes \in Int
  BY DEF TypeInv
<1>2. \/ ownerInUse' = ownerInUse
      \/ ownerInUse' = [ownerInUse EXCEPT ![owner] = @ + bytes]
      \/ ownerInUse' = [ownerInUse EXCEPT ![owner] = @ - bytes]
  BY DEF carcer_counted, carcer_uncounted, counts
<1>3. ownerInUse' \in [Owners -> Int]
  BY <1>1, <1>2 DEF TypeInv
<1>4. inUse' \in Int /\ persistentInUse' \in Int
  BY DEF carcer_counted, carcer_uncounted, counts, TypeInv
<1> QED BY <1>3, <1>4

LEMMA FinishesCounts ==
  ASSUME IInv, NEW c \in Contexts, Finishes(c)
  PROVE  inUse' \in Int /\ persistentInUse' \in Int /\ ownerInUse' \in [Owners -> Int]
<1>0. TypeInv /\ op[c].want \in Int
  BY DEF IInv, TypeInv
<1>1. CASE SpillRun(c)
  <2>1. PICK free \in SUBSET DOMAIN cell :
          /\ ReadFree(free) /\ pc[c] = "work" /\ Holding(free, op[c].want) # {}
          /\ carcer_counted(op[c].owner, SplitSize(FirstRun(free, op[c].want), op[c].want), TRUE)
    BY <1>1 DEF SpillRun, Opened, Return, Goto
  <2>2. Sweepable(free)
    BY <2>1, ReadSweeps DEF AtWork
  <2>3. RunSize(FirstRun(free, op[c].want)) \in Int
    BY <2>1, <2>2, FirstRunMeans, RunClear
  <2>4. SplitSize(FirstRun(free, op[c].want), op[c].want) \in Int
    BY <1>0, <2>3 DEF SplitSize
  <2> QED BY <1>0, <2>1, <2>4, CountTypes
<1>2. CASE SpillUp(c)
  <2>1. carcer_counted(op[c].owner, op[c].want, TRUE) \/ UNCHANGED counts
    BY <1>2 DEF SpillUp
  <2> QED BY <1>0, <2>1, CountTypes
<1>3. CASE SpillDown(c)
  <2>1. carcer_counted(op[c].owner, op[c].want, FALSE) \/ UNCHANGED counts
    BY <1>3 DEF SpillDown
  <2> QED BY <1>0, <2>1, CountTypes
<1>4. CASE GrowUp(c) \/ GrowDown(c)
  <2>1. pc[c] = "work" /\ op[c].kind = "grow"
        /\ \E up \in BOOLEAN : carcer_counted(op[c].owner, Extra(c), up)
    BY <1>4 DEF GrowUp, GrowDown, Opened, Return, Goto
  <2>2. Extra(c) \in Int
    BY <2>1, GrowFinds
  <2> QED BY <1>0, <2>1, <2>2, CountTypes
<1>5. CASE TrimUp(c) \/ TrimDown(c) \/ GrowRefused(c) \/ Rewound(c)
  <2>1. UNCHANGED counts
    BY <1>5 DEF TrimUp, TrimDown, GrowRefused, Rewound
  <2> QED BY <1>0, <2>1 DEF TypeInv, counts
<1> QED BY <1>1, <1>2, <1>3, <1>4, <1>5 DEF Finishes

-----------------------------------------------------------------------------
(* The steps that touch neither the word nor a cell. *)
Turns(c) ==
  \/ Calls(c) \/ Enter(c) \/ Permit(c) \/ Miss(c) \/ Ahead(c) \/ Leave(c) \/ Refused(c)
  \/ Shut(c) \/ Drain(c) \/ RewindBegin(c) \/ TrimTaken(c) \/ TrimSkipped(c)

LEMMA TurnsSteps == \A c : Turns(c) => Step(c)
  BY DEF Turns, Step, Pass, Writer, GiveStep

LEMMA TurnsKeep ==
  ASSUME IInv, NEW c \in Contexts, Turns(c)
  PROVE  /\ UNCHANGED <<bounds, over, seen, cell, inUse, persistentInUse, ownerInUse, chain>>
         /\ pc[c] \notin {"bump", "owe", "lay"} /\ pc'[c] \notin {"owe", "lay"}
         /\ AtWork(c)' => AtWork(c)
         /\ c \in Downs => c \in Downs'
         /\ pc'[c] = "bump" => Ahead(c)
<1> USE DEF IInv, ControlInv
<1>1. CASE Calls(c)
  BY <1>1 DEF Calls, Take, Give, Grow, Rewind, Call, AtWork, Downs, counts
<1>2. CASE Enter(c) \/ Permit(c) \/ Miss(c) \/ Ahead(c)
  BY <1>2 DEF Enter, Permit, Miss, Ahead, Goto, AtWork, Downs, counts
<1>3. CASE Leave(c)
  BY <1>3 DEF Leave, Return, Goto, AtWork, Downs, counts
<1>4. CASE Refused(c)
  BY <1>4 DEF Refused, Return, Goto, AtWork, Downs, counts
<1>5. CASE Shut(c) \/ Drain(c)
  BY <1>5 DEF Shut, Drain, Goto, AtWork, Downs, counts
<1>6. CASE RewindBegin(c)
  BY <1>6 DEF RewindBegin, Goto, AtWork, Downs, counts
<1>7. CASE TrimTaken(c) \/ TrimSkipped(c)
  BY <1>7 DEF TrimTaken, TrimSkipped, Goto, Return, AtWork, Downs, counts
<1> QED BY <1>1, <1>2, <1>3, <1>4, <1>5, <1>6, <1>7 DEF Turns

LEMMA TurnsHold ==
  ASSUME IInv, NEW c \in Contexts, Turns(c)
  PROVE  /\ Mine(c)' = Mine(c)
         /\ pc'[c] \in {"leave", "claim", "free"} => op'[c].off \notin held'[c]
         /\ held' \in [Contexts -> SUBSET Nat]
<1> USE DEF IInv, ControlInv, TypeInv
<1>1. CASE Give(c)
  <2>1. PICK o \in held[c] :
          /\ pc[c] = "idle" /\ pc' = [pc EXCEPT ![c] = "claim"]
          /\ op' = [op EXCEPT ![c] =
                     [NoOp EXCEPT !.kind = "give", !.off = o, !.up = (o < bounds.end),
                                  !.edge = IF o < bounds.end THEN EndOf(o) = bounds.end
                                                             ELSE o = bounds.top]]
          /\ held' = [held EXCEPT ![c] = @ \ {o}]
    BY <1>1 DEF Give, Call
  <2>2. op'[c].off = o
    BY <2>1 DEF NoOp
  <2>3. Mine(c) = held[c] /\ Mine(c)' = held'[c] \cup {o} /\ held'[c] = held[c] \ {o}
    BY <2>1, <2>2 DEF Mine
  <2> QED BY <2>1, <2>2, <2>3
<1>2. CASE Leave(c)
  <2>1. /\ pc[c] = "leave" /\ pc' = [pc EXCEPT ![c] = "idle"]
        /\ held' = [held EXCEPT ![c] = @ \cup {op[c].off}]
    BY <1>2 DEF Leave, Return, Goto
  <2>2. op[c].off \in Nat
    OBVIOUS
  <2>3. Mine(c) = held[c] \cup {op[c].off} /\ Mine(c)' = held'[c]
        /\ held'[c] = held[c] \cup {op[c].off}
    BY <2>1 DEF Mine
  <2> QED BY <2>1, <2>2, <2>3
<1>3. CASE Turns(c) /\ ~Give(c) /\ ~Leave(c)
  <2>1. held' = held /\ pc[c] \notin {"leave", "claim", "free"}
        /\ pc'[c] \notin {"leave", "claim", "free"}
    BY <1>3 DEF Turns, Calls, Take, Grow, Rewind, Call, Enter, Permit, Miss, Ahead, Refused,
                Shut, Drain, RewindBegin, TrimTaken, TrimSkipped, Goto, Return
  <2> QED BY <2>1 DEF Mine
<1> QED BY <1>1, <1>2, <1>3

LEMMA TurnsLane ==
  ASSUME IInv, NEW c \in Contexts, Turns(c)
  PROVE  Cardinality(lane') <= Lanes
<1>1. \/ lane' = lane
      \/ lane' = lane \ {c}
      \/ lane' = lane \cup {c} /\ Cardinality(lane) < Lanes
  BY DEF Turns, Calls, Take, Give, Grow, Rewind, Enter, Permit, Miss, Ahead, Leave, Refused,
         Shut, Drain, RewindBegin, TrimTaken, TrimSkipped, Unbadged
<1> QED BY <1>1, LaneCounts

LEMMA TurnsOwe ==
  ASSUME IInv, NEW c \in Contexts, Turns(c)
  PROVE  /\ OweUp' = OweUp /\ OweDown' = OweDown /\ Downs \subseteq Downs'
         /\ \A d \in Contexts : AtWork(d)' => AtWork(d)
         /\ Ups' \subseteq IF Ahead(c) THEN Ups \cup {c} ELSE Ups
<1>1. \A d \in Contexts \ {c} : pc'[d] = pc[d] /\ op'[d] = op[d]
  BY StepStands, TurnsSteps
<1>2. \A d \in Contexts :
        /\ (IF pc'[d] = "owe" /\ op'[d].up THEN Need(d)' ELSE 0)
           = (IF pc[d] = "owe" /\ op[d].up THEN Need(d) ELSE 0)
        /\ (IF pc'[d] = "owe" /\ ~op'[d].up THEN Need(d)' ELSE 0)
           = (IF pc[d] = "owe" /\ ~op[d].up THEN Need(d) ELSE 0)
  BY <1>1, TurnsKeep DEF Need
<1>3. OweUp' = OweUp /\ OweDown' = OweDown
  BY <1>2 DEF OweUp, OweDown
<1>4. Downs \subseteq Downs'
  BY <1>1, TurnsKeep, Assumed DEF Downs
<1>5. \A d \in Contexts : AtWork(d)' => AtWork(d)
  BY <1>1, TurnsKeep DEF AtWork
<1>6. Ups' \subseteq IF Ahead(c) THEN Ups \cup {c} ELSE Ups
  BY <1>1, TurnsKeep DEF Ups
<1> QED BY <1>3, <1>4, <1>5, <1>6

(* A pass goes on to its bump up only where it read the end short of the    *)
(* headroom, and there is a lane's worth of it for each.                    *)
LEMMA TurnsWord ==
  ASSUME IInv, NEW c \in Contexts, Turns(c)
  PROVE  WordInv'
<1>1. CASE Ups' \subseteq Ups
  BY <1>1, TurnsKeep, TurnsOwe, TurnsLane, WordKeeps
<1>2. CASE ~(Ups' \subseteq Ups)
  <2>1. Ahead(c) /\ c \in Ups' /\ Ups' \subseteq lane' /\ lane' = lane
    <3>1. Ahead(c) /\ Ups' \subseteq Ups \cup {c} /\ c \in Ups'
      BY <1>2, TurnsOwe
    <3>2. lane' = lane /\ pc[c] = "ahead"
      BY <3>1 DEF Ahead, Goto
    <3> QED BY <3>1, <3>2 DEF IInv, ControlInv, Ups, BadgedIn, InPass
  <2>2. pc'[c] = "bump" /\ op'[c].up /\ op' = op
    BY <2>1 DEF Ups, Ahead
  <2>3. bounds.end <= BytesMost
    BY <2>1, <2>2 DEF Ahead, Goto, IInv, ControlInv
  <2>4. (Lanes - Cardinality(Ups')) * NeedMost \in Nat
    <3>1. Cardinality(Ups') \in Nat /\ Cardinality(Ups') <= Lanes
      <4>1. IsFiniteSet(lane) /\ Cardinality(lane) \in Nat /\ Cardinality(lane) <= Lanes
        BY FS_Subset, FS_CardinalityType, Assumed DEF IInv, ControlInv, WordInv
      <4> QED BY <4>1, <2>1, FS_Subset, FS_CardinalityType, Assumed
    <3> QED BY <3>1, Headroom
  <2>5. bounds'.end <= BytesMost + (Lanes - Cardinality(Ups')) * NeedMost
    BY <2>3, <2>4, TurnsKeep, WordMeans, WordSizes DEF IInv
  <2>6. UpOwed' = UpOwed /\ DownOwed' = DownOwed /\ over' = over /\ bounds' = bounds
    BY TurnsKeep DEF UpOwed, DownOwed
  <2>7. DownOwed <= Cardinality(Downs') * NeedMost
    <3>1. Downs' = Downs
      BY <2>1, <2>2, StepStands, TurnsSteps, Assumed DEF Downs, Ahead, Goto, IInv, ControlInv
    <3> QED BY <3>1 DEF IInv, WordInv
  <2> QED BY <2>5, <2>6, <2>7, TurnsOwe, TurnsLane DEF IInv, WordInv
<1> QED BY <1>1, <1>2

Parts == TypeInv /\ WordInv /\ TierInv /\ HeldInv /\ MarkInv

LEMMA TurnsMark ==
  ASSUME IInv, NEW c \in Contexts, Turns(c)
  PROVE  MarkInv'
<1>0. Step(c) /\ cell' = cell /\ chain' = chain /\ Marks' = Marks
  BY TurnsSteps, TurnsKeep DEF Marks
<1>1. CASE Rewind(c)
  <2>1. /\ op' = [op EXCEPT ![c] = [NoOp EXCEPT !.kind = "rewind", !.want = op'[c].want]]
        /\ op'[c].want \in Marks \cup {0, Size} /\ pc' = [pc EXCEPT ![c] = "shut"]
    <3>1. PICK mark \in Marks \cup {0, Size} :
            /\ op' = [op EXCEPT ![c] = [NoOp EXCEPT !.kind = "rewind", !.want = mark]]
            /\ pc' = [pc EXCEPT ![c] = "shut"]
      BY <1>1 DEF Rewind, Call, Marks
    <3>2. op'[c].want = mark
      BY <3>1 DEF IInv, TypeInv, NoOp
    <3> QED BY <3>1, <3>2
  <2>2. pc'[c] # "walk"
    BY <2>1 DEF IInv, ControlInv
  <2> QED BY <1>0, <2>1, <2>2, MarkFrom
<1>2. CASE RewindBegin(c)
  <2> DEFINE top == bounds.top
             want == IF top < op[c].want THEN op[c].want ELSE top
  <2>1. /\ pc[c] = "work" /\ op[c].kind = "rewind" /\ pc' = [pc EXCEPT ![c] = "walk"]
        /\ op' = [op EXCEPT ![c] = [op[c] EXCEPT !.off = top, !.want = want]]
    BY <1>2 DEF RewindBegin, Goto
  <2>2. top = chain.top /\ top \in DOMAIN cell \cup {Size} /\ top \in Nat /\ top <= Size
    BY <2>1, WorkMeans DEF AtWork, Tiled
  <2>3. top \in Marks \cup {Size}
    BY <2>2 DEF Marks
  <2>4. op[c].want \in Marks \cup {0, Size} /\ op[c].want \in Nat
    BY <2>1 DEF IInv, MarkInv, TypeInv
  <2>5. want \in Marks \cup {Size} /\ top <= want
    BY <2>2, <2>3, <2>4
  <2> HIDE DEF top, want
  <2>6. op'[c].off = top /\ op'[c].want = want /\ pc'[c] = "walk"
    BY <2>1 DEF IInv, TypeInv, ControlInv
  <2> QED BY <1>0, <2>3, <2>5, <2>6, MarkFrom
<1>3. CASE Turns(c) /\ ~Rewind(c) /\ ~RewindBegin(c)
  <2>1. op'[c].kind = "rewind" => op'[c] = op[c] /\ (pc'[c] = "walk" <=> pc[c] = "walk")
    <3>1. CASE Take(c)
      <4>1. op'[c].kind = "take"
        BY <3>1 DEF Take, Call, NoOp, IInv, TypeInv
      <4> QED BY <4>1
    <3>2. CASE Give(c)
      <4>1. op'[c].kind = "give"
        BY <3>2 DEF Give, Call, NoOp, IInv, TypeInv
      <4> QED BY <4>1
    <3>3. CASE Grow(c)
      <4>1. op'[c].kind = "grow"
        BY <3>3 DEF Grow, Call, NoOp, IInv, TypeInv
      <4> QED BY <4>1
    <3>4. CASE Leave(c) \/ Refused(c) \/ TrimSkipped(c)
      <4>1. op'[c] = NoOp \/ (op' = op /\ pc[c] # "walk" /\ pc'[c] # "walk")
        BY <3>4 DEF Leave, Refused, TrimSkipped, Return, Goto, IInv, TypeInv, ControlInv
      <4> QED BY <4>1 DEF NoOp
    <3>5. CASE Enter(c) \/ Permit(c) \/ Miss(c) \/ Ahead(c) \/ Shut(c) \/ Drain(c) \/ TrimTaken(c)
      BY <3>5 DEF Enter, Permit, Miss, Ahead, Shut, Drain, TrimTaken, Goto, IInv, ControlInv
    <3> QED BY <1>3, <3>1, <3>2, <3>3, <3>4, <3>5 DEF Turns, Calls
  <2> QED BY <1>0, <2>1, MarkKeeps
<1> QED BY <1>1, <1>2, <1>3

LEMMA TurnsInv ==
  ASSUME IInv, NEW c \in Contexts, Turns(c)
  PROVE  Parts'
<1>1. TypeInv'
  BY OpTypes, TurnsSteps, TurnsKeep, TurnsHold DEF IInv, TypeInv, OpRecords
<1>2. TierInv'
  <2>1. \A d \in Contexts \ {c} : pc'[d] = pc[d] /\ op'[d] = op[d]
    BY StepStands, TurnsSteps
  <2>2. Claims' = Claims /\ \A d \in Claims : op'[d] = op[d]
    BY <2>1, TurnsKeep DEF Claims
  <2>3. \A o \in DOMAIN cell : cell[o] \in CellWords
    BY FullMeans DEF IInv
  <2> QED BY <2>2, <2>3, TurnsKeep, TierKeeps
<1>3. HeldInv'
  BY TurnsSteps, TurnsKeep, TurnsHold, HeldKeeps
<1> QED BY <1>1, <1>2, <1>3, TurnsWord, TurnsMark DEF Parts

-----------------------------------------------------------------------------
(* The bumps. *)
LEMMA BumpLays ==
  ASSUME IInv, NEW c \in Contexts, Step(c), pc[c] = "bump", pc'[c] = "lay", cell' = cell,
         op'[c].want = op[c].want, op'[c].owner = op[c].owner, op'[c].up = op[c].up,
         op'[c].up => op'[c].off < chain'.end, chain.end <= chain'.end, chain'.end \in Nat,
         op'[c].off \notin Starts,
         Tiled(LaidAt(Full, op'[c].off, BusyCell(op[c].want, op[c].owner)), chain'.end, chain'.top)
  PROVE  TierInv'
<1> DEFINE off == op'[c].off
           laid == BusyCell(op[c].want, op[c].owner)
           now == LaidAt(Full, off, laid)
<1>1. \A d \in Contexts \ {c} : pc'[d] = pc[d] /\ op'[d] = op[d]
  BY StepStands
<1>2. Claims' = Claims \cup {c} /\ c \notin Claims /\ \A d \in Claims : op'[d] = op[d]
  BY <1>1 DEF Claims
<1>3. Starts' = Starts \cup {off} /\ DOMAIN cell \subseteq Starts
      /\ \A d \in Claims : op[d].off \in Starts
  BY <1>2 DEF Starts
<1>4. /\ \A d \in Claims' : op'[d].off \notin DOMAIN cell'
      /\ \A d, e \in Claims' : op'[d].off = op'[e].off => d = e
  BY <1>2, <1>3 DEF IInv, TierInv
<1>5. \A d \in Claims' : op'[d].up => op'[d].off < chain'.end
  <2>1. \A d \in Claims : op[d].up => op[d].off < chain.end
    BY DEF IInv, TierInv
  <2>2. \A d \in Contexts : op[d].off \in Nat
    BY DEF IInv, TypeInv
  <2>3. chain.end \in Nat
    BY DEF IInv, TypeInv
  <2>4. \A d \in Claims : d \in Contexts
    BY DEF Claims
  <2> QED BY <2>1, <2>2, <2>3, <2>4, <1>2
<1>6. /\ DOMAIN Full' = Starts' /\ Full' = [o \in Starts' |-> Full'[o]]
      /\ \A o \in DOMAIN cell : Full'[o] = cell[o]
      /\ \A d \in Claims : Full'[op[d].off] = BusyCell(op[d].want, op[d].owner)
      /\ Full'[off] = laid
  BY <1>2, <1>4, FullNext
<1>7. Full' = now
  <2>1. /\ DOMAIN Full = Starts
        /\ \A o \in DOMAIN cell : Full[o] = cell[o]
        /\ \A d \in Claims : Full[op[d].off] = BusyCell(op[d].want, op[d].owner)
    BY FullMeans DEF IInv
  <2>2. \A o \in Starts : o \in DOMAIN cell \/ \E d \in Claims : o = op[d].off
    BY DEF Starts
  <2>3. \A o \in Starts : Full'[o] = Full[o]
    BY <2>1, <2>2, <1>6
  <2> HIDE DEF off, laid
  <2>4. \A o \in Starts' : Full'[o] = IF o = off THEN laid ELSE Full[o]
    BY <2>3, <1>3, <1>6 DEF off
  <2>5. now = [o \in Starts' |-> IF o = off THEN laid ELSE Full[o]]
    BY <2>1, <1>3 DEF LaidAt
  <2> QED BY <2>4, <2>5, <1>6
<1>8. Tiled(Full', chain'.end, chain'.top)
  BY <1>7
<1> QED BY <1>4, <1>5, <1>8 DEF TierInv

LEMMA BumpMeans ==
  ASSUME IInv, NEW c \in Contexts, pc[c] = "bump"
  PROVE  /\ op[c].kind = "take" /\ (op[c].up \/ c \in TempContexts)
         /\ BusyCell(op[c].want, op[c].owner) \in CellWords
         /\ BusyCell(op[c].want, op[c].owner).size = op[c].want
         /\ Need(c) = Hdr + op[c].want /\ Need(c) \in Nat /\ Need(c) > 0 /\ op[c].want \in Nat
         /\ Tiled(Full, chain.end, chain.top) /\ DOMAIN Full = Starts
         /\ chain.end \in Nat /\ chain.top \in Nat
<1>1. /\ op[c].kind = "take" /\ (op[c].up \/ c \in TempContexts)
      /\ op[c].want \in Nat \ {0} /\ op[c].owner \in Owners
  BY DEF IInv, OpInv, OpFits, TypeInv, InPass
<1>2. BusyCell(op[c].want, op[c].owner) \in CellWords
      /\ BusyCell(op[c].want, op[c].owner).size = op[c].want
  BY <1>1 DEF BusyCell, CellWords
<1> QED BY <1>1, <1>2, NeedMeans, FullMeans DEF IInv, TierInv

LEMMA BumpUpInv ==
  ASSUME IInv, NEW c \in Contexts, BumpUp(c)
  PROVE  Parts'
<1> DEFINE n == Need(c)
<1>1. /\ pc[c] = "bump" /\ op[c].up
      /\ UNCHANGED <<over, seen, cell, inUse, persistentInUse, ownerInUse, held>>
      /\ \/ FitsUp(bounds, n) /\ pc' = [pc EXCEPT ![c] = "lay"]
            /\ op' = [op EXCEPT ![c].off = bounds.end]
            /\ chain' = [chain EXCEPT !.end = @ + n]
         \/ ~FitsUp(bounds, n) /\ pc' = [pc EXCEPT ![c] = "owe"] /\ UNCHANGED <<op, chain>>
  BY DEF BumpUp, Goto, counts
<1>2. Step(c)
  BY DEF Step, Pass
<1>3. /\ bounds' \in Word
      /\ FitsUp(bounds, n) => bounds.end = chain.end /\ chain.end + n <= chain.top
      /\ WordInv'
  BY WordBumpUp
<1>4. /\ op[c].kind = "take" /\ (op[c].up \/ c \in TempContexts)
      /\ BusyCell(op[c].want, op[c].owner) \in CellWords
      /\ BusyCell(op[c].want, op[c].owner).size = op[c].want
      /\ n = Hdr + op[c].want /\ n \in Nat /\ n > 0 /\ op[c].want \in Nat /\ Hdr \in Nat
      /\ Tiled(Full, chain.end, chain.top) /\ DOMAIN Full = Starts
      /\ chain.end \in Nat /\ chain.top \in Nat /\ chain \in [end : Nat, top : Nat]
  BY <1>1, BumpMeans, WordSizes DEF IInv, TypeInv
<1> HIDE DEF n
<1>5. chain' \in [end : Nat, top : Nat] /\ chain'.top = chain.top /\ chain.end <= chain'.end
  BY <1>1, <1>4
<1>6. TypeInv'
  BY <1>1, <1>2, <1>3, <1>5, OpTypes DEF IInv, TypeInv, OpRecords
<1>7. /\ pc'[c] \in {"lay", "owe"} /\ op'[c].kind = "take"
      /\ op'[c].want = op[c].want /\ op'[c].owner = op[c].owner /\ op'[c].up = op[c].up
      /\ pc'[c] = "lay" => op'[c].off = bounds.end
  <2>1. \/ pc'[c] = "lay" /\ op' = [op EXCEPT ![c].off = bounds.end]
        \/ pc'[c] = "owe" /\ op' = op
    BY <1>1 DEF IInv, ControlInv
  <2>2. \/ op'[c] = [op[c] EXCEPT !.off = bounds.end]
        \/ pc'[c] = "owe" /\ op'[c] = op[c]
    BY <2>1 DEF IInv, TypeInv
  <2>3. op[c] \in OpRecords
    BY DEF IInv, TypeInv, OpRecords
  <2> QED BY <2>1, <2>2, <2>3, <1>4 DEF OpRecords
<1>8. HeldInv'
  <2>1. Mine(c)' = Mine(c)
    BY <1>1, <1>7 DEF Mine
  <2>2. \A o \in Nat : o < chain.end => o < chain'.end
    BY <1>4, <1>5
  <2> QED BY <1>1, <1>2, <1>7, <2>1, <2>2, HeldKeeps
<1>9. MarkInv'
  BY <1>1, <1>2, <1>5, <1>7, MarkKeeps
<1>10. CASE FitsUp(bounds, n)
  <2>1. /\ chain.end = bounds.end /\ chain.end + n <= chain.top
        /\ pc'[c] = "lay" /\ chain'.end = chain.end + n
    BY <1>1, <1>3, <1>10 DEF IInv, ControlInv, TypeInv
  <2>2. op'[c].off = chain.end
    BY <1>7, <2>1
  <2> DEFINE laid == BusyCell(op[c].want, op[c].owner)
  <2>3. laid \in CellWords /\ chain.end + Hdr + laid.size = chain'.end
        /\ chain.end + Hdr + laid.size <= chain.top
    BY <1>4, <2>1
  <2> HIDE DEF laid
  <2>4. chain.end \notin DOMAIN Full
        /\ Tiled(LaidAt(Full, chain.end, laid), chain.end + Hdr + laid.size, chain.top)
    BY <1>4, <2>3, TiledLaysUp
  <2>5. op'[c].off \notin Starts /\ Tiled(LaidAt(Full, op'[c].off, laid), chain'.end, chain'.top)
    BY <1>4, <1>5, <2>2, <2>3, <2>4
  <2>6. TierInv'
    <3>1. op'[c].off < chain'.end
      BY <2>1, <2>2, <1>4
    <3>2. chain'.end \in Nat
      BY <1>5
    <3>3. Tiled(LaidAt(Full, op'[c].off, BusyCell(op[c].want, op[c].owner)), chain'.end, chain'.top)
      BY <2>5 DEF laid
    <3> QED BY <1>1, <1>2, <1>5, <1>7, <2>1, <2>5, <3>1, <3>2, <3>3, BumpLays
  <2> QED BY <1>3, <1>6, <1>8, <1>9, <2>6 DEF Parts
<1>11. CASE ~FitsUp(bounds, n)
  <2>1. \A d \in Contexts \ {c} : pc'[d] = pc[d]
    BY <1>2, StepStands
  <2>2. Claims' = Claims /\ op' = op /\ chain' = chain
    BY <1>1, <1>11, <2>1 DEF Claims, IInv, ControlInv
  <2>3. \A o \in DOMAIN cell : cell[o] \in CellWords
    BY FullMeans DEF IInv
  <2>4. TierInv'
    BY <1>1, <2>2, <2>3, TierKeeps
  <2> QED BY <1>3, <1>6, <1>8, <1>9, <2>4 DEF Parts
<1> QED BY <1>10, <1>11

LEMMA BumpDownInv ==
  ASSUME IInv, NEW c \in Contexts, BumpDown(c)
  PROVE  Parts'
<1> DEFINE n == Need(c)
<1>1. /\ pc[c] = "bump" /\ ~op[c].up
      /\ UNCHANGED <<over, seen, cell, inUse, persistentInUse, ownerInUse, held>>
      /\ \/ FitsDown(bounds, n) /\ pc' = [pc EXCEPT ![c] = "lay"]
            /\ op' = [op EXCEPT ![c].off = bounds.top - n]
            /\ chain' = [chain EXCEPT !.top = @ - n]
         \/ ~FitsDown(bounds, n) /\ pc' = [pc EXCEPT ![c] = "owe"] /\ UNCHANGED <<op, chain>>
  BY DEF BumpDown, Goto, counts
<1>2. Step(c)
  BY DEF Step, Pass
<1>3. /\ bounds' \in Word
      /\ FitsDown(bounds, n) => bounds.top = chain.top /\ chain.end + n <= chain.top
      /\ WordInv'
  BY WordBumpDown
<1>4. /\ op[c].kind = "take" /\ c \in TempContexts
      /\ BusyCell(op[c].want, op[c].owner) \in CellWords
      /\ BusyCell(op[c].want, op[c].owner).size = op[c].want
      /\ n = Hdr + op[c].want /\ n \in Nat /\ n > 0 /\ op[c].want \in Nat /\ Hdr \in Nat
      /\ Tiled(Full, chain.end, chain.top) /\ DOMAIN Full = Starts
      /\ chain.end \in Nat /\ chain.top \in Nat /\ chain \in [end : Nat, top : Nat]
  BY <1>1, BumpMeans, WordSizes DEF IInv, TypeInv
<1> HIDE DEF n
<1>5. chain' \in [end : Nat, top : Nat] /\ chain'.end = chain.end
  BY <1>1, <1>3, <1>4
<1>6. TypeInv'
  BY <1>1, <1>2, <1>3, <1>5, OpTypes DEF IInv, TypeInv, OpRecords
<1>7. /\ pc'[c] \in {"lay", "owe"} /\ op'[c].kind = "take"
      /\ op'[c].want = op[c].want /\ op'[c].owner = op[c].owner /\ op'[c].up = op[c].up
      /\ pc'[c] = "lay" => op'[c].off = bounds.top - n
  BY <1>1, <1>4 DEF IInv, ControlInv, TypeInv
<1>8. HeldInv'
  <2>1. Mine(c)' = Mine(c)
    BY <1>1, <1>7 DEF Mine
  <2> QED BY <1>1, <1>2, <1>5, <1>7, <2>1, HeldKeeps
<1>9. MarkInv'
  BY <1>2, <1>4, <1>7, MarkFrom
<1>10. CASE FitsDown(bounds, n)
  <2>1. /\ bounds.top = chain.top /\ chain.end + n <= chain.top
        /\ pc'[c] = "lay" /\ chain'.top = chain.top - n
    BY <1>1, <1>3, <1>10 DEF IInv, ControlInv, TypeInv
  <2> DEFINE at == chain.top - n
             laid == BusyCell(op[c].want, op[c].owner)
  <2>2. op'[c].off = at
    BY <1>7, <2>1
  <2>3. laid \in CellWords /\ at \in Nat /\ at + Hdr + laid.size = chain.top /\ chain.end <= at
        /\ chain'.top = at
    BY <1>4, <2>1
  <2> HIDE DEF laid, at
  <2>4. at \notin DOMAIN Full /\ Tiled(LaidAt(Full, at, laid), chain.end, at)
    BY <1>4, <2>3, TiledLaysDown
  <2>5. op'[c].off \notin Starts /\ Tiled(LaidAt(Full, op'[c].off, laid), chain'.end, chain'.top)
    BY <1>4, <1>5, <2>2, <2>3, <2>4
  <2>6. TierInv'
    <3>1. ~op'[c].up
      BY <1>1, <1>7
    <3>2. chain'.end \in Nat /\ chain.end <= chain'.end
      BY <1>4, <1>5
    <3>3. Tiled(LaidAt(Full, op'[c].off, BusyCell(op[c].want, op[c].owner)), chain'.end, chain'.top)
      BY <2>5 DEF laid
    <3> QED BY <1>1, <1>2, <1>7, <2>1, <2>5, <3>1, <3>2, <3>3, BumpLays
  <2> QED BY <1>3, <1>6, <1>8, <1>9, <2>6 DEF Parts
<1>11. CASE ~FitsDown(bounds, n)
  <2>1. \A d \in Contexts \ {c} : pc'[d] = pc[d]
    BY <1>2, StepStands
  <2>2. Claims' = Claims /\ op' = op /\ chain' = chain
    BY <1>1, <1>11, <2>1 DEF Claims, IInv, ControlInv
  <2>3. \A o \in DOMAIN cell : cell[o] \in CellWords
    BY FullMeans DEF IInv
  <2>4. TierInv'
    BY <1>1, <2>2, <2>3, TierKeeps
  <2> QED BY <1>3, <1>6, <1>8, <1>9, <2>4 DEF Parts
<1> QED BY <1>10, <1>11

LEMMA OweInv ==
  ASSUME IInv, NEW c \in Contexts, Owe(c)
  PROVE  Parts'
<1>1. /\ pc[c] = "owe" /\ pc' = [pc EXCEPT ![c] = "refused"]
      /\ over' = IF op[c].up THEN [over EXCEPT !.end = @ + Need(c)]
                             ELSE [over EXCEPT !.top = @ + Need(c)]
      /\ UNCHANGED <<bounds, seen, cell, inUse, persistentInUse, ownerInUse, op, held, chain>>
  BY DEF Owe, Goto, counts
<1>2. Step(c)
  BY DEF Step, Pass
<1>3. over' \in [end : Nat, top : Nat]
  BY <1>1, NeedMeans DEF IInv, TypeInv
<1>4. TypeInv'
  BY <1>1, <1>3 DEF IInv, TypeInv
<1>5. TierInv'
  <2>1. Claims' = Claims
    BY <1>1 DEF Claims, IInv, ControlInv
  <2>2. \A o \in DOMAIN cell : cell[o] \in CellWords
    BY FullMeans DEF IInv
  <2> QED BY <1>1, <2>1, <2>2, TierKeeps
<1>6. pc'[c] = "refused"
  BY <1>1 DEF IInv, ControlInv
<1>7. HeldInv'
  <2>1. Mine(c)' = Mine(c)
    BY <1>1, <1>6 DEF Mine
  <2> QED BY <1>1, <1>2, <1>6, <2>1, HeldKeeps
<1>8. MarkInv'
  BY <1>1, <1>2, <1>6, MarkKeeps
<1> QED BY <1>4, <1>5, <1>7, <1>8, WordOwe DEF Parts

(* carcer_laid: the cell a bump was answered becomes a cell laid. *)
LEMMA LayInv ==
  ASSUME IInv, NEW c \in Contexts, Lay(c)
  PROVE  Parts'
<1> DEFINE off == op[c].off
           laid == BusyCell(op[c].want, op[c].owner)
<1>1. /\ pc[c] = "lay" /\ pc' = [pc EXCEPT ![c] = "leave"]
      /\ cell' = LaidAt(cell, off, laid)
      /\ carcer_counted(op[c].owner, op[c].want, op[c].up)
      /\ UNCHANGED <<bounds, over, lane, seen, op, held, chain>>
  BY DEF Lay, Goto
<1>2. Step(c) /\ c \in Claims
  BY <1>1 DEF Step, Pass, Claims
<1>3. /\ op[c].kind = "take" /\ (op[c].up \/ c \in TempContexts)
      /\ op[c].want \in Nat \ {0} /\ op[c].owner \in Owners
  BY <1>1 DEF IInv, OpInv, OpFits, TypeInv, InPass
<1>4. laid \in CellWords /\ laid.busy
  BY <1>3 DEF BusyCell, CellWords
<1>5. /\ off \notin DOMAIN cell /\ (op[c].up => off < chain.end) /\ off \in Starts
      /\ \A d \in Claims \ {c} : op[d].off # off
      /\ Full[off] = laid /\ DOMAIN Full = Starts
      /\ \A o \in DOMAIN cell : o \in Starts /\ Full[o] = cell[o] /\ cell[o] \in CellWords
      /\ \A d \in Claims : /\ op[d].off \in Starts
                           /\ Full[op[d].off] = BusyCell(op[d].want, op[d].owner)
  BY <1>2, FullMeans DEF IInv, TierInv
<1> HIDE DEF laid, off
<1>6. /\ DOMAIN cell' = DOMAIN cell \cup {off} /\ cell'[off] = laid
      /\ \A o \in DOMAIN cell : cell'[o] = cell[o]
      /\ cell' = [o \in DOMAIN cell' |-> cell'[o]]
  BY <1>1, <1>5 DEF LaidAt
<1>7. pc'[c] = "leave" /\ \A d \in Contexts \ {c} : pc'[d] = pc[d]
  BY <1>1 DEF IInv, ControlInv
<1>8. TypeInv'
  <2>1. inUse' \in Int /\ persistentInUse' \in Int /\ ownerInUse' \in [Owners -> Int]
    BY <1>1, <1>3, CountTypes DEF IInv
  <2> QED BY <1>1, <1>6, <2>1 DEF IInv, TypeInv
<1>9. WordInv'
  <2>1. Ups' = Ups
    BY <1>1, <1>7 DEF Ups
  <2>2. Downs' = Downs
    BY <1>1, <1>7, Assumed DEF Downs
  <2>3. \A d \in Contexts :
          /\ (IF pc'[d] = "owe" /\ op'[d].up THEN Need(d)' ELSE 0)
             = (IF pc[d] = "owe" /\ op[d].up THEN Need(d) ELSE 0)
          /\ (IF pc'[d] = "owe" /\ ~op'[d].up THEN Need(d)' ELSE 0)
             = (IF pc[d] = "owe" /\ ~op[d].up THEN Need(d) ELSE 0)
    BY <1>1, <1>7 DEF Need
  <2>4. OweUp' = OweUp /\ OweDown' = OweDown
    BY <2>3 DEF OweUp, OweDown
  <2>5. \A d \in Contexts : AtWork(d)' => AtWork(d)
    BY <1>7 DEF AtWork
  <2>6. Cardinality(lane') <= Lanes
    BY <1>1 DEF IInv, WordInv
  <2> QED BY <1>1, <2>1, <2>2, <2>4, <2>5, <2>6, WordKeeps
<1>10. TierInv'
  <2>1. Claims' = Claims \ {c} /\ op' = op /\ chain' = chain
    BY <1>1, <1>7 DEF Claims
  <2>2. Starts' = Starts
    BY <2>1, <1>5, <1>6 DEF Starts, off
  <2>3. /\ \A d \in Claims' : op'[d].off \notin DOMAIN cell'
        /\ \A d, e \in Claims' : op'[d].off = op'[e].off => d = e
        /\ \A d \in Claims' : op'[d].up => op'[d].off < chain'.end
    BY <2>1, <1>5, <1>6 DEF IInv, TierInv
  <2>4. /\ DOMAIN Full' = Starts' /\ Full' = [o \in Starts' |-> Full'[o]]
        /\ \A o \in DOMAIN cell' : Full'[o] = cell'[o]
        /\ \A d \in Claims' : Full'[op'[d].off] = BusyCell(op'[d].want, op'[d].owner)
    BY <2>3, FullNext
  <2>5. \A o \in Starts : o \in DOMAIN cell' \/ \E d \in Claims' : o = op[d].off
    BY <2>1, <2>2 DEF Starts
  <2>6. \A o \in DOMAIN cell' : Full'[o] = Full[o]
    BY <2>4, <1>5, <1>6
  <2>7. \A d \in Claims' : Full'[op[d].off] = Full[op[d].off]
    BY <2>1, <2>4, <1>5
  <2>8. \A o \in Starts : Full'[o] = Full[o]
    BY <2>5, <2>6, <2>7
  <2>9. Full = [o \in Starts |-> Full[o]]
    BY DEF Full
  <2>10. Full' = Full
    BY <2>2, <2>4, <2>8, <2>9
  <2> QED BY <2>1, <2>3, <2>10 DEF IInv, TierInv
<1>11. HeldInv'
  <2>1. Mine(c)' = held[c] \cup {off} /\ Mine(c) = held[c]
    BY <1>1, <1>7 DEF Mine, off
  <2>2. \A d \in Contexts : \A o \in Mine(d) :
          /\ o \in DOMAIN cell /\ cell[o].busy /\ o # off
          /\ d \in TempContexts \/ o < chain.end
          /\ \A e \in Contexts \ {d} : o \notin Mine(e)
    BY MineMeans, <1>5
  <2>3. \A d \in Contexts \ {c} : \A o \in Mine(d) :
           o \in DOMAIN cell' /\ cell'[o].busy /\ (o < chain.end => o < chain'.end)
    BY <2>2, <1>1, <1>6
  <2>4. ASSUME NEW o \in Mine(c)'
        PROVE  /\ o \in DOMAIN cell' /\ cell'[o].busy
               /\ c \in TempContexts \/ o < chain'.end
               /\ \A d \in Contexts \ {c} : o \notin Mine(d)
    <3>1. CASE o = off
      BY <3>1, <2>2, <1>1, <1>3, <1>4, <1>5, <1>6
    <3>2. CASE o # off
      BY <3>2, <2>1, <2>2, <1>1, <1>6
    <3> QED BY <3>1, <3>2
  <2>5. op'[c].off \notin held'[c]
    BY <2>1, <2>2, <1>1 DEF off
  <2> QED BY <1>2, <2>3, <2>4, <2>5, HeldFrom
<1>12. MarkInv'
  <2>1. DOMAIN cell \subseteq DOMAIN cell' /\ op' = op
    BY <1>1, <1>6
  <2> QED BY <1>1, <1>2, <1>3, <2>1, MarkKeeps
<1> QED BY <1>8, <1>9, <1>10, <1>11, <1>12 DEF Parts

LEMMA SettleInv ==
  ASSUME IInv, NEW c \in Contexts, Settle(c)
  PROVE  Parts'
<1>1. /\ pc[c] = "wait" /\ pc' = [pc EXCEPT ![c] = "work"]
      /\ over' = [end |-> 0, top |-> 0]
      /\ seen' = {o \in DOMAIN cell : ~cell[o].busy}
      /\ UNCHANGED <<cell, inUse, persistentInUse, ownerInUse, op, held, chain>>
  BY DEF Settle, Goto, counts
<1>2. Step(c)
  BY DEF Step, Writer
<1>3. bounds' = [end |-> chain.end, top |-> chain.top] /\ WordInv'
  BY SettleRests
<1>4. bounds' \in Word
  BY <1>3, FullMeans, WordSizes DEF IInv, Word, Halves
<1>5. \A o \in DOMAIN cell : cell[o] \in CellWords /\ o \in Offsets
  BY FullMeans DEF IInv
<1>6. TypeInv'
  BY <1>1, <1>4, <1>5 DEF IInv, TypeInv
<1>7. TierInv'
  <2>1. Claims' = Claims
    BY <1>1 DEF Claims, IInv, ControlInv
  <2> QED BY <1>1, <1>5, <2>1, TierKeeps
<1>8. pc'[c] = "work"
  BY <1>1 DEF IInv, ControlInv
<1>9. HeldInv'
  <2>1. Mine(c)' = Mine(c)
    BY <1>1, <1>8 DEF Mine
  <2> QED BY <1>1, <1>2, <1>8, <2>1, HeldKeeps
<1>10. MarkInv'
  BY <1>1, <1>2, <1>8, MarkKeeps
<1> QED BY <1>3, <1>6, <1>7, <1>9, <1>10 DEF Parts

-----------------------------------------------------------------------------
(* The steps of a give and of a rewind that write one word of one cell. *)
LEMMA OneWord ==
  ASSUME IInv, NEW c \in Contexts, Step(c),
         UNCHANGED <<bounds, over, lane, chain>>,
         pc[c] \in {"claim", "free", "walk"}, pc'[c] \in {"free", "trim", "idle", "walk"},
         pc'[c] = "walk" => pc[c] = "walk",
         DOMAIN cell' = DOMAIN cell,
         \A o \in DOMAIN cell : cell'[o] \in CellWords /\ cell'[o].size = cell[o].size
  PROVE  WordInv' /\ TierInv'
<1>1. \A d \in Contexts \ {c} : pc'[d] = pc[d] /\ op'[d] = op[d]
  BY StepStands
<1>2. TierInv'
  <2>1. Claims' = Claims /\ \A d \in Claims : op'[d] = op[d]
    BY <1>1 DEF Claims
  <2> QED BY <2>1, TierKeeps
<1>3. WordInv'
  <2>1. Ups' = Ups /\ Downs \subseteq Downs'
    BY <1>1, Assumed DEF Ups, Downs
  <2>2. \A d \in Contexts :
          /\ (IF pc'[d] = "owe" /\ op'[d].up THEN Need(d)' ELSE 0)
             = (IF pc[d] = "owe" /\ op[d].up THEN Need(d) ELSE 0)
          /\ (IF pc'[d] = "owe" /\ ~op'[d].up THEN Need(d)' ELSE 0)
             = (IF pc[d] = "owe" /\ ~op[d].up THEN Need(d) ELSE 0)
    BY <1>1 DEF Need
  <2>3. OweUp' = OweUp /\ OweDown' = OweDown
    BY <2>2 DEF OweUp, OweDown
  <2>4. \A d \in Contexts : AtWork(d)' => AtWork(d)
    BY <1>1 DEF AtWork
  <2>5. Cardinality(lane') <= Lanes
    BY DEF IInv, WordInv
  <2> QED BY <2>1, <2>3, <2>4, <2>5, WordKeeps
<1> QED BY <1>2, <1>3

LEMMA FootClaimedKeeps ==
  ASSUME IInv, NEW off \in DOMAIN cell, NEW up, carcer_foot_claimed(off, up)
  PROVE  /\ DOMAIN cell' = DOMAIN cell /\ cell' = [o \in DOMAIN cell' |-> cell'[o]]
         /\ \A o \in DOMAIN cell : /\ cell'[o] \in CellWords /\ cell'[o].size = cell[o].size
                                   /\ cell'[o].busy = cell[o].busy
                                   /\ o # off => cell'[o] = cell[o]
         /\ inUse' \in Int /\ persistentInUse' \in Int /\ ownerInUse' \in [Owners -> Int]
<1>1. cell \in [DOMAIN cell -> CellWords]
  BY FullMeans DEF IInv
<1>2. cell' = [cell EXCEPT ![off].complete = TRUE]
  BY DEF carcer_foot_claimed
<1>3. cell[off].size \in Int
  BY <1>1 DEF CellWords
<1>4. carcer_uncounted(cell[off].owner, cell[off].size, up) \/ UNCHANGED counts
  BY DEF carcer_foot_claimed
<1>5. inUse' \in Int /\ persistentInUse' \in Int /\ ownerInUse' \in [Owners -> Int]
  BY <1>3, <1>4, CountTypes DEF IInv
<1>6. /\ DOMAIN cell' = DOMAIN cell /\ cell' = [o \in DOMAIN cell' |-> cell'[o]]
      /\ \A o \in DOMAIN cell : /\ cell'[o] \in CellWords /\ cell'[o].size = cell[o].size
                                /\ cell'[o].busy = cell[o].busy
                                /\ o # off => cell'[o] = cell[o]
  BY <1>1, <1>2 DEF CellWords
<1> QED BY <1>5, <1>6

LEMMA ClaimInv ==
  ASSUME IInv, NEW c \in Contexts, Claim(c)
  PROVE  Parts'
<1> DEFINE off == op[c].off
<1>1. /\ pc[c] = "claim" /\ pc' = [pc EXCEPT ![c] = "free"]
      /\ carcer_foot_claimed(off, op[c].up)
      /\ UNCHANGED <<bounds, over, lane, seen, op, held, chain>>
  BY DEF Claim, Goto
<1>2. Step(c) /\ pc'[c] = "free" /\ op[c].kind = "give"
  BY <1>1 DEF Step, GiveStep, IInv, ControlInv, OpInv, OpFits
<1>3. off \in Mine(c) /\ off \in DOMAIN cell
  <2>1. off \in Mine(c)
    BY <1>1 DEF Mine
  <2> QED BY <2>1, MineMeans
<1>4. /\ DOMAIN cell' = DOMAIN cell /\ cell' = [o \in DOMAIN cell' |-> cell'[o]]
      /\ \A o \in DOMAIN cell : /\ cell'[o] \in CellWords /\ cell'[o].size = cell[o].size
                                /\ cell'[o].busy = cell[o].busy
      /\ inUse' \in Int /\ persistentInUse' \in Int /\ ownerInUse' \in [Owners -> Int]
  BY <1>1, <1>3, FootClaimedKeeps
<1>5. TypeInv'
  BY <1>1, <1>4 DEF IInv, TypeInv
<1>6. WordInv' /\ TierInv'
  BY <1>1, <1>2, <1>4, OneWord
<1>7. HeldInv'
  <2>1. Mine(c)' = Mine(c)
    BY <1>1, <1>2 DEF Mine
  <2>2. op'[c].off \notin held'[c]
    BY <1>1 DEF IInv, HeldInv
  <2> QED BY <1>1, <1>2, <1>4, <2>1, <2>2, HeldKeeps
<1>8. MarkInv'
  BY <1>1, <1>2, <1>4, MarkKeeps
<1> QED BY <1>5, <1>6, <1>7, <1>8 DEF Parts

LEMMA FreedInv ==
  ASSUME IInv, NEW c \in Contexts, Freed(c)
  PROVE  Parts'
<1> DEFINE off == op[c].off
<1>1. /\ pc[c] = "free"
      /\ \/ pc' = [pc EXCEPT ![c] = "trim"] /\ op' = op
         \/ pc' = [pc EXCEPT ![c] = "idle"] /\ op' = [op EXCEPT ![c] = NoOp]
      /\ cell' = [cell EXCEPT ![off].busy = FALSE]
      /\ UNCHANGED <<bounds, over, lane, seen, inUse, persistentInUse, ownerInUse, held, chain>>
  BY DEF Freed, Goto, Return, counts
<1>2. Step(c) /\ pc'[c] \in {"trim", "idle"} /\ op[c].kind = "give"
  BY <1>1 DEF Step, GiveStep, IInv, ControlInv, OpInv, OpFits
<1>3. off \in Mine(c) /\ off \in DOMAIN cell /\ off \notin held[c]
  <2>1. off \in Mine(c) /\ off \notin held[c]
    BY <1>1 DEF Mine, IInv, HeldInv
  <2> QED BY <2>1, MineMeans
<1>4. op'[c].kind \in {"give", "none"}
  BY <1>1, <1>2 DEF IInv, TypeInv, NoOp
<1> HIDE DEF off
<1>5. /\ DOMAIN cell' = DOMAIN cell /\ cell' = [o \in DOMAIN cell' |-> cell'[o]]
      /\ \A o \in DOMAIN cell : /\ cell'[o] \in CellWords /\ cell'[o].size = cell[o].size
                                /\ o # off => cell'[o] = cell[o]
  <2>1. cell \in [DOMAIN cell -> CellWords]
    BY FullMeans DEF IInv
  <2> QED BY <2>1, <1>1 DEF CellWords
<1>6. TypeInv'
  BY <1>1, <1>2, <1>5, OpTypes DEF IInv, TypeInv, OpRecords
<1>7. WordInv' /\ TierInv'
  BY <1>1, <1>2, <1>5, OneWord
<1>8. HeldInv'
  <2>1. Mine(c)' = held[c] /\ held[c] \subseteq Mine(c)
    BY <1>1, <1>2 DEF Mine
  <2>2. \A d \in Contexts : \A o \in Mine(d) :
          /\ o \in DOMAIN cell /\ cell[o].busy
          /\ d \in TempContexts \/ o < chain.end
          /\ \A e \in Contexts \ {d} : o \notin Mine(e)
    BY MineMeans
  <2>3. \A d \in Contexts \ {c} : \A o \in Mine(d) : o \in DOMAIN cell' /\ cell'[o].busy
    BY <2>2, <1>3, <1>5
  <2>4. \A o \in held[c] : o \in DOMAIN cell' /\ cell'[o].busy
    BY <2>1, <2>2, <1>3, <1>5
  <2> QED BY <1>1, <1>2, <2>1, <2>2, <2>3, <2>4, HeldFrom
<1>9. MarkInv'
  BY <1>1, <1>2, <1>4, <1>5, MarkKeeps
<1> QED BY <1>6, <1>7, <1>8, <1>9 DEF Parts

LEMMA RewindStepInv ==
  ASSUME IInv, NEW c \in Contexts, RewindStep(c)
  PROVE  Parts'
<1> DEFINE off == op[c].off
           next == EndOf(op[c].off)
<1>1. /\ pc[c] = "walk" /\ pc' = pc /\ off < op[c].want
      /\ carcer_foot_claimed(off, FALSE)
      /\ op' = [op EXCEPT ![c].off = next]
      /\ UNCHANGED <<bounds, over, lane, seen, held, chain>>
  BY DEF RewindStep
<1>2. Step(c) /\ op[c].kind = "rewind" /\ AtWork(c)
  BY <1>1 DEF Step, Writer, IInv, OpInv, OpFits, AtWork
<1>3. c \in TempContexts
  BY <1>2 DEF IInv, OpInv, OpFits
<1>4. op[c].want \in Marks \cup {Size} /\ off \in Marks \cup {Size}
  BY <1>1, <1>2 DEF IInv, MarkInv
<1>5. /\ Tiled(cell, chain.end, chain.top) /\ chain.end <= chain.top
      /\ chain.end \in Nat /\ chain.top \in Nat /\ chain.top <= Size
  BY <1>2, WorkMeans DEF Tiled
<1>6. \A o \in DOMAIN cell : o \in Nat /\ o < Size
  BY <1>5, TiledEnds
<1>7. off \in DOMAIN cell /\ off >= chain.top /\ off \in Nat
  BY <1>1, <1>4, <1>6, WordSizes DEF Marks
<1>8. /\ next = Until(cell, off) /\ next \in Nat /\ off < next /\ next <= Size
      /\ next \in DOMAIN cell \cup {chain.end, Size}
  <2>1. next = Until(cell, off)
    BY DEF EndOf, Until
  <2>2. next \in Nat /\ off + Hdr < next /\ next <= Size
    BY <2>1, <1>5, <1>7, TiledEnds
  <2>3. next \in DOMAIN cell \cup {chain.end, Size}
    BY <2>1, <1>5, <1>7 DEF Tiled
  <2> HIDE DEF next, off
  <2> QED BY <2>1, <2>2, <2>3, <1>7, WordSizes
<1>9. next <= op[c].want
  <2>1. CASE op[c].want = Size
    BY <2>1, <1>8
  <2>2. CASE op[c].want \in Marks
    <3>1. op[c].want \in DOMAIN cell /\ op[c].want # off
      BY <2>2, <1>1, <1>7 DEF Marks
    <3>2. Until(cell, off) <= op[c].want \/ Until(cell, op[c].want) <= off
      BY <3>1, <1>5, <1>7 DEF Tiled
    <3>3. op[c].want \in Nat /\ Until(cell, op[c].want) \in Nat
          /\ op[c].want + Hdr < Until(cell, op[c].want)
      BY <3>1, <1>5, <1>6, TiledEnds
    <3> QED BY <3>2, <3>3, <1>1, <1>7, <1>8, WordSizes
  <2> QED BY <2>1, <2>2, <1>4
<1>10. next \in Marks \cup {Size}
  BY <1>5, <1>7, <1>8 DEF Marks
<1> HIDE DEF next, off
<1>11. /\ DOMAIN cell' = DOMAIN cell /\ cell' = [o \in DOMAIN cell' |-> cell'[o]]
       /\ \A o \in DOMAIN cell : /\ cell'[o] \in CellWords /\ cell'[o].size = cell[o].size
                                 /\ cell'[o].busy = cell[o].busy
       /\ inUse' \in Int /\ persistentInUse' \in Int /\ ownerInUse' \in [Owners -> Int]
  BY <1>1, <1>7, FootClaimedKeeps
<1>12. TypeInv'
  BY <1>1, <1>2, <1>11, OpTypes DEF IInv, TypeInv, OpRecords
<1>13. WordInv' /\ TierInv'
  BY <1>1, <1>2, <1>11, OneWord
<1>14. HeldInv'
  <2>1. Mine(c)' = Mine(c)
    BY <1>1 DEF Mine
  <2> QED BY <1>1, <1>2, <1>11, <2>1, HeldKeeps
<1>15. MarkInv'
  <2>1. Marks' = Marks
    BY <1>1, <1>11 DEF Marks
  <2>2. op'[c].off = next /\ op'[c].want = op[c].want
    BY <1>1 DEF IInv, TypeInv
  <2> QED BY <1>1, <1>2, <1>3, <1>4, <1>9, <1>10, <2>1, <2>2, MarkFrom
<1> QED BY <1>12, <1>13, <1>14, <1>15 DEF Parts

-----------------------------------------------------------------------------
(* A writer's last step. *)
LEMMA FinishesInv ==
  ASSUME IInv, NEW c \in Contexts, Finishes(c)
  PROVE  Parts'
<1>1. /\ Worked(c) /\ AtWork(c) /\ Step(c)
      /\ pc' = [pc EXCEPT ![c] = "idle"] /\ op' = [op EXCEPT ![c] = NoOp]
      /\ seen' = {} /\ UNCHANGED <<over, lane>>
  BY FinishesWorks DEF Opened, Return, Goto, Finishes, Step, Writer
<1>2. /\ over = [end |-> 0, top |-> 0]
      /\ \A d \in Contexts : ~InPass(d)
      /\ \A d \in Contexts \ {c} : ~AtWork(d)
  BY <1>1, WorkMeans
<1>3. /\ Tiled(cell', chain'.end, chain'.top) /\ cell' = [o \in DOMAIN cell' |-> cell'[o]]
      /\ bounds' = [end |-> chain'.end, top |-> chain'.top]
      /\ chain'.end \in Nat /\ chain'.top \in Nat /\ chain'.end <= chain'.top /\ chain'.top <= Size
      /\ chain' \in [end : Nat, top : Nat]
  BY <1>1 DEF Worked, Tiled
<1>4. \A d \in Contexts \ {c} :
        pc'[d] = pc[d] /\ op'[d] = op[d] /\ held'[d] = held[d] /\ Mine(d)' = Mine(d)
  BY <1>1, StepStands
<1>5. pc'[c] = "idle" /\ op'[c] = NoOp /\ op'[c].kind = "none"
  BY <1>1 DEF IInv, ControlInv, TypeInv, NoOp
<1>6. TypeInv'
  <2>1. bounds' \in Word
    BY <1>3, WordSizes DEF Word, Halves
  <2>2. held' \in [Contexts -> SUBSET Nat]
    <3>1. DOMAIN held' = Contexts /\ held' = [d \in Contexts |-> held'[d]]
      <4>1. held' = held \/ \E S : held' = [held EXCEPT ![c] = S]
        BY DEF Finishes, SpillRun, SpillUp, SpillDown, TrimUp, TrimDown,
               GrowUp, GrowDown, GrowRefused, Rewound, Answered
      <4> QED BY <4>1 DEF IInv, TypeInv
    <3>2. \A d \in Contexts : held'[d] \subseteq Nat
      BY <1>1, <1>4 DEF Worked, IInv, TypeInv
    <3> QED BY <3>1, <3>2
  <2>3. inUse' \in Int /\ persistentInUse' \in Int /\ ownerInUse' \in [Owners -> Int]
    BY FinishesCounts
  <2>4. over' \in [end : Nat, top : Nat] /\ seen' \subseteq Offsets
    BY <1>1, <1>2
  <2> QED BY <1>1, <1>3, <2>1, <2>2, <2>3, <2>4, OpTypes DEF TypeInv, OpRecords
<1>7. \A d \in Contexts : pc'[d] \notin {"bump", "owe", "lay"}
  BY <1>2, <1>4, <1>5 DEF InPass
<1>8. WordInv'
  BY <1>1, <1>2, <1>3, <1>7, WordAtRest
<1>9. TierInv'
  <2>1. Claims' = {}
    BY <1>7 DEF Claims
  <2>2. Starts' = DOMAIN cell'
    BY <2>1 DEF Starts
  <2>3. Full' = cell'
    <3>1. Full' = [o \in DOMAIN cell' |-> cell'[o]]
      BY <2>2 DEF Full
    <3> QED BY <3>1, <1>3
  <2> QED BY <1>3, <2>1, <2>3 DEF TierInv
<1>10. HeldInv'
  <2>1. Mine(c)' = held'[c]
    BY <1>5 DEF Mine
  <2>2. \A d \in Contexts \ {c} : \A o \in Mine(d) :
          o \in DOMAIN cell' /\ cell'[o].busy /\ (o < chain.end => o < chain'.end)
    BY <1>1, MineMeans DEF Worked
  <2> QED BY <1>1, <1>5, <2>1, <2>2, HeldFrom DEF Worked
<1>11. MarkInv'
  <2>1. c \in TempContexts \/ Marks \subseteq Marks'
    <3>1. \A o \in Marks : o \in Nat
      BY FullMeans DEF IInv, Marks
    <3> QED BY <3>1, <1>1, <1>3 DEF Worked, Marks
  <2> QED BY <1>1, <1>5, <2>1, MarkFrom
<1> QED BY <1>6, <1>8, <1>9, <1>10, <1>11 DEF Parts

-----------------------------------------------------------------------------
LEMMA StepParts ==
  ASSUME IInv, NEW c \in Contexts, Step(c)
  PROVE  Parts'
<1>1. \/ Turns(c) \/ BumpUp(c) \/ BumpDown(c) \/ Owe(c) \/ Lay(c) \/ Settle(c)
      \/ Claim(c) \/ Freed(c) \/ RewindStep(c) \/ Finishes(c)
  BY DEF Step, Pass, Writer, GiveStep, Turns, Finishes
<1> QED BY <1>1, TurnsInv, BumpUpInv, BumpDownInv, OweInv, LayInv, SettleInv,
           ClaimInv, FreedInv, RewindStepInv, FinishesInv

LEMMA StutterKeeps ==
  ASSUME IInv, UNCHANGED vars
  PROVE  OpInv' /\ Parts'
<1> USE DEF vars, counts, IInv
<1>1. TypeInv' /\ OpInv'
  BY DEF TypeInv, OpInv, OpFits, InPass
<1>2. WordInv'
  <2>1. Ups' = Ups /\ Downs' = Downs /\ OweUp' = OweUp /\ OweDown' = OweDown
    BY DEF Ups, Downs, OweUp, OweDown, Need
  <2>2. \A d \in Contexts : AtWork(d)' => AtWork(d)
    BY DEF AtWork
  <2>3. Cardinality(lane') <= Lanes
    BY DEF WordInv
  <2> QED BY <2>1, <2>2, <2>3, WordKeeps
<1>3. TierInv'
  <2>1. Claims' = Claims
    BY DEF Claims
  <2>2. \A o \in DOMAIN cell : cell[o] \in CellWords
    BY FullMeans
  <2> QED BY <2>1, <2>2, TierKeeps
<1>4. HeldInv'
  BY DEF HeldInv, Mine
<1>5. MarkInv'
  BY DEF MarkInv, Marks
<1> QED BY <1>1, <1>2, <1>3, <1>4, <1>5 DEF Parts

LEMMA NextStep == [Next]_vars => (\E c \in Contexts : Step(c)) \/ UNCHANGED vars
  BY DEF Next, Step

LEMMA IInvStep == IInv /\ [Next]_vars => IInv'
<1> SUFFICES ASSUME IInv, [Next]_vars PROVE IInv'
  OBVIOUS
<1>1. ControlInv'
  BY ControlStep DEF IInv
<1>2. OpInv' /\ Parts'
  <2>1. CASE UNCHANGED vars
    BY <2>1, StutterKeeps
  <2>2. ASSUME NEW c \in Contexts, Step(c) PROVE OpInv' /\ Parts'
    BY <2>2, OpStep, StepParts DEF Step
  <2> QED BY <2>1, <2>2, NextStep
<1> QED BY <1>1, <1>2 DEF IInv, Parts

LEMMA IInvHolds == Spec => []IInv
  BY InitInv, IInvStep, PTL DEF Spec

-----------------------------------------------------------------------------
LEMMA TypeFrom == IInv => TypeOK
<1> SUFFICES ASSUME IInv PROVE TypeOK
  OBVIOUS
<1> USE DEF IInv
<1>1. DOMAIN cell \subseteq Offsets
  BY FullMeans
<1>2. ASSUME NEW o \in DOMAIN cell
      PROVE  cell[o] \in [size : 1 .. Size, busy : BOOLEAN,
                          owner : Owners \cup {NoOwner}, complete : BOOLEAN]
  <2>1. o \in DOMAIN Full /\ Full[o] = cell[o]
    BY FullMeans
  <2>2. cell[o] \in CellWords /\ cell[o].size <= Size
    BY <2>1, TiledEnds DEF TierInv
  <2> QED BY <2>2, WordSizes DEF CellWords
<1>3. held \in [Contexts -> SUBSET Offsets]
  <2>1. \A c \in Contexts : held[c] \subseteq Offsets
    BY <1>1, HeldMine, MineMeans
  <2> QED BY <2>1 DEF TypeInv
<1>4. chain \in [end : 0 .. Size, top : 0 .. Size]
  BY FullMeans, WordSizes DEF TypeInv
<1>5. op \in [Contexts -> [kind : {"none", "take", "give", "grow", "rewind"},
                           up : BOOLEAN, want : Nat,
                           owner : Owners \cup Strangers \cup {NoOwner},
                           off : Nat, edge : BOOLEAN]]
  BY DEF TypeInv, Kinds
<1>6. lane \subseteq Contexts /\ waits \subseteq lane
  BY DEF ControlInv
<1> QED BY <1>1, <1>2, <1>3, <1>4, <1>5, <1>6 DEF TypeOK, TypeInv, ControlInv

(* The cells a bump was answered, with those laid. *)
LEMMA FullApart ==
  ASSUME IInv
  PROVE  /\ \A o \in Starts : InATier(o, Until(Full, o))
         /\ \A o, p \in Starts : o # p => Until(Full, o) <= p \/ Until(Full, p) <= o
         /\ \A c, d \in Claims : c # d => op[c].off # op[d].off
         /\ \A c \in Claims : op[c].off \notin DOMAIN cell
  BY FullMeans DEF IInv, TierInv, Tiled, InATier

LEMMA NoOverlapFrom == IInv => NoOverlap
<1> SUFFICES ASSUME IInv PROVE NoOverlap
  OBVIOUS
<1>1. /\ \A o \in DOMAIN cell : o \in Starts /\ Until(Full, o) = EndOf(o)
      /\ \A c \in Claims : op[c].off \in Starts /\ Until(Full, op[c].off) = ClaimEnd(c)
      /\ chain.end <= chain.top
  BY FullMeans DEF IInv
<1>2. \A o \in DOMAIN cell : InATier(o, EndOf(o))
  BY <1>1, FullApart
<1>3. \A c \in Claims : InATier(op[c].off, ClaimEnd(c))
  BY <1>1, FullApart
<1>4. \A o, p \in DOMAIN cell : o # p => EndOf(o) <= p \/ EndOf(p) <= o
  BY <1>1, FullApart
<1>5. \A c \in Claims, o \in DOMAIN cell : ClaimEnd(c) <= o \/ EndOf(o) <= op[c].off
  <2> TAKE c \in Claims, o \in DOMAIN cell
  <2>1. op[c].off # o
    BY FullApart
  <2> QED BY <2>1, <1>1, FullApart
<1>6. \A c, d \in Claims : c # d => ClaimEnd(c) <= op[d].off \/ ClaimEnd(d) <= op[c].off
  <2> SUFFICES ASSUME NEW c \in Claims, NEW d \in Claims, c # d
               PROVE  ClaimEnd(c) <= op[d].off \/ ClaimEnd(d) <= op[c].off
    OBVIOUS
  <2>1. op[c].off # op[d].off
    BY FullApart
  <2> QED BY <2>1, <1>1, FullApart
<1> QED BY <1>1, <1>2, <1>3, <1>4, <1>5, <1>6 DEF NoOverlap

LEMMA NoHoleFrom == IInv => NoHole
<1> SUFFICES ASSUME IInv PROVE NoHole
  OBVIOUS
<1>1. /\ DOMAIN Full = Starts
      /\ \A o \in DOMAIN cell : o \in Starts /\ Until(Full, o) = EndOf(o)
      /\ \A c \in Claims : op[c].off \in Starts /\ Until(Full, op[c].off) = ClaimEnd(c)
  BY FullMeans DEF IInv
<1>2. /\ 0 \in Starts \cup {chain.end} /\ chain.top \in Starts \cup {Size}
      /\ \A o \in Starts : Until(Full, o) \in Starts \cup {chain.end, Size}
  BY <1>1 DEF IInv, TierInv, Tiled
<1> QED BY <1>1, <1>2 DEF NoHole

LEMMA OverranFrom == IInv => Overran
<1> SUFFICES ASSUME IInv, \A c \in Contexts : pc[c] # "owe"
             PROVE  /\ bounds.end = chain.end + over.end
                    /\ bounds.top = (chain.top - over.top) % Half
  BY DEF Overran
<1>1. \A c \in Contexts : OweUp[c] = 0 /\ OweDown[c] = 0
  BY DEF OweUp, OweDown
<1>2. UpOwed - over.end = 0 /\ DownOwed - over.top = 0
  BY <1>1, ZeroSum DEF IInv, WordInv
<1>3. Place(bounds.top) = chain.top - over.top
  BY <1>2, WordMeans DEF IInv
<1>4. Place(bounds.top) % Half = bounds.top
  BY WordMeans, PlaceHolds DEF IInv
<1>5. (chain.top - over.top) % Half = bounds.top
  BY <1>3, <1>4
<1>6. bounds.end = chain.end + over.end
  BY <1>2, WordMeans DEF IInv
<1> QED BY <1>5, <1>6

-----------------------------------------------------------------------------
(* Every variable holds a value of its type: the bounds word two halves,    *)
(* the cells headers inside the block (struct Carcer, locus_carcerum.c).    *)
THEOREM TypeOKHolds == Spec => []TypeOK
  BY IInvHolds, TypeFrom, PTL

(* No two cells share a byte, the cell of a bump not laid yet included, and *)
(* each lies in its tier: the fetch-add of carcer_bumped is claim enough    *)
(* against every other bump and against the writer's carcer_spilled,        *)
(* carcer_trimmed_held, carcer_grown and carcer_rewound.                    *)
THEOREM NoOverlapHolds == Spec => []NoOverlap
  BY IInvHolds, NoOverlapFrom, PTL

(* The walks of carcer_swept and carcer_top_walked step from header to      *)
(* header and end at the boundary: no byte of a tier is outside a cell.     *)
THEOREM NoHoleHolds == Spec => []NoHole
  BY IInvHolds, NoHoleFrom, PTL

(* Each boundary of the word stands past its chain by exactly the overrun   *)
(* carcer_bumped left, wrapped below 0 or not, so what carcer_settled takes *)
(* off is what refused bumps put on.                                        *)
THEOREM OverranHolds == Spec => []Overran
  BY IInvHolds, OverranFrom, PTL

(* The fetch-add of a bump up leaves the temporary top's half alone: the    *)
(* read ahead of it and the lanes bound the end (carcer_attempted).         *)
THEOREM NoCarryHolds == Spec => NoCarry
<1>1. IInv /\ [Next]_vars => [\A c \in Contexts : BumpUp(c) => bounds'.top = bounds.top]_vars
  <2> SUFFICES ASSUME IInv, NEW c \in Contexts, BumpUp(c) PROVE bounds'.top = bounds.top
    OBVIOUS
  <2> QED BY WordBumpUp
<1> QED BY <1>1, IInvHolds, PTL DEF Spec, NoCarry

-----------------------------------------------------------------------------
(* The bytes on the end that are no cell's have a taker that is on its way  *)
(* to the writer's path, and takes them off there.                          *)
Debtor(c) ==
  /\ op[c].kind = "take" /\ op[c].up /\ op[c].owner \in Owners
  /\ pc[c] \in {"owe", "refused", "shut", "drain", "wait"}

DebtInv == UpOwed > 0 => \E c \in Contexts : Debtor(c)

LEMMA DebtStep ==
  ASSUME IInv, DebtInv, NEW c \in Contexts, Step(c)
  PROVE  DebtInv'
<1>1. \A d \in Contexts \ {c} : Debtor(d) => Debtor(d)'
  BY StepStands DEF Debtor
<1>2. CASE Settle(c)
  BY <1>2, SettleRests, WordMeans DEF DebtInv, UpOwed, Settle, IInv
<1>3. CASE Finishes(c)
  <2>1. bounds'.end = chain'.end /\ chain'.end \in Nat
    BY <1>3, FinishesWorks DEF Worked, Tiled
  <2> QED BY <2>1 DEF DebtInv, UpOwed
<1>4. CASE BumpUp(c)
  <2>1. CASE FitsUp(bounds, Need(c))
    <3>1. /\ bounds.end = chain.end /\ bounds'.end = bounds.end + Need(c)
          /\ chain'.end = chain.end + Need(c)
      BY <1>4, <2>1, WordBumpUp DEF BumpUp, IInv, TypeInv
    <3> QED BY <3>1, WordMeans, NeedMeans DEF DebtInv, UpOwed, IInv
  <2>2. CASE ~FitsUp(bounds, Need(c))
    <3>1. pc[c] = "bump" /\ pc' = [pc EXCEPT ![c] = "owe"] /\ op' = op /\ op[c].up
      BY <1>4, <2>2 DEF BumpUp, Goto
    <3>2. Debtor(c)'
      BY <3>1 DEF Debtor, IInv, ControlInv, OpInv, OpFits, InPass
    <3> QED BY <3>2 DEF DebtInv
  <2> QED BY <2>1, <2>2
<1>5. CASE BumpDown(c)
  <2>1. bounds'.end = bounds.end /\ chain'.end = chain.end /\ ~Debtor(c)
    BY <1>5 DEF BumpDown, BumpedDown, IInv, TypeInv, Word, Debtor
  <2> QED BY <2>1, <1>1 DEF DebtInv, UpOwed
<1>6. CASE Turns(c) \/ Owe(c) \/ Lay(c) \/ Claim(c) \/ Freed(c) \/ RewindStep(c)
  <2>1. UpOwed' = UpOwed
    BY <1>6, TurnsKeep DEF UpOwed, Owe, Lay, Claim, Freed, RewindStep
  <2>2. Debtor(c) => Debtor(c)'
    <3>1. CASE pc[c] = "owe" \/ pc[c] = "refused"
      BY <1>6, <3>1 DEF Debtor, Turns, Calls, Take, Give, Grow, Rewind, Call, Enter, Permit, Miss,
         Ahead, Leave, Refused, Shut, Drain, RewindBegin, TrimTaken, TrimSkipped, Goto, Return,
         Owe, Lay, Claim, Freed, RewindStep, IInv, ControlInv
    <3>2. CASE pc[c] \in {"shut", "drain", "wait"}
      BY <1>6, <3>2 DEF Debtor, Turns, Calls, Take, Give, Grow, Rewind, Call, Enter, Permit, Miss,
         Ahead, Leave, Refused, Shut, Drain, RewindBegin, TrimTaken, TrimSkipped, Goto, Return,
         Owe, Lay, Claim, Freed, RewindStep, IInv, ControlInv
    <3> QED BY <3>1, <3>2 DEF Debtor
  <2> QED BY <2>1, <2>2, <1>1 DEF DebtInv
<1>7. \/ Turns(c) \/ BumpUp(c) \/ BumpDown(c) \/ Owe(c) \/ Lay(c) \/ Settle(c)
      \/ Claim(c) \/ Freed(c) \/ RewindStep(c) \/ Finishes(c)
  BY DEF Step, Pass, Writer, GiveStep, Turns, Finishes
<1> QED BY <1>2, <1>3, <1>4, <1>5, <1>6, <1>7

LEMMA DebtHolds == Spec => []DebtInv
<1>1. Init => DebtInv
  <2> SUFFICES ASSUME Init PROVE UpOwed = 0
    BY DEF DebtInv
  <2>1. IInv
    BY InitInv
  <2>2. bounds.end = 0 % Half /\ chain.end = 0
    BY DEF Init, carcer_bounds
  <2> QED BY <2>2, HalfMod, WordSizes DEF UpOwed
<1>2. IInv /\ DebtInv /\ [Next]_vars => DebtInv'
  <2> SUFFICES ASSUME IInv, DebtInv, [Next]_vars PROVE DebtInv'
    OBVIOUS
  <2>1. CASE UNCHANGED vars
    BY <2>1 DEF vars, DebtInv, UpOwed, Debtor
  <2>2. ASSUME NEW c \in Contexts, Step(c) PROVE DebtInv'
    BY <2>2, DebtStep
  <2> QED BY <2>1, <2>2, NextStep
<1> QED BY <1>1, <1>2, IInvHolds, PTL DEF Spec

LEMMA RestsFrom == IInv /\ DebtInv => RestsQuiet
<1> SUFFICES ASSUME IInv, DebtInv, Quiet
             PROVE  over = [end |-> 0, top |-> 0] /\ bounds = chain
  BY DEF RestsQuiet
<1>1. UpOwed = 0
  <2>1. \A c \in Contexts : ~Debtor(c)
    BY DEF Quiet, Debtor
  <2> QED BY <2>1, WordMeans DEF DebtInv, IInv, WordInv
<1>2. DownOwed = 0
  <2>1. Downs = {}
    BY Assumed DEF Quiet, Downs
  <2>2. Cardinality(Downs) = 0
    BY <2>1, FS_EmptySet
  <2> QED BY <2>2, WordMeans, WordSizes DEF IInv, WordInv
<1>3. over.end = 0 /\ over.top = 0
  <2>1. \A c \in Contexts : OweUp[c] = 0 /\ OweDown[c] = 0
    BY DEF Quiet, OweUp, OweDown
  <2>2. UpOwed - over.end = 0 /\ DownOwed - over.top = 0
    BY <2>1, ZeroSum DEF IInv, WordInv
  <2>3. over.end \in Nat /\ over.top \in Nat
    BY DEF IInv, TypeInv
  <2>4. over.end = 0
    BY <2>2, <2>3, <1>1
  <2>5. over.top = 0
    BY <2>2, <2>3, <1>2
  <2> QED BY <2>4, <2>5
<1>4. bounds.end = chain.end
  BY <1>1, WordMeans DEF IInv
<1>5. bounds.top = chain.top
  BY <1>2, WordMeans, WordSizes DEF IInv, Place
<1>6. over \in [end : Nat, top : Nat] /\ chain \in [end : Nat, top : Nat]
      /\ bounds \in [end : Halves, top : Halves]
  BY DEF IInv, TypeInv, Word
<1> QED BY <1>3, <1>4, <1>5, <1>6

(* With no call under way the word stands exactly at the two chains: every  *)
(* refused bump's bytes went back through its own writer (carcer_settled).  *)
THEOREM RestsQuietHolds == Spec => []RestsQuiet
  BY IInvHolds, DebtHolds, RestsFrom, PTL

-----------------------------------------------------------------------------
LEMMA HeldStep ==
  ASSUME IInv, NEW e \in Contexts, Step(e), NEW c \in Contexts, NEW o \in held[c],
         pc'[c] = pc[c], op'[c] = op[c]
  PROVE  o \in DOMAIN cell' /\ cell'[o] = cell[o]
<1>1. o \in Mine(c) /\ o \in DOMAIN cell /\ cell[o].busy /\ o \in Nat
      /\ (c \in TempContexts \/ o < chain.end)
      /\ \A d \in Contexts \ {c} : o \notin Mine(d)
  BY HeldMine, MineMeans
<1>2. CASE Turns(e) \/ BumpUp(e) \/ BumpDown(e) \/ Owe(e) \/ Settle(e)
  BY <1>1, <1>2, TurnsKeep DEF BumpUp, BumpDown, Owe, Settle
<1>3. CASE Lay(e)
  <2>1. cell' = LaidAt(cell, op[e].off, BusyCell(op[e].want, op[e].owner)) /\ e \in Claims
    BY <1>3 DEF Lay, Goto, Claims
  <2>2. op[e].off \notin DOMAIN cell
    BY <2>1 DEF IInv, TierInv
  <2> QED BY <1>1, <2>1, <2>2 DEF LaidAt
<1>4. CASE Claim(e) \/ Freed(e)
  <2>1. /\ pc[e] \in {"claim", "free"} /\ pc'[e] # pc[e]
        /\ \/ cell' = [cell EXCEPT ![op[e].off].complete = TRUE]
           \/ cell' = [cell EXCEPT ![op[e].off].busy = FALSE]
    BY <1>4 DEF Claim, Freed, Goto, Return, carcer_foot_claimed, IInv, ControlInv
  <2>2. e # c /\ op[e].off \in Mine(e)
    BY <2>1 DEF Mine
  <2>3. op[e].off # o
    BY <1>1, <2>2
  <2> QED BY <1>1, <2>1, <2>3
<1>5. CASE RewindStep(e)
  <2>1. /\ pc[e] = "walk" /\ op[e].off < op[e].want /\ carcer_foot_claimed(op[e].off, FALSE)
        /\ op' = [op EXCEPT ![e].off = EndOf(@)]
    BY <1>5 DEF RewindStep
  <2>2. op[e].kind = "rewind" /\ e \in TempContexts /\ Rewinds /\ AtWork(e)
    BY <2>1 DEF IInv, OpInv, OpFits, AtWork
  <2>3. /\ op[e].off \in Marks \cup {Size} /\ op[e].want \in Marks \cup {Size}
        /\ Tiled(cell, chain.end, chain.top)
    BY <2>1, <2>2, WorkMeans DEF IInv, MarkInv
  <2>4. op[e].off \in DOMAIN cell /\ op[e].off >= chain.top /\ op[e].off \in Nat
    BY <2>1, <2>3, TiledEnds, WordSizes DEF Marks
  <2>5. op'[e].off # op[e].off
    <3>1. op'[e].off = Until(cell, op[e].off)
      BY <2>1 DEF IInv, TypeInv, EndOf, Until
    <3>2. op[e].off + Hdr < Until(cell, op[e].off) /\ Until(cell, op[e].off) \in Nat
      BY <2>3, <2>4, TiledEnds
    <3> QED BY <3>1, <3>2, <2>4, WordSizes
  <2>6. e # c
    BY <2>5
  <2>7. o # op[e].off
    <3>1. c \notin TempContexts
      BY <2>2, <2>6, SoleRewinder
    <3>2. o < chain.end /\ chain.end <= chain.top /\ chain.end \in Nat /\ chain.top \in Nat
      BY <3>1, <1>1, <2>3 DEF Tiled
    <3> QED BY <3>2, <2>4, <1>1
  <2> QED BY <1>1, <2>1, <2>4, <2>7, FootClaimedKeeps
<1>6. CASE Finishes(e)
  <2>1. Worked(e) /\ pc[e] # pc'[e]
    BY <1>6, FinishesWorks DEF Opened, Return, Goto, AtWork, IInv, ControlInv
  <2> QED BY <1>1, <2>1 DEF Worked
<1>7. \/ Turns(e) \/ BumpUp(e) \/ BumpDown(e) \/ Owe(e) \/ Lay(e) \/ Settle(e)
      \/ Claim(e) \/ Freed(e) \/ RewindStep(e) \/ Finishes(e)
  BY DEF Step, Pass, Writer, GiveStep, Turns, Finishes
<1> QED BY <1>2, <1>3, <1>4, <1>5, <1>6, <1>7

(* A cell a context was answered keeps its header, its owner word and its   *)
(* bytes through every step of the others: no sweep, split, trim, growth or *)
(* rewind of theirs touches it.                                             *)
THEOREM HeldIntactHolds == Spec => HeldIntact
<1>1. IInv /\ [Next]_vars =>
        [\A c \in Contexts : \A o \in held[c] :
           pc'[c] = pc[c] /\ op'[c] = op[c] => o \in DOMAIN cell' /\ cell'[o] = cell[o]]_vars
  <2> SUFFICES ASSUME IInv, NEW e \in Contexts, Step(e), NEW c \in Contexts, NEW o \in held[c],
                      pc'[c] = pc[c], op'[c] = op[c]
               PROVE  o \in DOMAIN cell' /\ cell'[o] = cell[o]
    BY NextStep
  <2> QED BY HeldStep
<1> QED BY <1>1, IInvHolds, PTL DEF Spec, HeldIntact
-----------------------------------------------------------------------------
(* The cellblock implements the store of its promise: every step of every  *)
(* context is one cell taken, one given, one grown, or none of these; and  *)
(* its running totals are the payload of the cells taken.                  *)

(* The cell at o counts to nobody: it went back, or was never taken.        *)
Spent(o) == cell[o].complete \/ cell[o].owner = NoOwner

(* The completion bit against the rest of a cell: a free cell is spent; a   *)
(* give has spent its cell before it frees it; a growth's owner is its      *)
(* cell's; and a rewind leaves none but spent cells behind its walk.        *)
SpentInv ==
  /\ \A o \in DOMAIN cell : ~cell[o].busy => Spent(o)
  /\ \A c \in Contexts : pc[c] = "free" => Spent(op[c].off)
  /\ \A c \in Contexts : op[c].kind = "grow" => cell[op[c].off].owner = op[c].owner
  /\ \A c \in Contexts : pc[c] = "walk" => \A o \in Marks : o < op[c].off => Spent(o)

-----------------------------------------------------------------------------
(* A step of another context leaves a cell that is held, or in a give of    *)
(* its holder's, as it is.                                                  *)
LEMMA MineStep ==
  ASSUME IInv, NEW e \in Contexts, Step(e), NEW c \in Contexts \ {e}, NEW o \in Mine(c)
  PROVE  o \in DOMAIN cell' /\ cell'[o] = cell[o]
<1>1. o \in DOMAIN cell /\ cell[o].busy /\ o \in Nat
      /\ (c \in TempContexts \/ o < chain.end)
      /\ \A d \in Contexts \ {c} : o \notin Mine(d)
  BY MineMeans
<1>2. CASE Turns(e) \/ BumpUp(e) \/ BumpDown(e) \/ Owe(e) \/ Settle(e)
  BY <1>1, <1>2, TurnsKeep DEF BumpUp, BumpDown, Owe, Settle
<1>3. CASE Lay(e)
  <2>1. cell' = LaidAt(cell, op[e].off, BusyCell(op[e].want, op[e].owner)) /\ e \in Claims
    BY <1>3 DEF Lay, Goto, Claims
  <2>2. op[e].off \notin DOMAIN cell
    BY <2>1 DEF IInv, TierInv
  <2> QED BY <1>1, <2>1, <2>2 DEF LaidAt
<1>4. CASE Claim(e) \/ Freed(e)
  <2>1. /\ pc[e] \in {"claim", "free"}
        /\ \/ cell' = [cell EXCEPT ![op[e].off].complete = TRUE]
           \/ cell' = [cell EXCEPT ![op[e].off].busy = FALSE]
    BY <1>4 DEF Claim, Freed, Goto, Return, carcer_foot_claimed
  <2>2. op[e].off \in Mine(e)
    BY <2>1 DEF Mine
  <2>3. op[e].off # o
    BY <1>1, <2>2
  <2> QED BY <1>1, <2>1, <2>3
<1>5. CASE RewindStep(e)
  <2>1. /\ pc[e] = "walk" /\ op[e].off < op[e].want /\ carcer_foot_claimed(op[e].off, FALSE)
    BY <1>5 DEF RewindStep
  <2>2. op[e].kind = "rewind" /\ e \in TempContexts /\ Rewinds /\ AtWork(e)
    BY <2>1 DEF IInv, OpInv, OpFits, AtWork
  <2>3. /\ op[e].off \in Marks \cup {Size} /\ op[e].want \in Marks \cup {Size}
        /\ Tiled(cell, chain.end, chain.top)
    BY <2>1, <2>2, WorkMeans DEF IInv, MarkInv
  <2>4. op[e].off \in DOMAIN cell /\ op[e].off >= chain.top /\ op[e].off \in Nat
    BY <2>1, <2>3, TiledEnds, WordSizes DEF Marks
  <2>5. o # op[e].off
    <3>1. c \notin TempContexts
      BY <2>2, SoleRewinder
    <3>2. o < chain.end /\ chain.end <= chain.top /\ chain.end \in Nat /\ chain.top \in Nat
      BY <3>1, <1>1, <2>3 DEF Tiled
    <3> QED BY <3>2, <2>4, <1>1
  <2> QED BY <1>1, <2>1, <2>4, <2>5, FootClaimedKeeps
<1>6. CASE Finishes(e)
  <2>1. Worked(e)
    BY <1>6, FinishesWorks
  <2> QED BY <2>1 DEF Worked
<1>7. \/ Turns(e) \/ BumpUp(e) \/ BumpDown(e) \/ Owe(e) \/ Lay(e) \/ Settle(e)
      \/ Claim(e) \/ Freed(e) \/ RewindStep(e) \/ Finishes(e)
  BY DEF Step, Pass, Writer, GiveStep, Turns, Finishes
<1> QED BY <1>2, <1>3, <1>4, <1>5, <1>6, <1>7

-----------------------------------------------------------------------------
(* What a writer's last step leaves of the cells that are busy, and what    *)
(* it lays: spills and trims keep every busy cell as it is, and lay none    *)
(* but free ones and, where they answer, one.                               *)
Kept ==
  \A o \in DOMAIN cell : cell[o].busy => o \in DOMAIN cell' /\ cell'[o] = cell[o]

New(at) ==
  \A o \in DOMAIN cell' \ at :
    (o \in DOMAIN cell /\ cell'[o] = cell[o]) \/ cell'[o].owner = NoOwner

(* What a take, or a growth, counts; and what is counted off. *)
Counts(owner, bytes) ==
  /\ inUse' = inUse + bytes
  /\ ownerInUse' = [ownerInUse EXCEPT ![owner] = @ + bytes]

Uncounts(owner, bytes) ==
  /\ inUse' = inUse - bytes
  /\ ownerInUse' = [ownerInUse EXCEPT ![owner] = @ - bytes]

Lays(c, at) ==
  /\ at \in DOMAIN cell' /\ cell'[at].busy /\ ~cell'[at].complete /\ cell'[at].owner \in Owners
  /\ at \in DOMAIN cell => ~cell[at].busy
  /\ Answered(c, at)
  /\ Counts(cell'[at].owner, cell'[at].size)

LaysNone == New({}) /\ UNCHANGED <<inUse, ownerInUse, held>>

LEMMA SweptNew ==
  ASSUME IInv, NEW c \in Contexts, AtWork(c), NEW free, ReadFree(free)
  PROVE  \A o \in DOMAIN SweptCells(free) :
           \/ o \in DOMAIN cell /\ SweptCells(free)[o] = cell[o]
           \/ SweptCells(free)[o].owner = NoOwner
<1>1. Sweepable(free)
  BY ReadSweeps
<1>2. \A o \in Busy(free) : o \in DOMAIN cell
  BY DEF Busy
<1> TAKE o \in DOMAIN SweptCells(free)
<1>3. CASE o \in Busy(free) \/ (o \in DOMAIN cell /\ o >= bounds.end)
  BY <1>1, <1>2, <1>3, SweptWords
<1>4. CASE \E r \in Runs(free) : r.at = o
  <2>1. PICK r \in Runs(free) : r.at = o
    BY <1>4
  <2>2. SweptCells(free)[o] = FreeCell(RunSize(r))
    BY <2>1, <1>1, SweptWords
  <2> QED BY <2>2 DEF FreeCell
<1> QED BY <1>1, <1>3, <1>4, SweptWords

LEMMA SpillRunLays ==
  ASSUME IInv, NEW c \in Contexts, SpillRun(c)
  PROVE  \E at : Kept /\ New({at}) /\ Lays(c, at)
<1> DEFINE want == op[c].want
<1>1. PICK free \in SUBSET DOMAIN cell :
        /\ ReadFree(free) /\ op[c].kind = "take" /\ op[c].up
        /\ Holding(free, want) # {}
        /\ pc[c] = "work"
        /\ cell' = LaidAt(SplitCells(SweptCells(free), FirstRun(free, want), want),
                          FirstRun(free, want).at,
                          BusyCell(SplitSize(FirstRun(free, want), want), op[c].owner))
        /\ Counts(op[c].owner, SplitSize(FirstRun(free, want), want))
        /\ Answered(c, FirstRun(free, want).at)
  BY DEF SpillRun, Opened, Return, Goto, carcer_counted, Counts
<1>2. AtWork(c) /\ op[c].owner \in Owners
  BY <1>1 DEF AtWork, IInv, OpInv, OpFits
<1>3. Sweepable(free)
  BY <1>1, <1>2, ReadSweeps
<1> DEFINE run == FirstRun(free, want)
           swept == SweptCells(free)
           at == run.at
           laid == BusyCell(SplitSize(run, want), op[c].owner)
           mid == carcer_end_of(run.at, want)
           rest == FreeCell(RunSize(run) - want - Hdr)
<1>4. run \in Runs(free)
  BY <1>1, <1>3, FirstRunMeans
<1>5. \A o \in DOMAIN cell : cell[o].busy =>
        o \in DOMAIN swept /\ swept[o] = cell[o] /\ o # at
  BY <1>3, <1>4, SweptKeeps
<1>6. \A o \in DOMAIN swept :
        (o \in DOMAIN cell /\ swept[o] = cell[o]) \/ swept[o].owner = NoOwner
  BY <1>1, <1>2, SweptNew
<1>7. /\ laid.busy /\ ~laid.complete /\ laid.owner \in Owners /\ rest.owner = NoOwner
      /\ Counts(laid.owner, laid.size) /\ Answered(c, at)
  <2>1. laid.owner = op[c].owner /\ laid.size = SplitSize(run, want)
    BY DEF BusyCell
  <2>2. laid.busy /\ ~laid.complete /\ rest.owner = NoOwner
    BY DEF BusyCell, FreeCell
  <2> QED BY <1>1, <1>2, <2>1, <2>2 DEF Counts
<1>8. \/ cell' = LaidAt(LaidAt(swept, mid, rest), at, laid) /\ mid \notin DOMAIN swept
      \/ cell' = LaidAt(swept, at, laid)
  <2>1. CASE Splits(run, want)
    <3>1. cell' = LaidAt(LaidAt(swept, mid, rest), at, laid)
      BY <1>1, <2>1 DEF SplitCells
    <3>2. mid \notin DOMAIN swept
      <4>1. want \in Nat \ {0}
        BY <1>1 DEF IInv, TypeInv, OpInv, OpFits
      <4>2. /\ at \in Nat /\ RunSize(run) \in Nat \ {0}
            /\ at \in DOMAIN swept /\ swept[at] = FreeCell(RunSize(run))
        BY <1>3, <1>4, RunClear, SweptWords
      <4>3. Tiled(swept, SweptEnd(free), bounds.top)
        BY <1>3, TiledSwept
      <4>4. RunSize(run) - want - Hdr \in Nat \ {0}
        BY <2>1, <4>1, <4>2, WordSizes DEF Splits
      <4>5. /\ rest \in CellWords /\ BusyCell(want, op[c].owner) \in CellWords
            /\ BusyCell(want, op[c].owner).size = want
            /\ rest.size = RunSize(run) - want - Hdr /\ swept[at].size = RunSize(run)
        BY <4>1, <4>2, <4>4, <1>2 DEF CellWords, FreeCell, BusyCell
      <4> DEFINE full == BusyCell(want, op[c].owner)
      <4>6. full.size + Hdr + rest.size = swept[at].size
        BY <4>1, <4>2, <4>5, WordSizes
      <4> HIDE DEF swept, rest, full, at
      <4> QED BY <4>2, <4>3, <4>5, <4>6, TiledSplits DEF full, at
    <3> QED BY <3>1, <3>2
  <2>2. CASE ~Splits(run, want)
    BY <1>1, <2>2 DEF SplitCells
  <2> QED BY <2>1, <2>2
<1> HIDE DEF swept, at, laid, rest, mid
<1>9. Kept
  BY <1>5, <1>8 DEF LaidAt, Kept
<1>10. New({at})
  BY <1>6, <1>7, <1>8 DEF LaidAt, New
<1>11. Lays(c, at)
  <2>1. at \in DOMAIN cell' /\ cell'[at] = laid
    BY <1>8 DEF LaidAt
  <2>2. at \in DOMAIN cell => ~cell[at].busy
    BY <1>5
  <2> QED BY <1>7, <2>1, <2>2 DEF Lays, Counts
<1> QED BY <1>9, <1>10, <1>11

LEMMA SpillUpLays ==
  ASSUME IInv, NEW c \in Contexts, SpillUp(c)
  PROVE  Kept /\ (LaysNone \/ \E at : New({at}) /\ Lays(c, at))
<1>1. PICK free \in SUBSET DOMAIN cell :
        /\ ReadFree(free) /\ op[c].kind = "take" /\ op[c].up
        /\ pc[c] = "work"
        /\ IF SweptEnd(free) <= bounds.top /\ Need(c) <= bounds.top - SweptEnd(free)
           THEN /\ cell' = LaidAt(SweptCells(free), SweptEnd(free), BusyCell(op[c].want, op[c].owner))
                /\ Counts(op[c].owner, op[c].want) /\ Answered(c, SweptEnd(free))
           ELSE cell' = SweptCells(free) /\ UNCHANGED <<inUse, ownerInUse, held>>
  BY DEF SpillUp, Opened, Return, Goto, carcer_counted, Counts, counts
<1>2. AtWork(c) /\ op[c].owner \in Owners
  BY <1>1 DEF AtWork, IInv, OpInv, OpFits
<1>3. Sweepable(free)
  BY <1>1, <1>2, ReadSweeps
<1> DEFINE swept == SweptCells(free)
           at == SweptEnd(free)
           laid == BusyCell(op[c].want, op[c].owner)
<1>4. \A o \in DOMAIN cell : cell[o].busy =>
        o \in DOMAIN swept /\ swept[o] = cell[o]
  BY <1>3, SweptKeeps
<1>5. \A o \in DOMAIN swept :
        (o \in DOMAIN cell /\ swept[o] = cell[o]) \/ swept[o].owner = NoOwner
  BY <1>1, <1>2, SweptNew
<1>6. /\ laid.busy /\ ~laid.complete /\ laid.owner \in Owners
      /\ laid.owner = op[c].owner /\ laid.size = op[c].want
  BY <1>2 DEF BusyCell
<1>7. CASE cell' = swept /\ UNCHANGED <<inUse, ownerInUse, held>>
  BY <1>4, <1>5, <1>7 DEF Kept, New, LaysNone
<1>8. CASE /\ at < bounds.top /\ cell' = LaidAt(swept, at, laid)
           /\ Counts(laid.owner, laid.size) /\ Answered(c, at)
  <2>1. at \notin DOMAIN cell \/ ~cell[at].busy
    <3>1. Tiled(swept, at, bounds.top) /\ at \in Nat /\ bounds.top \in Nat
      BY <1>3, TiledSwept, SweptEndMeans, WordMeans DEF IInv
    <3>2. \A o \in DOMAIN swept : o # at
      <4> HIDE DEF swept, at
      <4> QED BY <1>8, <3>1, TiledEnds
    <3> QED BY <3>2, <1>4
  <2> HIDE DEF swept, at, laid
  <2>2. Kept
    BY <2>1, <1>4, <1>8 DEF LaidAt, Kept
  <2>3. New({at})
    BY <1>5, <1>8 DEF LaidAt, New
  <2>4. Lays(c, at)
    <3>1. at \in DOMAIN cell' /\ cell'[at] = laid
      BY <1>8 DEF LaidAt
    <3> QED BY <2>1, <1>6, <1>8, <3>1 DEF Lays, Counts
  <2> QED BY <2>2, <2>3, <2>4
<1>9. Need(c) \in Nat /\ Need(c) > 0 /\ at \in Nat /\ bounds.top \in Nat
  BY <1>1, <1>3, NeedMeans, SweptEndMeans, WordMeans DEF IInv
<1>10. \/ cell' = swept /\ UNCHANGED <<inUse, ownerInUse, held>>
       \/ /\ at < bounds.top /\ cell' = LaidAt(swept, at, laid)
          /\ Counts(laid.owner, laid.size) /\ Answered(c, at)
  <2> HIDE DEF swept, laid
  <2> QED BY <1>1, <1>6, <1>9 DEF swept, laid, Counts
<1> HIDE DEF swept, at, laid
<1> QED BY <1>7, <1>8, <1>10

LEMMA WalkedNew ==
  ASSUME IInv, NEW c \in Contexts, AtWork(c), NEW free, ReadFree(free),
         NEW kept, kept = Only(cell, {o \in DOMAIN cell : o < bounds.end \/ o >= TopWalked(free)})
  PROVE  /\ \A o \in DOMAIN cell : cell[o].busy => o \in DOMAIN kept /\ kept[o] = cell[o]
         /\ \A o \in DOMAIN kept : o \in DOMAIN cell /\ kept[o] = cell[o]
  BY WalkedLeaves DEF Only

LEMMA SpillDownLays ==
  ASSUME IInv, NEW c \in Contexts, SpillDown(c)
  PROVE  Kept /\ (LaysNone \/ \E at : New({at}) /\ Lays(c, at))
<1>1. PICK free \in SUBSET DOMAIN cell :
        /\ ReadFree(free) /\ op[c].kind = "take" /\ ~op[c].up
        /\ pc[c] = "work"
        /\ LET kept == Only(cell, {o \in DOMAIN cell : o < bounds.end \/ o >= TopWalked(free)})
           IN  IF bounds.end <= TopWalked(free) /\ Need(c) <= TopWalked(free) - bounds.end
               THEN /\ cell' = LaidAt(kept, TopWalked(free) - Need(c),
                                      BusyCell(op[c].want, op[c].owner))
                    /\ Counts(op[c].owner, op[c].want)
                    /\ Answered(c, TopWalked(free) - Need(c))
               ELSE cell' = kept /\ UNCHANGED <<inUse, ownerInUse, held>>
  BY DEF SpillDown, Opened, Return, Goto, carcer_counted, Counts, counts
<1>2. AtWork(c) /\ op[c].owner \in Owners
  BY <1>1 DEF AtWork, IInv, OpInv, OpFits
<1> DEFINE kept == Only(cell, {o \in DOMAIN cell : o < bounds.end \/ o >= TopWalked(free)})
           top == TopWalked(free)
           at == top - Need(c)
           laid == BusyCell(op[c].want, op[c].owner)
<1>3. /\ \A o \in DOMAIN cell : cell[o].busy => o \in DOMAIN kept /\ kept[o] = cell[o]
      /\ \A o \in DOMAIN kept : o \in DOMAIN cell /\ kept[o] = cell[o]
      /\ Tiled(kept, bounds.end, top)
  <2> DEFINE k == kept
  <2>1. k = Only(cell, {o \in DOMAIN cell : o < bounds.end \/ o >= TopWalked(free)})
    OBVIOUS
  <2> HIDE DEF k
  <2> QED BY <1>1, <1>2, <2>1, WalkedNew, WalkedLeaves DEF k
<1>4. /\ laid.busy /\ ~laid.complete /\ laid.owner \in Owners
      /\ laid.owner = op[c].owner /\ laid.size = op[c].want
  BY <1>2 DEF BusyCell
<1>5. Need(c) \in Nat /\ Need(c) > 0 /\ bounds.end \in Nat /\ top \in Nat
  BY <1>1, <1>3, NeedMeans, WordMeans DEF IInv, Tiled
<1>6. CASE cell' = kept /\ UNCHANGED <<inUse, ownerInUse, held>>
  BY <1>3, <1>6 DEF Kept, New, LaysNone
<1>7. CASE /\ bounds.end <= at /\ cell' = LaidAt(kept, at, laid)
           /\ Counts(laid.owner, laid.size) /\ Answered(c, at)
  <2> HIDE DEF kept, top, laid
  <2>1. at \notin DOMAIN kept
    <3>1. at \in Nat /\ at < top
      BY <1>5, <1>7
    <3> QED BY <3>1, <1>3, <1>5, <1>7, TiledEnds
  <2> HIDE DEF at
  <2>2. Kept
    BY <2>1, <1>3, <1>7 DEF LaidAt, Kept
  <2>3. New({at})
    BY <1>3, <1>7 DEF LaidAt, New
  <2>4. Lays(c, at)
    <3>1. at \in DOMAIN cell' /\ cell'[at] = laid
      BY <1>7 DEF LaidAt
    <3>2. at \in DOMAIN cell => ~cell[at].busy
      BY <2>1, <1>3
    <3> QED BY <1>4, <1>7, <3>1, <3>2 DEF Lays, Counts
  <2> QED BY <2>2, <2>3, <2>4
<1>8. \/ cell' = kept /\ UNCHANGED <<inUse, ownerInUse, held>>
      \/ /\ bounds.end <= at /\ cell' = LaidAt(kept, at, laid)
         /\ Counts(laid.owner, laid.size) /\ Answered(c, at)
  <2> HIDE DEF kept, laid, top
  <2> QED BY <1>1, <1>4, <1>5 DEF kept, laid, top, Counts
<1> HIDE DEF kept, at, laid
<1> QED BY <1>6, <1>7, <1>8

LEMMA TrimsLay ==
  ASSUME IInv, NEW c \in Contexts, TrimUp(c) \/ TrimDown(c)
  PROVE  Kept /\ LaysNone
<1>1. PICK free \in SUBSET DOMAIN cell :
        /\ ReadFree(free) /\ pc[c] = "work"
        /\ \/ cell' = SweptCells(free)
           \/ cell' = Only(cell, {o \in DOMAIN cell : o < bounds.end \/ o >= TopWalked(free)})
        /\ UNCHANGED <<inUse, ownerInUse, held>>
  BY DEF TrimUp, TrimDown, Opened, Return, Goto, counts
<1>2. AtWork(c)
  BY <1>1 DEF AtWork
<1>3. CASE cell' = SweptCells(free)
  BY <1>1, <1>2, <1>3, ReadSweeps, SweptKeeps, SweptNew DEF Kept, New, LaysNone
<1>4. CASE cell' = Only(cell, {o \in DOMAIN cell : o < bounds.end \/ o >= TopWalked(free)})
  BY <1>1, <1>2, <1>4, WalkedNew DEF Kept, New, LaysNone
<1> QED BY <1>1, <1>3, <1>4

-----------------------------------------------------------------------------
(* The cells taken, as a function of the cells laid. *)
LiveOf(cells) == {o \in DOMAIN cells : cells[o].owner # NoOwner /\ ~cells[o].complete}

Named(cells, o) == [from |-> o, to |-> Until(cells, o), owner |-> cells[o].owner]

TakenOf(cells) == {Named(cells, o) : o \in LiveOf(cells)}

Same(cells, now, offsets) ==
  \A o \in offsets : now[o].size = cells[o].size /\ now[o].owner = cells[o].owner

(* Every cell in the block, no two on a byte. *)
LaidOut(cells) ==
  \A o \in DOMAIN cells :
    /\ o \in Nat /\ Until(cells, o) \in Nat /\ o < Until(cells, o) /\ Until(cells, o) <= Size
    /\ cells[o].owner \in Owners \cup {NoOwner} /\ cells[o].size \in Nat
    /\ \A p \in DOMAIN cells : o # p => Until(cells, o) <= p \/ Until(cells, p) <= o

LEMMA NamedApart ==
  ASSUME NEW cells, NEW now, NEW o, NEW p, Named(cells, o) = Named(now, p)
  PROVE  o = p /\ Until(cells, o) = Until(now, p)
<1>1. Named(cells, o).from = o /\ Named(now, p).from = p
      /\ Named(cells, o).to = Until(cells, o) /\ Named(now, p).to = Until(now, p)
  BY DEF Named
<1> QED BY <1>1

LEMMA SameNames ==
  ASSUME NEW cells, NEW now, NEW offsets, Same(cells, now, offsets), NEW o \in offsets
  PROVE  Named(now, o) = Named(cells, o)
  BY DEF Same, Named, Until

LEMMA StoreStays ==
  ASSUME NEW cells, NEW now, LiveOf(now) = LiveOf(cells), Same(cells, now, LiveOf(cells))
  PROVE  TakenOf(now) = TakenOf(cells)
<1>1. \A o \in LiveOf(cells) : Named(now, o) = Named(cells, o)
  BY SameNames
<1> QED BY <1>1 DEF TakenOf

LEMMA StoreGives ==
  ASSUME NEW cells, NEW now, NEW at \in LiveOf(cells),
         LiveOf(now) = LiveOf(cells) \ {at}, Same(cells, now, LiveOf(now))
  PROVE  \E x \in TakenOf(cells) : TakenOf(now) = TakenOf(cells) \ {x}
<1>1. \A o \in LiveOf(now) : Named(now, o) = Named(cells, o)
  BY SameNames
<1>2. \A o \in LiveOf(cells) : o # at => Named(cells, o) # Named(cells, at)
  BY NamedApart
<1>3. TakenOf(now) = TakenOf(cells) \ {Named(cells, at)}
  BY <1>1, <1>2 DEF TakenOf
<1> QED BY <1>3 DEF TakenOf

LEMMA StoreTakes ==
  ASSUME NEW cells, NEW now, LaidOut(now), NEW at \in LiveOf(now) \ LiveOf(cells),
         LiveOf(now) = LiveOf(cells) \cup {at}, Same(cells, now, LiveOf(cells))
  PROVE  \E x \in TakenOf(now) \ TakenOf(cells) :
           /\ Store!IsCell(x) /\ Store!ClearOf(x, TakenOf(cells))
           /\ TakenOf(now) = TakenOf(cells) \cup {x}
<1> DEFINE x == Named(now, at)
<1>1. \A o \in LiveOf(cells) : Named(now, o) = Named(cells, o)
  BY SameNames
<1>2. x \in TakenOf(now) /\ TakenOf(now) = TakenOf(cells) \cup {x}
  BY <1>1 DEF TakenOf
<1>3. x \notin TakenOf(cells)
  BY NamedApart DEF TakenOf
<1>4. Store!IsCell(x)
  BY DEF Store!IsCell, LaidOut, LiveOf, Named
<1>5. Store!ClearOf(x, TakenOf(cells))
  <2> SUFFICES ASSUME NEW o \in LiveOf(cells) PROVE Store!Apart(x, Named(cells, o))
    BY DEF Store!ClearOf, TakenOf
  <2>1. Named(cells, o) = Named(now, o) /\ o # at
    BY <1>1
  <2>2. at \in DOMAIN now /\ o \in DOMAIN now
    BY DEF LiveOf
  <2>3. Until(now, at) <= o \/ Until(now, o) <= at
    BY <2>1, <2>2 DEF LaidOut
  <2> QED BY <2>1, <2>3 DEF Store!Apart, Named
<1> QED BY <1>2, <1>3, <1>4, <1>5

(* The cell at one offset grown into one that holds all its bytes. *)
LEMMA StoreGrows ==
  ASSUME NEW cells, NEW now, LaidOut(now), LaidOut(cells),
         NEW was \in LiveOf(cells), NEW at \in LiveOf(now), at <= was,
         now[at].owner = cells[was].owner, Until(cells, was) <= Until(now, at),
         at # was \/ Until(cells, was) # Until(now, at),
         LiveOf(now) = (LiveOf(cells) \ {was}) \cup {at}, at = was \/ at \notin LiveOf(cells),
         Same(cells, now, LiveOf(cells) \ {was})
  PROVE  \E x \in TakenOf(cells) \ TakenOf(now), y \in TakenOf(now) \ TakenOf(cells) :
           /\ Store!IsCell(y) /\ y.owner = x.owner /\ y.from <= x.from /\ x.to <= y.to
           /\ Store!ClearOf(y, TakenOf(cells) \ {x})
           /\ TakenOf(now) = (TakenOf(cells) \ {x}) \cup {y}
<1> DEFINE x == Named(cells, was)
           y == Named(now, at)
<1>1. \A o \in LiveOf(cells) \ {was} : Named(now, o) = Named(cells, o)
  BY SameNames
<1>2. \A o \in LiveOf(cells) \ {was} : Named(cells, o) # x
  BY NamedApart
<1>3. TakenOf(cells) \ {x} = {Named(cells, o) : o \in LiveOf(cells) \ {was}}
  BY <1>2 DEF TakenOf
<1>4. TakenOf(now) = {Named(now, o) : o \in LiveOf(cells) \ {was}} \cup {y}
  BY DEF TakenOf
<1>5. TakenOf(now) = (TakenOf(cells) \ {x}) \cup {y}
  BY <1>1, <1>3, <1>4
<1>6. x # y
  BY NamedApart
<1>7. x \in TakenOf(cells) /\ y \in TakenOf(now)
  BY DEF TakenOf
<1>8. y \notin TakenOf(cells)
  <2>1. ASSUME NEW o \in LiveOf(cells), y = Named(cells, o) PROVE FALSE
    <3>1. o = at
      BY <2>1, NamedApart
    <3>2. at = was
      BY <3>1
    <3> QED BY <2>1, <3>1, <3>2, <1>6
  <2> QED BY <2>1 DEF TakenOf
<1>9. Store!IsCell(y) /\ y.owner = x.owner /\ y.from <= x.from /\ x.to <= y.to
  BY DEF Store!IsCell, LaidOut, LiveOf, Named
<1>10. Store!ClearOf(y, TakenOf(cells) \ {x})
  <2> SUFFICES ASSUME NEW o \in LiveOf(cells) \ {was} PROVE Store!Apart(y, Named(cells, o))
    BY <1>3 DEF Store!ClearOf
  <2>1. Named(cells, o) = Named(now, o) /\ o # at
    BY <1>1
  <2>2. at \in DOMAIN now /\ o \in DOMAIN now
    BY DEF LiveOf
  <2>3. Until(now, at) <= o \/ Until(now, o) <= at
    BY <2>1, <2>2 DEF LaidOut
  <2> QED BY <2>1, <2>3 DEF Store!Apart, Named
<1> QED BY <1>5, <1>6, <1>7, <1>8, <1>9, <1>10

-----------------------------------------------------------------------------
(* The completion bits, step by step. *)
LEMMA SpentInit == Init => SpentInv
  BY DEF Init, SpentInv, NoOp

(* A writer's last step leaves no free cell that counts to an owner. *)
LEMMA FinishesSpend ==
  ASSUME IInv, SpentInv, NEW c \in Contexts, Finishes(c)
  PROVE  \A o \in DOMAIN cell' : ~cell'[o].busy => Spent(o)'
<1> USE DEF SpentInv, Spent
<1>1. CASE SpillRun(c)
  <2>1. PICK at : New({at}) /\ Lays(c, at)
    BY <1>1, SpillRunLays
  <2> QED BY <2>1 DEF New, Lays
<1>2. CASE SpillUp(c) \/ SpillDown(c)
  <2>1. CASE LaysNone
    BY <2>1 DEF New, LaysNone
  <2>2. CASE \E at : New({at}) /\ Lays(c, at)
    BY <2>2 DEF New, Lays
  <2> QED BY <1>2, <2>1, <2>2, SpillUpLays, SpillDownLays
<1>3. CASE TrimUp(c) \/ TrimDown(c)
  BY <1>3, TrimsLay DEF New, LaysNone
<1>4. CASE GrowUp(c)
  <2>1. cell' = [cell EXCEPT ![op[c].off].size = op[c].want]
    BY <1>4 DEF GrowUp
  <2>2. \A o \in DOMAIN cell : cell[o] \in CellWords
    BY FullMeans DEF IInv
  <2> QED BY <2>1, <2>2 DEF CellWords
<1>5. CASE GrowDown(c)
  BY <1>5 DEF GrowDown, LaidAt, Only, BusyCell
<1>6. CASE GrowRefused(c)
  BY <1>6 DEF GrowRefused
<1>7. CASE Rewound(c)
  BY <1>7 DEF Rewound, Only
<1> QED BY <1>1, <1>2, <1>3, <1>4, <1>5, <1>6, <1>7 DEF Finishes

LEMMA FootClaimedSpends ==
  ASSUME IInv, NEW off \in DOMAIN cell, NEW up, carcer_foot_claimed(off, up)
  PROVE  /\ DOMAIN cell' = DOMAIN cell /\ cell'[off].complete
         /\ \A o \in DOMAIN cell : /\ Spent(o) => Spent(o)'
                                   /\ cell'[o].busy = cell[o].busy
                                   /\ cell'[o].size = cell[o].size
                                   /\ cell'[o].owner = cell[o].owner
                                   /\ o # off => cell'[o] = cell[o]
<1>1. cell' = [cell EXCEPT ![off].complete = TRUE]
  BY DEF carcer_foot_claimed
<1>2. \A o \in DOMAIN cell : cell[o] \in CellWords
  BY FullMeans DEF IInv
<1> QED BY <1>1, <1>2 DEF Spent, CellWords

(* The walk of a rewind stands at a cell, and steps to the next. *)
LEMMA WalkMeans ==
  ASSUME IInv, NEW c \in Contexts, RewindStep(c)
  PROVE  /\ pc[c] = "walk" /\ op[c].off \in DOMAIN cell /\ op[c].off \in Marks
         /\ carcer_foot_claimed(op[c].off, FALSE)
         /\ op'[c].off = EndOf(op[c].off) /\ op'[c].kind = "rewind"
         /\ UNCHANGED <<pc, chain, bounds, held>>
         /\ \A o \in Marks : o < op'[c].off => o < op[c].off \/ o = op[c].off
<1>1. /\ pc[c] = "walk" /\ op[c].off < op[c].want /\ carcer_foot_claimed(op[c].off, FALSE)
      /\ op' = [op EXCEPT ![c].off = EndOf(@)] /\ UNCHANGED <<pc, chain, bounds, held>>
  BY DEF RewindStep
<1>2. op[c].kind = "rewind" /\ AtWork(c)
  BY <1>1 DEF IInv, OpInv, OpFits, AtWork
<1>3. op'[c].off = EndOf(op[c].off) /\ op'[c].kind = "rewind"
  BY <1>1, <1>2 DEF IInv, TypeInv
<1>4. op[c].off \in Marks \cup {Size} /\ op[c].want \in Marks \cup {Size}
      /\ Tiled(cell, bounds.end, bounds.top)
  BY <1>1, <1>2, WorkMeans DEF IInv, MarkInv
<1>5. op[c].off \in DOMAIN cell /\ op[c].off \in Marks
  BY <1>1, <1>4, TiledEnds, WordSizes DEF Marks
<1>6. \A o \in Marks : o < EndOf(op[c].off) => o < op[c].off \/ o = op[c].off
  <2> SUFFICES ASSUME NEW o \in DOMAIN cell, o < EndOf(op[c].off), o # op[c].off
               PROVE  o < op[c].off
    BY DEF Marks
  <2> DEFINE off == op[c].off
  <2>1. /\ o \in Nat /\ off \in Nat /\ Until(cell, o) \in Nat /\ Until(cell, off) \in Nat
        /\ o + Hdr < Until(cell, o) /\ EndOf(off) = Until(cell, off) /\ Hdr \in Nat
    BY <1>4, <1>5, TiledEnds, WordSizes DEF EndOf, Until
  <2>2. Until(cell, o) <= off \/ Until(cell, off) <= o
    BY <1>4, <1>5 DEF Tiled
  <2> QED BY <2>1, <2>2
<1> QED BY <1>1, <1>3, <1>5, <1>6

(* The steps that change no cell. *)
Idle(c) == Turns(c) \/ BumpUp(c) \/ BumpDown(c) \/ Owe(c) \/ Settle(c)

LEMMA StepKinds ==
  ASSUME NEW c, Step(c)
  PROVE  Idle(c) \/ Lay(c) \/ Claim(c) \/ Freed(c) \/ RewindStep(c) \/ Finishes(c)
  BY DEF Idle, Step, Pass, Writer, GiveStep, Turns, Finishes

LEMMA IdleKeeps ==
  ASSUME IInv, NEW c \in Contexts, Idle(c)
  PROVE  cell' = cell
  BY TurnsKeep DEF Idle, BumpUp, BumpDown, Owe, Settle

LEMMA ClaimMeans ==
  ASSUME IInv, NEW c \in Contexts, Claim(c)
  PROVE  /\ op[c].off \in DOMAIN cell /\ carcer_foot_claimed(op[c].off, op[c].up)
         /\ pc' = [pc EXCEPT ![c] = "free"] /\ UNCHANGED <<op, chain, held>>
         /\ pc[c] = "claim"
<1>1. pc[c] = "claim"
  BY DEF Claim, Goto
<1>2. op[c].off \in Mine(c)
  BY <1>1 DEF Mine
<1> QED BY <1>1, <1>2, MineMeans DEF Claim, Goto

LEMMA FreedMeans ==
  ASSUME IInv, NEW c \in Contexts, Freed(c)
  PROVE  /\ op[c].off \in DOMAIN cell /\ DOMAIN cell' = DOMAIN cell /\ pc[c] = "free"
         /\ \A o \in DOMAIN cell : /\ Spent(o)' = Spent(o) /\ cell'[o].size = cell[o].size
                                   /\ cell'[o].owner = cell[o].owner
                                   /\ cell'[o].complete = cell[o].complete
                                   /\ o # op[c].off => cell'[o] = cell[o]
         /\ UNCHANGED <<chain, held>>
<1>1. pc[c] = "free" /\ cell' = [cell EXCEPT ![op[c].off].busy = FALSE] /\ UNCHANGED <<chain, held>>
  BY DEF Freed, Goto, Return
<1>2. op[c].off \in Mine(c)
  BY <1>1 DEF Mine
<1>3. op[c].off \in DOMAIN cell
  BY <1>2, MineMeans
<1>4. \A o \in DOMAIN cell : cell[o] \in CellWords
  BY FullMeans DEF IInv
<1> QED BY <1>1, <1>3, <1>4 DEF Spent, CellWords

(* A writer at a rewind's walk: no step of another context moves a top or   *)
(* lays a cell, and none un-spends one.                                     *)
LEMMA WalkedPast ==
  ASSUME IInv, NEW d \in Contexts, pc[d] = "walk",
         NEW c \in Contexts \ {d}, Step(c)
  PROVE  /\ chain' = chain /\ DOMAIN cell' = DOMAIN cell
         /\ \A o \in DOMAIN cell : Spent(o) => Spent(o)'
<1>1. AtWork(d) /\ ~InPass(c) /\ ~AtWork(c) /\ ~HoldsBit(c)
  BY DEF AtWork, IInv, ControlInv, HoldsBit
<1>2. pc[c] \notin {"bump", "owe", "lay", "wait", "work", "walk"}
  BY <1>1 DEF InPass, HoldsBit
<1>3. CASE Idle(c)
  <2>1. Turns(c)
    BY <1>2, <1>3 DEF Idle, BumpUp, BumpDown, Owe, Settle, Goto
  <2> QED BY <2>1, TurnsKeep DEF Spent
<1>4. CASE Claim(c)
  BY <1>4, ClaimMeans, FootClaimedSpends
<1>5. CASE Freed(c)
  BY <1>5, FreedMeans
<1>6. ~Lay(c) /\ ~RewindStep(c)
  BY <1>2 DEF Lay, RewindStep, Goto
<1>7. ~Finishes(c)
  BY <1>1, FinishesWorks
<1> QED BY <1>3, <1>4, <1>5, <1>6, <1>7, StepKinds

(* The steps into a give's free, a rewind's walk and a take's leave, and    *)
(* those a growth goes on through.                                          *)
LEMMA StepsOn ==
  ASSUME IInv, NEW c \in Contexts, Step(c)
  PROVE  /\ pc'[c] = "free" => Claim(c)
         /\ pc'[c] = "walk" => RewindBegin(c) \/ RewindStep(c)
         /\ pc'[c] = "leave" => Lay(c)
         /\ op'[c].kind = "grow" => Grow(c) \/ (Idle(c) /\ op'[c] = op[c])
<1> USE DEF Idle
<1>0. pc \in [Contexts -> Steps] /\ op \in [Contexts -> OpRecords] /\ Kinds = {"none", "take", "give", "grow", "rewind"}
  BY DEF IInv, ControlInv, TypeInv, OpRecords, Kinds
<1>1. CASE Take(c)
  <2>1. pc' = [pc EXCEPT ![c] = "enter"] /\ op'[c].kind = "take"
    BY <1>0, <1>1 DEF Take, Call, NoOp
  <2> QED BY <1>0, <2>1
<1>2. CASE Give(c)
  <2>1. pc' = [pc EXCEPT ![c] = "claim"] /\ op'[c].kind = "give"
    BY <1>0, <1>2 DEF Give, Call, NoOp
  <2> QED BY <1>0, <2>1
<1>3. CASE Grow(c)
  <2>1. pc' = [pc EXCEPT ![c] = "shut"]
    BY <1>3 DEF Grow, Call
  <2> QED BY <1>0, <1>3, <2>1
<1>4. CASE Rewind(c)
  <2>1. pc' = [pc EXCEPT ![c] = "shut"] /\ op'[c].kind = "rewind"
    BY <1>0, <1>4 DEF Rewind, Call, NoOp
  <2> QED BY <1>0, <2>1
<1>5. CASE Enter(c) \/ Permit(c) \/ Miss(c) \/ Ahead(c) \/ Owe(c) \/ Shut(c) \/ Drain(c)
           \/ Settle(c) \/ TrimTaken(c)
  <2>1. /\ \E to \in {"read", "ahead", "enter", "bump", "refused", "drain", "wait", "work"} :
             pc' = [pc EXCEPT ![c] = to]
        /\ op' = op
    BY <1>5 DEF Enter, Permit, Miss, Ahead, Owe, Shut, Drain, Settle, TrimTaken, Goto
  <2> QED BY <1>0, <1>5, <2>1 DEF Turns
<1>6. CASE Leave(c) \/ TrimSkipped(c)
  <2>1. pc' = [pc EXCEPT ![c] = "idle"] /\ op' = [op EXCEPT ![c] = NoOp]
    BY <1>6 DEF Leave, TrimSkipped, Return, Goto
  <2> QED BY <1>0, <2>1 DEF NoOp
<1>7. CASE Refused(c)
  <2>1. \/ pc' = [pc EXCEPT ![c] = "shut"] /\ op' = op
        \/ pc' = [pc EXCEPT ![c] = "idle"] /\ op' = [op EXCEPT ![c] = NoOp]
    BY <1>7 DEF Refused, Return, Goto
  <2> QED BY <1>0, <1>7, <2>1 DEF NoOp, Turns
<1>8. CASE BumpUp(c) \/ BumpDown(c)
  <2>0. /\ pc[c] = "bump"
        /\ \E to \in {"lay", "owe"} : pc' = [pc EXCEPT ![c] = to]
        /\ \/ op' = op
           \/ op' = [op EXCEPT ![c].off = bounds.end]
           \/ op' = [op EXCEPT ![c].off = bounds.top - Need(c)]
    BY <1>8 DEF BumpUp, BumpDown, Goto
  <2>1. op'[c].kind = op[c].kind
    BY <1>0, <2>0 DEF OpRecords
  <2>2. InPass(c)
    BY <2>0 DEF InPass
  <2>3. op[c].kind = "take"
    BY <2>2 DEF IInv, OpInv, OpFits
  <2> QED BY <1>0, <2>0, <2>1, <2>3
<1>9. CASE Lay(c)
  <2>1. pc[c] = "lay" /\ pc' = [pc EXCEPT ![c] = "leave"] /\ op' = op
    BY <1>9 DEF Lay, Goto
  <2>2. op[c].kind = "take"
    BY <2>1 DEF IInv, OpInv, OpFits, InPass
  <2> QED BY <1>0, <1>9, <2>1, <2>2
<1>10. CASE Claim(c)
  <2>1. pc[c] = "claim" /\ pc' = [pc EXCEPT ![c] = "free"] /\ op' = op
    BY <1>10 DEF Claim, Goto
  <2>2. op[c].kind = "give"
    BY <2>1 DEF IInv, OpInv, OpFits
  <2> QED BY <1>0, <1>10, <2>1, <2>2
<1>11. CASE Freed(c)
  <2>1. /\ pc[c] = "free" /\ \E to \in {"trim", "idle"} : pc' = [pc EXCEPT ![c] = to]
        /\ op' = op \/ op' = [op EXCEPT ![c] = NoOp]
    BY <1>11 DEF Freed, Goto, Return
  <2>2. op[c].kind = "give"
    BY <2>1 DEF IInv, OpInv, OpFits
  <2> QED BY <1>0, <2>1, <2>2 DEF NoOp
<1>12. CASE RewindBegin(c) \/ RewindStep(c)
  <2>0. op[c].kind = "rewind" \/ pc[c] = "walk"
    BY <1>12 DEF RewindBegin, RewindStep
  <2>1. op[c].kind = "rewind"
    BY <2>0 DEF IInv, OpInv, OpFits
  <2>2. \/ op' = [op EXCEPT ![c].off = bounds.top,
                           ![c].want = IF bounds.top < @ THEN @ ELSE bounds.top]
        \/ op' = [op EXCEPT ![c].off = EndOf(@)]
    BY <1>12 DEF RewindBegin, RewindStep
  <2>3. op'[c].kind = op[c].kind
    BY <1>0, <2>2 DEF OpRecords
  <2>4. pc' = [pc EXCEPT ![c] = "walk"] \/ (pc[c] = "walk" /\ pc' = pc)
    BY <1>12 DEF RewindBegin, RewindStep, Goto
  <2>5. pc'[c] = "walk"
    BY <1>0, <2>4
  <2> QED BY <1>12, <2>1, <2>3, <2>5
<1>13. CASE Finishes(c)
  <2>1. pc' = [pc EXCEPT ![c] = "idle"] /\ op' = [op EXCEPT ![c] = NoOp]
    BY <1>13, FinishesWorks DEF Opened, Return, Goto
  <2> QED BY <1>0, <2>1 DEF NoOp
<1> QED
  BY <1>1, <1>2, <1>3, <1>4, <1>5, <1>6, <1>7, <1>8, <1>9, <1>10, <1>11, <1>12, <1>13
  DEF Step, Calls, Pass, Writer, GiveStep, Finishes

LEMMA SpentStep ==
  ASSUME IInv, SpentInv, NEW c \in Contexts, Step(c)
  PROVE  SpentInv'
<1>0. Idle(c) \/ Lay(c) \/ Claim(c) \/ Freed(c) \/ RewindStep(c) \/ Finishes(c)
  BY StepKinds
<1>1. \A o \in DOMAIN cell' : ~cell'[o].busy => Spent(o)'
  <2>1. \A o \in DOMAIN cell : ~cell[o].busy => Spent(o)
    BY DEF SpentInv
  <2>2. CASE Idle(c)
    BY <2>1, <2>2, IdleKeeps DEF Spent
  <2>3. CASE Lay(c)
    BY <2>1, <2>3 DEF Lay, LaidAt, BusyCell, Spent
  <2>4. CASE Claim(c)
    BY <2>1, <2>4, ClaimMeans, FootClaimedSpends
  <2>5. CASE Freed(c)
    <3>1. Spent(op[c].off)
      BY <2>5, FreedMeans DEF SpentInv
    <3> QED BY <2>1, <2>5, <3>1, FreedMeans
  <2>6. CASE RewindStep(c)
    BY <2>1, <2>6, WalkMeans, FootClaimedSpends
  <2>7. CASE Finishes(c)
    BY <2>7, FinishesSpend
  <2> QED BY <1>0, <2>2, <2>3, <2>4, <2>5, <2>6, <2>7
<1>2. ASSUME NEW d \in Contexts, pc'[d] = "free" PROVE Spent(op[d].off)'
  <2>1. CASE d # c
    <3>1. pc[d] = "free" /\ op'[d] = op[d]
      BY <1>2, <2>1, StepStands
    <3>2. op[d].off \in Mine(d)
      BY <3>1 DEF Mine
    <3>3. cell'[op[d].off] = cell[op[d].off]
      BY <2>1, <3>2, MineStep
    <3> QED BY <3>1, <3>3 DEF SpentInv, Spent
  <2>2. CASE d = c
    <3>1. Claim(c)
      BY <1>2, <2>2, StepsOn
    <3> QED BY <2>2, <3>1, ClaimMeans, FootClaimedSpends DEF Spent
  <2> QED BY <2>1, <2>2
<1>3. ASSUME NEW d \in Contexts, op'[d].kind = "grow" PROVE cell'[op'[d].off].owner = op'[d].owner
  <2>1. CASE d # c
    <3>1. op'[d] = op[d]
      BY <2>1, StepStands
    <3>2. op[d].off \in Mine(d)
      BY <1>3, <3>1 DEF Mine, IInv, OpInv, OpFits
    <3>3. cell'[op[d].off] = cell[op[d].off]
      BY <2>1, <3>2, MineStep
    <3> QED BY <1>3, <3>1, <3>3 DEF SpentInv
  <2>2. CASE d = c
    <3>1. CASE Grow(c)
      <4>1. PICK o \in held[c], request \in Growths :
              op' = [op EXCEPT ![c] = [NoOp EXCEPT !.kind = "grow", !.off = o,
                                         !.owner = cell[o].owner, !.want = carcer_want(request)]]
        BY <3>1 DEF Grow, Call
      <4>2. op'[c].off = o /\ op'[c].owner = cell[o].owner
        BY <4>1 DEF IInv, TypeInv, NoOp
      <4>3. cell' = cell
        BY <3>1 DEF Grow
      <4> QED BY <2>2, <4>2, <4>3
    <3>2. CASE ~Grow(c)
      <4>1. Idle(c) /\ op'[c] = op[c]
        BY <1>3, <2>2, <3>2, StepsOn
      <4> QED BY <2>2, <4>1, <1>3, IdleKeeps DEF SpentInv
    <3> QED BY <3>1, <3>2
  <2> QED BY <2>1, <2>2
<1>4. ASSUME NEW d \in Contexts, pc'[d] = "walk", NEW o \in Marks', o < op'[d].off
      PROVE  Spent(o)'
  <2>1. CASE d # c
    <3>1. pc[d] = "walk" /\ op'[d] = op[d]
      BY <1>4, <2>1, StepStands
    <3>2. o \in Marks /\ o \in DOMAIN cell
      BY <1>4, <2>1, <3>1, WalkedPast DEF Marks
    <3>3. Spent(o)
      BY <1>4, <3>1, <3>2 DEF SpentInv
    <3> QED BY <2>1, <3>1, <3>2, <3>3, WalkedPast
  <2>2. CASE d = c
    <3>1. RewindBegin(c) \/ RewindStep(c)
      BY <1>4, <2>2, StepsOn
    <3>2. CASE RewindBegin(c)
      <4>1. AtWork(c) /\ op' = [op EXCEPT ![c].off = bounds.top,
                                         ![c].want = IF bounds.top < @ THEN @ ELSE bounds.top]
            /\ UNCHANGED <<cell, chain>>
        BY <3>2 DEF RewindBegin, Goto, AtWork
      <4>2. op'[c].off = chain.top
        BY <4>1, WorkMeans DEF IInv, TypeInv
      <4>3. o \in Nat /\ chain.top \in Nat /\ o >= chain.top
        BY <1>4, <4>1, FullMeans DEF Marks, IInv
      <4> QED BY <1>4, <2>2, <4>2, <4>3
    <3>3. CASE RewindStep(c)
      <4>1. /\ o \in Marks /\ o \in DOMAIN cell
            /\ o < op[c].off \/ o = op[c].off
        BY <1>4, <2>2, <3>3, WalkMeans, FootClaimedSpends DEF Marks
      <4>2. o < op[c].off => Spent(o)
        BY <4>1, <3>3, WalkMeans DEF SpentInv
      <4> QED BY <3>3, <4>1, <4>2, WalkMeans, FootClaimedSpends DEF Spent
    <3> QED BY <3>1, <3>2, <3>3
  <2> QED BY <2>1, <2>2
<1> QED BY <1>1, <1>2, <1>3, <1>4 DEF SpentInv

-----------------------------------------------------------------------------
(* What a context holds counts, but inside its own rewind what the walk has *)
(* passed; and so does a cell laid and not answered yet.                    *)
HeldLive ==
  \A c \in Contexts :
    /\ \A o \in held[c] :
         pc[c] # "walk" \/ o < chain.end \/ o >= op[c].off => ~Spent(o)
    /\ pc[c] = "leave" => ~Spent(op[c].off)

LEMMA HeldLiveInit == Init => HeldLive
  BY DEF Init, HeldLive

LEMMA IdleHolds ==
  ASSUME IInv, NEW c \in Contexts, Idle(c)
  PROVE  /\ pc[c] # "walk"
         /\ \A o \in held'[c] : o \in held[c] \/ (pc[c] = "leave" /\ o = op[c].off)
<1>1. CASE Turns(c)
  <2>1. pc[c] \notin {"walk", "claim", "free"}
    BY <1>1 DEF Turns, Calls, Take, Give, Grow, Rewind, Call, Enter, Permit, Miss, Ahead, Leave,
                Refused, Shut, Drain, RewindBegin, TrimTaken, TrimSkipped, Goto, Return
  <2>2. held'[c] \subseteq Mine(c)
    BY <1>1, TurnsHold DEF Mine
  <2> QED BY <2>1, <2>2 DEF Mine
<1>2. CASE BumpUp(c) \/ BumpDown(c) \/ Owe(c) \/ Settle(c)
  BY <1>2 DEF BumpUp, BumpDown, Owe, Settle, Goto
<1> QED BY <1>1, <1>2 DEF Idle

(* A writer's last step answers nothing spent, and spends nothing held.     *)
LEMMA FinishesHolds ==
  ASSUME IInv, SpentInv, HeldLive, NEW c \in Contexts, Finishes(c), NEW o \in held'[c]
  PROVE  ~Spent(o)'
<1> USE DEF Spent
<1>1. ASSUME pc[c] # "walk" PROVE \A p \in held[c] : ~Spent(p) /\ p \in DOMAIN cell /\ cell[p].busy
  BY <1>1, HeldMine, MineMeans DEF HeldLive
<1>2. CASE SpillRun(c) \/ SpillUp(c) \/ SpillDown(c) \/ TrimUp(c) \/ TrimDown(c)
  <2>1. pc[c] = "work"
    BY <1>2 DEF SpillRun, SpillUp, SpillDown, TrimUp, TrimDown, Opened, Return, Goto
  <2>2. Kept /\ (LaysNone \/ \E at : New({at}) /\ Lays(c, at))
    BY <1>2, SpillRunLays, SpillUpLays, SpillDownLays, TrimsLay
  <2>3. CASE LaysNone
    BY <1>1, <2>1, <2>2, <2>3 DEF LaysNone, Kept
  <2>4. ASSUME NEW at, Lays(c, at) PROVE ~Spent(o)'
    <3>1. o \in held[c] \/ o = at
      BY <2>4 DEF Lays, Answered, IInv, TypeInv
    <3> QED BY <1>1, <2>1, <2>2, <2>4, <3>1, Assumed DEF Lays, Kept
  <2> QED BY <2>2, <2>3, <2>4
<1>3. CASE GrowUp(c)
  <2>1. pc[c] = "work" /\ cell' = [cell EXCEPT ![op[c].off].size = op[c].want] /\ held' = held
    BY <1>3 DEF GrowUp, Opened, Return, Goto
  <2>2. \A p \in DOMAIN cell : cell[p] \in CellWords
    BY FullMeans DEF IInv
  <2> QED BY <1>1, <2>1, <2>2 DEF CellWords
<1>4. CASE GrowDown(c)
  <2> DEFINE at == op[c].off - Extra(c)
  <2>1. /\ pc[c] = "work" /\ op[c].kind = "grow"
        /\ cell' = LaidAt(Only(cell, Offsets \ {op[c].off}), at, BusyCell(op[c].want, op[c].owner))
        /\ held' = [held EXCEPT ![c] = (@ \ {op[c].off}) \cup {at}]
    BY <1>4 DEF GrowDown, Opened, Return, Goto
  <2>2. op[c].off \in held[c] /\ cell[op[c].off].owner = op[c].owner
    BY <2>1, GrowFinds DEF SpentInv
  <2>3. op[c].owner # NoOwner
    BY <1>1, <2>1, <2>2
  <2>4. o = at \/ (o \in held[c] /\ o # op[c].off)
    BY <2>1 DEF IInv, TypeInv
  <2>5. \A p \in DOMAIN cell : p \in Offsets
    BY FullMeans DEF IInv
  <2> HIDE DEF at
  <2> QED BY <1>1, <2>1, <2>3, <2>4, <2>5 DEF LaidAt, Only, BusyCell
<1>5. CASE GrowRefused(c)
  <2>1. pc[c] = "work" /\ UNCHANGED <<cell, held>>
    BY <1>5 DEF GrowRefused, Opened, Return, Goto
  <2> QED BY <1>1, <2>1
<1>6. CASE Rewound(c)
  <2>1. /\ pc[c] = "walk" /\ op[c].want <= op[c].off
        /\ cell' = Only(cell, {p \in DOMAIN cell : p < bounds.end \/ p >= op[c].want})
        /\ held' = [held EXCEPT ![c] = {p \in @ : p < bounds.end \/ p >= op[c].want}]
    BY <1>6 DEF Rewound, Opened, Return, Goto
  <2>2. op[c].kind = "rewind" /\ AtWork(c)
    BY <2>1 DEF IInv, OpInv, OpFits, AtWork
  <2>3. op[c].want = op[c].off /\ bounds.end = chain.end
    <3>1. op[c].off <= op[c].want
      BY <2>1, <2>2 DEF IInv, MarkInv
    <3>2. op[c].off \in Nat /\ op[c].want \in Nat
      BY DEF IInv, TypeInv
    <3> QED BY <2>1, <2>2, <3>1, <3>2, WorkMeans
  <2>4. o \in held[c] /\ (o < bounds.end \/ o >= op[c].want)
    BY <2>1 DEF IInv, TypeInv
  <2>5. ~Spent(o) /\ o \in DOMAIN cell
    BY <2>3, <2>4, HeldMine, MineMeans DEF HeldLive
  <2> QED BY <2>1, <2>4, <2>5 DEF Only
<1> QED BY <1>2, <1>3, <1>4, <1>5, <1>6 DEF Finishes

LEMMA HeldLiveStep ==
  ASSUME IInv, SpentInv, HeldLive, NEW c \in Contexts, Step(c)
  PROVE  HeldLive'
<1>1. ASSUME NEW d \in Contexts \ {c}
      PROVE  /\ \A o \in held'[d] :
                  pc'[d] # "walk" \/ o < chain'.end \/ o >= op'[d].off => ~Spent(o)'
             /\ pc'[d] = "leave" => ~Spent(op[d].off)'
  <2>1. pc'[d] = pc[d] /\ op'[d] = op[d] /\ held'[d] = held[d]
    BY StepStands
  <2>2. \A o \in Mine(d) : Spent(o)' = Spent(o)
    BY MineStep DEF Spent
  <2>3. pc[d] = "walk" => chain' = chain
    BY WalkedPast
  <2>4. pc[d] = "leave" => op[d].off \in Mine(d)
    BY DEF Mine
  <2>5. (op[d].off)' = op[d].off
    BY <2>1
  <2> QED BY <2>1, <2>2, <2>3, <2>4, <2>5, HeldMine DEF HeldLive
<1>2. ASSUME NEW o \in held'[c], pc'[c] # "walk" \/ o < chain'.end \/ o >= op'[c].off
      PROVE  ~Spent(o)'
  <2>1. \A p \in held[c] : p \in DOMAIN cell /\ p \in Nat
    BY HeldMine, MineMeans
  <2>2. CASE Idle(c)
    BY <2>2, IdleHolds, IdleKeeps DEF HeldLive, Spent
  <2>3. CASE Lay(c)
    <3>1. pc[c] = "lay" /\ cell' = LaidAt(cell, op[c].off, BusyCell(op[c].want, op[c].owner))
          /\ held' = held
      BY <2>3 DEF Lay, Goto
    <3>2. op[c].off \notin DOMAIN cell
      BY <3>1 DEF IInv, TierInv, Claims
    <3>3. o \in held[c] /\ ~Spent(o) /\ o \in DOMAIN cell
      BY <2>1, <3>1 DEF HeldLive
    <3> QED BY <3>1, <3>2, <3>3 DEF LaidAt, Spent
  <2>4. CASE Claim(c) \/ Freed(c)
    <3>1. pc[c] \in {"claim", "free"} /\ held' = held
      BY <2>4, ClaimMeans, FreedMeans
    <3>2. o \in held[c] /\ ~Spent(o) /\ o \in DOMAIN cell /\ o # op[c].off
      BY <2>1, <3>1 DEF HeldLive, IInv, HeldInv
    <3>3. cell'[o] = cell[o]
      BY <2>4, <3>2, ClaimMeans, FootClaimedSpends, FreedMeans
    <3> QED BY <3>2, <3>3 DEF Spent
  <2>5. CASE RewindStep(c)
    <3>1. /\ pc[c] = "walk" /\ pc' = pc /\ held' = held /\ chain' = chain
          /\ op[c].off \in DOMAIN cell /\ op[c].off \in Marks
          /\ op'[c].off = EndOf(op[c].off)
      BY <2>5, WalkMeans
    <3>2. /\ op[c].off \in Nat /\ EndOf(op[c].off) \in Nat /\ op[c].off < EndOf(op[c].off)
          /\ op[c].off >= chain.end /\ chain.end \in Nat
      <4>1. op[c].off \in Nat /\ chain.end \in Nat /\ chain.top \in Nat /\ chain.end <= chain.top
        BY <3>1, FullMeans DEF IInv
      <4>2. AtWork(c)
        BY <3>1 DEF AtWork
      <4>3. Until(cell, op[c].off) = EndOf(op[c].off) /\ Tiled(cell, bounds.end, bounds.top)
        BY <4>2, WorkMeans DEF Until, EndOf
      <4>4. EndOf(op[c].off) \in Nat /\ op[c].off + Hdr < EndOf(op[c].off) /\ Hdr \in Nat
        BY <3>1, <4>3, TiledEnds, WordSizes
      <4> QED BY <3>1, <4>1, <4>4 DEF Marks
    <3>3. o \in held[c] /\ o \in Nat /\ o \in DOMAIN cell /\ (o < chain.end \/ o >= EndOf(op[c].off))
      BY <1>2, <2>1, <3>1
    <3>4. o # op[c].off /\ (o < chain.end \/ o >= op[c].off)
      BY <3>2, <3>3
    <3>5. ~Spent(o)
      BY <3>3, <3>4 DEF HeldLive
    <3>6. cell'[o] = cell[o]
      BY <2>5, <3>3, <3>4, WalkMeans, FootClaimedSpends
    <3> QED BY <3>5, <3>6 DEF Spent
  <2>6. CASE Finishes(c)
    BY <2>6, FinishesHolds
  <2> QED BY <2>2, <2>3, <2>4, <2>5, <2>6, StepKinds
<1>3. ASSUME pc'[c] = "leave" PROVE ~Spent(op[c].off)'
  <2>1. Lay(c)
    BY <1>3, StepsOn
  <2>2. /\ pc[c] = "lay" /\ op' = op
        /\ cell' = LaidAt(cell, op[c].off, BusyCell(op[c].want, op[c].owner))
    BY <2>1 DEF Lay, Goto
  <2>3. op[c].owner \in Owners
    BY <2>2 DEF IInv, OpInv, OpFits, InPass
  <2> QED BY <2>2, <2>3, Assumed DEF LaidAt, BusyCell, Spent
<1> QED BY <1>1, <1>2, <1>3 DEF HeldLive

-----------------------------------------------------------------------------
(* The store of the cells, step by step. *)
LEMMA CellsLie == IInv => LaidOut(cell)
<1> SUFFICES ASSUME IInv, NEW o \in DOMAIN cell
             PROVE  /\ o \in Nat /\ Until(cell, o) \in Nat /\ o < Until(cell, o)
                    /\ Until(cell, o) <= Size
                    /\ cell[o].owner \in Owners \cup {NoOwner} /\ cell[o].size \in Nat
                    /\ \A p \in DOMAIN cell : o # p => Until(cell, o) <= p \/ Until(cell, p) <= o
  BY DEF LaidOut
<1>1. cell[o] \in CellWords /\ o \in Nat /\ EndOf(o) = Until(cell, o)
  BY FullMeans DEF IInv, Until, EndOf
<1>2. chain.end \in Nat /\ chain.top \in Nat /\ chain.end <= chain.top /\ chain.top <= Size
  BY FullMeans DEF IInv
<1>3. Until(cell, o) \in Nat /\ o < Until(cell, o)
  <2>1. Until(cell, o) = o + Hdr + cell[o].size /\ cell[o].size \in Nat \ {0} /\ Hdr \in Nat
    BY <1>1, WordSizes DEF Until, carcer_end_of, CellWords
  <2> QED BY <1>1, <2>1
<1>4. Until(cell, o) <= chain.end \/ Until(cell, o) <= Size
  BY <1>1, NoOverlapFrom DEF NoOverlap, InATier
<1>5. Until(cell, o) <= Size
  BY <1>2, <1>3, <1>4, WordSizes
<1>6. \A p \in DOMAIN cell : o # p => Until(cell, o) <= p \/ Until(cell, p) <= o
  BY NoOverlapFrom DEF NoOverlap, Until, EndOf
<1> QED BY <1>1, <1>3, <1>5, <1>6 DEF CellWords

LEMMA CellsLieOn == (IInv => LaidOut(cell))'
  BY CellsLie, PTL

LEMMA TakenMeans == Taken = TakenOf(cell)
  BY DEF Taken, TakenOf, LiveOf, Named, Until, EndOf

LEMMA TakenNext == Taken' = TakenOf(cell')
  BY DEF Taken, TakenOf, LiveOf, Named, Until, EndOf

(* What a step may do to the cells taken, said of the cells laid. *)
Stays(cells, now) == LiveOf(now) = LiveOf(cells) /\ Same(cells, now, LiveOf(cells))

Gives(cells, now, at) ==
  /\ at \in LiveOf(cells)
  /\ LiveOf(now) = LiveOf(cells) \ {at} /\ Same(cells, now, LiveOf(now))

Takes(cells, now, at) ==
  /\ at \in LiveOf(now) \ LiveOf(cells)
  /\ LiveOf(now) = LiveOf(cells) \cup {at} /\ Same(cells, now, LiveOf(cells))

Grows(cells, now, was, at) ==
  /\ was \in LiveOf(cells) /\ at \in LiveOf(now)
  /\ at <= was /\ now[at].owner = cells[was].owner /\ Until(cells, was) <= Until(now, at)
  /\ at # was \/ Until(cells, was) # Until(now, at)
  /\ LiveOf(now) = (LiveOf(cells) \ {was}) \cup {at} /\ (at = was \/ at \notin LiveOf(cells))
  /\ Same(cells, now, LiveOf(cells) \ {was})

(* A step does one of these, and counts it. *)
MovesNone == Stays(cell, cell') /\ UNCHANGED <<inUse, ownerInUse>>
MovesGive == \E at : Gives(cell, cell', at) /\ Uncounts(cell[at].owner, cell[at].size)
MovesTake == \E at : Takes(cell, cell', at) /\ Counts(cell'[at].owner, cell'[at].size)
MovesGrow == \E was, at : /\ Grows(cell, cell', was, at)
                          /\ Counts(cell[was].owner, cell'[at].size - cell[was].size)

Moves == MovesNone \/ MovesGive \/ MovesTake \/ MovesGrow

LEMMA StoreMoves ==
  ASSUME IInv, IInv', Moves
  PROVE  Store!StoreNext \/ UNCHANGED Taken
<1>1. LaidOut(cell) /\ LaidOut(cell')
  BY CellsLie, CellsLieOn DEF LaidOut, Until
<1>2. CASE MovesNone
  <2>1. TakenOf(cell') = TakenOf(cell)
    BY <1>2, StoreStays DEF MovesNone, Stays
  <2> QED BY <2>1, TakenMeans, TakenNext
<1>3. CASE MovesGive
  <2>1. \E x \in TakenOf(cell) : TakenOf(cell') = TakenOf(cell) \ {x}
    BY <1>3, StoreGives DEF MovesGive, Gives
  <2> QED BY <2>1, TakenMeans, TakenNext DEF Store!StoreNext, Store!GiveCell
<1>4. CASE MovesTake
  <2>1. \E x \in TakenOf(cell') \ TakenOf(cell) :
           /\ Store!IsCell(x) /\ Store!ClearOf(x, TakenOf(cell))
           /\ TakenOf(cell') = TakenOf(cell) \cup {x}
    BY <1>1, <1>4, StoreTakes DEF MovesTake, Takes
  <2> QED BY <2>1, TakenMeans, TakenNext DEF Store!StoreNext, Store!TakeCell
<1>5. CASE MovesGrow
  <2>1. \E x \in TakenOf(cell) \ TakenOf(cell'), y \in TakenOf(cell') \ TakenOf(cell) :
           /\ Store!IsCell(y) /\ y.owner = x.owner /\ y.from <= x.from /\ x.to <= y.to
           /\ Store!ClearOf(y, TakenOf(cell) \ {x})
           /\ TakenOf(cell') = (TakenOf(cell) \ {x}) \cup {y}
    BY <1>1, <1>5, StoreGrows DEF MovesGrow, Grows
  <2> QED BY <2>1, TakenMeans, TakenNext DEF Store!StoreNext, Store!GrowCell
<1> QED BY <1>2, <1>3, <1>4, <1>5 DEF Moves

(* A cell whose completion bit is set goes from the store, and no other. *)
LEMMA ClaimedGives ==
  ASSUME IInv, NEW off \in DOMAIN cell, NEW up, carcer_foot_claimed(off, up)
  PROVE  Moves
<1>1. /\ DOMAIN cell' = DOMAIN cell /\ cell'[off].complete
      /\ cell'[off].size = cell[off].size /\ cell'[off].owner = cell[off].owner
      /\ \A o \in DOMAIN cell : o # off => cell'[o] = cell[o]
  BY FootClaimedSpends
<1>2. LiveOf(cell') = LiveOf(cell) \ {off} /\ \A offsets : Same(cell, cell', offsets \cap DOMAIN cell)
  BY <1>1 DEF LiveOf, Same
<1>3. LiveOf(cell) \subseteq DOMAIN cell
  BY DEF LiveOf
<1>4. Same(cell, cell', LiveOf(cell)) /\ Same(cell, cell', LiveOf(cell'))
  BY <1>2, <1>3 DEF Same
<1>5. CASE off \in LiveOf(cell)
  <2>1. Uncounts(cell[off].owner, cell[off].size)
    BY <1>5 DEF carcer_foot_claimed, carcer_uncounted, LiveOf, Uncounts
  <2> QED BY <1>2, <1>4, <1>5, <2>1 DEF Moves, MovesGive, Gives
<1>6. CASE off \notin LiveOf(cell)
  <2>1. UNCHANGED <<inUse, ownerInUse>>
    BY <1>6 DEF carcer_foot_claimed, counts, LiveOf
  <2> QED BY <1>2, <1>4, <1>6, <2>1 DEF Moves, MovesNone, Stays
<1> QED BY <1>5, <1>6

(* What keeps every busy cell and lays none but ownerless ones moves        *)
(* nothing in the store; one more cell laid is one taken.                   *)
LEMMA SpillMoves ==
  ASSUME IInv, SpentInv, NEW c \in Contexts, Kept,
         LaysNone \/ \E at : New({at}) /\ Lays(c, at)
  PROVE  Moves
<1>1. \A o \in LiveOf(cell) : o \in DOMAIN cell /\ cell[o].busy
  BY DEF SpentInv, Spent, LiveOf
<1>2. \A o \in LiveOf(cell) : o \in DOMAIN cell' /\ cell'[o] = cell[o]
  BY <1>1 DEF Kept
<1>3. Same(cell, cell', LiveOf(cell)) /\ LiveOf(cell) \subseteq LiveOf(cell')
  BY <1>2 DEF Same, LiveOf
<1>4. CASE LaysNone
  <2>1. LiveOf(cell') \subseteq LiveOf(cell)
    BY <1>4 DEF LaysNone, New, LiveOf
  <2> QED BY <1>3, <1>4, <2>1 DEF LaysNone, Moves, MovesNone, Stays
<1>5. ASSUME NEW at, New({at}), Lays(c, at) PROVE Moves
  <2>1. at \in LiveOf(cell')
    BY <1>5, Assumed DEF Lays, LiveOf
  <2>2. at \notin LiveOf(cell)
    BY <1>5, <1>1 DEF Lays
  <2>3. LiveOf(cell') \subseteq LiveOf(cell) \cup {at}
    BY <1>5 DEF New, LiveOf
  <2>4. LiveOf(cell') = LiveOf(cell) \cup {at}
    BY <1>3, <2>1, <2>3
  <2> QED BY <1>3, <1>5, <2>1, <2>2, <2>4 DEF Lays, Moves, MovesTake, Takes
<1> QED BY <1>4, <1>5

LEMMA GrowUpMoves ==
  ASSUME IInv, SpentInv, HeldLive, NEW c \in Contexts, GrowUp(c)
  PROVE  Moves
<1> DEFINE off == op[c].off
<1>1. /\ pc[c] = "work" /\ op[c].kind = "grow" /\ CanGrow(c)
      /\ cell' = [cell EXCEPT ![off].size = op[c].want]
      /\ Counts(op[c].owner, Extra(c))
  BY DEF GrowUp, Opened, Return, Goto, carcer_counted, Counts
<1>2. /\ off \in DOMAIN cell /\ off \in Nat /\ cell[off] \in CellWords
      /\ op[c].want \in Nat /\ Extra(c) = op[c].want - cell[off].size
  BY <1>1, GrowFinds
<1>3. cell[off].size \in Nat /\ cell[off].size < op[c].want
  <2>1. cell[off].size \in Nat /\ Extra(c) > 0
    BY <1>1, <1>2 DEF CanGrow, CellWords
  <2> QED BY <1>2, <2>1
<1>4. /\ DOMAIN cell' = DOMAIN cell
      /\ \A o \in DOMAIN cell : o # off => cell'[o] = cell[o]
      /\ cell'[off].size = op[c].want
      /\ cell'[off].owner = cell[off].owner /\ cell'[off].complete = cell[off].complete
  BY <1>1, <1>2 DEF CellWords
<1>5. LiveOf(cell') = LiveOf(cell)
  BY <1>4 DEF LiveOf
<1>6. Same(cell, cell', LiveOf(cell) \ {off})
  BY <1>4 DEF Same, LiveOf
<1>7. /\ Until(cell, off) = off + Hdr + cell[off].size
      /\ Until(cell', off) = off + Hdr + op[c].want /\ Hdr \in Nat
  BY <1>4, WordSizes DEF Until, carcer_end_of
<1>8. off <= off /\ Until(cell, off) <= Until(cell', off) /\ Until(cell, off) # Until(cell', off)
  BY <1>2, <1>3, <1>7
<1>9. off \in LiveOf(cell) /\ cell[off].owner = op[c].owner
  BY <1>1, GrowFinds DEF SpentInv, HeldLive, Spent, LiveOf
<1> HIDE DEF off
<1>10. LiveOf(cell') = (LiveOf(cell) \ {off}) \cup {off}
  BY <1>5, <1>9
<1>11. Counts(cell[off].owner, cell'[off].size - cell[off].size)
  BY <1>1, <1>2, <1>4, <1>9
<1> QED BY <1>4, <1>5, <1>6, <1>8, <1>9, <1>10, <1>11 DEF Moves, MovesGrow, Grows

LEMMA GrowDownMoves ==
  ASSUME IInv, SpentInv, HeldLive, NEW c \in Contexts, GrowDown(c)
  PROVE  Moves
<1> DEFINE off == op[c].off
           at == off - Extra(c)
           laid == BusyCell(op[c].want, op[c].owner)
<1>1. /\ pc[c] = "work" /\ op[c].kind = "grow" /\ off >= bounds.end /\ CanGrow(c)
      /\ cell' = LaidAt(Only(cell, Offsets \ {off}), at, laid)
      /\ Counts(op[c].owner, Extra(c))
  BY DEF GrowDown, Opened, Return, Goto, carcer_counted, Counts
<1>2. /\ AtWork(c) /\ off \in DOMAIN cell /\ cell[off] \in CellWords /\ cell[off].owner = op[c].owner
      /\ op[c].want \in Nat /\ off \in Nat /\ op[c].owner \in Owners \cup {NoOwner}
      /\ Extra(c) \in Int /\ Extra(c) = op[c].want - cell[off].size
  BY <1>1, GrowFinds DEF SpentInv
<1>3. /\ Tiled(cell, bounds.end, bounds.top)
      /\ bounds.end \in Nat /\ bounds.top \in Nat
  BY <1>2, WorkMeans DEF Tiled
<1>4. off = bounds.top /\ bounds.end <= bounds.top
      /\ Extra(c) > 0 /\ Extra(c) <= bounds.top - bounds.end
  BY <1>1, <1>2, <1>3 DEF CanGrow
<1>5. laid \in CellWords /\ laid.size = op[c].want /\ cell[off].size \in Nat
      /\ op[c].want > cell[off].size /\ laid.owner = op[c].owner /\ ~laid.complete
  <2>1. cell[off].size \in Nat
    BY <1>2 DEF CellWords
  <2>2. op[c].want > cell[off].size /\ op[c].want > 0
    BY <2>1, <1>2, <1>4
  <2> QED BY <2>1, <2>2, <1>2 DEF CellWords, BusyCell
<1>6. /\ at \in Nat /\ at = bounds.top - (laid.size - cell[bounds.top].size) /\ bounds.end <= at
      /\ at < off
  <2>1. at \in Nat /\ bounds.end <= at /\ at < off
    BY <1>2, <1>3, <1>4
  <2>2. at = bounds.top - (laid.size - cell[bounds.top].size)
    BY <1>2, <1>4, <1>5
  <2> QED BY <2>1, <2>2
<1>7. /\ Until(cell, off) = off + Hdr + cell[off].size /\ at = off - (op[c].want - cell[off].size)
      /\ Hdr \in Nat
  BY <1>2, WordSizes DEF Until, carcer_end_of
<1>8. off \in LiveOf(cell) /\ op[c].owner # NoOwner
  BY <1>1, GrowFinds DEF SpentInv, HeldLive, Spent, LiveOf
<1> HIDE DEF laid, at, off
<1>9. at \notin DOMAIN cell
  BY <1>1, <1>2, <1>3, <1>4, <1>5, <1>6, TiledGrowsDown
<1>10. \A o \in DOMAIN cell : o \in Offsets
  BY FullMeans DEF IInv
<1>11. /\ DOMAIN cell' = (DOMAIN cell \ {off}) \cup {at} /\ cell'[at] = laid
       /\ \A o \in DOMAIN cell \ {off} : cell'[o] = cell[o]
  BY <1>1, <1>9, <1>10 DEF LaidAt, Only
<1>12. Until(cell', at) = Until(cell, off)
  <2>1. Until(cell', at) = at + Hdr + op[c].want
    BY <1>5, <1>11 DEF Until, carcer_end_of
  <2> QED BY <2>1, <1>2, <1>5, <1>7
<1>13. /\ \A o : o \in LiveOf(cell) /\ o # off => o \in LiveOf(cell') /\ cell'[o] = cell[o]
       /\ \A o : o \in LiveOf(cell') /\ o # at => o \in LiveOf(cell) /\ o # off
       /\ at \notin LiveOf(cell) /\ off \notin LiveOf(cell') /\ at \in LiveOf(cell')
  BY <1>5, <1>6, <1>8, <1>9, <1>11 DEF LiveOf
<1>14. LiveOf(cell') = (LiveOf(cell) \ {off}) \cup {at} /\ Same(cell, cell', LiveOf(cell) \ {off})
  BY <1>8, <1>13 DEF Same
<1>15. at <= off /\ at # off /\ Until(cell, off) <= Until(cell', at)
  BY <1>2, <1>5, <1>6, <1>7, <1>12
<1>16. cell'[at].owner = cell[off].owner /\ Counts(cell[off].owner, cell'[at].size - cell[off].size)
  BY <1>1, <1>2, <1>5, <1>11
<1> QED BY <1>8, <1>13, <1>14, <1>15, <1>16 DEF Moves, MovesGrow, Grows

(* A rewind drops spent cells alone. *)
LEMMA RewoundMoves ==
  ASSUME IInv, SpentInv, NEW c \in Contexts, Rewound(c)
  PROVE  Moves
<1>1. /\ pc[c] = "walk" /\ op[c].want <= op[c].off
      /\ cell' = Only(cell, {o \in DOMAIN cell : o < bounds.end \/ o >= op[c].want})
      /\ UNCHANGED <<inUse, ownerInUse>>
  BY DEF Rewound, Opened, Return, Goto, counts
<1>2. /\ Tiled(cell, bounds.end, bounds.top) /\ bounds.end = chain.end /\ bounds.top = chain.top
      /\ op[c].want \in Nat /\ op[c].off \in Nat
  BY <1>1, WorkMeans DEF AtWork, IInv, TypeInv
<1>3. ASSUME NEW o \in DOMAIN cell, ~(o < bounds.end \/ o >= op[c].want) PROVE Spent(o)
  <2>1. o \in Nat /\ Until(cell, o) \in Nat /\ o < Until(cell, o)
    BY CellsLie DEF LaidOut
  <2>2. bounds.end \in Nat /\ bounds.top \in Nat
    BY <1>2 DEF Tiled
  <2>3. Until(cell, o) <= bounds.end \/ bounds.top <= o
    BY <1>2 DEF Tiled
  <2>4. o >= chain.top /\ o < op[c].off
    BY <1>1, <1>2, <1>3, <2>1, <2>2, <2>3
  <2> QED BY <1>1, <2>4 DEF SpentInv, Marks
<1>4. \A o \in LiveOf(cell) : o \in DOMAIN cell' /\ cell'[o] = cell[o]
  BY <1>1, <1>3 DEF Only, LiveOf, Spent
<1>5. \A o \in DOMAIN cell' : o \in DOMAIN cell /\ cell'[o] = cell[o]
  BY <1>1 DEF Only
<1> QED BY <1>1, <1>4, <1>5 DEF Moves, MovesNone, Stays, Same, LiveOf

LEMMA IdleCounts ==
  ASSUME IInv, NEW c \in Contexts, Idle(c)
  PROVE  UNCHANGED <<inUse, ownerInUse>>
  BY TurnsKeep DEF Idle, BumpUp, BumpDown, Owe, Settle, counts

LEMMA StoreStep ==
  ASSUME IInv, SpentInv, HeldLive, NEW c \in Contexts, Step(c)
  PROVE  Moves
<1>1. CASE Idle(c)
  BY <1>1, IdleKeeps, IdleCounts DEF Moves, MovesNone, Stays, Same
<1>2. CASE Lay(c)
  <2>1. /\ cell' = LaidAt(cell, op[c].off, BusyCell(op[c].want, op[c].owner))
        /\ pc[c] = "lay"
        /\ Counts(op[c].owner, op[c].want)
    BY <1>2 DEF Lay, Goto, carcer_counted, Counts
  <2>2. op[c].off \notin DOMAIN cell
    BY <2>1 DEF IInv, TierInv, Claims
  <2>3. op[c].owner \in Owners
    BY <2>1 DEF IInv, OpInv, OpFits, InPass
  <2>4. \A o \in DOMAIN cell : cell'[o] = cell[o]
    BY <2>1, <2>2 DEF LaidAt
  <2>5. /\ DOMAIN cell' = DOMAIN cell \cup {op[c].off}
        /\ cell'[op[c].off].owner # NoOwner /\ ~cell'[op[c].off].complete
        /\ cell'[op[c].off].owner = op[c].owner /\ cell'[op[c].off].size = op[c].want
    BY <2>1, <2>3, Assumed DEF LaidAt, BusyCell
  <2>6. LiveOf(cell') = LiveOf(cell) \cup {op[c].off} /\ op[c].off \notin LiveOf(cell)
    BY <2>2, <2>4, <2>5 DEF LiveOf
  <2>7. Same(cell, cell', LiveOf(cell))
    BY <2>4 DEF Same, LiveOf
  <2> QED BY <2>1, <2>5, <2>6, <2>7 DEF Moves, MovesTake, Takes
<1>3. CASE Claim(c)
  BY <1>3, ClaimMeans, ClaimedGives
<1>4. CASE Freed(c)
  <2>1. /\ DOMAIN cell' = DOMAIN cell
        /\ \A o \in DOMAIN cell : /\ cell'[o].size = cell[o].size /\ cell'[o].owner = cell[o].owner
                                  /\ cell'[o].complete = cell[o].complete
        /\ UNCHANGED <<inUse, ownerInUse>>
    BY <1>4, FreedMeans DEF Freed, counts
  <2> QED BY <2>1 DEF Moves, MovesNone, Stays, Same, LiveOf
<1>5. CASE RewindStep(c)
  BY <1>5, WalkMeans, ClaimedGives
<1>6. CASE SpillRun(c) \/ SpillUp(c) \/ SpillDown(c) \/ TrimUp(c) \/ TrimDown(c)
  <2>1. Kept /\ (LaysNone \/ \E at : New({at}) /\ Lays(c, at))
    BY <1>6, SpillRunLays, SpillUpLays, SpillDownLays, TrimsLay
  <2> QED BY <2>1, SpillMoves
<1>7. CASE GrowUp(c)
  BY <1>7, GrowUpMoves
<1>8. CASE GrowDown(c)
  BY <1>8, GrowDownMoves
<1>9. CASE GrowRefused(c)
  BY <1>9 DEF GrowRefused, counts, Moves, MovesNone, Stays, Same
<1>10. CASE Rewound(c)
  BY <1>10, RewoundMoves
<1> QED
  BY <1>1, <1>2, <1>3, <1>4, <1>5, <1>6, <1>7, <1>8, <1>9, <1>10, StepKinds DEF Finishes

-----------------------------------------------------------------------------
(* The totals: the sum, over the block, of what each cell taken weighs to   *)
(* the owners asked about.                                                  *)
(* Of some subsets of a finite set, one is so small that none of them is it *)
(* with an element less.                                                    *)
LEMMA SmallestSet ==
  ASSUME NEW S, IsFiniteSet(S), NEW Some, Some \subseteq SUBSET S, Some # {}
  PROVE  \E A \in Some : \A x \in A : A \ {x} \notin Some
<1> DEFINE Sizes == {Cardinality(A) : A \in Some}
<1>1. \A A \in Some : IsFiniteSet(A) /\ Cardinality(A) \in Nat
  BY FS_Subset, FS_CardinalityType
<1>2. Sizes \subseteq Nat /\ Sizes # {}
  BY <1>1
<1>3. PICK least \in Sizes : \A k \in Sizes : least <= k
  BY <1>2, LeastExists
<1>4. PICK A \in Some : least = Cardinality(A)
  BY <1>3
<1>5. \A B \in Some : Cardinality(B) \in Sizes
  OBVIOUS
<1> HIDE DEF Sizes
<1>6. ASSUME NEW x \in A, A \ {x} \in Some PROVE FALSE
  <2>1. Cardinality(A \ {x}) = Cardinality(A) - 1
    BY <1>1, FS_RemoveElement
  <2>2. Cardinality(A) <= Cardinality(A \ {x})
    BY <1>3, <1>4, <1>5, <1>6
  <2> QED BY <1>1, <2>1, <2>2
<1> QED BY <1>6

(* The sizes of the cells of C, added as MapThenSumSet adds them. *)
Folded(cells, C) ==
  LET folds == CHOOSE g : g =
        [A \in SUBSET C |->
           IF A = {} THEN 0
           ELSE cells[CHOOSE x \in A : TRUE].size + g[A \ {CHOOSE x \in A : TRUE}]]
  IN  folds[C]

(* A fold over the elements that weigh is the sum of all the weights: the   *)
(* smallest set of elements on which the two would differ loses one of its  *)
(* elements, and differs still.                                             *)
LEMMA FoldIsSum ==
  ASSUME NEW cells, NEW S, IsFiniteSet(S), NEW C \in SUBSET S, NEW n,
         NEW W \in [S -> Nat], SumIs(S, W, n),
         \A o \in S : W[o] = IF o \in C THEN cells[o].size ELSE 0
  PROVE  Folded(cells, C) = n
<1>1. PICK s \in [SUBSET S -> Nat] : AddsUp(s, S, W) /\ s[S] = n
  BY DEF SumIs
<1> DEFINE Pick(A) == CHOOSE x \in A : TRUE
           Folds(g) == g = [A \in SUBSET C |->
                              IF A = {} THEN 0 ELSE cells[Pick(A)].size + g[A \ {Pick(A)}]]
           iter == CHOOSE g : Folds(g)
<1>2. \A A \in SUBSET S : \A x \in A : s[A] = s[A \ {x}] + W[x]
  <2> TAKE A \in SUBSET S
  <2> TAKE x \in A
  <2>1. A \ {x} \in SUBSET S /\ x \in S \ (A \ {x}) /\ (A \ {x}) \cup {x} = A
    OBVIOUS
  <2>2. s[(A \ {x}) \cup {x}] = s[A \ {x}] + W[x]
    BY <2>1, <1>1 DEF AddsUp
  <2> QED BY <2>1, <2>2, Zenon
<1>3. Folds([A \in SUBSET C |-> s[A]])
  <2> DEFINE g == [A \in SUBSET C |-> s[A]]
  <2>1. ASSUME NEW A \in SUBSET C
        PROVE  g[A] = IF A = {} THEN 0 ELSE cells[Pick(A)].size + g[A \ {Pick(A)}]
    <3>1. CASE A = {}
      BY <3>1, <1>1 DEF AddsUp
    <3>2. CASE A # {}
      <4>1. Pick(A) \in A
        BY <3>2
      <4> DEFINE x == Pick(A)
      <4>2. x \in C /\ A \in SUBSET S /\ A \ {x} \in SUBSET C
        BY <4>1
      <4>3. s[A] = s[A \ {x}] + W[x] /\ W[x] = cells[x].size /\ W[x] \in Nat /\ s[A \ {x}] \in Nat
        <5>1. s[A] = s[A \ {x}] + W[x]
          BY <4>1, <4>2, <1>2
        <5>2. A \ {x} \in SUBSET S /\ x \in S
          BY <4>2
        <5> QED BY <4>2, <5>1, <5>2
      <4>4. g[A] = s[A] /\ g[A \ {x}] = s[A \ {x}]
        BY <4>2
      <4> HIDE DEF x, g
      <4>5. g[A] = cells[x].size + g[A \ {x}]
        BY <4>3, <4>4
      <4> QED BY <3>2, <4>5 DEF x
    <3> QED BY <3>1, <3>2
  <2>2. g = [A \in SUBSET C |-> g[A]]
    OBVIOUS
  <2> HIDE DEF g
  <2>3. g = [A \in SUBSET C |->
               IF A = {} THEN 0 ELSE cells[Pick(A)].size + g[A \ {Pick(A)}]]
    BY <2>1, <2>2
  <2> QED BY <2>3 DEF g
<1> HIDE DEF Folds
<1>4. Folds(iter)
  BY <1>3
<1> HIDE DEF iter
<1>5. \A A \in SUBSET C : iter[A] = IF A = {} THEN 0 ELSE cells[Pick(A)].size + iter[A \ {Pick(A)}]
  BY <1>4 DEF Folds
<1>6. \A A \in SUBSET S : s[A] = iter[A \cap C]
  <2> DEFINE Wrong == {A \in SUBSET S : s[A] # iter[A \cap C]}
  <2> SUFFICES ASSUME Wrong # {} PROVE FALSE
    OBVIOUS
  <2>4. PICK A \in Wrong : \A x \in A : A \ {x} \notin Wrong
    BY SmallestSet
  <2>5. A \in SUBSET S /\ s[A] # iter[A \cap C]
    OBVIOUS
  <2>6. \A x \in A : s[A \ {x}] = iter[(A \ {x}) \cap C]
    BY <2>4, <2>5
  <2> HIDE DEF Wrong
  <2>7. A # {}
    BY <1>1, <1>5, <2>5 DEF AddsUp
  <2>8. CASE A \cap C = {}
    <3>1. \A x \in A : W[x] = 0
      BY <2>5, <2>8
    <3>2. s[A] = 0
      BY <3>1, <2>5, <1>1 DEF AddsUp
    <3> QED BY <3>2, <2>5, <2>8, <1>5
  <2>9. CASE A \cap C # {}
    <3> DEFINE x == Pick(A \cap C)
    <3>1. x \in A \cap C
      BY <2>9
    <3>2. (A \cap C) \ {x} = (A \ {x}) \cap C
      OBVIOUS
    <3>3. iter[A \cap C] = cells[x].size + iter[(A \cap C) \ {x}]
      BY <2>9, <1>5
    <3> HIDE DEF x
    <3>4. s[A] = s[A \ {x}] + W[x]
      BY <1>2, <2>5, <3>1
    <3>5. s[A \ {x}] = iter[(A \ {x}) \cap C] /\ s[A \ {x}] \in Nat
      BY <2>5, <2>6, <3>1
    <3>6. W[x] = cells[x].size /\ W[x] \in Nat
      BY <3>1, <2>5
    <3>7. iter[A \cap C] = W[x] + s[A \ {x}]
      BY <3>2, <3>3, <3>5, <3>6
    <3>8. s[A] = iter[A \cap C]
      BY <3>4, <3>5, <3>6, <3>7
    <3> QED BY <3>8, <2>5
  <2> QED BY <2>8, <2>9
<1>7. iter[C] = n
  BY <1>1, <1>6
<1>8. Folded(cells, C) = iter[C]
  BY DEF Folded, iter, Folds
<1> QED BY <1>7, <1>8

Weights(cells, whose) ==
  [o \in Offsets |-> IF o \in LiveOf(cells) /\ cells[o].owner \in whose
                     THEN cells[o].size ELSE 0]

Weigh(cells, whose, n) == SumIs(Offsets, Weights(cells, whose), n)

LEMMA LiveLie ==
  ASSUME NEW cells, LaidOut(cells)
  PROVE  /\ \A o \in LiveOf(cells) : o \in Offsets /\ cells[o].size \in Nat /\ cells[o].owner \in Owners
         /\ \A whose : Weights(cells, whose) \in [Offsets -> Nat]
<1>1. ASSUME NEW o \in LiveOf(cells)
      PROVE  o \in Offsets /\ cells[o].size \in Nat /\ cells[o].owner \in Owners
  <2>1. /\ o \in Nat /\ Until(cells, o) \in Nat /\ o < Until(cells, o) /\ Until(cells, o) <= Size
        /\ cells[o].owner \in Owners \cup {NoOwner} /\ cells[o].size \in Nat
        /\ cells[o].owner # NoOwner
    BY DEF LaidOut, LiveOf
  <2> QED BY <2>1, WordSizes DEF Offsets
<1> QED BY <1>1 DEF Weights

LEMMA WeighsNat ==
  ASSUME NEW cells, NEW whose, NEW n, Weigh(cells, whose, n)
  PROVE  n \in Nat
  BY DEF Weigh, SumIs

LEMMA WeighsSame ==
  ASSUME NEW cells, NEW now, Stays(cells, now), NEW whose, NEW n, Weigh(cells, whose, n)
  PROVE  Weigh(now, whose, n)
<1>1. Weights(now, whose) = Weights(cells, whose)
  BY DEF Weights, Stays, Same
<1> QED BY <1>1 DEF Weigh

(* One cell's weight changed, in one step or by way of none.                *)
LEMMA WeighsOther ==
  ASSUME NEW cells, LaidOut(cells), NEW now, LaidOut(now), NEW was \in Offsets, NEW at \in Offsets,
         NEW whose, NEW n, Weigh(cells, whose, n),
         was # at => Weights(cells, whose)[at] = 0 /\ Weights(now, whose)[was] = 0,
         \A o \in Offsets \ {was, at} : Weights(now, whose)[o] = Weights(cells, whose)[o]
  PROVE  Weigh(now, whose, n - Weights(cells, whose)[was] + Weights(now, whose)[at])
<1> DEFINE W == Weights(cells, whose)
           V == Weights(now, whose)
           Z == [W EXCEPT ![was] = 0]
<1>1. W \in [Offsets -> Nat] /\ V \in [Offsets -> Nat] /\ Z \in [Offsets -> Nat]
  BY LiveLie
<1>2. n \in Nat /\ SumIs(Offsets, W, n)
  BY WeighsNat DEF Weigh
<1>3. Z[was] = 0 /\ (\A o \in Offsets \ {was} : Z[o] = W[o]) /\ Z[at] = 0
  BY <1>1
<1>4. \A o \in Offsets \ {at} : V[o] = Z[o]
  BY <1>3
<1> HIDE DEF Z, W, V
<1>5. W[was] \in Nat /\ W[was] <= n /\ V[at] \in Nat
  BY <1>1, <1>2, SumAtLeast
<1>6. SumIs(Offsets, Z, n - W[was] + Z[was])
  BY <1>1, <1>2, <1>3, SumChanges
<1>7. n - W[was] \in Nat /\ n - W[was] + Z[was] = n - W[was]
  BY <1>2, <1>3, <1>5
<1>8. SumIs(Offsets, V, n - W[was] - Z[at] + V[at])
  BY <1>1, <1>4, <1>6, <1>7, SumChanges
<1>9. n - W[was] - Z[at] + V[at] = n - W[was] + V[at]
  BY <1>3, <1>5, <1>7
<1> QED BY <1>8, <1>9 DEF Weigh, W, V

UseInv ==
  /\ Weigh(cell, Owners, inUse)
  /\ \A owner \in Owners : Weigh(cell, {owner}, ownerInUse[owner])

(* What one owner's total adds where bytes are counted to another. *)
To(owner, whose, bytes) == IF owner \in whose THEN bytes ELSE 0

LEMMA WeighsGive ==
  ASSUME NEW cells, LaidOut(cells), NEW now, LaidOut(now), NEW at, Gives(cells, now, at),
         NEW whose, NEW n, Weigh(cells, whose, n)
  PROVE  Weigh(now, whose, n - To(cells[at].owner, whose, cells[at].size))
<1>1. at \in Offsets
  BY LiveLie DEF Gives
<1>2. Weights(cells, whose)[at] = To(cells[at].owner, whose, cells[at].size)
      /\ Weights(now, whose)[at] = 0
  BY <1>1 DEF Weights, Gives, To
<1>3. \A o \in Offsets \ {at} : Weights(now, whose)[o] = Weights(cells, whose)[o]
  BY DEF Weights, Gives, Same
<1>4. Weigh(now, whose, n - Weights(cells, whose)[at] + Weights(now, whose)[at])
  BY <1>1, <1>3, WeighsOther
<1>5. n \in Nat /\ Weights(cells, whose)[at] \in Nat
  BY <1>1, WeighsNat, LiveLie
<1> QED BY <1>2, <1>4, <1>5

LEMMA WeighsTake ==
  ASSUME NEW cells, LaidOut(cells), NEW now, LaidOut(now), NEW at, Takes(cells, now, at),
         NEW whose, NEW n, Weigh(cells, whose, n)
  PROVE  Weigh(now, whose, n + To(now[at].owner, whose, now[at].size))
<1>1. at \in Offsets
  BY LiveLie DEF Takes
<1>2. Weights(now, whose)[at] = To(now[at].owner, whose, now[at].size)
      /\ Weights(cells, whose)[at] = 0
  BY <1>1 DEF Weights, Takes, To
<1>3. \A o \in Offsets \ {at} : Weights(now, whose)[o] = Weights(cells, whose)[o]
  BY DEF Weights, Takes, Same
<1>4. Weigh(now, whose, n - Weights(cells, whose)[at] + Weights(now, whose)[at])
  BY <1>1, <1>3, WeighsOther
<1>5. n \in Nat /\ Weights(now, whose)[at] \in Nat
  BY <1>1, WeighsNat, LiveLie
<1> QED BY <1>2, <1>4, <1>5

LEMMA WeighsGrow ==
  ASSUME NEW cells, LaidOut(cells), NEW now, LaidOut(now), NEW was, NEW at, Grows(cells, now, was, at),
         NEW whose, NEW n, Weigh(cells, whose, n)
  PROVE  Weigh(now, whose, n + To(cells[was].owner, whose, now[at].size - cells[was].size))
<1>1. /\ was \in Offsets /\ at \in Offsets /\ cells[was].size \in Nat /\ now[at].size \in Nat
      /\ n \in Nat
  BY LiveLie, WeighsNat DEF Grows
<1>2. /\ Weights(cells, whose)[was] = To(cells[was].owner, whose, cells[was].size)
      /\ Weights(now, whose)[at] = To(cells[was].owner, whose, now[at].size)
  BY <1>1 DEF Weights, Grows, To
<1>3. was # at => Weights(cells, whose)[at] = 0 /\ Weights(now, whose)[was] = 0
  BY <1>1 DEF Weights, Grows
<1>4. \A o \in Offsets \ {was, at} : Weights(now, whose)[o] = Weights(cells, whose)[o]
  BY DEF Weights, Grows, Same
<1>5. Weigh(now, whose, n - Weights(cells, whose)[was] + Weights(now, whose)[at])
  BY <1>1, <1>3, <1>4, WeighsOther
<1>6. n - Weights(cells, whose)[was] + Weights(now, whose)[at]
        = n + To(cells[was].owner, whose, now[at].size - cells[was].size)
  BY <1>1, <1>2 DEF To
<1> QED BY <1>5, <1>6

LEMMA CountsTo ==
  ASSUME IInv, NEW owner \in Owners, NEW bytes \in Int
  PROVE  /\ Counts(owner, bytes) =>
              /\ inUse' = inUse + To(owner, Owners, bytes)
              /\ \A who \in Owners : ownerInUse'[who] = ownerInUse[who] + To(owner, {who}, bytes)
         /\ Uncounts(owner, bytes) =>
              /\ inUse' = inUse - To(owner, Owners, bytes)
              /\ \A who \in Owners : ownerInUse'[who] = ownerInUse[who] - To(owner, {who}, bytes)
<1>1. ownerInUse \in [Owners -> Int]
  BY DEF IInv, TypeInv
<1>2. \A who \in Owners : ownerInUse[who] \in Int
  BY <1>1
<1> QED BY <1>1, <1>2 DEF Counts, Uncounts, To

LEMMA UseStep ==
  ASSUME IInv, IInv', UseInv, Moves
  PROVE  UseInv'
<1>1. LaidOut(cell) /\ LaidOut(cell')
  BY CellsLie, CellsLieOn DEF LaidOut, Until
<1>0. Weigh(cell', Owners, inUse') /\ (\A who \in Owners : Weigh(cell', {who}, ownerInUse'[who]))
        => UseInv'
  BY DEF UseInv, Weigh, Weights, LiveOf
<1>2. CASE MovesNone
  <2>1. Stays(cell, cell') /\ inUse' = inUse /\ ownerInUse' = ownerInUse
    BY <1>2 DEF MovesNone
  <2>2. Weigh(cell', Owners, inUse')
    BY <2>1, WeighsSame DEF UseInv
  <2>3. ASSUME NEW who \in Owners PROVE Weigh(cell', {who}, ownerInUse'[who])
    BY <2>1, WeighsSame DEF UseInv
  <2> QED BY <1>0, <2>2, <2>3
<1>3. CASE MovesGive
  <2>1. PICK at : Gives(cell, cell', at) /\ Uncounts(cell[at].owner, cell[at].size)
    BY <1>3 DEF MovesGive
  <2>2. cell[at].owner \in Owners /\ cell[at].size \in Int
    BY <1>1, <2>1, LiveLie DEF Gives
  <2>3. Weigh(cell', Owners, inUse')
    BY <1>1, <2>1, <2>2, WeighsGive, CountsTo DEF UseInv
  <2>4. ASSUME NEW who \in Owners PROVE Weigh(cell', {who}, ownerInUse'[who])
    <3>1. Weigh(cell, {who}, ownerInUse[who])
      BY DEF UseInv
    <3> QED BY <1>1, <2>1, <2>2, <3>1, WeighsGive, CountsTo
  <2> QED BY <1>0, <2>3, <2>4
<1>4. CASE MovesTake
  <2>1. PICK at : Takes(cell, cell', at) /\ Counts(cell'[at].owner, cell'[at].size)
    BY <1>4 DEF MovesTake
  <2>2. cell'[at].owner \in Owners /\ cell'[at].size \in Int
    BY <1>1, <2>1, LiveLie DEF Takes
  <2>3. Weigh(cell', Owners, inUse')
    BY <1>1, <2>1, <2>2, WeighsTake, CountsTo DEF UseInv
  <2>4. ASSUME NEW who \in Owners PROVE Weigh(cell', {who}, ownerInUse'[who])
    <3>1. Weigh(cell, {who}, ownerInUse[who])
      BY DEF UseInv
    <3> QED BY <1>1, <2>1, <2>2, <3>1, WeighsTake, CountsTo
  <2> QED BY <1>0, <2>3, <2>4
<1>5. CASE MovesGrow
  <2>1. PICK was, at : /\ Grows(cell, cell', was, at)
                       /\ Counts(cell[was].owner, cell'[at].size - cell[was].size)
    BY <1>5 DEF MovesGrow
  <2>2. cell[was].owner \in Owners /\ cell'[at].size - cell[was].size \in Int
    BY <1>1, <2>1, LiveLie DEF Grows
  <2>3. Weigh(cell', Owners, inUse')
    BY <1>1, <2>1, <2>2, WeighsGrow, CountsTo DEF UseInv
  <2>4. ASSUME NEW who \in Owners PROVE Weigh(cell', {who}, ownerInUse'[who])
    <3>1. Weigh(cell, {who}, ownerInUse[who])
      BY DEF UseInv
    <3> QED BY <1>1, <2>1, <2>2, <3>1, WeighsGrow, CountsTo
  <2> QED BY <1>0, <2>3, <2>4
<1> QED BY <1>2, <1>3, <1>4, <1>5 DEF Moves

LEMMA UseInit == Init => UseInv
<1> SUFFICES ASSUME Init PROVE UseInv
  OBVIOUS
<1>1. LiveOf(cell) = {} /\ inUse = 0 /\ \A owner \in Owners : ownerInUse[owner] = 0
  BY DEF Init, LiveOf
<1>2. \A whose : Weights(cell, whose) = [o \in Offsets |-> 0]
  BY <1>1 DEF Weights
<1> QED BY <1>1, <1>2, SumOfZeros DEF UseInv, Weigh

(* The totals as the folds that InUseExact takes of the cells. *)
LEMMA UseFrom ==
  ASSUME IInv, UseInv
  PROVE  InUseExact
<1>1. LaidOut(cell) /\ IsFiniteSet(Offsets)
  BY CellsLie, FS_Interval, WordSizes DEF Offsets
<1>2. ASSUME NEW C \in SUBSET LiveOf(cell), NEW whose, NEW n, Weigh(cell, whose, n),
             \A o \in LiveOf(cell) : o \in C <=> cell[o].owner \in whose
      PROVE  Folded(cell, C) = n
  <2>1. C \in SUBSET Offsets /\ Weights(cell, whose) \in [Offsets -> Nat]
    BY <1>1, LiveLie
  <2>2. \A o \in Offsets : Weights(cell, whose)[o] = IF o \in C THEN cell[o].size ELSE 0
    BY <1>2 DEF Weights
  <2>3. SumIs(Offsets, Weights(cell, whose), n)
    BY <1>2 DEF Weigh
  <2> QED BY ONLY <1>1, <2>1, <2>2, <2>3, FoldIsSum
<1>3. inUse = Counted(DOMAIN cell)
  <2> DEFINE C == {o \in DOMAIN cell : cell[o].owner # NoOwner /\ ~cell[o].complete}
  <2>1. C = LiveOf(cell)
    BY DEF LiveOf
  <2>2. Folded(cell, C) = inUse
    <3> HIDE DEF C
    <3> QED BY <1>1, <1>2, <2>1, LiveLie DEF UseInv
  <2>3. Counted(DOMAIN cell) = Folded(cell, C)
    BY DEF Counted, MapThenSumSet, MapThenFoldSet, Folded
  <2> QED BY <2>2, <2>3
<1>4. ASSUME NEW owner \in Owners
      PROVE  ownerInUse[owner] = Counted({o \in DOMAIN cell : cell[o].owner = owner})
  <2> DEFINE C == {o \in {p \in DOMAIN cell : cell[p].owner = owner} :
                     cell[o].owner # NoOwner /\ ~cell[o].complete}
  <2>1. C \in SUBSET LiveOf(cell) /\ \A o \in LiveOf(cell) : o \in C <=> cell[o].owner \in {owner}
    BY DEF LiveOf
  <2>2. Weigh(cell, {owner}, ownerInUse[owner])
    BY DEF UseInv
  <2>3. Folded(cell, C) = ownerInUse[owner]
    <3> HIDE DEF C
    <3> QED BY <1>2, <2>1, <2>2
  <2>4. Counted({o \in DOMAIN cell : cell[o].owner = owner}) = Folded(cell, C)
    BY DEF Counted, MapThenSumSet, MapThenFoldSet, Folded
  <2> QED BY <2>3, <2>4
<1> QED BY <1>3, <1>4 DEF InUseExact

-----------------------------------------------------------------------------
UseIInv == IInv /\ SpentInv /\ HeldLive

LEMMA UseIInvHolds == Spec => []UseIInv
<1>1. Init => UseIInv
  BY InitInv, SpentInit, HeldLiveInit DEF UseIInv
<1>2. UseIInv /\ [Next]_vars => UseIInv'
  <2> SUFFICES ASSUME IInv, SpentInv, HeldLive, [Next]_vars PROVE (SpentInv /\ HeldLive)'
    BY IInvStep DEF UseIInv
  <2>1. CASE UNCHANGED vars
    BY <2>1 DEF vars, counts, SpentInv, HeldLive, Spent, Marks
  <2>2. CASE \E c \in Contexts : Step(c)
    BY <2>2, SpentStep, HeldLiveStep
  <2> QED BY <2>1, <2>2, NextStep
<1> QED BY <1>1, <1>2, PTL DEF Spec

(* The allocator implements the store of its promise: each step of a take,  *)
(* a give, a writer or a rewind (carcer_laid, carcer_foot_claimed,          *)
(* carcer_spilled, carcer_grown, carcer_rewound) takes one cell clear of    *)
(* every other, gives one, grows one over bytes no other has, or none of    *)
(* these; no two contexts' interleaving makes it anything else.             *)
THEOREM StoreImplemented == Spec => ImplementsStore
<1>1. Init => Store!StoreInit
  BY DEF Init, Store!StoreInit, Taken
<1>2. UseIInv /\ UseIInv' /\ [Next]_vars => [Store!StoreNext]_Taken
  <2> SUFFICES ASSUME IInv, SpentInv, HeldLive, IInv', [Next]_vars
               PROVE  Store!StoreNext \/ UNCHANGED Taken
    BY DEF UseIInv
  <2>1. CASE UNCHANGED vars
    BY <2>1 DEF vars, Taken, EndOf
  <2>2. CASE \E c \in Contexts : Step(c)
    BY <2>2, StoreStep, StoreMoves
  <2> QED BY <2>1, <2>2, NextStep
<1> QED BY <1>1, <1>2, UseIInvHolds, PTL DEF Spec, ImplementsStore, Store!StoreSpec

LEMMA StoreApartStep == Store!StoreInv /\ [Store!StoreNext]_Taken => Store!StoreInv'
<1> SUFFICES ASSUME Store!StoreInv, [Store!StoreNext]_Taken PROVE Store!StoreInv'
  OBVIOUS
<1>1. CASE Store!TakeCell
  <2>1. PICK x \in Taken' \ Taken :
          Store!IsCell(x) /\ Store!ClearOf(x, Taken) /\ Taken' = Taken \cup {x}
    BY <1>1 DEF Store!TakeCell
  <2>2. \A y \in Taken' : Store!IsCell(y)
    BY <2>1 DEF Store!StoreInv
  <2>3. \A y, z \in Taken' : y # z => Store!Apart(y, z)
    BY <2>1 DEF Store!StoreInv, Store!ClearOf, Store!Apart
  <2> QED BY <2>2, <2>3 DEF Store!StoreInv, Store!IsCell, Store!Apart
<1>2. CASE Store!GiveCell
  BY <1>2 DEF Store!GiveCell, Store!StoreInv, Store!IsCell, Store!Apart
<1>3. CASE Store!GrowCell
  <2>1. PICK x \in Taken \ Taken', y \in Taken' \ Taken :
          /\ Store!IsCell(y) /\ Store!ClearOf(y, Taken \ {x})
          /\ Taken' = (Taken \ {x}) \cup {y}
    BY <1>3 DEF Store!GrowCell
  <2>2. \A z \in Taken' : Store!IsCell(z)
    BY <2>1 DEF Store!StoreInv
  <2>3. \A w, z \in Taken' : w # z => Store!Apart(w, z)
    BY <2>1 DEF Store!StoreInv, Store!ClearOf, Store!Apart
  <2> QED BY <2>2, <2>3 DEF Store!StoreInv, Store!IsCell, Store!Apart
<1>4. CASE UNCHANGED Taken
  BY <1>4 DEF Store!StoreInv, Store!IsCell, Store!Apart
<1> QED BY <1>1, <1>2, <1>3, <1>4 DEF Store!StoreNext

(* No two cells the allocator has taken share a byte, and each lies in the  *)
(* cellblock and counts to an owner: what a program that writes its own     *)
(* cell and no other relies on, from the promise alone.                     *)
THEOREM TakenApart == Spec => []Store!StoreInv
<1>1. Store!StoreInit => Store!StoreInv
  BY DEF Store!StoreInit, Store!StoreInv
<1>2. Store!StoreInv /\ [Store!StoreNext]_Taken => Store!StoreInv'
  BY StoreApartStep
<1> QED BY <1>1, <1>2, StoreImplemented, PTL DEF ImplementsStore, Store!StoreSpec

(* The running totals are exact in every state of every interleaving: the   *)
(* bytes in use, and each owner's, are the payload of the cells taken and   *)
(* not counted off.  carcer_laid, carcer_spilled and carcer_grown count     *)
(* what they lay, a split and a growth included; carcer_foot_claimed counts *)
(* a cell off once, whether its holder gives it or a rewind drops it.       *)
THEOREM InUseExactHolds == Spec => []InUseExact
<1>1. UseIInv /\ UseIInv' /\ UseInv /\ [Next]_vars => UseInv'
  <2> SUFFICES ASSUME IInv, SpentInv, HeldLive, IInv', UseInv, [Next]_vars
               PROVE  UseInv'
    BY DEF UseIInv
  <2>1. CASE UNCHANGED vars
    BY <2>1 DEF vars, counts, UseInv, Weigh, Weights, LiveOf
  <2>2. CASE \E c \in Contexts : Step(c)
    BY <2>2, StoreStep, UseStep
  <2> QED BY <2>1, <2>2, NextStep
<1>2. UseIInv /\ UseInv => InUseExact
  BY UseFrom DEF UseIInv
<1> QED BY <1>1, <1>2, UseInit, UseIInvHolds, PTL DEF Spec
=============================================================================
