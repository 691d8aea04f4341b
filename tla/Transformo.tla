------------------------------- MODULE Transformo -------------------------------
(***************************************************************************)
(* transformo: a mantissa times a power of ten, as a real rounded once or  *)
(* as a whole number.  The value worked on is (hi * 2^W + lo) * 2^fe2 with *)
(* hi's top bit set, and rest when something below it was dropped.  The    *)
(* word is W bits wide, W even and past MantBits by at least two.          *)
(***************************************************************************)
EXTENDS Integers, FiniteSetsExt

CONSTANTS
  W,                        \* the bits of embed_u64
  MantBits, Bias, ExpAll,   \* MMGR_DBL_MANT_BITS, MMGR_DBL_BIAS, MMGR_DBL_EXP_ALL
  ExactPow10,               \* MMGR_MUTO_EXACT_U64_POW10: 10 to it is a word
  ExactTen,                 \* MMGR_MUTO_EXACT_POW10: 10 to it is a real
  Pow5Steps                 \* MMGR_POW5_STEPS

Word == 2^W
Top == 2^(W - 1)

\* clz.lead: the zeros above the highest bit, and of no bit at all one fewer than the word has.
Lead(word) == W - 1 - Max({i \in 0 .. W - 1 : word >= 2^i} \cup {0})

\* A product of words from the products of their halves.
Mul(left, right) ==
  LET half == 2^(W \div 2)
      p00 == (left % half) * (right % half)
      p01 == (left % half) * (right \div half)
      p10 == (left \div half) * (right % half)
      p11 == (left \div half) * (right \div half)
      mid == (p00 \div half) + (p01 % half) + (p10 % half)
  IN [hi |-> p11 + (p01 \div half) + (p10 \div half) + (mid \div half),
      lo |-> (p00 % half) + ((mid * half) % Word)]

Norm(v) ==
  LET up == IF v.hi = 0 THEN [v EXCEPT !.hi = v.lo, !.lo = 0, !.fe2 = @ - W] ELSE v
      shift == Lead(up.hi)
  IN  IF v.hi = 0 /\ v.lo = 0 THEN v
      ELSE [up EXCEPT !.hi = ((@ * 2^shift) % Word) + (up.lo \div 2^(W - shift)),
                      !.lo = (@ * 2^shift) % Word,
                      !.fe2 = @ - shift]

\* Whether a sum that is kept to a word was carried out of it.
Carried(sum, addend) == IF sum < addend THEN 1 ELSE 0

MulPow5(v, pow) ==
  LET hh == Mul(v.hi, pow.hi)
      hl == Mul(v.hi, pow.lo)
      lh == Mul(v.lo, pow.hi)
      ll == Mul(v.lo, pow.lo)
      col1a == (ll.hi + hl.lo) % Word
      col1 == (col1a + lh.lo) % Word
      carry == Carried(col1a, ll.hi) + Carried(col1, col1a)
      col2a == (hh.lo + hl.hi) % Word
      col2b == (col2a + lh.hi) % Word
      col2 == (col2b + carry) % Word
      carry2 == Carried(col2a, hh.lo) + Carried(col2b, col2a) + Carried(col2, col2b)
  IN  Norm([hi |-> hh.hi + carry2, lo |-> col2, fe2 |-> v.fe2 + pow.e2 + 2 * W,
            rest |-> v.rest \/ ll.lo # 0 \/ col1 # 0])

MulPow10(v, power) ==
  LET hh == Mul(v.hi, power)
      lh == Mul(v.lo, power)
      col == (hh.lo + lh.hi) % Word
  IN  Norm([hi |-> hh.hi + Carried(col, hh.lo), lo |-> col, fe2 |-> v.fe2 + W,
            rest |-> v.rest \/ lh.lo # 0])

\* pow5.h: 5 to the -2^step, its significand truncated toward zero to two words.
Pow5Down(step) ==
  LET five == 5^(2^step)
      up == CHOOSE s \in 0 .. 30 : 2^s \div five \in 2^(2 * W - 1) .. 2^(2 * W) - 1
      significand == 2^up \div five
  IN  [hi |-> significand \div Word, lo |-> significand % Word, e2 |-> -up]

\* A positive exponent by the exact powers a word holds, a negative one by its bits.
ApplyPow10(v, ex) ==
  LET Ups[left \in 0 .. ex] ==
        IF left = 0 THEN v
        ELSE LET take == IF left > ExactPow10 THEN ExactPow10 ELSE left
             IN  MulPow10(Ups[left - take], 10^take)
      Downs[step \in 0 .. Pow5Steps] ==
        IF step = 0 THEN v
        ELSE IF ((-ex) \div 2^(step - 1)) % 2 = 1 THEN MulPow5(Downs[step - 1], Pow5Down(step - 1))
        ELSE Downs[step - 1]
  IN  IF ex > 0 THEN Ups[ex] ELSE [Downs[Pow5Steps] EXCEPT !.fe2 = @ + ex]

Seat(mant, e2, dropped) == Norm([hi |-> mant, lo |-> 0, fe2 |-> e2 - W, rest |-> dropped])

\* The mantissa in MantBits + 1 bits, the bit under it, and whether anything is under that.
Parts(v) ==
  LET drop == W - MantBits - 1
  IN [mant |-> v.hi \div 2^drop, half |-> (v.hi \div 2^(drop - 1)) % 2,
      rest |-> v.rest \/ v.lo # 0 \/ v.hi % 2^(drop - 1) # 0]

\* A subnormal gives up the bits its exponent is short of.
Shifted(p, shift) ==
  [mant |-> p.mant \div 2^shift, half |-> (p.mant \div 2^(shift - 1)) % 2,
   rest |-> p.rest \/ p.half # 0 \/ p.mant % 2^(shift - 1) # 0]

\* Mutant: a half goes up whatever the mantissa.
EvenedUp(p, be) ==
  LET up == IF p.half # 0 THEN p.mant + 1 ELSE p.mant
  IN  IF up >= 2^(MantBits + 1) THEN [mant |-> up \div 2, be |-> be + 1]
      ELSE [mant |-> up, be |-> IF be = 0 /\ up >= 2^MantBits THEN 1 ELSE be]

\* A half goes to the even mantissa, and a mantissa that fills up takes the next exponent.
Evened(p, be) ==
  LET up == IF p.half # 0 /\ (p.rest \/ p.mant % 2 = 1) THEN p.mant + 1 ELSE p.mant
  IN  CASE up # p.mant /\ up >= 2^(MantBits + 1) -> [mant |-> up \div 2, be |-> be + 1]
        [] up # p.mant /\ up < 2^(MantBits + 1) /\ be = 0 /\ up >= 2^MantBits -> [mant |-> up, be |-> 1]
        [] OTHER -> [mant |-> up, be |-> be]

\* fract.merge: every field masked to its own width.
Merged(be, mant) == [exp |-> be % (ExpAll + 1), mant |-> mant % 2^MantBits]

Zero == Merged(0, 0)
Infinity == Merged(ExpAll, 0)

Round(v) ==
  LET drop == W - MantBits - 1
      be == v.fe2 + W + drop + MantBits + Bias
      shift == 1 - be
      even == IF be <= 0 THEN Evened(Shifted(Parts(v), shift), 0) ELSE Evened(Parts(v), be)
  IN  CASE v.hi = 0 /\ v.lo = 0 -> Zero
        [] be <= 0 /\ shift > MantBits + 8 -> Zero
        [] even.be >= ExpAll -> Infinity
        [] OTHER -> Merged(even.be, even.mant)

ToU64(v) ==
  LET total_shift == -v.fe2
      word_shift == total_shift - W
      whole == CASE word_shift = 0 -> v.hi
                 [] word_shift \in 1 .. W - 1 -> v.hi \div 2^word_shift
                 [] OTHER -> 0
      half == CASE word_shift = 0 -> v.lo \div Top
                [] word_shift \in 1 .. W - 1 -> (v.hi \div 2^(word_shift - 1)) % 2
                [] OTHER -> v.hi \div Top
  IN  CASE v.hi = 0 /\ v.lo = 0 -> 0
        [] total_shift > 2 * W -> 0
        [] total_shift < W -> Word - 1
        [] OTHER -> (whole + half) % Word
-----------------------------------------------------------------------------
(* What rounding once is.  A value is num / den, more by less than 1 / den *)
(* when some of it was dropped.                                            *)

Two(n) == IF n > 0 THEN 2^n ELSE 1
Ten(n) == IF n > 0 THEN 10^n ELSE 1

Unit == 2^(Bias + MantBits - 1)
RealValue(x) == (IF x.exp = 0 THEN x.mant ELSE x.mant + 2^MantBits) * Two(x.exp - 1)
Reals == [exp : 0 .. ExpAll - 1, mant : 0 .. 2^MantBits - 1] \cup {Infinity}

Above(real) ==
  LET next == {x \in Reals : RealValue(real) < RealValue(x)}
  IN  {x \in next : \A y \in next : RealValue(x) <= RealValue(y)}

\* Twice the distance from the middle of two reals to a value.
Side(num, den, low, high) == 2 * num * Unit - den * (RealValue(low) + RealValue(high))

\* The nearest of the reals, and of two as near the one whose mantissa is even.
NearestReal(num, den, more, real) ==
  LET even == real.mant % 2 = 0
  IN  /\ \A x \in Above(real) :
            LET side == Side(num, den, real, x) IN side < 0 \/ (side = 0 /\ even /\ ~more)
      /\ \A x \in Reals : real \in Above(x) =>
            LET side == Side(num, den, x, real) IN side > 0 \/ (side = 0 /\ (even \/ more))
-----------------------------------------------------------------------------
(* The entries. *)

\* A product or quotient of two reals held exactly is the processor's, which rounds it once.
Fast(mant, ex) == CHOOSE x \in Reals : NearestReal(mant * Ten(ex), Ten(-ex), FALSE, x)

Scale(mant, ex, dropped) ==
  LET held == ~dropped /\ mant < 2^(MantBits + 1) /\ ex \in -ExactTen .. ExactTen
  IN  IF mant = 0 THEN Zero
      ELSE CASE held -> Fast(mant, ex)
             [] ~held /\ ex > 2^Pow5Steps - 1 -> Infinity
             [] ~held /\ ex < 1 - 2^Pow5Steps -> Zero
             [] OTHER -> Round(ApplyPow10(Seat(mant, 0, dropped), ex))

ScaleToU64(mant, e2, ex) == IF mant = 0 THEN 0 ELSE ToU64(ApplyPow10(Seat(mant, e2, FALSE), ex))
-----------------------------------------------------------------------------
(* What is asked of them. *)

\* A negative power of ten is a little low, so a value between two reals goes down.
NearestOrTied(num, den, real) ==
  NearestReal(num, den, FALSE, real) \/ \A x \in Above(real) : Side(num, den, real, x) = 0

\* The nearest whole number, a half going up, or all ones for what has no word.  What would
\* round up to the first number past a word is left out: the code's sum wraps there.
NearestWhole(num, den, whole) ==
  \/ whole = Min({Word - 1, (2 * num + den) \div (2 * den)})
  \/ (2 * num + den) \div (2 * den) = Word /\ num < Word * den

\* Low by two parts in 2^(2 * W - 1) for every power of five multiplied in, and then nearest.
WholeNear(num, den, powers, whole) ==
  /\ 2 * whole * den <= 2 * num + den
  /\ \/ (2 * whole + 1) * den * 2^(2 * W - 1) >= 2 * num * (2^(2 * W - 1) - 2 * powers)
     \/ whole = Word - 1 /\ num >= Word * den
     \/ whole = 0 /\ num < Word * den /\ 2 * num + den >= 2 * Word * den

\* What a product keeps is the top of the exact one, and rest says whether that is all of it.
ProductKept(v, factor, e2, got, words) ==
  LET exact == (v.hi * Word + v.lo) * factor
      kept == exact \div Word^words
      up == v.fe2 + e2 + W * words - got.fe2
  IN  /\ up >= 0 /\ got.hi * Word + got.lo = kept * 2^up
      /\ got.rest = (v.rest \/ exact % Word^words # 0)
      /\ kept # 0 => got.hi >= Top
=============================================================================
