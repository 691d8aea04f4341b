------------------------------ MODULE VerbaScribo ------------------------------
(***************************************************************************)
(* verba_scribo: text written into a buffer of cap bytes.  Every entry is  *)
(* a sequence of pieces, each written whole or not at all; the first that  *)
(* does not fit leaves the offset at cap, where nothing fits any more.     *)
(* Characters are their codes.  A real is a sign, a biased exponent and a  *)
(* stored mantissa, as fractio takes a double apart.                       *)
(***************************************************************************)
EXTENDS Integers, SequencesExt

CONSTANTS
  NarrowMost,   \* 0xFFFFFFFF, the largest value emitted by 32 bit divisions
  CutDigits,    \* MMGR_VERBA_CUT, the digits a wider value is cut by
  WordBits,     \* the bits of an unsigned integer and of muto's mantissa, 64
  MantBits, Bias, ExpAll,       \* MMGR_DBL_MANT_BITS, MMGR_DBL_BIAS, MMGR_DBL_EXP_ALL
  MaxSig, FixedSig, MaxDecimals \* MMGR_G_MAX_SIG, 10 of verba_fixed, MMGR_FIXED_MAX_DECIMALS

VerbaAssumption ==
  /\ NarrowMost \in Nat /\ CutDigits \in Nat \ {0} /\ NarrowMost >= 10^CutDigits
  /\ MantBits \in Nat \ {0} /\ WordBits > MantBits /\ MaxSig \in Nat \ {0}

Zero == 48
-----------------------------------------------------------------------------
(* The buffer. *)

Room(b, want) == b.at < b.cap /\ want <= b.cap - b.at - 1

Written(out, at, text) ==
  [k \in DOMAIN out |-> IF k \in at .. at + Len(text) - 1 THEN text[k - at + 1] ELSE out[k]]

Over(b) == [b EXCEPT !.at = b.cap]

PutN(b, text) ==
  IF Room(b, Len(text)) THEN [b EXCEPT !.out = Written(@, b.at, text), !.at = @ + Len(text)]
  ELSE Over(b)

\* Every piece in turn, from wherever the last one left the offset.
Put(b, pieces) ==
  LET After[n \in 0 .. Len(pieces)] == IF n = 0 THEN b ELSE PutN(After[n - 1], pieces[n])
  IN  After[Len(pieces)]

\* As much of the text as there is room for, and never over.
PutClip(b, text) ==
  IF b.at >= b.cap THEN b
  ELSE LET room == b.cap - b.at - 1
           len == Min({Len(text), room})
       IN  [b EXCEPT !.out = Written(@, b.at, SubSeq(text, 1, len)), !.at = @ + len]

\* The bytes written so far, or 0 for what ran over.
Finish(b) ==
  IF b.at >= b.cap THEN [b |-> b, count |-> 0]
  ELSE [b |-> [b EXCEPT !.out = Written(@, b.at, <<0>>)], count |-> b.at]
-----------------------------------------------------------------------------
(* Integers. *)

HighBit(value) == Max({i \in 0 .. 30 : value >= 2^i})

Odd(value) == IF value % 2 = 1 THEN value ELSE value + 1

\* Mutant: the estimate is taken to be short always.
Digits10Estimate(value) == (((HighBit(Odd(value)) + 1) * 1233) \div 4096) + 1

\* The estimate is short by one for the values past the power of ten it lands on.
Digits10(value) ==
  LET bits == HighBit(Odd(value)) + 1
      est == (bits * 1233) \div 4096
  IN  est + IF Odd(value) >= 10^est THEN 1 ELSE 0

\* Two digits a step from the last, and a first one of an odd count from what is left.
Emit10(value, digits) ==
  [p \in 1 .. digits |->
     LET left == value \div 100^((digits - p) \div 2)
     IN  CASE p = 1 /\ digits % 2 = 1 -> Zero + left
           [] (digits - p) % 2 = 1 -> Zero + ((left % 100) \div 10)
           [] OTHER -> Zero + (left % 10)]

Emit20(value, digits) ==
  LET cut == 10^CutDigits
      rest == value \div cut
  IN  CASE value <= NarrowMost -> Emit10(value, digits)
        [] value > NarrowMost /\ rest <= NarrowMost ->
             Emit10(rest, digits - CutDigits) \o Emit10(value % cut, CutDigits)
        [] OTHER ->
             Emit10(rest \div cut, digits - 2 * CutDigits)
               \o Emit10(rest % cut, CutDigits) \o Emit10(value % cut, CutDigits)

HexDigit(d) == IF d < 10 THEN Zero + d ELSE 87 + d

Uint(value, base, min) ==
  LET Shifted[v \in 0 .. value] == IF v < base THEN 1 ELSE 1 + Shifted[v \div base]
      needed == IF base = 10 THEN Digits10(value) ELSE Shifted[value]
      digits == IF needed < min THEN min ELSE needed
  IN  <<IF base = 10 THEN Emit20(value, digits)
        ELSE [p \in 1 .. digits |-> HexDigit((value \div base^(digits - p)) % base)]>>

I64(value) == IF value < 0 THEN <<<<45>>>> \o Uint(-(value + 1) + 1, 10, 1) ELSE Uint(value, 10, 1)

\* Blanks to a width of columns; nothing at all when it does not fit.
U64Clip(b, value, columns) ==
  LET digits == Digits10(value)
      width == IF digits < columns THEN columns ELSE digits
  IN  IF ~Room(b, width) THEN b
      ELSE PutN(b, [k \in 1 .. width - digits |-> 32] \o Emit20(value, digits))
-----------------------------------------------------------------------------
(* Text with marks. *)

Xml(text) ==
  LET Rep(c) == CASE c = 38 -> <<38, 97, 109, 112, 59>>
                  [] c = 60 -> <<38, 108, 116, 59>>
                  [] c = 62 -> <<38, 103, 116, 59>>
                  [] c = 34 -> <<38, 113, 117, 111, 116, 59>>
                  [] OTHER -> <<c>>
  IN  [n \in 1 .. Len(text) |-> Rep(text[n])]

Short == (8 :> 98) @@ (9 :> 116) @@ (10 :> 110) @@ (12 :> 102) @@ (13 :> 114) @@ (34 :> 34) @@ (92 :> 92)

Json(text) ==
  LET Rep(c) == CASE c \in DOMAIN Short -> <<<<92>>, <<Short[c]>>>>
                  [] c \notin DOMAIN Short /\ c < 32 ->
                       <<<<92, 117, 48, 48>>, <<HexDigit(c \div 16)>>, <<HexDigit(c % 16)>>>>
                  [] OTHER -> <<<<c>>>>
  IN  <<<<34>>>> \o FlattenSeq([n \in 1 .. Len(text) |-> Rep(text[n])]) \o <<<<34>>>>
-----------------------------------------------------------------------------
(* Reals. *)

\* muto.scale_to_u64: mant * 2^e2 * 10^ex to the nearest integer, a half going up.
Scaled(mant, e2, ex) ==
  LET num == mant * (IF e2 > 0 THEN 2^e2 ELSE 1) * (IF ex > 0 THEN 10^ex ELSE 1)
      den == (IF e2 < 0 THEN 2^(-e2) ELSE 1) * (IF ex < 0 THEN 10^(-ex) ELSE 1)
  IN  (2 * num + den) \div (2 * den)

\* The mantissa with its hidden bit, and the power of two it is scaled by.
Whole(real) ==
  IF real.exp = 0 THEN [mant |-> real.mant, e2 |-> 1 - Bias - MantBits]
  ELSE [mant |-> real.mant + 2^MantBits, e2 |-> real.exp - Bias - MantBits]

Sign(real) == IF real.neg THEN <<<<45>>>> ELSE <<>>

NonFinite(real) ==
  IF real.mant # 0 THEN <<<<110, 97, 110>>>> ELSE Sign(real) \o <<<<105, 110, 102>>>>

Zeros(n) == [k \in 1 .. n |-> Zero]

\* The digits of a mantissa, with a point after the first few of them.
DigitsOf(mant, digits, point_after) ==
  LET text == Emit20(mant, digits)
  IN  IF point_after # 0 /\ point_after < digits
      THEN SubSeq(text, 1, point_after) \o <<46>> \o SubSeq(text, point_after + 1, digits)
      ELSE text

\* Trailing zeros are dropped, down to one digit.
Trim(mant, digits) ==
  LET n == Max({j \in 0 .. digits - 1 : mant % 10^j = 0})
  IN  [mant |-> mant \div 10^n, digits |-> digits - n]

G(real, wanted) ==
  LET sig == Min({MaxSig, IF wanted = 0 THEN 1 ELSE wanted})
      w == Whole(real)
      est == ((HighBit(w.mant) + w.e2) * 78913) \div 262144
      At(e) == Scaled(w.mant, w.e2, sig - 1 - e)
      e == Min({x \in est .. est + 3 : At(x) < 10^sig})
      t == Trim(At(e), sig)
      body ==
        CASE e < -4 \/ e >= sig ->
               <<DigitsOf(t.mant, t.digits, 1), <<101>>, <<IF e < 0 THEN 45 ELSE 43>>>>
                 \o Uint(IF e < 0 THEN -e ELSE e, 10, 2)
          [] e \in t.digits - 1 .. sig - 1 ->
               <<DigitsOf(t.mant, t.digits, 0), Zeros(e - t.digits + 1)>>
          [] e \in 0 .. t.digits - 2 -> <<DigitsOf(t.mant, t.digits, e + 1)>>
          [] OTHER -> <<<<Zero, 46>>, Zeros(-e - 1), DigitsOf(t.mant, t.digits, 0)>>
  IN  CASE real.exp = ExpAll -> NonFinite(real)
        [] real.exp = 0 /\ real.mant = 0 -> Sign(real) \o <<<<Zero>>>>
        [] OTHER -> Sign(real) \o body

Fixed(real, wanted) ==
  LET decimals == Min({MaxDecimals, wanted})
      w == Whole(real)
      shift == -w.e2
      int == CASE w.e2 >= 0 -> w.mant * 2^w.e2
               [] shift \in 1 .. WordBits - 1 -> w.mant \div 2^shift
               [] OTHER -> 0
      rem == CASE w.e2 >= 0 -> 0
               [] shift \in 1 .. WordBits - 1 -> w.mant - int * 2^shift
               [] OTHER -> w.mant
      frac == Scaled(rem, w.e2, decimals)
      carry == frac >= 10^decimals
      tail == IF decimals = 0 THEN <<>>
              ELSE <<<<46>>>> \o Uint(IF carry THEN 0 ELSE frac, 10, decimals)
  IN  CASE real.exp = ExpAll -> NonFinite(real)
        [] real.exp # ExpAll /\ real.exp >= Bias + WordBits ->
             Sign(real) \o G([real EXCEPT !.neg = FALSE], FixedSig)
        [] OTHER -> Sign(real) \o Uint(IF carry THEN int + 1 ELSE int, 10, 1) \o tail
=============================================================================
