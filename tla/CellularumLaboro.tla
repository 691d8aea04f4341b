---------------------------- MODULE CellularumLaboro ----------------------------
(***************************************************************************)
(* cellularum_laboro: the walks over terminated strings that read a word   *)
(* at a time, and the conversions of text to numbers.  A string is a       *)
(* function from offsets to bytes that goes on past the extent cap, with   *)
(* bytes no answer may depend on.  The words' lanes are VerbumScrutor's:   *)
(* here a test of a word is the set of offsets in it that pass.            *)
(***************************************************************************)
EXTENDS Integers, Sequences, FiniteSetsExt

CONSTANTS
  SwarBytes,   \* MMGR_SWAR_BYTES, the bytes of a word
  ExpLimit,    \* MMGR_MUTO_EXP_LIMIT, from which an exponent takes no digit
  ChainMost,   \* MMGR_FIND_CHAIN_MAX, the longest extent a short needle is chained over
  SieveRows,   \* MMGR_SIEVE_ROWS, the needle offsets the sieve tests
  Cost,        \* impensa_ancorae_acus: the cost of a byte, rarer is lower
  MantMost     \* MMGR_MUTO_MANT_MAX, past which a mantissa takes no digit

CellularumAssumption ==
  /\ SwarBytes \in {2, 4, 8} /\ SieveRows \in 1 .. SwarBytes
  /\ ChainMost \in Nat /\ ExpLimit \in Nat /\ MantMost \in Nat

Null == -1

Lower(b) == IF b \in 65 .. 90 THEN b + 32 ELSE b

Same(a, b, ci) == a = b \/ (ci /\ Lower(a) = Lower(b))
-----------------------------------------------------------------------------
(* A walk reads its extent in chunks: the bytes up to the first aligned    *)
(* word, whole words, and a last word of which only the rest counts.  It   *)
(* stops at the first chunk in which something stops it.                   *)

HeadBytes(base, cap) ==
  LET need == (SwarBytes - (base % SwarBytes)) % SwarBytes
  IN  IF need > cap THEN cap ELSE need

Chunks(lead, cap) ==
  LET words == (cap - lead) \div SwarBytes
      full == lead + words * SwarBytes
  IN  {<<at, 1>> : at \in 0 .. lead - 1}
        \cup {<<lead + SwarBytes * i, SwarBytes>> : i \in 0 .. words - 1}
        \cup (IF full # cap THEN {<<full, cap - full>>} ELSE {})

Span(chunk) == chunk[1] .. chunk[1] + chunk[2] - 1

\* The offsets of the first chunk with a stop in it, none when the walk runs through.
Stopped(chunks, Stops(_)) ==
  LET some == {c \in chunks : \E k \in Span(c) : Stops(k)}
  IN  IF some = {} THEN {}
      ELSE Span(CHOOSE c \in some : \A d \in some : c[1] <= d[1])

FirstOf(offsets, otherwise) == IF offsets = {} THEN otherwise ELSE Min(offsets)

Len0(src, base, cap) ==
  LET Ends(k) == src[k] = 0
  IN  FirstOf({k \in Stopped(Chunks(HeadBytes(base, cap), cap), Ends) : Ends(k)}, cap)

\* Mutant: a match past the terminator counts.
SettlePastEnd(offsets, src, byte) == FirstOf({k \in offsets : src[k] = byte}, Null)

\* The matches of a word that come before its first terminator.
Settle(offsets, src, byte) ==
  LET end == FirstOf({k \in offsets : src[k] = 0}, Max(offsets \cup {0}) + 1)
  IN  FirstOf({k \in offsets : src[k] = byte /\ k < end}, Null)

Chr(src, base, cap, byte) ==
  IF byte = 0 THEN Len0(src, base, cap)
  ELSE LET Stops(k) == src[k] \in {0, byte}
       IN  Settle(Stopped(Chunks(HeadBytes(base, cap), cap), Stops), src, byte)

Diff(src, other, cap, ci) ==
  LET Differs(k) == ~Same(src[k], other[k], ci)
  IN  FirstOf({k \in Stopped(Chunks(0, cap), Differs) : Differs(k)}, cap)

\* The verdict of the word a compare stopped in: which comes first, and who wins a tie.
AgreeLanes(ends, differs, end_wins) ==
  LET past == Max(ends \cup differs) + SwarBytes
      end == FirstOf(ends, past)
      diff == FirstOf(differs, past)
  IN  IF end_wins THEN end <= diff ELSE end < diff

Agree(src, other, cap, ci, end_wins) ==
  LET Differs(k) == ~Same(src[k], other[k], ci)
      Stops(k) == src[k] = 0 \/ Differs(k)
      word == Stopped(Chunks(0, cap), Stops)
  IN  IF word = {} THEN end_wins
      ELSE AgreeLanes({k \in word : src[k] = 0}, {k \in word : Differs(k)}, end_wins)

\* starts swaps the two: the prefix is the side whose terminator ends the compare.
Eq(src, other, cap, ci) == Agree(src, other, cap, ci, FALSE)
Starts(src, other, cap, ci) == Agree(other, src, cap, ci, TRUE)

StepWord(src, other, at, ci, end_wins) ==
  LET word == at .. at + SwarBytes - 1
      ends == {k \in word : src[k] = 0}
      differs == {k \in word : ~Same(src[k], other[k], ci)}
  IN  CASE ends \cup differs = {} -> "go"
        [] AgreeLanes(ends, differs, end_wins) -> "yes"
        [] OTHER -> "no"

StepByte(left, right, ci, end_wins) ==
  CASE left = 0 -> IF right = 0 \/ end_wins THEN "yes" ELSE "no"
    [] left # 0 /\ ~Same(left, right, ci) -> "no"
    [] OTHER -> "go"

\* Words while both sides are aligned and hold no terminator, bytes from there.
Copy(dst, dbase, src, sbase, cap) ==
  IF cap = 0 THEN [at |-> 0, dst |-> dst]
  ELSE LET limit == cap - 1
           level == dbase % SwarBytes = 0 /\ sbase % SwarBytes = 0
           words == IF level THEN limit \div SwarBytes ELSE 0
           HasZero(w) == \E k \in w * SwarBytes .. (w + 1) * SwarBytes - 1 : src[k] = 0
           moved == SwarBytes * FirstOf({w \in 0 .. words - 1 : HasZero(w)}, words)
           at == FirstOf({k \in moved .. limit - 1 : src[k] = 0}, limit)
       IN  [at |-> at, dst |-> [k \in DOMAIN dst |-> CASE k < at -> src[k]
                                                       [] k = at -> 0
                                                       [] OTHER -> dst[k]]]
-----------------------------------------------------------------------------
(* The search for a needle: words in which every start is settled at once, *)
(* and single starts where a word could read past the extent.              *)

Bytes1(from, to) == {<<at, 1>> : at \in from .. to - 1}

WordsFrom(lead, count) == {<<lead + SwarBytes * i, SwarBytes>> : i \in 0 .. count - 1}

\* The offsets tried first: as many as a word holds, cheapest first and the earlier of equals.
Rows(needle, nlen, ci) ==
  LET limit == IF nlen > SwarBytes THEN SwarBytes ELSE nlen
      want == IF limit > SieveRows THEN SieveRows ELSE limit
      CostAt(k) == Cost[IF ci THEN Lower(needle[k]) ELSE needle[k]]
      Cheapest(left) == {k \in left : CostAt(k) < 255 /\ \A l \in left : CostAt(k) <= CostAt(l)}
      Picked[row \in 0 .. want] ==
        IF row = 0 THEN {}
        ELSE Picked[row - 1] \cup {FirstOf(Cheapest(0 .. limit - 1 \ Picked[row - 1]), 0)}
  IN  Picked[want]

\* The tail of a candidate is compared in whole words, so it reads up to the next one.
WordsOver(bytes) == SwarBytes * ((bytes + SwarBytes - 1) \div SwarBytes)

\* What the search reads of a word of starts: every row's word, and each survivor's whole length.
Sieve(hay, needle, nlen, cap, ci) ==
  LET take == IF nlen > SwarBytes THEN SwarBytes ELSE nlen
      rows == Rows(needle, nlen, ci)
      tail == IF nlen > take THEN WordsOver(nlen - take) ELSE 0
      reach == Max({Max(rows) + SwarBytes, SwarBytes - 1 + take + tail})
      safe == IF cap >= reach THEN cap - reach + 1 ELSE 0
      Survives(k) == \A r \in rows : Same(hay[k + r], needle[r], ci)
      Verified(k) == \A m \in 0 .. nlen - 1 : Same(hay[k + m], needle[m], ci)
  IN [chunks |-> WordsFrom(0, safe \div SwarBytes)
                   \cup Bytes1((safe \div SwarBytes) * SwarBytes, cap - nlen + 1),
      Hits |-> {k \in DOMAIN hay : k + nlen - 1 \in DOMAIN hay /\ Verified(k)},
      Reads |-> [c \in WordsFrom(0, safe \div SwarBytes) |->
                   LET end == FirstOf({k \in Span(c) : hay[k] = 0}, c[1] + SwarBytes)
                       tried == {k \in Span(c) : k < end /\ Survives(k)}
                   IN  UNION {c[1] + r .. c[1] + r + SwarBytes - 1 : r \in rows}
                         \cup UNION {k .. k + Max({SwarBytes, take + tail}) - 1 : k \in tried}]]

\* One or two bytes: the starts of a word in one test, the second byte read one further on.
Chain(hay, base, needle, nlen, cap) ==
  LET starts == cap - nlen + 1
      span == SwarBytes + nlen - 1
      safe == IF cap >= span THEN cap - span + 1 ELSE 0
      reach == IF safe > starts THEN starts ELSE safe
      lead == HeadBytes(base, reach)
      count == (reach - lead) \div SwarBytes
  IN [chunks |-> Bytes1(0, lead) \cup WordsFrom(lead, count)
                   \cup Bytes1(lead + count * SwarBytes, starts),
      Hits |-> {k \in DOMAIN hay : k + nlen - 1 \in DOMAIN hay
                                    /\ \A m \in 0 .. nlen - 1 : hay[k + m] = needle[m]},
      Reads |-> [c \in WordsFrom(lead, count) |-> c[1] .. c[1] + span - 1]]

Find(hay, base, needle, nlen, cap, ci) ==
  LET plan == IF nlen <= 2 /\ ~ci /\ cap <= ChainMost THEN Chain(hay, base, needle, nlen, cap)
              ELSE Sieve(hay, needle, nlen, cap, ci)
      Stops(k) == hay[k] = 0 \/ k \in plan.Hits
      word == Stopped(plan.chunks, Stops)
      walked == {c \in DOMAIN plan.Reads : word = {} \/ c[1] <= Min(word)}
      end == FirstOf({k \in word : hay[k] = 0}, cap)
  IN  CASE nlen = 0 -> [at |-> 0, reads |-> {}]
        [] nlen > cap -> [at |-> Null, reads |-> {}]
        [] OTHER -> [at |-> FirstOf({k \in word \cap plan.Hits : k < end}, Null),
                     reads |-> UNION {plan.Reads[c] : c \in walked}]
-----------------------------------------------------------------------------
(* Text to numbers.  Text is a sequence of characters that ends with a     *)
(* character no number has.                                                *)

Whitespace == (9 .. 13) \cup {32}
Digit == 48 .. 57
Plus == 43
Hyphen == 45
Point == 46
Exponent == {69, 101}

\* The first position from i on whose character is not in the set.
Skipped(text, i, set) == Min({k \in i .. Len(text) : text[k] \notin set})

\* The value of the digits in i .. j-1, kept to a word of the given number of values.
Wrapped(text, i, j, values) ==
  LET Val[k \in i .. j] ==
        IF k = i THEN 0 ELSE (Val[k - 1] * 10 + text[k - 1] - 48) % values
  IN  Val[j]

ToLong(text, values) ==
  LET at == Skipped(text, 1, Whitespace)
      neg == text[at] = Hyphen
      start == IF text[at] \in {Plus, Hyphen} THEN at + 1 ELSE at
      end == Skipped(text, start, Digit)
      value == Wrapped(text, start, end, values)
      word == IF neg THEN (values - value) % values ELSE value
  IN [value |-> IF 2 * word >= values THEN word - values ELSE word,
      end |-> IF end # start THEN end ELSE 1]

ToULong(text, values) ==
  LET at == Skipped(text, 1, Whitespace)
      start == IF text[at] = Plus THEN at + 1 ELSE at
      end == Skipped(text, start, Digit)
  IN [value |-> Wrapped(text, start, end, values), end |-> IF end # start THEN end ELSE 1]

\* Mutant: a digit that finds the mantissa full goes untold.
TakenUntold(text, i, j, from) ==
  LET Took[k \in i .. j] ==
        IF k = i THEN from
        ELSE LET was == Took[k - 1]
             IN  IF was.mant <= MantMost
                 THEN [was EXCEPT !.mant = 10 * @ + text[k - 1] - 48, !.kept = @ + 1]
                 ELSE was
  IN  Took[j]

\* The digits of i .. j-1 onto a mantissa, each until one has found it full.
Taken(text, i, j, from) ==
  LET Took[k \in i .. j] ==
        IF k = i THEN from
        ELSE LET was == Took[k - 1]
                 digit == text[k - 1] - 48
             IN  IF was.mant <= MantMost
                 THEN [was EXCEPT !.mant = 10 * @ + digit, !.kept = @ + 1]
                 ELSE [was EXCEPT !.lost = @ \/ digit # 0]
  IN  Took[j]

\* The exponent whose mark stands at a position: without a digit it was not one after all.
Expo(text, mark) ==
  LET start == IF text[mark + 1] \in {Plus, Hyphen} THEN mark + 2 ELSE mark + 1
      end == Skipped(text, start, Digit)
      Ex[k \in start .. end] ==
        IF k = start THEN 0
        ELSE IF Ex[k - 1] < ExpLimit THEN 10 * Ex[k - 1] + text[k - 1] - 48 ELSE Ex[k - 1]
  IN  IF end = start THEN [ex |-> 0, end |-> mark]
      ELSE [ex |-> IF text[mark + 1] = Hyphen THEN -Ex[end] ELSE Ex[end], end |-> end]

\* What to_double hands to muto.scale, and where it leaves off.
ToDecimal(text) ==
  LET at == Skipped(text, 1, Whitespace)
      start == IF text[at] \in {Plus, Hyphen} THEN at + 1 ELSE at
      point == Skipped(text, start, Digit)
      whole == Taken(text, start, point, [mant |-> 0, kept |-> 0, lost |-> FALSE])
      over == point - start - whole.kept
      dotted == text[point] = Point
      end == IF dotted THEN Skipped(text, point + 1, Digit) ELSE point
      all == IF dotted THEN Taken(text, point + 1, end, whole) ELSE whole
      any == point # start \/ (dotted /\ end # point + 1)
      expo == IF any /\ text[end] \in Exponent THEN Expo(text, end) ELSE [ex |-> 0, end |-> end]
  IN [neg |-> text[at] = Hyphen, mant |-> all.mant, lost |-> all.lost,
      ex |-> expo.ex + over - (all.kept - whole.kept), end |-> IF any THEN expo.end ELSE 1]
-----------------------------------------------------------------------------
(* What the entries answer, and what they are asked for, byte by byte.     *)

\* A scan driven a word at a time and one driven a byte at a time, to the first verdict.
ByWords(src, other, extent, ci, end_wins) ==
  LET Verdict(w) == StepWord(src, other, w * SwarBytes, ci, end_wins)
      given == {w \in 0 .. (extent \div SwarBytes) - 1 : Verdict(w) # "go"}
  IN  IF given = {} THEN "go" ELSE Verdict(Min(given))

ByBytes(src, other, extent, ci, end_wins) ==
  LET Verdict(k) == StepByte(src[k], other[k], ci, end_wins)
      given == {k \in 0 .. extent - 1 : Verdict(k) # "go"}
  IN  IF given = {} THEN "go" ELSE Verdict(Min(given))

StringAnswer(src, base, other, cap, byte, ci, dst) ==
  [len |-> Len0(src, base, cap), chr |-> Chr(src, base, cap, byte),
   diff |-> Diff(src, other, cap, ci), eq |-> Eq(src, other, cap, ci),
   starts |-> Starts(src, other, cap, ci), copy |-> Copy(dst, 0, src, base, cap),
   words |-> [wins \in BOOLEAN |-> ByWords(src, other, 2 * SwarBytes, ci, wins)],
   bytes |-> [wins \in BOOLEAN |-> ByBytes(src, other, 2 * SwarBytes, ci, wins)]]

StringWanted(src, base, other, cap, byte, ci, dst) ==
  LET End(s) == Min({k \in 0 .. cap - 1 : s[k] = 0} \cup {cap})
      Alike(n) == \A k \in 0 .. n - 1 : Same(src[k], other[k], ci)
      found == {k \in 0 .. End(src) - 1 : src[k] = byte}
      copied == IF cap = 0 THEN 0 ELSE Min({End(src), cap - 1})
      stops == {k \in 0 .. 2 * SwarBytes - 1 : src[k] = 0 \/ ~Same(src[k], other[k], ci)}
      verdicts == [wins \in BOOLEAN |->
                     IF stops = {} THEN "go"
                     ELSE IF src[Min(stops)] = 0 /\ (wins \/ other[Min(stops)] = 0) THEN "yes" ELSE "no"]
  IN [len |-> End(src),
      chr |-> CASE byte = 0 -> End(src) [] byte # 0 /\ found = {} -> Null [] OTHER -> Min(found),
      diff |-> Max({n \in 0 .. cap : Alike(n)}),
      eq |-> End(src) < cap /\ End(other) = End(src) /\ Alike(End(src)),
      starts |-> Alike(End(other)),
      copy |-> [at |-> copied,
                dst |-> IF cap = 0 THEN dst
                        ELSE [k \in DOMAIN dst |-> IF k > copied THEN dst[k]
                                                   ELSE IF k = copied THEN 0 ELSE src[k]]],
      words |-> verdicts, bytes |-> verdicts]

\* The occurrence a search is for: the first that ends before the string does.
FindWanted(hay, needle, nlen, cap, ci) ==
  LET end == Min({k \in 0 .. cap - 1 : hay[k] = 0} \cup {cap})
      at == {k \in 0 .. end - nlen : \A m \in 0 .. nlen - 1 : Same(hay[k + m], needle[m], ci)}
  IN  CASE nlen = 0 -> 0 [] nlen # 0 /\ at = {} -> Null [] OTHER -> Min(at)

\* The number the text spells: all of its digits, wherever the mantissa stopped taking them.
DecimalWanted(text, got) ==
  LET at == Skipped(text, 1, Whitespace)
      start == IF text[at] \in {Plus, Hyphen} THEN at + 1 ELSE at
      end == Min({k \in start .. Len(text) : text[k] \notin Digit \cup {Point}
                    \/ (text[k] = Point /\ \E j \in start .. k - 1 : text[j] = Point)})
      digits == {k \in start .. end - 1 : text[k] \in Digit}
      places == Cardinality({k \in digits : \E j \in start .. k : text[j] = Point})
      number == MapThenSumSet(LAMBDA k :
                  (text[k] - 48) * 10^Cardinality({l \in digits : l > k}), digits)
      expo == IF text[end] \in Exponent THEN Expo(text, end) ELSE [ex |-> 0, end |-> end]
      dropped == got.ex - (expo.ex - places)
  IN  IF digits = {} THEN got.end = 1
      ELSE /\ got.end = expo.end
           /\ got.neg = (text[at] = Hyphen)
           /\ dropped >= 0
           /\ got.mant * 10^dropped <= number /\ number < (got.mant + 1) * 10^dropped
           /\ got.lost = (number # got.mant * 10^dropped)

LongWanted(text, values, signed) ==
  LET at == Skipped(text, 1, Whitespace)
      start == IF text[at] = Plus \/ (signed /\ text[at] = Hyphen) THEN at + 1 ELSE at
      end == Skipped(text, start, Digit)
      number == MapThenSumSet(LAMBDA k : (text[k] - 48) * 10^(end - 1 - k), start .. end - 1)
      value == (IF signed /\ text[at] = Hyphen THEN -number ELSE number) % values
  IN [value |-> IF signed /\ 2 * value >= values THEN value - values ELSE value,
      end |-> IF end = start THEN 1 ELSE end]
=============================================================================
