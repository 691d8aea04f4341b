---------------------------------- MODULE MCPura ----------------------------------
(***************************************************************************)
(* The tools that keep no state between calls.  A call is drawn from the   *)
(* tool's inputs, the tool answers it, and the answer is held against what *)
(* was asked, worked out another way.                                      *)
(***************************************************************************)
EXTENDS Integers, SequencesExt

VARIABLES call, answer

puraVars == <<call, answer>>

Little == INSTANCE VerbumScrutor WITH Lanes <- 4, BigEndian <- FALSE
Big == INSTANCE VerbumScrutor WITH Lanes <- 4, BigEndian <- TRUE

Costs == [b \in {65, 97} |-> IF b = 65 THEN 3 ELSE 9]

Cellul == INSTANCE CellularumLaboro WITH
  SwarBytes <- 2, ChainMost <- 6, SieveRows <- 1, ExpLimit <- 400, Cost <- Costs, MantMost <- 9

\* The same with a mantissa that holds every digit printed here.
Reader == INSTANCE CellularumLaboro WITH
  SwarBytes <- 2, ChainMost <- 6, SieveRows <- 1, ExpLimit <- 400, Cost <- Costs, MantMost <- 100000

Verba == INSTANCE VerbaScribo WITH
  NarrowMost <- 255, CutDigits <- 2, WordBits <- 8, MantBits <- 2, Bias <- 13, ExpAll <- 31,
  MaxSig <- 3, FixedSig <- 3, MaxDecimals <- 2

Mem == INSTANCE MemoriaOperor WITH WordBytes <- 2

Rev == INSTANCE Endian

Muto == INSTANCE Transformo WITH
  W <- 6, MantBits <- 2, Bias <- 3, ExpAll <- 7, ExactPow10 <- 1, ExactTen <- 1, Pow5Steps <- 3

ASSUME BoundsAssumption ==
  /\ Little!LanesAssumption /\ Big!LanesAssumption
  /\ Cellul!CellularumAssumption /\ Reader!CellularumAssumption
  /\ Verba!VerbaAssumption /\ Mem!WordBytesAssumption

PuraInit == call = <<>> /\ answer = <<>>

Ask(calls) == call = <<>> /\ call' \in calls /\ UNCHANGED answer

Is(tool) == call # <<>> /\ answer = <<>> /\ call.tool = tool

Answer(got) == answer' = <<got>> /\ UNCHANGED call

Answered(tool) == answer # <<>> /\ call.tool = tool
-----------------------------------------------------------------------------
(* verbum_scrutor. *)

LaneBytes == {0, 1, 57, 64, 65, 90, 97, 122, 128, 193}
Probes == {0, 1, 48, 65, 97, 122, 127, 128, 193, 255}

LaneCalls == [tool : {"lanes"}, left : LaneBytes, right : LaneBytes, byte : Probes, ci : BOOLEAN]
Spaced(c) == <<c.left, c.right, c.right, c.left>>

MaskCalls == [tool : {"masks"}, lanes : SUBSET (0 .. 3), n : 0 .. 9, wi : 0 .. 1, big : BOOLEAN]

AnswerLanes == Is("lanes") /\ Answer(Little!LaneAnswer(Spaced(call), call.byte, call.ci))

AnswerMasks ==
  /\ Is("masks")
  /\ Answer(IF call.big THEN Big!MaskAnswer(call.lanes, call.n, call.wi)
            ELSE Little!MaskAnswer(call.lanes, call.n, call.wi))

\* verbum_scrutor.c: every lane of a word is answered from its own byte, whatever carries and
\* borrows run beside it, and masks mean the same bytes in either byte order.
LanesAlone ==
  /\ Answered("lanes") => answer[1] = Little!LaneWanted(Spaced(call), call.byte, call.ci)
  /\ Answered("masks") =>
       answer[1] = IF call.big THEN Big!MaskWanted(call.lanes, call.n, call.wi)
                   ELSE Little!MaskWanted(call.lanes, call.n, call.wi)
-----------------------------------------------------------------------------
(* cellularum_laboro: strings. *)

\* The bytes that vary, and more past them that are the same in every call.
StringCalls ==
  [tool : {"strings"}, src : [0 .. 3 -> {0, 65, 97}], other : [0 .. 2 -> {0, 65, 97}],
   base : 0 .. 1, cap : {0, 3, 4}, ci : BOOLEAN]

\* Case is no part of chr, so one of the two looks for the terminator.
Sought(c) == IF c.ci THEN 0 ELSE 97

FindCalls ==
  [tool : {"finds"}, hay : [0 .. 4 -> {0, 65, 97}], base : 0 .. 1, cap : {4, 6},
   needle : UNION {[0 .. n - 1 -> {65, 97}] : n \in 0 .. 3}, ci : BOOLEAN]

Past(s, n, byte) == [k \in 0 .. n - 1 |-> IF k \in DOMAIN s THEN s[k] ELSE byte]

Blanks == [k \in 0 .. 5 |-> 255]

AnswerStrings ==
  /\ Is("strings")
  /\ Answer(Cellul!StringAnswer(Past(call.src, 6, 97), call.base, Past(call.other, 6, 65),
                                call.cap, Sought(call), call.ci, Blanks))

AnswerFind ==
  /\ Is("finds")
  /\ Answer(Cellul!Find(Past(call.hay, 12, 97), call.base, call.needle,
                        Cardinality(DOMAIN call.needle), call.cap, call.ci))

\* cellularum_laboro.c: the walks by words answer what a walk by bytes would, no answer depends
\* on a byte past the extent or the terminator, and a search reads none past the extent.
StringsRight ==
  /\ Answered("strings") =>
       answer[1] = Cellul!StringWanted(Past(call.src, 6, 97), call.base, Past(call.other, 6, 65),
                                       call.cap, Sought(call), call.ci, Blanks)
  /\ Answered("finds") =>
       /\ answer[1].at = Cellul!FindWanted(Past(call.hay, 12, 97), call.needle,
                             Cardinality(DOMAIN call.needle), call.cap, call.ci)
       /\ \A k \in answer[1].reads : k < call.cap
-----------------------------------------------------------------------------
(* cellularum_laboro: numbers. *)

NumberCalls ==
  [tool : {"numbers"}, text : UNION {[1 .. n -> {32, 43, 45, 46, 48, 53, 101}] : n \in 1 .. 4}]

Ended(text) == Append(text, 0)

AnswerNumber ==
  /\ Is("numbers")
  /\ Answer([long |-> Cellul!ToLong(Ended(call.text), 64),
             ulong |-> Cellul!ToULong(Ended(call.text), 64),
             double |-> Cellul!ToDecimal(Ended(call.text))])

\* cellularum_laboro.c: a number read is the one the text spells, every digit a full mantissa
\* dropped put back in the exponent and told to the rounding, and the end is where it stops.
NumbersRight ==
  Answered("numbers") =>
       /\ answer[1].long = Cellul!LongWanted(Ended(call.text), 64, TRUE)
       /\ answer[1].ulong = Cellul!LongWanted(Ended(call.text), 64, FALSE)
       /\ Cellul!DecimalWanted(Ended(call.text), answer[1].double)
-----------------------------------------------------------------------------
(* verba_scribo, read back. *)

Values ==
  (0 .. 120) \cup {200, 254, 255, 256, 999, 1000, 1023, 1024, 9999, 10000, 10001, 25599, 25600,
                  25601, 65535, 99999, 100000, 999999}
Near == (0 .. 12) \cup (99 .. 101)
Reals == [neg : BOOLEAN, exp : 0 .. 31, mant : 0 .. 3]
Texts == SeqOf({9, 31, 34, 38, 60, 65, 92}, 2)

PrintCalls ==
  LET Prints(kinds, values, bases, mins, caps) ==
        [tool : {"prints"}, kind : kinds, value : values, base : bases, min : mins, cap : caps]
  IN  Prints({"uint"}, Values, {8, 10, 16}, {1, 4}, {3, 6, 9})
        \cup Prints({"i64", "clip"}, Near, {0, 3}, {1}, {2, 3, 5})
        \cup Prints({"g", "fixed"}, Reals, {0}, 0 .. 3, {5, 20})
        \cup Prints({"xml", "json"}, Texts, {0}, {0}, {5, 20})

\* A text that something stands before, over bytes that no write may leave the extent for.
Blank(cap) == [out |-> [k \in 0 .. cap + 2 |-> 255], cap |-> cap, at |-> 1]

Printed(c) ==
  CASE c.kind = "uint" -> Verba!Uint(c.value, c.base, c.min)
    [] c.kind = "i64" -> Verba!I64(c.value - 50)
    [] c.kind = "g" -> Verba!G(c.value, c.min)
    [] c.kind = "fixed" -> Verba!Fixed(c.value, c.min)
    [] c.kind = "xml" -> Verba!Xml(c.value)
    [] c.kind = "json" -> Verba!Json(c.value)

AnswerPrint ==
  /\ Is("prints")
  /\ Answer(Verba!Finish(IF call.kind = "clip" THEN Verba!U64Clip(Blank(call.cap), call.value, call.base)
                         ELSE Verba!Put(Blank(call.cap), Printed(call))))

DigitValue(c) == IF c <= 57 THEN c - 48 ELSE c - 87

ReadsNumber(text, value, base, least) ==
  /\ MapThenSumSet(LAMBDA k : DigitValue(text[k]) * base^(Len(text) - k), 1 .. Len(text)) = value
  /\ Len(text) = least \/ (Len(text) > least /\ (text[1] # 48 \/ Len(text) = 1))

\* A text whose marks are taken back: the whole of it is marks of the table and plain characters.
Unmarked(text, marks, plain) ==
  LET Back[k \in 1 .. Len(text) + 1] ==
        LET here == {m \in marks : IsPrefix(m[2], SubSeq(text, k, Len(text)))}
        IN  CASE k > Len(text) -> <<>>
              [] k <= Len(text) /\ here # {} ->
                   LET m == CHOOSE m \in here : TRUE IN <<m[1]>> \o Back[k + Len(m[2])]
              [] k <= Len(text) /\ here = {} /\ text[k] \in plain -> <<text[k]>> \o Back[k + 1]
              [] OTHER -> <<255>>
  IN  Back[1]

XmlMarks == {<<38, <<38, 97, 109, 112, 59>>>>, <<60, <<38, 108, 116, 59>>>>, <<62, <<38, 103, 116, 59>>>>,
             <<34, <<38, 113, 117, 111, 116, 59>>>>}
JsonMarks == {<<9, <<92, 116>>>>, <<34, <<92, 34>>>>, <<92, <<92, 92>>>>,
              <<31, <<92, 117, 48, 48, 49, 102>>>>}

\* The whole number n reads as is within half of a last place of the real: n at 10^u.
Nearest(n, u, real) ==
  LET w == Verba!Whole(real)
      num == w.mant * (IF w.e2 > 0 THEN 2^w.e2 ELSE 1) * (IF u < 0 THEN 10^(-u) ELSE 1)
      den == (IF w.e2 < 0 THEN 2^(-w.e2) ELSE 1) * (IF u > 0 THEN 10^u ELSE 1)
      gap == n * den - num
  IN  2 * gap <= den /\ 2 * gap >= -den

ReadsReal(text, real, sig, decimals) ==
  LET got == Reader!ToDecimal(Ended(text))
      zeros == Max({z \in 0 .. 5 : got.mant % 10^z = 0})
      mant == got.mant \div 10^zeros
      digits == Min({d \in 0 .. 6 : mant < 10^d})
  IN  /\ got.end = Len(text) + 1 /\ got.neg = real.neg /\ ~got.lost
      /\ CASE real.exp = 0 /\ real.mant = 0 -> got.mant = 0
           [] ~(real.exp = 0 /\ real.mant = 0) /\ decimals < 0 ->
                digits <= sig /\ Nearest(mant * 10^(sig - digits), got.ex + zeros - sig + digits, real)
           [] OTHER -> got.ex = -decimals /\ Nearest(got.mant, -decimals, real)

Signed(real, text) == IF real.neg THEN <<45>> \o text ELSE text

Reads(c, text) ==
  CASE c.kind = "uint" -> ReadsNumber(text, c.value, c.base, c.min)
    [] c.kind = "i64" ->
         LET got == Reader!ToLong(Ended(text), 1024)
         IN  got.value = c.value - 50 /\ got.end = Len(text) + 1
    [] c.kind = "clip" ->
         LET got == Reader!ToULong(Ended(text), 1024)
             least == IF c.value > 9 THEN 2 + (c.value \div 100) ELSE 1
         IN  \/ got.value = c.value /\ got.end = Len(text) + 1 /\ Len(text) = Max({least, c.base})
             \/ text = <<>> /\ Max({least, c.base}) > c.cap - 2
    [] c.kind = "xml" -> Unmarked(text, XmlMarks, {9, 31, 65, 92}) = c.value
    [] c.kind = "json" ->
         /\ text[1] = 34 /\ text[Len(text)] = 34
         /\ Unmarked(SubSeq(text, 2, Len(text) - 1), JsonMarks, {38, 60, 65}) = c.value
    [] c.kind \in {"g", "fixed"} /\ c.value.exp = 31 ->
         text = IF c.value.mant # 0 THEN <<110, 97, 110>> ELSE Signed(c.value, <<105, 110, 102>>)
    [] c.kind \in {"g", "fixed"} /\ c.value.exp # 31 ->
         IF c.kind = "fixed" /\ c.value.exp < 21
         THEN ReadsReal(text, c.value, 0, IF c.min < 2 THEN c.min ELSE 2)
         ELSE ReadsReal(text, c.value, IF c.kind = "g" /\ c.min < 3 THEN Max({1, c.min}) ELSE 3, -1)

\* verba_scribo.c: what is printed reads back as the value, the nearest of its last place for a
\* real, or does not fit and counts 0; and no write leaves the extent or what stands before it.
PrintedReadsBack ==
  Answered("prints") =>
    LET b == answer[1].b
        count == answer[1].count
        text == [k \in 1 .. count - 1 |-> b.out[k]]
    IN  /\ \A k \in DOMAIN b.out : k \notin 1 .. call.cap - 1 => b.out[k] = 255
        /\ count # 0 => b.out[count] = 0 /\ Reads(call, text)
        /\ call.kind # "clip" =>
             (count = 0) = (Len(FlattenSeq(Printed(call))) > call.cap - 2)
-----------------------------------------------------------------------------
(* memoria_operor, proximus_operor and endian. *)

MoveCalls ==
  LET Moves(kinds, vals) ==
        [tool : {"moves"}, kind : kinds, dst : 0 .. 7, src : 0 .. 7, bytes : 0 .. 11, val : vals]
      Fits(c) ==
        CASE c.kind = "down" -> c.dst <= c.src \/ Mem!Apart(c.dst, c.src, c.bytes)
          [] c.kind = "up" -> c.dst >= c.src
          [] c.kind = "read" -> Mem!Apart(c.dst, c.src, c.bytes)
          [] OTHER -> TRUE
  IN  {c \in Moves({"down", "up", "read"}, {0}) : Fits(c)} \cup Moves({"set", "cmp", "chr"}, {1, 2})

EndCalls ==
  [tool : {"ends"}, value : {{}, {0}, {0, 9, 17, 31}, {7, 8, 63}, 0 .. 63, {3, 12, 40, 54}},
   width : {2, 3, 4, 8}, at : 0 .. 1]

\* Bytes told apart by their place, and bytes of few values for the scans.
Places == [k \in 0 .. 19 |-> k]
Few == [k \in 0 .. 19 |-> IF k \in {5, 6, 11} THEN 2 ELSE IF k % 4 = 3 THEN 1 ELSE 0]

Moved(c) ==
  CASE c.kind = "down" -> Mem!Cpy(Places, c.dst, c.src, c.bytes)
    [] c.kind = "up" -> Mem!MoveUp(Places, c.dst, c.src, c.bytes)
    [] c.kind = "read" -> Mem!Read(Places, c.dst, c.src, c.bytes)
    [] c.kind = "set" -> Mem!Set(Places, c.dst, c.val, c.bytes)
    [] c.kind = "cmp" -> Mem!Cmp(Few, c.src, c.dst, c.bytes)
    [] c.kind = "chr" -> Mem!Chr(Few, c.src, c.val, c.bytes)

AnswerMove == Is("moves") /\ Answer(Moved(call))

Nines == [k \in 0 .. 9 |-> 9]

AnswerEnds ==
  /\ Is("ends")
  /\ LET little == Rev!WrLe(Nines, call.at, call.value, call.width)
         big == Rev!WrBe(Nines, call.at, call.value, call.width)
     IN  Answer([little |-> little, big |-> big,
                 rd_le |-> Rev!RdLe(little, call.at, call.width),
                 rd_be |-> Rev!RdBe(big, call.at, call.width)])

\* memoria_operor.c, proximus_operor.c and endian.c: a move over itself moves every byte as it
\* was, a scan answers for its extent alone, and a width written in an order reads back in it.
BytesMoved ==
  /\ Answered("moves") =>
       CASE call.kind \in {"down", "up", "read"} ->
              answer[1] = Mem!MoveWanted(Places, call.dst, call.src, call.bytes)
         [] call.kind = "set" ->
              \A k \in 0 .. 19 :
                answer[1][k] = IF k \in call.dst .. call.dst + call.bytes - 1 THEN call.val ELSE k
         [] call.kind = "cmp" -> Mem!CmpWanted(Few, call.src, call.dst, call.bytes, answer[1])
         [] call.kind = "chr" -> answer[1] = Mem!ChrWanted(Few, call.src, call.val, call.bytes)
  /\ Answered("ends") =>
       LET got == answer[1]
           width == IF call.width \in {2, 4} THEN call.width ELSE 8
           kept == call.value \cap 0 .. 8 * width - 1
           byte(k) == MapThenSumSet(LAMBDA i : 2^(i - 8 * k), kept \cap 8 * k .. 8 * k + 7)
       IN  /\ got.rd_le = kept
           /\ got.little = [k \in 0 .. 9 |-> IF k - call.at \in 0 .. width - 1 THEN byte(k - call.at) ELSE 9]
           /\ call.width # 3 =>
                /\ got.rd_be = kept
                /\ got.big = [k \in 0 .. 9 |->
                     IF k - call.at \in 0 .. width - 1 THEN byte(width - 1 - k + call.at) ELSE 9]
-----------------------------------------------------------------------------
(* transformo. *)

Words6 == {0, 1, 7, 8, 31, 32, 33, 62, 63}

RoundCalls ==
  LET Rounds(kinds, mants, e2s, exs, rests) ==
        [tool : {"rounds"}, kind : kinds, mant : mants, e2 : e2s, ex : exs, rest : rests]
  IN  Rounds({"scale"}, 0 .. 63, {0}, -8 .. 8, BOOLEAN)
        \cup Rounds({"whole"}, 0 .. 63, -8 .. 3, -6 .. 1, {FALSE})
        \cup Rounds({"pow5"}, Words6, Words6, (Words6 \ 0 .. 31) \X Words6, {FALSE})
        \cup Rounds({"pow10"}, Words6, Words6, {1}, BOOLEAN)
        \cup Rounds({"round"}, 32 .. 63, {0, 1, 32, 63}, -22 .. -7, BOOLEAN)

Held(c) == [hi |-> c.mant, lo |-> c.e2, fe2 |-> 0, rest |-> c.rest]

AnswerRound ==
  /\ Is("rounds")
  /\ Answer(
       CASE call.kind = "scale" -> Muto!Scale(call.mant, call.ex, call.rest)
         [] call.kind = "whole" -> Muto!ScaleToU64(call.mant, call.e2, call.ex)
         [] call.kind = "pow5" ->
              Muto!MulPow5(Held(call), [hi |-> call.ex[1], lo |-> call.ex[2], e2 |-> -3])
         [] call.kind = "pow10" -> Muto!MulPow10(Held(call), 10)
         [] call.kind = "round" ->
              LET v == [Held(call) EXCEPT !.fe2 = call.ex]
              IN [real |-> Muto!Round(v), whole |-> Muto!ToU64(v)])

\* transformo.c: a product keeps the top of the exact one and tells of the rest, so a power the
\* words hold is rounded once, to the nearest real with a half to even and to the nearest whole
\* number with a half up; a negative power, whose table is truncated, misses only at a half.
RoundsOnce ==
  Answered("rounds") =>
    LET got == answer[1]
        ex == call.ex
    IN  CASE call.kind = "scale" ->
               /\ ex \in 0 .. 1 => Muto!NearestReal(call.mant * Muto!Ten(ex), 1, call.rest, got)
               /\ ex \in -3 .. -1 /\ ~call.rest => Muto!NearestOrTied(call.mant, 10^(-ex), got)
          [] call.kind = "whole" ->
               LET num == call.mant * Muto!Two(call.e2) * Muto!Ten(ex)
                   den == Muto!Two(-call.e2) * Muto!Ten(-ex)
               IN  /\ ex \in 0 .. 1 => Muto!NearestWhole(num, den, got)
                   /\ ex \in -3 .. -1 /\ call.e2 >= -2 => Muto!WholeNear(num, den, 2, got)
          [] call.kind = "pow5" ->
               Muto!ProductKept(Held(call), ex[1] * 64 + ex[2], -3, got, 2)
          [] call.kind = "pow10" -> Muto!ProductKept(Held(call), 10, 0, got, 1)
          [] call.kind = "round" ->
               LET num == call.mant * 64 + call.e2
               IN  /\ Muto!NearestReal(num, 2^(-ex), call.rest, got.real)
                   /\ Muto!NearestWhole(num, 2^(-ex), got.whole)
-----------------------------------------------------------------------------
PuraNext ==
  \/ Ask(LaneCalls) \/ Ask(MaskCalls) \/ Ask(StringCalls) \/ Ask(FindCalls) \/ Ask(NumberCalls)
  \/ Ask(PrintCalls) \/ Ask(MoveCalls) \/ Ask(EndCalls) \/ Ask(RoundCalls)
  \/ AnswerLanes \/ AnswerMasks \/ AnswerStrings \/ AnswerFind \/ AnswerNumber
  \/ AnswerPrint \/ AnswerMove \/ AnswerEnds \/ AnswerRound
=============================================================================
