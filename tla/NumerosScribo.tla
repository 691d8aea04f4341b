------------------------------ MODULE NumerosScribo ------------------------------
(***************************************************************************)
(* numeros_scribo: a row of values, with or without a list of fields they  *)
(* must match, written after the string a buffer holds.  What does not     *)
(* match or does not fit is taken back by putting the terminator where it  *)
(* was.  A field is [kind, width, literal], a value [kind, as, width].     *)
(***************************************************************************)
EXTENDS NumerosStatus, FiniteSets

CONSTANTS
  Fields,      \* the lists of fields, each a sequence ending before END
  Values,      \* the rows of values
  MaxCalls     \* bounds the calls on one buffer

vars == <<out, cursor, told, calls>>

Verba == INSTANCE VerbaScribo WITH
  NarrowMost <- 255, CutDigits <- 2, WordBits <- 8, MantBits <- 2, Bias <- 13, ExpAll <- 31,
  MaxSig <- 3, FixedSig <- 3, MaxDecimals <- 2

Init ==
  /\ out = [k \in 0 .. Cap |-> IF k = 0 THEN 0 ELSE 255]
  /\ cursor = 0 /\ told = <<>> /\ calls = 0
-----------------------------------------------------------------------------
\* s_kind: the width a kind has when it is given none.
Width(kind) == CASE kind \in {"u32", "u64", "i64", "hex", "oct"} -> 1 [] kind = "g" -> 6 [] OTHER -> 0

Kinds == {"str", "u32", "u64", "i64", "dec", "hex", "oct", "g", "fix", "ch", "json", "xml"}

\* What a value writes, at its own width or the kind's.
Pieces(value, width) ==
  LET w == IF width # 0 THEN width ELSE Width(value.kind)
  IN  CASE value.kind = "str" -> <<value.as>>
        [] value.kind = "json" -> Verba!Json(value.as)
        [] value.kind = "xml" -> Verba!Xml(value.as)
        [] value.kind = "ch" -> <<<<value.as>>>>
        [] value.kind \in {"u32", "u64"} -> Verba!Uint(value.as, 10, 1)
        [] value.kind = "dec" -> Verba!Uint(value.as, 10, w)
        [] value.kind = "hex" -> Verba!Uint(value.as, 16, w)
        [] value.kind = "oct" -> Verba!Uint(value.as, 8, w)
        [] value.kind = "i64" -> Verba!I64(value.as)
        [] value.kind = "g" -> Verba!G(value.as, w)
        [] value.kind = "fix" -> Verba!Fixed(value.as, w)

\* The ends of a list and its literals have no value: one that names them is refused.
EmitOne(b, value, width) ==
  IF value.kind \in Kinds THEN Verba!Put(b, Pieces(value, width)) ELSE Verba!Over(b)

Abandon(b, at) == [b |-> [b EXCEPT !.out[at] = 0], count |-> 0]

\* Mutant: what ran over is cut at the end of the buffer and reported.
FinishCut(b, at) ==
  LET done == Verba!Finish(b)
  IN  IF done.count = 0 THEN [b |-> [b EXCEPT !.out[b.cap - 1] = 0], count |-> b.cap - 1] ELSE done

\* The count of a write that ran over is 0, and so is that of an empty one.
Finish(b, at) ==
  LET done == Verba!Finish(b)
  IN  IF done.count = 0 THEN Abandon(done.b, at) ELSE done

Buffer(at) == [out |-> out, cap |-> Cap, at |-> at]

\* How many of the values the first fields take.
Taken(spec, n) == Cardinality({m \in 1 .. n : spec[m].kind # "lit"})

\* Every field in turn until one that the next value does not match.
Build(at, spec, vals) ==
  LET Matches(n) ==
        spec[n].kind # "lit" =>
          Taken(spec, n) <= Len(vals) /\ vals[Taken(spec, n)].kind = spec[n].kind
      wrong == {n \in 1 .. Len(spec) : ~Matches(n)}
      upto == IF wrong = {} THEN Len(spec) ELSE (CHOOSE n \in wrong : \A m \in wrong : n <= m) - 1
      At[n \in 0 .. upto] ==
        IF n = 0 THEN Buffer(at)
        ELSE IF spec[n].kind = "lit" THEN Verba!PutN(At[n - 1], spec[n].literal)
        ELSE EmitOne(At[n - 1], vals[Taken(spec, n)], spec[n].width)
  IN  IF wrong # {} \/ Taken(spec, Len(spec)) # Len(vals) THEN Abandon(At[upto], at)
      ELSE Finish(At[upto], at)

Emit(at, vals) ==
  LET At[n \in 0 .. Len(vals)] ==
        IF n = 0 THEN Buffer(at) ELSE EmitOne(At[n - 1], vals[n], vals[n].width)
  IN  Finish(At[Len(vals)], at)
-----------------------------------------------------------------------------
(* The append entries. *)

Done(used, result, text) ==
  /\ calls < MaxCalls /\ calls' = calls + 1
  /\ IF used >= Cap THEN out' = out /\ cursor' = 0 /\ told' = told
     ELSE /\ out' = IF result.count = 0 THEN [result.b.out EXCEPT ![used] = 0] ELSE result.b.out
          /\ cursor' = result.count
          /\ told' = IF result.count = 0 THEN told ELSE told \o text

Concat(pieces) == LET All[n \in 0 .. Len(pieces)] == IF n = 0 THEN <<>> ELSE All[n - 1] \o pieces[n]
                  IN  All[Len(pieces)]

\* The text a row stands for, its literals in their places.
Meant(spec, vals) ==
  Concat([n \in 1 .. Len(spec) |->
            IF spec[n].kind = "lit" THEN spec[n].literal
            ELSE Concat(Pieces(vals[Taken(spec, n)], spec[n].width))])

BuildAppend(spec, vals, at) ==
  LET result == Build(Used(at), spec, vals)
  IN  Done(Used(at), result, IF result.count = 0 THEN <<>> ELSE Meant(spec, vals))

EmitAppend(vals, at) ==
  LET result == Emit(Used(at), vals)
  IN  Done(Used(at), result,
           IF result.count = 0 THEN <<>>
           ELSE Concat([n \in 1 .. Len(vals) |-> Concat(Pieces(vals[n], vals[n].width))]))

Next ==
  \E vals \in Values, at \in {0, cursor} :
    EmitAppend(vals, at) \/ \E spec \in Fields : BuildAppend(spec, vals, at)

Spec == Init /\ [][Next]_vars
-----------------------------------------------------------------------------
\* What a caller hands over: a buffer, rows and lists of fields, and no terminator in what they write.
Byte == 1 .. 255

IsSequence(s) == s \in Seq({s[n] : n \in DOMAIN s})

Writes(value, width) == value.kind \in Kinds => Pieces(value, width) \in Seq(Seq(Byte))

RowsAssumption ==
  /\ Cap \in Nat \ {0}
  /\ \A vals \in Values :
       IsSequence(vals) /\ \A n \in 1 .. Len(vals) : Writes(vals[n], vals[n].width)
  /\ \A spec \in Fields :
       IsSequence(spec) /\ \A m \in 1 .. Len(spec) :
         IF spec[m].kind = "lit" THEN spec[m].literal \in Seq(Byte)
         ELSE /\ spec[m].kind \in Kinds
              /\ \A vals \in Values : \A n \in 1 .. Len(vals) : Writes(vals[n], spec[m].width)
=============================================================================
