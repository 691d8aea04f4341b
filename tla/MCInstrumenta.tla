------------------------------ MODULE MCInstrumenta ------------------------------
(***************************************************************************)
(* The tools that need no cellblock, one of them at a time: the stateless  *)
(* ones of MCPura, a line, a buffer of rows, a span and a bit writer.      *)
(***************************************************************************)
EXTENDS MCPura, LineaStatus, NumerosStatus, MCFluxus

CONSTANTS Capacities, LineaSpaces, LeastMost, LineaDigits, MaxAsked, MaxCalls

VARIABLE tool

lineVars == <<line, job, device, said, lost, touched>>
rowVars == <<out, cursor, told, calls>>
vars == <<tool, puraVars, lineVars, rowVars, fluxVars>>

Linea == INSTANCE VerbaLinea

Field(kind, width) == [kind |-> kind, width |-> width, literal |-> <<>>]
Lit(text) == [kind |-> "lit", width |-> 0, literal |-> text]
Val(kind, as) == [kind |-> kind, as |-> as, width |-> 0]
Real(exp, mant) == [neg |-> TRUE, exp |-> exp, mant |-> mant]

Fields ==
  {<<>>, <<Lit(<<97, 98>>)>>, <<Field("str", 0), Lit(<<44>>), Field("u32", 0)>>,
   <<Field("dec", 3), Field("hex", 0)>>, <<Field("g", 2)>>, <<Field("json", 0), Field("fix", 1)>>,
   <<Field("i64", 0), Field("xml", 0)>>, <<Field("ch", 0), Lit(<<44>>), Field("oct", 2)>>}

Rows ==
  {<<>>, <<Val("str", <<65, 65>>), Val("u32", 10)>>, <<Val("str", <<65, 65>>)>>,
   <<Val("dec", 7), Val("hex", 255)>>, <<Val("g", Real(14, 1))>>,
   <<Val("json", <<34>>), Val("fix", Real(13, 2))>>, <<Val("i64", -5), Val("xml", <<60>>)>>,
   <<Val("ch", 66), Val("oct", 9)>>, <<Val("lit", 0)>>,
   <<Val("u64", 120), Val("u32", 3), Val("u32", 4)>>}

Numeros == INSTANCE NumerosScribo WITH Values <- Rows

ASSUME LineAssumption == Linea!LineaAssumption /\ Linea!PowersAssumption

ASSUME RowsHold == Numeros!RowsAssumption

\* What is not worked keeps one initial state.
Init ==
  /\ tool \in {"pura", "linea", "numeros", "spatium", "bitorum"}
  /\ PuraInit /\ Linea!Init /\ Numeros!Init /\ FluxInit
  /\ tool # "linea" => line = Linea!LineOver(0, FALSE)
  /\ tool # "spatium" => \A c \in SpanCaps : span.span.cap <= c
  /\ tool # "bitorum" => \A c \in BitCaps : bits.cap <= c

Works(name) == tool = name /\ UNCHANGED tool

PuraStep == Works("pura") /\ PuraNext /\ UNCHANGED <<lineVars, rowVars, fluxVars>>
LineaStep == Works("linea") /\ Linea!Next /\ UNCHANGED <<puraVars, rowVars, fluxVars>>
NumerosStep == Works("numeros") /\ Numeros!Next /\ UNCHANGED <<puraVars, lineVars, fluxVars>>
SpatiumStep == Works("spatium") /\ SpanNext /\ UNCHANGED <<puraVars, lineVars, rowVars>>
BitorumStep == Works("bitorum") /\ BitNext /\ UNCHANGED <<puraVars, lineVars, rowVars>>

Next == PuraStep \/ LineaStep \/ NumerosStep \/ SpatiumStep \/ BitorumStep

Spec == Init /\ [][Next]_vars
-----------------------------------------------------------------------------
\* LineKept, AppendsWhole and ReadsMirrorWrites are stated beside the state they are of, in
\* LineaStatus, NumerosStatus and MCFluxus.
=============================================================================
