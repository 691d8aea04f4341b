\* Words of four lanes and strings of six bytes; lines of up to three bytes, a
\* buffer of nine, spans of four and eleven, bit buffers of two and nine.
CONSTANTS
  Capacities = {0, 1, 3}
  LineaSpaces = 2
  LeastMost = 4
  LineaDigits = 5
  MaxAsked = 5
  Cap = 9
  MaxCalls = 4
  SpanCaps = {4, 11}
  BitCaps = {2, 9}
  MaxAppends = 3
  MaxPoured = 26
SPECIFICATION Spec
INVARIANTS LanesAlone StringsRight NumbersRight PrintedReadsBack BytesMoved RoundsOnce LineKept AppendsWhole ReadsMirrorWrites
CHECK_DEADLOCK FALSE
