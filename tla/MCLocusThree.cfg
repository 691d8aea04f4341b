\* Three contexts over two lanes, on a half of 256 with the least headroom the
\* algorithm allows them: two cells fit, refused bumps pile up on one boundary,
\* and one more would carry.
CONSTANTS
  Half = 256
  Size = 112
  Align = 8
  Hdr = 16
  WantMost = 40
  Contexts = {c1, c2, c3}
  TempContexts = {c1, c2}
  Lanes = 2
  Owners = {o1}
  Strangers = {}
  NoOwner = none
  Requests = {40}
  Growths = {}
  Rewinds = FALSE
SYMMETRY ContextSymmetry
VIEW Watched
SPECIFICATION Spec
INVARIANTS Exclusive Overran
PROPERTIES NoCarry
