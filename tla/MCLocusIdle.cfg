\* Two contexts give the two neighbouring cells of a tier at once.
CONSTANTS
  Half = 65536
  Size = 48
  Align = 8
  Hdr = 16
  WantMost = 256
  Contexts = {c1, c2}
  TempContexts = {}
  Lanes = 2
  Owners = {o1}
  Strangers = {}
  NoOwner = none
  Requests = {8}
  Growths = {}
  Rewinds = FALSE
SPECIFICATION Spec
INVARIANT AllBackReadsIdle
