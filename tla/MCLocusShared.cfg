\* Two contexts share both tiers and give singly, on a 16-bit half.
CONSTANTS
  Half = 65536
  Size = 72
  Align = 8
  Hdr = 16
  WantMost = 256
  Contexts = {c1, c2}
  TempContexts = {c1, c2}
  Lanes = 2
  Owners = {o1}
  Strangers = {}
  NoOwner = none
  Requests = {5, 16}
  Growths = {16}
  Rewinds = FALSE
SYMMETRY ContextSymmetry
VIEW Watched
SPECIFICATION Spec
INVARIANTS TypeOK NoOverlap NoHole
PROPERTIES HeldIntact ImplementsStore
