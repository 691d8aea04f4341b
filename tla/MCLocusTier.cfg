\* A temporary cell given while a persistent bump stands refused.
CONSTANTS
  Half = 65536
  Size = 48
  Align = 8
  Hdr = 16
  WantMost = 256
  Contexts = {c1, c2}
  TempContexts = {c1}
  Lanes = 2
  Owners = {o1}
  Strangers = {}
  NoOwner = none
  Requests = {8, 16}
  Growths = {}
  Rewinds = FALSE
SPECIFICATION Spec
INVARIANT PersistentInUseExact
