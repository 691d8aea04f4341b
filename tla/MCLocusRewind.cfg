\* One context has the temporary tier to itself and rewinds it; requests up to
\* and past WantMost, two owners, an owner not of the table, one lane.
CONSTANTS
  Half = 65536
  Size = 528
  Align = 8
  Hdr = 16
  WantMost = 256
  Contexts = {c1, c2}
  TempContexts = {c1}
  Lanes = 1
  Owners = {o1, o2}
  Strangers = {s1}
  NoOwner = none
  Requests = {240, 264}
  Growths = {264}
  Rewinds = TRUE
VIEW Watched
SPECIFICATION Spec
INVARIANTS InUseExact RestsQuiet
