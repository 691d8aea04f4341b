\* Every call of two contexts ends: three calls each, one lane for both.
CONSTANTS
  Half = 65536
  Size = 48
  Align = 8
  Hdr = 16
  WantMost = 256
  Contexts = {c1, c2}
  TempContexts = {c1}
  Lanes = 1
  Owners = {o1}
  Strangers = {s1}
  NoOwner = none
  Requests = {8}
  Growths = {16}
  Rewinds = TRUE
  CallsMost = 3
SPECIFICATION LiveSpec
PROPERTIES EveryCallEnds
CHECK_DEADLOCK FALSE
