SPECIFICATION Spec
CONSTANTS
  t1 = t1
  t2 = t2
  NoOwner = NoOwner
  Threads = {t1, t2}
  Movers = {t2}
  Users = {t1}
  HeldMost <- Held
  SlotCount = 3
  ClaimBits = 2
  Requests = {1, 2}
  Wipes = TRUE
  UseWrap = 64
  Half = 64
  Size = 10
  Align = 1
  Hdr = 2
  WantMost = 8
INVARIANT MatchedPairs
CHECK_DEADLOCK FALSE
