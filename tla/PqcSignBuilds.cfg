SPECIFICATION SignSpec
CONSTANTS
  shipped = shipped
  first = first
  second = second
  odd = odd
  even = even
  NoBody = NoBody
  NoKey = NoKey
  Cut = Cut
  NoPair = NoPair
  Bodies = {}
  Keys <- MCKeys
  BootKey = shipped
  Apps <- MCApps
  Paths = {"app", "copy"}
  Unlucky = FALSE
  MaxTears = 1
  Cuts = {1122, 1216}
  InnerE8 <- MCInnerE8
  MaxLen = 12
CHECK_DEADLOCK FALSE
INVARIANTS
  SignTypeOK
  SignedVerifies
  SignedBoots
  BootsOnlyMatched
PROPERTY
  ResignKeepsImage
