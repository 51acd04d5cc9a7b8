SPECIFICATION VFairSpec
CONSTANTS
  b1 = b1
  b2 = b2
  owner = owner
  stranger = stranger
  head = head
  scratch = scratch
  stk = stk
  app = app
  NoBody = NoBody
  NoSlot = NoSlot
  Bodies <- MCBodies
  Keys <- MCKeys
  BootKey = owner
  Slots = {s1, s2}
  Images <- MCImages
  Cells <- MCCells
  PoolHead = head
  Pool <- MCPool
  Stack <- MCStack
  Strategy = "TLSF"
  Override = TRUE
  HashChunk = 2
  MayFail = TRUE
CHECK_DEADLOCK TRUE
INVARIANTS
  AcceptsOnlySigned
  RefusesOnlyForCause
  NothingLeftOpen
  SigObjAlive
  BorrowAccounted
PROPERTY
  Answered
