SPECIFICATION MCSpec
CONSTANTS
  b1 = b1
  b2 = b2
  b3 = b3
  owner = owner
  stranger = stranger
  sram = sram
  app = app
  head = head
  stk = stk
  rtc = rtc
  ota0 = ota0
  ota1 = ota1
  boot = boot
  NoBody = NoBody
  NoSlot = NoSlot
  Bodies <- MCBodies
  Keys <- MCKeys
  BootKey = owner
  AppSlots = {ota0, ota1}
  Bootloader = boot
  Slots = {ota0, ota1, boot}
  Images <- MCImages
  Cells <- MCCells
  PoolHead = head
  Pool = {head}
  Stack = {stk}
  RtcCells = {rtc}
  Dram <- MCDram
  Iram <- MCIram
  DiramDram <- MCDiramDram
  DiramIram <- MCDiramIram
  RtcMem <- MCRtcMem
  BootStack <- MCBootStack
  BootData <- MCBootData
  LoaderText <- MCLoaderText
  Override = TRUE
  HashChunk = 2
  ClassicValid = {b1, b2}
  PartLen = 4
  SkipInDeepSleep = TRUE
  Strategy = "TLSF"
  MayFail = FALSE
  AntiRollback = FALSE
  EfuseVersion = 1
  MaxVerify = 1
  MaxResets = 1
  Overlap = TRUE
  Faulty = FALSE
INVARIANTS
  RamIsImage
CHECK_DEADLOCK FALSE
